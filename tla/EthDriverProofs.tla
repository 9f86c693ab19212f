-------------------------- MODULE EthDriverProofs --------------------------
(***************************************************************************)
(* The driver, proved for every number of slots, every ring and any        *)
(* traffic: the boot order of the interrupt build, that each frame is      *)
(* processed once, the types, and that the polled build sends what it      *)
(* composed.                                                               *)
(***************************************************************************)
EXTENDS EthDriver, TLAPS

\* The phases of main in which ARP is resolved, the callback installed, and the
\* handler attached but the interrupt not yet unmasked.
Resolved == {"init", "attach", "enable", "unmask", "session", "idle", "halt"}
Installed == Resolved \ {"init"}
Attached == {"enable", "unmask"}

\* What each phase of main can rely on; HandlerReady alone is not inductive,
\* since IrqUnmask does not look at the handler.
BootOrder ==
    /\ phase \in Resolved => cached_mac
    /\ phase \in Installed => rx_callback
    /\ phase \in Attached => attached
    /\ mask => attached /\ rx_callback /\ cached_mac

\* Steps that change neither the enables nor anything BootOrder speaks of.
LEMMA Unrelated ==
    ASSUME BootOrder, UNCHANGED <<phase, cached_mac, rx_callback, attached, mask>>
    PROVE  BootOrder'
  BY DEF BootOrder

\* udp.c, in whichever context, only ever adds to what is known.
LEMMA UdpKeepsOrder ==
    ASSUME BootOrder, NEW c \in Context, UdpStep(c)
    PROVE  BootOrder'
  <1>1. CASE ServiceSlot(c)
    BY <1>1, Unrelated DEF ServiceSlot, boot, irq
  <1>2. CASE ProcessFrame(c)
    <2>1. cached_mac => cached_mac'
      BY <1>2 DEF ProcessFrame, LearnMac
    <2>2. UNCHANGED <<phase, rx_callback, attached, mask>>
      BY <1>2 DEF ProcessFrame, boot, irq
    <2> QED
      BY <2>1, <2>2 DEF BootOrder
  <1>3. CASE ServiceAck(c)
    BY <1>3, Unrelated DEF ServiceAck, boot, irq, udp
  <1>4. CASE SendWait(c)
    BY <1>4, Unrelated DEF SendWait, boot, irq, udp
  <1>5. CASE SendRegs(c)
    BY <1>5, Unrelated DEF SendRegs, boot, irq, udp
  <1>6. CASE SendStart(c)
    BY <1>6, Unrelated DEF SendStart, boot, irq, udp
  <1>7. CASE SendAdvance(c)
    BY <1>7, Unrelated DEF SendAdvance, boot, irq
  <1> QED
    BY <1>1, <1>2, <1>3, <1>4, <1>5, <1>6, <1>7 DEF UdpStep

\* main's boot code establishes one fact per phase.
LEMMA BootKeepsOrder ==
    ASSUME BootOrder, BootStep
    PROVE  BootOrder'
  <1> USE DEF Resolved, Installed, Attached
  <1>1. CASE UdpStart
    BY <1>1 DEF UdpStart, At, BootOrder
  <1>2. CASE ArpEnter
    BY <1>2 DEF ArpEnter, At, BootOrder, irq, udp
  <1>3. CASE ArpRequest
    BY <1>3, Unrelated DEF ArpRequest, irq
  <1>4. CASE ArpPoll
    BY <1>4, Unrelated DEF ArpPoll, irq, udp
  <1>5. CASE ArpResolved
    BY <1>5 DEF ArpResolved, At, BootOrder, irq, udp
  <1>6. CASE ArpGiveUp
    BY <1>6 DEF ArpGiveUp, At, BootOrder, irq, udp
  <1>7. CASE IoInit
    BY <1>7 DEF IoInit, At, BootOrder, irq
  <1>8. CASE IrqAttach
    BY <1>8 DEF IrqAttach, At, BootOrder, udp
  <1>9. CASE IrqEnable
    BY <1>9 DEF IrqEnable, At, BootOrder, udp
  <1>10. CASE IrqUnmask
    BY <1>10 DEF IrqUnmask, At, BootOrder, udp
  <1> QED
    BY <1>1, <1>2, <1>3, <1>4, <1>5, <1>6, <1>7, <1>8, <1>9, <1>10 DEF BootStep

\* The session leaves the enables alone.
LEMMA SessionKeepsOrder ==
    ASSUME BootOrder, SessionStep
    PROVE  BootOrder'
  <1>1. CASE Cleanup \/ Fatal
    BY <1>1 DEF Cleanup, Fatal, At, BootOrder, irq, udp, Resolved, Installed, Attached
  <1>2. CASE RecvCb \/ Pump \/ SendCb
    BY <1>2, Unrelated DEF RecvCb, Pump, SendCb, irq, udp, boot
  <1>3. CASE SendCopy \/ UdpSendLen \/ UdpSendHeader \/ IdlePoll
    BY <1>3, Unrelated DEF SendCopy, UdpSendLen, UdpSendHeader, IdlePoll, irq, udp, boot
  <1> QED
    BY <1>1, <1>2, <1>3 DEF SessionStep

\* Whenever an interrupt can be taken (event enabled and unmasked) its handler is
\* attached, the callback of the ring installed and ARP, which polls, is over:
\* isr() never meets an irq without a handler, which it would mask for good.
THEOREM HandlerCorrect == Spec => []HandlerReady
  <1>1. Init => BootOrder
    BY DEF Init, BootOrder, Resolved, Installed, Attached
  <1>2. BootOrder /\ [Next]_vars => BootOrder'
    <2> SUFFICES ASSUME BootOrder, [Next]_vars PROVE BootOrder'
      OBVIOUS
    <2>1. CASE Arrive \/ ArpReply \/ ArpLost \/ TxDone
      BY <2>1, Unrelated DEF Arrive, ArpReply, ArpLost, TxDone, irq, udp, boot
    <2>2. CASE IrqEnter
      BY <2>2 DEF IrqEnter, BootOrder, udp, boot
    <2>3. CASE IsrLoop
      BY <2>3, Unrelated DEF IsrLoop, irq, udp, boot
    <2>4. CASE UdpStep("isr") \/ UdpStep("main")
      BY <2>4, UdpKeepsOrder DEF Context
    <2>5. CASE BootStep
      BY <2>5, BootKeepsOrder
    <2>6. CASE SessionStep
      BY <2>6, SessionKeepsOrder
    <2>7. CASE UNCHANGED vars
      BY <2>7, Unrelated DEF vars, irq, udp, boot
    <2> QED
      BY <2>1, <2>2, <2>3, <2>4, <2>5, <2>6, <2>7 DEF Next, Isr
  <1>3. BootOrder => HandlerReady
    BY DEF BootOrder, HandlerReady
  <1> QED
    BY <1>1, <1>2, <1>3, PTL DEF Spec

-----------------------------------------------------------------------------
(* Each frame is processed once *)

\* The slot k places before w in the MAC's ring of receive slots.
Back(w, k) == IF w >= k THEN w - k ELSE w - k + ETHMAC_RX_SLOTS

\* Filled slots are consecutive and end before the one written next.
FifoShape ==
    /\ wslot \in RxSlot /\ rxslot \in RxSlot
    /\ rxfifo \in Seq(RxSlot) /\ Len(rxfifo) <= ETHMAC_RX_SLOTS
    /\ rxdone \in [RxSlot -> 0 .. 2]
    /\ \A i \in 1 .. Len(rxfifo) : rxfifo[i] = Back(wslot, Len(rxfifo) + 1 - i)

\* Positions in udp.c, in its callers, and in dtls_send_cb.
Label == {"off", "loop", "top", "slot", "frame", "ack", "wait", "regs", "go", "advance",
          "memcpy", "udp_send", "header"}

Sending == {"wait", "regs", "go", "advance"}

\* Context c is inside udp_service, and past process_frame.
Served(c) == pc[c] = "ack" \/ (pc[c] \in Sending /\ ra[c] = "ack")
Serving(c) == pc[c] \in {"slot", "frame"} \/ Served(c)

\* Who may be inside udp_service: the ISR only once main has unmasked it, main
\* not in the session of the interrupt build.
Callers ==
    /\ pc \in [Context -> Label] /\ ra \in [Context -> {"ack", "top"}]
    /\ ra["isr"] = "ack"
    /\ mask \/ pc["isr"] # "off" => DTLS_RX_IRQ /\ phase \in {"session", "idle", "halt"}
    /\ phase \in {"start", "init", "attach", "enable", "unmask", "halt"} => pc["main"] = "top"
    /\ phase \in {"attach", "enable", "unmask"} => DTLS_RX_IRQ
    /\ DTLS_RX_IRQ /\ phase = "session" => ~Serving("main")

Unshared == ~(DTLS_RX_IRQ /\ phase = "idle")

\* Only the head of the queue has been processed, and only by a context that is
\* on its way to acknowledge it.
FramesOnce ==
    /\ \A i \in 2 .. Len(rxfifo) : rxdone[rxfifo[i]] = 0
    /\ \A c \in Context : Serving(c) => rxfifo # <<>>
    /\ \A c \in Context : pc[c] = "frame" => rxslot = rxfifo[1]
    /\ \A c \in Context : Served(c) => rxdone[rxfifo[1]] = 1
    /\ rxfifo # <<>> /\ (\A c \in Context : ~Served(c)) => rxdone[rxfifo[1]] = 0

OnceInv == FifoShape /\ Callers /\ (Unshared => FramesOnce)


\* Counting backwards in a ring.
LEMMA BackFacts ==
    ASSUME NEW w \in RxSlot
    PROVE  /\ (w + 1) % ETHMAC_RX_SLOTS \in RxSlot
           /\ Back((w + 1) % ETHMAC_RX_SLOTS, 1) = w
           /\ \A k \in 1 .. ETHMAC_RX_SLOTS - 1 :
                 /\ Back((w + 1) % ETHMAC_RX_SLOTS, k + 1) = Back(w, k)
                 /\ Back(w, k) # w
           /\ \A k \in 2 .. ETHMAC_RX_SLOTS : \A l \in 1 .. k - 1 : Back(w, k) # Back(w, l)
  <1>1. ETHMAC_RX_SLOTS \in Nat \ {0}
    BY DriverAssumption
  <1>2. (w + 1) % ETHMAC_RX_SLOTS = IF w = ETHMAC_RX_SLOTS - 1 THEN 0 ELSE w + 1
    BY <1>1 DEF RxSlot
  <1> QED
    BY <1>1, <1>2 DEF Back, RxSlot

\* A frame is stored behind the others and in none of their slots.
LEMMA ReceiveShape ==
    ASSUME FifoShape, NEW kind, Receive(kind), rxslot' = rxslot
    PROVE  /\ FifoShape'
           /\ Len(rxfifo') >= Len(rxfifo)
           /\ \A i \in 1 .. Len(rxfifo) : /\ rxfifo'[i] = rxfifo[i]
                                          /\ rxdone'[rxfifo[i]] = rxdone[rxfifo[i]]
           /\ \A i \in Len(rxfifo) + 1 .. Len(rxfifo') : rxdone'[rxfifo'[i]] = 0
  <1>0. ETHMAC_RX_SLOTS \in Nat \ {0}
    BY DriverAssumption
  <1>1. CASE Len(rxfifo) < ETHMAC_RX_SLOTS
    <2>1. /\ rxdone' = [rxdone EXCEPT ![wslot] = 0] /\ rxfifo' = Append(rxfifo, wslot)
          /\ wslot' = (wslot + 1) % ETHMAC_RX_SLOTS
      BY <1>1 DEF Receive
    <2>2. wslot \in RxSlot /\ wslot' \in RxSlot
      BY <2>1, BackFacts DEF FifoShape
    <2>3. /\ rxfifo' \in Seq(RxSlot) /\ Len(rxfifo') = Len(rxfifo) + 1
          /\ \A i \in 1 .. Len(rxfifo) : rxfifo'[i] = rxfifo[i]
          /\ rxfifo'[Len(rxfifo) + 1] = wslot
      BY <2>1, <2>2 DEF FifoShape
    <2>4. rxdone' \in [RxSlot -> 0 .. 2]
      BY <2>1, <2>2 DEF FifoShape
    <2>5. ASSUME NEW i \in 1 .. Len(rxfifo)
          PROVE  /\ rxfifo'[i] = Back(wslot', Len(rxfifo') + 1 - i)
                 /\ rxfifo[i] \in RxSlot /\ rxfifo[i] # wslot
      <3> DEFINE k == Len(rxfifo) + 1 - i
      <3>1. k \in 1 .. ETHMAC_RX_SLOTS - 1 /\ Len(rxfifo') + 1 - i = k + 1
        BY <1>0, <1>1, <2>3 DEF FifoShape
      <3>2. rxfifo[i] = Back(wslot, k) /\ rxfifo[i] \in RxSlot
        BY DEF FifoShape
      <3>3. Back(wslot', k + 1) = Back(wslot, k) /\ Back(wslot, k) # wslot
        BY <3>1, <2>1, <2>2, BackFacts
      <3> QED
        BY <2>3, <3>1, <3>2, <3>3
    <2>6. rxfifo'[Len(rxfifo')] = Back(wslot', 1)
      BY <2>1, <2>2, <2>3, BackFacts
    <2>7. \A i \in 1 .. Len(rxfifo') : rxfifo'[i] = Back(wslot', Len(rxfifo') + 1 - i)
      <3> TAKE i \in 1 .. Len(rxfifo')
      <3>1. CASE i \in 1 .. Len(rxfifo)
        BY <3>1, <2>5
      <3>2. CASE i = Len(rxfifo')
        BY <3>2, <2>6, <2>3
      <3> QED
        BY <3>1, <3>2, <2>3
    <2>8. \A i \in 1 .. Len(rxfifo) : rxdone'[rxfifo[i]] = rxdone[rxfifo[i]]
      BY <2>1, <2>5 DEF FifoShape
    <2>9. rxdone'[wslot] = 0
      BY <2>1, <2>2 DEF FifoShape
    <2> QED
      BY <1>0, <1>1, <2>2, <2>3, <2>4, <2>7, <2>8, <2>9 DEF FifoShape
  <1>2. CASE ~(Len(rxfifo) < ETHMAC_RX_SLOTS)
    <2>1. UNCHANGED <<rxmem, rxdone, rxfifo, wslot>>
      BY <1>2 DEF Receive, rxhw
    <2> QED
      BY <2>1 DEF FifoShape
  <1> QED
    BY <1>1, <1>2

\* Acknowledging the oldest frame leaves the others as they are.
LEMMA PopShape ==
    ASSUME FifoShape, PopRx, UNCHANGED <<rxdone, wslot>>, rxslot' \in RxSlot
    PROVE  /\ FifoShape'
           /\ rxfifo # <<>> => /\ Len(rxfifo') = Len(rxfifo) - 1
                               /\ \A i \in 1 .. Len(rxfifo') : rxfifo'[i] = rxfifo[i + 1]
           /\ rxfifo = <<>> => rxfifo' = <<>>
  <1>0. ETHMAC_RX_SLOTS \in Nat \ {0}
    BY DriverAssumption
  <1>1. CASE rxfifo = <<>>
    BY <1>1 DEF PopRx, FifoShape
  <1>2. CASE rxfifo # <<>>
    <2>1. rxfifo' = Tail(rxfifo)
      BY <1>2 DEF PopRx
    <2>2. /\ rxfifo' \in Seq(RxSlot) /\ Len(rxfifo') = Len(rxfifo) - 1
          /\ \A i \in 1 .. Len(rxfifo') : rxfifo'[i] = rxfifo[i + 1]
      BY <1>2, <2>1 DEF FifoShape
    <2>3. ASSUME NEW i \in 1 .. Len(rxfifo')
          PROVE  rxfifo'[i] = Back(wslot', Len(rxfifo') + 1 - i)
      <3>1. i + 1 \in 1 .. Len(rxfifo) /\ Len(rxfifo) + 1 - (i + 1) = Len(rxfifo') + 1 - i
        BY <2>2 DEF FifoShape
      <3> QED
        BY <3>1, <2>2 DEF FifoShape
    <2> QED
      BY <1>0, <1>2, <2>2, <2>3 DEF FifoShape
  <1> QED
    BY <1>1, <1>2


\* Who calls udp_service is decided by the build and the phase of main.
LEMMA CallersUdp ==
    ASSUME Callers, NEW c \in Context, UdpStep(c)
    PROVE  Callers'
  <1> USE DEF Context, Label, Callers, Serving, Served, Sending, Goto
  <1>1. CASE ServiceSlot(c)
    BY <1>1 DEF ServiceSlot, irq, boot, send
  <1>2. CASE ProcessFrame(c)
    BY <1>2 DEF ProcessFrame, Answer, irq, boot
  <1>3. CASE ServiceAck(c)
    BY <1>3 DEF ServiceAck, irq, boot, send
  <1>4. CASE SendWait(c)
    BY <1>4 DEF SendWait, irq, boot, send
  <1>5. CASE SendRegs(c)
    BY <1>5 DEF SendRegs, irq, boot, send
  <1>6. CASE SendStart(c)
    BY <1>6 DEF SendStart, irq, boot, send
  <1>7. CASE SendAdvance(c)
    BY <1>7 DEF SendAdvance, irq, boot, send
  <1> QED
    BY <1>1, <1>2, <1>3, <1>4, <1>5, <1>6, <1>7 DEF UdpStep

\* main's boot code polls with interrupts off.
LEMMA CallersBoot ==
    ASSUME Callers, BootStep
    PROVE  Callers'
  <1> USE DEF Context, Label, Callers, Serving, Served, Sending, Goto, At, CallService
  <1>1. CASE UdpStart
    BY <1>1 DEF UdpStart, send
  <1>2. CASE ArpEnter
    BY <1>2 DEF ArpEnter, irq, send
  <1>3. CASE ArpRequest
    BY <1>3 DEF ArpRequest, irq
  <1>4. CASE ArpPoll
    BY <1>4 DEF ArpPoll, irq, send
  <1>5. CASE ArpResolved
    BY <1>5 DEF ArpResolved, irq, send
  <1>6. CASE ArpGiveUp
    BY <1>6 DEF ArpGiveUp, irq, send
  <1>7. CASE IoInit
    BY <1>7 DEF IoInit, irq, send
  <1>8. CASE IrqAttach \/ IrqEnable
    BY <1>8 DEF IrqAttach, IrqEnable, send
  <1>9. CASE IrqUnmask
    BY <1>9 DEF IrqUnmask, send
  <1> QED
    BY <1>1, <1>2, <1>3, <1>4, <1>5, <1>6, <1>7, <1>8, <1>9 DEF BootStep

\* In the session main polls in the polled build only.
LEMMA CallersSession ==
    ASSUME Callers, SessionStep
    PROVE  Callers'
  <1> USE DEF Context, Label, Callers, Serving, Served, Sending, Goto, At, CallService
  <1>1. CASE RecvCb
    BY <1>1 DEF RecvCb, irq, send, boot
  <1>2. CASE Pump
    BY <1>2 DEF Pump, irq, send, boot
  <1>3. CASE SendCb
    BY <1>3 DEF SendCb, irq, boot
  <1>4. CASE SendCopy
    BY <1>4 DEF SendCopy, irq, send, boot
  <1>5. CASE UdpSendLen
    BY <1>5 DEF UdpSendLen, irq, send, boot
  <1>6. CASE UdpSendHeader
    BY <1>6 DEF UdpSendHeader, irq, boot
  <1>7. CASE Cleanup \/ Fatal
    BY <1>7 DEF Cleanup, Fatal, irq, send
  <1>8. CASE IdlePoll
    BY <1>8 DEF IdlePoll, irq, send, boot
  <1> QED
    BY <1>1, <1>2, <1>3, <1>4, <1>5, <1>6, <1>7, <1>8 DEF SessionStep

\* Steps outside udp_service, and those of send_packet on behalf of it.
LEMMA Stays ==
    ASSUME FifoShape, FramesOnce, UNCHANGED <<rxfifo, rxdone, wslot, rxslot>>,
           \A c \in Context : /\ Served(c)' <=> Served(c)
                              /\ Serving(c)' => Serving(c) \/ rxfifo # <<>>
                              /\ pc'[c] = "frame" => pc[c] = "frame"
    PROVE  FifoShape' /\ FramesOnce'
  <1>1. FifoShape'
    BY DEF FifoShape
  <1>2. FramesOnce'
    BY DEF FramesOnce
  <1> QED
    BY <1>1, <1>2

\* A frame arrives: whatever a context is doing with the head goes on.
LEMMA ArrivalKeepsOnce ==
    ASSUME FifoShape, FramesOnce, NEW kind, Receive(kind), UNCHANGED <<rxslot, pc, ra>>
    PROVE  FramesOnce'
  <1>1. /\ FifoShape' /\ Len(rxfifo') >= Len(rxfifo)
        /\ \A i \in 1 .. Len(rxfifo) : /\ rxfifo'[i] = rxfifo[i]
                                       /\ rxdone'[rxfifo[i]] = rxdone[rxfifo[i]]
        /\ \A i \in Len(rxfifo) + 1 .. Len(rxfifo') : rxdone'[rxfifo'[i]] = 0
    BY ReceiveShape
  <1>2. \A c \in Context : (Serving(c)' <=> Serving(c)) /\ (Served(c)' <=> Served(c))
    BY DEF Serving, Served
  <1>3. rxfifo # <<>> => Len(rxfifo) >= 1
    BY DEF FifoShape
  <1>4. rxfifo' # <<>> => Len(rxfifo') >= 1
    BY <1>1 DEF FifoShape
  <1>5. Len(rxfifo) \in Nat /\ Len(rxfifo') \in Nat
    BY <1>1 DEF FifoShape
  <1>6. \A i \in 2 .. Len(rxfifo') : rxdone'[rxfifo'[i]] = 0
    BY <1>1, <1>5 DEF FramesOnce
  <1>7. CASE rxfifo = <<>>
    <2>1. \A c \in Context : ~Serving(c) /\ ~Served(c) /\ pc[c] # "frame"
      BY <1>7 DEF FramesOnce, Serving
    <2>2. rxfifo' # <<>> => rxdone'[rxfifo'[1]] = 0
      BY <1>1, <1>4, <1>5, <1>7
    <2> QED
      BY <1>2, <1>6, <2>1, <2>2 DEF FramesOnce
  <1>8. CASE rxfifo # <<>>
    <2>1. 1 \in 1 .. Len(rxfifo) /\ rxfifo' # <<>>
      BY <1>1, <1>3, <1>5, <1>8
    <2>2. rxfifo'[1] = rxfifo[1] /\ rxdone'[rxfifo'[1]] = rxdone[rxfifo[1]]
      BY <1>1, <2>1
    <2> QED
      BY <1>2, <1>6, <1>8, <2>1, <2>2 DEF FramesOnce
  <1> QED
    BY <1>7, <1>8

\* While udp_service is not shared, one context at most is inside it.
LEMMA Alone ==
    ASSUME Callers, Unshared, NEW c \in Context, Running(c), Serving(c),
           NEW d \in Context, d # c
    PROVE  ~Serving(d)
  BY DEF Callers, Unshared, Running, Serving, Served, Sending, Context

\* Once the head is acknowledged no context is inside udp_service, and the next
\* frame has not been looked at.
LEMMA PopKeepsOnce ==
    ASSUME FifoShape, FramesOnce, PopRx, UNCHANGED <<rxdone, wslot>>, rxslot' \in RxSlot,
           \A d \in Context : ~Serving(d)'
    PROVE  FifoShape' /\ FramesOnce'
  <1>1. /\ FifoShape'
        /\ rxfifo # <<>> => /\ Len(rxfifo') = Len(rxfifo) - 1
                            /\ \A i \in 1 .. Len(rxfifo') : rxfifo'[i] = rxfifo[i + 1]
        /\ rxfifo = <<>> => rxfifo' = <<>>
    BY PopShape
  <1>2. CASE rxfifo = <<>>
    BY <1>1, <1>2 DEF FramesOnce, Serving
  <1>3. CASE rxfifo # <<>>
    <2>1. \A i \in 1 .. Len(rxfifo') : rxdone'[rxfifo'[i]] = 0
      BY <1>1, <1>3 DEF FramesOnce, FifoShape
    <2>2. rxfifo' # <<>> => rxdone'[rxfifo'[1]] = 0
      BY <1>1, <2>1 DEF FifoShape
    <2>3. \A i \in 2 .. Len(rxfifo') : rxdone'[rxfifo'[i]] = 0
      BY <1>1, <2>1 DEF FifoShape
    <2> QED
      BY <1>1, <2>2, <2>3 DEF FramesOnce, Serving
  <1> QED
    BY <1>2, <1>3

\* One call of udp_service takes the head through its three stages.
LEMMA UdpKeepsOnce ==
    ASSUME FifoShape, Callers, Callers', Unshared, FramesOnce, NEW c \in Context, UdpStep(c)
    PROVE  FifoShape' /\ FramesOnce'
  <1>a. rxfifo # <<>> => /\ 1 \in 1 .. Len(rxfifo) /\ Head(rxfifo) = rxfifo[1]
                         /\ rxfifo[1] \in RxSlot
    BY DEF FifoShape
  <1>b. pc \in [Context -> Label] /\ ra \in [Context -> {"ack", "top"}]
    BY DEF Callers
  <1>1. CASE ServiceSlot(c)
    <2>1. Serving(c) /\ ~Served(c) /\ Running(c) /\ pc[c] = "slot"
      BY <1>1 DEF ServiceSlot, Serving, Served, Sending
    <2>2. rxfifo # <<>> /\ rxslot' = rxfifo[1]
      BY <1>a, <1>1, <2>1 DEF ServiceSlot, FramesOnce
    <2>3. UNCHANGED <<rxfifo, rxdone, wslot, ra>>
      BY <1>1 DEF ServiceSlot, rxhw, send
    <2>4. pc' = [pc EXCEPT ![c] = "frame"]
      BY <1>1 DEF ServiceSlot, Goto
    <2>5. ASSUME NEW d \in Context, d # c
          PROVE  ~Serving(d) /\ ~Serving(d)' /\ pc'[d] # "frame" /\ ~Served(d)'
      <3>1. ~Serving(d)
        BY <2>1, <2>5, Alone
      <3>2. pc'[d] = pc[d] /\ ra'[d] = ra[d]
        BY <2>3, <2>4, <2>5, <1>b
      <3> QED
        BY <3>1, <3>2 DEF Serving, Served
    <2>6. ~Served(c)' /\ pc'[c] = "frame"
      BY <2>4, <1>b DEF Served, Sending
    <2>7. FifoShape'
      BY <1>a, <2>2, <2>3 DEF FifoShape
    <2>8. \A d \in Context : ~Served(d) /\ ~Served(d)'
      BY <2>1, <2>5, <2>6 DEF Serving
    <2> QED
      BY <2>2, <2>3, <2>7, <2>8 DEF FramesOnce
  <1>2. CASE ProcessFrame(c)
    <2>1. Serving(c) /\ ~Served(c) /\ Running(c) /\ pc[c] = "frame"
      BY <1>2 DEF ProcessFrame, Serving, Served, Sending
    <2>2. rxfifo # <<>> /\ rxslot = rxfifo[1]
      BY <2>1 DEF FramesOnce
    <2>3. UNCHANGED <<rxfifo, wslot, rxslot>>
      BY <1>2 DEF ProcessFrame
    <2>4. \E l \in Label : pc' = [pc EXCEPT ![c] = l]
      BY <1>2 DEF ProcessFrame, Answer, Goto, Label
    <2>5. \A d \in Context \ {c} : pc'[d] = pc[d] /\ ra'[d] = ra[d]
      BY <1>2, <1>b DEF ProcessFrame, Answer, Goto
    <2>6. \A d \in Context \ {c} : ~Serving(d) /\ ~Serving(d)'
      BY <2>1, <2>5, Alone DEF Serving, Served
    <2>7. Served(c)' /\ pc'[c] # "frame"
      BY <1>2, <1>b DEF ProcessFrame, Answer, Goto, Served, Sending
    <2>8. rxdone[rxfifo[1]] = 0
      BY <2>1, <2>2, <2>6 DEF FramesOnce, Serving
    <2>9. rxdone' = [rxdone EXCEPT ![rxfifo[1]] = 1]
      BY <1>2, <2>2, <2>8, <1>a DEF ProcessFrame, FifoShape
    <2>10. FifoShape' /\ rxdone'[rxfifo[1]] = 1
      BY <1>a, <2>2, <2>3, <2>9 DEF FifoShape
    <2>11. \A i \in 2 .. Len(rxfifo) : rxdone'[rxfifo[i]] = 0
      <3> TAKE i \in 2 .. Len(rxfifo)
      <3> DEFINE n == Len(rxfifo)
      <3>1. n \in 2 .. ETHMAC_RX_SLOTS /\ n + 1 - i \in 1 .. n - 1
        BY DriverAssumption DEF FifoShape
      <3>2. rxfifo[1] = Back(wslot, n) /\ rxfifo[i] = Back(wslot, n + 1 - i)
        BY <3>1 DEF FifoShape
      <3>3. rxfifo[1] # rxfifo[i] /\ rxfifo[i] \in RxSlot
        <4>1. wslot \in RxSlot /\ rxfifo[i] \in RxSlot
          BY DEF FifoShape
        <4>2. \A k \in 2 .. ETHMAC_RX_SLOTS : \A l \in 1 .. k - 1 : Back(wslot, k) # Back(wslot, l)
          BY <4>1, BackFacts
        <4>3. Back(wslot, n) # Back(wslot, n + 1 - i)
          BY <3>1, <4>2
        <4> QED
          BY <3>2, <4>1, <4>3
      <3>4. rxdone[rxfifo[i]] = 0
        BY DEF FramesOnce
      <3> QED
        BY <2>9, <3>3, <3>4 DEF FifoShape
    <2> QED
      BY <2>2, <2>3, <2>6, <2>7, <2>10, <2>11 DEF FramesOnce, Serving
  <1>3. CASE ServiceAck(c)
    <2>1. Serving(c) /\ Running(c) /\ pc[c] = "ack"
      BY <1>3 DEF ServiceAck, Serving, Served
    <2>2. PopRx /\ UNCHANGED <<rxdone, wslot, rxslot, ra>>
      BY <1>3 DEF ServiceAck, udp, send
    <2>3. \A d \in Context : ~Serving(d)'
      <3> TAKE d \in Context
      <3>1. CASE d = c
        BY <3>1, <1>3, <1>b DEF ServiceAck, Goto, Serving, Served, Sending
      <3>2. CASE d # c
        BY <3>2, <1>3, <1>b, <2>1, <2>2, Alone DEF ServiceAck, Goto, Serving, Served
      <3> QED
        BY <3>1, <3>2
    <2> QED
      BY <2>2, <2>3, PopKeepsOnce DEF FifoShape
  <1>4. CASE SendWait(c) \/ SendRegs(c) \/ SendStart(c) \/ SendAdvance(c)
    <2>1. UNCHANGED <<rxfifo, rxdone, wslot, rxslot, ra>>
      BY <1>4 DEF SendWait, SendRegs, SendStart, SendAdvance, rxhw, udp, send
    <2>2. \A d \in Context : /\ Served(d)' <=> Served(d)
                             /\ Serving(d)' => Serving(d) \/ rxfifo # <<>>
                             /\ pc'[d] = "frame" => pc[d] = "frame"
      BY <1>4, <2>1, <1>b
         DEF SendWait, SendRegs, SendStart, SendAdvance, Goto, Served, Serving, Sending
    <2> QED
      BY <2>1, <2>2, Stays
  <1> QED
    BY <1>1, <1>2, <1>3, <1>4 DEF UdpStep

\* main polls while it boots, when no interrupt can be taken; udp_start drops a
\* frame that nobody has looked at.
LEMMA BootKeepsOnce ==
    ASSUME FifoShape, Callers, FramesOnce, BootStep
    PROVE  FifoShape' /\ FramesOnce'
  <1> USE DEF Callers, Context, At
  <1>1. CASE UdpStart
    <2>1. PopRx /\ UNCHANGED <<rxdone, wslot, pc, ra>> /\ rxslot' \in RxSlot
      BY <1>1, DriverAssumption DEF UdpStart, send, RxSlot
    <2>2. pc["main"] = "top" /\ pc["isr"] = "off"
      BY <1>1 DEF UdpStart
    <2>3. \A d \in Context : ~Serving(d)'
      BY <2>1, <2>2 DEF Serving, Served, Sending
    <2> QED
      BY <2>1, <2>3, PopKeepsOnce
  <1>2. CASE BootStep /\ ~UdpStart
    <2>1. UNCHANGED <<rxfifo, rxdone, wslot, rxslot>>
      BY <1>2 DEF BootStep, ArpEnter, ArpRequest, ArpPoll, ArpResolved, ArpGiveUp,
                  IoInit, IrqAttach, IrqEnable, IrqUnmask, rxhw, udp
    <2>2. pc["main"] = "top"
      BY <1>2 DEF BootStep, ArpEnter, ArpRequest, ArpPoll, ArpResolved, ArpGiveUp,
                  IoInit, IrqAttach, IrqEnable, IrqUnmask
    <2>3. \/ UNCHANGED <<pc, ra>>
          \/ ra' = ra /\ rxfifo # <<>> /\ pc' = [pc EXCEPT !["main"] = "slot"]
          \/ ra' = [ra EXCEPT !["main"] = "top"] /\ pc' = [pc EXCEPT !["main"] = "wait"]
      <3>1. CASE ArpRequest
        BY <3>1 DEF ArpRequest, Goto
      <3>2. CASE ArpPoll \/ ArpGiveUp
        BY <3>2 DEF ArpPoll, ArpGiveUp, CallService, Goto, send
      <3>3. CASE ArpEnter \/ ArpResolved \/ IoInit \/ IrqAttach \/ IrqEnable \/ IrqUnmask
        BY <3>3 DEF ArpEnter, ArpResolved, IoInit, IrqAttach, IrqEnable, IrqUnmask, send
      <3> QED
        BY <1>2, <3>1, <3>2, <3>3 DEF BootStep
    <2>4. \A d \in Context : /\ Served(d)' <=> Served(d)
                             /\ Serving(d)' => Serving(d) \/ rxfifo # <<>>
                             /\ pc'[d] = "frame" => pc[d] = "frame"
      BY <2>2, <2>3 DEF Served, Serving, Sending
    <2> QED
      BY <2>1, <2>4, Stays
  <1> QED
    BY <1>1, <1>2

\* In the session main's calls leave the head of the queue to its owner.
LEMMA SessionKeepsOnce ==
    ASSUME FifoShape, Callers, FramesOnce, SessionStep
    PROVE  FifoShape' /\ FramesOnce'
  <1> USE DEF Callers, Context, At
  <1>1. UNCHANGED <<rxfifo, rxdone, wslot, rxslot>>
    BY DEF SessionStep, RecvCb, Pump, SendCb, SendCopy, UdpSendLen, UdpSendHeader,
           Cleanup, Fatal, IdlePoll, rxhw, udp
  <1>2. pc["main"] \in {"top", "memcpy", "udp_send", "header"}
    BY DEF SessionStep, RecvCb, Pump, SendCb, SendCopy, UdpSendLen, UdpSendHeader,
           Cleanup, Fatal, IdlePoll
  <1>3. \/ UNCHANGED <<pc, ra>>
        \/ ra' = ra /\ rxfifo # <<>> /\ pc' = [pc EXCEPT !["main"] = "slot"]
        \/ ra' = [ra EXCEPT !["main"] = "top"] /\ pc' = [pc EXCEPT !["main"] = "wait"]
        \/ ra' = ra /\ \E l \in {"memcpy", "udp_send", "header", "top"} :
                          pc' = [pc EXCEPT !["main"] = l]
    <2>1. CASE RecvCb \/ Cleanup \/ Fatal
      BY <2>1 DEF RecvCb, Cleanup, Fatal, send
    <2>2. CASE Pump \/ IdlePoll
      BY <2>2 DEF Pump, IdlePoll, CallService, Goto, send
    <2>3. CASE SendCb \/ SendCopy \/ UdpSendLen
      BY <2>3 DEF SendCb, SendCopy, UdpSendLen, Goto, send
    <2>4. CASE UdpSendHeader
      BY <2>4 DEF UdpSendHeader, Goto
    <2> QED
      BY <2>1, <2>2, <2>3, <2>4 DEF SessionStep
  <1>4. \A d \in Context : /\ Served(d)' <=> Served(d)
                           /\ Serving(d)' => Serving(d) \/ rxfifo # <<>>
                           /\ pc'[d] = "frame" => pc[d] = "frame"
    BY <1>2, <1>3 DEF Served, Serving, Sending
  <1> QED
    BY <1>1, <1>4, Stays

\* Entering the ISR and its loop.
LEMMA IsrKeepsOnce ==
    ASSUME FifoShape, Callers, FramesOnce, IrqEnter \/ IsrLoop
    PROVE  FifoShape' /\ FramesOnce'
  <1>1. UNCHANGED <<rxfifo, rxdone, wslot, rxslot, ra>>
    BY DEF IrqEnter, IsrLoop, rxhw, udp, send
  <1>2. pc["isr"] \in {"off", "loop"}
    BY DEF IrqEnter, IsrLoop
  <1>3. \/ pc' = pc
        \/ rxfifo # <<>> /\ pc' = [pc EXCEPT !["isr"] = "slot"]
        \/ \E l \in {"loop", "off"} : pc' = [pc EXCEPT !["isr"] = l]
    BY DEF IrqEnter, IsrLoop, Goto
  <1>4. \A d \in Context : /\ Served(d)' <=> Served(d)
                           /\ Serving(d)' => Serving(d) \/ rxfifo # <<>>
                           /\ pc'[d] = "frame" => pc[d] = "frame"
    BY <1>1, <1>2, <1>3 DEF Served, Serving, Sending, Callers, Context
  <1> QED
    BY <1>1, <1>4, Stays

\* The MAC's queue keeps its shape whoever calls udp_service.
LEMMA ShapeStep ==
    ASSUME FifoShape, [Next]_vars
    PROVE  FifoShape'
  <1>1. CASE Arrive \/ ArpReply
    <2>1. rxslot' = rxslot /\ \E kind : Receive(kind)
      BY <1>1 DEF Arrive, ArpReply, udp
    <2> QED
      BY <2>1, ReceiveShape
  <1>2. ASSUME NEW c \in Context, UdpStep(c)
        PROVE  FifoShape'
    <2>1. CASE ServiceSlot(c)
      BY <2>1 DEF ServiceSlot, rxhw, FifoShape
    <2>2. CASE ProcessFrame(c)
      <3>1. rxdone' \in [RxSlot -> 0 .. 2]
        BY <2>2 DEF ProcessFrame, FifoShape
      <3> QED
        BY <2>2, <3>1 DEF ProcessFrame, FifoShape
    <2>3. CASE ServiceAck(c)
      BY <2>3, PopShape DEF ServiceAck, udp, FifoShape
    <2>4. CASE SendWait(c) \/ SendRegs(c) \/ SendStart(c) \/ SendAdvance(c)
      BY <2>4 DEF SendWait, SendRegs, SendStart, SendAdvance, rxhw, udp, FifoShape
    <2> QED
      BY <1>2, <2>1, <2>2, <2>3, <2>4 DEF UdpStep
  <1>3. CASE UdpStart
    BY <1>3, PopShape, DriverAssumption DEF UdpStart, RxSlot
  <1>4. CASE BootStep /\ ~UdpStart
    BY <1>4 DEF BootStep, ArpEnter, ArpRequest, ArpPoll, ArpResolved, ArpGiveUp, IoInit,
                IrqAttach, IrqEnable, IrqUnmask, rxhw, udp, FifoShape
  <1>5. CASE SessionStep
    BY <1>5 DEF SessionStep, RecvCb, Pump, SendCb, SendCopy, UdpSendLen, UdpSendHeader,
                Cleanup, Fatal, IdlePoll, rxhw, udp, FifoShape
  <1>6. CASE ArpLost \/ TxDone \/ IrqEnter \/ IsrLoop \/ UNCHANGED vars
    BY <1>6 DEF ArpLost, TxDone, IrqEnter, IsrLoop, vars, rxhw, udp, FifoShape
  <1> QED
    BY <1>1, <1>2, <1>3, <1>4, <1>5, <1>6 DEF Next, Isr, Context

\* Once main is in its idle loop it stays there.
LEMMA IdleLast ==
    ASSUME [Next]_vars, Unshared'
    PROVE  Unshared
  <1> SUFFICES ASSUME phase = "idle" PROVE phase' = "idle"
    BY DEF Unshared
  <1>1. ~BootStep
    BY DEF BootStep, UdpStart, ArpEnter, ArpRequest, ArpPoll, ArpResolved, ArpGiveUp,
           IoInit, IrqAttach, IrqEnable, IrqUnmask, At
  <1>2. CASE SessionStep
    BY <1>2 DEF SessionStep, RecvCb, Pump, SendCb, SendCopy, UdpSendLen, UdpSendHeader,
                Cleanup, Fatal, IdlePoll, At, boot
  <1>3. CASE UdpStep("isr") \/ UdpStep("main")
    BY <1>3 DEF UdpStep, ServiceSlot, ProcessFrame, ServiceAck, SendWait, SendRegs,
                SendStart, SendAdvance, boot
  <1>4. CASE Arrive \/ ArpReply \/ ArpLost \/ TxDone \/ IrqEnter \/ IsrLoop
             \/ UNCHANGED vars
    BY <1>4 DEF Arrive, ArpReply, ArpLost, TxDone, IrqEnter, IsrLoop, vars, boot
  <1> QED
    BY <1>1, <1>2, <1>3, <1>4 DEF Next, Isr

\* Every step keeps to the division of udp_service between the contexts.
LEMMA CallersStep ==
    ASSUME Callers, [Next]_vars
    PROVE  Callers'
  <1>1. CASE UdpStep("isr") \/ UdpStep("main")
    BY <1>1, CallersUdp DEF Context
  <1>2. CASE BootStep
    BY <1>2, CallersBoot
  <1>3. CASE SessionStep
    BY <1>3, CallersSession
  <1>4. CASE IrqEnter
    BY <1>4 DEF IrqEnter, Callers, Context, Label, Goto, Serving, Served, Sending, send, boot
  <1>5. CASE IsrLoop
    BY <1>5 DEF IsrLoop, Callers, Context, Label, Goto, Serving, Served, Sending, send,
                boot, irq
  <1>6. CASE Arrive \/ ArpReply \/ ArpLost \/ TxDone \/ UNCHANGED vars
    BY <1>6 DEF Arrive, ArpReply, ArpLost, TxDone, vars, Callers, Serving, Served, send,
                boot, irq
  <1> QED
    BY <1>1, <1>2, <1>3, <1>4, <1>5, <1>6 DEF Next, Isr

\* Every step keeps the invariant behind OnceCorrect.
LEMMA OnceStep ==
    ASSUME OnceInv, [Next]_vars
    PROVE  OnceInv'
  <1>1. FifoShape' /\ Callers'
    BY ShapeStep, CallersStep DEF OnceInv
  <1>2. ASSUME Unshared'
        PROVE  FramesOnce'
    <2>1. FifoShape /\ Callers /\ Unshared /\ FramesOnce
      BY <1>2, IdleLast DEF OnceInv
    <2>2. CASE Arrive \/ ArpReply
      <3>1. UNCHANGED <<rxslot, pc, ra>> /\ \E kind : Receive(kind)
        BY <2>2 DEF Arrive, ArpReply, udp, send
      <3> QED
        BY <2>1, <3>1, ArrivalKeepsOnce
    <2>3. CASE UdpStep("isr") \/ UdpStep("main")
      BY <1>1, <2>1, <2>3, UdpKeepsOnce DEF Context
    <2>4. CASE BootStep
      BY <2>1, <2>4, BootKeepsOnce
    <2>5. CASE SessionStep
      BY <2>1, <2>5, SessionKeepsOnce
    <2>6. CASE IrqEnter \/ IsrLoop
      BY <2>1, <2>6, IsrKeepsOnce
    <2>7. CASE ArpLost \/ TxDone \/ UNCHANGED vars
      <3>1. UNCHANGED <<rxfifo, rxdone, wslot, rxslot, pc, ra>>
        BY <2>7 DEF ArpLost, TxDone, vars, rxhw, udp, send
      <3> QED
        BY <2>1, <3>1 DEF FramesOnce, Serving, Served
    <2> QED
      BY <2>2, <2>3, <2>4, <2>5, <2>6, <2>7 DEF Next, Isr
  <1> QED
    BY <1>1, <1>2 DEF OnceInv

\* Only a context that has processed the head takes it out of the MAC.
LEMMA PopIsServed ==
    ASSUME OnceInv, [Next]_vars, Len(rxfifo') < Len(rxfifo), phase # "start", Unshared
    PROVE  rxdone[Head(rxfifo)] = 1
  <1>1. \E c \in Context : ServiceAck(c)
    <2>1. ~(Arrive \/ ArpReply)
      <3> SUFFICES ASSUME Arrive \/ ArpReply PROVE FALSE
        OBVIOUS
      <3>1. rxslot' = rxslot /\ \E kind : Receive(kind)
        BY DEF Arrive, ArpReply, udp
      <3>2. Len(rxfifo') >= Len(rxfifo)
        BY <3>1, ReceiveShape DEF OnceInv
      <3> QED
        BY <3>2, ShapeStep DEF OnceInv, FifoShape
    <2>2. rxfifo' # rxfifo
      BY DEF OnceInv, FifoShape
    <2>3. ~UdpStart
      BY DEF UdpStart, At
    <2>4. ~(BootStep \/ SessionStep)
      BY <2>2, <2>3 DEF BootStep, ArpEnter, ArpRequest, ArpPoll, ArpResolved, ArpGiveUp,
           IoInit, IrqAttach, IrqEnable, IrqUnmask, SessionStep, RecvCb, Pump, SendCb,
           SendCopy, UdpSendLen, UdpSendHeader, Cleanup, Fatal, IdlePoll, rxhw
    <2>5. ~(ArpLost \/ TxDone \/ IrqEnter \/ IsrLoop \/ UNCHANGED vars)
      BY <2>2 DEF ArpLost, TxDone, IrqEnter, IsrLoop, vars, rxhw
    <2>6. PICK c \in Context : UdpStep(c)
      BY <2>1, <2>4, <2>5 DEF Next, Isr, Context
    <2> QED
      BY <2>2, <2>6 DEF UdpStep, ServiceSlot, ProcessFrame, SendWait, SendRegs, SendStart,
                        SendAdvance, rxhw
  <1>2. PICK c \in Context : Served(c)
    BY <1>1 DEF ServiceAck, Served
  <1>3. rxfifo # <<>> /\ rxdone[rxfifo[1]] = 1
    BY <1>2 DEF OnceInv, FramesOnce, Serving
  <1> QED
    BY <1>3 DEF OnceInv, FifoShape

\* In both builds, with any traffic and any number of slots, a frame leaves the
\* MAC only after process_frame ran on it exactly once, until main's idle loop
\* starts to poll beside the ISR.
THEOREM OnceCorrect == Spec => FrameProcessedOnceInSession
  <1>1. Init => OnceInv
    <2> SUFFICES ASSUME Init PROVE OnceInv
      OBVIOUS
    <2>1. FifoShape
      BY DriverAssumption DEF Init, FifoShape, RxSlot
    <2>2. Callers
      BY DEF Init, Callers, Context, Label
    <2>3. FramesOnce
      <3>1. \A c \in Context : ~Serving(c) /\ ~Served(c) /\ pc[c] # "frame"
        BY DEF Init, Context, Serving, Served, Sending
      <3> QED
        BY <3>1 DEF Init, FramesOnce
    <2> QED
      BY <2>1, <2>2, <2>3 DEF OnceInv
  <1>2. OnceInv /\ [Next]_vars => OnceInv'
    BY OnceStep
  <1>3. OnceInv /\ [Next]_vars =>
          [Len(rxfifo') < Len(rxfifo) /\ phase # "start" /\ ~(DTLS_RX_IRQ /\ phase = "idle")
             => rxdone[Head(rxfifo)] = 1]_vars
    BY PopIsServed DEF Unshared
  <1> QED
    BY <1>1, <1>2, <1>3, PTL DEF Spec, FrameProcessedOnceInSession

-----------------------------------------------------------------------------
(* Types *)

Slots == [TxSlot -> [hdr : Packet, pay : Packet]]
Started == [slot : TxSlot, want : Packet, len : Packet, hdr : Packet, pay : Packet]

\* Writing parts of a transmit slot.
LEMMA SlotWritten ==
    ASSUME NEW mem \in Slots, NEW s \in TxSlot, NEW p \in Packet
    PROVE  /\ [mem EXCEPT ![s].hdr = p] \in Slots
           /\ [mem EXCEPT ![s].pay = p] \in Slots
           /\ [mem EXCEPT ![s] = [hdr |-> p, pay |-> p]] \in Slots
  BY DEF Slots

\* udp.c keeps the types, in either context.
LEMMA TypeUdp ==
    ASSUME TypeOK, Callers, NEW c \in Context, UdpStep(c)
    PROVE  TypeOK'
  <1> USE DriverAssumption DEF TypeOK, Callers, Context, Label, Packet, Goto
  <1>1. CASE ServiceSlot(c)
    BY <1>1 DEF ServiceSlot, rxhw, txhw, irq, send, boot
  <1>2. CASE ProcessFrame(c)
    <2>1. rxdone' \in [RxSlot -> 0 .. 2]
      BY <1>2 DEF ProcessFrame
    <2>2. txmem' \in [TxSlot -> [hdr : Packet, pay : Packet]] /\ txlen' \in Packet
      <3>1. txmem \in Slots /\ txslot \in TxSlot /\ "reply" \in Packet
        BY DEF Slots
      <3>2. \/ UNCHANGED <<txmem, txlen>>
            \/ /\ txmem' = [txmem EXCEPT ![txslot] = [hdr |-> "reply", pay |-> "reply"]]
               /\ txlen' = "reply"
        BY <1>2 DEF ProcessFrame, Answer
      <3>3. [txmem EXCEPT ![txslot] = [hdr |-> "reply", pay |-> "reply"]] \in Slots
        BY <3>1, SlotWritten
      <3> QED
        BY <3>1, <3>2, <3>3 DEF Slots
    <2>3. ring' \in 0 .. RingCapacity /\ cached_mac' \in BOOLEAN
      BY <1>2 DEF ProcessFrame, LearnMac, Deliver
    <2>4. ra' \in [Context -> {"ack", "top"}]
          /\ pc'["main"] \in {"top", "slot", "frame", "ack", "wait", "regs", "go",
                              "advance", "memcpy", "udp_send", "header"}
          /\ pc'["isr"] \in {"off", "loop", "slot", "frame", "ack", "wait", "regs", "go",
                             "advance"}
      BY <1>2 DEF ProcessFrame, Answer
    <2> HIDE DEF Packet
    <2> QED
      BY <1>2, <2>1, <2>2, <2>3, <2>4 DEF ProcessFrame, irq, boot
  <1>3. CASE ServiceAck(c)
    BY <1>3 DEF ServiceAck, PopRx, txhw, irq, udp, send, boot
  <1>4. CASE SendWait(c)
    BY <1>4 DEF SendWait, rxhw, txhw, irq, udp, send, boot
  <1>5. CASE SendRegs(c)
    BY <1>5 DEF SendRegs, rxhw, irq, udp, send, boot
  <1>6. CASE SendStart(c)
    <2>1. Wanted(c) \in Packet
      BY DEF Wanted
    <2>2. /\ txfifo' \in Seq([slot : TxSlot, want : Packet, len : Packet, hdr : Packet,
                            pay : Packet])
          /\ Len(txfifo') <= ETHMAC_TX_SLOTS
      <3> HIDE DEF Packet
      <3>1. [slot |-> reg.slot, want |-> Wanted(c), len |-> reg.len,
             hdr |-> txmem[reg.slot].hdr, pay |-> txmem[reg.slot].pay]
            \in [slot : TxSlot, want : Packet, len : Packet, hdr : Packet, pay : Packet]
        BY <2>1
      <3> QED
        <4>1. txfifo \in Seq(Started) /\ Len(txfifo) \in Nat
          BY DEF Started
        <4>2. \A e \in Started : Append(txfifo, e) \in Seq(Started)
                               /\ Len(Append(txfifo, e)) = Len(txfifo) + 1
          BY <4>1
        <4>3. CASE Len(txfifo) < ETHMAC_TX_SLOTS
          <5>1. txfifo' = Append(txfifo, [slot |-> reg.slot, want |-> Wanted(c),
                    len |-> reg.len, hdr |-> txmem[reg.slot].hdr,
                    pay |-> txmem[reg.slot].pay])
            BY <1>6, <4>3 DEF SendStart
          <5>2. txfifo' \in Seq(Started) /\ Len(txfifo') = Len(txfifo) + 1
            BY <3>1, <4>2, <5>1 DEF Started
          <5> QED
            BY <4>1, <4>3, <5>2 DEF Started
        <4>4. CASE ~(Len(txfifo) < ETHMAC_TX_SLOTS)
          BY <1>6, <4>4 DEF SendStart
        <4> QED
          BY <4>3, <4>4
    <2> HIDE DEF Packet
    <2> QED
      BY <1>6, <2>2 DEF SendStart, rxhw, irq, udp, send, boot
  <1>7. CASE SendAdvance(c)
    <2>1. (txslot + 1) % ETHMAC_TX_SLOTS \in TxSlot
      BY DEF TxSlot
    <2> HIDE DEF Packet
    <2> QED
      BY <1>7, <2>1 DEF SendAdvance, rxhw, txhw, irq, send, boot
  <1> QED
    BY <1>1, <1>2, <1>3, <1>4, <1>5, <1>6, <1>7 DEF UdpStep

\* So does the boot code, whose counters stay within ArpTries and ArpPolls.
LEMMA TypeBoot ==
    ASSUME TypeOK, Callers, BootStep
    PROVE  TypeOK'
  <1> USE DriverAssumption DEF TypeOK, Callers, Context, Label, Packet, Goto, At
  <1>1. CASE UdpStart
    <2>1. 0 \in RxSlot /\ 0 \in TxSlot
      BY DEF RxSlot, TxSlot
    <2>2. rxfifo' \in Seq(RxSlot) /\ Len(rxfifo') <= ETHMAC_RX_SLOTS
      BY <1>1 DEF UdpStart, PopRx
    <2>3. reg' \in [slot : TxSlot, len : Packet]
      BY <1>1, <2>1 DEF UdpStart
    <2> HIDE DEF Packet
    <2> QED
      BY <1>1, <2>1, <2>2, <2>3 DEF UdpStart, send
  <1>2. CASE ArpEnter
    BY <1>2 DEF ArpEnter, rxhw, txhw, irq, udp, send
  <1>3. CASE ArpRequest
    BY <1>3 DEF ArpRequest, rxhw, irq
  <1>4. CASE ArpPoll
    BY <1>4 DEF ArpPoll, rxhw, txhw, irq, udp, send, CallService
  <1>5. CASE ArpResolved
    BY <1>5 DEF ArpResolved, rxhw, txhw, irq, udp, send
  <1>6. CASE ArpGiveUp
    BY <1>6 DEF ArpGiveUp, rxhw, txhw, irq, udp, send, CallService
  <1>7. CASE IoInit
    BY <1>7 DEF IoInit, rxhw, txhw, irq, send
  <1>8. CASE IrqAttach
    BY <1>8 DEF IrqAttach, rxhw, txhw, udp, send
  <1>9. CASE IrqEnable
    BY <1>9 DEF IrqEnable, rxhw, txhw, udp, send
  <1>10. CASE IrqUnmask
    BY <1>10 DEF IrqUnmask, rxhw, txhw, udp, send
  <1> QED
    BY <1>1, <1>2, <1>3, <1>4, <1>5, <1>6, <1>7, <1>8, <1>9, <1>10 DEF BootStep

\* So do the session and the idle loop.
LEMMA TypeSession ==
    ASSUME TypeOK, Callers, SessionStep
    PROVE  TypeOK'
  <1> USE DriverAssumption DEF TypeOK, Callers, Context, Label, Packet, Goto, At
  <1>1. CASE RecvCb
    BY <1>1 DEF RecvCb, rxhw, txhw, irq, send, boot
  <1>2. CASE Pump
    BY <1>2 DEF Pump, rxhw, txhw, irq, udp, send, boot, CallService
  <1>3. CASE SendCb
    BY <1>3 DEF SendCb, rxhw, txhw, irq, udp, boot
  <1>4. CASE SendCopy
    <2>1. txmem' \in [TxSlot -> [hdr : Packet, pay : Packet]]
      BY <1>4 DEF SendCopy
    <2> HIDE DEF Packet
    <2> QED
      BY <1>4, <2>1 DEF SendCopy, rxhw, irq, udp, send, boot
  <1>5. CASE UdpSendLen
    BY <1>5 DEF UdpSendLen, rxhw, txhw, irq, send, boot
  <1>6. CASE UdpSendHeader
    <2>1. txmem' \in [TxSlot -> [hdr : Packet, pay : Packet]]
      <3>1. txmem \in Slots /\ txslot \in TxSlot /\ "datagram" \in Packet
        BY DEF Slots
      <3> QED
        BY <1>6, <3>1, SlotWritten DEF UdpSendHeader, Slots
    <2> HIDE DEF Packet
    <2> QED
      BY <1>6, <2>1 DEF UdpSendHeader, rxhw, irq, udp, boot
  <1>7. CASE Cleanup
    BY <1>7 DEF Cleanup, rxhw, txhw, irq, udp, send
  <1>8. CASE Fatal
    BY <1>8 DEF Fatal, rxhw, txhw, irq, udp, send
  <1>9. CASE IdlePoll
    BY <1>9 DEF IdlePoll, rxhw, txhw, irq, udp, send, boot, CallService
  <1> QED
    BY <1>1, <1>2, <1>3, <1>4, <1>5, <1>6, <1>7, <1>8, <1>9 DEF SessionStep

\* So does every step.
LEMMA TypeStep ==
    ASSUME TypeOK, Callers, [Next]_vars
    PROVE  TypeOK'
  <1>1. ASSUME NEW kind \in {"udp", "query", "junk", "arpreply"}, Receive(kind)
        PROVE  /\ rxmem' \in [RxSlot -> {"udp", "query", "junk", "arpreply"}]
               /\ rxdone' \in [RxSlot -> 0 .. 2]
               /\ rxfifo' \in Seq(RxSlot) /\ Len(rxfifo') <= ETHMAC_RX_SLOTS
               /\ wslot' \in RxSlot
    <2> USE DriverAssumption DEF TypeOK
    <2>1. CASE Len(rxfifo) < ETHMAC_RX_SLOTS
      <3>1. (wslot + 1) % ETHMAC_RX_SLOTS \in RxSlot
        BY BackFacts
      <3>2. /\ rxmem' = [rxmem EXCEPT ![wslot] = kind]
            /\ rxdone' = [rxdone EXCEPT ![wslot] = 0]
            /\ rxfifo' = Append(rxfifo, wslot)
            /\ wslot' = (wslot + 1) % ETHMAC_RX_SLOTS
        BY <1>1, <2>1 DEF Receive
      <3>3. rxfifo' \in Seq(RxSlot) /\ Len(rxfifo') = Len(rxfifo) + 1
        BY <3>2
      <3>4. Len(rxfifo') <= ETHMAC_RX_SLOTS
        BY <2>1, <3>3
      <3>5. /\ rxmem' \in [RxSlot -> {"udp", "query", "junk", "arpreply"}]
            /\ rxdone' \in [RxSlot -> 0 .. 2]
        BY <3>2
      <3> QED
        BY <3>1, <3>2, <3>3, <3>4, <3>5
    <2>2. CASE ~(Len(rxfifo) < ETHMAC_RX_SLOTS)
      BY <1>1, <2>2 DEF Receive, rxhw
    <2> QED
      BY <2>1, <2>2
  <1>2. CASE Arrive
    <2>1. PICK kind \in {"udp", "query", "junk", "arpreply"} : Receive(kind)
      BY <1>2, DriverAssumption DEF Arrive
    <2> QED
      BY <1>1, <1>2, <2>1, DriverAssumption DEF Arrive, TypeOK, txhw, irq, udp, send, boot
  <1>3. CASE ArpReply
    <2>1. asked' \in BOOLEAN
      BY <1>3 DEF ArpReply
    <2>2. UNCHANGED <<txhw, frames, irq, udp, pc, send, boot>>
      BY <1>3 DEF ArpReply
    <2>3. Receive("arpreply")
      BY <1>3 DEF ArpReply
    <2> QED
      BY <1>1, <2>1, <2>2, <2>3 DEF TypeOK, txhw, irq, udp, send, boot
  <1>4. CASE ArpLost
    <2>1. asked' \in BOOLEAN
      BY <1>4 DEF ArpLost
    <2>2. UNCHANGED <<rxhw, txhw, frames, irq, udp, pc, send, boot>>
      BY <1>4 DEF ArpLost
    <2> QED
      BY <2>1, <2>2 DEF TypeOK, rxhw, txhw, irq, udp, send, boot
  <1>5. CASE TxDone
    <2>1. txfifo' \in Seq(Started) /\ Len(txfifo') <= ETHMAC_TX_SLOTS
      BY <1>5, DriverAssumption DEF TxDone, TypeOK, Started
    <2> QED
      BY <1>5, <2>1 DEF TxDone, TypeOK, rxhw, irq, udp, send, boot, Started
  <1>6. CASE IrqEnter
    BY <1>6 DEF IrqEnter, Goto, Callers, Context, TypeOK, rxhw, txhw, udp, send, boot
  <1>7. CASE IsrLoop
    BY <1>7 DEF IsrLoop, Goto, Callers, Context, TypeOK, rxhw, txhw, irq, udp, send, boot
  <1>8. CASE UdpStep("isr") \/ UdpStep("main")
    BY <1>8, TypeUdp DEF Context
  <1>9. CASE BootStep \/ SessionStep
    BY <1>9, TypeBoot, TypeSession
  <1>10. CASE UNCHANGED vars
    BY <1>10 DEF vars, TypeOK, rxhw, txhw, irq, udp, send, boot
  <1> QED
    BY <1>2, <1>3, <1>4, <1>5, <1>6, <1>7, <1>8, <1>9, <1>10 DEF Next, Isr

\* Reset.
LEMMA InitType == Init => TypeOK /\ Callers
  <1> SUFFICES ASSUME Init PROVE TypeOK /\ Callers
    OBVIOUS
  <1>1. 0 \in RxSlot /\ 0 \in TxSlot
    BY DriverAssumption DEF RxSlot, TxSlot
  <1>2. txmem \in Slots /\ txfifo \in Seq(Started) /\ reg \in [slot : TxSlot, len : Packet]
    BY <1>1 DEF Init, Slots, Started, Packet
  <1>3. TypeOK
    <2>1. /\ rxmem \in [RxSlot -> {"udp", "query", "junk", "arpreply"}]
          /\ rxdone \in [RxSlot -> 0 .. 2]
          /\ rxfifo \in Seq(RxSlot) /\ Len(rxfifo) <= ETHMAC_RX_SLOTS
          /\ Len(txfifo) <= ETHMAC_TX_SLOTS
      BY DriverAssumption DEF Init
    <2>2. /\ asked \in BOOLEAN /\ evEnable \in BOOLEAN /\ mask \in BOOLEAN
          /\ attached \in BOOLEAN /\ cached_mac \in BOOLEAN /\ rx_callback \in BOOLEAN
      BY DEF Init
    <2>3. /\ frames \in 0 .. MaxFrames /\ ring \in 0 .. RingCapacity
          /\ tries \in 0 .. ArpTries /\ polls \in 0 .. ArpPolls
      BY DriverAssumption DEF Init
    <2>4. /\ pc["main"] = "top" /\ pc["isr"] = "off" /\ ra \in [Context -> {"ack", "top"}]
          /\ phase = "start" /\ txlen \in Packet
      BY DEF Init, Context, Packet
    <2>5. wslot \in RxSlot /\ rxslot \in RxSlot /\ txslot \in TxSlot /\ tx \in TxSlot
      BY <1>1 DEF Init
    <2> QED
      BY <1>2, <2>1, <2>2, <2>3, <2>4, <2>5 DEF TypeOK, Slots, Started
  <1> QED
    BY <1>3 DEF Init, Callers, Context, Label

\* For every number of slots and every ring the driver's slot numbers, the MAC's
\* queues and the ring stay inside their bounds, and neither context is ever at a
\* position only the other can be in.
THEOREM TypeCorrect == Spec => []TypeOK
  <1>1. TypeOK /\ Callers /\ [Next]_vars => (TypeOK /\ Callers)'
    BY TypeStep, CallersStep
  <1> QED
    BY <1>1, InitType, PTL DEF Spec

-----------------------------------------------------------------------------
(* The polled build sends what it composed *)

\* Where main is in sending decides what the current slot, txlen and the
\* registers hold.
Composed ==
    /\ pc["main"] \in {"memcpy", "udp_send", "header"} => phase = "session"
    /\ pc["main"] = "memcpy" => tx = txslot
    /\ pc["main"] \in {"udp_send", "header"} => txmem[txslot].pay = "datagram"
    /\ pc["main"] = "header" => txlen = "datagram"
    /\ pc["main"] \in {"wait", "regs", "go"} =>
          /\ txmem[txslot].hdr = Wanted("main") /\ txmem[txslot].pay = Wanted("main")
          /\ txlen = Wanted("main")
    /\ pc["main"] = "go" => reg.slot = txslot /\ reg.len = txlen

PolledInv == TypeOK /\ Callers /\ Composed /\ WireIntact /\ ReadyHolds

\* Without interrupts there is one context.
LEMMA NoIsr ==
    ASSUME ~DTLS_RX_IRQ, Callers
    PROVE  pc["isr"] = "off" /\ ~mask /\ ~UdpStep("isr") /\ ~IrqEnter /\ ~IsrLoop
  <1>1. pc["isr"] = "off" /\ ~mask
    BY DEF Callers
  <1> QED
    BY <1>1 DEF UdpStep, ServiceSlot, ProcessFrame, ServiceAck, SendWait, SendRegs,
                SendStart, SendAdvance, IrqEnter, IsrLoop

\* Nothing that is being sent is touched.
LEMMA Untouched ==
    ASSUME PolledInv, UNCHANGED <<pc, ra, tx, txmem, txslot, txlen, reg, phase, txfifo>>
    PROVE  Composed' /\ WireIntact' /\ ReadyHolds'
  BY DEF PolledInv, Composed, Wanted, WireIntact, ReadyHolds

\* main goes from its loops into udp_service, or from one phase to the next.
LEMMA Elsewhere ==
    ASSUME PolledInv, NEW l \in {"top", "slot", "frame", "ack", "advance"},
           pc' = [pc EXCEPT !["main"] = l], UNCHANGED txfifo, ~DTLS_RX_IRQ
    PROVE  Composed' /\ WireIntact' /\ ReadyHolds'
  <1>1. pc["isr"] = "off" /\ pc \in [Context -> Label]
    BY NoIsr DEF PolledInv, Callers
  <1>2. pc'["main"] = l /\ pc'["isr"] = "off"
    BY <1>1 DEF Context
  <1> QED
    BY <1>2 DEF PolledInv, Composed, WireIntact, ReadyHolds, Context

\* send_packet, and the frame it may be answering.
LEMMA PolledUdp ==
    ASSUME PolledInv, ~DTLS_RX_IRQ, UdpStep("main")
    PROVE  Composed' /\ WireIntact' /\ ReadyHolds'
  <1>0. /\ pc["isr"] = "off" /\ pc \in [Context -> Label]
        /\ ra \in [Context -> {"ack", "top"}] /\ Context = {"main", "isr"}
    BY NoIsr DEF PolledInv, Callers, Context
  <1>1. CASE ServiceSlot("main")
    BY <1>1, Elsewhere DEF ServiceSlot, Goto, txhw
  <1>2. CASE ProcessFrame("main")
    <2>1. CASE rxmem[rxslot] = "query"
      <3>1. /\ txmem' = [txmem EXCEPT ![txslot] = [hdr |-> "reply", pay |-> "reply"]]
            /\ txlen' = "reply" /\ ra' = [ra EXCEPT !["main"] = "ack"]
            /\ pc' = [pc EXCEPT !["main"] = "wait"]
            /\ UNCHANGED <<txslot, txfifo>>
        BY <1>2, <2>1 DEF ProcessFrame, Answer, Goto
      <3>2. pc'["main"] = "wait" /\ pc'["isr"] = "off" /\ Wanted("main")' = "reply"
        BY <1>0, <3>1 DEF Wanted
      <3>3. txmem'[txslot'].hdr = "reply" /\ txmem'[txslot'].pay = "reply"
        BY <3>1 DEF PolledInv, TypeOK
      <3> QED
        BY <1>0, <3>1, <3>2, <3>3 DEF PolledInv, Composed, WireIntact, ReadyHolds
    <2>2. CASE rxmem[rxslot] # "query"
      BY <1>2, <2>2, Elsewhere DEF ProcessFrame, Answer, Goto
    <2> QED
      BY <2>1, <2>2
  <1>3. CASE ServiceAck("main")
    BY <1>3, Elsewhere DEF ServiceAck, Goto, txhw
  <1>4. CASE SendWait("main")
    <2>1. /\ pc["main"] = "wait" /\ Len(txfifo) < ETHMAC_TX_SLOTS
          /\ pc' = [pc EXCEPT !["main"] = "regs"]
          /\ UNCHANGED <<txmem, txslot, txlen, txfifo, ra, phase>>
      BY <1>4 DEF SendWait, Goto, txhw, udp, send, boot
    <2>2. pc'["main"] = "regs" /\ pc'["isr"] = "off" /\ Wanted("main")' = Wanted("main")
      BY <1>0, <2>1 DEF Wanted
    <2> QED
      BY <1>0, <2>1, <2>2 DEF PolledInv, Composed, WireIntact, ReadyHolds
  <1>5. CASE SendRegs("main")
    <2>1. /\ pc["main"] = "regs"
          /\ pc' = [pc EXCEPT !["main"] = "go"]
          /\ reg' = [slot |-> txslot, len |-> txlen]
          /\ UNCHANGED <<txmem, txslot, txlen, txfifo, ra, phase>>
      BY <1>5 DEF SendRegs, Goto, udp, send, boot
    <2>2. pc'["main"] = "go" /\ pc'["isr"] = "off" /\ Wanted("main")' = Wanted("main")
      BY <1>0, <2>1 DEF Wanted
    <2> QED
      BY <1>0, <2>1, <2>2 DEF PolledInv, Composed, WireIntact, ReadyHolds
  <1>6. CASE SendStart("main")
    <2> DEFINE w == Wanted("main")
               e == [slot |-> reg.slot, want |-> w, len |-> reg.len,
                     hdr |-> txmem[reg.slot].hdr, pay |-> txmem[reg.slot].pay]
    <2>1. pc["main"] = "go" /\ pc' = [pc EXCEPT !["main"] = "advance"]
      BY <1>6 DEF SendStart, Goto
    <2>2. Len(txfifo) < ETHMAC_TX_SLOTS
      BY <2>1, <1>0 DEF PolledInv, ReadyHolds
    <2>3. txfifo' = Append(txfifo, e)
      BY <1>6, <2>2 DEF SendStart
    <2>4. e.hdr = e.want /\ e.pay = e.want /\ e.len = e.want
      BY <2>1 DEF PolledInv, Composed
    <2>5. txfifo \in Seq(Started)
      BY DEF PolledInv, TypeOK, Started
    <2> HIDE DEF e
    <2>6. /\ DOMAIN txfifo = 1 .. Len(txfifo) /\ DOMAIN txfifo' = 1 .. Len(txfifo) + 1
          /\ \A i \in 1 .. Len(txfifo) : txfifo'[i] = txfifo[i]
          /\ txfifo'[Len(txfifo) + 1] = e /\ Len(txfifo) \in Nat
      BY <2>3, <2>5
    <2>7. WireIntact'
      <3> SUFFICES ASSUME NEW i \in DOMAIN txfifo'
                   PROVE  /\ txfifo'[i].hdr = txfifo'[i].want
                          /\ txfifo'[i].pay = txfifo'[i].want
                          /\ txfifo'[i].len = txfifo'[i].want
        BY DEF WireIntact
      <3>1. CASE i \in 1 .. Len(txfifo)
        BY <2>6, <3>1 DEF PolledInv, WireIntact
      <3>2. CASE i = Len(txfifo) + 1
        BY <2>4, <2>6, <3>2
      <3> QED
        BY <2>6, <3>1, <3>2
    <2>8. pc'["main"] = "advance" /\ pc'["isr"] = "off"
      BY <1>0, <2>1
    <2> QED
      BY <1>0, <2>7, <2>8 DEF Composed, ReadyHolds
  <1>7. CASE SendAdvance("main")
    <2>1. ra["main"] \in {"ack", "top"}
      BY <1>0
    <2> QED
      BY <1>7, <2>1, Elsewhere DEF SendAdvance, Goto, txhw
  <1> QED
    BY <1>1, <1>2, <1>3, <1>4, <1>5, <1>6, <1>7 DEF UdpStep

\* main composes a datagram in dtls_send_cb and udp_send.
LEMMA PolledSession ==
    ASSUME PolledInv, ~DTLS_RX_IRQ, SessionStep
    PROVE  Composed' /\ WireIntact' /\ ReadyHolds'
  <1>0. /\ pc["isr"] = "off" /\ pc \in [Context -> Label]
        /\ ra \in [Context -> {"ack", "top"}] /\ Context = {"main", "isr"}
    BY NoIsr DEF PolledInv, Callers, Context
  <1>1. CASE RecvCb
    BY <1>1, Untouched DEF RecvCb, txhw, send, boot
  <1>2. CASE Pump \/ IdlePoll
    <2>1. pc["main"] = "top"
      BY <1>2 DEF Pump, IdlePoll, At
    <2>2. \E l \in {"top", "slot"} : pc' = [pc EXCEPT !["main"] = l]
      BY <1>2, <2>1 DEF Pump, IdlePoll, CallService, Goto
    <2> QED
      BY <1>2, <2>2, Elsewhere DEF Pump, IdlePoll, txhw
  <1>3. CASE SendCb
    <2>1. /\ phase = "session" /\ tx' = txslot /\ pc' = [pc EXCEPT !["main"] = "memcpy"]
          /\ UNCHANGED <<txslot, txfifo, phase>>
      BY <1>3 DEF SendCb, At, Goto, txhw, udp, boot
    <2>2. pc'["main"] = "memcpy" /\ pc'["isr"] = "off"
      BY <1>0, <2>1
    <2> QED
      BY <1>0, <2>1, <2>2 DEF PolledInv, Composed, WireIntact, ReadyHolds
  <1>4. CASE SendCopy
    <2>1. /\ pc["main"] = "memcpy" /\ txmem' = [txmem EXCEPT ![tx].pay = "datagram"]
          /\ pc' = [pc EXCEPT !["main"] = "udp_send"]
          /\ UNCHANGED <<txslot, txfifo, phase>>
      BY <1>4 DEF SendCopy, Goto, udp, boot
    <2>2. pc'["main"] = "udp_send" /\ pc'["isr"] = "off"
      BY <1>0, <2>1
    <2>3. txmem'[txslot].pay = "datagram"
      BY <2>1 DEF PolledInv, Composed, TypeOK
    <2> QED
      BY <1>0, <2>1, <2>2, <2>3 DEF PolledInv, Composed, WireIntact, ReadyHolds
  <1>5. CASE UdpSendLen
    <2>1. CASE cached_mac
      <3>1. /\ pc["main"] = "udp_send" /\ txlen' = "datagram"
            /\ pc' = [pc EXCEPT !["main"] = "header"]
            /\ UNCHANGED <<txmem, txslot, txfifo, phase>>
        BY <1>5, <2>1 DEF UdpSendLen, Goto, txhw, boot
      <3>2. pc'["main"] = "header" /\ pc'["isr"] = "off"
        BY <1>0, <3>1
      <3> QED
        BY <1>0, <3>1, <3>2 DEF PolledInv, Composed, WireIntact, ReadyHolds
    <2>2. CASE ~cached_mac
      BY <1>5, <2>2, Elsewhere DEF UdpSendLen, Goto, txhw
    <2> QED
      BY <2>1, <2>2
  <1>6. CASE UdpSendHeader
    <2>1. /\ pc["main"] = "header" /\ txmem' = [txmem EXCEPT ![txslot].hdr = "datagram"]
          /\ ra' = [ra EXCEPT !["main"] = "top"] /\ pc' = [pc EXCEPT !["main"] = "wait"]
          /\ UNCHANGED <<txslot, txlen, txfifo, phase>>
      BY <1>6 DEF UdpSendHeader, Goto, udp, boot
    <2>2. pc'["main"] = "wait" /\ pc'["isr"] = "off" /\ ra'["main"] = "top"
      BY <1>0, <2>1
    <2>3. Wanted("main")' = "datagram"
      BY <2>1, <2>2 DEF PolledInv, Composed, Wanted
    <2>4. txmem'[txslot'].hdr = "datagram" /\ txmem'[txslot'].pay = "datagram"
      BY <2>1 DEF PolledInv, Composed, TypeOK
    <2> QED
      BY <1>0, <2>1, <2>2, <2>3, <2>4 DEF PolledInv, Composed, WireIntact, ReadyHolds
  <1>7. CASE Cleanup \/ Fatal
    <2>1. pc["main"] = "top" /\ pc' = pc /\ txfifo' = txfifo
      BY <1>7 DEF Cleanup, Fatal, At, txhw
    <2>2. pc' = [pc EXCEPT !["main"] = "top"]
      BY <1>0, <2>1
    <2> QED
      BY <2>1, <2>2, Elsewhere
  <1> QED
    BY <1>1, <1>2, <1>3, <1>4, <1>5, <1>6, <1>7 DEF SessionStep

\* main composes an ARP request, or polls.
LEMMA PolledBoot ==
    ASSUME PolledInv, ~DTLS_RX_IRQ, BootStep
    PROVE  Composed' /\ WireIntact' /\ ReadyHolds'
  <1>0. /\ pc["isr"] = "off" /\ pc \in [Context -> Label]
        /\ ra \in [Context -> {"ack", "top"}] /\ Context = {"main", "isr"}
    BY NoIsr DEF PolledInv, Callers, Context
  <1>1. pc["main"] = "top"
    BY DEF BootStep, UdpStart, ArpEnter, ArpRequest, ArpPoll, ArpResolved, ArpGiveUp,
           IoInit, IrqAttach, IrqEnable, IrqUnmask, At
  <1>2. CASE ArpRequest
    <2>1. /\ txmem' = [txmem EXCEPT ![txslot] = [hdr |-> "request", pay |-> "request"]]
          /\ txlen' = "request" /\ ra' = [ra EXCEPT !["main"] = "top"]
          /\ pc' = [pc EXCEPT !["main"] = "wait"] /\ phase = "arp"
          /\ UNCHANGED <<txslot, txfifo, phase>>
      BY <1>2 DEF ArpRequest, At, Goto
    <2>2. pc'["main"] = "wait" /\ pc'["isr"] = "off" /\ Wanted("main")' = "request"
      BY <1>0, <2>1 DEF Wanted
    <2>3. txmem'[txslot'].hdr = "request" /\ txmem'[txslot'].pay = "request"
      BY <2>1 DEF PolledInv, TypeOK
    <2> QED
      BY <1>0, <2>1, <2>2, <2>3 DEF PolledInv, Composed, WireIntact, ReadyHolds
  <1>3. CASE ArpPoll \/ ArpGiveUp
    <2>1. \E l \in {"top", "slot"} : pc' = [pc EXCEPT !["main"] = l]
      BY <1>3, <1>1 DEF ArpPoll, ArpGiveUp, CallService, Goto
    <2> QED
      BY <1>3, <2>1, Elsewhere DEF ArpPoll, ArpGiveUp, txhw
  <1>4. CASE BootStep /\ ~ArpRequest /\ ~ArpPoll /\ ~ArpGiveUp
    <2>1. pc' = pc /\ txfifo' = txfifo
      BY <1>4 DEF BootStep, UdpStart, ArpEnter, ArpResolved, IoInit, IrqAttach, IrqEnable,
                  IrqUnmask, txhw
    <2>2. pc' = [pc EXCEPT !["main"] = "top"]
      BY <1>0, <1>1, <2>1
    <2> QED
      BY <2>1, <2>2, Elsewhere
  <1> QED
    BY <1>2, <1>3, <1>4

\* Every step of the polled build keeps the invariant.
LEMMA PolledStep ==
    ASSUME PolledInv, ~DTLS_RX_IRQ, [Next]_vars
    PROVE  PolledInv'
  <1>1. TypeOK' /\ Callers'
    BY TypeStep, CallersStep DEF PolledInv
  <1>2. Composed' /\ WireIntact' /\ ReadyHolds'
    <2>1. CASE Arrive \/ ArpReply \/ ArpLost \/ UNCHANGED vars
      BY <2>1, Untouched DEF Arrive, ArpReply, ArpLost, vars, txhw, udp, send, boot
    <2>2. CASE TxDone
      <3>1. /\ txfifo # <<>> /\ txfifo' = Tail(txfifo)
            /\ UNCHANGED <<pc, ra, tx, txmem, txslot, txlen, reg, phase>>
        BY <2>2 DEF TxDone, udp, send, boot
      <3>2. txfifo \in Seq(Started)
        BY DEF PolledInv, TypeOK, Started
      <3>3. /\ Len(txfifo') < Len(txfifo) /\ DOMAIN txfifo' = 1 .. Len(txfifo) - 1
            /\ DOMAIN txfifo = 1 .. Len(txfifo) /\ Len(txfifo) \in Nat /\ Len(txfifo') \in Nat
            /\ \A i \in 1 .. Len(txfifo) - 1 : txfifo'[i] = txfifo[i + 1]
        BY <3>1, <3>2
      <3>4. WireIntact'
        BY <3>3 DEF PolledInv, WireIntact
      <3>5. ReadyHolds'
        BY <3>1, <3>3, DriverAssumption DEF PolledInv, ReadyHolds
      <3>6. Composed'
        BY <3>1 DEF PolledInv, Composed, Wanted
      <3> QED
        BY <3>4, <3>5, <3>6
    <2>3. CASE UdpStep("main")
      BY <2>3, PolledUdp
    <2>4. CASE BootStep \/ SessionStep
      BY <2>4, PolledBoot, PolledSession
    <2>5. ~Isr
      BY NoIsr DEF Isr, PolledInv
    <2> QED
      BY <2>1, <2>2, <2>3, <2>4, <2>5 DEF Next
  <1> QED
    BY <1>1, <1>2 DEF PolledInv

\* The invariant of the polled build.
LEMMA PolledInvariance ==
    ASSUME ~DTLS_RX_IRQ
    PROVE  Spec => []PolledInv
  <1>1. Init => PolledInv
    <2> SUFFICES ASSUME Init PROVE PolledInv
      OBVIOUS
    <2>1. pc["main"] = "top" /\ pc["isr"] = "off" /\ txfifo = <<>>
      BY DEF Init, Context
    <2> QED
      BY <2>1, InitType DEF PolledInv, Composed, WireIntact, ReadyHolds, Context
  <1>2. PolledInv /\ [Next]_vars => PolledInv'
    BY PolledStep
  <1> QED
    BY <1>1, <1>2, PTL DEF Spec

\* In the polled build every packet handed to the MAC has the header, the payload
\* and the length its sender gave it: ARP and ICMP replies go through the same
\* buffer as datagrams and requests, but never in the middle of one.
THEOREM PolledWire ==
    ASSUME ~DTLS_RX_IRQ
    PROVE  Spec => []WireIntact
  <1>1. PolledInv => WireIntact
    BY DEF PolledInv
  <1> QED
    BY <1>1, PolledInvariance, PTL

=============================================================================
