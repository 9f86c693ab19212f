------------------------------ MODULE EthDriver ------------------------------
(***************************************************************************)
(* The client's network driver: liteeth's udp.c, the ethmac interrupt of   *)
(* dtls_io.c and the parts of main.c that call them, on one core where the *)
(* ISR preempts the main program between any two of its steps and runs to  *)
(* completion, while the MAC hardware moves on its own.                    *)
(*                                                                         *)
(* udp.c runs in two contexts, "main" and "isr", over the same globals     *)
(* (rxslot, txslot, txlen, the MAC's slots and registers); pc[c] is where  *)
(* context c is.  wolfSSL is any sequence of the calls it may make to      *)
(* dtls_recv_cb, dtls_send_cb and dtls_io_pump.  The ring is a queue of    *)
(* datagrams, as RxRing is proved to be.                                   *)
(*                                                                         *)
(* A TX slot's header and payload, txlen and the length register hold the  *)
(* kind of packet whose bytes or length they are.                          *)
(***************************************************************************)
EXTENDS Naturals, Sequences

CONSTANTS
    DTLS_RX_IRQ,     \* the interrupt build (TRUE) or the polled one (FALSE)
    ETHMAC_RX_SLOTS, \* receive slots of the MAC
    ETHMAC_TX_SLOTS, \* transmit slots of the MAC
    RingCapacity,    \* DTLS_RX_SLOTS - 1
    ArpTries,        \* requests per udp_arp_resolve (8 in the code)
    ArpPolls,        \* polls per request (100000 in the code)
    Traffic,         \* kinds of frame other hosts send, besides ARP replies
    MaxFrames        \* bound: frames other hosts send

ASSUME DriverAssumption ==
    /\ DTLS_RX_IRQ \in BOOLEAN
    /\ ETHMAC_RX_SLOTS \in Nat \ {0} /\ ETHMAC_TX_SLOTS \in Nat \ {0}
    /\ RingCapacity \in Nat /\ ArpTries \in Nat \ {0} /\ ArpPolls \in Nat \ {0}
    /\ Traffic \subseteq {"udp", "query", "junk"}
    /\ MaxFrames \in Nat

VARIABLES
    \* the MAC (external)
    rxmem,    \* receive slot -> kind of the frame in it
    rxdone,   \* receive slot -> times process_frame ran on that frame (history)
    rxfifo,   \* filled receive slots, oldest first; non-empty is ev_pending
    wslot,    \* slot the next frame goes to
    txmem,    \* transmit slot -> header and payload bytes in it
    txfifo,   \* packets started and not yet sent, oldest first
    reg,      \* the sram_reader slot and length registers
    asked,    \* an ARP request of the client reached the server
    frames,   \* frames other hosts have sent
    \* interrupt enables: ev_enable, the CPU's mask, irq_table
    evEnable, mask, attached,
    \* globals of udp.c and dtls_io.c
    rxslot, txslot, txlen, cached_mac, rx_callback, ring,
    \* control
    pc,       \* context -> position
    ra,       \* context -> where send_packet returns to
    tx,       \* dtls_send_cb's pointer from udp_get_tx_buffer
    phase,    \* how far main() is
    tries, polls \* loop counters of udp_arp_resolve

rxhw == <<rxmem, rxdone, rxfifo, wslot>>
txhw == <<txmem, txfifo, reg>>
irq == <<evEnable, mask, attached>>
udp == <<rxslot, txslot, txlen, cached_mac, rx_callback, ring>>
send == <<ra, tx>>
boot == <<phase, tries, polls>>
vars == <<rxhw, txhw, asked, frames, irq, udp, pc, send, boot>>

Context == {"main", "isr"}
RxSlot == 0 .. ETHMAC_RX_SLOTS - 1
TxSlot == 0 .. ETHMAC_TX_SLOTS - 1

\* Kinds of packet the client sends; "blank" before the first.
Packet == {"blank", "request", "reply", "datagram"}

\* The ISR preempts main and is not preempted.
Running(c) == c = "main" => pc["isr"] = "off"

Goto(c, l) == pc' = [pc EXCEPT ![c] = l]

\* Reset.
Init ==
    /\ rxmem = [s \in RxSlot |-> "junk"] /\ rxdone = [s \in RxSlot |-> 0]
    /\ rxfifo = <<>> /\ wslot = 0
    /\ txmem = [s \in TxSlot |-> [hdr |-> "blank", pay |-> "blank"]] /\ txfifo = <<>>
    /\ reg = [slot |-> 0, len |-> "blank"]
    /\ asked = FALSE /\ frames = 0
    /\ evEnable = FALSE /\ mask = FALSE /\ attached = FALSE
    /\ rxslot = 0 /\ txslot = 0 /\ txlen = "blank"
    /\ cached_mac = FALSE /\ rx_callback = FALSE /\ ring = 0
    /\ pc = [c \in Context |-> IF c = "isr" THEN "off" ELSE "top"]
    /\ ra = [c \in Context |-> "ack"] /\ tx = 0
    /\ phase = "start" /\ tries = 0 /\ polls = 0

-----------------------------------------------------------------------------
(* The MAC and the network (external) *)

\* A frame is stored in the next slot, or lost when every slot is filled.
Receive(kind) ==
    IF Len(rxfifo) < ETHMAC_RX_SLOTS
    THEN /\ rxmem' = [rxmem EXCEPT ![wslot] = kind]
         /\ rxdone' = [rxdone EXCEPT ![wslot] = 0]
         /\ rxfifo' = Append(rxfifo, wslot)
         /\ wslot' = (wslot + 1) % ETHMAC_RX_SLOTS
    ELSE UNCHANGED rxhw

Arrive == /\ frames < MaxFrames
          /\ frames' = frames + 1
          /\ \E kind \in Traffic : Receive(kind)
          /\ UNCHANGED <<txhw, asked, irq, udp, pc, send, boot>>

\* The server's answer to an ARP request arrives ...
ArpReply == /\ asked /\ asked' = FALSE
            /\ Receive("arpreply")
            /\ UNCHANGED <<txhw, frames, irq, udp, pc, send, boot>>

\* ... or is lost.
ArpLost == /\ asked /\ asked' = FALSE
           /\ UNCHANGED <<rxhw, txhw, frames, irq, udp, pc, send, boot>>

\* Writing ev_pending frees the oldest filled slot.
PopRx == rxfifo' = IF rxfifo = <<>> THEN <<>> ELSE Tail(rxfifo)

\* The oldest started packet has left its slot.
TxDone == /\ txfifo # <<>>
          /\ txfifo' = Tail(txfifo)
          /\ asked' = (asked \/ Head(txfifo).hdr = "request")
          /\ UNCHANGED <<rxhw, txmem, reg, frames, irq, udp, pc, send, boot>>

-----------------------------------------------------------------------------
(* udp.c, in either context *)

\* A call of udp_service from l: it returns at once when nothing is pending.
CallService(c) == Goto(c, IF rxfifo # <<>> THEN "slot" ELSE pc[c])

\* Mutant: the slot is counted, not read.
ServiceSlotCounted(c) ==
    /\ Running(c) /\ pc[c] = "slot"
    /\ rxslot' = (rxslot + 1) % ETHMAC_RX_SLOTS
    /\ Goto(c, "frame")
    /\ UNCHANGED <<rxhw, txhw, asked, frames, irq, txslot, txlen, cached_mac,
                   rx_callback, ring, send, boot>>

\* The slot register shows the oldest filled slot, and anything when the
\* other context has acknowledged the last frame since the test.
ServiceSlot(c) ==
    /\ Running(c) /\ pc[c] = "slot"
    /\ \E s \in RxSlot : /\ rxfifo # <<>> => s = Head(rxfifo)
                         /\ rxslot' = s
    /\ Goto(c, "frame")
    /\ UNCHANGED <<rxhw, txhw, asked, frames, irq, txslot, txlen, cached_mac,
                   rx_callback, ring, send, boot>>

\* process_arp and process_icmp answer a "query", an ARP request or an ICMP echo
\* for this host: the reply is written over header and payload of the current TX
\* slot and given to send_packet.
Answer(c, kind) ==
    IF kind = "query"
    THEN /\ txmem' = [txmem EXCEPT ![txslot] = [hdr |-> "reply", pay |-> "reply"]]
         /\ txlen' = "reply"
         /\ ra' = [ra EXCEPT ![c] = "ack"]
         /\ Goto(c, "wait")
    ELSE Goto(c, "ack") /\ UNCHANGED <<txmem, txlen, ra>>

\* process_arp notes the answer to this host's request.
LearnMac(kind) == cached_mac' = (cached_mac \/ kind = "arpreply")

\* process_udp gives a datagram for this host to dtls_rx_cb, once that is
\* installed.
Deliver(kind) ==
    ring' = IF kind = "udp" /\ rx_callback /\ ring < RingCapacity THEN ring + 1 ELSE ring

\* process_frame on the frame in rxslot; "junk" is a frame an early return ignores.
ProcessFrame(c) ==
    /\ Running(c) /\ pc[c] = "frame"
    /\ rxdone' = [rxdone EXCEPT ![rxslot] = IF @ = 2 THEN 2 ELSE @ + 1]
    /\ Answer(c, rxmem[rxslot])
    /\ LearnMac(rxmem[rxslot])
    /\ Deliver(rxmem[rxslot])
    /\ UNCHANGED <<rxmem, rxfifo, wslot, txfifo, reg, asked, frames, irq, rxslot,
                   txslot, rx_callback, tx, boot>>

\* Mutant: ev_pending is not written.
ServiceNoAck(c) ==
    /\ Running(c) /\ pc[c] = "ack"
    /\ Goto(c, IF c = "isr" THEN "loop" ELSE "top")
    /\ UNCHANGED <<rxhw, txhw, asked, frames, irq, udp, send, boot>>

\* Acknowledge, and return to the ISR's loop or to main.
ServiceAck(c) ==
    /\ Running(c) /\ pc[c] = "ack"
    /\ PopRx
    /\ Goto(c, IF c = "isr" THEN "loop" ELSE "top")
    /\ UNCHANGED <<rxmem, rxdone, wslot, txhw, asked, frames, irq, udp, send, boot>>

\* send_packet: the wait comes after its caller has filled the slot.
SendWait(c) ==
    /\ Running(c) /\ pc[c] = "wait"
    /\ Len(txfifo) < ETHMAC_TX_SLOTS
    /\ Goto(c, "regs")
    /\ UNCHANGED <<rxhw, txhw, asked, frames, irq, udp, send, boot>>

\* The two registers are written in one step, as are txslot and the txbuffer
\* computed from it.  An interrupt between them would only add to the ways in
\* which the ISR can disturb main's packet.
SendRegs(c) ==
    /\ Running(c) /\ pc[c] = "regs"
    /\ reg' = [slot |-> txslot, len |-> txlen]
    /\ Goto(c, "go")
    /\ UNCHANGED <<rxhw, txmem, txfifo, asked, frames, irq, udp, send, boot>>

\* The packet context c is sending.
Wanted(c) == IF ra[c] = "ack" THEN "reply"
             ELSE IF phase = "arp" THEN "request" ELSE "datagram"

\* start_write(1): the MAC ignores it when its queue is full.
SendStart(c) ==
    /\ Running(c) /\ pc[c] = "go"
    /\ txfifo' = IF Len(txfifo) < ETHMAC_TX_SLOTS
                 THEN Append(txfifo, [slot |-> reg.slot, want |-> Wanted(c),
                                      len |-> reg.len,
                                      hdr |-> txmem[reg.slot].hdr,
                                      pay |-> txmem[reg.slot].pay])
                 ELSE txfifo
    /\ Goto(c, "advance")
    /\ UNCHANGED <<rxhw, txmem, reg, asked, frames, irq, udp, send, boot>>

\* Mutant: txslot is not wrapped.
SendAdvanceNoWrap(c) ==
    /\ Running(c) /\ pc[c] = "advance"
    /\ txslot' = txslot + 1
    /\ Goto(c, ra[c])
    /\ UNCHANGED <<rxhw, txhw, asked, frames, irq, rxslot, txlen, cached_mac,
                   rx_callback, ring, send, boot>>

SendAdvance(c) ==
    /\ Running(c) /\ pc[c] = "advance"
    /\ txslot' = (txslot + 1) % ETHMAC_TX_SLOTS
    /\ Goto(c, ra[c])
    /\ UNCHANGED <<rxhw, txhw, asked, frames, irq, rxslot, txlen, cached_mac,
                   rx_callback, ring, send, boot>>

-----------------------------------------------------------------------------
(* The interrupt *)

\* isr(): the level-sensitive event is enabled at the MAC and at the CPU.  An
\* irq without a handler is masked for good.
IrqEnter ==
    /\ evEnable /\ mask /\ rxfifo # <<>> /\ pc["isr"] = "off"
    /\ IF attached THEN Goto("isr", "loop") /\ UNCHANGED mask
                   ELSE mask' = FALSE /\ UNCHANGED pc
    /\ UNCHANGED <<rxhw, txhw, asked, frames, evEnable, attached, udp, send, boot>>

\* ethmac_rx_isr: drain every pending frame, then return to main.
IsrLoop ==
    /\ pc["isr"] = "loop"
    /\ Goto("isr", IF rxfifo # <<>> THEN "slot" ELSE "off")
    /\ UNCHANGED <<rxhw, txhw, asked, frames, irq, udp, send, boot>>

-----------------------------------------------------------------------------
(* main() *)

At(p) == phase = p /\ pc["main"] = "top" /\ Running("main")

\* irq_setmask(0), irq_setie(1) and udp_start.
UdpStart ==
    /\ At("start")
    /\ mask' = FALSE
    /\ PopRx
    /\ cached_mac' = FALSE /\ rx_callback' = FALSE
    /\ txslot' = 0 /\ rxslot' = 0 /\ reg' = [reg EXCEPT !.slot = 0]
    /\ phase' = "resolve"
    /\ UNCHANGED <<rxmem, rxdone, wslot, txmem, txfifo, asked, frames, evEnable,
                   attached, txlen, ring, pc, send, tries, polls>>

\* udp_arp_resolve is entered: a cached answer ends the loop of main.
ArpEnter ==
    /\ At("resolve")
    /\ phase' = IF cached_mac THEN "init" ELSE "arp"
    /\ tries' = 0 /\ polls' = 0
    /\ UNCHANGED <<rxhw, txhw, asked, frames, irq, udp, pc, send>>

ArpRequest ==
    /\ At("arp") /\ ~cached_mac /\ polls = 0 /\ tries < ArpTries
    /\ tries' = tries + 1 /\ polls' = ArpPolls
    /\ txmem' = [txmem EXCEPT ![txslot] = [hdr |-> "request", pay |-> "request"]]
    /\ txlen' = "request"
    /\ ra' = [ra EXCEPT !["main"] = "top"]
    /\ Goto("main", "wait")
    /\ UNCHANGED <<rxhw, txfifo, reg, asked, frames, irq, rxslot, txslot, cached_mac,
                   rx_callback, ring, tx, phase>>

ArpPoll ==
    /\ At("arp") /\ ~cached_mac /\ polls > 0
    /\ polls' = polls - 1
    /\ CallService("main")
    /\ UNCHANGED <<rxhw, txhw, asked, frames, irq, udp, send, phase, tries>>

\* udp_arp_resolve returns 1.
ArpResolved ==
    /\ At("arp") /\ cached_mac
    /\ phase' = "init"
    /\ UNCHANGED <<rxhw, txhw, asked, frames, irq, udp, pc, send, tries, polls>>

\* Mutant: it goes on polling and sends no new requests.
ArpPollForEver ==
    /\ At("arp") /\ ~cached_mac /\ polls = 0 /\ tries = ArpTries
    /\ CallService("main")
    /\ UNCHANGED <<rxhw, txhw, asked, frames, irq, udp, send, boot>>

\* It returns 0; main polls once and calls it again.
ArpGiveUp ==
    /\ At("arp") /\ ~cached_mac /\ polls = 0 /\ tries = ArpTries
    /\ phase' = "resolve"
    /\ CallService("main")
    /\ UNCHANGED <<rxhw, txhw, asked, frames, irq, udp, send, tries, polls>>

\* dtls_io_init: the ring is emptied, then the callback installed.
IoInit ==
    /\ At("init")
    /\ ring' = 0 /\ rx_callback' = TRUE
    /\ phase' = IF DTLS_RX_IRQ THEN "attach" ELSE "session"
    /\ UNCHANGED <<rxhw, txhw, asked, frames, irq, rxslot, txslot, txlen, cached_mac,
                   pc, send, tries, polls>>

\* Mutants: the handler is not attached, the MAC's event is not enabled.
IrqAttachSkipped == /\ At("attach") /\ phase' = "enable"
                    /\ UNCHANGED <<rxhw, txhw, asked, frames, irq, udp, pc, send,
                                   tries, polls>>
IrqEnableSkipped == /\ At("enable") /\ phase' = "unmask"
                    /\ UNCHANGED <<rxhw, txhw, asked, frames, irq, udp, pc, send,
                                   tries, polls>>

\* dtls_io_enable_irq, one step per register.
IrqAttach == /\ At("attach") /\ attached' = TRUE /\ phase' = "enable"
             /\ UNCHANGED <<rxhw, txhw, asked, frames, evEnable, mask, udp, pc, send,
                            tries, polls>>
IrqEnable == /\ At("enable") /\ evEnable' = TRUE /\ phase' = "unmask"
             /\ UNCHANGED <<rxhw, txhw, asked, frames, attached, mask, udp, pc, send,
                            tries, polls>>
IrqUnmask == /\ At("unmask") /\ mask' = TRUE /\ phase' = "session"
             /\ UNCHANGED <<rxhw, txhw, asked, frames, attached, evEnable, udp, pc,
                            send, tries, polls>>

\* dtls_recv_cb takes a datagram out of the ring.
RecvCb == /\ At("session") /\ ring > 0
          /\ ring' = ring - 1
          /\ UNCHANGED <<rxhw, txhw, asked, frames, irq, rxslot, txslot, txlen,
                         cached_mac, rx_callback, pc, send, boot>>

\* Mutant: dtls_io_pump polls in the interrupt build too.
PumpAlways == /\ At("session")
              /\ CallService("main")
              /\ UNCHANGED <<rxhw, txhw, asked, frames, irq, udp, send, boot>>

\* dtls_io_pump polls in the polled build only.
Pump == /\ At("session") /\ ~DTLS_RX_IRQ
        /\ CallService("main")
        /\ UNCHANGED <<rxhw, txhw, asked, frames, irq, udp, send, boot>>

\* dtls_send_cb: udp_get_tx_buffer ...
SendCb == /\ At("session")
          /\ tx' = txslot
          /\ Goto("main", "memcpy")
          /\ UNCHANGED <<rxhw, txhw, asked, frames, irq, udp, ra, boot>>

\* ... the payload goes where that pointer points ...
SendCopy == /\ pc["main"] = "memcpy" /\ Running("main")
            /\ txmem' = [txmem EXCEPT ![tx].pay = "datagram"]
            /\ Goto("main", "udp_send")
            /\ UNCHANGED <<rxhw, txfifo, reg, asked, frames, irq, udp, send, boot>>

\* Mutant: txlen keeps the length of the previous packet.
UdpSendLenStale == /\ pc["main"] = "udp_send" /\ Running("main")
                   /\ Goto("main", IF cached_mac THEN "header" ELSE "top")
                   /\ UNCHANGED <<rxhw, txhw, asked, frames, irq, udp, send, boot>>

\* ... udp_send: refuse without a MAC address (WANT_WRITE), else set txlen ...
UdpSendLen == /\ pc["main"] = "udp_send" /\ Running("main")
              /\ Goto("main", IF cached_mac THEN "header" ELSE "top")
              /\ txlen' = IF cached_mac THEN "datagram" ELSE txlen
              /\ UNCHANGED <<rxhw, txhw, asked, frames, irq, rxslot, txslot,
                             cached_mac, rx_callback, ring, send, boot>>

\* ... and write the headers into the slot txbuffer now points to.
UdpSendHeader == /\ pc["main"] = "header" /\ Running("main")
                 /\ txmem' = [txmem EXCEPT ![txslot].hdr = "datagram"]
                 /\ ra' = [ra EXCEPT !["main"] = "top"]
                 /\ Goto("main", "wait")
                 /\ UNCHANGED <<rxhw, txfifo, reg, asked, frames, irq, udp, tx, boot>>

\* The session ends, well or badly: while (1) udp_service().
Cleanup == /\ At("session")
           /\ phase' = "idle"
           /\ UNCHANGED <<rxhw, txhw, asked, frames, irq, udp, pc, send, tries, polls>>

\* main returns -1 when wolfSSL cannot be set up, which involves no call of the
\* driver; crt0 then loops for ever.
Fatal == /\ At("session")
         /\ phase' = "halt"
         /\ UNCHANGED <<rxhw, txhw, asked, frames, irq, udp, pc, send, tries, polls>>

IdlePoll == /\ At("idle")
            /\ CallService("main")
            /\ UNCHANGED <<rxhw, txhw, asked, frames, irq, udp, send, boot>>

-----------------------------------------------------------------------------
UdpStep(c) == \/ ServiceSlot(c) \/ ProcessFrame(c) \/ ServiceAck(c)
              \/ SendWait(c) \/ SendRegs(c) \/ SendStart(c) \/ SendAdvance(c)

BootStep == \/ UdpStart \/ ArpEnter \/ ArpRequest \/ ArpPoll \/ ArpResolved
            \/ ArpGiveUp \/ IoInit \/ IrqAttach \/ IrqEnable \/ IrqUnmask

SessionStep == \/ RecvCb \/ Pump \/ SendCb \/ SendCopy \/ UdpSendLen
               \/ UdpSendHeader \/ Cleanup \/ Fatal \/ IdlePoll

Isr == IrqEnter \/ IsrLoop \/ UdpStep("isr")

Next == \/ Arrive \/ ArpReply \/ ArpLost \/ TxDone
        \/ Isr \/ UdpStep("main") \/ BootStep \/ SessionStep

BootPhase == {"start", "resolve", "arp", "init", "attach", "enable", "unmask"}

\* The MAC sends what was started; the CPU runs the ISR and main's boot code;
\* not every ARP answer is lost.  Nothing is assumed of main in the session: it
\* may compute for as long as it likes.
Fairness == /\ WF_vars(TxDone) /\ SF_vars(ArpReply)
            /\ WF_vars(Isr)
            /\ WF_vars(BootStep \/ (phase \in BootPhase /\ UdpStep("main")))

Spec == Init /\ [][Next]_vars
FairSpec == Spec /\ Fairness

-----------------------------------------------------------------------------
TypeOK ==
    /\ rxmem \in [RxSlot -> {"udp", "query", "junk", "arpreply"}]
    /\ rxdone \in [RxSlot -> 0 .. 2]
    /\ rxfifo \in Seq(RxSlot) /\ Len(rxfifo) <= ETHMAC_RX_SLOTS
    /\ wslot \in RxSlot
    /\ txmem \in [TxSlot -> [hdr : Packet, pay : Packet]]
    /\ txfifo \in Seq([slot : TxSlot, want : Packet, len : Packet, hdr : Packet,
                      pay : Packet])
    /\ Len(txfifo) <= ETHMAC_TX_SLOTS
    /\ reg \in [slot : TxSlot, len : Packet]
    /\ asked \in BOOLEAN /\ frames \in 0 .. MaxFrames
    /\ evEnable \in BOOLEAN /\ mask \in BOOLEAN /\ attached \in BOOLEAN
    /\ rxslot \in RxSlot /\ txslot \in TxSlot /\ txlen \in Packet
    /\ cached_mac \in BOOLEAN /\ rx_callback \in BOOLEAN
    /\ ring \in 0 .. RingCapacity
    /\ pc["main"] \in {"top", "slot", "frame", "ack", "wait", "regs", "go", "advance",
                       "memcpy", "udp_send", "header"}
    /\ pc["isr"] \in {"off", "loop", "slot", "frame", "ack", "wait", "regs", "go",
                      "advance"}
    /\ ra \in [Context -> {"ack", "top"}]
    /\ tx \in TxSlot
    /\ phase \in {"start", "resolve", "arp", "init", "attach", "enable", "unmask",
                  "session", "idle", "halt"}
    /\ tries \in 0 .. ArpTries /\ polls \in 0 .. ArpPolls

\* dtls_io_enable_irq completes before the first interrupt can be taken: the
\* handler is attached (isr() would otherwise mask the irq for good), the
\* callback is installed and the ARP loop, which polls, is over.
HandlerReady == evEnable /\ mask => attached /\ rx_callback /\ cached_mac

\* A frame leaves the MAC only after process_frame ran on it exactly once.
\* udp_service keeps the slot number in a global, so two contexts inside it
\* would process one frame twice and acknowledge another unseen.  (udp_start
\* discards a frame on purpose.)
FrameProcessedOnce ==
    [][Len(rxfifo') < Len(rxfifo) /\ phase # "start"
         => rxdone[Head(rxfifo)] = 1]_vars

\* The same while the ISR is the only caller of udp_service: up to the end of
\* the session in the interrupt build, always in the polled one.
FrameProcessedOnceInSession ==
    [][Len(rxfifo') < Len(rxfifo) /\ phase # "start" /\ ~(DTLS_RX_IRQ /\ phase = "idle")
         => rxdone[Head(rxfifo)] = 1]_vars

\* Every packet handed to the MAC is the one its sender composed: header,
\* payload and length belong together.
WireIntact ==
    \A i \in DOMAIN txfifo : LET e == txfifo[i] IN
        e.hdr = e.want /\ e.pay = e.want /\ e.len = e.want

\* The ready bit send_packet waited for is still set when it starts the packet,
\* so the MAC does not ignore the start.  Only a second context can break it: it is
\* a part of the invariant of the polled build and fails in the interrupt build.
ReadyHolds ==
    \A c \in Context : pc[c] \in {"regs", "go"} => Len(txfifo) < ETHMAC_TX_SLOTS

\* A packet is composed in a slot the MAC is not still sending from.
SlotAvailable ==
    \A c \in Context : pc[c] = "wait" =>
        \A i \in DOMAIN txfifo : txfifo[i].slot # txslot

\* main leaves the unbounded ARP loop and reaches the session, if ARP answers
\* are not all lost.
BootCompletes == <>(phase \in {"session", "idle", "halt"})

\* In the interrupt build a frame is taken out of the MAC even if main never
\* takes another step (it is computing ML-KEM or ML-DSA).
IsrDrains == (DTLS_RX_IRQ /\ phase = "session" /\ rxfifo # <<>>) ~> (rxfifo = <<>>)

\* The ISR returns, although it may busy-wait for a transmit slot to answer an
\* ARP request or a ping.
IsrReturns == pc["isr"] # "off" ~> pc["isr"] = "off"
=============================================================================
