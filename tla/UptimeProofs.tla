---------------------------- MODULE UptimeProofs ----------------------------
(***************************************************************************)
(* The clock is exact for every counter width.                             *)
(***************************************************************************)
EXTENDS Uptime, TLAPS

\* True ticks at which the counter was last reloaded, seen from a counter
\* value and the time at which the counter had it.
Epoch(value, time) == time - (Top - value)

\* Since the last completed call the counter was reloaded at most once, so it
\* was reloaded exactly when its value went up.
IInv ==
    /\ TypeOK
    /\ ClockExact
    /\ now - readAt <= MaxGap
    /\ readAt <= latchedAt
    /\ pc \in {"start", "init"} => /\ readAt = 0 /\ timer_wrap_acc = 0
                                   /\ Epoch(counter, now) = 0
    /\ pc = "init" => Epoch(latched, latchedAt) = 0
    /\ pc \in {"idle", "read"} =>
        /\ Epoch(timer_last_val, readAt) = timer_wrap_acc
        /\ Epoch(counter, now) \in {timer_wrap_acc, timer_wrap_acc + Top + 1}
        /\ Epoch(latched, latchedAt) \in {timer_wrap_acc, timer_wrap_acc + Top + 1}

\* A tick, and each step of dtls_timer_init, dtls_timer_ticks and the random
\* generator, keeps the times of reload in step.
LEMMA Invariance == Spec => []IInv
<1> USE UptimeAssumption
<1>1. Init => IInv
  BY DEF Init, IInv, TypeOK, ClockExact, Epoch
<1>2. IInv /\ [Next]_vars => IInv'
  <2> SUFFICES ASSUME IInv, [Next]_vars PROVE IInv'
    OBVIOUS
  <2> USE DEF IInv, TypeOK, ClockExact, Epoch, hw, sw
  <2>1. CASE Tick
    BY <2>1 DEF Tick
  <2>2. CASE InitLatch
    BY <2>2 DEF InitLatch, Latch
  <2>3. CASE InitRead
    BY <2>3 DEF InitRead
  <2>4. CASE RngLatch
    BY <2>4 DEF RngLatch, Latch
  <2>5. CASE TicksLatch
    BY <2>5 DEF TicksLatch, Latch
  <2>6. CASE TicksRead
    BY <2>6 DEF TicksRead
  <2>7. CASE UNCHANGED vars
    BY <2>7 DEF vars
  <2> QED  BY <2>1, <2>2, <2>3, <2>4, <2>5, <2>6, <2>7 DEF Next
<1> QED  BY <1>1, <1>2, PTL DEF Spec

\* Every counter width: the accumulated periods and the result of
\* dtls_timer_ticks are natural numbers, no call of it ran ahead of the counter.
THEOREM TypeCorrect == Spec => []TypeOK
<1>1. IInv => TypeOK
  BY DEF IInv
<1> QED  BY <1>1, Invariance, PTL

\* Every counter width: dtls_timer_ticks returns true time.
THEOREM ClockCorrect == Spec => []ClockExact
<1>1. IInv => ClockExact
  BY DEF IInv
<1> QED  BY <1>1, Invariance, PTL
=============================================================================
