------------------------------- MODULE Uptime -------------------------------
(***************************************************************************)
(* The client's clock: timer0 of the SoC, a down-counter that reloads, and *)
(* dtls_timer_init / dtls_timer_ticks of src/boot/dtls_io.c, which turn it *)
(* into a 64-bit tick count.  The counter runs between any two steps of    *)
(* the software.                                                           *)
(***************************************************************************)
EXTENDS Integers

CONSTANTS
    Top,      \* 0xFFFFFFFF in the code: the value timer0 is reloaded with
    MaxGap,   \* longest time between the latches of two calls, in ticks
    MaxTicks  \* bound: ticks counted

\* The clock is read at least once per period of the counter: each pass of the
\* handshake loop and of the read loop of main() reads it, and no computation
\* in between takes 2^32 microseconds.
ASSUME UptimeAssumption == /\ Top \in Nat
                           /\ MaxGap \in 0 .. Top
                           /\ MaxTicks \in Nat

VARIABLES
    counter,        \* timer0's value
    latched,        \* the value register, written by update_value
    timer_last_val, timer_wrap_acc,
    pc,             \* "start", "init", "idle", or "read" inside dtls_timer_ticks
    ticks,          \* result of the last dtls_timer_ticks
    now,            \* true ticks since the counter was enabled (history)
    latchedAt,      \* now at the last update_value write (history)
    readAt          \* now at the latch of the last completed call (history)

hw == <<counter, now>>
sw == <<timer_last_val, timer_wrap_acc, pc, ticks, readAt>>
vars == <<hw, latched, latchedAt, sw>>

\* en = 0, reload, load, en = 1: counting starts at Top.
Init == /\ counter = Top /\ now = 0
        /\ latched = 0 /\ latchedAt = 0
        /\ timer_last_val = 0 /\ timer_wrap_acc = 0
        /\ pc = "start" /\ ticks = 0 /\ readAt = 0

\* One clock cycle of timer0.
Tick == /\ now < MaxTicks
        /\ now - readAt < MaxGap
        /\ now' = now + 1
        /\ counter' = IF counter = 0 THEN Top ELSE counter - 1
        /\ UNCHANGED <<latched, latchedAt, sw>>

\* update_value_write(1).
Latch == latched' = counter /\ latchedAt' = now

\* dtls_timer_init latches ...
InitLatch == /\ pc = "start" /\ pc' = "init"
             /\ Latch
             /\ UNCHANGED <<hw, timer_last_val, timer_wrap_acc, ticks, readAt>>

\* ... and reads the first value.
InitRead == /\ pc = "init" /\ pc' = "idle"
            /\ timer_last_val' = latched /\ timer_wrap_acc' = 0
            /\ ticks' = Top - latched
            /\ readAt' = latchedAt
            /\ UNCHANGED <<hw, latched, latchedAt>>

\* CustomRngGenerateBlock latches the same counter for its own use.
RngLatch == /\ pc = "idle" /\ Latch
            /\ UNCHANGED <<hw, sw>>

\* dtls_timer_ticks latches ...
TicksLatch == /\ pc = "idle" /\ pc' = "read"
              /\ Latch
              /\ UNCHANGED <<hw, timer_last_val, timer_wrap_acc, ticks, readAt>>

\* Mutant: the down-counter's value is subtracted from the epoch.
TicksReadRaw == /\ pc = "read" /\ pc' = "idle"
                /\ timer_wrap_acc' = IF latched > timer_last_val
                                     THEN timer_wrap_acc + Top + 1
                                     ELSE timer_wrap_acc
                /\ timer_last_val' = latched
                /\ ticks' = timer_wrap_acc' - latched
                /\ readAt' = latchedAt
                /\ UNCHANGED <<hw, latched, latchedAt>>

\* Mutant: timer_last_val is not updated.
TicksReadStale == /\ pc = "read" /\ pc' = "idle"
                  /\ timer_wrap_acc' = IF latched > timer_last_val
                                       THEN timer_wrap_acc + Top + 1
                                       ELSE timer_wrap_acc
                  /\ ticks' = timer_wrap_acc' + (Top - latched)
                  /\ readAt' = latchedAt
                  /\ UNCHANGED <<hw, latched, latchedAt, timer_last_val>>

\* ... and reads; a value above the last one means the counter was reloaded.
TicksRead == /\ pc = "read" /\ pc' = "idle"
             /\ timer_wrap_acc' = IF latched > timer_last_val
                                  THEN timer_wrap_acc + Top + 1
                                  ELSE timer_wrap_acc
             /\ timer_last_val' = latched
             /\ ticks' = timer_wrap_acc' + (Top - latched)
             /\ readAt' = latchedAt
             /\ UNCHANGED <<hw, latched, latchedAt>>

Next == Tick \/ InitLatch \/ InitRead \/ RngLatch \/ TicksLatch \/ TicksRead

Spec == Init /\ [][Next]_vars

-----------------------------------------------------------------------------
TypeOK == /\ counter \in 0 .. Top /\ latched \in 0 .. Top
          /\ timer_last_val \in 0 .. Top /\ timer_wrap_acc \in Nat
          /\ pc \in {"start", "init", "idle", "read"}
          /\ ticks \in Nat
          /\ now \in 0 .. MaxTicks /\ latchedAt \in 0 .. now /\ readAt \in 0 .. now

\* dtls_timer_ticks returns the true number of ticks at its latch, across any
\* number of reloads of the counter, so the clock never runs backwards and
\* never skips.
ClockExact == ticks = readAt
=============================================================================
