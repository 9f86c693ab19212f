------------------------------- MODULE Client -------------------------------
(***************************************************************************)
(* main() of src/boot/main.c from the set-up of wolfSSL to the idle loop:  *)
(* the handshake loop with its retransmission timer and deadline, the      *)
(* exchange of one message, the clean-up.  Of wolfSSL it has the           *)
(* retransmission time-out (Dtls13RtxTimeout and the variables it uses);   *)
(* wolfSSL_connect, _write and _read may return any of their results.      *)
(*                                                                         *)
(* Time is in whole seconds, as dtls_uptime_seconds returns it, and passes *)
(* between any two steps.                                                  *)
(***************************************************************************)
EXTENDS Integers

CONSTANTS
    DTLS_TIMEOUT_INIT, DTLS_TIMEOUT_MAX, DTLS_TIMEOUT_MULTIPLIER,
    HANDSHAKE_TIMEOUT_S,
    READ_TIMEOUT_S, \* the literal 10 of the read loop
    MaxPass         \* longest pass through a loop of main, in seconds

ASSUME TimeoutAssumption ==
    /\ DTLS_TIMEOUT_INIT \in Nat \ {0} /\ DTLS_TIMEOUT_MAX \in Nat
    /\ DTLS_TIMEOUT_MULTIPLIER = 2
    /\ HANDSHAKE_TIMEOUT_S \in Nat \ {0} /\ READ_TIMEOUT_S \in Nat
    /\ MaxPass \in Nat

\* The deadline comes before the retransmission time-out is used up:
\* 120 <= 64 + (64 - 1).
ASSUME DeadlineAssumption ==
    HANDSHAKE_TIMEOUT_S + DTLS_TIMEOUT_INIT <= 2 * DTLS_TIMEOUT_MAX

\* It comes after the largest time-out is reached, even when each of the r
\* retransmissions is a pass late: 32 + 31 + 5 * MaxPass <= 120.  MaxDoublings
\* bounds the doublings to that maximum, six in the code.
MaxDoublings == 8

ASSUME RoomAssumption ==
    /\ DTLS_TIMEOUT_MAX <= DTLS_TIMEOUT_INIT * 2^MaxDoublings
    /\ \A r \in 0 .. MaxDoublings - 1 :
          DTLS_TIMEOUT_INIT * 2^r < DTLS_TIMEOUT_MAX =>
              DTLS_TIMEOUT_INIT * 2^(r + 1) + r * MaxPass
                  <= HANDSHAKE_TIMEOUT_S + DTLS_TIMEOUT_INIT

VARIABLES
    phase,        \* where main is
    clock,        \* dtls_uptime_seconds
    late,         \* seconds since main last read the clock
    t_start, rtx_mark, rd_start,
    dtls_timeout, \* wolfSSL's current retransmission time-out
    fastTimeout,  \* dtls13FastTimeout
    seenRecords,  \* records received and not yet acknowledged
    helloDone,    \* serverState >= SERVER_HELLO_COMPLETE or a unified header seen
    heard,        \* some handshake record was received (history)
    rtx,          \* flights the timer retransmitted before that (history)
    rtxFailed,    \* wolfSSL_dtls_got_timeout returned an error, which main ignores
    outcome       \* what the handshake loop printed

wolf == <<dtls_timeout, fastTimeout, seenRecords, helloDone>>
marks == <<t_start, rtx_mark, rd_start>>
hist == <<heard, rtx, rtxFailed>>
vars == <<phase, clock, late, marks, wolf, hist, outcome>>

Init == /\ phase = "setup" /\ clock = 0 /\ late = 0
        /\ t_start = 0 /\ rtx_mark = 0 /\ rd_start = 0
        /\ dtls_timeout = DTLS_TIMEOUT_INIT /\ fastTimeout = FALSE
        /\ seenRecords = FALSE /\ helloDone = FALSE
        /\ heard = FALSE /\ rtx = 0 /\ rtxFailed = FALSE
        /\ outcome = "none"

\* A second passes.
Tick == /\ phase \in {"connect", "timers", "write", "read", "again"}
        /\ late < MaxPass
        /\ clock' = clock + 1 /\ late' = late + 1
        /\ UNCHANGED <<phase, marks, wolf, hist, outcome>>

-----------------------------------------------------------------------------
(* Set-up *)

\* One of the calls that create the session fails: return -1.
SetupFails == /\ phase = "setup" /\ phase' = "fatal"
              /\ UNCHANGED <<clock, late, marks, wolf, hist, outcome>>

SetupDone == /\ phase = "setup" /\ phase' = "connect"
             /\ t_start' = clock /\ rtx_mark' = clock
             /\ UNCHANGED <<clock, late, rd_start, wolf, hist, outcome>>

-----------------------------------------------------------------------------
(* The handshake loop *)

ConnectDone == /\ phase = "connect" /\ phase' = "write"
               /\ outcome' = "complete"
               /\ UNCHANGED <<clock, late, marks, wolf, hist>>

ConnectError == /\ phase = "connect" /\ phase' = "cleanup"
                /\ outcome' = "error"
                /\ UNCHANGED <<clock, late, marks, wolf, hist>>

\* WANT_READ or WANT_WRITE with no handshake record received meanwhile.
ConnectSilent == /\ phase = "connect" /\ phase' = "timers"
                 /\ UNCHANGED <<clock, late, marks, wolf, hist, outcome>>

\* The same after handshake records: Dtls13RecordRecvd notes them for an ACK,
\* ProcessReply restarts the time-out.  If the client has answered them with its
\* next flight, the list of those to acknowledge is empty again.
ConnectHeard == /\ phase = "connect" /\ phase' = "timers"
                /\ dtls_timeout' = DTLS_TIMEOUT_INIT
                /\ fastTimeout' = TRUE /\ seenRecords' \in BOOLEAN /\ heard' = TRUE
                /\ helloDone' \in {helloDone, TRUE}
                /\ UNCHANGED <<clock, late, marks, rtx, rtxFailed, outcome>>

\* Dtls13RtxTimeout with DtlsMsgPoolTimeout.  The fast time-out survives only
\* while the records seen cannot be acknowledged yet.
Dtls13RtxTimeout ==
    LET ack  == seenRecords /\ helloDone
        fast == fastTimeout /\ ~ack
        exhausted == dtls_timeout >= DTLS_TIMEOUT_MAX
    IN  /\ seenRecords' = (seenRecords /\ ~ack)
        /\ fastTimeout' = FALSE
        /\ dtls_timeout' = IF fast \/ exhausted THEN dtls_timeout
                           ELSE dtls_timeout * DTLS_TIMEOUT_MULTIPLIER
        /\ rtx' = IF fast \/ exhausted \/ heard THEN rtx ELSE rtx + 1
        /\ rtxFailed' = (rtxFailed \/ (~fast /\ exhausted))

\* The retransmission timer has run out.
TimerFires == dtls_timeout > 0 /\ clock - rtx_mark >= dtls_timeout

\* Mutants: the mark is not moved, is moved in every pass, is moved to the time
\* of the next retransmission.
MarkNever == rtx_mark
MarkAlways == clock
MarkAhead == IF TimerFires THEN clock + dtls_timeout ELSE rtx_mark

\* rtx_mark moves when the timer fires.
NewMark == IF TimerFires THEN clock ELSE rtx_mark

\* Mutant: the deadline is restarted by a retransmission.
ExpiredSinceMark == clock - rtx_mark >= HANDSHAKE_TIMEOUT_S

Expired == clock - t_start >= HANDSHAKE_TIMEOUT_S

\* dtls_io_pump, the retransmission timer, the deadline.
Timers ==
    /\ phase = "timers"
    /\ IF TimerFires THEN Dtls13RtxTimeout
       ELSE UNCHANGED <<seenRecords, fastTimeout, dtls_timeout, rtx, rtxFailed>>
    /\ rtx_mark' = NewMark
    /\ IF Expired THEN phase' = "cleanup" /\ outcome' = "timeout"
                  ELSE phase' = "connect" /\ UNCHANGED outcome
    /\ late' = 0
    /\ UNCHANGED <<clock, t_start, rd_start, helloDone, heard>>

-----------------------------------------------------------------------------
(* Application data *)

\* The result of wolfSSL_write is printed and not used.
Write == /\ phase = "write" /\ phase' = "read"
         /\ rd_start' = clock /\ late' = 0
         /\ UNCHANGED <<clock, t_start, rtx_mark, wolf, hist, outcome>>

\* A reply, or an error other than WANT_READ.
ReadEnds == /\ phase = "read" /\ phase' = "cleanup"
            /\ UNCHANGED <<clock, late, marks, wolf, hist, outcome>>

\* WANT_READ: dtls_io_pump, then the test of the do-while loop.
ReadWaits == /\ phase = "read" /\ phase' = "again"
             /\ UNCHANGED <<clock, late, marks, wolf, hist, outcome>>

\* Mutant: the read loop does not look at the clock.
ReadForEver == /\ phase = "again" /\ phase' = "read"
               /\ UNCHANGED <<clock, late, marks, wolf, hist, outcome>>

ReadAgain == /\ phase = "again"
             /\ phase' = IF clock - rd_start < READ_TIMEOUT_S THEN "read" ELSE "cleanup"
             /\ late' = 0
             /\ UNCHANGED <<clock, marks, wolf, hist, outcome>>

\* wolfSSL_free, wolfSSL_CTX_free, wolfSSL_Cleanup; then the idle loop.
Cleanup == /\ phase = "cleanup" /\ phase' = "idle"
           /\ UNCHANGED <<clock, late, marks, wolf, hist, outcome>>

-----------------------------------------------------------------------------
Main == \/ SetupFails \/ SetupDone
        \/ ConnectDone \/ ConnectError \/ ConnectSilent \/ ConnectHeard \/ Timers
        \/ Write \/ ReadEnds \/ ReadWaits \/ ReadAgain \/ Cleanup

Next == Tick \/ Main

\* Calls into wolfSSL return, and time passes.
Fairness == WF_vars(Main) /\ WF_vars(Tick)

Spec == Init /\ [][Next]_vars
FairSpec == Spec /\ Fairness

-----------------------------------------------------------------------------
TimesOK ==
    /\ clock \in Nat /\ late \in 0 .. MaxPass
    /\ t_start \in Nat /\ rtx_mark \in Nat /\ rd_start \in Nat
    /\ t_start <= clock /\ rtx_mark <= clock /\ rd_start <= clock
    /\ dtls_timeout \in Nat /\ rtx \in Nat

FlagsOK ==
    /\ phase \in {"setup", "connect", "timers", "write", "read", "again", "cleanup",
                  "idle", "fatal"}
    /\ fastTimeout \in BOOLEAN /\ seenRecords \in BOOLEAN /\ helloDone \in BOOLEAN
    /\ heard \in BOOLEAN /\ rtxFailed \in BOOLEAN
    /\ outcome \in {"none", "complete", "timeout", "error"}

TypeOK == TimesOK /\ FlagsOK

\* main ignores the result of wolfSSL_dtls_got_timeout, which is an error once
\* the time-out has reached its maximum, and from then on nothing would be
\* retransmitted.  That never costs a connection: it can only happen in the
\* pass in which the handshake deadline is found to have expired.
RetransmitsToTheEnd == rtxFailed => phase \in {"cleanup", "idle"}

\* The client goes on calling wolfSSL_connect for at most one pass after the
\* deadline, and never gives up before it.
DeadlineKept ==
    /\ phase \in {"connect", "timers"} => clock - t_start < HANDSHAKE_TIMEOUT_S + MaxPass
    /\ outcome = "timeout" => clock - t_start >= HANDSHAKE_TIMEOUT_S

\* A client that hears nothing retransmits its flight once for every doubling
\* up to the largest time-out, six times in the code, before it fails: the
\* deadline leaves room for the whole back-off.
SilenceRetries ==
    outcome = "timeout" /\ ~heard => DTLS_TIMEOUT_INIT * 2^rtx >= DTLS_TIMEOUT_MAX

\* Whatever wolfSSL and the network do, main() ends in its idle loop or in the
\* early return of a failed set-up.
Terminates == <>(phase \in {"idle", "fatal"})
=============================================================================
