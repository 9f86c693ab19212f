---------------------------- MODULE ClientProofs ----------------------------
(***************************************************************************)
(* The two timers of the handshake loop, for all their constants.          *)
(***************************************************************************)
EXTENDS Client, TLAPS

InHandshake == phase \in {"connect", "timers"}

\* The time-out is paid for: it doubles only after it ran out, and then the
\* mark moves on by at least as much as the time-out grows.
BackoffPaid ==
    /\ DTLS_TIMEOUT_INIT <= dtls_timeout
    /\ phase = "setup" => dtls_timeout = DTLS_TIMEOUT_INIT
    /\ InHandshake => dtls_timeout - DTLS_TIMEOUT_INIT <= rtx_mark - t_start

\* The time beyond the deadline is the time since the last test of it.
DeadlineTested ==
    /\ phase = "setup" => late = 0
    /\ InHandshake => clock - t_start < HANDSHAKE_TIMEOUT_S + late
    /\ outcome = "timeout" => /\ phase \in {"cleanup", "idle"}
                              /\ clock - t_start >= HANDSHAKE_TIMEOUT_S

IInv == TypeOK /\ BackoffPaid /\ DeadlineTested /\ RetransmitsToTheEnd

LEMMA InitIInv == Init => IInv
<1> SUFFICES ASSUME Init PROVE IInv
  OBVIOUS
<1> USE TimeoutAssumption DEF Init
<1>1. TimesOK /\ FlagsOK
  <2>1. TimesOK
    BY DEF TimesOK
  <2>2. FlagsOK
    BY Zenon DEF FlagsOK
  <2> QED  BY <2>1, <2>2
<1>2. BackoffPaid
  BY DEF BackoffPaid, InHandshake
<1>3. DeadlineTested
  BY DEF DeadlineTested, InHandshake
<1>4. RetransmitsToTheEnd
  BY DEF RetransmitsToTheEnd
<1> QED  BY <1>1, <1>2, <1>3, <1>4 DEF IInv, TypeOK

\* In a pass in which the timer fires with the time-out at its maximum, the
\* deadline has expired: MAX seconds since the mark, and the mark is MAX - INIT
\* seconds after the start.
LEMMA ExhaustedIsExpired ==
    ASSUME IInv, phase = "timers", TimerFires, dtls_timeout >= DTLS_TIMEOUT_MAX
    PROVE  Expired
BY TimeoutAssumption, DeadlineAssumption
DEF IInv, TypeOK, TimesOK, BackoffPaid, InHandshake, TimerFires, Expired

\* What a time-out does to the variables of wolfSSL.
LEMMA RtxTimeoutEffect ==
    ASSUME TypeOK, Dtls13RtxTimeout
    PROVE  /\ seenRecords' \in BOOLEAN /\ fastTimeout' \in BOOLEAN
           /\ rtx' \in Nat /\ rtxFailed' \in BOOLEAN
           /\ dtls_timeout' \in {dtls_timeout, 2 * dtls_timeout}
           /\ rtxFailed' => rtxFailed \/ dtls_timeout >= DTLS_TIMEOUT_MAX
<1>1. dtls_timeout' \in {dtls_timeout, 2 * dtls_timeout} /\ rtx' \in Nat
  BY TimeoutAssumption DEF TypeOK, TimesOK, Dtls13RtxTimeout
<1>2. /\ seenRecords' \in BOOLEAN /\ fastTimeout' \in BOOLEAN
      /\ rtxFailed' \in BOOLEAN
      /\ rtxFailed' => rtxFailed \/ dtls_timeout >= DTLS_TIMEOUT_MAX
  BY Zenon DEF TypeOK, FlagsOK, Dtls13RtxTimeout
<1> QED  BY <1>1, <1>2

\* One pass of the timer code.
LEMMA TimersIInv == IInv /\ Timers => IInv'
<1> SUFFICES ASSUME IInv, Timers PROVE IInv'
  OBVIOUS
<1>1. /\ seenRecords' \in BOOLEAN /\ fastTimeout' \in BOOLEAN
      /\ rtx' \in Nat /\ rtxFailed' \in BOOLEAN
      /\ dtls_timeout' \in {dtls_timeout, 2 * dtls_timeout}
      /\ ~TimerFires => dtls_timeout' = dtls_timeout
      /\ rtxFailed' => Expired
  <2>1. CASE TimerFires
    BY <2>1, RtxTimeoutEffect, ExhaustedIsExpired
    DEF IInv, TypeOK, TimesOK, FlagsOK, RetransmitsToTheEnd, Timers
  <2>2. CASE ~TimerFires
    BY <2>2 DEF IInv, TypeOK, TimesOK, FlagsOK, RetransmitsToTheEnd, Timers
  <2> QED  BY <2>1, <2>2
<1>2. TypeOK'
  BY <1>1, TimeoutAssumption DEF IInv, TypeOK, TimesOK, FlagsOK, Timers, NewMark
<1>3. BackoffPaid'
  <2> USE TimeoutAssumption
      DEF IInv, TypeOK, TimesOK, BackoffPaid, InHandshake, NewMark, TimerFires
  <2>1. /\ phase = "timers" /\ phase' # "setup"
        /\ rtx_mark' = NewMark /\ t_start' = t_start
    BY DEF Timers
  <2>2. CASE TimerFires
    <3>1. dtls_timeout' = dtls_timeout \/ dtls_timeout' = 2 * dtls_timeout
      BY <1>1
    <3>2. dtls_timeout' - DTLS_TIMEOUT_INIT <= rtx_mark' - t_start'
      BY <2>1, <2>2, <3>1
    <3> QED  BY <2>1, <3>1, <3>2
  <2>3. CASE ~TimerFires
    BY <1>1, <2>1, <2>3
  <2> QED  BY <2>2, <2>3
<1>4. DeadlineTested'
  BY TimeoutAssumption
  DEF IInv, TypeOK, TimesOK, DeadlineTested, InHandshake, Timers, Expired
<1>5. RetransmitsToTheEnd'
  BY <1>1 DEF IInv, RetransmitsToTheEnd, Timers
<1> QED  BY <1>2, <1>3, <1>4, <1>5 DEF IInv

LEMMA NextIInv == IInv /\ [Next]_vars => IInv'
<1> SUFFICES ASSUME IInv, [Next]_vars PROVE IInv'
  OBVIOUS
<1>1. CASE Timers
  BY <1>1, TimersIInv
<1>2. CASE Tick \/ UNCHANGED vars
  BY <1>2, TimeoutAssumption
  DEF Tick, vars, wolf, marks, hist, IInv, TypeOK, TimesOK, FlagsOK, BackoffPaid,
      DeadlineTested, RetransmitsToTheEnd, InHandshake
<1>3. CASE SetupDone
  <2>1. FlagsOK'
    BY <1>3, Zenon DEF SetupDone, wolf, hist, IInv, TypeOK, FlagsOK
  <2>2. /\ phase = "setup" /\ phase' = "connect" /\ t_start' = clock /\ rtx_mark' = clock
        /\ UNCHANGED <<clock, late, rd_start, dtls_timeout, rtx, rtxFailed, outcome>>
    BY <1>3 DEF SetupDone, wolf, hist
  <2> QED
    BY <2>1, <2>2, TimeoutAssumption
    DEF IInv, TypeOK, TimesOK, BackoffPaid, DeadlineTested, RetransmitsToTheEnd, InHandshake
<1>4. CASE ConnectHeard
  <2>1. FlagsOK'
    BY <1>4, Zenon DEF ConnectHeard, IInv, TypeOK, FlagsOK
  <2>2. /\ phase = "connect" /\ phase' = "timers" /\ dtls_timeout' = DTLS_TIMEOUT_INIT
        /\ UNCHANGED <<clock, late, t_start, rtx_mark, rd_start, rtx, rtxFailed, outcome>>
    BY <1>4 DEF ConnectHeard, marks
  <2> QED
    BY <2>1, <2>2, TimeoutAssumption
    DEF IInv, TypeOK, TimesOK, BackoffPaid, DeadlineTested, RetransmitsToTheEnd, InHandshake
<1>5. CASE SetupFails \/ ConnectDone \/ ConnectError \/ ConnectSilent
  BY <1>5, TimeoutAssumption
  DEF SetupFails, ConnectDone, ConnectError, ConnectSilent, wolf, marks, hist, IInv,
      TypeOK, TimesOK, FlagsOK, BackoffPaid, DeadlineTested, RetransmitsToTheEnd, InHandshake
<1>6. CASE Write \/ ReadEnds \/ ReadWaits \/ ReadAgain \/ Cleanup
  BY <1>6, TimeoutAssumption
  DEF Write, ReadEnds, ReadWaits, ReadAgain, Cleanup, wolf, marks, hist, IInv, TypeOK,
      TimesOK, FlagsOK, BackoffPaid, DeadlineTested, RetransmitsToTheEnd, InHandshake
<1> QED  BY <1>1, <1>2, <1>3, <1>4, <1>5, <1>6 DEF Next, Main

LEMMA Invariance == Spec => []IInv
BY InitIInv, NextIInv, PTL DEF Spec

\* The variables of the handshake loop keep their types, and its marks are
\* never in the future.
THEOREM TypeCorrect == Spec => []TypeOK
BY Invariance, PTL DEF IInv

\* For every back-off and deadline with HANDSHAKE_TIMEOUT_S + DTLS_TIMEOUT_INIT
\* <= 2 * DTLS_TIMEOUT_MAX, however slow the passes are: the error of
\* wolfSSL_dtls_got_timeout that main ignores never costs a connection.
THEOREM BackoffOutlastsDeadline == Spec => []RetransmitsToTheEnd
BY Invariance, PTL DEF IInv

\* The handshake loop gives up after its deadline, and within one pass of it.
THEOREM DeadlineCorrect == Spec => []DeadlineKept
<1>1. IInv => DeadlineKept
  BY TimeoutAssumption
  DEF IInv, TypeOK, TimesOK, DeadlineTested, InHandshake, DeadlineKept
<1> QED  BY <1>1, Invariance, PTL

-----------------------------------------------------------------------------
(* The back-off of a client that hears nothing *)

\* The time-out after r doublings, and the most that r late passes add.
Backoff(r) == DTLS_TIMEOUT_INIT * 2^r
Slack(r) == r * MaxPass

\* One more doubling, for each of the exponents there can be.
LEMMA Doubles ==
    \A r \in 0 .. 7 : /\ Backoff(r) \in Nat /\ Backoff(r + 1) = 2 * Backoff(r)
                       /\ Backoff(r + 1) \in Nat
<1> SUFFICES ASSUME NEW r \in 0 .. 7
             PROVE  /\ Backoff(r) \in Nat /\ Backoff(r + 1) = 2 * Backoff(r)
                    /\ Backoff(r + 1) \in Nat
  OBVIOUS
<1> USE TimeoutAssumption DEF Backoff
<1>0. CASE r = 0
  BY <1>0
<1>1. CASE r = 1
  BY <1>1
<1>2. CASE r = 2
  BY <1>2
<1>3. CASE r = 3
  BY <1>3
<1>4. CASE r = 4
  BY <1>4
<1>5. CASE r = 5
  BY <1>5
<1>6. CASE r = 6
  BY <1>6
<1>7. CASE r = 7
  BY <1>7
<1> QED
  BY <1>0, <1>1, <1>2, <1>3, <1>4, <1>5, <1>6, <1>7

\* One more late pass.
LEMMA SlackGrows ==
    ASSUME NEW r \in Nat
    PROVE  Slack(r) \in Nat /\ Slack(r + 1) = Slack(r) + MaxPass
BY TimeoutAssumption DEF Slack

\* RoomAssumption in these terms.
LEMMA Room ==
    /\ DTLS_TIMEOUT_MAX <= Backoff(8)
    /\ \A r \in 0 .. 7 :
          Backoff(r) < DTLS_TIMEOUT_MAX =>
              Backoff(r + 1) + Slack(r) <= HANDSHAKE_TIMEOUT_S + DTLS_TIMEOUT_INIT
BY RoomAssumption DEF MaxDoublings, Backoff, Slack

\* While nothing is heard the time-out is that of rtx doublings.  The timer
\* fires in the first pass that finds it run out, at most a pass late, so the
\* mark is not much later than the sum of the time-outs so far.
SilentBackoff ==
    /\ rtx \in 0 .. 8 /\ dtls_timeout = Backoff(rtx) /\ ~fastTimeout
    /\ phase = "setup" => rtx = 0
    /\ InHandshake => /\ clock - rtx_mark < dtls_timeout + late
                      /\ rtx_mark - t_start <= dtls_timeout - DTLS_TIMEOUT_INIT + Slack(rtx)
    /\ outcome = "timeout" => dtls_timeout >= DTLS_TIMEOUT_MAX

Silence == ~heard => SilentBackoff

\* Below the largest time-out, what has passed of the back-off and the present
\* time-out are over before the deadline.
LEMMA BeforeDeadline ==
    ASSUME NEW r \in 0 .. 8, NEW d \in Int, Backoff(r) < DTLS_TIMEOUT_MAX,
           d < Backoff(r) + Backoff(r) - DTLS_TIMEOUT_INIT + Slack(r)
    PROVE  d < HANDSHAKE_TIMEOUT_S
<1>1. r \in 0 .. 7
  <2>1. Backoff(7 + 1) \in Nat
    BY Doubles
  <2> QED
    BY <2>1, Room, TimeoutAssumption
<1>2. /\ Backoff(r) \in Nat /\ Backoff(r + 1) = 2 * Backoff(r) /\ Slack(r) \in Nat
      /\ Backoff(r + 1) + Slack(r) <= HANDSHAKE_TIMEOUT_S + DTLS_TIMEOUT_INIT
  BY <1>1, Room, Doubles, SlackGrows
<1> QED
  BY <1>2, TimeoutAssumption

\* A pass of the timer code in silence: the timer, when it fires with the
\* time-out below its maximum, retransmits and doubles it.
LEMMA TimersSilence ==
    ASSUME IInv, IInv', SilentBackoff, Timers, ~heard
    PROVE  SilentBackoff'
<1>1. /\ phase = "timers" /\ InHandshake /\ phase' # "setup" /\ late' = 0
      /\ UNCHANGED <<clock, t_start>> /\ rtx_mark' = NewMark
      /\ IF Expired THEN phase' = "cleanup" /\ outcome' = "timeout"
                    ELSE phase' = "connect" /\ UNCHANGED outcome
  BY DEF Timers, InHandshake
<1>2. ~fastTimeout'
  BY DEF Timers, Dtls13RtxTimeout, SilentBackoff
<1>3. CASE TimerFires /\ dtls_timeout < DTLS_TIMEOUT_MAX
  <2>1. dtls_timeout' = 2 * dtls_timeout /\ rtx' = rtx + 1
    BY <1>3, TimeoutAssumption DEF Timers, Dtls13RtxTimeout, SilentBackoff, IInv, TypeOK, TimesOK
  <2>2. rtx \in 0 .. 7
    BY <1>3, Room, TimeoutAssumption DEF SilentBackoff, IInv, TypeOK, TimesOK
  <2>3. /\ Backoff(rtx) \in Nat /\ Backoff(rtx + 1) = 2 * Backoff(rtx)
        /\ Slack(rtx) \in Nat /\ Slack(rtx + 1) = Slack(rtx) + MaxPass
    BY <2>2, Doubles, SlackGrows
  <2>4. rtx' \in 0 .. 8 /\ dtls_timeout' = Backoff(rtx')
    BY <2>1, <2>2, <2>3 DEF SilentBackoff
  <2>5. /\ clock' - rtx_mark' < dtls_timeout' + late'
        /\ rtx_mark' - t_start' <= dtls_timeout' - DTLS_TIMEOUT_INIT + Slack(rtx')
    BY <1>1, <1>3, <2>1, <2>3, TimeoutAssumption
    DEF SilentBackoff, IInv, TypeOK, TimesOK, BackoffPaid, NewMark
  <2>6. Expired => dtls_timeout' >= DTLS_TIMEOUT_MAX
    <3>1. SUFFICES ASSUME dtls_timeout' < DTLS_TIMEOUT_MAX PROVE ~Expired
      BY <2>1, TimeoutAssumption DEF IInv, TypeOK, TimesOK
    <3>2. /\ Slack(rtx') \in Nat /\ clock - t_start \in Int /\ dtls_timeout' \in Nat
          /\ dtls_timeout' >= 1
      BY <2>4, SlackGrows, TimeoutAssumption DEF IInv, TypeOK, TimesOK, BackoffPaid
    <3>3. clock - t_start <= dtls_timeout' - DTLS_TIMEOUT_INIT + Slack(rtx')
      BY <1>1, <1>3, <2>5 DEF NewMark
    <3>4. clock - t_start < Backoff(rtx') + Backoff(rtx') - DTLS_TIMEOUT_INIT + Slack(rtx')
      BY <2>4, <3>2, <3>3, TimeoutAssumption
    <3>5. clock - t_start < HANDSHAKE_TIMEOUT_S
      BY <2>4, <3>1, <3>2, <3>4, BeforeDeadline
    <3> QED
      BY <3>2, <3>5, TimeoutAssumption DEF Expired
  <2> QED
    BY <1>1, <1>2, <2>4, <2>5, <2>6 DEF SilentBackoff, IInv, DeadlineTested
<1>4. CASE TimerFires /\ ~(dtls_timeout < DTLS_TIMEOUT_MAX)
  <2>1. dtls_timeout' = dtls_timeout /\ rtx' = rtx /\ dtls_timeout >= DTLS_TIMEOUT_MAX
    BY <1>4, TimeoutAssumption DEF Timers, Dtls13RtxTimeout, SilentBackoff, IInv, TypeOK, TimesOK
  <2>2. Expired
    BY <1>1, <1>4, <2>1, ExhaustedIsExpired
  <2> QED
    BY <1>1, <1>2, <2>1, <2>2 DEF SilentBackoff, InHandshake
<1>5. CASE ~TimerFires
  <2>1. UNCHANGED <<dtls_timeout, rtx, rtx_mark>>
    BY <1>1, <1>5 DEF Timers, NewMark
  <2>2. clock - rtx_mark < dtls_timeout
    BY <1>5, TimeoutAssumption DEF TimerFires, IInv, TypeOK, TimesOK, BackoffPaid
  <2>3. Expired => dtls_timeout >= DTLS_TIMEOUT_MAX
    <3>1. SUFFICES ASSUME dtls_timeout < DTLS_TIMEOUT_MAX PROVE ~Expired
      BY TimeoutAssumption DEF IInv, TypeOK, TimesOK
    <3>2. Slack(rtx) \in Nat /\ clock - t_start \in Int /\ rtx \in 0 .. 8
      BY SlackGrows DEF SilentBackoff, IInv, TypeOK, TimesOK
    <3>3. clock - t_start < dtls_timeout + dtls_timeout - DTLS_TIMEOUT_INIT + Slack(rtx)
      BY <1>1, <2>2, <3>2, TimeoutAssumption DEF SilentBackoff, IInv, TypeOK, TimesOK
    <3>4. clock - t_start < HANDSHAKE_TIMEOUT_S
      BY <3>1, <3>2, <3>3, BeforeDeadline DEF SilentBackoff
    <3> QED
      BY <3>2, <3>4, TimeoutAssumption DEF Expired
  <2>4. phase' # "setup" /\ clock' - rtx_mark' < dtls_timeout' + late'
    BY <1>1, <2>1, <2>2 DEF IInv, TypeOK, TimesOK
  <2> QED
    BY <1>1, <1>2, <2>1, <2>3, <2>4 DEF SilentBackoff, IInv, DeadlineTested
<1> QED
  BY <1>3, <1>4, <1>5

\* Any other step of main, or of the clock, in silence.
LEMMA OtherSilence ==
    ASSUME IInv, SilentBackoff, ~heard, ~heard', [Next]_vars, ~Timers
    PROVE  SilentBackoff'
<1> USE DEF SilentBackoff, InHandshake, wolf, marks, hist
<1>1. CASE Tick \/ UNCHANGED vars
  BY <1>1, TimeoutAssumption DEF Tick, vars, IInv, TypeOK, TimesOK
<1>2. CASE SetupDone
  <2>1. Slack(0) \in Nat
    BY SlackGrows
  <2> QED
    BY <1>2, <2>1, TimeoutAssumption
    DEF SetupDone, IInv, TypeOK, TimesOK, BackoffPaid, DeadlineTested
<1>3. CASE SetupFails \/ ConnectDone \/ ConnectError \/ ConnectSilent
  BY <1>3 DEF SetupFails, ConnectDone, ConnectError, ConnectSilent
<1>4. CASE Write \/ ReadEnds \/ ReadWaits \/ ReadAgain \/ Cleanup
  BY <1>4 DEF Write, ReadEnds, ReadWaits, ReadAgain, Cleanup
<1> QED
  BY <1>1, <1>2, <1>3, <1>4 DEF Next, Main, ConnectHeard

\* The silent client's back-off is as it should be throughout.
LEMMA SilenceInvariance == Spec => []Silence
<1>1. Init => Silence
  <2>1. Backoff(0) = DTLS_TIMEOUT_INIT
    BY TimeoutAssumption DEF Backoff
  <2> QED
    BY <2>1 DEF Init, Silence, SilentBackoff, InHandshake
<1>2. IInv /\ IInv' /\ Silence /\ [Next]_vars => Silence'
  <2> SUFFICES ASSUME IInv, IInv', Silence, [Next]_vars, ~heard' PROVE SilentBackoff'
    BY DEF Silence
  <2>1. ~heard
    BY DEF Next, Main, Tick, SetupFails, SetupDone, ConnectDone, ConnectError, ConnectSilent,
           ConnectHeard, Timers, Write, ReadEnds, ReadWaits, ReadAgain, Cleanup, vars, hist
  <2> QED
    BY <2>1, TimersSilence, OtherSilence DEF Silence
<1> QED
  BY <1>1, <1>2, Invariance, PTL DEF Spec

\* The deadline leaves room for the whole back-off of a client that hears
\* nothing, for all constants that satisfy RoomAssumption: with those of the
\* code, as long as no pass of the handshake loop takes more than 11 seconds.
THEOREM SilenceCorrect == Spec => []SilenceRetries
<1>1. Silence => SilenceRetries
  BY DEF Silence, SilentBackoff, SilenceRetries, Backoff
<1> QED
  BY <1>1, SilenceInvariance, PTL
=============================================================================
