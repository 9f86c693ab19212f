------------------------------ MODULE Flights ------------------------------
(***************************************************************************)
(* wolfSSL's DTLS 1.3 handshake as the two ends of this system run it: the *)
(* retransmission buffer, the ACKs and the two time-outs of                *)
(* src/boot/src/dtls13.c, the record-layer checks of internal.c, and the   *)
(* loops of wolfSSL_connect and wolfSSL_accept that drive them.  No client *)
(* certificate and no session ticket are sent, so the messages are         *)
(*                                                                         *)
(*    client: 0 ClientHello, 1 ClientHello with cookie, 2 Finished         *)
(*    server: 0 HelloRetryRequest, 1 ServerHello, ..., Last Finished       *)
(*                                                                         *)
(* and message m of an end may be cut into fragments, one per record.      *)
(* The network delivers in order but for a bounded number of faults.       *)
(***************************************************************************)
EXTENDS Naturals, Sequences, FiniteSets

CONSTANTS
    Last,        \* message number of the server's Finished
    Split,       \* messages of the server that do not fit one record ...
    Parts,       \* ... and the fragments each is cut into
    DTLS13_RETRANS_RN_SIZE, \* record numbers remembered per buffered record
    MaxUpsets,   \* bound: two for a record that is lost, duplicated, overtaken or
                 \* not kept, one for a time-out while records are in flight
    MaxLead,     \* bound: time-outs of one end in silence before the other has one
    MaxSent      \* bound: protected records the client sends

\* Of up to four fragments none can lie between two others and touch neither, the
\* case DtlsMsgSet merges as if there were no gap, and there are never the ten
\* pieces it refuses; up to 20 messages are never too many for the list.
ASSUME FlightsAssumption ==
    /\ Last \in 2 .. 20 /\ Parts \in 1 .. 4 /\ Split \subseteq 2 .. Last
    /\ DTLS13_RETRANS_RN_SIZE \in Nat \ {0}
    /\ MaxUpsets \in Nat /\ MaxLead \in Nat /\ MaxSent \in Nat

VARIABLES
    net,      \* end -> records travelling to it, oldest first
    rtx,      \* end -> dtls13Rtx.rtxRecords
    next,     \* end -> epoch -> nextSeqNumber
    win,      \* end -> record numbers its receive windows hold as read
    seen,     \* end -> dtls13Rtx.seenRecords, the numbers to acknowledge
    expected, \* end -> dtls_expected_peer_handshake_number
    have,     \* end -> fragments in dtls_rx_msg_list
    fast,     \* end -> dtls13FastTimeout
    dropped,  \* end -> fragments DtlsMsgStore could not keep (history)
    unified,  \* the client's seenUnifiedHdr
    acked,    \* the client's serverState is SERVER_FINISHED_ACKED
    recent,   \* the server retransmitted less than DTLS13_MIN_RTX_INTERVAL ago
    upsets,   \* what MaxUpsets bounds
    lead      \* end -> its time-outs in silence since its peer's last one

received == <<win, seen, expected, have, dropped, fast, unified, acked>>
vars == <<net, rtx, next, received, recent, upsets, lead>>

End == {"client", "server"}
Peer(e) == IF e = "client" THEN "server" ELSE "client"
Epoch == {0, 2, 3}  \* plaintext, handshake, application traffic

\* Into how many records message m to e is cut.
Fragments(e, m) == IF e = "client" /\ m \in Split THEN Parts ELSE 1

\* A handshake record without its number, and an ACK.
Hs(ep, m, f) == [kind |-> "hs", ep |-> ep, seq |-> 0, m |-> m, f |-> f, nums |-> {}]
Ack(ep, nums) == [kind |-> "ack", ep |-> ep, seq |-> 0, m |-> 0, f |-> 0, nums |-> nums]

\* Records of the server's flight before message m, and the flight.
Before(m) == m - 1 + (Parts - 1) * Cardinality(Split \cap 1 .. m - 1)

ServerFlight ==
    [p \in 1 .. Before(Last + 1) |->
        LET m == CHOOSE k \in 1 .. Last : Before(k) < p /\ p <= Before(k + 1)
        IN  Hs(IF m = 1 THEN 0 ELSE 2, m, p - Before(m))]

-----------------------------------------------------------------------------
(* How far an end is *)

\* dtlsStateful, and serverState >= SERVER_HELLO_COMPLETE
Stateful == expected["server"] >= 2
HelloComplete(e) == expected[e] >= 2

\* handShakeDone
HandShakeDone(e) == expected[e] > (IF e = "client" THEN Last ELSE 2)

\* dtls13Epoch: the server sends its whole flight in one go.
CurEpoch(e) == CASE ~HelloComplete(e) -> 0
                 [] e = "client" /\ ~HandShakeDone(e) -> 2
                 [] OTHER -> 3

\* SendDtls13Ack: until the handshake is done the server acknowledges with the
\* handshake keys.
AckEpoch(e) == IF e = "server" /\ Stateful /\ ~HandShakeDone(e) THEN 2 ELSE CurEpoch(e)

-----------------------------------------------------------------------------
(* Sending *)

\* The records of out with their numbers, and the counters after them.
InEpoch(out, n, ep) == Cardinality({i \in 1 .. n : out[i].ep = ep})

Numbered(nx, out) ==
    [i \in DOMAIN out |->
        [out[i] EXCEPT !.seq = nx[out[i].ep] + InEpoch(out, i - 1, out[i].ep)]]

After(nx, out) == [ep \in Epoch |-> nx[ep] + InEpoch(out, Len(out), ep)]

\* Dtls13RtxNewRecord
Buffered(r) == [m |-> r.m, f |-> r.f, ep |-> r.ep, sns |-> <<r.seq>>]

\* Mutant: the array of numbers is written past its end.
TrackAll(sns, s) == Append(sns, s)

\* The numbers a buffered record is known by: once the array is full it is
\* started again and the earlier ones are forgotten.
Track(sns, s) == IF Len(sns) >= DTLS13_RETRANS_RN_SIZE THEN <<s>> ELSE Append(sns, s)

\* Dtls13HandshakeSend of a new flight, nx being the counters it starts from:
\* the records join the buffer, the numbers to acknowledge are dropped.
SendFlight(e, n, nx, buf, out) ==
    LET sent == Numbered(nx, out)
    IN  /\ net' = [n EXCEPT ![Peer(e)] = @ \o sent]
        /\ next' = [next EXCEPT ![e] = After(nx, out)]
        /\ rtx' = [rtx EXCEPT ![e] = buf \o [i \in DOMAIN sent |-> Buffered(sent[i])]]
        /\ seen' = [seen EXCEPT ![e] = {}]

\* What Dtls13DoScheduledWork and Dtls13RtxTimeout do: the ACK, if there is one,
\* then Dtls13RtxSendBuffered.  The server's build limits the rate of the latter
\* (the firmware's has no clock for it, NO_ASN_TIME).
SendWork(e, n, buf, ack, retransmit) ==
    LET again == retransmit /\ ~(e = "server" /\ recent)
        out == ack \o (IF again THEN [i \in DOMAIN buf |-> Hs(buf[i].ep, buf[i].m, buf[i].f)]
                       ELSE <<>>)
        sent == Numbered(next[e], out)
    IN  /\ net' = [n EXCEPT ![Peer(e)] = @ \o sent]
        /\ next' = [next EXCEPT ![e] = After(@, out)]
        /\ rtx' = [rtx EXCEPT ![e] =
              IF again
              THEN [i \in DOMAIN buf |->
                       [buf[i] EXCEPT !.sns = Track(@, sent[Len(ack) + i].seq)]]
              ELSE buf]
        /\ recent' = (recent \/ (e = "server" /\ again))

-----------------------------------------------------------------------------
(* Receiving: one record per datagram *)

\* Mutant: messages that are not next are acknowledged and dropped.
StoreNext(e, r) ==
    {[got |-> have[e] \cup {<<m, r.f>> : m \in {r.m} \cap {expected[e]}}, lost |-> {}]}

\* A message that is whole and next is processed from the record itself.
Listed(e, r) == r.m > expected[e] \/ Fragments(e, r.m) > 1

\* DtlsMsgStore: what dtls_rx_msg_list holds afterwards.  If there is no memory
\* "the data is just dropped" and the caller does not hear of it.  Adding the other
\* records as well makes no difference to what follows.
DtlsMsgStore(e, r) ==
    {[got |-> have[e] \cup {<<r.m, r.f>>}, lost |-> {}]}
    \cup {st \in {[got |-> have[e], lost |-> {<<r.m, r.f>>}]} :
              Listed(e, r) /\ upsets + 2 <= MaxUpsets}

\* Dtls13ProcessBufferedMessages: the first message that is still incomplete.
FirstIncomplete(e, got) ==
    CHOOSE k \in expected[e] .. Last + 1 :
        /\ \E f \in 1 .. Fragments(e, k) : <<k, f>> \notin got
        /\ \A j \in expected[e] .. k - 1 : \A f \in 1 .. Fragments(e, j) : <<j, f>> \in got

Num(r) == <<r.ep, r.seq>>
Rest(e) == [net EXCEPT ![e] = Tail(@)]

\* A record e cannot decrypt: it has no keys yet.
Undecryptable(e, r) == r.ep > 0 /\ CurEpoch(e) = 0

\* DtlsShouldDrop and Dtls13CheckWindow; before a cookie was accepted the server
\* looks at ClientHellos only and has no window.
Refused(e, r) ==
    IF e = "server" /\ ~Stateful THEN r.kind = "ack"
    ELSE \/ r.kind = "hs" /\ r.ep = 0 /\ CurEpoch(e) # 0
         \/ Num(r) \in win[e]

\* The head of the queue reaches e and passes those checks.
Accepts(e) ==
    /\ net[e] # <<>>
    /\ ~Undecryptable(e, Head(net[e])) /\ ~Refused(e, Head(net[e]))

Discard(e) ==
    /\ net[e] # <<>>
    /\ ~Undecryptable(e, Head(net[e])) /\ Refused(e, Head(net[e]))
    /\ net' = Rest(e)
    /\ UNCHANGED <<rtx, next, received, recent, upsets, lead>>

\* GetDtlsRecordHeader at the client before the ServerHello: an ACK, empty
\* unless a HelloRetryRequest came twice, makes the server retransmit.
UnifiedBeforeHello ==
    LET e == "client" IN
    /\ net[e] # <<>> /\ Undecryptable(e, Head(net[e]))
    /\ unified' = TRUE
    /\ SendWork(e, Rest(e), rtx[e], <<Ack(0, seen[e])>>, FALSE)
    /\ seen' = [seen EXCEPT ![e] = {}]
    /\ UNCHANGED <<win, expected, have, dropped, fast, acked, upsets, lead>>

\* DoClientHelloStateless: answered under the ClientHello's own record number,
\* and forgotten.  HelloRetryRequest is not buffered.
HelloRetryRequest ==
    /\ Accepts("server") /\ ~Stateful /\ Head(net["server"]).m = 0
    /\ net' = [Rest("server") EXCEPT !["client"] =
                  Append(@, [Hs(0, 0, 1) EXCEPT !.seq = Head(net["server"]).seq])]
    /\ UNCHANGED <<rtx, next, received, recent, upsets, lead>>

\* The cookie is good: the session becomes stateful, every plaintext number up
\* to this one counts as read, and the flight goes out.
CookieGood ==
    LET r == Head(net["server"]) IN
    /\ Accepts("server") /\ ~Stateful /\ r.m = 1
    /\ win' = [win EXCEPT !["server"] = {<<0, i>> : i \in 0 .. r.seq}]
    /\ fast' = [fast EXCEPT !["server"] = TRUE]
    /\ expected' = [expected EXCEPT !["server"] = 2]
    /\ SendFlight("server", Rest("server"), [next["server"] EXCEPT ![0] = r.seq], <<>>,
                  ServerFlight)
    /\ UNCHANGED <<have, dropped, unified, acked, recent, upsets, lead>>

\* Dtls13UpdateWindowRecordRecvd, before the message is looked at.
RecordRecvd(e, r) ==
    /\ win' = [win EXCEPT ![e] = @ \cup {Num(r)}]
    /\ fast' = [fast EXCEPT ![e] = @ \/ r.kind = "hs"]

RecvHandshake(e) == Accepts(e) /\ Head(net[e]).kind = "hs" /\ (e = "server" => Stateful)

\* A message e has processed already: its sender missed our ACK or our flight.
Retransmission(e) ==
    LET r == Head(net[e]) IN
    /\ RecvHandshake(e) /\ r.m < expected[e]
    /\ RecordRecvd(e, r)
    /\ SendWork(e, Rest(e), rtx[e], <<Ack(CurEpoch(e), seen[e] \cup {Num(r)})>>, TRUE)
    /\ seen' = [seen EXCEPT ![e] = {}]
    /\ UNCHANGED <<expected, have, dropped, unified, acked, upsets, lead>>

\* Any other message.  Part of the peer's next flight acknowledges ours; what is
\* complete and in order is processed, the rest stored; the client answers the
\* HelloRetryRequest and the server's Finished, the server acknowledges Finished.
Handle(e, st) ==
    LET r == Head(net[e])
        to == FirstIncomplete(e, st.got)
        implicit == ~HandShakeDone(e) /\ (HelloComplete(e) \/ (e = "client" /\ unified))
        buf == IF implicit THEN <<>> ELSE rtx[e]
        nums == seen[e] \cup {Num(r)}
    IN  /\ r.m >= expected[e]
        /\ RecordRecvd(e, r)
        /\ expected' = [expected EXCEPT ![e] = to]
        /\ have' = [have EXCEPT ![e] = {x \in st.got : x[1] >= to}]
        /\ dropped' = [dropped EXCEPT ![e] = @ \cup st.lost]
        /\ upsets' = upsets + 2 * Cardinality(st.lost)
        /\ IF to > expected[e] /\ e = "server"
           THEN /\ SendWork(e, Rest(e), buf, <<Ack(3, nums)>>, FALSE)
                /\ seen' = [seen EXCEPT ![e] = {}]
           ELSE IF to > expected[e] /\ to \in {1, Last + 1}
           THEN /\ SendFlight(e, Rest(e), next[e], buf,
                              IF to = 1 THEN <<Hs(0, 1, 1)>> ELSE <<Hs(2, 2, 1)>>)
                /\ UNCHANGED recent
           ELSE /\ seen' = [seen EXCEPT ![e] = nums]
                /\ SendWork(e, Rest(e), buf, <<>>, FALSE)
        /\ UNCHANGED <<unified, acked, lead>>

Message(e) == RecvHandshake(e) /\ \E st \in DtlsMsgStore(e, Head(net[e])) : Handle(e, st)

\* Dtls13RtxIsTrackedByRn
TrackedBy(b, nums) == \E s \in {b.sns[i] : i \in DOMAIN b.sns} : <<b.ep, s>> \in nums

\* The elements of s whose positions are in P, in their order.
Pick(s, P) ==
    [k \in 1 .. Cardinality(P) |->
        s[CHOOSE i \in P : Cardinality({j \in P : j <= i}) = k]]

\* DoDtls13Ack: what is acknowledged leaves the buffer, what is left is sent
\* again; the client is done when nothing of its last flight is left.
DoDtls13Ack(e) ==
    LET r == Head(net[e])
        unacked == {i \in DOMAIN rtx[e] : ~TrackedBy(rtx[e][i], r.nums)}
    IN  /\ Accepts(e) /\ r.kind = "ack" /\ (e = "server" => Stateful)
        /\ RecordRecvd(e, r)
        /\ \E left \in {Pick(rtx[e], unacked)} :
              /\ acked' = (acked \/ (e = "client" /\ HandShakeDone(e) /\ left = <<>>))
              /\ SendWork(e, Rest(e), left, <<>>, left # <<>>)
        /\ UNCHANGED <<seen, expected, have, dropped, unified, upsets, lead>>

-----------------------------------------------------------------------------
(* Time *)

\* EmbedReceiveFrom waits for ever once the handshake is done and there is
\* nothing left to send; main stops the client's timer when it has connected.
TimerRuns(e) ==
    IF e = "client" THEN ~acked
    ELSE ~HandShakeDone(e) \/ rtx[e] # <<>> \/ (fast[e] /\ seen[e] # {})

\* Mutant: it stays short, so that the next time-out retransmits nothing either.
FastKept(e) == fast

\* The time-out after a fast one is a long one.
FastOver(e) == [fast EXCEPT ![e] = FALSE]

\* Dtls13RtxTimeout.  A fast time-out with nothing to acknowledge is over
\* without a retransmission.  The two ends share no clock: a timer may fire while
\* records wait to be read, and in silence again and again before the other's.
\* An end whose time-out cannot be doubled any more, or whose deadline has passed,
\* gives up, that is, takes no further step; Client and Server model when.
Dtls13RtxTimeout(e) ==
    LET ackIt == seen[e] # {} /\ (HelloComplete(e) \/ (e = "client" /\ unified))
        long == ackIt \/ ~fast[e]
        early == \E d \in End : net[d] # <<>>
        alone == ~early /\ TimerRuns(Peer(e))
    IN  /\ TimerRuns(e)
        /\ e = "server" /\ ~fast[e] => ~recent  \* it is at least a second long
        /\ early => upsets < MaxUpsets
        /\ alone => lead[e] < MaxLead
        /\ upsets' = IF early THEN upsets + 1 ELSE upsets
        /\ lead' = IF early THEN lead
                   ELSE [d \in End |-> IF d = e /\ alone THEN lead[d] + 1 ELSE 0]
        /\ fast' = FastOver(e)
        /\ seen' = [seen EXCEPT ![e] = IF ackIt THEN {} ELSE @]
        /\ SendWork(e, net, rtx[e], IF ackIt THEN <<Ack(AckEpoch(e), seen[e])>> ELSE <<>>, long)
        /\ UNCHANGED <<win, expected, have, dropped, unified, acked>>

\* DTLS13_MIN_RTX_INTERVAL has passed.
SecondPasses ==
    /\ recent /\ recent' = FALSE
    /\ UNCHANGED <<net, rtx, next, received, upsets, lead>>

-----------------------------------------------------------------------------
(* The network (external) *)

Fault(e, q) ==
    /\ upsets + 2 <= MaxUpsets /\ upsets' = upsets + 2
    /\ net' = [net EXCEPT ![e] = q]
    /\ UNCHANGED <<rtx, next, received, recent, lead>>

\* ClientHellos do not overtake one another: _Dtls13HandshakeRecv says "we assume
\* the ClientHello is in order", and answers under its record number.
Lose(e) == net[e] # <<>> /\ Fault(e, Tail(net[e]))
Duplicate(e) == net[e] # <<>> /\ Fault(e, <<Head(net[e])>> \o net[e])
Overtake(e) ==
    /\ Len(net[e]) >= 2 /\ (e = "server" => net[e][1].ep > 0)
    /\ Fault(e, <<net[e][2], net[e][1]>> \o SubSeq(net[e], 3, Len(net[e])))

-----------------------------------------------------------------------------

\* The client has sent its first ClientHello.
Init ==
    /\ net = [e \in End |-> IF e = "server" THEN <<Hs(0, 0, 1)>> ELSE <<>>]
    /\ rtx = [e \in End |-> IF e = "client" THEN <<Buffered(Hs(0, 0, 1))>> ELSE <<>>]
    /\ next = [e \in End |-> [ep \in Epoch |-> IF e = "client" /\ ep = 0 THEN 1 ELSE 0]]
    /\ win = [e \in End |-> {}] /\ seen = [e \in End |-> {}]
    /\ expected = [e \in End |-> IF e = "client" THEN 0 ELSE 1]
    /\ have = [e \in End |-> {}] /\ dropped = [e \in End |-> {}]
    /\ fast = [e \in End |-> FALSE]
    /\ unified = FALSE /\ acked = FALSE /\ recent = FALSE
    /\ upsets = 0 /\ lead = [e \in End |-> 0]

\* The client has sent far more records than its one Finished and the time-outs
\* account for; the model stops here.
Storm == next["client"][2] >= MaxSent

Receive(e) ==
    \/ Discard(e) \/ Retransmission(e) \/ Message(e) \/ DoDtls13Ack(e)
    \/ e = "client" /\ UnifiedBeforeHello
    \/ e = "server" /\ (HelloRetryRequest \/ CookieGood)

\* What the two ends do, and what the network does to them.
Step == (\E e \in End : Receive(e) \/ Dtls13RtxTimeout(e)) \/ SecondPasses
Network == \E e \in End : Lose(e) \/ Duplicate(e) \/ Overtake(e)

Next == ~Storm /\ (Step \/ Network)

Spec == Init /\ [][Next]_vars

\* The ends do not both stop: a record that can be read is read or a timer fires,
\* and a second does pass.
Fairness == WF_vars(~Storm /\ Step)

FairSpec == Spec /\ Fairness

-----------------------------------------------------------------------------
(* Properties *)

Number == Epoch \X Nat

\* Types, and the bound of the array of record numbers of a buffered record.
TypeOK ==
    /\ \A e \in End : \A i \in DOMAIN net[e] :
          /\ net[e][i].ep \in Epoch /\ net[e][i].seq \in Nat
          /\ net[e][i].nums \subseteq Number
    /\ \A e \in End : \A i \in DOMAIN rtx[e] : Len(rtx[e][i].sns) \in 1 .. DTLS13_RETRANS_RN_SIZE
    /\ next \in [End -> [Epoch -> Nat]]
    /\ expected["client"] \in 0 .. Last + 1 /\ expected["server"] \in 1 .. 3
    /\ fast \in [End -> BOOLEAN] /\ unified \in BOOLEAN /\ acked \in BOOLEAN
    /\ recent \in BOOLEAN
    /\ upsets \in 0 .. MaxUpsets /\ lead \in [End -> 0 .. MaxLead]

\* The fragments of e's buffered flights that it has sent at least once.
SentBy(e) ==
    IF e = "client" THEN {<<1, 1>> : k \in {1} \cap (0 .. expected[e])}
                         \cup {<<2, 1>> : k \in {Last + 1} \cap {expected[e]}}
    ELSE IF Stateful THEN {<<r.m, r.f>> : r \in {ServerFlight[i] : i \in DOMAIN ServerFlight}}
    ELSE {}

\* e has fragment x, or had no memory for it.
Settled(e, x) == expected[e] > x[1] \/ x \in have[e] \/ x \in dropped[e]

\* Whatever has left the retransmission buffer will never be sent again, so the
\* other end has it: an acknowledgement, explicit (Dtls13RecordRecvd notes the
\* number before the message is looked at) or implied by the next flight
\* (Dtls13RtxMsgRecvd), covers no fragment that is still missing.  The exceptions
\* are those the code accepts: a fragment DtlsMsgStore had no memory for, and
\* ClientHellos that overtake one another, which Overtake leaves out.
AckedIsKept ==
    \A e \in End : \A x \in SentBy(e) :
        \/ \E i \in DOMAIN rtx[e] : <<rtx[e][i].m, rtx[e][i].f>> = x
        \/ Settled(Peer(e), x)

\* Whatever is lost, duplicated or overtaken and whenever the timers fire, if the
\* ends keep on then wolfSSL_connect and wolfSSL_accept both complete and the
\* answers to retransmissions die out.  The exceptions are the storm of run
\* flights_storm and a fragment DtlsMsgStore dropped: its record is acknowledged
\* all the same, so it never comes again.
Completes ==
    <>[](\/ acked /\ HandShakeDone("server") /\ \A e \in End : net[e] = <<>>
         \/ Storm \/ \E e \in End : dropped[e] # {})

\* DoDtls13Ack: "last client flight was completely acknowledged by the server.
\* Handshake is complete."  An ACK that names a record of the client's Finished
\* ends the handshake.
AckCompletes ==
    [][DoDtls13Ack("client") /\ HandShakeDone("client") /\ Head(net["client"]).nums # {}
          => acked']_vars
=============================================================================
