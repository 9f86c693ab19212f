--------------------------- MODULE FlightsProofs ---------------------------
(***************************************************************************)
(* What has left a retransmission buffer has arrived, unless there was no  *)
(* memory for it: for every flight, fragmentation, bound on faults and on  *)
(* sending, and size of the array of record numbers that Flights admits.   *)
(***************************************************************************)
EXTENDS Flights, FiniteSetTheorems, WellFoundedInduction, TLAPS

-----------------------------------------------------------------------------
(* The inductive invariant *)

Record == [kind : {"hs", "ack"}, ep : Epoch, seq : Nat, m : Nat, f : Nat, nums : SUBSET Number]
Buffer == [m : Nat, f : Nat, ep : Epoch, sns : Seq(Nat)]

Types ==
    /\ net \in [End -> Seq(Record)] /\ rtx \in [End -> Seq(Buffer)]
    /\ next \in [End -> [Epoch -> Nat]] /\ seen \in [End -> SUBSET Number]
    /\ expected \in [End -> Nat] /\ have \in [End -> SUBSET (Nat \X Nat)]
    /\ dropped \in [End -> SUBSET (Nat \X Nat)]
    /\ expected["client"] <= Last + 1 /\ expected["server"] \in 1 .. 3

Flags ==
    /\ fast \in [End -> BOOLEAN] /\ unified \in BOOLEAN /\ acked \in BOOLEAN
    /\ recent \in BOOLEAN
    /\ upsets \in 0 .. MaxUpsets /\ lead \in [End -> 0 .. MaxLead]

Elems(s) == {s[i] : i \in DOMAIN s}

\* The records travelling to e, the records e may have to send again, and the
\* numbers one of these is known by.
Recs(e) == Elems(net[e])
Bufs(e) == Elems(rtx[e])
Nums(b) == {<<b.ep, b.sns[i]>> : i \in DOMAIN b.sns}

\* The numbers of its peer that e will acknowledge, or whose ACK is on its way,
\* and those that e may still come to know.
Claimed(e) == seen[e] \cup UNION {r.nums : r \in Recs(Peer(e))}
Named(e) == Claimed(e) \cup {Num(r) : r \in Recs(e)}

\* The array of numbers is never empty and never overrun.
Tracked == \A e \in End : \A b \in Bufs(e) : Len(b.sns) \in 1 .. DTLS13_RETRANS_RN_SIZE

\* e may send message m in epoch ep: the client sends its second ClientHello after
\* the HelloRetryRequest, and its Finished, the first it encrypts, after the
\* server's.
Proper(e, m, ep) ==
    IF e = "client" THEN /\ m <= 2 /\ (ep = 0 <=> m < 2)
                         /\ m = 1 => expected["client"] >= 1
                         /\ m = 2 => expected["client"] = Last + 1
    ELSE m <= Last

\* Nothing else travels, is buffered or is stored.
LastFrom(e) == IF e = "client" THEN 2 ELSE Last

Messages ==
    /\ \A e \in End : \A r \in Recs(Peer(e)) : r.kind = "hs" => Proper(e, r.m, r.ep)
    /\ \A e \in End : \A b \in Bufs(e) : Proper(e, b.m, b.ep)
    /\ \A e \in End : \A x \in have[e] : x[1] <= LastFrom(Peer(e))
    /\ Stateful => expected["client"] >= 1

\* Before it has accepted a cookie the server has answered with
\* HelloRetryRequests alone, each under a number smaller than that of any second
\* ClientHello.
Stateless ==
    ~Stateful =>
        /\ rtx["server"] = <<>> /\ have["client"] = {} /\ ~unified /\ expected["client"] <= 1
        /\ \A r \in Recs("client") : r.kind = "hs" /\ r.m = 0 /\ r.f = 1
        /\ \A n \in Named("client") :
              /\ n[1] = 0 /\ n[2] < next["client"][0]
              /\ \A r \in Recs("server") : r.kind = "hs" /\ r.m = 1 => n[2] < r.seq

\* The ClientHellos arrive in the order of their numbers.
Ordered ==
    \A i, j \in DOMAIN net["server"] :
        i < j /\ net["server"][i].ep = 0 /\ net["server"][j].ep = 0 =>
            \/ net["server"][i].seq < net["server"][j].seq
            \/ net["server"][i] = net["server"][j]

\* What an end has sent, and what its peer knows of, is below its counters.
Used ==
    /\ \A e \in End : \A b \in Bufs(e) : \A n \in Nums(b) : n[2] < next[e][n[1]]
    /\ \A e \in End : e = "server" \/ Stateful =>
          \A n \in Named(e) : n[2] < next[Peer(e)][n[1]]

\* A number stands for one fragment ...
Agree ==
    \A e \in End : \A b \in Bufs(e) : \A r \in Recs(Peer(e)) :
        r.kind = "hs" /\ Num(r) \in Nums(b) => r.m = b.m /\ r.f = b.f

\* ... and an end that has claimed it has the fragment.
ClaimedIsKept ==
    \A e \in End : \A b \in Bufs(e) :
        Claimed(Peer(e)) \cap Nums(b) # {} => Settled(Peer(e), <<b.m, b.f>>)

Data ==
    /\ Types /\ Tracked /\ Messages /\ Stateless /\ Ordered
    /\ Used /\ Agree /\ ClaimedIsKept /\ AckedIsKept

IInv == Flags /\ Data

-----------------------------------------------------------------------------
(* Sets of numbers *)

\* A set of naturals that is not empty has a least element.
LEMMA Least ==
    ASSUME NEW T, T \subseteq Nat, T # {}
    PROVE  \E x \in T : \A y \in T : x <= y
<1> DEFINE R == OpToRel(<, Nat)
<1>1. IsWellFoundedOn(R, Nat)
  BY NatLessThanWellFounded
<1>2. PICK x \in T : \A y \in T : ~ (<<y, x>> \in R)
  <2> HIDE DEF R
  <2> QED
    BY <1>1, WFMin
<1>3. \A y \in T : ~(y < x)
  <2> TAKE y \in T
  <2>1. y \in Nat /\ x \in Nat
    OBVIOUS
  <2>2. y < x => <<y, x>> \in R
    BY <2>1 DEF OpToRel
  <2> QED
    BY <1>2, <2>2
<1>4. \A y \in T : y \in Nat /\ x \in Nat
  OBVIOUS
<1> QED
  BY <1>3, <1>4

\* The size of a part of an interval, and of a part that lacks something of
\* another.
LEMMA Parted ==
    ASSUME NEW n \in Nat, NEW M, M \subseteq 1 .. n
    PROVE  /\ IsFiniteSet(M) /\ Cardinality(M) \in Nat
           /\ \A L \in SUBSET M : /\ Cardinality(L) \in Nat /\ Cardinality(L) <= Cardinality(M)
                                  /\ L # M => Cardinality(L) < Cardinality(M)
<1>1. IsFiniteSet(1 .. n)
  BY FS_Interval
<1>2. IsFiniteSet(M)
  BY <1>1, FS_Subset
<1>3. Cardinality(M) \in Nat
  BY <1>2, FS_CardinalityType
<1>4. ASSUME NEW L \in SUBSET M
      PROVE  /\ Cardinality(L) \in Nat /\ Cardinality(L) <= Cardinality(M)
             /\ L # M => Cardinality(L) < Cardinality(M)
  <2>1. /\ IsFiniteSet(L) /\ Cardinality(L) <= Cardinality(M)
        /\ Cardinality(M) = Cardinality(L) => M = L
    BY <1>2, FS_Subset
  <2>2. Cardinality(L) \in Nat
    BY <2>1, FS_CardinalityType
  <2> QED
    BY <1>3, <2>1, <2>2
<1> QED
  BY <1>2, <1>3, <1>4

\* The place of i among the positions in P.
Place(P, i) == Cardinality({j \in P : j <= i})

\* The places are those of a sequence, each taken once.
LEMMA Places ==
    ASSUME NEW n \in Nat, NEW P, P \subseteq 1 .. n
    PROVE  /\ Cardinality(P) \in Nat
           /\ \A i \in P : Place(P, i) \in 1 .. Cardinality(P)
           /\ \A i, j \in P : Place(P, i) = Place(P, j) => i = j
           /\ \A k \in 1 .. Cardinality(P) : \E i \in P : Place(P, i) = k
<1>1. Cardinality(P) \in Nat
  BY Parted
<1>2. \A i \in P : Place(P, i) \in 1 .. Cardinality(P)
  <2> TAKE i \in P
  <2> DEFINE L == {j \in P : j <= i}
  <2>1. L \in SUBSET P /\ i \in L /\ L \subseteq 1 .. n
    <3>1. i \in Nat /\ i <= i
      OBVIOUS
    <3>2. i \in L
      BY <3>1
    <3>3. L \subseteq P
      OBVIOUS
    <3> HIDE DEF L
    <3> QED
      BY <3>2, <3>3
  <2>2. Cardinality(L) \in Nat /\ Cardinality(L) <= Cardinality(P) /\ IsFiniteSet(L)
    <3> HIDE DEF L
    <3> QED
      BY <2>1, Parted
  <2>3. Cardinality(L) # 0
    BY <2>1, <2>2, FS_EmptySet
  <2> QED
    BY <1>1, <2>2, <2>3 DEF Place
<1>3. \A i, j \in P : i < j => Place(P, i) < Place(P, j)
  <2> TAKE i, j \in P
  <2> HAVE i < j
  <2> DEFINE L == {k \in P : k <= i}
             M == {k \in P : k <= j}
  <2>1. L \in SUBSET M /\ j \in M /\ j \notin L /\ M \subseteq 1 .. n
    <3>1. i \in Nat /\ j \in Nat /\ j <= j /\ ~(j <= i)
      OBVIOUS
    <3>2. \A k \in P : k \in Nat /\ (k <= i => k <= j)
      BY <3>1
    <3>3. L \subseteq M
      BY <3>2
    <3>4. j \in M /\ j \notin L
      BY <3>1
    <3>5. M \subseteq P
      OBVIOUS
    <3> HIDE DEF L, M
    <3> QED
      BY <3>3, <3>4, <3>5
  <2>2. Cardinality(L) < Cardinality(M)
    <3> HIDE DEF L, M
    <3> QED
      BY <2>1, Parted
  <2> QED
    BY <2>2 DEF Place
<1>4. \A i, j \in P : Place(P, i) = Place(P, j) => i = j
  <2> TAKE i, j \in P
  <2>1. i \in Int /\ j \in Int /\ Place(P, i) \in Int /\ Place(P, j) \in Int
    BY <1>2
  <2> QED
    BY <1>3, <2>1
<1>5. \A k \in 1 .. Cardinality(P) : \E i \in P : Place(P, i) = k
  <2> DEFINE f == [i \in P |-> Place(P, i)]
             T == 1 .. Cardinality(P)
  <2>1. f \in Injection(P, T)
    <3>1. f \in [P -> T] /\ \A i, j \in P : f[i] = f[j] => i = j
      BY <1>2, <1>4
    <3> HIDE DEF f, T
    <3> QED
      BY <3>1 DEF Injection, IsInjective
  <2>2. IsFiniteSet(T) /\ Cardinality(T) = Cardinality(P)
    BY <1>1, FS_Interval
  <2>3. f \in Surjection(P, T)
    <3> HIDE DEF f, T
    <3> QED
      BY <2>1, <2>2, FS_Injection
  <2> QED
    BY <2>3 DEF Surjection
<1> QED
  BY <1>1, <1>2, <1>4, <1>5

\* The elements of t are those of s at the positions in P.
Selects(s, P, t) ==
    /\ t \in Seq(Buffer)
    /\ \A k \in DOMAIN t : \E i \in P : t[k] = s[i]
    /\ \A i \in P : \E k \in DOMAIN t : t[k] = s[i]

\* That is what Pick is for.
LEMMA Picked ==
    ASSUME NEW s \in Seq(Buffer), NEW P, P \subseteq DOMAIN s
    PROVE  Selects(s, P, Pick(s, P))
<1>1. P \subseteq 1 .. Len(s) /\ Len(s) \in Nat
  OBVIOUS
<1>2. Pick(s, P) = [k \in 1 .. Cardinality(P) |-> s[CHOOSE i \in P : Place(P, i) = k]]
  BY DEF Pick, Place
<1>3. \A k \in 1 .. Cardinality(P) :
         /\ (CHOOSE i \in P : Place(P, i) = k) \in P
         /\ Place(P, CHOOSE i \in P : Place(P, i) = k) = k
  BY <1>1, Places
<1>4. \A k \in 1 .. Cardinality(P) : \E i \in P : Pick(s, P)[k] = s[i]
  BY <1>2, <1>3
<1>5. \A i \in P : \E k \in 1 .. Cardinality(P) : Pick(s, P)[k] = s[i]
  <2> TAKE i \in P
  <2>1. Place(P, i) \in 1 .. Cardinality(P)
    BY <1>1, Places
  <2>2. (CHOOSE j \in P : Place(P, j) = Place(P, i)) = i
    BY <1>1, <1>3, <2>1, Places
  <2> QED
    BY <1>2, <2>1, <2>2
<1>6. Pick(s, P) \in Seq(Buffer) /\ DOMAIN Pick(s, P) = 1 .. Cardinality(P)
  <2>1. Cardinality(P) \in Nat
    BY <1>1, Places
  <2>2. \A k \in 1 .. Cardinality(P) : s[CHOOSE i \in P : Place(P, i) = k] \in Buffer
    BY <1>3
  <2>3. Pick(s, P) \in [1 .. Cardinality(P) -> Buffer]
    BY <1>2, <2>2
  <2> QED
    BY <2>1, <2>3
<1> QED
  BY <1>4, <1>5, <1>6 DEF Selects
-----------------------------------------------------------------------------
(* Operators of the model *)

\* The two ends.
LEMMA Ends ==
    /\ End = {"client", "server"} /\ Peer("client") = "server" /\ Peer("server") = "client"
    /\ \A e \in End : Peer(e) \in End /\ Peer(e) # e /\ Peer(Peer(e)) = e
    /\ \A e, d \in End : d # e => d = Peer(e)
BY DEF End, Peer

\* Dtls13ProcessBufferedMessages stops at the first message that is incomplete;
\* there is one, as nothing is stored of a message after the last.
LEMMA Processed ==
    ASSUME NEW e \in End, NEW got, Types, \A x \in got : x[1] <= Last
    PROVE  /\ FirstIncomplete(e, got) \in expected[e] .. Last + 1
           /\ \A k \in expected[e] .. Last + 1 :
                 (\A f \in Nat : <<k, f>> \notin got) => FirstIncomplete(e, got) <= k
           /\ \E f \in 1 .. Fragments(e, FirstIncomplete(e, got)) :
                 <<FirstIncomplete(e, got), f>> \notin got
<1> DEFINE Gap(k) == \E f \in 1 .. Fragments(e, k) : <<k, f>> \notin got
           T == {k \in expected[e] .. Last + 1 : Gap(k)}
           P(k) == Gap(k) /\ \A j \in expected[e] .. k - 1 : ~Gap(j)
<1>1. expected[e] \in Nat /\ expected[e] <= Last + 1 /\ Last \in Nat
  BY FlightsAssumption, Ends DEF Types
<1>2. \A k : 1 \in 1 .. Fragments(e, k)
  BY FlightsAssumption DEF Fragments
<1>3. T \subseteq Nat /\ Last + 1 \in T
  <2>1. <<Last + 1, 1>> \notin got
    BY <1>1
  <2>2. Gap(Last + 1)
    BY <1>2, <2>1
  <2> QED
    BY <1>1, <2>2
<1>4. PICK x \in T : \A y \in T : x <= y
  <2> HIDE DEF T
  <2> QED
    BY <1>3, Least
<1>5. x \in expected[e] .. Last + 1 /\ P(x)
  <2>1. x \in expected[e] .. Last + 1 /\ Gap(x)
    BY <1>4
  <2>2. \A j \in expected[e] .. x - 1 : ~Gap(j)
    <3> TAKE j \in expected[e] .. x - 1
    <3>1. j \in expected[e] .. Last + 1 /\ ~(x <= j)
      BY <1>1, <2>1
    <3>2. Gap(j) => j \in T
      BY <3>1
    <3> HIDE DEF T, Gap
    <3> QED
      BY <1>4, <3>1, <3>2
  <2> QED
    BY <2>1, <2>2
<1>6. FirstIncomplete(e, got) = CHOOSE k \in expected[e] .. Last + 1 : P(k)
  <2>1. \A k : P(k) <=> /\ Gap(k)
                        /\ \A j \in expected[e] .. k - 1 :
                              \A f \in 1 .. Fragments(e, j) : <<j, f>> \in got
    OBVIOUS
  <2> QED
    BY <2>1 DEF FirstIncomplete
<1> DEFINE to == FirstIncomplete(e, got)
<1>7. to \in expected[e] .. Last + 1 /\ P(to)
  <2> HIDE DEF P
  <2> QED
    BY <1>5, <1>6
<1>8. ASSUME NEW k \in expected[e] .. Last + 1, \A f \in Nat : <<k, f>> \notin got
      PROVE  to <= k
  <2>1. Gap(k)
    BY <1>2, <1>8
  <2>2. ~(k \in expected[e] .. to - 1)
    BY <1>7, <2>1
  <2> HIDE DEF to
  <2> QED
    BY <1>1, <1>7, <2>2
<1> QED
  BY <1>7, <1>8

\* The numbers of a flight: they start at the counters, increase in each epoch,
\* and end below the counters after it.
LEMMA Numbering ==
    ASSUME NEW nx \in [Epoch -> Nat], NEW out \in Seq(Record)
    PROVE  /\ Numbered(nx, out) \in Seq(Record) /\ DOMAIN Numbered(nx, out) = DOMAIN out
           /\ After(nx, out) \in [Epoch -> Nat]
           /\ \A ep \in Epoch : nx[ep] <= After(nx, out)[ep]
           /\ \A i \in DOMAIN out :
                 /\ Numbered(nx, out)[i] = [out[i] EXCEPT !.seq = Numbered(nx, out)[i].seq]
                 /\ nx[out[i].ep] <= Numbered(nx, out)[i].seq
                 /\ Numbered(nx, out)[i].seq < After(nx, out)[out[i].ep]
           /\ \A i, j \in DOMAIN out : i < j /\ out[i].ep = out[j].ep =>
                 Numbered(nx, out)[i].seq < Numbered(nx, out)[j].seq
<1> DEFINE C(n, ep) == InEpoch(out, n, ep)
           sent == Numbered(nx, out)
<1>1. \A n \in 0 .. Len(out), ep \in Epoch : C(n, ep) \in Nat
  <2> TAKE n \in 0 .. Len(out), ep \in Epoch
  <2> DEFINE M == {i \in 1 .. n : out[i].ep = ep}
  <2>1. n \in Nat /\ M \subseteq 1 .. n
    OBVIOUS
  <2>2. Cardinality(M) \in Nat
    <3> HIDE DEF M
    <3> QED
      BY <2>1, Parted
  <2> QED
    BY <2>2 DEF InEpoch
<1>2. ASSUME NEW i \in DOMAIN out, NEW n \in i .. Len(out)
      PROVE  C(i - 1, out[i].ep) < C(n, out[i].ep)
  <2> DEFINE L == {k \in 1 .. i - 1 : out[k].ep = out[i].ep}
             M == {k \in 1 .. n : out[k].ep = out[i].ep}
  <2>1. n \in Nat /\ M \subseteq 1 .. n
    OBVIOUS
  <2>2. L \subseteq M /\ i \in M /\ i \notin L
    OBVIOUS
  <2>3. Cardinality(L) < Cardinality(M)
    <3> HIDE DEF L, M
    <3> QED
      BY <2>1, <2>2, Parted
  <2> QED
    BY <2>3 DEF InEpoch
<1>3. \A i \in DOMAIN out : out[i] \in Record /\ out[i].ep \in Epoch /\ i - 1 \in 0 .. Len(out)
  <2> TAKE i \in DOMAIN out
  <2>1. out[i] \in Record /\ i - 1 \in 0 .. Len(out)
    OBVIOUS
  <2> QED
    BY <2>1 DEF Record
<1>4. \A i \in DOMAIN out : nx[out[i].ep] + C(i - 1, out[i].ep) \in Nat
  <2> HIDE DEF C
  <2> QED
    BY <1>1, <1>3
<1>5. DOMAIN sent = DOMAIN out /\
      \A i \in DOMAIN out :
         /\ sent[i] = [out[i] EXCEPT !.seq = nx[out[i].ep] + C(i - 1, out[i].ep)]
         /\ sent[i].seq = nx[out[i].ep] + C(i - 1, out[i].ep)
         /\ sent[i] \in Record
  <2>1. \A i \in DOMAIN out :
           sent[i] = [out[i] EXCEPT !.seq = nx[out[i].ep] + C(i - 1, out[i].ep)]
    BY DEF Numbered
  <2>2. DOMAIN sent = DOMAIN out
    BY DEF Numbered
  <2> HIDE DEF C, sent
  <2>3. ASSUME NEW i \in DOMAIN out
        PROVE  /\ sent[i].seq = nx[out[i].ep] + C(i - 1, out[i].ep)
               /\ sent[i] \in Record
    <3>1. out[i] \in Record /\ nx[out[i].ep] + C(i - 1, out[i].ep) \in Nat
      BY <1>3, <1>4
    <3> QED
      BY <2>1, <3>1 DEF Record
  <2> QED
    BY <2>1, <2>2, <2>3
<1>6. sent \in Seq(Record)
  <2>1. sent = [i \in 1 .. Len(out) |-> sent[i]]
    BY DEF Numbered
  <2>2. \A i \in 1 .. Len(out) : sent[i] \in Record
    BY <1>5
  <2> HIDE DEF sent
  <2> QED
    BY <2>1, <2>2
<1>7. \A ep \in Epoch : After(nx, out)[ep] = nx[ep] + C(Len(out), ep)
  BY DEF After
<1>8. After(nx, out) \in [Epoch -> Nat] /\ \A ep \in Epoch : nx[ep] <= After(nx, out)[ep]
  <2>1. \A ep \in Epoch : nx[ep] + C(Len(out), ep) \in Nat /\ nx[ep] <= nx[ep] + C(Len(out), ep)
    <3> HIDE DEF C
    <3> QED
      BY <1>1
  <2> QED
    BY <2>1 DEF After
<1> HIDE DEF C, sent
<1>9. \A i \in DOMAIN out : /\ nx[out[i].ep] <= sent[i].seq
                            /\ sent[i].seq < After(nx, out)[out[i].ep]
  <2> TAKE i \in DOMAIN out
  <2>1. /\ C(i - 1, out[i].ep) \in Nat /\ C(Len(out), out[i].ep) \in Nat
        /\ nx[out[i].ep] \in Nat
    BY <1>1, <1>3
  <2>2. C(i - 1, out[i].ep) < C(Len(out), out[i].ep)
    BY <1>2
  <2> QED
    BY <1>3, <1>5, <1>7, <2>1, <2>2
<1>10. \A i, j \in DOMAIN out : i < j /\ out[i].ep = out[j].ep => sent[i].seq < sent[j].seq
  <2> TAKE i, j \in DOMAIN out
  <2> HAVE i < j /\ out[i].ep = out[j].ep
  <2>1. /\ C(i - 1, out[i].ep) \in Nat /\ C(j - 1, out[i].ep) \in Nat
        /\ nx[out[i].ep] \in Nat
    BY <1>1, <1>3
  <2>2. C(i - 1, out[i].ep) < C(j - 1, out[i].ep)
    BY <1>2
  <2> QED
    BY <1>3, <1>5, <2>1, <2>2
<1>11. \A i \in DOMAIN out : sent[i] = [out[i] EXCEPT !.seq = sent[i].seq]
  BY <1>5
<1> QED
  BY <1>5, <1>6, <1>8, <1>9, <1>10, <1>11 DEF sent

\* Every record of the server's flight is a fragment of one of its messages.
LEMMA FlightShape ==
    /\ ServerFlight \in Seq(Record)
    /\ \A i \in DOMAIN ServerFlight :
          /\ ServerFlight[i].kind = "hs" /\ ServerFlight[i].nums = {}
          /\ ServerFlight[i].m \in 1 .. Last
<1> USE FlightsAssumption
<1>1. \A m \in 1 .. Last + 1 : Before(m) \in Nat
  <2> TAKE m \in 1 .. Last + 1
  <2>1. m - 1 \in Nat /\ Split \cap 1 .. m - 1 \subseteq 1 .. m - 1
    OBVIOUS
  <2>2. Cardinality(Split \cap 1 .. m - 1) \in Nat
    BY <2>1, Parted
  <2>3. (Parts - 1) * Cardinality(Split \cap 1 .. m - 1) \in Nat
    BY <2>2
  <2> QED
    BY <2>1, <2>3 DEF Before
<1>2. Before(1) = 0
  <2>1. Split \cap 1 .. 1 - 1 = {}
    OBVIOUS
  <2> QED
    BY <2>1, FS_EmptySet DEF Before
<1> DEFINE Of(p, k) == Before(k) < p /\ p <= Before(k + 1)
           Msg(p) == CHOOSE k \in 1 .. Last : Of(p, k)
<1>3. ASSUME NEW p \in 1 .. Before(Last + 1)
      PROVE  Msg(p) \in 1 .. Last /\ Before(Msg(p)) < p
  <2> DEFINE T == {k \in 1 .. Last : p <= Before(k + 1)}
  <2>1. T \subseteq Nat /\ Last \in T
    BY <1>1
  <2>2. PICK x \in T : \A y \in T : x <= y
    <3> HIDE DEF T
    <3> QED
      BY <2>1, Least
  <2>3. x \in 1 .. Last /\ p <= Before(x + 1)
    BY <2>2
  <2>4. Before(x) < p
    <3>1. CASE x = 1
      BY <1>2, <3>1
    <3>2. CASE x # 1
      <4>1. x - 1 \in 1 .. Last /\ x - 1 + 1 = x /\ ~(x <= x - 1)
        BY <2>3, <3>2
      <4>2. x - 1 \notin T
        BY <2>2, <4>1
      <4>3. ~(p <= Before(x))
        BY <4>1, <4>2
      <4>4. Before(x) \in Nat /\ p \in Nat
        BY <1>1, <2>3
      <4> QED
        BY <4>3, <4>4
    <3> QED
      BY <3>1, <3>2
  <2>5. Of(p, x)
    BY <2>3, <2>4
  <2>6. Msg(p) \in 1 .. Last /\ Of(p, Msg(p))
    <3> HIDE DEF Of
    <3> QED
      BY <2>3, <2>5
  <2> QED
    BY <2>6
<1>4. /\ DOMAIN ServerFlight = 1 .. Before(Last + 1)
      /\ \A p \in 1 .. Before(Last + 1) :
            ServerFlight[p] = Hs(IF Msg(p) = 1 THEN 0 ELSE 2, Msg(p), p - Before(Msg(p)))
  BY DEF ServerFlight
<1> HIDE DEF Msg
<1>5. ASSUME NEW p \in 1 .. Before(Last + 1)
      PROVE  /\ ServerFlight[p] \in Record /\ ServerFlight[p].kind = "hs"
             /\ ServerFlight[p].nums = {} /\ ServerFlight[p].m \in 1 .. Last
  <2>1. Msg(p) \in 1 .. Last /\ Before(Msg(p)) < p
    BY <1>3
  <2>2. Before(Msg(p)) \in Nat /\ p \in Nat
    BY <1>1, <2>1
  <2>3. p - Before(Msg(p)) \in Nat /\ Msg(p) \in Nat
    BY <2>1, <2>2
  <2>4. ServerFlight[p] = Hs(IF Msg(p) = 1 THEN 0 ELSE 2, Msg(p), p - Before(Msg(p)))
    BY <1>4
  <2> QED
    BY <2>1, <2>3, <2>4 DEF Hs, Record, Epoch
<1>6. ServerFlight \in Seq(Record)
  <2>1. Before(Last + 1) \in Nat
    BY <1>1
  <2>2. ServerFlight = [p \in 1 .. Before(Last + 1) |-> ServerFlight[p]]
    BY <1>4 DEF ServerFlight
  <2>3. \A p \in 1 .. Before(Last + 1) : ServerFlight[p] \in Record
    BY <1>5
  <2> QED
    BY <2>1, <2>2, <2>3
<1> QED
  BY <1>4, <1>5, <1>6
-----------------------------------------------------------------------------
(* Sending *)

\* The elements of a sequence, by their positions.
LEMMA ElemsOf ==
    /\ \A s : \A r \in Elems(s) : \E i \in DOMAIN s : r = s[i]
    /\ \A s : \A i \in DOMAIN s : s[i] \in Elems(s)
    /\ Elems(<<>>) = {}
<1>1. DOMAIN <<>> = {}
  OBVIOUS
<1> QED
  BY <1>1 DEF Elems

\* What is in a queue whose head is taken.
LEMMA TailElems ==
    ASSUME NEW S, NEW s \in Seq(S), s # <<>>
    PROVE  /\ Tail(s) \in Seq(S) /\ Elems(Tail(s)) \subseteq Elems(s)
           /\ Head(s) \in S /\ Head(s) \in Elems(s) /\ Head(s) = s[1] /\ 1 \in DOMAIN s
<1>1. Len(s) \in Nat \ {0} /\ DOMAIN s = 1 .. Len(s)
  OBVIOUS
<1>2. \A i \in DOMAIN Tail(s) : i + 1 \in DOMAIN s /\ Tail(s)[i] = s[i + 1]
  BY <1>1
<1>3. 1 \in DOMAIN s /\ Head(s) = s[1]
  BY <1>1
<1> QED
  BY <1>2, <1>3 DEF Elems

\* What is in a queue that something is added to.
LEMMA CatElems ==
    ASSUME NEW S, NEW s \in Seq(S), NEW t \in Seq(S)
    PROVE  /\ s \o t \in Seq(S) /\ Elems(s \o t) = Elems(s) \cup Elems(t)
           /\ Elems(s) \subseteq S /\ Elems(t) \subseteq S
<1>1. /\ DOMAIN s = 1 .. Len(s) /\ DOMAIN t = 1 .. Len(t) /\ Len(s) \in Nat /\ Len(t) \in Nat
      /\ DOMAIN (s \o t) = 1 .. Len(s) + Len(t)
  OBVIOUS
<1>2. \A i \in 1 .. Len(s) + Len(t) :
         (s \o t)[i] = IF i <= Len(s) THEN s[i] ELSE t[i - Len(s)]
  OBVIOUS
<1>3. Elems(s \o t) \subseteq Elems(s) \cup Elems(t)
  <2> SUFFICES ASSUME NEW i \in 1 .. Len(s) + Len(t)
               PROVE  (s \o t)[i] \in Elems(s) \cup Elems(t)
    BY <1>1 DEF Elems
  <2>1. CASE i <= Len(s)
    BY <1>1, <1>2, <2>1 DEF Elems
  <2>2. CASE ~(i <= Len(s))
    <3>1. i - Len(s) \in DOMAIN t
      BY <1>1, <2>2
    <3> QED
      BY <1>2, <2>2, <3>1 DEF Elems
  <2> QED
    BY <2>1, <2>2
<1>4. Elems(s) \subseteq Elems(s \o t)
  BY <1>1, <1>2 DEF Elems
<1>5. Elems(t) \subseteq Elems(s \o t)
  <2> SUFFICES ASSUME NEW i \in DOMAIN t PROVE t[i] \in Elems(s \o t)
    BY DEF Elems
  <2>1. Len(s) + i \in 1 .. Len(s) + Len(t) /\ (s \o t)[Len(s) + i] = t[i]
    BY <1>1, <1>2
  <2> QED
    BY <1>1, <2>1 DEF Elems
<1>6. Elems(s) \subseteq S /\ Elems(t) \subseteq S
  BY DEF Elems
<1>7. s \o t \in Seq(S)
  OBVIOUS
<1> QED
  BY <1>3, <1>4, <1>5, <1>6, <1>7

\* e sends the records of sent, numbered from nx on, and changes its buffer: a
\* buffered record keeps its fragment, and a number it gains is that of a record
\* of sent with this fragment.
Sends(e, nx, sent) ==
    /\ sent \in Seq(Record) /\ net' \in [End -> Seq(Record)]
    /\ net'[Peer(e)] = net[Peer(e)] \o sent
    /\ next' \in [End -> [Epoch -> Nat]] /\ next'[Peer(e)] = next[Peer(e)]
    /\ \A ep \in Epoch : nx[ep] <= next'[e][ep]
    /\ \A i \in DOMAIN sent : nx[sent[i].ep] <= sent[i].seq /\ sent[i].seq < next'[e][sent[i].ep]
    /\ \A i, j \in DOMAIN sent : i < j /\ sent[i].ep = sent[j].ep => sent[i].seq < sent[j].seq
    /\ rtx' \in [End -> Seq(Buffer)] /\ rtx'[Peer(e)] = rtx[Peer(e)]
    /\ \A c \in Elems(rtx'[e]) :
          /\ Len(c.sns) \in 1 .. DTLS13_RETRANS_RN_SIZE
          /\ \A x \in Nums(c) :
                \/ \E b \in Bufs(e) : x \in Nums(b) /\ b.m = c.m /\ b.f = c.f
                \/ \E r \in Elems(sent) : /\ x = Num(r) /\ r.kind = "hs"
                                          /\ r.m = c.m /\ r.f = c.f

\* The records of out are sent, numbered.
LEMMA NumberedSent ==
    ASSUME NEW nx \in [Epoch -> Nat], NEW out \in Seq(Record), NEW i \in DOMAIN out
    PROVE  /\ Numbered(nx, out)[i].kind = out[i].kind /\ Numbered(nx, out)[i].ep = out[i].ep
           /\ Numbered(nx, out)[i].m = out[i].m /\ Numbered(nx, out)[i].f = out[i].f
           /\ Numbered(nx, out)[i].nums = out[i].nums /\ Numbered(nx, out)[i].seq \in Nat
           /\ out[i] \in Record /\ Numbered(nx, out)[i] \in Record
<1>1. /\ Numbered(nx, out)[i] = [out[i] EXCEPT !.seq = Numbered(nx, out)[i].seq]
      /\ Numbered(nx, out) \in Seq(Record) /\ i \in DOMAIN Numbered(nx, out)
  BY Numbering
<1>2. out[i] \in Record /\ Numbered(nx, out)[i] \in Record
  BY <1>1
<1> QED
  BY <1>1, <1>2 DEF Record

\* A buffered record that is sent once more is known by one more number, or by
\* that number alone.
LEMMA TrackNums ==
    ASSUME NEW b \in Buffer, NEW s \in Nat, Len(b.sns) \in 1 .. DTLS13_RETRANS_RN_SIZE,
           NEW c, c = [b EXCEPT !.sns = Track(@, s)]
    PROVE  /\ c \in Buffer /\ c.m = b.m /\ c.f = b.f /\ c.ep = b.ep
           /\ Len(c.sns) \in 1 .. DTLS13_RETRANS_RN_SIZE
           /\ Nums(c) \subseteq Nums(b) \cup {<<b.ep, s>>}
<1> USE FlightsAssumption
<1>1. b.sns \in Seq(Nat)
  BY DEF Buffer
<1>2. c.m = b.m /\ c.f = b.f /\ c.ep = b.ep /\ c.sns = Track(b.sns, s)
  BY DEF Buffer
<1>3. /\ Track(b.sns, s) \in Seq(Nat) /\ Len(Track(b.sns, s)) \in 1 .. DTLS13_RETRANS_RN_SIZE
      /\ \A i \in DOMAIN Track(b.sns, s) :
            \/ Track(b.sns, s)[i] = s
            \/ i \in DOMAIN b.sns /\ Track(b.sns, s)[i] = b.sns[i]
  <2>1. CASE Len(b.sns) >= DTLS13_RETRANS_RN_SIZE
    <3>1. Track(b.sns, s) = <<s>>
      BY <2>1 DEF Track
    <3>2. <<s>> \in Seq(Nat) /\ Len(<<s>>) = 1 /\ \A i \in DOMAIN <<s>> : <<s>>[i] = s
      OBVIOUS
    <3> QED
      BY <3>1, <3>2
  <2>2. CASE ~(Len(b.sns) >= DTLS13_RETRANS_RN_SIZE)
    <3>0. Len(b.sns) \in Nat
      OBVIOUS
    <3>1. Track(b.sns, s) = Append(b.sns, s) /\ Len(b.sns) \in Nat
      BY <2>2, <3>0 DEF Track
    <3>2. Len(Append(b.sns, s)) = Len(b.sns) + 1 /\ Append(b.sns, s) \in Seq(Nat)
      BY <1>1
    <3>3. \A i \in DOMAIN Append(b.sns, s) :
             \/ Append(b.sns, s)[i] = s
             \/ i \in DOMAIN b.sns /\ Append(b.sns, s)[i] = b.sns[i]
      <4> DEFINE sns == b.sns
      <4>1. sns \in Seq(Nat)
        BY <1>1
      <4> HIDE DEF sns
      <4>2. \A i \in 1 .. Len(sns) + 1 : i # Len(sns) + 1 => i \in 1 .. Len(sns)
        BY <4>1
      <4>3. \A i \in DOMAIN Append(sns, s) :
               \/ Append(sns, s)[i] = s
               \/ i \in DOMAIN sns /\ Append(sns, s)[i] = sns[i]
        BY <4>1, <4>2
      <4> QED
        BY <4>3 DEF sns
    <3>4. Len(Append(b.sns, s)) \in 1 .. DTLS13_RETRANS_RN_SIZE
      BY <2>2, <3>1, <3>2
    <3> QED
      BY <3>1, <3>2, <3>3, <3>4
  <2> QED
    BY <2>1, <2>2
<1>4. c \in Buffer
  BY <1>2, <1>3 DEF Buffer
<1>5. Nums(c) \subseteq Nums(b) \cup {<<b.ep, s>>}
  BY <1>2, <1>3 DEF Nums
<1> QED
  BY <1>2, <1>3, <1>4, <1>5

\* Dtls13DoScheduledWork and Dtls13RtxTimeout, with a retransmission or without,
Works(e, n, buf, ack) == \E retransmit \in BOOLEAN : SendWork(e, n, buf, ack, retransmit)

\* and what they send: the ACK, if there is one, and records of the buffer.
WorkSent(e, buf, ack) ==
    \E sent :
        /\ Sends(e, next[e], sent)
        /\ \A r \in Elems(sent) :
              \/ r.kind = "ack" /\ \E a \in Elems(ack) : r.nums = a.nums
              \/ /\ r.kind = "hs" /\ r.nums = {}
                 /\ \E b \in Elems(buf) : r.m = b.m /\ r.f = b.f /\ r.ep = b.ep

\* Dtls13RtxSendBuffered after an ACK: what is sent is that ACK and the buffer,
\* whose records all stay in it.
LEMMA SendWorkEffect ==
    ASSUME Types, Tracked, NEW e \in End, NEW n \in [End -> Seq(Record)],
           n[Peer(e)] = net[Peer(e)],
           NEW buf \in Seq(Buffer), Elems(buf) \subseteq Bufs(e),
           NEW ack \in Seq(Record), \A i \in DOMAIN ack : ack[i].kind = "ack",
           Works(e, n, buf, ack)
    PROVE  /\ net'[e] = n[e]
           /\ WorkSent(e, buf, ack)
           /\ \A b \in Elems(buf) : \E c \in Elems(rtx'[e]) : c.m = b.m /\ c.f = b.f
           /\ buf = <<>> => rtx'[e] = <<>>
<1>0. PICK retransmit \in BOOLEAN : SendWork(e, n, buf, ack, retransmit)
  BY DEF Works
<1> DEFINE p == Peer(e)
           again == retransmit /\ ~(e = "server" /\ recent)
           re == IF again THEN [i \in DOMAIN buf |-> Hs(buf[i].ep, buf[i].m, buf[i].f)]
                 ELSE <<>>
           out == ack \o re
           sent == Numbered(next[e], out)
           new == IF again
                  THEN [i \in DOMAIN buf |->
                           [buf[i] EXCEPT !.sns = Track(@, sent[Len(ack) + i].seq)]]
                  ELSE buf
<1>1. p \in End /\ p # e /\ Peer(p) = e
  BY Ends
<1>2. /\ net' = [n EXCEPT ![p] = @ \o sent]
      /\ next' = [next EXCEPT ![e] = After(@, out)]
      /\ rtx' = [rtx EXCEPT ![e] = new]
  BY <1>0 DEF SendWork
<1>3. \A i \in DOMAIN buf : buf[i] \in Buffer /\ buf[i] \in Elems(buf)
  BY DEF Elems
<1>4. \A i \in DOMAIN buf : Len(buf[i].sns) \in 1 .. DTLS13_RETRANS_RN_SIZE
  BY <1>3 DEF Tracked
<1>5. re \in Seq(Record) /\ (again => DOMAIN re = DOMAIN buf)
  <2>1. \A i \in DOMAIN buf : Hs(buf[i].ep, buf[i].m, buf[i].f) \in Record
    BY <1>3 DEF Buffer, Record, Hs, Epoch
  <2>2. CASE again
    <3>1. re = [i \in 1 .. Len(buf) |-> Hs(buf[i].ep, buf[i].m, buf[i].f)]
      BY <2>2
    <3> HIDE DEF re
    <3> QED
      BY <2>1, <3>1
  <2>3. CASE ~again
    <3>1. re = <<>>
      BY <2>3
    <3> HIDE DEF re, again
    <3> QED
      BY <2>3, <3>1
  <2> QED
    BY <2>2, <2>3
<1>6. out \in Seq(Record) /\ Elems(out) = Elems(ack) \cup Elems(re)
  <2> HIDE DEF re
  <2> QED
    BY <1>5, CatElems
<1>7. next[e] \in [Epoch -> Nat]
  BY DEF Types
<1>8. \A r \in Elems(re) : /\ r.kind = "hs" /\ r.nums = {}
                           /\ \E b \in Elems(buf) : r.m = b.m /\ r.f = b.f /\ r.ep = b.ep
  <2>1. CASE again
    <3>1. \A i \in DOMAIN buf :
             /\ Hs(buf[i].ep, buf[i].m, buf[i].f).kind = "hs"
             /\ Hs(buf[i].ep, buf[i].m, buf[i].f).nums = {}
             /\ Hs(buf[i].ep, buf[i].m, buf[i].f).m = buf[i].m
             /\ Hs(buf[i].ep, buf[i].m, buf[i].f).f = buf[i].f
             /\ Hs(buf[i].ep, buf[i].m, buf[i].f).ep = buf[i].ep
      BY DEF Hs
    <3>2. DOMAIN re = DOMAIN buf /\
          \A i \in DOMAIN buf : re[i] = Hs(buf[i].ep, buf[i].m, buf[i].f)
      BY <2>1
    <3> HIDE DEF re
    <3> TAKE r \in Elems(re)
    <3>3. PICK i \in DOMAIN buf : r = Hs(buf[i].ep, buf[i].m, buf[i].f)
      BY <3>2, ElemsOf
    <3> QED
      BY <1>3, <3>1, <3>3
  <2>2. CASE ~again
    <3>1. re = <<>>
      BY <2>2
    <3>2. Elems(re) = {}
      BY <3>1, ElemsOf
    <3> QED
      BY <3>2
  <2> QED
    BY <2>1, <2>2
<1>9. \A r \in Elems(sent) : \E q \in Elems(out) :
         /\ r.kind = q.kind /\ r.nums = q.nums /\ r.m = q.m /\ r.f = q.f /\ r.ep = q.ep
  <2>1. DOMAIN sent = DOMAIN out
    <3> HIDE DEF out
    <3> QED
      BY <1>6, <1>7, Numbering
  <2>2. \A i \in DOMAIN out :
           /\ sent[i].kind = out[i].kind /\ sent[i].nums = out[i].nums /\ sent[i].m = out[i].m
           /\ sent[i].f = out[i].f /\ sent[i].ep = out[i].ep
    <3> HIDE DEF out
    <3> QED
      BY <1>6, <1>7, NumberedSent
  <2> HIDE DEF sent, out
  <2> TAKE r \in Elems(sent)
  <2>3. PICK i \in DOMAIN out : r = sent[i]
    BY <2>1, ElemsOf
  <2>4. out[i] \in Elems(out)
    BY ElemsOf
  <2> QED
    BY <2>2, <2>3, <2>4
<1>10. \A r \in Elems(sent) :
          \/ r.kind = "ack" /\ \E a \in Elems(ack) : r.nums = a.nums
          \/ /\ r.kind = "hs" /\ r.nums = {}
             /\ \E b \in Elems(buf) : r.m = b.m /\ r.f = b.f /\ r.ep = b.ep
  <2>1. \A a \in Elems(ack) : a.kind = "ack"
    BY DEF Elems
  <2> HIDE DEF sent, out, re
  <2> TAKE r \in Elems(sent)
  <2>2. PICK q \in Elems(out) :
           /\ r.kind = q.kind /\ r.nums = q.nums /\ r.m = q.m /\ r.f = q.f /\ r.ep = q.ep
    BY <1>9
  <2>3. CASE q \in Elems(ack)
    BY <2>1, <2>2, <2>3
  <2>4. CASE q \in Elems(re)
    BY <1>8, <2>2, <2>4
  <2> QED
    BY <1>6, <2>3, <2>4
<1>11. /\ DOMAIN new = DOMAIN buf /\ new \in Seq(Buffer)
       /\ \A i \in DOMAIN buf :
             /\ new[i].m = buf[i].m /\ new[i].f = buf[i].f
             /\ Len(new[i].sns) \in 1 .. DTLS13_RETRANS_RN_SIZE
             /\ \A x \in Nums(new[i]) :
                   \/ x \in Nums(buf[i])
                   \/ \E r \in Elems(sent) : /\ x = Num(r) /\ r.kind = "hs"
                                             /\ r.m = buf[i].m /\ r.f = buf[i].f
  <2>1. CASE ~again
    <3>1. new = buf
      BY <2>1
    <3> HIDE DEF new
    <3> QED
      BY <1>4, <3>1
  <2>2. CASE again
    <3>1. ASSUME NEW i \in DOMAIN buf
          PROVE  /\ Len(ack) + i \in DOMAIN sent
                 /\ sent[Len(ack) + i].seq \in Nat /\ sent[Len(ack) + i].kind = "hs"
                 /\ sent[Len(ack) + i].m = buf[i].m /\ sent[Len(ack) + i].f = buf[i].f
                 /\ sent[Len(ack) + i].ep = buf[i].ep
      <4>1. re[i] = Hs(buf[i].ep, buf[i].m, buf[i].f) /\ i \in DOMAIN re
        BY <2>2
      <4>2. re[i].kind = "hs" /\ re[i].m = buf[i].m /\ re[i].f = buf[i].f /\ re[i].ep = buf[i].ep
        BY <4>1 DEF Hs
      <4>3. Len(ack) + i \in DOMAIN out /\ out[Len(ack) + i] = re[i]
        <5> HIDE DEF re
        <5> QED
          BY <1>5, <4>1
      <4>4. DOMAIN sent = DOMAIN out
        <5> HIDE DEF out
        <5> QED
          BY <1>6, <1>7, Numbering
      <4>5. LET k == Len(ack) + i
            IN  /\ sent[k].kind = out[k].kind /\ sent[k].m = out[k].m /\ sent[k].f = out[k].f
                /\ sent[k].ep = out[k].ep /\ sent[k].seq \in Nat
        <5> HIDE DEF out
        <5> QED
          BY <1>6, <1>7, <4>3, NumberedSent
      <4> HIDE DEF sent, out, re
      <4> QED
        BY <4>2, <4>3, <4>4, <4>5
    <3>2. DOMAIN new = DOMAIN buf /\
          \A i \in DOMAIN buf :
             new[i] = [buf[i] EXCEPT !.sns = Track(@, sent[Len(ack) + i].seq)]
      BY <2>2
    <3>3. new = [i \in 1 .. Len(buf) |-> new[i]] /\ Len(buf) \in Nat /\ DOMAIN buf = 1 .. Len(buf)
      BY <2>2
    <3> HIDE DEF new, sent
    <3>4. \A i \in DOMAIN buf :
             /\ new[i] \in Buffer /\ new[i].m = buf[i].m /\ new[i].f = buf[i].f
             /\ Len(new[i].sns) \in 1 .. DTLS13_RETRANS_RN_SIZE
             /\ Nums(new[i]) \subseteq Nums(buf[i]) \cup {<<buf[i].ep, sent[Len(ack) + i].seq>>}
      BY <1>3, <1>4, <3>1, <3>2, TrackNums
    <3>5. new \in Seq(Buffer)
      BY <3>3, <3>4
    <3>6. \A i \in DOMAIN buf :
             /\ sent[Len(ack) + i] \in Elems(sent)
             /\ Num(sent[Len(ack) + i]) = <<buf[i].ep, sent[Len(ack) + i].seq>>
      BY <3>1 DEF Elems, Num
    <3>7. ASSUME NEW i \in DOMAIN buf, NEW x \in Nums(new[i]), x \notin Nums(buf[i])
          PROVE  \E r \in Elems(sent) : /\ x = Num(r) /\ r.kind = "hs"
                                        /\ r.m = buf[i].m /\ r.f = buf[i].f
      <4>1. x = Num(sent[Len(ack) + i]) /\ sent[Len(ack) + i] \in Elems(sent)
        BY <3>4, <3>6, <3>7
      <4> QED
        BY <3>1, <4>1
    <3> QED
      BY <3>2, <3>4, <3>5, <3>7
  <2> QED
    BY <2>1, <2>2
<1> HIDE DEF new, sent, out, re
<1>12. /\ net' \in [End -> Seq(Record)] /\ net'[p] = net[p] \o sent /\ net'[e] = n[e]
       /\ sent \in Seq(Record)
  <2>1. sent \in Seq(Record)
    BY <1>6, <1>7, Numbering DEF sent
  <2>2. n[p] \in Seq(Record) /\ n[p] \o sent \in Seq(Record)
    BY <1>1, <2>1
  <2> HIDE DEF p
  <2> QED
    BY <1>1, <1>2, <2>1, <2>2 DEF p
<1>13. /\ next' \in [End -> [Epoch -> Nat]] /\ next'[p] = next[p]
       /\ next'[e] = After(next[e], out)
  <2>1. After(next[e], out) \in [Epoch -> Nat]
    BY <1>6, <1>7, Numbering
  <2> QED
    BY <1>1, <1>2, <2>1 DEF Types
<1>14. rtx' \in [End -> Seq(Buffer)] /\ rtx'[p] = rtx[p] /\ rtx'[e] = new
  BY <1>1, <1>2, <1>11 DEF Types
<1>15. /\ \A ep \in Epoch : next[e][ep] <= next'[e][ep]
       /\ \A i \in DOMAIN sent : /\ next[e][sent[i].ep] <= sent[i].seq
                                 /\ sent[i].seq < next'[e][sent[i].ep]
       /\ \A i, j \in DOMAIN sent : i < j /\ sent[i].ep = sent[j].ep =>
             sent[i].seq < sent[j].seq
  <2>1. DOMAIN sent = DOMAIN out /\ \A i \in DOMAIN out : sent[i].ep = out[i].ep
    BY <1>6, <1>7, Numbering, NumberedSent DEF sent
  <2>2. /\ \A ep \in Epoch : next[e][ep] <= After(next[e], out)[ep]
        /\ \A i \in DOMAIN out : /\ next[e][out[i].ep] <= sent[i].seq
                                 /\ sent[i].seq < After(next[e], out)[out[i].ep]
        /\ \A i, j \in DOMAIN out : i < j /\ out[i].ep = out[j].ep =>
              sent[i].seq < sent[j].seq
    BY <1>6, <1>7, Numbering DEF sent
  <2> QED
    BY <1>13, <2>1, <2>2
<1>16. \A c \in Elems(rtx'[e]) :
          /\ Len(c.sns) \in 1 .. DTLS13_RETRANS_RN_SIZE
          /\ \A x \in Nums(c) :
                \/ \E b \in Bufs(e) : x \in Nums(b) /\ b.m = c.m /\ b.f = c.f
                \/ \E r \in Elems(sent) : /\ x = Num(r) /\ r.kind = "hs"
                                          /\ r.m = c.m /\ r.f = c.f
  <2> TAKE c \in Elems(rtx'[e])
  <2>1. PICK i \in DOMAIN new : c = new[i]
    BY <1>14, ElemsOf
  <2>2. i \in DOMAIN buf /\ buf[i] \in Bufs(e)
    BY <1>3, <1>11
  <2>3. /\ c.m = buf[i].m /\ c.f = buf[i].f /\ Len(c.sns) \in 1 .. DTLS13_RETRANS_RN_SIZE
        /\ \A x \in Nums(c) :
              \/ x \in Nums(buf[i])
              \/ \E r \in Elems(sent) : /\ x = Num(r) /\ r.kind = "hs"
                                        /\ r.m = buf[i].m /\ r.f = buf[i].f
    BY <1>11, <2>1, <2>2
  <2>4. ASSUME NEW x \in Nums(c)
        PROVE  \/ \E b \in Bufs(e) : x \in Nums(b) /\ b.m = c.m /\ b.f = c.f
               \/ \E r \in Elems(sent) : /\ x = Num(r) /\ r.kind = "hs"
                                         /\ r.m = c.m /\ r.f = c.f
    <3>1. CASE x \in Nums(buf[i])
      BY <2>2, <2>3, <3>1
    <3>2. CASE x \notin Nums(buf[i])
      BY <2>3, <3>2
    <3> QED
      BY <3>1, <3>2
  <2> QED
    BY <2>3, <2>4
<1>17. Sends(e, next[e], sent)
  BY <1>12, <1>13, <1>14, <1>15, <1>16 DEF Sends, p
<1>18. \A b \in Elems(buf) : \E c \in Elems(rtx'[e]) : c.m = b.m /\ c.f = b.f
  BY <1>11, <1>14 DEF Elems
<1>19. buf = <<>> => rtx'[e] = <<>>
  BY <1>11, <1>14
<1> QED
  BY <1>10, <1>12, <1>17, <1>18, <1>19 DEF WorkSent

\* A record that joins the buffer is known by its number.
LEMMA BufferedNums ==
    ASSUME NEW r \in Record
    PROVE  /\ Buffered(r) \in Buffer /\ Buffered(r).m = r.m /\ Buffered(r).f = r.f
           /\ Len(Buffered(r).sns) \in 1 .. DTLS13_RETRANS_RN_SIZE
           /\ Nums(Buffered(r)) = {Num(r)}
<1>1. r.m \in Nat /\ r.f \in Nat /\ r.ep \in Epoch /\ r.seq \in Nat
  BY DEF Record
<1>2. /\ Buffered(r).m = r.m /\ Buffered(r).f = r.f /\ Buffered(r).ep = r.ep
      /\ Buffered(r).sns = <<r.seq>> /\ Buffered(r) \in Buffer
  BY <1>1 DEF Buffered, Buffer
<1>3. Len(<<r.seq>>) \in 1 .. DTLS13_RETRANS_RN_SIZE
  BY FlightsAssumption
<1>4. Nums(Buffered(r)) = {Num(r)}
  <2>1. DOMAIN <<r.seq>> = {1} /\ <<r.seq>>[1] = r.seq
    OBVIOUS
  <2> QED
    BY <1>2, <2>1 DEF Nums, Num
<1> QED
  BY <1>2, <1>3, <1>4

\* Dtls13HandshakeSend: what is sent is the new flight, and the buffer holds it
\* after what it held.
LEMMA SendFlightEffect ==
    ASSUME Types, Tracked, NEW e \in End, NEW n \in [End -> Seq(Record)],
           n[Peer(e)] = net[Peer(e)], NEW nx \in [Epoch -> Nat],
           NEW buf \in Seq(Buffer), Elems(buf) \subseteq Bufs(e),
           NEW out \in Seq(Record), \A q \in Elems(out) : q.kind = "hs" /\ q.nums = {},
           SendFlight(e, n, nx, buf, out)
    PROVE  /\ net'[e] = n[e]
           /\ \E sent :
                 /\ Sends(e, nx, sent)
                 /\ \A r \in Elems(sent) :
                       /\ r.kind = "hs" /\ r.nums = {}
                       /\ \E q \in Elems(out) : r.m = q.m /\ r.f = q.f /\ r.ep = q.ep
           /\ \A b \in Elems(buf) : \E c \in Elems(rtx'[e]) : c.m = b.m /\ c.f = b.f
           /\ \A q \in Elems(out) : \E c \in Elems(rtx'[e]) : c.m = q.m /\ c.f = q.f
           /\ seen' = [seen EXCEPT ![e] = {}]
<1> DEFINE p == Peer(e)
           sent == Numbered(nx, out)
           new == [i \in DOMAIN sent |-> Buffered(sent[i])]
<1>1. p \in End /\ p # e /\ Peer(p) = e
  BY Ends
<1>2. /\ net' = [n EXCEPT ![p] = @ \o sent]
      /\ next' = [next EXCEPT ![e] = After(nx, out)]
      /\ rtx' = [rtx EXCEPT ![e] = buf \o new]
      /\ seen' = [seen EXCEPT ![e] = {}]
  BY DEF SendFlight
<1>3. sent \in Seq(Record) /\ DOMAIN sent = DOMAIN out
  BY Numbering
<1>4. \A i \in DOMAIN out :
         /\ sent[i] \in Record /\ sent[i].kind = out[i].kind /\ sent[i].nums = out[i].nums
         /\ sent[i].m = out[i].m /\ sent[i].f = out[i].f /\ sent[i].ep = out[i].ep
  BY NumberedSent
<1> HIDE DEF sent
<1>5. \A i \in DOMAIN sent :
         /\ new[i] = Buffered(sent[i]) /\ new[i] \in Buffer
         /\ new[i].m = sent[i].m /\ new[i].f = sent[i].f
         /\ Len(new[i].sns) \in 1 .. DTLS13_RETRANS_RN_SIZE
         /\ Nums(new[i]) = {Num(sent[i])}
  BY <1>3, <1>4, BufferedNums
<1>6. new \in Seq(Buffer) /\ DOMAIN new = DOMAIN sent
  <2>1. new = [i \in 1 .. Len(sent) |-> new[i]] /\ DOMAIN sent = 1 .. Len(sent) /\ Len(sent) \in Nat
    BY <1>3
  <2> HIDE DEF new
  <2> QED
    BY <1>5, <2>1
<1> HIDE DEF new
<1>7. buf \o new \in Seq(Buffer) /\ Elems(buf \o new) = Elems(buf) \cup Elems(new)
  BY <1>6, CatElems
<1>8. /\ net' \in [End -> Seq(Record)] /\ net'[p] = net[p] \o sent /\ net'[e] = n[e]
  <2>1. n[p] \in Seq(Record) /\ n[p] \o sent \in Seq(Record)
    BY <1>1, <1>3
  <2> HIDE DEF p
  <2> QED
    BY <1>1, <1>2, <1>3, <2>1 DEF p
<1>9. /\ next' \in [End -> [Epoch -> Nat]] /\ next'[p] = next[p]
      /\ next'[e] = After(nx, out)
  <2>1. After(nx, out) \in [Epoch -> Nat]
    BY Numbering
  <2> QED
    BY <1>1, <1>2, <2>1 DEF Types
<1>10. rtx' \in [End -> Seq(Buffer)] /\ rtx'[p] = rtx[p] /\ rtx'[e] = buf \o new
  BY <1>1, <1>2, <1>7 DEF Types
<1>11. /\ \A ep \in Epoch : nx[ep] <= next'[e][ep]
       /\ \A i \in DOMAIN sent : /\ nx[sent[i].ep] <= sent[i].seq
                                 /\ sent[i].seq < next'[e][sent[i].ep]
       /\ \A i, j \in DOMAIN sent : i < j /\ sent[i].ep = sent[j].ep =>
             sent[i].seq < sent[j].seq
  <2>1. /\ \A ep \in Epoch : nx[ep] <= After(nx, out)[ep]
        /\ \A i \in DOMAIN out : /\ nx[out[i].ep] <= sent[i].seq
                                 /\ sent[i].seq < After(nx, out)[out[i].ep]
        /\ \A i, j \in DOMAIN out : i < j /\ out[i].ep = out[j].ep =>
              sent[i].seq < sent[j].seq
    BY Numbering DEF sent
  <2>2. DOMAIN sent = DOMAIN out /\ \A i \in DOMAIN out : sent[i].ep = out[i].ep
    BY <1>3, <1>4
  <2> QED
    BY <1>9, <2>1, <2>2
<1>12. ASSUME NEW c \in Elems(rtx'[e])
       PROVE  /\ Len(c.sns) \in 1 .. DTLS13_RETRANS_RN_SIZE
              /\ \A x \in Nums(c) :
                    \/ \E b \in Bufs(e) : x \in Nums(b) /\ b.m = c.m /\ b.f = c.f
                    \/ \E r \in Elems(sent) : /\ x = Num(r) /\ r.kind = "hs"
                                              /\ r.m = c.m /\ r.f = c.f
  <2>1. CASE c \in Elems(buf)
    BY <2>1 DEF Tracked
  <2>2. CASE c \in Elems(new)
    <3>1. PICK i \in DOMAIN sent : c = new[i]
      BY <1>6, <2>2, ElemsOf
    <3>2. sent[i] \in Elems(sent) /\ sent[i].kind = "hs"
      <4>1. out[i] \in Elems(out)
        BY <1>3, ElemsOf
      <4> QED
        BY <1>3, <1>4, <4>1, ElemsOf
    <3> QED
      BY <1>5, <3>1, <3>2
  <2> QED
    BY <1>7, <1>10, <2>1, <2>2
<1>13. Sends(e, nx, sent)
  BY <1>3, <1>8, <1>9, <1>10, <1>11, <1>12 DEF Sends, p
<1>14. \A r \in Elems(sent) :
          /\ r.kind = "hs" /\ r.nums = {}
          /\ \E q \in Elems(out) : r.m = q.m /\ r.f = q.f /\ r.ep = q.ep
  <2> TAKE r \in Elems(sent)
  <2>1. PICK i \in DOMAIN out : r = sent[i]
    BY <1>3, ElemsOf
  <2>2. out[i] \in Elems(out)
    BY ElemsOf
  <2> QED
    BY <1>4, <2>1, <2>2
<1>15. \A b \in Elems(buf) : b \in Elems(rtx'[e])
  BY <1>7, <1>10
<1>16. \A q \in Elems(out) : \E c \in Elems(rtx'[e]) : c.m = q.m /\ c.f = q.f
  <2> TAKE q \in Elems(out)
  <2>1. PICK i \in DOMAIN out : q = out[i]
    BY ElemsOf
  <2>2. new[i] \in Elems(new) /\ new[i].m = q.m /\ new[i].f = q.f
    BY <1>3, <1>4, <1>5, <1>6, <2>1, ElemsOf
  <2> QED
    BY <1>7, <1>10, <2>2
<1> QED
  BY <1>2, <1>8, <1>13, <1>14, <1>15, <1>16
-----------------------------------------------------------------------------
(* Numbers and what they stand for *)

\* Records, buffered records and what an end knows of are of their types.
LEMMA Typed ==
    ASSUME Types
    PROVE  /\ \A e \in End : Recs(e) \subseteq Record /\ Bufs(e) \subseteq Buffer
           /\ \A e \in End : Claimed(e) \subseteq Number /\ Named(e) \subseteq Number
           /\ \A e \in End : \A b \in Bufs(e) : Nums(b) \subseteq Number
           /\ \A r \in Record : Num(r) \in Number /\ Num(r)[1] = r.ep /\ Num(r)[2] = r.seq
<1>1. \A e \in End : Recs(e) \subseteq Record /\ Bufs(e) \subseteq Buffer
  <2> TAKE e \in End
  <2>1. net[e] \in Seq(Record) /\ rtx[e] \in Seq(Buffer)
    BY DEF Types
  <2> QED
    BY <2>1 DEF Recs, Bufs, Elems
<1>2. \A r \in Record : /\ Num(r) \in Number /\ Num(r)[1] = r.ep /\ Num(r)[2] = r.seq
                        /\ r.nums \subseteq Number
  BY DEF Record, Num, Number
<1>3. \A b \in Buffer : Nums(b) \subseteq Number
  <2> TAKE b \in Buffer
  <2>1. b.ep \in Epoch /\ b.sns \in Seq(Nat)
    BY DEF Buffer
  <2> QED
    BY <2>1 DEF Nums, Number
<1>4. ASSUME NEW e \in End
      PROVE  Claimed(e) \subseteq Number /\ Named(e) \subseteq Number
  <2>1. Peer(e) \in End /\ seen[e] \subseteq Number
    BY Ends DEF Types
  <2>2. Claimed(e) \subseteq Number
    BY <1>1, <1>2, <2>1 DEF Claimed
  <2> QED
    BY <1>1, <1>2, <2>2 DEF Named
<1> QED
  BY <1>1, <1>2, <1>3, <1>4

\* Two records sent in one go have different numbers.
LEMMA SentApart ==
    ASSUME NEW e, NEW nx, NEW sent, Sends(e, nx, sent),
           NEW r \in Elems(sent), NEW q \in Elems(sent), Num(r) = Num(q)
    PROVE  r = q
<1>1. PICK i \in DOMAIN sent : r = sent[i]
  BY ElemsOf
<1>2. PICK j \in DOMAIN sent : q = sent[j]
  BY ElemsOf
<1>3. r.ep = q.ep /\ r.seq = q.seq
  BY DEF Num
<1>4. i \in Nat /\ j \in Nat /\ r \in Record /\ q \in Record
  BY <1>1, <1>2 DEF Sends
<1>5. r.seq \in Nat
  BY <1>4 DEF Record
<1>6. ~(i < j) /\ ~(j < i)
  BY <1>1, <1>2, <1>3, <1>5 DEF Sends
<1> QED
  BY <1>1, <1>2, <1>4, <1>6

\* What a step of e that takes records from its queue, claims the numbers of new
\* and sends the records of sent does to all these sets.
LEMMA SetsStep ==
    ASSUME Types, NEW e \in End, NEW nx, NEW sent, Sends(e, nx, sent), NEW new,
           Elems(net'[e]) \subseteq Recs(e), seen'[Peer(e)] = seen[Peer(e)],
           seen'[e] \subseteq seen[e] \cup new,
           \A r \in Elems(sent) : r.nums \subseteq seen[e] \cup new
    PROVE  /\ Recs(e)' \subseteq Recs(e) /\ Recs(Peer(e))' = Recs(Peer(e)) \cup Elems(sent)
           /\ Bufs(Peer(e))' = Bufs(Peer(e))
           /\ Claimed(Peer(e))' \subseteq Claimed(Peer(e))
           /\ Claimed(e)' \subseteq Claimed(e) \cup new
           /\ Named(Peer(e))' \subseteq Named(Peer(e)) \cup {Num(r) : r \in Elems(sent)}
           /\ Named(e)' \subseteq Named(e) \cup new
<1> DEFINE p == Peer(e)
<1>1. p \in End /\ Peer(p) = e
  BY Ends
<1>2. Recs(e)' \subseteq Recs(e)
  BY DEF Recs
<1>3. Recs(p)' = Recs(p) \cup Elems(sent)
  <2>1. net[p] \in Seq(Record) /\ sent \in Seq(Record) /\ net'[p] = net[p] \o sent
    BY <1>1 DEF Types, Sends
  <2> QED
    BY <2>1, CatElems DEF Recs
<1>4. Bufs(p)' = Bufs(p)
  BY DEF Sends, Bufs
<1>5. Claimed(p)' \subseteq Claimed(p)
  BY <1>1, <1>2 DEF Claimed
<1>6. Claimed(e)' \subseteq Claimed(e) \cup new
  BY <1>3 DEF Claimed
<1> QED
  BY <1>2, <1>3, <1>4, <1>5, <1>6 DEF Named

\* The heart of the proof.  A number that e gives out is new to its peer, so it
\* can neither be mistaken for one in use nor have been acknowledged; a number
\* that e claims is that of a fragment it keeps.
LEMMA NumbersStep ==
    ASSUME Types, Used, Agree, ClaimedIsKept,
           NEW e \in End, NEW nx \in [Epoch -> Nat], NEW sent, Sends(e, nx, sent), NEW new,
           Elems(net'[e]) \subseteq Recs(e), seen'[Peer(e)] = seen[Peer(e)],
           seen'[e] \subseteq seen[e] \cup new,
           \A r \in Elems(sent) : r.nums \subseteq seen[e] \cup new,
           new \subseteq {Num(r) : r \in Recs(e)},
           \A b \in Bufs(Peer(e)) : new \cap Nums(b) # {} => Settled(e, <<b.m, b.f>>)',
           \A d \in End : \A x \in Nat \X Nat : Settled(d, x) => Settled(d, x)',
           \A b \in Bufs(e) : \A k \in Nums(b) : k[2] < nx[k[1]],
           Peer(e) = "server" \/ Stateful' => \A k \in Named(Peer(e)) : k[2] < nx[k[1]],
           Elems(sent) = {} \/ Peer(e) = "server" \/ Stateful',
           e = "client" => (Stateful' => Stateful)
    PROVE  Used' /\ Agree' /\ ClaimedIsKept'
<1> DEFINE p == Peer(e)
<1>1. p \in End /\ Peer(p) = e /\ p # e /\ \A d \in End : d = e \/ d = p
  BY Ends
<1>2. /\ Recs(e)' \subseteq Recs(e) /\ Recs(p)' = Recs(p) \cup Elems(sent)
      /\ Bufs(p)' = Bufs(p) /\ Claimed(p)' \subseteq Claimed(p)
      /\ Claimed(e)' \subseteq Claimed(e) \cup new
      /\ Named(p)' \subseteq Named(p) \cup {Num(r) : r \in Elems(sent)}
      /\ Named(e)' \subseteq Named(e)
  <2>1. new \subseteq Named(e)
    BY DEF Named
  <2>2. /\ Recs(e)' \subseteq Recs(e) /\ Recs(Peer(e))' = Recs(Peer(e)) \cup Elems(sent)
        /\ Bufs(Peer(e))' = Bufs(Peer(e))
        /\ Claimed(Peer(e))' \subseteq Claimed(Peer(e))
        /\ Claimed(e)' \subseteq Claimed(e) \cup new
        /\ Named(Peer(e))' \subseteq Named(Peer(e)) \cup {Num(r) : r \in Elems(sent)}
        /\ Named(e)' \subseteq Named(e) \cup new
    BY SetsStep
  <2>3. Named(e)' \subseteq Named(e)
    BY <2>1, <2>2
  <2> QED
    BY <2>2, <2>3
<1>3. /\ \A d \in End : Recs(d) \subseteq Record /\ Bufs(d) \subseteq Buffer
      /\ \A d \in End : Named(d) \subseteq Number /\ Claimed(d) \subseteq Named(d)
      /\ \A d \in End : \A b \in Bufs(d) : Nums(b) \subseteq Number
      /\ \A r \in Record : Num(r) \in Number /\ Num(r)[1] = r.ep /\ Num(r)[2] = r.seq
      /\ \A k \in Number : k[1] \in Epoch /\ k[2] \in Nat
  BY Typed DEF Named, Number
<1>4. /\ \A r \in Elems(sent) : /\ r \in Record /\ nx[r.ep] <= r.seq
                               /\ r.seq < next'[e][r.ep]
      /\ \A ep \in Epoch : nx[ep] \in Nat /\ next'[e][ep] \in Nat /\ nx[ep] <= next'[e][ep]
      /\ next'[p] = next[p]
  <2>1. \A i \in DOMAIN sent : /\ sent[i] \in Record /\ nx[sent[i].ep] <= sent[i].seq
                               /\ sent[i].seq < next'[e][sent[i].ep]
    BY DEF Sends
  <2>2. \A r \in Elems(sent) : /\ r \in Record /\ nx[r.ep] <= r.seq
                               /\ r.seq < next'[e][r.ep]
    BY <2>1, ElemsOf
  <2>3. next'[e] \in [Epoch -> Nat]
    BY DEF Sends
  <2> QED
    BY <2>2, <2>3 DEF Sends
\* A number given out is not known to the peer, and not in use.
<1>5. \A r \in Elems(sent) : Num(r) \notin Named(p) /\ \A b \in Bufs(e) : Num(r) \notin Nums(b)
  <2> TAKE r \in Elems(sent)
  <2>1. r \in Record /\ r.ep \in Epoch /\ r.seq \in Nat /\ nx[r.ep] <= r.seq /\ nx[r.ep] \in Nat
    BY <1>4 DEF Record
  <2>2. Num(r)[1] = r.ep /\ Num(r)[2] = r.seq
    BY <1>3, <2>1
  <2>3. ~(Num(r)[2] < nx[Num(r)[1]])
    BY <2>1, <2>2
  <2> QED
    BY <2>3
\* Where a number of the new buffer comes from.
<1>6. \A c \in Bufs(e)' : \A x \in Nums(c) :
         \/ \E b \in Bufs(e) : x \in Nums(b) /\ b.m = c.m /\ b.f = c.f
         \/ \E r \in Elems(sent) : x = Num(r) /\ r.kind = "hs" /\ r.m = c.m /\ r.f = c.f
  BY DEF Sends, Bufs
<1>7. Used'
  <2>1. \A c \in Bufs(e)' : \A x \in Nums(c) : x[2] < next'[e][x[1]]
    <3> TAKE c \in Bufs(e)'
    <3> TAKE x \in Nums(c)
    <3>1. CASE \E b \in Bufs(e) : x \in Nums(b)
      <4>1. x \in Number /\ x[2] < nx[x[1]]
        BY <1>3, <3>1
      <4> QED
        BY <1>3, <1>4, <4>1
    <3>2. CASE \E r \in Elems(sent) : x = Num(r)
      BY <1>3, <1>4, <3>2
    <3> QED
      BY <1>6, <3>1, <3>2
  <2>2. \A b \in Bufs(p)' : \A x \in Nums(b) : x[2] < next'[p][x[1]]
    BY <1>1, <1>2, <1>4 DEF Used
  <2>3. p = "server" \/ Stateful' => \A k \in Named(p)' : k[2] < next'[e][k[1]]
    <3> SUFFICES ASSUME p = "server" \/ Stateful', NEW k \in Named(p)'
                 PROVE  k[2] < next'[e][k[1]]
      OBVIOUS
    <3>1. CASE k \in Named(p)
      <4>1. k \in Number /\ k[2] < nx[k[1]]
        BY <1>1, <1>3, <3>1
      <4> QED
        BY <1>3, <1>4, <4>1
    <3>2. CASE \E r \in Elems(sent) : k = Num(r)
      BY <1>3, <1>4, <3>2
    <3> QED
      BY <1>2, <3>1, <3>2
  <2>4. e = "server" \/ Stateful' => \A k \in Named(e)' : k[2] < next'[p][k[1]]
    <3>1. e = "server" \/ Stateful' => e = "server" \/ Stateful
      BY Ends
    <3> QED
      BY <1>2, <1>4, <3>1 DEF Used
  <2>5. \A d \in End : \A b \in Bufs(d)' : \A x \in Nums(b) : x[2] < next'[d][x[1]]
    BY <1>1, <2>1, <2>2
  <2>6. \A d \in End : d = "server" \/ Stateful' => \A k \in Named(d)' : k[2] < next'[Peer(d)][k[1]]
    BY <1>1, <2>3, <2>4
  <2> QED
    BY <2>5, <2>6 DEF Used
<1>8. Agree'
  <2>1. ASSUME NEW c \in Bufs(e)', NEW r \in Recs(p)', r.kind = "hs", Num(r) \in Nums(c)
        PROVE  r.m = c.m /\ r.f = c.f
    <3>1. CASE r \in Recs(p)
      <4>1. Num(r) \in Named(p)
        BY <3>1 DEF Named
      <4>2. \E b \in Bufs(e) : Num(r) \in Nums(b) /\ b.m = c.m /\ b.f = c.f
        BY <1>5, <1>6, <2>1, <4>1
      <4> QED
        BY <2>1, <3>1, <4>2 DEF Agree
    <3>2. CASE r \in Elems(sent)
      <4>1. PICK q \in Elems(sent) : Num(r) = Num(q) /\ q.m = c.m /\ q.f = c.f
        BY <1>5, <1>6, <2>1, <3>2
      <4> QED
        BY <3>2, <4>1, SentApart
    <3> QED
      BY <1>2, <3>1, <3>2
  <2>2. ASSUME NEW b \in Bufs(p)', NEW r \in Recs(e)', r.kind = "hs", Num(r) \in Nums(b)
        PROVE  r.m = b.m /\ r.f = b.f
    BY <1>1, <1>2, <2>2 DEF Agree
  <2> QED
    BY <1>1, <2>1, <2>2 DEF Agree
<1>9. ClaimedIsKept'
  <2>1. ASSUME NEW c \in Bufs(e)', NEW x \in Claimed(p)', x \in Nums(c)
        PROVE  Settled(p, <<c.m, c.f>>)'
    <3>1. x \in Claimed(p) /\ x \in Named(p)
      BY <1>1, <1>2, <1>3
    <3>2. PICK b \in Bufs(e) : x \in Nums(b) /\ b.m = c.m /\ b.f = c.f
      BY <1>5, <1>6, <2>1, <3>1
    <3>3. Settled(p, <<b.m, b.f>>)
      BY <3>1, <3>2 DEF ClaimedIsKept
    <3>4. <<b.m, b.f>> \in Nat \X Nat
      BY <1>3 DEF Buffer
    <3>5. Settled(p, <<b.m, b.f>>)'
      BY <1>1, <3>3, <3>4
    <3> QED
      BY <3>2, <3>5 DEF Settled
  <2>2. ASSUME NEW b \in Bufs(p)', NEW x \in Claimed(e)', x \in Nums(b)
        PROVE  Settled(e, <<b.m, b.f>>)'
    <3>1. CASE x \in new
      BY <1>2, <2>2, <3>1
    <3>2. CASE x \in Claimed(e)
      <4>1. Settled(e, <<b.m, b.f>>)
        BY <1>1, <1>2, <2>2, <3>2 DEF ClaimedIsKept
      <4>2. <<b.m, b.f>> \in Nat \X Nat
        BY <1>1, <1>2, <1>3 DEF Buffer
      <4> QED
        BY <4>1, <4>2
    <3> QED
      BY <1>2, <3>1, <3>2
  <2>3. \A c \in Bufs(e)' : Claimed(p)' \cap Nums(c) # {} => Settled(p, <<c.m, c.f>>)'
    BY <2>1
  <2>4. \A b \in Bufs(p)' : Claimed(e)' \cap Nums(b) # {} => Settled(e, <<b.m, b.f>>)'
    BY <2>2
  <2> QED
    BY <1>1, <2>3, <2>4 DEF ClaimedIsKept
<1> QED
  BY <1>7, <1>8, <1>9
-----------------------------------------------------------------------------
(* A step of one end *)

\* What the steps of an end have in common: it claims the numbers of new,
\* processes and stores messages ...
Receives(e, new) ==
    /\ seen' \in [End -> SUBSET Number] /\ seen'[Peer(e)] = seen[Peer(e)]
    /\ seen'[e] \subseteq seen[e] \cup new
    /\ new \subseteq {Num(r) : r \in Recs(e)}
    /\ \A b \in Bufs(Peer(e)) : new \cap Nums(b) # {} => Settled(e, <<b.m, b.f>>)'
    /\ expected' \in [End -> Nat] /\ expected'[Peer(e)] = expected[Peer(e)]
    /\ expected[e] <= expected'[e]
    /\ expected'["client"] <= Last + 1 /\ expected'["server"] \in 1 .. 3
    /\ have' \in [End -> SUBSET (Nat \X Nat)] /\ have'[Peer(e)] = have[Peer(e)]
    /\ \A x \in have'[e] : x[1] <= LastFrom(Peer(e))
    /\ dropped' \in [End -> SUBSET (Nat \X Nat)] /\ dropped'[Peer(e)] = dropped[Peer(e)]
    /\ \A x \in Nat \X Nat : Settled(e, x) => Settled(e, x)'

\* ... takes records from its queue, sends those of sent, and lets go of what its peer holds.
Moves(e, nx, sent, new) ==
    /\ Sends(e, nx, sent) /\ Receives(e, new)
    /\ Elems(net'[e]) \subseteq Recs(e)
    /\ \A r \in Elems(sent) : r.nums \subseteq seen[e] \cup new
    /\ \A r \in Elems(sent) : r.kind = "hs" => Proper(e, r.m, r.ep)'
    /\ \A x \in SentBy(e)' :
          (\E c \in Elems(rtx'[e]) : <<c.m, c.f>> = x) \/ Settled(Peer(e), x)

Moving(e, nx, new) == \E sent : Moves(e, nx, sent, new)

\* How far the two ends are, before and after.
LEMMA MovesForward ==
    ASSUME Types, NEW e \in End, NEW nx, NEW sent, NEW new, Moves(e, nx, sent, new)
    PROVE  /\ \A d \in End : expected[d] <= expected'[d] /\ expected'[d] \in Nat /\ expected[d] \in Nat
           /\ Stateful => Stateful'
           /\ e = "client" => Stateful' = Stateful
           /\ \A d \in End : \A x \in Nat \X Nat : Settled(d, x) => Settled(d, x)'
<1>1. \A d \in End : d = e \/ d = Peer(e)
  BY Ends
<1>2. \A d \in End : expected[d] \in Nat /\ expected'[d] \in Nat
  BY DEF Types, Moves, Receives
<1>3. \A d \in End : expected[d] <= expected'[d]
  BY <1>1, <1>2 DEF Moves, Receives
<1>4. Stateful => Stateful'
  BY <1>2, <1>3, Ends DEF Stateful
<1>5. e = "client" => Stateful' = Stateful
  BY Ends DEF Stateful, Moves, Receives
<1>6. \A x \in Nat \X Nat : Settled(Peer(e), x) => Settled(Peer(e), x)'
  BY DEF Settled, Moves, Receives
<1>7. \A x \in Nat \X Nat : Settled(e, x) => Settled(e, x)'
  BY DEF Moves, Receives
<1> QED
  BY <1>1, <1>2, <1>3, <1>4, <1>5, <1>6, <1>7

\* A message that could be sent still can.
LEMMA StaysProper ==
    ASSUME Types, NEW d \in End, NEW new, Receives(d, new), NEW e \in End, NEW m, NEW ep,
           Proper(e, m, ep)
    PROVE  Proper(e, m, ep)'
<1>1. /\ expected["client"] \in Nat /\ expected'["client"] \in Nat
      /\ expected'["client"] <= Last + 1 /\ Last \in Nat
  BY Ends, FlightsAssumption DEF Types, Receives
<1>2. expected["client"] <= expected'["client"]
  <2>1. "client" = d \/ "client" = Peer(d)
    BY Ends
  <2> QED
    BY <1>1, <2>1 DEF Receives
<1> QED
  BY <1>1, <1>2 DEF Proper

\* Types and messages after such a step.
LEMMA MovesMessages ==
    ASSUME Types, Tracked, Messages, NEW e \in End, NEW nx, NEW sent, NEW new,
           Moves(e, nx, sent, new), Stateful' => expected'["client"] >= 1
    PROVE  Types' /\ Tracked' /\ Messages'
<1> DEFINE p == Peer(e)
<1>1. p \in End /\ Peer(p) = e /\ \A d \in End : d = e \/ d = p
  BY Ends
<1>2. Types'
  BY DEF Types, Moves, Receives, Sends
<1>3. /\ Recs(e)' \subseteq Recs(e) /\ Recs(p)' = Recs(p) \cup Elems(sent)
      /\ Bufs(p)' = Bufs(p)
  BY SetsStep DEF Moves, Receives
<1>4. \A c \in Bufs(e)' :
         /\ Len(c.sns) \in 1 .. DTLS13_RETRANS_RN_SIZE
         /\ \A x \in Nums(c) :
               \/ \E b \in Bufs(e) : x \in Nums(b) /\ b.m = c.m /\ b.f = c.f
               \/ \E r \in Elems(sent) : /\ x = Num(r) /\ r.kind = "hs"
                                         /\ r.m = c.m /\ r.f = c.f
  BY DEF Moves, Receives, Sends, Bufs
<1>5. Tracked'
  BY <1>1, <1>3, <1>4 DEF Tracked
<1>7. \A d \in End : \A m, ep : Proper(d, m, ep) => Proper(d, m, ep)'
  BY StaysProper DEF Moves
<1>8. \A r \in Recs(p)' : r.kind = "hs" => Proper(e, r.m, r.ep)'
  BY <1>3, <1>7 DEF Messages, Moves, Receives
<1>9. \A r \in Recs(e)' : r.kind = "hs" => Proper(p, r.m, r.ep)'
  BY <1>1, <1>3, <1>7 DEF Messages
<1>10. ASSUME NEW c \in Bufs(e)'
       PROVE  Proper(e, c.m, c.ep)'
  <2>1. <<c.ep, c.sns[1]>> \in Nums(c)
    <3>1. 1 \in DOMAIN c.sns
      <4>1. rtx'[e] \in Seq(Buffer)
        BY DEF Moves, Receives, Sends
      <4>2. c \in Buffer
        BY <4>1 DEF Bufs, Elems
      <4>3. c.sns \in Seq(Nat) /\ Len(c.sns) >= 1
        BY <1>4, <4>2, FlightsAssumption DEF Buffer
      <4> QED
        BY <4>3
    <3> QED
      BY <3>1 DEF Nums
  <2>2. CASE \E b \in Bufs(e) : <<c.ep, c.sns[1]>> \in Nums(b) /\ b.m = c.m
    <3>1. PICK b \in Bufs(e) : <<c.ep, c.sns[1]>> \in Nums(b) /\ b.m = c.m
      BY <2>2
    <3>2. b.ep = c.ep
      BY <3>1 DEF Nums
    <3> QED
      BY <1>7, <3>1, <3>2 DEF Messages
  <2>3. CASE \E r \in Elems(sent) : /\ <<c.ep, c.sns[1]>> = Num(r) /\ r.kind = "hs"
                                    /\ r.m = c.m
    <3>1. PICK r \in Elems(sent) : /\ <<c.ep, c.sns[1]>> = Num(r) /\ r.kind = "hs"
                                   /\ r.m = c.m
      BY <2>3
    <3>2. r.ep = c.ep
      BY <3>1 DEF Num
    <3> QED
      BY <3>1, <3>2 DEF Moves, Receives
  <2> QED
    BY <1>4, <2>1, <2>2, <2>3
<1>11. \A b \in Bufs(p)' : Proper(p, b.m, b.ep)'
  BY <1>1, <1>3, <1>7 DEF Messages
<1>12. \A d \in End : \A x \in have'[d] : x[1] <= LastFrom(Peer(d))
  BY <1>1 DEF Moves, Receives, Messages
<1>13. \A d \in End : \A r \in Recs(Peer(d))' : r.kind = "hs" => Proper(d, r.m, r.ep)'
  BY <1>1, <1>8, <1>9
<1>14. \A d \in End : \A b \in Bufs(d)' : Proper(d, b.m, b.ep)'
  BY <1>1, <1>10, <1>11
<1>15. Messages'
  BY <1>12, <1>13, <1>14 DEF Messages
<1> QED
  BY <1>2, <1>5, <1>15

\* Numbers after such a step; nx are the counters of e, or it has to be shown
\* that they serve as well.
LEMMA MovesNumbers ==
    ASSUME Types, Used, Agree, ClaimedIsKept, NEW e \in End, NEW nx \in [Epoch -> Nat],
           NEW sent, NEW new, Moves(e, nx, sent, new),
           \A b \in Bufs(e) : \A k \in Nums(b) : k[2] < nx[k[1]],
           Peer(e) = "server" \/ Stateful' => \A k \in Named(Peer(e)) : k[2] < nx[k[1]],
           Elems(sent) = {} \/ Peer(e) = "server" \/ Stateful'
    PROVE  Used' /\ Agree' /\ ClaimedIsKept'
<1>1. \A d \in End : \A x \in Nat \X Nat : Settled(d, x) => Settled(d, x)'
  BY MovesForward
<1>2. e = "client" => (Stateful' => Stateful)
  BY MovesForward
<1> QED
  BY <1>1, <1>2, NumbersStep DEF Moves, Receives

\* What has left either buffer after such a step.
LEMMA MovesKept ==
    ASSUME Types, AckedIsKept, NEW e \in End, NEW nx, NEW sent, NEW new,
           Moves(e, nx, sent, new), \A d \in End : SentBy(d) \subseteq Nat \X Nat,
           \A d \in End : SentBy(d)' \subseteq Nat \X Nat
    PROVE  AckedIsKept'
<1> DEFINE p == Peer(e)
<1>1. p \in End /\ Peer(p) = e /\ \A d \in End : d = e \/ d = p
  BY Ends
<1>2. \A d \in End : \A x \in Nat \X Nat : Settled(d, x) => Settled(d, x)'
  BY MovesForward
<1>3. \A x \in SentBy(e)' :
         (\E i \in DOMAIN rtx'[e] : <<rtx'[e][i].m, rtx'[e][i].f>> = x) \/ Settled(p, x)'
  <2> TAKE x \in SentBy(e)'
  <2>1. CASE \E c \in Elems(rtx'[e]) : <<c.m, c.f>> = x
    BY <2>1, ElemsOf
  <2>2. CASE Settled(p, x)
    BY <1>1, <1>2, <2>2
  <2> QED
    BY <2>1, <2>2 DEF Moves, Receives
<1>4. SentBy(p)' = SentBy(p)
  BY <1>1, Ends DEF SentBy, Stateful, Moves, Receives
<1>5. \A x \in SentBy(p)' :
         (\E i \in DOMAIN rtx'[p] : <<rtx'[p][i].m, rtx'[p][i].f>> = x) \/ Settled(e, x)'
  <2>1. rtx'[p] = rtx[p]
    BY DEF Moves, Receives, Sends
  <2> QED
    BY <1>1, <1>2, <1>4, <2>1 DEF AckedIsKept
<1> QED
  BY <1>1, <1>3, <1>5 DEF AckedIsKept

\* What the client sends goes behind what is under way, under higher numbers.
LEMMA OrderedSends ==
    ASSUME Types, Ordered, Used, NEW sent, Sends("client", next["client"], sent)
    PROVE  Ordered'
<1> DEFINE q == net["server"]
           nq == net'["server"]
<1>1. /\ q \in Seq(Record) /\ sent \in Seq(Record) /\ nq = q \o sent
      /\ Len(q) \in Nat /\ Len(sent) \in Nat
  BY Ends DEF Types, Sends
<1>2. /\ DOMAIN nq = 1 .. Len(q) + Len(sent)
      /\ \A i \in 1 .. Len(q) : nq[i] = q[i] /\ i \in DOMAIN q
      /\ \A i \in 1 .. Len(sent) : nq[Len(q) + i] = sent[i] /\ i \in DOMAIN sent
  BY <1>1
<1>3. 0 \in Epoch /\ next["client"][0] \in Nat
  BY Ends DEF Epoch, Types
<1>4. \A i \in DOMAIN q : q[i].ep = 0 => q[i].seq < next["client"][0] /\ q[i].seq \in Nat
  <2> SUFFICES ASSUME NEW i \in DOMAIN q, q[i].ep = 0
               PROVE  q[i].seq < next["client"][0] /\ q[i].seq \in Nat
    OBVIOUS
  <2>1. q[i] \in Record /\ q[i] \in Recs("server")
    BY <1>1, ElemsOf DEF Recs
  <2>2. Num(q[i]) \in Named("server") /\ Num(q[i])[1] = 0 /\ Num(q[i])[2] = q[i].seq
    BY <2>1 DEF Named, Num
  <2>3. q[i].seq < next[Peer("server")][0]
    BY <2>2, Ends DEF Used
  <2> QED
    BY <2>1, <2>3, Ends DEF Record
<1>5. \A i \in DOMAIN sent : sent[i].ep = 0 => next["client"][0] <= sent[i].seq /\ sent[i].seq \in Nat
  <2>1. \A i \in DOMAIN sent : sent[i] \in Record
    BY <1>1
  <2> QED
    BY <2>1 DEF Sends, Record
<1>6. ASSUME NEW i \in DOMAIN nq, NEW j \in DOMAIN nq, i < j, nq[i].ep = 0, nq[j].ep = 0
      PROVE  nq[i].seq < nq[j].seq \/ nq[i] = nq[j]
  <2>1. CASE j <= Len(q)
    <3>1. i \in 1 .. Len(q) /\ j \in 1 .. Len(q)
      BY <1>1, <1>2, <1>6, <2>1
    <3> QED
      BY <1>2, <1>6, <3>1 DEF Ordered
  <2>2. CASE ~(j <= Len(q))
    <3>1. PICK k \in 1 .. Len(sent) : j = Len(q) + k
      <4>1. j - Len(q) \in 1 .. Len(sent) /\ j = Len(q) + (j - Len(q))
        BY <1>1, <1>2, <2>2
      <4> QED
        BY <4>1
    <3>2. nq[j] = sent[k] /\ k \in DOMAIN sent
      BY <1>2, <3>1
    <3>3. CASE i <= Len(q)
      <4>1. i \in 1 .. Len(q)
        BY <1>1, <1>2, <3>3
      <4>2. nq[i] = q[i] /\ i \in DOMAIN q
        BY <1>2, <4>1
      <4> HIDE DEF q, nq
      <4> QED
        BY <1>3, <1>4, <1>5, <1>6, <3>2, <4>2
    <3>4. CASE ~(i <= Len(q))
      <4>1. PICK h \in 1 .. Len(sent) : i = Len(q) + h
        <5>1. i - Len(q) \in 1 .. Len(sent) /\ i = Len(q) + (i - Len(q))
          <6>1. i \in 1 .. Len(q) + Len(sent)
            BY <1>2
          <6> HIDE DEF q, nq
          <6> QED
            BY <1>1, <3>4, <6>1
        <5> QED
          BY <5>1
      <4>2. nq[i] = sent[h] /\ h \in DOMAIN sent /\ h < k
        BY <1>1, <1>2, <1>6, <3>1, <4>1
      <4> QED
        BY <1>6, <3>2, <4>2 DEF Sends
    <3> QED
      BY <3>3, <3>4
  <2> QED
    BY <2>1, <2>2, <1>1, <1>2
<1> QED
  BY <1>6 DEF Ordered

\* The server takes the first of them, or none.
LEMMA OrderedTail ==
    ASSUME Types, Ordered,
           \/ net'["server"] = net["server"]
           \/ net["server"] # <<>> /\ net'["server"] = Tail(net["server"])
    PROVE  Ordered'
<1>1. CASE net'["server"] = net["server"]
  BY <1>1 DEF Ordered
<1>2. CASE net["server"] # <<>> /\ net'["server"] = Tail(net["server"])
  <2>1. net["server"] \in Seq(Record)
    BY Ends DEF Types
  <2>2. \A i \in DOMAIN net'["server"] :
           /\ i + 1 \in DOMAIN net["server"] /\ net'["server"][i] = net["server"][i + 1]
           /\ i \in Nat
    BY <1>2, <2>1
  <2>3. ASSUME NEW i \in DOMAIN net'["server"], NEW j \in DOMAIN net'["server"], i < j,
               net'["server"][i].ep = 0, net'["server"][j].ep = 0
        PROVE  \/ net'["server"][i].seq < net'["server"][j].seq
               \/ net'["server"][i] = net'["server"][j]
    <3>1. i + 1 \in DOMAIN net["server"] /\ j + 1 \in DOMAIN net["server"] /\ i + 1 < j + 1
      BY <2>2, <2>3
    <3> QED
      BY <2>2, <2>3, <3>1 DEF Ordered
  <2> QED
    BY <2>3 DEF Ordered
<1> QED
  BY <1>1, <1>2

\* Before a cookie is accepted: a second ClientHello that the client sends now
\* has a higher number than any HelloRetryRequest.
LEMMA StatelessClient ==
    ASSUME Types, Stateless, NEW sent, NEW new, Moves("client", next["client"], sent, new),
           ~Stateful => expected'["client"] <= 1 /\ have'["client"] = {} /\ ~unified'
    PROVE  Stateless'
<1> SUFFICES ASSUME ~Stateful'
             PROVE  /\ rtx'["server"] = <<>> /\ have'["client"] = {} /\ ~unified'
                    /\ expected'["client"] <= 1
                    /\ \A r \in Recs("client")' : r.kind = "hs" /\ r.m = 0 /\ r.f = 1
                    /\ \A k \in Named("client")' :
                          /\ k[1] = 0 /\ k[2] < next'["client"][0]
                          /\ \A r \in Recs("server")' : r.kind = "hs" /\ r.m = 1 => k[2] < r.seq
  BY DEF Stateless
<1>1. ~Stateful
  BY MovesForward, Ends
<1>2. /\ Recs("client")' \subseteq Recs("client")
      /\ Recs("server")' = Recs("server") \cup Elems(sent)
      /\ Named("client")' \subseteq Named("client")
  <2>1. /\ Recs("client")' \subseteq Recs("client")
        /\ Recs("server")' = Recs("server") \cup Elems(sent)
        /\ Named("client")' \subseteq Named("client") \cup new
    <3>1. Peer("client") = "server" /\ "client" \in End
      BY Ends
    <3>2. /\ Recs("client")' \subseteq Recs("client")
          /\ Recs(Peer("client"))' = Recs(Peer("client")) \cup Elems(sent)
          /\ Named("client")' \subseteq Named("client") \cup new
      BY <3>1, SetsStep DEF Moves, Receives
    <3> QED
      BY <3>1, <3>2
  <2>2. new \subseteq Named("client")
    BY DEF Moves, Receives, Named
  <2> QED
    BY <2>1, <2>2
<1>3. rtx'["server"] = <<>>
  BY <1>1, Ends DEF Stateless, Moves, Receives, Sends
<1>4. /\ 0 \in Epoch /\ next["client"][0] \in Nat /\ next'["client"][0] \in Nat
      /\ next["client"][0] <= next'["client"][0]
  BY Ends DEF Epoch, Types, Moves, Receives, Sends
<1>5. Named("client") \subseteq Number /\ Recs("server") \subseteq Record
  BY Typed, Ends
<1>6. ASSUME NEW k \in Named("client")'
      PROVE  /\ k[1] = 0 /\ k[2] < next'["client"][0]
             /\ \A r \in Recs("server")' : r.kind = "hs" /\ r.m = 1 => k[2] < r.seq
  <2>1. /\ k \in Named("client") /\ k[2] \in Nat /\ k[1] = 0 /\ k[2] < next["client"][0]
        /\ \A r \in Recs("server") : r.kind = "hs" /\ r.m = 1 => k[2] < r.seq
    BY <1>1, <1>2, <1>5 DEF Stateless, Number
  <2>2. \A r \in Elems(sent) : r.kind = "hs" /\ r.m = 1 => k[2] < r.seq
    <3> SUFFICES ASSUME NEW r \in Elems(sent), r.kind = "hs", r.m = 1
                 PROVE  k[2] < r.seq
      OBVIOUS
    <3>1. r.ep = 0
      <4>1. Proper("client", r.m, r.ep)'
        BY DEF Moves, Receives
      <4> QED
        BY <4>1 DEF Proper
    <3>2. PICK i \in DOMAIN sent : r = sent[i]
      BY ElemsOf
    <3>3. r \in Record /\ next["client"][0] <= r.seq
      BY <3>1, <3>2 DEF Moves, Receives, Sends
    <3>4. r.seq \in Nat
      BY <3>3 DEF Record
    <3> QED
      BY <1>4, <2>1, <3>3, <3>4
  <2>3. k[2] < next'["client"][0]
    BY <1>4, <2>1
  <2> QED
    BY <1>2, <2>1, <2>2, <2>3
<1>7. \A r \in Recs("client")' : r.kind = "hs" /\ r.m = 0 /\ r.f = 1
  BY <1>1, <1>2 DEF Stateless
<1> QED
  BY <1>1, <1>3, <1>6, <1>7

\* A server that has accepted a cookie is stateful for good.
LEMMA StatelessServer ==
    ASSUME Types, NEW nx, NEW sent, NEW new, Moves("server", nx, sent, new), Stateful \/ Stateful'
    PROVE  Stateless'
BY MovesForward, Ends DEF Stateless

\* Fragments are pairs of numbers.
LEMMA SentByType ==
    ASSUME NEW d \in End
    PROVE  SentBy(d) \subseteq Nat \X Nat /\ SentBy(d)' \subseteq Nat \X Nat
<1>1. \A i \in DOMAIN ServerFlight :
         <<ServerFlight[i].m, ServerFlight[i].f>> \in Nat \X Nat
  <2> TAKE i \in DOMAIN ServerFlight
  <2>1. ServerFlight[i] \in Record
    BY FlightShape
  <2> QED
    BY <2>1 DEF Record
<1>2. SentBy(d) \subseteq Nat \X Nat
  BY <1>1 DEF SentBy
<1>3. SentBy(d)' \subseteq Nat \X Nat
  BY <1>1 DEF SentBy
<1> QED
  BY <1>2, <1>3

\* A step of the client.
LEMMA ClientStep ==
    ASSUME Data, NEW sent, NEW new, Moves("client", next["client"], sent, new),
           ~Stateful => expected'["client"] <= 1 /\ have'["client"] = {} /\ ~unified'
    PROVE  Data'
<1> USE DEF Data
<1>1. "client" \in End /\ Peer("client") = "server" /\ next["client"] \in [Epoch -> Nat]
  BY Ends DEF Types
<1>2. Stateful' => expected'["client"] >= 1
  <2>1. /\ expected["client"] <= expected'["client"] /\ expected["client"] \in Nat
        /\ expected'["client"] \in Nat /\ Stateful' = Stateful
    BY <1>1, MovesForward
  <2> QED
    BY <2>1 DEF Messages
<1>3. Types' /\ Tracked' /\ Messages'
  BY <1>1, <1>2, MovesMessages
<1>4. Used' /\ Agree' /\ ClaimedIsKept'
  <2>1. \A b \in Bufs("client") : \A k \in Nums(b) : k[2] < next["client"][k[1]]
    BY <1>1 DEF Used
  <2>2. \A k \in Named(Peer("client")) : k[2] < next["client"][k[1]]
    BY <1>1, Ends DEF Used
  <2> QED
    BY <1>1, <2>1, <2>2, MovesNumbers
<1>5. AckedIsKept'
  BY <1>1, SentByType, MovesKept
<1>6. Ordered'
  BY OrderedSends DEF Moves
<1>7. Stateless'
  BY StatelessClient
<1> QED
  BY <1>3, <1>4, <1>5, <1>6, <1>7

\* A step of a server that has accepted a cookie.
LEMMA ServerStep ==
    ASSUME Data, Stateful, NEW sent, NEW new, Moves("server", next["server"], sent, new),
           Ordered'
    PROVE  Data'
<1> USE DEF Data
<1>1. "server" \in End /\ Peer("server") = "client" /\ next["server"] \in [Epoch -> Nat]
  BY Ends DEF Types
<1>2. expected'["client"] >= 1 /\ Stateful'
  <2>1. expected'["client"] = expected["client"]
    BY <1>1 DEF Moves, Receives
  <2> QED
    BY <1>1, <2>1, MovesForward DEF Messages
<1>3. Types' /\ Tracked' /\ Messages'
  BY <1>1, <1>2, MovesMessages
<1>4. Used' /\ Agree' /\ ClaimedIsKept'
  <2>1. \A b \in Bufs("server") : \A k \in Nums(b) : k[2] < next["server"][k[1]]
    BY <1>1 DEF Used
  <2>2. \A k \in Named(Peer("server")) : k[2] < next["server"][k[1]]
    BY <1>1, Ends DEF Used
  <2> QED
    BY <1>1, <1>2, <2>1, <2>2, MovesNumbers
<1>5. AckedIsKept'
  BY <1>1, SentByType, MovesKept
<1>7. Stateless'
  BY StatelessServer
<1> QED
  BY <1>3, <1>4, <1>5, <1>7


\* The step sends an ACK, perhaps, and the buffer or what is left of it.
LEMMA WorkMoves ==
    ASSUME Data, NEW e \in End, NEW n \in [End -> Seq(Record)],
           n[Peer(e)] = net[Peer(e)], Elems(n[e]) \subseteq Recs(e),
           NEW buf \in Seq(Buffer), Elems(buf) \subseteq Bufs(e),
           NEW ack \in Seq(Record), \A i \in DOMAIN ack : ack[i].kind = "ack",
           Works(e, n, buf, ack),
           NEW new, Receives(e, new), \A a \in Elems(ack) : a.nums \subseteq seen[e] \cup new,
           \A x \in SentBy(e)' : (\E b \in Elems(buf) : <<b.m, b.f>> = x) \/ Settled(Peer(e), x)
    PROVE  net'[e] = n[e] /\ Moving(e, next[e], new)
<1>0. Types /\ Tracked /\ Messages
  BY DEF Data
<1>1. /\ net'[e] = n[e] /\ WorkSent(e, buf, ack)
      /\ \A b \in Elems(buf) : \E c \in Elems(rtx'[e]) : c.m = b.m /\ c.f = b.f
  BY <1>0, SendWorkEffect, ZenonT(40)
<1>2. PICK sent :
         /\ Sends(e, next[e], sent)
         /\ \A r \in Elems(sent) :
               \/ r.kind = "ack" /\ \E a \in Elems(ack) : r.nums = a.nums
               \/ /\ r.kind = "hs" /\ r.nums = {}
                  /\ \E b \in Elems(buf) : r.m = b.m /\ r.f = b.f /\ r.ep = b.ep
  BY <1>1 DEF WorkSent
<1>3. \A r \in Elems(sent) : r.nums \subseteq seen[e] \cup new
  BY <1>2
<1>4. ASSUME NEW r \in Elems(sent), r.kind = "hs"
      PROVE  Proper(e, r.m, r.ep)'
  <2>1. PICK b \in Elems(buf) : r.m = b.m /\ r.ep = b.ep
    BY <1>2, <1>4
  <2>2. Proper(e, r.m, r.ep)
    BY <1>0, <2>1 DEF Messages
  <2> QED
    BY <1>0, <2>2, StaysProper
<1>5. \A x \in SentBy(e)' :
         (\E c \in Elems(rtx'[e]) : <<c.m, c.f>> = x) \/ Settled(Peer(e), x)
  <2> TAKE x \in SentBy(e)'
  <2>1. CASE \E b \in Elems(buf) : <<b.m, b.f>> = x
    <3>1. PICK b \in Elems(buf) : <<b.m, b.f>> = x
      BY <2>1
    <3>2. PICK c \in Elems(rtx'[e]) : c.m = b.m /\ c.f = b.f
      BY <1>1
    <3> QED
      BY <3>1, <3>2
  <2> QED
    BY <2>1
<1>6. Moves(e, next[e], sent, new)
  BY <1>1, <1>2, <1>3, <1>4, <1>5 DEF Moves
<1> QED
  BY <1>1, <1>6 DEF Moving

\* The step sends a new flight.
LEMMA FlightMoves ==
    ASSUME Data, NEW e \in End, NEW n \in [End -> Seq(Record)],
           n[Peer(e)] = net[Peer(e)], Elems(n[e]) \subseteq Recs(e), NEW nx \in [Epoch -> Nat],
           NEW buf \in Seq(Buffer), Elems(buf) \subseteq Bufs(e),
           NEW out \in Seq(Record), \A q \in Elems(out) : q.kind = "hs" /\ q.nums = {},
           SendFlight(e, n, nx, buf, out), NEW new, Receives(e, new),
           \A q \in Elems(out) : Proper(e, q.m, q.ep)',
           \A x \in SentBy(e)' : \/ \E b \in Elems(buf) : <<b.m, b.f>> = x
                                 \/ \E q \in Elems(out) : <<q.m, q.f>> = x
                                 \/ Settled(Peer(e), x)
    PROVE  net'[e] = n[e] /\ Moving(e, nx, new)
<1>0. Types /\ Tracked /\ Messages
  BY DEF Data
<1>1. /\ net'[e] = n[e]
      /\ \E sent :
            /\ Sends(e, nx, sent)
            /\ \A r \in Elems(sent) :
                  /\ r.kind = "hs" /\ r.nums = {}
                  /\ \E q \in Elems(out) : r.m = q.m /\ r.f = q.f /\ r.ep = q.ep
      /\ \A b \in Elems(buf) : \E c \in Elems(rtx'[e]) : c.m = b.m /\ c.f = b.f
      /\ \A q \in Elems(out) : \E c \in Elems(rtx'[e]) : c.m = q.m /\ c.f = q.f
      /\ seen' = [seen EXCEPT ![e] = {}]
  BY <1>0, SendFlightEffect
<1>2. PICK sent :
         /\ Sends(e, nx, sent)
         /\ \A r \in Elems(sent) :
               /\ r.kind = "hs" /\ r.nums = {}
               /\ \E q \in Elems(out) : r.m = q.m /\ r.f = q.f /\ r.ep = q.ep
  BY <1>1
<1>3. \A r \in Elems(sent) : r.nums \subseteq seen[e] \cup new
  BY <1>2
<1>4. \A r \in Elems(sent) : r.kind = "hs" => Proper(e, r.m, r.ep)'
  <2> TAKE r \in Elems(sent)
  <2>1. PICK q \in Elems(out) : r.m = q.m /\ r.ep = q.ep
    BY <1>2
  <2> QED
    BY <2>1
<1>5. \A x \in SentBy(e)' :
         (\E c \in Elems(rtx'[e]) : <<c.m, c.f>> = x) \/ Settled(Peer(e), x)
  <2> TAKE x \in SentBy(e)'
  <2>1. CASE \E b \in Elems(buf) : <<b.m, b.f>> = x
    <3>1. PICK b \in Elems(buf) : <<b.m, b.f>> = x
      BY <2>1
    <3>2. PICK c \in Elems(rtx'[e]) : c.m = b.m /\ c.f = b.f
      BY <1>1
    <3> QED
      BY <3>1, <3>2
  <2>2. CASE \E q \in Elems(out) : <<q.m, q.f>> = x
    <3>1. PICK q \in Elems(out) : <<q.m, q.f>> = x
      BY <2>2
    <3>2. PICK c \in Elems(rtx'[e]) : c.m = q.m /\ c.f = q.f
      BY <1>1
    <3> QED
      BY <3>1, <3>2
  <2> QED
    BY <2>1, <2>2
<1>6. Moves(e, nx, sent, new)
  BY <1>1, <1>2, <1>3, <1>4, <1>5 DEF Moves
<1> QED
  BY <1>1, <1>6 DEF Moving

\* A step that processes and stores nothing.
LEMMA Idle ==
    ASSUME Types, Messages, NEW e \in End, UNCHANGED <<expected, have, dropped>>,
           seen' \in [End -> SUBSET Number], seen'[Peer(e)] = seen[Peer(e)],
           seen'[e] \subseteq seen[e], NEW new, new \subseteq {Num(r) : r \in Recs(e)},
           \A b \in Bufs(Peer(e)) : new \cap Nums(b) # {} => Settled(e, <<b.m, b.f>>)
    PROVE  Receives(e, new) /\ SentBy(e)' = SentBy(e) /\ Stateful' = Stateful
<1>1. \A x : Settled(e, x)' <=> Settled(e, x)
  BY DEF Settled
<1>2. SentBy(e)' = SentBy(e) /\ Stateful' = Stateful
  BY DEF SentBy, Stateful
<1>3. Receives(e, new)
  BY <1>1 DEF Receives, Types, Messages
<1> QED
  BY <1>2, <1>3

\* The queues when the head of e's has been taken.
LEMMA RestElems ==
    ASSUME Types, NEW e \in End, net[e] # <<>>
    PROVE  /\ Rest(e) \in [End -> Seq(Record)] /\ Rest(e)[Peer(e)] = net[Peer(e)]
           /\ Rest(e)[e] = Tail(net[e]) /\ Elems(Rest(e)[e]) \subseteq Recs(e)
           /\ Head(net[e]) \in Record /\ Head(net[e]) \in Recs(e)
<1>1. net[e] \in Seq(Record) /\ net \in [End -> Seq(Record)] /\ Peer(e) # e
  BY Ends DEF Types
<1>2. /\ Tail(net[e]) \in Seq(Record) /\ Elems(Tail(net[e])) \subseteq Elems(net[e])
      /\ Head(net[e]) \in Record /\ Head(net[e]) \in Elems(net[e])
  BY <1>1, TailElems
<1>3. Rest(e) \in [End -> Seq(Record)] /\ Rest(e)[Peer(e)] = net[Peer(e)] /\ Rest(e)[e] = Tail(net[e])
  BY <1>1, <1>2, Ends DEF Rest
<1> QED
  BY <1>2, <1>3 DEF Recs

\* A step of either end.
LEMMA EndStep ==
    ASSUME Data, NEW e \in End, NEW new, Moving(e, next[e], new),
           \/ net'[e] = net[e]
           \/ net[e] # <<>> /\ net'[e] = Tail(net[e]),
           e = "server" => Stateful,
           e = "client" /\ ~Stateful => expected'["client"] <= 1 /\ have'["client"] = {} /\ ~unified'
    PROVE  Data'
<1>1. PICK sent : Moves(e, next[e], sent, new)
  BY DEF Moving
<1>2. CASE e = "client"
  BY <1>1, <1>2, ClientStep
<1>3. CASE e = "server"
  <2>1. Types /\ Ordered
    BY DEF Data
  <2>2. Ordered'
    BY <1>3, <2>1, OrderedTail
  <2> QED
    BY <1>1, <1>3, <2>2, ServerStep
<1> QED
  BY <1>2, <1>3, Ends


\* What a buffer lacks has arrived.
LEMMA KeptNow ==
    ASSUME AckedIsKept, NEW e \in End
    PROVE  \A x \in SentBy(e) :
              (\E b \in Elems(rtx[e]) : <<b.m, b.f>> = x) \/ Settled(Peer(e), x)
<1> TAKE x \in SentBy(e)
<1>1. CASE \E i \in DOMAIN rtx[e] : <<rtx[e][i].m, rtx[e][i].f>> = x
  BY <1>1, ElemsOf
<1> QED
  BY <1>1 DEF AckedIsKept

\* A step that processes and stores nothing: it answers with an ACK, perhaps,
\* and with the buffer or what is left of it.
LEMMA WorkStep ==
    ASSUME Data, NEW e \in End, e = "server" => Stateful,
           e = "client" /\ ~Stateful => ~unified',
           NEW n \in [End -> Seq(Record)], n[Peer(e)] = net[Peer(e)],
           n[e] = net[e] \/ (net[e] # <<>> /\ n[e] = Tail(net[e])),
           NEW buf \in Seq(Buffer), Elems(buf) \subseteq Bufs(e),
           NEW ack \in Seq(Record), \A i \in DOMAIN ack : ack[i].kind = "ack",
           Works(e, n, buf, ack), UNCHANGED <<expected, have, dropped>>,
           seen' \in [End -> SUBSET Number], seen'[Peer(e)] = seen[Peer(e)],
           seen'[e] \subseteq seen[e], NEW new, new \subseteq {Num(r) : r \in Recs(e)},
           \A b \in Bufs(Peer(e)) : new \cap Nums(b) # {} => Settled(e, <<b.m, b.f>>),
           \A a \in Elems(ack) : a.nums \subseteq seen[e] \cup new,
           \A x \in SentBy(e) : (\E b \in Elems(buf) : <<b.m, b.f>> = x) \/ Settled(Peer(e), x)
    PROVE  Data'
<1>1. Types /\ Messages /\ Stateless
  BY DEF Data
<1>2. Receives(e, new) /\ SentBy(e)' = SentBy(e)
  BY <1>1, Idle
<1>3. Elems(n[e]) \subseteq Recs(e)
  <2>1. net[e] \in Seq(Record)
    BY <1>1 DEF Types
  <2> QED
    BY <2>1, TailElems DEF Recs
<1>4. \A x \in SentBy(e)' : (\E b \in Elems(buf) : <<b.m, b.f>> = x) \/ Settled(Peer(e), x)
  BY <1>2
<1>5. net'[e] = n[e] /\ Moving(e, next[e], new)
  BY <1>2, <1>3, <1>4, WorkMoves
<1>6. e = "client" /\ ~Stateful =>
         expected'["client"] <= 1 /\ have'["client"] = {} /\ ~unified'
  BY <1>1 DEF Stateless
<1> QED
  BY <1>5, <1>6, EndStep

\* The epochs of ACKs.
LEMMA Epochs ==
    ASSUME NEW e \in End
    PROVE  CurEpoch(e) \in Epoch /\ AckEpoch(e) \in Epoch /\ 0 \in Epoch
<1>1. CurEpoch(e) \in Epoch
  BY DEF CurEpoch, Epoch
<1>2. AckEpoch(e) \in Epoch /\ 0 \in Epoch
  BY <1>1 DEF AckEpoch, Epoch
<1> QED
  BY <1>1, <1>2

\* A single ACK.
LEMMA OneAck ==
    ASSUME NEW ep \in Epoch, NEW nums \in SUBSET Number
    PROVE  /\ <<Ack(ep, nums)>> \in Seq(Record)
           /\ \A i \in DOMAIN <<Ack(ep, nums)>> : <<Ack(ep, nums)>>[i].kind = "ack"
           /\ \A a \in Elems(<<Ack(ep, nums)>>) : a.nums = nums
<1>1. Ack(ep, nums) \in Record /\ Ack(ep, nums).kind = "ack" /\ Ack(ep, nums).nums = nums
  BY DEF Ack, Record
<1>2. /\ DOMAIN <<Ack(ep, nums)>> = {1} /\ <<Ack(ep, nums)>>[1] = Ack(ep, nums)
  OBVIOUS
<1>3. <<Ack(ep, nums)>> \in Seq(Record)
  BY <1>1
<1> QED
  BY <1>1, <1>2, <1>3, ElemsOf

-----------------------------------------------------------------------------
(* The actions *)

\* A record the end has processed already: it is claimed again, which is right,
\* as its number stands for a fragment of a message that was processed.
LEMMA RetransmissionStep ==
    ASSUME Data, NEW e \in End, Retransmission(e)
    PROVE  Data'
<1> DEFINE r == Head(net[e])
           nums == seen[e] \cup {Num(r)}
           ack == <<Ack(CurEpoch(e), nums)>>
<1>1. /\ net[e] # <<>> /\ r.kind = "hs" /\ r.m < expected[e] /\ (e = "server" => Stateful)
      /\ SendWork(e, Rest(e), rtx[e], ack, TRUE)
      /\ seen' = [seen EXCEPT ![e] = {}]
      /\ UNCHANGED <<expected, have, dropped, unified>>
  BY DEF Retransmission, RecvHandshake, Accepts
<1>2. Types /\ Stateless /\ Agree /\ AckedIsKept
  BY DEF Data
<1>3. /\ Rest(e) \in [End -> Seq(Record)] /\ Rest(e)[Peer(e)] = net[Peer(e)]
      /\ Rest(e)[e] = Tail(net[e]) /\ r \in Record /\ r \in Recs(e)
  BY <1>1, <1>2, RestElems
<1>4. nums \in SUBSET Number /\ {Num(r)} \subseteq {Num(q) : q \in Recs(e)}
  BY <1>2, <1>3, Typed DEF Types
<1>5. ASSUME NEW b \in Bufs(Peer(e)), {Num(r)} \cap Nums(b) # {}
      PROVE  Settled(e, <<b.m, b.f>>)
  <2>1. r.m = b.m
    BY <1>1, <1>2, <1>3, <1>5, Ends DEF Agree
  <2> QED
    BY <1>1, <2>1 DEF Settled
<1>6. Works(e, Rest(e), rtx[e], ack)
  BY <1>1 DEF Works
<1>7. ack \in Seq(Record) /\ (\A i \in DOMAIN ack : ack[i].kind = "ack")
      /\ \A a \in Elems(ack) : a.nums \subseteq seen[e] \cup {Num(r)}
  BY <1>4, OneAck, Epochs
<1>8. /\ seen' \in [End -> SUBSET Number] /\ seen'[Peer(e)] = seen[Peer(e)]
      /\ seen'[e] \subseteq seen[e]
  BY <1>1, <1>2, Ends DEF Types
<1>9. rtx[e] \in Seq(Buffer) /\ Elems(rtx[e]) \subseteq Bufs(e)
  BY <1>2 DEF Types, Bufs
<1>10. e = "client" /\ ~Stateful => ~unified'
  BY <1>1, <1>2 DEF Stateless
<1>11. \A x \in SentBy(e) :
          (\E b \in Elems(rtx[e]) : <<b.m, b.f>> = x) \/ Settled(Peer(e), x)
  BY <1>2, KeptNow
<1> HIDE DEF r, ack, nums
<1> QED
  BY <1>1, <1>3, <1>4, <1>5, <1>6, <1>7, <1>8, <1>9, <1>10, <1>11, WorkStep


\* A step of the network, or one that takes nothing but a record from a queue.
LEMMA NetStep ==
    ASSUME Data, NEW e \in End, net' \in [End -> Seq(Record)], net'[Peer(e)] = net[Peer(e)],
           Elems(net'[e]) \subseteq Recs(e), Ordered',
           UNCHANGED <<rtx, next, seen, expected, have, dropped, unified>>
    PROVE  Data'
<1>1. /\ Types /\ Tracked /\ Messages /\ Stateless /\ Used /\ Agree /\ ClaimedIsKept
      /\ AckedIsKept
  BY DEF Data
<1>2. Receives(e, {}) /\ SentBy(e)' = SentBy(e) /\ Stateful' = Stateful
  <2>1. seen' \in [End -> SUBSET Number]
    BY <1>1 DEF Types
  <2>2. UNCHANGED <<expected, have, dropped>> /\ seen'[Peer(e)] = seen[Peer(e)] /\ seen'[e] \subseteq seen[e]
    OBVIOUS
  <2>3. {} \subseteq {Num(q) : q \in Recs(e)} /\ \A S : {} \cap S = {}
    OBVIOUS
  <2> QED
    BY <1>1, <2>1, <2>2, <2>3, Idle
<1>3. Sends(e, next[e], <<>>)
  <2>1. net[Peer(e)] \in Seq(Record) /\ net[Peer(e)] \o <<>> = net[Peer(e)]
    BY <1>1, Ends DEF Types
  <2>2. <<>> \in Seq(Record) /\ DOMAIN <<>> = {}
    OBVIOUS
  <2>3. \A ep \in Epoch : next[e][ep] \in Nat
    BY <1>1 DEF Types
  <2>4. \A c \in Elems(rtx'[e]) : c \in Bufs(e) /\ Len(c.sns) \in 1 .. DTLS13_RETRANS_RN_SIZE
    BY <1>1 DEF Bufs, Tracked
  <2>5. /\ next' \in [End -> [Epoch -> Nat]] /\ rtx' \in [End -> Seq(Buffer)]
        /\ next'[e] = next[e] /\ next'[Peer(e)] = next[Peer(e)] /\ rtx'[Peer(e)] = rtx[Peer(e)]
    BY <1>1 DEF Types
  <2>6. \A ep \in Epoch : next[e][ep] <= next'[e][ep]
    BY <2>3, <2>5
  <2>7. net'[Peer(e)] = net[Peer(e)] \o <<>>
    BY <2>1
  <2>8. \A c \in Elems(rtx'[e]) :
           /\ Len(c.sns) \in 1 .. DTLS13_RETRANS_RN_SIZE
           /\ \A x \in Nums(c) : \E b \in Bufs(e) : x \in Nums(b) /\ b.m = c.m /\ b.f = c.f
    BY <2>4
  <2> DEFINE none == <<>>
  <2>9. DOMAIN none = {} /\ none \in Seq(Record) /\ net'[Peer(e)] = net[Peer(e)] \o none
    BY <2>2, <2>7
  <2> HIDE DEF none
  <2>10. Sends(e, next[e], none)
    BY <2>5, <2>6, <2>8, <2>9 DEF Sends
  <2> QED
    BY <2>10 DEF none
<1>4. Moves(e, next[e], <<>>, {})
  <2>1. \A x \in SentBy(e)' :
           (\E c \in Elems(rtx'[e]) : <<c.m, c.f>> = x) \/ Settled(Peer(e), x)
    BY <1>1, <1>2, KeptNow
  <2> QED
    BY <1>2, <1>3, <2>1, ElemsOf DEF Moves
<1>5. CASE e = "client"
  <2>1. ~Stateful => expected'["client"] <= 1 /\ have'["client"] = {} /\ ~unified'
    BY <1>1 DEF Stateless
  <2> QED
    BY <1>4, <1>5, <2>1, ClientStep
<1>6. CASE e = "server" /\ Stateful
  BY <1>4, <1>6, ServerStep
<1>7. CASE e = "server" /\ ~Stateful
  <2>1. /\ next["server"] \in [Epoch -> Nat] /\ "server" \in End /\ Peer("server") = "client"
        /\ ~Stateful'
    BY <1>1, <1>2, <1>7, Ends DEF Types
  <2>2. Types' /\ Tracked' /\ Messages'
    BY <1>1, <1>4, <2>1, MovesMessages
  <2>3. Used' /\ Agree' /\ ClaimedIsKept'
    <3>1. \A b \in Bufs(e) : \A k \in Nums(b) : k[2] < next[e][k[1]]
      BY <1>1 DEF Used
    <3>2. Elems(<<>>) = {} /\ ~(Peer(e) = "server" \/ Stateful') /\ next[e] \in [Epoch -> Nat]
      BY <1>7, <2>1, ElemsOf
    <3> QED
      BY <1>1, <1>4, <3>1, <3>2, MovesNumbers
  <2>4. AckedIsKept'
    BY <1>1, <1>4, SentByType, MovesKept
  <2>5. Stateless'
    <3>1. Recs("client")' = Recs("client") /\ Recs("server")' \subseteq Recs("server")
      BY <1>7, Ends DEF Recs
    <3>2. Named("client")' \subseteq Named("client")
      BY <2>1, <3>1, Ends DEF Named, Claimed
    <3> QED
      BY <1>1, <1>7, <3>1, <3>2 DEF Stateless
  <2> QED
    BY <2>2, <2>3, <2>4, <2>5 DEF Data
<1> QED
  BY <1>5, <1>6, <1>7, Ends

\* A record that cannot be decrypted tells the client that a cookie was accepted.
LEMMA UnifiedStep ==
    ASSUME Data, UnifiedBeforeHello
    PROVE  Data'
<1> DEFINE e == "client"
           r == Head(net[e])
           ack == <<Ack(0, seen[e])>>
<1>1. /\ net[e] # <<>> /\ r.ep > 0
      /\ SendWork(e, Rest(e), rtx[e], ack, FALSE)
      /\ seen' = [seen EXCEPT ![e] = {}]
      /\ UNCHANGED <<expected, have, dropped>>
  BY DEF UnifiedBeforeHello, Undecryptable
<1>2. Types /\ Stateless /\ AckedIsKept /\ e \in End
  BY Ends DEF Data
<1>3. /\ Rest(e) \in [End -> Seq(Record)] /\ Rest(e)[Peer(e)] = net[Peer(e)]
      /\ Rest(e)[e] = Tail(net[e]) /\ r \in Record /\ r \in Recs(e)
  BY <1>1, <1>2, RestElems
<1>4. Stateful
  <2>1. Num(r) \in Named(e) /\ Num(r)[1] = r.ep
    BY <1>3 DEF Named, Num
  <2>2. r.ep # 0
    BY <1>1
  <2> QED
    BY <1>2, <2>1, <2>2 DEF Stateless
<1>5. seen[e] \in SUBSET Number
  BY <1>2 DEF Types
<1>6. Works(e, Rest(e), rtx[e], ack)
  BY <1>1 DEF Works
<1>7. ack \in Seq(Record) /\ (\A i \in DOMAIN ack : ack[i].kind = "ack")
      /\ \A a \in Elems(ack) : a.nums \subseteq seen[e] \cup {}
  BY <1>2, <1>5, OneAck, Epochs
<1>8. /\ seen' \in [End -> SUBSET Number] /\ seen'[Peer(e)] = seen[Peer(e)]
      /\ seen'[e] \subseteq seen[e]
  BY <1>1, <1>2, Ends DEF Types
<1>9. rtx[e] \in Seq(Buffer) /\ Elems(rtx[e]) \subseteq Bufs(e)
  BY <1>2 DEF Types, Bufs
<1>10. \A x \in SentBy(e) :
          (\E b \in Elems(rtx[e]) : <<b.m, b.f>> = x) \/ Settled(Peer(e), x)
  BY <1>2, KeptNow
<1>11. e # "server" /\ {} \subseteq {Num(q) : q \in Recs(e)} /\ \A S : {} \cap S = {}
  OBVIOUS
<1> HIDE DEF r, ack, e
<1> QED
  BY <1>1, <1>2, <1>3, <1>4, <1>6, <1>7, <1>8, <1>9, <1>10, <1>11, WorkStep

\* A time-out: the ACK claims what is in seenRecords, and the buffer is sent again.
LEMMA TimeoutStep ==
    ASSUME Data, NEW e \in End, Dtls13RtxTimeout(e)
    PROVE  Data'
<1> DEFINE ackIt == seen[e] # {} /\ (HelloComplete(e) \/ (e = "client" /\ unified))
           long == ackIt \/ ~fast[e]
           ack == IF ackIt THEN <<Ack(AckEpoch(e), seen[e])>> ELSE <<>>
<1>1. /\ SendWork(e, net, rtx[e], ack, long)
      /\ seen' = [seen EXCEPT ![e] = IF ackIt THEN {} ELSE @]
      /\ UNCHANGED <<expected, have, dropped, unified>>
  BY DEF Dtls13RtxTimeout
<1>2. Types /\ Stateless /\ Ordered /\ AckedIsKept
  BY DEF Data
<1>3. /\ net \in [End -> Seq(Record)] /\ seen[e] \in SUBSET Number
      /\ rtx[e] \in Seq(Buffer) /\ Elems(rtx[e]) \subseteq Bufs(e)
  BY <1>2 DEF Types, Bufs
<1>4. /\ seen' \in [End -> SUBSET Number] /\ seen'[Peer(e)] = seen[Peer(e)]
      /\ seen'[e] \subseteq seen[e]
  BY <1>1, <1>2, Ends DEF Types
<1>5. CASE e = "server" => Stateful
  <2>1. Works(e, net, rtx[e], ack)
    <3>1. long \in BOOLEAN
      OBVIOUS
    <3> HIDE DEF long, ack
    <3> QED
      BY <1>1, <3>1 DEF Works
  <2>2. ack \in Seq(Record) /\ (\A i \in DOMAIN ack : ack[i].kind = "ack")
        /\ \A a \in Elems(ack) : a.nums \subseteq seen[e] \cup {}
    <3>1. CASE ackIt
      <4>1. ack = <<Ack(AckEpoch(e), seen[e])>>
        BY <3>1
      <4> HIDE DEF ack
      <4> QED
        BY <1>3, <4>1, OneAck, Epochs
    <3>2. CASE ~ackIt
      <4>1. ack = <<>>
        BY <3>2
      <4>2. <<>> \in Seq(Record) /\ DOMAIN <<>> = {}
        OBVIOUS
      <4> HIDE DEF ack
      <4> QED
        BY <4>1, <4>2, ElemsOf
    <3> QED
      BY <3>1, <3>2
  <2>3. e = "client" /\ ~Stateful => ~unified'
    BY <1>1, <1>2 DEF Stateless
  <2>4. \A x \in SentBy(e) :
           (\E b \in Elems(rtx[e]) : <<b.m, b.f>> = x) \/ Settled(Peer(e), x)
    BY <1>2, KeptNow
  <2>5. {} \subseteq {Num(q) : q \in Recs(e)} /\ \A S : {} \cap S = {}
    OBVIOUS
  <2>6. UNCHANGED <<expected, have, dropped>>
    BY <1>1
  <2> HIDE DEF ack
  <2> QED
    BY <1>3, <1>4, <1>5, <2>1, <2>2, <2>3, <2>4, <2>5, <2>6, WorkStep
<1>6. CASE e = "server" /\ ~Stateful
  <2>1. rtx[e] = <<>> /\ ~ackIt
    BY <1>2, <1>6, Ends DEF Stateless, HelloComplete, Stateful
  <2>2. ack = <<>> /\ seen' = seen
    BY <1>1, <1>2, <2>1 DEF Types
  <2>3. /\ net' = [net EXCEPT ![Peer(e)] = @ \o Numbered(next[e], <<>>)]
        /\ next' = [next EXCEPT ![e] = After(@, <<>>)]
        /\ rtx' = [rtx EXCEPT ![e] = <<>>]
    <3>1. [i \in DOMAIN <<>> |-> Hs(<<>>[i].ep, <<>>[i].m, <<>>[i].f)] = <<>>
      OBVIOUS
    <3>2. <<>> \o <<>> = <<>>
      OBVIOUS
    <3> HIDE DEF ack, long
    <3> QED
      BY <1>1, <2>1, <2>2, <3>1, <3>2 DEF SendWork
  <2>4. Numbered(next[e], <<>>) = <<>> /\ After(next[e], <<>>) = next[e]
    <3>1. \A ep \in Epoch : InEpoch(<<>>, Len(<<>>), ep) = 0
      <4>1. 1 .. Len(<<>>) = {}
        OBVIOUS
      <4>2. \A ep : {i \in 1 .. Len(<<>>) : <<>>[i].ep = ep} = {}
        BY <4>1
      <4> QED
        BY <4>2, FS_EmptySet DEF InEpoch
    <3>2. next[e] \in [Epoch -> Nat]
      BY <1>2 DEF Types
    <3>3. After(next[e], <<>>) = next[e]
      BY <3>1, <3>2 DEF After
    <3>4. Numbered(next[e], <<>>) = <<>>
      BY DEF Numbered
    <3> QED
      BY <3>3, <3>4
  <2>5. net[Peer(e)] \o <<>> = net[Peer(e)]
    BY <1>2, Ends DEF Types
  <2>6. UNCHANGED <<net, next, rtx>>
    <3>1. /\ net \in [End -> Seq(Record)] /\ next \in [End -> [Epoch -> Nat]]
          /\ rtx \in [End -> Seq(Buffer)]
      BY <1>2 DEF Types
    <3>2. /\ net' = [net EXCEPT ![Peer(e)] = net[Peer(e)]] /\ next' = [next EXCEPT ![e] = next[e]]
          /\ rtx' = [rtx EXCEPT ![e] = rtx[e]]
      BY <2>1, <2>3, <2>4, <2>5
    <3>3. net' = net
      BY <3>1, <3>2
    <3>4. next' = next
      BY <3>1, <3>2
    <3>5. rtx' = rtx
      BY <3>1, <3>2
    <3> QED
      BY <3>3, <3>4, <3>5
  <2>7. Ordered'
    BY <1>2, <2>6 DEF Ordered
  <2>8. net' \in [End -> Seq(Record)] /\ net'[Peer(e)] = net[Peer(e)] /\ Elems(net'[e]) \subseteq Recs(e)
    BY <1>3, <2>6 DEF Recs
  <2> QED
    BY <1>1, <2>2, <2>6, <2>7, <2>8, NetStep
<1> QED
  BY <1>5, <1>6


\* An ACK: what it names leaves the buffer, and its sender keeps that.
LEMMA AckStep ==
    ASSUME Data, NEW e \in End, DoDtls13Ack(e)
    PROVE  Data'
<1> DEFINE r == Head(net[e])
           unacked == {i \in DOMAIN rtx[e] : ~TrackedBy(rtx[e][i], r.nums)}
           left == Pick(rtx[e], unacked)
           ack == <<>>
<1>1. /\ net[e] # <<>> /\ (e = "server" => Stateful)
      /\ SendWork(e, Rest(e), left, ack, left # <<>>)
      /\ UNCHANGED <<seen, expected, have, dropped, unified>>
  BY DEF DoDtls13Ack, Accepts
<1>2. Types /\ Stateless /\ ClaimedIsKept /\ AckedIsKept
  BY DEF Data
<1>3. /\ Rest(e) \in [End -> Seq(Record)] /\ Rest(e)[Peer(e)] = net[Peer(e)]
      /\ Rest(e)[e] = Tail(net[e]) /\ r \in Record /\ r \in Recs(e)
  BY <1>1, <1>2, RestElems
<1>4. rtx[e] \in Seq(Buffer) /\ unacked \subseteq DOMAIN rtx[e]
  BY <1>2 DEF Types
<1>5. /\ left \in Seq(Buffer)
      /\ \A k \in DOMAIN left : \E i \in unacked : left[k] = rtx[e][i]
      /\ \A i \in unacked : \E k \in DOMAIN left : left[k] = rtx[e][i]
  <2>1. Selects(rtx[e], unacked, left)
    <3> HIDE DEF unacked
    <3> QED
      BY <1>4, Picked
  <2> HIDE DEF unacked, left
  <2> QED
    BY <2>1 DEF Selects
<1>6. Works(e, Rest(e), left, ack)
  <2>1. (left # <<>>) \in BOOLEAN
    OBVIOUS
  <2> HIDE DEF left, ack
  <2> QED
    BY <1>1, <2>1 DEF Works
<1>7. Elems(left) \subseteq Bufs(e)
  <2> HIDE DEF left
  <2> SUFFICES ASSUME NEW b \in Elems(left) PROVE b \in Bufs(e)
    OBVIOUS
  <2>1. PICK k \in DOMAIN left : b = left[k]
    BY ElemsOf
  <2>2. PICK i \in unacked : left[k] = rtx[e][i]
    BY <1>5
  <2> QED
    BY <1>4, <2>1, <2>2, ElemsOf DEF Bufs
<1>8. ASSUME NEW x \in SentBy(e)
      PROVE  (\E b \in Elems(left) : <<b.m, b.f>> = x) \/ Settled(Peer(e), x)
  <2>1. CASE \E i \in DOMAIN rtx[e] : <<rtx[e][i].m, rtx[e][i].f>> = x
    <3>1. PICK i \in DOMAIN rtx[e] : <<rtx[e][i].m, rtx[e][i].f>> = x
      BY <2>1
    <3>2. CASE i \in unacked
      <4>1. PICK k \in DOMAIN left : left[k] = rtx[e][i]
        BY <1>5, <3>2
      <4> HIDE DEF left
      <4> QED
        BY <3>1, <4>1, ElemsOf
    <3>3. CASE i \notin unacked
      <4>1. TrackedBy(rtx[e][i], r.nums)
        BY <3>3
      <4>2. r.nums \cap Nums(rtx[e][i]) # {}
        BY <4>1 DEF TrackedBy, Nums
      <4>3. r.nums \subseteq Claimed(Peer(e))
        BY <1>3, Ends DEF Claimed
      <4>4. rtx[e][i] \in Bufs(e)
        BY ElemsOf DEF Bufs
      <4>5. Settled(Peer(e), <<rtx[e][i].m, rtx[e][i].f>>)
        BY <1>2, <4>2, <4>3, <4>4 DEF ClaimedIsKept
      <4> QED
        BY <3>1, <4>5
    <3> QED
      BY <3>2, <3>3
  <2> QED
    BY <1>2, <2>1 DEF AckedIsKept
<1>9. /\ ack \in Seq(Record) /\ (\A i \in DOMAIN ack : ack[i].kind = "ack")
      /\ \A a \in Elems(ack) : a.nums \subseteq seen[e] \cup {}
  BY ElemsOf
<1>10. /\ seen' \in [End -> SUBSET Number] /\ seen'[Peer(e)] = seen[Peer(e)]
       /\ seen'[e] \subseteq seen[e] /\ UNCHANGED <<expected, have, dropped>>
  BY <1>1, <1>2 DEF Types
<1>11. e = "client" /\ ~Stateful => ~unified'
  BY <1>1, <1>2 DEF Stateless
<1>12. {} \subseteq {Num(q) : q \in Recs(e)} /\ \A S : {} \cap S = {}
  OBVIOUS
<1>13. left \in Seq(Buffer)
  BY <1>5
<1> HIDE DEF r, left, ack
<1> QED
  BY <1>1, <1>3, <1>13, <1>6, <1>7, <1>8, <1>9, <1>10, <1>11, <1>12, WorkStep

\* The records of q are some of those travelling to e, in an order that leaves
\* the ClientHellos in theirs.
Drawn(e, q) ==
    /\ q \in Seq(Record)
    /\ \E at \in [DOMAIN q -> DOMAIN net[e]] :
          /\ \A i \in DOMAIN q : q[i] = net[e][at[i]]
          /\ e = "server" => \A i, j \in DOMAIN q :
                i < j /\ q[i].ep = 0 /\ q[j].ep = 0 => at[i] <= at[j]

\* The network may do that.
LEMMA QueueStep ==
    ASSUME Data, NEW e \in End, NEW q, Drawn(e, q), net' = [net EXCEPT ![e] = q],
           UNCHANGED <<rtx, next, seen, expected, have, dropped, unified>>
    PROVE  Data'
<1>0. PICK at \in [DOMAIN q -> DOMAIN net[e]] :
         /\ \A i \in DOMAIN q : q[i] = net[e][at[i]]
         /\ e = "server" => \A i, j \in DOMAIN q :
               i < j /\ q[i].ep = 0 /\ q[j].ep = 0 => at[i] <= at[j]
  BY DEF Drawn
<1>1. Types /\ Ordered
  BY DEF Data
<1>2. net' \in [End -> Seq(Record)] /\ net'[Peer(e)] = net[Peer(e)] /\ net'[e] = q
  BY <1>1, Ends DEF Types, Drawn
<1>3. Elems(net'[e]) \subseteq Recs(e)
  <2>1. \A i \in DOMAIN q : q[i] \in Recs(e)
    BY <1>0, ElemsOf DEF Recs
  <2> QED
    BY <1>2, <2>1 DEF Elems
<1>4. Ordered'
  <2>1. CASE e = "client"
    BY <1>1, <1>2, <2>1, Ends DEF Ordered
  <2>2. CASE e = "server"
    <3>1. ASSUME NEW i \in DOMAIN q, NEW j \in DOMAIN q, i < j, q[i].ep = 0, q[j].ep = 0
          PROVE  q[i].seq < q[j].seq \/ q[i] = q[j]
      <4>1. at[i] \in DOMAIN net[e] /\ at[j] \in DOMAIN net[e] /\ at[i] <= at[j]
        BY <1>0, <2>2, <3>1
      <4>2. at[i] \in Nat /\ at[j] \in Nat
        BY <1>1, <4>1 DEF Types
      <4>3. CASE at[i] = at[j]
        BY <1>0, <4>3
      <4>4. CASE at[i] < at[j]
        BY <1>0, <1>1, <2>2, <3>1, <4>1, <4>4 DEF Ordered
      <4> QED
        BY <4>1, <4>2, <4>3, <4>4
    <3> QED
      BY <1>2, <2>2, <3>1 DEF Ordered
  <2> QED
    BY <2>1, <2>2, Ends
<1> QED
  BY <1>2, <1>3, <1>4, NetStep

\* Records lost, or refused.
LEMMA TailStep ==
    ASSUME Data, NEW e \in End, net[e] # <<>>, net' = [net EXCEPT ![e] = Tail(net[e])],
           UNCHANGED <<rtx, next, seen, expected, have, dropped, unified>>
    PROVE  Data'
<1> DEFINE q == Tail(net[e])
           at == [i \in DOMAIN q |-> i + 1]
<1>1. net[e] \in Seq(Record)
  BY DEF Data, Types
<1>2. /\ q \in Seq(Record)
      /\ \A i \in DOMAIN q : i \in Nat /\ i + 1 \in DOMAIN net[e] /\ q[i] = net[e][i + 1]
  BY <1>1
<1>3. at \in [DOMAIN q -> DOMAIN net[e]] /\ \A i \in DOMAIN q : at[i] = i + 1
  BY <1>2
<1>4. e = "server" =>
         \A i, j \in DOMAIN q : i < j /\ q[i].ep = 0 /\ q[j].ep = 0 => at[i] <= at[j]
  BY <1>2, <1>3
<1>5. net' = [net EXCEPT ![e] = q]
  OBVIOUS
<1> HIDE DEF q, at
<1>6. \A i \in DOMAIN q : q[i] = net[e][at[i]]
  BY <1>2, <1>3
<1>7. q \in Seq(Record) /\ at \in [DOMAIN q -> DOMAIN net[e]]
  BY <1>2, <1>3
<1>8. Drawn(e, q)
  BY <1>4, <1>6, <1>7 DEF Drawn
<1> QED
  BY <1>5, <1>8, QueueStep

\* A record that arrives twice.
LEMMA DuplicateStep ==
    ASSUME Data, NEW e \in End, net[e] # <<>>, net' = [net EXCEPT ![e] = <<Head(net[e])>> \o net[e]],
           UNCHANGED <<rtx, next, seen, expected, have, dropped, unified>>
    PROVE  Data'
<1> DEFINE q == <<Head(net[e])>> \o net[e]
           at == [i \in DOMAIN q |-> IF i = 1 THEN 1 ELSE i - 1]
<1>1. net[e] \in Seq(Record) /\ Len(net[e]) \in Nat \ {0}
  BY DEF Data, Types
<1>2. /\ q \in Seq(Record) /\ DOMAIN q = 1 .. Len(net[e]) + 1
      /\ \A i \in DOMAIN q : /\ i \in Nat \ {0} /\ (IF i = 1 THEN 1 ELSE i - 1) \in DOMAIN net[e]
                             /\ q[i] = net[e][IF i = 1 THEN 1 ELSE i - 1]
  BY <1>1
<1>3. /\ at \in [DOMAIN q -> DOMAIN net[e]]
      /\ \A i \in DOMAIN q : at[i] = IF i = 1 THEN 1 ELSE i - 1
  BY <1>2
<1>4. e = "server" =>
         \A i, j \in DOMAIN q : i < j /\ q[i].ep = 0 /\ q[j].ep = 0 => at[i] <= at[j]
  BY <1>2, <1>3
<1>5. net' = [net EXCEPT ![e] = q]
  OBVIOUS
<1> HIDE DEF q, at
<1>6. \A i \in DOMAIN q : q[i] = net[e][at[i]]
  BY <1>2, <1>3
<1>7. q \in Seq(Record) /\ at \in [DOMAIN q -> DOMAIN net[e]]
  BY <1>2, <1>3
<1>8. Drawn(e, q)
  BY <1>4, <1>6, <1>7 DEF Drawn
<1> QED
  BY <1>5, <1>8, QueueStep

\* A record that is overtaken by the next, and that is no ClientHello.
LEMMA OvertakeStep ==
    ASSUME Data, NEW e \in End, Len(net[e]) >= 2, e = "server" => net[e][1].ep > 0,
           net' = [net EXCEPT ![e] = <<net[e][2], net[e][1]>> \o SubSeq(net[e], 3, Len(net[e]))],
           UNCHANGED <<rtx, next, seen, expected, have, dropped, unified>>
    PROVE  Data'
<1> DEFINE s == net[e]
           q == <<s[2], s[1]>> \o SubSeq(s, 3, Len(s))
           at == [i \in DOMAIN q |-> IF i = 1 THEN 2 ELSE IF i = 2 THEN 1 ELSE i]
<1>1. s \in Seq(Record) /\ Len(s) \in Nat /\ Len(s) >= 2
  BY DEF Data, Types
<1>2. q \in Seq(Record) /\ DOMAIN q = 1 .. Len(s) /\ DOMAIN s = 1 .. Len(s)
  BY <1>1
<1>3. q[1] = s[2] /\ q[2] = s[1] /\ \A i \in DOMAIN q : i > 2 => q[i] = s[i]
  BY <1>1
<1>4. /\ at \in [DOMAIN q -> DOMAIN s]
      /\ at[1] = 2 /\ at[2] = 1 /\ \A i \in DOMAIN q : i > 2 => at[i] = i
  BY <1>1, <1>2
<1>5. net' = [net EXCEPT ![e] = q]
  OBVIOUS
<1>6. e = "server" => q[2].ep # 0
  BY <1>3
<1> HIDE DEF q, at
<1>7. \A i \in DOMAIN q : i = 1 \/ i = 2 \/ i > 2
  BY <1>1, <1>2
<1>8. \A i \in DOMAIN q : q[i] = s[at[i]]
  BY <1>3, <1>4, <1>7
<1>9. ASSUME NEW i \in DOMAIN q, NEW j \in DOMAIN q, i < j, i # 2, j # 2
      PROVE  at[i] <= at[j]
  <2>1. i \in Nat /\ j \in Nat /\ i >= 1 /\ j > 2
    BY <1>2, <1>7, <1>9
  <2>2. at[j] = j /\ (at[i] = i \/ at[i] = 2)
    BY <1>4, <1>7, <1>9, <2>1
  <2> QED
    BY <1>9, <2>1, <2>2
<1>10. e = "server" => \A i, j \in DOMAIN q : i < j /\ q[i].ep = 0 /\ q[j].ep = 0 => at[i] <= at[j]
  BY <1>6, <1>9
<1>11. Drawn(e, q)
  BY <1>2, <1>4, <1>8, <1>10 DEF Drawn
<1> QED
  BY <1>5, <1>11, QueueStep

\* A step that changes none of this.
LEMMA FrameStep ==
    ASSUME Data, UNCHANGED <<net, rtx, next, seen, expected, have, dropped, unified>>
    PROVE  Data'
<1>1. /\ "client" \in End /\ net' \in [End -> Seq(Record)]
      /\ net'[Peer("client")] = net[Peer("client")] /\ Elems(net'["client"]) \subseteq Recs("client")
      /\ Ordered'
  BY Ends DEF Data, Types, Recs, Ordered
<1>2. UNCHANGED <<rtx, next, seen, expected, have, dropped, unified>>
  OBVIOUS
<1> QED
  BY <1>1, <1>2, NetStep


\* What a server that has not accepted a cookie answers is a ClientHello.
LEMMA Hello ==
    ASSUME Data, Accepts("server"), ~Stateful
    PROVE  /\ net["server"] # <<>> /\ Head(net["server"]).kind = "hs" /\ Head(net["server"]).ep = 0
           /\ Head(net["server"]) \in Record /\ Head(net["server"]) \in Recs("server")
<1> DEFINE r == Head(net["server"])
<1>1. Types /\ "server" \in End /\ net["server"] # <<>>
  BY Ends DEF Data, Accepts
<1>2. r \in Record /\ r \in Recs("server")
  BY <1>1, RestElems
<1>3. r.kind = "hs"
  BY <1>2 DEF Accepts, Refused, Record
<1>4. r.ep = 0
  <2>1. CurEpoch("server") = 0
    BY DEF CurEpoch, HelloComplete, Stateful
  <2>2. r.ep \in Nat /\ ~(r.ep > 0)
    BY <1>2, <2>1 DEF Accepts, Undecryptable, Record, Epoch
  <2> QED
    BY <2>2
<1> QED
  BY <1>1, <1>2, <1>3, <1>4

\* HelloRetryRequest takes the number of the ClientHello, which is smaller than
\* that of every second ClientHello behind it.
LEMMA RetryStep ==
    ASSUME Data, HelloRetryRequest
    PROVE  Data'
<1> DEFINE r == Head(net["server"])
           h == [Hs(0, 0, 1) EXCEPT !.seq = r.seq]
<1>0. /\ Types /\ Tracked /\ Messages /\ Stateless /\ Ordered /\ Used /\ Agree
      /\ ClaimedIsKept /\ AckedIsKept
  BY DEF Data
<1>1. /\ Accepts("server") /\ ~Stateful /\ r.m = 0
      /\ net' = [Rest("server") EXCEPT !["client"] = Append(@, h)]
      /\ UNCHANGED <<rtx, next, seen, expected, have, dropped, unified>>
  BY DEF HelloRetryRequest, received
<1>2. /\ net["server"] # <<>> /\ r.kind = "hs" /\ r.ep = 0 /\ r \in Record
      /\ r \in Recs("server") /\ r.seq \in Nat
  BY <1>1, Hello DEF Record
<1>3. /\ h \in Record /\ h.kind = "hs" /\ h.m = 0 /\ h.f = 1 /\ h.ep = 0 /\ h.nums = {}
      /\ h.seq = r.seq
  BY <1>2 DEF Hs, Record, Epoch
<1>4. /\ Rest("server") \in [End -> Seq(Record)] /\ Rest("server")["client"] = net["client"]
      /\ Rest("server")["server"] = Tail(net["server"])
      /\ Elems(Rest("server")["server"]) \subseteq Recs("server")
  <2>1. /\ Rest("server") \in [End -> Seq(Record)]
        /\ Rest("server")[Peer("server")] = net[Peer("server")]
        /\ Rest("server")["server"] = Tail(net["server"])
        /\ Elems(Rest("server")["server"]) \subseteq Recs("server")
    BY <1>0, <1>2, Ends, RestElems
  <2> QED
    BY <2>1, Ends
<1>5. net["client"] \in Seq(Record) /\ net["server"] \in Seq(Record)
  BY <1>0, Ends DEF Types
<1> HIDE DEF r, h
<1>6. Append(net["client"], h) \in Seq(Record) /\ Elems(Append(net["client"], h)) = Recs("client") \cup {h}
  <2> DEFINE one == <<h>>
  <2>1. Append(net["client"], h) = net["client"] \o one /\ one \in Seq(Record)
    BY <1>3, <1>5
  <2>2. DOMAIN one = {1} /\ one[1] = h
    OBVIOUS
  <2> HIDE DEF one
  <2>3. Elems(one) = {h}
    BY <2>2 DEF Elems
  <2>4. /\ net["client"] \o one \in Seq(Record)
        /\ Elems(net["client"] \o one) = Elems(net["client"]) \cup Elems(one)
    BY <1>5, <2>1, CatElems
  <2> QED
    BY <2>1, <2>3, <2>4 DEF Recs
<1>7. /\ net' \in [End -> Seq(Record)] /\ net'["client"] = Append(net["client"], h)
      /\ net'["server"] = Tail(net["server"])
  BY <1>1, <1>4, <1>6, Ends
<1>8. Recs("client")' = Recs("client") \cup {h} /\ Recs("server")' \subseteq Recs("server")
  BY <1>4, <1>6, <1>7 DEF Recs
<1>9. \A e \in End : Bufs(e)' = Bufs(e) /\ seen'[e] = seen[e]
  BY <1>1 DEF Bufs
<1>10. /\ Claimed("client")' \subseteq Claimed("client")
       /\ Claimed("server")' \subseteq Claimed("server")
  BY <1>1, <1>3, <1>8, Ends DEF Claimed
<1>11. /\ Named("client")' \subseteq Named("client") \cup {<<0, r.seq>>}
       /\ Named("server")' \subseteq Named("server")
  BY <1>3, <1>8, <1>10 DEF Named, Num
<1>12. ~Stateful' /\ Bufs("server") = {}
  BY <1>0, <1>1, ElemsOf DEF Stateful, Stateless, Bufs
<1>13. \A e \in End : \A x : Settled(e, x)' <=> Settled(e, x)
  BY <1>1 DEF Settled
<1>14. Types' /\ Tracked'
  BY <1>0, <1>1, <1>7, <1>9 DEF Types, Tracked
<1>15. \A e \in End : \A m, ep : Proper(e, m, ep)' <=> Proper(e, m, ep)
  BY <1>1 DEF Proper
<1>16. Messages'
  <2>1. Proper("server", h.m, h.ep)
    BY <1>3, FlightsAssumption DEF Proper
  <2>2. \A q \in Recs("client")' : q.kind = "hs" => Proper("server", q.m, q.ep)'
    BY <1>0, <1>8, <1>15, <2>1, Ends DEF Messages
  <2>3. \A q \in Recs("server")' : q.kind = "hs" => Proper("client", q.m, q.ep)'
    BY <1>0, <1>8, <1>15, Ends DEF Messages
  <2>4. \A e \in End : \A q \in Recs(Peer(e))' : q.kind = "hs" => Proper(e, q.m, q.ep)'
    BY <2>2, <2>3, Ends
  <2>5. \A e \in End : \A b \in Bufs(e)' : Proper(e, b.m, b.ep)'
    BY <1>0, <1>9, <1>15 DEF Messages
  <2> QED
    BY <1>0, <1>1, <1>12, <2>4, <2>5 DEF Messages
<1>17. Used'
  <2>1. \A e \in End : \A b \in Bufs(e)' : \A k \in Nums(b) : k[2] < next'[e][k[1]]
    BY <1>0, <1>1, <1>9 DEF Used
  <2>2. \A e \in End : e = "server" \/ Stateful' =>
           \A k \in Named(e)' : k[2] < next'[Peer(e)][k[1]]
    BY <1>0, <1>1, <1>11, <1>12 DEF Used
  <2> QED
    BY <2>1, <2>2 DEF Used
<1>18. Agree' /\ ClaimedIsKept'
  <2>1. \A e \in End : \A b \in Bufs(e) : e = "client"
    BY <1>12, Ends
  <2>2. Agree'
    BY <1>0, <1>8, <1>9, <2>1, Ends DEF Agree
  <2>3. ClaimedIsKept'
    BY <1>0, <1>9, <1>10, <1>13, <2>1, Ends DEF ClaimedIsKept
  <2> QED
    BY <2>2, <2>3
<1>19. AckedIsKept'
  <2>1. \A e \in End : SentBy(e)' = SentBy(e)
    BY <1>1 DEF SentBy, Stateful
  <2> QED
    BY <1>0, <1>1, <1>13, <2>1, Ends DEF AckedIsKept
<1>20. Ordered'
  BY <1>0, <1>2, <1>7, OrderedTail
<1>21. ASSUME NEW q \in Recs("server")', q.kind = "hs", q.m = 1
       PROVE  r.seq < q.seq
  <2>1. PICK i \in DOMAIN Tail(net["server"]) : q = Tail(net["server"])[i]
    BY <1>7, ElemsOf DEF Recs
  <2>2. /\ i + 1 \in DOMAIN net["server"] /\ q = net["server"][i + 1] /\ 1 < i + 1
        /\ 1 \in DOMAIN net["server"]
    BY <1>2, <1>5, <2>1
  <2>3. r = net["server"][1]
    BY <1>2, <1>5 DEF r
  <2>4. q.ep = 0
    <3>1. q \in Recs(Peer("client")) /\ "client" \in End
      BY <1>8, Ends
    <3>2. Proper("client", q.m, q.ep)
      BY <1>0, <1>21, <3>1 DEF Messages
    <3> QED
      BY <1>21, <3>2 DEF Proper
  <2>5. r.seq < q.seq \/ r = q
    BY <1>0, <1>2, <2>2, <2>3, <2>4 DEF Ordered
  <2> QED
    BY <1>1, <1>21, <2>5
<1>22. r.seq < next["client"][0]
  <2>1. Num(r) \in Named("server") /\ Num(r)[1] = 0 /\ Num(r)[2] = r.seq
    BY <1>2 DEF Named, Num
  <2>2. "server" \in End /\ Peer("server") = "client"
    BY Ends
  <2> QED
    BY <1>0, <2>1, <2>2 DEF Used
<1>23. Stateless'
  <2>1. \A q \in Recs("client")' : q.kind = "hs" /\ q.m = 0 /\ q.f = 1
    BY <1>0, <1>1, <1>3, <1>8 DEF Stateless
  <2>2. ASSUME NEW k \in Named("client")'
        PROVE  /\ k[1] = 0 /\ k[2] < next'["client"][0]
               /\ \A q \in Recs("server")' : q.kind = "hs" /\ q.m = 1 => k[2] < q.seq
    <3>1. CASE k \in Named("client")
      BY <1>0, <1>1, <1>8, <3>1 DEF Stateless
    <3>2. CASE k = <<0, r.seq>>
      BY <1>1, <1>21, <1>22, <3>2
    <3> QED
      BY <1>11, <3>1, <3>2
  <2> QED
    BY <1>0, <1>1, <2>1, <2>2 DEF Stateless
<1> QED
  BY <1>14, <1>16, <1>17, <1>18, <1>19, <1>20, <1>23 DEF Data

\* The cookie is accepted: the flight starts at the number of the second
\* ClientHello, which is larger than any the client may know of.
LEMMA CookieStep ==
    ASSUME Data, CookieGood
    PROVE  Data'
<1> DEFINE r == Head(net["server"])
           nx == [next["server"] EXCEPT ![0] = r.seq]
           e == "server"
<1>0. /\ Types /\ Tracked /\ Messages /\ Stateless /\ Ordered /\ Used /\ Agree
      /\ ClaimedIsKept /\ AckedIsKept
  BY DEF Data
<1>1. /\ Accepts("server") /\ ~Stateful /\ r.m = 1
      /\ expected' = [expected EXCEPT !["server"] = 2]
      /\ SendFlight("server", Rest("server"), nx, <<>>, ServerFlight)
      /\ UNCHANGED <<have, dropped, unified>>
  BY DEF CookieGood
<1>2. /\ net["server"] # <<>> /\ r.kind = "hs" /\ r.ep = 0 /\ r \in Record
      /\ r \in Recs("server") /\ r.seq \in Nat
  BY <1>1, Hello DEF Record
<1>3. e \in End /\ Peer(e) = "client" /\ Peer("client") = e
  BY Ends
<1>4. nx \in [Epoch -> Nat] /\ nx[0] = r.seq /\ 0 \in Epoch
  BY <1>0, <1>2, <1>3 DEF Types, Epoch
<1>5. expected["client"] >= 1 /\ expected'["client"] = expected["client"]
  <2>1. Proper("client", r.m, r.ep)
    BY <1>0, <1>2, Ends DEF Messages
  <2> QED
    BY <1>0, <1>1, <2>1, Ends DEF Proper, Types
<1> HIDE DEF nx, r
<1>6. /\ Rest(e) \in [End -> Seq(Record)] /\ Rest(e)[Peer(e)] = net[Peer(e)]
      /\ Rest(e)[e] = Tail(net[e]) /\ Elems(Rest(e)[e]) \subseteq Recs(e)
  BY <1>0, <1>2, <1>3, RestElems
<1>7. seen' = [seen EXCEPT ![e] = {}]
  BY <1>1 DEF SendFlight
<1>8. Receives(e, {}) /\ Stateful'
  <2>1. /\ expected' \in [End -> Nat] /\ expected'["server"] = 2 /\ expected["server"] \in 1 .. 3
        /\ expected'["client"] = expected["client"] /\ expected["client"] <= Last + 1
    BY <1>0, <1>1, Ends DEF Types
  <2>2. expected["server"] < 2
    BY <1>1, <2>1 DEF Stateful
  <2>3. Stateful'
    BY <2>1 DEF Stateful
  <2>4. \A x \in Nat \X Nat : Settled(e, x) => Settled(e, x)'
    BY <1>1, <2>1, <2>2 DEF Settled
  <2>5. /\ seen' \in [End -> SUBSET Number] /\ seen'["client"] = seen["client"]
        /\ seen'["server"] = {}
    BY <1>0, <1>7, Ends DEF Types
  <2>6. /\ have' \in [End -> SUBSET (Nat \X Nat)] /\ dropped' \in [End -> SUBSET (Nat \X Nat)]
        /\ \A x \in have'[e] : x[1] <= LastFrom(Peer(e))
    BY <1>0, <1>1, Ends DEF Types, Messages
  <2> QED
    BY <1>1, <1>3, <2>1, <2>2, <2>3, <2>4, <2>5, <2>6 DEF Receives
<1>9. \A q \in Elems(ServerFlight) :
         q.kind = "hs" /\ q.nums = {} /\ Proper(e, q.m, q.ep)'
  <2> TAKE q \in Elems(ServerFlight)
  <2>1. PICK i \in DOMAIN ServerFlight : q = ServerFlight[i]
    BY ElemsOf
  <2>2. q.kind = "hs" /\ q.nums = {} /\ q.m \in 1 .. Last
    BY <2>1, FlightShape
  <2> QED
    BY <2>2, FlightsAssumption DEF Proper
<1>10. \A x \in SentBy(e)' : \E q \in Elems(ServerFlight) : <<q.m, q.f>> = x
  <2>1. SentBy(e)' = {<<q.m, q.f>> : q \in {ServerFlight[i] : i \in DOMAIN ServerFlight}}
    BY <1>8 DEF SentBy
  <2> QED
    BY <2>1 DEF Elems
<1>11. net'[e] = Tail(net[e]) /\ Moving(e, nx, {})
  <2>1. <<>> \in Seq(Buffer) /\ Elems(<<>>) \subseteq Bufs(e) /\ ServerFlight \in Seq(Record)
    BY ElemsOf, FlightShape
  <2>2. \A x \in SentBy(e)' : \/ \E b \in Elems(<<>>) : <<b.m, b.f>> = x
                              \/ \E q \in Elems(ServerFlight) : <<q.m, q.f>> = x
                              \/ Settled(Peer(e), x)
    BY <1>10
  <2>3. SendFlight(e, Rest(e), nx, <<>>, ServerFlight)
    BY <1>1
  <2>5. \A q \in Elems(ServerFlight) : q.kind = "hs" /\ q.nums = {}
    BY <1>9
  <2>6. \A q \in Elems(ServerFlight) : Proper(e, q.m, q.ep)'
    BY <1>9
  <2> HIDE DEF e
  <2>4. net'[e] = Rest(e)[e] /\ Moving(e, nx, {})
    BY <1>3, <1>4, <1>6, <1>8, <2>1, <2>2, <2>3, <2>5, <2>6, FlightMoves
  <2> QED
    BY <1>6, <2>4
<1>12. PICK sent : Moves(e, nx, sent, {})
  BY <1>11 DEF Moving
<1>13. Types' /\ Tracked' /\ Messages'
  BY <1>0, <1>3, <1>5, <1>12, MovesMessages
<1>14. Used' /\ Agree' /\ ClaimedIsKept'
  <2>1. Bufs(e) = {}
    BY <1>0, <1>1, ElemsOf DEF Stateless, Bufs
  <2>2. \A k \in Named(Peer(e)) : k[2] < nx[k[1]]
    BY <1>0, <1>1, <1>2, <1>3, <1>4 DEF Stateless
  <2> QED
    BY <1>0, <1>3, <1>4, <1>8, <1>12, <2>1, <2>2, MovesNumbers
<1>15. AckedIsKept'
  BY <1>0, <1>3, <1>12, SentByType, MovesKept
<1>16. Ordered'
  BY <1>0, <1>2, <1>11, OrderedTail
<1>17. Stateless'
  BY <1>0, <1>8, <1>12, StatelessServer
<1> QED
  BY <1>13, <1>14, <1>15, <1>16, <1>17 DEF Data


\* The two ways in which DtlsMsgStore ends.
LEMMA Stored ==
    ASSUME NEW e, NEW r, NEW st \in DtlsMsgStore(e, r)
    PROVE  /\ \/ st.got = have[e] \cup {<<r.m, r.f>>} /\ st.lost = {}
              \/ /\ st.got = have[e] /\ st.lost = {<<r.m, r.f>>}
                 /\ Listed(e, r) /\ upsets + 2 <= MaxUpsets
           /\ have[e] \subseteq st.got /\ st.got \subseteq have[e] \cup {<<r.m, r.f>>}
           /\ st.lost \subseteq {<<r.m, r.f>>} /\ <<r.m, r.f>> \in st.got \cup st.lost
<1> DEFINE kept == [got |-> have[e] \cup {<<r.m, r.f>>}, lost |-> {}]
           gone == [got |-> have[e], lost |-> {<<r.m, r.f>>}]
<1>1. st = kept \/ (st = gone /\ Listed(e, r) /\ upsets + 2 <= MaxUpsets)
  BY DEF DtlsMsgStore
<1>2. /\ kept.got = have[e] \cup {<<r.m, r.f>>} /\ kept.lost = {}
      /\ gone.got = have[e] /\ gone.lost = {<<r.m, r.f>>}
  OBVIOUS
<1> HIDE DEF kept, gone
<1>3. \/ st.got = have[e] \cup {<<r.m, r.f>>} /\ st.lost = {}
      \/ /\ st.got = have[e] /\ st.lost = {<<r.m, r.f>>}
         /\ Listed(e, r) /\ upsets + 2 <= MaxUpsets
  BY <1>1, <1>2
<1> QED
  BY <1>3

\* A message that was not processed yet: where processing stops.
LEMMA MessageTo ==
    ASSUME Data, NEW e \in End, RecvHandshake(e), Head(net[e]).m >= expected[e],
           NEW st \in DtlsMsgStore(e, Head(net[e]))
    PROVE  LET r == Head(net[e])
               got == st.got
               to == FirstIncomplete(e, got)
           IN  /\ net[e] # <<>> /\ r.kind = "hs" /\ r \in Record /\ r \in Recs(e)
               /\ r.m \in Nat /\ r.f \in Nat /\ Proper(Peer(e), r.m, r.ep)
               /\ got \subseteq Nat \X Nat /\ \A x \in got : x[1] <= LastFrom(Peer(e))
               /\ to \in Nat /\ expected[e] <= to /\ to <= LastFrom(Peer(e)) + 1
               /\ \E f \in 1 .. Fragments(e, to) : <<to, f>> \notin got
<1> DEFINE r == Head(net[e])
           got == st.got
           to == FirstIncomplete(e, got)
<1>0. Types /\ Messages
  BY DEF Data
<1>1. net[e] # <<>> /\ r.kind = "hs"
  BY DEF RecvHandshake, Accepts
<1>2. r \in Record /\ r \in Recs(e)
  BY <1>0, <1>1, RestElems
<1>3. r.m \in Nat /\ r.f \in Nat /\ Proper(Peer(e), r.m, r.ep)
  BY <1>0, <1>1, <1>2, Ends DEF Record, Messages
<1>4. expected[e] \in Nat /\ have[e] \subseteq Nat \X Nat /\ Last \in Nat /\ Last >= 2
  BY <1>0, FlightsAssumption DEF Types
<1>5. r.m <= LastFrom(Peer(e)) /\ LastFrom(Peer(e)) <= Last /\ LastFrom(Peer(e)) \in Nat
  BY <1>3, <1>4, Ends DEF Proper, LastFrom
<1> HIDE DEF r
<1>6. got \subseteq Nat \X Nat /\ \A x \in got : x[1] <= LastFrom(Peer(e))
  <2>1. got \subseteq have[e] \cup {<<r.m, r.f>>}
    BY Stored DEF r
  <2>2. \A x \in have[e] : x[1] <= LastFrom(Peer(e))
    BY <1>0 DEF Messages
  <2> HIDE DEF got
  <2> QED
    BY <1>3, <1>4, <1>5, <2>1, <2>2
<1> HIDE DEF got
<1>7. \A x \in got : x[1] <= Last
  <2> TAKE x \in got
  <2>1. x[1] \in Nat /\ x[1] <= LastFrom(Peer(e))
    BY <1>6
  <2> QED
    BY <1>4, <1>5, <2>1
<1>8. /\ to \in expected[e] .. Last + 1
      /\ \A k \in expected[e] .. Last + 1 : (\A f \in Nat : <<k, f>> \notin got) => to <= k
      /\ \E f \in 1 .. Fragments(e, to) : <<to, f>> \notin got
  BY <1>0, <1>7, Processed
<1>9. to \in Nat /\ expected[e] <= to
  <2> HIDE DEF to
  <2> QED
    BY <1>4, <1>8
<1>10. to <= LastFrom(Peer(e)) + 1
  <2>1. \A f \in Nat : <<LastFrom(Peer(e)) + 1, f>> \notin got
    <3> SUFFICES ASSUME NEW f \in Nat, <<LastFrom(Peer(e)) + 1, f>> \in got
                 PROVE  FALSE
      OBVIOUS
    <3>1. <<LastFrom(Peer(e)) + 1, f>>[1] <= LastFrom(Peer(e))
      BY <1>6
    <3> QED
      BY <1>5, <3>1
  <2>2. LastFrom(Peer(e)) + 1 \in expected[e] .. Last + 1
    <3>1. expected[e] <= LastFrom(Peer(e)) + 1
      BY <1>0, <1>3, <1>4, <1>5 DEF r
    <3> QED
      BY <1>4, <1>5, <3>1
  <2> HIDE DEF to
  <2> QED
    BY <1>8, <2>1, <2>2
<1> QED
  BY <1>1, <1>2, <1>3, <1>6, <1>8, <1>9, <1>10 DEF r, got

\* Its number is claimed, and it is processed or stored.
LEMMA MessageReceives ==
    ASSUME Data, NEW e \in End, RecvHandshake(e), NEW st \in DtlsMsgStore(e, Head(net[e])),
           Handle(e, st), seen'[e] \subseteq seen[e] \cup {Num(Head(net[e]))},
           seen' \in [End -> SUBSET Number], seen'[Peer(e)] = seen[Peer(e)]
    PROVE  Receives(e, {Num(Head(net[e]))})
<1> DEFINE r == Head(net[e])
           got == st.got
           to == FirstIncomplete(e, got)
<1>0. Types /\ Messages /\ Agree
  BY DEF Data
<1>1. /\ RecvHandshake(e) /\ r.m >= expected[e]
      /\ expected' = [expected EXCEPT ![e] = to]
      /\ have' = [have EXCEPT ![e] = {x \in got : x[1] >= to}]
      /\ dropped' = [dropped EXCEPT ![e] = @ \cup st.lost]
  BY DEF Handle
<1>2. /\ r.kind = "hs" /\ r \in Recs(e) /\ r.m \in Nat /\ r.f \in Nat
      /\ got \subseteq Nat \X Nat /\ (\A x \in got : x[1] <= LastFrom(Peer(e)))
      /\ to \in Nat /\ expected[e] <= to /\ to <= LastFrom(Peer(e)) + 1
  BY <1>1, MessageTo
<1>3. /\ <<r.m, r.f>> \in got \cup st.lost /\ have[e] \subseteq got
      /\ st.lost \subseteq {<<r.m, r.f>>}
  BY Stored
<1> HIDE DEF r, got, to
<1>4. /\ expected' \in [End -> Nat] /\ expected'[e] = to /\ expected'[Peer(e)] = expected[Peer(e)]
      /\ have' \in [End -> SUBSET (Nat \X Nat)] /\ have'[Peer(e)] = have[Peer(e)]
      /\ have'[e] = {x \in got : x[1] >= to}
      /\ dropped' \in [End -> SUBSET (Nat \X Nat)] /\ dropped'[Peer(e)] = dropped[Peer(e)]
      /\ dropped'[e] = dropped[e] \cup st.lost
  <2>1. /\ expected' \in [End -> Nat] /\ expected'[e] = to
        /\ expected'[Peer(e)] = expected[Peer(e)]
        /\ have' \in [End -> SUBSET (Nat \X Nat)] /\ have'[Peer(e)] = have[Peer(e)]
        /\ have'[e] = {x \in got : x[1] >= to}
    BY <1>0, <1>1, <1>2, Ends DEF Types
  <2>2. st.lost \in SUBSET (Nat \X Nat)
    BY <1>2, <1>3
  <2>3. dropped[e] \in SUBSET (Nat \X Nat) /\ dropped \in [End -> SUBSET (Nat \X Nat)]
    BY <1>0 DEF Types
  <2> QED
    BY <1>1, <2>1, <2>2, <2>3, Ends
<1>5. \A x \in got : x[1] \in Nat /\ Settled(e, x)'
  <2> TAKE x \in got
  <2>1. x[1] \in Nat
    BY <1>2
  <2>2. to > x[1] \/ x[1] >= to
    BY <1>2, <2>1
  <2> QED
    BY <1>4, <2>1, <2>2 DEF Settled
<1>6. \A x \in Nat \X Nat : Settled(e, x) => Settled(e, x)'
  <2> TAKE x \in Nat \X Nat
  <2>1. CASE expected[e] > x[1]
    <3>1. x[1] \in Nat /\ expected[e] \in Nat
      BY <1>0 DEF Types
    <3>2. to > x[1]
      BY <1>2, <2>1, <3>1
    <3> QED
      BY <1>4, <3>2 DEF Settled
  <2>2. CASE x \in have[e]
    BY <1>3, <1>5, <2>2
  <2>3. CASE x \in dropped[e]
    BY <1>4, <2>3 DEF Settled
  <2> QED
    BY <2>1, <2>2, <2>3 DEF Settled
<1>7. ASSUME NEW b \in Bufs(Peer(e)), {Num(r)} \cap Nums(b) # {}
      PROVE  Settled(e, <<b.m, b.f>>)'
  <2>1. r.m = b.m /\ r.f = b.f
    BY <1>0, <1>2, <1>7, Ends DEF Agree
  <2>2. \A x \in st.lost : Settled(e, x)'
    BY <1>4 DEF Settled
  <2> QED
    BY <1>3, <1>5, <2>1, <2>2
<1>8. expected'["client"] <= Last + 1 /\ expected'["server"] \in 1 .. 3
  <2>1. CASE e = "client"
    BY <1>0, <1>2, <1>4, <2>1, Ends DEF LastFrom, Types
  <2>2. CASE e = "server"
    BY <1>0, <1>2, <1>4, <2>2, Ends DEF LastFrom, Types
  <2> QED
    BY <2>1, <2>2, Ends
<1>9. (\A x \in have'[e] : x[1] <= LastFrom(Peer(e))) /\ {Num(r)} \subseteq {Num(q) : q \in Recs(e)}
  BY <1>2, <1>4
<1>10. expected[e] <= expected'[e] /\ seen'[e] \subseteq seen[e] \cup {Num(r)}
  BY <1>2, <1>4 DEF r
<1>11. Receives(e, {Num(r)})
  BY <1>4, <1>6, <1>7, <1>8, <1>9, <1>10 DEF Receives
<1> QED
  BY <1>11 DEF r


\* The client's Finished, at the server: it is acknowledged, and the buffer may
\* go, as the client has the whole flight.
LEMMA ServerMessage ==
    ASSUME Data, RecvHandshake("server"), NEW st \in DtlsMsgStore("server", Head(net["server"])),
           Handle("server", st)
    PROVE  Data'
<1> DEFINE e == "server"
           r == Head(net[e])
           to == FirstIncomplete(e, st.got)
           implicit == ~HandShakeDone(e) /\ (HelloComplete(e) \/ (e = "client" /\ unified))
           buf == IF implicit THEN <<>> ELSE rtx[e]
           nums == seen[e] \cup {Num(r)}
           ack == IF to > expected[e] THEN <<Ack(3, nums)>> ELSE <<>>
<1>0. Types /\ Messages /\ e \in End /\ Peer(e) = "client"
  BY Ends DEF Data
<1>1. RecvHandshake(e) /\ r.m >= expected[e] /\ Stateful
  BY DEF Handle, RecvHandshake
<1>2. /\ SendWork(e, Rest(e), buf, ack, FALSE)
      /\ seen' = [seen EXCEPT ![e] = IF to > expected[e] THEN {} ELSE nums]
  BY DEF Handle
<1>3. /\ net[e] # <<>> /\ r \in Record /\ r.m \in Nat /\ Proper(Peer(e), r.m, r.ep)
  BY <1>0, <1>1, MessageTo
<1>4. nums \in SUBSET Number /\ 3 \in Epoch
  BY <1>0, <1>3, Typed DEF Types, Epoch
<1>5. ack \in Seq(Record) /\ (\A i \in DOMAIN ack : ack[i].kind = "ack")
      /\ \A a \in Elems(ack) : a.nums \subseteq nums
  <2> HIDE DEF nums, to
  <2>1. CASE to > expected[e]
    <3>1. ack = <<Ack(3, nums)>>
      BY <2>1
    <3> HIDE DEF ack
    <3> QED
      BY <1>4, <3>1, OneAck
  <2>2. CASE ~(to > expected[e])
    <3>1. ack = <<>>
      BY <2>2
    <3>2. <<>> \in Seq(Record) /\ DOMAIN <<>> = {}
      OBVIOUS
    <3> HIDE DEF ack
    <3> QED
      BY <3>1, <3>2, ElemsOf
  <2> QED
    BY <2>1, <2>2
<1>6. /\ seen' \in [End -> SUBSET Number] /\ seen'[Peer(e)] = seen[Peer(e)]
      /\ seen'[e] \subseteq nums
  <2> HIDE DEF nums, to
  <2> QED
    BY <1>0, <1>2, <1>4, Ends DEF Types
<1>7. Receives(e, {Num(r)})
  BY <1>0, <1>6, MessageReceives
<1>8. expected["client"] = Last + 1
  <2>1. r.m = 2
    BY <1>0, <1>1, <1>3 DEF Proper, Stateful, Types
  <2> QED
    BY <1>0, <1>3, <2>1 DEF Proper
<1>9. \A x \in SentBy(e)' : Settled(Peer(e), x)
  <2>1. \A i \in DOMAIN ServerFlight : expected["client"] > ServerFlight[i].m
    BY <1>8, FlightShape, FlightsAssumption
  <2>2. \A x \in SentBy(e)' : expected["client"] > x[1]
    BY <2>1 DEF SentBy
  <2> QED
    BY <1>0, <2>2 DEF Settled
<1>10. buf \in Seq(Buffer) /\ Elems(buf) \subseteq Bufs(e)
  <2>1. <<>> \in Seq(Buffer) /\ rtx[e] \in Seq(Buffer) /\ Elems(rtx[e]) = Bufs(e)
    BY <1>0 DEF Types, Bufs
  <2>2. buf = <<>> \/ buf = rtx[e]
    OBVIOUS
  <2> HIDE DEF buf
  <2> QED
    BY <2>1, <2>2, ElemsOf
<1>11. Works(e, Rest(e), buf, ack)
  <2> HIDE DEF buf, ack
  <2> QED
    BY <1>2 DEF Works
<1>12. /\ Rest(e) \in [End -> Seq(Record)] /\ Rest(e)[Peer(e)] = net[Peer(e)]
       /\ Rest(e)[e] = Tail(net[e]) /\ Elems(Rest(e)[e]) \subseteq Recs(e)
  BY <1>0, <1>3, RestElems
<1>13. \A a \in Elems(ack) : a.nums \subseteq seen[e] \cup {Num(r)}
  BY <1>5
<1> HIDE DEF buf, ack, r, nums, to
<1>14. net'[e] = Rest(e)[e] /\ Moving(e, next[e], {Num(r)})
  <2> HIDE DEF e
  <2> QED
    BY <1>0, <1>5, <1>7, <1>9, <1>10, <1>11, <1>12, <1>13, WorkMoves
<1> QED
  BY <1>0, <1>1, <1>3, <1>12, <1>14, EndStep

\* The client has not had the ServerHello: it has a HelloRetryRequest, and answers.
LEMMA RetryAnswered ==
    ASSUME Data, RecvHandshake("client"), NEW st \in DtlsMsgStore("client", Head(net["client"])),
           Handle("client", st), ~Stateful
    PROVE  LET to == FirstIncomplete("client", st.got)
           IN  /\ expected["client"] = 0 /\ to = 1 /\ have'["client"] = {} /\ ~unified'
               /\ expected'["client"] = 1
<1> DEFINE e == "client"
           r == Head(net[e])
           got == st.got
           to == FirstIncomplete(e, got)
<1>0. Types /\ Stateless /\ e \in End
  BY Ends DEF Data
<1>1. /\ RecvHandshake(e) /\ r.m >= expected[e] /\ UNCHANGED unified
      /\ expected' = [expected EXCEPT ![e] = to]
      /\ have' = [have EXCEPT ![e] = {x \in got : x[1] >= to}]
  BY DEF Handle
<1>2. /\ net[e] # <<>> /\ r \in Recs(e) /\ to \in Nat /\ got \subseteq Nat \X Nat
      /\ \E f \in 1 .. Fragments(e, to) : <<to, f>> \notin got
  BY <1>0, <1>1, MessageTo
<1>3. r.m = 0 /\ r.f = 1 /\ have[e] = {} /\ ~unified
  BY <1>0, <1>2 DEF Stateless
<1>5. expected[e] = 0
  BY <1>0, <1>1, <1>3 DEF Types
<1>4. got = {<<0, 1>>}
  <2>1. ~Listed(e, r)
    <3>1. 0 \notin Split
      BY FlightsAssumption
    <3> QED
      BY <1>3, <1>5, <3>1 DEF Listed, Fragments
  <2> QED
    BY <1>3, <2>1, Stored
<1>6. to # 0
  <2>1. Fragments(e, 0) = 1
    <3>1. 0 \notin Split
      BY FlightsAssumption
    <3> QED
      BY <3>1 DEF Fragments
  <2>2. 1 .. 1 = {1}
    OBVIOUS
  <2> HIDE DEF got, to
  <2> QED
    BY <1>2, <1>4, <2>1, <2>2
<1>7. to <= 1
  <2>1. \A f \in Nat : <<1, f>> \notin got
    <3> HIDE DEF got
    <3> QED
      BY <1>4
  <2>2. \A x \in got : x[1] <= Last
    <3>1. \A x \in got : x[1] = 0
      <4> HIDE DEF got
      <4> QED
        BY <1>4
    <3> QED
      BY <3>1, FlightsAssumption
  <2>3. 1 \in expected[e] .. Last + 1
    BY <1>5, FlightsAssumption
  <2> HIDE DEF got
  <2> QED
    BY <1>0, <2>1, <2>2, <2>3, Processed
<1>8. to = 1
  <2> HIDE DEF to
  <2> QED
    BY <1>2, <1>6, <1>7
<1>9. have'[e] = {}
  <2>1. have'[e] = {x \in got : x[1] >= to}
    BY <1>0, <1>1 DEF Types
  <2>2. \A x \in got : x[1] = 0
    <3> HIDE DEF got
    <3> QED
      BY <1>4
  <2> HIDE DEF got, to
  <2> QED
    BY <1>8, <2>1, <2>2
<1> QED
  BY <1>0, <1>1, <1>3, <1>5, <1>8, <1>9 DEF Types


\* A flight of one message.
LEMMA OneMessage ==
    ASSUME NEW ep \in Epoch, NEW m \in Nat
    PROVE  /\ <<Hs(ep, m, 1)>> \in Seq(Record)
           /\ Elems(<<Hs(ep, m, 1)>>) = {Hs(ep, m, 1)}
           /\ Hs(ep, m, 1).kind = "hs" /\ Hs(ep, m, 1).nums = {} /\ Hs(ep, m, 1).m = m
           /\ Hs(ep, m, 1).f = 1 /\ Hs(ep, m, 1).ep = ep
<1>1. /\ Hs(ep, m, 1) \in Record
      /\ Hs(ep, m, 1).kind = "hs" /\ Hs(ep, m, 1).nums = {} /\ Hs(ep, m, 1).m = m
      /\ Hs(ep, m, 1).f = 1 /\ Hs(ep, m, 1).ep = ep
  BY DEF Hs, Record
<1>2. DOMAIN <<Hs(ep, m, 1)>> = {1} /\ <<Hs(ep, m, 1)>>[1] = Hs(ep, m, 1)
  OBVIOUS
<1>3. <<Hs(ep, m, 1)>> \in Seq(Record)
  BY <1>1
<1>4. Elems(<<Hs(ep, m, 1)>>) = {Hs(ep, m, 1)}
  BY <1>2 DEF Elems
<1> QED
  BY <1>1, <1>3, <1>4

\* A message at the client.  Once the server is stateful it has the second
\* ClientHello, so what is implicitly acknowledged may go; before, nothing is.
LEMMA ClientMessage ==
    ASSUME Data, RecvHandshake("client"), NEW st \in DtlsMsgStore("client", Head(net["client"])),
           Handle("client", st)
    PROVE  Data'
<1> DEFINE e == "client"
           r == Head(net[e])
           to == FirstIncomplete(e, st.got)
           implicit == ~HandShakeDone(e) /\ (HelloComplete(e) \/ (e = "client" /\ unified))
           buf == IF implicit THEN <<>> ELSE rtx[e]
           nums == seen[e] \cup {Num(r)}
           out == IF to = 1 THEN <<Hs(0, 1, 1)>> ELSE <<Hs(2, 2, 1)>>
           none == <<>>
           sends == to > expected[e] /\ to \in {1, Last + 1}
<1>0. Types /\ Messages /\ Stateless /\ e \in End /\ Peer(e) = "server" /\ Last \in Nat /\ Last >= 2
  BY Ends, FlightsAssumption DEF Data
<1>1. /\ RecvHandshake(e) /\ r.m >= expected[e] /\ expected' = [expected EXCEPT ![e] = to]
      /\ UNCHANGED unified
  BY DEF Handle
<1>2. /\ sends => SendFlight(e, Rest(e), next[e], buf, out)
      /\ ~sends => /\ seen' = [seen EXCEPT ![e] = nums]
                   /\ SendWork(e, Rest(e), buf, none, FALSE)
  BY DEF Handle
<1>3. /\ net[e] # <<>> /\ r \in Record /\ r.m \in Nat /\ Proper("server", r.m, r.ep)
      /\ to \in Nat
  BY <1>0, <1>1, MessageTo
<1>4. expected[e] \in Nat /\ expected[e] <= Last
  BY <1>0, <1>1, <1>3 DEF Types, Proper
<1>5. ~Stateful => /\ expected[e] = 0 /\ to = 1 /\ have'[e] = {} /\ ~unified'
                   /\ expected'[e] = 1
  BY RetryAnswered
<1>6. Stateful => Settled("server", <<1, 1>>)
  BY <1>0, Ends DEF Stateful, Settled, Types
<1> HIDE DEF to
<1>7. nums \in SUBSET Number
  BY <1>0, <1>3, Typed DEF Types
<1>8. seen' = [seen EXCEPT ![e] = IF sends THEN {} ELSE nums]
  <2>1. CASE sends
    BY <1>2, <2>1 DEF SendFlight
  <2>2. CASE ~sends
    BY <1>2, <2>2
  <2> QED
    BY <2>1, <2>2
<1>9. /\ seen' \in [End -> SUBSET Number] /\ seen'[Peer(e)] = seen[Peer(e)]
      /\ seen'[e] \subseteq nums
  <2> HIDE DEF nums, sends
  <2> QED
    BY <1>0, <1>7, <1>8, Ends DEF Types
<1>10. Receives(e, {Num(r)})
  BY <1>0, <1>9, MessageReceives
<1>11. expected'[e] = to
  BY <1>0, <1>1 DEF Types
<1>12. \A x \in SentBy(e)' : /\ x = <<1, 1>> \/ x = <<2, 1>>
                             /\ x = <<2, 1>> => to = Last + 1
  <2>1. SentBy(e)' = {<<1, 1>> : k \in {1} \cap (0 .. expected'[e])}
                         \cup {<<2, 1>> : k \in {Last + 1} \cap {expected'[e]}}
    BY DEF SentBy
  <2>2. <<1, 1>> # <<2, 1>>
    OBVIOUS
  <2> QED
    BY <1>11, <2>1, <2>2
<1>13. buf \in Seq(Buffer) /\ Elems(buf) \subseteq Bufs(e)
  <2>1. <<>> \in Seq(Buffer) /\ rtx[e] \in Seq(Buffer) /\ Elems(rtx[e]) = Bufs(e)
    BY <1>0 DEF Types, Bufs
  <2>2. buf = <<>> \/ buf = rtx[e]
    OBVIOUS
  <2> HIDE DEF buf
  <2> QED
    BY <2>1, <2>2, ElemsOf
<1>14. /\ Rest(e) \in [End -> Seq(Record)] /\ Rest(e)[Peer(e)] = net[Peer(e)]
       /\ Rest(e)[e] = Tail(net[e]) /\ Elems(Rest(e)[e]) \subseteq Recs(e)
  BY <1>0, <1>3, RestElems
<1>15. next[e] \in [Epoch -> Nat]
  BY <1>0 DEF Types
<1> HIDE DEF buf, r, nums
<1>16. CASE sends
  <2>1. /\ out \in Seq(Record) /\ \A q \in Elems(out) : q.kind = "hs" /\ q.nums = {}
        /\ \A q \in Elems(out) : Proper(e, q.m, q.ep)'
        /\ to = 1 => \E q \in Elems(out) : <<q.m, q.f>> = <<1, 1>>
        /\ to = Last + 1 => \E q \in Elems(out) : <<q.m, q.f>> = <<2, 1>>
    <3>1. CASE to = 1
      <4>1. out = <<Hs(0, 1, 1)>> /\ 0 \in Epoch
        BY <3>1 DEF Epoch
      <4>2. /\ out \in Seq(Record) /\ Elems(out) = {Hs(0, 1, 1)}
            /\ Hs(0, 1, 1).kind = "hs" /\ Hs(0, 1, 1).nums = {} /\ Hs(0, 1, 1).m = 1
            /\ Hs(0, 1, 1).f = 1 /\ Hs(0, 1, 1).ep = 0
        <5> HIDE DEF out
        <5> QED
          BY <4>1, OneMessage
      <4>3. Proper(e, Hs(0, 1, 1).m, Hs(0, 1, 1).ep)'
        BY <1>11, <3>1, <4>2 DEF Proper
      <4>4. to # Last + 1
        BY <1>0, <3>1
      <4> HIDE DEF out
      <4> QED
        BY <4>2, <4>3, <4>4
    <3>2. CASE to = Last + 1
      <4>1. to # 1
        BY <1>0, <3>2
      <4>2. out = <<Hs(2, 2, 1)>> /\ 2 \in Epoch
        BY <4>1 DEF Epoch
      <4>3. /\ out \in Seq(Record) /\ Elems(out) = {Hs(2, 2, 1)}
            /\ Hs(2, 2, 1).kind = "hs" /\ Hs(2, 2, 1).nums = {} /\ Hs(2, 2, 1).m = 2
            /\ Hs(2, 2, 1).f = 1 /\ Hs(2, 2, 1).ep = 2
        <5> HIDE DEF out
        <5> QED
          BY <4>2, OneMessage
      <4>4. Proper(e, Hs(2, 2, 1).m, Hs(2, 2, 1).ep)'
        BY <1>11, <3>2, <4>3 DEF Proper
      <4> HIDE DEF out
      <4> QED
        BY <4>1, <4>3, <4>4
    <3> QED
      BY <1>16, <3>1, <3>2
  <2> HIDE DEF out
  <2>2. \A x \in SentBy(e)' : \/ \E b \in Elems(buf) : <<b.m, b.f>> = x
                              \/ \E q \in Elems(out) : <<q.m, q.f>> = x
                              \/ Settled(Peer(e), x)
    <3> TAKE x \in SentBy(e)'
    <3>1. CASE x = <<2, 1>>
      BY <1>12, <2>1, <3>1
    <3>2. CASE x = <<1, 1>> /\ Stateful
      BY <1>0, <1>6, <3>2
    <3>3. CASE x = <<1, 1>> /\ ~Stateful
      BY <1>5, <2>1, <3>3
    <3> QED
      BY <1>12, <3>1, <3>2, <3>3
  <2>3. SendFlight(e, Rest(e), next[e], buf, out)
    BY <1>2, <1>16
  <2>4. net'[e] = Rest(e)[e] /\ Moving(e, next[e], {Num(r)})
    <3>1. \A q \in Elems(out) : q.kind = "hs" /\ q.nums = {}
      BY <2>1
    <3>2. (\A q \in Elems(out) : Proper(e, q.m, q.ep)') /\ out \in Seq(Record)
      BY <2>1
    <3> DEFINE nx == next[e]
               new == {Num(r)}
    <3>3. /\ SendFlight(e, Rest(e), nx, buf, out) /\ nx \in [Epoch -> Nat]
          /\ Receives(e, new)
      BY <1>10, <1>15, <2>3
    <3> HIDE DEF sends, nx, new
    <3>4. net'[e] = Rest(e)[e] /\ Moving(e, nx, new)
      BY <1>0, <1>13, <1>14, <2>2, <3>1, <3>2, <3>3, FlightMoves
    <3> QED
      BY <3>4 DEF nx, new
  <2>5. e = "client" /\ ~Stateful =>
           expected'["client"] <= 1 /\ have'["client"] = {} /\ ~unified'
    BY <1>5
  <2>6. net[e] # <<>> /\ net'[e] = Tail(net[e]) /\ e # "server"
    BY <1>3, <1>14, <2>4
  <2> HIDE DEF e
  <2> QED
    BY <1>0, <2>4, <2>5, <2>6, EndStep
<1>17. CASE ~sends
  <2>1. Stateful
    BY <1>5, <1>17
  <2>2. \A x \in SentBy(e)' : Settled(Peer(e), x)
    <3> TAKE x \in SentBy(e)'
    <3>1. x # <<2, 1>>
      BY <1>0, <1>3, <1>4, <1>12, <1>17
    <3> QED
      BY <1>0, <1>6, <1>12, <2>1, <3>1
  <2>3. Works(e, Rest(e), buf, none)
    <3> HIDE DEF none
    <3> QED
      BY <1>2, <1>17 DEF Works
  <2>4. none \in Seq(Record) /\ (\A i \in DOMAIN none : none[i].kind = "ack")
        /\ \A a \in Elems(none) : a.nums \subseteq seen[e] \cup {Num(r)}
    BY ElemsOf
  <2>5. net'[e] = Rest(e)[e] /\ Moving(e, next[e], {Num(r)})
    <3> HIDE DEF e, none, sends
    <3> QED
      BY <1>0, <1>10, <1>13, <1>14, <2>2, <2>3, <2>4, WorkMoves
  <2> QED
    BY <1>0, <1>3, <1>14, <2>1, <2>5, EndStep
<1> QED
  BY <1>16, <1>17

-----------------------------------------------------------------------------
(* Induction *)

\* The bounded counters and the flags keep their types.
LEMMA StepFlags ==
    ASSUME Flags, [Next]_vars
    PROVE  Flags'
<1> USE DEF Flags
<1>1. MaxUpsets \in Nat /\ MaxLead \in Nat
  BY FlightsAssumption
<1>2. ASSUME NEW e \in End, NEW r, RecordRecvd(e, r)
      PROVE  fast' \in [End -> BOOLEAN]
  <2>1. fast' = [fast EXCEPT ![e] = @ \/ r.kind = "hs"]
    BY <1>2 DEF RecordRecvd
  <2> QED
    BY <2>1
<1>3. ASSUME NEW e, NEW n, NEW buf, NEW ack, NEW retransmit, SendWork(e, n, buf, ack, retransmit)
      PROVE  recent' \in BOOLEAN
  BY <1>3 DEF SendWork
<1>4. CASE UNCHANGED vars
  BY <1>4 DEF vars, received
<1>5. ASSUME NEW e \in End, Discard(e)
      PROVE  Flags'
  BY <1>5 DEF Discard, received
<1>6. ASSUME NEW e \in End, Retransmission(e)
      PROVE  Flags'
  BY <1>2, <1>3, <1>6 DEF Retransmission
<1>7. ASSUME NEW e \in End, Message(e)
      PROVE  Flags'
  <2>1. PICK st \in DtlsMsgStore(e, Head(net[e])) : Handle(e, st)
    BY <1>7 DEF Message
  <2>2. recent' \in BOOLEAN
    BY <1>3, <2>1 DEF Handle
  <2>3. upsets' \in 0 .. MaxUpsets
    <3>1. upsets' = upsets + 2 * Cardinality(st.lost)
      BY <2>1 DEF Handle
    <3>2. CASE st.lost = {}
      <4>1. Cardinality(st.lost) = 0
        BY <3>2, FS_EmptySet
      <4> QED
        BY <1>1, <3>1, <4>1
    <3>3. CASE st.lost # {}
      <4> DEFINE x == <<Head(net[e]).m, Head(net[e]).f>>
      <4>1. st.lost = {x} /\ upsets + 2 <= MaxUpsets
        BY <3>3, Stored
      <4>2. Cardinality(st.lost) = 1
        BY <4>1, FS_Singleton
      <4> QED
        BY <1>1, <3>1, <4>1, <4>2
    <3> QED
      BY <3>2, <3>3
  <2> QED
    BY <1>2, <2>1, <2>2, <2>3 DEF Handle
<1>8. ASSUME NEW e \in End, DoDtls13Ack(e)
      PROVE  Flags'
  BY <1>2, <1>3, <1>8 DEF DoDtls13Ack
<1>9. ASSUME UnifiedBeforeHello
      PROVE  Flags'
  BY <1>3, <1>9 DEF UnifiedBeforeHello
<1>10. ASSUME HelloRetryRequest
       PROVE  Flags'
  BY <1>10 DEF HelloRetryRequest, received
<1>11. ASSUME CookieGood
       PROVE  Flags'
  BY <1>11 DEF CookieGood
<1>12. ASSUME NEW e \in End, Dtls13RtxTimeout(e)
       PROVE  Flags'
  <2>1. recent' \in BOOLEAN /\ UNCHANGED <<unified, acked>>
    BY <1>3, <1>12 DEF Dtls13RtxTimeout
  <2>2. fast' \in [End -> BOOLEAN]
    BY <1>12 DEF Dtls13RtxTimeout, FastOver
  <2>3. upsets' \in 0 .. MaxUpsets
    BY <1>1, <1>12 DEF Dtls13RtxTimeout
  <2>4. lead' \in [End -> 0 .. MaxLead]
    <3> DEFINE early == \E d \in End : net[d] # <<>>
               alone == ~early /\ TimerRuns(Peer(e))
    <3>1. /\ alone => lead[e] < MaxLead
          /\ lead' = IF early THEN lead
                     ELSE [d \in End |-> IF d = e /\ alone THEN lead[d] + 1 ELSE 0]
      BY <1>12 DEF Dtls13RtxTimeout
    <3> HIDE DEF early, alone
    <3> QED
      BY <1>1, <3>1
  <2> QED
    BY <2>1, <2>2, <2>3, <2>4
<1>13. ASSUME SecondPasses
       PROVE  Flags'
  BY <1>13 DEF SecondPasses, received
<1>14. ASSUME NEW e, NEW q, Fault(e, q)
       PROVE  Flags'
  BY <1>1, <1>14 DEF Fault, received
<1>15. ASSUME NEW e \in End, Lose(e) \/ Duplicate(e) \/ Overtake(e)
       PROVE  Flags'
  BY <1>14, <1>15 DEF Lose, Duplicate, Overtake
<1> QED
  BY <1>4, <1>5, <1>6, <1>7, <1>8, <1>9, <1>10, <1>11, <1>12, <1>13, <1>15
     DEF Next, Step, Network, Receive


\* The first ClientHello has been sent.
LEMMA InitIInv ==
    ASSUME Init
    PROVE  IInv
<1> DEFINE h == Hs(0, 0, 1)
           one == <<h>>
           b == Buffered(h)
           kept == <<b>>
<1> USE FlightsAssumption
<1>1. /\ h \in Record /\ h.kind = "hs" /\ h.m = 0 /\ h.f = 1 /\ h.ep = 0 /\ h.nums = {}
      /\ h.seq = 0 /\ one \in Seq(Record) /\ Elems(one) = {h}
  <2>1. 0 \in Epoch /\ 0 \in Nat
    BY DEF Epoch
  <2>2. h.seq = 0
    BY DEF Hs
  <2>3. h \in Record
    BY <2>1 DEF Hs, Record
  <2> QED
    BY <2>1, <2>2, <2>3, OneMessage
<1>2. /\ b \in Buffer /\ b.m = 0 /\ b.f = 1 /\ Len(b.sns) \in 1 .. DTLS13_RETRANS_RN_SIZE
      /\ Nums(b) = {Num(h)} /\ b.ep = 0
  <2>1. b.ep = h.ep
    BY DEF Buffered
  <2> HIDE DEF h
  <2> QED
    BY <1>1, <2>1, BufferedNums
<1>3. Num(h) = <<0, 0>>
  BY <1>1 DEF Num
<1> HIDE DEF h, b
<1>4. kept \in Seq(Buffer) /\ Elems(kept) = {b}
  <2>1. DOMAIN kept = {1} /\ kept[1] = b
    OBVIOUS
  <2>2. kept \in Seq(Buffer)
    BY <1>2
  <2> HIDE DEF kept
  <2> QED
    BY <2>1, <2>2 DEF Elems
<1>5. /\ net = [e \in End |-> IF e = "server" THEN one ELSE <<>>]
      /\ rtx = [e \in End |-> IF e = "client" THEN kept ELSE <<>>]
      /\ next = [e \in End |-> [ep \in Epoch |-> IF e = "client" /\ ep = 0 THEN 1 ELSE 0]]
      /\ seen = [e \in End |-> {}]
      /\ expected = [e \in End |-> IF e = "client" THEN 0 ELSE 1]
      /\ have = [e \in End |-> {}] /\ dropped = [e \in End |-> {}] /\ unified = FALSE
  BY DEF Init, h, b
<1> HIDE DEF one, kept
<1>6. /\ net["client"] = <<>> /\ net["server"] = one /\ rtx["client"] = kept /\ rtx["server"] = <<>>
      /\ next["client"][0] = 1 /\ expected["client"] = 0 /\ expected["server"] = 1
      /\ \A e \in End : seen[e] = {} /\ have[e] = {}
  BY <1>5, Ends DEF Epoch
<1>7. /\ Recs("client") = {} /\ Recs("server") = {h} /\ Bufs("client") = {b} /\ Bufs("server") = {}
  BY <1>1, <1>4, <1>6, ElemsOf DEF Recs, Bufs
<1>8. /\ Claimed("client") = {} /\ Claimed("server") = {} /\ Named("client") = {}
      /\ Named("server") = {<<0, 0>>}
  BY <1>1, <1>3, <1>6, <1>7, Ends DEF Claimed, Named
<1>9. ~Stateful
  BY <1>6 DEF Stateful
<1>10. Types
  <2>1. <<>> \in Seq(Record) /\ <<>> \in Seq(Buffer)
    OBVIOUS
  <2>2. net \in [End -> Seq(Record)] /\ rtx \in [End -> Seq(Buffer)]
    BY <1>1, <1>4, <1>5, <2>1
  <2>3. next \in [End -> [Epoch -> Nat]] /\ seen \in [End -> SUBSET Number]
    BY <1>5
  <2>4. /\ expected \in [End -> Nat] /\ have \in [End -> SUBSET (Nat \X Nat)]
        /\ dropped \in [End -> SUBSET (Nat \X Nat)]
    BY <1>5
  <2> QED
    BY <1>6, <2>2, <2>3, <2>4 DEF Types
<1>11. Tracked
  BY <1>2, <1>7, Ends DEF Tracked
<1>12. Messages
  <2>1. Proper("client", 0, 0)
    BY DEF Proper
  <2> QED
    BY <1>1, <1>2, <1>6, <1>7, <1>9, <2>1, Ends DEF Messages
<1>13. Stateless
  <2>1. ~unified
    BY <1>5
  <2>2. expected["client"] <= 1 /\ have["client"] = {} /\ rtx["server"] = <<>>
    BY <1>6, Ends
  <2> QED
    BY <1>7, <1>8, <2>1, <2>2 DEF Stateless
<1>14. Ordered
  <2>1. \A i, j \in DOMAIN one : one[i] = one[j]
    BY <1>1, ElemsOf
  <2> QED
    BY <1>6, <2>1 DEF Ordered
<1>15. Used
  <2>1. <<0, 0>>[1] = 0 /\ <<0, 0>>[2] = 0
    OBVIOUS
  <2> QED
    BY <1>2, <1>3, <1>6, <1>7, <1>8, <1>9, <2>1, Ends DEF Used
<1>16. Agree
  BY <1>1, <1>2, <1>7, Ends DEF Agree
<1>17. ClaimedIsKept
  BY <1>7, <1>8, Ends DEF ClaimedIsKept
<1>18. AckedIsKept
  <2>1. SentBy("client") = {} /\ SentBy("server") = {}
    BY <1>6, <1>9 DEF SentBy
  <2> QED
    BY <2>1, Ends DEF AckedIsKept
<1>19. Flags
  <2>1. unified \in BOOLEAN /\ acked \in BOOLEAN /\ recent \in BOOLEAN
    BY DEF Init
  <2>2. fast \in [End -> BOOLEAN]
    BY DEF Init
  <2>3. upsets \in 0 .. MaxUpsets /\ lead \in [End -> 0 .. MaxLead]
    BY DEF Init
  <2> QED
    BY <2>1, <2>2, <2>3 DEF Flags
<1> QED
  BY <1>10, <1>11, <1>12, <1>13, <1>14, <1>15, <1>16, <1>17, <1>18, <1>19 DEF IInv, Data

\* Every step preserves the invariant.
LEMMA StepIInv ==
    ASSUME IInv, [Next]_vars
    PROVE  IInv'
<1>1. Data /\ Flags
  BY DEF IInv
<1>2. Flags'
  BY <1>1, StepFlags
<1>3. CASE UNCHANGED vars
  <2>1. UNCHANGED <<net, rtx, next, seen, expected, have, dropped, unified>>
    BY <1>3 DEF vars, received
  <2> QED
    BY <1>1, <1>2, <2>1, FrameStep DEF IInv
<1>4. ASSUME NEW e \in End, Discard(e)
      PROVE  Data'
  <2>1. /\ net[e] # <<>> /\ net' = [net EXCEPT ![e] = Tail(net[e])]
        /\ UNCHANGED <<rtx, next, seen, expected, have, dropped, unified>>
    BY <1>4 DEF Discard, Rest, received
  <2> QED
    BY <1>1, <2>1, TailStep
<1>5. ASSUME NEW e \in End, Retransmission(e)
      PROVE  Data'
  BY <1>1, <1>5, RetransmissionStep
<1>6. ASSUME NEW e \in End, Message(e)
      PROVE  Data'
  <2>1. e = "client" \/ e = "server"
    BY Ends
  <2>2. /\ RecvHandshake(e)
        /\ \E st \in DtlsMsgStore(e, Head(net[e])) : Handle(e, st)
    BY <1>6 DEF Message
  <2> QED
    BY <1>1, <2>1, <2>2, ClientMessage, ServerMessage
<1>7. ASSUME NEW e \in End, DoDtls13Ack(e)
      PROVE  Data'
  BY <1>1, <1>7, AckStep
<1>8. ASSUME UnifiedBeforeHello
      PROVE  Data'
  BY <1>1, <1>8, UnifiedStep
<1>9. ASSUME HelloRetryRequest
      PROVE  Data'
  BY <1>1, <1>9, RetryStep
<1>10. ASSUME CookieGood
       PROVE  Data'
  BY <1>1, <1>10, CookieStep
<1>11. ASSUME NEW e \in End, Dtls13RtxTimeout(e)
       PROVE  Data'
  BY <1>1, <1>11, TimeoutStep
<1>12. ASSUME SecondPasses
       PROVE  Data'
  <2>1. UNCHANGED <<net, rtx, next, seen, expected, have, dropped, unified>>
    BY <1>12 DEF SecondPasses, received
  <2> QED
    BY <1>1, <2>1, FrameStep
<1>13. ASSUME NEW e \in End, Lose(e)
       PROVE  Data'
  <2>1. /\ net[e] # <<>> /\ net' = [net EXCEPT ![e] = Tail(net[e])]
        /\ UNCHANGED <<rtx, next, seen, expected, have, dropped, unified>>
    BY <1>13 DEF Lose, Fault, received
  <2> QED
    BY <1>1, <2>1, TailStep
<1>14. ASSUME NEW e \in End, Duplicate(e)
       PROVE  Data'
  <2>1. /\ net[e] # <<>> /\ net' = [net EXCEPT ![e] = <<Head(net[e])>> \o net[e]]
        /\ UNCHANGED <<rtx, next, seen, expected, have, dropped, unified>>
    BY <1>14 DEF Duplicate, Fault, received
  <2> QED
    BY <1>1, <2>1, DuplicateStep
<1>15. ASSUME NEW e \in End, Overtake(e)
       PROVE  Data'
  <2>1. /\ Len(net[e]) >= 2 /\ (e = "server" => net[e][1].ep > 0)
        /\ net' = [net EXCEPT ![e] = <<net[e][2], net[e][1]>> \o SubSeq(net[e], 3, Len(net[e]))]
        /\ UNCHANGED <<rtx, next, seen, expected, have, dropped, unified>>
    BY <1>15 DEF Overtake, Fault, received
  <2> QED
    BY <1>1, <2>1, OvertakeStep
<1>16. CASE Next
  <2>1. Data'
    BY <1>4, <1>5, <1>6, <1>7, <1>8, <1>9, <1>10, <1>11, <1>12, <1>13, <1>14, <1>15, <1>16
       DEF Next, Step, Network, Receive
  <2> QED
    BY <1>2, <2>1 DEF IInv
<1> QED
  BY <1>3, <1>16

\* The inductive invariant holds in every reachable state.
THEOREM Invariance == Spec => []IInv
<1>1. Init => IInv
  BY InitIInv
<1>2. IInv /\ [Next]_vars => IInv'
  BY StepIInv
<1> QED
  BY <1>1, <1>2, PTL DEF Spec

\* Records, counters and flags are of their types, and the array of record
\* numbers that Dtls13RtxAddRecord fills is never overrun.
THEOREM TypeCorrect == Spec => []TypeOK
<1>1. IInv => TypeOK
  <2> SUFFICES ASSUME IInv PROVE TypeOK
    OBVIOUS
  <2>1. Types /\ Tracked /\ Flags
    BY DEF IInv, Data
  <2>2. ASSUME NEW e \in End, NEW i \in DOMAIN net[e]
        PROVE  /\ net[e][i].ep \in Epoch /\ net[e][i].seq \in Nat
               /\ net[e][i].nums \subseteq Number
    <3>1. net[e][i] \in Record
      BY <2>1 DEF Types
    <3> QED
      BY <3>1 DEF Record
  <2>3. ASSUME NEW e \in End, NEW i \in DOMAIN rtx[e]
        PROVE  Len(rtx[e][i].sns) \in 1 .. DTLS13_RETRANS_RN_SIZE
    BY <2>1, ElemsOf DEF Tracked, Bufs
  <2>4. /\ next \in [End -> [Epoch -> Nat]] /\ expected["client"] \in 0 .. Last + 1
        /\ expected["server"] \in 1 .. 3
    BY <2>1, Ends, FlightsAssumption DEF Types
  <2> QED
    BY <2>1, <2>2, <2>3, <2>4 DEF TypeOK, Flags
<1> QED
  BY <1>1, Invariance, PTL

\* Whatever has left the retransmission buffer of an end has reached the other:
\* neither an ACK nor the next flight covers a fragment that is still missing,
\* however many records are lost, duplicated or overtaken.  This is for messages of
\* up to four fragments (FlightsAssumption) and ClientHellos that stay in order, and
\* but for the fragments DtlsMsgStore had no memory for.
THEOREM KeptCorrect == Spec => []AckedIsKept
<1>1. IInv => AckedIsKept
  BY DEF IInv, Data
<1> QED
  BY <1>1, Invariance, PTL
=============================================================================
