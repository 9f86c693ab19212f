---------------------------- MODULE RxRingProofs ----------------------------
(***************************************************************************)
(* For every number of slots, slot size, alphabet and set of datagrams:    *)
(* the ring keeps its types and its slot ownership, and implements         *)
(* DgramQueue.                                                             *)
(***************************************************************************)
EXTENDS RxRing, SequenceTheorems, TLAPS

-----------------------------------------------------------------------------
(* Arithmetic of the indices *)

\* (i + 1) % DTLS_RX_SLOTS without the division.
LEMMA NextSlotValue ==
  ASSUME NEW i \in Slot
  PROVE  /\ NextSlot(i) \in Slot
         /\ NextSlot(i) = IF i = DTLS_RX_SLOTS - 1 THEN 0 ELSE i + 1
<1>1. CASE i = DTLS_RX_SLOTS - 1
  <2>1. DTLS_RX_SLOTS % DTLS_RX_SLOTS = 0
    BY SlotsAssumption, Z3
  <2> QED  BY <1>1, <2>1, SlotsAssumption DEF NextSlot, Slot
<1>2. CASE i # DTLS_RX_SLOTS - 1
  <2>1. i + 1 \in 0 .. DTLS_RX_SLOTS - 1
    BY <1>2, SlotsAssumption DEF Slot
  <2>2. (i + 1) % DTLS_RX_SLOTS = i + 1
    BY <2>1, SlotsAssumption, Z3
  <2> QED  BY <1>2, <2>1, <2>2, SlotsAssumption DEF NextSlot, Slot
<1> QED  BY <1>1, <1>2

\* Clip cuts a sequence to at most m cells.
LEMMA ClipType ==
  ASSUME NEW d \in Seq(Cell), NEW m \in Nat
  PROVE  /\ Clip(d, m) \in Seq(Cell)
         /\ Len(Clip(d, m)) = Least(Len(d), m)
         /\ Least(Len(d), m) \in Nat
         /\ \A i \in 1 .. Least(Len(d), m) : Clip(d, m)[i] = d[i]
  BY DEF Clip, Least

-----------------------------------------------------------------------------
(* The inductive invariant *)

\* What the producer has copied so far is in the slot it will publish.
CopyIn ==
    /\ \A c \in 1 .. copied : cbState # "idle" => rx_buf[rx_head][c] = data[c]
    /\ cbState # "idle" => /\ calls < MaxCalls
                           /\ \E d \in Datagram : data = Clip(d, DTLS_MAX_DGRAM)
    /\ cbState = "publish" => /\ copied = Len(data)
                              /\ rx_len[rx_head] = Len(data)

\* What the consumer has copied so far is a prefix of the slot it reads.
CopyOut ==
    recvState = "copy" =>
        /\ \E sz \in ReadSizes : n = Least(rx_len[rx_tail], sz)
        /\ reads < MaxReads
        /\ Len(buf) <= n
        /\ \A c \in 1 .. Len(buf) : buf[c] = rx_buf[rx_tail][c]

IInv == TypeOK /\ SlotOwnership /\ CopyIn /\ CopyOut

LEMMA InitIInv == Init => IInv
  BY SlotsAssumption, DgramAssumption, BoundAssumption
  DEF Init, IInv, TypeOK, SlotOwnership, CopyIn, CopyOut, Slot

\* dtls_rx_cb preserves the invariant.
LEMMA ProducerIInv ==
  ASSUME IInv,
         RxCbDrop \/ (\E d \in Datagram : RxCbAccept(d)) \/ RxCbCopy
           \/ RxCbLen \/ RxCbPublish
  PROVE  IInv'
<1> USE SlotsAssumption, DgramAssumption, BoundAssumption
<1>h. NextSlot(rx_head) \in Slot
  BY NextSlotValue DEF IInv, TypeOK
<1>1. CASE RxCbDrop
  <2>1. TypeOK'
    BY <1>1 DEF RxCbDrop, IInv, TypeOK, shared, consumer
  <2> QED
    BY <1>1, <2>1 DEF RxCbDrop, IInv, SlotOwnership, CopyIn, CopyOut,
              shared, consumer
<1>2. ASSUME NEW d \in Datagram, RxCbAccept(d)  PROVE IInv'
  <2>c. /\ Clip(d, DTLS_MAX_DGRAM) \in Seq(Cell)
        /\ Len(Clip(d, DTLS_MAX_DGRAM)) \in 0 .. DTLS_MAX_DGRAM
    <3>1. d \in Seq(Cell)
      OBVIOUS
    <3> QED  BY <3>1, ClipType DEF Least
  <2>1. TypeOK'
    BY <1>2, <2>c DEF RxCbAccept, IInv, TypeOK, shared, consumer
  <2> QED
    BY <1>2, <2>1 DEF RxCbAccept, IInv, TypeOK, SlotOwnership, CopyIn, CopyOut,
              shared, consumer
<1>3. CASE RxCbCopy
  <2>1. TypeOK'
    BY <1>3 DEF RxCbCopy, IInv, TypeOK, consumer
  <2>2. SlotOwnership'
    BY <1>3 DEF RxCbCopy, IInv, SlotOwnership, consumer
  <2>3. CopyIn'
    BY <1>3 DEF RxCbCopy, IInv, TypeOK, CopyIn, consumer
  <2>4. CopyOut'
    BY <1>3 DEF RxCbCopy, IInv, TypeOK, SlotOwnership, CopyOut, consumer
  <2> QED  BY <2>1, <2>2, <2>3, <2>4 DEF IInv
<1>4. CASE RxCbLen
  <2>1. TypeOK'
    BY <1>4 DEF RxCbLen, IInv, TypeOK, consumer
  <2>2. SlotOwnership'
    BY <1>4 DEF RxCbLen, IInv, SlotOwnership, consumer
  <2>3. CopyIn'
    BY <1>4 DEF RxCbLen, IInv, TypeOK, CopyIn, consumer
  <2>4. CopyOut'
    BY <1>4 DEF RxCbLen, IInv, TypeOK, SlotOwnership, CopyOut, consumer
  <2> QED  BY <2>1, <2>2, <2>3, <2>4 DEF IInv
<1>5. CASE RxCbPublish
  BY <1>5, <1>h DEF RxCbPublish, IInv, TypeOK, SlotOwnership, CopyIn, CopyOut,
              consumer
<1> QED  BY <1>1, <1>2, <1>3, <1>4, <1>5

\* dtls_recv_cb preserves the invariant.
LEMMA ConsumerIInv ==
  ASSUME IInv,
         RecvEmpty \/ (\E sz \in ReadSizes : RecvLen(sz)) \/ RecvCopy
           \/ RecvAdvance
  PROVE  IInv'
<1> USE SlotsAssumption, DgramAssumption, BoundAssumption
<1>h. /\ NextSlot(rx_tail) \in Slot
      /\ rx_head # rx_tail => NextSlot(rx_head) # NextSlot(rx_tail)
  <2>1. rx_head \in Slot /\ rx_tail \in Slot
    BY DEF IInv, TypeOK
  <2>2. NextSlot(rx_tail) = IF rx_tail = DTLS_RX_SLOTS - 1 THEN 0 ELSE rx_tail + 1
    BY <2>1, NextSlotValue
  <2>3. NextSlot(rx_head) = IF rx_head = DTLS_RX_SLOTS - 1 THEN 0 ELSE rx_head + 1
    BY <2>1, NextSlotValue
  <2>4. NextSlot(rx_tail) \in Slot
    BY <2>1, NextSlotValue
  <2> QED  BY <2>1, <2>2, <2>3, <2>4 DEF Slot
<1>1. CASE RecvEmpty
  BY <1>1 DEF RecvEmpty, IInv, TypeOK, SlotOwnership, CopyIn, CopyOut,
              shared, producer
<1>2. ASSUME NEW sz \in ReadSizes, RecvLen(sz)  PROVE IInv'
  BY <1>2 DEF RecvLen, IInv, TypeOK, SlotOwnership, CopyIn, CopyOut, Least,
              shared, producer
<1>3. CASE RecvCopy
  <2>1. rx_buf[rx_tail][Len(buf) + 1] \in Cell
    BY <1>3 DEF RecvCopy, IInv, TypeOK
  <2>2. TypeOK'
    BY <1>3, <2>1 DEF RecvCopy, IInv, TypeOK, shared, producer
  <2>3. CopyOut'
    <3>1. /\ Len(buf') = Len(buf) + 1
          /\ buf'[Len(buf) + 1] = rx_buf[rx_tail][Len(buf) + 1]
          /\ \A c \in 1 .. Len(buf) : buf'[c] = buf[c]
      BY <1>3, <2>1 DEF RecvCopy, IInv, TypeOK
    <3>2. \A c \in 1 .. Len(buf') : buf'[c] = rx_buf[rx_tail][c]
      BY <1>3, <3>1 DEF RecvCopy, IInv, TypeOK, CopyOut
    <3> QED
      BY <1>3, <3>1, <3>2 DEF RecvCopy, IInv, TypeOK, CopyOut, shared, producer
  <2> QED
    BY <1>3, <2>2, <2>3 DEF RecvCopy, IInv, SlotOwnership, CopyIn,
              shared, producer
<1>4. CASE RecvAdvance
  BY <1>4, <1>h DEF RecvAdvance, IInv, TypeOK, SlotOwnership, CopyIn, CopyOut,
              producer
<1> QED  BY <1>1, <1>2, <1>3, <1>4

LEMMA StutterIInv == IInv /\ UNCHANGED vars => IInv'
  BY DEF IInv, TypeOK, SlotOwnership, CopyIn, CopyOut, vars, shared, producer,
         consumer

\* IInv is an invariant of the ring.
THEOREM Invariance == Spec => []IInv
<1>1. IInv /\ [Next]_vars => IInv'
  BY ProducerIInv, ConsumerIInv, StutterIInv DEF Next
<1> QED  BY InitIInv, <1>1, PTL DEF Spec

\* Every variable of the ring keeps its type: in particular rx_head, rx_tail
\* and rx_len never index outside rx_buf.
THEOREM TypeCorrect == Spec => []TypeOK
  BY Invariance, PTL DEF IInv

\* dtls_rx_cb never writes the slot dtls_recv_cb is reading, for every number
\* of slots.
THEOREM OwnershipSafe == Spec => []SlotOwnership
  BY Invariance, PTL DEF IInv

-----------------------------------------------------------------------------
(* The ring implements DgramQueue *)

\* A slot holds a sequence of rx_len cells.
LEMMA StoredType ==
  ASSUME TypeOK, NEW s \in Slot
  PROVE  /\ rx_len[s] \in Nat
         /\ Stored(s) \in Seq(Cell)
         /\ Len(Stored(s)) = rx_len[s]
<1> USE DgramAssumption
<1>1. rx_len[s] \in Nat /\ rx_len[s] <= DTLS_MAX_DGRAM
  BY DEF TypeOK
<1>2. \A c \in 1 .. rx_len[s] : rx_buf[s][c] \in Cell
  BY <1>1 DEF TypeOK
<1>3. Stored(s) \in [1 .. rx_len[s] -> Cell]
  BY <1>2 DEF Stored
<1> QED  BY <1>1, <1>3

\* Contents is a sequence of Count datagrams; it is empty when the indices
\* meet and full when the producer is one slot behind the consumer.
LEMMA CountFacts ==
  ASSUME TypeOK
  PROVE  /\ Count \in 0 .. DTLS_RX_SLOTS - 1
         /\ Contents \in Seq(Seq(Cell))
         /\ Len(Contents) = Count
         /\ Count = 0 <=> rx_head = rx_tail
         /\ Count = DTLS_RX_SLOTS - 1 <=> NextSlot(rx_head) = rx_tail
<1> USE SlotsAssumption, DgramAssumption
<1>1. rx_head \in Slot /\ rx_tail \in Slot
  BY DEF TypeOK
<1>2. NextSlot(rx_head) = IF rx_head = DTLS_RX_SLOTS - 1 THEN 0 ELSE rx_head + 1
  BY <1>1, NextSlotValue
<1>3. /\ Count \in 0 .. DTLS_RX_SLOTS - 1
      /\ Count = 0 <=> rx_head = rx_tail
      /\ Count = DTLS_RX_SLOTS - 1 <=> NextSlot(rx_head) = rx_tail
  BY <1>1, <1>2 DEF Count, Slot
<1>4. \A k \in 1 .. Count : Wrap(rx_tail + k - 1) \in Slot
  BY <1>1, <1>3 DEF Wrap, Slot
<1>5. \A s \in Slot : Stored(s) \in Seq(Cell)
  BY StoredType
<1> QED  BY <1>3, <1>4, <1>5 DEF Contents

\* The slot rx_head is outside the part of the ring that holds datagrams.
LEMMA HeadFree ==
  ASSUME TypeOK, NEW k \in 1 .. Count
  PROVE  Wrap(rx_tail + k - 1) \in Slot \ {rx_head}
<1> USE SlotsAssumption
<1>1. rx_head \in Slot /\ rx_tail \in Slot
  BY DEF TypeOK
<1> QED  BY <1>1 DEF Count, Wrap, Slot

\* Writing into the slot rx_head does not change the datagrams held.
LEMMA WriteInvisible ==
  ASSUME TypeOK, RxCbCopy \/ RxCbLen
  PROVE  Contents' = Contents
<1>1. Count' = Count
  BY DEF RxCbCopy, RxCbLen, Count
<1>2. ASSUME NEW k \in 1 .. Count
      PROVE  Stored(Wrap(rx_tail + k - 1))' = Stored(Wrap(rx_tail + k - 1))
  <2>1. Wrap(rx_tail + k - 1) \in Slot \ {rx_head}
    BY <1>2, HeadFree
  <2>2. Wrap(rx_tail + k - 1)' = Wrap(rx_tail + k - 1)
    BY DEF RxCbCopy, RxCbLen, Wrap
  <2>3. ASSUME NEW s \in Slot \ {rx_head}
        PROVE  rx_buf'[s] = rx_buf[s] /\ rx_len'[s] = rx_len[s]
    BY DEF RxCbCopy, RxCbLen, TypeOK
  <2> QED  BY <2>1, <2>2, <2>3 DEF Stored
<1> QED  BY <1>1, <1>2 DEF Contents

\* Publishing appends the datagram that was copied in.
LEMMA PublishAppends ==
  ASSUME IInv, RxCbPublish
  PROVE  Contents' = Append(Contents, data) /\ Count < DTLS_RX_SLOTS - 1
<1> USE SlotsAssumption, DgramAssumption
<1>1. rx_head \in Slot /\ rx_tail \in Slot /\ TypeOK
  BY DEF IInv, TypeOK
<1>2. rx_head' = IF rx_head = DTLS_RX_SLOTS - 1 THEN 0 ELSE rx_head + 1
  BY <1>1, NextSlotValue DEF RxCbPublish
<1>3. NextSlot(rx_head) # rx_tail /\ rx_head' = NextSlot(rx_head)
  BY DEF RxCbPublish, IInv, SlotOwnership
<1>4. Count' = Count + 1 /\ Count \in 0 .. DTLS_RX_SLOTS - 2
  BY <1>1, <1>2, <1>3 DEF Count, Slot, RxCbPublish
<1>5. Stored(rx_head) = data
  <2>1. /\ rx_len[rx_head] = Len(data)
        /\ \A c \in 1 .. Len(data) : rx_buf[rx_head][c] = data[c]
    BY DEF RxCbPublish, IInv, CopyIn
  <2> QED  BY <2>1 DEF Stored, IInv, TypeOK
<1>6. Wrap(rx_tail + (Count + 1) - 1) = rx_head
  BY <1>1, <1>4 DEF Count, Wrap, Slot
<1>7. \A k \in 1 .. Count + 1 :
        Stored(Wrap(rx_tail + k - 1))' = Stored(Wrap(rx_tail + k - 1))
  BY DEF RxCbPublish, Stored, Wrap
<1>8. Contents' = [k \in 1 .. Count + 1 |-> Stored(Wrap(rx_tail + k - 1))]
  BY <1>4, <1>7 DEF Contents
<1>9. Contents \in Seq(Seq(Cell)) /\ Len(Contents) = Count
  BY <1>1, CountFacts
<1>10. \A k \in 1 .. Count : Contents[k] = Stored(Wrap(rx_tail + k - 1))
  BY DEF Contents
<1>11. Append(Contents, data)
         = [k \in 1 .. Count + 1 |-> IF k = Count + 1 THEN data ELSE Contents[k]]
  <2> DEFINE w == [k \in 1 .. Count + 1 |-> IF k = Count + 1 THEN data ELSE Contents[k]]
  <2>1. data \in Seq(Cell)
    BY DEF IInv, TypeOK
  <2>2. /\ Append(Contents, data) \in Seq(Seq(Cell))
        /\ Len(Append(Contents, data)) = Count + 1
        /\ \A k \in 1 .. Count : Append(Contents, data)[k] = Contents[k]
        /\ Append(Contents, data)[Count + 1] = data
    BY <1>9, <2>1, AppendProperties
  <2>3. w \in [1 .. Count + 1 -> Seq(Cell)]
    BY <1>9, <2>1, <1>4, ElementOfSeq
  <2>4. Append(Contents, data) \in [1 .. Count + 1 -> Seq(Cell)]
    BY <2>2, LenProperties
  <2>5. \A k \in 1 .. Count + 1 : Append(Contents, data)[k] = w[k]
    BY <2>2, <1>4
  <2> QED  BY <2>3, <2>4, <2>5
<1>12. ASSUME NEW k \in 1 .. Count + 1
       PROVE  Stored(Wrap(rx_tail + k - 1))
                = IF k = Count + 1 THEN data ELSE Contents[k]
  BY <1>4, <1>5, <1>6, <1>10
<1>13. Contents' = Append(Contents, data)
  BY <1>8, <1>11, <1>12
<1> QED  BY <1>4, <1>13

\* Advancing rx_tail removes the oldest datagram, and what dtls_recv_cb
\* returns is that datagram cut to the size of wolfSSL's buffer.
LEMMA AdvanceRemoves ==
  ASSUME IInv, RecvAdvance
  PROVE  /\ Contents # <<>>
         /\ Contents' = Tail(Contents)
         /\ \E sz \in ReadSizes : ret' = Clip(Head(Contents), sz)
<1> USE SlotsAssumption, DgramAssumption
<1>1. rx_head \in Slot /\ rx_tail \in Slot /\ TypeOK /\ rx_head # rx_tail
  BY DEF IInv, TypeOK, SlotOwnership, RecvAdvance
<1>2. rx_tail' = IF rx_tail = DTLS_RX_SLOTS - 1 THEN 0 ELSE rx_tail + 1
  BY <1>1, NextSlotValue DEF RecvAdvance
<1>3. Count' = Count - 1 /\ Count \in 1 .. DTLS_RX_SLOTS - 1
  BY <1>1, <1>2 DEF Count, Slot, RecvAdvance
<1>4. Contents \in Seq(Seq(Cell)) /\ Len(Contents) = Count /\ Contents # <<>>
  BY <1>1, <1>3, CountFacts
<1>5. \A k \in 1 .. Count : Contents[k] = Stored(Wrap(rx_tail + k - 1))
  BY DEF Contents
<1>6. Head(Contents) = Stored(rx_tail)
  <2>1. Wrap(rx_tail + 1 - 1) = rx_tail
    BY <1>1 DEF Wrap, Slot
  <2> QED  BY <1>3, <1>4, <1>5, <2>1
<1>7. Contents' = [k \in 1 .. Count - 1 |-> Stored(Wrap(rx_tail + (k + 1) - 1))]
  <2>1. \A k \in 1 .. Count - 1 :
          Wrap(rx_tail + k - 1)' = Wrap(rx_tail + (k + 1) - 1)
    BY <1>1, <1>2, <1>3 DEF Wrap, Slot
  <2>2. \A s : Stored(s)' = [c \in 1 .. rx_len[s] |-> rx_buf[s][c]]
    BY DEF RecvAdvance, Stored
  <2> QED  BY <1>3, <2>1, <2>2 DEF Contents, Stored
<1>8. Tail(Contents) = [k \in 1 .. Count - 1 |-> Contents[k + 1]]
  <2>1. /\ Tail(Contents) \in Seq(Seq(Cell))
        /\ Len(Tail(Contents)) = Count - 1
        /\ \A k \in 1 .. Count - 1 : Tail(Contents)[k] = Contents[k + 1]
    BY <1>4, HeadTailProperties
  <2>2. DOMAIN Tail(Contents) = 1 .. Count - 1
        /\ Tail(Contents) = [k \in DOMAIN Tail(Contents) |-> Tail(Contents)[k]]
    BY <2>1, LenProperties
  <2> QED  BY <2>1, <2>2
<1>9. \A k \in 1 .. Count - 1 :
        Contents[k + 1] = Stored(Wrap(rx_tail + (k + 1) - 1))
  BY <1>3, <1>5
<1>10. PICK sz \in ReadSizes : n = Least(rx_len[rx_tail], sz)
  BY DEF IInv, CopyOut, RecvAdvance
<1>11. ret' = Clip(Stored(rx_tail), sz)
  <2>1. /\ ret' = buf /\ Len(buf) = n /\ buf \in Seq(Cell)
        /\ \A c \in 1 .. Len(buf) : buf[c] = rx_buf[rx_tail][c]
    BY DEF IInv, TypeOK, CopyOut, RecvAdvance
  <2>2. rx_len[rx_tail] \in Nat /\ Stored(rx_tail) \in Seq(Cell)
        /\ Len(Stored(rx_tail)) = rx_len[rx_tail]
    BY <1>1, StoredType
  <2>3. \A c \in 1 .. n : Stored(rx_tail)[c] = rx_buf[rx_tail][c]
    BY <1>10, <2>2 DEF Stored, Least
  <2>4. Clip(Stored(rx_tail), sz) = [c \in 1 .. n |-> Stored(rx_tail)[c]]
    BY <1>10, <2>2 DEF Clip
  <2>5. buf = [c \in 1 .. n |-> buf[c]]
    BY <2>1
  <2> QED  BY <2>1, <2>3, <2>4, <2>5
<1> QED  BY <1>4, <1>6, <1>7, <1>8, <1>9, <1>10, <1>11

\* dtls_rx_cb and dtls_recv_cb together behave as the bounded FIFO of
\* DgramQueue, for every ring size, datagram set and interleaving.
THEOREM Refinement == Spec => ImplementsQueue
<1> USE SlotsAssumption, DgramAssumption
<1>1. Init => Queue!QInit
  <2> SUFFICES ASSUME Init PROVE Queue!QInit
    OBVIOUS
  <2>1. Count = 0
    BY DEF Init, Count
  <2>2. Contents = <<>>
    BY <2>1 DEF Contents
  <2> QED  BY <2>2 DEF Init, Queue!QInit
<1>2. IInv /\ [Next]_vars => [Queue!QNext]_(Queue!qvars)
  <2> SUFFICES ASSUME IInv, [Next]_vars PROVE [Queue!QNext]_(Queue!qvars)
    OBVIOUS
  <2>c. /\ Count \in 0 .. DTLS_RX_SLOTS - 1 /\ Len(Contents) = Count
        /\ Contents \in Seq(Seq(Cell))
        /\ Count = 0 <=> rx_head = rx_tail
        /\ Count = DTLS_RX_SLOTS - 1 <=> NextSlot(rx_head) = rx_tail
    BY CountFacts DEF IInv
  <2>s. ASSUME UNCHANGED shared  PROVE Contents' = Contents
    <3>1. Count' = Count
      BY <2>s DEF shared, Count
    <3>2. \A s : Stored(s)' = [c \in 1 .. rx_len[s] |-> rx_buf[s][c]]
      BY <2>s DEF shared, Stored
    <3>3. \A k \in 1 .. Count : Wrap(rx_tail + k - 1)' = Wrap(rx_tail + k - 1)
      BY <2>s DEF shared, Wrap
    <3> QED  BY <3>1, <3>2, <3>3 DEF Contents, Stored
  <2>1. CASE RxCbDrop
    <3>1. Queue!Drop
      BY <2>1, <2>c, <2>s DEF RxCbDrop, Queue!Drop, consumer
    <3> QED  BY <3>1 DEF Queue!QNext
  <2>2. ASSUME NEW d \in Datagram, RxCbAccept(d)
        PROVE  UNCHANGED Queue!qvars
    BY <2>2, <2>s DEF RxCbAccept, Queue!qvars, consumer
  <2>3. CASE RxCbCopy \/ RxCbLen
    BY <2>3, WriteInvisible DEF RxCbCopy, RxCbLen, Queue!qvars, consumer, IInv
  <2>4. CASE RxCbPublish
    <3>1. Contents' = Append(Contents, data) /\ Count < DTLS_RX_SLOTS - 1
      BY <2>4, PublishAppends
    <3>2. PICK d \in Datagram : data = Clip(d, DTLS_MAX_DGRAM)
      BY <2>4 DEF RxCbPublish, IInv, CopyIn
    <3>3. data = Queue!Clip(d, DTLS_MAX_DGRAM)
      BY <3>2 DEF Clip, Queue!Clip, Least, Queue!Least
    <3>4. Queue!Put(d)
      BY <2>4, <2>c, <3>1, <3>3 DEF RxCbPublish, Queue!Put, consumer
    <3> QED  BY <3>4 DEF Queue!QNext
  <2>5. CASE RecvEmpty
    <3>1. Contents = <<>>
      BY <2>5, <2>c DEF RecvEmpty
    <3>2. Queue!Empty
      BY <2>5, <2>s, <3>1 DEF RecvEmpty, Queue!Empty, producer
    <3> QED  BY <3>2 DEF Queue!QNext
  <2>6. ASSUME NEW sz \in ReadSizes, RecvLen(sz)
        PROVE  UNCHANGED Queue!qvars
    BY <2>6, <2>s DEF RecvLen, Queue!qvars, producer
  <2>7. CASE RecvCopy
    BY <2>7, <2>s DEF RecvCopy, Queue!qvars, producer
  <2>8. CASE RecvAdvance
    <3>1. /\ Contents # <<>> /\ Contents' = Tail(Contents)
      BY <2>8, AdvanceRemoves
    <3>2. PICK sz \in ReadSizes : ret' = Clip(Head(Contents), sz)
      BY <2>8, AdvanceRemoves
    <3>3. ret' = Queue!Clip(Head(Contents), sz)
      BY <3>2 DEF Clip, Queue!Clip, Least, Queue!Least
    <3>4. Queue!Get(sz)
      BY <2>8, <3>1, <3>3 DEF RecvAdvance, Queue!Get, producer
    <3> QED  BY <3>4 DEF Queue!QNext
  <2>9. CASE UNCHANGED vars
    BY <2>9, <2>s DEF vars, producer, consumer, Queue!qvars
  <2> QED
    BY <2>1, <2>2, <2>3, <2>4, <2>5, <2>6, <2>7, <2>8, <2>9 DEF Next
<1> QED  BY <1>1, <1>2, Invariance, PTL DEF Spec, ImplementsQueue, Queue!QSpec
=============================================================================
