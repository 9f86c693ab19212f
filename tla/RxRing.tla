------------------------------- MODULE RxRing -------------------------------
(***************************************************************************)
(* The receive ring of src/boot/dtls_io.c: rx_buf, rx_len, rx_head and     *)
(* rx_tail, filled by dtls_rx_cb (in the ethmac ISR of the interrupt       *)
(* build) and emptied by dtls_recv_cb (main loop).                         *)
(*                                                                         *)
(* Each access to shared memory is a step, the memcpys cell by cell, and   *)
(* the steps of the two sides interleave freely.  The firmware allows      *)
(* fewer interleavings (the ISR runs to completion; the polled build runs  *)
(* both sides in one loop), so what holds here holds in both builds.       *)
(* Compiler reordering across the volatile indices is not modelled: GCC    *)
(* keeps the memcpy calls of the two callbacks in program order.           *)
(***************************************************************************)
EXTENDS Naturals, Sequences

CONSTANTS
    DTLS_RX_SLOTS,  \* slots of the ring, one of which stays empty
    DTLS_MAX_DGRAM, \* cells of a slot
    Cell, Zero,     \* contents of a memory cell; Zero is .bss
    Datagram,       \* what the driver may hand to dtls_rx_cb
    ReadSizes,      \* buffer sizes wolfSSL passes to dtls_recv_cb
    WANT_READ,      \* WOLFSSL_CBIO_ERR_WANT_READ
    MaxCalls,       \* bound: completed driver callbacks
    MaxReads        \* bound: completed receive calls

ASSUME SlotsAssumption == DTLS_RX_SLOTS \in Nat /\ DTLS_RX_SLOTS >= 2
ASSUME DgramAssumption == /\ DTLS_MAX_DGRAM \in Nat
                          /\ Zero \in Cell
                          /\ Datagram \subseteq Seq(Cell)
                          /\ ReadSizes \subseteq Nat
ASSUME BoundAssumption == MaxCalls \in Nat /\ MaxReads \in Nat

VARIABLES
    rx_buf, rx_len,   \* slot contents and lengths
    rx_head, rx_tail, \* next write slot, next read slot
    cbState,          \* program counter of dtls_rx_cb
    data,             \* the datagram being stored, clipped to n cells
    copied,           \* cells of data already in the slot
    recvState,        \* program counter of dtls_recv_cb
    n,                \* cells dtls_recv_cb will return
    buf,              \* cells it has copied to wolfSSL's buffer
    ret,              \* result of the last completed dtls_recv_cb
    calls, reads      \* completed calls of either side

shared == <<rx_buf, rx_len, rx_head, rx_tail>>
producer == <<cbState, data, copied, calls>>
consumer == <<recvState, n, buf, ret, reads>>
vars == <<shared, producer, consumer>>

Slot == 0 .. DTLS_RX_SLOTS - 1

\* Mutant: the index is not wrapped.
NextSlotNoWrap(i) == i + 1

NextSlot(i) == (i + 1) % DTLS_RX_SLOTS

Least(a, b) == IF a <= b THEN a ELSE b

Clip(d, m) == [i \in 1 .. Least(Len(d), m) |-> d[i]]

\* dtls_io_init empties the ring before the callback is installed.
Init == /\ rx_buf = [s \in Slot |-> [c \in 1 .. DTLS_MAX_DGRAM |-> Zero]]
        /\ rx_len = [s \in Slot |-> 0]
        /\ rx_head = 0 /\ rx_tail = 0
        /\ cbState = "idle" /\ data = <<>> /\ copied = 0 /\ calls = 0
        /\ recvState = "idle" /\ n = 0 /\ buf = <<>> /\ ret = WANT_READ
        /\ reads = 0

-----------------------------------------------------------------------------
(* dtls_rx_cb *)

\* The early return on a full ring.
RxCbDrop == /\ cbState = "idle" /\ calls < MaxCalls
            /\ NextSlot(rx_head) = rx_tail
            /\ calls' = calls + 1
            /\ UNCHANGED <<shared, cbState, data, copied, consumer>>

\* Mutant: the full test is forgotten.
RxCbAcceptAlways(d) == /\ cbState = "idle" /\ calls < MaxCalls
                       /\ data' = Clip(d, DTLS_MAX_DGRAM)
                       /\ copied' = 0
                       /\ cbState' = "copy"
                       /\ UNCHANGED <<shared, calls, consumer>>

\* Room for one more: n = min(length, DTLS_MAX_DGRAM).
RxCbAccept(d) == /\ cbState = "idle" /\ calls < MaxCalls
                 /\ NextSlot(rx_head) # rx_tail
                 /\ data' = Clip(d, DTLS_MAX_DGRAM)
                 /\ copied' = 0
                 /\ cbState' = "copy"
                 /\ UNCHANGED <<shared, calls, consumer>>

\* One cell of memcpy(rx_buf[rx_head], data, n).
RxCbCopy == /\ cbState = "copy" /\ copied < Len(data)
            /\ rx_buf' = [rx_buf EXCEPT ![rx_head][copied + 1] = data[copied + 1]]
            /\ copied' = copied + 1
            /\ UNCHANGED <<rx_len, rx_head, rx_tail, cbState, data, calls, consumer>>

RxCbLen == /\ cbState = "copy" /\ copied = Len(data)
           /\ rx_len' = [rx_len EXCEPT ![rx_head] = Len(data)]
           /\ cbState' = "publish"
           /\ UNCHANGED <<rx_buf, rx_head, rx_tail, data, copied, calls, consumer>>

\* rx_head = next: only now may the consumer see the slot.
RxCbPublish == /\ cbState = "publish"
               /\ rx_head' = NextSlot(rx_head)
               /\ cbState' = "idle"
               /\ calls' = calls + 1
               /\ UNCHANGED <<rx_buf, rx_len, rx_tail, data, copied, consumer>>

-----------------------------------------------------------------------------
(* dtls_recv_cb *)

\* The early return on an empty ring.
RecvEmpty == /\ recvState = "idle" /\ reads < MaxReads
             /\ rx_head = rx_tail
             /\ ret' = WANT_READ
             /\ reads' = reads + 1
             /\ UNCHANGED <<shared, producer, recvState, n, buf>>

\* Mutant: rx_len is ignored and the whole buffer filled.
RecvLenIgnored(sz) == /\ recvState = "idle" /\ reads < MaxReads
                      /\ rx_head # rx_tail
                      /\ n' = sz
                      /\ buf' = <<>>
                      /\ recvState' = "copy"
                      /\ UNCHANGED <<shared, producer, ret, reads>>

RecvLen(sz) == /\ recvState = "idle" /\ reads < MaxReads
               /\ rx_head # rx_tail
               /\ n' = Least(rx_len[rx_tail], sz)
               /\ buf' = <<>>
               /\ recvState' = "copy"
               /\ UNCHANGED <<shared, producer, ret, reads>>

\* One cell of memcpy(buf, rx_buf[rx_tail], n).
RecvCopy == /\ recvState = "copy" /\ Len(buf) < n
            /\ buf' = Append(buf, rx_buf[rx_tail][Len(buf) + 1])
            /\ UNCHANGED <<shared, producer, recvState, n, ret, reads>>

RecvAdvance == /\ recvState = "copy" /\ Len(buf) = n
               /\ rx_tail' = NextSlot(rx_tail)
               /\ ret' = buf
               /\ recvState' = "idle"
               /\ reads' = reads + 1
               /\ UNCHANGED <<rx_buf, rx_len, rx_head, producer, n, buf>>

-----------------------------------------------------------------------------
Next == \/ RxCbDrop
        \/ \E d \in Datagram : RxCbAccept(d)
        \/ RxCbCopy
        \/ RxCbLen
        \/ RxCbPublish
        \/ RecvEmpty
        \/ \E sz \in ReadSizes : RecvLen(sz)
        \/ RecvCopy
        \/ RecvAdvance

Spec == Init /\ [][Next]_vars

-----------------------------------------------------------------------------
(* The ring as a queue: the refinement mapping. *)

\* (i + k) % DTLS_RX_SLOTS for i, k < DTLS_RX_SLOTS, without the division.
Wrap(i) == IF i >= DTLS_RX_SLOTS THEN i - DTLS_RX_SLOTS ELSE i

\* Datagrams between rx_tail and rx_head.
Count == IF rx_head >= rx_tail THEN rx_head - rx_tail
         ELSE rx_head + DTLS_RX_SLOTS - rx_tail

\* The datagram in slot s.
Stored(s) == [c \in 1 .. rx_len[s] |-> rx_buf[s][c]]

Contents == [k \in 1 .. Count |-> Stored(Wrap(rx_tail + k - 1))]

Queue == INSTANCE DgramQueue WITH Capacity <- DTLS_RX_SLOTS - 1, q <- Contents

\* The ring is a bounded FIFO of whole datagrams, under every interleaving of
\* dtls_rx_cb with dtls_recv_cb: it drops only when DTLS_RX_SLOTS - 1 datagrams
\* are waiting, never reorders, tears, duplicates or mixes datagrams, and never
\* returns cells an earlier, longer datagram left in a slot.
ImplementsQueue == Queue!QSpec

-----------------------------------------------------------------------------
TypeOK ==
    /\ rx_buf \in [Slot -> [1 .. DTLS_MAX_DGRAM -> Cell]]
    /\ rx_len \in [Slot -> 0 .. DTLS_MAX_DGRAM]
    /\ rx_head \in Slot /\ rx_tail \in Slot
    /\ cbState \in {"idle", "copy", "publish"}
    /\ data \in Seq(Cell) /\ Len(data) <= DTLS_MAX_DGRAM
    /\ copied \in 0 .. Len(data)
    /\ recvState \in {"idle", "copy"}
    /\ n \in 0 .. DTLS_MAX_DGRAM
    /\ buf \in Seq(Cell)
    /\ ret \in Seq(Cell) \cup {WANT_READ}
    /\ calls \in 0 .. MaxCalls /\ reads \in 0 .. MaxReads

\* The claim of the comment at the indices ("the ring stays SPSC ... so no lock
\* is needed"): while dtls_recv_cb copies out of slot rx_tail, dtls_rx_cb is
\* not writing that slot; and once a slot was found free it stays free until
\* it is published, however many datagrams are read meanwhile.
SlotOwnership ==
    /\ recvState = "copy" => rx_head # rx_tail
    /\ cbState # "idle" => NextSlot(rx_head) # rx_tail
=============================================================================
