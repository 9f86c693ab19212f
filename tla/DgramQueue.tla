----------------------------- MODULE DgramQueue -----------------------------
(***************************************************************************)
(* What the receive ring of src/boot/dtls_io.c promises to its two users,  *)
(* the liteeth receive callback and wolfSSL's receive callback: a bounded  *)
(* first-in first-out queue of whole datagrams that loses a datagram only  *)
(* when it is full, answers WANT_READ only when it is empty, and shortens  *)
(* a datagram only to the two limits the code names (DTLS_MAX_DGRAM on the *)
(* way in, the reader's buffer size on the way out).                       *)
(***************************************************************************)
EXTENDS Naturals, Sequences

CONSTANTS
    Capacity,       \* datagrams the queue can hold
    DTLS_MAX_DGRAM, \* longest datagram it keeps whole
    Datagram,       \* what the network may deliver
    ReadSizes,      \* buffer sizes wolfSSL passes to its receive callback
    WANT_READ       \* the answer of an empty queue

VARIABLES
    q,     \* the datagrams held, oldest first
    ret,   \* what the last completed receive call returned
    calls, \* completed receive callbacks of the driver
    reads  \* completed receive calls of wolfSSL

qvars == <<q, ret, calls, reads>>

Least(a, b) == IF a <= b THEN a ELSE b

\* memcpy(dst, d, min(Len(d), m)): the first m cells of d.
Clip(d, m) == [i \in 1 .. Least(Len(d), m) |-> d[i]]

QInit == q = <<>> /\ ret = WANT_READ /\ calls = 0 /\ reads = 0

Put(d) == /\ Len(q) < Capacity
          /\ q' = Append(q, Clip(d, DTLS_MAX_DGRAM))
          /\ calls' = calls + 1
          /\ UNCHANGED <<ret, reads>>

Drop == /\ Len(q) = Capacity
        /\ calls' = calls + 1
        /\ UNCHANGED <<q, ret, reads>>

Get(sz) == /\ q # <<>>
           /\ ret' = Clip(Head(q), sz)
           /\ q' = Tail(q)
           /\ reads' = reads + 1
           /\ UNCHANGED calls

Empty == /\ q = <<>>
         /\ ret' = WANT_READ
         /\ reads' = reads + 1
         /\ UNCHANGED <<q, calls>>

QNext == \/ \E d \in Datagram : Put(d)
         \/ Drop
         \/ \E sz \in ReadSizes : Get(sz)
         \/ Empty

QSpec == QInit /\ [][QNext]_qvars
=============================================================================
