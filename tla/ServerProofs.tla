---------------------------- MODULE ServerProofs ----------------------------
(***************************************************************************)
(* Whom a session of Server is with, for every set of clients and every    *)
(* bound.  The cookie works as a fence in the socket's queue: what was     *)
(* queued before connect() is older than any cookie of this session, so    *)
(* by the time the cookie comes back it has been read.                     *)
(***************************************************************************)
EXTENDS Server, TLAPS

\* No cookie or key is of a session that has not begun.
Past == /\ \A c \in Client : cl[c].sess <= sess
        /\ \A i \in 1 .. Len(sock) : sock[i].sess <= sess

Connected == sv \in {"new", "accept", "read", "write", "shutdown", "unconnect"} =>
             conn \in Client

\* A cookie of this session, and all that is queued after it, is of the client
\* the socket is connected to.
Fence == sv = "accept" =>
         \A i, j \in 1 .. Len(sock) :
             sock[i].kind = "hello2" /\ sock[i].sess = sess /\ i <= j =>
             sock[j].from = conn

Begun == stateful => /\ sv \in {"accept", "read", "write", "shutdown"}
                     /\ peer = conn
                     /\ \A i \in 1 .. Len(sock) : sock[i].from = conn

IInv == TypeOK /\ Past /\ Connected /\ Fence /\ Begun

Clients == [Client -> [waits : Waiting \cup {"nothing"}, sess : 0 .. MaxSessions]]

-----------------------------------------------------------------------------
(* What the pieces of an action do *)

\* Taking the first datagram from the socket.
LEMMA TakeFront ==
    ASSUME TypeOK, sock # <<>>, sock' = Tail(sock)
    PROVE  /\ sock' \in Seq(Datagram) /\ Front \in Datagram /\ Front = sock[1]
           /\ Len(sock) \in Nat /\ Len(sock) > 0 /\ Len(sock') = Len(sock) - 1
           /\ \A i \in 1 .. Len(sock') : i + 1 \in 1 .. Len(sock) /\ sock'[i] = sock[i + 1]
<1>1. sock \in Seq(Datagram)
  BY DEF TypeOK
<1>2. Len(sock) \in Nat /\ Len(sock) > 0 /\ Front = sock[1] /\ Front \in Datagram
  BY <1>1 DEF Front
<1>3. sock' \in Seq(Datagram) /\ Len(sock') = Len(sock) - 1
  BY <1>1, <1>2
<1>4. \A i \in 1 .. Len(sock') : i + 1 \in 1 .. Len(sock) /\ sock'[i] = sock[i + 1]
  BY <1>1, <1>2, <1>3
<1> QED
  BY <1>2, <1>3, <1>4

\* A client that is told something has keys or a cookie of this session.
LEMMA Told ==
    ASSUME TypeOK, Past, NEW c \in Client, NEW w, NEW x \in Waiting \cup {"nothing"},
           Tell(c, w, x)
    PROVE  cl' \in Clients /\ \A d \in Client : cl'[d].sess <= sess
<1> USE ServerAssumption
<1>1. CASE cl' = [cl EXCEPT ![c] = [waits |-> x, sess |-> sess]]
  <2>1. [waits |-> x, sess |-> sess] \in [waits : Waiting \cup {"nothing"}, sess : 0 .. MaxSessions]
    BY DEF TypeOK
  <2>2. cl' \in Clients
    BY <1>1, <2>1 DEF TypeOK, Clients
  <2>3. \A d \in Client : cl'[d].sess <= sess
    BY <1>1 DEF TypeOK, Past
  <2> QED
    BY <2>2, <2>3
<1>2. CASE UNCHANGED cl
  BY <1>2 DEF TypeOK, Past, Clients
<1> QED
  BY <1>1, <1>2 DEF Tell

\* A datagram that arrives is queued last, and is of the connected client if the
\* socket is connected.
LEMMA Arrived ==
    ASSUME IInv, NEW c \in Client, NEW kind \in {"hello", "hello2", "finished", "app"},
           Arrive(c, kind), UNCHANGED <<sv, conn, session>>
    PROVE  /\ sock' \in Seq(Datagram)
           /\ \A i \in 1 .. Len(sock') : sock'[i].sess <= sess
           /\ Fence' /\ Begun'
<1> USE ServerAssumption
<1>1. CASE UNCHANGED sock
  BY <1>1 DEF IInv, TypeOK, Past, Fence, Begun, session
<1>2. CASE /\ conn \in {NoPeer, c}
           /\ sock' = Append(sock, [from |-> c, kind |-> kind, sess |-> cl[c].sess])
  <2> DEFINE d == [from |-> c, kind |-> kind, sess |-> cl[c].sess]
  <2>1. d \in Datagram /\ d.from = c /\ d.sess <= sess
    BY DEF IInv, TypeOK, Past, Datagram
  <2>2. sock \in Seq(Datagram) /\ Len(sock) \in Nat
    BY DEF IInv, TypeOK
  <2>3. /\ sock' \in Seq(Datagram) /\ Len(sock') = Len(sock) + 1
        /\ \A i \in 1 .. Len(sock) : sock'[i] = sock[i]
        /\ sock'[Len(sock')] = d
    BY <1>2, <2>1, <2>2
  <2> HIDE DEF d
  <2>4. \A i \in 1 .. Len(sock') : sock'[i].sess <= sess
    BY <2>1, <2>2, <2>3 DEF IInv, Past
  <2>5. Fence'
    BY <1>2, <2>1, <2>2, <2>3 DEF IInv, Fence, Connected, session
  <2>6. Begun'
    BY <1>2, <2>1, <2>2, <2>3 DEF IInv, Begun, Connected, session
  <2> QED
    BY <2>3, <2>4, <2>5, <2>6
<1> QED
  BY <1>1, <1>2 DEF Arrive

-----------------------------------------------------------------------------
\* The server starts unconnected, with nothing queued and no session.
LEMMA Initially == Init => IInv
<1> SUFFICES ASSUME Init PROVE IInv
  OBVIOUS
<1> USE ServerAssumption
<1>1. sock \in Seq(Datagram) /\ Len(sock) = 0
  BY DEF Init
<1>2. TypeOK
  <2>1. stateful \in BOOLEAN
    BY Zenon DEF Init
  <2>2. cl \in Clients
    BY DEF Init, Clients, Waiting
  <2> QED
    BY <1>1, <2>1, <2>2 DEF Init, TypeOK, Clients
<1>3. Past /\ Connected /\ Fence /\ Begun
  BY <1>1 DEF Init, Past, Connected, Fence, Begun
<1> QED
  BY <1>2, <1>3 DEF IInv

\* A client sends or gives up.
LEMMA ClientStep == ASSUME IInv, NEW c \in Client, Step(c) PROVE IInv'
<1> USE ServerAssumption
<1>1. CASE Transmit(c)
  <2>1. Flight[cl[c].waits] \in {"hello", "hello2", "finished", "app"}
    BY <1>1 DEF Transmit, Flight
  <2>2. /\ sock' \in Seq(Datagram) /\ Fence' /\ Begun'
        /\ \A i \in 1 .. Len(sock') : sock'[i].sess <= sess
    BY <1>1, <2>1, Arrived DEF Transmit
  <2>3. sends' \in [Client -> 0 .. MaxSends]
    BY <1>1 DEF Transmit, IInv, TypeOK
  <2> QED
    BY <1>1, <2>2, <2>3 DEF Transmit, IInv, TypeOK, Past, Connected, session
<1>2. CASE SendApp(c)
  <2>1. /\ sock' \in Seq(Datagram) /\ Fence' /\ Begun'
        /\ \A i \in 1 .. Len(sock') : sock'[i].sess <= sess
    BY <1>2, Arrived DEF SendApp
  <2>2. cl' \in Clients /\ \A d \in Client : cl'[d].sess = cl[d].sess
    BY <1>2 DEF SendApp, IInv, TypeOK, Clients, Waiting
  <2> QED
    BY <1>2, <2>1, <2>2 DEF SendApp, IInv, TypeOK, Past, Connected, session, Clients
<1>3. CASE GiveUp(c)
  <2>1. cl' \in Clients /\ \A d \in Client : cl'[d].sess = cl[d].sess
    BY <1>3 DEF GiveUp, IInv, TypeOK, Clients, Waiting
  <2>2. TypeOK' /\ Past' /\ Connected'
    BY <1>3, <2>1 DEF GiveUp, IInv, TypeOK, Past, Connected, session, Clients
  <2>3. Fence' /\ Begun'
    BY <1>3 DEF GiveUp, IInv, Fence, Begun, session
  <2> QED
    BY <2>2, <2>3 DEF IInv
<1> QED
  BY <1>1, <1>2, <1>3 DEF Step

-----------------------------------------------------------------------------
\* What taking a datagram leaves of the facts about the queue.
LEMMA Taken ==
    ASSUME IInv, sock # <<>>, sock' = Tail(sock), UNCHANGED <<conn, sess>>
    PROVE  /\ sock' \in Seq(Datagram) /\ Front \in Datagram
           /\ \A i \in 1 .. Len(sock') : sock'[i].sess <= sess
           /\ sv = "accept" /\ sv' = "accept" => Fence'
           /\ (\A i \in 1 .. Len(sock) : sock[i].from = conn) =>
              \A i \in 1 .. Len(sock') : sock'[i].from = conn
<1> USE ServerAssumption
<1>1. /\ sock' \in Seq(Datagram) /\ Front \in Datagram /\ Front = sock[1]
      /\ Len(sock) \in Nat /\ Len(sock) > 0 /\ Len(sock') = Len(sock) - 1
      /\ \A i \in 1 .. Len(sock') : i + 1 \in 1 .. Len(sock) /\ sock'[i] = sock[i + 1]
  BY TakeFront DEF IInv
<1>2. \A i \in 1 .. Len(sock') : sock'[i].sess <= sess
  BY <1>1 DEF IInv, Past
<1>3. sv = "accept" /\ sv' = "accept" => Fence'
  BY <1>1 DEF IInv, Fence
<1>4. (\A i \in 1 .. Len(sock) : sock[i].from = conn) =>
      \A i \in 1 .. Len(sock') : sock'[i].from = conn
  BY <1>1
<1> QED
  BY <1>1, <1>2, <1>3, <1>4

\* wolfSSL reads a datagram before the session is stateful.
LEMMA StatelessStep ==
    ASSUME IInv, Hello \/ CookieGood \/ CookieBad \/ StatelessDrop
    PROVE  IInv'
<1> USE ServerAssumption
<1>1. Stateless /\ UNCHANGED <<sv, conn, sess, sends>>
  BY DEF Hello, CookieGood, CookieBad, StatelessDrop
<1>2. /\ sock' \in Seq(Datagram) /\ Front \in Datagram
      /\ \A i \in 1 .. Len(sock') : sock'[i].sess <= sess
      /\ Fence'
  BY <1>1, Taken DEF Stateless
<1>3. Front.from \in Client
  BY <1>2 DEF Datagram
<1>4. cl' \in Clients /\ \A d \in Client : cl'[d].sess <= sess
  <2>1. CASE Hello
    BY <2>1, <1>3, Told DEF Hello, IInv, Waiting
  <2>2. CASE CookieGood
    BY <2>2, <1>3, Told DEF CookieGood, IInv, Waiting
  <2>3. CASE CookieBad
    BY <2>3, <1>3, Told DEF CookieBad, IInv, Waiting
  <2>4. CASE StatelessDrop
    BY <2>4 DEF StatelessDrop, IInv, TypeOK, Past, Clients
  <2> QED
    BY <2>1, <2>2, <2>3, <2>4
<1>5. stateful' \in BOOLEAN /\ tmo' \in 0 .. MaxTimeouts
  <2>1. stateful \in BOOLEAN /\ tmo \in 0 .. MaxTimeouts /\ 0 \in 0 .. MaxTimeouts
    BY DEF IInv, TypeOK
  <2> QED
    BY <2>1, Zenon DEF Hello, CookieGood, CookieBad, StatelessDrop
<1>6. TypeOK' /\ Past' /\ Connected'
  BY <1>1, <1>2, <1>3, <1>4, <1>5 DEF Stateless, IInv, TypeOK, Past, Connected, Clients
<1>7. Begun'
  <2>1. CASE CookieGood
    <3>1. \A i \in 1 .. Len(sock) : sock[i].from = conn
      <4>1. Len(sock) \in Nat /\ Len(sock) > 0 /\ Front = sock[1]
        BY <1>1, TakeFront DEF Stateless, IInv
      <4> QED
        BY <2>1, <4>1 DEF CookieGood, Stateless, IInv, Fence
    <3>2. \A i \in 1 .. Len(sock') : sock'[i].from = conn
      BY <1>1, <3>1, Taken DEF Stateless
    <3>3. peer' = conn
      BY <1>1, <3>1, TakeFront DEF Stateless, IInv
    <3> QED
      BY <1>1, <3>2, <3>3 DEF Begun, Stateless
  <2>2. CASE Hello \/ CookieBad \/ StatelessDrop
    BY <1>1, <2>2, Zenon DEF Hello, CookieBad, StatelessDrop, Stateless, Begun
  <2> QED
    BY <2>1, <2>2
<1> QED
  BY <1>2, <1>6, <1>7 DEF IInv

\* wolfSSL reads a datagram of the session.
LEMMA StatefulStep == ASSUME IInv, AcceptRecord \/ ReadRecord PROVE IInv'
<1> USE ServerAssumption
<1>1. /\ sock # <<>> /\ sock' = Tail(sock) /\ UNCHANGED <<conn, session, sends>>
      /\ sv \in {"accept", "read"} /\ sv' \in {"accept", "read", "write", "shutdown"}
      /\ sv' = "accept" => sv = "accept"
  BY DEF AcceptRecord, ReadRecord
<1>2. /\ sock' \in Seq(Datagram) /\ Front \in Datagram
      /\ \A i \in 1 .. Len(sock') : sock'[i].sess <= sess
      /\ sv = "accept" /\ sv' = "accept" => Fence'
      /\ (\A i \in 1 .. Len(sock) : sock[i].from = conn) =>
         \A i \in 1 .. Len(sock') : sock'[i].from = conn
  BY <1>1, Taken DEF session
<1>3. Front.from \in Client
  BY <1>2 DEF Datagram
<1>4. cl' \in Clients /\ \A d \in Client : cl'[d].sess <= sess
  <2>1. CASE UNCHANGED cl
    BY <2>1 DEF IInv, TypeOK, Past, Clients
  <2>2. CASE Tell(Front.from, "ack", "turn")
    BY <2>2, <1>3, Told DEF IInv, Waiting
  <2> QED
    BY <2>1, <2>2 DEF AcceptRecord, ReadRecord
<1>5. TypeOK' /\ Past' /\ Connected'
  BY <1>1, <1>2, <1>4 DEF IInv, TypeOK, Past, Connected, Clients, session
<1>6. Fence'
  BY <1>1, <1>2 DEF Fence
<1>7. Begun'
  BY <1>1, <1>2 DEF IInv, Begun, session
<1> QED
  BY <1>5, <1>6, <1>7 DEF IInv

\* The main loop without a datagram.
LEMMA LoopStep ==
    ASSUME IInv, \/ PeekConnect \/ New \/ NewFails \/ AcceptTimeout \/ AcceptError
                 \/ Write \/ Shutdown \/ Unconnect
    PROVE  IInv'
<1> USE ServerAssumption
<1>0. /\ sock \in Seq(Datagram) /\ Len(sock) \in Nat /\ sess \in Nat
      /\ sock # <<>> => Front \in Datagram
  BY DEF IInv, TypeOK, Front
<1>1. CASE PeekConnect
  <2>1. Front.from \in Client
    BY <1>0, <1>1 DEF PeekConnect, Datagram
  <2>2. TypeOK' /\ Past' /\ Connected' /\ Fence'
    BY <1>1, <2>1 DEF PeekConnect, IInv, TypeOK, Past, Connected, Fence, session
  <2>3. Begun'
    BY <1>1 DEF PeekConnect, IInv, Begun, session
  <2> QED
    BY <2>2, <2>3 DEF IInv
<1>2. CASE New
  <2>1. TypeOK'
    <3>1. stateful' \in BOOLEAN
      BY <1>2, Zenon DEF New
    <3> QED
      BY <1>2, <3>1 DEF New, IInv, TypeOK
  <2>2. sess' = sess + 1 /\ (\A i \in 1 .. Len(sock) : sock[i].sess \in Nat)
    <3>1. \A i \in 1 .. Len(sock) : sock[i] \in Datagram
      BY <1>0
    <3>2. \A d \in Datagram : d.sess \in Nat
      BY DEF Datagram
    <3> QED
      BY <1>2, <3>1, <3>2 DEF New
  <2>3. Past' /\ (\A i \in 1 .. Len(sock) : sock[i].sess # sess')
    <3>1. \A c \in Client : cl[c].sess \in Nat
      BY DEF IInv, TypeOK
    <3> QED
      BY <1>0, <1>2, <2>2, <3>1 DEF New, IInv, Past
  <2>4. Connected' /\ Fence'
    BY <1>2, <2>3 DEF New, IInv, Connected, Fence
  <2>5. Begun'
    BY <1>2 DEF New, Begun
  <2> QED
    BY <2>1, <2>3, <2>4, <2>5 DEF IInv
<1>3. CASE NewFails
  BY <1>3 DEF NewFails, IInv, TypeOK, Past, Connected, Fence, Begun, session
<1>4. CASE AcceptTimeout
  <2>1. cl' \in Clients /\ \A d \in Client : cl'[d].sess <= sess
    <3>1. CASE UNCHANGED cl
      BY <3>1 DEF IInv, TypeOK, Past, Clients
    <3>2. CASE stateful /\ Tell(peer, "flight", "ack")
      <4>1. peer \in Client
        BY <1>4, <3>2 DEF AcceptTimeout, IInv, Connected, Begun
      <4> QED
        BY <3>2, <4>1, Told DEF IInv, Waiting
    <3> QED
      BY <1>4, <3>1, <3>2 DEF AcceptTimeout
  <2>2. tmo' \in 0 .. MaxTimeouts /\ sv' \in {"accept", "shutdown"} /\ sv = "accept"
    BY <1>4 DEF AcceptTimeout, IInv, TypeOK
  <2>3. TypeOK' /\ Past' /\ Connected'
    BY <1>4, <2>1, <2>2 DEF AcceptTimeout, IInv, TypeOK, Past, Connected, Clients
  <2>4. Fence' /\ Begun'
    BY <1>4, <2>2 DEF AcceptTimeout, IInv, Fence, Begun
  <2> QED
    BY <2>3, <2>4 DEF IInv
<1>5. CASE AcceptError
  BY <1>5 DEF AcceptError, IInv, TypeOK, Past, Connected, Fence, Begun, session
<1>6. CASE Write
  <2>0. cl' \in Clients /\ \A d \in Client : cl'[d].sess <= sess
    <3>1. CASE UNCHANGED cl
      BY <3>1 DEF IInv, TypeOK, Past, Clients
    <3>2. CASE cl[peer].waits = "reply" /\ cl' = [cl EXCEPT ![peer] = [waits |-> "nothing", sess |-> sess]]
      <4>1. [waits |-> "nothing", sess |-> sess] \in
            [waits : Waiting \cup {"nothing"}, sess : 0 .. MaxSessions]
        BY DEF IInv, TypeOK
      <4>2. cl' \in Clients
        BY <3>2, <4>1 DEF IInv, TypeOK, Clients
      <4> QED
        BY <3>2, <4>2 DEF IInv, TypeOK, Past
    <3> QED
      BY <1>6, <3>1, <3>2 DEF Write, Tell
  <2>1. TypeOK' /\ Past' /\ Connected'
    BY <1>6, <2>0 DEF Write, IInv, TypeOK, Past, Connected, Clients, session
  <2>2. Fence' /\ Begun'
    BY <1>6 DEF Write, IInv, Fence, Begun, session
  <2> QED
    BY <2>1, <2>2 DEF IInv
<1>7. CASE Shutdown
  <2>1. TypeOK' /\ Past' /\ Connected' /\ Fence'
    BY <1>7 DEF Shutdown, IInv, TypeOK, Past, Connected, Fence
  <2>2. Begun'
    BY <1>7 DEF Shutdown, Begun
  <2> QED
    BY <2>1, <2>2 DEF IInv
<1>8. CASE Unconnect
  <2>1. TypeOK' /\ Past' /\ Connected' /\ Fence'
    BY <1>8 DEF Unconnect, IInv, TypeOK, Past, Connected, Fence, session
  <2>2. Begun'
    BY <1>8 DEF Unconnect, IInv, Begun, session
  <2> QED
    BY <2>1, <2>2 DEF IInv
<1> QED
  BY <1>1, <1>2, <1>3, <1>4, <1>5, <1>6, <1>7, <1>8

\* Every step of the server, the network and the clients keeps the invariant.
LEMMA Inductive == IInv /\ [Next]_vars => IInv'
<1> SUFFICES ASSUME IInv, [Next]_vars PROVE IInv'
  OBVIOUS
<1>1. CASE Main \/ Errors
  BY <1>1, StatelessStep, StatefulStep, LoopStep DEF Main, Errors, Receive
<1>2. CASE \E c \in Client : Step(c)
  BY <1>2, ClientStep
<1>3. CASE UNCHANGED vars
  BY <1>3 DEF vars, session, IInv, TypeOK, Past, Connected, Fence, Begun
<1> QED
  BY <1>1, <1>2, <1>3 DEF Next

\* The loop of main keeps its variables in their types; in particular wolfSSL_accept
\* gives up before its time-outs exceed their maximum, whatever the clients do.
THEOREM TypeCorrect == Spec => []TypeOK
<1>1. IInv => TypeOK
  BY DEF IInv
<1> QED
  BY <1>1, Initially, Inductive, PTL DEF Spec

\* A session of the server is with the client its socket is connected to,
\* whatever other clients have queued before connect().
THEOREM PeerCorrect == Spec => []SessionWithPeer
<1>1. IInv => SessionWithPeer
  BY DEF IInv, Begun, SessionWithPeer
<1> QED
  BY <1>1, Initially, Inductive, PTL DEF Spec

\* Once the session has begun the socket's queue holds datagrams of its client
\* only, so EmbedReceiveFrom never fails on a foreign one.
THEOREM QueueCorrect == Spec => []QueueIsPeers
<1>1. IInv => QueueIsPeers
  BY DEF IInv, TypeOK, Begun, QueueIsPeers
<1> QED
  BY <1>1, Initially, Inductive, PTL DEF Spec
=============================================================================
