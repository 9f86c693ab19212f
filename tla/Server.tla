------------------------------- MODULE Server -------------------------------
(***************************************************************************)
(* src/host/server_dtls.c: one UDP socket, one client at a time.  The main *)
(* loop peeks at the first datagram, connects the socket to its sender,    *)
(* runs one session and un-connects.  Of wolfSSL it has what decides whom  *)
(* the session is with: the stateless cookie exchange, the peer address    *)
(* EmbedReceiveFrom keeps, and the time-outs of wolfSSL_accept.            *)
(*                                                                         *)
(* The socket keeps datagrams that were queued before connect() and        *)
(* refuses those of other senders after it.  Clients follow the firmware:  *)
(* they retransmit until answered, send their message once, may give up at *)
(* any time; every datagram may be lost.                                   *)
(***************************************************************************)
EXTENDS Naturals, Sequences

CONSTANTS
    Client,      \* addresses
    NoPeer,
    MaxTimeouts, \* time-outs wolfSSL_accept survives (6: 1 s up to 64 s)
    MaxSends,    \* bound: handshake datagrams a client sends
    MaxSessions  \* bound: sessions the server begins

ASSUME ServerAssumption ==
    /\ NoPeer \notin Client
    /\ MaxTimeouts \in Nat /\ MaxSends \in Nat /\ MaxSessions \in Nat

VARIABLES
    sv,       \* where the main loop is
    sock,     \* datagrams queued at the socket, oldest first
    conn,     \* whom the socket is connected to
    sess,     \* sessions begun; wolfSSL_new draws the cookie secret of each
    peer,     \* dtlsCtx.peer: where wolfSSL sends
    stateful, \* dtlsStateful
    tmo,      \* time-outs since the last handshake message
    cl,       \* client -> what it waits for, and the session of its cookie or keys
    sends     \* client -> handshake datagrams sent

session == <<sess, peer, stateful, tmo>>
vars == <<sv, sock, conn, session, cl, sends>>

\* What a client waits for: the HelloRetryRequest, the server's flight, the ACK
\* of its Finished, its turn to write, the reply.
Waiting == {"retry", "flight", "ack", "turn", "reply"}

\* What a client retransmits while it waits.
Flight == [retry |-> "hello", flight |-> "hello2", ack |-> "finished"]

Datagram == [from : Client, kind : {"hello", "hello2", "finished", "app"},
             sess : 0 .. MaxSessions]

Init == /\ sv = "peek" /\ sock = <<>> /\ conn = NoPeer
        /\ sess = 0 /\ peer = NoPeer /\ stateful = FALSE /\ tmo = 0
        /\ cl = [c \in Client |-> [waits |-> "retry", sess |-> 0]]
        /\ sends = [c \in Client |-> 0]

-----------------------------------------------------------------------------
(* The network and the clients (external) *)

\* A datagram of c reaches the socket, unless it is lost or another client is
\* connected.
Arrive(c, kind) ==
    \/ /\ conn \in {NoPeer, c}
       /\ sock' = Append(sock, [from |-> c, kind |-> kind, sess |-> cl[c].sess])
    \/ UNCHANGED sock

Transmit(c) ==
    /\ cl[c].waits \in DOMAIN Flight /\ sends[c] < MaxSends
    /\ sends' = [sends EXCEPT ![c] = @ + 1]
    /\ Arrive(c, Flight[cl[c].waits])
    /\ UNCHANGED <<sv, conn, session, cl>>

\* Application data is sent once.
SendApp(c) ==
    /\ cl[c].waits = "turn"
    /\ cl' = [cl EXCEPT ![c].waits = "reply"]
    /\ Arrive(c, "app")
    /\ UNCHANGED <<sv, conn, session, sends>>

\* The client's deadline, an error, or a power cut.
GiveUp(c) ==
    /\ cl[c].waits \in Waiting
    /\ cl' = [cl EXCEPT ![c].waits = "nothing"]
    /\ UNCHANGED <<sv, sock, conn, session, sends>>

\* A message of the server takes client c from waiting for w to waiting for x,
\* or is lost, or is not what c waits for.
Tell(c, w, x) ==
    \/ /\ cl[c].waits = w
       /\ cl' = [cl EXCEPT ![c] = [waits |-> x, sess |-> sess]]
    \/ UNCHANGED cl

-----------------------------------------------------------------------------
(* The main loop up to wolfSSL_accept *)

Front == Head(sock)

\* recvfrom(MSG_PEEK) and connect(), between which datagrams can only be added to
\* the queue.  If either fails the loop starts again and nothing has changed.
PeekConnect ==
    /\ sv = "peek" /\ sock # <<>>
    /\ conn' = Front.from
    /\ sv' = "new"
    /\ UNCHANGED <<sock, session, cl, sends>>

New == /\ sv = "new" /\ sess < MaxSessions
       /\ sess' = sess + 1
       /\ peer' = NoPeer /\ stateful' = FALSE /\ tmo' = 0
       /\ sv' = "accept"
       /\ UNCHANGED <<sock, conn, cl, sends>>

NewFails == /\ sv = "new" /\ sv' = "exit"
            /\ UNCHANGED <<sock, conn, session, cl, sends>>

-----------------------------------------------------------------------------
(* wolfSSL_accept *)

\* Before the session is stateful EmbedReceiveFrom takes every sender as its
\* peer.
Stateless ==
    /\ sv = "accept" /\ ~stateful /\ sock # <<>>
    /\ sock' = Tail(sock)
    /\ peer' = Front.from

\* Mutant: the first hello is enough.
HelloNoRetry == /\ Stateless /\ Front.kind = "hello"
                /\ stateful' = TRUE /\ tmo' = 0
                /\ Tell(Front.from, "retry", "ack")
                /\ UNCHANGED <<sv, conn, sess, sends>>

\* No cookie: HelloRetryRequest, and forget.
Hello == /\ Stateless /\ Front.kind = "hello"
         /\ tmo' = 0
         /\ Tell(Front.from, "retry", "flight")
         /\ UNCHANGED <<sv, conn, sess, stateful, sends>>

\* Mutant: a cookie of any session is accepted.
CookieAny == /\ Stateless /\ Front.kind = "hello2"
             /\ stateful' = TRUE /\ tmo' = 0
             /\ Tell(Front.from, "flight", "ack")
             /\ UNCHANGED <<sv, conn, sess, sends>>

\* The cookie was made with this session's secret for this address: the session
\* begins, with the server's flight.
CookieGood == /\ Stateless /\ Front.kind = "hello2" /\ Front.sess = sess
              /\ stateful' = TRUE /\ tmo' = 0
              /\ Tell(Front.from, "flight", "ack")
              /\ UNCHANGED <<sv, conn, sess, sends>>

\* A cookie of an earlier session: a fatal alert, and forget.
CookieBad == /\ Stateless /\ Front.kind = "hello2" /\ Front.sess # sess
             /\ tmo' = 0
             /\ Tell(Front.from, "flight", "nothing")
             /\ UNCHANGED <<sv, conn, sess, stateful, sends>>

\* Records of an encrypted epoch are dropped.
StatelessDrop == /\ Stateless /\ Front.kind \in {"finished", "app"}
                 /\ UNCHANGED <<sv, conn, sess, stateful, tmo, cl, sends>>

\* Stateful: a datagram of another sender is an error; the Finished of this
\* session ends the handshake and is acknowledged; the rest is dropped.
AcceptRecord ==
    /\ sv = "accept" /\ stateful /\ sock # <<>>
    /\ sock' = Tail(sock)
    /\ IF Front.from # peer
       THEN sv' = "shutdown" /\ UNCHANGED cl
       ELSE IF Front.kind = "finished" /\ Front.sess = sess
       THEN sv' = "read" /\ Tell(Front.from, "ack", "turn")
       ELSE UNCHANGED <<sv, cl>>
    /\ UNCHANGED <<conn, session, sends>>

\* Mutants: the time-out is not limited; it is one too many.
TimeoutNoLimit ==
    /\ sv = "accept" /\ sock = <<>>
    /\ tmo' = IF tmo = MaxTimeouts THEN tmo ELSE tmo + 1
    /\ IF stateful THEN Tell(peer, "flight", "ack") ELSE UNCHANGED cl
    /\ UNCHANGED <<sv, sock, conn, sess, peer, stateful, sends>>
TimeoutLate ==
    /\ sv = "accept" /\ sock = <<>>
    /\ tmo' = tmo + 1
    /\ sv' = IF tmo > MaxTimeouts THEN "shutdown" ELSE sv
    /\ UNCHANGED <<sock, conn, sess, peer, stateful, cl, sends>>

\* SO_RCVTIMEO ran out: back off and retransmit the flight, or fail.
AcceptTimeout ==
    /\ sv = "accept" /\ sock = <<>>
    /\ IF tmo = MaxTimeouts
       THEN sv' = "shutdown" /\ UNCHANGED <<tmo, cl>>
       ELSE /\ tmo' = tmo + 1 /\ UNCHANGED sv
            /\ IF stateful THEN Tell(peer, "flight", "ack") ELSE UNCHANGED cl
    /\ UNCHANGED <<sock, conn, sess, peer, stateful, sends>>

\* Any other error: an alert of the client, the socket, the cookie, no memory.
AcceptError == /\ sv = "accept" /\ sv' = "shutdown"
               /\ UNCHANGED <<sock, conn, session, cl, sends>>

-----------------------------------------------------------------------------
(* After the handshake *)

\* wolfSSL_read: nothing is left to retransmit, so it blocks without a time-out.
\* A Finished received again is acknowledged again.
ReadRecord ==
    /\ sv = "read" /\ sock # <<>>
    /\ sock' = Tail(sock)
    /\ sv' = IF Front.from # peer \/ (Front.kind = "app" /\ Front.sess = sess)
             THEN "write" ELSE sv
    /\ IF Front.from = peer /\ Front.kind = "finished" /\ Front.sess = sess
       THEN Tell(peer, "ack", "turn") ELSE UNCHANGED cl
    /\ UNCHANGED <<conn, session, sends>>

\* The reply is sent whatever wolfSSL_read returned.
Write == /\ sv = "write" /\ sv' = "shutdown"
         /\ Tell(peer, "reply", "nothing")
         /\ UNCHANGED <<sock, conn, session, sends>>

\* wolfSSL_shutdown (a client that gets the alert gives up), wolfSSL_free.
Shutdown == /\ sv = "shutdown" /\ sv' = "unconnect"
            /\ peer' = NoPeer /\ stateful' = FALSE
            /\ UNCHANGED <<sock, conn, sess, tmo, cl, sends>>

Unconnect == /\ sv = "unconnect" /\ sv' = "peek"
             /\ conn' = NoPeer
             /\ UNCHANGED <<sock, session, cl, sends>>

-----------------------------------------------------------------------------
Receive == \/ Hello \/ CookieGood \/ CookieBad \/ StatelessDrop
           \/ AcceptRecord \/ ReadRecord

Main == \/ PeekConnect \/ New
        \/ Receive \/ AcceptTimeout
        \/ Write \/ Shutdown \/ Unconnect

Errors == NewFails \/ AcceptError

Step(c) == Transmit(c) \/ SendApp(c) \/ GiveUp(c)

Next == Main \/ Errors \/ \E c \in Client : Step(c)

\* The server runs, without an error having to help it on, and a client ends by
\* itself if the server does not end it.
Fairness == WF_vars(Main) /\ \A c \in Client : WF_vars(SendApp(c)) /\ WF_vars(GiveUp(c))

Spec == Init /\ [][Next]_vars
FairSpec == Spec /\ Fairness

-----------------------------------------------------------------------------
TypeOK ==
    /\ sv \in {"peek", "new", "accept", "read", "write", "shutdown", "unconnect", "exit"}
    /\ sock \in Seq(Datagram)
    /\ conn \in Client \cup {NoPeer} /\ peer \in Client \cup {NoPeer}
    /\ sess \in 0 .. MaxSessions /\ stateful \in BOOLEAN /\ tmo \in 0 .. MaxTimeouts
    /\ cl \in [Client -> [waits : Waiting \cup {"nothing"}, sess : 0 .. MaxSessions]]
    /\ sends \in [Client -> 0 .. MaxSends]

\* A session begins only with the client the socket is connected to, although
\* datagrams of others may be queued and are answered with a HelloRetryRequest
\* before that: the cookie such a client gets cannot come back through the
\* connected socket, and is worthless after un-connecting.
SessionWithPeer == stateful => peer = conn

\* Once a session has begun no datagram of another client is queued, so neither
\* wolfSSL_accept nor wolfSSL_read fails because of one: what was queued before
\* connect() has been read before the cookie came back.
QueueIsPeers == stateful => \A i \in DOMAIN sock : sock[i].from = conn

\* wolfSSL_accept returns, though its client may vanish at any point.
AcceptReturns == sv = "accept" ~> sv # "accept"

\* "connect the socket to it so wolfSSL's default IO talks only to this peer."
TalksOnlyToPeer == peer \in {NoPeer, conn}

\* "Un-connect the socket so we can serve the next client": the server gets back
\* to waiting for one.
ServesNext == sv = "read" ~> sv = "peek"
=============================================================================
