-------------------------------- MODULE Tcp --------------------------------
(***************************************************************************)
(* The TCP client (kernel/net/ipv4.c, net/socket.c): connect with retries,  *)
(* send, receive and close over a network that loses, repeats and reorders  *)
(* segments.  The code keeps one expected sequence number, acknowledges at  *)
(* once, and never sends anything twice but the SYN.                        *)
(*                                                                          *)
(* The peer is a TCP implementation outside of this repository: it accepts, *)
(* refuses or does not answer, sends its Stream in segments of any size,    *)
(* again until they are acknowledged, and then a FIN.  A polite peer sends  *)
(* the FIN when all data is acknowledged.  A segment may arrive many times, *)
(* late, or never; so the network is the set of all segments that may have  *)
(* been sent.  Sequence numbers are below Modulus (2^32 in the code).  The  *)
(* code takes the number 0 for "not known yet": a stream that reaches it is *)
(* accepted out of order, and is left out here.  So are TCP options: recv   *)
(* strips a header of fixed size, while acknowledgements count the real one *)
(* (the client's SYN offers no options).                                    *)
(*                                                                          *)
(* The waits in connect and recv are process_wait_nodes with a timeout in a *)
(* loop, so they end when their condition holds (see FsWait).               *)
(***************************************************************************)
EXTENDS Naturals, Sequences, FiniteSets

CONSTANTS
    Stream,     \* the bytes the peer sends
    Modulus,    \* sequence numbers are below it
    Isns,       \* initial sequence numbers of the peer
    Sizes,      \* buffer sizes of recv
    MaxSend,    \* bound on calls of send
    Attempts    \* retries of connect (3)

ASSUME TcpAssumption ==
    /\ Stream \in Seq(Nat) /\ Stream # <<>>
    /\ Modulus \in Nat /\ Modulus > Len(Stream) + 2
    /\ Isns \subseteq 0..(Modulus - Len(Stream) - 3)
    /\ Sizes \subseteq Nat \ {0}
    /\ MaxSend \in Nat /\ Attempts \in Nat

VARIABLES
    st,         \* priv[1]: 0 closed, 1 SYN sent, 2 established, 3 peer closed
    seq,        \* priv32[0]
    ack,        \* priv32[1], the number expected next; 0 before it is known
    rxq,        \* rx_queue
    unread,     \* rest of the last packet
    pc,         \* what the application does
    size,       \* the buffer of the recv under way
    tries,      \* attempts of connect
    got,        \* what recv has returned
    eof,        \* recv has returned 0
    toPeer,     \* segments sent by the client
    peer,       \* what the peer is like
    peerSt,
    acked       \* bytes acknowledged to the peer

sock == <<st, seq, ack, rxq>>
app == <<unread, pc, size, tries, got, eof>>
remote == <<peer, peerSt, acked>>
vars == <<sock, app, toPeer, remote>>

N == Len(Stream)

Peers == [answer : {"accept", "refuse", "none"}, polite : BOOLEAN, isn : Isns]

Init ==
    /\ st = 0 /\ seq = 0 /\ ack = 0
    /\ rxq = <<>> /\ unread = <<>>
    /\ pc = "new" /\ size = 0 /\ tries = 0
    /\ got = <<>> /\ eof = FALSE
    /\ toPeer = {}
    /\ peer \in Peers
    /\ peerSt = "listen" /\ acked = 0

Wrap(n) == n % Modulus

----------------------------------------------------------------------------
(* The peer *)

\* A segment with bytes i..j of the stream; empty if j < i.
Segment(i, j, fin) ==
    [kind |-> "DATA", seq |-> Wrap(peer.isn + i), data |-> SubSeq(Stream, i, j), fin |-> fin]

\* The segments that can be on their way to the client.
toClient ==
    CASE peerSt = "refused" -> {[kind |-> "RST"]}
      [] peerSt = "synrcvd" -> {[kind |-> "SYNACK", seq |-> peer.isn]}
      [] peerSt = "open" ->
            {[kind |-> "SYNACK", seq |-> peer.isn]}
            \cup {Segment(p[1], p[2], FALSE) : p \in {q \in (1..N) \X (1..N) : q[1] <= q[2]}}
            \cup {Segment(i, N, TRUE) : i \in IF ~peer.polite THEN 1..(N + 1)
                                              ELSE IF acked = N THEN {N + 1} ELSE {}}
      [] OTHER -> {}

PeerSyn ==
    /\ [kind |-> "SYN"] \in toPeer
    /\ peerSt = "listen" /\ peer.answer # "none"
    /\ peerSt' = IF peer.answer = "accept" THEN "synrcvd" ELSE "refused"
    /\ UNCHANGED <<sock, app, toPeer, peer, acked>>

\* An acknowledgement opens the connection, or moves the window on.
PeerAck(m) ==
    LET bytes == Wrap(m.ack + Modulus - Wrap(peer.isn + 1)) IN
    /\ m \in toPeer /\ m.kind = "ACK"
    /\ peerSt \in {"synrcvd", "open"}
    /\ peerSt' = "open"
    /\ acked' = IF bytes \in acked..N THEN bytes ELSE acked
    /\ UNCHANGED <<sock, app, toPeer, peer>>

----------------------------------------------------------------------------
(* Segments that arrive: net_ipv4_handle and tcp_ack *)

Ack(a) == toPeer' = toPeer \cup {[kind |-> "ACK", ack |-> a]}

\* While SYN sent.
ReceiveSynAck(m) ==
    /\ m \in toClient /\ m.kind = "SYNACK"
    /\ st = 1
    /\ st' = 2 /\ seq' = 1 /\ ack' = Wrap(m.seq + 1)
    /\ Ack(ack')
    /\ rxq' = Append(rxq, <<>>)
    /\ UNCHANGED <<app, remote>>

ReceiveRst(m) ==
    /\ m \in toClient /\ m.kind = "RST"
    /\ st = 1
    /\ st' = 0
    /\ UNCHANGED <<seq, ack, rxq, app, toPeer, remote>>

\* Mutant: the sequence number of a segment is not looked at.
MutAnyNumber(m) == TRUE

\* Before a number is known, any is expected.
Expected(m) == ack = 0 \/ ack = m.seq

\* Mutant: the number expected next is one too high.
MutSkipsOne(m) == Wrap(m.seq + Len(m.data) + 1)

AfterData(m) == Wrap(m.seq + Len(m.data))

\* While established: data that is not expected is not taken, but is acknowledged
\* (three times), and its FIN counts all the same.
ReceiveData(m) ==
    LET next == IF Expected(m) THEN AfterData(m) ELSE ack IN
    /\ m \in toClient /\ m.kind = "DATA"
    /\ st = 2
    /\ ack' = IF m.fin THEN Wrap(next + 1) ELSE next
    /\ st' = IF m.fin THEN 3 ELSE 2
    /\ Ack(ack')
    /\ rxq' = IF Expected(m) /\ m.data # <<>> THEN Append(rxq, m.data) ELSE rxq
    /\ UNCHANGED <<seq, app, remote>>

----------------------------------------------------------------------------
(* The application's calls *)

Goto(where) == pc' = where

\* sock_tcp_connect: send the SYN and wait.
Connect ==
    /\ pc = "new"
    /\ st' = 1
    /\ toPeer' = toPeer \cup {[kind |-> "SYN"]}
    /\ Goto("connecting")
    /\ UNCHANGED <<seq, ack, rxq, unread, size, tries, got, eof, remote>>

\* sock_tcp_connect without an interface to send from (-ENONET): the socket keeps
\* its port and its state.
NoRoute ==
    /\ pc = "new"
    /\ st' = 1
    /\ Goto("failed")
    /\ UNCHANGED <<seq, ack, rxq, unread, size, tries, got, eof, toPeer, remote>>

\* process_wait_nodes returns after a second without a packet.
Timeout ==
    /\ pc = "connecting" /\ rxq = <<>> /\ st # 0
    /\ Goto("expired")
    /\ UNCHANGED <<sock, unread, size, tries, got, eof, toPeer, remote>>

\* Mutant: attempts are not counted.
MutRetryForever ==
    /\ pc = "expired" /\ st # 0
    /\ Goto("connecting")
    /\ UNCHANGED <<sock, unread, size, tries, got, eof, toPeer, remote>>

\* Send the SYN again, or give up, even if the answer has come since.  The socket
\* keeps its state and its port.
Retry ==
    /\ pc = "expired" /\ st # 0
    /\ IF tries = Attempts
       THEN Goto("failed") /\ UNCHANGED <<tries, toPeer>>
       ELSE /\ tries' = tries + 1
            /\ toPeer' = toPeer \cup {[kind |-> "SYN"]}
            /\ Goto("connecting")
    /\ UNCHANGED <<sock, unread, size, got, eof, remote>>

Refused ==
    /\ pc \in {"connecting", "expired"} /\ st = 0
    /\ Goto("failed")
    /\ UNCHANGED <<sock, unread, size, tries, got, eof, toPeer, remote>>

\* The SYN ACK is in the queue.
Connected ==
    /\ pc = "connecting" /\ rxq # <<>>
    /\ rxq' = Tail(rxq)
    /\ Goto("open")
    /\ UNCHANGED <<st, seq, ack, unread, size, tries, got, eof, toPeer, remote>>

\* What does not fit into the caller's buffer is kept.
Deliver(data, n) ==
    LET k == IF n < Len(data) THEN n ELSE Len(data) IN
    /\ got' = got \o SubSeq(data, 1, k)
    /\ unread' = SubSeq(data, k + 1, Len(data))

\* Mutant: end of file is reported before the queue is empty.
MutEofFirst == st = 3

AtEof == rxq = <<>> /\ st = 3

\* sock_tcp_recv: the rest of a packet, end of file, or wait for a packet.
Recv(n) ==
    /\ pc = "open" /\ ~eof
    /\ \/ /\ unread # <<>>
          /\ Deliver(unread, n)
          /\ UNCHANGED <<pc, size, eof>>
       \/ /\ unread = <<>>
          /\ eof' = AtEof
          /\ IF AtEof THEN UNCHANGED <<pc, size>> ELSE Goto("recv") /\ size' = n
          /\ UNCHANGED <<got, unread>>
    /\ UNCHANGED <<sock, tries, toPeer, remote>>

\* There is a packet.
RecvPacket ==
    /\ pc = "recv" /\ rxq # <<>>
    /\ Deliver(Head(rxq), size)
    /\ rxq' = Tail(rxq)
    /\ Goto("open") /\ size' = 0
    /\ UNCHANGED <<st, seq, ack, tries, eof, toPeer, remote>>

\* sock_tcp_send: every segment carries an acknowledgement; none is kept.
Send ==
    /\ pc = "open" /\ seq \in 1..MaxSend
    /\ seq' = seq + 1
    /\ Ack(ack)
    /\ UNCHANGED <<st, ack, rxq, app, remote>>

\* sock_tcp_close, sock_generic_close: a FIN, and the port is given up.  Without an
\* interface the FIN is not sent, which is the same as losing it.
Close ==
    /\ pc \in {"open", "failed"}
    /\ Goto("closed")
    /\ rxq' = <<>>
    /\ Ack(ack)
    /\ UNCHANGED <<st, seq, ack, unread, size, tries, got, eof, remote>>

----------------------------------------------------------------------------

\* Nothing is looked at that arrives when the port has been given up.
Arrives(m) ==
    /\ pc # "closed"
    /\ ReceiveSynAck(m) \/ ReceiveRst(m) \/ ReceiveData(m)

Call == Connect \/ NoRoute \/ Send \/ Close \/ \E n \in Sizes : Recv(n)
Kernel == Timeout \/ Retry \/ Refused \/ Connected \/ RecvPacket

Next ==
    \/ Call \/ Kernel \/ PeerSyn
    \/ \E m \in toPeer : PeerAck(m)
    \/ \E m \in toClient : Arrives(m)

Spec == Init /\ [][Next]_vars

\* Waits end.  An open peer sends its first unacknowledged byte until it is
\* acknowledged, and the client acknowledges every segment it meets, also again:
\* one of each gets through.  Nothing is promised of a SYN or of the handshake's
\* ACK: the first is sent four times at most, the second once.
FairSpec ==
    /\ Spec
    /\ WF_vars(Kernel)
    /\ WF_vars(peerSt = "open" /\ PeerAck([kind |-> "ACK", ack |-> ack]))
    /\ WF_vars(\E m \in toClient : /\ Arrives(m) /\ m.kind = "DATA"
                                   /\ m.seq = Wrap(peer.isn + 1 + acked))

----------------------------------------------------------------------------
(* Properties *)

\* The bytes of the stream behind the first i, up to the j-th.
Piece(i, j) == SubSeq(Stream, i + 1, j)

\* The stream is cut after a bytes, after b, and after those of every packet.
Split(a, b, cut) ==
    /\ a <= b /\ b = cut[1]
    /\ got = Piece(0, a) /\ unread = Piece(a, b)
    /\ \A i \in DOMAIN rxq : cut[i] <= cut[i + 1] /\ rxq[i] = Piece(cut[i], cut[i + 1])

\* What recv has returned, what it has kept and what is queued are the beginning of
\* what the peer has sent, one behind the other: nothing is missing, repeated or out
\* of order, whatever the network does.
StreamInOrder ==
    \E a, b \in 0..N, cut \in [1..(Len(rxq) + 1) -> 0..N] : Split(a, b, cut)

\* End of file comes after the last byte, if the FIN did not overtake data.
EofMeansAll == peer.polite /\ eof => got = Stream

\* connect returns, although the peer may never answer.
ConnectReturns == pc = "connecting" ~> pc \in {"open", "failed"}

\* recv returns while a connected peer has more to send.  A peer that the ACK of the
\* handshake has not reached is not connected: the code sends that ACK once and does
\* not answer a repeated SYN ACK, so if it is lost recv waits for ever.
RecvReturns ==
    peer.polite => (pc = "recv" /\ peerSt = "open" /\ Len(got) < N ~> pc # "recv")

\* "return 0; /* EOF */": recv reports that the other side is closed.
EofReported ==
    peer.polite => (pc = "recv" /\ AtEof ~> pc # "recv")
=============================================================================
