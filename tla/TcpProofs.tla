----------------------------- MODULE TcpProofs -----------------------------
(***************************************************************************)
(* Proofs about Tcp, for any stream, any sequence numbers that do not wrap, *)
(* any buffer sizes, and whatever segments are lost, repeated or reordered. *)
(***************************************************************************)
EXTENDS Tcp, SequenceTheorems, TLAPS

TcpType ==
    /\ st \in 0..3 /\ ack \in Nat
    /\ rxq \in Seq(Seq(Nat))
    /\ pc \in {"new", "connecting", "expired", "open", "recv", "failed", "closed"}
    /\ size \in Nat
    /\ eof \in BOOLEAN
    /\ peer \in Peers
    /\ acked \in 0..N
    /\ \A m \in toPeer : m.kind = "ACK" => m.ack \in Nat

\* What the peer takes an acknowledgement for: that many bytes have arrived.
Bytes(n) == Wrap(n + Modulus - Wrap(peer.isn + 1))

\* The stages of a connection: nothing is received before the SYN ACK, whose empty
\* packet stays at the head of the queue until connect takes it.
Stages ==
    /\ pc = "new" => st = 0
    /\ st \in {0, 1} => ack = 0 /\ rxq = <<>> /\ got = <<>> /\ unread = <<>>
    /\ pc \in {"connecting", "expired"} /\ st \in {2, 3} => rxq # <<>> /\ rxq[1] = <<>>
    /\ pc = "recv" => unread = <<>>
    /\ eof => pc \in {"open", "closed"}

\* While the port is open, r bytes have been received: ack names the next one, and a
\* polite peer has not been told of more, so its FIN has not come before the last.
Received(r) ==
    /\ st = 2 => ack = peer.isn + 1 + r
    /\ peer.polite =>
          /\ acked <= r
          /\ \A m \in toPeer : m.kind = "ACK" => Bytes(m.ack) \notin (r + 1)..N
          /\ st = 3 => r = N /\ ack = peer.isn + N + 2

\* The stream is cut in order, and the queue ends behind byte r.
Upto(r) ==
    \E a, b \in 0..N, cut \in [1..(Len(rxq) + 1) -> 0..N] :
        Split(a, b, cut) /\ cut[Len(rxq) + 1] = r

\* The pieces end with the last byte received.
Pieces == \E r \in 0..N : Upto(r) /\ (pc # "closed" => Received(r))

TInv == TcpType /\ Stages /\ Pieces /\ EofMeansAll

----------------------------------------------------------------------------
(* Sequence numbers and pieces of the stream *)

\* A number wraps once it reaches the modulus, and not before.
LEMMA WrapSmall ==
    ASSUME NEW n \in 0..(Modulus - 1)
    PROVE  Wrap(n) = n /\ Wrap(n + Modulus) = n
<1>1. Modulus \in Nat /\ Modulus > 0
  BY TcpAssumption, LenProperties
<1>2. n % Modulus = n
  BY <1>1
<1>3. (n + Modulus) % Modulus = n
  BY <1>1
<1> QED BY <1>2, <1>3 DEF Wrap

\* The numbers of the SYN, the data and the FIN do not wrap.
LEMMA Numbers ==
    ASSUME peer \in Peers
    PROVE  /\ N \in Nat /\ Modulus \in Nat /\ peer.isn \in Nat
           /\ peer.isn + N + 2 < Modulus
           /\ \A r \in 0..(N + 2) : Wrap(peer.isn + r) = peer.isn + r
<1>1. N \in Nat /\ Modulus \in Nat /\ Isns \subseteq 0..(Modulus - N - 3)
  BY TcpAssumption, LenProperties DEF N
<1>2. peer.isn \in Isns
  BY DEF Peers
<1>3. peer.isn \in Nat /\ peer.isn + N + 2 < Modulus
  <2>1. \A n \in 0..(Modulus - N - 3) : n \in Nat /\ n + N + 2 < Modulus
    BY <1>1
  <2> HIDE DEF N
  <2> QED BY <1>1, <1>2, <2>1
<1>4. \A r \in 0..(N + 2) : Wrap(peer.isn + r) = peer.isn + r
  BY <1>1, <1>3, WrapSmall
<1> QED BY <1>1, <1>3, <1>4

\* Of the numbers the client can send, the peer takes those of data for what they
\* are; the number 0 and that of the FIN are no count of bytes.
LEMMA AckedBytes ==
    ASSUME peer \in Peers
    PROVE  /\ \A r \in 0..(N + 1) : Bytes(peer.isn + 1 + r) = r
           /\ Bytes(0) > N
           /\ \A n \in Nat : Bytes(n) \in Nat
<1>1. /\ N \in Nat /\ Modulus \in Nat /\ peer.isn \in Nat
      /\ peer.isn + N + 2 < Modulus
      /\ Wrap(peer.isn + 1) = peer.isn + 1
  BY Numbers
<1>2. ASSUME NEW r \in 0..(N + 1) PROVE Bytes(peer.isn + 1 + r) = r
  <2>1. (peer.isn + 1 + r) + Modulus - (peer.isn + 1) = r + Modulus
    BY <1>1
  <2>2. r \in 0..(Modulus - 1)
    BY <1>1
  <2> QED BY <1>1, <2>1, <2>2, WrapSmall DEF Bytes
<1>3. Bytes(0) > N
  <2>1. 0 + Modulus - (peer.isn + 1) \in 0..(Modulus - 1)
    BY <1>1
  <2>2. Bytes(0) = 0 + Modulus - (peer.isn + 1)
    BY <1>1, <2>1, WrapSmall DEF Bytes
  <2> QED BY <1>1, <2>2
<1>4. ASSUME NEW n \in Nat PROVE Bytes(n) \in Nat
  <2>1. n + Modulus - (peer.isn + 1) \in Nat
    BY <1>1
  <2> QED BY <1>1, <2>1 DEF Bytes, Wrap
<1> QED BY <1>2, <1>3, <1>4

\* A piece of the stream.
LEMMA PieceIs ==
    ASSUME NEW i \in 0..N, NEW j \in i..N
    PROVE  /\ Piece(i, j) \in Seq(Nat) /\ Len(Piece(i, j)) = j - i
           /\ \A k \in 1..(j - i) : Piece(i, j)[k] = Stream[i + k]
           /\ Piece(i, j) = <<>> <=> i = j
<1>1. Stream \in Seq(Nat) /\ N \in Nat
  BY TcpAssumption, LenProperties DEF N
<1>2. \A k \in (i + 1)..j : Stream[k] \in Nat
  BY <1>1, ElementOfSeq DEF N
<1>3. i + 1 \in Int /\ j \in Int
  BY <1>1
<1>4. /\ Piece(i, j) \in Seq(Nat)
      /\ Len(Piece(i, j)) = IF i + 1 <= j THEN j - (i + 1) + 1 ELSE 0
      /\ \A k \in 1..(j - (i + 1) + 1) : Piece(i, j)[k] = Stream[i + 1 + k - 1]
  BY <1>2, <1>3, SubSeqProperties DEF Piece
<1>5. Len(Piece(i, j)) = j - i
  BY <1>1, <1>4
<1>6. \A k \in 1..(j - i) : Piece(i, j)[k] = Stream[i + k]
  <2> TAKE k \in 1..(j - i)
  <2>1. k \in 1..(j - (i + 1) + 1) /\ i + 1 + k - 1 = i + k
    BY <1>1
  <2> QED BY <1>4, <2>1
<1>7. Piece(i, j) = <<>> <=> i = j
  BY <1>1, <1>4, <1>5, EmptySeq
<1> QED BY <1>4, <1>5, <1>6, <1>7

\* Cutting a piece in two.
LEMMA PieceCut ==
    ASSUME NEW i \in 0..N, NEW j \in i..N, NEW k \in 0..(j - i)
    PROVE  /\ SubSeq(Piece(i, j), 1, k) = Piece(i, i + k)
           /\ SubSeq(Piece(i, j), k + 1, j - i) = Piece(i + k, j)
<1>1. N \in Nat
  BY TcpAssumption, LenProperties DEF N
<1>2. /\ Len(Piece(i, j)) = j - i /\ Piece(i, j) \in Seq(Nat)
      /\ \A n \in 1..(j - i) : Piece(i, j)[n] = Stream[i + n] /\ Piece(i, j)[n] \in Nat
  BY <1>1, PieceIs, ElementOfSeq
<1>3. /\ i + k \in 0..N /\ i + k \in i..N /\ j \in (i + k)..N
  BY <1>1
<1>4. /\ Len(Piece(i, i + k)) = k /\ Piece(i, i + k) \in Seq(Nat)
      /\ \A n \in 1..k : Piece(i, i + k)[n] = Stream[i + n]
  <2>1. (i + k) - i = k
    BY <1>1
  <2>2. /\ Len(Piece(i, i + k)) = (i + k) - i /\ Piece(i, i + k) \in Seq(Nat)
        /\ \A n \in 1..((i + k) - i) : Piece(i, i + k)[n] = Stream[i + n]
    BY <1>3, PieceIs
  <2> QED BY <2>1, <2>2
<1>5. /\ Len(Piece(i + k, j)) = j - i - k /\ Piece(i + k, j) \in Seq(Nat)
      /\ \A n \in 1..(j - i - k) : Piece(i + k, j)[n] = Stream[i + k + n]
  <2>1. j - (i + k) = j - i - k
    BY <1>1
  <2> QED BY <1>3, <2>1, PieceIs
<1> DEFINE front == SubSeq(Piece(i, j), 1, k)
           back == SubSeq(Piece(i, j), k + 1, j - i)
<1>6. /\ front \in Seq(Nat) /\ Len(front) = k
      /\ \A n \in 1..k : front[n] = Piece(i, j)[n]
  <2>1. \A n \in 1..k : Piece(i, j)[n] \in Nat
    BY <1>1, <1>2
  <2>2. /\ front \in Seq(Nat) /\ Len(front) = IF 1 <= k THEN k - 1 + 1 ELSE 0
        /\ \A n \in 1..(k - 1 + 1) : front[n] = Piece(i, j)[1 + n - 1]
    BY <1>1, <2>1, SubSeqProperties
  <2>3. k - 1 + 1 = k /\ \A n \in 1..k : 1 + n - 1 = n
    BY <1>1
  <2> HIDE DEF front
  <2> QED BY <1>1, <2>2, <2>3
<1>7. /\ back \in Seq(Nat) /\ Len(back) = j - i - k
      /\ \A n \in 1..(j - i - k) : back[n] = Piece(i, j)[k + n]
  <2>1. \A n \in (k + 1)..(j - i) : Piece(i, j)[n] \in Nat
    BY <1>1, <1>2
  <2>2. /\ back \in Seq(Nat) /\ Len(back) = IF k + 1 <= j - i THEN j - i - (k + 1) + 1 ELSE 0
        /\ \A n \in 1..(j - i - (k + 1) + 1) : back[n] = Piece(i, j)[k + 1 + n - 1]
    BY <1>1, <2>1, SubSeqProperties
  <2>3. j - i - (k + 1) + 1 = j - i - k /\ \A n \in 1..(j - i - k) : k + 1 + n - 1 = k + n
    BY <1>1
  <2> HIDE DEF back
  <2> QED BY <1>1, <2>2, <2>3
<1> HIDE DEF front, back
<1>8. front = Piece(i, i + k)
  <2>1. \A n \in 1..k : front[n] = Piece(i, i + k)[n]
    <3> TAKE n \in 1..k
    <3>1. n \in 1..(j - i)
      BY <1>1
    <3> QED BY <1>2, <1>4, <1>6, <3>1
  <2> QED BY <1>4, <1>6, <2>1, SeqEqual
<1>9. back = Piece(i + k, j)
  <2>1. \A n \in 1..(j - i - k) : back[n] = Piece(i + k, j)[n]
    <3> TAKE n \in 1..(j - i - k)
    <3>1. k + n \in 1..(j - i) /\ i + (k + n) = i + k + n
      BY <1>1
    <3> QED BY <1>2, <1>5, <1>7, <3>1
  <2> QED BY <1>5, <1>7, <2>1, SeqEqual
<1> QED BY <1>8, <1>9 DEF front, back

\* Putting two pieces together.
LEMMA PieceJoin ==
    ASSUME NEW i \in 0..N, NEW j \in i..N
    PROVE  Piece(0, i) \o Piece(i, j) = Piece(0, j)
<1>1. N \in Nat
  BY TcpAssumption, LenProperties DEF N
<1>2. 0 \in 0..N /\ i \in 0..N /\ j \in 0..N
  BY <1>1
<1>3. /\ Piece(0, i) \in Seq(Nat) /\ Len(Piece(0, i)) = i
      /\ \A n \in 1..i : Piece(0, i)[n] = Stream[n]
  <2>1. i - 0 = i /\ \A n \in 1..i : 0 + n = n
    BY <1>1
  <2> QED BY <1>2, <2>1, PieceIs
<1>4. /\ Piece(i, j) \in Seq(Nat) /\ Len(Piece(i, j)) = j - i
      /\ \A n \in 1..(j - i) : Piece(i, j)[n] = Stream[i + n]
  BY PieceIs
<1>5. /\ Piece(0, j) \in Seq(Nat) /\ Len(Piece(0, j)) = j
      /\ \A n \in 1..j : Piece(0, j)[n] = Stream[n]
  <2>1. j - 0 = j /\ \A n \in 1..j : 0 + n = n
    BY <1>1
  <2> QED BY <1>2, <2>1, PieceIs
<1> DEFINE both == Piece(0, i) \o Piece(i, j)
<1>6. /\ both \in Seq(Nat) /\ Len(both) = i + (j - i)
      /\ \A n \in 1..(i + (j - i)) : both[n] = IF n <= i THEN Piece(0, i)[n] ELSE Piece(i, j)[n - i]
  BY <1>3, <1>4, ConcatProperties
<1> HIDE DEF both
<1>7. Len(both) = j /\ i + (j - i) = j
  BY <1>1, <1>6
<1>8. \A n \in 1..j : both[n] = Stream[n]
  <2> TAKE n \in 1..j
  <2>1. CASE n <= i
    <3>1. n \in 1..i
      BY <1>1, <2>1
    <3> QED BY <1>3, <1>6, <1>7, <2>1, <3>1
  <2>2. CASE ~(n <= i)
    <3>1. n - i \in 1..(j - i) /\ i + (n - i) = n
      BY <1>1, <2>2
    <3> QED BY <1>4, <1>6, <1>7, <2>2, <3>1
  <2> QED BY <2>1, <2>2
<1> QED BY <1>5, <1>6, <1>7, <1>8, SeqEqual DEF both

----------------------------------------------------------------------------
(* Queue operations *)

\* net_sock_add: a packet with the bytes behind those of the queue.
LEMMA AppendPiece ==
    ASSUME TcpType, NEW r \in 0..N, Upto(r), NEW k \in r..N,
           rxq' = Append(rxq, Piece(r, k)), UNCHANGED <<got, unread>>
    PROVE  Upto(k)'
<1>1. N \in Nat /\ Len(rxq) \in Nat /\ DOMAIN rxq = 1..Len(rxq)
  BY TcpAssumption, LenProperties DEF N, TcpType
<1>2. PICK a \in 0..N, b \in 0..N, cut \in [1..(Len(rxq) + 1) -> 0..N] :
        Split(a, b, cut) /\ cut[Len(rxq) + 1] = r
  BY DEF Upto
<1>3. Piece(r, k) \in Seq(Nat)
  BY PieceIs
<1>4. /\ rxq' \in Seq(Seq(Nat)) /\ Len(rxq') = Len(rxq) + 1 /\ DOMAIN rxq' = 1..(Len(rxq) + 1)
      /\ \A i \in 1..Len(rxq) : rxq'[i] = rxq[i]
      /\ rxq'[Len(rxq) + 1] = Piece(r, k)
  BY <1>1, <1>3, AppendProperties, LenProperties DEF TcpType
<1>5. PICK cut2 \in [1..(Len(rxq') + 1) -> 0..N] :
        /\ cut2[Len(rxq) + 2] = k
        /\ \A i \in 1..(Len(rxq) + 1) : cut2[i] = cut[i]
        /\ Len(rxq') + 1 = Len(rxq) + 2
  <2> DEFINE c == [i \in 1..(Len(rxq) + 2) |-> IF i = Len(rxq) + 2 THEN k ELSE cut[i]]
  <2>1. /\ c \in [1..(Len(rxq) + 2) -> 0..N] /\ c[Len(rxq) + 2] = k
        /\ \A i \in 1..(Len(rxq) + 1) : c[i] = cut[i]
    BY <1>1
  <2>2. Len(rxq') + 1 = Len(rxq) + 2
    BY <1>1, <1>4
  <2> HIDE DEF c
  <2> QED BY <2>1, <2>2
<1>6. \A i \in 1..(Len(rxq) + 1) :
        cut2[i] <= cut2[i + 1] /\ rxq'[i] = Piece(cut2[i], cut2[i + 1])
  <2> TAKE i \in 1..(Len(rxq) + 1)
  <2>1. CASE i = Len(rxq) + 1
    <3>1. i + 1 = Len(rxq) + 2 /\ cut2[i + 1] = k /\ cut2[i] = r
      BY <1>1, <1>2, <1>5, <2>1
    <3> QED BY <1>1, <1>4, <2>1, <3>1
  <2>2. CASE i # Len(rxq) + 1
    <3>1. i \in 1..Len(rxq) /\ i + 1 \in 1..(Len(rxq) + 1)
      BY <1>1, <2>2
    <3>2. cut[i] <= cut[i + 1] /\ rxq[i] = Piece(cut[i], cut[i + 1])
      BY <1>1, <1>2, <3>1 DEF Split
    <3> QED BY <1>4, <1>5, <3>1, <3>2
  <2> QED BY <2>1, <2>2
<1>7. a <= b /\ b = cut2[1] /\ got' = Piece(0, a) /\ unread' = Piece(a, b)
  <2>1. 1 \in 1..(Len(rxq) + 1)
    BY <1>1
  <2> QED BY <1>2, <1>5, <2>1 DEF Split
<1>8. Split(a, b, cut2)'
  BY <1>4, <1>6, <1>7 DEF Split, Piece
<1> QED BY <1>5, <1>8 DEF Upto, N

\* net_sock_get: the packet at the head is taken, and the bytes up to its end are
\* with the application.
LEMMA TailPiece ==
    ASSUME TcpType, NEW r \in 0..N, rxq # <<>>, rxq' = Tail(rxq),
           NEW b \in 0..N, NEW cut \in [1..(Len(rxq) + 1) -> 0..N],
           \A i \in DOMAIN rxq : cut[i] <= cut[i + 1] /\ rxq[i] = Piece(cut[i], cut[i + 1]),
           cut[2] = b, cut[Len(rxq) + 1] = r,
           NEW a \in 0..b, got' = Piece(0, a), unread' = Piece(a, b)
    PROVE  Upto(r)'
<1>1. N \in Nat /\ Len(rxq) \in Nat \ {0} /\ DOMAIN rxq = 1..Len(rxq)
  BY TcpAssumption, LenProperties, EmptySeq DEF N, TcpType
<1>2. /\ rxq' \in Seq(Seq(Nat)) /\ Len(rxq') = Len(rxq) - 1 /\ DOMAIN rxq' = 1..(Len(rxq) - 1)
      /\ \A i \in 1..(Len(rxq) - 1) : rxq'[i] = rxq[i + 1]
  BY <1>1, HeadTailProperties, LenProperties DEF TcpType
<1>3. PICK cut2 \in [1..(Len(rxq') + 1) -> 0..N] :
        (\A i \in 1..Len(rxq) : cut2[i] = cut[i + 1]) /\ Len(rxq') + 1 = Len(rxq)
  <2> DEFINE c == [i \in 1..Len(rxq) |-> cut[i + 1]]
  <2>1. c \in [1..Len(rxq) -> 0..N] /\ \A i \in 1..Len(rxq) : c[i] = cut[i + 1]
    BY <1>1
  <2>2. Len(rxq') + 1 = Len(rxq)
    BY <1>1, <1>2
  <2> HIDE DEF c
  <2> QED BY <2>1, <2>2
<1>4. \A i \in 1..(Len(rxq) - 1) :
        cut2[i] <= cut2[i + 1] /\ rxq'[i] = Piece(cut2[i], cut2[i + 1])
  <2> TAKE i \in 1..(Len(rxq) - 1)
  <2>1. i \in 1..Len(rxq) /\ i + 1 \in 1..Len(rxq)
    BY <1>1
  <2> QED BY <1>1, <1>2, <1>3, <2>1
<1>5. 1 \in 1..Len(rxq) /\ Len(rxq) \in 1..Len(rxq) /\ 1 + 1 = 2
  BY <1>1
<1>6. cut2[1] = b /\ cut2[Len(rxq') + 1] = r
  BY <1>3, <1>5
<1>7. a <= b /\ a \in 0..N
  BY <1>1
<1>8. Split(a, b, cut2)'
  BY <1>2, <1>4, <1>6, <1>7 DEF Split, Piece
<1> QED BY <1>3, <1>6, <1>7, <1>8 DEF Upto, N

\* Copying from a packet to the caller's buffer.
LEMMA DeliverPiece ==
    ASSUME NEW i \in 0..N, NEW j \in i..N, NEW n \in Nat, got = Piece(0, i),
           Deliver(Piece(i, j), n)
    PROVE  \E k \in i..j : got' = Piece(0, k) /\ unread' = Piece(k, j)
<1>1. N \in Nat /\ Len(Piece(i, j)) = j - i
  BY TcpAssumption, LenProperties, PieceIs DEF N
<1> DEFINE k == IF n < j - i THEN n ELSE j - i
<1>2. k \in 0..(j - i) /\ i + k \in i..j /\ i + k \in i..N /\ i + k \in 0..N
  BY <1>1
<1>3. got' = got \o SubSeq(Piece(i, j), 1, k) /\ unread' = SubSeq(Piece(i, j), k + 1, j - i)
  BY <1>1 DEF Deliver
<1> HIDE DEF k
<1>4. got' = Piece(0, i) \o Piece(i, i + k) /\ unread' = Piece(i + k, j)
  BY <1>2, <1>3, PieceCut
<1>5. got' = Piece(0, i + k)
  BY <1>2, <1>4, PieceJoin
<1> QED BY <1>2, <1>4, <1>5

\* A step that the queue is not part of.
LEMMA KeepPieces ==
    ASSUME Pieces, UNCHANGED <<rxq, got, unread>>,
           \A r \in 0..N : (pc # "closed" => Received(r)) => (pc' # "closed" => Received(r)')
    PROVE  Pieces'
<1>1. PICK r \in 0..N : Upto(r) /\ (pc # "closed" => Received(r))
  BY DEF Pieces
<1>2. Upto(r)'
  BY <1>1 DEF Upto, Split, Piece, N
<1> QED BY <1>1, <1>2 DEF Pieces, N

----------------------------------------------------------------------------
(* The steps *)

\* The number that the client would send now tells of no byte that has not come.
LEMMA AckTruthful ==
    ASSUME TcpType, Stages, NEW r \in 0..N, Received(r), peer.polite
    PROVE  Bytes(ack) \notin (r + 1)..N
<1>1. /\ \A n \in 0..(N + 1) : Bytes(peer.isn + 1 + n) = n
      /\ Bytes(0) > N /\ Bytes(0) \in Nat
      /\ N \in Nat /\ peer.isn \in Nat
  BY AckedBytes, Numbers DEF TcpType
<1>2. CASE st \in {0, 1}
  BY <1>1, <1>2 DEF Stages
<1>3. CASE st = 2
  <2>1. Bytes(ack) = r
    BY <1>1, <1>3 DEF Received
  <2> QED BY <1>1, <2>1
<1>4. CASE st = 3
  <2>1. ack = peer.isn + 1 + (N + 1) /\ N + 1 \in 0..(N + 1)
    BY <1>1, <1>4 DEF Received
  <2>2. Bytes(ack) = N + 1
    BY <1>1, <2>1
  <2> QED BY <1>1, <2>2
<1> QED BY <1>2, <1>3, <1>4 DEF TcpType

\* Before connect.
LEMMA InitTInv == Init => TInv
<1> SUFFICES ASSUME Init PROVE TInv
  OBVIOUS
<1>1. N \in Nat /\ 0 \in 0..N /\ Piece(0, 0) = <<>>
  <2>1. N \in Nat /\ 0 \in 0..N /\ 0 \in 0..0
    BY TcpAssumption, LenProperties DEF N
  <2> QED BY <2>1, PieceIs
<1>2. TcpType /\ Stages /\ EofMeansAll
  <2>1. <<>> \in Seq(Seq(Nat))
    BY EmptySeq
  <2>2. eof \in BOOLEAN /\ \A m \in toPeer : m.kind = "ACK" => m.ack \in Nat
    BY Zenon DEF Init
  <2>3. /\ st \in 0..3 /\ ack \in Nat /\ size \in Nat /\ acked \in 0..N
        /\ pc \in {"new", "connecting", "expired", "open", "recv", "failed", "closed"}
    BY <1>1 DEF Init
  <2>4. TcpType
    BY <2>1, <2>2, <2>3, Zenon DEF Init, TcpType
  <2> QED BY <2>4 DEF Init, Stages, EofMeansAll
<1>3. Upto(0)
  <2> DEFINE c == [i \in 1..1 |-> 0]
  <2>1. c \in [1..(Len(rxq) + 1) -> 0..N] /\ c[1] = 0 /\ c[Len(rxq) + 1] = 0 /\ DOMAIN rxq = {}
    BY <1>1 DEF Init
  <2> HIDE DEF c
  <2>2. Split(0, 0, c)
    BY <1>1, <2>1 DEF Init, Split
  <2> QED BY <1>1, <2>1, <2>2 DEF Upto
<1>4. Received(0)
  BY <1>1 DEF Init, Received
<1> QED BY <1>1, <1>2, <1>3, <1>4 DEF TInv, Pieces

\* The SYN is sent, once or again, or connect gives up; a RST arrives; or nothing that
\* the client looks at changes.
LEMMA ControlTInv ==
    ASSUME TInv, Connect \/ NoRoute \/ Timeout \/ Retry \/ Refused \/ PeerSyn \/ \E m \in toClient : ReceiveRst(m)
    PROVE  TInv'
<1> USE DEF TInv
<1>0. /\ UNCHANGED <<ack, rxq, unread, got, eof, size, peer, acked>>
      /\ \A m \in toPeer' : m.kind = "ACK" => m \in toPeer
      /\ pc = "closed" <=> pc' = "closed"
      /\ st' = st \/ (st' \in {0, 1} /\ (st = 1 \/ pc = "new"))
  BY DEF Connect, NoRoute, Timeout, Retry, Refused, PeerSyn, ReceiveRst, Goto, sock, app, remote
<1>1. TcpType'
  BY <1>0 DEF TcpType, Connect, NoRoute, Timeout, Retry, Refused, PeerSyn, ReceiveRst, Goto, sock, app,
     remote, N
<1>2. Stages'
  BY <1>0 DEF Stages, Connect, NoRoute, Timeout, Retry, Refused, PeerSyn, ReceiveRst, Goto, sock, app
<1>3. ASSUME NEW r \in 0..N, pc # "closed" => Received(r), pc' # "closed" PROVE Received(r)'
  BY <1>0, <1>3 DEF Received, Bytes, Wrap, N
<1>4. Pieces'
  BY <1>0, <1>3, KeepPieces
<1>5. EofMeansAll'
  BY <1>0 DEF EofMeansAll
<1> QED BY <1>1, <1>2, <1>4, <1>5

\* A segment of ours, or the acknowledgement of one, changes nothing for the stream.
LEMMA SendTInv ==
    ASSUME TInv, Send
    PROVE  TInv'
<1> USE DEF TInv
<1>0. /\ UNCHANGED <<st, ack, rxq, unread, got, eof, size, pc, peer, acked>>
      /\ toPeer' = toPeer \cup {[kind |-> "ACK", ack |-> ack]}
  BY DEF Send, Ack, app, remote
<1>1. TcpType'
  BY <1>0 DEF TcpType, N
<1>2. Stages' /\ EofMeansAll'
  BY <1>0 DEF Stages, EofMeansAll
<1>3. ASSUME NEW r \in 0..N, pc # "closed" => Received(r), pc' # "closed" PROVE Received(r)'
  <2>1. peer.polite => Bytes(ack) \notin (r + 1)..N
    BY <1>0, <1>3, AckTruthful
  <2> QED BY <1>0, <1>3, <2>1 DEF Received, Bytes, Wrap, N
<1>4. Pieces'
  BY <1>0, <1>3, KeepPieces
<1> QED BY <1>1, <1>2, <1>4

\* The peer reads an acknowledgement.
LEMMA PeerAckTInv ==
    ASSUME TInv, NEW m \in toPeer, PeerAck(m)
    PROVE  TInv'
<1> USE DEF TInv
<1>0. /\ UNCHANGED <<st, ack, rxq, unread, got, eof, size, pc, toPeer, peer>>
      /\ acked' = IF Bytes(m.ack) \in acked..N THEN Bytes(m.ack) ELSE acked
      /\ m.kind = "ACK"
  BY DEF PeerAck, Bytes, sock, app
<1>1. N \in Nat /\ Bytes(m.ack) \in Nat
  BY <1>0, AckedBytes, Numbers DEF TcpType
<1>2. TcpType'
  BY <1>0, <1>1 DEF TcpType, N
<1>3. Stages' /\ EofMeansAll'
  BY <1>0 DEF Stages, EofMeansAll
<1>4. ASSUME NEW r \in 0..N, pc # "closed" => Received(r), pc' # "closed" PROVE Received(r)'
  <2>1. peer.polite => acked <= r /\ Bytes(m.ack) \notin (r + 1)..N
    BY <1>0, <1>4 DEF Received
  <2>2. peer.polite => acked' <= r
    BY <1>0, <1>1, <2>1 DEF TcpType
  <2> QED BY <1>0, <1>4, <2>2 DEF Received, Bytes, Wrap, N
<1>5. Pieces'
  BY <1>0, <1>4, KeepPieces
<1> QED BY <1>2, <1>3, <1>5

\* connect takes the empty packet of the SYN ACK.
LEMMA ConnectedTInv ==
    ASSUME TInv, Connected
    PROVE  TInv'
<1> USE DEF TInv
<1>0. /\ UNCHANGED <<st, ack, unread, got, eof, size, toPeer, peer, acked>>
      /\ pc = "connecting" /\ pc' = "open" /\ rxq # <<>> /\ rxq' = Tail(rxq)
  BY DEF Connected, Goto, remote
<1>1. N \in Nat /\ rxq' \in Seq(Seq(Nat)) /\ Len(rxq) \in Nat \ {0} /\ DOMAIN rxq = 1..Len(rxq)
  BY <1>0, HeadTailProperties, EmptySeq, LenProperties, TcpAssumption DEF TcpType, N
<1>2. TcpType'
  BY <1>0, <1>1 DEF TcpType, N
<1>3. Stages' /\ EofMeansAll'
  BY <1>0 DEF Stages, EofMeansAll
<1>4. PICK r \in 0..N : Upto(r) /\ Received(r)
  BY <1>0 DEF Pieces
<1>5. PICK a \in 0..N, b \in 0..N, cut \in [1..(Len(rxq) + 1) -> 0..N] :
        Split(a, b, cut) /\ cut[Len(rxq) + 1] = r
  BY <1>4 DEF Upto
<1>6. cut[2] = b
  <2>0. 1 \in 1..(Len(rxq) + 1) /\ 2 \in 1..(Len(rxq) + 1) /\ 1 \in DOMAIN rxq /\ 1 + 1 = 2
    BY <1>1
  <2>1. 1 \in DOMAIN rxq /\ cut[1] \in 0..N /\ cut[2] \in 0..N /\ 1 + 1 = 2
    BY <2>0
  <2>2. rxq[1] = <<>>
    BY <1>0 DEF TcpType, Stages
  <2>3. cut[1] <= cut[2] /\ Piece(cut[1], cut[2]) = <<>> /\ b = cut[1]
    BY <1>5, <2>1, <2>2 DEF Split
  <2>4. cut[2] \in cut[1]..N
    BY <1>1, <2>1, <2>3
  <2> QED BY <2>1, <2>3, <2>4, PieceIs
<1>7. a \in 0..b /\ got' = Piece(0, a) /\ unread' = Piece(a, b)
  BY <1>0, <1>1, <1>5 DEF Split
<1>8. \A i \in DOMAIN rxq : cut[i] <= cut[i + 1] /\ rxq[i] = Piece(cut[i], cut[i + 1])
  BY <1>5 DEF Split
<1>9. Upto(r)'
  BY <1>0, <1>5, <1>6, <1>7, <1>8, TailPiece
<1>10. Received(r)'
  BY <1>0, <1>4 DEF Received, Bytes, Wrap, N
<1> QED BY <1>2, <1>3, <1>9, <1>10 DEF Pieces, N

\* recv copies from the rest of a packet, reports the end of file, or waits.
LEMMA RecvTInv ==
    ASSUME TInv, NEW n \in Sizes, Recv(n)
    PROVE  TInv'
<1> USE DEF TInv
<1>0. /\ UNCHANGED <<st, ack, rxq, toPeer, peer, acked>>
      /\ pc = "open" /\ pc' \in {"open", "recv"} /\ ~eof /\ n \in Nat
      /\ size' \in {size, n}
  BY TcpAssumption DEF Recv, Goto, sock, remote
<1>1. N \in Nat
  BY TcpAssumption, LenProperties DEF N
<1>2. PICK r \in 0..N : Upto(r) /\ Received(r)
  BY <1>0 DEF Pieces
<1>3. PICK a \in 0..N, b \in 0..N, cut \in [1..(Len(rxq) + 1) -> 0..N] :
        Split(a, b, cut) /\ cut[Len(rxq) + 1] = r
  BY <1>2 DEF Upto
<1>4. b \in a..N /\ got = Piece(0, a) /\ unread = Piece(a, b) /\ b = cut[1]
  BY <1>1, <1>3 DEF Split
<1>5. Received(r)'
  BY <1>0, <1>2 DEF Received, Bytes, Wrap, N
<1>6. CASE unread # <<>> /\ Deliver(unread, n) /\ UNCHANGED <<pc, size, eof>>
  <2>1. PICK k \in a..b : got' = Piece(0, k) /\ unread' = Piece(k, b)
    BY <1>0, <1>4, <1>6, DeliverPiece
  <2>2. k \in 0..N /\ k <= b
    BY <1>1, <1>4
  <2>3. Split(k, b, cut)'
    BY <1>0, <1>3, <2>1, <2>2 DEF Split, Piece
  <2>4. Pieces'
    BY <1>0, <1>3, <1>5, <2>2, <2>3 DEF Pieces, Upto, N
  <2>5. TcpType'
    BY <1>0, <1>6 DEF TcpType, N
  <2>6. Stages' /\ EofMeansAll'
    BY <1>0, <1>6 DEF Stages, EofMeansAll
  <2> QED BY <2>4, <2>5, <2>6
<1>7. CASE /\ unread = <<>> /\ eof' = AtEof /\ UNCHANGED <<got, unread>>
           /\ IF AtEof THEN UNCHANGED <<pc, size>> ELSE Goto("recv") /\ size' = n
  <2>1. Upto(r)'
    BY <1>0, <1>2, <1>7 DEF Upto, Split, Piece, N
  <2>2. Pieces'
    BY <1>5, <2>1 DEF Pieces, N
  <2>3. eof' \in BOOLEAN
    BY <1>7 DEF AtEof
  <2>4. TcpType'
    BY <1>0, <1>7, <2>3 DEF TcpType, N
  <2>5. Stages'
    BY <1>0, <1>7 DEF Stages, Goto
  <2>6. EofMeansAll'
    <3> SUFFICES ASSUME peer.polite, AtEof PROVE got = Stream
      BY <1>0, <1>7 DEF EofMeansAll
    <3>1. rxq = <<>> /\ r = N
      BY <1>2 DEF AtEof, Received
    <3>2. b = N
      BY <1>3, <1>4, <3>1
    <3>3. a = b
      BY <1>4, <1>7, PieceIs
    <3> QED BY <1>4, <3>2, <3>3, SubSeqFull, TcpAssumption DEF Piece, N
  <2> QED BY <2>2, <2>4, <2>5, <2>6
<1> QED BY <1>6, <1>7 DEF Recv

\* recv copies from the packet at the head of the queue.
LEMMA RecvPacketTInv ==
    ASSUME TInv, RecvPacket
    PROVE  TInv'
<1> USE DEF TInv
<1>0. /\ UNCHANGED <<st, ack, eof, toPeer, peer, acked>>
      /\ pc = "recv" /\ pc' = "open" /\ size' = 0 /\ rxq # <<>> /\ rxq' = Tail(rxq)
      /\ Deliver(Head(rxq), size) /\ unread = <<>>
  BY DEF RecvPacket, Goto, remote, Stages
<1>1. /\ N \in Nat /\ rxq' \in Seq(Seq(Nat)) /\ Len(rxq) \in Nat \ {0} /\ DOMAIN rxq = 1..Len(rxq)
      /\ Head(rxq) = rxq[1]
  BY <1>0, HeadTailProperties, EmptySeq, LenProperties, TcpAssumption DEF TcpType, N
<1>2. PICK r \in 0..N : Upto(r) /\ Received(r)
  BY <1>0 DEF Pieces
<1>3. PICK a \in 0..N, b \in 0..N, cut \in [1..(Len(rxq) + 1) -> 0..N] :
        Split(a, b, cut) /\ cut[Len(rxq) + 1] = r
  BY <1>2 DEF Upto
<1>4. b \in a..N /\ got = Piece(0, a) /\ unread = Piece(a, b) /\ b = cut[1]
  BY <1>1, <1>3 DEF Split
<1>5. a = b
  BY <1>0, <1>4, PieceIs
<1>6. cut[2] \in b..N /\ cut[2] \in 0..N /\ Head(rxq) = Piece(b, cut[2])
  <2>1. 1 \in DOMAIN rxq /\ 2 \in 1..(Len(rxq) + 1) /\ 1 + 1 = 2
    BY <1>1
  <2>2. cut[1] <= cut[2] /\ rxq[1] = Piece(cut[1], cut[2]) /\ cut[2] \in 0..N
    BY <1>3, <2>1 DEF Split
  <2> QED BY <1>1, <1>4, <2>2
<1>7. PICK k \in b..cut[2] : got' = Piece(0, k) /\ unread' = Piece(k, cut[2])
  BY <1>0, <1>4, <1>5, <1>6, DeliverPiece DEF TcpType
<1>8. k \in 0..cut[2]
  BY <1>1, <1>6
<1>9. \A i \in DOMAIN rxq : cut[i] <= cut[i + 1] /\ rxq[i] = Piece(cut[i], cut[i + 1])
  BY <1>3 DEF Split
<1>10. Upto(r)'
  BY <1>0, <1>3, <1>6, <1>7, <1>8, <1>9, TailPiece
<1>11. Received(r)'
  BY <1>0, <1>2 DEF Received, Bytes, Wrap, N
<1>12. TcpType'
  BY <1>0, <1>1 DEF TcpType, N
<1>13. Stages' /\ EofMeansAll'
  BY <1>0 DEF Stages, EofMeansAll
<1> QED BY <1>10, <1>11, <1>12, <1>13 DEF Pieces, N

\* close gives up what is queued.
LEMMA CloseTInv ==
    ASSUME TInv, Close
    PROVE  TInv'
<1> USE DEF TInv
<1>0. /\ UNCHANGED <<st, ack, unread, got, eof, size, peer, acked>>
      /\ pc' = "closed" /\ rxq' = <<>>
      /\ toPeer' = toPeer \cup {[kind |-> "ACK", ack |-> ack]}
  BY DEF Close, Ack, Goto, remote
<1>1. N \in Nat /\ <<>> \in Seq(Seq(Nat))
  BY TcpAssumption, LenProperties, EmptySeq DEF N
<1>2. TcpType'
  BY <1>0, <1>1 DEF TcpType, N
<1>3. Stages' /\ EofMeansAll'
  BY <1>0 DEF Stages, EofMeansAll
<1>4. PICK r \in 0..N : Upto(r)
  BY DEF Pieces
<1>5. PICK a \in 0..N, b \in 0..N, cut \in [1..(Len(rxq) + 1) -> 0..N] : Split(a, b, cut)
  BY <1>4 DEF Upto
<1>6. Upto(b)'
  <2> DEFINE c == [i \in 1..1 |-> b]
  <2>1. c \in [1..(Len(rxq') + 1) -> 0..N] /\ c[1] = b /\ c[Len(rxq') + 1] = b /\ DOMAIN rxq' = {}
    BY <1>0
  <2>2. \E d \in [1..(Len(rxq') + 1) -> 0..N] : d[1] = b /\ d[Len(rxq') + 1] = b
    BY <2>1
  <2>3. PICK d \in [1..(Len(rxq') + 1) -> 0..N] : d[1] = b /\ d[Len(rxq') + 1] = b
    BY <2>2
  <2>4. Split(a, b, d)'
    BY <1>0, <1>5, <2>1, <2>3 DEF Split, Piece
  <2> QED BY <2>3, <2>4 DEF Upto, N
<1> QED BY <1>0, <1>2, <1>3, <1>6 DEF Pieces, N

\* The SYN ACK is answered, and its empty packet queued.
LEMMA SynAckTInv ==
    ASSUME TInv, pc # "closed", NEW m \in toClient, ReceiveSynAck(m)
    PROVE  TInv'
<1> USE DEF TInv
<1>1. /\ N \in Nat /\ peer.isn \in Nat /\ 0 \in 0..N /\ 1 \in 0..(N + 2) /\ 0 \in 0..(N + 1)
      /\ Wrap(peer.isn + 1) = peer.isn + 1 /\ Bytes(peer.isn + 1 + 0) = 0
      /\ peer.isn + 1 + 0 = peer.isn + 1
  <2>1. N \in Nat /\ peer.isn \in Nat
    BY Numbers DEF TcpType
  <2>2. 0 \in 0..N /\ 1 \in 0..(N + 2) /\ 0 \in 0..(N + 1) /\ peer.isn + 1 + 0 = peer.isn + 1
    BY <2>1
  <2> QED BY <2>1, <2>2, Numbers, AckedBytes DEF TcpType
<1>2. m.seq = peer.isn
  BY DEF ReceiveSynAck, toClient, Segment
<1>3. /\ UNCHANGED <<unread, got, eof, size, pc, peer, acked>>
      /\ st = 1 /\ st' = 2 /\ ack' = peer.isn + 1
      /\ toPeer' = toPeer \cup {[kind |-> "ACK", ack |-> peer.isn + 1]}
      /\ rxq = <<>> /\ got = <<>> /\ unread = <<>> /\ rxq' = Append(rxq, <<>>)
  BY <1>1, <1>2 DEF ReceiveSynAck, Ack, app, remote, Stages
<1>4. /\ rxq' \in Seq(Seq(Nat)) /\ rxq'[1] = <<>>
  <2>1. <<>> \in Seq(Nat)
    BY EmptySeq
  <2> QED BY <1>3, <2>1, AppendProperties DEF TcpType
<1>5. TcpType'
  BY <1>1, <1>3, <1>4 DEF TcpType, N
<1>6. Stages' /\ EofMeansAll'
  BY <1>3, <1>4 DEF Stages, EofMeansAll
<1>7. PICK r \in 0..N : Upto(r) /\ Received(r)
  BY DEF Pieces
<1>8. r = 0
  <2>1. PICK a \in 0..N, b \in 0..N, cut \in [1..(Len(rxq) + 1) -> 0..N] :
          Split(a, b, cut) /\ cut[Len(rxq) + 1] = r
    BY <1>7 DEF Upto
  <2>2. b \in a..N /\ got = Piece(0, a) /\ unread = Piece(a, b) /\ b = cut[1]
    BY <1>1, <2>1 DEF Split
  <2>3. r = b
    BY <1>3, <2>1, <2>2
  <2>4. a \in 0..N /\ 0 \in 0..N
    BY <1>1
  <2>5. a = 0
    BY <1>3, <2>2, <2>4, PieceIs
  <2>6. b = a
    BY <1>3, <2>2, PieceIs
  <2> QED BY <2>3, <2>5, <2>6
<1>9. 0 \in r..N /\ Piece(r, 0) = <<>>
  <2>1. 0 \in 0..0
    OBVIOUS
  <2> QED BY <1>1, <1>8, PieceIs
<1>10. Upto(0)'
  BY <1>3, <1>7, <1>9, AppendPiece
<1>11. Received(0)'
  <2>1. \A k \in toPeer' : k.kind = "ACK" => k \in toPeer \/ k.ack = peer.isn + 1
    BY <1>3
  <2>2. peer.polite => \A k \in toPeer : k.kind = "ACK" => Bytes(k.ack) \notin 1..N
    BY <1>7, <1>8 DEF Received
  <2>3. Bytes(peer.isn + 1) \notin 1..N
    BY <1>1
  <2>4. peer.polite => acked <= 0
    BY <1>7, <1>8 DEF Received
  <2> QED BY <1>1, <1>3, <2>1, <2>2, <2>3, <2>4 DEF Received, Bytes, Wrap, N
<1> QED BY <1>1, <1>5, <1>6, <1>10, <1>11 DEF Pieces, N

\* The data segments on the way: bytes i..j under the number of the i-th.  A polite
\* peer sends a FIN when all has been acknowledged.
LEMMA DataSegment ==
    ASSUME TcpType, NEW m \in toClient, m.kind = "DATA"
    PROVE  \E i \in 0..N : \E j \in i..N :
             /\ m.data = Piece(i, j) /\ Len(m.data) = j - i
             /\ m.seq = peer.isn + 1 + i
             /\ m.fin \in BOOLEAN
             /\ m.fin /\ peer.polite => acked = N
<1>1. N \in Nat /\ peer.isn \in Nat /\ \A r \in 0..(N + 2) : Wrap(peer.isn + r) = peer.isn + r
  BY Numbers DEF TcpType
<1>2. PICK i \in 1..(N + 1), j \in 1..N, fin \in BOOLEAN :
        /\ m = Segment(i, j, fin) /\ i <= j + 1
        /\ fin /\ peer.polite => acked = N
  <2>0. m \notin {[kind |-> "RST"]} /\ m \notin {[kind |-> "SYNACK", seq |-> peer.isn]}
    OBVIOUS
  <2>1. peerSt = "open"
    <3>1. peerSt # "refused" /\ peerSt # "synrcvd"
      BY <2>0 DEF toClient
    <3> QED BY <3>1, Zenon DEF toClient
  <2>2. \/ m \in {Segment(p[1], p[2], FALSE) : p \in {q \in (1..N) \X (1..N) : q[1] <= q[2]}}
        \/ m \in {Segment(i, N, TRUE) : i \in IF ~peer.polite THEN 1..(N + 1)
                                              ELSE IF acked = N THEN {N + 1} ELSE {}}
    BY <2>0, <2>1 DEF toClient
  <2>3. CASE m \in {Segment(p[1], p[2], FALSE) : p \in {q \in (1..N) \X (1..N) : q[1] <= q[2]}}
    <3>1. PICK p \in (1..N) \X (1..N) : p[1] <= p[2] /\ m = Segment(p[1], p[2], FALSE)
      BY <2>3
    <3>2. p[1] \in 1..(N + 1) /\ p[2] \in 1..N /\ p[1] <= p[2] + 1
      BY <1>1, <3>1
    <3> QED BY <3>1, <3>2
  <2>4. CASE m \in {Segment(i, N, TRUE) : i \in IF ~peer.polite THEN 1..(N + 1)
                                                ELSE IF acked = N THEN {N + 1} ELSE {}}
    <3>1. PICK i \in 1..(N + 1) : m = Segment(i, N, TRUE) /\ (peer.polite => acked = N)
      <4>1. CASE peer.polite
        <5>1. acked = N /\ m = Segment(N + 1, N, TRUE)
          BY <2>4, <4>1
        <5>2. N + 1 \in 1..(N + 1)
          BY <1>1
        <5> QED BY <5>1, <5>2
      <4>2. CASE ~peer.polite
        BY <2>4, <4>2
      <4> QED BY <4>1, <4>2
    <3>2. N \in 1..N /\ i <= N + 1
      BY <1>1, EmptySeq, TcpAssumption DEF N
    <3> QED BY <3>1, <3>2
  <2> QED BY <2>2, <2>3, <2>4
<1>3. /\ m.data = SubSeq(Stream, i, j) /\ m.seq = Wrap(peer.isn + i) /\ m.fin = fin
  BY <1>2 DEF Segment
<1>4. i - 1 \in 0..N /\ j \in (i - 1)..N /\ (i - 1) + 1 = i /\ i \in 0..(N + 2)
  BY <1>1, <1>2
<1>5. m.data = Piece(i - 1, j) /\ Len(m.data) = j - (i - 1)
  BY <1>3, <1>4, PieceIs DEF Piece
<1>6. m.seq = peer.isn + 1 + (i - 1)
  BY <1>1, <1>3, <1>4
<1>7. m.fin \in BOOLEAN /\ (m.fin /\ peer.polite => acked = N)
  BY <1>2, <1>3, Zenon
<1> QED BY <1>4, <1>5, <1>6, <1>7

\* Appending one packet keeps those that wait before it.
LEMMA AppendKeeps ==
    ASSUME NEW q \in Seq(Seq(Nat)), NEW d \in Seq(Nat)
    PROVE  /\ Append(q, d) \in Seq(Seq(Nat)) /\ Append(q, d) # <<>>
           /\ \A x \in 1..Len(q) : Append(q, d)[x] = q[x]
<1>1. Append(q, d) \in Seq(Seq(Nat)) /\ Append(q, d) # <<>>
  BY AppendProperties
<1>2. \A x \in 1..Len(q) : Append(q, d)[x] = q[x]
  BY AppendProperties
<1> QED BY <1>1, <1>2

\* Data that is expected goes behind what has come, and no other is taken; a FIN of a
\* polite peer finds everything received.
LEMMA DataTInv ==
    ASSUME TInv, pc # "closed", NEW m \in toClient, ReceiveData(m)
    PROVE  TInv'
<1> USE DEF TInv
<1>1. /\ N \in Nat /\ peer.isn \in Nat
      /\ \A n \in 0..(N + 2) : Wrap(peer.isn + n) = peer.isn + n
      /\ \A n \in 0..(N + 1) : Bytes(peer.isn + 1 + n) = n
  BY Numbers, AckedBytes DEF TcpType
<1>2. PICK i \in 0..N : \E j \in i..N :
        /\ m.data = Piece(i, j) /\ Len(m.data) = j - i
        /\ m.seq = peer.isn + 1 + i
        /\ m.fin \in BOOLEAN
        /\ m.fin /\ peer.polite => acked = N
  BY DataSegment DEF ReceiveData
<1>3. PICK j \in i..N :
        /\ m.data = Piece(i, j) /\ Len(m.data) = j - i
        /\ m.seq = peer.isn + 1 + i
        /\ m.fin \in BOOLEAN
        /\ m.fin /\ peer.polite => acked = N
  BY <1>2
<1>4. PICK r \in 0..N : Upto(r) /\ Received(r)
  BY DEF Pieces
<1>5. st = 2 /\ ack = peer.isn + 1 + r
  BY <1>4 DEF ReceiveData, Received
<1>6. Expected(m) <=> r = i
  BY <1>1, <1>3, <1>5 DEF Expected
<1>7. PICK k \in r..N : k = IF Expected(m) THEN j ELSE r
  BY <1>1, <1>6
<1>8. (IF Expected(m) THEN AfterData(m) ELSE ack) = peer.isn + 1 + k
  <2>1. CASE Expected(m)
    <3>1. m.seq + Len(m.data) = peer.isn + (j + 1) /\ j + 1 \in 0..(N + 2)
      BY <1>1, <1>3
    <3>2. AfterData(m) = Wrap(peer.isn + (j + 1))
      BY <3>1, Zenon DEF AfterData
    <3>3. Wrap(peer.isn + (j + 1)) = peer.isn + (j + 1)
      BY <1>1, <3>1, Zenon
    <3>4. k = j /\ peer.isn + (j + 1) = peer.isn + 1 + j
      <4>1. k = j
        BY <1>7, <2>1
      <4>2. j \in Nat
        BY <1>1, <1>3
      <4> QED BY <1>1, <4>1, <4>2
    <3>5. (IF Expected(m) THEN AfterData(m) ELSE ack) = AfterData(m)
      BY <2>1, Zenon
    <3> QED BY <3>2, <3>3, <3>4, <3>5, Zenon
  <2>2. CASE ~Expected(m)
    BY <1>5, <1>7, <2>2
  <2> QED BY <2>1, <2>2
<1>9. k \in 0..N /\ k + 2 \in 0..(N + 2) /\ k \in 0..(N + 1) /\ k + 1 \in 0..(N + 1)
  BY <1>1, <1>7
<1>10. Wrap(peer.isn + 1 + k + 1) = peer.isn + 1 + (k + 1)
  <2>1. peer.isn + 1 + k + 1 = peer.isn + (k + 2) /\ peer.isn + 1 + (k + 1) = peer.isn + (k + 2)
    BY <1>1, <1>9
  <2> QED BY <1>1, <1>9, <2>1
<1>11. /\ UNCHANGED <<unread, got, eof, size, pc, peer, acked>>
       /\ ack' = IF m.fin THEN peer.isn + 1 + (k + 1) ELSE peer.isn + 1 + k
       /\ st' = IF m.fin THEN 3 ELSE 2
       /\ toPeer' = toPeer \cup {[kind |-> "ACK", ack |-> ack']}
       /\ rxq' = IF Expected(m) /\ m.data # <<>> THEN Append(rxq, m.data) ELSE rxq
  BY <1>8, <1>10 DEF ReceiveData, Ack, app, remote
<1>12. Upto(k)'
  <2>1. CASE Expected(m) /\ m.data # <<>>
    <3>1. rxq' = Append(rxq, Piece(r, k))
      BY <1>3, <1>6, <1>7, <1>11, <2>1
    <3> QED BY <1>4, <1>11, <3>1, AppendPiece
  <2>2. CASE ~(Expected(m) /\ m.data # <<>>)
    <3>1. k = r
      <4>1. Expected(m) => i = j
        BY <1>3, <2>2, PieceIs
      <4> QED BY <1>6, <1>7, <4>1
    <3>2. rxq' = rxq /\ got' = got /\ unread' = unread
      BY <1>11, <2>2
    <3>3. Upto(r)'
      BY <1>4, <3>2 DEF Upto, Split, Piece, N
    <3> QED BY <3>1, <3>3
  <2> QED BY <2>1, <2>2
<1>13. peer.polite /\ m.fin => r = N /\ k = N
  <2>1. peer.polite => acked <= r
    BY <1>4 DEF Received
  <2> QED BY <1>1, <1>3, <1>7, <2>1
<1>14. ack' \in Nat /\ (peer.polite => Bytes(ack') \notin (k + 1)..N)
  <2>1. CASE m.fin
    <3>1. ack' = peer.isn + 1 + (k + 1) /\ Bytes(ack') = k + 1
      BY <1>1, <1>9, <1>11, <2>1
    <3> QED BY <1>1, <1>9, <1>13, <2>1, <3>1
  <2>2. CASE ~m.fin
    <3>1. ack' = peer.isn + 1 + k /\ Bytes(ack') = k
      BY <1>1, <1>9, <1>11, <2>2
    <3> QED BY <1>1, <1>9, <3>1
  <2> QED BY <2>1, <2>2
<1>15. Received(k)'
  <2>1. st' = 2 => ack' = peer.isn + 1 + k
    BY <1>3, <1>11
  <2>2. peer.polite => acked <= k
    BY <1>1, <1>4, <1>7 DEF Received, TcpType
  <2>3. peer.polite => \A p \in toPeer : p.kind = "ACK" => Bytes(p.ack) \notin (k + 1)..N
    <3>1. (k + 1)..N \subseteq (r + 1)..N
      BY <1>1, <1>7
    <3> QED BY <1>4, <3>1 DEF Received
  <2>4. peer.polite => \A p \in toPeer' : p.kind = "ACK" => Bytes(p.ack) \notin (k + 1)..N
    BY <1>11, <1>14, <2>3
  <2>5. peer.polite /\ st' = 3 => k = N /\ ack' = peer.isn + N + 2
    <3>1. st' = 3 => m.fin
      BY <1>3, <1>11
    <3>2. peer.polite /\ m.fin => ack' = peer.isn + N + 2
      <4>1. peer.polite /\ m.fin => ack' = peer.isn + 1 + (N + 1)
        BY <1>11, <1>13
      <4>2. peer.isn + 1 + (N + 1) = peer.isn + N + 2
        BY <1>1
      <4> QED BY <4>1, <4>2
    <3> QED BY <1>13, <3>1, <3>2
  <2> QED BY <1>11, <2>1, <2>2, <2>4, <2>5 DEF Received, Bytes, Wrap, N
<1>16. rxq' \in Seq(Seq(Nat)) /\ (rxq # <<>> => rxq' # <<>> /\ rxq'[1] = rxq[1])
  <2>1. Piece(i, j) \in Seq(Nat)
    BY PieceIs
  <2>2. rxq # <<>> => 1 \in 1..Len(rxq)
    BY EmptySeq DEF TcpType
  <2>3. /\ Append(rxq, m.data) \in Seq(Seq(Nat)) /\ Append(rxq, m.data) # <<>>
        /\ rxq # <<>> => Append(rxq, m.data)[1] = rxq[1]
    <3>1. m.data \in Seq(Nat) /\ rxq \in Seq(Seq(Nat)) /\ Len(rxq) \in Nat
      BY <1>3, <2>1, LenProperties DEF TcpType
    <3>2. /\ Append(rxq, m.data) \in Seq(Seq(Nat)) /\ Append(rxq, m.data) # <<>>
          /\ \A x \in 1..Len(rxq) : Append(rxq, m.data)[x] = rxq[x]
      BY <3>1, AppendKeeps, Zenon
    <3> QED BY <2>2, <3>2
  <2> QED BY <1>11, <2>3 DEF TcpType
<1>17. TcpType'
  BY <1>3, <1>11, <1>14, <1>16 DEF TcpType, N
<1>18. Stages' /\ EofMeansAll'
  <2>1. st' \in {2, 3} /\ pc # "new"
    BY <1>3, <1>5, <1>11 DEF Stages
  <2>2. pc' \in {"connecting", "expired"} => rxq' # <<>> /\ rxq'[1] = <<>>
    BY <1>5, <1>11, <1>16 DEF Stages
  <2> QED BY <1>5, <1>11, <2>1, <2>2 DEF Stages, EofMeansAll
<1> QED BY <1>9, <1>12, <1>15, <1>17, <1>18 DEF Pieces, N

\* Every step preserves the invariant.
LEMMA NextTInv == TInv /\ [Next]_vars => TInv'
<1> SUFFICES ASSUME TInv, [Next]_vars PROVE TInv'
  OBVIOUS
<1>1. CASE UNCHANGED vars
  <2>1. UNCHANGED <<st, ack, rxq, unread, got, eof, size, pc, toPeer, peer, acked>>
    BY <1>1 DEF vars, sock, app, remote
  <2>2. TcpType' /\ Stages' /\ EofMeansAll'
    BY <2>1 DEF TInv, TcpType, Stages, EofMeansAll, N
  <2>3. \A r \in 0..N : (pc # "closed" => Received(r)) => (pc' # "closed" => Received(r)')
    BY <2>1 DEF Received, Bytes, Wrap, N
  <2> QED BY <2>1, <2>2, <2>3, KeepPieces DEF TInv
<1>2. CASE Call
  BY <1>2, ControlTInv, SendTInv, CloseTInv, RecvTInv DEF Call
<1>3. CASE Kernel
  BY <1>3, ControlTInv, ConnectedTInv, RecvPacketTInv DEF Kernel
<1>4. CASE PeerSyn \/ \E m \in toPeer : PeerAck(m)
  BY <1>4, ControlTInv, PeerAckTInv
<1>5. ASSUME NEW m \in toClient, Arrives(m) PROVE TInv'
  BY <1>5, ControlTInv, SynAckTInv, DataTInv DEF Arrives
<1> QED BY <1>1, <1>2, <1>3, <1>4, <1>5 DEF Next

\* The inductive invariant: connection stages, and how far the client has received.
THEOREM TcpInvariance == Spec => []TInv
BY InitTInv, NextTInv, PTL DEF Spec

\* net_ipv4_handle and sock_tcp_recv: whatever the network loses, repeats or reorders,
\* and whatever sizes the application reads with, it gets the beginning of the stream.
THEOREM StreamArrivesInOrder == Spec => []StreamInOrder
<1>1. TInv => StreamInOrder
  BY DEF TInv, Pieces, Upto, StreamInOrder
<1> QED BY <1>1, TcpInvariance, PTL

\* sock_tcp_recv returns 0 only when the application has the whole stream, if the peer
\* does not send its FIN ahead of data.
THEOREM EndOfFileMeansAll == Spec => []EofMeansAll
<1>1. TInv => EofMeansAll
  BY DEF TInv
<1> QED BY <1>1, TcpInvariance, PTL
=============================================================================
