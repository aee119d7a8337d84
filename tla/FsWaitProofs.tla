---------------------------- MODULE FsWaitProofs ----------------------------
(***************************************************************************)
(* Proofs about FsWait, for any number of processes, nodes and processors,  *)
(* any node lists and any timeouts.                                         *)
(***************************************************************************)
EXTENDS FsWait, ListLemmas, FiniteSetTheorems

Sleepers == [proc : Proc, left : Nat, fswait : BOOLEAN, id : Nat]

FsType ==
    /\ cores \in Nat \ {0}
    /\ pc \in [Proc -> PcVals]
    /\ nodes \in [Proc -> Seq(Node \cup Mute)]
    /\ asked \in [Proc -> Nat]
    /\ due \in [Proc -> Nat \cup {Never}]
    /\ ready \subseteq Node
    /\ waiters \in [Node -> Seq(Proc)]
    /\ dev \in [Node -> Proc \cup {"idle", "alert"}]
    /\ nodeWaits \in [Proc -> Seq(Node \cup Mute \cup Nat) \cup {None}]
    /\ timeout \in [Proc -> Nat \cup {None}]
    /\ awoken \in [Proc -> Int]
    /\ sleepQ \in Seq(Sleepers)
    /\ readyQ \subseteq Proc
    /\ sig \subseteq Proc

\* A call of fswait has nodes, and asks them all before it registers.
CallShape ==
    \A p \in Proc :
        /\ asked[p] <= Len(nodes[p])
        /\ pc[p] = "user" => nodes[p] = <<>>
        /\ pc[p] \in {"check", "join"} => nodes[p] # <<>>
        /\ pc[p] = "join" => asked[p] = Len(nodes[p])

\* node_waits are the nodes of the call, and behind them its timer.
WaitShape ==
    \A p \in Proc : nodeWaits[p] # None =>
        IF due[p] = Never THEN nodeWaits[p] = nodes[p]
        ELSE timeout[p] \in Nat /\ nodeWaits[p] = Append(nodes[p], timeout[p])

\* timeout_node and timed_sleep_node are the process's own record.
TimerOwned == \A r \in Range(sleepQ) : timeout[r.proc] = r.id

\* Whoever waits for a node is in its list, or in the hand of its writer.
Registered ==
    \A p \in Proc, n \in Node :
        nodeWaits[p] # None /\ n \in Range(nodes[p]) => p \in Range(waiters[n]) \/ dev[n] = p

\* On one processor, an answer a node gave is still true.
AnswersHold ==
    cores = 1 => \A p \in InKernel : \A i \in 1..asked[p] : nodes[p][i] \notin ready

FInv ==
    /\ FsType
    /\ CallShape
    /\ WokenOnce
    /\ WaitShape
    /\ TimersMatch
    /\ TimerOwned
    /\ HonestReason
    /\ Registered
    /\ AnswersHold
    /\ SleepsForData

----------------------------------------------------------------------------
(* sleep_queue *)

\* Soonest first, and one record of a process at most.
Ordered(q) ==
    \A i, j \in DOMAIN q : i < j => q[i].left <= q[j].left /\ q[i].proc # q[j].proc

\* The timed insertion finds the place: behind what is not later.
LEMMA InsertedIs ==
    ASSUME FsType, Ordered(sleepQ), NEW s \in Sleepers
    PROVE  \E k \in 1..(Len(sleepQ) + 1) :
             /\ Inserted(s) \in Seq(Sleepers) /\ Len(Inserted(s)) = Len(sleepQ) + 1
             /\ \A i \in 1..(k - 1) : Inserted(s)[i] = sleepQ[i] /\ sleepQ[i].left <= s.left
             /\ Inserted(s)[k] = s
             /\ \A i \in k..Len(sleepQ) : Inserted(s)[i + 1] = sleepQ[i] /\ sleepQ[i].left > s.left
<1> DEFINE I == {i \in 1..Len(sleepQ) : sleepQ[i].left > s.left}
<1>1. /\ sleepQ \in Seq(Sleepers) /\ Len(sleepQ) \in Nat /\ DOMAIN sleepQ = 1..Len(sleepQ)
      /\ \A i \in 1..Len(sleepQ) : sleepQ[i] \in Sleepers
  BY LenProperties, ElementOfSeq DEF FsType
<1>2. s.left \in Nat /\ \A i \in 1..Len(sleepQ) : sleepQ[i].left \in Nat
  BY <1>1 DEF Sleepers
<1>3. CASE I = {}
  <2>1. Inserted(s) = Append(sleepQ, s)
    BY <1>3 DEF Inserted, SelectInSeq
  <2>2. /\ Append(sleepQ, s) \in Seq(Sleepers) /\ Len(Append(sleepQ, s)) = Len(sleepQ) + 1
        /\ \A i \in 1..Len(sleepQ) : Append(sleepQ, s)[i] = sleepQ[i]
        /\ Append(sleepQ, s)[Len(sleepQ) + 1] = s
    BY <1>1, AppendProperties
  <2>3. \A i \in 1..Len(sleepQ) : sleepQ[i].left <= s.left
    BY <1>2, <1>3
  <2>4. /\ Len(sleepQ) + 1 \in 1..(Len(sleepQ) + 1) /\ (Len(sleepQ) + 1) - 1 = Len(sleepQ)
        /\ (Len(sleepQ) + 1)..Len(sleepQ) = {}
    BY <1>1
  <2> HIDE DEF I
  <2> QED BY <2>1, <2>2, <2>3, <2>4
<1>4. CASE I # {}
  <2>1. Min(I) \in I /\ \A i \in I : Min(I) <= i
    <3>1. I \subseteq Nat
      BY <1>1
    <3> HIDE DEF I
    <3> QED BY <1>4, <3>1, MinIs
  <2>2. PICK k : k = Min(I)
    OBVIOUS
  <2>3. k \in 1..Len(sleepQ) /\ sleepQ[k].left > s.left /\ \A i \in I : k <= i
    BY <2>1, <2>2
  <2>4. Inserted(s) = InsertAt(sleepQ, k, s)
    BY <1>1, <1>4, <2>2, <2>3 DEF Inserted, SelectInSeq
  <2>5. /\ Inserted(s) \in Seq(Sleepers) /\ Len(Inserted(s)) = Len(sleepQ) + 1
        /\ \A i \in 1..(k - 1) : Inserted(s)[i] = sleepQ[i]
        /\ Inserted(s)[k] = s
        /\ \A i \in k..Len(sleepQ) : Inserted(s)[i + 1] = sleepQ[i]
    <3>1. /\ InsertAt(sleepQ, k, s) \in Seq(Sleepers)
          /\ Len(InsertAt(sleepQ, k, s)) = Len(sleepQ) + 1
          /\ \A i \in 1..(k - 1) : InsertAt(sleepQ, k, s)[i] = sleepQ[i]
          /\ InsertAt(sleepQ, k, s)[k] = s
          /\ \A i \in k..Len(sleepQ) : InsertAt(sleepQ, k, s)[i + 1] = sleepQ[i]
      <4>1. k \in 1..Len(sleepQ) /\ s \in Sleepers /\ sleepQ \in Seq(Sleepers)
        BY <1>1, <2>3
      <4> HIDE DEF I
      <4> QED BY <4>1, InsertAtIs, SMTT(60)
    <3> QED BY <2>4, <3>1, Zenon
  <2>6. \A i \in 1..(k - 1) : sleepQ[i].left <= s.left
    BY <1>1, <1>2, <2>3
  <2>7. \A i \in k..Len(sleepQ) : sleepQ[i].left > s.left
    <3> TAKE i \in k..Len(sleepQ)
    <3>1. i \in 1..Len(sleepQ) /\ (k = i \/ k < i)
      BY <1>1, <2>3
    <3>2. sleepQ[k].left <= sleepQ[i].left
      BY <1>1, <1>2, <2>3, <3>1 DEF Ordered
    <3> QED BY <1>2, <2>3, <3>1, <3>2
  <2>8. k \in 1..(Len(sleepQ) + 1)
    BY <1>1, <2>3
  <2> HIDE DEF I
  <2> QED BY <2>5, <2>6, <2>7, <2>8
<1> QED BY <1>3, <1>4

\* A record that is inserted for a process without one.
LEMMA InsertedElems ==
    ASSUME FsType, Ordered(sleepQ), NEW s \in Sleepers, \A r \in Range(sleepQ) : r.proc # s.proc
    PROVE  /\ Inserted(s) \in Seq(Sleepers)
           /\ Range(Inserted(s)) = Range(sleepQ) \cup {s}
           /\ Ordered(Inserted(s))
<1>1. /\ sleepQ \in Seq(Sleepers) /\ Len(sleepQ) \in Nat /\ DOMAIN sleepQ = 1..Len(sleepQ)
      /\ \A i \in 1..Len(sleepQ) : sleepQ[i] \in Sleepers /\ sleepQ[i].proc # s.proc
  BY LenProperties, ElementOfSeq DEF FsType, Range
<1>2. s.left \in Nat /\ \A i \in 1..Len(sleepQ) : sleepQ[i].left \in Nat
  BY <1>1 DEF Sleepers
<1>3. PICK k \in 1..(Len(sleepQ) + 1) :
        /\ Inserted(s) \in Seq(Sleepers) /\ Len(Inserted(s)) = Len(sleepQ) + 1
        /\ \A i \in 1..(k - 1) : Inserted(s)[i] = sleepQ[i] /\ sleepQ[i].left <= s.left
        /\ Inserted(s)[k] = s
        /\ \A i \in k..Len(sleepQ) : Inserted(s)[i + 1] = sleepQ[i] /\ sleepQ[i].left > s.left
  BY InsertedIs
<1>4. PICK t : t = Inserted(s)
  OBVIOUS
<1>5. DOMAIN t = 1..(Len(sleepQ) + 1)
  BY <1>3, <1>4, LenProperties
<1>6. \A i \in 1..(Len(sleepQ) + 1) :
        \/ i < k /\ i \in 1..Len(sleepQ) /\ t[i] = sleepQ[i] /\ sleepQ[i].left <= s.left
        \/ i = k /\ t[i] = s
        \/ i > k /\ i - 1 \in 1..Len(sleepQ) /\ t[i] = sleepQ[i - 1] /\ sleepQ[i - 1].left > s.left
  <2> TAKE i \in 1..(Len(sleepQ) + 1)
  <2>1. CASE i < k
    <3>1. i \in 1..(k - 1) /\ i \in 1..Len(sleepQ)
      BY <1>1, <2>1
    <3> QED BY <1>3, <1>4, <2>1, <3>1
  <2>2. CASE i = k
    BY <1>3, <1>4, <2>2
  <2>3. CASE i > k
    <3>1. i - 1 \in k..Len(sleepQ) /\ i - 1 \in 1..Len(sleepQ) /\ (i - 1) + 1 = i
      BY <1>1, <2>3
    <3>2. Inserted(s)[(i - 1) + 1] = sleepQ[i - 1] /\ sleepQ[i - 1].left > s.left
      BY <1>3, <3>1
    <3> QED BY <1>4, <2>3, <3>1, <3>2
  <2> QED BY <1>1, <2>1, <2>2, <2>3
<1>7. \A i \in 1..Len(sleepQ) : \E j \in 1..(Len(sleepQ) + 1) : t[j] = sleepQ[i]
  <2> TAKE i \in 1..Len(sleepQ)
  <2>1. CASE i < k
    <3>1. i \in 1..(k - 1) /\ i \in 1..(Len(sleepQ) + 1)
      BY <1>1, <2>1
    <3> QED BY <1>3, <1>4, <3>1
  <2>2. CASE ~(i < k)
    <3>1. i \in k..Len(sleepQ) /\ i + 1 \in 1..(Len(sleepQ) + 1)
      BY <1>1, <2>2
    <3> QED BY <1>3, <1>4, <3>1
  <2> QED BY <2>1, <2>2
<1>8. Range(t) = Range(sleepQ) \cup {s}
  <2>1. \A i \in 1..(Len(sleepQ) + 1) : t[i] = s \/ \E j \in 1..Len(sleepQ) : t[i] = sleepQ[j]
    BY <1>6
  <2>2. t[k] = s
    BY <1>3, <1>4
  <2>3. Range(t) \subseteq Range(sleepQ) \cup {s}
    BY <1>1, <1>5, <2>1 DEF Range
  <2>4. Range(sleepQ) \cup {s} \subseteq Range(t)
    BY <1>1, <1>5, <1>7, <2>2 DEF Range
  <2> QED BY <2>3, <2>4
<1>9. Ordered(t)
  <2> SUFFICES ASSUME NEW i \in 1..(Len(sleepQ) + 1), NEW j \in 1..(Len(sleepQ) + 1), i < j
               PROVE  t[i].left <= t[j].left /\ t[i].proc # t[j].proc
    BY <1>5 DEF Ordered
  <2>1. CASE j < k
    BY <1>1, <1>6, <2>1 DEF Ordered
  <2>2. CASE j = k
    <3>1. t[j] = s /\ t[i] = sleepQ[i] /\ sleepQ[i].left <= s.left /\ i \in 1..Len(sleepQ)
      BY <1>1, <1>6, <2>2
    <3> QED BY <1>1, <3>1
  <2>3. CASE j > k
    <3>1. j - 1 \in 1..Len(sleepQ) /\ t[j] = sleepQ[j - 1] /\ sleepQ[j - 1].left > s.left
      BY <1>1, <1>6, <2>3
    <3>2. CASE i < k
      <4>1. i \in 1..Len(sleepQ) /\ t[i] = sleepQ[i] /\ i < j - 1
        BY <1>1, <1>6, <2>3, <3>2
      <4> QED BY <1>1, <3>1, <4>1 DEF Ordered
    <3>3. CASE i = k
      <4>1. t[i] = s
        BY <1>3, <1>4, <3>3
      <4> QED BY <1>1, <1>2, <3>1, <4>1
    <3>4. CASE i > k
      <4>1. i - 1 \in 1..Len(sleepQ) /\ t[i] = sleepQ[i - 1] /\ i - 1 < j - 1
        BY <1>1, <1>6, <2>3, <3>4
      <4> QED BY <1>1, <3>1, <4>1 DEF Ordered
    <3> QED BY <1>1, <3>2, <3>3, <3>4
  <2> QED BY <1>1, <2>1, <2>2, <2>3
<1> QED BY <1>3, <1>4, <1>8, <1>9

\* list_delete of the timer of a call; nothing changes if it is not queued any more.
LEMMA WithoutElems ==
    ASSUME FsType, Ordered(sleepQ), TimerOwned, NEW p \in Proc
    PROVE  /\ Without(p) \in Seq(Sleepers)
           /\ Range(Without(p)) = {r \in Range(sleepQ) : r.proc # p}
           /\ Ordered(Without(p))
<1> DEFINE I == {i \in 1..Len(sleepQ) : sleepQ[i].proc = p /\ sleepQ[i].id = timeout[p]}
<1>1. /\ sleepQ \in Seq(Sleepers) /\ Len(sleepQ) \in Nat /\ DOMAIN sleepQ = 1..Len(sleepQ)
  BY LenProperties DEF FsType
<1>2. \A i \in 1..Len(sleepQ) : sleepQ[i].proc = p => i \in I
  BY <1>1 DEF TimerOwned, Range
<1>3. CASE I = {}
  <2>1. Without(p) = sleepQ
    BY <1>3 DEF Without, RemoveFirstMatch
  <2>2. \A r \in Range(sleepQ) : r.proc # p
    BY <1>1, <1>2, <1>3 DEF Range
  <2> HIDE DEF I
  <2> QED BY <1>1, <2>1, <2>2
<1>4. CASE I # {}
  <2>1. PICK k \in 1..Len(sleepQ) : sleepQ[k].proc = p /\ sleepQ[k].id = timeout[p]
    BY <1>4
  <2>2. \A i \in 1..Len(sleepQ) : i # k => sleepQ[i].proc # p
    BY <1>1, <2>1 DEF Ordered
  <2>3. I = {k}
    BY <2>1, <2>2
  <2>4. Min(I) = k
    BY <2>1, <2>3 DEF Min
  <2>5. Without(p) = RemoveAt(sleepQ, k)
    <3>1. \E i \in 1..Len(sleepQ) : sleepQ[i].proc = p /\ sleepQ[i].id = timeout[p]
      BY <2>1
    <3>2. SelectInSeq(sleepQ, LAMBDA r : r.proc = p /\ r.id = timeout[p]) = k
      BY <1>4, <2>4 DEF SelectInSeq
    <3> QED BY <3>1, <3>2, Zenon DEF Without, RemoveFirstMatch
  <2>6. PICK t : t = RemoveAt(sleepQ, k)
    OBVIOUS
  <2>7. /\ t \in Seq(Sleepers) /\ DOMAIN t = 1..(Len(sleepQ) - 1)
        /\ \A i \in 1..(Len(sleepQ) - 1) : t[i] = sleepQ[IF i < k THEN i ELSE i + 1]
    BY <1>1, <2>1, <2>6, RemoveAtIs
  <2> HIDE DEF I
  <2>8. \A i \in 1..(Len(sleepQ) - 1) :
          \E j \in 1..Len(sleepQ) : j = (IF i < k THEN i ELSE i + 1) /\ j # k /\ t[i] = sleepQ[j]
    BY <1>1, <2>1, <2>7
  <2>9. Range(t) \subseteq {r \in Range(sleepQ) : r.proc # p}
    <3> SUFFICES ASSUME NEW i \in 1..(Len(sleepQ) - 1)
                 PROVE  t[i] \in Range(sleepQ) /\ t[i].proc # p
      BY <2>7 DEF Range
    <3>1. PICK j \in 1..Len(sleepQ) : j # k /\ t[i] = sleepQ[j]
      BY <2>8
    <3> QED BY <1>1, <2>2, <3>1 DEF Range
  <2>10. {r \in Range(sleepQ) : r.proc # p} \subseteq Range(t)
    <3> SUFFICES ASSUME NEW j \in 1..Len(sleepQ), sleepQ[j].proc # p
                 PROVE  sleepQ[j] \in Range(t)
      BY <1>1 DEF Range
    <3>1. CASE j < k
      <4>1. j \in 1..(Len(sleepQ) - 1) /\ t[j] = sleepQ[j]
        BY <1>1, <2>1, <2>7, <3>1
      <4> QED BY <2>7, <4>1 DEF Range
    <3>2. CASE j > k
      <4>1. j - 1 \in 1..(Len(sleepQ) - 1) /\ ~(j - 1 < k) /\ (j - 1) + 1 = j
        BY <1>1, <2>1, <3>2
      <4>2. t[j - 1] = sleepQ[j]
        BY <2>7, <4>1
      <4> QED BY <2>7, <4>1, <4>2 DEF Range
    <3> QED BY <1>1, <2>1, <3>1, <3>2
  <2>11. Ordered(t)
    <3> SUFFICES ASSUME NEW i \in 1..(Len(sleepQ) - 1), NEW j \in 1..(Len(sleepQ) - 1), i < j
                 PROVE  t[i].left <= t[j].left /\ t[i].proc # t[j].proc
      BY <2>7 DEF Ordered
    <3>1. PICK m \in 1..Len(sleepQ) : m = (IF i < k THEN i ELSE i + 1) /\ t[i] = sleepQ[m]
      BY <2>8
    <3>2. PICK n \in 1..Len(sleepQ) : n = (IF j < k THEN j ELSE j + 1) /\ t[j] = sleepQ[n]
      BY <2>8
    <3>3. m < n
      BY <1>1, <2>1, <3>1, <3>2
    <3> QED BY <1>1, <3>1, <3>2, <3>3 DEF Ordered
  <2> QED BY <2>5, <2>6, <2>7, <2>9, <2>10, <2>11
<1> QED BY <1>3, <1>4

\* The clock finds all that has expired at the head of the queue.
LEMMA ExpiredIs ==
    ASSUME FsType, Ordered(sleepQ)
    PROVE  /\ Expired \in 0..Len(sleepQ)
           /\ \A i \in 1..Len(sleepQ) : i <= Expired <=> sleepQ[i].left <= 1
<1> DEFINE I == {i \in 1..Len(sleepQ) : sleepQ[i].left > 1}
<1>1. /\ sleepQ \in Seq(Sleepers) /\ Len(sleepQ) \in Nat /\ DOMAIN sleepQ = 1..Len(sleepQ)
      /\ \A i \in 1..Len(sleepQ) : sleepQ[i] \in Sleepers
  BY LenProperties, ElementOfSeq DEF FsType
<1>2. \A i \in 1..Len(sleepQ) : sleepQ[i].left \in Nat
  BY <1>1 DEF Sleepers
<1>3. CASE I = {}
  <2>1. Expired = Len(sleepQ)
    BY <1>3 DEF Expired, SelectInSeq
  <2> QED BY <1>1, <1>2, <1>3, <2>1
<1>4. CASE I # {}
  <2>1. Min(I) \in I /\ \A i \in I : Min(I) <= i
    <3>1. I \subseteq Nat
      BY <1>1
    <3> HIDE DEF I
    <3> QED BY <1>4, <3>1, MinIs
  <2>2. PICK k : k = Min(I)
    OBVIOUS
  <2>3. k \in 1..Len(sleepQ) /\ sleepQ[k].left > 1 /\ \A i \in I : k <= i
    BY <2>1, <2>2
  <2>4. Expired = k - 1
    BY <1>1, <1>4, <2>2, <2>3 DEF Expired, SelectInSeq
  <2>5. ASSUME NEW i \in 1..Len(sleepQ) PROVE i <= k - 1 <=> sleepQ[i].left <= 1
    <3>1. CASE i < k
      BY <1>1, <1>2, <2>3, <3>1
    <3>2. CASE i = k
      BY <1>1, <1>2, <2>3, <3>2
    <3>3. CASE i > k
      BY <1>1, <1>2, <2>3, <3>3 DEF Ordered
    <3> QED BY <1>1, <2>3, <3>1, <3>2, <3>3
  <2> HIDE DEF I
  <2> QED BY <1>1, <2>3, <2>4, <2>5
<1> QED BY <1>3, <1>4

\* What is left of the queue a tick later.
Later ==
    [i \in 1..(Len(sleepQ) - Expired) |-> [sleepQ[i + Expired] EXCEPT !.left = @ - 1]]

\* The clock keeps the queue in order.
LEMMA TickElems ==
    ASSUME FsType, Ordered(sleepQ)
    PROVE  /\ Later \in Seq(Sleepers)
           /\ Ordered(Later)
           /\ \A r \in Range(Later) : \E s \in Range(sleepQ) :
                 s.left > 1 /\ r.proc = s.proc /\ r.left = s.left - 1 /\ r.fswait = s.fswait /\ r.id = s.id
           /\ \A s \in Range(sleepQ) : s.left > 1 => \E r \in Range(Later) : r.proc = s.proc
<1>1. /\ sleepQ \in Seq(Sleepers) /\ Len(sleepQ) \in Nat /\ DOMAIN sleepQ = 1..Len(sleepQ)
      /\ \A i \in 1..Len(sleepQ) : sleepQ[i] \in Sleepers
  BY LenProperties, ElementOfSeq DEF FsType
<1>2. PICK e \in 0..Len(sleepQ) :
        e = Expired /\ \A i \in 1..Len(sleepQ) : i <= e <=> sleepQ[i].left <= 1
  BY ExpiredIs
<1>3. PICK n \in Nat : n = Len(sleepQ) - e /\ n + e = Len(sleepQ)
  <2>1. Len(sleepQ) - e \in Nat /\ (Len(sleepQ) - e) + e = Len(sleepQ)
    BY <1>1
  <2> QED BY <2>1
<1>t. PICK t : t = Later
  OBVIOUS
<1>4. DOMAIN t = 1..n
  BY <1>2, <1>3, <1>t DEF Later
<1>5. ASSUME NEW i \in 1..n
      PROVE  /\ i + e \in 1..Len(sleepQ) /\ sleepQ[i + e].left > 1 /\ sleepQ[i + e].left \in Nat
             /\ t[i] \in Sleepers
             /\ t[i].proc = sleepQ[i + e].proc /\ t[i].left = sleepQ[i + e].left - 1
             /\ t[i].fswait = sleepQ[i + e].fswait /\ t[i].id = sleepQ[i + e].id
  <2>1. i + e \in 1..Len(sleepQ) /\ ~(i + e <= e)
    BY <1>1, <1>3
  <2>2. sleepQ[i + e] \in Sleepers /\ ~(sleepQ[i + e].left <= 1)
    BY <1>1, <1>2, <2>1
  <2>3. t[i] = [sleepQ[i + e] EXCEPT !.left = @ - 1]
    BY <1>2, <1>3, <1>t DEF Later
  <2>4. sleepQ[i + e].left \in Nat /\ sleepQ[i + e].left > 1
    BY <2>2 DEF Sleepers
  <2> QED BY <2>1, <2>2, <2>3, <2>4 DEF Sleepers
<1>6. t \in Seq(Sleepers)
  <2>1. t \in [1..n -> Sleepers]
    BY <1>2, <1>3, <1>5, <1>t DEF Later
  <2> QED BY <1>3, <2>1, SeqDef
<1>7. Ordered(t)
  <2> SUFFICES ASSUME NEW i \in 1..n, NEW j \in 1..n, i < j
               PROVE  t[i].left <= t[j].left /\ t[i].proc # t[j].proc
    BY <1>4 DEF Ordered
  <2>1. i + e < j + e
    BY <1>1, <1>3
  <2>2. sleepQ[i + e].left <= sleepQ[j + e].left /\ sleepQ[i + e].proc # sleepQ[j + e].proc
    BY <1>1, <1>5, <2>1 DEF Ordered
  <2> QED BY <1>5, <2>2
<1>8. \A r \in Range(t) : \E s \in Range(sleepQ) :
        s.left > 1 /\ r.proc = s.proc /\ r.left = s.left - 1 /\ r.fswait = s.fswait /\ r.id = s.id
  <2> SUFFICES ASSUME NEW i \in 1..n
               PROVE  \E s \in Range(sleepQ) :
                         /\ s.left > 1 /\ t[i].proc = s.proc /\ t[i].left = s.left - 1
                         /\ t[i].fswait = s.fswait /\ t[i].id = s.id
    BY <1>4 DEF Range
  <2>1. sleepQ[i + e] \in Range(sleepQ)
    BY <1>1, <1>5 DEF Range
  <2> QED BY <1>5, <2>1
<1>9. \A s \in Range(sleepQ) : s.left > 1 => \E r \in Range(t) : r.proc = s.proc
  <2> SUFFICES ASSUME NEW j \in 1..Len(sleepQ), sleepQ[j].left > 1
               PROVE  \E r \in Range(t) : r.proc = sleepQ[j].proc
    BY <1>1 DEF Range
  <2>1. sleepQ[j].left \in Nat
    BY <1>1 DEF Sleepers
  <2>2. ~(j <= e)
    BY <1>2, <2>1
  <2>3. j - e \in 1..n /\ (j - e) + e = j
    BY <1>1, <1>3, <2>2
  <2>4. t[j - e].proc = sleepQ[j].proc /\ t[j - e] \in Range(t)
    BY <1>4, <1>5, <2>3 DEF Range
  <2> QED BY <2>4
<1> QED BY <1>t, <1>6, <1>7, <1>8, <1>9

----------------------------------------------------------------------------
(* The steps *)

\* Nobody waits.
LEMMA InitFInv == Init => FInv
<1> SUFFICES ASSUME Init PROVE FInv
  OBVIOUS
<1> USE DEF Init
<1>1. <<>> \in Seq(Node \cup Mute) /\ <<>> \in Seq(Proc) /\ <<>> \in Seq(Sleepers) /\ Len(<<>>) = 0
  BY EmptySeq
<1>2. DOMAIN sleepQ = {} /\ Range(sleepQ) = {}
  BY DEF Range
<1>3. FsType
  <2>1. cores \in Nat \ {0} /\ awoken \in [Proc -> Int]
    BY FsWaitAssumption
  <2>2. nodeWaits \in [Proc -> Seq(Node \cup Mute \cup Nat) \cup {None}]
    OBVIOUS
  <2> QED BY <1>1, <2>1, <2>2 DEF FsType, PcVals
<1>4. CallShape
  BY <1>1 DEF CallShape
<1>5. WokenOnce /\ WaitShape /\ HonestReason /\ Registered
  BY DEF WokenOnce, Blocked, WaitShape, HonestReason, Registered
<1>6. TimersMatch /\ TimerOwned
  BY <1>2 DEF TimersMatch, TimerOwned, Blocked
<1>7. AnswersHold /\ SleepsForData
  BY DEF AnswersHold, SleepsForData, InKernel
<1> QED BY <1>3, <1>4, <1>5, <1>6, <1>7 DEF FInv

\* On one processor, nobody is in the kernel when another gets the processor.
LEMMA CoreFreeAlone ==
    ASSUME FsType, CoreFree, cores = 1
    PROVE  InKernel = {}
<1> DEFINE busy == {n \in Node : dev[n] # "idle"}
<1>1. IsFiniteSet(InKernel) /\ IsFiniteSet(busy)
  BY FS_Subset, FsWaitAssumption DEF InKernel
<1>2. Cardinality(InKernel) \in Nat /\ Cardinality(busy) \in Nat
  BY <1>1, FS_CardinalityType
<1>3. Cardinality(InKernel) + Cardinality(busy) < 1
  BY DEF CoreFree
<1> HIDE DEF busy
<1>4. Cardinality(InKernel) = 0
  BY <1>2, <1>3
<1> QED BY <1>1, <1>4, FS_EmptySet

\* A process that goes to sleep gets its record: its timer is in order, and its own.
LEMMA BlockTimers ==
    ASSUME FsType, FsType', TimersMatch, TimerOwned,
           NEW p \in Proc, ~Blocked(p), Blocked(p)',
           NEW s \in Sleepers, s.proc = p, s.left = due'[p], s.fswait <=> nodes'[p] # <<>>,
           timeout'[p] = s.id, sleepQ' = Inserted(s), readyQ' = readyQ,
           \A q \in Proc \ {p} : /\ pc'[q] = pc[q] /\ due'[q] = due[q]
                                 /\ nodes'[q] = nodes[q] /\ timeout'[q] = timeout[q]
    PROVE  TimersMatch' /\ TimerOwned'
<1>1. Ordered(sleepQ) /\ \A r \in Range(sleepQ) : Blocked(r.proc) /\ r.proc \in Proc
  <2>1. \A r \in Range(sleepQ) : r \in Sleepers
    BY LenProperties, ElementOfSeq DEF FsType, Range
  <2> QED BY <2>1 DEF TimersMatch, Ordered, Sleepers
<1>2. /\ Range(sleepQ') = Range(sleepQ) \cup {s}
      /\ Ordered(sleepQ')
  BY <1>1, InsertedElems
<1>3. \A q \in Proc \ {p} : Blocked(q)' <=> Blocked(q)
  BY DEF Blocked
<1>4. \A r \in Range(sleepQ) : r.proc \in Proc \ {p}
  BY <1>1
<1>5. \A r \in Range(sleepQ') :
        Blocked(r.proc)' /\ r.left = due'[r.proc] /\ (r.fswait <=> nodes'[r.proc] # <<>>)
  <2> SUFFICES ASSUME NEW r \in Range(sleepQ), r.proc \in Proc \ {p}
               PROVE  Blocked(r.proc)' /\ r.left = due'[r.proc] /\ (r.fswait <=> nodes'[r.proc] # <<>>)
    BY <1>2, <1>4
  <2> QED BY <1>3 DEF TimersMatch
<1>6. \A q \in Proc : Blocked(q)' /\ due'[q] # Never => \E r \in Range(sleepQ') : r.proc = q
  <2> TAKE q \in Proc
  <2>1. CASE q = p
    BY <1>2, <2>1
  <2>2. CASE q # p
    BY <1>2, <1>3, <2>2 DEF TimersMatch
  <2> QED BY <2>1, <2>2
<1>7. TimersMatch'
  BY <1>2, <1>5, <1>6 DEF TimersMatch, Ordered
<1>8. TimerOwned'
  BY <1>2, <1>4 DEF TimerOwned
<1> QED BY <1>7, <1>8

\* A process that is made ready has no timer any more.
LEMMA AwakenTimers ==
    ASSUME FsType, TimersMatch, TimerOwned, NEW p \in Proc,
           sleepQ' = Without(p), readyQ' = readyQ \cup {p}, UNCHANGED <<pc, due, nodes>>,
           \A q \in Proc \ {p} : timeout'[q] = timeout[q]
    PROVE  TimersMatch' /\ TimerOwned' /\ sleepQ' \in Seq(Sleepers)
<1>1. Ordered(sleepQ) /\ \A r \in Range(sleepQ) : r.proc \in Proc
  <2>1. \A r \in Range(sleepQ) : r \in Sleepers
    BY LenProperties, ElementOfSeq DEF FsType, Range
  <2> QED BY <2>1 DEF TimersMatch, Ordered, Sleepers
<1>2. /\ Range(sleepQ') = {r \in Range(sleepQ) : r.proc # p}
      /\ Ordered(sleepQ') /\ sleepQ' \in Seq(Sleepers)
  BY <1>1, WithoutElems
<1>3. \A q \in Proc : Blocked(q)' <=> Blocked(q) /\ q # p
  BY DEF Blocked
<1>4. \A r \in Range(sleepQ') :
        Blocked(r.proc)' /\ r.left = due'[r.proc] /\ (r.fswait <=> nodes'[r.proc] # <<>>)
  BY <1>1, <1>2, <1>3 DEF TimersMatch
<1>5. \A q \in Proc : Blocked(q)' /\ due'[q] # Never => \E r \in Range(sleepQ') : r.proc = q
  BY <1>2, <1>3 DEF TimersMatch
<1>6. TimersMatch'
  BY <1>2, <1>4, <1>5 DEF TimersMatch, Ordered
<1>7. TimerOwned'
  BY <1>1, <1>2 DEF TimerOwned
<1> QED BY <1>2, <1>6, <1>7

\* A step of one process that neither was asleep nor is, and of no device: it keeps
\* the timers and the registrations.
LEMMA AwakeStep ==
    ASSUME FsType, WokenOnce, TimersMatch, TimerOwned, WaitShape, Registered, SleepsForData,
           NEW p \in Proc, ~Blocked(p), ~Blocked(p)', readyQ \ {p} = readyQ' \ {p},
           UNCHANGED <<cores, ready, waiters, dev, nodeWaits, sleepQ>>,
           \A q \in Proc \ {p} : /\ pc'[q] = pc[q] /\ due'[q] = due[q]
                                 /\ nodes'[q] = nodes[q] /\ timeout'[q] = timeout[q]
    PROVE  TimersMatch' /\ TimerOwned' /\ WaitShape' /\ Registered' /\ SleepsForData'
<1>1. \A r \in Range(sleepQ) : r.proc \in Proc \ {p}
  <2>1. \A r \in Range(sleepQ) : r \in Sleepers
    BY LenProperties, ElementOfSeq DEF FsType, Range
  <2> QED BY <2>1 DEF TimersMatch, Sleepers
<1>2. \A q \in Proc : Blocked(q)' <=> Blocked(q)
  BY DEF Blocked
<1>3. nodeWaits[p] = None
  BY DEF WokenOnce
<1>4. TimersMatch'
  <2>1. \A r \in Range(sleepQ) :
          Blocked(r.proc)' /\ r.left = due'[r.proc] /\ (r.fswait <=> nodes'[r.proc] # <<>>)
    BY <1>1, <1>2 DEF TimersMatch
  <2>2. \A q \in Proc : Blocked(q)' /\ due'[q] # Never => \E r \in Range(sleepQ) : r.proc = q
    BY <1>2 DEF TimersMatch
  <2> QED BY <2>1, <2>2 DEF TimersMatch
<1>5. TimerOwned'
  BY <1>1 DEF TimerOwned
<1>6. WaitShape'
  BY <1>3 DEF WaitShape
<1>7. Registered'
  BY <1>3 DEF Registered
<1>8. SleepsForData'
  BY <1>2 DEF SleepsForData
<1> QED BY <1>4, <1>5, <1>6, <1>7, <1>8

\* fswait begins.
LEMMA FsWaitFInv ==
    ASSUME FInv, NEW p \in Proc, NEW ns \in Polls, NEW t \in Timeouts, FsWait(p, ns, t)
    PROVE  FInv'
<1>0. /\ pc[p] = "user" /\ pc' = [pc EXCEPT ![p] = "check"]
      /\ nodes' = [nodes EXCEPT ![p] = ns] /\ asked' = [asked EXCEPT ![p] = 0]
      /\ due' = [due EXCEPT ![p] = t]
      /\ UNCHANGED <<cores, ready, waiters, dev, nodeWaits, timeout, awoken, sleepQ, readyQ, sig>>
  BY DEF FsWait, Goto, devs, waits
<1>1. ns \in Seq(Node \cup Mute) /\ ns # <<>> /\ Len(ns) \in Nat /\ t \in Nat \cup {Never}
  BY FsWaitAssumption, LenProperties
<1>2. FsType'
  BY <1>0, <1>1 DEF FInv, FsType, PcVals
<1>3. p \notin readyQ /\ ~Blocked(p) /\ ~Blocked(p)'
  BY <1>0 DEF FInv, FsType, WokenOnce, Blocked
<1>4. TimersMatch' /\ TimerOwned' /\ WaitShape' /\ Registered' /\ SleepsForData'
  BY <1>0, <1>3, AwakeStep DEF FInv, FsType
<1>5. CallShape'
  BY <1>0, <1>1 DEF FInv, FsType, CallShape
<1>6. WokenOnce'
  BY <1>0, <1>3 DEF FInv, FsType, WokenOnce, Blocked
<1>7. HonestReason'
  BY <1>0, <1>3 DEF FInv, FsType, HonestReason
<1>8. AnswersHold'
  BY <1>0 DEF FInv, FsType, AnswersHold, InKernel
<1> QED BY <1>2, <1>4, <1>5, <1>6, <1>7, <1>8 DEF FInv

\* A process that is not asleep exits.
LEMMA ExitFInv ==
    ASSUME FInv, NEW p \in Proc, Exit(p)
    PROVE  FInv'
<1>0. /\ pc[p] = "user" /\ pc' = [pc EXCEPT ![p] = "dead"]
      /\ UNCHANGED <<cores, nodes, asked, due, ready, waiters, dev, nodeWaits, timeout, awoken,
                     sleepQ, readyQ, sig>>
  BY DEF Exit, Goto, args, devs, waits
<1>2. FsType'
  BY <1>0 DEF FInv, FsType, PcVals
<1>3. p \notin readyQ /\ ~Blocked(p) /\ ~Blocked(p)'
  BY <1>0 DEF FInv, FsType, WokenOnce, Blocked
<1>4. TimersMatch' /\ TimerOwned' /\ WaitShape' /\ Registered' /\ SleepsForData'
  BY <1>0, <1>3, AwakeStep DEF FInv, FsType
<1>5. CallShape'
  BY <1>0 DEF FInv, FsType, CallShape
<1>6. WokenOnce'
  BY <1>0, <1>3 DEF FInv, FsType, WokenOnce, Blocked
<1>7. HonestReason'
  BY <1>0 DEF FInv, HonestReason
<1>8. AnswersHold'
  BY <1>0 DEF FInv, FsType, AnswersHold, InKernel
<1> QED BY <1>2, <1>4, <1>5, <1>6, <1>7, <1>8 DEF FInv

\* A call returns, after its nodes were asked or after its process was woken.
LEMMA ReturnFInv ==
    ASSUME FInv, NEW p \in Proc, Return(p), ~Blocked(p),
           readyQ' = readyQ \ {p}, sig \ {p} = sig' \ {p}, sig' \subseteq sig,
           UNCHANGED <<cores, ready, waiters, dev, nodeWaits, sleepQ>>
    PROVE  FInv'
<1>0. /\ pc' = [pc EXCEPT ![p] = "user"]
      /\ nodes' = [nodes EXCEPT ![p] = <<>>] /\ asked' = [asked EXCEPT ![p] = 0]
      /\ due' = [due EXCEPT ![p] = Never] /\ awoken' = [awoken EXCEPT ![p] = -1]
      /\ timeout' = [timeout EXCEPT ![p] = None]
  BY DEF Return, Goto
<1>1. <<>> \in Seq(Node \cup Mute) /\ Len(<<>>) = 0 /\ -1 \in Int
  BY EmptySeq
<1>2. FsType'
  BY <1>0, <1>1 DEF FInv, FsType, PcVals
<1>3. ~Blocked(p)'
  BY <1>0 DEF FInv, FsType, Blocked
<1>4. TimersMatch' /\ TimerOwned' /\ WaitShape' /\ Registered' /\ SleepsForData'
  BY <1>0, <1>3, AwakeStep DEF FInv, FsType
<1>5. CallShape'
  BY <1>0, <1>1 DEF FInv, FsType, CallShape
<1>6. WokenOnce'
  BY <1>0, <1>3 DEF FInv, FsType, WokenOnce, Blocked
<1>7. HonestReason'
  BY <1>0 DEF FInv, FsType, HonestReason
<1>8. AnswersHold'
  BY <1>0 DEF FInv, FsType, AnswersHold, InKernel
<1> QED BY <1>2, <1>4, <1>5, <1>6, <1>7, <1>8 DEF FInv

\* The nodes are asked one after the other.
LEMMA CheckFInv ==
    ASSUME FInv, NEW p \in Proc, Check(p)
    PROVE  FInv'
<1> DEFINE last == asked[p] = Len(nodes[p])
           n == nodes[p][asked[p] + 1]
<1>0. /\ pc[p] = "check"
      /\ UNCHANGED <<cores, ready, waiters, dev, nodeWaits, sleepQ, readyQ, sig>>
  BY DEF Check, devs
<1>1. p \notin readyQ /\ ~Blocked(p) /\ asked[p] \in Nat /\ Len(nodes[p]) \in Nat
      /\ asked[p] <= Len(nodes[p])
  BY <1>0, LenProperties DEF FInv, FsType, WokenOnce, Blocked, CallShape
<1>2. CASE Return(p)
  BY <1>0, <1>1, <1>2, ReturnFInv
<1>3. CASE /\ UNCHANGED <<nodes, due, awoken, timeout>>
           /\ \/ last /\ pc' = [pc EXCEPT ![p] = "join"] /\ asked' = asked
              \/ /\ ~last /\ n \notin Mute \cup ready
                 /\ asked' = [asked EXCEPT ![p] = asked[p] + 1] /\ pc' = pc
  <2>1. FsType'
    <3>1. pc' \in [Proc -> PcVals]
      BY <1>3 DEF FInv, FsType, PcVals
    <3>2. asked' \in [Proc -> Nat]
      <4>1. asked' = asked \/ asked' = [asked EXCEPT ![p] = asked[p] + 1]
        BY <1>3
      <4>2. asked \in [Proc -> Nat] /\ asked[p] + 1 \in Nat
        BY <1>1 DEF FInv, FsType
      <4> QED BY <4>1, <4>2
    <3> HIDE DEF last, n
    <3> QED BY <1>0, <1>3, <3>1, <3>2 DEF FInv, FsType
  <2>2. ~Blocked(p)'
    BY <1>0, <1>3 DEF FInv, FsType, Blocked
  <2>3. TimersMatch' /\ TimerOwned' /\ WaitShape' /\ Registered' /\ SleepsForData'
    BY <1>0, <1>1, <1>3, <2>2, AwakeStep DEF FInv, FsType
  <2>4. CallShape'
    BY <1>0, <1>1, <1>3 DEF FInv, FsType, CallShape
  <2>5. WokenOnce'
    BY <1>0, <1>1, <1>3, <2>2 DEF FInv, FsType, WokenOnce, Blocked
  <2>6. HonestReason'
    BY <1>0, <1>3 DEF FInv, HonestReason
  <2>7. AnswersHold'
    <3> SUFFICES ASSUME cores = 1, NEW q \in Proc, pc'[q] \in {"check", "join"},
                        NEW i \in 1..asked'[q]
                 PROVE  nodes[q][i] \notin ready
      BY <1>0, <1>3 DEF AnswersHold, InKernel
    <3>1. pc[q] \in {"check", "join"}
      BY <1>0, <1>3 DEF FInv, FsType
    <3>2. CASE q = p /\ ~last /\ i = asked[p] + 1
      BY <1>3, <3>2
    <3>3. CASE ~(q = p /\ ~last /\ i = asked[p] + 1)
      <4>1. i \in 1..asked[q]
        BY <1>1, <1>3, <3>3 DEF FInv, FsType
      <4> QED BY <3>1, <4>1 DEF FInv, AnswersHold, InKernel
    <3> QED BY <3>2, <3>3
  <2> QED BY <2>1, <2>3, <2>4, <2>5, <2>6, <2>7 DEF FInv
<1> QED BY <1>2, <1>3 DEF Check, Goto

\* The call ends that was woken.
LEMMA ResumeFInv ==
    ASSUME FInv, NEW p \in Proc, Resume(p)
    PROVE  FInv'
BY ReturnFInv DEF Resume, Blocked, devs

\* A new record has an address that no other of the process has.
LEMMA SleeperIs ==
    ASSUME FInv, NEW p \in Proc, ~Blocked(p), NEW t \in Nat, NEW fs \in BOOLEAN
    PROVE  /\ Sleeper(p, t, fs) \in Sleepers
           /\ Sleeper(p, t, fs).proc = p /\ Sleeper(p, t, fs).left = t
           /\ Sleeper(p, t, fs).fswait = fs /\ Sleeper(p, t, fs).id \in Nat
<1> DEFINE P(i) == \A j \in DOMAIN sleepQ : sleepQ[j].proc = p => sleepQ[j].id # i
           L == 1..(Len(sleepQ) + 1)
<1>1. Len(sleepQ) \in Nat
  BY LenProperties DEF FInv, FsType
<1>2. \A j \in DOMAIN sleepQ : sleepQ[j].proc # p
  BY DEF FInv, TimersMatch, Range
<1>3. 1 \in L /\ P(1)
  BY <1>1, <1>2
<1>4. (CHOOSE i \in L : P(i)) \in L
  <2> HIDE DEF P, L
  <2> QED BY <1>3
<1>5. (CHOOSE i \in L : P(i)) \in Nat
  BY <1>1, <1>4
<1>6. Sleeper(p, t, fs) = [proc |-> p, left |-> t, fswait |-> fs, id |-> CHOOSE i \in L : P(i)]
  BY DEF Sleeper
<1> HIDE DEF P, L
<1> QED BY <1>5, <1>6 DEF Sleepers

\* A timed sleep begins.
LEMMA SleepFInv ==
    ASSUME FInv, NEW p \in Proc, NEW t \in Sleeps, Sleep(p, t)
    PROVE  FInv'
<1>t. t \in Nat
  BY FsWaitAssumption
<1>s. PICK s : s = Sleeper(p, t, FALSE)
  OBVIOUS
<1>0. /\ pc[p] = "user" /\ pc' = [pc EXCEPT ![p] = "off"]
      /\ nodes' = [nodes EXCEPT ![p] = <<>>] /\ due' = [due EXCEPT ![p] = t]
      /\ sleepQ' = Inserted(s) /\ timeout' = [timeout EXCEPT ![p] = s.id]
      /\ UNCHANGED <<cores, asked, ready, waiters, dev, nodeWaits, awoken, readyQ, sig>>
  BY <1>s DEF Sleep, Goto, devs
<1>1. p \notin readyQ /\ ~Blocked(p) /\ nodeWaits[p] = None
  BY <1>0 DEF FInv, FsType, WokenOnce, Blocked
<1>2. s \in Sleepers /\ s.proc = p /\ s.left = t /\ s.fswait = FALSE /\ s.id \in Nat
  BY <1>t, <1>s, <1>1, SleeperIs
<1>3. <<>> \in Seq(Node \cup Mute) /\ Len(<<>>) = 0
  BY EmptySeq
<1>4. Ordered(sleepQ) /\ \A r \in Range(sleepQ) : r.proc # s.proc
  BY <1>1, <1>2 DEF FInv, TimersMatch, Ordered
<1>5. sleepQ' \in Seq(Sleepers)
  BY <1>0, <1>2, <1>4, InsertedElems DEF FInv
<1>6. FsType'
  BY <1>0, <1>t, <1>2, <1>3, <1>5 DEF FInv, FsType, PcVals
<1>7. Blocked(p)' /\ \A q \in Proc \ {p} : Blocked(q)' <=> Blocked(q)
  BY <1>0, <1>1 DEF FInv, FsType, Blocked
<1>8. TimersMatch' /\ TimerOwned'
  <2>1. /\ s.left = due'[p] /\ nodes'[p] = <<>> /\ timeout'[p] = s.id
        /\ \A q \in Proc \ {p} : /\ pc'[q] = pc[q] /\ due'[q] = due[q]
                                 /\ nodes'[q] = nodes[q] /\ timeout'[q] = timeout[q]
    BY <1>0, <1>2 DEF FInv, FsType
  <2> QED BY <1>0, <1>1, <1>2, <1>6, <1>7, <2>1, BlockTimers DEF FInv
<1>9. CallShape'
  BY <1>0, <1>3 DEF FInv, FsType, CallShape
<1>10. WokenOnce'
  BY <1>0, <1>1, <1>7 DEF FInv, FsType, WokenOnce
<1>11. WaitShape' /\ Registered'
  BY <1>0, <1>1 DEF FInv, FsType, WaitShape, Registered
<1>12. HonestReason'
  BY <1>0, <1>1 DEF FInv, FsType, HonestReason
<1>13. AnswersHold'
  BY <1>0 DEF FInv, FsType, AnswersHold, InKernel
<1>14. SleepsForData'
  <2>1. Range(nodes'[p]) = {}
    BY <1>0 DEF FInv, FsType, Range
  <2>2. \A q \in Proc \ {p} : nodes'[q] = nodes[q]
    BY <1>0 DEF FInv, FsType
  <2> QED BY <1>0, <1>7, <2>1, <2>2 DEF FInv, SleepsForData
<1> QED BY <1>6, <1>8, <1>9, <1>10, <1>11, <1>12, <1>13, <1>14 DEF FInv

\* The process registers with all its nodes, and starts its timer.
LEMMA JoinFInv ==
    ASSUME FInv, NEW p \in Proc, Join(p)
    PROVE  FInv'
<1>s. PICK s : s = Sleeper(p, due[p], TRUE)
  OBVIOUS
<1>0. /\ pc[p] = "join" /\ pc' = [pc EXCEPT ![p] = "off"]
      /\ waiters' = [n \in Node |->
                       IF n \in Range(nodes[p]) /\ p \notin Range(waiters[n])
                       THEN Append(waiters[n], p) ELSE waiters[n]]
      /\ awoken' = [awoken EXCEPT ![p] = -1]
      /\ UNCHANGED <<cores, nodes, asked, due, ready, dev, readyQ, sig>>
  BY DEF Join, Goto, args
<1>1. p \notin readyQ /\ ~Blocked(p) /\ nodes[p] # <<>> /\ asked[p] = Len(nodes[p])
  BY <1>0 DEF FInv, FsType, WokenOnce, Blocked, CallShape
<1>2. /\ nodes[p] \in Seq(Node \cup Mute) /\ nodes[p] \in Seq(Node \cup Mute \cup Nat)
      /\ nodes[p] # None
  <2>1. nodes[p] \in Seq(Node \cup Mute)
    BY DEF FInv, FsType
  <2>2. nodes[p] \in Seq(Node \cup Mute \cup Nat)
    BY <2>1
  <2> QED BY <2>1, <2>2, FsWaitAssumption
<1>3. Blocked(p)' /\ \A q \in Proc \ {p} : Blocked(q)' <=> Blocked(q)
  BY <1>0, <1>1 DEF FInv, FsType, Blocked
<1>4. \A n \in Node : /\ waiters'[n] \in Seq(Proc) /\ Range(waiters[n]) \subseteq Range(waiters'[n])
                      /\ n \in Range(nodes[p]) => p \in Range(waiters'[n])
  <2> TAKE n \in Node
  <2>1. waiters[n] \in Seq(Proc)
    BY DEF FInv, FsType
  <2>2. Append(waiters[n], p) \in Seq(Proc) /\ Range(Append(waiters[n], p)) = Range(waiters[n]) \cup {p}
    BY <2>1, AppendProperties, AppendElems
  <2> QED BY <1>0, <2>1, <2>2
<1>5. waiters' \in [Node -> Seq(Proc)]
  BY <1>0, <1>4
<1>6. /\ nodeWaits' \in [Proc -> Seq(Node \cup Mute \cup Nat) \cup {None}]
      /\ timeout' \in [Proc -> Nat \cup {None}] /\ sleepQ' \in Seq(Sleepers)
      /\ \A q \in Proc \ {p} : nodeWaits'[q] = nodeWaits[q] /\ timeout'[q] = timeout[q]
      /\ nodeWaits'[p] # None
      /\ IF due[p] = Never THEN nodeWaits'[p] = nodes[p] /\ sleepQ' = sleepQ
         ELSE /\ timeout'[p] = s.id /\ nodeWaits'[p] = Append(nodes[p], s.id)
              /\ s \in Sleepers /\ s.proc = p /\ s.left = due[p] /\ s.fswait = TRUE
              /\ s.id \in Nat /\ sleepQ' = Inserted(s)
  <2>1. CASE due[p] = Never
    <3>1. /\ nodeWaits' = [nodeWaits EXCEPT ![p] = nodes[p]]
          /\ timeout' = [timeout EXCEPT ![p] = None] /\ sleepQ' = sleepQ
      BY <2>1 DEF Join
    <3> QED BY <1>2, <2>1, <3>1 DEF FInv, FsType
  <2>2. CASE due[p] # Never
    <3>1. /\ nodeWaits' = [nodeWaits EXCEPT ![p] = Append(nodes[p], s.id)]
          /\ timeout' = [timeout EXCEPT ![p] = s.id] /\ sleepQ' = Inserted(s)
      BY <1>s, <2>2 DEF Join
    <3>2. due[p] \in Nat
      BY <2>2 DEF FInv, FsType
    <3>3. s \in Sleepers /\ s.proc = p /\ s.left = due[p] /\ s.fswait = TRUE /\ s.id \in Nat
      BY <1>s, <1>1, <3>2, SleeperIs
    <3>4. Append(nodes[p], s.id) \in Seq(Node \cup Mute \cup Nat)
      BY <1>2, <3>3, AppendProperties
    <3>5. Append(nodes[p], s.id) # None
      BY <3>4, FsWaitAssumption
    <3>6. sleepQ' \in Seq(Sleepers)
      <4>1. Ordered(sleepQ) /\ \A r \in Range(sleepQ) : r.proc # s.proc
        BY <1>1, <3>3 DEF FInv, TimersMatch, Ordered
      <4> QED BY <3>1, <3>3, <4>1, InsertedElems DEF FInv
    <3>7. /\ nodeWaits' \in [Proc -> Seq(Node \cup Mute \cup Nat) \cup {None}]
          /\ timeout' \in [Proc -> Nat \cup {None}]
          /\ \A q \in Proc \ {p} : nodeWaits'[q] = nodeWaits[q] /\ timeout'[q] = timeout[q]
          /\ nodeWaits'[p] = Append(nodes[p], s.id) /\ timeout'[p] = s.id
      BY <3>1, <3>3, <3>4 DEF FInv, FsType
    <3> QED BY <2>2, <3>1, <3>3, <3>5, <3>6, <3>7
  <2> QED BY <2>1, <2>2
<1>7. FsType'
  <2>1. pc' \in [Proc -> PcVals] /\ awoken' \in [Proc -> Int]
    BY <1>0 DEF FInv, FsType, PcVals
  <2> QED BY <1>0, <1>5, <1>6, <2>1 DEF FInv, FsType
<1>8. \A q \in Proc \ {p} : pc'[q] = pc[q]
  BY <1>0 DEF FInv, FsType
<1>9. TimersMatch' /\ TimerOwned'
  <2>1. CASE due[p] = Never
    <3>1. sleepQ' = sleepQ
      BY <1>6, <2>1
    <3>2. \A r \in Range(sleepQ) : r.proc \in Proc \ {p}
      <4>1. \A r \in Range(sleepQ) : r \in Sleepers
        BY LenProperties, ElementOfSeq DEF FInv, FsType, Range
      <4> QED BY <1>1, <4>1 DEF FInv, TimersMatch, Sleepers
    <3>3. \A r \in Range(sleepQ) :
            Blocked(r.proc)' /\ r.left = due'[r.proc] /\ (r.fswait <=> nodes'[r.proc] # <<>>)
      BY <1>0, <1>3, <3>2 DEF FInv, TimersMatch
    <3>4. \A q \in Proc : Blocked(q)' /\ due'[q] # Never => \E r \in Range(sleepQ) : r.proc = q
      BY <1>0, <1>3, <2>1 DEF FInv, TimersMatch
    <3>5. TimersMatch'
      BY <3>1, <3>3, <3>4 DEF FInv, TimersMatch
    <3>6. TimerOwned'
      BY <1>6, <3>1, <3>2 DEF FInv, TimerOwned
    <3> QED BY <3>5, <3>6
  <2>2. CASE due[p] # Never
    <3>1. /\ timeout'[p] = s.id /\ s \in Sleepers /\ s.proc = p /\ s.left = due[p]
          /\ s.fswait = TRUE /\ sleepQ' = Inserted(s)
      BY <1>6, <2>2
    <3>2. s.fswait <=> nodes'[p] # <<>>
      BY <1>0, <1>1, <3>1
    <3>3. \A q \in Proc \ {p} : /\ pc'[q] = pc[q] /\ due'[q] = due[q]
                                /\ nodes'[q] = nodes[q] /\ timeout'[q] = timeout[q]
      BY <1>0, <1>6, <1>8
    <3>4. FsType /\ TimersMatch /\ TimerOwned /\ due'[p] = due[p] /\ readyQ' = readyQ
      BY <1>0 DEF FInv
    <3> QED BY <1>1, <1>3, <1>7, <3>1, <3>2, <3>3, <3>4, BlockTimers
  <2> QED BY <2>1, <2>2
<1>10. CallShape'
  BY <1>0 DEF FInv, FsType, CallShape
<1>11. WokenOnce'
  <2> SUFFICES ASSUME NEW q \in Proc
               PROVE  /\ q \in readyQ => pc'[q] = "off"
                      /\ nodeWaits'[q] # None <=> Blocked(q)' /\ nodes[q] # <<>>
    BY <1>0 DEF WokenOnce
  <2>1. CASE q = p
    BY <1>1, <1>3, <1>6, <2>1
  <2>2. CASE q # p
    BY <1>3, <1>6, <1>8, <2>2 DEF FInv, WokenOnce
  <2> QED BY <2>1, <2>2
<1>12. WaitShape'
  <2> SUFFICES ASSUME NEW q \in Proc, nodeWaits'[q] # None
               PROVE  IF due[q] = Never THEN nodeWaits'[q] = nodes[q]
                      ELSE timeout'[q] \in Nat /\ nodeWaits'[q] = Append(nodes[q], timeout'[q])
    BY <1>0 DEF WaitShape
  <2>1. CASE q = p
    BY <1>6, <2>1
  <2>2. CASE q # p
    BY <1>6, <2>2 DEF FInv, WaitShape
  <2> QED BY <2>1, <2>2
<1>13. HonestReason'
  BY <1>0, <1>1 DEF FInv, FsType, HonestReason
<1>14. Registered'
  <2> SUFFICES ASSUME NEW q \in Proc, NEW n \in Node, nodeWaits'[q] # None, n \in Range(nodes[q])
               PROVE  q \in Range(waiters'[n]) \/ dev[n] = q
    BY <1>0 DEF Registered
  <2>1. CASE q = p
    BY <1>4, <2>1
  <2>2. CASE q # p
    BY <1>4, <1>6, <2>2 DEF FInv, Registered
  <2> QED BY <2>1, <2>2
<1>15. AnswersHold'
  BY <1>0 DEF FInv, FsType, AnswersHold, InKernel
<1>16. SleepsForData'
  <2> SUFFICES ASSUME cores = 1, NEW q \in Proc, NEW n \in ready, Blocked(q)', n \in Range(nodes[q])
               PROVE  dev[n] # "idle"
    BY <1>0 DEF SleepsForData
  <2>1. CASE q = p
    <3>1. PICK i \in 1..Len(nodes[p]) : nodes[p][i] = n
      BY <1>2, <2>1, LenProperties DEF Range
    <3>2. p \in InKernel
      BY <1>0 DEF InKernel
    <3> QED BY <1>1, <3>1, <3>2 DEF FInv, AnswersHold
  <2>2. CASE q # p
    BY <1>3, <2>2 DEF FInv, SleepsForData
  <2> QED BY <2>1, <2>2
<1> QED BY <1>7, <1>9, <1>10, <1>11, <1>12, <1>13, <1>14, <1>15, <1>16 DEF FInv

\* Data arrives.
LEMMA PutFInv ==
    ASSUME FInv, NEW n \in Node, Put(n)
    PROVE  FInv'
<1>0. /\ dev[n] = "idle" /\ CoreFree
      /\ ready' = ready \cup {n} /\ dev' = [dev EXCEPT ![n] = "alert"]
      /\ UNCHANGED <<cores, nodes, asked, pc, due, waiters, nodeWaits, timeout, awoken, sleepQ,
                     readyQ, sig>>
  BY DEF Put, args, waits
<1>1. FsType'
  BY <1>0 DEF FInv, FsType
<1>2. CallShape' /\ WokenOnce' /\ WaitShape' /\ TimersMatch' /\ TimerOwned' /\ HonestReason'
  BY <1>0 DEF FInv, CallShape, WokenOnce, WaitShape, TimersMatch, TimerOwned, HonestReason, Blocked
<1>3. Registered'
  <2> SUFFICES ASSUME NEW p \in Proc, NEW m \in Node, nodeWaits[p] # None, m \in Range(nodes[p])
               PROVE  p \in Range(waiters[m]) \/ dev'[m] = p
    BY <1>0 DEF Registered
  <2>1. p \in Range(waiters[m]) \/ dev[m] = p
    BY DEF FInv, Registered
  <2> QED BY <1>0, <2>1, FsWaitAssumption DEF FInv, FsType
<1>4. AnswersHold'
  <2>1. cores = 1 => InKernel' = {}
    BY <1>0, CoreFreeAlone DEF FInv, InKernel
  <2> QED BY <1>0, <2>1 DEF AnswersHold
<1>5. SleepsForData'
  BY <1>0 DEF FInv, FsType, SleepsForData, Blocked
<1> QED BY <1>1, <1>2, <1>3, <1>4, <1>5 DEF FInv

\* A reader takes the data.
LEMMA TakeFInv ==
    ASSUME FInv, NEW n \in Node, Take(n)
    PROVE  FInv'
<1>0. /\ ready' = ready \ {n}
      /\ UNCHANGED <<cores, nodes, asked, pc, due, waiters, dev, nodeWaits, timeout, awoken,
                     sleepQ, readyQ, sig>>
  BY DEF Take, args, waits
<1>1. FsType'
  BY <1>0 DEF FInv, FsType
<1>2. CallShape' /\ WokenOnce' /\ WaitShape' /\ TimersMatch' /\ TimerOwned' /\ HonestReason' /\ Registered'
  BY <1>0 DEF FInv, CallShape, WokenOnce, WaitShape, TimersMatch, TimerOwned, HonestReason,
              Registered, Blocked
<1>3. AnswersHold' /\ SleepsForData'
  BY <1>0 DEF FInv, AnswersHold, SleepsForData, InKernel, Blocked
<1> QED BY <1>1, <1>2, <1>3 DEF FInv

\* The writer takes the next process off the node's list.
LEMMA NextWaiterFInv ==
    ASSUME FInv, NEW n \in Node, NextWaiter(n)
    PROVE  FInv'
<1>0. /\ dev[n] = "alert"
      /\ UNCHANGED <<cores, nodes, asked, pc, due, ready, nodeWaits, timeout, awoken, sleepQ,
                     readyQ, sig>>
  BY DEF NextWaiter, args, waits
<1>1. waiters[n] \in Seq(Proc) /\ dev \in [Node -> Proc \cup {"idle", "alert"}]
      /\ waiters \in [Node -> Seq(Proc)]
  BY DEF FInv, FsType
<1>2. /\ dev' \in [Node -> Proc \cup {"idle", "alert"}] /\ waiters' \in [Node -> Seq(Proc)]
      /\ \A m \in Node \ {n} : dev'[m] = dev[m] /\ waiters'[m] = waiters[m]
      /\ \A p \in Range(waiters[n]) : p \in Range(waiters'[n]) \/ dev'[n] = p
      /\ dev'[n] = "idle" => waiters[n] = <<>>
  <2>1. CASE waiters[n] = <<>>
    <3>1. dev' = [dev EXCEPT ![n] = "idle"] /\ waiters' = waiters
      BY <2>1 DEF NextWaiter
    <3> QED BY <1>1, <2>1, <3>1
  <2>2. CASE waiters[n] # <<>>
    <3>1. dev' = [dev EXCEPT ![n] = Head(waiters[n])] /\ waiters' = [waiters EXCEPT ![n] = Tail(waiters[n])]
      BY <2>2 DEF NextWaiter
    <3>2. Head(waiters[n]) \in Proc /\ Tail(waiters[n]) \in Seq(Proc)
      BY <1>1, <2>2
    <3>3. Head(waiters[n]) # "idle"
      BY <3>2, FsWaitAssumption
    <3>4. \A p \in Range(waiters[n]) : p \in Range(Tail(waiters[n])) \/ Head(waiters[n]) = p
      <4> SUFFICES ASSUME NEW i \in 1..Len(waiters[n])
                   PROVE  waiters[n][i] \in Range(Tail(waiters[n])) \/ Head(waiters[n]) = waiters[n][i]
        BY <1>1, LenProperties DEF Range
      <4>1. CASE i = 1
        BY <1>1, <2>2, <4>1
      <4>2. CASE i # 1
        <5>1. /\ DOMAIN Tail(waiters[n]) = 1..(Len(waiters[n]) - 1)
              /\ \A j \in 1..(Len(waiters[n]) - 1) : Tail(waiters[n])[j] = waiters[n][j + 1]
          BY <1>1, <2>2, HeadTailProperties, LenProperties
        <5>2. i - 1 \in 1..(Len(waiters[n]) - 1) /\ (i - 1) + 1 = i
          BY <1>1, <4>2, LenProperties
        <5>3. Tail(waiters[n])[i - 1] = waiters[n][i]
          BY <5>1, <5>2
        <5> QED BY <5>1, <5>2, <5>3 DEF Range
      <4> QED BY <4>1, <4>2
    <3> QED BY <1>1, <3>1, <3>2, <3>3, <3>4
  <2> QED BY <2>1, <2>2
<1>3. FsType'
  BY <1>0, <1>2 DEF FInv, FsType
<1>4. CallShape' /\ WokenOnce' /\ WaitShape' /\ TimersMatch' /\ TimerOwned' /\ HonestReason'
  BY <1>0 DEF FInv, CallShape, WokenOnce, WaitShape, TimersMatch, TimerOwned, HonestReason, Blocked
<1>5. AnswersHold'
  BY <1>0 DEF FInv, AnswersHold, InKernel
<1>6. Registered'
  <2> SUFFICES ASSUME NEW p \in Proc, NEW m \in Node, nodeWaits[p] # None, m \in Range(nodes[p])
               PROVE  p \in Range(waiters'[m]) \/ dev'[m] = p
    BY <1>0 DEF Registered
  <2>1. p \in Range(waiters[m]) \/ dev[m] = p
    BY DEF FInv, Registered
  <2>2. dev[n] # p
    BY <1>0, FsWaitAssumption
  <2> QED BY <1>2, <2>1, <2>2
<1>7. SleepsForData'
  <2> SUFFICES ASSUME cores = 1, NEW p \in Proc, NEW m \in ready, Blocked(p), m \in Range(nodes[p]),
                      dev'[m] = "idle"
               PROVE  FALSE
    BY <1>0 DEF SleepsForData, Blocked
  <2>1. m \in Node /\ dev[m] # "idle"
    BY DEF FInv, FsType, SleepsForData
  <2>2. m = n /\ waiters[n] = <<>>
    BY <1>2, <2>1
  <2>3. nodes[p] # <<>>
    BY DEF Range
  <2>4. nodeWaits[p] # None
    BY <2>3 DEF FInv, WokenOnce
  <2>5. p \in Range(waiters[n]) \/ dev[n] = p
    BY <2>1, <2>2, <2>4 DEF FInv, Registered
  <2> QED BY <1>0, <2>2, <2>5, FsWaitAssumption DEF Range
<1> QED BY <1>3, <1>4, <1>5, <1>6, <1>7 DEF FInv

\* What process_awaken_from_fswait does to a process that waits, whoever calls it.
LEMMA AwakenKeeps ==
    ASSUME FInv, NEW p \in Proc, nodeWaits[p] # None, NEW index \in Int, Awaken(p, index),
           UNCHANGED <<cores, nodes, asked, pc, due, ready>>
    PROVE  /\ nodeWaits' \in [Proc -> Seq(Node \cup Mute \cup Nat) \cup {None}]
           /\ timeout' \in [Proc -> Nat \cup {None}] /\ awoken' \in [Proc -> Int]
           /\ sleepQ' \in Seq(Sleepers) /\ readyQ' \subseteq Proc
           /\ CallShape' /\ WokenOnce' /\ WaitShape' /\ TimersMatch' /\ TimerOwned' /\ AnswersHold'
           /\ \A q \in Proc : Blocked(q)' <=> Blocked(q) /\ q # p
<1>0. /\ awoken' = [awoken EXCEPT ![p] = index] /\ nodeWaits' = [nodeWaits EXCEPT ![p] = None]
      /\ sleepQ' = Without(p) /\ timeout' = [timeout EXCEPT ![p] = None]
      /\ readyQ' = readyQ \cup {p}
  BY DEF Awaken
<1>1. /\ nodeWaits' \in [Proc -> Seq(Node \cup Mute \cup Nat) \cup {None}]
      /\ timeout' \in [Proc -> Nat \cup {None}] /\ awoken' \in [Proc -> Int] /\ readyQ' \subseteq Proc
      /\ nodeWaits'[p] = None
      /\ \A q \in Proc \ {p} : nodeWaits'[q] = nodeWaits[q] /\ timeout'[q] = timeout[q]
  BY <1>0 DEF FInv, FsType
<1>2. TimersMatch' /\ TimerOwned' /\ sleepQ' \in Seq(Sleepers)
  BY <1>0, <1>1, AwakenTimers DEF FInv
<1>3. \A q \in Proc : Blocked(q)' <=> Blocked(q) /\ q # p
  BY <1>0 DEF Blocked
<1>4. CallShape' /\ AnswersHold'
  BY DEF FInv, CallShape, AnswersHold, InKernel
<1>5. pc[p] = "off"
  BY DEF FInv, WokenOnce, Blocked
<1>6. WokenOnce'
  <2> SUFFICES ASSUME NEW q \in Proc
               PROVE  /\ q \in readyQ' => pc[q] = "off"
                      /\ nodeWaits'[q] # None <=> Blocked(q)' /\ nodes[q] # <<>>
    BY DEF WokenOnce
  <2> QED BY <1>0, <1>1, <1>3, <1>5 DEF FInv, WokenOnce
<1>7. WaitShape'
  <2> SUFFICES ASSUME NEW q \in Proc, nodeWaits'[q] # None
               PROVE  IF due[q] = Never THEN nodeWaits'[q] = nodes[q]
                      ELSE timeout'[q] \in Nat /\ nodeWaits'[q] = Append(nodes[q], timeout'[q])
    BY DEF WaitShape
  <2> QED BY <1>1 DEF FInv, WaitShape
<1> QED BY <1>1, <1>2, <1>3, <1>4, <1>6, <1>7

\* A node that is in node_waits is one of the call's nodes, and its index is theirs.
LEMMA AlertIndex ==
    ASSUME FInv, NEW p \in Proc, nodeWaits[p] # None, NEW n \in Node
    PROVE  /\ n \in Range(nodes[p]) <=> n \in Range(nodeWaits[p])
           /\ n \in Range(nodeWaits[p]) =>
                 SelectInSeq(nodeWaits[p], LAMBDA m : m = n) \in 1..Len(nodes[p])
<1>n. n \notin Nat
  BY FsWaitAssumption
<1>1. nodes[p] \in Seq(Node \cup Mute) /\ Len(nodes[p]) \in Nat /\ DOMAIN nodes[p] = 1..Len(nodes[p])
  BY LenProperties DEF FInv, FsType
<1>w. PICK w : w = nodeWaits[p]
  OBVIOUS
<1>2. /\ w \in Seq(Node \cup Mute \cup Nat) /\ Len(w) \in Nat /\ DOMAIN w = 1..Len(w)
      /\ \A i \in 1..Len(nodes[p]) : i \in 1..Len(w) /\ w[i] = nodes[p][i]
      /\ \A i \in 1..Len(w) : w[i] = n => i \in 1..Len(nodes[p])
  <2>1. CASE due[p] = Never
    <3>1. w = nodes[p]
      BY <1>w, <2>1 DEF FInv, WaitShape
    <3> QED BY <1>1, <3>1
  <2>2. CASE due[p] # Never
    <3>1. w = Append(nodes[p], timeout[p]) /\ timeout[p] \in Nat
      BY <1>w, <2>2 DEF FInv, WaitShape
    <3>2. nodes[p] \in Seq(Node \cup Mute \cup Nat)
      BY <1>1
    <3>3. /\ w \in Seq(Node \cup Mute \cup Nat) /\ Len(w) = Len(nodes[p]) + 1
          /\ \A i \in 1..Len(nodes[p]) : w[i] = nodes[p][i]
          /\ w[Len(nodes[p]) + 1] = timeout[p]
      BY <3>1, <3>2, AppendProperties
    <3>4. DOMAIN w = 1..Len(w)
      BY <3>3, LenProperties
    <3>5. w[Len(nodes[p]) + 1] # n
      BY <1>n, <3>1, <3>3
    <3>6. \A i \in 1..Len(w) : i \in 1..Len(nodes[p]) \/ i = Len(nodes[p]) + 1
      BY <1>1, <3>3
    <3>7. \A i \in 1..Len(nodes[p]) : i \in 1..Len(w)
      BY <1>1, <3>3
    <3> QED BY <1>1, <3>3, <3>4, <3>5, <3>6, <3>7
  <2> QED BY <2>1, <2>2
<1>3. n \in Range(nodes[p]) <=> n \in Range(w)
  BY <1>1, <1>2 DEF Range
<1>4. ASSUME n \in Range(w) PROVE SelectInSeq(w, LAMBDA m : m = n) \in 1..Len(nodes[p])
  <2> DEFINE I == {i \in 1..Len(w) : w[i] = n}
  <2>1. I # {} /\ I \subseteq Nat
    BY <1>2, <1>4 DEF Range
  <2>2. Min(I) \in I
    <3> HIDE DEF I
    <3> QED BY <2>1, MinIs
  <2>3. SelectInSeq(w, LAMBDA m : m = n) = Min(I)
    BY <2>1 DEF SelectInSeq
  <2> QED BY <1>2, <2>2, <2>3
<1> QED BY <1>w, <1>3, <1>4

\* The writer alerts the process it holds.
LEMMA AlertFInv ==
    ASSUME FInv, NEW n \in Node, Alert(n)
    PROVE  FInv'
<1>p. PICK p : p = dev[n]
  OBVIOUS
<1>0. /\ p \in Proc /\ dev' = [dev EXCEPT ![n] = "alert"]
      /\ UNCHANGED <<cores, nodes, asked, pc, due, ready, waiters, sig>>
  BY <1>p DEF Alert, args
<1>1. dev' \in [Node -> Proc \cup {"idle", "alert"}] /\ dev'[n] = "alert"
      /\ \A m \in Node \ {n} : dev'[m] = dev[m]
  BY <1>0 DEF FInv, FsType
<1>2. \A q \in Proc, m \in Node :
         nodeWaits[q] # None /\ m \in Range(nodes[q]) /\ ~(q = p /\ m = n) =>
            q \in Range(waiters[m]) \/ dev'[m] = q
  BY <1>p, <1>1 DEF FInv, Registered
<1>3. CASE nodeWaits[p] # None /\ n \in Range(nodes[p])
  <2>1. pc[p] # "dead" /\ n \in Range(nodeWaits[p])
    BY <1>0, <1>3, AlertIndex DEF FInv, WokenOnce, Blocked
  <2>2. PICK index : index = SelectInSeq(nodeWaits[p], LAMBDA m : m = n) - 1
    OBVIOUS
  <2>3. Awaken(p, index)
    BY <1>p, <1>3, <2>1, <2>2 DEF Alert
  <2>4. index \in Int /\ index \in 0..Len(nodes[p]) /\ index # Len(nodes[p])
    <3>1. SelectInSeq(nodeWaits[p], LAMBDA m : m = n) \in 1..Len(nodes[p])
      BY <1>0, <1>3, <2>1, AlertIndex
    <3>2. Len(nodes[p]) \in Nat
      BY <1>0, LenProperties DEF FInv, FsType
    <3> QED BY <2>2, <3>1, <3>2
  <2>5. /\ nodeWaits' \in [Proc -> Seq(Node \cup Mute \cup Nat) \cup {None}]
        /\ timeout' \in [Proc -> Nat \cup {None}] /\ awoken' \in [Proc -> Int]
        /\ sleepQ' \in Seq(Sleepers) /\ readyQ' \subseteq Proc
        /\ CallShape' /\ WokenOnce' /\ WaitShape' /\ TimersMatch' /\ TimerOwned' /\ AnswersHold'
        /\ \A q \in Proc : Blocked(q)' <=> Blocked(q) /\ q # p
    BY <1>0, <1>3, <2>3, <2>4, AwakenKeeps
  <2>6. FsType'
    BY <1>0, <1>1, <2>5 DEF FInv, FsType
  <2>7. HonestReason'
    <3> SUFFICES ASSUME NEW q \in readyQ', q \notin sig
                 PROVE  IF nodes[q] = <<>> THEN due[q] = 0
                        ELSE /\ awoken'[q] \in 0..Len(nodes[q])
                             /\ awoken'[q] = Len(nodes[q]) => due[q] = 0
      BY <1>0 DEF HonestReason
    <3>1. awoken' = [awoken EXCEPT ![p] = index] /\ readyQ' = readyQ \cup {p}
      BY <2>3 DEF Awaken
    <3>2. CASE q = p
      <4>1. awoken'[q] = index /\ nodes[q] # <<>>
        BY <1>0, <1>3, <3>1, <3>2 DEF FInv, FsType, WokenOnce
      <4> QED BY <2>4, <3>2, <4>1
    <3>3. CASE q # p
      <4>1. awoken'[q] = awoken[q] /\ q \in readyQ
        BY <3>1, <3>3 DEF FInv, FsType
      <4> QED BY <4>1 DEF FInv, HonestReason
    <3> QED BY <3>2, <3>3
  <2>8. Registered'
    <3>1. nodeWaits' = [nodeWaits EXCEPT ![p] = None]
      BY <2>3 DEF Awaken
    <3> SUFFICES ASSUME NEW q \in Proc, NEW m \in Node, nodeWaits'[q] # None, m \in Range(nodes[q])
                 PROVE  q \in Range(waiters[m]) \/ dev'[m] = q
      BY <1>0 DEF Registered
    <3>2. q # p /\ nodeWaits[q] # None
      BY <3>1 DEF FInv, FsType
    <3> QED BY <1>2, <3>2
  <2>9. SleepsForData'
    BY <1>0, <1>1, <2>5 DEF FInv, FsType, SleepsForData
  <2> QED BY <2>5, <2>6, <2>7, <2>8, <2>9 DEF FInv
<1>4. CASE ~(nodeWaits[p] # None /\ n \in Range(nodes[p]))
  <2>1. ~(nodeWaits[p] # None /\ n \in Range(nodeWaits[p]))
    BY <1>0, <1>4, AlertIndex
  <2>2. UNCHANGED <<nodeWaits, timeout, awoken, sleepQ, readyQ>>
    BY <1>p, <2>1 DEF Alert, waits
  <2>3. FsType'
    BY <1>0, <1>1, <2>2 DEF FInv, FsType
  <2>4. CallShape' /\ WokenOnce' /\ WaitShape' /\ TimersMatch' /\ TimerOwned' /\ HonestReason'
    BY <1>0, <2>2 DEF FInv, CallShape, WokenOnce, WaitShape, TimersMatch, TimerOwned, HonestReason,
                      Blocked
  <2>5. AnswersHold'
    BY <1>0 DEF FInv, AnswersHold, InKernel
  <2>6. Registered'
    BY <1>0, <1>2, <1>4, <2>2 DEF Registered
  <2>7. SleepsForData'
    BY <1>0, <1>1, <2>2 DEF FInv, FsType, SleepsForData, Blocked
  <2> QED BY <2>3, <2>4, <2>5, <2>6, <2>7 DEF FInv
<1> QED BY <1>3, <1>4

\* send_signal ends a wait of either kind; the process has the signal then.
LEMMA SignalFInv ==
    ASSUME FInv, NEW p \in Proc, Signal(p)
    PROVE  FInv'
<1>0. /\ pc[p] = "off" /\ sig' = sig \cup {p}
      /\ UNCHANGED <<cores, nodes, asked, pc, due, ready, waiters, dev>>
  BY DEF Signal, args, devs
<1>1. CASE nodeWaits[p] # None
  <2>1. Awaken(p, -1) /\ -1 \in Int
    BY <1>1 DEF Signal
  <2>2. /\ nodeWaits' \in [Proc -> Seq(Node \cup Mute \cup Nat) \cup {None}]
        /\ timeout' \in [Proc -> Nat \cup {None}] /\ awoken' \in [Proc -> Int]
        /\ sleepQ' \in Seq(Sleepers) /\ readyQ' \subseteq Proc
        /\ CallShape' /\ WokenOnce' /\ WaitShape' /\ TimersMatch' /\ TimerOwned' /\ AnswersHold'
        /\ \A q \in Proc : Blocked(q)' <=> Blocked(q) /\ q # p
    BY <1>0, <1>1, <2>1, AwakenKeeps
  <2>3. FsType'
    BY <1>0, <2>2 DEF FInv, FsType
  <2>4. /\ awoken' = [awoken EXCEPT ![p] = -1] /\ nodeWaits' = [nodeWaits EXCEPT ![p] = None]
        /\ readyQ' = readyQ \cup {p}
    BY <2>1 DEF Awaken
  <2>5. HonestReason'
    <3>1. \A q \in readyQ' \ sig' : q \in readyQ \ sig /\ awoken'[q] = awoken[q]
      BY <1>0, <2>4 DEF FInv, FsType
    <3> QED BY <1>0, <3>1 DEF FInv, HonestReason
  <2>6. Registered'
    BY <1>0, <2>4 DEF FInv, FsType, Registered
  <2>7. SleepsForData'
    BY <1>0, <2>2 DEF FInv, SleepsForData
  <2> QED BY <2>2, <2>3, <2>5, <2>6, <2>7 DEF FInv
<1>2. CASE nodeWaits[p] = None
  <2>0. /\ readyQ' = readyQ \cup {p} /\ UNCHANGED <<nodeWaits, timeout, awoken>>
        /\ IF p \notin readyQ THEN sleepQ' = Without(p) ELSE sleepQ' = sleepQ
    BY <1>2 DEF Signal
  <2>1. TimersMatch' /\ TimerOwned' /\ sleepQ' \in Seq(Sleepers)
    <3>1. CASE p \notin readyQ
      BY <1>0, <2>0, <3>1, AwakenTimers DEF FInv
    <3>2. CASE p \in readyQ
      <4>1. readyQ' = readyQ /\ sleepQ' = sleepQ
        BY <2>0, <3>2
      <4> QED BY <1>0, <2>0, <4>1 DEF FInv, FsType, TimersMatch, TimerOwned, Blocked
    <3> QED BY <3>1, <3>2
  <2>2. \A q \in Proc : Blocked(q)' <=> Blocked(q) /\ q # p
    BY <1>0, <2>0 DEF Blocked
  <2>3. FsType'
    BY <1>0, <2>0, <2>1 DEF FInv, FsType
  <2>4. CallShape' /\ WaitShape' /\ Registered'
    BY <1>0, <2>0 DEF FInv, CallShape, WaitShape, Registered
  <2>5. WokenOnce'
    BY <1>0, <1>2, <2>0, <2>2 DEF FInv, WokenOnce
  <2>6. HonestReason'
    BY <1>0, <2>0 DEF FInv, HonestReason
  <2>7. AnswersHold' /\ SleepsForData'
    BY <1>0, <2>2 DEF FInv, AnswersHold, SleepsForData, InKernel
  <2> QED BY <2>1, <2>3, <2>4, <2>5, <2>6, <2>7 DEF FInv
<1> QED BY <1>1, <1>2

\* Every record that expires ends the wait it belongs to.
LEMMA FiresIs ==
    ASSUME FInv, NEW p \in Proc
    PROVE  Fires(p) <=> \E r \in Range(sleepQ) : r.proc = p /\ r.left <= 1
<1>1. /\ Len(sleepQ) \in Nat /\ DOMAIN sleepQ = 1..Len(sleepQ)
      /\ \A i \in 1..Len(sleepQ) : sleepQ[i] \in Sleepers
  BY LenProperties, ElementOfSeq DEF FInv, FsType
<1>2. Expired \in 0..Len(sleepQ) /\ \A i \in 1..Len(sleepQ) : i <= Expired <=> sleepQ[i].left <= 1
  <2>1. Ordered(sleepQ) /\ FsType
    BY DEF FInv, TimersMatch, Ordered
  <2> QED BY <2>1, ExpiredIs
<1>3. \A i \in 1..Len(sleepQ) : i \in 1..Expired <=> sleepQ[i].left <= 1
  BY <1>1, <1>2
<1>4. \A i \in 1..Expired : i \in 1..Len(sleepQ)
  BY <1>1, <1>2
<1>5. ASSUME NEW i \in 1..Len(sleepQ), sleepQ[i].proc = p, sleepQ[i].fswait
      PROVE  pc[p] # "dead" /\ nodeWaits[p] # None /\ sleepQ[i].id \in Range(nodeWaits[p])
  <2>1. sleepQ[i] \in Range(sleepQ) /\ sleepQ[i].left \in Nat
    BY <1>1 DEF Range, Sleepers
  <2>2. Blocked(p) /\ nodes[p] # <<>> /\ due[p] = sleepQ[i].left
    BY <1>5, <2>1 DEF FInv, TimersMatch
  <2>3. pc[p] # "dead" /\ nodeWaits[p] # None /\ due[p] # Never
    BY <2>1, <2>2, FsWaitAssumption DEF FInv, WokenOnce, Blocked
  <2>4. timeout[p] = sleepQ[i].id /\ timeout[p] \in Nat /\ nodeWaits[p] = Append(nodes[p], timeout[p])
    BY <1>5, <2>1, <2>3 DEF FInv, TimerOwned, WaitShape
  <2>5. nodes[p] \in Seq(Node \cup Mute \cup Nat)
    <3>1. nodes[p] \in Seq(Node \cup Mute)
      BY DEF FInv, FsType
    <3> QED BY <3>1
  <2>6. timeout[p] \in Range(Append(nodes[p], timeout[p]))
    BY <2>4, <2>5, AppendElems
  <2> QED BY <2>3, <2>4, <2>6
<1>6. Fires(p) <=> \E i \in 1..Expired : sleepQ[i].proc = p
  BY <1>4, <1>5 DEF Fires
<1>7. (\E i \in 1..Expired : sleepQ[i].proc = p) <=> \E i \in 1..Len(sleepQ) : sleepQ[i].proc = p /\ sleepQ[i].left <= 1
  BY <1>3, <1>4
<1> QED BY <1>1, <1>6, <1>7 DEF Range

\* The clock interrupt.
LEMMA TickFInv ==
    ASSUME FInv, Tick
    PROVE  FInv'
<1>0. /\ due' = [p \in Proc |->
                     IF pc[p] = "off" /\ due[p] \notin {Never, 0} THEN due[p] - 1 ELSE due[p]]
      /\ sleepQ' = Later
      /\ readyQ' = readyQ \cup {p \in Proc : Fires(p)}
      /\ awoken' = [p \in Proc |->
                      IF Fires(p) /\ nodeWaits[p] # None THEN TimeoutIndex(p) ELSE awoken[p]]
      /\ nodeWaits' = [p \in Proc |-> IF Fires(p) THEN None ELSE nodeWaits[p]]
      /\ timeout' = [p \in Proc |-> IF Fires(p) THEN None ELSE timeout[p]]
      /\ UNCHANGED <<cores, nodes, asked, pc, ready, waiters, dev, sig>>
  BY DEF Tick, Later, args, devs
<1>1. /\ Ordered(sleepQ) /\ FsType
      /\ \A r \in Range(sleepQ) : r \in Sleepers /\ r.proc \in Proc /\ r.left \in Nat
  <2>1. \A r \in Range(sleepQ) : r \in Sleepers
    BY LenProperties, ElementOfSeq DEF FInv, FsType, Range
  <2> QED BY <2>1 DEF FInv, TimersMatch, Ordered, Sleepers
<1>2. /\ sleepQ' \in Seq(Sleepers)
      /\ Ordered(sleepQ')
      /\ \A r \in Range(sleepQ') : \E s \in Range(sleepQ) :
            s.left > 1 /\ r.proc = s.proc /\ r.left = s.left - 1 /\ r.fswait = s.fswait /\ r.id = s.id
      /\ \A s \in Range(sleepQ) : s.left > 1 => \E r \in Range(sleepQ') : r.proc = s.proc
  BY <1>0, <1>1, TickElems
<1>3. \A p \in Proc : due'[p] \in Nat \cup {Never} /\ (due'[p] = Never <=> due[p] = Never)
                      /\ (due[p] = 0 => due'[p] = 0)
                      /\ (pc[p] = "off" /\ due[p] \in {0, 1} => due'[p] = 0)
                      /\ (pc[p] = "off" /\ due[p] \in Nat /\ due[p] > 1 => due'[p] = due[p] - 1)
  <2> TAKE p \in Proc
  <2>1. due[p] \in Nat \cup {Never}
    BY DEF FInv, FsType
  <2>2. due'[p] = IF pc[p] = "off" /\ due[p] \notin {Never, 0} THEN due[p] - 1 ELSE due[p]
    BY <1>0
  <2>3. CASE due[p] = Never
    BY <2>2, <2>3, FsWaitAssumption
  <2>4. CASE due[p] \in Nat
    BY <2>2, <2>4, FsWaitAssumption
  <2> QED BY <2>1, <2>3, <2>4
<1>4. \A r, s \in Range(sleepQ) : r.proc = s.proc => r = s
  <2> SUFFICES ASSUME NEW i \in DOMAIN sleepQ, NEW j \in DOMAIN sleepQ, i # j
               PROVE  sleepQ[i].proc # sleepQ[j].proc
    BY DEF Range
  <2>1. i \in Nat /\ j \in Nat
    BY LenProperties DEF FInv, FsType
  <2> QED BY <1>1, <2>1 DEF Ordered
<1>5. ASSUME NEW p \in Proc, Fires(p)
      PROVE  Blocked(p) /\ due'[p] = 0 /\ due[p] # Never
  <2>1. PICK r \in Range(sleepQ) : r.proc = p /\ r.left <= 1
    BY <1>5, FiresIs
  <2>2. Blocked(p) /\ due[p] = r.left
    BY <2>1 DEF FInv, TimersMatch
  <2>3. r.left \in Nat
    BY <1>1
  <2>4. r.left \in {0, 1}
    BY <2>1, <2>3
  <2> QED BY <1>3, <2>2, <2>3, <2>4, FsWaitAssumption DEF Blocked
<1>6. \A p \in Proc : Blocked(p)' <=> Blocked(p) /\ ~Fires(p)
  BY <1>0 DEF Blocked
<1>7. ASSUME NEW p \in Proc, Fires(p), nodeWaits[p] # None
      PROVE  TimeoutIndex(p) = Len(nodes[p]) /\ Len(nodes[p]) \in Nat
  <2>1. nodes[p] \in Seq(Node \cup Mute \cup Nat) /\ Len(nodes[p]) \in Nat
    <3>1. nodes[p] \in Seq(Node \cup Mute)
      BY DEF FInv, FsType
    <3> QED BY <3>1, LenProperties
  <2>2. timeout[p] \in Nat /\ nodeWaits[p] = Append(nodes[p], timeout[p])
    BY <1>5, <1>7 DEF FInv, WaitShape
  <2>3. Len(Append(nodes[p], timeout[p])) = Len(nodes[p]) + 1
    BY <2>1, <2>2, AppendProperties
  <2> QED BY <2>1, <2>2, <2>3 DEF TimeoutIndex
<1>8. FsType'
  <2>1. due' \in [Proc -> Nat \cup {Never}]
    BY <1>0, <1>3
  <2>2. awoken' \in [Proc -> Int]
    <3>1. \A p \in Proc : awoken'[p] \in Int
      BY <1>0, <1>7 DEF FInv, FsType
    <3> QED BY <1>0, <3>1
  <2>3. /\ nodeWaits' \in [Proc -> Seq(Node \cup Mute \cup Nat) \cup {None}]
        /\ timeout' \in [Proc -> Nat \cup {None}] /\ readyQ' \subseteq Proc
    BY <1>0, <1>1 DEF FsType
  <2> QED BY <1>0, <1>1, <1>2, <2>1, <2>2, <2>3 DEF FsType
<1>9. CallShape' /\ AnswersHold'
  BY <1>0 DEF FInv, CallShape, AnswersHold, InKernel
<1>10. WokenOnce'
  <2> SUFFICES ASSUME NEW p \in Proc
               PROVE  /\ p \in readyQ' => pc[p] = "off"
                      /\ nodeWaits'[p] # None <=> Blocked(p)' /\ nodes[p] # <<>>
    BY <1>0 DEF WokenOnce
  <2>1. p \in readyQ' => pc[p] = "off"
    BY <1>0, <1>5 DEF FInv, WokenOnce, Blocked
  <2>2. nodeWaits'[p] # None <=> nodeWaits[p] # None /\ ~Fires(p)
    BY <1>0
  <2> QED BY <1>6, <2>1, <2>2 DEF FInv, WokenOnce
<1>11. WaitShape'
  <2> SUFFICES ASSUME NEW p \in Proc, nodeWaits'[p] # None
               PROVE  IF due'[p] = Never THEN nodeWaits'[p] = nodes[p]
                      ELSE timeout'[p] \in Nat /\ nodeWaits'[p] = Append(nodes[p], timeout'[p])
    BY <1>0 DEF WaitShape
  <2>1. nodeWaits'[p] = nodeWaits[p] /\ timeout'[p] = timeout[p]
    BY <1>0
  <2> QED BY <1>3, <2>1 DEF FInv, WaitShape
<1>12. ASSUME NEW r \in Range(sleepQ')
       PROVE  /\ Blocked(r.proc)' /\ r.left = due'[r.proc] /\ (r.fswait <=> nodes[r.proc] # <<>>)
              /\ timeout'[r.proc] = r.id
  <2>1. PICK s \in Range(sleepQ) :
          s.left > 1 /\ r.proc = s.proc /\ r.left = s.left - 1 /\ r.fswait = s.fswait /\ r.id = s.id
    BY <1>2
  <2>2. r.proc \in Proc /\ s.left \in Nat
    BY <1>1, <2>1
  <2>3. Blocked(r.proc) /\ due[r.proc] = s.left /\ (r.fswait <=> nodes[r.proc] # <<>>)
        /\ timeout[r.proc] = r.id
    BY <2>1 DEF FInv, TimersMatch, TimerOwned
  <2>4. ~Fires(r.proc)
    <3> SUFFICES ASSUME NEW u \in Range(sleepQ), u.proc = r.proc, u.left <= 1 PROVE FALSE
      BY <2>2, FiresIs
    <3>1. u = s
      BY <1>4, <2>1
    <3> QED BY <2>1, <2>2, <3>1
  <2>5. timeout'[r.proc] = timeout[r.proc]
    BY <1>0, <2>2, <2>4
  <2>6. due'[r.proc] = s.left - 1
    BY <1>3, <2>1, <2>2, <2>3 DEF Blocked
  <2> QED BY <1>6, <2>1, <2>2, <2>3, <2>4, <2>5, <2>6
<1>13. ASSUME NEW p \in Proc, Blocked(p)', due'[p] # Never
       PROVE  \E r \in Range(sleepQ') : r.proc = p
  <2>1. Blocked(p) /\ due[p] # Never /\ ~Fires(p)
    BY <1>3, <1>6, <1>13
  <2>2. PICK s \in Range(sleepQ) : s.proc = p
    BY <2>1 DEF FInv, TimersMatch
  <2>3. ~(s.left <= 1)
    BY <2>1, <2>2, FiresIs
  <2>4. s.left > 1
    BY <1>1, <2>3
  <2> QED BY <1>2, <2>2, <2>4
<1>14. TimersMatch'
  BY <1>0, <1>2, <1>12, <1>13 DEF TimersMatch, Ordered
<1>15. TimerOwned'
  BY <1>12 DEF TimerOwned
<1>16. HonestReason'
  <2> SUFFICES ASSUME NEW p \in readyQ', p \notin sig
               PROVE  IF nodes[p] = <<>> THEN due'[p] = 0
                      ELSE /\ awoken'[p] \in 0..Len(nodes[p])
                           /\ awoken'[p] = Len(nodes[p]) => due'[p] = 0
    BY <1>0 DEF HonestReason
  <2>1. p \in Proc
    BY <1>8 DEF FsType
  <2>2. CASE Fires(p)
    <3>1. Blocked(p) /\ due'[p] = 0
      BY <1>5, <2>1, <2>2
    <3>2. ASSUME nodes[p] # <<>> PROVE awoken'[p] \in 0..Len(nodes[p])
      <4>1. nodeWaits[p] # None
        BY <2>1, <3>1, <3>2 DEF FInv, WokenOnce
      <4>2. awoken'[p] = TimeoutIndex(p)
        BY <1>0, <2>1, <2>2, <4>1
      <4> QED BY <1>7, <2>1, <2>2, <4>1, <4>2
    <3> QED BY <3>1, <3>2
  <2>3. CASE ~Fires(p)
    <3>1. awoken'[p] = awoken[p] /\ p \in readyQ
      BY <1>0, <2>1, <2>3
    <3>2. due[p] = 0 => due'[p] = 0
      BY <1>3, <2>1
    <3> QED BY <3>1, <3>2 DEF FInv, HonestReason
  <2> QED BY <2>2, <2>3
<1>17. Registered'
  BY <1>0 DEF FInv, Registered
<1>18. SleepsForData'
  BY <1>0, <1>6 DEF FInv, SleepsForData
<1> QED BY <1>8, <1>9, <1>10, <1>11, <1>14, <1>15, <1>16, <1>17, <1>18 DEF FInv

LEMMA NextFInv == FInv /\ [Next]_vars => FInv'
<1> SUFFICES ASSUME FInv, [Next]_vars PROVE FInv'
  OBVIOUS
<1>1. CASE UNCHANGED vars
  BY <1>1 DEF vars, FInv, FsType, CallShape, WokenOnce, WaitShape, TimersMatch, TimerOwned,
              HonestReason, Registered, AnswersHold, SleepsForData, Blocked, InKernel
<1>2. ASSUME NEW p \in Proc, Call(p) PROVE FInv'
  BY <1>2, FsWaitFInv, SleepFInv, ExitFInv DEF Call
<1>3. ASSUME NEW p \in Proc, Kernel(p) PROVE FInv'
  BY <1>3, CheckFInv, JoinFInv DEF Kernel
<1>4. ASSUME NEW p \in Proc, Resume(p) \/ Signal(p) PROVE FInv'
  BY <1>4, ResumeFInv, SignalFInv
<1>5. ASSUME NEW n \in Node, Put(n) \/ Device(n) \/ Take(n) PROVE FInv'
  BY <1>5, PutFInv, NextWaiterFInv, AlertFInv, TakeFInv DEF Device
<1>6. CASE Tick
  BY <1>6, TickFInv
<1> QED BY <1>1, <1>2, <1>3, <1>4, <1>5, <1>6 DEF Next

----------------------------------------------------------------------------
(* The theorems *)

\* The inductive invariant of timed sleep and fswait: what the call, its record in
\* sleep_queue, node_waits, timeout_node and the nodes' waiter lists say of a process
\* always agree.
THEOREM FsWaitInvariance == Spec => []FInv
BY InitFInv, NextFInv, PTL DEF Spec

\* Alert, timeout and signal compete for a sleeper, and one of them wakes it: only a
\* process that sleeps has node_waits, and only one in switch_task is ready.
THEOREM SleepersWokenOnce == Spec => []WokenOnce
<1>1. FInv => WokenOnce
  BY DEF FInv
<1> QED BY <1>1, FsWaitInvariance, PTL

\* sleep_queue is in order of time, with one record for each blocked call that has a
\* timeout, and none of a call that has ended.
THEOREM TimersAlwaysMatch == Spec => []TimersMatch
<1>1. FInv => TimersMatch
  BY DEF FInv
<1> QED BY <1>1, FsWaitInvariance, PTL

\* What awoken_index reports is what happened: the index of a node, or that of the
\* timeout when the time is up.
THEOREM ReasonsAreHonest == Spec => []HonestReason
<1>1. FInv => HonestReason
  BY DEF FInv
<1> QED BY <1>1, FsWaitInvariance, PTL

\* On one processor nobody sleeps on a node with data, unless its writer is about to
\* alert it.
THEOREM NobodySleepsOnData == Spec => []SleepsForData
<1>1. FInv => SleepsForData
  BY DEF FInv
<1> QED BY <1>1, FsWaitInvariance, PTL
=============================================================================
