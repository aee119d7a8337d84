--------------------------- MODULE UnixPipeProofs ---------------------------
(***************************************************************************)
(* Proofs about Ring and UnixPipe, for any ring size, any number of        *)
(* readers, writers and cores, and whichever of them receive signals.       *)
(***************************************************************************)
EXTENDS UnixPipe, ListLemmas

----------------------------------------------------------------------------
(* The pointer arithmetic of the ring buffer *)

\* The bytes to read and the room to write always add up to one less than the
\* size: the slot in hand tells a full ring from an empty one
\* (ring_buffer_unread, ring_buffer_available).
THEOREM UnreadPlusAvailable ==
    ASSUME NEW r \in Slot, NEW w \in Slot
    PROVE  /\ Unread(r, w) \in 0..(Size - 1)
           /\ Available(r, w) \in 0..(Size - 1)
           /\ Unread(r, w) + Available(r, w) = Size - 1
BY SizeAssumption DEF Slot, Unread, Available

\* Reading one byte of a ring that is not empty leaves one byte less to read
\* (ring_buffer_increment_read).
THEOREM ReadOneLess ==
    ASSUME NEW r \in Slot, NEW w \in Slot, Unread(r, w) > 0
    PROVE  /\ Increment(r) \in Slot
           /\ Unread(Increment(r), w) = Unread(r, w) - 1
BY SizeAssumption DEF Slot, Unread, Increment

\* Writing one byte to a ring with room adds one byte to read, even when the
\* pointer wraps (ring_buffer_increment_write).
THEOREM WriteOneMore ==
    ASSUME NEW r \in Slot, NEW w \in Slot, Available(r, w) > 0
    PROVE  /\ Increment(w) \in Slot
           /\ Unread(r, Increment(w)) = Unread(r, w) + 1
BY SizeAssumption DEF Slot, Unread, Available, Increment

\* Advance is the effect of that many turns of the copying loops.
THEOREM AdvanceIsIncrements ==
    ASSUME NEW ptr \in Slot, NEW k \in 0..(Size - 1)
    PROVE  /\ Advance(ptr, 0) = ptr
           /\ Advance(ptr, k) \in Slot
           /\ Advance(ptr, k + 1) = Increment(Advance(ptr, k))
BY SizeAssumption DEF Slot, Advance, Increment

\* A copying loop stops for one of two reasons.
LEMMA LeastOfTwo ==
    ASSUME NEW m \in Nat, NEW n \in Nat
    PROVE  /\ Least(m, n) \in 0..m
           /\ Least(m, n) \in 0..n
           /\ Least(m, n) = n \/ Least(m, n) = m
BY DEF Least

\* Reading k of the unread bytes.
LEMMA UnreadAfterRead ==
    ASSUME NEW r \in Slot, NEW w \in Slot, NEW k \in 0..Unread(r, w)
    PROVE  /\ Advance(r, k) \in Slot
           /\ Unread(Advance(r, k), w) = Unread(r, w) - k
BY SizeAssumption DEF Slot, Unread, Advance

\* Writing k bytes into the room there is.
LEMMA UnreadAfterWrite ==
    ASSUME NEW r \in Slot, NEW w \in Slot, NEW k \in 0..Available(r, w)
    PROVE  /\ Advance(w, k) \in Slot
           /\ Unread(r, Advance(w, k)) = Unread(r, w) + k
           /\ Available(r, Advance(w, k)) = Available(r, w) - k
BY SizeAssumption DEF Slot, Unread, Available, Advance

\* Increments add up, past the wrap too.
LEMMA AdvanceAdds ==
    ASSUME NEW ptr \in Slot, NEW j \in Nat, NEW k \in Nat, j + k <= Size - 1
    PROVE  /\ Advance(ptr, j) \in Slot
           /\ Advance(Advance(ptr, j), k) = Advance(ptr, j + k)
BY SizeAssumption DEF Slot, Advance

\* Fewer than Size increments lead to different slots.
LEMMA AdvanceApart ==
    ASSUME NEW ptr \in Slot, NEW j \in 0..(Size - 1), NEW k \in 0..(Size - 1),
           Advance(ptr, j) = Advance(ptr, k)
    PROVE  j = k
BY SizeAssumption DEF Slot, Advance

\* The write pointer is behind the last unread byte.
LEMMA AdvanceToWrite ==
    ASSUME NEW r \in Slot, NEW w \in Slot
    PROVE  Advance(r, Unread(r, w)) = w
BY SizeAssumption DEF Slot, Advance, Unread

----------------------------------------------------------------------------
(* The pipe *)

\* A process is where its end of the pipe lets it be, and a queued reader is in
\* the call that queued it.
Kinds ==
    /\ \A p \in Reader : pc[p] \in ReadPcs \cup PollPcs \cup ClosePcs \cup {"user", "gone"}
    /\ \A p \in Writer : pc[p] \in WritePcs \cup ClosePcs \cup {"user", "gone"}
    /\ \A p \in Range(readers) : p \in Reader /\ pc[p] \in {"rdrop", "rsleep"}

\* The ring's spin lock has one holder, from the lock to the unlock.
LockHeld ==
    \A p \in Proc : lock = p <=> pc[p] \in {"rwake", "rjoin", "rdrop", "wwake", "wjoin", "wdrop"}

\* What a process found under the lock is still so when it links itself: a reader
\* found nothing, unless it asked for nothing.
TestHolds ==
    /\ \A p \in Reader : pc[p] = "rwake" /\ data[p] = <<>> => unread = 0 \/ size[p] = 0
    /\ \A p \in Reader : pc[p] = "rjoin" => unread = 0 \/ size[p] = 0
    /\ \A p \in Writer : pc[p] = "wwake" /\ data[p] # <<>> => available = 0
    /\ \A p \in Writer : pc[p] = "wjoin" => available = 0

\* Who is in a call has its end open, and stop is only raised by a close.
EndsOpen ==
    /\ \A p \in Proc : pc[p] \in ReadPcs \cup PollPcs \cup WritePcs => p \in refs
    /\ rclosed => refs \cap Reader = {}
    /\ wclosed => refs \cap Writer = {}
    /\ \A p \in Reader : pc[p] = "cstop" => rclosed
    /\ \A p \in Writer : pc[p] = "cstop" => wclosed
    /\ stop => rclosed \/ wclosed

\* A call that gives up does so because the other end is closed.
GivesUp ==
    /\ \A p \in Reader : pc[p] = "rstop" => wclosed
    /\ \A p \in Reader : pc[p] = "rend" /\ data[p] = <<>> => wclosed
    /\ \A p \in Writer : pc[p] = "wstop" => rclosed
    /\ \A p \in Writer : pc[p] = "wend" /\ data[p] # <<>> => rclosed

PInv ==
    /\ TypeOK
    /\ Kinds
    /\ LockHeld
    /\ TestHolds
    /\ NoLostWakeup
    /\ EndsOpen
    /\ GivesUp
    /\ EofMeansClosed
    /\ ShortMeansClosed

LEMMA RangeEmpty == Range(<<>>) = {}
BY DEF Range

\* Taking a process off a queue, whether it is in it or not.
LEMMA UnlinkElems ==
    ASSUME NEW S, NEW queue \in Seq(S), NEW p, NEW rest, Unlink(queue, p, rest)
    PROVE  /\ rest \in Seq(S) /\ Range(rest) \subseteq Range(queue)
           /\ rest # <<>> => queue # <<>>
<1>1. ASSUME NEW i \in DOMAIN queue, rest = RemoveAt(queue, i)
      PROVE  rest \in Seq(S) /\ Range(rest) \subseteq Range(queue) /\ queue # <<>>
  <2>1. /\ rest \in Seq(S) /\ Len(queue) \in Nat /\ DOMAIN queue = 1..Len(queue)
        /\ DOMAIN rest = 1..(Len(queue) - 1)
        /\ \A k \in 1..(Len(queue) - 1) : rest[k] = queue[IF k < i THEN k ELSE k + 1]
    BY <1>1, RemoveAtIs
  <2>2. ASSUME NEW k \in DOMAIN rest PROVE \E n \in DOMAIN queue : rest[k] = queue[n]
    <3>1. k \in DOMAIN queue /\ k + 1 \in DOMAIN queue
      BY <2>1
    <3> QED BY <2>1, <3>1
  <2>3. Range(rest) \subseteq Range(queue)
    BY <2>2 DEF Range
  <2> QED BY <2>1, <2>3
<1> QED BY <1>1 DEF Unlink

\* The pipe is new.
LEMMA InitPInv == Init => PInv
<1> SUFFICES ASSUME Init PROVE PInv
  OBVIOUS
<1> USE PipeAssumption DEF Init, Proc
<1>1. 0 \in Slot
  BY SizeAssumption DEF Slot
<1>2. TypeOK
  <2>1. (CHOOSE b \in Byte : TRUE) \in Byte
    OBVIOUS
  <2>2. /\ pc \in [Proc -> PcVals] /\ data \in [Proc -> Seq(Byte)]
        /\ readers \in Seq(Reader) /\ writers \in Seq(Writer)
    BY DEF PcVals
  <2> QED BY <1>1, <2>1, <2>2 DEF TypeOK
<1>3. Kinds /\ LockHeld
  BY RangeEmpty DEF Kinds, LockHeld, ReadPcs
<1>4. TestHolds /\ NoLostWakeup
  BY RangeEmpty DEF TestHolds, NoLostWakeup
<1>5. EndsOpen /\ GivesUp
  BY DEF EndsOpen, GivesUp, ReadPcs, WritePcs, PollPcs
<1>6. EofMeansClosed /\ ShortMeansClosed
  BY DEF EofMeansClosed, ShortMeansClosed
<1> QED BY <1>2, <1>3, <1>4, <1>5, <1>6 DEF PInv

\* The test for end of file is made without the lock, and it is right then.
LEMMA ReadStep ==
    ASSUME PInv, NEW p \in Reader, NEW n \in ReadSizes, Read(p, n)
    PROVE  PInv'
<1> USE PipeAssumption DEF PInv, TypeOK, Goto, Return, Proc, ring, queues, ends, call
<1>effect.
      /\ pc[p] = "user" /\ pc' \in [Proc -> PcVals]
      /\ \A q \in Proc \ {p} : pc'[q] = pc[q]
      /\ \/ pc'[p] = "user" /\ wclosed /\ size' = size
         \/ pc'[p] = "rlock" /\ ret'[p] = "none"
      /\ p \in refs
      /\ size' \in [Reader -> Nat] /\ \A q \in Reader \ {p} : size'[q] = size[q]
      /\ ret'[p] \in {"eof", "none"} /\ \A q \in Proc \ {p} : ret'[q] = ret[q]
      /\ ret' \in [Proc -> {"none", "eof", "data", "ready", "epipe", "written", "short"}]
      /\ UNCHANGED <<rp, wp, buf, lock, readers, writers, alerts, stop, rclosed, wclosed,
                     refs, intr, data>>
  <2>1. \/ /\ pc' = [pc EXCEPT ![p] = "user"] /\ wclosed /\ size' = size
           /\ ret' = [ret EXCEPT ![p] = "eof"]
        \/ /\ pc' = [pc EXCEPT ![p] = "rlock"] /\ size' = [size EXCEPT ![p] = n]
           /\ ret' = [ret EXCEPT ![p] = "none"]
    BY DEF Read
  <2>2. /\ pc[p] = "user" /\ p \in refs /\ n \in Nat
        /\ UNCHANGED <<rp, wp, buf, lock, readers, writers, alerts, stop, rclosed,
                       wclosed, refs, intr, data>>
    BY DEF Read
  <2>3. "user" \in PcVals /\ "rlock" \in PcVals
    BY DEF PcVals, ReadPcs
  <2>4. CASE /\ pc' = [pc EXCEPT ![p] = "user"] /\ wclosed /\ size' = size
           /\ ret' = [ret EXCEPT ![p] = "eof"]
    BY <2>2, <2>3, <2>4
  <2>5. CASE /\ pc' = [pc EXCEPT ![p] = "rlock"] /\ size' = [size EXCEPT ![p] = n]
           /\ ret' = [ret EXCEPT ![p] = "none"]
    BY <2>2, <2>3, <2>5
  <2> QED BY <2>1, <2>4, <2>5
<1>type. TypeOK'
  BY <1>effect
<1>kinds. Kinds'
  BY <1>effect, <1>type DEF Kinds, ReadPcs, WritePcs, PollPcs, ClosePcs
<1>lock. LockHeld'
  BY <1>effect, <1>type DEF LockHeld, Kinds
<1>test. TestHolds'
  BY <1>effect, <1>type DEF TestHolds, LockHeld, unread, available
<1>wake. NoLostWakeup'
  <2>1. \A q \in Range(readers) : size'[q] = size[q]
    BY <1>effect DEF Kinds
  <2>2. \A q \in Proc : pc[q] \in {"rwake", "wwake"} => pc'[q] = pc[q]
    BY <1>effect
  <2>3. unread' = unread /\ available' = available /\ readers' = readers /\ writers' = writers
    BY <1>effect DEF unread, available
  <2> HIDE DEF TypeOK
  <2> QED BY <2>1, <2>2, <2>3 DEF NoLostWakeup
<1>ends. EndsOpen'
  BY <1>effect, <1>type DEF EndsOpen, ReadPcs, WritePcs, PollPcs, ClosePcs
<1>gives. GivesUp'
  BY <1>effect, <1>type DEF GivesUp
<1>eof. EofMeansClosed'
  BY <1>effect, <1>type DEF EofMeansClosed, GivesUp
<1>short. ShortMeansClosed'
  BY <1>effect, <1>type DEF ShortMeansClosed, GivesUp
<1> QED BY <1>type, <1>kinds, <1>lock, <1>test, <1>wake, <1>ends, <1>gives, <1>eof, <1>short

\* A reader that got nothing has emptied the ring, and holds the lock.
LEMMA CopyOutStep ==
    ASSUME PInv, NEW p \in Reader, CopyOut(p)
    PROVE  PInv'
<1> USE PipeAssumption DEF PInv, TypeOK, Goto, Return, Proc, ring, queues, ends, call
<1>ring. PICK k \in 0..unread :
        /\ rp' = Advance(rp, k) /\ k \in Nat
        /\ data' = [data EXCEPT ![p] = [i \in 1..k |-> buf[Advance(rp, i - 1)]]]
        /\ k = 0 => unread = 0 \/ size[p] = 0
  <2> DEFINE k == Least(unread, size[p])
  <2>1. pc[p] = "rlock" /\ size[p] \in Nat
    BY DEF CopyOut
  <2>2. unread \in Nat
    BY UnreadPlusAvailable DEF unread
  <2>3. k \in 0..unread /\ k \in 0..size[p] /\ (k = size[p] \/ k = unread)
    BY <2>1, <2>2, LeastOfTwo
  <2> HIDE DEF k
  <2>4. k \in Nat /\ (k = 0 => unread = 0 \/ size[p] = 0)
    BY <2>1, <2>2, <2>3
  <2> QED BY <2>3, <2>4 DEF CopyOut, k
<1>chunk. [i \in 1..k |-> buf[Advance(rp, i - 1)]] \in Seq(Byte)
  <2>1. unread \in Nat
    BY UnreadPlusAvailable DEF unread
  <2>2. \A i \in 1..k : i - 1 \in 0..unread
    BY <1>ring, <2>1
  <2>3. \A i \in 1..k : Advance(rp, i - 1) \in Slot
    BY <2>2, UnreadAfterRead DEF unread
  <2> QED BY <1>ring, <2>3
<1>empty. [i \in 1..k |-> buf[Advance(rp, i - 1)]] = <<>> => k = 0
  <2> DEFINE chunk == [i \in 1..k |-> buf[Advance(rp, i - 1)]]
  <2>1. DOMAIN chunk = 1..k /\ DOMAIN <<>> = {}
    OBVIOUS
  <2>2. k # 0 => 1 \in 1..k
    BY <1>ring
  <2> HIDE DEF chunk
  <2>3. chunk = <<>> => k = 0
    BY <2>1, <2>2
  <2> QED BY <2>3 DEF chunk
<1>effect.
      /\ pc[p] = "rlock" /\ lock = None /\ lock' = p
      /\ pc' = [pc EXCEPT ![p] = "rwake"] /\ pc' \in [Proc -> PcVals]
      /\ rp' \in Slot /\ data' \in [Proc -> Seq(Byte)]
      /\ \A q \in Proc \ {p} : data'[q] = data[q]
      /\ data'[p] = <<>> => unread' = 0 \/ size[p] = 0
      /\ unread' > 0 => unread > 0
      /\ UNCHANGED <<wp, buf, readers, writers, alerts, stop, rclosed, wclosed, refs,
                     intr, size, ret>>
  <2>1. rp' \in Slot /\ unread' = unread - k /\ unread \in Nat
    BY <1>ring, UnreadAfterRead, UnreadPlusAvailable DEF CopyOut, unread
  <2>2. data' \in [Proc -> Seq(Byte)] /\ (data'[p] = <<>> => k = 0)
    BY <1>ring, <1>chunk, <1>empty
  <2>3. (k = 0 => unread' = 0 \/ size[p] = 0) /\ (unread' > 0 => unread > 0)
    <3> HIDE DEF PInv, TypeOK
    <3> QED BY <1>ring, <2>1
  <2> QED BY <1>ring, <2>1, <2>2, <2>3 DEF CopyOut, PcVals, ReadPcs
<1>type. TypeOK'
  BY <1>effect
<1>kinds. Kinds'
  BY <1>effect, <1>type DEF Kinds, ReadPcs, WritePcs, PollPcs, ClosePcs
<1>lock. LockHeld'
  BY <1>effect, <1>type DEF LockHeld, Kinds
<1>test. TestHolds'
  BY <1>effect, <1>type DEF TestHolds, LockHeld, unread, available
<1>wake. NoLostWakeup'
  BY <1>effect, <1>type DEF NoLostWakeup, LockHeld, unread, available
<1>ends. EndsOpen'
  BY <1>effect, <1>type DEF EndsOpen, ReadPcs, WritePcs, PollPcs, ClosePcs
<1>gives. GivesUp'
  BY <1>effect, <1>type DEF GivesUp
<1>eof. EofMeansClosed'
  BY <1>effect, <1>type DEF EofMeansClosed, GivesUp
<1>short. ShortMeansClosed'
  BY <1>effect, <1>type DEF ShortMeansClosed, GivesUp
<1> QED BY <1>type, <1>kinds, <1>lock, <1>test, <1>wake, <1>ends, <1>gives, <1>eof, <1>short

\* Every sleeping writer is woken before the lock is released.
LEMMA WakeWritersStep ==
    ASSUME PInv, NEW p \in Reader, WakeWriters(p)
    PROVE  PInv'
<1> USE PipeAssumption DEF PInv, TypeOK, Goto, Return, Proc, ring, queues, ends, call
<1>effect.
      /\ pc[p] = "rwake" /\ pc' \in [Proc -> PcVals]
      /\ \A q \in Proc \ {p} : pc'[q] = pc[q]
      /\ \/ pc'[p] = "rjoin" /\ data[p] = <<>> /\ lock' = lock
         \/ pc'[p] = "rend" /\ data[p] # <<>> /\ lock' = None
      /\ writers' = <<>> /\ writers' \in Seq(Writer)
      /\ UNCHANGED <<rp, wp, buf, readers, alerts, stop, rclosed, wclosed, refs, intr,
                     size, data, ret>>
  <2>1. \/ pc' = [pc EXCEPT ![p] = "rjoin"] /\ data[p] = <<>> /\ lock' = lock
        \/ pc' = [pc EXCEPT ![p] = "rend"] /\ data[p] # <<>> /\ lock' = None
    BY DEF WakeWriters
  <2>2. /\ pc[p] = "rwake" /\ writers' = <<>>
        /\ UNCHANGED <<rp, wp, buf, readers, alerts, stop, rclosed, wclosed, refs, intr,
                       size, data, ret>>
    BY DEF WakeWriters
  <2>3. "rjoin" \in PcVals /\ "rend" \in PcVals
    BY DEF PcVals, ReadPcs
  <2>4. CASE pc' = [pc EXCEPT ![p] = "rjoin"] /\ data[p] = <<>> /\ lock' = lock
    BY <2>2, <2>3, <2>4
  <2>5. CASE pc' = [pc EXCEPT ![p] = "rend"] /\ data[p] # <<>> /\ lock' = None
    BY <2>2, <2>3, <2>5
  <2> QED BY <2>1, <2>4, <2>5
<1>type. TypeOK'
  BY <1>effect
<1>kinds. Kinds'
  BY <1>effect, <1>type DEF Kinds, ReadPcs, WritePcs, PollPcs, ClosePcs
<1>lock. LockHeld'
  <2> DEFINE Held == {"rwake", "rjoin", "rdrop", "wwake", "wjoin", "wdrop"}
  <2>1. lock = p /\ (lock' = p \/ lock' = None)
    BY <1>effect DEF LockHeld
  <2>2. ASSUME NEW q \in Proc \ {p} PROVE lock' # q /\ pc'[q] \notin Held
    <3>1. lock # q /\ lock' # q
      BY <2>1, <2>2
    <3>2. pc[q] \notin Held
      BY <3>1 DEF LockHeld
    <3> QED BY <1>effect, <3>1, <3>2
  <2>3. lock' = p <=> pc'[p] \in Held
    BY <1>effect, <2>1
  <2> HIDE DEF Held
  <2>4. \A q \in Proc : lock' = q <=> pc'[q] \in Held
    BY <2>2, <2>3
  <2> QED BY <2>4 DEF LockHeld, Held
<1>test. TestHolds'
  BY <1>effect, <1>type DEF TestHolds, LockHeld, unread, available
<1>wake. NoLostWakeup'
  BY <1>effect, <1>type DEF NoLostWakeup, LockHeld, unread, available
<1>ends. EndsOpen'
  BY <1>effect, <1>type DEF EndsOpen, ReadPcs, WritePcs, PollPcs, ClosePcs
<1>gives. GivesUp'
  BY <1>effect, <1>type DEF GivesUp
<1>eof. EofMeansClosed'
  BY <1>effect, <1>type DEF EofMeansClosed, GivesUp
<1>short. ShortMeansClosed'
  BY <1>effect, <1>type DEF ShortMeansClosed, GivesUp
<1> QED BY <1>type, <1>kinds, <1>lock, <1>test, <1>wake, <1>ends, <1>gives, <1>eof, <1>short

\* A reader joins the queue of an empty ring.
LEMMA JoinReadersStep ==
    ASSUME PInv, NEW p \in Reader, JoinReaders(p)
    PROVE  PInv'
<1> USE PipeAssumption DEF PInv, TypeOK, Goto, Return, Proc, ring, queues, ends, call
<1>type. TypeOK'
  BY DEF JoinReaders, PcVals, ReadPcs, WritePcs, PollPcs, ClosePcs
<1>queue. Range(readers') = Range(readers) \cup {p}
  BY AppendElems DEF JoinReaders
<1>kinds. Kinds'
  BY <1>type, <1>queue DEF JoinReaders, Kinds, ReadPcs, WritePcs, PollPcs, ClosePcs
<1>lock. LockHeld'
  BY <1>type DEF JoinReaders, LockHeld, Kinds
<1>test. TestHolds'
  BY <1>type DEF JoinReaders, TestHolds, LockHeld, unread, available
<1>wake. NoLostWakeup'
  <2>1. unread' = unread /\ available' = available /\ writers' = writers /\ size' = size
    BY DEF JoinReaders, unread, available
  <2>2. unread = 0 \/ size[p] = 0
    BY DEF JoinReaders, TestHolds
  <2>3. /\ \A q \in Writer : pc[q] = "wwake" => pc'[q] = "wwake"
        /\ \A q \in Reader : pc[q] = "rwake" => pc'[q] = "rwake"
    BY DEF JoinReaders
  <2>4. unread > 0 /\ (\E q \in Range(readers') : size[q] > 0)
           => \E q \in Range(readers) : size[q] > 0
    BY <1>queue, <2>2
  <2> HIDE DEF TypeOK
  <2> QED BY <2>1, <2>3, <2>4 DEF NoLostWakeup
<1>ends. EndsOpen'
  BY <1>type DEF JoinReaders, EndsOpen, ReadPcs, WritePcs, PollPcs, ClosePcs
<1>gives. GivesUp'
  BY <1>type DEF JoinReaders, GivesUp
<1>eof. EofMeansClosed'
  BY <1>type DEF JoinReaders, EofMeansClosed, GivesUp
<1>short. ShortMeansClosed'
  BY <1>type DEF JoinReaders, ShortMeansClosed, GivesUp
<1> QED BY <1>type, <1>kinds, <1>lock, <1>test, <1>wake, <1>ends, <1>gives, <1>eof, <1>short

\* The lock is released by a reader that is in the queue.
LEMMA DropReadStep ==
    ASSUME PInv, NEW p \in Reader, DropRead(p)
    PROVE  PInv'
<1> USE PipeAssumption DEF PInv, TypeOK, Goto, Return, Proc, ring, queues, ends, call
<1>type. TypeOK'
  BY DEF DropRead, PcVals, ReadPcs, WritePcs, PollPcs, ClosePcs
<1>kinds. Kinds'
  BY <1>type DEF DropRead, Kinds, ReadPcs, WritePcs, PollPcs, ClosePcs
<1>lock. LockHeld'
  BY <1>type DEF DropRead, LockHeld, Kinds
<1>test. TestHolds'
  BY <1>type DEF DropRead, TestHolds, LockHeld, unread, available
<1>wake. NoLostWakeup'
  BY <1>type DEF DropRead, NoLostWakeup, LockHeld, unread, available
<1>ends. EndsOpen'
  BY <1>type DEF DropRead, EndsOpen, ReadPcs, WritePcs, PollPcs, ClosePcs
<1>gives. GivesUp'
  BY <1>type DEF DropRead, GivesUp
<1>eof. EofMeansClosed'
  BY <1>type DEF DropRead, EofMeansClosed, GivesUp
<1>short. ShortMeansClosed'
  BY <1>type DEF DropRead, ShortMeansClosed, GivesUp
<1> QED BY <1>type, <1>kinds, <1>lock, <1>test, <1>wake, <1>ends, <1>gives, <1>eof, <1>short

\* An interrupted reader gives up only if a close raised stop.
LEMMA ResumeReadStep ==
    ASSUME PInv, NEW p \in Reader, ResumeRead(p)
    PROVE  PInv'
<1> USE PipeAssumption DEF PInv, TypeOK, Goto, Return, Proc, ring, queues, ends, call
<1>type. TypeOK'
  BY DEF ResumeRead, PcVals, ReadPcs, WritePcs, PollPcs, ClosePcs
<1>kinds. Kinds'
  BY <1>type DEF ResumeRead, Kinds, ReadPcs, WritePcs, PollPcs, ClosePcs
<1>lock. LockHeld'
  BY <1>type DEF ResumeRead, LockHeld, Kinds
<1>test. TestHolds'
  BY <1>type DEF ResumeRead, TestHolds, LockHeld, unread, available
<1>wake. NoLostWakeup'
  BY <1>type DEF ResumeRead, NoLostWakeup, LockHeld, unread, available
<1>ends. EndsOpen'
  BY <1>type DEF ResumeRead, EndsOpen, ReadPcs, WritePcs, PollPcs, ClosePcs
<1>gives. GivesUp'
  BY <1>type DEF ResumeRead, GivesUp, EndsOpen, ReadPcs
<1>eof. EofMeansClosed'
  BY <1>type DEF ResumeRead, EofMeansClosed, GivesUp
<1>short. ShortMeansClosed'
  BY <1>type DEF ResumeRead, ShortMeansClosed, GivesUp
<1> QED BY <1>type, <1>kinds, <1>lock, <1>test, <1>wake, <1>ends, <1>gives, <1>eof, <1>short

\* The reader takes stop down.
LEMMA StopReadStep ==
    ASSUME PInv, NEW p \in Reader, StopRead(p)
    PROVE  PInv'
<1> USE PipeAssumption DEF PInv, TypeOK, Goto, Return, Proc, ring, queues, ends, call
<1>type. TypeOK'
  BY DEF StopRead, PcVals, ReadPcs, WritePcs, PollPcs, ClosePcs
<1>kinds. Kinds'
  BY <1>type DEF StopRead, Kinds, ReadPcs, WritePcs, PollPcs, ClosePcs
<1>lock. LockHeld'
  BY <1>type DEF StopRead, LockHeld, Kinds
<1>test. TestHolds'
  BY <1>type DEF StopRead, TestHolds, LockHeld, unread, available
<1>wake. NoLostWakeup'
  BY <1>type DEF StopRead, NoLostWakeup, LockHeld, unread, available
<1>ends. EndsOpen'
  BY <1>type DEF StopRead, EndsOpen, ReadPcs, WritePcs, PollPcs, ClosePcs
<1>gives. GivesUp'
  BY <1>type DEF StopRead, GivesUp
<1>eof. EofMeansClosed'
  BY <1>type DEF StopRead, EofMeansClosed, GivesUp
<1>short. ShortMeansClosed'
  BY <1>type DEF StopRead, ShortMeansClosed, GivesUp
<1> QED BY <1>type, <1>kinds, <1>lock, <1>test, <1>wake, <1>ends, <1>gives, <1>eof, <1>short

\* A reader that returns nothing met the end of the file.
LEMMA EndReadStep ==
    ASSUME PInv, NEW p \in Reader, EndRead(p)
    PROVE  PInv'
<1> USE PipeAssumption DEF PInv, TypeOK, Goto, Return, Proc, ring, queues, ends, call
<1>type. TypeOK'
  BY DEF EndRead, PcVals, ReadPcs, WritePcs, PollPcs, ClosePcs
<1>kinds. Kinds'
  BY <1>type DEF EndRead, Kinds, ReadPcs, WritePcs, PollPcs, ClosePcs
<1>lock. LockHeld'
  BY <1>type DEF EndRead, LockHeld, Kinds
<1>test. TestHolds'
  BY <1>type DEF EndRead, TestHolds, LockHeld, unread, available
<1>wake. NoLostWakeup'
  BY <1>type DEF EndRead, NoLostWakeup, Kinds, LockHeld, unread, available
<1>ends. EndsOpen'
  BY <1>type DEF EndRead, EndsOpen, ReadPcs, WritePcs, PollPcs, ClosePcs
<1>gives. GivesUp'
  BY <1>type DEF EndRead, GivesUp
<1>eof. EofMeansClosed'
  BY <1>type DEF EndRead, EofMeansClosed, GivesUp
<1>short. ShortMeansClosed'
  BY <1>type DEF EndRead, ShortMeansClosed, GivesUp
<1> QED BY <1>type, <1>kinds, <1>lock, <1>test, <1>wake, <1>ends, <1>gives, <1>eof, <1>short

\* A writer is refused only if the read end is closed.
LEMMA WriteStep ==
    ASSUME PInv, NEW p \in Writer, NEW msg \in Messages, Write(p, msg)
    PROVE  PInv'
<1> USE PipeAssumption DEF PInv, TypeOK, Goto, Return, Proc, ring, queues, ends, call
<1>effect.
      /\ pc[p] = "user" /\ pc' \in [Proc -> PcVals]
      /\ \A q \in Proc \ {p} : pc'[q] = pc[q]
      /\ \/ pc'[p] = "user" /\ rclosed /\ data' = data
         \/ pc'[p] = "wlock" /\ ret'[p] = "none"
         \/ pc'[p] = "wend" /\ data'[p] = <<>> /\ ret'[p] = "none"
      /\ p \in refs
      /\ data' \in [Proc -> Seq(Byte)] /\ \A q \in Proc \ {p} : data'[q] = data[q]
      /\ ret'[p] \in {"epipe", "none"} /\ \A q \in Proc \ {p} : ret'[q] = ret[q]
      /\ ret' \in [Proc -> {"none", "eof", "data", "ready", "epipe", "written", "short"}]
      /\ UNCHANGED <<rp, wp, buf, lock, readers, writers, alerts, stop, rclosed, wclosed,
                     refs, intr, size>>
  <2>1. \/ /\ pc' = [pc EXCEPT ![p] = "user"] /\ rclosed /\ data' = data
           /\ ret' = [ret EXCEPT ![p] = "epipe"]
        \/ /\ pc' = [pc EXCEPT ![p] = IF msg = <<>> THEN "wend" ELSE "wlock"]
           /\ data' = [data EXCEPT ![p] = msg]
           /\ ret' = [ret EXCEPT ![p] = "none"]
    BY DEF Write
  <2>2. /\ pc[p] = "user" /\ p \in refs /\ msg \in Seq(Byte)
        /\ UNCHANGED <<rp, wp, buf, lock, readers, writers, alerts, stop, rclosed,
                       wclosed, refs, intr, size>>
    BY DEF Write
  <2>3. "user" \in PcVals /\ "wlock" \in PcVals /\ "wend" \in PcVals
    BY DEF PcVals, WritePcs
  <2>4. CASE /\ pc' = [pc EXCEPT ![p] = "user"] /\ rclosed /\ data' = data
           /\ ret' = [ret EXCEPT ![p] = "epipe"]
    BY <2>2, <2>3, <2>4
  <2>5. CASE /\ pc' = [pc EXCEPT ![p] = IF msg = <<>> THEN "wend" ELSE "wlock"]
             /\ data' = [data EXCEPT ![p] = msg]
             /\ ret' = [ret EXCEPT ![p] = "none"]
    <3>1. CASE msg = <<>>
      BY <2>2, <2>3, <2>5, <3>1
    <3>2. CASE msg # <<>>
      BY <2>2, <2>3, <2>5, <3>2
    <3> QED BY <3>1, <3>2
  <2> QED BY <2>1, <2>4, <2>5
<1>type. TypeOK'
  BY <1>effect
<1>kinds. Kinds'
  BY <1>effect, <1>type DEF Kinds, ReadPcs, WritePcs, PollPcs, ClosePcs
<1>lock. LockHeld'
  BY <1>effect, <1>type DEF LockHeld, Kinds
<1>test. TestHolds'
  <2>1. unread' = unread /\ available' = available
    BY <1>effect DEF unread, available
  <2>2. \A q \in Proc \ {p} : pc'[q] = pc[q] /\ data'[q] = data[q]
    BY <1>effect
  <2>3. pc'[p] \in {"user", "wlock", "wend"} /\ p \notin Reader /\ size' = size
    BY <1>effect
  <2> HIDE DEF TypeOK
  <2> QED BY <2>1, <2>2, <2>3 DEF TestHolds
<1>wake. NoLostWakeup'
  BY <1>effect, <1>type DEF NoLostWakeup, LockHeld, unread, available
<1>ends. EndsOpen'
  BY <1>effect, <1>type DEF EndsOpen, ReadPcs, WritePcs, PollPcs, ClosePcs
<1>gives. GivesUp'
  <2>1. \A q \in Proc \ {p} : pc'[q] = pc[q] /\ data'[q] = data[q]
    BY <1>effect
  <2>2. /\ pc'[p] = "wend" => data'[p] = <<>>
        /\ pc'[p] \in {"user", "wlock", "wend"} /\ rclosed' = rclosed /\ wclosed' = wclosed /\ p \notin Reader
    BY <1>effect
  <2>3. \A q \in Reader \cup Writer : q = p \/ q \in Proc \ {p}
    OBVIOUS
  <2> HIDE DEF TypeOK, Proc
  <2> QED BY <2>1, <2>2, <2>3 DEF GivesUp
<1>eof. EofMeansClosed'
  BY <1>effect, <1>type DEF EofMeansClosed, GivesUp
<1>short. ShortMeansClosed'
  BY <1>effect, <1>type DEF ShortMeansClosed, GivesUp
<1> QED BY <1>type, <1>kinds, <1>lock, <1>test, <1>wake, <1>ends, <1>gives, <1>eof, <1>short

\* A writer that has bytes left has filled the ring, and holds the lock.
LEMMA CopyInStep ==
    ASSUME PInv, NEW p \in Writer, CopyIn(p)
    PROVE  PInv'
<1> USE PipeAssumption DEF PInv, TypeOK, Goto, Return, Proc, ring, queues, ends, call
<1>ring. PICK k \in 0..available :
        /\ wp' = Advance(wp, k) /\ k \in 0..Len(data[p])
        /\ data' = [data EXCEPT ![p] = SubSeq(@, k + 1, Len(@))]
        /\ k = Len(data[p]) \/ k = available
        /\ buf' = [i \in Slot |->
                     IF \E j \in 1..k : i = Advance(wp, j - 1)
                     THEN data[p][CHOOSE j \in 1..k : i = Advance(wp, j - 1)]
                     ELSE buf[i]]
  <2> DEFINE k == Least(available, Len(data[p]))
  <2>1. available \in Nat /\ Len(data[p]) \in Nat
    BY UnreadPlusAvailable DEF available
  <2>2. k \in 0..available /\ k \in 0..Len(data[p]) /\ (k = Len(data[p]) \/ k = available)
    BY <2>1, LeastOfTwo
  <2> QED BY <2>2 DEF CopyIn
<1>bytes. buf' \in [Slot -> Byte]
  <2>1. \A j \in 1..k : data[p][j] \in Byte
    BY <1>ring
  <2>2. ASSUME NEW i \in Slot, \E j \in 1..k : i = Advance(wp, j - 1)
        PROVE  data[p][CHOOSE j \in 1..k : i = Advance(wp, j - 1)] \in Byte
    BY <2>1, <2>2
  <2> QED BY <1>ring, <2>2
<1>left. data' \in [Proc -> Seq(Byte)] /\ (data'[p] # <<>> => k # Len(data[p]))
  <2>1. Len(data[p]) \in Nat /\ data[p] \in Seq(Byte)
    OBVIOUS
  <2>2. SubSeq(data[p], k + 1, Len(data[p])) \in Seq(Byte)
    BY <1>ring, <2>1
  <2>3. k = Len(data[p]) => SubSeq(data[p], k + 1, Len(data[p])) = <<>>
    BY <1>ring, <2>1
  <2>4. data' = [data EXCEPT ![p] = SubSeq(data[p], k + 1, Len(data[p]))]
    BY <1>ring
  <2> QED BY <2>2, <2>3, <2>4
<1>effect.
      /\ pc[p] = "wlock" /\ lock = None /\ lock' = p
      /\ pc' = [pc EXCEPT ![p] = "wwake"] /\ pc' \in [Proc -> PcVals]
      /\ wp' \in Slot /\ data' \in [Proc -> Seq(Byte)] /\ buf' \in [Slot -> Byte]
      /\ \A q \in Proc \ {p} : data'[q] = data[q]
      /\ data'[p] # <<>> => available' = 0
      /\ available' > 0 => available > 0
      /\ UNCHANGED <<rp, readers, writers, alerts, stop, rclosed, wclosed, refs, intr,
                     size, ret>>
  <2>1. wp' \in Slot /\ available' = available - k /\ available \in Nat
    BY <1>ring, UnreadAfterWrite, UnreadPlusAvailable DEF CopyIn, available
  <2>2. (data'[p] # <<>> => available' = 0) /\ (available' > 0 => available > 0)
    BY <1>ring, <1>left, <2>1
  <2> QED BY <1>ring, <1>bytes, <1>left, <2>1, <2>2 DEF CopyIn, PcVals, WritePcs
<1>type. TypeOK'
  BY <1>effect
<1>kinds. Kinds'
  BY <1>effect, <1>type DEF Kinds, ReadPcs, WritePcs, PollPcs, ClosePcs
<1>lock. LockHeld'
  BY <1>effect, <1>type DEF LockHeld, Kinds
<1>test. TestHolds'
  BY <1>effect, <1>type DEF TestHolds, LockHeld, unread, available
<1>wake. NoLostWakeup'
  BY <1>effect, <1>type DEF NoLostWakeup, LockHeld, unread, available
<1>ends. EndsOpen'
  BY <1>effect, <1>type DEF EndsOpen, ReadPcs, WritePcs, PollPcs, ClosePcs
<1>gives. GivesUp'
  BY <1>effect, <1>type DEF GivesUp
<1>eof. EofMeansClosed'
  BY <1>effect, <1>type DEF EofMeansClosed, GivesUp
<1>short. ShortMeansClosed'
  BY <1>effect, <1>type DEF ShortMeansClosed, GivesUp
<1> QED BY <1>type, <1>kinds, <1>lock, <1>test, <1>wake, <1>ends, <1>gives, <1>eof, <1>short

\* Every sleeping reader is woken before the lock is released.
LEMMA WakeReadersStep ==
    ASSUME PInv, NEW p \in Writer, WakeReaders(p)
    PROVE  PInv'
<1> USE PipeAssumption DEF PInv, TypeOK, Goto, Return, Proc, ring, queues, ends, call
<1>effect.
      /\ pc[p] = "wwake" /\ pc' \in [Proc -> PcVals]
      /\ \A q \in Proc \ {p} : pc'[q] = pc[q]
      /\ \/ pc'[p] = "wjoin" /\ data[p] # <<>> /\ lock' = lock
         \/ pc'[p] = "wend" /\ data[p] = <<>> /\ lock' = None
      /\ readers' = <<>> /\ readers' \in Seq(Reader) /\ alerts' = {}
      /\ UNCHANGED <<rp, wp, buf, writers, stop, rclosed, wclosed, refs, intr, size,
                     data, ret>>
  <2>1. \/ pc' = [pc EXCEPT ![p] = "wjoin"] /\ data[p] # <<>> /\ lock' = lock
        \/ pc' = [pc EXCEPT ![p] = "wend"] /\ data[p] = <<>> /\ lock' = None
    BY DEF WakeReaders
  <2>2. /\ pc[p] = "wwake" /\ readers' = <<>> /\ alerts' = {}
        /\ UNCHANGED <<rp, wp, buf, writers, stop, rclosed, wclosed, refs, intr, size,
                       data, ret>>
    BY DEF WakeReaders
  <2>3. "wjoin" \in PcVals /\ "wend" \in PcVals
    BY DEF PcVals, WritePcs
  <2>4. CASE pc' = [pc EXCEPT ![p] = "wjoin"] /\ data[p] # <<>> /\ lock' = lock
    BY <2>2, <2>3, <2>4
  <2>5. CASE pc' = [pc EXCEPT ![p] = "wend"] /\ data[p] = <<>> /\ lock' = None
    BY <2>2, <2>3, <2>5
  <2> QED BY <2>1, <2>4, <2>5
<1>type. TypeOK'
  BY <1>effect
<1>kinds. Kinds'
  BY <1>effect, <1>type, RangeEmpty DEF Kinds, ReadPcs, WritePcs, PollPcs, ClosePcs
<1>lock. LockHeld'
  <2> DEFINE Held == {"rwake", "rjoin", "rdrop", "wwake", "wjoin", "wdrop"}
  <2>1. lock = p /\ (lock' = p \/ lock' = None)
    BY <1>effect DEF LockHeld
  <2>2. ASSUME NEW q \in Proc \ {p} PROVE lock' # q /\ pc'[q] \notin Held
    <3>1. lock # q /\ lock' # q
      BY <2>1, <2>2
    <3>2. pc[q] \notin Held
      BY <3>1 DEF LockHeld
    <3> QED BY <1>effect, <3>1, <3>2
  <2>3. lock' = p <=> pc'[p] \in Held
    BY <1>effect, <2>1
  <2> HIDE DEF Held
  <2>4. \A q \in Proc : lock' = q <=> pc'[q] \in Held
    BY <2>2, <2>3
  <2> QED BY <2>4 DEF LockHeld, Held
<1>test. TestHolds'
  BY <1>effect, <1>type DEF TestHolds, LockHeld, unread, available
<1>wake. NoLostWakeup'
  BY <1>effect, <1>type, RangeEmpty DEF NoLostWakeup, LockHeld, unread, available
<1>ends. EndsOpen'
  BY <1>effect, <1>type DEF EndsOpen, ReadPcs, WritePcs, PollPcs, ClosePcs
<1>gives. GivesUp'
  BY <1>effect, <1>type DEF GivesUp
<1>eof. EofMeansClosed'
  BY <1>effect, <1>type DEF EofMeansClosed, GivesUp
<1>short. ShortMeansClosed'
  BY <1>effect, <1>type DEF ShortMeansClosed, GivesUp
<1> QED BY <1>type, <1>kinds, <1>lock, <1>test, <1>wake, <1>ends, <1>gives, <1>eof, <1>short

\* A writer joins the queue of a full ring.
LEMMA JoinWritersStep ==
    ASSUME PInv, NEW p \in Writer, JoinWriters(p)
    PROVE  PInv'
<1> USE PipeAssumption DEF PInv, TypeOK, Goto, Return, Proc, ring, queues, ends, call
<1>type. TypeOK'
  BY DEF JoinWriters, PcVals, ReadPcs, WritePcs, PollPcs, ClosePcs
<1>kinds. Kinds'
  BY <1>type DEF JoinWriters, Kinds, ReadPcs, WritePcs, PollPcs, ClosePcs
<1>lock. LockHeld'
  BY <1>type DEF JoinWriters, LockHeld, Kinds
<1>test. TestHolds'
  BY <1>type DEF JoinWriters, TestHolds, LockHeld, unread, available
<1>wake. NoLostWakeup'
  BY <1>type DEF JoinWriters, NoLostWakeup, LockHeld, TestHolds, unread, available
<1>ends. EndsOpen'
  BY <1>type DEF JoinWriters, EndsOpen, ReadPcs, WritePcs, PollPcs, ClosePcs
<1>gives. GivesUp'
  BY <1>type DEF JoinWriters, GivesUp
<1>eof. EofMeansClosed'
  BY <1>type DEF JoinWriters, EofMeansClosed, GivesUp
<1>short. ShortMeansClosed'
  BY <1>type DEF JoinWriters, ShortMeansClosed, GivesUp
<1> QED BY <1>type, <1>kinds, <1>lock, <1>test, <1>wake, <1>ends, <1>gives, <1>eof, <1>short

\* The lock is released by a writer that is in the queue.
LEMMA DropWriteStep ==
    ASSUME PInv, NEW p \in Writer, DropWrite(p)
    PROVE  PInv'
<1> USE PipeAssumption DEF PInv, TypeOK, Goto, Return, Proc, ring, queues, ends, call
<1>type. TypeOK'
  BY DEF DropWrite, PcVals, ReadPcs, WritePcs, PollPcs, ClosePcs
<1>kinds. Kinds'
  BY <1>type DEF DropWrite, Kinds, ReadPcs, WritePcs, PollPcs, ClosePcs
<1>lock. LockHeld'
  BY <1>type DEF DropWrite, LockHeld, Kinds
<1>test. TestHolds'
  BY <1>type DEF DropWrite, TestHolds, LockHeld, unread, available
<1>wake. NoLostWakeup'
  BY <1>type DEF DropWrite, NoLostWakeup, LockHeld, unread, available
<1>ends. EndsOpen'
  BY <1>type DEF DropWrite, EndsOpen, ReadPcs, WritePcs, PollPcs, ClosePcs
<1>gives. GivesUp'
  BY <1>type DEF DropWrite, GivesUp
<1>eof. EofMeansClosed'
  BY <1>type DEF DropWrite, EofMeansClosed, GivesUp
<1>short. ShortMeansClosed'
  BY <1>type DEF DropWrite, ShortMeansClosed, GivesUp
<1> QED BY <1>type, <1>kinds, <1>lock, <1>test, <1>wake, <1>ends, <1>gives, <1>eof, <1>short

\* An interrupted writer gives up only if a close raised stop.
LEMMA ResumeWriteStep ==
    ASSUME PInv, NEW p \in Writer, ResumeWrite(p)
    PROVE  PInv'
<1> USE PipeAssumption DEF PInv, TypeOK, Goto, Return, Proc, ring, queues, ends, call
<1>type. TypeOK'
  BY DEF ResumeWrite, PcVals, ReadPcs, WritePcs, PollPcs, ClosePcs
<1>kinds. Kinds'
  BY <1>type DEF ResumeWrite, Kinds, ReadPcs, WritePcs, PollPcs, ClosePcs
<1>lock. LockHeld'
  BY <1>type DEF ResumeWrite, LockHeld, Kinds
<1>test. TestHolds'
  BY <1>type DEF ResumeWrite, TestHolds, LockHeld, unread, available
<1>wake. NoLostWakeup'
  BY <1>type DEF ResumeWrite, NoLostWakeup, LockHeld, unread, available
<1>ends. EndsOpen'
  BY <1>type DEF ResumeWrite, EndsOpen, ReadPcs, WritePcs, PollPcs, ClosePcs
<1>gives. GivesUp'
  BY <1>type DEF ResumeWrite, GivesUp, EndsOpen, WritePcs
<1>eof. EofMeansClosed'
  BY <1>type DEF ResumeWrite, EofMeansClosed, GivesUp
<1>short. ShortMeansClosed'
  BY <1>type DEF ResumeWrite, ShortMeansClosed, GivesUp
<1> QED BY <1>type, <1>kinds, <1>lock, <1>test, <1>wake, <1>ends, <1>gives, <1>eof, <1>short

\* The writer takes stop down.
LEMMA StopWriteStep ==
    ASSUME PInv, NEW p \in Writer, StopWrite(p)
    PROVE  PInv'
<1> USE PipeAssumption DEF PInv, TypeOK, Goto, Return, Proc, ring, queues, ends, call
<1>type. TypeOK'
  BY DEF StopWrite, PcVals, ReadPcs, WritePcs, PollPcs, ClosePcs
<1>kinds. Kinds'
  BY <1>type DEF StopWrite, Kinds, ReadPcs, WritePcs, PollPcs, ClosePcs
<1>lock. LockHeld'
  BY <1>type DEF StopWrite, LockHeld, Kinds
<1>test. TestHolds'
  BY <1>type DEF StopWrite, TestHolds, LockHeld, unread, available
<1>wake. NoLostWakeup'
  BY <1>type DEF StopWrite, NoLostWakeup, LockHeld, unread, available
<1>ends. EndsOpen'
  BY <1>type DEF StopWrite, EndsOpen, ReadPcs, WritePcs, PollPcs, ClosePcs
<1>gives. GivesUp'
  BY <1>type DEF StopWrite, GivesUp
<1>eof. EofMeansClosed'
  BY <1>type DEF StopWrite, EofMeansClosed, GivesUp
<1>short. ShortMeansClosed'
  BY <1>type DEF StopWrite, ShortMeansClosed, GivesUp
<1> QED BY <1>type, <1>kinds, <1>lock, <1>test, <1>wake, <1>ends, <1>gives, <1>eof, <1>short

\* A writer that returns early found the read end closed.
LEMMA EndWriteStep ==
    ASSUME PInv, NEW p \in Writer, EndWrite(p)
    PROVE  PInv'
<1> USE PipeAssumption DEF PInv, TypeOK, Goto, Return, Proc, ring, queues, ends, call
<1>type. TypeOK'
  BY DEF EndWrite, PcVals, ReadPcs, WritePcs, PollPcs, ClosePcs
<1>kinds. Kinds'
  BY <1>type, RangeEmpty DEF EndWrite, Kinds, ReadPcs, WritePcs, PollPcs, ClosePcs
<1>lock. LockHeld'
  BY <1>type DEF EndWrite, LockHeld, Kinds
<1>test. TestHolds'
  BY <1>type DEF EndWrite, TestHolds, LockHeld, unread, available
<1>wake. NoLostWakeup'
  BY <1>type, RangeEmpty DEF EndWrite, NoLostWakeup, LockHeld, unread, available
<1>ends. EndsOpen'
  BY <1>type DEF EndWrite, EndsOpen, ReadPcs, WritePcs, PollPcs, ClosePcs
<1>gives. GivesUp'
  BY <1>type DEF EndWrite, GivesUp
<1>eof. EofMeansClosed'
  BY <1>type DEF EndWrite, EofMeansClosed, GivesUp
<1>short. ShortMeansClosed'
  BY <1>type DEF EndWrite, ShortMeansClosed, GivesUp
<1> QED BY <1>type, <1>kinds, <1>lock, <1>test, <1>wake, <1>ends, <1>gives, <1>eof, <1>short

\* fswait returns at once or goes on to register.
LEMMA PollStep ==
    ASSUME PInv, NEW p \in Reader, Poll(p)
    PROVE  PInv'
<1> USE PipeAssumption DEF PInv, TypeOK, Goto, Return, Proc, ring, queues, ends, call
<1>effect.
      /\ pc[p] = "user" /\ pc' \in [Proc -> PcVals]
      /\ \A q \in Proc \ {p} : pc'[q] = pc[q]
      /\ \/ pc'[p] = "user"
         \/ pc'[p] = "pjoin"
      /\ p \in refs
      /\ ret'[p] \in {"ready", "none"} /\ \A q \in Proc \ {p} : ret'[q] = ret[q]
      /\ ret' \in [Proc -> {"none", "eof", "data", "ready", "epipe", "written", "short"}]
      /\ UNCHANGED <<rp, wp, buf, lock, readers, writers, alerts, stop, rclosed, wclosed,
                     refs, intr, size, data>>
  <2>1. \/ /\ pc' = [pc EXCEPT ![p] = "user"] /\ ret' = [ret EXCEPT ![p] = "ready"]
        \/ /\ pc' = [pc EXCEPT ![p] = "pjoin"] /\ ret' = [ret EXCEPT ![p] = "none"]
    BY DEF Poll
  <2>2. /\ pc[p] = "user" /\ p \in refs
        /\ UNCHANGED <<rp, wp, buf, lock, readers, writers, alerts, stop, rclosed,
                       wclosed, refs, intr, size, data>>
    BY DEF Poll
  <2>3. "user" \in PcVals /\ "pjoin" \in PcVals
    BY DEF PcVals, PollPcs
  <2>4. CASE pc' = [pc EXCEPT ![p] = "user"] /\ ret' = [ret EXCEPT ![p] = "ready"]
    BY <2>2, <2>3, <2>4
  <2>5. CASE pc' = [pc EXCEPT ![p] = "pjoin"] /\ ret' = [ret EXCEPT ![p] = "none"]
    BY <2>2, <2>3, <2>5
  <2> QED BY <2>1, <2>4, <2>5
<1>type. TypeOK'
  BY <1>effect
<1>kinds. Kinds'
  BY <1>effect, <1>type DEF Kinds, ReadPcs, WritePcs, PollPcs, ClosePcs
<1>lock. LockHeld'
  BY <1>effect, <1>type DEF LockHeld, Kinds
<1>test. TestHolds'
  BY <1>effect, <1>type DEF TestHolds, LockHeld, unread, available
<1>wake. NoLostWakeup'
  BY <1>effect, <1>type DEF NoLostWakeup, LockHeld, unread, available
<1>ends. EndsOpen'
  BY <1>effect, <1>type DEF EndsOpen, ReadPcs, WritePcs, PollPcs, ClosePcs
<1>gives. GivesUp'
  BY <1>effect, <1>type DEF GivesUp
<1>eof. EofMeansClosed'
  BY <1>effect, <1>type DEF EofMeansClosed, GivesUp
<1>short. ShortMeansClosed'
  BY <1>effect, <1>type DEF ShortMeansClosed, GivesUp
<1> QED BY <1>type, <1>kinds, <1>lock, <1>test, <1>wake, <1>ends, <1>gives, <1>eof, <1>short

\* fswait registers with the ring.
LEMMA JoinAlertsStep ==
    ASSUME PInv, NEW p \in Reader, JoinAlerts(p)
    PROVE  PInv'
<1> USE PipeAssumption DEF PInv, TypeOK, Goto, Return, Proc, ring, queues, ends, call
<1>type. TypeOK'
  BY DEF JoinAlerts, PcVals, ReadPcs, WritePcs, PollPcs, ClosePcs
<1>kinds. Kinds'
  BY <1>type DEF JoinAlerts, Kinds, ReadPcs, WritePcs, PollPcs, ClosePcs
<1>lock. LockHeld'
  BY <1>type DEF JoinAlerts, LockHeld, Kinds
<1>test. TestHolds'
  BY <1>type DEF JoinAlerts, TestHolds, LockHeld, unread, available
<1>wake. NoLostWakeup'
  BY <1>type DEF JoinAlerts, NoLostWakeup, LockHeld, unread, available
<1>ends. EndsOpen'
  BY <1>type DEF JoinAlerts, EndsOpen, ReadPcs, WritePcs, PollPcs, ClosePcs
<1>gives. GivesUp'
  BY <1>type DEF JoinAlerts, GivesUp
<1>eof. EofMeansClosed'
  BY <1>type DEF JoinAlerts, EofMeansClosed, GivesUp
<1>short. ShortMeansClosed'
  BY <1>type DEF JoinAlerts, ShortMeansClosed, GivesUp
<1> QED BY <1>type, <1>kinds, <1>lock, <1>test, <1>wake, <1>ends, <1>gives, <1>eof, <1>short

\* fswait returns.
LEMMA ResumePollStep ==
    ASSUME PInv, NEW p \in Reader, ResumePoll(p)
    PROVE  PInv'
<1> USE PipeAssumption DEF PInv, TypeOK, Goto, Return, Proc, ring, queues, ends, call
<1>type. TypeOK'
  BY DEF ResumePoll, PcVals, ReadPcs, WritePcs, PollPcs, ClosePcs
<1>kinds. Kinds'
  BY <1>type DEF ResumePoll, Kinds, ReadPcs, WritePcs, PollPcs, ClosePcs
<1>lock. LockHeld'
  BY <1>type DEF ResumePoll, LockHeld, Kinds
<1>test. TestHolds'
  BY <1>type DEF ResumePoll, TestHolds, LockHeld, unread, available
<1>wake. NoLostWakeup'
  BY <1>type DEF ResumePoll, NoLostWakeup, LockHeld, unread, available
<1>ends. EndsOpen'
  BY <1>type DEF ResumePoll, EndsOpen, ReadPcs, WritePcs, PollPcs, ClosePcs
<1>gives. GivesUp'
  BY <1>type DEF ResumePoll, GivesUp
<1>eof. EofMeansClosed'
  BY <1>type DEF ResumePoll, EofMeansClosed, GivesUp
<1>short. ShortMeansClosed'
  BY <1>type DEF ResumePoll, ShortMeansClosed, GivesUp
<1> QED BY <1>type, <1>kinds, <1>lock, <1>test, <1>wake, <1>ends, <1>gives, <1>eof, <1>short

\* The last close of an end raises its flag when nobody of that end is in a call.
LEMMA CloseStep ==
    ASSUME PInv, NEW p \in Proc, Close(p)
    PROVE  PInv'
<1> USE PipeAssumption DEF PInv, TypeOK, Goto, Return, Proc, ring, queues, ends, call
<1>effect.
      /\ pc[p] = "user" /\ p \in refs /\ refs' = refs \ {p}
      /\ pc' \in [Proc -> PcVals] /\ pc'[p] \in {"cstop", "gone"}
      /\ \A q \in Proc \ {p} : pc'[q] = pc[q]
      /\ rclosed' \in BOOLEAN /\ wclosed' \in BOOLEAN
      /\ rclosed => rclosed'
      /\ wclosed => wclosed'
      /\ rclosed' /\ ~rclosed => p \in Reader /\ refs \cap Reader = {p}
      /\ wclosed' /\ ~wclosed => p \in Writer /\ refs \cap Writer = {p}
      /\ pc'[p] = "cstop" => (p \in Reader => rclosed') /\ (p \in Writer => wclosed')
      /\ UNCHANGED <<rp, wp, buf, lock, readers, writers, alerts, stop, intr, size, data,
                     ret>>
  <2>1. CASE p \in Reader
    BY <2>1 DEF Close, PcVals, ClosePcs
  <2>2. CASE p \in Writer
    BY <2>2 DEF Close, PcVals, ClosePcs
  <2> QED BY <2>1, <2>2
<1>type. TypeOK'
  BY <1>effect
<1>kinds. Kinds'
  BY <1>effect, <1>type DEF Kinds, ReadPcs, WritePcs, PollPcs, ClosePcs
<1>lock. LockHeld'
  BY <1>effect, <1>type DEF LockHeld, Kinds
<1>test. TestHolds'
  BY <1>effect, <1>type DEF TestHolds, LockHeld, unread, available
<1>wake. NoLostWakeup'
  BY <1>effect, <1>type DEF NoLostWakeup, LockHeld, unread, available
<1>ends. EndsOpen'
  BY <1>effect, <1>type DEF EndsOpen, ReadPcs, WritePcs, PollPcs, ClosePcs
<1>gives. GivesUp'
  BY <1>effect, <1>type DEF GivesUp
<1>eof. EofMeansClosed'
  BY <1>effect, <1>type DEF EofMeansClosed, GivesUp
<1>short. ShortMeansClosed'
  BY <1>effect, <1>type DEF ShortMeansClosed, GivesUp
<1> QED BY <1>type, <1>kinds, <1>lock, <1>test, <1>wake, <1>ends, <1>gives, <1>eof, <1>short

\* stop goes up after the flag of the closed end.
LEMMA RaiseStopStep ==
    ASSUME PInv, NEW p \in Proc, RaiseStop(p)
    PROVE  PInv'
<1> USE PipeAssumption DEF PInv, TypeOK, Goto, Return, Proc, ring, queues, ends, call
<1>type. TypeOK'
  BY DEF RaiseStop, PcVals, ReadPcs, WritePcs, PollPcs, ClosePcs
<1>kinds. Kinds'
  BY <1>type DEF RaiseStop, Kinds, ReadPcs, WritePcs, PollPcs, ClosePcs
<1>lock. LockHeld'
  BY <1>type DEF RaiseStop, LockHeld, Kinds
<1>test. TestHolds'
  BY <1>type DEF RaiseStop, TestHolds, LockHeld, unread, available
<1>wake. NoLostWakeup'
  BY <1>type DEF RaiseStop, NoLostWakeup, LockHeld, unread, available
<1>ends. EndsOpen'
  BY <1>type DEF RaiseStop, EndsOpen, ReadPcs, WritePcs, PollPcs, ClosePcs
<1>gives. GivesUp'
  BY <1>type DEF RaiseStop, GivesUp
<1>eof. EofMeansClosed'
  BY <1>type DEF RaiseStop, EofMeansClosed, GivesUp
<1>short. ShortMeansClosed'
  BY <1>type DEF RaiseStop, ShortMeansClosed, GivesUp
<1> QED BY <1>type, <1>kinds, <1>lock, <1>test, <1>wake, <1>ends, <1>gives, <1>eof, <1>short

\* A close wakes the readers.
LEMMA InterruptReadersStep ==
    ASSUME PInv, NEW p \in Proc, InterruptReaders(p)
    PROVE  PInv'
<1> USE PipeAssumption DEF PInv, TypeOK, Goto, Return, Proc, ring, queues, ends, call
<1>sleepers. Range(readers) \subseteq Reader
  BY DEF Range
<1>type. TypeOK'
  BY <1>sleepers DEF InterruptReaders, PcVals, ReadPcs, WritePcs, PollPcs, ClosePcs
<1>kinds. Kinds'
  BY <1>sleepers, <1>type, RangeEmpty DEF InterruptReaders, Kinds, ReadPcs, WritePcs, PollPcs, ClosePcs
<1>lock. LockHeld'
  BY <1>sleepers, <1>type DEF InterruptReaders, LockHeld, Kinds
<1>test. TestHolds'
  BY <1>sleepers, <1>type DEF InterruptReaders, TestHolds, LockHeld, unread, available
<1>wake. NoLostWakeup'
  BY <1>sleepers, <1>type, RangeEmpty DEF InterruptReaders, NoLostWakeup, LockHeld, unread, available
<1>ends. EndsOpen'
  BY <1>sleepers, <1>type DEF InterruptReaders, EndsOpen, ReadPcs, WritePcs, PollPcs,
     ClosePcs
<1>gives. GivesUp'
  BY <1>sleepers, <1>type DEF InterruptReaders, GivesUp
<1>eof. EofMeansClosed'
  BY <1>sleepers, <1>type DEF InterruptReaders, EofMeansClosed, GivesUp
<1>short. ShortMeansClosed'
  BY <1>sleepers, <1>type DEF InterruptReaders, ShortMeansClosed, GivesUp
<1> QED BY <1>type, <1>kinds, <1>lock, <1>test, <1>wake, <1>ends, <1>gives, <1>eof, <1>short

\* A close wakes the writers.
LEMMA InterruptWritersStep ==
    ASSUME PInv, NEW p \in Proc, InterruptWriters(p)
    PROVE  PInv'
<1> USE PipeAssumption DEF PInv, TypeOK, Goto, Return, Proc, ring, queues, ends, call
<1>sleepers. Range(writers) \subseteq Writer
  BY DEF Range
<1>type. TypeOK'
  BY <1>sleepers DEF InterruptWriters, PcVals, ReadPcs, WritePcs, PollPcs, ClosePcs
<1>kinds. Kinds'
  BY <1>sleepers, <1>type DEF InterruptWriters, Kinds, ReadPcs, WritePcs, PollPcs, ClosePcs
<1>lock. LockHeld'
  BY <1>sleepers, <1>type DEF InterruptWriters, LockHeld, Kinds
<1>test. TestHolds'
  BY <1>sleepers, <1>type DEF InterruptWriters, TestHolds, LockHeld, unread, available
<1>wake. NoLostWakeup'
  BY <1>sleepers, <1>type DEF InterruptWriters, NoLostWakeup, LockHeld, unread, available
<1>ends. EndsOpen'
  BY <1>sleepers, <1>type DEF InterruptWriters, EndsOpen, ReadPcs, WritePcs, PollPcs,
     ClosePcs
<1>gives. GivesUp'
  BY <1>sleepers, <1>type DEF InterruptWriters, GivesUp
<1>eof. EofMeansClosed'
  BY <1>sleepers, <1>type DEF InterruptWriters, EofMeansClosed, GivesUp
<1>short. ShortMeansClosed'
  BY <1>sleepers, <1>type DEF InterruptWriters, ShortMeansClosed, GivesUp
<1> QED BY <1>type, <1>kinds, <1>lock, <1>test, <1>wake, <1>ends, <1>gives, <1>eof, <1>short

\* A close alerts fswait.
LEMMA AlertOnCloseStep ==
    ASSUME PInv, NEW p \in Proc, AlertOnClose(p)
    PROVE  PInv'
<1> USE PipeAssumption DEF PInv, TypeOK, Goto, Return, Proc, ring, queues, ends, call
<1>type. TypeOK'
  BY DEF AlertOnClose, PcVals, ReadPcs, WritePcs, PollPcs, ClosePcs
<1>kinds. Kinds'
  BY <1>type DEF AlertOnClose, Kinds, ReadPcs, WritePcs, PollPcs, ClosePcs
<1>lock. LockHeld'
  BY <1>type DEF AlertOnClose, LockHeld, Kinds
<1>test. TestHolds'
  BY <1>type DEF AlertOnClose, TestHolds, LockHeld, unread, available
<1>wake. NoLostWakeup'
  BY <1>type DEF AlertOnClose, NoLostWakeup, LockHeld, unread, available
<1>ends. EndsOpen'
  BY <1>type DEF AlertOnClose, EndsOpen, ReadPcs, WritePcs, PollPcs, ClosePcs
<1>gives. GivesUp'
  BY <1>type DEF AlertOnClose, GivesUp
<1>eof. EofMeansClosed'
  BY <1>type DEF AlertOnClose, EofMeansClosed, GivesUp
<1>short. ShortMeansClosed'
  BY <1>type DEF AlertOnClose, ShortMeansClosed, GivesUp
<1> QED BY <1>type, <1>kinds, <1>lock, <1>test, <1>wake, <1>ends, <1>gives, <1>eof, <1>short

\* A signal takes a sleeper off its queue.
LEMMA SignalStep ==
    ASSUME PInv, NEW p \in Proc, Signal(p)
    PROVE  PInv'
<1> USE PipeAssumption DEF PInv, TypeOK, Goto, Return, Proc, ring, queues, ends, call
<1>queues.
      /\ readers' \in Seq(Reader) /\ Range(readers') \subseteq Range(readers)
      /\ writers' \in Seq(Writer) /\ (writers' # <<>> => writers # <<>>)
  BY UnlinkElems DEF Signal
<1>type. TypeOK'
  BY <1>queues DEF Signal, PcVals, ReadPcs, WritePcs, PollPcs, ClosePcs
<1>kinds. Kinds'
  BY <1>queues, <1>type DEF Signal, Kinds, ReadPcs, WritePcs, PollPcs, ClosePcs
<1>lock. LockHeld'
  BY <1>queues, <1>type DEF Signal, LockHeld, Kinds
<1>test. TestHolds'
  BY <1>queues, <1>type DEF Signal, TestHolds, LockHeld, unread, available
<1>wake. NoLostWakeup'
  BY <1>queues, <1>type DEF Signal, NoLostWakeup, LockHeld, unread, available
<1>ends. EndsOpen'
  BY <1>queues, <1>type DEF Signal, EndsOpen, ReadPcs, WritePcs, PollPcs, ClosePcs
<1>gives. GivesUp'
  BY <1>queues, <1>type DEF Signal, GivesUp
<1>eof. EofMeansClosed'
  BY <1>queues, <1>type DEF Signal, EofMeansClosed, GivesUp
<1>short. ShortMeansClosed'
  BY <1>queues, <1>type DEF Signal, ShortMeansClosed, GivesUp
<1> QED BY <1>type, <1>kinds, <1>lock, <1>test, <1>wake, <1>ends, <1>gives, <1>eof, <1>short

\* Every step preserves the invariant.
LEMMA NextPInv == PInv /\ [Next]_vars => PInv'
<1> SUFFICES ASSUME PInv, [Next]_vars PROVE PInv'
  OBVIOUS
<1>1. CASE UNCHANGED vars
  BY <1>1 DEF vars, PInv, TypeOK, Kinds, LockHeld, TestHolds, NoLostWakeup, EndsOpen,
     GivesUp,
     EofMeansClosed, ShortMeansClosed, unread, available
<1>2. ASSUME NEW p \in Proc, Call(p) PROVE PInv'
  BY <1>2, ReadStep, WriteStep, PollStep, CloseStep DEF Call
<1>3. ASSUME NEW p \in Proc, Resume(p) PROVE PInv'
  <2>1. pc[p] \in {"rsleep", "psleep"} => p \in Reader
    BY <1>3 DEF PInv, Kinds, Proc, WritePcs, ClosePcs
  <2>2. pc[p] = "wsleep" => p \in Writer
    BY <1>3 DEF PInv, Kinds, Proc, ReadPcs, PollPcs, ClosePcs
  <2> QED BY <1>3, <2>1, <2>2, ResumeReadStep, ResumeWriteStep, ResumePollStep
          DEF Resume, ResumeRead, ResumeWrite, ResumePoll
<1>4. ASSUME NEW p \in Proc, Kernel(p) PROVE PInv'
  <2>1. p \in Reader \/ p \in Writer
    BY DEF Proc
  <2>2. CASE CopyOut(p) \/ WakeWriters(p) \/ JoinReaders(p) \/ DropRead(p) \/ StopRead(p)
             \/ EndRead(p) \/ JoinAlerts(p)
    <3>1. p \in Reader
      BY <1>4, <2>1, <2>2 DEF PInv, Kinds, WritePcs, ClosePcs, CopyOut, WakeWriters,
         JoinReaders,
         DropRead, StopRead, EndRead, JoinAlerts
    <3> QED BY <2>2, <3>1, CopyOutStep, WakeWritersStep, JoinReadersStep, DropReadStep,
            StopReadStep, EndReadStep, JoinAlertsStep
  <2>3. CASE CopyIn(p) \/ WakeReaders(p) \/ JoinWriters(p) \/ DropWrite(p) \/ StopWrite(p)
             \/ EndWrite(p)
    <3>1. p \in Writer
      BY <1>4, <2>1, <2>3 DEF PInv, Kinds, ReadPcs, PollPcs, ClosePcs, CopyIn, WakeReaders,
         JoinWriters, DropWrite, StopWrite, EndWrite
    <3> QED BY <2>3, <3>1, CopyInStep, WakeReadersStep, JoinWritersStep, DropWriteStep,
            StopWriteStep, EndWriteStep
  <2> QED BY <1>4, <2>2, <2>3, RaiseStopStep, InterruptReadersStep, InterruptWritersStep,
          AlertOnCloseStep DEF Kernel
<1> QED BY <1>1, <1>2, <1>3, <1>4, SignalStep DEF Next

\* The inductive invariant holds throughout.
THEOREM PipeInvariance == Spec => []PInv
BY InitPInv, NextPInv, PTL DEF Spec

\* The pipe's reads, writes, closes and wakeups keep its state in its type: the
\* cursors stay inside the ring, and each of its queues holds only its own side.
THEOREM PipeTyped == Spec => []TypeOK
<1>1. PInv => TypeOK BY DEF PInv
<1> QED BY <1>1, PipeInvariance, PTL

\* No reader that asked for something sleeps on data, and no writer on room: the
\* ring lock is held from the test to the link (sleep_on_unlocking in
\* ring_buffer_read and ring_buffer_write), whatever reads of 0 bytes go on beside.
THEOREM PipeWakes == Spec => []NoLostWakeup
<1>1. PInv => NoLostWakeup
  BY DEF PInv
<1> QED BY <1>1, PipeInvariance, PTL

\* read() reports the end of the file only after the write end is closed.
THEOREM PipeEof == Spec => []EofMeansClosed
<1>1. PInv => EofMeansClosed
  BY DEF PInv
<1> QED BY <1>1, PipeInvariance, PTL

\* write() gives up early only after the read end is closed.
THEOREM PipeShort == Spec => []ShortMeansClosed
<1>1. PInv => ShortMeansClosed
  BY DEF PInv
<1> QED BY <1>1, PipeInvariance, PTL

----------------------------------------------------------------------------
(* The ring buffer is a bounded byte stream *)

\* A writer outside of a call has nothing left to write.
IdleWriters == \A p \in Writer : pc[p] = "user" => data[p] = <<>>

\* The stream is the unread bytes, and no longer than the ring allows.
LEMMA ContentsAre ==
    ASSUME NEW r \in Slot, NEW w \in Slot, NEW b \in [Slot -> Byte], NEW t,
           t = [i \in 1..Unread(r, w) |-> b[Advance(r, i - 1)]]
    PROVE  /\ t \in Seq(Byte) /\ Len(t) = Unread(r, w)
           /\ \A i \in 1..Unread(r, w) : t[i] = b[Advance(r, i - 1)]
<1>1. Unread(r, w) \in Nat
  BY UnreadPlusAvailable, SizeAssumption
<1>2. \A i \in 1..Unread(r, w) : Advance(r, i - 1) \in Slot
  <2> TAKE i \in 1..Unread(r, w)
  <2>1. i - 1 \in 0..Unread(r, w)
    BY <1>1
  <2> QED BY <2>1, UnreadAfterRead
<1>3. t \in [1..Unread(r, w) -> Byte]
  BY <1>2
<1> QED BY <1>1, <1>3

\* A step that touches neither the ring nor the bytes of a call.
LEMMA QuietSeen ==
    ASSUME UNCHANGED <<rp, wp, buf, data>>
    PROVE  UNCHANGED F!cvars
BY DEF F!cvars, Contents, unread

\* A reader's bytes are not a writer's.
LEMMA ReaderData ==
    ASSUME TypeOK, NEW p \in Reader, NEW d, data' = [data EXCEPT ![p] = d]
    PROVE  /\ [q \in Reader |-> data'[q]] = [[q \in Reader |-> data[q]] EXCEPT ![p] = d]
           /\ [q \in Writer |-> data'[q]] = [q \in Writer |-> data[q]]
<1>1. p \in Proc /\ p \notin Writer /\ data \in [Proc -> Seq(Byte)]
  BY PipeAssumption DEF TypeOK, Proc
<1>2. data'[p] = d /\ \A q \in Proc \ {p} : data'[q] = data[q]
  BY <1>1
<1> QED BY <1>1, <1>2 DEF Proc

LEMMA WriterData ==
    ASSUME TypeOK, NEW p \in Writer, NEW d, data' = [data EXCEPT ![p] = d]
    PROVE  /\ [q \in Writer |-> data'[q]] = [[q \in Writer |-> data[q]] EXCEPT ![p] = d]
           /\ [q \in Reader |-> data'[q]] = [q \in Reader |-> data[q]]
<1>1. p \in Proc /\ p \notin Reader /\ data \in [Proc -> Seq(Byte)]
  BY PipeAssumption DEF TypeOK, Proc
<1>2. data'[p] = d /\ \A q \in Proc \ {p} : data'[q] = data[q]
  BY <1>1
<1> QED BY <1>1, <1>2 DEF Proc

\* The copying loop of ring_buffer_read takes the oldest bytes off the stream, or
\* finds none.
LEMMA CopyOutSeen ==
    ASSUME PInv, PInv', NEW p \in Reader, CopyOut(p)
    PROVE  F!Next
<1> DEFINE d == [i \in 1..Least(unread, size[p]) |-> buf[Advance(rp, i - 1)]]
<1>k. PICK k : k = Least(unread, size[p])
  OBVIOUS
<1>0. TypeOK /\ TypeOK' /\ wp' = wp /\ buf' = buf /\ rp' = Advance(rp, k)
      /\ data' = [data EXCEPT ![p] = d]
  BY <1>k DEF PInv, CopyOut
<1>1. k \in 0..unread /\ k \in Nat /\ unread \in 0..(Size - 1) /\ Size \in Nat
  <2>1. size[p] \in Nat /\ unread \in Nat /\ unread \in 0..(Size - 1)
    BY UnreadPlusAvailable, SizeAssumption DEF PInv, TypeOK, unread
  <2> QED BY <1>k, <2>1, LeastOfTwo, SizeAssumption
<1>2. unread' = unread - k
  BY <1>0, <1>1, UnreadAfterRead DEF unread, TypeOK
<1>3. /\ Contents \in Seq(Byte) /\ Len(Contents) = unread
      /\ \A i \in 1..unread : Contents[i] = buf[Advance(rp, i - 1)]
  <2>1. rp \in Slot /\ wp \in Slot /\ buf \in [Slot -> Byte]
    BY <1>0 DEF TypeOK
  <2>2. Contents = [i \in 1..Unread(rp, wp) |-> buf[Advance(rp, i - 1)]]
    BY DEF Contents, unread
  <2> QED BY <2>1, <2>2, ContentsAre DEF unread
<1>4. /\ Contents' \in Seq(Byte) /\ Len(Contents') = unread - k
      /\ \A i \in 1..(unread - k) : Contents'[i] = buf[Advance(rp', i - 1)]
  <2>1. rp' \in Slot /\ wp' \in Slot /\ buf' \in [Slot -> Byte]
    BY <1>0 DEF TypeOK
  <2>2. Contents' = [i \in 1..Unread(rp', wp') |-> buf'[Advance(rp', i - 1)]]
    BY DEF Contents, unread
  <2>3. /\ Contents' \in Seq(Byte) /\ Len(Contents') = Unread(rp', wp')
        /\ \A i \in 1..Unread(rp', wp') : Contents'[i] = buf'[Advance(rp', i - 1)]
    BY <2>1, <2>2, ContentsAre
  <2> QED BY <1>0, <1>2, <2>3 DEF unread
<1>5. \A i \in 1..unread : Contents[i] \in Byte
  BY <1>3
<1>6. d = SubSeq(Contents, 1, k)
  <2>1. d = [i \in 1..k |-> buf[Advance(rp, i - 1)]]
    BY <1>k
  <2> HIDE DEF d
  <2>2. \A i \in 1..k : i \in 1..unread
    BY <1>1
  <2>3. d \in [1..k -> Byte]
    BY <1>3, <1>5, <2>1, <2>2
  <2>4. d \in Seq(Byte) /\ Len(d) = k
    BY <1>1, <2>3
  <2>5. /\ SubSeq(Contents, 1, k) \in Seq(Byte) /\ Len(SubSeq(Contents, 1, k)) = k
        /\ \A i \in 1..k : SubSeq(Contents, 1, k)[i] = Contents[i]
    BY <1>1, <1>3
  <2>6. \A i \in 1..k : d[i] = SubSeq(Contents, 1, k)[i]
    BY <1>3, <2>1, <2>2, <2>5
  <2> QED BY <2>4, <2>5, <2>6, SeqEqual
<1>7. Contents' = SubSeq(Contents, k + 1, Len(Contents))
  <2>1. /\ SubSeq(Contents, k + 1, unread) \in Seq(Byte)
        /\ Len(SubSeq(Contents, k + 1, unread)) = unread - k
        /\ \A i \in 1..(unread - k) : SubSeq(Contents, k + 1, unread)[i] = Contents[k + i]
    BY <1>1, <1>3
  <2>2. ASSUME NEW i \in 1..(unread - k) PROVE Contents'[i] = Contents[k + i]
    <3>1. i - 1 \in Nat /\ k + (i - 1) <= Size - 1 /\ k + i \in 1..unread /\ (k + i) - 1 = k + (i - 1)
      BY <1>1
    <3>2. Advance(Advance(rp, k), i - 1) = Advance(rp, k + (i - 1))
      BY <1>0, <1>1, <3>1, AdvanceAdds DEF TypeOK
    <3> QED BY <1>0, <1>3, <1>4, <3>1, <3>2
  <2> QED BY <1>3, <1>4, <2>1, <2>2, SeqEqual
<1>8. /\ [q \in Reader |-> data'[q]] = [[q \in Reader |-> data[q]] EXCEPT ![p] = d]
      /\ [q \in Writer |-> data'[q]] = [q \in Writer |-> data[q]]
  <2> HIDE DEF d
  <2> QED BY <1>0, ReaderData
<1> HIDE DEF d
<1>9. CASE k = 0
  <2>1. d = <<>> /\ Contents' = Contents
    BY <1>1, <1>3, <1>6, <1>7, <1>9
  <2>2. F!BeginRead(p)
    BY <1>8, <2>1 DEF F!BeginRead
  <2> QED BY <2>2 DEF F!Next
<1>10. CASE k # 0
  <2>1. k \in 1..(Size - 1) /\ k <= Len(Contents)
    BY <1>1, <1>3, <1>10
  <2>2. F!Take(p, k)
    BY <1>6, <1>7, <1>8, <2>1 DEF F!Take
  <2> QED BY <2>1, <2>2 DEF F!Next
<1> QED BY <1>9, <1>10

\* The copying loop of ring_buffer_write puts the next bytes of the call at the end of
\* the stream, and never over a byte that has not been read.
LEMMA CopyInSeen ==
    ASSUME PInv, PInv', NEW p \in Writer, CopyIn(p)
    PROVE  F!Next \/ UNCHANGED F!cvars
<1>k. PICK k : k = Least(available, Len(data[p]))
  OBVIOUS
<1>d. PICK d : d = data[p]
  OBVIOUS
<1>0. /\ TypeOK /\ TypeOK' /\ rp' = rp /\ wp' = Advance(wp, k)
      /\ data' = [data EXCEPT ![p] = SubSeq(d, k + 1, Len(d))]
      /\ buf' = [i \in Slot |-> IF \E j \in 1..k : i = Advance(wp, j - 1)
                                THEN d[CHOOSE j \in 1..k : i = Advance(wp, j - 1)]
                                ELSE buf[i]]
  BY <1>k, <1>d DEF PInv, CopyIn
<1>1. /\ k \in Nat /\ k <= available /\ k <= Len(d) /\ d \in Seq(Byte) /\ Len(d) \in Nat
      /\ unread \in Nat /\ available \in Nat /\ unread + available = Size - 1 /\ Size \in Nat
      /\ rp \in Slot /\ wp \in Slot
  <2>1. /\ d \in Seq(Byte) /\ Len(d) \in Nat /\ unread \in Nat /\ available \in Nat
        /\ unread + available = Size - 1 /\ Size \in Nat /\ rp \in Slot /\ wp \in Slot
    <3>1. rp \in Slot /\ wp \in Slot /\ d \in Seq(Byte)
      BY <1>0, <1>d DEF TypeOK, Proc
    <3>2. /\ unread \in 0..(Size - 1) /\ available \in 0..(Size - 1)
          /\ unread + available = Size - 1
      BY <3>1, UnreadPlusAvailable DEF unread, available
    <3>3. Len(d) \in Nat
      BY <3>1
    <3> QED BY <3>1, <3>2, <3>3, SizeAssumption
  <2>2. k = Least(available, Len(d))
    BY <1>k, <1>d
  <2>3. k \in 0..available /\ k \in 0..Len(d)
    BY <2>1, <2>2, LeastOfTwo
  <2> QED BY <2>1, <2>3
<1>2. unread' = unread + k
  BY <1>0, <1>1, UnreadAfterWrite DEF unread, available
<1>3. /\ Contents \in Seq(Byte) /\ Len(Contents) = unread
      /\ \A i \in 1..unread : Contents[i] = buf[Advance(rp, i - 1)]
  <2>1. rp \in Slot /\ wp \in Slot /\ buf \in [Slot -> Byte]
    BY <1>0 DEF TypeOK
  <2>2. Contents = [i \in 1..Unread(rp, wp) |-> buf[Advance(rp, i - 1)]]
    BY DEF Contents, unread
  <2> QED BY <2>1, <2>2, ContentsAre DEF unread
<1>4. /\ Contents' \in Seq(Byte) /\ Len(Contents') = unread + k
      /\ \A i \in 1..(unread + k) : Contents'[i] = buf'[Advance(rp, i - 1)]
  <2>1. rp' \in Slot /\ wp' \in Slot /\ buf' \in [Slot -> Byte]
    BY <1>0 DEF TypeOK
  <2>2. Contents' = [i \in 1..Unread(rp', wp') |-> buf'[Advance(rp', i - 1)]]
    BY DEF Contents, unread
  <2>3. /\ Contents' \in Seq(Byte) /\ Len(Contents') = Unread(rp', wp')
        /\ \A i \in 1..Unread(rp', wp') : Contents'[i] = buf'[Advance(rp', i - 1)]
    BY <2>1, <2>2, ContentsAre
  <2> QED BY <1>0, <1>2, <2>3 DEF unread
<1>5. wp = Advance(rp, unread)
  BY <1>1, AdvanceToWrite DEF unread
<1>6. ASSUME NEW j \in 1..k PROVE Advance(wp, j - 1) = Advance(rp, unread + (j - 1))
  <2>1. j - 1 \in Nat /\ unread + (j - 1) <= Size - 1
    BY <1>1
  <2> QED BY <1>1, <1>5, <2>1, AdvanceAdds
<1>7. ASSUME NEW i \in 1..unread PROVE Contents'[i] = Contents[i]
  <2>1. i \in 1..(unread + k) /\ i - 1 \in 0..(Size - 1)
    BY <1>1
  <2>2. Advance(rp, i - 1) \in Slot
    BY <1>1, <2>1, AdvanceAdds
  <2>3. ASSUME NEW j \in 1..k, Advance(rp, i - 1) = Advance(wp, j - 1) PROVE FALSE
    <3>1. unread + (j - 1) \in 0..(Size - 1) /\ unread + (j - 1) # i - 1
      BY <1>1
    <3>2. Advance(rp, i - 1) = Advance(rp, unread + (j - 1))
      BY <1>6, <2>3
    <3> QED BY <1>1, <2>1, <3>1, <3>2, AdvanceApart
  <2>4. buf'[Advance(rp, i - 1)] = buf[Advance(rp, i - 1)]
    BY <1>0, <2>2, <2>3
  <2> QED BY <1>3, <1>4, <2>1, <2>4
<1>8. ASSUME NEW i \in 1..k PROVE Contents'[unread + i] = d[i]
  <2>1. unread + i \in 1..(unread + k) /\ (unread + i) - 1 = unread + (i - 1)
        /\ unread + (i - 1) \in 0..(Size - 1)
    BY <1>1
  <2>2. PICK a : a = Advance(rp, unread + (i - 1))
    OBVIOUS
  <2>3. a \in Slot /\ a = Advance(wp, i - 1)
    BY <1>1, <1>6, <2>1, <2>2, AdvanceAdds
  <2>4. ASSUME NEW j \in 1..k, a = Advance(wp, j - 1) PROVE j = i
    <3>1. unread + (j - 1) \in 0..(Size - 1)
      BY <1>1
    <3>2. Advance(rp, unread + (i - 1)) = Advance(rp, unread + (j - 1))
      BY <1>6, <2>2, <2>4
    <3>3. unread + (i - 1) = unread + (j - 1)
      BY <1>1, <2>1, <3>1, <3>2, AdvanceApart
    <3> QED BY <1>1, <3>3
  <2>5. (CHOOSE j \in 1..k : a = Advance(wp, j - 1)) = i
    BY <2>3, <2>4
  <2>6. buf'[a] = d[i]
    BY <1>0, <2>3, <2>5
  <2> QED BY <1>4, <2>1, <2>2, <2>6
<1>9. Contents' = Contents \o SubSeq(d, 1, k)
  <2>1. /\ SubSeq(d, 1, k) \in Seq(Byte) /\ Len(SubSeq(d, 1, k)) = k
        /\ \A i \in 1..k : SubSeq(d, 1, k)[i] = d[i]
    BY <1>1
  <2>2. PICK t : t = SubSeq(d, 1, k)
    OBVIOUS
  <2>3. /\ Contents \o t \in Seq(Byte) /\ Len(Contents \o t) = unread + k
        /\ \A i \in 1..(unread + k) : (Contents \o t)[i] = IF i <= unread THEN Contents[i] ELSE t[i - unread]
    BY <1>3, <2>1, <2>2, ConcatProperties
  <2>4. ASSUME NEW i \in 1..(unread + k) PROVE Contents'[i] = (Contents \o t)[i]
    <3>1. CASE i <= unread
      <4>1. i \in 1..unread
        BY <1>1, <3>1
      <4> QED BY <1>7, <2>3, <3>1, <4>1
    <3>2. CASE ~(i <= unread)
      <4>1. i - unread \in 1..k /\ unread + (i - unread) = i
        BY <1>1, <3>2
      <4>2. Contents'[i] = d[i - unread] /\ t[i - unread] = d[i - unread]
        BY <1>8, <2>1, <2>2, <4>1
      <4> QED BY <2>3, <3>2, <4>2
    <3> QED BY <3>1, <3>2
  <2>5. Contents' = Contents \o t
    BY <1>4, <2>3, <2>4, SeqEqual
  <2> QED BY <2>2, <2>5
<1>10. /\ [q \in Writer |-> data'[q]] = [[q \in Writer |-> data[q]] EXCEPT ![p] = SubSeq(d, k + 1, Len(d))]
       /\ [q \in Reader |-> data'[q]] = [q \in Reader |-> data[q]]
  BY <1>0, WriterData
<1>11. CASE k = 0
  <2>1. SubSeq(d, 1, Len(d)) = d /\ SubSeq(d, 1, 0) = <<>>
    BY <1>1
  <2>2. Contents' = Contents
    BY <1>3, <1>9, <1>11, <2>1, ConcatEmptySeq
  <2>3. [q \in Writer |-> data'[q]] = [q \in Writer |-> data[q]]
    <3>1. [q \in Writer |-> data'[q]] = [[q \in Writer |-> data[q]] EXCEPT ![p] = data[p]]
      <4>1. SubSeq(d, k + 1, Len(d)) = data[p]
        BY <1>d, <1>11, <2>1
      <4> QED BY <1>10, <4>1, Zenon
    <3> DEFINE left == [q \in Writer |-> data[q]]
    <3>2. left[p] = data[p] /\ left \in [Writer -> {data[q] : q \in Writer}]
      OBVIOUS
    <3>3. [left EXCEPT ![p] = data[p]] = left
      <4> HIDE DEF left
      <4> QED BY <3>2
    <3> QED BY <3>1, <3>3
  <2> QED BY <1>10, <2>2, <2>3 DEF F!cvars
<1>12. CASE k # 0
  <2>1. k \in 1..(Size - 1) /\ k <= Len(d) /\ Len(Contents) + k <= Size - 1
    BY <1>1, <1>3, <1>12
  <2>2. [q \in Writer |-> data[q]][p] = d
    BY <1>d
  <2>3. F!Put(p, k)
    BY <1>9, <1>10, <2>1, <2>2 DEF F!Put
  <2> QED BY <2>1, <2>3 DEF F!Next
<1> QED BY <1>11, <1>12

\* A call of read() or write() ends.
LEMMA EndSeen ==
    ASSUME PInv, NEW p \in Proc, data' = [data EXCEPT ![p] = <<>>], UNCHANGED <<rp, wp, buf>>
    PROVE  F!Next
<1>1. TypeOK /\ Contents' = Contents
  BY DEF PInv, Contents, unread
<1>2. CASE p \in Reader
  <2>1. F!BeginRead(p)
    BY <1>1, <1>2, ReaderData DEF F!BeginRead
  <2> QED BY <1>2, <2>1 DEF F!Next
<1>3. CASE p \in Writer
  <2>1. F!GiveUpWrite(p)
    BY <1>1, <1>3, WriterData DEF F!GiveUpWrite
  <2> QED BY <1>3, <2>1 DEF F!Next
<1> QED BY <1>2, <1>3 DEF Proc

\* write() begins with its bytes, or fails.
LEMMA WriteSeen ==
    ASSUME PInv, IdleWriters, NEW p \in Writer, NEW msg \in Messages, Write(p, msg)
    PROVE  F!Next \/ UNCHANGED F!cvars
<1>1. pc[p] = "user" /\ UNCHANGED <<rp, wp, buf>> /\ data[p] = <<>>
  BY DEF Write, ring, IdleWriters
<1>2. TypeOK /\ Contents' = Contents
  BY <1>1 DEF PInv, Contents, unread
<1>3. CASE data' = data
  BY <1>1, <1>3, QuietSeen
<1>4. CASE data' = [data EXCEPT ![p] = msg]
  <2>1. F!BeginWrite(p, msg)
    BY <1>1, <1>2, <1>4, WriterData DEF F!BeginWrite
  <2> QED BY <2>1 DEF F!Next
<1> QED BY <1>3, <1>4 DEF Write

\* Only the copying loops and the ends of a call change the stream's state.
LEMMA NextChannel == PInv /\ PInv' /\ IdleWriters /\ [Next]_vars => [F!Next]_(F!cvars)
<1> SUFFICES ASSUME PInv, PInv', IdleWriters, [Next]_vars PROVE F!Next \/ UNCHANGED F!cvars
  OBVIOUS
<1>1. CASE UNCHANGED vars
  BY <1>1, QuietSeen DEF vars
<1>2. ASSUME NEW p \in Proc, Call(p) PROVE F!Next \/ UNCHANGED F!cvars
  <2>1. CASE (p \in Reader /\ (Poll(p) \/ \E n \in ReadSizes : Read(p, n))) \/ Close(p)
    <3>1. UNCHANGED <<rp, wp, buf, data>>
      BY <2>1 DEF Poll, Read, Close, ring, call
    <3> QED BY <3>1, QuietSeen
  <2> QED BY <1>2, <2>1, WriteSeen DEF Call
<1>3. ASSUME NEW p \in Proc, Kernel(p) PROVE F!Next \/ UNCHANGED F!cvars
  <2>1. CASE CopyOut(p)
    <3>1. p \in Reader
      BY <2>1 DEF PInv, Kinds, WritePcs, ClosePcs, CopyOut, Proc
    <3> QED BY <2>1, <3>1, CopyOutSeen
  <2>2. CASE CopyIn(p)
    <3>1. p \in Writer
      BY <2>2 DEF PInv, Kinds, ReadPcs, PollPcs, ClosePcs, CopyIn, Proc
    <3> QED BY <2>2, <3>1, CopyInSeen
  <2>3. CASE EndRead(p) \/ EndWrite(p)
    BY <2>3, EndSeen DEF EndRead, EndWrite, ring
  <2>4. CASE \/ WakeWriters(p) \/ JoinReaders(p) \/ DropRead(p) \/ StopRead(p)
             \/ WakeReaders(p) \/ JoinWriters(p) \/ DropWrite(p) \/ StopWrite(p)
             \/ JoinAlerts(p) \/ RaiseStop(p) \/ InterruptReaders(p) \/ InterruptWriters(p)
             \/ AlertOnClose(p)
    <3>1. UNCHANGED <<rp, wp, buf, data>>
      BY <2>4 DEF WakeWriters, JoinReaders, DropRead, StopRead, WakeReaders, JoinWriters,
                  DropWrite, StopWrite, JoinAlerts, RaiseStop, InterruptReaders,
                  InterruptWriters, AlertOnClose, ring, call
    <3> QED BY <3>1, QuietSeen
  <2> QED BY <1>3, <2>1, <2>2, <2>3, <2>4 DEF Kernel
<1>4. ASSUME NEW p \in Proc, Resume(p) \/ Signal(p) PROVE F!Next \/ UNCHANGED F!cvars
  <2>1. UNCHANGED <<rp, wp, buf, data>>
    BY <1>4 DEF Resume, ResumeRead, ResumeWrite, ResumePoll, Signal, ring, call
  <2> QED BY <2>1, QuietSeen
<1> QED BY <1>1, <1>2, <1>3, <1>4 DEF Next

LEMMA NextIdle == PInv /\ IdleWriters /\ [Next]_vars => IdleWriters'
<1> SUFFICES ASSUME PInv, IdleWriters, [Next]_vars, NEW q \in Writer, pc'[q] = "user"
             PROVE  data'[q] = <<>>
  BY DEF IdleWriters
<1>t. /\ pc \in [Proc -> PcVals] /\ data \in [Proc -> Seq(Byte)] /\ q \in Proc
      /\ pc[q] = "user" => data[q] = <<>>
  BY DEF PInv, TypeOK, Proc, IdleWriters
<1>k. pc[q] \in WritePcs \cup ClosePcs \cup {"user", "gone"}
  BY DEF PInv, Kinds
<1>1. CASE UNCHANGED vars
  BY <1>t, <1>1 DEF vars
<1>2. ASSUME NEW p \in Proc, Call(p) PROVE data'[q] = <<>>
  <2>1. CASE p \in Reader /\ (Poll(p) \/ \E n \in ReadSizes : Read(p, n))
    <3>1. data' = data /\ pc' \in {[pc EXCEPT ![p] = "user"], [pc EXCEPT ![p] = "pjoin"], [pc EXCEPT ![p] = "rlock"]}
      BY <2>1 DEF Poll, Read, Goto, Return
    <3>2. p # q
      BY <2>1, PipeAssumption
    <3> QED BY <1>t, <3>1, <3>2
  <2>2. CASE Close(p)
    BY <1>t, <2>2 DEF Close, Goto, call
  <2>3. ASSUME p \in Writer, NEW msg \in Messages, Write(p, msg) PROVE data'[q] = <<>>
    <3>1. CASE p = q
      BY <1>t, <2>3, <3>1 DEF Write, Goto
    <3>2. CASE p # q
      BY <1>t, <2>3, <3>2 DEF Write, Goto, Return
    <3> QED BY <3>1, <3>2
  <2> QED BY <1>2, <2>1, <2>2, <2>3 DEF Call
<1>3. ASSUME NEW p \in Proc, EndRead(p) \/ EndWrite(p) PROVE data'[q] = <<>>
  BY <1>t, <1>3 DEF EndRead, EndWrite, Goto, Return
<1>4. ASSUME NEW p \in Proc, CopyOut(p) \/ CopyIn(p) PROVE data'[q] = <<>>
  <2>1. p # q
    BY <1>t, <1>4 DEF CopyOut, CopyIn, Goto
  <2>2. data'[q] = data[q] /\ pc'[q] = pc[q]
    BY <1>t, <1>4, <2>1 DEF CopyOut, CopyIn, Goto
  <2> QED BY <1>t, <2>2
<1>5. ASSUME NEW p \in Proc,
             \/ WakeWriters(p) \/ JoinReaders(p) \/ DropRead(p) \/ StopRead(p)
             \/ WakeReaders(p) \/ JoinWriters(p) \/ DropWrite(p) \/ StopWrite(p)
             \/ JoinAlerts(p) \/ RaiseStop(p) \/ InterruptReaders(p) \/ InterruptWriters(p)
             \/ AlertOnClose(p) \/ ResumeRead(p) \/ ResumeWrite(p)
      PROVE  data'[q] = <<>>
  <2>1. data' = data /\ \E where \in PcVals \ {"user"} : pc' = [pc EXCEPT ![p] = where]
    BY <1>5 DEF WakeWriters, JoinReaders, DropRead, StopRead, WakeReaders, JoinWriters,
                DropWrite, StopWrite, JoinAlerts, RaiseStop, InterruptReaders, InterruptWriters,
                AlertOnClose, ResumeRead, ResumeWrite, Goto, call, PcVals, ReadPcs, WritePcs,
                PollPcs, ClosePcs
  <2> QED BY <1>t, <2>1
<1>6. ASSUME NEW p \in Proc, ResumePoll(p) PROVE data'[q] = <<>>
  <2>1. p # q
    BY <1>k, <1>6 DEF ResumePoll, WritePcs, ClosePcs
  <2> QED BY <1>t, <1>6, <2>1 DEF ResumePoll, Return, Goto
<1>7. ASSUME NEW p \in Proc, Signal(p) PROVE data'[q] = <<>>
  BY <1>t, <1>7 DEF Signal, call
<1> QED BY <1>1, <1>2, <1>3, <1>4, <1>5, <1>6, <1>7 DEF Next, Kernel, Resume

\* The pipe implements a bounded byte stream: bytes come out once, in the order in which
\* they went in, for every size of the ring and wherever its pointers wrap.
THEOREM PipeIsChannel == Spec => ImplementsChannel
<1>1. Init => F!Init /\ IdleWriters
  <2> SUFFICES ASSUME Init PROVE F!Init /\ IdleWriters
    OBVIOUS
  <2>1. IdleWriters
    BY DEF Init, IdleWriters, Proc
  <2>2. Contents = <<>>
    BY SizeAssumption DEF Init, Contents, unread, Unread
  <2>3. /\ [p \in Reader |-> data[p]] = [p \in Reader |-> <<>>]
        /\ [p \in Writer |-> data[p]] = [p \in Writer |-> <<>>]
    BY DEF Init, Proc
  <2> QED BY <2>1, <2>2, <2>3 DEF F!Init
<1>2. Spec => F!Init /\ [][F!Next]_(F!cvars)
  BY <1>1, NextChannel, NextIdle, PipeInvariance, PTL DEF Spec
<1> QED BY <1>2 DEF ImplementsChannel, F!Spec
=============================================================================
