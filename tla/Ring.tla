-------------------------------- MODULE Ring --------------------------------
(***************************************************************************)
(* The pointer arithmetic of kernel/misc/ringbuffer.c.  A ring of Size      *)
(* slots holds at most Size - 1 bytes: equal pointers mean empty.           *)
(***************************************************************************)
EXTENDS Integers

CONSTANT Size   \* ring_buffer->size

ASSUME SizeAssumption == Size \in Nat /\ Size >= 2

Slot == 0..(Size - 1)

\* ring_buffer_unread
Unread(rp, wp) ==
    IF rp = wp THEN 0
    ELSE IF rp > wp THEN (Size - rp) + wp
    ELSE wp - rp

\* Mutant: the slot that tells full from empty is given away.
MutFillsLastSlot(rp, wp) ==
    IF rp = wp THEN Size
    ELSE IF rp > wp THEN rp - wp
    ELSE (Size - wp) + rp

\* ring_buffer_available
Available(rp, wp) ==
    IF rp = wp THEN Size - 1
    ELSE IF rp > wp THEN rp - wp - 1
    ELSE (Size - wp) + rp - 1

\* ring_buffer_increment_read and ring_buffer_increment_write
Increment(ptr) == IF ptr + 1 = Size THEN 0 ELSE ptr + 1

\* What a copying loop moves: what there is, but no more than was asked for.
Least(m, n) == IF m < n THEN m ELSE n

\* Mutant: the pointers do not wrap.
MutNoWrap(ptr, k) == ptr + k

\* The slot that k increments lead to, for k <= Size.
Advance(ptr, k) == IF ptr + k >= Size THEN ptr + k - Size ELSE ptr + k
=============================================================================
