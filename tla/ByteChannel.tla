---------------------------- MODULE ByteChannel ----------------------------
(* A bounded byte stream between writers and readers. *)
EXTENDS Naturals, Sequences

CONSTANTS Reader, Writer, Byte, Capacity, Messages

VARIABLES
    chan,   \* the bytes in the stream, oldest first
    taken,  \* the bytes each reader has taken in its current call
    left    \* the bytes each writer still has to put

cvars == <<chan, taken, left>>

Init ==
    /\ chan = <<>>
    /\ taken = [p \in Reader |-> <<>>]
    /\ left = [p \in Writer |-> <<>>]

Take(p, k) ==
    /\ k <= Len(chan)
    /\ taken' = [taken EXCEPT ![p] = SubSeq(chan, 1, k)]
    /\ chan' = SubSeq(chan, k + 1, Len(chan))
    /\ UNCHANGED left

Put(p, k) ==
    /\ k <= Len(left[p])
    /\ Len(chan) + k <= Capacity
    /\ chan' = chan \o SubSeq(left[p], 1, k)
    /\ left' = [left EXCEPT ![p] = SubSeq(@, k + 1, Len(@))]
    /\ UNCHANGED taken

\* A new call, or the end of one.
BeginRead(p) ==
    /\ taken' = [taken EXCEPT ![p] = <<>>]
    /\ UNCHANGED <<chan, left>>

BeginWrite(p, msg) ==
    /\ left[p] = <<>>
    /\ left' = [left EXCEPT ![p] = msg]
    /\ UNCHANGED <<chan, taken>>

GiveUpWrite(p) ==
    /\ left' = [left EXCEPT ![p] = <<>>]
    /\ UNCHANGED <<chan, taken>>

Next ==
    \/ \E p \in Reader : BeginRead(p) \/ \E k \in 1..Capacity : Take(p, k)
    \/ \E p \in Writer : \/ \E k \in 1..Capacity : Put(p, k)
                         \/ \E msg \in Messages : BeginWrite(p, msg)
                         \/ GiveUpWrite(p)

Spec == Init /\ [][Next]_cvars
=============================================================================
