----------------------------- MODULE MCUnixPipe -----------------------------
(* A pipe with room for two bytes, and writes that fit and that do not. *)
EXTENDS UnixPipe

CONSTANTS r1, r2, w1, w2

MCMessages == {<<0>>, <<0, 1, 1>>}

\* Also a write of nothing.
MCAllMessages == {<<>>} \cup MCMessages

\* The same sizes, for runs in which the values do not matter.
MCLengths == {<<>>, <<0>>, <<0, 0, 0>>}
=============================================================================
