------------------------------ MODULE MCYutani ------------------------------
(* Two clients that are alike, two windows, and a resize. *)
EXTENDS Yutani, TLC

CONSTANTS c1, c2

MCSymmetry == Permutations(Client)
=============================================================================
