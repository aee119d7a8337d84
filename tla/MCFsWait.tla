------------------------------ MODULE MCFsWait ------------------------------
(* Two processes wait for two nodes, on one processor or on two. *)
EXTENDS FsWait, TLC

CONSTANTS p1, p2, n1, n2, n3

MCPolls == {<<n1, n2>>, <<n3>>}
=============================================================================
