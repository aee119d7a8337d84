---------------------------- MODULE MCScheduler ----------------------------
(* Two cores share three process slots and one wait queue. *)
EXTENDS Scheduler, TLC

CONSTANTS c1, c2, p1, p2, p3, q1

\* Neither the boot core nor init may be permuted.
MCSymmetry == Permutations({p2, p3})
=============================================================================
