---------------------------- MODULE MCLifecycle ----------------------------
(* init and its descendants, two of which catch SIGCHLD. *)
EXTENDS Lifecycle, TLC

MCWaits == {[who |-> None, stopped |-> FALSE, hang |-> TRUE],
            [who |-> 2, stopped |-> TRUE, hang |-> TRUE],
            [who |-> None, stopped |-> TRUE, hang |-> FALSE]}
=============================================================================
