------------------------------- MODULE MCTcp -------------------------------
(* A stream of three bytes. *)
EXTENDS Tcp, TLC

MCStream == <<1, 2, 3>>
=============================================================================
