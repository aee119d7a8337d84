---------------------------- MODULE MCSleepMutex ----------------------------
(* Three processes share one mutex. *)
EXTENDS SleepMutex, TLC

CONSTANTS p1, p2, p3
=============================================================================
