---------------------------- MODULE AbstractLock ----------------------------
(* What a mutex promises: one holder at a time, given to a process that asked. *)
CONSTANTS Proc, None

VARIABLES
    holder,  \* the process that has the lock, or None
    wants    \* the processes that have asked for it

lvars == <<holder, wants>>

Init == holder = None /\ wants = {}

Ask(p) ==
    /\ p \notin wants
    /\ holder # p
    /\ wants' = wants \cup {p}
    /\ UNCHANGED holder

Grant(p) ==
    /\ holder = None
    /\ p \in wants
    /\ holder' = p
    /\ wants' = wants \ {p}

Release ==
    /\ holder # None
    /\ holder' = None
    /\ UNCHANGED wants

\* A process that is killed while it waits no longer asks.
GiveUp(p) ==
    /\ p \in wants
    /\ wants' = wants \ {p}
    /\ UNCHANGED holder

Next ==
    \/ \E p \in Proc : Ask(p) \/ Grant(p) \/ GiveUp(p)
    \/ Release

Spec == Init /\ [][Next]_lvars
=============================================================================
