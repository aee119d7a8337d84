------------------------------ MODULE Machine ------------------------------
(***************************************************************************)
(* What the scheduler promises: a multiprocessor on which every process is  *)
(* in exactly one state, a core executes at most one process, and a process *)
(* is dispatched to a core only when it is ready and no other core is still *)
(* on its kernel stack.                                                     *)
(***************************************************************************)
CONSTANTS Core, Boot, Proc, InitProc, Idle

VARIABLES
    st,   \* "free", "ready", "exec", "asleep" or "dead", for each process
    on    \* the task whose kernel stack each core is on

mvars == <<st, on>>

Init ==
    /\ st = [p \in Proc |-> IF p = InitProc THEN "exec" ELSE "free"]
    /\ on = [c \in Core |-> IF c = Boot THEN InitProc ELSE Idle]

\* The process on core c, still executing, moves to another state.  The core
\* is on its stack until the next dispatch.
Leave(c, to) ==
    /\ on[c] \in Proc
    /\ st[on[c]] = "exec"
    /\ st' = [st EXCEPT ![on[c]] = to]
    /\ UNCHANGED on

Yield(c) == Leave(c, "ready")
Block(c) == Leave(c, "asleep")
Die(c)   == Leave(c, "dead")

\* Core c leaves the stack it is on for a ready process that no other core is
\* on, or for its idle task.
Dispatch(c, p) ==
    /\ on[c] \in Proc => st[on[c]] # "exec"
    /\ st[p] = "ready"
    /\ \A d \in Core \ {c} : on[d] # p
    /\ st' = [st EXCEPT ![p] = "exec"]
    /\ on' = [on EXCEPT ![c] = p]

GoIdle(c) ==
    /\ on[c] \in Proc => st[on[c]] # "exec"
    /\ on' = [on EXCEPT ![c] = Idle]
    /\ UNCHANGED st

Wake(p) ==
    /\ st[p] = "asleep"
    /\ st' = [st EXCEPT ![p] = "ready"]
    /\ UNCHANGED on

Spawn(p) ==
    /\ st[p] = "free"
    /\ \E c \in Core : on[c] \in Proc /\ st[on[c]] = "exec"
    /\ st' = [st EXCEPT ![p] = "ready"]
    /\ UNCHANGED on

\* Dead processes are freed, possibly several at once, when no core is on them.
Free(ps) ==
    /\ ps # {}
    /\ \A p \in ps : st[p] = "dead" /\ \A c \in Core : on[c] # p
    /\ st' = [p \in Proc |-> IF p \in ps THEN "free" ELSE st[p]]
    /\ UNCHANGED on

Next ==
    \/ \E c \in Core : Yield(c) \/ Block(c) \/ Die(c) \/ GoIdle(c)
    \/ \E c \in Core, p \in Proc : Dispatch(c, p)
    \/ \E p \in Proc : Wake(p) \/ Spawn(p)
    \/ \E ps \in SUBSET Proc : Free(ps)

Spec == Init /\ [][Next]_mvars
=============================================================================
