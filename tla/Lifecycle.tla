----------------------------- MODULE Lifecycle -----------------------------
(***************************************************************************)
(* The process tree (kernel/sys/process.c, sys/signal.c): fork, exit,       *)
(* waitpid, the reparenting of orphans to init, and stop, continue and      *)
(* fatal signals.                                                           *)
(*                                                                          *)
(* A step is what happens under one lock, or between two changes that       *)
(* another core can see.  waitpid scans and goes to sleep under its own     *)
(* wait_lock, which an exiting child takes before it wakes its parent; a    *)
(* stopping child and process_delete wake without it.                       *)
(*                                                                          *)
(* The number of processors is fixed at boot.  A process can signal itself  *)
(* on any number of them, and others only on one: on more, send_signal can  *)
(* make a process ready that is running.  What a signal handler does is     *)
(* left out.                                                                *)
(***************************************************************************)
EXTENDS Naturals, Sequences, FiniteSets

CONSTANTS
    MaxPid,         \* the bound on process identifiers
    Waits,          \* the arguments processes give to waitpid
    CatchesChld,    \* processes with a handler for SIGCHLD
    Targets,        \* processes that are stopped and killed
    MaxPending,     \* bound on signal_queue
    CoreCounts,     \* processor_count, one of these
    None

Proc == 0..MaxPid
init == 0

ASSUME LifecycleAssumption ==
    /\ MaxPid \in Nat \ {0} /\ None \notin 0..MaxPid
    /\ Waits \subseteq [who : Proc \cup {None}, stopped : BOOLEAN, hang : BOOLEAN]
    /\ CatchesChld \subseteq Proc
    /\ Targets \subseteq Proc \ {init}
    /\ MaxPending \in Nat \ {0}
    /\ CoreCounts \subseteq Nat \ {0}

VARIABLES
    cores,      \* processor_count
    pc,
    parent,     \* process_tree
    waker,      \* the parent task_exit found
    want,       \* arguments of waitpid, or None
    found,      \* the finished child that waitpid has chosen
    queued,     \* processes that are in their own wait_queue
    intr,       \* PROC_FLAG_SLEEP_INT, while in waitpid
    suspended,  \* PROC_FLAG_SUSPENDED
    woken,      \* stopped processes that are in the ready queue
    sigs        \* signal_queue

vars == <<cores, pc, parent, waker, want, found, queued, intr, suspended, woken, sigs>>
tree == <<cores, parent>>
waits == <<want, found, queued, intr>>

\* "link": waitpid holds wait_lock and is about to sleep; "exit": task_exit,
\* before FINISHED; "finished": FINISHED, parent not yet woken; "stop":
\* SUSPENDED, parent not yet woken; "gone": deleted.
PcVals == {"unborn", "user", "scan", "link", "asleep", "delete",
           "stop", "stopped", "exit", "finished", "zombie", "gone"}

Finished == {p \in Proc : pc[p] \in {"finished", "zombie"}}
InKernel == {p \in Proc : pc[p] \in {"scan", "link", "delete", "stop", "exit", "finished"}}
CoreFree == Cardinality(InKernel) < cores

\* A process runs in user mode when its pending signals have been handled.
InUser(p) == pc[p] = "user" /\ sigs[p] = <<>> /\ CoreFree

Init ==
    /\ cores \in CoreCounts
    /\ pc = [p \in Proc |-> IF p = init THEN "user" ELSE "unborn"]
    /\ parent = [p \in Proc |-> None]
    /\ waker = [p \in Proc |-> None]
    /\ want = [p \in Proc |-> None]
    /\ found = [p \in Proc |-> None]
    /\ queued = {} /\ intr = {} /\ suspended = {} /\ woken = {}
    /\ sigs = [p \in Proc |-> <<>>]

Goto(p, where) == pc' = [pc EXCEPT ![p] = where]

\* fork, clone: get_next_pid counts up, and the child is one of the caller's.
Fork(p, c) ==
    /\ InUser(p)
    /\ pc[c] = "unborn" /\ pc[c - 1] # "unborn"
    /\ Goto(c, "user")
    /\ parent' = [parent EXCEPT ![c] = p]
    /\ UNCHANGED <<cores, waker, waits, suspended, woken, sigs>>

----------------------------------------------------------------------------
(* waitpid *)

WaitPid(p, args) ==
    /\ InUser(p)
    /\ want' = [want EXCEPT ![p] = args]
    /\ Goto(p, "scan")
    /\ UNCHANGED <<tree, waker, found, queued, intr, suspended, woken, sigs>>

Children(p) == {c \in Proc : parent[c] = p /\ pc[c] # "gone"}

Matching(p) == {c \in Children(p) : want[p].who \in {None, c}}

Candidates(p) ==
    {c \in Matching(p) : c \in Finished \/ (want[p].stopped /\ c \in suspended)}

Return(p) ==
    /\ Goto(p, "user")
    /\ want' = [want EXCEPT ![p] = None]
    /\ intr' = intr \ {p}

\* Under wait_lock: there is nothing to wait for; there is a child to report;
\* the caller does not want to wait; or it goes to sleep.
Scan(p) ==
    /\ pc[p] = "scan"
    /\ \/ /\ Candidates(p) = {}
          /\ IF Matching(p) = {} \/ ~want[p].hang THEN Return(p)
             ELSE Goto(p, "link") /\ UNCHANGED <<want, intr>>
          /\ UNCHANGED found
       \/ \E c \in Candidates(p) :
             IF c \in Finished
             THEN /\ found' = [found EXCEPT ![p] = c]
                  /\ Goto(p, "delete")
                  /\ UNCHANGED <<want, intr>>
             ELSE Return(p) /\ UNCHANGED found
    /\ UNCHANGED <<tree, waker, queued, suspended, woken, sigs>>

\* sleep_on_unlocking
Link(p) ==
    /\ pc[p] = "link"
    /\ queued' = queued \cup {p}
    /\ intr' = intr \ {p}
    /\ Goto(p, "asleep")
    /\ UNCHANGED <<tree, waker, want, found, suspended, woken, sigs>>

\* Mutant: orphans are moved to init, but init is not told.
MutQuietReparent(p) ==
    LET c == found[p] IN
    /\ pc[p] = "delete" /\ pc[c] = "zombie"
    /\ parent' = [o \in Proc |-> IF parent[o] = c THEN init ELSE parent[o]]
    /\ pc' = [pc EXCEPT ![p] = "user", ![c] = "gone"]
    /\ found' = [found EXCEPT ![p] = None]
    /\ want' = [want EXCEPT ![p] = None]
    /\ suspended' = suspended \ {c}
    /\ UNCHANGED <<cores, waker, queued, intr, woken, sigs>>

\* The child has left its stack: process_delete moves its children to init, and
\* wakes init if there are any.
Delete(p) ==
    LET c == found[p] IN
    /\ pc[p] = "delete" /\ pc[c] = "zombie"
    /\ parent' = [o \in Proc |-> IF parent[o] = c THEN init ELSE parent[o]]
    /\ queued' = IF Children(c) # {} THEN queued \ {init} ELSE queued
    /\ pc' = [pc EXCEPT ![p] = "user", ![c] = "gone"]
    /\ found' = [found EXCEPT ![p] = None]
    /\ want' = [want EXCEPT ![p] = None]
    /\ suspended' = suspended \ {c}
    /\ UNCHANGED <<cores, waker, intr, woken, sigs>>

----------------------------------------------------------------------------
(* exit *)

\* task_exit, up to process_get_parent.
BeginExit(p) ==
    /\ Goto(p, "exit")
    /\ intr' = intr \ {p}
    /\ waker' = [waker EXCEPT ![p] = parent[p]]
    /\ want' = [want EXCEPT ![p] = None]

Exit(p) ==
    /\ InUser(p) /\ p # init
    /\ BeginExit(p)
    /\ UNCHANGED <<tree, found, queued, suspended, woken, sigs>>

SetFinished(p) ==
    /\ pc[p] = "exit"
    /\ sigs' = [sigs EXCEPT ![p] = <<>>]
    /\ Goto(p, "finished")
    /\ woken' = woken \ {p}
    /\ UNCHANGED <<tree, waker, waits, suspended>>

\* Mutant: the parent is woken without its wait_lock.
MutWakeUnlocked(p) ==
    LET q == waker[p] IN
    /\ pc[p] = "finished"
    /\ queued' = queued \ {q}
    /\ Goto(p, "zombie")
    /\ waker' = [waker EXCEPT ![p] = None]
    /\ UNCHANGED <<tree, want, found, intr, suspended, woken, sigs>>

\* Under the parent's wait_lock: SIGCHLD, which interrupts a waitpid and makes a
\* stopped parent ready when there is a handler for it, and wakeup_queue.  A parent that has finished is left
\* alone (if it has been freed, its flags are taken to read as they were).
WakeParent(p) ==
    LET q == waker[p]
        caught == cores = 1 /\ q \in CatchesChld /\ Len(sigs[q]) < MaxPending
    IN
    /\ pc[p] = "finished"
    /\ Goto(p, "zombie")
    /\ waker' = [waker EXCEPT ![p] = None]
    /\ \/ /\ pc[q] \in {"exit", "finished", "zombie", "gone"}
          /\ UNCHANGED <<queued, intr, sigs, woken>>
       \/ /\ pc[q] \notin {"exit", "finished", "zombie", "gone", "link"}
          /\ sigs' = IF caught THEN [sigs EXCEPT ![q] = Append(@, "CHLD")] ELSE sigs
          /\ intr' = IF caught /\ q \in queued THEN intr \cup {q} ELSE intr
          /\ queued' = queued \ {q}
          /\ woken' = IF caught /\ pc[q] = "stopped" THEN woken \cup {q} ELSE woken
    /\ UNCHANGED <<tree, want, found, suspended>>

----------------------------------------------------------------------------
(* Signals *)

\* handle_signal, for the signal at the head of the queue.  A stop leaves the
\* others in the queue; after a handler, or SIGCONT, switch_task returns again
\* and looks at the next.
Handle(p) ==
    LET s == Head(sigs[p]) IN
    /\ sigs' = [sigs EXCEPT ![p] = Tail(@)]
    /\ suspended' = IF s = "STOP" THEN suspended \cup {p} ELSE suspended
    /\ woken' = IF s = "STOP" THEN woken \ {p} ELSE woken
    /\ CASE s = "KILL" -> BeginExit(p)
         [] s = "STOP" -> Goto(p, "stop") /\ UNCHANGED <<waker, want, intr>>
         [] OTHER -> UNCHANGED <<pc, waker, want, intr>>
    /\ UNCHANGED <<tree, found, queued>>

\* switch_task returns to a process that was preempted, or that has been made
\* ready in a waitpid or a stop.  When its signals have been dealt with, waitpid
\* scans again, or reports an interruption.
Resume(p) ==
    /\ CoreFree
    /\ \/ pc[p] = "user" /\ sigs[p] # <<>>
       \/ pc[p] = "asleep" /\ p \notin queued
       \/ pc[p] = "stopped" /\ p \in woken
    /\ \/ sigs[p] # <<>> /\ Handle(p)
       \/ /\ sigs[p] = <<>>
          /\ IF want[p] # None /\ p \notin intr
             THEN Goto(p, "scan") /\ UNCHANGED <<want, intr>>
             ELSE Return(p)
          /\ woken' = woken \ {p}
          /\ UNCHANGED <<tree, waker, found, queued, suspended, sigs>>

\* Mutant: nobody is told of the stop.
MutQuietStop(p) ==
    /\ pc[p] = "stop"
    /\ Goto(p, "stopped")
    /\ UNCHANGED <<tree, waker, waits, suspended, woken, sigs>>

\* wakeup_queue of the parent, without its wait_lock; then switch_task(0).
WakeOnStop(p) ==
    /\ pc[p] = "stop"
    /\ Goto(p, "stopped")
    /\ queued' = IF pc[parent[p]] \in {"finished", "zombie"} THEN queued
                 ELSE queued \ {parent[p]}
    /\ UNCHANGED <<tree, waker, want, found, intr, suspended, woken, sigs>>

\* Mutant: only SIGCONT makes a stopped process ready.
MutStoppedStays(p, s) ==
    /\ sigs' = [sigs EXCEPT ![p] = Append(@, s)]
    /\ suspended' = IF s = "CONT" THEN suspended \ {p} ELSE suspended
    /\ intr' = IF p \in queued THEN intr \cup {p} ELSE intr
    /\ queued' = queued \ {p}
    /\ woken' = IF pc[p] = "stopped" /\ s = "CONT" THEN woken \cup {p} ELSE woken

\* send_signal queues the signal, clears SUSPENDED for SIGCONT, and makes the
\* receiver ready, which interrupts its waitpid.
Deliver(p, s) ==
    /\ sigs' = [sigs EXCEPT ![p] = Append(@, s)]
    /\ suspended' = IF s = "CONT" THEN suspended \ {p} ELSE suspended
    /\ intr' = IF p \in queued THEN intr \cup {p} ELSE intr
    /\ queued' = queued \ {p}
    /\ woken' = IF pc[p] = "stopped" THEN woken \cup {p} ELSE woken

\* SIGCONT fails unless the receiver is suspended.
Signal(p, s) ==
    /\ cores = 1 /\ CoreFree
    /\ p \in Targets /\ pc[p] \in {"user", "asleep", "stopped"}
    /\ Len(sigs[p]) < MaxPending
    /\ s = "CONT" => p \in suspended
    /\ Deliver(p, s)
    /\ UNCHANGED <<tree, pc, waker, want, found>>

\* A process stops itself.
Raise(p) ==
    /\ InUser(p) /\ p \in Targets
    /\ suspended' = suspended \cup {p}
    /\ Goto(p, "stop")
    /\ UNCHANGED <<tree, waker, waits, woken, sigs>>

----------------------------------------------------------------------------

Kernel(p) ==
    Scan(p) \/ Link(p) \/ Delete(p) \/ SetFinished(p) \/ WakeParent(p) \/ WakeOnStop(p)

\* init waits for any child, for ever; other processes wait as they please.
InitWaits == WaitPid(init, [who |-> None, stopped |-> FALSE, hang |-> TRUE])

Next ==
    \/ InitWaits
    \/ \E p \in Proc :
          \/ Kernel(p) \/ Resume(p) \/ Exit(p) \/ Raise(p)
          \/ \E c \in Proc \ {init} : Fork(p, c)
          \/ \E args \in Waits : p # init /\ WaitPid(p, args)
          \/ \E s \in {"KILL", "STOP", "CONT"} : Signal(p, s)

Spec == Init /\ [][Next]_vars

\* Kernel code runs on, the scheduler runs whoever is ready, and init waits.
FairSpec ==
    /\ Spec
    /\ SF_vars(InitWaits)
    /\ \A p \in Proc : WF_vars(Kernel(p)) /\ SF_vars(Resume(p))

----------------------------------------------------------------------------
(* Properties *)

\* No exit is missed: the parent of a finished child does not sleep in a waitpid
\* for it, unless the child has yet to wake it.  For init, whom process_delete
\* wakes for its new children, only on one processor.
ExitSeen ==
    \A p \in queued : (p # init \/ cores = 1) =>
        \A c \in Matching(p) : pc[c] # "zombie"

\* On one processor no stop is missed: whoever waits for stopped children does
\* not sleep while it has one.
StopSeen ==
    cores = 1 => \A p \in queued : want[p].stopped =>
        \A c \in Matching(p) : c \in suspended => pc[c] = "stop"

\* On one processor every orphan that exits is reaped by init.
OrphansReaped ==
    cores = 1 => \A p \in Proc :
        (pc[p] = "zombie" /\ parent[p] = init) ~> pc[p] = "gone"

\* A fatal signal ends a process, whether it runs, waits or has stopped itself.
\* (One that others stop can stop with the fatal signal still in its queue.)
KillEnds ==
    \A p \in Proc :
        [](\A i \in DOMAIN sigs[p] : sigs[p][i] # "STOP") =>
            ((\E i \in DOMAIN sigs[p] : sigs[p][i] = "KILL") ~> pc[p] \in {"zombie", "gone"})
=============================================================================
