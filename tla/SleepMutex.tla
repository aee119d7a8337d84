----------------------------- MODULE SleepMutex -----------------------------
(***************************************************************************)
(* The sleeping mutex of kernel/sys/mutex.c.  mutex_acquire and             *)
(* mutex_release guard the mutex's fields with a spin lock and put a        *)
(* process that finds the mutex taken to sleep with sleep_on_unlocking      *)
(* (kernel/sys/process.c); a release wakes one sleeper with                 *)
(* wakeup_queue_one, which takes the newest.                                *)
(*                                                                          *)
(* Processes run on any number of cores, so their steps interleave freely.  *)
(* A signal can take a sleeper off the queue at any time                    *)
(* (make_process_ready from send_signal); a fatal one ends the process when *)
(* it next resumes in switch_task.                                          *)
(***************************************************************************)
EXTENDS Naturals, Sequences, Functions, SequencesExt

CONSTANTS
    Proc,       \* the processes that use the mutex
    Signalled,  \* those that may receive a signal with a handler
    Killable,   \* those that may receive a fatal signal
    None        \* no process

ASSUME MutexAssumption ==
    /\ Signalled \subseteq Proc
    /\ Killable \subseteq Proc
    /\ None \notin Proc

VARIABLES
    inner,    \* the holder of mutex->inner_lock, or None
    status,   \* mutex->status
    owner,    \* mutex->owner
    waiters,  \* mutex->waiters
    doomed,   \* processes with a fatal signal pending
    pc        \* where each process is

mvars == <<inner, status, owner, waiters, doomed, pc>>

PcVals == {"out",      \* not using the mutex
           "lock",     \* in mutex_acquire, about to take inner_lock
           "test",     \* holds inner_lock, about to test status
           "joined",   \* linked in waiters, still holds inner_lock
           "sleep",    \* switched away until it is off the queue
           "in",       \* holds the mutex
           "unlock",   \* in mutex_release, about to take inner_lock
           "wake",     \* status cleared, about to wake one waiter
           "dead"}

Init ==
    /\ inner = None
    /\ status = 0
    /\ owner = None
    /\ waiters = <<>>
    /\ doomed = {}
    /\ pc = [p \in Proc |-> "out"]

Goto(p, where) == pc' = [pc EXCEPT ![p] = where]

\* mutex_acquire is called.
Acquire(p) ==
    /\ pc[p] = "out"
    /\ Goto(p, "lock")
    /\ UNCHANGED <<inner, status, owner, waiters, doomed>>

\* spin_lock(inner_lock)
LockInner(p) ==
    /\ pc[p] = "lock"
    /\ inner = None
    /\ inner' = p
    /\ Goto(p, "test")
    /\ UNCHANGED <<status, owner, waiters, doomed>>

\* Mutant: status is not tested.
MutTakeRegardless(p) ==
    /\ pc[p] = "test"
    /\ status' = status + 1
    /\ owner' = p
    /\ inner' = None
    /\ Goto(p, "in")
    /\ UNCHANGED <<waiters, doomed>>

\* status is 0: take the mutex and unlock.
Take(p) ==
    /\ pc[p] = "test"
    /\ status = 0
    /\ status' = 1
    /\ owner' = p
    /\ inner' = None
    /\ Goto(p, "in")
    /\ UNCHANGED <<waiters, doomed>>

\* Mutant: the spin lock is dropped before the process is linked.
MutUnlockBeforeJoin(p) ==
    /\ \/ /\ pc[p] = "test"
          /\ status = 1
          /\ inner' = None
          /\ Goto(p, "joined")
          /\ UNCHANGED waiters
       \/ /\ pc[p] = "joined"
          /\ waiters' = Append(waiters, p)
          /\ Goto(p, "sleep")
          /\ UNCHANGED inner
    /\ UNCHANGED <<status, owner, doomed>>

\* status is 1: sleep_on_unlocking links the process before it unlocks ...
JoinWaiters(p) ==
    /\ pc[p] = "test"
    /\ status = 1
    /\ waiters' = Append(waiters, p)
    /\ Goto(p, "joined")
    /\ UNCHANGED <<inner, status, owner, doomed>>

\* ... and switches away.
UnlockAndSleep(p) ==
    /\ pc[p] = "joined"
    /\ inner' = None
    /\ Goto(p, "sleep")
    /\ UNCHANGED <<status, owner, waiters, doomed>>

\* Mutant: a woken process takes the mutex for its own without testing again.
MutResumeHolds(p) ==
    /\ pc[p] = "sleep"
    /\ p \notin Range(waiters)
    /\ Goto(p, IF p \in doomed THEN "dead" ELSE "in")
    /\ UNCHANGED <<inner, status, owner, waiters, doomed>>

\* The scheduler resumes a process that is off the queue; a fatal signal is
\* handled first, otherwise the loop of mutex_acquire locks again.
Resume(p) ==
    /\ pc[p] = "sleep"
    /\ p \notin Range(waiters)
    /\ Goto(p, IF p \in doomed THEN "dead" ELSE "lock")
    /\ UNCHANGED <<inner, status, owner, waiters, doomed>>

\* mutex_release is called by the owner, as its assertion demands.
Release(p) ==
    /\ pc[p] = "in"
    /\ Goto(p, "unlock")
    /\ UNCHANGED <<inner, status, owner, waiters, doomed>>

\* spin_lock, then owner = NULL and status = 0.
Clear(p) ==
    /\ pc[p] = "unlock"
    /\ inner = None
    /\ inner' = p
    /\ owner' = None
    /\ status' = 0
    /\ Goto(p, "wake")
    /\ UNCHANGED <<waiters, doomed>>

\* Mutant: a release wakes nobody.
MutNoWake(p) ==
    /\ pc[p] = "wake"
    /\ inner' = None
    /\ Goto(p, "out")
    /\ UNCHANGED <<status, owner, waiters, doomed>>

\* wakeup_queue_one pops the newest sleeper; unlock.
WakeOne(p) ==
    /\ pc[p] = "wake"
    /\ waiters' = IF waiters = <<>> THEN <<>> ELSE Front(waiters)
    /\ inner' = None
    /\ Goto(p, "out")
    /\ UNCHANGED <<status, owner, doomed>>

\* make_process_ready: list_delete from the wait queue the process is in, if any.
Unlink(p) ==
    \/ p \notin Range(waiters) /\ UNCHANGED waiters
    \/ \E i \in DOMAIN waiters : waiters[i] = p /\ waiters' = RemoveAt(waiters, i)

\* A signal with a handler: make_process_ready takes the sleeper off the queue.
Interrupt(p) ==
    /\ p \in Signalled
    /\ p \in Range(waiters)
    /\ Unlink(p)
    /\ UNCHANGED <<inner, status, owner, doomed, pc>>

\* A fatal signal: pending until the process next resumes from a sleep.
Kill(p) ==
    /\ p \in Killable \ doomed
    /\ pc[p] # "dead"
    /\ doomed' = doomed \cup {p}
    /\ Unlink(p)
    /\ UNCHANGED <<inner, status, owner, pc>>

\* Outside the mutex code, or asleep while holding it (in a disk transfer, for
\* instance), the fatal signal ends the process.
Die(p) ==
    /\ p \in doomed
    /\ pc[p] \in {"out", "in"}
    /\ Goto(p, "dead")
    /\ UNCHANGED <<inner, status, owner, waiters, doomed>>

Step(p) ==
    \/ LockInner(p) \/ Take(p) \/ JoinWaiters(p) \/ UnlockAndSleep(p)
    \/ Resume(p) \/ Release(p) \/ Clear(p) \/ WakeOne(p)

Next == \E p \in Proc : Acquire(p) \/ Step(p) \/ Interrupt(p) \/ Kill(p) \/ Die(p)

Spec == Init /\ [][Next]_mvars

\* A process inside mutex code keeps running, and a holder releases in the end.
FairSpec == Spec /\ \A p \in Proc : WF_mvars(Step(p))

----------------------------------------------------------------------------
(* Properties *)

TypeOK ==
    /\ inner \in Proc \cup {None}
    /\ status \in {0, 1}
    /\ owner \in Proc \cup {None}
    /\ waiters \in Seq(Proc)
    /\ doomed \subseteq Proc
    /\ pc \in [Proc -> PcVals]

Inside(p) == pc[p] \in {"in", "unlock"}

\* At most one process is between mutex_acquire and mutex_release, and it is the
\* one mutex->owner names: the assertion in mutex_release never fails.
MutualExclusion ==
    \A p \in Proc : Inside(p) =>
        /\ owner = p /\ status = 1
        /\ \A r \in Proc \ {p} : ~Inside(r)

\* A process that will take the mutex, or wake a sleeper, without being woken.
OnTheWay(p) ==
    \/ pc[p] \in {"lock", "test", "wake"}
    \/ pc[p] = "sleep" /\ p \notin Range(waiters)

\* A sleeper is never left behind by a free mutex: as long as no user of the
\* mutex is killed, if the mutex is free and someone sleeps on it, somebody else
\* is on the way to take it or to wake the sleeper (sleep_on_unlocking links the
\* process before it unlocks).
NoLostWakeup ==
    status = 0 /\ waiters # <<>> /\ doomed = {} =>
        \E p \in Proc : OnTheWay(p)

\* If some process wants the mutex and nobody holds it, someone gets it, unless a
\* user of the mutex is killed or sleepers are interrupted without end (each one
\* takes the inner spin lock again, which is not a fair lock).
SomeoneEnters ==
    \/ []<><<\E p \in Proc : Interrupt(p)>>_mvars
    \/ (\E p \in Proc : pc[p] \in {"lock", "test", "joined", "sleep"})
          ~> (doomed # {} \/ \E p \in Proc : pc[p] = "in")

\* The mutex as its users see it.
L == INSTANCE AbstractLock WITH
        holder <- IF status = 1 THEN owner ELSE None,
        wants <- {p \in Proc : pc[p] \in {"lock", "test", "joined", "sleep"}}

\* The mutex implements the abstract lock.
ImplementsLock == L!Spec
=============================================================================
