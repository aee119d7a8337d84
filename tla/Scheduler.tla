----------------------------- MODULE Scheduler -----------------------------
(***************************************************************************)
(* The multi-core scheduler of the Misaka kernel: kernel/sys/process.c and  *)
(* the context switch of kernel/arch/x86_64/irq.S.                          *)
(*                                                                          *)
(* Kernel code runs with interrupts disabled, so the unit of interleaving   *)
(* is one core executing kernel code up to its next access to state that    *)
(* another core can see.  Each action below is such a step of one core;     *)
(* pc[c] says which one core c takes next.  What process_queue_lock covers  *)
(* is one step, because every access to the ready queue is made under it;   *)
(* wait_lock_tmp is held across several steps and is a variable.            *)
(*                                                                          *)
(* Signals, timed sleeps and fswait are not part of this module: a process  *)
(* leaves a wait queue only through one of the three wakeup functions, and  *)
(* is in no other queue when it calls sleep_on.                             *)
(***************************************************************************)
EXTENDS Naturals, Sequences, Functions, SequencesExt

CONSTANTS
    Core,      \* the processors (cpu_id)
    Boot,      \* the bootstrap processor, cpu_id 0
    Proc,      \* slots for process_t objects, reused after free()
    InitProc,  \* the process spawn_init() makes
    Queue,     \* wait queues: "semaphores" that processes sleep on
    Wakeups,   \* which wakeup functions are called
    Idle,      \* a core's kernel_idle_task
    None       \* the null pointer

\* wakeup_queue, wakeup_queue_one and wakeup_queue_interrupted.
WakeFns == {"all", "one", "int"}

ASSUME ConstAssumption ==
    /\ Boot \in Core
    /\ InitProc \in Proc
    /\ Idle \notin Proc
    /\ Wakeups \subseteq WakeFns
    /\ None \notin Proc \cup Core \cup Queue \cup {Idle}

VARIABLES
    readyQ,    \* process_queue, head first
    waitQ,     \* the contents of each wait queue, in order of arrival
    waitLock,  \* the core that holds wait_lock_tmp, or None
    alloc,     \* process_t objects that exist
    running,   \* PROC_FLAG_RUNNING
    finished,  \* PROC_FLAG_FINISHED
    sleepInt,  \* PROC_FLAG_SLEEP_INT
    owner,     \* process_t.owner: the core that last claimed the process
    saved,     \* processes whose thread.context is a resumable one
    reapQ,     \* reap_queue: deleted but not yet freed
    cur,       \* this_core->current_process
    prev,      \* this_core->previous_process
    pc,        \* what the core does next
    hand,      \* the process_t a kernel function holds in a local variable
    wq,        \* the queue argument of sleep_on or wakeup_queue*
    wk,        \* which wakeup function is running
    victim     \* the argument of process_delete

vars == <<readyQ, waitQ, waitLock, alloc, running, finished, sleepInt, owner,
          saved, reapQ, cur, prev, pc, hand, wq, wk, victim>>

Task == Proc \cup {Idle}

PcVals == {"run",      \* executing the current process, or halted in _kidle
           "enter",    \* in sleep_on, about to join the wait queue
           "block",    \* in switch_task(0), about to save its context
           "yield",    \* in switch_task(1), about to save its context
           "resched",  \* context saved, about to make itself ready
           "pick",     \* in switch_next, about to call next_ready_process
           "mark",     \* has dequeued hand, about to set its RUNNING flag
           "own",      \* has set RUNNING, about to set its owner
           "restore",  \* about to enter arch_restore_context
           "wake",     \* in a wakeup function, holding wait_lock_tmp
           "ready",    \* about to make_process_ready(hand)
           "exit",     \* in task_exit, marked FINISHED
           "delete"}   \* in process_delete, about to free victim

WakeKinds == WakeFns \cup {"none"}

Init ==
    /\ readyQ = <<>>
    /\ waitQ = [q \in Queue |-> <<>>]
    /\ waitLock = None
    /\ alloc = {InitProc}
    /\ running = {InitProc}
    /\ finished = {}
    /\ sleepInt = {}
    /\ owner = [p \in Proc |-> Boot]
    /\ saved = {}
    /\ reapQ = <<>>
    /\ cur = [c \in Core |-> IF c = Boot THEN InitProc ELSE Idle]
    /\ prev = [c \in Core |-> None]
    /\ pc = [c \in Core |-> "run"]
    /\ hand = [c \in Core |-> None]
    /\ wq = [c \in Core |-> None]
    /\ wk = [c \in Core |-> "none"]
    /\ victim = [c \in Core |-> None]

Goto(c, where) == pc' = [pc EXCEPT ![c] = where]

(***************************************************************************)
(* make_process_ready once the process is off every wait queue: one         *)
(* critical section of process_queue_lock that appends the process unless   *)
(* its sched_node is already linked.                                        *)
(***************************************************************************)
MakeReady(p) ==
    readyQ' = IF p \in Range(readyQ) THEN readyQ ELSE Append(readyQ, p)

\* The entry of switch_next: remember what this core was running.
EnterSwitchNext(c) ==
    /\ prev' = [prev EXCEPT ![c] = cur[c]]
    /\ Goto(c, "pick")

----------------------------------------------------------------------------
(* Yielding and sleeping *)

\* Mutant: a context is saved for the idle task too.
MutSaveIdle(c) ==
    /\ pc[c] = "run"
    /\ Goto(c, "yield")
    /\ UNCHANGED <<readyQ, waitQ, waitLock, alloc, running, finished, sleepInt,
                   owner, saved, reapQ, cur, prev, hand, wq, wk, victim>>

(***************************************************************************)
(* switch_task(1) from the timer, or the tail of isr_handler when the core  *)
(* is idle.  The idle task has no context worth saving.                     *)
(***************************************************************************)
Preempt(c) ==
    /\ pc[c] = "run"
    /\ IF cur[c] = Idle \/ cur[c] \notin running
       THEN EnterSwitchNext(c)
       ELSE Goto(c, "yield") /\ UNCHANGED prev
    /\ UNCHANGED <<readyQ, waitQ, waitLock, alloc, running, finished, sleepInt,
                   owner, saved, reapQ, cur, hand, wq, wk, victim>>

\* arch_save_context on behalf of a process that stays runnable.
SaveYield(c) ==
    /\ pc[c] = "yield"
    /\ saved' = saved \cup {cur[c]}
    /\ Goto(c, "resched")
    /\ UNCHANGED <<readyQ, waitQ, waitLock, alloc, running, finished, sleepInt,
                   owner, reapQ, cur, prev, hand, wq, wk, victim>>

\* make_process_ready(current_process), then switch_next().
Reschedule(c) ==
    /\ pc[c] = "resched"
    /\ MakeReady(cur[c])
    /\ EnterSwitchNext(c)
    /\ UNCHANGED <<waitQ, waitLock, alloc, running, finished, sleepInt, owner,
                   saved, reapQ, cur, hand, wq, wk, victim>>

\* Mutant: an interruption of an earlier sleep is not forgotten.
MutKeepInterruption(c, q) ==
    /\ pc[c] = "run"
    /\ cur[c] # Idle
    /\ wq' = [wq EXCEPT ![c] = q]
    /\ Goto(c, "enter")
    /\ UNCHANGED <<readyQ, waitQ, waitLock, alloc, running, finished, sleepInt, owner,
                   saved, reapQ, cur, prev, hand, wk, victim>>

\* sleep_on(q): forget an old interruption before joining the queue.
SleepOn(c, q) ==
    /\ pc[c] = "run"
    /\ cur[c] # Idle
    /\ sleepInt' = sleepInt \ {cur[c]}
    /\ wq' = [wq EXCEPT ![c] = q]
    /\ Goto(c, "enter")
    /\ UNCHANGED <<readyQ, waitQ, waitLock, alloc, running, finished, owner,
                   saved, reapQ, cur, prev, hand, wk, victim>>

\* Mutant: sleep_on goes on to switch_task(1).
MutStaysReady(c) ==
    /\ pc[c] = "enter"
    /\ waitLock = None
    /\ waitQ' = [waitQ EXCEPT ![wq[c]] = Append(@, cur[c])]
    /\ wq' = [wq EXCEPT ![c] = None]
    /\ Goto(c, "yield")
    /\ UNCHANGED <<readyQ, waitLock, alloc, running, finished, sleepInt, owner,
                   saved, reapQ, cur, prev, hand, wk, victim>>

\* list_append under wait_lock_tmp.  From here on a waker can see the sleeper.
JoinQueue(c) ==
    /\ pc[c] = "enter"
    /\ waitLock = None
    /\ waitQ' = [waitQ EXCEPT ![wq[c]] = Append(@, cur[c])]
    /\ wq' = [wq EXCEPT ![c] = None]
    /\ Goto(c, "block")
    /\ UNCHANGED <<readyQ, waitLock, alloc, running, finished, sleepInt, owner,
                   saved, reapQ, cur, prev, hand, wk, victim>>

\* switch_task(0): save the context, then switch_next().
SaveBlock(c) ==
    /\ pc[c] = "block"
    /\ saved' = saved \cup {cur[c]}
    /\ EnterSwitchNext(c)
    /\ UNCHANGED <<readyQ, waitQ, waitLock, alloc, running, finished, sleepInt,
                   owner, reapQ, cur, hand, wq, wk, victim>>

----------------------------------------------------------------------------
(* switch_next *)

\* next_ready_process gives the idle task, which switch_next resumes from its
\* entry point.
TakeIdle(c) ==
    /\ cur' = [cur EXCEPT ![c] = Idle]
    /\ Goto(c, "restore")
    /\ UNCHANGED hand

\* Mutant: RUNNING is not looked at when a process is dequeued.
MutNeverTooSoon(c, p) == FALSE

\* Whether core c must leave p alone: another core has not left p's stack yet.
PulledTooSoon(c, p) == p \in running /\ owner[p] # c

\* Mutant: a process that was pulled too soon is not put back.
MutDropTooSoon(c) ==
    /\ pc[c] = "pick"
    /\ \/ /\ readyQ = <<>>
          /\ TakeIdle(c)
          /\ UNCHANGED readyQ
       \/ /\ readyQ # <<>>
          /\ PulledTooSoon(c, Head(readyQ))
          /\ readyQ' = Tail(readyQ)
          /\ TakeIdle(c)
       \/ /\ readyQ # <<>>
          /\ ~PulledTooSoon(c, Head(readyQ))
          /\ readyQ' = Tail(readyQ)
          /\ hand' = [hand EXCEPT ![c] = Head(readyQ)]
          /\ Goto(c, "mark")
          /\ UNCHANGED cur
    /\ UNCHANGED <<waitQ, waitLock, alloc, running, finished, sleepInt, owner,
                   saved, reapQ, prev, wq, wk, victim>>

(***************************************************************************)
(* next_ready_process, the part under process_queue_lock.                   *)
(***************************************************************************)
NextReady(c) ==
    /\ pc[c] = "pick"
    /\ \/ /\ readyQ = <<>>
          /\ TakeIdle(c)
          /\ UNCHANGED readyQ
       \/ /\ readyQ # <<>>
          /\ PulledTooSoon(c, Head(readyQ))
          /\ readyQ' = Append(Tail(readyQ), Head(readyQ))
          /\ TakeIdle(c)
       \/ /\ readyQ # <<>>
          /\ ~PulledTooSoon(c, Head(readyQ))
          /\ readyQ' = Tail(readyQ)
          /\ hand' = [hand EXCEPT ![c] = Head(readyQ)]
          /\ Goto(c, "mark")
          /\ UNCHANGED cur
    /\ UNCHANGED <<waitQ, waitLock, alloc, running, finished, sleepInt, owner,
                   saved, reapQ, prev, wq, wk, victim>>

\* After the unlock: flags |= PROC_FLAG_RUNNING.
MarkRunning(c) ==
    /\ pc[c] = "mark"
    /\ running' = running \cup {hand[c]}
    /\ Goto(c, "own")
    /\ UNCHANGED <<readyQ, waitQ, waitLock, alloc, finished, sleepInt, owner,
                   saved, reapQ, cur, prev, hand, wq, wk, victim>>

\* owner = cpu_id; the loop of switch_next drops a process that has finished.
TakeOwnership(c) ==
    /\ pc[c] = "own"
    /\ owner' = [owner EXCEPT ![hand[c]] = c]
    /\ cur' = [cur EXCEPT ![c] = hand[c]]
    /\ hand' = [hand EXCEPT ![c] = None]
    /\ Goto(c, IF hand[c] \in finished THEN "pick" ELSE "restore")
    /\ UNCHANGED <<readyQ, waitQ, waitLock, alloc, running, finished, sleepInt,
                   saved, reapQ, prev, wq, wk, victim>>

(***************************************************************************)
(* arch_restore_context: drop RUNNING from the process this core leaves     *)
(* (unless it resumes the same one), then load the new stack and jump.      *)
(***************************************************************************)
Restore(c) ==
    /\ pc[c] = "restore"
    /\ running' = IF prev[c] = cur[c] THEN running ELSE running \ {prev[c]}
    /\ saved' = saved \ {cur[c]}
    /\ Goto(c, "run")
    /\ UNCHANGED <<readyQ, waitQ, waitLock, alloc, finished, sleepInt, owner,
                   reapQ, cur, prev, hand, wq, wk, victim>>

----------------------------------------------------------------------------
(* Waking sleepers *)

\* wakeup_queue ("all"), wakeup_queue_one or wakeup_queue_interrupted, by the
\* current process or by an interrupt handler of an idle core.
StartWakeup(c, q, kind) ==
    /\ pc[c] = "run"
    /\ waitLock = None
    /\ waitLock' = c
    /\ wq' = [wq EXCEPT ![c] = q]
    /\ wk' = [wk EXCEPT ![c] = kind]
    /\ Goto(c, "wake")
    /\ UNCHANGED <<readyQ, waitQ, alloc, running, finished, sleepInt, owner,
                   saved, reapQ, cur, prev, hand, victim>>

\* One turn of the loop: list_pop takes the newest sleeper.
PopSleeper(c) ==
    /\ pc[c] = "wake"
    /\ wk[c] # "none"
    /\ waitQ[wq[c]] # <<>>
    /\ LET p == Last(waitQ[wq[c]]) IN
       /\ waitQ' = [waitQ EXCEPT ![wq[c]] = Front(@)]
       /\ sleepInt' = IF wk[c] = "int" /\ p \notin finished
                      THEN sleepInt \cup {p} ELSE sleepInt
       /\ IF p \in finished
          THEN UNCHANGED <<hand, pc>>
          ELSE hand' = [hand EXCEPT ![c] = p] /\ Goto(c, "ready")
    /\ wk' = [wk EXCEPT ![c] = IF @ = "one" THEN "none" ELSE @]
    /\ UNCHANGED <<readyQ, waitLock, alloc, running, finished, owner, saved,
                   reapQ, cur, prev, wq, victim>>

\* make_process_ready(hand): back to the wakeup loop, or out of fork.
ReadyHand(c) ==
    /\ pc[c] = "ready"
    /\ MakeReady(hand[c])
    /\ hand' = [hand EXCEPT ![c] = None]
    /\ Goto(c, IF waitLock = c THEN "wake" ELSE "run")
    /\ UNCHANGED <<waitQ, waitLock, alloc, running, finished, sleepInt, owner,
                   saved, reapQ, cur, prev, wq, wk, victim>>

\* The loop is over: release the lock and return to the caller, which goes on to
\* switch_next in task_exit and to the deletion in process_delete.
EndWakeup(c) ==
    /\ pc[c] = "wake"
    /\ wk[c] = "none" \/ waitQ[wq[c]] = <<>>
    /\ waitLock' = None
    /\ wq' = [wq EXCEPT ![c] = None]
    /\ wk' = [wk EXCEPT ![c] = "none"]
    /\ IF cur[c] \in finished
       THEN EnterSwitchNext(c)
       ELSE /\ Goto(c, IF victim[c] = None THEN "run" ELSE "delete")
            /\ UNCHANGED prev
    /\ UNCHANGED <<readyQ, waitQ, alloc, running, finished, sleepInt, owner,
                   saved, reapQ, cur, hand, victim>>

----------------------------------------------------------------------------
(* Creation and death *)

\* fork, clone and spawn_worker_thread: calloc a process_t with an entry
\* context, then make it ready.
Fork(c, p) ==
    /\ pc[c] = "run"
    /\ cur[c] # Idle
    /\ p \notin alloc
    /\ alloc' = alloc \cup {p}
    /\ saved' = saved \cup {p}
    /\ sleepInt' = sleepInt \ {p}
    /\ owner' = [owner EXCEPT ![p] = Boot]
    /\ hand' = [hand EXCEPT ![c] = p]
    /\ Goto(c, "ready")
    /\ UNCHANGED <<readyQ, waitQ, waitLock, running, finished, reapQ, cur, prev,
                   wq, wk, victim>>

\* task_exit up to the FINISHED flag.
Exit(c) ==
    /\ pc[c] = "run"
    /\ cur[c] # Idle
    /\ finished' = finished \cup {cur[c]}
    /\ Goto(c, "exit")
    /\ UNCHANGED <<readyQ, waitQ, waitLock, alloc, running, sleepInt, owner,
                   saved, reapQ, cur, prev, hand, wq, wk, victim>>

\* The rest of task_exit: wake the parent's wait queue and switch_next(), ...
ExitWake(c, q) ==
    /\ pc[c] = "exit"
    /\ waitLock = None
    /\ waitLock' = c
    /\ wq' = [wq EXCEPT ![c] = q]
    /\ wk' = [wk EXCEPT ![c] = "all"]
    /\ Goto(c, "wake")
    /\ UNCHANGED <<readyQ, waitQ, alloc, running, finished, sleepInt, owner,
                   saved, reapQ, cur, prev, hand, victim>>

\* ... or only switch_next() when there is no live parent.
ExitOrphan(c) ==
    /\ pc[c] = "exit"
    /\ EnterSwitchNext(c)
    /\ UNCHANGED <<readyQ, waitQ, waitLock, alloc, running, finished, sleepInt,
                   owner, saved, reapQ, cur, hand, wq, wk, victim>>

\* process_is_owned, and the same test of process_delete on the other cores.
OwnedBy(cores, p) == \E d \in cores : prev[d] = p \/ cur[d] = p

\* process_reap_later can free the first n processes of reap_queue, no more.
ReapablePrefix(n) ==
    /\ \A i \in 1..n : ~OwnedBy(Core, reapQ[i])
    /\ n < Len(reapQ) => OwnedBy(Core, reapQ[n + 1])

\* process_reap: free() the process_t and its kernel stack.
FreeProcs(ps) ==
    /\ alloc' = alloc \ ps
    /\ finished' = finished \ ps
    /\ saved' = saved \ ps

\* What waitpid waits for before it deletes a child: the exiting core has
\* dropped RUNNING, so it is off the child's stack.
DoneRunning(p) == p \in finished \ running

\* Mutant: threads wait for the children of their group, so that two of them can
\* find the same child.
MutGroupWaits(c, p) ==
    /\ pc[c] = "run"
    /\ cur[c] \notin {Idle, p}
    /\ p # InitProc
    /\ DoneRunning(p)
    /\ p \notin Range(reapQ)

\* waitpid has found that child p of its caller is done.
Deletable(c, p) ==
    /\ pc[c] = "run"
    /\ cur[c] \notin {Idle, p}
    /\ p # InitProc
    /\ DoneRunning(p)
    /\ p \notin Range(reapQ) \cup {victim[d] : d \in Core}

\* process_delete of a process without children, ...
Delete(c, p) ==
    /\ Deletable(c, p)
    /\ victim' = [victim EXCEPT ![c] = p]
    /\ Goto(c, "delete")
    /\ UNCHANGED <<readyQ, waitQ, waitLock, alloc, running, finished, sleepInt,
                   owner, saved, reapQ, cur, prev, hand, wq, wk>>

\* ... or of one that has some: they become init's, which is woken first.
DeleteParent(c, p, q) ==
    /\ Deletable(c, p)
    /\ victim' = [victim EXCEPT ![c] = p]
    /\ waitLock = None
    /\ waitLock' = c
    /\ wq' = [wq EXCEPT ![c] = q]
    /\ wk' = [wk EXCEPT ![c] = "all"]
    /\ Goto(c, "wake")
    /\ UNCHANGED <<readyQ, waitQ, alloc, running, finished, sleepInt, owner,
                   saved, reapQ, cur, prev, hand>>

EndDelete(c) ==
    /\ victim' = [victim EXCEPT ![c] = None]
    /\ Goto(c, "run")

\* process_delete when no other core names the process: free it at once.
Reap(c) ==
    /\ pc[c] = "delete"
    /\ ~OwnedBy(Core \ {c}, victim[c])
    /\ FreeProcs({victim[c]})
    /\ EndDelete(c)
    /\ UNCHANGED <<readyQ, waitQ, waitLock, running, sleepInt, owner, reapQ, cur,
                   prev, hand, wq, wk>>

\* process_delete when another core's previous_process still names it: free what
\* can be freed of reap_queue and put this one at its end.
ReapLater(c) ==
    /\ pc[c] = "delete"
    /\ OwnedBy(Core \ {c}, victim[c])
    /\ \E n \in 0..Len(reapQ) :
        /\ ReapablePrefix(n)
        /\ FreeProcs({reapQ[i] : i \in 1..n})
        /\ reapQ' = Append(SubSeq(reapQ, n + 1, Len(reapQ)), victim[c])
    /\ EndDelete(c)
    /\ UNCHANGED <<readyQ, waitQ, waitLock, running, sleepInt, owner, cur, prev,
                   hand, wq, wk>>

----------------------------------------------------------------------------

\* The steps a core takes on its own once it is inside the scheduler.
Kernel(c) ==
    \/ SaveYield(c) \/ Reschedule(c) \/ JoinQueue(c) \/ SaveBlock(c)
    \/ NextReady(c) \/ MarkRunning(c) \/ TakeOwnership(c) \/ Restore(c)
    \/ PopSleeper(c) \/ ReadyHand(c) \/ EndWakeup(c)
    \/ ExitOrphan(c) \/ Reap(c) \/ ReapLater(c)
    \/ \E q \in Queue : ExitWake(c, q)

\* What the running program, or an interrupt, may ask of the kernel.
Request(c) ==
    \/ \E q \in Queue : SleepOn(c, q)
    \/ \E q \in Queue, kind \in Wakeups : StartWakeup(c, q, kind)
    \/ \E p \in Proc : Fork(c, p)
    \/ \E p \in Proc : Delete(c, p)
    \/ \E p \in Proc, q \in Queue : DeleteParent(c, p, q)
    \/ Exit(c)

Next == \E c \in Core : Preempt(c) \/ Kernel(c) \/ Request(c)

Spec == Init /\ [][Next]_vars

(***************************************************************************)
(* A core inside the scheduler keeps going, and a timer interrupt that      *)
(* comes while interrupts are off stays pending until the core is back in   *)
(* user code: every core is preempted again and again.                      *)
(***************************************************************************)
Fairness == \A c \in Core : WF_vars(Kernel(c)) /\ SF_vars(Preempt(c))

FairSpec == Spec /\ Fairness

----------------------------------------------------------------------------
(* Properties *)

TypeOK ==
    /\ readyQ \in Seq(Proc)
    /\ waitQ \in [Queue -> Seq(Proc)]
    /\ waitLock \in Core \cup {None}
    /\ alloc \subseteq Proc
    /\ running \subseteq Proc
    /\ finished \subseteq Proc
    /\ sleepInt \subseteq Proc
    /\ owner \in [Proc -> Core]
    /\ saved \subseteq Proc
    /\ reapQ \in Seq(Proc)
    /\ cur \in [Core -> Task]
    /\ prev \in [Core -> Task \cup {None}]
    /\ pc \in [Core -> PcVals]
    /\ hand \in [Core -> Proc \cup {None}]
    /\ wq \in [Core -> Queue \cup {None}]
    /\ wk \in [Core -> WakeKinds]
    /\ victim \in [Core -> Proc \cup {None}]

Switching == {"pick", "mark", "own", "restore"}

\* The task whose kernel stack core c is executing on: switch_next still runs
\* on the stack of the process it leaves.
Stack(c) == IF pc[c] \in Switching THEN prev[c] ELSE cur[c]

(***************************************************************************)
(* No two cores execute on one kernel stack: what the RUNNING flag and the  *)
(* owner test of next_ready_process are for.                                *)
(***************************************************************************)
StackExclusive ==
    \A c, d \in Core : c # d /\ Stack(c) # Idle => Stack(c) # Stack(d)

\* arch_restore_context only ever loads a context that was saved after the
\* process last ran (or the entry context of a new process), and no other core
\* is about to load it too.
RestoresSavedContext ==
    \A c \in Core :
        pc[c] = "restore" /\ cur[c] # Idle =>
            /\ cur[c] \in saved
            /\ \A d \in Core \ {c} : cur[d] # cur[c]

Ready == Range(readyQ)
Asleep == UNION {Range(waitQ[q]) : q \in Queue}

\* Cores on which the current process is still executing (it may yet yield,
\* sleep or exit), as opposed to being on its way out or not yet there.
ExecPcs == {"run", "enter", "yield", "resched", "wake", "ready", "exit", "delete"}

Executing(p) == \E c \in Core : cur[c] = p /\ pc[c] \in ExecPcs
Picked(p) == \E c \in Core : \/ hand[c] = p /\ pc[c] \in {"mark", "own"}
                             \/ cur[c] = p /\ pc[c] = "restore"
InHand(p) == \E c \in Core : hand[c] = p /\ pc[c] = "ready"

\* The places a live process can be found in.
Places(p) ==
    {place \in {"exec", "picked", "hand", "ready", "asleep"} :
        CASE place = "exec"   -> Executing(p)
          [] place = "picked" -> Picked(p)
          [] place = "hand"   -> InHand(p)
          [] place = "ready"  -> p \in Range(readyQ)
          [] place = "asleep" -> p \in Asleep}

(***************************************************************************)
(* A live process is never lost and never in two places: it executes, or    *)
(* waits in the ready queue or in a wait queue, or one core is moving it    *)
(* between those.  A finished process is in none of the queues.             *)
(***************************************************************************)
OnePlace ==
    /\ \A p \in alloc \ finished : \E place \in Places(p) : Places(p) = {place}
    /\ \A p \in finished : Places(p) \subseteq {"exec"}

\* The doc comment of make_process_ready: "The process must not otherwise have
\* been in a scheduling queue before it is placed in the ready queue."
ReadyPrecondition ==
    \A c \in Core :
        /\ pc[c] = "ready" => hand[c] \notin Range(readyQ) \cup Asleep
        /\ pc[c] = "resched" => cur[c] \notin Range(readyQ) \cup Asleep

\* process_delete and process_reap_later never free a process_t that a queue
\* links, that a core executes on or is about to, that a core will clear RUNNING
\* in, or that it is about to free itself.
NoDanglingProcess ==
    \A p \in Proc \ alloc :
        /\ p \notin Range(readyQ) \cup Asleep \cup running
        /\ \A c \in Core : Stack(c) # p /\ cur[c] # p /\ hand[c] # p /\ victim[c] # p

\* A sleeper's SLEEP_INT flag is down while it waits, so sleep_on reports an
\* interruption only when this sleep, and not an earlier one, was interrupted.
FreshSleep == \A p \in Asleep : p \notin sleepInt

\* Every process in the ready queue eventually gets a core.
EventuallyRuns ==
    \A p \in Proc :
        p \in Range(readyQ) ~> \E c \in Core : cur[c] = p /\ pc[c] = "run"

----------------------------------------------------------------------------
(* Refinement *)

\* On its way to a core: ready or picked, or in the hand of the process that made it.
Readied(p) ==
    \/ p \in Range(readyQ) \/ Picked(p)
    \/ \E c \in Core : hand[c] = p /\ pc[c] = "ready" /\ waitLock # c

ProcState(p) ==
    IF p \notin alloc THEN "free"
    ELSE IF p \in finished THEN "dead"
    ELSE IF Executing(p) THEN "exec"
    ELSE IF Readied(p) THEN "ready"
    ELSE IF p \in Asleep \/ InHand(p) THEN "asleep"
    ELSE "lost"

M == INSTANCE Machine WITH
        st <- [p \in Proc |-> ProcState(p)],
        on <- [c \in Core |-> Stack(c)]

(***************************************************************************)
(* The scheduler implements the abstract multiprocessor of Machine.         *)
(***************************************************************************)
Refines == M!Spec

=============================================================================
