------------------------------- MODULE FsWait -------------------------------
(***************************************************************************)
(* Timed sleep and fswait (kernel/sys/process.c, sys/syscall.c): a process  *)
(* waits for one of several nodes, for a time, or for both.  A node's       *)
(* writer or interrupt handler alerts the processes that registered with    *)
(* it; the clock interrupt wakes those whose time has come; a signal wakes  *)
(* either kind of sleeper.                                                  *)
(*                                                                          *)
(* What sleep_lock covers is one step.  It covers all changes to            *)
(* sleep_queue, node_waits and timeout_node, and a process's sched_lock is  *)
(* only taken inside it; a registration touches the waiter lists of several *)
(* nodes under it, but nothing else looks at two of them together.  The     *)
(* nodes are asked, and their waiters dequeued, without it.  Times are      *)
(* relative to now, so that the state space is finite.                      *)
(*                                                                          *)
(* The number of processors is fixed at boot.  Signals are sent only on     *)
(* uniprocessors here: on more, send_signal can make a process ready that   *)
(* is about to sleep.  Signal handlers do not call fswait themselves.       *)
(***************************************************************************)
EXTENDS Naturals, Integers, Sequences, FiniteSets, Functions, SequencesExt

CONSTANTS
    Proc,       \* process_t objects
    Node,       \* pollable nodes: pipes, terminals, sockets
    Mute,       \* nodes without a selectcheck handler
    Polls,      \* the node lists given to fswait
    Timeouts,   \* the timeouts given to fswait; 0 does not block
    Sleeps,     \* the durations given to sleep
    CoreCounts, \* processor_count, one of these
    None,
    Never       \* no timeout (-1)

ASSUME FsWaitAssumption ==
    /\ Mute \cap Node = {}
    /\ Polls \subseteq Seq(Node \cup Mute) \ {<<>>}
    /\ Timeouts \subseteq Nat \cup {Never}
    /\ Sleeps \subseteq Nat \ {0}
    /\ CoreCounts \subseteq Nat \ {0}
    /\ IsFiniteSet(Proc) /\ IsFiniteSet(Node)
    /\ Proc \cap {"idle", "alert"} = {}
    /\ \A n \in Node \cup Mute : n \notin Nat    \* nodes and records have their own addresses
    /\ None \notin Node \cup Proc /\ None \notin Seq(Node \cup Mute \cup Nat) /\ Never \notin Nat

VARIABLES
    cores,      \* processor_count
    pc,
    nodes,      \* the argument of fswait; <<>> for a timed sleep
    asked,      \* how many of them have been asked
    due,        \* time left of the call's timeout, or Never
    ready,      \* nodes that have data
    waiters,    \* alert_waiters of each node
    dev,        \* what a node's writer does: "idle", "alert", or the process it holds
    nodeWaits,  \* process_t.node_waits, None for NULL
    timeout,    \* process_t.timeout_node, timed_sleep_node: a record of sleepQ, or None
    awoken,     \* process_t.awoken_index while in the call
    sleepQ,     \* sleep_queue, soonest first
    readyQ,     \* processes in the ready queue that are inside switch_task(0)
    sig         \* processes with a signal pending

vars == <<cores, pc, nodes, asked, due, ready, waiters, dev, nodeWaits, timeout,
          awoken, sleepQ, readyQ, sig>>
args == <<cores, nodes, asked>>
devs == <<ready, waiters, dev>>
waits == <<nodeWaits, timeout, awoken, sleepQ, readyQ>>

\* "check" asks the nodes; "join" registers; "off" is in switch_task(0), which
\* keeps a process from running before it has been switched out (see Scheduler).
PcVals == {"user", "check", "join", "off", "dead"}

InKernel == {p \in Proc : pc[p] \in {"check", "join"}}
CoreFree == Cardinality(InKernel) + Cardinality({n \in Node : dev[n] # "idle"}) < cores

Init ==
    /\ cores \in CoreCounts
    /\ pc = [p \in Proc |-> "user"]
    /\ nodes = [p \in Proc |-> <<>>]
    /\ asked = [p \in Proc |-> 0]
    /\ due = [p \in Proc |-> Never]
    /\ ready = {}
    /\ waiters = [n \in Node |-> <<>>]
    /\ dev = [n \in Node |-> "idle"]
    /\ nodeWaits = [p \in Proc |-> None]
    /\ timeout = [p \in Proc |-> None]
    /\ awoken = [p \in Proc |-> -1]
    /\ sleepQ = <<>>
    /\ readyQ = {}
    /\ sig = {}

Goto(p, where) == pc' = [pc EXCEPT ![p] = where]

----------------------------------------------------------------------------
(* sleep_queue *)

\* A sleeper_t; id stands for its address, which malloc may use again.
Sleeper(p, t, fs) ==
    [proc |-> p, left |-> t, fswait |-> fs,
     id |-> CHOOSE i \in 1..(Len(sleepQ) + 1) :
               \A j \in DOMAIN sleepQ : sleepQ[j].proc = p => sleepQ[j].id # i]

\* Mutant: the new record goes to the end of the queue.
MutInsertLast(s) == Append(sleepQ, s)

\* list_insert_after the last record that is not later than s.
Inserted(s) ==
    LET later == SelectInSeq(sleepQ, LAMBDA r : r.left > s.left)
    IN  IF later = 0 THEN Append(sleepQ, s) ELSE InsertAt(sleepQ, later, s)

\* sleep_queue without p's timer.
Without(p) == RemoveFirstMatch(sleepQ, LAMBDA r : r.proc = p /\ r.id = timeout[p])

\* Mutant: an alert leaves the timer of the call behind.
MutKeepTimer(p, index) ==
    /\ awoken' = [awoken EXCEPT ![p] = index]
    /\ nodeWaits' = [nodeWaits EXCEPT ![p] = None]
    /\ timeout' = [timeout EXCEPT ![p] = None]
    /\ readyQ' = readyQ \cup {p}
    /\ UNCHANGED sleepQ

\* Mutant: node_waits stays, so that a later event finds the process again.
MutStillWaits(p, index) ==
    /\ awoken' = [awoken EXCEPT ![p] = index]
    /\ sleepQ' = Without(p)
    /\ timeout' = [timeout EXCEPT ![p] = None]
    /\ readyQ' = readyQ \cup {p}
    /\ UNCHANGED nodeWaits

\* process_awaken_from_fswait, when the call's timer has not expired.
Awaken(p, index) ==
    /\ awoken' = [awoken EXCEPT ![p] = index]
    /\ nodeWaits' = [nodeWaits EXCEPT ![p] = None]
    /\ sleepQ' = Without(p)
    /\ timeout' = [timeout EXCEPT ![p] = None]
    /\ readyQ' = readyQ \cup {p}

----------------------------------------------------------------------------
(* The calls *)

\* sys_fswait, sys_fswait_timeout
FsWait(p, ns, t) ==
    /\ pc[p] = "user" /\ CoreFree
    /\ nodes' = [nodes EXCEPT ![p] = ns]
    /\ asked' = [asked EXCEPT ![p] = 0]
    /\ due' = [due EXCEPT ![p] = t]
    /\ Goto(p, "check")
    /\ UNCHANGED <<cores, devs, waits, sig>>

Return(p) ==
    /\ nodes' = [nodes EXCEPT ![p] = <<>>]
    /\ asked' = [asked EXCEPT ![p] = 0]
    /\ due' = [due EXCEPT ![p] = Never]
    /\ awoken' = [awoken EXCEPT ![p] = -1]
    /\ timeout' = [timeout EXCEPT ![p] = None]
    /\ Goto(p, "user")

\* process_wait_nodes asks the nodes one after the other, without a lock: it
\* returns if one is ready or cannot be asked, or when all have been asked and
\* the call must not block.
Check(p) ==
    LET n == nodes[p][asked[p] + 1]
        last == asked[p] = Len(nodes[p])
    IN
    /\ pc[p] = "check"
    /\ IF IF last THEN due[p] = 0 ELSE n \in Mute \cup ready THEN Return(p)
       ELSE /\ IF last THEN Goto(p, "join") /\ UNCHANGED asked
               ELSE asked' = [asked EXCEPT ![p] = @ + 1] /\ UNCHANGED pc
            /\ UNCHANGED <<nodes, due, awoken, timeout>>
    /\ UNCHANGED <<cores, devs, nodeWaits, sleepQ, readyQ, sig>>

\* Mutant: the timer is started, but is not among the things waited for.
MutTimerNotListed(p) ==
    LET s == Sleeper(p, due[p], TRUE) IN
    /\ pc[p] = "join"
    /\ waiters' = [n \in Node |->
                     IF n \in Range(nodes[p]) /\ p \notin Range(waiters[n])
                     THEN Append(waiters[n], p) ELSE waiters[n]]
    /\ nodeWaits' = [nodeWaits EXCEPT ![p] = nodes[p]]
    /\ timeout' = [timeout EXCEPT ![p] = IF due[p] = Never THEN None ELSE s.id]
    /\ sleepQ' = IF due[p] = Never THEN sleepQ ELSE Inserted(s)
    /\ awoken' = [awoken EXCEPT ![p] = -1]
    /\ Goto(p, "off")
    /\ UNCHANGED <<args, due, ready, dev, readyQ, sig>>

\* Under sleep_lock: register with every node, and set the timer.
Join(p) ==
    LET s == Sleeper(p, due[p], TRUE) IN
    /\ pc[p] = "join"
    /\ waiters' = [n \in Node |->
                     IF n \in Range(nodes[p]) /\ p \notin Range(waiters[n])
                     THEN Append(waiters[n], p) ELSE waiters[n]]
    /\ IF due[p] = Never
       THEN /\ nodeWaits' = [nodeWaits EXCEPT ![p] = nodes[p]]
            /\ timeout' = [timeout EXCEPT ![p] = None]
            /\ UNCHANGED sleepQ
       ELSE /\ nodeWaits' = [nodeWaits EXCEPT ![p] = Append(nodes[p], s.id)]
            /\ timeout' = [timeout EXCEPT ![p] = s.id]
            /\ sleepQ' = Inserted(s)
    /\ awoken' = [awoken EXCEPT ![p] = -1]
    /\ Goto(p, "off")
    /\ UNCHANGED <<args, due, ready, dev, readyQ, sig>>

\* sys_sleep, sys_sleepabs: sleep_until, under sleep_lock.
Sleep(p, t) ==
    LET s == Sleeper(p, t, FALSE) IN
    /\ pc[p] = "user" /\ CoreFree
    /\ nodes' = [nodes EXCEPT ![p] = <<>>]
    /\ due' = [due EXCEPT ![p] = t]
    /\ sleepQ' = Inserted(s)
    /\ timeout' = [timeout EXCEPT ![p] = s.id]
    /\ Goto(p, "off")
    /\ UNCHANGED <<cores, asked, devs, nodeWaits, awoken, readyQ, sig>>

\* switch_task returns, after a pending signal has been handled, and the call
\* with it.
Resume(p) ==
    /\ pc[p] = "off" /\ p \in readyQ /\ CoreFree
    /\ readyQ' = readyQ \ {p}
    /\ sig' = sig \ {p}
    /\ Return(p)
    /\ UNCHANGED <<cores, devs, nodeWaits, sleepQ>>

----------------------------------------------------------------------------
(* The wakers *)

\* Data arrives at a node.
Put(n) ==
    /\ dev[n] = "idle" /\ CoreFree
    /\ ready' = ready \cup {n}
    /\ dev' = [dev EXCEPT ![n] = "alert"]
    /\ UNCHANGED <<args, pc, due, waiters, waits, sig>>

\* Mutant: only the first waiter is alerted.
MutAlertOne(n) ==
    /\ dev[n] = "alert"
    /\ dev' = [dev EXCEPT ![n] = IF waiters[n] = <<>> THEN "idle" ELSE Head(waiters[n])]
    /\ waiters' = [waiters EXCEPT ![n] = <<>>]
    /\ UNCHANGED <<args, pc, due, ready, waits, sig>>

\* One turn of ring_buffer_alert_waiters, pipe_alert_waiters or net_sock_alert.
NextWaiter(n) ==
    /\ dev[n] = "alert"
    /\ IF waiters[n] = <<>>
       THEN dev' = [dev EXCEPT ![n] = "idle"] /\ UNCHANGED waiters
       ELSE /\ dev' = [dev EXCEPT ![n] = Head(waiters[n])]
            /\ waiters' = [waiters EXCEPT ![n] = Tail(@)]
    /\ UNCHANGED <<args, pc, due, ready, waits, sig>>

\* process_alert_node: nothing to do for a process that is gone, is not in
\* fswait any more, or waits for other nodes now.
Alert(n) ==
    LET p == dev[n] IN
    /\ p \in Proc
    /\ dev' = [dev EXCEPT ![n] = "alert"]
    /\ IF pc[p] # "dead" /\ nodeWaits[p] # None /\ n \in Range(nodeWaits[p])
       THEN Awaken(p, SelectInSeq(nodeWaits[p], LAMBDA m : m = n) - 1)
       ELSE UNCHANGED waits
    /\ UNCHANGED <<args, pc, due, ready, waiters, sig>>

\* A reader takes what a node has.
Take(n) ==
    /\ n \in ready /\ dev[n] = "idle" /\ CoreFree
    /\ ready' = ready \ {n}
    /\ UNCHANGED <<args, pc, due, waiters, dev, waits, sig>>

\* Mutant: a record is taken to have expired one tick early.
MutEarly ==
    LET later == SelectInSeq(sleepQ, LAMBDA r : r.left > 2)
    IN  IF later = 0 THEN Len(sleepQ) ELSE later - 1

\* How many records at the head of sleep_queue have expired a tick later.
Expired ==
    LET later == SelectInSeq(sleepQ, LAMBDA r : r.left > 1)
    IN  IF later = 0 THEN Len(sleepQ) ELSE later - 1

\* The expired record of p that ends a timed sleep, or the fswait p is in.
Fires(p) ==
    \E i \in 1..Expired :
        /\ sleepQ[i].proc = p
        /\ sleepQ[i].fswait =>
              /\ pc[p] # "dead" /\ nodeWaits[p] # None
              /\ sleepQ[i].id \in Range(nodeWaits[p])

\* The index a timeout reports: that of the sleeper, behind the nodes.
TimeoutIndex(p) == Len(nodeWaits[p]) - 1

\* The clock interrupt: time passes for the calls that have set their end time
\* (process_timeout_sleep), and wakeup_sleepers takes everything that has expired
\* off the queue.
Tick ==
    /\ CoreFree
    /\ due' = [p \in Proc |->
                  IF pc[p] = "off" /\ due[p] \notin {Never, 0} THEN due[p] - 1 ELSE due[p]]
    /\ sleepQ' = [i \in 1..(Len(sleepQ) - Expired) |->
                    [sleepQ[i + Expired] EXCEPT !.left = @ - 1]]
    /\ readyQ' = readyQ \cup {p \in Proc : Fires(p)}
    /\ awoken' = [p \in Proc |->
                    IF Fires(p) /\ nodeWaits[p] # None THEN TimeoutIndex(p) ELSE awoken[p]]
    /\ nodeWaits' = [p \in Proc |-> IF Fires(p) THEN None ELSE nodeWaits[p]]
    /\ timeout' = [p \in Proc |-> IF Fires(p) THEN None ELSE timeout[p]]
    /\ UNCHANGED <<args, pc, devs, sig>>

\* send_signal: end an fswait with process_awaken_signal, or a timed sleep with
\* make_process_ready; a process that is ready already only gets the signal.
Signal(p) ==
    /\ cores = 1 /\ CoreFree
    /\ pc[p] = "off" /\ p \notin sig
    /\ sig' = sig \cup {p}
    /\ IF nodeWaits[p] # None THEN Awaken(p, -1)
       ELSE /\ IF p \notin readyQ THEN sleepQ' = Without(p) ELSE UNCHANGED sleepQ
            /\ readyQ' = readyQ \cup {p}
            /\ UNCHANGED <<nodeWaits, timeout, awoken>>
    /\ UNCHANGED <<args, pc, due, devs>>

\* A process exits; alert_waiters still name it.  (One that gets its address
\* later is in the state that this one was in.)
Exit(p) ==
    /\ pc[p] = "user" /\ CoreFree
    /\ Goto(p, "dead")
    /\ UNCHANGED <<args, due, devs, waits, sig>>

----------------------------------------------------------------------------

Kernel(p) == Check(p) \/ Join(p)
Call(p) ==
    \/ \E ns \in Polls, t \in Timeouts : FsWait(p, ns, t)
    \/ \E t \in Sleeps : Sleep(p, t)
    \/ Exit(p)
Device(n) == NextWaiter(n) \/ Alert(n)

Next ==
    \/ \E p \in Proc : Call(p) \/ Kernel(p) \/ Resume(p) \/ Signal(p)
    \/ \E n \in Node : Put(n) \/ Device(n) \/ Take(n)
    \/ Tick

Spec == Init /\ [][Next]_vars

\* Kernel code and interrupt handlers run on, the clock keeps interrupting, and
\* the scheduler runs every ready process in the end.
FairSpec ==
    /\ Spec
    /\ \A p \in Proc : WF_vars(Kernel(p)) /\ SF_vars(Resume(p))
    /\ \A n \in Node : WF_vars(Device(n))
    /\ SF_vars(Tick)

----------------------------------------------------------------------------
(* Properties *)

Blocked(p) == pc[p] = "off" /\ p \notin readyQ

\* Alert, timeout and signal compete for one sleeper: the first one takes its
\* node_waits away, and the others find nothing.  So no sleeper is made ready
\* twice, and none that is out of fswait is taken for one that is in it.
WokenOnce ==
    \A p \in Proc :
        /\ p \in readyQ => pc[p] = "off"
        /\ nodeWaits[p] # None <=> Blocked(p) /\ nodes[p] # <<>>

\* sleep_queue is in order of time, so that stopping at the first record that
\* has not expired misses none; it has one record for each blocked call with a
\* time, and nothing left over from a call that has ended.
TimersMatch ==
    /\ \A i, j \in DOMAIN sleepQ : i < j =>
          /\ sleepQ[i].left <= sleepQ[j].left
          /\ sleepQ[i].proc # sleepQ[j].proc
    /\ \A r \in Range(sleepQ) :
          /\ Blocked(r.proc) /\ r.left = due[r.proc]
          /\ r.fswait <=> nodes[r.proc] # <<>>
    /\ \A p \in Proc :
          Blocked(p) /\ due[p] # Never => \E r \in Range(sleepQ) : r.proc = p

\* What a call reports is what happened: the timeout index, or a full sleep, only
\* when the time is up, and an interruption only with a signal.
HonestReason ==
    \A p \in readyQ \ sig :
        IF nodes[p] = <<>> THEN due[p] = 0
        ELSE /\ awoken[p] \in 0..Len(nodes[p])
             /\ awoken[p] = Len(nodes[p]) => due[p] = 0

\* On one processor nothing runs between the last question and the registration:
\* a process that sleeps on a node with data is about to be alerted.
SleepsForData ==
    cores = 1 => \A p \in Proc, n \in ready :
        Blocked(p) /\ n \in Range(nodes[p]) => dev[n] # "idle"

\* A sleep, and an fswait with a timeout, ends.
TimeoutReturns ==
    \A p \in Proc : pc[p] \in {"join", "off"} /\ due[p] # Never ~> pc[p] = "user"

\* An alert wakes whoever has registered, however many there are.
AlertReturns ==
    \A p \in Proc :
        (pc[p] = "off" /\ \E n \in Range(nodes[p]) \cap Node : dev[n] = "alert")
            ~> pc[p] = "user"
=============================================================================
