-------------------------- MODULE LifecycleProofs --------------------------
(***************************************************************************)
(* No exit and, on one processor, no stop is missed by waitpid, for every   *)
(* number of processes and processors.                                      *)
(***************************************************************************)
EXTENDS Lifecycle, FiniteSetTheorems, TLAPS

Wants == [who : Proc \cup {None}, stopped : BOOLEAN, hang : BOOLEAN]

LType ==
    /\ cores \in Nat \ {0}
    /\ pc \in [Proc -> PcVals]
    /\ parent \in [Proc -> Proc \cup {None}]
    /\ waker \in [Proc -> Proc \cup {None}]
    /\ want \in [Proc -> Wants \cup {None}]
    /\ found \in [Proc -> Proc \cup {None}]
    /\ queued \subseteq Proc

QueuedAsleep == \A p \in queued : pc[p] = "asleep"

\* On one processor, kernel code runs to its end.
KernelOne == cores = 1 => \A p, q \in InKernel : p = q

FoundChild == \A p \in Proc : pc[p] = "delete" => found[p] \in Proc

\* The parent that task_exit has found is still the parent when it is woken,
\* unless the child has been handed to init in the meantime.
WakerIsParent ==
    \A c \in Proc : pc[c] \in {"exit", "finished"} =>
        parent[c] = waker[c] \/ (parent[c] = init /\ cores # 1)

\* From the scan of waitpid to its sleep no child becomes a zombie.
LinkFresh ==
    \A p \in Proc : pc[p] = "link" /\ (p # init \/ cores = 1) =>
        \A c \in Matching(p) : pc[c] # "zombie"

\* On one processor no child stops between the scan and the sleep.
LinkStop ==
    cores = 1 => \A p \in Proc : pc[p] = "link" /\ want[p].stopped =>
        \A c \in Matching(p) : c \notin suspended

LInv ==
    /\ LType
    /\ QueuedAsleep
    /\ KernelOne
    /\ FoundChild
    /\ WakerIsParent
    /\ LinkFresh
    /\ LinkStop
    /\ ExitSeen
    /\ StopSeen

----------------------------------------------------------------------------

\* The processes are finitely many, so that on one processor a free core means
\* that no kernel code is running.
LEMMA FreeMeansEmpty == LType /\ CoreFree /\ cores = 1 => InKernel = {}
<1> SUFFICES ASSUME LType, CoreFree, cores = 1 PROVE InKernel = {}
  OBVIOUS
<1>1. IsFiniteSet(Proc)
  BY FS_Interval, LifecycleAssumption DEF Proc
<1>2. InKernel \subseteq Proc
  BY DEF InKernel
<1>3. IsFiniteSet(InKernel) /\ Cardinality(InKernel) \in Nat
  BY <1>1, <1>2, FS_Subset, FS_CardinalityType
<1>4. Cardinality(InKernel) = 0
  BY <1>3 DEF CoreFree
<1> QED BY <1>3, <1>4, FS_EmptySet

\* At boot there is only init.
LEMMA InitLInv == Init => LInv
BY LifecycleAssumption DEF Init, LInv, LType, QueuedAsleep, KernelOne, FoundChild, WakerIsParent,
   LinkFresh, LinkStop, ExitSeen, StopSeen, InKernel, Proc, init, PcVals, Wants

\* The new child is running and its parent is not in waitpid (fork).
LEMMA ForkStep ==
    ASSUME NEW p \in Proc, NEW c \in Proc, LInv, Fork(p, c)
    PROVE  LInv'
<1> USE DEF Fork, InUser, Goto, waits
<1>0. LType /\ QueuedAsleep /\ KernelOne /\ FoundChild /\ WakerIsParent
      /\ LinkFresh /\ LinkStop /\ ExitSeen /\ StopSeen
  BY DEF LInv
<1>a. CoreFree /\ (cores = 1 => InKernel = {})
  BY <1>0, FreeMeansEmpty
<1>1. LType'
  BY <1>0 DEF LType, PcVals
<1>2. QueuedAsleep'
  BY <1>0 DEF LType, QueuedAsleep
<1>3. KernelOne'
  BY <1>0, <1>a DEF LType, KernelOne, InKernel
<1>4. FoundChild'
  BY <1>0 DEF LType, FoundChild
<1>5. WakerIsParent'
  BY <1>0 DEF LType, WakerIsParent
<1>6. LinkFresh'
  BY <1>0 DEF LType, LinkFresh, KernelOne, InKernel, Matching, Children
<1>7. LinkStop'
  BY <1>0, <1>a DEF LType, LinkStop, KernelOne, InKernel, Matching, Children
<1>8. ExitSeen'
  BY <1>0 DEF LType, QueuedAsleep, ExitSeen, Matching, Children
<1>9. StopSeen'
  BY <1>0, <1>a DEF LType, QueuedAsleep, StopSeen, Matching, Children
<1> QED BY <1>1, <1>2, <1>3, <1>4, <1>5, <1>6, <1>7, <1>8, <1>9 DEF LInv

\* A caller of waitpid is not yet asleep.
LEMMA WaitPidStep ==
    ASSUME NEW p \in Proc, NEW args \in Wants, LInv, WaitPid(p, args)
    PROVE  LInv'
<1> USE DEF WaitPid, InUser, Goto, tree
<1>0. LType /\ QueuedAsleep /\ KernelOne /\ FoundChild /\ WakerIsParent
      /\ LinkFresh /\ LinkStop /\ ExitSeen /\ StopSeen
  BY DEF LInv
<1>a. CoreFree /\ (cores = 1 => InKernel = {})
  BY <1>0, FreeMeansEmpty
<1>1. LType'
  BY <1>0 DEF LType, PcVals
<1>2. QueuedAsleep'
  BY <1>0 DEF LType, QueuedAsleep
<1>3. KernelOne'
  BY <1>0, <1>a DEF LType, KernelOne, InKernel
<1>4. FoundChild'
  BY <1>0 DEF LType, FoundChild
<1>5. WakerIsParent'
  BY <1>0 DEF LType, WakerIsParent
<1>6. LinkFresh'
  BY <1>0 DEF LType, LinkFresh, KernelOne, InKernel, Matching, Children
<1>7. LinkStop'
  BY <1>0, <1>a DEF LType, LinkStop, KernelOne, InKernel, Matching, Children
<1>8. ExitSeen'
  BY <1>0 DEF LType, QueuedAsleep, ExitSeen, Matching, Children
<1>9. StopSeen'
  BY <1>0, <1>a DEF LType, QueuedAsleep, StopSeen, Matching, Children
<1> QED BY <1>1, <1>2, <1>3, <1>4, <1>5, <1>6, <1>7, <1>8, <1>9 DEF LInv

\* waitpid goes on to sleep only when its scan has found no finished child, and
\* no stopped one if it wants those.
LEMMA ScanStep ==
    ASSUME NEW p \in Proc, LInv, Scan(p)
    PROVE  LInv'
<1> USE DEF Scan, Return, Goto, tree
<1>0. LType /\ QueuedAsleep /\ KernelOne /\ FoundChild /\ WakerIsParent
      /\ LinkFresh /\ LinkStop /\ ExitSeen /\ StopSeen
  BY DEF LInv
<1>1. LType'
  BY <1>0 DEF LType, PcVals, Candidates, Matching, Children
<1>2. QueuedAsleep'
  BY <1>0 DEF LType, QueuedAsleep
<1>3. KernelOne'
  BY <1>0 DEF LType, KernelOne, InKernel
<1>4. FoundChild'
  BY <1>0 DEF LType, FoundChild, Candidates, Matching, Children
<1>5. WakerIsParent'
  BY <1>0 DEF LType, WakerIsParent
<1>6. LinkFresh'
  BY <1>0 DEF LType, LinkFresh, KernelOne, InKernel, Candidates, Finished, Matching, Children
<1>7. LinkStop'
  BY <1>0 DEF LType, LinkStop, KernelOne, InKernel, Candidates, Matching, Children
<1>8. ExitSeen'
  BY <1>0 DEF LType, QueuedAsleep, ExitSeen, Matching, Children
<1>9. StopSeen'
  BY <1>0 DEF LType, QueuedAsleep, StopSeen, Matching, Children
<1> QED BY <1>1, <1>2, <1>3, <1>4, <1>5, <1>6, <1>7, <1>8, <1>9 DEF LInv

\* What the scan has found still holds when sleep_on_unlocking links the caller.
LEMMA LinkStep ==
    ASSUME NEW p \in Proc, LInv, Link(p)
    PROVE  LInv'
<1> USE DEF Link, Goto, tree
<1>0. LType /\ QueuedAsleep /\ KernelOne /\ FoundChild /\ WakerIsParent
      /\ LinkFresh /\ LinkStop /\ ExitSeen /\ StopSeen
  BY DEF LInv
<1>1. LType'
  BY <1>0 DEF LType, PcVals
<1>2. QueuedAsleep'
  BY <1>0 DEF LType, QueuedAsleep
<1>3. KernelOne'
  BY <1>0 DEF LType, KernelOne, InKernel
<1>4. FoundChild'
  BY <1>0 DEF LType, FoundChild
<1>5. WakerIsParent'
  BY <1>0 DEF LType, WakerIsParent
<1>6. LinkFresh'
  BY <1>0 DEF LType, LinkFresh, Matching, Children
<1>7. LinkStop'
  BY <1>0 DEF LType, LinkStop, Matching, Children
<1>8. ExitSeen'
  BY <1>0 DEF LType, QueuedAsleep, ExitSeen, LinkFresh, Matching, Children
<1>9. StopSeen'
  BY <1>0 DEF LType, QueuedAsleep, StopSeen, LinkStop, Matching, Children
<1> QED BY <1>1, <1>2, <1>3, <1>4, <1>5, <1>6, <1>7, <1>8, <1>9 DEF LInv

\* process_delete hands children only to init, and takes init off its wait queue
\* for them.
LEMMA DeleteStep ==
    ASSUME NEW p \in Proc, LInv, Delete(p)
    PROVE  LInv'
<1> USE DEF Delete
<1>0. LType /\ QueuedAsleep /\ KernelOne /\ FoundChild /\ WakerIsParent
      /\ LinkFresh /\ LinkStop /\ ExitSeen /\ StopSeen
  BY DEF LInv
<1>1. LType'
  BY <1>0, LifecycleAssumption DEF LType, PcVals, FoundChild, Proc, init
<1>2. QueuedAsleep'
  BY <1>0 DEF LType, QueuedAsleep, FoundChild
<1>3. KernelOne'
  BY <1>0 DEF LType, KernelOne, InKernel, FoundChild
<1>4. FoundChild'
  BY <1>0 DEF LType, FoundChild
<1>5. WakerIsParent'
  BY <1>0 DEF LType, WakerIsParent, KernelOne, InKernel, FoundChild
<1>6. LinkFresh'
  BY <1>0 DEF LType, LinkFresh, KernelOne, InKernel, Matching, Children, FoundChild
<1>7. LinkStop'
  BY <1>0 DEF LType, LinkStop, KernelOne, InKernel, Matching, Children, FoundChild
<1>8. ExitSeen'
  BY <1>0 DEF LType, QueuedAsleep, ExitSeen, Matching, Children, FoundChild
<1>9. StopSeen'
  BY <1>0 DEF LType, QueuedAsleep, StopSeen, Matching, Children, FoundChild
<1> QED BY <1>1, <1>2, <1>3, <1>4, <1>5, <1>6, <1>7, <1>8, <1>9 DEF LInv

\* task_exit notes the parent it will wake.
LEMMA ExitStep ==
    ASSUME NEW p \in Proc, LInv, Exit(p)
    PROVE  LInv'
<1> USE DEF Exit, BeginExit, InUser, Goto, tree
<1>0. LType /\ QueuedAsleep /\ KernelOne /\ FoundChild /\ WakerIsParent
      /\ LinkFresh /\ LinkStop /\ ExitSeen /\ StopSeen
  BY DEF LInv
<1>a. CoreFree /\ (cores = 1 => InKernel = {})
  BY <1>0, FreeMeansEmpty
<1>1. LType'
  BY <1>0 DEF LType, PcVals
<1>2. QueuedAsleep'
  BY <1>0 DEF LType, QueuedAsleep
<1>3. KernelOne'
  BY <1>0, <1>a DEF LType, KernelOne, InKernel
<1>4. FoundChild'
  BY <1>0 DEF LType, FoundChild
<1>5. WakerIsParent'
  BY <1>0 DEF LType, WakerIsParent
<1>6. LinkFresh'
  BY <1>0 DEF LType, LinkFresh, KernelOne, InKernel, Matching, Children
<1>7. LinkStop'
  BY <1>0, <1>a DEF LType, LinkStop, KernelOne, InKernel, Matching, Children
<1>8. ExitSeen'
  BY <1>0 DEF LType, QueuedAsleep, ExitSeen, Matching, Children
<1>9. StopSeen'
  BY <1>0, <1>a DEF LType, QueuedAsleep, StopSeen, Matching, Children
<1> QED BY <1>1, <1>2, <1>3, <1>4, <1>5, <1>6, <1>7, <1>8, <1>9 DEF LInv

\* A process that sets FINISHED is not a zombie before it has woken its parent.
LEMMA SetFinishedStep ==
    ASSUME NEW p \in Proc, LInv, SetFinished(p)
    PROVE  LInv'
<1> USE DEF SetFinished, Goto, tree, waits
<1>0. LType /\ QueuedAsleep /\ KernelOne /\ FoundChild /\ WakerIsParent
      /\ LinkFresh /\ LinkStop /\ ExitSeen /\ StopSeen
  BY DEF LInv
<1>1. LType'
  BY <1>0 DEF LType, PcVals
<1>2. QueuedAsleep'
  BY <1>0 DEF LType, QueuedAsleep
<1>3. KernelOne'
  BY <1>0 DEF LType, KernelOne, InKernel
<1>4. FoundChild'
  BY <1>0 DEF LType, FoundChild
<1>5. WakerIsParent'
  BY <1>0 DEF LType, WakerIsParent
<1>6. LinkFresh'
  BY <1>0 DEF LType, LinkFresh, Matching, Children
<1>7. LinkStop'
  BY <1>0 DEF LType, LinkStop, Matching, Children
<1>8. ExitSeen'
  BY <1>0 DEF LType, QueuedAsleep, ExitSeen, Matching, Children
<1>9. StopSeen'
  BY <1>0 DEF LType, QueuedAsleep, StopSeen, Matching, Children
<1> QED BY <1>1, <1>2, <1>3, <1>4, <1>5, <1>6, <1>7, <1>8, <1>9 DEF LInv

\* A child that has finished takes its parent off the wait queue, under the
\* wait_lock that a parent between scan and sleep holds.
LEMMA WakeParentStep ==
    ASSUME NEW p \in Proc, LInv, WakeParent(p)
    PROVE  LInv'
<1> USE DEF WakeParent, Goto, tree
<1>0. LType /\ QueuedAsleep /\ KernelOne /\ FoundChild /\ WakerIsParent
      /\ LinkFresh /\ LinkStop /\ ExitSeen /\ StopSeen
  BY DEF LInv
<1>1. LType'
  BY <1>0 DEF LType, PcVals
<1>2. QueuedAsleep'
  BY <1>0 DEF LType, QueuedAsleep
<1>3. KernelOne'
  BY <1>0 DEF LType, KernelOne, InKernel
<1>4. FoundChild'
  BY <1>0 DEF LType, FoundChild
<1>5. WakerIsParent'
  BY <1>0 DEF LType, WakerIsParent
<1>6. LinkFresh'
  BY <1>0 DEF LType, LinkFresh, WakerIsParent, KernelOne, InKernel, Matching, Children
<1>7. LinkStop'
  BY <1>0 DEF LType, LinkStop, KernelOne, InKernel, Matching, Children
<1>8. ExitSeen'
  BY <1>0 DEF LType, QueuedAsleep, ExitSeen, WakerIsParent, Matching, Children
<1>9. StopSeen'
  BY <1>0 DEF LType, QueuedAsleep, StopSeen, Matching, Children
<1> QED BY <1>1, <1>2, <1>3, <1>4, <1>5, <1>6, <1>7, <1>8, <1>9 DEF LInv

\* switch_task returns to a process that is in no wait queue; handling its
\* signals may stop it or end it.
LEMMA ResumeStep ==
    ASSUME NEW p \in Proc, LInv, Resume(p)
    PROVE  LInv'
<1> USE DEF Resume, Handle, BeginExit, Return, Goto, tree
<1>0. LType /\ QueuedAsleep /\ KernelOne /\ FoundChild /\ WakerIsParent
      /\ LinkFresh /\ LinkStop /\ ExitSeen /\ StopSeen
  BY DEF LInv
<1>a. CoreFree /\ (cores = 1 => InKernel = {})
  BY <1>0, FreeMeansEmpty
<1>1. LType'
  BY <1>0 DEF LType, PcVals
<1>2. QueuedAsleep'
  BY <1>0 DEF LType, QueuedAsleep
<1>3. KernelOne'
  BY <1>0, <1>a DEF LType, KernelOne, InKernel
<1>4. FoundChild'
  BY <1>0 DEF LType, FoundChild
<1>5. WakerIsParent'
  BY <1>0 DEF LType, WakerIsParent
<1>6. LinkFresh'
  BY <1>0 DEF LType, LinkFresh, KernelOne, InKernel, Matching, Children
<1>7. LinkStop'
  BY <1>0, <1>a DEF LType, LinkStop, KernelOne, InKernel, Matching, Children
<1>8. ExitSeen'
  BY <1>0 DEF LType, QueuedAsleep, ExitSeen, Matching, Children
<1>9. StopSeen'
  BY <1>0, <1>a DEF LType, QueuedAsleep, StopSeen, Matching, Children
<1> QED BY <1>1, <1>2, <1>3, <1>4, <1>5, <1>6, <1>7, <1>8, <1>9 DEF LInv

\* A process that stops takes its parent off the wait queue.
LEMMA WakeOnStopStep ==
    ASSUME NEW p \in Proc, LInv, WakeOnStop(p)
    PROVE  LInv'
<1> USE DEF WakeOnStop, Goto, tree
<1>0. LType /\ QueuedAsleep /\ KernelOne /\ FoundChild /\ WakerIsParent
      /\ LinkFresh /\ LinkStop /\ ExitSeen /\ StopSeen
  BY DEF LInv
<1>1. LType'
  BY <1>0 DEF LType, PcVals
<1>2. QueuedAsleep'
  BY <1>0 DEF LType, QueuedAsleep
<1>3. KernelOne'
  BY <1>0 DEF LType, KernelOne, InKernel
<1>4. FoundChild'
  BY <1>0 DEF LType, FoundChild
<1>5. WakerIsParent'
  BY <1>0 DEF LType, WakerIsParent
<1>6. LinkFresh'
  BY <1>0 DEF LType, LinkFresh, Matching, Children
<1>7. LinkStop'
  BY <1>0 DEF LType, LinkStop, Matching, Children
<1>8. ExitSeen'
  BY <1>0 DEF LType, QueuedAsleep, ExitSeen, Matching, Children
<1>9. StopSeen'
  BY <1>0 DEF LType, QueuedAsleep, StopSeen, Matching, Children
<1> QED BY <1>1, <1>2, <1>3, <1>4, <1>5, <1>6, <1>7, <1>8, <1>9 DEF LInv

\* send_signal stops nobody by itself; it only takes a sleeper off its queue.
LEMMA SignalStep ==
    ASSUME NEW p \in Proc, NEW s, LInv, Signal(p, s)
    PROVE  LInv'
<1> USE DEF Signal, Deliver, tree
<1>0. LType /\ QueuedAsleep /\ KernelOne /\ FoundChild /\ WakerIsParent
      /\ LinkFresh /\ LinkStop /\ ExitSeen /\ StopSeen
  BY DEF LInv
<1>1. LType'
  BY <1>0 DEF LType, PcVals
<1>2. QueuedAsleep'
  BY <1>0 DEF LType, QueuedAsleep
<1>3. KernelOne'
  BY <1>0 DEF LType, KernelOne, InKernel
<1>4. FoundChild'
  BY <1>0 DEF LType, FoundChild
<1>5. WakerIsParent'
  BY <1>0 DEF LType, WakerIsParent
<1>6. LinkFresh'
  BY <1>0 DEF LType, LinkFresh, Matching, Children
<1>7. LinkStop'
  BY <1>0 DEF LType, LinkStop, Matching, Children
<1>8. ExitSeen'
  BY <1>0 DEF LType, QueuedAsleep, ExitSeen, Matching, Children
<1>9. StopSeen'
  BY <1>0 DEF LType, QueuedAsleep, StopSeen, Matching, Children
<1> QED BY <1>1, <1>2, <1>3, <1>4, <1>5, <1>6, <1>7, <1>8, <1>9 DEF LInv

\* A process that stops itself has yet to wake its parent.
LEMMA RaiseStep ==
    ASSUME NEW p \in Proc, LInv, Raise(p)
    PROVE  LInv'
<1> USE DEF Raise, InUser, Goto, tree, waits
<1>0. LType /\ QueuedAsleep /\ KernelOne /\ FoundChild /\ WakerIsParent
      /\ LinkFresh /\ LinkStop /\ ExitSeen /\ StopSeen
  BY DEF LInv
<1>a. CoreFree /\ (cores = 1 => InKernel = {})
  BY <1>0, FreeMeansEmpty
<1>1. LType'
  BY <1>0 DEF LType, PcVals
<1>2. QueuedAsleep'
  BY <1>0 DEF LType, QueuedAsleep
<1>3. KernelOne'
  BY <1>0, <1>a DEF LType, KernelOne, InKernel
<1>4. FoundChild'
  BY <1>0 DEF LType, FoundChild
<1>5. WakerIsParent'
  BY <1>0 DEF LType, WakerIsParent
<1>6. LinkFresh'
  BY <1>0 DEF LType, LinkFresh, KernelOne, InKernel, Matching, Children
<1>7. LinkStop'
  BY <1>0, <1>a DEF LType, LinkStop, KernelOne, InKernel, Matching, Children
<1>8. ExitSeen'
  BY <1>0 DEF LType, QueuedAsleep, ExitSeen, Matching, Children
<1>9. StopSeen'
  BY <1>0, <1>a DEF LType, QueuedAsleep, StopSeen, Matching, Children
<1> QED BY <1>1, <1>2, <1>3, <1>4, <1>5, <1>6, <1>7, <1>8, <1>9 DEF LInv

\* waitpid(-1) of init, and whatever else a process passes to it.
LEMMA WaitArguments ==
    /\ Waits \subseteq Wants
    /\ [who |-> None, stopped |-> FALSE, hang |-> TRUE] \in Wants
    /\ init \in Proc
BY LifecycleAssumption DEF Wants, Proc, init

\* Every step of a process, the scheduler or a sender of signals keeps LInv.
LEMMA NextLInv == LInv /\ [Next]_vars => LInv'
<1> SUFFICES ASSUME LInv, [Next]_vars PROVE LInv'
  OBVIOUS
<1>1. CASE UNCHANGED vars
  BY <1>1 DEF vars, LInv, LType, QueuedAsleep, KernelOne, FoundChild, WakerIsParent, LinkFresh,
     LinkStop, ExitSeen, StopSeen, InKernel, Matching, Children
<1>2. CASE InitWaits
  BY <1>2, WaitPidStep, WaitArguments DEF InitWaits
<1>3. ASSUME NEW p \in Proc, Kernel(p) PROVE LInv'
  BY <1>3, ScanStep, LinkStep, DeleteStep, SetFinishedStep, WakeParentStep, WakeOnStopStep DEF Kernel
<1>4. ASSUME NEW p \in Proc, Resume(p) \/ Exit(p) \/ Raise(p) PROVE LInv'
  BY <1>4, ResumeStep, ExitStep, RaiseStep
<1>5. ASSUME NEW p \in Proc, NEW c \in Proc \ {init}, Fork(p, c) PROVE LInv'
  BY <1>5, ForkStep
<1>6. ASSUME NEW p \in Proc, NEW args \in Waits, WaitPid(p, args) PROVE LInv'
  BY <1>6, WaitPidStep, WaitArguments
<1>7. ASSUME NEW p \in Proc, NEW s \in {"KILL", "STOP", "CONT"}, Signal(p, s) PROVE LInv'
  BY <1>7, SignalStep
<1> QED BY <1>1, <1>2, <1>3, <1>4, <1>5, <1>6, <1>7 DEF Next

\* The inductive invariant of the process tree: the order of scan, sleep and
\* wakeup in waitpid and task_exit.
THEOREM LifecycleInvariance == Spec => []LInv
BY InitLInv, NextLInv, PTL DEF Spec

\* waitpid misses no exit: the wait_lock is held from the scan to the sleep, and a
\* child that has finished takes it before it wakes the parent it found.
THEOREM ExitIsSeen == Spec => []ExitSeen
<1>1. LInv => ExitSeen BY DEF LInv
<1> QED BY <1>1, LifecycleInvariance, PTL

\* On one processor waitpid with WUNTRACED misses no stop, although the wakeup of
\* a stopping child does not take the wait_lock.
THEOREM StopIsSeen == Spec => []StopSeen
<1>1. LInv => StopSeen BY DEF LInv
<1> QED BY <1>1, LifecycleInvariance, PTL
=============================================================================
