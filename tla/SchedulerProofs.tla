--------------------------- MODULE SchedulerProofs ---------------------------
(***************************************************************************)
(* Proofs about Scheduler, for any number of cores, processes and queues.   *)
(***************************************************************************)
EXTENDS Scheduler, ListLemmas

\* The process core c executes or is about to resume.
Token(c) == IF pc[c] \in ExecPcs \cup {"restore"} THEN cur[c] ELSE None

\* The shape of a core's local state at each program point.
CoreShape ==
    \A c \in Core :
        /\ hand[c] \in Proc <=> pc[c] \in {"mark", "own", "ready"}
        /\ pc[c] \in Switching => prev[c] \in Task
        /\ pc[c] \in {"pick", "mark", "own"} => cur[c] = prev[c]
        /\ pc[c] \in {"enter", "block", "yield", "resched", "exit"} => cur[c] \in Proc
        /\ pc[c] = "enter" => wq[c] \in Queue

\* wait_lock_tmp is held exactly by the core that is in a wakeup function.
LockShape ==
    \A c \in Core :
        /\ pc[c] = "wake" => waitLock = c
        /\ waitLock = c => pc[c] \in {"wake", "ready"} /\ wq[c] \in Queue

\* The queues are lists without repetition and share no process.
QueueShape ==
    /\ IsInjective(readyQ)
    /\ \A q \in Queue : IsInjective(waitQ[q])
    /\ \A q, r \in Queue : q # r => Range(waitQ[q]) \cap Range(waitQ[r]) = {}
    /\ IsInjective(reapQ)

\* A process has at most one token: a core, a hand, or a place in a queue.
TokenUnique ==
    /\ \A c, d \in Core : c # d /\ Token(c) \in Proc => Token(c) # Token(d)
    /\ \A c, d \in Core : c # d /\ hand[c] \in Proc => hand[c] # hand[d]
    /\ \A c, d \in Core : hand[c] \in Proc => hand[c] # Token(d)
    /\ \A c \in Core : Token(c) \notin Ready \cup Asleep
    /\ \A c \in Core : hand[c] \notin Ready \cup Asleep
    /\ Ready \cap Asleep = {}

\* ... and a live process has one.
TokenExists ==
    \A p \in alloc \ finished :
        \/ p \in Ready \cup Asleep
        \/ \E c \in Core : hand[c] = p \/ Token(c) = p

\* RUNNING and owner name the core whose stack is the process's.
StackOwned ==
    /\ \A c \in Core : Stack(c) \in Proc => Stack(c) \in running /\ owner[Stack(c)] = c
    /\ \A c \in Core : pc[c] = "restore" /\ cur[c] \in Proc
                           => cur[c] \in running /\ owner[cur[c]] = c
    /\ \A c \in Core : pc[c] = "own" => hand[c] \in running
    /\ \A c, d \in Core : c # d /\ pc[c] \in {"mark", "own"} => Stack(d) # hand[c]

\* A finished process keeps a token only while task_exit runs.
FinishedShape ==
    /\ \A c \in Core : hand[c] \notin finished
    /\ \A c \in Core : pc[c] = "exit" => cur[c] \in finished
    /\ finished \cap (Ready \cup Asleep) = {}
    /\ \A c \in Core : cur[c] \in finished =>
            \/ pc[c] \in {"exit", "wake", "pick", "mark", "own"}
            \/ pc[c] = "ready" /\ waitLock = c
    /\ Range(reapQ) \subseteq finished \ running

\* Everything the scheduler can still reach is allocated.
Allocated ==
    /\ Ready \subseteq alloc
    /\ Asleep \subseteq alloc
    /\ running \subseteq alloc
    /\ finished \subseteq alloc
    /\ \A c \in Core : hand[c] \in Proc => hand[c] \in alloc
    /\ \A c \in Core : cur[c] \in Proc => cur[c] \in alloc

\* A context is saved before anyone can resume it.
SavedShape ==
    /\ \A p \in Ready \cup Asleep :
            p \in saved \/ \E c \in Core : pc[c] = "block" /\ cur[c] = p
    /\ \A c \in Core : hand[c] \in Proc =>
            \/ hand[c] \in saved
            \/ pc[c] = "ready" /\ \E d \in Core : pc[d] = "block" /\ cur[d] = hand[c]
    /\ \A c \in Core : pc[c] = "resched" => cur[c] \in saved
    /\ \A c \in Core : pc[c] = "restore" /\ cur[c] \in Proc => cur[c] \in saved

\* The argument of process_delete is a finished process off every stack, and no
\* other core deletes it.
VictimShape ==
    /\ \A c \in Core : victim[c] \in Proc =>
            /\ victim[c] \in finished \ running
            /\ victim[c] \notin Range(reapQ)
            /\ cur[c] \in Proc \ finished
            /\ pc[c] \in {"wake", "delete"} \/ (pc[c] = "ready" /\ waitLock = c)
    /\ \A c \in Core : pc[c] = "delete" => victim[c] \in Proc
    /\ \A c, d \in Core : c # d /\ victim[c] \in Proc => victim[c] # victim[d]

IInv ==
    /\ TypeOK
    /\ CoreShape
    /\ LockShape
    /\ QueueShape
    /\ TokenUnique
    /\ TokenExists
    /\ StackOwned
    /\ FinishedShape
    /\ Allocated
    /\ SavedShape
    /\ VictimShape

\* A process is asleep when some wait queue links it.
LEMMA AsleepElems ==
    /\ \A x : x \in Asleep <=> \E r \in Queue : x \in Range(waitQ[r])
    /\ \A x : x \in Asleep' <=> \E r \in Queue : x \in Range(waitQ'[r])
BY DEF Asleep

\* make_process_ready adds at most the process it is given.
LEMMA MakeReadyElems ==
    ASSUME TypeOK, QueueShape, NEW p \in Proc, MakeReady(p)
    PROVE  readyQ' \in Seq(Proc) /\ IsInjective(readyQ') /\ Ready' = Ready \cup {p}
<1> USE DEF TypeOK, QueueShape, MakeReady, Ready
<1>1. CASE p \in Range(readyQ)
  BY <1>1
<1>2. CASE p \notin Range(readyQ)
  <2>1. readyQ' = Append(readyQ, p)
    BY <1>2
  <2> QED BY <1>2, <2>1, AppendElems
<1> QED BY <1>1, <1>2

\* A core that still names a finished process as its current one is on that
\* process's stack, so RUNNING is still set.
LEMMA FinishedOnStack ==
    ASSUME IInv, NEW d \in Core, cur[d] \in finished
    PROVE  cur[d] \in running
<1>1. cur[d] \in Proc
  BY DEF IInv, TypeOK
<1>2. Stack(d) = cur[d]
  BY DEF IInv, FinishedShape, CoreShape, Stack, Switching
<1> QED BY <1>1, <1>2 DEF IInv, StackOwned

\* A core is interrupted: only its own stack is involved.
LEMMA PreemptStep ==
    ASSUME IInv, NEW c \in Core, Preempt(c)
    PROVE  IInv'
<1> USE ConstAssumption DEF IInv, TypeOK, Goto, ExecPcs, Switching, PcVals, Task, WakeKinds,
     WakeFns
<1>caseA. CASE cur[c] = Idle \/ cur[c] \notin running
  <2>effect.
        /\ pc[c] = "run" /\ (cur[c] = Idle \/ cur[c] \notin running)
        /\ prev' = [prev EXCEPT ![c] = cur[c]] /\ pc' = [pc EXCEPT ![c] = "pick"]
        /\ Ready' = Ready /\ Asleep' = Asleep
        /\ UNCHANGED <<readyQ, waitQ, waitLock, alloc, running, finished, sleepInt,
                       owner, saved, reapQ, cur, hand, wq, wk, victim>>
    BY <1>caseA DEF Preempt, EnterSwitchNext, Ready, Asleep
  <2>type. TypeOK'
    BY <2>effect
  <2>1. CoreShape'
    BY <2>effect, <2>type DEF CoreShape
  <2>2. LockShape'
    BY <2>effect, <2>type DEF LockShape
  <2>3. QueueShape'
    BY <2>effect, <2>type DEF QueueShape
  <2>4. TokenUnique'
    <3>1. \A d \in Core : Token(d)' \in {Token(d), None}
      BY <2>effect, <2>type DEF Token
    <3>2. None \notin Proc \cup Ready \cup Asleep
      BY DEF Allocated
    <3> HIDE DEF TypeOK
    <3> QED BY <2>effect, <3>1, <3>2 DEF TokenUnique
  <2>5. TokenExists'
    BY <2>effect, <2>type DEF TokenExists, Token, CoreShape, FinishedShape, StackOwned,
       Stack
  <2>6. StackOwned'
    BY <2>effect, <2>type DEF StackOwned, Stack
  <2>7. FinishedShape'
    BY <2>effect, <2>type DEF FinishedShape
  <2>8. Allocated'
    BY <2>effect, <2>type DEF Allocated
  <2>9. SavedShape'
    BY <2>effect, <2>type DEF SavedShape
  <2>10. VictimShape'
    BY <2>effect, <2>type DEF VictimShape
  <2> QED BY <2>type, <2>1, <2>2, <2>3, <2>4, <2>5, <2>6, <2>7, <2>8, <2>9, <2>10
<1>caseB. CASE ~(cur[c] = Idle \/ cur[c] \notin running)
  <2>effect.
        /\ pc[c] = "run" /\ cur[c] # Idle /\ cur[c] \in running
        /\ pc' = [pc EXCEPT ![c] = "yield"]
        /\ Ready' = Ready /\ Asleep' = Asleep
        /\ UNCHANGED <<readyQ, waitQ, waitLock, alloc, running, finished, sleepInt,
                       owner, saved, reapQ, cur, prev, hand, wq, wk, victim>>
    BY <1>caseB DEF Preempt, Ready, Asleep
  <2>type. TypeOK'
    BY <2>effect
  <2>1. CoreShape'
    BY <2>effect, <2>type DEF CoreShape
  <2>2. LockShape'
    BY <2>effect, <2>type DEF LockShape
  <2>3. QueueShape'
    BY <2>effect, <2>type DEF QueueShape
  <2>4. TokenUnique'
    BY <2>effect, <2>type DEF TokenUnique, Token
  <2>5. TokenExists'
    BY <2>effect, <2>type DEF TokenExists, Token
  <2>6. StackOwned'
    BY <2>effect, <2>type DEF StackOwned, Stack
  <2>7. FinishedShape'
    BY <2>effect, <2>type DEF FinishedShape
  <2>8. Allocated'
    BY <2>effect, <2>type DEF Allocated
  <2>9. SavedShape'
    BY <2>effect, <2>type DEF SavedShape
  <2>10. VictimShape'
    BY <2>effect, <2>type DEF VictimShape
  <2> QED BY <2>type, <2>1, <2>2, <2>3, <2>4, <2>5, <2>6, <2>7, <2>8, <2>9, <2>10
<1> QED BY <1>caseA, <1>caseB DEF Preempt, EnterSwitchNext

\* Saving a context makes the current process resumable, nothing else.
LEMMA SaveYieldStep ==
    ASSUME IInv, NEW c \in Core, SaveYield(c)
    PROVE  IInv'
<1> USE ConstAssumption DEF IInv, TypeOK, Goto, ExecPcs, Switching, PcVals, Task, WakeKinds,
     WakeFns
<1>effect. Ready' = Ready /\ Asleep' = Asleep
  BY DEF SaveYield, Ready, Asleep
<1>type. TypeOK'
  BY <1>effect DEF SaveYield, CoreShape
<1>1. CoreShape'
  BY <1>effect, <1>type DEF SaveYield, CoreShape
<1>2. LockShape'
  BY <1>effect, <1>type DEF SaveYield, LockShape
<1>3. QueueShape'
  BY <1>effect, <1>type DEF SaveYield, QueueShape
<1>4. TokenUnique'
  BY <1>effect, <1>type DEF SaveYield, TokenUnique, Token
<1>5. TokenExists'
  <2>1. \A d \in Core \ {c} : Token(d)' = Token(d) /\ hand'[d] = hand[d]
    BY <1>effect, <1>type DEF SaveYield, Token
  <2>2. Token(c) = cur[c] /\ Token(c)' = cur[c] /\ hand'[c] = hand[c]
    BY <1>effect, <1>type DEF SaveYield, Token
  <2>3. \A d \in Core : Token(d)' = Token(d) /\ hand'[d] = hand[d]
    BY <2>1, <2>2
  <2>4. alloc' \ finished' \subseteq alloc \ finished
    BY DEF SaveYield
  <2> QED BY <1>effect, <2>3, <2>4 DEF TokenExists
<1>6. StackOwned'
  BY <1>effect, <1>type DEF SaveYield, StackOwned, Stack
<1>7. FinishedShape'
  BY <1>effect, <1>type DEF SaveYield, FinishedShape
<1>8. Allocated'
  BY <1>effect, <1>type DEF SaveYield, Allocated
<1>9. SavedShape'
  BY <1>effect, <1>type DEF SaveYield, SavedShape
<1>10. VictimShape'
  BY <1>effect, <1>type DEF SaveYield, VictimShape
<1> QED BY <1>type, <1>1, <1>2, <1>3, <1>4, <1>5, <1>6, <1>7, <1>8, <1>9, <1>10

\* A yielding process enters the ready queue with its context saved, while
\* RUNNING still protects it.
LEMMA RescheduleStep ==
    ASSUME IInv, NEW c \in Core, Reschedule(c)
    PROVE  IInv'
<1> USE ConstAssumption DEF IInv, TypeOK, Goto, ExecPcs, Switching, PcVals, Task, WakeKinds,
     WakeFns
<1>proc. cur[c] \in Proc
  BY DEF Reschedule, CoreShape
<1>effect. readyQ' \in Seq(Proc) /\ IsInjective(readyQ') /\ Ready' = Ready \cup {cur[c]} /\ Asleep' = Asleep
  BY <1>proc, MakeReadyElems DEF Reschedule, Asleep
<1>type. TypeOK'
  BY <1>effect DEF Reschedule, EnterSwitchNext, CoreShape
<1>1. CoreShape'
  BY <1>effect, <1>type DEF Reschedule, EnterSwitchNext, CoreShape
<1>2. LockShape'
  BY <1>effect, <1>type DEF Reschedule, EnterSwitchNext, LockShape
<1>3. QueueShape'
  BY <1>effect, <1>type DEF Reschedule, EnterSwitchNext, QueueShape
<1>4. TokenUnique'
  BY <1>effect, <1>type DEF Reschedule, EnterSwitchNext, TokenUnique, Token, CoreShape
<1>5. TokenExists'
  BY <1>effect, <1>type DEF Reschedule, EnterSwitchNext, TokenExists, Token
<1>6. StackOwned'
  BY <1>effect, <1>type DEF Reschedule, EnterSwitchNext, StackOwned, Stack
<1>7. FinishedShape'
  BY SMTT(30), <1>effect, <1>type DEF Reschedule, EnterSwitchNext, FinishedShape,
     CoreShape, LockShape
<1>8. Allocated'
  BY <1>effect, <1>type DEF Reschedule, EnterSwitchNext, Allocated, CoreShape
<1>9. SavedShape'
  BY <1>effect, <1>type DEF Reschedule, EnterSwitchNext, SavedShape
<1>10. VictimShape'
  BY <1>effect, <1>type DEF Reschedule, EnterSwitchNext, VictimShape
<1> QED BY <1>type, <1>1, <1>2, <1>3, <1>4, <1>5, <1>6, <1>7, <1>8, <1>9, <1>10

\* Entering sleep_on only drops the interruption flag.
LEMMA SleepOnStep ==
    ASSUME IInv, NEW c \in Core, NEW q \in Queue, SleepOn(c, q)
    PROVE  IInv'
<1> USE ConstAssumption DEF IInv, TypeOK, Goto, ExecPcs, Switching, PcVals, Task, WakeKinds,
     WakeFns
<1>effect. Ready' = Ready /\ Asleep' = Asleep
  BY DEF SleepOn, Ready, Asleep
<1>type. TypeOK'
  BY <1>effect DEF SleepOn, CoreShape
<1>1. CoreShape'
  BY <1>effect, <1>type DEF SleepOn, CoreShape
<1>2. LockShape'
  BY <1>effect, <1>type DEF SleepOn, LockShape
<1>3. QueueShape'
  BY <1>effect, <1>type DEF SleepOn, QueueShape
<1>4. TokenUnique'
  BY <1>effect, <1>type DEF SleepOn, TokenUnique, Token
<1>5. TokenExists'
  BY <1>effect, <1>type DEF SleepOn, TokenExists, Token
<1>6. StackOwned'
  BY <1>effect, <1>type DEF SleepOn, StackOwned, Stack
<1>7. FinishedShape'
  BY <1>effect, <1>type DEF SleepOn, FinishedShape
<1>8. Allocated'
  BY <1>effect, <1>type DEF SleepOn, Allocated
<1>9. SavedShape'
  BY <1>effect, <1>type DEF SleepOn, SavedShape
<1>10. VictimShape'
  BY <1>effect, <1>type DEF SleepOn, VictimShape
<1> QED BY <1>type, <1>1, <1>2, <1>3, <1>4, <1>5, <1>6, <1>7, <1>8, <1>9, <1>10

\* sleep_on links the current process, and nothing else, into a wait queue.
LEMMA JoinQueueEffect ==
    ASSUME IInv, NEW c \in Core, JoinQueue(c)
    PROVE  /\ cur[c] \in Proc /\ pc[c] = "enter" /\ cur[c] \notin finished /\ QueueShape'
           /\ waitQ' \in [Queue -> Seq(Proc)]
           /\ wq' = [wq EXCEPT ![c] = None] /\ pc' = [pc EXCEPT ![c] = "block"]
           /\ Ready' = Ready /\ Asleep' = Asleep \cup {cur[c]}
           /\ UNCHANGED <<readyQ, waitLock, alloc, running, finished, sleepInt, owner, saved,
                          reapQ, cur, prev, hand, wk, victim>>
<1> USE ConstAssumption DEF IInv, TypeOK, Goto, ExecPcs, Switching, PcVals, Task, WakeKinds,
     WakeFns
<1> DEFINE p == cur[c]
           q == wq[c]
<1>list1.
       /\ p \in Proc /\ q \in Queue /\ pc[c] = "enter" /\ waitLock = None
       /\ p \notin Asleep /\ p \notin Range(waitQ[q])
       /\ waitQ[q] \in Seq(Proc) /\ IsInjective(waitQ[q])
       /\ waitQ' = [waitQ EXCEPT ![q] = Append(waitQ[q], p)]
  BY DEF JoinQueue, CoreShape, QueueShape, TokenUnique, Token, Asleep
<1>list2.
       /\ Append(waitQ[q], p) \in Seq(Proc)
       /\ Range(Append(waitQ[q], p)) = Range(waitQ[q]) \cup {p}
       /\ IsInjective(Append(waitQ[q], p))
  BY <1>list1, AppendElems
<1>list3.
       /\ waitQ' \in [Queue -> Seq(Proc)]
       /\ Range(waitQ'[q]) = Range(waitQ[q]) \cup {p}
       /\ IsInjective(waitQ'[q])
       /\ \A r \in Queue \ {q} : waitQ'[r] = waitQ[r]
  BY <1>list1, <1>list2
<1>list4. Asleep' = Asleep \cup {p}
  <2>1. \A r \in Queue \ {q} : Range(waitQ'[r]) = Range(waitQ[r])
    BY <1>list3
  <2>2. q \in Queue /\ Range(waitQ'[q]) = Range(waitQ[q]) \cup {p}
    BY <1>list1, <1>list3
  <2> HIDE DEF IInv, TypeOK
  <2>3. \A x : (\E r \in Queue : x \in Range(waitQ'[r]))
               <=> (x = p \/ \E r \in Queue : x \in Range(waitQ[r]))
    BY <2>1, <2>2
  <2> QED BY <2>3, AsleepElems
<1>list5. QueueShape'
  <2>1. \A r \in Queue : p \notin Range(waitQ[r])
    BY <1>list1 DEF Asleep
  <2> QED BY <1>list1, <1>list3, <2>1 DEF JoinQueue, QueueShape
<1> QED
  BY <1>list1, <1>list3, <1>list4, <1>list5 DEF JoinQueue, Ready, FinishedShape

\* A sleeper becomes visible to wakers before its context is saved; it is on
\* its core until then.
LEMMA JoinQueueStep ==
    ASSUME IInv, NEW c \in Core, JoinQueue(c)
    PROVE  IInv'
<1> USE ConstAssumption DEF IInv, TypeOK, Goto, ExecPcs, Switching, PcVals, Task, WakeKinds,
     WakeFns
<1> DEFINE p == cur[c]
<1>effect.
      /\ p \in Proc /\ pc[c] = "enter" /\ p = cur[c] /\ p \notin finished /\ QueueShape'
      /\ waitQ' \in [Queue -> Seq(Proc)]
      /\ wq' = [wq EXCEPT ![c] = None] /\ pc' = [pc EXCEPT ![c] = "block"]
      /\ Ready' = Ready /\ Asleep' = Asleep \cup {p}
      /\ UNCHANGED <<readyQ, waitLock, alloc, running, finished, sleepInt, owner, saved,
                     reapQ, cur, prev, hand, wk, victim>>
  BY JoinQueueEffect
<1> HIDE DEF p
<1>type. TypeOK'
  BY <1>effect
<1>1. CoreShape'
  BY <1>effect, <1>type DEF CoreShape
<1>2. LockShape'
  BY <1>effect, <1>type DEF LockShape
<1>3. QueueShape'
  BY <1>effect, <1>type DEF QueueShape
<1>4. TokenUnique'
  <2>1. /\ Token(c) = p /\ Token(c)' = None
        /\ \A d \in Core \ {c} : Token(d)' = Token(d)
    BY <1>effect, <1>type DEF Token
  <2>2. None \notin Proc \cup Ready \cup Asleep'
    BY <1>effect DEF Allocated
  <2>3. \A d \in Core : Token(d)' # p /\ hand[d] # p
    BY <1>effect, <2>1, <2>2 DEF TokenUnique
  <2>4. \A d \in Core : Token(d)' \in {Token(d), None}
    BY <2>1
  <2>5. p \notin Ready
    BY <2>1 DEF TokenUnique
  <2> HIDE DEF TypeOK
  <2> QED BY <1>effect, <2>2, <2>3, <2>4, <2>5 DEF TokenUnique
<1>5. TokenExists'
  BY <1>effect, <1>type DEF TokenExists, Token
<1>6. StackOwned'
  BY <1>effect, <1>type DEF StackOwned, Stack
<1>7. FinishedShape'
  BY <1>effect, <1>type DEF FinishedShape
<1>8. Allocated'
  BY <1>effect, <1>type DEF Allocated
<1>9. SavedShape'
  BY <1>effect, <1>type DEF SavedShape
<1>10. VictimShape'
  BY <1>effect, <1>type DEF VictimShape
<1> QED BY <1>type, <1>1, <1>2, <1>3, <1>4, <1>5, <1>6, <1>7, <1>8, <1>9, <1>10

\* The sleeper's context is saved before the core leaves its stack.
LEMMA SaveBlockStep ==
    ASSUME IInv, NEW c \in Core, SaveBlock(c)
    PROVE  IInv'
<1> USE ConstAssumption DEF IInv, TypeOK, Goto, ExecPcs, Switching, PcVals, Task, WakeKinds,
     WakeFns
<1>effect. Ready' = Ready /\ Asleep' = Asleep
  BY DEF SaveBlock, Ready, Asleep
<1>type. TypeOK'
  BY <1>effect DEF SaveBlock, EnterSwitchNext, CoreShape
<1>1. CoreShape'
  BY <1>effect, <1>type DEF SaveBlock, EnterSwitchNext, CoreShape
<1>2. LockShape'
  BY <1>effect, <1>type DEF SaveBlock, EnterSwitchNext, LockShape
<1>3. QueueShape'
  BY <1>effect, <1>type DEF SaveBlock, EnterSwitchNext, QueueShape
<1>4. TokenUnique'
  BY <1>effect, <1>type DEF SaveBlock, EnterSwitchNext, TokenUnique, Token
<1>5. TokenExists'
  BY <1>effect, <1>type DEF SaveBlock, EnterSwitchNext, TokenExists, Token, CoreShape,
     LockShape, TokenUnique, StackOwned, Stack, FinishedShape, Allocated
<1>6. StackOwned'
  BY <1>effect, <1>type DEF SaveBlock, EnterSwitchNext, StackOwned, Stack
<1>7. FinishedShape'
  BY <1>effect, <1>type DEF SaveBlock, EnterSwitchNext, FinishedShape
<1>8. Allocated'
  BY <1>effect, <1>type DEF SaveBlock, EnterSwitchNext, Allocated
<1>9. SavedShape'
  BY <1>effect, <1>type DEF SaveBlock, EnterSwitchNext, SavedShape
<1>10. VictimShape'
  BY <1>effect, <1>type DEF SaveBlock, EnterSwitchNext, VictimShape
<1> QED BY <1>type, <1>1, <1>2, <1>3, <1>4, <1>5, <1>6, <1>7, <1>8, <1>9, <1>10

\* Taking the head of the ready queue: RUNNING and owner tell whether its
\* context is saved and its stack free.
LEMMA NextReadyStep ==
    ASSUME IInv, NEW c \in Core, NextReady(c)
    PROVE  IInv'
<1> USE ConstAssumption DEF IInv, TypeOK, Goto, ExecPcs, Switching, PcVals, Task, WakeKinds,
     WakeFns
<1>caseA. CASE readyQ = <<>>
  <2>effect.
        /\ pc[c] = "pick" /\ cur' = [cur EXCEPT ![c] = Idle] /\ pc' = [pc EXCEPT ![c] = "restore"]
        /\ Ready' = Ready /\ Asleep' = Asleep
        /\ UNCHANGED <<readyQ, waitQ, waitLock, alloc, running, finished, sleepInt,
                       owner, saved, reapQ, prev, hand, wq, wk, victim>>
    BY <1>caseA DEF NextReady, TakeIdle, PulledTooSoon, Ready, Asleep, QueueShape
  <2>type. TypeOK'
    BY <2>effect
  <2>1. CoreShape'
    BY <2>effect, <2>type DEF CoreShape
  <2>2. LockShape'
    BY <2>effect, <2>type DEF LockShape
  <2>3. QueueShape'
    BY <2>effect, <2>type DEF QueueShape
  <2>4. TokenUnique'
    BY <2>effect, <2>type DEF TokenUnique, Token, CoreShape, LockShape, StackOwned, Stack,
       FinishedShape, Allocated
  <2>5. TokenExists'
    BY <2>effect, <2>type DEF TokenExists, Token
  <2>6. StackOwned'
    BY <2>effect, <2>type DEF StackOwned, Stack
  <2>7. FinishedShape'
    BY <2>effect, <2>type DEF FinishedShape
  <2>8. Allocated'
    BY <2>effect, <2>type DEF Allocated
  <2>9. SavedShape'
    BY <2>effect, <2>type DEF SavedShape
  <2>10. VictimShape'
    BY <2>effect, <2>type DEF VictimShape
  <2> QED BY <2>type, <2>1, <2>2, <2>3, <2>4, <2>5, <2>6, <2>7, <2>8, <2>9, <2>10
<1>caseB. CASE readyQ # <<>> /\ PulledTooSoon(c, Head(readyQ))
  <2>head1. readyQ' = Append(Tail(readyQ), Head(readyQ))
    BY <1>caseB DEF NextReady
  <2>effect.
        /\ pc[c] = "pick" /\ cur' = [cur EXCEPT ![c] = Idle] /\ pc' = [pc EXCEPT ![c] = "restore"]
        /\ readyQ' \in Seq(Proc) /\ IsInjective(readyQ')
        /\ Ready' = Ready /\ Asleep' = Asleep
        /\ UNCHANGED <<waitQ, waitLock, alloc, running, finished, sleepInt, owner, saved,
                       reapQ, prev, hand, wq, wk, victim>>
    BY <1>caseB, <2>head1, RotateElems DEF NextReady, TakeIdle, PulledTooSoon, Ready,
       Asleep,
       QueueShape
  <2>type. TypeOK'
    BY <2>effect
  <2>1. CoreShape'
    BY <2>effect, <2>type DEF CoreShape
  <2>2. LockShape'
    BY <2>effect, <2>type DEF LockShape
  <2>3. QueueShape'
    BY <2>effect, <2>type DEF QueueShape
  <2>4. TokenUnique'
    BY <2>effect, <2>type DEF TokenUnique, Token, CoreShape, LockShape, StackOwned, Stack,
       FinishedShape, Allocated
  <2>5. TokenExists'
    <3>1. \A d \in Core \ {c} : Token(d)' = Token(d) /\ hand'[d] = hand[d]
      BY <2>effect, <2>type DEF Token
    <3>2. Token(c) = None /\ Token(c)' = Idle
      BY <2>effect, <2>type DEF Token
    <3> QED BY <2>effect, <2>type, <3>1, <3>2 DEF TokenExists, CoreShape
  <2>6. StackOwned'
    BY <2>effect, <2>type DEF StackOwned, Stack
  <2>7. FinishedShape'
    BY <2>effect, <2>type DEF FinishedShape
  <2>8. Allocated'
    BY <2>effect, <2>type DEF Allocated
  <2>9. SavedShape'
    BY <2>effect, <2>type DEF SavedShape
  <2>10. VictimShape'
    BY <2>effect, <2>type DEF VictimShape
  <2> QED BY <2>type, <2>1, <2>2, <2>3, <2>4, <2>5, <2>6, <2>7, <2>8, <2>9, <2>10
<1>caseC. CASE readyQ # <<>> /\ ~PulledTooSoon(c, Head(readyQ))
  <2> DEFINE p == Head(readyQ)
  <2>head1. readyQ' = Tail(readyQ)
    BY <1>caseC DEF NextReady
  <2>head2.
         /\ readyQ' \in Seq(Proc) /\ IsInjective(readyQ') /\ p \in Proc
         /\ p \in Ready /\ Ready' = Ready \ {p}
    BY <1>caseC, <2>head1, TailElems DEF Ready, QueueShape
  <2>head3. p \in saved
    <3>1. pc[c] = "pick" /\ (p \notin running \/ owner[p] = c)
      BY <1>caseC DEF NextReady, PulledTooSoon
    <3>2. \A d \in Core : pc[d] = "block" => cur[d] \in running /\ owner[cur[d]] = d
      BY DEF StackOwned, Stack, CoreShape
    <3> QED BY <2>head2, <3>1, <3>2 DEF SavedShape
  <2>effect.
        /\ pc[c] = "pick" /\ hand' = [hand EXCEPT ![c] = p] /\ pc' = [pc EXCEPT ![c] = "mark"]
        /\ p \notin running \/ owner[p] = c
        /\ p \in saved
        /\ readyQ' \in Seq(Proc) /\ IsInjective(readyQ') /\ p \in Proc
        /\ p \in Ready /\ Ready' = Ready \ {p} /\ Asleep' = Asleep
        /\ UNCHANGED <<waitQ, waitLock, alloc, running, finished, sleepInt, owner, saved,
                       reapQ, cur, prev, wq, wk, victim>>
    BY <1>caseC, <2>head2, <2>head3 DEF NextReady, TakeIdle, PulledTooSoon, Ready, Asleep,
       QueueShape
  <2> HIDE DEF p
  <2>type. TypeOK'
    BY <2>effect
  <2>1. CoreShape'
    BY <2>effect, <2>type DEF CoreShape
  <2>2. LockShape'
    BY <2>effect, <2>type DEF LockShape
  <2>3. QueueShape'
    BY <2>effect, <2>type DEF QueueShape
  <2>4. TokenUnique'
    BY <2>effect, <2>type DEF TokenUnique, Token
  <2>5. TokenExists'
    <3>1. \A d \in Core : Token(d)' = Token(d)
      BY <2>effect, <2>type DEF Token
    <3> SUFFICES ASSUME NEW x \in alloc \ finished, x # p
                 PROVE  \/ x \in Ready' \cup Asleep'
                        \/ \E d \in Core : hand'[d] = x \/ Token(d)' = x
      BY <2>effect DEF TokenExists
    <3>2. \A d \in Core : hand[d] = x => hand'[d] = x
      BY <2>effect DEF CoreShape
    <3> QED BY <2>effect, <3>1, <3>2 DEF TokenExists
  <2>6. StackOwned'
    BY <2>effect, <2>type DEF StackOwned, Stack
  <2>7. FinishedShape'
    BY <2>effect, <2>type DEF FinishedShape
  <2>8. Allocated'
    BY <2>effect, <2>type DEF Allocated
  <2>9. SavedShape'
    BY <2>effect, <2>type DEF SavedShape, CoreShape, TokenUnique, Token
  <2>10. VictimShape'
    BY <2>effect, <2>type DEF VictimShape
  <2> QED BY <2>type, <2>1, <2>2, <2>3, <2>4, <2>5, <2>6, <2>7, <2>8, <2>9, <2>10
<1> QED BY <1>caseA, <1>caseB, <1>caseC DEF NextReady, TakeIdle, PulledTooSoon

\* A picked process is in no queue, so setting RUNNING disturbs nobody.
LEMMA MarkRunningStep ==
    ASSUME IInv, NEW c \in Core, MarkRunning(c)
    PROVE  IInv'
<1> USE ConstAssumption DEF IInv, TypeOK, Goto, ExecPcs, Switching, PcVals, Task, WakeKinds,
     WakeFns
<1>effect. Ready' = Ready /\ Asleep' = Asleep
  BY DEF MarkRunning, Ready, Asleep
<1>type. TypeOK'
  BY <1>effect DEF MarkRunning, CoreShape
<1>1. CoreShape'
  BY <1>effect, <1>type DEF MarkRunning, CoreShape
<1>2. LockShape'
  BY <1>effect, <1>type DEF MarkRunning, LockShape
<1>3. QueueShape'
  BY <1>effect, <1>type DEF MarkRunning, QueueShape
<1>4. TokenUnique'
  BY <1>effect, <1>type DEF MarkRunning, TokenUnique, Token
<1>5. TokenExists'
  BY <1>effect, <1>type DEF MarkRunning, TokenExists, Token
<1>6. StackOwned'
  BY <1>effect, <1>type DEF MarkRunning, StackOwned, Stack
<1>7. FinishedShape'
  BY <1>effect, <1>type DEF MarkRunning, FinishedShape
<1>8. Allocated'
  BY <1>effect, <1>type DEF MarkRunning, Allocated
<1>9. SavedShape'
  BY <1>effect, <1>type DEF MarkRunning, SavedShape
<1>10. VictimShape'
  BY <1>effect, <1>type DEF MarkRunning, VictimShape, CoreShape, FinishedShape
<1> QED BY <1>type, <1>1, <1>2, <1>3, <1>4, <1>5, <1>6, <1>7, <1>8, <1>9, <1>10

\* The owner is set by the only core that can run the process.
LEMMA TakeOwnershipStep ==
    ASSUME IInv, NEW c \in Core, TakeOwnership(c)
    PROVE  IInv'
<1> USE ConstAssumption DEF IInv, TypeOK, Goto, ExecPcs, Switching, PcVals, Task, WakeKinds,
     WakeFns
<1>effect. Ready' = Ready /\ Asleep' = Asleep
  BY DEF TakeOwnership, Ready, Asleep
<1>type. TypeOK'
  BY <1>effect DEF TakeOwnership, CoreShape
<1>1. CoreShape'
  BY <1>effect, <1>type DEF TakeOwnership, CoreShape, FinishedShape
<1>2. LockShape'
  BY <1>effect, <1>type DEF TakeOwnership, LockShape
<1>3. QueueShape'
  BY <1>effect, <1>type DEF TakeOwnership, QueueShape
<1>4. TokenUnique'
  BY <1>effect, <1>type DEF TakeOwnership, TokenUnique, Token, CoreShape, LockShape,
     StackOwned, Stack, FinishedShape, Allocated
<1>5. TokenExists'
  <2>1. \A d \in Core \ {c} : Token(d)' = Token(d) /\ hand'[d] = hand[d]
    BY <1>effect, <1>type DEF TakeOwnership, Token
  <2>2. Token(c) = None /\ Token(c)' = hand[c]
    BY <1>effect, <1>type DEF TakeOwnership, Token, FinishedShape, CoreShape
  <2> QED BY <1>effect, <1>type, <2>1, <2>2 DEF TakeOwnership, TokenExists, CoreShape
<1>6. StackOwned'
  BY <1>effect, <1>type DEF TakeOwnership, StackOwned, Stack, CoreShape, TokenUnique, Token
<1>7. FinishedShape'
  BY <1>effect, <1>type DEF TakeOwnership, FinishedShape
<1>8. Allocated'
  BY <1>effect, <1>type DEF TakeOwnership, Allocated
<1>9. SavedShape'
  BY <1>effect, <1>type DEF TakeOwnership, SavedShape, CoreShape, FinishedShape, StackOwned,
     Stack
<1>10. VictimShape'
  BY <1>effect, <1>type DEF TakeOwnership, VictimShape
<1> QED BY <1>type, <1>1, <1>2, <1>3, <1>4, <1>5, <1>6, <1>7, <1>8, <1>9, <1>10

\* The core leaves the old stack for one that no other core is on.
LEMMA RestoreStep ==
    ASSUME IInv, NEW c \in Core, Restore(c)
    PROVE  IInv'
<1> USE ConstAssumption DEF IInv, TypeOK, Goto, ExecPcs, Switching, PcVals, Task, WakeKinds,
     WakeFns
<1>effect. Ready' = Ready /\ Asleep' = Asleep
  BY DEF Restore, Ready, Asleep
<1>type. TypeOK'
  BY <1>effect DEF Restore, CoreShape
<1>1. CoreShape'
  BY <1>effect, <1>type DEF Restore, CoreShape
<1>2. LockShape'
  BY <1>effect, <1>type DEF Restore, LockShape
<1>3. QueueShape'
  BY <1>effect, <1>type DEF Restore, QueueShape
<1>4. TokenUnique'
  BY <1>effect, <1>type DEF Restore, TokenUnique, Token
<1>5. TokenExists'
  BY <1>effect, <1>type DEF Restore, TokenExists, Token
<1>6. StackOwned'
  BY <1>effect, <1>type DEF Restore, StackOwned, Stack, CoreShape, TokenUnique, Token
<1>7. FinishedShape'
  BY <1>effect, <1>type DEF Restore, FinishedShape
<1>8. Allocated'
  BY <1>effect, <1>type DEF Restore, Allocated
<1>9. SavedShape'
  BY <1>effect, <1>type DEF Restore, SavedShape, CoreShape, TokenUnique, Token
<1>10. VictimShape'
  BY <1>effect, <1>type DEF Restore, VictimShape
<1> QED BY <1>type, <1>1, <1>2, <1>3, <1>4, <1>5, <1>6, <1>7, <1>8, <1>9, <1>10

\* wait_lock_tmp has one holder.
LEMMA StartWakeupStep ==
    ASSUME IInv, NEW c \in Core, NEW q \in Queue, NEW k \in Wakeups, StartWakeup(c, q, k)
    PROVE  IInv'
<1> USE ConstAssumption DEF IInv, TypeOK, Goto, ExecPcs, Switching, PcVals, Task, WakeKinds,
     WakeFns
<1>effect. Ready' = Ready /\ Asleep' = Asleep
  BY DEF StartWakeup, Ready, Asleep
<1>type. TypeOK'
  BY <1>effect DEF StartWakeup, CoreShape
<1>1. CoreShape'
  BY <1>effect, <1>type DEF StartWakeup, CoreShape
<1>2. LockShape'
  BY <1>effect, <1>type DEF StartWakeup, LockShape
<1>3. QueueShape'
  BY <1>effect, <1>type DEF StartWakeup, QueueShape
<1>4. TokenUnique'
  BY <1>effect, <1>type DEF StartWakeup, TokenUnique, Token
<1>5. TokenExists'
  BY <1>effect, <1>type DEF StartWakeup, TokenExists, Token
<1>6. StackOwned'
  BY <1>effect, <1>type DEF StartWakeup, StackOwned, Stack
<1>7. FinishedShape'
  BY <1>effect, <1>type DEF StartWakeup, FinishedShape
<1>8. Allocated'
  BY <1>effect, <1>type DEF StartWakeup, Allocated
<1>9. SavedShape'
  BY <1>effect, <1>type DEF StartWakeup, SavedShape
<1>10. VictimShape'
  BY <1>effect, <1>type DEF StartWakeup, VictimShape
<1> QED BY <1>type, <1>1, <1>2, <1>3, <1>4, <1>5, <1>6, <1>7, <1>8, <1>9, <1>10

\* A wakeup function takes one sleeper from its queue into its hand.
LEMMA PopSleeperEffect ==
    ASSUME IInv, NEW c \in Core, PopSleeper(c)
    PROVE  LET p == Last(waitQ[wq[c]]) IN
             /\ p \in Proc /\ p \in Asleep /\ p \notin finished /\ pc[c] = "wake" /\ QueueShape'
             /\ waitQ' \in [Queue -> Seq(Proc)] /\ sleepInt' \subseteq Proc
             /\ sleepInt' \subseteq sleepInt \cup {p} /\ wk' \in [Core -> WakeKinds]
             /\ hand' = [hand EXCEPT ![c] = p] /\ pc' = [pc EXCEPT ![c] = "ready"]
             /\ Ready' = Ready /\ Asleep' = Asleep \ {p}
             /\ UNCHANGED <<readyQ, waitLock, alloc, running, finished, owner, saved, reapQ,
                            cur, prev, wq, victim>>
<1> USE ConstAssumption DEF IInv, TypeOK, Goto, ExecPcs, Switching, PcVals, Task, WakeKinds,
     WakeFns
<1> DEFINE q == wq[c]
           p == Last(waitQ[q])
<1>list1.
       /\ q \in Queue /\ pc[c] = "wake"
       /\ waitQ[q] \in Seq(Proc) /\ waitQ[q] # <<>> /\ IsInjective(waitQ[q])
       /\ waitQ' = [waitQ EXCEPT ![q] = Front(waitQ[q])]
  BY DEF PopSleeper, LockShape, QueueShape
<1>list2.
       /\ p \in Proc /\ p \in Range(waitQ[q])
       /\ Front(waitQ[q]) \in Seq(Proc) /\ IsInjective(Front(waitQ[q]))
       /\ Range(Front(waitQ[q])) = Range(waitQ[q]) \ {p}
  BY <1>list1, FrontElems
<1>list3.
       /\ waitQ' \in [Queue -> Seq(Proc)]
       /\ Range(waitQ'[q]) = Range(waitQ[q]) \ {p}
       /\ IsInjective(waitQ'[q])
       /\ \A r \in Queue \ {q} : waitQ'[r] = waitQ[r]
  BY <1>list1, <1>list2
<1>list4. p \in Asleep /\ p \notin finished
  BY <1>list1, <1>list2 DEF Asleep, FinishedShape
<1>list5. \A r \in Queue \ {q} : p \notin Range(waitQ[r])
  BY <1>list1, <1>list2 DEF QueueShape
<1>list6. Asleep' = Asleep \ {p}
  <2> HIDE DEF p, q
  <2>1. \A r \in Queue : Range(waitQ'[r]) = Range(waitQ[r]) \ {p}
    <3> TAKE r \in Queue
    <3>1. CASE r = q
      BY <1>list3, <3>1
    <3>2. CASE r # q
      <4>1. waitQ'[r] = waitQ[r] /\ p \notin Range(waitQ[r])
        BY <1>list3, <1>list5, <3>2
      <4> QED BY <4>1
    <3> QED BY <3>1, <3>2
  <2>2. ASSUME NEW x \in Asleep' PROVE x \in Asleep \ {p}
    <3>1. PICK r \in Queue : x \in Range(waitQ'[r])
      BY <2>2, AsleepElems
    <3>2. x \in Range(waitQ[r]) /\ x # p
      BY <2>1, <3>1
    <3> QED BY <3>2, AsleepElems
  <2>3. ASSUME NEW x \in Asleep, x # p PROVE x \in Asleep'
    <3>1. PICK r \in Queue : x \in Range(waitQ[r])
      BY <2>3, AsleepElems
    <3>2. x \in Range(waitQ'[r])
      BY <2>1, <2>3, <3>1
    <3> QED BY <3>2, AsleepElems
  <2> QED BY <2>2, <2>3
<1>list7. QueueShape'
  BY <1>list1, <1>list3 DEF PopSleeper, QueueShape
<1>list8. sleepInt' \subseteq Proc /\ wk' \in [Core -> WakeKinds]
  BY <1>list2 DEF PopSleeper
<1> QED
  BY <1>list1, <1>list2, <1>list3, <1>list4, <1>list6, <1>list7, <1>list8 DEF PopSleeper,
     Ready

\* A popped sleeper is in the waker's hand and in no queue.
LEMMA PopSleeperStep ==
    ASSUME IInv, NEW c \in Core, PopSleeper(c)
    PROVE  IInv'
<1> USE ConstAssumption DEF IInv, TypeOK, Goto, ExecPcs, Switching, PcVals, Task, WakeKinds,
     WakeFns
<1> DEFINE p == Last(waitQ[wq[c]])
<1>effect.
      /\ p \in Proc /\ p \in Asleep /\ p \notin finished /\ pc[c] = "wake" /\ QueueShape'
      /\ waitQ' \in [Queue -> Seq(Proc)] /\ sleepInt' \subseteq Proc
      /\ wk' \in [Core -> WakeKinds]
      /\ hand' = [hand EXCEPT ![c] = p] /\ pc' = [pc EXCEPT ![c] = "ready"]
      /\ Ready' = Ready /\ Asleep' = Asleep \ {p}
      /\ UNCHANGED <<readyQ, waitLock, alloc, running, finished, owner, saved, reapQ,
                     cur, prev, wq, victim>>
  BY PopSleeperEffect
<1> HIDE DEF p
<1>type. TypeOK'
  BY <1>effect
<1>1. CoreShape'
  BY <1>effect, <1>type DEF CoreShape
<1>2. LockShape'
  BY <1>effect, <1>type DEF LockShape
<1>3. QueueShape'
  BY <1>effect, <1>type DEF QueueShape
<1>4. TokenUnique'
  BY <1>effect, <1>type DEF TokenUnique, Token
<1>5. TokenExists'
  <2>1. \A d \in Core : Token(d)' = Token(d)
    BY <1>effect, <1>type DEF Token
  <2> SUFFICES ASSUME NEW x \in alloc \ finished, x # p
               PROVE  \/ x \in Ready' \cup Asleep'
                      \/ \E d \in Core : hand'[d] = x \/ Token(d)' = x
    BY <1>effect DEF TokenExists
  <2>2. \A d \in Core : hand[d] = x => hand'[d] = x
    BY <1>effect DEF CoreShape
  <2> QED BY <1>effect, <2>1, <2>2 DEF TokenExists
<1>6. StackOwned'
  BY <1>effect, <1>type DEF StackOwned, Stack
<1>7. FinishedShape'
  BY <1>effect, <1>type DEF FinishedShape, CoreShape, LockShape
<1>8. Allocated'
  BY <1>effect, <1>type DEF Allocated
<1>9. SavedShape'
  BY SMTT(30), <1>effect, <1>type DEF SavedShape
<1>10. VictimShape'
  BY <1>effect, <1>type DEF VictimShape, CoreShape, LockShape
<1> QED BY <1>type, <1>1, <1>2, <1>3, <1>4, <1>5, <1>6, <1>7, <1>8, <1>9, <1>10

\* The process in hand is in no queue before make_process_ready.
LEMMA ReadyHandStep ==
    ASSUME IInv, NEW c \in Core, ReadyHand(c)
    PROVE  IInv'
<1> USE ConstAssumption DEF IInv, TypeOK, Goto, ExecPcs, Switching, PcVals, Task, WakeKinds,
     WakeFns
<1>proc. hand[c] \in Proc
  BY DEF ReadyHand, CoreShape
<1>effect. readyQ' \in Seq(Proc) /\ IsInjective(readyQ') /\ Ready' = Ready \cup {hand[c]} /\ Asleep' = Asleep
  BY <1>proc, MakeReadyElems DEF ReadyHand, Asleep
<1>type. TypeOK'
  BY <1>effect DEF ReadyHand, CoreShape
<1>1. CoreShape'
  BY <1>effect, <1>type DEF ReadyHand, CoreShape
<1>2. LockShape'
  BY <1>effect, <1>type DEF ReadyHand, LockShape
<1>3. QueueShape'
  BY <1>effect, <1>type DEF ReadyHand, QueueShape
<1>4. TokenUnique'
  BY <1>effect, <1>type DEF ReadyHand, TokenUnique, Token, CoreShape, LockShape, StackOwned,
     Stack, FinishedShape, Allocated
<1>5. TokenExists'
  <2>1. \A d \in Core \ {c} : Token(d)' = Token(d) /\ hand'[d] = hand[d]
    BY <1>effect, <1>type DEF ReadyHand, Token
  <2>2. Token(c) = cur[c] /\ Token(c)' = cur[c]
    BY <1>effect, <1>type DEF ReadyHand, Token
  <2> QED BY <1>effect, <1>type, <2>1, <2>2 DEF ReadyHand, TokenExists, CoreShape
<1>6. StackOwned'
  BY <1>effect, <1>type DEF ReadyHand, StackOwned, Stack
<1>7. FinishedShape'
  BY <1>effect, <1>type DEF ReadyHand, FinishedShape
<1>8. Allocated'
  BY <1>effect, <1>type DEF ReadyHand, Allocated, CoreShape
<1>9. SavedShape'
  BY <1>effect, <1>type DEF ReadyHand, SavedShape, CoreShape
<1>10. VictimShape'
  BY <1>effect, <1>type DEF ReadyHand, VictimShape
<1> QED BY <1>type, <1>1, <1>2, <1>3, <1>4, <1>5, <1>6, <1>7, <1>8, <1>9, <1>10

\* The end of a wakeup returns to the caller or leaves a finished process.
LEMMA EndWakeupStep ==
    ASSUME IInv, NEW c \in Core, EndWakeup(c)
    PROVE  IInv'
<1> USE ConstAssumption DEF IInv, TypeOK, Goto, ExecPcs, Switching, PcVals, Task, WakeKinds,
     WakeFns
<1>caseA. CASE cur[c] \in finished
  <2>effect.
        /\ cur[c] \in finished
        /\ pc[c] = "wake" /\ waitLock' = None
        /\ wq' = [wq EXCEPT ![c] = None] /\ wk' = [wk EXCEPT ![c] = "none"]
        /\ prev' = [prev EXCEPT ![c] = cur[c]] /\ pc' = [pc EXCEPT ![c] = "pick"]
        /\ Ready' = Ready /\ Asleep' = Asleep
        /\ UNCHANGED <<readyQ, waitQ, alloc, running, finished, sleepInt, owner, saved,
                       reapQ, cur, hand, victim>>
    BY <1>caseA DEF EndWakeup, EnterSwitchNext, Ready, Asleep
  <2>type. TypeOK'
    BY <2>effect
  <2>1. CoreShape'
    BY <2>effect, <2>type DEF CoreShape
  <2>2. LockShape'
    BY <2>effect, <2>type DEF LockShape
  <2>3. QueueShape'
    BY <2>effect, <2>type DEF QueueShape
  <2>4. TokenUnique'
    BY <2>effect, <2>type DEF TokenUnique, Token, CoreShape
  <2>5. TokenExists'
    BY <2>effect, <2>type DEF TokenExists, Token
  <2>6. StackOwned'
    BY <2>effect, <2>type DEF StackOwned, Stack
  <2>7. FinishedShape'
    BY <2>effect, <2>type DEF FinishedShape, CoreShape, LockShape
  <2>8. Allocated'
    BY <2>effect, <2>type DEF Allocated
  <2>9. SavedShape'
    BY <2>effect, <2>type DEF SavedShape
  <2>10. VictimShape'
    BY <2>effect, <2>type DEF VictimShape, CoreShape, LockShape
  <2> QED BY <2>type, <2>1, <2>2, <2>3, <2>4, <2>5, <2>6, <2>7, <2>8, <2>9, <2>10
<1>caseB. CASE cur[c] \notin finished /\ victim[c] = None
  <2>effect.
        /\ cur[c] \notin finished /\ victim[c] = None
        /\ pc[c] = "wake" /\ waitLock' = None
        /\ wq' = [wq EXCEPT ![c] = None] /\ wk' = [wk EXCEPT ![c] = "none"]
        /\ pc' = [pc EXCEPT ![c] = "run"]
        /\ Ready' = Ready /\ Asleep' = Asleep
        /\ UNCHANGED <<readyQ, waitQ, alloc, running, finished, sleepInt, owner, saved,
                       reapQ, cur, prev, hand, victim>>
    BY <1>caseB DEF EndWakeup, Ready, Asleep
  <2>type. TypeOK'
    BY <2>effect
  <2>1. CoreShape'
    BY <2>effect, <2>type DEF CoreShape
  <2>2. LockShape'
    BY <2>effect, <2>type DEF LockShape
  <2>3. QueueShape'
    BY <2>effect, <2>type DEF QueueShape
  <2>4. TokenUnique'
    BY <2>effect, <2>type DEF TokenUnique, Token
  <2>5. TokenExists'
    BY <2>effect, <2>type DEF TokenExists, Token
  <2>6. StackOwned'
    BY <2>effect, <2>type DEF StackOwned, Stack
  <2>7. FinishedShape'
    BY <2>effect, <2>type DEF FinishedShape, CoreShape, LockShape
  <2>8. Allocated'
    BY <2>effect, <2>type DEF Allocated
  <2>9. SavedShape'
    BY <2>effect, <2>type DEF SavedShape
  <2>10. VictimShape'
    BY <2>effect, <2>type DEF VictimShape, CoreShape, LockShape
  <2> QED BY <2>type, <2>1, <2>2, <2>3, <2>4, <2>5, <2>6, <2>7, <2>8, <2>9, <2>10
<1>caseC. CASE cur[c] \notin finished /\ victim[c] # None
  <2>effect.
        /\ cur[c] \notin finished /\ victim[c] \in Proc
        /\ pc[c] = "wake" /\ waitLock' = None
        /\ wq' = [wq EXCEPT ![c] = None] /\ wk' = [wk EXCEPT ![c] = "none"]
        /\ pc' = [pc EXCEPT ![c] = "delete"]
        /\ Ready' = Ready /\ Asleep' = Asleep
        /\ UNCHANGED <<readyQ, waitQ, alloc, running, finished, sleepInt, owner, saved,
                       reapQ, cur, prev, hand, victim>>
    BY <1>caseC DEF EndWakeup, Ready, Asleep
  <2>type. TypeOK'
    BY <2>effect
  <2>1. CoreShape'
    BY <2>effect, <2>type DEF CoreShape
  <2>2. LockShape'
    BY <2>effect, <2>type DEF LockShape
  <2>3. QueueShape'
    BY <2>effect, <2>type DEF QueueShape
  <2>4. TokenUnique'
    BY <2>effect, <2>type DEF TokenUnique, Token
  <2>5. TokenExists'
    BY <2>effect, <2>type DEF TokenExists, Token
  <2>6. StackOwned'
    BY <2>effect, <2>type DEF StackOwned, Stack
  <2>7. FinishedShape'
    BY <2>effect, <2>type DEF FinishedShape, CoreShape, LockShape
  <2>8. Allocated'
    BY <2>effect, <2>type DEF Allocated
  <2>9. SavedShape'
    BY <2>effect, <2>type DEF SavedShape
  <2>10. VictimShape'
    BY <2>effect, <2>type DEF VictimShape, CoreShape, LockShape
  <2> QED BY <2>type, <2>1, <2>2, <2>3, <2>4, <2>5, <2>6, <2>7, <2>8, <2>9, <2>10
<1> QED BY <1>caseA, <1>caseB, <1>caseC DEF EndWakeup, EnterSwitchNext

\* A new process has an entry context and is in its creator's hand.
LEMMA ForkStep ==
    ASSUME IInv, NEW c \in Core, NEW p \in Proc, Fork(c, p)
    PROVE  IInv'
<1> USE ConstAssumption DEF IInv, TypeOK, Goto, ExecPcs, Switching, PcVals, Task, WakeKinds,
     WakeFns
<1>effect. Ready' = Ready /\ Asleep' = Asleep
  BY DEF Fork, Ready, Asleep
<1>type. TypeOK'
  BY <1>effect DEF Fork, CoreShape
<1>1. CoreShape'
  BY <1>effect, <1>type DEF Fork, CoreShape
<1>2. LockShape'
  BY <1>effect, <1>type DEF Fork, LockShape
<1>3. QueueShape'
  BY <1>effect, <1>type DEF Fork, QueueShape
<1>4. TokenUnique'
  BY <1>effect, <1>type DEF Fork, TokenUnique, Token, CoreShape, LockShape, StackOwned,
     Stack,
     FinishedShape, Allocated
<1>5. TokenExists'
  <2>1. \A d \in Core \ {c} : Token(d)' = Token(d) /\ hand'[d] = hand[d]
    BY <1>effect, <1>type DEF Fork, Token
  <2>2. Token(c) = cur[c] /\ Token(c)' = cur[c]
    BY <1>effect, <1>type DEF Fork, Token
  <2> QED BY <1>effect, <1>type, <2>1, <2>2 DEF Fork, TokenExists, CoreShape
<1>6. StackOwned'
  BY <1>effect, <1>type DEF Fork, StackOwned, Stack, CoreShape, LockShape, TokenUnique,
     Token,
     FinishedShape, Allocated
<1>7. FinishedShape'
  BY <1>effect, <1>type DEF Fork, FinishedShape, CoreShape, LockShape, TokenUnique, Token,
     StackOwned, Stack, Allocated
<1>8. Allocated'
  BY <1>effect, <1>type DEF Fork, Allocated
<1>9. SavedShape'
  BY <1>effect, <1>type DEF Fork, SavedShape
<1>10. VictimShape'
  BY <1>effect, <1>type DEF Fork, VictimShape
<1> QED BY <1>type, <1>1, <1>2, <1>3, <1>4, <1>5, <1>6, <1>7, <1>8, <1>9, <1>10

\* An exiting process is on its own core, in no queue.
LEMMA ExitStep ==
    ASSUME IInv, NEW c \in Core, Exit(c)
    PROVE  IInv'
<1> USE ConstAssumption DEF IInv, TypeOK, Goto, ExecPcs, Switching, PcVals, Task, WakeKinds,
     WakeFns
<1>effect. Ready' = Ready /\ Asleep' = Asleep
  BY DEF Exit, Ready, Asleep
<1>type. TypeOK'
  BY <1>effect DEF Exit, CoreShape
<1>1. CoreShape'
  BY <1>effect, <1>type DEF Exit, CoreShape
<1>2. LockShape'
  BY <1>effect, <1>type DEF Exit, LockShape
<1>3. QueueShape'
  BY <1>effect, <1>type DEF Exit, QueueShape
<1>4. TokenUnique'
  BY <1>effect, <1>type DEF Exit, TokenUnique, Token
<1>5. TokenExists'
  <2>1. \A d \in Core \ {c} : Token(d)' = Token(d) /\ hand'[d] = hand[d]
    BY <1>effect, <1>type DEF Exit, Token
  <2>2. Token(c) = cur[c] /\ Token(c)' = cur[c] /\ hand'[c] = hand[c]
    BY <1>effect, <1>type DEF Exit, Token
  <2>3. \A d \in Core : Token(d)' = Token(d) /\ hand'[d] = hand[d]
    BY <2>1, <2>2
  <2>4. alloc' \ finished' \subseteq alloc \ finished
    BY DEF Exit
  <2> QED BY <1>effect, <2>3, <2>4 DEF TokenExists
<1>6. StackOwned'
  BY <1>effect, <1>type DEF Exit, StackOwned, Stack
<1>7. FinishedShape'
  BY <1>effect, <1>type DEF Exit, FinishedShape, CoreShape, TokenUnique, Token, StackOwned,
     Stack
<1>8. Allocated'
  BY <1>effect, <1>type DEF Exit, Allocated
<1>9. SavedShape'
  BY <1>effect, <1>type DEF Exit, SavedShape
<1>10. VictimShape'
  BY <1>effect, <1>type DEF Exit, VictimShape, CoreShape, TokenUnique, Token
<1> QED BY <1>type, <1>1, <1>2, <1>3, <1>4, <1>5, <1>6, <1>7, <1>8, <1>9, <1>10

\* task_exit wakes its parent from the stack of the finished process.
LEMMA ExitWakeStep ==
    ASSUME IInv, NEW c \in Core, NEW q \in Queue, ExitWake(c, q)
    PROVE  IInv'
<1> USE ConstAssumption DEF IInv, TypeOK, Goto, ExecPcs, Switching, PcVals, Task, WakeKinds,
     WakeFns
<1>effect. Ready' = Ready /\ Asleep' = Asleep
  BY DEF ExitWake, Ready, Asleep
<1>type. TypeOK'
  BY <1>effect DEF ExitWake, CoreShape
<1>1. CoreShape'
  BY <1>effect, <1>type DEF ExitWake, CoreShape
<1>2. LockShape'
  BY <1>effect, <1>type DEF ExitWake, LockShape
<1>3. QueueShape'
  BY <1>effect, <1>type DEF ExitWake, QueueShape
<1>4. TokenUnique'
  BY <1>effect, <1>type DEF ExitWake, TokenUnique, Token
<1>5. TokenExists'
  <2>1. \A d \in Core \ {c} : Token(d)' = Token(d) /\ hand'[d] = hand[d]
    BY <1>effect, <1>type DEF ExitWake, Token
  <2>2. Token(c) = cur[c] /\ Token(c)' = cur[c] /\ hand'[c] = hand[c]
    BY <1>effect, <1>type DEF ExitWake, Token
  <2>3. \A d \in Core : Token(d)' = Token(d) /\ hand'[d] = hand[d]
    BY <2>1, <2>2
  <2>4. alloc' \ finished' \subseteq alloc \ finished
    BY DEF ExitWake
  <2> QED BY <1>effect, <2>3, <2>4 DEF TokenExists
<1>6. StackOwned'
  BY <1>effect, <1>type DEF ExitWake, StackOwned, Stack
<1>7. FinishedShape'
  BY <1>effect, <1>type DEF ExitWake, FinishedShape
<1>8. Allocated'
  BY <1>effect, <1>type DEF ExitWake, Allocated
<1>9. SavedShape'
  BY <1>effect, <1>type DEF ExitWake, SavedShape
<1>10. VictimShape'
  BY <1>effect, <1>type DEF ExitWake, VictimShape
<1> QED BY <1>type, <1>1, <1>2, <1>3, <1>4, <1>5, <1>6, <1>7, <1>8, <1>9, <1>10

\* task_exit leaves the finished process.
LEMMA ExitOrphanStep ==
    ASSUME IInv, NEW c \in Core, ExitOrphan(c)
    PROVE  IInv'
<1> USE ConstAssumption DEF IInv, TypeOK, Goto, ExecPcs, Switching, PcVals, Task, WakeKinds,
     WakeFns
<1>effect. Ready' = Ready /\ Asleep' = Asleep
  BY DEF ExitOrphan, Ready, Asleep
<1>type. TypeOK'
  BY <1>effect DEF ExitOrphan, EnterSwitchNext, CoreShape
<1>1. CoreShape'
  BY <1>effect, <1>type DEF ExitOrphan, EnterSwitchNext, CoreShape
<1>2. LockShape'
  BY <1>effect, <1>type DEF ExitOrphan, EnterSwitchNext, LockShape
<1>3. QueueShape'
  BY <1>effect, <1>type DEF ExitOrphan, EnterSwitchNext, QueueShape
<1>4. TokenUnique'
  BY <1>effect, <1>type DEF ExitOrphan, EnterSwitchNext, TokenUnique, Token, CoreShape
<1>5. TokenExists'
  BY <1>effect, <1>type DEF ExitOrphan, EnterSwitchNext, TokenExists, Token, CoreShape,
     FinishedShape
<1>6. StackOwned'
  BY <1>effect, <1>type DEF ExitOrphan, EnterSwitchNext, StackOwned, Stack
<1>7. FinishedShape'
  BY <1>effect, <1>type DEF ExitOrphan, EnterSwitchNext, FinishedShape
<1>8. Allocated'
  BY <1>effect, <1>type DEF ExitOrphan, EnterSwitchNext, Allocated
<1>9. SavedShape'
  BY <1>effect, <1>type DEF ExitOrphan, EnterSwitchNext, SavedShape
<1>10. VictimShape'
  BY <1>effect, <1>type DEF ExitOrphan, EnterSwitchNext, VictimShape
<1> QED BY <1>type, <1>1, <1>2, <1>3, <1>4, <1>5, <1>6, <1>7, <1>8, <1>9, <1>10

\* waitpid hands a finished child, off every stack, to process_delete.
LEMMA DeleteStep ==
    ASSUME IInv, NEW c \in Core, NEW p \in Proc, Delete(c, p)
    PROVE  IInv'
<1> USE ConstAssumption DEF IInv, TypeOK, Goto, ExecPcs, Switching, PcVals, Task, WakeKinds,
     WakeFns
<1>effect. Ready' = Ready /\ Asleep' = Asleep
  BY DEF Delete, Ready, Asleep
<1>type. TypeOK'
  BY <1>effect DEF Delete, Deletable, DoneRunning, CoreShape
<1>1. CoreShape'
  BY <1>effect, <1>type DEF Delete, Deletable, DoneRunning, CoreShape
<1>2. LockShape'
  BY <1>effect, <1>type DEF Delete, Deletable, DoneRunning, LockShape
<1>3. QueueShape'
  BY <1>effect, <1>type DEF Delete, Deletable, DoneRunning, QueueShape
<1>4. TokenUnique'
  BY <1>effect, <1>type DEF Delete, Deletable, DoneRunning, TokenUnique, Token
<1>5. TokenExists'
  BY <1>effect, <1>type DEF Delete, Deletable, DoneRunning, TokenExists, Token
<1>6. StackOwned'
  BY <1>effect, <1>type DEF Delete, Deletable, DoneRunning, StackOwned, Stack
<1>7. FinishedShape'
  BY <1>effect, <1>type DEF Delete, Deletable, DoneRunning, FinishedShape
<1>8. Allocated'
  BY <1>effect, <1>type DEF Delete, Deletable, DoneRunning, Allocated
<1>9. SavedShape'
  BY <1>effect, <1>type DEF Delete, Deletable, DoneRunning, SavedShape
<1>10. VictimShape'
  BY <1>effect, <1>type DEF Delete, Deletable, DoneRunning, VictimShape, CoreShape,
     FinishedShape
<1> QED BY <1>type, <1>1, <1>2, <1>3, <1>4, <1>5, <1>6, <1>7, <1>8, <1>9, <1>10

\* The same for a child with children: wait_lock_tmp has one holder.
LEMMA DeleteParentStep ==
    ASSUME IInv, NEW c \in Core, NEW p \in Proc, NEW q \in Queue, DeleteParent(c, p, q)
    PROVE  IInv'
<1> USE ConstAssumption DEF IInv, TypeOK, Goto, ExecPcs, Switching, PcVals, Task, WakeKinds,
     WakeFns
<1>effect. Ready' = Ready /\ Asleep' = Asleep
  BY DEF DeleteParent, Ready, Asleep
<1>type. TypeOK'
  BY <1>effect DEF DeleteParent, Deletable, DoneRunning, CoreShape
<1>1. CoreShape'
  BY <1>effect, <1>type DEF DeleteParent, Deletable, DoneRunning, CoreShape
<1>2. LockShape'
  BY <1>effect, <1>type DEF DeleteParent, Deletable, DoneRunning, LockShape
<1>3. QueueShape'
  BY <1>effect, <1>type DEF DeleteParent, Deletable, DoneRunning, QueueShape
<1>4. TokenUnique'
  BY <1>effect, <1>type DEF DeleteParent, Deletable, DoneRunning, TokenUnique, Token
<1>5. TokenExists'
  BY <1>effect, <1>type DEF DeleteParent, Deletable, DoneRunning, TokenExists, Token
<1>6. StackOwned'
  BY <1>effect, <1>type DEF DeleteParent, Deletable, DoneRunning, StackOwned, Stack
<1>7. FinishedShape'
  BY <1>effect, <1>type DEF DeleteParent, Deletable, DoneRunning, FinishedShape
<1>8. Allocated'
  BY <1>effect, <1>type DEF DeleteParent, Deletable, DoneRunning, Allocated
<1>9. SavedShape'
  BY <1>effect, <1>type DEF DeleteParent, Deletable, DoneRunning, SavedShape
<1>10. VictimShape'
  BY <1>effect, <1>type DEF DeleteParent, Deletable, DoneRunning, VictimShape, CoreShape,
     FinishedShape
<1> QED BY <1>type, <1>1, <1>2, <1>3, <1>4, <1>5, <1>6, <1>7, <1>8, <1>9, <1>10

\* A finished process without RUNNING is on no core's stack, so it may be freed.
LEMMA ReapStep ==
    ASSUME IInv, NEW c \in Core, Reap(c)
    PROVE  IInv'
<1> USE ConstAssumption DEF IInv, TypeOK, Goto, ExecPcs, Switching, PcVals, Task, WakeKinds,
     WakeFns
<1>effect. Ready' = Ready /\ Asleep' = Asleep
  BY DEF Reap, Ready, Asleep
<1>type. TypeOK'
  BY <1>effect DEF Reap, EndDelete, FreeProcs, OwnedBy, CoreShape
<1>1. CoreShape'
  BY <1>effect, <1>type DEF Reap, EndDelete, FreeProcs, OwnedBy, CoreShape
<1>2. LockShape'
  BY <1>effect, <1>type DEF Reap, EndDelete, FreeProcs, OwnedBy, LockShape
<1>3. QueueShape'
  BY <1>effect, <1>type DEF Reap, EndDelete, FreeProcs, OwnedBy, QueueShape
<1>4. TokenUnique'
  BY <1>effect, <1>type DEF Reap, EndDelete, FreeProcs, OwnedBy, TokenUnique, Token
<1>5. TokenExists'
  BY <1>effect, <1>type DEF Reap, EndDelete, FreeProcs, OwnedBy, TokenExists, Token
<1>6. StackOwned'
  BY <1>effect, <1>type DEF Reap, EndDelete, FreeProcs, OwnedBy, StackOwned, Stack
<1>7. FinishedShape'
  <2>1. victim[c] \in finished \ running /\ victim[c] \notin Range(reapQ)
    BY DEF Reap, VictimShape
  <2>2. \A d \in Core : cur[d] # victim[c]
    BY <2>1, FinishedOnStack
  <2> QED BY <1>effect, <1>type, <2>1, <2>2 DEF Reap, EndDelete, FreeProcs, FinishedShape
<1>8. Allocated'
  <2>1. victim[c] \in finished \ running /\ victim[c] \notin Range(reapQ)
    BY DEF Reap, VictimShape
  <2>2. \A d \in Core : cur[d] # victim[c]
    BY <2>1, FinishedOnStack
  <2> QED BY <1>effect, <1>type, <2>1, <2>2 DEF Reap, EndDelete, FreeProcs, Allocated,
       FinishedShape
<1>9. SavedShape'
  <2>1. victim[c] \in finished \ running /\ victim[c] \notin Range(reapQ)
    BY DEF Reap, VictimShape
  <2>2. \A d \in Core : cur[d] # victim[c]
    BY <2>1, FinishedOnStack
  <2> QED BY <1>effect, <1>type, <2>1, <2>2 DEF Reap, EndDelete, FreeProcs, SavedShape,
       FinishedShape
<1>10. VictimShape'
  BY <1>effect, <1>type DEF Reap, EndDelete, FreeProcs, OwnedBy, VictimShape
<1> QED BY <1>type, <1>1, <1>2, <1>3, <1>4, <1>5, <1>6, <1>7, <1>8, <1>9, <1>10

\* What process_reap_later frees is finished, not RUNNING and named by no core.
LEMMA ReapLaterStep ==
    ASSUME IInv, NEW c \in Core, ReapLater(c)
    PROVE  IInv'
<1> USE ConstAssumption DEF IInv, TypeOK, Goto, ExecPcs, Switching, PcVals, Task, WakeKinds,
     WakeFns
<1> DEFINE p == victim[c]
<1>list1. PICK n \in 0..Len(reapQ) :
        /\ FreeProcs({reapQ[i] : i \in 1..n})
        /\ reapQ' = Append(SubSeq(reapQ, n + 1, Len(reapQ)), p)
  BY DEF ReapLater
<1> DEFINE rest == SubSeq(reapQ, n + 1, Len(reapQ))
           ps == {reapQ[i] : i \in 1..n}
<1>list2.
       /\ rest \in Seq(Proc) /\ Range(rest) = Range(reapQ) \ ps /\ IsInjective(rest)
       /\ ps \subseteq Range(reapQ)
  <2>1. \A i \in 1..n : i \in DOMAIN reapQ
    OBVIOUS
  <2>2. ps \subseteq Range(reapQ)
    BY <2>1 DEF Range
  <2>3. reapQ \in Seq(Proc) /\ IsInjective(reapQ)
    BY DEF QueueShape
  <2> HIDE DEF IInv, TypeOK
  <2> QED BY <2>2, <2>3, DropElems
<1>list3. p \in Proc /\ p \notin Range(reapQ) /\ p \in finished \ running
  BY DEF ReapLater, VictimShape
<1>list4. reapQ' = Append(rest, p)
  BY <1>list1
<1>list5. alloc' = alloc \ ps /\ finished' = finished \ ps /\ saved' = saved \ ps
  BY <1>list1 DEF FreeProcs
<1> HIDE DEF rest, ps
<1>list6.
       /\ reapQ' \in Seq(Proc) /\ IsInjective(reapQ')
       /\ Range(reapQ') = (Range(reapQ) \ ps) \cup {p}
  BY <1>list2, <1>list3, <1>list4, AppendElems
<1>effect.
      /\ p = victim[c] /\ p \in Proc /\ pc[c] = "delete"
      /\ victim' = [victim EXCEPT ![c] = None] /\ pc' = [pc EXCEPT ![c] = "run"]
      /\ reapQ' \in Seq(Proc) /\ IsInjective(reapQ')
      /\ Range(reapQ') = (Range(reapQ) \ ps) \cup {p}
      /\ p \in finished \ running /\ p \notin Range(reapQ) /\ ps \subseteq Range(reapQ)
      /\ alloc' = alloc \ ps /\ finished' = finished \ ps /\ saved' = saved \ ps
      /\ Ready' = Ready /\ Asleep' = Asleep
      /\ UNCHANGED <<readyQ, waitQ, waitLock, running, sleepInt, owner, cur, prev, hand,
                     wq, wk>>
  BY <1>list2, <1>list3, <1>list5, <1>list6 DEF ReapLater, EndDelete, Ready, Asleep
<1> HIDE DEF p
<1>type. TypeOK'
  BY <1>effect
<1>1. CoreShape'
  BY <1>effect, <1>type DEF CoreShape
<1>2. LockShape'
  BY <1>effect, <1>type DEF LockShape
<1>3. QueueShape'
  BY <1>effect, <1>type DEF QueueShape
<1>4. TokenUnique'
  BY <1>effect, <1>type DEF TokenUnique, Token
<1>5. TokenExists'
  BY <1>effect, <1>type DEF TokenExists, Token
<1>6. StackOwned'
  BY <1>effect, <1>type DEF StackOwned, Stack
<1>7. FinishedShape'
  <2>1. Range(reapQ') \subseteq finished' \ running'
    BY <1>effect DEF FinishedShape
  <2>2. /\ \A d \in Core : hand'[d] \notin finished'
        /\ finished' \cap (Ready' \cup Asleep') = {}
        /\ \A d \in Core : pc'[d] = "exit" => cur'[d] \in finished'
    <3>1. \A d \in Core : pc[d] = "exit" => cur[d] \notin Range(reapQ)
      BY DEF StackOwned, Stack, FinishedShape, CoreShape
    <3> QED BY <1>effect, <3>1 DEF FinishedShape
  <2>3. \A d \in Core : cur'[d] \in finished' =>
            \/ pc'[d] \in {"exit", "wake", "pick", "mark", "own"}
            \/ pc'[d] = "ready" /\ waitLock' = d
    BY <1>effect DEF FinishedShape
  <2> QED BY <2>1, <2>2, <2>3 DEF FinishedShape
<1>8. Allocated'
  <2>1. ps \subseteq finished \ running
    BY <1>effect DEF FinishedShape
  <2>2. \A d \in Core : cur[d] \notin ps
    BY <2>1, FinishedOnStack
  <2> QED BY <1>effect, <2>1, <2>2 DEF Allocated, FinishedShape
<1>9. SavedShape'
  BY <1>effect, <1>type DEF SavedShape, CoreShape, FinishedShape, StackOwned, Stack
<1>10. VictimShape'
  BY <1>effect, <1>type DEF VictimShape
<1> QED BY <1>type, <1>1, <1>2, <1>3, <1>4, <1>5, <1>6, <1>7, <1>8, <1>9, <1>10


\* The initial state: init runs on the boot core, the others are idle.
LEMMA InitIInv == Init => IInv
<1> SUFFICES ASSUME Init PROVE IInv
  OBVIOUS
<1> USE ConstAssumption DEF Init, TypeOK, ExecPcs, Switching, PcVals, Task, WakeKinds, WakeFns
<1>1. Ready = {} /\ Asleep = {} /\ Range(reapQ) = {}
  <2>1. \A q \in Queue : Range(waitQ[q]) = {}
    BY DEF Range
  <2>2. Asleep = {}
    BY <2>1, AsleepElems
  <2> QED BY <2>2 DEF Ready, Range
<1>2. TypeOK
  OBVIOUS
<1>3. CoreShape /\ LockShape
  BY DEF CoreShape, LockShape
<1>4. QueueShape
  BY DEF QueueShape, IsInjective, Range
<1>5. TokenUnique /\ TokenExists
  BY <1>1 DEF TokenUnique, TokenExists, Token
<1>6. StackOwned
  BY DEF StackOwned, Stack
<1>7. FinishedShape /\ Allocated /\ SavedShape
  BY <1>1 DEF FinishedShape, Allocated, SavedShape
<1>8. VictimShape
  BY DEF VictimShape
<1> QED BY <1>2, <1>3, <1>4, <1>5, <1>6, <1>7, <1>8 DEF IInv

\* Every step of every core preserves the invariant.
LEMMA NextIInv == IInv /\ [Next]_vars => IInv'
<1> SUFFICES ASSUME IInv, [Next]_vars PROVE IInv'
  OBVIOUS
<1>1. CASE UNCHANGED vars
  <2>1. Ready' = Ready /\ Asleep' = Asleep /\ \A c \in Core : Token(c)' = Token(c) /\ Stack(c)' = Stack(c)
    BY <1>1 DEF vars, Ready, Asleep, Token, Stack
  <2>2. TypeOK' /\ CoreShape' /\ LockShape' /\ QueueShape'
    BY <1>1 DEF vars, IInv, TypeOK, CoreShape, LockShape, QueueShape
  <2>3. TokenUnique' /\ TokenExists'
    BY <1>1, <2>1 DEF vars, IInv, TokenUnique, TokenExists
  <2>4. StackOwned' /\ FinishedShape'
    BY <1>1, <2>1 DEF vars, IInv, StackOwned, FinishedShape
  <2>5. Allocated' /\ SavedShape'
    BY <1>1, <2>1 DEF vars, IInv, Allocated, SavedShape
  <2>6. VictimShape'
    BY <1>1 DEF vars, IInv, VictimShape
  <2> QED BY <2>2, <2>3, <2>4, <2>5, <2>6 DEF IInv
<1>2. ASSUME NEW c \in Core, Kernel(c) PROVE IInv'
  BY <1>2, SaveYieldStep, RescheduleStep, JoinQueueStep, SaveBlockStep, NextReadyStep,
     MarkRunningStep, TakeOwnershipStep, RestoreStep, PopSleeperStep, ReadyHandStep,
     EndWakeupStep, ExitOrphanStep, ExitWakeStep, ReapStep, ReapLaterStep DEF Kernel
<1>3. ASSUME NEW c \in Core, Request(c) PROVE IInv'
  BY <1>3, SleepOnStep, StartWakeupStep, ForkStep, DeleteStep, DeleteParentStep,
     ExitStep DEF Request
<1> QED BY <1>1, <1>2, <1>3, PreemptStep DEF Next

\* The inductive invariant holds throughout.
THEOREM Invariance == Spec => []IInv
BY InitIInv, NextIInv, PTL DEF Spec

\* Type correctness of the scheduler's state (kernel/sys/process.c).
THEOREM TypeCorrect == Spec => []TypeOK
<1>1. IInv => TypeOK
  BY DEF IInv
<1> QED BY <1>1, Invariance, PTL

\* However many cores there are and whatever they do, no two of them execute on
\* one process's kernel stack: RUNNING and owner protect a process that is in a
\* queue before its core has left it (the worry of the comment in switch_task).
THEOREM StacksExclusive == Spec => []StackExclusive
<1>1. IInv => StackExclusive
  <2> SUFFICES ASSUME IInv, NEW c \in Core, NEW d \in Core, c # d, Stack(c) # Idle,
                      Stack(c) = Stack(d)
               PROVE  FALSE
    BY DEF StackExclusive
  <2>1. Stack(c) \in Proc
    BY DEF IInv, TypeOK, CoreShape, Stack, Task
  <2> QED BY <2>1 DEF IInv, StackOwned
<1> QED BY <1>1, Invariance, PTL

\* arch_restore_context only loads a saved context, on one core.
THEOREM ContextsSaved == Spec => []RestoresSavedContext
<1>1. IInv => RestoresSavedContext
  <2> SUFFICES ASSUME IInv, NEW c \in Core, pc[c] = "restore", cur[c] # Idle
               PROVE  cur[c] \in saved /\ \A d \in Core \ {c} : cur[d] # cur[c]
    BY DEF RestoresSavedContext
  <2>1. cur[c] \in Proc
    BY DEF IInv, TypeOK, Task
  <2>2. cur[c] \in saved /\ cur[c] \in running /\ owner[cur[c]] = c
    BY <2>1 DEF IInv, SavedShape, StackOwned
  <2>3. ASSUME NEW d \in Core \ {c}, cur[d] = cur[c] PROVE FALSE
    <3>1. CASE pc[d] = "restore"
      BY <2>1, <2>2, <2>3, <3>1 DEF IInv, StackOwned
    <3>2. CASE pc[d] # "restore"
      <4>1. Stack(d) = cur[d]
        BY <3>2 DEF IInv, CoreShape, Stack, Switching
      <4> QED BY <2>1, <2>2, <2>3, <4>1 DEF IInv, StackOwned
    <3> QED BY <3>1, <3>2
  <2> QED BY <2>2, <2>3
<1> QED BY <1>1, Invariance, PTL

\* make_process_ready is never given a process that is already queued, as its
\* doc comment demands of its callers.
THEOREM ReadyOnce == Spec => []ReadyPrecondition
<1>1. IInv => ReadyPrecondition
  BY ConstAssumption DEF IInv, TypeOK, CoreShape, TokenUnique, Token, ExecPcs,
     ReadyPrecondition, Ready
<1> QED BY <1>1, Invariance, PTL

\* process_delete and process_reap_later never free a process_t that is still
\* reachable from a queue or a core.
THEOREM NothingDangles == Spec => []NoDanglingProcess
<1>1. IInv => NoDanglingProcess
  <2> SUFFICES ASSUME IInv, NEW p \in Proc \ alloc
               PROVE  /\ p \notin Ready \cup Asleep \cup running
                      /\ \A c \in Core : Stack(c) # p /\ cur[c] # p /\ hand[c] # p /\ victim[c] # p
    BY DEF NoDanglingProcess, Ready
  <2>1. p \notin Ready \cup Asleep \cup running
    BY DEF IInv, Allocated
  <2>2. \A c \in Core : Stack(c) # p
    BY <2>1 DEF IInv, StackOwned
  <2>3. \A c \in Core : cur[c] # p /\ hand[c] # p
    BY DEF IInv, Allocated
  <2>4. \A c \in Core : victim[c] # p
    BY DEF IInv, VictimShape, Allocated
  <2> QED BY <2>1, <2>2, <2>3, <2>4
<1> QED BY <1>1, Invariance, PTL

\* No process is ever lost by the scheduler or found in two places at once.
THEOREM NeverLost == Spec => []OnePlace
<1>1. ASSUME IInv, NEW p \in alloc \ finished
      PROVE  \E place \in Places(p) : Places(p) = {place}
  <2> p \in Proc
    BY <1>1 DEF IInv, TypeOK
  <2> USE DEF Places, Ready
  <2>1. \A c \in Core : hand[c] = p => pc[c] \in {"mark", "own", "ready"}
    BY <1>1 DEF IInv, CoreShape
  <2>2. \A c \in Core : Token(c) = p <=> cur[c] = p /\ pc[c] \in ExecPcs \cup {"restore"}
    BY ConstAssumption DEF Token
  <2>3. Executing(p) \/ Picked(p) \/ InHand(p) \/ p \in Ready \/ p \in Asleep
    <3>1. CASE p \in Ready \cup Asleep
      BY <3>1
    <3>2. ASSUME NEW c \in Core, hand[c] = p PROVE Picked(p) \/ InHand(p)
      BY <2>1, <3>2 DEF Picked, InHand
    <3>3. ASSUME NEW c \in Core, Token(c) = p PROVE Executing(p) \/ Picked(p)
      BY <2>2, <3>3 DEF Executing, Picked
    <3> QED BY <1>1, <3>1, <3>2, <3>3 DEF IInv, TokenExists
  <2>4. /\ Executing(p) => \E c \in Core : Token(c) = p
        /\ InHand(p) => \E c \in Core : hand[c] = p
        /\ Picked(p) => \E c \in Core : hand[c] = p \/ Token(c) = p
    BY <2>2 DEF Executing, InHand, Picked
  <2>5. p \in Ready \cup Asleep => ~Executing(p) /\ ~Picked(p) /\ ~InHand(p)
    BY <1>1, <2>4 DEF IInv, TokenUnique
  <2>6. ~(p \in Ready /\ p \in Asleep)
    BY <1>1 DEF IInv, TokenUnique
  <2>7. ~(Executing(p) /\ InHand(p))
    BY <1>1, <2>4 DEF IInv, TokenUnique
  <2>8. ~(Executing(p) /\ Picked(p))
    <3> SUFFICES ASSUME Executing(p), Picked(p) PROVE FALSE
      OBVIOUS
    <3>1. PICK c \in Core : cur[c] = p /\ pc[c] \in ExecPcs
      BY DEF Executing
    <3>2. Token(c) = p
      BY <2>2, <3>1
    <3>3. PICK d \in Core : hand[d] = p \/ (cur[d] = p /\ pc[d] = "restore")
      BY DEF Picked
    <3>4. hand[d] # p
      BY <1>1, <3>2 DEF IInv, TokenUnique
    <3>5. Token(d) = p /\ d # c
      BY <2>2, <3>1, <3>3, <3>4 DEF ExecPcs
    <3> QED BY <1>1, <3>2, <3>5 DEF IInv, TokenUnique
  <2>9. ~(Picked(p) /\ InHand(p))
    <3> SUFFICES ASSUME Picked(p), InHand(p) PROVE FALSE
      OBVIOUS
    <3>1. PICK c \in Core : hand[c] = p /\ pc[c] = "ready"
      BY DEF InHand
    <3>2. PICK d \in Core : \/ hand[d] = p /\ pc[d] \in {"mark", "own"}
                            \/ cur[d] = p /\ pc[d] = "restore"
      BY DEF Picked
    <3>3. Token(d) # p
      BY <1>1, <3>1 DEF IInv, TokenUnique
    <3>4. hand[d] = p /\ d # c
      BY <2>2, <3>1, <3>2, <3>3
    <3> QED BY <1>1, <3>1, <3>4 DEF IInv, TokenUnique
  <2> HIDE DEF Ready
  <2>10. /\ "exec" \in Places(p) <=> Executing(p)
         /\ "picked" \in Places(p) <=> Picked(p)
         /\ "hand" \in Places(p) <=> InHand(p)
         /\ "ready" \in Places(p) <=> p \in Ready
         /\ "asleep" \in Places(p) <=> p \in Asleep
         /\ Places(p) \subseteq {"exec", "picked", "hand", "ready", "asleep"}
    BY DEF Ready
  <2> HIDE DEF Places
  <2>11. CASE Executing(p)
    BY <2>5, <2>7, <2>8, <2>10, <2>11
  <2>12. CASE Picked(p)
    BY <2>5, <2>8, <2>9, <2>10, <2>12
  <2>13. CASE InHand(p)
    BY <2>5, <2>7, <2>9, <2>10, <2>13
  <2>14. CASE p \in Ready
    BY <2>5, <2>6, <2>10, <2>14
  <2>15. CASE p \in Asleep
    BY <2>5, <2>6, <2>10, <2>15
  <2> QED BY <2>3, <2>11, <2>12, <2>13, <2>14, <2>15
<1>2. ASSUME IInv, NEW p \in finished PROVE Places(p) \subseteq {"exec"}
  <2>1. p \notin Range(readyQ) /\ p \notin Asleep
    BY <1>2 DEF IInv, FinishedShape, Ready
  <2>2. ~Picked(p) /\ ~InHand(p)
    BY <1>2 DEF IInv, FinishedShape, Picked, InHand
  <2> QED BY <2>1, <2>2 DEF Places
<1>3. IInv => OnePlace
  BY <1>1, <1>2 DEF OnePlace
<1> QED BY <1>3, Invariance, PTL

----------------------------------------------------------------------------
(* Interruptions *)

\* Between sleep_on's first step and its sleep, too, the flag is down.
FreshInv == FreshSleep /\ \A c \in Core : pc[c] = "enter" => cur[c] \notin sleepInt

\* A step after which nobody new sleeps or is about to, and no flag is raised.
LEMMA QuietStep ==
    ASSUME FreshInv, Asleep' \subseteq Asleep, sleepInt' \subseteq sleepInt,
           \A d \in Core : pc'[d] = "enter" => pc[d] = "enter" /\ cur'[d] = cur[d]
    PROVE  FreshInv'
BY DEF FreshInv, FreshSleep

\* sleep_on joins its queue with the flag down; wakeup_queue_interrupted raises it
\* only for a sleeper that it has taken off its queue.
LEMMA NextFresh == IInv /\ FreshInv /\ [Next]_vars => FreshInv'
<1> SUFFICES ASSUME IInv, FreshInv, [Next]_vars PROVE FreshInv'
  OBVIOUS
<1>type. pc \in [Core -> PcVals] /\ cur \in [Core -> Task] /\ sleepInt \subseteq Proc
  BY DEF IInv, TypeOK
<1>1. CASE UNCHANGED vars
  BY <1>1, QuietStep DEF vars, Asleep
<1>2. ASSUME NEW c \in Core, JoinQueue(c) PROVE FreshInv'
  BY <1>2, <1>type, JoinQueueEffect DEF FreshInv, FreshSleep
<1>3. ASSUME NEW c \in Core, PopSleeper(c) PROVE FreshInv'
  <2> DEFINE p == Last(waitQ[wq[c]])
  <2>1. /\ p \in Asleep /\ Asleep' = Asleep \ {p} /\ sleepInt' \subseteq sleepInt \cup {p}
        /\ cur' = cur /\ pc' = [pc EXCEPT ![c] = "ready"]
    BY <1>3, PopSleeperEffect
  <2>2. \A d \in Core : pc[d] = "enter" => cur[d] # p
    BY <2>1 DEF IInv, TokenUnique, Token, ExecPcs
  <2> HIDE DEF p
  <2> QED BY <1>type, <2>1, <2>2 DEF FreshInv, FreshSleep
<1>4. ASSUME NEW c \in Core, NEW q \in Queue, SleepOn(c, q) PROVE FreshInv'
  <2>1. Asleep' = Asleep
    BY <1>4 DEF SleepOn, Asleep
  <2> QED BY <1>4, <1>type, <2>1 DEF SleepOn, Goto, FreshInv, FreshSleep
<1>5. ASSUME NEW c \in Core, Preempt(c) PROVE FreshInv'
  BY <1>5, <1>type, QuietStep DEF Preempt, EnterSwitchNext, Goto, Asleep
<1>6. ASSUME NEW c \in Core, SaveYield(c) \/ Reschedule(c) \/ SaveBlock(c) PROVE FreshInv'
  BY <1>6, <1>type, QuietStep DEF SaveYield, Reschedule, SaveBlock, EnterSwitchNext, Goto, Asleep
<1>7. ASSUME NEW c \in Core, NextReady(c) PROVE FreshInv'
  BY <1>7, <1>type, QuietStep DEF NextReady, TakeIdle, Goto, Asleep
<1>8. ASSUME NEW c \in Core, MarkRunning(c) \/ TakeOwnership(c) \/ Restore(c) PROVE FreshInv'
  BY <1>8, <1>type, QuietStep DEF MarkRunning, TakeOwnership, Restore, Goto, Asleep
<1>9. ASSUME NEW c \in Core, ReadyHand(c) \/ EndWakeup(c) PROVE FreshInv'
  BY <1>9, <1>type, QuietStep DEF ReadyHand, EndWakeup, EnterSwitchNext, Goto, Asleep
<1>10. ASSUME NEW c \in Core, NEW q \in Queue, ExitWake(c, q) PROVE FreshInv'
  BY <1>10, <1>type, QuietStep DEF ExitWake, Goto, Asleep
<1>11. ASSUME NEW c \in Core, ExitOrphan(c) \/ Exit(c) PROVE FreshInv'
  BY <1>11, <1>type, QuietStep DEF ExitOrphan, Exit, EnterSwitchNext, Goto, Asleep
<1>12. ASSUME NEW c \in Core, Reap(c) \/ ReapLater(c) PROVE FreshInv'
  BY <1>12, <1>type, QuietStep DEF Reap, ReapLater, EndDelete, Goto, Asleep
<1>13. ASSUME NEW c \in Core, NEW q \in Queue, NEW kind \in Wakeups, StartWakeup(c, q, kind)
       PROVE  FreshInv'
  BY <1>13, <1>type, QuietStep DEF StartWakeup, Goto, Asleep
<1>14. ASSUME NEW c \in Core, NEW p \in Proc, Fork(c, p) \/ Delete(c, p) PROVE FreshInv'
  BY <1>14, <1>type, QuietStep DEF Fork, Delete, Goto, Asleep
<1>15. ASSUME NEW c \in Core, NEW p \in Proc, NEW q \in Queue, DeleteParent(c, p, q)
       PROVE  FreshInv'
  BY <1>15, <1>type, QuietStep DEF DeleteParent, Goto, Asleep
<1>16. ASSUME NEW c \in Core, Kernel(c) PROVE FreshInv'
  BY <1>16, <1>2, <1>3, <1>6, <1>7, <1>8, <1>9, <1>10, <1>11, <1>12 DEF Kernel
<1>17. ASSUME NEW c \in Core, Request(c) PROVE FreshInv'
  BY <1>17, <1>4, <1>11, <1>13, <1>14, <1>15 DEF Request
<1> QED BY <1>1, <1>5, <1>16, <1>17 DEF Next

\* A process never goes to sleep, or stays asleep, with an interruption already
\* noted: sleep_on clears PROC_FLAG_SLEEP_INT before it joins the queue.
THEOREM SleepsFresh == Spec => []FreshSleep
<1>1. Init => FreshInv
  BY AsleepElems DEF Init, FreshInv, FreshSleep
<1>2. FreshInv => FreshSleep
  BY DEF FreshInv
<1> QED BY <1>1, <1>2, NextFresh, Invariance, PTL DEF Spec

----------------------------------------------------------------------------
(* Refinement *)

\* What the abstract machine sees of a process: a live process that neither
\* executes nor is on its way to a core sleeps.
Seen(p) ==
    IF p \notin alloc THEN "free"
    ELSE IF p \in finished THEN "dead"
    ELSE IF Executing(p) THEN "exec"
    ELSE IF Readied(p) THEN "ready"
    ELSE "asleep"

\* No process is lost, so that ProcState is one of the abstract states.
LEMMA StateSeen == IInv => \A p \in Proc : ProcState(p) = Seen(p)
<1> SUFFICES ASSUME IInv, NEW p \in alloc \ finished, p \in Proc, ~Executing(p), ~Readied(p)
             PROVE  p \in Asleep \/ InHand(p)
  BY DEF ProcState, Seen
<1>1. CASE p \in Ready
  BY <1>1 DEF Readied, Ready
<1>2. ASSUME NEW c \in Core, hand[c] = p PROVE InHand(p)
  <2>1. pc[c] \in {"mark", "own", "ready"}
    BY <1>2 DEF IInv, CoreShape
  <2> QED BY <1>2, <2>1 DEF InHand, Readied, Picked
<1>3. ASSUME NEW c \in Core, Token(c) = p PROVE FALSE
  <2>1. cur[c] = p /\ pc[c] \in ExecPcs \cup {"restore"}
    BY <1>3, ConstAssumption DEF Token
  <2> QED BY <2>1 DEF Executing, Readied, Picked
<1> QED BY <1>1, <1>2, <1>3 DEF IInv, TokenExists

\* The cores are on different stacks, and a core at the end of switch_next is not on
\* the stack of a process that executes elsewhere.
LEMMA StacksApart ==
    ASSUME IInv
    PROVE  \A c, d \in Core : c # d /\ Stack(c) \in Proc => Stack(c) # Stack(d)
BY DEF IInv, StackOwned

\* The same after a step.
LEMMA SeenAfter == IInv' => \A p \in Proc : ProcState(p)' = Seen(p)'
<1>1. (IInv => \A p \in Proc : ProcState(p) = Seen(p))'
  BY StateSeen, PTL
<1> QED BY <1>1

\* A step that changes nothing the abstract machine can see.
LEMMA StutterSeen ==
    ASSUME IInv, IInv', \A p \in Proc : Seen(p)' = Seen(p), \A c \in Core : Stack(c)' = Stack(c)
    PROVE  UNCHANGED M!mvars
<1>1. [p \in Proc |-> ProcState(p)]' = [p \in Proc |-> ProcState(p)]
  BY StateSeen, SeenAfter
<1>2. [c \in Core |-> Stack(c)]' = [c \in Core |-> Stack(c)]
  OBVIOUS
<1> QED BY <1>1, <1>2 DEF M!mvars

\* The process on core c leaves it, and nothing else changes for the abstract machine.
LEMMA LeaveSeen ==
    ASSUME IInv, IInv', NEW c \in Core, NEW to, Stack(c) \in Proc, Seen(Stack(c)) = "exec",
           \A p \in Proc : Seen(p)' = IF p = Stack(c) THEN to ELSE Seen(p),
           \A d \in Core : Stack(d)' = Stack(d)
    PROVE  M!Leave(c, to)
<1>1. \A p \in Proc : ProcState(p) = Seen(p) /\ ProcState(p)' = Seen(p)'
  BY StateSeen, SeenAfter
<1>2. [d \in Core |-> Stack(d)]' = [d \in Core |-> Stack(d)]
  OBVIOUS
<1>3. [p \in Proc |-> ProcState(p)]' = [[p \in Proc |-> ProcState(p)] EXCEPT ![Stack(c)] = to]
  BY <1>1
<1>4. [d \in Core |-> Stack(d)][c] = Stack(c) /\ ProcState(Stack(c)) = "exec"
  BY <1>1
<1> QED BY <1>2, <1>3, <1>4 DEF M!Leave

\* An interrupt changes no process; an idle core is still on its idle task.
LEMMA PreemptSeen ==
    ASSUME IInv, IInv', NEW c \in Core, Preempt(c)
    PROVE  UNCHANGED M!mvars
<1> USE ConstAssumption DEF IInv, TypeOK, Goto, ExecPcs, Switching, PcVals, Task
<1>1. \A p \in Proc : Executing(p)' <=> Executing(p)
  BY DEF Executing, Preempt, EnterSwitchNext, StackOwned, Stack, CoreShape
<1>2. \A p \in Proc : Readied(p)' <=> Readied(p)
  BY DEF Readied, Picked, Preempt, EnterSwitchNext, StackOwned, Stack, CoreShape
<1>3. \A d \in Core : Stack(d)' = Stack(d)
  BY DEF Stack, Preempt, EnterSwitchNext, StackOwned, Stack, CoreShape
<1>4. alloc' = alloc /\ finished' = finished
  BY DEF Preempt, EnterSwitchNext, StackOwned, Stack, CoreShape
<1> QED BY <1>1, <1>2, <1>3, <1>4, StutterSeen DEF Seen

\* Saving a context is not seen.
LEMMA SaveYieldSeen ==
    ASSUME IInv, IInv', NEW c \in Core, SaveYield(c)
    PROVE  UNCHANGED M!mvars
<1> USE ConstAssumption DEF IInv, TypeOK, Goto, ExecPcs, Switching, PcVals, Task
<1>1. \A p \in Proc : Executing(p)' <=> Executing(p)
  BY DEF Executing, SaveYield, CoreShape
<1>2. \A p \in Proc : Readied(p)' <=> Readied(p)
  BY DEF Readied, Picked, SaveYield, CoreShape
<1>3. \A d \in Core : Stack(d)' = Stack(d)
  BY DEF Stack, SaveYield, CoreShape
<1>4. alloc' = alloc /\ finished' = finished
  BY DEF SaveYield, CoreShape
<1> QED BY <1>1, <1>2, <1>3, <1>4, StutterSeen DEF Seen

\* The beginning of sleep_on is not seen.
LEMMA SleepOnSeen ==
    ASSUME IInv, IInv', NEW c \in Core, NEW q \in Queue, SleepOn(c, q)
    PROVE  UNCHANGED M!mvars
<1> USE ConstAssumption DEF IInv, TypeOK, Goto, ExecPcs, Switching, PcVals, Task
<1>1. \A p \in Proc : Executing(p)' <=> Executing(p)
  BY DEF Executing, SleepOn, CoreShape
<1>2. \A p \in Proc : Readied(p)' <=> Readied(p)
  BY DEF Readied, Picked, SleepOn, CoreShape
<1>3. \A d \in Core : Stack(d)' = Stack(d)
  BY DEF Stack, SleepOn, CoreShape
<1>4. alloc' = alloc /\ finished' = finished
  BY DEF SleepOn, CoreShape
<1> QED BY <1>1, <1>2, <1>3, <1>4, StutterSeen DEF Seen

\* A sleeper that saves its context left its core when it joined its queue.
LEMMA SaveBlockSeen ==
    ASSUME IInv, IInv', NEW c \in Core, SaveBlock(c)
    PROVE  UNCHANGED M!mvars
<1> USE ConstAssumption DEF IInv, TypeOK, Goto, ExecPcs, Switching, PcVals, Task
<1>1. \A p \in Proc : Executing(p)' <=> Executing(p)
  BY DEF Executing, SaveBlock, EnterSwitchNext, CoreShape
<1>2. \A p \in Proc : Readied(p)' <=> Readied(p)
  BY DEF Readied, Picked, SaveBlock, EnterSwitchNext, CoreShape
<1>3. \A d \in Core : Stack(d)' = Stack(d)
  BY DEF Stack, SaveBlock, EnterSwitchNext, CoreShape
<1>4. alloc' = alloc /\ finished' = finished
  BY DEF SaveBlock, EnterSwitchNext, CoreShape
<1> QED BY <1>1, <1>2, <1>3, <1>4, StutterSeen DEF Seen

\* A process that next_ready_process takes from the queue is still ready.
LEMMA NextReadySeen ==
    ASSUME IInv, IInv', NEW c \in Core, NextReady(c)
    PROVE  UNCHANGED M!mvars
<1> USE ConstAssumption DEF IInv, TypeOK, Goto, ExecPcs, Switching, PcVals, Task
<1>0. \/ /\ Ready' = Ready /\ hand' = hand /\ cur' = [cur EXCEPT ![c] = Idle]
         /\ pc' = [pc EXCEPT ![c] = "restore"]
      \/ /\ cur' = cur /\ pc' = [pc EXCEPT ![c] = "mark"]
         /\ \E x \in Ready : Ready' = Ready \ {x} /\ hand' = [hand EXCEPT ![c] = x]
  <2>1. readyQ \in Seq(Proc) /\ IsInjective(readyQ)
    BY DEF QueueShape
  <2> QED BY <2>1, RotateElems, TailElems DEF NextReady, TakeIdle, Ready
<1>1. pc[c] = "pick" /\ prev' = prev /\ waitLock' = waitLock
  BY DEF NextReady
<1>2. \A d \in Core \ {c} : pc'[d] = pc[d] /\ cur'[d] = cur[d] /\ hand'[d] = hand[d]
  BY <1>0
<1>3. pc'[c] \in {"restore", "mark"}
  BY <1>0
<1>4. \A p \in Proc : Executing(p)' <=> Executing(p)
  BY <1>1, <1>2, <1>3 DEF Executing
<1>5. \A p \in Proc : Readied(p)' <=> Readied(p)
  <2>1. CASE Ready' = Ready /\ hand' = hand /\ cur'[c] = Idle /\ pc'[c] = "restore"
    BY <1>1, <1>2, <2>1 DEF Readied, Picked, Ready
  <2>2. ASSUME NEW x \in Ready, Ready' = Ready \ {x}, hand'[c] = x, pc'[c] = "mark"
        PROVE  \A p \in Proc : Readied(p)' <=> Readied(p)
    <3>1. Readied(x) /\ Readied(x)'
      BY <2>2 DEF Readied, Picked, Ready
    <3>2. \A p \in Proc \ {x} : Picked(p)' <=> Picked(p)
      BY <1>1, <1>2, <2>2 DEF Picked
    <3>3. \A p : (\E d \in Core : hand'[d] = p /\ pc'[d] = "ready" /\ waitLock' # d)
                 <=> (\E d \in Core : hand[d] = p /\ pc[d] = "ready" /\ waitLock # d)
      BY <1>1, <1>2, <2>2
    <3>4. \A p \in Proc \ {x} : Readied(p)' <=> Readied(p)
      BY <2>2, <3>2, <3>3 DEF Readied, Ready
    <3> QED BY <3>1, <3>4
  <2> QED BY <1>0, <2>1, <2>2
<1>6. \A d \in Core : Stack(d)' = Stack(d)
  BY <1>1, <1>2, <1>3 DEF Stack
<1>7. alloc' = alloc /\ finished' = finished
  BY DEF NextReady
<1> QED BY <1>4, <1>5, <1>6, <1>7, StutterSeen DEF Seen

\* RUNNING is not seen.
LEMMA MarkRunningSeen ==
    ASSUME IInv, IInv', NEW c \in Core, MarkRunning(c)
    PROVE  UNCHANGED M!mvars
<1> USE ConstAssumption DEF IInv, TypeOK, Goto, ExecPcs, Switching, PcVals, Task
<1>1. \A p \in Proc : Executing(p)' <=> Executing(p)
  BY DEF Executing, MarkRunning, CoreShape
<1>2. \A p \in Proc : Readied(p)' <=> Readied(p)
  BY DEF Readied, Picked, MarkRunning, CoreShape
<1>3. \A d \in Core : Stack(d)' = Stack(d)
  BY DEF Stack, MarkRunning, CoreShape
<1>4. alloc' = alloc /\ finished' = finished
  BY DEF MarkRunning, CoreShape
<1> QED BY <1>1, <1>2, <1>3, <1>4, StutterSeen DEF Seen

\* The process in hand becomes the current one, and is still ready.
LEMMA TakeOwnershipSeen ==
    ASSUME IInv, IInv', NEW c \in Core, TakeOwnership(c)
    PROVE  UNCHANGED M!mvars
<1> USE ConstAssumption DEF IInv, TypeOK, Goto, ExecPcs, Switching, PcVals, Task
<1>1. \A p \in Proc : Executing(p)' <=> Executing(p)
  BY DEF Executing, TakeOwnership, CoreShape, FinishedShape
<1>2. \A p \in Proc : Readied(p)' <=> Readied(p)
  BY DEF Readied, Picked, TakeOwnership, CoreShape, FinishedShape
<1>3. \A d \in Core : Stack(d)' = Stack(d)
  BY DEF Stack, TakeOwnership, CoreShape, FinishedShape
<1>4. alloc' = alloc /\ finished' = finished
  BY DEF TakeOwnership, CoreShape, FinishedShape
<1> QED BY <1>1, <1>2, <1>3, <1>4, StutterSeen DEF Seen

\* Taking wait_lock_tmp is not seen.
LEMMA StartWakeupSeen ==
    ASSUME IInv, IInv', NEW c \in Core, NEW q \in Queue, NEW kind \in Wakeups, StartWakeup(c, q, kind)
    PROVE  UNCHANGED M!mvars
<1> USE ConstAssumption DEF IInv, TypeOK, Goto, ExecPcs, Switching, PcVals, Task
<1>1. \A p \in Proc : Executing(p)' <=> Executing(p)
  BY DEF Executing, StartWakeup, CoreShape, LockShape
<1>2. \A p \in Proc : Readied(p)' <=> Readied(p)
  BY DEF Readied, Picked, StartWakeup, CoreShape, LockShape
<1>3. \A d \in Core : Stack(d)' = Stack(d)
  BY DEF Stack, StartWakeup, CoreShape, LockShape
<1>4. alloc' = alloc /\ finished' = finished
  BY DEF StartWakeup, CoreShape, LockShape
<1> QED BY <1>1, <1>2, <1>3, <1>4, StutterSeen DEF Seen

\* A sleeper in a waker's hand is still asleep.
LEMMA PopSleeperSeen ==
    ASSUME IInv, IInv', NEW c \in Core, PopSleeper(c)
    PROVE  UNCHANGED M!mvars
<1> USE ConstAssumption DEF IInv, TypeOK, Goto, ExecPcs, Switching, PcVals, Task
<1> DEFINE x == Last(waitQ[wq[c]])
<1>1. /\ pc[c] = "wake" /\ pc' = [pc EXCEPT ![c] = "ready"] /\ hand' = [hand EXCEPT ![c] = x]
      /\ Ready' = Ready /\ x \in Asleep /\ waitLock = c
      /\ UNCHANGED <<cur, prev, waitLock, alloc, finished>>
  BY PopSleeperEffect DEF LockShape
<1> HIDE DEF x
<1>2. \A p \in Proc : Executing(p)' <=> Executing(p)
  BY <1>1 DEF Executing
<1>3. \A p \in Proc : Readied(p)' <=> Readied(p)
  <2>1. \A d \in Core \ {c} : pc'[d] = pc[d] /\ hand'[d] = hand[d]
    BY <1>1
  <2>2. \A p \in Proc : Picked(p)' <=> Picked(p)
    BY <1>1, <2>1 DEF Picked
  <2> QED BY <1>1, <2>1, <2>2 DEF Readied, Ready
<1>4. \A d \in Core : Stack(d)' = Stack(d)
  BY <1>1 DEF Stack
<1> QED BY <1>1, <1>2, <1>3, <1>4, StutterSeen DEF Seen

\* Releasing wait_lock_tmp is not seen; a finished process is dead already.
LEMMA EndWakeupSeen ==
    ASSUME IInv, IInv', NEW c \in Core, EndWakeup(c)
    PROVE  UNCHANGED M!mvars
<1> USE ConstAssumption DEF IInv, TypeOK, Goto, ExecPcs, Switching, PcVals, Task
<1>1. \A p \in Proc \ finished : Executing(p)' <=> Executing(p)
  BY DEF Executing, EndWakeup, EnterSwitchNext, CoreShape, LockShape, VictimShape
<1>2. \A p \in Proc : Readied(p)' <=> Readied(p)
  BY DEF Readied, Picked, EndWakeup, EnterSwitchNext, CoreShape, LockShape, VictimShape
<1>3. \A d \in Core : Stack(d)' = Stack(d)
  BY DEF Stack, EndWakeup, EnterSwitchNext, CoreShape, LockShape, VictimShape
<1>4. alloc' = alloc /\ finished' = finished
  BY DEF EndWakeup, EnterSwitchNext, CoreShape, LockShape, VictimShape
<1> QED BY <1>1, <1>2, <1>3, <1>4, StutterSeen DEF Seen

\* task_exit wakes its parent.
LEMMA ExitWakeSeen ==
    ASSUME IInv, IInv', NEW c \in Core, NEW q \in Queue, ExitWake(c, q)
    PROVE  UNCHANGED M!mvars
<1> USE ConstAssumption DEF IInv, TypeOK, Goto, ExecPcs, Switching, PcVals, Task
<1>1. \A p \in Proc : Executing(p)' <=> Executing(p)
  BY DEF Executing, ExitWake, CoreShape, LockShape
<1>2. \A p \in Proc : Readied(p)' <=> Readied(p)
  BY DEF Readied, Picked, ExitWake, CoreShape, LockShape
<1>3. \A d \in Core : Stack(d)' = Stack(d)
  BY DEF Stack, ExitWake, CoreShape, LockShape
<1>4. alloc' = alloc /\ finished' = finished
  BY DEF ExitWake, CoreShape, LockShape
<1> QED BY <1>1, <1>2, <1>3, <1>4, StutterSeen DEF Seen

\* A finished process that leaves its core is dead already.
LEMMA ExitOrphanSeen ==
    ASSUME IInv, IInv', NEW c \in Core, ExitOrphan(c)
    PROVE  UNCHANGED M!mvars
<1> USE ConstAssumption DEF IInv, TypeOK, Goto, ExecPcs, Switching, PcVals, Task
<1>1. \A p \in Proc \ finished : Executing(p)' <=> Executing(p)
  BY DEF Executing, ExitOrphan, EnterSwitchNext, CoreShape, FinishedShape
<1>2. \A p \in Proc : Readied(p)' <=> Readied(p)
  BY DEF Readied, Picked, ExitOrphan, EnterSwitchNext, CoreShape, FinishedShape
<1>3. \A d \in Core : Stack(d)' = Stack(d)
  BY DEF Stack, ExitOrphan, EnterSwitchNext, CoreShape, FinishedShape
<1>4. alloc' = alloc /\ finished' = finished
  BY DEF ExitOrphan, EnterSwitchNext, CoreShape, FinishedShape
<1> QED BY <1>1, <1>2, <1>3, <1>4, StutterSeen DEF Seen

\* The beginning of process_delete is not seen.
LEMMA DeleteSeen ==
    ASSUME IInv, IInv', NEW c \in Core, NEW x \in Proc, Delete(c, x)
    PROVE  UNCHANGED M!mvars
<1> USE ConstAssumption DEF IInv, TypeOK, Goto, ExecPcs, Switching, PcVals, Task
<1>1. \A p \in Proc : Executing(p)' <=> Executing(p)
  BY DEF Executing, Delete, Deletable, CoreShape
<1>2. \A p \in Proc : Readied(p)' <=> Readied(p)
  BY DEF Readied, Picked, Delete, Deletable, CoreShape
<1>3. \A d \in Core : Stack(d)' = Stack(d)
  BY DEF Stack, Delete, Deletable, CoreShape
<1>4. alloc' = alloc /\ finished' = finished
  BY DEF Delete, Deletable, CoreShape
<1> QED BY <1>1, <1>2, <1>3, <1>4, StutterSeen DEF Seen

\* Nor is the wakeup of init in it.
LEMMA DeleteParentSeen ==
    ASSUME IInv, IInv', NEW c \in Core, NEW x \in Proc, NEW q \in Queue, DeleteParent(c, x, q)
    PROVE  UNCHANGED M!mvars
<1> USE ConstAssumption DEF IInv, TypeOK, Goto, ExecPcs, Switching, PcVals, Task
<1>1. \A p \in Proc : Executing(p)' <=> Executing(p)
  BY DEF Executing, DeleteParent, Deletable, CoreShape, LockShape
<1>2. \A p \in Proc : Readied(p)' <=> Readied(p)
  BY DEF Readied, Picked, DeleteParent, Deletable, CoreShape, LockShape
<1>3. \A d \in Core : Stack(d)' = Stack(d)
  BY DEF Stack, DeleteParent, Deletable, CoreShape, LockShape
<1>4. alloc' = alloc /\ finished' = finished
  BY DEF DeleteParent, Deletable, CoreShape, LockShape
<1> QED BY <1>1, <1>2, <1>3, <1>4, StutterSeen DEF Seen

\* make_process_ready(current_process): the process yields.
LEMMA RescheduleSeen ==
    ASSUME IInv, IInv', NEW c \in Core, Reschedule(c)
    PROVE  M!Yield(c)
<1> USE ConstAssumption DEF IInv, TypeOK, Goto, ExecPcs, Switching, PcVals, Task
<1>x. PICK x \in Proc : x = cur[c]
  BY DEF Reschedule, CoreShape
<1>1. /\ x \notin Ready /\ x \notin finished /\ x \in alloc /\ Token(c) = x
      /\ pc[c] = "resched" /\ pc' = [pc EXCEPT ![c] = "pick"] /\ prev' = [prev EXCEPT ![c] = x]
      /\ UNCHANGED <<cur, hand, waitLock, alloc, finished>>
  BY <1>x DEF Reschedule, EnterSwitchNext, CoreShape, TokenUnique, Token, FinishedShape, Allocated
<1>2. Ready' = Ready \cup {x}
  BY <1>x, <1>1, MakeReadyElems DEF Reschedule
<1>3. Executing(x) /\ ~Executing(x)' /\ Readied(x)'
  BY <1>x, <1>1, <1>2 DEF Executing, Readied, Ready, TokenUnique, Token
<1>4. \A p \in Proc \ {x} : (Executing(p)' <=> Executing(p)) /\ (Readied(p)' <=> Readied(p))
  BY <1>x, <1>1, <1>2 DEF Executing, Readied, Picked, Ready
<1>5. Stack(c) = x /\ \A d \in Core : Stack(d)' = Stack(d)
  BY <1>x, <1>1 DEF Stack
<1>6. Seen(x) = "exec" /\ \A p \in Proc : Seen(p)' = IF p = x THEN "ready" ELSE Seen(p)
  BY <1>x, <1>1, <1>3, <1>4 DEF Seen
<1>7. /\ Stack(c) \in Proc /\ Seen(Stack(c)) = "exec"
      /\ \A p \in Proc : Seen(p)' = IF p = Stack(c) THEN "ready" ELSE Seen(p)
  BY <1>x, <1>5, <1>6
<1> HIDE DEF IInv, TypeOK
<1>8. M!Leave(c, "ready")
  BY <1>5, <1>7, LeaveSeen
<1> QED BY <1>8 DEF M!Yield

\* Joining a wait queue: the process blocks.
LEMMA JoinQueueSeen ==
    ASSUME IInv, IInv', NEW c \in Core, JoinQueue(c)
    PROVE  M!Block(c)
<1> USE ConstAssumption DEF IInv, TypeOK, Goto, ExecPcs, Switching, PcVals, Task
<1>x. PICK x \in Proc : x = cur[c]
  BY DEF JoinQueue, CoreShape
<1>1. /\ x \notin finished /\ x \in alloc /\ Token(c) = x
      /\ pc[c] = "enter" /\ pc' = [pc EXCEPT ![c] = "block"] /\ Ready' = Ready
      /\ UNCHANGED <<readyQ, cur, prev, hand, waitLock, alloc, finished>>
  BY <1>x, JoinQueueEffect DEF Token, Allocated
<1>2. Executing(x) /\ ~Executing(x)'
  BY <1>x, <1>1 DEF Executing, TokenUnique, Token
<1>3. ~Readied(x)'
  <2>1. x \notin Ready /\ \A d \in Core : hand[d] # x
    BY <1>x, <1>1 DEF TokenUnique
  <2>2. \A d \in Core : pc'[d] = "restore" => cur'[d] # x
    BY <1>x, <1>1 DEF TokenUnique, Token
  <2> QED BY <1>x, <1>1, <2>1, <2>2 DEF Readied, Picked, Ready
<1>4. \A p \in Proc \ {x} : (Executing(p)' <=> Executing(p)) /\ (Readied(p)' <=> Readied(p))
  BY <1>x, <1>1 DEF Executing, Readied, Picked
<1>5. Stack(c) = x /\ \A d \in Core : Stack(d)' = Stack(d)
  BY <1>x, <1>1 DEF Stack
<1>6. Seen(x) = "exec" /\ \A p \in Proc : Seen(p)' = IF p = x THEN "asleep" ELSE Seen(p)
  BY <1>x, <1>1, <1>2, <1>3, <1>4 DEF Seen
<1>7. /\ Stack(c) \in Proc /\ Seen(Stack(c)) = "exec"
      /\ \A p \in Proc : Seen(p)' = IF p = Stack(c) THEN "asleep" ELSE Seen(p)
  BY <1>x, <1>5, <1>6
<1> HIDE DEF IInv, TypeOK
<1>8. M!Leave(c, "asleep")
  BY <1>5, <1>7, LeaveSeen
<1> QED BY <1>8 DEF M!Block

\* task_exit: the process dies when FINISHED is set.
LEMMA ExitDies ==
    ASSUME IInv, IInv', NEW c \in Core, Exit(c)
    PROVE  M!Die(c)
<1> USE ConstAssumption DEF IInv, TypeOK, Goto, ExecPcs, Switching, PcVals, Task
<1>x. PICK x \in Proc : x = cur[c]
  BY DEF Exit
<1>1. /\ x \notin finished /\ x \in alloc
      /\ pc[c] = "run" /\ pc' = [pc EXCEPT ![c] = "exit"] /\ finished' = finished \cup {x}
      /\ UNCHANGED <<readyQ, cur, prev, hand, waitLock, alloc>>
  BY <1>x DEF Exit, FinishedShape, Allocated
<1>2. Executing(x)
  BY <1>x, <1>1 DEF Executing
<1>3. \A p \in Proc \ {x} : (Executing(p)' <=> Executing(p)) /\ (Readied(p)' <=> Readied(p))
  BY <1>x, <1>1 DEF Executing, Readied, Picked
<1>4. Stack(c) = x /\ \A d \in Core : Stack(d)' = Stack(d)
  BY <1>x, <1>1 DEF Stack
<1>5. Seen(x) = "exec" /\ \A p \in Proc : Seen(p)' = IF p = x THEN "dead" ELSE Seen(p)
  BY <1>x, <1>1, <1>2, <1>3 DEF Seen
<1>6. /\ Stack(c) \in Proc /\ Seen(Stack(c)) = "exec"
      /\ \A p \in Proc : Seen(p)' = IF p = Stack(c) THEN "dead" ELSE Seen(p)
  BY <1>x, <1>4, <1>5
<1> HIDE DEF IInv, TypeOK
<1>7. M!Leave(c, "dead")
  BY <1>4, <1>6, LeaveSeen
<1> QED BY <1>7 DEF M!Die

\* The core leaves its old stack in arch_restore_context, for a ready process that no
\* other core is on, or for its idle task.
LEMMA RestoreSeen ==
    ASSUME IInv, IInv', NEW c \in Core, Restore(c)
    PROVE  M!GoIdle(c) \/ \E p \in Proc : M!Dispatch(c, p)
<1> USE ConstAssumption DEF IInv, TypeOK, Goto, ExecPcs, Switching, PcVals, Task
<1> DEFINE x == cur[c]
<1>1. /\ pc[c] = "restore" /\ pc' = [pc EXCEPT ![c] = "run"]
      /\ UNCHANGED <<readyQ, cur, prev, hand, waitLock, alloc, finished>>
  BY DEF Restore
<1>2. \A p \in Proc \ {x} : (Executing(p)' <=> Executing(p)) /\ (Readied(p)' <=> Readied(p))
  BY <1>1 DEF Executing, Readied, Picked
<1>3. Stack(c) = prev[c] /\ Stack(c)' = x /\ \A d \in Core \ {c} : Stack(d)' = Stack(d)
  BY <1>1 DEF Stack
<1>4. Stack(c) \in Proc => Seen(Stack(c)) # "exec"
  <2> SUFFICES ASSUME prev[c] \in Proc PROVE ~Executing(prev[c])
    BY <1>3 DEF Seen
  <2>1. \A d \in Core : pc[d] \in ExecPcs => d # c /\ Stack(d) = cur[d]
    BY <1>1 DEF Stack
  <2> QED BY <1>3, <2>1, StacksApart DEF Executing
<1>5. \A p \in Proc : ProcState(p) = Seen(p) /\ ProcState(p)' = Seen(p)'
  BY StateSeen, SeenAfter
<1>6. [d \in Core |-> Stack(d)]' = [[d \in Core |-> Stack(d)] EXCEPT ![c] = x]
  BY <1>3
<1>7. [d \in Core |-> Stack(d)][c] \in Proc
        => [p \in Proc |-> ProcState(p)][[d \in Core |-> Stack(d)][c]] # "exec"
  BY <1>4, <1>5
<1>8. CASE x = Idle
  <2>1. \A p \in Proc : Seen(p)' = Seen(p)
    BY <1>1, <1>2, <1>8 DEF Seen
  <2>2. [p \in Proc |-> ProcState(p)]' = [p \in Proc |-> ProcState(p)]
    BY <1>5, <2>1
  <2> QED BY <1>6, <1>7, <1>8, <2>2 DEF M!GoIdle
<1>9. CASE x \in Proc
  <2>1. x \in alloc /\ x \notin finished /\ Token(c) = x
    BY <1>1, <1>9 DEF FinishedShape, Allocated, Token
  <2>2. ~Executing(x) /\ Readied(x) /\ Executing(x)'
    BY <1>1, <1>9, <2>1 DEF Executing, Readied, Picked, TokenUnique, Token
  <2>3. Seen(x) = "ready" /\ \A p \in Proc : Seen(p)' = IF p = x THEN "exec" ELSE Seen(p)
    BY <1>1, <1>2, <2>1, <2>2 DEF Seen
  <2>4. \A d \in Core \ {c} : Stack(d) # x
    BY <1>1, <1>9 DEF StackOwned
  <2>5. [p \in Proc |-> ProcState(p)]' = [[p \in Proc |-> ProcState(p)] EXCEPT ![x] = "exec"]
    BY <1>5, <1>9, <2>3
  <2>6. [p \in Proc |-> ProcState(p)][x] = "ready"
    BY <1>5, <1>9, <2>3
  <2>7. \A d \in Core \ {c} : [e \in Core |-> Stack(e)][d] # x
    BY <2>4
  <2>8. M!Dispatch(c, x)
    BY <1>6, <1>7, <2>5, <2>6, <2>7 DEF M!Dispatch
  <2> QED BY <1>9, <2>8
<1> QED BY <1>8, <1>9

\* make_process_ready(hand): a sleeper wakes up; a new process was ready already.
LEMMA ReadyHandSeen ==
    ASSUME IInv, IInv', NEW c \in Core, ReadyHand(c)
    PROVE  UNCHANGED M!mvars \/ \E p \in Proc : M!Wake(p)
<1> USE ConstAssumption DEF IInv, TypeOK, Goto, ExecPcs, Switching, PcVals, Task
<1>x. PICK x \in Proc : x = hand[c]
  BY DEF ReadyHand, CoreShape
<1>1. /\ x \notin Ready /\ x \notin finished /\ x \in alloc
      /\ pc[c] = "ready" /\ pc' = [pc EXCEPT ![c] = IF waitLock = c THEN "wake" ELSE "run"]
      /\ hand' = [hand EXCEPT ![c] = None]
      /\ UNCHANGED <<cur, prev, waitLock, alloc, finished>>
  BY <1>x DEF ReadyHand, CoreShape, TokenUnique, FinishedShape, Allocated
<1>2. Ready' = Ready \cup {x}
  BY <1>x, <1>1, MakeReadyElems DEF ReadyHand
<1>3. \A p \in Proc : Executing(p)' <=> Executing(p)
  BY <1>x, <1>1 DEF Executing
<1>4. \A p \in Proc \ {x} : Readied(p)' <=> Readied(p)
  BY <1>x, <1>1, <1>2 DEF Readied, Picked, Ready
<1>5. ~Executing(x) /\ Readied(x)'
  BY <1>x, <1>1, <1>2 DEF Executing, Readied, Ready, TokenUnique, Token
<1>6. \A d \in Core : Stack(d)' = Stack(d)
  BY <1>x, <1>1 DEF Stack
<1>7. CASE waitLock # c
  <2>1. Readied(x)
    BY <1>x, <1>1, <1>7 DEF Readied
  <2> QED BY <1>x, <1>1, <1>3, <1>4, <1>5, <1>6, <2>1, StutterSeen DEF Seen
<1>8. CASE waitLock = c
  <2>1. ~Readied(x)
    <3>1. \A d \in Core : hand[d] = x => d = c
      BY <1>x, <1>1 DEF TokenUnique
    <3>2. \A d \in Core : pc[d] = "restore" => cur[d] # x
      BY <1>x, <1>1 DEF TokenUnique, Token
    <3> QED BY <1>x, <1>1, <1>8, <3>1, <3>2 DEF Readied, Picked, Ready
  <2>2. Seen(x) = "asleep" /\ \A p \in Proc : Seen(p)' = IF p = x THEN "ready" ELSE Seen(p)
    BY <1>x, <1>1, <1>3, <1>4, <1>5, <2>1 DEF Seen
  <2>3. \A p \in Proc : ProcState(p) = Seen(p) /\ ProcState(p)' = Seen(p)'
    BY StateSeen, SeenAfter
  <2>4. [p \in Proc |-> ProcState(p)]' = [[p \in Proc |-> ProcState(p)] EXCEPT ![x] = "ready"]
    <3> HIDE DEF IInv, TypeOK
    <3>1. \A p \in Proc : ProcState(p)' = IF p = x THEN "ready" ELSE ProcState(p)
      BY <2>2, <2>3
    <3> QED BY <3>1
  <2>5. [d \in Core |-> Stack(d)]' = [d \in Core |-> Stack(d)]
    BY <1>6
  <2>6. M!Wake(x)
    BY <1>x, <1>1, <2>2, <2>3, <2>4, <2>5 DEF M!Wake
  <2> QED BY <1>x, <1>1, <2>6
<1> QED BY <1>7, <1>8

\* fork: a process that runs makes a new one.
LEMMA ForkSeen ==
    ASSUME IInv, IInv', NEW c \in Core, NEW x \in Proc, Fork(c, x)
    PROVE  M!Spawn(x)
<1> USE ConstAssumption DEF IInv, TypeOK, Goto, ExecPcs, Switching, PcVals, Task
<1>1. /\ x \notin alloc /\ alloc' = alloc \cup {x} /\ waitLock # c
      /\ pc[c] = "run" /\ pc' = [pc EXCEPT ![c] = "ready"] /\ hand' = [hand EXCEPT ![c] = x]
      /\ cur[c] \in alloc \ finished /\ x \notin finished
      /\ UNCHANGED <<readyQ, cur, prev, waitLock, finished>>
  BY DEF Fork, LockShape, FinishedShape, Allocated
<1>2. \A p \in Proc : Executing(p)' <=> Executing(p)
  BY <1>1 DEF Executing
<1>3. \A p \in Proc \ {x} : Readied(p)' <=> Readied(p)
  BY <1>1 DEF Readied, Picked
<1>4. ~Executing(x) /\ Readied(x)'
  BY <1>1 DEF Executing, Readied, Allocated
<1>5. Executing(cur[c]) /\ Stack(c) = cur[c] /\ \A d \in Core : Stack(d)' = Stack(d)
  BY <1>1 DEF Executing, Stack
<1>6. /\ Seen(x) = "free" /\ Seen(cur[c]) = "exec"
      /\ \A p \in Proc : Seen(p)' = IF p = x THEN "ready" ELSE Seen(p)
  BY <1>1, <1>2, <1>3, <1>4, <1>5 DEF Seen
<1>7. \A p \in Proc : ProcState(p) = Seen(p) /\ ProcState(p)' = Seen(p)'
  BY StateSeen, SeenAfter
<1>8. [p \in Proc |-> ProcState(p)]' = [[p \in Proc |-> ProcState(p)] EXCEPT ![x] = "ready"]
  BY <1>6, <1>7
<1>9. [d \in Core |-> Stack(d)]' = [d \in Core |-> Stack(d)]
  BY <1>5
<1>10. /\ [d \in Core |-> Stack(d)][c] \in Proc
       /\ [p \in Proc |-> ProcState(p)][[d \in Core |-> Stack(d)][c]] = "exec"
       /\ [p \in Proc |-> ProcState(p)][x] = "free"
  BY <1>1, <1>5, <1>6, <1>7
<1> QED BY <1>8, <1>9, <1>10 DEF M!Spawn

\* Processes are freed that are dead and that no core is on.
LEMMA FreeSeen ==
    ASSUME IInv, IInv', NEW ps, ps \subseteq finished \ running,
           alloc' = alloc \ ps, finished' = finished \ ps,
           \A p \in Proc : (Executing(p)' <=> Executing(p)) /\ (Readied(p)' <=> Readied(p)),
           \A d \in Core : Stack(d)' = Stack(d)
    PROVE  UNCHANGED M!mvars \/ \E qs \in SUBSET Proc : M!Free(qs)
<1>1. ps \subseteq Proc /\ ps \subseteq alloc
  BY DEF IInv, TypeOK, Allocated
<1>2. \A p \in Proc : Seen(p)' = IF p \in ps THEN "free" ELSE Seen(p)
  BY <1>1 DEF Seen
<1>3. CASE ps = {}
  BY <1>2, <1>3, StutterSeen
<1>4. CASE ps # {}
  <2>1. \A p \in Proc : ProcState(p) = Seen(p) /\ ProcState(p)' = Seen(p)'
    BY StateSeen, SeenAfter
  <2>2. \A p \in ps : Seen(p) = "dead" /\ \A d \in Core : Stack(d) # p
    BY <1>1 DEF Seen, IInv, StackOwned
  <2>3. [p \in Proc |-> ProcState(p)]'
          = [p \in Proc |-> IF p \in ps THEN "free" ELSE [q \in Proc |-> ProcState(q)][p]]
    BY <1>2, <2>1
  <2>4. [d \in Core |-> Stack(d)]' = [d \in Core |-> Stack(d)]
    OBVIOUS
  <2>5. \A p \in ps : /\ [q \in Proc |-> ProcState(q)][p] = "dead"
                      /\ \A d \in Core : [e \in Core |-> Stack(e)][d] # p
    BY <1>1, <2>1, <2>2
  <2>6. M!Free(ps)
    BY <1>4, <2>3, <2>4, <2>5 DEF M!Free
  <2> QED BY <1>1, <2>6
<1> QED BY <1>3, <1>4

\* process_delete and process_reap_later.
LEMMA ReapSeen ==
    ASSUME IInv, IInv', NEW c \in Core, Reap(c) \/ ReapLater(c)
    PROVE  UNCHANGED M!mvars \/ \E qs \in SUBSET Proc : M!Free(qs)
<1> USE ConstAssumption DEF IInv, TypeOK, Goto, ExecPcs, Switching, PcVals, Task
<1>1. /\ pc[c] = "delete" /\ pc' = [pc EXCEPT ![c] = "run"]
      /\ UNCHANGED <<readyQ, cur, prev, hand, waitLock>>
  BY DEF Reap, ReapLater, EndDelete
<1>2. \A p \in Proc : (Executing(p)' <=> Executing(p)) /\ (Readied(p)' <=> Readied(p))
  BY <1>1 DEF Executing, Readied, Picked
<1>3. \A d \in Core : Stack(d)' = Stack(d)
  BY <1>1 DEF Stack
<1>4. \E ps : ps \subseteq finished \ running /\ alloc' = alloc \ ps /\ finished' = finished \ ps
  <2>1. CASE Reap(c)
    <3>1. victim[c] \in finished \ running
      BY <1>1 DEF VictimShape
    <3> QED BY <2>1, <3>1 DEF Reap, FreeProcs
  <2>2. CASE ReapLater(c)
    <3>1. PICK n \in 0..Len(reapQ) : FreeProcs({reapQ[i] : i \in 1..n})
      BY <2>2 DEF ReapLater
    <3>2. {reapQ[i] : i \in 1..n} \subseteq Range(reapQ)
      BY DEF Range
    <3> QED BY <3>1, <3>2 DEF FreeProcs, FinishedShape
  <2> QED BY <2>1, <2>2
<1> QED BY <1>2, <1>3, <1>4, FreeSeen

\* Init runs on the boot core, the other cores are idle.
LEMMA InitSeen == Init => M!Init
<1> SUFFICES ASSUME Init PROVE M!Init
  OBVIOUS
<1>1. \A p \in Proc : Executing(p) <=> p = InitProc
  BY ConstAssumption DEF Init, Executing, ExecPcs
<1>2. \A p \in Proc : Seen(p) = IF p = InitProc THEN "exec" ELSE "free"
  BY <1>1, ConstAssumption DEF Init, Seen
<1>3. [p \in Proc |-> ProcState(p)] = [p \in Proc |-> IF p = InitProc THEN "exec" ELSE "free"]
  BY <1>2, InitIInv, StateSeen
<1>4. [c \in Core |-> Stack(c)] = [c \in Core |-> IF c = Boot THEN InitProc ELSE Idle]
  BY DEF Init, Stack, Switching
<1> QED BY <1>3, <1>4 DEF M!Init

\* Every step of a core is a step of the abstract machine, or none.
LEMMA NextSeen == IInv /\ IInv' /\ [Next]_vars => [M!Next]_(M!mvars)
<1> SUFFICES ASSUME IInv, IInv', [Next]_vars PROVE M!Next \/ UNCHANGED M!mvars
  OBVIOUS
<1>1. CASE UNCHANGED vars
  <2>1. \A p \in Proc : Seen(p)' = Seen(p)
    BY <1>1 DEF vars, Seen, Executing, Readied, Picked
  <2>2. \A c \in Core : Stack(c)' = Stack(c)
    BY <1>1 DEF vars, Stack
  <2> QED BY <2>1, <2>2, StutterSeen
<1>2. ASSUME NEW c \in Core, Kernel(c) PROVE M!Next \/ UNCHANGED M!mvars
  BY <1>2, SaveYieldSeen, RescheduleSeen, JoinQueueSeen, SaveBlockSeen, NextReadySeen,
     MarkRunningSeen, TakeOwnershipSeen, RestoreSeen, PopSleeperSeen, ReadyHandSeen,
     EndWakeupSeen, ExitOrphanSeen, ExitWakeSeen, ReapSeen DEF Kernel, M!Next
<1>3. ASSUME NEW c \in Core, Request(c) PROVE M!Next \/ UNCHANGED M!mvars
  BY <1>3, SleepOnSeen, StartWakeupSeen, ForkSeen, DeleteSeen, DeleteParentSeen, ExitDies
     DEF Request, M!Next
<1> QED BY <1>1, <1>2, <1>3, PreemptSeen DEF Next

\* The scheduler implements the abstract multiprocessor: at every moment a process is in
\* one state, and a core goes to a process only when it is ready and no other core is
\* on its stack.
THEOREM SchedulerIsMachine == Spec => Refines
<1>1. Spec => M!Init /\ [][M!Next]_(M!mvars)
  BY InitSeen, NextSeen, Invariance, PTL DEF Spec
<1> QED BY <1>1 DEF Refines, M!Spec
=============================================================================
