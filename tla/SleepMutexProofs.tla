--------------------------- MODULE SleepMutexProofs ---------------------------
(***************************************************************************)
(* Proofs about SleepMutex, for any number of processes and whichever of    *)
(* them receive signals.                                                    *)
(***************************************************************************)
EXTENDS SleepMutex, ListLemmas

\* inner_lock has one holder, between the lock and the unlock of the code.
InnerHeld == \A p \in Proc : inner = p <=> pc[p] \in {"test", "joined", "wake"}

\* owner is set exactly while status is, and to the process inside (or to one
\* that died there).
OwnerSet ==
    /\ status = 1 <=> owner # None
    /\ \A p \in Proc : Inside(p) => owner = p
    /\ \A p \in Proc : owner = p => Inside(p) \/ pc[p] = "dead"

\* The queue has no repetition and links only processes that joined it; one
\* that has not yet unlocked inner_lock saw status = 1.
WaitersShape ==
    /\ IsInjective(waiters)
    /\ \A p \in Range(waiters) : pc[p] \in {"joined", "sleep"}
    /\ \A p \in Proc : pc[p] = "joined" => status = 1

MInv == TypeOK /\ InnerHeld /\ OwnerSet /\ WaitersShape /\ NoLostWakeup

\* Taking a process off the queue, whether it is in it or not.
LEMMA UnlinkElems ==
    ASSUME TypeOK, WaitersShape, NEW p \in Proc, Unlink(p)
    PROVE  /\ waiters' \in Seq(Proc) /\ IsInjective(waiters')
           /\ Range(waiters') = Range(waiters) \ {p}
<1>1. CASE p \notin Range(waiters) /\ UNCHANGED waiters
  BY <1>1 DEF TypeOK, WaitersShape
<1>2. ASSUME NEW i \in DOMAIN waiters, waiters[i] = p, waiters' = RemoveAt(waiters, i)
      PROVE  /\ waiters' \in Seq(Proc) /\ IsInjective(waiters')
             /\ Range(waiters') = Range(waiters) \ {p}
  BY <1>2, RemoveAtElems DEF TypeOK, WaitersShape
<1> QED BY <1>1, <1>2 DEF Unlink

\* Nobody has called the mutex yet.
LEMMA InitMInv == Init => MInv
BY MutexAssumption DEF Init, MInv, TypeOK, InnerHeld, OwnerSet, WaitersShape, NoLostWakeup,
   Inside, PcVals, IsInjective, Range

\* A caller is on its way to take the mutex.
LEMMA AcquireStep ==
    ASSUME MInv, NEW p \in Proc, Acquire(p)
    PROVE  MInv'
<1> USE MutexAssumption DEF MInv, TypeOK, Goto, PcVals
<1>type. TypeOK'
  BY DEF Acquire
<1>inner. InnerHeld'
  BY <1>type DEF Acquire, InnerHeld
<1>owner. OwnerSet'
  BY <1>type DEF Acquire, OwnerSet, Inside
<1>queue. WaitersShape'
  BY <1>type DEF Acquire, WaitersShape, InnerHeld
<1>wake. NoLostWakeup'
  BY <1>type DEF Acquire, NoLostWakeup, OnTheWay, WaitersShape, InnerHeld
<1> QED BY <1>type, <1>inner, <1>owner, <1>queue, <1>wake

\* inner_lock goes to one caller.
LEMMA LockInnerStep ==
    ASSUME MInv, NEW p \in Proc, LockInner(p)
    PROVE  MInv'
<1> USE MutexAssumption DEF MInv, TypeOK, Goto, PcVals
<1>type. TypeOK'
  BY DEF LockInner
<1>inner. InnerHeld'
  BY <1>type DEF LockInner, InnerHeld
<1>owner. OwnerSet'
  BY <1>type DEF LockInner, OwnerSet, Inside
<1>queue. WaitersShape'
  BY <1>type DEF LockInner, WaitersShape, InnerHeld
<1>wake. NoLostWakeup'
  BY <1>type DEF LockInner, NoLostWakeup, OnTheWay, WaitersShape, InnerHeld
<1> QED BY <1>type, <1>inner, <1>owner, <1>queue, <1>wake

\* The mutex is taken by the holder of inner_lock, when status is 0.
LEMMA TakeStep ==
    ASSUME MInv, NEW p \in Proc, Take(p)
    PROVE  MInv'
<1> USE MutexAssumption DEF MInv, TypeOK, Goto, PcVals
<1>type. TypeOK'
  BY DEF Take
<1>inner. InnerHeld'
  BY <1>type DEF Take, InnerHeld
<1>owner. OwnerSet'
  BY <1>type DEF Take, OwnerSet, Inside, InnerHeld
<1>queue. WaitersShape'
  BY <1>type DEF Take, WaitersShape, InnerHeld
<1>wake. NoLostWakeup'
  BY <1>type DEF Take, NoLostWakeup, OnTheWay, WaitersShape, InnerHeld
<1> QED BY <1>type, <1>inner, <1>owner, <1>queue, <1>wake

\* A process joins the queue while it holds inner_lock and status is 1.
LEMMA JoinWaitersStep ==
    ASSUME MInv, NEW p \in Proc, JoinWaiters(p)
    PROVE  MInv'
<1> USE MutexAssumption DEF MInv, TypeOK, Goto, PcVals
<1>list. /\ waiters' \in Seq(Proc) /\ IsInjective(waiters')
         /\ Range(waiters') = Range(waiters) \cup {p}
  <2>1. p \notin Range(waiters) /\ waiters \in Seq(Proc) /\ waiters' = Append(waiters, p)
    BY DEF JoinWaiters, WaitersShape
  <2> QED BY <2>1, AppendElems DEF WaitersShape
<1>type. TypeOK'
  BY <1>list DEF JoinWaiters
<1>inner. InnerHeld'
  BY <1>type DEF JoinWaiters, InnerHeld
<1>owner. OwnerSet'
  BY <1>type DEF JoinWaiters, OwnerSet, Inside
<1>queue. WaitersShape'
  BY <1>list, <1>type DEF JoinWaiters, WaitersShape, InnerHeld
<1>wake. NoLostWakeup'
  BY <1>list, <1>type DEF JoinWaiters, NoLostWakeup, OnTheWay, WaitersShape, InnerHeld
<1> QED BY <1>type, <1>inner, <1>owner, <1>queue, <1>wake

\* When a sleeper unlocks inner_lock status is still 1: whoever clears it will
\* find the sleeper.
LEMMA UnlockAndSleepStep ==
    ASSUME MInv, NEW p \in Proc, UnlockAndSleep(p)
    PROVE  MInv'
<1> USE MutexAssumption DEF MInv, TypeOK, Goto, PcVals
<1>type. TypeOK'
  BY DEF UnlockAndSleep
<1>inner. InnerHeld'
  BY <1>type DEF UnlockAndSleep, InnerHeld
<1>owner. OwnerSet'
  BY <1>type DEF UnlockAndSleep, OwnerSet, Inside
<1>queue. WaitersShape'
  BY <1>type DEF UnlockAndSleep, WaitersShape, InnerHeld
<1>wake. NoLostWakeup'
  BY <1>type DEF UnlockAndSleep, NoLostWakeup, OnTheWay, WaitersShape, InnerHeld
<1> QED BY <1>type, <1>inner, <1>owner, <1>queue, <1>wake

\* A process off the queue locks again, or dies of a fatal signal.
LEMMA ResumeStep ==
    ASSUME MInv, NEW p \in Proc, Resume(p)
    PROVE  MInv'
<1> USE MutexAssumption DEF MInv, TypeOK, Goto, PcVals
<1>type. TypeOK'
  BY DEF Resume
<1>inner. InnerHeld'
  BY <1>type DEF Resume, InnerHeld
<1>owner. OwnerSet'
  BY <1>type DEF Resume, OwnerSet, Inside
<1>queue. WaitersShape'
  BY <1>type DEF Resume, WaitersShape, InnerHeld
<1>wake. NoLostWakeup'
  BY <1>type DEF Resume, NoLostWakeup, OnTheWay, WaitersShape, InnerHeld
<1> QED BY <1>type, <1>inner, <1>owner, <1>queue, <1>wake

\* The caller of mutex_release is the owner.
LEMMA ReleaseStep ==
    ASSUME MInv, NEW p \in Proc, Release(p)
    PROVE  MInv'
<1> USE MutexAssumption DEF MInv, TypeOK, Goto, PcVals
<1>type. TypeOK'
  BY DEF Release
<1>inner. InnerHeld'
  BY <1>type DEF Release, InnerHeld
<1>owner. OwnerSet'
  BY <1>type DEF Release, OwnerSet, Inside
<1>queue. WaitersShape'
  BY <1>type DEF Release, WaitersShape, InnerHeld
<1>wake. NoLostWakeup'
  BY <1>type DEF Release, NoLostWakeup, OnTheWay, WaitersShape, InnerHeld
<1> QED BY <1>type, <1>inner, <1>owner, <1>queue, <1>wake

\* The owner clears status and still has to wake a sleeper.
LEMMA ClearStep ==
    ASSUME MInv, NEW p \in Proc, Clear(p)
    PROVE  MInv'
<1> USE MutexAssumption DEF MInv, TypeOK, Goto, PcVals
<1>type. TypeOK'
  BY DEF Clear
<1>inner. InnerHeld'
  BY <1>type DEF Clear, InnerHeld
<1>owner. OwnerSet'
  BY <1>type DEF Clear, OwnerSet, Inside
<1>queue. WaitersShape'
  BY <1>type DEF Clear, WaitersShape, InnerHeld
<1>wake. NoLostWakeup'
  BY <1>type DEF Clear, NoLostWakeup, OnTheWay, WaitersShape, InnerHeld
<1> QED BY <1>type, <1>inner, <1>owner, <1>queue, <1>wake

\* The newest sleeper is off the queue and on its way.
LEMMA WakeOneStep ==
    ASSUME MInv, NEW p \in Proc, WakeOne(p)
    PROVE  MInv'
<1> USE MutexAssumption DEF MInv, TypeOK, Goto, PcVals
<1>list. /\ waiters' \in Seq(Proc) /\ IsInjective(waiters')
         /\ \/ waiters' = <<>> /\ Range(waiters') = {}
            \/ \E w \in Range(waiters) : w \in Proc /\ Range(waiters') = Range(waiters) \ {w}
  <2>1. CASE waiters = <<>>
    BY <2>1 DEF WakeOne, IsInjective, Range
  <2>2. CASE waiters # <<>>
    BY <2>2, FrontElems DEF WakeOne, WaitersShape
  <2> QED BY <2>1, <2>2
<1>type. TypeOK'
  BY <1>list DEF WakeOne
<1>inner. InnerHeld'
  BY <1>type DEF WakeOne, InnerHeld
<1>owner. OwnerSet'
  BY <1>type DEF WakeOne, OwnerSet, Inside
<1>queue. WaitersShape'
  BY <1>list, <1>type DEF WakeOne, WaitersShape, InnerHeld
<1>wake. NoLostWakeup'
  BY <1>list, <1>type DEF WakeOne, NoLostWakeup, OnTheWay, WaitersShape, InnerHeld
<1> QED BY <1>type, <1>inner, <1>owner, <1>queue, <1>wake

\* A sleeper that a signal takes off the queue is on its way.
LEMMA InterruptStep ==
    ASSUME MInv, NEW p \in Proc, Interrupt(p)
    PROVE  MInv'
<1> USE MutexAssumption DEF MInv, TypeOK, Goto, PcVals
<1>list. /\ waiters' \in Seq(Proc) /\ IsInjective(waiters')
         /\ Range(waiters') = Range(waiters) \ {p}
  BY UnlinkElems DEF Interrupt, TypeOK
<1>type. TypeOK'
  BY <1>list DEF Interrupt
<1>inner. InnerHeld'
  BY <1>type DEF Interrupt, InnerHeld
<1>owner. OwnerSet'
  BY <1>type DEF Interrupt, OwnerSet, Inside
<1>queue. WaitersShape'
  BY <1>list, <1>type DEF Interrupt, WaitersShape, InnerHeld
<1>wake. NoLostWakeup'
  BY <1>list, <1>type DEF Interrupt, NoLostWakeup, OnTheWay, WaitersShape, InnerHeld
<1> QED BY <1>type, <1>inner, <1>owner, <1>queue, <1>wake

\* A fatal signal takes the process off the queue.
LEMMA KillStep ==
    ASSUME MInv, NEW p \in Proc, Kill(p)
    PROVE  MInv'
<1> USE MutexAssumption DEF MInv, TypeOK, Goto, PcVals
<1>list. /\ waiters' \in Seq(Proc) /\ IsInjective(waiters')
         /\ Range(waiters') = Range(waiters) \ {p}
  BY UnlinkElems DEF Kill, TypeOK
<1>type. TypeOK'
  BY <1>list DEF Kill
<1>inner. InnerHeld'
  BY <1>type DEF Kill, InnerHeld
<1>owner. OwnerSet'
  BY <1>type DEF Kill, OwnerSet, Inside
<1>queue. WaitersShape'
  BY <1>list, <1>type DEF Kill, WaitersShape, InnerHeld
<1>wake. NoLostWakeup'
  BY <1>list, <1>type DEF Kill, NoLostWakeup, OnTheWay, WaitersShape, InnerHeld
<1> QED BY <1>type, <1>inner, <1>owner, <1>queue, <1>wake

\* Nothing changes but that the process is gone.
LEMMA DieStep ==
    ASSUME MInv, NEW p \in Proc, Die(p)
    PROVE  MInv'
<1> USE MutexAssumption DEF MInv, TypeOK, Goto, PcVals
<1>type. TypeOK'
  BY DEF Die
<1>inner. InnerHeld'
  BY <1>type DEF Die, InnerHeld
<1>owner. OwnerSet'
  BY <1>type DEF Die, OwnerSet, Inside
<1>queue. WaitersShape'
  BY <1>type DEF Die, WaitersShape, InnerHeld
<1>wake. NoLostWakeup'
  BY <1>type DEF Die, NoLostWakeup, OnTheWay, WaitersShape, InnerHeld
<1> QED BY <1>type, <1>inner, <1>owner, <1>queue, <1>wake

\* Every step preserves the invariant.
LEMMA NextMInv == MInv /\ [Next]_mvars => MInv'
<1> SUFFICES ASSUME MInv, [Next]_mvars PROVE MInv'
  OBVIOUS
<1>1. CASE UNCHANGED mvars
  BY <1>1 DEF mvars, MInv, TypeOK, InnerHeld, OwnerSet, WaitersShape, NoLostWakeup,
     Inside, OnTheWay
<1>2. ASSUME NEW p \in Proc, Step(p) PROVE MInv'
  BY <1>2, LockInnerStep, TakeStep, JoinWaitersStep, UnlockAndSleepStep, ResumeStep,
     ReleaseStep, ClearStep, WakeOneStep DEF Step
<1> QED BY <1>1, <1>2, AcquireStep, InterruptStep, KillStep, DieStep DEF Next

\* The inductive invariant holds throughout.
THEOREM MutexInvariance == Spec => []MInv
BY InitMInv, NextMInv, PTL DEF Spec

\* mutex_acquire, mutex_release and a kill keep every field of the mutex and every
\* program counter in its range, the wait queue a queue of processes included.
THEOREM MutexTyped == Spec => []TypeOK
<1>1. MInv => TypeOK BY DEF MInv
<1> QED BY <1>1, MutexInvariance, PTL

\* mutex_acquire lets one process in at a time and mutex_release's assertion on
\* the owner never fails, whatever signals arrive.
THEOREM MutexExcludes == Spec => []MutualExclusion
<1>1. MInv => MutualExclusion
  BY MutexAssumption DEF MInv, OwnerSet, MutualExclusion, TypeOK
<1> QED BY <1>1, MutexInvariance, PTL

\* mutex_release never leaves a sleeper behind: sleep_on_unlocking links the
\* process before it gives up inner_lock.
THEOREM MutexWakes == Spec => []NoLostWakeup
<1>1. MInv => NoLostWakeup
  BY DEF MInv
<1> QED BY <1>1, MutexInvariance, PTL

\* The mutex starts free and unwanted.
LEMMA InitRefines == Init => L!Init
BY MutexAssumption DEF Init, L!Init

\* Every step of the mutex is a step of the abstract lock, or changes nothing of
\* it: Acquire asks, Take grants, Clear releases, and a process that a fatal
\* signal ends while it waits gives up.
LEMMA NextRefines == MInv /\ [Next]_mvars => [L!Next]_(L!lvars)
<1> SUFFICES ASSUME MInv, [Next]_mvars PROVE [L!Next]_(L!lvars)
  OBVIOUS
<1> DEFINE Wanting == {"lock", "test", "joined", "sleep"}
           holder == IF status = 1 THEN owner ELSE None
           wants == {r \in Proc : pc[r] \in Wanting}
<1> USE MutexAssumption DEF MInv, TypeOK, Goto, PcVals
<1>1. CASE UNCHANGED mvars
  BY <1>1 DEF mvars, L!lvars
<1>2. ASSUME NEW p \in Proc, Acquire(p) PROVE [L!Next]_(L!lvars)
  <2>1. p \notin wants /\ holder # p
    BY <1>2 DEF Acquire, OwnerSet, Inside
  <2>2. wants' = wants \cup {p} /\ UNCHANGED holder
    BY <1>2 DEF Acquire
  <2>3. L!Ask(p)
    BY <2>1, <2>2 DEF L!Ask
  <2> QED BY <2>3 DEF L!Next
<1>3. ASSUME NEW p \in Proc, Take(p) PROVE [L!Next]_(L!lvars)
  <2>1. holder = None /\ p \in wants /\ holder' = p /\ wants' = wants \ {p}
    BY <1>3 DEF Take
  <2>2. L!Grant(p)
    BY <2>1 DEF L!Grant
  <2> QED BY <2>2 DEF L!Next
<1>4. ASSUME NEW p \in Proc, Clear(p) PROVE [L!Next]_(L!lvars)
  <2>1. holder # None /\ holder' = None /\ UNCHANGED wants
    BY <1>4 DEF Clear, OwnerSet, Inside
  <2>2. L!Release
    BY <2>1 DEF L!Release
  <2> QED BY <2>2 DEF L!Next
<1>5. ASSUME NEW p \in Proc, Resume(p) PROVE [L!Next]_(L!lvars)
  <2>1. CASE p \in doomed
    <3>1. p \in wants /\ wants' = wants \ {p} /\ UNCHANGED holder
      BY <1>5, <2>1 DEF Resume
    <3>2. L!GiveUp(p)
      BY <3>1 DEF L!GiveUp
    <3> QED BY <3>2 DEF L!Next
  <2>2. CASE p \notin doomed
    <3>1. UNCHANGED wants /\ UNCHANGED holder
      BY <1>5, <2>2 DEF Resume
    <3> QED BY <3>1 DEF L!lvars
  <2> QED BY <2>1, <2>2
<1>6. ASSUME NEW p \in Proc,
             \/ LockInner(p) \/ JoinWaiters(p) \/ UnlockAndSleep(p) \/ Release(p)
             \/ WakeOne(p) \/ Interrupt(p) \/ Kill(p) \/ Die(p)
      PROVE  [L!Next]_(L!lvars)
  <2>1. status' = status /\ owner' = owner
    BY <1>6 DEF LockInner, JoinWaiters, UnlockAndSleep, Release, WakeOne, Interrupt,
       Kill, Die
  <2>2. \A r \in Proc : pc'[r] \in Wanting <=> pc[r] \in Wanting
    BY <1>6 DEF LockInner, JoinWaiters, UnlockAndSleep, Release, WakeOne, Interrupt,
       Kill, Die
  <2>3. UNCHANGED wants /\ UNCHANGED holder
    BY <2>1, <2>2
  <2> QED BY <2>3 DEF L!lvars
<1> QED BY <1>1, <1>2, <1>3, <1>4, <1>5, <1>6 DEF Next, Step

\* kernel/sys/mutex.c implements the abstract lock.
THEOREM MutexIsLock == Spec => ImplementsLock
<1>1. Spec => L!Init /\ [][L!Next]_(L!lvars)
  BY InitRefines, NextRefines, MutexInvariance, PTL DEF Spec
<1> QED BY <1>1 DEF ImplementsLock, L!Spec
=============================================================================
