---------------------------- MODULE KernelProofs ----------------------------
(***************************************************************************)
(* The threads kernel, for any number of threads, locks, semaphores and    *)
(* conditions and any priorities.  By the inductive invariant KernelInv it *)
(* keeps its types and its locks, which implement Mutex.  By LinksInv      *)
(* every thread is linked in the one list it should be in, from which      *)
(* follow what wake-ups, sleepers and signals promise.  By the order of    *)
(* its lists the CPU, and whoever waits for a lock, goes by priority.      *)
(***************************************************************************)
EXTENDS KernelInvariant, PriorityListProofs, LockRefinement

USE DEF Tasks, PRI_MIN, Priorities

-----------------------------------------------------------------------------
(* The scheduler's functions.                                              *)

LEMMA ScheduleType ==
    ASSUME NEW list \in Seq(Threads), NEW st \in [Tasks -> Statuses],
           schedule(list, st)
    PROVE  CPUType'
<1>1. next_thread_to_run(list) \in Tasks
  BY HeadTailProperties DEF next_thread_to_run
<1>2. ready_list' \in Seq(Threads)
  BY HeadTailProperties, EmptySeq DEF schedule
<1>3. status' \in [Tasks -> Statuses]
  BY <1>1 DEF schedule, Statuses
<1>4. cur' \in Tasks /\ thread_ticks' \in 0 .. TIME_SLICE - 1
  BY <1>1, NumbersAssumption DEF schedule
<1> QED
  BY <1>2, <1>3, <1>4 DEF CPUType

LEMMA YieldType ==
    ASSUME CPUType, NEW list \in Seq(Threads), NEW st \in [Tasks -> Statuses],
           NEW pri \in [Tasks -> Priorities], thread_yield(list, st, pri)
    PROVE  CPUType'
<1>1. \A t \in Threads : pri[t] \in Int
  BY NumbersAssumption
<1> DEFINE newlist == IF cur = Idle THEN list ELSE list_insert_ordered(list, cur, pri)
           newst == [st EXCEPT ![cur] = "ready"]
<1>2. newlist \in Seq(Threads)
  BY <1>1, InsertOrderedType DEF CPUType
<1>3. newst \in [Tasks -> Statuses]
  BY DEF CPUType, Statuses
<1>4. schedule(newlist, newst)
  BY DEF thread_yield
<1> QED
  BY <1>2, <1>3, <1>4, ScheduleType

LEMMA KeepType ==
    ASSUME CPUType, NEW list \in Seq(Threads), NEW st \in [Tasks -> Statuses],
           KeepCPU(list, st)
    PROVE  CPUType'
BY DEF KeepCPU, CPUType

LEMMA CheckType ==
    ASSUME CPUType, NEW list \in Seq(Threads), NEW st \in [Tasks -> Statuses],
           NEW pri \in [Tasks -> Priorities], thread_check_priority(list, st, pri)
    PROVE  CPUType'
BY YieldType, KeepType DEF thread_check_priority

LEMMA UnblockedType ==
    ASSUME CPUType, PriorityType, NEW t \in Threads
    PROVE  /\ UnblockedList(t) \in Seq(Threads)
           /\ UnblockedStatus(t) \in [Tasks -> Statuses]
<1>1. \A u \in Threads : priority[u] \in Int
  BY NumbersAssumption DEF PriorityType
<1>2. UnblockedList(t) \in Seq(Threads)
  BY <1>1, InsertOrderedType DEF UnblockedList, CPUType
<1>3. UnblockedStatus(t) \in [Tasks -> Statuses]
  BY DEF UnblockedStatus, CPUType, Statuses
<1> QED
  BY <1>2, <1>3

LEMMA BlockType ==
    ASSUME CPUType, thread_block
    PROVE  CPUType'
<1>1. [status EXCEPT ![cur] = "blocked"] \in [Tasks -> Statuses]
  BY DEF CPUType, Statuses
<1> QED
  BY <1>1, ScheduleType DEF thread_block, CPUType

-----------------------------------------------------------------------------
(* Every step keeps the types: thread.c.                                   *)

LEMMA AtType ==
    ASSUME TypeOK, NEW t \in Tasks, NEW pc, At(t, pc)
    PROVE  cur = t /\ frame[t] \in FrameType /\ frame[t].pc = pc
BY DEF At, TypeOK, ControlType

LEMMA GotoType ==
    ASSUME ControlType, NEW t \in Tasks, NEW pc \in PCs, Goto(t, pc),
           UNCHANGED <<in_external_intr, fault>>
    PROVE  ControlType'
BY DEF Goto, ControlType, FrameType

LEMMA FrameAtType ==
    \A pc \in PCs : FrameAt(pc) \in FrameType
BY NumbersAssumption DEF FrameAt, FrameType, Ops

LEMMA UserFrameType == UserFrame \in FrameType
BY FrameAtType DEF UserFrame, PCs

LEMMA ReturnType ==
    ASSUME ControlType, NEW t \in Tasks, ReturnToUser(t),
           UNCHANGED <<in_external_intr, fault>>
    PROVE  ControlType'
BY UserFrameType DEF ReturnToUser, ControlType

LEMMA ClientTypeStep ==
    ASSUME ClientType, NEW t \in Threads, NEW call, MayCall(t, call)
    PROVE  ClientType'
BY ClientAssumption DEF MayCall, ClientType

LEMMA YieldTypeOK ==
    ASSUME TypeOK, NEW t \in Threads, CallYield(t)
    PROVE  TypeOK'
<1>1. CPUType'
  BY YieldType DEF CallYield, ThreadYield, TypeOK, CPUType, PriorityType
<1>2. ClientType'
  BY ClientTypeStep DEF CallYield, TypeOK
<1> QED
  BY <1>1, <1>2 DEF CallYield, ThreadYield, TypeOK, PriorityType, ControlType,
     AlarmType, SemaType, LockType, CondType,
     priorityVars, alarmVars, synchVars, semaVars, lockVars

LEMMA ExitTypeOK ==
    ASSUME TypeOK, NEW t \in Threads, CallExit(t)
    PROVE  TypeOK'
<1>1. CPUType'
  <2>1. [status EXCEPT ![t] = "dying"] \in [Tasks -> Statuses]
    BY DEF TypeOK, CPUType, Statuses
  <2> QED
    BY <2>1, ScheduleType DEF CallExit, ThreadExit, TypeOK, CPUType
<1> QED
  BY <1>1 DEF CallExit, ThreadExit, TypeOK, PriorityType, ControlType,
     AlarmType, SemaType, LockType, CondType, ClientType,
     priorityVars, alarmVars, synchVars, semaVars, lockVars

LEMMA SetPriorityTypeOK ==
    ASSUME TypeOK, NEW t \in Threads, CallSetPriority(t)
    PROVE  TypeOK'
<1>1. PICK new \in NewPriorities : ThreadSetPriority(t, new)
  BY DEF CallSetPriority
<1>2. new \in Priorities
  BY ClientAssumption
<1>3. [priority EXCEPT ![t] = new] \in [Tasks -> Priorities]
  BY <1>2 DEF TypeOK, PriorityType
<1>4. CPUType'
  <2>1. CASE SetsEffective(t, new)
    BY <1>1, <1>3, <2>1, CheckType DEF ThreadSetPriority, TypeOK, CPUType
  <2>2. CASE ~ SetsEffective(t, new)
    BY <1>1, <2>2 DEF ThreadSetPriority, TypeOK, CPUType, cpuVars
  <2> QED
    BY <2>1, <2>2
<1>5. PriorityType'
  BY <1>1, <1>2, <1>3 DEF ThreadSetPriority, TypeOK, PriorityType
<1>6. ClientType'
  BY ClientTypeStep DEF CallSetPriority, TypeOK
<1> QED
  BY <1>1, <1>4, <1>5, <1>6 DEF CallSetPriority, ThreadSetPriority, TypeOK, ControlType,
     AlarmType, SemaType, LockType, CondType,
     alarmVars, synchVars, semaVars, lockVars

LEMMA CreateTypeOK ==
    ASSUME TypeOK, NEW t \in Threads, CallCreate(t)
    PROVE  TypeOK'
<1>1. PICK child \in Threads, pri \in NewPriorities : ThreadCreate(t, child, pri)
  BY DEF CallCreate
<1>2. pri \in Priorities
  BY ClientAssumption
<1>3. CPUType'
  BY <1>1 DEF ThreadCreate, TypeOK, CPUType, Statuses
<1>4. PriorityType'
  BY <1>1, <1>2 DEF ThreadCreate, TypeOK, PriorityType
<1>5. ControlType'
  <2>1. [UserFrame EXCEPT !.pc = "check_holder", !.op = "thread_create",
                          !.lock = TidLock, !.child = child] \in FrameType
    BY UserFrameType, ObjectsAssumption DEF FrameType, PCs, Ops
  <2> QED
    BY <1>1, <2>1, UserFrameType DEF ThreadCreate, TypeOK, ControlType
<1>6. ClientType'
  BY ClientTypeStep DEF CallCreate, TypeOK
<1> QED
  BY <1>3, <1>4, <1>5, <1>6 DEF CallCreate, TypeOK, AlarmType, SemaType, LockType,
     CondType, alarmVars, synchVars, semaVars, lockVars

LEMMA SchedStepTypeOK ==
    ASSUME TypeOK, FramesOK, NEW t \in Threads, SchedStep(t), UNCHANGED left
    PROVE  TypeOK'
<1>1. CASE CreateUnblock(t)
  <2>1. frame[t].child \in Threads
    BY <1>1 DEF CreateUnblock, At, FramesOK, FrameShape
  <2>2. CPUType'
    BY <1>1, <2>1, UnblockedType, KeepType DEF CreateUnblock, TypeOK
  <2>3. ControlType'
    BY <1>1, GotoType DEF CreateUnblock, TypeOK, PCs
  <2> QED
    BY <1>1, <2>2, <2>3 DEF CreateUnblock, SchedStep, TypeOK, PriorityType,
       AlarmType, SemaType, LockType, CondType, ClientType,
       priorityVars, alarmVars, synchVars, semaVars, lockVars
<1>2. CASE CreateCheck(t)
  <2>1. CPUType'
    BY <1>2, CheckType DEF CreateCheck, TypeOK, CPUType, PriorityType
  <2>2. ControlType'
    BY <1>2, ReturnType DEF CreateCheck, TypeOK
  <2> QED
    BY <1>2, <2>1, <2>2 DEF CreateCheck, SchedStep, TypeOK, PriorityType,
       AlarmType, SemaType, LockType, CondType, ClientType,
       priorityVars, alarmVars, synchVars, semaVars, lockVars
<1> QED
  BY <1>1, <1>2 DEF SchedStep

LEMMA IdleTypeOK ==
    ASSUME TypeOK, IdleStep
    PROVE  TypeOK'
<1>1. CPUType'
  BY BlockType DEF IdleStep, IdleBlock, TypeOK
<1>2. ControlType'
  BY GotoType DEF IdleStep, IdleBlock, TypeOK, PCs
<1> QED
  BY <1>1, <1>2 DEF IdleStep, IdleBlock, TypeOK, PriorityType, AlarmType, SemaType,
     LockType, CondType, ClientType,
     priorityVars, alarmVars, synchVars, semaVars, lockVars

-----------------------------------------------------------------------------
(* timer.c.                                                                *)

LEMMA SleepTypeOK ==
    ASSUME TypeOK, NEW t \in Threads, CallSleep(t)
    PROVE  TypeOK'
<1>1. PICK n \in 1 .. MaxSleep : TimerSleep(t, n)
  BY DEF CallSleep
<1>2. AlarmType'
  BY <1>1, AlarmAssumption DEF TimerSleep, TypeOK, AlarmType
<1>3. ControlType'
  BY <1>1, GotoType DEF TimerSleep, TypeOK, PCs
<1>4. ClientType'
  BY ClientTypeStep DEF CallSleep, TypeOK
<1> QED
  BY <1>1, <1>2, <1>3, <1>4 DEF CallSleep, TimerSleep, TypeOK, CPUType, PriorityType,
     SemaType, LockType, CondType, cpuVars, priorityVars, synchVars, semaVars, lockVars

LEMMA SleepStepTypeOK ==
    ASSUME TypeOK, NEW t \in Threads, SleepStep(t), UNCHANGED left
    PROVE  TypeOK'
<1>1. CASE SleepInsert(t)
  <2>1. wait_list' \in Seq(Threads)
    <3>1. \A u \in Threads : remaining[u] \in Int
      BY AlarmAssumption DEF TypeOK, AlarmType
    <3> QED
      BY <1>1, <3>1, InsertOrderedType DEF SleepInsert, TypeOK, AlarmType
  <2>2. CPUType'
    BY <1>1, BlockType DEF SleepInsert, TypeOK
  <2>3. ControlType'
    BY <1>1, GotoType DEF SleepInsert, TypeOK, PCs
  <2> QED
    BY <1>1, <2>1, <2>2, <2>3 DEF SleepInsert, SleepStep, TypeOK, PriorityType,
       AlarmType, SemaType, LockType, CondType, ClientType,
       priorityVars, synchVars, semaVars, lockVars
<1>2. CASE SleepReturn(t)
  <2>1. AlarmType'
    BY <1>2, AlarmAssumption DEF SleepReturn, TypeOK, AlarmType
  <2>2. ControlType'
    BY <1>2, ReturnType DEF SleepReturn, TypeOK
  <2> QED
    BY <1>2, <2>1, <2>2 DEF SleepReturn, SleepStep, TypeOK, CPUType, PriorityType,
       SemaType, LockType, CondType, ClientType,
       cpuVars, priorityVars, synchVars, semaVars, lockVars
<1> QED
  BY <1>1, <1>2 DEF SleepStep

LEMMA AfterInterruptType ==
    ASSUME ControlType
    PROVE  AfterInterrupt \in [Tasks -> FrameType]
BY DEF AfterInterrupt, ControlType, FrameType, PCs

LEMMA TickTypeOK ==
    ASSUME TypeOK, Tick
    PROVE  TypeOK'
<1>1. AlarmType'
  BY AlarmAssumption DEF Tick, TimerInterrupt, TypeOK, AlarmType
<1>2. ControlType'
  BY DEF Tick, TimerInterrupt, TypeOK, ControlType
<1> QED
  BY <1>1, <1>2 DEF Tick, TimerInterrupt, TypeOK, CPUType, PriorityType,
     SemaType, LockType, CondType, ClientType,
     cpuVars, priorityVars, synchVars, semaVars, lockVars

LEMMA HandlerTypeOK ==
    ASSUME TypeOK, Handler
    PROVE  TypeOK'
<1>1. CASE TimerWakeUp
  <2>1. Last(wait_list) \in Threads /\ Front(wait_list) \in Seq(Threads)
    BY <1>1, FrontLastType DEF TimerWakeUp, Due, TypeOK, AlarmType
  <2>2. CPUType'
    BY <1>1, <2>1, UnblockedType, KeepType DEF TimerWakeUp, TypeOK
  <2>3. AlarmType'
    BY <1>1, <2>1 DEF TimerWakeUp, TypeOK, AlarmType
  <2> QED
    BY <1>1, <2>2, <2>3 DEF TimerWakeUp, Handler, TypeOK, PriorityType, ControlType,
       SemaType, LockType, CondType, ClientType,
       priorityVars, synchVars, semaVars, lockVars
<1>2. CASE TimerReturn
  <2>1. CPUType'
    <3>1. CASE SliceOver \/ Outranked(ready_list, priority)
      BY <1>2, <3>1, YieldType DEF TimerReturn, TypeOK, CPUType, PriorityType
    <3>2. CASE ~ (SliceOver \/ Outranked(ready_list, priority))
      BY <1>2, <3>2, NumbersAssumption DEF TimerReturn, SliceOver, TypeOK, CPUType
    <3> QED
      BY <3>1, <3>2
  <2>2. ControlType'
    BY <1>2, AfterInterruptType DEF TimerReturn, TypeOK, ControlType
  <2> QED
    BY <1>2, <2>1, <2>2 DEF TimerReturn, Handler, TypeOK, PriorityType, AlarmType,
       SemaType, LockType, CondType, ClientType,
       priorityVars, synchVars, semaVars, lockVars
<1> QED
  BY <1>1, <1>2 DEF Handler

-----------------------------------------------------------------------------
(* synch.c: semaphores.                                                    *)

\* The lists of waiters, sorted, and the first of them.
LEMMA WaitersType ==
    ASSUME PriorityType, SemaType, NEW s \in Semaphores
    PROVE  /\ list_sort(waiters[s], priority) \in Seq(Threads)
           /\ waiters[s] # <<>> =>
                /\ list_sort(waiters[s], priority) # <<>>
                /\ FirstWaiter(s) \in Threads
                /\ Tail(list_sort(waiters[s], priority)) \in Seq(Threads)
<1> DEFINE sorted == list_sort(waiters[s], priority)
<1>1. \A t \in Threads : priority[t] \in Int
  BY NumbersAssumption DEF PriorityType
<1>2. waiters[s] \in Seq(Threads)
  BY DEF SemaType
<1>3. sorted \in Seq(Threads) /\ Len(sorted) = Len(waiters[s])
  BY <1>1, <1>2, SortType
<1> HIDE DEF sorted
<1>4. waiters[s] # <<>> => sorted # <<>>
  BY <1>2, <1>3, EmptySeq
<1>5. sorted # <<>> => Head(sorted) \in Threads /\ Tail(sorted) \in Seq(Threads)
  BY <1>3, HeadTailProperties
<1> QED
  BY <1>3, <1>4, <1>5 DEF FirstWaiter, sorted

LEMMA SemaRaiseType ==
    ASSUME CPUType, PriorityType, SemaType, NEW s \in Semaphores, SemaRaise(s)
    PROVE  /\ SemaType'
           /\ WokenList(s) \in Seq(Threads)
           /\ WokenStatus(s) \in [Tasks -> Statuses]
<1>1. value' \in [Semaphores -> Nat]
  BY DEF SemaRaise, SemaType
<1>2. waiters' \in [Semaphores -> Seq(Threads)]
  BY WaitersType DEF SemaRaise, SemaType, Wakes
<1>3. WokenList(s) \in Seq(Threads) /\ WokenStatus(s) \in [Tasks -> Statuses]
  BY WaitersType, UnblockedType DEF WokenList, WokenStatus, Wakes, CPUType
<1> QED
  BY <1>1, <1>2, <1>3 DEF SemaType

LEMMA AfterType ==
    ASSUME ControlType, NEW t \in Threads
    PROVE  AfterDown(t) \in FrameType /\ AfterUp(t) \in FrameType
<1>1. frame[t] \in FrameType
  BY DEF ControlType
<1> DEFINE f == [frame[t] EXCEPT !.sema = NULL]
<1>2. f \in FrameType
  BY <1>1 DEF FrameType
<1>3. /\ \A pc \in PCs : [f EXCEPT !.pc = pc] \in FrameType
      /\ [f EXCEPT !.pc = "down", !.sema = t] \in FrameType
  <2>1. "down" \in PCs /\ t \in Semaphores
    BY DEF PCs, Semaphores
  <2> HIDE DEF f
  <2> QED
    BY <1>2, <2>1 DEF FrameType
<1>4. {"take", "check_holder", "create_unblock", "broadcast"} \subseteq PCs
  BY DEF PCs
<1> HIDE DEF f
<1>5. AfterDown(t) \in {[f EXCEPT !.pc = "take"], [f EXCEPT !.pc = "check_holder"], UserFrame}
  BY DEF AfterDown, f
<1>6. AfterUp(t) \in {[f EXCEPT !.pc = "create_unblock"], [f EXCEPT !.pc = "broadcast"],
                      [f EXCEPT !.pc = "down", !.sema = t], UserFrame}
  BY DEF AfterUp, f
<1> QED
  BY <1>3, <1>4, <1>5, <1>6, UserFrameType

LEMMA SemaDownTypeOK ==
    ASSUME TypeOK, FramesOK, NEW t \in Threads, SemaDown(t), UNCHANGED left
    PROVE  TypeOK'
<1> DEFINE s == frame[t].sema
<1>1. s \in Semaphores
  BY DEF SemaDown, At, FramesOK, FrameShape
<1>2. SemaDownWait(t, s) \/ SemaDownTake(t, s)
  BY DEF SemaDown
<1> HIDE DEF s
<1>3. CASE SemaDownWait(t, s)
  <2>1. CPUType'
    BY <1>3, BlockType DEF SemaDownWait, TypeOK
  <2>2. SemaType'
    <3>1. Append(waiters[s], t) \in Seq(Threads)
      BY <1>1, AppendProperties DEF TypeOK, SemaType
    <3> QED
      BY <1>1, <1>3, <3>1 DEF SemaDownWait, list_push_back, TypeOK, SemaType
  <2>3. ControlType'
    BY <1>3, GotoType DEF SemaDownWait, SemaDown, TypeOK, PCs
  <2> QED
    BY <2>1, <2>2, <2>3 DEF SemaDown, TypeOK, PriorityType, AlarmType, LockType,
       CondType, ClientType, priorityVars, alarmVars, lockVars
<1>4. CASE SemaDownTake(t, s)
  <2>1. SemaType'
    BY <1>1, <1>4 DEF SemaDownTake, TypeOK, SemaType
  <2>2. ControlType'
    BY <1>4, AfterType DEF SemaDownTake, SemaDown, TypeOK, ControlType
  <2> QED
    BY <1>4, <2>1, <2>2 DEF SemaDownTake, SemaDown, TypeOK, CPUType, PriorityType,
       AlarmType, LockType, CondType, ClientType,
       cpuVars, priorityVars, alarmVars, lockVars
<1> QED
  BY <1>2, <1>3, <1>4

LEMMA SemaUpTypeOK ==
    ASSUME TypeOK, FramesOK, NEW t \in Threads, SemaUp(t), UNCHANGED left
    PROVE  TypeOK'
<1> DEFINE s == frame[t].sema
<1>1. s \in Semaphores
  BY DEF SemaUp, At, FramesOK, FrameShape
<1>2. SemaRaise(s) /\ thread_check_priority(WokenList(s), WokenStatus(s), priority)
  BY DEF SemaUp
<1> HIDE DEF s
<1>3. /\ SemaType' /\ WokenList(s) \in Seq(Threads)
      /\ WokenStatus(s) \in [Tasks -> Statuses]
  BY <1>1, <1>2, SemaRaiseType DEF TypeOK
<1>4. CPUType'
  BY <1>2, <1>3, CheckType DEF TypeOK, PriorityType
<1>5. ControlType'
  BY AfterType DEF SemaUp, TypeOK, ControlType
<1> QED
  BY <1>3, <1>4, <1>5 DEF SemaUp, TypeOK, PriorityType, AlarmType, LockType, CondType,
     ClientType, priorityVars, alarmVars, lockVars

LEMMA DeviceTypeOK ==
    ASSUME TypeOK, Device
    PROVE  TypeOK'
<1>1. PICK s \in DeviceSemas : DeviceSemaUp(s)
  BY DEF Device
<1>2. s \in Semaphores
  BY SynchAssumption DEF Semaphores
<1>3. /\ SemaType' /\ WokenList(s) \in Seq(Threads)
      /\ WokenStatus(s) \in [Tasks -> Statuses]
  BY <1>1, <1>2, SemaRaiseType DEF DeviceSemaUp, TypeOK
<1>4. CPUType'
  BY <1>1, <1>3, KeepType DEF DeviceSemaUp, TypeOK
<1>5. ControlType'
  BY <1>1, AfterInterruptType DEF DeviceSemaUp, TypeOK, ControlType, Faults
<1> QED
  BY <1>1, <1>3, <1>4, <1>5 DEF DeviceSemaUp, Device, TypeOK, PriorityType, AlarmType,
     LockType, CondType, ClientType, priorityVars, alarmVars, lockVars

\* A client enters sema_down(), sema_up() or lock code: only its frame and
\* the calls it has left change.
LEMMA EnterTypeOK ==
    ASSUME TypeOK, NEW t \in Threads, NEW f \in FrameType,
           frame' = [frame EXCEPT ![t] = f], ClientType',
           UNCHANGED <<cpuVars, priorityVars, in_external_intr, fault, alarmVars, synchVars>>
    PROVE  TypeOK'
BY DEF TypeOK, CPUType, PriorityType, ControlType, AlarmType, SemaType, LockType, CondType,
   cpuVars, priorityVars, alarmVars, synchVars, semaVars, lockVars

LEMMA SemaCallTypeOK ==
    ASSUME TypeOK, NEW t \in Threads, CallSemaDown(t) \/ CallSemaUp(t)
    PROVE  TypeOK'
<1>1. PICK pc \in {"down", "up"}, s \in Semas : SemaCall(t, pc, s)
  BY DEF CallSemaDown, CallSemaUp
<1>2. ClientType'
  BY ClientTypeStep DEF CallSemaDown, CallSemaUp, TypeOK
<1> DEFINE f == [frame[t] EXCEPT !.pc = pc, !.sema = s]
<1>3. f \in FrameType
  <2>1. frame[t] \in FrameType
    BY DEF TypeOK, ControlType
  <2> QED
    BY <2>1 DEF FrameType, PCs, Semaphores
<1>4. frame' = [frame EXCEPT ![t] = f]
  BY <1>1 DEF SemaCall, TypeOK, ControlType
<1> QED
  BY <1>1, <1>2, <1>3, <1>4, EnterTypeOK DEF SemaCall

LEMMA SemaTryDownTypeOK ==
    ASSUME TypeOK, NEW t \in Threads, CallSemaTryDown(t)
    PROVE  TypeOK'
<1>1. PICK s \in Semas : SemaTryDown(t, s)
  BY DEF CallSemaTryDown
<1>2. ClientType'
  BY ClientTypeStep DEF CallSemaTryDown, TypeOK
<1>3. SemaType'
  BY <1>1 DEF SemaTryDown, TypeOK, SemaType, Semaphores
<1> QED
  BY <1>1, <1>2, <1>3 DEF SemaTryDown, TypeOK, CPUType, PriorityType, ControlType,
     AlarmType, LockType, CondType, schedVars, cpuVars, priorityVars, alarmVars, lockVars

-----------------------------------------------------------------------------
(* synch.c: locks and donations.                                           *)

LEMMA LockFrameType ==
    ASSUME NEW pc \in PCs, NEW l \in Locks
    PROVE  LockFrame(pc, l) \in FrameType
BY UserFrameType DEF LockFrame, FrameType

LEMMA LockCallTypeOK ==
    ASSUME TypeOK, NEW t \in Threads, CallAcquire(t) \/ CallRelease(t)
    PROVE  TypeOK'
<1>1. PICK l \in Locks : LockAcquire(t, l) \/ LockRelease(t, l)
  BY DEF CallAcquire, CallRelease, ClientLocks, Held
<1>2. ClientType'
  BY ClientTypeStep DEF CallAcquire, CallRelease, TypeOK, ClientType
<1>3. CASE LockAcquire(t, l)
  BY <1>2, <1>3, LockFrameType, EnterTypeOK DEF LockAcquire, PCs
<1>4. CASE LockRelease(t, l)
  BY <1>2, <1>4, LockFrameType, EnterTypeOK DEF LockRelease, PCs
<1> QED
  BY <1>1, <1>3, <1>4

LEMMA TryAcquireTypeOK ==
    ASSUME TypeOK, NEW t \in Threads, CallTryAcquire(t)
    PROVE  TypeOK'
<1>1. PICK l \in Locks : LockTryAcquire(t, l)
  BY DEF CallTryAcquire, ClientLocks
<1>2. ClientType'
  BY ClientTypeStep DEF CallTryAcquire, TypeOK
<1>3. SemaType'
  BY <1>1 DEF LockTryAcquire, TypeOK, SemaType, Semaphores
<1>4. ControlType'
  BY <1>1, LockFrameType DEF LockTryAcquire, TypeOK, ControlType, PCs
<1> QED
  BY <1>1, <1>2, <1>3, <1>4 DEF LockTryAcquire, TypeOK, CPUType, PriorityType,
     AlarmType, LockType, CondType, cpuVars, priorityVars, alarmVars, lockVars

LEMMA CheckHolderTypeOK ==
    ASSUME TypeOK, FramesOK, NEW t \in Threads, CheckHolder(t), UNCHANGED left
    PROVE  TypeOK'
<1> DEFINE f == IF holder[frame[t].lock] # NULL
                THEN [frame[t] EXCEPT !.pc = "mark_waiting"]
                ELSE [frame[t] EXCEPT !.pc = "down", !.sema = frame[t].lock]
<1>1. frame[t] \in FrameType
  BY DEF TypeOK, ControlType
<1>2. frame[t].lock \in Locks
  BY DEF CheckHolder, At, FramesOK, FrameShape
<1>3. f \in FrameType
  BY <1>1, <1>2 DEF FrameType, PCs, Semaphores
<1>4. frame' = [frame EXCEPT ![t] = f]
  BY DEF CheckHolder, TypeOK, ControlType
<1>5. ClientType'
  BY DEF TypeOK, ClientType
<1> HIDE DEF f
<1> QED
  BY <1>3, <1>4, <1>5, EnterTypeOK DEF CheckHolder

LEMMA MarkWaitingTypeOK ==
    ASSUME TypeOK, FramesOK, NEW t \in Threads, MarkWaiting(t), UNCHANGED left
    PROVE  TypeOK'
<1>1. frame[t].lock \in Locks
  BY DEF MarkWaiting, At, FramesOK, FrameShape
<1>2. LockType'
  BY <1>1 DEF MarkWaiting, TypeOK, LockType
<1>3. ControlType'
  <2> DEFINE f == [frame[t] EXCEPT !.pc = "donate", !.dlock = frame[t].lock]
  <2>1. frame[t] \in FrameType
    BY DEF TypeOK, ControlType
  <2>2. f \in FrameType
    BY <1>1, <2>1 DEF FrameType, PCs
  <2>3. frame' = [frame EXCEPT ![t] = f]
    BY DEF MarkWaiting, TypeOK, ControlType
  <2> HIDE DEF f
  <2> QED
    BY <2>2, <2>3 DEF MarkWaiting, TypeOK, ControlType
<1> QED
  BY <1>2, <1>3 DEF MarkWaiting, TypeOK, CPUType, PriorityType, AlarmType, SemaType,
     CondType, ClientType, cpuVars, priorityVars, alarmVars, semaVars

LEMMA BoostedType ==
    ASSUME PriorityType, NEW t \in Tasks, NEW h \in Tasks
    PROVE  Boosted(t, h) \in Priorities
<1> DEFINE I == {priority[h], priority[t], original_priority[h]}
<1>1. I \in SUBSET (0 .. PRI_MAX) /\ I # {} /\ PRI_MAX \in Nat
  BY NumbersAssumption DEF PriorityType
<1>2. Max(I) \in I
  BY <1>1, MaxIsGreatest
<1> QED
  BY <1>1, <1>2 DEF Boosted

\* The donor's frame when the donation is over.
LEMMA DonationOverType ==
    ASSUME ControlType, NEW t \in Threads, frame[t].lock \in Locks
    PROVE  [frame EXCEPT ![t].pc = "down", ![t].sema = frame[t].lock,
                         ![t].dlock = NULL, ![t].depth = 0] \in [Tasks -> FrameType]
<1> DEFINE f == [frame[t] EXCEPT !.pc = "down", !.sema = frame[t].lock,
                                 !.dlock = NULL, !.depth = 0]
<1>0. frame[t] \in FrameType /\ 0 \in 0 .. PRI_DONATION_MAX_DEPTH
  BY NumbersAssumption DEF ControlType
<1>1. f \in FrameType
  BY <1>0 DEF FrameType, PCs, Semaphores
<1> HIDE DEF f
<1>2. [frame EXCEPT ![t] = f] \in [Tasks -> FrameType]
  BY <1>1 DEF ControlType
<1> QED
  BY <1>2 DEF f, ControlType

LEMMA DonateTypeOK ==
    ASSUME TypeOK, FramesOK, NEW t \in Threads, Donate(t), UNCHANGED left
    PROVE  TypeOK'
<1> DEFINE h == holder[frame[t].dlock]
           boosted == [priority EXCEPT ![h] = Boosted(t, h)]
<1>1. frame[t].lock \in Locks /\ frame[t].dlock \in Locks
  BY DEF Donate, At, FramesOK, FrameShape
<1>2. h \in Threads \union {NULL}
  BY <1>1 DEF TypeOK, LockType
<1>3. CASE h = NULL
  BY <1>3 DEF Donate, Crash, TypeOK, CPUType, PriorityType, ControlType, AlarmType,
     SemaType, LockType, CondType, ClientType, Faults, cpuVars, priorityVars, lockVars
<1>4. CASE h # NULL
  <2>1. h \in Threads /\ DonateStep(t, h)
    BY <1>2, <1>4 DEF Donate
  <2> HIDE DEF h
  <2>2. boosted \in [Tasks -> Priorities]
    BY <2>1, BoostedType DEF TypeOK, PriorityType
  <2>3. PriorityType'
    BY <2>1, <2>2 DEF DonateStep, TypeOK, PriorityType
  <2>4. CASE wait_for_lock[h] = NULL
    <3>1. CPUType'
      <4>1. \A u \in Threads : boosted[u] \in Int
        BY <2>2, NumbersAssumption
      <4>2. list_remove(ready_list, h) \in Seq(Threads)
        BY RemoveType DEF TypeOK, CPUType
      <4> HIDE DEF boosted
      <4>3. list_insert_ordered(list_remove(ready_list, h), h, boosted) \in Seq(Threads)
        BY <2>1, <4>1, <4>2, InsertOrderedType
      <4> QED
        BY <2>1, <2>4, <4>3 DEF DonateStep, TypeOK, CPUType, boosted
    <3>2. wait_list' \in Seq(Threads)
      BY <2>1, <2>4, RemoveType DEF DonateStep, TypeOK, AlarmType
    <3>3. waiters' \in [Semaphores -> Seq(Threads)]
      BY <2>1, <2>4, RemoveType DEF DonateStep, TypeOK, SemaType
    <3>4. ControlType'
      <4>1. frame' = [frame EXCEPT ![t].pc = "down", ![t].sema = frame[t].lock,
                                   ![t].dlock = NULL, ![t].depth = 0]
        BY <2>1, <2>4 DEF DonateStep
      <4>2. frame' \in [Tasks -> FrameType]
        BY <1>1, <4>1, DonationOverType DEF TypeOK
      <4> QED
        BY <2>1, <4>2 DEF DonateStep, Donate, TypeOK, ControlType
    <3> QED
      BY <2>3, <3>1, <3>2, <3>3, <3>4 DEF Donate, TypeOK, AlarmType, SemaType,
         LockType, CondType, ClientType, lockVars
  <2>5. CASE wait_for_lock[h] # NULL
    <3>1. wait_for_lock[h] \in Locks
      BY <2>1, <2>5 DEF TypeOK, LockType
    <3>2. ControlType'
      <4> DEFINE f == [frame[t] EXCEPT !.dlock = wait_for_lock[h], !.depth = @ + 1]
      <4>1. frame[t] \in FrameType
        BY DEF TypeOK, ControlType
      <4>2. frame[t].depth + 1 \in 0 .. PRI_DONATION_MAX_DEPTH
        BY <4>1, NumbersAssumption DEF Donate, DepthLeft, FrameType
      <4>3. f \in FrameType
        BY <3>1, <4>1, <4>2 DEF FrameType
      <4>4. frame' = [frame EXCEPT ![t] = f]
        BY <2>1, <2>5 DEF DonateStep, TypeOK, ControlType
      <4> HIDE DEF f
      <4> QED
        BY <2>1, <4>3, <4>4 DEF Donate, DonateStep, TypeOK, ControlType
    <3> QED
      BY <2>1, <2>3, <2>5, <3>2 DEF Donate, DonateStep, TypeOK, CPUType, AlarmType,
         SemaType, LockType, CondType, ClientType, lockVars
  <2> QED
    BY <2>4, <2>5
<1> QED
  BY <1>3, <1>4

LEMMA DonateStopTypeOK ==
    ASSUME TypeOK, FramesOK, NEW t \in Threads, DonateStop(t), UNCHANGED left
    PROVE  TypeOK'
<1>1. frame[t].lock \in Locks
  BY DEF DonateStop, At, FramesOK, FrameShape
<1>2. ControlType'
  BY <1>1, DonationOverType DEF DonateStop, TypeOK, ControlType
<1> QED
  BY <1>2, SMTT(30) DEF DonateStop, TypeOK, CPUType, PriorityType, AlarmType, SemaType, LockType,
     CondType, ClientType, cpuVars, priorityVars, alarmVars, synchVars, semaVars, lockVars

LEMMA TakeTypeOK ==
    ASSUME TypeOK, FramesOK, NEW t \in Threads, Take(t) \/ TryTake(t), UNCHANGED left
    PROVE  TypeOK'
<1>1. frame[t].lock \in Locks
  BY DEF Take, TryTake, At, FramesOK, FrameShape
<1>2. LockType'
  <2>1. Append(acquired_locks[t], frame[t].lock) \in Seq(Locks)
    BY <1>1, AppendProperties DEF TypeOK, LockType
  <2> QED
    BY <1>1, <2>1 DEF Take, TryTake, list_push_back, TypeOK, LockType
<1>3. ControlType'
  BY GotoType, ReturnType DEF Take, TryTake, TypeOK, PCs
<1> QED
  BY <1>2, <1>3 DEF Take, TryTake, TypeOK, CPUType, PriorityType, AlarmType, SemaType,
     CondType, ClientType, cpuVars, priorityVars, alarmVars, semaVars

LEMMA ClearHolderTypeOK ==
    ASSUME TypeOK, FramesOK, NEW t \in Threads, ClearHolder(t), UNCHANGED left
    PROVE  TypeOK'
<1>1. frame[t].lock \in Locks
  BY DEF ClearHolder, At, FramesOK, FrameShape
<1>2. LockType'
  BY <1>1 DEF ClearHolder, TypeOK, LockType
<1>3. ControlType'
  <2> DEFINE f == [frame[t] EXCEPT !.pc = "up", !.sema = frame[t].lock]
  <2>1. frame[t] \in FrameType
    BY DEF TypeOK, ControlType
  <2>2. f \in FrameType
    BY <1>1, <2>1 DEF FrameType, PCs, Semaphores
  <2>3. frame' = [frame EXCEPT ![t] = f]
    BY DEF ClearHolder, TypeOK, ControlType
  <2> HIDE DEF f
  <2> QED
    BY <2>2, <2>3 DEF ClearHolder, TypeOK, ControlType
<1> QED
  BY <1>2, <1>3 DEF ClearHolder, TypeOK, CPUType, PriorityType, AlarmType, SemaType,
     CondType, ClientType, cpuVars, priorityVars, alarmVars, semaVars

\* What list_begin() finds at the front of a semaphore's waiters.
LEMMA FrontPriorityType ==
    ASSUME PriorityType, SemaType, NEW s \in Semaphores
    PROVE  /\ FrontPriority(s) \in Int
           /\ value[s] <= 1 => FrontPriority(s) \in Priorities
<1>1. CASE waiters[s] = <<>>
  BY <1>1, NumbersAssumption DEF FrontPriority, SemaType
<1>2. CASE waiters[s] # <<>>
  <2>1. FirstWaiter(s) \in Threads
    BY <1>2, WaitersType
  <2>2. FrontPriority(s) = priority[FirstWaiter(s)]
    BY <1>2 DEF FrontPriority, FirstWaiter
  <2> QED
    BY <2>1, <2>2, NumbersAssumption DEF PriorityType
<1> QED
  BY <1>1, <1>2

LEMMA UnlistTypeOK ==
    ASSUME TypeOK, FramesOK, UpWhenFree, NEW t \in Threads, Unlist(t), UNCHANGED left
    PROVE  TypeOK'
<1> DEFINE l == frame[t].lock
           rest == list_remove(acquired_locks[t], l)
<1>1. CASE l \notin ToSet(acquired_locks[t])
  BY <1>1 DEF Unlist, Crash, TypeOK, CPUType, PriorityType, ControlType, AlarmType,
     SemaType, LockType, CondType, ClientType, Faults, cpuVars, priorityVars, alarmVars
<1>2. CASE l \in ToSet(acquired_locks[t])
  <2>1. rest \in Seq(Locks)
    BY RemoveType DEF TypeOK, LockType
  <2>2. ToSet(rest) \subseteq Locks
    BY <2>1, ElementOfSeq DEF ToSet
  <2>3. /\ thread_next_priority(t, rest)
        /\ acquired_locks' = [acquired_locks EXCEPT ![t] = rest]
        /\ Goto(t, "clear_holder")
        /\ UNCHANGED <<original_priority, cpuVars, in_external_intr, fault>>
    BY <1>2 DEF Unlist
  <2>4. UNCHANGED <<alarmVars, value, holder, wait_for_lock, cond_waiters>>
    BY DEF Unlist
  <2> HIDE DEF l, rest
  <2>5. PriorityType'
    <3> DEFINE I == {original_priority[t]} \union {FrontPriority(k) : k \in ToSet(rest)}
    <3>1. \A k \in Locks : FrontPriority(k) \in Priorities
      <4>1. \A k \in Locks : k \in Semaphores /\ value[k] <= 1
        BY DEF UpWhenFree, Semaphores
      <4> QED
        BY <4>1, FrontPriorityType DEF TypeOK
    <3>2. I \in SUBSET (0 .. PRI_MAX) /\ I # {} /\ PRI_MAX \in Nat
      BY <2>2, <3>1, NumbersAssumption DEF TypeOK, PriorityType
    <3>3. Max(I) \in Priorities
      BY <3>2, MaxIsGreatest
    <3>4. priority' = [priority EXCEPT ![t] = Max(I)]
      BY <2>3 DEF thread_next_priority
    <3> HIDE DEF I
    <3> QED
      BY <2>3, <3>3, <3>4 DEF TypeOK, PriorityType
  <2>6. SemaType'
    <3>1. \A s \in Semaphores : list_sort(waiters[s], priority) \in Seq(Threads)
      BY WaitersType DEF TypeOK
    <3> QED
      BY <2>3, <2>4, <3>1 DEF thread_next_priority, TypeOK, SemaType
  <2>7. LockType'
    BY <2>1, <2>3, <2>4 DEF TypeOK, LockType
  <2>8. ControlType'
    BY <2>3, GotoType DEF TypeOK, PCs
  <2> QED
    BY <2>3, <2>4, <2>5, <2>6, <2>7, <2>8 DEF TypeOK, CPUType, AlarmType, CondType,
       ClientType, cpuVars, alarmVars
<1> QED
  BY <1>1, <1>2

-----------------------------------------------------------------------------
(* synch.c: condition variables.                                           *)

LEMMA CondWaitTypeOK ==
    ASSUME TypeOK, NEW t \in Threads, CallCondWait(t)
    PROVE  TypeOK'
<1>1. PICK c \in Conds : CondWait(t, c)
  BY DEF CallCondWait
<1>2. ClientType'
  BY ClientTypeStep DEF CallCondWait, TypeOK
<1>3. SemaType'
  BY <1>1, EmptySeq DEF CondWait, TypeOK, SemaType
<1>4. CondType'
  <2>1. Append(cond_waiters[c], t) \in Seq(Threads)
    BY AppendProperties DEF TypeOK, CondType
  <2> QED
    BY <1>1, <2>1 DEF CondWait, list_push_back, TypeOK, CondType
<1>5. ControlType'
  <2>1. CondLock[c] \in Locks
    BY SynchAssumption
  <2>2. LockFrame("unlist", CondLock[c]) \in FrameType
    BY <2>1, LockFrameType DEF PCs
  <2>3. [LockFrame("unlist", CondLock[c]) EXCEPT !.op = "cond_wait"] \in FrameType
    BY <2>2 DEF FrameType, Ops
  <2> QED
    BY <1>1, <2>3 DEF CondWait, TypeOK, ControlType
<1> QED
  BY <1>1, <1>2, <1>3, <1>4, <1>5 DEF CondWait, TypeOK, CPUType, PriorityType, AlarmType,
     LockType, cpuVars, priorityVars, alarmVars, lockVars

LEMMA SignalFirstType ==
    ASSUME TypeOK, NEW t \in Threads, NEW c \in Conds, NEW f \in FrameType,
           cond_waiters[c] # <<>>, SignalFirst(t, c, f)
    PROVE  CondType' /\ frame' \in [Tasks -> FrameType]
<1> DEFINE key == [w \in Threads |-> FrontPriority(w)]
           sorted == list_sort(cond_waiters[c], key)
<1>1. \A w \in Threads : key[w] \in Int
  BY FrontPriorityType DEF TypeOK, Semaphores
<1>2. cond_waiters[c] \in Seq(Threads)
  BY DEF TypeOK, CondType
<1>3. /\ cond_waiters' = [cond_waiters EXCEPT ![c] = Tail(sorted)]
      /\ frame' = [frame EXCEPT ![t] = [f EXCEPT !.pc = "up", !.sema = Head(sorted)]]
  BY DEF SignalFirst
<1> HIDE DEF key
<1>4. sorted \in Seq(Threads) /\ Len(sorted) = Len(cond_waiters[c])
  BY <1>1, <1>2, SortType
<1> HIDE DEF sorted
<1>5. sorted # <<>>
  BY <1>2, <1>4, EmptySeq
<1>6. Head(sorted) \in Threads /\ Tail(sorted) \in Seq(Threads)
  BY <1>4, <1>5, HeadTailProperties
<1>7. [f EXCEPT !.pc = "up", !.sema = Head(sorted)] \in FrameType
  BY <1>6 DEF FrameType, PCs, Semaphores
<1> QED
  BY <1>3, <1>6, <1>7 DEF TypeOK, CondType, ControlType

LEMMA CondSignalTypeOK ==
    ASSUME TypeOK, NEW t \in Threads, CallCondSignal(t)
    PROVE  TypeOK'
<1>1. PICK c \in Conds : CondSignal(t, c)
  BY DEF CallCondSignal
<1>2. ClientType'
  BY ClientTypeStep DEF CallCondSignal, TypeOK
<1>3. CondType' /\ frame' \in [Tasks -> FrameType]
  BY <1>1, UserFrameType, SignalFirstType DEF CondSignal
<1> QED
  BY <1>1, <1>2, <1>3 DEF CondSignal, TypeOK, CPUType, PriorityType, ControlType,
     AlarmType, SemaType, LockType, cpuVars, priorityVars, alarmVars, semaVars, lockVars

LEMMA CondBroadcastTypeOK ==
    ASSUME TypeOK, NEW t \in Threads, CallCondBroadcast(t)
    PROVE  TypeOK'
<1>1. PICK c \in Conds : CondBroadcast(t, c)
  BY DEF CallCondBroadcast
<1>2. ClientType'
  BY ClientTypeStep DEF CallCondBroadcast, TypeOK
<1> DEFINE f == [FrameAt("broadcast") EXCEPT !.op = "cond_broadcast", !.cond = c]
<1>3. f \in FrameType
  <2>1. FrameAt("broadcast") \in FrameType
    BY FrameAtType DEF PCs
  <2> QED
    BY <2>1 DEF FrameType, Ops
<1>4. frame' = [frame EXCEPT ![t] = f]
  BY <1>1 DEF CondBroadcast
<1> HIDE DEF f
<1> QED
  BY <1>1, <1>2, <1>3, <1>4, EnterTypeOK DEF CondBroadcast

LEMMA BroadcastNextTypeOK ==
    ASSUME TypeOK, FramesOK, NEW t \in Threads, BroadcastNext(t), UNCHANGED left
    PROVE  TypeOK'
<1> DEFINE c == frame[t].cond
<1>1. c \in Conds /\ frame[t] \in FrameType
  BY DEF BroadcastNext, At, FramesOK, FrameShape, TypeOK, ControlType
<1>2. CASE cond_waiters[c] # <<>>
  <2>1. CondType' /\ frame' \in [Tasks -> FrameType]
    BY <1>1, <1>2, SignalFirstType DEF BroadcastNext
  <2> QED
    BY <2>1 DEF BroadcastNext, TypeOK, CPUType, PriorityType, ControlType, AlarmType,
       SemaType, LockType, ClientType, cpuVars, priorityVars, alarmVars, semaVars, lockVars
<1>3. CASE cond_waiters[c] = <<>>
  <2>1. ControlType'
    BY <1>3, ReturnType DEF BroadcastNext, TypeOK
  <2> QED
    BY <1>3, <2>1 DEF BroadcastNext, TypeOK, CPUType, PriorityType, AlarmType, SemaType,
       LockType, CondType, ClientType, cpuVars, priorityVars, alarmVars, semaVars, lockVars
<1> QED
  BY <1>2, <1>3

-----------------------------------------------------------------------------
LEMMA InitTypeOK == Init => TypeOK
<1> SUFFICES ASSUME Init PROVE TypeOK
  OBVIOUS
<1>1. BootList \in Seq(Threads)
  BY BootAssumption, SeqMonotonic, Threads \ {Main} \subseteq Threads
<1>2. CPUType
  BY <1>1, ObjectsAssumption, NumbersAssumption DEF Init, SchedInit, CPUType, Statuses
<1>3. PriorityType
  BY NumbersAssumption, BootAssumption DEF Init, SchedInit, PriorityType
<1>4. ControlType
  BY FrameAtType, UserFrameType DEF Init, SchedInit, ControlType, PCs, Faults
<1>5. AlarmType
  BY EmptySeq, AlarmAssumption DEF Init, AlarmInit, AlarmType
<1>6. SemaType
  BY EmptySeq DEF Init, SynchInit, SemaType
<1>7. LockType
  BY EmptySeq DEF Init, SynchInit, LockType
<1>8. CondType /\ ClientType
  BY EmptySeq, ClientAssumption DEF Init, SynchInit, CondType, ClientType
<1> QED
  BY <1>2, <1>3, <1>4, <1>5, <1>6, <1>7, <1>8 DEF TypeOK

\* Every step of the kernel keeps the types.
LEMMA TypeStep ==
    ASSUME TypeOK, FramesOK, UpWhenFree, [Next]_vars
    PROVE  TypeOK'
<1>1. ASSUME NEW t \in Threads, ClientCall(t) PROVE TypeOK'
  BY <1>1, YieldTypeOK, SetPriorityTypeOK, CreateTypeOK, SleepTypeOK, ExitTypeOK,
     SemaCallTypeOK, SemaTryDownTypeOK, LockCallTypeOK, TryAcquireTypeOK,
     CondWaitTypeOK, CondSignalTypeOK, CondBroadcastTypeOK DEF ClientCall
<1>2. ASSUME NEW t \in Threads, KernelStep(t) PROVE TypeOK'
  BY <1>2, SchedStepTypeOK, SleepStepTypeOK, SemaDownTypeOK, SemaUpTypeOK,
     CheckHolderTypeOK, MarkWaitingTypeOK, DonateTypeOK, DonateStopTypeOK, TakeTypeOK,
     UnlistTypeOK, ClearHolderTypeOK, BroadcastNextTypeOK DEF KernelStep, SynchStep
<1>3. CASE CPU
  BY <1>1, <1>2, <1>3, IdleTypeOK DEF CPU
<1>4. CASE UNCHANGED vars
  BY <1>4 DEF vars, schedVars, cpuVars, priorityVars, alarmVars, synchVars, semaVars,
     lockVars, TypeOK, CPUType, PriorityType, ControlType, AlarmType, SemaType, LockType,
     CondType, ClientType
<1> QED
  BY <1>3, <1>4, TickTypeOK, HandlerTypeOK, DeviceTypeOK DEF Next, Halted

-----------------------------------------------------------------------------
(* Every step keeps the shape of the frames.                               *)

LEMMA FramesChange ==
    ASSUME TypeOK, FramesOK, NEW t \in Tasks, NEW f, FrameShape(f),
           frame' = [frame EXCEPT ![t] = f]
    PROVE  FramesOK'
<1>1. \A u \in Tasks : frame'[u] = f \/ frame'[u] = frame[u]
  BY DEF TypeOK, ControlType
<1> QED
  BY <1>1 DEF FramesOK

LEMMA FramesSame ==
    ASSUME FramesOK, UNCHANGED frame
    PROVE  FramesOK'
BY DEF FramesOK

LEMMA UserShape == FrameShape(UserFrame)
BY DEF FrameShape, UserFrame, FrameAt

LEMMA ReturnShape ==
    ASSUME TypeOK, FramesOK, NEW t \in Threads, ReturnToUser(t)
    PROVE  FramesOK'
BY UserShape, FramesChange DEF ReturnToUser

\* Places of the code that read no locals but what the caller reads later.
LEMMA PlainPcShape ==
    ASSUME NEW f \in FrameType, FrameShape(f),
           NEW pc \in {"create_check", "sleep_insert", "sleep_blocked", "hlt", "block"}
    PROVE  FrameShape([f EXCEPT !.pc = pc])
BY DEF FrameShape, FrameType

LEMMA PlainGoto ==
    ASSUME TypeOK, FramesOK, NEW t \in Tasks,
           NEW pc \in {"create_check", "sleep_insert", "sleep_blocked", "hlt", "block"},
           Goto(t, pc)
    PROVE  FramesOK'
<1>1. frame[t] \in FrameType /\ FrameShape(frame[t])
  BY DEF TypeOK, ControlType, FramesOK
<1> DEFINE f == [frame[t] EXCEPT !.pc = pc]
<1>2. FrameShape(f)
  BY <1>1, PlainPcShape
<1>3. frame' = [frame EXCEPT ![t] = f]
  BY DEF Goto, TypeOK, ControlType
<1> HIDE DEF f
<1> QED
  BY <1>2, <1>3, FramesChange

LEMMA AfterInterruptShape ==
    ASSUME TypeOK, FramesOK, frame' = AfterInterrupt
    PROVE  FramesOK'
BY PlainGoto, FramesSame DEF AfterInterrupt, Goto

LEMMA CreateShape ==
    ASSUME TypeOK, FramesOK, NEW t \in Threads, CallCreate(t)
    PROVE  FramesOK'
<1>1. PICK child \in Threads, pri \in NewPriorities : ThreadCreate(t, child, pri)
  BY DEF CallCreate
<1> DEFINE f == [UserFrame EXCEPT !.pc = "check_holder", !.op = "thread_create",
                                  !.lock = TidLock, !.child = child]
<1>2. FrameShape(f)
  BY ObjectsAssumption DEF FrameShape, UserFrame, FrameAt
<1>3. frame' = [frame EXCEPT ![child] = UserFrame, ![t] = f]
  BY <1>1 DEF ThreadCreate
<1> HIDE DEF f
<1>4. \A u \in Tasks : frame'[u] \in {f, UserFrame, frame[u]}
  BY <1>3 DEF TypeOK, ControlType
<1> QED
  BY <1>2, <1>4, UserShape DEF FramesOK

LEMMA SemaCallShape ==
    ASSUME TypeOK, FramesOK, NEW t \in Threads, CallSemaDown(t) \/ CallSemaUp(t)
    PROVE  FramesOK'
<1>1. PICK pc \in {"down", "up"}, s \in Semas : SemaCall(t, pc, s)
  BY DEF CallSemaDown, CallSemaUp
<1> DEFINE f == [frame[t] EXCEPT !.pc = pc, !.sema = s]
<1>2. frame[t] \in FrameType /\ FrameShape(frame[t])
  BY DEF TypeOK, ControlType, FramesOK
<1>3. FrameShape(f)
  BY <1>2, ObjectsAssumption DEF FrameShape, FrameType, Semaphores
<1>4. frame' = [frame EXCEPT ![t] = f]
  BY <1>1 DEF SemaCall, TypeOK, ControlType
<1> HIDE DEF f
<1> QED
  BY <1>3, <1>4, FramesChange

LEMMA LockFrameShape ==
    ASSUME NEW pc \in {"check_holder", "try_take", "unlist"}, NEW l \in Locks
    PROVE  FrameShape(LockFrame(pc, l))
BY DEF FrameShape, LockFrame, UserFrame, FrameAt

LEMMA LockCallShape ==
    ASSUME TypeOK, FramesOK, NEW t \in Threads,
           CallAcquire(t) \/ CallTryAcquire(t) \/ CallRelease(t)
    PROVE  FramesOK'
<1>1. PICK l \in Locks, pc \in {"check_holder", "try_take", "unlist"} :
         frame' = [frame EXCEPT ![t] = LockFrame(pc, l)]
  BY DEF CallAcquire, CallTryAcquire, CallRelease, ClientLocks, Held,
     LockAcquire, LockTryAcquire, LockRelease
<1> QED
  BY <1>1, LockFrameShape, FramesChange

LEMMA CondCallShape ==
    ASSUME TypeOK, FramesOK, NEW t \in Threads, CallCondWait(t) \/ CallCondBroadcast(t)
    PROVE  FramesOK'
<1>1. CASE CallCondWait(t)
  <2>1. PICK c \in Conds : CondWait(t, c)
    BY <1>1 DEF CallCondWait
  <2> DEFINE f == [LockFrame("unlist", CondLock[c]) EXCEPT !.op = "cond_wait"]
  <2>2. CondLock[c] \in Locks
    BY SynchAssumption
  <2>3. FrameShape(f)
    BY <2>2 DEF FrameShape, LockFrame, UserFrame, FrameAt
  <2>4. frame' = [frame EXCEPT ![t] = f]
    BY <2>1 DEF CondWait
  <2> HIDE DEF f
  <2> QED
    BY <2>3, <2>4, FramesChange
<1>2. CASE CallCondBroadcast(t)
  <2>1. PICK c \in Conds : CondBroadcast(t, c)
    BY <1>2 DEF CallCondBroadcast
  <2> DEFINE f == [FrameAt("broadcast") EXCEPT !.op = "cond_broadcast", !.cond = c]
  <2>2. FrameShape(f)
    BY DEF FrameShape, FrameAt
  <2>3. frame' = [frame EXCEPT ![t] = f]
    BY <2>1 DEF CondBroadcast
  <2> HIDE DEF f
  <2> QED
    BY <2>2, <2>3, FramesChange
<1> QED
  BY <1>1, <1>2

\* The waiter that cond_signal(c) picks.
Signalled(c) == Head(list_sort(cond_waiters[c], [w \in Threads |-> FrontPriority(w)]))

LEMMA SignalsOne ==
    ASSUME TypeOK, NEW t \in Threads, NEW c \in Conds, NEW f,
           cond_waiters[c] # <<>>, SignalFirst(t, c, f)
    PROVE  /\ Signalled(c) \in Threads
           /\ frame' = [frame EXCEPT ![t] = [f EXCEPT !.pc = "up", !.sema = Signalled(c)]]
<1> DEFINE key == [w \in Threads |-> FrontPriority(w)]
           sorted == list_sort(cond_waiters[c], key)
<1>1. \A w \in Threads : key[w] \in Int
  BY FrontPriorityType DEF TypeOK, Semaphores
<1>2. cond_waiters[c] \in Seq(Threads)
  BY DEF TypeOK, CondType
<1>3. Signalled(c) = Head(sorted)
  BY DEF Signalled
<1>7. frame' = [frame EXCEPT ![t] = [f EXCEPT !.pc = "up", !.sema = Signalled(c)]]
  BY DEF SignalFirst, Signalled
<1> HIDE DEF key
<1>4. sorted \in Seq(Threads) /\ Len(sorted) = Len(cond_waiters[c])
  BY <1>1, <1>2, SortType
<1> HIDE DEF sorted
<1>5. sorted # <<>>
  BY <1>2, <1>4, EmptySeq
<1>6. Head(sorted) \in Threads
  BY <1>4, <1>5, HeadTailProperties
<1> QED
  BY <1>3, <1>6, <1>7

LEMMA SignalFirstShape ==
    ASSUME TypeOK, FramesOK, NEW t \in Threads, NEW c \in Conds,
           NEW f \in FrameType, FrameShape(f),
           cond_waiters[c] # <<>>, SignalFirst(t, c, f)
    PROVE  FramesOK'
<1> DEFINE g == [f EXCEPT !.pc = "up", !.sema = Signalled(c)]
<1>1. Signalled(c) \in Threads /\ frame' = [frame EXCEPT ![t] = g]
  BY SignalsOne
<1>2. FrameShape(g)
  BY <1>1 DEF FrameShape, FrameType, Semaphores
<1> HIDE DEF g
<1> QED
  BY <1>1, <1>2, FramesChange

LEMMA CondSignalShape ==
    ASSUME TypeOK, FramesOK, NEW t \in Threads, CallCondSignal(t)
    PROVE  FramesOK'
BY UserShape, UserFrameType, SignalFirstShape DEF CallCondSignal, CondSignal

LEMMA BroadcastNextShape ==
    ASSUME TypeOK, FramesOK, NEW t \in Threads, BroadcastNext(t)
    PROVE  FramesOK'
<1> DEFINE c == frame[t].cond
<1>1. c \in Conds /\ frame[t] \in FrameType /\ FrameShape(frame[t])
  BY DEF BroadcastNext, At, FramesOK, FrameShape, TypeOK, ControlType
<1>2. CASE cond_waiters[c] # <<>>
  BY <1>1, <1>2, SignalFirstShape DEF BroadcastNext
<1>3. CASE cond_waiters[c] = <<>>
  BY <1>3, ReturnShape DEF BroadcastNext
<1> QED
  BY <1>2, <1>3

LEMMA SemaDownShape ==
    ASSUME TypeOK, FramesOK, NEW t \in Threads, SemaDown(t)
    PROVE  FramesOK'
<1> DEFINE s == frame[t].sema
           g == [frame[t] EXCEPT !.sema = NULL]
           blocked == [frame[t] EXCEPT !.pc = "down_blocked"]
<1>1. frame[t] \in FrameType /\ FrameShape(frame[t])
  BY DEF TypeOK, ControlType, FramesOK
<1>2. frame[t].pc \in {"down", "down_blocked"}
  BY DEF SemaDown, At
<1>3. CASE SemaDownWait(t, s)
  <2>1. FrameShape(blocked)
    BY <1>1, <1>2 DEF FrameShape, FrameType
  <2>2. frame' = [frame EXCEPT ![t] = blocked]
    BY <1>3 DEF SemaDownWait, Goto, TypeOK, ControlType
  <2> HIDE DEF blocked
  <2> QED
    BY <2>1, <2>2, FramesChange
<1>4. CASE SemaDownTake(t, s)
  <2>1. CASE s \in Locks
    <3>1. FrameShape([g EXCEPT !.pc = "take"])
      BY <1>1, <1>2, <2>1 DEF FrameShape, FrameType
    <3>2. AfterDown(t) = [g EXCEPT !.pc = "take"]
      BY <2>1 DEF AfterDown
    <3> QED
      BY <1>4, <3>1, <3>2, FramesChange DEF SemaDownTake
  <2>2. CASE s \notin Locks /\ s \in Threads
    <3>1. FrameShape([g EXCEPT !.pc = "check_holder"])
      BY <1>1, <1>2, <2>2 DEF FrameShape, FrameType
    <3>2. AfterDown(t) = [g EXCEPT !.pc = "check_holder"]
      BY <2>2 DEF AfterDown
    <3> QED
      BY <1>4, <3>1, <3>2, FramesChange DEF SemaDownTake
  <2>3. CASE s \notin Locks /\ s \notin Threads
    <3>1. AfterDown(t) = UserFrame
      BY <2>3 DEF AfterDown
    <3> QED
      BY <1>4, <3>1, UserShape, FramesChange DEF SemaDownTake
  <2> QED
    BY <2>1, <2>2, <2>3
<1> QED
  BY <1>3, <1>4 DEF SemaDown

LEMMA SemaUpShape ==
    ASSUME TypeOK, FramesOK, NEW t \in Threads, SemaUp(t)
    PROVE  FramesOK'
<1> DEFINE g == [frame[t] EXCEPT !.sema = NULL]
<1>1. frame[t] \in FrameType /\ FrameShape(frame[t]) /\ frame[t].pc = "up"
  BY DEF SemaUp, At, TypeOK, ControlType, FramesOK
<1>2. CASE g.op = "thread_create"
  <2>1. FrameShape([g EXCEPT !.pc = "create_unblock"])
    BY <1>1, <1>2 DEF FrameShape, FrameType
  <2> QED
    BY <1>2, <2>1, FramesChange DEF AfterUp, SemaUp
<1>3. CASE g.op = "cond_wait"
  <2>1. t \notin Locks /\ t \in Semaphores
    BY ObjectsAssumption DEF Semaphores
  <2>2. FrameShape([g EXCEPT !.pc = "down", !.sema = t])
    BY <1>1, <1>3, <2>1 DEF FrameShape, FrameType
  <2> QED
    BY <1>3, <2>2, FramesChange DEF AfterUp, SemaUp
<1>4. CASE g.op = "cond_broadcast"
  <2>1. FrameShape([g EXCEPT !.pc = "broadcast"])
    BY <1>1, <1>4 DEF FrameShape, FrameType
  <2> QED
    BY <1>4, <2>1, FramesChange DEF AfterUp, SemaUp
<1>5. CASE g.op \notin {"thread_create", "cond_wait", "cond_broadcast"}
  <2>1. AfterUp(t) = UserFrame
    BY <1>5 DEF AfterUp
  <2> QED
    BY <2>1, UserShape, FramesChange DEF SemaUp
<1> QED
  BY <1>2, <1>3, <1>4, <1>5

LEMMA AcquireStepShape ==
    ASSUME TypeOK, FramesOK, NEW t \in Threads, CheckHolder(t) \/ MarkWaiting(t)
    PROVE  FramesOK'
<1> DEFINE l == frame[t].lock
           marked == [frame[t] EXCEPT !.pc = "mark_waiting"]
           down == [frame[t] EXCEPT !.pc = "down", !.sema = l]
           donor == [frame[t] EXCEPT !.pc = "donate", !.dlock = l]
<1>1. frame[t] \in FrameType /\ FrameShape(frame[t]) /\ l \in Locks
  BY DEF CheckHolder, MarkWaiting, At, TypeOK, ControlType, FramesOK, FrameShape
<1>2. FrameShape(marked) /\ FrameShape(down) /\ FrameShape(donor)
  BY <1>1 DEF FrameShape, FrameType, Semaphores
<1>3. \/ frame' = [frame EXCEPT ![t] = marked]
      \/ frame' = [frame EXCEPT ![t] = down]
      \/ frame' = [frame EXCEPT ![t] = donor]
  BY DEF CheckHolder, MarkWaiting, TypeOK, ControlType
<1> HIDE DEF marked, down, donor
<1> QED
  BY <1>2, <1>3, FramesChange

LEMMA DonateShape ==
    ASSUME TypeOK, FramesOK, NEW t \in Threads, Donate(t) \/ DonateStop(t)
    PROVE  FramesOK'
<1> DEFINE l == frame[t].lock
           next == wait_for_lock[holder[frame[t].dlock]]
           over == [frame[t] EXCEPT !.pc = "down", !.sema = l, !.dlock = NULL, !.depth = 0]
           on == [frame[t] EXCEPT !.dlock = next, !.depth = @ + 1]
<1>1. /\ frame[t] \in FrameType /\ FrameShape(frame[t]) /\ frame[t].pc = "donate"
      /\ l \in Locks /\ frame[t].dlock \in Locks
  BY DEF Donate, DonateStop, At, TypeOK, ControlType, FramesOK, FrameShape
<1>2. FrameShape(over)
  BY <1>1 DEF FrameShape, FrameType, Semaphores
<1>3. next \in Locks => FrameShape(on)
  BY <1>1 DEF FrameShape, FrameType
<1>4. \/ UNCHANGED frame
      \/ frame' = [frame EXCEPT ![t] = over]
      \/ next \in Locks /\ frame' = [frame EXCEPT ![t] = on]
  <2>1. holder[frame[t].dlock] = NULL \/ next \in Locks \union {NULL}
    BY <1>1 DEF TypeOK, LockType
  <2> QED
    BY <2>1 DEF Donate, DonateStop, DonateStep, Crash, TypeOK, ControlType
<1> HIDE DEF over, on
<1> QED
  BY <1>2, <1>3, <1>4, FramesChange, FramesSame

LEMMA TakeShape ==
    ASSUME TypeOK, FramesOK, NEW t \in Threads, Take(t) \/ TryTake(t)
    PROVE  FramesOK'
<1> DEFINE f == [frame[t] EXCEPT !.pc = "unlist"]
<1>1. /\ frame[t] \in FrameType /\ FrameShape(frame[t]) /\ frame[t].lock \in Locks
  BY DEF Take, TryTake, At, TypeOK, ControlType, FramesOK, FrameShape
<1>2. FrameShape(f)
  BY <1>1 DEF FrameShape, FrameType
<1>3. ReturnToUser(t) \/ frame' = [frame EXCEPT ![t] = f]
  BY DEF Take, TryTake, Goto, TypeOK, ControlType
<1> HIDE DEF f
<1> QED
  BY <1>2, <1>3, ReturnShape, FramesChange

LEMMA ReleaseStepShape ==
    ASSUME TypeOK, FramesOK, NEW t \in Threads, Unlist(t) \/ ClearHolder(t)
    PROVE  FramesOK'
<1> DEFINE f == [frame[t] EXCEPT !.pc = "clear_holder"]
           g == [frame[t] EXCEPT !.pc = "up", !.sema = frame[t].lock]
<1>1. /\ frame[t] \in FrameType /\ FrameShape(frame[t]) /\ frame[t].lock \in Locks
  BY DEF Unlist, ClearHolder, At, TypeOK, ControlType, FramesOK, FrameShape
<1>2. FrameShape(f) /\ FrameShape(g)
  BY <1>1 DEF FrameShape, FrameType, Semaphores
<1>3. UNCHANGED frame \/ frame' = [frame EXCEPT ![t] = f] \/ frame' = [frame EXCEPT ![t] = g]
  BY DEF Unlist, ClearHolder, Crash, Goto, TypeOK, ControlType
<1> HIDE DEF f, g
<1> QED
  BY <1>2, <1>3, FramesSame, FramesChange

LEMMA InitFrames == Init => FramesOK
<1> SUFFICES ASSUME Init PROVE FramesOK
  OBVIOUS
<1>1. FrameShape(FrameAt("hlt"))
  BY DEF FrameShape, FrameAt
<1> QED
  BY <1>1, UserShape DEF Init, SchedInit, FramesOK

\* Every step of the kernel keeps the shape of the frames.
LEMMA FramesStep ==
    ASSUME TypeOK, FramesOK, [Next]_vars
    PROVE  FramesOK'
<1>1. ASSUME NEW t \in Threads, ClientCall(t) PROVE FramesOK'
  <2>1. CASE CallYield(t) \/ CallSetPriority(t) \/ CallExit(t) \/ CallSemaTryDown(t)
    BY <2>1, FramesSame DEF CallYield, CallSetPriority, CallExit, CallSemaTryDown,
       ThreadYield, ThreadSetPriority, ThreadExit, SemaTryDown, schedVars
  <2>2. CASE CallSleep(t)
    BY <2>2, PlainGoto DEF CallSleep, TimerSleep
  <2> QED
    BY <1>1, <2>1, <2>2, CreateShape, SemaCallShape, LockCallShape, CondCallShape,
       CondSignalShape DEF ClientCall
<1>2. ASSUME NEW t \in Threads, KernelStep(t) PROVE FramesOK'
  <2>1. CASE SchedStep(t)
    BY <2>1, PlainGoto, ReturnShape DEF SchedStep, CreateUnblock, CreateCheck
  <2>2. CASE SleepStep(t)
    BY <2>2, PlainGoto, ReturnShape DEF SleepStep, SleepInsert, SleepReturn
  <2>3. CASE SynchStep(t)
    BY <2>3, SemaDownShape, SemaUpShape, AcquireStepShape, DonateShape, TakeShape,
       ReleaseStepShape, BroadcastNextShape DEF SynchStep
  <2> QED
    BY <1>2, <2>1, <2>2, <2>3 DEF KernelStep
<1>3. CASE IdleStep
  BY <1>3, PlainGoto DEF IdleStep, IdleBlock
<1>4. CASE Tick \/ Handler \/ Device
  BY <1>4, FramesSame, AfterInterruptShape DEF Tick, TimerInterrupt, Handler,
     TimerWakeUp, TimerReturn, Device, DeviceSemaUp
<1>5. CASE UNCHANGED vars
  BY <1>5, FramesSame DEF vars, schedVars
<1> QED
  BY <1>1, <1>2, <1>3, <1>4, <1>5 DEF Next, CPU, Halted

-----------------------------------------------------------------------------
(* Every step keeps the ownership of locks.  A step gives one lock to one  *)
(* thread, takes one lock from its owner, or leaves all owners alone.      *)

\* What a step does to the owners: nothing, gives l to t, takes l from t.
SameOwners == \A u \in Threads, k \in Locks : Owns(u, k)' <=> Owns(u, k)
GivenTo(t, l) ==
    \A u \in Threads, k \in Locks : Owns(u, k)' <=> Owns(u, k) \/ (u = t /\ k = l)
TakenFrom(t, l) ==
    \A u \in Threads, k \in Locks : Owns(u, k)' <=> Owns(u, k) /\ ~ (u = t /\ k = l)

LEMMA GivenOwnership ==
    ASSUME OneOwner, UpWhenFree, NEW t \in Threads, NEW l \in Locks,
           value[l] # 0, value'[l] = 0,
           \A k \in Locks : k # l => value'[k] = value[k], GivenTo(t, l)
    PROVE  (OneOwner /\ UpWhenFree)'
<1>1. \A u \in Threads : ~ Owns(u, l)
  BY DEF UpWhenFree
<1>2. OneOwner'
  BY <1>1 DEF OneOwner, GivenTo
<1>3. ASSUME NEW k \in Locks
      PROVE  IF \E u \in Threads : Owns(u, k)' THEN value'[k] = 0 ELSE value'[k] = 1
  <2>1. CASE k = l
    BY <2>1 DEF GivenTo
  <2>2. CASE k # l
    BY <2>2 DEF UpWhenFree, GivenTo
  <2> QED
    BY <2>1, <2>2
<1>4. UpWhenFree'
  BY <1>3 DEF UpWhenFree
<1> QED
  BY <1>2, <1>4

LEMMA ReturnedOwnership ==
    ASSUME OneOwner, UpWhenFree, NEW t \in Threads, NEW l \in Locks,
           Owns(t, l), value'[l] = value[l] + 1,
           \A k \in Locks : k # l => value'[k] = value[k], TakenFrom(t, l)
    PROVE  (OneOwner /\ UpWhenFree)'
<1>1. value'[l] = 1
  BY DEF UpWhenFree
<1>2. \A u \in Threads : ~ Owns(u, l)'
  BY DEF OneOwner, TakenFrom
<1>3. OneOwner'
  BY DEF OneOwner, TakenFrom
<1>4. ASSUME NEW k \in Locks
      PROVE  IF \E u \in Threads : Owns(u, k)' THEN value'[k] = 0 ELSE value'[k] = 1
  <2>1. CASE k = l
    BY <1>1, <1>2, <2>1
  <2>2. CASE k # l
    BY <2>2 DEF UpWhenFree, TakenFrom
  <2> QED
    BY <2>1, <2>2
<1>5. UpWhenFree'
  BY <1>4 DEF UpWhenFree
<1> QED
  BY <1>3, <1>5

LEMMA SameOwnership ==
    ASSUME OneOwner, UpWhenFree,
           \A k \in Locks : value'[k] = value[k], SameOwners
    PROVE  (OneOwner /\ UpWhenFree)'
<1>1. OneOwner'
  BY DEF OneOwner, SameOwners
<1>2. ASSUME NEW k \in Locks
      PROVE  IF \E u \in Threads : Owns(u, k)' THEN value'[k] = 0 ELSE value'[k] = 1
  BY DEF UpWhenFree, SameOwners
<1>3. UpWhenFree'
  BY <1>2 DEF UpWhenFree
<1> QED
  BY <1>1, <1>3

\* At f, the thread is between taking a lock's semaphore and giving it back in
\* a way that lock->holder alone does not tell.
InTransit(f) ==
    \/ f.pc \in {"take", "try_take", "unlist", "clear_holder"}
    \/ f.pc = "up" /\ f.sema \in Locks

\* Steps that touch no lock.
LEMMA QuietOwnership ==
    ASSUME Ownership, UNCHANGED holder, \A k \in Locks : value'[k] = value[k],
           \A u \in Threads : \/ frame'[u] = frame[u]
                              \/ ~ InTransit(frame[u]) /\ ~ InTransit(frame'[u])
    PROVE  Ownership' /\ SameOwners
<1>1. SameOwners
  BY DEF Owns, InTransit, SameOwners
<1>2. (OneOwner /\ UpWhenFree)'
  BY <1>1, SameOwnership DEF Ownership
<1>3. HolderUntilCleared'
  BY DEF Ownership, HolderUntilCleared, InTransit
<1> QED
  BY <1>1, <1>2, <1>3 DEF Ownership

LEMMA QuietFrame ==
    ASSUME TypeOK, Ownership, NEW t \in Tasks, NEW f, ~ InTransit(f),
           t \in Threads => ~ InTransit(frame[t]), frame' = [frame EXCEPT ![t] = f],
           UNCHANGED holder, \A k \in Locks : value'[k] = value[k]
    PROVE  Ownership' /\ SameOwners
<1>1. \A u \in Threads : frame'[u] = IF u = t THEN f ELSE frame[u]
  BY DEF TypeOK, ControlType
<1> QED
  BY <1>1, QuietOwnership

LEMMA QuietGoto ==
    ASSUME TypeOK, Ownership, NEW t \in Tasks,
           NEW pc \in PCs \ {"take", "try_take", "unlist", "clear_holder", "up"},
           t \in Threads => ~ InTransit(frame[t]), Goto(t, pc),
           UNCHANGED <<holder, value>>
    PROVE  Ownership' /\ SameOwners
<1> DEFINE f == [frame[t] EXCEPT !.pc = pc]
<1>1. frame[t] \in FrameType
  BY DEF TypeOK, ControlType
<1>2. ~ InTransit(f)
  BY <1>1 DEF InTransit, FrameType
<1>3. frame' = [frame EXCEPT ![t] = f]
  BY DEF Goto, TypeOK, ControlType
<1> HIDE DEF f
<1> QED
  BY <1>2, <1>3, QuietFrame

LEMMA UserNotInTransit == ~ InTransit(UserFrame)
BY DEF InTransit, UserFrame, FrameAt

LEMMA QuietReturn ==
    ASSUME TypeOK, Ownership, NEW t \in Threads, ReturnToUser(t),
           ~ InTransit(frame[t]), UNCHANGED <<holder, value>>
    PROVE  Ownership' /\ SameOwners
BY UserNotInTransit, QuietFrame DEF ReturnToUser

LEMMA QuietSame ==
    ASSUME Ownership, UNCHANGED <<frame, holder, value>>
    PROVE  Ownership' /\ SameOwners
BY QuietOwnership

LEMMA TryAcquireOwnership ==
    ASSUME TypeOK, Ownership, NEW t \in Threads, NEW l \in Locks, LockTryAcquire(t, l)
    PROVE  Ownership' /\ value[l] = 1 /\ GivenTo(t, l)
<1>1. frame[t].pc = "user" /\ l \in Semaphores
  BY DEF LockTryAcquire, At, Semaphores
<1>2. LockFrame("try_take", l).pc = "try_take" /\ LockFrame("try_take", l).lock = l
  BY DEF LockFrame, UserFrame, FrameAt
<1>3. \A u \in Threads : frame'[u] = IF u = t THEN LockFrame("try_take", l) ELSE frame[u]
  BY DEF LockTryAcquire, TypeOK, ControlType
<1>4. UNCHANGED holder
  BY DEF LockTryAcquire, lockVars
<1>5. GivenTo(t, l)
  BY <1>1, <1>2, <1>3, <1>4 DEF Owns, GivenTo
<1>6. value[l] = 1
  BY DEF LockTryAcquire, Ownership, UpWhenFree
<1>7. value'[l] = 0 /\ \A k \in Locks : k # l => value'[k] = value[k]
  BY <1>1, <1>6 DEF LockTryAcquire, TypeOK, SemaType, Semaphores
<1>8. (OneOwner /\ UpWhenFree)'
  BY <1>5, <1>6, <1>7, GivenOwnership DEF Ownership
<1>9. HolderUntilCleared'
  BY <1>2, <1>3, <1>4 DEF Ownership, HolderUntilCleared
<1> QED
  BY <1>5, <1>6, <1>8, <1>9 DEF Ownership

\* A client's calls, made from user code.
LEMMA CallOwnership ==
    ASSUME TypeOK, FramesOK, Ownership, GoneFromKernel, NEW t \in Threads, ClientCall(t)
    PROVE  Ownership' /\ (CallTryAcquire(t) \/ SameOwners)
<1> DEFINE f0 == frame[t]
<1>1. frame[t] \in FrameType /\ \A k \in Locks : k \in Semaphores
  BY SMTT(30) DEF TypeOK, ControlType, Semaphores
<1>2. frame[t].pc = "user"
  BY DEF ClientCall, CallYield, CallSetPriority, CallCreate, CallSleep, CallExit,
     CallSemaDown, CallSemaUp, CallSemaTryDown, CallAcquire, CallTryAcquire, CallRelease,
     CallCondWait, CallCondSignal, CallCondBroadcast, ThreadYield, ThreadSetPriority,
     ThreadCreate, TimerSleep, ThreadExit, SemaCall, SemaTryDown, LockAcquire,
     LockTryAcquire, LockRelease, CondWait, CondSignal, CondBroadcast, At
<1>3. ~ InTransit(frame[t])
  BY <1>2 DEF InTransit
<1>4. CASE CallYield(t) \/ CallSetPriority(t) \/ CallExit(t)
  BY <1>4, QuietSame DEF CallYield, CallSetPriority, CallExit, ThreadYield,
     ThreadSetPriority, ThreadExit, synchVars, semaVars, lockVars
<1>5. CASE CallSleep(t)
  BY <1>3, <1>5, QuietGoto DEF CallSleep, TimerSleep, PCs, synchVars, semaVars, lockVars
<1>6. CASE CallCreate(t)
  <2>1. PICK child \in Threads, pri \in NewPriorities : ThreadCreate(t, child, pri)
    BY <1>6 DEF CallCreate
  <2> DEFINE f == [UserFrame EXCEPT !.pc = "check_holder", !.op = "thread_create",
                                    !.lock = TidLock, !.child = child]
  <2>2. ~ InTransit(f)
    BY DEF InTransit, UserFrame, FrameAt
  <2>3. frame' = [frame EXCEPT ![child] = UserFrame, ![t] = f]
    BY <2>1 DEF ThreadCreate
  <2> HIDE DEF f
  <2>4. ~ InTransit(frame[child])
    BY <2>1 DEF ThreadCreate, GoneFromKernel, Gone, InTransit
  <2>5. \A u \in Threads : frame'[u] = IF u = t THEN f
                                       ELSE IF u = child THEN UserFrame ELSE frame[u]
    BY <2>3 DEF TypeOK, ControlType
  <2>6. UNCHANGED <<holder, value>>
    BY <1>6 DEF CallCreate, synchVars, semaVars, lockVars
  <2> QED
    BY <1>3, <2>2, <2>4, <2>5, <2>6, UserNotInTransit, QuietOwnership
<1>7. CASE CallSemaDown(t) \/ CallSemaUp(t)
  <2>1. PICK pc \in {"down", "up"}, s \in Semas : SemaCall(t, pc, s)
    BY <1>7 DEF CallSemaDown, CallSemaUp
  <2> DEFINE f == [frame[t] EXCEPT !.pc = pc, !.sema = s]
  <2>2. ~ InTransit(f)
    BY <1>1, ObjectsAssumption DEF InTransit, FrameType
  <2>3. frame' = [frame EXCEPT ![t] = f]
    BY <2>1 DEF SemaCall, TypeOK, ControlType
  <2> HIDE DEF f
  <2> QED
    BY <1>3, <2>1, <2>2, <2>3, QuietFrame DEF SemaCall, synchVars, semaVars, lockVars
<1>8. CASE CallSemaTryDown(t)
  <2>1. PICK s \in Semas : SemaTryDown(t, s)
    BY <1>8 DEF CallSemaTryDown
  <2>2. \A k \in Locks : value'[k] = value[k]
    BY <1>1, <2>1, ObjectsAssumption DEF SemaTryDown, TypeOK, SemaType
  <2> QED
    BY <2>1, <2>2, QuietOwnership DEF SemaTryDown, schedVars, lockVars
<1>9. CASE CallAcquire(t)
  <2>1. PICK l \in Locks : LockAcquire(t, l)
    BY <1>9 DEF CallAcquire, ClientLocks
  <2>2. ~ InTransit(LockFrame("check_holder", l))
    BY DEF InTransit, LockFrame, UserFrame, FrameAt
  <2> QED
    BY <1>3, <2>1, <2>2, QuietFrame DEF LockAcquire, synchVars, semaVars, lockVars
<1>10. CASE CallTryAcquire(t)
  BY <1>10, TryAcquireOwnership DEF CallTryAcquire, ClientLocks
<1>11. CASE CallRelease(t) \/ CallCondWait(t)
  <2>1. PICK l \in Locks, f \in FrameType :
          /\ holder[l] = t /\ frame' = [frame EXCEPT ![t] = f]
          /\ f.pc = "unlist" /\ f.lock = l
    <3>1. CASE CallRelease(t)
      <4>1. PICK l \in Locks : LockRelease(t, l)
        BY <3>1 DEF CallRelease, Held
      <4>2. LockFrame("unlist", l) \in FrameType
        BY LockFrameType DEF PCs
      <4>3. LockFrame("unlist", l).pc = "unlist" /\ LockFrame("unlist", l).lock = l
        BY DEF LockFrame, UserFrame, FrameAt
      <4> QED
        BY <4>1, <4>2, <4>3 DEF LockRelease
    <3>2. CASE CallCondWait(t)
      <4>1. PICK c \in Conds : CondWait(t, c)
        BY <3>2 DEF CallCondWait
      <4> DEFINE l == CondLock[c]
                 f == [LockFrame("unlist", l) EXCEPT !.op = "cond_wait"]
      <4>2. l \in Locks
        BY SynchAssumption
      <4>3. LockFrame("unlist", l) \in FrameType
        BY <4>2, LockFrameType DEF PCs
      <4>4. f \in FrameType
        BY <4>3 DEF FrameType, Ops
      <4>5. f.pc = "unlist" /\ f.lock = l
        BY DEF LockFrame, UserFrame, FrameAt
      <4>6. holder[l] = t /\ frame' = [frame EXCEPT ![t] = f]
        BY <4>1 DEF CondWait
      <4> QED
        BY <4>2, <4>4, <4>5, <4>6
    <3> QED
      BY <1>11, <3>1, <3>2
  <2>2. UNCHANGED holder /\ \A k \in Locks : value'[k] = value[k]
    BY <1>11, ObjectsAssumption DEF CallRelease, CallCondWait, LockRelease, CondWait,
       synchVars, semaVars, lockVars, TypeOK, SemaType, Semaphores
  <2>3. \A u \in Threads : frame'[u] = IF u = t THEN f ELSE frame[u]
    BY <2>1 DEF TypeOK, ControlType
  <2>4. SameOwners
    BY <1>2, <2>1, <2>2, <2>3 DEF Owns, SameOwners
  <2>5. (OneOwner /\ UpWhenFree)'
    BY <2>2, <2>4, SameOwnership DEF Ownership
  <2>6. HolderUntilCleared'
    BY <2>1, <2>2, <2>3 DEF Ownership, HolderUntilCleared
  <2> QED
    BY <2>4, <2>5, <2>6 DEF Ownership
<1>12. CASE CallCondSignal(t)
  <2>1. PICK c \in Conds : CondSignal(t, c)
    BY <1>12 DEF CallCondSignal
  <2> DEFINE f == [UserFrame EXCEPT !.pc = "up", !.sema = Signalled(c)]
  <2>2. Signalled(c) \in Threads /\ frame' = [frame EXCEPT ![t] = f]
    BY <2>1, SignalsOne DEF CondSignal
  <2>3. ~ InTransit(f)
    BY <2>2, ObjectsAssumption DEF InTransit, UserFrame, FrameAt
  <2>4. UNCHANGED <<holder, value>>
    BY <2>1 DEF CondSignal, semaVars, lockVars
  <2> HIDE DEF f
  <2> QED
    BY <1>3, <2>2, <2>3, <2>4, QuietFrame
<1>13. CASE CallCondBroadcast(t)
  <2>1. PICK c \in Conds : CondBroadcast(t, c)
    BY <1>13 DEF CallCondBroadcast
  <2> DEFINE f == [FrameAt("broadcast") EXCEPT !.op = "cond_broadcast", !.cond = c]
  <2>2. ~ InTransit(f)
    BY DEF InTransit, FrameAt
  <2>3. frame' = [frame EXCEPT ![t] = f]
    BY <2>1 DEF CondBroadcast
  <2> HIDE DEF f
  <2> QED
    BY <1>3, <2>1, <2>2, <2>3, QuietFrame DEF CondBroadcast, synchVars, semaVars, lockVars
<1> QED
  BY <1>4, <1>5, <1>6, <1>7, <1>8, <1>9, <1>10, <1>11, <1>12, <1>13 DEF ClientCall

LEMMA SemaDownOwnership ==
    ASSUME TypeOK, FramesOK, Ownership, NEW t \in Threads, SemaDown(t)
    PROVE  /\ Ownership'
           /\ IF frame[t].sema \in Locks /\ SemaDownTake(t, frame[t].sema)
              THEN GivenTo(t, frame[t].sema) ELSE SameOwners
<1> DEFINE s == frame[t].sema
           g == [frame[t] EXCEPT !.sema = NULL]
<1>1. /\ frame[t] \in FrameType /\ FrameShape(frame[t]) /\ s \in Semaphores
      /\ frame[t].pc \in {"down", "down_blocked"} /\ UNCHANGED holder
  BY DEF SemaDown, At, TypeOK, ControlType, FramesOK, FrameShape, lockVars
<1>2. ~ InTransit(frame[t])
  BY <1>1 DEF InTransit
<1>3. CASE SemaDownWait(t, s)
  <2>1. Ownership' /\ SameOwners
    BY <1>1, <1>2, <1>3, QuietGoto DEF SemaDownWait, PCs
  <2> QED
    BY <1>3, <2>1 DEF SemaDownWait, SemaDownTake
<1>4. CASE SemaDownTake(t, s)
  <2>1. frame' = [frame EXCEPT ![t] = AfterDown(t)]
    BY <1>4 DEF SemaDownTake
  <2>2. CASE s \in Locks
    <3> DEFINE f == [g EXCEPT !.pc = "take"]
    <3>1. AfterDown(t) = f
      BY <2>2 DEF AfterDown
    <3>2. f.pc = "take" /\ f.lock = s
      BY <1>1, <2>2 DEF FrameType, FrameShape
    <3> HIDE DEF f
    <3>3. \A u \in Threads : frame'[u] = IF u = t THEN f ELSE frame[u]
      BY <2>1, <3>1 DEF TypeOK, ControlType
    <3>4. GivenTo(t, s)
      BY <1>1, <3>2, <3>3 DEF Owns, GivenTo
    <3>5. value[s] = 1
      BY <1>4, <2>2 DEF SemaDownTake, Ownership, UpWhenFree
    <3>6. value'[s] = 0 /\ \A k \in Locks : k # s => value'[k] = value[k]
      BY <1>1, <1>4, <3>5 DEF SemaDownTake, TypeOK, SemaType, Semaphores
    <3>7. (OneOwner /\ UpWhenFree)'
      BY <2>2, <3>4, <3>5, <3>6, GivenOwnership DEF Ownership
    <3>8. HolderUntilCleared'
      BY <1>1, <3>2, <3>3 DEF Ownership, HolderUntilCleared
    <3> QED
      BY <1>4, <2>2, <3>4, <3>7, <3>8 DEF Ownership
  <2>3. CASE s \notin Locks
    <3>1. ~ InTransit(AfterDown(t))
      <4>1. ~ InTransit([g EXCEPT !.pc = "check_holder"])
        BY <1>1 DEF InTransit, FrameType
      <4> QED
        BY <2>3, <4>1, UserNotInTransit DEF AfterDown
    <3>2. \A k \in Locks : value'[k] = value[k]
      BY <1>4, <2>3 DEF SemaDownTake, TypeOK, SemaType, Semaphores
    <3> QED
      BY <1>1, <1>2, <2>1, <2>3, <3>1, <3>2, QuietFrame
  <2> QED
    BY <2>2, <2>3
<1> QED
  BY <1>3, <1>4 DEF SemaDown

LEMMA AfterUpQuiet ==
    ASSUME TypeOK, NEW t \in Threads
    PROVE  /\ ~ InTransit(AfterUp(t))
           /\ AfterUp(t).pc \notin {"take", "try_take", "unlist", "clear_holder", "up"}
<1> DEFINE g == [frame[t] EXCEPT !.sema = NULL]
<1>1. frame[t] \in FrameType
  BY DEF TypeOK, ControlType
<1>2. AfterUp(t).pc \in {"create_unblock", "down", "broadcast", "user"}
  <2>1. [g EXCEPT !.pc = "create_unblock"].pc = "create_unblock"
    BY <1>1 DEF FrameType
  <2>2. [g EXCEPT !.pc = "down", !.sema = t].pc = "down"
    BY <1>1 DEF FrameType
  <2>3. [g EXCEPT !.pc = "broadcast"].pc = "broadcast"
    BY <1>1 DEF FrameType
  <2>4. UserFrame.pc = "user"
    BY DEF UserFrame, FrameAt
  <2> QED
    BY <2>1, <2>2, <2>3, <2>4 DEF AfterUp
<1> QED
  BY <1>2 DEF InTransit

LEMMA SemaUpOwnership ==
    ASSUME TypeOK, FramesOK, Ownership, NEW t \in Threads, SemaUp(t)
    PROVE  /\ Ownership'
           /\ IF frame[t].sema \in Locks
              THEN Owns(t, frame[t].sema) /\ TakenFrom(t, frame[t].sema) ELSE SameOwners
<1> DEFINE s == frame[t].sema
<1>1. /\ frame[t] \in FrameType /\ s \in Semaphores /\ frame[t].pc = "up"
      /\ UNCHANGED holder /\ frame' = [frame EXCEPT ![t] = AfterUp(t)]
  BY DEF SemaUp, At, TypeOK, ControlType, FramesOK, FrameShape, lockVars
<1>2. value' = [value EXCEPT ![s] = @ + 1]
  BY DEF SemaUp, SemaRaise
<1>3. /\ ~ InTransit(AfterUp(t))
      /\ AfterUp(t).pc \notin {"take", "try_take", "unlist", "clear_holder", "up"}
  BY AfterUpQuiet
<1>4. CASE s \in Locks
  <2>1. holder[s] = NULL /\ Owns(t, s)
    BY <1>1, <1>4 DEF Ownership, HolderUntilCleared, Owns
  <2>2. \A u \in Threads : frame'[u] = IF u = t THEN AfterUp(t) ELSE frame[u]
    BY <1>1 DEF TypeOK, ControlType
  <2>3. TakenFrom(t, s)
    BY <1>1, <1>3, <2>1, <2>2, ObjectsAssumption DEF Owns, TakenFrom
  <2>4. value'[s] = value[s] + 1 /\ \A k \in Locks : k # s => value'[k] = value[k]
    BY <1>1, <1>2 DEF TypeOK, SemaType, Semaphores
  <2>5. (OneOwner /\ UpWhenFree)'
    BY <1>4, <2>1, <2>3, <2>4, ReturnedOwnership DEF Ownership
  <2>6. HolderUntilCleared'
    BY <1>1, <1>3, <2>2 DEF Ownership, HolderUntilCleared
  <2> QED
    BY <1>4, <2>1, <2>3, <2>5, <2>6 DEF Ownership
<1>5. CASE s \notin Locks
  <2>1. ~ InTransit(frame[t])
    BY <1>1, <1>5 DEF InTransit
  <2>2. \A k \in Locks : value'[k] = value[k]
    BY <1>2, <1>5 DEF TypeOK, SemaType, Semaphores
  <2> QED
    BY <1>1, <1>3, <1>5, <2>1, <2>2, QuietFrame
<1> QED
  BY <1>4, <1>5

LEMMA AcquireStepOwnership ==
    ASSUME TypeOK, FramesOK, Ownership, NEW t \in Threads,
           CheckHolder(t) \/ MarkWaiting(t) \/ Donate(t) \/ DonateStop(t)
    PROVE  Ownership' /\ SameOwners
<1>1. frame[t] \in FrameType /\ ~ InTransit(frame[t])
  BY DEF CheckHolder, MarkWaiting, Donate, DonateStop, At, InTransit, TypeOK, ControlType
<1>2. UNCHANGED <<holder, value>>
  BY DEF CheckHolder, MarkWaiting, Donate, DonateStop, synchVars, semaVars, lockVars
<1>3. \A u \in Threads : u # t => frame'[u] = frame[u]
  BY DEF CheckHolder, MarkWaiting, Donate, DonateStop, DonateStep, Crash, TypeOK, ControlType
<1>4. frame'[t].pc \in {"mark_waiting", "down", "donate"}
  <2>1. CASE CheckHolder(t)
    BY <1>1, <2>1 DEF CheckHolder, TypeOK, ControlType, FrameType
  <2>2. CASE MarkWaiting(t)
    BY <1>1, <2>2 DEF MarkWaiting, TypeOK, ControlType, FrameType
  <2>3. CASE Donate(t)
    <3>1. frame[t].pc = "donate"
      BY <2>3 DEF Donate, At
    <3>2. CASE UNCHANGED frame
      BY <3>1, <3>2
    <3>3. CASE frame' = [frame EXCEPT ![t].dlock = wait_for_lock[holder[frame[t].dlock]],
                                      ![t].depth = @ + 1]
      BY <1>1, <3>1, <3>3 DEF TypeOK, ControlType, FrameType
    <3>4. CASE frame' = [frame EXCEPT ![t].pc = "down", ![t].sema = frame[t].lock,
                                      ![t].dlock = NULL, ![t].depth = 0]
      BY <1>1, <3>4 DEF TypeOK, ControlType, FrameType
    <3> QED
      BY <2>3, <3>2, <3>3, <3>4 DEF Donate, DonateStep, Crash
  <2>4. CASE DonateStop(t)
    BY <1>1, <2>4 DEF DonateStop, TypeOK, ControlType, FrameType
  <2> QED
    BY <2>1, <2>2, <2>3, <2>4
<1>5. ~ InTransit(frame'[t])
  BY <1>4 DEF InTransit
<1> QED
  BY <1>1, <1>2, <1>3, <1>5, QuietOwnership

LEMMA TakeOwnership ==
    ASSUME TypeOK, FramesOK, Ownership, NEW t \in Threads, Take(t) \/ TryTake(t)
    PROVE  Ownership' /\ SameOwners
<1> DEFINE l == frame[t].lock
<1>1. /\ frame[t] \in FrameType /\ l \in Locks /\ frame[t].pc \in {"take", "try_take"}
  BY DEF Take, TryTake, At, TypeOK, ControlType, FramesOK, FrameShape
<1>2. holder' = [holder EXCEPT ![l] = t] /\ UNCHANGED value
  BY DEF Take, TryTake, semaVars
<1>3. \A u \in Threads : u # t => frame'[u] = frame[u]
  BY DEF Take, TryTake, Goto, ReturnToUser, TypeOK, ControlType
<1>4. frame'[t].pc = "user" \/ (frame'[t].pc = "unlist" /\ frame'[t].lock = l)
  <2>1. CASE ReturnToUser(t)
    BY <2>1 DEF ReturnToUser, UserFrame, FrameAt, TypeOK, ControlType
  <2>2. CASE Goto(t, "unlist")
    BY <1>1, <2>2 DEF Goto, TypeOK, ControlType, FrameType
  <2> QED
    BY <2>1, <2>2 DEF Take, TryTake
<1>5. Owns(t, l)
  BY <1>1 DEF Owns
<1>6. \A u \in Threads : Owns(u, l) => u = t
  BY <1>1, <1>5 DEF Ownership, OneOwner
<1>7. SameOwners
  <2>1. ASSUME NEW k \in Locks PROVE Owns(t, k)' <=> Owns(t, k)
    BY <1>1, <1>2, <1>4 DEF Owns, TypeOK, LockType
  <2>2. ASSUME NEW u \in Threads, u # t, NEW k \in Locks PROVE Owns(u, k)' <=> Owns(u, k)
    BY <1>1, <1>2, <1>3, <1>6, <2>2 DEF Owns, TypeOK, LockType
  <2> QED
    BY <2>1, <2>2 DEF SameOwners
<1>8. (OneOwner /\ UpWhenFree)'
  BY <1>2, <1>7, SameOwnership DEF Ownership
<1>9. HolderUntilCleared'
  <2>1. ASSUME NEW u \in Threads, u # t
        PROVE  /\ frame'[u].pc \in {"unlist", "clear_holder"} => holder'[frame'[u].lock] = u
               /\ frame'[u].pc = "up" /\ frame'[u].sema \in Locks
                    => holder'[frame'[u].sema] = NULL
    <3>1. frame[u].pc \in {"unlist", "clear_holder"} => frame[u].lock # l
      BY <1>1, <1>6, <2>1 DEF Ownership, HolderUntilCleared, Owns
    <3>2. frame[u].pc = "up" => frame[u].sema # l
      BY <1>6, <2>1 DEF Owns
    <3>3. frame[u].pc \in {"unlist", "clear_holder"} => frame[u].lock \in Locks
      BY DEF FramesOK, FrameShape
    <3> QED
      BY <1>2, <1>3, <2>1, <3>1, <3>2, <3>3 DEF Ownership, HolderUntilCleared,
         TypeOK, LockType
  <2>2. frame'[t].pc = "unlist" => holder'[frame'[t].lock] = t
    BY <1>1, <1>2, <1>4 DEF TypeOK, LockType
  <2> QED
    BY <1>4, <2>1, <2>2 DEF HolderUntilCleared
<1> QED
  BY <1>7, <1>8, <1>9 DEF Ownership

LEMMA UnlistOwnership ==
    ASSUME TypeOK, FramesOK, Ownership, NEW t \in Threads, Unlist(t)
    PROVE  Ownership' /\ SameOwners
<1>1. frame[t] \in FrameType /\ frame[t].pc = "unlist"
  BY DEF Unlist, At, TypeOK, ControlType
<1>2. UNCHANGED <<holder, value>>
  BY DEF Unlist
<1>3. CASE UNCHANGED frame
  BY <1>2, <1>3, QuietSame
<1>4. CASE Goto(t, "clear_holder")
  <2>1. \A u \in Threads : u # t => frame'[u] = frame[u]
    BY <1>4 DEF Goto, TypeOK, ControlType
  <2>2. /\ frame'[t].pc = "clear_holder" /\ frame'[t].lock = frame[t].lock
    BY <1>1, <1>4 DEF Goto, TypeOK, ControlType, FrameType
  <2>3. SameOwners
    BY <1>1, <1>2, <2>1, <2>2 DEF Owns, SameOwners
  <2>4. (OneOwner /\ UpWhenFree)'
    BY <1>2, <2>3, SameOwnership DEF Ownership
  <2>5. HolderUntilCleared'
    BY <1>1, <1>2, <2>1, <2>2 DEF Ownership, HolderUntilCleared
  <2> QED
    BY <2>3, <2>4, <2>5 DEF Ownership
<1> QED
  BY <1>3, <1>4 DEF Unlist, Crash

LEMMA ClearHolderOwnership ==
    ASSUME TypeOK, FramesOK, Ownership, NEW t \in Threads, ClearHolder(t)
    PROVE  Ownership' /\ SameOwners
<1> DEFINE l == frame[t].lock
<1>1. /\ frame[t] \in FrameType /\ l \in Locks /\ frame[t].pc = "clear_holder"
  BY DEF ClearHolder, At, TypeOK, ControlType, FramesOK, FrameShape
<1>2. holder' = [holder EXCEPT ![l] = NULL] /\ UNCHANGED value
  BY DEF ClearHolder, semaVars
<1>3. \A u \in Threads : u # t => frame'[u] = frame[u]
  BY DEF ClearHolder, TypeOK, ControlType
<1>4. frame'[t].pc = "up" /\ frame'[t].sema = l
  BY <1>1 DEF ClearHolder, TypeOK, ControlType, FrameType
<1>5. holder[l] = t /\ t # NULL
  BY <1>1, ObjectsAssumption DEF Ownership, HolderUntilCleared
<1>6. \A u \in Threads : Owns(u, l) => u = t
  BY <1>1, <1>5 DEF Ownership, OneOwner, Owns
<1>7. SameOwners
  <2>1. ASSUME NEW k \in Locks PROVE Owns(t, k)' <=> Owns(t, k)
    BY <1>1, <1>2, <1>4, <1>5 DEF Owns, TypeOK, LockType
  <2>2. ASSUME NEW u \in Threads, u # t, NEW k \in Locks PROVE Owns(u, k)' <=> Owns(u, k)
    <3>1. u # NULL
      BY ObjectsAssumption
    <3> QED
      BY <1>1, <1>2, <1>3, <1>5, <2>2, <3>1 DEF Owns, TypeOK, LockType
  <2> QED
    BY <2>1, <2>2 DEF SameOwners
<1>8. (OneOwner /\ UpWhenFree)'
  BY <1>2, <1>7, SameOwnership DEF Ownership
<1>9. HolderUntilCleared'
  <2>1. ASSUME NEW u \in Threads, u # t
        PROVE  /\ frame'[u].pc \in {"unlist", "clear_holder"} => holder'[frame'[u].lock] = u
               /\ frame'[u].pc = "up" /\ frame'[u].sema \in Locks
                    => holder'[frame'[u].sema] = NULL
    <3>1. frame[u].pc \in {"unlist", "clear_holder"}
             => frame[u].lock \in Locks /\ frame[u].lock # l
      BY <1>5, <2>1 DEF Ownership, HolderUntilCleared, FramesOK, FrameShape
    <3> QED
      BY <1>1, <1>2, <1>3, <2>1, <3>1 DEF Ownership, HolderUntilCleared, TypeOK, LockType
  <2>2. holder'[frame'[t].sema] = NULL
    BY <1>1, <1>2, <1>4 DEF TypeOK, LockType
  <2> QED
    BY <1>4, <2>1, <2>2 DEF HolderUntilCleared
<1> QED
  BY <1>7, <1>8, <1>9 DEF Ownership

LEMMA BroadcastNextOwnership ==
    ASSUME TypeOK, FramesOK, Ownership, NEW t \in Threads, BroadcastNext(t)
    PROVE  Ownership' /\ SameOwners
<1> DEFINE c == frame[t].cond
           f == [frame[t] EXCEPT !.pc = "up", !.sema = Signalled(c)]
<1>1. /\ frame[t] \in FrameType /\ c \in Conds /\ frame[t].pc = "broadcast"
      /\ UNCHANGED <<holder, value>>
  BY DEF BroadcastNext, At, TypeOK, ControlType, FramesOK, FrameShape, semaVars, lockVars
<1>2. ~ InTransit(frame[t])
  BY <1>1 DEF InTransit
<1>3. CASE cond_waiters[c] = <<>>
  BY <1>1, <1>2, <1>3, QuietReturn DEF BroadcastNext
<1>4. CASE cond_waiters[c] # <<>>
  <2>1. Signalled(c) \in Threads /\ frame' = [frame EXCEPT ![t] = f]
    BY <1>1, <1>4, SignalsOne DEF BroadcastNext
  <2>2. ~ InTransit(f)
    BY <1>1, <2>1, ObjectsAssumption DEF InTransit, FrameType
  <2> HIDE DEF f
  <2> QED
    BY <1>1, <1>2, <2>1, <2>2, QuietFrame
<1> QED
  BY <1>3, <1>4

LEMMA InterruptOwnership ==
    ASSUME TypeOK, Ownership, IdleStep \/ Tick \/ Handler \/ Device
    PROVE  Ownership' /\ SameOwners
<1>1. Idle \notin Threads /\ Idle \in Tasks
  BY ObjectsAssumption
<1>2. UNCHANGED holder
  BY DEF IdleStep, Tick, Handler, Device, DeviceSemaUp, synchVars, lockVars
<1>3. \A k \in Locks : value'[k] = value[k]
  BY ObjectsAssumption, SynchAssumption DEF IdleStep, Tick, Handler, Device, DeviceSemaUp,
     SemaRaise, synchVars, semaVars, TypeOK, SemaType, Semaphores
<1>4. \A u \in Threads : frame'[u] = frame[u]
  BY <1>1 DEF IdleStep, IdleBlock, Goto, Tick, TimerInterrupt, Handler, TimerWakeUp,
     TimerReturn, Device, DeviceSemaUp, AfterInterrupt, TypeOK, ControlType
<1> QED
  BY <1>2, <1>3, <1>4, QuietOwnership

LEMMA PlainStepOwnership ==
    ASSUME TypeOK, Ownership, NEW t \in Threads, SchedStep(t) \/ SleepStep(t)
    PROVE  Ownership' /\ SameOwners
<1>1. frame[t].pc \in {"create_unblock", "create_check", "sleep_insert", "sleep_blocked"}
  BY DEF SchedStep, CreateUnblock, CreateCheck, SleepStep, SleepInsert, SleepReturn, At
<1>2. ~ InTransit(frame[t])
  BY <1>1 DEF InTransit
<1>3. CASE SchedStep(t)
  BY <1>2, <1>3, QuietGoto, QuietReturn DEF SchedStep, CreateUnblock, CreateCheck, PCs,
     synchVars, semaVars, lockVars
<1>4. CASE SleepStep(t)
  BY <1>2, <1>4, QuietGoto, QuietReturn DEF SleepStep, SleepInsert, SleepReturn, PCs,
     synchVars, semaVars, lockVars
<1> QED
  BY <1>3, <1>4

\* Every step of the kernel keeps the ownership of locks.
LEMMA OwnershipStep ==
    ASSUME TypeOK, FramesOK, Ownership, GoneFromKernel, [Next]_vars
    PROVE  Ownership'
<1>1. ASSUME NEW t \in Threads, KernelStep(t) PROVE Ownership'
  BY <1>1, PlainStepOwnership, SemaDownOwnership, SemaUpOwnership, AcquireStepOwnership,
     TakeOwnership, UnlistOwnership, ClearHolderOwnership, BroadcastNextOwnership
     DEF KernelStep, SynchStep
<1>2. CASE UNCHANGED vars
  BY <1>2, QuietSame DEF vars, schedVars, synchVars, semaVars, lockVars
<1> QED
  BY <1>1, <1>2, CallOwnership, InterruptOwnership DEF Next, CPU, Halted

LEMMA InitOwnership == Init => Ownership
<1> SUFFICES ASSUME Init PROVE Ownership
  OBVIOUS
<1>1. \A t \in Threads : frame[t].pc = "user"
  BY ObjectsAssumption DEF Init, SchedInit, UserFrame, FrameAt
<1>2. \A t \in Threads, l \in Locks : ~ Owns(t, l)
  BY <1>1, ObjectsAssumption DEF Init, SynchInit, Owns
<1>3. \A l \in Locks : value[l] = 1
  BY DEF Init, SynchInit, Semaphores
<1> QED
  BY <1>1, <1>2, <1>3 DEF Ownership, OneOwner, UpWhenFree, HolderUntilCleared

-----------------------------------------------------------------------------
(* No step takes a thread that has gone into the kernel, or lets it run.   *)

\* Statuses that mark no more threads as gone than the present ones.
NoNewGone(st) ==
    /\ st \in [Tasks -> Statuses]
    /\ \A u \in Tasks : st[u] \in {"free", "dying"} => Gone(u)

LEMMA ScheduleGone ==
    ASSUME NEW list \in Seq(Threads), NEW st \in [Tasks -> Statuses], schedule(list, st)
    PROVE  /\ \A u \in Tasks : Gone(u)' => st[u] \in {"free", "dying"}
           /\ ~ Gone(cur)'
<1> DEFINE next == next_thread_to_run(list)
<1>1. next \in Tasks
  BY HeadTailProperties DEF next_thread_to_run
<1> HIDE DEF next
<1>2. \A u \in Tasks : status'[u] = IF u = next THEN "running"
                                    ELSE IF st[u] = "dying" /\ u # Main THEN "free" ELSE st[u]
  BY DEF schedule, next
<1>3. cur' = next
  BY DEF schedule, next
<1> QED
  BY <1>1, <1>2, <1>3 DEF Gone

LEMMA YieldGone ==
    ASSUME TypeOK, NEW list \in Seq(Threads), NEW st, NoNewGone(st),
           NEW pri \in [Tasks -> Priorities], thread_yield(list, st, pri)
    PROVE  (\A u \in Tasks : Gone(u)' => Gone(u)) /\ ~ Gone(cur)'
<1> DEFINE newlist == IF cur = Idle THEN list ELSE list_insert_ordered(list, cur, pri)
           newst == [st EXCEPT ![cur] = "ready"]
<1>1. \A t \in Threads : pri[t] \in Int
  BY NumbersAssumption
<1>2. newlist \in Seq(Threads)
  BY <1>1, InsertOrderedType DEF TypeOK, CPUType
<1>3. newst \in [Tasks -> Statuses]
  BY DEF NoNewGone, Statuses
<1>4. \A u \in Tasks : newst[u] \in {"free", "dying"} => Gone(u)
  BY DEF NoNewGone
<1>5. schedule(newlist, newst)
  BY DEF thread_yield
<1> HIDE DEF newlist, newst
<1> QED
  BY <1>2, <1>3, <1>4, <1>5, ScheduleGone

LEMMA KeepGone ==
    ASSUME TypeOK, GoneFromKernel, NEW list, NEW st, NoNewGone(st), KeepCPU(list, st)
    PROVE  (\A u \in Tasks : Gone(u)' => Gone(u)) /\ ~ Gone(cur)'
BY DEF KeepCPU, NoNewGone, Gone, GoneFromKernel, TypeOK, CPUType

LEMMA CheckGone ==
    ASSUME TypeOK, GoneFromKernel, NEW list \in Seq(Threads), NEW st, NoNewGone(st),
           NEW pri \in [Tasks -> Priorities], thread_check_priority(list, st, pri)
    PROVE  (\A u \in Tasks : Gone(u)' => Gone(u)) /\ ~ Gone(cur)'
BY YieldGone, KeepGone DEF thread_check_priority

LEMMA StatusGone ==
    ASSUME TypeOK
    PROVE  NoNewGone(status) /\ \A t \in Threads : NoNewGone(UnblockedStatus(t))
BY DEF NoNewGone, UnblockedStatus, Gone, TypeOK, CPUType, Statuses

LEMMA BlockGone ==
    ASSUME TypeOK, thread_block
    PROVE  (\A u \in Tasks : Gone(u)' => Gone(u)) /\ ~ Gone(cur)'
<1> DEFINE st == [status EXCEPT ![cur] = "blocked"]
<1>1. st \in [Tasks -> Statuses]
  BY DEF TypeOK, CPUType, Statuses
<1>2. \A u \in Tasks : st[u] \in {"free", "dying"} => Gone(u)
  BY DEF Gone, TypeOK, CPUType
<1>3. schedule(ready_list, st)
  BY DEF thread_block
<1> HIDE DEF st
<1> QED
  BY <1>1, <1>2, <1>3, ScheduleGone DEF TypeOK, CPUType

LEMMA WokenGone ==
    ASSUME TypeOK, NEW s \in Semaphores
    PROVE  NoNewGone(WokenStatus(s))
<1>1. Wakes(s) => FirstWaiter(s) \in Threads
  BY WaitersType DEF Wakes, TypeOK
<1> QED
  BY <1>1, StatusGone DEF WokenStatus

\* A step of the running thread, or an interrupt.
LEMMA GoneKept ==
    ASSUME GoneFromKernel, \A u \in Tasks : Gone(u)' => Gone(u), ~ Gone(cur)',
           \A u \in Threads : \/ frame'[u] = frame[u] \/ u = cur
                              \/ frame'[u].pc = "user"
    PROVE  GoneFromKernel'
BY DEF GoneFromKernel

LEMMA SameGone ==
    ASSUME GoneFromKernel, UNCHANGED <<status, cur>>
    PROVE  (\A u \in Tasks : Gone(u)' => Gone(u)) /\ ~ Gone(cur)'
BY DEF Gone, GoneFromKernel

\* The statuses a client's call leaves; thread_exit() is the one that ends.
LEMMA CallStatus ==
    ASSUME TypeOK, GoneFromKernel, NEW t \in Threads, ClientCall(t)
    PROVE  /\ ~ Gone(cur)'
           /\ \A u \in Tasks : Gone(u)' => Gone(u) \/ (CallExit(t) /\ u = t)
<1>1. CASE CallExit(t)
  <2> DEFINE st == [status EXCEPT ![t] = "dying"]
  <2>1. st \in [Tasks -> Statuses]
    BY DEF TypeOK, CPUType, Statuses
  <2>2. \A u \in Tasks : st[u] \in {"free", "dying"} => Gone(u) \/ u = t
    BY DEF Gone, TypeOK, CPUType
  <2>3. schedule(ready_list, st)
    BY <1>1 DEF CallExit, ThreadExit
  <2> HIDE DEF st
  <2>4. (\A u \in Tasks : Gone(u)' => Gone(u) \/ u = t) /\ ~ Gone(cur)'
    BY <2>1, <2>2, <2>3, ScheduleGone DEF TypeOK, CPUType
  <2> QED
    BY <1>1, <2>4
<1>2. CASE CallYield(t)
  BY <1>2, YieldGone, StatusGone DEF CallYield, ThreadYield, TypeOK, CPUType, PriorityType
<1>3. CASE CallSetPriority(t)
  <2>1. PICK new \in NewPriorities : ThreadSetPriority(t, new)
    BY <1>3 DEF CallSetPriority
  <2>2. [priority EXCEPT ![t] = new] \in [Tasks -> Priorities]
    BY ClientAssumption DEF TypeOK, PriorityType
  <2>3. CASE SetsEffective(t, new)
    BY <2>1, <2>2, <2>3, CheckGone, StatusGone DEF ThreadSetPriority, TypeOK, CPUType
  <2>4. CASE ~ SetsEffective(t, new)
    BY <2>1, <2>4, SameGone DEF ThreadSetPriority, cpuVars
  <2> QED
    BY <2>3, <2>4
<1>4. CASE CallCreate(t)
  <2>1. PICK child \in Threads, pri \in NewPriorities : ThreadCreate(t, child, pri)
    BY <1>4 DEF CallCreate
  <2> QED
    BY <2>1 DEF ThreadCreate, Gone, GoneFromKernel, TypeOK, CPUType
<1>5. CASE \/ CallSleep(t) \/ CallSemaDown(t) \/ CallSemaUp(t) \/ CallSemaTryDown(t)
           \/ CallAcquire(t) \/ CallTryAcquire(t) \/ CallRelease(t)
           \/ CallCondWait(t) \/ CallCondSignal(t) \/ CallCondBroadcast(t)
  <2>1. UNCHANGED <<status, cur>>
    BY <1>5 DEF CallSleep, CallSemaDown, CallSemaUp, CallSemaTryDown, CallAcquire,
       CallTryAcquire, CallRelease, CallCondWait, CallCondSignal, CallCondBroadcast,
       TimerSleep, SemaCall, SemaTryDown, LockAcquire, LockTryAcquire, LockRelease,
       CondWait, CondSignal, CondBroadcast, schedVars, cpuVars
  <2> QED
    BY <2>1, SameGone
<1> QED
  BY <1>1, <1>2, <1>3, <1>4, <1>5, SMTT(30) DEF ClientCall

\* Nobody else's frame changes but that of a child, which starts at its function.
LEMMA CallFrames ==
    ASSUME TypeOK, NEW t \in Threads, ClientCall(t)
    PROVE  /\ cur = t /\ frame[t].pc = "user"
           /\ \A u \in Threads : \/ u = t \/ frame'[u] = frame[u]
                                 \/ /\ status[u] = "free"
                                    /\ frame'[u] = UserFrame /\ frame'[u].pc = "user"
<1>1. cur = t /\ frame[t].pc = "user"
  BY DEF ClientCall, CallYield, CallSetPriority, CallCreate, CallSleep, CallExit,
     CallSemaDown, CallSemaUp, CallSemaTryDown, CallAcquire, CallTryAcquire, CallRelease,
     CallCondWait, CallCondSignal, CallCondBroadcast, ThreadYield, ThreadSetPriority,
     ThreadCreate, TimerSleep, ThreadExit, SemaCall, SemaTryDown, LockAcquire,
     LockTryAcquire, LockRelease, CondWait, CondSignal, CondBroadcast, At
<1>2. CASE CallCreate(t)
  <2>1. PICK child \in Threads, pri \in NewPriorities : ThreadCreate(t, child, pri)
    BY <1>2 DEF CallCreate
  <2>2. UserFrame.pc = "user"
    BY DEF UserFrame, FrameAt
  <2>3. \A u \in Threads : u # t => frame'[u] = frame[u] \/ (u = child /\ frame'[u] = UserFrame)
    BY <2>1 DEF ThreadCreate, TypeOK, ControlType
  <2> QED
    BY <1>1, <2>1, <2>2, <2>3 DEF ThreadCreate
<1>3. CASE CallYield(t) \/ CallSetPriority(t) \/ CallExit(t) \/ CallSemaTryDown(t)
  BY <1>1, <1>3 DEF CallYield, CallSetPriority, CallExit, CallSemaTryDown, ThreadYield,
     ThreadSetPriority, ThreadExit, SemaTryDown, schedVars
<1>4. CASE \/ CallSleep(t) \/ CallSemaDown(t) \/ CallSemaUp(t)
           \/ CallAcquire(t) \/ CallTryAcquire(t) \/ CallRelease(t)
           \/ CallCondWait(t) \/ CallCondSignal(t) \/ CallCondBroadcast(t)
  BY <1>1, <1>4 DEF CallSleep, CallSemaDown, CallSemaUp, CallAcquire,
     CallTryAcquire, CallRelease, CallCondWait, CallCondSignal, CallCondBroadcast,
     TimerSleep, SemaCall, LockAcquire, LockTryAcquire, LockRelease,
     CondWait, CondSignal, CondBroadcast, SignalFirst, Goto, TypeOK, ControlType
<1> QED
  BY <1>1, <1>2, <1>3, <1>4, SMTT(30) DEF ClientCall

LEMMA CallGone ==
    ASSUME TypeOK, GoneFromKernel, NEW t \in Threads, ClientCall(t)
    PROVE  GoneFromKernel'
<1>1. ~ Gone(cur)' /\ \A u \in Tasks : Gone(u)' => Gone(u) \/ (CallExit(t) /\ u = t)
  BY CallStatus
<1>2. /\ cur = t /\ frame[t].pc = "user"
      /\ \A u \in Threads : frame'[u] = frame[u] \/ u = t \/ frame'[u].pc = "user"
  BY CallFrames
<1>3. CASE CallExit(t)
  <2>1. UNCHANGED frame
    BY <1>3 DEF CallExit, ThreadExit
  <2> QED
    BY <1>1, <1>2, <2>1 DEF GoneFromKernel
<1>4. CASE ~ CallExit(t)
  BY <1>1, <1>2, <1>4, GoneKept
<1> QED
  BY <1>3, <1>4

LEMMA StepStatus ==
    ASSUME TypeOK, FramesOK, GoneFromKernel, NEW t \in Threads, KernelStep(t)
    PROVE  (\A u \in Tasks : Gone(u)' => Gone(u)) /\ ~ Gone(cur)'
<1>1. CASE CreateUnblock(t)
  <2>1. frame[t].child \in Threads
    BY <1>1 DEF CreateUnblock, At, FramesOK, FrameShape
  <2> QED
    BY <1>1, <2>1, StatusGone, KeepGone DEF CreateUnblock
<1>2. CASE CreateCheck(t)
  BY <1>2, StatusGone, CheckGone DEF CreateCheck, TypeOK, CPUType, PriorityType
<1>3. CASE SleepInsert(t)
  BY <1>3, BlockGone DEF SleepInsert
<1>4. CASE SemaDown(t)
  BY <1>4, BlockGone, SameGone DEF SemaDown, SemaDownWait, SemaDownTake, cpuVars
<1>5. CASE SemaUp(t)
  <2> DEFINE s == frame[t].sema
  <2>1. s \in Semaphores
    BY <1>5 DEF SemaUp, At, FramesOK, FrameShape
  <2>2. SemaRaise(s) /\ thread_check_priority(WokenList(s), WokenStatus(s), priority)
    BY <1>5 DEF SemaUp
  <2> HIDE DEF s
  <2>3. WokenList(s) \in Seq(Threads)
    BY <2>1, <2>2, SemaRaiseType DEF TypeOK
  <2>4. NoNewGone(WokenStatus(s))
    BY <2>1, WokenGone
  <2> QED
    BY <2>2, <2>3, <2>4, CheckGone DEF TypeOK, PriorityType
<1>6. CASE \/ SleepReturn(t) \/ CheckHolder(t) \/ MarkWaiting(t) \/ Donate(t)
           \/ DonateStop(t) \/ Take(t) \/ TryTake(t) \/ Unlist(t) \/ ClearHolder(t)
           \/ BroadcastNext(t)
  <2>1. UNCHANGED <<status, cur>>
    BY <1>6 DEF SleepReturn, CheckHolder, MarkWaiting, Donate, DonateStep, DonateStop,
       Take, TryTake, Unlist, ClearHolder, BroadcastNext, Crash, cpuVars
  <2> QED
    BY <2>1, SameGone
<1> QED
  BY <1>1, <1>2, <1>3, <1>4, <1>5, <1>6 DEF KernelStep, SchedStep, SleepStep, SynchStep

LEMMA StepFrames ==
    ASSUME TypeOK, NEW t \in Threads, KernelStep(t)
    PROVE  cur = t /\ \A u \in Threads : u # t => frame'[u] = frame[u]
<1>1. cur = t
  BY SMTT(30) DEF KernelStep, SchedStep, SleepStep, SynchStep, CreateUnblock, CreateCheck,
     SleepInsert, SleepReturn, SemaDown, SemaUp, CheckHolder, MarkWaiting, Donate,
     DonateStop, Take, TryTake, Unlist, ClearHolder, BroadcastNext, At
<1>2. \A u \in Threads : u # t => frame'[u] = frame[u]
  BY DEF KernelStep, SchedStep, SleepStep, SynchStep, CreateUnblock, CreateCheck,
     SleepInsert, SleepReturn, SemaDown, SemaDownWait, SemaDownTake, SemaUp, CheckHolder,
     MarkWaiting, Donate, DonateStep, DonateStop, Take, TryTake, Unlist, ClearHolder,
     BroadcastNext, SignalFirst, Goto, ReturnToUser, Crash, TypeOK, ControlType
<1> QED
  BY <1>1, <1>2

LEMMA KernelStepGone ==
    ASSUME TypeOK, FramesOK, GoneFromKernel, NEW t \in Threads, KernelStep(t)
    PROVE  GoneFromKernel'
BY StepStatus, StepFrames, GoneKept

LEMMA InterruptStatus ==
    ASSUME TypeOK, GoneFromKernel, IdleStep \/ Tick \/ Handler \/ Device
    PROVE  (\A u \in Tasks : Gone(u)' => Gone(u)) /\ ~ Gone(cur)'
<1>1. CASE IdleStep
  BY <1>1, BlockGone DEF IdleStep, IdleBlock
<1>2. CASE Tick
  BY <1>2, SameGone DEF Tick, TimerInterrupt, cpuVars
<1>3. CASE TimerWakeUp
  <2>1. Last(wait_list) \in Threads
    BY <1>3, FrontLastType DEF TimerWakeUp, Due, TypeOK, AlarmType
  <2> QED
    BY <1>3, <2>1, StatusGone, KeepGone DEF TimerWakeUp
<1>4. CASE TimerReturn
  <2>1. CASE SliceOver \/ Outranked(ready_list, priority)
    BY <1>4, <2>1, StatusGone, YieldGone DEF TimerReturn, TypeOK, CPUType, PriorityType
  <2>2. CASE ~ (SliceOver \/ Outranked(ready_list, priority))
    BY <1>4, <2>2, SameGone DEF TimerReturn
  <2> QED
    BY <2>1, <2>2
<1>5. CASE Device
  <2>1. PICK s \in DeviceSemas : DeviceSemaUp(s)
    BY <1>5 DEF Device
  <2>2. NoNewGone(WokenStatus(s))
    BY WokenGone, SynchAssumption DEF Semaphores
  <2> QED
    BY <2>1, <2>2, KeepGone DEF DeviceSemaUp
<1> QED
  BY <1>1, <1>2, <1>3, <1>4, <1>5 DEF Handler

LEMMA InterruptFrames ==
    ASSUME TypeOK, IdleStep \/ Tick \/ Handler \/ Device
    PROVE  \A u \in Threads : frame'[u] = frame[u]
BY ObjectsAssumption DEF IdleStep, IdleBlock, Goto, Tick, TimerInterrupt, Handler,
   TimerWakeUp, TimerReturn, Device, DeviceSemaUp, AfterInterrupt, TypeOK, ControlType

LEMMA InterruptGone ==
    ASSUME TypeOK, GoneFromKernel, IdleStep \/ Tick \/ Handler \/ Device
    PROVE  GoneFromKernel'
BY InterruptStatus, InterruptFrames, GoneKept

LEMMA GoneStep ==
    ASSUME TypeOK, FramesOK, GoneFromKernel, [Next]_vars
    PROVE  GoneFromKernel'
<1>1. CASE UNCHANGED vars
  BY <1>1 DEF vars, schedVars, cpuVars, GoneFromKernel, Gone
<1> QED
  BY <1>1, CallGone, KernelStepGone, InterruptGone DEF Next, CPU, Halted

LEMMA InitGone == Init => GoneFromKernel
<1> SUFFICES ASSUME Init PROVE GoneFromKernel
  OBVIOUS
<1>1. \A t \in Threads : frame[t].pc = "user"
  BY ObjectsAssumption DEF Init, SchedInit, UserFrame, FrameAt
<1>2. status[cur] = "running"
  BY ObjectsAssumption DEF Init, SchedInit
<1> QED
  BY <1>1, <1>2 DEF GoneFromKernel, Gone

-----------------------------------------------------------------------------
(* The results.                                                            *)

\* KernelInv holds in every state that the kernel reaches.
THEOREM KernelInvHolds ==
    Spec => []KernelInv
<1>1. Init => KernelInv
  BY InitTypeOK, InitFrames, InitOwnership, InitGone DEF KernelInv
<1>2. KernelInv /\ [Next]_vars => KernelInv'
  <2> SUFFICES ASSUME KernelInv, [Next]_vars PROVE KernelInv'
    OBVIOUS
  <2>1. TypeOK'
    BY TypeStep DEF KernelInv, Ownership
  <2>2. FramesOK'
    BY FramesStep DEF KernelInv
  <2>3. Ownership'
    BY OwnershipStep DEF KernelInv
  <2>4. GoneFromKernel'
    BY GoneStep DEF KernelInv
  <2> QED
    BY <2>1, <2>2, <2>3, <2>4 DEF KernelInv
<1> QED
  BY <1>1, <1>2, PTL DEF Spec

\* The state of the scheduler, the alarm clock, the semaphores, locks and
\* conditions keeps its types; in particular no priority that lock_release()
\* computes, from the word in front of an empty list of waiters even, leaves
\* PRI_MIN..PRI_MAX, and no list ever holds the idle thread or a NULL.
THEOREM KernelTypes == Spec => []TypeOK
BY KernelInvHolds, PTL DEF KernelInv

\* The semaphore of a lock is worth one, less the one thread that is between
\* taking it and giving it back, at every step of lock_acquire(),
\* lock_try_acquire(), lock_release(), cond_wait() and allocate_tid().
THEOREM LocksAddUp == Spec => []LockAccounting
<1>1. KernelInv => LockAccounting
  <2> SUFFICES ASSUME KernelInv, NEW l \in Locks
               PROVE  value[l] + Cardinality(Owners(l)) = 1
    BY DEF LockAccounting
  <2>1. CASE \E t \in Threads : Owns(t, l)
    <3>1. PICK t \in Threads : Owns(t, l)
      BY <2>1
    <3>2. Owners(l) = {t}
      BY <3>1 DEF Owners, KernelInv, Ownership, OneOwner
    <3>3. Cardinality(Owners(l)) = 1
      BY <3>2, FS_Singleton
    <3>4. value[l] = 0
      BY <2>1 DEF KernelInv, Ownership, UpWhenFree
    <3> QED
      BY <3>3, <3>4
  <2>2. CASE ~ \E t \in Threads : Owns(t, l)
    <3>1. Owners(l) = {}
      BY <2>2 DEF Owners
    <3>2. Cardinality(Owners(l)) = 0
      BY <3>1, FS_EmptySet
    <3>3. value[l] = 1
      BY <2>2 DEF KernelInv, Ownership, UpWhenFree
    <3> QED
      BY <3>2, <3>3
  <2> QED
    BY <2>1, <2>2
<1> QED
  BY <1>1, KernelInvHolds, PTL

-----------------------------------------------------------------------------
(***************************************************************************)
(* The locks of the threads kernel implement the safety part of Mutex, for *)
(* any number of threads and locks: every step of the kernel is a step of  *)
(* Mutex or leaves its variables alone.                                    *)
(***************************************************************************)

(* The abstract variables, and the steps of Mutex in terms of Owns, what   *)
(* each thread is asking for, and fault.                                   *)

\* The frame is in lock_acquire() before it has the semaphore.
Asking(f) ==
    \/ f.pc \in {"check_holder", "mark_waiting", "donate"}
    \/ f.pc \in {"down", "down_blocked"} /\ f.sema \in Locks

WantedOf(f) == IF Asking(f) THEN f.lock ELSE NULL

\* Mutex's variables in these terms.
Mapped ==
    /\ \A t \in Threads : Wanted(t) = WantedOf(frame[t]) /\ Wanted(t) \in Locks \union {NULL}
    /\ \A l \in Locks : OwnerOf(l) \in Threads \union {NULL}
    /\ \A l \in Locks, t \in Threads : OwnerOf(l) = t <=> Owns(t, l)

LEMMA MappedHolds == KernelInv => Mapped
<1> SUFFICES ASSUME KernelInv PROVE Mapped
  OBVIOUS
<1>1. ASSUME NEW t \in Threads
      PROVE  Wanted(t) = WantedOf(frame[t]) /\ Wanted(t) \in Locks \union {NULL}
  <2>1. FrameShape(frame[t])
    BY DEF KernelInv, FramesOK
  <2>2. Asking(frame[t]) => frame[t].lock \in Locks /\ Acquiring(t, frame[t].lock)
    BY <2>1 DEF FrameShape, Asking, Acquiring
  <2>3. ASSUME NEW l \in Locks, Acquiring(t, l) PROVE Asking(frame[t])
    BY <2>3 DEF Asking, Acquiring
  <2>4. CASE Asking(frame[t])
    BY <2>2, <2>4 DEF Wanted, WantedOf
  <2>5. CASE ~ Asking(frame[t])
    BY <2>3, <2>5 DEF Wanted, WantedOf
  <2> QED
    BY <2>4, <2>5
<1>2. ASSUME NEW l \in Locks
      PROVE  /\ OwnerOf(l) \in Threads \union {NULL}
             /\ \A t \in Threads : OwnerOf(l) = t <=> Owns(t, l)
  <2>1. NULL \notin Threads
    BY ObjectsAssumption
  <2>2. CASE \E t \in Threads : Owns(t, l)
    <3>1. Owners(l) # {}
      BY <2>2 DEF Owners
    <3>2. OwnerOf(l) \in Threads /\ Owns(OwnerOf(l), l)
      BY <2>2, <3>1 DEF OwnerOf
    <3> QED
      BY <3>2 DEF KernelInv, Ownership, OneOwner
  <2>3. CASE \A t \in Threads : ~ Owns(t, l)
    <3>1. OwnerOf(l) = NULL
      BY <2>3 DEF OwnerOf, Owners
    <3> QED
      BY <2>1, <2>3, <3>1
  <2> QED
    BY <2>2, <2>3
<1> QED
  BY <1>1, <1>2 DEF Mapped

\* Nobody comes to want another lock.
SameWants == \A u \in Threads : WantedOf(frame'[u]) = WantedOf(frame[u])

\* t comes to want l, and only t changes.
WantsNow(t, l) ==
    /\ WantedOf(frame'[t]) = l
    /\ \A u \in Threads : u # t => WantedOf(frame'[u]) = WantedOf(frame[u])

LEMMA SameMap ==
    ASSUME Mapped, Mapped'
    PROVE  /\ SameWants => \A t \in Threads : Wanted(t)' = Wanted(t)
           /\ SameOwners => \A l \in Locks : OwnerOf(l)' = OwnerOf(l)
<1>1. SameWants => \A t \in Threads : Wanted(t)' = Wanted(t)
  BY DEF Mapped, SameWants
<1>2. ASSUME SameOwners, NEW l \in Locks PROVE OwnerOf(l)' = OwnerOf(l)
  <2>1. OwnerOf(l)' \in Threads \union {NULL} /\ OwnerOf(l) \in Threads \union {NULL}
    BY DEF Mapped
  <2>2. \A t \in Threads : OwnerOf(l)' = t <=> OwnerOf(l) = t
    BY <1>2 DEF Mapped, SameOwners
  <2> QED
    BY <2>1, <2>2
<1> QED
  BY <1>1, <1>2

\* A step that gives and asks for nothing, though it may stop the kernel.
LEMMA QuietStep ==
    ASSUME Mapped, Mapped', SameOwners, SameWants, fault' = fault \/ fault = "none"
    PROVE  [Abstract!Next]_(Abstract!vars)
<1>1. \A t \in Threads : Wanted(t)' = Wanted(t)
  BY SameMap
<1>2. \A l \in Locks : OwnerOf(l)' = OwnerOf(l)
  BY SameMap
<1>3. CASE fault' = fault
  BY <1>1, <1>2, <1>3 DEF Abstract!vars
<1>4. CASE fault' # fault /\ fault = "none"
  BY <1>1, <1>2, <1>4 DEF Abstract!Next, Abstract!Stop
<1> QED
  BY <1>3, <1>4

\* A step that begins to ask for a lock.
LEMMA RequestStep ==
    ASSUME Mapped, Mapped', NEW t \in Threads, NEW l \in Locks,
           SameOwners, WantsNow(t, l), WantedOf(frame[t]) = NULL, ~ Owns(t, l),
           fault = "none", fault' = fault
    PROVE  Abstract!Next
<1>1. [u \in Threads |-> Wanted(u)'] = [[u \in Threads |-> Wanted(u)] EXCEPT ![t] = l]
  <2>1. Wanted(t)' = l
    BY DEF Mapped, WantsNow
  <2>2. \A u \in Threads : u # t => Wanted(u)' = Wanted(u)
    BY DEF Mapped, WantsNow
  <2> QED
    BY <2>1, <2>2
<1>2. \A k \in Locks : OwnerOf(k)' = OwnerOf(k)
  BY SameMap
<1>3. Wanted(t) = NULL /\ OwnerOf(l) # t
  BY DEF Mapped
<1>4. Abstract!Request(t, l)
  BY <1>1, <1>2, <1>3 DEF Abstract!Request
<1> QED
  BY <1>4 DEF Abstract!Next

LEMMA GivenMap ==
    ASSUME Mapped, Mapped', NEW t \in Threads, NEW l \in Locks,
           GivenTo(t, l), \A u \in Threads : ~ Owns(u, l)
    PROVE  /\ OwnerOf(l) = NULL
           /\ [k \in Locks |-> OwnerOf(k)'] = [[k \in Locks |-> OwnerOf(k)] EXCEPT ![l] = t]
<1>1. OwnerOf(l) = NULL
  BY DEF Mapped
<1>2. OwnerOf(l)' = t
  BY DEF Mapped, GivenTo
<1>3. ASSUME NEW k \in Locks, k # l PROVE OwnerOf(k)' = OwnerOf(k)
  <2>1. OwnerOf(k)' \in Threads \union {NULL} /\ OwnerOf(k) \in Threads \union {NULL}
    BY DEF Mapped
  <2>2. \A u \in Threads : OwnerOf(k)' = u <=> OwnerOf(k) = u
    BY <1>3 DEF Mapped, GivenTo
  <2> QED
    BY <2>1, <2>2
<1> QED
  BY <1>1, <1>2, <1>3

\* sema_down() of a lock's semaphore succeeds.
LEMMA GrantStep ==
    ASSUME Mapped, Mapped', NEW t \in Threads, NEW l \in Locks,
           GivenTo(t, l), \A u \in Threads : ~ Owns(u, l),
           WantedOf(frame[t]) = l, WantsNow(t, NULL),
           fault = "none", fault' = fault
    PROVE  Abstract!Next
<1>1. [u \in Threads |-> Wanted(u)'] = [[u \in Threads |-> Wanted(u)] EXCEPT ![t] = NULL]
  <2>1. Wanted(t)' = NULL
    BY DEF Mapped, WantsNow
  <2>2. \A u \in Threads : u # t => Wanted(u)' = Wanted(u)
    BY DEF Mapped, WantsNow
  <2> QED
    BY <2>1, <2>2
<1>2. /\ OwnerOf(l) = NULL
      /\ [k \in Locks |-> OwnerOf(k)'] = [[k \in Locks |-> OwnerOf(k)] EXCEPT ![l] = t]
  BY GivenMap
<1>3. Wanted(t) = l /\ l # NULL
  BY ObjectsAssumption DEF Mapped, Semaphores
<1>4. Abstract!Grant(t)
  BY <1>1, <1>2, <1>3 DEF Abstract!Grant, Abstract!Give
<1> QED
  BY <1>4 DEF Abstract!Next

\* lock_try_acquire() succeeds.
LEMMA TryGrantStep ==
    ASSUME Mapped, Mapped', NEW t \in Threads, NEW l \in Locks,
           GivenTo(t, l), \A u \in Threads : ~ Owns(u, l),
           WantedOf(frame[t]) = NULL, SameWants,
           fault = "none", fault' = fault
    PROVE  Abstract!Next
<1>1. \A u \in Threads : Wanted(u)' = Wanted(u)
  BY SameMap
<1>2. /\ OwnerOf(l) = NULL
      /\ [k \in Locks |-> OwnerOf(k)'] = [[k \in Locks |-> OwnerOf(k)] EXCEPT ![l] = t]
  BY GivenMap
<1>3. Wanted(t) = NULL
  BY DEF Mapped
<1>4. Abstract!TryGrant(t, l)
  BY <1>1, <1>2, <1>3 DEF Abstract!TryGrant, Abstract!Give
<1> QED
  BY <1>4 DEF Abstract!Next

\* sema_up() in lock_release().
LEMMA ReleaseStep ==
    ASSUME Mapped, Mapped', NEW t \in Threads, NEW l \in Locks,
           TakenFrom(t, l), Owns(t, l),
           WantedOf(frame[t]) = NULL, SameWants,
           fault = "none", fault' = fault
    PROVE  Abstract!Next
<1>1. \A u \in Threads : Wanted(u)' = Wanted(u)
  BY SameMap
<1>2. OwnerOf(l) = t
  BY DEF Mapped
<1>3. ASSUME NEW k \in Locks, k # l PROVE OwnerOf(k)' = OwnerOf(k)
  <2>1. OwnerOf(k)' \in Threads \union {NULL} /\ OwnerOf(k) \in Threads \union {NULL}
    BY DEF Mapped
  <2>2. \A u \in Threads : OwnerOf(k)' = u <=> OwnerOf(k) = u
    BY <1>3 DEF Mapped, TakenFrom
  <2> QED
    BY <2>1, <2>2
<1>4. OwnerOf(l)' = NULL
  <2>1. \A u \in Threads : ~ Owns(u, l)'
    BY <1>2 DEF Mapped, TakenFrom
  <2> QED
    BY <2>1 DEF Mapped
<1>5. [k \in Locks |-> OwnerOf(k)'] = [[k \in Locks |-> OwnerOf(k)] EXCEPT ![l] = NULL]
  BY <1>3, <1>4
<1>6. Wanted(t) = NULL
  BY DEF Mapped
<1>7. Abstract!Release(t, l)
  BY <1>1, <1>2, <1>5, <1>6 DEF Abstract!Release
<1> QED
  BY <1>7 DEF Abstract!Next
-----------------------------------------------------------------------------
(* Each action of the kernel, as a step of Mutex that keeps CallsOK.       *)

\* The running thread's step, others' frames left alone and no lock's holder
\* set to another thread.
LEMMA CallsKept ==
    ASSUME KernelInv, CallsOK, NEW t \in Threads, CallOK(t)',
           \A u \in Threads : u # t => frame'[u] = frame[u],
           \A u \in Threads, l \in Locks : u # t /\ holder'[l] = u => holder[l] = u
    PROVE  CallsOK'
<1>1. ASSUME NEW u \in Threads, u # t PROVE CallOK(u)'
  <2>1. CallOK(u) /\ FrameShape(frame[u]) /\ frame'[u] = frame[u]
    BY <1>1 DEF CallsOK, KernelInv, FramesOK
  <2>2. holder'[TidLock] = u => holder[TidLock] = u
    BY <1>1, ObjectsAssumption
  <2>3. frame[u].pc \in {"down", "down_blocked"} /\ frame[u].sema \in Threads
          => holder'[frame[u].lock] # u
    BY <1>1, <2>1 DEF CallOK, FrameShape
  <2> QED
    BY <2>1, <2>2, <2>3 DEF CallOK
<1> QED
  BY <1>1 DEF CallsOK

LEMMA PlainStep ==
    ASSUME KernelInv, CallsOK, Mapped, Mapped', NEW t \in Threads,
           UNCHANGED holder, SameOwners, fault' = fault \/ fault = "none",
           \A u \in Threads : u # t => frame'[u] = frame[u],
           CallOK(t)', WantedOf(frame'[t]) = WantedOf(frame[t])
    PROVE  CallsOK' /\ [Abstract!Next]_(Abstract!vars)
<1>1. CallsOK'
  BY CallsKept
<1>2. SameWants
  BY DEF SameWants
<1> QED
  BY <1>1, <1>2, QuietStep

\* A thread in user code.
LEMMA InUser ==
    ASSUME KernelInv, CallsOK, NEW t \in Threads, frame[t].pc = "user"
    PROVE  /\ frame[t] \in FrameType
           /\ frame[t].op = "none" /\ frame[t].lock # TidLock
           /\ holder[TidLock] # t
           /\ WantedOf(frame[t]) = NULL
           /\ \A l \in Locks : Owns(t, l) <=> holder[l] = t
<1>1. CallOK(t)
  BY DEF CallsOK
<1> QED
  BY <1>1 DEF CallOK, CallShape, WantedOf, Asking, Owns, KernelInv, TypeOK, ControlType

LEMMA UserFrameFields ==
    /\ UserFrame.pc = "user" /\ UserFrame.op = "none"
    /\ UserFrame.lock = NULL /\ UserFrame.sema = NULL
    /\ NULL # TidLock
BY ObjectsAssumption DEF UserFrame, FrameAt, Semaphores

LEMMA LockFrameFields ==
    \A pc, l : /\ LockFrame(pc, l).pc = pc /\ LockFrame(pc, l).op = "none"
               /\ LockFrame(pc, l).lock = l /\ LockFrame(pc, l).sema = NULL
BY DEF LockFrame, UserFrame, FrameAt

\* Calls that only move the caller's frame.
LEMMA MovingCallStep ==
    ASSUME KernelInv, CallsOK, Mapped, Mapped', NEW t \in Threads, frame[t].pc = "user",
           UNCHANGED <<holder, fault>>, SameOwners,
           \A u \in Threads : u # t => frame'[u] = frame[u],
           frame'[t].op \in {"none", "cond_wait", "cond_broadcast"},
           frame'[t].lock # TidLock,
           frame'[t].pc \notin {"user", "check_holder", "mark_waiting", "donate"},
           frame'[t].pc = "broadcast" => frame'[t].op = "cond_broadcast",
           frame'[t].pc = "up" => frame'[t].op = "none",
           frame'[t].pc \in {"down", "down_blocked"} =>
               frame'[t].sema \notin Locks /\ frame'[t].sema \notin Threads
    PROVE  CallsOK' /\ [Abstract!Next]_(Abstract!vars)
<1>1. holder[TidLock] # t /\ WantedOf(frame[t]) = NULL
  BY InUser
<1>2. CallOK(t)'
  BY <1>1 DEF CallOK, CallShape
<1>3. WantedOf(frame'[t]) = NULL
  BY DEF WantedOf, Asking
<1> QED
  BY <1>1, <1>2, <1>3, PlainStep

LEMMA CallStep ==
    ASSUME KernelInv, CallsOK, Mapped, Mapped', NEW t \in Threads, ClientCall(t)
    PROVE  CallsOK' /\ [Abstract!Next]_(Abstract!vars)
<1>1. fault = "none" /\ cur = t /\ frame[t].pc = "user"
  BY DEF ClientCall, CallYield, CallSetPriority, CallCreate, CallSleep, CallExit,
     CallSemaDown, CallSemaUp, CallSemaTryDown, CallAcquire, CallTryAcquire, CallRelease,
     CallCondWait, CallCondSignal, CallCondBroadcast, ThreadYield, ThreadSetPriority,
     ThreadCreate, TimerSleep, ThreadExit, SemaCall, SemaTryDown, LockAcquire,
     LockTryAcquire, LockRelease, CondWait, CondSignal, CondBroadcast, At
<1>2. UNCHANGED <<holder, fault>>
  BY DEF ClientCall, CallYield, CallSetPriority, CallCreate, CallSleep, CallExit,
     CallSemaDown, CallSemaUp, CallSemaTryDown, CallAcquire, CallTryAcquire, CallRelease,
     CallCondWait, CallCondSignal, CallCondBroadcast, ThreadYield, ThreadSetPriority,
     ThreadCreate, TimerSleep, ThreadExit, SemaCall, SemaTryDown, LockAcquire,
     LockTryAcquire, LockRelease, CondWait, CondSignal, CondBroadcast,
     synchVars, lockVars, schedVars
<1>3. CallTryAcquire(t) \/ SameOwners
  BY CallOwnership DEF KernelInv
<1>4. /\ frame[t] \in FrameType /\ frame[t].op = "none" /\ frame[t].lock # TidLock
      /\ holder[TidLock] # t /\ WantedOf(frame[t]) = NULL
      /\ \A l \in Locks : Owns(t, l) <=> holder[l] = t
  BY <1>1, InUser
<1>5. frame \in [Tasks -> FrameType]
  BY DEF KernelInv, TypeOK, ControlType
<1>6. CASE CallTryAcquire(t)
  <2>1. PICK l \in Locks \ {TidLock} : LockTryAcquire(t, l)
    BY <1>6 DEF CallTryAcquire, ClientLocks
  <2>2. value[l] = 1 /\ GivenTo(t, l)
    BY <2>1, TryAcquireOwnership DEF KernelInv
  <2>3. \A u \in Threads : ~ Owns(u, l)
    BY <2>2 DEF KernelInv, Ownership, UpWhenFree
  <2>4. /\ frame'[t] = LockFrame("try_take", l)
        /\ \A u \in Threads : u # t => frame'[u] = frame[u]
    BY <1>5, <2>1 DEF LockTryAcquire
  <2>5. /\ frame'[t].pc = "try_take" /\ frame'[t].op = "none" /\ frame'[t].lock = l
    BY <2>4, LockFrameFields
  <2>6. CallOK(t)'
    BY <1>2, <1>4, <2>5 DEF CallOK, CallShape
  <2>7. SameWants
    BY <1>4, <2>4, <2>5 DEF SameWants, WantedOf, Asking
  <2>8. CallsOK'
    BY <1>2, <2>4, <2>6, CallsKept
  <2>9. Abstract!Next
    BY <1>1, <1>2, <1>4, <2>2, <2>3, <2>7, TryGrantStep
  <2> QED
    BY <2>8, <2>9
<1>7. CASE SameOwners /\ (CallYield(t) \/ CallSetPriority(t) \/ CallExit(t) \/ CallSemaTryDown(t))
  <2>1. UNCHANGED frame
    BY <1>7 DEF CallYield, CallSetPriority, CallExit, CallSemaTryDown, ThreadYield,
       ThreadSetPriority, ThreadExit, SemaTryDown, schedVars
  <2>2. CallOK(t)'
    BY <1>2, <2>1 DEF CallsOK, CallOK
  <2> QED
    BY <1>2, <1>7, <2>1, <2>2, PlainStep
<1>8. CASE SameOwners /\ (CallSleep(t) \/ CallSemaDown(t) \/ CallSemaUp(t))
  <2>1. \A u \in Threads : u # t => frame'[u] = frame[u]
    BY <1>5, <1>8 DEF CallSleep, TimerSleep, Goto, CallSemaDown, CallSemaUp, SemaCall
  <2>2. /\ frame'[t].pc \in {"sleep_insert", "down", "up"}
        /\ frame'[t].op = "none" /\ frame'[t].lock # TidLock
        /\ frame'[t].pc = "down" => frame'[t].sema \in Semas
    <3>1. CASE CallSleep(t)
      BY <1>4, <1>5, <3>1 DEF CallSleep, TimerSleep, Goto, FrameType
    <3>2. CASE CallSemaDown(t)
      <4>1. PICK s \in Semas : SemaCall(t, "down", s)
        BY <3>2 DEF CallSemaDown
      <4> QED
        BY <1>4, <1>5, <4>1 DEF SemaCall, FrameType
    <3>3. CASE CallSemaUp(t)
      <4>1. PICK s \in Semas : SemaCall(t, "up", s)
        BY <3>3 DEF CallSemaUp
      <4> QED
        BY <1>4, <1>5, <4>1 DEF SemaCall, FrameType
    <3> QED
      BY <1>8, <3>1, <3>2, <3>3
  <2> QED
    BY <1>1, <1>2, <1>8, <2>1, <2>2, MovingCallStep, ObjectsAssumption
<1>9. CASE SameOwners /\ CallAcquire(t)
  <2>1. PICK l \in Locks \ {TidLock} : LockAcquire(t, l)
    BY <1>9 DEF CallAcquire, ClientLocks
  <2>2. /\ frame'[t] = LockFrame("check_holder", l)
        /\ \A u \in Threads : u # t => frame'[u] = frame[u]
    BY <1>5, <2>1 DEF LockAcquire
  <2>3. /\ frame'[t].pc = "check_holder" /\ frame'[t].op = "none" /\ frame'[t].lock = l
    BY <2>2, LockFrameFields
  <2>4. ~ Owns(t, l)
    BY <1>4, <2>1 DEF LockAcquire
  <2>5. CallOK(t)'
    BY <1>2, <1>4, <2>3 DEF CallOK, CallShape
  <2>6. WantsNow(t, l)
    BY <2>2, <2>3 DEF WantsNow, WantedOf, Asking
  <2>7. CallsOK'
    BY <1>2, <2>2, <2>5, CallsKept
  <2>8. Abstract!Next
    BY <1>1, <1>2, <1>4, <1>9, <2>4, <2>6, RequestStep
  <2> QED
    BY <2>7, <2>8
<1>10. CASE SameOwners /\ (CallRelease(t) \/ CallCondWait(t))
  <2>1. PICK l \in Locks : /\ holder[l] = t
                          /\ \/ frame' = [frame EXCEPT ![t] = LockFrame("unlist", l)]
                             \/ frame' = [frame EXCEPT ![t] =
                                            [LockFrame("unlist", l) EXCEPT !.op = "cond_wait"]]
    <3>1. CASE CallRelease(t)
      BY <3>1 DEF CallRelease, Held, LockRelease
    <3>2. CASE CallCondWait(t)
      <4>1. PICK c \in Conds : CondWait(t, c)
        BY <3>2 DEF CallCondWait
      <4>2. CondLock[c] \in Locks
        BY SynchAssumption
      <4> QED
        BY <4>1, <4>2 DEF CondWait
    <3> QED
      BY <1>10, <3>1, <3>2
  <2>2. \A u \in Threads : u # t => frame'[u] = frame[u]
    BY <1>5, <2>1
  <2>3. /\ frame'[t].pc = "unlist" /\ frame'[t].op \in {"none", "cond_wait"}
        /\ frame'[t].lock = l
    <3> DEFINE f == LockFrame("unlist", l)
    <3>1. frame'[t] = f \/ frame'[t] = [f EXCEPT !.op = "cond_wait"]
      BY <1>5, <2>1
    <3>2. f.pc = "unlist" /\ f.op = "none" /\ f.lock = l
      BY LockFrameFields
    <3>3. [f EXCEPT !.op = "cond_wait"].op = "cond_wait"
      BY DEF LockFrame, UserFrame, FrameAt
    <3>4. /\ [f EXCEPT !.op = "cond_wait"].pc = f.pc
          /\ [f EXCEPT !.op = "cond_wait"].lock = f.lock
      OBVIOUS
    <3> HIDE DEF f
    <3> QED
      BY <3>1, <3>2, <3>3, <3>4
  <2> QED
    BY <1>1, <1>2, <1>4, <1>10, <2>1, <2>2, <2>3, MovingCallStep
<1>11. CASE SameOwners /\ CallCondSignal(t)
  <2>1. PICK c \in Conds : CondSignal(t, c)
    BY <1>11 DEF CallCondSignal
  <2>2. frame' = [frame EXCEPT ![t] = [UserFrame EXCEPT !.pc = "up", !.sema = Signalled(c)]]
    BY <2>1, SignalsOne DEF CondSignal, KernelInv
  <2>3. \A u \in Threads : u # t => frame'[u] = frame[u]
    BY <1>5, <2>2
  <2>4. /\ frame'[t].pc = "up" /\ frame'[t].op = "none" /\ frame'[t].lock # TidLock
    BY <1>5, <2>2, ObjectsAssumption DEF UserFrame, FrameAt, Semaphores
  <2> QED
    BY <1>1, <1>2, <1>11, <2>3, <2>4, MovingCallStep
<1>12. CASE SameOwners /\ CallCondBroadcast(t)
  <2>1. PICK c \in Conds : CondBroadcast(t, c)
    BY <1>12 DEF CallCondBroadcast
  <2>2. frame' = [frame EXCEPT ![t] =
                     [FrameAt("broadcast") EXCEPT !.op = "cond_broadcast", !.cond = c]]
    BY <2>1 DEF CondBroadcast
  <2>3. \A u \in Threads : u # t => frame'[u] = frame[u]
    BY <1>5, <2>2
  <2>4. /\ frame'[t].pc = "broadcast" /\ frame'[t].op = "cond_broadcast"
        /\ frame'[t].lock # TidLock
    BY <1>5, <2>2, ObjectsAssumption DEF FrameAt, Semaphores
  <2> QED
    BY <1>1, <1>2, <1>12, <2>3, <2>4, MovingCallStep
<1>13. CASE SameOwners /\ CallCreate(t)
  <2>1. PICK child \in Threads, pri \in NewPriorities : ThreadCreate(t, child, pri)
    BY <1>13 DEF CallCreate
  <2> DEFINE f == [UserFrame EXCEPT !.pc = "check_holder", !.op = "thread_create",
                                    !.lock = TidLock, !.child = child]
  <2>2. f.pc = "check_holder" /\ f.op = "thread_create" /\ f.lock = TidLock
    BY DEF UserFrame, FrameAt
  <2>3. frame' = [frame EXCEPT ![child] = UserFrame, ![t] = f]
    BY <2>1 DEF ThreadCreate
  <2> HIDE DEF f
  <2>4. /\ frame'[t] = f
        /\ \A u \in Threads : u # t => frame'[u] = IF u = child THEN UserFrame ELSE frame[u]
    BY <1>5, <2>3
  <2>5. frame[child].pc = "user"
    BY <2>1 DEF ThreadCreate, KernelInv, GoneFromKernel, Gone
  <2>6. holder[TidLock] # child /\ WantedOf(frame[child]) = NULL
    BY <2>5, InUser
  <2>7. WantedOf(UserFrame) = NULL
    BY UserFrameFields DEF WantedOf, Asking
  <2>8. WantsNow(t, TidLock)
    BY <2>2, <2>4, <2>6, <2>7 DEF WantsNow, WantedOf, Asking
  <2>9. CallsOK'
    <3>1. CallOK(t)'
      BY <1>2, <1>4, <2>2, <2>4 DEF CallOK, CallShape
    <3>2. ASSUME NEW u \in Threads, u # t PROVE CallOK(u)'
      <4>1. CASE u = child
        BY <1>2, <2>4, <2>6, <3>2, <4>1, UserFrameFields DEF CallOK, CallShape
      <4>2. CASE u # child
        BY <1>2, <2>4, <3>2, <4>2 DEF CallsOK, CallOK
      <4> QED
        BY <4>1, <4>2
    <3> QED
      BY <3>1, <3>2 DEF CallsOK
  <2>10. TidLock \in Locks /\ ~ Owns(t, TidLock)
    BY <1>4, ObjectsAssumption
  <2>11. Abstract!Next
    BY <1>1, <1>2, <1>4, <1>13, <2>8, <2>10, RequestStep
  <2> QED
    BY <2>9, <2>11
<1> QED
  BY <1>3, <1>6, <1>7, <1>8, <1>9, <1>10, <1>11, <1>12, <1>13, SMTT(30) DEF ClientCall

\* sema_down(): on a lock's semaphore it may give the lock, on the semaphore of
\* cond_wait() it leads back to lock_acquire().
LEMMA SemaDownStep ==
    ASSUME KernelInv, CallsOK, Mapped, Mapped', NEW t \in Threads, SemaDown(t)
    PROVE  CallsOK' /\ [Abstract!Next]_(Abstract!vars)
<1> DEFINE s == frame[t].sema
<1>1. /\ frame \in [Tasks -> FrameType] /\ frame[t] \in FrameType
      /\ FrameShape(frame[t]) /\ CallOK(t) /\ s \in Semaphores
      /\ frame[t].pc \in {"down", "down_blocked"}
  BY DEF SemaDown, At, KernelInv, TypeOK, ControlType, FramesOK, FrameShape, CallsOK
<1>2. fault = "none" /\ UNCHANGED <<holder, fault>>
  BY DEF SemaDown, At, lockVars
<1>3. IF s \in Locks /\ SemaDownTake(t, s) THEN GivenTo(t, s) ELSE SameOwners
  BY SemaDownOwnership DEF KernelInv
<1>4. holder[TidLock] # t
  BY <1>1 DEF CallOK
<1>5. CASE SemaDownWait(t, s)
  <2>1. SameOwners
    BY <1>3, <1>5 DEF SemaDownWait, SemaDownTake
  <2>2. frame' = [frame EXCEPT ![t].pc = "down_blocked"]
    BY <1>5 DEF SemaDownWait, Goto
  <2>3. \A u \in Threads : u # t => frame'[u] = frame[u]
    BY <1>1, <2>2
  <2>4. /\ frame'[t].pc = "down_blocked" /\ frame'[t].op = frame[t].op
        /\ frame'[t].lock = frame[t].lock /\ frame'[t].sema = s
    BY <1>1, <2>2 DEF FrameType
  <2>5. CallOK(t)'
    BY <1>1, <1>2, <2>4 DEF CallOK, CallShape
  <2>6. WantedOf(frame'[t]) = WantedOf(frame[t])
    BY <1>1, <2>4 DEF WantedOf, Asking
  <2> QED
    BY <1>2, <2>1, <2>3, <2>5, <2>6, PlainStep
<1>6. CASE SemaDownTake(t, s)
  <2>1. frame'[t] = AfterDown(t) /\ \A u \in Threads : u # t => frame'[u] = frame[u]
    BY <1>1, <1>6 DEF SemaDownTake
  <2>2. CASE s \in Locks
    <3>1. /\ frame'[t].pc = "take" /\ frame'[t].op = frame[t].op
          /\ frame'[t].lock = frame[t].lock
      BY <1>1, <2>1, <2>2 DEF AfterDown, FrameType
    <3>2. CallOK(t)'
      BY <1>1, <1>2, <1>4, <3>1 DEF CallOK, CallShape
    <3>3. CallsOK'
      BY <1>2, <2>1, <3>2, CallsKept
    <3>4. WantedOf(frame[t]) = s
      BY <1>1, <2>2 DEF WantedOf, Asking, FrameShape
    <3>5. WantsNow(t, NULL)
      BY <2>1, <3>1 DEF WantsNow, WantedOf, Asking
    <3>6. \A u \in Threads : ~ Owns(u, s)
      BY <1>6, <2>2 DEF SemaDownTake, KernelInv, Ownership, UpWhenFree
    <3>7. Abstract!Next
      BY <1>2, <1>3, <1>6, <2>2, <3>4, <3>5, <3>6, GrantStep
    <3> QED
      BY <3>3, <3>7
  <2>3. CASE s \in Threads
    <3> DEFINE l == frame[t].lock
    <3>1. s \notin Locks /\ l \in Locks /\ holder[l] # t
      BY <1>1, <2>3, ObjectsAssumption DEF FrameShape, CallOK
    <3>2. /\ frame'[t].pc = "check_holder" /\ frame'[t].op = frame[t].op
          /\ frame'[t].lock = l
      BY <1>1, <2>1, <2>3, <3>1 DEF AfterDown, FrameType
    <3>3. CallOK(t)'
      BY <1>1, <1>2, <1>4, <3>2 DEF CallOK, CallShape
    <3>4. CallsOK'
      BY <1>2, <2>1, <3>3, CallsKept
    <3>5. WantedOf(frame[t]) = NULL
      BY <1>1, <3>1 DEF WantedOf, Asking
    <3>6. WantsNow(t, l)
      BY <2>1, <3>2 DEF WantsNow, WantedOf, Asking
    <3>7. ~ Owns(t, l) /\ SameOwners
      BY <1>1, <1>3, <3>1 DEF Owns
    <3>8. Abstract!Next
      BY <1>2, <3>1, <3>5, <3>6, <3>7, RequestStep
    <3> QED
      BY <3>4, <3>8
  <2>4. CASE s \notin Locks /\ s \notin Threads
    <3>1. frame'[t] = UserFrame
      BY <2>1, <2>4 DEF AfterDown
    <3>2. CallOK(t)'
      BY <1>2, <1>4, <3>1, UserFrameFields DEF CallOK, CallShape
    <3>3. WantedOf(frame'[t]) = NULL /\ WantedOf(frame[t]) = NULL
      BY <1>1, <2>4, <3>1, UserFrameFields DEF WantedOf, Asking
    <3>4. SameOwners
      BY <1>3, <2>4
    <3> QED
      BY <1>2, <2>1, <3>2, <3>3, <3>4, PlainStep
  <2> QED
    BY <2>2, <2>3, <2>4
<1> QED
  BY <1>5, <1>6 DEF SemaDown

\* sema_up(): on a lock's semaphore it gives the lock back.
LEMMA SemaUpStep ==
    ASSUME KernelInv, CallsOK, Mapped, Mapped', NEW t \in Threads, SemaUp(t)
    PROVE  CallsOK' /\ [Abstract!Next]_(Abstract!vars)
<1> DEFINE s == frame[t].sema
<1>1. /\ frame \in [Tasks -> FrameType] /\ frame[t] \in FrameType
      /\ FrameShape(frame[t]) /\ CallOK(t) /\ frame[t].pc = "up"
  BY DEF SemaUp, At, KernelInv, TypeOK, ControlType, FramesOK, CallsOK
<1>2. fault = "none" /\ UNCHANGED <<holder, fault>>
  BY DEF SemaUp, At, lockVars
<1>3. IF s \in Locks THEN Owns(t, s) /\ TakenFrom(t, s) ELSE SameOwners
  BY SemaUpOwnership DEF KernelInv
<1>4. holder[TidLock] # t
  BY <1>1 DEF CallOK
<1>5. frame'[t] = AfterUp(t) /\ \A u \in Threads : u # t => frame'[u] = frame[u]
  BY <1>1 DEF SemaUp
<1>6. CallOK(t)' /\ WantedOf(frame'[t]) = NULL
  <2>1. CASE frame[t].op = "thread_create"
    <3>1. /\ frame'[t].pc = "create_unblock" /\ frame'[t].op = "thread_create"
          /\ frame'[t].lock = frame[t].lock
      BY <1>1, <1>5, <2>1 DEF AfterUp, FrameType
    <3> QED
      BY <1>1, <1>2, <1>4, <3>1 DEF CallOK, CallShape, WantedOf, Asking
  <2>2. CASE frame[t].op = "cond_wait"
    <3>1. /\ frame'[t].pc = "down" /\ frame'[t].op = "cond_wait"
          /\ frame'[t].lock = frame[t].lock /\ frame'[t].sema = t
      BY <1>1, <1>5, <2>2 DEF AfterUp, FrameType
    <3>2. frame[t].lock = s /\ s \in Locks
      BY <1>1, <2>2 DEF CallOK, CallShape, FrameShape
    <3>3. holder[s] = NULL /\ NULL # t
      BY <1>1, <3>2, ObjectsAssumption DEF KernelInv, Ownership, HolderUntilCleared
    <3>4. t \notin Locks /\ frame[t].lock # TidLock
      BY <1>1, <2>2, ObjectsAssumption DEF CallOK, CallShape
    <3>5. CallOK(t)'
      BY <1>2, <1>4, <3>1, <3>2, <3>3, <3>4 DEF CallOK, CallShape
    <3> QED
      BY <3>1, <3>4, <3>5 DEF WantedOf, Asking
  <2>3. CASE frame[t].op = "cond_broadcast"
    <3>1. /\ frame'[t].pc = "broadcast" /\ frame'[t].op = "cond_broadcast"
          /\ frame'[t].lock = frame[t].lock
      BY <1>1, <1>5, <2>3 DEF AfterUp, FrameType
    <3>2. frame[t].lock # TidLock
      BY <1>1, <2>3 DEF CallOK, CallShape
    <3>3. CallOK(t)'
      BY <1>2, <1>4, <3>1, <3>2 DEF CallOK, CallShape
    <3> QED
      BY <3>1, <3>3 DEF WantedOf, Asking
  <2>4. CASE frame[t].op = "none"
    <3>1. frame'[t] = UserFrame
      BY <1>1, <1>5, <2>4 DEF AfterUp, FrameType
    <3> QED
      BY <1>2, <1>4, <3>1, UserFrameFields DEF CallOK, CallShape, WantedOf, Asking
  <2> QED
    BY <1>1, <2>1, <2>2, <2>3, <2>4 DEF FrameType, Ops
<1>7. WantedOf(frame[t]) = NULL
  BY <1>1 DEF WantedOf, Asking
<1>8. CASE s \in Locks
  <2>1. CallsOK'
    BY <1>2, <1>5, <1>6, CallsKept
  <2>2. SameWants
    BY <1>5, <1>6, <1>7 DEF SameWants
  <2>3. Abstract!Next
    BY <1>2, <1>3, <1>7, <1>8, <2>2, ReleaseStep
  <2> QED
    BY <2>1, <2>3
<1>9. CASE s \notin Locks
  BY <1>2, <1>3, <1>5, <1>6, <1>7, <1>9, PlainStep
<1> QED
  BY <1>8, <1>9

\* thread_create() after allocate_tid(), and timer_sleep().
LEMMA PlainKernelStep ==
    ASSUME KernelInv, CallsOK, Mapped, Mapped', NEW t \in Threads,
           SchedStep(t) \/ SleepStep(t)
    PROVE  CallsOK' /\ [Abstract!Next]_(Abstract!vars)
<1>1. /\ frame \in [Tasks -> FrameType] /\ frame[t] \in FrameType /\ CallOK(t)
      /\ UNCHANGED <<holder, fault>>
      /\ frame[t].pc \in {"create_unblock", "create_check", "sleep_insert", "sleep_blocked"}
  BY DEF SchedStep, CreateUnblock, CreateCheck, SleepStep, SleepInsert, SleepReturn, At,
     KernelInv, TypeOK, ControlType, CallsOK, synchVars, lockVars
<1>2. SameOwners
  BY PlainStepOwnership DEF KernelInv
<1>3. ReturnToUser(t) \/ Goto(t, "create_check") \/ Goto(t, "sleep_blocked")
  BY DEF SchedStep, CreateUnblock, CreateCheck, SleepStep, SleepInsert, SleepReturn
<1>4. \A u \in Threads : u # t => frame'[u] = frame[u]
  BY <1>1, <1>3 DEF Goto, ReturnToUser
<1>5. holder[TidLock] # t /\ WantedOf(frame[t]) = NULL
  BY <1>1 DEF CallOK, WantedOf, Asking
<1>6. \/ frame'[t] = UserFrame
      \/ /\ frame'[t].pc \in {"create_check", "sleep_blocked"}
         /\ frame'[t].op = frame[t].op /\ frame'[t].lock = frame[t].lock
  BY <1>1, <1>3 DEF Goto, ReturnToUser, FrameType
<1>7. CallOK(t)'
  BY <1>1, <1>5, <1>6, UserFrameFields DEF CallOK, CallShape
<1>8. WantedOf(frame'[t]) = NULL
  BY <1>6, UserFrameFields DEF WantedOf, Asking
<1> QED
  BY <1>1, <1>2, <1>4, <1>5, <1>7, <1>8, PlainStep

\* lock_acquire() up to its sema_down(): the thread goes on asking.
LEMMA AcquireStep ==
    ASSUME KernelInv, CallsOK, Mapped, Mapped', NEW t \in Threads,
           CheckHolder(t) \/ MarkWaiting(t) \/ Donate(t) \/ DonateStop(t)
    PROVE  CallsOK' /\ [Abstract!Next]_(Abstract!vars)
<1> DEFINE l == frame[t].lock
<1>1. /\ frame \in [Tasks -> FrameType] /\ frame[t] \in FrameType /\ CallOK(t)
      /\ l \in Locks /\ frame[t].pc \in {"check_holder", "mark_waiting", "donate"}
      /\ UNCHANGED holder /\ fault = "none"
  BY DEF CheckHolder, MarkWaiting, Donate, DonateStop, At, KernelInv, TypeOK, ControlType,
     FramesOK, FrameShape, CallsOK, synchVars, lockVars
<1>2. SameOwners
  BY AcquireStepOwnership, SMTT(30) DEF KernelInv
<1>3. \/ UNCHANGED frame
      \/ \E pc \in {"mark_waiting"} : frame' = [frame EXCEPT ![t].pc = pc]
      \/ frame' = [frame EXCEPT ![t].pc = "down", ![t].sema = l]
      \/ frame' = [frame EXCEPT ![t].pc = "donate", ![t].dlock = l]
      \/ frame' = [frame EXCEPT ![t].dlock = wait_for_lock[holder[frame[t].dlock]],
                                ![t].depth = @ + 1]
      \/ frame' = [frame EXCEPT ![t].pc = "down", ![t].sema = l,
                                ![t].dlock = NULL, ![t].depth = 0]
  BY DEF CheckHolder, MarkWaiting, Donate, DonateStep, DonateStop, Crash
<1>4. \A u \in Threads : u # t => frame'[u] = frame[u]
  BY <1>1, <1>3
<1>5. /\ frame'[t].op = frame[t].op /\ frame'[t].lock = l
      /\ \/ frame'[t].pc \in {"check_holder", "mark_waiting", "donate"}
         \/ frame'[t].pc = "down" /\ frame'[t].sema = l
  BY <1>1, <1>3 DEF FrameType
<1>6. l \notin Threads /\ holder[TidLock] # t
  BY <1>1, ObjectsAssumption DEF CallOK
<1>7. CallOK(t)'
  BY <1>1, <1>5, <1>6 DEF CallOK, CallShape
<1>8. WantedOf(frame'[t]) = WantedOf(frame[t])
  BY <1>1, <1>5 DEF WantedOf, Asking
<1> QED
  BY <1>1, <1>2, <1>4, <1>7, <1>8, PlainStep

\* The end of lock_acquire() and of lock_try_acquire(): lock->holder is set.
LEMMA TakeStep ==
    ASSUME KernelInv, CallsOK, Mapped, Mapped', NEW t \in Threads, Take(t) \/ TryTake(t)
    PROVE  CallsOK' /\ [Abstract!Next]_(Abstract!vars)
<1> DEFINE l == frame[t].lock
<1>1. /\ frame \in [Tasks -> FrameType] /\ frame[t] \in FrameType /\ CallOK(t)
      /\ l \in Locks /\ frame[t].pc \in {"take", "try_take"}
      /\ holder \in [Locks -> Threads \union {NULL}]
      /\ UNCHANGED fault
  BY DEF Take, TryTake, At, KernelInv, TypeOK, ControlType, LockType, FramesOK, FrameShape,
     CallsOK
<1>2. SameOwners
  BY TakeOwnership DEF KernelInv
<1>3. holder' = [holder EXCEPT ![l] = t]
  BY DEF Take, TryTake
<1>4. holder[TidLock] # t /\ WantedOf(frame[t]) = NULL
  BY <1>1 DEF CallOK, WantedOf, Asking
<1>5. /\ Goto(t, "unlist") \/ ReturnToUser(t)
      /\ l = TidLock => Goto(t, "unlist")
  BY <1>1 DEF Take, TryTake, At, CallOK, CallShape
<1>6. \A u \in Threads : u # t => frame'[u] = frame[u]
  BY <1>1, <1>5 DEF Goto, ReturnToUser
<1>7. \A u \in Threads, k \in Locks : u # t /\ holder'[k] = u => holder[k] = u
  BY <1>1, <1>3
<1>8. CASE Goto(t, "unlist")
  <2>1. /\ frame'[t].pc = "unlist" /\ frame'[t].op = frame[t].op /\ frame'[t].lock = l
    BY <1>1, <1>8 DEF Goto, FrameType
  <2>2. holder'[TidLock] = t => l = TidLock
    BY <1>1, <1>3, <1>4, ObjectsAssumption
  <2>3. CallOK(t)'
    BY <1>1, <2>1, <2>2 DEF CallOK, CallShape
  <2>4. WantedOf(frame'[t]) = NULL
    BY <2>1 DEF WantedOf, Asking
  <2>5. CallsOK'
    BY <1>6, <1>7, <2>3, CallsKept
  <2>6. SameWants
    BY <1>4, <1>6, <2>4 DEF SameWants
  <2> QED
    BY <1>1, <1>2, <2>5, <2>6, QuietStep
<1>9. CASE ReturnToUser(t) /\ l # TidLock
  <2>1. frame'[t] = UserFrame
    BY <1>1, <1>9 DEF ReturnToUser
  <2>2. holder'[TidLock] # t
    BY <1>1, <1>3, <1>4, <1>9, ObjectsAssumption
  <2>3. CallOK(t)'
    BY <2>1, <2>2, UserFrameFields DEF CallOK, CallShape
  <2>4. WantedOf(frame'[t]) = NULL
    BY <2>1, UserFrameFields DEF WantedOf, Asking
  <2>5. CallsOK'
    BY <1>6, <1>7, <2>3, CallsKept
  <2>6. SameWants
    BY <1>4, <1>6, <2>4 DEF SameWants
  <2> QED
    BY <1>1, <1>2, <2>5, <2>6, QuietStep
<1> QED
  BY <1>5, <1>8, <1>9

\* lock_release() up to its sema_up(): the lock still has its owner.
LEMMA ReleasingStep ==
    ASSUME KernelInv, CallsOK, Mapped, Mapped', NEW t \in Threads, Unlist(t) \/ ClearHolder(t)
    PROVE  CallsOK' /\ [Abstract!Next]_(Abstract!vars)
<1> DEFINE l == frame[t].lock
<1>1. /\ frame \in [Tasks -> FrameType] /\ frame[t] \in FrameType /\ CallOK(t)
      /\ l \in Locks /\ frame[t].pc \in {"unlist", "clear_holder"} /\ fault = "none"
      /\ holder \in [Locks -> Threads \union {NULL}]
  BY DEF Unlist, ClearHolder, At, KernelInv, TypeOK, ControlType, LockType, FramesOK,
     FrameShape, CallsOK
<1>2. SameOwners
  BY UnlistOwnership, ClearHolderOwnership DEF KernelInv
<1>3. WantedOf(frame[t]) = NULL
  BY <1>1 DEF WantedOf, Asking
<1>4. CASE Unlist(t)
  <2>1. UNCHANGED holder /\ (UNCHANGED frame \/ Goto(t, "clear_holder"))
    BY <1>4 DEF Unlist, Crash
  <2>2. \A u \in Threads : u # t => frame'[u] = frame[u]
    BY <1>1, <2>1 DEF Goto
  <2>3. /\ frame'[t].pc \in {"unlist", "clear_holder"}
        /\ frame'[t].op = frame[t].op /\ frame'[t].lock = l
    BY <1>1, <2>1 DEF Goto, FrameType
  <2>4. CallOK(t)'
    BY <1>1, <2>1, <2>3 DEF CallOK, CallShape
  <2>5. WantedOf(frame'[t]) = NULL
    BY <2>3 DEF WantedOf, Asking
  <2> QED
    BY <1>1, <1>2, <1>3, <2>1, <2>2, <2>4, <2>5, PlainStep
<1>5. CASE ClearHolder(t)
  <2>1. frame' = [frame EXCEPT ![t].pc = "up", ![t].sema = l]
    BY <1>5 DEF ClearHolder
  <2>2. holder' = [holder EXCEPT ![l] = NULL] /\ UNCHANGED fault
    BY <1>5 DEF ClearHolder
  <2>3. \A u \in Threads : u # t => frame'[u] = frame[u]
    BY <1>1, <2>1
  <2>4. /\ frame'[t].pc = "up" /\ frame'[t].op = frame[t].op
        /\ frame'[t].lock = l /\ frame'[t].sema = l
    BY <1>1, <2>1 DEF FrameType
  <2>5. holder'[TidLock] # t
    BY <1>1, <2>2, ObjectsAssumption DEF CallOK
  <2>6. CallOK(t)'
    BY <1>1, <2>4, <2>5 DEF CallOK, CallShape
  <2>7. \A u \in Threads, k \in Locks : u # t /\ holder'[k] = u => holder[k] = u
    BY <1>1, <2>2, ObjectsAssumption
  <2>8. CallsOK'
    BY <2>3, <2>6, <2>7, CallsKept
  <2>9. SameWants
    BY <1>3, <2>3, <2>4 DEF SameWants, WantedOf, Asking
  <2> QED
    BY <1>2, <2>2, <2>8, <2>9, QuietStep
<1> QED
  BY <1>4, <1>5

\* One turn of the loop of cond_broadcast().
LEMMA BroadcastStep ==
    ASSUME KernelInv, CallsOK, Mapped, Mapped', NEW t \in Threads, BroadcastNext(t)
    PROVE  CallsOK' /\ [Abstract!Next]_(Abstract!vars)
<1> DEFINE c == frame[t].cond
<1>1. /\ frame \in [Tasks -> FrameType] /\ frame[t] \in FrameType /\ CallOK(t)
      /\ frame[t].pc = "broadcast" /\ c \in Conds /\ UNCHANGED <<holder, fault>>
  BY DEF BroadcastNext, At, KernelInv, TypeOK, ControlType, FramesOK, FrameShape, CallsOK,
     lockVars
<1>2. SameOwners
  BY BroadcastNextOwnership DEF KernelInv
<1> DEFINE f == [frame[t] EXCEPT !.pc = "up", !.sema = Signalled(c)]
<1>3. f.pc = "up" /\ f.op = frame[t].op /\ f.lock = frame[t].lock
  BY <1>1 DEF FrameType
<1>4. \E g \in {UserFrame, f} : frame' = [frame EXCEPT ![t] = g]
  <2>1. CASE cond_waiters[c] = <<>>
    BY <2>1 DEF BroadcastNext, ReturnToUser
  <2>2. CASE cond_waiters[c] # <<>>
    <3>1. SignalFirst(t, c, frame[t])
      BY <2>2 DEF BroadcastNext
    <3>2. TypeOK /\ c \in Conds
      BY <1>1 DEF KernelInv
    <3> HIDE DEF c
    <3>3. frame' = [frame EXCEPT ![t] = f]
      BY <2>2, <3>1, <3>2, SignalsOne
    <3> QED
      BY <3>3
  <2> QED
    BY <2>1, <2>2
<1> HIDE DEF f
<1>5. /\ \A u \in Threads : u # t => frame'[u] = frame[u]
      /\ \/ frame'[t] = UserFrame
         \/ /\ frame'[t].pc = "up" /\ frame'[t].op = frame[t].op
            /\ frame'[t].lock = frame[t].lock
  BY <1>1, <1>3, <1>4
<1>6. /\ frame[t].op = "cond_broadcast"
      /\ holder[TidLock] # t /\ frame[t].lock # TidLock
  BY <1>1 DEF CallOK, CallShape
<1>7. CallOK(t)'
  BY <1>1, <1>5, <1>6, UserFrameFields DEF CallOK, CallShape
<1>8. WantedOf(frame'[t]) = NULL /\ WantedOf(frame[t]) = NULL
  BY <1>1, <1>5, UserFrameFields DEF WantedOf, Asking
<1> QED
  BY <1>1, <1>2, <1>5, <1>7, <1>8, PlainStep

\* The idle thread and the interrupts.
LEMMA InterruptStep ==
    ASSUME KernelInv, CallsOK, Mapped, Mapped', IdleStep \/ Tick \/ Handler \/ Device
    PROVE  CallsOK' /\ [Abstract!Next]_(Abstract!vars)
<1>1. SameOwners
  BY InterruptOwnership DEF KernelInv
<1>2. UNCHANGED holder
  BY DEF IdleStep, Tick, Handler, Device, DeviceSemaUp, synchVars, lockVars
<1>3. \A u \in Threads : frame'[u] = frame[u]
  BY ObjectsAssumption DEF IdleStep, IdleBlock, Goto, Tick, TimerInterrupt, Handler,
     TimerWakeUp, TimerReturn, Device, DeviceSemaUp, AfterInterrupt, KernelInv, TypeOK,
     ControlType
<1>4. fault' = fault \/ fault = "none"
  BY DEF IdleStep, IdleBlock, Tick, TimerInterrupt, Handler, TimerWakeUp, TimerReturn,
     Device, DeviceSemaUp, Interruptible
<1>5. CallsOK'
  BY <1>2, <1>3 DEF CallsOK, CallOK
<1>6. SameWants
  BY <1>3 DEF SameWants
<1> QED
  BY <1>1, <1>4, <1>5, <1>6, QuietStep

\* Every step of the kernel.
LEMMA LocksStep ==
    ASSUME KernelInv, CallsOK, Mapped, Mapped', [Next]_vars
    PROVE  CallsOK' /\ [Abstract!Next]_(Abstract!vars)
<1>1. ASSUME NEW t \in Threads, KernelStep(t)
      PROVE  CallsOK' /\ [Abstract!Next]_(Abstract!vars)
  BY <1>1, PlainKernelStep, SemaDownStep, SemaUpStep, AcquireStep, TakeStep,
     ReleasingStep, BroadcastStep DEF KernelStep, SynchStep
<1>2. CASE UNCHANGED vars
  <2>1. UNCHANGED <<frame, holder, fault>>
    BY <1>2 DEF vars, schedVars, synchVars, lockVars
  <2>2. SameOwners
    BY <2>1 DEF SameOwners, Owns
  <2>3. SameWants
    BY <2>1 DEF SameWants
  <2>4. CallsOK'
    BY <2>1 DEF CallsOK, CallOK
  <2> QED
    BY <2>1, <2>2, <2>3, <2>4, QuietStep
<1> QED
  BY <1>1, <1>2, CallStep, InterruptStep DEF Next, CPU, Halted

LEMMA InitCalls == Init => CallsOK
<1> SUFFICES ASSUME Init, NEW t \in Threads PROVE CallOK(t)
  BY DEF CallsOK
<1>1. frame[t] = UserFrame
  BY ObjectsAssumption DEF Init, SchedInit
<1>2. holder[TidLock] # t
  BY ObjectsAssumption DEF Init, SynchInit
<1> QED
  BY <1>1, <1>2, UserFrameFields DEF CallOK, CallShape

LEMMA InitMapped == Init => Abstract!Init
<1> SUFFICES ASSUME Init PROVE Abstract!Init
  OBVIOUS
<1>1. \A t \in Threads : frame[t] = UserFrame
  BY ObjectsAssumption DEF Init, SchedInit
<1>2. \A l \in Locks : holder[l] = NULL
  BY DEF Init, SynchInit
<1>3. fault = "none"
  BY DEF Init, SchedInit
<1>4. ASSUME NEW t \in Threads PROVE Wanted(t) = NULL
  BY <1>1, UserFrameFields DEF Wanted, Acquiring
<1>5. ASSUME NEW l \in Locks PROVE OwnerOf(l) = NULL
  BY <1>1, <1>2, UserFrameFields, ObjectsAssumption DEF OwnerOf, Owners, Owns
<1> QED
  BY <1>3, <1>4, <1>5 DEF Abstract!Init

-----------------------------------------------------------------------------
(* The result.                                                             *)

\* lock_acquire(), lock_try_acquire(), lock_release(), cond_wait() and
\* allocate_tid() never give a lock that somebody has, never take one from its
\* owner, and never let a thread ask for a lock it has: whatever the timer and
\* the devices do between their steps, the locks behave as those of Mutex.
THEOREM LocksRefineMutex ==
    Spec => Abstract!SafeSpec
<1>1. Init => CallsOK /\ Abstract!Init
  BY InitCalls, InitMapped
<1>2. KernelInv /\ CallsOK /\ Mapped /\ Mapped' /\ [Next]_vars
        => CallsOK' /\ [Abstract!Next]_(Abstract!vars)
  BY LocksStep
<1>3. Spec => []Mapped
  BY KernelInvHolds, MappedHolds, PTL
<1> QED
  BY <1>1, <1>2, <1>3, KernelInvHolds, PTL DEF Spec, Abstract!SafeSpec

-----------------------------------------------------------------------------
(* What the lists hold.  First sets: how the kernel's operations on lists  *)
(* and statuses keep Linking.                                              *)

\* Sets of threads for the lists, and the statuses, of Linking.
LinkTypes(ready, asleep, down, st, U) ==
    /\ ready \in SUBSET Threads /\ asleep \in SUBSET Threads /\ U \in SUBSET Threads
    /\ down \in [Semaphores -> SUBSET Threads]
    /\ st \in [Tasks -> Statuses]

Links(ready, asleep, down, st, c, U) ==
    LinkTypes(ready, asleep, down, st, U) /\ Linking(ready, asleep, down, st, c, U)

\* thread_yield() and the idle thread's thread_block(): nobody runs.
LEMMA LinkYielded ==
    ASSUME NEW L, NEW A, NEW D, NEW st, NEW c \in Threads, NEW U, Links(L, A, D, st, c, U)
    PROVE  /\ c \notin L
           /\ Links(L \cup {c}, A, D, [st EXCEPT ![c] = "ready"], NULL, U)
<1> DEFINE newst == [st EXCEPT ![c] = "ready"]
<1>1. st[c] = "running" /\ c \notin U
  BY DEF Links, LinkTypes, Linking
<1>2. c \notin L /\ c \notin A /\ \A s \in Semaphores : c \notin D[s]
  BY <1>1 DEF Links, Linking
<1>3. newst \in [Tasks -> Statuses] /\ newst[c] = "ready"
      /\ \A t \in Tasks : t # c => newst[t] = st[t]
  BY DEF Links, LinkTypes, Statuses
<1> HIDE DEF newst
<1>4. Links(L \cup {c}, A, D, newst, NULL, U)
  BY <1>1, <1>2, <1>3, ObjectsAssumption DEF Links, LinkTypes, Linking
<1> QED
  BY <1>2, <1>4 DEF newst

LEMMA LinkIdle ==
    ASSUME NEW L, NEW A, NEW D, NEW st, NEW U, Links(L, A, D, st, Idle, U),
           NEW new \in {"ready", "blocked"}
    PROVE  Links(L, A, D, [st EXCEPT ![Idle] = new], NULL, U)
<1> DEFINE newst == [st EXCEPT ![Idle] = new]
<1>1. newst \in [Tasks -> Statuses] /\ newst[Idle] \in {"ready", "blocked"}
      /\ \A t \in Tasks : t # Idle => newst[t] = st[t]
  BY DEF Links, LinkTypes, Statuses
<1> HIDE DEF newst
<1>2. Links(L, A, D, newst, NULL, U)
  BY <1>1, ObjectsAssumption DEF Links, LinkTypes, Linking
<1> QED
  BY <1>2 DEF newst

\* schedule(): the first of the ready list runs, or the idle thread.
LEMMA LinkSwitch ==
    ASSUME NEW L, NEW A, NEW D, NEW st, NEW U, Links(L, A, D, st, NULL, U),
           NEW next \in Tasks, next \in L \/ next = Idle,
           NEW newst \in [Tasks -> Statuses],
           \A t \in Tasks : newst[t] = IF t = next THEN "running"
                                       ELSE IF st[t] = "dying" /\ t # Main
                                            THEN "free" ELSE st[t]
    PROVE  Links(L \ {next}, A, D, newst, next, U)
<1>1. Idle \notin Threads /\ NULL \notin Tasks
  BY ObjectsAssumption
<1>2. next \in Threads => /\ next \notin U /\ next \notin A
                          /\ \A s \in Semaphores : next \notin D[s]
  BY <1>1 DEF Links, LinkTypes, Linking
<1>3. \A t \in Threads : newst[t] \in {"ready", "blocked"}
                           <=> st[t] \in {"ready", "blocked"} /\ t # next
  OBVIOUS
<1>4. \A t \in Tasks : newst[t] = "running" <=> t = next
  BY <1>1 DEF Links, Linking
<1>5. \A t \in Threads : st[t] = "blocked" /\ t # next => newst[t] = "blocked"
  OBVIOUS
<1>6. Links(L \ {next}, A, D, newst, next, U)
  BY <1>1, <1>2, <1>3, <1>4, <1>5 DEF Links, LinkTypes, Linking
<1> QED
  BY <1>6

\* timer_sleep() links the running thread among the sleepers, sema_down() on a
\* semaphore's list.
LEMMA LinkAsleep ==
    ASSUME NEW L, NEW A, NEW D, NEW st, NEW c \in Threads, NEW U, Links(L, A, D, st, c, U)
    PROVE  /\ c \notin A
           /\ Links(L, A \cup {c}, D, [st EXCEPT ![c] = "blocked"], NULL, U)
<1> DEFINE newst == [st EXCEPT ![c] = "blocked"]
<1>1. st[c] = "running" /\ c \notin U
  BY DEF Links, LinkTypes, Linking
<1>2. c \notin L /\ c \notin A /\ \A s \in Semaphores : c \notin D[s]
  BY <1>1 DEF Links, Linking
<1>3. newst \in [Tasks -> Statuses] /\ newst[c] = "blocked"
      /\ \A t \in Tasks : t # c => newst[t] = st[t]
  BY DEF Links, LinkTypes, Statuses
<1> HIDE DEF newst
<1>4. Links(L, A \cup {c}, D, newst, NULL, U)
  BY <1>1, <1>2, <1>3, ObjectsAssumption DEF Links, LinkTypes, Linking
<1> QED
  BY <1>2, <1>4 DEF newst

LEMMA LinkDown ==
    ASSUME NEW L, NEW A, NEW D, NEW st, NEW c \in Threads, NEW U, Links(L, A, D, st, c, U),
           NEW s \in Semaphores
    PROVE  /\ c \notin D[s]
           /\ Links(L, A, [D EXCEPT ![s] = @ \cup {c}], [st EXCEPT ![c] = "blocked"], NULL, U)
<1> DEFINE newst == [st EXCEPT ![c] = "blocked"]
           E == [D EXCEPT ![s] = @ \cup {c}]
<1>1. st[c] = "running" /\ c \notin U
  BY DEF Links, LinkTypes, Linking
<1>2. c \notin L /\ c \notin A /\ \A r \in Semaphores : c \notin D[r]
  BY <1>1 DEF Links, Linking
<1>3. newst \in [Tasks -> Statuses] /\ newst[c] = "blocked"
      /\ \A t \in Tasks : t # c => newst[t] = st[t]
  BY DEF Links, LinkTypes, Statuses
<1>4. E \in [Semaphores -> SUBSET Threads]
      /\ \A r \in Semaphores, t \in Threads : t \in E[r] <=> t \in D[r] \/ (r = s /\ t = c)
  BY DEF Links, LinkTypes
<1> HIDE DEF newst, E
<1>5. Links(L, A, E, newst, NULL, U)
  BY <1>1, <1>2, <1>3, <1>4, ObjectsAssumption DEF Links, LinkTypes, Linking
<1> QED
  BY <1>2, <1>5 DEF newst, E

\* thread_exit(): the running thread is gone.
LEMMA LinkExit ==
    ASSUME NEW L, NEW A, NEW D, NEW st, NEW c \in Threads, NEW U, Links(L, A, D, st, c, U)
    PROVE  Links(L, A, D, [st EXCEPT ![c] = "dying"], NULL, U)
<1> DEFINE newst == [st EXCEPT ![c] = "dying"]
<1>1. st[c] = "running" /\ c \notin U
  BY DEF Links, LinkTypes, Linking
<1>2. c \notin L /\ c \notin A /\ \A r \in Semaphores : c \notin D[r]
  BY <1>1 DEF Links, Linking
<1>3. newst \in [Tasks -> Statuses] /\ newst[c] = "dying"
      /\ \A t \in Tasks : t # c => newst[t] = st[t]
  BY DEF Links, LinkTypes, Statuses
<1> HIDE DEF newst
<1>4. Links(L, A, D, newst, NULL, U)
  BY <1>1, <1>2, <1>3, ObjectsAssumption DEF Links, LinkTypes, Linking
<1> QED
  BY <1>4 DEF newst

\* A thread moves to the ready list from where it is linked, or is started.
Unlinks(D, x, E) ==
    E \in [Semaphores -> SUBSET Threads] /\ \A s \in Semaphores : E[s] = D[s] \ {x}

Readies(st, x, newst) ==
    /\ newst \in [Tasks -> Statuses] /\ newst[x] \in {"ready", st[x]}
    /\ \A t \in Tasks : t # x => newst[t] = st[t]

IsLinked(x, L, A, D) ==
    x \in Threads /\ (x \in L \/ x \in A \/ \E s \in Semaphores : x \in D[s])

LEMMA LinkMoved ==
    ASSUME NEW L, NEW A, NEW D, NEW st, NEW c, NEW U, NEW x, NEW E, NEW newst,
           Links(L, A, D, st, c, U), IsLinked(x, L, A, D), Unlinks(D, x, E),
           Readies(st, x, newst)
    PROVE  Links((L \ {x}) \cup {x}, A \ {x}, E, newst, c, U)
<1>1. x \in Threads /\ (x \in L \/ x \in A \/ \E s \in Semaphores : x \in D[s])
  BY DEF IsLinked
<1>2. st[x] \in {"ready", "blocked"} /\ x \notin U
  BY <1>1 DEF Links, Linking
<1>3. x # c
  BY <1>1, <1>2 DEF Links, Linking
<1>4. newst \in [Tasks -> Statuses] /\ newst[x] \in {"ready", "blocked"}
      /\ \A t \in Tasks : t # x => newst[t] = st[t]
  BY <1>2 DEF Readies
<1> QED
  BY <1>1, <1>2, <1>3, <1>4 DEF Links, LinkTypes, Linking, Unlinks

LEMMA LinkStarted ==
    ASSUME NEW L, NEW A, NEW D, NEW st, NEW c, NEW U, Links(L, A, D, st, c, U), NEW x \in U
    PROVE  /\ x \in Threads /\ x \notin L
           /\ Links(L \cup {x}, A, D, [st EXCEPT ![x] = "ready"], c, U \ {x})
<1> DEFINE newst == [st EXCEPT ![x] = "ready"]
<1>1. x \in Threads /\ st[x] = "blocked"
  BY DEF Links, LinkTypes, Linking
<1>2. x \notin L /\ x \notin A /\ \A s \in Semaphores : x \notin D[s]
  BY <1>1 DEF Links, Linking
<1>3. x # c
  BY <1>1 DEF Links, Linking
<1>4. newst \in [Tasks -> Statuses] /\ newst[x] = "ready"
      /\ \A t \in Tasks : t # x => newst[t] = st[t]
  BY <1>1 DEF Links, LinkTypes, Statuses
<1> HIDE DEF newst
<1>5. Links(L \cup {x}, A, D, newst, c, U \ {x})
  BY <1>1, <1>2, <1>3, <1>4 DEF Links, LinkTypes, Linking
<1> QED
  BY <1>1, <1>2, <1>5 DEF newst

\* init_thread() of a child in a free page.
LEMMA LinkCreated ==
    ASSUME NEW L, NEW A, NEW D, NEW st, NEW c, NEW U, Links(L, A, D, st, c, U),
           NEW x \in Threads, st[x] = "free"
    PROVE  Links(L, A, D, [st EXCEPT ![x] = "blocked"], c, U \cup {x})
<1> DEFINE newst == [st EXCEPT ![x] = "blocked"]
<1>1. x \notin L /\ x \notin A /\ (\A s \in Semaphores : x \notin D[s]) /\ x # c /\ x \notin U
  BY DEF Links, Linking
<1>2. newst \in [Tasks -> Statuses] /\ newst[x] = "blocked"
      /\ \A t \in Tasks : t # x => newst[t] = st[t]
  BY DEF Links, LinkTypes, Statuses
<1> HIDE DEF newst
<1>3. Links(L, A, D, newst, c, U \cup {x})
  BY <1>1, <1>2 DEF Links, LinkTypes, Linking
<1> QED
  BY <1>3 DEF newst

-----------------------------------------------------------------------------
(* The scheduler's functions on the lists.                                 *)

Linked == Links(ToSet(ready_list), ToSet(wait_list), WaitersOf, status, cur, Unborn)

LEMMA MembersType ==
    ASSUME NEW S, NEW list \in Seq(S)
    PROVE  ToSet(list) \in SUBSET S
BY ElementOfSeq DEF ToSet

LEMMA LinkedTypes ==
    ASSUME TypeOK
    PROVE  LinkTypes(ToSet(ready_list), ToSet(wait_list), WaitersOf, status, Unborn)
<1>1. ToSet(ready_list) \in SUBSET Threads /\ ToSet(wait_list) \in SUBSET Threads
  BY MembersType DEF TypeOK, CPUType, AlarmType
<1>2. \A s \in Semaphores : ToSet(waiters[s]) \in SUBSET Threads
  BY MembersType DEF TypeOK, SemaType
<1>3. WaitersOf \in [Semaphores -> SUBSET Threads]
  BY <1>2 DEF WaitersOf
<1> QED
  BY <1>1, <1>3 DEF LinkTypes, Unborn, TypeOK, CPUType

\* Switching to the next thread when nobody runs.
LEMMA Switched ==
    ASSUME NEW list \in Seq(Threads), IsInjective(list), NEW A, NEW D, NEW st, NEW U,
           Links(ToSet(list), A, D, st, NULL, U), schedule(list, st)
    PROVE  /\ IsInjective(ready_list)'
           /\ Links(ToSet(ready_list'), A, D, status', cur', U)
<1> DEFINE next == next_thread_to_run(list)
           rest == IF list = <<>> THEN <<>> ELSE Tail(list)
<1>1. cur' = next /\ ready_list' = rest
  BY DEF schedule
<1>2. \A t \in Tasks : status'[t] = IF t = next THEN "running"
                                    ELSE IF st[t] = "dying" /\ t # Main THEN "free" ELSE st[t]
  BY DEF schedule
<1>3. ToSet(list) \in SUBSET Threads /\ st \in [Tasks -> Statuses]
  BY DEF Links, LinkTypes
<1>4. next \in Tasks /\ (next \in ToSet(list) \/ next = Idle)
      /\ IsInjective(rest) /\ ToSet(rest) = ToSet(list) \ {next}
  <2>1. CASE list = <<>>
    <3>1. ToSet(list) = {} /\ IsInjective(list) /\ next = Idle /\ rest = list
      BY <2>1 DEF ToSet, IsInjective, next_thread_to_run
    <3> QED
      BY <3>1
  <2>2. CASE list # <<>>
    <3>1. next = Head(list) /\ rest = Tail(list)
      BY <2>2 DEF next_thread_to_run
    <3>2. /\ Head(list) \in ToSet(list) /\ IsInjective(Tail(list))
          /\ ToSet(Tail(list)) = ToSet(list) \ {Head(list)}
      BY <2>2, PopFrontUnique
    <3> HIDE DEF next, rest
    <3> QED
      BY <1>3, <3>1, <3>2
  <2> QED
    BY <2>1, <2>2
<1>5. status' \in [Tasks -> Statuses]
  BY <1>3, <1>4 DEF schedule, Statuses
<1> HIDE DEF next, rest
<1>6. Links(ToSet(list) \ {next}, A, D, status', next, U)
  BY <1>2, <1>4, <1>5, LinkSwitch
<1> QED
  BY <1>1, <1>4, <1>6

LEMMA Yielded ==
    ASSUME TypeOK, NEW list \in Seq(Threads), IsInjective(list), NEW A, NEW D, NEW st, NEW U,
           Links(ToSet(list), A, D, st, cur, U),
           NEW pri \in [Tasks -> Priorities], thread_yield(list, st, pri)
    PROVE  /\ IsInjective(ready_list)'
           /\ Links(ToSet(ready_list'), A, D, status', cur', U)
<1>1. \A t \in Threads : pri[t] \in Int
  BY NumbersAssumption
<1>2. CASE cur = Idle
  <2>1. schedule(list, [st EXCEPT ![Idle] = "ready"])
    BY <1>2 DEF thread_yield
  <2>2. /\ Links(ToSet(list), A, D, [st EXCEPT ![Idle] = "ready"], NULL, U)
    BY <1>2, LinkIdle
  <2> QED
    BY <2>1, <2>2, Switched
<1>3. CASE cur \in Threads
  <2> DEFINE new == list_insert_ordered(list, cur, pri)
  <2>1. cur # Idle
    BY <1>3, ObjectsAssumption
  <2>2. schedule(new, [st EXCEPT ![cur] = "ready"])
    BY <2>1 DEF thread_yield
  <2>3. /\ cur \notin ToSet(list)
        /\ Links(ToSet(list) \cup {cur}, A, D, [st EXCEPT ![cur] = "ready"], NULL, U)
    BY <1>3, LinkYielded
  <2>4. new \in Seq(Threads)
    BY <1>1, <1>3, InsertOrderedType
  <2>5. IsInjective(new) /\ ToSet(new) = ToSet(list) \cup {cur}
    BY <1>1, <1>3, <2>3, InsertUnique
  <2> HIDE DEF new
  <2> QED
    BY <2>2, <2>3, <2>4, <2>5, Switched
<1> QED
  BY <1>2, <1>3 DEF TypeOK, CPUType

LEMMA KeptCPU ==
    ASSUME NEW list \in Seq(Threads), IsInjective(list), NEW A, NEW D, NEW st, NEW U,
           Links(ToSet(list), A, D, st, cur, U), KeepCPU(list, st)
    PROVE  /\ IsInjective(ready_list)'
           /\ Links(ToSet(ready_list'), A, D, status', cur', U)
BY DEF KeepCPU

LEMMA Checked ==
    ASSUME TypeOK, NEW list \in Seq(Threads), IsInjective(list), NEW A, NEW D, NEW st, NEW U,
           Links(ToSet(list), A, D, st, cur, U),
           NEW pri \in [Tasks -> Priorities], thread_check_priority(list, st, pri)
    PROVE  /\ IsInjective(ready_list)'
           /\ Links(ToSet(ready_list'), A, D, status', cur', U)
<1>1. CASE Outranked(list, pri)
  BY <1>1, Yielded DEF thread_check_priority
<1>2. CASE ~ Outranked(list, pri)
  BY <1>2, KeptCPU DEF thread_check_priority
<1> QED
  BY <1>1, <1>2

-----------------------------------------------------------------------------
(* Frames: what each thread keeps in its locals.                           *)

LEMMA UnbornSame ==
    ASSUME \A p \in Threads : Starts(frame'[p]) = Starts(frame[p])
    PROVE  Unborn' = Unborn
<1>1. \A t, p \in Threads : frame[p].child = t /\ frame[p].pc # "create_check"
                              <=> Starts(frame[p]) = t
  BY ObjectsAssumption DEF Starts
<1>2. \A t, p \in Threads : frame'[p].child = t /\ frame'[p].pc # "create_check"
                              <=> Starts(frame'[p]) = t
  BY ObjectsAssumption DEF Starts
<1> QED
  BY <1>1, <1>2 DEF Unborn, Unstarted

\* The running thread comes to a place with no more to start than before.
Proceeds(t) ==
    /\ OwnShape(t, frame'[t]) /\ Starts(frame'[t]) = Starts(frame[t])
    /\ \A u \in Threads : u # t => frame'[u] = frame[u]

LEMMA ChildrenKept ==
    ASSUME ChildrenOK, NEW t \in Threads, Proceeds(t)
    PROVE  ChildrenOK' /\ Unborn' = Unborn
<1>1. \A p \in Threads : Starts(frame'[p]) = Starts(frame[p])
  BY DEF Proceeds
<1>2. Unborn' = Unborn
  BY <1>1, UnbornSame
<1>3. \A u \in Threads : OwnShape(u, frame'[u])
  BY DEF Proceeds, ChildrenOK
<1> QED
  BY <1>1, <1>2, <1>3 DEF ChildrenOK

\* Frames of clients.
LEMMA PlainOwn ==
    ASSUME NEW t, NEW f, f.child = NULL, f.op # "thread_create",
           f.pc \in {"down", "down_blocked"} => f.sema \notin Threads
    PROVE  OwnShape(t, f) /\ Starts(f) = NULL
BY DEF OwnShape, Starts

LEMMA CallProceeds ==
    ASSUME KernelInv, CallsOK, ChildrenOK, NEW t \in Threads, ClientCall(t), ~ CallCreate(t)
    PROVE  Proceeds(t)
<1>1. /\ frame[t].pc = "user" /\ frame \in [Tasks -> FrameType] /\ frame[t] \in FrameType
  BY DEF ClientCall, CallYield, CallSetPriority, CallCreate, CallSleep, CallExit,
     CallSemaDown, CallSemaUp, CallSemaTryDown, CallAcquire, CallTryAcquire, CallRelease,
     CallCondWait, CallCondSignal, CallCondBroadcast, ThreadYield, ThreadSetPriority,
     ThreadCreate, TimerSleep, ThreadExit, SemaCall, SemaTryDown, LockAcquire,
     LockTryAcquire, LockRelease, CondWait, CondSignal, CondBroadcast, At,
     KernelInv, TypeOK, ControlType
<1>2. OwnShape(t, frame[t]) /\ frame[t].op = "none"
  BY <1>1, InUser DEF ChildrenOK
<1>3. frame[t].child = NULL /\ Starts(frame[t]) = NULL
  BY <1>2 DEF OwnShape, Starts
<1>4. ASSUME NEW f, frame' = [frame EXCEPT ![t] = f], f.child = NULL,
             f.op # "thread_create", f.pc \in {"down", "down_blocked"} => f.sema \notin Threads
      PROVE  Proceeds(t)
  <2>1. frame'[t] = f /\ \A u \in Threads : u # t => frame'[u] = frame[u]
    BY <1>1, <1>4
  <2> QED
    BY <1>3, <1>4, <2>1, PlainOwn DEF Proceeds
<1>5. CASE UNCHANGED frame
  BY <1>2, <1>5 DEF Proceeds
<1>6. CASE CallSleep(t)
  <2>1. frame' = [frame EXCEPT ![t] = [frame[t] EXCEPT !.pc = "sleep_insert"]]
    BY <1>1, <1>6 DEF CallSleep, TimerSleep, Goto
  <2> DEFINE f == [frame[t] EXCEPT !.pc = "sleep_insert"]
  <2>2. f.child = NULL /\ f.op = "none" /\ f.pc = "sleep_insert"
    BY <1>1, <1>2, <1>3 DEF FrameType
  <2> HIDE DEF f
  <2> QED
    BY <1>4, <2>1, <2>2 DEF f
<1>7. CASE CallSemaDown(t) \/ CallSemaUp(t)
  <2>1. PICK pc \in {"down", "up"}, s \in Semas :
           frame' = [frame EXCEPT ![t] = [frame[t] EXCEPT !.pc = pc, !.sema = s]]
    BY <1>1, <1>7 DEF CallSemaDown, CallSemaUp, SemaCall
  <2> DEFINE f == [frame[t] EXCEPT !.pc = pc, !.sema = s]
  <2>2. f.child = NULL /\ f.op = "none" /\ f.sema \notin Threads
    BY <1>1, <1>2, <1>3, ObjectsAssumption DEF FrameType
  <2> HIDE DEF f
  <2> QED
    BY <1>4, <2>1, <2>2 DEF f
<1>8. CASE \/ CallAcquire(t) \/ CallTryAcquire(t) \/ CallRelease(t) \/ CallCondWait(t)
           \/ CallCondBroadcast(t)
  <2>1. PICK f : /\ frame' = [frame EXCEPT ![t] = f]
                 /\ \/ \E pc \in {"check_holder", "try_take", "unlist"}, l \in Locks :
                          f = LockFrame(pc, l)
                    \/ \E l : f = [LockFrame("unlist", l) EXCEPT !.op = "cond_wait"]
                    \/ \E c : f = [FrameAt("broadcast") EXCEPT !.op = "cond_broadcast",
                                                               !.cond = c]
    BY <1>8 DEF CallAcquire, CallTryAcquire, CallRelease, CallCondWait, CallCondBroadcast,
       LockAcquire, LockTryAcquire, LockRelease, CondWait, CondBroadcast, ClientLocks, Held
  <2>2. f.child = NULL /\ f.op # "thread_create" /\ f.pc \notin {"down", "down_blocked"}
    BY <2>1 DEF LockFrame, UserFrame, FrameAt
  <2> QED
    BY <1>4, <2>1, <2>2
<1>9. CASE CallCondSignal(t)
  <2>1. PICK c \in Conds : SignalFirst(t, c, UserFrame)
    BY <1>9 DEF CallCondSignal, CondSignal
  <2>2. PICK s : frame' = [frame EXCEPT ![t] = [UserFrame EXCEPT !.pc = "up", !.sema = s]]
    BY <2>1 DEF SignalFirst
  <2> DEFINE f == [UserFrame EXCEPT !.pc = "up", !.sema = s]
  <2>3. f.child = NULL /\ f.op = "none" /\ f.pc = "up"
    BY DEF UserFrame, FrameAt
  <2> HIDE DEF f
  <2> QED
    BY <1>4, <2>2, <2>3 DEF f
<1>10. CASE CallYield(t) \/ CallSetPriority(t) \/ CallExit(t) \/ CallSemaTryDown(t)
  <2>1. UNCHANGED frame
    BY <1>10 DEF CallYield, CallSetPriority, CallExit, CallSemaTryDown, ThreadYield,
       ThreadSetPriority, ThreadExit, SemaTryDown, schedVars
  <2> QED
    BY <1>5, <2>1
<1> QED
  BY <1>6, <1>7, <1>8, <1>9, <1>10 DEF ClientCall

\* A thread inside thread_create() stays there until the child is started.
LEMMA ReturnProceeds ==
    ASSUME KernelInv, NEW t \in Threads, ReturnToUser(t), Starts(frame[t]) = NULL
    PROVE  Proceeds(t)
<1>1. frame'[t] = UserFrame /\ \A u \in Threads : u # t => frame'[u] = frame[u]
  BY DEF ReturnToUser, KernelInv, TypeOK, ControlType
<1>2. OwnShape(t, UserFrame) /\ Starts(UserFrame) = NULL
  BY DEF OwnShape, Starts, UserFrame, FrameAt
<1> QED
  BY <1>1, <1>2 DEF Proceeds

\* The same API call at another place, with no child or before it is started.
LEMMA MovedOn ==
    ASSUME KernelInv, ChildrenOK, NEW t \in Threads, NEW f \in FrameType,
           frame' = [frame EXCEPT ![t] = f],
           f.op = frame[t].op, f.child = frame[t].child, f.lock = frame[t].lock,
           f.pc \notin {"create_check", "user"}, frame[t].pc # "create_check",
           f.op = "thread_create" =>
              /\ f.pc \in {"check_holder", "mark_waiting", "donate", "down", "down_blocked",
                           "take", "unlist", "clear_holder", "up", "create_unblock"}
              /\ f.pc \in {"down", "down_blocked", "up"} => f.sema = TidLock,
           f.pc \in {"down", "down_blocked"} /\ f.sema \in Threads =>
              f.sema = t /\ f.op = "cond_wait"
    PROVE  Proceeds(t)
<1>1. frame'[t] = f /\ \A u \in Threads : u # t => frame'[u] = frame[u]
  BY DEF KernelInv, TypeOK, ControlType
<1>2. OwnShape(t, frame[t])
  BY DEF ChildrenOK
<1>3. OwnShape(t, f)
  BY <1>2 DEF OwnShape
<1>4. Starts(f) = Starts(frame[t])
  BY DEF Starts
<1> QED
  BY <1>1, <1>3, <1>4 DEF Proceeds

LEMMA SleepProceeds ==
    ASSUME KernelInv, CallsOK, ChildrenOK, NEW t \in Threads, SleepInsert(t) \/ SleepReturn(t)
    PROVE  Proceeds(t)
<1>1. /\ frame \in [Tasks -> FrameType] /\ frame[t] \in FrameType /\ OwnShape(t, frame[t])
      /\ frame[t].pc \in {"sleep_insert", "sleep_blocked"}
  BY DEF SleepInsert, SleepReturn, At, KernelInv, TypeOK, ControlType, ChildrenOK
<1>2. frame[t].op # "thread_create" /\ Starts(frame[t]) = NULL
  BY <1>1 DEF OwnShape, Starts
<1>3. CASE SleepReturn(t)
  BY <1>2, <1>3, ReturnProceeds DEF SleepReturn
<1>4. CASE SleepInsert(t)
  <2> DEFINE f == [frame[t] EXCEPT !.pc = "sleep_blocked"]
  <2>1. frame' = [frame EXCEPT ![t] = f]
    BY <1>1, <1>4 DEF SleepInsert, Goto
  <2>2. /\ f \in FrameType /\ f.pc = "sleep_blocked" /\ f.op = frame[t].op
        /\ f.child = frame[t].child /\ f.lock = frame[t].lock
    BY <1>1 DEF FrameType, PCs
  <2> HIDE DEF f
  <2> QED
    BY <1>1, <1>2, <2>1, <2>2, MovedOn
<1> QED
  BY <1>3, <1>4

LEMMA SemaDownProceeds ==
    ASSUME KernelInv, CallsOK, ChildrenOK, NEW t \in Threads, SemaDown(t)
    PROVE  Proceeds(t)
<1>1. /\ frame \in [Tasks -> FrameType] /\ frame[t] \in FrameType /\ OwnShape(t, frame[t])
      /\ frame[t].pc \in {"down", "down_blocked"} /\ FrameShape(frame[t])
  BY DEF SemaDown, At, KernelInv, TypeOK, ControlType, ChildrenOK, FramesOK
<1>2. frame[t].sema \notin Locks => frame[t].op # "thread_create" /\ Starts(frame[t]) = NULL
  BY <1>1, ObjectsAssumption DEF OwnShape, Starts
<1>3. Goto(t, "down_blocked") \/ frame' = [frame EXCEPT ![t] = AfterDown(t)]
  BY DEF SemaDown, SemaDownWait, SemaDownTake
<1>4. CASE Goto(t, "down_blocked")
  <2> DEFINE f == [frame[t] EXCEPT !.pc = "down_blocked"]
  <2>1. frame' = [frame EXCEPT ![t] = f]
    BY <1>1, <1>4 DEF Goto
  <2>2. /\ f \in FrameType /\ f.pc = "down_blocked" /\ f.op = frame[t].op
        /\ f.child = frame[t].child /\ f.lock = frame[t].lock /\ f.sema = frame[t].sema
    BY <1>1 DEF FrameType, PCs
  <2> HIDE DEF f
  <2>3. f.op = "thread_create" => f.sema = TidLock
    BY <1>1, <2>2 DEF OwnShape
  <2>4. f.sema \in Threads => f.sema = t /\ f.op = "cond_wait"
    BY <1>1, <2>2 DEF OwnShape
  <2> QED
    BY <1>1, <2>1, <2>2, <2>3, <2>4, MovedOn
<1>5. ASSUME NEW pc \in {"take", "check_holder"},
             frame' = [frame EXCEPT ![t] = [[frame[t] EXCEPT !.sema = NULL] EXCEPT !.pc = pc]]
      PROVE  Proceeds(t)
  <2> DEFINE f == [[frame[t] EXCEPT !.sema = NULL] EXCEPT !.pc = pc]
  <2>1. /\ f \in FrameType /\ f.pc = pc /\ f.op = frame[t].op
        /\ f.child = frame[t].child /\ f.lock = frame[t].lock
    BY <1>1 DEF FrameType, PCs
  <2> HIDE DEF f
  <2>2. frame' = [frame EXCEPT ![t] = f]
    BY <1>5 DEF f
  <2> QED
    BY <1>1, <2>1, <2>2, MovedOn
<1>6. CASE frame' = [frame EXCEPT ![t] = AfterDown(t)]
  <2>1. CASE frame[t].sema \in Locks
    BY <1>5, <1>6, <2>1 DEF AfterDown
  <2>2. CASE frame[t].sema \notin Locks /\ frame[t].sema \in Threads
    BY <1>5, <1>6, <2>2 DEF AfterDown
  <2>3. CASE frame[t].sema \notin Locks /\ frame[t].sema \notin Threads
    <3>1. ReturnToUser(t)
      BY <1>6, <2>3 DEF AfterDown, ReturnToUser
    <3> QED
      BY <1>2, <2>3, <3>1, ReturnProceeds
  <2> QED
    BY <2>1, <2>2, <2>3
<1> QED
  BY <1>3, <1>4, <1>6

LEMMA SemaUpProceeds ==
    ASSUME KernelInv, CallsOK, ChildrenOK, NEW t \in Threads, SemaUp(t)
    PROVE  Proceeds(t)
<1>1. /\ frame \in [Tasks -> FrameType] /\ frame[t] \in FrameType /\ OwnShape(t, frame[t])
      /\ frame[t].pc = "up" /\ frame' = [frame EXCEPT ![t] = AfterUp(t)]
  BY DEF SemaUp, At, KernelInv, TypeOK, ControlType, ChildrenOK
<1> DEFINE g == [frame[t] EXCEPT !.sema = NULL]
<1>2. /\ g.op = frame[t].op /\ g.child = frame[t].child /\ g.lock = frame[t].lock
      /\ g \in FrameType
  BY <1>1 DEF FrameType
<1>3. ASSUME NEW f \in FrameType, f = AfterUp(t), f.op = g.op, f.child = g.child,
             f.lock = g.lock,
             \/ f.op = "thread_create" /\ f.pc = "create_unblock"
             \/ f.op = "cond_wait" /\ f.pc = "down" /\ f.sema = t
             \/ f.op = "cond_broadcast" /\ f.pc = "broadcast"
      PROVE  Proceeds(t)
  BY <1>1, <1>2, <1>3, MovedOn
<1>4. CASE frame[t].op = "thread_create"
  <2> DEFINE f == [g EXCEPT !.pc = "create_unblock"]
  <2>1. /\ f \in FrameType /\ f.op = g.op /\ f.child = g.child /\ f.lock = g.lock
        /\ f.pc = "create_unblock"
    BY <1>2 DEF FrameType, PCs
  <2>2. AfterUp(t) = f
    BY <1>2, <1>4 DEF AfterUp
  <2> HIDE DEF f, g
  <2> QED
    BY <1>2, <1>3, <1>4, <2>1, <2>2
<1>5. CASE frame[t].op = "cond_wait"
  <2> DEFINE f == [g EXCEPT !.pc = "down", !.sema = t]
  <2>1. /\ f \in FrameType /\ f.op = g.op /\ f.child = g.child /\ f.lock = g.lock
        /\ f.pc = "down" /\ f.sema = t
    BY <1>2 DEF FrameType, PCs, Semaphores
  <2>2. AfterUp(t) = f
    BY <1>2, <1>5 DEF AfterUp
  <2> HIDE DEF f, g
  <2> QED
    BY <1>2, <1>3, <1>5, <2>1, <2>2
<1>6. CASE frame[t].op = "cond_broadcast"
  <2> DEFINE f == [g EXCEPT !.pc = "broadcast"]
  <2>1. /\ f \in FrameType /\ f.op = g.op /\ f.child = g.child /\ f.lock = g.lock
        /\ f.pc = "broadcast"
    BY <1>2 DEF FrameType, PCs
  <2>2. AfterUp(t) = f
    BY <1>2, <1>6 DEF AfterUp
  <2> HIDE DEF f, g
  <2> QED
    BY <1>2, <1>3, <1>6, <2>1, <2>2
<1>7. CASE frame[t].op \notin {"thread_create", "cond_wait", "cond_broadcast"}
  <2>1. ReturnToUser(t) /\ Starts(frame[t]) = NULL
    BY <1>1, <1>2, <1>7 DEF AfterUp, ReturnToUser, OwnShape, Starts
  <2> QED
    BY <2>1, ReturnProceeds
<1> QED
  BY <1>4, <1>5, <1>6, <1>7

LEMMA AcquireProceeds ==
    ASSUME KernelInv, CallsOK, ChildrenOK, NEW t \in Threads,
           CheckHolder(t) \/ MarkWaiting(t) \/ Donate(t) \/ DonateStop(t)
    PROVE  Proceeds(t)
<1> DEFINE l == frame[t].lock
<1>1. /\ frame \in [Tasks -> FrameType] /\ frame[t] \in FrameType /\ OwnShape(t, frame[t])
      /\ l \in Locks /\ frame[t].pc \in {"check_holder", "mark_waiting", "donate"}
  BY DEF CheckHolder, MarkWaiting, Donate, DonateStop, At, KernelInv, TypeOK, ControlType,
     FramesOK, FrameShape, ChildrenOK
<1>2. \/ UNCHANGED frame
      \/ \E pc \in {"mark_waiting"} : frame' = [frame EXCEPT ![t].pc = pc]
      \/ frame' = [frame EXCEPT ![t].pc = "down", ![t].sema = l]
      \/ frame' = [frame EXCEPT ![t].pc = "donate", ![t].dlock = l]
      \/ frame' = [frame EXCEPT ![t].dlock = wait_for_lock[holder[frame[t].dlock]],
                                ![t].depth = @ + 1]
      \/ frame' = [frame EXCEPT ![t].pc = "down", ![t].sema = l,
                                ![t].dlock = NULL, ![t].depth = 0]
  BY DEF CheckHolder, MarkWaiting, Donate, DonateStep, DonateStop, Crash
<1>3. \A u \in Threads : u # t => frame'[u] = frame[u]
  BY <1>1, <1>2
<1>4. /\ frame'[t].op = frame[t].op /\ frame'[t].lock = l /\ frame'[t].child = frame[t].child
      /\ \/ frame'[t].pc \in {"check_holder", "mark_waiting", "donate"}
         \/ frame'[t].pc = "down" /\ frame'[t].sema = l
  BY <1>1, <1>2 DEF FrameType
<1>5. l \notin Threads
  BY <1>1, ObjectsAssumption
<1>6. OwnShape(t, frame'[t])
  BY <1>1, <1>4, <1>5 DEF OwnShape
<1>7. Starts(frame'[t]) = Starts(frame[t])
  BY <1>1, <1>4 DEF Starts
<1> QED
  BY <1>3, <1>6, <1>7 DEF Proceeds

LEMMA LockedProceeds ==
    ASSUME KernelInv, CallsOK, ChildrenOK, NEW t \in Threads,
           Take(t) \/ TryTake(t) \/ Unlist(t) \/ ClearHolder(t)
    PROVE  Proceeds(t)
<1> DEFINE l == frame[t].lock
<1>1. /\ frame \in [Tasks -> FrameType] /\ frame[t] \in FrameType /\ OwnShape(t, frame[t])
      /\ l \in Locks /\ frame[t].pc \in {"take", "try_take", "unlist", "clear_holder"}
  BY DEF Take, TryTake, Unlist, ClearHolder, At, KernelInv, TypeOK, ControlType,
     FramesOK, FrameShape, ChildrenOK
<1>2. \/ UNCHANGED frame
      \/ frame' = [frame EXCEPT ![t].pc = "unlist"]
      \/ frame' = [frame EXCEPT ![t].pc = "clear_holder"]
      \/ frame' = [frame EXCEPT ![t].pc = "up", ![t].sema = l]
      \/ ReturnToUser(t) /\ frame[t].op # "thread_create"
  <2>1. TryTake(t) => frame[t].op # "thread_create"
    BY <1>1 DEF TryTake, At, OwnShape
  <2> QED
    BY <2>1 DEF Take, TryTake, Unlist, ClearHolder, Goto, Crash
<1>3. CASE ReturnToUser(t) /\ frame[t].op # "thread_create"
  <2>1. Starts(frame[t]) = NULL
    BY <1>1, <1>3 DEF OwnShape, Starts
  <2> QED
    BY <1>3, <2>1, ReturnProceeds
<1>4. CASE ~ (ReturnToUser(t) /\ frame[t].op # "thread_create")
  <2>1. \A u \in Threads : u # t => frame'[u] = frame[u]
    BY <1>1, <1>2, <1>4
  <2>2. /\ frame'[t].op = frame[t].op /\ frame'[t].lock = l /\ frame'[t].child = frame[t].child
        /\ \/ frame'[t] = frame[t]
           \/ frame'[t].pc \in {"unlist", "clear_holder"}
           \/ frame'[t].pc = "up" /\ frame'[t].sema = l
    BY <1>1, <1>2, <1>4 DEF FrameType
  <2>3. OwnShape(t, frame'[t])
    BY <1>1, <2>2 DEF OwnShape
  <2>4. Starts(frame'[t]) = Starts(frame[t])
    BY <1>1, <2>2 DEF Starts
  <2> QED
    BY <2>1, <2>3, <2>4 DEF Proceeds
<1> QED
  BY <1>3, <1>4

LEMMA BroadcastProceeds ==
    ASSUME KernelInv, CallsOK, ChildrenOK, NEW t \in Threads, BroadcastNext(t)
    PROVE  Proceeds(t)
<1> DEFINE c == frame[t].cond
<1>1. /\ frame \in [Tasks -> FrameType] /\ frame[t] \in FrameType /\ OwnShape(t, frame[t])
      /\ frame[t].pc = "broadcast"
  BY DEF BroadcastNext, At, KernelInv, TypeOK, ControlType, ChildrenOK
<1>2. frame[t].op # "thread_create" /\ frame[t].child = NULL /\ Starts(frame[t]) = NULL
  BY <1>1 DEF OwnShape, Starts
<1>3. CASE cond_waiters[c] = <<>>
  BY <1>2, <1>3, ReturnProceeds DEF BroadcastNext
<1>4. CASE cond_waiters[c] # <<>>
  <2>1. PICK s : frame' = [frame EXCEPT ![t] = [frame[t] EXCEPT !.pc = "up", !.sema = s]]
    BY <1>4 DEF BroadcastNext, SignalFirst
  <2> DEFINE f == [frame[t] EXCEPT !.pc = "up", !.sema = s]
  <2>2. f.child = NULL /\ f.op # "thread_create" /\ f.pc = "up"
    BY <1>1, <1>2 DEF FrameType
  <2> HIDE DEF f
  <2>3. frame'[t] = f /\ \A u \in Threads : u # t => frame'[u] = frame[u]
    BY <1>1, <2>1 DEF f
  <2> QED
    BY <1>2, <2>2, <2>3, PlainOwn DEF Proceeds
<1> QED
  BY <1>3, <1>4

LEMMA CreateCheckProceeds ==
    ASSUME KernelInv, CallsOK, ChildrenOK, NEW t \in Threads, CreateCheck(t)
    PROVE  Proceeds(t)
<1>1. Starts(frame[t]) = NULL
  BY DEF CreateCheck, At, Starts
<1> QED
  BY <1>1, ReturnProceeds DEF CreateCheck

\* A step of the running thread inside the kernel.
LEMMA StepProceeds ==
    ASSUME KernelInv, CallsOK, ChildrenOK, NEW t \in Threads, KernelStep(t), ~ CreateUnblock(t)
    PROVE  Proceeds(t)
BY SleepProceeds, SemaDownProceeds, SemaUpProceeds, AcquireProceeds, LockedProceeds,
   BroadcastProceeds, CreateCheckProceeds
   DEF KernelStep, SchedStep, SleepStep, SynchStep

-----------------------------------------------------------------------------
(* A step relinks threads: the lists stay apart, and whoever it adds to a  *)
(* list of blocked threads is the one that was running.                    *)

Joins ==
    /\ \A u \in ToSet(wait_list') :
          \/ u \in ToSet(wait_list)
          \/ u = cur /\ frame'[u].pc = "sleep_blocked"
    /\ \A s \in Semaphores : \A u \in ToSet(waiters'[s]) :
          \/ u \in ToSet(waiters[s])
          \/ u = cur /\ frame'[u].pc = "down_blocked" /\ frame'[u].sema = s

Relinked == LinkedOnce' /\ Linked' /\ Joins

LEMMA NowLinked ==
    ASSUME KernelInv, LinksInv
    PROVE  Linked /\ LinkedOnce
BY LinkedTypes DEF KernelInv, LinksInv, ListsOK, Linked, Links

\* Only the CPU is given away, or not even that.
LEMMA SwitchLinks ==
    ASSUME KernelInv, LinksInv, UNCHANGED <<wait_list, waiters>>, IsInjective(ready_list)',
           Links(ToSet(ready_list'), ToSet(wait_list), WaitersOf, status', cur', Unborn')
    PROVE  Relinked
<1>1. WaitersOf' = WaitersOf
  BY DEF WaitersOf
<1>2. LinkedOnce'
  BY NowLinked DEF LinkedOnce
<1>3. Linked'
  BY <1>1 DEF Linked
<1> QED
  BY <1>2, <1>3 DEF Relinked, Joins

LEMMA SameLinks ==
    ASSUME KernelInv, LinksInv, UNCHANGED <<ready_list, status, cur, wait_list, waiters>>,
           Unborn' = Unborn
    PROVE  Relinked
<1>1. IsInjective(ready_list)'
  BY NowLinked DEF LinkedOnce
<1>2. Links(ToSet(ready_list'), ToSet(wait_list), WaitersOf, status', cur', Unborn')
  BY NowLinked DEF Linked
<1> QED
  BY <1>1, <1>2, SwitchLinks

\* Nobody waits for the semaphore of a condition's waiter but that waiter.
LEMMA OwnWaiters ==
    ASSUME KernelInv, LinksInv, NEW t \in Threads, frame[t].pc # "down_blocked"
    PROVE  ToSet(waiters[t]) = {}
<1>1. ASSUME NEW u \in ToSet(waiters[t]) PROVE FALSE
  <2>1. ToSet(waiters[t]) \in SUBSET Threads
    BY MembersType DEF KernelInv, TypeOK, SemaType, Semaphores
  <2>2. frame[u].pc = "down_blocked" /\ frame[u].sema = t
    BY <1>1 DEF LinksInv, ListsOK, Semaphores
  <2>3. OwnShape(u, frame[u])
    BY <2>1, <1>1 DEF LinksInv, ChildrenOK
  <2>4. u = t
    BY <2>2, <2>3 DEF OwnShape
  <2> QED
    BY <2>2, <2>4
<1> QED
  BY <1>1

LEMMA CallLinks ==
    ASSUME KernelInv, CallsOK, LinksInv, NEW t \in Threads, ClientCall(t), ~ CallCreate(t)
    PROVE  Relinked
<1>1. Unborn' = Unborn
  BY CallProceeds, ChildrenKept DEF LinksInv
<1>2. /\ Linked /\ LinkedOnce /\ TypeOK /\ ready_list \in Seq(Threads)
      /\ IsInjective(ready_list) /\ priority \in [Tasks -> Priorities]
  BY NowLinked DEF KernelInv, TypeOK, CPUType, PriorityType, LinkedOnce
<1>3. CASE CallYield(t)
  <2>1. /\ thread_yield(ready_list, status, priority) /\ UNCHANGED <<wait_list, waiters>>
    BY <1>3 DEF CallYield, ThreadYield, alarmVars, synchVars, semaVars
  <2>2. /\ IsInjective(ready_list)'
        /\ Links(ToSet(ready_list'), ToSet(wait_list), WaitersOf, status', cur', Unborn)
    BY <1>2, <2>1, Yielded DEF Linked
  <2> QED
    BY <1>1, <2>1, <2>2, SwitchLinks
<1>4. CASE CallSetPriority(t)
  <2>1. PICK new \in NewPriorities : ThreadSetPriority(t, new)
    BY <1>4 DEF CallSetPriority
  <2>2. UNCHANGED <<wait_list, waiters>>
    BY <1>4 DEF CallSetPriority, alarmVars, synchVars, semaVars
  <2>3. CASE SetsEffective(t, new)
    <3> DEFINE lowered == [priority EXCEPT ![t] = new]
    <3>1. lowered \in [Tasks -> Priorities]
      BY ClientAssumption, <1>2
    <3>2. thread_check_priority(ready_list, status, lowered)
      BY <2>1, <2>3 DEF ThreadSetPriority
    <3> HIDE DEF lowered
    <3>3. /\ IsInjective(ready_list)'
          /\ Links(ToSet(ready_list'), ToSet(wait_list), WaitersOf, status', cur', Unborn)
      BY <1>2, <3>1, <3>2, Checked DEF Linked
    <3> QED
      BY <1>1, <2>2, <3>3, SwitchLinks
  <2>4. CASE ~ SetsEffective(t, new)
    BY <1>1, <2>1, <2>2, <2>4, SameLinks DEF ThreadSetPriority, cpuVars
  <2> QED
    BY <2>3, <2>4
<1>5. CASE CallExit(t)
  <2>1. /\ cur = t /\ schedule(ready_list, [status EXCEPT ![t] = "dying"])
        /\ UNCHANGED <<wait_list, waiters>>
    BY <1>5 DEF CallExit, ThreadExit, At, alarmVars, synchVars, semaVars
  <2>2. Links(ToSet(ready_list), ToSet(wait_list), WaitersOf,
              [status EXCEPT ![t] = "dying"], NULL, Unborn)
    BY <1>2, <2>1, LinkExit DEF Linked
  <2>3. /\ IsInjective(ready_list)'
        /\ Links(ToSet(ready_list'), ToSet(wait_list), WaitersOf, status', cur', Unborn)
    BY <1>2, <2>1, <2>2, Switched
  <2> QED
    BY <1>1, <2>1, <2>3, SwitchLinks
<1>6. CASE CallCondWait(t)
  <2>1. /\ waiters' = [waiters EXCEPT ![t] = <<>>] /\ frame[t].pc = "user"
        /\ UNCHANGED <<ready_list, status, cur, wait_list>>
    BY <1>6 DEF CallCondWait, CondWait, At, alarmVars, cpuVars
  <2>2. ToSet(waiters[t]) = {}
    BY <2>1, OwnWaiters
  <2>3. \A s \in Semaphores : /\ waiters'[s] = IF s = t THEN <<>> ELSE waiters[s]
                              /\ ToSet(waiters'[s]) = ToSet(waiters[s])
    <3>1. waiters \in [Semaphores -> Seq(Threads)] /\ t \in Semaphores
      BY <1>2 DEF TypeOK, SemaType, Semaphores
    <3>2. ToSet(<<>>) = {}
      BY DEF ToSet
    <3> QED
      BY <2>1, <2>2, <3>1, <3>2
  <2>4. WaitersOf' = WaitersOf
    BY <2>3 DEF WaitersOf
  <2>5. LinkedOnce'
    <3>1. IsInjective(<<>>)
      BY DEF IsInjective
    <3> QED
      BY <1>2, <2>1, <2>3, <3>1 DEF LinkedOnce
  <2>6. Linked'
    BY <1>1, <1>2, <2>1, <2>4 DEF Linked
  <2> QED
    BY <2>1, <2>3, <2>5, <2>6 DEF Relinked, Joins
<1>7. CASE \/ CallSleep(t) \/ CallSemaDown(t) \/ CallSemaUp(t) \/ CallSemaTryDown(t)
           \/ CallAcquire(t) \/ CallTryAcquire(t) \/ CallRelease(t)
           \/ CallCondSignal(t) \/ CallCondBroadcast(t)
  <2>1. UNCHANGED <<ready_list, status, cur, wait_list, waiters>>
    BY <1>7 DEF CallSleep, CallSemaDown, CallSemaUp, CallSemaTryDown, CallAcquire,
       CallTryAcquire, CallRelease, CallCondSignal, CallCondBroadcast,
       TimerSleep, SemaCall, SemaTryDown, LockAcquire, LockTryAcquire, LockRelease,
       CondSignal, CondBroadcast, SignalFirst, schedVars, cpuVars, alarmVars, synchVars,
       semaVars
  <2> QED
    BY <1>1, <2>1, SameLinks, SMTT(30)
<1> QED
  BY <1>3, <1>4, <1>5, <1>6, <1>7, SMTT(30) DEF ClientCall

\* thread_create() makes one more child that is to be started.
LEMMA UnbornMembers ==
    ASSUME NEW f, NEW c \in Threads
    PROVE  Starts(f) = c <=> f.child = c /\ f.pc # "create_check"
BY ObjectsAssumption DEF Starts

LEMMA CreateLinks ==
    ASSUME KernelInv, CallsOK, LinksInv, NEW t \in Threads, CallCreate(t)
    PROVE  Relinked /\ ChildrenOK' /\ \E c \in Threads : Gone(c) /\ Unborn' = Unborn \cup {c}
<1> DEFINE F(c) == [UserFrame EXCEPT !.pc = "check_holder", !.op = "thread_create",
                                     !.lock = TidLock, !.child = c]
<1>1. PICK child \in Threads, pri \in NewPriorities : ThreadCreate(t, child, pri)
  BY DEF CallCreate
<1>2. /\ cur = t /\ frame[t].pc = "user" /\ status[child] = "free"
      /\ status' = [status EXCEPT ![child] = "blocked"]
      /\ frame' = [frame EXCEPT ![child] = UserFrame, ![t] = F(child)]
      /\ UNCHANGED <<ready_list, cur, wait_list, waiters>>
  BY <1>1 DEF CallCreate, ThreadCreate, At, alarmVars, synchVars, semaVars
<1>3. /\ Linked /\ LinkedOnce /\ frame \in [Tasks -> FrameType]
  BY NowLinked DEF KernelInv, TypeOK, ControlType
<1>4. child # t /\ child \notin Unborn
  BY <1>2, <1>3 DEF Linked, Links, Linking
<1>5. /\ Starts(UserFrame) = NULL /\ OwnShape(child, UserFrame)
      /\ Starts(F(child)) = child /\ OwnShape(t, F(child))
  BY DEF Starts, OwnShape, UserFrame, FrameAt
<1> HIDE DEF F
<1>6. ASSUME NEW p \in Threads, frame[p].pc = "user" PROVE Starts(frame[p]) = NULL
  BY <1>6 DEF LinksInv, ChildrenOK, OwnShape, CallsOK, CallOK, CallShape, Starts
<1>7. frame[child].pc = "user"
  BY <1>2 DEF KernelInv, GoneFromKernel, Gone
<1>8. \A p \in Threads : frame'[p] = IF p = t THEN F(child)
                                     ELSE IF p = child THEN UserFrame ELSE frame[p]
  BY <1>2, <1>3, <1>4
<1>9. \A p \in Threads : Starts(frame'[p]) = IF p = t THEN child ELSE Starts(frame[p])
  BY <1>5, <1>6, <1>7, <1>8
<1>10. Unborn' = Unborn \cup {child}
  <2>1. \A c \in Threads : c \in Unborn <=> \E p \in Threads : Starts(frame[p]) = c
    BY UnbornMembers DEF Unborn, Unstarted
  <2>2. \A c \in Threads : c \in Unborn' <=> \E p \in Threads : Starts(frame'[p]) = c
    BY UnbornMembers DEF Unborn, Unstarted
  <2>3. Starts(frame[t]) = NULL /\ NULL \notin Threads
    BY <1>2, <1>6, ObjectsAssumption
  <2>4. \A c \in Threads : c \in Unborn' <=> c \in Unborn \/ c = child
    BY <1>9, <2>1, <2>2, <2>3
  <2>5. Unborn \subseteq Threads /\ Unborn' \subseteq Threads
    BY DEF Unborn
  <2> QED
    BY <2>4, <2>5
<1>11. \A p \in Threads : Starts(frame[p]) # child
  BY <1>4, UnbornMembers DEF Unborn, Unstarted
<1>12. ChildrenOK'
  <2>1. \A p \in Threads : OwnShape(p, frame'[p])
    BY <1>5, <1>8 DEF LinksInv, ChildrenOK
  <2>2. \A p, q, c \in Threads : Starts(frame'[p]) = c /\ Starts(frame'[q]) = c => p = q
    BY <1>9, <1>11 DEF LinksInv, ChildrenOK
  <2> QED
    BY <2>1, <2>2 DEF ChildrenOK
<1>13. Links(ToSet(ready_list'), ToSet(wait_list), WaitersOf, status', cur', Unborn')
  BY <1>2, <1>3, <1>10, LinkCreated DEF Linked
<1>14. Relinked
  BY <1>2, <1>3, <1>13, SwitchLinks DEF LinkedOnce
<1> QED
  BY <1>2, <1>10, <1>12, <1>14 DEF Gone

\* thread_unblock() starts it.
LEMMA UnblockLinks ==
    ASSUME KernelInv, CallsOK, LinksInv, NEW t \in Threads, SchedStep(t), CreateUnblock(t)
    PROVE  Relinked /\ ChildrenOK' /\ Unborn' \subseteq Unborn
<1> DEFINE child == frame[t].child
           f == [frame[t] EXCEPT !.pc = "create_check"]
<1>1. /\ frame[t].pc = "create_unblock" /\ child \in Threads /\ OwnShape(t, frame[t])
      /\ frame \in [Tasks -> FrameType] /\ frame[t] \in FrameType
  BY DEF CreateUnblock, At, KernelInv, FramesOK, FrameShape, LinksInv, ChildrenOK, TypeOK,
     ControlType
<1>2. /\ KeepCPU(UnblockedList(child), UnblockedStatus(child))
      /\ frame' = [frame EXCEPT ![t] = f] /\ UNCHANGED <<wait_list, waiters>>
  BY <1>1 DEF SchedStep, CreateUnblock, Goto, alarmVars, synchVars, semaVars
<1>3. Starts(f) = NULL /\ OwnShape(t, f) /\ Starts(frame[t]) = child
  BY <1>1 DEF Starts, OwnShape, FrameType
<1>4. Linked /\ LinkedOnce /\ ready_list \in Seq(Threads) /\ IsInjective(ready_list)
      /\ \A u \in Threads : priority[u] \in Int
  BY NowLinked, NumbersAssumption
     DEF KernelInv, TypeOK, CPUType, PriorityType, LinkedOnce
<1> HIDE DEF f
<1>5. \A p \in Threads : frame'[p] = IF p = t THEN f ELSE frame[p]
  BY <1>1, <1>2
<1>6. \A p \in Threads : Starts(frame'[p]) = IF p = t THEN NULL ELSE Starts(frame[p])
  BY <1>3, <1>5
<1>7. NULL \notin Threads /\ \A p, q, c \in Threads :
         Starts(frame[p]) = c /\ Starts(frame[q]) = c => p = q
  BY ObjectsAssumption DEF LinksInv, ChildrenOK
<1>8. child \in Unborn /\ Unborn' = Unborn \ {child}
  <2>1. \A c \in Threads : c \in Unborn <=> \E p \in Threads : Starts(frame[p]) = c
    BY UnbornMembers DEF Unborn, Unstarted
  <2>2. \A c \in Threads : c \in Unborn' <=> \E p \in Threads : Starts(frame'[p]) = c
    BY UnbornMembers DEF Unborn, Unstarted
  <2>3. Unborn \subseteq Threads /\ Unborn' \subseteq Threads
    BY DEF Unborn
  <2> HIDE DEF child
  <2>4. \A c \in Threads : c \in Unborn' <=> c \in Unborn /\ c # child
    BY <1>1, <1>3, <1>6, <1>7, <2>1, <2>2
  <2> QED
    BY <1>1, <1>3, <2>1, <2>3, <2>4
<1>9. ChildrenOK'
  <2>1. \A p \in Threads : OwnShape(p, frame'[p])
    BY <1>3, <1>5 DEF LinksInv, ChildrenOK
  <2>2. \A p, q, c \in Threads : Starts(frame'[p]) = c /\ Starts(frame'[q]) = c => p = q
    BY <1>6, <1>7
  <2> QED
    BY <2>1, <2>2 DEF ChildrenOK
<1> HIDE DEF child
<1>10. /\ child \notin ToSet(ready_list)
       /\ Links(ToSet(ready_list) \cup {child}, ToSet(wait_list), WaitersOf,
                UnblockedStatus(child), cur, Unborn')
  BY <1>4, <1>8, LinkStarted DEF Linked, UnblockedStatus
<1>11. /\ UnblockedList(child) \in Seq(Threads) /\ IsInjective(UnblockedList(child))
       /\ ToSet(UnblockedList(child)) = ToSet(ready_list) \cup {child}
  BY <1>1, <1>4, <1>10, InsertUnique, InsertOrderedType DEF UnblockedList
<1>12. /\ IsInjective(ready_list)'
       /\ Links(ToSet(ready_list'), ToSet(wait_list), WaitersOf, status', cur', Unborn')
  BY <1>2, <1>10, <1>11 DEF KeepCPU
<1>13. Relinked
  BY <1>2, <1>12, SwitchLinks
<1> QED
  BY <1>8, <1>9, <1>13

LEMMA CreateCheckLinks ==
    ASSUME KernelInv, LinksInv, NEW t \in Threads, SchedStep(t), CreateCheck(t),
           Unborn' = Unborn
    PROVE  Relinked
<1>1. thread_check_priority(ready_list, status, priority) /\ UNCHANGED <<wait_list, waiters>>
  BY DEF CreateCheck, SchedStep, alarmVars, synchVars, semaVars
<1>2. /\ Linked /\ LinkedOnce /\ TypeOK /\ ready_list \in Seq(Threads)
      /\ IsInjective(ready_list) /\ priority \in [Tasks -> Priorities]
  BY NowLinked DEF KernelInv, TypeOK, CPUType, PriorityType, LinkedOnce
<1>3. /\ IsInjective(ready_list)'
      /\ Links(ToSet(ready_list'), ToSet(wait_list), WaitersOf, status', cur', Unborn)
  BY <1>1, <1>2, Checked DEF Linked
<1> QED
  BY <1>1, <1>3, SwitchLinks

\* The running thread goes to sleep, or waits for a semaphore.
LEMMA SleepLinks ==
    ASSUME KernelInv, LinksInv, NEW t \in Threads, SleepInsert(t), UNCHANGED waiters,
           Unborn' = Unborn
    PROVE  Relinked
<1>1. /\ cur = t /\ wait_list' = list_insert_ordered(wait_list, t, remaining)
      /\ schedule(ready_list, [status EXCEPT ![t] = "blocked"])
      /\ frame'[t].pc = "sleep_blocked"
  <2>1. frame \in [Tasks -> FrameType] /\ frame[t] \in FrameType
    BY DEF KernelInv, TypeOK, ControlType
  <2> QED
    BY <2>1 DEF SleepInsert, At, thread_block, Goto, FrameType
<1>2. /\ Linked /\ LinkedOnce /\ ready_list \in Seq(Threads) /\ wait_list \in Seq(Threads)
      /\ \A u \in Threads : remaining[u] \in Int
  BY NowLinked, AlarmAssumption DEF KernelInv, TypeOK, CPUType, AlarmType
<1>3. IsInjective(ready_list) /\ IsInjective(wait_list)
  BY <1>2 DEF LinkedOnce
<1>4. /\ t \notin ToSet(wait_list)
      /\ Links(ToSet(ready_list), ToSet(wait_list) \cup {t}, WaitersOf,
               [status EXCEPT ![t] = "blocked"], NULL, Unborn)
  BY <1>1, <1>2, LinkAsleep DEF Linked
<1>5. IsInjective(wait_list)' /\ ToSet(wait_list') = ToSet(wait_list) \cup {t}
  BY <1>1, <1>2, <1>3, <1>4, InsertUnique
<1>6. /\ IsInjective(ready_list)'
      /\ Links(ToSet(ready_list'), ToSet(wait_list) \cup {t}, WaitersOf, status', cur', Unborn)
  BY <1>1, <1>2, <1>3, <1>4, Switched
<1>7. WaitersOf' = WaitersOf
  BY DEF WaitersOf
<1>8. Linked'
  BY <1>5, <1>6, <1>7 DEF Linked
<1>9. LinkedOnce'
  BY <1>2, <1>5, <1>6 DEF LinkedOnce
<1>10. Joins
  BY <1>1, <1>5 DEF Joins
<1> QED
  BY <1>8, <1>9, <1>10 DEF Relinked

LEMMA DownLinks ==
    ASSUME KernelInv, LinksInv, NEW t \in Threads, SemaDown(t), Unborn' = Unborn
    PROVE  Relinked
<1> DEFINE s == frame[t].sema
<1>1. /\ cur = t /\ s \in Semaphores /\ UNCHANGED wait_list
      /\ frame \in [Tasks -> FrameType] /\ frame[t] \in FrameType
      /\ SemaDownWait(t, s) \/ SemaDownTake(t, s)
  BY DEF SemaDown, At, KernelInv, FramesOK, FrameShape, TypeOK, ControlType, alarmVars
<1>2. CASE SemaDownTake(t, s)
  BY <1>1, <1>2, SameLinks DEF SemaDownTake, cpuVars
<1>3. CASE SemaDownWait(t, s)
  <2>1. /\ waiters' = [waiters EXCEPT ![s] = list_push_back(@, t)]
        /\ schedule(ready_list, [status EXCEPT ![t] = "blocked"])
        /\ frame'[t].pc = "down_blocked" /\ frame'[t].sema = s
    BY <1>1, <1>3 DEF SemaDownWait, thread_block, Goto, FrameType
  <2> HIDE DEF s
  <2>2. /\ Linked /\ LinkedOnce /\ ready_list \in Seq(Threads)
        /\ waiters \in [Semaphores -> Seq(Threads)]
    BY NowLinked DEF KernelInv, TypeOK, CPUType, SemaType
  <2>3. IsInjective(ready_list) /\ \A r \in Semaphores : IsInjective(waiters[r])
    BY <2>2 DEF LinkedOnce
  <2>4. /\ t \notin WaitersOf[s]
        /\ Links(ToSet(ready_list), ToSet(wait_list), [WaitersOf EXCEPT ![s] = @ \cup {t}],
                 [status EXCEPT ![t] = "blocked"], NULL, Unborn)
    BY <1>1, <2>2, LinkDown DEF Linked
  <2>5. /\ \A r \in Semaphores : /\ IsInjective(waiters'[r])
                                 /\ ToSet(waiters'[r]) = IF r = s THEN ToSet(waiters[s]) \cup {t}
                                                         ELSE ToSet(waiters[r])
    <3>1. waiters[s] \in Seq(Threads) /\ IsInjective(waiters[s]) /\ t \notin ToSet(waiters[s])
      BY <1>1, <2>2, <2>3, <2>4 DEF WaitersOf
    <3>2. /\ ToSet(list_push_back(waiters[s], t)) = ToSet(waiters[s]) \cup {t}
          /\ IsInjective(list_push_back(waiters[s], t))
      BY <3>1, PushBackUnique
    <3>3. \A r \in Semaphores :
             waiters'[r] = IF r = s THEN list_push_back(waiters[s], t) ELSE waiters[r]
      BY <1>1, <2>1, <2>2
    <3> QED
      BY <2>3, <3>2, <3>3
  <2>6. WaitersOf' = [WaitersOf EXCEPT ![s] = @ \cup {t}]
    BY <1>1, <2>5 DEF WaitersOf
  <2>7. /\ IsInjective(ready_list)'
        /\ Links(ToSet(ready_list'), ToSet(wait_list), [WaitersOf EXCEPT ![s] = @ \cup {t}],
                 status', cur', Unborn)
    BY <2>1, <2>2, <2>3, <2>4, Switched
  <2>8. Linked'
    BY <1>1, <2>6, <2>7 DEF Linked
  <2>9. LinkedOnce'
    BY <1>1, <2>2, <2>5, <2>7 DEF LinkedOnce
  <2>10. Joins
    BY <1>1, <2>1, <2>5 DEF Joins
  <2> QED
    BY <2>8, <2>9, <2>10 DEF Relinked
<1> QED
  BY <1>1, <1>2, <1>3

\* sema_up() moves the first of the waiters to the ready list.
LEMMA RaiseLinks ==
    ASSUME KernelInv, LinksInv, NEW s \in Semaphores, SemaRaise(s)
    PROVE  /\ WokenList(s) \in Seq(Threads) /\ IsInjective(WokenList(s))
           /\ \A r \in Semaphores : /\ IsInjective(waiters'[r])
                                    /\ ToSet(waiters'[r]) \subseteq ToSet(waiters[r])
           /\ Links(ToSet(WokenList(s)), ToSet(wait_list), WaitersOf', WokenStatus(s), cur,
                    Unborn)
<1>1. /\ Linked /\ LinkedOnce /\ ready_list \in Seq(Threads)
      /\ waiters \in [Semaphores -> Seq(Threads)] /\ status \in [Tasks -> Statuses]
      /\ \A u \in Threads : priority[u] \in Int
  BY NowLinked, NumbersAssumption DEF KernelInv, TypeOK, CPUType, PriorityType, SemaType
<1>2. CASE ~ Wakes(s)
  <2>1. waiters' = waiters /\ WokenList(s) = ready_list /\ WokenStatus(s) = status
    BY <1>2 DEF SemaRaise, WokenList, WokenStatus
  <2>2. WaitersOf' = WaitersOf
    BY <2>1 DEF WaitersOf
  <2> QED
    BY <1>1, <2>1, <2>2 DEF Linked, LinkedOnce
<1>3. CASE Wakes(s)
  <2> DEFINE sorted == list_sort(waiters[s], priority)
             x == FirstWaiter(s)
  <2>1. waiters[s] \in Seq(Threads) /\ waiters[s] # <<>> /\ IsInjective(waiters[s])
    BY <1>1, <1>3 DEF Wakes, LinkedOnce
  <2>2. /\ sorted \in Seq(Threads) /\ sorted # <<>> /\ IsInjective(sorted)
        /\ ToSet(sorted) = ToSet(waiters[s])
    BY <1>1, <2>1, SortType, SortKeeps
  <2>3. x = Head(sorted)
    BY DEF FirstWaiter
  <2>4. \A r \in Semaphores : waiters'[r] = IF r = s THEN Tail(sorted) ELSE waiters[r]
    BY <1>1, <1>3 DEF SemaRaise
  <2> HIDE DEF sorted, x
  <2>5. x \in ToSet(waiters[s]) /\ IsInjective(Tail(sorted))
        /\ ToSet(Tail(sorted)) = ToSet(waiters[s]) \ {x}
    BY <2>2, <2>3, PopFrontUnique
  <2>6. /\ x \in Threads /\ x \notin ToSet(ready_list) /\ x \notin ToSet(wait_list)
        /\ \A r \in Semaphores : r # s => x \notin ToSet(waiters[r])
        /\ status[x] = "blocked"
    <3>1. x \in WaitersOf[s] /\ WaitersOf \in [Semaphores -> SUBSET Threads]
      BY <1>1, <2>5 DEF Linked, Links, LinkTypes, WaitersOf
    <3>2. \A r \in Semaphores : WaitersOf[r] = ToSet(waiters[r])
      BY DEF WaitersOf
    <3> QED
      BY <1>1, <3>1, <3>2 DEF Linked, Links, Linking
  <2>7. Unlinks(WaitersOf, x, WaitersOf') /\ IsLinked(x, ToSet(ready_list), ToSet(wait_list), WaitersOf)
    <3>1. \A r \in Semaphores : ToSet(waiters'[r]) = ToSet(waiters[r]) \ {x}
      BY <2>4, <2>5, <2>6
    <3>2. \A r \in Semaphores : ToSet(waiters[r]) \in SUBSET Threads
      BY <1>1, MembersType
    <3> QED
      BY <2>5, <2>6, <3>1, <3>2 DEF WaitersOf, Unlinks, IsLinked
  <2>8. Readies(status, x, UnblockedStatus(x))
    BY <1>1, <2>6 DEF UnblockedStatus, Statuses, Readies
  <2>9. Links((ToSet(ready_list) \ {x}) \cup {x}, ToSet(wait_list) \ {x}, WaitersOf',
              UnblockedStatus(x), cur, Unborn)
    BY <1>1, <2>7, <2>8, LinkMoved DEF Linked
  <2>10. /\ UnblockedList(x) \in Seq(Threads) /\ IsInjective(UnblockedList(x))
         /\ ToSet(UnblockedList(x)) = ToSet(ready_list) \cup {x}
    BY <1>1, <2>6, InsertUnique, InsertOrderedType DEF UnblockedList, LinkedOnce
  <2>11. WokenList(s) = UnblockedList(x) /\ WokenStatus(s) = UnblockedStatus(x)
    BY <1>3 DEF WokenList, WokenStatus, x
  <2>12. /\ (ToSet(ready_list) \ {x}) \cup {x} = ToSet(UnblockedList(x))
         /\ ToSet(wait_list) \ {x} = ToSet(wait_list)
    BY <2>6, <2>10
  <2>13. Links(ToSet(WokenList(s)), ToSet(wait_list), WaitersOf', WokenStatus(s), cur, Unborn)
    BY <2>9, <2>11, <2>12
  <2>14. \A r \in Semaphores : /\ IsInjective(waiters'[r])
                               /\ ToSet(waiters'[r]) \subseteq ToSet(waiters[r])
    BY <1>1, <2>4, <2>5 DEF LinkedOnce
  <2> QED
    BY <2>10, <2>11, <2>13, <2>14
<1> QED
  BY <1>2, <1>3

LEMMA UpLinks ==
    ASSUME KernelInv, LinksInv, NEW t \in Threads, SemaUp(t), Unborn' = Unborn
    PROVE  Relinked
<1> DEFINE s == frame[t].sema
<1>1. /\ s \in Semaphores /\ SemaRaise(s) /\ UNCHANGED wait_list
      /\ thread_check_priority(WokenList(s), WokenStatus(s), priority)
  BY DEF SemaUp, At, KernelInv, FramesOK, FrameShape, alarmVars
<1> HIDE DEF s
<1>2. /\ WokenList(s) \in Seq(Threads) /\ IsInjective(WokenList(s))
      /\ \A r \in Semaphores : /\ IsInjective(waiters'[r])
                               /\ ToSet(waiters'[r]) \subseteq ToSet(waiters[r])
      /\ Links(ToSet(WokenList(s)), ToSet(wait_list), WaitersOf', WokenStatus(s), cur,
               Unborn)
  BY <1>1, RaiseLinks
<1>3. /\ IsInjective(ready_list)'
      /\ Links(ToSet(ready_list'), ToSet(wait_list), WaitersOf', status', cur', Unborn)
  BY <1>1, <1>2, Checked DEF KernelInv, TypeOK, PriorityType
<1>4. Linked' /\ LinkedOnce'
  BY <1>1, <1>2, <1>3, NowLinked DEF Linked, LinkedOnce
<1> QED
  BY <1>1, <1>2, <1>4 DEF Relinked, Joins

\* The holder a donation reaches moves to the ready list from where it is.
LEMMA DonateLinks ==
    ASSUME KernelInv, LinksInv, NEW t \in Threads, Donate(t), Unborn' = Unborn
    PROVE  Relinked
<1> DEFINE h == holder[frame[t].dlock]
<1>1. /\ cur = t /\ frame[t].pc = "donate" /\ frame[t].dlock \in Locks
      /\ IF h = NULL THEN Crash("null_holder") /\ UNCHANGED <<wait_list, waiters>>
                     ELSE DonateStep(t, h)
  BY DEF Donate, At, KernelInv, FramesOK, FrameShape
<1>2. h \in Threads \cup {NULL}
  BY <1>1 DEF KernelInv, TypeOK, LockType
<1>3. CASE h = NULL
  BY <1>1, <1>3, SameLinks DEF Crash, cpuVars
<1>4. CASE h # NULL /\ wait_for_lock[h] # NULL
  BY <1>1, <1>4, SameLinks DEF DonateStep
<1>5. CASE h # NULL /\ wait_for_lock[h] = NULL
  <2> DEFINE boosted == [priority EXCEPT ![h] = Boosted(t, h)]
  <2>1. h \in Threads /\ status[h] \in {"ready", "blocked", "running"} /\ h \notin Unborn
        /\ wait_for_lock[t] # NULL
    BY <1>1, <1>2, <1>5 DEF LinksInv, HoldersLive, Unborn
  <2>2. /\ ready_list' = list_insert_ordered(list_remove(ready_list, h), h, boosted)
        /\ wait_list' = list_remove(wait_list, h)
        /\ waiters' = [r \in Semaphores |-> list_remove(waiters[r], h)]
        /\ UNCHANGED <<status, cur>>
    BY <1>1, <1>5 DEF DonateStep
  <2>3. h # t
    BY <1>5, <2>1
  <2> HIDE DEF h
  <2>4. \A u \in Threads : boosted[u] \in Int
    <3>1. boosted \in [Tasks -> Priorities]
      BY <2>1, BoostedType DEF KernelInv, TypeOK, PriorityType
    <3> HIDE DEF boosted
    <3> QED
      BY <3>1, NumbersAssumption
  <2> HIDE DEF boosted
  <2>5. /\ Linked /\ LinkedOnce /\ ready_list \in Seq(Threads) /\ wait_list \in Seq(Threads)
        /\ waiters \in [Semaphores -> Seq(Threads)] /\ status \in [Tasks -> Statuses]
    BY NowLinked DEF KernelInv, TypeOK, CPUType, AlarmType, SemaType
  <2>6. h \in ToSet(ready_list) \/ h \in ToSet(wait_list) \/ \E r \in Semaphores : h \in WaitersOf[r]
    <3>1. status[h] # "running"
      BY <1>1, <2>1, <2>3, <2>5 DEF Linked, Links, Linking
    <3> QED
      BY <2>1, <2>5, <3>1 DEF Linked, Links, Linking
  <2>7. \A r \in Semaphores : /\ IsInjective(waiters'[r])
                              /\ ToSet(waiters'[r]) = ToSet(waiters[r]) \ {h}
    BY <2>2, <2>5, RemoveUnique DEF LinkedOnce
  <2>8. IsInjective(wait_list)' /\ ToSet(wait_list') = ToSet(wait_list) \ {h}
    BY <2>2, <2>5, RemoveUnique DEF LinkedOnce
  <2>9. IsInjective(ready_list)' /\ ToSet(ready_list') = (ToSet(ready_list) \ {h}) \cup {h}
    <3>1. /\ IsInjective(list_remove(ready_list, h))
          /\ ToSet(list_remove(ready_list, h)) = ToSet(ready_list) \ {h}
          /\ list_remove(ready_list, h) \in Seq(Threads)
      BY <2>5, RemoveUnique, RemoveType DEF LinkedOnce
    <3>2. h \notin ToSet(list_remove(ready_list, h))
      BY <3>1
    <3> QED
      BY <2>1, <2>2, <2>4, <3>1, <3>2, InsertUnique
  <2>10. Unlinks(WaitersOf, h, WaitersOf')
    <3>1. \A r \in Semaphores : ToSet(waiters[r]) \in SUBSET Threads
      BY <2>5, MembersType
    <3> QED
      BY <2>7, <3>1 DEF WaitersOf, Unlinks
  <2>11. Links((ToSet(ready_list) \ {h}) \cup {h}, ToSet(wait_list) \ {h}, WaitersOf',
               status, cur, Unborn)
    <3>1. Readies(status, h, status)
      BY <2>5 DEF Readies
    <3>2. IsLinked(h, ToSet(ready_list), ToSet(wait_list), WaitersOf)
      BY <2>1, <2>6 DEF IsLinked
    <3> QED
      BY <2>5, <2>10, <3>1, <3>2, LinkMoved DEF Linked
  <2>12. Linked'
    BY <2>2, <2>8, <2>9, <2>11 DEF Linked
  <2>13. LinkedOnce'
    BY <2>7, <2>8, <2>9 DEF LinkedOnce
  <2>14. Joins
    BY <2>7, <2>8 DEF Joins
  <2> QED
    BY <2>12, <2>13, <2>14 DEF Relinked
<1> QED
  BY <1>2, <1>3, <1>4, <1>5

\* lock_release() sorts the waiters of other locks.
LEMMA UnlistLinks ==
    ASSUME KernelInv, LinksInv, NEW t \in Threads, Unlist(t), Unborn' = Unborn
    PROVE  Relinked
<1> DEFINE l == frame[t].lock
           rest == list_remove(acquired_locks[t], l)
<1>1. UNCHANGED <<ready_list, status, cur, wait_list>>
  BY DEF Unlist, Crash, cpuVars, alarmVars
<1>2. /\ Linked /\ LinkedOnce /\ waiters \in [Semaphores -> Seq(Threads)]
      /\ \A u \in Threads : priority[u] \in Int
  BY NowLinked, NumbersAssumption DEF KernelInv, TypeOK, PriorityType, SemaType
<1>3. \/ UNCHANGED waiters
      \/ \A r \in Semaphores : waiters'[r] \in {list_sort(waiters[r], priority), waiters[r]}
  BY DEF Unlist, thread_next_priority
<1>4. \A r \in Semaphores : /\ IsInjective(waiters'[r])
                            /\ ToSet(waiters'[r]) = ToSet(waiters[r])
  BY <1>2, <1>3, SortKeeps DEF LinkedOnce
<1>5. WaitersOf' = WaitersOf
  BY <1>4 DEF WaitersOf
<1>6. Linked' /\ LinkedOnce'
  BY <1>1, <1>2, <1>4, <1>5 DEF Linked, LinkedOnce
<1> QED
  BY <1>1, <1>4, <1>6 DEF Relinked, Joins

LEMMA StepLinks ==
    ASSUME KernelInv, CallsOK, LinksInv, NEW t \in Threads, KernelStep(t), ~ CreateUnblock(t)
    PROVE  Relinked
<1>1. Unborn' = Unborn
  BY StepProceeds, ChildrenKept DEF LinksInv
<1>2. CASE SchedStep(t)
  BY <1>1, <1>2, CreateCheckLinks DEF SchedStep
<1>3. CASE SleepInsert(t) /\ UNCHANGED synchVars
  BY <1>1, <1>3, SleepLinks DEF synchVars, semaVars
<1>4. CASE SemaDown(t)
  BY <1>1, <1>4, DownLinks
<1>5. CASE SemaUp(t)
  BY <1>1, <1>5, UpLinks
<1>6. CASE Donate(t)
  BY <1>1, <1>6, DonateLinks
<1>7. CASE Unlist(t)
  BY <1>1, <1>7, UnlistLinks
<1>8. CASE \/ SleepReturn(t) /\ UNCHANGED synchVars
           \/ CheckHolder(t) \/ MarkWaiting(t) \/ DonateStop(t) \/ Take(t) \/ TryTake(t)
           \/ ClearHolder(t) \/ BroadcastNext(t)
  <2>1. UNCHANGED <<ready_list, status, cur, wait_list, waiters>>
    BY <1>8 DEF SleepReturn, CheckHolder, MarkWaiting, DonateStop, Take, TryTake, ClearHolder,
       BroadcastNext, cpuVars, alarmVars, synchVars, semaVars
  <2> QED
    BY <1>1, <2>1, SameLinks
<1> QED
  BY <1>2, <1>3, <1>4, <1>5, <1>6, <1>7, <1>8 DEF KernelStep, SleepStep, SynchStep

-----------------------------------------------------------------------------
(* Interrupts and the idle thread.                                         *)

LEMMA WakeLinks ==
    ASSUME KernelInv, LinksInv, TimerWakeUp, UNCHANGED waiters, Unborn' = Unborn
    PROVE  Relinked
<1> DEFINE x == Last(wait_list)
<1>1. /\ wait_list # <<>> /\ wait_list' = Front(wait_list)
      /\ KeepCPU(UnblockedList(x), UnblockedStatus(x))
  BY DEF TimerWakeUp, Due
<1>2. /\ Linked /\ LinkedOnce /\ ready_list \in Seq(Threads) /\ wait_list \in Seq(Threads)
      /\ status \in [Tasks -> Statuses] /\ \A u \in Threads : priority[u] \in Int
  BY NowLinked, NumbersAssumption DEF KernelInv, TypeOK, CPUType, PriorityType, AlarmType
<1> HIDE DEF x
<1>3. /\ x \in ToSet(wait_list) /\ IsInjective(wait_list)'
      /\ ToSet(wait_list') = ToSet(wait_list) \ {x}
  BY <1>1, <1>2, FrontLastUnique DEF LinkedOnce, x
<1>4. /\ x \in Threads /\ x \notin ToSet(ready_list) /\ WaitersOf \in [Semaphores -> SUBSET Threads]
      /\ \A r \in Semaphores : x \notin WaitersOf[r]
  BY <1>2, <1>3 DEF Linked, Links, LinkTypes, Linking
<1>5. Readies(status, x, UnblockedStatus(x))
  BY <1>2, <1>4 DEF UnblockedStatus, Statuses, Readies
<1>6. Unlinks(WaitersOf, x, WaitersOf) /\ IsLinked(x, ToSet(ready_list), ToSet(wait_list), WaitersOf)
  BY <1>3, <1>4 DEF Unlinks, IsLinked
<1>7. Links((ToSet(ready_list) \ {x}) \cup {x}, ToSet(wait_list) \ {x}, WaitersOf,
            UnblockedStatus(x), cur, Unborn)
  BY <1>2, <1>5, <1>6, LinkMoved DEF Linked
<1>8. /\ UnblockedList(x) \in Seq(Threads) /\ IsInjective(UnblockedList(x))
      /\ ToSet(UnblockedList(x)) = ToSet(ready_list) \cup {x}
  BY <1>2, <1>4, InsertUnique, InsertOrderedType DEF UnblockedList, LinkedOnce
<1>9. (ToSet(ready_list) \ {x}) \cup {x} = ToSet(UnblockedList(x))
  BY <1>4, <1>8
<1>10. WaitersOf' = WaitersOf
  BY DEF WaitersOf
<1>11. Linked' /\ LinkedOnce'
  BY <1>1, <1>2, <1>3, <1>7, <1>8, <1>9, <1>10 DEF Linked, LinkedOnce, KeepCPU
<1> QED
  BY <1>3, <1>11 DEF Relinked, Joins

LEMMA InterruptLinks ==
    ASSUME KernelInv, LinksInv, IdleStep \/ Tick \/ Handler \/ Device
    PROVE  Relinked /\ ChildrenOK' /\ Unborn' = Unborn
<1>1. \A u \in Threads : frame'[u] = frame[u]
  BY InterruptFrames DEF KernelInv
<1>2. Unborn' = Unborn
  BY <1>1, UnbornSame
<1>3. ChildrenOK'
  BY <1>1 DEF LinksInv, ChildrenOK
<1>4. /\ Linked /\ LinkedOnce /\ TypeOK /\ ready_list \in Seq(Threads)
      /\ IsInjective(ready_list) /\ priority \in [Tasks -> Priorities]
  BY NowLinked DEF KernelInv, TypeOK, CPUType, PriorityType, LinkedOnce
<1>5. CASE IdleStep
  <2>1. /\ cur = Idle /\ schedule(ready_list, [status EXCEPT ![Idle] = "blocked"])
        /\ UNCHANGED <<wait_list, waiters>>
    BY <1>5 DEF IdleStep, IdleBlock, At, thread_block, alarmVars, synchVars, semaVars
  <2>2. Links(ToSet(ready_list), ToSet(wait_list), WaitersOf,
              [status EXCEPT ![Idle] = "blocked"], NULL, Unborn)
    BY <1>4, <2>1, LinkIdle DEF Linked
  <2>3. /\ IsInjective(ready_list)'
        /\ Links(ToSet(ready_list'), ToSet(wait_list), WaitersOf, status', cur', Unborn)
    BY <1>4, <2>1, <2>2, Switched
  <2> QED
    BY <1>2, <1>3, <2>1, <2>3, SwitchLinks
<1>6. CASE Tick
  BY <1>2, <1>3, <1>6, SameLinks DEF Tick, TimerInterrupt, cpuVars, synchVars, semaVars
<1>7. CASE Handler
  <2>1. UNCHANGED waiters
    BY <1>7 DEF Handler, synchVars, semaVars
  <2>2. CASE TimerWakeUp
    BY <1>2, <1>3, <2>1, <2>2, WakeLinks
  <2>3. CASE TimerReturn /\ (SliceOver \/ Outranked(ready_list, priority))
    <3>1. thread_yield(ready_list, status, priority) /\ UNCHANGED wait_list
      BY <2>3 DEF TimerReturn
    <3>2. /\ IsInjective(ready_list)'
          /\ Links(ToSet(ready_list'), ToSet(wait_list), WaitersOf, status', cur', Unborn)
      BY <1>4, <3>1, Yielded DEF Linked
    <3> QED
      BY <1>2, <1>3, <2>1, <3>1, <3>2, SwitchLinks
  <2>4. CASE TimerReturn /\ ~ (SliceOver \/ Outranked(ready_list, priority))
    BY <1>2, <1>3, <2>1, <2>4, SameLinks DEF TimerReturn
  <2> QED
    BY <1>7, <2>2, <2>3, <2>4 DEF Handler
<1>8. CASE Device
  <2>1. PICK s \in DeviceSemas : DeviceSemaUp(s)
    BY <1>8 DEF Device
  <2>2. /\ s \in Semaphores /\ SemaRaise(s) /\ KeepCPU(WokenList(s), WokenStatus(s))
        /\ UNCHANGED wait_list
    BY <2>1, SynchAssumption DEF DeviceSemaUp, Semaphores, alarmVars
  <2>3. /\ WokenList(s) \in Seq(Threads) /\ IsInjective(WokenList(s))
        /\ \A r \in Semaphores : /\ IsInjective(waiters'[r])
                                 /\ ToSet(waiters'[r]) \subseteq ToSet(waiters[r])
        /\ Links(ToSet(WokenList(s)), ToSet(wait_list), WaitersOf', WokenStatus(s), cur,
                 Unborn)
    BY <2>2, RaiseLinks
  <2>4. Linked' /\ LinkedOnce'
    BY <1>2, <1>4, <2>2, <2>3 DEF Linked, LinkedOnce, KeepCPU
  <2> QED
    BY <1>2, <1>3, <2>2, <2>3, <2>4 DEF Relinked, Joins
<1> QED
  BY <1>5, <1>6, <1>7, <1>8

-----------------------------------------------------------------------------
(* Donors wait for a lock, and holders live.                               *)

DonorsWait == \A t \in Threads : frame[t].pc = "donate" => wait_for_lock[t] # NULL

LEMMA AfterPcs ==
    ASSUME NEW t \in Threads, frame[t] \in FrameType
    PROVE  /\ AfterDown(t).pc \in {"take", "check_holder", "user"}
           /\ AfterUp(t).pc \in {"create_unblock", "down", "broadcast", "user"}
<1>1. UserFrame.pc = "user"
  BY DEF UserFrame, FrameAt
<1> QED
  BY <1>1 DEF AfterDown, AfterUp, FrameType

\* Where a client's call, and a step inside the kernel, leave the thread.
LEMMA CallPlace ==
    ASSUME TypeOK, NEW t \in Threads, ClientCall(t)
    PROVE  /\ frame'[t].pc \in {"user", "sleep_insert", "down", "up", "check_holder",
                                "try_take", "unlist", "broadcast"}
           /\ frame'[t].pc = "sleep_insert" => CallSleep(t)
           /\ frame'[t].pc = "try_take" => CallTryAcquire(t)
<1>1. frame \in [Tasks -> FrameType] /\ frame[t] \in FrameType
  BY DEF TypeOK, ControlType
<1>2. UserFrame.pc = "user" /\ \A pc, l : LockFrame(pc, l).pc = pc
  BY DEF UserFrame, LockFrame, FrameAt
<1>3. CASE \/ CallYield(t) \/ CallSetPriority(t) \/ CallExit(t) \/ CallSemaTryDown(t)
  BY <1>3 DEF CallYield, CallSetPriority, CallExit, CallSemaTryDown,
     ThreadYield, ThreadSetPriority, ThreadExit, SemaTryDown, schedVars, At
<1>4. CASE CallCreate(t)
  <2>1. PICK f : frame'[t] = [UserFrame EXCEPT !.pc = "check_holder", !.op = "thread_create",
                                               !.lock = TidLock, !.child = f]
    BY <1>1, <1>4 DEF CallCreate, ThreadCreate
  <2> QED
    BY <2>1 DEF UserFrame, FrameAt
<1>5. CASE CallSleep(t)
  BY <1>1, <1>5, ZenonT(60) DEF CallSleep, TimerSleep, Goto, FrameType
<1>6. CASE CallSemaDown(t) \/ CallSemaUp(t)
  BY <1>1, <1>6 DEF CallSemaDown, CallSemaUp, SemaCall, FrameType
<1>7. CASE CallAcquire(t) \/ CallTryAcquire(t) \/ CallRelease(t)
  BY <1>1, <1>2, <1>7 DEF CallAcquire, CallTryAcquire, CallRelease, LockAcquire,
     LockTryAcquire, LockRelease
<1>8. CASE CallCondWait(t)
  BY <1>1, <1>8 DEF CallCondWait, CondWait, LockFrame, UserFrame, FrameAt
<1>9. CASE CallCondSignal(t)
  <2>1. PICK c \in Conds : SignalFirst(t, c, UserFrame)
    BY <1>9 DEF CallCondSignal, CondSignal
  <2>2. PICK s : frame' = [frame EXCEPT ![t] = [UserFrame EXCEPT !.pc = "up", !.sema = s]]
    BY <2>1 DEF SignalFirst
  <2>3. [UserFrame EXCEPT !.pc = "up", !.sema = s].pc = "up"
    BY DEF UserFrame, FrameAt
  <2> QED
    BY <1>1, <2>2, <2>3
<1>10. CASE CallCondBroadcast(t)
  BY <1>1, <1>10 DEF CallCondBroadcast, CondBroadcast, FrameAt
<1> QED
  BY <1>3, <1>4, <1>5, <1>6, <1>7, <1>8, <1>9, <1>10, SMTT(30) DEF ClientCall

LEMMA StepPlace ==
    ASSUME TypeOK, NEW t \in Threads, KernelStep(t)
    PROVE  /\ frame'[t].pc = "donate" => MarkWaiting(t) \/ Donate(t)
           /\ frame'[t].pc = "down_blocked" => SemaDown(t)
           /\ frame[t].pc = "down_blocked" => SemaDown(t)
           /\ frame'[t].pc = "sleep_blocked" => SleepInsert(t)
           /\ frame'[t].pc # "sleep_insert"
           /\ frame'[t].pc \in {"take", "try_take"} => SemaDown(t)
<1>1. /\ frame \in [Tasks -> FrameType] /\ frame[t] \in FrameType /\ UserFrame.pc = "user"
  BY DEF TypeOK, ControlType, UserFrame, FrameAt
<1>2. CASE MarkWaiting(t) \/ Donate(t)
  <2>1. frame[t].pc \in {"mark_waiting", "donate"}
    BY <1>2 DEF MarkWaiting, Donate, At
  <2>2. frame'[t].pc \in {"donate", "down"}
    <3>1. CASE MarkWaiting(t)
      BY <1>1, <3>1 DEF MarkWaiting, FrameType
    <3>2. CASE Donate(t) /\ UNCHANGED frame
      BY <3>2 DEF Donate, At
    <3>3. CASE DonateStep(t, holder[frame[t].dlock])
      BY <1>1, <2>1, <3>3 DEF DonateStep, FrameType
    <3> QED
      BY <1>2, <3>1, <3>2, <3>3 DEF Donate, Crash
  <2> QED
    BY <1>2, <2>1, <2>2
<1>3. CASE SemaDown(t) \/ SemaUp(t)
  <2>1. frame[t].pc \in {"down_blocked", "down", "up"}
    BY <1>3 DEF SemaDown, SemaUp, At
  <2>2. SemaUp(t) => frame[t].pc = "up" /\ frame'[t].pc = AfterUp(t).pc
    BY <1>1 DEF SemaUp, At
  <2>3. SemaDown(t) => frame'[t].pc \in {"down_blocked", AfterDown(t).pc}
    BY <1>1 DEF SemaDown, SemaDownWait, SemaDownTake, Goto, FrameType
  <2> QED
    BY <1>1, <1>3, <2>1, <2>2, <2>3, AfterPcs
<1>4. CASE SchedStep(t)
  BY <1>1, <1>4 DEF SchedStep, CreateUnblock, CreateCheck, Goto, ReturnToUser, FrameType, At
<1>5. CASE SleepStep(t)
  BY <1>1, <1>5 DEF SleepStep, SleepInsert, SleepReturn, Goto, ReturnToUser, FrameType, At
<1>6. CASE CheckHolder(t) \/ DonateStop(t) \/ Take(t) \/ TryTake(t) \/ ClearHolder(t)
  <2>1. frame[t].pc # "down_blocked"
    BY <1>6 DEF CheckHolder, DonateStop, Take, TryTake, ClearHolder, At
  <2>2. frame'[t].pc \in {"mark_waiting", "down", "unlist", "user", "up"}
    BY <1>1, <1>6 DEF CheckHolder, DonateStop, Take, TryTake, ClearHolder, Goto,
       ReturnToUser, FrameType
  <2> QED
    BY <2>1, <2>2
<1>7. CASE Unlist(t) \/ BroadcastNext(t)
  <2>1. frame[t].pc \in {"unlist", "broadcast"}
    BY <1>7 DEF Unlist, BroadcastNext, At
  <2>2. frame'[t].pc \in {"unlist", "clear_holder", "up", "user"}
    BY <1>1, <1>7, <2>1, ZenonT(60) DEF Unlist, BroadcastNext, SignalFirst, At, Goto, ReturnToUser, Crash,
       FrameType
  <2> QED
    BY <2>1, <2>2
<1> QED
  BY <1>2, <1>3, <1>4, <1>5, <1>6, <1>7 DEF KernelStep, SynchStep

LEMMA CallWaits ==
    ASSUME NEW t \in Threads, ClientCall(t)
    PROVE  UNCHANGED wait_for_lock
BY DEF ClientCall, CallYield, CallSetPriority, CallCreate, CallSleep, CallExit,
   CallSemaDown, CallSemaUp, CallSemaTryDown, CallAcquire, CallTryAcquire, CallRelease,
   CallCondWait, CallCondSignal, CallCondBroadcast, SemaCall, SemaTryDown, LockAcquire,
   LockTryAcquire, LockRelease, CondWait, CondSignal, CondBroadcast, synchVars, lockVars

LEMMA StepWaits ==
    ASSUME TypeOK, NEW t \in Threads, KernelStep(t)
    PROVE  \A u \in Threads : u # t => wait_for_lock'[u] = wait_for_lock[u]
BY SMTT(30) DEF KernelStep, SchedStep, SleepStep, SynchStep, SemaDown, SemaUp,
   CheckHolder, MarkWaiting, Donate, DonateStop, Take, TryTake, Unlist, ClearHolder,
   BroadcastNext, synchVars, lockVars, TypeOK, LockType

LEMMA CallDonors ==
    ASSUME TypeOK, GoneFromKernel, DonorsWait, NEW t \in Threads, ClientCall(t)
    PROVE  DonorsWait'
<1>1. UNCHANGED wait_for_lock
  BY CallWaits
<1> QED
  BY <1>1, CallFrames, CallPlace DEF DonorsWait

LEMMA StepDonors ==
    ASSUME TypeOK, FramesOK, DonorsWait, NEW t \in Threads, KernelStep(t)
    PROVE  DonorsWait'
<1>1. wait_for_lock \in [Threads -> Locks \union {NULL}]
  BY DEF TypeOK, LockType
<1>2. \A u \in Threads : u # t => frame'[u] = frame[u]
  BY StepFrames
<1>3. \A u \in Threads : u # t => wait_for_lock'[u] = wait_for_lock[u]
  BY StepWaits
<1>4. CASE MarkWaiting(t)
  <2>1. wait_for_lock'[t] \in Locks /\ NULL \notin Locks
    BY <1>1, <1>4, ObjectsAssumption
       DEF MarkWaiting, At, FramesOK, FrameShape, Semaphores
  <2> QED
    BY <1>2, <1>3, <2>1 DEF DonorsWait
<1>5. CASE Donate(t)
  BY <1>2, <1>3, <1>5 DEF DonorsWait, Donate, At, lockVars
<1>6. CASE ~ (MarkWaiting(t) \/ Donate(t))
  BY <1>2, <1>3, <1>6, StepPlace DEF DonorsWait
<1> QED
  BY <1>4, <1>5, <1>6

LEMMA InterruptDonors ==
    ASSUME TypeOK, DonorsWait, IdleStep \/ Tick \/ Handler \/ Device
    PROVE  DonorsWait'
<1>1. UNCHANGED wait_for_lock
  BY DEF IdleStep, Tick, Handler, Device, DeviceSemaUp, synchVars, lockVars
<1> QED
  BY <1>1, InterruptFrames DEF DonorsWait

\* Only the running thread becomes the holder of a lock.
HoldersMove ==
    \A l \in Locks : \/ holder'[l] \in {holder[l], NULL}
                     \/ holder'[l] = cur /\ UNCHANGED <<status, Unborn>>

LEMMA HoldersLiveOn ==
    ASSUME KernelInv, LinksInv, Relinked, DonorsWait', HoldersMove,
           \A u \in Threads : Gone(u)' => Gone(u) \/ Held(u) = {},
           \A u \in Unborn' : u \in Unborn \/ Gone(u)
    PROVE  HoldersLive'
<1>1. Linked /\ Linked' /\ ~ Gone(cur)
  BY NowLinked DEF KernelInv, GoneFromKernel, Relinked
<1>2. \A t \in Threads : (status'[t] \in {"ready", "blocked", "running"}) <=> ~ Gone(t)'
  BY <1>1 DEF Linked, Links, LinkTypes, Gone, Statuses
<1>3. \A t \in Threads : (status[t] \in {"ready", "blocked", "running"}) <=> ~ Gone(t)
  BY <1>1 DEF Linked, Links, LinkTypes, Gone, Statuses
<1>4. ASSUME NEW l \in Locks, NEW t \in Threads, holder'[l] = t
      PROVE  ~ Gone(t)' /\ t \notin Unborn'
  <2>1. CASE holder[l] = t
    <3>1. ~ Gone(t) /\ t \notin Unborn
      BY <1>3, <2>1 DEF LinksInv, HoldersLive, Unborn
    <3>2. l \in Held(t)
      BY <2>1 DEF Held
    <3> QED
      BY <3>1, <3>2
  <2>2. CASE holder[l] # t
    <3>1. t = cur /\ UNCHANGED <<status, Unborn>>
      BY <1>4, <2>2, ObjectsAssumption DEF HoldersMove
    <3>2. t \notin Unborn
      BY <1>1, <3>1 DEF Linked, Links, Linking
    <3>3. Gone(t)' = Gone(t)
      BY <3>1 DEF Gone
    <3> QED
      BY <1>1, <3>1, <3>2, <3>3
  <2> QED
    BY <2>1, <2>2
<1>5. \A l \in Locks, t \in Threads : holder'[l] = t =>
         status'[t] \in {"ready", "blocked", "running"} /\ ~ Unstarted(t)'
  BY <1>2, <1>4 DEF Unborn
<1> QED
  BY <1>5 DEF HoldersLive, DonorsWait

-----------------------------------------------------------------------------
(* Every step.                                                             *)

LEMMA RelinkedLists ==
    ASSUME KernelInv, LinksInv, Relinked,
           \A u \in Threads : u = cur \/ frame'[u] = frame[u] \/ status[u] = "free"
    PROVE  ListsOK'
<1>1. Linked /\ Linked' /\ LinkedOnce' /\ Joins
  BY NowLinked DEF Relinked
<1>2. \A u \in ToSet(wait_list) : frame'[u] = frame[u]
  BY <1>1 DEF Linked, Links, LinkTypes, Linking
<1>3. \A s \in Semaphores : \A u \in ToSet(waiters[s]) : frame'[u] = frame[u]
  <2>1. \A s \in Semaphores : WaitersOf[s] = ToSet(waiters[s])
    BY DEF WaitersOf
  <2> QED
    BY <1>1, <2>1 DEF Linked, Links, LinkTypes, Linking
<1>4. \A u \in ToSet(wait_list') : frame'[u].pc = "sleep_blocked"
  BY <1>1, <1>2 DEF Joins, LinksInv, ListsOK
<1>5. \A s \in Semaphores : \A u \in ToSet(waiters'[s]) :
         frame'[u].pc = "down_blocked" /\ frame'[u].sema = s
  BY <1>1, <1>3 DEF Joins, LinksInv, ListsOK
<1> QED
  BY <1>1, <1>4, <1>5 DEF ListsOK, Linked, Links

LEMMA CallRelinks ==
    ASSUME KernelInv, CallsOK, LinksInv, NEW t \in Threads, ClientCall(t)
    PROVE  Relinked /\ ChildrenOK' /\ \A u \in Unborn' : u \in Unborn \/ Gone(u)
<1>1. CASE CallCreate(t)
  BY <1>1, CreateLinks
<1>2. CASE ~ CallCreate(t)
  BY <1>2, CallLinks, CallProceeds, ChildrenKept DEF LinksInv
<1> QED
  BY <1>1, <1>2

LEMMA CallLinksInv ==
    ASSUME KernelInv, CallsOK, LinksInv, NEW t \in Threads, ClientCall(t)
    PROVE  LinksInv'
<1>1. /\ Relinked /\ ChildrenOK' /\ \A u \in Unborn' : u \in Unborn \/ Gone(u)
  BY CallRelinks
<1>2. ListsOK'
  BY <1>1, CallFrames, RelinkedLists DEF KernelInv
<1>3. DonorsWait'
  BY CallDonors, SMTT(30) DEF KernelInv, LinksInv, HoldersLive, DonorsWait
<1>4. HoldersMove
  BY DEF HoldersMove, ClientCall, CallYield, CallSetPriority, CallCreate, CallSleep, CallExit,
     CallSemaDown, CallSemaUp, CallSemaTryDown, CallAcquire, CallTryAcquire, CallRelease,
     CallCondWait, CallCondSignal, CallCondBroadcast, SemaCall, SemaTryDown, LockAcquire,
     LockTryAcquire, LockRelease, CondWait, CondSignal, CondBroadcast, synchVars, lockVars
<1>5. \A u \in Threads : Gone(u)' => Gone(u) \/ Held(u) = {}
  BY CallStatus DEF KernelInv, CallExit
<1>6. HoldersLive'
  BY <1>1, <1>3, <1>4, <1>5, HoldersLiveOn
<1> QED
  BY <1>1, <1>2, <1>6 DEF LinksInv

LEMMA StepRelinks ==
    ASSUME KernelInv, CallsOK, LinksInv, NEW t \in Threads, KernelStep(t)
    PROVE  /\ Relinked /\ ChildrenOK' /\ Unborn' \subseteq Unborn
           /\ ~ CreateUnblock(t) => Unborn' = Unborn
<1>1. CASE CreateUnblock(t)
  <2>1. SchedStep(t)
    BY <1>1, SMTT(30) DEF CreateUnblock, KernelStep, SleepStep, SynchStep, SleepInsert, SleepReturn,
       SemaDown, SemaUp, CheckHolder, MarkWaiting, Donate, DonateStop, Take, TryTake,
       Unlist, ClearHolder, BroadcastNext, At
  <2> QED
    BY <1>1, <2>1, UnblockLinks
<1>2. CASE ~ CreateUnblock(t)
  BY <1>2, StepLinks, StepProceeds, ChildrenKept DEF LinksInv
<1> QED
  BY <1>1, <1>2

LEMMA StepLinksInv ==
    ASSUME KernelInv, CallsOK, LinksInv, NEW t \in Threads, KernelStep(t)
    PROVE  LinksInv'
<1>1. /\ Relinked /\ ChildrenOK' /\ Unborn' \subseteq Unborn
      /\ ~ CreateUnblock(t) => Unborn' = Unborn
  BY StepRelinks
<1>2. ListsOK'
  BY <1>1, StepFrames, RelinkedLists DEF KernelInv
<1>3. DonorsWait'
  BY StepDonors DEF KernelInv, LinksInv, HoldersLive, DonorsWait
<1>4. HoldersMove
  <2>1. CASE Take(t) \/ TryTake(t)
    <3>1. /\ cur = t /\ ~ CreateUnblock(t) /\ UNCHANGED status
          /\ holder' = [holder EXCEPT ![frame[t].lock] = t]
      BY <2>1 DEF Take, TryTake, CreateUnblock, At, cpuVars
    <3>2. holder \in [Locks -> Threads \union {NULL}]
      BY DEF KernelInv, TypeOK, LockType
    <3> QED
      BY <1>1, <3>1, <3>2 DEF HoldersMove
  <2>2. CASE ClearHolder(t)
    <3>1. holder' = [holder EXCEPT ![frame[t].lock] = NULL]
      BY <2>2 DEF ClearHolder
    <3>2. holder \in [Locks -> Threads \union {NULL}]
      BY DEF KernelInv, TypeOK, LockType
    <3> QED
      BY <3>1, <3>2 DEF HoldersMove
  <2>3. CASE ~ (Take(t) \/ TryTake(t) \/ ClearHolder(t))
    <3>1. UNCHANGED holder
      BY <2>3 DEF KernelStep, SchedStep, SleepStep, SynchStep, SemaDown, SemaUp,
         CheckHolder, MarkWaiting, Donate, DonateStop, Unlist, BroadcastNext, synchVars,
         lockVars
    <3> QED
      BY <3>1 DEF HoldersMove
  <2> QED
    BY <2>1, <2>2, <2>3
<1>5. \A u \in Threads : Gone(u)' => Gone(u) \/ Held(u) = {}
  BY StepStatus DEF KernelInv
<1>6. HoldersLive'
  BY <1>1, <1>3, <1>4, <1>5, HoldersLiveOn
<1> QED
  BY <1>1, <1>2, <1>6 DEF LinksInv

LEMMA InterruptLinksInv ==
    ASSUME KernelInv, CallsOK, LinksInv, IdleStep \/ Tick \/ Handler \/ Device
    PROVE  LinksInv'
<1>1. Relinked /\ ChildrenOK' /\ Unborn' = Unborn
  BY InterruptLinks
<1>2. ListsOK'
  BY <1>1, InterruptFrames, RelinkedLists DEF KernelInv
<1>3. DonorsWait'
  BY InterruptDonors DEF KernelInv, LinksInv, HoldersLive, DonorsWait
<1>4. HoldersMove
  BY DEF HoldersMove, IdleStep, Tick, Handler, Device, DeviceSemaUp, synchVars, lockVars
<1>5. \A u \in Threads : Gone(u)' => Gone(u) \/ Held(u) = {}
  BY InterruptStatus DEF KernelInv
<1>6. HoldersLive'
  BY <1>1, <1>3, <1>4, <1>5, HoldersLiveOn
<1> QED
  BY <1>1, <1>2, <1>6 DEF LinksInv

LEMMA LinksStep ==
    ASSUME KernelInv, CallsOK, LinksInv, [Next]_vars
    PROVE  LinksInv'
<1>1. CASE UNCHANGED vars
  <2>1. UNCHANGED <<ready_list, status, cur, wait_list, waiters, frame, holder, wait_for_lock>>
    BY <1>1 DEF vars, schedVars, cpuVars, alarmVars, synchVars, semaVars, lockVars
  <2>2. Unborn' = Unborn /\ WaitersOf' = WaitersOf
    BY <2>1 DEF Unborn, Unstarted, WaitersOf
  <2>3. ChildrenOK'
    BY <2>1 DEF LinksInv, ChildrenOK
  <2>4. ListsOK'
    BY <2>1, <2>2 DEF LinksInv, ListsOK, LinkedOnce
  <2>5. HoldersLive'
    BY <2>1 DEF LinksInv, HoldersLive, Unstarted
  <2> QED
    BY <2>3, <2>4, <2>5 DEF LinksInv
<1> QED
  BY <1>1, CallLinksInv, StepLinksInv, InterruptLinksInv DEF Next, CPU, Halted

LEMMA InitLinks == Init => LinksInv
<1> SUFFICES ASSUME Init PROVE LinksInv
  OBVIOUS
<1>1. /\ \A t \in Threads : frame[t] = UserFrame
      /\ \A l \in Locks : holder[l] = NULL
      /\ wait_list = <<>> /\ \A s \in Semaphores : waiters[s] = <<>>
      /\ ready_list = BootList /\ cur = Main
      /\ status = [t \in Tasks |-> IF t = Main THEN "running"
                                   ELSE IF t = Idle THEN "blocked"
                                   ELSE IF t \in ToSet(BootList) THEN "ready" ELSE "free"]
  BY ObjectsAssumption DEF Init, SchedInit, AlarmInit, SynchInit
<1>2. /\ UserFrame.pc = "user" /\ UserFrame.op = "none" /\ UserFrame.child = NULL
  BY DEF UserFrame, FrameAt
<1>3. NULL \notin Threads /\ Main \in Threads /\ Idle \notin Threads
  BY ObjectsAssumption
<1>4. ChildrenOK
  BY <1>1, <1>2, <1>3 DEF ChildrenOK, OwnShape, Starts
<1>5. Unborn = {}
  BY <1>1, <1>2, <1>3 DEF Unborn, Unstarted
<1>6. ToSet(<<>>) = {} /\ IsInjective(<<>>)
  BY DEF ToSet, IsInjective
<1>7. /\ IsInjective(BootList) /\ ToSet(BootList) \subseteq Threads \ {Main}
  <2>1. ToSet(BootList) \in SUBSET (Threads \ {Main})
    BY BootAssumption, MembersType
  <2> QED
    BY <2>1, BootAssumption DEF IsInjective
<1>8. LinkedOnce
  BY <1>1, <1>6, <1>7 DEF LinkedOnce
<1>9. Linking(ToSet(ready_list), ToSet(wait_list), WaitersOf, status, cur, Unborn)
  <2>1. \A s \in Semaphores : WaitersOf[s] = {}
    BY <1>1, <1>6 DEF WaitersOf
  <2> QED
    BY <1>1, <1>3, <1>5, <1>6, <1>7, <2>1 DEF Linking
<1>10. ListsOK
  BY <1>1, <1>6, <1>8, <1>9 DEF ListsOK
<1>11. HoldersLive
  BY <1>1, <1>2, <1>3 DEF HoldersLive
<1> QED
  BY <1>4, <1>10, <1>11 DEF LinksInv

\* The lists of the kernel hold its threads at every step.
LEMMA LinksInvHolds == Spec => [](KernelInv /\ CallsOK /\ LinksInv)
<1>1. Spec => []Mapped
  BY KernelInvHolds, MappedHolds, PTL
<1>2. KernelInv /\ CallsOK /\ LinksInv /\ Mapped /\ Mapped' /\ [Next]_vars
        => CallsOK' /\ LinksInv'
  BY LocksStep, LinksStep
<1> QED
  BY <1>1, <1>2, InitCalls, InitLinks, KernelInvHolds, PTL DEF Spec

-----------------------------------------------------------------------------
(* One list.                                                               *)

PlacesIn(k, list, t) == {<<k, i>> : i \in {j \in DOMAIN list : list[j] = t}}

LEMMA OnePlace ==
    ASSUME NEW k, NEW list, IsInjective(list), NEW t
    PROVE  IF t \in ToSet(list) THEN \E p : PlacesIn(k, list, t) = {p}
                                ELSE PlacesIn(k, list, t) = {}
<1>1. CASE t \in ToSet(list)
  <2>1. PICK n \in DOMAIN list : list[n] = t
    BY <1>1 DEF ToSet
  <2>2. {j \in DOMAIN list : list[j] = t} = {n}
    BY <2>1 DEF IsInjective
  <2>3. PlacesIn(k, list, t) = {<<k, n>>}
    BY <2>2 DEF PlacesIn
  <2> QED
    BY <1>1, <2>3
<1>2. CASE t \notin ToSet(list)
  <2>1. {j \in DOMAIN list : list[j] = t} = {}
    BY <1>2 DEF ToSet
  <2> QED
    BY <1>2, <2>1 DEF PlacesIn
<1> QED
  BY <1>1, <1>2

\* A thread that lives and does not run is linked exactly once, over all the
\* lists there are, and any other thread is linked nowhere: whatever donations
\* move, sema_up() wakes, the timer wakes or thread_create() starts, no thread
\* is lost and no list is spliced through another.
THEOREM ThreadsAreLinkedOnce == Spec => []OneList
<1>1. KernelInv /\ LinksInv => OneList
  <2> SUFFICES ASSUME KernelInv, LinksInv, NEW t \in Threads
               PROVE  Cardinality(Places(t)) =
                        IF status[t] \in {"ready", "blocked"} /\ ~ Unstarted(t) THEN 1 ELSE 0
    BY DEF OneList
  <2> DEFINE R == PlacesIn("ready", ready_list, t)
             S == PlacesIn("sleep", wait_list, t)
             W(s) == PlacesIn(s, waiters[s], t)
  <2>1. Linked /\ LinkedOnce
    BY NowLinked
  <2>2. Places(t) = (R \cup S) \cup UNION {W(s) : s \in Semaphores}
    BY DEF Places, PlacesIn
  <2>3. /\ IF t \in ToSet(ready_list) THEN \E p : R = {p} ELSE R = {}
        /\ IF t \in ToSet(wait_list) THEN \E p : S = {p} ELSE S = {}
        /\ \A s \in Semaphores : IF t \in ToSet(waiters[s]) THEN \E p : W(s) = {p} ELSE W(s) = {}
    BY <2>1, OnePlace DEF LinkedOnce
  <2> HIDE DEF R, S, W
  <2>4. \A s \in Semaphores : WaitersOf[s] = ToSet(waiters[s])
    BY DEF WaitersOf
  <2>5. Linking(ToSet(ready_list), ToSet(wait_list), WaitersOf, status, cur, Unborn)
        /\ (t \in Unborn <=> Unstarted(t))
    BY <2>1 DEF Linked, Links, Unborn
  <2>6. CASE t \in ToSet(ready_list)
    <3>1. /\ t \notin ToSet(wait_list) /\ \A s \in Semaphores : t \notin ToSet(waiters[s])
          /\ status[t] \in {"ready", "blocked"} /\ ~ Unstarted(t)
      BY <2>4, <2>5, <2>6 DEF Linking
    <3>2. PICK p : Places(t) = {p}
      <4>1. PICK p : R = {p}
        BY <2>3, <2>6
      <4>2. S = {} /\ \A s \in Semaphores : W(s) = {}
        BY <2>3, <3>1
      <4>3. UNION {W(s) : s \in Semaphores} = {}
        BY <4>2
      <4> QED
        BY <2>2, <4>1, <4>2, <4>3
    <3> QED
      BY <3>1, <3>2, FS_Singleton
  <2>7. CASE t \in ToSet(wait_list)
    <3>1. /\ t \notin ToSet(ready_list) /\ \A s \in Semaphores : t \notin ToSet(waiters[s])
          /\ status[t] \in {"ready", "blocked"} /\ ~ Unstarted(t)
      BY <2>4, <2>5, <2>7 DEF Linking
    <3>2. PICK p : Places(t) = {p}
      <4>1. PICK p : S = {p}
        BY <2>3, <2>7
      <4>2. R = {} /\ \A s \in Semaphores : W(s) = {}
        BY <2>3, <3>1
      <4>3. UNION {W(s) : s \in Semaphores} = {}
        BY <4>2
      <4> QED
        BY <2>2, <4>1, <4>2, <4>3
    <3> QED
      BY <3>1, <3>2, FS_Singleton
  <2>8. ASSUME NEW r \in Semaphores, t \in ToSet(waiters[r])
        PROVE  Cardinality(Places(t)) =
                        IF status[t] \in {"ready", "blocked"} /\ ~ Unstarted(t) THEN 1 ELSE 0
    <3>1. /\ t \notin ToSet(ready_list) /\ t \notin ToSet(wait_list)
          /\ status[t] \in {"ready", "blocked"} /\ ~ Unstarted(t)
      BY <2>4, <2>5, <2>8 DEF Linking
    <3>2. \A s \in Semaphores : s # r => t \notin ToSet(waiters[s])
      BY <2>4, <2>5, <2>8 DEF Linking
    <3>3. PICK p : Places(t) = {p}
      <4>1. PICK p : W(r) = {p}
        BY <2>3, <2>8
      <4>2. R = {} /\ S = {} /\ \A s \in Semaphores : s # r => W(s) = {}
        BY <2>3, <3>1, <3>2
      <4>3. UNION {W(s) : s \in Semaphores} = W(r)
        BY <4>2
      <4> QED
        BY <2>2, <4>1, <4>2, <4>3
    <3> QED
      BY <3>1, <3>3, FS_Singleton
  <2>9. CASE /\ t \notin ToSet(ready_list) /\ t \notin ToSet(wait_list)
             /\ \A s \in Semaphores : t \notin ToSet(waiters[s])
    <3>1. ~ (status[t] \in {"ready", "blocked"} /\ ~ Unstarted(t))
      BY <2>4, <2>5, <2>9 DEF Linking
    <3>2. Places(t) = {}
      <4>1. R = {} /\ S = {} /\ \A s \in Semaphores : W(s) = {}
        BY <2>3, <2>9
      <4>2. UNION {W(s) : s \in Semaphores} = {}
        BY <4>1
      <4> QED
        BY <2>2, <4>1, <4>2
    <3> QED
      BY <3>1, <3>2, FS_EmptySet
  <2> QED
    BY <2>6, <2>7, <2>8, <2>9
<1> QED
  BY <1>1, LinksInvHolds, PTL

-----------------------------------------------------------------------------
(* The sleepers.                                                           *)

\* The list of timer_sleep(), latest first.
SleepersSorted == Sorted(wait_list, remaining)

\* A change of the keys that keeps the order of the members.
LEMMA SortedUnder ==
    ASSUME NEW list, NEW old, NEW new, Sorted(list, old),
           \A a, b \in ToSet(list) : ~ Less(old, b, a) => ~ Less(new, b, a)
    PROVE  Sorted(list, new)
<1>1. \A i \in DOMAIN list : list[i] \in ToSet(list)
  BY DEF ToSet
<1> QED
  BY <1>1 DEF Sorted

\* The sleepers and their times stay, or those of the running thread change.
LEMMA SleepersKept ==
    ASSUME KernelInv, LinksInv, SleepersSorted, UNCHANGED wait_list,
           \A t \in Threads : t # cur => remaining'[t] = remaining[t]
    PROVE  SleepersSorted'
<1>1. ToSet(wait_list) \in SUBSET Threads /\ cur \notin ToSet(wait_list)
  BY NowLinked DEF Linked, Links, LinkTypes, Linking
<1> QED
  BY <1>1, SortedUnder DEF SleepersSorted, Less

LEMMA CallSleepers ==
    ASSUME KernelInv, LinksInv, SleepersSorted, NEW t \in Threads, ClientCall(t)
    PROVE  SleepersSorted'
<1>1. cur = t /\ remaining \in [Threads -> - MaxLag .. MaxSleep]
  BY CallFrames DEF KernelInv, TypeOK, AlarmType
<1>2. CASE CallSleep(t)
  BY <1>1, <1>2, SleepersKept DEF CallSleep, TimerSleep
<1>3. CASE ~ CallSleep(t)
  <2>1. UNCHANGED alarmVars
    BY <1>3 DEF ClientCall, CallYield, CallSetPriority, CallCreate, CallExit,
       CallSemaDown, CallSemaUp, CallSemaTryDown, CallAcquire, CallTryAcquire, CallRelease,
       CallCondWait, CallCondSignal, CallCondBroadcast, SemaCall, SemaTryDown, LockAcquire,
       LockTryAcquire, LockRelease, CondWait, CondSignal, CondBroadcast
  <2> QED
    BY <2>1 DEF SleepersSorted, alarmVars
<1> QED
  BY <1>2, <1>3

LEMMA StepSleepers ==
    ASSUME KernelInv, LinksInv, SleepersSorted, NEW t \in Threads, KernelStep(t)
    PROVE  SleepersSorted'
<1>1. /\ cur = t /\ remaining \in [Threads -> - MaxLag .. MaxSleep]
      /\ wait_list \in Seq(Threads) /\ \A u \in Threads : remaining[u] \in Int
  BY StepFrames, AlarmAssumption DEF KernelInv, TypeOK, AlarmType
<1>2. CASE SleepInsert(t)
  BY <1>1, <1>2, InsertKeepsSorted DEF SleepersSorted, SleepInsert
<1>3. CASE SleepReturn(t)
  BY <1>1, <1>3, SleepersKept DEF SleepReturn
<1>4. CASE Donate(t)
  <2>1. UNCHANGED remaining
    BY <1>4 DEF Donate
  <2>2. \/ UNCHANGED wait_list
        \/ \E h : wait_list' = list_remove(wait_list, h)
    BY <1>4 DEF Donate, DonateStep
  <2> QED
    BY <1>1, <2>1, <2>2, RemoveKeepsSorted DEF SleepersSorted
<1>5. CASE ~ (SleepInsert(t) \/ SleepReturn(t) \/ Donate(t))
  <2>1. UNCHANGED alarmVars
    BY <1>5 DEF KernelStep, SchedStep, SleepStep, SynchStep, SemaDown, SemaUp,
       CheckHolder, MarkWaiting, DonateStop, Take, TryTake, Unlist, ClearHolder,
       BroadcastNext
  <2> QED
    BY <2>1 DEF SleepersSorted, alarmVars
<1> QED
  BY <1>2, <1>3, <1>4, <1>5

LEMMA InterruptSleepers ==
    ASSUME KernelInv, LinksInv, SleepersSorted, IdleStep \/ Tick \/ Handler \/ Device
    PROVE  SleepersSorted'
<1>1. /\ remaining \in [Threads -> - MaxLag .. MaxSleep] /\ wait_list \in Seq(Threads)
      /\ MaxLag \in Nat /\ MaxSleep \in Nat
  BY AlarmAssumption DEF KernelInv, TypeOK, AlarmType
<1>2. CASE Tick
  <2>1. UNCHANGED wait_list /\
        remaining' = [t \in Threads |-> IF Sleeping(t) /\ remaining[t] > - MaxLag
                                        THEN remaining[t] - 1 ELSE remaining[t]]
    BY <1>2 DEF Tick, TimerInterrupt
  <2>2. \A t \in ToSet(wait_list) : t \in Threads /\ Sleeping(t)
    BY <1>1, MembersType DEF LinksInv, ListsOK, Sleeping
  <2>3. \A t \in ToSet(wait_list) :
           /\ remaining[t] \in - MaxLag .. MaxSleep
           /\ remaining'[t] = IF remaining[t] > - MaxLag THEN remaining[t] - 1 ELSE remaining[t]
    BY <1>1, <2>1, <2>2
  <2>4. \A a, b \in ToSet(wait_list) : ~ Less(remaining, b, a) => ~ Less(remaining', b, a)
    BY <1>1, <2>3 DEF Less
  <2> QED
    BY <2>1, <2>4, SortedUnder DEF SleepersSorted
<1>3. CASE TimerWakeUp
  BY <1>1, <1>3, FrontLastUnique DEF SleepersSorted, TimerWakeUp, Due
<1>4. CASE IdleStep \/ TimerReturn \/ Device
  BY <1>4 DEF SleepersSorted, IdleStep, TimerReturn, Device, DeviceSemaUp, alarmVars
<1> QED
  BY <1>2, <1>3, <1>4 DEF Handler

LEMMA SleepersSortedHolds == Spec => []SleepersSorted
<1>1. Init => SleepersSorted
  BY DEF Init, AlarmInit, SleepersSorted, Sorted
<1>2. KernelInv /\ LinksInv /\ SleepersSorted /\ [Next]_vars => SleepersSorted'
  <2> SUFFICES ASSUME KernelInv, LinksInv, SleepersSorted, [Next]_vars PROVE SleepersSorted'
    OBVIOUS
  <2>1. CASE UNCHANGED vars
    BY <2>1 DEF vars, alarmVars, SleepersSorted
  <2> QED
    BY <2>1, CallSleepers, StepSleepers, InterruptSleepers DEF Next, CPU, Halted
<1> QED
  BY <1>1, <1>2, LinksInvHolds, PTL DEF Spec

\* The timer's handler never returns with a thread still asleep whose time has
\* come: it stops at the first sleeper that is not due, and the list is in order
\* whatever was inserted, woken or moved away by a donation meanwhile.
THEOREM HandlerWakesAllDue == Spec => WakesAllDue
<1>1. KernelInv /\ SleepersSorted /\ [Next]_vars
      => [in_external_intr /\ ~ in_external_intr'
             => \A t \in ToSet(wait_list') : remaining'[t] > 0]_vars
  <2> SUFFICES ASSUME KernelInv, SleepersSorted, [Next]_vars, in_external_intr,
                      ~ in_external_intr', NEW t \in ToSet(wait_list')
               PROVE  remaining'[t] > 0
    OBVIOUS
  <2>1. TimerReturn
    <3>1. ~ UNCHANGED in_external_intr
      OBVIOUS
    <3>2. ~ CPU
      <4>1. \A u \in Threads : ~ ClientCall(u)
        BY DEF ClientCall, CallYield, CallSetPriority, CallCreate, CallSleep, CallExit,
           CallSemaDown, CallSemaUp, CallSemaTryDown, CallAcquire, CallTryAcquire, CallRelease,
           CallCondWait, CallCondSignal, CallCondBroadcast, ThreadYield, ThreadSetPriority,
           ThreadCreate, TimerSleep, ThreadExit, SemaCall, SemaTryDown, LockAcquire,
           LockTryAcquire, LockRelease, CondWait, CondSignal, CondBroadcast, At
      <4>2. \A u \in Threads : ~ KernelStep(u)
        BY SMTT(30) DEF KernelStep, SchedStep, SleepStep, SynchStep, CreateUnblock, CreateCheck,
           SleepInsert, SleepReturn, SemaDown, SemaUp, CheckHolder, MarkWaiting, Donate,
           DonateStop, Take, TryTake, Unlist, ClearHolder, BroadcastNext, At
      <4>3. ~ IdleStep
        BY DEF IdleStep, IdleBlock, At
      <4> QED
        BY <4>1, <4>2, <4>3 DEF CPU
    <3> QED
      BY <3>1, <3>2 DEF Next, Tick, TimerInterrupt, Handler, TimerWakeUp, Device, DeviceSemaUp,
         Interruptible, Halted, vars, schedVars
  <2>2. ~ Due /\ UNCHANGED <<wait_list, remaining>>
    BY <2>1 DEF TimerReturn
  <2>3. /\ wait_list \in Seq(Threads) /\ \A u \in Threads : remaining[u] \in Int
    BY AlarmAssumption DEF KernelInv, TypeOK, AlarmType
  <2>4. PICK i \in 1 .. Len(wait_list) : wait_list[i] = t
    BY <2>2, <2>3 DEF ToSet
  <2>5. /\ wait_list # <<>> /\ Len(wait_list) \in 1 .. Len(wait_list)
        /\ Last(wait_list) = wait_list[Len(wait_list)]
    BY <2>3, <2>4 DEF Last
  <2>6. remaining[t] >= remaining[Last(wait_list)]
    <3>1. CASE i = Len(wait_list)
      BY <2>3, <2>4, <2>5, <3>1
    <3>2. CASE i # Len(wait_list)
      <4>1. i < Len(wait_list)
        BY <2>3, <2>4, <3>2
      <4>2. ~ Less(remaining, wait_list[Len(wait_list)], wait_list[i])
        BY <2>3, <2>4, <2>5, <4>1 DEF SleepersSorted, Sorted
      <4> QED
        BY <2>3, <2>4, <2>5, <4>2 DEF Less
    <3> QED
      BY <3>1, <3>2
  <2>7. remaining[Last(wait_list)] > 0
    BY <2>2, <2>3, <2>5 DEF Due
  <2> QED
    BY <2>2, <2>3, <2>4, <2>5, <2>6, <2>7
<1> QED
  BY <1>1, KernelInvHolds, SleepersSortedHolds, PTL DEF Spec, WakesAllDue

-----------------------------------------------------------------------------
(* Wake-ups.                                                               *)

BlockedOn(s) == {t \in Threads : frame[t].pc = "down_blocked" /\ frame[t].sema = s}

\* A semaphore with waiters is worth at most the threads on their way out of it.
WakeOK(s) ==
    /\ IsFiniteSet(Woken(s))
    /\ ToSet(waiters[s]) # {} => value[s] <= Cardinality(Woken(s))

WakesOK == \A s \in Semaphores : WakeOK(s)

LEMMA WokenMembers ==
    ASSUME TypeOK, NEW s \in Semaphores
    PROVE  Woken(s) = BlockedOn(s) \ ToSet(waiters[s])
<1>1. waiters[s] \in Seq(Threads)
  BY DEF TypeOK, SemaType
<1>2. \A t : Contains(waiters[s], t) <=> t \in ToSet(waiters[s])
  BY <1>1 DEF Contains, ToSet
<1> QED
  BY <1>2 DEF Woken, BlockedOn

LEMMA WokenMembersNext ==
    ASSUME TypeOK', NEW s \in Semaphores
    PROVE  Woken(s)' = BlockedOn(s)' \ ToSet(waiters'[s])
<1>1. waiters'[s] \in Seq(Threads)
  BY DEF TypeOK, SemaType
<1>2. \A t : Contains(waiters'[s], t) <=> t \in ToSet(waiters'[s])
  BY <1>1 DEF Contains, ToSet
<1> QED
  BY <1>2 DEF Woken, BlockedOn

\* Nobody stops waiting, and at most one thread is taken off the list.
LEMMA WakeKept ==
    ASSUME TypeOK, TypeOK', NEW s \in Semaphores, WakeOK(s), NEW x,
           BlockedOn(s)' = BlockedOn(s), value'[s] <= value[s],
           ToSet(waiters'[s]) \in {ToSet(waiters[s]), ToSet(waiters[s]) \ {x}}
    PROVE  WakeOK(s)' /\ x = x
<1>1. /\ Woken(s) \subseteq Woken(s)' /\ Woken(s)' \subseteq Woken(s) \cup {x}
      /\ value[s] \in Nat /\ value'[s] \in Nat
  BY WokenMembers, WokenMembersNext DEF TypeOK, SemaType
<1>2. IsFiniteSet(Woken(s)')
  BY <1>1, FS_Subset, FS_AddElement DEF WakeOK
<1>3. /\ Cardinality(Woken(s)) <= Cardinality(Woken(s)')
      /\ Cardinality(Woken(s)) \in Nat /\ Cardinality(Woken(s)') \in Nat
  BY <1>1, <1>2, FS_Subset, FS_CardinalityType
<1>4. ToSet(waiters'[s]) # {} => value'[s] <= Cardinality(Woken(s)')
  BY <1>1, <1>3 DEF WakeOK
<1> QED
  BY <1>2, <1>4 DEF WakeOK

LEMMA WakeSame ==
    ASSUME TypeOK, TypeOK', NEW s \in Semaphores, WakeOK(s),
           BlockedOn(s)' = BlockedOn(s), value'[s] <= value[s],
           ToSet(waiters'[s]) = ToSet(waiters[s])
    PROVE  WakeOK(s)'
BY WakeKept

LEMMA CallBlocked ==
    ASSUME KernelInv, NEW t \in Threads, ClientCall(t), NEW s
    PROVE  BlockedOn(s)' = BlockedOn(s)
<1>1. \A u \in Threads : frame'[u] = frame[u] \/ (frame'[u].pc # "down_blocked"
                                                  /\ frame[u].pc # "down_blocked")
  <2>1. \A u \in Threads : u # t => \/ frame'[u] = frame[u]
                                    \/ frame'[u].pc = "user" /\ frame[u].pc = "user"
    BY CallFrames DEF KernelInv, GoneFromKernel, Gone
  <2> QED
    BY <2>1, CallFrames, CallPlace DEF KernelInv
<1> QED
  BY <1>1 DEF BlockedOn

LEMMA StepBlocked ==
    ASSUME KernelInv, NEW t \in Threads, KernelStep(t), ~ SemaDown(t), NEW s
    PROVE  BlockedOn(s)' = BlockedOn(s)
<1>1. \A u \in Threads : u # t => frame'[u] = frame[u]
  BY StepFrames DEF KernelInv
<1>2. frame[t].pc # "down_blocked" /\ frame'[t].pc # "down_blocked"
  BY StepPlace DEF KernelInv
<1> QED
  BY <1>1, <1>2 DEF BlockedOn

LEMMA InterruptBlocked ==
    ASSUME KernelInv, IdleStep \/ Tick \/ Handler \/ Device, NEW s
    PROVE  BlockedOn(s)' = BlockedOn(s)
BY InterruptFrames DEF KernelInv, BlockedOn

\* sema_up() adds one to the value and takes one off the list.
LEMMA RaiseWakes ==
    ASSUME KernelInv, LinksInv, KernelInv', WakesOK, NEW s \in Semaphores, SemaRaise(s),
           \A r \in Semaphores : BlockedOn(r)' = BlockedOn(r)
    PROVE  WakesOK'
<1>1. /\ TypeOK /\ TypeOK' /\ LinkedOnce /\ waiters \in [Semaphores -> Seq(Threads)]
      /\ value \in [Semaphores -> Nat] /\ \A u \in Threads : priority[u] \in Int
  BY NowLinked, NumbersAssumption DEF KernelInv, TypeOK, SemaType, PriorityType
<1>2. ASSUME NEW r \in Semaphores, r # s PROVE WakeOK(r)'
  <2>1. value'[r] = value[r] /\ waiters'[r] = waiters[r]
    BY <1>1, <1>2 DEF SemaRaise
  <2> QED
    BY <1>1, <2>1, WakeSame DEF WakesOK
<1>3. CASE ~ Wakes(s)
  <2>1. waiters[s] = <<>> /\ waiters' = waiters
    BY <1>3 DEF Wakes, SemaRaise
  <2>2. ToSet(waiters[s]) = {}
    BY <2>1 DEF ToSet
  <2>3. Woken(s)' = Woken(s)
    BY <1>1, <2>1, WokenMembers, WokenMembersNext
  <2>4. WakeOK(s)'
    BY <2>1, <2>2, <2>3 DEF WakesOK, WakeOK
  <2> QED
    BY <1>2, <2>4 DEF WakesOK
<1>4. CASE Wakes(s)
  <2> DEFINE sorted == list_sort(waiters[s], priority)
  <2>1. waiters[s] \in Seq(Threads) /\ waiters[s] # <<>> /\ IsInjective(waiters[s])
    BY <1>1, <1>4 DEF Wakes, LinkedOnce
  <2>2. /\ sorted \in Seq(Threads) /\ sorted # <<>> /\ IsInjective(sorted)
        /\ ToSet(sorted) = ToSet(waiters[s])
    BY <1>1, <2>1, SortType, SortKeeps
  <2>3. waiters'[s] = Tail(sorted) /\ value'[s] = value[s] + 1
    BY <1>1, <1>4 DEF SemaRaise
  <2> HIDE DEF sorted
  <2>4. PICK x \in ToSet(waiters[s]) : ToSet(waiters'[s]) = ToSet(waiters[s]) \ {x}
    BY <2>2, <2>3, PopFrontUnique
  <2>5. x \in BlockedOn(s)
    <3>1. x \in Threads
      BY <2>1, MembersType
    <3> QED
      BY <3>1 DEF LinksInv, ListsOK, BlockedOn
  <2>6. Woken(s)' = Woken(s) \cup {x} /\ x \notin Woken(s)
    BY <1>1, <2>4, <2>5, WokenMembers, WokenMembersNext
  <2>7. /\ IsFiniteSet(Woken(s)') /\ Cardinality(Woken(s)') = Cardinality(Woken(s)) + 1
        /\ Cardinality(Woken(s)) \in Nat
    BY <2>6, FS_AddElement, FS_CardinalityType DEF WakesOK, WakeOK
  <2>8. value[s] <= Cardinality(Woken(s)) /\ value[s] \in Nat
    BY <1>1 DEF WakesOK, WakeOK
  <2>9. WakeOK(s)'
    BY <2>3, <2>7, <2>8 DEF WakeOK
  <2> QED
    BY <1>2, <2>9 DEF WakesOK
<1> QED
  BY <1>3, <1>4

\* A call raises no semaphore and queues nobody.
LEMMA CallWaiters ==
    ASSUME KernelInv, LinksInv, NEW t \in Threads, ClientCall(t)
    PROVE  \A s \in Semaphores : /\ value'[s] <= value[s]
                                 /\ ToSet(waiters'[s]) = ToSet(waiters[s])
<1>1. /\ value \in [Semaphores -> Nat] /\ t \in Semaphores
      /\ waiters \in [Semaphores -> Seq(Threads)]
  BY DEF KernelInv, TypeOK, SemaType, Semaphores
<1>2. \A s \in Semaphores : value'[s] <= value[s]
  <2>1. CASE CallCondWait(t)
    <3>1. value' = [value EXCEPT ![t] = 0]
      BY <2>1 DEF CallCondWait, CondWait
    <3> QED
      BY <1>1, <3>1
  <2>2. CASE CallSemaTryDown(t) \/ CallTryAcquire(t)
    <3>1. PICK s \in Semaphores : value' = [value EXCEPT ![s] = @ - 1]
      BY <2>2 DEF CallSemaTryDown, SemaTryDown, CallTryAcquire, LockTryAcquire, ClientLocks,
         Semaphores
    <3> QED
      BY <1>1, <3>1
  <2>3. CASE ~ (CallCondWait(t) \/ CallSemaTryDown(t) \/ CallTryAcquire(t))
    <3>1. UNCHANGED value
      BY <2>3 DEF ClientCall, CallYield, CallSetPriority, CallCreate, CallSleep, CallExit,
         CallSemaDown, CallSemaUp, CallAcquire, CallRelease, CallCondSignal,
         CallCondBroadcast, SemaCall, LockAcquire, LockRelease, CondSignal, CondBroadcast,
         synchVars, semaVars
    <3> QED
      BY <1>1, <3>1
  <2> QED
    BY <2>1, <2>2, <2>3
<1>3. \A s \in Semaphores : ToSet(waiters'[s]) = ToSet(waiters[s])
  <2>1. CASE CallCondWait(t)
    <3>1. waiters' = [waiters EXCEPT ![t] = <<>>] /\ frame[t].pc = "user"
      BY <2>1 DEF CallCondWait, CondWait, At
    <3>2. ToSet(waiters[t]) = {} /\ ToSet(<<>>) = {}
      BY <3>1, OwnWaiters DEF ToSet
    <3>3. \A s \in Semaphores : waiters'[s] = IF s = t THEN <<>> ELSE waiters[s]
      BY <1>1, <3>1
    <3> QED
      BY <3>2, <3>3
  <2>2. CASE ~ CallCondWait(t)
    <3>1. UNCHANGED waiters
      BY <2>2 DEF ClientCall, CallYield, CallSetPriority, CallCreate, CallSleep, CallExit,
         CallSemaDown, CallSemaUp, CallSemaTryDown, CallAcquire, CallTryAcquire, CallRelease,
         CallCondSignal, CallCondBroadcast, SemaCall, SemaTryDown, LockAcquire,
         LockTryAcquire, LockRelease, CondSignal, CondBroadcast, synchVars, semaVars
    <3> QED
      BY <3>1
  <2> QED
    BY <2>1, <2>2
<1> QED
  BY <1>2, <1>3

LEMMA CallWakes ==
    ASSUME KernelInv, LinksInv, KernelInv', WakesOK, NEW t \in Threads, ClientCall(t)
    PROVE  WakesOK'
<1>1. \A s \in Semaphores : BlockedOn(s)' = BlockedOn(s)
  BY CallBlocked
<1> QED
  BY <1>1, CallWaiters, WakeSame DEF WakesOK, KernelInv

\* One turn of sema_down().
LEMMA DownWakes ==
    ASSUME KernelInv, LinksInv, KernelInv', WakesOK, NEW t \in Threads, SemaDown(t)
    PROVE  WakesOK'
<1>0. frame[t].sema \in Semaphores
  BY DEF SemaDown, At, KernelInv, FramesOK, FrameShape
<1> PICK s \in Semaphores : s = frame[t].sema
  BY <1>0
<1>1. /\ cur = t /\ frame[t].pc \in {"down", "down_blocked"}
      /\ frame \in [Tasks -> FrameType] /\ frame[t] \in FrameType
      /\ SemaDownWait(t, s) \/ SemaDownTake(t, s)
      /\ TypeOK /\ TypeOK' /\ value \in [Semaphores -> Nat]
      /\ waiters \in [Semaphores -> Seq(Threads)]
  BY DEF SemaDown, At, KernelInv, FramesOK, FrameShape, TypeOK, ControlType, SemaType
<1>2. \A r \in Semaphores : t \notin ToSet(waiters[r])
  <2>1. \A r \in Semaphores : WaitersOf[r] = ToSet(waiters[r])
    BY DEF WaitersOf
  <2> QED
    BY <1>1, <2>1, NowLinked, SMTT(30) DEF Linked, Links, Linking
<1>3. \A u \in Threads : u # t => frame'[u] = frame[u]
  BY <1>1 DEF SemaDownWait, SemaDownTake, Goto
<1>4. CASE SemaDownWait(t, s)
  <2>1. /\ value[s] = 0 /\ UNCHANGED value
        /\ waiters' = [waiters EXCEPT ![s] = list_push_back(@, t)]
        /\ frame'[t].pc = "down_blocked" /\ frame'[t].sema = s
    BY <1>1, <1>4 DEF SemaDownWait, Goto, FrameType
  <2>2. ASSUME NEW r \in Semaphores, r # s PROVE WakeOK(r)'
    <3>1. BlockedOn(r)' = BlockedOn(r)
      BY <1>1, <1>3, <2>1, <2>2 DEF BlockedOn
    <3>2. waiters'[r] = waiters[r] /\ value'[r] <= value[r]
      BY <1>1, <2>1, <2>2
    <3> QED
      BY <1>1, <3>1, <3>2, WakeSame DEF WakesOK
  <2>3. ToSet(waiters'[s]) = ToSet(waiters[s]) \cup {t}
    BY <1>1, <2>1, PushBackUnique
  <2>4. BlockedOn(s)' = BlockedOn(s) \cup {t}
    BY <1>3, <2>1 DEF BlockedOn
  <2>5. Woken(s)' \subseteq Woken(s)
    BY <1>1, <2>3, <2>4, WokenMembers, WokenMembersNext
  <2>6. IsFiniteSet(Woken(s)') /\ Cardinality(Woken(s)') \in Nat
    BY <1>1, <2>5, FS_Subset, FS_CardinalityType DEF WakesOK, WakeOK
  <2>7. WakeOK(s)'
    BY <2>1, <2>6 DEF WakeOK
  <2> QED
    BY <2>2, <2>7 DEF WakesOK
<1>5. CASE SemaDownTake(t, s)
  <2>1. /\ value[s] > 0 /\ value' = [value EXCEPT ![s] = @ - 1] /\ UNCHANGED waiters
        /\ frame'[t].pc # "down_blocked"
    BY <1>1, <1>5, AfterPcs DEF SemaDownTake
  <2>2. ASSUME NEW r \in Semaphores, r # s PROVE WakeOK(r)'
    <3>1. BlockedOn(r)' = BlockedOn(r)
      BY <1>1, <1>3, <2>1, <2>2 DEF BlockedOn
    <3>2. waiters'[r] = waiters[r] /\ value'[r] <= value[r]
      BY <1>1, <2>1, <2>2
    <3> QED
      BY <1>1, <3>1, <3>2, WakeSame DEF WakesOK
  <2>3. BlockedOn(s)' = BlockedOn(s) \ {t}
    BY <1>3, <2>1 DEF BlockedOn
  <2>4. Woken(s)' = Woken(s) \ {t}
    BY <1>1, <2>1, <2>3, WokenMembers, WokenMembersNext
  <2>5. IsFiniteSet(Woken(s)) /\ Cardinality(Woken(s)) \in Nat
    BY FS_CardinalityType DEF WakesOK, WakeOK
  <2>6. /\ IsFiniteSet(Woken(s) \ {t})
        /\ \/ Cardinality(Woken(s) \ {t}) = Cardinality(Woken(s)) - 1
           \/ Cardinality(Woken(s) \ {t}) = Cardinality(Woken(s))
    BY <2>5, FS_RemoveElement
  <2>7. /\ IsFiniteSet(Woken(s)')
        /\ \/ Cardinality(Woken(s)') = Cardinality(Woken(s)) - 1
           \/ Cardinality(Woken(s)') = Cardinality(Woken(s))
    BY <2>4, <2>6
  <2>8. ToSet(waiters[s]) # {} => value[s] <= Cardinality(Woken(s))
    BY DEF WakesOK, WakeOK
  <2>9. value'[s] = value[s] - 1 /\ value[s] \in Nat /\ waiters'[s] = waiters[s]
    BY <1>1, <2>1
  <2>10. ToSet(waiters'[s]) # {} => value'[s] <= Cardinality(Woken(s)')
    BY <2>5, <2>7, <2>8, <2>9
  <2>11. WakeOK(s)'
    BY <2>7, <2>10 DEF WakeOK
  <2> QED
    BY <2>2, <2>11 DEF WakesOK
<1> QED
  BY <1>1, <1>4, <1>5

\* A step that is not one of sema_down() or sema_up() takes at most one thread,
\* the holder a donation reaches, off the lists of waiters.
LEMMA StepWaiters ==
    ASSUME KernelInv, LinksInv, NEW t \in Threads, KernelStep(t), ~ SemaDown(t), ~ SemaUp(t)
    PROVE  /\ UNCHANGED value
           /\ \E h : \A s \in Semaphores :
                 ToSet(waiters'[s]) \in {ToSet(waiters[s]), ToSet(waiters[s]) \ {h}}
<1>1. /\ LinkedOnce /\ waiters \in [Semaphores -> Seq(Threads)]
      /\ \A u \in Threads : priority[u] \in Int
  BY NowLinked, NumbersAssumption DEF KernelInv, TypeOK, SemaType, PriorityType
<1>2. UNCHANGED value
  BY DEF KernelStep, SchedStep, SleepStep, SynchStep, CheckHolder, MarkWaiting,
     Donate, DonateStop, Take, TryTake, Unlist, ClearHolder, BroadcastNext, synchVars,
     semaVars
<1> SUFFICES \E h : \A s \in Semaphores :
                ToSet(waiters'[s]) \in {ToSet(waiters[s]), ToSet(waiters[s]) \ {h}}
  BY <1>2
<1>3. CASE Donate(t)
  <2>1. \/ UNCHANGED waiters
        \/ \E h : waiters' = [s \in Semaphores |-> list_remove(waiters[s], h)]
    BY <1>3 DEF Donate, DonateStep
  <2>2. CASE UNCHANGED waiters
    BY <2>2
  <2>3. CASE \E h : waiters' = [s \in Semaphores |-> list_remove(waiters[s], h)]
    <3>1. PICK h : waiters' = [s \in Semaphores |-> list_remove(waiters[s], h)]
      BY <2>3
    <3>2. ASSUME NEW s \in Semaphores
          PROVE  ToSet(waiters'[s]) = ToSet(waiters[s]) \ {h}
      <4>1. waiters'[s] = list_remove(waiters[s], h)
        BY <3>1
      <4>2. waiters[s] \in Seq(Threads) /\ IsInjective(waiters[s])
        BY <1>1 DEF LinkedOnce
      <4> QED
        BY <4>1, <4>2, RemoveUnique
    <3> QED
      BY <3>2
  <2> QED
    BY <2>1, <2>2, <2>3
<1>4. CASE Unlist(t)
  <2>1. \/ UNCHANGED waiters
        \/ \A r \in Semaphores : waiters'[r] \in {list_sort(waiters[r], priority), waiters[r]}
    BY <1>4 DEF Unlist, thread_next_priority
  <2> QED
    BY <1>1, <2>1, SortKeeps
<1>5. CASE ~ (Donate(t) \/ Unlist(t))
  <2>1. UNCHANGED waiters
    BY <1>5 DEF KernelStep, SchedStep, SleepStep, SynchStep, CheckHolder,
       MarkWaiting, DonateStop, Take, TryTake, ClearHolder, BroadcastNext, synchVars,
       semaVars
  <2> QED
    BY <2>1
<1> QED
  BY <1>3, <1>4, <1>5

LEMMA StepWakes ==
    ASSUME KernelInv, LinksInv, KernelInv', WakesOK, NEW t \in Threads, KernelStep(t)
    PROVE  WakesOK'
<1>1. CASE SemaDown(t)
  BY <1>1, DownWakes
<1>2. CASE SemaUp(t)
  <2>1. frame[t].sema \in Semaphores /\ SemaRaise(frame[t].sema) /\ ~ SemaDown(t)
    BY <1>2 DEF SemaUp, SemaDown, At, KernelInv, FramesOK, FrameShape
  <2> QED
    BY <2>1, StepBlocked, RaiseWakes
<1>3. CASE ~ SemaDown(t) /\ ~ SemaUp(t)
  <2>1. \A s \in Semaphores : BlockedOn(s)' = BlockedOn(s)
    BY <1>3, StepBlocked
  <2>2. PICK h : \A s \in Semaphores :
           ToSet(waiters'[s]) \in {ToSet(waiters[s]), ToSet(waiters[s]) \ {h}}
    BY <1>3, StepWaiters
  <2>3. \A s \in Semaphores : value'[s] <= value[s]
    BY <1>3, StepWaiters DEF KernelInv, TypeOK, SemaType
  <2> QED
    BY <2>1, <2>2, <2>3, WakeKept DEF WakesOK, KernelInv
<1> QED
  BY <1>1, <1>2, <1>3

LEMMA InterruptWakes ==
    ASSUME KernelInv, LinksInv, KernelInv', WakesOK, IdleStep \/ Tick \/ Handler \/ Device
    PROVE  WakesOK'
<1>1. \A s \in Semaphores : BlockedOn(s)' = BlockedOn(s)
  BY InterruptBlocked
<1>2. CASE Device
  <2>1. PICK s \in DeviceSemas : DeviceSemaUp(s)
    BY <1>2 DEF Device
  <2>2. s \in Semaphores /\ SemaRaise(s)
    BY <2>1, SynchAssumption DEF DeviceSemaUp, Semaphores
  <2> QED
    BY <1>1, <2>2, RaiseWakes
<1>3. CASE IdleStep \/ Tick \/ Handler
  <2>1. UNCHANGED <<value, waiters>>
    BY <1>3 DEF IdleStep, Tick, Handler, synchVars, semaVars
  <2>2. \A s \in Semaphores : value'[s] <= value[s]
    BY <2>1 DEF KernelInv, TypeOK, SemaType
  <2> QED
    BY <1>1, <2>1, <2>2, WakeSame DEF WakesOK, KernelInv
<1> QED
  BY <1>2, <1>3

\* Whatever barges in on a semaphore between a wake-up and the woken thread's
\* next turn of sema_down(), whatever donations move, and however the timer and
\* the devices interleave: threads that wait are blocked, and one of them is left
\* waiting only while as many as the semaphore is worth have been woken.
THEOREM NoWakeupIsLost == Spec => []NoLostWakeup
<1>1. Init => WakesOK
  <2> SUFFICES ASSUME Init, NEW s \in Semaphores PROVE WakeOK(s)
    BY DEF WakesOK
  <2>1. \A t \in Threads : frame[t].pc = "user"
    BY ObjectsAssumption DEF Init, SchedInit, UserFrame, FrameAt
  <2>2. Woken(s) = {}
    BY <2>1 DEF Woken
  <2>3. ToSet(waiters[s]) = {}
    BY DEF Init, SynchInit, ToSet
  <2> QED
    BY <2>2, <2>3, FS_EmptySet DEF WakeOK
<1>2. KernelInv /\ LinksInv /\ KernelInv' /\ WakesOK /\ [Next]_vars => WakesOK'
  <2> SUFFICES ASSUME KernelInv, LinksInv, KernelInv', WakesOK, [Next]_vars PROVE WakesOK'
    OBVIOUS
  <2>1. CASE UNCHANGED vars
    BY <2>1 DEF vars, schedVars, synchVars, semaVars, WakesOK, WakeOK, Woken
  <2> QED
    BY <2>1, CallWakes, StepWakes, InterruptWakes DEF Next, CPU, Halted
<1>3. KernelInv /\ LinksInv /\ WakesOK => NoLostWakeup
  <2> SUFFICES ASSUME KernelInv, LinksInv, WakesOK, NEW s \in Semaphores
               PROVE  /\ waiters[s] # <<>> => value[s] <= Cardinality(Woken(s))
                      /\ \A t \in ToSet(waiters[s]) : status[t] = "blocked"
    BY DEF NoLostWakeup
  <2>1. waiters[s] \in Seq(Threads)
    BY DEF KernelInv, TypeOK, SemaType
  <2>2. ASSUME waiters[s] # <<>> PROVE ToSet(waiters[s]) # {}
    BY <2>1, <2>2, FrontLastUnique
  <2>3. \A t \in ToSet(waiters[s]) : status[t] = "blocked"
    <3>1. ToSet(waiters[s]) \in SUBSET Threads /\ WaitersOf[s] = ToSet(waiters[s])
      BY <2>1, MembersType DEF WaitersOf
    <3> QED
      BY <3>1, NowLinked DEF Linked, Links, Linking
  <2> QED
    BY <2>2, <2>3 DEF WakesOK, WakeOK
<1> QED
  BY <1>1, <1>2, <1>3, LinksInvHolds, KernelInvHolds, PTL DEF Spec

-----------------------------------------------------------------------------
(* Early wake-ups.                                                         *)

\* A sleeper holds no lock, so no donation moves it, and it leaves the list when
\* its time has come.
SleeperOK(t) ==
    /\ Sleeping(t) => \A l \in Locks : holder[l] # t
    /\ frame[t].pc = "sleep_blocked" => t \in ToSet(wait_list) \/ remaining[t] <= 0

SleepersOK == \A t \in Threads : SleeperOK(t)

\* Only the running thread becomes a holder.
HeldByRunning == \A l \in Locks : holder'[l] \in {holder[l], NULL, cur}

LEMMA SleepersUnmoved ==
    ASSUME SleepersOK, HeldByRunning, UNCHANGED wait_list, cur \in Threads,
           frame'[cur].pc \notin {"sleep_insert", "sleep_blocked"},
           \A u \in Threads : u # cur => /\ \/ frame'[u] = frame[u]
                                            \/ frame'[u].pc = "user"
                                         /\ remaining'[u] = remaining[u]
    PROVE  SleepersOK'
<1> SUFFICES ASSUME NEW u \in Threads PROVE SleeperOK(u)'
  BY DEF SleepersOK
<1>1. CASE u = cur
  BY <1>1 DEF SleeperOK, Sleeping
<1>2. CASE u # cur
  <2>1. NULL # u
    BY ObjectsAssumption
  <2>2. \A l \in Locks : holder'[l] = u => holder[l] = u
    BY <1>2, <2>1 DEF HeldByRunning
  <2> QED
    BY <1>2, <2>2 DEF SleepersOK, SleeperOK, Sleeping
<1> QED
  BY <1>1, <1>2

LEMMA CallMoves ==
    ASSUME NEW t \in Threads, ClientCall(t)
    PROVE  UNCHANGED holder /\ UNCHANGED wait_list
BY DEF ClientCall, CallYield, CallSetPriority, CallCreate, CallSleep, CallExit, TimerSleep,
   CallSemaDown, CallSemaUp, CallSemaTryDown, CallAcquire, CallTryAcquire, CallRelease,
   CallCondWait, CallCondSignal, CallCondBroadcast, SemaCall, SemaTryDown, LockAcquire,
   LockTryAcquire, LockRelease, CondWait, CondSignal, CondBroadcast, synchVars, lockVars,
   alarmVars

LEMMA CallSleepersOK ==
    ASSUME "timer_sleep" \notin HoldingCalls, KernelInv, SleepersOK, NEW t \in Threads,
           ClientCall(t)
    PROVE  SleepersOK'
<1>1. /\ cur = t /\ remaining \in [Threads -> - MaxLag .. MaxSleep]
      /\ UNCHANGED <<holder, wait_list>>
      /\ \A u \in Threads : u # t => frame'[u] = frame[u] \/ frame'[u].pc = "user"
  BY CallFrames, CallMoves DEF KernelInv, TypeOK, AlarmType
<1>2. HeldByRunning
  BY <1>1 DEF HeldByRunning
<1>3. CASE CallSleep(t)
  <2>1. Held(t) = {} /\ frame'[t].pc = "sleep_insert"
    BY <1>3 DEF CallSleep, MayCall, TimerSleep, Goto, KernelInv, TypeOK, ControlType, FrameType
  <2>2. \A l \in Locks : holder'[l] # t
    BY <1>1, <2>1 DEF Held
  <2>3. \A u \in Threads : u # t => frame'[u] = frame[u] /\ remaining'[u] = remaining[u]
    BY <1>1, <1>3 DEF CallSleep, TimerSleep, Goto, KernelInv, TypeOK, ControlType
  <2>4. ASSUME NEW u \in Threads PROVE SleeperOK(u)'
    <3>1. CASE u = t
      BY <2>1, <2>2, <3>1 DEF SleeperOK
    <3>2. CASE u # t
      BY <1>1, <2>3, <3>2 DEF SleepersOK, SleeperOK, Sleeping
    <3> QED
      BY <3>1, <3>2
  <2> QED
    BY <2>4 DEF SleepersOK
<1>4. CASE ~ CallSleep(t)
  <2>1. UNCHANGED remaining
    BY <1>4 DEF ClientCall, CallYield, CallSetPriority, CallCreate, CallExit,
       CallSemaDown, CallSemaUp, CallSemaTryDown, CallAcquire, CallTryAcquire, CallRelease,
       CallCondWait, CallCondSignal, CallCondBroadcast, SemaCall, SemaTryDown, LockAcquire,
       LockTryAcquire, LockRelease, CondWait, CondSignal, CondBroadcast, alarmVars
  <2>2. frame'[t].pc \notin {"sleep_insert", "sleep_blocked"}
    BY <1>4, CallPlace DEF KernelInv
  <2> QED
    BY <1>1, <1>2, <2>1, <2>2, SleepersUnmoved
<1> QED
  BY <1>3, <1>4

LEMMA StepHolders ==
    ASSUME KernelInv, NEW t \in Threads, KernelStep(t)
    PROVE  HeldByRunning
<1>1. holder \in [Locks -> Threads \union {NULL}]
  BY DEF KernelInv, TypeOK, LockType
<1>2. CASE Take(t) \/ TryTake(t)
  <2>1. cur = t /\ holder' = [holder EXCEPT ![frame[t].lock] = t]
    BY <1>2 DEF Take, TryTake, At
  <2> QED
    BY <1>1, <2>1 DEF HeldByRunning
<1>3. CASE ClearHolder(t)
  <2>1. holder' = [holder EXCEPT ![frame[t].lock] = NULL]
    BY <1>3 DEF ClearHolder
  <2> QED
    BY <1>1, <2>1 DEF HeldByRunning
<1>4. CASE ~ (Take(t) \/ TryTake(t) \/ ClearHolder(t))
  <2>1. UNCHANGED holder
    BY <1>4 DEF KernelStep, SchedStep, SleepStep, SynchStep, SemaDown, SemaUp,
       CheckHolder, MarkWaiting, Donate, DonateStop, Unlist, BroadcastNext, synchVars,
       lockVars
  <2> QED
    BY <2>1 DEF HeldByRunning
<1> QED
  BY <1>2, <1>3, <1>4

LEMMA StepSleepersOK ==
    ASSUME KernelInv, LinksInv, SleepersOK, NEW t \in Threads, KernelStep(t)
    PROVE  SleepersOK'
<1>1. /\ cur = t /\ remaining \in [Threads -> - MaxLag .. MaxSleep]
      /\ wait_list \in Seq(Threads) /\ \A u \in Threads : remaining[u] \in Int
      /\ IsInjective(wait_list)
      /\ \A u \in Threads : u # t => frame'[u] = frame[u]
  BY StepFrames, AlarmAssumption DEF KernelInv, TypeOK, AlarmType, LinksInv, ListsOK, LinkedOnce
<1>2. frame \in [Tasks -> FrameType] /\ frame[t] \in FrameType /\ HeldByRunning
  BY StepHolders DEF KernelInv, TypeOK, ControlType
<1>3. CASE SleepInsert(t)
  <2>1. /\ frame[t].pc = "sleep_insert" /\ frame'[t].pc = "sleep_blocked"
        /\ wait_list' = list_insert_ordered(wait_list, t, remaining) /\ UNCHANGED remaining
        /\ UNCHANGED holder
    BY <1>2, <1>3 DEF SleepInsert, At, Goto, FrameType, KernelStep, SchedStep, SleepStep, SynchStep,
       CreateUnblock, CreateCheck, SemaDown, SemaUp, CheckHolder, MarkWaiting, Donate, DonateStop,
       Take, TryTake, Unlist, ClearHolder, BroadcastNext, synchVars, lockVars
  <2>2. t \notin ToSet(wait_list)
    BY <1>1, NowLinked DEF Linked, Links, LinkTypes, Linking
  <2>3. ToSet(wait_list') = ToSet(wait_list) \cup {t}
    BY <1>1, <2>1, <2>2, InsertUnique
  <2>4. ASSUME NEW u \in Threads PROVE SleeperOK(u)'
    <3>1. CASE u = t
      BY <2>1, <2>3, <3>1 DEF SleepersOK, SleeperOK, Sleeping
    <3>2. CASE u # t
      BY <1>1, <2>1, <2>3, <3>2 DEF SleepersOK, SleeperOK, Sleeping
    <3> QED
      BY <3>1, <3>2
  <2> QED
    BY <2>4 DEF SleepersOK
<1>4. CASE Donate(t)
  <2>1. UNCHANGED <<remaining, holder>> /\ frame[t].pc = "donate"
    BY <1>4 DEF Donate, At, lockVars
  <2>2. frame'[t].pc \notin {"sleep_insert", "sleep_blocked"}
    <3>1. ~ SleepInsert(t)
      BY <2>1 DEF SleepInsert, At
    <3> QED
      BY <3>1, StepPlace DEF KernelInv
  <2>3. CASE UNCHANGED wait_list
    BY <1>1, <1>2, <2>1, <2>2, <2>3, SleepersUnmoved
  <2>4. CASE ~ UNCHANGED wait_list
    <3>1. PICK h : h = holder[frame[t].dlock]
      OBVIOUS
    <3>2. wait_list' = list_remove(wait_list, h)
      BY <1>4, <2>4, <3>1 DEF Donate, DonateStep
    <3>3. ToSet(wait_list') = ToSet(wait_list) \ {h}
      BY <1>1, <3>2, RemoveUnique
    <3>4. frame[t].dlock \in Locks
      BY <2>1 DEF KernelInv, FramesOK, FrameShape
    <3>5. ASSUME NEW u \in Threads PROVE SleeperOK(u)'
      <4>1. CASE u = t
        BY <2>2, <4>1 DEF SleeperOK, Sleeping
      <4>2. CASE u # t
        <5>1. frame'[u] = frame[u] /\ remaining'[u] = remaining[u]
          BY <1>1, <2>1, <4>2
        <5>2. Sleeping(u) => u # h
          BY <3>1, <3>4 DEF SleepersOK, SleeperOK
        <5> QED
          BY <2>1, <3>3, <5>1, <5>2 DEF SleepersOK, SleeperOK, Sleeping
      <4> QED
        BY <4>1, <4>2
    <3> QED
      BY <3>5 DEF SleepersOK
  <2> QED
    BY <2>3, <2>4
<1>5. CASE ~ (SleepInsert(t) \/ Donate(t))
  <2>1. /\ UNCHANGED wait_list
        /\ \A u \in Threads : u # t => remaining'[u] = remaining[u]
    BY <1>1, <1>5 DEF KernelStep, SchedStep, SleepStep, SynchStep, SleepReturn, SemaDown, SemaUp,
       CheckHolder, MarkWaiting, DonateStop, Take, TryTake, Unlist, ClearHolder,
       BroadcastNext, alarmVars
  <2>2. frame'[t].pc \notin {"sleep_insert", "sleep_blocked"}
    BY <1>5, StepPlace DEF KernelInv
  <2> QED
    BY <1>1, <1>2, <2>1, <2>2, SleepersUnmoved
<1> QED
  BY <1>3, <1>4, <1>5

LEMMA InterruptSleepersOK ==
    ASSUME KernelInv, LinksInv, SleepersOK, IdleStep \/ Tick \/ Handler \/ Device
    PROVE  SleepersOK'
<1>1. /\ remaining \in [Threads -> - MaxLag .. MaxSleep] /\ wait_list \in Seq(Threads)
      /\ MaxLag \in Nat /\ MaxSleep \in Nat /\ IsInjective(wait_list)
      /\ \A u \in Threads : remaining[u] \in Int
  BY AlarmAssumption DEF KernelInv, TypeOK, AlarmType, LinksInv, ListsOK, LinkedOnce
<1>2. /\ \A u \in Threads : frame'[u] = frame[u]
      /\ UNCHANGED holder
  BY InterruptFrames DEF KernelInv, IdleStep, Tick, Handler, Device, DeviceSemaUp, synchVars,
     lockVars
<1>3. CASE Tick
  <2>1. UNCHANGED wait_list /\
        remaining' = [t \in Threads |-> IF Sleeping(t) /\ remaining[t] > - MaxLag
                                        THEN remaining[t] - 1 ELSE remaining[t]]
    BY <1>3 DEF Tick, TimerInterrupt
  <2>2. \A u \in Threads : remaining[u] <= 0 => remaining'[u] <= 0
    BY <1>1, <2>1
  <2> QED
    BY <1>2, <2>1, <2>2 DEF SleepersOK, SleeperOK, Sleeping
<1>4. CASE TimerWakeUp
  <2>1. /\ wait_list # <<>> /\ remaining[Last(wait_list)] <= 0 /\ UNCHANGED remaining
        /\ wait_list' = Front(wait_list)
    BY <1>4 DEF TimerWakeUp, Due
  <2>2. ToSet(wait_list') = ToSet(wait_list) \ {Last(wait_list)}
    BY <1>1, <2>1, FrontLastUnique
  <2> QED
    BY <1>2, <2>1, <2>2 DEF SleepersOK, SleeperOK, Sleeping
<1>5. CASE IdleStep \/ TimerReturn \/ Device
  <2>1. UNCHANGED <<wait_list, remaining>>
    BY <1>5 DEF IdleStep, TimerReturn, Device, DeviceSemaUp, alarmVars
  <2> QED
    BY <1>2, <2>1 DEF SleepersOK, SleeperOK, Sleeping
<1> QED
  BY <1>3, <1>4, <1>5 DEF Handler

\* timer_sleep() returns no thread early, whatever else the threads do, when no
\* thread sleeps while it holds a lock.  One that does is made ready by the
\* donation of whoever waits for the lock.
THEOREM SleepersSleep ==
    ASSUME "timer_sleep" \notin HoldingCalls
    PROVE  Spec => []SleepsLongEnough
<1>1. Init => SleepersOK
  <2> SUFFICES ASSUME Init, NEW t \in Threads PROVE SleeperOK(t)
    BY DEF SleepersOK
  <2>1. frame[t].pc = "user"
    BY ObjectsAssumption DEF Init, SchedInit, UserFrame, FrameAt
  <2> QED
    BY <2>1 DEF SleeperOK, Sleeping
<1>2. KernelInv /\ LinksInv /\ SleepersOK /\ [Next]_vars => SleepersOK'
  <2> SUFFICES ASSUME KernelInv, LinksInv, SleepersOK, [Next]_vars PROVE SleepersOK'
    OBVIOUS
  <2>1. CASE UNCHANGED vars
    BY <2>1 DEF vars, schedVars, alarmVars, synchVars, lockVars, SleepersOK, SleeperOK, Sleeping
  <2> QED
    BY <2>1, CallSleepersOK, StepSleepersOK, InterruptSleepersOK DEF Next, CPU, Halted
<1>3. KernelInv /\ SleepersOK => SleepsLongEnough
  <2> SUFFICES ASSUME KernelInv, SleepersOK, NEW t \in Threads, frame[t].pc = "sleep_blocked",
                      ~ Contains(wait_list, t)
               PROVE  remaining[t] <= 0
    BY DEF SleepsLongEnough
  <2>1. wait_list \in Seq(Threads)
    BY DEF KernelInv, TypeOK, AlarmType
  <2>2. t \notin ToSet(wait_list)
    BY <2>1 DEF Contains, ToSet
  <2> QED
    BY <2>2 DEF SleepersOK, SleeperOK
<1> QED
  BY <1>1, <1>2, <1>3, LinksInvHolds, PTL DEF Spec

-----------------------------------------------------------------------------
(* Signals.                                                                *)

\* The thread in cond_wait() whose semaphore a frame is about to up.
Ups(f) == IF f.pc = "up" /\ f.sema \in Threads THEN f.sema ELSE NULL

WaitsIn(t, f) ==
    /\ f.op = "cond_wait"
    /\ f.pc \in {"unlist", "clear_holder", "up"} \/ f.sema = t

OwnSema(t, f) == f.op = "cond_wait" /\ f.sema = t => f.pc \in {"down", "down_blocked"}

InQueue(t) == \E c \in Conds : t \in ToSet(cond_waiters[c])
Upped(t) == \E u \in Threads : Ups(frame[u]) = t

\* t's semaphore is in one place while it is in cond_wait(), and then only.
SignalOK(t) ==
    /\ OwnSema(t, frame[t])
    /\ value[t] \in {0, 1}
    /\ ~ (InQueue(t) /\ Upped(t))
    /\ value[t] = 1 => ~ (InQueue(t) \/ Upped(t))
    /\ WaitsIn(t, frame[t]) <=> InQueue(t) \/ Upped(t) \/ value[t] = 1

QueuedOnce ==
    /\ \A c \in Conds : IsInjective(cond_waiters[c])
    /\ \A c, d \in Conds, t \in Threads :
          t \in ToSet(cond_waiters[c]) /\ t \in ToSet(cond_waiters[d]) => c = d

UppedOnce == \A u, v, w \in Threads : Ups(frame[u]) = w /\ Ups(frame[v]) = w => u = v

SignalsOK == QueuedOnce /\ UppedOnce /\ \A t \in Threads : SignalOK(t)

SameSignal(t) ==
    /\ Ups(frame'[t]) = Ups(frame[t])
    /\ WaitsIn(t, frame'[t]) <=> WaitsIn(t, frame[t])
    /\ OwnSema(t, frame'[t])

LEMMA SignalsSame ==
    ASSUME SignalsOK, UNCHANGED cond_waiters, \A u \in Threads : value'[u] = value[u],
           \A u \in Threads : SameSignal(u)
    PROVE  SignalsOK'
<1>1. QueuedOnce'
  BY DEF SignalsOK, QueuedOnce
<1>2. UppedOnce'
  BY DEF SignalsOK, UppedOnce, SameSignal
<1>3. \A u \in Threads : (InQueue(u)' <=> InQueue(u)) /\ (Upped(u)' <=> Upped(u))
  BY DEF InQueue, Upped, SameSignal
<1>4. \A u \in Threads : SignalOK(u)'
  BY <1>3 DEF SignalsOK, SignalOK, SameSignal
<1> QED
  BY <1>1, <1>2, <1>4 DEF SignalsOK

\* A place in the code, before and after a step, that no signal is about.
LEMMA Passes ==
    ASSUME NEW t \in Threads, NEW f, NEW g, OwnSema(t, f),
           f.pc \notin {"unlist", "clear_holder", "up", "down", "down_blocked"},
           g.pc # "up", g.pc \in {"unlist", "clear_holder"} => g.op # "cond_wait",
           g.op = f.op \/ g.op # "cond_wait", g.sema = f.sema \/ g.sema # t
    PROVE  /\ Ups(f) = NULL /\ Ups(g) = NULL
           /\ ~ WaitsIn(t, f) /\ ~ WaitsIn(t, g) /\ OwnSema(t, g)
BY DEF OwnSema, WaitsIn, Ups

\* So is all of a call that is not cond_wait() and ups no waiter.
LEMMA Elsewhere ==
    ASSUME NEW t, NEW f, f.op # "cond_wait", f.pc = "up" => f.sema \notin Threads
    PROVE  Ups(f) = NULL /\ ~ WaitsIn(t, f) /\ OwnSema(t, f)
BY DEF OwnSema, WaitsIn, Ups

\* A waiter, first of the queue once sorted, is taken off it to be upped.
LEMMA SignalTakes ==
    ASSUME TypeOK, SignalsOK, NEW t \in Threads, NEW c \in Conds, NEW f \in FrameType,
           cond_waiters[c] # <<>>, SignalFirst(t, c, f), f.op # "cond_wait",
           frame[t].op # "cond_wait", frame[t].pc # "up",
           \A u \in Threads : value'[u] = value[u]
    PROVE  SignalsOK'
<1>0. /\ Signalled(c) \in Threads
      /\ frame' = [frame EXCEPT ![t] = [f EXCEPT !.pc = "up", !.sema = Signalled(c)]]
  <2>1. Signalled(c) \in Threads
    BY SignalsOne
  <2> QED
    BY <2>1 DEF SignalFirst, Signalled
<1> DEFINE key == [w \in Threads |-> FrontPriority(w)]
           sorted == list_sort(cond_waiters[c], key)
           w == Signalled(c)
<1>1. \A u \in Threads : key[u] \in Int
  BY FrontPriorityType DEF TypeOK, Semaphores
<1>2. cond_waiters[c] \in Seq(Threads) /\ IsInjective(cond_waiters[c])
      /\ cond_waiters \in [Conds -> Seq(Threads)]
  BY DEF TypeOK, CondType, SignalsOK, QueuedOnce
<1>3. /\ cond_waiters' = [cond_waiters EXCEPT ![c] = Tail(sorted)]
      /\ w = Head(sorted)
  BY DEF SignalFirst, Signalled
<1> HIDE DEF key
<1>4. /\ sorted \in Seq(Threads) /\ Len(sorted) = Len(cond_waiters[c])
      /\ ToSet(sorted) = ToSet(cond_waiters[c]) /\ IsInjective(sorted)
  BY <1>1, <1>2, SortType, SortKeeps
<1> HIDE DEF sorted
<1>5. sorted # <<>>
  BY <1>2, <1>4, EmptySeq
<1>6. /\ Head(sorted) \in ToSet(sorted) /\ IsInjective(Tail(sorted))
      /\ ToSet(Tail(sorted)) = ToSet(sorted) \ {Head(sorted)}
  BY <1>4, <1>5, PopFrontUnique
<1>7. /\ w \in Threads
      /\ frame' = [frame EXCEPT ![t] = [f EXCEPT !.pc = "up", !.sema = w]]
  BY <1>0
<1> HIDE DEF w
<1>8. /\ \A d \in Conds : d # c => cond_waiters'[d] = cond_waiters[d]
      /\ ToSet(cond_waiters'[c]) = ToSet(cond_waiters[c]) \ {w}
      /\ IsInjective(cond_waiters'[c]) /\ w \in ToSet(cond_waiters[c])
  BY <1>2, <1>3, <1>4, <1>6
<1>9. /\ frame'[t].pc = "up" /\ frame'[t].sema = w /\ frame'[t].op # "cond_wait"
      /\ \A u \in Threads : u # t => frame'[u] = frame[u]
  <2>1. frame \in [Tasks -> FrameType]
    BY DEF TypeOK, ControlType
  <2> QED
    BY <1>7, <2>1 DEF FrameType, Semaphores
<1>10. QueuedOnce'
  BY <1>8 DEF SignalsOK, QueuedOnce
<1>11. \A u \in Threads : InQueue(u)' <=> InQueue(u) /\ u # w
  BY <1>7, <1>8 DEF InQueue, SignalsOK, QueuedOnce
<1>12. Ups(frame'[t]) = w /\ Ups(frame[t]) = NULL /\ NULL \notin Threads
  BY <1>7, <1>9, ObjectsAssumption DEF Ups
<1>13. InQueue(w) /\ ~ Upped(w) /\ value[w] # 1
  BY <1>7, <1>8 DEF InQueue, SignalsOK, SignalOK
<1>14. UppedOnce'
  BY <1>9, <1>12, <1>13 DEF SignalsOK, UppedOnce, Upped
<1>15. \A u \in Threads : Upped(u)' <=> Upped(u) \/ u = w
  BY <1>9, <1>12 DEF Upped
<1>16. \A u \in Threads : /\ WaitsIn(u, frame'[u]) <=> WaitsIn(u, frame[u])
                          /\ OwnSema(u, frame'[u])
  BY <1>9 DEF WaitsIn, OwnSema, SignalsOK, SignalOK
<1>17. \A u \in Threads : SignalOK(u)'
  BY <1>11, <1>13, <1>15, <1>16 DEF SignalsOK, SignalOK
<1> QED
  BY <1>10, <1>14, <1>17 DEF SignalsOK

LEMMA CondWaitSignals ==
    ASSUME KernelInv, CallsOK, SignalsOK, NEW t \in Threads, CallCondWait(t)
    PROVE  SignalsOK'
<1>1. PICK c \in Conds : CondWait(t, c)
  BY DEF CallCondWait
<1>2. /\ frame[t].pc = "user" /\ frame[t].op = "none"
      /\ frame \in [Tasks -> FrameType] /\ frame[t] \in FrameType
      /\ cond_waiters \in [Conds -> Seq(Threads)] /\ value \in [Semaphores -> Nat]
      /\ t \in Semaphores
  BY <1>1, InUser DEF CondWait, At, KernelInv, TypeOK, ControlType, CondType, SemaType, Semaphores
<1>3. /\ value' = [value EXCEPT ![t] = 0]
      /\ cond_waiters' = [cond_waiters EXCEPT ![c] = list_push_back(@, t)]
  BY <1>1 DEF CondWait
<1>4. /\ frame'[t].pc = "unlist" /\ frame'[t].op = "cond_wait" /\ frame'[t].sema = NULL
      /\ \A u \in Threads : u # t => frame'[u] = frame[u]
  <2> DEFINE g == [LockFrame("unlist", CondLock[c]) EXCEPT !.op = "cond_wait"]
  <2>1. g.pc = "unlist" /\ g.op = "cond_wait" /\ g.sema = NULL
    BY DEF LockFrame, UserFrame, FrameAt
  <2>2. frame' = [frame EXCEPT ![t] = g]
    BY <1>1 DEF CondWait
  <2> HIDE DEF g
  <2> QED
    BY <1>2, <2>1, <2>2
<1>5. ~ InQueue(t) /\ ~ Upped(t) /\ ~ WaitsIn(t, frame[t])
  BY <1>2 DEF SignalsOK, SignalOK, WaitsIn
<1>6. /\ ToSet(cond_waiters'[c]) = ToSet(cond_waiters[c]) \cup {t}
      /\ IsInjective(cond_waiters'[c])
      /\ \A d \in Conds : d # c => cond_waiters'[d] = cond_waiters[d]
  <2>1. t \notin ToSet(cond_waiters[c]) /\ IsInjective(cond_waiters[c])
    BY <1>5 DEF InQueue, SignalsOK, QueuedOnce
  <2> QED
    BY <1>2, <1>3, <2>1, PushBackUnique
<1>7. QueuedOnce'
  BY <1>5, <1>6 DEF SignalsOK, QueuedOnce, InQueue
<1>8. \A u \in Threads : InQueue(u)' <=> InQueue(u) \/ u = t
  BY <1>6 DEF InQueue
<1>9. \A u \in Threads : Ups(frame'[u]) = Ups(frame[u])
  BY <1>2, <1>4 DEF Ups
<1>10. UppedOnce' /\ \A u \in Threads : Upped(u)' <=> Upped(u)
  BY <1>9 DEF SignalsOK, UppedOnce, Upped
<1>11. \A u \in Threads : value'[u] = IF u = t THEN 0 ELSE value[u]
  BY <1>2, <1>3 DEF Semaphores
<1>12. SignalOK(t)'
  <2>1. NULL # t
    BY ObjectsAssumption
  <2> QED
    BY <1>4, <1>5, <1>8, <1>10, <1>11, <2>1 DEF SignalOK, WaitsIn, OwnSema
<1>13. ASSUME NEW u \in Threads, u # t PROVE SignalOK(u)'
  BY <1>4, <1>8, <1>10, <1>11, <1>13 DEF SignalsOK, SignalOK
<1> QED
  BY <1>7, <1>10, <1>12, <1>13 DEF SignalsOK

\* Where a call other than cond_wait() and cond_signal() leaves the frames.
LEMMA CallElsewhere ==
    ASSUME KernelInv, CallsOK, NEW t \in Threads, ClientCall(t),
           ~ CallCondWait(t), ~ CallCondSignal(t)
    PROVE  frame'[t].op # "cond_wait" /\ (frame'[t].pc = "up" => frame'[t].sema \notin Threads)
<1>1. /\ frame \in [Tasks -> FrameType] /\ frame[t] \in FrameType
      /\ frame[t].pc = "user" /\ frame[t].op = "none"
  BY CallFrames, InUser DEF KernelInv, TypeOK, ControlType
<1>2. CASE \/ CallYield(t) \/ CallSetPriority(t) \/ CallExit(t) \/ CallSemaTryDown(t)
  BY <1>1, <1>2 DEF CallYield, CallSetPriority, CallExit, CallSemaTryDown,
     ThreadYield, ThreadSetPriority, ThreadExit, SemaTryDown, schedVars
<1>3. CASE CallCreate(t)
  <2>1. PICK f : frame'[t] = [UserFrame EXCEPT !.pc = "check_holder", !.op = "thread_create",
                                               !.lock = TidLock, !.child = f]
    BY <1>1, <1>3 DEF CallCreate, ThreadCreate
  <2> QED
    BY <2>1 DEF UserFrame, FrameAt
<1>4. CASE CallSleep(t)
  BY <1>1, <1>4 DEF CallSleep, TimerSleep, Goto, FrameType
<1>5. CASE CallSemaDown(t) \/ CallSemaUp(t)
  <2>1. PICK s \in Semas : SemaCall(t, "down", s) \/ SemaCall(t, "up", s)
    BY <1>5 DEF CallSemaDown, CallSemaUp
  <2>2. frame'[t].op = "none" /\ frame'[t].sema = s
    BY <1>1, <2>1 DEF SemaCall, FrameType, Semaphores
  <2> QED
    BY <2>2, ObjectsAssumption
<1>6. CASE CallAcquire(t) \/ CallTryAcquire(t) \/ CallRelease(t)
  <2>1. PICK l \in Locks, pc \in {"check_holder", "try_take", "unlist"} :
           frame'[t] = LockFrame(pc, l)
    BY <1>1, <1>6 DEF CallAcquire, CallTryAcquire, CallRelease, LockAcquire,
       LockTryAcquire, LockRelease, ClientLocks, Held
  <2> QED
    BY <2>1, LockFrameFields
<1>7. CASE CallCondBroadcast(t)
  BY <1>1, <1>7 DEF CallCondBroadcast, CondBroadcast, FrameAt
<1> QED
  BY <1>2, <1>3, <1>4, <1>5, <1>6, <1>7 DEF ClientCall

LEMMA CallSignals ==
    ASSUME KernelInv, CallsOK, SignalsOK, NEW t \in Threads, ClientCall(t)
    PROVE  SignalsOK'
<1>1. /\ frame \in [Tasks -> FrameType] /\ frame[t] \in FrameType /\ UserFrame \in FrameType
      /\ frame[t].pc = "user" /\ frame[t].op = "none" /\ UserFrame.op = "none"
      /\ value \in [Semaphores -> Nat]
  BY CallFrames, InUser, UserFrameType DEF KernelInv, TypeOK, ControlType, SemaType, UserFrame, FrameAt
<1>2. CASE CallCondWait(t)
  BY <1>2, CondWaitSignals
<1>3. CASE CallCondSignal(t)
  <2>1. PICK c \in Conds : CondSignal(t, c)
    BY <1>3 DEF CallCondSignal
  <2>2. cond_waiters[c] # <<>> /\ SignalFirst(t, c, UserFrame) /\ UNCHANGED value
    BY <2>1 DEF CondSignal, semaVars
  <2> QED
    BY <1>1, <2>2, SignalTakes DEF KernelInv
<1>4. CASE ~ CallCondWait(t) /\ ~ CallCondSignal(t)
  <2>1. UNCHANGED cond_waiters
    BY <1>4 DEF ClientCall, CallYield, CallSetPriority, CallCreate, CallSleep, CallExit,
       CallSemaDown, CallSemaUp, CallSemaTryDown, CallAcquire, CallTryAcquire, CallRelease,
       CallCondBroadcast, SemaCall, SemaTryDown, LockAcquire,
       LockTryAcquire, LockRelease, CondBroadcast, synchVars
  <2>2. \A u \in Threads : value'[u] = value[u]
    <3>1. CASE CallSemaTryDown(t) \/ CallTryAcquire(t)
      <4>1. PICK s \in Semas \cup Locks : value' = [value EXCEPT ![s] = @ - 1]
        BY <3>1 DEF CallSemaTryDown, SemaTryDown, CallTryAcquire, LockTryAcquire, ClientLocks
      <4> QED
        BY <1>1, <4>1, ObjectsAssumption DEF Semaphores
    <3>2. CASE ~ (CallSemaTryDown(t) \/ CallTryAcquire(t))
      BY <1>4, <3>2 DEF ClientCall, CallYield, CallSetPriority, CallCreate, CallSleep, CallExit,
         CallSemaDown, CallSemaUp, CallAcquire, CallRelease,
         CallCondBroadcast, SemaCall, LockAcquire, LockRelease, CondBroadcast, synchVars, semaVars
    <3> QED
      BY <3>1, <3>2
  <2>3. SameSignal(t)
    BY <1>1, <1>4, CallElsewhere, Elsewhere DEF SameSignal
  <2>4. ASSUME NEW u \in Threads, u # t PROVE SameSignal(u)
    <3>1. CASE frame'[u] = frame[u]
      BY <3>1 DEF SameSignal, SignalsOK, SignalOK
    <3>2. CASE frame'[u] # frame[u]
      <4>1. frame[u].pc = "user" /\ frame[u].op = "none" /\ frame'[u] = UserFrame
        BY <2>4, <3>2, CallFrames, InUser DEF KernelInv, GoneFromKernel, Gone
      <4> QED
        BY <1>1, <4>1, UserFrameFields, Elsewhere DEF SameSignal
    <3> QED
      BY <3>1, <3>2
  <2> QED
    BY <2>1, <2>2, <2>3, <2>4, SignalsSame
<1> QED
  BY <1>2, <1>3, <1>4

LEMMA DownSignals ==
    ASSUME KernelInv, LinksInv, SignalsOK, NEW t \in Threads, SemaDown(t)
    PROVE  SignalsOK'
<1>1. PICK s \in Semaphores : s = frame[t].sema
  BY DEF SemaDown, At, KernelInv, FramesOK, FrameShape
<1>2. /\ frame[t].pc \in {"down", "down_blocked"} /\ frame \in [Tasks -> FrameType]
      /\ frame[t] \in FrameType /\ value \in [Semaphores -> Nat]
      /\ SemaDownWait(t, s) \/ SemaDownTake(t, s)
      /\ UNCHANGED cond_waiters
      /\ s \in Threads => s = t /\ frame[t].op = "cond_wait"
  BY <1>1 DEF SemaDown, At, KernelInv, TypeOK, ControlType, SemaType, LinksInv, ChildrenOK,
     OwnShape
<1>3. \A u \in Threads : u # t => frame'[u] = frame[u]
  BY <1>2 DEF SemaDownWait, SemaDownTake, Goto
<1>4. \A u \in Threads : u # t => SameSignal(u)
  BY <1>3 DEF SameSignal, SignalsOK, SignalOK
<1>5. CASE SemaDownWait(t, s)
  <2>1. /\ frame'[t].pc = "down_blocked" /\ frame'[t].sema = frame[t].sema
        /\ frame'[t].op = frame[t].op /\ UNCHANGED value
    BY <1>2, <1>5 DEF SemaDownWait, Goto, FrameType
  <2>2. SameSignal(t)
    BY <1>2, <2>1 DEF SameSignal, Ups, WaitsIn, OwnSema
  <2> QED
    BY <1>2, <1>4, <2>1, <2>2, SignalsSame
<1>6. CASE SemaDownTake(t, s)
  <2>1. /\ value[s] > 0 /\ value' = [value EXCEPT ![s] = @ - 1]
        /\ frame'[t] = AfterDown(t)
    BY <1>2, <1>6 DEF SemaDownTake
  <2>2. /\ AfterDown(t).pc \in {"take", "check_holder", "user"} /\ AfterDown(t).sema = NULL
    <3>1. UserFrame.sema = NULL
      BY DEF UserFrame, FrameAt
    <3> QED
      BY <1>2, <3>1, AfterPcs DEF AfterDown, FrameType
  <2>3. NULL # t /\ NULL \notin Threads
    BY ObjectsAssumption
  <2>4. /\ Ups(frame'[t]) = NULL /\ Ups(frame[t]) = NULL
        /\ ~ WaitsIn(t, frame'[t]) /\ OwnSema(t, frame'[t])
    BY <1>2, <2>1, <2>2, <2>3 DEF Ups, WaitsIn, OwnSema
  <2>5. CASE s \notin Threads
    <3>1. \A u \in Threads : value'[u] = value[u]
      BY <1>2, <2>1, <2>5 DEF Semaphores
    <3>2. ~ WaitsIn(t, frame[t])
      BY <1>1, <1>2, <2>5 DEF WaitsIn
    <3> QED
      BY <1>2, <1>4, <2>4, <3>1, <3>2, SignalsSame DEF SameSignal
  <2>6. CASE s \in Threads
    <3>1. s = t /\ value[t] = 1
      <4>1. value[t] \in {0, 1}
        BY DEF SignalsOK, SignalOK
      <4> QED
        BY <1>2, <2>1, <2>6, <4>1
    <3>2. \A u \in Threads : value'[u] = IF u = t THEN 0 ELSE value[u]
      BY <1>2, <2>1, <3>1 DEF Semaphores
    <3>3. \A u \in Threads : /\ Ups(frame'[u]) = Ups(frame[u])
                             /\ InQueue(u)' <=> InQueue(u)
      BY <1>2, <1>3, <2>4 DEF InQueue
    <3>4. QueuedOnce' /\ UppedOnce' /\ \A u \in Threads : Upped(u)' <=> Upped(u)
      BY <1>2, <3>3 DEF SignalsOK, QueuedOnce, UppedOnce, Upped
    <3>5. SignalOK(t)'
      BY <2>4, <3>1, <3>2, <3>3, <3>4 DEF SignalsOK, SignalOK
    <3>6. ASSUME NEW u \in Threads, u # t PROVE SignalOK(u)'
      BY <1>3, <3>2, <3>3, <3>4, <3>6 DEF SignalsOK, SignalOK
    <3> QED
      BY <3>4, <3>5, <3>6 DEF SignalsOK
  <2> QED
    BY <2>5, <2>6
<1> QED
  BY <1>2, <1>5, <1>6

LEMMA UpSignals ==
    ASSUME KernelInv, CallsOK, SignalsOK, NEW t \in Threads, SemaUp(t)
    PROVE  SignalsOK'
<1>1. PICK s \in Semaphores : s = frame[t].sema
  BY DEF SemaUp, At, KernelInv, FramesOK, FrameShape
<1>2. /\ frame[t].pc = "up" /\ frame \in [Tasks -> FrameType]
      /\ frame[t] \in FrameType /\ value \in [Semaphores -> Nat]
      /\ value' = [value EXCEPT ![s] = @ + 1]
      /\ frame' = [frame EXCEPT ![t] = AfterUp(t)]
      /\ UNCHANGED cond_waiters
      /\ frame[t].op = "cond_wait" => s \notin Threads
  <2>1. frame[t].op = "cond_wait" /\ frame[t].pc = "up" => frame[t].sema \in Locks
    BY DEF CallsOK, CallOK, CallShape, KernelInv, FramesOK, FrameShape
  <2>2. Locks \cap Threads = {}
    BY ObjectsAssumption
  <2> QED
    BY <1>1, <2>1, <2>2 DEF SemaUp, SemaRaise, At, KernelInv, TypeOK, ControlType, SemaType
<1>3. \A u \in Threads : u # t => frame'[u] = frame[u]
  BY <1>2
<1>4. \A u \in Threads : u # t => SameSignal(u)
  BY <1>3 DEF SameSignal, SignalsOK, SignalOK
<1>5. /\ Ups(frame'[t]) = NULL
      /\ WaitsIn(t, frame'[t]) <=> WaitsIn(t, frame[t])
      /\ OwnSema(t, frame'[t])
  <2>1. frame'[t] = AfterUp(t) /\ AfterUp(t).pc \in {"create_unblock", "down", "broadcast", "user"}
    BY <1>2, AfterPcs
  <2>2. UserFrame.op = "none"
    BY DEF UserFrame, FrameAt
  <2>3. CASE frame[t].op = "cond_wait"
    <3>1. /\ AfterUp(t).op = "cond_wait" /\ AfterUp(t).sema = t /\ AfterUp(t).pc = "down"
      BY <1>2, <2>3 DEF AfterUp, FrameType
    <3> QED
      BY <1>2, <2>1, <2>3, <3>1 DEF Ups, WaitsIn, OwnSema
  <2>4. CASE frame[t].op # "cond_wait"
    <3>1. AfterUp(t).op # "cond_wait"
      BY <1>2, <2>2, <2>4 DEF AfterUp, FrameType
    <3> QED
      BY <1>2, <2>1, <2>4, <3>1 DEF Ups, WaitsIn, OwnSema
  <2> QED
    BY <2>3, <2>4
<1>6. CASE s \notin Threads
  <2>1. \A u \in Threads : value'[u] = value[u]
    BY <1>2, <1>6 DEF Semaphores
  <2>2. Ups(frame[t]) = NULL
    BY <1>1, <1>6 DEF Ups
  <2> QED
    BY <1>2, <1>4, <1>5, <2>1, <2>2, SignalsSame DEF SameSignal
<1>7. CASE s \in Threads
  <2>1. Ups(frame[t]) = s /\ NULL \notin Threads
    BY <1>1, <1>2, <1>7, ObjectsAssumption DEF Ups
  <2>2. Upped(s) /\ ~ InQueue(s) /\ value[s] = 0
    BY <1>7, <2>1 DEF Upped, SignalsOK, SignalOK
  <2>3. \A u \in Threads : value'[u] = IF u = s THEN 1 ELSE value[u]
    BY <1>2, <1>7, <2>2 DEF Semaphores
  <2>4. QueuedOnce' /\ \A u \in Threads : InQueue(u)' <=> InQueue(u)
    BY <1>2 DEF SignalsOK, QueuedOnce, InQueue
  <2>5. UppedOnce'
    BY <1>3, <1>5, <2>1 DEF SignalsOK, UppedOnce
  <2>6. \A u \in Threads : Upped(u)' <=> Upped(u) /\ u # s
    BY <1>3, <1>5, <1>7, <2>1 DEF SignalsOK, UppedOnce, Upped
  <2>7. \A u \in Threads : /\ WaitsIn(u, frame'[u]) <=> WaitsIn(u, frame[u])
                           /\ OwnSema(u, frame'[u])
    BY <1>3, <1>5 DEF SignalsOK, SignalOK
  <2>8. \A u \in Threads : SignalOK(u)'
    BY <2>2, <2>3, <2>4, <2>6, <2>7 DEF SignalsOK, SignalOK
  <2> QED
    BY <2>4, <2>5, <2>8 DEF SignalsOK
<1> QED
  BY <1>6, <1>7

LEMMA SignalMoves ==
    ASSUME TypeOK, NEW t \in Threads, NEW c \in Conds, NEW f, cond_waiters[c] # <<>>,
           SignalFirst(t, c, f)
    PROVE  cond_waiters' # cond_waiters /\ SignalFirst(t, c, f)
<1> DEFINE key == [w \in Threads |-> FrontPriority(w)]
           sorted == list_sort(cond_waiters[c], key)
<1>1. \A u \in Threads : key[u] \in Int
  BY FrontPriorityType DEF TypeOK, Semaphores
<1>2. cond_waiters[c] \in Seq(Threads) /\ cond_waiters \in [Conds -> Seq(Threads)]
  BY DEF TypeOK, CondType
<1>3. cond_waiters' = [cond_waiters EXCEPT ![c] = Tail(sorted)]
  BY DEF SignalFirst
<1> HIDE DEF key
<1>4. sorted \in Seq(Threads) /\ Len(sorted) = Len(cond_waiters[c])
  BY <1>1, <1>2, SortType
<1> HIDE DEF sorted
<1>5. sorted # <<>>
  BY <1>2, <1>4, EmptySeq
<1>6. Len(Tail(sorted)) = Len(sorted) - 1 /\ Len(sorted) \in Nat
  BY <1>4, <1>5, HeadTailProperties
<1>7. Len(cond_waiters'[c]) # Len(cond_waiters[c])
  BY <1>2, <1>3, <1>4, <1>6
<1> QED
  BY <1>7

\* The other steps inside the kernel have nothing to do with signals.
LEMMA QuietSignals ==
    ASSUME KernelInv, CallsOK, SignalsOK, NEW t \in Threads, KernelStep(t),
           ~ SemaDown(t), ~ SemaUp(t), ~ (BroadcastNext(t) /\ ~ UNCHANGED cond_waiters)
    PROVE  SignalsOK'
<1>1. UNCHANGED <<cond_waiters, value>>
  BY DEF KernelStep, SchedStep, SleepStep, SynchStep, CheckHolder, MarkWaiting, Donate, DonateStop,
     Take, TryTake, Unlist, ClearHolder, BroadcastNext, synchVars, semaVars
<1>2. /\ frame \in [Tasks -> FrameType] /\ frame[t] \in FrameType /\ OwnSema(t, frame[t])
      /\ UserFrame.pc = "user" /\ UserFrame.op = "none" /\ UserFrame.sema = NULL
      /\ NULL \notin Threads
      /\ Locks \cap Threads = {}
  BY ObjectsAssumption DEF KernelInv, TypeOK, ControlType, SignalsOK, SignalOK, UserFrame, FrameAt
<1>3. SameSignal(t)
  <2>1. CASE UNCHANGED frame
    BY <1>2, <2>1 DEF SameSignal
  <2>2. CASE frame'[t] = UserFrame /\
             frame[t].pc \notin {"unlist", "clear_holder", "up", "down", "down_blocked"}
    BY <1>2, <2>2, Passes DEF SameSignal
  <2>3. CASE CreateUnblock(t) \/ SleepInsert(t)
    <3>1. /\ frame[t].pc \in {"create_unblock", "sleep_insert"}
          /\ frame'[t].pc \in {"create_check", "sleep_blocked"}
          /\ frame'[t].op = frame[t].op /\ frame'[t].sema = frame[t].sema
      BY <1>2, <2>3 DEF CreateUnblock, SleepInsert, At, Goto, FrameType
    <3> QED
      BY <1>2, <3>1, Passes DEF SameSignal
  <2>4. CASE CheckHolder(t) \/ MarkWaiting(t) \/ DonateStop(t)
    <3>1. /\ frame[t].pc \in {"check_holder", "mark_waiting", "donate"}
          /\ frame[t].lock \in Locks
      BY <2>4 DEF CheckHolder, MarkWaiting, DonateStop, At, KernelInv, FramesOK, FrameShape
    <3>2. /\ frame'[t].pc \in {"mark_waiting", "down", "donate"} /\ frame'[t].op = frame[t].op
          /\ frame'[t].sema \in {frame[t].sema, frame[t].lock}
      BY <1>2, <2>4, <3>1 DEF CheckHolder, MarkWaiting, DonateStop, FrameType, Semaphores
    <3>3. frame'[t].sema = frame[t].sema \/ frame'[t].sema # t
      BY <1>2, <3>1, <3>2
    <3> QED
      BY <1>2, <3>1, <3>2, <3>3, Passes DEF SameSignal
  <2>5. CASE Donate(t) /\ DonateStep(t, holder[frame[t].dlock])
    <3>1. /\ frame[t].pc = "donate" /\ frame[t].lock \in Locks
      BY <2>5 DEF Donate, At, KernelInv, FramesOK, FrameShape
    <3>2. /\ frame'[t].pc \in {"down", "donate"} /\ frame'[t].op = frame[t].op
          /\ frame'[t].sema \in {frame[t].sema, frame[t].lock}
      BY <1>2, <2>5, <3>1 DEF DonateStep, FrameType, Semaphores
    <3>3. frame'[t].sema = frame[t].sema \/ frame'[t].sema # t
      BY <1>2, <3>1, <3>2
    <3> QED
      BY <1>2, <3>1, <3>2, <3>3, Passes DEF SameSignal
  <2>6. CASE Take(t) /\ frame[t].op = "thread_create"
    <3>1. /\ frame[t].pc = "take" /\ frame'[t].pc = "unlist" /\ frame'[t].op = "thread_create"
          /\ frame'[t].sema = frame[t].sema
      BY <1>2, <2>6 DEF Take, At, Goto, FrameType
    <3> QED
      BY <1>2, <3>1, Passes DEF SameSignal
  <2>7. CASE Unlist(t) /\ Goto(t, "clear_holder")
    <3>1. /\ frame[t].pc = "unlist" /\ frame'[t].pc = "clear_holder"
          /\ frame'[t].op = frame[t].op /\ frame'[t].sema = frame[t].sema
      BY <1>2, <2>7 DEF Unlist, At, Goto, FrameType
    <3> QED
      BY <1>2, <3>1 DEF SameSignal, Ups, WaitsIn, OwnSema
  <2>8. CASE ClearHolder(t)
    <3>1. frame[t].pc = "clear_holder" /\ frame[t].lock \in Locks
      BY <2>8 DEF ClearHolder, At, KernelInv, FramesOK, FrameShape
    <3>2. /\ frame'[t].pc = "up" /\ frame'[t].op = frame[t].op /\ frame'[t].sema = frame[t].lock
      BY <1>2, <2>8, <3>1 DEF ClearHolder, FrameType, Semaphores
    <3>3. frame'[t].sema \notin Threads
      BY <1>2, <3>1, <3>2
    <3> QED
      BY <3>1, <3>2, <3>3 DEF SameSignal, Ups, WaitsIn, OwnSema
  <2>9. CASE BroadcastNext(t) \/ CreateCheck(t) \/ SleepReturn(t) \/ TryTake(t)
             \/ (Take(t) /\ frame[t].op # "thread_create")
    <3>1. frame[t].pc \notin {"unlist", "clear_holder", "up", "down", "down_blocked"}
      BY <2>9 DEF BroadcastNext, CreateCheck, SleepReturn, TryTake, Take, At
    <3>2. frame'[t] = UserFrame
      <4>1. CASE BroadcastNext(t)
        <5>1. frame[t].cond \in Conds
          BY <4>1 DEF BroadcastNext, At, KernelInv, FramesOK, FrameShape
        <5>2. ASSUME cond_waiters[frame[t].cond] # <<>> PROVE FALSE
          <6>1. SignalFirst(t, frame[t].cond, frame[t])
            BY <4>1, <5>2 DEF BroadcastNext
          <6>2. cond_waiters' # cond_waiters
            BY <5>1, <5>2, <6>1, SignalMoves DEF KernelInv
          <6> QED
            BY <1>1, <6>2
        <5> QED
          BY <1>2, <4>1, <5>2 DEF BroadcastNext, ReturnToUser
      <4>2. CASE ~ BroadcastNext(t)
        BY <1>2, <2>9, <4>2 DEF CreateCheck, SleepReturn, TryTake, Take, ReturnToUser
      <4> QED
        BY <4>1, <4>2
    <3> QED
      BY <2>2, <3>1, <3>2
  <2>10. CASE Donate(t) \/ Unlist(t)
    BY <2>1, <2>5, <2>7, <2>10 DEF Donate, Unlist, Crash
  <2> QED
    BY <2>3, <2>4, <2>6, <2>8, <2>9, <2>10 DEF KernelStep, SchedStep, SleepStep, SynchStep
<1>4. \A u \in Threads : u # t => SameSignal(u)
  BY StepFrames DEF KernelInv, SameSignal, SignalsOK, SignalOK
<1> QED
  BY <1>1, <1>3, <1>4, SignalsSame

LEMMA StepSignals ==
    ASSUME KernelInv, CallsOK, LinksInv, SignalsOK, NEW t \in Threads, KernelStep(t)
    PROVE  SignalsOK'
<1>1. CASE BroadcastNext(t) /\ ~ UNCHANGED cond_waiters
  <2>1. /\ frame[t].cond \in Conds /\ frame[t].op = "cond_broadcast" /\ frame[t] \in FrameType
        /\ frame[t].pc = "broadcast"
    BY <1>1 DEF BroadcastNext, At, KernelInv, FramesOK, FrameShape, CallsOK, CallOK, CallShape,
       TypeOK, ControlType
  <2>2. /\ cond_waiters[frame[t].cond] # <<>> /\ SignalFirst(t, frame[t].cond, frame[t])
        /\ UNCHANGED value
    BY <1>1 DEF BroadcastNext, semaVars
  <2> QED
    BY <2>1, <2>2, SignalTakes DEF KernelInv
<1> QED
  BY <1>1, DownSignals, UpSignals, QuietSignals

LEMMA InterruptSignals ==
    ASSUME KernelInv, SignalsOK, IdleStep \/ Tick \/ Handler \/ Device
    PROVE  SignalsOK'
<1>1. /\ \A u \in Threads : frame'[u] = frame[u]
      /\ UNCHANGED cond_waiters
  BY InterruptFrames DEF KernelInv, IdleStep, Tick, Handler, Device, DeviceSemaUp, synchVars
<1>2. \A u \in Threads : value'[u] = value[u]
  <2>1. CASE Device
    <3>1. PICK s \in DeviceSemas : value' = [value EXCEPT ![s] = @ + 1]
      BY <2>1 DEF Device, DeviceSemaUp, SemaRaise
    <3>2. s \notin Threads
      BY SynchAssumption, ObjectsAssumption
    <3> QED
      BY <3>1, <3>2 DEF KernelInv, TypeOK, SemaType, Semaphores
  <2>2. CASE IdleStep \/ Tick \/ Handler
    BY <2>2 DEF IdleStep, Tick, Handler, synchVars, semaVars
  <2> QED
    BY <2>1, <2>2
<1>3. \A u \in Threads : SameSignal(u)
  BY <1>1 DEF SameSignal, SignalsOK, SignalOK
<1> QED
  BY <1>1, <1>2, <1>3, SignalsSame

LEMMA InitSignals == Init => SignalsOK
<1> SUFFICES ASSUME Init PROVE SignalsOK
  OBVIOUS
<1>1. /\ \A t \in Threads : frame[t] = UserFrame
      /\ \A t \in Threads : value[t] = 0
      /\ \A c \in Conds : cond_waiters[c] = <<>>
  BY ObjectsAssumption DEF Init, SchedInit, SynchInit, Semaphores
<1>2. ToSet(<<>>) = {} /\ IsInjective(<<>>)
  BY DEF ToSet, IsInjective
<1>3. QueuedOnce /\ \A t : ~ InQueue(t)
  BY <1>1, <1>2 DEF QueuedOnce, InQueue
<1>4. \A t, u \in Threads : Ups(frame[u]) = NULL /\ ~ WaitsIn(t, frame[u]) /\ OwnSema(t, frame[u])
  BY <1>1, UserFrameFields DEF Ups, WaitsIn, OwnSema
<1>5. NULL \notin Threads
  BY ObjectsAssumption
<1>6. UppedOnce /\ \A t \in Threads : ~ Upped(t)
  BY <1>4, <1>5 DEF UppedOnce, Upped
<1> QED
  BY <1>1, <1>3, <1>4, <1>6 DEF SignalsOK, SignalOK

LEMMA SignalsHold == Spec => []SignalsOK
<1>1. KernelInv /\ CallsOK /\ LinksInv /\ SignalsOK /\ [Next]_vars => SignalsOK'
  <2> SUFFICES ASSUME KernelInv, CallsOK, LinksInv, SignalsOK, [Next]_vars PROVE SignalsOK'
    OBVIOUS
  <2>1. CASE UNCHANGED vars
    <3>1. UNCHANGED <<frame, value, cond_waiters>>
      BY <2>1 DEF vars, schedVars, synchVars, semaVars
    <3>2. \A u \in Threads : SameSignal(u)
      BY <3>1 DEF SameSignal, SignalsOK, SignalOK
    <3> QED
      BY <3>1, <3>2, SignalsSame
  <2> QED
    BY <2>1, CallSignals, StepSignals, InterruptSignals DEF Next, CPU, Halted
<1> QED
  BY <1>1, InitSignals, LinksInvHolds, PTL DEF Spec

\* While a thread is in cond_wait() its semaphore is queued on the condition, or
\* in the hands of one signaller, or upped: in one of these places and once.  So
\* no signal and no broadcast is lost, spent twice or given to a stack frame that
\* is gone, whatever else the threads do between the steps of cond_wait().
THEOREM SignalsAddUp == Spec => []SignalAccounting
<1>1. KernelInv /\ SignalsOK => SignalAccounting
  <2> SUFFICES ASSUME KernelInv, SignalsOK, NEW t \in Threads
               PROVE  Cardinality(UNION {{<<c, i>> : i \in {j \in DOMAIN cond_waiters[c] :
                                            cond_waiters[c][j] = t}} : c \in Conds})
                      + value[t] + Cardinality(Signallers(t))
                        = IF InCondWait(t) THEN 1 ELSE 0
    BY DEF SignalAccounting
  <2> DEFINE Q == UNION {PlacesIn(c, cond_waiters[c], t) : c \in Conds}
             N == Signallers(t)
  <2>1. Q = UNION {{<<c, i>> : i \in {j \in DOMAIN cond_waiters[c] :
                                            cond_waiters[c][j] = t}} : c \in Conds}
    BY DEF PlacesIn
  <2>2. \A c \in Conds : IsInjective(cond_waiters[c])
    BY DEF SignalsOK, QueuedOnce
  <2>3. IF InQueue(t) THEN \E p : Q = {p} ELSE Q = {}
    <3>1. CASE InQueue(t)
      <4>1. PICK c \in Conds : t \in ToSet(cond_waiters[c])
        BY <3>1 DEF InQueue
      <4>2. \A d \in Conds : d # c => t \notin ToSet(cond_waiters[d])
        BY <4>1 DEF SignalsOK, QueuedOnce
      <4>3. PICK p : PlacesIn(c, cond_waiters[c], t) = {p}
        BY <2>2, <4>1, OnePlace
      <4>4. \A d \in Conds : d # c => PlacesIn(d, cond_waiters[d], t) = {}
        BY <2>2, <4>2, OnePlace
      <4>5. Q = {p}
        BY <4>3, <4>4
      <4> QED
        BY <3>1, <4>5
    <3>2. CASE ~ InQueue(t)
      <4>1. \A d \in Conds : PlacesIn(d, cond_waiters[d], t) = {}
        BY <2>2, <3>2, OnePlace DEF InQueue
      <4> QED
        BY <3>2, <4>1
    <3> QED
      BY <3>1, <3>2
  <2>4. N = {u \in Threads : Ups(frame[u]) = t}
    <3>1. NULL # t
      BY ObjectsAssumption
    <3> QED
      BY <3>1 DEF Signallers, Ups
  <2>5. IF Upped(t) THEN \E u : N = {u} ELSE N = {}
    BY <2>4 DEF Upped, SignalsOK, UppedOnce
  <2> HIDE DEF Q, N
  <2>6. Cardinality(Q) = IF InQueue(t) THEN 1 ELSE 0
    BY <2>3, FS_EmptySet, FS_Singleton
  <2>7. Cardinality(N) = IF Upped(t) THEN 1 ELSE 0
    BY <2>5, FS_EmptySet, FS_Singleton
  <2>8. InCondWait(t) <=> WaitsIn(t, frame[t])
    BY DEF InCondWait, WaitsIn
  <2>9. SignalOK(t)
    BY DEF SignalsOK
  <2>10. Cardinality(Q) + value[t] + Cardinality(N) = IF InCondWait(t) THEN 1 ELSE 0
    BY <2>6, <2>7, <2>8, <2>9 DEF SignalOK
  <2> QED
    BY <2>1, <2>10 DEF N
<1> QED
  BY <1>1, KernelInvHolds, SignalsHold, PTL

-----------------------------------------------------------------------------
(* Holders that keep going.                                                *)

\* A step of t leaves the others where they are, but for a child it creates.
LEMMA HoldersKept ==
    ASSUME KernelInv, HoldersOK, HeldByRunning, NEW t \in Threads, cur = t, HolderOK(t)',
           \A u \in Threads : u # t => \/ frame'[u] = frame[u]
                                       \/ status[u] = "free" /\ frame'[u] = UserFrame,
           \A u \in Threads : u # t => wait_for_lock'[u] = wait_for_lock[u]
    PROVE  HoldersOK'
<1> SUFFICES ASSUME NEW u \in Threads, u # t PROVE HolderOK(u)'
  BY DEF HoldersOK
<1>1. NULL # u
  BY ObjectsAssumption
<1>2. \A l \in Locks : holder'[l] = u => holder[l] = u
  BY <1>1 DEF HeldByRunning
<1>3. wait_for_lock'[u] = wait_for_lock[u] /\ HolderOK(u)
  BY DEF HoldersOK
<1>4. CASE frame'[u] = frame[u]
  BY <1>2, <1>3, <1>4 DEF HolderOK
<1>5. CASE status[u] = "free" /\ frame'[u] = UserFrame
  <2>1. frame[u].pc = "user"
    BY <1>5 DEF KernelInv, GoneFromKernel, Gone
  <2>2. wait_for_lock[u] = NULL
    BY <1>3, <2>1 DEF HolderOK
  <2>3. UserFrame.depth = 0 /\ UserFrame.pc = "user"
    BY DEF UserFrame, FrameAt
  <2> HIDE DEF UserFrame
  <2> QED
    BY <1>2, <1>3, <1>5, <2>2, <2>3 DEF HolderOK, HoldingPlaces
<1> QED
  BY <1>4, <1>5

\* Where a call of a holder leads.
HoldingFrame(f) ==
    /\ f.pc \in HoldingPlaces
    /\ f.pc = "up" => f.op \notin {"thread_create", "cond_wait"}

LEMMA CallOfHolder ==
    ASSUME HoldersKeepGoing, KernelInv, CallsOK, NEW t \in Threads, ClientCall(t),
           Held(t) # {}
    PROVE  HoldingFrame(frame'[t])
<1>1. ~ (CallCreate(t) \/ CallSleep(t) \/ CallExit(t) \/ CallSemaDown(t)
                   \/ CallAcquire(t) \/ CallTryAcquire(t))
  BY DEF HoldersKeepGoing, CallCreate, CallSleep, CallExit, CallSemaDown, CallAcquire,
     CallTryAcquire, MayCall
<1>2. /\ frame \in [Tasks -> FrameType] /\ frame[t] \in FrameType /\ frame[t].pc = "user"
      /\ frame[t].op = "none"
  BY CallFrames, InUser DEF TypeOK, ControlType, KernelInv
<1>3. CASE CallYield(t) \/ CallSetPriority(t) \/ CallSemaTryDown(t)
  <2>1. UNCHANGED frame
    BY <1>3 DEF CallYield, CallSetPriority, CallSemaTryDown, ThreadYield, ThreadSetPriority,
       SemaTryDown, schedVars
  <2> QED
    BY <1>2, <2>1 DEF HoldingFrame, HoldingPlaces
<1>4. CASE CallSemaUp(t)
  BY <1>2, <1>4 DEF CallSemaUp, SemaCall, FrameType, HoldingFrame, HoldingPlaces
<1>5. CASE CallRelease(t)
  <2>1. PICK l : frame'[t] = LockFrame("unlist", l)
    BY <1>2, <1>5 DEF CallRelease, LockRelease
  <2> QED
    BY <2>1, LockFrameFields DEF HoldingFrame, HoldingPlaces
<1>6. CASE CallCondWait(t)
  <2>1. frame'[t].pc = "unlist"
    BY <1>2, <1>6 DEF CallCondWait, CondWait, LockFrame, UserFrame, FrameAt
  <2> QED
    BY <2>1 DEF HoldingFrame, HoldingPlaces
<1>7. CASE CallCondSignal(t)
  <2>1. PICK c \in Conds : SignalFirst(t, c, UserFrame) /\ cond_waiters[c] # <<>>
    BY <1>7 DEF CallCondSignal, CondSignal
  <2>2. frame' = [frame EXCEPT ![t] = [UserFrame EXCEPT !.pc = "up", !.sema = Signalled(c)]]
    BY <2>1, SignalsOne DEF KernelInv
  <2>3. frame'[t] = [UserFrame EXCEPT !.pc = "up", !.sema = Signalled(c)]
    BY <1>2, <2>2
  <2>4. frame'[t].pc = "up" /\ frame'[t].op = "none"
    BY <2>3 DEF UserFrame, FrameAt
  <2> QED
    BY <2>4 DEF HoldingFrame, HoldingPlaces
<1>8. CASE CallCondBroadcast(t)
  <2>1. frame'[t].pc = "broadcast"
    BY <1>2, <1>8 DEF CallCondBroadcast, CondBroadcast, FrameAt
  <2> QED
    BY <2>1 DEF HoldingFrame, HoldingPlaces
<1> QED
  BY <1>1, <1>3, <1>4, <1>5, <1>6, <1>7, <1>8 DEF ClientCall

\* No call starts in the middle of a chain of donations.
LEMMA CallDepth ==
    ASSUME KernelInv, NEW t \in Threads, ClientCall(t), frame[t].depth = 0
    PROVE  frame'[t].depth = 0
<1>1. frame \in [Tasks -> FrameType] /\ frame[t] \in FrameType
  BY DEF KernelInv, TypeOK, ControlType
<1>2. CASE CallYield(t) \/ CallSetPriority(t) \/ CallExit(t) \/ CallSemaTryDown(t)
  <2>1. UNCHANGED frame
    BY <1>2 DEF CallYield, CallSetPriority, CallExit, CallSemaTryDown, ThreadYield,
       ThreadSetPriority, ThreadExit, SemaTryDown, schedVars
  <2> QED
    BY <2>1
<1>3. CASE CallCreate(t)
  <2>1. PICK f : frame'[t] = [UserFrame EXCEPT !.pc = "check_holder", !.op = "thread_create",
                                               !.lock = TidLock, !.child = f]
    BY <1>1, <1>3 DEF CallCreate, ThreadCreate
  <2> QED
    BY <2>1 DEF UserFrame, FrameAt
<1>4. CASE CallSleep(t)
  BY <1>1, <1>4 DEF CallSleep, TimerSleep, Goto, FrameType
<1>5. CASE CallSemaDown(t) \/ CallSemaUp(t)
  BY <1>1, <1>5 DEF CallSemaDown, CallSemaUp, SemaCall, FrameType
<1>6. CASE CallAcquire(t) \/ CallTryAcquire(t) \/ CallRelease(t)
  <2>1. PICK pc, l : frame'[t] = LockFrame(pc, l)
    BY <1>1, <1>6 DEF CallAcquire, CallTryAcquire, CallRelease, LockAcquire, LockTryAcquire,
       LockRelease
  <2> QED
    BY <2>1 DEF LockFrame, UserFrame, FrameAt
<1>7. CASE CallCondWait(t)
  BY <1>1, <1>7 DEF CallCondWait, CondWait, LockFrame, UserFrame, FrameAt
<1>8. CASE CallCondSignal(t)
  <2>1. PICK c \in Conds : SignalFirst(t, c, UserFrame) /\ cond_waiters[c] # <<>>
    BY <1>8 DEF CallCondSignal, CondSignal
  <2>2. frame' = [frame EXCEPT ![t] = [UserFrame EXCEPT !.pc = "up", !.sema = Signalled(c)]]
    BY <2>1, SignalsOne DEF KernelInv
  <2>3. frame'[t] = [UserFrame EXCEPT !.pc = "up", !.sema = Signalled(c)]
    BY <1>1, <2>2
  <2> QED
    BY <2>3 DEF UserFrame, FrameAt
<1>9. CASE CallCondBroadcast(t)
  BY <1>1, <1>9 DEF CallCondBroadcast, CondBroadcast, FrameAt
<1> QED
  BY <1>2, <1>3, <1>4, <1>5, <1>6, <1>7, <1>8, <1>9 DEF ClientCall

LEMMA CallHoldersOK ==
    ASSUME HoldersKeepGoing, KernelInv, CallsOK, HoldersOK, NEW t \in Threads, ClientCall(t)
    PROVE  HoldersOK'
<1>1. /\ cur = t /\ frame[t].pc = "user" /\ HolderOK(t)
      /\ \A u \in Threads : u # t => \/ frame'[u] = frame[u]
                                     \/ status[u] = "free" /\ frame'[u] = UserFrame
      /\ UNCHANGED <<holder, wait_for_lock>>
  BY CallFrames, CallMoves, CallWaits DEF KernelInv, HoldersOK
<1>2. wait_for_lock[t] = NULL /\ frame'[t].depth = 0
  BY <1>1, CallDepth DEF HolderOK
<1>3. frame'[t].pc # "donate"
  BY CallPlace DEF KernelInv
<1>4. \A l \in Locks : holder[l] = t => HoldingFrame(frame'[t])
  BY CallOfHolder DEF Held
<1>5. HolderOK(t)'
  BY <1>1, <1>2, <1>3, <1>4 DEF HolderOK, HoldingFrame
<1>6. HeldByRunning
  BY <1>1 DEF HeldByRunning
<1> QED
  BY <1>1, <1>5, <1>6, HoldersKept

\* The steps of lock_acquire() and of lock_release().
LEMMA WaitingHolderOK ==
    ASSUME KernelInv, HoldersOK, NEW t \in Threads, MarkWaiting(t) \/ Donate(t) \/ DonateStop(t)
    PROVE  HolderOK(t)'
<1>1. /\ frame \in [Tasks -> FrameType] /\ frame[t] \in FrameType /\ HolderOK(t)
      /\ holder \in [Locks -> Threads \union {NULL}]
      /\ wait_for_lock \in [Threads -> Locks \union {NULL}]
      /\ frame[t].pc \in {"mark_waiting", "donate"} /\ frame[t].lock \in Locks
      /\ UNCHANGED holder
  BY DEF KernelInv, TypeOK, ControlType, LockType, HoldersOK, MarkWaiting, Donate, DonateStop,
     At, FramesOK, FrameShape, lockVars, synchVars
<1>2. \A l \in Locks : holder[l] # t
  BY <1>1 DEF HolderOK, HoldingPlaces
<1>3. CASE MarkWaiting(t)
  <2>1. /\ wait_for_lock'[t] = frame[t].lock
        /\ frame'[t] = [frame[t] EXCEPT !.pc = "donate", !.dlock = frame[t].lock]
    BY <1>1, <1>3 DEF MarkWaiting
  <2>2. /\ frame'[t].pc = "donate" /\ frame'[t].dlock = frame[t].lock
        /\ frame'[t].lock = frame[t].lock /\ frame'[t].depth = frame[t].depth
    BY <1>1, <2>1 DEF FrameType
  <2> QED
    BY <1>1, <1>2, <2>1, <2>2 DEF HolderOK
<1>4. ASSUME frame'[t] = [frame[t] EXCEPT !.pc = "down", !.sema = frame[t].lock,
                                          !.dlock = NULL, !.depth = 0],
             UNCHANGED wait_for_lock
      PROVE  HolderOK(t)'
  <2>1. /\ frame'[t].pc = "down" /\ frame'[t].sema = frame[t].lock
        /\ frame'[t].lock = frame[t].lock /\ frame'[t].depth = 0
    BY <1>1, <1>4 DEF FrameType
  <2> QED
    BY <1>1, <1>2, <1>4, <2>1 DEF HolderOK
<1>5. CASE DonateStop(t)
  <2>1. /\ frame'[t] = [frame[t] EXCEPT !.pc = "down", !.sema = frame[t].lock,
                                        !.dlock = NULL, !.depth = 0]
        /\ UNCHANGED wait_for_lock
    BY <1>1, <1>5 DEF DonateStop, synchVars, lockVars
  <2> QED
    BY <1>4, <2>1
<1>6. CASE Donate(t)
  <2>1. UNCHANGED wait_for_lock /\ frame[t].dlock = frame[t].lock /\ frame[t].pc = "donate"
    BY <1>1, <1>6 DEF Donate, lockVars, At, HolderOK
  <2>2. CASE holder[frame[t].dlock] = NULL
    BY <1>1, <1>2, <1>6, <2>1, <2>2 DEF Donate, Crash, HolderOK
  <2>3. CASE holder[frame[t].dlock] # NULL
    <3>1. PICK h \in Threads : holder[frame[t].lock] = h
      BY <1>1, <2>1, <2>3
    <3>2. frame[h].pc \in HoldingPlaces /\ HolderOK(h)
      BY <1>1, <3>1 DEF HoldersOK, HolderOK
    <3>3. wait_for_lock[h] = NULL
      <4> SUFFICES ASSUME wait_for_lock[h] # NULL PROVE FALSE
        OBVIOUS
      <4>1. frame[h].pc = "up" \/ frame[h].pc \in {"user", "unlist", "clear_holder", "broadcast"}
        BY <3>2 DEF HoldingPlaces
      <4> QED
        BY <3>2, <4>1 DEF HolderOK
    <3>4. DonateStep(t, h)
      BY <1>6, <2>1, <2>3, <3>1 DEF Donate
    <3>5. frame'[t] = [frame[t] EXCEPT !.pc = "down", !.sema = frame[t].lock,
                                       !.dlock = NULL, !.depth = 0]
      BY <1>1, <3>3, <3>4 DEF DonateStep
    <3> QED
      BY <1>4, <2>1, <3>5
  <2> QED
    BY <2>2, <2>3
<1> QED
  BY <1>3, <1>5, <1>6

LEMMA TakingHolderOK ==
    ASSUME KernelInv, HoldersOK, NEW t \in Threads, Take(t) \/ TryTake(t)
    PROVE  HolderOK(t)'
<1>1. /\ frame \in [Tasks -> FrameType] /\ frame[t] \in FrameType /\ HolderOK(t)
      /\ holder \in [Locks -> Threads \union {NULL}]
      /\ wait_for_lock \in [Threads -> Locks \union {NULL}]
      /\ frame[t].pc \in {"take", "try_take"} /\ frame[t].lock \in Locks
      /\ holder' = [holder EXCEPT ![frame[t].lock] = t]
  BY DEF KernelInv, TypeOK, ControlType, LockType, HoldersOK, Take, TryTake,
     At, FramesOK, FrameShape
<1>2. \A l \in Locks : holder[l] # t
  BY <1>1 DEF HolderOK, HoldingPlaces
<1>3. \A l \in Locks : holder'[l] = t => l = frame[t].lock
  BY <1>1, <1>2
<1>4. wait_for_lock'[t] = NULL
  <2>1. CASE Take(t)
    BY <1>1, <2>1 DEF Take
  <2>2. CASE TryTake(t)
    BY <1>1, <2>2 DEF TryTake, At, HolderOK
  <2> QED
    BY <2>1, <2>2
<1>5. frame'[t].pc \in {"unlist", "user"} /\ frame'[t].depth = 0
  <2>1. frame'[t] \in {UserFrame, [frame[t] EXCEPT !.pc = "unlist"]}
    BY <1>1 DEF Take, TryTake, Goto, ReturnToUser
  <2>2. UserFrame.pc = "user" /\ UserFrame.depth = 0
    BY DEF UserFrame, FrameAt
  <2> HIDE DEF UserFrame
  <2> QED
    BY <1>1, <2>1, <2>2 DEF FrameType, HolderOK
<1> QED
  BY <1>3, <1>4, <1>5 DEF HolderOK, HoldingPlaces

LEMMA ReleasingHolderOK ==
    ASSUME KernelInv, HoldersOK, NEW t \in Threads, Unlist(t) \/ ClearHolder(t)
    PROVE  HolderOK(t)'
<1>1. /\ frame \in [Tasks -> FrameType] /\ frame[t] \in FrameType /\ HolderOK(t)
      /\ holder \in [Locks -> Threads \union {NULL}]
      /\ frame[t].pc \in {"unlist", "clear_holder"} /\ frame[t].lock \in Locks
      /\ holder[frame[t].lock] = t /\ UNCHANGED wait_for_lock
  BY DEF KernelInv, TypeOK, ControlType, LockType, HoldersOK, Unlist, ClearHolder,
     At, FramesOK, FrameShape, Ownership, HolderUntilCleared
<1>2. wait_for_lock[t] = NULL /\ frame[t].depth = 0
  BY <1>1 DEF HolderOK
<1>3. CASE Unlist(t)
  <2>1. frame'[t] = [frame[t] EXCEPT !.pc = "clear_holder"] \/ frame' = frame
    BY <1>1, <1>3 DEF Unlist, Goto, Crash
  <2>2. frame'[t].pc \in {"unlist", "clear_holder"} /\ frame'[t].depth = 0
    BY <1>1, <1>2, <2>1 DEF FrameType
  <2> QED
    BY <1>1, <1>2, <1>3, <2>2 DEF HolderOK, HoldingPlaces, Unlist
<1>4. CASE ClearHolder(t)
  <2>1. /\ holder' = [holder EXCEPT ![frame[t].lock] = NULL]
        /\ frame'[t] = [frame[t] EXCEPT !.pc = "up", !.sema = frame[t].lock]
    BY <1>1, <1>4 DEF ClearHolder
  <2>2. frame'[t].pc = "up" /\ frame'[t].depth = 0
    BY <1>1, <1>2, <2>1 DEF FrameType
  <2>3. \A l \in Locks : holder'[l] # t
    BY <1>1, <2>1, ObjectsAssumption DEF HolderOK
  <2> QED
    BY <1>1, <1>2, <2>2, <2>3 DEF HolderOK
<1> QED
  BY <1>3, <1>4

LEMMA AfterDepth ==
    ASSUME NEW t \in Threads, frame[t] \in FrameType, frame[t].depth = 0
    PROVE  AfterDown(t).depth = 0 /\ AfterUp(t).depth = 0
<1>1. UserFrame.depth = 0
  BY DEF UserFrame, FrameAt
<1> HIDE DEF UserFrame
<1> QED
  BY <1>1 DEF AfterDown, AfterUp, FrameType

\* The other steps leave lock->holder and wait_for_lock as they are.
LEMMA SemaHolderOK ==
    ASSUME KernelInv, CallsOK, HoldersOK, NEW t \in Threads, SemaDown(t) \/ SemaUp(t)
    PROVE  HolderOK(t)'
<1>1. /\ frame \in [Tasks -> FrameType] /\ frame[t] \in FrameType /\ HolderOK(t)
      /\ UNCHANGED <<holder, wait_for_lock>>
  BY DEF KernelInv, TypeOK, ControlType, HoldersOK, SemaDown, SemaUp, lockVars
<1>2. frame[t].depth = 0 /\ AfterDown(t).depth = 0 /\ AfterUp(t).depth = 0
  BY <1>1, AfterDepth DEF HolderOK
<1>3. CASE SemaDown(t)
  <2>1. frame[t].pc \in {"down", "down_blocked"} /\ frame[t].sema \in Semaphores
    BY <1>3 DEF SemaDown, At, KernelInv, FramesOK, FrameShape
  <2>2. CASE SemaDownWait(t, frame[t].sema)
    <3>1. frame'[t] = [frame[t] EXCEPT !.pc = "down_blocked"]
      BY <1>1, <2>2 DEF SemaDownWait, Goto
    <3>2. /\ frame'[t].pc = "down_blocked" /\ frame'[t].sema = frame[t].sema
          /\ frame'[t].lock = frame[t].lock /\ frame'[t].depth = 0
      BY <1>1, <1>2, <3>1 DEF FrameType
    <3> QED
      BY <1>1, <2>1, <3>2 DEF HolderOK, HoldingPlaces
  <2>3. CASE SemaDownTake(t, frame[t].sema)
    <3>1. frame'[t] = AfterDown(t)
      BY <1>1, <2>3 DEF SemaDownTake
    <3>2. frame[t].sema \in Locks => AfterDown(t).pc = "take" /\ AfterDown(t).lock = frame[t].lock
      BY <1>1 DEF AfterDown, FrameType
    <3>3. AfterDown(t).pc # "donate"
      BY <1>1, AfterPcs
    <3>4. wait_for_lock[t] # NULL => frame[t].sema \in Locks
      BY <1>1, <2>1 DEF HolderOK
    <3>5. \A l \in Locks : holder[l] # t
      BY <1>1, <2>1 DEF HolderOK, HoldingPlaces
    <3> QED
      BY <1>1, <1>2, <3>1, <3>2, <3>3, <3>4, <3>5 DEF HolderOK
  <2> QED
    BY <1>3, <2>2, <2>3 DEF SemaDown
<1>4. CASE SemaUp(t)
  <2>1. frame[t].pc = "up" /\ frame'[t] = AfterUp(t)
    BY <1>1, <1>4 DEF SemaUp, At
  <2>2. frame[t].op \notin {"thread_create", "cond_wait"} => AfterUp(t).pc \in {"broadcast", "user"}
    <3>1. UserFrame.pc = "user"
      BY UserFrameFields
    <3> HIDE DEF UserFrame
    <3> QED
      BY <1>1, <3>1 DEF AfterUp, FrameType
  <2>3. AfterUp(t).pc # "donate"
    BY <1>1, AfterPcs
  <2> QED
    BY <1>1, <1>2, <2>1, <2>2, <2>3 DEF HolderOK, HoldingPlaces
<1> QED
  BY <1>3, <1>4

LEMMA OtherHolderOK ==
    ASSUME KernelInv, CallsOK, HoldersOK, NEW t \in Threads, KernelStep(t),
           ~ (\/ MarkWaiting(t) \/ Donate(t) \/ DonateStop(t) \/ Take(t) \/ TryTake(t)
              \/ Unlist(t) \/ ClearHolder(t) \/ SemaDown(t) \/ SemaUp(t))
    PROVE  HolderOK(t)'
<1>1. /\ frame \in [Tasks -> FrameType] /\ frame[t] \in FrameType /\ HolderOK(t)
      /\ frame[t].depth = 0
  BY DEF KernelInv, TypeOK, ControlType, HoldersOK, HolderOK
<1>2. UserFrame.depth = 0 /\ UserFrame.pc = "user"
  BY DEF UserFrame, FrameAt
<1> HIDE DEF UserFrame
<1>3. CASE BroadcastNext(t)
  <2>1. /\ frame[t].pc = "broadcast" /\ frame[t].op = "cond_broadcast"
        /\ frame[t].cond \in Conds /\ UNCHANGED <<holder, wait_for_lock>>
    BY <1>3 DEF BroadcastNext, At, CallsOK, CallOK, CallShape, KernelInv, FramesOK, FrameShape,
       lockVars
  <2>2. wait_for_lock[t] = NULL
    BY <1>1, <2>1 DEF HolderOK
  <2>3. CASE cond_waiters[frame[t].cond] # <<>>
    <3>1. frame' = [frame EXCEPT ![t] = [frame[t] EXCEPT !.pc = "up",
                                                         !.sema = Signalled(frame[t].cond)]]
      BY <1>3, <2>1, <2>3, SignalsOne, ZenonT(60) DEF BroadcastNext, KernelInv
    <3>2. frame'[t] = [frame[t] EXCEPT !.pc = "up", !.sema = Signalled(frame[t].cond)]
      BY <1>1, <3>1
    <3>3. frame'[t].pc = "up" /\ frame'[t].op = "cond_broadcast" /\ frame'[t].depth = 0
      BY <1>1, <2>1, <3>2 DEF FrameType
    <3> QED
      BY <1>1, <2>1, <2>2, <3>3 DEF HolderOK, HoldingPlaces
  <2>4. CASE cond_waiters[frame[t].cond] = <<>>
    <3>1. frame'[t] = UserFrame
      BY <1>1, <1>3, <2>4 DEF BroadcastNext, ReturnToUser
    <3> QED
      BY <1>1, <1>2, <2>1, <2>2, <3>1 DEF HolderOK, HoldingPlaces
  <2> QED
    BY <2>3, <2>4
<1>4. CASE SchedStep(t) \/ SleepStep(t) \/ CheckHolder(t)
  <2>1. /\ frame[t].pc \in {"create_unblock", "create_check", "sleep_insert", "sleep_blocked",
                             "check_holder"}
        /\ UNCHANGED <<holder, wait_for_lock>>
    BY <1>4 DEF SchedStep, SleepStep, CreateUnblock, CreateCheck, SleepInsert, SleepReturn,
       CheckHolder, At, synchVars, lockVars
  <2>2. (\A l \in Locks : holder[l] # t) /\ wait_for_lock[t] = NULL
    BY <1>1, <2>1 DEF HolderOK, HoldingPlaces
  <2>3. \/ frame'[t] = UserFrame
        \/ \E pc \in {"create_check", "sleep_blocked", "mark_waiting"} :
              frame'[t] = [frame[t] EXCEPT !.pc = pc]
        \/ frame'[t] = [frame[t] EXCEPT !.pc = "down", !.sema = frame[t].lock]
    BY <1>1, <1>4 DEF SchedStep, SleepStep, CreateUnblock, CreateCheck, SleepInsert,
       SleepReturn, CheckHolder, Goto, ReturnToUser
  <2>4. frame'[t].pc # "donate" /\ frame'[t].depth = 0
    BY <1>1, <1>2, <2>3 DEF FrameType
  <2> QED
    BY <2>1, <2>2, <2>4 DEF HolderOK
<1> QED
  BY <1>3, <1>4 DEF KernelStep, SynchStep

LEMMA StepHoldersOK ==
    ASSUME KernelInv, CallsOK, HoldersOK, NEW t \in Threads, KernelStep(t)
    PROVE  HoldersOK'
<1>1. cur = t /\ \A u \in Threads : u # t => frame'[u] = frame[u]
  BY StepFrames DEF KernelInv
<1>2. \A u \in Threads : u # t => wait_for_lock'[u] = wait_for_lock[u]
  BY StepWaits DEF KernelInv
<1>3. HeldByRunning
  BY StepHolders
<1>4. HolderOK(t)'
  BY WaitingHolderOK, TakingHolderOK, ReleasingHolderOK, SemaHolderOK, OtherHolderOK
<1> QED
  BY <1>1, <1>2, <1>3, <1>4, HoldersKept

LEMMA InterruptHoldersOK ==
    ASSUME KernelInv, HoldersOK, IdleStep \/ Tick \/ Handler \/ Device
    PROVE  HoldersOK'
<1>1. UNCHANGED <<holder, wait_for_lock>>
  BY DEF IdleStep, Tick, Handler, Device, DeviceSemaUp, synchVars, lockVars
<1> QED
  BY <1>1, InterruptFrames DEF KernelInv, HoldersOK, HolderOK

LEMMA InitHoldersOK == Init => HoldersOK
<1> SUFFICES ASSUME Init PROVE HoldersOK
  OBVIOUS
<1>1. /\ \A t \in Threads : frame[t] = UserFrame /\ wait_for_lock[t] = NULL
      /\ \A l \in Locks : holder[l] = NULL
  BY ObjectsAssumption DEF Init, SchedInit, SynchInit
<1>2. UserFrame.depth = 0 /\ UserFrame.pc = "user"
  BY DEF UserFrame, FrameAt
<1> QED
  BY <1>1, <1>2, ObjectsAssumption DEF HoldersOK, HolderOK

LEMMA HoldersOKHolds == ASSUME HoldersKeepGoing PROVE Spec => []HoldersOK
<1>1. KernelInv /\ CallsOK /\ LinksInv /\ HoldersOK /\ [Next]_vars => HoldersOK'
  <2> SUFFICES ASSUME KernelInv, CallsOK, HoldersOK, [Next]_vars PROVE HoldersOK'
    OBVIOUS
  <2>1. CASE UNCHANGED vars
    BY <2>1, SMTT(30) DEF vars, schedVars, synchVars, lockVars, HoldersOK, HolderOK
  <2> QED
    BY <2>1, CallHoldersOK, StepHoldersOK, InterruptHoldersOK DEF Next, CPU, Halted
<1> QED
  BY <1>1, InitHoldersOK, LinksInvHolds, PTL DEF Spec

-----------------------------------------------------------------------------
(* The order of the CPU.                                                   *)

\* The steps that change priorities.
LEMMA CallPriorities ==
    ASSUME NEW t \in Threads, ClientCall(t), ~ CallCreate(t), ~ CallSetPriority(t)
    PROVE  UNCHANGED priorityVars
BY DEF ClientCall, CallYield, CallSleep, CallExit, TimerSleep, ThreadYield, ThreadExit,
   CallSemaDown, CallSemaUp, CallSemaTryDown, CallAcquire, CallTryAcquire, CallRelease,
   CallCondWait, CallCondSignal, CallCondBroadcast, SemaCall, SemaTryDown, LockAcquire,
   LockTryAcquire, LockRelease, CondWait, CondSignal, CondBroadcast, schedVars

LEMMA StepPriorities ==
    ASSUME NEW t \in Threads, KernelStep(t), ~ Donate(t), ~ Unlist(t)
    PROVE  UNCHANGED priorityVars
BY DEF KernelStep, SchedStep, SleepStep, SynchStep, CreateUnblock, CreateCheck, SleepInsert,
   SleepReturn, SemaDown, SemaUp, CheckHolder, MarkWaiting, DonateStop, Take, TryTake,
   ClearHolder, BroadcastNext

LEMMA InterruptPriorities ==
    ASSUME IdleStep \/ Tick \/ Handler \/ Device
    PROVE  UNCHANGED priorityVars
BY DEF IdleStep, IdleBlock, Tick, TimerInterrupt, Handler, TimerWakeUp, TimerReturn, Device,
   DeviceSemaUp

LEMMA NoSetPriority ==
    ASSUME "thread_set_priority" \notin Calls, NEW t \in Threads, CallSetPriority(t)
    PROVE  FALSE
BY ClientAssumption DEF CallSetPriority, MayCall

\* A donation gives the holder it reaches the highest of three priorities.
LEMMA BoostedValue ==
    ASSUME PriorityType, NEW t \in Tasks, NEW h \in Tasks
    PROVE  /\ Boosted(t, h) \in {priority[h], priority[t], original_priority[h]}
           /\ Boosted(t, h) >= priority[h] /\ Boosted(t, h) >= priority[t]
           /\ Boosted(t, h) >= original_priority[h]
<1> DEFINE I == {priority[h], priority[t], original_priority[h]}
<1>1. I \in SUBSET (0 .. PRI_MAX) /\ I # {} /\ PRI_MAX \in Nat
  BY NumbersAssumption DEF PriorityType
<1>2. Max(I) \in I /\ \A j \in I : j <= Max(I)
  BY <1>1, MaxIsGreatest
<1>3. Max(I) \in Nat /\ \A j \in I : j \in Nat
  BY <1>1, <1>2
<1> QED
  BY <1>2, <1>3 DEF Boosted

LEMMA DonatePriorities ==
    ASSUME KernelInv, NEW t \in Threads, Donate(t)
    PROVE  \/ UNCHANGED priorityVars
           \/ /\ UNCHANGED original_priority
              /\ \E h \in Threads : /\ holder[frame[t].dlock] = h /\ DonateStep(t, h)
                                    /\ priority' = [priority EXCEPT ![h] = Boosted(t, h)]
<1>1. /\ frame[t].dlock \in Locks
      /\ holder[frame[t].dlock] \in Threads \union {NULL}
  BY DEF Donate, At, KernelInv, FramesOK, FrameShape, TypeOK, LockType
<1>2. CASE holder[frame[t].dlock] = NULL
  BY <1>2 DEF Donate, Crash
<1>3. CASE holder[frame[t].dlock] # NULL
  <2>1. PICK h \in Threads : holder[frame[t].dlock] = h
    BY <1>1, <1>3
  <2>2. DonateStep(t, h)
    BY <1>3, <2>1 DEF Donate
  <2> QED
    BY <2>1, <2>2 DEF DonateStep
<1> QED
  BY <1>2, <1>3

\* thread_next_priority() never goes below the base priority.
LEMMA UnlistPriorities ==
    ASSUME KernelInv, NEW t \in Threads, Unlist(t)
    PROVE  \/ UNCHANGED priorityVars
           \/ /\ UNCHANGED original_priority
              /\ \E p \in Priorities : /\ priority' = [priority EXCEPT ![t] = p]
                                       /\ p >= original_priority[t]
<1>1. /\ frame[t].lock \in Locks /\ acquired_locks[t] \in Seq(Locks)
  BY DEF Unlist, At, KernelInv, FramesOK, FrameShape, TypeOK, LockType
<1>2. CASE frame[t].lock \notin ToSet(acquired_locks[t])
  BY <1>2 DEF Unlist, Crash
<1>3. CASE frame[t].lock \in ToSet(acquired_locks[t])
  <2>1. PICK rest : rest = list_remove(acquired_locks[t], frame[t].lock)
    OBVIOUS
  <2>2. rest \in Seq(Locks) /\ ToSet(rest) \in SUBSET Locks
    BY <1>1, <2>1, RemoveType, MembersType
  <2>3. thread_next_priority(t, rest) /\ UNCHANGED original_priority
    BY <1>3, <2>1 DEF Unlist
  <2> DEFINE I == {original_priority[t]} \union {FrontPriority(k) : k \in ToSet(rest)}
  <2>4. \A k \in Locks : FrontPriority(k) \in Priorities
    <3>1. \A k \in Locks : k \in Semaphores /\ value[k] <= 1
      BY DEF UpWhenFree, Semaphores, KernelInv, Ownership
    <3> QED
      BY <3>1, FrontPriorityType DEF TypeOK, KernelInv
  <2>5. I \in SUBSET (0 .. PRI_MAX) /\ I # {} /\ PRI_MAX \in Nat
    BY <2>2, <2>4, NumbersAssumption DEF TypeOK, PriorityType, KernelInv
  <2>6. Max(I) \in I /\ \A j \in I : j <= Max(I)
    BY <2>5, MaxIsGreatest
  <2>7. original_priority[t] \in I
    OBVIOUS
  <2>8. priority' = [priority EXCEPT ![t] = Max(I)]
    BY <2>3 DEF thread_next_priority
  <2> HIDE DEF I
  <2> DEFINE m == Max(I)
  <2>9. m \in I /\ original_priority[t] <= m
    BY <2>6, <2>7
  <2> HIDE DEF m
  <2>10. m \in 0 .. PRI_MAX /\ original_priority[t] \in 0 .. PRI_MAX
    BY <2>5, <2>7, <2>9
  <2>11. m >= original_priority[t]
    BY <2>5, <2>9, <2>10
  <2> QED
    BY <2>3, <2>8, <2>10, <2>11 DEF m
<1> QED
  BY <1>2, <1>3

LEMMA BaseOKHolds == ASSUME "thread_set_priority" \notin Calls PROVE Spec => []BaseOK
<1>1. Init => BaseOK
  <2> SUFFICES ASSUME Init PROVE BaseOK
    OBVIOUS
  <2>1. TypeOK
    BY InitTypeOK
  <2> QED
    BY <2>1, NumbersAssumption DEF BaseOK, Init, SchedInit, TypeOK, PriorityType
<1>2. KernelInv /\ BaseOK /\ [Next]_vars => BaseOK'
  <2> SUFFICES ASSUME KernelInv, BaseOK, [Next]_vars PROVE BaseOK'
    OBVIOUS
  <2>1. ASSUME UNCHANGED priorityVars PROVE BaseOK'
    BY <2>1 DEF BaseOK, priorityVars
  <2>2. /\ priority \in [Tasks -> Priorities] /\ original_priority \in [Tasks -> Priorities]
        /\ PRI_MAX \in Nat
    BY NumbersAssumption DEF KernelInv, TypeOK, PriorityType
  <2>3. ASSUME NEW t \in Threads, CallCreate(t) PROVE BaseOK'
    <3>1. PICK child \in Threads, pri \in NewPriorities : ThreadCreate(t, child, pri)
      BY <2>3 DEF CallCreate
    <3>2. pri \in Priorities
      BY ClientAssumption
    <3> QED
      BY <2>2, <3>1, <3>2 DEF ThreadCreate, BaseOK
  <2>4. ASSUME NEW t \in Threads, Donate(t) PROVE BaseOK'
    <3>1. CASE UNCHANGED priorityVars
      BY <2>1, <3>1
    <3>2. CASE ~ UNCHANGED priorityVars
      <4>1. PICK h \in Threads : /\ priority' = [priority EXCEPT ![h] = Boosted(t, h)]
                                 /\ UNCHANGED original_priority
        BY <2>4, <3>2, DonatePriorities
      <4>2. Boosted(t, h) \in Priorities /\ Boosted(t, h) >= original_priority[h]
        BY <2>2, BoostedValue, BoostedType DEF KernelInv, TypeOK
      <4> QED
        BY <2>2, <4>1, <4>2 DEF BaseOK
    <3> QED
      BY <3>1, <3>2
  <2>5. ASSUME NEW t \in Threads, Unlist(t) PROVE BaseOK'
    <3>1. CASE UNCHANGED priorityVars
      BY <2>1, <3>1
    <3>2. CASE ~ UNCHANGED priorityVars
      <4>1. PICK p \in Priorities : /\ priority' = [priority EXCEPT ![t] = p]
                                    /\ p >= original_priority[t]
        BY <2>5, <3>2, UnlistPriorities
      <4>2. UNCHANGED original_priority
        BY <2>5, <3>2, UnlistPriorities
      <4> QED
        BY <2>2, <4>1, <4>2 DEF BaseOK
    <3> QED
      BY <3>1, <3>2
  <2>6. CASE UNCHANGED vars
    BY <2>1, <2>6 DEF vars, schedVars
  <2> QED
    BY <2>1, <2>3, <2>4, <2>5, <2>6, CallPriorities, StepPriorities, InterruptPriorities,
       NoSetPriority DEF Next, CPU, Halted
<1> QED
  BY <1>1, <1>2, KernelInvHolds, PTL DEF Spec

-----------------------------------------------------------------------------
(* Switching.                                                              *)

\* The list is in order, its members do not outrank c, and the idle thread runs
\* only when it is empty.
InOrder(list, c, pri) ==
    /\ Sorted(list, pri) /\ \A t \in ToSet(list) : pri[t] <= pri[c]
    /\ c = Idle => list = <<>>

LEMMA ScheduledOrder ==
    ASSUME NEW list \in Seq(Threads), NEW st, NEW pri \in [Tasks -> Priorities],
           Sorted(list, pri), schedule(list, st)
    PROVE  InOrder(ready_list', cur', pri)
<1>1. \A t \in Threads : pri[t] \in Int
  BY NumbersAssumption
<1>2. CASE list = <<>>
  <2>1. ready_list' = list /\ ToSet(list) = {}
    BY <1>2 DEF schedule, ToSet
  <2> QED
    BY <1>2, <2>1 DEF InOrder
<1>3. CASE list # <<>>
  <2>1. cur' = Head(list) /\ ready_list' = Tail(list)
    BY <1>3 DEF schedule, next_thread_to_run
  <2>2. /\ Head(list) \in Threads /\ Sorted(Tail(list), pri)
        /\ \A e \in ToSet(list) : pri[e] <= pri[Head(list)]
        /\ ToSet(Tail(list)) \subseteq ToSet(list)
    BY <1>1, <1>3, SortedHead
  <2>3. Head(list) # Idle
    BY <2>2, ObjectsAssumption
  <2> QED
    BY <2>1, <2>2, <2>3 DEF InOrder
<1> QED
  BY <1>2, <1>3

LEMMA YieldedOrder ==
    ASSUME cur \in Tasks, NEW list \in Seq(Threads), NEW st, NEW pri \in [Tasks -> Priorities],
           Sorted(list, pri), thread_yield(list, st, pri)
    PROVE  InOrder(ready_list', cur', pri)
<1>1. \A t \in Threads : pri[t] \in Int
  BY NumbersAssumption
<1>2. CASE cur = Idle
  BY <1>2, ScheduledOrder DEF thread_yield
<1>3. CASE cur # Idle
  <2>1. PICK new : new = list_insert_ordered(list, cur, pri)
    OBVIOUS
  <2>2. new \in Seq(Threads) /\ Sorted(new, pri)
    BY <1>1, <1>3, <2>1, InsertOrderedType, InsertKeepsSorted
  <2>3. schedule(new, [st EXCEPT ![cur] = "ready"])
    BY <1>3, <2>1 DEF thread_yield
  <2> QED
    BY <2>2, <2>3, ScheduledOrder
<1> QED
  BY <1>2, <1>3

\* Whoever stays on the CPU is not outranked by the first, nor by the others.
LEMMA KeptOrder ==
    ASSUME NEW list \in Seq(Threads), NEW pri \in [Tasks -> Priorities], NEW c \in Tasks,
           Sorted(list, pri), list # <<>> => pri[Head(list)] <= pri[c]
    PROVE  \A t \in ToSet(list) : pri[t] <= pri[c]
<1>1. \A t \in Tasks : pri[t] \in Int
  BY NumbersAssumption
<1>2. CASE list = <<>>
  BY <1>2 DEF ToSet
<1>3. CASE list # <<>>
  <2>1. /\ Head(list) \in Threads /\ \A e \in ToSet(list) : pri[e] <= pri[Head(list)]
        /\ ToSet(list) \in SUBSET Threads
    BY <1>1, <1>3, SortedHead, MembersType
  <2>2. pri[Head(list)] <= pri[c]
    BY <1>3
  <2> QED
    BY <1>1, <2>1, <2>2
<1> QED
  BY <1>2, <1>3

LEMMA CheckedOrder ==
    ASSUME cur \in Threads, NEW list \in Seq(Threads), NEW st, NEW pri \in [Tasks -> Priorities],
           Sorted(list, pri), thread_check_priority(list, st, pri)
    PROVE  InOrder(ready_list', cur', pri)
<1>1. \A t \in Tasks : pri[t] \in Int
  BY NumbersAssumption
<1>2. CASE Outranked(list, pri)
  BY <1>2, YieldedOrder DEF thread_check_priority
<1>3. CASE ~ Outranked(list, pri)
  <2>1. ready_list' = list /\ cur' = cur
    BY <1>3 DEF thread_check_priority, KeepCPU
  <2>2. list # <<>> => pri[Head(list)] <= pri[cur]
    <3>1. list # <<>> => Head(list) \in Threads
      BY HeadTailProperties
    <3> QED
      BY <1>1, <1>3, <3>1 DEF Outranked
  <2>3. \A t \in ToSet(list) : pri[t] <= pri[cur]
    BY <2>2, KeptOrder
  <2>4. cur # Idle
    BY ObjectsAssumption
  <2> QED
    BY <2>1, <2>3, <2>4 DEF InOrder
<1> QED
  BY <1>2, <1>3

LEMMA OrderedNext ==
    ASSUME UNCHANGED priority, InOrder(ready_list', cur', priority)
    PROVE  PriorityOrder'
BY DEF InOrder, PriorityOrder, ReadySorted, RunningHighest, IdleWhenNothingReady

\* Where RunningHighest does not bind.
BeforeCheck == {"clear_holder", "up", "create_check"}

\* The running client goes on, where it is bound only if it was.
LEMMA StaysOrdered ==
    ASSUME PriorityOrder, UNCHANGED <<ready_list, cur, priority, in_external_intr>>,
           NEW t \in Threads, cur = t,
           frame'[t].pc \in BeforeCheck \/ frame[t].pc \notin BeforeCheck
    PROVE  PriorityOrder'
<1>1. t # Idle
  BY ObjectsAssumption
<1> QED
  BY <1>1 DEF PriorityOrder, ReadySorted, RunningHighest, IdleWhenNothingReady, BeforeCheck

\* It changes priorities of threads that are not ready, or comes to a place where
\* it is not bound.
LEMMA RepricedOrder ==
    ASSUME KernelInv, PriorityOrder, UNCHANGED <<ready_list, cur, in_external_intr>>,
           NEW t \in Threads, cur = t, \A u \in ToSet(ready_list) : priority'[u] = priority[u],
           \/ frame'[t].pc \in BeforeCheck
           \/ frame[t].pc \notin BeforeCheck /\ priority'[t] = priority[t]
    PROVE  PriorityOrder'
<1>1. t # Idle
  BY ObjectsAssumption
<1>2. ReadySorted'
  BY SortedUnder DEF PriorityOrder, ReadySorted, Less
<1> QED
  BY <1>1, <1>2 DEF PriorityOrder, RunningHighest, IdleWhenNothingReady, BeforeCheck

-----------------------------------------------------------------------------
(* The order is kept.                                                      *)

LEMMA CallOrder ==
    ASSUME "thread_set_priority" \notin Calls, KernelInv, LinksInv, PriorityOrder,
           NEW t \in Threads, ClientCall(t)
    PROVE  PriorityOrder'
<1>1. /\ cur = t /\ frame[t].pc \notin BeforeCheck /\ ready_list \in Seq(Threads)
      /\ priority \in [Tasks -> Priorities] /\ Sorted(ready_list, priority)
  BY CallFrames DEF KernelInv, TypeOK, CPUType, PriorityType, PriorityOrder, ReadySorted, BeforeCheck
<1>2. CASE CallYield(t)
  <2>1. thread_yield(ready_list, status, priority) /\ UNCHANGED priority
    BY <1>2 DEF CallYield, ThreadYield, priorityVars
  <2> QED
    BY <1>1, <2>1, YieldedOrder, OrderedNext
<1>3. CASE CallExit(t)
  <2>1. schedule(ready_list, [status EXCEPT ![t] = "dying"]) /\ UNCHANGED priority
    BY <1>3 DEF CallExit, ThreadExit, priorityVars
  <2> QED
    BY <1>1, <2>1, ScheduledOrder, OrderedNext
<1>4. CASE CallCreate(t)
  <2>1. PICK child \in Threads, pri \in NewPriorities : ThreadCreate(t, child, pri)
    BY <1>4 DEF CallCreate
  <2>2. Linked /\ status[child] = "free" /\ UNCHANGED <<ready_list, cur, in_external_intr>>
    BY <2>1, NowLinked DEF ThreadCreate
  <2>3. child # t /\ child \notin ToSet(ready_list)
    BY <1>1, <2>2 DEF Linked, Links, Linking
  <2>4. \A u \in Tasks : u # child => priority'[u] = priority[u]
    BY <1>1, <2>1 DEF ThreadCreate
  <2>5. ToSet(ready_list) \in SUBSET Threads
    BY <1>1, MembersType
  <2> QED
    BY <1>1, <2>2, <2>3, <2>4, <2>5, RepricedOrder
<1>5. CASE ~ (CallYield(t) \/ CallExit(t) \/ CallCreate(t) \/ CallSetPriority(t))
  <2>1. UNCHANGED <<ready_list, cur, in_external_intr>>
    BY <1>5 DEF ClientCall, CallSleep, TimerSleep,
       CallSemaDown, CallSemaUp, CallSemaTryDown, CallAcquire, CallTryAcquire, CallRelease,
       CallCondWait, CallCondSignal, CallCondBroadcast, SemaCall, SemaTryDown, LockAcquire,
       LockTryAcquire, LockRelease, CondWait, CondSignal, CondBroadcast, schedVars, cpuVars
  <2>2. UNCHANGED priority
    BY <1>5, CallPriorities DEF priorityVars
  <2> QED
    BY <1>1, <2>1, <2>2, StaysOrdered
<1> QED
  BY <1>2, <1>3, <1>4, <1>5, NoSetPriority

\* A donation reaches a ready thread, which it lifts to the running one's place.
LEMMA DonateOrder ==
    ASSUME KernelInv, LinksInv, HoldersOK, BaseOK, PriorityOrder, NEW t \in Threads, Donate(t)
    PROVE  PriorityOrder'
<1>1. /\ cur = t /\ frame[t].pc = "donate" /\ ~ in_external_intr /\ UNCHANGED in_external_intr
      /\ frame[t].dlock \in Locks /\ t # Idle
      /\ ready_list \in Seq(Threads) /\ priority \in [Tasks -> Priorities] /\ PRI_MAX \in Nat
      /\ original_priority \in [Tasks -> Priorities]
  BY ObjectsAssumption, NumbersAssumption DEF Donate, At, KernelInv, FramesOK, FrameShape, TypeOK,
     CPUType, PriorityType
<1>2. CASE UNCHANGED priorityVars /\ UNCHANGED <<ready_list, cur, frame>>
  BY <1>1, <1>2, StaysOrdered DEF priorityVars, BeforeCheck
<1>3. ASSUME NEW h \in Threads, holder[frame[t].dlock] = h, DonateStep(t, h),
             priority' = [priority EXCEPT ![h] = Boosted(t, h)]
      PROVE  PriorityOrder'
  <2>1. /\ frame[h].pc \in HoldingPlaces /\ HolderOK(h)
        /\ status[h] \in {"ready", "blocked", "running"} /\ h \notin Unborn
    BY <1>1, <1>3 DEF HoldersOK, HolderOK, LinksInv, HoldersLive, Unborn
  <2>2. h # t /\ h \in Tasks
    BY <1>1, <2>1 DEF HoldingPlaces
  <2>3. wait_for_lock[h] = NULL
    BY <2>1 DEF HolderOK, HoldingPlaces
  <2>4. Linked /\ LinkedOnce
    BY NowLinked
  <2>5. h \in ToSet(ready_list)
    <3>1. status[h] # "running"
      BY <1>1, <2>2, <2>4 DEF Linked, Links, Linking
    <3>2. h \in ToSet(ready_list) \/ h \in ToSet(wait_list) \/ \E r \in Semaphores : h \in WaitersOf[r]
      BY <2>1, <2>4, <3>1 DEF Linked, Links, Linking
    <3>3. h \notin ToSet(wait_list)
      BY <2>1 DEF HoldingPlaces, LinksInv, ListsOK
    <3>4. \A r \in Semaphores : WaitersOf[r] = ToSet(waiters[r])
      BY DEF WaitersOf
    <3>5. \A r \in Semaphores : h \notin WaitersOf[r]
      BY <2>1, <3>4 DEF HoldingPlaces, LinksInv, ListsOK
    <3> QED
      BY <3>2, <3>3, <3>5
  <2>6. \A u \in ToSet(ready_list) : priority[u] <= priority[t]
    BY <1>1 DEF PriorityOrder, RunningHighest
  <2>7. Boosted(t, h) \in Priorities /\ Boosted(t, h) <= priority[t]
    <3>1. Boosted(t, h) \in {priority[h], priority[t], original_priority[h]}
      BY <2>2, BoostedValue DEF KernelInv, TypeOK
    <3>2. priority[h] <= priority[t] /\ original_priority[h] <= priority[h]
      BY <2>5, <2>6 DEF BaseOK
    <3> QED
      BY <1>1, <2>2, <3>1, <3>2
  <2> DEFINE rest == list_remove(ready_list, h)
  <2>8. /\ rest \in Seq(Threads) /\ ToSet(rest) = ToSet(ready_list) \ {h} /\ Sorted(rest, priority)
    BY <1>1, <2>4, RemoveType, RemoveUnique, RemoveKeepsSorted
       DEF LinkedOnce, PriorityOrder, ReadySorted
  <2>9. \A u \in Tasks : u # h => priority'[u] = priority[u]
    BY <1>1, <1>3
  <2>10. priority' \in [Tasks -> Priorities] /\ \A u \in Threads : priority'[u] \in Int
    <3>1. priority' \in [Tasks -> Priorities]
      BY <1>1, <1>3, <2>7
    <3> QED
      BY <1>1, <3>1
  <2>11. ready_list' = list_insert_ordered(rest, h, priority') /\ cur' = cur
    BY <1>3, <2>3 DEF DonateStep
  <2> HIDE DEF rest
  <2>12. ToSet(rest) \in SUBSET Threads
    BY <2>8, MembersType
  <2>13. Sorted(rest, priority')
    BY <2>8, <2>9, <2>12, SortedUnder DEF Less
  <2>14. Sorted(ready_list', priority')
    BY <2>8, <2>10, <2>11, <2>13, InsertKeepsSorted
  <2>15. ToSet(ready_list') = ToSet(ready_list)
    <3>1. IsInjective(rest)
      BY <1>1, <2>4, RemoveUnique DEF rest, LinkedOnce
    <3>2. ToSet(ready_list') = ToSet(rest) \cup {h}
      BY <2>8, <2>10, <2>11, <3>1, InsertUnique
    <3> QED
      BY <2>5, <2>8, <3>2
  <2>16. \A u \in ToSet(ready_list') : priority'[u] <= priority'[t]
    <3>1. priority'[t] = priority[t] /\ priority'[h] <= priority[t]
      BY <1>1, <1>3, <2>2, <2>7, <2>9
    <3>2. ToSet(ready_list) \in SUBSET Threads
      BY <1>1, MembersType
    <3> QED
      BY <2>6, <2>9, <2>15, <3>1, <3>2
  <2> QED
    BY <1>1, <2>11, <2>14, <2>16 DEF PriorityOrder, ReadySorted, RunningHighest, IdleWhenNothingReady
<1>4. CASE holder[frame[t].dlock] = NULL
  BY <1>2, <1>4 DEF Donate, Crash, cpuVars
<1>5. CASE holder[frame[t].dlock] # NULL
  <2>1. PICK h \in Threads : holder[frame[t].dlock] = h
    BY <1>1, <1>5 DEF KernelInv, TypeOK, LockType
  <2>2. DonateStep(t, h)
    BY <1>5, <2>1 DEF Donate
  <2>3. priority' = [priority EXCEPT ![h] = Boosted(t, h)]
    BY <2>2 DEF DonateStep
  <2> QED
    BY <1>3, <2>1, <2>2, <2>3
<1> QED
  BY <1>4, <1>5

LEMMA UpOrder ==
    ASSUME KernelInv, LinksInv, PriorityOrder, NEW t \in Threads, SemaUp(t)
    PROVE  PriorityOrder'
<1>1. /\ cur = t /\ frame[t].sema \in Semaphores /\ ready_list \in Seq(Threads)
      /\ priority \in [Tasks -> Priorities] /\ Sorted(ready_list, priority)
      /\ UNCHANGED priority /\ \A u \in Threads : priority[u] \in Int
  BY NumbersAssumption DEF SemaUp, At, KernelInv, FramesOK, FrameShape, TypeOK, CPUType, PriorityType,
     PriorityOrder, ReadySorted, priorityVars
<1>2. PICK s \in Semaphores : s = frame[t].sema
  BY <1>1
<1>3. thread_check_priority(WokenList(s), WokenStatus(s), priority)
  BY <1>2 DEF SemaUp
<1>4. WokenList(s) \in Seq(Threads) /\ Sorted(WokenList(s), priority)
  <2>1. CASE Wakes(s)
    <3>1. FirstWaiter(s) \in Threads
      BY <2>1, WaitersType DEF Wakes, KernelInv, TypeOK
    <3> QED
      BY <1>1, <2>1, <3>1, InsertOrderedType, InsertKeepsSorted DEF WokenList, UnblockedList
  <2>2. CASE ~ Wakes(s)
    BY <1>1, <2>2 DEF WokenList
  <2> QED
    BY <2>1, <2>2
<1> QED
  BY <1>1, <1>3, <1>4, CheckedOrder, OrderedNext

LEMMA StepOrder ==
    ASSUME KernelInv, LinksInv, HoldersOK, BaseOK, PriorityOrder, NEW t \in Threads, KernelStep(t)
    PROVE  PriorityOrder'
<1>1. /\ cur = t /\ ready_list \in Seq(Threads) /\ \A u \in Threads : priority[u] \in Int
      /\ priority \in [Tasks -> Priorities] /\ Sorted(ready_list, priority) /\ t # Idle
      /\ frame \in [Tasks -> FrameType] /\ frame[t] \in FrameType
  BY StepFrames, ObjectsAssumption, NumbersAssumption DEF KernelInv, TypeOK, CPUType, PriorityType,
     ControlType, PriorityOrder, ReadySorted
<1>2. CASE CreateUnblock(t)
  <2>1. /\ frame[t].child \in Threads /\ UNCHANGED <<cur, priority>>
        /\ ready_list' = UnblockedList(frame[t].child) /\ frame'[t].pc = "create_check"
    BY <1>1, <1>2 DEF CreateUnblock, At, KernelInv, FramesOK, FrameShape, KeepCPU, priorityVars,
       Goto, FrameType
  <2>2. Sorted(ready_list', priority)
    BY <1>1, <2>1, InsertKeepsSorted DEF UnblockedList
  <2> QED
    BY <1>1, <2>1, <2>2 DEF PriorityOrder, ReadySorted, RunningHighest, IdleWhenNothingReady
<1>3. CASE CreateCheck(t)
  <2>1. thread_check_priority(ready_list, status, priority) /\ UNCHANGED priority
    BY <1>3 DEF CreateCheck, priorityVars
  <2> QED
    BY <1>1, <2>1, CheckedOrder, OrderedNext
<1>4. CASE SleepInsert(t) \/ (SemaDownWait(t, frame[t].sema) /\ SemaDown(t))
  <2>1. schedule(ready_list, [status EXCEPT ![cur] = "blocked"]) /\ UNCHANGED priority
    BY <1>4 DEF SleepInsert, SemaDown, SemaDownWait, thread_block, priorityVars
  <2> QED
    BY <1>1, <2>1, ScheduledOrder, OrderedNext
<1>5. CASE SemaUp(t)
  BY <1>5, UpOrder
<1>6. CASE Donate(t)
  BY <1>6, DonateOrder
<1>7. CASE Unlist(t)
  <2>1. CASE UNCHANGED <<cpuVars, priorityVars, frame, in_external_intr>>
    BY <1>1, <1>7, <2>1, StaysOrdered DEF Unlist, At, cpuVars, priorityVars, BeforeCheck
  <2>2. CASE ~ UNCHANGED <<cpuVars, priorityVars, frame, in_external_intr>>
    <3>1. /\ Goto(t, "clear_holder") /\ UNCHANGED <<cpuVars, in_external_intr>>
      BY <1>7, <2>2 DEF Unlist, Crash
    <3>2. frame'[t].pc = "clear_holder" /\ UNCHANGED <<ready_list, cur>>
      BY <1>1, <3>1 DEF Goto, FrameType, cpuVars
    <3>3. t \notin ToSet(ready_list)
      BY <1>1, NowLinked DEF Linked, Links, Linking
    <3>4. \A u \in Tasks : u # t => priority'[u] = priority[u]
      <4>1. CASE UNCHANGED priorityVars
        BY <4>1 DEF priorityVars
      <4>2. CASE ~ UNCHANGED priorityVars
        <5>1. PICK p : priority' = [priority EXCEPT ![t] = p]
          BY <1>7, <4>2, UnlistPriorities
        <5> QED
          BY <1>1, <5>1
      <4> QED
        BY <4>1, <4>2
    <3>5. ToSet(ready_list) \in SUBSET Threads
      BY <1>1, MembersType
    <3> QED
      BY <1>1, <3>1, <3>2, <3>3, <3>4, <3>5, RepricedOrder DEF BeforeCheck
  <2> QED
    BY <2>1, <2>2
<1>8. CASE ClearHolder(t)
  <2>1. frame'[t].pc = "up"
    BY <1>1, <1>8 DEF ClearHolder, FrameType
  <2> QED
    BY <1>1, <1>8, <2>1, StaysOrdered DEF ClearHolder, cpuVars, priorityVars, BeforeCheck
<1>9. CASE \/ SleepReturn(t) \/ (SemaDownTake(t, frame[t].sema) /\ SemaDown(t))
           \/ CheckHolder(t) \/ MarkWaiting(t) \/ DonateStop(t) \/ Take(t)
           \/ TryTake(t) \/ BroadcastNext(t)
  <2>1. frame[t].pc \notin BeforeCheck
    BY <1>9 DEF SleepReturn, SemaDown, CheckHolder, MarkWaiting, DonateStop, Take, TryTake,
       BroadcastNext, At, BeforeCheck
  <2>2. UNCHANGED <<ready_list, cur, priority, in_external_intr>>
    BY <1>9 DEF SleepReturn, SemaDown, SemaDownTake, CheckHolder, MarkWaiting, DonateStop,
       Take, TryTake, BroadcastNext, cpuVars, priorityVars
  <2> QED
    BY <1>1, <2>1, <2>2, StaysOrdered
<1>10. SemaDown(t) => SemaDownWait(t, frame[t].sema) \/ SemaDownTake(t, frame[t].sema)
  BY DEF SemaDown
<1> QED
  BY <1>2, <1>3, <1>4, <1>5, <1>6, <1>7, <1>8, <1>9, <1>10
     DEF KernelStep, SchedStep, SleepStep, SynchStep

LEMMA InterruptOrder ==
    ASSUME DeviceSemas = {}, KernelInv, LinksInv, PriorityOrder,
           IdleStep \/ Tick \/ Handler \/ Device
    PROVE  PriorityOrder'
<1>1. /\ cur \in Tasks /\ ready_list \in Seq(Threads) /\ \A u \in Tasks : priority[u] \in Int
      /\ priority \in [Tasks -> Priorities] /\ Sorted(ready_list, priority)
      /\ frame \in [Tasks -> FrameType]
  BY NumbersAssumption DEF KernelInv, TypeOK, CPUType, PriorityType,
     ControlType, PriorityOrder, ReadySorted
<1>2. UNCHANGED priority
  BY InterruptPriorities DEF priorityVars
<1>3. CASE IdleStep
  <2>1. schedule(ready_list, [status EXCEPT ![cur] = "blocked"])
    BY <1>3 DEF IdleStep, IdleBlock, thread_block
  <2> QED
    BY <1>1, <1>2, <2>1, ScheduledOrder, OrderedNext
<1>4. CASE Tick
  BY <1>4 DEF Tick, TimerInterrupt, cpuVars, priorityVars, PriorityOrder, ReadySorted,
     RunningHighest, IdleWhenNothingReady
<1>5. CASE TimerWakeUp
  <2>1. Last(wait_list) \in Threads
    BY <1>5, FrontLastType DEF TimerWakeUp, Due, KernelInv, TypeOK, AlarmType
  <2>2. ready_list' = UnblockedList(Last(wait_list)) /\ in_external_intr'
    BY <1>5 DEF TimerWakeUp, KeepCPU
  <2>3. Sorted(ready_list', priority)
    BY <1>1, <2>1, <2>2, InsertKeepsSorted DEF UnblockedList
  <2> QED
    BY <1>2, <2>2, <2>3 DEF PriorityOrder, ReadySorted, RunningHighest, IdleWhenNothingReady
<1>6. CASE TimerReturn
  <2>1. CASE SliceOver \/ Outranked(ready_list, priority)
    <3>1. thread_yield(ready_list, status, priority)
      BY <1>6, <2>1 DEF TimerReturn
    <3> QED
      BY <1>1, <1>2, <3>1, YieldedOrder, OrderedNext
  <2>2. CASE ~ (SliceOver \/ Outranked(ready_list, priority))
    <3>1. UNCHANGED <<cur, ready_list>> /\ frame' = AfterInterrupt
      BY <1>6, <2>2 DEF TimerReturn
    <3>2. ready_list # <<>> => priority[Head(ready_list)] <= priority[cur]
      <4>1. ready_list # <<>> => Head(ready_list) \in Threads
        BY <1>1, HeadTailProperties
      <4> QED
        BY <1>1, <2>2, <4>1 DEF Outranked
    <3>3. \A u \in ToSet(ready_list) : priority[u] <= priority[cur]
      BY <1>1, <3>2, KeptOrder
    <3>4. cur = Idle => frame'[Idle].pc # "hlt"
      BY <1>1, <3>1 DEF AfterInterrupt, FrameType
    <3> QED
      BY <1>1, <1>2, <3>1, <3>3, <3>4 DEF PriorityOrder, ReadySorted, RunningHighest, IdleWhenNothingReady
  <2> QED
    BY <2>1, <2>2
<1>7. ~ Device
  BY DEF Device
<1> QED
  BY <1>3, <1>4, <1>5, <1>6, <1>7 DEF Handler

LEMMA InitOrder == Init => PriorityOrder
<1> SUFFICES ASSUME Init PROVE PriorityOrder
  OBVIOUS
<1>1. /\ ready_list = BootList /\ cur = Main /\ Main # Idle
      /\ \A t \in Threads : priority[t] = InitPriority[t]
  BY ObjectsAssumption DEF Init, SchedInit
<1>2. /\ BootList \in Seq(Threads) /\ InitPriority \in [Threads -> Priorities] /\ Main \in Threads
      /\ \A i \in DOMAIN BootList : InitPriority[BootList[i]] <= InitPriority[Main]
  BY BootAssumption, ObjectsAssumption
<1>3. \A i \in DOMAIN BootList : BootList[i] \in Threads
  BY <1>2
<1>4. Sorted(BootList, priority)
  BY <1>1, <1>3, BootAssumption DEF Sorted, Less
<1>5. \A t \in ToSet(BootList) : priority[t] <= priority[Main]
  BY <1>1, <1>2, <1>3 DEF ToSet
<1> QED
  BY <1>1, <1>4, <1>5 DEF PriorityOrder, ReadySorted, RunningHighest, IdleWhenNothingReady

-----------------------------------------------------------------------------

\* The ready list is in order and nobody in it outranks the running thread, for
\* clients that never change their priority and keep going while they hold a lock,
\* and while no device ups a semaphore.
THEOREM CPUGoesByPriority ==
    ASSUME HoldersKeepGoing, "thread_set_priority" \notin Calls, DeviceSemas = {}
    PROVE  Spec => []PriorityOrder
<1>1. KernelInv /\ LinksInv /\ HoldersOK /\ BaseOK /\ PriorityOrder /\ [Next]_vars
        => PriorityOrder'
  <2> SUFFICES ASSUME KernelInv, LinksInv, HoldersOK, BaseOK, PriorityOrder, [Next]_vars
               PROVE  PriorityOrder'
    OBVIOUS
  <2>1. CASE UNCHANGED vars
    BY <2>1 DEF vars, schedVars, cpuVars, priorityVars, PriorityOrder, ReadySorted, RunningHighest,
       IdleWhenNothingReady
  <2> QED
    BY <2>1, CallOrder, StepOrder, InterruptOrder DEF Next, CPU, Halted
<1>2. Spec => []HoldersOK
  BY HoldersOKHolds
<1>3. Spec => []BaseOK
  BY BaseOKHolds
<1> QED
  BY <1>1, <1>2, <1>3, InitOrder, LinksInvHolds, PTL DEF Spec

-----------------------------------------------------------------------------
(* Who is woken from a lock.                                               *)

\* A thread that has not been started yet is in none of the kernel's code.
NewInUser == \A t \in Unborn : frame[t].pc = "user"

LEMMA RunningLives ==
    ASSUME KernelInv, LinksInv, NEW t \in Threads, cur = t
    PROVE  t \notin Unborn /\ ~ Gone(t)
BY NowLinked DEF Linked, Links, Linking, Gone

LEMMA NewInUserHolds == Spec => []NewInUser
<1>1. Init => NewInUser
  <2> SUFFICES ASSUME Init PROVE NewInUser
    OBVIOUS
  <2>1. \A t \in Threads : frame[t].pc = "user"
    BY ObjectsAssumption DEF Init, SchedInit, UserFrame, FrameAt
  <2> QED
    BY <2>1 DEF NewInUser, Unborn
<1>2. KernelInv /\ CallsOK /\ LinksInv /\ NewInUser /\ [Next]_vars => NewInUser'
  <2> SUFFICES ASSUME KernelInv, CallsOK, LinksInv, NewInUser, [Next]_vars PROVE NewInUser'
    OBVIOUS
  <2>1. /\ \A u \in Threads : Gone(u) => frame[u].pc = "user"
        /\ Unborn \in SUBSET Threads /\ Unborn' \in SUBSET Threads
    BY DEF KernelInv, GoneFromKernel, Unborn
  <2>2. CASE UNCHANGED vars
    BY <2>2 DEF vars, schedVars, NewInUser, Unborn, Unstarted
  <2>3. ASSUME NEW t \in Threads, ClientCall(t) PROVE NewInUser'
    <3>1. /\ cur = t
          /\ \A u \in Threads : u = t \/ frame'[u] = frame[u] \/ frame'[u].pc = "user"
          /\ \A u \in Unborn' : u \in Unborn \/ Gone(u)
      BY <2>3, CallFrames, CallRelinks DEF KernelInv
    <3>2. t \notin Unborn /\ ~ Gone(t)
      BY <3>1, RunningLives
    <3> QED
      BY <2>1, <3>1, <3>2 DEF NewInUser
  <2>4. ASSUME NEW t \in Threads, KernelStep(t) PROVE NewInUser'
    <3>1. cur = t /\ (\A u \in Threads : u # t => frame'[u] = frame[u]) /\ Unborn' \subseteq Unborn
      BY <2>4, StepFrames, StepRelinks DEF KernelInv
    <3>2. t \notin Unborn
      BY <3>1, RunningLives
    <3> QED
      BY <2>1, <3>1, <3>2 DEF NewInUser
  <2>5. CASE IdleStep \/ Tick \/ Handler \/ Device
    <3>1. (\A u \in Threads : frame'[u] = frame[u]) /\ Unborn' = Unborn
      BY <2>5, InterruptFrames, InterruptLinks DEF KernelInv
    <3> QED
      BY <2>1, <3>1 DEF NewInUser
  <2> QED
    BY <2>2, <2>3, <2>4, <2>5 DEF Next, CPU, Halted
<1> QED
  BY <1>1, <1>2, LinksInvHolds, PTL DEF Spec

\* A thread that is inside the kernel, does not run and is linked in no other list
\* is ready.
LEMMA InReadyList ==
    ASSUME KernelInv, LinksInv, NewInUser, NEW u \in Threads, u # cur,
           frame[u].pc \notin {"user", "sleep_blocked"},
           \A s \in Semaphores : u \notin ToSet(waiters[s])
    PROVE  u \in ToSet(ready_list)
<1>1. status \in [Tasks -> Statuses] /\ ~ Gone(u) /\ u \notin Unborn /\ u \notin ToSet(wait_list)
  BY DEF KernelInv, TypeOK, CPUType, GoneFromKernel, NewInUser, LinksInv, ListsOK
<1>2. \A s \in Semaphores : WaitersOf[s] = ToSet(waiters[s])
  BY DEF WaitersOf
<1> QED
  BY <1>1, <1>2, NowLinked DEF Linked, Links, Linking, Gone, Statuses

-----------------------------------------------------------------------------
(* Whose priority changes.                                                 *)

\* A call sets the priority of a new thread.
LEMMA CallPrices ==
    ASSUME "thread_set_priority" \notin Calls, KernelInv, NEW t \in Threads, ClientCall(t),
           NEW u \in Threads, status[u] # "free"
    PROVE  priority'[u] = priority[u]
<1>1. CASE CallCreate(t)
  BY <1>1 DEF CallCreate, ThreadCreate, KernelInv, TypeOK, PriorityType
<1>2. CASE ~ CallCreate(t)
  BY <1>2, CallPriorities, NoSetPriority DEF priorityVars
<1> QED
  BY <1>1, <1>2

\* A step raises the priority of a holder, or gives up a thread's own donations.
LEMMA StepPrices ==
    ASSUME KernelInv, HoldersOK, NEW t \in Threads, KernelStep(t), NEW u \in Threads
    PROVE  /\ frame[u].pc \notin HoldingPlaces => priority'[u] = priority[u]
           /\ ~ Unlist(t) \/ u # t => priority'[u] >= priority[u]
<1>1. /\ priority \in [Tasks -> Priorities] /\ PRI_MAX \in Nat /\ TypeOK
      /\ original_priority \in [Tasks -> Priorities]
  BY NumbersAssumption DEF KernelInv, TypeOK, PriorityType
<1>2. CASE UNCHANGED priorityVars
  BY <1>1, <1>2 DEF priorityVars
<1>3. CASE Donate(t) /\ ~ UNCHANGED priorityVars
  <2>1. PICK h \in Threads : /\ holder[frame[t].dlock] = h
                             /\ priority' = [priority EXCEPT ![h] = Boosted(t, h)]
    BY <1>3, DonatePriorities
  <2>2. frame[t].dlock \in Locks
    BY <1>3 DEF Donate, At, KernelInv, FramesOK, FrameShape
  <2>3. frame[h].pc \in HoldingPlaces
    BY <2>1, <2>2 DEF HoldersOK, HolderOK
  <2>4. Boosted(t, h) >= priority[h]
    BY <1>1, BoostedValue DEF TypeOK
  <2> QED
    BY <1>1, <1>3, <2>1, <2>3, <2>4 DEF Donate, Unlist, At
<1>4. CASE Unlist(t) /\ ~ UNCHANGED priorityVars
  <2>1. PICK p : priority' = [priority EXCEPT ![t] = p]
    BY <1>4, UnlistPriorities
  <2>2. frame[t].pc \in HoldingPlaces
    BY <1>4 DEF Unlist, At, HoldingPlaces
  <2> QED
    BY <1>1, <1>4, <2>1, <2>2
<1> QED
  BY <1>2, <1>3, <1>4, StepPriorities

-----------------------------------------------------------------------------
(* The best of the waiters is woken.                                       *)

FirstOK(l) == value[l] = 1 /\ waiters[l] # <<>> => BestWoken(l)

LEMMA FirstKept ==
    ASSUME KernelInv, KernelInv', LinksInv, NEW l \in Locks, FirstOK(l), NEW x,
           BlockedOn(l)' = BlockedOn(l), value'[l] <= value[l],
           ToSet(waiters'[l]) \in {ToSet(waiters[l]), ToSet(waiters[l]) \ {x}},
           \A u \in BlockedOn(l) : priority'[u] = priority[u]
    PROVE  FirstOK(l)' /\ x = x
<1> SUFFICES ASSUME value'[l] = 1, waiters'[l] # <<>> PROVE BestWoken(l)'
  BY DEF FirstOK
<1>1. l \in Semaphores /\ TypeOK /\ TypeOK'
  BY DEF Semaphores, KernelInv
<1>2. value[l] = 1
  BY <1>1 DEF KernelInv, Ownership, UpWhenFree
<1>3. /\ Woken(l) = BlockedOn(l) \ ToSet(waiters[l])
      /\ Woken(l)' = BlockedOn(l)' \ ToSet(waiters'[l])
      /\ ToSet(waiters[l]) \in SUBSET Threads
  BY <1>1, WokenMembers, WokenMembersNext, MembersType DEF TypeOK, SemaType
<1>4. ToSet(waiters[l]) \subseteq BlockedOn(l)
  BY <1>1, <1>3 DEF LinksInv, ListsOK, BlockedOn
<1>5. waiters[l] # <<>>
  <2>1. waiters'[l] \in Seq(Threads)
    BY <1>1 DEF TypeOK, SemaType
  <2>2. ToSet(waiters'[l]) # {}
    BY <2>1, FrontLastUnique
  <2>3. ToSet(<<>>) = {}
    BY DEF ToSet
  <2> QED
    BY <2>2, <2>3
<1>6. PICK w \in Woken(l) : \A t \in ToSet(waiters[l]) : priority[w] >= priority[t]
  BY <1>2, <1>5 DEF FirstOK, BestWoken
<1>7. w \in Woken(l)' /\ \A t \in ToSet(waiters'[l]) : priority'[w] >= priority'[t]
  BY <1>3, <1>4, <1>6
<1> QED
  BY <1>7 DEF BestWoken

LEMMA CallFirst ==
    ASSUME "thread_set_priority" \notin Calls, KernelInv, KernelInv', LinksInv, FirstWoken,
           NEW t \in Threads, ClientCall(t)
    PROVE  FirstWoken'
<1> SUFFICES ASSUME NEW l \in Locks PROVE FirstOK(l)'
  BY DEF FirstWoken, FirstOK
<1>1. l \in Semaphores /\ FirstOK(l)
  BY DEF Semaphores, FirstWoken, FirstOK
<1>2. /\ BlockedOn(l)' = BlockedOn(l) /\ value'[l] <= value[l]
      /\ ToSet(waiters'[l]) = ToSet(waiters[l])
  BY <1>1, CallBlocked, CallWaiters
<1>3. \A u \in BlockedOn(l) : priority'[u] = priority[u]
  <2>1. \A u \in BlockedOn(l) : u \in Threads /\ status[u] # "free"
    BY DEF BlockedOn, KernelInv, GoneFromKernel, Gone
  <2> QED
    BY <2>1, CallPrices
<1> QED
  BY <1>1, <1>2, <1>3, FirstKept

LEMMA DownFirst ==
    ASSUME KernelInv, KernelInv', LinksInv, FirstWoken, NEW t \in Threads, SemaDown(t)
    PROVE  FirstWoken'
<1> SUFFICES ASSUME NEW l \in Locks PROVE FirstOK(l)'
  BY DEF FirstWoken, FirstOK
<1>1. l \in Semaphores /\ FirstOK(l)
  BY DEF Semaphores, FirstWoken, FirstOK
<1>2. /\ frame \in [Tasks -> FrameType] /\ frame[t] \in FrameType
      /\ frame[t].pc \in {"down", "down_blocked"}
      /\ frame[t].sema \in Semaphores /\ value \in [Semaphores -> Nat]
      /\ waiters \in [Semaphores -> Seq(Threads)] /\ UNCHANGED priority
      /\ SemaDownWait(t, frame[t].sema) \/ SemaDownTake(t, frame[t].sema)
  BY DEF SemaDown, At, KernelInv, FramesOK, FrameShape, TypeOK, ControlType, SemaType, priorityVars
<1>3. CASE l = frame[t].sema
  <2>1. value[l] <= 1
    BY <1>1 DEF KernelInv, Ownership, UpWhenFree
  <2>2. value'[l] = 0
    BY <1>1, <1>2, <1>3, <2>1 DEF SemaDownWait, SemaDownTake
  <2> QED
    BY <2>2 DEF FirstOK
<1>4. CASE l # frame[t].sema
  <2>1. value'[l] = value[l] /\ waiters'[l] = waiters[l]
    BY <1>1, <1>2, <1>4 DEF SemaDownWait, SemaDownTake
  <2>2. frame'[t].pc # "down_blocked" \/ frame'[t].sema = frame[t].sema
    BY <1>2, AfterPcs DEF SemaDownWait, SemaDownTake, Goto, FrameType
  <2>3. \A u \in Threads : u # t => frame'[u] = frame[u]
    BY <1>2 DEF SemaDownWait, SemaDownTake, Goto
  <2>4. BlockedOn(l)' = BlockedOn(l)
    BY <1>2, <1>4, <2>2, <2>3 DEF BlockedOn
  <2>5. value'[l] <= value[l]
    BY <1>1, <1>2, <2>1
  <2> QED
    BY <1>1, <1>2, <2>1, <2>4, <2>5, FirstKept
<1> QED
  BY <1>3, <1>4

\* sema_up() wakes the first of the waiters in order.
LEMMA UpFirst ==
    ASSUME KernelInv, KernelInv', LinksInv, FirstWoken, NEW t \in Threads, SemaUp(t),
           KernelStep(t)
    PROVE  FirstWoken'
<1> SUFFICES ASSUME NEW l \in Locks PROVE FirstOK(l)'
  BY DEF FirstWoken, FirstOK
<1>1. l \in Semaphores /\ FirstOK(l)
  BY DEF Semaphores, FirstWoken, FirstOK
<1>2. /\ frame[t].sema \in Semaphores /\ value \in [Semaphores -> Nat]
      /\ waiters \in [Semaphores -> Seq(Threads)] /\ UNCHANGED priority
      /\ SemaRaise(frame[t].sema) /\ frame[t].pc = "up"
      /\ \A u \in Threads : priority[u] \in Int
  BY NumbersAssumption DEF SemaUp, At, KernelInv, FramesOK, FrameShape, TypeOK, SemaType,
     PriorityType, priorityVars
<1>3. BlockedOn(l)' = BlockedOn(l)
  <2>1. ~ SemaDown(t)
    BY <1>2 DEF SemaDown, At
  <2> QED
    BY <2>1, StepBlocked
<1>4. CASE l # frame[t].sema
  <2>1. value'[l] = value[l] /\ waiters'[l] = waiters[l]
    BY <1>1, <1>2, <1>4 DEF SemaRaise
  <2>2. value'[l] <= value[l]
    BY <1>1, <1>2, <2>1
  <2> QED
    BY <1>1, <1>2, <1>3, <2>1, <2>2, FirstKept
<1>5. CASE l = frame[t].sema /\ ~ Wakes(l)
  BY <1>1, <1>2, <1>5 DEF SemaRaise, FirstOK, Wakes
<1>6. CASE l = frame[t].sema /\ Wakes(l)
  <2> DEFINE list == list_sort(waiters[l], priority)
             w == Head(list)
  <2>1. /\ waiters[l] \in Seq(Threads) /\ waiters[l] # <<>> /\ IsInjective(waiters[l])
        /\ waiters'[l] = Tail(list)
    BY <1>1, <1>2, <1>6, NowLinked DEF SemaRaise, Wakes, LinkedOnce
  <2>2. /\ list \in Seq(Threads) /\ list # <<>> /\ Sorted(list, priority)
        /\ ToSet(list) = ToSet(waiters[l]) /\ IsInjective(list)
    <3>1. list \in Seq(Threads) /\ Len(list) = Len(waiters[l])
      BY <1>2, <2>1, SortType
    <3>2. Len(waiters[l]) # 0
      BY <2>1, EmptySeq
    <3> QED
      BY <1>2, <2>1, <3>1, <3>2, SortSorts, SortKeeps
  <2> HIDE DEF list
  <2>3. /\ w \in ToSet(list) /\ ToSet(Tail(list)) = ToSet(list) \ {w}
        /\ \A e \in ToSet(list) : priority[e] <= priority[w]
        /\ w \in Threads /\ ToSet(list) \in SUBSET Threads
    BY <1>2, <2>2, PopFrontUnique, SortedHead, MembersType
  <2> HIDE DEF w
  <2>4. w \in BlockedOn(l)
    BY <1>1, <2>2, <2>3 DEF LinksInv, ListsOK, BlockedOn
  <2>5. w \in Woken(l)'
    BY <1>1, <1>3, <2>1, <2>3, <2>4, WokenMembersNext DEF KernelInv
  <2>6. \A e \in ToSet(waiters'[l]) : priority'[w] >= priority'[e]
    BY <1>2, <2>1, <2>3
  <2> QED
    BY <2>5, <2>6 DEF FirstOK, BestWoken
<1> QED
  BY <1>4, <1>5, <1>6

LEMMA StepFirst ==
    ASSUME KernelInv, KernelInv', LinksInv, HoldersOK, FirstWoken, NEW t \in Threads,
           KernelStep(t)
    PROVE  FirstWoken'
<1>1. CASE ~ SemaDown(t) /\ ~ SemaUp(t)
  <2> SUFFICES ASSUME NEW l \in Locks PROVE FirstOK(l)'
    BY DEF FirstWoken, FirstOK
  <2>1. l \in Semaphores /\ FirstOK(l)
    BY DEF Semaphores, FirstWoken, FirstOK
  <2>2. PICK h : ToSet(waiters'[l]) \in {ToSet(waiters[l]), ToSet(waiters[l]) \ {h}}
    BY <1>1, <2>1, StepWaiters
  <2>3. BlockedOn(l)' = BlockedOn(l) /\ value'[l] <= value[l]
    BY <1>1, <2>1, StepBlocked, StepWaiters DEF KernelInv, TypeOK, SemaType
  <2>4. \A u \in BlockedOn(l) : priority'[u] = priority[u]
    <3>1. \A u \in BlockedOn(l) : u \in Threads /\ frame[u].pc \notin HoldingPlaces
      BY DEF BlockedOn, HoldingPlaces
    <3> QED
      BY <3>1, StepPrices
  <2> QED
    BY <2>1, <2>2, <2>3, <2>4, FirstKept
<1> QED
  BY <1>1, DownFirst, UpFirst

LEMMA InterruptFirst ==
    ASSUME DeviceSemas = {}, KernelInv, KernelInv', LinksInv, FirstWoken,
           IdleStep \/ Tick \/ Handler \/ Device
    PROVE  FirstWoken'
<1>1. UNCHANGED <<value, waiters, priority>>
  BY InterruptPriorities DEF Device, IdleStep, Tick, Handler, synchVars, semaVars, priorityVars
<1> SUFFICES ASSUME NEW l \in Locks PROVE FirstOK(l)'
  BY DEF FirstWoken, FirstOK
<1>2. l \in Semaphores /\ FirstOK(l)
  BY DEF Semaphores, FirstWoken, FirstOK
<1>3. BlockedOn(l)' = BlockedOn(l)
  BY InterruptBlocked
<1>4. value'[l] <= value[l]
  BY <1>1, <1>2 DEF KernelInv, TypeOK, SemaType
<1> QED
  BY <1>1, <1>2, <1>3, <1>4, FirstKept

LEMMA FirstWokenHolds ==
    ASSUME HoldersKeepGoing, "thread_set_priority" \notin Calls, DeviceSemas = {}
    PROVE  Spec => []FirstWoken
<1>1. Init => FirstWoken
  BY DEF Init, SynchInit, FirstWoken, Semaphores
<1>2. KernelInv /\ KernelInv' /\ LinksInv /\ HoldersOK /\ FirstWoken /\ [Next]_vars => FirstWoken'
  <2> SUFFICES ASSUME KernelInv, KernelInv', LinksInv, HoldersOK, FirstWoken, [Next]_vars
               PROVE  FirstWoken'
    OBVIOUS
  <2>1. CASE UNCHANGED vars
    BY <2>1 DEF vars, schedVars, priorityVars, synchVars, semaVars, FirstWoken, BestWoken, Woken
  <2> QED
    BY <2>1, CallFirst, StepFirst, InterruptFirst DEF Next, CPU, Halted
<1>3. Spec => []HoldersOK
  BY HoldersOKHolds
<1> QED
  BY <1>1, <1>2, <1>3, LinksInvHolds, KernelInvHolds, PTL DEF Spec

-----------------------------------------------------------------------------
(* Who comes to own a lock, and who comes to wait for it.                  *)

\* While a lock is up the running thread may take it: nobody that has donated to
\* the lock outranks it.
LEMMA RunnerOutranks ==
    ASSUME KernelInv, LinksInv, NewInUser, HoldersOK, FirstWoken, PriorityOrder,
           NEW t \in Threads, cur = t, ~ in_external_intr, frame[t].pc \notin BeforeCheck,
           NEW l \in Locks, value[l] > 0, NEW u \in Threads, Donated(u, l)
    PROVE  priority[u] <= priority[t]
<1>1. /\ l \in Semaphores /\ value[l] = 1 /\ l # NULL /\ t # Idle
      /\ priority \in [Tasks -> Priorities] /\ PRI_MAX \in Nat
      /\ waiters[l] \in Seq(Threads)
  <2>1. l \in Semaphores /\ l # NULL /\ t # Idle
    BY ObjectsAssumption DEF Semaphores
  <2>2. value[l] = 1
    BY DEF KernelInv, Ownership, UpWhenFree
  <2> QED
    BY <2>1, <2>2, NumbersAssumption DEF KernelInv, TypeOK, PriorityType, SemaType
<1>2. frame[u].pc \in {"down", "down_blocked"} /\ frame[u].sema = l
  <2>1. wait_for_lock[u] = l /\ frame[u].pc \in {"down", "down_blocked"} /\ HolderOK(u)
    BY DEF Donated, HoldersOK
  <2>2. l = frame[u].lock /\ frame[u].sema \in Locks
    BY <1>1, <2>1 DEF HolderOK
  <2>3. frame[u].lock = frame[u].sema
    BY <2>1, <2>2 DEF KernelInv, FramesOK, FrameShape
  <2> QED
    BY <2>1, <2>2, <2>3
<1>3. \A v \in ToSet(ready_list) : priority[v] <= priority[t]
  BY <1>1 DEF PriorityOrder, RunningHighest, BeforeCheck
<1>4. CASE u = t
  BY <1>1, <1>4
<1>5. CASE u # t /\ u \in ToSet(waiters[l])
  <2>1. waiters[l] # <<>>
    <3>1. ToSet(<<>>) = {}
      BY DEF ToSet
    <3> QED
      BY <1>5, <3>1
  <2>2. PICK w \in Woken(l) : \A v \in ToSet(waiters[l]) : priority[w] >= priority[v]
    BY <1>1, <2>1 DEF FirstWoken, BestWoken
  <2>3. w \in Threads /\ w \in BlockedOn(l) /\ w \notin ToSet(waiters[l])
    BY <1>1, <2>2, WokenMembers DEF KernelInv, BlockedOn
  <2>4. w # cur => w \in ToSet(ready_list)
    <3>1. frame[w].pc = "down_blocked" /\ frame[w].sema = l
      BY <2>3 DEF BlockedOn
    <3>2. \A s \in Semaphores : w \notin ToSet(waiters[s])
      BY <2>3, <3>1 DEF LinksInv, ListsOK
    <3> QED
      BY <2>3, <3>1, <3>2, InReadyList
  <2> QED
    BY <1>1, <1>3, <1>5, <2>2, <2>3, <2>4
<1>6. CASE u # t /\ u \notin ToSet(waiters[l])
  <2>1. \A s \in Semaphores : u \notin ToSet(waiters[s])
    BY <1>2, <1>6 DEF LinksInv, ListsOK
  <2> QED
    BY <1>2, <1>3, <1>6, <2>1, InReadyList
<1> QED
  BY <1>4, <1>5, <1>6

\* A call waits for no lock; lock_try_acquire() may take one.
LEMMA CallDonated ==
    ASSUME KernelInv, HoldersOK, NEW t \in Threads, ClientCall(t), NEW u \in Threads,
           NEW l \in Locks, Donated(u, l)'
    PROVE  Donated(u, l) /\ status[u] # "free"
<1>1. /\ cur = t /\ frame[t].pc = "user" /\ UNCHANGED wait_for_lock /\ l # NULL
      /\ \A v \in Threads : v # t => frame'[v] = frame[v] \/ frame'[v].pc = "user"
  BY CallFrames, CallWaits, ObjectsAssumption DEF KernelInv, Semaphores
<1>2. wait_for_lock[u] = l /\ frame'[u].pc \in {"down", "down_blocked"} /\ HolderOK(u)
  BY <1>1 DEF Donated, HoldersOK
<1>3. u # t
  BY <1>1, <1>2 DEF HolderOK
<1>4. Donated(u, l)
  BY <1>1, <1>2, <1>3 DEF Donated
<1> QED
  BY <1>4 DEF Donated, KernelInv, GoneFromKernel, Gone

LEMMA CallTaken ==
    ASSUME KernelInv, NEW t \in Threads, ClientCall(t), NEW h \in Threads,
           NEW l \in Locks, TakenBy(h, l)'
    PROVE  TakenBy(h, l) \/ (h = t /\ value[l] > 0)
<1>1. /\ cur = t /\ frame[t].pc = "user" /\ UNCHANGED holder /\ TypeOK
      /\ \A v \in Threads : \/ v = t \/ frame'[v] = frame[v]
                            \/ status[v] = "free" /\ frame'[v].pc = "user"
  BY CallFrames, CallMoves DEF KernelInv
<1>2. CASE holder[l] = h
  <2>1. h = t \/ frame'[h] = frame[h] \/ frame[h].pc = "user"
    BY <1>1 DEF KernelInv, GoneFromKernel, Gone
  <2> QED
    BY <1>1, <1>2, <2>1 DEF TakenBy
<1>3. CASE holder[l] # h /\ h # t
  BY <1>1, <1>3 DEF TakenBy
<1>4. CASE holder[l] # h /\ h = t
  <2>1. frame'[t].pc \in {"take", "try_take"} /\ frame'[t].lock = l
    BY <1>1, <1>4 DEF TakenBy
  <2>2. CallTryAcquire(t)
    BY <1>1, <2>1, CallPlace
  <2>3. PICK k \in Locks : LockTryAcquire(t, k)
    BY <2>2 DEF CallTryAcquire, ClientLocks
  <2>4. frame'[t] = LockFrame("try_take", k) /\ value[k] > 0
    BY <1>1, <2>3 DEF LockTryAcquire, TypeOK, ControlType
  <2>5. k = l
    BY <2>1, <2>4, LockFrameFields
  <2> QED
    BY <1>4, <2>4, <2>5
<1> QED
  BY <1>2, <1>3, <1>4

LEMMA StepDonated ==
    ASSUME PRI_DONATION_MAX_DEPTH > 1, KernelInv, HoldersOK, NEW t \in Threads, KernelStep(t),
           NEW u \in Threads, NEW l \in Locks, Donated(u, l)'
    PROVE  Donated(u, l) \/ (u = t /\ Donate(t))
<1>1. /\ cur = t /\ (\A v \in Threads : v # t => frame'[v] = frame[v]) /\ l # NULL /\ TypeOK
      /\ \A v \in Threads : v # t => wait_for_lock'[v] = wait_for_lock[v]
      /\ wait_for_lock'[u] = l /\ frame'[u].pc \in {"down", "down_blocked"}
      /\ frame \in [Tasks -> FrameType] /\ frame[t] \in FrameType /\ HolderOK(t)
      /\ wait_for_lock \in [Threads -> Locks \union {NULL}]
  BY StepFrames, StepWaits, ObjectsAssumption
     DEF KernelInv, Semaphores, Donated, TypeOK, ControlType, LockType, HoldersOK
<1>2. CASE u # t
  BY <1>1, <1>2 DEF Donated
<1> SUFFICES ASSUME u = t, ~ Donate(t) PROVE Donated(t, l)
  BY <1>2
<1>3. CASE MarkWaiting(t)
  <2>1. frame'[t].pc = "donate"
    BY <1>1, <1>3 DEF MarkWaiting, FrameType
  <2> QED
    BY <1>1, <2>1
<1>4. CASE Take(t)
  <2>1. wait_for_lock'[t] = NULL
    BY <1>1, <1>4 DEF Take
  <2> QED
    BY <1>1, <2>1
<1>5. CASE DonateStop(t)
  <2>1. ~ DepthLeft(t)
    BY <1>5 DEF DonateStop
  <2> QED
    BY <1>1, <2>1, NumbersAssumption DEF DepthLeft, HolderOK
<1>6. CASE SemaDown(t)
  <2>1. UNCHANGED wait_for_lock /\ frame[t].pc \in {"down", "down_blocked"}
    BY <1>6 DEF SemaDown, At, lockVars
  <2> QED
    BY <1>1, <2>1 DEF Donated
<1>7. CASE ~ (MarkWaiting(t) \/ Take(t) \/ DonateStop(t) \/ SemaDown(t))
  <2>1. /\ UNCHANGED wait_for_lock
        /\ frame[t].pc \notin {"donate", "take", "down", "down_blocked"}
    BY <1>7 DEF KernelStep, SchedStep, SleepStep, SynchStep, CreateUnblock, CreateCheck,
       SleepInsert, SleepReturn, SemaUp, CheckHolder, TryTake, Unlist, ClearHolder,
       BroadcastNext, At, synchVars, lockVars
  <2> QED
    BY <1>1, <2>1 DEF HolderOK
<1> QED
  BY <1>3, <1>4, <1>5, <1>6, <1>7

LEMMA StepTaken ==
    ASSUME KernelInv, HoldersOK, NEW t \in Threads, KernelStep(t),
           NEW h \in Threads, NEW l \in Locks, TakenBy(h, l)'
    PROVE  \/ TakenBy(h, l) /\ (h = t /\ Unlist(t) => UNCHANGED priorityVars)
           \/ h = t /\ SemaDown(t) /\ value[l] > 0
<1>1. /\ cur = t /\ (\A v \in Threads : v # t => frame'[v] = frame[v]) /\ TypeOK
      /\ frame \in [Tasks -> FrameType] /\ frame[t] \in FrameType /\ HolderOK(t)
      /\ holder \in [Locks -> Threads \union {NULL}] /\ NULL \notin Threads
      /\ holder'[l] \in {holder[l], NULL, t}
  BY StepFrames, StepHolders, ObjectsAssumption
     DEF KernelInv, HeldByRunning, TypeOK, ControlType, LockType, HoldersOK
<1>2. CASE h # t
  BY <1>1, <1>2 DEF TakenBy
<1> SUFFICES ASSUME h = t
             PROVE  \/ TakenBy(t, l) /\ (Unlist(t) => UNCHANGED priorityVars)
                    \/ SemaDown(t) /\ value[l] > 0
  BY <1>2
<1>3. CASE Take(t) \/ TryTake(t)
  <2>1. /\ holder' = [holder EXCEPT ![frame[t].lock] = t] /\ frame[t].pc \in {"take", "try_take"}
        /\ ~ Unlist(t)
    BY <1>3 DEF Take, TryTake, Unlist, At
  <2>2. frame'[t].pc \notin {"take", "try_take"}
    BY <1>1, <2>1, StepPlace DEF SemaDown, At
  <2>3. holder'[l] = t
    BY <2>2 DEF TakenBy
  <2>4. l = frame[t].lock \/ holder[l] = t
    BY <1>1, <2>1, <2>3
  <2> QED
    BY <2>1, <2>4 DEF TakenBy
<1>4. CASE SemaDown(t)
  <2>1. /\ UNCHANGED holder /\ frame[t].pc \in {"down", "down_blocked"} /\ ~ Unlist(t)
        /\ SemaDownWait(t, frame[t].sema) \/ SemaDownTake(t, frame[t].sema)
    BY <1>4 DEF SemaDown, Unlist, At, lockVars
  <2>2. CASE holder[l] = t
    BY <2>1, <2>2 DEF TakenBy
  <2>3. CASE holder[l] # t
    <3>1. frame'[t].pc \in {"take", "try_take"} /\ frame'[t].lock = l
      BY <2>1, <2>3 DEF TakenBy
    <3>2. frame'[t] = AfterDown(t) /\ value[frame[t].sema] > 0
      <4>1. ~ SemaDownWait(t, frame[t].sema)
        BY <1>1, <3>1 DEF SemaDownWait, Goto, FrameType
      <4> QED
        BY <1>1, <2>1, <4>1 DEF SemaDownTake
    <3>3. frame[t].sema \in Locks
      BY <1>1, <3>1, <3>2, UserFrameFields DEF AfterDown, FrameType
    <3>4. AfterDown(t).lock = frame[t].lock
      BY <1>1, <3>3 DEF AfterDown, FrameType
    <3>5. frame[t].lock = frame[t].sema
      BY <2>1, <3>3 DEF KernelInv, FramesOK, FrameShape
    <3> QED
      BY <1>4, <3>1, <3>2, <3>4, <3>5
  <2> QED
    BY <2>2, <2>3
<1>5. CASE Unlist(t)
  <2>1. UNCHANGED holder /\ frame[t].pc = "unlist"
    BY <1>5 DEF Unlist, At
  <2>2. CASE UNCHANGED <<frame, priorityVars>>
    BY <2>1, <2>2 DEF TakenBy
  <2>3. CASE ~ UNCHANGED <<frame, priorityVars>>
    <3>1. Goto(t, "clear_holder")
      BY <1>5, <2>3 DEF Unlist, Crash
    <3>2. frame'[t].pc = "clear_holder"
      BY <1>1, <3>1 DEF Goto, FrameType
    <3> QED
      BY <3>2 DEF TakenBy
  <2> QED
    BY <2>2, <2>3
<1>6. CASE ClearHolder(t)
  <2>1. /\ holder' = [holder EXCEPT ![frame[t].lock] = NULL]
        /\ frame[t].pc = "clear_holder" /\ frame[t].lock \in Locks
        /\ holder[frame[t].lock] = t
    BY <1>6 DEF ClearHolder, At, KernelInv, FramesOK, FrameShape, Ownership, HolderUntilCleared
  <2>2. frame'[t].pc = "up"
    BY <1>1, <1>6 DEF ClearHolder, FrameType
  <2>3. holder'[l] = t
    BY <2>2 DEF TakenBy
  <2>4. l # frame[t].lock /\ holder[l] = t
    BY <1>1, <2>1, <2>3
  <2> QED
    BY <1>1, <2>1, <2>4 DEF HolderOK
<1>7. CASE ~ (Take(t) \/ TryTake(t) \/ SemaDown(t) \/ Unlist(t) \/ ClearHolder(t))
  <2>1. UNCHANGED holder /\ frame[t].pc # "clear_holder"
    BY <1>7 DEF KernelStep, SchedStep, SleepStep, SynchStep, CreateUnblock, CreateCheck,
       SleepInsert, SleepReturn, SemaUp, CheckHolder, MarkWaiting, Donate, DonateStop,
       BroadcastNext, At, synchVars, lockVars
  <2>2. frame'[t].pc \notin {"take", "try_take"}
    BY <1>1, <1>7, StepPlace
  <2>3. holder[l] = t
    BY <2>1, <2>2 DEF TakenBy
  <2> QED
    BY <1>7, <2>1, <2>3 DEF TakenBy
<1> QED
  BY <1>3, <1>4, <1>5, <1>6, <1>7

-----------------------------------------------------------------------------
(* Waiters donate.                                                         *)

LEMMA CallDonates ==
    ASSUME "thread_set_priority" \notin Calls, KernelInv, LinksInv, NewInUser, HoldersOK,
           FirstWoken, PriorityOrder, WaitersDonate, NEW t \in Threads, ClientCall(t)
    PROVE  WaitersDonate'
<1> SUFFICES ASSUME NEW l \in Locks, NEW h \in Threads, NEW u \in Threads,
                    TakenBy(h, l)', Donated(u, l)'
             PROVE  priority'[h] >= priority'[u]
  BY DEF WaitersDonate
<1>1. /\ cur = t /\ frame[t].pc = "user" /\ ~ in_external_intr /\ ~ Gone(t)
      /\ priority \in [Tasks -> Priorities] /\ PRI_MAX \in Nat
  <2>1. cur = t /\ frame[t].pc = "user"
    BY CallFrames, SMTT(30) DEF KernelInv
  <2>2. ~ in_external_intr
    BY DEF ClientCall, CallYield, CallSetPriority, CallCreate, CallSleep, CallExit, ThreadYield,
       ThreadSetPriority, ThreadCreate, ThreadExit, TimerSleep, CallSemaDown, CallSemaUp,
       CallSemaTryDown, CallAcquire, CallTryAcquire, CallRelease, CallCondWait, CallCondSignal,
       CallCondBroadcast, SemaCall, SemaTryDown, LockAcquire, LockTryAcquire, LockRelease,
       CondWait, CondSignal, CondBroadcast, At
  <2> QED
    BY <2>1, <2>2, RunningLives, NumbersAssumption DEF KernelInv, TypeOK, PriorityType
<1>2. Donated(u, l) /\ priority'[u] = priority[u]
  BY CallDonated, CallPrices
<1>3. CASE TakenBy(h, l)
  <2>1. status[h] # "free"
    BY <1>3 DEF TakenBy, LinksInv, HoldersLive, KernelInv, GoneFromKernel, Gone
  <2> QED
    BY <1>2, <1>3, <2>1, CallPrices DEF WaitersDonate
<1>4. CASE h = t /\ value[l] > 0
  <2>1. priority'[t] = priority[t]
    BY <1>1, CallPrices DEF Gone
  <2>2. priority[u] <= priority[t]
    BY <1>1, <1>2, <1>4, RunnerOutranks DEF BeforeCheck
  <2> QED
    BY <1>1, <1>2, <1>4, <2>1, <2>2
<1> QED
  BY <1>3, <1>4, CallTaken

\* A donation reaches the holder of the lock its donor announced.
LEMMA DonorOutranked ==
    ASSUME KernelInv, HoldersOK, NEW t \in Threads, Donate(t), KernelStep(t),
           NEW h \in Threads, NEW l \in Locks, TakenBy(h, l), Donated(t, l)'
    PROVE  priority'[h] >= priority'[t]
<1>1. /\ frame[t].pc = "donate" /\ HolderOK(t) /\ l # NULL /\ UNCHANGED wait_for_lock
      /\ frame[t].dlock \in Locks
      /\ priority \in [Tasks -> Priorities] /\ PRI_MAX \in Nat /\ TypeOK
      /\ holder[frame[t].dlock] \in Threads \union {NULL}
  BY ObjectsAssumption, NumbersAssumption DEF Donate, At, HoldersOK, Semaphores, KernelInv, FramesOK,
     FrameShape, TypeOK, PriorityType, LockType, lockVars
<1>2. wait_for_lock[t] = l /\ frame[t].dlock = l
  BY <1>1 DEF Donated, HolderOK
<1>3. holder[l] # NULL
  <2>1. holder[l] = NULL => UNCHANGED frame
    BY <1>2 DEF Donate, Crash
  <2> QED
    BY <1>1, <2>1 DEF Donated
<1>4. PICK x \in Threads : holder[l] = x
  BY <1>1, <1>2, <1>3
<1>5. x = h
  BY <1>4 DEF TakenBy, KernelInv, Ownership, OneOwner, Owns
<1>6. priority' = [priority EXCEPT ![h] = Boosted(t, h)]
  BY <1>2, <1>3, <1>4, <1>5 DEF Donate, DonateStep
<1>7. Boosted(t, h) >= priority[t]
  BY <1>1, BoostedValue DEF TypeOK
<1>8. priority'[t] = priority[t]
  BY <1>1, StepPrices DEF HoldingPlaces
<1> QED
  BY <1>1, <1>6, <1>7, <1>8

LEMMA StepDonates ==
    ASSUME PRI_DONATION_MAX_DEPTH > 1, KernelInv, KernelInv', LinksInv, NewInUser, HoldersOK,
           FirstWoken, PriorityOrder, WaitersDonate, NEW t \in Threads, KernelStep(t)
    PROVE  WaitersDonate'
<1> SUFFICES ASSUME NEW l \in Locks, NEW h \in Threads, NEW u \in Threads,
                    TakenBy(h, l)', Donated(u, l)'
             PROVE  priority'[h] >= priority'[u]
  BY DEF WaitersDonate
<1>1. /\ cur = t /\ priority \in [Tasks -> Priorities] /\ PRI_MAX \in Nat
  BY StepFrames, NumbersAssumption DEF KernelInv, TypeOK, PriorityType
<1>2. ASSUME Donated(u, l) PROVE priority'[u] = priority[u]
  BY <1>2, StepPrices DEF Donated, HoldingPlaces
<1>3. CASE TakenBy(h, l) /\ Donated(u, l) /\ (h = t /\ Unlist(t) => UNCHANGED priorityVars)
  <2>1. priority'[h] >= priority[h]
    <3>1. CASE h = t /\ Unlist(t)
      BY <1>1, <1>3, <3>1 DEF priorityVars
    <3>2. CASE ~ (h = t /\ Unlist(t))
      BY <3>2, StepPrices
    <3> QED
      BY <3>1, <3>2
  <2>2. priority[h] >= priority[u]
    BY <1>3 DEF WaitersDonate
  <2>3. priority'[h] \in Int
    BY NumbersAssumption DEF KernelInv, TypeOK, PriorityType
  <2> QED
    BY <1>1, <1>2, <1>3, <2>1, <2>2, <2>3
<1>4. CASE h = t /\ SemaDown(t) /\ value[l] > 0
  <2>1. /\ UNCHANGED priority /\ frame[t].pc \in {"down", "down_blocked"} /\ ~ in_external_intr
        /\ ~ Donate(t)
    BY <1>4 DEF SemaDown, At, Donate, priorityVars
  <2>2. Donated(u, l)
    BY <2>1, StepDonated
  <2>3. priority[u] <= priority[t]
    BY <1>1, <1>4, <2>1, <2>2, RunnerOutranks DEF BeforeCheck
  <2> QED
    BY <1>1, <1>4, <2>1, <2>3
<1>5. CASE TakenBy(h, l) /\ u = t /\ Donate(t)
  BY <1>5, DonorOutranked
<1> QED
  BY <1>3, <1>4, <1>5, StepDonated, StepTaken

LEMMA WaitersDonateHolds ==
    ASSUME HoldersKeepGoing, "thread_set_priority" \notin Calls, DeviceSemas = {},
           PRI_DONATION_MAX_DEPTH > 1
    PROVE  Spec => []WaitersDonate
<1>1. Init => WaitersDonate
  BY ObjectsAssumption DEF Init, SynchInit, WaitersDonate, Donated, Semaphores
<1>2. KernelInv /\ KernelInv' /\ LinksInv /\ NewInUser /\ HoldersOK /\ FirstWoken
        /\ PriorityOrder /\ WaitersDonate /\ [Next]_vars => WaitersDonate'
  <2> SUFFICES ASSUME KernelInv, KernelInv', LinksInv, NewInUser, HoldersOK, FirstWoken,
                      PriorityOrder, WaitersDonate, [Next]_vars
               PROVE  WaitersDonate'
    OBVIOUS
  <2>1. CASE UNCHANGED vars
    BY <2>1 DEF vars, schedVars, priorityVars, synchVars, lockVars, WaitersDonate, TakenBy, Donated
  <2>2. CASE IdleStep \/ Tick \/ Handler \/ Device
    <3>1. /\ \A u \in Threads : frame'[u] = frame[u]
          /\ UNCHANGED <<holder, wait_for_lock, priority>>
      BY <2>2, InterruptFrames, InterruptPriorities DEF KernelInv, IdleStep, Tick, Handler, Device,
         DeviceSemaUp, synchVars, lockVars, priorityVars
    <3> QED
      BY <3>1 DEF WaitersDonate, TakenBy, Donated
  <2> QED
    BY <2>1, <2>2, CallDonates, StepDonates DEF Next, CPU, Halted
<1>3. Spec => []HoldersOK
  BY HoldersOKHolds
<1>4. Spec => []FirstWoken
  BY FirstWokenHolds
<1>5. Spec => []PriorityOrder
  BY CPUGoesByPriority
<1> QED
  BY <1>1, <1>2, <1>3, <1>4, <1>5, NewInUserHolds, LinksInvHolds, KernelInvHolds, PTL DEF Spec

\* Whoever has a lock runs with at least the priority of each waiter that announced
\* itself, at every point at which the timer may switch threads: a waiter donates
\* before it waits, and whoever barges in on a released lock outranks those that
\* donated to the thread before it.  For clients that never change their priority
\* and keep going while they hold a lock, and while no device ups a semaphore.
THEOREM WaitersHaveDonated ==
    ASSUME HoldersKeepGoing, "thread_set_priority" \notin Calls, DeviceSemas = {},
           PRI_DONATION_MAX_DEPTH > 1
    PROVE  Spec => []AnnouncedWaitersDonate
<1>1. KernelInv /\ LinksInv /\ WaitersDonate => AnnouncedWaitersDonate
  <2> SUFFICES ASSUME KernelInv, LinksInv, WaitersDonate, NEW l \in Locks, NEW h \in Threads,
                      Holds(h, l), NEW t \in ToSet(waiters[l]), wait_for_lock[t] = l
               PROVE  priority[h] >= priority[t]
    BY DEF AnnouncedWaitersDonate
  <2>1. l \in Semaphores /\ t \in Threads
    BY MembersType DEF Semaphores, KernelInv, TypeOK, SemaType
  <2>2. frame[t].pc = "down_blocked"
    BY <2>1 DEF LinksInv, ListsOK
  <2>3. TakenBy(h, l) /\ Donated(t, l)
    BY <2>2 DEF TakenBy, Donated, Holds
  <2> QED
    BY <2>1, <2>3 DEF WaitersDonate
<1>2. Spec => []WaitersDonate
  BY WaitersDonateHolds
<1> QED
  BY <1>1, <1>2, LinksInvHolds, PTL
=============================================================================
