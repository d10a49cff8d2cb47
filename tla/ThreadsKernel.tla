--------------------------- MODULE ThreadsKernel ----------------------------
(***************************************************************************)
(* The kernel of pintos-threads: client threads that make any calls they   *)
(* may of thread.c, synch.c and timer.c, the idle thread, and the timer    *)
(* and device interrupts.                                                  *)
(*                                                                         *)
(* A client obeys what the functions ask of it: it acquires no lock it     *)
(* holds, releases what it holds, uses a condition with its lock held and  *)
(* exits holding nothing.  Which calls it makes is a parameter.            *)
(***************************************************************************)
EXTENDS Synch

CONSTANTS Calls,          \* the calls clients make
          HoldingCalls,   \* those they make while they hold a lock
          MayNest,        \* <<k, l>>: a holder of k may acquire l
          NewPriorities,  \* arguments of thread_set_priority, thread_create
          MaxCalls,       \* calls a thread makes, lock_release and exit aside
          MaxValue        \* value up to which devices up a semaphore

CallNames == {"thread_create", "thread_yield", "thread_set_priority",
              "timer_sleep", "sema_down", "sema_up", "sema_try_down",
              "lock_acquire", "lock_try_acquire",
              "cond_wait", "cond_signal", "cond_broadcast"}

ASSUME ClientAssumption ==
    /\ Calls \subseteq CallNames /\ HoldingCalls \subseteq Calls
    /\ MayNest \subseteq Locks \X Locks
    /\ NewPriorities \subseteq Priorities
    /\ MaxCalls \in Nat /\ MaxValue \in Nat

VARIABLE left             \* calls each thread still makes

vars == <<schedVars, alarmVars, synchVars, left>>

Init == SchedInit /\ AlarmInit /\ SynchInit /\ left = [t \in Threads |-> MaxCalls]

Held(t) == {l \in Locks : holder[l] = t}

\* Client t makes one of the calls it has left.
MayCall(t, call) ==
    /\ call \in (IF Held(t) = {} THEN Calls ELSE HoldingCalls)
    /\ left[t] > 0
    /\ left' = [left EXCEPT ![t] = @ - 1]

ClientLocks(t) == {l \in Locks \ {TidLock} : \A k \in Held(t) : <<k, l>> \in MayNest}

-----------------------------------------------------------------------------
(* Calls that only concern thread.c and timer.c.                           *)

CallYield(t) ==
    /\ MayCall(t, "thread_yield") /\ ThreadYield(t)
    /\ UNCHANGED <<alarmVars, synchVars>>

CallSetPriority(t) ==
    /\ MayCall(t, "thread_set_priority")
    /\ \E new \in NewPriorities : ThreadSetPriority(t, new)
    /\ UNCHANGED <<alarmVars, synchVars>>

\* A later thread_create() in a freed page finds it zeroed.
CallCreate(t) ==
    /\ MayCall(t, "thread_create")
    /\ \E child \in Threads, pri \in NewPriorities : ThreadCreate(t, child, pri)
    /\ UNCHANGED <<alarmVars, synchVars>>

CallSleep(t) ==
    /\ MayCall(t, "timer_sleep")
    /\ \E n \in 1 .. MaxSleep : TimerSleep(t, n)
    /\ UNCHANGED synchVars

CallExit(t) ==
    /\ Held(t) = {} /\ ThreadExit(t)
    /\ UNCHANGED <<alarmVars, synchVars, left>>

-----------------------------------------------------------------------------
(* Calls of synch.c.                                                       *)

CallSemaDown(t) == MayCall(t, "sema_down") /\ \E s \in Semas : SemaCall(t, "down", s)
CallSemaUp(t) == MayCall(t, "sema_up") /\ \E s \in Semas : SemaCall(t, "up", s)
CallSemaTryDown(t) == MayCall(t, "sema_try_down") /\ \E s \in Semas : SemaTryDown(t, s)

CallAcquire(t) ==
    MayCall(t, "lock_acquire") /\ \E l \in ClientLocks(t) : LockAcquire(t, l)
CallTryAcquire(t) ==
    MayCall(t, "lock_try_acquire") /\ \E l \in ClientLocks(t) : LockTryAcquire(t, l)
CallRelease(t) == UNCHANGED left /\ \E l \in Held(t) : LockRelease(t, l)

CallCondWait(t) ==
    MayCall(t, "cond_wait") /\ \E c \in Conds : CondWait(t, c)
CallCondSignal(t) ==
    MayCall(t, "cond_signal") /\ \E c \in Conds : CondSignal(t, c)
CallCondBroadcast(t) ==
    MayCall(t, "cond_broadcast") /\ \E c \in Conds : CondBroadcast(t, c)

ClientCall(t) ==
    \/ CallYield(t) \/ CallSetPriority(t) \/ CallCreate(t) \/ CallSleep(t)
    \/ CallExit(t)
    \/ CallSemaDown(t) \/ CallSemaUp(t) \/ CallSemaTryDown(t)
    \/ CallAcquire(t) \/ CallTryAcquire(t) \/ CallRelease(t)
    \/ CallCondWait(t) \/ CallCondSignal(t) \/ CallCondBroadcast(t)

-----------------------------------------------------------------------------
(* A call going on inside the kernel.                                      *)

SchedStep(t) ==
    /\ CreateUnblock(t) \/ CreateCheck(t)
    /\ UNCHANGED <<alarmVars, synchVars>>

SleepStep(t) ==
    /\ SleepInsert(t) \/ SleepReturn(t)
    /\ UNCHANGED synchVars

SynchStep(t) ==
    \/ SemaDown(t) \/ SemaUp(t)
    \/ CheckHolder(t) \/ MarkWaiting(t) \/ Donate(t) \/ DonateStop(t) \/ Take(t)
    \/ TryTake(t)
    \/ Unlist(t) \/ ClearHolder(t)
    \/ BroadcastNext(t)

KernelStep(t) == (SchedStep(t) \/ SleepStep(t) \/ SynchStep(t)) /\ UNCHANGED left

IdleStep == IdleBlock /\ UNCHANGED <<alarmVars, synchVars, left>>

\* What the CPU does outside interrupt handlers.
CPU == IdleStep \/ \E t \in Threads : ClientCall(t) \/ KernelStep(t)

Tick == TimerInterrupt /\ UNCHANGED <<synchVars, left>>
Handler == (TimerWakeUp \/ TimerReturn) /\ UNCHANGED <<synchVars, left>>
Device ==
    /\ \E s \in DeviceSemas : value[s] < MaxValue /\ DeviceSemaUp(s)
    /\ UNCHANGED left

\* The kernel has stopped.
Halted == fault # "none" /\ UNCHANGED vars

Next == CPU \/ Tick \/ Handler \/ Device \/ Halted

Spec == Init /\ [][Next]_vars

\* The timer keeps interrupting, its handler returns, and between interrupts
\* the CPU gets on with the current thread.
Fairness == WF_vars(Tick) /\ WF_vars(Handler) /\ SF_vars(CPU)

FairSpec == Spec /\ Fairness
=============================================================================
