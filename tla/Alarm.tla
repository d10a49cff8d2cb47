------------------------------- MODULE Alarm --------------------------------
(***************************************************************************)
(* The alarm clock of pintos-threads/src/devices/timer.c: timer_sleep()    *)
(* and the timer interrupt.                                                *)
(*                                                                         *)
(* Only differences of times matter, so remaining[t] stands for            *)
(* t->wait_until_ticks - ticks; it is followed down to -MaxLag.            *)
(***************************************************************************)
EXTENDS Scheduler

CONSTANTS MaxSleep,     \* longest sleep a client asks for
          MaxLag        \* bound on how late a sleeper is told apart

ASSUME AlarmAssumption == MaxSleep \in Nat /\ MaxLag \in Nat

VARIABLES wait_list,    \* sleeping threads, latest wake-up first
          remaining

alarmVars == <<wait_list, remaining>>

AlarmInit == wait_list = <<>> /\ remaining = [t \in Threads |-> 0]

\* timer_sleep() reads the clock, before it disables interrupts.
TimerSleep(t, n) ==
    /\ At(t, "user")
    /\ n > 0
    /\ remaining' = [remaining EXCEPT ![t] = n]
    /\ Goto(t, "sleep_insert")
    /\ UNCHANGED <<wait_list, cpuVars, priorityVars, in_external_intr, fault>>

\* Mutant: the list of sleepers is not kept in order.
SleepPushBack(t) ==
    /\ At(t, "sleep_insert")
    /\ wait_list' = list_push_back(wait_list, t)
    /\ Goto(t, "sleep_blocked")
    /\ thread_block
    /\ UNCHANGED <<remaining, priorityVars, in_external_intr, fault>>

\* The rest of timer_sleep(), with interrupts off.
SleepInsert(t) ==
    /\ At(t, "sleep_insert")
    /\ wait_list' = list_insert_ordered(wait_list, t, remaining)
    /\ Goto(t, "sleep_blocked")
    /\ thread_block
    /\ UNCHANGED <<remaining, priorityVars, in_external_intr, fault>>

SleepReturn(t) ==
    /\ At(t, "sleep_blocked")
    /\ remaining' = [remaining EXCEPT ![t] = 0]
    /\ ReturnToUser(t)
    /\ UNCHANGED <<wait_list, cpuVars, priorityVars, in_external_intr, fault>>

-----------------------------------------------------------------------------
(* timer_interrupt(), which runs with interrupts off, in three kinds of    *)
(* steps during which nothing else runs.                                   *)

Sleeping(t) == frame[t].pc \in {"sleep_insert", "sleep_blocked"}

\* ticks++.
TimerInterrupt ==
    /\ Interruptible
    /\ in_external_intr' = TRUE
    /\ remaining' = [t \in Threads |-> IF Sleeping(t) /\ remaining[t] > - MaxLag
                                       THEN remaining[t] - 1 ELSE remaining[t]]
    /\ UNCHANGED <<wait_list, cpuVars, priorityVars, frame, fault>>

\* Mutants: a tick early; only at the very tick, as if no thread could be
\* preempted between reading the clock and going to sleep.
DueEarly == wait_list # <<>> /\ remaining[Last(wait_list)] <= 1
DueExactly == wait_list # <<>> /\ remaining[Last(wait_list)] = 0

\* The last sleeper of the list is due.
Due == wait_list # <<>> /\ remaining[Last(wait_list)] <= 0

\* One iteration of timer_wake_up().
TimerWakeUp ==
    /\ in_external_intr /\ Due
    /\ wait_list' = Front(wait_list)
    /\ KeepCPU(UnblockedList(Last(wait_list)), UnblockedStatus(Last(wait_list)))
    /\ UNCHANGED <<remaining, priorityVars, frame, in_external_intr, fault>>

\* thread_tick() counts the slice, thread_check_priority_intr() looks for a
\* higher ready thread; either may ask for a yield when the handler returns.
SliceOver == thread_ticks + 1 >= TIME_SLICE

TimerReturn ==
    /\ in_external_intr /\ ~ Due
    /\ in_external_intr' = FALSE
    /\ IF SliceOver \/ Outranked(ready_list, priority)
       THEN thread_yield(ready_list, status, priority)
       ELSE thread_ticks' = thread_ticks + 1 /\ UNCHANGED <<cur, ready_list, status>>
    /\ frame' = AfterInterrupt
    /\ UNCHANGED <<wait_list, remaining, priorityVars, fault>>
=============================================================================
