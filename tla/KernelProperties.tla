-------------------------- MODULE KernelProperties --------------------------
(***************************************************************************)
(* What the threads kernel promises: properties of ThreadsKernel.  Those   *)
(* that hold only for some uses of the API, and those that the comments    *)
(* and the design document claim but the code does not keep, are listed    *)
(* with the runs that show it in the README.                               *)
(***************************************************************************)
EXTENDS ThreadsKernel

CPUType ==
    /\ status \in [Tasks -> Statuses]
    /\ ready_list \in Seq(Threads)
    /\ cur \in Tasks
    /\ thread_ticks \in 0 .. TIME_SLICE - 1

PriorityType ==
    /\ priority \in [Tasks -> Priorities]
    /\ original_priority \in [Tasks -> Priorities]

ControlType ==
    /\ frame \in [Tasks -> FrameType]
    /\ in_external_intr \in BOOLEAN
    /\ fault \in Faults

AlarmType ==
    /\ wait_list \in Seq(Threads)
    /\ remaining \in [Threads -> - MaxLag .. MaxSleep]

SemaType ==
    /\ value \in [Semaphores -> Nat]
    /\ waiters \in [Semaphores -> Seq(Threads)]

LockType ==
    /\ holder \in [Locks -> Threads \union {NULL}]
    /\ acquired_locks \in [Threads -> Seq(Locks)]
    /\ wait_for_lock \in [Threads -> Locks \union {NULL}]

CondType == cond_waiters \in [Conds -> Seq(Threads)]

ClientType == left \in [Threads -> 0 .. MaxCalls]

\* Every variable has its type.
TypeOK ==
    /\ CPUType /\ PriorityType /\ ControlType /\ AlarmType
    /\ SemaType /\ LockType /\ CondType /\ ClientType

-----------------------------------------------------------------------------
(* Locks and semaphores.                                                   *)

\* t has taken lock l's semaphore and not yet given it back.
Owns(t, l) ==
    \/ holder[l] = t
    \/ frame[t].pc \in {"take", "try_take"} /\ frame[t].lock = l
    \/ frame[t].pc = "up" /\ frame[t].sema = l

Owners(l) == {t \in Threads : Owns(t, l)}

\* The value of a lock's semaphore and the number of threads between taking
\* it and giving it back add up to one, at every point of lock_acquire(),
\* lock_release() and lock_try_acquire() where the timer may switch threads.
LockAccounting ==
    \A l \in Locks : value[l] + Cardinality(Owners(l)) = 1

\* Woken from s, but not yet back in the loop of sema_down().
Woken(s) == {t \in Threads : /\ frame[t].pc = "down_blocked" /\ frame[t].sema = s
                             /\ ~ Contains(waiters[s], t)}

\* A semaphore that threads wait for is never worth more than the number of
\* threads that have been woken for it and have yet to look again, and those
\* that wait are THREAD_BLOCKED, as thread_unblock() asserts: sema_up() loses no
\* wake-up, whatever barges in before the woken thread runs, and wakes nobody
\* whom a donation has put elsewhere.
NoLostWakeup ==
    \A s \in Semaphores :
        /\ waiters[s] # <<>> => value[s] <= Cardinality(Woken(s))
        /\ \A t \in ToSet(waiters[s]) : status[t] = "blocked"

\* Where t's `elem' is linked.
Places(t) ==
    {<<"ready", i>> : i \in {j \in DOMAIN ready_list : ready_list[j] = t}}
    \union {<<"sleep", i>> : i \in {j \in DOMAIN wait_list : wait_list[j] = t}}
    \union UNION {{<<s, i>> : i \in {j \in DOMAIN waiters[s] : waiters[s][j] = t}}
                  : s \in Semaphores}

\* Created, but thread_create() has not come to thread_unblock().
Unstarted(t) == \E p \in Threads : frame[p].child = t /\ frame[p].pc # "create_check"

\* struct thread has one `elem' for all lists.  While a thread lives and does
\* not run it is linked in exactly one place, so no thread is ever lost and
\* no list is ever spliced through another; otherwise it is in none.
OneList ==
    \A t \in Threads :
        Cardinality(Places(t)) =
            IF status[t] \in {"ready", "blocked"} /\ ~ Unstarted(t) THEN 1 ELSE 0

\* The idle thread waits for an interrupt only when no thread is ready.
IdleWhenNothingReady ==
    (/\ cur = Idle /\ frame[Idle].pc = "hlt" /\ ~ in_external_intr)
        => ready_list = <<>>

-----------------------------------------------------------------------------
(* Priorities.                                                             *)

\* thread_unblock()'s comment: the ready list is ordered by priority.
ReadySorted == Sorted(ready_list, priority)

\* h holds l and is not in the middle of lock_release() with its donations
\* already given up.
Holds(h, l) == holder[l] = h /\ frame[h].pc # "clear_holder"

\* A donation has reached l and will raise its holder next.
DonationUnderWay(l) == \E u \in Threads : frame[u].pc = "donate" /\ frame[u].dlock = l

\* Whoever holds a lock runs with at least the priority of each waiter that
\* found the lock held and announced itself (wait_for_lock), along chains of
\* holders too, but while a donation is on its way down the chain.
AnnouncedWaitersDonate ==
    \A l \in Locks, h \in Threads : Holds(h, l) /\ ~ DonationUnderWay(l) =>
        \A t \in ToSet(waiters[l]) : wait_for_lock[t] = l => priority[h] >= priority[t]

\* No ready thread outranks the running one, but between the steps of
\* lock_release() and of thread_create() that come before their check.
RunningHighest ==
    (/\ cur # Idle /\ ~ in_external_intr
     /\ frame[cur].pc \notin {"clear_holder", "up", "create_check"})
       => \A t \in ToSet(ready_list) : priority[t] <= priority[cur]

\* The CPU goes by priority: the list it is given from is in order whatever the
\* donations do to the threads in it, its first does not outrank who runs, and
\* the idle thread, which is in no list, halts only when the list is empty.
PriorityOrder == ReadySorted /\ RunningHighest /\ IdleWhenNothingReady

\* A thread that holds no lock runs at its base priority: what lock_release()
\* and thread_set_priority() are to restore and to set.
DonationsReturned ==
    \A t \in Threads :
        acquired_locks[t] = <<>> => priority[t] = original_priority[t]

-----------------------------------------------------------------------------
(* Alarm.                                                                  *)

\* Nobody gets the CPU back from timer_sleep() before its time.
SleepsLongEnough ==
    \A t \in Threads :
        frame[t].pc = "sleep_blocked" /\ ~ Contains(wait_list, t) => remaining[t] <= 0

\* When the timer's handler returns, no thread whose time has come is left
\* asleep: it stops at the first that is not due, which takes a sorted list.
WakesAllDue ==
    [][in_external_intr /\ ~ in_external_intr'
         => \A t \in ToSet(wait_list') : remaining'[t] > 0]_vars

-----------------------------------------------------------------------------
(* Condition variables.                                                    *)

\* t is in cond_wait(), its semaphore_elem in use.
InCondWait(t) ==
    /\ frame[t].op = "cond_wait"
    /\ frame[t].pc \in {"unlist", "clear_holder", "up"} \/ frame[t].sema = t

Signallers(t) == {u \in Threads : frame[u].pc = "up" /\ frame[u].sema = t}

\* The semaphore_elem on t's stack is queued, or being upped, or upped: one of
\* them and once, exactly as long as t is in cond_wait().  No signal is lost or
\* spent twice, and none goes to a stack frame that is gone.
SignalAccounting ==
    \A t \in Threads :
        Cardinality(UNION {{<<c, i>> : i \in {j \in DOMAIN cond_waiters[c] :
                                                cond_waiters[c][j] = t}} : c \in Conds})
        + value[t] + Cardinality(Signallers(t))
            = IF InCondWait(t) THEN 1 ELSE 0

\* cond_signal()'s comment: the first of the waiters it sorts has the highest
\* priority.
SignalsHighest ==
    [][\A t \in Threads, c \in Conds :
        Len(cond_waiters'[c]) < Len(cond_waiters[c]) /\ cur = t
          => \A w \in ToSet(cond_waiters'[c]) :
                priority[frame'[t].sema] >= priority[w]]_vars

-----------------------------------------------------------------------------
(* The kernel keeps going.                                                 *)

\* No thread_priority_donation() meets a lock without a holder.
HolderWhenDonating == fault # "null_holder"

\* sema_up()'s comment: it may be called from an interrupt handler.  There it
\* never comes to thread_yield(), which asserts that it is not in one.
InterruptMayUp == fault # "yield_in_interrupt"

\* t is in lock_acquire(l) and has not got the semaphore.
Acquiring(t, l) ==
    /\ frame[t].lock = l
    /\ \/ frame[t].pc \in {"check_holder", "mark_waiting", "donate"}
       \/ frame[t].pc \in {"down", "down_blocked"} /\ frame[t].sema = l

\* Every thread exits, or the kernel stops: no sleeper and nobody who waits
\* for a lock is left behind.
Gone(t) == status[t] \in {"free", "dying"}
AllExit == <>(fault # "none" \/ \A t \in Threads : Gone(t))
=============================================================================
