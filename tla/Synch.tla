------------------------------- MODULE Synch --------------------------------
(***************************************************************************)
(* Semaphores, locks with priority donation and condition variables of     *)
(* pintos-threads/src/threads/synch.c, with the donation functions of      *)
(* thread.c.  Each action is a stretch of code that runs with interrupts   *)
(* off; between two of them the timer may interrupt and switch threads.    *)
(***************************************************************************)
EXTENDS Alarm

CONSTANTS CondLock,       \* the lock each condition variable belongs to
          DeviceSemas     \* semaphores upped by a device's interrupt handler

ASSUME SynchAssumption == CondLock \in [Conds -> Locks] /\ DeviceSemas \subseteq Semas

VARIABLES value, waiters,     \* struct semaphore, for every semaphore
          holder,             \* struct lock
          acquired_locks, wait_for_lock,   \* struct thread
          cond_waiters        \* struct condition: the waiting threads

semaVars == <<value, waiters>>
lockVars == <<holder, acquired_locks, wait_for_lock>>
synchVars == <<semaVars, lockVars, cond_waiters>>

SynchInit ==
    /\ value = [s \in Semaphores |-> IF s \in Locks THEN 1 ELSE 0]
    /\ waiters = [s \in Semaphores |-> <<>>]
    /\ holder = [l \in Locks |-> NULL]
    /\ acquired_locks = [t \in Threads |-> <<>>]
    /\ wait_for_lock = [t \in Threads |-> NULL]
    /\ cond_waiters = [c \in Conds |-> <<>>]

Crash(f) == fault' = f /\ UNCHANGED <<cpuVars, priorityVars, frame, in_external_intr>>

-----------------------------------------------------------------------------
(* Semaphores.                                                             *)

\* Where the caller of sema_down() goes on: lock_acquire() takes the lock,
\* cond_wait() acquires its lock again.
AfterDown(t) ==
    LET s == frame[t].sema
        f == [frame[t] EXCEPT !.sema = NULL]
    IN  IF s \in Locks THEN [f EXCEPT !.pc = "take"]
        ELSE IF s \in Threads THEN [f EXCEPT !.pc = "check_holder"]
        ELSE UserFrame

\* Where the caller of sema_up() goes on; lock_release() is called by
\* clients, by allocate_tid() and by cond_wait().
AfterUp(t) ==
    LET f == [frame[t] EXCEPT !.sema = NULL]
    IN  IF f.op = "thread_create" THEN [f EXCEPT !.pc = "create_unblock"]
        ELSE IF f.op = "cond_wait" THEN [f EXCEPT !.pc = "down", !.sema = t]
        ELSE IF f.op = "cond_broadcast" THEN [f EXCEPT !.pc = "broadcast"]
        ELSE UserFrame

SemaDownWait(t, s) ==
    /\ value[s] = 0
    /\ waiters' = [waiters EXCEPT ![s] = list_push_back(@, t)]
    /\ Goto(t, "down_blocked")
    /\ thread_block
    /\ UNCHANGED value

\* Mutant: `if' for `while', a woken thread does not look again.
SemaDownOnce(t, s) ==
    /\ value[s] > 0 \/ frame[t].pc = "down_blocked"
    /\ value' = [value EXCEPT ![s] = @ - 1]
    /\ frame' = [frame EXCEPT ![t] = AfterDown(t)]
    /\ UNCHANGED <<waiters, cpuVars>>

SemaDownTake(t, s) ==
    /\ value[s] > 0
    /\ value' = [value EXCEPT ![s] = @ - 1]
    /\ frame' = [frame EXCEPT ![t] = AfterDown(t)]
    /\ UNCHANGED <<waiters, cpuVars>>

\* A client calls sema_down() or sema_up() on a plain semaphore.
SemaCall(t, pc, s) ==
    /\ At(t, "user")
    /\ frame' = [frame EXCEPT ![t].pc = pc, ![t].sema = s]
    /\ UNCHANGED <<cpuVars, priorityVars, in_external_intr, fault, alarmVars, synchVars>>

\* One turn of the while loop of sema_down().
SemaDown(t) ==
    /\ At(t, "down") \/ At(t, "down_blocked")
    /\ LET s == frame[t].sema IN SemaDownWait(t, s) \/ SemaDownTake(t, s)
    /\ UNCHANGED <<priorityVars, in_external_intr, fault, alarmVars, lockVars, cond_waiters>>

\* sema_try_down() by a client, on a plain semaphore.
SemaTryDown(t, s) ==
    /\ At(t, "user")
    /\ value[s] > 0
    /\ value' = [value EXCEPT ![s] = @ - 1]
    /\ UNCHANGED <<schedVars, alarmVars, waiters, lockVars, cond_waiters>>

\* Mutant: sema_up() wakes only when the value leaves zero.
WakesFromZero(s) == waiters[s] # <<>> /\ value[s] = 0

\* sema_up(s) wakes a thread: the first of the waiters, once sorted.
Wakes(s) == waiters[s] # <<>>
FirstWaiter(s) == Head(list_sort(waiters[s], priority))

\* The ready list and the statuses once it has.
WokenList(s) == IF Wakes(s) THEN UnblockedList(FirstWaiter(s)) ELSE ready_list
WokenStatus(s) == IF Wakes(s) THEN UnblockedStatus(FirstWaiter(s)) ELSE status

SemaRaise(s) ==
    /\ waiters' = IF Wakes(s)
                  THEN [waiters EXCEPT ![s] = Tail(list_sort(@, priority))]
                  ELSE waiters
    /\ value' = [value EXCEPT ![s] = @ + 1]

SemaUp(t) ==
    /\ At(t, "up")
    /\ LET s == frame[t].sema
       IN  /\ SemaRaise(s)
           /\ thread_check_priority(WokenList(s), WokenStatus(s), priority)
    /\ frame' = [frame EXCEPT ![t] = AfterUp(t)]
    /\ UNCHANGED <<priorityVars, in_external_intr, fault, alarmVars, lockVars, cond_waiters>>

\* sema_up() called by a device's interrupt handler: thread_yield() asserts
\* that it is not in one.
DeviceSemaUp(s) ==
    /\ Interruptible
    /\ SemaRaise(s)
    /\ KeepCPU(WokenList(s), WokenStatus(s))
    /\ fault' = IF Outranked(WokenList(s), priority) THEN "yield_in_interrupt" ELSE fault
    /\ frame' = AfterInterrupt
    /\ UNCHANGED <<priorityVars, in_external_intr, alarmVars, lockVars, cond_waiters>>

-----------------------------------------------------------------------------
(* Priority donation (thread.c).                                           *)

\* Mutant: the donor's priority is left out.
BoostedToBase(t, h) == Max({priority[h], original_priority[h]})

\* One iteration of the loop of thread_priority_donation(): holder h of the
\* lock reached gets at least t's priority; the last holder of the chain is
\* moved, from whatever list it is in, to its place in the ready list.
Boosted(t, h) == Max({priority[h], priority[t], original_priority[h]})

DonateStep(t, h) ==
    LET boosted == [priority EXCEPT ![h] = Boosted(t, h)]
        next == wait_for_lock[h]
    IN  /\ priority' = boosted
        /\ IF next = NULL
           THEN /\ ready_list' = list_insert_ordered(list_remove(ready_list, h), h, boosted)
                /\ wait_list' = list_remove(wait_list, h)
                /\ waiters' = [s \in Semaphores |-> list_remove(waiters[s], h)]
                /\ frame' = [frame EXCEPT ![t].pc = "down", ![t].sema = frame[t].lock,
                                          ![t].dlock = NULL, ![t].depth = 0]
           ELSE /\ frame' = [frame EXCEPT ![t].dlock = next, ![t].depth = @ + 1]
                /\ UNCHANGED <<ready_list, wait_list, waiters>>
        /\ UNCHANGED <<original_priority, status, cur, thread_ticks, fault>>

DepthLeft(t) == frame[t].depth + 1 < PRI_DONATION_MAX_DEPTH

Donate(t) ==
    /\ At(t, "donate") /\ DepthLeft(t)
    /\ LET h == holder[frame[t].dlock]
       IN  IF h = NULL
           THEN Crash("null_holder") /\ UNCHANGED <<wait_list, waiters>>
           ELSE DonateStep(t, h)
    /\ UNCHANGED <<in_external_intr, remaining, value, lockVars, cond_waiters>>

DonateStop(t) ==
    /\ At(t, "donate") /\ ~ DepthLeft(t)
    /\ frame' = [frame EXCEPT ![t].pc = "down", ![t].sema = frame[t].lock,
                              ![t].dlock = NULL, ![t].depth = 0]
    /\ UNCHANGED <<cpuVars, priorityVars, in_external_intr, fault, alarmVars, synchVars>>

\* The priority list_begin() finds on a semaphore's waiters; on an empty
\* list that is the word in front of it in memory, the semaphore's value.
FrontPriority(s) ==
    IF waiters[s] = <<>> THEN value[s]
    ELSE priority[Head(list_sort(waiters[s], priority))]

\* thread_next_priority(): the base priority, or the highest one waiting for
\* a lock still held.  It leaves those locks' waiters sorted.
thread_next_priority(t, rest) ==
    /\ priority' = [priority EXCEPT
                       ![t] = Max({original_priority[t]} \union
                                  {FrontPriority(l) : l \in ToSet(rest)})]
    /\ waiters' = [s \in Semaphores |-> IF s \in ToSet(rest)
                                        THEN list_sort(waiters[s], priority)
                                        ELSE waiters[s]]

-----------------------------------------------------------------------------
(* Locks.                                                                  *)

LockFrame(pc, l) == [UserFrame EXCEPT !.pc = pc, !.lock = l]

LockAcquire(t, l) ==
    /\ At(t, "user")
    /\ holder[l] # t
    /\ frame' = [frame EXCEPT ![t] = LockFrame("check_holder", l)]
    /\ UNCHANGED <<cpuVars, priorityVars, in_external_intr, fault, alarmVars, synchVars>>

\* Mutant: a lock without a holder is taken without its semaphore.
CheckHolderTakes(t) ==
    /\ At(t, "check_holder")
    /\ frame' = IF holder[frame[t].lock] # NULL
                THEN [frame EXCEPT ![t].pc = "mark_waiting"]
                ELSE [frame EXCEPT ![t].pc = "take"]
    /\ UNCHANGED <<cpuVars, priorityVars, in_external_intr, fault, alarmVars, synchVars>>

\* The test of lock->holder, with interrupts on.
CheckHolder(t) ==
    /\ At(t, "check_holder")
    /\ frame' = IF holder[frame[t].lock] # NULL
                THEN [frame EXCEPT ![t].pc = "mark_waiting"]
                ELSE [frame EXCEPT ![t].pc = "down", ![t].sema = frame[t].lock]
    /\ UNCHANGED <<cpuVars, priorityVars, in_external_intr, fault, alarmVars, synchVars>>

MarkWaiting(t) ==
    /\ At(t, "mark_waiting")
    /\ wait_for_lock' = [wait_for_lock EXCEPT ![t] = frame[t].lock]
    /\ frame' = [frame EXCEPT ![t].pc = "donate", ![t].dlock = frame[t].lock]
    /\ UNCHANGED <<cpuVars, priorityVars, in_external_intr, fault, alarmVars, semaVars,
                   holder, acquired_locks, cond_waiters>>

\* The last block of lock_acquire(); allocate_tid() then releases tid_lock.
Take(t) ==
    /\ At(t, "take")
    /\ LET l == frame[t].lock
       IN  /\ wait_for_lock' = [wait_for_lock EXCEPT ![t] = NULL]
           /\ holder' = [holder EXCEPT ![l] = t]
           /\ acquired_locks' = [acquired_locks EXCEPT ![t] = list_push_back(@, l)]
    /\ IF frame[t].op = "thread_create" THEN Goto(t, "unlist") ELSE ReturnToUser(t)
    /\ UNCHANGED <<cpuVars, priorityVars, in_external_intr, fault, alarmVars, semaVars,
                   cond_waiters>>

\* lock_try_acquire() sets the holder with interrupts on, and never records
\* the lock in acquired_locks.
LockTryAcquire(t, l) ==
    /\ At(t, "user")
    /\ holder[l] # t
    /\ value[l] > 0
    /\ value' = [value EXCEPT ![l] = @ - 1]
    /\ frame' = [frame EXCEPT ![t] = LockFrame("try_take", l)]
    /\ UNCHANGED <<cpuVars, priorityVars, in_external_intr, fault, alarmVars, waiters,
                   lockVars, cond_waiters>>

TryTake(t) ==
    /\ At(t, "try_take")
    /\ holder' = [holder EXCEPT ![frame[t].lock] = t]
    /\ ReturnToUser(t)
    /\ UNCHANGED <<cpuVars, priorityVars, in_external_intr, fault, alarmVars, semaVars,
                   acquired_locks, wait_for_lock, cond_waiters>>

LockRelease(t, l) ==
    /\ At(t, "user")
    /\ holder[l] = t
    /\ frame' = [frame EXCEPT ![t] = LockFrame("unlist", l)]
    /\ UNCHANGED <<cpuVars, priorityVars, in_external_intr, fault, alarmVars, synchVars>>

\* The first block of lock_release(): unlink the lock, give up its donations.
\* list_remove() of a lock that is in no list asserts or corrupts memory.
Unlist(t) ==
    /\ At(t, "unlist")
    /\ LET l == frame[t].lock
           rest == list_remove(acquired_locks[t], l)
       IN  IF l \in ToSet(acquired_locks[t])
           THEN /\ acquired_locks' = [acquired_locks EXCEPT ![t] = rest]
                /\ thread_next_priority(t, rest)
                /\ Goto(t, "clear_holder")
                /\ UNCHANGED <<original_priority, cpuVars, in_external_intr, fault>>
           ELSE Crash("unlinked_lock") /\ UNCHANGED <<acquired_locks, waiters>>
    /\ UNCHANGED <<alarmVars, value, holder, wait_for_lock, cond_waiters>>

\* Interrupts are on again here.
ClearHolder(t) ==
    /\ At(t, "clear_holder")
    /\ holder' = [holder EXCEPT ![frame[t].lock] = NULL]
    /\ frame' = [frame EXCEPT ![t].pc = "up", ![t].sema = frame[t].lock]
    /\ UNCHANGED <<cpuVars, priorityVars, in_external_intr, fault, alarmVars, semaVars,
                   acquired_locks, wait_for_lock, cond_waiters>>

-----------------------------------------------------------------------------
(* Condition variables.                                                    *)

\* cond_wait() up to lock_release(): a fresh semaphore, queued on the
\* condition.  AfterUp and AfterDown lead through the rest.
CondWait(t, c) ==
    /\ At(t, "user")
    /\ holder[CondLock[c]] = t
    /\ value' = [value EXCEPT ![t] = 0]
    /\ waiters' = [waiters EXCEPT ![t] = <<>>]
    /\ cond_waiters' = [cond_waiters EXCEPT ![c] = list_push_back(@, t)]
    /\ frame' = [frame EXCEPT ![t] =
                    [LockFrame("unlist", CondLock[c]) EXCEPT !.op = "cond_wait"]]
    /\ UNCHANGED <<cpuVars, priorityVars, in_external_intr, fault, alarmVars, lockVars>>

\* Mutant: the signalled waiter stays queued (list_front for list_pop_front).
SignalKeeps(t, c, f) ==
    LET key == [w \in Threads |-> FrontPriority(w)]
        sorted == list_sort(cond_waiters[c], key)
    IN  /\ cond_waiters' = [cond_waiters EXCEPT ![c] = sorted]
        /\ frame' = [frame EXCEPT ![t] = [f EXCEPT !.pc = "up", !.sema = Head(sorted)]]

\* The body of cond_signal(): sort the waiters and up the semaphore of the
\* first.
SignalFirst(t, c, f) ==
    LET key == [w \in Threads |-> FrontPriority(w)]
        sorted == list_sort(cond_waiters[c], key)
    IN  /\ cond_waiters' = [cond_waiters EXCEPT ![c] = Tail(sorted)]
        /\ frame' = [frame EXCEPT ![t] = [f EXCEPT !.pc = "up", !.sema = Head(sorted)]]

CondSignal(t, c) ==
    /\ At(t, "user")
    /\ holder[CondLock[c]] = t
    /\ cond_waiters[c] # <<>>
    /\ SignalFirst(t, c, UserFrame)
    /\ UNCHANGED <<cpuVars, priorityVars, in_external_intr, fault, alarmVars, semaVars, lockVars>>

CondBroadcast(t, c) ==
    /\ At(t, "user")
    /\ holder[CondLock[c]] = t
    /\ frame' = [frame EXCEPT ![t] = [FrameAt("broadcast") EXCEPT
                                         !.op = "cond_broadcast", !.cond = c]]
    /\ UNCHANGED <<cpuVars, priorityVars, in_external_intr, fault, alarmVars, synchVars>>

\* One turn of the loop of cond_broadcast().
BroadcastNext(t) ==
    /\ At(t, "broadcast")
    /\ LET c == frame[t].cond
       IN  IF cond_waiters[c] # <<>>
           THEN SignalFirst(t, c, frame[t])
           ELSE ReturnToUser(t) /\ UNCHANGED cond_waiters
    /\ UNCHANGED <<cpuVars, priorityVars, in_external_intr, fault, alarmVars, semaVars, lockVars>>
=============================================================================
