--------------------------- MODULE KernelInvariant --------------------------
(***************************************************************************)
(* The inductive invariant of ThreadsKernel: types, what the frame of a    *)
(* thread inside the kernel holds, and who owns which lock.                *)
(***************************************************************************)
EXTENDS KernelProperties

\* The locals the code at f.pc, and the code it returns to, will read.
FrameShape(f) ==
    /\ f.pc \in {"check_holder", "mark_waiting", "donate", "take", "try_take",
                 "unlist", "clear_holder"} => f.lock \in Locks
    /\ f.pc = "donate" => f.dlock \in Locks
    /\ f.pc \in {"down", "down_blocked", "up"} => f.sema \in Semaphores
    /\ f.pc \in {"down", "down_blocked"} =>
          /\ f.sema \in Locks => f.lock = f.sema
          /\ f.sema \in Threads => f.lock \in Locks
    /\ f.op = "cond_wait" => f.lock \in Locks
    /\ f.op = "thread_create" \/ f.pc = "create_unblock" => f.child \in Threads
    /\ f.op = "cond_broadcast" \/ f.pc = "broadcast" => f.cond \in Conds

FramesOK == \A t \in Tasks : FrameShape(frame[t])

\* A lock has at most one owner, and its semaphore is up when it has none.
OneOwner == \A l \in Locks, t, u \in Threads : Owns(t, l) /\ Owns(u, l) => t = u
UpWhenFree ==
    \A l \in Locks : IF \E t \in Threads : Owns(t, l) THEN value[l] = 0 ELSE value[l] = 1

\* lock->holder is still set at the start of lock_release() and cleared at its
\* sema_up().
HolderUntilCleared ==
    \A t \in Threads :
        /\ frame[t].pc \in {"unlist", "clear_holder"} => holder[frame[t].lock] = t
        /\ frame[t].pc = "up" /\ frame[t].sema \in Locks => holder[frame[t].sema] = NULL

Ownership == OneOwner /\ UpWhenFree /\ HolderUntilCleared

\* A thread that does not exist is not inside the kernel, and does not run.
GoneFromKernel ==
    /\ \A t \in Threads : Gone(t) => frame[t].pc = "user"
    /\ ~ Gone(cur)

KernelInv == TypeOK /\ FramesOK /\ Ownership /\ GoneFromKernel

-----------------------------------------------------------------------------
(* What the refinement of Mutex needs besides: that a thread never asks    *)
(* for a lock it has.                                                      *)

\* The API call a frame belongs to; only allocate_tid() uses tid_lock, and it
\* never tries.
CallShape(f) ==
    /\ f.pc = "user" => f.op = "none"
    /\ f.pc = "broadcast" => f.op = "cond_broadcast"
    /\ f.op = "cond_wait" /\ f.pc = "up" => f.sema = f.lock
    /\ f.lock = TidLock => f.op = "thread_create" /\ f.pc # "try_take"

\* allocate_tid() releases tid_lock before it returns; cond_wait() blocks, and
\* acquires its lock again, when it has released it.
CallOK(t) ==
    /\ CallShape(frame[t])
    /\ holder[TidLock] = t =>
          frame[t].pc \in {"unlist", "clear_holder"} /\ frame[t].lock = TidLock
    /\ frame[t].pc \in {"down", "down_blocked"} /\ frame[t].sema \in Threads =>
          holder[frame[t].lock] # t

CallsOK == \A t \in Threads : CallOK(t)

-----------------------------------------------------------------------------
(* Where threads are linked.                                               *)

\* The child that a frame of thread_create() is still to start.
Starts(f) == IF f.pc = "create_check" THEN NULL ELSE f.child

\* The locals of thread_create() and cond_wait() while they are in lock code;
\* only cond_wait() waits for a semaphore that lives on a stack, its own.
OwnShape(t, f) ==
    /\ f.child # NULL => f.op = "thread_create"
    /\ f.op = "thread_create" =>
          /\ f.lock = TidLock
          /\ f.pc \in {"check_holder", "mark_waiting", "donate", "down", "down_blocked",
                       "take", "unlist", "clear_holder", "up",
                       "create_unblock", "create_check"}
          /\ f.pc \in {"down", "down_blocked", "up"} => f.sema = TidLock
    /\ f.pc \in {"down", "down_blocked"} /\ f.sema \in Threads =>
          f.sema = t /\ f.op = "cond_wait"

\* A child is started by one parent.
ChildrenOK ==
    /\ \A t \in Threads : OwnShape(t, frame[t])
    /\ \A p, q, c \in Threads : Starts(frame[p]) = c /\ Starts(frame[q]) = c => p = q

\* No list links a thread twice.
LinkedOnce ==
    /\ IsInjective(ready_list) /\ IsInjective(wait_list)
    /\ \A s \in Semaphores : IsInjective(waiters[s])

\* What the lists hold, as sets: the ready threads, the sleepers and those that
\* wait for each semaphore; with statuses st, c running and U not yet started.
Linking(ready, asleep, down, st, c, U) ==
    /\ \A t \in ready : t \notin asleep /\ \A s \in Semaphores : t \notin down[s]
    /\ \A t \in asleep, s \in Semaphores : t \notin down[s]
    /\ \A r, s \in Semaphores, t \in Threads : t \in down[r] /\ t \in down[s] => r = s
    /\ \A s \in Semaphores, t \in Threads : t \in down[s] => st[t] = "blocked"
    /\ \A t \in U : st[t] = "blocked"
    /\ \A t \in Threads :
          t \in ready \/ t \in asleep \/ (\E s \in Semaphores : t \in down[s])
            <=> st[t] \in {"ready", "blocked"} /\ t \notin U
    /\ \A t \in Tasks : st[t] = "running" <=> t = c

WaitersOf == [s \in Semaphores |-> ToSet(waiters[s])]
Unborn == {t \in Threads : Unstarted(t)}

\* A thread that lives and does not run is linked in one list, where it blocks.
ListsOK ==
    /\ LinkedOnce
    /\ Linking(ToSet(ready_list), ToSet(wait_list), WaitersOf, status, cur, Unborn)
    /\ \A t \in ToSet(wait_list) : frame[t].pc = "sleep_blocked"
    /\ \A s \in Semaphores : \A t \in ToSet(waiters[s]) :
          frame[t].pc = "down_blocked" /\ frame[t].sema = s

\* A donation moves a thread that is linked somewhere: the holder of a lock
\* lives, and it is not the donor, which waits for a lock itself.
HoldersLive ==
    /\ \A l \in Locks, t \in Threads :
          holder[l] = t => status[t] \in {"ready", "blocked", "running"} /\ ~ Unstarted(t)
    /\ \A t \in Threads : frame[t].pc = "donate" => wait_for_lock[t] # NULL

LinksInv == ChildrenOK /\ ListsOK /\ HoldersLive

-----------------------------------------------------------------------------
(* What the order of the CPU needs besides, of clients that neither block  *)
(* nor take another lock while they hold one: cond_wait() has released its *)
(* lock when it blocks.                                                    *)

HoldersKeepGoing ==
    HoldingCalls \intersect {"thread_create", "timer_sleep", "sema_down",
                             "lock_acquire", "lock_try_acquire"} = {}

\* Where the holder of a lock is, and where a thread is that waits for one.
HoldingPlaces == {"user", "unlist", "clear_holder", "up", "broadcast"}

HolderOK(t) ==
    /\ \A l \in Locks : holder[l] = t =>
          /\ frame[t].pc \in HoldingPlaces
          /\ frame[t].pc = "up" => frame[t].op \notin {"thread_create", "cond_wait"}
    /\ \A k, l \in Locks : holder[k] = t /\ holder[l] = t => k = l
    /\ wait_for_lock[t] # NULL =>
          /\ wait_for_lock[t] = frame[t].lock
          /\ \/ frame[t].pc \in {"donate", "take"}
             \/ frame[t].pc \in {"down", "down_blocked"} /\ frame[t].sema \in Locks
    /\ frame[t].pc = "donate" => frame[t].dlock = frame[t].lock
    /\ frame[t].depth = 0

HoldersOK == \A t \in Threads : HolderOK(t)

\* Nobody runs below its base priority, which is fixed.
BaseOK == \A t \in Threads : original_priority[t] <= priority[t]

\* l is t's, and t has not given up its donations; t waits for l, its donation
\* made.
TakenBy(t, l) ==
    \/ holder[l] = t /\ frame[t].pc # "clear_holder"
    \/ frame[t].pc \in {"take", "try_take"} /\ frame[t].lock = l
Donated(t, l) == wait_for_lock[t] = l /\ frame[t].pc \in {"down", "down_blocked"}

WaitersDonate ==
    \A l \in Locks, h, t \in Threads :
        TakenBy(h, l) /\ Donated(t, l) => priority[h] >= priority[t]

\* Whoever waits for a lock that is up has woken nobody it outranks.
BestWoken(l) == \E w \in Woken(l) : \A t \in ToSet(waiters[l]) : priority[w] >= priority[t]
FirstWoken == \A l \in Locks : value[l] = 1 /\ waiters[l] # <<>> => BestWoken(l)
=============================================================================
