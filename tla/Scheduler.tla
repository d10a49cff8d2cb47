----------------------------- MODULE Scheduler ------------------------------
(***************************************************************************)
(* The priority scheduler of pintos-threads/src/threads/thread.c: struct   *)
(* thread, the ready list, the running thread and the time slice.          *)
(*                                                                         *)
(* One CPU.  Whatever runs with interrupts off is one step; a thread that  *)
(* is switched out resumes at frame[t].pc, its place in the kernel code.   *)
(* A thread is named by the page that holds its struct thread, so a page   *)
(* freed by thread_schedule_tail() can be used by a later thread_create(). *)
(***************************************************************************)
EXTENDS PriorityList

CONSTANTS Threads,      \* pages that can hold a client thread
          Main,         \* initial_thread
          Idle,         \* idle_thread
          NULL,
          Locks,        \* locks, each also the name of its semaphore
          TidLock,      \* tid_lock of allocate_tid(), one of Locks
          Semas,        \* plain semaphores
          Conds,        \* condition variables
          PRI_MAX,
          TIME_SLICE,
          PRI_DONATION_MAX_DEPTH,
          BootList,     \* ready list when modelling starts, Main running
          InitPriority  \* priority each thread of the boot state has

Tasks == Threads \union {Idle}
PRI_MIN == 0
Priorities == PRI_MIN .. PRI_MAX

\* A thread in cond_wait() blocks on a semaphore in its own stack frame: the
\* semaphore named by the thread.
Semaphores == Locks \union Semas \union Threads

\* The C objects are distinct; the boot list holds each created thread once, in
\* order, and none outranks main, which still runs after thread_create()'s check.
ASSUME ObjectsAssumption ==
    /\ Main \in Threads /\ Idle \notin Threads
    /\ TidLock \in Locks
    /\ NULL \notin Tasks \union Semaphores \union Conds
    /\ Locks \intersect Semas = {}
    /\ Threads \intersect (Locks \union Semas) = {}

ASSUME NumbersAssumption ==
    /\ PRI_MAX \in Nat \ {0}
    /\ TIME_SLICE \in Nat \ {0}
    /\ PRI_DONATION_MAX_DEPTH \in Nat \ {0}

ASSUME BootAssumption ==
    /\ InitPriority \in [Threads -> Priorities]
    /\ BootList \in Seq(Threads \ {Main})
    /\ \A i, j \in DOMAIN BootList : BootList[i] = BootList[j] => i = j
    /\ Sorted(BootList, InitPriority)
    /\ \A i \in DOMAIN BootList : InitPriority[BootList[i]] <= InitPriority[Main]

VARIABLES status,             \* enum thread_status, "free": no such thread
          priority,
          original_priority,
          ready_list,
          cur,                \* running_thread()
          thread_ticks,       \* ticks since the last switch
          frame,              \* where each thread is, with its locals
          in_external_intr,   \* interrupt.c: an interrupt handler is running
          fault               \* the kernel stopped: failed ASSERT or NULL use

cpuVars == <<status, ready_list, cur, thread_ticks>>
priorityVars == <<priority, original_priority>>
schedVars == <<cpuVars, priorityVars, frame, in_external_intr, fault>>

Statuses == {"free", "blocked", "ready", "running", "dying"}
Faults == {"none", "null_holder", "unlinked_lock", "yield_in_interrupt"}

\* Places at which a thread can be switched out (or interrupted).
PCs == {"user",
        "create_unblock", "create_check",              \* thread_create
        "sleep_insert", "sleep_blocked",               \* timer_sleep
        "down", "down_blocked", "up",                  \* sema_down, sema_up
        "check_holder", "mark_waiting", "donate", "take",  \* lock_acquire
        "try_take",                                    \* lock_try_acquire
        "unlist", "clear_holder",                      \* lock_release
        "broadcast",                                   \* cond_broadcast
        "hlt", "block"}                                \* idle

\* API call a nested lock or semaphore operation returns to.
Ops == {"none", "thread_create", "cond_wait", "cond_broadcast"}

FrameType ==
    [pc : PCs, op : Ops,
     lock : Locks \union {NULL}, sema : Semaphores \union {NULL},
     cond : Conds \union {NULL}, child : Threads \union {NULL},
     dlock : Locks \union {NULL}, depth : 0 .. PRI_DONATION_MAX_DEPTH]

FrameAt(pc) == [pc |-> pc, op |-> "none", lock |-> NULL, sema |-> NULL,
                cond |-> NULL, child |-> NULL, dlock |-> NULL, depth |-> 0]
UserFrame == FrameAt("user")

\* State after thread_init() and thread_start(): main runs, the idle thread
\* has blocked itself, and main has created the threads of BootList.
SchedInit ==
    /\ status = [t \in Tasks |-> IF t = Main THEN "running"
                                 ELSE IF t = Idle THEN "blocked"
                                 ELSE IF t \in ToSet(BootList) THEN "ready"
                                 ELSE "free"]
    /\ priority = [t \in Tasks |-> IF t = Idle THEN PRI_MIN ELSE InitPriority[t]]
    /\ original_priority = priority
    /\ ready_list = BootList
    /\ cur = Main
    /\ thread_ticks = 0
    /\ frame = [t \in Tasks |-> IF t = Idle THEN FrameAt("hlt") ELSE UserFrame]
    /\ in_external_intr = FALSE
    /\ fault = "none"

-----------------------------------------------------------------------------
(* The scheduler's functions.  Each takes the ready list, the statuses and *)
(* the priorities its caller has just computed, and sets cpuVars.          *)

\* Thread t executes its next step: it has the CPU and nobody interrupts it.
At(t, pc) ==
    /\ fault = "none" /\ ~ in_external_intr
    /\ cur = t /\ frame[t].pc = pc

\* The running code can be interrupted.  A thread switched back into the
\* loop of sema_down() still has interrupts off.
Interruptible ==
    /\ fault = "none" /\ ~ in_external_intr
    /\ frame[cur].pc # "down_blocked"

next_thread_to_run(list) == IF list = <<>> THEN Idle ELSE Head(list)

\* schedule(), then thread_schedule_tail() in the thread switched to: it
\* runs with a new slice and a dying predecessor's page is freed.
schedule(list, st) ==
    LET next == next_thread_to_run(list)
        reaped == [t \in Tasks |-> IF st[t] = "dying" /\ t # Main
                                   THEN "free" ELSE st[t]]
    IN  /\ cur' = next
        /\ ready_list' = IF list = <<>> THEN <<>> ELSE Tail(list)
        /\ status' = [reaped EXCEPT ![next] = "running"]
        /\ thread_ticks' = 0

thread_block == schedule(ready_list, [status EXCEPT ![cur] = "blocked"])

\* Mutant: the ready list of the original kernel, first come first served.
UnblockedAtBack(t) == list_push_back(ready_list, t)

\* thread_unblock(t), as the ready list and the statuses it leaves.
UnblockedList(t) == list_insert_ordered(ready_list, t, priority)
UnblockedStatus(t) == [status EXCEPT ![t] = "ready"]

thread_yield(list, st, pri) ==
    schedule(IF cur = Idle THEN list ELSE list_insert_ordered(list, cur, pri),
             [st EXCEPT ![cur] = "ready"])

\* No switch: the caller's ready list and statuses take effect.
KeepCPU(list, st) ==
    /\ ready_list' = list /\ status' = st
    /\ UNCHANGED <<cur, thread_ticks>>

\* The test of thread_check_priority() and thread_check_priority_intr().
Outranked(list, pri) == list # <<>> /\ pri[Head(list)] > pri[cur]

thread_check_priority(list, st, pri) ==
    IF Outranked(list, pri) THEN thread_yield(list, st, pri)
                            ELSE KeepCPU(list, st)

-----------------------------------------------------------------------------
(* thread.c's own entry points.                                            *)

Goto(t, pc) == frame' = [frame EXCEPT ![t].pc = pc]
ReturnToUser(t) == frame' = [frame EXCEPT ![t] = UserFrame]

ThreadYield(t) ==
    /\ At(t, "user")
    /\ thread_yield(ready_list, status, priority)
    /\ UNCHANGED <<priorityVars, frame, in_external_intr, fault>>

ThreadExit(t) ==
    /\ At(t, "user")
    /\ schedule(ready_list, [status EXCEPT ![t] = "dying"])
    /\ UNCHANGED <<priorityVars, frame, in_external_intr, fault>>

\* The base priority always changes; the effective one only when the new
\* value is lower and no donation is in effect.
SetsEffective(t, new) == new < priority[t] /\ original_priority[t] = priority[t]

ThreadSetPriority(t, new) ==
    /\ At(t, "user")
    /\ original_priority' = [original_priority EXCEPT ![t] = new]
    /\ IF SetsEffective(t, new)
       THEN LET lowered == [priority EXCEPT ![t] = new]
            IN  /\ priority' = lowered
                /\ thread_check_priority(ready_list, status, lowered)
       ELSE UNCHANGED <<priority, cpuVars>>
    /\ UNCHANGED <<frame, in_external_intr, fault>>

\* thread_create() up to allocate_tid(): palloc_get_page() and init_thread().
\* allocate_tid() then acquires and releases tid_lock.
ThreadCreate(t, child, pri) ==
    /\ At(t, "user")
    /\ status[child] = "free"
    /\ status' = [status EXCEPT ![child] = "blocked"]
    /\ priority' = [priority EXCEPT ![child] = pri]
    /\ original_priority' = [original_priority EXCEPT ![child] = pri]
    /\ frame' = [frame EXCEPT
                    ![child] = UserFrame,
                    ![t] = [UserFrame EXCEPT !.pc = "check_holder",
                                             !.op = "thread_create",
                                             !.lock = TidLock,
                                             !.child = child]]
    /\ UNCHANGED <<ready_list, cur, thread_ticks, in_external_intr, fault>>

\* Mutant: the status is set and the list forgotten.
CreateUnblockUnlisted(t) ==
    /\ At(t, "create_unblock")
    /\ KeepCPU(ready_list, UnblockedStatus(frame[t].child))
    /\ Goto(t, "create_check")
    /\ UNCHANGED <<priorityVars, in_external_intr, fault>>

\* Interrupts are on between thread_unblock() and thread_check_priority().
CreateUnblock(t) ==
    /\ At(t, "create_unblock")
    /\ KeepCPU(UnblockedList(frame[t].child), UnblockedStatus(frame[t].child))
    /\ Goto(t, "create_check")
    /\ UNCHANGED <<priorityVars, in_external_intr, fault>>

CreateCheck(t) ==
    /\ At(t, "create_check")
    /\ ReturnToUser(t)
    /\ thread_check_priority(ready_list, status, priority)
    /\ UNCHANGED <<priorityVars, in_external_intr, fault>>

\* An interrupt ends the idle thread's hlt.
AfterInterrupt ==
    IF cur = Idle THEN [frame EXCEPT ![Idle].pc = "block"] ELSE frame

\* The idle thread blocks itself and, when it is chosen because nothing else
\* is ready, waits at hlt for an interrupt.
IdleBlock ==
    /\ At(Idle, "block")
    /\ thread_block
    /\ Goto(Idle, "hlt")
    /\ UNCHANGED <<priorityVars, in_external_intr, fault>>
=============================================================================
