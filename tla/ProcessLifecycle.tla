-------------------------- MODULE ProcessLifecycle --------------------------
(***************************************************************************)
(* The life of user processes in pintos-user-programs: run, exec, load,    *)
(* wait and exit, from userprog/process.c, userprog/syscall.c and the      *)
(* parts of threads/thread.c they added.  A parent and its child share a   *)
(* struct child_process that the parent allocates and the parent frees.    *)
(* Threads are preempted between any two statements, so a step is as much  *)
(* as no other process can tell apart.  Semaphores and the file lock are   *)
(* their counters and holders: how a thread sleeps on one is Synch's part. *)
(***************************************************************************)
EXTENDS Integers, FiniteSets

CONSTANTS
  MaxPid,    \* bound: thread ids handed out, the initial thread's included
  Statuses,  \* what a program passes to exit()
  Programs   \* what may go wrong in the programs of a boot: sets of mishaps

Main == 1                       \* the initial thread, which runs the tasks
Pids == 1..MaxPid
Blocks == 1..(MaxPid - 1)       \* the heap blocks a child_process fits in
None == 98                      \* no status has been returned
Unset == 99                     \* memory nobody has written yet
Zeroed == -1                    \* a lock in memory that was only cleared
Released == 0                   \* an initialised lock without a holder
Mishaps == {"early fault", "load failure", "orphans", "out of memory"}

ASSUME LifecycleAssumption ==
  /\ MaxPid \in Nat \ {0, 1}
  /\ Statuses \subseteq Int \ {None, Unset}
  /\ Programs \subseteq SUBSET Mishaps

VARIABLES
  pc,            \* where each thread is
  next_tid,      \* allocate_tid()'s counter
  all_list,      \* the threads is_thread_alive() finds
  parent,        \* t->parent
  cp,            \* t->cp, a pointer to a block
  heap,          \* what the blocks hold; pid 0 marks a free one
  child_list,    \* t->child_list, the blocks linked in it
  child,         \* the cp that sys_exec() and process_wait() keep on the stack
  exit_status,   \* the status syscall_exit() keeps on the stack
  lock_f,        \* Zeroed, Released, or the thread that holds it
  is_lock_init,
  power,         \* the machine: on, halted or panicked
  mishaps,       \* what the programs of this boot run into
  running,       \* history: the processes whose program has been started
  exec_answer,   \* history: what sys_exec() said of each process
  wait_answer,   \* history: the status each process was reaped with
  stale          \* history: some thread has used a record not its own

process == <<pc, child, exit_status>>
family == <<next_tid, all_list, parent, cp, child_list>>
machine == <<lock_f, is_lock_init, power, mishaps>>
history == <<running, exec_answer, wait_answer, stale>>
vars == <<process, family, heap, machine, history>>

NewRecord(pid) ==
  [pid |-> pid, waited |-> FALSE, loaded |-> FALSE, failed |-> FALSE,
   ret |-> Unset, sema_child_load |-> 0, sema_child_exit |-> 0]

Freed == NewRecord(0)

Init ==
  /\ pc = [p \in Pids |-> IF p = Main THEN "user" ELSE "unborn"]
  /\ next_tid = 2
  /\ all_list = {Main}
  /\ parent = [p \in Pids |-> -1]
  /\ cp = [p \in Pids |-> 0]
  /\ heap = [b \in Blocks |-> Freed]
  /\ child_list = [p \in Pids |-> {}]
  /\ child = [p \in Pids |-> 0]
  /\ exit_status = [p \in Pids |-> Unset]
  /\ lock_f = Zeroed
  /\ is_lock_init = FALSE
  /\ power = "on"
  /\ mishaps \in Programs
  /\ running = {}
  /\ exec_answer = [p \in Pids |-> 0]
  /\ wait_answer = [p \in Pids |-> None]
  /\ stale = FALSE

At(p, place) == power = "on" /\ pc[p] = place
Goto(p, place) == pc' = [pc EXCEPT ![p] = place]
Panic == power' = "panic" /\ UNCHANGED <<lock_f, is_lock_init, mishaps>>

is_thread_alive(pid) == pid \in all_list
process_get_child(p, c) == {b \in child_list[p] : heap[b].pid = c}

(***************************************************************************)
(* A record that has been freed, or handed to another child since, is      *)
(* stale.  sema_up() on a freed one follows the poisoned list of waiters   *)
(* and panics; on one handed out again it ups another child's semaphore.   *)
(***************************************************************************)
Touch(p) == stale' = (stale \/ heap[cp[p]].pid # p)

SemaUp(p, sema) ==
  /\ Touch(p)
  /\ IF heap[cp[p]].pid = 0
     THEN Panic /\ UNCHANGED heap
     ELSE heap' = [heap EXCEPT ![cp[p]][sema] = @ + 1] /\ UNCHANGED machine

-----------------------------------------------------------------------------
(***************************************************************************)
(* malloc() hands out a block freed before rather than a fresh one.        *)
(***************************************************************************)
Allocated(b) ==
  /\ heap[b].pid = 0
  /\ \A a \in 1..(b - 1) : heap[a].pid # 0

(* thread_create() in process_execute(). *)
Fork(p, b) ==
  /\ next_tid <= MaxPid
  /\ Allocated(b)
  /\ next_tid' = next_tid + 1
  /\ all_list' = all_list \cup {next_tid}
  /\ parent' = [parent EXCEPT ![next_tid] = p]
  /\ cp' = [cp EXCEPT ![next_tid] = b]
  /\ heap' = [heap EXCEPT ![b] = NewRecord(next_tid)]
  /\ child_list' = [child_list EXCEPT ![p] = @ \cup {b}]
  /\ child' = [child EXCEPT ![p] = b]

TaskWaits == "run_wait"

(* run_task(): process_execute() and, without a check, process_wait(). *)
RunTask ==
  /\ At(Main, "user")
  /\ \E b \in Blocks : Fork(Main, b)
  /\ pc' = [pc EXCEPT ![Main] = TaskWaits, ![next_tid] = "start"]
  /\ UNCHANGED <<exit_status, machine, history>>

RunWait ==
  /\ At(Main, "run_wait")
  /\ heap' = [heap EXCEPT ![child[Main]].waited = TRUE]
  /\ Goto(Main, "wait")
  /\ UNCHANGED <<child, exit_status, family, machine, history>>

(***************************************************************************)
(* The last task is done: shutdown().  Booted with -q or -r the machine    *)
(* goes down; by default shutdown() returns and main() goes on to          *)
(* thread_exit(), like any process.  Only shutdown() reads how it is to go *)
(* down.  A program that calls halt() ends the behaviour where it stands   *)
(* and is left out, as is the record of the idle thread, which never ends. *)
(***************************************************************************)
Shutdown ==
  /\ At(Main, "user")
  /\ \/ power' = "off" /\ UNCHANGED pc
     \/ Goto(Main, "cleanup") /\ UNCHANGED power
  /\ UNCHANGED <<child, exit_status, family, heap, lock_f, is_lock_init,
                 mishaps, history>>

(***************************************************************************)
(* syscall_handler() initialises lock_f on the way to the first call.      *)
(***************************************************************************)
FirstCall(p) ==
  /\ At(p, "user") /\ p # Main /\ ~is_lock_init
  /\ Goto(p, "init_lock")
  /\ UNCHANGED <<child, exit_status, family, heap, machine, history>>

\* Mutant: the flag is set, lock_init() is not called.
FlagOnly == UNCHANGED lock_f

LockInit == lock_f' = Released

InitLock(p) ==
  /\ At(p, "init_lock")
  /\ LockInit
  /\ is_lock_init' = TRUE
  /\ Goto(p, "user")
  /\ UNCHANGED <<child, exit_status, family, heap, power, mishaps, history>>

Calls(p) == At(p, "user") /\ p # Main /\ is_lock_init

Exec(p) ==
  /\ Calls(p)
  /\ \E b \in Blocks : Fork(p, b)
  /\ pc' = [pc EXCEPT ![p] = "exec", ![next_tid] = "start"]
  /\ UNCHANGED <<exit_status, machine, history>>

\* Mutant: the answer is given without waiting for the child.
NeverSleeps(r) == FALSE

MustSleep(r) == ~(r.loaded \/ r.failed)

(* sys_exec() sleeps only if the child has not set either bit yet. *)
ExecCheck(p) ==
  /\ At(p, "exec")
  /\ Goto(p, IF MustSleep(heap[child[p]]) THEN "exec_down" ELSE "exec_result")
  /\ UNCHANGED <<child, exit_status, family, heap, machine, history>>

Downable(value) == value > 0

ExecDown(p) ==
  /\ At(p, "exec_down")
  /\ Downable(heap[child[p]].sema_child_load)
  /\ heap' = [heap EXCEPT ![child[p]].sema_child_load = @ - 1]
  /\ Goto(p, "exec_result")
  /\ UNCHANGED <<child, exit_status, family, machine, history>>

\* Mutant: the record is freed and stays in the list of children.
FreeStillListed(p, bs) ==
  /\ heap' = [b \in Blocks |-> IF b \in bs THEN Freed ELSE heap[b]]
  /\ UNCHANGED family

FreeRecords(p, bs) ==
  /\ heap' = [b \in Blocks |-> IF b \in bs THEN Freed ELSE heap[b]]
  /\ child_list' = [child_list EXCEPT ![p] = @ \ bs]
  /\ UNCHANGED <<next_tid, all_list, parent, cp>>

\* Mutant: the record goes whether loading failed or not.
FreedAnyway(b) == {b}

FreedByExec(b) == IF heap[b].failed THEN {b} ELSE {}

ExecResult(p) ==
  LET b == child[p]
      c == heap[b].pid
  IN /\ At(p, "exec_result")
     /\ FreeRecords(p, FreedByExec(b))
     /\ exec_answer' = [exec_answer EXCEPT ![c] = IF heap[b].failed THEN -1 ELSE c]
     /\ Goto(p, "user")
     /\ child' = [child EXCEPT ![p] = 0]
     /\ UNCHANGED <<exit_status, machine, running, wait_answer, stale>>

(***************************************************************************)
(* start_process() in the child.  load() sets one of the two bits in the   *)
(* record before the semaphore is upped.                                   *)
(***************************************************************************)
Load(p) ==
  /\ At(p, "start")
  /\ Touch(p)
  /\ \E success \in BOOLEAN :
       /\ success \/ "load failure" \in mishaps
       /\ heap' = [heap EXCEPT ![cp[p]].loaded = success,
                               ![cp[p]].failed = ~success]
       /\ Goto(p, IF success THEN "loaded" ELSE "failed")
       /\ running' = IF success THEN running \cup {p} ELSE running
  /\ UNCHANGED <<child, exit_status, family, machine, exec_answer, wait_answer>>

\* Mutant: a child that could not be loaded leaves at once.
UpIfLoaded(p) ==
  IF pc[p] = "loaded" THEN SemaUp(p, "sema_child_load")
  ELSE UNCHANGED <<heap, machine, stale>>

UpLoad(p) == SemaUp(p, "sema_child_load")

Loaded(p) ==
  /\ At(p, "loaded") \/ At(p, "failed")
  /\ UpLoad(p)
  /\ Goto(p, IF pc[p] = "loaded" THEN "user" ELSE "cleanup")
  /\ UNCHANGED <<child, exit_status, family, running, exec_answer, wait_answer>>

(***************************************************************************)
(* process_wait().  A pid that is no child's, or one already waited for,   *)
(* is answered -1 at once.                                                 *)
(***************************************************************************)
Wait(p, c) ==
  /\ Calls(p)
  /\ \/ /\ \E b \in process_get_child(p, c) :
             /\ ~heap[b].waited
             /\ heap' = [heap EXCEPT ![b].waited = TRUE]
             /\ child' = [child EXCEPT ![p] = b]
        /\ Goto(p, "wait")
     \/ /\ \A b \in process_get_child(p, c) : heap[b].waited
        /\ UNCHANGED <<pc, heap, child>>
  /\ UNCHANGED <<exit_status, family, machine, history>>

Reap(p) ==
  LET b == child[p]
  IN /\ At(p, "wait")
     /\ heap[b].sema_child_exit > 0
     /\ wait_answer' = [wait_answer EXCEPT ![heap[b].pid] = heap[b].ret]
     /\ FreeRecords(p, {b})
     /\ Goto(p, "user")
     /\ child' = [child EXCEPT ![p] = 0]
     /\ UNCHANGED <<exit_status, machine, running, exec_answer, stale>>

-----------------------------------------------------------------------------
(***************************************************************************)
(* A system call on files acquires and releases lock_f, which disturbs     *)
(* nothing here, unless malloc() fails in sys_open(), which then keeps it. *)
(* Acquiring a lock one holds, or one that is still zeroed memory, fails   *)
(* an assertion; one that another thread holds is waited for.              *)
(***************************************************************************)
LockPanics(p) ==
  /\ lock_f \in {Zeroed, p}
  /\ Panic
  /\ UNCHANGED <<process, family, heap, history>>

FileCall(p) ==
  /\ Calls(p)
  /\ \/ /\ lock_f = Released
        /\ "out of memory" \in mishaps
        /\ lock_f' = p
        /\ UNCHANGED <<process, family, heap, is_lock_init, power, mishaps,
                       history>>
     \/ LockPanics(p)

-----------------------------------------------------------------------------
(***************************************************************************)
(* syscall_exit(), from exit() or from the handler of a fault; what a      *)
(* program may run into decides when it may end.                           *)
(***************************************************************************)
MayEnd(p) ==
  /\ p # Main
  /\ is_lock_init \/ "early fault" \in mishaps
  /\ child_list[p] = {} \/ "orphans" \in mishaps

SyscallExit(p, s) ==
  /\ At(p, "user") /\ MayEnd(p)
  /\ is_lock_init \/ s = -1
  /\ exit_status' = [exit_status EXCEPT ![p] = IF s < 0 THEN -1 ELSE s]
  /\ Goto(p, IF is_thread_alive(parent[p]) THEN "exit_ret" ELSE "cleanup")
  /\ UNCHANGED <<child, family, heap, machine, history>>

\* Mutant: the status is not handed over.
RetDropped(p) == heap

RetWritten(p) == [heap EXCEPT ![cp[p]].ret = exit_status[p]]

(* A write to a freed block changes nothing that is read again. *)
ExitRet(p) ==
  /\ At(p, "exit_ret")
  /\ Touch(p)
  /\ heap' = IF heap[cp[p]].pid = 0 THEN heap ELSE RetWritten(p)
  /\ Goto(p, "cleanup")
  /\ UNCHANGED <<child, exit_status, family, machine, running, exec_answer,
                 wait_answer>>

(***************************************************************************)
(* process_exit(): close the files under lock_f, then free the records of  *)
(* the children.                                                           *)
(***************************************************************************)
ExitCleanup(p) ==
  /\ At(p, "cleanup")
  /\ \/ /\ lock_f = Released
        /\ FreeRecords(p, child_list[p])
        /\ Goto(p, "exit_check")
        /\ UNCHANGED <<child, exit_status, machine, history>>
     \/ LockPanics(p)

ExitCheck(p) ==
  /\ At(p, "exit_check")
  /\ Goto(p, IF is_thread_alive(parent[p]) THEN "exit_up" ELSE "dying")
  /\ UNCHANGED <<child, exit_status, family, heap, machine, history>>

ExitUp(p) ==
  /\ At(p, "exit_up")
  /\ SemaUp(p, "sema_child_exit")
  /\ Goto(p, "dying")
  /\ UNCHANGED <<child, exit_status, family, running, exec_answer, wait_answer>>

ThreadExit(p) ==
  /\ At(p, "dying")
  /\ all_list' = all_list \ {p}
  /\ Goto(p, "gone")
  /\ UNCHANGED <<child, exit_status, next_tid, parent, cp, child_list, heap,
                 machine, history>>

-----------------------------------------------------------------------------
(* The steps a thread takes by itself once the scheduler gives it the CPU. *)
Runs(p) ==
  \/ InitLock(p) \/ ExecCheck(p) \/ ExecDown(p) \/ ExecResult(p)
  \/ Load(p) \/ Loaded(p) \/ Reap(p)
  \/ ExitRet(p) \/ ExitCleanup(p) \/ ExitCheck(p) \/ ExitUp(p)
  \/ ThreadExit(p)

Next ==
  \/ RunTask \/ RunWait \/ Shutdown
  \/ \E p \in Pids :
       \/ Runs(p) \/ FirstCall(p) \/ Exec(p) \/ FileCall(p)
       \/ \E c \in Pids : Wait(p, c)
       \/ \E s \in Statuses \cup {-1} : SyscallExit(p, s)

(***************************************************************************)
(* The ready list is first in, first out and a time slice ends in a yield, *)
(* so a thread that can run does run; what its program calls is up to it.  *)
(***************************************************************************)
Fairness == WF_vars(RunWait) /\ \A p \in Pids : WF_vars(Runs(p))

Spec == Init /\ [][Next]_vars /\ Fairness
=============================================================================
