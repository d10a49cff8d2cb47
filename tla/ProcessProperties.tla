-------------------------- MODULE ProcessProperties --------------------------
(* What must hold of the processes of ProcessLifecycle. *)
EXTENDS ProcessLifecycle

Places ==
  {"unborn", "start", "loaded", "failed", "user", "init_lock", "exec",
   "exec_down", "exec_result", "run_wait", "wait", "exit_ret", "cleanup",
   "exit_check", "exit_up", "dying", "gone"}

Returned == Statuses \cup {-1, Unset}

Records ==
  [pid : Pids \cup {0}, waited : BOOLEAN, loaded : BOOLEAN, failed : BOOLEAN,
   ret : Returned, sema_child_load : Nat, sema_child_exit : Nat]

(* The type of every variable. *)
TypeOK ==
  /\ pc \in [Pids -> Places]
  /\ next_tid \in 2..(MaxPid + 1)
  /\ all_list \subseteq Pids
  /\ parent \in [Pids -> Pids \cup {-1}]
  /\ cp \in [Pids -> Blocks \cup {0}]
  /\ heap \in [Blocks -> Records]
  /\ child_list \in [Pids -> SUBSET Blocks]
  /\ child \in [Pids -> Blocks \cup {0}]
  /\ exit_status \in [Pids -> Returned]
  /\ lock_f \in {Zeroed, Released} \cup Pids
  /\ is_lock_init \in BOOLEAN
  /\ power \in {"on", "off", "panic"}
  /\ mishaps \subseteq Mishaps
  /\ running \subseteq Pids
  /\ exec_answer \in [Pids -> Pids \cup {0, -1}]
  /\ wait_answer \in [Pids -> Returned \cup {None}]
  /\ stale \in BOOLEAN

(***************************************************************************)
(* The records of the children are neither leaked nor freed twice: a block *)
(* is in use exactly when it is in a child_list, the list of the thread    *)
(* that created the child, and a call in progress holds one of its own.    *)
(* process_wait(), sys_exec() and process_exit() all free them.            *)
(***************************************************************************)
RecordsOwned ==
  /\ \A b \in Blocks :
       (heap[b].pid # 0) <=> \E p \in Pids : b \in child_list[p]
  /\ \A p \in Pids : \A b \in child_list[p] :
       parent[heap[b].pid] = p /\ cp[heap[b].pid] = b
  /\ \A p \in Pids : child[p] # 0 => child[p] \in child_list[p]
  /\ \A p \in Pids : pc[p] = "gone" => child_list[p] = {}

(***************************************************************************)
(* syscall_handler() tests and initialises lock_f without any protection;  *)
(* it is still initialised once, before anyone takes it, because no second *)
(* program runs until the first has made a system call.                    *)
(***************************************************************************)
LockInitOnce ==
  \A p \in Pids : pc[p] = "init_lock" => lock_f = Zeroed /\ ~is_lock_init

(***************************************************************************)
(* A thread uses the record of another child only where a load has failed  *)
(* or a program ends before it has waited for the children it started.     *)
(***************************************************************************)
StaleOnlyAfterMishap ==
  mishaps \cap {"load failure", "orphans"} = {} => ~stale

(***************************************************************************)
(* The kernel panics in three ways.  A thread exits, and acquires lock_f,  *)
(* before any program has made a system call: main() does so where nothing *)
(* shuts the machine down, a program only after a fault or a failed load.  *)
(* A thread acquires lock_f when it has it, because sys_open() kept it     *)
(* when malloc() failed.  A record that its parent has freed is upped.     *)
(***************************************************************************)
UnreadyLock ==
  /\ lock_f = Zeroed /\ ~is_lock_init
  /\ \E p \in Pids :
       /\ pc[p] = "cleanup"
       /\ p = Main \/ mishaps \cap {"early fault", "load failure"} # {}

KeptLock == lock_f \in Pids /\ "out of memory" \in mishaps

FreedRecord == stale /\ mishaps \cap {"load failure", "orphans"} # {}

OnlyKnownPanics == power = "panic" => UnreadyLock \/ KeptLock \/ FreedRecord

(* The code breaks this one: main() exits in a boot that runs no program. *)
NoPanic == mishaps = {} => power # "panic"

(***************************************************************************)
(* exec() answers with the pid of a child whose program was started, and   *)
(* with -1 only for one whose program was not: it never returns before the *)
(* child knows.                                                            *)
(***************************************************************************)
ExecTold ==
  ~stale => \A c \in Pids : /\ exec_answer[c] = c => c \in running
                            /\ exec_answer[c] = -1 => c \notin running

(***************************************************************************)
(* process_wait() and process_exit() implement ChildStatus: a parent is    *)
(* told the status its child gave exit(), once, and only after the child   *)
(* has closed its files and freed the records of its own children.  (Its   *)
(* page directory goes after the semaphore is upped.)                      *)
(***************************************************************************)
Life(p) ==
  IF wait_answer[p] # None THEN "reaped"
  ELSE IF pc[p] = "unborn" THEN "unborn"
  ELSE IF pc[p] \in {"dying", "gone"} THEN "ended" ELSE "alive"

Lives == [p \in Pids |-> Life(p)]

Outcomes ==
  [p \in Pids |-> IF pc[p] \in {"dying", "gone"} THEN exit_status[p] ELSE Unset]

Child == INSTANCE ChildStatus WITH
  Children <- Pids, Values <- Returned,
  life <- Lives, outcome <- Outcomes, answer <- wait_answer, broken <- stale

ImplementsChildStatus == Child!Spec

(***************************************************************************)
(* sys_exec() returns: the child's semaphore is upped whether its program  *)
(* could be loaded or not, or it was not slept on.  process_wait() returns *)
(* once the child is gone: a child that finds its parent alive ups the     *)
(* semaphore, and a parent that waits is alive.  process_exit() gets past  *)
(* lock_f, and the thread dies, unless a failed malloc() left it held.     *)
(***************************************************************************)
InExec(p) == p # Main /\ pc[p] \in {"exec", "exec_down", "exec_result"}
WaitsForGone(p) == pc[p] = "wait" /\ \E c \in Pids :
  heap[child[p]].pid = c /\ pc[c] = "gone"

CallsAnswered ==
  \A p \in Pids :
    /\ InExec(p) \/ WaitsForGone(p) ~> (pc[p] = "user" \/ power # "on")
    /\ pc[p] = "cleanup" ~> (pc[p] = "gone" \/ power # "on" \/ KeptLock)

(***************************************************************************)
(* The comment on process_wait() (userprog/process.c:142): "Waits for      *)
(* thread TID to die and returns its exit status."                         *)
(***************************************************************************)
WaitReturnsStatus ==
  \A c \in running : wait_answer[c] # None =>
    pc[c] \in {"dying", "gone"} /\ wait_answer[c] = exit_status[c]
=============================================================================
