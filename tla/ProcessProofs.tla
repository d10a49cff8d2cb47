--------------------------- MODULE ProcessProofs ---------------------------
(***************************************************************************)
(* The records that parents and children share are owned by one parent     *)
(* each, and are used by their own child only, unless a load has failed or *)
(* a program left children behind; the kernel panics in the known ways     *)
(* only.  As long as no record is used by another child, exec() says what  *)
(* the child knows of itself, and wait() implements ChildStatus: for any   *)
(* number of processes and any exit statuses.                              *)
(***************************************************************************)
EXTENDS ProcessProperties, TLAPS

USE LifecycleAssumption

FamilyTypes ==
  /\ pc \in [Pids -> Places]
  /\ next_tid \in 2..(MaxPid + 1)
  /\ parent \in [Pids -> Pids \cup {-1}]
  /\ cp \in [Pids -> Blocks \cup {0}]
  /\ heap \in [Blocks -> Records]
  /\ child_list \in [Pids -> SUBSET Blocks]
  /\ child \in [Pids -> Blocks \cup {0}]
  /\ exit_status \in [Pids -> Returned]
  /\ mishaps \subseteq Mishaps
  /\ stale \in BOOLEAN

OtherTypes ==
  /\ all_list \subseteq Pids
  /\ lock_f \in {Zeroed, Released} \cup Pids
  /\ is_lock_init \in BOOLEAN
  /\ power \in {"on", "off", "panic"}
  /\ running \subseteq Pids
  /\ exec_answer \in [Pids -> Pids \cup {0, -1}]
  /\ wait_answer \in [Pids -> Returned \cup {None}]

(* Where a thread has a child's record in hand, and where it is no longer. *)
Busy == {"exec", "exec_down", "exec_result", "run_wait", "wait"}
Ended == {"dying", "gone"}
Childless == {"exit_check", "exit_up"} \cup Ended

(* The initial thread runs the tasks and has no parent to tell of its end. *)
TaskPlaces == {"user", "run_wait", "wait", "cleanup", "exit_check"} \cup Ended

(* Threads are created in the order of their ids, once each. *)
Births ==
  /\ \A p \in Pids : p >= next_tid => pc[p] = "unborn"
  /\ \A b \in Blocks : heap[b].pid < next_tid
  /\ pc[Main] \in TaskPlaces /\ parent[Main] = -1
  /\ \A p \in Pids \ {Main} : pc[p] # "unborn" => cp[p] \in Blocks

(* The initial thread waits for each child it creates. *)
Hands ==
  /\ \A p \in Pids : child[p] # 0 <=> pc[p] \in Busy
  /\ child_list[Main] \subseteq {child[Main]}
  /\ \A p \in Pids : pc[p] \in Childless => child_list[p] = {}

(***************************************************************************)
(* As long as every program loads and waits for its children, the record   *)
(* of a child stays its own until it has upped the semaphore in it.        *)
(***************************************************************************)
Calm == mishaps \cap {"load failure", "orphans"} = {}

OwnRecord ==
  \A p \in Pids \ {Main} : pc[p] \notin {"unborn"} \cup Ended =>
    cp[p] \in Blocks /\ heap[cp[p]].pid = p

CalmRecords ==
  Calm => /\ \A p \in Pids : pc[p] # "failed"
          /\ \A p \in Pids : pc[p] \in {"exit_ret", "cleanup"} => child_list[p] = {}
          /\ \A b \in Blocks : ~heap[b].failed
          /\ \A b \in Blocks : heap[b].pid # 0 /\ heap[b].sema_child_exit > 0 =>
                                 pc[heap[b].pid] \in Ended
          /\ OwnRecord
          /\ ~stale

Family == FamilyTypes /\ Births /\ Hands /\ RecordsOwned /\ CalmRecords

(***************************************************************************)
(* lock_f is zeroed until it is initialised and kept only when malloc()    *)
(* fails.  A program that ends before has faulted or could not be loaded.  *)
(***************************************************************************)
Exiting == {"failed", "exit_ret", "cleanup"}
EndsEarly == mishaps \cap {"early fault", "load failure"} # {}

Locks ==
  /\ is_lock_init <=> lock_f # Zeroed
  /\ lock_f \in Pids => "out of memory" \in mishaps
  /\ \A p \in Pids \ {Main} : pc[p] \in Exiting => is_lock_init \/ EndsEarly
  /\ OnlyKnownPanics

ProcessInv == Family /\ OtherTypes /\ Locks

-----------------------------------------------------------------------------
LEMMA Numbers ==
  /\ Main \in Pids /\ 0 \notin Pids /\ 0 \notin Blocks
  /\ \A p \in Pids : p \in Int /\ p >= 1
  BY DEF Main, Pids, Blocks

(* What a step of thread p to `place' asks of that place. *)
MayGo(p, place) ==
  /\ place \in Places \ {"unborn"} /\ pc[p] # "unborn"
  /\ p = Main => place \in TaskPlaces
  /\ pc[p] \in Ended => place \in Ended
  /\ Calm => place # "failed"

(***************************************************************************)
(* A step that creates and frees no record: a thread moves on, and may     *)
(* change what is in one and which one it has in hand.                     *)
(***************************************************************************)
LEMMA RecordKeeps ==
  ASSUME Family, NEW p \in Pids, NEW place, MayGo(p, place),
         pc' = [pc EXCEPT ![p] = place],
         UNCHANGED <<next_tid, parent, cp, child_list, mishaps>>,
         heap' \in [Blocks -> Records], \A b \in Blocks : heap'[b].pid = heap[b].pid,
         child' \in [Pids -> Blocks \cup {0}],
         \A q \in Pids \ {p} : child'[q] = child[q],
         child'[p] # 0 <=> place \in Busy,
         child'[p] # 0 => child'[p] \in child_list[p],
         p = Main => UNCHANGED child,
         exit_status' \in [Pids -> Returned], stale' \in BOOLEAN,
         place \in Childless => child_list[p] = {},
         Calm => /\ place \in {"exit_ret", "cleanup"} => child_list[p] = {}
                 /\ \A b \in Blocks : ~heap'[b].failed
                 /\ \A b \in Blocks : heap'[b].pid # 0 /\ heap'[b].sema_child_exit > 0 =>
                                        pc'[heap[b].pid] \in Ended
                 /\ ~stale'
  PROVE  Family'
<1>1. \A q \in Pids : pc'[q] = IF q = p THEN place ELSE pc[q]
  BY DEF Family, FamilyTypes
<1>2. FamilyTypes'
  BY DEF Family, FamilyTypes, MayGo
<1>3. Births'
  BY <1>1, Numbers DEF Family, Births, MayGo
<1>4. Hands'
  BY <1>1, Numbers DEF Family, Hands
<1>5. RecordsOwned'
  <2>1. \A b \in Blocks : (heap'[b].pid # 0) <=> \E q \in Pids : b \in child_list'[q]
    BY DEF Family, RecordsOwned
  <2>2. \A q \in Pids : \A b \in child_list'[q] : parent'[heap'[b].pid] = q /\ cp'[heap'[b].pid] = b
    BY DEF Family, RecordsOwned, FamilyTypes
  <2>3. \A q \in Pids : child'[q] # 0 => child'[q] \in child_list'[q]
    BY DEF Family, RecordsOwned
  <2>4. \A q \in Pids : pc'[q] = "gone" => child_list'[q] = {}
    BY <1>1 DEF Family, RecordsOwned, Childless, Ended
  <2> QED
    BY <2>1, <2>2, <2>3, <2>4 DEF RecordsOwned
<1>6. CalmRecords'
  <2> SUFFICES ASSUME Calm PROVE CalmRecords'
    BY DEF CalmRecords, Calm
  <2>1. OwnRecord'
    BY <1>1 DEF Family, CalmRecords, OwnRecord, MayGo
  <2> QED
    BY <1>1, <2>1 DEF Family, CalmRecords, MayGo
<1> QED
  BY <1>2, <1>3, <1>4, <1>5, <1>6 DEF Family

(* The special case in which only places change. *)
LEMMA MoveKeeps ==
  ASSUME Family, NEW p \in Pids, NEW place, MayGo(p, place),
         pc' = [pc EXCEPT ![p] = place],
         UNCHANGED <<next_tid, parent, cp, child_list, mishaps, heap, child, stale>>,
         pc[p] \in Busy <=> place \in Busy,
         exit_status' \in [Pids -> Returned],
         place \in Childless => child_list[p] = {},
         Calm /\ place \in {"exit_ret", "cleanup"} => child_list[p] = {}
  PROVE  Family'
<1>1. \A q \in Pids : pc'[q] = IF q = p THEN place ELSE pc[q]
  BY DEF Family, FamilyTypes
<1>2. child'[p] # 0 <=> place \in Busy
  BY DEF Family, Hands
<1>3. child'[p] # 0 => child'[p] \in child_list[p]
  BY DEF Family, RecordsOwned
<1>4. ASSUME Calm
      PROVE  /\ \A b \in Blocks : ~heap'[b].failed
             /\ \A b \in Blocks : heap'[b].pid # 0 /\ heap'[b].sema_child_exit > 0 =>
                                    pc'[heap[b].pid] \in Ended
             /\ ~stale'
  <2>1. \A b \in Blocks : heap[b].pid # 0 => heap[b].pid \in Pids
    BY DEF Family, FamilyTypes, Records
  <2> QED
    BY <1>1, <1>4, <2>1 DEF Family, CalmRecords, MayGo
<1>5. heap' \in [Blocks -> Records] /\ child' \in [Pids -> Blocks \cup {0}] /\ stale' \in BOOLEAN
  BY DEF Family, FamilyTypes
<1> QED
  BY <1>2, <1>3, <1>4, <1>5, RecordKeeps

(* process_execute(): a new thread and its record. *)
LEMMA ForkKeeps ==
  ASSUME Family, NEW p \in Pids, NEW b \in Blocks, Fork(p, b), NEW place \in Busy,
         pc[p] = "user", p = Main => place = "run_wait",
         pc' = [pc EXCEPT ![p] = place, ![next_tid] = "start"],
         UNCHANGED <<exit_status, mishaps, stale>>
  PROVE  Family'
<1> DEFINE n == next_tid
           r == NewRecord(n)
<1>1. n \in Pids /\ n # Main /\ n \in Int /\ heap[b].pid = 0 /\ pc[n] = "unborn" /\ n # p
  BY DEF Fork, Allocated, Family, FamilyTypes, Births, Main, Pids
<1>2. r \in Records /\ r.pid = n /\ ~r.failed /\ r.sema_child_exit = 0
  BY <1>1 DEF NewRecord, Records, Returned
<1>3. \A q \in Pids : pc'[q] = IF q = n THEN "start" ELSE IF q = p THEN place ELSE pc[q]
  BY <1>1 DEF Family, FamilyTypes
<1>4. \A a \in Blocks : heap'[a] = IF a = b THEN r ELSE heap[a]
  BY DEF Fork, Family, FamilyTypes
<1>5. \A q \in Pids : child_list'[q] = (IF q = p THEN child_list[p] \cup {b} ELSE child_list[q])
                   /\ parent'[q] = (IF q = n THEN p ELSE parent[q])
                   /\ cp'[q] = (IF q = n THEN b ELSE cp[q])
                   /\ child'[q] = (IF q = p THEN b ELSE child[q])
  BY DEF Fork, Family, FamilyTypes
<1>6. FamilyTypes'
  <2>1. pc' \in [Pids -> Places]
    BY DEF Family, FamilyTypes, Places, Busy
  <2>2. next_tid' \in 2..(MaxPid + 1)
    BY DEF Fork, Family, FamilyTypes
  <2>3. heap' \in [Blocks -> Records]
    BY <1>2 DEF Fork, Family, FamilyTypes
  <2>4. /\ parent' \in [Pids -> Pids \cup {-1}] /\ cp' \in [Pids -> Blocks \cup {0}]
        /\ child_list' \in [Pids -> SUBSET Blocks] /\ child' \in [Pids -> Blocks \cup {0}]
    BY DEF Fork, Family, FamilyTypes
  <2> QED
    BY <2>1, <2>2, <2>3, <2>4 DEF Family, FamilyTypes
<1>7. Births'
  <2>1. next_tid' = n + 1
    BY DEF Fork
  <2>2. \A q \in Pids : q >= n + 1 => pc'[q] = "unborn"
    <3> SUFFICES ASSUME NEW q \in Pids, q >= n + 1 PROVE pc'[q] = "unborn"
      OBVIOUS
    <3>1. q # n /\ q >= n
      BY <1>1, Numbers
    <3>2. pc[q] = "unborn" /\ q # p
      BY <3>1 DEF Family, Births
    <3> QED
      BY <1>3, <3>1, <3>2
  <2>3. \A a \in Blocks : heap'[a].pid < n + 1
    <3>1. \A a \in Blocks : heap[a].pid \in Int /\ heap[a].pid < n
      BY Numbers DEF Family, FamilyTypes, Records, Births
    <3> QED
      BY <1>1, <1>2, <1>4, <3>1
  <2>4. pc'[Main] \in TaskPlaces /\ parent'[Main] = -1
    <3>1. parent'[Main] = parent[Main] /\ Main \in Pids
      BY <1>1, <1>5, Numbers
    <3>2. CASE p = Main
      BY <1>1, <1>3, <3>1, <3>2 DEF Family, Births, TaskPlaces
    <3>3. CASE p # Main
      <4>1. pc'[Main] = pc[Main]
        BY <1>1, <1>3, <3>1, <3>3
      <4> QED
        BY <3>1, <4>1 DEF Family, Births
    <3> QED
      BY <3>2, <3>3
  <2>5. \A q \in Pids \ {Main} : pc'[q] # "unborn" => cp'[q] \in Blocks
    BY <1>3, <1>5, Numbers DEF Family, Births
  <2> QED
    BY <2>1, <2>2, <2>3, <2>4, <2>5 DEF Births
<1>8. Hands'
  <2>1. child[n] = 0
    BY <1>1 DEF Family, Hands, Busy
  <2>2. \A q \in Pids : child'[q] # 0 <=> pc'[q] \in Busy
    <3> SUFFICES ASSUME NEW q \in Pids PROVE child'[q] # 0 <=> pc'[q] \in Busy
      OBVIOUS
    <3>1. CASE q = p
      BY <1>1, <1>3, <1>5, <3>1, Numbers
    <3>2. CASE q = n
      <4>1. pc'[q] = "start" /\ child'[q] = 0
        BY <1>1, <1>3, <1>5, <2>1, <3>2
      <4> QED
        BY <4>1 DEF Busy
    <3>3. CASE q # p /\ q # n
      <4>1. pc'[q] = pc[q] /\ child'[q] = child[q]
        BY <1>3, <1>5, <3>3
      <4>2. child[q] # 0 <=> pc[q] \in Busy
        BY DEF Family, Hands
      <4> QED
        BY <4>1, <4>2
    <3> QED
      BY <3>1, <3>2, <3>3
  <2>3. \A q \in Pids : pc'[q] \in Childless => child_list'[q] = {}
    BY <1>3, <1>5 DEF Family, Hands, Childless, Ended, Busy
  <2>4. child_list'[Main] \subseteq {child'[Main]}
    <3>1. CASE p = Main
      <4>1. child[Main] = 0 /\ child_list[Main] \subseteq Blocks
        BY <3>1, Numbers DEF Family, FamilyTypes, Hands, Busy
      <4>2. child_list[Main] = {}
        BY <4>1, Numbers DEF Family, Hands
      <4> QED
        BY <1>5, <3>1, <4>2, Numbers
    <3>2. CASE p # Main
      BY <1>5, <3>2, Numbers DEF Family, Hands
    <3> QED
      BY <3>1, <3>2
  <2> QED
    BY <2>2, <2>3, <2>4 DEF Hands
<1>9. \A q \in Pids : b \notin child_list[q]
  BY <1>1 DEF Family, RecordsOwned
<1>10. RecordsOwned'
  <2>1. \A a \in Blocks : (heap'[a].pid # 0) <=> \E q \in Pids : a \in child_list'[q]
    <3> SUFFICES ASSUME NEW a \in Blocks
                 PROVE  (heap'[a].pid # 0) <=> \E q \in Pids : a \in child_list'[q]
      OBVIOUS
    <3>1. CASE a = b
      BY <1>1, <1>2, <1>4, <1>5, <3>1, Numbers
    <3>2. CASE a # b
      BY <1>4, <1>5, <3>2 DEF Family, RecordsOwned
    <3> QED
      BY <3>1, <3>2
  <2>2. \A q \in Pids : \A a \in child_list'[q] : parent'[heap'[a].pid] = q /\ cp'[heap'[a].pid] = a
    <3> SUFFICES ASSUME NEW q \in Pids, NEW a \in child_list'[q]
                 PROVE  parent'[heap'[a].pid] = q /\ cp'[heap'[a].pid] = a
      OBVIOUS
    <3>1. CASE a = b
      BY <1>1, <1>2, <1>4, <1>5, <1>9, <3>1
    <3>2. CASE a # b
      <4>1. a \in child_list[q] /\ a \in Blocks
        BY <1>5, <3>2 DEF Family, FamilyTypes
      <4>2. heap[a].pid \in Pids /\ heap[a].pid < n /\ heap'[a] = heap[a]
        BY <1>4, <3>2, <4>1 DEF Family, FamilyTypes, Records, Births, RecordsOwned
      <4>3. heap[a].pid # n
        BY <1>1, <4>2, Numbers
      <4> QED
        BY <1>5, <4>1, <4>2, <4>3 DEF Family, RecordsOwned
    <3> QED
      BY <3>1, <3>2
  <2>3. \A q \in Pids : child'[q] # 0 => child'[q] \in child_list'[q]
    BY <1>5 DEF Family, RecordsOwned
  <2>4. \A q \in Pids : pc'[q] = "gone" => child_list'[q] = {}
    BY <1>8 DEF Hands, Childless, Ended
  <2> QED
    BY <2>1, <2>2, <2>3, <2>4 DEF RecordsOwned
<1>11. CalmRecords'
  <2> SUFFICES ASSUME Calm PROVE CalmRecords'
    BY DEF CalmRecords, Calm
  <2>1. OwnRecord'
    <3> SUFFICES ASSUME NEW q \in Pids \ {Main}, pc'[q] \notin {"unborn"} \cup Ended
                 PROVE  cp'[q] \in Blocks /\ heap'[cp'[q]].pid = q
      BY DEF OwnRecord
    <3>1. CASE q = n
      BY <1>2, <1>4, <1>5, <3>1
    <3>2. CASE q # n
      <4>1. pc[q] \notin {"unborn"} \cup Ended
        BY <1>3, <3>2 DEF Ended
      <4>2. cp[q] \in Blocks /\ heap[cp[q]].pid = q
        BY <4>1 DEF Family, CalmRecords, OwnRecord
      <4>3. cp[q] # b
        BY <1>1, <4>2, Numbers
      <4> QED
        BY <1>4, <1>5, <3>2, <4>2, <4>3
    <3> QED
      BY <3>1, <3>2
  <2>2. \A q \in Pids : pc'[q] # "failed"
                     /\ (pc'[q] \in {"exit_ret", "cleanup"} => child_list'[q] = {})
    <3> SUFFICES ASSUME NEW q \in Pids
                 PROVE  /\ pc'[q] # "failed"
                        /\ pc'[q] \in {"exit_ret", "cleanup"} => child_list'[q] = {}
      OBVIOUS
    <3>1. CASE q = p
      <4>1. pc'[q] \in Busy
        BY <1>1, <1>3, <3>1
      <4> QED
        BY <4>1 DEF Busy
    <3>2. CASE q = n
      <4>1. pc'[q] = "start"
        BY <1>3, <3>2
      <4> QED
        BY <4>1
    <3>3. CASE q # p /\ q # n
      <4>1. pc'[q] = pc[q] /\ child_list'[q] = child_list[q]
        BY <1>3, <1>5, <3>3
      <4>2. pc[q] # "failed" /\ (pc[q] \in {"exit_ret", "cleanup"} => child_list[q] = {})
        BY DEF Family, CalmRecords
      <4> QED
        BY <4>1, <4>2
    <3> QED
      BY <3>1, <3>2, <3>3
  <2>3. \A a \in Blocks : heap'[a].pid # 0 /\ heap'[a].sema_child_exit > 0 =>
                            pc'[heap'[a].pid] \in Ended
    <3> SUFFICES ASSUME NEW a \in Blocks, heap'[a].pid # 0, heap'[a].sema_child_exit > 0
                 PROVE  pc'[heap'[a].pid] \in Ended
      OBVIOUS
    <3>1. a # b
      BY <1>2, <1>4
    <3>2. heap'[a] = heap[a] /\ heap[a].pid \in Pids /\ heap[a].pid < n
      BY <1>4, <3>1 DEF Family, FamilyTypes, Records, Births
    <3>3. pc[heap[a].pid] \in Ended /\ heap[a].pid # n
      BY <1>1, <3>2, Numbers DEF Family, CalmRecords
    <3> QED
      BY <1>3, <3>2, <3>3 DEF Ended
  <2>4. (\A a \in Blocks : ~heap'[a].failed) /\ ~stale'
    BY <1>2, <1>4 DEF Family, CalmRecords
  <2> QED
    BY <2>1, <2>2, <2>3, <2>4 DEF CalmRecords
<1> QED
  BY <1>6, <1>7, <1>8, <1>10, <1>11 DEF Family

(* A parent frees records of its own, bs: their children have ended, or    *)
(* the children of the machine may use records that are not theirs.        *)
LEMMA FreeKeeps ==
  ASSUME Family, NEW p \in Pids, NEW place, MayGo(p, place), NEW bs, bs \subseteq child_list[p],
         FreeRecords(p, bs), pc' = [pc EXCEPT ![p] = place], child' = [child EXCEPT ![p] = 0],
         UNCHANGED <<exit_status, mishaps, stale>>,
         place \notin Busy, place \in Childless \/ p = Main => child_list[p] = bs,
         Calm => /\ place \notin {"exit_ret", "cleanup"}
                 /\ \A b \in bs : pc'[heap[b].pid] \in Ended
  PROVE  Family'
<1>1. \A q \in Pids : pc'[q] = IF q = p THEN place ELSE pc[q]
  BY DEF Family, FamilyTypes
<1>2. \A b \in Blocks : heap'[b] = IF b \in bs THEN Freed ELSE heap[b]
  BY DEF FreeRecords
<1>3. \A q \in Pids : child_list'[q] = (IF q = p THEN child_list[p] \ bs ELSE child_list[q])
                   /\ child'[q] = (IF q = p THEN 0 ELSE child[q])
  BY DEF FreeRecords, Family, FamilyTypes
<1>4. Freed \in Records /\ Freed.pid = 0 /\ ~Freed.failed
  BY DEF Freed, NewRecord, Records, Returned
<1>5. UNCHANGED <<next_tid, parent, cp>>
  BY DEF FreeRecords
<1>6. FamilyTypes'
  <2>1. heap' \in [Blocks -> Records]
    <3>1. \A b \in Blocks : (IF b \in bs THEN Freed ELSE heap[b]) \in Records
      BY <1>4 DEF Family, FamilyTypes
    <3> QED
      BY <3>1 DEF FreeRecords
  <2>2. child_list' \in [Pids -> SUBSET Blocks]
    BY DEF FreeRecords, Family, FamilyTypes
  <2>3. pc' \in [Pids -> Places] /\ child' \in [Pids -> Blocks \cup {0}]
    BY DEF Family, FamilyTypes, MayGo
  <2> QED
    BY <1>5, <2>1, <2>2, <2>3 DEF Family, FamilyTypes
<1>7. Births'
  <2>1. \A b \in Blocks : heap'[b].pid < next_tid
    BY <1>2, <1>4 DEF Family, Births, FamilyTypes
  <2> QED
    BY <1>1, <1>5, <2>1, Numbers DEF Family, Births, MayGo
<1>8. Hands'
  BY <1>1, <1>3, Numbers DEF Family, Hands
<1>9. \A q \in Pids : q # p => child_list[q] \cap bs = {}
  BY DEF Family, RecordsOwned
<1>10. RecordsOwned'
  <2>1. \A b \in Blocks : (heap'[b].pid # 0) <=> \E q \in Pids : b \in child_list'[q]
    <3> SUFFICES ASSUME NEW b \in Blocks
                 PROVE  (heap'[b].pid # 0) <=> \E q \in Pids : b \in child_list'[q]
      OBVIOUS
    <3>1. CASE b \in bs
      BY <1>2, <1>3, <1>4, <1>9, <3>1
    <3>2. CASE b \notin bs
      BY <1>2, <1>3, <3>2 DEF Family, RecordsOwned
    <3> QED
      BY <3>1, <3>2
  <2>2. \A q \in Pids : \A b \in child_list'[q] : parent'[heap'[b].pid] = q /\ cp'[heap'[b].pid] = b
    <3> SUFFICES ASSUME NEW q \in Pids, NEW b \in child_list'[q]
                 PROVE  parent'[heap'[b].pid] = q /\ cp'[heap'[b].pid] = b
      OBVIOUS
    <3>1. b \in child_list[q] /\ b \notin bs /\ b \in Blocks
      BY <1>3, <1>9 DEF Family, FamilyTypes
    <3> QED
      BY <1>2, <1>5, <3>1 DEF Family, RecordsOwned
  <2>3. \A q \in Pids : child'[q] # 0 => child'[q] \in child_list'[q]
    BY <1>3 DEF Family, RecordsOwned
  <2>4. \A q \in Pids : pc'[q] = "gone" => child_list'[q] = {}
    BY <1>8 DEF Hands, Childless, Ended
  <2> QED
    BY <2>1, <2>2, <2>3, <2>4 DEF RecordsOwned
<1>11. CalmRecords'
  <2> SUFFICES ASSUME Calm PROVE CalmRecords'
    BY DEF CalmRecords, Calm
  <2>1. OwnRecord'
    <3> SUFFICES ASSUME NEW q \in Pids \ {Main}, pc'[q] \notin {"unborn"} \cup Ended
                 PROVE  cp'[q] \in Blocks /\ heap'[cp'[q]].pid = q
      BY DEF OwnRecord
    <3>1. cp[q] \in Blocks /\ heap[cp[q]].pid = q
      BY <1>1 DEF Family, CalmRecords, OwnRecord, MayGo
    <3>2. cp[q] \notin bs
      BY <3>1
    <3> QED
      BY <1>2, <1>5, <3>1, <3>2
  <2>2. \A b \in Blocks : ~heap'[b].failed
    BY <1>2, <1>4 DEF Family, CalmRecords
  <2>3. \A q \in Pids : pc'[q] # "failed"
                     /\ (pc'[q] \in {"exit_ret", "cleanup"} => child_list'[q] = {})
    <3> SUFFICES ASSUME NEW q \in Pids
                 PROVE  /\ pc'[q] # "failed"
                        /\ pc'[q] \in {"exit_ret", "cleanup"} => child_list'[q] = {}
      OBVIOUS
    <3>1. CASE q = p
      BY <1>1, <3>1 DEF MayGo
    <3>2. CASE q # p
      <4>1. pc'[q] = pc[q] /\ child_list'[q] = child_list[q]
        BY <1>1, <1>3, <3>2
      <4>2. pc[q] # "failed" /\ (pc[q] \in {"exit_ret", "cleanup"} => child_list[q] = {})
        BY DEF Family, CalmRecords
      <4> QED
        BY <4>1, <4>2
    <3> QED
      BY <3>1, <3>2
  <2>4. \A b \in Blocks : heap'[b].pid # 0 /\ heap'[b].sema_child_exit > 0 =>
                            pc'[heap'[b].pid] \in Ended
    <3> SUFFICES ASSUME NEW b \in Blocks, heap'[b].pid # 0, heap'[b].sema_child_exit > 0
                 PROVE  pc'[heap'[b].pid] \in Ended
      OBVIOUS
    <3>1. heap'[b] = heap[b] /\ heap[b].pid \in Pids
      BY <1>2, <1>4 DEF Family, FamilyTypes, Records
    <3>2. pc[heap[b].pid] \in Ended
      BY <3>1 DEF Family, CalmRecords
    <3> QED
      BY <1>1, <3>1, <3>2 DEF MayGo
  <2> QED
    BY <2>1, <2>2, <2>3, <2>4 DEF CalmRecords, Family
<1> QED
  BY <1>6, <1>7, <1>8, <1>10, <1>11 DEF Family

(* A step that changes nothing else of a record than what nobody owns by.  *)
LEMMA TouchKeeps ==
  ASSUME Family, NEW p \in Pids, NEW place, MayGo(p, place),
         pc' = [pc EXCEPT ![p] = place],
         UNCHANGED <<next_tid, parent, cp, child_list, mishaps, exit_status>>,
         heap' \in [Blocks -> Records],
         \A b \in Blocks : heap'[b].pid = heap[b].pid /\ heap'[b].failed = heap[b].failed
                         /\ heap'[b].sema_child_exit = heap[b].sema_child_exit,
         child' \in [Pids -> Blocks \cup {0}],
         \A q \in Pids \ {p} : child'[q] = child[q],
         child'[p] # 0 <=> place \in Busy,
         child'[p] # 0 => child'[p] \in child_list[p],
         p = Main => UNCHANGED child,
         stale' \in BOOLEAN, Calm => ~stale',
         place \in Childless => child_list[p] = {},
         Calm /\ place \in {"exit_ret", "cleanup"} => child_list[p] = {}
  PROVE  Family'
<1>1. \A q \in Pids : pc'[q] = IF q = p THEN place ELSE pc[q]
  BY DEF Family, FamilyTypes
<1>2. ASSUME Calm
      PROVE  /\ \A b \in Blocks : ~heap'[b].failed
             /\ \A b \in Blocks : heap'[b].pid # 0 /\ heap'[b].sema_child_exit > 0 =>
                                    pc'[heap[b].pid] \in Ended
  <2>1. \A b \in Blocks : heap[b].pid # 0 => heap[b].pid \in Pids
    BY DEF Family, FamilyTypes, Records
  <2> QED
    BY <1>1, <1>2, <2>1 DEF Family, CalmRecords, MayGo
<1>3. exit_status' \in [Pids -> Returned]
  BY DEF Family, FamilyTypes
<1> QED
  BY <1>2, <1>3, RecordKeeps

LEMMA SameFamily ==
  ASSUME Family, UNCHANGED <<process, family, heap, mishaps, stale>>
  PROVE  Family'
<1>1. UNCHANGED <<pc, child, exit_status, next_tid, parent, cp, child_list>>
  BY DEF process, family
<1> QED
  BY <1>1 DEF Family, FamilyTypes, Births, Hands, RecordsOwned, CalmRecords, Calm, OwnRecord

(* Steps that leave the locks and the machine alone. *)
LEMMA LocksAside ==
  ASSUME Locks, UNCHANGED machine, power = "on",
         \A q \in Pids \ {Main} : pc'[q] \in Exiting =>
           pc[q] \in Exiting \/ is_lock_init \/ EndsEarly
  PROVE  Locks'
<1>1. UNCHANGED <<lock_f, is_lock_init, mishaps>> /\ power' = "on"
  BY DEF machine
<1>2. OnlyKnownPanics'
  BY <1>1 DEF OnlyKnownPanics
<1> QED
  BY <1>1, <1>2 DEF Locks, EndsEarly

(* What is known of a thread that has a record. *)
LEMMA HasRecord ==
  ASSUME Family, NEW p \in Pids,
         pc[p] \in {"start", "loaded", "failed", "exit_ret", "exit_up"}
  PROVE  /\ p # Main /\ cp[p] \in Blocks /\ pc[p] \notin {"unborn"} \cup Ended
         /\ heap[cp[p]] \in Records
         /\ Calm => heap[cp[p]].pid = p /\ heap[cp[p]].pid # 0
<1>1. p # Main
  BY DEF Family, Births, TaskPlaces, Ended
<1>2. cp[p] \in Blocks
  BY <1>1 DEF Family, Births
<1>3. pc[p] \notin {"unborn"} \cup Ended
  BY DEF Ended
<1>4. Calm => heap[cp[p]].pid = p
  BY <1>1, <1>3 DEF Family, CalmRecords, OwnRecord
<1> QED
  BY <1>1, <1>2, <1>3, <1>4, Numbers DEF Family, FamilyTypes

(* Semaphores of records: sema_up() of one does not change the others. *)
LEMMA SemaUpRecords ==
  ASSUME Family, NEW p \in Pids, cp[p] \in Blocks,
         NEW sema \in {"sema_child_load", "sema_child_exit"}, SemaUp(p, sema)
  PROVE  /\ heap' \in [Blocks -> Records]
         /\ \A b \in Blocks : heap'[b].pid = heap[b].pid /\ heap'[b].failed = heap[b].failed
         /\ \A b \in Blocks : b # cp[p] \/ sema # "sema_child_exit" =>
                                heap'[b].sema_child_exit = heap[b].sema_child_exit
         /\ stale' = (stale \/ heap[cp[p]].pid # p)
         /\ heap[cp[p]].pid # 0 => UNCHANGED machine
         /\ UNCHANGED <<lock_f, is_lock_init, mishaps>> /\ power' \in {power, "panic"}
<1>1. heap \in [Blocks -> Records] /\ heap[cp[p]] \in Records
  BY DEF Family, FamilyTypes
<1>2. CASE heap[cp[p]].pid = 0
  BY <1>1, <1>2 DEF SemaUp, Touch, Panic
<1>3. CASE heap[cp[p]].pid # 0
  <2>1. heap' = [heap EXCEPT ![cp[p]][sema] = @ + 1] /\ UNCHANGED machine
    BY <1>3 DEF SemaUp
  <2>2. CASE sema = "sema_child_load"
    <3>1. heap' = [heap EXCEPT ![cp[p]].sema_child_load = @ + 1]
      BY <2>1, <2>2
    <3> QED
      BY <1>1, <1>3, <2>1, <2>2, <3>1 DEF SemaUp, Touch, machine, Records
  <2>3. CASE sema = "sema_child_exit"
    <3>1. heap' = [heap EXCEPT ![cp[p]].sema_child_exit = @ + 1]
      BY <2>1, <2>3
    <3> QED
      BY <1>1, <1>3, <2>1, <2>3, <3>1 DEF SemaUp, Touch, machine, Records
  <2> QED
    BY <2>2, <2>3
<1> QED
  BY <1>2, <1>3

-----------------------------------------------------------------------------
(* The steps, one by one. *)

LEMMA CreateKeeps ==
  ASSUME ProcessInv, NEW p \in Pids, Exec(p) \/ (p = Main /\ RunTask)
  PROVE  ProcessInv'
<1>1. PICK b \in Blocks : Fork(p, b)
  BY DEF Exec, RunTask
<1>2. PICK place \in {"exec", "run_wait"} :
        /\ pc' = [pc EXCEPT ![p] = place, ![next_tid] = "start"]
        /\ p = Main => place = "run_wait"
  BY DEF Exec, Calls, RunTask, TaskWaits
<1>3. pc[p] = "user" /\ power = "on" /\ UNCHANGED <<exit_status, machine, history>>
  BY DEF Exec, Calls, RunTask, At
<1>4. Family'
  BY <1>1, <1>2, <1>3, ForkKeeps DEF ProcessInv, machine, history, Busy
<1>5. Locks'
  BY <1>2, <1>3, LocksAside DEF ProcessInv, Family, FamilyTypes, Exiting
<1>6. OtherTypes'
  BY <1>1, <1>3 DEF ProcessInv, OtherTypes, Fork, machine, history, Family, FamilyTypes, Pids
<1> QED
  BY <1>4, <1>5, <1>6 DEF ProcessInv

(* RunWait, ExecDown and Wait change a record of the thread's own child.   *)
LEMMA RunWaitKeeps ==
  ASSUME ProcessInv, RunWait
  PROVE  ProcessInv'
<1> DEFINE b == child[Main]
<1>1. pc[Main] = "run_wait" /\ Main \in Pids
  BY Numbers DEF RunWait, At
<1>2. b # 0 /\ b \in Blocks /\ b \in child_list[Main]
  BY <1>1 DEF ProcessInv, Family, FamilyTypes, Hands, Busy, RecordsOwned
<1>3. heap' \in [Blocks -> Records]
      /\ \A a \in Blocks : heap'[a].pid = heap[a].pid /\ heap'[a].failed = heap[a].failed
                          /\ heap'[a].sema_child_exit = heap[a].sema_child_exit
  <2>1. heap \in [Blocks -> Records] /\ heap[b] \in Records
    BY <1>2 DEF ProcessInv, Family, FamilyTypes
  <2>2. heap' = [heap EXCEPT ![b] = [heap[b] EXCEPT !.waited = TRUE]]
    BY <1>2, <2>1 DEF RunWait
  <2>3. /\ [heap[b] EXCEPT !.waited = TRUE] \in Records
        /\ [heap[b] EXCEPT !.waited = TRUE].pid = heap[b].pid
        /\ [heap[b] EXCEPT !.waited = TRUE].failed = heap[b].failed
        /\ [heap[b] EXCEPT !.waited = TRUE].sema_child_exit = heap[b].sema_child_exit
    BY <2>1 DEF Records
  <2> QED
    BY <1>2, <2>1, <2>2, <2>3
<1>4. MayGo(Main, "wait")
  BY <1>1 DEF MayGo, Places, Ended, TaskPlaces
<1>5. Family'
  BY <1>1, <1>2, <1>3, <1>4, TouchKeeps
     DEF RunWait, Goto, ProcessInv, Family, FamilyTypes, CalmRecords, family, machine, history,
         Busy, Childless, Ended
<1>6. Locks'
  BY <1>1, LocksAside DEF RunWait, At, Goto, ProcessInv, Family, FamilyTypes, Exiting
<1>7. OtherTypes'
  BY DEF RunWait, ProcessInv, OtherTypes, family, machine, history
<1> QED
  BY <1>5, <1>6, <1>7 DEF ProcessInv

LEMMA ExecDownKeeps ==
  ASSUME ProcessInv, NEW p \in Pids, ExecDown(p)
  PROVE  ProcessInv'
<1> DEFINE b == child[p]
<1>1. pc[p] = "exec_down"
  BY DEF ExecDown, At
<1>2. b # 0 /\ b \in Blocks /\ b \in child_list[p] /\ p # Main
  BY <1>1 DEF ProcessInv, Family, FamilyTypes, Births, TaskPlaces, Ended, Hands, Busy, RecordsOwned
<1>3. heap[b].sema_child_load - 1 \in Nat
  BY <1>2 DEF ExecDown, Downable, ProcessInv, Family, FamilyTypes, Records
<1>4. heap' \in [Blocks -> Records]
      /\ \A a \in Blocks : heap'[a].pid = heap[a].pid /\ heap'[a].failed = heap[a].failed
                          /\ heap'[a].sema_child_exit = heap[a].sema_child_exit
  <2> DEFINE v == heap[b].sema_child_load - 1
  <2>1. heap \in [Blocks -> Records] /\ heap[b] \in Records /\ v \in Nat
    BY <1>2, <1>3 DEF ProcessInv, Family, FamilyTypes
  <2>2. heap' = [heap EXCEPT ![b] = [heap[b] EXCEPT !.sema_child_load = v]]
    BY <1>2, <2>1 DEF ExecDown
  <2> HIDE DEF v
  <2>3. /\ [heap[b] EXCEPT !.sema_child_load = v] \in Records
        /\ [heap[b] EXCEPT !.sema_child_load = v].pid = heap[b].pid
        /\ [heap[b] EXCEPT !.sema_child_load = v].failed = heap[b].failed
        /\ [heap[b] EXCEPT !.sema_child_load = v].sema_child_exit = heap[b].sema_child_exit
    BY <2>1 DEF Records
  <2> QED
    BY <1>2, <2>1, <2>2, <2>3
<1>5. MayGo(p, "exec_result")
  BY <1>1, <1>2 DEF MayGo, Places, Ended
<1>6. Family'
  BY <1>1, <1>2, <1>4, <1>5, TouchKeeps
     DEF ExecDown, Goto, ProcessInv, Family, FamilyTypes, CalmRecords, family, machine, history,
         Busy, Childless, Ended
<1>7. Locks'
  BY <1>1, LocksAside DEF ExecDown, At, Goto, ProcessInv, Family, FamilyTypes, Exiting
<1>8. OtherTypes'
  BY DEF ExecDown, ProcessInv, OtherTypes, family, machine, history
<1> QED
  BY <1>6, <1>7, <1>8 DEF ProcessInv

LEMMA WaitKeeps ==
  ASSUME ProcessInv, NEW p \in Pids, NEW c \in Pids, Wait(p, c)
  PROVE  ProcessInv'
<1>1. pc[p] = "user" /\ p # Main
  BY DEF Wait, Calls, At
<1>2. Locks'
  BY <1>1, LocksAside DEF Wait, Calls, At, Goto, ProcessInv, Family, FamilyTypes, Exiting
<1>3. OtherTypes'
  BY DEF Wait, ProcessInv, OtherTypes, family, machine, history
<1>4. CASE UNCHANGED <<pc, heap, child>>
  BY <1>2, <1>3, <1>4, SameFamily DEF Wait, ProcessInv, process, machine, history
<1>5. CASE /\ \E b \in process_get_child(p, c) :
                  /\ heap' = [heap EXCEPT ![b].waited = TRUE]
                  /\ child' = [child EXCEPT ![p] = b]
           /\ Goto(p, "wait")
  <2>1. PICK b \in process_get_child(p, c) :
          heap' = [heap EXCEPT ![b].waited = TRUE] /\ child' = [child EXCEPT ![p] = b]
    BY <1>5
  <2>2. b \in child_list[p] /\ b \in Blocks /\ b # 0
    BY Numbers DEF process_get_child, ProcessInv, Family, FamilyTypes
  <2>3. heap' \in [Blocks -> Records]
        /\ \A a \in Blocks : heap'[a].pid = heap[a].pid /\ heap'[a].failed = heap[a].failed
                            /\ heap'[a].sema_child_exit = heap[a].sema_child_exit
    <3>1. heap \in [Blocks -> Records] /\ heap' = [heap EXCEPT ![b] = [heap[b] EXCEPT !.waited = TRUE]]
      BY <2>1 DEF ProcessInv, Family, FamilyTypes
    <3>2. heap[b] \in Records
      BY <2>2, <3>1
    <3>3. [heap[b] EXCEPT !.waited = TRUE] \in Records
      BY <3>2 DEF Records
    <3>4. \A a \in Blocks \ {b} : heap'[a] = heap[a]
      BY <3>1
    <3>5. heap'[b] = [heap[b] EXCEPT !.waited = TRUE]
      BY <2>2, <3>1
    <3>6. /\ heap'[b].pid = heap[b].pid /\ heap'[b].failed = heap[b].failed
          /\ heap'[b].sema_child_exit = heap[b].sema_child_exit
      BY <3>2, <3>5 DEF Records
    <3> QED
      BY <2>2, <3>1, <3>3, <3>4, <3>6
  <2>4. child' \in [Pids -> Blocks \cup {0}] /\ child'[p] = b
        /\ \A q \in Pids \ {p} : child'[q] = child[q]
    BY <2>1, <2>2 DEF ProcessInv, Family, FamilyTypes
  <2>5. MayGo(p, "wait")
    BY <1>1 DEF MayGo, Places, Ended
  <2>6. UNCHANGED <<next_tid, parent, cp, child_list, mishaps, exit_status, stale>>
    BY DEF Wait, family, machine, history
  <2>7. stale' \in BOOLEAN /\ (Calm => ~stale')
    BY <2>6 DEF ProcessInv, Family, FamilyTypes, CalmRecords
  <2>8. Family'
    BY <1>1, <1>5, <2>2, <2>3, <2>4, <2>5, <2>6, <2>7, TouchKeeps
       DEF Goto, ProcessInv, Busy, Childless, Ended
  <2> QED
    BY <1>2, <1>3, <2>8 DEF ProcessInv
<1> QED
  BY <1>4, <1>5 DEF Wait

LEMMA ExecResultKeeps ==
  ASSUME ProcessInv, NEW p \in Pids, ExecResult(p)
  PROVE  ProcessInv'
<1> DEFINE b == child[p]
<1>1. pc[p] = "exec_result"
  BY DEF ExecResult, At
<1>2. b # 0 /\ b \in Blocks /\ b \in child_list[p] /\ p # Main
  BY <1>1 DEF ProcessInv, Family, FamilyTypes, Births, TaskPlaces, Ended, Hands, Busy, RecordsOwned
<1>3. FreedByExec(b) \subseteq child_list[p]
  BY <1>2 DEF FreedByExec
<1>4. Calm => FreedByExec(b) = {}
  BY <1>2 DEF FreedByExec, ProcessInv, Family, CalmRecords
<1>5. MayGo(p, "user")
  BY <1>1, <1>2 DEF MayGo, Places, Ended
<1>6. Family'
  BY <1>2, <1>3, <1>4, <1>5, FreeKeeps
     DEF ExecResult, Goto, ProcessInv, machine, Busy, Childless, Ended
<1>7. Locks'
  BY <1>1, LocksAside DEF ExecResult, At, Goto, ProcessInv, Family, FamilyTypes, Exiting
<1>8. heap[b].pid \in Pids \cup {0}
  BY <1>2 DEF ProcessInv, Family, FamilyTypes, Records
<1>9. OtherTypes'
  BY <1>8 DEF ExecResult, FreeRecords, ProcessInv, OtherTypes, machine
<1> QED
  BY <1>6, <1>7, <1>9 DEF ProcessInv

LEMMA ReapKeeps ==
  ASSUME ProcessInv, NEW p \in Pids, Reap(p)
  PROVE  ProcessInv'
<1> DEFINE b == child[p]
<1>1. pc[p] = "wait" /\ heap[b].sema_child_exit > 0
  BY DEF Reap, At
<1>2. b # 0 /\ b \in Blocks /\ b \in child_list[p]
  BY <1>1 DEF ProcessInv, Family, FamilyTypes, Hands, Busy, RecordsOwned
<1>3. heap[b].pid \in Pids /\ heap[b].ret \in Returned
  BY <1>2 DEF ProcessInv, Family, FamilyTypes, RecordsOwned, Records
<1>4. ASSUME Calm PROVE pc'[heap[b].pid] \in Ended
  <2>1. pc[heap[b].pid] \in Ended
    BY <1>1, <1>2, <1>3, <1>4, Numbers DEF ProcessInv, Family, CalmRecords
  <2>2. heap[b].pid # p
    BY <1>1, <2>1 DEF Ended
  <2>3. pc'[heap[b].pid] = pc[heap[b].pid]
    BY <1>3, <2>2 DEF Reap, Goto, ProcessInv, Family, FamilyTypes
  <2> QED
    BY <2>1, <2>3
<1>5. MayGo(p, "user")
  BY <1>1 DEF MayGo, Places, Ended, TaskPlaces
<1>6. Family'
  <2>1. {b} \subseteq child_list[p]
    BY <1>2
  <2>2. /\ FreeRecords(p, {b}) /\ pc' = [pc EXCEPT ![p] = "user"]
        /\ child' = [child EXCEPT ![p] = 0] /\ UNCHANGED <<exit_status, mishaps, stale>>
    BY DEF Reap, Goto, machine
  <2>3. "user" \notin Busy /\ "user" \notin Childless
    BY DEF Busy, Childless, Ended
  <2>4. p = Main => child_list[p] = {b}
    BY <2>1 DEF ProcessInv, Family, Hands
  <2> QED
    BY <1>4, <1>5, <2>1, <2>2, <2>3, <2>4, FreeKeeps DEF ProcessInv
<1>7. Locks'
  BY <1>1, LocksAside DEF Reap, At, Goto, ProcessInv, Family, FamilyTypes, Exiting
<1>8. OtherTypes'
  BY <1>3 DEF Reap, FreeRecords, ProcessInv, OtherTypes, machine
<1> QED
  BY <1>6, <1>7, <1>8 DEF ProcessInv

(* The child's own steps: it loads, tells its parent, and leaves.          *)
LEMMA LoadKeeps ==
  ASSUME ProcessInv, NEW p \in Pids, Load(p)
  PROVE  ProcessInv'
<1>1. pc[p] = "start" /\ Touch(p)
  BY DEF Load, At
<1>2. /\ p # Main /\ cp[p] \in Blocks /\ heap[cp[p]] \in Records
      /\ Calm => heap[cp[p]].pid = p
  BY <1>1, HasRecord DEF ProcessInv
<1>3. PICK success \in BOOLEAN :
        /\ success \/ "load failure" \in mishaps
        /\ heap' = [heap EXCEPT ![cp[p]].loaded = success, ![cp[p]].failed = ~success]
        /\ pc' = [pc EXCEPT ![p] = IF success THEN "loaded" ELSE "failed"]
        /\ running' = IF success THEN running \cup {p} ELSE running
  BY DEF Load, Goto
<1> DEFINE place == IF success THEN "loaded" ELSE "failed"
<1>4. UNCHANGED <<next_tid, parent, cp, child_list, mishaps, exit_status, child>>
  BY DEF Load, family, machine
<1>5. Calm => success
  BY <1>3 DEF Calm
<1>6. MayGo(p, place)
  BY <1>1, <1>2, <1>5 DEF MayGo, Places, Ended
<1>7. heap' \in [Blocks -> Records]
      /\ \A a \in Blocks : heap'[a].pid = heap[a].pid /\ (Calm => ~heap'[a].failed)
                          /\ heap'[a].sema_child_exit = heap[a].sema_child_exit
  <2> DEFINE r == [heap[cp[p]] EXCEPT !.loaded = success, !.failed = ~success]
  <2>1. heap \in [Blocks -> Records] /\ heap[cp[p]] \in Records
    BY <1>2 DEF ProcessInv, Family, FamilyTypes
  <2>2. heap' = [heap EXCEPT ![cp[p]] = r]
    BY <1>2, <1>3, <2>1
  <2>3. /\ r \in Records /\ r.pid = heap[cp[p]].pid /\ r.failed = ~success
        /\ r.sema_child_exit = heap[cp[p]].sema_child_exit
    BY <2>1 DEF Records
  <2>4. Calm => \A a \in Blocks : ~heap[a].failed
    BY DEF ProcessInv, Family, CalmRecords
  <2> HIDE DEF r
  <2> QED
    BY <1>2, <1>5, <2>1, <2>2, <2>3, <2>4
<1>8. stale' \in BOOLEAN /\ (Calm => ~stale')
  BY <1>1, <1>2 DEF Touch, ProcessInv, Family, FamilyTypes, CalmRecords
<1>9. Family'
  <2>1. child'[p] = 0 /\ child' \in [Pids -> Blocks \cup {0}]
    BY <1>1, <1>4 DEF ProcessInv, Family, FamilyTypes, Hands, Busy
  <2>2. \A q \in Pids : pc'[q] = IF q = p THEN place ELSE pc[q]
    BY <1>3 DEF ProcessInv, Family, FamilyTypes
  <2>3. Calm => \A a \in Blocks : heap'[a].pid # 0 /\ heap'[a].sema_child_exit > 0 =>
                                    pc'[heap[a].pid] \in Ended
    <3>1. \A a \in Blocks : heap[a].pid # 0 => heap[a].pid \in Pids
      BY DEF ProcessInv, Family, FamilyTypes, Records
    <3> QED
      BY <1>1, <1>7, <2>2, <3>1 DEF ProcessInv, Family, CalmRecords, Ended
  <2>4. place \notin Busy /\ place \notin Childless /\ place \notin {"exit_ret", "cleanup"}
    BY DEF Busy, Childless, Ended
  <2>5. exit_status' \in [Pids -> Returned]
    BY <1>4 DEF ProcessInv, Family, FamilyTypes
  <2>6. pc' = [pc EXCEPT ![p] = place]
    BY <1>3
  <2> HIDE DEF place
  <2> QED
    BY <1>4, <1>6, <1>7, <1>8, <2>1, <2>3, <2>4, <2>5, <2>6, RecordKeeps DEF ProcessInv
<1>10. Locks'
  BY <1>3, LocksAside DEF Load, At, ProcessInv, Family, FamilyTypes, Exiting, EndsEarly
<1>11. OtherTypes'
  BY <1>3 DEF Load, ProcessInv, OtherTypes, family, machine
<1> QED
  BY <1>9, <1>10, <1>11 DEF ProcessInv

(* A step that may panic, by using a record that was freed. *)
LEMMA LocksSurvive ==
  ASSUME Locks, power = "on", UNCHANGED <<lock_f, is_lock_init, mishaps>>,
         power' = "on" \/ (stale' /\ ~Calm),
         \A q \in Pids \ {Main} : pc'[q] \in Exiting =>
           pc[q] \in Exiting \/ is_lock_init \/ EndsEarly
  PROVE  Locks'
<1>1. OnlyKnownPanics'
  BY DEF OnlyKnownPanics, FreedRecord, Calm
<1> QED
  BY <1>1 DEF Locks, EndsEarly

LEMMA LoadedKeeps ==
  ASSUME ProcessInv, NEW p \in Pids, Loaded(p)
  PROVE  ProcessInv'
<1> DEFINE place == IF pc[p] = "loaded" THEN "user" ELSE "cleanup"
<1>1. pc[p] \in {"loaded", "failed"} /\ SemaUp(p, "sema_child_load")
  BY DEF Loaded, At, UpLoad
<1>2. p # Main /\ cp[p] \in Blocks /\ (Calm => heap[cp[p]].pid = p /\ heap[cp[p]].pid # 0)
  BY <1>1, HasRecord DEF ProcessInv
<1>3. /\ heap' \in [Blocks -> Records]
      /\ \A b \in Blocks : heap'[b].pid = heap[b].pid /\ heap'[b].failed = heap[b].failed
                         /\ heap'[b].sema_child_exit = heap[b].sema_child_exit
      /\ stale' = (stale \/ heap[cp[p]].pid # p)
      /\ heap[cp[p]].pid # 0 => UNCHANGED machine
      /\ UNCHANGED <<lock_f, is_lock_init, mishaps>> /\ power' \in {power, "panic"}
  BY <1>1, <1>2, SemaUpRecords DEF ProcessInv
<1>4. /\ UNCHANGED <<next_tid, parent, cp, child_list, exit_status, child, all_list>>
      /\ UNCHANGED <<running, exec_answer, wait_answer>>
      /\ pc' = [pc EXCEPT ![p] = place]
  BY DEF Loaded, Goto, family
<1>5. Calm => pc[p] = "loaded" /\ place = "user"
  BY <1>1 DEF ProcessInv, Family, CalmRecords
<1>6. MayGo(p, place)
  BY <1>1, <1>2 DEF MayGo, Places, Ended
<1>7. Family'
  <2>1. child'[p] = 0 /\ child' \in [Pids -> Blocks \cup {0}]
    BY <1>1, <1>4 DEF ProcessInv, Family, FamilyTypes, Hands, Busy
  <2>2. stale' \in BOOLEAN /\ (Calm => ~stale')
    BY <1>2, <1>3 DEF ProcessInv, Family, FamilyTypes, CalmRecords
  <2>3. place \notin Busy /\ place \notin Childless
    BY DEF Busy, Childless, Ended
  <2>4. Calm => place \notin {"exit_ret", "cleanup"}
    BY <1>5
  <2> HIDE DEF place
  <2> QED
    BY <1>3, <1>4, <1>6, <2>1, <2>2, <2>3, <2>4, TouchKeeps DEF ProcessInv
<1>8. Locks'
  <2>1. power = "on" /\ p \in Pids
    BY DEF Loaded, At
  <2>2. power' = "on" \/ (stale' /\ ~Calm)
    BY <1>2, <1>3, <2>1, Numbers DEF machine, ProcessInv
  <2>3. \A q \in Pids : pc'[q] \in Exiting => pc[q] \in Exiting
    BY <1>1, <1>4 DEF ProcessInv, Family, FamilyTypes, Exiting
  <2> QED
    BY <1>3, <2>1, <2>2, <2>3, LocksSurvive DEF ProcessInv
<1>9. OtherTypes'
  BY <1>3, <1>4 DEF ProcessInv, OtherTypes
<1> QED
  BY <1>7, <1>8, <1>9 DEF ProcessInv

LEMMA ExitRetKeeps ==
  ASSUME ProcessInv, NEW p \in Pids, ExitRet(p)
  PROVE  ProcessInv'
<1>1. pc[p] = "exit_ret" /\ Touch(p)
  BY DEF ExitRet, At
<1>2. /\ p # Main /\ cp[p] \in Blocks /\ heap[cp[p]] \in Records
      /\ Calm => heap[cp[p]].pid = p
  BY <1>1, HasRecord DEF ProcessInv
<1>3. heap' \in [Blocks -> Records]
      /\ \A a \in Blocks : heap'[a].pid = heap[a].pid /\ heap'[a].failed = heap[a].failed
                          /\ heap'[a].sema_child_exit = heap[a].sema_child_exit
  <2>1. heap \in [Blocks -> Records] /\ exit_status[p] \in Returned
    BY DEF ProcessInv, Family, FamilyTypes
  <2>2. heap' = heap \/ heap' = [heap EXCEPT ![cp[p]].ret = exit_status[p]]
    BY DEF ExitRet, RetWritten
  <2> QED
    BY <1>2, <2>1, <2>2 DEF Records
<1>4. /\ UNCHANGED <<next_tid, parent, cp, child_list, mishaps, exit_status, child>>
      /\ pc' = [pc EXCEPT ![p] = "cleanup"]
  BY DEF ExitRet, Goto, family, machine
<1>5. MayGo(p, "cleanup")
  BY <1>1, <1>2 DEF MayGo, Places, Ended
<1>6. Family'
  <2>1. child'[p] = 0 /\ child' \in [Pids -> Blocks \cup {0}]
    BY <1>1, <1>4 DEF ProcessInv, Family, FamilyTypes, Hands, Busy
  <2>2. stale' \in BOOLEAN /\ (Calm => ~stale')
    BY <1>1, <1>2 DEF Touch, ProcessInv, Family, FamilyTypes, CalmRecords
  <2>3. "cleanup" \notin Busy /\ "cleanup" \notin Childless
    BY DEF Busy, Childless, Ended
  <2>4. Calm => child_list[p] = {}
    BY <1>1 DEF ProcessInv, Family, CalmRecords
  <2> QED
    BY <1>3, <1>4, <1>5, <2>1, <2>2, <2>3, <2>4, TouchKeeps DEF ProcessInv
<1>7. Locks'
  BY <1>1, <1>4, LocksAside DEF ExitRet, At, ProcessInv, Family, FamilyTypes, Exiting
<1>8. OtherTypes'
  BY DEF ExitRet, ProcessInv, OtherTypes, family, machine
<1> QED
  BY <1>6, <1>7, <1>8 DEF ProcessInv

(* An assertion on lock_f fails in the known ways only. *)
LEMMA LockPanicKeeps ==
  ASSUME ProcessInv, NEW p \in Pids, LockPanics(p), is_lock_init \/ pc[p] = "cleanup"
  PROVE  ProcessInv'
<1>1. UNCHANGED <<process, family, heap, history, lock_f, is_lock_init, mishaps>>
      /\ power' = "panic"
  BY DEF LockPanics, Panic
<1>2. Family'
  BY <1>1, SameFamily DEF ProcessInv, history
<1>3. lock_f = Zeroed => UnreadyLock
  BY DEF UnreadyLock, ProcessInv, Locks, Exiting, EndsEarly
<1>4. lock_f = p => KeptLock
  BY DEF KeptLock, ProcessInv, Locks
<1>5. UnreadyLock' \/ KeptLock'
  BY <1>1, <1>3, <1>4 DEF LockPanics, UnreadyLock, KeptLock, process
<1>6. Locks'
  BY <1>1, <1>5 DEF ProcessInv, Locks, OnlyKnownPanics, EndsEarly, process
<1>7. OtherTypes'
  BY <1>1 DEF ProcessInv, OtherTypes, family, history
<1> QED
  BY <1>2, <1>6, <1>7 DEF ProcessInv

LEMMA ExitCleanupKeeps ==
  ASSUME ProcessInv, NEW p \in Pids, ExitCleanup(p)
  PROVE  ProcessInv'
<1>1. pc[p] = "cleanup"
  BY DEF ExitCleanup, At
<1>2. CASE LockPanics(p)
  BY <1>1, <1>2, LockPanicKeeps
<1>3. CASE /\ FreeRecords(p, child_list[p])
           /\ Goto(p, "exit_check")
           /\ UNCHANGED <<child, exit_status, machine, history>>
  <2>1. power = "on"
    BY DEF ExitCleanup, At
  <2>2. MayGo(p, "exit_check")
    BY <1>1 DEF MayGo, Places, Ended, TaskPlaces
  <2>3. child' = [child EXCEPT ![p] = 0]
    BY <1>1, <1>3 DEF ProcessInv, Family, FamilyTypes, Hands, Busy
  <2>4. Calm => child_list[p] = {}
    BY <1>1 DEF ProcessInv, Family, CalmRecords
  <2>5. "exit_check" \notin Busy /\ "exit_check" \notin {"exit_ret", "cleanup"}
    BY DEF Busy
  <2>6. UNCHANGED <<exit_status, mishaps, stale>> /\ pc' = [pc EXCEPT ![p] = "exit_check"]
    BY <1>3 DEF machine, history, Goto
  <2>7. Calm => \A b \in child_list[p] : pc'[heap[b].pid] \in Ended
    BY <2>4
  <2>8. Family'
    BY <1>3, <2>2, <2>3, <2>5, <2>6, <2>7, FreeKeeps DEF ProcessInv
  <2>9. Locks'
    BY <1>3, <2>1, <2>6, LocksAside DEF ProcessInv, Family, FamilyTypes, Exiting
  <2>10. OtherTypes'
    BY <1>3 DEF FreeRecords, ProcessInv, OtherTypes, machine, history
  <2> QED
    BY <2>8, <2>9, <2>10 DEF ProcessInv
<1> QED
  BY <1>2, <1>3 DEF ExitCleanup

LEMMA ExitUpKeeps ==
  ASSUME ProcessInv, NEW p \in Pids, ExitUp(p)
  PROVE  ProcessInv'
<1>1. pc[p] = "exit_up" /\ SemaUp(p, "sema_child_exit")
  BY DEF ExitUp, At
<1>2. p # Main /\ cp[p] \in Blocks /\ (Calm => heap[cp[p]].pid = p /\ heap[cp[p]].pid # 0)
  BY <1>1, HasRecord DEF ProcessInv
<1>3. /\ heap' \in [Blocks -> Records]
      /\ \A b \in Blocks : heap'[b].pid = heap[b].pid /\ heap'[b].failed = heap[b].failed
      /\ \A b \in Blocks : b # cp[p] => heap'[b].sema_child_exit = heap[b].sema_child_exit
      /\ stale' = (stale \/ heap[cp[p]].pid # p)
      /\ heap[cp[p]].pid # 0 => UNCHANGED machine
      /\ UNCHANGED <<lock_f, is_lock_init, mishaps>> /\ power' \in {power, "panic"}
  BY <1>1, <1>2, SemaUpRecords DEF ProcessInv
<1>4. /\ UNCHANGED <<next_tid, parent, cp, child_list, exit_status, child, all_list>>
      /\ UNCHANGED <<running, exec_answer, wait_answer>>
      /\ pc' = [pc EXCEPT ![p] = "dying"]
  BY DEF ExitUp, Goto, family
<1>5. MayGo(p, "dying")
  BY <1>1, <1>2 DEF MayGo, Places, Ended
<1>6. \A q \in Pids : pc'[q] = IF q = p THEN "dying" ELSE pc[q]
  BY <1>4 DEF ProcessInv, Family, FamilyTypes
<1>7. Family'
  <2>1. child'[p] = 0 /\ child' \in [Pids -> Blocks \cup {0}]
    BY <1>1, <1>4 DEF ProcessInv, Family, FamilyTypes, Hands, Busy
  <2>2. stale' \in BOOLEAN /\ (Calm => ~stale')
    BY <1>2, <1>3 DEF ProcessInv, Family, FamilyTypes, CalmRecords
  <2>3. "dying" \notin Busy /\ "dying" \in Ended
    BY DEF Busy, Ended
  <2>4. child_list[p] = {}
    BY <1>1 DEF ProcessInv, Family, Hands, Childless
  <2>5. ASSUME Calm
        PROVE  \A b \in Blocks : heap'[b].pid # 0 /\ heap'[b].sema_child_exit > 0 =>
                                   pc'[heap[b].pid] \in Ended
    <3> SUFFICES ASSUME NEW b \in Blocks, heap'[b].pid # 0, heap'[b].sema_child_exit > 0
                 PROVE  pc'[heap[b].pid] \in Ended
      OBVIOUS
    <3>1. heap[b].pid \in Pids /\ heap[b].pid # 0
      BY <1>3 DEF ProcessInv, Family, FamilyTypes, Records
    <3>2. CASE heap[b].pid = p
      BY <1>6, <2>3, <3>2
    <3>3. CASE heap[b].pid # p
      <4>1. b # cp[p]
        BY <1>2, <2>5, <3>3
      <4>2. pc[heap[b].pid] \in Ended
        BY <1>3, <2>5, <3>1, <4>1 DEF ProcessInv, Family, CalmRecords
      <4> QED
        BY <1>6, <3>1, <3>3, <4>2
    <3> QED
      BY <3>2, <3>3
  <2>6. Calm => \A b \in Blocks : ~heap'[b].failed
    BY <1>3 DEF ProcessInv, Family, CalmRecords
  <2>7. exit_status' \in [Pids -> Returned]
    BY <1>4 DEF ProcessInv, Family, FamilyTypes
  <2> QED
    BY <1>3, <1>4, <1>5, <2>1, <2>2, <2>3, <2>4, <2>5, <2>6, <2>7, RecordKeeps DEF ProcessInv
<1>8. Locks'
  <2>1. power = "on"
    BY DEF ExitUp, At
  <2>2. power' = "on" \/ (stale' /\ ~Calm)
    BY <1>2, <1>3, <2>1, Numbers DEF machine, ProcessInv
  <2>3. \A q \in Pids : pc'[q] \in Exiting => pc[q] \in Exiting
    BY <1>6 DEF Exiting
  <2> QED
    BY <1>3, <2>1, <2>2, <2>3, LocksSurvive DEF ProcessInv
<1>9. OtherTypes'
  BY <1>3, <1>4 DEF ProcessInv, OtherTypes
<1> QED
  BY <1>7, <1>8, <1>9 DEF ProcessInv

-----------------------------------------------------------------------------
(* The steps that only move a thread from one place to the next. *)
LEMMA MovesKeep ==
  ASSUME ProcessInv, NEW p \in Pids,
         ExecCheck(p) \/ ExitCheck(p) \/ FirstCall(p) \/ ThreadExit(p)
  PROVE  ProcessInv'
<1>1. PICK place \in {"exec_down", "exec_result", "exit_up", "dying", "init_lock", "gone"} :
        /\ pc' = [pc EXCEPT ![p] = place]
        /\ pc[p] = "exec" => place \in {"exec_down", "exec_result"}
        /\ pc[p] = "exit_check" =>
             place = IF is_thread_alive(parent[p]) THEN "exit_up" ELSE "dying"
        /\ pc[p] = "user" => place = "init_lock" /\ p # Main
        /\ pc[p] = "dying" => place = "gone"
        /\ pc[p] \in {"exec", "exit_check", "user", "dying"}
  BY DEF ExecCheck, ExitCheck, FirstCall, ThreadExit, At, Goto
<1>2. /\ UNCHANGED <<next_tid, parent, cp, child_list, mishaps, heap, child, stale>>
      /\ UNCHANGED <<exit_status, machine, running, exec_answer, wait_answer>>
      /\ all_list' \subseteq all_list /\ power = "on"
  BY DEF ExecCheck, ExitCheck, FirstCall, ThreadExit, At, family, machine, history
<1>3. p = Main => place \in Ended
  <2>1. -1 \notin all_list
    BY Numbers DEF ProcessInv, OtherTypes
  <2> QED
    BY <1>1, <2>1 DEF ProcessInv, Family, Births, TaskPlaces, Ended, is_thread_alive
<1>4. MayGo(p, place)
  BY <1>1, <1>3 DEF MayGo, Places, Ended, TaskPlaces
<1>5. pc[p] \in Busy <=> place \in Busy
  BY <1>1 DEF Busy
<1>6. place \in Childless => child_list[p] = {}
  BY <1>1 DEF ProcessInv, Family, Hands, Childless, Ended
<1>7. place \notin {"exit_ret", "cleanup"}
  OBVIOUS
<1>8. exit_status' \in [Pids -> Returned]
  BY <1>2 DEF ProcessInv, Family, FamilyTypes
<1>9. Family'
  BY <1>1, <1>2, <1>4, <1>5, <1>6, <1>7, <1>8, MoveKeeps DEF ProcessInv
<1>10. Locks'
  BY <1>1, <1>2, <1>7, LocksAside DEF ProcessInv, Family, FamilyTypes, Exiting
<1>11. OtherTypes'
  BY <1>2 DEF ProcessInv, OtherTypes, machine
<1> QED
  BY <1>9, <1>10, <1>11 DEF ProcessInv

LEMMA SyscallExitKeeps ==
  ASSUME ProcessInv, NEW p \in Pids, NEW s \in Statuses \cup {-1}, SyscallExit(p, s)
  PROVE  ProcessInv'
<1>1. /\ pc[p] = "user" /\ power = "on" /\ MayEnd(p)
      /\ exit_status' = [exit_status EXCEPT ![p] = IF s < 0 THEN -1 ELSE s]
      /\ UNCHANGED <<child, family, heap, machine, history>>
  BY DEF SyscallExit, At
<1>2. PICK place \in {"exit_ret", "cleanup"} : pc' = [pc EXCEPT ![p] = place]
  BY DEF SyscallExit, Goto
<1>3. UNCHANGED <<next_tid, parent, cp, child_list, mishaps, heap, child, stale>>
  BY <1>1 DEF family, machine, history
<1>4. MayGo(p, place)
  BY <1>1 DEF MayGo, MayEnd, Places, Ended
<1>5. pc[p] \in Busy <=> place \in Busy
  BY <1>1 DEF Busy
<1>6. place \notin Childless
  BY DEF Childless, Ended
<1>7. Calm => child_list[p] = {}
  BY <1>1 DEF MayEnd, Calm
<1>8. exit_status' \in [Pids -> Returned]
  BY <1>1 DEF ProcessInv, Family, FamilyTypes, Returned
<1>9. Family'
  BY <1>2, <1>3, <1>4, <1>5, <1>6, <1>7, <1>8, MoveKeeps DEF ProcessInv
<1>10. is_lock_init \/ EndsEarly
  BY <1>1 DEF MayEnd, EndsEarly
<1>11. Locks'
  BY <1>1, <1>10, LocksAside DEF ProcessInv
<1>12. OtherTypes'
  BY <1>1 DEF ProcessInv, OtherTypes, family, machine, history
<1> QED
  BY <1>9, <1>11, <1>12 DEF ProcessInv

LEMMA InitLockKeeps ==
  ASSUME ProcessInv, NEW p \in Pids, InitLock(p)
  PROVE  ProcessInv'
<1>1. /\ pc[p] = "init_lock" /\ power = "on" /\ lock_f' = Released /\ is_lock_init' = TRUE
      /\ pc' = [pc EXCEPT ![p] = "user"]
      /\ UNCHANGED <<child, exit_status, family, heap, power, mishaps, history>>
  BY DEF InitLock, At, LockInit, Goto
<1>2. UNCHANGED <<next_tid, parent, cp, child_list, mishaps, heap, child, stale>>
  BY <1>1 DEF family, history
<1>3. MayGo(p, "user")
  BY <1>1 DEF MayGo, Places, Ended, TaskPlaces
<1>4. "user" \notin Childless /\ "user" \notin Busy /\ pc[p] \notin Busy
  BY <1>1 DEF Childless, Ended, Busy
<1>5. exit_status' \in [Pids -> Returned]
  BY <1>1 DEF ProcessInv, Family, FamilyTypes
<1>6. Family'
  BY <1>1, <1>2, <1>3, <1>4, <1>5, MoveKeeps DEF ProcessInv
<1>7. Released # Zeroed /\ Released \notin Pids
  BY Numbers DEF Released, Zeroed
<1>8. Locks'
  BY <1>1, <1>7 DEF ProcessInv, Locks, OnlyKnownPanics
<1>9. OtherTypes'
  BY <1>1 DEF ProcessInv, OtherTypes, family, history
<1> QED
  BY <1>6, <1>8, <1>9 DEF ProcessInv

LEMMA FileCallKeeps ==
  ASSUME ProcessInv, NEW p \in Pids, FileCall(p)
  PROVE  ProcessInv'
<1>1. is_lock_init /\ power = "on"
  BY DEF FileCall, Calls, At
<1>2. CASE LockPanics(p)
  BY <1>1, <1>2, LockPanicKeeps
<1>3. CASE /\ "out of memory" \in mishaps
           /\ lock_f' = p
           /\ UNCHANGED <<process, family, heap, is_lock_init, power, mishaps, history>>
  <2>1. Family'
    BY <1>3, SameFamily DEF ProcessInv, history
  <2>2. p # Zeroed
    BY DEF Zeroed, Pids
  <2>3. UNCHANGED <<pc, is_lock_init, power, mishaps>> /\ lock_f' = p
    BY <1>3 DEF process
  <2>4. Locks'
    <3>1. OnlyKnownPanics'
      BY <1>1, <2>3 DEF OnlyKnownPanics
    <3>2. lock_f' # Zeroed /\ "out of memory" \in mishaps'
      BY <1>3, <2>2, <2>3
    <3>3. is_lock_init'
      BY <1>1, <2>3
    <3> QED
      BY <3>1, <3>2, <3>3 DEF Locks
  <2>5. OtherTypes'
    BY <1>3 DEF ProcessInv, OtherTypes, family, history
  <2> QED
    BY <2>1, <2>4, <2>5 DEF ProcessInv
<1> QED
  BY <1>2, <1>3 DEF FileCall

LEMMA ShutdownKeeps ==
  ASSUME ProcessInv, Shutdown
  PROVE  ProcessInv'
<1>1. pc[Main] = "user" /\ Main \in Pids
  BY Numbers DEF Shutdown, At
<1>2. UNCHANGED <<next_tid, parent, cp, child_list, mishaps, heap, child, stale>>
      /\ UNCHANGED <<exit_status, lock_f, is_lock_init, family, history>>
      /\ power' \in {"on", "off"} /\ (UNCHANGED pc \/ pc' = [pc EXCEPT ![Main] = "cleanup"])
  BY DEF Shutdown, At, Goto, family, history
<1>3. ASSUME UNCHANGED pc PROVE Family'
  BY <1>2, <1>3, SameFamily DEF ProcessInv, process
<1>4. ASSUME pc' = [pc EXCEPT ![Main] = "cleanup"] PROVE Family'
  <2>1. MayGo(Main, "cleanup")
    BY <1>1 DEF MayGo, Places, Ended, TaskPlaces
  <2>2. "cleanup" \notin Childless /\ "cleanup" \notin Busy /\ pc[Main] \notin Busy
    BY <1>1 DEF Childless, Ended, Busy
  <2>3. child_list[Main] = {}
    BY <1>1, <2>2, Numbers DEF ProcessInv, Family, FamilyTypes, Hands
  <2>4. exit_status' \in [Pids -> Returned]
    BY <1>2 DEF ProcessInv, Family, FamilyTypes
  <2> QED
    BY <1>1, <1>2, <1>4, <2>1, <2>2, <2>3, <2>4, MoveKeeps DEF ProcessInv
<1>5. Family'
  BY <1>2, <1>3, <1>4
<1>6. Locks'
  <2>1. \A q \in Pids \ {Main} : pc'[q] = pc[q]
    BY <1>2 DEF ProcessInv, Family, FamilyTypes
  <2> QED
    BY <1>2, <2>1 DEF ProcessInv, Locks, OnlyKnownPanics, EndsEarly
<1>7. OtherTypes'
  BY <1>2 DEF ProcessInv, OtherTypes, family, history
<1> QED
  BY <1>5, <1>6, <1>7 DEF ProcessInv

-----------------------------------------------------------------------------
LEMMA InitInv == Init => ProcessInv
<1> SUFFICES ASSUME Init PROVE ProcessInv
  OBVIOUS
<1>1. Freed \in Records /\ Freed.pid = 0 /\ ~Freed.failed /\ Freed.sema_child_exit = 0
  BY DEF Freed, NewRecord, Records, Returned
<1>2. heap = [b \in Blocks |-> Freed]
  BY DEF Init
<1>3. \A b \in Blocks : heap[b].pid = 0 /\ ~heap[b].failed /\ heap[b].sema_child_exit = 0
  BY <1>1, <1>2
<1>4. FamilyTypes
  <2>1. /\ pc \in [Pids -> Places] /\ next_tid \in 2..(MaxPid + 1)
        /\ child \in [Pids -> Blocks \cup {0}] /\ cp \in [Pids -> Blocks \cup {0}]
        /\ child_list \in [Pids -> SUBSET Blocks]
    BY DEF Init, Places
  <2>2. /\ parent \in [Pids -> Pids \cup {-1}]
        /\ exit_status \in [Pids -> Returned]
    BY DEF Init, Returned
  <2>3. heap \in [Blocks -> Records]
    BY <1>1, <1>2
  <2>4. mishaps \subseteq Mishaps /\ stale \in BOOLEAN
    BY DEF Init
  <2> QED
    BY <2>1, <2>2, <2>3, <2>4 DEF FamilyTypes
<1>5. Births
  <2>1. next_tid = 2 /\ \A p \in Pids : pc[p] = IF p = Main THEN "user" ELSE "unborn"
    BY DEF Init
  <2> QED
    BY <1>3, <2>1, Numbers DEF Init, Births, Main, TaskPlaces
<1>6. Hands
  BY Numbers DEF Init, Hands, Busy, Childless, Ended
<1>7. RecordsOwned
  BY <1>3 DEF Init, RecordsOwned
<1>8. CalmRecords
  BY <1>3 DEF Init, CalmRecords, OwnRecord
<1>9. Locks
  <2>1. lock_f = Zeroed /\ ~is_lock_init /\ power = "on"
    BY DEF Init
  <2>2. \A p \in Pids : pc[p] = "user" \/ pc[p] = "unborn"
    BY DEF Init
  <2>3. Zeroed \notin Pids
    BY DEF Zeroed, Pids
  <2> QED
    BY <2>1, <2>2, <2>3 DEF Locks, OnlyKnownPanics, Exiting
<1>10. OtherTypes
  BY Numbers DEF Init, OtherTypes
<1> QED
  BY <1>4, <1>5, <1>6, <1>7, <1>8, <1>9, <1>10 DEF ProcessInv, Family

LEMMA NextKeeps == ProcessInv /\ [Next]_vars => ProcessInv'
<1> SUFFICES ASSUME ProcessInv, [Next]_vars PROVE ProcessInv'
  OBVIOUS
<1>1. CASE UNCHANGED vars
  <2>1. Family'
    BY <1>1, SameFamily DEF vars, machine, history, ProcessInv
  <2> QED
    BY <1>1, <2>1
       DEF ProcessInv, Locks, EndsEarly, OnlyKnownPanics, UnreadyLock, KeptLock, FreedRecord,
           OtherTypes, vars, process, family, machine, history
<1>2. CASE RunTask
  BY <1>2, CreateKeeps, Numbers
<1>3. CASE RunWait
  BY <1>3, RunWaitKeeps
<1>4. CASE Shutdown
  BY <1>4, ShutdownKeeps
<1>5. ASSUME NEW p \in Pids, Runs(p) PROVE ProcessInv'
  BY <1>5, InitLockKeeps, MovesKeep, ExecDownKeeps, ExecResultKeeps, LoadKeeps, LoadedKeeps,
     ReapKeeps, ExitRetKeeps, ExitCleanupKeeps, ExitUpKeeps DEF Runs
<1>6. ASSUME NEW p \in Pids, FirstCall(p) \/ Exec(p) \/ FileCall(p) PROVE ProcessInv'
  BY <1>6, MovesKeep, CreateKeeps, FileCallKeeps
<1>7. ASSUME NEW p \in Pids, NEW c \in Pids, Wait(p, c) PROVE ProcessInv'
  BY <1>7, WaitKeeps
<1>8. ASSUME NEW p \in Pids, NEW s \in Statuses \cup {-1}, SyscallExit(p, s) PROVE ProcessInv'
  BY <1>8, SyscallExitKeeps
<1> QED
  BY <1>1, <1>2, <1>3, <1>4, <1>5, <1>6, <1>7, <1>8 DEF Next

-----------------------------------------------------------------------------
(* Every variable of the processes keeps its type. *)
THEOREM ProcessTypes == Spec => []TypeOK
<1>1. ProcessInv => TypeOK
  BY DEF ProcessInv, Family, FamilyTypes, OtherTypes, TypeOK
<1> QED
  BY <1>1, InitInv, NextKeeps, PTL DEF Spec

(***************************************************************************)
(* process_execute() links the record of a child in one list, the list of  *)
(* the thread that made it, and process_wait(), sys_exec() and             *)
(* process_exit() free what they unlink and nothing else.                  *)
(***************************************************************************)
THEOREM RecordsHaveOneOwner == Spec => []RecordsOwned
<1>1. ProcessInv => RecordsOwned
  BY DEF ProcessInv, Family
<1> QED
  BY <1>1, InitInv, NextKeeps, PTL DEF Spec

(***************************************************************************)
(* start_process(), syscall_exit() and process_exit() use the record the   *)
(* child was given, as long as no load fails and no program ends before    *)
(* its children.                                                           *)
(***************************************************************************)
THEOREM RecordsAreFresh == Spec => []StaleOnlyAfterMishap
<1>1. ProcessInv => StaleOnlyAfterMishap
  BY DEF ProcessInv, Family, CalmRecords, Calm, StaleOnlyAfterMishap
<1> QED
  BY <1>1, InitInv, NextKeeps, PTL DEF Spec

(***************************************************************************)
(* process_exit() and the calls on files panic the kernel over a lock that *)
(* is not initialised when main() or a program that faulted or failed to   *)
(* load exits, over a lock that a failed malloc() left held, or over the   *)
(* record of a child whose parent has freed it; nothing else does.         *)
(***************************************************************************)
THEOREM NothingElsePanics == Spec => []OnlyKnownPanics
<1>1. ProcessInv => OnlyKnownPanics
  BY DEF ProcessInv, Locks
<1> QED
  BY <1>1, InitInv, NextKeeps, PTL DEF Spec

-----------------------------------------------------------------------------
(***************************************************************************)
(* What parents are told.  The proofs of this section are about behaviours *)
(* in which every thread has used its own record only: ~stale.             *)
(***************************************************************************)

(* Where a child's program has not been tried yet. *)
Unstarted == {"unborn", "start"}

(* The threads is_thread_alive() finds are those between birth and death. *)
Alive ==
  /\ all_list = {p \in Pids : pc[p] \notin {"unborn", "gone"}}
  /\ \A p \in Pids : pc[p] = "unborn" => child_list[p] = {} /\ exit_status[p] = Unset

(***************************************************************************)
(* What the record of a child says of it, as long as nobody has used one   *)
(* that is not its own: the bits and semaphores are set by the child, the  *)
(* status is handed over before it ends, and it has not been reaped.       *)
(***************************************************************************)
Says(r) ==
  /\ r.loaded => r.pid \in running
  /\ r.failed => r.pid \notin running
  /\ pc[r.pid] \in Unstarted => ~r.loaded /\ ~r.failed /\ r.sema_child_load = 0
  /\ pc[r.pid] \notin Unstarted => r.loaded \/ r.failed
  /\ r.sema_child_exit > 0 => pc[r.pid] \in Ended
  /\ pc[r.pid] # "exit_ret" => r.ret = exit_status[r.pid]
  /\ wait_answer[r.pid] = None

Answered ==
  \A c \in Pids :
    /\ exec_answer[c] = c => c \in running
    /\ exec_answer[c] = -1 => c \notin running
    /\ pc[c] \in Unstarted => exec_answer[c] = 0 /\ c \notin running
    /\ wait_answer[c] # None => pc[c] \in Ended

Told ==
  ~stale =>
    /\ \A b \in Blocks : heap[b].pid # 0 => Says(heap[b])
    /\ \A p \in Pids : pc[p] = "exec_result" => heap[child[p]].loaded \/ heap[child[p]].failed
    /\ Answered

(* A record belongs to one child, whose parent is alive and lists it. *)
LEMMA RecordOf ==
  ASSUME ProcessInv, Alive, NEW b \in Blocks, heap[b].pid # 0
  PROVE  /\ heap[b] \in Records /\ heap[b].pid \in Pids /\ cp[heap[b].pid] = b
         /\ parent[heap[b].pid] \in all_list /\ b \in child_list[parent[heap[b].pid]]
         /\ heap[b].pid < next_tid
<1>1. heap[b] \in Records /\ heap[b].pid \in Pids /\ heap[b].pid < next_tid
  BY DEF ProcessInv, Family, FamilyTypes, Records, Births
<1>2. PICK p \in Pids : b \in child_list[p]
  BY DEF ProcessInv, Family, RecordsOwned
<1>3. parent[heap[b].pid] = p /\ cp[heap[b].pid] = b
  BY <1>2 DEF ProcessInv, Family, RecordsOwned
<1>4. pc[p] # "unborn" /\ pc[p] # "gone"
  BY <1>2 DEF Alive, ProcessInv, Family, RecordsOwned
<1> QED
  BY <1>1, <1>2, <1>3, <1>4 DEF Alive

LEMMA AliveMoves ==
  ASSUME ProcessInv, Alive, NEW p \in Pids, NEW place,
         pc' = [pc EXCEPT ![p] = place], place # "unborn", pc[p] \notin {"unborn", "gone"},
         all_list' = IF place = "gone" THEN all_list \ {p} ELSE all_list,
         \A q \in Pids : child_list'[q] \subseteq child_list[q],
         \A q \in Pids \ {p} : exit_status'[q] = exit_status[q]
  PROVE  Alive'
<1>1. \A q \in Pids : pc'[q] = IF q = p THEN place ELSE pc[q]
  BY DEF ProcessInv, Family, FamilyTypes
<1>2. \A q \in Pids : q \in all_list <=> pc[q] \notin {"unborn", "gone"}
  BY DEF Alive
<1>3. all_list' \subseteq Pids
  BY DEF Alive
<1>4. \A q \in Pids : q \in all_list' <=> pc'[q] \notin {"unborn", "gone"}
  BY <1>1, <1>2
<1>5. all_list' = {q \in Pids : pc'[q] \notin {"unborn", "gone"}}
  BY <1>3, <1>4
<1>6. \A q \in Pids : pc'[q] = "unborn" => child_list'[q] = {} /\ exit_status'[q] = Unset
  BY <1>1 DEF Alive
<1> QED
  BY <1>5, <1>6 DEF Alive

LEMMA AliveForks ==
  ASSUME ProcessInv, Alive, NEW p \in Pids, Exec(p) \/ (p = Main /\ RunTask)
  PROVE  Alive'
<1>1. PICK b \in Blocks : Fork(p, b)
  BY DEF Exec, RunTask
<1>2. PICK place \in {"exec", "run_wait"} : pc' = [pc EXCEPT ![p] = place, ![next_tid] = "start"]
  BY DEF Exec, RunTask, TaskWaits
<1>3. pc[p] = "user" /\ UNCHANGED exit_status
  BY DEF Exec, Calls, RunTask, At
<1>4. next_tid \in Pids /\ pc[next_tid] = "unborn" /\ next_tid # p
  BY <1>1, <1>3 DEF Fork, ProcessInv, Family, FamilyTypes, Births, Pids
<1>5. \A q \in Pids : pc'[q] = IF q = next_tid THEN "start" ELSE IF q = p THEN place ELSE pc[q]
  BY <1>2, <1>4 DEF ProcessInv, Family, FamilyTypes
<1>6. all_list' = all_list \cup {next_tid}
      /\ \A q \in Pids \ {p} : child_list'[q] = child_list[q]
  BY <1>1 DEF Fork, ProcessInv, Family, FamilyTypes
<1>7. \A q \in Pids : q \in all_list' <=> pc'[q] \notin {"unborn", "gone"}
  BY <1>3, <1>4, <1>5, <1>6 DEF Alive
<1>8. all_list' = {q \in Pids : pc'[q] \notin {"unborn", "gone"}}
  BY <1>4, <1>6, <1>7 DEF Alive
<1>9. \A q \in Pids : pc'[q] = "unborn" => child_list'[q] = {} /\ exit_status'[q] = Unset
  BY <1>3, <1>5, <1>6 DEF Alive
<1> QED
  BY <1>8, <1>9 DEF Alive

LEMMA AliveKeeps == ProcessInv /\ Alive /\ [Next]_vars => Alive'
<1> SUFFICES ASSUME ProcessInv, Alive, [Next]_vars PROVE Alive'
  OBVIOUS
<1>1. ASSUME UNCHANGED <<pc, family, exit_status>> PROVE Alive'
  BY <1>1 DEF family, Alive
<1>2. CASE UNCHANGED vars
  BY <1>1, <1>2 DEF vars, process
<1>3. CASE RunTask
  BY <1>3, AliveForks, Numbers
<1>4. CASE RunWait
  BY <1>4, AliveMoves, Numbers DEF RunWait, At, Goto, family
<1>5. CASE Shutdown
  <2>1. CASE UNCHANGED pc
    BY <1>1, <1>5, <2>1 DEF Shutdown
  <2>2. CASE Goto(Main, "cleanup")
    BY <1>5, <2>2, AliveMoves, Numbers DEF Shutdown, At, Goto, family
  <2> QED
    BY <1>5, <2>1, <2>2 DEF Shutdown
<1>6. ASSUME NEW p \in Pids, Runs(p) PROVE Alive'
  <2>1. CASE InitLock(p)
    BY <2>1, AliveMoves DEF InitLock, At, Goto, family
  <2>2. CASE ExecCheck(p)
    BY <2>2, AliveMoves DEF ExecCheck, At, Goto, family
  <2>3. CASE ExecDown(p)
    BY <2>3, AliveMoves DEF ExecDown, At, Goto, family
  <2>4. CASE ExecResult(p)
    BY <2>4, AliveMoves
       DEF ExecResult, FreeRecords, At, Goto, ProcessInv, Family, FamilyTypes
  <2>5. CASE Load(p)
    <3>1. PICK place \in {"loaded", "failed"} : pc' = [pc EXCEPT ![p] = place]
      BY <2>5 DEF Load, Goto
    <3> QED
      BY <2>5, <3>1, AliveMoves DEF Load, At, family
  <2>6. CASE Loaded(p)
    BY <2>6, AliveMoves DEF Loaded, At, Goto, family
  <2>7. CASE Reap(p)
    BY <2>7, AliveMoves DEF Reap, FreeRecords, At, Goto, ProcessInv, Family, FamilyTypes
  <2>8. CASE ExitRet(p)
    BY <2>8, AliveMoves DEF ExitRet, At, Goto, family
  <2>9. CASE ExitCleanup(p)
    <3>1. CASE LockPanics(p)
      BY <1>1, <3>1 DEF LockPanics, process
    <3>2. CASE FreeRecords(p, child_list[p]) /\ Goto(p, "exit_check")
               /\ UNCHANGED <<child, exit_status, machine, history>>
      BY <2>9, <3>2, AliveMoves
         DEF ExitCleanup, FreeRecords, At, Goto, ProcessInv, Family, FamilyTypes
    <3> QED
      BY <2>9, <3>1, <3>2 DEF ExitCleanup
  <2>10. CASE ExitCheck(p)
    BY <2>10, AliveMoves DEF ExitCheck, At, Goto, family
  <2>11. CASE ExitUp(p)
    BY <2>11, AliveMoves DEF ExitUp, At, Goto, family
  <2>12. CASE ThreadExit(p)
    BY <2>12, AliveMoves DEF ThreadExit, At, Goto
  <2> QED
    BY <1>6, <2>1, <2>2, <2>3, <2>4, <2>5, <2>6, <2>7, <2>8, <2>9, <2>10, <2>11, <2>12 DEF Runs
<1>7. ASSUME NEW p \in Pids, FirstCall(p) PROVE Alive'
  BY <1>7, AliveMoves DEF FirstCall, At, Goto, family
<1>8. ASSUME NEW p \in Pids, Exec(p) PROVE Alive'
  BY <1>8, AliveForks
<1>9. ASSUME NEW p \in Pids, FileCall(p) PROVE Alive'
  BY <1>1, <1>9 DEF FileCall, LockPanics, process
<1>10. ASSUME NEW p \in Pids, NEW c \in Pids, Wait(p, c) PROVE Alive'
  <2>1. CASE Goto(p, "wait")
    BY <1>10, <2>1, AliveMoves DEF Wait, Calls, At, Goto, family
  <2>2. CASE UNCHANGED pc
    BY <1>1, <1>10, <2>2 DEF Wait
  <2> QED
    BY <1>10, <2>1, <2>2 DEF Wait
<1>11. ASSUME NEW p \in Pids, NEW s \in Statuses \cup {-1}, SyscallExit(p, s) PROVE Alive'
  BY <1>11, AliveMoves DEF SyscallExit, At, Goto, family, ProcessInv, Family, FamilyTypes
<1> QED
  BY <1>2, <1>3, <1>4, <1>5, <1>6, <1>7, <1>8, <1>9, <1>10, <1>11 DEF Next

(***************************************************************************)
(* A step of p that starts no program and creates no child: p changes what *)
(* its own record says as it moves, others' records stay as they were or   *)
(* are freed, and who is answered has been tried or has ended.             *)
(***************************************************************************)
LEMMA ToldMoves ==
  ASSUME ProcessInv, ProcessInv', Told, ~stale, NEW p \in Pids, NEW place,
         pc' = [pc EXCEPT ![p] = place], pc[p] \notin Unstarted, place \notin Unstarted,
         pc[p] \in Ended => place \in Ended,
         UNCHANGED running, \A q \in Pids \ {p} : exit_status'[q] = exit_status[q],
         \A b \in Blocks : heap'[b].pid # 0 =>
           /\ heap'[b].pid = heap[b].pid /\ heap'[b].loaded = heap[b].loaded
           /\ heap'[b].failed = heap[b].failed
           /\ heap'[b].pid # p =>
                /\ heap'[b].sema_child_load > 0 => heap[b].sema_child_load > 0
                /\ heap'[b].sema_child_exit = heap[b].sema_child_exit
                /\ heap'[b].ret = heap[b].ret
           /\ heap'[b].pid = p =>
                /\ heap'[b].sema_child_exit > 0 => place \in Ended
                /\ place # "exit_ret" => heap'[b].ret = exit_status'[p],
         \A q \in Pids \ {p} : child[q] # 0 =>
           /\ child'[q] = child[q] /\ heap'[child[q]].loaded = heap[child[q]].loaded
           /\ heap'[child[q]].failed = heap[child[q]].failed,
         place = "exec_result" => heap'[child'[p]].loaded \/ heap'[child'[p]].failed,
         \A c \in Pids : \/ exec_answer'[c] = exec_answer[c]
                         \/ /\ pc[c] \notin Unstarted
                            /\ exec_answer'[c] = c => c \in running
                            /\ exec_answer'[c] = -1 => c \notin running,
         \A c \in Pids : \/ wait_answer'[c] = wait_answer[c]
                         \/ pc[c] \in Ended /\ \A b \in Blocks : heap'[b].pid # c
  PROVE  Told'
<1>1. \A q \in Pids : pc'[q] = IF q = p THEN place ELSE pc[q]
  BY DEF ProcessInv, Family, FamilyTypes
<1>2. \A b \in Blocks : heap[b] \in Records /\ (heap'[b].pid # 0 => heap'[b].pid \in Pids)
  BY DEF ProcessInv, Family, FamilyTypes, Records
<1>3. Answered /\ \A b \in Blocks : heap[b].pid # 0 => Says(heap[b])
  BY DEF Told
<1>4. ASSUME NEW b \in Blocks, heap'[b].pid # 0 PROVE Says(heap[b])'
  <2>1. /\ heap'[b].pid = heap[b].pid /\ heap'[b].loaded = heap[b].loaded
        /\ heap'[b].failed = heap[b].failed /\ heap[b].pid \in Pids
    BY <1>2, <1>4
  <2>2. Says(heap[b]) /\ heap[b] \in Records
    BY <1>2, <1>3, <1>4, <2>1
  <2>3. wait_answer'[heap[b].pid] = None
    BY <1>4, <2>1, <2>2 DEF Says
  <2>4. CASE heap[b].pid = p
    BY <1>1, <1>4, <2>1, <2>2, <2>3, <2>4 DEF Says
  <2>5. CASE heap[b].pid # p
    <3>1. /\ heap'[b].sema_child_load > 0 => heap[b].sema_child_load > 0
          /\ heap'[b].sema_child_exit = heap[b].sema_child_exit
          /\ heap'[b].ret = heap[b].ret
          /\ pc'[heap[b].pid] = pc[heap[b].pid]
          /\ exit_status'[heap[b].pid] = exit_status[heap[b].pid]
      BY <1>1, <1>4, <2>1, <2>5
    <3>2. heap'[b].sema_child_load \in Nat /\ heap[b].sema_child_load \in Nat
      BY <2>2 DEF ProcessInv, Family, FamilyTypes, Records
    <3> QED
      BY <1>4, <2>1, <2>2, <2>3, <3>1, <3>2 DEF Says
  <2> QED
    BY <2>4, <2>5
<1>5. ASSUME NEW q \in Pids, pc'[q] = "exec_result"
      PROVE  heap'[child'[q]].loaded \/ heap'[child'[q]].failed
  <2>1. CASE q = p
    BY <1>1, <1>5, <2>1
  <2>2. CASE q # p
    <3>1. pc[q] = "exec_result" /\ child[q] # 0
      BY <1>1, <1>5, <2>2 DEF ProcessInv, Family, Hands, Busy
    <3> QED
      BY <2>2, <3>1 DEF Told
  <2> QED
    BY <2>1, <2>2
<1>6. Answered'
  <2>1. ASSUME NEW c \in Pids
        PROVE  /\ exec_answer'[c] = c => c \in running
               /\ exec_answer'[c] = -1 => c \notin running
               /\ pc'[c] \in Unstarted => exec_answer'[c] = 0 /\ c \notin running
               /\ wait_answer'[c] # None => pc'[c] \in Ended
    BY <1>1, <1>3 DEF Answered
  <2> QED
    BY <2>1 DEF Answered
<1> QED
  BY <1>4, <1>5, <1>6 DEF Told

(* A new child has been told nothing and has said nothing. *)
LEMMA ToldForks ==
  ASSUME ProcessInv, Alive, Told, ~stale, NEW p \in Pids, Exec(p) \/ (p = Main /\ RunTask)
  PROVE  Told'
<1> DEFINE n == next_tid
<1>1. PICK b \in Blocks : Fork(p, b)
  BY DEF Exec, RunTask
<1>2. PICK place \in {"exec", "run_wait"} : pc' = [pc EXCEPT ![p] = place, ![n] = "start"]
  BY DEF Exec, RunTask, TaskWaits
<1>3. pc[p] = "user" /\ UNCHANGED <<exit_status, running, exec_answer, wait_answer>>
  BY DEF Exec, Calls, RunTask, At, history
<1>4. n \in Pids /\ pc[n] = "unborn" /\ n # p /\ heap[b].pid = 0 /\ n # 0 /\ n \in Int
  BY <1>1, <1>3, Numbers DEF Fork, Allocated, ProcessInv, Family, FamilyTypes, Births, Pids
<1>5. \A q \in Pids : pc'[q] = IF q = n THEN "start" ELSE IF q = p THEN place ELSE pc[q]
  BY <1>2, <1>4 DEF ProcessInv, Family, FamilyTypes
<1>6. \A a \in Blocks : heap'[a] = IF a = b THEN NewRecord(n) ELSE heap[a]
  BY <1>1 DEF Fork, ProcessInv, Family, FamilyTypes
<1>7. \A q \in Pids \ {p} : child'[q] = child[q]
  BY <1>1 DEF Fork, ProcessInv, Family, FamilyTypes
<1>8. Answered /\ \A a \in Blocks : heap[a].pid # 0 => Says(heap[a])
  BY DEF Told
<1>9. ASSUME NEW a \in Blocks, heap'[a].pid # 0 PROVE Says(heap[a])'
  <2>1. CASE a = b
    <3>1. /\ heap'[a].pid = n /\ heap'[a].loaded = FALSE /\ heap'[a].failed = FALSE
          /\ heap'[a].ret = Unset /\ heap'[a].sema_child_load = 0 /\ heap'[a].sema_child_exit = 0
      BY <1>6, <2>1 DEF NewRecord
    <3>2. exit_status[n] = Unset /\ wait_answer[n] = None
      BY <1>4, <1>8 DEF Alive, Answered, Ended
    <3>3. pc'[n] = "start"
      BY <1>4, <1>5
    <3> QED
      BY <1>3, <3>1, <3>2, <3>3 DEF Says, Unstarted
  <2>2. CASE a # b
    <3>1. heap'[a] = heap[a] /\ heap[a].pid \in Pids /\ heap[a].pid < n
      BY <1>6, <1>9, <2>2, RecordOf
    <3>2. heap[a].pid # n /\ Says(heap[a])
      BY <1>4, <1>8, <1>9, <3>1, Numbers
    <3>3. CASE heap[a].pid = p
      <4>1. pc'[p] = place /\ place \notin Unstarted /\ place # "exit_ret"
        BY <1>4, <1>5 DEF Unstarted
      <4>2. pc[p] \notin Unstarted \cup Ended /\ pc[p] # "exit_ret"
        BY <1>3 DEF Unstarted, Ended
      <4> QED
        BY <1>3, <3>1, <3>2, <3>3, <4>1, <4>2 DEF Says
    <3>4. CASE heap[a].pid # p
      <4>1. pc'[heap[a].pid] = pc[heap[a].pid]
        BY <1>5, <3>1, <3>2, <3>4
      <4> QED
        BY <1>3, <3>1, <3>2, <4>1 DEF Says
    <3> QED
      BY <3>3, <3>4
  <2> QED
    BY <2>1, <2>2
<1>10. ASSUME NEW q \in Pids, pc'[q] = "exec_result"
       PROVE  heap'[child'[q]].loaded \/ heap'[child'[q]].failed
  <2>1. q # p /\ q # n /\ pc[q] = "exec_result"
    BY <1>4, <1>5, <1>10
  <2>2. child[q] \in Blocks /\ child[q] \in child_list[q] /\ child[q] # 0
    BY <2>1 DEF ProcessInv, Family, FamilyTypes, Hands, Busy, RecordsOwned
  <2>3. heap[child[q]].pid # 0
    BY <2>2 DEF ProcessInv, Family, RecordsOwned
  <2> QED
    BY <1>4, <1>6, <1>7, <2>1, <2>2, <2>3 DEF Told
<1>11. Answered'
  <2>1. ASSUME NEW c \in Pids
        PROVE  /\ exec_answer'[c] = c => c \in running'
               /\ exec_answer'[c] = -1 => c \notin running'
               /\ pc'[c] \in Unstarted => exec_answer'[c] = 0 /\ c \notin running'
               /\ wait_answer'[c] # None => pc'[c] \in Ended
    BY <1>3, <1>4, <1>5, <1>8 DEF Answered, Unstarted, Ended
  <2> QED
    BY <2>1 DEF Answered
<1> QED
  BY <1>9, <1>10, <1>11 DEF Told

(* load() says in the record whether the program is running. *)
LEMMA ToldLoads ==
  ASSUME ProcessInv, ProcessInv', Alive, Told, ~stale', NEW p \in Pids, Load(p)
  PROVE  Told'
<1>1. pc[p] = "start" /\ Touch(p) /\ UNCHANGED <<child, exit_status, exec_answer, wait_answer>>
  BY DEF Load, At
<1>2. p # Main /\ cp[p] \in Blocks /\ heap[cp[p]] \in Records
  BY <1>1, HasRecord DEF ProcessInv
<1>3. ~stale /\ heap[cp[p]].pid = p
  BY <1>1 DEF Touch
<1>4. PICK success \in BOOLEAN :
        /\ heap' = [heap EXCEPT ![cp[p]].loaded = success, ![cp[p]].failed = ~success]
        /\ pc' = [pc EXCEPT ![p] = IF success THEN "loaded" ELSE "failed"]
        /\ running' = IF success THEN running \cup {p} ELSE running
  BY DEF Load, Goto
<1>5. Answered /\ \A b \in Blocks : heap[b].pid # 0 => Says(heap[b])
  BY <1>3 DEF Told
<1>6. /\ \A q \in Pids \ {p} : pc'[q] = pc[q]
      /\ pc'[p] \in {"loaded", "failed"}
  BY <1>4 DEF ProcessInv, Family, FamilyTypes
<1>7. /\ \A b \in Blocks : heap'[b].pid = heap[b].pid
      /\ \A b \in Blocks : b # cp[p] => heap'[b] = heap[b]
      /\ heap'[cp[p]].loaded = success /\ heap'[cp[p]].failed = ~success
      /\ heap'[cp[p]].sema_child_load = heap[cp[p]].sema_child_load
      /\ heap'[cp[p]].sema_child_exit = heap[cp[p]].sema_child_exit
      /\ heap'[cp[p]].ret = heap[cp[p]].ret
  <2>1. PICK r : r = [heap[cp[p]] EXCEPT !.loaded = success, !.failed = ~success]
    OBVIOUS
  <2>2. /\ r.pid = heap[cp[p]].pid /\ r.loaded = success /\ r.failed = ~success
        /\ r.sema_child_load = heap[cp[p]].sema_child_load
        /\ r.sema_child_exit = heap[cp[p]].sema_child_exit /\ r.ret = heap[cp[p]].ret
    BY <1>2, <2>1 DEF Records
  <2>3. heap \in [Blocks -> Records]
    BY DEF ProcessInv, Family, FamilyTypes
  <2>4. heap' = [heap EXCEPT ![cp[p]] = r]
    BY <1>2, <1>4, <2>1, <2>3
  <2> QED
    BY <1>2, <2>2, <2>3, <2>4
<1>8. p \notin running /\ exec_answer[p] = 0 /\ wait_answer[p] = None
  BY <1>1, <1>5 DEF Answered, Unstarted, Ended
<1>9. /\ \A c \in Pids \ {p} : c \in running' <=> c \in running
      /\ p \in running' <=> success
  BY <1>4, <1>8
<1>10. ASSUME NEW b \in Blocks, heap'[b].pid # 0 PROVE Says(heap[b])'
  <2>1. heap[b].pid \in Pids /\ cp[heap[b].pid] = b /\ Says(heap[b])
    BY <1>5, <1>7, <1>10, RecordOf
  <2>2. CASE b = cp[p]
    <3>1. heap'[b].pid = p /\ heap[b].sema_child_exit = 0
      BY <1>1, <1>2, <1>3, <1>7, <2>1, <2>2 DEF Says, Ended, Records
    <3>2. heap[b].ret = exit_status[p]
      BY <1>1, <1>3, <2>1, <2>2 DEF Says
    <3>3. /\ heap'[b].loaded => p \in running'
          /\ heap'[b].failed => p \notin running'
          /\ heap'[b].loaded \/ heap'[b].failed
      BY <1>7, <1>9, <2>2
    <3>4. /\ ~(heap'[b].sema_child_exit > 0) /\ heap'[b].ret = exit_status'[p]
          /\ wait_answer'[p] = None /\ pc'[p] \notin Unstarted
      BY <1>1, <1>6, <1>7, <1>8, <2>2, <3>1, <3>2 DEF Unstarted
    <3> QED
      BY <3>1, <3>3, <3>4 DEF Says
  <2>3. CASE b # cp[p]
    <3>1. heap[b].pid # p /\ heap'[b] = heap[b]
      BY <1>7, <2>1, <2>3
    <3> QED
      BY <1>1, <1>6, <1>9, <2>1, <3>1 DEF Says
  <2> QED
    BY <2>2, <2>3
<1>11. ASSUME NEW q \in Pids, pc'[q] = "exec_result"
       PROVE  heap'[child'[q]].loaded \/ heap'[child'[q]].failed
  <2>1. q # p /\ pc[q] = "exec_result" /\ child'[q] = child[q]
    BY <1>1, <1>6, <1>11
  <2>2. child[q] \in Blocks /\ (heap[child[q]].loaded \/ heap[child[q]].failed)
    BY <1>3, <2>1, Numbers DEF Told, ProcessInv, Family, FamilyTypes, Hands, Busy
  <2> QED
    BY <1>7, <2>1, <2>2
<1>12. Answered'
  <2>1. ASSUME NEW c \in Pids
        PROVE  /\ exec_answer'[c] = c => c \in running'
               /\ exec_answer'[c] = -1 => c \notin running'
               /\ pc'[c] \in Unstarted => exec_answer'[c] = 0 /\ c \notin running'
               /\ wait_answer'[c] # None => pc'[c] \in Ended
    <3>1. CASE c = p
      BY <1>1, <1>6, <1>8, <3>1, Numbers DEF Unstarted
    <3>2. CASE c # p
      BY <1>1, <1>5, <1>6, <1>9, <3>2 DEF Answered
    <3> QED
      BY <3>1, <3>2
  <2> QED
    BY <2>1 DEF Answered
<1> QED
  BY <1>10, <1>11, <1>12 DEF Told

(* What the own record of a thread says, of which it is told nothing more. *)
LEMMA OwnWord ==
  ASSUME ProcessInv, Told, ~stale, NEW p \in Pids, NEW b \in Blocks, heap[b].pid = p
  PROVE  /\ heap[b].sema_child_exit > 0 => pc[p] \in Ended
         /\ pc[p] # "exit_ret" => heap[b].ret = exit_status[p]
BY Numbers DEF Told, Says

(* p only moves, and changes what nobody is told by. *)
LEMMA ToldStill ==
  ASSUME ProcessInv, ProcessInv', Told, ~stale, NEW p \in Pids, NEW place,
         pc' = [pc EXCEPT ![p] = place], pc[p] \notin Unstarted \cup {"exit_ret"},
         place \notin Unstarted, pc[p] \in Ended => place \in Ended,
         UNCHANGED <<exit_status, running, exec_answer, wait_answer>>,
         \A q \in Pids \ {p} : child'[q] = child[q],
         \A b \in Blocks :
           /\ heap'[b].pid = heap[b].pid /\ heap'[b].loaded = heap[b].loaded
           /\ heap'[b].failed = heap[b].failed /\ heap'[b].ret = heap[b].ret
           /\ heap'[b].sema_child_exit = heap[b].sema_child_exit
           /\ heap'[b].sema_child_load > 0 => heap[b].sema_child_load > 0,
         place = "exec_result" =>
           child'[p] = child[p] /\ (heap[child[p]].loaded \/ heap[child[p]].failed)
  PROVE  Told'
<1>1. \A q \in Pids : child[q] # 0 => child[q] \in Blocks
  BY DEF ProcessInv, Family, FamilyTypes
<1>2. place = "exec_result" => child[p] # 0
  BY DEF ProcessInv, Family, FamilyTypes, Hands, Busy
<1>3. ASSUME NEW b \in Blocks, heap'[b].pid = p
      PROVE  /\ heap'[b].sema_child_exit > 0 => place \in Ended
             /\ place # "exit_ret" => heap'[b].ret = exit_status'[p]
  BY <1>3, OwnWord
<1>4. place = "exec_result" => heap'[child'[p]].loaded \/ heap'[child'[p]].failed
  BY <1>1, <1>2
<1>5. \A b \in Blocks : heap'[b].pid # 0 =>
           /\ heap'[b].pid = heap[b].pid /\ heap'[b].loaded = heap[b].loaded
           /\ heap'[b].failed = heap[b].failed
           /\ heap'[b].pid # p =>
                /\ heap'[b].sema_child_load > 0 => heap[b].sema_child_load > 0
                /\ heap'[b].sema_child_exit = heap[b].sema_child_exit
                /\ heap'[b].ret = heap[b].ret
           /\ heap'[b].pid = p =>
                /\ heap'[b].sema_child_exit > 0 => place \in Ended
                /\ place # "exit_ret" => heap'[b].ret = exit_status'[p]
  BY <1>3
<1>6. \A q \in Pids \ {p} : child[q] # 0 =>
           /\ child'[q] = child[q] /\ heap'[child[q]].loaded = heap[child[q]].loaded
           /\ heap'[child[q]].failed = heap[child[q]].failed
  BY <1>1
<1>7. pc[p] \notin Unstarted
  OBVIOUS
<1> QED
  BY <1>4, <1>5, <1>6, <1>7, ToldMoves

LEMMA ToldAside ==
  ASSUME Told, UNCHANGED <<pc, heap, child, exit_status, history>>
  PROVE  Told'
BY DEF Told, Says, Answered, history

LEMMA SemaUpSame ==
  ASSUME ProcessInv, NEW p \in Pids, cp[p] \in Blocks, heap[cp[p]].pid = p,
         NEW sema \in {"sema_child_load", "sema_child_exit"}, SemaUp(p, sema)
  PROVE  /\ \A b \in Blocks : b # cp[p] => heap'[b] = heap[b]
         /\ \A b \in Blocks : /\ heap'[b].pid = heap[b].pid /\ heap'[b].loaded = heap[b].loaded
                              /\ heap'[b].failed = heap[b].failed /\ heap'[b].ret = heap[b].ret
                              /\ sema = "sema_child_load" =>
                                   heap'[b].sema_child_exit = heap[b].sema_child_exit
<1>1. heap \in [Blocks -> Records] /\ heap[cp[p]] \in Records
  BY DEF ProcessInv, Family, FamilyTypes
<1>2. heap' = [heap EXCEPT ![cp[p]][sema] = @ + 1]
  BY Numbers DEF SemaUp
<1>3. CASE sema = "sema_child_load"
  <2>1. PICK r : r = [heap[cp[p]] EXCEPT !.sema_child_load = @ + 1]
    OBVIOUS
  <2>2. /\ r.pid = heap[cp[p]].pid /\ r.loaded = heap[cp[p]].loaded
        /\ r.failed = heap[cp[p]].failed /\ r.ret = heap[cp[p]].ret
        /\ r.sema_child_exit = heap[cp[p]].sema_child_exit
    BY <1>1, <2>1 DEF Records
  <2>3. heap' = [heap EXCEPT ![cp[p]] = r]
    BY <1>1, <1>2, <1>3, <2>1
  <2> QED
    BY <1>1, <2>2, <2>3
<1>4. CASE sema = "sema_child_exit"
  <2>1. PICK r : r = [heap[cp[p]] EXCEPT !.sema_child_exit = @ + 1]
    OBVIOUS
  <2>2. /\ r.pid = heap[cp[p]].pid /\ r.loaded = heap[cp[p]].loaded
        /\ r.failed = heap[cp[p]].failed /\ r.ret = heap[cp[p]].ret
    BY <1>1, <2>1 DEF Records
  <2>3. heap' = [heap EXCEPT ![cp[p]] = r]
    BY <1>1, <1>2, <1>4, <2>1
  <2> QED
    BY <1>1, <1>4, <2>2, <2>3
<1> QED
  BY <1>3, <1>4

(* A parent frees records of its own: the others keep theirs. *)
LEMMA FreedRecords ==
  ASSUME ProcessInv, NEW p \in Pids, NEW bs, bs \subseteq child_list[p], FreeRecords(p, bs)
  PROVE  /\ \A b \in Blocks : heap'[b].pid # 0 => heap'[b] = heap[b] /\ b \notin bs
         /\ \A b \in bs : heap'[b].pid = 0
         /\ \A q \in Pids \ {p} : child[q] # 0 => heap'[child[q]] = heap[child[q]]
<1>1. \A b \in Blocks : heap'[b] = IF b \in bs THEN Freed ELSE heap[b]
  BY DEF FreeRecords
<1>2. Freed.pid = 0
  BY DEF Freed, NewRecord
<1>3. bs \subseteq Blocks
  BY DEF ProcessInv, Family, FamilyTypes
<1>4. ASSUME NEW q \in Pids \ {p}, child[q] # 0 PROVE child[q] \in Blocks /\ child[q] \notin bs
  BY <1>4 DEF ProcessInv, Family, FamilyTypes, RecordsOwned
<1> QED
  BY <1>1, <1>2, <1>3, <1>4

LEMMA ToldCalls ==
  ASSUME ProcessInv, ProcessInv', Told, ~stale, NEW p \in Pids,
         ExecCheck(p) \/ ExitCheck(p) \/ FirstCall(p) \/ ThreadExit(p) \/ InitLock(p)
  PROVE  Told'
<1>1. PICK place \in {"exec_down", "exec_result", "exit_up", "dying", "init_lock", "gone", "user"} :
        /\ pc' = [pc EXCEPT ![p] = place]
        /\ pc[p] \in {"exec", "exit_check", "user", "dying", "init_lock"}
        /\ pc[p] = "dying" => place = "gone"
        /\ place = "exec_result" => ~MustSleep(heap[child[p]])
  BY DEF ExecCheck, ExitCheck, FirstCall, ThreadExit, InitLock, At, Goto
<1>2. UNCHANGED <<heap, child, exit_status, running, exec_answer, wait_answer>>
  BY DEF ExecCheck, ExitCheck, FirstCall, ThreadExit, InitLock, history
<1>3. pc[p] \notin Unstarted \cup {"exit_ret"} /\ place \notin Unstarted
      /\ (pc[p] \in Ended => place \in Ended)
  BY <1>1 DEF Unstarted, Ended
<1>4. place = "exec_result" => heap[child[p]].loaded \/ heap[child[p]].failed
  BY <1>1 DEF MustSleep
<1> QED
  BY <1>1, <1>2, <1>3, <1>4, ToldStill

LEMMA ToldWaits ==
  ASSUME ProcessInv, ProcessInv', Told, ~stale, NEW p \in Pids,
         \/ p = Main /\ RunWait
         \/ (\E c \in Pids : Wait(p, c)) /\ ~UNCHANGED pc
         \/ ExecDown(p)
  PROVE  Told'
<1>1. PICK place \in {"wait", "exec_result"} :
        /\ pc' = [pc EXCEPT ![p] = place]
        /\ pc[p] \in {"run_wait", "user", "exec_down"}
        /\ place = "exec_result" => ExecDown(p) /\ pc[p] = "exec_down"
  BY DEF RunWait, Wait, Calls, ExecDown, At, Goto
<1>2. UNCHANGED <<exit_status, running, exec_answer, wait_answer>>
  BY DEF RunWait, Wait, ExecDown, history
<1>3. \A q \in Pids \ {p} : child'[q] = child[q]
  BY DEF RunWait, Wait, ExecDown, ProcessInv, Family, FamilyTypes
<1>4. heap \in [Blocks -> Records]
  BY DEF ProcessInv, Family, FamilyTypes
<1>5. \A b \in Blocks :
        /\ heap'[b].pid = heap[b].pid /\ heap'[b].loaded = heap[b].loaded
        /\ heap'[b].failed = heap[b].failed /\ heap'[b].ret = heap[b].ret
        /\ heap'[b].sema_child_exit = heap[b].sema_child_exit
        /\ heap'[b].sema_child_load > 0 => heap[b].sema_child_load > 0
  <2>1. CASE \E b \in Blocks : heap' = [heap EXCEPT ![b].waited = TRUE]
    <3>1. PICK b \in Blocks : heap' = [heap EXCEPT ![b].waited = TRUE]
      BY <2>1
    <3>2. PICK r : r = [heap[b] EXCEPT !.waited = TRUE]
      OBVIOUS
    <3>3. /\ r.pid = heap[b].pid /\ r.loaded = heap[b].loaded /\ r.failed = heap[b].failed
          /\ r.ret = heap[b].ret /\ r.sema_child_exit = heap[b].sema_child_exit
          /\ r.sema_child_load = heap[b].sema_child_load
      BY <1>4, <3>2 DEF Records
    <3>4. heap' = [heap EXCEPT ![b] = r]
      BY <1>4, <3>1, <3>2
    <3> QED
      BY <1>4, <3>3, <3>4
  <2>2. CASE ExecDown(p)
    <3>1. child[p] \in Blocks /\ heap[child[p]] \in Records /\ heap[child[p]].sema_child_load > 0
      BY <1>4, <2>2 DEF ExecDown, Downable, At, ProcessInv, Family, FamilyTypes, Hands, Busy
    <3>2. PICK r : r = [heap[child[p]] EXCEPT !.sema_child_load = @ - 1]
      OBVIOUS
    <3>3. /\ r.pid = heap[child[p]].pid /\ r.loaded = heap[child[p]].loaded
          /\ r.failed = heap[child[p]].failed /\ r.ret = heap[child[p]].ret
          /\ r.sema_child_exit = heap[child[p]].sema_child_exit
      BY <3>1, <3>2 DEF Records
    <3>4. heap' = [heap EXCEPT ![child[p]] = r]
      BY <1>4, <2>2, <3>1, <3>2 DEF ExecDown
    <3> QED
      BY <1>4, <3>1, <3>3, <3>4
  <2>3. CASE p = Main /\ RunWait
    <3>1. child[p] \in Blocks
      BY <2>3 DEF RunWait, At, ProcessInv, Family, FamilyTypes, Hands, Busy
    <3> QED
      BY <2>1, <2>3, <3>1 DEF RunWait
  <2>4. CASE (\E c \in Pids : Wait(p, c)) /\ ~UNCHANGED pc
    <3>1. \E b \in Blocks : heap' = [heap EXCEPT ![b].waited = TRUE]
      BY <2>4 DEF Wait, process_get_child, ProcessInv, Family, FamilyTypes
    <3> QED
      BY <2>1, <3>1
  <2> QED
    BY <2>2, <2>3, <2>4
<1>6. place = "exec_result" =>
        child'[p] = child[p] /\ (heap[child[p]].loaded \/ heap[child[p]].failed)
  <2> SUFFICES ASSUME place = "exec_result"
               PROVE  child'[p] = child[p] /\ (heap[child[p]].loaded \/ heap[child[p]].failed)
    OBVIOUS
  <2>1. ExecDown(p) /\ pc[p] = "exec_down"
    BY <1>1
  <2>2. child[p] \in Blocks /\ child[p] \in child_list[p] /\ child[p] # 0
    BY <2>1 DEF ProcessInv, Family, FamilyTypes, Hands, Busy, RecordsOwned
  <2>3. heap[child[p]].pid # 0 /\ heap[child[p]].sema_child_load > 0
    BY <2>1, <2>2 DEF ExecDown, Downable, ProcessInv, Family, RecordsOwned
  <2>4. Says(heap[child[p]])
    BY <2>2, <2>3 DEF Told
  <2> QED
    BY <2>1, <2>3, <2>4 DEF Says, ExecDown
<1>7. pc[p] \notin Unstarted \cup {"exit_ret"} /\ place \notin Unstarted
      /\ (pc[p] \in Ended => place \in Ended)
  BY <1>1 DEF Unstarted, Ended
<1> QED
  BY <1>1, <1>2, <1>3, <1>5, <1>6, <1>7, ToldStill

(* exec() and wait() answer what the record says, and free it. *)
LEMMA ToldAnswers ==
  ASSUME ProcessInv, ProcessInv', Told, ~stale, NEW p \in Pids, ExecResult(p) \/ Reap(p)
  PROVE  Told'
<1> DEFINE b == child[p]
           c == heap[b].pid
           bs == IF ExecResult(p) THEN FreedByExec(b) ELSE {b}
<1>1. pc[p] = (IF ExecResult(p) THEN "exec_result" ELSE "wait")
      /\ pc' = [pc EXCEPT ![p] = "user"] /\ child' = [child EXCEPT ![p] = 0]
      /\ FreeRecords(p, bs) /\ UNCHANGED <<exit_status, running>>
  BY DEF ExecResult, Reap, At, Goto
<1>2. b \in Blocks /\ b \in child_list[p] /\ b # 0
  BY <1>1 DEF ProcessInv, Family, FamilyTypes, Hands, Busy, RecordsOwned
<1>3. c \in Pids /\ c # 0 /\ cp[c] = b /\ Says(heap[b])
  BY <1>2, Numbers DEF Told, ProcessInv, Family, FamilyTypes, Records, RecordsOwned
<1>4. bs \subseteq child_list[p]
  BY <1>2 DEF FreedByExec
<1>5. /\ \A a \in Blocks : heap'[a].pid # 0 => heap'[a] = heap[a] /\ a \notin bs
      /\ \A q \in Pids \ {p} : child[q] # 0 => heap'[child[q]] = heap[child[q]]
      /\ \A a \in bs : heap'[a].pid = 0
  BY <1>1, <1>4, FreedRecords
<1>6. \A q \in Pids \ {p} : child'[q] = child[q]
  BY <1>1
<1>7. pc[p] \notin Unstarted \cup {"exit_ret"} \cup Ended /\ "user" \notin Unstarted
  BY <1>1 DEF Unstarted, Ended
<1>8. \A d \in Pids : \/ exec_answer'[d] = exec_answer[d]
                      \/ /\ pc[d] \notin Unstarted
                         /\ exec_answer'[d] = d => d \in running
                         /\ exec_answer'[d] = -1 => d \notin running
  <2>1. CASE ExecResult(p)
    <3>1. exec_answer' = [exec_answer EXCEPT ![c] = IF heap[b].failed THEN -1 ELSE c]
      BY <2>1 DEF ExecResult
    <3>2. heap[b].loaded \/ heap[b].failed
      BY <1>1, <2>1 DEF Told
    <3>3. pc[c] \notin Unstarted
      BY <1>3, <3>2 DEF Says
    <3>4. exec_answer'[c] = IF heap[b].failed THEN -1 ELSE c
      BY <1>3, <3>1 DEF ProcessInv, OtherTypes
    <3>5. \A d \in Pids : d # c => exec_answer'[d] = exec_answer[d]
      BY <3>1 DEF ProcessInv, OtherTypes
    <3> HIDE DEF b
    <3>6. (exec_answer'[c] = c => c \in running) /\ (exec_answer'[c] = -1 => c \notin running)
      BY <1>3, <3>2, <3>4, Numbers DEF Says
    <3> QED
      BY <3>3, <3>5, <3>6
  <2>2. CASE Reap(p)
    BY <2>2 DEF Reap
  <2> QED
    BY <2>1, <2>2
<1>9. \A d \in Pids : \/ wait_answer'[d] = wait_answer[d]
                      \/ pc[d] \in Ended /\ \A a \in Blocks : heap'[a].pid # d
  <2>1. CASE ExecResult(p)
    BY <2>1 DEF ExecResult
  <2>2. CASE Reap(p) /\ ~ExecResult(p)
    <3>1. \A d \in Pids : d # c => wait_answer'[d] = wait_answer[d]
      BY <2>2 DEF Reap, ProcessInv, OtherTypes
    <3>2. pc[c] \in Ended
      BY <1>3, <2>2 DEF Says, Reap
    <3>3. ASSUME NEW a \in Blocks, heap'[a].pid = c PROVE FALSE
      <4>1. heap[a].pid = c /\ a # b
        BY <1>3, <1>5, <2>2, <3>3
      <4>2. cp[c] = a
        BY <1>3, <4>1 DEF ProcessInv, Family, RecordsOwned
      <4> QED
        BY <1>3, <4>1, <4>2
    <3> QED
      BY <3>1, <3>2, <3>3
  <2> QED
    BY <2>1, <2>2
<1>10. \A a \in Blocks : heap'[a].pid # 0 =>
         /\ heap'[a].pid = heap[a].pid /\ heap'[a].loaded = heap[a].loaded
         /\ heap'[a].failed = heap[a].failed
         /\ heap'[a].pid # p =>
              /\ heap'[a].sema_child_load > 0 => heap[a].sema_child_load > 0
              /\ heap'[a].sema_child_exit = heap[a].sema_child_exit
              /\ heap'[a].ret = heap[a].ret
         /\ heap'[a].pid = p =>
              /\ heap'[a].sema_child_exit > 0 => "user" \in Ended
              /\ "user" # "exit_ret" => heap'[a].ret = exit_status'[p]
  BY <1>1, <1>5, <1>7, OwnWord
<1>11. \A q \in Pids \ {p} : child[q] # 0 =>
         /\ child'[q] = child[q] /\ heap'[child[q]].loaded = heap[child[q]].loaded
         /\ heap'[child[q]].failed = heap[child[q]].failed
  BY <1>5, <1>6
<1>12. /\ pc' = [pc EXCEPT ![p] = "user"] /\ pc[p] \notin Unstarted /\ "user" \notin Unstarted
       /\ pc[p] \in Ended => "user" \in Ended
       /\ UNCHANGED running /\ \A q \in Pids \ {p} : exit_status'[q] = exit_status[q]
       /\ "user" = "exec_result" => heap'[child'[p]].loaded \/ heap'[child'[p]].failed
  BY <1>1, <1>7
<1> QED
  BY <1>8, <1>9, <1>10, <1>11, <1>12, ToldMoves

(* A thread ups a semaphore of its own record, or hands its status over. *)
LEMMA ToldUps ==
  ASSUME ProcessInv, ProcessInv', Told, ~stale, ~stale', NEW p \in Pids,
         Loaded(p) \/ ExitRet(p) \/ ExitUp(p)
  PROVE  Told'
<1>1. PICK place \in {"user", "cleanup", "dying"} :
        /\ pc' = [pc EXCEPT ![p] = place]
        /\ pc[p] \in {"loaded", "failed", "exit_ret", "exit_up"}
        /\ ExitUp(p) => place = "dying"
        /\ UNCHANGED <<child, exit_status, running, exec_answer, wait_answer>>
        /\ stale' = (stale \/ heap[cp[p]].pid # p)
  BY DEF Loaded, UpLoad, ExitRet, ExitUp, SemaUp, Touch, At, Goto
<1>2. p # Main /\ cp[p] \in Blocks /\ heap[cp[p]].pid = p /\ p # 0
  BY <1>1, Numbers DEF ProcessInv, Family, Births, TaskPlaces, Ended
<1>3. heap \in [Blocks -> Records]
  BY DEF ProcessInv, Family, FamilyTypes
<1>4. \A b \in Blocks : heap[b].pid = p => b = cp[p]
  BY <1>2 DEF ProcessInv, Family, RecordsOwned
<1>5. /\ \A b \in Blocks : b # cp[p] => heap'[b] = heap[b]
      /\ \A b \in Blocks : /\ heap'[b].pid = heap[b].pid /\ heap'[b].loaded = heap[b].loaded
                           /\ heap'[b].failed = heap[b].failed
      /\ heap'[cp[p]].sema_child_exit > 0 => place \in Ended
      /\ heap'[cp[p]].ret = exit_status[p]
  <2>1. CASE Loaded(p)
    <3>1. SemaUp(p, "sema_child_load") /\ pc[p] \notin Ended \cup {"exit_ret"}
      BY <2>1 DEF Loaded, UpLoad, At, Ended
    <3> QED
      BY <1>2, <3>1, SemaUpSame, OwnWord
  <2>2. CASE ExitUp(p)
    <3>1. SemaUp(p, "sema_child_exit") /\ pc[p] # "exit_ret" /\ place \in Ended
      BY <1>1, <2>2 DEF ExitUp, At, Ended
    <3> QED
      BY <1>2, <3>1, SemaUpSame, OwnWord
  <2>3. CASE ExitRet(p)
    <3>1. heap' = RetWritten(p) /\ pc[p] \notin Ended
      BY <1>2, <2>3 DEF ExitRet, At, Ended
    <3>2. PICK r : r = [heap[cp[p]] EXCEPT !.ret = exit_status[p]]
      OBVIOUS
    <3>3. /\ r.pid = heap[cp[p]].pid /\ r.loaded = heap[cp[p]].loaded
          /\ r.failed = heap[cp[p]].failed /\ r.ret = exit_status[p]
          /\ r.sema_child_exit = heap[cp[p]].sema_child_exit
      BY <1>2, <1>3, <3>2 DEF Records
    <3>4. heap' = [heap EXCEPT ![cp[p]] = r]
      BY <1>2, <1>3, <3>1, <3>2 DEF RetWritten
    <3> QED
      BY <1>2, <1>3, <3>1, <3>3, <3>4, OwnWord
  <2> QED
    BY <2>1, <2>2, <2>3
<1>6. \A b \in Blocks : heap'[b].pid # 0 =>
        /\ heap'[b].pid = heap[b].pid /\ heap'[b].loaded = heap[b].loaded
        /\ heap'[b].failed = heap[b].failed
        /\ heap'[b].pid # p =>
             /\ heap'[b].sema_child_load > 0 => heap[b].sema_child_load > 0
             /\ heap'[b].sema_child_exit = heap[b].sema_child_exit
             /\ heap'[b].ret = heap[b].ret
        /\ heap'[b].pid = p =>
             /\ heap'[b].sema_child_exit > 0 => place \in Ended
             /\ place # "exit_ret" => heap'[b].ret = exit_status'[p]
  BY <1>1, <1>2, <1>4, <1>5
<1>7. \A q \in Pids \ {p} : child[q] # 0 =>
        /\ child'[q] = child[q] /\ heap'[child[q]].loaded = heap[child[q]].loaded
        /\ heap'[child[q]].failed = heap[child[q]].failed
  BY <1>1, <1>5 DEF ProcessInv, Family, FamilyTypes
<1>8. /\ pc[p] \notin Unstarted /\ place \notin Unstarted /\ pc[p] \notin Ended
      /\ place # "exec_result" /\ \A q \in Pids \ {p} : exit_status'[q] = exit_status[q]
  BY <1>1 DEF Unstarted, Ended
<1> QED
  BY <1>1, <1>6, <1>7, <1>8, ToldMoves

(***************************************************************************)
(* An exiting thread still has a record exactly when its parent is alive,  *)
(* for a parent frees the records of its children before it is gone.       *)
(***************************************************************************)
LEMMA ToldLeaves ==
  ASSUME ProcessInv, ProcessInv', Alive, Told, ~stale, NEW p \in Pids,
         \/ \E s \in Statuses \cup {-1} : SyscallExit(p, s)
         \/ FreeRecords(p, child_list[p]) /\ ExitCleanup(p) /\ Goto(p, "exit_check")
  PROVE  Told'
<1>1. CASE \E s \in Statuses \cup {-1} : SyscallExit(p, s)
  <2>1. PICK place \in {"exit_ret", "cleanup"} :
          /\ pc' = [pc EXCEPT ![p] = place] /\ pc[p] = "user"
          /\ place = "cleanup" => parent[p] \notin all_list
          /\ UNCHANGED <<heap, child, running, exec_answer, wait_answer>>
          /\ \A q \in Pids \ {p} : exit_status'[q] = exit_status[q]
    BY <1>1 DEF SyscallExit, is_thread_alive, At, Goto, history, ProcessInv, Family, FamilyTypes
  <2>2. pc[p] \notin Unstarted \cup Ended \cup {"exit_ret"} /\ place \notin Unstarted
    BY <2>1 DEF Unstarted, Ended
  <2>3. ASSUME NEW b \in Blocks, heap[b].pid = p
        PROVE  ~(heap[b].sema_child_exit > 0) /\ place = "exit_ret"
    BY <2>1, <2>2, <2>3, OwnWord, RecordOf, Numbers
  <2>4. \A b \in Blocks : heap'[b].pid # 0 =>
          /\ heap'[b].pid = heap[b].pid /\ heap'[b].loaded = heap[b].loaded
          /\ heap'[b].failed = heap[b].failed
          /\ heap'[b].pid # p =>
               /\ heap'[b].sema_child_load > 0 => heap[b].sema_child_load > 0
               /\ heap'[b].sema_child_exit = heap[b].sema_child_exit
               /\ heap'[b].ret = heap[b].ret
          /\ heap'[b].pid = p =>
               /\ heap'[b].sema_child_exit > 0 => place \in Ended
               /\ place # "exit_ret" => heap'[b].ret = exit_status'[p]
    BY <2>1, <2>3
  <2>5. \A q \in Pids \ {p} : child[q] # 0 =>
          /\ child'[q] = child[q] /\ heap'[child[q]].loaded = heap[child[q]].loaded
          /\ heap'[child[q]].failed = heap[child[q]].failed
    BY <2>1
  <2> QED
    BY <2>1, <2>2, <2>4, <2>5, ToldMoves
<1>2. CASE FreeRecords(p, child_list[p]) /\ ExitCleanup(p) /\ Goto(p, "exit_check")
  <2>1. /\ pc' = [pc EXCEPT ![p] = "exit_check"] /\ pc[p] = "cleanup"
        /\ UNCHANGED <<child, exit_status, running, exec_answer, wait_answer>>
    BY <1>2 DEF ExitCleanup, LockPanics, At, Goto, process, history
  <2>2. /\ \A b \in Blocks : heap'[b].pid # 0 => heap'[b] = heap[b]
        /\ \A q \in Pids \ {p} : child[q] # 0 => heap'[child[q]] = heap[child[q]]
    BY <1>2, FreedRecords
  <2>3. pc[p] \notin Unstarted \cup Ended \cup {"exit_ret"} /\ "exit_check" \notin Unstarted
    BY <2>1 DEF Unstarted, Ended
  <2>4. \A b \in Blocks : heap'[b].pid # 0 =>
          /\ heap'[b].pid = heap[b].pid /\ heap'[b].loaded = heap[b].loaded
          /\ heap'[b].failed = heap[b].failed
          /\ heap'[b].pid # p =>
               /\ heap'[b].sema_child_load > 0 => heap[b].sema_child_load > 0
               /\ heap'[b].sema_child_exit = heap[b].sema_child_exit
               /\ heap'[b].ret = heap[b].ret
          /\ heap'[b].pid = p =>
               /\ heap'[b].sema_child_exit > 0 => "exit_check" \in Ended
               /\ "exit_check" # "exit_ret" => heap'[b].ret = exit_status'[p]
    BY <2>1, <2>2, <2>3, OwnWord
  <2>5. \A q \in Pids \ {p} : child[q] # 0 =>
          /\ child'[q] = child[q] /\ heap'[child[q]].loaded = heap[child[q]].loaded
          /\ heap'[child[q]].failed = heap[child[q]].failed
    BY <2>1, <2>2
  <2>6. /\ pc[p] \in Ended => "exit_check" \in Ended
        /\ "exit_check" = "exec_result" => heap'[child'[p]].loaded \/ heap'[child'[p]].failed
        /\ pc[p] \notin Unstarted /\ UNCHANGED running
        /\ \A q \in Pids \ {p} : exit_status'[q] = exit_status[q]
    BY <2>1, <2>3
  <2> QED
    BY <2>1, <2>3, <2>4, <2>5, <2>6, ToldMoves
<1> QED
  BY <1>1, <1>2

(* A thread that has used a record not its own is remembered. *)
LEMMA StaleStays == ProcessInv /\ [Next]_vars /\ stale => stale'
<1> SUFFICES ASSUME ProcessInv, [Next]_vars, stale PROVE stale'
  OBVIOUS
<1>1. CASE UNCHANGED vars
  BY <1>1 DEF vars, history
<1>2. CASE RunTask \/ RunWait \/ Shutdown
  BY <1>2 DEF RunTask, RunWait, Shutdown, history
<1>3. ASSUME NEW p \in Pids, Runs(p) PROVE stale'
  BY <1>3 DEF Runs, InitLock, ExecCheck, ExecDown, ExecResult, Load, Loaded, UpLoad, Reap, ExitRet,
     ExitCleanup, ExitCheck, ExitUp, ThreadExit, SemaUp, Touch, LockPanics, history
<1>4. ASSUME NEW p \in Pids, FirstCall(p) \/ Exec(p) \/ FileCall(p) PROVE stale'
  BY <1>4 DEF FirstCall, Exec, FileCall, LockPanics, history
<1>5. ASSUME NEW p \in Pids, NEW c \in Pids, Wait(p, c) PROVE stale'
  BY <1>5 DEF Wait, history
<1>6. ASSUME NEW p \in Pids, NEW s \in Statuses \cup {-1}, SyscallExit(p, s) PROVE stale'
  BY <1>6 DEF SyscallExit, history
<1> QED
  BY <1>1, <1>2, <1>3, <1>4, <1>5, <1>6 DEF Next

LEMMA ToldKeeps == ProcessInv /\ ProcessInv' /\ Alive /\ Told /\ [Next]_vars => Told'
<1> SUFFICES ASSUME ProcessInv, ProcessInv', Alive, Told, [Next]_vars, ~stale' PROVE Told'
  BY DEF Told
<1> ~stale
  BY StaleStays
<1>1. CASE UNCHANGED vars
  BY <1>1, ToldAside DEF vars, process
<1>2. CASE RunTask
  BY <1>2, ToldForks, Numbers
<1>3. CASE RunWait
  BY <1>3, ToldWaits, Numbers
<1>4. CASE Shutdown
  <2>1. CASE UNCHANGED pc
    BY <1>4, <2>1, ToldAside DEF Shutdown
  <2>2. CASE Goto(Main, "cleanup")
    BY <1>4, <2>2, ToldStill, Numbers DEF Shutdown, At, Goto, history, Unstarted, Ended
  <2> QED
    BY <1>4, <2>1, <2>2 DEF Shutdown
<1>5. ASSUME NEW p \in Pids, Runs(p) PROVE Told'
  <2>1. CASE InitLock(p) \/ ExecCheck(p) \/ ExitCheck(p) \/ ThreadExit(p)
    BY <2>1, ToldCalls
  <2>2. CASE ExecDown(p)
    BY <2>2, ToldWaits
  <2>3. CASE ExecResult(p) \/ Reap(p)
    BY <2>3, ToldAnswers
  <2>4. CASE Load(p)
    BY <2>4, ToldLoads
  <2>5. CASE Loaded(p) \/ ExitRet(p) \/ ExitUp(p)
    BY <2>5, ToldUps
  <2>6. CASE ExitCleanup(p)
    <3>1. CASE LockPanics(p)
      BY <3>1, ToldAside DEF LockPanics, process
    <3>2. CASE FreeRecords(p, child_list[p]) /\ Goto(p, "exit_check")
      BY <2>6, <3>2, ToldLeaves
    <3> QED
      BY <2>6, <3>1, <3>2 DEF ExitCleanup
  <2> QED
    BY <1>5, <2>1, <2>2, <2>3, <2>4, <2>5, <2>6 DEF Runs
<1>6. ASSUME NEW p \in Pids, FirstCall(p) PROVE Told'
  BY <1>6, ToldCalls
<1>7. ASSUME NEW p \in Pids, Exec(p) PROVE Told'
  BY <1>7, ToldForks
<1>8. ASSUME NEW p \in Pids, FileCall(p) PROVE Told'
  BY <1>8, ToldAside DEF FileCall, LockPanics, process
<1>9. ASSUME NEW p \in Pids, NEW c \in Pids, Wait(p, c) PROVE Told'
  <2>1. CASE UNCHANGED <<pc, heap, child>>
    BY <1>9, <2>1, ToldAside DEF Wait
  <2>2. CASE Goto(p, "wait")
    <3>1. pc[p] = "user" /\ pc'[p] = "wait"
      BY <1>9, <2>2 DEF Wait, Calls, At, Goto, ProcessInv, Family, FamilyTypes
    <3> QED
      BY <1>9, <3>1, ToldWaits
  <2> QED
    BY <1>9, <2>1, <2>2 DEF Wait
<1>10. ASSUME NEW p \in Pids, NEW s \in Statuses \cup {-1}, SyscallExit(p, s) PROVE Told'
  BY <1>10, ToldLeaves
<1> QED
  BY <1>1, <1>2, <1>3, <1>4, <1>5, <1>6, <1>7, <1>8, <1>9, <1>10 DEF Next

LEMMA InitTold == Init => Alive /\ Told
<1> SUFFICES ASSUME Init PROVE Alive /\ Told
  OBVIOUS
<1>1. \A p \in Pids : pc[p] = IF p = Main THEN "user" ELSE "unborn"
  BY DEF Init
<1>2. Alive
  BY <1>1, Numbers DEF Init, Alive
<1>3. \A b \in Blocks : heap[b].pid = 0
  BY DEF Init, Freed, NewRecord
<1>4. \A p \in Pids : pc[p] # "exec_result"
  BY <1>1
<1>5. Answered
  BY Numbers DEF Init, Answered
<1> QED
  BY <1>2, <1>3, <1>4, <1>5 DEF Told

(* exec() says of a child what the child knows of its own program. *)
THEOREM ExecIsTold == Spec => []ExecTold
<1>1. Told => ExecTold
  BY DEF Told, Answered, ExecTold
<1> QED
  BY <1>1, InitInv, NextKeeps, InitTold, AliveKeeps, ToldKeeps, PTL DEF Spec

-----------------------------------------------------------------------------
(***************************************************************************)
(* Every step of a process is one of ChildStatus, or a stutter: thread     *)
(* creation begins a child, the step to "dying" ends it, process_wait()    *)
(* reaps it.  The rest changes nothing that a parent is promised.          *)
(***************************************************************************)
LEMMA LifeStutters ==
  ASSUME ProcessInv, ProcessInv', NEW p \in Pids, NEW place, pc' = [pc EXCEPT ![p] = place],
         pc[p] \notin {"unborn"} \cup Ended, place \notin {"unborn"} \cup Ended,
         \A q \in Pids \ {p} : exit_status'[q] = exit_status[q],
         UNCHANGED <<wait_answer, stale>>
  PROVE  UNCHANGED Child!vars
<1>1. \A q \in Pids : pc'[q] = IF q = p THEN place ELSE pc[q]
  BY DEF ProcessInv, Family, FamilyTypes
<1>2. ASSUME NEW q \in Pids PROVE Life(q)' = Life(q)
  BY <1>1 DEF Life, Ended
<1>3. Lives' = Lives
  BY <1>2 DEF Lives
<1>4. ASSUME NEW q \in Pids
      PROVE  (IF pc'[q] \in {"dying", "gone"} THEN exit_status'[q] ELSE Unset)
               = IF pc[q] \in {"dying", "gone"} THEN exit_status[q] ELSE Unset
  BY <1>1 DEF Ended
<1>5. Outcomes' = Outcomes
  BY <1>4 DEF Outcomes
<1> QED
  BY <1>3, <1>5 DEF Child!vars

LEMMA AsideStutters ==
  ASSUME UNCHANGED <<pc, exit_status, wait_answer, stale>>
  PROVE  UNCHANGED Child!vars
BY DEF Child!vars, Lives, Life, Outcomes

LEMMA ForkBegins ==
  ASSUME ProcessInv, Told, ~stale, NEW p \in Pids, Exec(p) \/ (p = Main /\ RunTask)
  PROVE  Child!Begin(next_tid) /\ next_tid \in Pids
<1> PICK n : n = next_tid
  OBVIOUS
<1>1. PICK b \in Blocks : Fork(p, b)
  BY DEF Exec, RunTask
<1>2. PICK place \in {"exec", "run_wait"} : pc' = [pc EXCEPT ![p] = place, ![n] = "start"]
  BY DEF Exec, RunTask, TaskWaits
<1>3. pc[p] = "user" /\ UNCHANGED <<exit_status, wait_answer, stale>>
  BY DEF Exec, Calls, RunTask, At, history
<1>4. n \in Pids /\ pc[n] = "unborn" /\ n # p
  BY <1>1, <1>3 DEF Fork, ProcessInv, Family, FamilyTypes, Births, Pids
<1>5. \A q \in Pids : pc'[q] = IF q = n THEN "start" ELSE IF q = p THEN place ELSE pc[q]
  BY <1>2, <1>4 DEF ProcessInv, Family, FamilyTypes
<1>6. wait_answer[n] = None
  BY <1>4 DEF Told, Answered, Ended
<1>7. Life(n) = "unborn" /\ Life(n)' = "alive"
  BY <1>3, <1>4, <1>5, <1>6 DEF Life
<1>8. ASSUME NEW q \in Pids \ {n} PROVE Life(q)' = Life(q)
  BY <1>3, <1>4, <1>5 DEF Life
<1>9. Lives' = [Lives EXCEPT ![n] = "alive"] /\ Lives[n] = "unborn"
  BY <1>4, <1>7, <1>8 DEF Lives
<1>10. ASSUME NEW q \in Pids
       PROVE  (IF pc'[q] \in {"dying", "gone"} THEN exit_status'[q] ELSE Unset)
                = IF pc[q] \in {"dying", "gone"} THEN exit_status[q] ELSE Unset
  BY <1>3, <1>4, <1>5
<1>11. Outcomes' = Outcomes
  BY <1>10 DEF Outcomes
<1> QED
  BY <1>3, <1>4, <1>9, <1>11 DEF Child!Begin, Child!Become

(* A child ends where nobody looks for its record any more. *)
LEMMA ExitEnds ==
  ASSUME ProcessInv, Told, ~stale, NEW p \in Pids, pc[p] \in {"exit_check", "exit_up"},
         Goto(p, "dying"), UNCHANGED <<exit_status, wait_answer, stale>>
  PROVE  Child!End(p)
<1>1. \A q \in Pids : pc'[q] = IF q = p THEN "dying" ELSE pc[q]
  BY DEF Goto, ProcessInv, Family, FamilyTypes
<1>2. wait_answer[p] = None /\ exit_status[p] \in Returned
  BY DEF Told, Answered, Ended, ProcessInv, Family, FamilyTypes
<1>3. Life(p) = "alive" /\ Life(p)' = "ended"
  BY <1>1, <1>2 DEF Life
<1>4. ASSUME NEW q \in Pids \ {p} PROVE Life(q)' = Life(q)
  BY <1>1 DEF Life
<1>5. Lives' = [Lives EXCEPT ![p] = "ended"] /\ Lives[p] = "alive"
  BY <1>3, <1>4 DEF Lives
<1>6. ASSUME NEW q \in Pids
      PROVE  (IF pc'[q] \in {"dying", "gone"} THEN exit_status'[q] ELSE Unset)
               = IF q = p THEN exit_status[p]
                 ELSE IF pc[q] \in {"dying", "gone"} THEN exit_status[q] ELSE Unset
  BY <1>1
<1>7. Outcomes' = [Outcomes EXCEPT ![p] = exit_status[p]]
  BY <1>6 DEF Outcomes
<1> QED
  BY <1>2, <1>5, <1>7 DEF Child!End, Child!Become

(* process_wait() answers the status of a child that has ended, once. *)
LEMMA ReapReaps ==
  ASSUME ProcessInv, Told, ~stale, NEW p \in Pids, Reap(p)
  PROVE  Child!Reap(heap[child[p]].pid) /\ heap[child[p]].pid \in Pids
<1> PICK b, c : b = child[p] /\ c = heap[b].pid
  OBVIOUS
<1>1. /\ pc[p] = "wait" /\ pc' = [pc EXCEPT ![p] = "user"] /\ heap[b].sema_child_exit > 0
      /\ wait_answer' = [wait_answer EXCEPT ![c] = heap[b].ret]
      /\ UNCHANGED <<exit_status, stale>>
  BY DEF Reap, At, Goto
<1>2. b \in Blocks /\ b \in child_list[p] /\ b # 0
  BY <1>1 DEF ProcessInv, Family, FamilyTypes, Hands, Busy, RecordsOwned
<1>3. c \in Pids /\ c # 0 /\ Says(heap[b]) /\ heap[b].ret \in Returned
  BY <1>2, Numbers DEF Told, ProcessInv, Family, FamilyTypes, Records, RecordsOwned
<1>4. /\ pc[c] \in Ended /\ wait_answer[c] = None /\ heap[b].ret = exit_status[c]
      /\ c # p /\ heap[b].ret # None
  BY <1>1, <1>3 DEF Says, Ended, Returned, None, Unset
<1>5. \A q \in Pids : pc'[q] = IF q = p THEN "user" ELSE pc[q]
  BY <1>1 DEF ProcessInv, Family, FamilyTypes
<1>6. \A q \in Pids : wait_answer'[q] = IF q = c THEN heap[b].ret ELSE wait_answer[q]
  BY <1>1 DEF ProcessInv, OtherTypes
<1>7. Life(c) = "ended" /\ Life(c)' = "reaped"
  BY <1>3, <1>4, <1>6 DEF Life, Ended
<1>8. ASSUME NEW q \in Pids \ {c} PROVE Life(q)' = Life(q)
  BY <1>1, <1>5, <1>6 DEF Life
<1>9. Lives' = [Lives EXCEPT ![c] = "reaped"] /\ Lives[c] = "ended"
  BY <1>3, <1>7, <1>8 DEF Lives
<1>10. ASSUME NEW q \in Pids
       PROVE  (IF pc'[q] \in {"dying", "gone"} THEN exit_status'[q] ELSE Unset)
                = IF pc[q] \in {"dying", "gone"} THEN exit_status[q] ELSE Unset
  BY <1>1, <1>5
<1>11. Outcomes' = Outcomes /\ Outcomes[c] = heap[b].ret
  BY <1>3, <1>4, <1>10 DEF Outcomes, Ended
<1>12. Child!Become(c, "ended", "reaped")
  BY <1>1, <1>9 DEF Child!Become
<1>13. Child!Reap(c)
  BY <1>1, <1>11, <1>12 DEF Child!Reap
<1> QED
  BY <1>3, <1>13

LEMMA StepsImplement ==
  ProcessInv /\ ProcessInv' /\ Told /\ [Next]_vars => [Child!Next]_Child!vars
<1> SUFFICES ASSUME ProcessInv, ProcessInv', Told, [Next]_vars, ~stale'
             PROVE  Child!Next \/ UNCHANGED Child!vars
  BY DEF Child!Next
<1> ~stale
  BY StaleStays
<1> stale' = stale
  BY DEF ProcessInv, Family, FamilyTypes
<1>1. CASE UNCHANGED vars
  BY <1>1, AsideStutters DEF vars, process, history
<1>2. ASSUME NEW p \in Pids, Exec(p) \/ (p = Main /\ RunTask) PROVE Child!Next
  BY <1>2, ForkBegins DEF Child!Next
<1>3. CASE RunWait
  BY <1>3, LifeStutters, Numbers DEF RunWait, At, Goto, history, Ended
<1>4. CASE Shutdown
  <2>1. CASE UNCHANGED pc
    BY <1>4, <2>1, AsideStutters DEF Shutdown, history
  <2>2. CASE Goto(Main, "cleanup")
    BY <1>4, <2>2, LifeStutters, Numbers DEF Shutdown, At, Goto, history, Ended
  <2> QED
    BY <1>4, <2>1, <2>2 DEF Shutdown
<1>5. ASSUME NEW p \in Pids, Runs(p) PROVE Child!Next \/ UNCHANGED Child!vars
  <2>1. CASE InitLock(p)
    BY <2>1, LifeStutters DEF InitLock, At, Goto, history, Ended
  <2>2. CASE ExecCheck(p)
    BY <2>2, LifeStutters DEF ExecCheck, At, Goto, history, Ended
  <2>3. CASE ExecDown(p)
    BY <2>3, LifeStutters DEF ExecDown, At, Goto, history, Ended
  <2>4. CASE ExecResult(p)
    BY <2>4, LifeStutters DEF ExecResult, At, Goto, Ended
  <2>5. CASE Load(p)
    <3>1. PICK place \in {"loaded", "failed"} : pc' = [pc EXCEPT ![p] = place]
      BY <2>5 DEF Load, Goto
    <3> QED
      BY <2>5, <3>1, LifeStutters DEF Load, At, Ended
  <2>6. CASE Loaded(p)
    BY <2>6, LifeStutters DEF Loaded, At, Goto, Ended
  <2>7. CASE Reap(p)
    BY <2>7, ReapReaps DEF Child!Next
  <2>8. CASE ExitRet(p)
    BY <2>8, LifeStutters DEF ExitRet, At, Goto, Ended
  <2>9. CASE ExitCleanup(p)
    <3>1. CASE LockPanics(p)
      BY <3>1, AsideStutters DEF LockPanics, process, history
    <3>2. CASE Goto(p, "exit_check") /\ UNCHANGED <<child, exit_status, machine, history>>
      BY <2>9, <3>2, LifeStutters DEF ExitCleanup, At, Goto, history, Ended
    <3> QED
      BY <2>9, <3>1, <3>2 DEF ExitCleanup
  <2>10. CASE ExitCheck(p)
    <3>1. CASE Goto(p, "exit_up")
      BY <2>10, <3>1, LifeStutters DEF ExitCheck, At, Goto, history, Ended
    <3>2. CASE Goto(p, "dying")
      <4>1. Child!End(p)
        BY <2>10, <3>2, ExitEnds DEF ExitCheck, At, history
      <4> QED
        BY <4>1 DEF Child!Next
    <3> QED
      BY <2>10, <3>1, <3>2 DEF ExitCheck
  <2>11. CASE ExitUp(p)
    <3>1. Child!End(p)
      BY <2>11, ExitEnds DEF ExitUp, At
    <3> QED
      BY <3>1 DEF Child!Next
  <2>12. CASE ThreadExit(p)
    <3>1. \A q \in Pids : pc'[q] = IF q = p THEN "gone" ELSE pc[q]
      BY <2>12 DEF ThreadExit, Goto, ProcessInv, Family, FamilyTypes
    <3>2. pc[p] = "dying" /\ UNCHANGED <<exit_status, wait_answer, stale>>
      BY <2>12 DEF ThreadExit, At, history
    <3>3. ASSUME NEW q \in Pids PROVE Life(q)' = Life(q)
      BY <3>1, <3>2 DEF Life
    <3>4. ASSUME NEW q \in Pids
          PROVE  (pc'[q] \in {"dying", "gone"}) <=> pc[q] \in {"dying", "gone"}
      BY <3>1, <3>2
    <3>5. Lives' = Lives /\ Outcomes' = Outcomes
      BY <3>2, <3>3, <3>4 DEF Lives, Outcomes
    <3> QED
      BY <3>2, <3>5 DEF Child!vars
  <2> QED
    BY <1>5, <2>1, <2>2, <2>3, <2>4, <2>5, <2>6, <2>7, <2>8, <2>9, <2>10, <2>11, <2>12 DEF Runs
<1>6. ASSUME NEW p \in Pids, FirstCall(p) PROVE UNCHANGED Child!vars
  BY <1>6, LifeStutters DEF FirstCall, At, Goto, history, Ended
<1>7. ASSUME NEW p \in Pids, FileCall(p) PROVE UNCHANGED Child!vars
  BY <1>7, AsideStutters DEF FileCall, LockPanics, process, history
<1>8. ASSUME NEW p \in Pids, NEW c \in Pids, Wait(p, c) PROVE UNCHANGED Child!vars
  <2>1. CASE UNCHANGED pc
    BY <1>8, <2>1, AsideStutters DEF Wait, history
  <2>2. CASE Goto(p, "wait")
    BY <1>8, <2>2, LifeStutters DEF Wait, Calls, At, Goto, history, Ended
  <2> QED
    BY <1>8, <2>1, <2>2 DEF Wait
<1>9. ASSUME NEW p \in Pids, NEW s \in Statuses \cup {-1}, SyscallExit(p, s)
      PROVE  UNCHANGED Child!vars
  <2>1. PICK place \in {"exit_ret", "cleanup"} : pc' = [pc EXCEPT ![p] = place]
    BY <1>9 DEF SyscallExit, Goto
  <2>2. \A q \in Pids \ {p} : exit_status'[q] = exit_status[q]
    BY <1>9 DEF SyscallExit, ProcessInv, Family, FamilyTypes
  <2>3. pc[p] = "user" /\ UNCHANGED <<wait_answer, stale>>
    BY <1>9 DEF SyscallExit, At, history
  <2> QED
    BY <2>1, <2>2, <2>3, LifeStutters DEF Ended
<1> QED
  BY <1>1, <1>2, <1>3, <1>4, <1>5, <1>6, <1>7, <1>8, <1>9, Numbers DEF Next

LEMMA InitImplements == Init => Child!Init
<1> SUFFICES ASSUME Init PROVE Child!Init
  OBVIOUS
<1>1. \A p \in Pids : pc[p] = (IF p = Main THEN "user" ELSE "unborn") /\ wait_answer[p] = None
  BY DEF Init
<1>2. Lives \in [Pids -> {"unborn", "alive"}] /\ Outcomes = [c \in Pids |-> Unset]
  BY <1>1 DEF Lives, Life, Outcomes
<1> QED
  BY <1>2 DEF Init, Child!Init

(* Parents are told as ChildStatus promises, whatever the programs do. *)
THEOREM ParentsAreTold == Spec => ImplementsChildStatus
<1>1. ProcessInv /\ ProcessInv' /\ Told /\ [Next]_vars => [Child!Next]_Child!vars
  BY StepsImplement
<1> QED
  BY <1>1, InitImplements, InitInv, NextKeeps, InitTold, AliveKeeps, ToldKeeps, PTL
     DEF Spec, ImplementsChildStatus, Child!Spec
=============================================================================
