-------------------------- MODULE AllocatorProofs --------------------------
(***************************************************************************)
(* The allocators keep their types, refuse a request only when there was   *)
(* no run of pages for it, account for every page and block they hand out, *)
(* and implement Heap, for any number of threads, pages and descriptors    *)
(* and any sizes.                                                          *)
(***************************************************************************)
EXTENDS AllocatorProperties, PriorityListProofs

USE AllocatorAssumption

Places == {"user", "desc_lock", "take", "pool_lock", "scan", "mark", "pool_release",
           "new_arena", "desc_release", "return", "reset", "put", "unlist"}
AnyExtent == {e \in [kind : Kinds, size : Descs \cup PageCnts, page : Pages, slot : Slots] :
                e.kind # "block" => e.size \in PageCnts}
Calls == [op : {"none", "malloc", "free"}, kind : Kinds,
          size : Descs \cup PageCnts \cup Int, old : AnyExtent \cup {None},
          page : Nat \cup {None}, slot : Nat, cnt : Int, bit : Nat]
Headers == [desc : Descs \cup {None}, free_cnt : Int] \cup {None}

TypeOK ==
  /\ pc \in [Threads -> Places]
  /\ call \in [Threads -> Calls]
  /\ held \in [Threads -> SUBSET AnyExtent]
  /\ fits \in [Threads -> BOOLEAN]
  /\ pool_lock \in Threads \cup {NoOne} /\ used_map \subseteq Nat
  /\ desc_lock \in [Descs -> Threads \cup {NoOne}]
  /\ free_list \in [Descs -> Seq(Cells)]
  /\ arena \in [Pages -> Headers]
  /\ panicked \in BOOLEAN

(* What a call's variables are at each place that uses them. *)
Scanning == {"scan", "mark", "pool_release"}
OfBlock == {"desc_lock", "take", "desc_release", "put", "unlist", "new_arena"}

Ready(place, c) ==
  /\ place \in {"pool_lock"} \cup Scanning => c.cnt \in Nat \ {0}
  /\ place \in {"scan", "mark"} => c.page \in Nat /\ c.bit \in 0..(c.cnt - 1)
  /\ place = "mark" => c.page + c.cnt <= PageCnt
  /\ place \in {"pool_release", "new_arena", "return"} => c.page \in Pages \cup {None}
  /\ place \in OfBlock => c.kind = "block"
  /\ place \in {"desc_lock", "put"} /\ c.op = "free" => c.page \in Pages /\ c.slot \in Slots
  /\ place \in {"put", "unlist"} => c.op = "free" /\ c.page \in Pages /\ c.slot \in Slots
  /\ place \in {"desc_lock", "desc_release"} => c.op # "none"
  /\ place \in {"desc_lock", "take", "new_arena"} /\ c.op = "malloc" => c.cnt \in Nat \ {0}
  /\ place \in {"pool_lock", "desc_lock", "take", "desc_release", "new_arena", "return"}
                \cup Scanning /\ c.op = "malloc" =>
       /\ c.slot \in Slots /\ c.size \in Descs \cup PageCnts
       /\ c.kind # "block" => c.size \in PageCnts
  /\ c.kind = "block" /\ place \in {"pool_lock", "return", "reset"} \cup OfBlock \cup Scanning =>
       c.size \in Descs
  /\ place = "reset" => c.op = "free"
  /\ place = "desc_release" /\ c.op # "free" => c.page \in Pages \cup {None}
  /\ place \in {"pool_lock", "take", "new_arena", "return"} \cup Scanning => c.op = "malloc"

AllReady == \A t \in Threads : Ready(pc[t], call[t])

(* Only the thread that has the pool's lock is looking for pages. *)
OneScans == \A t \in Threads : pc[t] \in Scanning => pool_lock = t

(* A run that was free when the scan began is still there to be found. *)
RunAhead(t) == \E r \in Pages : /\ call[t].page <= r
                                /\ Run(r, call[t].cnt) \subseteq Pages \ used_map
RunsStay == \A t \in Threads : pc[t] = "scan" /\ fits[t] => RunAhead(t)

AllocatorInv == TypeOK /\ AllReady /\ OneScans /\ RunsStay /\ RefusedOnlyWhenFull

-----------------------------------------------------------------------------
(* A step of t takes it to a place with its variables, and nobody else.    *)
Steps(t, place, c) ==
  /\ pc' = [pc EXCEPT ![t] = place]
  /\ call' = [call EXCEPT ![t] = c]

LEMMA StepReady ==
  ASSUME TypeOK, AllReady, NEW t \in Threads, NEW place \in Places, NEW c \in Calls,
         Steps(t, place, c), Ready(place, c)
  PROVE  pc' \in [Threads -> Places] /\ call' \in [Threads -> Calls] /\ AllReady'
<1>1. pc' \in [Threads -> Places] /\ call' \in [Threads -> Calls]
  BY DEF TypeOK, Steps
<1>2. \A u \in Threads : Ready(pc'[u], call'[u])
  <2> SUFFICES ASSUME NEW u \in Threads PROVE Ready(pc'[u], call'[u])
    OBVIOUS
  <2>1. CASE u = t
    <3>1. pc'[u] = place /\ call'[u] = c
      BY <2>1 DEF TypeOK, Steps
    <3> QED
      BY <3>1
  <2>2. CASE u # t
    <3>1. pc'[u] = pc[u] /\ call'[u] = call[u]
      BY <2>2 DEF TypeOK, Steps
    <3> QED
      BY <3>1 DEF AllReady
  <2> QED
    BY <2>1, <2>2
<1>3. AllReady'
  BY <1>2 DEF AllReady
<1> QED
  BY <1>1, <1>3

LEMMA StepAside ==
  ASSUME TypeOK, OneScans, RunsStay, RefusedOnlyWhenFull,
         NEW t \in Threads, NEW place \in Places, NEW c \in Calls, Steps(t, place, c),
         pc[t] \notin Scanning, place \notin Scanning,
         fits' = fits, pool_lock' = pool_lock, used_map' \subseteq used_map
  PROVE  OneScans' /\ RunsStay' /\ RefusedOnlyWhenFull'
<1>1. \A u \in Threads : u # t => pc'[u] = pc[u] /\ call'[u] = call[u]
  BY DEF TypeOK, Steps
<1>2. pc'[t] \notin Scanning
  BY DEF TypeOK, Steps
<1>3. OneScans'
  BY <1>1, <1>2 DEF OneScans
<1>4. RunsStay'
  <2> SUFFICES ASSUME NEW u \in Threads, pc'[u] = "scan", fits'[u]
               PROVE  RunAhead(u)'
    BY DEF RunsStay
  <2>1. u # t /\ pc[u] = "scan" /\ fits[u] /\ call'[u] = call[u]
    BY <1>1, <1>2 DEF Scanning
  <2>2. RunAhead(u)
    BY <2>1 DEF RunsStay
  <2> QED
    BY <2>1, <2>2 DEF RunAhead
<1>5. RefusedOnlyWhenFull'
  BY <1>1, <1>2 DEF RefusedOnlyWhenFull, Scanning
<1> QED
  BY <1>3, <1>4, <1>5

-----------------------------------------------------------------------------
(* The page allocator's steps. *)

LEMMA AcquirePoolKeeps ==
  ASSUME AllocatorInv, NEW t \in Threads, AcquirePool(t)
  PROVE  AllocatorInv'
<1> DEFINE c == [call[t] EXCEPT !.page = 0, !.bit = 0]
<1>1. Ready("pool_lock", call[t]) /\ call[t] \in Calls
  BY DEF AllocatorInv, AllReady, TypeOK, AcquirePool, At
<1>a. c \in Calls /\ c.page = 0 /\ c.bit = 0 /\ c.cnt = call[t].cnt /\ c.op = call[t].op
        /\ c.kind = call[t].kind /\ c.size = call[t].size /\ c.slot = call[t].slot
  BY <1>1 DEF Calls
<1>2. Ready("scan", c)
  BY <1>1, <1>a DEF Ready, Scanning, OfBlock
<1>3. Steps(t, "scan", c)
  BY DEF Steps, AcquirePool, Goto, Set
<1>4. pc' \in [Threads -> Places] /\ call' \in [Threads -> Calls] /\ AllReady'
  BY <1>a, <1>2, <1>3, StepReady DEF AllocatorInv, Places
<1>5. TypeOK'
  BY <1>4 DEF AllocatorInv, TypeOK, AcquirePool, LockPool, FreeRun, descs, contents
<1>6. \A u \in Threads : u # t => pc'[u] = pc[u] /\ call'[u] = call[u] /\ fits'[u] = fits[u]
  BY <1>3 DEF AllocatorInv, TypeOK, AcquirePool, Steps
<1>7. pc'[t] = "scan" /\ call'[t] = c
  BY <1>3 DEF AllocatorInv, TypeOK, Steps
<1>8. OneScans'
  BY <1>6 DEF AllocatorInv, OneScans, AcquirePool, LockPool, TypeOK
<1>9. RunsStay'
  <2> SUFFICES ASSUME NEW u \in Threads, pc'[u] = "scan", fits'[u]
               PROVE  RunAhead(u)'
    BY DEF RunsStay
  <2>1. CASE u = t
    <3>1. FreeRun(call[t].cnt)
      BY <2>1 DEF AcquirePool, AllocatorInv, TypeOK
    <3>2. call'[t].page = 0 /\ call'[t].cnt = call[t].cnt
      BY <1>1, <1>7 DEF Calls
    <3>3. \A r \in Pages : 0 <= r
      BY DEF Pages
    <3> QED
      BY <2>1, <3>1, <3>2, <3>3 DEF FreeRun, RunAhead, AcquirePool
  <2>2. CASE u # t
    BY <2>2, <1>6 DEF AllocatorInv, RunsStay, RunAhead, AcquirePool
  <2> QED
    BY <2>1, <2>2
<1>10. RefusedOnlyWhenFull'
  BY <1>6, <1>7 DEF AllocatorInv, RefusedOnlyWhenFull
<1> QED
  BY <1>4, <1>5, <1>8, <1>9, <1>10 DEF AllocatorInv

(* A step of the scan: `place' and `c' are where it leads to. *)
LEMMA ScanMoves ==
  ASSUME AllocatorInv, NEW t \in Threads, pc[t] = "scan",
         NEW place \in {"scan", "mark", "pool_release"}, NEW c \in Calls,
         Steps(t, place, c), Ready(place, c),
         UNCHANGED <<held, fits, pool, descs, contents, panicked>>,
         place = "scan" /\ fits[t] =>
           \E r \in Pages : c.page <= r /\ Run(r, c.cnt) \subseteq Pages \ used_map,
         place = "pool_release" /\ c.page = None => ~fits[t]
  PROVE  AllocatorInv'
<1>1. pc' \in [Threads -> Places] /\ call' \in [Threads -> Calls] /\ AllReady'
  BY StepReady DEF AllocatorInv, Places
<1>2. TypeOK'
  BY <1>1 DEF AllocatorInv, TypeOK, pool, descs, contents
<1>3. \A u \in Threads : u # t => pc'[u] = pc[u] /\ call'[u] = call[u]
  BY DEF AllocatorInv, TypeOK, Steps
<1>4. pc'[t] = place /\ call'[t] = c
  BY DEF AllocatorInv, TypeOK, Steps
<1>5. OneScans'
  BY <1>3 DEF AllocatorInv, OneScans, Scanning, pool
<1>6. RunsStay'
  <2> SUFFICES ASSUME NEW u \in Threads, pc'[u] = "scan", fits'[u]
               PROVE  RunAhead(u)'
    BY DEF RunsStay
  <2>1. CASE u = t
    BY <2>1, <1>4 DEF RunAhead, pool
  <2>2. CASE u # t
    BY <2>2, <1>3 DEF AllocatorInv, RunsStay, RunAhead, pool
  <2> QED
    BY <2>1, <2>2
<1>7. RefusedOnlyWhenFull'
  BY <1>3, <1>4 DEF AllocatorInv, RefusedOnlyWhenFull
<1> QED
  BY <1>1, <1>2, <1>5, <1>6, <1>7 DEF AllocatorInv

LEMMA ScanKeeps ==
  ASSUME AllocatorInv, NEW t \in Threads, Scan(t)
  PROVE  AllocatorInv'
<1> DEFINE c == call[t]
<1>1. pc[t] = "scan" /\ Ready("scan", c) /\ c \in Calls
  BY DEF AllocatorInv, AllReady, TypeOK, Scan, At
<1>2. c.cnt \in Nat \ {0} /\ c.page \in Nat /\ c.bit \in 0..(c.cnt - 1) /\ c.op = "malloc"
  BY <1>1 DEF Ready, Scanning
<1>3. fits[t] => RunAhead(t)
  BY <1>1 DEF AllocatorInv, RunsStay
<1>4. UNCHANGED <<held, fits, pool, descs, contents, panicked>>
  BY DEF Scan
<1>5. CASE PastLast(c.page, c.cnt)
  <2> DEFINE n == [c EXCEPT !.page = None]
  <2>1. n \in Calls /\ n.page = None /\ n.cnt = c.cnt /\ n.op = c.op /\ n.kind = c.kind
          /\ n.size = c.size /\ n.slot = c.slot
    BY <1>1 DEF Calls
  <2>2. Ready("pool_release", n)
    BY <1>1, <2>1 DEF Ready, Scanning, OfBlock
  <2>3. Steps(t, "pool_release", n)
    BY <1>5 DEF Scan, Set, Goto, Steps
  <2>4. ~RunAhead(t)
    <3> SUFFICES ASSUME NEW r \in Pages, c.page <= r,
                        Run(r, c.cnt) \subseteq Pages \ used_map
                 PROVE  FALSE
      BY DEF RunAhead
    <3>1. r + c.cnt - 1 \in Run(r, c.cnt)
      BY <1>2 DEF Run, Pages
    <3>2. r + c.cnt - 1 \in Pages
      BY <3>1
    <3> QED
      BY <1>2, <1>5, <3>2 DEF PastLast, Pages
  <2> QED
    BY <1>1, <1>3, <1>4, <2>1, <2>2, <2>3, <2>4, ScanMoves
<1>6. CASE ~PastLast(c.page, c.cnt) /\ c.page + c.bit \in used_map
  <2> DEFINE n == [c EXCEPT !.page = @ + 1, !.bit = 0]
  <2>a. \A v \in Nat : [c EXCEPT !.page = v, !.bit = 0] \in Calls
    BY <1>1 DEF Calls
  <2>b. n = [c EXCEPT !.page = c.page + 1, !.bit = 0]
    BY <1>1 DEF Calls
  <2>1. n \in Calls /\ n.page = c.page + 1 /\ n.bit = 0 /\ n.cnt = c.cnt /\ n.op = c.op
          /\ n.kind = c.kind /\ n.size = c.size /\ n.slot = c.slot
    <3>1. c.page + 1 \in Nat
      BY <1>2
    <3>2. n \in Calls
      BY <2>a, <2>b, <3>1
    <3> QED
      BY <1>1, <2>b, <3>2 DEF Calls
  <2>2. Ready("scan", n)
    BY <1>1, <1>2, <2>1 DEF Ready, Scanning, OfBlock
  <2>3. Steps(t, "scan", n)
    BY <1>1, <1>6 DEF Scan, Set, Steps, AllocatorInv, TypeOK
  <2>4. ASSUME fits[t]
        PROVE  \E r \in Pages : n.page <= r /\ Run(r, n.cnt) \subseteq Pages \ used_map
    <3>1. PICK r \in Pages : c.page <= r /\ Run(r, c.cnt) \subseteq Pages \ used_map
      BY <1>3, <2>4 DEF RunAhead
    <3>2. r # c.page
      BY <1>2, <1>6, <3>1 DEF Run
    <3>3. n.page <= r
      BY <1>2, <2>1, <3>1, <3>2 DEF Pages
    <3> QED
      BY <2>1, <3>1, <3>3
  <2> QED
    BY <1>1, <1>4, <2>1, <2>2, <2>3, <2>4, ScanMoves
<1>7. CASE ~PastLast(c.page, c.cnt) /\ c.page + c.bit \notin used_map /\ c.bit + 1 < c.cnt
  <2> DEFINE n == [c EXCEPT !.bit = @ + 1]
  <2>1. n \in Calls /\ n.page = c.page /\ n.bit = c.bit + 1 /\ n.cnt = c.cnt /\ n.op = c.op
          /\ n.kind = c.kind /\ n.size = c.size /\ n.slot = c.slot
    BY <1>1, <1>2 DEF Calls
  <2>2. Ready("scan", n)
    BY <1>1, <1>2, <1>7, <2>1 DEF Ready, Scanning, OfBlock
  <2>3. Steps(t, "scan", n)
    BY <1>1, <1>7 DEF Scan, Set, Steps, AllocatorInv, TypeOK
  <2> QED
    BY <1>1, <1>3, <1>4, <2>1, <2>2, <2>3, ScanMoves DEF RunAhead
<1>8. CASE ~PastLast(c.page, c.cnt) /\ c.page + c.bit \notin used_map /\ ~(c.bit + 1 < c.cnt)
  <2> DEFINE n == [c EXCEPT !.bit = 0]
  <2>1. n \in Calls /\ n.page = c.page /\ n.bit = 0 /\ n.cnt = c.cnt /\ n.op = c.op
          /\ n.kind = c.kind /\ n.size = c.size /\ n.slot = c.slot
    BY <1>1, <1>2 DEF Calls
  <2>2. Ready("mark", n)
    BY <1>1, <1>2, <1>8, <2>1 DEF Ready, Scanning, OfBlock, PastLast
  <2>3. Steps(t, "mark", n)
    BY <1>8 DEF Scan, Set, Goto, Steps
  <2> QED
    BY <1>1, <1>4, <2>1, <2>2, <2>3, ScanMoves
<1> QED
  BY <1>5, <1>6, <1>7, <1>8

LEMMA MarkKeeps ==
  ASSUME AllocatorInv, NEW t \in Threads, Mark(t)
  PROVE  AllocatorInv'
<1> DEFINE c == call[t]
           last == ~(c.bit + 1 < c.cnt)
           place == IF last THEN "pool_release" ELSE "mark"
           n == IF last THEN c ELSE [c EXCEPT !.bit = @ + 1]
<1>1. pc[t] = "mark" /\ Ready("mark", c) /\ c \in Calls
  BY DEF AllocatorInv, AllReady, TypeOK, Mark, At
<1>2. c.cnt \in Nat \ {0} /\ c.page \in Nat /\ c.bit \in 0..(c.cnt - 1) /\ c.op = "malloc"
        /\ c.page + c.cnt <= PageCnt
  BY <1>1 DEF Ready, Scanning
<1>3. n \in Calls /\ n.page = c.page /\ n.cnt = c.cnt /\ n.op = c.op /\ n.kind = c.kind
        /\ n.size = c.size /\ n.slot = c.slot /\ (~last => n.bit = c.bit + 1)
  BY <1>1, <1>2 DEF Calls
<1>4. c.page \in Pages
  BY <1>2 DEF Pages
<1>5. Ready(place, n)
  BY <1>1, <1>2, <1>3, <1>4 DEF Ready, Scanning, OfBlock
<1>6. Steps(t, place, n)
  <2>1. CASE last
    BY <2>1 DEF Mark, Goto, Steps, AllocatorInv, TypeOK
  <2>2. CASE ~last
    BY <1>1, <2>2 DEF Mark, Set, Steps, AllocatorInv, TypeOK
  <2> QED
    BY <2>1, <2>2
<1>7. pc' \in [Threads -> Places] /\ call' \in [Threads -> Calls] /\ AllReady'
  BY <1>3, <1>5, <1>6, StepReady DEF AllocatorInv, Places
<1>8. TypeOK'
  BY <1>2, <1>7 DEF AllocatorInv, TypeOK, Mark, descs, contents
<1>9. \A u \in Threads : u # t => pc'[u] = pc[u] /\ call'[u] = call[u]
  BY <1>6 DEF AllocatorInv, TypeOK, Steps
<1>10. pc'[t] = place /\ call'[t] = n /\ fits' = fits /\ pool_lock' = pool_lock
  BY <1>6 DEF AllocatorInv, TypeOK, Steps, Mark
<1>11. OneScans'
  BY <1>1, <1>9, <1>10 DEF AllocatorInv, OneScans, Scanning
<1>12. \A u \in Threads : u # t => pc'[u] # "scan"
  BY <1>1, <1>9 DEF AllocatorInv, OneScans, Scanning
<1>13. RunsStay'
  BY <1>10, <1>12 DEF RunsStay
<1>14. RefusedOnlyWhenFull'
  BY <1>2, <1>3, <1>9, <1>10 DEF AllocatorInv, RefusedOnlyWhenFull
<1> QED
  BY <1>7, <1>8, <1>11, <1>13, <1>14 DEF AllocatorInv

LEMMA ReleasePoolKeeps ==
  ASSUME AllocatorInv, NEW t \in Threads, ReleasePool(t)
  PROVE  AllocatorInv'
<1> DEFINE c == call[t]
           place == IF c.kind = "block" THEN "new_arena" ELSE "return"
<1>1. pc[t] = "pool_release" /\ Ready("pool_release", c) /\ c \in Calls
  BY DEF AllocatorInv, AllReady, TypeOK, ReleasePool, At
<1>2. Ready(place, c)
  BY <1>1 DEF Ready, Scanning, OfBlock, Calls
<1>3. Steps(t, place, c)
  BY DEF ReleasePool, Goto, Steps, AllocatorInv, TypeOK
<1>4. pc' \in [Threads -> Places] /\ call' \in [Threads -> Calls] /\ AllReady'
  BY <1>1, <1>2, <1>3, StepReady DEF AllocatorInv, Places
<1>5. TypeOK'
  BY <1>4 DEF AllocatorInv, TypeOK, ReleasePool, descs, contents
<1>6. \A u \in Threads : pc'[u] \notin Scanning
  <2> SUFFICES ASSUME NEW u \in Threads PROVE pc'[u] \notin Scanning
    OBVIOUS
  <2>1. CASE u = t
    BY <1>3, <2>1 DEF AllocatorInv, TypeOK, Steps, Scanning
  <2>2. CASE u # t
    BY <1>1, <1>3, <2>2 DEF AllocatorInv, TypeOK, Steps, OneScans, Scanning
  <2> QED
    BY <2>1, <2>2
<1>7. OneScans' /\ RunsStay' /\ RefusedOnlyWhenFull'
  BY <1>6 DEF OneScans, RunsStay, RefusedOnlyWhenFull, Scanning
<1> QED
  BY <1>4, <1>5, <1>7 DEF AllocatorInv

(* Steps that are not part of a search for pages. *)
LEMMA AsideKeeps ==
  ASSUME AllocatorInv, NEW t \in Threads, NEW place \in Places \ Scanning, NEW c \in Calls,
         Steps(t, place, c), Ready(place, c), pc[t] \notin Scanning,
         fits' = fits, pool_lock' = pool_lock, used_map' \subseteq used_map,
         held' \in [Threads -> SUBSET AnyExtent],
         desc_lock' \in [Descs -> Threads \cup {NoOne}],
         free_list' \in [Descs -> Seq(Cells)], arena' \in [Pages -> Headers],
         panicked' \in BOOLEAN
  PROVE  AllocatorInv'
<1>1. pc' \in [Threads -> Places] /\ call' \in [Threads -> Calls] /\ AllReady'
  BY StepReady DEF AllocatorInv
<1>2. OneScans' /\ RunsStay' /\ RefusedOnlyWhenFull'
  BY StepAside DEF AllocatorInv
<1>3. TypeOK'
  BY <1>1 DEF AllocatorInv, TypeOK
<1> QED
  BY <1>1, <1>2, <1>3 DEF AllocatorInv

LEMMA NoCallReady == NoCall \in Calls /\ Ready("user", NoCall)
  BY DEF NoCall, Calls, Kinds, Ready, Scanning, OfBlock

LEMMA ResetKeeps ==
  ASSUME AllocatorInv, NEW t \in Threads, Reset(t)
  PROVE  AllocatorInv'
<1> DEFINE c == call[t]
<1>1. pc[t] = "reset" /\ Ready("reset", c) /\ c \in Calls
  BY DEF AllocatorInv, AllReady, TypeOK, Reset, At
<1>2. /\ fits' = fits /\ pool_lock' = pool_lock /\ used_map' \subseteq used_map
      /\ held' \in [Threads -> SUBSET AnyExtent]
      /\ desc_lock' \in [Descs -> Threads \cup {NoOne}]
      /\ free_list' \in [Descs -> Seq(Cells)] /\ arena' \in [Pages -> Headers]
      /\ panicked' \in BOOLEAN
  BY DEF Reset, AllocatorInv, TypeOK, descs, contents
<1>3. CASE c.bit + 1 < c.cnt
  <2> DEFINE n == [c EXCEPT !.bit = @ + 1]
  <2>1. n \in Calls /\ n.cnt = c.cnt /\ n.op = c.op /\ n.kind = c.kind /\ n.size = c.size
    BY <1>1 DEF Calls
  <2>2. Ready("reset", n)
    BY <1>1, <2>1 DEF Ready, Scanning, OfBlock
  <2>3. Steps(t, "reset", n)
    BY <1>1, <1>3 DEF Reset, Set, Steps, AllocatorInv, TypeOK
  <2> QED
    BY <1>1, <1>2, <2>1, <2>2, <2>3, AsideKeeps DEF Places, Scanning
<1>4. CASE ~(c.bit + 1 < c.cnt) /\ c.kind = "block"
  <2>1. Ready("desc_release", c)
    BY <1>1, <1>4 DEF Ready, Scanning, OfBlock
  <2>2. Steps(t, "desc_release", c)
    BY <1>4 DEF Reset, Goto, Steps, AllocatorInv, TypeOK
  <2> QED
    BY <1>1, <1>2, <2>1, <2>2, AsideKeeps DEF Places, Scanning
<1>5. CASE ~(c.bit + 1 < c.cnt) /\ c.kind # "block"
  <2>1. Steps(t, "user", NoCall)
    BY <1>5 DEF Reset, End, Goto, Set, Steps
  <2> QED
    BY <1>1, <1>2, <2>1, NoCallReady, AsideKeeps DEF Places, Scanning
<1> QED
  BY <1>3, <1>4, <1>5

-----------------------------------------------------------------------------
(* The block allocator's steps. *)

LEMMA MallocKeeps ==
  ASSUME AllocatorInv, NEW t \in Threads, NEW kind \in Kinds, NEW size \in Sizes(kind),
         NEW old \in held[t] \cup {None}, Malloc(t, kind, size, old)
  PROVE  AllocatorInv'
<1> DEFINE n == Request(kind, size, old)
           place == IF kind = "block" THEN "desc_lock" ELSE "pool_lock"
<1>1. pc[t] = "user"
  BY DEF Malloc, At
<1>2. (kind = "block" => size \in Descs) /\ (kind # "block" => size \in PageCnts)
        /\ size \in Descs \cup PageCnts
  BY DEF Kinds, Sizes, PageCnts
<1>3. (kind # "block" => size \in Nat \ {0}) /\ old \in AnyExtent \cup {None}
  BY <1>2 DEF PageCnts, AllocatorInv, TypeOK
<1>b. (IF kind = "block" THEN 1 ELSE size) \in Int
  BY <1>3
<1>4. n.cnt = (IF kind = "block" THEN 1 ELSE size) /\ n.op = "malloc" /\ n.kind = kind
        /\ n.size = size /\ n.slot = 0 /\ n.page = None
  BY DEF Request
<1>5. n \in Calls
  <2>1. \A v \in Int : [op |-> "malloc", kind |-> kind, size |-> size, old |-> old, page |-> None,
                        slot |-> 0, cnt |-> v, bit |-> 0] \in Calls
    BY <1>2, <1>3 DEF Calls
  <2> QED
    BY <1>b, <2>1 DEF Request
<1>6. 0 \in Slots
  BY DEF Slots
<1>7. Ready(place, n)
  BY <1>2, <1>3, <1>4, <1>6 DEF Ready, Scanning, OfBlock
<1>8. Steps(t, place, n)
  BY DEF Malloc, Set, Goto, Steps
<1> QED
  BY <1>1, <1>5, <1>7, <1>8, AsideKeeps
     DEF Malloc, AllocatorInv, TypeOK, pool, descs, contents, Places, Scanning

LEMMA AcquireDescKeeps ==
  ASSUME AllocatorInv, NEW t \in Threads, AcquireDesc(t)
  PROVE  AllocatorInv'
<1> DEFINE c == call[t]
           place == IF c.op = "free" THEN "put" ELSE "take"
<1>1. pc[t] = "desc_lock" /\ Ready("desc_lock", c) /\ c \in Calls
  BY DEF AllocatorInv, AllReady, TypeOK, AcquireDesc, At
<1>2. Ready(place, c)
  BY <1>1 DEF Ready, Scanning, OfBlock, Calls
<1>3. Steps(t, place, c)
  BY DEF AcquireDesc, Goto, Steps, AllocatorInv, TypeOK
<1> QED
  BY <1>1, <1>2, <1>3, AsideKeeps
     DEF AcquireDesc, AllocatorInv, TypeOK, pool, contents, Places, Scanning

LEMMA NeedArenaKeeps ==
  ASSUME AllocatorInv, NEW t \in Threads, NeedArena(t)
  PROVE  AllocatorInv'
<1> DEFINE c == call[t]
<1>1. pc[t] = "take" /\ Ready("take", c) /\ c \in Calls
  BY DEF AllocatorInv, AllReady, TypeOK, NeedArena, At
<1>2. Ready("pool_lock", c)
  BY <1>1 DEF Ready, Scanning, OfBlock
<1>3. Steps(t, "pool_lock", c)
  BY DEF NeedArena, Goto, Steps, AllocatorInv, TypeOK
<1> QED
  BY <1>1, <1>2, <1>3, AsideKeeps
     DEF NeedArena, AllocatorInv, TypeOK, pool, descs, contents, Places, Scanning

LEMMA NewArenaKeeps ==
  ASSUME AllocatorInv, NEW t \in Threads, NewArena(t)
  PROVE  AllocatorInv'
<1> DEFINE c == call[t]
           p == c.page
           d == c.size
<1>1. pc[t] = "new_arena" /\ Ready("new_arena", c) /\ c \in Calls
  BY DEF AllocatorInv, AllReady, TypeOK, NewArena, At
<1>2. p \in Pages \cup {None} /\ d \in Descs
  BY <1>1 DEF Ready, OfBlock
<1>3. CASE p = None
  <2>1. Ready("desc_release", c)
    BY <1>1 DEF Ready, Scanning, OfBlock
  <2>2. Steps(t, "desc_release", c)
    BY <1>3 DEF NewArena, Goto, Steps, AllocatorInv, TypeOK
  <2> QED
    BY <1>1, <1>3, <2>1, <2>2, AsideKeeps
       DEF NewArena, AllocatorInv, TypeOK, pool, contents, Places, Scanning
<1>4. CASE p # None
  <2>1. Ready("take", c)
    BY <1>1 DEF Ready, Scanning, OfBlock
  <2>2. Steps(t, "take", c)
    BY <1>4 DEF NewArena, Goto, Steps, AllocatorInv, TypeOK
  <2>3. [desc |-> d, free_cnt |-> blocks_per_arena] \in Headers
    BY <1>2 DEF Headers
  <2>4. arena' \in [Pages -> Headers]
    BY <1>4, <2>3 DEF NewArena, AllocatorInv, TypeOK
  <2>5. [i \in 1..blocks_per_arena |-> <<p, i - 1>>] \in Seq(Cells)
    <3>1. \A i \in 1..blocks_per_arena : <<p, i - 1>> \in Cells
      BY <1>2, <1>4 DEF Cells, Slots
    <3>2. [i \in 1..blocks_per_arena |-> <<p, i - 1>>] \in [1..blocks_per_arena -> Cells]
      BY <3>1
    <3> QED
      BY <3>2
  <2>6. free_list[d] \o [i \in 1..blocks_per_arena |-> <<p, i - 1>>] \in Seq(Cells)
    BY <1>2, <2>5 DEF AllocatorInv, TypeOK
  <2>7. free_list' \in [Descs -> Seq(Cells)]
    BY <1>4, <2>6 DEF NewArena, AllocatorInv, TypeOK
  <2> QED
    BY <1>1, <2>1, <2>2, <2>4, <2>7, AsideKeeps
       DEF NewArena, AllocatorInv, TypeOK, pool, Places, Scanning
<1> QED
  BY <1>3, <1>4

LEMMA CountType ==
  ASSUME TypeOK, NEW p \in Pages, arena[p] # None, NEW k \in Int
  PROVE  [arena EXCEPT ![p].free_cnt = k] \in [Pages -> Headers]
<1>1. arena[p] \in [desc : Descs \cup {None}, free_cnt : Int]
  BY DEF TypeOK, Headers
<1>2. [arena[p] EXCEPT !.free_cnt = k] \in Headers
  BY <1>1 DEF Headers
<1> QED
  BY <1>2 DEF TypeOK

LEMMA TakeKeeps ==
  ASSUME AllocatorInv, NEW t \in Threads, Take(t)
  PROVE  AllocatorInv'
<1> DEFINE c == call[t]
           d == c.size
           b == Head(free_list[d])
           n == [c EXCEPT !.page = b[1], !.slot = b[2]]
<1>1. pc[t] = "take" /\ Ready("take", c) /\ c \in Calls
  BY DEF AllocatorInv, AllReady, TypeOK, Take, At
<1>2. d \in Descs /\ c.kind = "block" /\ c.op = "malloc"
  BY <1>1 DEF Ready, OfBlock
<1>3. b \in Cells /\ Tail(free_list[d]) \in Seq(Cells)
  BY <1>2 DEF Take, AllocatorInv, TypeOK
<1>4. b[1] \in Pages /\ b[2] \in Slots /\ b[1] \in Nat /\ b[2] \in Nat
  BY <1>3 DEF Cells, Pages, Slots
<1>5. n \in Calls /\ n.page = b[1] /\ n.slot = b[2] /\ n.op = c.op /\ n.kind = c.kind
        /\ n.size = c.size /\ n.cnt = c.cnt
  BY <1>1, <1>4 DEF Calls
<1>6. Ready("desc_release", n)
  BY <1>1, <1>2, <1>4, <1>5 DEF Ready, Scanning, OfBlock
<1>7. Steps(t, "desc_release", n)
  BY DEF Take, Goto, Set, Steps
<1>8. arena' \in [Pages -> Headers]
  <2>1. CASE arena[b[1]] # None
    <3>1. arena[b[1]].free_cnt - 1 \in Int
      BY <1>4, <2>1, SMTT(30) DEF AllocatorInv, TypeOK, Headers
    <3>2. arena' = [arena EXCEPT ![b[1]].free_cnt = arena[b[1]].free_cnt - 1]
      BY <1>4, <2>1 DEF Take, CountTaken, AllocatorInv, TypeOK, Headers
    <3> QED
      BY <1>4, <2>1, <3>1, <3>2, CountType DEF AllocatorInv
  <2>2. CASE arena[b[1]] = None
    BY <2>2 DEF Take, AllocatorInv, TypeOK
  <2> QED
    BY <2>1, <2>2, SMTT(30)
<1>9. free_list' \in [Descs -> Seq(Cells)] /\ panicked' \in BOOLEAN
  BY <1>3 DEF Take, ASSERTION, AllocatorInv, TypeOK
<1> QED
  BY <1>1, <1>5, <1>6, <1>7, <1>8, <1>9, AsideKeeps
     DEF Take, AllocatorInv, TypeOK, pool, Places, Scanning

LEMMA ReleaseDescKeeps ==
  ASSUME AllocatorInv, NEW t \in Threads, ReleaseDesc(t)
  PROVE  AllocatorInv'
<1> DEFINE c == call[t]
<1>1. pc[t] = "desc_release" /\ Ready("desc_release", c) /\ c \in Calls
  BY DEF AllocatorInv, AllReady, TypeOK, ReleaseDesc, At
<1>2. desc_lock' \in [Descs -> Threads \cup {NoOne}]
  BY DEF ReleaseDesc, AllocatorInv, TypeOK
<1>3. CASE c.op = "free"
  <2>1. Steps(t, "user", NoCall)
    BY <1>3 DEF ReleaseDesc, End, Goto, Set, Steps
  <2> QED
    BY <1>1, <1>2, <2>1, NoCallReady, AsideKeeps
       DEF ReleaseDesc, AllocatorInv, TypeOK, pool, contents, Places, Scanning
<1>4. CASE c.op # "free"
  <2>1. Ready("return", c)
    BY <1>1, <1>4 DEF Ready, Scanning, OfBlock, Calls
  <2>2. Steps(t, "return", c)
    BY <1>4 DEF ReleaseDesc, Goto, Steps, AllocatorInv, TypeOK
  <2> QED
    BY <1>1, <1>2, <2>1, <2>2, AsideKeeps
       DEF ReleaseDesc, AllocatorInv, TypeOK, pool, contents, Places, Scanning
<1> QED
  BY <1>3, <1>4

LEMMA ReturnKeeps ==
  ASSUME AllocatorInv, NEW t \in Threads, Return(t)
  PROVE  AllocatorInv'
<1> DEFINE c == call[t]
           e == New(t)
<1>1. pc[t] = "return" /\ Ready("return", c) /\ c \in Calls
  BY DEF AllocatorInv, AllReady, TypeOK, Return, At
<1>2. Steps(t, "user", NoCall)
  BY DEF Return, End, Goto, Set, Steps
<1>3. held' \in [Threads -> SUBSET AnyExtent] /\ arena' \in [Pages -> Headers]
  <2>1. CASE c.page = None
    BY <2>1 DEF Return, AllocatorInv, TypeOK
  <2>2. CASE c.page # None
    <3>1. c.page \in Pages /\ c.slot \in Slots /\ c.size \in Descs \cup PageCnts
            /\ (c.kind # "block" => c.size \in PageCnts) /\ c.kind \in Kinds
      BY <1>1, <2>2 DEF Ready, Calls
    <3>2. e \in AnyExtent
      BY <3>1 DEF New, Extent, AnyExtent
    <3>3. [desc |-> None, free_cnt |-> c.cnt] \in Headers
      BY <1>1 DEF Headers, Calls
    <3>4. Header(t) \in [Pages -> Headers]
      BY <3>3 DEF Header, AllocatorInv, TypeOK
    <3> QED
      BY <2>2, <3>2, <3>4 DEF Return, AllocatorInv, TypeOK
  <2> QED
    BY <2>1, <2>2
<1> QED
  BY <1>1, <1>2, <1>3, NoCallReady, AsideKeeps
     DEF Return, AllocatorInv, TypeOK, pool, descs, Places, Scanning

(* What free() and realloc() do before they take a lock. *)
LEMMA BeginFreeKeeps ==
  ASSUME AllocatorInv, NEW t \in Threads, NEW e \in AnyExtent, NEW mem,
         NEW headers \in [Pages -> Headers], BeginFree(t, e, mem, headers),
         pc[t] \in {"user", "return"}, held' \in [Threads -> SUBSET AnyExtent],
         UNCHANGED <<fits, pool, descs>>
  PROVE  AllocatorInv'
<1> DEFINE a == headers[e.page]
           cnt == IF e.kind = "pages" THEN e.size ELSE a.free_cnt
<1>1. e.page \in Pages /\ e.slot \in Slots /\ e.kind \in Kinds
        /\ (e.kind # "block" => e.size \in PageCnts) /\ a \in Headers
  BY DEF AnyExtent
<1>2. e.page \in Nat /\ e.slot \in Nat
  BY <1>1 DEF Pages, Slots
<1>3. /\ fits' = fits /\ pool_lock' = pool_lock /\ used_map' \subseteq used_map
      /\ desc_lock' \in [Descs -> Threads \cup {NoOne}]
      /\ free_list' \in [Descs -> Seq(Cells)]
  BY DEF AllocatorInv, TypeOK, pool, descs
<1>4. CASE e.kind # "pages" /\ a = None
  <2>1. Ready(pc[t], call[t]) /\ call[t] \in Calls
    BY DEF AllocatorInv, AllReady, TypeOK
  <2>2. Steps(t, pc[t], call[t])
    BY <1>4 DEF BeginFree, Steps, AllocatorInv, TypeOK
  <2>3. arena' \in [Pages -> Headers] /\ panicked' \in BOOLEAN
    BY <1>4 DEF BeginFree
  <2> QED
    BY <1>3, <2>1, <2>2, <2>3, AsideKeeps DEF Places, Scanning
<1>5. CASE e.kind # "pages" /\ a # None /\ a.desc # None
  <2> DEFINE n == Freeing("block", a.desc, e, 1)
  <2>1. a.desc \in Descs
    BY <1>1, <1>5 DEF Headers
  <2>2. n.op = "free" /\ n.kind = "block" /\ n.size = a.desc /\ n.page = e.page
          /\ n.slot = e.slot /\ n.cnt = 1
    BY DEF Freeing
  <2>3. n \in Calls
    BY <1>2, <2>1 DEF Freeing, Calls, Kinds
  <2>4. Ready("desc_lock", n)
    BY <1>1, <2>1, <2>2 DEF Ready, Scanning, OfBlock
  <2>5. Steps(t, "desc_lock", n)
    BY <1>5 DEF BeginFree, Steps, Set, Goto
  <2>6. arena' \in [Pages -> Headers] /\ panicked' \in BOOLEAN
    BY <1>5 DEF BeginFree, AllocatorInv, TypeOK
  <2> QED
    BY <1>3, <2>3, <2>4, <2>5, <2>6, AsideKeeps DEF Places, Scanning
<1>6. CASE e.kind = "pages" \/ (a # None /\ a.desc = None)
  <2> DEFINE n == Freeing("pages", cnt, e, cnt)
  <2>1. cnt \in Int
    <3>1. CASE e.kind = "pages"
      <4>1. e.size \in PageCnts
        BY <1>1, <3>1
      <4>2. PageCnts \subseteq Int
        BY DEF PageCnts
      <4>3. e.size \in Int
        BY <4>1, <4>2
      <4>4. cnt = e.size
        BY <3>1
      <4> QED
        BY <4>3, <4>4
    <3>2. CASE e.kind # "pages"
      BY <1>1, <1>6, <3>2 DEF Headers
    <3> QED
      BY <3>1, <3>2
  <2>2. n.op = "free" /\ n.kind = "pages"
    BY DEF Freeing
  <2>3. n \in Calls
    BY <1>2, <2>1 DEF Freeing, Calls, Kinds
  <2>4. Ready("reset", n)
    BY <2>2 DEF Ready, Scanning, OfBlock
  <2>5. Steps(t, "reset", n)
    BY <1>6 DEF BeginFree, Steps, Set, Goto
  <2>6. \A p \in Pages : None \in Headers /\ headers[p] \in Headers
    BY DEF Headers
  <2>7. arena' \in [Pages -> Headers] /\ panicked' \in BOOLEAN
    BY <1>6, <2>6 DEF BeginFree, ASSERTION
  <2>8. "reset" \in Places \ Scanning /\ pc[t] \notin Scanning
    BY DEF Places, Scanning
  <2> HIDE DEF n
  <2> QED
    BY <1>3, <2>3, <2>4, <2>5, <2>7, <2>8, AsideKeeps
<1> QED
  BY <1>4, <1>5, <1>6

LEMMA FreeKeeps ==
  ASSUME AllocatorInv, NEW t \in Threads, NEW e \in held[t], Free(t, e)
  PROVE  AllocatorInv'
<1>1. e \in AnyExtent /\ arena \in [Pages -> Headers]
  BY DEF AllocatorInv, TypeOK
<1>2. held' \in [Threads -> SUBSET AnyExtent]
  BY DEF Free, AllocatorInv, TypeOK
<1> QED
  BY <1>1, <1>2, BeginFreeKeeps DEF Free, At

LEMMA ResizeKeeps ==
  ASSUME AllocatorInv, NEW t \in Threads, Resize(t)
  PROVE  AllocatorInv'
<1> DEFINE c == call[t]
           e == New(t)
<1>1. pc[t] = "return" /\ Ready("return", c) /\ c \in Calls
  BY DEF AllocatorInv, AllReady, TypeOK, Resize, At
<1>2. c.old # None /\ c.page # None
  BY DEF Resize
<1>3. c.page \in Pages /\ c.slot \in Slots /\ c.size \in Descs \cup PageCnts
        /\ (c.kind # "block" => c.size \in PageCnts) /\ c.kind \in Kinds
        /\ c.old \in AnyExtent
  BY <1>1, <1>2 DEF Ready, Calls
<1>4. e \in AnyExtent
  BY <1>3 DEF New, Extent, AnyExtent
<1>5. held' \in [Threads -> SUBSET AnyExtent]
  BY <1>4 DEF Resize, AllocatorInv, TypeOK
<1>6. [desc |-> None, free_cnt |-> c.cnt] \in Headers
  BY <1>1 DEF Headers, Calls
<1>7. Header(t) \in [Pages -> Headers]
  BY <1>6 DEF Header, AllocatorInv, TypeOK
<1>8. \E mem : BeginFree(t, c.old, mem, Header(t))
  BY DEF Resize
<1>9. UNCHANGED <<fits, pool, descs>>
  BY DEF Resize
<1> QED
  BY <1>1, <1>3, <1>5, <1>7, <1>8, <1>9, BeginFreeKeeps

LEMMA PutKeeps ==
  ASSUME AllocatorInv, NEW t \in Threads, Put(t)
  PROVE  AllocatorInv'
<1> DEFINE c == call[t]
           d == c.size
           p == c.page
           place == IF Unused(p) THEN "unlist" ELSE "desc_release"
<1>1. pc[t] = "put" /\ Ready("put", c) /\ c \in Calls
  BY DEF AllocatorInv, AllReady, TypeOK, Put, At
<1>2. d \in Descs /\ p \in Pages /\ c.slot \in Slots /\ c.op = "free" /\ c.kind = "block"
  BY <1>1 DEF Ready, OfBlock
<1>3. <<p, c.slot>> \in Cells
  BY <1>2 DEF Cells
<1>4. << <<p, c.slot>> >> \o free_list[d] \in Seq(Cells)
  <2>1. << <<p, c.slot>> >> \in Seq(Cells) /\ free_list[d] \in Seq(Cells)
    BY <1>2, <1>3 DEF AllocatorInv, TypeOK
  <2> HIDE DEF c
  <2> QED
    BY <2>1
<1>5. free_list' \in [Descs -> Seq(Cells)]
  BY <1>4 DEF Put, AllocatorInv, TypeOK
<1>6. CASE arena[p] = None
  <2>1. Steps(t, "put", c) /\ arena' \in [Pages -> Headers] /\ panicked' \in BOOLEAN
    BY <1>1, <1>6 DEF Put, Steps, AllocatorInv, TypeOK
  <2> QED
    BY <1>1, <1>5, <2>1, AsideKeeps
       DEF Put, AllocatorInv, TypeOK, pool, Places, Scanning
<1>7. CASE arena[p] # None
  <2>1. Ready(place, c)
    BY <1>1, <1>2 DEF Ready, Scanning, OfBlock
  <2>2. Steps(t, place, c)
    BY <1>7 DEF Put, Goto, Steps, AllocatorInv, TypeOK
  <2>3. arena[p].free_cnt + 1 \in Int
    BY <1>2, <1>7 DEF AllocatorInv, TypeOK, Headers
  <2>4. arena' = [arena EXCEPT ![p].free_cnt = arena[p].free_cnt + 1]
    BY <1>2, <1>7 DEF Put, AllocatorInv, TypeOK, Headers
  <2>5. arena' \in [Pages -> Headers]
    BY <1>2, <1>7, <2>3, <2>4, CountType DEF AllocatorInv
  <2>6. panicked' \in BOOLEAN
    BY <1>7 DEF Put, ASSERTION
  <2> QED
    BY <1>1, <1>5, <2>1, <2>2, <2>5, <2>6, AsideKeeps
       DEF Put, AllocatorInv, TypeOK, pool, Places, Scanning
<1> QED
  BY <1>6, <1>7

LEMMA UnlistKeeps ==
  ASSUME AllocatorInv, NEW t \in Threads, Unlist(t)
  PROVE  AllocatorInv'
<1> DEFINE c == call[t]
           d == c.size
           p == c.page
           i == c.bit
<1>1. pc[t] = "unlist" /\ Ready("unlist", c) /\ c \in Calls
  BY DEF AllocatorInv, AllReady, TypeOK, Unlist, At
<1>2. d \in Descs /\ p \in Pages /\ c.op = "free" /\ c.kind = "block" /\ i \in Nat
  BY <1>1 DEF Ready, OfBlock, Calls
<1>3. list_remove(free_list[d], <<p, i>>) \in Seq(Cells)
  BY <1>2, RemoveType DEF AllocatorInv, TypeOK
<1>4. free_list' \in [Descs -> Seq(Cells)]
  BY <1>3 DEF Unlist, AllocatorInv, TypeOK
<1>5. CASE i + 1 < blocks_per_arena
  <2> DEFINE n == [c EXCEPT !.bit = @ + 1]
  <2>1. n \in Calls /\ n.page = p /\ n.op = c.op /\ n.kind = c.kind /\ n.size = d
          /\ n.slot = c.slot
    BY <1>1, <1>2 DEF Calls
  <2>2. Ready("unlist", n)
    BY <1>1, <2>1 DEF Ready, Scanning, OfBlock
  <2>3. Steps(t, "unlist", n)
    BY <1>1, <1>5 DEF Unlist, Set, Steps, AllocatorInv, TypeOK
  <2> QED
    BY <1>1, <1>4, <1>5, <2>1, <2>2, <2>3, AsideKeeps
       DEF Unlist, AllocatorInv, TypeOK, pool, contents, Places, Scanning
<1>6. CASE ~(i + 1 < blocks_per_arena)
  <2> DEFINE n == [c EXCEPT !.bit = 0]
  <2>1. n \in Calls /\ n.op = c.op /\ n.kind = c.kind /\ n.size = d
    BY <1>1 DEF Calls
  <2>2. Ready("reset", n)
    BY <1>2, <2>1 DEF Ready, Scanning, OfBlock
  <2>3. Steps(t, "reset", n)
    BY <1>6 DEF Unlist, Set, Goto, Steps
  <2>4. \A q \in Pages : None \in Headers /\ arena[q] \in Headers
    BY DEF Headers, AllocatorInv, TypeOK
  <2>5. arena' \in [Pages -> Headers] /\ panicked' \in BOOLEAN
    BY <1>6, <2>4 DEF Unlist, Overwrite, ASSERTION
  <2> QED
    BY <1>1, <1>4, <2>1, <2>2, <2>3, <2>5, AsideKeeps
       DEF Unlist, AllocatorInv, TypeOK, pool, Places, Scanning
<1> QED
  BY <1>5, <1>6

LEMMA StoreKeeps ==
  ASSUME AllocatorInv, NEW t \in Threads, NEW e, NEW v, Store(t, e, v)
  PROVE  AllocatorInv'
<1>1. arena' \in [Pages -> Headers]
  BY DEF Store, AllocatorInv, TypeOK, Headers
<1>2. pc' = pc /\ call' = call /\ held' = held /\ fits' = fits /\ pool_lock' = pool_lock
        /\ used_map' = used_map /\ desc_lock' = desc_lock /\ free_list' = free_list
        /\ panicked' = panicked
  BY DEF Store, locals, pool, descs
<1>3. TypeOK'
  BY <1>1, <1>2 DEF AllocatorInv, TypeOK
<1> QED
  BY <1>2, <1>3 DEF AllocatorInv, AllReady, OneScans, RunsStay, RunAhead, RefusedOnlyWhenFull

-----------------------------------------------------------------------------
LEMMA InitInv == Init => AllocatorInv
<1> SUFFICES ASSUME Init PROVE AllocatorInv
  OBVIOUS
<1>1. TypeOK
  <2>1. pc \in [Threads -> Places] /\ call \in [Threads -> Calls]
    BY NoCallReady DEF Init, Places
  <2>2. held \in [Threads -> SUBSET AnyExtent] /\ fits \in [Threads -> BOOLEAN]
    BY DEF Init
  <2>3. free_list \in [Descs -> Seq(Cells)]
    BY DEF Init
  <2>4. arena \in [Pages -> Headers]
    BY DEF Init, Headers
  <2> QED
    BY <2>1, <2>2, <2>3, <2>4 DEF Init, TypeOK
<1>2. AllReady
  BY NoCallReady DEF Init, AllReady
<1>3. OneScans /\ RunsStay /\ RefusedOnlyWhenFull
  BY DEF Init, OneScans, RunsStay, RefusedOnlyWhenFull, Scanning
<1> QED
  BY <1>1, <1>2, <1>3 DEF AllocatorInv

LEMMA NextKeeps == AllocatorInv /\ [Next]_vars => AllocatorInv'
<1> SUFFICES ASSUME AllocatorInv, [Next]_vars PROVE AllocatorInv'
  OBVIOUS
<1>1. CASE UNCHANGED vars
  BY <1>1 DEF AllocatorInv, TypeOK, AllReady, OneScans, RunsStay, RunAhead,
              RefusedOnlyWhenFull, vars, locals, pool, descs, contents
<1>2. ASSUME NEW t \in Threads, Serve(t) PROVE AllocatorInv'
  BY <1>2, AcquirePoolKeeps, ScanKeeps, MarkKeeps, ReleasePoolKeeps, ResetKeeps,
     AcquireDescKeeps, NeedArenaKeeps, NewArenaKeeps, TakeKeeps, ReleaseDescKeeps,
     ReturnKeeps, ResizeKeeps, PutKeeps, UnlistKeeps DEF Serve
<1>3. ASSUME NEW t \in Threads, Client(t) PROVE AllocatorInv'
  BY <1>3, MallocKeeps, FreeKeeps, StoreKeeps DEF Client
<1> QED
  BY <1>1, <1>2, <1>3 DEF Next

(***************************************************************************)
(* In every reachable state a thread whose search found nothing began it   *)
(* when no long enough run of pages was free (bitmap_scan() under the      *)
(* pool's lock, against palloc_free_multiple() without it).                *)
(***************************************************************************)
THEOREM RefusesOnlyWhenFull == Spec => []RefusedOnlyWhenFull
<1>1. AllocatorInv => RefusedOnlyWhenFull
  BY DEF AllocatorInv
<1> QED
  BY InitInv, NextKeeps, <1>1, PTL DEF Spec

(* Only the thread that has the pool's lock searches and marks. *)
THEOREM OneThreadScans == Spec => []OneScans
<1>1. AllocatorInv => OneScans
  BY DEF AllocatorInv
<1> QED
  BY InitInv, NextKeeps, <1>1, PTL DEF Spec

-----------------------------------------------------------------------------
(***************************************************************************)
(* Where every page and every block is.  At place `place' of a call with   *)
(* variables c a thread has these pages and this block on their way, and   *)
(* has taken these blocks off the list of an arena it takes apart.         *)
(***************************************************************************)
PagesOf(place, c) ==
  IF c.page = None THEN {}
  ELSE IF place = "mark" THEN c.page..(c.page + c.bit - 1)
  ELSE IF place = "reset" THEN (c.page + c.bit)..(c.page + c.cnt - 1)
  ELSE IF place \in {"pool_release", "new_arena"} \/ (place = "return" /\ c.kind # "block")
  THEN Run(c.page, c.cnt) ELSE {}

BlockOf(place, c) ==
  IF /\ c.page # None
     /\ \/ place = "put"
        \/ c.op = "free" /\ c.kind = "block" /\ place = "desc_lock"
        \/ c.op = "malloc" /\ c.kind = "block" /\ place \in {"desc_release", "return"}
  THEN {<<c.page, c.slot>>} ELSE {}

UnlinkedOf(place, c) ==
  IF place = "unlist" THEN {<<c.page, i>> : i \in 0..(c.bit - 1)} ELSE {}

HasDesc(place, c) ==
  \/ place \in {"take", "put", "unlist", "desc_release", "new_arena"}
  \/ c.kind = "block" /\ place \in {"pool_lock", "reset"} \cup Scanning

NeedsArena(place, c) ==
  c.kind = "block" /\ place \in {"pool_lock", "new_arena"} \cup Scanning

InHand(t) == BlockOf(pc[t], call[t])
Unlinking(t) == UnlinkedOf(pc[t], call[t])

(* The pages and the block of an extent a client has. *)
Pgs(e) == IF e.kind = "block" THEN {} ELSE Run(e.page, e.size)
Blk(e) == IF e.kind = "block" THEN {<<e.page, e.slot>>} ELSE {}

(* What the variables of a call say of each other. *)
Sized(place, c) ==
  /\ place # "user" => c.cnt = (IF c.kind = "block" THEN 1 ELSE c.size)
  /\ place \in {"pool_release", "new_arena", "return"} /\ c.page # None
       => c.page + c.cnt <= PageCnt
  /\ place = "reset" => /\ c.cnt \in Nat \ {0} /\ c.bit < c.cnt
                        /\ c.page \in Pages /\ c.page + c.cnt <= PageCnt
  /\ place = "unlist" => c.bit < blocks_per_arena
  /\ place \in {"desc_lock", "put"} /\ c.op = "free" => c.bit = 0
  /\ place = "desc_lock" /\ c.op = "malloc" => c.page = None
  /\ place = "user" => c.op = "none"

AllSized == \A t \in Threads : Sized(pc[t], call[t])

(* realloc() has the old block until it has copied it. *)
Olds == \A t \in Threads : call[t].op = "malloc" /\ call[t].old # None =>
          call[t].old \in held[t] /\ call[t].old.kind # "pages"

(* What a scan has seen free is free: only bits are reset meanwhile. *)
IsClear(place, c, used) ==
  /\ place = "scan" => \A p \in used : ~(c.page <= p /\ p < c.page + c.bit)
  /\ place = "mark" => \A p \in used : ~(c.page + c.bit <= p /\ p < c.page + c.cnt)

Clear == \A t \in Threads : IsClear(pc[t], call[t], used_map)

DescLocked == \A t \in Threads :
  /\ HasDesc(pc[t], call[t]) => desc_lock[call[t].size] = t
  /\ NeedsArena(pc[t], call[t]) => free_list[call[t].size] = <<>>

(* A page is an arena, a client's, or on its way with one thread. *)
PagesApart ==
  /\ \A t, u \in Threads : \A e \in held[t], f \in held[u] :
       Pgs(e) \cap Pgs(f) # {} => t = u /\ e = f
  /\ \A t, u \in Threads : \A e \in held[t] : Pgs(e) \cap PagesMoving(u) = {}
  /\ \A t, u \in Threads : PagesMoving(t) \cap PagesMoving(u) # {} => t = u
  /\ \A t \in Threads : Arenas \cap PagesMoving(t) = {}
  /\ \A t \in Threads : \A e \in held[t] : Arenas \cap Pgs(e) = {}

Accounted(p) ==
  p \in Arenas \/ \E t \in Threads : p \in PagesMoving(t) \/ \E e \in held[t] : p \in Pgs(e)

PagesMarked == \A p : p \in used_map <=> Accounted(p)

Bigs == \A t \in Threads : \A e \in held[t] :
  /\ e.kind # "block" => e.page + e.size <= PageCnt
  /\ e.kind = "big" => arena[e.page] = [desc |-> None, free_cnt |-> e.size]

(* A block is free, a client's, or with one thread. *)
BlocksApart ==
  /\ \A t, u \in Threads : \A e \in held[t], f \in held[u] :
       Blk(e) \cap Blk(f) # {} => t = u /\ e = f
  /\ \A t, u \in Threads : \A e \in held[t] : Blk(e) \cap InHand(u) = {}
  /\ \A t, u \in Threads : InHand(t) \cap InHand(u) # {} => t = u
  /\ \A d \in Descs : \A b \in ToSet(free_list[d]) : \A t \in Threads :
       b \notin InHand(t) /\ b \notin Unlinking(t) /\ \A e \in held[t] : b \notin Blk(e)

BlocksPlaced ==
  /\ \A d \in Descs : \A b \in ToSet(free_list[d]) : b[1] \in Arenas /\ arena[b[1]].desc = d
  /\ \A d \in Descs : IsInjective(free_list[d])
  /\ \A t \in Threads : \A e \in held[t] : e.kind = "block" => e.page \in Arenas
  /\ \A t \in Threads : InHand(t) # {} =>
       call[t].page \in Arenas /\ arena[call[t].page].desc = call[t].size
  /\ \A t \in Threads : pc[t] = "unlist" =>
       /\ call[t].page \in Arenas /\ arena[call[t].page].desc = call[t].size
       /\ \A u \in Threads : /\ \A b \in InHand(u) : b[1] # call[t].page
                             /\ \A e \in held[u] : \A b \in Blk(e) : b[1] # call[t].page

Somewhere(b) ==
  \/ b \in ToSet(free_list[arena[b[1]].desc])
  \/ \E t \in Threads : b \in InHand(t) \/ b \in Unlinking(t) \/ \E e \in held[t] : b \in Blk(e)

Covered == \A p \in Arenas : \A i \in Slots : Somewhere(<<p, i>>)

(* The blocks of an arena that its header counts. *)
Loose(p) == {b \in ToSet(free_list[arena[p].desc]) : b[1] = p}
              \cup UNION {{b \in Unlinking(t) : b[1] = p} : t \in Threads}
Counted == \A p \in Arenas : arena[p].free_cnt = Cardinality(Loose(p))

(* An arena all of whose blocks are free is about to be used or given back. *)
Out(p) == \E t \in Threads : \/ \E b \in InHand(t) : b[1] = p
                             \/ \E e \in held[t] : \E b \in Blk(e) : b[1] = p
Emptied == \A p \in Arenas : ~Out(p) =>
  \E t \in Threads : /\ call[t].page = p /\ call[t].size = arena[p].desc
                     /\ pc[t] \in {"take", "unlist"}
                     /\ pc[t] = "take" => \A b \in ToSet(free_list[arena[p].desc]) : b[1] = p

Local == AllSized /\ Olds /\ Clear /\ DescLocked /\ ~panicked
OfPages == PagesApart /\ PagesMarked /\ Bigs
OfBlocks == BlocksApart /\ BlocksPlaced /\ Covered /\ Counted /\ Emptied
Accounts == Local /\ OfPages /\ OfBlocks

-----------------------------------------------------------------------------
LEMMA Views ==
  ASSUME NEW t \in Threads
  PROVE  PagesMoving(t) = PagesOf(pc[t], call[t])
BY DEF PagesMoving, PagesOf

LEMMA Others ==
  ASSUME TypeOK, NEW t \in Threads, NEW place, NEW n, Steps(t, place, n)
  PROVE  /\ pc'[t] = place /\ call'[t] = n
         /\ \A u \in Threads \ {t} : pc'[u] = pc[u] /\ call'[u] = call[u]
         /\ PagesMoving(t)' = PagesOf(place, n)
         /\ InHand(t)' = BlockOf(place, n) /\ Unlinking(t)' = UnlinkedOf(place, n)
         /\ \A u \in Threads \ {t} : /\ PagesMoving(u)' = PagesMoving(u)
                                     /\ InHand(u)' = InHand(u) /\ Unlinking(u)' = Unlinking(u)
<1>1. pc'[t] = place /\ call'[t] = n
      /\ \A u \in Threads \ {t} : pc'[u] = pc[u] /\ call'[u] = call[u]
  BY DEF Steps, TypeOK
<1>2. PagesMoving(t)' = PagesOf(place, n)
  BY <1>1 DEF PagesMoving, PagesOf
<1>3. InHand(t)' = BlockOf(place, n) /\ Unlinking(t)' = UnlinkedOf(place, n)
  BY <1>1 DEF InHand, Unlinking
<1>4. ASSUME NEW u \in Threads \ {t}
      PROVE  /\ PagesMoving(u)' = PagesMoving(u)
             /\ InHand(u)' = InHand(u) /\ Unlinking(u)' = Unlinking(u)
  BY <1>1 DEF PagesMoving, InHand, Unlinking
<1> QED
  BY <1>1, <1>2, <1>3, <1>4

(* The variables of t agree, and nothing others rely on has been touched. *)
LEMMA LocalKeeps ==
  ASSUME AllocatorInv, AllocatorInv', Local, NEW t \in Threads, NEW place, NEW n,
         Steps(t, place, n), Sized(place, n), panicked' = FALSE,
         n.op = "malloc" /\ n.old # None => n.old \in held'[t] /\ n.old.kind # "pages",
         \A u \in Threads \ {t} : held'[u] = held[u],
         used_map' \subseteq used_map \/ pc[t] = "mark", IsClear(place, n, used_map'),
         HasDesc(place, n) => desc_lock'[n.size] = t,
         NeedsArena(place, n) => free_list'[n.size] = <<>>,
         \A u \in Threads \ {t} : HasDesc(pc[u], call[u]) =>
           /\ desc_lock'[call[u].size] = desc_lock[call[u].size]
           /\ free_list'[call[u].size] = free_list[call[u].size]
  PROVE  Local'
<1>1. pc'[t] = place /\ call'[t] = n
      /\ \A u \in Threads \ {t} : pc'[u] = pc[u] /\ call'[u] = call[u]
  BY Others DEF AllocatorInv
<1>2. AllSized'
  BY <1>1 DEF Local, AllSized
<1>3. Olds'
  <2> SUFFICES ASSUME NEW u \in Threads, call'[u].op = "malloc", call'[u].old # None
               PROVE  call'[u].old \in held'[u] /\ call'[u].old.kind # "pages"
    BY DEF Olds
  <2>1. CASE u = t
    BY <1>1, <2>1
  <2>2. CASE u # t
    <3>1. call'[u] = call[u] /\ held'[u] = held[u]
      BY <1>1, <2>2
    <3> QED
      BY <3>1 DEF Local, Olds
  <2> QED
    BY <2>1, <2>2
<1>4. Clear'
  <2> SUFFICES ASSUME NEW u \in Threads PROVE IsClear(pc'[u], call'[u], used_map')
    BY DEF Clear
  <2>1. CASE u = t
    BY <1>1, <2>1
  <2>2. CASE u # t
    <3>1. pc'[u] = pc[u] /\ call'[u] = call[u] /\ IsClear(pc[u], call[u], used_map)
      BY <1>1, <2>2 DEF Local, Clear
    <3>2. CASE used_map' \subseteq used_map
      BY <3>1, <3>2 DEF IsClear
    <3>3. CASE pc[t] = "mark"
      BY <2>2, <3>1, <3>3 DEF AllocatorInv, OneScans, Scanning, IsClear
    <3> QED
      BY <3>2, <3>3
  <2> QED
    BY <2>1, <2>2
<1>5. DescLocked'
  <2> SUFFICES ASSUME NEW u \in Threads
               PROVE  /\ HasDesc(pc'[u], call'[u]) => desc_lock'[call'[u].size] = u
                      /\ NeedsArena(pc'[u], call'[u]) => free_list'[call'[u].size] = <<>>
    BY DEF DescLocked
  <2>1. CASE u = t
    BY <1>1, <2>1
  <2>2. CASE u # t
    <3>1. pc'[u] = pc[u] /\ call'[u] = call[u]
      BY <1>1, <2>2
    <3>2. NeedsArena(pc[u], call[u]) => HasDesc(pc[u], call[u])
      BY DEF NeedsArena, HasDesc
    <3>3. /\ HasDesc(pc[u], call[u]) => desc_lock[call[u].size] = u
          /\ NeedsArena(pc[u], call[u]) => free_list[call[u].size] = <<>>
      BY DEF Local, DescLocked
    <3> QED
      BY <2>2, <3>1, <3>2, <3>3
  <2> QED
    BY <2>1, <2>2
<1> QED
  BY <1>2, <1>3, <1>4, <1>5 DEF Local

(* The pages a thread has, or has on their way. *)
Mine(t) == PagesMoving(t) \cup UNION {Pgs(e) : e \in held[t]}

LEMMA MineApart ==
  ASSUME PagesApart, PagesMarked, NEW t \in Threads
  PROVE  /\ \A u \in Threads : Mine(t) \cap Mine(u) # {} => t = u
         /\ Mine(t) \cap Arenas = {} /\ Mine(t) \subseteq used_map /\ Arenas \subseteq used_map
<1>1. ASSUME NEW u \in Threads, NEW p \in Mine(t), p \in Mine(u) PROVE t = u
  BY <1>1 DEF Mine, PagesApart
<1>2. ASSUME NEW p \in Mine(t) PROVE p \notin Arenas /\ p \in used_map
  BY <1>2 DEF Mine, PagesApart, PagesMarked, Accounted
<1>3. Arenas \subseteq used_map
  BY DEF PagesMarked, Accounted
<1> QED
  BY <1>1, <1>2, <1>3

(***************************************************************************)
(* Pages move between what is free, the arenas and one thread, which takes *)
(* from the first two only and keeps what it has apart.                    *)
(***************************************************************************)
LEMMA PagesKeep ==
  ASSUME PagesApart, PagesMarked, NEW t \in Threads,
         \A u \in Threads \ {t} : held'[u] = held[u] /\ PagesMoving(u)' = PagesMoving(u),
         \A e, f \in held'[t] : Pgs(e) \cap Pgs(f) # {} => e = f,
         \A e \in held'[t] : Pgs(e) \cap PagesMoving(t)' = {} /\ Arenas' \cap Pgs(e) = {},
         Arenas' \cap PagesMoving(t)' = {},
         \A p \in Arenas' \cup Mine(t)' : p \in Arenas \cup Mine(t) \/ p \notin used_map,
         \A p : p \in used_map' <=>
           p \in Arenas' \cup Mine(t)' \/ (p \in used_map /\ p \notin Arenas \cup Mine(t))
  PROVE  PagesApart' /\ PagesMarked'
<1>1. \A u \in Threads \ {t} : Mine(u)' = Mine(u)
  BY DEF Mine
<1>2. \A u \in Threads \ {t} :
        /\ \A p \in Mine(u) : p \notin Arenas' /\ p \notin Mine(t)'
        /\ \A v \in Threads : Mine(u) \cap Mine(v) # {} => u = v
  BY MineApart
<1>3. \A e : Pgs(e)' = Pgs(e)
  BY DEF Pgs
<1>4. \A u \in Threads : /\ PagesMoving(u)' \subseteq Mine(u)'
                         /\ \A e \in held'[u] : Pgs(e) \subseteq Mine(u)'
  BY <1>3 DEF Mine
<1>5. \A u, v \in Threads : Mine(u)' \cap Mine(v)' # {} => u = v
  BY <1>1, <1>2
<1>6. \A u \in Threads : \A e, f \in held'[u] : Pgs(e) \cap Pgs(f) # {} => e = f
  BY DEF PagesApart
<1>7. \A u \in Threads : \A e \in held'[u] : Pgs(e) \cap PagesMoving(u)' = {}
  BY DEF PagesApart
<1>8. \A u \in Threads : Arenas' \cap Mine(u)' = {}
  <2>1. Arenas' \cap Mine(t)' = {}
    BY <1>3 DEF Mine
  <2> QED
    BY <1>1, <1>2, <2>1
<1>9. ASSUME NEW u \in Threads, NEW v \in Threads, NEW e \in held'[u], NEW f \in held'[v],
             Pgs(e) \cap Pgs(f) # {}
      PROVE  u = v /\ e = f
  BY <1>4, <1>5, <1>6, <1>9
<1>10. ASSUME NEW u \in Threads, NEW v \in Threads, NEW e \in held'[u]
       PROVE  Pgs(e) \cap PagesMoving(v)' = {}
  <2>1. CASE u = v
    BY <1>7, <2>1
  <2>2. CASE u # v
    BY <1>4, <1>5, <2>2
  <2> QED
    BY <2>1, <2>2
<1>11. ASSUME NEW u \in Threads, NEW v \in Threads, PagesMoving(u)' \cap PagesMoving(v)' # {}
       PROVE  u = v
  BY <1>4, <1>5, <1>11
<1>12. \A u \in Threads : /\ Arenas' \cap PagesMoving(u)' = {}
                          /\ \A e \in held'[u] : Arenas' \cap Pgs(e) = {}
  BY <1>4, <1>8
<1>13. PagesApart'
  BY <1>3, <1>9, <1>10, <1>11, <1>12 DEF PagesApart
<1>14. ASSUME NEW p PROVE p \in used_map' <=> p \in Arenas' \/ \E u \in Threads : p \in Mine(u)'
  <2>1. p \in used_map <=> p \in Arenas \/ \E u \in Threads : p \in Mine(u)
    BY DEF PagesMarked, Accounted, Mine
  <2>2. CASE p \in Arenas' \cup Mine(t)'
    BY <2>2
  <2>3. CASE p \notin Arenas' \cup Mine(t)'
    <3>1. p \in used_map' <=> p \in used_map /\ p \notin Arenas \cup Mine(t)
      BY <2>3
    <3>2. (\E u \in Threads : p \in Mine(u)') <=> \E u \in Threads \ {t} : p \in Mine(u)
      BY <1>1, <2>3
    <3>3. (p \in used_map /\ p \notin Arenas \cup Mine(t)) <=> \E u \in Threads \ {t} : p \in Mine(u)
      BY <2>1, MineApart
    <3> QED
      BY <2>3, <3>1, <3>2, <3>3
  <2> QED
    BY <2>2, <2>3
<1>15. PagesMarked'
  BY <1>3, <1>14 DEF PagesMarked, Accounted, Mine
<1> QED
  BY <1>13, <1>15

(* The blocks a thread has, or has on their way. *)
MineB(t) == InHand(t) \cup UNION {Blk(e) : e \in held[t]}

LEMMA OutIs == ASSUME NEW p
               PROVE  Out(p) <=> \E t \in Threads : \E b \in MineB(t) : b[1] = p
BY DEF Out, MineB

(* Two threads do not have the lock of a descriptor. *)
LEMMA OneHasDesc ==
  ASSUME DescLocked, NEW t \in Threads, NEW u \in Threads, call[t].size = call[u].size,
         HasDesc(pc[t], call[t]), HasDesc(pc[u], call[u])
  PROVE  t = u
BY DEF DescLocked

(* What a block is placed in is apart from what else there is. *)
LEMMA BlocksOfMine ==
  ASSUME AllocatorInv, BlocksApart, BlocksPlaced, NEW t \in Threads
  PROVE  /\ \A u \in Threads : MineB(t) \cap MineB(u) # {} => t = u
         /\ \A b \in MineB(t) : b \in Cells /\ b[1] \in Arenas
         /\ \A b \in MineB(t) : \A d \in Descs : b \notin ToSet(free_list[d])
         /\ \A u \in Threads : pc[u] = "unlist" => \A b \in MineB(t) : b[1] # call[u].page
<1>1. ASSUME NEW b \in InHand(t) PROVE b \in Cells /\ b[1] \in Arenas
  <2>1. b = <<call[t].page, call[t].slot>> /\ call[t].page # None /\ call[t] \in Calls
        /\ pc[t] \in {"put", "desc_lock", "desc_release", "return"}
    BY <1>1 DEF InHand, BlockOf, AllocatorInv, TypeOK
  <2>2. Ready(pc[t], call[t])
    BY DEF AllocatorInv, AllReady
  <2>3. call[t].slot \in Slots /\ call[t].page \in Arenas
    BY <1>1, <2>1, <2>2 DEF InHand, BlockOf, Ready, BlocksPlaced
  <2> QED
    BY <2>1, <2>3 DEF Arenas, Cells
<1>2. ASSUME NEW e \in held[t], NEW b \in Blk(e) PROVE b \in Cells /\ b[1] \in Arenas
  <2>1. b = <<e.page, e.slot>> /\ e.kind = "block" /\ e \in AnyExtent
    BY <1>2 DEF Blk, AllocatorInv, TypeOK
  <2>2. e.page \in Arenas /\ e.slot \in Slots /\ e.page \in Pages
    BY <2>1 DEF BlocksPlaced, AnyExtent
  <2> QED
    BY <2>1, <2>2 DEF Cells
<1>3. \A b \in MineB(t) : b \in Cells /\ b[1] \in Arenas
  BY <1>1, <1>2 DEF MineB
<1>4. \A u \in Threads : MineB(t) \cap MineB(u) # {} => t = u
  BY DEF MineB, BlocksApart
<1>5. \A b \in MineB(t) : \A d \in Descs : b \notin ToSet(free_list[d])
  BY DEF MineB, BlocksApart
<1>6. \A u \in Threads : pc[u] = "unlist" => \A b \in MineB(t) : b[1] # call[u].page
  BY DEF MineB, BlocksPlaced
<1> QED
  BY <1>3, <1>4, <1>5, <1>6

(* Steps that change no list of free blocks and no arena. *)
LEMMA BlocksKeep ==
  ASSUME AllocatorInv, DescLocked, OfBlocks, NEW t \in Threads,
         NEW place, NEW n, Steps(t, place, n),
         pc[t] # "unlist", place # "unlist",
         pc[t] = "take" => free_list[call[t].size] = <<>>,
         \A u \in Threads \ {t} : held'[u] = held[u],
         free_list' = free_list, Arenas' = Arenas, \A p \in Arenas : arena'[p] = arena[p],
         MineB(t)' = MineB(t),
         \A e, f \in held'[t] : Blk(e) \cap Blk(f) # {} => e = f,
         \A e \in held'[t] : Blk(e) \cap BlockOf(place, n) = {},
         BlockOf(place, n) # {} => arena[n.page].desc = n.size
  PROVE  OfBlocks'
<1>1. /\ pc'[t] = place /\ call'[t] = n
      /\ \A u \in Threads \ {t} : pc'[u] = pc[u] /\ call'[u] = call[u]
      /\ InHand(t)' = BlockOf(place, n) /\ Unlinking(t)' = UnlinkedOf(place, n)
      /\ \A u \in Threads \ {t} : InHand(u)' = InHand(u) /\ Unlinking(u)' = Unlinking(u)
  BY Others DEF AllocatorInv
<1>2. \A u \in Threads : Unlinking(u)' = Unlinking(u)
  BY <1>1 DEF Unlinking, UnlinkedOf
<1>3. \A e : Blk(e)' = Blk(e)
  BY DEF Blk
<1>4. \A u \in Threads : MineB(u)' = MineB(u)
  BY <1>1, <1>3 DEF MineB
<1>5. \A u \in Threads : /\ InHand(u)' \subseteq MineB(u)
                         /\ \A e \in held'[u] : Blk(e) \subseteq MineB(u)
  BY <1>3, <1>4 DEF MineB
<1>6. \A u, v \in Threads : MineB(u) \cap MineB(v) # {} => u = v
  BY BlocksOfMine DEF OfBlocks
<1>7. BlocksApart'
  <2>1. \A u \in Threads : \A e, f \in held'[u] : Blk(e) \cap Blk(f) # {} => e = f
    BY DEF OfBlocks, BlocksApart
  <2>2. \A u \in Threads : \A e \in held'[u] : Blk(e) \cap InHand(u)' = {}
    BY <1>1 DEF OfBlocks, BlocksApart
  <2>3. ASSUME NEW u \in Threads, NEW v \in Threads, NEW e \in held'[u], NEW f \in held'[v],
               Blk(e) \cap Blk(f) # {}
        PROVE  u = v /\ e = f
    BY <1>5, <1>6, <2>1, <2>3
  <2>4. ASSUME NEW u \in Threads, NEW v \in Threads, NEW e \in held'[u]
        PROVE  Blk(e) \cap InHand(v)' = {}
    <3>1. CASE u = v
      BY <2>2, <3>1
    <3>2. CASE u # v
      BY <1>5, <1>6, <3>2
    <3> QED
      BY <3>1, <3>2
  <2>5. ASSUME NEW u \in Threads, NEW v \in Threads, InHand(u)' \cap InHand(v)' # {} PROVE u = v
    BY <1>5, <1>6, <2>5
  <2>6. ASSUME NEW d \in Descs, NEW b \in ToSet(free_list[d]), NEW u \in Threads
        PROVE  /\ b \notin InHand(u)' /\ b \notin Unlinking(u)
               /\ \A e \in held'[u] : b \notin Blk(e)
    <3>1. b \notin MineB(u)
      BY BlocksOfMine DEF OfBlocks
    <3> QED
      BY <1>5, <3>1 DEF OfBlocks, BlocksApart
  <2> QED
    BY <1>2, <1>3, <2>3, <2>4, <2>5, <2>6 DEF BlocksApart
<1>8. BlocksPlaced'
  <2>1. \A u \in Threads : \A b \in MineB(u) : b[1] \in Arenas
    BY BlocksOfMine DEF OfBlocks
  <2>2. ASSUME NEW u \in Threads, NEW e \in held'[u], e.kind = "block" PROVE e.page \in Arenas
    BY <1>5, <2>1, <2>2 DEF Blk
  <2>3. ASSUME NEW u \in Threads, InHand(u)' # {}
        PROVE  call'[u].page \in Arenas /\ arena'[call'[u].page].desc = call'[u].size
    <3>1. CASE u = t
      BY <1>1, <1>5, <2>1, <2>3, <3>1 DEF BlockOf
    <3>2. CASE u # t
      BY <1>1, <2>3, <3>2 DEF OfBlocks, BlocksPlaced
    <3> QED
      BY <3>1, <3>2
  <2>4. ASSUME NEW u \in Threads, pc'[u] = "unlist"
        PROVE  /\ call'[u].page \in Arenas /\ arena'[call'[u].page].desc = call'[u].size
               /\ \A v \in Threads :
                    /\ \A b \in InHand(v)' : b[1] # call'[u].page
                    /\ \A e \in held'[v] : \A b \in Blk(e) : b[1] # call'[u].page
    <3>1. u # t /\ pc[u] = "unlist" /\ call'[u] = call[u]
      BY <1>1, <2>4
    <3>2. \A v \in Threads : \A b \in MineB(v) : b[1] # call[u].page
      BY <3>1, BlocksOfMine DEF OfBlocks
    <3> QED
      BY <1>5, <3>1, <3>2 DEF OfBlocks, BlocksPlaced
  <2>5. ASSUME NEW d \in Descs, NEW b \in ToSet(free_list[d])
        PROVE  b[1] \in Arenas /\ arena'[b[1]].desc = d
    BY DEF OfBlocks, BlocksPlaced
  <2> QED
    BY <1>3, <2>2, <2>3, <2>4, <2>5 DEF OfBlocks, BlocksPlaced
<1>9. Covered'
  <2>1. ASSUME NEW p \in Arenas, NEW i \in Slots PROVE Somewhere(<<p, i>>)'
    <3>1. \/ <<p, i>> \in ToSet(free_list[arena[p].desc])
          \/ \E u \in Threads : <<p, i>> \in MineB(u) \/ <<p, i>> \in Unlinking(u)
      BY DEF OfBlocks, Covered, Somewhere, MineB
    <3>2. \/ <<p, i>> \in ToSet(free_list'[arena'[p].desc])
          \/ \E u \in Threads : <<p, i>> \in MineB(u)' \/ <<p, i>> \in Unlinking(u)'
      BY <1>2, <1>4, <3>1
    <3> QED
      BY <3>2 DEF Somewhere, MineB
  <2> QED
    BY <2>1 DEF Covered
<1>10. Counted'
  <2>1. ASSUME NEW p \in Arenas PROVE Loose(p)' = Loose(p)
    BY <1>2 DEF Loose
  <2> QED
    BY <2>1 DEF OfBlocks, Counted
<1>11. Emptied'
  <2> SUFFICES ASSUME NEW p \in Arenas, ~Out(p)'
               PROVE  \E u \in Threads :
                        /\ call'[u].page = p /\ call'[u].size = arena'[p].desc
                        /\ pc'[u] \in {"take", "unlist"}
                        /\ pc'[u] = "take" => \A b \in ToSet(free_list'[arena'[p].desc]) : b[1] = p
    BY DEF Emptied
  <2>1. ~Out(p) /\ ~\E u \in Threads : \E b \in MineB(u) : b[1] = p
    <3>1. Out(p)' <=> \E u \in Threads : \E b \in MineB(u)' : b[1] = p
      BY DEF Out, MineB
    <3> QED
      BY <1>4, <3>1, OutIs
  <2>2. PICK u \in Threads :
          /\ call[u].page = p /\ call[u].size = arena[p].desc
          /\ pc[u] \in {"take", "unlist"}
          /\ pc[u] = "take" => \A b \in ToSet(free_list[arena[p].desc]) : b[1] = p
    BY <2>1 DEF OfBlocks, Emptied
  <2>3. u # t
    <3> SUFFICES ASSUME u = t PROVE FALSE
      OBVIOUS
    <3>1. pc[t] = "take" /\ free_list[arena[p].desc] = <<>>
      BY <2>2
    <3>2. 0 \in Slots /\ Somewhere(<<p, 0>>)
      BY DEF OfBlocks, Covered, Slots
    <3>3. <<p, 0>> \notin ToSet(free_list[arena[p].desc])
      BY <3>1 DEF ToSet
    <3>4. PICK v \in Threads : <<p, 0>> \in Unlinking(v)
      BY <2>1, <3>2, <3>3 DEF Somewhere, MineB
    <3>5. pc[v] = "unlist" /\ call[v].page = p
      BY <3>4 DEF Unlinking, UnlinkedOf
    <3>6. call[v].size = arena[p].desc
      BY <3>5 DEF OfBlocks, BlocksPlaced
    <3> QED
      BY <2>2, <3>1, <3>5, <3>6, OneHasDesc DEF HasDesc
  <2> QED
    BY <1>1, <2>2, <2>3
<1> QED
  BY <1>7, <1>8, <1>9, <1>10, <1>11 DEF OfBlocks

LEMMA BigPage ==
  ASSUME AllocatorInv, NEW t \in Threads, NEW e \in held[t], e.kind # "block"
  PROVE  e.page \in Pgs(e) /\ e.size \in Nat \ {0} /\ e.page \in Pages /\ e.page \in Nat
<1>1. e.page \in Pages /\ e.size \in PageCnts
  BY DEF AllocatorInv, TypeOK, AnyExtent
<1>a. PageCnts \subseteq Nat \ {0} /\ Pages \subseteq Nat
  BY DEF PageCnts, Pages
<1>2. e.size \in Nat \ {0} /\ e.page \in Nat
  BY <1>1, <1>a
<1> QED
  BY <1>1, <1>2 DEF Pgs, Run

(***************************************************************************)
(* A step in which clients get and give nothing, and no list or arena is   *)
(* changed: at most one page is marked or given back.                      *)
(***************************************************************************)
LEMMA AccountsMove ==
  ASSUME AllocatorInv, AllocatorInv', Accounts, NEW t \in Threads, NEW place, NEW n,
         Steps(t, place, n), UNCHANGED <<held, free_list, arena>>, panicked' = FALSE,
         Sized(place, n), IsClear(place, n, used_map'),
         n.op = "malloc" /\ n.old # None => n.old \in held[t] /\ n.old.kind # "pages",
         HasDesc(place, n) => desc_lock'[n.size] = t,
         NeedsArena(place, n) => free_list[n.size] = <<>>,
         \A u \in Threads \ {t} : HasDesc(pc[u], call[u]) =>
           desc_lock'[call[u].size] = desc_lock[call[u].size],
         pc[t] # "unlist", place # "unlist",
         pc[t] = "take" => free_list[call[t].size] = <<>>,
         BlockOf(place, n) = InHand(t),
         BlockOf(place, n) # {} => n.page = call[t].page /\ n.size = call[t].size,
         \/ used_map' = used_map /\ PagesOf(place, n) = PagesMoving(t)
         \/ \E q : /\ q \notin used_map /\ used_map' = used_map \cup {q} /\ pc[t] = "mark"
                   /\ PagesOf(place, n) = PagesMoving(t) \cup {q}
         \/ \E q \in PagesMoving(t) : /\ used_map' = used_map \ {q}
                                      /\ PagesOf(place, n) = PagesMoving(t) \ {q}
  PROVE  Accounts'
<1>1. /\ PagesMoving(t)' = PagesOf(place, n) /\ InHand(t)' = BlockOf(place, n)
      /\ \A u \in Threads \ {t} : PagesMoving(u)' = PagesMoving(u) /\ InHand(u)' = InHand(u)
  BY Others DEF AllocatorInv
<1>2. Arenas' = Arenas /\ \A e : Pgs(e)' = Pgs(e) /\ Blk(e)' = Blk(e)
  BY DEF Arenas, Pgs, Blk
<1>3. Local'
  <2>1. used_map' \subseteq used_map \/ pc[t] = "mark"
    OBVIOUS
  <2> QED
    BY <2>1, LocalKeeps DEF Accounts
<1>4. PagesApart' /\ PagesMarked'
  <2>1. Mine(t)' = PagesOf(place, n) \cup UNION {Pgs(e) : e \in held[t]}
    BY <1>1, <1>2 DEF Mine
  <2>2. Mine(t) \subseteq used_map /\ Arenas \subseteq used_map /\ Mine(t) \cap Arenas = {}
    BY MineApart DEF Accounts, OfPages
  <2>3. \A e \in held[t] : Pgs(e) \subseteq Mine(t) /\ Pgs(e) \cap PagesMoving(t) = {}
    BY DEF Mine, Accounts, OfPages, PagesApart
  <2>4. \A e, f \in held'[t] : Pgs(e) \cap Pgs(f) # {} => e = f
    BY DEF Accounts, OfPages, PagesApart
  <2>5. PagesMoving(t) \subseteq Mine(t)
    BY DEF Mine
  <2>6. /\ \A e \in held'[t] : Pgs(e) \cap PagesMoving(t)' = {} /\ Arenas' \cap Pgs(e) = {}
        /\ Arenas' \cap PagesMoving(t)' = {}
    BY <1>1, <1>2, <2>2, <2>3, <2>5
  <2>7. \A p \in Arenas' \cup Mine(t)' : p \in Arenas \cup Mine(t) \/ p \notin used_map
    BY <1>2, <2>1, <2>3, <2>5
  <2>8. ASSUME NEW p
        PROVE  p \in used_map' <=>
                 p \in Arenas' \cup Mine(t)' \/ (p \in used_map /\ p \notin Arenas \cup Mine(t))
    <3>1. p \in Mine(t) <=> p \in PagesMoving(t) \/ \E e \in held[t] : p \in Pgs(e)
      BY DEF Mine
    <3>2. p \in Mine(t)' <=> p \in PagesOf(place, n) \/ \E e \in held[t] : p \in Pgs(e)
      BY <2>1
    <3> QED
      BY <1>2, <2>2, <2>3, <3>1, <3>2
  <2>9. \A u \in Threads \ {t} : held'[u] = held[u] /\ PagesMoving(u)' = PagesMoving(u)
    BY <1>1
  <2> QED
    BY <2>4, <2>6, <2>7, <2>8, <2>9, PagesKeep DEF Accounts, OfPages
<1>5. Bigs'
  BY DEF Accounts, OfPages, Bigs
<1>6. OfBlocks'
  <2>1. MineB(t)' = MineB(t)
    BY <1>1, <1>2 DEF MineB
  <2>2. \A e, f \in held'[t] : Blk(e) \cap Blk(f) # {} => e = f
    BY DEF Accounts, OfBlocks, BlocksApart
  <2>3. \A e \in held'[t] : Blk(e) \cap BlockOf(place, n) = {}
    BY DEF Accounts, OfBlocks, BlocksApart
  <2>4. BlockOf(place, n) # {} => arena[n.page].desc = n.size
    BY DEF Accounts, OfBlocks, BlocksPlaced
  <2>5. DescLocked /\ OfBlocks
    BY DEF Accounts, Local
  <2> QED
    BY <1>2, <2>1, <2>2, <2>3, <2>4, <2>5, BlocksKeep
<1> QED
  BY <1>3, <1>4, <1>5, <1>6 DEF Accounts, OfPages

-----------------------------------------------------------------------------
(* The steps that keep the accounts as they are, or move one page. *)

(* What AccountsMove asks of a step that takes nothing away from others. *)
LEMMA Quiet ==
  ASSUME AllocatorInv, Accounts, NEW t \in Threads
  PROVE  /\ panicked = FALSE /\ call[t] \in Calls /\ Ready(pc[t], call[t])
         /\ Sized(pc[t], call[t]) /\ IsClear(pc[t], call[t], used_map)
         /\ HasDesc(pc[t], call[t]) => desc_lock[call[t].size] = t
         /\ NeedsArena(pc[t], call[t]) => free_list[call[t].size] = <<>>
         /\ PagesMoving(t) = PagesOf(pc[t], call[t]) /\ InHand(t) = BlockOf(pc[t], call[t])
         /\ call[t].op = "malloc" /\ call[t].old # None =>
              call[t].old \in held[t] /\ call[t].old.kind # "pages"
BY Views DEF AllocatorInv, TypeOK, AllReady, Accounts, Local, AllSized, Clear, DescLocked, Olds,
   InHand

(* A run grows and shrinks by a page at a time. *)
LEMMA RunByPage ==
  ASSUME NEW a \in Nat, NEW b \in Nat, NEW m \in Int
  PROVE  /\ a..(a + b + 1 - 1) = a..(a + b - 1) \cup {a + b}
         /\ (a + b + 1)..m = ((a + b)..m) \ {a + b}
<1>1. \A x : x \in a..(a + b + 1 - 1) <=> x \in a..(a + b - 1) \cup {a + b}
  OBVIOUS
<1>2. \A x : x \in (a + b + 1)..m <=> x \in ((a + b)..m) \ {a + b}
  OBVIOUS
<1> QED
  BY <1>1, <1>2

LEMMA AcquirePoolAccounts ==
  ASSUME AllocatorInv, AllocatorInv', Accounts, NEW t \in Threads, AcquirePool(t)
  PROVE  Accounts'
<1> DEFINE c == call[t]
           n == [call[t] EXCEPT !.page = 0, !.bit = 0]
<1>1. /\ panicked = FALSE /\ c \in Calls /\ Ready("pool_lock", c) /\ Sized("pool_lock", c)
      /\ HasDesc("pool_lock", c) => desc_lock[c.size] = t
      /\ NeedsArena("pool_lock", c) => free_list[c.size] = <<>>
      /\ PagesMoving(t) = PagesOf("pool_lock", c) /\ InHand(t) = BlockOf("pool_lock", c)
      /\ c.op = "malloc" /\ c.old # None => c.old \in held[t] /\ c.old.kind # "pages"
      /\ pc[t] = "pool_lock"
  BY Quiet DEF AcquirePool, At
<1>2. n.page = 0 /\ n.bit = 0 /\ n.cnt = c.cnt /\ n.op = c.op /\ n.kind = c.kind
        /\ n.size = c.size /\ n.slot = c.slot /\ n.old = c.old
  BY <1>1 DEF Calls
<1>3. Steps(t, "scan", n)
  BY DEF Steps, AcquirePool, Goto, Set
<1> HIDE DEF n
<1>4. Sized("scan", n) /\ IsClear("scan", n, used_map)
  <2>1. \A p \in used_map : p \in Nat
    BY DEF AllocatorInv, TypeOK
  <2>2. IsClear("scan", n, used_map)
    BY <1>2, <2>1 DEF IsClear
  <2> QED
    BY <1>1, <1>2, <2>2 DEF Sized
<1>5. PagesOf("scan", n) = PagesMoving(t) /\ BlockOf("scan", n) = InHand(t) /\ InHand(t) = {}
  BY <1>1 DEF PagesOf, BlockOf
<1>6. /\ HasDesc("scan", n) => desc_lock[n.size] = t
      /\ NeedsArena("scan", n) => free_list[n.size] = <<>>
  BY <1>1, <1>2 DEF HasDesc, NeedsArena, Scanning
<1>7. UNCHANGED <<held, free_list, arena, used_map, desc_lock>> /\ panicked' = FALSE
  BY <1>1 DEF AcquirePool, descs, contents
<1> QED
  BY <1>1, <1>2, <1>3, <1>4, <1>5, <1>6, <1>7, AccountsMove

LEMMA ScanAccounts ==
  ASSUME AllocatorInv, AllocatorInv', Accounts, NEW t \in Threads, Scan(t)
  PROVE  Accounts'
<1> DEFINE c == call[t]
<1>1. /\ panicked = FALSE /\ c \in Calls /\ Ready("scan", c) /\ Sized("scan", c)
      /\ IsClear("scan", c, used_map)
      /\ HasDesc("scan", c) => desc_lock[c.size] = t
      /\ NeedsArena("scan", c) => free_list[c.size] = <<>>
      /\ PagesMoving(t) = PagesOf("scan", c) /\ InHand(t) = BlockOf("scan", c)
      /\ c.op = "malloc" /\ c.old # None => c.old \in held[t] /\ c.old.kind # "pages"
      /\ pc[t] = "scan"
  BY Quiet DEF Scan, At
<1>2. c.cnt \in Nat \ {0} /\ c.page \in Nat /\ c.bit \in 0..(c.cnt - 1) /\ c.op = "malloc"
  BY <1>1 DEF Ready, Scanning
<1>3. ASSUME NEW place \in {"scan", "mark", "pool_release"}, NEW n,
             Steps(t, place, n), n.cnt = c.cnt, n.op = c.op, n.kind = c.kind,
             n.size = c.size, n.slot = c.slot, n.old = c.old, n.page \in Nat \cup {None},
             place = "mark" => n.bit = 0, place = "pool_release" => n.page = None,
             IsClear(place, n, used_map)
      PROVE  Accounts'
  <2>1. Sized(place, n)
    BY <1>1, <1>3 DEF Sized
  <2>2. PagesOf(place, n) = PagesMoving(t) /\ BlockOf(place, n) = InHand(t) /\ InHand(t) = {}
    <3>1. PagesOf("scan", c) = {} /\ BlockOf("scan", c) = {} /\ BlockOf(place, n) = {}
      BY DEF PagesOf, BlockOf
    <3>2. PagesOf(place, n) = {}
      BY <1>3 DEF PagesOf
    <3> QED
      BY <1>1, <3>1, <3>2
  <2>3. /\ HasDesc(place, n) => desc_lock[n.size] = t
        /\ NeedsArena(place, n) => free_list[n.size] = <<>>
    BY <1>1, <1>3 DEF HasDesc, NeedsArena, Scanning
  <2>4. UNCHANGED <<held, free_list, arena, used_map, desc_lock>> /\ panicked' = FALSE
    BY <1>1 DEF Scan, pool, descs, contents
  <2> QED
    BY <1>1, <1>3, <2>1, <2>2, <2>3, <2>4, AccountsMove
<1>4. CASE PastLast(c.page, c.cnt)
  <2> DEFINE n == [c EXCEPT !.page = None]
  <2>1. n.page = None /\ n.cnt = c.cnt /\ n.op = c.op /\ n.kind = c.kind
          /\ n.size = c.size /\ n.slot = c.slot /\ n.old = c.old
    BY <1>1 DEF Calls
  <2>2. Steps(t, "pool_release", n) /\ IsClear("pool_release", n, used_map)
    BY <1>4 DEF Scan, Set, Goto, Steps, IsClear
  <2> QED
    BY <1>3, <2>1, <2>2
<1>5. CASE ~PastLast(c.page, c.cnt) /\ c.page + c.bit \in used_map
  <2> DEFINE n == [c EXCEPT !.page = @ + 1, !.bit = 0]
  <2>1. n.page = c.page + 1 /\ n.bit = 0 /\ n.cnt = c.cnt /\ n.op = c.op
          /\ n.kind = c.kind /\ n.size = c.size /\ n.slot = c.slot /\ n.old = c.old
    BY <1>1 DEF Calls
  <2>2. Steps(t, "scan", n)
    BY <1>1, <1>5 DEF Scan, Set, Steps, AllocatorInv, TypeOK
  <2> HIDE DEF n
  <2>3. \A p \in used_map : p \in Nat
    BY DEF AllocatorInv, TypeOK
  <2>4. n.page \in Nat
    BY <1>2, <2>1
  <2>5. IsClear("scan", n, used_map)
    BY <2>1, <2>3, <2>4 DEF IsClear
  <2> QED
    BY <1>3, <2>1, <2>2, <2>4, <2>5
<1>6. CASE ~PastLast(c.page, c.cnt) /\ c.page + c.bit \notin used_map /\ c.bit + 1 < c.cnt
  <2> DEFINE n == [c EXCEPT !.bit = @ + 1]
  <2>1. n.page = c.page /\ n.bit = c.bit + 1 /\ n.cnt = c.cnt /\ n.op = c.op
          /\ n.kind = c.kind /\ n.size = c.size /\ n.slot = c.slot /\ n.old = c.old
    BY <1>1 DEF Calls
  <2>2. Steps(t, "scan", n)
    BY <1>1, <1>6 DEF Scan, Set, Steps, AllocatorInv, TypeOK
  <2> HIDE DEF n
  <2>3. \A p \in used_map : p \in Nat
    BY DEF AllocatorInv, TypeOK
  <2>4. IsClear("scan", n, used_map)
    BY <1>1, <1>2, <1>6, <2>1, <2>3 DEF IsClear
  <2> QED
    BY <1>2, <1>3, <2>1, <2>2, <2>4
<1>7. CASE ~PastLast(c.page, c.cnt) /\ c.page + c.bit \notin used_map /\ ~(c.bit + 1 < c.cnt)
  <2> DEFINE n == [c EXCEPT !.bit = 0]
  <2>1. n.page = c.page /\ n.bit = 0 /\ n.cnt = c.cnt /\ n.op = c.op
          /\ n.kind = c.kind /\ n.size = c.size /\ n.slot = c.slot /\ n.old = c.old
    BY <1>1 DEF Calls
  <2>2. Steps(t, "mark", n)
    BY <1>7 DEF Scan, Set, Goto, Steps
  <2> HIDE DEF n
  <2>3. \A p \in used_map : p \in Nat
    BY DEF AllocatorInv, TypeOK
  <2>4. IsClear("mark", n, used_map)
    BY <1>1, <1>2, <1>7, <2>1, <2>3 DEF IsClear
  <2> QED
    BY <1>2, <1>3, <2>1, <2>2, <2>4
<1> QED
  BY <1>4, <1>5, <1>6, <1>7

LEMMA MarkAccounts ==
  ASSUME AllocatorInv, AllocatorInv', Accounts, NEW t \in Threads, Mark(t)
  PROVE  Accounts'
<1> DEFINE c == call[t]
           q == c.page + c.bit
           last == ~(c.bit + 1 < c.cnt)
           place == IF last THEN "pool_release" ELSE "mark"
           n == IF last THEN c ELSE [c EXCEPT !.bit = @ + 1]
<1>1. /\ panicked = FALSE /\ c \in Calls /\ Ready("mark", c) /\ Sized("mark", c)
      /\ IsClear("mark", c, used_map)
      /\ HasDesc("mark", c) => desc_lock[c.size] = t
      /\ NeedsArena("mark", c) => free_list[c.size] = <<>>
      /\ PagesMoving(t) = PagesOf("mark", c) /\ InHand(t) = BlockOf("mark", c)
      /\ c.op = "malloc" /\ c.old # None => c.old \in held[t] /\ c.old.kind # "pages"
      /\ pc[t] = "mark"
  BY Quiet DEF Mark, At
<1>2. c.cnt \in Nat \ {0} /\ c.page \in Nat /\ c.bit \in 0..(c.cnt - 1) /\ c.op = "malloc"
        /\ c.page + c.cnt <= PageCnt /\ c.page # None
  BY <1>1 DEF Ready, Scanning
<1>3. n.page = c.page /\ n.cnt = c.cnt /\ n.op = c.op /\ n.kind = c.kind
        /\ n.size = c.size /\ n.slot = c.slot /\ n.old = c.old
        /\ n.bit = (IF last THEN c.bit ELSE c.bit + 1)
  BY <1>1 DEF Calls
<1>4. Steps(t, place, n)
  <2>1. CASE last
    BY <2>1 DEF Mark, Goto, Steps, AllocatorInv, TypeOK
  <2>2. CASE ~last
    BY <1>1, <2>2 DEF Mark, Set, Steps, AllocatorInv, TypeOK
  <2> QED
    BY <2>1, <2>2
<1>5. UNCHANGED <<held, free_list, arena, desc_lock>> /\ panicked' = FALSE
      /\ used_map' = used_map \cup {q}
  BY <1>1 DEF Mark, descs, contents
<1> HIDE DEF n
<1>6. Sized(place, n)
  BY <1>1, <1>2, <1>3 DEF Sized
<1>7. \A p \in used_map : p \in Nat
  BY DEF AllocatorInv, TypeOK
<1>8. IsClear(place, n, used_map') /\ q \notin used_map
  <2>1. q \notin used_map
    BY <1>1, <1>2 DEF IsClear
  <2>2. IsClear(place, n, used_map')
    BY <1>1, <1>2, <1>3, <1>5, <1>7 DEF IsClear
  <2> QED
    BY <2>1, <2>2
<1>9. PagesOf(place, n) = PagesMoving(t) \cup {q}
  <2>1. PagesMoving(t) = c.page..(c.page + c.bit - 1)
    BY <1>1, <1>2 DEF PagesOf
  <2>a. c.page..(c.page + c.bit + 1 - 1) = c.page..(c.page + c.bit - 1) \cup {c.page + c.bit}
    <3>1. c.page \in Nat /\ c.bit \in Nat
      BY <1>2
    <3> QED
      BY <3>1, RunByPage
  <2>2. CASE last
    <3>1. PagesOf(place, n) = c.page..(c.page + c.cnt - 1)
      BY <1>2, <1>3, <2>2 DEF PagesOf, Run
    <3>2. c.cnt = c.bit + 1
      BY <1>2, <2>2
    <3>3. c.page..(c.page + c.cnt - 1) = c.page..(c.page + c.bit + 1 - 1)
      BY <1>2, <3>2
    <3> QED
      BY <2>1, <2>a, <3>1, <3>3
  <2>3. CASE ~last
    <3>1. PagesOf(place, n) = c.page..(c.page + c.bit + 1 - 1)
      BY <1>2, <1>3, <2>3 DEF PagesOf
    <3> QED
      BY <2>1, <2>a, <3>1
  <2> QED
    BY <2>2, <2>3
<1>10. BlockOf(place, n) = InHand(t) /\ InHand(t) = {}
  BY <1>1 DEF BlockOf
<1>11. /\ HasDesc(place, n) => desc_lock[n.size] = t
       /\ NeedsArena(place, n) => free_list[n.size] = <<>>
  BY <1>1, <1>3 DEF HasDesc, NeedsArena, Scanning
<1>12. place # "unlist" /\ pc[t] # "unlist" /\ pc[t] # "take"
  BY <1>1
<1> HIDE DEF q, place
<1> QED
  BY <1>1, <1>3, <1>4, <1>5, <1>6, <1>8, <1>9, <1>10, <1>11, <1>12, AccountsMove

LEMMA ReleasePoolAccounts ==
  ASSUME AllocatorInv, AllocatorInv', Accounts, NEW t \in Threads, ReleasePool(t)
  PROVE  Accounts'
<1> DEFINE c == call[t]
           place == IF c.kind = "block" THEN "new_arena" ELSE "return"
<1>1. /\ panicked = FALSE /\ c \in Calls /\ Ready("pool_release", c) /\ Sized("pool_release", c)
      /\ HasDesc("pool_release", c) => desc_lock[c.size] = t
      /\ NeedsArena("pool_release", c) => free_list[c.size] = <<>>
      /\ PagesMoving(t) = PagesOf("pool_release", c) /\ InHand(t) = BlockOf("pool_release", c)
      /\ c.op = "malloc" /\ c.old # None => c.old \in held[t] /\ c.old.kind # "pages"
      /\ pc[t] = "pool_release"
  BY Quiet DEF ReleasePool, At
<1>2. Steps(t, place, c)
  BY DEF ReleasePool, Goto, Steps, AllocatorInv, TypeOK
<1>3. Sized(place, c) /\ IsClear(place, c, used_map)
  BY <1>1 DEF Sized, IsClear
<1>4. PagesOf(place, c) = PagesMoving(t) /\ BlockOf(place, c) = InHand(t) /\ InHand(t) = {}
  BY <1>1 DEF PagesOf, BlockOf
<1>5. /\ HasDesc(place, c) => desc_lock[c.size] = t
      /\ NeedsArena(place, c) => free_list[c.size] = <<>>
  BY <1>1 DEF HasDesc, NeedsArena, Scanning
<1>6. UNCHANGED <<held, free_list, arena, used_map, desc_lock>> /\ panicked' = FALSE
  BY <1>1 DEF ReleasePool, descs, contents
<1>7. place # "unlist"
  OBVIOUS
<1> HIDE DEF place
<1> QED
  BY <1>1, <1>2, <1>3, <1>4, <1>5, <1>6, <1>7, AccountsMove

LEMMA ResetAccounts ==
  ASSUME AllocatorInv, AllocatorInv', Accounts, NEW t \in Threads, Reset(t)
  PROVE  Accounts'
<1> DEFINE c == call[t]
           q == c.page + c.bit
<1>1. /\ panicked = FALSE /\ c \in Calls /\ Ready("reset", c) /\ Sized("reset", c)
      /\ HasDesc("reset", c) => desc_lock[c.size] = t
      /\ PagesMoving(t) = PagesOf("reset", c) /\ InHand(t) = BlockOf("reset", c)
      /\ pc[t] = "reset"
  BY Quiet DEF Reset, At
<1>2. c.op = "free" /\ c.cnt \in Nat /\ c.bit \in Nat /\ c.bit < c.cnt /\ c.page \in Nat
      /\ c.page # None /\ c.page + c.cnt <= PageCnt /\ c.page \in Pages /\ c.cnt \in Nat \ {0}
  BY <1>1 DEF Ready, Sized, Calls, Pages
<1>3. UNCHANGED <<held, free_list, arena, desc_lock>> /\ panicked' = FALSE
      /\ used_map' = used_map \ {q}
  BY <1>1 DEF Reset, descs, contents
<1>4. PagesMoving(t) = q..(c.page + c.cnt - 1) /\ InHand(t) = {}
  BY <1>1, <1>2 DEF PagesOf, BlockOf
<1>5. q \in PagesMoving(t)
  BY <1>2, <1>4
<1>6. ASSUME NEW place \in {"reset", "desc_release", "user"}, NEW n, Steps(t, place, n),
             n.op # "malloc", Sized(place, n), BlockOf(place, n) = {},
             PagesOf(place, n) = PagesMoving(t) \ {q},
             HasDesc(place, n) => desc_lock[n.size] = t
      PROVE  Accounts'
  <2>1. IsClear(place, n, used_map') /\ ~NeedsArena(place, n)
    BY DEF IsClear, NeedsArena, Scanning
  <2> QED
    BY <1>1, <1>3, <1>4, <1>5, <1>6, <2>1, AccountsMove
<1>7. CASE c.bit + 1 < c.cnt
  <2> DEFINE n == [c EXCEPT !.bit = @ + 1]
  <2>1. n.page = c.page /\ n.bit = c.bit + 1 /\ n.cnt = c.cnt /\ n.op = c.op
          /\ n.kind = c.kind /\ n.size = c.size /\ n.slot = c.slot /\ n.old = c.old
    BY <1>1 DEF Calls
  <2>2. Steps(t, "reset", n)
    BY <1>1, <1>7 DEF Reset, Set, Steps, AllocatorInv, TypeOK
  <2> HIDE DEF n
  <2>3. Sized("reset", n)
    BY <1>1, <1>2, <1>7, <2>1 DEF Sized
  <2>4. PagesOf("reset", n) = (c.page + c.bit + 1)..(c.page + c.cnt - 1)
    BY <1>2, <2>1 DEF PagesOf
  <2>5. (c.page + c.bit + 1)..(c.page + c.cnt - 1) = PagesMoving(t) \ {q}
    BY <1>2, <1>4, RunByPage
  <2>6. BlockOf("reset", n) = {}
    BY DEF BlockOf
  <2>7. HasDesc("reset", n) => desc_lock[n.size] = t
    BY <1>1, <2>1 DEF HasDesc
  <2> QED
    BY <1>2, <1>6, <2>1, <2>2, <2>3, <2>4, <2>5, <2>6, <2>7
<1>8. CASE ~(c.bit + 1 < c.cnt)
  <2>1. PagesMoving(t) \ {q} = {}
    BY <1>2, <1>4, <1>8, SMTT(30)
  <2>2. CASE c.kind = "block"
    <3>1. Steps(t, "desc_release", c)
      BY <1>8, <2>2 DEF Reset, Goto, Steps, AllocatorInv, TypeOK
    <3>2. Sized("desc_release", c)
      BY <1>1 DEF Sized
    <3>3. BlockOf("desc_release", c) = {} /\ PagesOf("desc_release", c) = {}
      BY <1>2 DEF BlockOf, PagesOf
    <3>4. desc_lock[c.size] = t
      BY <1>1, <2>2 DEF HasDesc
    <3> QED
      BY <1>2, <1>6, <2>1, <3>1, <3>2, <3>3, <3>4
  <2>3. CASE c.kind # "block"
    <3>1. Steps(t, "user", NoCall)
      BY <1>8, <2>3 DEF Reset, Goto, Set, End, Steps
    <3>2. Sized("user", NoCall) /\ NoCall.op # "malloc" /\ ~HasDesc("user", NoCall)
      BY DEF Sized, NoCall, HasDesc, Scanning
    <3>3. BlockOf("user", NoCall) = {} /\ PagesOf("user", NoCall) = {}
      BY DEF BlockOf, PagesOf, NoCall
    <3> QED
      BY <1>6, <2>1, <3>1, <3>2, <3>3
  <2> QED
    BY <2>2, <2>3
<1> QED
  BY <1>7, <1>8

LEMMA MallocAccounts ==
  ASSUME AllocatorInv, AllocatorInv', Accounts, NEW t \in Threads,
         NEW kind, NEW size, NEW old \in held[t] \cup {None}, Malloc(t, kind, size, old)
  PROVE  Accounts'
<1> DEFINE n == Request(kind, size, old)
           place == IF kind = "block" THEN "desc_lock" ELSE "pool_lock"
<1>1. /\ panicked = FALSE /\ call[t] \in Calls
      /\ PagesMoving(t) = PagesOf("user", call[t]) /\ InHand(t) = BlockOf("user", call[t])
      /\ pc[t] = "user"
  BY Quiet DEF Malloc, At
<1>2. Steps(t, place, n)
  BY DEF Malloc, Steps, Set, Goto
<1>3. n.op = "malloc" /\ n.page = None /\ n.kind = kind /\ n.size = size /\ n.old = old
        /\ n.cnt = (IF kind = "block" THEN 1 ELSE size)
  BY DEF Request
<1>4. old # None => old \in held[t] /\ old.kind # "pages"
  BY DEF Malloc
<1> HIDE DEF n
<1>5. Sized(place, n) /\ IsClear(place, n, used_map)
  BY <1>3 DEF Sized, IsClear
<1>6. PagesOf(place, n) = PagesMoving(t) /\ BlockOf(place, n) = InHand(t) /\ InHand(t) = {}
  BY <1>1, <1>3 DEF PagesOf, BlockOf
<1>7. ~HasDesc(place, n) /\ ~NeedsArena(place, n)
  BY <1>3 DEF HasDesc, NeedsArena, Scanning
<1>8. UNCHANGED <<held, free_list, arena, used_map, desc_lock>> /\ panicked' = FALSE
  BY <1>1 DEF Malloc, pool, descs, contents
<1>9. place # "unlist"
  OBVIOUS
<1> HIDE DEF place
<1> QED
  BY <1>1, <1>2, <1>3, <1>4, <1>5, <1>6, <1>7, <1>8, <1>9, AccountsMove

(* A thread that has a descriptor's lock, or looks for its arena, has one. *)
LEMMA DescKnown ==
  ASSUME AllocatorInv, NEW t \in Threads, HasDesc(pc[t], call[t])
  PROVE  call[t].size \in Descs /\ call[t].kind = "block"
<1>1. Ready(pc[t], call[t])
  BY DEF AllocatorInv, AllReady
<1> QED
  BY <1>1 DEF HasDesc, Ready, OfBlock, Scanning

LEMMA AcquireDescAccounts ==
  ASSUME AllocatorInv, AllocatorInv', Accounts, NEW t \in Threads, AcquireDesc(t)
  PROVE  Accounts'
<1> DEFINE c == call[t]
           place == IF c.op = "free" THEN "put" ELSE "take"
<1>1. /\ panicked = FALSE /\ c \in Calls /\ Ready("desc_lock", c) /\ Sized("desc_lock", c)
      /\ PagesMoving(t) = PagesOf("desc_lock", c) /\ InHand(t) = BlockOf("desc_lock", c)
      /\ c.op = "malloc" /\ c.old # None => c.old \in held[t] /\ c.old.kind # "pages"
      /\ pc[t] = "desc_lock"
  BY Quiet DEF AcquireDesc, At
<1>2. c.kind = "block" /\ c.size \in Descs /\ c.op \in {"malloc", "free"}
  BY <1>1 DEF Ready, OfBlock, Calls
<1>3. Steps(t, place, c)
  BY DEF AcquireDesc, Goto, Steps, AllocatorInv, TypeOK
<1>4. Sized(place, c) /\ IsClear(place, c, used_map)
  BY <1>1, <1>2 DEF Sized, IsClear
<1>5. PagesOf(place, c) = PagesMoving(t) /\ BlockOf(place, c) = InHand(t)
  BY <1>1, <1>2 DEF PagesOf, BlockOf, Sized
<1>6. ~NeedsArena(place, c)
  BY DEF NeedsArena, Scanning
<1>7. UNCHANGED <<held, free_list, arena, used_map>> /\ panicked' = FALSE
  BY <1>1 DEF AcquireDesc, pool, contents
<1>8. desc_lock'[c.size] = t /\ desc_lock[c.size] = NoOne
      /\ \A d \in Descs : d # c.size => desc_lock'[d] = desc_lock[d]
  BY <1>2 DEF AcquireDesc, AllocatorInv, TypeOK
<1>9. \A u \in Threads \ {t} : HasDesc(pc[u], call[u]) =>
        desc_lock'[call[u].size] = desc_lock[call[u].size]
  BY <1>8, DescKnown DEF Accounts, Local, DescLocked
<1>10. place # "unlist"
  OBVIOUS
<1> HIDE DEF place
<1> QED
  BY <1>1, <1>3, <1>4, <1>5, <1>6, <1>7, <1>8, <1>9, <1>10, AccountsMove

LEMMA NeedArenaAccounts ==
  ASSUME AllocatorInv, AllocatorInv', Accounts, NEW t \in Threads, NeedArena(t)
  PROVE  Accounts'
<1> DEFINE c == call[t]
<1>1. /\ panicked = FALSE /\ c \in Calls /\ Ready("take", c) /\ Sized("take", c)
      /\ HasDesc("take", c) => desc_lock[c.size] = t
      /\ PagesMoving(t) = PagesOf("take", c) /\ InHand(t) = BlockOf("take", c)
      /\ c.op = "malloc" /\ c.old # None => c.old \in held[t] /\ c.old.kind # "pages"
      /\ pc[t] = "take"
  BY Quiet DEF NeedArena, At
<1>2. desc_lock[c.size] = t /\ free_list[c.size] = <<>>
  BY <1>1 DEF HasDesc, NeedArena
<1>3. Steps(t, "pool_lock", c)
  BY DEF NeedArena, Goto, Steps, AllocatorInv, TypeOK
<1>4. Sized("pool_lock", c) /\ IsClear("pool_lock", c, used_map)
  BY <1>1 DEF Sized, IsClear
<1>5. PagesOf("pool_lock", c) = PagesMoving(t) /\ BlockOf("pool_lock", c) = InHand(t)
      /\ InHand(t) = {}
  BY <1>1 DEF PagesOf, BlockOf
<1>6. UNCHANGED <<held, free_list, arena, used_map, desc_lock>> /\ panicked' = FALSE
  BY <1>1 DEF NeedArena, pool, descs, contents
<1> QED
  BY <1>1, <1>2, <1>3, <1>4, <1>5, <1>6, AccountsMove

LEMMA ReleaseDescAccounts ==
  ASSUME AllocatorInv, AllocatorInv', Accounts, NEW t \in Threads, ReleaseDesc(t)
  PROVE  Accounts'
<1> DEFINE c == call[t]
           n == IF c.op = "free" THEN NoCall ELSE c
           place == IF c.op = "free" THEN "user" ELSE "return"
<1>1. /\ panicked = FALSE /\ c \in Calls /\ Ready("desc_release", c) /\ Sized("desc_release", c)
      /\ PagesMoving(t) = PagesOf("desc_release", c) /\ InHand(t) = BlockOf("desc_release", c)
      /\ c.op = "malloc" /\ c.old # None => c.old \in held[t] /\ c.old.kind # "pages"
      /\ pc[t] = "desc_release"
  BY Quiet DEF ReleaseDesc, At
<1>2. c.kind = "block" /\ c.size \in Descs /\ c.op \in {"malloc", "free"}
      /\ (c.op # "free" => c.page \in Pages \cup {None})
  BY <1>1 DEF Ready, OfBlock, Calls
<1>3. Steps(t, place, n)
  BY DEF ReleaseDesc, End, Set, Goto, Steps, AllocatorInv, TypeOK
<1>4. NoCall.op = "none" /\ NoCall.page = None
  BY DEF NoCall
<1>5. Sized(place, n) /\ IsClear(place, n, used_map)
  <2>1. \A p \in Pages : p + 1 <= PageCnt
    BY DEF Pages
  <2> QED
    BY <1>1, <1>2, <1>4, <2>1 DEF Sized, IsClear
<1>6. PagesOf(place, n) = PagesMoving(t) /\ BlockOf(place, n) = InHand(t)
      /\ (BlockOf(place, n) # {} => n = c)
  BY <1>1, <1>2, <1>4 DEF PagesOf, BlockOf
<1>7. ~NeedsArena(place, n) /\ ~HasDesc(place, n)
  BY DEF NeedsArena, HasDesc, Scanning
<1>8. UNCHANGED <<held, free_list, arena, used_map>> /\ panicked' = FALSE
  BY <1>1 DEF ReleaseDesc, pool, contents
<1>9. \A d \in Descs : d # c.size => desc_lock'[d] = desc_lock[d]
  BY <1>2 DEF ReleaseDesc, AllocatorInv, TypeOK
<1>10. ASSUME NEW u \in Threads \ {t}, HasDesc(pc[u], call[u])
       PROVE  desc_lock'[call[u].size] = desc_lock[call[u].size]
  <2>1. HasDesc(pc[t], call[t])
    BY <1>1 DEF HasDesc
  <2>2. call[u].size # c.size
    BY <1>10, <2>1, OneHasDesc DEF Accounts, Local
  <2> QED
    BY <1>9, <1>10, <2>2, DescKnown
<1>11. place # "unlist" /\ pc[t] # "unlist" /\ pc[t] # "take"
  BY <1>1
<1>12. n.op = "malloc" /\ n.old # None => n.old \in held[t] /\ n.old.kind # "pages"
  BY <1>1, <1>4
<1> HIDE DEF place, n
<1> QED
  BY <1>3, <1>5, <1>6, <1>7, <1>8, <1>10, <1>11, <1>12, AccountsMove

LEMMA RefusedAccounts ==
  ASSUME AllocatorInv, AllocatorInv', Accounts, NEW t \in Threads, Return(t),
         call[t].page = None
  PROVE  Accounts'
<1>1. /\ panicked = FALSE
      /\ PagesMoving(t) = PagesOf("return", call[t]) /\ InHand(t) = BlockOf("return", call[t])
      /\ pc[t] = "return"
  BY Quiet DEF Return, At
<1>2. Steps(t, "user", NoCall)
  BY DEF Return, End, Set, Goto, Steps
<1>3. NoCall.op = "none" /\ NoCall.page = None
  BY DEF NoCall
<1>4. Sized("user", NoCall) /\ IsClear("user", NoCall, used_map)
  BY <1>3 DEF Sized, IsClear
<1>5. PagesOf("user", NoCall) = PagesMoving(t) /\ BlockOf("user", NoCall) = InHand(t)
      /\ InHand(t) = {}
  BY <1>1, <1>3 DEF PagesOf, BlockOf
<1>6. ~HasDesc("user", NoCall) /\ ~NeedsArena("user", NoCall)
  BY DEF HasDesc, NeedsArena, Scanning
<1>7. UNCHANGED <<held, free_list, arena, used_map, desc_lock>> /\ panicked' = FALSE
  BY <1>1 DEF Return, pool, descs
<1> QED
  BY <1>1, <1>2, <1>3, <1>4, <1>5, <1>6, <1>7, AccountsMove

LEMMA NoArenaAccounts ==
  ASSUME AllocatorInv, AllocatorInv', Accounts, NEW t \in Threads, NewArena(t),
         call[t].page = None
  PROVE  Accounts'
<1> DEFINE c == call[t]
<1>1. /\ panicked = FALSE /\ c \in Calls /\ Sized("new_arena", c)
      /\ HasDesc("new_arena", c) => desc_lock[c.size] = t
      /\ PagesMoving(t) = PagesOf("new_arena", c) /\ InHand(t) = BlockOf("new_arena", c)
      /\ c.op = "malloc" /\ c.old # None => c.old \in held[t] /\ c.old.kind # "pages"
      /\ pc[t] = "new_arena"
  BY Quiet DEF NewArena, At
<1>2. Steps(t, "desc_release", c)
  BY DEF NewArena, Goto, Steps, AllocatorInv, TypeOK
<1>3. Sized("desc_release", c) /\ IsClear("desc_release", c, used_map)
  BY <1>1 DEF Sized, IsClear
<1>4. PagesOf("desc_release", c) = PagesMoving(t) /\ BlockOf("desc_release", c) = InHand(t)
      /\ InHand(t) = {}
  BY <1>1 DEF PagesOf, BlockOf
<1>5. desc_lock[c.size] = t /\ ~NeedsArena("desc_release", c)
  BY <1>1 DEF HasDesc, NeedsArena, Scanning
<1>6. UNCHANGED <<held, free_list, arena, used_map, desc_lock>> /\ panicked' = FALSE
  BY <1>1 DEF NewArena, pool, contents
<1> QED
  BY <1>1, <1>2, <1>3, <1>4, <1>5, <1>6, AccountsMove

-----------------------------------------------------------------------------
(***************************************************************************)
(* Steps of a thread that has the lock of descriptor d, which concern one  *)
(* page p: what is elsewhere stays as it is, so a step has only to account *)
(* for the blocks of p.                                                    *)
(***************************************************************************)
Nobodys(b, t) == /\ \A u \in Threads \ {t} : b \notin InHand(u)
                 /\ \A u \in Threads : \A e \in held[u] : b \notin Blk(e)
NoneOut(p, t) == /\ \A u \in Threads \ {t} : \A b \in InHand(u) : b[1] # p
                 /\ \A u \in Threads : \A e \in held[u] : \A b \in Blk(e) : b[1] # p
Emptying(p) ==
  \E t \in Threads : /\ call[t].page = p /\ call[t].size = arena[p].desc
                     /\ pc[t] \in {"take", "unlist"}
                     /\ pc[t] = "take" => \A b \in ToSet(free_list[arena[p].desc]) : b[1] = p

LEMMA ListStep ==
  ASSUME AllocatorInv, DescLocked, OfBlocks, NEW t \in Threads, NEW place, NEW n,
         Steps(t, place, n), NEW p, NEW d \in Descs, HasDesc(pc[t], call[t]),
         call[t].size = d, n.size = d, held' = held,
         \A x \in Descs \ {d} : free_list'[x] = free_list[x], IsInjective(free_list'[d]),
         \A b : b[1] # p => (b \in ToSet(free_list'[d]) <=> b \in ToSet(free_list[d])),
         \A b \in InHand(t) \cup Unlinking(t) \cup BlockOf(place, n) \cup UnlinkedOf(place, n) :
           b[1] = p,
         \A q \in Arenas : q # p => q \in Arenas' /\ arena'[q] = arena[q],
         \A q \in Arenas' : q # p => q \in Arenas,
         p \in Arenas => arena[p].desc = d, p \in Arenas' => arena'[p].desc = d,
         \A b \in ToSet(free_list'[d]) : b[1] = p =>
           p \in Arenas' /\ b \notin BlockOf(place, n) \cup UnlinkedOf(place, n) /\ Nobodys(b, t),
         \A b \in BlockOf(place, n) : Nobodys(b, t),
         BlockOf(place, n) # {} => n.page = p /\ p \in Arenas',
         place = "unlist" => n.page = p /\ p \in Arenas',
         place = "unlist" \/ p \notin Arenas' => NoneOut(p, t),
         p \in Arenas' => /\ \A i \in Slots : Somewhere(<<p, i>>)'
                          /\ arena'[p].free_cnt = Cardinality(Loose(p)')
                          /\ Out(p)' \/ Emptying(p)',
         pc[t] = "take" => \E b \in ToSet(free_list[d]) : b[1] = p,
         pc[t] = "unlist" => call[t].page = p
  PROVE  OfBlocks'
<1>1. /\ pc'[t] = place /\ call'[t] = n
      /\ \A u \in Threads \ {t} : pc'[u] = pc[u] /\ call'[u] = call[u]
      /\ InHand(t)' = BlockOf(place, n) /\ Unlinking(t)' = UnlinkedOf(place, n)
      /\ \A u \in Threads \ {t} : InHand(u)' = InHand(u) /\ Unlinking(u)' = Unlinking(u)
  BY Others DEF AllocatorInv
<1>2. \A e : Blk(e)' = Blk(e)
  BY DEF Blk
<1>3. \A u \in Threads \ {t} : HasDesc(pc[u], call[u]) => call[u].size # d
  BY OneHasDesc
<1>4. ASSUME NEW u \in Threads \ {t}, pc[u] = "unlist"
      PROVE  call[u].page \in Arenas /\ call[u].page # p /\ call[u].page \in Arenas'
             /\ arena'[call[u].page] = arena[call[u].page]
             /\ arena[call[u].page].desc = call[u].size
  <2>1. call[u].page \in Arenas /\ arena[call[u].page].desc = call[u].size
    BY <1>4 DEF OfBlocks, BlocksPlaced
  <2>2. call[u].size # d
    BY <1>3, <1>4 DEF HasDesc
  <2> QED
    BY <2>1, <2>2
<1>5. \A u \in Threads \ {t} : \A b \in Unlinking(u) : pc[u] = "unlist" /\ b[1] = call[u].page
  BY DEF Unlinking, UnlinkedOf
<1>6. \A u \in Threads : /\ \A b \in InHand(u) : b[1] \in Arenas
                         /\ \A e \in held[u] : \A b \in Blk(e) : b[1] \in Arenas
  BY BlocksOfMine DEF OfBlocks, MineB
<1>7. BlocksApart'
  <2>1. ASSUME NEW u \in Threads, NEW v \in Threads, NEW e \in held[u]
        PROVE  Blk(e) \cap InHand(v)' = {}
    <3>1. CASE v = t
      BY <1>1, <3>1 DEF Nobodys
    <3>2. CASE v # t
      BY <1>1, <3>2 DEF OfBlocks, BlocksApart
    <3> QED
      BY <3>1, <3>2
  <2>2. ASSUME NEW u \in Threads, NEW v \in Threads, InHand(u)' \cap InHand(v)' # {} PROVE u = v
    <3>1. CASE u # t /\ v # t
      BY <1>1, <2>2, <3>1 DEF OfBlocks, BlocksApart
    <3>2. CASE u = t \/ v = t
      BY <1>1, <2>2, <3>2 DEF Nobodys
    <3> QED
      BY <3>1, <3>2
  <2>3. ASSUME NEW x \in Descs, NEW b \in ToSet(free_list'[x]), NEW u \in Threads
        PROVE  b \notin InHand(u)' /\ b \notin Unlinking(u)' /\ \A e \in held[u] : b \notin Blk(e)
    <3>1. CASE x = d /\ b[1] = p
      <4>1. p \in Arenas' /\ b \notin BlockOf(place, n) \cup UnlinkedOf(place, n) /\ Nobodys(b, t)
        BY <2>3, <3>1
      <4>2. u # t => b \notin Unlinking(u)
        BY <1>4, <1>5, <3>1
      <4> QED
        BY <1>1, <4>1, <4>2 DEF Nobodys
    <3>2. CASE ~(x = d /\ b[1] = p)
      <4>1. b \in ToSet(free_list[x])
        BY <2>3, <3>2
      <4>2. b \notin InHand(u) /\ b \notin Unlinking(u) /\ \A e \in held[u] : b \notin Blk(e)
        BY <4>1 DEF OfBlocks, BlocksApart
      <4>3. b[1] # p
        BY <3>2, <4>1 DEF OfBlocks, BlocksPlaced
      <4> QED
        BY <1>1, <4>2, <4>3
    <3> QED
      BY <3>1, <3>2
  <2>4. \A u, v \in Threads : \A e \in held[u], f \in held[v] :
          Blk(e) \cap Blk(f) # {} => u = v /\ e = f
    BY DEF OfBlocks, BlocksApart
  <2> QED
    BY <1>2, <2>1, <2>2, <2>3, <2>4 DEF BlocksApart
<1>8. BlocksPlaced'
  <2>1. ASSUME NEW x \in Descs, NEW b \in ToSet(free_list'[x])
        PROVE  b[1] \in Arenas' /\ arena'[b[1]].desc = x
    <3>1. CASE x = d /\ b[1] = p
      BY <2>1, <3>1
    <3>2. CASE ~(x = d /\ b[1] = p)
      <4>1. b \in ToSet(free_list[x])
        BY <2>1, <3>2
      <4>2. b[1] \in Arenas /\ arena[b[1]].desc = x
        BY <4>1 DEF OfBlocks, BlocksPlaced
      <4> QED
        BY <3>2, <4>2
    <3> QED
      BY <3>1, <3>2
  <2>2. \A x \in Descs : IsInjective(free_list'[x])
    BY DEF OfBlocks, BlocksPlaced
  <2>3. ASSUME NEW u \in Threads, NEW e \in held[u], e.kind = "block" PROVE e.page \in Arenas'
    <3>1. <<e.page, e.slot>> \in Blk(e)
      BY <2>3 DEF Blk
    <3>2. e.page = p => p \in Arenas'
      BY <3>1 DEF NoneOut
    <3> QED
      BY <1>6, <3>1, <3>2
  <2>4. ASSUME NEW u \in Threads, InHand(u)' # {}
        PROVE  call'[u].page \in Arenas' /\ arena'[call'[u].page].desc = call'[u].size
    <3>1. CASE u = t
      BY <1>1, <2>4, <3>1
    <3>2. CASE u # t
      <4>1. call[u].page \in Arenas /\ arena[call[u].page].desc = call[u].size
        BY <1>1, <2>4, <3>2 DEF OfBlocks, BlocksPlaced
      <4>2. PICK b \in InHand(u) : b[1] = call[u].page
        BY <1>1, <2>4, <3>2 DEF InHand, BlockOf
      <4>3. call[u].page = p => p \in Arenas'
        BY <3>2, <4>2 DEF NoneOut
      <4> QED
        BY <1>1, <3>2, <4>1, <4>3
    <3> QED
      BY <3>1, <3>2
  <2>5. ASSUME NEW u \in Threads, pc'[u] = "unlist"
        PROVE  /\ call'[u].page \in Arenas' /\ arena'[call'[u].page].desc = call'[u].size
               /\ \A v \in Threads :
                    /\ \A b \in InHand(v)' : b[1] # call'[u].page
                    /\ \A e \in held[v] : \A b \in Blk(e) : b[1] # call'[u].page
    <3>1. CASE u = t
      <4>1. place = "unlist" /\ BlockOf(place, n) = {}
        BY <1>1, <2>5, <3>1 DEF BlockOf
      <4> QED
        BY <1>1, <3>1, <4>1 DEF NoneOut
    <3>2. CASE u # t
      <4>1. pc[u] = "unlist" /\ call'[u] = call[u]
        BY <1>1, <2>5, <3>2
      <4>2. \A v \in Threads : /\ \A b \in InHand(v) : b[1] # call[u].page
                               /\ \A e \in held[v] : \A b \in Blk(e) : b[1] # call[u].page
        BY <4>1 DEF OfBlocks, BlocksPlaced
      <4>3. \A v \in Threads : \A b \in InHand(v)' : b[1] # call[u].page
        BY <1>1, <1>4, <3>2, <4>1, <4>2
      <4> QED
        BY <1>4, <3>2, <4>1, <4>2, <4>3
    <3> QED
      BY <3>1, <3>2
  <2> QED
    BY <1>2, <2>1, <2>2, <2>3, <2>4, <2>5 DEF BlocksPlaced
<1>9. \A u \in Threads : \A b : b[1] # p =>
        (b \in InHand(u)' <=> b \in InHand(u)) /\ (b \in Unlinking(u)' <=> b \in Unlinking(u))
  BY <1>1
<1>10. \A q \in Arenas : q # p => \A b : b[1] = q =>
         (b \in ToSet(free_list'[arena[q].desc]) <=> b \in ToSet(free_list[arena[q].desc]))
  <2>1. \A q \in Arenas : arena[q].desc \in Descs
    BY DEF Arenas, AllocatorInv, TypeOK, Headers
  <2> QED
    BY <2>1
<1>11. Covered'
  <2>1. ASSUME NEW q \in Arenas', NEW i \in Slots PROVE Somewhere(<<q, i>>)'
    <3>1. CASE q = p
      BY <2>1, <3>1
    <3>2. CASE q # p
      <4>1. q \in Arenas /\ arena'[q] = arena[q] /\ Somewhere(<<q, i>>)
        BY <2>1, <3>2 DEF OfBlocks, Covered
      <4> QED
        BY <1>2, <1>9, <1>10, <3>2, <4>1 DEF Somewhere
    <3> QED
      BY <3>1, <3>2
  <2> QED
    BY <2>1 DEF Covered
<1>12. Counted'
  <2> SUFFICES ASSUME NEW q \in Arenas' PROVE arena'[q].free_cnt = Cardinality(Loose(q)')
    BY DEF Counted
  <2>1. CASE q = p
    BY <2>1
  <2>2. CASE q # p
    <3>1. q \in Arenas /\ arena'[q] = arena[q]
      BY <2>2
    <3>2. \A b : b \in Loose(q)' <=> b \in Loose(q)
      BY <1>9, <1>10, <2>2, <3>1 DEF Loose
    <3>3. Loose(q)' = Loose(q)
      BY <3>2
    <3> QED
      BY <3>1, <3>3 DEF OfBlocks, Counted
  <2> QED
    BY <2>1, <2>2
<1>13. Emptied'
  <2> SUFFICES ASSUME NEW q \in Arenas', ~Out(q)' PROVE Emptying(q)'
    BY DEF Emptied, Emptying
  <2>1. CASE q = p
    BY <2>1
  <2>2. CASE q # p
    <3>1. q \in Arenas /\ arena'[q] = arena[q] /\ arena[q].desc \in Descs
      BY <2>2 DEF Arenas, AllocatorInv, TypeOK, Headers
    <3>2. ~Out(q)
      BY <1>2, <1>9, <2>2 DEF Out
    <3>3. PICK u \in Threads :
            /\ call[u].page = q /\ call[u].size = arena[q].desc
            /\ pc[u] \in {"take", "unlist"}
            /\ pc[u] = "take" => \A b \in ToSet(free_list[arena[q].desc]) : b[1] = q
      BY <3>1, <3>2 DEF OfBlocks, Emptied
    <3>4. u # t
      BY <2>2, <3>3
    <3>5. arena[q].desc # d
      BY <1>3, <3>3, <3>4 DEF HasDesc
    <3> QED
      BY <1>1, <3>1, <3>3, <3>4, <3>5 DEF Emptying
  <2> QED
    BY <2>1, <2>2
<1> QED
  BY <1>7, <1>8, <1>11, <1>12, <1>13 DEF OfBlocks

(* The rest of such a step: the page moves between the thread and the arenas. *)
LEMMA ListAccounts ==
  ASSUME AllocatorInv, AllocatorInv', Accounts, NEW t \in Threads, NEW place, NEW n,
         Steps(t, place, n), NEW d \in Descs, HasDesc(pc[t], call[t]), call[t].size = d,
         n.size = d, UNCHANGED <<held, used_map, desc_lock>>, panicked' = FALSE,
         \A x \in Descs \ {d} : free_list'[x] = free_list[x], Sized(place, n),
         place \in {"take", "desc_release", "unlist", "reset"},
         n.op = "malloc" /\ n.old # None => n.old \in held[t] /\ n.old.kind # "pages",
         \A q : q \in Arenas' \/ q \in PagesOf(place, n) <=> q \in Arenas \/ q \in PagesMoving(t),
         Arenas' \cap PagesOf(place, n) = {},
         \A q \in Pages : arena'[q] = arena[q] \/ q \in Arenas \/ q \in Arenas',
         OfBlocks'
  PROVE  Accounts'
<1>1. /\ PagesMoving(t)' = PagesOf(place, n)
      /\ \A u \in Threads \ {t} : PagesMoving(u)' = PagesMoving(u)
  BY Others DEF AllocatorInv
<1>2. \A e : Pgs(e)' = Pgs(e)
  BY DEF Pgs
<1>3. Local'
  <2>1. IsClear(place, n, used_map') /\ ~NeedsArena(place, n)
    BY DEF IsClear, NeedsArena, Scanning
  <2>2. desc_lock'[n.size] = t
    BY DEF Accounts, Local, DescLocked
  <2>3. ASSUME NEW u \in Threads \ {t}, HasDesc(pc[u], call[u])
        PROVE  free_list'[call[u].size] = free_list[call[u].size]
    <3>1. call[u].size # d
      BY <2>3, OneHasDesc DEF Accounts, Local
    <3> QED
      BY <2>3, <3>1, DescKnown
  <2>4. used_map' \subseteq used_map /\ \A u \in Threads \ {t} : held'[u] = held[u]
    OBVIOUS
  <2> QED
    BY <2>1, <2>2, <2>3, <2>4, LocalKeeps DEF Accounts
<1>4. PagesApart' /\ PagesMarked'
  <2>1. Mine(t)' = PagesOf(place, n) \cup UNION {Pgs(e) : e \in held[t]}
    BY <1>1, <1>2 DEF Mine
  <2>2. Mine(t) \subseteq used_map /\ Arenas \subseteq used_map
    BY MineApart DEF Accounts, OfPages
  <2>3. \A e \in held[t] : Pgs(e) \cap PagesMoving(t) = {} /\ Arenas \cap Pgs(e) = {}
    BY DEF Accounts, OfPages, PagesApart
  <2>4. \A e, f \in held'[t] : Pgs(e) \cap Pgs(f) # {} => e = f
    BY DEF Accounts, OfPages, PagesApart
  <2>5. /\ \A e \in held'[t] : Pgs(e) \cap PagesMoving(t)' = {} /\ Arenas' \cap Pgs(e) = {}
        /\ Arenas' \cap PagesMoving(t)' = {}
    BY <1>1, <2>3
  <2>6. ASSUME NEW q PROVE q \in Arenas' \cup Mine(t)' <=> q \in Arenas \cup Mine(t)
    BY <2>1 DEF Mine
  <2>7. \A q : q \in used_map' <=>
          q \in Arenas' \cup Mine(t)' \/ (q \in used_map /\ q \notin Arenas \cup Mine(t))
    BY <2>2, <2>6
  <2>8. \A u \in Threads \ {t} : held'[u] = held[u] /\ PagesMoving(u)' = PagesMoving(u)
    BY <1>1
  <2> QED
    BY <2>4, <2>5, <2>6, <2>7, <2>8, PagesKeep DEF Accounts, OfPages
<1>5. Bigs'
  <2> SUFFICES ASSUME NEW u \in Threads, NEW e \in held[u], e.kind = "big"
               PROVE  arena'[e.page] = arena[e.page]
    BY DEF Bigs, Accounts, OfPages
  <2>1. e.page \in Pgs(e) /\ e.page \in Pages
    BY BigPage
  <2>2. e.page \notin Arenas /\ e.page \notin PagesMoving(t)
    BY <2>1 DEF Accounts, OfPages, PagesApart
  <2> QED
    BY <2>1, <2>2
<1> QED
  BY <1>3, <1>4, <1>5 DEF Accounts, OfPages

(* The blocks of a page. *)
LEMMA PageBlocks ==
  ASSUME NEW p
  PROVE  IsFiniteSet({p} \X Slots) /\ Cardinality({p} \X Slots) = blocks_per_arena
<1> DEFINE f == [i \in 1..blocks_per_arena |-> <<p, i - 1>>]
<1>1. f \in Injection(1..blocks_per_arena, {p} \X Slots)
  BY DEF Injection, IsInjective, Slots
<1>2. f \in Surjection(1..blocks_per_arena, {p} \X Slots)
  <2>1. ASSUME NEW b \in {p} \X Slots PROVE \E i \in 1..blocks_per_arena : f[i] = b
    <3>1. PICK j \in Slots : b = <<p, j>>
      OBVIOUS
    <3>2. PICK i \in 1..blocks_per_arena : i - 1 = j
      <4>1. j + 1 \in 1..blocks_per_arena /\ (j + 1) - 1 = j
        BY DEF Slots
      <4> QED
        BY <4>1
    <3> QED
      BY <3>1, <3>2
  <2> QED
    BY <1>1, <2>1 DEF Injection, Surjection
<1>3. ExistsBijection(1..blocks_per_arena, {p} \X Slots)
  BY <1>1, <1>2 DEF ExistsBijection, Bijection
<1> QED
  BY <1>3, FS_Interval, FS_Bijection

LEMMA LooseIs ==
  ASSUME AllocatorInv, AllSized, NEW p \in Arenas
  PROVE  Loose(p) \subseteq {p} \X Slots /\ IsFiniteSet(Loose(p)) /\ Cardinality(Loose(p)) \in Nat
<1>1. ASSUME NEW b \in ToSet(free_list[arena[p].desc]), b[1] = p PROVE b \in {p} \X Slots
  <2>1. arena[p].desc \in Descs
    BY DEF Arenas, AllocatorInv, TypeOK, Headers
  <2>2. free_list[arena[p].desc] \in Seq(Cells)
    BY <2>1 DEF AllocatorInv, TypeOK
  <2>3. b \in Cells
    BY <2>2 DEF ToSet
  <2> QED
    BY <1>1, <2>3 DEF Cells
<1>2. ASSUME NEW u \in Threads, NEW b \in Unlinking(u), b[1] = p PROVE b \in {p} \X Slots
  <2>1. Sized("unlist", call[u]) /\ call[u] \in Calls /\ pc[u] = "unlist"
    BY <1>2 DEF AllSized, Unlinking, UnlinkedOf, AllocatorInv, TypeOK
  <2>2. PICK i \in 0..(call[u].bit - 1) : b = <<call[u].page, i>>
    BY <1>2, <2>1 DEF Unlinking, UnlinkedOf
  <2>3. i \in Slots
    BY <2>1, <2>2 DEF Sized, Calls, Slots
  <2> QED
    BY <1>2, <2>2, <2>3
<1>3. Loose(p) \subseteq {p} \X Slots
  BY <1>1, <1>2 DEF Loose
<1> QED
  BY <1>3, PageBlocks, FS_Subset, FS_CardinalityType

LEMMA NewArenaAccounts ==
  ASSUME AllocatorInv, AllocatorInv', Accounts, NEW t \in Threads, NewArena(t),
         call[t].page # None
  PROVE  Accounts'
<1> DEFINE c == call[t]
<1>0. PICK p : p = c.page
  OBVIOUS
<1>d. PICK d : d = c.size
  OBVIOUS
<1>1. /\ panicked = FALSE /\ c \in Calls /\ Sized("new_arena", c) /\ Ready("new_arena", c)
      /\ NeedsArena("new_arena", c) => free_list[c.size] = <<>>
      /\ PagesMoving(t) = PagesOf("new_arena", c) /\ InHand(t) = BlockOf("new_arena", c)
      /\ c.op = "malloc" /\ c.old # None => c.old \in held[t] /\ c.old.kind # "pages"
      /\ pc[t] = "new_arena"
  BY Quiet DEF NewArena, At
<1>2. p \in Pages /\ p # None /\ d \in Descs /\ c.kind = "block" /\ c.cnt = 1 /\ p \in Nat
  <2>1. Pages \subseteq Nat
    BY DEF Pages
  <2> QED
    BY <1>0, <1>1, <1>d, <2>1 DEF Ready, OfBlock, Sized
<1>3. Steps(t, "take", c)
  BY DEF NewArena, Goto, Steps, AllocatorInv, TypeOK
<1> DEFINE L == [i \in 1..blocks_per_arena |-> <<p, i - 1>>]
<1>4. /\ arena' = [arena EXCEPT ![p] = [desc |-> d, free_cnt |-> blocks_per_arena]]
      /\ free_list' = [free_list EXCEPT ![d] = free_list[d] \o L]
      /\ UNCHANGED <<held, used_map, desc_lock>> /\ panicked' = FALSE
  BY <1>0, <1>1, <1>d, <1>2 DEF NewArena, pool, AllocatorInv, TypeOK
<1>5. free_list[d] = <<>>
  BY <1>1, <1>2, <1>d DEF NeedsArena
<1>6. <<>> \o L = L /\ L \in Seq({p} \X Slots)
  <2>1. \A i \in 1..blocks_per_arena : <<p, i - 1>> \in {p} \X Slots
    BY DEF Slots
  <2>2. L \in [1..blocks_per_arena -> {p} \X Slots]
    BY <2>1
  <2>3. L \in Seq({p} \X Slots)
    BY <2>2
  <2> HIDE DEF L
  <2> QED
    BY <2>3
<1>7. free_list'[d] = L /\ \A x \in Descs \ {d} : free_list'[x] = free_list[x]
  BY <1>2, <1>4, <1>5, <1>6 DEF AllocatorInv, TypeOK
<1>8. IsInjective(L)
  BY DEF IsInjective
<1>9. ToSet(L) = {p} \X Slots
  <2>1. ASSUME NEW b \in {p} \X Slots PROVE b \in ToSet(L)
    <3>1. PICK j \in Slots : b = <<p, j>>
      OBVIOUS
    <3>2. PICK i \in 1..blocks_per_arena : i - 1 = j
      <4>1. j + 1 \in 1..blocks_per_arena /\ (j + 1) - 1 = j
        BY DEF Slots
      <4> QED
        BY <4>1
    <3>3. i \in DOMAIN L /\ L[i] = b
      BY <3>1, <3>2
    <3> QED
      BY <3>3 DEF ToSet
  <2>2. ASSUME NEW b \in ToSet(L) PROVE b \in {p} \X Slots
    BY <2>2 DEF ToSet, Slots
  <2> QED
    BY <2>1, <2>2
<1> HIDE DEF L
<1>10. PagesMoving(t) = {p} /\ InHand(t) = {}
  <2>1. PagesMoving(t) = Run(p, 1)
    BY <1>0, <1>1, <1>2 DEF PagesOf
  <2>2. Run(p, 1) = {p}
    BY <1>2 DEF Run
  <2>3. InHand(t) = {}
    BY <1>1 DEF BlockOf
  <2> QED
    BY <2>1, <2>2, <2>3
<1>11. p \notin Arenas
  BY <1>10 DEF Accounts, OfPages, PagesApart
<1>12. /\ arena'[p] = [desc |-> d, free_cnt |-> blocks_per_arena]
       /\ \A q \in Pages : q # p => arena'[q] = arena[q]
  BY <1>2, <1>4 DEF AllocatorInv, TypeOK
<1>13. p \in Arenas' /\ \A q : q # p => (q \in Arenas' <=> q \in Arenas)
  <2>1. arena'[p] # None /\ arena'[p].desc # None
    BY <1>2, <1>12, HeaderAssumption
  <2> QED
    BY <1>2, <1>12, <2>1 DEF Arenas
<1>14. PagesOf("take", c) = {} /\ BlockOf("take", c) = {} /\ UnlinkedOf("take", c) = {}
  BY DEF PagesOf, BlockOf, UnlinkedOf
<1>15. ASSUME NEW b, b[1] = p PROVE Nobodys(b, t)
  <2>1. \A u \in Threads : b \notin MineB(u)
    BY <1>11, <1>15, BlocksOfMine DEF Accounts, OfBlocks
  <2> QED
    BY <2>1 DEF Nobodys, MineB
<1>16. NoneOut(p, t)
  <2>1. \A u \in Threads : \A b \in MineB(u) : b[1] # p
    BY <1>11, BlocksOfMine DEF Accounts, OfBlocks
  <2> QED
    BY <2>1 DEF NoneOut, MineB
<1>17. \A u \in Threads : \A b \in Unlinking(u)' : b[1] # p
  <2> SUFFICES ASSUME NEW u \in Threads, NEW b \in Unlinking(u)' PROVE b[1] # p
    OBVIOUS
  <2>1. u # t /\ Unlinking(u)' = Unlinking(u)
    BY <1>3, <1>14, Others DEF AllocatorInv
  <2>2. pc[u] = "unlist" /\ b[1] = call[u].page
    BY <2>1 DEF Unlinking, UnlinkedOf
  <2> QED
    BY <1>11, <2>1, <2>2 DEF Accounts, OfBlocks, BlocksPlaced
<1>18. Loose(p)' = {p} \X Slots
  <2>1. \A b \in {p} \X Slots : b[1] = p
    OBVIOUS
  <2> QED
    BY <1>7, <1>9, <1>12, <1>17, <2>1 DEF Loose
<1>19. /\ \A i \in Slots : Somewhere(<<p, i>>)'
       /\ arena'[p].free_cnt = Cardinality(Loose(p)')
       /\ Emptying(p)'
  <2>1. \A i \in Slots : Somewhere(<<p, i>>)'
    BY <1>7, <1>9, <1>12 DEF Somewhere
  <2>2. arena'[p].free_cnt = Cardinality(Loose(p)')
    <3>1. arena'[p].free_cnt = blocks_per_arena
      BY <1>12
    <3>2. Cardinality({p} \X Slots) = blocks_per_arena
      BY PageBlocks
    <3> QED
      BY <1>18, <3>1, <3>2
  <2>3. pc'[t] = "take" /\ call'[t] = c
    BY <1>3, Others DEF AllocatorInv
  <2>4. Emptying(p)'
    BY <1>0, <1>d, <1>7, <1>9, <1>12, <2>3 DEF Emptying
  <2> QED
    BY <2>1, <2>2, <2>4
<1>20. /\ HasDesc(pc[t], call[t]) /\ IsInjective(free_list'[d])
       /\ \A b \in ToSet(free_list'[d]) : b[1] = p
       /\ Unlinking(t) = {} /\ pc[t] # "take" /\ pc[t] # "unlist"
  BY <1>1, <1>7, <1>8, <1>9 DEF HasDesc, Unlinking, UnlinkedOf
<1>21. ToSet(free_list[d]) = {}
  BY <1>5 DEF ToSet
<1>22. OfBlocks'
  <2>1. \A b : b[1] # p => (b \in ToSet(free_list'[d]) <=> b \in ToSet(free_list[d]))
    BY <1>20, <1>21
  <2>2. \A b \in InHand(t) \cup Unlinking(t) \cup BlockOf("take", c) \cup UnlinkedOf("take", c) :
          b[1] = p
    BY <1>10, <1>14, <1>20
  <2>3. /\ \A q \in Arenas : q # p => q \in Arenas' /\ arena'[q] = arena[q]
        /\ \A q \in Arenas' : q # p => q \in Arenas
    BY <1>12, <1>13 DEF Arenas
  <2>4. p \notin Arenas /\ arena'[p].desc = d
    BY <1>11, <1>12
  <2>5. \A b \in ToSet(free_list'[d]) : b[1] = p =>
          p \in Arenas' /\ b \notin BlockOf("take", c) \cup UnlinkedOf("take", c) /\ Nobodys(b, t)
    BY <1>13, <1>14, <1>15
  <2>6. DescLocked /\ OfBlocks
    BY DEF Accounts, Local
  <2>7. call[t].size = d
    BY <1>d
  <2> HIDE DEF c
  <2>8. c.size = d
    BY <1>d
  <2> QED
    BY <1>2, <1>3, <1>4, <1>7, <1>13, <1>14, <1>19, <1>20, <2>1, <2>2, <2>3, <2>4, <2>5,
       <2>6, <2>7, <2>8, ListStep
<1>23. Sized("take", c)
  BY <1>1 DEF Sized
<1>24. /\ \A q : q \in Arenas' \/ q \in PagesOf("take", c) <=> q \in Arenas \/ q \in PagesMoving(t)
       /\ \A q \in Pages : arena'[q] = arena[q] \/ q \in Arenas \/ q \in Arenas'
  BY <1>10, <1>12, <1>13, <1>14
<1> QED
  BY <1>1, <1>2, <1>3, <1>4, <1>7, <1>14, <1>20, <1>22, <1>23, <1>24, <1>d, ListAccounts

LEMMA TakeAccounts ==
  ASSUME AllocatorInv, AllocatorInv', Accounts, NEW t \in Threads, Take(t)
  PROVE  Accounts'
<1> DEFINE c == call[t]
<1>d. PICK d : d = c.size
  OBVIOUS
<1>b. PICK b : b = Head(free_list[d])
  OBVIOUS
<1>p. PICK p : p = b[1]
  OBVIOUS
<1>n. PICK n : n = [c EXCEPT !.page = b[1], !.slot = b[2]]
  OBVIOUS
<1>1. /\ panicked = FALSE /\ c \in Calls /\ Sized("take", c) /\ Ready("take", c)
      /\ PagesMoving(t) = PagesOf("take", c) /\ InHand(t) = BlockOf("take", c)
      /\ c.op = "malloc" /\ c.old # None => c.old \in held[t] /\ c.old.kind # "pages"
      /\ pc[t] = "take"
  BY Quiet DEF Take, At
<1>2. d \in Descs /\ c.kind = "block" /\ c.op = "malloc" /\ free_list[d] # <<>>
      /\ free_list[d] \in Seq(Cells) /\ IsInjective(free_list[d])
  <2>1. d \in Descs /\ c.kind = "block" /\ c.op = "malloc" /\ free_list[d] # <<>>
    BY <1>1, <1>d DEF Ready, OfBlock, Take
  <2> QED
    BY <2>1 DEF AllocatorInv, TypeOK, Accounts, OfBlocks, BlocksPlaced
<1>3. b \in ToSet(free_list[d]) /\ IsInjective(Tail(free_list[d]))
      /\ ToSet(Tail(free_list[d])) = ToSet(free_list[d]) \ {b}
  BY <1>2, <1>b, PopFrontUnique
<1>4. p \in Arenas /\ arena[p].desc = d /\ b \in Cells /\ p \in Pages /\ p # None
      /\ b[2] \in Slots /\ <<b[1], b[2]>> = b /\ arena[p] # None
  <2>1. p \in Arenas /\ arena[p].desc = d
    BY <1>2, <1>3, <1>p DEF Accounts, OfBlocks, BlocksPlaced
  <2>2. b \in Cells
    BY <1>2, <1>3 DEF ToSet
  <2>3. \A q \in Pages : q # None
    BY DEF Pages
  <2> QED
    BY <1>p, <2>1, <2>2, <2>3 DEF Cells, Arenas
<1>5. n.page = p /\ n.slot = b[2] /\ n.op = c.op /\ n.kind = c.kind
        /\ n.size = c.size /\ n.cnt = c.cnt /\ n.old = c.old
  BY <1>1, <1>n, <1>p DEF Calls
<1>6. Steps(t, "desc_release", n)
  BY <1>b, <1>d, <1>n DEF Take, Goto, Set, Steps
<1>7. /\ arena' = [arena EXCEPT ![p].free_cnt = arena[p].free_cnt - 1]
      /\ free_list' = [free_list EXCEPT ![d] = Tail(free_list[d])]
      /\ UNCHANGED <<held, used_map, desc_lock>> /\ panicked' = FALSE
  <2>1. panicked' = FALSE /\ arena' = [arena EXCEPT ![p].free_cnt = @ - 1]
    BY <1>4, <1>b, <1>d, <1>p DEF Take, CountTaken, ASSERTION
  <2>2. arena' = [arena EXCEPT ![p].free_cnt = arena[p].free_cnt - 1]
    BY <1>4, <2>1 DEF AllocatorInv, TypeOK, Headers
  <2> QED
    BY <1>2, <1>d, <2>1, <2>2 DEF Take, pool, AllocatorInv, TypeOK
<1>8. free_list'[d] = Tail(free_list[d]) /\ \A x \in Descs \ {d} : free_list'[x] = free_list[x]
  BY <1>2, <1>7 DEF AllocatorInv, TypeOK
<1>9. /\ arena'[p] # None /\ arena'[p].desc = d /\ arena'[p].free_cnt = arena[p].free_cnt - 1
      /\ \A q \in Pages : q # p => arena'[q] = arena[q]
  <2>1. PICK r : r = [arena[p] EXCEPT !.free_cnt = arena[p].free_cnt - 1]
    OBVIOUS
  <2>2. arena[p] \in [desc : Descs \cup {None}, free_cnt : Int]
    BY <1>4 DEF AllocatorInv, TypeOK, Headers
  <2>3. r = [desc |-> d, free_cnt |-> arena[p].free_cnt - 1]
    BY <1>4, <2>1, <2>2
  <2>4. arena' = [arena EXCEPT ![p] = r]
    BY <1>7, <2>1
  <2>5. arena[p].free_cnt - 1 \in 0..blocks_per_arena
    <3>1. arena[p].free_cnt = Cardinality(Loose(p)) /\ b \in Loose(p)
      BY <1>3, <1>4, <1>p DEF Accounts, OfBlocks, Counted, Loose
    <3>2. /\ Loose(p) \subseteq {p} \X Slots /\ IsFiniteSet(Loose(p))
          /\ Cardinality(Loose(p)) \in Nat
      BY <1>4, LooseIs DEF Accounts, Local
    <3>3. Cardinality(Loose(p)) <= blocks_per_arena
      <4>1. PICK all : all = {p} \X Slots
        OBVIOUS
      <4>2. IsFiniteSet(all) /\ Cardinality(all) = blocks_per_arena /\ Loose(p) \in SUBSET all
        BY <3>2, <4>1, PageBlocks
      <4> QED
        BY <4>2, FS_Subset
    <3>4. Cardinality(Loose(p)) # 0
      BY <3>1, <3>2, FS_EmptySet
    <3> QED
      BY <3>1, <3>2, <3>3, <3>4
  <2>6. r # None
    BY <1>2, <2>3, <2>5, HeaderAssumption
  <2> QED
    BY <1>4, <2>3, <2>4, <2>6 DEF AllocatorInv, TypeOK
<1>10. Arenas' = Arenas
  BY <1>4, <1>9 DEF Arenas
<1>11. /\ BlockOf("desc_release", n) = {b} /\ UnlinkedOf("desc_release", n) = {}
       /\ PagesOf("desc_release", n) = {} /\ PagesMoving(t) = {} /\ InHand(t) = {}
       /\ Unlinking(t) = {}
  BY <1>1, <1>2, <1>4, <1>5, <1>p DEF BlockOf, UnlinkedOf, PagesOf, Unlinking
<1>12. ASSUME NEW x \in ToSet(free_list[d])
       PROVE  Nobodys(x, t) /\ \A u \in Threads : x \notin Unlinking(u)
  BY <1>2, <1>12 DEF Nobodys, Accounts, OfBlocks, BlocksApart
<1>13. /\ InHand(t)' = {b} /\ Unlinking(t)' = {}
       /\ \A u \in Threads \ {t} : InHand(u)' = InHand(u) /\ Unlinking(u)' = Unlinking(u)
  BY <1>6, <1>11, Others DEF AllocatorInv
<1>14. ASSUME NEW i \in Slots PROVE Somewhere(<<p, i>>)'
  <2>1. Somewhere(<<p, i>>)
    BY <1>4 DEF Accounts, OfBlocks, Covered
  <2>2. CASE <<p, i>> = b
    BY <1>13, <2>2 DEF Somewhere
  <2>3. CASE <<p, i>> # b
    <3>1. \A e : Blk(e)' = Blk(e)
      BY DEF Blk
    <3> QED
      BY <1>3, <1>4, <1>7, <1>8, <1>9, <1>11, <1>13, <2>1, <2>3, <3>1, SMTT(30) DEF Somewhere
  <2> QED
    BY <2>2, <2>3
<1>15. arena'[p].free_cnt = Cardinality(Loose(p)')
  <2>1. b \in Loose(p)
    BY <1>3, <1>4, <1>p DEF Loose
  <2>2. \A x : x \in Loose(p)' <=> x \in Loose(p) \ {b}
    BY <1>3, <1>4, <1>8, <1>9, <1>11, <1>12, <1>13 DEF Loose
  <2>3. Loose(p)' = Loose(p) \ {b}
    BY <2>2
  <2>4. IsFiniteSet(Loose(p)) /\ arena[p].free_cnt = Cardinality(Loose(p))
    BY <1>4, LooseIs DEF Accounts, Local, OfBlocks, Counted
  <2> QED
    BY <1>9, <2>1, <2>3, <2>4, FS_RemoveElement
<1>16. Out(p)'
  BY <1>13, <1>p DEF Out
<1>17. HasDesc(pc[t], call[t])
  BY <1>1 DEF HasDesc
<1>18. OfBlocks'
  <2>1. \A x : x[1] # p => (x \in ToSet(free_list'[d]) <=> x \in ToSet(free_list[d]))
    BY <1>3, <1>8, <1>p
  <2>2. \A x \in InHand(t) \cup Unlinking(t) \cup BlockOf("desc_release", n)
                   \cup UnlinkedOf("desc_release", n) : x[1] = p
    BY <1>11, <1>p
  <2>3. /\ \A q \in Arenas : q # p => q \in Arenas' /\ arena'[q] = arena[q]
        /\ \A q \in Arenas' : q # p => q \in Arenas
    BY <1>9, <1>10 DEF Arenas
  <2>4. \A x \in ToSet(free_list'[d]) : x[1] = p =>
          p \in Arenas' /\ x \notin BlockOf("desc_release", n) \cup UnlinkedOf("desc_release", n)
            /\ Nobodys(x, t)
    BY <1>3, <1>4, <1>8, <1>10, <1>11, <1>12
  <2>5. \A x \in BlockOf("desc_release", n) : Nobodys(x, t)
    BY <1>3, <1>11, <1>12
  <2>6. DescLocked /\ OfBlocks
    BY DEF Accounts, Local
  <2>7. \E x \in ToSet(free_list[d]) : x[1] = p
    BY <1>3, <1>p
  <2>8. call[t].size = d /\ n.size = d
    BY <1>5, <1>d
  <2>9. p \in Arenas' /\ pc[t] # "unlist" /\ IsInjective(free_list'[d])
    BY <1>1, <1>3, <1>4, <1>8, <1>10
  <2> QED
    BY <1>2, <1>4, <1>5, <1>6, <1>7, <1>8, <1>9, <1>14, <1>15, <1>16, <1>17,
       <2>1, <2>2, <2>3, <2>4, <2>5, <2>6, <2>7, <2>8, <2>9, ListStep
<1>19. Sized("desc_release", n)
  BY <1>1, <1>5 DEF Sized
<1>20. n.op = "malloc" /\ n.old # None => n.old \in held[t] /\ n.old.kind # "pages"
  BY <1>1, <1>5
<1>21. /\ \A q : q \in Arenas' \/ q \in PagesOf("desc_release", n)
                   <=> q \in Arenas \/ q \in PagesMoving(t)
       /\ \A q \in Pages : arena'[q] = arena[q] \/ q \in Arenas \/ q \in Arenas'
       /\ Arenas' \cap PagesOf("desc_release", n) = {}
  BY <1>4, <1>9, <1>10, <1>11
<1>22. call[t].size = d /\ n.size = d
  BY <1>5, <1>d
<1> QED
  BY <1>2, <1>6, <1>7, <1>8, <1>17, <1>18, <1>19, <1>20, <1>21, <1>22, ListAccounts

LEMMA PutAccounts ==
  ASSUME AllocatorInv, AllocatorInv', Accounts, NEW t \in Threads, Put(t)
  PROVE  Accounts'
<1> DEFINE c == call[t]
<1>d. PICK d : d = c.size
  OBVIOUS
<1>p. PICK p : p = c.page
  OBVIOUS
<1>b. PICK b : b = <<p, c.slot>>
  OBVIOUS
<1>l. PICK place : place = IF Unused(p) THEN "unlist" ELSE "desc_release"
  OBVIOUS
<1>1. /\ panicked = FALSE /\ c \in Calls /\ Sized("put", c) /\ Ready("put", c)
      /\ PagesMoving(t) = PagesOf("put", c) /\ InHand(t) = BlockOf("put", c)
      /\ pc[t] = "put"
  BY Quiet DEF Put, At
<1>2. d \in Descs /\ c.kind = "block" /\ c.op = "free" /\ p \in Pages /\ c.slot \in Slots
      /\ p # None /\ b \in Cells /\ b \in {p} \X Slots /\ b[1] = p
  <2>1. d \in Descs /\ c.kind = "block" /\ c.op = "free" /\ p \in Pages /\ c.slot \in Slots
    BY <1>1, <1>d, <1>p DEF Ready, OfBlock
  <2>2. \A q \in Pages : q # None
    BY DEF Pages
  <2> QED
    BY <1>b, <2>1, <2>2 DEF Cells
<1>3. InHand(t) = {b} /\ PagesMoving(t) = {} /\ Unlinking(t) = {}
  BY <1>1, <1>2, <1>b, <1>p DEF BlockOf, PagesOf, Unlinking, UnlinkedOf
<1>4. p \in Arenas /\ arena[p].desc = d /\ arena[p] # None
      /\ arena[p] \in [desc : Descs \cup {None}, free_cnt : Int]
  <2>1. p \in Arenas /\ arena[p].desc = d
    BY <1>3, <1>d, <1>p DEF Accounts, OfBlocks, BlocksPlaced
  <2> QED
    BY <2>1 DEF Arenas, AllocatorInv, TypeOK, Headers
<1>5. free_list[d] \in Seq(Cells) /\ IsInjective(free_list[d]) /\ b \notin ToSet(free_list[d])
  BY <1>2, <1>3 DEF AllocatorInv, TypeOK, Accounts, OfBlocks, BlocksPlaced, BlocksApart
<1>6. IsInjective(<<b>> \o free_list[d])
      /\ ToSet(<<b>> \o free_list[d]) = {b} \cup ToSet(free_list[d])
  BY <1>5, PushFrontUnique
<1>7. \A u \in Threads \ {t} : \A x \in Unlinking(u) : x[1] # p
  <2> SUFFICES ASSUME NEW u \in Threads \ {t}, NEW x \in Unlinking(u), x[1] = p PROVE FALSE
    OBVIOUS
  <2>1. pc[u] = "unlist" /\ call[u].page = p
    BY DEF Unlinking, UnlinkedOf
  <2>2. call[u].size = call[t].size
    BY <1>4, <1>d, <2>1 DEF Accounts, OfBlocks, BlocksPlaced
  <2> QED
    BY <1>1, <2>1, <2>2, OneHasDesc DEF Accounts, Local, HasDesc
<1>8. /\ IsFiniteSet(Loose(p)) /\ Cardinality(Loose(p)) \in Nat
      /\ arena[p].free_cnt = Cardinality(Loose(p))
      /\ Loose(p) \subseteq {p} \X Slots /\ b \notin Loose(p)
  <2>1. b \notin Loose(p)
    BY <1>2, <1>3, <1>4, <1>5, <1>7 DEF Loose
  <2> QED
    BY <1>4, <2>1, LooseIs DEF Accounts, Local, OfBlocks, Counted
<1>9. /\ IsFiniteSet(Loose(p) \cup {b}) /\ Loose(p) \cup {b} \subseteq {p} \X Slots
      /\ Cardinality(Loose(p) \cup {b}) = arena[p].free_cnt + 1
      /\ arena[p].free_cnt + 1 <= blocks_per_arena
      /\ Unused(p) <=> Loose(p) \cup {b} = {p} \X Slots
  <2> DEFINE all == {p} \X Slots
             more == Loose(p) \cup {b}
  <2>1. IsFiniteSet(more) /\ Cardinality(more) = arena[p].free_cnt + 1
    BY <1>8, FS_AddElement
  <2>2. more \subseteq all
    BY <1>2, <1>8
  <2>3. IsFiniteSet(all) /\ Cardinality(all) = blocks_per_arena
    BY PageBlocks
  <2> HIDE DEF all, more
  <2>4. Cardinality(more) <= Cardinality(all) /\ (Cardinality(all) = Cardinality(more) => all = more)
    BY <2>2, <2>3, FS_Subset
  <2>5. Unused(p) <=> more = all
    BY <1>8, <2>1, <2>3, <2>4 DEF Unused
  <2> QED
    BY <2>1, <2>2, <2>3, <2>4, <2>5 DEF all, more
<1>10. /\ arena' = [arena EXCEPT ![p].free_cnt = arena[p].free_cnt + 1]
       /\ free_list' = [free_list EXCEPT ![d] = <<b>> \o free_list[d]]
       /\ UNCHANGED <<held, used_map, desc_lock>> /\ panicked' = FALSE
       /\ Steps(t, place, c)
  <2>1. /\ arena' = [arena EXCEPT ![p].free_cnt = @ + 1]
        /\ free_list' = [free_list EXCEPT ![d] = << <<p, c.slot>> >> \o @]
        /\ UNCHANGED <<held, used_map, desc_lock, call>>
        /\ pc' = [pc EXCEPT ![t] = place]
        /\ panicked' = ~(arena[p].free_cnt < blocks_per_arena)
    BY <1>4, <1>d, <1>l, <1>p DEF Put, pool, Goto, ASSERTION
  <2>2. arena' = [arena EXCEPT ![p].free_cnt = arena[p].free_cnt + 1]
    BY <1>2, <1>4, <2>1 DEF AllocatorInv, TypeOK
  <2>3. panicked' = FALSE
    <3>1. arena[p].free_cnt < blocks_per_arena
      BY <1>8, <1>9
    <3> QED
      BY <2>1, <3>1
  <2> HIDE DEF c
  <2>4. free_list' = [free_list EXCEPT ![d] = <<b>> \o free_list[d]]
    BY <1>2, <1>b, <2>1 DEF AllocatorInv, TypeOK
  <2>5. Steps(t, place, c)
    BY <2>1 DEF Steps, AllocatorInv, TypeOK, c
  <2> QED
    BY <2>1, <2>2, <2>3, <2>4, <2>5
<1>11. free_list'[d] = <<b>> \o free_list[d] /\ \A x \in Descs \ {d} : free_list'[x] = free_list[x]
  BY <1>2, <1>10 DEF AllocatorInv, TypeOK
<1>12. /\ arena'[p] # None /\ arena'[p].desc = d /\ arena'[p].free_cnt = arena[p].free_cnt + 1
       /\ \A q \in Pages : q # p => arena'[q] = arena[q]
  <2>1. PICK r : r = [arena[p] EXCEPT !.free_cnt = arena[p].free_cnt + 1]
    OBVIOUS
  <2>2. r = [desc |-> d, free_cnt |-> arena[p].free_cnt + 1]
    BY <1>4, <2>1
  <2>3. arena' = [arena EXCEPT ![p] = r]
    BY <1>10, <2>1
  <2>4. arena[p].free_cnt + 1 \in 0..blocks_per_arena
    BY <1>8, <1>9
  <2>5. r # None
    BY <1>2, <2>2, <2>4, HeaderAssumption
  <2> QED
    BY <1>2, <2>2, <2>3, <2>5 DEF AllocatorInv, TypeOK
<1>13. Arenas' = Arenas
  BY <1>4, <1>12 DEF Arenas
<1>14. c.bit = 0 /\ place \in {"unlist", "desc_release"}
  BY <1>1, <1>2, <1>l DEF Sized
<1>15. BlockOf(place, c) = {} /\ UnlinkedOf(place, c) = {} /\ PagesOf(place, c) = {}
  <2>1. BlockOf(place, c) = {} /\ PagesOf(place, c) = {}
    BY <1>2, <1>14 DEF BlockOf, PagesOf
  <2>2. UnlinkedOf(place, c) = {}
    <3>1. 0..(c.bit - 1) = {}
      BY <1>14
    <3> QED
      BY <3>1 DEF UnlinkedOf
  <2> QED
    BY <2>1, <2>2
<1>16. /\ InHand(t)' = {} /\ Unlinking(t)' = {} /\ pc'[t] = place /\ call'[t] = c
       /\ \A u \in Threads \ {t} : InHand(u)' = InHand(u) /\ Unlinking(u)' = Unlinking(u)
  BY <1>10, <1>15, Others DEF AllocatorInv
<1>17. ASSUME NEW x \in ToSet(<<b>> \o free_list[d]) PROVE Nobodys(x, t)
  <2>1. CASE x = b
    BY <1>3, <2>1 DEF Nobodys, Accounts, OfBlocks, BlocksApart
  <2>2. CASE x \in ToSet(free_list[d])
    BY <1>2, <2>2 DEF Nobodys, Accounts, OfBlocks, BlocksApart
  <2> QED
    BY <1>6, <1>17, <2>1, <2>2
<1>18. \A e : Blk(e)' = Blk(e)
  BY DEF Blk
<1>19. ASSUME NEW i \in Slots PROVE Somewhere(<<p, i>>)'
  <2>1. Somewhere(<<p, i>>)
    BY <1>4 DEF Accounts, OfBlocks, Covered
  <2>2. CASE <<p, i>> = b
    BY <1>6, <1>11, <1>12, <2>2 DEF Somewhere
  <2>3. CASE <<p, i>> # b
    <3>1. \/ <<p, i>> \in ToSet(free_list[d])
          \/ \E u \in Threads \ {t} : <<p, i>> \in InHand(u) \/ <<p, i>> \in Unlinking(u)
          \/ \E u \in Threads : \E e \in held[u] : <<p, i>> \in Blk(e)
      BY <1>3, <1>4, <2>1, <2>3 DEF Somewhere
    <3>2. \/ <<p, i>> \in ToSet(free_list'[d])
          \/ \E u \in Threads \ {t} : <<p, i>> \in InHand(u)' \/ <<p, i>> \in Unlinking(u)'
          \/ \E u \in Threads : \E e \in held'[u] : <<p, i>> \in Blk(e)'
      BY <1>6, <1>10, <1>11, <1>16, <1>18, <3>1
    <3> QED
      BY <1>12, <3>2 DEF Somewhere
  <2> QED
    BY <2>2, <2>3
<1>20. Loose(p)' = Loose(p) \cup {b}
  <2>1. \A x : x \in Loose(p) <=>
          x[1] = p /\ (x \in ToSet(free_list[d]) \/ \E u \in Threads : x \in Unlinking(u))
    BY <1>4 DEF Loose
  <2>2. \A x : x \in Loose(p)' <=>
          x[1] = p /\ (x \in ToSet(free_list'[d]) \/ \E u \in Threads : x \in Unlinking(u)')
    BY <1>12 DEF Loose
  <2>3. \A x : (\E u \in Threads : x \in Unlinking(u)') <=> (\E u \in Threads : x \in Unlinking(u))
    BY <1>3, <1>16
  <2>4. \A x : x \in ToSet(free_list'[d]) <=> x = b \/ x \in ToSet(free_list[d])
    BY <1>6, <1>11
  <2>5. \A x : x \in Loose(p)' <=> x \in Loose(p) \cup {b}
    BY <1>2, <2>1, <2>2, <2>3, <2>4
  <2> QED
    BY <2>5
<1>21. \A x \in {p} \X Slots : x \in Loose(p) \cup {b} => x \in ToSet(<<b>> \o free_list[d])
  BY <1>3, <1>4, <1>6, <1>7 DEF Loose
<1>22. Unused(p) => NoneOut(p, t)
  <2> SUFFICES ASSUME Unused(p) PROVE NoneOut(p, t)
    OBVIOUS
  <2>1. \A x \in {p} \X Slots : Nobodys(x, t)
    BY <1>9, <1>17, <1>21
  <2>2. \A u \in Threads : \A x \in MineB(u) : x[1] = p => x \in {p} \X Slots
    BY BlocksOfMine DEF Cells, Accounts, OfBlocks
  <2> QED
    BY <2>1, <2>2 DEF Nobodys, NoneOut, MineB
<1>23. Out(p)' \/ Emptying(p)'
  <2> SUFFICES ASSUME ~Out(p)' PROVE Emptying(p)'
    OBVIOUS
  <2>1. ASSUME NEW i \in Slots PROVE <<p, i>> \in Loose(p)'
    <3>1. ~\E u \in Threads : <<p, i>> \in InHand(u)' \/ \E e \in held'[u] : <<p, i>> \in Blk(e)
      BY <1>18 DEF Out
    <3>2. \/ <<p, i>> \in ToSet(free_list'[arena'[p].desc])
          \/ \E u \in Threads : <<p, i>> \in Unlinking(u)'
      BY <1>18, <1>19, <3>1 DEF Somewhere
    <3> QED
      BY <3>2 DEF Loose
  <2>2. Unused(p)
    <3>1. {p} \X Slots \subseteq Loose(p) \cup {b}
      BY <1>20, <2>1
    <3> QED
      BY <1>9, <3>1
  <2>3. pc'[t] = "unlist" /\ call'[t].page = p /\ call'[t].size = d
    BY <1>16, <1>d, <1>l, <1>p, <2>2
  <2> QED
    BY <1>12, <2>3 DEF Emptying
<1>24. HasDesc(pc[t], call[t]) /\ pc[t] # "take" /\ pc[t] # "unlist"
  BY <1>1 DEF HasDesc
<1>25. OfBlocks'
  <2>1. \A x : x[1] # p => (x \in ToSet(free_list'[d]) <=> x \in ToSet(free_list[d]))
    BY <1>2, <1>6, <1>11
  <2>2. \A x \in InHand(t) \cup Unlinking(t) \cup BlockOf(place, c) \cup UnlinkedOf(place, c) :
          x[1] = p
    BY <1>2, <1>3, <1>15
  <2>3. /\ \A q \in Arenas : q # p => q \in Arenas' /\ arena'[q] = arena[q]
        /\ \A q \in Arenas' : q # p => q \in Arenas
    BY <1>12, <1>13 DEF Arenas
  <2>4. \A x \in ToSet(free_list'[d]) : x[1] = p =>
          p \in Arenas' /\ x \notin BlockOf(place, c) \cup UnlinkedOf(place, c) /\ Nobodys(x, t)
    BY <1>4, <1>11, <1>13, <1>15, <1>17
  <2>5. DescLocked /\ OfBlocks
    BY DEF Accounts, Local
  <2>6. place = "unlist" => NoneOut(p, t)
    BY <1>22, <1>l
  <2>7. arena'[p].free_cnt = Cardinality(Loose(p)')
    BY <1>9, <1>12, <1>20
  <2>8. p \in Arenas' /\ IsInjective(free_list'[d])
    BY <1>4, <1>6, <1>11, <1>13
  <2>9. call[t].size = d /\ c.size = d /\ c.page = p
    BY <1>d, <1>p
  <2> HIDE DEF c
  <2> QED
    BY <1>2, <1>4, <1>10, <1>11, <1>12, <1>15, <1>19, <1>23, <1>24, <2>1, <2>2, <2>3, <2>4,
       <2>5, <2>6, <2>7, <2>8, <2>9, ListStep
<1>26. Sized(place, c)
  BY <1>1, <1>2, <1>14 DEF Sized
<1>27. /\ \A q : q \in Arenas' \/ q \in PagesOf(place, c) <=> q \in Arenas \/ q \in PagesMoving(t)
       /\ \A q \in Pages : arena'[q] = arena[q] \/ q \in Arenas \/ q \in Arenas'
       /\ Arenas' \cap PagesOf(place, c) = {}
  BY <1>3, <1>4, <1>12, <1>13, <1>15
<1>28. call[t].size = d /\ c.size = d
  BY <1>d
<1> HIDE DEF c
<1> QED
  BY <1>2, <1>10, <1>11, <1>14, <1>24, <1>25, <1>26, <1>27, <1>28, ListAccounts

(* What a thread that takes arena p apart finds, and what it leaves. *)
LEMMA Unlinks ==
  ASSUME AllocatorInv, Accounts, NEW t \in Threads, NEW p, NEW d, NEW i, NEW b,
         pc[t] = "unlist", p = call[t].page, d = call[t].size, i = call[t].bit, b = <<p, i>>
  PROVE  /\ d \in Descs /\ p \in Pages /\ p \in Nat /\ p # None /\ i \in Slots /\ i \in Nat
         /\ call[t].kind = "block" /\ call[t].op = "free" /\ call[t].cnt = 1
         /\ p \in Arenas /\ arena[p].desc = d /\ NoneOut(p, t)
         /\ InHand(t) = {} /\ PagesMoving(t) = {}
         /\ Unlinking(t) = {<<p, j>> : j \in 0..(i - 1)}
         /\ \A u \in Threads \ {t} : \A x \in Unlinking(u) : x[1] # p
         /\ IsInjective(list_remove(free_list[d], b))
         /\ ToSet(list_remove(free_list[d], b)) = ToSet(free_list[d]) \ {b}
         /\ b \in ToSet(free_list[d])
         /\ \A x \in ToSet(free_list[d]) : Nobodys(x, t) /\ x \notin Unlinking(t)
<1> DEFINE c == call[t]
<1>1. /\ c \in Calls /\ Sized("unlist", c) /\ Ready("unlist", c)
      /\ PagesMoving(t) = PagesOf("unlist", c) /\ InHand(t) = BlockOf("unlist", c)
  BY Quiet
<1>2. /\ d \in Descs /\ c.kind = "block" /\ c.op = "free" /\ p \in Pages /\ i \in Nat
      /\ i < blocks_per_arena /\ c.cnt = 1
  BY <1>1 DEF Ready, OfBlock, Sized, Calls
<1>3. p \in Nat /\ p # None /\ i \in Slots
  BY <1>2 DEF Slots, Pages
<1>4. p \in Arenas /\ arena[p].desc = d /\ NoneOut(p, t)
  BY DEF Accounts, OfBlocks, BlocksPlaced, NoneOut
<1>5. InHand(t) = {} /\ PagesMoving(t) = {} /\ Unlinking(t) = {<<p, j>> : j \in 0..(i - 1)}
  BY <1>1 DEF BlockOf, PagesOf, Unlinking, UnlinkedOf
<1>6. \A u \in Threads \ {t} : \A x \in Unlinking(u) : x[1] # p
  <2> SUFFICES ASSUME NEW u \in Threads \ {t}, NEW x \in Unlinking(u), x[1] = p PROVE FALSE
    OBVIOUS
  <2>1. pc[u] = "unlist" /\ call[u].page = p
    BY DEF Unlinking, UnlinkedOf
  <2>2. call[u].size = call[t].size
    BY <1>4, <2>1 DEF Accounts, OfBlocks, BlocksPlaced
  <2> QED
    BY <2>1, <2>2, OneHasDesc DEF Accounts, Local, HasDesc
<1>7. free_list[d] \in Seq(Cells) /\ IsInjective(free_list[d])
  BY <1>2 DEF AllocatorInv, TypeOK, Accounts, OfBlocks, BlocksPlaced
<1>8. /\ IsInjective(list_remove(free_list[d], b))
      /\ ToSet(list_remove(free_list[d], b)) = ToSet(free_list[d]) \ {b}
  BY <1>7, RemoveUnique
<1>9. b \in ToSet(free_list[d])
  <2>1. Somewhere(b)
    BY <1>3, <1>4 DEF Accounts, OfBlocks, Covered
  <2>2. b \notin Unlinking(t)
    BY <1>2, <1>5
  <2>3. \A u \in Threads : b \notin InHand(u) /\ \A e \in held[u] : b \notin Blk(e)
    BY <1>4, <1>5 DEF NoneOut
  <2>4. \A u \in Threads \ {t} : b \notin Unlinking(u)
    BY <1>6
  <2> QED
    BY <1>4, <2>1, <2>2, <2>3, <2>4 DEF Somewhere
<1>10. \A x \in ToSet(free_list[d]) : Nobodys(x, t) /\ x \notin Unlinking(t)
  BY <1>2 DEF Nobodys, Accounts, OfBlocks, BlocksApart
<1> QED
  BY <1>2, <1>3, <1>4, <1>5, <1>6, <1>8, <1>9, <1>10

LEMMA UnlistAccounts ==
  ASSUME AllocatorInv, AllocatorInv', Accounts, NEW t \in Threads, Unlist(t),
         call[t].bit + 1 < blocks_per_arena
  PROVE  Accounts'
<1> DEFINE c == call[t]
<1>d. PICK d : d = c.size
  OBVIOUS
<1>p. PICK p : p = c.page
  OBVIOUS
<1>i. PICK i : i = c.bit
  OBVIOUS
<1>b. PICK b : b = <<p, i>>
  OBVIOUS
<1>n. PICK n : n = [c EXCEPT !.bit = @ + 1]
  OBVIOUS
<1>1. /\ panicked = FALSE /\ c \in Calls /\ Sized("unlist", c) /\ pc[t] = "unlist"
  BY Quiet DEF Unlist, At
<1>2. /\ d \in Descs /\ p \in Pages /\ p # None /\ i \in Slots /\ i \in Nat
      /\ c.kind = "block" /\ c.op = "free"
      /\ p \in Arenas /\ arena[p].desc = d /\ NoneOut(p, t)
      /\ InHand(t) = {} /\ PagesMoving(t) = {}
      /\ Unlinking(t) = {<<p, j>> : j \in 0..(i - 1)}
      /\ \A u \in Threads \ {t} : \A x \in Unlinking(u) : x[1] # p
      /\ IsInjective(list_remove(free_list[d], b))
      /\ ToSet(list_remove(free_list[d], b)) = ToSet(free_list[d]) \ {b}
      /\ b \in ToSet(free_list[d])
      /\ \A x \in ToSet(free_list[d]) : Nobodys(x, t) /\ x \notin Unlinking(t)
  BY <1>1, <1>d, <1>p, <1>i, <1>b, Unlinks
<1>3. n.page = p /\ n.bit = i + 1 /\ n.op = c.op /\ n.kind = c.kind /\ n.size = d
        /\ n.cnt = c.cnt /\ n.slot = c.slot /\ n.old = c.old
  BY <1>1, <1>d, <1>p, <1>i, <1>n DEF Calls
<1>4. Steps(t, "unlist", n)
  BY <1>1, <1>n DEF Unlist, Set, Steps, AllocatorInv, TypeOK
<1>5. /\ free_list' = [free_list EXCEPT ![d] = list_remove(free_list[d], b)]
      /\ UNCHANGED <<held, used_map, desc_lock, arena>> /\ panicked' = FALSE
  BY <1>1, <1>2, <1>b, <1>d, <1>i, <1>p DEF Unlist, pool, contents, AllocatorInv, TypeOK
<1>6. /\ free_list'[d] = list_remove(free_list[d], b)
      /\ \A x \in Descs \ {d} : free_list'[x] = free_list[x]
  BY <1>2, <1>5 DEF AllocatorInv, TypeOK
<1>7. Arenas' = Arenas
  BY <1>5 DEF Arenas
<1>8. BlockOf("unlist", n) = {} /\ PagesOf("unlist", n) = {}
  BY <1>2, <1>3 DEF BlockOf, PagesOf
<1>9. UnlinkedOf("unlist", n) = Unlinking(t) \cup {b}
  <2>1. \A j : j \in 0..(i + 1 - 1) <=> j \in 0..(i - 1) \/ j = i
    BY <1>2
  <2>2. UnlinkedOf("unlist", n) = {<<p, j>> : j \in 0..(i + 1 - 1)}
    <3>1. UnlinkedOf("unlist", n) = {<<n.page, j>> : j \in 0..(n.bit - 1)}
      BY DEF UnlinkedOf
    <3>2. n.page = p /\ n.bit - 1 = i + 1 - 1
      BY <1>2, <1>3
    <3> QED
      BY <3>1, <3>2
  <2> QED
    BY <1>2, <1>b, <2>1, <2>2
<1>10. /\ InHand(t)' = {} /\ Unlinking(t)' = Unlinking(t) \cup {b}
       /\ pc'[t] = "unlist" /\ call'[t] = n
       /\ \A u \in Threads \ {t} : InHand(u)' = InHand(u) /\ Unlinking(u)' = Unlinking(u)
  BY <1>4, <1>8, <1>9, Others DEF AllocatorInv
<1>11. \A e : Blk(e)' = Blk(e)
  BY DEF Blk
<1>12. \A x : /\ (\E u \in Threads : x \in Unlinking(u)')
                   <=> (x = b \/ \E u \in Threads : x \in Unlinking(u))
              /\ x \in ToSet(free_list'[d]) <=> x # b /\ x \in ToSet(free_list[d])
  BY <1>2, <1>6, <1>10
<1>13. ASSUME NEW j \in Slots PROVE Somewhere(<<p, j>>)'
  <2>1. Somewhere(<<p, j>>)
    BY <1>2 DEF Accounts, OfBlocks, Covered
  <2>2. \A u \in Threads : <<p, j>> \notin InHand(u) /\ \A e \in held[u] : <<p, j>> \notin Blk(e)
    BY <1>2 DEF NoneOut
  <2>3. <<p, j>> \in ToSet(free_list[d]) \/ \E u \in Threads : <<p, j>> \in Unlinking(u)
    BY <1>2, <2>1, <2>2 DEF Somewhere
  <2>4. <<p, j>> \in ToSet(free_list'[d]) \/ \E u \in Threads : <<p, j>> \in Unlinking(u)'
    BY <1>12, <2>3
  <2> QED
    BY <1>2, <1>5, <2>4 DEF Somewhere
<1>14. Loose(p)' = Loose(p)
  <2>1. \A x : x \in Loose(p) <=>
          x[1] = p /\ (x \in ToSet(free_list[d]) \/ \E u \in Threads : x \in Unlinking(u))
    BY <1>2 DEF Loose
  <2>2. \A x : x \in Loose(p)' <=>
          x[1] = p /\ (x \in ToSet(free_list'[d]) \/ \E u \in Threads : x \in Unlinking(u)')
    BY <1>2, <1>5 DEF Loose
  <2>3. \A x : x \in Loose(p)' <=> x \in Loose(p)
    BY <1>2, <1>12, <2>1, <2>2
  <2> QED
    BY <2>3
<1>15. Emptying(p)'
  BY <1>2, <1>3, <1>5, <1>10 DEF Emptying
<1>16. HasDesc(pc[t], call[t]) /\ pc[t] # "take" /\ pc[t] = "unlist"
  BY <1>1 DEF HasDesc
<1>17. OfBlocks'
  <2>1. \A x : x[1] # p => (x \in ToSet(free_list'[d]) <=> x \in ToSet(free_list[d]))
    BY <1>12, <1>b
  <2>2. \A x \in InHand(t) \cup Unlinking(t) \cup BlockOf("unlist", n) \cup UnlinkedOf("unlist", n) :
          x[1] = p
    BY <1>2, <1>8, <1>9, <1>b
  <2>3. /\ \A q \in Arenas : q # p => q \in Arenas' /\ arena'[q] = arena[q]
        /\ \A q \in Arenas' : q # p => q \in Arenas
    BY <1>5, <1>7
  <2>4. \A x \in ToSet(free_list'[d]) : x[1] = p =>
          p \in Arenas' /\ x \notin BlockOf("unlist", n) \cup UnlinkedOf("unlist", n)
            /\ Nobodys(x, t)
    BY <1>2, <1>7, <1>8, <1>9, <1>12
  <2>5. DescLocked /\ OfBlocks
    BY DEF Accounts, Local
  <2>6. arena'[p].free_cnt = Cardinality(Loose(p)') /\ arena'[p].desc = d
    BY <1>2, <1>5, <1>14 DEF Accounts, OfBlocks, Counted
  <2>7. p \in Arenas' /\ IsInjective(free_list'[d])
    BY <1>2, <1>6, <1>7
  <2>8. call[t].size = d /\ call[t].page = p
    BY <1>d, <1>p
  <2> HIDE DEF c
  <2> QED
    BY <1>2, <1>3, <1>4, <1>5, <1>6, <1>8, <1>13, <1>15, <1>16, <2>1, <2>2, <2>3, <2>4,
       <2>5, <2>6, <2>7, <2>8, ListStep
<1>18. Sized("unlist", n)
  BY <1>1, <1>2, <1>3, <1>d, <1>i DEF Sized
<1>19. /\ \A q : q \in Arenas' \/ q \in PagesOf("unlist", n)
                   <=> q \in Arenas \/ q \in PagesMoving(t)
       /\ \A q \in Pages : arena'[q] = arena[q] \/ q \in Arenas \/ q \in Arenas'
       /\ Arenas' \cap PagesOf("unlist", n) = {}
  BY <1>2, <1>5, <1>7, <1>8
<1>20. call[t].size = d
  BY <1>d
<1>21. n.op # "malloc"
  BY <1>2, <1>3
<1> HIDE DEF c
<1> QED
  BY <1>2, <1>3, <1>4, <1>5, <1>6, <1>16, <1>17, <1>18, <1>19, <1>20, <1>21, ListAccounts

LEMMA GiveBackAccounts ==
  ASSUME AllocatorInv, AllocatorInv', Accounts, NEW t \in Threads, Unlist(t),
         ~(call[t].bit + 1 < blocks_per_arena)
  PROVE  Accounts'
<1> DEFINE c == call[t]
<1>d. PICK d : d = c.size
  OBVIOUS
<1>p. PICK p : p = c.page
  OBVIOUS
<1>i. PICK i : i = c.bit
  OBVIOUS
<1>b. PICK b : b = <<p, i>>
  OBVIOUS
<1>n. PICK n : n = [c EXCEPT !.bit = 0]
  OBVIOUS
<1>1. /\ panicked = FALSE /\ c \in Calls /\ Sized("unlist", c) /\ pc[t] = "unlist"
  BY Quiet DEF Unlist, At
<1>2. /\ d \in Descs /\ p \in Pages /\ p \in Nat /\ p # None /\ i \in Slots /\ i \in Nat
      /\ c.kind = "block" /\ c.op = "free" /\ c.cnt = 1
      /\ p \in Arenas /\ arena[p].desc = d /\ NoneOut(p, t)
      /\ InHand(t) = {} /\ PagesMoving(t) = {}
      /\ Unlinking(t) = {<<p, j>> : j \in 0..(i - 1)}
      /\ IsInjective(list_remove(free_list[d], b))
      /\ ToSet(list_remove(free_list[d], b)) = ToSet(free_list[d]) \ {b}
      /\ \A x \in ToSet(free_list[d]) : x \notin Unlinking(t)
  BY <1>1, <1>d, <1>p, <1>i, <1>b, Unlinks
<1>3. n.page = p /\ n.bit = 0 /\ n.op = c.op /\ n.kind = c.kind /\ n.size = d
        /\ n.cnt = c.cnt /\ n.slot = c.slot /\ n.old = c.old
  BY <1>1, <1>d, <1>p, <1>n DEF Calls
<1>4. Steps(t, "reset", n)
  BY <1>n DEF Unlist, Set, Goto, Steps
<1>5. /\ free_list' = [free_list EXCEPT ![d] = list_remove(free_list[d], b)]
      /\ UNCHANGED <<held, used_map, desc_lock>> /\ panicked' = FALSE
      /\ arena' = [q \in Pages |-> IF q = p THEN None ELSE arena[q]]
  <2>1. p \in used_map
    BY <1>2, MineApart DEF Accounts, OfPages
  <2>2. Run(p, 1) = {p}
    BY <1>2 DEF Run
  <2>3. arena' = [q \in Pages |-> IF q = p THEN None ELSE arena[q]]
    BY <1>p, <2>2 DEF Unlist, Overwrite
  <2>4. panicked' = FALSE
    BY <1>p, <2>1 DEF Unlist, ASSERTION
  <2> QED
    BY <1>1, <1>2, <1>b, <1>d, <1>i, <1>p, <2>3, <2>4 DEF Unlist, pool, AllocatorInv, TypeOK
<1>6. /\ free_list'[d] = list_remove(free_list[d], b)
      /\ \A x \in Descs \ {d} : free_list'[x] = free_list[x]
  BY <1>2, <1>5 DEF AllocatorInv, TypeOK
<1>7. Arenas' = Arenas \ {p} /\ \A q \in Pages : q # p => arena'[q] = arena[q]
  BY <1>2, <1>5 DEF Arenas
<1>8. BlockOf("reset", n) = {} /\ UnlinkedOf("reset", n) = {} /\ PagesOf("reset", n) = {p}
  <2>1. PagesOf("reset", n) = (p + 0)..(p + 1 - 1)
    BY <1>2, <1>3 DEF PagesOf
  <2>2. (p + 0)..(p + 1 - 1) = {p}
    BY <1>2
  <2> QED
    BY <1>2, <1>3, <2>1, <2>2 DEF BlockOf, UnlinkedOf
<1>9. \A x \in ToSet(free_list'[d]) : x[1] # p
  <2> SUFFICES ASSUME NEW x \in ToSet(free_list[d]), x # b, x[1] = p PROVE FALSE
    BY <1>2, <1>6
  <2>1. x \in Cells
    BY <1>2 DEF AllocatorInv, TypeOK, ToSet
  <2>2. PICK j \in Slots : x = <<p, j>>
    BY <2>1 DEF Cells
  <2>3. j # i
    BY <1>b, <2>2
  <2>4. j \in 0..(i - 1)
    BY <1>2, <1>i, <2>2, <2>3 DEF Slots
  <2> QED
    BY <1>2, <2>2, <2>4
<1>10. HasDesc(pc[t], call[t]) /\ pc[t] # "take" /\ pc[t] = "unlist"
  BY <1>1 DEF HasDesc
<1>11. OfBlocks'
  <2>1. \A x : x[1] # p => (x \in ToSet(free_list'[d]) <=> x \in ToSet(free_list[d]))
    BY <1>2, <1>6, <1>b
  <2>2. \A x \in InHand(t) \cup Unlinking(t) \cup BlockOf("reset", n) \cup UnlinkedOf("reset", n) :
          x[1] = p
    BY <1>2, <1>8
  <2>3. /\ \A q \in Arenas : q # p => q \in Arenas' /\ arena'[q] = arena[q]
        /\ \A q \in Arenas' : q # p => q \in Arenas
    BY <1>7 DEF Arenas
  <2>4. DescLocked /\ OfBlocks
    BY DEF Accounts, Local
  <2>5. p \notin Arenas' /\ IsInjective(free_list'[d])
    BY <1>2, <1>6, <1>7
  <2>6. call[t].size = d /\ call[t].page = p
    BY <1>d, <1>p
  <2> HIDE DEF c
  <2> QED
    BY <1>2, <1>3, <1>4, <1>5, <1>6, <1>8, <1>9, <1>10, <2>1, <2>2, <2>3, <2>4, <2>5, <2>6,
       ListStep
<1>12. Sized("reset", n)
  <2>1. p + 1 <= PageCnt
    BY <1>2 DEF Pages
  <2> QED
    BY <1>1, <1>2, <1>3, <2>1 DEF Sized
<1>13. /\ \A q : q \in Arenas' \/ q \in PagesOf("reset", n) <=> q \in Arenas \/ q \in PagesMoving(t)
       /\ \A q \in Pages : arena'[q] = arena[q] \/ q \in Arenas \/ q \in Arenas'
       /\ Arenas' \cap PagesOf("reset", n) = {}
  BY <1>2, <1>7, <1>8
<1>14. call[t].size = d
  BY <1>d
<1>15. n.op # "malloc"
  BY <1>2, <1>3
<1> HIDE DEF c
<1> QED
  BY <1>2, <1>3, <1>4, <1>5, <1>6, <1>10, <1>11, <1>12, <1>13, <1>14, <1>15, ListAccounts

-----------------------------------------------------------------------------
(***************************************************************************)
(* Steps in which a thread gets what its call has in hand, or puts what it *)
(* has in the hands of a call that frees it, or both.                      *)
(***************************************************************************)
Cleared(p, t, gone) ==
  /\ arena'[p] = None \/ arena'[p].desc = None
  /\ \/ p \in PagesMoving(t)
     \/ \E e \in held[t] : p \in Pgs(e) /\ (e \in gone \/ e.kind = "pages")

LEMMA ClientAccounts ==
  ASSUME AllocatorInv, AllocatorInv', Accounts, NEW t \in Threads, NEW place, NEW n,
         Steps(t, place, n), pc[t] \in {"user", "return"},
         place \in {"user", "desc_lock", "reset"}, n.op # "malloc", Sized(place, n),
         ~HasDesc(place, n), panicked' = FALSE, UNCHANGED <<used_map, desc_lock, free_list>>,
         NEW gone \in SUBSET held[t], NEW got,
         held'[t] = (held[t] \ gone) \cup got, \A u \in Threads \ {t} : held'[u] = held[u],
         \A e, f \in got : e = f,
         \A p : p \in PagesMoving(t) <=> \E e \in got : p \in Pgs(e),
         \A b : b \in InHand(t) <=> \E e \in got : b \in Blk(e),
         \A p : p \in PagesOf(place, n) <=> \E e \in gone : p \in Pgs(e),
         \A b : b \in BlockOf(place, n) <=> \E e \in gone : b \in Blk(e),
         BlockOf(place, n) # {} => arena[n.page].desc = n.size,
         \A e \in got : /\ e.kind # "block" => e.page + e.size <= PageCnt
                        /\ e.kind = "big" => arena'[e.page] = [desc |-> None, free_cnt |-> e.size],
         \A p \in Pages : arena'[p] # arena[p] => Cleared(p, t, gone)
  PROVE  Accounts'
<1>1. /\ PagesMoving(t)' = PagesOf(place, n) /\ InHand(t)' = BlockOf(place, n)
      /\ \A u \in Threads \ {t} : PagesMoving(u)' = PagesMoving(u)
  BY Others DEF AllocatorInv
<1>2. \A e : Pgs(e)' = Pgs(e) /\ Blk(e)' = Blk(e)
  BY DEF Pgs, Blk
<1>3. Local'
  <2>1. IsClear(place, n, used_map') /\ ~NeedsArena(place, n) /\ used_map' \subseteq used_map
    BY DEF IsClear, NeedsArena, Scanning
  <2>2. \A u \in Threads \ {t} : HasDesc(pc[u], call[u]) =>
          /\ desc_lock'[call[u].size] = desc_lock[call[u].size]
          /\ free_list'[call[u].size] = free_list[call[u].size]
    OBVIOUS
  <2> QED
    BY <2>1, <2>2, LocalKeeps DEF Accounts
<1>4. ASSUME NEW e \in held[t] PROVE Pgs(e) \cap Arenas = {} /\ Pgs(e) \cap PagesMoving(t) = {}
  BY DEF Accounts, OfPages, PagesApart
<1>5. PagesMoving(t) \cap Arenas = {}
  BY DEF Accounts, OfPages, PagesApart
<1>6. Arenas' = Arenas /\ \A p \in Arenas : arena'[p] = arena[p]
  <2>1. ASSUME NEW p \in Pages, arena'[p] # arena[p]
        PROVE  p \notin Arenas /\ (arena'[p] = None \/ arena'[p].desc = None)
    BY <1>4, <1>5, <2>1 DEF Cleared
  <2>2. \A p \in Pages : p \in Arenas' <=> p \in Arenas
    BY <2>1 DEF Arenas
  <2>3. Arenas \subseteq Pages /\ Arenas' \subseteq Pages
    BY DEF Arenas
  <2> QED
    BY <2>1, <2>2, <2>3
<1>7. /\ \A e \in got : Pgs(e) \subseteq PagesMoving(t) /\ Blk(e) \subseteq InHand(t)
      /\ \A e \in gone : Pgs(e) \subseteq PagesOf(place, n) /\ Blk(e) \subseteq BlockOf(place, n)
  OBVIOUS
<1>8. PagesApart' /\ PagesMarked'
  <2>1. ASSUME NEW p PROVE p \in Mine(t)' <=> p \in Mine(t)
    <3>1. p \in Mine(t)' <=> \/ \E e \in gone : p \in Pgs(e)
                             \/ \E e \in (held[t] \ gone) : p \in Pgs(e)
                             \/ \E e \in got : p \in Pgs(e)
      BY <1>1, <1>2 DEF Mine
    <3>2. p \in Mine(t) <=> p \in PagesMoving(t) \/ \E e \in held[t] : p \in Pgs(e)
      BY DEF Mine
    <3>3. p \in PagesMoving(t) <=> \E e \in got : p \in Pgs(e)
      OBVIOUS
    <3> QED
      BY <3>1, <3>2, <3>3
  <2>2. Mine(t) \subseteq used_map /\ Arenas \subseteq used_map
    BY MineApart DEF Accounts, OfPages
  <2>3. \A e, f \in held[t] : Pgs(e) \cap Pgs(f) # {} => e = f
    BY DEF Accounts, OfPages, PagesApart
  <2>4. \A e, f \in held'[t] : Pgs(e) \cap Pgs(f) # {} => e = f
    BY <1>4, <1>7, <2>3
  <2>5. ASSUME NEW e \in held'[t]
        PROVE  Pgs(e) \cap PagesMoving(t)' = {} /\ Arenas' \cap Pgs(e) = {}
    <3>1. \A g \in gone : Pgs(e) \cap Pgs(g) = {}
      <4>1. CASE e \in got
        BY <1>4, <1>7, <4>1
      <4>2. CASE e \in held[t] \ gone
        BY <2>3, <4>2
      <4> QED
        BY <4>1, <4>2
    <3>2. Pgs(e) \cap Arenas = {}
      BY <1>4, <1>5, <1>7
    <3> QED
      BY <1>1, <1>6, <3>1, <3>2
  <2>6. Arenas' \cap PagesMoving(t)' = {}
    BY <1>1, <1>4, <1>6
  <2>7. \A u \in Threads \ {t} : held'[u] = held[u] /\ PagesMoving(u)' = PagesMoving(u)
    BY <1>1
  <2>8. \A p \in Arenas' \cup Mine(t)' : p \in Arenas \cup Mine(t)
    BY <1>6, <2>1
  <2>9. \A p : p \in used_map' <=>
          p \in Arenas' \cup Mine(t)' \/ (p \in used_map /\ p \notin Arenas \cup Mine(t))
    BY <1>6, <2>1, <2>2
  <2> QED
    BY <2>4, <2>5, <2>6, <2>7, <2>8, <2>9, PagesKeep DEF Accounts, OfPages
<1>9. Bigs'
  <2> SUFFICES ASSUME NEW u \in Threads, NEW e \in held'[u]
               PROVE  /\ e.kind # "block" => e.page + e.size <= PageCnt
                      /\ e.kind = "big" => arena'[e.page] = [desc |-> None, free_cnt |-> e.size]
    BY DEF Bigs
  <2>1. CASE u = t /\ e \in got
    BY <2>1
  <2>2. CASE ~(u = t /\ e \in got)
    <3>1. e \in held[u] /\ (u = t => e \notin gone)
      BY <2>2
    <3>2. /\ e.kind # "block" => e.page + e.size <= PageCnt
          /\ e.kind = "big" => arena[e.page] = [desc |-> None, free_cnt |-> e.size]
      BY <3>1 DEF Accounts, OfPages, Bigs
    <3>3. ASSUME e.kind = "big" PROVE arena'[e.page] = arena[e.page]
      <4>1. e.page \in Pgs(e) /\ e.page \in Pages
        BY <3>1, <3>3, BigPage
      <4>2. e.page \notin PagesMoving(t)
        BY <3>1, <4>1 DEF Accounts, OfPages, PagesApart
      <4>3. \A f \in held[t] : e.page \in Pgs(f) => f = e /\ u = t
        BY <3>1, <4>1 DEF Accounts, OfPages, PagesApart
      <4> QED
        BY <3>1, <3>3, <4>1, <4>2, <4>3 DEF Cleared
    <3> QED
      BY <3>2, <3>3
  <2> QED
    BY <2>1, <2>2
<1>10. OfBlocks'
  <2>1. ASSUME NEW b PROVE b \in MineB(t)' <=> b \in MineB(t)
    <3>1. b \in MineB(t)' <=> \/ \E e \in gone : b \in Blk(e)
                              \/ \E e \in (held[t] \ gone) : b \in Blk(e)
                              \/ \E e \in got : b \in Blk(e)
      BY <1>1, <1>2 DEF MineB
    <3>2. b \in MineB(t) <=> b \in InHand(t) \/ \E e \in held[t] : b \in Blk(e)
      BY DEF MineB
    <3>3. b \in InHand(t) <=> \E e \in got : b \in Blk(e)
      OBVIOUS
    <3> QED
      BY <3>1, <3>2, <3>3
  <2>2. MineB(t)' = MineB(t)
    BY <2>1
  <2>3. /\ \A e, f \in held[t] : Blk(e) \cap Blk(f) # {} => e = f
        /\ \A e \in held[t] : Blk(e) \cap InHand(t) = {}
    BY DEF Accounts, OfBlocks, BlocksApart
  <2>4. \A e, f \in held'[t] : Blk(e) \cap Blk(f) # {} => e = f
    BY <1>7, <2>3
  <2>5. ASSUME NEW e \in held'[t] PROVE Blk(e) \cap BlockOf(place, n) = {}
    <3>1. \A g \in gone : Blk(e) \cap Blk(g) = {}
      <4>1. CASE e \in got
        BY <1>7, <2>3, <4>1
      <4>2. CASE e \in held[t] \ gone
        BY <2>3, <4>2
      <4> QED
        BY <4>1, <4>2
    <3> QED
      BY <3>1
  <2>6. DescLocked /\ OfBlocks
    BY DEF Accounts, Local
  <2>7. pc[t] # "unlist" /\ place # "unlist" /\ pc[t] # "take"
    OBVIOUS
  <2> QED
    BY <1>6, <2>2, <2>4, <2>5, <2>6, <2>7, BlocksKeep
<1> QED
  BY <1>3, <1>8, <1>9, <1>10 DEF Accounts, OfPages

(* What free() of e begins with: e goes into the hands of the call. *)
Hands(t, e, place, n, headers) ==
  /\ place \in {"desc_lock", "reset"}
  /\ Steps(t, place, n) /\ n.op # "malloc" /\ Sized(place, n) /\ ~HasDesc(place, n)
  /\ panicked' = FALSE
  /\ PagesOf(place, n) = Pgs(e) /\ BlockOf(place, n) = Blk(e)
  /\ BlockOf(place, n) # {} => arena[n.page].desc = n.size
  /\ \A p \in Pages : arena'[p] = IF p \in Pgs(e) THEN None ELSE headers[p]

LEMMA BeginFreeIs ==
  ASSUME AllocatorInv, Accounts, NEW t \in Threads, NEW e \in held[t], NEW mem,
         NEW headers \in [Pages -> Headers], headers[e.page] = arena[e.page],
         BeginFree(t, e, mem, headers)
  PROVE  \E place, n : Hands(t, e, place, n, headers)
<1> DEFINE a == headers[e.page]
<1>1. panicked = FALSE /\ e \in AnyExtent /\ e.kind \in Kinds /\ e.page \in Pages
      /\ e.page # None
  <2>1. \A q \in Pages : q # None
    BY DEF Pages
  <2> QED
    BY <2>1 DEF Accounts, Local, AllocatorInv, TypeOK, AnyExtent
<1>2. CASE e.kind = "block"
  <2>1. PICK n : n = Freeing("block", a.desc, e, 1)
    OBVIOUS
  <2>2. a # None /\ a.desc # None /\ e.kind # "pages"
    BY <1>2 DEF Accounts, OfBlocks, BlocksPlaced, Arenas
  <2>3. arena' = headers /\ panicked' = panicked /\ Steps(t, "desc_lock", n)
    BY <2>1, <2>2 DEF BeginFree, Set, Goto, Steps
  <2>4. /\ n.op = "free" /\ n.kind = "block" /\ n.size = a.desc /\ n.page = e.page
        /\ n.slot = e.slot /\ n.cnt = 1 /\ n.bit = 0
    BY <2>1 DEF Freeing
  <2>5. Sized("desc_lock", n) /\ ~HasDesc("desc_lock", n)
    BY <2>4 DEF Sized, HasDesc, Scanning
  <2>6. PagesOf("desc_lock", n) = Pgs(e) /\ BlockOf("desc_lock", n) = Blk(e) /\ Pgs(e) = {}
    BY <1>1, <1>2, <2>4 DEF PagesOf, BlockOf, Pgs, Blk
  <2>7. \A p \in Pages : arena'[p] = IF p \in Pgs(e) THEN None ELSE headers[p]
    BY <2>3, <2>6
  <2> QED
    BY <1>1, <2>3, <2>4, <2>5, <2>6, <2>7 DEF Hands
<1>3. CASE e.kind # "block"
  <2>1. PICK n : n = Freeing("pages", e.size, e, e.size)
    OBVIOUS
  <2>2. e.page \in Pgs(e) /\ e.size \in Nat \ {0} /\ Pgs(e) = Run(e.page, e.size)
        /\ e.page + e.size <= PageCnt /\ e.page \in Nat
    BY <1>3, BigPage DEF Pgs, Accounts, OfPages, Bigs
  <2>3. e.kind # "pages" => e.kind = "big" /\ a # None /\ a.desc = None /\ a.free_cnt = e.size
    <3>1. SUFFICES ASSUME e.kind # "pages" PROVE a # None /\ a.desc = None /\ a.free_cnt = e.size
                          /\ e.kind = "big"
      OBVIOUS
    <3>2. e.kind = "big"
      BY <1>1, <1>3, <3>1 DEF Kinds
    <3>3. a = [desc |-> None, free_cnt |-> e.size]
      BY <3>2 DEF Accounts, OfPages, Bigs
    <3>4. a # None
      BY <1>1, <1>3, <3>3, HeaderAssumption DEF AnyExtent, PageCnts
    <3> QED
      BY <3>2, <3>3, <3>4
  <2>4. /\ arena' = [p \in Pages |-> IF p \in Run(e.page, e.size) THEN None ELSE headers[p]]
        /\ Steps(t, "reset", n) /\ panicked' = ~(Run(e.page, e.size) \subseteq used_map)
    BY <2>1, <2>3 DEF BeginFree, Set, Goto, Steps, ASSERTION
  <2>5. panicked' = FALSE
    <3>1. Pgs(e) \subseteq used_map
      BY DEF Accounts, OfPages, PagesMarked, Accounted
    <3> QED
      BY <2>2, <2>4, <3>1
  <2>6. /\ n.op = "free" /\ n.kind = "pages" /\ n.size = e.size /\ n.page = e.page
        /\ n.slot = e.slot /\ n.cnt = e.size /\ n.bit = 0
    BY <2>1 DEF Freeing
  <2>7. Sized("reset", n) /\ ~HasDesc("reset", n)
    BY <1>1, <2>2, <2>6 DEF Sized, HasDesc, Scanning
  <2>8. PagesOf("reset", n) = (e.page + 0)..(e.page + e.size - 1)
    BY <1>1, <2>6 DEF PagesOf
  <2>9. PagesOf("reset", n) = Pgs(e)
    BY <2>2, <2>8 DEF Run
  <2>10. BlockOf("reset", n) = {} /\ Blk(e) = {}
    BY <1>3 DEF BlockOf, Blk
  <2> QED
    BY <2>2, <2>4, <2>5, <2>6, <2>7, <2>9, <2>10 DEF Hands
<1> QED
  BY <1>2, <1>3

(* What a call that returns hands out. *)
LEMMA NewIs ==
  ASSUME AllocatorInv, Accounts, NEW t \in Threads, pc[t] = "return", call[t].page # None
  PROVE  /\ New(t).kind = call[t].kind /\ New(t).page = call[t].page
         /\ New(t).size = call[t].size
         /\ Pgs(New(t)) = PagesMoving(t) /\ Blk(New(t)) = InHand(t)
         /\ call[t].kind # "block" => /\ call[t].page + call[t].size <= PageCnt
                                      /\ call[t].cnt = call[t].size
                                      /\ call[t].page \in PagesMoving(t)
         /\ Header(t) \in [Pages -> Headers]
         /\ call[t].kind # "big" => Header(t) = arena
         /\ call[t].kind = "big" =>
              /\ Header(t)[call[t].page] = [desc |-> None, free_cnt |-> call[t].size]
              /\ \A p \in Pages : p # call[t].page => Header(t)[p] = arena[p]
<1> DEFINE c == call[t]
<1>1. /\ c \in Calls /\ Ready("return", c) /\ Sized("return", c)
      /\ PagesMoving(t) = PagesOf("return", c) /\ InHand(t) = BlockOf("return", c)
  BY Quiet
<1>2. c.op = "malloc" /\ c.page \in Pages /\ c.page \in Nat
      /\ (c.kind # "block" => c.size \in PageCnts /\ c.cnt = c.size)
  <2>1. Pages \subseteq Nat
    BY DEF Pages
  <2> QED
    BY <1>1, <2>1 DEF Ready, Sized
<1>3. New(t).kind = c.kind /\ New(t).page = c.page /\ New(t).size = c.size /\ New(t).slot = c.slot
  BY DEF New, Extent
<1>4. Pgs(New(t)) = PagesMoving(t) /\ Blk(New(t)) = InHand(t)
  BY <1>1, <1>2, <1>3 DEF Pgs, Blk, PagesOf, BlockOf
<1>5. ASSUME c.kind # "block" PROVE c.page \in PagesMoving(t) /\ c.page + c.size <= PageCnt
  <2>1. PagesMoving(t) = Run(c.page, c.size)
    BY <1>1, <1>2, <1>5 DEF PagesOf
  <2>2. PageCnts \subseteq Nat \ {0}
    BY DEF PageCnts
  <2>3. c.size \in Nat \ {0}
    BY <1>2, <1>5, <2>2
  <2> QED
    BY <1>1, <1>2, <1>5, <2>1, <2>3 DEF Run, Sized
<1>6. /\ Header(t) \in [Pages -> Headers]
      /\ c.kind # "big" => Header(t) = arena
      /\ c.kind = "big" => /\ Header(t)[c.page] = [desc |-> None, free_cnt |-> c.size]
                           /\ \A p \in Pages : p # c.page => Header(t)[p] = arena[p]
  <2>1. [desc |-> None, free_cnt |-> c.cnt] \in Headers
    BY <1>1 DEF Headers, Calls
  <2> QED
    BY <1>2, <2>1 DEF Header, AllocatorInv, TypeOK
<1> QED
  BY <1>2, <1>3, <1>4, <1>5, <1>6

LEMMA ReturnAccounts ==
  ASSUME AllocatorInv, AllocatorInv', Accounts, NEW t \in Threads, Return(t),
         call[t].page # None
  PROVE  Accounts'
<1>1. PICK e : e = New(t)
  OBVIOUS
<1>2. panicked = FALSE /\ pc[t] = "return"
  BY Quiet DEF Return, At
<1>3. /\ e.kind = call[t].kind /\ e.page = call[t].page /\ e.size = call[t].size
      /\ Pgs(e) = PagesMoving(t) /\ Blk(e) = InHand(t)
      /\ call[t].kind # "block" => /\ call[t].page + call[t].size <= PageCnt
                                   /\ call[t].page \in PagesMoving(t)
      /\ call[t].kind # "big" => Header(t) = arena
      /\ call[t].kind = "big" =>
           /\ Header(t)[call[t].page] = [desc |-> None, free_cnt |-> call[t].size]
           /\ \A p \in Pages : p # call[t].page => Header(t)[p] = arena[p]
  BY <1>1, <1>2, NewIs
<1>4. Steps(t, "user", NoCall) /\ arena' = Header(t) /\ held' = [held EXCEPT ![t] = @ \cup {e}]
  BY <1>1 DEF Return, End, Set, Goto, Steps
<1>5. NoCall.op = "none" /\ NoCall.page = None
  BY DEF NoCall
<1>6. Sized("user", NoCall) /\ ~HasDesc("user", NoCall)
      /\ PagesOf("user", NoCall) = {} /\ BlockOf("user", NoCall) = {}
  BY <1>5 DEF Sized, HasDesc, Scanning, PagesOf, BlockOf
<1>7. UNCHANGED <<used_map, desc_lock, free_list>> /\ panicked' = FALSE
  BY <1>2 DEF Return, pool, descs
<1> DEFINE gone == {}
           got == {e}
<1>8. /\ held'[t] = (held[t] \ gone) \cup got /\ gone \in SUBSET held[t]
      /\ \A u \in Threads \ {t} : held'[u] = held[u]
  BY <1>4 DEF AllocatorInv, TypeOK
<1>9. /\ \A p : p \in PagesMoving(t) <=> \E f \in got : p \in Pgs(f)
      /\ \A b : b \in InHand(t) <=> \E f \in got : b \in Blk(f)
      /\ \A p : p \in PagesOf("user", NoCall) <=> \E f \in gone : p \in Pgs(f)
      /\ \A b : b \in BlockOf("user", NoCall) <=> \E f \in gone : b \in Blk(f)
  BY <1>3, <1>6
<1>10. \A f \in got : /\ f.kind # "block" => f.page + f.size <= PageCnt
                      /\ f.kind = "big" => arena'[f.page] = [desc |-> None, free_cnt |-> f.size]
  BY <1>3, <1>4
<1>11. \A p \in Pages : arena'[p] # arena[p] => Cleared(p, t, gone)
  BY <1>3, <1>4 DEF Cleared
<1>12. \A f, g \in got : f = g
  OBVIOUS
<1> HIDE DEF gone, got
<1> QED
  BY <1>2, <1>4, <1>5, <1>6, <1>7, <1>8, <1>9, <1>10, <1>11, <1>12, ClientAccounts

LEMMA FreeAccounts ==
  ASSUME AllocatorInv, AllocatorInv', Accounts, NEW t \in Threads, NEW e \in held[t], Free(t, e)
  PROVE  Accounts'
<1>1. panicked = FALSE /\ pc[t] = "user" /\ call[t].op = "none" /\ arena \in [Pages -> Headers]
      /\ PagesMoving(t) = {} /\ InHand(t) = {}
  <2>1. panicked = FALSE /\ pc[t] = "user" /\ Sized("user", call[t])
        /\ PagesMoving(t) = PagesOf("user", call[t]) /\ InHand(t) = BlockOf("user", call[t])
    BY Quiet DEF Free, At
  <2> QED
    BY <2>1 DEF Sized, PagesOf, BlockOf, AllocatorInv, TypeOK
<1>2. BeginFree(t, e, memory, arena) /\ UNCHANGED <<used_map, desc_lock, free_list>>
      /\ held' = [held EXCEPT ![t] = @ \ {e}]
  BY DEF Free, pool, descs
<1>3. PICK mem, headers : mem = memory /\ headers = arena
  OBVIOUS
<1>4. PICK place, n : Hands(t, e, place, n, headers)
  <2>1. headers \in [Pages -> Headers] /\ headers[e.page] = arena[e.page]
        /\ BeginFree(t, e, mem, headers)
    BY <1>1, <1>2, <1>3
  <2> QED
    BY <2>1, BeginFreeIs
<1> DEFINE gone == {e}
           got == {}
<1>5. /\ held'[t] = (held[t] \ gone) \cup got /\ gone \in SUBSET held[t]
      /\ \A u \in Threads \ {t} : held'[u] = held[u]
  BY <1>2 DEF AllocatorInv, TypeOK
<1>6. /\ \A p : p \in PagesMoving(t) <=> \E f \in got : p \in Pgs(f)
      /\ \A b : b \in InHand(t) <=> \E f \in got : b \in Blk(f)
      /\ \A p : p \in PagesOf(place, n) <=> \E f \in gone : p \in Pgs(f)
      /\ \A b : b \in BlockOf(place, n) <=> \E f \in gone : b \in Blk(f)
  BY <1>1, <1>4 DEF Hands
<1>7. \A p \in Pages : arena'[p] # arena[p] => Cleared(p, t, gone)
  BY <1>3, <1>4 DEF Hands, Cleared
<1>8. got = {}
  OBVIOUS
<1>9. /\ Steps(t, place, n) /\ n.op # "malloc" /\ Sized(place, n) /\ ~HasDesc(place, n)
      /\ panicked' = FALSE /\ (BlockOf(place, n) # {} => arena[n.page].desc = n.size)
      /\ place \in {"user", "desc_lock", "reset"} /\ pc[t] \in {"user", "return"}
  BY <1>1, <1>4 DEF Hands
<1> HIDE DEF gone, got
<1> QED
  BY <1>2, <1>5, <1>6, <1>7, <1>8, <1>9, ClientAccounts

(* realloc()'s new block does not change the header of the old one. *)
LEMMA OldHeader ==
  ASSUME AllocatorInv, Accounts, NEW t \in Threads, pc[t] = "return", call[t].page # None,
         NEW o \in held[t]
  PROVE  Header(t)[o.page] = arena[o.page]
<1>1. o.page \in Pages
  BY DEF AllocatorInv, TypeOK, AnyExtent
<1>2. o.page \notin PagesMoving(t)
  <2>1. CASE o.kind = "block"
    BY <2>1 DEF Accounts, OfPages, PagesApart, OfBlocks, BlocksPlaced
  <2>2. CASE o.kind # "block"
    BY <2>2, BigPage DEF Accounts, OfPages, PagesApart
  <2> QED
    BY <2>1, <2>2
<1>3. /\ call[t].kind # "block" => call[t].page \in PagesMoving(t)
      /\ call[t].kind # "big" => Header(t) = arena
      /\ call[t].kind = "big" => \A p \in Pages : p # call[t].page => Header(t)[p] = arena[p]
  BY NewIs
<1> QED
  BY <1>1, <1>2, <1>3

LEMMA ResizeAccounts ==
  ASSUME AllocatorInv, AllocatorInv', Accounts, NEW t \in Threads, Resize(t)
  PROVE  Accounts'
<1>1. PICK e, o : e = New(t) /\ o = call[t].old
  OBVIOUS
<1>2. panicked = FALSE /\ pc[t] = "return" /\ call[t].page # None /\ o \in held[t]
  <2>1. Ready("return", call[t]) /\ pc[t] = "return" /\ call[t].old # None
    BY Quiet DEF Resize, At
  <2>2. call[t].op = "malloc"
    BY <2>1 DEF Ready
  <2> QED
    BY <1>1, <2>1, <2>2, Quiet DEF Resize
<1>3. /\ e.kind = call[t].kind /\ e.page = call[t].page /\ e.size = call[t].size
      /\ Pgs(e) = PagesMoving(t) /\ Blk(e) = InHand(t)
      /\ call[t].kind # "block" => /\ call[t].page + call[t].size <= PageCnt
                                   /\ call[t].page \in PagesMoving(t)
      /\ Header(t) \in [Pages -> Headers]
      /\ call[t].kind # "big" => Header(t) = arena
      /\ call[t].kind = "big" =>
           /\ Header(t)[call[t].page] = [desc |-> None, free_cnt |-> call[t].size]
           /\ \A p \in Pages : p # call[t].page => Header(t)[p] = arena[p]
  BY <1>1, <1>2, NewIs
<1>4. \E mem : BeginFree(t, o, mem, Header(t))
  BY <1>1 DEF Resize
<1>5. UNCHANGED <<used_map, desc_lock, free_list>>
      /\ held' = [held EXCEPT ![t] = (@ \ {o}) \cup {e}]
  BY <1>1 DEF Resize, pool, descs
<1>6. Header(t)[o.page] = arena[o.page]
  BY <1>1, <1>2, OldHeader
<1>7. PICK headers : headers = Header(t)
  OBVIOUS
<1>8. PICK place, n : Hands(t, o, place, n, headers)
  <2>1. PICK mem : BeginFree(t, o, mem, headers)
    BY <1>4, <1>7
  <2>2. headers \in [Pages -> Headers] /\ headers[o.page] = arena[o.page]
    BY <1>3, <1>6, <1>7
  <2> QED
    BY <1>2, <2>1, <2>2, BeginFreeIs
<1> DEFINE gone == {o}
           got == {e}
<1>9. /\ held'[t] = (held[t] \ gone) \cup got /\ gone \in SUBSET held[t]
      /\ \A u \in Threads \ {t} : held'[u] = held[u]
  BY <1>2, <1>5 DEF AllocatorInv, TypeOK
<1>10. /\ \A p : p \in PagesMoving(t) <=> \E f \in got : p \in Pgs(f)
       /\ \A b : b \in InHand(t) <=> \E f \in got : b \in Blk(f)
       /\ \A p : p \in PagesOf(place, n) <=> \E f \in gone : p \in Pgs(f)
       /\ \A b : b \in BlockOf(place, n) <=> \E f \in gone : b \in Blk(f)
  BY <1>3, <1>8 DEF Hands
<1>11. \A p \in Pages : arena'[p] # arena[p] => Cleared(p, t, gone)
  <2> SUFFICES ASSUME NEW p \in Pages, arena'[p] # arena[p] PROVE Cleared(p, t, gone)
    OBVIOUS
  <2>1. arena'[p] = IF p \in Pgs(o) THEN None ELSE Header(t)[p]
    BY <1>7, <1>8 DEF Hands
  <2>2. CASE p \in Pgs(o)
    BY <1>2, <2>1, <2>2 DEF Cleared
  <2>3. CASE p \notin Pgs(o)
    BY <1>3, <2>1, <2>3 DEF Cleared
  <2> QED
    BY <2>2, <2>3
<1>12. \A f \in got : /\ f.kind # "block" => f.page + f.size <= PageCnt
                      /\ f.kind = "big" => arena'[f.page] = [desc |-> None, free_cnt |-> f.size]
  <2>1. e.kind = "big" => call[t].page \notin Pgs(o) /\ call[t].page \in Pages
    <3>1. call[t].page \in Pages
      BY <1>2, Quiet DEF Ready
    <3> QED
      BY <1>2, <1>3, <3>1 DEF Accounts, OfPages, PagesApart
  <2> QED
    BY <1>3, <1>7, <1>8, <2>1 DEF Hands
<1>13. \A f, g \in got : f = g
  OBVIOUS
<1>14. /\ Steps(t, place, n) /\ n.op # "malloc" /\ Sized(place, n) /\ ~HasDesc(place, n)
       /\ panicked' = FALSE /\ (BlockOf(place, n) # {} => arena[n.page].desc = n.size)
       /\ place \in {"user", "desc_lock", "reset"} /\ pc[t] \in {"user", "return"}
  BY <1>2, <1>8 DEF Hands
<1> HIDE DEF gone, got
<1> QED
  BY <1>5, <1>9, <1>10, <1>11, <1>12, <1>13, <1>14, ClientAccounts, ZenonT(100)

LEMMA StoreAccounts ==
  ASSUME AllocatorInv, AllocatorInv', Accounts, NEW t \in Threads, NEW e \in held[t], NEW v,
         Store(t, e, v)
  PROVE  Accounts'
<1> DEFINE c == call[t]
<1>1. /\ panicked = FALSE /\ pc[t] = "user" /\ Sized("user", c)
      /\ PagesMoving(t) = PagesOf("user", c) /\ InHand(t) = BlockOf("user", c)
  BY Quiet DEF Store, At
<1>2. Steps(t, "user", c)
  BY <1>1 DEF Store, locals, Steps, AllocatorInv, TypeOK
<1>3. UNCHANGED <<held, used_map, desc_lock, free_list>> /\ panicked' = FALSE
  BY <1>1 DEF Store, locals, pool, descs
<1>4. c.op = "none" /\ ~HasDesc("user", c) /\ PagesOf("user", c) = {} /\ BlockOf("user", c) = {}
  BY <1>1 DEF Sized, HasDesc, Scanning, PagesOf, BlockOf
<1> DEFINE gone == {}
           got == {}
<1>5. \A p \in Pages : arena'[p] # arena[p] => Cleared(p, t, gone)
  BY DEF Store, Pgs, Cleared
<1>6. /\ held'[t] = (held[t] \ gone) \cup got /\ gone \in SUBSET held[t]
      /\ \A u \in Threads \ {t} : held'[u] = held[u]
  BY <1>3
<1>7. /\ \A p : p \in PagesMoving(t) <=> \E f \in got : p \in Pgs(f)
      /\ \A b : b \in InHand(t) <=> \E f \in got : b \in Blk(f)
      /\ \A p : p \in PagesOf("user", c) <=> \E f \in gone : p \in Pgs(f)
      /\ \A b : b \in BlockOf("user", c) <=> \E f \in gone : b \in Blk(f)
  BY <1>1, <1>4
<1>8. got = {} /\ c.op # "malloc"
  BY <1>4
<1> HIDE DEF gone, got, c
<1> QED
  BY <1>1, <1>2, <1>3, <1>4, <1>5, <1>6, <1>7, <1>8, ClientAccounts

-----------------------------------------------------------------------------
LEMMA InitAccounts == Init => Accounts
<1> SUFFICES ASSUME Init PROVE Accounts
  OBVIOUS
<1>1. /\ \A t \in Threads : pc[t] = "user" /\ call[t] = NoCall /\ held[t] = {}
      /\ used_map = {} /\ Arenas = {} /\ panicked = FALSE
      /\ \A d \in Descs : free_list[d] = <<>>
  BY DEF Init, Arenas
<1>2. NoCall.op = "none" /\ NoCall.page = None
  BY DEF NoCall
<1>3. \A t \in Threads : PagesMoving(t) = {} /\ InHand(t) = {} /\ Unlinking(t) = {}
  BY <1>1, <1>2 DEF PagesMoving, InHand, BlockOf, Unlinking, UnlinkedOf
<1>4. Local
  <2>1. AllSized /\ Olds /\ Clear
    BY <1>1, <1>2 DEF AllSized, Sized, Olds, Clear, IsClear
  <2>2. DescLocked
    BY <1>1 DEF DescLocked, HasDesc, NeedsArena, Scanning
  <2> QED
    BY <1>1, <2>1, <2>2 DEF Local
<1>5. OfPages
  BY <1>1, <1>3 DEF OfPages, PagesApart, PagesMarked, Accounted, Bigs
<1>6. OfBlocks
  <2>1. \A d \in Descs : ToSet(free_list[d]) = {} /\ IsInjective(free_list[d])
    BY <1>1 DEF ToSet, IsInjective
  <2>2. BlocksApart /\ BlocksPlaced
    BY <1>1, <1>3, <2>1 DEF BlocksApart, BlocksPlaced
  <2>3. Covered /\ Counted /\ Emptied
    BY <1>1 DEF Covered, Counted, Emptied
  <2> QED
    BY <2>2, <2>3 DEF OfBlocks
<1> QED
  BY <1>4, <1>5, <1>6 DEF Accounts

LEMMA AccountsKeep == AllocatorInv /\ Accounts /\ [Next]_vars => Accounts'
<1> SUFFICES ASSUME AllocatorInv, Accounts, [Next]_vars PROVE Accounts'
  OBVIOUS
<1>1. AllocatorInv'
  BY NextKeeps
<1>2. CASE UNCHANGED vars
  <2>1. UNCHANGED <<pc, call, held, used_map, desc_lock, free_list, arena, panicked>>
    BY <1>2 DEF vars, locals, pool, descs, contents
  <2>2. /\ \A t : PagesMoving(t)' = PagesMoving(t) /\ InHand(t)' = InHand(t)
        /\ \A t : Unlinking(t)' = Unlinking(t)
        /\ \A e : Pgs(e)' = Pgs(e) /\ Blk(e)' = Blk(e)
        /\ Arenas' = Arenas
    BY <2>1 DEF PagesMoving, InHand, Unlinking, Pgs, Blk, Arenas
  <2>3. Local'
    BY <2>1 DEF Accounts, Local, AllSized, Olds, Clear, DescLocked
  <2>4. PagesApart' /\ Bigs'
    <3>1. PagesApart'
      BY <2>1, <2>2 DEF Accounts, OfPages, PagesApart
    <3>2. Bigs'
      BY <2>1, <2>2 DEF Accounts, OfPages, Bigs
    <3> QED
      BY <3>1, <3>2
  <2>5. PagesMarked'
    <3>1. \A p : Accounted(p)' <=> Accounted(p)
      BY <2>1, <2>2 DEF Accounted
    <3> QED
      BY <2>1, <3>1 DEF Accounts, OfPages, PagesMarked
  <2>6. BlocksApart'
    BY <2>1, <2>2 DEF Accounts, OfBlocks, BlocksApart
  <2>7. BlocksPlaced'
    BY <2>1, <2>2 DEF Accounts, OfBlocks, BlocksPlaced
  <2>8. Covered'
    <3>1. \A b : Somewhere(b)' <=> Somewhere(b)
      BY <2>1, <2>2 DEF Somewhere
    <3> QED
      BY <2>1, <2>2, <3>1 DEF Accounts, OfBlocks, Covered
  <2>9. Counted'
    <3>1. \A p : Loose(p)' = Loose(p)
      BY <2>1, <2>2 DEF Loose
    <3> QED
      BY <2>1, <2>2, <3>1 DEF Accounts, OfBlocks, Counted
  <2>10. Emptied'
    <3>1. \A p : Out(p)' <=> Out(p)
      BY <2>1, <2>2 DEF Out
    <3> QED
      BY <2>1, <2>2, <3>1 DEF Accounts, OfBlocks, Emptied
  <2> QED
    BY <2>3, <2>4, <2>5, <2>6, <2>7, <2>8, <2>9, <2>10 DEF Accounts, OfPages, OfBlocks
<1>3. ASSUME NEW t \in Threads, Serve(t) PROVE Accounts'
  <2>1. CASE AcquirePool(t) \/ Scan(t) \/ Mark(t) \/ ReleasePool(t) \/ Reset(t)
    BY <1>1, <2>1, AcquirePoolAccounts, ScanAccounts, MarkAccounts, ReleasePoolAccounts,
       ResetAccounts
  <2>2. CASE AcquireDesc(t) \/ NeedArena(t) \/ NewArena(t) \/ Take(t) \/ ReleaseDesc(t)
    BY <1>1, <2>2, AcquireDescAccounts, NeedArenaAccounts, NewArenaAccounts, NoArenaAccounts,
       TakeAccounts, ReleaseDescAccounts
  <2>3. CASE Return(t) \/ Resize(t) \/ Put(t) \/ Unlist(t)
    BY <1>1, <2>3, ReturnAccounts, RefusedAccounts, ResizeAccounts, PutAccounts, UnlistAccounts,
       GiveBackAccounts
  <2> QED
    BY <1>3, <2>1, <2>2, <2>3 DEF Serve
<1>4. ASSUME NEW t \in Threads, Client(t) PROVE Accounts'
  BY <1>1, <1>4, MallocAccounts, FreeAccounts, StoreAccounts DEF Client
<1> QED
  BY <1>2, <1>3, <1>4 DEF Next

(* What the accounts say is what MemoryAccounted asks. *)
LEMMA AccountsTell == AllocatorInv /\ Accounts => MemoryAccounted
<1> SUFFICES ASSUME AllocatorInv, Accounts PROVE MemoryAccounted
  OBVIOUS
<1>1. used_map = Arenas \cup PagesHeld \cup UNION {PagesMoving(t) : t \in Threads}
  <2>1. ASSUME NEW p PROVE p \in PagesHeld <=> \E t \in Threads : \E e \in held[t] : p \in Pgs(e)
    BY DEF PagesHeld, Pgs
  <2>2. ASSUME NEW p
        PROVE  p \in used_map <=>
                 p \in Arenas \cup PagesHeld \cup UNION {PagesMoving(t) : t \in Threads}
    BY <2>1 DEF Accounts, OfPages, PagesMarked, Accounted
  <2> QED
    BY <2>2
<1>2. \A d \in Descs : IsInjective(free_list[d])
  BY DEF Accounts, OfBlocks, BlocksPlaced
<1>3. ASSUME NEW p \in Arenas
      PROVE  LET free == {b \in ToSet(free_list[arena[p].desc]) : b[1] = p}
                 away == BlocksOut(p) \cup Unlinked(p)
             IN /\ free \cap away = {} /\ free \cup away = {p} \X Slots
                /\ arena[p].free_cnt = Cardinality(free \cup Unlinked(p))
                /\ BlocksOut(p) = {} => desc_lock[arena[p].desc] # NoOne
  <2> DEFINE L == ToSet(free_list[arena[p].desc])
             free == {b \in L : b[1] = p}
             out == BlocksOut(p)
             away == out \cup Unlinked(p)
  <2>0. p \in Pages /\ p # None /\ arena[p].desc \in Descs
    <3>1. \A q \in Pages : q # None
      BY DEF Pages
    <3> QED
      BY <3>1 DEF Arenas, AllocatorInv, TypeOK, Headers
  <2>1. ASSUME NEW t \in Threads, Moving(t), call[t].page = p
        PROVE  InHand(t) = {<<p, call[t].slot>>}
    BY <2>0, <2>1 DEF Moving, InHand, BlockOf
  <2>2. ASSUME NEW t \in Threads, NEW b \in InHand(t), b[1] = p
        PROVE  Moving(t) /\ call[t].page = p /\ b = <<p, call[t].slot>>
    BY <2>2 DEF Moving, InHand, BlockOf
  <2>3. \A b : b \in out <=>
          \E t \in Threads : \/ b \in InHand(t) /\ b[1] = p
                             \/ \E e \in held[t] : b \in Blk(e) /\ b[1] = p
    <3>1. \A b : b \in out <=>
            \/ \E t \in Threads : Moving(t) /\ call[t].page = p /\ b = <<p, call[t].slot>>
            \/ \E t \in Threads : \E e \in held[t] :
                 e.kind = "block" /\ e.page = p /\ b = <<e.page, e.slot>>
      BY DEF BlocksOut
    <3>2. \A t \in Threads : \A b : b \in InHand(t) /\ b[1] = p <=>
            Moving(t) /\ call[t].page = p /\ b = <<p, call[t].slot>>
      BY <2>1, <2>2
    <3>3. \A e : \A b : b \in Blk(e) /\ b[1] = p <=>
            e.kind = "block" /\ e.page = p /\ b = <<e.page, e.slot>>
      BY DEF Blk
    <3> QED
      BY <3>1, <3>2, <3>3
  <2>4. \A b : b \in Unlinked(p) <=> \E t \in Threads : b \in Unlinking(t) /\ b[1] = p
    <3>1. \A b : b \in Unlinked(p) <=>
            \E t \in Threads : /\ pc[t] = "unlist" /\ call[t].page = p
                               /\ \E i \in 0..(call[t].bit - 1) : b = <<p, i>>
      BY DEF Unlinked
    <3>2. \A t \in Threads : \A b : b \in Unlinking(t) /\ b[1] = p <=>
            /\ pc[t] = "unlist" /\ call[t].page = p
            /\ \E i \in 0..(call[t].bit - 1) : b = <<p, i>>
      BY DEF Unlinking, UnlinkedOf
    <3> QED
      BY <3>1, <3>2
  <2>5. Loose(p) = free \cup Unlinked(p)
    <3>1. \A b : b \in Loose(p) <=> b \in free \/ \E t \in Threads : b \in Unlinking(t) /\ b[1] = p
      BY DEF Loose
    <3> HIDE DEF free
    <3> QED
      BY <2>4, <3>1
  <2>6. arena[p].free_cnt = Cardinality(free \cup Unlinked(p))
    BY <2>5 DEF Accounts, OfBlocks, Counted
  <2>7. free \cap away = {}
    <3>1. \A b \in L : \A t \in Threads :
            b \notin InHand(t) /\ b \notin Unlinking(t) /\ \A e \in held[t] : b \notin Blk(e)
      BY <2>0 DEF Accounts, OfBlocks, BlocksApart
    <3>2. \A b \in L : b \notin out /\ b \notin Unlinked(p)
      <4> HIDE DEF out, L
      <4> QED
        BY <2>3, <2>4, <3>1
    <3> QED
      BY <3>2
  <2>8. free \cup away = {p} \X Slots
    <3>1. ASSUME NEW b \in {p} \X Slots PROVE b \in free \cup away
      <4>1. PICK i \in Slots : b = <<p, i>>
        OBVIOUS
      <4>2. Somewhere(b) /\ b[1] = p
        BY <4>1 DEF Accounts, OfBlocks, Covered
      <4>3. b \in free \/ b \in out \/ b \in Unlinked(p)
        <5>1. b \in L => b \in free
          BY <4>2
        <5> HIDE DEF out, free
        <5> QED
          BY <2>3, <2>4, <4>2, <5>1 DEF Somewhere
      <4> QED
        BY <4>3
    <3>2. Loose(p) \subseteq {p} \X Slots
      BY LooseIs DEF Accounts, Local
    <3>3. ASSUME NEW b \in out PROVE b \in {p} \X Slots
      <4>1. PICK t \in Threads : b \in MineB(t) /\ b[1] = p
        <5> HIDE DEF out
        <5> QED
          BY <2>3, <3>3 DEF MineB
      <4>2. b \in Cells
        BY <4>1, BlocksOfMine DEF Accounts, OfBlocks
      <4> QED
        BY <4>1, <4>2 DEF Cells
    <3> QED
      BY <2>5, <3>1, <3>2, <3>3
  <2>9. ASSUME out = {} PROVE desc_lock[arena[p].desc] # NoOne
    <3>1. ~Out(p)
      <4> HIDE DEF out
      <4> QED
        BY <2>3, <2>9 DEF Out
    <3>2. PICK t \in Threads : call[t].size = arena[p].desc /\ pc[t] \in {"take", "unlist"}
      BY <3>1 DEF Accounts, OfBlocks, Emptied
    <3>3. desc_lock[arena[p].desc] = t
      BY <3>2 DEF Accounts, Local, DescLocked, HasDesc
    <3> QED
      BY <3>3
  <2> QED
    BY <2>6, <2>7, <2>8, <2>9
<1>4. ~panicked
  BY DEF Accounts, Local
<1> QED
  BY <1>1, <1>2, <1>3, <1>4 DEF MemoryAccounted

(***************************************************************************)
(* No page or block is ever lost, given twice or taken from its owner, the *)
(* headers count right, no assertion fails, and an arena is kept only      *)
(* while a block of it is out, for any number of threads, pages, blocks    *)
(* and descriptors (malloc(), free() and realloc(), palloc_get_multiple()  *)
(* and palloc_free_multiple(), preempted anywhere).                        *)
(***************************************************************************)
THEOREM MemoryIsAccounted == Spec => []MemoryAccounted
<1>1. Init => AllocatorInv /\ Accounts
  BY InitInv, InitAccounts
<1>2. AllocatorInv /\ Accounts /\ [Next]_vars => AllocatorInv' /\ Accounts'
  BY NextKeeps, AccountsKeep
<1> QED
  BY <1>1, <1>2, AccountsTell, PTL DEF Spec

-----------------------------------------------------------------------------
(* The cells of an extent. *)
LEMMA Division ==
  ASSUME NEW b \in Nat \ {0}, NEW k \in Nat
  PROVE  k \div b \in Nat /\ k % b \in 0..(b - 1) /\ k = b * (k \div b) + (k % b)
OBVIOUS

LEMMA DivisionBound ==
  ASSUME NEW b \in Nat \ {0}, NEW n \in Nat, NEW k \in 0..(n * b - 1)
  PROVE  k \div b \in 0..(n - 1)
<1>1. k \in Nat /\ k < n * b
  OBVIOUS
<1>2. k \div b \in Nat /\ k % b \in 0..(b - 1) /\ k = b * (k \div b) + (k % b)
  BY <1>1, Division
<1>a. PICK q, r : q = k \div b /\ r = k % b
  OBVIOUS
<1>b. q \in Nat /\ r \in 0..(b - 1) /\ k = b * q + r
  BY <1>2, <1>a
<1>3. ~(q >= n)
  <2> SUFFICES ASSUME q >= n PROVE FALSE
    OBVIOUS
  <2>1. PICK m \in Nat : q = n + m
    BY <1>b
  <2>2. b * q = n * b + m * b /\ m * b \in Nat
    BY <2>1
  <2> QED
    BY <1>1, <1>b, <2>2
<1> QED
  BY <1>a, <1>b, <1>3

LEMMA PageCellsIs ==
  ASSUME NEW page \in Pages, NEW cnt \in Nat \ {0}, page + cnt <= PageCnt, NEW s,
         s = PageCells(page, cnt)
  PROVE  /\ 1 \in DOMAIN s
         /\ \A k \in DOMAIN s : s[k] \in Cells /\ s[k][1] \in Run(page, cnt)
         /\ \A j, k \in DOMAIN s : s[j] = s[k] => j = k
<1> DEFINE b == blocks_per_arena
<1>1. b \in Nat \ {0} /\ page \in Nat /\ PageCnt \in Nat
  BY DEF Pages
<1>2. DOMAIN s = 1..(cnt * b)
  BY DEF PageCells
<1>3. \A k \in DOMAIN s : s[k] = <<page + (k - 1) \div b, (k - 1) % b>>
  BY <1>2 DEF PageCells
<1> HIDE DEF b
<1>4. ASSUME NEW k \in DOMAIN s
      PROVE  /\ (k - 1) \div b \in 0..(cnt - 1) /\ (k - 1) % b \in 0..(b - 1)
             /\ k - 1 = b * ((k - 1) \div b) + ((k - 1) % b)
  <2>1. k - 1 \in Nat /\ k - 1 \in 0..(cnt * b - 1)
    BY <1>1, <1>2
  <2>2. PICK i : i = k - 1
    OBVIOUS
  <2>3. i \div b \in 0..(cnt - 1) /\ i % b \in 0..(b - 1) /\ i = b * (i \div b) + (i % b)
    BY <1>1, <2>1, <2>2, Division, DivisionBound
  <2> QED
    BY <2>2, <2>3
<1>5. 1 \in DOMAIN s
  <2>1. cnt * b \in Nat /\ cnt * b >= 1
    BY <1>1
  <2> QED
    BY <1>2, <2>1
<1>6. ASSUME NEW k \in DOMAIN s PROVE s[k] \in Cells /\ s[k][1] \in Run(page, cnt)
  <2>1. PICK q \in 0..(cnt - 1), r \in 0..(b - 1) : s[k] = <<page + q, r>>
    BY <1>3, <1>4
  <2>2. page + q \in Pages /\ page + q \in Run(page, cnt) /\ r \in Slots
    BY <1>1, <2>1 DEF Pages, Run, Slots, b
  <2> QED
    BY <2>1, <2>2 DEF Cells
<1>7. ASSUME NEW j \in DOMAIN s, NEW k \in DOMAIN s, s[j] = s[k] PROVE j = k
  <2>1. PICK q, r, u, v : /\ q = (k - 1) \div b /\ r = (k - 1) % b
                          /\ u = (j - 1) \div b /\ v = (j - 1) % b
    OBVIOUS
  <2>2. /\ q \in 0..(cnt - 1) /\ r \in 0..(b - 1) /\ k - 1 = b * q + r
        /\ u \in 0..(cnt - 1) /\ v \in 0..(b - 1) /\ j - 1 = b * u + v
    BY <1>4, <2>1
  <2>3. s[k] = <<page + q, r>> /\ s[j] = <<page + u, v>>
    BY <1>3, <2>1
  <2>4. q = u /\ r = v
    BY <1>1, <1>7, <2>2, <2>3
  <2> QED
    BY <1>2, <2>2, <2>4
<1> QED
  BY <1>5, <1>6, <1>7

LEMMA CellSeqIs ==
  ASSUME NEW e \in AnyExtent, e.kind # "block" => e.page + e.size <= PageCnt, NEW s,
         s = CellSeq(e)
  PROVE  /\ s \in Spans /\ 1 \in DOMAIN s
         /\ \A k \in DOMAIN s : s[k] \in Cells /\ (s[k][1] \in Pgs(e) \/ s[k] \in Blk(e))
         /\ \A j, k \in DOMAIN s : s[j] = s[k] => j = k
<1>1. e.page \in Pages /\ e.slot \in Slots
  BY DEF AnyExtent
<1>2. CASE e.kind = "block"
  <2>1. PICK c : c = <<e.page, e.slot>>
    OBVIOUS
  <2>2. s = <<c>> /\ c \in Cells /\ c \in Blk(e)
    BY <1>1, <1>2, <2>1 DEF CellSeq, Cells, Blk
  <2>3. DOMAIN s = {1} /\ s[1] = c
    BY <2>2
  <2> QED
    BY <2>2, <2>3 DEF Spans
<1>3. CASE e.kind # "block"
  <2>1. e.size \in PageCnts /\ PageCnts \subseteq Nat \ {0}
    BY <1>3 DEF AnyExtent, PageCnts
  <2>2. s = PageCells(e.page, e.size) /\ Pgs(e) = Run(e.page, e.size)
    BY <1>3 DEF CellSeq, Pgs
  <2>3. s \in Spans
    <3>1. PICK x : x = <<e.page, e.size>>
      OBVIOUS
    <3>2. x \in Pages \X PageCnts /\ x[1] = e.page /\ x[2] = e.size
      BY <1>1, <2>1, <3>1
    <3> QED
      BY <1>3, <2>2, <3>2 DEF Spans
  <2>4. \A k \in DOMAIN s : s[k] \in Cells /\ s[k][1] \in Run(e.page, e.size)
    BY <1>1, <1>3, <2>1, <2>2, PageCellsIs
  <2>5. 1 \in DOMAIN s /\ \A j, k \in DOMAIN s : s[j] = s[k] => j = k
    BY <1>1, <1>3, <2>1, <2>2, PageCellsIs
  <2> QED
    BY <2>2, <2>3, <2>4, <2>5
<1> QED
  BY <1>2, <1>3

(* Who has a cell. *)
Has(e, x) == x[1] \in Pgs(e) \/ x \in Blk(e)

LEMMA HasOne ==
  ASSUME Accounts, NEW t \in Threads, NEW u \in Threads, NEW e \in held[t], NEW f \in held[u],
         NEW x, Has(e, x), Has(f, x)
  PROVE  t = u /\ e = f
<1>1. x[1] \in Pgs(e) /\ x[1] \in Pgs(f) => t = u /\ e = f
  BY DEF Accounts, OfPages, PagesApart
<1>2. x \in Blk(e) /\ x \in Blk(f) => t = u /\ e = f
  BY DEF Accounts, OfBlocks, BlocksApart
<1>3. \A g : x \in Blk(g) => g.kind = "block" /\ x[1] = g.page
  BY DEF Blk
<1>4. x \in Blk(e) => x[1] \in Arenas
  BY <1>3 DEF Accounts, OfBlocks, BlocksPlaced
<1>5. x \in Blk(f) => x[1] \in Arenas
  BY <1>3 DEF Accounts, OfBlocks, BlocksPlaced
<1>6. x[1] \in Arenas => x[1] \notin Pgs(e) /\ x[1] \notin Pgs(f)
  BY DEF Accounts, OfPages, PagesApart
<1> QED
  BY <1>1, <1>2, <1>4, <1>5, <1>6 DEF Has

(* A cell on its way to a client is no client's. *)
LEMMA HasNew ==
  ASSUME Accounts, NEW t \in Threads, NEW u \in Threads, NEW f \in held[u], NEW x,
         x[1] \in PagesMoving(t) \/ x \in InHand(t)
  PROVE  ~Has(f, x)
<1>1. x[1] \in PagesMoving(t) => x[1] \notin Pgs(f) /\ x[1] \notin Arenas
  BY DEF Accounts, OfPages, PagesApart
<1>2. x \in InHand(t) => x \notin Blk(f) /\ x[1] \in Arenas
  <2>1. x \in InHand(t) => x[1] = call[t].page
    BY DEF InHand, BlockOf
  <2> QED
    BY <2>1 DEF Accounts, OfBlocks, BlocksApart, BlocksPlaced
<1>3. x \in Blk(f) => x[1] \in Arenas
  <2>1. x \in Blk(f) => f.kind = "block" /\ x[1] = f.page
    BY DEF Blk
  <2> QED
    BY <2>1 DEF Accounts, OfBlocks, BlocksPlaced
<1>4. x[1] \in Arenas => x[1] \notin Pgs(f)
  BY DEF Accounts, OfPages, PagesApart
<1> QED
  BY <1>1, <1>2, <1>3, <1>4 DEF Has

-----------------------------------------------------------------------------
(* What the clients of Heap have, and its steps. *)
Contents == [Cells -> Values \cup {Junk}]
Span(e) == {CellSeq(e)[k] : k \in DOMAIN CellSeq(e)}

LEMMA HeldIs ==
  ASSUME AllocatorInv, Accounts, NEW t \in Threads, NEW e \in held[t]
  PROVE  /\ e \in AnyExtent /\ (e.kind # "block" => e.page + e.size <= PageCnt)
         /\ 1 \in DOMAIN CellSeq(e) /\ CellSeq(e)[1] \in Span(e)
         /\ \A x \in Span(e) : x \in Cells /\ Has(e, x)
<1>1. e \in AnyExtent /\ (e.kind # "block" => e.page + e.size <= PageCnt)
  BY DEF AllocatorInv, TypeOK, Accounts, OfPages, Bigs
<1>2. PICK s : s = CellSeq(e)
  OBVIOUS
<1>3. 1 \in DOMAIN s /\ \A k \in DOMAIN s : s[k] \in Cells /\ Has(e, s[k])
  BY <1>1, <1>2, CellSeqIs DEF Has
<1> QED
  BY <1>1, <1>2, <1>3 DEF Span

LEMMA SpansApart ==
  ASSUME AllocatorInv, Accounts, NEW t \in Threads, NEW u \in Threads,
         NEW e \in held[t], NEW f \in held[u]
  PROVE  /\ \A x : x \in Span(e) /\ Has(f, x) => t = u /\ e = f
         /\ CellSeq(e) = CellSeq(f) => t = u /\ e = f
<1>1. \A x : x \in Span(e) /\ Has(f, x) => t = u /\ e = f
  BY HeldIs, HasOne
<1>2. CellSeq(e) = CellSeq(f) => CellSeq(e)[1] \in Span(e) /\ Has(f, CellSeq(e)[1])
  BY HeldIs
<1> QED
  BY <1>1, <1>2

LEMMA TakenIs ==
  ASSUME NEW x
  PROVE  x \in Memory!Taken <=> \E u \in Threads : \E f \in held[u] : x \in Span(f)
<1>1. \A s : s \in UNION {Given[c] : c \in Threads} <=>
               \E u \in Threads : \E f \in held[u] : s = CellSeq(f)
  BY DEF Given
<1>2. \A f : Memory!CellsOf(CellSeq(f)) = Span(f)
  BY DEF Memory!CellsOf, Span
<1>3. x \in Memory!Taken <=>
        \E s \in UNION {Given[c] : c \in Threads} : x \in Memory!CellsOf(s)
  BY DEF Memory!Taken
<1> QED
  BY <1>1, <1>2, <1>3

LEMMA GivenStays == UNCHANGED held => UNCHANGED Given
BY DEF Given

(* Nobody's memory changes. *)
LEMMA ManageStep ==
  ASSUME UNCHANGED held, memory' \in Contents,
         \A x \in Cells : memory'[x] # memory[x] =>
           \A u \in Threads : \A f \in held[u] : ~Has(f, x),
         AllocatorInv, Accounts
  PROVE  [Memory!Next]_(Memory!vars)
<1>1. ASSUME NEW x \in Memory!Taken PROVE memory'[x] = memory[x]
  <2>1. PICK u \in Threads : \E f \in held[u] : x \in Span(f)
    BY <1>1, TakenIs
  <2> QED
    BY <2>1, HeldIs
<1>2. Memory!Manage
  BY <1>1, GivenStays DEF Memory!Manage, Memory!Untouched
<1> QED
  BY <1>2 DEF Memory!Next, Contents

(* free() writes to what it is given. *)
LEMMA FreeWrites ==
  ASSUME AllocatorInv, Accounts, NEW t \in Threads, NEW e \in held[t],
         NEW mem \in Contents, NEW headers, headers[e.page] = arena[e.page],
         BeginFree(t, e, mem, headers)
  PROVE  memory' \in Contents /\ \A x \in Cells : memory'[x] # mem[x] => Has(e, x)
<1>1. e \in AnyExtent /\ e.page \in Pages /\ e.slot \in Slots /\ e.kind \in Kinds
  BY DEF AllocatorInv, TypeOK, AnyExtent
<1>2. PICK a, cnt : a = headers[e.page] /\ cnt = (IF e.kind = "pages" THEN e.size ELSE a.free_cnt)
  OBVIOUS
<1>3. CASE e.kind # "pages" /\ a = None
  BY <1>2, <1>3 DEF BeginFree
<1>4. CASE e.kind # "pages" /\ a # None /\ a.desc # None
  <2>1. e.kind = "block"
    <3>1. e.kind = "big" => a.desc = None
      <4>1. e.kind = "big" => a = [desc |-> None, free_cnt |-> e.size]
        BY <1>2 DEF Accounts, OfPages, Bigs
      <4> QED
        BY <4>1
    <3> QED
      BY <1>1, <1>4, <3>1 DEF Kinds
  <2>2. memory' = [mem EXCEPT ![<<e.page, e.slot>>] = Junk]
    BY <1>2, <1>4 DEF BeginFree
  <2>3. PICK c : c = <<e.page, e.slot>>
    OBVIOUS
  <2>4. c \in Blk(e) /\ memory' = [mem EXCEPT ![c] = Junk]
    BY <2>1, <2>2, <2>3 DEF Blk
  <2> QED
    BY <2>4 DEF Contents, Has
<1>5. CASE ~(e.kind # "pages" /\ a = None) /\ ~(e.kind # "pages" /\ a.desc # None)
  <2>1. memory' = [c \in Cells |-> IF c[1] \in Run(e.page, cnt) THEN Junk ELSE mem[c]]
    BY <1>2, <1>5 DEF BeginFree
  <2>2. e.kind # "block"
    <3>1. e.kind = "block" => e.page \in Arenas
      BY DEF Accounts, OfBlocks, BlocksPlaced
    <3> QED
      BY <1>2, <1>5, <3>1 DEF Arenas
  <2>3. cnt = e.size
    <3>1. e.kind = "big" => a = [desc |-> None, free_cnt |-> e.size]
      BY <1>2 DEF Accounts, OfPages, Bigs
    <3> QED
      BY <1>1, <1>2, <2>2, <3>1 DEF Kinds
  <2>4. Run(e.page, cnt) = Pgs(e)
    BY <2>2, <2>3 DEF Pgs
  <2> QED
    BY <2>1, <2>4 DEF Contents, Has
<1> QED
  BY <1>3, <1>4, <1>5

(* What a client no longer has, and what it has now. *)
LEMMA GivenNow ==
  ASSUME AllocatorInv, Accounts, NEW t \in Threads, NEW gone \in SUBSET held[t], NEW got,
         held' = [held EXCEPT ![t] = (@ \ gone) \cup got]
  PROVE  Given' = [Given EXCEPT ![t] = (@ \ {CellSeq(e) : e \in gone})
                                         \cup {CellSeq(e) : e \in got}]
<1>1. held'[t] = (held[t] \ gone) \cup got /\ \A u \in Threads \ {t} : held'[u] = held[u]
  BY DEF AllocatorInv, TypeOK
<1>2. \A e : CellSeq(e)' = CellSeq(e)
  BY DEF CellSeq, PageCells
<1>3. Given' = [u \in Threads |-> {CellSeq(e) : e \in held'[u]}]
  BY <1>2 DEF Given
<1>4. \A e, f \in held[t] : CellSeq(e) = CellSeq(f) => e = f
  BY SpansApart
<1>5. {CellSeq(e) : e \in held'[t]} =
        ({CellSeq(e) : e \in held[t]} \ {CellSeq(e) : e \in gone}) \cup {CellSeq(e) : e \in got}
  BY <1>1, <1>4
<1> QED
  BY <1>1, <1>3, <1>5 DEF Given

-----------------------------------------------------------------------------
(* Every step is one of Heap's, or changes nothing Heap knows of. *)
Advances == memory' \in Contents /\ [Memory!Next]_(Memory!vars)

LEMMA Stutters ==
  ASSUME memory \in Contents, UNCHANGED <<held, memory>>
  PROVE  Advances
<1>1. UNCHANGED Memory!vars
  BY GivenStays DEF Memory!vars
<1> QED
  BY <1>1 DEF Advances, Contents

LEMMA NewArenaAdvances ==
  ASSUME AllocatorInv, Accounts, memory \in Contents, NEW t \in Threads, NewArena(t)
  PROVE  Advances
<1>1. PICK p : p = call[t].page
  OBVIOUS
<1>2. CASE p = None
  BY <1>1, <1>2, Stutters DEF NewArena, contents
<1>3. CASE p # None
  <2>1. memory' = [c \in Cells |-> IF c \in {p} \X Slots THEN Junk ELSE memory[c]]
    BY <1>1, <1>3 DEF NewArena, Written
  <2>2. memory' \in Contents /\ \A x \in Cells : memory'[x] # memory[x] => x[1] = p
    BY <2>1 DEF Contents
  <2>3. p \in PagesMoving(t)
    <3>1. pc[t] = "new_arena" /\ call[t].cnt = 1 /\ p \in Pages
      <4>1. pc[t] = "new_arena" /\ Sized("new_arena", call[t]) /\ Ready("new_arena", call[t])
        BY Quiet DEF NewArena, At
      <4> QED
        BY <1>1, <1>3, <4>1 DEF Sized, Ready, OfBlock
    <3> QED
      BY <1>1, <1>3, <3>1 DEF PagesMoving, Run, Pages
  <2>4. ASSUME NEW x \in Cells, memory'[x] # memory[x], NEW u \in Threads, NEW f \in held[u]
        PROVE  ~Has(f, x)
    BY <2>2, <2>3, <2>4, HasNew
  <2> QED
    BY <2>2, <2>4, ManageStep DEF NewArena, Advances
<1> QED
  BY <1>2, <1>3

LEMMA UnlistAdvances ==
  ASSUME AllocatorInv, Accounts, memory \in Contents, NEW t \in Threads, Unlist(t)
  PROVE  Advances
<1>1. PICK p : p = call[t].page
  OBVIOUS
<1>2. CASE call[t].bit + 1 < blocks_per_arena
  BY <1>2, Stutters DEF Unlist, contents
<1>3. CASE ~(call[t].bit + 1 < blocks_per_arena)
  <2>1. /\ p \in Arenas
        /\ \A u \in Threads : \A e \in held[u] : \A b \in Blk(e) : b[1] # p
    BY <1>1 DEF Accounts, OfBlocks, BlocksPlaced, Unlist, At
  <2>2. memory' = [c \in Cells |-> IF c \in ToSet(PageCells(p, 1)) THEN Junk ELSE memory[c]]
    BY <1>1, <1>3 DEF Unlist, Overwrite, Written
  <2>3. \A x \in ToSet(PageCells(p, 1)) : x[1] = p
    <3>1. p \in Pages /\ p + 1 <= PageCnt
      BY <2>1 DEF Arenas, Pages
    <3>2. PICK s : s = PageCells(p, 1)
      OBVIOUS
    <3>3. \A k \in DOMAIN s : s[k][1] \in Run(p, 1)
      BY <3>1, <3>2, PageCellsIs
    <3>4. Run(p, 1) = {p}
      BY <3>1 DEF Run, Pages
    <3> QED
      BY <3>2, <3>3, <3>4 DEF ToSet
  <2>4. memory' \in Contents /\ \A x \in Cells : memory'[x] # memory[x] => x[1] = p
    BY <2>2, <2>3 DEF Contents
  <2>5. ASSUME NEW x \in Cells, memory'[x] # memory[x], NEW u \in Threads, NEW f \in held[u]
        PROVE  ~Has(f, x)
    <3>1. x[1] = p /\ x \notin Blk(f)
      BY <2>1, <2>4, <2>5
    <3>2. p \notin Pgs(f)
      BY <2>1 DEF Accounts, OfPages, PagesApart
    <3> QED
      BY <3>1, <3>2 DEF Has
  <2> QED
    BY <2>4, <2>5, ManageStep DEF Unlist, Advances
<1> QED
  BY <1>2, <1>3

(* Cells that others have are not among those of an extent of t. *)
LEMMA Outside ==
  ASSUME AllocatorInv, Accounts, NEW t \in Threads, NEW e \in held[t],
         NEW x \in Memory!Taken \ Memory!CellsOf(CellSeq(e))
  PROVE  x \in Cells /\ ~Has(e, x)
<1>1. PICK u \in Threads : \E f \in held[u] : x \in Span(f)
  BY TakenIs
<1>2. PICK f \in held[u] : x \in Span(f)
  BY <1>1
<1>3. x \notin Span(e)
  BY DEF Memory!CellsOf, Span
<1> QED
  BY <1>2, <1>3, HeldIs, SpansApart

LEMMA StoreAdvances ==
  ASSUME AllocatorInv, Accounts, memory \in Contents, NEW t \in Threads, NEW e \in held[t],
         NEW v \in Values, Store(t, e, v)
  PROVE  Advances
<1>1. memory' = [c \in Cells |-> IF c \in ToSet(CellSeq(e)) THEN v ELSE memory[c]]
  BY DEF Store, Written
<1>2. ToSet(CellSeq(e)) = Span(e)
  BY DEF ToSet, Span
<1>3. memory' \in Contents /\ \A x \in Cells : memory'[x] # memory[x] => Has(e, x)
  BY <1>1, <1>2, HeldIs DEF Contents
<1>4. \A x \in Memory!Taken \ Memory!CellsOf(CellSeq(e)) : memory'[x] = memory[x]
  BY <1>3, Outside
<1>5. CellSeq(e) \in Given[t]
  BY DEF Given
<1>6. Memory!Store(t)
  BY <1>4, <1>5, GivenStays DEF Memory!Store, Memory!Untouched, Store, locals
<1> QED
  BY <1>3, <1>6 DEF Advances, Memory!Next, Contents

LEMMA FreeAdvances ==
  ASSUME AllocatorInv, Accounts, memory \in Contents, NEW t \in Threads, NEW e \in held[t],
         Free(t, e)
  PROVE  Advances
<1>1. BeginFree(t, e, memory, arena) /\ held' = [held EXCEPT ![t] = @ \ {e}]
  BY DEF Free
<1>2. memory' \in Contents /\ \A x \in Cells : memory'[x] # memory[x] => Has(e, x)
  <2>1. PICK headers, mem : headers = arena /\ mem = memory
    OBVIOUS
  <2>2. BeginFree(t, e, mem, headers) /\ headers[e.page] = arena[e.page] /\ mem \in Contents
    BY <1>1, <2>1
  <2> QED
    BY <2>1, <2>2, FreeWrites
<1>3. \A x \in Memory!Taken \ Memory!CellsOf(CellSeq(e)) : memory'[x] = memory[x]
  BY <1>2, Outside
<1>4. Given' = [Given EXCEPT ![t] = @ \ {CellSeq(e)}]
  <2>1. held' = [held EXCEPT ![t] = (@ \ {e}) \cup {}]
    BY <1>1
  <2>2. Given' = [Given EXCEPT ![t] = (@ \ {CellSeq(f) : f \in {e}}) \cup {CellSeq(f) : f \in {}}]
    BY <2>1, GivenNow
  <2>3. {CellSeq(f) : f \in {e}} = {CellSeq(e)} /\ {CellSeq(f) : f \in {}} = {}
    OBVIOUS
  <2> QED
    BY <2>2, <2>3
<1>5. CellSeq(e) \in Given[t]
  BY DEF Given
<1>6. Memory!Free(t)
  BY <1>3, <1>4, <1>5 DEF Memory!Free, Memory!Untouched
<1> QED
  BY <1>2, <1>6 DEF Advances, Memory!Next, Contents

(* What a call returns is memory nobody has. *)
LEMMA NewSpan ==
  ASSUME AllocatorInv, Accounts, NEW t \in Threads, pc[t] = "return", call[t].page # None,
         NEW new, new = CellSeq(New(t))
  PROVE  /\ new \in Spans
         /\ \A k \in DOMAIN new : new[k] \in Cells
         /\ \A j, k \in DOMAIN new : new[j] = new[k] => j = k
         /\ \A k \in DOMAIN new : \A u \in Threads : \A f \in held[u] : ~Has(f, new[k])
<1>1. PICK e : e = New(t)
  OBVIOUS
<1>2. e \in AnyExtent /\ (e.kind # "block" => e.page + e.size <= PageCnt)
  <2>1. call[t] \in Calls /\ Ready("return", call[t])
    BY Quiet
  <2>2. /\ call[t].page \in Pages /\ call[t].slot \in Slots /\ call[t].size \in Descs \cup PageCnts
        /\ (call[t].kind # "block" => call[t].size \in PageCnts) /\ call[t].kind \in Kinds
    BY <2>1 DEF Ready, Calls
  <2>3. e \in AnyExtent
    BY <1>1, <2>2 DEF New, Extent, AnyExtent
  <2> QED
    BY <1>1, <2>3, NewIs
<1>3. Pgs(e) = PagesMoving(t) /\ Blk(e) = InHand(t)
  BY <1>1, NewIs
<1>4. /\ new \in Spans /\ \A j, k \in DOMAIN new : new[j] = new[k] => j = k
      /\ \A k \in DOMAIN new : new[k] \in Cells /\ (new[k][1] \in Pgs(e) \/ new[k] \in Blk(e))
  BY <1>1, <1>2, CellSeqIs
<1>5. ASSUME NEW k \in DOMAIN new, NEW u \in Threads, NEW f \in held[u] PROVE ~Has(f, new[k])
  <2>1. PICK x : x = new[k]
    OBVIOUS
  <2>2. x[1] \in PagesMoving(t) \/ x \in InHand(t)
    BY <1>3, <1>4, <2>1
  <2> QED
    BY <2>1, <2>2, HasNew
<1> QED
  BY <1>4, <1>5

LEMMA NewNotTaken ==
  ASSUME AllocatorInv, Accounts, NEW t \in Threads, pc[t] = "return", call[t].page # None,
         NEW new, new = CellSeq(New(t))
  PROVE  /\ Memory!CellsOf(new) \cap Memory!Taken = {}
         /\ \A x \in Memory!Taken : \A k \in DOMAIN new : new[k] # x
<1>1. ASSUME NEW x \in Memory!Taken, NEW k \in DOMAIN new, new[k] = x PROVE FALSE
  <2>1. PICK u \in Threads : \E f \in held[u] : x \in Span(f)
    BY TakenIs
  <2>2. PICK f \in held[u] : x \in Span(f)
    BY <2>1
  <2>3. Has(f, x)
    BY <2>2, HeldIs
  <2>4. ~Has(f, new[k])
    BY NewSpan
  <2> QED
    BY <1>1, <2>3, <2>4
<1> QED
  BY <1>1 DEF Memory!CellsOf

LEMMA ReturnAdvances ==
  ASSUME AllocatorInv, Accounts, memory \in Contents, NEW t \in Threads, Return(t)
  PROVE  Advances
<1>1. CASE call[t].page = None
  BY <1>1, Stutters DEF Return
<1>2. CASE call[t].page # None
  <2>1. PICK new : new = CellSeq(New(t))
    OBVIOUS
  <2>2. pc[t] = "return"
    BY DEF Return, At
  <2>3. new \in Spans /\ Memory!CellsOf(new) \cap Memory!Taken = {}
    BY <1>2, <2>1, <2>2, NewSpan, NewNotTaken
  <2>4. Given' = [Given EXCEPT ![t] = @ \cup {new}]
    <3>1. PICK e : e = New(t)
      OBVIOUS
    <3>2. held' = [held EXCEPT ![t] = (@ \ {}) \cup {e}]
      BY <1>2, <3>1 DEF Return
    <3>3. Given' = [Given EXCEPT ![t] = (@ \ {CellSeq(f) : f \in {}}) \cup {CellSeq(f) : f \in {e}}]
      BY <3>2, GivenNow
    <3>4. {CellSeq(f) : f \in {e}} = {new} /\ {CellSeq(f) : f \in {}} = {}
      BY <2>1, <3>1
    <3> QED
      BY <3>3, <3>4
  <2>5. memory' = memory
    BY DEF Return
  <2>6. Memory!Allocate(t)
    BY <2>3, <2>4, <2>5 DEF Memory!Allocate, Memory!Untouched
  <2> QED
    BY <2>5, <2>6 DEF Advances, Memory!Next, Contents
<1> QED
  BY <1>1, <1>2

(* What realloc() has copied when it frees the old block. *)
Copied(old, new) ==
  LET copied == DOMAIN old \cap DOMAIN new
      from(c) == CHOOSE k \in copied : new[k] = c
  IN [c \in Cells |-> IF \E k \in copied : new[k] = c THEN memory[old[from(c)]] ELSE memory[c]]

LEMMA CopiedIs ==
  ASSUME memory \in Contents, NEW old, NEW new, NEW mem, mem = Copied(old, new),
         \A k \in DOMAIN old : old[k] \in Cells, \A k \in DOMAIN new : new[k] \in Cells,
         \A j, k \in DOMAIN new : new[j] = new[k] => j = k
  PROVE  /\ mem \in Contents
         /\ \A k \in DOMAIN old \cap DOMAIN new : mem[new[k]] = memory[old[k]]
         /\ \A x \in Cells : (\A k \in DOMAIN new : new[k] # x) => mem[x] = memory[x]
<1> DEFINE copied == DOMAIN old \cap DOMAIN new
           from(c) == CHOOSE k \in copied : new[k] = c
<1>1. mem = [c \in Cells |-> IF \E k \in copied : new[k] = c THEN memory[old[from(c)]]
                             ELSE memory[c]]
  BY DEF Copied
<1>2. ASSUME NEW c, NEW k \in copied, new[k] = c PROVE from(c) = k
  <2>1. \E j \in copied : new[j] = c
    BY <1>2
  <2>2. from(c) \in copied /\ new[from(c)] = c
    BY <2>1
  <2> QED
    BY <1>2, <2>2
<1> HIDE DEF from
<1>3. ASSUME NEW c \in Cells
      PROVE  /\ mem[c] \in Values \cup {Junk}
             /\ (\A k \in DOMAIN new : new[k] # c) => mem[c] = memory[c]
  <2>1. CASE \E k \in copied : new[k] = c
    <3>1. PICK k \in copied : new[k] = c
      BY <2>1
    <3>2. from(c) = k /\ old[k] \in Cells
      BY <1>2, <3>1
    <3> QED
      BY <1>1, <2>1, <3>1, <3>2 DEF Contents
  <2>2. CASE ~\E k \in copied : new[k] = c
    BY <1>1, <2>2 DEF Contents
  <2> QED
    BY <2>1, <2>2
<1>4. mem \in Contents
  BY <1>1, <1>3 DEF Contents
<1>5. ASSUME NEW k \in copied PROVE mem[new[k]] = memory[old[k]]
  <2>1. PICK c \in Cells : c = new[k]
    OBVIOUS
  <2> QED
    BY <1>1, <1>2, <2>1
<1> QED
  BY <1>3, <1>4, <1>5

LEMMA ResizeAdvances ==
  ASSUME AllocatorInv, Accounts, memory \in Contents, NEW t \in Threads, Resize(t)
  PROVE  Advances
<1>1. PICK o, e, old, new : o = call[t].old /\ e = New(t) /\ old = CellSeq(o) /\ new = CellSeq(e)
  OBVIOUS
<1>2. PICK mem : mem = Copied(old, new)
  OBVIOUS
<1>3. pc[t] = "return" /\ call[t].page # None /\ o \in held[t]
  <2>1. Ready("return", call[t]) /\ pc[t] = "return" /\ call[t].old # None
    BY Quiet DEF Resize, At
  <2> QED
    BY <1>1, <2>1, Quiet DEF Resize, Ready
<1>4. BeginFree(t, o, mem, Header(t)) /\ held' = [held EXCEPT ![t] = (@ \ {o}) \cup {e}]
  BY <1>1, <1>2 DEF Resize, Copied
<1>5. \A k \in DOMAIN old : old[k] \in Cells
  BY <1>1, <1>3, HeldIs DEF Span
<1>6. /\ new \in Spans /\ \A k \in DOMAIN new : new[k] \in Cells
      /\ \A j, k \in DOMAIN new : new[j] = new[k] => j = k
      /\ \A k \in DOMAIN new : ~Has(o, new[k])
      /\ Memory!CellsOf(new) \cap Memory!Taken = {}
      /\ \A x \in Memory!Taken : \A k \in DOMAIN new : new[k] # x
  BY <1>1, <1>3, NewSpan, NewNotTaken
<1>7. /\ mem \in Contents
      /\ \A k \in DOMAIN old \cap DOMAIN new : mem[new[k]] = memory[old[k]]
      /\ \A x \in Cells : (\A k \in DOMAIN new : new[k] # x) => mem[x] = memory[x]
  BY <1>2, <1>5, <1>6, CopiedIs
<1>8. memory' \in Contents /\ \A x \in Cells : memory'[x] # mem[x] => Has(o, x)
  <2>1. PICK headers : headers = Header(t)
    OBVIOUS
  <2>2. BeginFree(t, o, mem, headers) /\ headers[o.page] = arena[o.page]
    BY <1>1, <1>3, <1>4, <2>1, OldHeader
  <2> QED
    BY <1>3, <1>7, <2>2, FreeWrites
<1>9. \A x \in Memory!Taken \ Memory!CellsOf(old) : memory'[x] = memory[x]
  <2> SUFFICES ASSUME NEW x \in Memory!Taken \ Memory!CellsOf(old) PROVE memory'[x] = memory[x]
    OBVIOUS
  <2>1. x \in Cells /\ ~Has(o, x)
    BY <1>1, <1>3, Outside
  <2>2. \A k \in DOMAIN new : new[k] # x
    BY <1>6
  <2> QED
    BY <1>7, <1>8, <2>1, <2>2
<1>10. \A k \in DOMAIN old \cap DOMAIN new : memory'[new[k]] = memory[old[k]]
  BY <1>6, <1>7, <1>8
<1>11. old \in Given[t] /\ Given' = [Given EXCEPT ![t] = (@ \ {old}) \cup {new}]
  <2>1. Given' = [Given EXCEPT ![t] = (@ \ {CellSeq(f) : f \in {o}}) \cup {CellSeq(f) : f \in {e}}]
    BY <1>3, <1>4, GivenNow
  <2>2. {CellSeq(f) : f \in {o}} = {old} /\ {CellSeq(f) : f \in {e}} = {new}
    BY <1>1
  <2> QED
    BY <1>1, <1>3, <2>1, <2>2 DEF Given
<1>12. Memory!Move(t)
  <2>1. \A x \in Memory!Taken \ Memory!CellsOf(old) : memory'[x] = memory[x]
    BY <1>9
  <2> QED
    BY <1>6, <1>9, <1>10, <1>11 DEF Memory!Move, Memory!Untouched
<1> QED
  BY <1>8, <1>12 DEF Advances, Memory!Next, Contents

LEMMA InitHeap == Init => Memory!Init /\ memory \in Contents
<1> SUFFICES ASSUME Init PROVE Memory!Init /\ memory \in Contents
  OBVIOUS
<1>1. Given = [t \in Threads |-> {}]
  BY DEF Init, Given
<1> QED
  BY <1>1 DEF Init, Memory!Init, Contents

LEMMA NextAdvances ==
  AllocatorInv /\ Accounts /\ memory \in Contents /\ [Next]_vars => Advances
<1> SUFFICES ASSUME AllocatorInv, Accounts, memory \in Contents, [Next]_vars PROVE Advances
  OBVIOUS
<1>1. CASE UNCHANGED vars
  BY <1>1, Stutters DEF vars, locals, contents
<1>2. ASSUME NEW t \in Threads, Serve(t) PROVE Advances
  <2>1. CASE \/ AcquirePool(t) \/ Scan(t) \/ Mark(t) \/ ReleasePool(t) \/ Reset(t)
             \/ AcquireDesc(t) \/ NeedArena(t) \/ Take(t) \/ ReleaseDesc(t) \/ Put(t)
    BY <2>1, Stutters DEF AcquirePool, Scan, Mark, ReleasePool, Reset, AcquireDesc, NeedArena,
       Take, ReleaseDesc, Put, contents
  <2>2. CASE NewArena(t) \/ Return(t) \/ Resize(t) \/ Unlist(t)
    BY <2>2, NewArenaAdvances, ReturnAdvances, ResizeAdvances, UnlistAdvances
  <2> QED
    BY <1>2, <2>1, <2>2, SMTT(30) DEF Serve
<1>3. ASSUME NEW t \in Threads, Client(t) PROVE Advances
  <2>1. ASSUME NEW kind, NEW size, NEW old, Malloc(t, kind, size, old) PROVE Advances
    BY <2>1, Stutters DEF Malloc, contents
  <2> QED
    BY <1>3, <2>1, FreeAdvances, StoreAdvances DEF Client
<1> QED
  BY <1>1, <1>2, <1>3 DEF Next

(***************************************************************************)
(* Memory that is handed out is nobody else's until it is given back, and  *)
(* keeps what its owner wrote, also when realloc() moves it, for any       *)
(* number of threads, pages, blocks and descriptors.                       *)
(***************************************************************************)
THEOREM AllocatorsImplementHeap == Spec => ImplementsHeap
<1>1. Init => AllocatorInv /\ Accounts /\ memory \in Contents /\ Memory!Init
  BY InitInv, InitAccounts, InitHeap
<1>2. AllocatorInv /\ Accounts /\ memory \in Contents /\ [Next]_vars =>
        /\ AllocatorInv' /\ Accounts' /\ (memory \in Contents)'
        /\ [Memory!Next]_(Memory!vars)
  <2>1. Contents' = Contents
    BY DEF Contents, Cells
  <2> QED
    BY <2>1, NextKeeps, AccountsKeep, NextAdvances DEF Advances
<1> QED
  BY <1>1, <1>2, PTL DEF Spec, ImplementsHeap, Memory!Spec
=============================================================================
