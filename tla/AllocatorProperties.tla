------------------------ MODULE AllocatorProperties ------------------------
(* What must hold of the page and block allocators of Allocator. *)
EXTENDS Allocator

(* The blocks of an arena that clients have or that calls are moving. *)
Moving(t) ==
  \/ pc[t] = "put"
  \/ call[t].op = "free" /\ call[t].kind = "block" /\ pc[t] = "desc_lock"
  \/ call[t].op = "malloc" /\ call[t].kind = "block" /\ pc[t] \in {"desc_release", "return"}

(* The blocks off the list of an arena that a call is taking apart. *)
Unlinked(p) == UNION {{<<p, i>> : i \in 0..(call[t].bit - 1)} :
                        t \in {u \in Threads : pc[u] = "unlist" /\ call[u].page = p}}

BlocksOut(p) ==
  {<<e.page, e.slot>> : e \in {x \in UNION {held[t] : t \in Threads} :
                                 x.kind = "block" /\ x.page = p}}
  \cup {<<p, call[t].slot>> : t \in {u \in Threads : Moving(u) /\ call[u].page = p}}

(* The pages clients have, and those that calls are taking or giving back. *)
PagesHeld == UNION {Run(e.page, e.size) :
  e \in {x \in UNION {held[t] : t \in Threads} : x.kind # "block"}}

PagesMoving(t) ==
  LET c == call[t] IN
  IF c.page = None THEN {}
  ELSE IF pc[t] = "mark" THEN c.page..(c.page + c.bit - 1)
  ELSE IF pc[t] = "reset" THEN (c.page + c.bit)..(c.page + c.cnt - 1)
  ELSE IF pc[t] \in {"pool_release", "new_arena"} \/ (pc[t] = "return" /\ c.kind # "block")
  THEN Run(c.page, c.cnt) ELSE {}

(***************************************************************************)
(* No memory is lost and none is given twice: a page is marked exactly     *)
(* when it is an arena, a client's, or on its way; the blocks of an arena  *)
(* are each out or in the free list, once, and the header counts the free  *)
(* ones; an arena without a block out is not kept.                         *)
(***************************************************************************)
Arenas == {p \in Pages : arena[p] # None /\ arena[p].desc # None}

MemoryAccounted ==
  /\ used_map = Arenas \cup PagesHeld \cup UNION {PagesMoving(t) : t \in Threads}
  /\ \A d \in Descs : IsInjective(free_list[d])
  /\ \A p \in Arenas :
       LET free == {b \in ToSet(free_list[arena[p].desc]) : b[1] = p}
           away == BlocksOut(p) \cup Unlinked(p)
       IN
       /\ free \cap away = {} /\ free \cup away = {p} \X Slots
       /\ arena[p].free_cnt = Cardinality(free \cup Unlinked(p))
       /\ BlocksOut(p) = {} => desc_lock[arena[p].desc] # NoOne
  /\ ~panicked

(***************************************************************************)
(* A call is refused only when no run of pages was free as it took the     *)
(* pool's lock, although bits are reset without the lock while it scans.   *)
(***************************************************************************)
RefusedOnlyWhenFull ==
  \A t \in Threads : pc[t] = "pool_release" /\ call[t].page = None => ~fits[t]

(***************************************************************************)
(* The allocators implement Heap: what a client has been given are the     *)
(* cells of the extents it holds, one block's or whole pages', in order.   *)
(***************************************************************************)
Given == [t \in Threads |-> {CellSeq(e) : e \in held[t]}]
Spans == {<<c>> : c \in Cells}
           \cup {PageCells(x[1], x[2]) : x \in {y \in Pages \X PageCnts : y[1] + y[2] <= PageCnt}}

Memory == INSTANCE Heap WITH
  Clients <- Threads, Values <- Values \cup {Junk}, Extents <- Spans,
  owned <- Given, content <- memory

ImplementsHeap == Memory!Spec
=============================================================================
