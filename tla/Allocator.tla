----------------------------- MODULE Allocator -----------------------------
(***************************************************************************)
(* The page allocator (threads/palloc.c, on lib/kernel/bitmap.c) and the   *)
(* block allocator on top of it (threads/malloc.c), used by several        *)
(* threads that may be preempted anywhere.  A step is what a thread does   *)
(* between two uses of what it shares with others: a lock, a bit of        *)
(* used_map, a descriptor's list and its arenas' headers.                  *)
(***************************************************************************)
EXTENDS PriorityList

CONSTANTS
  Threads,
  Descs,            \* the descriptors: sizes of blocks that share a page
  blocks_per_arena,
  BigCnts,          \* the sizes, in pages, of malloc()'s big blocks
  GroupCnts,        \* and of groups of pages taken from the page allocator
  PageCnt,          \* pages of the pool
  MaxHeld,          \* extents the threads have at a time, as a bound
  Values,           \* what clients write
  Junk,             \* what they did not: list elements, 0xcc
  NoOne, None

ASSUME AllocatorAssumption ==
  /\ blocks_per_arena \in Nat \ {0} /\ PageCnt \in Nat
  /\ BigCnts \subseteq Nat \ {0} /\ GroupCnts \subseteq Nat \ {0}
  /\ NoOne \notin Threads /\ None \notin Nat \cup Descs /\ Junk \notin Values

(* A header is no null. *)
ASSUME HeaderAssumption ==
  \A d \in Descs \cup {None} : \A n \in (0..blocks_per_arena) \cup BigCnts \cup GroupCnts :
    [desc |-> d, free_cnt |-> n] # None

Pages == 0..(PageCnt - 1)
Slots == 0..(blocks_per_arena - 1)
Cells == Pages \X Slots

(***************************************************************************)
(* A piece of memory a thread has been given: a block of a descriptor, a   *)
(* big block of malloc(), or pages of palloc_get_multiple().               *)
(***************************************************************************)
Kinds == {"block", "big", "pages"}
Sizes(kind) ==
  CASE kind = "block" -> Descs [] kind = "big" -> BigCnts [] kind = "pages" -> GroupCnts
PageCnts == BigCnts \cup GroupCnts
Extent(kind, size, page, slot) ==
  [kind |-> kind, size |-> size, page |-> page, slot |-> slot]

PageCells(page, cnt) ==
  [k \in 1..(cnt * blocks_per_arena) |->
    <<page + (k - 1) \div blocks_per_arena, (k - 1) % blocks_per_arena>>]

CellSeq(e) ==
  IF e.kind = "block" THEN << <<e.page, e.slot>> >> ELSE PageCells(e.page, e.size)

VARIABLES
  pc,         \* where each thread is
  call,       \* its call's parameters and local variables
  held,       \* the extents it has
  fits,       \* a fitting run was free when it began to scan (history)
  pool_lock, used_map,
  desc_lock, free_list,
  arena,      \* the header in each page, None when it is no arena's
  memory,     \* the cells
  panicked

locals == <<pc, call, held, fits>>
pool == <<pool_lock, used_map>>
descs == <<desc_lock, free_list>>
contents == <<arena, memory>>
vars == <<locals, pool, descs, contents, panicked>>

NoCall == [op |-> "none", kind |-> "block", size |-> 0, old |-> None,
           page |-> None, slot |-> 0, cnt |-> 0, bit |-> 0]

(* malloc_init() and init_pool() *)
Init ==
  /\ pc = [t \in Threads |-> "user"]
  /\ call = [t \in Threads |-> NoCall]
  /\ held = [t \in Threads |-> {}]
  /\ fits = [t \in Threads |-> FALSE]
  /\ pool_lock = NoOne /\ used_map = {}
  /\ desc_lock = [d \in Descs |-> NoOne]
  /\ free_list = [d \in Descs |-> <<>>]
  /\ arena = [p \in Pages |-> None]
  /\ memory = [c \in Cells |-> Junk]
  /\ panicked = FALSE

At(t, place) == pc[t] = place /\ ~panicked
Goto(t, place) == pc' = [pc EXCEPT ![t] = place]
Set(t, new) == call' = [call EXCEPT ![t] = new]
End(t) == Goto(t, "user") /\ Set(t, NoCall)
ASSERTION(cond) == panicked' = ~cond

Written(cells, v) == [c \in Cells |-> IF c \in cells THEN v ELSE memory[c]]

-----------------------------------------------------------------------------
(* palloc.c and bitmap.c *)

Run(page, cnt) == page..(page + cnt - 1)
FreeRun(cnt) == \E p \in Pages : Run(p, cnt) \subseteq Pages \ used_map

(* Mutant: the last group of bits is not looked at. *)
PastAllButLast(page, cnt) == page + cnt >= PageCnt

PastLast(page, cnt) == page + cnt > PageCnt

(* Mutant: the lock is not taken. *)
Unlocked(t) == UNCHANGED pool_lock

LockPool(t) == pool_lock = NoOne /\ pool_lock' = t

AcquirePool(t) ==
  /\ At(t, "pool_lock") /\ LockPool(t)
  /\ Set(t, [call[t] EXCEPT !.page = 0, !.bit = 0])
  /\ fits' = [fits EXCEPT ![t] = FreeRun(call[t].cnt)]
  /\ Goto(t, "scan")
  /\ UNCHANGED <<held, used_map, descs, contents, panicked>>

(* bitmap_scan(), one bit at a time: others may reset bits meanwhile. *)
Scan(t) ==
  /\ At(t, "scan")
  /\ LET c == call[t] IN
       IF PastLast(c.page, c.cnt)
       THEN Set(t, [c EXCEPT !.page = None]) /\ Goto(t, "pool_release")
       ELSE IF c.page + c.bit \in used_map
       THEN Set(t, [c EXCEPT !.page = @ + 1, !.bit = 0]) /\ UNCHANGED pc
       ELSE IF c.bit + 1 < c.cnt
       THEN Set(t, [c EXCEPT !.bit = @ + 1]) /\ UNCHANGED pc
       ELSE Set(t, [c EXCEPT !.bit = 0]) /\ Goto(t, "mark")
  /\ UNCHANGED <<held, fits, pool, descs, contents, panicked>>

(* bitmap_set_multiple (.., true) *)
Mark(t) ==
  /\ At(t, "mark")
  /\ used_map' = used_map \cup {call[t].page + call[t].bit}
  /\ IF call[t].bit + 1 < call[t].cnt
     THEN Set(t, [call[t] EXCEPT !.bit = @ + 1]) /\ UNCHANGED pc
     ELSE Goto(t, "pool_release") /\ UNCHANGED call
  /\ UNCHANGED <<held, fits, pool_lock, descs, contents, panicked>>

ReleasePool(t) ==
  /\ At(t, "pool_release")
  /\ pool_lock' = NoOne
  /\ fits' = [fits EXCEPT ![t] = FALSE]
  /\ Goto(t, IF call[t].kind = "block" THEN "new_arena" ELSE "return")
  /\ UNCHANGED <<call, held, used_map, descs, contents, panicked>>

(* palloc_free_multiple(), up to the bits: the pages are overwritten. *)
Overwrite(page, cnt) ==
  /\ arena' = [p \in Pages |-> IF p \in Run(page, cnt) THEN None ELSE arena[p]]
  /\ memory' = Written(ToSet(PageCells(page, cnt)), Junk)

(* bitmap_set_multiple (.., false), without pool_lock *)
Reset(t) ==
  /\ At(t, "reset")
  /\ used_map' = used_map \ {call[t].page + call[t].bit}
  /\ IF call[t].bit + 1 < call[t].cnt
     THEN Set(t, [call[t] EXCEPT !.bit = @ + 1]) /\ UNCHANGED pc
     ELSE IF call[t].kind = "block" THEN Goto(t, "desc_release") /\ UNCHANGED call
     ELSE End(t)
  /\ UNCHANGED <<held, fits, pool_lock, descs, contents, panicked>>

-----------------------------------------------------------------------------
(* malloc.c *)

Request(kind, size, old) ==
  [op |-> "malloc", kind |-> kind, size |-> size, old |-> old, page |-> None,
   slot |-> 0, cnt |-> IF kind = "block" THEN 1 ELSE size, bit |-> 0]

Outstanding ==
  Cardinality(UNION {held[u] : u \in Threads})
    + Cardinality({u \in Threads : call[u].op = "malloc" /\ call[u].old = None})

(***************************************************************************)
(* malloc(), or palloc_get_multiple() itself; realloc() of an extent `old' *)
(* of malloc()'s begins with a malloc().                                   *)
(***************************************************************************)
Malloc(t, kind, size, old) ==
  /\ At(t, "user")
  /\ old = None => Outstanding < MaxHeld
  /\ old # None => kind # "pages" /\ old.kind # "pages"
  /\ Set(t, Request(kind, size, old))
  /\ Goto(t, IF kind = "block" THEN "desc_lock" ELSE "pool_lock")
  /\ UNCHANGED <<held, fits, pool, descs, contents, panicked>>

AcquireDesc(t) ==
  /\ At(t, "desc_lock") /\ desc_lock[call[t].size] = NoOne
  /\ desc_lock' = [desc_lock EXCEPT ![call[t].size] = t]
  /\ Goto(t, IF call[t].op = "free" THEN "put" ELSE "take")
  /\ UNCHANGED <<call, held, fits, pool, free_list, contents, panicked>>

(* The free list is empty: a new arena. *)
NeedArena(t) ==
  /\ At(t, "take") /\ free_list[call[t].size] = <<>>
  /\ Goto(t, "pool_lock")
  /\ UNCHANGED <<call, held, fits, pool, descs, contents, panicked>>

(* palloc_get_page() has returned a page, or none. *)
NewArena(t) ==
  /\ At(t, "new_arena")
  /\ LET p == call[t].page
         d == call[t].size IN
       IF p = None THEN Goto(t, "desc_release") /\ UNCHANGED <<free_list, contents>>
       ELSE /\ arena' = [arena EXCEPT ![p] = [desc |-> d, free_cnt |-> blocks_per_arena]]
            /\ free_list' = [free_list EXCEPT ![d] =
                 @ \o [i \in 1..blocks_per_arena |-> <<p, i - 1>>]]
            /\ memory' = Written({p} \X Slots, Junk)
            /\ Goto(t, "take")
  /\ UNCHANGED <<call, held, fits, pool, desc_lock, panicked>>

(* Mutant: the arena's header is not told. *)
TakenUncounted(p) == UNCHANGED arena

CountTaken(p) == arena' = [arena EXCEPT ![p].free_cnt = @ - 1]

Take(t) ==
  /\ At(t, "take") /\ free_list[call[t].size] # <<>>
  /\ LET d == call[t].size
         b == Head(free_list[d]) IN
       /\ free_list' = [free_list EXCEPT ![d] = Tail(@)]
       /\ Set(t, [call[t] EXCEPT !.page = b[1], !.slot = b[2]])
       /\ ASSERTION(arena[b[1]] # None)
       /\ IF arena[b[1]] # None THEN CountTaken(b[1]) ELSE UNCHANGED arena
  /\ Goto(t, "desc_release")
  /\ UNCHANGED <<held, fits, pool, desc_lock, memory>>

ReleaseDesc(t) ==
  /\ At(t, "desc_release")
  /\ desc_lock' = [desc_lock EXCEPT ![call[t].size] = NoOne]
  /\ IF call[t].op = "free" THEN End(t) ELSE Goto(t, "return") /\ UNCHANGED call
  /\ UNCHANGED <<held, fits, pool, free_list, contents, panicked>>

New(t) == Extent(call[t].kind, call[t].size, call[t].page, call[t].slot)
Header(t) == \* a big block's
  IF call[t].kind = "big"
  THEN [arena EXCEPT ![call[t].page] = [desc |-> None, free_cnt |-> call[t].cnt]]
  ELSE arena

(* malloc() returns, NULL when there is no page. *)
Return(t) ==
  /\ At(t, "return") /\ (call[t].old = None \/ call[t].page = None)
  /\ IF call[t].page = None THEN UNCHANGED <<held, arena>>
     ELSE /\ held' = [held EXCEPT ![t] = @ \cup {New(t)}]
          /\ arena' = Header(t)
  /\ End(t)
  /\ UNCHANGED <<fits, pool, descs, memory, panicked>>

Freeing(kind, size, e, cnt) ==
  [op |-> "free", kind |-> kind, size |-> size, old |-> None, page |-> e.page,
   slot |-> e.slot, cnt |-> cnt, bit |-> 0]

(***************************************************************************)
(* free() of an extent e: block_to_arena() and what comes before the lock, *)
(* or palloc_free_multiple().  `mem' and `headers' are what memory and     *)
(* arena are by then.                                                      *)
(***************************************************************************)
BeginFree(t, e, mem, headers) ==
  LET a == headers[e.page]
      cnt == IF e.kind = "pages" THEN e.size ELSE a.free_cnt
  IN IF e.kind # "pages" /\ a = None
     THEN /\ panicked' = TRUE
          /\ memory' = mem /\ arena' = headers /\ UNCHANGED <<pc, call>>
     ELSE IF e.kind # "pages" /\ a.desc # None
     THEN /\ memory' = [mem EXCEPT ![<<e.page, e.slot>>] = Junk]
          /\ arena' = headers
          /\ Set(t, Freeing("block", a.desc, e, 1))
          /\ Goto(t, "desc_lock")
          /\ UNCHANGED panicked
     ELSE /\ memory' = [c \in Cells |-> IF c[1] \in Run(e.page, cnt) THEN Junk ELSE mem[c]]
          /\ arena' = [p \in Pages |-> IF p \in Run(e.page, cnt) THEN None ELSE headers[p]]
          /\ Set(t, Freeing("pages", cnt, e, cnt))
          /\ Goto(t, "reset")
          /\ ASSERTION(Run(e.page, cnt) \subseteq used_map)

Free(t, e) ==
  /\ At(t, "user")
  /\ held' = [held EXCEPT ![t] = @ \ {e}]
  /\ BeginFree(t, e, memory, arena)
  /\ UNCHANGED <<fits, pool, descs>>

(* realloc() has got the new block: it copies the old one and frees it. *)
Resize(t) ==
  /\ At(t, "return") /\ call[t].old # None /\ call[t].page # None
  /\ LET old == CellSeq(call[t].old)
         new == CellSeq(New(t))
         copied == DOMAIN old \cap DOMAIN new
         from(c) == CHOOSE k \in copied : new[k] = c
     IN /\ held' = [held EXCEPT ![t] = (@ \ {call[t].old}) \cup {New(t)}]
        /\ BeginFree(t, call[t].old,
                     [c \in Cells |-> IF \E k \in copied : new[k] = c
                                      THEN memory[old[from(c)]] ELSE memory[c]],
                     Header(t))
  /\ UNCHANGED <<fits, pool, descs>>

Unused(p) == arena[p].free_cnt + 1 >= blocks_per_arena

(* free() puts the block back. *)
Put(t) ==
  /\ At(t, "put")
  /\ LET d == call[t].size
         p == call[t].page
     IN /\ free_list' = [free_list EXCEPT ![d] = << <<p, call[t].slot>> >> \o @]
        /\ IF arena[p] = None
           THEN panicked' = TRUE /\ UNCHANGED <<pc, arena>>
           ELSE /\ arena' = [arena EXCEPT ![p].free_cnt = @ + 1]
                /\ Goto(t, IF Unused(p) THEN "unlist" ELSE "desc_release")
                /\ ASSERTION(arena[p].free_cnt < blocks_per_arena)
  /\ UNCHANGED <<call, held, fits, pool, desc_lock, memory>>

(* An arena without a block out: its blocks are removed one by one, then   *)
(* the page is given back.                                                 *)
Unlist(t) ==
  /\ At(t, "unlist")
  /\ LET d == call[t].size
         p == call[t].page
         i == call[t].bit
     IN /\ free_list' = [free_list EXCEPT ![d] = list_remove(@, <<p, i>>)]
        /\ IF i + 1 < blocks_per_arena
           THEN /\ Set(t, [call[t] EXCEPT !.bit = @ + 1])
                /\ UNCHANGED <<pc, contents, panicked>>
           ELSE /\ Set(t, [call[t] EXCEPT !.bit = 0])
                /\ Goto(t, "reset")
                /\ Overwrite(p, 1)
                /\ ASSERTION(p \in used_map)
  /\ UNCHANGED <<held, fits, pool, desc_lock>>

-----------------------------------------------------------------------------
(* A client writes to what it has. *)
Store(t, e, v) ==
  /\ At(t, "user")
  /\ memory' = Written(ToSet(CellSeq(e)), v)
  /\ arena' = IF e.kind = "pages"
              THEN [p \in Pages |-> IF p \in Run(e.page, e.size) THEN None ELSE arena[p]]
              ELSE arena
  /\ UNCHANGED <<locals, pool, descs, panicked>>

Serve(t) ==
  \/ AcquirePool(t) \/ Scan(t) \/ Mark(t) \/ ReleasePool(t) \/ Reset(t)
  \/ AcquireDesc(t) \/ NeedArena(t) \/ NewArena(t) \/ Take(t) \/ ReleaseDesc(t)
  \/ Return(t) \/ Resize(t) \/ Put(t) \/ Unlist(t)

Client(t) ==
  \/ \E kind \in Kinds : \E size \in Sizes(kind), old \in held[t] \cup {None} :
       Malloc(t, kind, size, old)
  \/ \E e \in held[t] : Free(t, e) \/ \E v \in Values : Store(t, e, v)

Next == \E t \in Threads : Serve(t) \/ Client(t)

Spec == Init /\ [][Next]_vars
=============================================================================
