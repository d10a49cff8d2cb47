---------------------------- MODULE VirtualMemory ----------------------------
(***************************************************************************)
(* Demand paging in pintos-virtual-memory: frames, eviction, swap, stack   *)
(* growth, mapped files and the pinning of buffers, from vm/frame.c,       *)
(* vm/spage.c, vm/swap.c, vm/mmap.c, userprog/exception.c and the parts of *)
(* userprog/ that call them.  A process that needs a frame evicts a page   *)
(* of another while that other runs; frame_lock, lock_f and swap_lock are  *)
(* held across disk transfers, during which everybody else runs.  Which    *)
(* page the clock chooses depends on accessed bits; here any page that is  *)
(* not inevictable may be chosen.                                          *)
(***************************************************************************)
EXTENDS Integers, FiniteSets

CONSTANTS
  Procs, Pages,
  Owner,        \* the process whose address space each page is in
  Layouts,      \* what backs each page at first: FILE, MMAP, SWAP (stack), NONE
  Frames,       \* the user pool
  Slots,        \* the swap partition
  Values,       \* what a page may contain
  Junk,         \* what memory that nobody wrote contains
  Nobody, NoPage, NoFrame, NoSlot

ASSUME PagingAssumption ==
  /\ Owner \in [Pages -> Procs]
  /\ Layouts \subseteq [Pages -> {"FILE", "MMAP", "SWAP", "NONE"}]
  /\ Junk \notin Values /\ Nobody \notin Procs /\ NoPage \notin Pages
  /\ NoFrame \notin Frames /\ NoSlot \notin Slots

(* Every program has a stack, and arguments to write on it. *)
ASSUME StackAssumption ==
  /\ Values # {}
  /\ \A layout \in Layouts, p \in Procs :
       \E g \in Pages : Owner[g] = p /\ layout[g] = "SWAP"

VARIABLES
  kind,         \* the layout of the programs that are run
  pc, upage,    \* where each process is, and the page it is busy with
  resume,       \* where it goes on once that page is in memory, or gone
  frame,        \* the frame frame_alloc() gave it or frame_free() will take
  victim,       \* the page frame_replace() evicts for it
  spte,         \* the supplemental page table entries
  pte,          \* the hardware's: the frame, if present, and the dirty bit
  frame_list,   \* the page each frame is listed for; NoPage: in the user pool
  content,      \* what is in each frame
  swap,         \* swap_slots_status and what is in each slot
  file,         \* what is in the file behind each page
  frame_lock, lock_f, swap_lock,
  panicked,
  spoiled,      \* history: what has happened that the code does not handle
  stored        \* history: what each page of a program ought to contain

process == <<pc, upage, resume, frame, victim>>
tables == <<spte, pte>>
memory == <<frame_list, content>>
locks == <<frame_lock, lock_f, swap_lock>>
vars ==
  <<kind, process, tables, memory, swap, file, locks, panicked, spoiled, stored>>

Absent == [mapped |-> FALSE, spage_type |-> "ERROR", in_memory |-> FALSE,
           inevictable |-> FALSE, swap_slot_id |-> NoSlot]

(* What a slot that is not in use holds is never read. *)
FreeSlot == [used |-> FALSE, data |-> Junk]

(* pagedir_clear_page(): the dirty bit of an absent page is never read. *)
NotPresent == [frame |-> NoFrame, dirty |-> FALSE]

Init ==
  /\ kind \in Layouts
  /\ pc = [p \in Procs |-> "new"]
  /\ upage = [p \in Procs |-> NoPage]
  /\ resume = [p \in Procs |-> "user"]
  /\ frame = [p \in Procs |-> NoFrame]
  /\ victim = [p \in Procs |-> NoPage]
  /\ spte = [g \in Pages |-> Absent]
  /\ pte = [g \in Pages |-> NotPresent]
  /\ frame_list = [f \in Frames |-> NoPage]
  /\ content = [f \in Frames |-> Junk]
  /\ swap = [s \in Slots |-> FreeSlot]
  /\ \E v \in Values : file = [g \in Pages |-> v]
  /\ frame_lock = Nobody /\ lock_f = Nobody /\ swap_lock = Nobody
  /\ panicked = FALSE
  /\ spoiled = {}
  /\ stored = [g \in Pages |-> Junk]

(* Process p takes a step from `place'; what is being run never changes. *)
From(p, place) == ~panicked /\ pc[p] = place /\ UNCHANGED kind
Goto(p, place) == pc' = [pc EXCEPT ![p] = place]
Present(g) == pte[g].frame # NoFrame

(* Process p goes on at `place'; what it was busy with is forgotten. *)
Resume(p, place) ==
  /\ Goto(p, place)
  /\ resume' = [resume EXCEPT ![p] = "user"]
  /\ upage' = IF place \in {"user", "exit", "gone"}
              THEN [upage EXCEPT ![p] = NoPage] ELSE upage

(* lock_acquire() of a lock one holds already fails an assertion. *)
Panics(p, lock) ==
  /\ lock = p
  /\ panicked' = TRUE
  /\ UNCHANGED <<process, tables, memory, swap, file, locks, spoiled, stored>>

(***************************************************************************)
(* Between the choice of a page and pagedir_clear_page() its owner still   *)
(* uses it: a write after the copy was taken, a pin, a munmap or an exit   *)
(* finds the page in memory and is overtaken by the eviction.  So is an    *)
(* exit that is about to free the frame of a page that is chosen.          *)
(***************************************************************************)
Evicting(g, places) == \E q \in Procs : victim[q] = g /\ pc[q] \in places
Chosen == {"write_back", "swap_out", "unlink"}
Torn(g, places) ==
  spoiled' = IF Evicting(g, places) THEN spoiled \cup {"torn"} ELSE spoiled
Removing(g) == \E q \in Procs : upage[q] = g /\ pc[q] \in {"unmap_write", "unmap_free"}

(* The owner writes to its page. *)
Store(g, v) ==
  /\ content' = [content EXCEPT ![pte[g].frame] = v]
  /\ pte' = [pte EXCEPT ![g].dirty = TRUE]
  /\ stored' = [stored EXCEPT ![g] = v]

-----------------------------------------------------------------------------
(* Leave for frame_alloc() with page g; go on at `after' with it in memory. *)
Bring(p, g, after) ==
  /\ upage' = [upage EXCEPT ![p] = g]
  /\ resume' = [resume EXCEPT ![p] = after]
  /\ Goto(p, "alloc")
  /\ UNCHANGED <<frame, victim>>

\* Mutant: nothing is pinned.
PinsNothing(g) == UNCHANGED spte

Pin(g) == spte' = [spte EXCEPT ![g].inevictable = TRUE]

(***************************************************************************)
(* grow_stack() marks the page in memory, and inevictable for good: it is  *)
(* never called in an interrupt.                                           *)
(***************************************************************************)
NewStack == [mapped |-> TRUE, spage_type |-> "SWAP", in_memory |-> TRUE,
             inevictable |-> TRUE, swap_slot_id |-> NoSlot]

MayGrow(p, g) == Owner[g] = p /\ kind[g] = "SWAP" /\ ~spte[g].mapped

\* Mutant: a return that forgets to release the lock.
KeepFileLock == UNCHANGED lock_f

ReleaseFileLock == lock_f' = Nobody

(* load() takes lock_f, enters the segments and sets the stack up. *)
Load(p, g) ==
  /\ From(p, "new") /\ MayGrow(p, g)
  /\ lock_f = Nobody
  /\ lock_f' = p
  /\ spte' = [h \in Pages |->
       IF h = g THEN NewStack
       ELSE IF Owner[h] = p /\ kind[h] = "FILE"
            THEN [Absent EXCEPT !.mapped = TRUE, !.spage_type = "FILE"]
            ELSE spte[h]]
  /\ stored' = [h \in Pages |->
       IF Owner[h] = p /\ kind[h] = "FILE" THEN file[h] ELSE stored[h]]
  /\ Bring(p, g, "loaded")
  /\ UNCHANGED <<pte, memory, swap, file, frame_lock, swap_lock, panicked, spoiled>>

(* The arguments are written on the stack before lock_f is released. *)
Loaded(p) ==
  /\ From(p, "loaded")
  /\ \E v \in Values : Store(upage[p], v)
  /\ ReleaseFileLock
  /\ Resume(p, "user")
  /\ UNCHANGED <<frame, victim, spte, frame_list, swap, file,
                 frame_lock, swap_lock, panicked, spoiled>>

(* An instruction that writes, in user mode. *)
Write(p, g, v) ==
  /\ From(p, "user") /\ Owner[g] = p /\ Present(g)
  /\ Store(g, v)
  /\ Torn(g, {"unlink"})
  /\ UNCHANGED <<process, spte, frame_list, swap, file, locks, panicked>>

(* page_fault(): a page that is not in memory, or growth of the stack. *)
Fault(p, g) ==
  /\ From(p, "user") /\ Owner[g] = p
  /\ spte[g].mapped /\ ~Present(g)
  /\ Pin(g)
  /\ Bring(p, g, "user")
  /\ UNCHANGED <<pte, memory, swap, file, locks, panicked, spoiled, stored>>

GrowStack(p, g, after) ==
  /\ From(p, "user") /\ MayGrow(p, g)
  /\ spte' = [spte EXCEPT ![g] = NewStack]
  /\ Bring(p, g, after)
  /\ UNCHANGED <<pte, memory, swap, file, locks, panicked, spoiled, stored>>

-----------------------------------------------------------------------------

ReplaceLocked(p) == frame_lock' = p

(* frame_alloc() takes a frame of the pool, else evicts under frame_lock. *)
FrameAlloc(p) ==
  /\ From(p, "alloc")
  /\ frame_lock = Nobody
  /\ \/ \E f \in Frames :
          /\ frame_list[f] = NoPage
          /\ frame_list' = [frame_list EXCEPT ![f] = upage[p]]
          /\ frame' = [frame EXCEPT ![p] = f]
          /\ Goto(p, "fill")
          /\ UNCHANGED frame_lock
     \/ /\ \A f \in Frames : frame_list[f] # NoPage
        /\ ReplaceLocked(p)
        /\ Goto(p, "evict")
        /\ UNCHANGED <<frame, frame_list>>
  /\ UNCHANGED <<upage, resume, victim, tables, content, swap, file, lock_f,
                 swap_lock, panicked, spoiled, stored>>

\* Mutant: pages that came from an executable are taken for read-only.
SavedUnlessFile(g) ==
  CASE spte[g].spage_type = "MMAP" -> "write_back"
    [] spte[g].spage_type = "SWAP" -> "swap_out"
    [] OTHER -> "unlink"

Saved(g) == IF spte[g].spage_type = "MMAP" THEN "write_back" ELSE "swap_out"

(***************************************************************************)
(* frame_replace().  A page that is clean is dropped, also one of the      *)
(* stack that was never written and so has no slot in the swap partition.  *)
(***************************************************************************)
Choose(p, f) ==
  LET g == frame_list[f]
  IN /\ From(p, "evict")
     /\ ~spte[g].inevictable
     /\ victim' = [victim EXCEPT ![p] = g]
     /\ Goto(p, IF pte[g].dirty THEN Saved(g) ELSE "unlink")
     /\ spoiled' = spoiled
          \cup (IF Removing(g) THEN {"torn"} ELSE {})
          \cup (IF ~pte[g].dirty /\ spte[g].spage_type = "SWAP"
                THEN {"unwritten"} ELSE {})
     /\ UNCHANGED <<upage, resume, frame, tables, memory, swap, file, locks,
                    panicked, stored>>

WriteBack(p) ==
  /\ From(p, "write_back")
  /\ \/ /\ lock_f = Nobody
        /\ file' = [file EXCEPT ![victim[p]] = content[pte[victim[p]].frame]]
        /\ Goto(p, "unlink")
        /\ UNCHANGED <<upage, resume, frame, victim, tables, memory, swap, locks,
                       panicked, spoiled, stored>>
     \/ Panics(p, lock_f)

\* Mutant: a slot is filled and not marked.
UnmarkedSlot(v) == [used |-> FALSE, data |-> v]

UsedSlot(v) == [used |-> TRUE, data |-> v]
Full == \A s \in Slots : swap[s].used
FirstFree(s) == ~swap[s].used /\ \A t \in Slots : t < s => swap[t].used

(* swap_out() panics when the partition is full. *)
SwapOut(p) ==
  LET g == victim[p]
  IN /\ From(p, "swap_out")
     /\ \/ /\ swap_lock = Nobody
           /\ \E s \in Slots :
                /\ FirstFree(s)
                /\ swap' = [swap EXCEPT ![s] = UsedSlot(content[pte[g].frame])]
                /\ spte' = [spte EXCEPT ![g].spage_type = "SWAP",
                                        ![g].swap_slot_id = s]
           /\ Goto(p, "unlink")
           /\ UNCHANGED <<upage, resume, frame, victim, pte, memory, file, locks,
                          panicked, spoiled, stored>>
        \/ /\ swap_lock = Nobody /\ Full
           /\ panicked' = TRUE
           /\ UNCHANGED <<process, tables, memory, swap, file, locks, spoiled, stored>>
        \/ Panics(p, swap_lock)

(* The frame changes hands: palloc_free_page(), palloc_get_page(). *)
Unlink(p) ==
  /\ From(p, "unlink")
  /\ \E f \in Frames :
       /\ frame_list[f] = victim[p]
       /\ frame_list' = [frame_list EXCEPT ![f] = upage[p]]
       /\ content' = [content EXCEPT ![f] = Junk]
       /\ frame' = [frame EXCEPT ![p] = f]
  /\ spte' = [spte EXCEPT ![victim[p]].in_memory = FALSE]
  /\ pte' = [pte EXCEPT ![victim[p]] = NotPresent]
  /\ victim' = [victim EXCEPT ![p] = NoPage]
  /\ frame_lock' = Nobody
  /\ Goto(p, "fill")
  /\ UNCHANGED <<upage, resume, swap, file, lock_f, swap_lock, panicked, spoiled, stored>>

-----------------------------------------------------------------------------
(***************************************************************************)
(* The rest of spage_table_load() and grow_stack().  install_page() enters *)
(* a clean page; swap_in() then writes through the user's address, which   *)
(* sets the dirty bit.  page_fault_handler() unpins what it has loaded.    *)
(***************************************************************************)
Install(p, dirty, value) ==
  LET g == upage[p]
  IN /\ pte' = [pte EXCEPT ![g] = [frame |-> frame[p], dirty |-> dirty]]
     /\ content' = [content EXCEPT ![frame[p]] = value]
     /\ spte' = [spte EXCEPT ![g].in_memory = TRUE,
          ![g].inevictable = @ /\ (resume[p] = "io" \/ spte[g].in_memory)]
     /\ frame' = [frame EXCEPT ![p] = NoFrame]
     /\ Resume(p, resume[p])
     /\ UNCHANGED <<victim, frame_list, frame_lock, lock_f, panicked, spoiled, stored>>

FillStack(p) ==
  /\ From(p, "fill") /\ spte[upage[p]].in_memory
  /\ Install(p, FALSE, Junk)
  /\ UNCHANGED <<swap, file, swap_lock>>

FillFile(p) ==
  LET g == upage[p]
  IN /\ From(p, "fill") /\ ~spte[g].in_memory
     /\ spte[g].spage_type \in {"FILE", "MMAP"}
     /\ \/ /\ lock_f = Nobody
           /\ Install(p, FALSE, file[g])
           /\ UNCHANGED <<swap, file, swap_lock>>
        \/ Panics(p, lock_f)

(***************************************************************************)
(* swap_in().  The slot of a page that was never swapped out is whatever   *)
(* malloc() left there; swap_in() of an empty slot returns with swap_lock  *)
(* held.                                                                   *)
(***************************************************************************)
FillSwap(p) ==
  LET g == upage[p]
      id == spte[g].swap_slot_id
  IN /\ From(p, "fill") /\ ~spte[g].in_memory
     /\ spte[g].spage_type = "SWAP"
     /\ \/ /\ swap_lock = Nobody
           /\ \E s \in IF id = NoSlot THEN Slots ELSE {id} :
                \/ /\ swap[s].used
                   /\ swap' = [swap EXCEPT ![s] = FreeSlot]
                   /\ Install(p, TRUE, swap[s].data)
                   /\ UNCHANGED swap_lock
                \/ /\ ~swap[s].used
                   /\ swap_lock' = p
                   /\ Install(p, FALSE, Junk)
                   /\ UNCHANGED swap
           /\ UNCHANGED file
        \/ Panics(p, swap_lock)

-----------------------------------------------------------------------------
(***************************************************************************)
(* A system call on a buffer: is_addr_valid() pins its page and loads it   *)
(* or grows the stack, the transfer runs under lock_f and is done with the *)
(* user's address, unlock_buf() unpins.  A page that has been evicted all  *)
(* the same is faulted in by the kernel, which still holds lock_f.         *)
(***************************************************************************)
Syscall(p, g) ==
  /\ From(p, "user") /\ Owner[g] = p /\ spte[g].mapped
  /\ Pin(g)
  /\ IF spte[g].in_memory
     THEN /\ upage' = [upage EXCEPT ![p] = g]
          /\ Goto(p, "io")
          /\ UNCHANGED <<resume, frame, victim>>
     ELSE Bring(p, g, "io")
  /\ Torn(g, Chosen)
  /\ UNCHANGED <<pte, memory, swap, file, locks, panicked, stored>>

Transfer(p) ==
  /\ From(p, "io")
  /\ lock_f = Nobody
  /\ lock_f' = p
  /\ Goto(p, "io_locked")
  /\ UNCHANGED <<upage, resume, frame, victim, tables, memory, swap, file,
                 frame_lock, swap_lock, panicked, spoiled, stored>>

Transferred(p) ==
  LET g == upage[p]
  IN /\ From(p, "io_locked") /\ Present(g)
     /\ \/ UNCHANGED <<content, pte, stored>>
        \/ \E v \in Values : Store(g, v)
     /\ Torn(g, {"unlink"})
     /\ spte' = [spte EXCEPT ![g].inevictable = FALSE]
     /\ ReleaseFileLock
     /\ Resume(p, "user")
     /\ UNCHANGED <<frame, victim, frame_list, swap, file, frame_lock, swap_lock,
                    panicked>>

KernelFault(p) ==
  /\ From(p, "io_locked") /\ ~Present(upage[p])
  /\ Pin(upage[p])
  /\ Bring(p, upage[p], "io_locked")
  /\ UNCHANGED <<pte, memory, swap, file, locks, panicked, spoiled, stored>>

-----------------------------------------------------------------------------
(* mmap_map() only enters the page. *)
Mmap(p, g) ==
  /\ From(p, "user") /\ Owner[g] = p /\ kind[g] = "MMAP" /\ ~spte[g].mapped
  /\ spte' = [spte EXCEPT ![g] = [Absent EXCEPT !.mapped = TRUE,
                                                !.spage_type = "MMAP"]]
  /\ stored' = [stored EXCEPT ![g] = file[g]]
  /\ UNCHANGED <<process, pte, memory, swap, file, locks, panicked, spoiled>>

(***************************************************************************)
(* mmap_unmap() and spage_hash_remove() read in_memory and, as frame_free()*)
(* is called, the frame, before they have frame_lock.                      *)
(***************************************************************************)
Remove(p, g, after) ==
  /\ spte[g].mapped
  /\ IF ~spte[g].in_memory
     THEN /\ spte' = [spte EXCEPT ![g] = Absent]
          /\ stored' = [stored EXCEPT ![g] = Junk]
          /\ UNCHANGED <<pc, upage, resume, frame, spoiled>>
     ELSE /\ upage' = [upage EXCEPT ![p] = g]
          /\ resume' = [resume EXCEPT ![p] = after]
          /\ spte' = [spte EXCEPT ![g].inevictable = @ \/ kind[g] = "MMAP"]
          /\ Torn(g, Chosen)
          /\ UNCHANGED stored
          /\ IF kind[g] = "MMAP" /\ pte[g].dirty
             THEN Goto(p, "unmap_write") /\ UNCHANGED frame
             ELSE /\ frame' = [frame EXCEPT ![p] = pte[g].frame]
                  /\ Goto(p, "unmap_free")
  /\ UNCHANGED <<victim, pte, memory, swap, file, locks, panicked>>

Munmap(p, g) == From(p, "user") /\ Owner[g] = p /\ kind[g] = "MMAP"
                /\ Remove(p, g, "user")

(* The page is read with the user's address: if it is gone, the fault     *)
(* in the kernel asks for lock_f once more.                                *)
UnmapWrite(p) ==
  LET g == upage[p]
  IN /\ From(p, "unmap_write")
     /\ lock_f = Nobody
     /\ IF Present(g)
        THEN /\ file' = [file EXCEPT ![g] = content[pte[g].frame]]
             /\ frame' = [frame EXCEPT ![p] = pte[g].frame]
             /\ Goto(p, "unmap_free")
             /\ UNCHANGED panicked
        ELSE panicked' = TRUE /\ UNCHANGED <<pc, frame, file>>
     /\ UNCHANGED <<upage, resume, victim, tables, memory, swap, locks, spoiled, stored>>

\* Mutant: the frame is freed and stays listed.
StaysListed(f) == frame_list

Delisted(f) == [h \in Frames |-> IF h = f THEN NoPage ELSE frame_list[h]]

UnmapFree(p) ==
  LET f == frame[p]
  IN /\ From(p, "unmap_free")
     /\ frame_lock = Nobody
     /\ frame_list' = Delisted(f)
     /\ content' = [h \in Frames |-> IF h = f THEN Junk ELSE content[h]]
     /\ pte' = [pte EXCEPT ![upage[p]] = NotPresent]
     /\ spte' = [spte EXCEPT ![upage[p]] = Absent]
     /\ stored' = [stored EXCEPT ![upage[p]] = Junk]
     /\ frame' = [frame EXCEPT ![p] = NoFrame]
     /\ Resume(p, resume[p])
     /\ UNCHANGED <<victim, swap, file, locks, panicked, spoiled>>

(***************************************************************************)
(* process_exit(): mmap_unmap(-1), then spage_table_free().  Slots of the  *)
(* swap partition are not given back.                                      *)
(***************************************************************************)
Exit(p) ==
  /\ From(p, "user")
  /\ Goto(p, "exit")
  /\ UNCHANGED <<upage, resume, frame, victim, tables, memory, swap, file, locks,
                 panicked, spoiled, stored>>

Mapped(p) == {g \in Pages : Owner[g] = p /\ spte[g].mapped}

ExitPage(p, g) ==
  /\ From(p, "exit") /\ g \in Mapped(p)
  /\ kind[g] = "MMAP" \/ \A h \in Mapped(p) : kind[h] # "MMAP"
  /\ Remove(p, g, "exit")

Exited(p) ==
  /\ From(p, "exit") /\ Mapped(p) = {}
  /\ Goto(p, "gone")
  /\ UNCHANGED <<upage, resume, frame, victim, tables, memory, swap, file, locks,
                 panicked, spoiled, stored>>

-----------------------------------------------------------------------------
(* The steps the kernel takes for a process once it has entered it. *)
Runs(p) ==
  \/ Loaded(p) \/ FrameAlloc(p) \/ WriteBack(p) \/ SwapOut(p) \/ Unlink(p)
  \/ FillStack(p) \/ FillFile(p) \/ FillSwap(p)
  \/ Transfer(p) \/ Transferred(p) \/ KernelFault(p)
  \/ UnmapWrite(p) \/ UnmapFree(p) \/ Exited(p)
  \/ \E f \in Frames : Choose(p, f)
  \/ \E g \in Pages : ExitPage(p, g) \/ Load(p, g)

Calls(p, g) ==
  \/ \E v \in Values : Write(p, g, v)
  \/ Fault(p, g) \/ Syscall(p, g) \/ Mmap(p, g) \/ Munmap(p, g)
  \/ \E after \in {"user", "io"} : GrowStack(p, g, after)

Next == \E p \in Procs : Runs(p) \/ Exit(p) \/ \E g \in Pages : Calls(p, g)

Spec == Init /\ [][Next]_vars
=============================================================================
