-------------------------- MODULE PagingProperties --------------------------
(* What must hold of the demand paging of VirtualMemory. *)
EXTENDS VirtualMemory

Places ==
  {"new", "loaded", "user", "alloc", "evict", "write_back", "swap_out",
   "unlink", "fill", "io", "io_locked", "unmap_write", "unmap_free", "exit",
   "gone"}

Entries ==
  [mapped : BOOLEAN, spage_type : {"FILE", "MMAP", "SWAP", "ERROR"},
   in_memory : BOOLEAN, inevictable : BOOLEAN,
   swap_slot_id : Slots \cup {NoSlot}]

(* The type of every variable, and who is in frame_replace() has frame_lock. *)
TypeOK ==
  /\ pc \in [Procs -> Places]
  /\ upage \in [Procs -> Pages \cup {NoPage}]
  /\ resume \in [Procs -> {"user", "io", "io_locked", "loaded", "exit"}]
  /\ frame \in [Procs -> Frames \cup {NoFrame}]
  /\ victim \in [Procs -> Pages \cup {NoPage}]
  /\ spte \in [Pages -> Entries]
  /\ pte \in [Pages -> [frame : Frames \cup {NoFrame}, dirty : BOOLEAN]]
  /\ frame_list \in [Frames -> Pages \cup {NoPage}]
  /\ content \in [Frames -> Values \cup {Junk}]
  /\ swap \in [Slots -> [used : BOOLEAN, data : Values \cup {Junk}]]
  /\ file \in [Pages -> Values \cup {Junk}]
  /\ {frame_lock, lock_f, swap_lock} \subseteq Procs \cup {Nobody}
  /\ \A p \in Procs : pc[p] \in {"evict"} \cup Chosen => frame_lock = p
  /\ stored \in [Pages -> Values \cup {Junk}]
  /\ panicked \in BOOLEAN
  /\ spoiled \subseteq {"torn", "unwritten"}

(* Nothing has happened that the code does not handle: no eviction was     *)
(* overtaken, and no clean page of the stack, which has no slot, dropped.  *)
Sound == spoiled = {}
Untorn == "torn" \notin spoiled

(***************************************************************************)
(* A frame belongs to one page: the hardware's tables, the frame table and *)
(* in_memory agree, except while the owner is having the page brought in,  *)
(* until an eviction is overtaken.                                         *)
(***************************************************************************)
Arriving(g, f) ==
  \E p \in Procs : pc[p] = "fill" /\ upage[p] = g /\ frame[p] = f

FramesOwned ==
  Untorn => \A g \in Pages :
    /\ Present(g) => frame_list[pte[g].frame] = g /\ spte[g].in_memory
    /\ \A f \in Frames : frame_list[f] = g => pte[g].frame = f \/ Arriving(g, f)

(***************************************************************************)
(* A page that is neither in memory nor in its file is in a slot of its    *)
(* own that swap_slots_status marks as used, until a page of the stack is  *)
(* dropped that never got a slot.  Overtaken evictions do no harm here.    *)
(***************************************************************************)
InSwap == {g \in Pages : spte[g].spage_type = "SWAP" /\ ~spte[g].in_memory}

SlotsOwned ==
  "unwritten" \notin spoiled => \A g \in InSwap :
    /\ spte[g].swap_slot_id \in {s \in Slots : swap[s].used}
    /\ \A h \in InSwap : spte[h].swap_slot_id = spte[g].swap_slot_id => h = g

(* The page of a buffer stays in memory for as long as the call uses it,  *)
(* until an eviction is overtaken.                                        *)
PinHolds ==
  Untorn => \A p \in Procs :
    pc[p] \in {"io", "io_locked"} => Present(upage[p])

(***************************************************************************)
(* What is where: the value of a page, and its refinement of PagedMemory.  *)
(* Faults, evictions and unmapping move a page, only a write changes it,   *)
(* and a mapped file ends with what was written to it.                     *)
(***************************************************************************)
Locate(g) ==
  IF Present(g) THEN content[pte[g].frame]
  ELSE IF g \in InSwap /\ spte[g].swap_slot_id # NoSlot
       THEN swap[spte[g].swap_slot_id].data
  ELSE IF kind[g] = "SWAP" THEN Junk ELSE file[g]

Shared == {g \in Pages : kind[g] = "MMAP"}
Located == [g \in Pages |-> Locate(g)]
Entered == [g \in Pages |-> spte[g].mapped]
Broken == ~Sound

Memory == INSTANCE PagedMemory WITH
  lasting <- Shared, value <- Located, valid <- Entered, broken <- Broken

ImplementsMemory == Memory!Spec

(***************************************************************************)
(* Who can hang, and nothing else: a process that holds lock_f in load()   *)
(* and waits for frame_lock, whose holder waits for lock_f to write a      *)
(* mapped page back; frame_replace() turning for ever because every page   *)
(* is inevictable, which the pages of a growing stack are; and whoever     *)
(* waits for swap_lock after swap_in() of a slot that is not in use.       *)
(***************************************************************************)
LockCycle ==
  \E p, q \in Procs : /\ lock_f = p /\ pc[p] = "alloc"
                     /\ frame_lock = q /\ pc[q] = "write_back"

AllPinned ==
  /\ \E p \in Procs : pc[p] = "evict"
  /\ \A f \in Frames : spte[frame_list[f]].inevictable

SwapLockKept == swap_lock # Nobody /\ "unwritten" \in spoiled

InKernel(p) == pc[p] \notin {"user", "gone"}

(***************************************************************************)
(* ENABLED Runs(p), spelt out place by place: the locks each place waits   *)
(* for and what else it needs.  CanRunIsEnabled says that it is the same.  *)
(***************************************************************************)
CanRun(p) ==
  \/ pc[p] \in {"loaded", "io_locked", "exit"}
  \/ pc[p] = "new" /\ lock_f = Nobody /\ \E g \in Pages : MayGrow(p, g)
  \/ pc[p] \in {"io", "unmap_write"} /\ lock_f = Nobody
  \/ pc[p] \in {"alloc", "unmap_free"} /\ frame_lock = Nobody
  \/ pc[p] = "evict" /\ \E f \in Frames : ~spte[frame_list[f]].inevictable
  \/ pc[p] = "write_back" /\ lock_f \in {Nobody, p}
  \/ pc[p] = "swap_out" /\ swap_lock \in {Nobody, p}
  \/ pc[p] = "unlink" /\ \E f \in Frames : frame_list[f] = victim[p]
  \/ /\ pc[p] = "fill"
     /\ \/ spte[upage[p]].in_memory
        \/ spte[upage[p]].spage_type \in {"FILE", "MMAP"} /\ lock_f \in {Nobody, p}
        \/ spte[upage[p]].spage_type = "SWAP" /\ swap_lock \in {Nobody, p}

CanRunIsEnabled ==
  ~panicked => \A p \in Procs : InKernel(p) => (CanRun(p) <=> ENABLED Runs(p))

OnlyKnownHangs ==
  /\ ~panicked
  /\ \E p \in Procs : InKernel(p)
  /\ \A p \in Procs : InKernel(p) => ~CanRun(p)
  => LockCycle \/ AllPinned \/ SwapLockKept

(***************************************************************************)
(* What makes the kernel panic, and nothing else: a full swap partition;   *)
(* load(), which holds lock_f, having a mapped page evicted for the stack; *)
(* and, once an eviction has been overtaken, a fault taken by the kernel   *)
(* while it holds lock_f, or swap_lock kept by the one who wants it.       *)
(***************************************************************************)
OnlyKnownPanics ==
  panicked =>
    \/ \E p \in Procs : pc[p] = "swap_out" /\ \A s \in Slots : swap[s].used
    \/ \E p \in Procs : /\ lock_f = p /\ pc[p] = "write_back"
                        /\ resume[p] = "loaded"
    \/ "torn" \in spoiled
    \/ SwapLockKept

(* Nothing else stops the processes, for ever or at once. *)
OnlyKnownStops == OnlyKnownHangs /\ OnlyKnownPanics

(***************************************************************************)
(* vm/designdoc.txt:318: a page is not modified while it is being evicted, *)
(* so what is written to it is in the copy.                                *)
(***************************************************************************)
Strict == INSTANCE PagedMemory WITH
  lasting <- Shared, value <- Located, valid <- Entered, broken <- FALSE

NoWriteLost == Strict!Spec
=============================================================================
