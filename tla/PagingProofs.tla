---------------------------- MODULE PagingProofs ----------------------------
(***************************************************************************)
(* For any processes, pages, frames, slots and values: frames and pinned   *)
(* pages stay where they are until an eviction is overtaken (Untorn), swap *)
(* slots have one owner until a clean page of the stack is dropped, paging *)
(* implements PagedMemory until either happens (Sound), and nothing but    *)
(* what OnlyKnownStops names ever stops the processes.                     *)
(***************************************************************************)
EXTENDS PagingProperties, TLAPS

USE PagingAssumption

Kinds == {"FILE", "MMAP", "SWAP", "NONE"}
Resumes == {"user", "io", "io_locked", "loaded", "exit"}

ProcessTypes ==
  /\ pc \in [Procs -> Places]
  /\ upage \in [Procs -> Pages \cup {NoPage}]
  /\ resume \in [Procs -> Resumes]
  /\ frame \in [Procs -> Frames \cup {NoFrame}]
  /\ victim \in [Procs -> Pages \cup {NoPage}]

TableTypes ==
  /\ kind \in [Pages -> Kinds]
  /\ spte \in [Pages -> Entries]
  /\ pte \in [Pages -> [frame : Frames \cup {NoFrame}, dirty : BOOLEAN]]
  /\ frame_list \in [Frames -> Pages \cup {NoPage}]

DataTypes ==
  /\ content \in [Frames -> Values \cup {Junk}]
  /\ swap \in [Slots -> [used : BOOLEAN, data : Values \cup {Junk}]]
  /\ file \in [Pages -> Values \cup {Junk}]
  /\ stored \in [Pages -> Values \cup {Junk}]

(* Where a process has no page in hand, is waiting for one, or uses it. *)
Idle == {"new", "user", "exit", "gone"}
Bringing == {"alloc", "evict", "write_back", "swap_out", "unlink", "fill"}
InUse == {"loaded", "io", "io_locked"}
Unmapping == {"unmap_write", "unmap_free"}
Evictors == {"evict"} \cup Chosen

(* The page a process is busy with is one of its own. *)
WorkOK(p) ==
  /\ pc[p] \in Idle => upage[p] = NoPage
  /\ pc[p] \notin Idle => /\ upage[p] \in Pages /\ Owner[upage[p]] = p
                          /\ spte[upage[p]].mapped
  /\ pc[p] \in Bringing => /\ ~Present(upage[p]) /\ spte[upage[p]].inevictable
                           /\ resume[p] \in {"user", "io", "loaded"}
                           /\ resume[p] = "loaded" => spte[upage[p]].in_memory
  /\ pc[p] = "fill" => frame[p] \in Frames /\ frame_list[frame[p]] = upage[p]
  /\ pc[p] \in InUse => Present(upage[p]) /\ spte[upage[p]].inevictable
  /\ pc[p] \in Unmapping => Present(upage[p]) /\ resume[p] \in {"user", "exit"}
  /\ pc[p] = "unmap_free" => frame[p] = pte[upage[p]].frame

(* The page it evicts is in memory, not pinned and not being removed. *)
VictimOK(p) ==
  /\ pc[p] \in Evictors => frame_lock = p /\ \A f \in Frames : frame_list[f] # NoPage
  /\ pc[p] \in Chosen => /\ victim[p] \in Pages /\ Present(victim[p])
                         /\ ~spte[victim[p]].inevictable
                         /\ \A q \in Procs : pc[q] \in Unmapping => upage[q] # victim[p]

Comes(g, f) ==
  /\ pc[Owner[g]] = "fill" /\ upage[Owner[g]] = g /\ frame[Owner[g]] = f

PageOK(g) ==
  /\ Present(g) => frame_list[pte[g].frame] = g /\ spte[g].in_memory
  /\ \A f \in Frames : frame_list[f] = g => pte[g].frame = f \/ Comes(g, f)
  /\ spte[g].in_memory =>
       /\ spte[g].mapped
       /\ Present(g) \/ (upage[Owner[g]] = g /\ pc[Owner[g]] \in Bringing)
  /\ spte[g].mapped => pc[Owner[g]] # "new"

Placed ==
  /\ ProcessTypes /\ TableTypes
  /\ \A p \in Procs : WorkOK(p) /\ VictimOK(p)
  /\ \A g \in Pages : PageOK(g)

(* A page has a slot from swap_out() to swap_in(), and no other page has it. *)
Leaving(g) == \E q \in Procs : pc[q] = "unlink" /\ victim[q] = g
HasSlot(g) == spte[g].spage_type = "SWAP" /\ (~spte[g].in_memory \/ Leaving(g))

SlotOK(g) ==
  HasSlot(g) =>
    /\ spte[g].swap_slot_id \in Slots /\ swap[spte[g].swap_slot_id].used
    /\ \A h \in Pages : HasSlot(h) /\ spte[h].swap_slot_id = spte[g].swap_slot_id => h = g

(* What backs a page follows from what it was made for. *)
KindOK(g) ==
  /\ ~spte[g].mapped => spte[g].spage_type = "ERROR" /\ stored[g] = Junk
  /\ spte[g].mapped => \/ spte[g].spage_type = "SWAP" /\ kind[g] \in {"SWAP", "FILE"}
                       \/ spte[g].spage_type \in {"FILE", "MMAP"} /\ kind[g] = spte[g].spage_type
  /\ spte[g].in_memory /\ ~Present(g) => spte[g].spage_type = "SWAP" /\ kind[g] = "SWAP"

(* A frame that may be dropped holds what the file or the slot holds. *)
Freeing(g) == pc[Owner[g]] = "unmap_free" /\ upage[Owner[g]] = g
Dropping(g) == ~pte[g].dirty \/ Leaving(g) \/ (kind[g] = "MMAP" /\ Freeing(g))

CopyOK(g) ==
  /\ Present(g) /\ spte[g].spage_type # "SWAP" /\ Dropping(g) =>
       content[pte[g].frame] = file[g]
  /\ Leaving(g) /\ spte[g].spage_type = "SWAP" =>
       content[pte[g].frame] = swap[spte[g].swap_slot_id].data

(* Which copy frame_replace() makes depends on what backs the page. *)
SavedOK(p) ==
  /\ pc[p] = "write_back" => spte[victim[p]].spage_type = "MMAP"
  /\ pc[p] = "swap_out" => spte[victim[p]].spage_type # "MMAP"

Kept ==
  /\ DataTypes
  /\ \A p \in Procs : SavedOK(p)
  /\ \A g \in Pages : SlotOK(g) /\ KindOK(g) /\ CopyOK(g)

PagingInv == Sound => Placed /\ Kept

-----------------------------------------------------------------------------
LEMMA Distinct ==
  /\ \A p, q \in Procs : \A g \in Pages : Owner[g] = p /\ Owner[g] = q => p = q
  /\ \A g \in Pages : Owner[g] \in Procs /\ g # NoPage
  /\ \A p \in Procs : p # Nobody
  /\ \A f \in Frames : f # NoFrame
  BY DEF PagingAssumption

(* The fields of a page's entries that its place depends on are the same.  *)
SamePlace(g) ==
  /\ spte'[g].mapped = spte[g].mapped /\ spte'[g].in_memory = spte[g].in_memory
  /\ spte'[g].inevictable = spte[g].inevictable /\ pte'[g].frame = pte[g].frame

SameProcess(q) ==
  /\ pc'[q] = pc[q] /\ upage'[q] = upage[q] /\ resume'[q] = resume[q]
  /\ frame'[q] = frame[q] /\ victim'[q] = victim[q]

(***************************************************************************)
(* A step of process p that lists no frame anew disturbs only what is      *)
(* said of p and of its pages, if it leaves a page that is being evicted   *)
(* as it is.                                                               *)
(***************************************************************************)
LEMMA OwnStep ==
  ASSUME Placed, NEW p \in Procs, ProcessTypes', TableTypes',
         frame_list' = frame_list, frame_lock' = frame_lock \/ frame_lock = Nobody,
         \A q \in Procs \ {p} : SameProcess(q),
         \A g \in Pages : Owner[g] # p => SamePlace(g),
         \A q \in Procs \ {p} : pc[q] \in Chosen =>
           /\ Owner[victim[q]] = p => SamePlace(victim[q])
           /\ pc'[p] \in Unmapping => upage'[p] # victim[q],
         WorkOK(p)', VictimOK(p)',
         \A g \in Pages : Owner[g] = p => PageOK(g)'
  PROVE  Placed'
<1>1. ASSUME NEW q \in Procs \ {p} PROVE WorkOK(q)'
  <2>1. WorkOK(q) /\ SameProcess(q)
    BY DEF Placed
  <2>2. pc[q] \notin Idle => upage[q] \in Pages /\ SamePlace(upage[q])
    BY <2>1 DEF WorkOK
  <2>3. pc[q] \in Bringing \cup InUse \cup Unmapping => pc[q] \notin Idle
    BY DEF Bringing, InUse, Unmapping, Idle
  <2>4. pc[q] = "fill" => pc[q] \in Bringing
    BY DEF Bringing
  <2>5. pc[q] = "unmap_free" => pc[q] \in Unmapping
    BY DEF Unmapping
  <2> QED
    BY <2>1, <2>2, <2>3, <2>4, <2>5 DEF WorkOK, SamePlace, SameProcess, Present
<1>2. ASSUME NEW q \in Procs \ {p} PROVE VictimOK(q)'
  <2>1. VictimOK(q) /\ SameProcess(q)
    BY DEF Placed
  <2>2. pc[q] \in Evictors => frame_lock' = q
    BY <2>1, Distinct DEF VictimOK
  <2>3. ASSUME pc[q] \in Chosen
        PROVE  /\ victim[q] \in Pages /\ Present(victim[q])'
               /\ ~spte'[victim[q]].inevictable
               /\ \A r \in Procs : pc'[r] \in Unmapping => upage'[r] # victim[q]
    <3>1. /\ victim[q] \in Pages /\ Present(victim[q]) /\ ~spte[victim[q]].inevictable
          /\ \A r \in Procs : pc[r] \in Unmapping => upage[r] # victim[q]
      BY <2>1, <2>3 DEF VictimOK
    <3>2. SamePlace(victim[q])
      BY <2>3, <3>1
    <3>3. pc'[p] \in Unmapping => upage'[p] # victim[q]
      BY <2>3
    <3>4. \A r \in Procs \ {p} : pc'[r] \in Unmapping => upage'[r] # victim[q]
      BY <3>1 DEF SameProcess
    <3> QED
      BY <2>1, <3>1, <3>2, <3>3, <3>4 DEF SamePlace, SameProcess, Present
  <2> QED
    BY <2>1, <2>2, <2>3 DEF VictimOK, SameProcess
<1>3. ASSUME NEW g \in Pages, Owner[g] # p PROVE PageOK(g)'
  <2>1. PageOK(g) /\ SamePlace(g) /\ SameProcess(Owner[g])
    BY <1>3, Distinct DEF Placed
  <2> QED
    BY <2>1 DEF PageOK, SamePlace, SameProcess, Present, Comes
<1> QED
  BY <1>1, <1>2, <1>3 DEF Placed

(* The pages of a process that neither gets nor gives up a frame.          *)
LEMMA StillOK ==
  ASSUME Placed, NEW g \in Pages, NEW p \in Procs, p = Owner[g], frame_list' = frame_list,
         spte'[g].mapped = spte[g].mapped, spte'[g].in_memory = spte[g].in_memory,
         pte'[g].frame = pte[g].frame, pc'[p] # "new",
         pc[p] \in Bringing => /\ pc'[p] \in Bringing /\ upage'[p] = upage[p]
                               /\ pc[p] = "fill" => pc'[p] = "fill" /\ frame'[p] = frame[p]
  PROVE  PageOK(g)'
<1>1. PageOK(g)
  BY DEF Placed
<1>2. \A f \in Frames : Comes(g, f) => Comes(g, f)'
  BY DEF Comes, Bringing
<1> QED
  BY <1>1, <1>2 DEF PageOK, Present

(* What frame_replace() has chosen. *)
LEMMA VictimFacts ==
  ASSUME Placed, NEW q \in Procs, pc[q] \in Chosen
  PROVE  /\ victim[q] \in Pages /\ Present(victim[q]) /\ ~spte[victim[q]].inevictable
         /\ spte[victim[q]].in_memory /\ spte[victim[q]].mapped
         /\ frame_list[pte[victim[q]].frame] = victim[q] /\ pte[victim[q]].frame \in Frames
         /\ frame_lock = q /\ pc[q] \in Evictors
         /\ \A p \in Procs : pc[p] \notin Idle => upage[p] # victim[q]
<1>1. VictimOK(q) /\ pc[q] \in Evictors
  BY DEF Placed, Evictors
<1>2. /\ victim[q] \in Pages /\ Present(victim[q]) /\ ~spte[victim[q]].inevictable
      /\ \A p \in Procs : pc[p] \in Unmapping => upage[p] # victim[q]
  BY <1>1 DEF VictimOK
<1>3. PageOK(victim[q])
  BY <1>2 DEF Placed
<1>4. ASSUME NEW p \in Procs, pc[p] \notin Idle PROVE upage[p] # victim[q]
  <2>1. WorkOK(p) /\ pc[p] \in Places
    BY DEF Placed, ProcessTypes
  <2>2. pc[p] \in Bringing \cup InUse \cup Unmapping
    BY <1>4, <2>1 DEF Places, Idle, Bringing, InUse, Unmapping
  <2> QED
    BY <1>2, <2>1, <2>2 DEF WorkOK
<1>5. pte[victim[q]].frame \in Frames
  BY <1>2 DEF Present, Placed, TableTypes
<1> QED
  BY <1>1, <1>2, <1>3, <1>4, <1>5 DEF PageOK, VictimOK

LEMMA Places_ ==
  /\ Idle \cap (Bringing \cup InUse \cup Unmapping) = {}
  /\ Evictors \subseteq Bringing /\ Chosen \subseteq Evictors /\ "fill" \notin Evictors
  /\ "fill" \in Bringing /\ "alloc" \in Bringing /\ "alloc" \notin Evictors
  /\ Bringing \cap InUse = {} /\ Bringing \cap Unmapping = {} /\ InUse \cap Unmapping = {}
  /\ {"user", "exit", "gone", "new"} = Idle
  BY DEF Idle, Bringing, InUse, Unmapping, Evictors, Chosen

-----------------------------------------------------------------------------
(* Where the pages are, step by step.                                      *)

LEMMA PlacedTypes == Placed => ProcessTypes /\ TableTypes
  BY DEF Placed

LEMMA PinFacts ==
  ASSUME TableTypes, NEW g \in Pages, NEW b \in BOOLEAN,
         spte' = [spte EXCEPT ![g].inevictable = b]
  PROVE  /\ spte' \in [Pages -> Entries]
         /\ \A h \in Pages : /\ spte'[h].mapped = spte[h].mapped
                              /\ spte'[h].in_memory = spte[h].in_memory
                              /\ spte'[h].spage_type = spte[h].spage_type
                              /\ spte'[h].swap_slot_id = spte[h].swap_slot_id
                              /\ spte'[h].inevictable = IF h = g THEN b ELSE spte[h].inevictable
<1> DEFINE e == [spte[g] EXCEPT !.inevictable = b]
<1>1. spte \in [Pages -> Entries] /\ spte[g] \in Entries
  BY DEF TableTypes
<1>2. \A h \in Pages : spte'[h] = IF h = g THEN e ELSE spte[h]
  BY <1>1
<1>3. /\ e \in Entries /\ e.mapped = spte[g].mapped /\ e.in_memory = spte[g].in_memory
      /\ e.spage_type = spte[g].spage_type /\ e.swap_slot_id = spte[g].swap_slot_id
      /\ e.inevictable = b
  BY <1>1 DEF Entries
<1>4. spte' = [spte EXCEPT ![g] = e]
  BY <1>1
<1> HIDE DEF e
<1> QED
  BY <1>1, <1>2, <1>3, <1>4

(* A process without a page in hand takes one of its own, or lets it be.   *)
LEMMA LoadPlaced ==
  ASSUME Placed, NEW p \in Procs, NEW g \in Pages, Load(p, g)
  PROVE  Placed'
<1>1. /\ pc[p] = "new" /\ Owner[g] = p /\ ~spte[g].mapped
      /\ UNCHANGED <<kind, frame, victim, pte, frame_list, frame_lock>>
  BY DEF Load, From, MayGrow, Bring, memory
<1>2. /\ pc'[p] = "alloc" /\ upage'[p] = g /\ resume'[p] = "loaded"
      /\ \A q \in Procs \ {p} : SameProcess(q)
  BY DEF Load, Bring, Goto, Placed, ProcessTypes, SameProcess
<1>3. \A h \in Pages : spte'[h] =
        IF h = g THEN NewStack
        ELSE IF Owner[h] = p /\ kind[h] = "FILE"
             THEN [Absent EXCEPT !.mapped = TRUE, !.spage_type = "FILE"]
             ELSE spte[h]
  BY DEF Load
<1>4. ProcessTypes'
  BY DEF Load, Bring, Goto, Placed, ProcessTypes, Places, Resumes
<1>5. NewStack \in Entries /\ [Absent EXCEPT !.mapped = TRUE, !.spage_type = "FILE"] \in Entries
  BY DEF NewStack, Absent, Entries
<1>6. TableTypes'
  BY <1>1, <1>5 DEF Load, Placed, TableTypes
<1>7. \A h \in Pages : Owner[h] = p =>
        /\ ~spte[h].mapped /\ ~spte[h].in_memory /\ ~Present(h)
        /\ \A f \in Frames : frame_list[f] # h
  <2> SUFFICES ASSUME NEW h \in Pages, Owner[h] = p
               PROVE  /\ ~spte[h].mapped /\ ~spte[h].in_memory /\ ~Present(h)
                      /\ \A f \in Frames : frame_list[f] # h
    OBVIOUS
  <2>1. PageOK(h)
    BY DEF Placed
  <2>2. ~spte[h].mapped /\ ~spte[h].in_memory /\ ~Present(h)
    BY <1>1, <2>1 DEF PageOK
  <2>3. \A f \in Frames : ~Comes(h, f) /\ pte[h].frame # f
    BY <1>1, <2>2, Distinct DEF Comes, Present
  <2> QED
    BY <2>1, <2>2, <2>3 DEF PageOK
<1>8. \A q \in Procs : pc[q] \in Chosen => Owner[victim[q]] # p
  BY <1>7, VictimFacts
<1>9. WorkOK(p)'
  BY <1>1, <1>2, <1>3, <1>7 DEF WorkOK, NewStack, Idle, Bringing, InUse, Unmapping, Present
<1>10. VictimOK(p)'
  BY <1>2 DEF VictimOK, Evictors, Chosen
<1>11. ASSUME NEW h \in Pages, Owner[h] = p PROVE PageOK(h)'
  <2>1. ~Present(h)' /\ \A f \in Frames : frame_list'[f] # h
    BY <1>1, <1>7, <1>11 DEF Present
  <2>2. CASE h = g
    BY <1>2, <1>3, <1>11, <2>1, <2>2 DEF PageOK, NewStack, Bringing
  <2>3. CASE h # g
    <3>1. ~spte'[h].in_memory
      BY <1>3, <1>7, <1>11, <2>3 DEF Absent
    <3> QED
      BY <1>2, <1>11, <2>1, <3>1 DEF PageOK
  <2> QED
    BY <2>2, <2>3
<1>12. \A h \in Pages : Owner[h] # p => SamePlace(h)
  BY <1>1, <1>3 DEF SamePlace
<1>13. pc'[p] \notin Unmapping
  BY <1>2 DEF Unmapping
<1> QED
  BY <1>1, <1>2, <1>4, <1>6, <1>8, <1>9, <1>10, <1>11, <1>12, <1>13, OwnStep

LEMMA FaultPlaced ==
  ASSUME Placed, NEW p \in Procs, NEW g \in Pages, Fault(p, g)
  PROVE  Placed'
<1>1. /\ pc[p] = "user" /\ Owner[g] = p /\ spte[g].mapped /\ ~Present(g)
      /\ UNCHANGED <<kind, frame, victim, pte, frame_list, frame_lock>>
  BY DEF Fault, From, Bring, memory, locks
<1>2. /\ pc'[p] = "alloc" /\ upage'[p] = g /\ resume'[p] = "user"
      /\ \A q \in Procs \ {p} : SameProcess(q)
  BY DEF Fault, Bring, Goto, Placed, ProcessTypes, SameProcess
<1>3. spte' = [spte EXCEPT ![g].inevictable = TRUE]
  BY DEF Fault, Pin
<1>4. ProcessTypes'
  BY DEF Fault, Bring, Goto, Placed, ProcessTypes, Places, Resumes
<1>5. spte' \in [Pages -> Entries]
  BY <1>3, PinFacts, PlacedTypes
<1>6. TableTypes'
  BY <1>1, <1>5 DEF Placed, TableTypes
<1>7. \A h \in Pages : /\ spte'[h].mapped = spte[h].mapped /\ spte'[h].in_memory = spte[h].in_memory
                       /\ h # g => spte'[h].inevictable = spte[h].inevictable
                       /\ h = g => spte'[h].inevictable
  BY <1>3, PinFacts, PlacedTypes
<1>8. \A q \in Procs : pc[q] \in Chosen => victim[q] # g /\ victim[q] \in Pages
  BY <1>1, VictimFacts
<1>9. WorkOK(p)'
  BY <1>1, <1>2, <1>7 DEF WorkOK, Idle, Bringing, InUse, Unmapping, Present
<1>10. VictimOK(p)'
  BY <1>2 DEF VictimOK, Evictors, Chosen
<1>11. ASSUME NEW h \in Pages, Owner[h] = p PROVE PageOK(h)'
  BY <1>1, <1>2, <1>7, <1>11, StillOK DEF Bringing
<1>12. \A h \in Pages : h # g => SamePlace(h)
  BY <1>1, <1>7 DEF SamePlace
<1>13. pc'[p] \notin Unmapping
  BY <1>2 DEF Unmapping
<1> QED
  BY <1>1, <1>2, <1>4, <1>6, <1>8, <1>9, <1>10, <1>11, <1>12, <1>13, OwnStep

LEMMA GrowStackPlaced ==
  ASSUME Placed, NEW p \in Procs, NEW g \in Pages, NEW after \in {"user", "io"},
         GrowStack(p, g, after)
  PROVE  Placed'
<1>1. /\ pc[p] = "user" /\ Owner[g] = p /\ ~spte[g].mapped
      /\ UNCHANGED <<kind, frame, victim, pte, frame_list, frame_lock>>
  BY DEF GrowStack, From, MayGrow, Bring, memory, locks
<1>2. /\ pc'[p] = "alloc" /\ upage'[p] = g /\ resume'[p] = after
      /\ \A q \in Procs \ {p} : SameProcess(q)
  BY DEF GrowStack, Bring, Goto, Placed, ProcessTypes, SameProcess
<1>3. \A h \in Pages : spte'[h] = IF h = g THEN NewStack ELSE spte[h]
  BY DEF GrowStack, Placed, TableTypes
<1>4. ProcessTypes'
  BY DEF GrowStack, Bring, Goto, Placed, ProcessTypes, Places, Resumes
<1>5. NewStack \in Entries
  BY DEF NewStack, Entries
<1>6. TableTypes'
  BY <1>1, <1>5 DEF GrowStack, Placed, TableTypes
<1>7. /\ ~spte[g].in_memory /\ ~Present(g)
      /\ \A f \in Frames : frame_list[f] # g
  <2>1. PageOK(g)
    BY DEF Placed
  <2>2. ~spte[g].in_memory /\ ~Present(g)
    BY <1>1, <2>1 DEF PageOK
  <2>3. \A f \in Frames : ~Comes(g, f) /\ pte[g].frame # f
    BY <1>1, <2>2, Distinct DEF Comes, Present
  <2> QED
    BY <2>1, <2>2, <2>3 DEF PageOK
<1>8. \A q \in Procs : pc[q] \in Chosen => victim[q] # g /\ victim[q] \in Pages
  BY <1>1, VictimFacts
<1>9. WorkOK(p)'
  BY <1>1, <1>2, <1>3, <1>7 DEF WorkOK, NewStack, Idle, Bringing, InUse, Unmapping, Present
<1>10. VictimOK(p)'
  BY <1>2 DEF VictimOK, Evictors, Chosen
<1>11. ASSUME NEW h \in Pages, Owner[h] = p PROVE PageOK(h)'
  <2>1. CASE h = g
    BY <1>1, <1>2, <1>3, <1>7, <2>1 DEF PageOK, NewStack, Bringing, Present
  <2>2. CASE h # g
    BY <1>1, <1>2, <1>3, <1>11, <2>2, StillOK DEF Bringing
  <2> QED
    BY <2>1, <2>2
<1>12. \A h \in Pages : h # g => SamePlace(h)
  BY <1>1, <1>3 DEF SamePlace
<1>13. pc'[p] \notin Unmapping
  BY <1>2 DEF Unmapping
<1> QED
  BY <1>1, <1>2, <1>4, <1>6, <1>8, <1>9, <1>10, <1>11, <1>12, <1>13, OwnStep

LEMMA DirtyFacts ==
  ASSUME TableTypes, NEW g \in Pages, pte' = [pte EXCEPT ![g].dirty = TRUE]
  PROVE  /\ pte' \in [Pages -> [frame : Frames \cup {NoFrame}, dirty : BOOLEAN]]
         /\ \A h \in Pages : /\ pte'[h].frame = pte[h].frame
                              /\ pte'[h].dirty = IF h = g THEN TRUE ELSE pte[h].dirty
<1> DEFINE e == [pte[g] EXCEPT !.dirty = TRUE]
           E == [frame : Frames \cup {NoFrame}, dirty : BOOLEAN]
<1>1. pte \in [Pages -> E] /\ pte[g] \in E
  BY DEF TableTypes
<1>2. pte' = [pte EXCEPT ![g] = e]
  BY <1>1
<1>3. e \in E /\ e.frame = pte[g].frame /\ e.dirty = TRUE
  BY <1>1
<1> HIDE DEF e, E
<1>4. pte' \in [Pages -> E] /\ \A h \in Pages : pte'[h] = IF h = g THEN e ELSE pte[h]
  BY <1>1, <1>2, <1>3
<1> QED
  BY <1>3, <1>4 DEF E

(* A process that is not waiting for a frame moves on; no page does.       *)
LEMMA QuietStep ==
  ASSUME Placed, NEW p \in Procs, ProcessTypes', TableTypes',
         frame_list' = frame_list, frame_lock' = frame_lock,
         \A q \in Procs \ {p} : SameProcess(q),
         \A g \in Pages : /\ spte'[g].mapped = spte[g].mapped
                          /\ spte'[g].in_memory = spte[g].in_memory
                          /\ pte'[g].frame = pte[g].frame
                          /\ Owner[g] # p => spte'[g].inevictable = spte[g].inevictable,
         \A q \in Procs \ {p} : pc[q] \in Chosen =>
           /\ spte'[victim[q]].inevictable = spte[victim[q]].inevictable
           /\ pc'[p] \in Unmapping => upage'[p] # victim[q],
         pc[p] \notin Bringing, pc'[p] \notin {"new"} \cup Evictors, WorkOK(p)'
  PROVE  Placed'
<1>1. \A g \in Pages : Owner[g] # p => SamePlace(g)
  BY DEF SamePlace
<1>2. \A q \in Procs \ {p} : pc[q] \in Chosen => SamePlace(victim[q])
  BY VictimFacts DEF SamePlace
<1>3. VictimOK(p)'
  BY DEF VictimOK, Evictors
<1>4. \A g \in Pages : Owner[g] = p => PageOK(g)'
  BY StillOK
<1> QED
  BY <1>1, <1>2, <1>3, <1>4, OwnStep

LEMMA LoadedPlaced ==
  ASSUME Placed, NEW p \in Procs, Loaded(p)
  PROVE  Placed'
<1>1. /\ pc[p] = "loaded"
      /\ UNCHANGED <<kind, frame, victim, spte, frame_list, frame_lock>>
      /\ pte' = [pte EXCEPT ![upage[p]].dirty = TRUE]
  BY DEF Loaded, From, Store
<1>2. /\ pc'[p] = "user" /\ upage'[p] = NoPage
      /\ \A q \in Procs \ {p} : SameProcess(q)
  BY DEF Loaded, Resume, Goto, Placed, ProcessTypes, SameProcess
<1>3. ProcessTypes'
  BY DEF Loaded, Resume, Goto, Placed, ProcessTypes, Places, Resumes
<1>4. TableTypes' /\ \A g \in Pages : pte'[g].frame = pte[g].frame
  <2>1. upage[p] \in Pages
    BY <1>1 DEF Placed, WorkOK, Idle
  <2> QED
    BY <1>1, <2>1, DirtyFacts, PlacedTypes DEF Placed, TableTypes
<1>5. WorkOK(p)'
  BY <1>2 DEF WorkOK, Idle, Bringing, InUse, Unmapping
<1> QED
  BY <1>1, <1>2, <1>3, <1>4, <1>5, QuietStep DEF Bringing, Evictors, Chosen, Unmapping

LEMMA WritePlaced ==
  ASSUME Placed, NEW p \in Procs, NEW g \in Pages, NEW v \in Values, Write(p, g, v)
  PROVE  Placed'
<1>1. /\ pc[p] = "user"
      /\ UNCHANGED <<kind, process, spte, frame_list, frame_lock>>
      /\ pte' = [pte EXCEPT ![g].dirty = TRUE]
  BY DEF Write, From, Store, locks
<1>2. /\ UNCHANGED <<pc, upage, resume, frame, victim>>
      /\ \A q \in Procs : SameProcess(q)
  BY <1>1 DEF process, SameProcess
<1>3. ProcessTypes'
  BY <1>2 DEF Placed, ProcessTypes
<1>4. TableTypes' /\ \A h \in Pages : pte'[h].frame = pte[h].frame
  BY <1>1, DirtyFacts, PlacedTypes DEF Placed, TableTypes
<1>5. WorkOK(p) /\ WorkOK(p)'
  BY <1>1, <1>2 DEF Placed, WorkOK, Idle, Bringing, InUse, Unmapping
<1> QED
  BY <1>1, <1>2, <1>3, <1>4, <1>5, QuietStep DEF Bringing, Evictors, Chosen, Unmapping

(* A system call on a page in memory pins it before it is chosen. *)
LEMMA SyscallPlaced ==
  ASSUME Placed, Untorn, Untorn', NEW p \in Procs, NEW g \in Pages, Syscall(p, g)
  PROVE  Placed'
<1>1. /\ pc[p] = "user" /\ Owner[g] = p /\ spte[g].mapped
      /\ UNCHANGED <<kind, frame, victim, pte, frame_list, frame_lock>>
      /\ spte' = [spte EXCEPT ![g].inevictable = TRUE]
  BY DEF Syscall, From, Pin, Bring, memory, locks
<1>2. /\ upage'[p] = g /\ \A q \in Procs \ {p} : SameProcess(q)
      /\ IF spte[g].in_memory THEN pc'[p] = "io"
         ELSE pc'[p] = "alloc" /\ resume'[p] = "io"
  BY DEF Syscall, Bring, Goto, Placed, ProcessTypes, SameProcess
<1>3. ProcessTypes'
  BY DEF Syscall, Bring, Goto, Placed, ProcessTypes, Places, Resumes
<1>4. /\ TableTypes'
      /\ \A h \in Pages : /\ spte'[h].mapped = spte[h].mapped
                          /\ spte'[h].in_memory = spte[h].in_memory
                          /\ h # g => spte'[h].inevictable = spte[h].inevictable
                          /\ h = g => spte'[h].inevictable
  <2>1. /\ spte' \in [Pages -> Entries]
        /\ \A h \in Pages : /\ spte'[h].mapped = spte[h].mapped
                             /\ spte'[h].in_memory = spte[h].in_memory
                             /\ spte'[h].inevictable = IF h = g THEN TRUE ELSE spte[h].inevictable
    BY <1>1, PinFacts, PlacedTypes
  <2>2. TableTypes'
    BY <1>1, <2>1 DEF Placed, TableTypes
  <2> QED
    BY <2>1, <2>2
<1>5. ~Evicting(g, Chosen)
  BY DEF Syscall, Torn, Untorn
<1>6. \A q \in Procs : pc[q] \in Chosen => victim[q] # g /\ victim[q] \in Pages
  BY <1>5, VictimFacts DEF Evicting
<1>7. PageOK(g)
  BY DEF Placed
<1>8. IF spte[g].in_memory THEN Present(g) ELSE ~Present(g)
  BY <1>1, <1>7 DEF PageOK, Bringing
<1>9. WorkOK(p)'
  BY <1>1, <1>2, <1>4, <1>8 DEF WorkOK, Idle, Bringing, InUse, Unmapping, Present
<1>10. pc[p] \notin Bringing /\ pc'[p] \notin {"new"} \cup Evictors \cup Unmapping
  BY <1>1, <1>2 DEF Bringing, Evictors, Chosen, Unmapping
<1>11. \A h \in Pages : /\ spte'[h].mapped = spte[h].mapped
                         /\ spte'[h].in_memory = spte[h].in_memory
                         /\ pte'[h].frame = pte[h].frame
                         /\ Owner[h] # p => spte'[h].inevictable = spte[h].inevictable
  BY <1>1, <1>4
<1>12. \A q \in Procs \ {p} : pc[q] \in Chosen =>
         /\ spte'[victim[q]].inevictable = spte[victim[q]].inevictable
         /\ pc'[p] \in Unmapping => upage'[p] # victim[q]
  BY <1>4, <1>6, <1>10
<1> QED
  BY <1>1, <1>2, <1>3, <1>4, <1>9, <1>10, <1>11, <1>12, QuietStep

LEMMA TransferPlaced ==
  ASSUME Placed, NEW p \in Procs, Transfer(p)
  PROVE  Placed'
<1>1. /\ pc[p] = "io"
      /\ UNCHANGED <<kind, upage, resume, frame, victim, spte, pte, frame_list, frame_lock>>
      /\ pc' = [pc EXCEPT ![p] = "io_locked"]
  BY DEF Transfer, From, Goto, tables, memory
<1>2. pc'[p] = "io_locked" /\ \A q \in Procs \ {p} : SameProcess(q)
  BY <1>1 DEF Placed, ProcessTypes, SameProcess
<1>3. ProcessTypes'
  BY <1>1 DEF Placed, ProcessTypes, Places
<1>4. TableTypes'
  BY <1>1 DEF Placed, TableTypes
<1>5. WorkOK(p)
  BY DEF Placed
<1>6. WorkOK(p)'
  BY <1>1, <1>2, <1>5 DEF WorkOK, Idle, Bringing, InUse, Unmapping, Present
<1> QED
  BY <1>1, <1>2, <1>3, <1>4, <1>6, QuietStep DEF Bringing, Evictors, Chosen, Unmapping

LEMMA TransferredPlaced ==
  ASSUME Placed, NEW p \in Procs, Transferred(p)
  PROVE  Placed'
<1>1. /\ pc[p] = "io_locked"
      /\ UNCHANGED <<kind, frame, victim, frame_list, frame_lock>>
      /\ pte' = pte \/ pte' = [pte EXCEPT ![upage[p]].dirty = TRUE]
      /\ spte' = [spte EXCEPT ![upage[p]].inevictable = FALSE]
  BY DEF Transferred, From, Store
<1>2. pc'[p] = "user" /\ upage'[p] = NoPage /\ \A q \in Procs \ {p} : SameProcess(q)
  BY DEF Transferred, Resume, Goto, Placed, ProcessTypes, SameProcess
<1>3. ProcessTypes'
  BY DEF Transferred, Resume, Goto, Placed, ProcessTypes, Places, Resumes
<1>4. upage[p] \in Pages /\ Owner[upage[p]] = p
  BY <1>1 DEF Placed, WorkOK, Idle
<1>5. /\ spte' \in [Pages -> Entries]
      /\ \A h \in Pages : /\ spte'[h].mapped = spte[h].mapped
                          /\ spte'[h].in_memory = spte[h].in_memory
                          /\ h # upage[p] => spte'[h].inevictable = spte[h].inevictable
  BY <1>1, <1>4, PinFacts, PlacedTypes
<1>6. TableTypes' /\ \A h \in Pages : pte'[h].frame = pte[h].frame
  <2>1. CASE pte' = pte
    BY <1>1, <1>5, <2>1 DEF Placed, TableTypes
  <2>2. CASE pte' = [pte EXCEPT ![upage[p]].dirty = TRUE]
    BY <1>1, <1>4, <1>5, <2>2, DirtyFacts, PlacedTypes DEF Placed, TableTypes
  <2> QED
    BY <1>1, <2>1, <2>2
<1>7. \A q \in Procs : pc[q] \in Chosen => victim[q] # upage[p] /\ victim[q] \in Pages
  BY <1>1, VictimFacts DEF Idle
<1>8. WorkOK(p)'
  BY <1>2 DEF WorkOK, Idle, Bringing, InUse, Unmapping
<1>9. pc[p] \notin Bringing /\ pc'[p] \notin {"new"} \cup Evictors \cup Unmapping
  BY <1>1, <1>2 DEF Bringing, Evictors, Chosen, Unmapping
<1> QED
  BY <1>1, <1>2, <1>3, <1>4, <1>5, <1>6, <1>7, <1>8, <1>9, QuietStep

LEMMA ExitPlaced ==
  ASSUME Placed, NEW p \in Procs, Exit(p) \/ Exited(p)
  PROVE  Placed'
<1>1. PICK place \in {"exit", "gone"} : pc' = [pc EXCEPT ![p] = place]
  BY DEF Exit, Exited, Goto
<1>2. /\ pc[p] \in {"user", "exit"}
      /\ UNCHANGED <<kind, upage, resume, frame, victim, spte, pte, frame_list, frame_lock>>
  BY DEF Exit, Exited, From, tables, memory, locks
<1>3. pc'[p] = place /\ \A q \in Procs \ {p} : SameProcess(q)
  BY <1>1, <1>2 DEF Placed, ProcessTypes, SameProcess
<1>4. ProcessTypes'
  BY <1>1, <1>2 DEF Placed, ProcessTypes, Places
<1>5. TableTypes'
  BY <1>2 DEF Placed, TableTypes
<1>6. WorkOK(p)
  BY DEF Placed
<1>7. WorkOK(p)'
  BY <1>2, <1>3, <1>6 DEF WorkOK, Idle, Bringing, InUse, Unmapping
<1>8. pc[p] \notin Bringing /\ pc'[p] \notin {"new"} \cup Evictors \cup Unmapping
  BY <1>2, <1>3 DEF Bringing, Evictors, Chosen, Unmapping
<1> QED
  BY <1>2, <1>3, <1>4, <1>5, <1>7, <1>8, QuietStep

LEMMA MmapPlaced ==
  ASSUME Placed, NEW p \in Procs, NEW g \in Pages, Mmap(p, g)
  PROVE  Placed'
<1> DEFINE e == [Absent EXCEPT !.mapped = TRUE, !.spage_type = "MMAP"]
<1>1. /\ pc[p] = "user" /\ Owner[g] = p /\ ~spte[g].mapped
      /\ UNCHANGED <<kind, process, pte, frame_list, frame_lock>>
      /\ spte' = [spte EXCEPT ![g] = e]
  BY DEF Mmap, From, memory, locks
<1>2. /\ UNCHANGED <<pc, upage, resume, frame, victim>>
      /\ \A q \in Procs : SameProcess(q)
  BY <1>1 DEF process, SameProcess
<1>3. ProcessTypes'
  BY <1>2 DEF Placed, ProcessTypes
<1>4. e \in Entries /\ e.mapped /\ ~e.in_memory
  BY DEF Absent, Entries
<1>5. \A h \in Pages : spte'[h] = IF h = g THEN e ELSE spte[h]
  BY <1>1 DEF Placed, TableTypes
<1> HIDE DEF e
<1>6. TableTypes'
  BY <1>1, <1>4 DEF Placed, TableTypes
<1>7. PageOK(g) /\ WorkOK(p)
  BY DEF Placed
<1>8. ~spte[g].in_memory /\ ~Present(g)
  BY <1>1, <1>7 DEF PageOK
<1>9. \A f \in Frames : frame_list[f] # g
  BY <1>1, <1>7, <1>8, Distinct DEF PageOK, Comes, Present
<1>10. \A q \in Procs : pc[q] \in Chosen => victim[q] # g /\ victim[q] \in Pages
  BY <1>1, VictimFacts
<1>11. WorkOK(p)'
  BY <1>1, <1>2, <1>7 DEF WorkOK, Idle, Bringing, InUse, Unmapping
<1>12. VictimOK(p)'
  BY <1>1, <1>2 DEF VictimOK, Evictors, Chosen
<1>13. ASSUME NEW h \in Pages, Owner[h] = p PROVE PageOK(h)'
  <2>1. CASE h = g
    BY <1>1, <1>2, <1>4, <1>5, <1>8, <1>9, <2>1 DEF PageOK, Present
  <2>2. CASE h # g
    BY <1>1, <1>2, <1>5, <1>13, <2>2, StillOK DEF Bringing
  <2> QED
    BY <2>1, <2>2
<1>14. \A h \in Pages : h # g => SamePlace(h)
  BY <1>1, <1>5 DEF SamePlace
<1>15. pc'[p] \notin Unmapping
  BY <1>1, <1>2 DEF Unmapping
<1> QED
  BY <1>1, <1>2, <1>3, <1>6, <1>10, <1>11, <1>12, <1>13, <1>14, <1>15, OwnStep

(* munmap() and exit() remove a page that nobody is evicting. *)
LEMMA RemovePlaced ==
  ASSUME Placed, Untorn, Untorn', NEW p \in Procs, NEW g \in Pages, NEW after \in {"user", "exit"},
         pc[p] = after, Owner[g] = p, UNCHANGED kind, Remove(p, g, after)
  PROVE  Placed'
<1>1. spte[g].mapped /\ UNCHANGED <<kind, victim, pte, frame_list, frame_lock>>
  BY DEF Remove, memory, locks
<1>2. PageOK(g) /\ WorkOK(p) /\ pc[p] \in Idle /\ pc[p] # "new"
  BY DEF Placed, Idle
<1>3. CASE ~spte[g].in_memory
  <2>1. UNCHANGED <<pc, upage, resume, frame>> /\ spte' = [spte EXCEPT ![g] = Absent]
    BY <1>3 DEF Remove
  <2>2. \A q \in Procs : SameProcess(q)
    BY <1>1, <2>1 DEF SameProcess
  <2>3. ProcessTypes'
    BY <1>1, <2>1 DEF Placed, ProcessTypes
  <2>4. Absent \in Entries /\ ~Absent.mapped /\ ~Absent.in_memory
    BY DEF Absent, Entries
  <2>5. \A h \in Pages : spte'[h] = IF h = g THEN Absent ELSE spte[h]
    BY <2>1 DEF Placed, TableTypes
  <2>6. TableTypes'
    BY <1>1, <2>1, <2>4 DEF Placed, TableTypes
  <2>7. ~Present(g) /\ \A f \in Frames : frame_list[f] # g
    BY <1>2, <1>3, Distinct DEF PageOK, Comes, Present, Idle
  <2>8. \A q \in Procs : pc[q] \in Chosen => victim[q] # g /\ victim[q] \in Pages
    BY <1>3, VictimFacts
  <2>9. WorkOK(p)'
    BY <1>2, <2>1, Places_ DEF WorkOK
  <2>10. VictimOK(p)' /\ pc'[p] \notin Unmapping
    BY <2>1 DEF VictimOK, Evictors, Chosen, Unmapping
  <2>11. ASSUME NEW h \in Pages, Owner[h] = p PROVE PageOK(h)'
    <3>1. CASE h = g
      BY <1>1, <2>4, <2>5, <2>7, <3>1 DEF PageOK, Present
    <3>2. CASE h # g
      BY <1>1, <1>2, <2>1, <2>5, <2>11, <3>2, StillOK, Places_
    <3> QED
      BY <3>1, <3>2
  <2>12. \A h \in Pages : h # g => SamePlace(h)
    BY <1>1, <2>5 DEF SamePlace
  <2> QED
    BY <1>1, <2>2, <2>3, <2>6, <2>8, <2>9, <2>10, <2>11, <2>12, OwnStep
<1>4. CASE spte[g].in_memory
  <2>1. /\ upage' = [upage EXCEPT ![p] = g] /\ resume' = [resume EXCEPT ![p] = after]
        /\ spte' = [spte EXCEPT ![g].inevictable = @ \/ kind[g] = "MMAP"]
        /\ ~Evicting(g, Chosen)
        /\ \/ pc' = [pc EXCEPT ![p] = "unmap_write"] /\ UNCHANGED frame
           \/ pc' = [pc EXCEPT ![p] = "unmap_free"] /\ frame' = [frame EXCEPT ![p] = pte[g].frame]
    BY <1>4 DEF Remove, Torn, Untorn, Goto
  <2>2. /\ upage'[p] = g /\ resume'[p] = after /\ \A q \in Procs \ {p} : SameProcess(q)
        /\ pc'[p] = "unmap_write" \/ (pc'[p] = "unmap_free" /\ frame'[p] = pte[g].frame)
    BY <1>1, <2>1 DEF Placed, ProcessTypes, SameProcess
  <2>3. ProcessTypes'
    <3>1. pte[g].frame \in Frames \cup {NoFrame}
      BY DEF Placed, TableTypes
    <3> QED
      BY <1>1, <2>1, <3>1 DEF Placed, ProcessTypes, Places, Resumes
  <2>4. PICK b \in BOOLEAN : spte' = [spte EXCEPT ![g].inevictable = b]
    <3>1. spte' = [spte EXCEPT ![g].inevictable = (spte[g].inevictable \/ kind[g] = "MMAP")]
      BY <2>1
    <3>2. (spte[g].inevictable \/ kind[g] = "MMAP") \in BOOLEAN
      OBVIOUS
    <3> QED
      BY <3>1, <3>2
  <2>5. /\ spte' \in [Pages -> Entries]
        /\ \A h \in Pages : /\ spte'[h].mapped = spte[h].mapped
                            /\ spte'[h].in_memory = spte[h].in_memory
                            /\ h # g => spte'[h].inevictable = spte[h].inevictable
    BY <2>4, PinFacts, PlacedTypes
  <2>6. TableTypes'
    BY <1>1, <2>5 DEF Placed, TableTypes
  <2>7. Present(g)
    BY <1>2, <1>4, Places_ DEF PageOK
  <2>8. \A q \in Procs : pc[q] \in Chosen => victim[q] # g /\ victim[q] \in Pages
    BY <2>1, VictimFacts DEF Evicting
  <2>9. WorkOK(p)'
    BY <1>1, <2>2, <2>5, <2>7 DEF WorkOK, Idle, Bringing, InUse, Unmapping, Present
  <2>10. pc[p] \notin Bringing /\ pc'[p] \notin {"new"} \cup Evictors
    BY <2>2 DEF Bringing, Evictors, Chosen
  <2> QED
    BY <1>1, <2>2, <2>3, <2>5, <2>6, <2>8, <2>9, <2>10, QuietStep
<1> QED
  BY <1>3, <1>4

LEMMA UnmapWritePlaced ==
  ASSUME Placed, NEW p \in Procs, UnmapWrite(p)
  PROVE  Placed'
<1>1. /\ pc[p] = "unmap_write" /\ WorkOK(p)
      /\ UNCHANGED <<kind, upage, resume, victim, spte, pte, frame_list, frame_lock>>
  BY DEF UnmapWrite, From, Placed, tables, memory, locks
<1>2. upage[p] \in Pages /\ Present(upage[p]) /\ resume[p] \in {"user", "exit"}
      /\ Owner[upage[p]] = p /\ spte[upage[p]].mapped
  BY <1>1 DEF WorkOK, Unmapping, Idle
<1>3. frame' = [frame EXCEPT ![p] = pte[upage[p]].frame] /\ pc' = [pc EXCEPT ![p] = "unmap_free"]
  BY <1>2 DEF UnmapWrite, Goto
<1>4. /\ pc'[p] = "unmap_free" /\ frame'[p] = pte[upage[p]].frame
      /\ \A q \in Procs \ {p} : SameProcess(q)
  BY <1>1, <1>3 DEF Placed, ProcessTypes, SameProcess
<1>5. ProcessTypes'
  <2>1. pte[upage[p]].frame \in Frames \cup {NoFrame}
    BY <1>2 DEF Placed, TableTypes
  <2> QED
    BY <1>1, <1>3, <2>1 DEF Placed, ProcessTypes, Places
<1>6. TableTypes'
  BY <1>1 DEF Placed, TableTypes
<1>7. WorkOK(p)'
  BY <1>1, <1>2, <1>4 DEF WorkOK, Idle, Bringing, InUse, Unmapping, Present
<1>8. pc[p] \notin Bringing /\ pc[p] \notin Idle /\ pc'[p] \notin {"new"} \cup Evictors
  BY <1>1, <1>4 DEF Bringing, Idle, Evictors, Chosen
<1>9. \A q \in Procs : pc[q] \in Chosen => victim[q] # upage[p]
  BY <1>8, VictimFacts
<1> QED
  BY <1>1, <1>4, <1>5, <1>6, <1>7, <1>8, <1>9, QuietStep

(***************************************************************************)
(* The steps that list a frame for another page or for none.               *)
(***************************************************************************)
LEMMA NoEvictor ==
  ASSUME Placed, frame_lock = Nobody
  PROVE  \A q \in Procs : pc[q] \notin Evictors
  BY Distinct DEF Placed, VictimOK

LEMMA UnmapFreePlaced ==
  ASSUME Placed, NEW p \in Procs, UnmapFree(p)
  PROVE  Placed'
<1> DEFINE g == upage[p]
           f == frame[p]
<1>1. /\ pc[p] = "unmap_free" /\ frame_lock = Nobody /\ UNCHANGED <<kind, victim, frame_lock>>
      /\ frame_list' = [h \in Frames |-> IF h = f THEN NoPage ELSE frame_list[h]]
      /\ pte' = [pte EXCEPT ![g] = NotPresent]
      /\ spte' = [spte EXCEPT ![g] = Absent]
      /\ frame' = [frame EXCEPT ![p] = NoFrame]
      /\ pc' = [pc EXCEPT ![p] = resume[p]] /\ resume' = [resume EXCEPT ![p] = "user"]
  BY DEF UnmapFree, From, Delisted, locks, Resume, Goto
<1>2. /\ g \in Pages /\ Present(g) /\ resume[p] \in {"user", "exit"} /\ Owner[g] = p
      /\ f = pte[g].frame /\ WorkOK(p)
  BY <1>1 DEF Placed, WorkOK, Unmapping, Idle
<1>3. upage' = [upage EXCEPT ![p] = NoPage]
  BY <1>2 DEF UnmapFree, Resume
<1>4. /\ pc'[p] \in {"user", "exit"} /\ upage'[p] = NoPage
      /\ \A q \in Procs \ {p} : SameProcess(q)
  BY <1>1, <1>2, <1>3 DEF Placed, ProcessTypes, SameProcess
<1>5. ProcessTypes'
  BY <1>1, <1>2, <1>3 DEF Placed, ProcessTypes, Places, Resumes
<1>6. Absent \in Entries /\ ~Absent.mapped /\ ~Absent.in_memory
  BY DEF Absent, Entries
<1>7. \A h \in Pages : /\ spte'[h] = (IF h = g THEN Absent ELSE spte[h])
                       /\ pte'[h] = (IF h = g THEN NotPresent ELSE pte[h])
  BY <1>1 DEF Placed, TableTypes
<1>8. TableTypes'
  <2>1. NotPresent \in [frame : Frames \cup {NoFrame}, dirty : BOOLEAN]
    BY DEF NotPresent
  <2> QED
    BY <1>1, <1>6, <2>1 DEF Placed, TableTypes
<1>9. f \in Frames /\ frame_list[f] = g
  BY <1>2 DEF Placed, TableTypes, PageOK, Present
<1>10. \A q \in Procs : pc[q] \notin Evictors
  BY <1>1, NoEvictor
<1>11. \A q \in Procs : VictimOK(q)'
  BY <1>4, <1>10 DEF VictimOK, SameProcess, Evictors, Chosen
<1>12. ASSUME NEW q \in Procs PROVE WorkOK(q)'
  <2>1. CASE q = p
    BY <1>4, <2>1 DEF WorkOK, Idle, Bringing, InUse, Unmapping
  <2>2. CASE q # p
    <3>1. WorkOK(q) /\ SameProcess(q)
      BY <1>4, <2>2 DEF Placed
    <3>2. pc[q] \notin Idle => upage[q] \in Pages /\ upage[q] # g
      BY <1>2, <2>2, <3>1 DEF WorkOK
    <3>3. pc[q] = "fill" => frame[q] # f
      BY <1>9, <3>1, <3>2, Places_ DEF WorkOK
    <3> QED
      BY <1>1, <1>7, <3>1, <3>2, <3>3, Places_ DEF WorkOK, SameProcess, Present, Unmapping
  <2> QED
    BY <2>1, <2>2
<1>13. ASSUME NEW h \in Pages PROVE PageOK(h)'
  <2>1. PageOK(h)
    BY DEF Placed
  <2>2. CASE h = g
    <3>1. \A e \in Frames : frame_list'[e] # g
      BY <1>1, <1>2, <2>1, <2>2, Distinct DEF PageOK, Comes
    <3> QED
      BY <1>6, <1>7, <2>2, <3>1 DEF PageOK, Present, NotPresent
  <2>3. CASE h # g
    <3>1. spte'[h] = spte[h] /\ pte'[h] = pte[h] /\ h # NoPage
      BY <1>7, <2>3, Distinct
    <3>2. Present(h) => pte[h].frame # f /\ pte[h].frame \in Frames
      BY <1>9, <2>1, <2>3 DEF PageOK, Present, Placed, TableTypes
    <3>3. \A e \in Frames : Comes(h, e) => Comes(h, e)'
      BY <1>1, <1>4, Distinct DEF Comes, SameProcess
    <3>4. upage[Owner[h]] = h /\ pc[Owner[h]] \in Bringing =>
            upage'[Owner[h]] = h /\ pc'[Owner[h]] \in Bringing
      BY <1>2, <1>4, <2>3, Distinct DEF SameProcess
    <3>5. pc[Owner[h]] # "new" => pc'[Owner[h]] # "new"
      BY <1>4, Distinct DEF SameProcess
    <3> QED
      BY <1>1, <2>1, <3>1, <3>2, <3>3, <3>4, <3>5 DEF PageOK, Present
  <2> QED
    BY <2>2, <2>3
<1> QED
  BY <1>5, <1>8, <1>11, <1>12, <1>13 DEF Placed

LEMMA FrameAllocPlaced ==
  ASSUME Placed, NEW p \in Procs, FrameAlloc(p)
  PROVE  Placed'
<1> DEFINE g == upage[p]
<1>1. /\ pc[p] = "alloc" /\ frame_lock = Nobody
      /\ UNCHANGED <<kind, upage, resume, victim, spte, pte>>
  BY DEF FrameAlloc, From, tables
<1>2. /\ g \in Pages /\ Owner[g] = p /\ ~Present(g) /\ WorkOK(p) /\ PageOK(g)
  BY <1>1 DEF Placed, WorkOK, Bringing, Idle
<1>3. \A q \in Procs : pc[q] \notin Evictors
  BY <1>1, NoEvictor
<1>4. CASE \E f \in Frames :
             /\ frame_list[f] = NoPage
             /\ frame_list' = [frame_list EXCEPT ![f] = g]
             /\ frame' = [frame EXCEPT ![p] = f]
             /\ Goto(p, "fill")
             /\ UNCHANGED frame_lock
  <2>1. PICK f \in Frames :
          /\ frame_list[f] = NoPage
          /\ frame_list' = [frame_list EXCEPT ![f] = g]
          /\ frame' = [frame EXCEPT ![p] = f]
          /\ pc' = [pc EXCEPT ![p] = "fill"]
    BY <1>4 DEF Goto
  <2>2. /\ pc'[p] = "fill" /\ frame'[p] = f /\ \A q \in Procs \ {p} : SameProcess(q)
    BY <1>1, <2>1 DEF Placed, ProcessTypes, SameProcess
  <2>3. \A e \in Frames : frame_list'[e] = IF e = f THEN g ELSE frame_list[e]
    BY <2>1 DEF Placed, TableTypes
  <2>4. ProcessTypes'
    BY <1>1, <2>1 DEF Placed, ProcessTypes, Places
  <2>5. TableTypes'
    BY <1>1, <1>2, <2>1 DEF Placed, TableTypes
  <2>6. \A q \in Procs : VictimOK(q)'
    BY <1>3, <2>2, Places_ DEF VictimOK, SameProcess
  <2>7. ASSUME NEW q \in Procs PROVE WorkOK(q)'
    <3>1. CASE q = p
      BY <1>1, <1>2, <2>2, <2>3, <3>1 DEF WorkOK, Idle, Bringing, InUse, Unmapping, Present
    <3>2. CASE q # p
      <4>1. WorkOK(q) /\ SameProcess(q)
        BY <2>2, <3>2 DEF Placed
      <4>2. pc[q] = "fill" => frame[q] # f
        BY <2>1, <4>1, Places_, Distinct DEF WorkOK
      <4> QED
        BY <1>1, <2>3, <4>1, <4>2 DEF WorkOK, SameProcess, Present
    <3> QED
      BY <3>1, <3>2
  <2>8. ASSUME NEW h \in Pages PROVE PageOK(h)'
    <3>1. PageOK(h) /\ h # NoPage
      BY Distinct DEF Placed
    <3>2. CASE h = g
      <4>1. \A e \in Frames : frame_list[e] # g
        BY <1>1, <1>2, Distinct DEF PageOK, Comes, Present
      <4>2. Comes(g, f)'
        BY <1>1, <1>2, <2>2 DEF Comes
      <4>3. \A e \in Frames : frame_list'[e] = g => Comes(g, e)'
        BY <2>3, <4>1, <4>2
      <4> QED
        BY <1>1, <1>2, <2>2, <3>1, <3>2, <4>3, Places_ DEF PageOK, Present
    <3>3. CASE h # g
      <4>1. Present(h) => pte[h].frame # f /\ pte[h].frame \in Frames
        BY <2>1, <3>1 DEF PageOK, Present, Placed, TableTypes
      <4>2. \A e \in Frames : Comes(h, e) => Comes(h, e)'
        BY <1>1, <2>2, Distinct DEF Comes, SameProcess
      <4>3. upage[Owner[h]] = h /\ pc[Owner[h]] \in Bringing =>
              upage'[Owner[h]] = h /\ pc'[Owner[h]] \in Bringing
        BY <1>2, <2>2, <3>3, Distinct DEF SameProcess
      <4>4. pc[Owner[h]] # "new" => pc'[Owner[h]] # "new"
        BY <2>2, Distinct DEF SameProcess
      <4> QED
        BY <1>1, <2>3, <3>1, <3>3, <4>1, <4>2, <4>3, <4>4 DEF PageOK, Present
    <3> QED
      BY <3>2, <3>3
  <2> QED
    BY <2>4, <2>5, <2>6, <2>7, <2>8 DEF Placed
<1>5. CASE /\ \A f \in Frames : frame_list[f] # NoPage
           /\ ReplaceLocked(p)
           /\ Goto(p, "evict")
           /\ UNCHANGED <<frame, frame_list>>
  <2>1. pc' = [pc EXCEPT ![p] = "evict"] /\ frame_lock' = p /\ UNCHANGED <<frame, frame_list>>
    BY <1>5 DEF ReplaceLocked, Goto
  <2>2. pc'[p] = "evict" /\ \A q \in Procs \ {p} : SameProcess(q)
    BY <1>1, <2>1 DEF Placed, ProcessTypes, SameProcess
  <2>3. ProcessTypes'
    BY <1>1, <2>1 DEF Placed, ProcessTypes, Places
  <2>4. TableTypes'
    BY <1>1, <2>1 DEF Placed, TableTypes
  <2>5. WorkOK(p)'
    BY <1>1, <1>2, <2>1, <2>2 DEF WorkOK, Idle, Bringing, InUse, Unmapping, Present
  <2>6. VictimOK(p)'
    BY <1>5, <2>1, <2>2 DEF VictimOK, Evictors, Chosen
  <2>7. \A h \in Pages : Owner[h] = p => PageOK(h)'
    BY <1>1, <2>1, <2>2, StillOK DEF Bringing
  <2>8. \A h \in Pages : SamePlace(h)
    BY <1>1 DEF SamePlace
  <2>9. \A q \in Procs : pc[q] \notin Chosen
    BY <1>3, Places_
  <2> QED
    BY <1>1, <2>1, <2>2, <2>3, <2>4, <2>5, <2>6, <2>7, <2>8, <2>9, OwnStep
<1> QED
  BY <1>4, <1>5 DEF FrameAlloc

(* frame_replace() chooses a page that is in memory and stays there. *)
LEMMA ChoosePlaced ==
  ASSUME Placed, Untorn, Untorn', NEW p \in Procs, NEW f \in Frames, Choose(p, f)
  PROVE  Placed'
<1> DEFINE g == frame_list[f]
<1>1. /\ pc[p] = "evict" /\ ~spte[g].inevictable /\ ~Removing(g)
      /\ victim' = [victim EXCEPT ![p] = g]
      /\ UNCHANGED <<kind, upage, resume, frame, spte, pte, frame_list, frame_lock>>
  BY DEF Choose, From, Untorn, tables, memory, locks
<1>2. PICK place \in Chosen : pc' = [pc EXCEPT ![p] = place]
  BY DEF Choose, Goto, Saved, Chosen
<1>3. /\ frame_lock = p /\ (\A e \in Frames : frame_list[e] # NoPage) /\ WorkOK(p)
  BY <1>1 DEF Placed, VictimOK, Evictors
<1>4. g \in Pages
  BY <1>3 DEF Placed, TableTypes
<1>5. Present(g)
  <2>1. PageOK(g) /\ WorkOK(Owner[g])
    BY <1>4, Distinct DEF Placed
  <2>2. ~Comes(g, f)
    BY <1>1, <2>1, Places_ DEF Comes, WorkOK
  <2> QED
    BY <1>4, <2>1, <2>2, Distinct DEF PageOK, Present
<1>6. \A q \in Procs : pc[q] \in Unmapping => upage[q] # g
  BY <1>1 DEF Removing, Unmapping
<1>7. /\ pc'[p] = place /\ victim'[p] = g /\ \A q \in Procs \ {p} : SameProcess(q)
  BY <1>1, <1>2 DEF Placed, ProcessTypes, SameProcess
<1>8. ProcessTypes'
  BY <1>1, <1>2, <1>4 DEF Placed, ProcessTypes, Places, Chosen
<1>9. TableTypes'
  BY <1>1 DEF Placed, TableTypes
<1>10. place \in Bringing /\ place \notin Unmapping /\ place # "new" /\ place # "fill"
  BY DEF Chosen, Bringing, Unmapping
<1>11. WorkOK(p)'
  BY <1>1, <1>3, <1>7, <1>10, Places_ DEF WorkOK, Present, Unmapping, Bringing
<1>12. VictimOK(p)'
  <2>1. \A q \in Procs : pc'[q] \in Unmapping => upage'[q] # g
    BY <1>6, <1>7, <1>10 DEF SameProcess
  <2> QED
    BY <1>1, <1>3, <1>4, <1>5, <1>7, <2>1 DEF VictimOK, Present
<1>13. \A h \in Pages : Owner[h] = p => PageOK(h)'
  BY <1>1, <1>7, <1>10, StillOK
<1>14. \A h \in Pages : SamePlace(h)
  BY <1>1 DEF SamePlace
<1>15. \A q \in Procs \ {p} : pc[q] \in Chosen => victim[q] \in Pages
  BY VictimFacts
<1> QED
  BY <1>1, <1>7, <1>8, <1>9, <1>10, <1>11, <1>12, <1>13, <1>14, <1>15, OwnStep

(* The copy of the page is written, to the file or to a slot. *)
LEMMA CopiedPlaced ==
  ASSUME Placed, NEW p \in Procs, pc[p] \in {"write_back", "swap_out"},
         pc' = [pc EXCEPT ![p] = "unlink"],
         UNCHANGED <<kind, upage, resume, frame, victim, pte, frame_list, frame_lock>>,
         spte' \in [Pages -> Entries],
         \A g \in Pages : /\ spte'[g].mapped = spte[g].mapped
                          /\ spte'[g].in_memory = spte[g].in_memory
                          /\ spte'[g].inevictable = spte[g].inevictable
  PROVE  Placed'
<1>1. pc'[p] = "unlink" /\ \A q \in Procs \ {p} : SameProcess(q)
  BY DEF Placed, ProcessTypes, SameProcess
<1>2. ProcessTypes'
  BY DEF Placed, ProcessTypes, Places
<1>3. TableTypes'
  BY DEF Placed, TableTypes
<1>4. WorkOK(p) /\ VictimOK(p)
  BY DEF Placed
<1>5. {pc[p], pc'[p]} \subseteq Chosen \cap Bringing /\ pc'[p] # "new"
      /\ pc'[p] \notin Unmapping /\ pc[p] # "fill" /\ pc'[p] # "fill"
  BY <1>1 DEF Chosen, Bringing, Unmapping
<1>6. upage[p] \in Pages /\ victim[p] \in Pages
  BY <1>4, <1>5, Places_ DEF WorkOK, VictimOK
<1>7. WorkOK(p)'
  BY <1>1, <1>4, <1>5, <1>6, Places_ DEF WorkOK, Present, Unmapping
<1>8. VictimOK(p)'
  <2>1. \A q \in Procs : pc'[q] \in Unmapping => upage'[q] # victim[p]
    BY <1>1, <1>4, <1>5 DEF VictimOK, SameProcess
  <2> QED
    BY <1>4, <1>5, <1>6, <2>1, Places_ DEF VictimOK, Present
<1>9. \A g \in Pages : Owner[g] = p => PageOK(g)'
  BY <1>1, <1>5, StillOK
<1>10. \A g \in Pages : SamePlace(g)
  BY DEF SamePlace
<1>11. \A q \in Procs \ {p} : pc[q] \in Chosen => victim[q] \in Pages
  BY VictimFacts
<1> QED
  BY <1>1, <1>2, <1>3, <1>5, <1>7, <1>8, <1>9, <1>10, <1>11, OwnStep

LEMMA PanicPlaced ==
  ASSUME Placed, UNCHANGED <<kind, process, tables, memory, locks>>
  PROVE  Placed'
<1>1. UNCHANGED <<pc, upage, resume, frame, victim, kind, spte, pte, frame_list, frame_lock>>
  BY DEF process, tables, memory, locks
<1> QED
  BY <1>1 DEF Placed, ProcessTypes, TableTypes, WorkOK, VictimOK, PageOK, Present, Comes

LEMMA WriteBackPlaced ==
  ASSUME Placed, NEW p \in Procs, WriteBack(p)
  PROVE  Placed'
<1>1. CASE Panics(p, lock_f)
  BY <1>1, PanicPlaced DEF Panics, WriteBack, From
<1>2. CASE ~Panics(p, lock_f)
  <2>1. /\ pc[p] = "write_back" /\ pc' = [pc EXCEPT ![p] = "unlink"]
        /\ UNCHANGED <<kind, upage, resume, frame, victim, spte, pte, frame_list, frame_lock>>
    BY <1>2 DEF WriteBack, From, Goto, tables, memory, locks
  <2> QED
    BY <2>1, CopiedPlaced DEF Placed, TableTypes
<1> QED
  BY <1>1, <1>2

(* What swap_out() does to the entry of the page. *)
LEMMA SwapOutFacts ==
  ASSUME TableTypes, NEW g \in Pages, NEW s \in Slots,
         spte' = [spte EXCEPT ![g].spage_type = "SWAP", ![g].swap_slot_id = s]
  PROVE  /\ spte' \in [Pages -> Entries]
         /\ \A h \in Pages : /\ spte'[h].mapped = spte[h].mapped
                             /\ spte'[h].in_memory = spte[h].in_memory
                             /\ spte'[h].inevictable = spte[h].inevictable
                             /\ spte'[h].spage_type = IF h = g THEN "SWAP" ELSE spte[h].spage_type
                             /\ spte'[h].swap_slot_id = IF h = g THEN s ELSE spte[h].swap_slot_id
<1> DEFINE e == [spte[g] EXCEPT !.spage_type = "SWAP", !.swap_slot_id = s]
<1>1. spte \in [Pages -> Entries] /\ spte[g] \in Entries
  BY DEF TableTypes
<1>2. spte' = [spte EXCEPT ![g] = e]
  BY <1>1
<1>3. /\ e \in Entries /\ e.mapped = spte[g].mapped /\ e.in_memory = spte[g].in_memory
      /\ e.inevictable = spte[g].inevictable /\ e.spage_type = "SWAP" /\ e.swap_slot_id = s
  BY <1>1 DEF Entries
<1> HIDE DEF e
<1>4. \A h \in Pages : spte'[h] = IF h = g THEN e ELSE spte[h]
  BY <1>1, <1>2
<1> QED
  BY <1>1, <1>2, <1>3, <1>4

LEMMA SwapOutPlaced ==
  ASSUME Placed, NEW p \in Procs, SwapOut(p)
  PROVE  Placed'
<1>1. pc[p] = "swap_out" /\ UNCHANGED kind /\ victim[p] \in Pages
  BY DEF SwapOut, From, Placed, VictimOK, Chosen
<1>2. CASE UNCHANGED <<process, tables, memory, locks>>
  BY <1>1, <1>2, PanicPlaced
<1>3. CASE ~UNCHANGED <<process, tables, memory, locks>>
  <2>1. PICK s \in Slots :
          spte' = [spte EXCEPT ![victim[p]].spage_type = "SWAP", ![victim[p]].swap_slot_id = s]
    BY <1>3 DEF SwapOut, Panics
  <2>2. /\ pc' = [pc EXCEPT ![p] = "unlink"]
        /\ UNCHANGED <<upage, resume, frame, victim, pte, frame_list, frame_lock>>
    BY <1>3 DEF SwapOut, Panics, Goto, memory, locks
  <2> QED
    BY <1>1, <2>1, <2>2, SwapOutFacts, PlacedTypes, CopiedPlaced
<1> QED
  BY <1>2, <1>3

(* The evicted page gives its frame up to the page it was evicted for. *)
LEMMA UnlinkFacts ==
  ASSUME TableTypes, NEW g \in Pages, spte' = [spte EXCEPT ![g].in_memory = FALSE]
  PROVE  /\ spte' \in [Pages -> Entries]
         /\ \A h \in Pages : /\ spte'[h].mapped = spte[h].mapped
                             /\ spte'[h].inevictable = spte[h].inevictable
                             /\ spte'[h].spage_type = spte[h].spage_type
                             /\ spte'[h].swap_slot_id = spte[h].swap_slot_id
                             /\ spte'[h].in_memory = IF h = g THEN FALSE ELSE spte[h].in_memory
<1> DEFINE e == [spte[g] EXCEPT !.in_memory = FALSE]
<1>1. spte \in [Pages -> Entries] /\ spte[g] \in Entries
  BY DEF TableTypes
<1>2. spte' = [spte EXCEPT ![g] = e]
  BY <1>1
<1>3. /\ e \in Entries /\ e.mapped = spte[g].mapped /\ e.in_memory = FALSE
      /\ e.spage_type = spte[g].spage_type /\ e.swap_slot_id = spte[g].swap_slot_id
      /\ e.inevictable = spte[g].inevictable
  BY <1>1 DEF Entries
<1> HIDE DEF e
<1>4. \A h \in Pages : spte'[h] = IF h = g THEN e ELSE spte[h]
  BY <1>1, <1>2
<1> QED
  BY <1>1, <1>2, <1>3, <1>4

LEMMA UnlinkPlaced ==
  ASSUME Placed, NEW p \in Procs, Unlink(p)
  PROVE  Placed'
<1> DEFINE v == victim[p]
           g == upage[p]
<1>1. pc[p] = "unlink" /\ pc[p] \in Chosen /\ WorkOK(p)
  BY DEF Unlink, From, Chosen, Placed
<1>2. /\ v \in Pages /\ Present(v) /\ pte[v].frame \in Frames /\ frame_lock = p
      /\ frame_list[pte[v].frame] = v
      /\ \A q \in Procs : pc[q] \notin Idle => upage[q] # v
  BY <1>1, VictimFacts
<1>3. /\ g \in Pages /\ Owner[g] = p /\ ~Present(g) /\ PageOK(g) /\ PageOK(v) /\ g # v
      /\ spte[g].mapped /\ spte[g].inevictable
  BY <1>1, <1>2 DEF WorkOK, Idle, Bringing, Placed
<1>4. PICK f \in Frames : /\ frame_list[f] = v
                          /\ frame_list' = [frame_list EXCEPT ![f] = g]
                          /\ frame' = [frame EXCEPT ![p] = f]
  BY DEF Unlink
<1>5. /\ UNCHANGED <<kind, upage, resume>> /\ frame_lock' = Nobody
      /\ pte' = [pte EXCEPT ![v] = NotPresent]
      /\ spte' = [spte EXCEPT ![v].in_memory = FALSE]
      /\ victim' = [victim EXCEPT ![p] = NoPage]
      /\ pc' = [pc EXCEPT ![p] = "fill"]
  BY DEF Unlink, From, Goto
<1>6. /\ pc'[p] = "fill" /\ frame'[p] = f /\ \A q \in Procs \ {p} : SameProcess(q)
  BY <1>4, <1>5 DEF Placed, ProcessTypes, SameProcess
<1>7. ~Comes(v, f) /\ pte[v].frame = f
  <2>1. ~Comes(v, f)
    BY <1>2, Places_, Distinct DEF Comes
  <2> QED
    BY <1>3, <1>4, <2>1 DEF PageOK
<1>8. \A e \in Frames : frame_list'[e] = IF e = f THEN g ELSE frame_list[e]
  BY <1>4 DEF Placed, TableTypes
<1>9. \A h \in Pages : pte'[h] = IF h = v THEN NotPresent ELSE pte[h]
  BY <1>5 DEF Placed, TableTypes
<1>10. /\ spte' \in [Pages -> Entries]
       /\ \A h \in Pages : /\ spte'[h].mapped = spte[h].mapped
                           /\ spte'[h].inevictable = spte[h].inevictable
                           /\ spte'[h].in_memory = IF h = v THEN FALSE ELSE spte[h].in_memory
  BY <1>2, <1>5, UnlinkFacts, PlacedTypes
<1>11. ProcessTypes'
  BY <1>4, <1>5 DEF Placed, ProcessTypes, Places
<1>12. TableTypes'
  <2>1. NotPresent \in [frame : Frames \cup {NoFrame}, dirty : BOOLEAN]
    BY DEF NotPresent
  <2> QED
    BY <1>3, <1>4, <1>5, <1>10, <2>1 DEF Placed, TableTypes
<1>13. \A q \in Procs \ {p} : pc[q] \notin Evictors
  BY <1>2, Distinct DEF Placed, VictimOK
<1>14. \A q \in Procs : VictimOK(q)'
  BY <1>6, <1>13, Places_ DEF VictimOK, SameProcess
<1>15. ASSUME NEW q \in Procs PROVE WorkOK(q)'
  <2>1. CASE q = p
    <3>1. pte'[g].frame = NoFrame
      BY <1>3, <1>9 DEF Present
    <3>2. spte'[g].mapped /\ spte'[g].inevictable /\ spte'[g].in_memory = spte[g].in_memory
      BY <1>3, <1>10
    <3>3. resume[p] \in {"user", "io", "loaded"} /\ (resume[p] = "loaded" => spte[g].in_memory)
      BY <1>1, Places_ DEF WorkOK
    <3> QED
      BY <1>3, <1>5, <1>6, <1>8, <2>1, <3>1, <3>2, <3>3
      DEF WorkOK, Idle, Bringing, InUse, Unmapping, Present
  <2>2. CASE q # p
    <3>1. WorkOK(q) /\ SameProcess(q) /\ pc[q] \in Places
      BY <1>6, <2>2 DEF Placed, ProcessTypes
    <3>2. pc[q] \notin Idle => upage[q] \in Pages /\ upage[q] # v
      BY <1>2, <3>1 DEF WorkOK
    <3>3. pc[q] \notin Idle => /\ spte'[upage[q]].mapped = spte[upage[q]].mapped
                               /\ spte'[upage[q]].in_memory = spte[upage[q]].in_memory
                               /\ spte'[upage[q]].inevictable = spte[upage[q]].inevictable
                               /\ pte'[upage[q]] = pte[upage[q]]
      BY <1>9, <1>10, <3>2
    <3>4. pc[q] = "fill" => frame[q] # f
      BY <1>4, <3>1, <3>2, Places_ DEF WorkOK
    <3>5. pc[q] = "unmap_free" => pc[q] \in Unmapping
      BY DEF Unmapping
    <3> QED
      BY <1>8, <3>1, <3>3, <3>4, <3>5, Places_ DEF WorkOK, SameProcess, Present
  <2> QED
    BY <2>1, <2>2
<1>16. ASSUME NEW h \in Pages PROVE PageOK(h)'
  <2>1. PageOK(h)
    BY DEF Placed
  <2>2. CASE h = v
    <3>1. \A e \in Frames : frame_list'[e] # v
      BY <1>2, <1>3, <1>7, <1>8, Places_, Distinct DEF PageOK, Comes
    <3>2. pc'[Owner[v]] # "new"
      <4>1. pc[Owner[v]] # "new"
        BY <1>2, <1>3 DEF PageOK
      <4> QED
        BY <1>2, <1>6, <4>1, Distinct DEF SameProcess
    <3>3. pte'[h].frame = NoFrame
      BY <1>9, <2>2 DEF NotPresent
    <3>4. ~spte'[h].in_memory
      BY <1>10, <2>2
    <3> QED
      BY <2>2, <3>1, <3>2, <3>3, <3>4 DEF PageOK, Present
  <2>3. CASE h = g
    <3>1. \A e \in Frames : frame_list[e] = g => FALSE
      BY <1>1, <1>3, Distinct DEF PageOK, Comes, Present
    <3>2. Comes(g, f)'
      BY <1>3, <1>5, <1>6 DEF Comes
    <3>3. \A e \in Frames : frame_list'[e] = g => Comes(g, e)'
      BY <1>8, <3>1, <3>2
    <3> QED
      BY <1>3, <1>5, <1>6, <1>9, <1>10, <2>3, <3>3, Places_ DEF PageOK, Present
  <2>4. CASE h # v /\ h # g
    <3>1. pte'[h] = pte[h] /\ spte'[h].mapped = spte[h].mapped
          /\ spte'[h].in_memory = spte[h].in_memory
      BY <1>9, <1>10, <2>4
    <3>2. Present(h) => pte[h].frame # f /\ pte[h].frame \in Frames
      BY <1>4, <2>1, <2>4 DEF PageOK, Present, Placed, TableTypes
    <3>3. \A e \in Frames : Comes(h, e) => Comes(h, e)'
      BY <1>1, <1>6, Distinct DEF Comes, SameProcess
    <3>4. upage[Owner[h]] = h /\ pc[Owner[h]] \in Bringing =>
            upage'[Owner[h]] = h /\ pc'[Owner[h]] \in Bringing
      BY <1>3, <1>6, <2>4, Distinct DEF SameProcess
    <3>5. pc[Owner[h]] # "new" => pc'[Owner[h]] # "new"
      BY <1>6, Distinct DEF SameProcess
    <3> QED
      BY <1>8, <2>1, <2>4, <3>1, <3>2, <3>3, <3>4, <3>5 DEF PageOK, Present
  <2> QED
    BY <2>2, <2>3, <2>4
<1> QED
  BY <1>11, <1>12, <1>14, <1>15, <1>16 DEF Placed

(* The page a process waited for is in memory. *)
LEMMA InstallPlaced ==
  ASSUME Placed, NEW p \in Procs, pc[p] = "fill", UNCHANGED kind,
         NEW dirty \in BOOLEAN, NEW value, Install(p, dirty, value)
  PROVE  Placed'
<1> DEFINE g == upage[p]
           f == frame[p]
           e == [frame |-> f, dirty |-> dirty]
<1>1. /\ WorkOK(p) /\ g \in Pages /\ Owner[g] = p /\ ~Present(g) /\ PageOK(g)
      /\ spte[g].mapped /\ spte[g].inevictable
      /\ resume[p] \in {"user", "io", "loaded"} /\ (resume[p] = "loaded" => spte[g].in_memory)
      /\ f \in Frames /\ frame_list[f] = g
  BY Places_ DEF Placed, WorkOK
<1>2. /\ UNCHANGED <<victim, frame_list, frame_lock>>
      /\ pte' = [pte EXCEPT ![g] = e]
      /\ frame' = [frame EXCEPT ![p] = NoFrame]
      /\ pc' = [pc EXCEPT ![p] = resume[p]]
      /\ resume' = [resume EXCEPT ![p] = "user"]
      /\ upage' = IF resume[p] = "user" THEN [upage EXCEPT ![p] = NoPage] ELSE upage
  BY <1>1 DEF Install, Resume, Goto
<1>3. /\ pc'[p] = resume[p] /\ (upage'[p] = IF resume[p] = "user" THEN NoPage ELSE g)
      /\ \A q \in Procs \ {p} : SameProcess(q)
  BY <1>1, <1>2 DEF Placed, ProcessTypes, SameProcess
<1>4. /\ spte' \in [Pages -> Entries]
      /\ \A h \in Pages :
           /\ spte'[h].mapped = spte[h].mapped
           /\ spte'[h].inevictable = IF h = g THEN resume[p] = "io" \/ spte[g].in_memory
                                     ELSE spte[h].inevictable
           /\ spte'[h].in_memory = IF h = g THEN TRUE ELSE spte[h].in_memory
  <2>1. PICK b \in BOOLEAN :
          /\ b = (resume[p] = "io" \/ spte[g].in_memory)
          /\ spte' = [spte EXCEPT ![g].in_memory = TRUE, ![g].inevictable = b]
    <3>1. (resume[p] = "io" \/ spte[g].in_memory) \in BOOLEAN
      OBVIOUS
    <3>2. spte' = [spte EXCEPT ![g].in_memory = TRUE,
                     ![g].inevictable = (resume[p] = "io" \/ spte[g].in_memory)]
      <4>1. spte[g].inevictable = TRUE
        BY <1>1 DEF Placed, TableTypes, Entries
      <4> QED
        BY <1>1, <4>1 DEF Install, Placed, TableTypes
    <3> QED
      BY <3>1, <3>2
  <2>2. /\ spte' \in [Pages -> Entries]
        /\ \A h \in Pages :
              /\ spte'[h].mapped = spte[h].mapped
              /\ spte'[h].inevictable = IF h = g THEN b ELSE spte[h].inevictable
              /\ spte'[h].in_memory = IF h = g THEN TRUE ELSE spte[h].in_memory
    <3> DEFINE k == [spte[g] EXCEPT !.in_memory = TRUE, !.inevictable = b]
    <3>1. spte \in [Pages -> Entries] /\ spte[g] \in Entries
      BY <1>1 DEF Placed, TableTypes
    <3>2. spte' = [spte EXCEPT ![g] = k]
      BY <1>1, <2>1, <3>1
    <3>3. /\ k \in Entries /\ k.mapped = spte[g].mapped
          /\ k.in_memory = TRUE /\ k.inevictable = b
      BY <3>1 DEF Entries
    <3> HIDE DEF k
    <3>4. \A h \in Pages : spte'[h] = IF h = g THEN k ELSE spte[h]
      BY <1>1, <3>1, <3>2
    <3> QED
      BY <1>1, <3>1, <3>2, <3>3, <3>4
  <2> QED
    BY <1>1, <2>1, <2>2
<1>5. /\ e \in [frame : Frames \cup {NoFrame}, dirty : BOOLEAN] /\ e.frame = f
      /\ \A h \in Pages : pte'[h] = IF h = g THEN e ELSE pte[h]
  BY <1>1, <1>2 DEF Placed, TableTypes
<1> HIDE DEF e
<1>6. ProcessTypes'
  BY <1>1, <1>2 DEF Placed, ProcessTypes, Places, Resumes
<1>7. TableTypes'
  BY <1>2, <1>4, <1>5 DEF Placed, TableTypes
<1>8. pte'[g].frame # NoFrame /\ spte'[g].mapped /\ spte'[g].in_memory
      /\ (pc'[p] # "user" => spte'[g].inevictable)
  BY <1>1, <1>3, <1>4, <1>5, Distinct DEF Present
<1>9. WorkOK(p)'
  BY <1>1, <1>3, <1>8 DEF WorkOK, Idle, Bringing, InUse, Unmapping, Present
<1>10. VictimOK(p)' /\ pc'[p] \notin Unmapping \cup {"new"}
  BY <1>1, <1>3 DEF VictimOK, Evictors, Chosen, Unmapping
<1>11. \A q \in Procs : pc[q] \in Chosen => victim[q] \in Pages /\ victim[q] # g
  BY <1>1, VictimFacts, Places_
<1>12. \A h \in Pages : h # g => SamePlace(h)
  BY <1>4, <1>5 DEF SamePlace
<1>13. ASSUME NEW h \in Pages, Owner[h] = p PROVE PageOK(h)'
  <2>1. PageOK(h)
    BY DEF Placed
  <2>2. CASE h = g
    <3>1. \A k \in Frames : frame_list[k] = g => k = f
      BY <1>1 DEF PageOK, Comes, Present
    <3> QED
      BY <1>1, <1>2, <1>5, <1>8, <1>10, <2>2, <3>1 DEF PageOK, Present
  <2>3. CASE h # g
    <3>1. SamePlace(h) /\ ~Comes(h, f)
      BY <1>1, <1>12, <1>13, <2>3 DEF Comes
    <3>2. \A k \in Frames : ~Comes(h, k)
      BY <1>1, <1>13, <2>3 DEF Comes
    <3>3. ~(upage[Owner[h]] = h /\ pc[Owner[h]] \in Bringing)
      BY <1>13, <2>3
    <3> QED
      BY <1>2, <1>10, <1>13, <2>1, <3>1, <3>2, <3>3 DEF PageOK, Present, SamePlace
  <2> QED
    BY <2>2, <2>3
<1> QED
  BY <1>1, <1>2, <1>3, <1>6, <1>7, <1>9, <1>10, <1>11, <1>12, <1>13, OwnStep

LEMMA FillPlaced ==
  ASSUME Placed, NEW p \in Procs, FillStack(p) \/ FillFile(p) \/ FillSwap(p)
  PROVE  Placed'
<1>1. pc[p] = "fill" /\ UNCHANGED kind
  BY DEF FillStack, FillFile, FillSwap, From
<1>2. CASE \E lock \in {lock_f, swap_lock} : Panics(p, lock)
  BY <1>1, <1>2, PanicPlaced DEF Panics
<1>3. CASE \A lock \in {lock_f, swap_lock} : ~Panics(p, lock)
  <2>1. PICK dirty \in BOOLEAN, value \in {Junk} \cup {file[upage[p]]} \cup {swap[s].data : s \in Slots \cup {spte[upage[p]].swap_slot_id}} :
          Install(p, dirty, value)
    BY <1>3 DEF FillStack, FillFile, FillSwap
  <2> QED
    BY <1>1, <2>1, InstallPlaced
<1> QED
  BY <1>2, <1>3

(* A page that a system call uses is in memory: the kernel does not fault. *)
LEMMA NoKernelFault ==
  ASSUME Placed, NEW p \in Procs
  PROVE  ~KernelFault(p)
  BY DEF Placed, WorkOK, InUse, KernelFault, From

LEMMA PlacedInit == Init => Placed
<1> SUFFICES ASSUME Init PROVE Placed
  OBVIOUS
<1>1. ProcessTypes
  BY DEF Init, ProcessTypes, Places, Resumes
<1>2. TableTypes
  BY DEF Init, PagingAssumption, TableTypes, Kinds, Absent, NotPresent, Entries
<1>3. \A p \in Procs : WorkOK(p) /\ VictimOK(p)
  BY DEF Init, WorkOK, VictimOK, Idle, Bringing, InUse, Unmapping, Evictors, Chosen
<1>4. \A g \in Pages : PageOK(g)
  BY Distinct DEF Init, PageOK, Present, NotPresent, Absent
<1> QED
  BY <1>1, <1>2, <1>3, <1>4 DEF Placed

(* What the code does not handle stays in the history. *)
LEMMA StaysSpoiled ==
  ASSUME Next PROVE /\ (Sound' => Sound) /\ (Untorn' => Untorn)
                    /\ spoiled \subseteq spoiled'
<1>1. PICK p \in Procs : Runs(p) \/ Exit(p) \/ \E g \in Pages : Calls(p, g)
  BY DEF Next
<1>2. spoiled \subseteq spoiled'
  <2>1. CASE Exit(p)
    BY <2>1, SMTT(30) DEF Exit
  <2>2. CASE Runs(p)
    BY <2>2 DEF Runs, Loaded, FrameAlloc, WriteBack, SwapOut, Unlink, FillStack, FillFile,
                FillSwap, Transfer, Transferred, KernelFault, UnmapWrite, UnmapFree, Exited,
                Choose, ExitPage, Load, Install, Panics, Torn, Remove
  <2>3. CASE \E g \in Pages : Calls(p, g)
    BY <2>3 DEF Calls, Write, Fault, Syscall, Mmap, Munmap, GrowStack, Torn, Remove
  <2> QED
    BY <1>1, <2>1, <2>2, <2>3
<1> QED
  BY <1>2 DEF Sound, Untorn

LEMMA PlacedNext ==
  ASSUME Placed, Untorn, Untorn', Next
  PROVE  Placed'
<1>1. PICK p \in Procs : Runs(p) \/ Exit(p) \/ \E g \in Pages : Calls(p, g)
  BY DEF Next
<1>2. CASE Exit(p)
  BY <1>2, ExitPlaced
<1>3. CASE Runs(p)
  <2>1. CASE Loaded(p)
    BY <2>1, LoadedPlaced
  <2>2. CASE FrameAlloc(p)
    BY <2>2, FrameAllocPlaced
  <2>3. CASE WriteBack(p)
    BY <2>3, WriteBackPlaced
  <2>4. CASE SwapOut(p)
    BY <2>4, SwapOutPlaced
  <2>5. CASE Unlink(p)
    BY <2>5, UnlinkPlaced
  <2>6. CASE FillStack(p) \/ FillFile(p) \/ FillSwap(p)
    BY <2>6, FillPlaced
  <2>7. CASE Transfer(p)
    BY <2>7, TransferPlaced
  <2>8. CASE Transferred(p)
    BY <2>8, TransferredPlaced
  <2>9. CASE UnmapWrite(p)
    BY <2>9, UnmapWritePlaced
  <2>10. CASE UnmapFree(p)
    BY <2>10, UnmapFreePlaced
  <2>11. CASE Exited(p)
    BY <2>11, ExitPlaced
  <2>12. CASE \E f \in Frames : Choose(p, f)
    BY <2>12, ChoosePlaced
  <2>13. CASE \E g \in Pages : ExitPage(p, g)
    BY <2>13, RemovePlaced DEF ExitPage, From, Mapped
  <2>14. CASE \E g \in Pages : Load(p, g)
    BY <2>14, LoadPlaced
  <2> QED
    BY <1>3, NoKernelFault, <2>1, <2>2, <2>3, <2>4, <2>5, <2>6, <2>7, <2>8, <2>9, <2>10,
       <2>11, <2>12, <2>13, <2>14 DEF Runs
<1>4. CASE \E g \in Pages : Calls(p, g)
  <2>1. PICK g \in Pages : Calls(p, g)
    BY <1>4
  <2>2. CASE \E v \in Values : Write(p, g, v)
    BY <2>2, WritePlaced
  <2>3. CASE Fault(p, g)
    BY <2>3, FaultPlaced
  <2>4. CASE Syscall(p, g)
    BY <2>4, SyscallPlaced
  <2>5. CASE Mmap(p, g)
    BY <2>5, MmapPlaced
  <2>6. CASE Munmap(p, g)
    BY <2>6, RemovePlaced DEF Munmap, From
  <2>7. CASE \E after \in {"user", "io"} : GrowStack(p, g, after)
    BY <2>7, GrowStackPlaced
  <2> QED
    BY <2>1, <2>2, <2>3, <2>4, <2>5, <2>6, <2>7 DEF Calls
<1> QED
  BY <1>1, <1>2, <1>3, <1>4

LEMMA PlacedStutter ==
  ASSUME Placed, UNCHANGED vars
  PROVE  Placed'
  BY PanicPlaced DEF vars

THEOREM PlacedAlways == Spec => [](Untorn => Placed)
<1>1. Init => (Untorn => Placed)
  BY PlacedInit
<1>2. (Untorn => Placed) /\ [Next]_vars => (Untorn => Placed)'
  BY StaysSpoiled, PlacedNext, PlacedStutter DEF Untorn, vars
<1> QED
  BY <1>1, <1>2, PTL DEF Spec

(* Frames belong to one page, while no eviction is overtaken. *)
THEOREM FramesHaveOneOwner == Spec => []FramesOwned
<1>1. (Untorn => Placed) => FramesOwned
  BY Distinct DEF FramesOwned, Placed, PageOK, Comes, Arriving
<1> QED
  BY <1>1, PlacedAlways, PTL

(* The page of a buffer stays in memory while the call uses it. *)
THEOREM BuffersStay == Spec => []PinHolds
<1>1. (Untorn => Placed) => PinHolds
  BY DEF PinHolds, Placed, WorkOK, InUse
<1> QED
  BY <1>1, PlacedAlways, PTL

-----------------------------------------------------------------------------
(***************************************************************************)
(* What the pages contain.  A page that a step leaves alone may become one *)
(* that is dropped if it is clean and has a file.                          *)
(***************************************************************************)
SameEntry(g) ==
  /\ spte'[g].mapped = spte[g].mapped /\ spte'[g].in_memory = spte[g].in_memory
  /\ spte'[g].spage_type = spte[g].spage_type
  /\ spte'[g].swap_slot_id = spte[g].swap_slot_id

QuietPage(g) ==
  /\ SameEntry(g)
  /\ pte'[g] = pte[g] /\ stored'[g] = stored[g] /\ file'[g] = file[g]
  /\ Present(g) => content'[pte[g].frame] = content[pte[g].frame]
  /\ HasSlot(g) => swap'[spte[g].swap_slot_id] = swap[spte[g].swap_slot_id]
  /\ Leaving(g)' => Leaving(g) \/ (~pte[g].dirty /\ spte[g].spage_type # "SWAP")
  /\ Freeing(g)' => Freeing(g) \/ ~pte[g].dirty \/ kind[g] # "MMAP"

Rebuilt(g) ==
  /\ KindOK(g)' /\ CopyOK(g)'
  /\ HasSlot(g)' =>
       /\ spte'[g].swap_slot_id \in Slots /\ swap'[spte'[g].swap_slot_id].used
       /\ \A h \in Pages \ {g} :
            HasSlot(h)' => spte'[h].swap_slot_id # spte'[g].swap_slot_id

LEMMA QuietPages ==
  ASSUME Placed, Kept, UNCHANGED kind, NEW g \in Pages, QuietPage(g)
  PROVE  /\ KindOK(g)' /\ CopyOK(g)' /\ Locate(g)' = Locate(g)
         /\ HasSlot(g)' => HasSlot(g)
<1>1. KindOK(g) /\ CopyOK(g) /\ SlotOK(g) /\ SameEntry(g) /\ (Present(g)' <=> Present(g))
  BY DEF Kept, QuietPage, Present
<1>2. KindOK(g)'
  BY <1>1 DEF KindOK, QuietPage, SameEntry
<1>3. HasSlot(g)' => HasSlot(g)
  BY <1>1 DEF HasSlot, QuietPage, SameEntry
<1>4. /\ Present(g)' /\ spte'[g].spage_type # "SWAP" /\ Dropping(g)' =>
           content'[pte'[g].frame] = file'[g]
  <2>1. Dropping(g)' => Dropping(g)
    BY DEF Dropping, QuietPage
  <2> QED
    BY <1>1, <2>1 DEF CopyOK, QuietPage, SameEntry
<1>5. Leaving(g)' /\ spte'[g].spage_type = "SWAP" =>
        content'[pte'[g].frame] = swap'[spte'[g].swap_slot_id].data
  <2> SUFFICES ASSUME Leaving(g)', spte'[g].spage_type = "SWAP"
               PROVE  content'[pte'[g].frame] = swap'[spte'[g].swap_slot_id].data
    OBVIOUS
  <2>1. Leaving(g) /\ spte[g].spage_type = "SWAP" /\ HasSlot(g)
    BY <1>1 DEF QuietPage, SameEntry, HasSlot
  <2>2. Present(g)
    BY <2>1, VictimFacts DEF Leaving, Chosen
  <2> QED
    BY <1>1, <2>1, <2>2 DEF CopyOK, QuietPage, SameEntry
<1>6. Locate(g)' = Locate(g)
  <2>1. g \in InSwap => HasSlot(g)
    BY DEF InSwap, HasSlot
  <2>2. g \in InSwap' <=> g \in InSwap
    BY <1>1 DEF InSwap, SameEntry
  <2> QED
    BY <1>1, <2>1, <2>2 DEF Locate, QuietPage, SameEntry, Present
<1> QED
  BY <1>2, <1>3, <1>4, <1>5, <1>6 DEF CopyOK

(* A step of process p that leaves most pages alone. *)
LEMMA KeptStep ==
  ASSUME Placed, Kept, UNCHANGED kind, NEW p \in Procs, DataTypes', SavedOK(p)',
         \A q \in Procs \ {p} : SameProcess(q),
         \A q \in Procs \ {p} : pc[q] \in Chosen => SameEntry(victim[q]),
         \A g \in Pages : QuietPage(g) \/ Rebuilt(g)
  PROVE  Kept'
<1>1. ASSUME NEW q \in Procs \ {p} PROVE SavedOK(q)'
  <2>1. SavedOK(q) /\ SameProcess(q)
    BY DEF Kept
  <2>2. pc[q] \in {"write_back", "swap_out"} =>
          spte'[victim[q]].spage_type = spte[victim[q]].spage_type
    BY DEF Chosen, SameEntry
  <2> QED
    BY <2>1, <2>2 DEF SavedOK, SameProcess
<1>2. ASSUME NEW g \in Pages PROVE KindOK(g)' /\ CopyOK(g)'
  BY QuietPages DEF Rebuilt
<1>3. ASSUME NEW g \in Pages, QuietPage(g), HasSlot(g)'
      PROVE  /\ HasSlot(g) /\ spte[g].swap_slot_id \in Slots
             /\ spte'[g].swap_slot_id = spte[g].swap_slot_id
             /\ swap'[spte[g].swap_slot_id].used
             /\ \A h \in Pages :
                  HasSlot(h) /\ spte[h].swap_slot_id = spte[g].swap_slot_id => h = g
  <2>1. HasSlot(g) /\ SlotOK(g)
    BY <1>3, QuietPages DEF Kept
  <2> QED
    BY <1>3, <2>1 DEF SlotOK, QuietPage, SameEntry
<1>4. ASSUME NEW g \in Pages PROVE SlotOK(g)'
  <2> SUFFICES ASSUME HasSlot(g)'
               PROVE  /\ spte'[g].swap_slot_id \in Slots
                      /\ swap'[spte'[g].swap_slot_id].used
                      /\ \A h \in Pages : HasSlot(h)' /\
                           spte'[h].swap_slot_id = spte'[g].swap_slot_id => h = g
    BY DEF SlotOK
  <2>1. CASE Rebuilt(g)
    BY <2>1 DEF Rebuilt
  <2>2. CASE QuietPage(g)
    <3>1. ASSUME NEW h \in Pages, HasSlot(h)', spte'[h].swap_slot_id = spte'[g].swap_slot_id
          PROVE  h = g
      <4>1. CASE Rebuilt(h)
        BY <3>1, <4>1 DEF Rebuilt
      <4>2. CASE QuietPage(h)
        BY <1>3, <2>2, <3>1, <4>2
      <4> QED
        BY <4>1, <4>2
    <3> QED
      BY <1>3, <2>2, <3>1
  <2> QED
    BY <2>1, <2>2
<1> QED
  BY <1>1, <1>2, <1>4 DEF Kept

(* Which pages become leaving, or about to be freed, is up to the process. *)
LEMMA Turns ==
  ASSUME NEW p \in Procs, \A q \in Procs \ {p} : SameProcess(q), NEW g \in Pages
  PROVE  /\ Leaving(g)' => Leaving(g) \/ (pc'[p] = "unlink" /\ victim'[p] = g)
         /\ Freeing(g)' => \/ Freeing(g)
                           \/ pc'[p] = "unmap_free" /\ upage'[p] = g /\ Owner[g] = p
<1>1. Leaving(g)' => Leaving(g) \/ (pc'[p] = "unlink" /\ victim'[p] = g)
  <2> SUFFICES ASSUME NEW q \in Procs, pc'[q] = "unlink", victim'[q] = g
               PROVE  Leaving(g) \/ (pc'[p] = "unlink" /\ victim'[p] = g)
    BY DEF Leaving
  <2> QED
    BY DEF Leaving, SameProcess
<1> QED
  BY <1>1, Distinct DEF Freeing, SameProcess

LEMMA OneFrame ==
  ASSUME Placed, NEW g \in Pages, NEW h \in Pages, Present(g), Present(h),
         pte[g].frame = pte[h].frame
  PROVE  g = h
  BY DEF Placed, PageOK

-----------------------------------------------------------------------------
(* Steps of PagedMemory. *)
LEMMA MemoryStays ==
  ASSUME Sound, Sound', UNCHANGED kind,
         \A g \in Pages : /\ spte'[g].mapped = spte[g].mapped /\ stored'[g] = stored[g]
                          /\ Locate(g)' = Locate(g)
  PROVE  Memory!Enter
  BY DEF Memory!Enter, Located, Entered, Broken

LEMMA MemoryLeaves ==
  ASSUME Sound, Sound', UNCHANGED kind, NEW g \in Pages,
         spte[g].mapped, spte'[g].mapped = FALSE,
         \A h \in Pages \ {g} : /\ spte'[h].mapped = spte[h].mapped
                                /\ stored'[h] = stored[h] /\ Locate(h)' = Locate(h),
         kind[g] = "MMAP" => Locate(g)' = Locate(g)
  PROVE  Memory!Leave(g)
<1>1. Entered[g] /\ Entered' = [Entered EXCEPT ![g] = FALSE]
  <2>1. \A h \in Pages : Entered'[h] = IF h = g THEN FALSE ELSE Entered[h]
    BY DEF Entered
  <2> QED
    BY <2>1 DEF Entered
<1> QED
  BY <1>1 DEF Memory!Leave, Located, Shared, Broken

LEMMA MemoryWrites ==
  ASSUME Sound, Sound', UNCHANGED kind, NEW g \in Pages, NEW v \in Values, spte[g].mapped,
         \A h \in Pages : spte'[h].mapped = spte[h].mapped,
         stored' = [stored EXCEPT ![g] = v], Locate(g)' = v,
         \A h \in Pages \ {g} : Locate(h)' = Locate(h)
  PROVE  Memory!Write(g)
<1>1. Located' = [Located EXCEPT ![g] = v]
  <2>1. \A h \in Pages : Located'[h] = IF h = g THEN v ELSE Located[h]
    BY DEF Located
  <2> QED
    BY <2>1 DEF Located
<1>2. Entered[g] /\ UNCHANGED Entered
  BY DEF Entered
<1> QED
  BY <1>1, <1>2 DEF Memory!Write, Broken

(***************************************************************************)
(* Steps that only move a process on, pin pages or list frames.            *)
(***************************************************************************)
LEMMA QuietKept ==
  ASSUME Placed, Kept, Sound, Sound', NEW p \in Procs,
         UNCHANGED <<kind, pte, content, swap, file, stored>>,
         \A g \in Pages : SameEntry(g),
         \A q \in Procs \ {p} : SameProcess(q), SavedOK(p)',
         pc'[p] = "unlink" => /\ ~pte[victim'[p]].dirty
                              /\ spte[victim'[p]].spage_type # "SWAP",
         pc'[p] = "unmap_free" => ~pte[upage'[p]].dirty \/ kind[upage'[p]] # "MMAP"
  PROVE  Kept' /\ Memory!Enter
<1>1. \A g \in Pages : QuietPage(g)
  BY Turns DEF QuietPage
<1>2. DataTypes'
  BY DEF Kept, DataTypes
<1>3. \A q \in Procs \ {p} : pc[q] \in Chosen => SameEntry(victim[q])
  BY VictimFacts
<1>4. Kept'
  BY <1>1, <1>2, <1>3, KeptStep
<1>5. \A g \in Pages : spte'[g].mapped = spte[g].mapped /\ Locate(g)' = Locate(g)
  BY <1>1, QuietPages DEF SameEntry
<1> QED
  BY <1>4, <1>5, MemoryStays

LEMMA FaultKept ==
  ASSUME Placed, Kept, Sound, Sound', NEW p \in Procs, NEW g \in Pages,
         Fault(p, g) \/ Syscall(p, g)
  PROVE  Kept' /\ Memory!Enter
<1>1. /\ UNCHANGED <<kind, victim, pte, content, swap, file, stored>>
      /\ spte' = [spte EXCEPT ![g].inevictable = TRUE]
      /\ pc' = [pc EXCEPT ![p] = "alloc"] \/ pc' = [pc EXCEPT ![p] = "io"]
      /\ \A q \in Procs \ {p} : SameProcess(q)
  BY DEF Fault, Syscall, From, Pin, Bring, Goto, memory, SameProcess, Placed, ProcessTypes
<1>2. \A h \in Pages : SameEntry(h)
  BY <1>1, PinFacts, PlacedTypes DEF SameEntry
<1>3. pc'[p] \in {"alloc", "io"}
  BY <1>1 DEF Placed, ProcessTypes
<1>4. SavedOK(p)'
  BY <1>3 DEF SavedOK
<1> QED
  BY <1>1, <1>2, <1>3, <1>4, QuietKept

LEMMA MovesOnKept ==
  ASSUME Placed, Kept, Sound, Sound', NEW p \in Procs,
         Transfer(p) \/ Exit(p) \/ Exited(p) \/ FrameAlloc(p)
  PROVE  Kept' /\ Memory!Enter
<1>1. /\ UNCHANGED <<kind, upage, resume, victim, spte, pte, content, swap, file, stored>>
      /\ frame' = frame \/ \E f \in Frames : frame' = [frame EXCEPT ![p] = f]
  BY DEF Transfer, Exit, Exited, FrameAlloc, From, memory, tables
<1>2. PICK place \in {"io_locked", "exit", "gone", "fill", "evict"} :
        pc' = [pc EXCEPT ![p] = place]
  BY DEF Transfer, Exit, Exited, FrameAlloc, Goto
<1>3. pc'[p] = place /\ \A q \in Procs \ {p} : SameProcess(q)
  BY <1>1, <1>2 DEF Placed, ProcessTypes, SameProcess
<1>4. \A g \in Pages : SameEntry(g)
  BY <1>1 DEF SameEntry
<1>5. SavedOK(p)'
  BY <1>3 DEF SavedOK
<1> QED
  BY <1>1, <1>3, <1>4, <1>5, QuietKept

LEMMA PanicKept ==
  ASSUME Placed, Kept, Sound, Sound', UNCHANGED <<kind, process, tables, memory, swap, file, stored>>
  PROVE  Kept' /\ Memory!Enter
<1>1. UNCHANGED <<pc, upage, resume, frame, victim, kind, spte, pte, content, swap, file, stored>>
  BY DEF process, tables, memory
<1>2. Kept'
  BY <1>1 DEF Kept, DataTypes, SavedOK, SlotOK, KindOK, CopyOK, HasSlot, Leaving, Dropping,
              Freeing, Present
<1>3. \A g \in Pages : Locate(g)' = Locate(g)
  BY <1>1 DEF Locate, InSwap, Present
<1> QED
  BY <1>1, <1>2, <1>3, MemoryStays

(* A page is dropped without a copy only if it is clean and has a file.    *)
LEMMA ChooseKept ==
  ASSUME Placed, Kept, Sound, Sound', NEW p \in Procs, NEW f \in Frames, Choose(p, f)
  PROVE  Kept' /\ Memory!Enter
<1> DEFINE g == frame_list[f]
           place == IF pte[g].dirty THEN Saved(g) ELSE "unlink"
<1>1. /\ victim' = [victim EXCEPT ![p] = g] /\ pc' = [pc EXCEPT ![p] = place]
      /\ UNCHANGED <<kind, upage, resume, frame, spte, pte, content, swap, file, stored>>
      /\ ~pte[g].dirty => spte[g].spage_type # "SWAP"
  BY DEF Choose, From, Goto, Sound, tables, memory
<1>2. g \in Pages
  BY DEF Choose, From, Placed, VictimOK, Evictors, TableTypes
<1>3. pc'[p] = place /\ victim'[p] = g /\ \A q \in Procs \ {p} : SameProcess(q)
  BY <1>1, <1>2 DEF Placed, ProcessTypes, SameProcess
<1>4. \A h \in Pages : SameEntry(h)
  BY <1>1 DEF SameEntry
<1>5. place \in Chosen /\ (place = "unlink" <=> ~pte[g].dirty)
  BY <1>2 DEF Saved, Chosen
<1>6. SavedOK(p)'
  BY <1>1, <1>3 DEF SavedOK, Saved
<1> QED
  BY <1>1, <1>3, <1>4, <1>5, <1>6, QuietKept DEF Chosen

(* munmap() and exit(): the page is to be freed, or leaves at once. *)
LEMMA RemoveKept ==
  ASSUME Placed, Kept, Sound, Sound', NEW p \in Procs, NEW g \in Pages, NEW after \in {"user", "exit"},
         pc[p] = after, Owner[g] = p, UNCHANGED kind, Remove(p, g, after)
  PROVE  Kept' /\ (Memory!Enter \/ Memory!Leave(g))
<1>1. spte[g].mapped /\ UNCHANGED <<kind, victim, pte, content, swap, file>>
  BY DEF Remove, memory
<1>2. CASE spte[g].in_memory
  <2>1. /\ upage' = [upage EXCEPT ![p] = g] /\ resume' = [resume EXCEPT ![p] = after]
        /\ spte' = [spte EXCEPT ![g].inevictable = @ \/ kind[g] = "MMAP"]
        /\ UNCHANGED stored
        /\ \/ pc' = [pc EXCEPT ![p] = "unmap_write"] /\ UNCHANGED frame
           \/ /\ pc' = [pc EXCEPT ![p] = "unmap_free"] /\ frame' = [frame EXCEPT ![p] = pte[g].frame]
              /\ ~pte[g].dirty \/ kind[g] # "MMAP"
    BY <1>2 DEF Remove, Goto, Placed, TableTypes
  <2>2. /\ upage'[p] = g /\ \A q \in Procs \ {p} : SameProcess(q)
        /\ \/ pc'[p] = "unmap_write"
           \/ pc'[p] = "unmap_free" /\ (~pte[g].dirty \/ kind[g] # "MMAP")
    BY <1>1, <2>1 DEF Placed, ProcessTypes, SameProcess
  <2>3. \A h \in Pages : SameEntry(h)
    <3>1. PICK b \in BOOLEAN : spte' = [spte EXCEPT ![g].inevictable = b]
      <4>1. spte' = [spte EXCEPT ![g].inevictable = (spte[g].inevictable \/ kind[g] = "MMAP")]
        BY <2>1
      <4>2. (spte[g].inevictable \/ kind[g] = "MMAP") \in BOOLEAN
        OBVIOUS
      <4> QED
        BY <4>1, <4>2
    <3> QED
      BY <3>1, PinFacts, PlacedTypes DEF SameEntry
  <2>4. SavedOK(p)'
    BY <2>2 DEF SavedOK
  <2> QED
    BY <1>1, <2>1, <2>2, <2>3, <2>4, QuietKept
<1>3. CASE ~spte[g].in_memory
  <2>1. /\ UNCHANGED <<pc, upage, resume, frame>> /\ spte' = [spte EXCEPT ![g] = Absent]
        /\ stored' = [stored EXCEPT ![g] = Junk]
    BY <1>3 DEF Remove
  <2>2. \A q \in Procs : SameProcess(q)
    BY <1>1, <2>1 DEF SameProcess
  <2>3. \A h \in Pages : /\ spte'[h] = IF h = g THEN Absent ELSE spte[h]
                         /\ stored'[h] = IF h = g THEN Junk ELSE stored[h]
    BY <2>1 DEF Placed, TableTypes, Kept, DataTypes
  <2>4. DataTypes'
    BY <1>1, <2>1 DEF Kept, DataTypes
  <2>5. \A h \in Pages \ {g} : QuietPage(h)
    BY <1>1, <2>1, <2>3 DEF QuietPage, SameEntry, Leaving, Freeing
  <2>6. \A q \in Procs : pc[q] \in Chosen => victim[q] \in Pages \ {g}
    BY <1>3, VictimFacts
  <2>7. /\ ~Present(g) /\ ~Present(g)' /\ ~Leaving(g)'
        /\ ~spte'[g].mapped /\ ~spte'[g].in_memory /\ spte'[g].spage_type = "ERROR"
    <3>1. ~Present(g)
      BY <1>3 DEF Placed, PageOK
    <3>2. ~Leaving(g)'
      BY <1>1, <2>1, <2>6 DEF Leaving, Chosen
    <3> QED
      BY <1>1, <2>3, <3>1, <3>2 DEF Absent, Present
  <2>8. Rebuilt(g)
    BY <2>3, <2>7 DEF Rebuilt, KindOK, CopyOK, HasSlot
  <2>9. SavedOK(p)'
    <3>1. SavedOK(p)
      BY DEF Kept
    <3> QED
      BY <1>1, <2>1, <2>3, <2>6, <3>1 DEF SavedOK, Chosen
  <2>10. Kept'
    BY <1>1, <2>2, <2>4, <2>5, <2>6, <2>8, <2>9, KeptStep DEF QuietPage
  <2>11. \A h \in Pages \ {g} : Locate(h)' = Locate(h) /\ stored'[h] = stored[h]
    BY <1>1, <2>5, QuietPages DEF QuietPage
  <2>12. kind[g] = "MMAP" => Locate(g)' = Locate(g)
    <3>1. kind[g] = "MMAP" => g \notin InSwap /\ g \notin InSwap'
      BY <1>1, <2>7 DEF Kept, KindOK, InSwap
    <3> QED
      BY <1>1, <2>7, <3>1 DEF Locate
  <2>13. spte'[g].mapped = FALSE /\ \A h \in Pages \ {g} : spte'[h].mapped = spte[h].mapped
    BY <2>3 DEF Absent
  <2> QED
    BY <1>1, <2>10, <2>11, <2>12, <2>13, MemoryLeaves
<1> QED
  BY <1>2, <1>3

(***************************************************************************)
(* A write reaches one frame and makes the page dirty, so that it is not   *)
(* dropped; it is not lost if no copy has been taken.                      *)
(***************************************************************************)
LEMMA StoreKept ==
  ASSUME Placed, Kept, Sound, Sound', NEW p \in Procs, NEW g \in Pages, NEW v \in Values,
         Owner[g] = p, Present(g), ~Evicting(g, {"unlink"}), Store(g, v),
         UNCHANGED <<kind, swap, file>>, \A h \in Pages : SameEntry(h),
         \A q \in Procs \ {p} : SameProcess(q), pc'[p] = "user"
  PROVE  Kept' /\ Memory!Write(g)
<1>1. /\ content' = [content EXCEPT ![pte[g].frame] = v]
      /\ pte' = [pte EXCEPT ![g].dirty = TRUE] /\ stored' = [stored EXCEPT ![g] = v]
  BY DEF Store
<1>2. /\ pte[g].frame \in Frames /\ spte[g].in_memory /\ spte[g].mapped
  BY DEF Placed, PageOK, Present, TableTypes
<1>3. \A h \in Pages : /\ pte'[h].frame = pte[h].frame
                       /\ pte'[h].dirty = IF h = g THEN TRUE ELSE pte[h].dirty
  BY <1>1, DirtyFacts, PlacedTypes
<1>4. \A h \in Pages \ {g} : pte'[h] = pte[h] /\ stored'[h] = stored[h]
  BY <1>1 DEF Placed, TableTypes, Kept, DataTypes
<1>5. \A f \in Frames : content'[f] = IF f = pte[g].frame THEN v ELSE content[f]
  BY <1>1 DEF Kept, DataTypes
<1>6. \A h \in Pages \ {g} : QuietPage(h)
  <2> SUFFICES ASSUME NEW h \in Pages \ {g} PROVE QuietPage(h)
    OBVIOUS
  <2>1. Present(h) => content'[pte[h].frame] = content[pte[h].frame]
    BY <1>5, OneFrame DEF Present, Placed, TableTypes
  <2>2. (Leaving(h)' => Leaving(h)) /\ (Freeing(h)' => Freeing(h))
    BY Turns
  <2> QED
    BY <1>4, <2>1, <2>2 DEF QuietPage
<1>7. ~Leaving(g)' /\ ~Freeing(g)'
  <2>1. ~Leaving(g)
    BY DEF Evicting, Leaving
  <2>2. ~Leaving(g)'
    BY <2>1, Turns
  <2>3. ~Freeing(g)'
    BY DEF Freeing
  <2> QED
    BY <2>2, <2>3
<1>8. /\ spte'[g].in_memory /\ spte'[g].mapped /\ Present(g)'
      /\ spte'[g].spage_type = spte[g].spage_type
  BY <1>2, <1>3 DEF SameEntry, Present
<1>9. Rebuilt(g)
  <2>1. KindOK(g)'
    BY <1>2, <1>8 DEF Kept, KindOK
  <2>2. CopyOK(g)'
    BY <1>3, <1>7 DEF CopyOK, Dropping
  <2> QED
    BY <1>7, <1>8, <2>1, <2>2 DEF Rebuilt, HasSlot
<1>10. DataTypes'
  BY <1>1 DEF Kept, DataTypes
<1>11. SavedOK(p)'
  BY DEF SavedOK
<1>12. \A q \in Procs \ {p} : pc[q] \in Chosen => SameEntry(victim[q])
  BY VictimFacts
<1>13. Kept'
  BY <1>6, <1>9, <1>10, <1>11, <1>12, KeptStep
<1>14. Locate(g)' = v
  BY <1>2, <1>3, <1>5, <1>8 DEF Locate, Present
<1>15. \A h \in Pages \ {g} : Locate(h)' = Locate(h)
  BY <1>6, QuietPages
<1>16. Memory!Write(g)
  BY <1>1, <1>2, <1>14, <1>15, MemoryWrites DEF SameEntry
<1> QED
  BY <1>13, <1>16

LEMMA WritesKept ==
  ASSUME Placed, Kept, Sound, Sound', NEW p \in Procs,
         \/ Loaded(p) \/ Transferred(p)
         \/ \E g \in Pages, v \in Values : Write(p, g, v)
  PROVE  Kept' /\ (Memory!Enter \/ \E g \in Pages : Memory!Write(g))
<1>1. CASE Loaded(p)
  <2>1. /\ pc[p] = "loaded" /\ UNCHANGED <<kind, spte, swap, file>>
        /\ \E v \in Values : Store(upage[p], v)
    BY <1>1 DEF Loaded, From
  <2>2. pc'[p] = "user" /\ \A q \in Procs \ {p} : SameProcess(q)
    BY <1>1 DEF Loaded, Resume, Goto, Placed, ProcessTypes, SameProcess
  <2>3. upage[p] \in Pages /\ Owner[upage[p]] = p /\ Present(upage[p])
    BY <2>1 DEF Placed, WorkOK, Idle, InUse
  <2>4. ~Evicting(upage[p], {"unlink"})
    BY <2>1, VictimFacts DEF Evicting, Chosen, Idle
  <2>5. \A h \in Pages : SameEntry(h)
    BY <2>1 DEF SameEntry
  <2> QED
    BY <2>1, <2>2, <2>3, <2>4, <2>5, StoreKept
<1>2. CASE Transferred(p)
  <2>1. /\ pc[p] = "io_locked" /\ UNCHANGED <<kind, victim, swap, file>>
        /\ UNCHANGED <<content, pte, stored>> \/ \E v \in Values : Store(upage[p], v)
        /\ spte' = [spte EXCEPT ![upage[p]].inevictable = FALSE]
    BY <1>2 DEF Transferred, From
  <2>2. pc'[p] = "user" /\ \A q \in Procs \ {p} : SameProcess(q)
    BY <1>2 DEF Transferred, Resume, Goto, Placed, ProcessTypes, SameProcess
  <2>3. upage[p] \in Pages /\ Owner[upage[p]] = p /\ Present(upage[p])
    BY <2>1 DEF Placed, WorkOK, Idle, InUse
  <2>4. ~Evicting(upage[p], {"unlink"})
    BY <2>1, VictimFacts DEF Evicting, Chosen, Idle
  <2>5. \A h \in Pages : SameEntry(h)
    BY <2>1, <2>3, PinFacts, PlacedTypes DEF SameEntry
  <2>6. CASE UNCHANGED <<content, pte, stored>>
    BY <2>1, <2>2, <2>5, <2>6, QuietKept DEF SavedOK
  <2>7. CASE \E v \in Values : Store(upage[p], v)
    BY <2>1, <2>2, <2>3, <2>4, <2>5, <2>7, StoreKept
  <2> QED
    BY <2>1, <2>6, <2>7
<1>3. CASE \E g \in Pages, v \in Values : Write(p, g, v)
  <2>1. PICK g \in Pages, v \in Values : Write(p, g, v)
    BY <1>3
  <2>2. /\ pc[p] = "user" /\ Owner[g] = p /\ Present(g) /\ Store(g, v)
        /\ UNCHANGED <<kind, process, spte, swap, file>>
        /\ ~Evicting(g, {"unlink"})
    BY <2>1 DEF Write, From, Torn, Sound
  <2>3. pc'[p] = "user" /\ \A q \in Procs : SameProcess(q)
    BY <2>2 DEF process, SameProcess
  <2>4. \A h \in Pages : SameEntry(h)
    BY <2>2 DEF SameEntry
  <2> QED
    BY <2>2, <2>3, <2>4, StoreKept
<1> QED
  BY <1>1, <1>2, <1>3

(* The pages that load(), the stack and mmap() enter hold junk or a file.  *)
Fresh(p, g) ==
  /\ Owner[g] = p /\ ~spte[g].mapped /\ spte'[g].mapped
  /\ spte'[g].spage_type = kind[g] /\ kind[g] \in {"FILE", "MMAP", "SWAP"}
  /\ spte'[g].in_memory <=> kind[g] = "SWAP"
  /\ stored'[g] = IF kind[g] = "SWAP" THEN Junk ELSE file[g]

LEMMA FreshKept ==
  ASSUME Placed, Kept, Sound, Sound', NEW p \in Procs, DataTypes',
         UNCHANGED <<kind, victim, pte, content, swap, file>>,
         pc[p] \in {"new", "user"}, pc'[p] \in {"alloc", "user"},
         \A q \in Procs \ {p} : SameProcess(q),
         \A g \in Pages : (SameEntry(g) /\ stored'[g] = stored[g]) \/ Fresh(p, g)
  PROVE  Kept' /\ Memory!Enter
<1>1. ASSUME NEW g \in Pages PROVE (Leaving(g)' => Leaving(g)) /\ (Freeing(g)' => Freeing(g))
  BY Turns
<1>2. ASSUME NEW g \in Pages, SameEntry(g), stored'[g] = stored[g] PROVE QuietPage(g)
  BY <1>1, <1>2 DEF QuietPage
<1>3. ASSUME NEW g \in Pages, Fresh(p, g)
      PROVE  /\ Rebuilt(g) /\ Locate(g)' = Locate(g) /\ stored'[g] = Locate(g)
  <2>1. /\ ~Present(g) /\ ~Present(g)' /\ spte[g].spage_type = "ERROR"
        /\ \A q \in Procs : pc[q] \in Chosen => victim[q] # g
    BY <1>3, VictimFacts DEF Fresh, Placed, PageOK, Kept, KindOK, Present
  <2>2. ~Leaving(g)'
    BY <1>1, <2>1 DEF Leaving, Chosen
  <2>3. KindOK(g)' /\ CopyOK(g)' /\ ~HasSlot(g)'
    BY <1>3, <2>1, <2>2 DEF KindOK, CopyOK, HasSlot, Fresh
  <2>4. g \notin InSwap /\ g \notin InSwap'
    BY <1>3, <2>1 DEF InSwap, Fresh
  <2> QED
    BY <1>3, <2>1, <2>3, <2>4 DEF Rebuilt, Locate, Fresh
<1>4. \A q \in Procs \ {p} : pc[q] \in Chosen => SameEntry(victim[q])
  BY VictimFacts DEF Fresh
<1>5. Kept'
  BY <1>2, <1>3, <1>4, KeptStep DEF SavedOK
<1>6. Memory!Enter
  <2>1. \A g \in Pages : Locate(g)' = Locate(g)
    BY <1>2, <1>3, QuietPages
  <2>2. \A g \in Pages :
          /\ spte[g].mapped => spte'[g].mapped
          /\ stored'[g] = IF ~spte[g].mapped /\ spte'[g].mapped THEN Locate(g) ELSE stored[g]
    BY <1>3 DEF Fresh, SameEntry
  <2> QED
    BY <2>1, <2>2 DEF Memory!Enter, Located, Entered, Broken
<1> QED
  BY <1>5, <1>6

LEMMA EnterKept ==
  ASSUME Placed, Kept, Sound, Sound', NEW p \in Procs, NEW g \in Pages,
         \/ Load(p, g) \/ Mmap(p, g)
         \/ \E after \in {"user", "io"} : GrowStack(p, g, after)
  PROVE  Kept' /\ Memory!Enter
<1>1. /\ UNCHANGED <<kind, victim, pte, content, swap, file>> /\ Owner[g] = p /\ ~spte[g].mapped
      /\ pc[p] \in {"new", "user"}
  BY DEF Load, Mmap, GrowStack, From, MayGrow, Bring, memory, process
<1>2. pc'[p] \in {"alloc", "user"} /\ \A q \in Procs \ {p} : SameProcess(q)
  <2>1. CASE Mmap(p, g)
    BY <2>1 DEF Mmap, From, process, SameProcess
  <2>2. CASE ~Mmap(p, g)
    BY <2>2 DEF Load, GrowStack, Bring, Goto, Placed, ProcessTypes, SameProcess
  <2> QED
    BY <2>1, <2>2
<1>3. DataTypes'
  BY <1>1 DEF Load, Mmap, GrowStack, Kept, DataTypes
<1>4. pc[p] = "new" => \A h \in Pages : Owner[h] = p => ~spte[h].mapped
  BY DEF Placed, PageOK
<1>5. ~spte[g].mapped => stored[g] = Junk
  BY DEF Kept, KindOK
<1>6. NewStack.mapped /\ NewStack.in_memory /\ NewStack.spage_type = "SWAP"
  BY DEF NewStack
<1>7. ASSUME NEW h \in Pages
      PROVE  (SameEntry(h) /\ stored'[h] = stored[h]) \/ Fresh(p, h)
  <2>1. CASE Load(p, g)
    <3>1. /\ pc[p] = "new" /\ kind[g] = "SWAP"
          /\ spte'[h] = IF h = g THEN NewStack
                        ELSE IF Owner[h] = p /\ kind[h] = "FILE"
                             THEN [Absent EXCEPT !.mapped = TRUE, !.spage_type = "FILE"]
                             ELSE spte[h]
          /\ stored'[h] = IF Owner[h] = p /\ kind[h] = "FILE" THEN file[h] ELSE stored[h]
      BY <2>1 DEF Load, From, MayGrow
    <3>2. CASE h = g
      BY <1>1, <1>5, <1>6, <3>1, <3>2 DEF Fresh
    <3>3. CASE h # g /\ Owner[h] = p /\ kind[h] = "FILE"
      <4>1. spte'[h].mapped /\ spte'[h].spage_type = "FILE" /\ ~spte'[h].in_memory
        BY <3>1, <3>3 DEF Absent
      <4> QED
        BY <1>4, <3>1, <3>3, <4>1 DEF Fresh
    <3>4. CASE h # g /\ ~(Owner[h] = p /\ kind[h] = "FILE")
      BY <3>1, <3>4 DEF SameEntry
    <3> QED
      BY <3>2, <3>3, <3>4
  <2>2. CASE Mmap(p, g)
    <3>1. /\ kind[g] = "MMAP"
          /\ spte' = [spte EXCEPT ![g] = [Absent EXCEPT !.mapped = TRUE, !.spage_type = "MMAP"]]
          /\ stored' = [stored EXCEPT ![g] = file[g]]
      BY <2>2 DEF Mmap
    <3>2. /\ spte'[h] = IF h = g THEN [Absent EXCEPT !.mapped = TRUE, !.spage_type = "MMAP"]
                        ELSE spte[h]
          /\ stored'[h] = IF h = g THEN file[g] ELSE stored[h]
      BY <3>1 DEF Placed, TableTypes, Kept, DataTypes
    <3>3. CASE h = g
      <4>1. spte'[h].mapped /\ spte'[h].spage_type = "MMAP" /\ ~spte'[h].in_memory
        BY <3>2, <3>3 DEF Absent
      <4> QED
        BY <1>1, <3>1, <3>2, <3>3, <4>1 DEF Fresh
    <3>4. CASE h # g
      BY <3>2, <3>4 DEF SameEntry
    <3> QED
      BY <3>3, <3>4
  <2>3. CASE \E after \in {"user", "io"} : GrowStack(p, g, after)
    <3>1. /\ kind[g] = "SWAP" /\ UNCHANGED stored
          /\ spte'[h] = IF h = g THEN NewStack ELSE spte[h]
      BY <2>3 DEF GrowStack, MayGrow, Placed, TableTypes
    <3>2. CASE h = g
      BY <1>1, <1>5, <1>6, <3>1, <3>2 DEF Fresh
    <3>3. CASE h # g
      BY <3>1, <3>3 DEF SameEntry
    <3> QED
      BY <3>2, <3>3
  <2> QED
    BY <2>1, <2>2, <2>3
<1> QED
  BY <1>1, <1>2, <1>3, <1>7, FreshKept

(***************************************************************************)
(* Steps that copy, move or free one page.                                 *)
(***************************************************************************)
(* All a step of p does is done to page g. *)
LEMMA OnePageKept ==
  ASSUME Placed, Kept, Sound, Sound', UNCHANGED kind, NEW p \in Procs, NEW g \in Pages,
         DataTypes', SavedOK(p)', \A q \in Procs \ {p} : SameProcess(q),
         \A q \in Procs \ {p} : pc[q] \in Chosen => SameEntry(victim[q]),
         \A h \in Pages \ {g} : QuietPage(h), Rebuilt(g)
  PROVE  /\ Kept'
         /\ spte'[g].mapped = spte[g].mapped /\ stored'[g] = stored[g] /\ Locate(g)' = Locate(g) =>
              Memory!Enter
         /\ spte[g].mapped /\ spte'[g].mapped = FALSE /\ (kind[g] = "MMAP" => Locate(g)' = Locate(g)) =>
              Memory!Leave(g)
<1>1. Kept'
  BY KeptStep
<1>2. \A h \in Pages \ {g} : /\ spte'[h].mapped = spte[h].mapped
                             /\ stored'[h] = stored[h] /\ Locate(h)' = Locate(h)
  BY QuietPages DEF QuietPage, SameEntry
<1>3. spte'[g].mapped = spte[g].mapped /\ stored'[g] = stored[g] /\ Locate(g)' = Locate(g) =>
        Memory!Enter
  <2>1. ASSUME spte'[g].mapped = spte[g].mapped, stored'[g] = stored[g], Locate(g)' = Locate(g)
        PROVE  Memory!Enter
    BY <1>2, <2>1, MemoryStays
  <2> QED
    BY <2>1
<1>4. spte[g].mapped /\ spte'[g].mapped = FALSE /\ (kind[g] = "MMAP" => Locate(g)' = Locate(g)) =>
        Memory!Leave(g)
  <2>1. ASSUME spte[g].mapped, spte'[g].mapped = FALSE, kind[g] = "MMAP" => Locate(g)' = Locate(g)
        PROVE  Memory!Leave(g)
    BY <1>2, <2>1, MemoryLeaves
  <2> QED
    BY <2>1
<1> QED
  BY <1>1, <1>3, <1>4

LEMMA WriteBackKept ==
  ASSUME Placed, Kept, Sound, Sound', NEW p \in Procs, WriteBack(p)
  PROVE  Kept' /\ Memory!Enter
<1>0. PICK g \in Pages : g = victim[p]
  <2>1. pc[p] \in Chosen
    BY DEF WriteBack, From, Chosen
  <2> QED
    BY <2>1, VictimFacts
<1>1. CASE Panics(p, lock_f)
  BY <1>1, PanicKept DEF Panics, WriteBack, From
<1>2. CASE ~Panics(p, lock_f)
  <2>1. /\ pc[p] = "write_back" /\ pc' = [pc EXCEPT ![p] = "unlink"]
        /\ file' = [file EXCEPT ![g] = content[pte[g].frame]]
        /\ UNCHANGED <<kind, upage, resume, frame, victim, spte, pte, content, swap, stored>>
    BY <1>0, <1>2 DEF WriteBack, From, Goto, tables, memory
  <2>2. g \in Pages /\ Present(g) /\ pte[g].frame \in Frames /\ spte[g].in_memory
    BY <1>0, <2>1, VictimFacts DEF Chosen
  <2>3. spte[g].spage_type = "MMAP"
    BY <1>0, <2>1 DEF Kept, SavedOK
  <2>4. pc'[p] = "unlink" /\ \A q \in Procs \ {p} : SameProcess(q)
    BY <2>1 DEF Placed, ProcessTypes, SameProcess
  <2>5. \A h \in Pages : file'[h] = IF h = g THEN content[pte[g].frame] ELSE file[h]
    BY <2>1 DEF Kept, DataTypes
  <2>6. DataTypes'
    BY <2>1, <2>2 DEF Kept, DataTypes
  <2>7. \A h \in Pages \ {g} : QuietPage(h)
    <3> SUFFICES ASSUME NEW h \in Pages \ {g} PROVE QuietPage(h)
      OBVIOUS
    <3>1. (Leaving(h)' => Leaving(h)) /\ (Freeing(h)' => Freeing(h))
      BY <1>0, <2>1, <2>4, Turns
    <3> QED
      BY <2>1, <2>5, <3>1 DEF QuietPage, SameEntry
  <2>8. Rebuilt(g)
    <3>1. KindOK(g)'
      BY <2>1 DEF Kept, KindOK, Present
    <3>2. CopyOK(g)' /\ ~HasSlot(g)'
      BY <2>1, <2>2, <2>3, <2>5 DEF CopyOK, HasSlot
    <3> QED
      BY <3>1, <3>2 DEF Rebuilt
  <2>9. Locate(g)' = Locate(g)
    BY <2>1, <2>2 DEF Locate, Present
  <2>10. SavedOK(p)'
    BY <2>4 DEF SavedOK
  <2>11. \A q \in Procs \ {p} : pc[q] \in Chosen => SameEntry(victim[q])
    BY <2>1 DEF SameEntry
  <2> QED
    BY <2>1, <2>2, <2>4, <2>6, <2>7, <2>8, <2>9, <2>10, <2>11, OnePageKept
<1> QED
  BY <1>1, <1>2

LEMMA SwapOutKept ==
  ASSUME Placed, Kept, Sound, Sound', NEW p \in Procs, SwapOut(p)
  PROVE  Kept' /\ Memory!Enter
<1>0. PICK g \in Pages : g = victim[p]
  <2>1. pc[p] \in Chosen
    BY DEF SwapOut, From, Chosen
  <2> QED
    BY <2>1, VictimFacts
<1>1. CASE UNCHANGED <<process, tables, memory, swap, file, stored>>
  BY <1>1, PanicKept DEF SwapOut, From
<1>2. CASE ~UNCHANGED <<process, tables, memory, swap, file, stored>>
  <2>1. PICK s \in Slots :
          /\ ~swap[s].used /\ swap' = [swap EXCEPT ![s] = UsedSlot(content[pte[g].frame])]
          /\ spte' = [spte EXCEPT ![g].spage_type = "SWAP", ![g].swap_slot_id = s]
    BY <1>0, <1>2 DEF SwapOut, Panics, FirstFree
  <2>2. /\ pc[p] = "swap_out" /\ pc' = [pc EXCEPT ![p] = "unlink"]
        /\ UNCHANGED <<kind, upage, resume, frame, victim, pte, content, file, stored>>
    BY <1>0, <1>2 DEF SwapOut, Panics, From, Goto, memory
  <2>3. /\ g \in Pages /\ Present(g) /\ pte[g].frame \in Frames /\ spte[g].in_memory
        /\ spte[g].mapped /\ frame_lock = p
    BY <1>0, <2>2, VictimFacts DEF Chosen
  <2>4. spte[g].spage_type # "MMAP" /\ KindOK(g)
    BY <1>0, <2>2, <2>3 DEF Kept, SavedOK
  <2>5. pc'[p] = "unlink" /\ \A q \in Procs \ {p} : SameProcess(q)
    BY <2>2 DEF Placed, ProcessTypes, SameProcess
  <2>6. \A h \in Pages :
          /\ spte'[h].mapped = spte[h].mapped /\ spte'[h].in_memory = spte[h].in_memory
          /\ spte'[h].spage_type = IF h = g THEN "SWAP" ELSE spte[h].spage_type
          /\ spte'[h].swap_slot_id = IF h = g THEN s ELSE spte[h].swap_slot_id
    <3>1. /\ spte' \in [Pages -> Entries]
          /\ \A h \in Pages : /\ spte'[h].mapped = spte[h].mapped
                              /\ spte'[h].in_memory = spte[h].in_memory
                              /\ spte'[h].inevictable = spte[h].inevictable
                              /\ spte'[h].spage_type = IF h = g THEN "SWAP" ELSE spte[h].spage_type
                              /\ spte'[h].swap_slot_id = IF h = g THEN s ELSE spte[h].swap_slot_id
      BY <2>1, SwapOutFacts, PlacedTypes, ZenonT(30)
    <3> QED
      BY <3>1
  <2>7. content[pte[g].frame] \in Values \cup {Junk}
    BY <2>3 DEF Kept, DataTypes
  <2>8. /\ swap'[s].used /\ swap'[s].data = content[pte[g].frame]
        /\ \A t \in Slots : t # s => swap'[t] = swap[t]
    BY <2>1 DEF UsedSlot, Kept, DataTypes
  <2>9. DataTypes'
    BY <2>1, <2>2, <2>7 DEF Kept, DataTypes, UsedSlot
  <2>10. \A h \in Pages : HasSlot(h) => spte[h].swap_slot_id \in Slots /\ spte[h].swap_slot_id # s
    BY <2>1 DEF Kept, SlotOK
  <2>11. ASSUME NEW h \in Pages \ {g} PROVE QuietPage(h)
    <3>1. SameEntry(h)
      BY <2>6 DEF SameEntry
    <3>2. HasSlot(h) => swap'[spte[h].swap_slot_id] = swap[spte[h].swap_slot_id]
      BY <2>8, <2>10
    <3>3. (Leaving(h)' => Leaving(h)) /\ (Freeing(h)' => Freeing(h))
      BY <1>0, <2>2, <2>5, Turns
    <3> QED
      BY <2>2, <3>1, <3>2, <3>3 DEF QuietPage
  <2>12. Rebuilt(g)
    <3>1. KindOK(g)'
      BY <2>2, <2>3, <2>4, <2>6 DEF KindOK, Present
    <3>2. CopyOK(g)'
      BY <2>2, <2>6, <2>3, <2>8 DEF CopyOK
    <3>3. \A h \in Pages \ {g} : HasSlot(h)' => spte'[h].swap_slot_id # s
      BY <2>2, <2>6, <2>10, <2>11, QuietPages
    <3> QED
      BY <2>3, <2>6, <2>8, <3>1, <3>2, <3>3 DEF Rebuilt
  <2>13. Locate(g)' = Locate(g)
    BY <2>2, <2>3 DEF Locate, Present
  <2>14. SavedOK(p)'
    BY <2>5 DEF SavedOK
  <2>15. \A q \in Procs \ {p} : pc[q] \notin Chosen
    BY <2>3, Places_, Distinct DEF Placed, VictimOK
  <2> QED
    BY <2>2, <2>3, <2>5, <2>6, <2>9, <2>11, <2>12, <2>13, <2>14, <2>15, OnePageKept
<1> QED
  BY <1>1, <1>2

LEMMA UnlinkKept ==
  ASSUME Placed, Kept, Sound, Sound', NEW p \in Procs, Unlink(p)
  PROVE  Kept' /\ Memory!Enter
<1>0. PICK g \in Pages : g = victim[p]
  <2>1. pc[p] \in Chosen
    BY DEF Unlink, From, Chosen
  <2> QED
    BY <2>1, VictimFacts
<1>1. /\ pc[p] = "unlink" /\ pc' = [pc EXCEPT ![p] = "fill"]
      /\ victim' = [victim EXCEPT ![p] = NoPage]
      /\ spte' = [spte EXCEPT ![g].in_memory = FALSE]
      /\ pte' = [pte EXCEPT ![g] = NotPresent]
      /\ UNCHANGED <<kind, upage, resume, swap, file, stored>>
  BY <1>0 DEF Unlink, From, Goto
<1>2. /\ g \in Pages /\ Present(g) /\ pte[g].frame \in Frames /\ spte[g].in_memory
      /\ spte[g].mapped /\ frame_lock = p /\ Leaving(g)
  BY <1>0, <1>1, VictimFacts DEF Chosen, Leaving
<1>3. PICK f \in Frames : /\ frame_list[f] = g /\ content' = [content EXCEPT ![f] = Junk]
                          /\ frame' = [frame EXCEPT ![p] = f]
  BY <1>0 DEF Unlink
<1>4. pc'[p] = "fill" /\ \A q \in Procs \ {p} : SameProcess(q)
  BY <1>1, <1>3 DEF Placed, ProcessTypes, SameProcess
<1>5. \A q \in Procs \ {p} : pc[q] \notin Chosen
  BY <1>2, Places_, Distinct DEF Placed, VictimOK
<1>6. \A h \in Pages : ~Leaving(h)' /\ (Freeing(h)' => Freeing(h))
  <2>1. \A q \in Procs : pc'[q] # "unlink"
    BY <1>4, <1>5 DEF SameProcess, Chosen
  <2> QED
    BY <1>4, <2>1, Turns DEF Leaving
<1>7. \A h \in Pages :
        /\ spte'[h].mapped = spte[h].mapped /\ spte'[h].spage_type = spte[h].spage_type
        /\ spte'[h].swap_slot_id = spte[h].swap_slot_id
        /\ spte'[h].in_memory = IF h = g THEN FALSE ELSE spte[h].in_memory
        /\ pte'[h] = IF h = g THEN NotPresent ELSE pte[h]
  BY <1>1, <1>2, UnlinkFacts, PlacedTypes DEF Placed, TableTypes
<1>8. \A e \in Frames : e # f => content'[e] = content[e]
  BY <1>3 DEF Kept, DataTypes
<1>9. DataTypes'
  BY <1>1, <1>3 DEF Kept, DataTypes
<1>10. ASSUME NEW h \in Pages \ {g} PROVE QuietPage(h)
  <2>1. Present(h) => content'[pte[h].frame] = content[pte[h].frame]
    BY <1>3, <1>8 DEF Placed, PageOK, Present, TableTypes
  <2> QED
    BY <1>1, <1>6, <1>7, <2>1 DEF QuietPage, SameEntry
<1>11. KindOK(g) /\ CopyOK(g) /\ SlotOK(g)
  BY <1>2 DEF Kept
<1>12. ~Present(g)' /\ ~spte'[g].in_memory
  <2>1. pte'[g] = NotPresent
    BY <1>7
  <2>2. ~Present(g)'
    BY <2>1 DEF Present, NotPresent
  <2> QED
    BY <1>7, <2>2
<1>13. Rebuilt(g)
  <2>1. KindOK(g)' /\ CopyOK(g)'
    BY <1>1, <1>2, <1>6, <1>7, <1>11, <1>12 DEF KindOK, CopyOK
  <2>2. HasSlot(g)' => HasSlot(g)
    BY <1>2, <1>7 DEF HasSlot
  <2>3. \A h \in Pages \ {g} : HasSlot(h)' => HasSlot(h)
    BY <1>1, <1>10, QuietPages
  <2> QED
    BY <1>1, <1>2, <1>7, <1>11, <2>1, <2>2, <2>3 DEF Rebuilt, SlotOK
<1>14. Locate(g)' = Locate(g)
  <2>1. CASE spte[g].spage_type = "SWAP"
    <3>1. /\ content[pte[g].frame] = swap[spte[g].swap_slot_id].data
          /\ spte[g].swap_slot_id \in Slots
      BY <1>2, <1>11, <2>1 DEF CopyOK, SlotOK, HasSlot
    <3>2. g \in InSwap' /\ spte'[g].swap_slot_id # NoSlot
      BY <1>2, <1>7, <1>12, <2>1, <3>1 DEF InSwap, PagingAssumption
    <3> QED
      BY <1>1, <1>2, <1>7, <1>12, <3>1, <3>2 DEF Locate
  <2>2. CASE spte[g].spage_type # "SWAP"
    <3>1. content[pte[g].frame] = file[g] /\ kind[g] # "SWAP"
      BY <1>2, <1>11, <2>2 DEF CopyOK, KindOK, Dropping
    <3>2. g \notin InSwap'
      BY <1>2, <1>7, <2>2 DEF InSwap
    <3> QED
      BY <1>1, <1>2, <1>12, <3>1, <3>2 DEF Locate
  <2> QED
    BY <2>1, <2>2
<1>15. SavedOK(p)'
  BY <1>4 DEF SavedOK
<1> QED
  BY <1>1, <1>2, <1>4, <1>5, <1>7, <1>9, <1>10, <1>13, <1>14, <1>15, OnePageKept

(* The page comes into memory with what was kept for it. *)
LEMMA InstallKept ==
  ASSUME Placed, Kept, Sound, Sound', UNCHANGED <<kind, file>>, NEW p \in Procs, pc[p] = "fill",
         NEW dirty \in BOOLEAN, NEW value \in Values \cup {Junk}, NEW g \in Pages, g = upage[p],
         Install(p, dirty, value), value = Locate(g),
         swap' \in [Slots -> [used : BOOLEAN, data : Values \cup {Junk}]],
         \A h \in Pages \ {g} : HasSlot(h) =>
           swap'[spte[h].swap_slot_id] = swap[spte[h].swap_slot_id]
  PROVE  Kept' /\ Memory!Enter
<1>1. /\ \A h \in Pages :
           /\ spte'[h].mapped = spte[h].mapped /\ spte'[h].spage_type = spte[h].spage_type
           /\ spte'[h].swap_slot_id = spte[h].swap_slot_id
           /\ spte'[h].in_memory = IF h = g THEN TRUE ELSE spte[h].in_memory
      /\ pte'[g].frame = frame[p] /\ \A h \in Pages \ {g} : pte'[h] = pte[h]
      /\ pc'[p] \in {"user", "io", "loaded"}
      /\ \A q \in Procs \ {p} : SameProcess(q)
  <2> DEFINE b == resume[p] = "io" \/ spte[g].in_memory
             k == [spte[g] EXCEPT !.in_memory = TRUE, !.inevictable = @ /\ b]
             e == [frame |-> frame[p], dirty |-> dirty]
  <2>1. spte \in [Pages -> Entries] /\ spte[g] \in Entries
    BY DEF Placed, TableTypes
  <2>2. spte' = [spte EXCEPT ![g] = k]
    BY <2>1 DEF Install
  <2>3. /\ k.mapped = spte[g].mapped /\ k.spage_type = spte[g].spage_type
        /\ k.swap_slot_id = spte[g].swap_slot_id /\ k.in_memory = TRUE
    BY <2>1 DEF Entries
  <2> HIDE DEF k, b
  <2>4. \A h \in Pages : spte'[h] = IF h = g THEN k ELSE spte[h]
    BY <2>1, <2>2
  <2>5. /\ e.frame = frame[p] /\ \A h \in Pages : pte'[h] = IF h = g THEN e ELSE pte[h]
    BY DEF Install, Placed, TableTypes
  <2>6. resume[p] \in {"user", "io", "loaded"}
    BY Places_ DEF Placed, WorkOK
  <2>7. pc'[p] = resume[p] /\ \A q \in Procs \ {p} : SameProcess(q)
    BY <2>6 DEF Install, Resume, Goto, Placed, ProcessTypes, SameProcess
  <2> HIDE DEF e
  <2>8. \A h \in Pages :
          /\ spte'[h].mapped = spte[h].mapped /\ spte'[h].spage_type = spte[h].spage_type
          /\ spte'[h].swap_slot_id = spte[h].swap_slot_id
          /\ spte'[h].in_memory = IF h = g THEN TRUE ELSE spte[h].in_memory
    BY <2>3, <2>4
  <2>9. pte'[g].frame = frame[p] /\ \A h \in Pages \ {g} : pte'[h] = pte[h]
    BY <2>5
  <2>10. pc'[p] \in {"user", "io", "loaded"}
    BY <2>6, <2>7
  <2> QED
    BY <2>7, <2>8, <2>9, <2>10
<1>2. /\ content' = [content EXCEPT ![frame[p]] = value] /\ UNCHANGED <<victim, stored>>
  BY DEF Install
<1>3. /\ frame[p] \in Frames /\ frame_list[frame[p]] = g /\ ~Present(g) /\ spte[g].mapped
      /\ \A q \in Procs : pc[q] \in Chosen => victim[q] # g
  BY VictimFacts, Places_ DEF Placed, WorkOK
<1>4. DataTypes'
  BY <1>2 DEF Kept, DataTypes
<1>5. \A h \in Pages : (Leaving(h)' => Leaving(h)) /\ (Freeing(h)' => Freeing(h))
  BY <1>1, Turns
<1>6. ASSUME NEW h \in Pages \ {g} PROVE QuietPage(h)
  <2>1. Present(h) => content'[pte[h].frame] = content[pte[h].frame]
    BY <1>2, <1>3 DEF Placed, PageOK, Present, TableTypes, Kept, DataTypes
  <2> QED
    BY <1>1, <1>2, <1>5, <2>1 DEF QuietPage, SameEntry
<1>7. ~Leaving(g)' /\ Present(g)' /\ content'[pte'[g].frame] = value
  <2>1. ~Leaving(g)
    BY <1>3 DEF Leaving, Chosen
  <2>2. pte'[g].frame # NoFrame
    BY <1>1, <1>3, Distinct
  <2> QED
    BY <1>1, <1>2, <1>3, <1>5, <2>1, <2>2 DEF Present, Kept, DataTypes
<1>8. KindOK(g)
  BY DEF Kept
<1>9. spte[g].spage_type # "SWAP" => value = file[g]
  BY <1>3, <1>8 DEF KindOK, Locate, InSwap
<1>10. Rebuilt(g)
  BY <1>1, <1>3, <1>7, <1>8, <1>9 DEF Rebuilt, KindOK, CopyOK, HasSlot
<1>11. Locate(g)' = Locate(g)
  BY <1>7 DEF Locate
<1>12. SavedOK(p)'
  BY <1>1 DEF SavedOK
<1>13. \A q \in Procs \ {p} : pc[q] \in Chosen => SameEntry(victim[q])
  BY <1>1, <1>3, VictimFacts DEF SameEntry
<1> QED
  BY <1>1, <1>2, <1>4, <1>6, <1>10, <1>11, <1>12, <1>13, OnePageKept

LEMMA FillKept ==
  ASSUME Placed, Kept, Sound, Sound', NEW p \in Procs,
         FillStack(p) \/ FillFile(p) \/ FillSwap(p)
  PROVE  Kept' /\ Memory!Enter
<1>1. pc[p] = "fill" /\ UNCHANGED kind
  BY DEF FillStack, FillFile, FillSwap, From
<1>2. PICK g \in Pages : g = upage[p]
  BY <1>1 DEF Placed, WorkOK, Idle
<1>3. ~Present(g) /\ spte[g].mapped /\ KindOK(g) /\ SlotOK(g)
  BY <1>1, <1>2, Places_ DEF Placed, WorkOK, Kept
<1>4. CASE \E lock \in {lock_f, swap_lock} : Panics(p, lock)
  BY <1>1, <1>4, PanicKept DEF Panics
<1>5. CASE FillStack(p)
  <2>1. Install(p, FALSE, Junk) /\ UNCHANGED <<swap, file>> /\ spte[g].in_memory
    BY <1>2, <1>5 DEF FillStack
  <2>2. Locate(g) = Junk
    BY <1>3, <2>1 DEF Locate, InSwap, KindOK
  <2> QED
    BY <1>1, <1>2, <2>1, <2>2, InstallKept DEF Kept, DataTypes
<1>6. CASE FillFile(p) /\ ~Panics(p, lock_f)
  <2>1. /\ Install(p, FALSE, file[g]) /\ UNCHANGED <<swap, file>>
        /\ spte[g].spage_type \in {"FILE", "MMAP"}
    BY <1>2, <1>6 DEF FillFile
  <2>2. Locate(g) = file[g]
    BY <1>3, <2>1 DEF Locate, InSwap, KindOK
  <2>3. file[g] \in Values \cup {Junk}
    BY DEF Kept, DataTypes
  <2> QED
    BY <1>1, <1>2, <2>1, <2>2, <2>3, InstallKept DEF Kept, DataTypes
<1>7. CASE FillSwap(p) /\ ~Panics(p, swap_lock)
  <2>1. HasSlot(g)
    BY <1>2, <1>7 DEF FillSwap, HasSlot
  <2>2. PICK s \in Slots : s = spte[g].swap_slot_id
    BY <1>3, <2>1 DEF SlotOK
  <2>3. swap[s].used /\ s # NoSlot
    BY <1>3, <2>1, <2>2 DEF SlotOK, PagingAssumption
  <2>4. /\ swap' = [swap EXCEPT ![s] = FreeSlot] /\ Install(p, TRUE, swap[s].data)
        /\ UNCHANGED file /\ ~spte[g].in_memory /\ spte[g].spage_type = "SWAP"
    BY <1>2, <1>7, <2>2, <2>3 DEF FillSwap
  <2>5. Locate(g) = swap[s].data
    BY <1>3, <2>2, <2>3, <2>4 DEF Locate, InSwap
  <2>6. /\ swap[s].data \in Values \cup {Junk}
        /\ swap' \in [Slots -> [used : BOOLEAN, data : Values \cup {Junk}]]
    BY <2>4 DEF Kept, DataTypes, FreeSlot
  <2>7. \A h \in Pages \ {g} : HasSlot(h) => swap'[spte[h].swap_slot_id] = swap[spte[h].swap_slot_id]
    BY <2>1, <2>2, <2>4 DEF Kept, SlotOK, DataTypes
  <2> QED
    BY <1>1, <1>2, <2>4, <2>5, <2>6, <2>7, InstallKept
<1> QED
  BY <1>4, <1>5, <1>6, <1>7

(* A mapped page that leaves has been written to its file. *)
LEMMA UnmapWriteKept ==
  ASSUME Placed, Kept, Sound, Sound', NEW p \in Procs, UnmapWrite(p)
  PROVE  Kept' /\ Memory!Enter
<1>1. pc[p] = "unmap_write" /\ UNCHANGED <<kind, upage, resume, victim, spte, pte, content, swap, stored>>
  BY DEF UnmapWrite, From, tables, memory
<1>2. PICK g \in Pages : g = upage[p] /\ Owner[g] = p /\ Present(g)
  BY <1>1 DEF Placed, WorkOK, Idle, Unmapping
<1>3. /\ file' = [file EXCEPT ![g] = content[pte[g].frame]]
      /\ pc' = [pc EXCEPT ![p] = "unmap_free"] /\ frame' = [frame EXCEPT ![p] = pte[g].frame]
  BY <1>2 DEF UnmapWrite, Goto
<1>4. pc'[p] = "unmap_free" /\ \A q \in Procs \ {p} : SameProcess(q)
  BY <1>1, <1>3 DEF Placed, ProcessTypes, SameProcess
<1>5. pte[g].frame \in Frames
  BY <1>2 DEF Present, Placed, TableTypes
<1>6. DataTypes' /\ \A h \in Pages : file'[h] = IF h = g THEN content[pte[g].frame] ELSE file[h]
  BY <1>1, <1>3, <1>5 DEF Kept, DataTypes
<1>7. \A h \in Pages : Leaving(h)' => Leaving(h)
  BY <1>4, Turns
<1>8. ASSUME NEW h \in Pages \ {g} PROVE QuietPage(h)
  <2>1. Freeing(h)' => Freeing(h)
    BY <1>1, <1>2, <1>4, Turns
  <2> QED
    BY <1>1, <1>6, <1>7, <2>1 DEF QuietPage, SameEntry
<1>9. Rebuilt(g)
  <2>1. ~Leaving(g)
    BY <1>1, <1>2, VictimFacts DEF Leaving, Chosen, Idle
  <2>2. KindOK(g) /\ SlotOK(g) /\ spte[g].in_memory
    BY <1>2 DEF Kept, Placed, PageOK
  <2>3. KindOK(g)' /\ ~HasSlot(g)'
    BY <1>1, <1>7, <2>1, <2>2 DEF KindOK, HasSlot, Present
  <2>4. CopyOK(g)'
    BY <1>1, <1>6, <1>7, <2>1 DEF CopyOK
  <2> QED
    BY <2>3, <2>4 DEF Rebuilt
<1>10. Locate(g)' = Locate(g)
  BY <1>1, <1>2 DEF Locate, Present
<1>11. SavedOK(p)'
  BY <1>4 DEF SavedOK
<1>12. \A q \in Procs \ {p} : pc[q] \in Chosen => SameEntry(victim[q])
  BY <1>1 DEF SameEntry
<1> QED
  BY <1>1, <1>4, <1>6, <1>8, <1>9, <1>10, <1>11, <1>12, OnePageKept

LEMMA UnmapFreeKept ==
  ASSUME Placed, Kept, Sound, Sound', NEW p \in Procs, UnmapFree(p)
  PROVE  Kept' /\ \E g \in Pages : Memory!Leave(g)
<1>1. /\ pc[p] = "unmap_free" /\ frame_lock = Nobody /\ UNCHANGED <<kind, victim, swap, file>>
  BY DEF UnmapFree, From
<1>2. PICK g \in Pages : g = upage[p] /\ Owner[g] = p /\ Present(g) /\ spte[g].mapped
  BY <1>1 DEF Placed, WorkOK, Idle, Unmapping
<1>3. PICK f \in Frames : f = frame[p] /\ f = pte[g].frame
  BY <1>1, <1>2 DEF Placed, WorkOK, TableTypes, Present
<1>4. /\ content' = [h \in Frames |-> IF h = f THEN Junk ELSE content[h]]
      /\ pte' = [pte EXCEPT ![g] = NotPresent] /\ spte' = [spte EXCEPT ![g] = Absent]
      /\ stored' = [stored EXCEPT ![g] = Junk]
  BY <1>2, <1>3 DEF UnmapFree
<1>5. pc'[p] \in {"user", "exit"} /\ \A q \in Procs \ {p} : SameProcess(q)
  <2>1. resume[p] \in {"user", "exit"}
    BY <1>1 DEF Placed, WorkOK, Unmapping
  <2> QED
    BY <2>1 DEF UnmapFree, Resume, Goto, Placed, ProcessTypes, SameProcess
<1>6. \A q \in Procs : pc[q] \notin Chosen
  BY <1>1, NoEvictor, Places_
<1>7. \A h \in Pages : ~Leaving(h)' /\ (Freeing(h)' => Freeing(h))
  <2>1. \A q \in Procs : pc'[q] # "unlink"
    BY <1>5, <1>6 DEF SameProcess, Chosen
  <2> QED
    BY <1>5, <2>1, Turns DEF Leaving
<1>8. \A h \in Pages : /\ spte'[h] = (IF h = g THEN Absent ELSE spte[h])
                       /\ pte'[h] = (IF h = g THEN NotPresent ELSE pte[h])
                       /\ stored'[h] = (IF h = g THEN Junk ELSE stored[h])
  BY <1>4 DEF Placed, TableTypes, Kept, DataTypes
<1>9. DataTypes'
  BY <1>1, <1>4 DEF Kept, DataTypes
<1>10. ASSUME NEW h \in Pages \ {g} PROVE QuietPage(h)
  <2>1. Present(h) => content'[pte[h].frame] = content[pte[h].frame]
    BY <1>2, <1>3, <1>4, OneFrame DEF Present, Placed, TableTypes
  <2> QED
    BY <1>1, <1>7, <1>8, <2>1 DEF QuietPage, SameEntry
<1>11. /\ ~Present(g)' /\ spte'[g].mapped = FALSE /\ ~spte'[g].in_memory
       /\ spte'[g].spage_type = "ERROR" /\ stored'[g] = Junk
  <2>1. pte'[g] = NotPresent /\ spte'[g] = Absent
    BY <1>8
  <2> QED
    BY <1>8, <2>1 DEF Present, NotPresent, Absent
<1>12. Rebuilt(g)
  BY <1>7, <1>11 DEF Rebuilt, KindOK, CopyOK, HasSlot
<1>13. kind[g] = "MMAP" => Locate(g)' = Locate(g)
  <2>1. CASE kind[g] = "MMAP"
    <3>1. KindOK(g) /\ CopyOK(g)
      BY DEF Kept
    <3>2. content[pte[g].frame] = file[g]
      BY <1>1, <1>2, <2>1, <3>1 DEF KindOK, CopyOK, Dropping, Freeing
    <3>3. Locate(g) = file[g] /\ Locate(g)' = file'[g]
      BY <1>1, <1>2, <1>11, <2>1, <3>2 DEF Locate, InSwap
    <3> QED
      BY <1>1, <3>3
  <2> QED
    BY <2>1
<1>14. SavedOK(p)'
  BY <1>5 DEF SavedOK
<1> QED
  BY <1>1, <1>2, <1>5, <1>6, <1>9, <1>10, <1>11, <1>12, <1>13, <1>14, OnePageKept

LEMMA KeptInit == Init => Kept
<1> SUFFICES ASSUME Init PROVE Kept
  OBVIOUS
<1>1. DataTypes
  BY DEF Init, DataTypes, FreeSlot
<1>2. \A p \in Procs : SavedOK(p)
  BY DEF Init, SavedOK
<1>3. \A g \in Pages : /\ ~spte[g].mapped /\ ~spte[g].in_memory /\ spte[g].spage_type = "ERROR"
                       /\ ~Present(g) /\ ~Leaving(g) /\ stored[g] = Junk
  BY DEF Init, Absent, NotPresent, Present, Leaving
<1> QED
  BY <1>1, <1>2, <1>3 DEF Kept, SlotOK, KindOK, CopyOK, HasSlot

LEMMA KeptNext ==
  ASSUME Placed, Kept, Sound, Sound', Next
  PROVE  Kept' /\ (Memory!Enter \/ \E g \in Pages : Memory!Write(g) \/ Memory!Leave(g))
<1>1. PICK p \in Procs : Runs(p) \/ Exit(p) \/ \E g \in Pages : Calls(p, g)
  BY DEF Next
<1>2. CASE Exit(p) \/ Transfer(p) \/ Exited(p) \/ FrameAlloc(p)
  BY <1>2, MovesOnKept
<1>3. CASE Loaded(p) \/ Transferred(p) \/ \E g \in Pages, v \in Values : Write(p, g, v)
  BY <1>3, WritesKept
<1>4. CASE WriteBack(p)
  BY <1>4, WriteBackKept
<1>5. CASE SwapOut(p)
  BY <1>5, SwapOutKept
<1>6. CASE Unlink(p)
  BY <1>6, UnlinkKept
<1>7. CASE FillStack(p) \/ FillFile(p) \/ FillSwap(p)
  BY <1>7, FillKept
<1>8. CASE UnmapWrite(p)
  BY <1>8, UnmapWriteKept
<1>9. CASE UnmapFree(p)
  BY <1>9, UnmapFreeKept
<1>10. CASE \E f \in Frames : Choose(p, f)
  BY <1>10, ChooseKept
<1>11. CASE \E g \in Pages : ExitPage(p, g)
  BY <1>11, RemoveKept DEF ExitPage, From, Mapped
<1>12. CASE \E g \in Pages : Munmap(p, g)
  BY <1>12, RemoveKept DEF Munmap, From
<1>13. CASE \E g \in Pages : Fault(p, g) \/ Syscall(p, g)
  BY <1>13, FaultKept
<1>14. CASE \E g \in Pages : \/ Load(p, g) \/ Mmap(p, g)
                             \/ \E after \in {"user", "io"} : GrowStack(p, g, after)
  BY <1>14, EnterKept
<1> QED
  BY <1>1, <1>2, <1>3, <1>4, <1>5, <1>6, <1>7, <1>8, <1>9, <1>10, <1>11, <1>12, <1>13, <1>14,
     NoKernelFault DEF Runs, Calls

(* What is run does not change. *)
LEMMA KindStays ==
  ASSUME Next PROVE UNCHANGED kind
<1>1. PICK p \in Procs : Runs(p) \/ Exit(p) \/ \E g \in Pages : Calls(p, g)
  BY DEF Next
<1>2. CASE Exit(p)
  BY <1>2 DEF Exit, From
<1>3. CASE Runs(p)
  BY <1>3 DEF Runs, Loaded, FrameAlloc, WriteBack, SwapOut, Unlink, FillStack, FillFile,
              FillSwap, Transfer, Transferred, KernelFault, UnmapWrite, UnmapFree, Exited,
              Choose, ExitPage, Load, From
<1>4. CASE \E g \in Pages : Calls(p, g)
  BY <1>4 DEF Calls, Write, Fault, Syscall, Mmap, Munmap, GrowStack, From
<1> QED
  BY <1>1, <1>2, <1>3, <1>4

(* Where every page is and what it contains, until an eviction is overtaken. *)
THEOREM PagingInvariant == Spec => []PagingInv
<1>1. Init => PagingInv
  BY PlacedInit, KeptInit DEF PagingInv
<1>2. PagingInv /\ [Next]_vars => PagingInv'
  <2> SUFFICES ASSUME PagingInv, [Next]_vars, Sound' PROVE Placed' /\ Kept'
    BY DEF PagingInv
  <2>1. CASE Next
    BY <2>1, StaysSpoiled, PlacedNext, KeptNext DEF PagingInv, Sound, Untorn
  <2>2. CASE UNCHANGED vars
    <3>1. Sound /\ UNCHANGED <<kind, process, tables, memory, swap, file, stored>>
      BY <2>2 DEF vars, Sound
    <3> QED
      BY <2>2, <3>1, PlacedStutter, PanicKept DEF PagingInv
  <2> QED
    BY <2>1, <2>2
<1> QED
  BY <1>1, <1>2, PTL DEF Spec

(***************************************************************************)
(* Faults, evictions, swapping and unmapping move pages and lose nothing:  *)
(* what a process reads is what it last wrote, or what the file holds.     *)
(***************************************************************************)
THEOREM PagingKeepsMemory == Spec => ImplementsMemory
<1>1. Init => Memory!Init
  BY DEF Init, Memory!Init, Entered, Broken, Sound, Absent
<1>2. PagingInv /\ [Next]_vars => [Memory!Next]_(Memory!vars)
  <2> SUFFICES ASSUME PagingInv, [Next]_vars PROVE [Memory!Next]_(Memory!vars)
    OBVIOUS
  <2>1. CASE UNCHANGED vars
    <3>1. \A g \in Pages : Locate(g)' = Locate(g)
      BY <2>1 DEF vars, tables, memory, Locate, InSwap, Present
    <3>2. UNCHANGED <<Located, Entered, stored, Shared, Broken>>
      BY <2>1, <3>1 DEF vars, tables, Located, Entered, Shared, Broken, Sound
    <3> QED
      BY <3>2 DEF Memory!vars
  <2>2. CASE Next
    <3>1. UNCHANGED Shared
      BY <2>2, KindStays DEF Shared
    <3>2. CASE ~Sound'
      BY <3>1, <3>2 DEF Memory!Next, Broken
    <3>3. CASE Sound'
      <4>1. Memory!Enter \/ \E g \in Pages : Memory!Write(g) \/ Memory!Leave(g)
        BY <2>2, <3>3, StaysSpoiled, KeptNext DEF PagingInv
      <4> QED
        BY <3>1, <4>1 DEF Memory!Next
    <3> QED
      BY <3>2, <3>3
  <2> QED
    BY <2>1, <2>2
<1> QED
  BY <1>1, <1>2, PagingInvariant, PTL DEF Spec, ImplementsMemory, Memory!Spec

-----------------------------------------------------------------------------
(***************************************************************************)
(* What stops the processes.  An eviction that is overtaken may leave two  *)
(* pages in one frame, but what everybody waits for survives it: who has   *)
(* which lock, that the page to be unlinked is still listed, and that who  *)
(* brings a page in knows where it is.  Firm is that part of the state; it *)
(* holds always.                                                           *)
(***************************************************************************)
LockTypes ==
  /\ frame_lock \in Procs \cup {Nobody}
  /\ lock_f \in Procs \cup {Nobody}
  /\ swap_lock \in Procs \cup {Nobody}

(* The page a process is busy with, and lock_f while it is. *)
HandOK(p) ==
  /\ pc[p] \in Idle => upage[p] = NoPage
  /\ pc[p] \notin Idle => upage[p] \in Pages /\ Owner[upage[p]] = p /\ spte[upage[p]].mapped
  /\ pc[p] \in Bringing => /\ ~Present(upage[p]) /\ spte[upage[p]].inevictable
                           /\ resume[p] \in {"user", "io", "io_locked", "loaded"}
                           /\ resume[p] = "loaded" => spte[upage[p]].in_memory
  /\ pc[p] = "fill" => frame[p] \in Frames
  /\ pc[p] \in Unmapping => resume[p] \in {"user", "exit"}
  /\ pc[p] = "unmap_free" /\ Present(upage[p]) => frame[p] = pte[upage[p]].frame
  /\ lock_f = p => \/ pc[p] \in {"loaded", "io_locked"}
                   \/ pc[p] \in Bringing /\ resume[p] \in {"loaded", "io_locked"}

(* frame_lock is held in frame_replace(), whose victim stays where it is. *)
EvictionOK(p) ==
  /\ frame_lock = p <=> pc[p] \in Evictors
  /\ pc[p] \in Evictors => \A f \in Frames : frame_list[f] # NoPage
  /\ pc[p] \in Chosen => /\ victim[p] \in Pages /\ Present(victim[p])
                         /\ frame_list[pte[victim[p]].frame] = victim[p]

EntryOK(g) ==
  /\ Present(g) => spte[g].in_memory /\ spte[g].mapped
  /\ \A f \in Frames : frame_list[f] = g => pte[g].frame = f \/ Comes(g, f)
  /\ spte[g].mapped => spte[g].spage_type # "ERROR" /\ pc[Owner[g]] # "new"

Firm ==
  /\ ProcessTypes /\ TableTypes /\ DataTypes /\ LockTypes /\ kind \in Layouts
  /\ \A p \in Procs : HandOK(p) /\ EvictionOK(p)
  /\ \A g \in Pages : EntryOK(g)

-----------------------------------------------------------------------------
LEMMA FirmVictim ==
  ASSUME Firm, NEW q \in Procs, pc[q] \in Chosen
  PROVE  /\ victim[q] \in Pages /\ Present(victim[q]) /\ pte[victim[q]].frame \in Frames
         /\ spte[victim[q]].in_memory /\ spte[victim[q]].mapped
         /\ frame_list[pte[victim[q]].frame] = victim[q]
         /\ frame_lock = q /\ pc[q] \in Evictors
         /\ \A p \in Procs : pc[p] \in Bringing => upage[p] # victim[q]
<1>1. EvictionOK(q) /\ pc[q] \in Evictors
  BY DEF Firm, Evictors
<1>2. victim[q] \in Pages /\ Present(victim[q]) /\ frame_list[pte[victim[q]].frame] = victim[q]
  BY <1>1 DEF EvictionOK
<1>3. EntryOK(victim[q])
  BY <1>2 DEF Firm
<1>4. pte[victim[q]].frame \in Frames
  BY <1>2 DEF Present, Firm, TableTypes
<1>5. ASSUME NEW p \in Procs, pc[p] \in Bringing PROVE upage[p] # victim[q]
  <2>1. HandOK(p)
    BY DEF Firm
  <2> QED
    BY <1>2, <1>5, <2>1 DEF HandOK
<1> QED
  BY <1>1, <1>2, <1>3, <1>4, <1>5 DEF EntryOK, EvictionOK

(***************************************************************************)
(* What is said of another process holds after a step of p that keeps to   *)
(* p's own pages or takes the frame of one that is not coming in.          *)
(***************************************************************************)
LEMMA FirmStep ==
  ASSUME Firm, NEW p \in Procs,
         ProcessTypes', TableTypes', DataTypes', LockTypes', kind' = kind,
         \A q \in Procs \ {p} : SameProcess(q),
         \A q \in Procs \ {p} : /\ lock_f' = q => lock_f = q
                                /\ frame_lock' = q <=> frame_lock = q,
         \A g \in Pages : Owner[g] # p =>
           /\ spte'[g].mapped = spte[g].mapped /\ spte'[g].inevictable = spte[g].inevictable
           /\ pte'[g].frame \in {pte[g].frame, NoFrame}
           /\ Present(g) \/ spte'[g].in_memory = spte[g].in_memory,
         \A q \in Procs \ {p} : pc[q] \in Evictors => frame_list' = frame_list,
         \A q \in Procs \ {p} : pc[q] \in Chosen => pte'[victim[q]].frame = pte[victim[q]].frame,
         HandOK(p)', EvictionOK(p)',
         \A g \in Pages : EntryOK(g)'
  PROVE  Firm'
<1>1. ASSUME NEW q \in Procs \ {p} PROVE HandOK(q)'
  <2>1. HandOK(q) /\ SameProcess(q) /\ (lock_f' = q => lock_f = q)
    BY DEF Firm
  <2>2. ASSUME pc[q] \notin Idle
        PROVE  /\ upage[q] \in Pages /\ Owner[upage[q]] = q
               /\ spte'[upage[q]].mapped = spte[upage[q]].mapped
               /\ spte'[upage[q]].inevictable = spte[upage[q]].inevictable
               /\ pte'[upage[q]].frame \in {pte[upage[q]].frame, NoFrame}
               /\ Present(upage[q]) \/ spte'[upage[q]].in_memory = spte[upage[q]].in_memory
    <3>1. upage[q] \in Pages /\ Owner[upage[q]] = q
      BY <2>1, <2>2 DEF HandOK
    <3> QED
      BY <3>1
  <2>3. pc[q] \in Bringing \cup Unmapping => pc[q] \notin Idle
    BY DEF Bringing, Unmapping, Idle
  <2>4. pc[q] = "unmap_free" => pc[q] \in Unmapping
    BY DEF Unmapping
  <2>5. pc[q] \in Bringing => /\ ~Present(upage[q])' /\ spte'[upage[q]].inevictable
                              /\ resume[q] \in {"user", "io", "io_locked", "loaded"}
                              /\ (resume[q] = "loaded" => spte'[upage[q]].in_memory)
    <3> SUFFICES ASSUME pc[q] \in Bringing
                 PROVE  /\ ~Present(upage[q])' /\ spte'[upage[q]].inevictable
                        /\ resume[q] \in {"user", "io", "io_locked", "loaded"}
                        /\ (resume[q] = "loaded" => spte'[upage[q]].in_memory)
      OBVIOUS
    <3>1. /\ ~Present(upage[q]) /\ spte[upage[q]].inevictable
          /\ resume[q] \in {"user", "io", "io_locked", "loaded"}
          /\ (resume[q] = "loaded" => spte[upage[q]].in_memory)
      BY <2>1 DEF HandOK
    <3>2. upage'[q] = upage[q]
      BY <2>1 DEF SameProcess
    <3> QED
      BY <2>2, <2>3, <3>1, <3>2 DEF Present
  <2>6. pc[q] = "unmap_free" /\ pte'[upage[q]].frame # NoFrame => frame[q] = pte'[upage[q]].frame
    BY <2>1, <2>2, <2>3, <2>4 DEF HandOK, Present
  <2>7. pc[q] \notin Idle => upage[q] \in Pages /\ Owner[upage[q]] = q /\ spte'[upage[q]].mapped
    BY <2>1, <2>2 DEF HandOK
  <2>8. /\ pc[q] \in Idle => upage[q] = NoPage
        /\ pc[q] = "fill" => frame[q] \in Frames
        /\ pc[q] \in Unmapping => resume[q] \in {"user", "exit"}
        /\ lock_f' = q => \/ pc[q] \in {"loaded", "io_locked"}
                          \/ pc[q] \in Bringing /\ resume[q] \in {"loaded", "io_locked"}
    BY <2>1 DEF HandOK
  <2>9. pc'[q] = pc[q] /\ upage'[q] = upage[q] /\ resume'[q] = resume[q] /\ frame'[q] = frame[q]
    BY <2>1 DEF SameProcess
  <2> QED
    BY <2>5, <2>6, <2>7, <2>8, <2>9 DEF HandOK, Present
<1>2. ASSUME NEW q \in Procs \ {p} PROVE EvictionOK(q)'
  <2>1. EvictionOK(q) /\ SameProcess(q) /\ (frame_lock' = q <=> frame_lock = q)
    BY DEF Firm
  <2>2. pc[q] \in Chosen => pc[q] \in Evictors
    BY DEF Evictors
  <2> QED
    BY <2>1, <2>2 DEF EvictionOK, SameProcess, Present
<1> QED
  BY <1>1, <1>2 DEF Firm

(* An entry that a step leaves as it is. *)
LEMMA EntryStays ==
  ASSUME Firm, NEW g \in Pages,
         \A f \in Frames : frame_list'[f] = g => frame_list[f] = g,
         spte'[g].mapped = spte[g].mapped, spte'[g].in_memory = spte[g].in_memory,
         spte'[g].spage_type \in {spte[g].spage_type, "SWAP"}, pte'[g].frame = pte[g].frame,
         \A f \in Frames : Comes(g, f) => Comes(g, f)',
         pc'[Owner[g]] = "new" => pc[Owner[g]] = "new"
  PROVE  EntryOK(g)'
<1>1. EntryOK(g)
  BY DEF Firm
<1> QED
  BY <1>1 DEF EntryOK, Present

(* A process that is not bringing a page in moves on; no page does. *)
LEMMA FirmQuiet ==
  ASSUME Firm, NEW p \in Procs,
         ProcessTypes', TableTypes', DataTypes', LockTypes', kind' = kind,
         \A q \in Procs \ {p} : SameProcess(q),
         lock_f' \in {lock_f, p, Nobody}, frame_lock' = frame_lock, frame_list' = frame_list,
         \A g \in Pages : /\ spte'[g].mapped = spte[g].mapped
                          /\ spte'[g].in_memory = spte[g].in_memory
                          /\ spte'[g].spage_type = spte[g].spage_type
                          /\ pte'[g].frame = pte[g].frame
                          /\ Owner[g] # p => spte'[g].inevictable = spte[g].inevictable,
         pc[p] \notin Bringing, pc'[p] \notin {"new"} \cup Evictors, HandOK(p)'
  PROVE  Firm'
<1>1. \A g \in Pages, f \in Frames : Comes(g, f) => Comes(g, f)'
  <2> SUFFICES ASSUME NEW g \in Pages, NEW f \in Frames, Comes(g, f) PROVE Comes(g, f)'
    OBVIOUS
  <2>1. Owner[g] \in Procs \ {p}
    BY Distinct DEF Comes, Bringing
  <2> QED
    BY <2>1 DEF Comes, SameProcess
<1>2. ASSUME NEW g \in Pages PROVE EntryOK(g)'
  <2>1. pc'[Owner[g]] = "new" => pc[Owner[g]] = "new"
    BY Distinct DEF SameProcess
  <2> QED
    BY <1>1, <2>1, EntryStays
<1>3. EvictionOK(p)'
  <2>1. frame_lock # p
    BY DEF Firm, EvictionOK, Evictors, Chosen, Bringing
  <2> QED
    BY <2>1 DEF EvictionOK, Evictors
<1>4. \A q \in Procs \ {p} : lock_f' = q => lock_f = q
  BY Distinct
<1>5. \A q \in Procs : pc[q] \in Chosen => pte'[victim[q]].frame = pte[victim[q]].frame
  BY FirmVictim
<1> QED
  BY <1>2, <1>3, <1>4, <1>5, FirmStep

(* What memory, swap partition and files hold stays within its types. *)
LEMMA StoreTypes ==
  ASSUME Firm, NEW g \in Pages, NEW v \in Values, Store(g, v)
  PROVE  /\ content' \in [Frames -> Values \cup {Junk}]
         /\ stored' \in [Pages -> Values \cup {Junk}]
  BY DEF Firm, DataTypes, Store

LEMMA PageTypes ==
  ASSUME Firm, NEW g \in Pages, Present(g)
  PROVE  pte[g].frame \in Frames /\ content[pte[g].frame] \in Values \cup {Junk}
<1>1. pte[g].frame \in Frames
  BY DEF Firm, TableTypes, Present
<1> QED
  BY <1>1 DEF Firm, DataTypes

LEMMA HandPage ==
  ASSUME Firm, NEW p \in Procs, pc[p] \notin Idle
  PROVE  upage[p] \in Pages /\ Owner[upage[p]] = p /\ spte[upage[p]].mapped
  BY DEF Firm, HandOK

LEMMA FillTypes ==
  ASSUME Firm, NEW p \in Procs, FillStack(p) \/ FillFile(p) \/ FillSwap(p)
  PROVE  DataTypes' /\ LockTypes'
<1>1. upage[p] \in Pages /\ pc[p] = "fill" /\ frame[p] \in Frames
  <2>1. pc[p] = "fill"
    BY DEF FillStack, FillFile, FillSwap, From
  <2>2. HandOK(p)
    BY DEF Firm
  <2> QED
    BY <2>1, <2>2 DEF HandOK, Idle
<1>2. ASSUME NEW dirty, NEW value \in Values \cup {Junk}, Install(p, dirty, value)
      PROVE  /\ content' \in [Frames -> Values \cup {Junk}]
             /\ stored' = stored /\ UNCHANGED <<frame_lock, lock_f>>
  BY <1>1, <1>2 DEF Install, Firm, DataTypes
<1>3. CASE FillStack(p)
  BY <1>2, <1>3 DEF FillStack, Firm, DataTypes, LockTypes
<1>4. CASE FillFile(p)
  <2>1. file[upage[p]] \in Values \cup {Junk}
    BY <1>1 DEF Firm, DataTypes
  <2> QED
    BY <1>2, <1>4, <2>1 DEF FillFile, Panics, Firm, DataTypes, LockTypes, memory, locks
<1>5. CASE FillSwap(p)
  <2>1. CASE Panics(p, swap_lock)
    BY <1>5, <2>1 DEF FillSwap, Panics, Firm, DataTypes, LockTypes, memory, locks
  <2>2. CASE ~Panics(p, swap_lock)
    <3> DEFINE id == spte[upage[p]].swap_slot_id
    <3>1. PICK s \in IF id = NoSlot THEN Slots ELSE {id} :
            \/ /\ swap[s].used /\ swap' = [swap EXCEPT ![s] = FreeSlot]
               /\ Install(p, TRUE, swap[s].data) /\ UNCHANGED swap_lock
            \/ swap_lock' = p /\ Install(p, FALSE, Junk) /\ UNCHANGED swap
      BY <1>5, <2>2 DEF FillSwap
    <3>2. id \in Slots \cup {NoSlot}
      BY <1>1 DEF Firm, TableTypes, Entries
    <3>3. s \in Slots /\ swap[s].data \in Values \cup {Junk}
      BY <3>1, <3>2 DEF Firm, DataTypes
    <3>4. UNCHANGED file
      BY <1>5, <2>2 DEF FillSwap
    <3>5. FreeSlot \in [used : BOOLEAN, data : Values \cup {Junk}]
      BY DEF FreeSlot
    <3>6. swap' \in [Slots -> [used : BOOLEAN, data : Values \cup {Junk}]]
      BY <3>1, <3>3, <3>5 DEF Firm, DataTypes
    <3> QED
      BY <1>2, <3>1, <3>3, <3>4, <3>6 DEF Firm, DataTypes, LockTypes
  <2> QED
    BY <2>1, <2>2
<1> QED
  BY <1>3, <1>4, <1>5

LEMMA RunTypes ==
  ASSUME Firm, NEW p \in Procs, Runs(p)
  PROVE  DataTypes' /\ LockTypes'
<1>1. CASE Loaded(p)
  <2>1. upage[p] \in Pages
    BY <1>1, HandPage DEF Loaded, From, Idle
  <2> QED
    BY <1>1, <2>1, StoreTypes DEF Loaded, ReleaseFileLock, Firm, DataTypes, LockTypes
<1>2. CASE FrameAlloc(p)
  BY <1>2 DEF FrameAlloc, ReplaceLocked, Firm, DataTypes, LockTypes
<1>3. CASE WriteBack(p)
  <2>1. victim[p] \in Pages /\ content[pte[victim[p]].frame] \in Values \cup {Junk}
    BY <1>3, FirmVictim, PageTypes DEF WriteBack, From, Chosen
  <2> QED
    BY <1>3, <2>1 DEF WriteBack, Panics, Firm, DataTypes, LockTypes, memory, locks
<1>4. CASE SwapOut(p)
  <2>1. content[pte[victim[p]].frame] \in Values \cup {Junk}
    BY <1>4, FirmVictim, PageTypes DEF SwapOut, From, Chosen
  <2>2. UsedSlot(content[pte[victim[p]].frame]) \in [used : BOOLEAN, data : Values \cup {Junk}]
    BY <2>1 DEF UsedSlot
  <2>3. swap' = swap \/ \E s \in Slots : swap' = [swap EXCEPT ![s] = UsedSlot(content[pte[victim[p]].frame])]
    BY <1>4 DEF SwapOut, Panics
  <2>4. swap' \in [Slots -> [used : BOOLEAN, data : Values \cup {Junk}]]
    BY <2>2, <2>3 DEF Firm, DataTypes
  <2>5. UNCHANGED <<content, file, stored, frame_lock, lock_f, swap_lock>>
    BY <1>4 DEF SwapOut, Panics, memory, locks
  <2> QED
    BY <2>4, <2>5 DEF Firm, DataTypes, LockTypes
<1>5. CASE Unlink(p)
  BY <1>5 DEF Unlink, Firm, DataTypes, LockTypes
<1>6. CASE FillStack(p) \/ FillFile(p) \/ FillSwap(p)
  BY <1>6, FillTypes
<1>7. CASE Transfer(p) \/ KernelFault(p) \/ Exited(p)
  BY <1>7 DEF Transfer, KernelFault, Exited, Firm, DataTypes, LockTypes, memory, locks
<1>8. CASE Transferred(p)
  <2>1. upage[p] \in Pages
    BY <1>8, HandPage DEF Transferred, From, Idle
  <2> QED
    BY <1>8, <2>1, StoreTypes DEF Transferred, ReleaseFileLock, Firm, DataTypes, LockTypes
<1>9. CASE UnmapWrite(p)
  <2>1. upage[p] \in Pages
    BY <1>9, HandPage DEF UnmapWrite, From, Idle
  <2>2. Present(upage[p]) => content[pte[upage[p]].frame] \in Values \cup {Junk}
    BY <2>1, PageTypes
  <2> QED
    BY <1>9, <2>1, <2>2 DEF UnmapWrite, Firm, DataTypes, LockTypes, memory, locks
<1>10. CASE UnmapFree(p)
  BY <1>10 DEF UnmapFree, Firm, DataTypes, LockTypes, locks
<1>11. CASE \E f \in Frames : Choose(p, f)
  BY <1>11 DEF Choose, Firm, DataTypes, LockTypes, memory, locks
<1>12. CASE \E g \in Pages : ExitPage(p, g)
  BY <1>12 DEF ExitPage, Remove, Firm, DataTypes, LockTypes, memory, locks
<1>13. CASE \E g \in Pages : Load(p, g)
  BY <1>13 DEF Load, Firm, DataTypes, LockTypes, memory
<1> QED
  BY <1>1, <1>2, <1>3, <1>4, <1>5, <1>6, <1>7, <1>8, <1>9, <1>10, <1>11, <1>12, <1>13 DEF Runs

LEMMA CallTypes ==
  ASSUME Firm, NEW p \in Procs, NEW g \in Pages, Calls(p, g) \/ Exit(p)
  PROVE  DataTypes' /\ LockTypes'
<1>1. CASE \E v \in Values : Write(p, g, v)
  BY <1>1, StoreTypes DEF Write, Firm, DataTypes, LockTypes, locks
<1>2. CASE Fault(p, g) \/ Syscall(p, g) \/ Exit(p) \/ \E after \in {"user", "io"} : GrowStack(p, g, after)
  BY <1>2 DEF Fault, Syscall, GrowStack, Exit, Firm, DataTypes, LockTypes, memory, locks
<1>3. CASE Mmap(p, g) \/ Munmap(p, g)
  BY <1>3 DEF Mmap, Munmap, Remove, Firm, DataTypes, LockTypes, memory, locks
<1> QED
  BY <1>1, <1>2, <1>3 DEF Calls

-----------------------------------------------------------------------------
(* Steps of a process that is not waiting for a frame. *)
LEMMA UserHand ==
  ASSUME Firm, NEW p \in Procs
  PROVE  /\ pc[p] \in {"new", "user", "exit", "gone"} => lock_f # p /\ upage[p] = NoPage
         /\ pc[p] \in {"io", "unmap_write", "unmap_free"} => lock_f # p
         /\ pc[p] \in Unmapping => resume[p] \in {"user", "exit"}
  BY DEF Firm, HandOK, Idle, Bringing, Unmapping

LEMMA EntryFacts ==
  ASSUME Firm, NEW g \in Pages
  PROVE  /\ Present(g) => spte[g].in_memory /\ spte[g].mapped
         /\ spte[g].mapped => pc[Owner[g]] # "new"
         /\ spte[g].mapped => spte[g].spage_type # "ERROR"
         /\ ~Present(g) => \A f \in Frames : frame_list[f] = g => Comes(g, f)
<1>1. EntryOK(g)
  BY DEF Firm
<1> QED
  BY <1>1, Distinct DEF EntryOK, Present

LEMMA LoadedFirm ==
  ASSUME Firm, NEW p \in Procs, Loaded(p)
  PROVE  Firm'
<1>1. /\ pc[p] = "loaded"
      /\ UNCHANGED <<kind, frame, victim, spte, frame_list, frame_lock>>
      /\ pte' = [pte EXCEPT ![upage[p]].dirty = TRUE] /\ lock_f' = Nobody
  BY DEF Loaded, From, Store, ReleaseFileLock
<1>2. pc'[p] = "user" /\ upage'[p] = NoPage /\ \A q \in Procs \ {p} : SameProcess(q)
  BY <1>1 DEF Loaded, Resume, Goto, Firm, ProcessTypes, SameProcess
<1>3. ProcessTypes'
  BY <1>1 DEF Loaded, Resume, Goto, Firm, ProcessTypes, Places, Resumes
<1>4. upage[p] \in Pages
  BY <1>1, HandPage DEF Idle
<1>5. TableTypes' /\ \A h \in Pages : pte'[h].frame = pte[h].frame
  BY <1>1, <1>4, DirtyFacts DEF Firm, TableTypes
<1>6. HandOK(p)'
  BY <1>1, <1>2, Distinct DEF HandOK, Idle, Bringing, Unmapping
<1>7. DataTypes' /\ LockTypes'
  BY RunTypes DEF Runs
<1> QED
  BY <1>1, <1>2, <1>3, <1>5, <1>6, <1>7, FirmQuiet DEF Bringing, Evictors, Chosen

LEMMA WriteFirm ==
  ASSUME Firm, NEW p \in Procs, NEW g \in Pages, NEW v \in Values, Write(p, g, v)
  PROVE  Firm'
<1>1. /\ pc[p] = "user"
      /\ UNCHANGED <<kind, pc, upage, resume, frame, victim, spte, frame_list, frame_lock, lock_f>>
      /\ pte' = [pte EXCEPT ![g].dirty = TRUE]
  BY DEF Write, From, Store, process, locks
<1>2. \A q \in Procs : SameProcess(q)
  BY <1>1 DEF SameProcess
<1>3. ProcessTypes'
  BY <1>1 DEF Firm, ProcessTypes
<1>4. TableTypes' /\ \A h \in Pages : pte'[h].frame = pte[h].frame
  BY <1>1, DirtyFacts DEF Firm, TableTypes
<1>5. HandOK(p)'
  BY <1>1, UserHand DEF HandOK, Idle, Bringing, Unmapping
<1>6. DataTypes' /\ LockTypes'
  BY CallTypes DEF Calls
<1> QED
  BY <1>1, <1>2, <1>3, <1>4, <1>5, <1>6, FirmQuiet DEF Bringing, Evictors, Chosen

(* A page is pinned for a fault, a system call, or a fault of the kernel. *)
LEMMA PinFirm ==
  ASSUME Firm, NEW p \in Procs, NEW g \in Pages,
         Fault(p, g) \/ Syscall(p, g) \/ (KernelFault(p) /\ g = upage[p])
  PROVE  Firm'
<1>1. /\ Owner[g] = p /\ spte[g].mapped
      /\ pc[p] = "user" \/ (pc[p] = "io_locked" /\ KernelFault(p) /\ ~Present(g))
      /\ UNCHANGED <<kind, frame, victim, pte, frame_list, frame_lock, lock_f>>
      /\ spte' = [spte EXCEPT ![g].inevictable = TRUE]
  <2>1. CASE KernelFault(p) /\ g = upage[p]
    BY <2>1, HandPage DEF KernelFault, From, Pin, Bring, memory, locks, Idle
  <2>2. CASE Fault(p, g) \/ Syscall(p, g)
    BY <2>2 DEF Fault, Syscall, From, Pin, Bring, memory, locks
  <2> QED
    BY <2>1, <2>2
<1>2. /\ upage'[p] = g /\ \A q \in Procs \ {p} : SameProcess(q)
      /\ \/ pc'[p] = "io" /\ pc[p] = "user"
         \/ /\ pc'[p] = "alloc" /\ resume'[p] \in {"user", "io", "io_locked"} /\ ~Present(g)
            /\ pc[p] = "user" \/ resume'[p] = "io_locked"
  <2>1. CASE KernelFault(p) /\ g = upage[p]
    BY <1>1, <2>1 DEF KernelFault, Bring, Goto, Firm, ProcessTypes, SameProcess
  <2>2. CASE Fault(p, g)
    BY <1>1, <2>2 DEF Fault, From, Bring, Goto, Firm, ProcessTypes, SameProcess
  <2>3. CASE Syscall(p, g)
    <3>1. ~spte[g].in_memory => ~Present(g)
      BY EntryFacts
    <3> QED
      BY <1>1, <2>3, <3>1 DEF Syscall, From, Bring, Goto, Firm, ProcessTypes, SameProcess
  <2> QED
    BY <2>1, <2>2, <2>3
<1>3. ProcessTypes'
  BY <1>1 DEF Fault, Syscall, KernelFault, Bring, Goto, Firm, ProcessTypes, Places, Resumes
<1>4. /\ spte' \in [Pages -> Entries]
      /\ \A h \in Pages : /\ spte'[h].mapped = spte[h].mapped
                          /\ spte'[h].in_memory = spte[h].in_memory
                          /\ spte'[h].spage_type = spte[h].spage_type
                          /\ h # g => spte'[h].inevictable = spte[h].inevictable
                          /\ h = g => spte'[h].inevictable
  <2>1. TableTypes
    BY DEF Firm
  <2>2. /\ spte' \in [Pages -> Entries]
        /\ \A h \in Pages : /\ spte'[h].mapped = spte[h].mapped
                            /\ spte'[h].in_memory = spte[h].in_memory
                            /\ spte'[h].spage_type = spte[h].spage_type
                            /\ spte'[h].inevictable = IF h = g THEN TRUE ELSE spte[h].inevictable
    BY <1>1, <2>1, PinFacts
  <2> QED
    BY <2>2
<1>5. TableTypes'
  BY <1>1, <1>4 DEF Firm, TableTypes
<1>6. DataTypes' /\ LockTypes'
  BY CallTypes, RunTypes DEF Calls, Runs
<1>7. pc[p] = "user" => lock_f # p
  BY UserHand
<1>8. HandOK(p)'
  BY <1>1, <1>2, <1>4, <1>7 DEF HandOK, Idle, Bringing, Unmapping, Present
<1>9. \A h \in Pages : Owner[h] # p => spte'[h].inevictable = spte[h].inevictable
  BY <1>1, <1>4
<1>10. pc[p] \notin Bringing /\ pc'[p] \notin {"new"} \cup Evictors
  BY <1>1, <1>2 DEF Bringing, Evictors, Chosen
<1> QED
  BY <1>1, <1>2, <1>3, <1>4, <1>5, <1>6, <1>8, <1>9, <1>10, FirmQuiet

(* lock_f for a transfer; the end of a process. *)
LEMMA MoveFirm ==
  ASSUME Firm, NEW p \in Procs, Transfer(p) \/ Exit(p) \/ Exited(p)
  PROVE  Firm'
<1>1. PICK place \in {"io_locked", "exit", "gone"} : pc' = [pc EXCEPT ![p] = place]
  BY DEF Transfer, Exit, Exited, Goto
<1>2. /\ UNCHANGED <<kind, upage, resume, frame, victim, spte, pte, frame_list, frame_lock>>
      /\ \/ pc[p] = "io" /\ place = "io_locked" /\ lock_f' = p
         \/ pc[p] \in {"user", "exit"} /\ place \in {"exit", "gone"} /\ lock_f' = lock_f
  BY <1>1 DEF Transfer, Exit, Exited, Goto, From, tables, memory, locks, Firm, ProcessTypes
<1>3. pc'[p] = place /\ \A q \in Procs \ {p} : SameProcess(q)
  BY <1>1, <1>2 DEF Firm, ProcessTypes, SameProcess
<1>4. ProcessTypes'
  BY <1>1, <1>2 DEF Firm, ProcessTypes, Places
<1>5. TableTypes'
  BY <1>2 DEF Firm, TableTypes
<1>6. DataTypes' /\ LockTypes'
  <2>1. CASE Exit(p)
    BY <2>1 DEF Exit, Firm, DataTypes, LockTypes, memory, locks
  <2>2. CASE Transfer(p) \/ Exited(p)
    BY <2>2, RunTypes DEF Runs
  <2> QED
    BY <2>1, <2>2
<1>7. pc[p] = "io" => upage[p] \in Pages /\ Owner[upage[p]] = p /\ spte[upage[p]].mapped
  BY HandPage DEF Idle
<1>8. HandOK(p)'
  BY <1>2, <1>3, <1>7, UserHand DEF HandOK, Idle, Bringing, Unmapping
<1>9. pc[p] \notin Bringing /\ pc'[p] \notin {"new"} \cup Evictors
  BY <1>2, <1>3 DEF Bringing, Evictors, Chosen
<1> QED
  BY <1>2, <1>3, <1>4, <1>5, <1>6, <1>8, <1>9, FirmQuiet

LEMMA TransferredFirm ==
  ASSUME Firm, NEW p \in Procs, Transferred(p)
  PROVE  Firm'
<1>1. /\ pc[p] = "io_locked"
      /\ UNCHANGED <<kind, frame, victim, frame_list, frame_lock>>
      /\ pte' = pte \/ pte' = [pte EXCEPT ![upage[p]].dirty = TRUE]
      /\ spte' = [spte EXCEPT ![upage[p]].inevictable = FALSE] /\ lock_f' = Nobody
  BY DEF Transferred, From, Store, ReleaseFileLock
<1>2. pc'[p] = "user" /\ upage'[p] = NoPage /\ \A q \in Procs \ {p} : SameProcess(q)
  BY <1>1 DEF Transferred, Resume, Goto, Firm, ProcessTypes, SameProcess
<1>3. ProcessTypes'
  BY <1>1 DEF Transferred, Resume, Goto, Firm, ProcessTypes, Places, Resumes
<1>4. upage[p] \in Pages /\ Owner[upage[p]] = p
  BY <1>1, HandPage DEF Idle
<1>5. /\ spte' \in [Pages -> Entries]
      /\ \A h \in Pages : /\ spte'[h].mapped = spte[h].mapped
                          /\ spte'[h].in_memory = spte[h].in_memory
                          /\ spte'[h].spage_type = spte[h].spage_type
                          /\ h # upage[p] => spte'[h].inevictable = spte[h].inevictable
  BY <1>1, <1>4, PinFacts DEF Firm
<1>6. TableTypes' /\ \A h \in Pages : pte'[h].frame = pte[h].frame
  <2>1. CASE pte' = pte
    BY <1>1, <1>5, <2>1 DEF Firm, TableTypes
  <2>2. CASE pte' = [pte EXCEPT ![upage[p]].dirty = TRUE]
    BY <1>1, <1>4, <1>5, <2>2, DirtyFacts DEF Firm, TableTypes
  <2> QED
    BY <1>1, <2>1, <2>2
<1>7. HandOK(p)'
  BY <1>1, <1>2, Distinct DEF HandOK, Idle, Bringing, Unmapping
<1>8. DataTypes' /\ LockTypes'
  BY RunTypes DEF Runs
<1>9. \A h \in Pages : Owner[h] # p => spte'[h].inevictable = spte[h].inevictable
  BY <1>4, <1>5
<1>10. pc[p] \notin Bringing /\ pc'[p] \notin {"new"} \cup Evictors
  BY <1>1, <1>2 DEF Bringing, Evictors, Chosen
<1> QED
  BY <1>1, <1>2, <1>3, <1>5, <1>6, <1>7, <1>8, <1>9, <1>10, FirmQuiet

(* What mmap_unmap() and spage_hash_remove() do first. *)
LEMMA RemoveFirm ==
  ASSUME Firm, NEW p \in Procs, NEW g \in Pages, NEW after \in {"user", "exit"},
         pc[p] = after, Owner[g] = p, UNCHANGED kind, Remove(p, g, after), DataTypes', LockTypes'
  PROVE  Firm'
<1>1. spte[g].mapped /\ UNCHANGED <<kind, victim, pte, frame_list, frame_lock, lock_f>>
  BY DEF Remove, memory, locks
<1>2. lock_f # p /\ pc[p] \in Idle /\ pc[p] # "new"
  BY UserHand DEF Idle
<1>3. CASE ~spte[g].in_memory
  <2>1. UNCHANGED <<pc, upage, resume, frame>> /\ spte' = [spte EXCEPT ![g] = Absent]
    BY <1>3 DEF Remove
  <2>2. \A q \in Procs : SameProcess(q)
    BY <1>1, <2>1 DEF SameProcess
  <2>3. ProcessTypes'
    BY <1>1, <2>1 DEF Firm, ProcessTypes
  <2>4. Absent \in Entries /\ ~Absent.mapped /\ ~Absent.in_memory
    BY DEF Absent, Entries
  <2>5. \A h \in Pages : spte'[h] = IF h = g THEN Absent ELSE spte[h]
    BY <2>1 DEF Firm, TableTypes
  <2>6. TableTypes'
    BY <1>1, <2>1, <2>4 DEF Firm, TableTypes
  <2>7. ~Present(g) /\ \A f \in Frames : frame_list[f] # g
    <3>1. ~Present(g)
      BY <1>3, EntryFacts
    <3>2. \A f \in Frames : ~Comes(g, f)
      BY <1>2 DEF Comes, Idle
    <3> QED
      BY <3>1, <3>2, EntryFacts
  <2>8. \A q \in Procs : pc[q] \in Chosen => victim[q] # g /\ victim[q] \in Pages
    BY <1>3, FirmVictim
  <2>9. HandOK(p)'
    BY <1>1, <1>2, <2>1, Places_, UserHand DEF HandOK
  <2>10. EvictionOK(p)'
    BY <1>1, <1>2, <2>1 DEF Firm, EvictionOK, Evictors, Chosen, Idle
  <2>11. ASSUME NEW h \in Pages PROVE EntryOK(h)'
    <3>1. CASE h = g
      BY <1>1, <2>4, <2>5, <2>7, <3>1 DEF EntryOK, Present
    <3>2. CASE h # g
      <4>1. \A f \in Frames : Comes(h, f) => Comes(h, f)'
        BY <2>1 DEF Comes
      <4> QED
        BY <1>1, <2>1, <2>5, <3>2, <4>1, EntryStays
    <3> QED
      BY <3>1, <3>2
  <2>12. \A h \in Pages : h # g => SamePlace(h)
    BY <1>1, <2>5 DEF SamePlace
  <2>13. \A h \in Pages : Owner[h] # p =>
           /\ spte'[h].mapped = spte[h].mapped /\ spte'[h].inevictable = spte[h].inevictable
           /\ pte'[h].frame \in {pte[h].frame, NoFrame}
           /\ Present(h) \/ spte'[h].in_memory = spte[h].in_memory
    BY <2>12 DEF SamePlace
  <2>14. \A q \in Procs \ {p} : pc[q] \in Chosen => pte'[victim[q]].frame = pte[victim[q]].frame
    BY <1>1
  <2> QED
    BY <1>1, <2>2, <2>3, <2>6, <2>9, <2>10, <2>11, <2>13, <2>14, FirmStep
<1>4. CASE spte[g].in_memory
  <2>1. /\ upage' = [upage EXCEPT ![p] = g] /\ resume' = [resume EXCEPT ![p] = after]
        /\ spte' = [spte EXCEPT ![g].inevictable = @ \/ kind[g] = "MMAP"]
        /\ \/ pc' = [pc EXCEPT ![p] = "unmap_write"] /\ UNCHANGED frame
           \/ pc' = [pc EXCEPT ![p] = "unmap_free"] /\ frame' = [frame EXCEPT ![p] = pte[g].frame]
    BY <1>4 DEF Remove, Goto
  <2>2. /\ upage'[p] = g /\ resume'[p] = after /\ \A q \in Procs \ {p} : SameProcess(q)
        /\ pc'[p] = "unmap_write" \/ (pc'[p] = "unmap_free" /\ frame'[p] = pte[g].frame)
    BY <1>1, <2>1 DEF Firm, ProcessTypes, SameProcess
  <2>3. ProcessTypes'
    <3>1. pte[g].frame \in Frames \cup {NoFrame}
      BY DEF Firm, TableTypes
    <3> QED
      BY <1>1, <2>1, <3>1 DEF Firm, ProcessTypes, Places, Resumes
  <2>4. PICK b \in BOOLEAN : spte' = [spte EXCEPT ![g].inevictable = b]
    <3>1. spte' = [spte EXCEPT ![g].inevictable = (spte[g].inevictable \/ kind[g] = "MMAP")]
      BY <2>1
    <3>2. (spte[g].inevictable \/ kind[g] = "MMAP") \in BOOLEAN
      OBVIOUS
    <3> QED
      BY <3>1, <3>2
  <2>5. /\ spte' \in [Pages -> Entries]
        /\ \A h \in Pages : /\ spte'[h].mapped = spte[h].mapped
                            /\ spte'[h].in_memory = spte[h].in_memory
                            /\ spte'[h].spage_type = spte[h].spage_type
                            /\ h # g => spte'[h].inevictable = spte[h].inevictable
    <3>1. TableTypes
      BY DEF Firm
    <3> QED
      BY <2>4, <3>1, PinFacts
  <2>6. TableTypes'
    BY <1>1, <2>5 DEF Firm, TableTypes
  <2>7. HandOK(p)'
    BY <1>1, <1>2, <2>2, <2>5 DEF HandOK, Idle, Bringing, Unmapping, Present
  <2>8. pc[p] \notin Bringing /\ pc'[p] \notin {"new"} \cup Evictors
    BY <2>2 DEF Bringing, Evictors, Chosen
  <2>9. \A h \in Pages : Owner[h] # p => spte'[h].inevictable = spte[h].inevictable
    BY <2>5
  <2> QED
    BY <1>1, <2>2, <2>3, <2>5, <2>6, <2>7, <2>8, <2>9, FirmQuiet
<1> QED
  BY <1>3, <1>4

LEMMA FirmSame ==
  ASSUME Firm, UNCHANGED <<kind, process, tables, memory, swap, file, locks, stored>>
  PROVE  Firm'
<1>1. /\ UNCHANGED <<kind, pc, upage, resume, frame, victim, spte, pte, frame_list, content>>
      /\ UNCHANGED <<swap, file, frame_lock, lock_f, swap_lock, stored>>
  BY DEF process, tables, memory, locks
<1>2. ProcessTypes' /\ TableTypes' /\ DataTypes' /\ LockTypes' /\ kind' \in Layouts
  BY <1>1 DEF Firm, ProcessTypes, TableTypes, DataTypes, LockTypes
<1>3. \A p \in Procs : HandOK(p)' /\ EvictionOK(p)'
  BY <1>1 DEF Firm, HandOK, EvictionOK, Present
<1>4. \A g \in Pages : EntryOK(g)'
  BY <1>1 DEF Firm, EntryOK, Present, Comes
<1> QED
  BY <1>2, <1>3, <1>4 DEF Firm

LEMMA UnmapWriteFirm ==
  ASSUME Firm, NEW p \in Procs, UnmapWrite(p)
  PROVE  Firm'
<1>1. /\ pc[p] = "unmap_write"
      /\ UNCHANGED <<kind, upage, resume, victim, spte, pte, frame_list, frame_lock, lock_f>>
  BY DEF UnmapWrite, From, tables, memory, locks
<1>2. CASE ~Present(upage[p])
  BY <1>2, FirmSame DEF UnmapWrite, From, process
<1>3. CASE Present(upage[p])
  <2>1. frame' = [frame EXCEPT ![p] = pte[upage[p]].frame] /\ pc' = [pc EXCEPT ![p] = "unmap_free"]
    BY <1>3 DEF UnmapWrite, Goto
  <2>2. /\ pc'[p] = "unmap_free" /\ frame'[p] = pte[upage[p]].frame
        /\ \A q \in Procs \ {p} : SameProcess(q)
    BY <1>1, <2>1 DEF Firm, ProcessTypes, SameProcess
  <2>3. upage[p] \in Pages /\ Owner[upage[p]] = p /\ spte[upage[p]].mapped
    BY <1>1, HandPage DEF Idle
  <2>4. ProcessTypes'
    <3>1. pte[upage[p]].frame \in Frames \cup {NoFrame}
      BY <2>3 DEF Firm, TableTypes
    <3> QED
      BY <1>1, <2>1, <3>1 DEF Firm, ProcessTypes, Places
  <2>5. TableTypes'
    BY <1>1 DEF Firm, TableTypes
  <2>6. DataTypes' /\ LockTypes'
    BY RunTypes DEF Runs
  <2>7. HandOK(p)'
    BY <1>1, <2>2, <2>3, UserHand DEF HandOK, Idle, Bringing, Unmapping, Present
  <2>8. pc[p] \notin Bringing /\ pc'[p] \notin {"new"} \cup Evictors
    BY <1>1, <2>2 DEF Bringing, Evictors, Chosen
  <2> QED
    BY <1>1, <2>2, <2>4, <2>5, <2>6, <2>7, <2>8, FirmQuiet
<1> QED
  BY <1>2, <1>3

(* A page that is entered was nowhere: nobody evicts it. *)
LEMMA NotEntered ==
  ASSUME Firm, NEW g \in Pages, ~spte[g].mapped
  PROVE  /\ ~Present(g) /\ \A f \in Frames : frame_list[f] # g
         /\ \A q \in Procs : pc[q] \in Chosen => victim[q] # g
<1>1. ~Present(g)
  BY EntryFacts
<1>2. \A f \in Frames : ~Comes(g, f)
  BY HandPage, Distinct DEF Comes, Idle
<1>3. \A f \in Frames : frame_list[f] # g
  BY <1>1, <1>2, EntryFacts
<1>4. \A q \in Procs : pc[q] \in Chosen => victim[q] # g
  BY FirmVictim
<1> QED
  BY <1>1, <1>3, <1>4

(***************************************************************************)
(* load(), grow_stack() and mmap_map() enter pages E, and the first two    *)
(* leave for a frame with one of them.                                     *)
(***************************************************************************)
LEMMA EnterFirm ==
  ASSUME Firm, NEW p \in Procs, NEW E \in SUBSET Pages,
         ProcessTypes', TableTypes', DataTypes', LockTypes', kind' = kind,
         \A q \in Procs \ {p} : SameProcess(q),
         lock_f' \in {lock_f, p}, frame_lock' = frame_lock, frame_list' = frame_list, pte' = pte,
         \A g \in E : /\ Owner[g] = p /\ ~spte[g].mapped
                      /\ spte'[g].mapped /\ spte'[g].spage_type # "ERROR",
         \A g \in Pages \ E : spte'[g] = spte[g],
         pc[p] \in {"new", "user"}, pc'[p] \in {"alloc", "user"}, HandOK(p)'
  PROVE  Firm'
<1>1. \A g \in E : /\ ~Present(g) /\ \A f \in Frames : frame_list[f] # g
                   /\ \A q \in Procs : pc[q] \in Chosen => victim[q] # g
  BY NotEntered
<1>2. ASSUME NEW g \in Pages PROVE EntryOK(g)'
  <2>1. CASE g \in E
    BY <1>1, <2>1 DEF EntryOK, Present
  <2>2. CASE g \notin E
    <3>1. \A f \in Frames : Comes(g, f) => Comes(g, f)'
      BY Distinct DEF Comes, SameProcess
    <3>2. pc'[Owner[g]] = "new" => pc[Owner[g]] = "new"
      BY Distinct DEF SameProcess
    <3> QED
      BY <2>2, <3>1, <3>2, EntryStays
  <2> QED
    BY <2>1, <2>2
<1>3. EvictionOK(p)'
  <2>1. frame_lock # p
    BY DEF Firm, EvictionOK, Evictors, Chosen
  <2> QED
    BY <2>1 DEF EvictionOK, Evictors, Chosen
<1>4. \A g \in Pages : Owner[g] # p => spte'[g] = spte[g]
  OBVIOUS
<1>5. \A q \in Procs \ {p} : lock_f' = q => lock_f = q
  OBVIOUS
<1> QED
  BY <1>2, <1>3, <1>4, <1>5, FirmStep

LEMMA LoadFirm ==
  ASSUME Firm, NEW p \in Procs, NEW g \in Pages, Load(p, g)
  PROVE  Firm'
<1> DEFINE E == {g} \cup {h \in Pages : Owner[h] = p /\ kind[h] = "FILE"}
<1>1. /\ pc[p] = "new" /\ Owner[g] = p /\ lock_f' = p
      /\ UNCHANGED <<kind, frame, victim, pte, frame_list, frame_lock>>
  BY DEF Load, From, MayGrow, Bring, memory
<1>2. /\ pc'[p] = "alloc" /\ upage'[p] = g /\ resume'[p] = "loaded"
      /\ \A q \in Procs \ {p} : SameProcess(q)
  BY DEF Load, Bring, Goto, Firm, ProcessTypes, SameProcess
<1>3. \A h \in Pages : spte'[h] =
        IF h = g THEN NewStack
        ELSE IF Owner[h] = p /\ kind[h] = "FILE"
             THEN [Absent EXCEPT !.mapped = TRUE, !.spage_type = "FILE"]
             ELSE spte[h]
  BY DEF Load
<1>4. ProcessTypes'
  BY DEF Load, Bring, Goto, Firm, ProcessTypes, Places, Resumes
<1>5. NewStack \in Entries /\ [Absent EXCEPT !.mapped = TRUE, !.spage_type = "FILE"] \in Entries
  BY DEF NewStack, Absent, Entries
<1>6. TableTypes'
  BY <1>1, <1>5 DEF Load, Firm, TableTypes
<1>7. DataTypes' /\ LockTypes'
  BY RunTypes DEF Runs
<1>8. \A h \in E : Owner[h] = p /\ ~spte[h].mapped
  BY <1>1, EntryFacts
<1>9. \A h \in E : spte'[h].mapped /\ spte'[h].spage_type # "ERROR"
  <2>1. NewStack.mapped /\ NewStack.spage_type # "ERROR"
    BY DEF NewStack
  <2> DEFINE e == [Absent EXCEPT !.mapped = TRUE, !.spage_type = "FILE"]
  <2>2. e.mapped /\ e.spage_type # "ERROR"
    BY DEF Absent
  <2>3. \A h \in E : spte'[h] \in {NewStack, e}
    BY <1>3
  <2> HIDE DEF e, E
  <2> QED
    BY <2>1, <2>2, <2>3
<1>10. \A h \in Pages \ E : spte'[h] = spte[h]
  BY <1>3
<1>11. ~Present(g)
  BY <1>8, EntryFacts
<1>12. spte'[g].mapped /\ spte'[g].inevictable /\ spte'[g].in_memory
  BY <1>3 DEF NewStack
<1>13. HandOK(p)'
  BY <1>1, <1>2, <1>11, <1>12 DEF HandOK, Idle, Bringing, Unmapping, Present
<1>14. E \in SUBSET Pages
  OBVIOUS
<1> HIDE DEF E
<1>15. /\ \A h \in E : /\ Owner[h] = p /\ ~spte[h].mapped
                      /\ spte'[h].mapped /\ spte'[h].spage_type # "ERROR"
       /\ lock_f' \in {lock_f, p} /\ pc[p] \in {"new", "user"} /\ pc'[p] \in {"alloc", "user"}
       /\ frame_lock' = frame_lock /\ frame_list' = frame_list /\ pte' = pte /\ kind' = kind
  BY <1>1, <1>2, <1>8, <1>9
<1>16. \A q \in Procs \ {p} : SameProcess(q)
  BY <1>2
<1> QED
  BY <1>4, <1>6, <1>7, <1>10, <1>13, <1>14, <1>15, <1>16, EnterFirm

LEMMA GrowStackFirm ==
  ASSUME Firm, NEW p \in Procs, NEW g \in Pages, NEW after \in {"user", "io"},
         GrowStack(p, g, after)
  PROVE  Firm'
<1>1. /\ pc[p] = "user" /\ Owner[g] = p /\ ~spte[g].mapped
      /\ UNCHANGED <<kind, frame, victim, pte, frame_list, frame_lock, lock_f>>
  BY DEF GrowStack, From, MayGrow, Bring, memory, locks
<1>2. /\ pc'[p] = "alloc" /\ upage'[p] = g /\ resume'[p] = after
      /\ \A q \in Procs \ {p} : SameProcess(q)
  BY DEF GrowStack, Bring, Goto, Firm, ProcessTypes, SameProcess
<1>3. \A h \in Pages : spte'[h] = IF h = g THEN NewStack ELSE spte[h]
  BY DEF GrowStack, Firm, TableTypes
<1>4. ProcessTypes'
  BY DEF GrowStack, Bring, Goto, Firm, ProcessTypes, Places, Resumes
<1>5. NewStack \in Entries
  BY DEF NewStack, Entries
<1>6. TableTypes'
  BY <1>1, <1>5 DEF GrowStack, Firm, TableTypes
<1>7. DataTypes' /\ LockTypes'
  BY CallTypes DEF Calls
<1>8. spte'[g].mapped /\ spte'[g].inevictable /\ spte'[g].in_memory /\ spte'[g].spage_type # "ERROR"
  BY <1>3 DEF NewStack
<1>9. ~Present(g) /\ lock_f # p
  BY <1>1, EntryFacts, UserHand
<1>10. HandOK(p)'
  BY <1>1, <1>2, <1>8, <1>9 DEF HandOK, Idle, Bringing, Unmapping, Present
<1> DEFINE E == {g}
<1>11. /\ E \in SUBSET Pages /\ \A h \in Pages \ E : spte'[h] = spte[h]
       /\ \A h \in E : /\ Owner[h] = p /\ ~spte[h].mapped
                      /\ spte'[h].mapped /\ spte'[h].spage_type # "ERROR"
  BY <1>1, <1>3, <1>8
<1> HIDE DEF E
<1> QED
  BY <1>1, <1>2, <1>4, <1>6, <1>7, <1>10, <1>11, EnterFirm

LEMMA MmapFirm ==
  ASSUME Firm, NEW p \in Procs, NEW g \in Pages, Mmap(p, g)
  PROVE  Firm'
<1> DEFINE e == [Absent EXCEPT !.mapped = TRUE, !.spage_type = "MMAP"]
<1>1. /\ pc[p] = "user" /\ Owner[g] = p /\ ~spte[g].mapped
      /\ UNCHANGED <<kind, pc, upage, resume, frame, victim, pte, frame_list, frame_lock, lock_f>>
      /\ spte' = [spte EXCEPT ![g] = e]
  BY DEF Mmap, From, process, memory, locks
<1>2. \A q \in Procs : SameProcess(q)
  BY <1>1 DEF SameProcess
<1>3. \A h \in Pages : spte'[h] = IF h = g THEN e ELSE spte[h]
  BY <1>1 DEF Firm, TableTypes
<1>4. e \in Entries /\ e.mapped /\ e.spage_type # "ERROR"
  BY DEF Absent, Entries
<1> HIDE DEF e
<1>5. ProcessTypes' /\ TableTypes'
  BY <1>1, <1>4 DEF Firm, ProcessTypes, TableTypes
<1>6. DataTypes' /\ LockTypes'
  BY CallTypes DEF Calls
<1>7. HandOK(p)'
  BY <1>1, UserHand DEF HandOK, Idle, Bringing, Unmapping
<1> DEFINE E == {g}
<1>8. /\ E \in SUBSET Pages /\ \A h \in Pages \ E : spte'[h] = spte[h]
      /\ \A h \in E : /\ Owner[h] = p /\ ~spte[h].mapped
                     /\ spte'[h].mapped /\ spte'[h].spage_type # "ERROR"
  BY <1>1, <1>3, <1>4
<1> HIDE DEF E
<1> QED
  BY <1>1, <1>2, <1>5, <1>6, <1>7, <1>8, EnterFirm

-----------------------------------------------------------------------------
(* Steps of a process that brings a page in, up to the choice of a victim. *)
LEMMA BringHand ==
  ASSUME Firm, NEW p \in Procs, pc[p] \in Bringing
  PROVE  /\ upage[p] \in Pages /\ Owner[upage[p]] = p /\ spte[upage[p]].mapped
         /\ ~Present(upage[p]) /\ spte[upage[p]].inevictable
         /\ resume[p] \in {"user", "io", "io_locked", "loaded"}
         /\ resume[p] = "loaded" => spte[upage[p]].in_memory
         /\ lock_f = p => resume[p] \in {"loaded", "io_locked"}
         /\ pc[p] = "fill" => frame[p] \in Frames
         /\ frame_lock = p <=> pc[p] \in Evictors
<1>1. HandOK(p) /\ EvictionOK(p)
  BY DEF Firm
<1>2. pc[p] \notin Idle /\ pc[p] \notin {"loaded", "io_locked"}
  BY DEF Bringing, Idle
<1> QED
  BY <1>1, <1>2 DEF HandOK, EvictionOK

LEMMA FrameAllocFirm ==
  ASSUME Firm, NEW p \in Procs, FrameAlloc(p)
  PROVE  Firm'
<1>1. /\ pc[p] = "alloc" /\ frame_lock = Nobody
      /\ UNCHANGED <<kind, upage, resume, victim, spte, pte, lock_f>>
      /\ \/ /\ \E f \in Frames : /\ frame_list[f] = NoPage
                                 /\ frame_list' = [frame_list EXCEPT ![f] = upage[p]]
                                 /\ frame' = [frame EXCEPT ![p] = f]
            /\ pc' = [pc EXCEPT ![p] = "fill"] /\ frame_lock' = frame_lock
         \/ /\ \A f \in Frames : frame_list[f] # NoPage
            /\ frame_lock' = p /\ pc' = [pc EXCEPT ![p] = "evict"]
            /\ UNCHANGED <<frame, frame_list>>
  BY DEF FrameAlloc, From, ReplaceLocked, Goto, tables
<1>2. pc[p] \in Bringing /\ upage[p] \in Pages /\ Owner[upage[p]] = p /\ ~Present(upage[p])
  BY <1>1, BringHand DEF Bringing
<1>3. /\ \A q \in Procs \ {p} : SameProcess(q)
      /\ pc'[p] \in {"fill", "evict"}
  BY <1>1 DEF Firm, ProcessTypes, SameProcess
<1>4. ProcessTypes'
  BY <1>1 DEF Firm, ProcessTypes, Places
<1>5. TableTypes'
  BY <1>1, <1>2 DEF Firm, TableTypes
<1>6. DataTypes' /\ LockTypes'
  BY RunTypes DEF Runs
<1>7. \A q \in Procs : pc[q] \notin Evictors
  BY <1>1, Distinct DEF Firm, EvictionOK
<1>8. pc'[p] = "fill" => frame'[p] \in Frames
  BY <1>1 DEF Firm, ProcessTypes
<1>9. HandOK(p)'
  BY <1>1, <1>2, <1>3, <1>8, BringHand DEF HandOK, Idle, Bringing, Unmapping, Present
<1>10. EvictionOK(p)'
  BY <1>1, <1>3, Distinct DEF EvictionOK, Evictors, Chosen, Firm, ProcessTypes
<1>11. ASSUME NEW g \in Pages PROVE EntryOK(g)'
  <2>1. EntryOK(g)
    BY DEF Firm
  <2>2. \A f \in Frames : Comes(g, f) => Comes(g, f)'
    BY <1>1, <1>3, Distinct DEF Comes, SameProcess
  <2>3. \A f \in Frames : frame_list'[f] = g => frame_list[f] = g \/ Comes(g, f)'
    <3>1. CASE UNCHANGED <<frame, frame_list>>
      BY <3>1
    <3>2. CASE ~UNCHANGED <<frame, frame_list>>
      <4>1. PICK f \in Frames : /\ frame_list' = [frame_list EXCEPT ![f] = upage[p]]
                                /\ frame' = [frame EXCEPT ![p] = f]
                                /\ pc' = [pc EXCEPT ![p] = "fill"]
        BY <1>1, <3>2
      <4>2. g = upage[p] => Comes(g, f)'
        BY <1>1, <1>2, <4>1 DEF Comes, Firm, ProcessTypes
      <4>3. \A e \in Frames : frame_list'[e] = IF e = f THEN upage[p] ELSE frame_list[e]
        BY <4>1 DEF Firm, TableTypes
      <4> QED
        BY <4>2, <4>3
    <3> QED
      BY <3>1, <3>2
  <2>4. pc'[Owner[g]] = "new" => pc[Owner[g]] = "new"
    BY <1>3, Distinct DEF SameProcess
  <2> QED
    BY <1>1, <2>1, <2>2, <2>3, <2>4 DEF EntryOK, Present
<1>12. \A q \in Procs \ {p} : frame_lock' = q <=> frame_lock = q
  BY <1>1, Distinct
<1>13. \A q \in Procs : pc[q] \notin Chosen
  BY <1>7 DEF Evictors
<1> QED
  BY <1>1, <1>3, <1>4, <1>5, <1>6, <1>7, <1>9, <1>10, <1>11, <1>12, <1>13, FirmStep

LEMMA ChooseFirm ==
  ASSUME Firm, NEW p \in Procs, NEW f \in Frames, Choose(p, f)
  PROVE  Firm'
<1> DEFINE g == frame_list[f]
<1>1. /\ pc[p] = "evict" /\ ~spte[g].inevictable
      /\ victim' = [victim EXCEPT ![p] = g]
      /\ UNCHANGED <<kind, upage, resume, frame, spte, pte, frame_list, frame_lock, lock_f>>
  BY DEF Choose, From, tables, memory, locks
<1>2. PICK place \in Chosen : pc' = [pc EXCEPT ![p] = place]
  BY DEF Choose, Goto, Saved, Chosen
<1>3. frame_lock = p /\ \A e \in Frames : frame_list[e] # NoPage
  BY <1>1 DEF Firm, EvictionOK, Evictors
<1>4. g \in Pages
  BY <1>3 DEF Firm, TableTypes
<1>5. Present(g) /\ pte[g].frame = f
  <2>1. EntryOK(g) /\ Owner[g] \in Procs
    BY <1>4, Distinct DEF Firm
  <2>2. ~Comes(g, f)
    BY <1>1, <2>1, BringHand, Places_ DEF Comes
  <2> QED
    BY <2>1, <2>2, Distinct DEF EntryOK, Present
<1>6. /\ pc'[p] = place /\ victim'[p] = g /\ \A q \in Procs \ {p} : SameProcess(q)
  BY <1>1, <1>2 DEF Firm, ProcessTypes, SameProcess
<1>7. ProcessTypes'
  BY <1>1, <1>2, <1>4 DEF Firm, ProcessTypes, Places, Chosen
<1>8. TableTypes'
  BY <1>1 DEF Firm, TableTypes
<1>9. DataTypes' /\ LockTypes'
  BY RunTypes DEF Runs
<1>10. /\ place \in Bringing /\ place \notin Unmapping /\ place \notin Idle /\ place # "fill"
       /\ place \in Evictors /\ pc[p] \in Bringing
  BY <1>1 DEF Chosen, Bringing, Unmapping, Idle, Evictors
<1>11. HandOK(p)'
  BY <1>1, <1>6, <1>10, BringHand DEF HandOK, Present, Unmapping
<1>12. EvictionOK(p)'
  BY <1>1, <1>3, <1>4, <1>5, <1>6, <1>10 DEF EvictionOK, Present
<1>13. ASSUME NEW h \in Pages PROVE EntryOK(h)'
  <2>1. \A e \in Frames : Comes(h, e) => Comes(h, e)'
    BY <1>1, <1>6, Distinct DEF Comes, SameProcess
  <2>2. pc'[Owner[h]] = "new" => pc[Owner[h]] = "new"
    BY <1>6, <1>10, Distinct DEF SameProcess, Idle
  <2> QED
    BY <1>1, <2>1, <2>2, EntryStays
<1> QED
  BY <1>1, <1>6, <1>7, <1>8, <1>9, <1>11, <1>12, <1>13, FirmStep

(* The copy of the page, and the panic of a full swap partition. *)
LEMMA CopiedFirm ==
  ASSUME Firm, NEW p \in Procs, pc[p] \in {"write_back", "swap_out"},
         TableTypes', DataTypes', LockTypes', kind' = kind,
         UNCHANGED <<upage, resume, frame, victim, pte, frame_list, frame_lock, lock_f>>,
         pc' = [pc EXCEPT ![p] = "unlink"],
         \A g \in Pages : /\ spte'[g].mapped = spte[g].mapped
                          /\ spte'[g].in_memory = spte[g].in_memory
                          /\ spte'[g].inevictable = spte[g].inevictable
                          /\ spte'[g].spage_type \in {spte[g].spage_type, "SWAP"}
  PROVE  Firm'
<1>1. pc'[p] = "unlink" /\ \A q \in Procs \ {p} : SameProcess(q)
  BY DEF Firm, ProcessTypes, SameProcess
<1>2. ProcessTypes'
  BY DEF Firm, ProcessTypes, Places
<1>3. pc[p] \in Bringing /\ pc[p] \in Chosen /\ pc[p] \in Evictors
  BY DEF Bringing, Chosen, Evictors
<1>4. HandOK(p)'
  BY <1>1, <1>3, BringHand DEF HandOK, Idle, Bringing, Unmapping, Present
<1>5. EvictionOK(p)'
  BY <1>1, <1>3 DEF EvictionOK, Evictors, Chosen, Firm, Present
<1>6. ASSUME NEW h \in Pages PROVE EntryOK(h)'
  <2>1. \A e \in Frames : Comes(h, e) => Comes(h, e)'
    BY <1>1, <1>3, Distinct DEF Comes, SameProcess
  <2>2. pc'[Owner[h]] = "new" => pc[Owner[h]] = "new"
    BY <1>1, Distinct DEF SameProcess
  <2> QED
    BY <2>1, <2>2, EntryStays
<1> QED
  BY <1>1, <1>2, <1>4, <1>5, <1>6, FirmStep

LEMMA WriteBackFirm ==
  ASSUME Firm, NEW p \in Procs, WriteBack(p)
  PROVE  Firm'
<1>1. CASE Panics(p, lock_f)
  BY <1>1, FirmSame DEF Panics, WriteBack, From
<1>2. CASE ~Panics(p, lock_f)
  <2>1. /\ pc[p] = "write_back" /\ pc' = [pc EXCEPT ![p] = "unlink"]
        /\ UNCHANGED <<kind, upage, resume, frame, victim, spte, pte, frame_list, frame_lock, lock_f>>
    BY <1>2 DEF WriteBack, From, Goto, tables, memory, locks
  <2>2. DataTypes' /\ LockTypes'
    BY RunTypes DEF Runs
  <2>3. TableTypes'
    BY <2>1 DEF Firm, TableTypes
  <2> QED
    BY <2>1, <2>2, <2>3, CopiedFirm
<1> QED
  BY <1>1, <1>2

LEMMA SwapOutFirm ==
  ASSUME Firm, NEW p \in Procs, SwapOut(p)
  PROVE  Firm'
<1>1. pc[p] = "swap_out" /\ UNCHANGED kind /\ victim[p] \in Pages
  BY FirmVictim DEF SwapOut, From, Chosen
<1>2. CASE panicked'
  BY <1>1, <1>2, FirmSame DEF SwapOut, From, Panics
<1>3. CASE ~panicked'
  <2>1. PICK s \in Slots :
          spte' = [spte EXCEPT ![victim[p]].spage_type = "SWAP", ![victim[p]].swap_slot_id = s]
    BY <1>3 DEF SwapOut, Panics
  <2>2. /\ pc' = [pc EXCEPT ![p] = "unlink"]
        /\ UNCHANGED <<upage, resume, frame, victim, pte, frame_list, frame_lock, lock_f>>
    BY <1>3 DEF SwapOut, Panics, Goto, memory, locks
  <2>3. DataTypes' /\ LockTypes'
    BY RunTypes DEF Runs
  <2>4. TableTypes
    BY DEF Firm
  <2>5. /\ spte' \in [Pages -> Entries]
        /\ \A h \in Pages : /\ spte'[h].mapped = spte[h].mapped
                            /\ spte'[h].in_memory = spte[h].in_memory
                            /\ spte'[h].inevictable = spte[h].inevictable
                            /\ spte'[h].spage_type =
                                 IF h = victim[p] THEN "SWAP" ELSE spte[h].spage_type
    BY <1>1, <2>1, <2>4, SwapOutFacts
  <2>6. TableTypes'
    BY <1>1, <2>2, <2>4, <2>5 DEF TableTypes
  <2> QED
    BY <1>1, <2>2, <2>3, <2>5, <2>6, CopiedFirm
<1> QED
  BY <1>2, <1>3

(* The frame changes hands. *)
LEMMA UnlinkFirm ==
  ASSUME Firm, NEW p \in Procs, Unlink(p)
  PROVE  Firm'
<1> DEFINE v == victim[p]
           g == upage[p]
<1>1. /\ pc[p] = "unlink" /\ pc' = [pc EXCEPT ![p] = "fill"]
      /\ UNCHANGED <<kind, upage, resume, lock_f>>
      /\ victim' = [victim EXCEPT ![p] = NoPage] /\ frame_lock' = Nobody
      /\ spte' = [spte EXCEPT ![v].in_memory = FALSE] /\ pte' = [pte EXCEPT ![v] = NotPresent]
  BY DEF Unlink, From, Goto
<1>2. PICK f \in Frames : /\ frame_list[f] = v
                          /\ frame_list' = [frame_list EXCEPT ![f] = g]
                          /\ frame' = [frame EXCEPT ![p] = f]
  BY DEF Unlink
<1>3. /\ v \in Pages /\ Present(v) /\ pte[v].frame \in Frames /\ spte[v].mapped
      /\ frame_list[pte[v].frame] = v /\ frame_lock = p
      /\ \A q \in Procs : pc[q] \in Bringing => upage[q] # v
  BY <1>1, FirmVictim DEF Chosen
<1>4. /\ g \in Pages /\ Owner[g] = p /\ spte[g].mapped /\ ~Present(g) /\ spte[g].inevictable
      /\ resume[p] \in {"user", "io", "io_locked", "loaded"}
      /\ (resume[p] = "loaded" => spte[g].in_memory)
      /\ (lock_f = p => resume[p] \in {"loaded", "io_locked"}) /\ g # v
  BY <1>1, <1>3, BringHand DEF Bringing
<1>5. \A e \in Frames : frame_list[e] = v => e = pte[v].frame
  <2>1. EntryOK(v)
    BY <1>3 DEF Firm
  <2>2. \A e \in Frames : ~Comes(v, e)
    BY <1>3, Distinct DEF Comes, Bringing
  <2> QED
    BY <2>1, <2>2 DEF EntryOK
<1>6. /\ pc'[p] = "fill" /\ frame'[p] = f /\ \A q \in Procs \ {p} : SameProcess(q)
  BY <1>1, <1>2 DEF Firm, ProcessTypes, SameProcess
<1>7. ProcessTypes'
  BY <1>1, <1>2 DEF Firm, ProcessTypes, Places
<1>8. TableTypes
  BY DEF Firm
<1>9. /\ spte' \in [Pages -> Entries]
      /\ \A h \in Pages : /\ spte'[h].mapped = spte[h].mapped
                          /\ spte'[h].inevictable = spte[h].inevictable
                          /\ spte'[h].spage_type = spte[h].spage_type
                          /\ spte'[h].in_memory = IF h = v THEN FALSE ELSE spte[h].in_memory
  BY <1>1, <1>3, <1>8, UnlinkFacts
<1>10. /\ \A h \in Pages : pte'[h] = IF h = v THEN NotPresent ELSE pte[h]
       /\ \A e \in Frames : frame_list'[e] = IF e = f THEN g ELSE frame_list[e]
  BY <1>1, <1>2, <1>8 DEF TableTypes
<1>11. TableTypes'
  <2>1. NotPresent \in [frame : Frames \cup {NoFrame}, dirty : BOOLEAN]
    BY DEF NotPresent
  <2> QED
    BY <1>1, <1>2, <1>4, <1>8, <1>9, <2>1 DEF TableTypes
<1>12. DataTypes' /\ LockTypes'
  BY RunTypes DEF Runs
<1>13. NotPresent.frame = NoFrame
  BY DEF NotPresent
<1>14. HandOK(p)'
  BY <1>1, <1>4, <1>6, <1>9, <1>10 DEF HandOK, Idle, Bringing, Unmapping, Present
<1>15. EvictionOK(p)'
  BY <1>1, <1>6, Distinct DEF EvictionOK, Evictors, Chosen
<1>16. ASSUME NEW h \in Pages PROVE EntryOK(h)'
  <2>1. EntryOK(h)
    BY DEF Firm
  <2>2. pc'[Owner[h]] = "new" => pc[Owner[h]] = "new"
    BY <1>6, Distinct DEF SameProcess
  <2>3. \A e \in Frames : Comes(h, e) => Comes(h, e)'
    BY <1>1, <1>6, Distinct DEF Comes, SameProcess
  <2>4. h = g => Comes(h, f)'
    BY <1>1, <1>4, <1>6 DEF Comes
  <2>5. CASE h = v
    <3>1. \A e \in Frames : frame_list'[e] # v
      BY <1>2, <1>4, <1>5, <1>10
    <3> QED
      BY <1>3, <1>9, <1>10, <1>13, <2>1, <2>2, <2>5, <3>1 DEF EntryOK, Present
  <2>6. CASE h # v
    <3>1. \A e \in Frames : frame_list'[e] = h => frame_list[e] = h \/ Comes(h, e)'
      BY <1>10, <2>4
    <3> QED
      BY <1>9, <1>10, <2>1, <2>2, <2>3, <2>6, <3>1 DEF EntryOK, Present
  <2> QED
    BY <2>5, <2>6
<1>17. \A q \in Procs \ {p} : pc[q] \notin Evictors
  BY <1>3 DEF Firm, EvictionOK
<1>18. \A q \in Procs \ {p} : frame_lock' = q <=> frame_lock = q
  BY <1>1, <1>3, Distinct
<1>19. \A h \in Pages : /\ spte'[h].mapped = spte[h].mapped
                        /\ spte'[h].inevictable = spte[h].inevictable
                        /\ pte'[h].frame \in {pte[h].frame, NoFrame}
                        /\ Present(h) \/ spte'[h].in_memory = spte[h].in_memory
  BY <1>3, <1>9, <1>10, <1>13
<1>20. \A q \in Procs \ {p} : pc[q] \notin Chosen
  BY <1>17 DEF Evictors
<1> QED
  BY <1>1, <1>6, <1>7, <1>11, <1>12, <1>14, <1>15, <1>16, <1>17, <1>18, <1>19, <1>20, FirmStep

(* The page a process waited for is in memory. *)
LEMMA InstallFirm ==
  ASSUME Firm, NEW p \in Procs, pc[p] = "fill", UNCHANGED kind, DataTypes', LockTypes',
         NEW dirty \in BOOLEAN, NEW value, Install(p, dirty, value)
  PROVE  Firm'
<1> DEFINE g == upage[p]
           f == frame[p]
           e == [frame |-> f, dirty |-> dirty]
           b == spte[g].inevictable /\ (resume[p] = "io" \/ spte[g].in_memory)
<1>1. /\ g \in Pages /\ Owner[g] = p /\ spte[g].mapped /\ ~Present(g) /\ spte[g].inevictable
      /\ resume[p] \in {"user", "io", "io_locked", "loaded"} /\ f \in Frames
      /\ (lock_f = p => resume[p] \in {"loaded", "io_locked"}) /\ frame_lock # p
  BY BringHand, Places_
<1>2. /\ UNCHANGED <<victim, frame_list, frame_lock, lock_f>>
      /\ pte' = [pte EXCEPT ![g] = e]
      /\ frame' = [frame EXCEPT ![p] = NoFrame]
      /\ pc' = [pc EXCEPT ![p] = resume[p]]
      /\ resume' = [resume EXCEPT ![p] = "user"]
      /\ upage' = IF resume[p] = "user" THEN [upage EXCEPT ![p] = NoPage] ELSE upage
      /\ spte' = [spte EXCEPT ![g].in_memory = TRUE, ![g].inevictable = b]
  <2>1. spte' = [spte EXCEPT ![g].in_memory = TRUE, ![g].inevictable = b]
    BY <1>1 DEF Install, Firm, TableTypes
  <2> QED
    BY <1>1, <2>1 DEF Install, Resume, Goto
<1>3. /\ pc'[p] = resume[p] /\ (upage'[p] = IF resume[p] = "user" THEN NoPage ELSE g)
      /\ \A q \in Procs \ {p} : SameProcess(q)
  BY <1>1, <1>2 DEF Firm, ProcessTypes, SameProcess
<1>4. /\ spte' \in [Pages -> Entries]
      /\ \A h \in Pages :
           /\ spte'[h].mapped = spte[h].mapped /\ spte'[h].spage_type = spte[h].spage_type
           /\ h # g => spte'[h] = spte[h]
           /\ h = g => spte'[h].in_memory
  <2> DEFINE k == [spte[g] EXCEPT !.in_memory = TRUE, !.inevictable = b]
  <2>1. spte \in [Pages -> Entries] /\ spte[g] \in Entries
    BY <1>1 DEF Firm, TableTypes
  <2>2. spte' = [spte EXCEPT ![g] = k]
    BY <1>1, <1>2, <2>1
  <2>3. b \in BOOLEAN
    BY <2>1 DEF Entries
  <2>4. /\ k \in Entries /\ k.mapped = spte[g].mapped /\ k.spage_type = spte[g].spage_type
        /\ k.in_memory
    BY <2>1, <2>3 DEF Entries
  <2> HIDE DEF k
  <2>5. \A h \in Pages : spte'[h] = IF h = g THEN k ELSE spte[h]
    BY <1>1, <2>1, <2>2
  <2> QED
    BY <1>1, <2>1, <2>2, <2>4, <2>5
<1>5. /\ e \in [frame : Frames \cup {NoFrame}, dirty : BOOLEAN] /\ e.frame = f
      /\ \A h \in Pages : pte'[h] = IF h = g THEN e ELSE pte[h]
  BY <1>1, <1>2 DEF Firm, TableTypes
<1> HIDE DEF e, b
<1>6. ProcessTypes'
  BY <1>1, <1>2 DEF Firm, ProcessTypes, Places, Resumes
<1>7. TableTypes'
  BY <1>2, <1>4, <1>5 DEF Firm, TableTypes
<1>8. HandOK(p)'
  BY <1>1, <1>2, <1>3, <1>4, Distinct DEF HandOK, Idle, Bringing, Unmapping
<1>9. EvictionOK(p)'
  BY <1>1, <1>2, <1>3 DEF EvictionOK, Evictors, Chosen
<1>10. ASSUME NEW h \in Pages PROVE EntryOK(h)'
  <2>1. EntryOK(h)
    BY DEF Firm
  <2>2. pc'[Owner[h]] # "new" \/ pc[Owner[h]] = "new"
    BY <1>1, <1>3, Distinct DEF SameProcess
  <2>3. CASE h = g
    <3>1. \A k \in Frames : frame_list[k] = g => k = f
      BY <1>1, <2>1, <2>3 DEF EntryOK, Comes, Present
    <3> QED
      BY <1>1, <1>2, <1>4, <1>5, <2>1, <2>2, <2>3, <3>1, Distinct DEF EntryOK, Present
  <2>4. CASE h # g
    <3>1. \A k \in Frames : Comes(h, k) => Comes(h, k)'
      BY <1>1, <1>3, <2>4, Distinct DEF Comes, SameProcess
    <3> QED
      BY <1>2, <1>4, <1>5, <2>1, <2>2, <2>4, <3>1 DEF EntryOK, Present
  <2> QED
    BY <2>3, <2>4
<1>11. \A q \in Procs : pc[q] \in Chosen => victim[q] \in Pages /\ victim[q] # g
  BY <1>1, FirmVictim, Places_
<1>12. \A q \in Procs : pc[q] \in Chosen => pte'[victim[q]].frame = pte[victim[q]].frame
  BY <1>5, <1>11
<1>13. \A h \in Pages : Owner[h] # p =>
         /\ spte'[h].mapped = spte[h].mapped /\ spte'[h].inevictable = spte[h].inevictable
         /\ pte'[h].frame \in {pte[h].frame, NoFrame}
         /\ Present(h) \/ spte'[h].in_memory = spte[h].in_memory
  BY <1>1, <1>4, <1>5
<1> QED
  BY <1>2, <1>3, <1>6, <1>7, <1>8, <1>9, <1>10, <1>12, <1>13, FirmStep

LEMMA FillFirm ==
  ASSUME Firm, NEW p \in Procs, FillStack(p) \/ FillFile(p) \/ FillSwap(p)
  PROVE  Firm'
<1>1. pc[p] = "fill" /\ UNCHANGED kind /\ DataTypes' /\ LockTypes'
  BY FillTypes DEF FillStack, FillFile, FillSwap, From
<1>2. CASE \E lock \in {lock_f, swap_lock} : Panics(p, lock)
  BY <1>1, <1>2, FirmSame DEF Panics
<1>3. CASE \A lock \in {lock_f, swap_lock} : ~Panics(p, lock)
  <2>1. PICK dirty \in BOOLEAN, value \in {Junk} \cup {file[upage[p]]} \cup {swap[s].data : s \in Slots \cup {spte[upage[p]].swap_slot_id}} :
          Install(p, dirty, value)
    BY <1>3 DEF FillStack, FillFile, FillSwap
  <2> QED
    BY <1>1, <2>1, InstallFirm
<1> QED
  BY <1>2, <1>3

(* The frame of a page that is removed; it may be another page's by now. *)
LEMMA UnmapFreeFirm ==
  ASSUME Firm, NEW p \in Procs, UnmapFree(p)
  PROVE  Firm'
<1> DEFINE g == upage[p]
           f == frame[p]
<1>1. /\ pc[p] = "unmap_free" /\ frame_lock = Nobody
      /\ UNCHANGED <<kind, victim, frame_lock, lock_f>>
      /\ frame_list' = [h \in Frames |-> IF h = f THEN NoPage ELSE frame_list[h]]
      /\ pte' = [pte EXCEPT ![g] = NotPresent] /\ spte' = [spte EXCEPT ![g] = Absent]
      /\ frame' = [frame EXCEPT ![p] = NoFrame]
  BY DEF UnmapFree, From, Delisted, locks
<1>2. /\ g \in Pages /\ Owner[g] = p /\ lock_f # p /\ resume[p] \in {"user", "exit"}
      /\ Present(g) => f = pte[g].frame
  <2>1. HandOK(p)
    BY DEF Firm
  <2> QED
    BY <1>1, <2>1, HandPage, UserHand DEF HandOK, Idle, Unmapping
<1>3. /\ pc'[p] = resume[p] /\ upage'[p] = NoPage /\ \A q \in Procs \ {p} : SameProcess(q)
  BY <1>1, <1>2 DEF UnmapFree, Resume, Goto, Firm, ProcessTypes, SameProcess
<1>4. ProcessTypes'
  BY <1>1, <1>2 DEF UnmapFree, Resume, Goto, Firm, ProcessTypes, Places, Resumes
<1>5. /\ \A h \in Pages : /\ spte'[h] = IF h = g THEN Absent ELSE spte[h]
                          /\ pte'[h] = IF h = g THEN NotPresent ELSE pte[h]
      /\ \A k \in Frames : frame_list'[k] = IF k = f THEN NoPage ELSE frame_list[k]
  BY <1>1 DEF Firm, TableTypes
<1>6. /\ Absent \in Entries /\ ~Absent.mapped /\ ~Absent.in_memory
      /\ NotPresent \in [frame : Frames \cup {NoFrame}, dirty : BOOLEAN] /\ NotPresent.frame = NoFrame
  BY DEF Absent, Entries, NotPresent
<1>7. TableTypes'
  BY <1>1, <1>2, <1>6 DEF Firm, TableTypes
<1>8. DataTypes' /\ LockTypes'
  BY RunTypes DEF Runs
<1>9. HandOK(p)'
  BY <1>1, <1>2, <1>3 DEF HandOK, Idle, Bringing, Unmapping
<1>10. \A q \in Procs : pc[q] \notin Evictors /\ pc[q] \notin Chosen
  BY <1>1, Distinct DEF Firm, EvictionOK, Evictors
<1>11. EvictionOK(p)'
  BY <1>1, <1>2, <1>3, Distinct DEF EvictionOK, Evictors, Chosen
<1>12. ASSUME NEW h \in Pages PROVE EntryOK(h)'
  <2>1. EntryOK(h)
    BY DEF Firm
  <2>2. pc'[Owner[h]] # "new" \/ pc[Owner[h]] = "new"
    BY <1>2, <1>3, Distinct DEF SameProcess
  <2>3. CASE h = g
    <3>1. \A k \in Frames : frame_list[k] = g => k = f
      BY <1>1, <1>2, <2>1, <2>3, Distinct DEF EntryOK, Comes, Present
    <3>2. \A k \in Frames : frame_list'[k] # g
      BY <1>2, <1>5, <3>1, Distinct
    <3> QED
      BY <1>5, <1>6, <2>3, <3>2 DEF EntryOK, Present
  <2>4. CASE h # g
    <3>1. \A k \in Frames : Comes(h, k) => Comes(h, k)'
      BY <1>1, <1>3, Distinct DEF Comes, SameProcess
    <3>2. \A k \in Frames : frame_list'[k] = h => frame_list[k] = h
      BY <1>5, Distinct
    <3> QED
      BY <1>5, <2>1, <2>2, <2>4, <3>1, <3>2 DEF EntryOK, Present
  <2> QED
    BY <2>3, <2>4
<1>13. \A h \in Pages : Owner[h] # p =>
         /\ spte'[h].mapped = spte[h].mapped /\ spte'[h].inevictable = spte[h].inevictable
         /\ pte'[h].frame \in {pte[h].frame, NoFrame}
         /\ Present(h) \/ spte'[h].in_memory = spte[h].in_memory
  BY <1>2, <1>5
<1> QED
  BY <1>1, <1>3, <1>4, <1>7, <1>8, <1>9, <1>10, <1>11, <1>12, <1>13, FirmStep

LEMMA FirmInit == Init => Firm
<1> SUFFICES ASSUME Init PROVE Firm
  OBVIOUS
<1>1. ProcessTypes /\ LockTypes
  BY DEF Init, ProcessTypes, Places, Resumes, LockTypes
<1>2. TableTypes /\ kind \in Layouts
  BY DEF Init, PagingAssumption, TableTypes, Kinds, Absent, NotPresent, Entries
<1>3. DataTypes
  BY DEF Init, DataTypes, FreeSlot
<1>4. \A p \in Procs : HandOK(p) /\ EvictionOK(p)
  BY Distinct DEF Init, HandOK, EvictionOK, Idle, Bringing, Unmapping, Evictors, Chosen
<1>5. \A g \in Pages : EntryOK(g)
  BY Distinct DEF Init, EntryOK, Present, NotPresent, Absent
<1> QED
  BY <1>1, <1>2, <1>3, <1>4, <1>5 DEF Firm

LEMMA FirmNext ==
  ASSUME Firm, Next
  PROVE  Firm'
<1>1. PICK p \in Procs : Runs(p) \/ Exit(p) \/ \E g \in Pages : Calls(p, g)
  BY DEF Next
<1>2. CASE Exit(p)
  BY <1>2, MoveFirm
<1>3. CASE Runs(p)
  <2>1. CASE \/ Loaded(p) \/ Transferred(p) \/ Transfer(p) \/ Exited(p)
             \/ UnmapWrite(p) \/ UnmapFree(p)
    BY <2>1, LoadedFirm, TransferredFirm, MoveFirm, UnmapWriteFirm, UnmapFreeFirm
  <2>2. CASE FrameAlloc(p) \/ WriteBack(p) \/ SwapOut(p) \/ Unlink(p)
    BY <2>2, FrameAllocFirm, WriteBackFirm, SwapOutFirm, UnlinkFirm
  <2>3. CASE FillStack(p) \/ FillFile(p) \/ FillSwap(p)
    BY <2>3, FillFirm
  <2>4. CASE KernelFault(p)
    <3>1. upage[p] \in Pages
      BY <2>4, HandPage DEF KernelFault, From, Idle
    <3> QED
      BY <2>4, <3>1, PinFirm
  <2>5. CASE \E f \in Frames : Choose(p, f)
    BY <2>5, ChooseFirm
  <2>6. CASE \E g \in Pages : ExitPage(p, g)
    <3>1. DataTypes' /\ LockTypes'
      BY <1>3, RunTypes
    <3> QED
      BY <2>6, <3>1, RemoveFirm DEF ExitPage, From, Mapped
  <2>7. CASE \E g \in Pages : Load(p, g)
    BY <2>7, LoadFirm
  <2> QED
    BY <1>3, <2>1, <2>2, <2>3, <2>4, <2>5, <2>6, <2>7 DEF Runs
<1>4. CASE \E g \in Pages : Calls(p, g)
  <2>1. PICK g \in Pages : Calls(p, g)
    BY <1>4
  <2>2. CASE \E v \in Values : Write(p, g, v)
    BY <2>2, WriteFirm
  <2>3. CASE Fault(p, g) \/ Syscall(p, g)
    BY <2>3, PinFirm
  <2>4. CASE Mmap(p, g)
    BY <2>4, MmapFirm
  <2>5. CASE Munmap(p, g)
    <3>1. DataTypes' /\ LockTypes'
      BY <2>1, CallTypes
    <3> QED
      BY <2>5, <3>1, RemoveFirm DEF Munmap, From
  <2>6. CASE \E after \in {"user", "io"} : GrowStack(p, g, after)
    BY <2>6, GrowStackFirm
  <2> QED
    BY <2>1, <2>2, <2>3, <2>4, <2>5, <2>6 DEF Calls
<1> QED
  BY <1>1, <1>2, <1>3, <1>4

THEOREM FirmAlways == Spec => []Firm
<1>1. Firm /\ [Next]_vars => Firm'
  <2>1. Firm /\ UNCHANGED vars => Firm'
    BY FirmSame DEF vars
  <2> QED
    BY <2>1, FirmNext
<1> QED
  BY <1>1, FirmInit, PTL DEF Spec

-----------------------------------------------------------------------------
(***************************************************************************)
(* The slots of the swap partition: until a clean page of the stack is     *)
(* dropped, a page that has a slot has it to itself, and swap_in() finds   *)
(* it in use, so that it releases swap_lock.                               *)
(***************************************************************************)
Written == "unwritten" \notin spoiled
BackOK(p) == pc[p] = "write_back" => spte[victim[p]].spage_type # "SWAP"
SlotsOK ==
  /\ swap_lock = Nobody
  /\ \A g \in Pages : SlotOK(g)
  /\ \A p \in Procs : BackOK(p)
SlotsHold == Written => SlotsOK

(* A step that gives no page a slot, and takes none that is still owned. *)
LEMMA SlotsStay ==
  ASSUME SlotsOK, swap_lock' = swap_lock,
         \A g \in Pages : HasSlot(g)' =>
           /\ HasSlot(g) /\ spte'[g].swap_slot_id = spte[g].swap_slot_id
           /\ swap'[spte[g].swap_slot_id] = swap[spte[g].swap_slot_id],
         \A p \in Procs : BackOK(p)'
  PROVE  SlotsOK'
<1>1. ASSUME NEW g \in Pages PROVE SlotOK(g)'
  <2>1. SlotOK(g)
    BY DEF SlotsOK
  <2> QED
    BY <2>1 DEF SlotOK
<1> QED
  BY <1>1 DEF SlotsOK

(* A step that unlinks nothing and leaves the partition alone. *)
LEMMA SlotsQuiet ==
  ASSUME Firm, SlotsOK, NEW p \in Procs, UNCHANGED <<victim, swap, swap_lock>>,
         pc' = pc \/ \E place \in Places \ {"write_back", "unlink"} : pc' = [pc EXCEPT ![p] = place],
         \A g \in Pages :
           \/ /\ spte'[g].spage_type = spte[g].spage_type
              /\ spte'[g].in_memory = spte[g].in_memory
              /\ spte'[g].swap_slot_id = spte[g].swap_slot_id
           \/ spte'[g].spage_type # "SWAP"
           \/ spte'[g].in_memory /\ \A q \in Procs : pc[q] \in Chosen => victim[q] # g
  PROVE  SlotsOK'
<1>1. \A q \in Procs : \A place \in {"unlink", "write_back"} : pc'[q] = place => pc[q] = place
  BY DEF Firm, ProcessTypes
<1>2. \A g \in Pages : Leaving(g)' => Leaving(g)
  BY <1>1 DEF Leaving
<1>3. \A g \in Pages : Leaving(g) => \E q \in Procs : pc[q] \in Chosen /\ victim[q] = g
  BY DEF Leaving, Chosen
<1>4. \A g \in Pages : HasSlot(g)' =>
        /\ HasSlot(g) /\ spte'[g].swap_slot_id = spte[g].swap_slot_id
        /\ swap'[spte[g].swap_slot_id] = swap[spte[g].swap_slot_id]
  BY <1>2, <1>3 DEF HasSlot
<1>5. ASSUME NEW q \in Procs PROVE BackOK(q)'
  <2> SUFFICES ASSUME pc[q] = "write_back" PROVE spte'[victim[q]].spage_type # "SWAP"
    BY <1>1 DEF BackOK
  <2>1. pc[q] \in Chosen /\ victim[q] \in Pages /\ spte[victim[q]].spage_type # "SWAP"
    BY FirmVictim DEF Chosen, SlotsOK, BackOK
  <2> QED
    BY <2>1
<1> QED
  BY <1>4, <1>5, SlotsStay

LEMMA SlotsKeep ==
  ASSUME Firm, SlotsOK, NEW p \in Procs,
         \/ Loaded(p) \/ FrameAlloc(p) \/ Transfer(p) \/ Exited(p) \/ Exit(p) \/ UnmapWrite(p)
         \/ \E g \in Pages, v \in Values : Write(p, g, v)
  PROVE  SlotsOK'
<1>1. /\ UNCHANGED <<victim, swap, swap_lock, spte>>
      /\ pc' = pc \/ \E place \in Places \ {"write_back", "unlink"} : pc' = [pc EXCEPT ![p] = place]
  <2>1. CASE Loaded(p)
    BY <2>1 DEF Loaded, Resume, Goto, Places
  <2>2. CASE FrameAlloc(p)
    BY <2>2 DEF FrameAlloc, Goto, Places, tables
  <2>3. CASE Transfer(p) \/ Exited(p) \/ Exit(p)
    BY <2>3 DEF Transfer, Exited, Exit, Goto, Places, tables, locks
  <2>4. CASE UnmapWrite(p)
    BY <2>4 DEF UnmapWrite, Goto, Places, tables, locks
  <2>5. CASE \E g \in Pages, v \in Values : Write(p, g, v)
    BY <2>5 DEF Write, process, locks
  <2> QED
    BY <2>1, <2>2, <2>3, <2>4, <2>5
<1> QED
  BY <1>1, SlotsQuiet

LEMMA SlotsPin ==
  ASSUME Firm, SlotsOK, NEW p \in Procs, NEW g \in Pages,
         \/ Fault(p, g) \/ Syscall(p, g)
         \/ (KernelFault(p) \/ Transferred(p)) /\ g = upage[p]
  PROVE  SlotsOK'
<1>1. /\ UNCHANGED <<victim, swap, swap_lock>>
      /\ \E place \in Places \ {"write_back", "unlink"} : pc' = [pc EXCEPT ![p] = place]
      /\ \E b \in BOOLEAN : spte' = [spte EXCEPT ![g].inevictable = b]
  <2>1. CASE Fault(p, g)
    BY <2>1 DEF Fault, Pin, Bring, Goto, Places, locks
  <2>2. CASE Syscall(p, g)
    BY <2>2 DEF Syscall, Pin, Bring, Goto, Places, locks
  <2>3. CASE KernelFault(p) /\ g = upage[p]
    BY <2>3 DEF KernelFault, Pin, Bring, Goto, Places, locks
  <2>4. CASE Transferred(p) /\ g = upage[p]
    BY <2>4 DEF Transferred, Resume, Goto, Places
  <2> QED
    BY <2>1, <2>2, <2>3, <2>4
<1>2. TableTypes
  BY DEF Firm
<1>3. \A h \in Pages : /\ spte'[h].spage_type = spte[h].spage_type
                       /\ spte'[h].in_memory = spte[h].in_memory
                       /\ spte'[h].swap_slot_id = spte[h].swap_slot_id
  BY <1>1, <1>2, PinFacts
<1> QED
  BY <1>1, <1>3, SlotsQuiet

LEMMA SlotsEnter ==
  ASSUME Firm, SlotsOK, NEW p \in Procs, NEW g \in Pages,
         Load(p, g) \/ Mmap(p, g) \/ \E after \in {"user", "io"} : GrowStack(p, g, after)
  PROVE  SlotsOK'
<1>1. /\ UNCHANGED <<victim, swap, swap_lock>>
      /\ pc' = pc \/ \E place \in Places \ {"write_back", "unlink"} : pc' = [pc EXCEPT ![p] = place]
  <2>1. CASE Load(p, g)
    BY <2>1 DEF Load, Bring, Goto, Places
  <2>2. CASE Mmap(p, g)
    BY <2>2 DEF Mmap, process, locks
  <2>3. CASE \E after \in {"user", "io"} : GrowStack(p, g, after)
    BY <2>3 DEF GrowStack, Bring, Goto, Places, locks
  <2> QED
    BY <2>1, <2>2, <2>3
<1>2. \A q \in Procs : pc[q] \in Chosen => victim[q] # g
  <2>1. ~spte[g].mapped
    BY DEF Load, Mmap, GrowStack, MayGrow
  <2> QED
    BY <2>1, NotEntered
<1>3. /\ NewStack.in_memory
      /\ \A type \in {"FILE", "MMAP"} :
           [Absent EXCEPT !.mapped = TRUE, !.spage_type = type].spage_type # "SWAP"
  BY DEF NewStack, Absent
<1>4. \A h \in Pages : spte'[h] = spte[h] \/ spte'[h].spage_type # "SWAP"
                       \/ (h = g /\ spte'[h].in_memory)
  <2>1. CASE Load(p, g)
    BY <1>3, <2>1 DEF Load
  <2>2. CASE Mmap(p, g)
    BY <1>3, <2>2 DEF Mmap, Firm, TableTypes
  <2>3. CASE \E after \in {"user", "io"} : GrowStack(p, g, after)
    BY <1>3, <2>3 DEF GrowStack, Firm, TableTypes
  <2> QED
    BY <2>1, <2>2, <2>3
<1> QED
  BY <1>1, <1>2, <1>4, SlotsQuiet

LEMMA SlotsRemove ==
  ASSUME Firm, SlotsOK, NEW p \in Procs, NEW g \in Pages, NEW after, Remove(p, g, after)
  PROVE  SlotsOK'
<1>1. /\ UNCHANGED <<victim, swap, swap_lock>>
      /\ pc' = pc \/ \E place \in Places \ {"write_back", "unlink"} : pc' = [pc EXCEPT ![p] = place]
  BY DEF Remove, Goto, Places, locks
<1>2. Absent.spage_type # "SWAP" /\ TableTypes
  BY DEF Absent, Firm
<1>3. CASE ~spte[g].in_memory
  <2>1. \A h \in Pages : spte'[h] = IF h = g THEN Absent ELSE spte[h]
    BY <1>2, <1>3 DEF Remove, TableTypes
  <2> QED
    BY <1>1, <1>2, <2>1, SlotsQuiet
<1>4. CASE spte[g].in_memory
  <2>1. spte' = [spte EXCEPT ![g].inevictable = (spte[g].inevictable \/ kind[g] = "MMAP")]
    BY <1>4 DEF Remove
  <2>2. (spte[g].inevictable \/ kind[g] = "MMAP") \in BOOLEAN
    OBVIOUS
  <2>3. \A h \in Pages : /\ spte'[h].spage_type = spte[h].spage_type
                         /\ spte'[h].in_memory = spte[h].in_memory
                         /\ spte'[h].swap_slot_id = spte[h].swap_slot_id
    BY <1>2, <2>1, <2>2, PinFacts
  <2> QED
    BY <1>1, <2>3, SlotsQuiet
<1> QED
  BY <1>3, <1>4

LEMMA SlotsUnmapFree ==
  ASSUME Firm, SlotsOK, NEW p \in Procs, UnmapFree(p)
  PROVE  SlotsOK'
<1>1. UNCHANGED <<victim, swap, swap_lock>> /\ spte' = [spte EXCEPT ![upage[p]] = Absent]
  BY DEF UnmapFree, locks
<1>2. \E place \in Places \ {"write_back", "unlink"} : pc' = [pc EXCEPT ![p] = place]
  <2>1. resume[p] \in {"user", "exit"}
    BY UserHand DEF UnmapFree, From, Unmapping
  <2> QED
    BY <2>1 DEF UnmapFree, Resume, Goto, Places
<1>3. Absent.spage_type # "SWAP"
  BY DEF Absent
<1>4. \A h \in Pages : spte'[h] = spte[h] \/ spte'[h].spage_type # "SWAP"
  BY <1>1, <1>3 DEF Firm, TableTypes
<1> QED
  BY <1>1, <1>2, <1>4, SlotsQuiet

(* A clean page of the stack has no slot: it is dropped. *)
LEMMA SlotsChoose ==
  ASSUME Firm, SlotsOK, NEW p \in Procs, NEW f \in Frames, Choose(p, f), Written'
  PROVE  SlotsOK'
<1> DEFINE g == frame_list[f]
<1>1. /\ pc[p] = "evict" /\ UNCHANGED <<spte, swap, swap_lock>>
      /\ victim' = [victim EXCEPT ![p] = g]
      /\ pc' = [pc EXCEPT ![p] = IF pte[g].dirty THEN Saved(g) ELSE "unlink"]
      /\ spte[g].spage_type = "SWAP" => pte[g].dirty
  BY DEF Choose, From, Goto, Written, tables, locks
<1>2. pc'[p] = "unlink" => spte[victim'[p]].spage_type # "SWAP"
  BY <1>1 DEF Saved, Firm, ProcessTypes
<1>3. \A q \in Procs \ {p} : pc'[q] = pc[q] /\ victim'[q] = victim[q]
  BY <1>1 DEF Firm, ProcessTypes
<1>4. \A h \in Pages : Leaving(h)' => Leaving(h) \/ spte[h].spage_type # "SWAP"
  BY <1>2, <1>3 DEF Leaving
<1>5. \A h \in Pages : HasSlot(h)' => HasSlot(h)
  BY <1>1, <1>4 DEF HasSlot
<1>6. ASSUME NEW q \in Procs PROVE BackOK(q)'
  <2>1. CASE q = p
    <3>1. pc'[p] = "write_back" => spte[victim'[p]].spage_type = "MMAP"
      BY <1>1 DEF Saved, Firm, ProcessTypes
    <3> QED
      BY <1>1, <2>1, <3>1 DEF BackOK
  <2>2. CASE q # p
    BY <1>1, <1>3, <2>2 DEF SlotsOK, BackOK
  <2> QED
    BY <2>1, <2>2
<1> QED
  BY <1>1, <1>5, <1>6, SlotsStay

LEMMA SlotsWriteBack ==
  ASSUME Firm, SlotsOK, NEW p \in Procs, WriteBack(p)
  PROVE  SlotsOK'
<1>1. /\ pc[p] = "write_back" /\ UNCHANGED <<victim, swap, swap_lock, spte>>
      /\ pc' \in {pc, [pc EXCEPT ![p] = "unlink"]}
  BY DEF WriteBack, Panics, From, Goto, process, tables, locks
<1>2. spte[victim[p]].spage_type # "SWAP"
  BY <1>1 DEF SlotsOK, BackOK
<1>3. \A q \in Procs : /\ pc'[q] = "unlink" => pc[q] = "unlink" \/ q = p
                       /\ pc'[q] = "write_back" => pc[q] = "write_back"
  BY <1>1 DEF Firm, ProcessTypes
<1>4. \A h \in Pages : Leaving(h)' => Leaving(h) \/ spte[h].spage_type # "SWAP"
  BY <1>1, <1>2, <1>3 DEF Leaving
<1>5. \A h \in Pages : HasSlot(h)' => HasSlot(h)
  BY <1>1, <1>4 DEF HasSlot
<1>6. \A q \in Procs : BackOK(q)'
  BY <1>1, <1>3 DEF SlotsOK, BackOK
<1> QED
  BY <1>1, <1>5, <1>6, SlotsStay

(* swap_out() takes a slot that is not in use. *)
LEMMA SlotsSwapOut ==
  ASSUME Firm, SlotsOK, NEW p \in Procs, SwapOut(p)
  PROVE  SlotsOK'
<1> PICK g \in Pages : g = victim[p]
  BY FirmVictim DEF SwapOut, From, Chosen
<1>1. /\ pc[p] = "swap_out" /\ UNCHANGED <<victim, swap_lock>> /\ g \in Pages
      /\ \A q \in Procs : pc[q] \in Chosen => q = p
  <2>1. /\ pc[p] = "swap_out" /\ UNCHANGED <<victim, swap_lock>>
    BY DEF SwapOut, Panics, From, process, locks
  <2> QED
    BY <2>1, FirmVictim DEF Chosen
<1>2. CASE UNCHANGED <<pc, spte, swap>>
  BY <1>1, <1>2, SlotsQuiet
<1>3. CASE ~UNCHANGED <<pc, spte, swap>>
  <2>1. PICK s \in Slots :
          /\ ~swap[s].used
          /\ swap' = [swap EXCEPT ![s] = UsedSlot(content[pte[g].frame])]
          /\ spte' = [spte EXCEPT ![g].spage_type = "SWAP", ![g].swap_slot_id = s]
          /\ pc' = [pc EXCEPT ![p] = "unlink"]
    BY <1>3 DEF SwapOut, Panics, FirstFree, Goto, process, tables
  <2>2. TableTypes
    BY DEF Firm
  <2>3. \A h \in Pages :
          /\ spte'[h].mapped = spte[h].mapped
          /\ spte'[h].in_memory = spte[h].in_memory
          /\ spte'[h].inevictable = spte[h].inevictable
          /\ spte'[h].spage_type = IF h = g THEN "SWAP" ELSE spte[h].spage_type
          /\ spte'[h].swap_slot_id = IF h = g THEN s ELSE spte[h].swap_slot_id
    <3>1. spte' = [spte EXCEPT ![g].spage_type = "SWAP", ![g].swap_slot_id = s]
      BY <2>1
    <3>2. /\ spte' \in [Pages -> Entries]
          /\ \A h \in Pages :
               /\ spte'[h].mapped = spte[h].mapped
               /\ spte'[h].in_memory = spte[h].in_memory
               /\ spte'[h].inevictable = spte[h].inevictable
               /\ spte'[h].spage_type = IF h = g THEN "SWAP" ELSE spte[h].spage_type
               /\ spte'[h].swap_slot_id = IF h = g THEN s ELSE spte[h].swap_slot_id
      BY ONLY TableTypes, g \in Pages, s \in Slots, <3>1, SwapOutFacts
    <3> QED
      BY <3>2
  <2>4. swap'[s].used /\ \A t \in Slots : t # s => swap'[t] = swap[t]
    BY <2>1 DEF UsedSlot, Firm, DataTypes
  <2>5. \A h \in Pages : h # g /\ Leaving(h)' => Leaving(h)
    BY <1>1, <2>1 DEF Leaving, Firm, ProcessTypes
  <2>6. \A h \in Pages : h # g /\ HasSlot(h)' => HasSlot(h)
    BY <2>3, <2>5 DEF HasSlot
  <2>7. \A h \in Pages : HasSlot(h) => spte[h].swap_slot_id # s
    BY <2>1 DEF SlotsOK, SlotOK
  <2>8. ASSUME NEW h \in Pages PROVE SlotOK(h)'
    <3> SUFFICES ASSUME HasSlot(h)'
                 PROVE  /\ spte'[h].swap_slot_id \in Slots
                        /\ swap'[spte'[h].swap_slot_id].used
                        /\ \A k \in Pages : HasSlot(k)' /\
                             spte'[k].swap_slot_id = spte'[h].swap_slot_id => k = h
      BY DEF SlotOK
    <3>1. CASE h = g
      BY <2>3, <2>4, <2>6, <2>7, <3>1
    <3>2. CASE h # g
      <4>1. HasSlot(h) /\ SlotOK(h)
        BY <2>6, <3>2 DEF SlotsOK
      <4> QED
        BY <2>3, <2>4, <2>6, <2>7, <3>2, <4>1 DEF SlotOK
    <3> QED
      BY <3>1, <3>2
  <2>9. \A q \in Procs : pc'[q] # "write_back"
    BY <1>1, <2>1 DEF Chosen, Firm, ProcessTypes
  <2> QED
    BY <1>1, <2>8, <2>9 DEF SlotsOK, BackOK
<1> QED
  BY <1>2, <1>3

LEMMA SlotsUnlink ==
  ASSUME Firm, SlotsOK, NEW p \in Procs, Unlink(p)
  PROVE  SlotsOK'
<1> DEFINE g == victim[p]
<1>1. /\ pc[p] = "unlink" /\ UNCHANGED <<swap, swap_lock>>
      /\ victim' = [victim EXCEPT ![p] = NoPage] /\ pc' = [pc EXCEPT ![p] = "fill"]
      /\ spte' = [spte EXCEPT ![g].in_memory = FALSE]
  BY DEF Unlink, From, Goto
<1>2. g \in Pages /\ Leaving(g)
  BY <1>1, FirmVictim DEF Chosen, Leaving
<1>3. TableTypes
  BY DEF Firm
<1>4. \A h \in Pages :
        /\ spte'[h].in_memory = IF h = g THEN FALSE ELSE spte[h].in_memory
        /\ spte'[h].spage_type = spte[h].spage_type
        /\ spte'[h].swap_slot_id = spte[h].swap_slot_id
  BY <1>1, <1>2, <1>3, UnlinkFacts
<1>5. \A q \in Procs : /\ pc'[q] = "unlink" => pc[q] = "unlink" /\ victim'[q] = victim[q]
                       /\ pc'[q] = "write_back" => pc[q] = "write_back" /\ victim'[q] = victim[q]
  BY <1>1 DEF Firm, ProcessTypes
<1>6. \A h \in Pages : Leaving(h)' => Leaving(h)
  BY <1>5 DEF Leaving
<1>7. \A h \in Pages : HasSlot(h)' => HasSlot(h)
  BY <1>2, <1>4, <1>6 DEF HasSlot
<1>8. ASSUME NEW q \in Procs PROVE BackOK(q)'
  <2> SUFFICES ASSUME pc[q] = "write_back" PROVE spte'[victim[q]].spage_type # "SWAP"
    BY <1>5 DEF BackOK
  <2>1. victim[q] \in Pages /\ spte[victim[q]].spage_type # "SWAP"
    BY FirmVictim DEF Chosen, SlotsOK, BackOK
  <2> QED
    BY <1>4, <2>1
<1> QED
  BY <1>1, <1>4, <1>7, <1>8, SlotsStay

(* The page is in memory and gives up the slot it had. *)
LEMMA SlotsFill ==
  ASSUME Firm, SlotsOK, NEW p \in Procs, FillStack(p) \/ FillFile(p) \/ FillSwap(p)
  PROVE  SlotsOK'
<1> PICK g \in Pages : g = upage[p]
  BY BringHand DEF FillStack, FillFile, FillSwap, From, Bringing
<1>1. /\ pc[p] = "fill" /\ g \in Pages /\ resume[p] \in {"user", "io", "io_locked", "loaded"}
      /\ \A q \in Procs : pc[q] \in Chosen => victim[q] # g /\ victim[q] \in Pages
  <2>1. pc[p] = "fill"
    BY DEF FillStack, FillFile, FillSwap, From
  <2> QED
    BY <2>1, BringHand, FirmVictim DEF Bringing
<1>2. /\ \A q \in Procs : ~(pc[q] = "unlink" /\ victim[q] = g)
      /\ \A q \in Procs : pc[q] = "write_back" => victim[q] \in Pages /\ BackOK(q)
  BY <1>1 DEF Chosen, SlotsOK
<1>3. CASE UNCHANGED <<pc, spte, victim, swap, swap_lock>>
  BY <1>3, SlotsQuiet
<1>4. CASE ~UNCHANGED <<pc, spte, victim, swap, swap_lock>>
  <2>1. ASSUME NEW dirty, NEW value, Install(p, dirty, value)
        PROVE  /\ UNCHANGED victim /\ pc' = [pc EXCEPT ![p] = resume[p]]
               /\ \A h \in Pages : h # g => spte'[h] = spte[h]
               /\ spte'[g].in_memory /\ spte'[g].spage_type = spte[g].spage_type
    BY <1>1, <2>1 DEF Install, Resume, Goto, Firm, TableTypes
  <2>2. /\ UNCHANGED victim /\ pc' = [pc EXCEPT ![p] = resume[p]]
        /\ \A h \in Pages : h # g => spte'[h] = spte[h]
        /\ spte'[g].in_memory /\ spte'[g].spage_type = spte[g].spage_type
    <3>1. \E dirty, value : Install(p, dirty, value)
      BY <1>4 DEF FillStack, FillFile, FillSwap, Panics, process, tables, locks
    <3> QED
      BY <2>1, <3>1
  <2>3. swap_lock' = swap_lock
        /\ (swap' = swap \/ (HasSlot(g) /\ swap' = [swap EXCEPT ![spte[g].swap_slot_id] = FreeSlot]))
    <3>1. CASE FillStack(p) \/ FillFile(p)
      BY <1>4, <3>1 DEF FillStack, FillFile, Panics, process, tables, locks
    <3>2. CASE FillSwap(p)
      <4>1. HasSlot(g) /\ SlotOK(g)
        BY <1>1, <3>2 DEF FillSwap, HasSlot, SlotsOK
      <4>2. spte[g].swap_slot_id # NoSlot /\ swap[spte[g].swap_slot_id].used
        BY <4>1 DEF SlotOK, PagingAssumption
      <4> QED
        BY <1>4, <3>2, <4>1, <4>2 DEF FillSwap, Panics, process, tables, locks
    <3> QED
      BY <3>1, <3>2
  <2>4. \A q \in Procs : \A place \in {"unlink", "write_back"} : pc'[q] = place => pc[q] = place
    BY <1>1, <2>2 DEF Firm, ProcessTypes
  <2>5. ~HasSlot(g)' /\ \A h \in Pages : Leaving(h)' => Leaving(h)
    BY <1>2, <2>2, <2>4 DEF HasSlot, Leaving
  <2>6. ASSUME NEW h \in Pages, HasSlot(h)'
        PROVE  /\ HasSlot(h) /\ spte'[h].swap_slot_id = spte[h].swap_slot_id
               /\ swap'[spte[h].swap_slot_id] = swap[spte[h].swap_slot_id]
    <3>1. h # g /\ spte'[h] = spte[h]
      BY <2>2, <2>5, <2>6
    <3>2. HasSlot(h) /\ SlotOK(h)
      BY <2>5, <2>6, <3>1 DEF HasSlot, SlotsOK
    <3>3. HasSlot(g) => spte[h].swap_slot_id # spte[g].swap_slot_id
      BY <1>1, <3>1, <3>2 DEF SlotOK
    <3>4. spte[h].swap_slot_id \in Slots
      BY <3>2 DEF SlotOK
    <3> QED
      BY <2>3, <3>1, <3>2, <3>3, <3>4 DEF Firm, DataTypes
  <2>7. \A q \in Procs : BackOK(q)'
    BY <1>1, <1>2, <2>2, <2>4 DEF BackOK
  <2> QED
    BY <2>3, <2>6, <2>7, SlotsStay
<1> QED
  BY <1>3, <1>4

LEMMA SlotsNext ==
  ASSUME Firm, SlotsHold, Next
  PROVE  SlotsHold'
<1> SUFFICES ASSUME Written' PROVE SlotsOK'
  BY DEF SlotsHold
<1>1. SlotsOK
  BY StaysSpoiled DEF SlotsHold, Written
<1>2. PICK p \in Procs : Runs(p) \/ Exit(p) \/ \E g \in Pages : Calls(p, g)
  BY DEF Next
<1>3. CASE Runs(p) \/ Exit(p)
  <2>1. CASE \/ WriteBack(p) \/ SwapOut(p) \/ Unlink(p) \/ UnmapFree(p)
             \/ FillStack(p) \/ FillFile(p) \/ FillSwap(p) \/ \E f \in Frames : Choose(p, f)
    BY <1>1, <2>1, SlotsWriteBack, SlotsSwapOut, SlotsUnlink, SlotsUnmapFree, SlotsFill, SlotsChoose
  <2>2. CASE KernelFault(p) \/ Transferred(p)
    <3>1. upage[p] \in Pages
      BY <2>2, HandPage DEF KernelFault, Transferred, From, Idle
    <3> QED
      BY <1>1, <2>2, <3>1, SlotsPin
  <2>3. CASE \/ Loaded(p) \/ FrameAlloc(p) \/ Transfer(p) \/ Exited(p) \/ Exit(p)
             \/ UnmapWrite(p)
    BY <1>1, <2>3, SlotsKeep
  <2>4. CASE \E g \in Pages : ExitPage(p, g) \/ Load(p, g)
    BY <1>1, <2>4, SlotsRemove, SlotsEnter DEF ExitPage
  <2> QED
    BY <1>3, <2>1, <2>2, <2>3, <2>4 DEF Runs
<1>4. CASE \E g \in Pages : Calls(p, g)
  BY <1>1, <1>4, SlotsKeep, SlotsPin, SlotsEnter, SlotsRemove DEF Calls, Munmap
<1> QED
  BY <1>2, <1>3, <1>4

LEMMA SlotsAlways == Spec => []SlotsHold
<1>1. Init => SlotsHold
  BY Distinct DEF Init, SlotsHold, Written, SlotsOK, SlotOK, HasSlot, BackOK, Absent
<1>2. Firm /\ SlotsHold /\ [Next]_vars => SlotsHold'
  <2>1. SlotsHold /\ UNCHANGED vars => SlotsHold'
    BY DEF vars, process, tables, locks, SlotsHold, Written, SlotsOK, SlotOK, HasSlot, Leaving, BackOK
  <2> QED
    BY <2>1, SlotsNext
<1> QED
  BY <1>1, <1>2, FirmAlways, PTL DEF Spec

(* Slots have one owner, while no clean page of the stack is dropped. *)
THEOREM SlotsHaveOneOwner == Spec => []SlotsOwned
<1>1. SlotsHold => SlotsOwned
  BY DEF SlotsHold, Written, SlotsOK, SlotsOwned, SlotOK, HasSlot, InSwap
<1> QED
  BY <1>1, SlotsAlways, PTL

-----------------------------------------------------------------------------
(***************************************************************************)
(* Who waits for whom.  Once the known reasons are excluded, swap_lock is  *)
(* free, lock_f can only be held by one that waits for a frame, frame_lock *)
(* by one that writes a page back: the two would wait for each other.  So  *)
(* both are free, and everybody in the kernel can go on.                   *)
(***************************************************************************)
LEMMA HangsKnown ==
  ASSUME Firm, SlotsHold
  PROVE  OnlyKnownHangs
<1> SUFFICES ASSUME \A p \in Procs : InKernel(p) => ~CanRun(p),
                    ~LockCycle, ~AllPinned, ~SwapLockKept,
                    NEW r \in Procs, InKernel(r)
             PROVE  FALSE
  BY DEF OnlyKnownHangs
<1>1. swap_lock = Nobody
  BY DEF SlotsHold, Written, SlotsOK, SwapLockKept
<1>2. \A p \in Procs : pc[p] \notin {"loaded", "io_locked", "exit"}
  BY DEF InKernel, CanRun
<1>3. \A p \in Procs : pc[p] \notin {"evict", "swap_out"}
  BY <1>1 DEF InKernel, CanRun, AllPinned
<1>4. \A p \in Procs : pc[p] # "unlink"
  <2> SUFFICES ASSUME NEW p \in Procs, pc[p] = "unlink" PROVE CanRun(p)
    BY DEF InKernel
  <2>1. pte[victim[p]].frame \in Frames /\ frame_list[pte[victim[p]].frame] = victim[p]
    BY FirmVictim DEF Chosen
  <2> QED
    BY <2>1 DEF CanRun
<1>5. \A p \in Procs : pc[p] = "fill" => lock_f \notin {Nobody, p}
  <2> SUFFICES ASSUME NEW p \in Procs, pc[p] = "fill", lock_f \in {Nobody, p} PROVE CanRun(p)
    BY DEF InKernel
  <2>1. upage[p] \in Pages /\ spte[upage[p]].mapped
    BY BringHand DEF Bringing
  <2>2. spte[upage[p]].spage_type # "ERROR" /\ spte[upage[p]] \in Entries
    BY <2>1, EntryFacts DEF Firm, TableTypes
  <2>3. spte[upage[p]].spage_type \in {"FILE", "MMAP", "SWAP"}
    BY <2>2 DEF Entries
  <2> QED
    BY <1>1, <2>3 DEF CanRun
<1>6. \A p \in Procs : pc[p] = "write_back" => lock_f \notin {Nobody, p}
  BY DEF InKernel, CanRun
<1>7. \A p \in Procs : lock_f = p => pc[p] = "alloc"
  <2> SUFFICES ASSUME NEW p \in Procs, lock_f = p PROVE pc[p] = "alloc"
    OBVIOUS
  <2>1. HandOK(p)
    BY DEF Firm
  <2>2. pc[p] \in Bringing
    BY <1>2, <2>1 DEF HandOK
  <2> QED
    BY <1>3, <1>4, <1>5, <1>6, <2>2 DEF Bringing
<1>8. \A p \in Procs : frame_lock = p => pc[p] = "write_back"
  <2> SUFFICES ASSUME NEW p \in Procs, frame_lock = p PROVE pc[p] = "write_back"
    OBVIOUS
  <2>1. pc[p] \in Evictors
    BY DEF Firm, EvictionOK
  <2> QED
    BY <1>3, <1>4, <2>1 DEF Evictors, Chosen
<1>9. lock_f = Nobody
  <2> SUFFICES ASSUME NEW p \in Procs, lock_f = p PROVE FALSE
    BY DEF Firm, LockTypes
  <2>1. pc[p] = "alloc"
    BY <1>7
  <2>2. frame_lock # Nobody
    BY <2>1 DEF InKernel, CanRun
  <2>3. PICK q \in Procs : frame_lock = q
    BY <2>2 DEF Firm, LockTypes
  <2> QED
    BY <1>8, <2>1, <2>3 DEF LockCycle
<1>10. frame_lock = Nobody
  <2> SUFFICES ASSUME NEW p \in Procs, frame_lock = p PROVE FALSE
    BY DEF Firm, LockTypes
  <2> QED
    BY <1>6, <1>8, <1>9
<1>11. pc[r] # "new"
  <2> SUFFICES ASSUME pc[r] = "new" PROVE CanRun(r)
    BY DEF InKernel
  <2>1. kind \in Layouts
    BY DEF Firm
  <2>2. PICK g \in Pages : Owner[g] = r /\ kind[g] = "SWAP"
    BY <2>1, StackAssumption
  <2>3. ~spte[g].mapped
    BY <2>2, EntryFacts
  <2> QED
    BY <1>9, <2>2, <2>3 DEF CanRun, MayGrow
<1>12. pc[r] \in {"io", "unmap_write", "alloc", "unmap_free"}
  <2>1. pc[r] \in Places
    BY DEF Firm, ProcessTypes
  <2> QED
    BY <1>2, <1>3, <1>4, <1>5, <1>6, <1>9, <1>11, <2>1 DEF Places, InKernel
<1> QED
  BY <1>9, <1>10, <1>12 DEF InKernel, CanRun

(* The steps that panic, which leave everything as it is. *)
PanicsAt(p) ==
  \/ pc[p] = "write_back" /\ lock_f = p
  \/ pc[p] = "swap_out" /\ \A s \in Slots : swap[s].used
  \/ swap_lock = p
  \/ pc[p] = "fill" /\ lock_f = p /\ ~spte[upage[p]].in_memory
  \/ pc[p] = "unmap_write" /\ ~Present(upage[p])

LEMMA PanicSteps ==
  ASSUME Next, panicked'
  PROVE  /\ ~panicked /\ UNCHANGED <<pc, resume, lock_f, swap_lock, swap, spoiled>>
         /\ \E p \in Procs : PanicsAt(p)
<1>1. PICK p \in Procs : Runs(p) \/ Exit(p) \/ \E g \in Pages : Calls(p, g)
  BY DEF Next
<1>2. CASE WriteBack(p)
  BY <1>2 DEF WriteBack, From, Panics, process, locks, PanicsAt
<1>3. CASE SwapOut(p)
  BY <1>3 DEF SwapOut, From, Full, Panics, process, locks, PanicsAt
<1>4. CASE FillFile(p)
  BY <1>4 DEF FillFile, From, Install, Panics, process, locks, PanicsAt
<1>5. CASE FillSwap(p)
  BY <1>5 DEF FillSwap, From, Install, Panics, process, locks, PanicsAt
<1>6. CASE UnmapWrite(p)
  BY <1>6 DEF UnmapWrite, From, locks, PanicsAt
<1>7. CASE \/ Loaded(p) \/ FrameAlloc(p) \/ Unlink(p) \/ FillStack(p) \/ Transfer(p)
           \/ Transferred(p) \/ KernelFault(p) \/ UnmapFree(p) \/ Exited(p) \/ Exit(p)
  BY <1>7 DEF Loaded, FrameAlloc, Unlink, FillStack, Install, Transfer, Transferred, KernelFault,
              UnmapFree, Exited, Exit, From
<1>8. CASE \/ \E f \in Frames : Choose(p, f)
           \/ \E g \in Pages : ExitPage(p, g) \/ Load(p, g)
  BY <1>8 DEF Choose, ExitPage, Remove, Load, From
<1>9. CASE \E g \in Pages : Calls(p, g)
  BY <1>9 DEF Calls, Write, Fault, Syscall, Mmap, Munmap, Remove, GrowStack, From
<1> QED
  BY <1>1, <1>2, <1>3, <1>4, <1>5, <1>6, <1>7, <1>8, <1>9 DEF Runs

LEMMA PanicsKnown ==
  ASSUME Firm, Untorn => Placed, SlotsHold, Next
  PROVE  OnlyKnownPanics'
<1> SUFFICES ASSUME panicked'
             PROVE  \/ \E p \in Procs : pc'[p] = "swap_out" /\ \A s \in Slots : swap'[s].used
                    \/ \E p \in Procs : /\ lock_f' = p /\ pc'[p] = "write_back"
                                        /\ resume'[p] = "loaded"
                    \/ ~Untorn'
                    \/ SwapLockKept'
  BY DEF OnlyKnownPanics, Untorn
<1>1. UNCHANGED <<pc, resume, lock_f, swap_lock, swap, spoiled>>
  BY PanicSteps
<1>2. PICK p \in Procs : PanicsAt(p)
  BY PanicSteps
<1>3. CASE swap_lock = p
  <2>1. "unwritten" \in spoiled
    BY <1>3, Distinct DEF SlotsHold, Written, SlotsOK
  <2> QED
    BY <1>1, <1>3, <2>1, Distinct DEF SwapLockKept
<1>4. CASE ~Untorn
  BY <1>1, <1>4 DEF Untorn
<1>5. CASE Untorn /\ pc[p] = "unmap_write" /\ ~Present(upage[p])
  BY <1>5 DEF Placed, WorkOK, Unmapping
<1>6. CASE Untorn /\ pc[p] \in {"write_back", "fill"} /\ lock_f = p
  <2>1. pc[p] \in Bringing
    BY <1>6 DEF Bringing
  <2>2. resume[p] \in {"loaded", "io_locked"} /\ (resume[p] = "loaded" => spte[upage[p]].in_memory)
    BY <1>6, <2>1, BringHand
  <2>3. resume[p] # "io_locked"
    BY <1>6, <2>1 DEF Placed, WorkOK
  <2> QED
    BY <1>1, <1>2, <1>3, <1>6, <2>2, <2>3 DEF PanicsAt
<1> QED
  BY <1>1, <1>2, <1>3, <1>4, <1>5, <1>6 DEF PanicsAt

(* Only what OnlyKnownHangs and OnlyKnownPanics name stops the processes. *)
THEOREM NothingElseStops == Spec => []OnlyKnownStops
<1>1. Init => OnlyKnownPanics
  BY DEF Init, OnlyKnownPanics
<1>2. Firm /\ (Untorn => Placed) /\ SlotsHold /\ OnlyKnownPanics /\ [Next]_vars => OnlyKnownPanics'
  <2>1. OnlyKnownPanics /\ UNCHANGED vars => OnlyKnownPanics'
    BY DEF vars, process, locks, OnlyKnownPanics, SwapLockKept
  <2> QED
    BY <2>1, PanicsKnown
<1>3. Spec => []OnlyKnownPanics
  BY <1>1, <1>2, FirmAlways, PlacedAlways, SlotsAlways, PTL DEF Spec
<1>4. Firm /\ SlotsHold => OnlyKnownHangs
  BY HangsKnown
<1>5. Spec => []OnlyKnownHangs
  BY <1>4, FirmAlways, SlotsAlways, PTL
<1> QED
  BY <1>3, <1>5, PTL DEF OnlyKnownStops

-----------------------------------------------------------------------------
(* The types of the variables are Firm's, with those of the history. *)
HistoryTypes == panicked \in BOOLEAN /\ spoiled \subseteq {"torn", "unwritten"}

LEMMA HistoryNext ==
  ASSUME HistoryTypes, Next
  PROVE  HistoryTypes'
<1>1. PICK p \in Procs : Runs(p) \/ Exit(p) \/ \E g \in Pages : Calls(p, g)
  BY DEF Next
<1>2. CASE WriteBack(p) \/ SwapOut(p) \/ FillFile(p) \/ FillSwap(p) \/ UnmapWrite(p)
  BY <1>2 DEF HistoryTypes, WriteBack, SwapOut, FillFile, FillSwap, UnmapWrite, Panics, Install
<1>3. CASE \/ Loaded(p) \/ FrameAlloc(p) \/ Unlink(p) \/ FillStack(p) \/ Transfer(p)
           \/ KernelFault(p) \/ UnmapFree(p) \/ Exited(p) \/ Exit(p)
  BY <1>3 DEF HistoryTypes, Loaded, FrameAlloc, Unlink, FillStack, Install, Transfer, KernelFault,
              UnmapFree, Exited, Exit
<1>4. CASE Transferred(p) \/ \E g \in Pages : ExitPage(p, g) \/ Load(p, g)
  BY <1>4 DEF HistoryTypes, Transferred, Torn, ExitPage, Remove, Load
<1>5. CASE \E f \in Frames : Choose(p, f)
  BY <1>5 DEF HistoryTypes, Choose
<1>6. CASE \E g \in Pages : Calls(p, g)
  BY <1>6 DEF HistoryTypes, Calls, Write, Fault, Syscall, Mmap, Munmap, Remove, GrowStack, Torn
<1> QED
  BY <1>1, <1>2, <1>3, <1>4, <1>5, <1>6 DEF Runs

(* Every variable keeps its type, and who evicts holds frame_lock. *)
THEOREM PagingTypes == Spec => []TypeOK
<1>1. Init => HistoryTypes
  BY DEF Init, HistoryTypes
<1>2. HistoryTypes /\ [Next]_vars => HistoryTypes'
  BY HistoryNext DEF vars, HistoryTypes
<1>3. Spec => []HistoryTypes
  BY <1>1, <1>2, PTL DEF Spec
<1>4. ASSUME Firm, HistoryTypes PROVE TypeOK
  <2>1. \A p \in Procs : pc[p] \in {"evict"} \cup Chosen => frame_lock = p
    BY <1>4 DEF Firm, EvictionOK, Evictors
  <2> QED
    BY <1>4, <2>1 DEF Firm, ProcessTypes, Resumes, TableTypes, DataTypes, LockTypes, HistoryTypes,
                      TypeOK
<1> QED
  BY <1>3, <1>4, FirmAlways, PTL

=============================================================================
