------------------------------ MODULE DiskProofs ------------------------------
(***************************************************************************)
(* The disks of a channel, for any number of threads, disks and partitions *)
(* of any sizes: every interrupt has been waited for when the channel is   *)
(* given up, and the partitions' sectors are atomic registers.             *)
(***************************************************************************)
EXTENDS DiskProperties, TLAPS

USE IdeAssumption

Ops == {"read", "write"}
SectorsOf(d) == 0..(DiskSize[d] - 1)
Inside == Places \ {"user", "lock"}

Calls ==
  [op : Ops \cup {"none"}, block : Blocks \cup {Nobody}, sector : Nat,
   buffer : Values \cup {NoValue}]

Controllers ==
  [state : {"idle", "busy", "storing", "drq"}, op : Ops \cup {"none"}, sector : Nat,
   data : Values \cup {NoValue}, intrq : BOOLEAN, dead : BOOLEAN]

Types ==
  /\ pc \in [Threads -> Places]
  /\ call \in [Threads -> Calls]
  /\ lock \in Threads \cup {Nobody}
  /\ expecting_interrupt = TRUE /\ completion_wait \in Nat
  /\ selected \in Disks /\ lba \in Nat
  /\ disk \in [Disks -> Controllers]
  /\ DOMAIN medium = Disks /\ \A d \in Disks : medium[d] \in [SectorsOf(d) -> Values]
  /\ strays \in Nat /\ dropped \in BOOLEAN /\ panicked \in BOOLEAN /\ confused \in BOOLEAN

(* Who is inside ide_read() or ide_write() has the channel's lock. *)
OneInside == \A t \in Threads : (lock = t) <=> (pc[t] \in Inside)

(* A call's locals, while there is one. *)
Called ==
  \A t \in Threads :
    IF pc[t] = "user" THEN call[t] = NoCall
    ELSE /\ call[t].op \in Ops /\ call[t].block \in Blocks
         /\ call[t].sector \in 0..(Size[call[t].block] - 1)
         /\ call[t].op = "write" => call[t].buffer \in Values

(* What the owner has put into the channel's registers. *)
Addressed ==
  \A t \in Threads :
    /\ pc[t] \in {"selected", "sector", "command", "down", "busy", "data", "unlock"} =>
         selected = Target(t)
    /\ pc[t] \in {"command", "down", "busy", "data"} => lba = SectorNo(t)

Owned == Types /\ OneInside /\ Called /\ Addressed

(***************************************************************************)
(* Whatever interrupts come, until a disk has been addressed in the middle *)
(* of a command: only the selected disk is at work, and on the command of  *)
(* the channel's owner, or it is still storing what the last one gave it.  *)
(***************************************************************************)
State == disk[selected].state

Works(op, states) ==
  /\ State \in states
  /\ State = "idle" \/ (disk[selected].op = op /\ disk[selected].sector = lba)
  /\ State = "drq" /\ op = "read" => disk[selected].data = medium[selected][lba]

AtWork(t) ==
  /\ pc[t] = "idle" => State \in {"idle", "storing"}
  /\ pc[t] \in {"select", "selected", "sector", "command"} => State = "idle"
  /\ pc[t] = "busy" => Works(call[t].op, {"busy", "drq", "idle"})
  /\ pc[t] = "data" => Works(call[t].op, {"drq"})
  /\ call[t].op = "read" =>
       /\ pc[t] = "down" => Works("read", {"busy", "drq", "idle"})
       /\ pc[t] = "unlock" => State = "idle"
  /\ call[t].op = "write" =>
       /\ pc[t] \in {"down", "unlock"} => State \in {"storing", "idle"}

Settled ==
  ~confused =>
    /\ \A d \in Disks \ {selected} : disk[d].state = "idle"
    /\ State = "storing" =>
         /\ disk[selected].op = "write" /\ disk[selected].sector \in SectorsOf(selected)
         /\ disk[selected].data \in Values
    /\ lock = Nobody => State \in {"idle", "storing"}
    /\ \A t \in Threads : lock = t => AtWork(t)

(***************************************************************************)
(* Without stray interrupts: an interrupt is raised, counted by the        *)
(* semaphore and waited for once, and what the disk is doing tells which   *)
(* of these is next.                                                       *)
(***************************************************************************)
Silent == ~disk[selected].intrq /\ completion_wait = 0
Signalled ==
  \/ disk[selected].intrq /\ completion_wait = 0
  \/ ~disk[selected].intrq /\ completion_wait = 1

Awaits(t) ==
  /\ pc[t] \in {"idle", "select", "selected", "sector", "command", "unlock"} =>
       State = "idle" /\ Silent
  /\ pc[t] = "data" => Silent
  /\ call[t].op = "read" =>
       /\ pc[t] = "down" => IF State = "busy" THEN Silent ELSE Signalled
       /\ pc[t] = "busy" => State # "busy" /\ Silent
  /\ call[t].op = "write" =>
       /\ pc[t] \in {"busy", "down"} => IF State = "idle" THEN Signalled ELSE Silent

Quiet ==
  strays = 0 =>
    /\ ~confused
    /\ \A d \in Disks \ {selected} : ~disk[d].intrq
    /\ lock = Nobody => State = "idle" /\ Silent
    /\ \A t \in Threads : lock = t => Awaits(t)

IdeInv == Owned /\ Settled /\ Quiet

-----------------------------------------------------------------------------
(* A sector of a partition is one of its disk's. *)
LEMMA SectorOnDisk ==
  ASSUME Owned, NEW t \in Threads, pc[t] # "user"
  PROVE  Target(t) \in Disks /\ SectorNo(t) \in SectorsOf(Target(t))
BY DEF Owned, Types, Called, Target, SectorNo, SectorsOf

LEMMA InitInv == Init => IdeInv
<1> SUFFICES ASSUME Init PROVE IdeInv
  OBVIOUS
<1>1. Types
  <2>1. pc \in [Threads -> Places] /\ call \in [Threads -> {NoCall}]
        /\ disk \in [Disks -> {IdleDisk}]
    BY DEF Init, Places
  <2>2. DOMAIN medium = Disks /\ \A d \in Disks : medium[d] \in [SectorsOf(d) -> Values]
    BY DEF Init, SectorsOf
  <2> QED
    BY <2>1, <2>2 DEF Init, Types, Calls, NoCall, IdleDisk, Controllers
<1>2. Owned
  BY <1>1 DEF Init, Owned, OneInside, Called, Addressed, Inside
<1>3. Settled /\ Quiet
  BY DEF Init, Settled, Quiet, Controllers, State, Silent, IdleDisk
<1> QED
  BY <1>2, <1>3 DEF IdeInv

LEMMA StutterInv == IdeInv /\ UNCHANGED vars => IdeInv'
BY DEF IdeInv, Owned, Types, OneInside, Called, Addressed, Target, SectorNo, Settled, State,
       AtWork, Works, Quiet, Silent, Signalled, Awaits,
       vars, channel, registers, troubles

(* What a change of one controller leaves alone. *)
LEMMA Changed ==
  ASSUME disk \in [Disks -> Controllers], NEW d \in Disks, NEW c \in Controllers,
         disk' = [disk EXCEPT ![d] = c]
  PROVE  /\ disk' \in [Disks -> Controllers] /\ disk'[d] = c
         /\ \A e \in Disks \ {d} : disk'[e] = disk[e]
OBVIOUS

-----------------------------------------------------------------------------
(* The steps of the threads. *)

(* block_read() and block_write() of a partition find their sector in it, and on its disk. *)
LEMMA CallGoes ==
  ASSUME IdeInv, NEW t \in Threads, Reads(t) \/ Writes(t)
  PROVE  \E op \in Ops, b \in Blocks, v \in Values \cup {NoValue}, s \in Nat :
           /\ op = "read" => v = NoValue
           /\ op = "write" => v \in Values
           /\ s \in 0..(Size[b] - 1)
           /\ pc[t] = "user" /\ pc' = [pc EXCEPT ![t] = "lock"]
           /\ call' = [call EXCEPT ![t] = [op |-> op, block |-> b, sector |-> s, buffer |-> v]]
           /\ UNCHANGED <<channel, registers, disk, medium, troubles, panicked, confused>>
<1>1. PICK op \in Ops, b \in Blocks, v \in Values \cup {NoValue} :
        /\ \E s \in 0..(Size[b] - 1) : Call(t, op, b, s, v)
        /\ op = "read" => v = NoValue
        /\ op = "write" => v \in Values
  BY DEF Reads, Writes, Ops
<1>2. PICK s \in 0..(Size[b] - 1) : Call(t, op, b, s, v)
  BY <1>1
<1>3. InDevice(s, Size[b]) /\ InDevice(Start[b] + s, DiskSize[DiskOf[b]])
  BY DEF InDevice
<1>4. /\ pc[t] = "user" /\ pc' = [pc EXCEPT ![t] = "lock"]
      /\ call' = [call EXCEPT ![t] = [op |-> op, block |-> b, sector |-> s, buffer |-> v]]
      /\ UNCHANGED <<channel, registers, disk, medium, troubles, panicked, confused>>
  BY <1>2, <1>3 DEF Call, At, Goto
<1>5. s \in Nat /\ s \in 0..(Size[b] - 1)
  OBVIOUS
<1> QED
  BY <1>1, <1>4, <1>5

LEMMA CallInv ==
  ASSUME IdeInv, NEW t \in Threads, Reads(t) \/ Writes(t)
  PROVE  IdeInv'
<1>1. PICK op \in Ops, b \in Blocks, v \in Values \cup {NoValue}, s \in Nat :
        /\ op = "write" => v \in Values
        /\ s \in 0..(Size[b] - 1)
        /\ pc[t] = "user" /\ pc' = [pc EXCEPT ![t] = "lock"]
        /\ call' = [call EXCEPT ![t] = [op |-> op, block |-> b, sector |-> s, buffer |-> v]]
        /\ UNCHANGED <<channel, registers, disk, medium, troubles, panicked, confused>>
  BY CallGoes
<1>2. Types'
  BY <1>1 DEF IdeInv, Owned, Types, Calls, channel, registers, troubles, Places, Ops
<1>3. Owned'
  BY <1>1, <1>2 DEF IdeInv, Owned, Types, OneInside, Called, Addressed, Target, SectorNo,
                          Inside, Places, channel, registers, Ops
<1>4. lock # t
  BY <1>1 DEF IdeInv, Owned, OneInside, Inside
<1>5. Settled'
  BY <1>1, <1>4 DEF IdeInv, Owned, Types, Settled, Controllers, State, AtWork, Works, channel, registers
<1>6. Quiet'
  BY <1>1, <1>4 DEF IdeInv, Owned, Types, Quiet, Controllers, State, Silent, Signalled, Awaits, channel,
                    registers, troubles
<1> QED
  BY <1>3, <1>5, <1>6 DEF IdeInv

(* The channel is taken. *)
LEMMA AcquireInv ==
  ASSUME IdeInv, NEW t \in Threads, Acquire(t)
  PROVE  IdeInv'
<1>1. /\ pc[t] = "lock" /\ pc' = [pc EXCEPT ![t] = "idle"]
      /\ lock = Nobody /\ lock' = t
      /\ UNCHANGED <<call, expecting_interrupt, completion_wait, registers, disk, medium,
                     troubles, panicked, confused>>
  BY DEF Acquire, At, Goto
<1>2. Types'
  BY <1>1 DEF IdeInv, Owned, Types, registers, troubles, Places
<1>3. Owned'
  BY <1>1, <1>2 DEF IdeInv, Owned, Types, OneInside, Called, Addressed, Target, SectorNo, Inside,
                    Places, registers
<1>4. Settled'
  BY <1>1 DEF IdeInv, Owned, Types, Settled, Controllers, State, AtWork, Works, registers
<1>5. Quiet'
  BY <1>1 DEF IdeInv, Owned, Types, Quiet, Controllers, State, Silent, Signalled, Awaits, registers, troubles
<1> QED
  BY <1>3, <1>4, <1>5 DEF IdeInv

(* An interrupt that is acknowledged changes nothing else of the disks. *)
LEMMA Acknowledged ==
  ASSUME disk \in [Disks -> Controllers], selected \in Disks,
         disk' = [disk EXCEPT ![selected].intrq = FALSE]
  PROVE  /\ disk' \in [Disks -> Controllers]
         /\ \A d \in Disks : /\ disk'[d].state = disk[d].state /\ disk'[d].op = disk[d].op
                             /\ disk'[d].sector = disk[d].sector /\ disk'[d].data = disk[d].data
<1>1. \A d \in Controllers :
        LET e == [d EXCEPT !.intrq = FALSE]
        IN  e \in Controllers /\ e.state = d.state /\ e.op = d.op /\ e.sector = d.sector
              /\ e.data = d.data
  BY DEF Controllers
<1>2. disk' = [disk EXCEPT ![selected] = [disk[selected] EXCEPT !.intrq = FALSE]]
  OBVIOUS
<1>3. PICK e \in Controllers :
        /\ e = [disk[selected] EXCEPT !.intrq = FALSE] /\ e.state = disk[selected].state
        /\ e.op = disk[selected].op /\ e.sector = disk[selected].sector
        /\ e.data = disk[selected].data
  BY <1>1
<1> QED
  BY <1>2, <1>3

(* A disk that is found idle is left as it is, with no interrupt pending. *)
LEMMA WaitIdleInv ==
  ASSUME IdeInv, NEW t \in Threads, WaitOther(t) \/ WaitSelected(t)
  PROVE  IdeInv'
<1>1. PICK place \in {"select", "sector"} :
        /\ pc' = [pc EXCEPT ![t] = place]
        /\ pc[t] = IF place = "select" THEN "idle" ELSE "selected"
        /\ disk' = [disk EXCEPT ![selected].intrq = FALSE]
        /\ confused' = (disk[selected].state # "idle")
        /\ UNCHANGED <<call, channel, registers, medium, troubles, panicked>>
        /\ ~confused
  BY DEF WaitOther, WaitSelected, WaitIdle, At, Goto, Running
<1>2. Types'
  <2>1. disk \in [Disks -> Controllers] /\ selected \in Disks /\ lba \in Nat
        /\ call[t].buffer \in Values \cup {NoValue}
    BY DEF IdeInv, Owned, Types, Calls
  <2>2. disk' \in [Disks -> Controllers]
    BY <1>1, <2>1, Acknowledged
  <2> QED
    BY <1>1, <2>2 DEF IdeInv, Owned, Types, channel, registers, troubles, Places
<1>3. Owned'
  BY <1>1, <1>2 DEF IdeInv, Owned, Types, OneInside, Called, Addressed, Target, SectorNo, Inside,
                    Places, channel, registers
<1>4. lock = t
  BY <1>1 DEF IdeInv, Owned, OneInside, Inside, Places
<1>5. Settled'
  <2>1. \A d \in Disks : /\ disk'[d].state = disk[d].state /\ disk'[d].op = disk[d].op
                         /\ disk'[d].sector = disk[d].sector /\ disk'[d].data = disk[d].data
    BY <1>1, Acknowledged DEF IdeInv, Owned, Types
  <2> QED
    BY <1>1, <1>4, <2>1 DEF IdeInv, Owned, Types, Settled, State, AtWork, Works, channel, registers
<1>6. Quiet'
  BY <1>1, <1>4 DEF IdeInv, Owned, Types, Quiet, Controllers, State, Silent, Signalled, Awaits, channel,
                    registers, troubles
<1> QED
  BY <1>3, <1>5, <1>6 DEF IdeInv

(* The registers are set. *)
LEMMA SelectInv ==
  ASSUME IdeInv, NEW t \in Threads, Select(t)
  PROVE  IdeInv'
<1>1. /\ pc[t] = "select" /\ pc' = [pc EXCEPT ![t] = "selected"]
      /\ selected' = Target(t)
      /\ UNCHANGED <<call, channel, lba, disk, medium, troubles, panicked, confused>>
  BY DEF Select, At, Goto
<1>2. lock = t /\ Target(t) \in Disks
  BY <1>1, SectorOnDisk DEF IdeInv, Owned, OneInside, Inside, Places
<1>3. Types'
  BY <1>1, <1>2 DEF IdeInv, Owned, Types, channel, troubles, Places
<1>4. Owned'
  BY <1>1, <1>2, <1>3 DEF IdeInv, Owned, Types, OneInside, Called, Addressed, Target, SectorNo,
                          Inside, Places, channel
<1>5. Settled'
  BY <1>1, <1>2 DEF IdeInv, Owned, Types, Settled, Controllers, State, AtWork, Works, channel
<1>6. Quiet'
  BY <1>1, <1>2 DEF IdeInv, Owned, Types, Settled, AtWork, Controllers, Quiet, State, Silent, Signalled, Awaits,
                    channel, troubles
<1> QED
  BY <1>4, <1>5, <1>6 DEF IdeInv

LEMMA SelectSectorInv ==
  ASSUME IdeInv, NEW t \in Threads, SelectSector(t)
  PROVE  IdeInv'
<1>1. /\ pc[t] = "sector" /\ pc' = [pc EXCEPT ![t] = "command"]
      /\ lba' = SectorNo(t) /\ expecting_interrupt' = TRUE
      /\ UNCHANGED <<call, lock, completion_wait, selected, disk, medium, troubles,
                     panicked, confused>>
  BY DEF SelectSector, At, Goto
<1>2. lock = t /\ SectorNo(t) \in Nat
  <2>1. lock = t
    BY <1>1 DEF IdeInv, Owned, OneInside, Inside, Places
  <2>2. SectorNo(t) \in SectorsOf(Target(t))
    BY <1>1, SectorOnDisk DEF IdeInv
  <2>3. SectorNo(t) \in Nat
    BY <2>2 DEF SectorsOf
  <2> QED
    BY <2>1, <2>3
<1>3. Types'
  BY <1>1, <1>2 DEF IdeInv, Owned, Types, troubles, Places
<1>4. Owned'
  BY <1>1, <1>2, <1>3 DEF IdeInv, Owned, Types, OneInside, Called, Addressed, Target, SectorNo,
                          Inside, Places
<1>5. Settled'
  BY <1>1, <1>2 DEF IdeInv, Owned, Types, Settled, Controllers, State, AtWork, Works
<1>6. Quiet'
  BY <1>1, <1>2 DEF IdeInv, Owned, Types, Quiet, Controllers, State, Silent, Signalled, Awaits, troubles
<1> QED
  BY <1>4, <1>5, <1>6 DEF IdeInv

LEMMA IssueInv ==
  ASSUME IdeInv, NEW t \in Threads, Issue(t)
  PROVE  IdeInv'
<1>1. /\ pc[t] = "command" /\ pc' = [pc EXCEPT ![t] = AfterCommand(call[t].op)]
      /\ disk' = [disk EXCEPT ![selected] =
                    [@ EXCEPT !.state = "busy", !.op = call[t].op, !.sector = lba]]
      /\ confused' = (disk[selected].state # "idle")
      /\ ~confused
      /\ UNCHANGED <<call, channel, registers, medium, troubles, panicked>>
  BY DEF Issue, At, Goto, Running
<1>2. lock = t /\ call[t].op \in Ops
  BY <1>1 DEF IdeInv, Owned, OneInside, Called, Inside, Places
<1>3. Types'
  <2>1. disk \in [Disks -> Controllers] /\ selected \in Disks /\ lba \in Nat
        /\ call[t].buffer \in Values \cup {NoValue}
    BY DEF IdeInv, Owned, Types, Calls
  <2>2. \A d \in Controllers, op \in Ops, n \in Nat :
          [d EXCEPT !.state = "busy", !.op = op, !.sector = n] \in Controllers
    BY DEF Controllers, Ops
  <2>3. [disk[selected] EXCEPT !.state = "busy", !.op = call[t].op, !.sector = lba] \in Controllers
    BY <1>2, <2>1, <2>2, Zenon
  <2>4. disk' = [disk EXCEPT ![selected] =
          [disk[selected] EXCEPT !.state = "busy", !.op = call[t].op, !.sector = lba]]
    BY <1>1, <2>1
  <2>5. disk' \in [Disks -> Controllers]
    BY <2>1, <2>3, <2>4
  <2> QED
    BY <1>1, <1>2, <2>5 DEF IdeInv, Owned, Types, channel, registers, troubles, Places,
                            AfterCommand, Ops
<1>4. Owned'
  BY <1>1, <1>2, <1>3 DEF IdeInv, Owned, Types, OneInside, Called, Addressed, Target, SectorNo,
                          Inside, Places, channel, registers, AfterCommand
<1>5. Settled'
  BY <1>1, <1>2 DEF IdeInv, Owned, Types, Settled, Controllers, State, AtWork, Works, channel, registers,
                    AfterCommand, Ops
<1>6. Quiet'
  BY <1>1, <1>2 DEF IdeInv, Owned, Types, Quiet, Controllers, State, Silent, Signalled, Awaits, channel,
                    registers, troubles, AfterCommand, Ops
<1> QED
  BY <1>4, <1>5, <1>6 DEF IdeInv

(* The completion is waited for. *)
LEMMA DownInv ==
  ASSUME IdeInv, NEW t \in Threads, Down(t)
  PROVE  IdeInv'
<1>1. /\ pc[t] = "down" /\ completion_wait > 0
      /\ pc' = [pc EXCEPT ![t] = IF call[t].op = "read" THEN "busy" ELSE "unlock"]
      /\ completion_wait' = completion_wait - 1
      /\ UNCHANGED <<call, lock, expecting_interrupt, registers, disk, medium, troubles,
                     panicked, confused>>
  BY DEF Down, At, Goto
<1>2. lock = t /\ call[t].op \in Ops
  BY <1>1 DEF IdeInv, Owned, OneInside, Called, Inside, Places
<1>3. Types'
  BY <1>1, <1>2 DEF IdeInv, Owned, Types, registers, troubles, Places
<1>4. Owned'
  BY <1>1, <1>2, <1>3 DEF IdeInv, Owned, Types, OneInside, Called, Addressed, Target, SectorNo,
                          Inside, Places, registers
<1>5. Settled'
  BY <1>1, <1>2 DEF IdeInv, Owned, Types, Settled, Controllers, State, AtWork, Works, registers, Ops
<1>6. Quiet'
  BY <1>1, <1>2 DEF IdeInv, Owned, Types, Quiet, Controllers, State, Silent, Signalled, Awaits, registers,
                    troubles, Ops
<1> QED
  BY <1>4, <1>5, <1>6 DEF IdeInv

LEMMA WaitWhileBusyInv ==
  ASSUME IdeInv, NEW t \in Threads, WaitWhileBusy(t)
  PROVE  IdeInv'
<1>1. /\ pc[t] = "busy" /\ UNCHANGED <<call, troubles, confused, channel, registers, disk, medium>>
      /\ IF DRQ(selected) THEN pc' = [pc EXCEPT ![t] = "data"] /\ UNCHANGED panicked
         ELSE panicked' = TRUE /\ UNCHANGED pc
  BY DEF WaitWhileBusy, At, Goto, PANIC
<1>2. lock = t /\ call[t].op \in Ops
  BY <1>1 DEF IdeInv, Owned, OneInside, Called, Inside, Places
<1>3. Types'
  BY <1>1, <1>2 DEF IdeInv, Owned, Types, channel, registers, troubles, Places
<1>4. Owned'
  BY <1>1, <1>2, <1>3 DEF IdeInv, Owned, Types, OneInside, Called, Addressed, Target, SectorNo,
                          Inside, Places, channel, registers
<1>5. Settled'
  BY <1>1, <1>2 DEF IdeInv, Owned, Types, Settled, Controllers, State, AtWork, Works, channel, registers, Ops, DRQ
<1>6. Quiet'
  BY <1>1, <1>2 DEF IdeInv, Owned, Types, Quiet, Controllers, State, Silent, Signalled, Awaits, channel,
                    registers, troubles, Ops, DRQ
<1> QED
  BY <1>4, <1>5, <1>6 DEF IdeInv

(* input_sector() and output_sector(), of the selected disk. *)
LEMMA Transfers ==
  ASSUME IdeInv, NEW t \in Threads, Transfer(t)
  PROVE  /\ disk' \in [Disks -> Controllers]
         /\ \A d \in Disks \ {selected} : disk'[d] = disk[d]
         /\ disk'[selected].intrq = disk[selected].intrq
         /\ disk'[selected].op = disk[selected].op
         /\ disk'[selected].sector = disk[selected].sector
         /\ disk'[selected].state = IF call[t].op = "read" THEN "idle" ELSE "storing"
         /\ call[t].op # "read" => disk'[selected].data = call[t].buffer
<1>1. disk \in [Disks -> Controllers] /\ selected \in Disks /\ call \in [Threads -> Calls]
  BY DEF IdeInv, Owned, Types
<1>2. PICK c : c = IF call[t].op = "read"
                   THEN [disk[selected] EXCEPT !.state = "idle", !.data = NoValue]
                   ELSE [disk[selected] EXCEPT !.state = "storing", !.data = call[t].buffer]
  OBVIOUS
<1>3. /\ c \in Controllers /\ c.intrq = disk[selected].intrq /\ c.op = disk[selected].op
      /\ c.sector = disk[selected].sector
      /\ c.state = IF call[t].op = "read" THEN "idle" ELSE "storing"
      /\ call[t].op # "read" => c.data = call[t].buffer
  <2>1. disk[selected] \in Controllers /\ call[t].buffer \in Values \cup {NoValue}
    BY <1>1 DEF Calls
  <2>2. CASE call[t].op = "read"
    BY <1>2, <2>1, <2>2 DEF Controllers
  <2>3. CASE call[t].op # "read"
    BY <1>2, <2>1, <2>3 DEF Controllers
  <2> QED
    BY <2>2, <2>3
<1>4. disk' = [disk EXCEPT ![selected] = c]
  BY <1>2 DEF Transfer
<1> QED
  BY <1>1, <1>3, <1>4, Changed

LEMMA TransferInv ==
  ASSUME IdeInv, NEW t \in Threads, Transfer(t)
  PROVE  IdeInv'
<1>1. /\ pc[t] = "data" /\ pc' = [pc EXCEPT ![t] = AfterData(call[t].op)]
      /\ IF call[t].op = "read"
         THEN call' = [call EXCEPT ![t].buffer = disk[selected].data]
         ELSE UNCHANGED call
      /\ confused' = ~(DRQ(selected) /\ disk[selected].op = call[t].op)
      /\ ~confused
      /\ UNCHANGED <<channel, registers, medium, troubles, panicked>>
  BY DEF Transfer, At, Goto, Running
<1>2. lock = t /\ call[t].op \in Ops
  BY <1>1 DEF IdeInv, Owned, OneInside, Called, Inside, Places
<1>3. disk \in [Disks -> Controllers] /\ selected \in Disks /\ call \in [Threads -> Calls]
  BY DEF IdeInv, Owned, Types
<1>4. /\ disk' \in [Disks -> Controllers]
      /\ \A d \in Disks \ {selected} : disk'[d] = disk[d]
      /\ disk'[selected].intrq = disk[selected].intrq
      /\ disk'[selected].op = disk[selected].op
      /\ disk'[selected].sector = disk[selected].sector
      /\ disk'[selected].state = IF call[t].op = "read" THEN "idle" ELSE "storing"
      /\ call[t].op # "read" => disk'[selected].data = call[t].buffer
  BY Transfers
<1>5. /\ call' \in [Threads -> Calls]
      /\ \A u \in Threads : call'[u] = IF u = t THEN call'[t] ELSE call[u]
      /\ call'[t].op = call[t].op /\ call'[t].block = call[t].block
      /\ call'[t].sector = call[t].sector
      /\ call[t].op = "write" => call'[t].buffer = call[t].buffer
  <2>1. disk[selected].data \in Values \cup {NoValue}
    BY <1>3 DEF Controllers
  <2> QED
    BY <1>1, <1>3, <2>1 DEF Calls
<1>6. Types'
  BY <1>1, <1>2, <1>4, <1>5 DEF IdeInv, Owned, Types, channel, registers, troubles, Places,
                                AfterData, Ops
<1>7. UNCHANGED <<lock, selected, lba, completion_wait, strays, medium>>
  BY <1>1 DEF channel, registers, troubles
<1>8. pc'[t] = AfterData(call[t].op)
  BY <1>1 DEF IdeInv, Owned, Types
<1>9. Owned'
  <2>1. \A u \in Threads : u # t => pc'[u] = pc[u] /\ call'[u] = call[u]
    BY <1>1, <1>5 DEF IdeInv, Owned, Types
  <2>2. OneInside'
    BY <1>1, <1>2, <1>7, <1>8, <2>1 DEF IdeInv, Owned, OneInside, Inside, Places, AfterData
  <2>3. Called'
    <3>1. pc[t] = "data" /\ pc'[t] # "user"
      BY <1>1, <1>8 DEF AfterData
    <3> QED
      BY <1>5, <2>1, <3>1 DEF IdeInv, Owned, Called
  <2>4. Addressed'
    BY <1>1, <1>2, <1>5, <1>7, <1>8, <2>1
       DEF IdeInv, Owned, Addressed, Target, SectorNo, AfterData, Ops
  <2> QED
    BY <1>6, <2>2, <2>3, <2>4 DEF Owned
<1>10. Settled'
  <2>1. lba = SectorNo(t) /\ SectorNo(t) \in SectorsOf(selected)
    BY <1>1, SectorOnDisk DEF IdeInv, Owned, Addressed
  <2>2. State = "drq" /\ disk[selected].op = call[t].op /\ disk[selected].sector = lba
    BY <1>1, <1>2 DEF IdeInv, Settled, AtWork, Works, State
  <2>3. AtWork(t)'
    BY <1>2, <1>4, <1>5, <1>7, <1>8 DEF AtWork, State, AfterData, Ops
  <2>4. call[t].op = "write" => call[t].buffer \in Values
    BY <1>1 DEF IdeInv, Owned, Called
  <2> QED
    BY <1>1, <1>2, <1>4, <1>7, <2>1, <2>2, <2>3, <2>4
       DEF IdeInv, Owned, Types, Settled, State, Ops
<1>11. Quiet'
  <2>1. strays = 0 => State = "drq" /\ disk[selected].op = call[t].op /\ Silent
    BY <1>1, <1>2 DEF IdeInv, Quiet, Settled, Awaits, AtWork, Works, State
  <2>2. strays = 0 => Awaits(t)'
    BY <1>2, <1>4, <1>5, <1>7, <1>8, <2>1 DEF Awaits, State, Silent, AfterData, Ops
  <2> QED
    BY <1>1, <1>2, <1>4, <1>7, <2>1, <2>2 DEF IdeInv, Owned, Types, Quiet, DRQ, State
<1> QED
  BY <1>9, <1>10, <1>11 DEF IdeInv

LEMMA ReleaseInv ==
  ASSUME IdeInv, NEW t \in Threads, Release(t)
  PROVE  IdeInv'
<1>1. /\ pc[t] = "unlock" /\ pc' = [pc EXCEPT ![t] = "user"]
      /\ lock' = Nobody /\ call' = [call EXCEPT ![t] = NoCall]
      /\ UNCHANGED <<expecting_interrupt, completion_wait, registers, disk, medium,
                     troubles, panicked, confused>>
  BY DEF Release, At, Goto
<1>2. lock = t /\ call[t].op \in Ops
  BY <1>1 DEF IdeInv, Owned, OneInside, Called, Inside, Places
<1>3. Types'
  BY <1>1 DEF IdeInv, Owned, Types, Calls, registers, troubles, Places, NoCall
<1>4. Owned'
  BY <1>1, <1>2, <1>3 DEF IdeInv, Owned, Types, OneInside, Called, Addressed, Target, SectorNo,
                          Inside, Places, registers
<1>5. Settled'
  BY <1>1, <1>2 DEF IdeInv, Owned, Types, Settled, State, AtWork, Works, registers, Ops
<1>6. Quiet'
  BY <1>1, <1>2 DEF IdeInv, Owned, Types, Quiet, State, Silent, Signalled, Awaits, registers,
                    troubles, Ops
<1> QED
  BY <1>4, <1>5, <1>6 DEF IdeInv

-----------------------------------------------------------------------------
(* The steps of the interrupt handler and of the disks. *)

LEMMA InterruptInv ==
  ASSUME IdeInv, Interrupt \/ Stray
  PROVE  IdeInv'
<1>1. /\ completion_wait' = completion_wait + 1
      /\ disk' = [disk EXCEPT ![selected].intrq = FALSE]
      /\ UNCHANGED <<pc, call, lock, expecting_interrupt, registers, medium, faults, dropped,
                     panicked, confused>>
      /\ \/ strays' = strays /\ disk[selected].intrq
         \/ strays' = strays + 1
  BY DEF IdeInv, Owned, Types, Interrupt, Stray, interrupt_handler, Up
<1>2. Types'
  <2>1. disk \in [Disks -> Controllers] /\ selected \in Disks /\ lba \in Nat
    BY DEF IdeInv, Owned, Types
  <2>2. disk' \in [Disks -> Controllers]
    BY <1>1, <2>1, Acknowledged
  <2> QED
    BY <1>1, <2>2 DEF IdeInv, Owned, Types, registers
<1>3. Owned'
  BY <1>1, <1>2 DEF IdeInv, Owned, OneInside, Called, Addressed, Target, SectorNo, registers
<1>4. Settled'
  BY <1>1 DEF IdeInv, Owned, Types, Settled, Controllers, State, AtWork, Works, registers
<1>5. Quiet'
  <2>1. CASE strays' = strays /\ disk[selected].intrq
    BY <1>1, <2>1 DEF IdeInv, Owned, Types, Quiet, Controllers, State, Silent, Signalled, Awaits,
                      registers
  <2>2. CASE strays' = strays + 1
    BY <2>2 DEF IdeInv, Owned, Types, Quiet
  <2> QED
    BY <1>1, <2>1, <2>2
<1> QED
  BY <1>3, <1>4, <1>5 DEF IdeInv

(* The disk that does something is the selected one. *)
LEMMA OnlySelectedWorks ==
  ASSUME IdeInv, NEW d \in Disks, ~confused, BSY(d)
  PROVE  d = selected /\ State \in {"busy", "storing"}
BY DEF IdeInv, Settled, BSY, State

(* The controller d ends a phase of its command. *)
LEMMA ControllerStep ==
  ASSUME disk \in [Disks -> Controllers], NEW d \in Disks,
         NEW state \in {"idle", "drq"}, NEW data \in Values \cup {NoValue},
         Controller(d, state, data)
  PROVE  /\ disk' \in [Disks -> Controllers]
         /\ disk'[d].state = state /\ disk'[d].data = data
         /\ disk'[d].op = disk[d].op /\ disk'[d].sector = disk[d].sector
         /\ disk'[d].intrq = (disk[d].intrq \/ state = "idle" \/ disk[d].op = "read")
         /\ \A e \in Disks \ {d} : disk'[e] = disk[e]
<1>1. PICK c : c = [disk[d] EXCEPT !.state = state, !.data = data,
                      !.intrq = disk[d].intrq \/ state = "idle" \/ disk[d].op = "read"]
  OBVIOUS
<1>2. /\ c \in Controllers /\ c.state = state /\ c.data = data
      /\ c.op = disk[d].op /\ c.sector = disk[d].sector
      /\ c.intrq = (disk[d].intrq \/ state = "idle" \/ disk[d].op = "read")
  BY <1>1 DEF Controllers
<1>3. disk' = [disk EXCEPT ![d] = c]
  BY <1>1 DEF Controller
<1> QED
  BY <1>2, <1>3, Changed

LEMMA AnswerInv ==
  ASSUME IdeInv, NEW d \in Disks, Answer(d)
  PROVE  IdeInv'
<1>1. /\ ~confused /\ d = selected /\ State \in {"busy", "storing"}
      /\ UNCHANGED <<pc, call, lock, expecting_interrupt, completion_wait, selected, lba, panicked,
                     confused, strays, faults, dropped>>
  BY OnlySelectedWorks DEF Answer, Elsewhere, Running, channel, registers
<1>2. disk \in [Disks -> Controllers] /\ selected \in Disks
  BY DEF IdeInv, Owned, Types
<1>3. \A e \in Disks \ {selected} : disk'[e] = disk[e]
  BY <1>1, <1>2 DEF Answer, Controller
<1>4. CASE State = "storing"
  <2>1. /\ medium' = [medium EXCEPT ![selected][disk[selected].sector] = disk[selected].data]
        /\ disk' \in [Disks -> Controllers] /\ disk'[selected].state = "idle" /\ disk'[selected].intrq
    BY <1>1, <1>2, <1>4, ControllerStep DEF Answer, State
  <2>3. disk[selected].sector \in SectorsOf(selected) /\ disk[selected].data \in Values
    BY <1>1, <1>4 DEF IdeInv, Settled
  <2>4. Types'
    BY <1>1, <2>1, <2>3 DEF IdeInv, Owned, Types
  <2>5. Owned'
    BY <1>1, <2>4 DEF IdeInv, Owned, OneInside, Called, Addressed, Target, SectorNo
  <2>6. Settled'
    BY <1>1, <1>3, <1>4, <2>1 DEF IdeInv, Owned, Called, Settled, State, AtWork, Works, Ops
  <2>7. Quiet'
    BY <1>1, <1>3, <1>4, <2>1 DEF IdeInv, Owned, Called, Settled, AtWork, Works, Quiet, State, Silent,
                                  Signalled, Awaits, Ops
  <2> QED
    BY <2>5, <2>6, <2>7 DEF IdeInv
<1>5. CASE State = "busy"
  <2>2. PICK t \in Threads : lock = t /\ disk[selected].op = call[t].op /\ disk[selected].sector = lba
                            /\ lba = SectorNo(t) /\ pc[t] \in {"down", "busy"} /\ call[t].op \in Ops
                            /\ selected = Target(t) /\ (call[t].op = "write" => pc[t] = "busy")
    BY <1>1, <1>5 DEF IdeInv, Owned, Types, OneInside, Called, Addressed, Settled, AtWork, Works,
                      State, Inside, Places, Ops
  <2>3. lba \in SectorsOf(selected)
    BY <2>2, SectorOnDisk DEF IdeInv
  <2>4. medium[selected][lba] \in Values
    BY <1>2, <2>3 DEF IdeInv, Owned, Types
  <2>5. /\ UNCHANGED medium
        /\ disk' \in [Disks -> Controllers] /\ disk'[selected].state = "drq"
        /\ disk'[selected].intrq = (disk[selected].intrq \/ call[t].op = "read")
        /\ disk'[selected].op = disk[selected].op /\ disk'[selected].sector = disk[selected].sector
        /\ call[t].op = "read" => disk'[selected].data = medium[selected][lba]
    <3>1. Controller(selected, "drq", IF call[t].op = "read" THEN medium[selected][lba] ELSE NoValue)
          /\ UNCHANGED medium
      BY <1>1, <1>5, <2>2 DEF Answer, State
    <3> QED
      BY <1>2, <2>2, <2>4, <3>1, ControllerStep
  <2>6. Types'
    BY <1>1, <2>5 DEF IdeInv, Owned, Types
  <2>7. Owned'
    BY <1>1, <2>6 DEF IdeInv, Owned, OneInside, Called, Addressed, Target, SectorNo
  <2>8. Settled'
    <3>1. AtWork(t)'
      BY <1>1, <2>2, <2>5 DEF AtWork, Works, State, Ops
    <3> QED
      BY <1>1, <1>3, <2>2, <2>5, <3>1 DEF IdeInv, Owned, Types, Settled, State
  <2>9. Quiet'
    <3>1. strays = 0 => Awaits(t)'
      BY <1>1, <1>5, <2>2, <2>5 DEF IdeInv, Quiet, Awaits, State, Silent, Signalled, Ops
    <3> QED
      BY <1>1, <1>3, <2>2, <3>1 DEF IdeInv, Owned, Types, Quiet
  <2> QED
    BY <2>7, <2>8, <2>9 DEF IdeInv
<1> QED
  BY <1>1, <1>4, <1>5

LEMMA FailInv ==
  ASSUME IdeInv, NEW d \in Disks, Fail(d)
  PROVE  IdeInv'
<1>1. /\ ~confused /\ d = selected /\ State \in {"busy", "storing"}
      /\ UNCHANGED <<pc, call, lock, expecting_interrupt, completion_wait, selected, lba, panicked,
                     confused, strays, medium>>
      /\ dropped' \in BOOLEAN
  BY OnlySelectedWorks DEF IdeInv, Owned, Types, Fail, Elsewhere, Running, channel, registers
<1>2. disk \in [Disks -> Controllers] /\ selected \in Disks
  BY DEF IdeInv, Owned, Types
<1>3. Controller(selected, "idle", NoValue)
  BY <1>1 DEF Fail
<1>4. /\ disk' \in [Disks -> Controllers] /\ disk'[selected].state = "idle" /\ disk'[selected].intrq
      /\ \A e \in Disks \ {selected} : disk'[e] = disk[e]
  BY <1>2, <1>3, ControllerStep
<1>5. Types'
  BY <1>1, <1>4 DEF IdeInv, Owned, Types
<1>6. Owned'
  BY <1>1, <1>5 DEF IdeInv, Owned, OneInside, Called, Addressed, Target, SectorNo
<1>7. Settled'
  BY <1>1, <1>4 DEF IdeInv, Owned, Called, Settled, State, AtWork, Works, Ops
<1>8. Quiet'
  BY <1>1, <1>4 DEF IdeInv, Owned, Called, Settled, AtWork, Works, Quiet, State, Silent,
                    Signalled, Awaits, Ops
<1> QED
  BY <1>6, <1>7, <1>8 DEF IdeInv

LEMMA DieInv ==
  ASSUME IdeInv, NEW d \in Disks, Die(d)
  PROVE  IdeInv'
<1>1. /\ UNCHANGED <<pc, call, lock, expecting_interrupt, completion_wait, selected, lba, panicked,
                     confused, strays, medium, dropped>>
      /\ disk' = [disk EXCEPT ![d].dead = TRUE]
  BY DEF Die, Elsewhere, channel, registers
<1>2. disk \in [Disks -> Controllers] /\ selected \in Disks
  BY DEF IdeInv, Owned, Types
<1>3. /\ disk' \in [Disks -> Controllers]
      /\ \A e \in Disks : /\ disk'[e].state = disk[e].state /\ disk'[e].op = disk[e].op
                           /\ disk'[e].sector = disk[e].sector /\ disk'[e].data = disk[e].data
                           /\ disk'[e].intrq = disk[e].intrq
  <2>1. disk[d] \in Controllers
    BY <1>2
  <2>2. PICK c : c = [disk[d] EXCEPT !.dead = TRUE]
    OBVIOUS
  <2>3. /\ c \in Controllers /\ c.state = disk[d].state /\ c.op = disk[d].op
        /\ c.sector = disk[d].sector /\ c.data = disk[d].data /\ c.intrq = disk[d].intrq
    BY <2>1, <2>2 DEF Controllers
  <2>4. disk' = [disk EXCEPT ![d] = c]
    BY <1>1, <2>2
  <2> QED
    BY <1>2, <2>3, <2>4, Changed
<1>4. Owned'
  BY <1>1, <1>3 DEF IdeInv, Owned, Types, OneInside, Called, Addressed, Target, SectorNo
<1>5. Settled'
  BY <1>1, <1>2, <1>3 DEF IdeInv, Settled, State, AtWork, Works
<1>6. Quiet'
  BY <1>1, <1>2, <1>3 DEF IdeInv, Quiet, State, Silent, Signalled, Awaits
<1> QED
  BY <1>4, <1>5, <1>6 DEF IdeInv

LEMMA NextInv == IdeInv /\ Next => IdeInv'
<1> SUFFICES ASSUME IdeInv, Next PROVE IdeInv'
  OBVIOUS
<1>1. CASE \E t \in Threads : Runs(t) \/ Reads(t) \/ Writes(t)
  <2>1. PICK t \in Threads : Runs(t) \/ Reads(t) \/ Writes(t)
    BY <1>1
  <2> QED
    BY <2>1, CallInv, AcquireInv, WaitIdleInv, SelectInv, SelectSectorInv, IssueInv, DownInv,
       WaitWhileBusyInv, TransferInv, ReleaseInv DEF Runs
<1>2. CASE Interrupt \/ Stray
  BY <1>2, InterruptInv
<1>3. CASE \E d \in Disks : Answer(d) \/ Fail(d) \/ Die(d)
  BY <1>3, AnswerInv, FailInv, DieInv
<1> QED
  BY <1>1, <1>2, <1>3 DEF Next

(* Where each command is, what the disk does and who waits for it. *)
THEOREM IdeInvHolds == Spec => []IdeInv
<1>1. IdeInv /\ [Next]_vars => IdeInv'
  BY NextInv, StutterInv
<1> QED
  BY <1>1, InitInv, PTL DEF Spec

(***************************************************************************)
(* An interrupt is waited for once: when the channel is given up none is   *)
(* pending or counted and the disks are idle, and no disk is programmed in *)
(* the middle of a command, though wait_until_idle() gives up.             *)
(***************************************************************************)
THEOREM ChannelIsQuiet == Spec => []QuietWhenFree
<1>1. IdeInv => QuietWhenFree
  <2> SUFFICES ASSUME IdeInv, strays = 0
               PROVE  /\ ~confused
                      /\ lock = Nobody =>
                           /\ completion_wait = 0
                           /\ \A d \in Disks : disk[d].state = "idle" /\ ~disk[d].intrq
    BY DEF QuietWhenFree
  <2> QED
    BY DEF IdeInv, Settled, Quiet, State, Silent
<1> QED
  BY <1>1, IdeInvHolds, PTL

-----------------------------------------------------------------------------
(***************************************************************************)
(* Every step of the disks is a step of BlockStore, or changes nothing     *)
(* there: a call begins, takes effect when the disk answers a read or has  *)
(* received a write's sector, and ends when the channel is given up.       *)
(***************************************************************************)
Does(t) == HasRead(t) \/ HasWritten(t)
Carries(t) == IF HasRead(t) /\ pc[t] # "unlock" THEN disk[selected].data ELSE call[t].buffer

SameSectors == \A d \in Disks : \A s \in SectorsOf(d) : Held(d, s)' = Held(d, s)
SameRequest(t) ==
  /\ call'[t].op = call[t].op /\ call'[t].block = call[t].block
  /\ call'[t].sector = call[t].sector
SameCall(t) == SameRequest(t) /\ (Does(t)' <=> Does(t)) /\ Carries(t)' = Carries(t)
SameTroubles ==
  (dropped' <=> dropped) /\ (panicked' <=> panicked) /\ (confused' <=> confused)

(* The calls of the threads that are not inside are only what they asked for. *)
LEMMA OutsideCall ==
  ASSUME OneInside, NEW t \in Threads, lock # t
  PROVE  ~Does(t) /\ Carries(t) = call[t].buffer
BY DEF OneInside, Inside, Places, Does, Carries, HasRead, HasWritten

LEMMA OthersSame ==
  ASSUME OneInside, OneInside', NEW t \in Threads, lock # t, lock' # t, call'[t] = call[t]
  PROVE  SameCall(t)
<1>1. ~Does(t) /\ Carries(t) = call[t].buffer
  BY OutsideCall
<1>2. ~Does(t)' /\ Carries(t)' = call'[t].buffer
  BY DEF OneInside, Inside, Places, Does, Carries, HasRead, HasWritten
<1> QED
  BY <1>1, <1>2 DEF SameCall, SameRequest

LEMMA AddressOnDisk ==
  ASSUME NEW a \in Addresses
  PROVE  a[1] \in Blocks /\ DiskOf[a[1]] \in Disks /\ Start[a[1]] + a[2] \in SectorsOf(DiskOf[a[1]])
BY DEF Addresses, SectorsOf

LEMMA StoredSame == SameSectors => Stored' = Stored
BY AddressOnDisk DEF SameSectors, Stored

LEMMA StoreStutters ==
  ASSUME SameSectors, \A t \in Threads : SameCall(t), SameTroubles
  PROVE  UNCHANGED Store!vars
<1>1. Stored' = Stored
  BY StoredSame
<1>2. Sector' = Sector /\ Op' = Op
  BY DEF Sector, Op, SameCall, SameRequest
<1>3. Done' = Done
  BY DEF Done, SameCall, Does
<1>4. Value' = Value
  BY DEF Value, SameCall, Carries
<1>5. Broken' = Broken
  BY DEF Broken, SameTroubles
<1> QED
  BY <1>1, <1>2, <1>3, <1>4, <1>5 DEF Store!vars

LEMMA StoreBreaks == Broken' => Store!Next
BY DEF Store!Next

(* A call takes effect. *)
LEMMA ReadTakesEffect ==
  ASSUME NEW t \in Threads, call[t].op = "read", ~Does(t), Does(t)', SameRequest(t),
         <<call[t].block, call[t].sector>> \in Addresses,
         Carries(t)' = Held(Target(t), SectorNo(t)),
         \A u \in Threads \ {t} : SameCall(u), SameSectors, SameTroubles
  PROVE  Store!Next
<1>1. Stored' = Stored
  BY StoredSame
<1>2. Sector' = Sector /\ Op' = Op
  BY DEF Sector, Op, SameCall, SameRequest
<1>3. Done' = [Done EXCEPT ![t] = TRUE]
  BY DEF Done, SameCall, Does
<1>4. Stored[Sector[t]] = Held(Target(t), SectorNo(t))
  BY DEF Stored, Sector, Target, SectorNo
<1>5. Value' = [Value EXCEPT ![t] = Stored[Sector[t]]]
  BY <1>4 DEF Value, SameCall, Carries
<1>6. Broken' = Broken
  BY DEF Broken, SameTroubles
<1>7. Op[t] = "read" /\ ~Done[t]
  BY DEF Op, Done, Does
<1>8. Store!Effect(t)
  BY <1>1, <1>2, <1>3, <1>5, <1>7 DEF Store!Effect
<1> QED
  BY <1>6, <1>8 DEF Store!Next

LEMMA WriteTakesEffect ==
  ASSUME NEW t \in Threads, call[t].op = "write", ~Does(t), Does(t)', SameRequest(t),
         <<call[t].block, call[t].sector>> \in Addresses,
         Carries(t)' = Carries(t),
         \A u \in Threads \ {t} : SameCall(u), SameTroubles,
         \A d \in Disks : \A s \in SectorsOf(d) :
           Held(d, s)' = IF d = Target(t) /\ s = SectorNo(t) THEN Carries(t) ELSE Held(d, s)
  PROVE  Store!Next
<1>1. Sector' = Sector /\ Op' = Op
  BY DEF Sector, Op, SameCall, SameRequest
<1>2. Done' = [Done EXCEPT ![t] = TRUE]
  BY DEF Done, SameCall, Does
<1>3. Value' = Value
  BY DEF Value, SameCall, Carries
<1>4. Stored' = [Stored EXCEPT ![Sector[t]] = Value[t]]
  <2>1. Sector[t] = <<call[t].block, call[t].sector>> /\ Value[t] = Carries(t)
    BY DEF Sector, Value, Carries
  <2>2. ASSUME NEW a \in Addresses
        PROVE  Held(DiskOf[a[1]], Start[a[1]] + a[2])' =
                 IF a = Sector[t] THEN Carries(t) ELSE Held(DiskOf[a[1]], Start[a[1]] + a[2])
    <3>1. DiskOf[a[1]] = Target(t) /\ Start[a[1]] + a[2] = SectorNo(t) <=> a = Sector[t]
      <4>1. PICK b \in Blocks : \E s \in 0..(Size[b] - 1) : a = <<b, s>>
        BY DEF Addresses
      <4>2. PICK s \in 0..(Size[b] - 1) : a = <<b, s>>
        BY <4>1
      <4>3. call[t].block \in Blocks /\ call[t].sector \in 0..(Size[call[t].block] - 1)
        BY DEF Addresses
      <4>4. a[1] = b /\ a[2] = s
        BY <4>2
      <4>5. b # call[t].block => ~(DiskOf[b] = Target(t) /\ Start[b] + s = SectorNo(t))
        BY <4>3, PartitionsAssumption DEF Target, SectorNo
      <4>6. b = call[t].block =>
              (DiskOf[b] = Target(t) /\ (Start[b] + s = SectorNo(t) <=> s = call[t].sector))
        <5>1. call[t].sector \in Int /\ s \in Int /\ Start[b] \in Int
          BY <4>3
        <5> QED
          BY <5>1 DEF Target, SectorNo
      <4> QED
        BY <2>1, <4>2, <4>4, <4>5, <4>6
    <3> QED
      BY <3>1, AddressOnDisk
  <2> QED
    BY <2>1, <2>2 DEF Stored
<1>5. Broken' = Broken
  BY DEF Broken, SameTroubles
<1>6. Op[t] = "write" /\ ~Done[t]
  BY DEF Op, Done, Does
<1>7. Store!Effect(t)
  BY <1>1, <1>2, <1>3, <1>4, <1>6 DEF Store!Effect
<1> QED
  BY <1>5, <1>7 DEF Store!Next

-----------------------------------------------------------------------------
Advances == Store!Next \/ UNCHANGED Store!vars

(* What may change of a controller without anyone noticing. *)
SameWork(d) ==
  disk'[d].state = disk[d].state /\ disk'[d].sector = disk[d].sector /\ disk'[d].data = disk[d].data

LEMMA HeldSame ==
  ASSUME UNCHANGED medium,
         \A d \in Disks : SameWork(d) \/ (disk[d].state # "storing" /\ disk'[d].state # "storing")
  PROVE  SameSectors
BY DEF SameSectors, Held, SameWork

LEMMA AddressOfCall ==
  ASSUME Owned, NEW t \in Threads, pc[t] # "user"
  PROVE  <<call[t].block, call[t].sector>> \in Addresses
<1>1. call[t].block \in Blocks /\ call[t].sector \in 0..(Size[call[t].block] - 1)
  BY DEF Owned, Called
<1> QED
  BY <1>1 DEF Addresses

LEMMA CallAdvances ==
  ASSUME IdeInv, IdeInv', NEW t \in Threads, Reads(t) \/ Writes(t)
  PROVE  Advances
<1>1. PICK op \in Ops, b \in Blocks, v \in Values \cup {NoValue}, s \in Nat :
        /\ op = "read" => v = NoValue
        /\ op = "write" => v \in Values
        /\ s \in 0..(Size[b] - 1)
        /\ pc[t] = "user" /\ pc' = [pc EXCEPT ![t] = "lock"]
        /\ call' = [call EXCEPT ![t] = [op |-> op, block |-> b, sector |-> s, buffer |-> v]]
        /\ UNCHANGED <<channel, registers, disk, medium, troubles, panicked, confused>>
  BY CallGoes
<1>2. call \in [Threads -> Calls] /\ call[t] = NoCall /\ lock # t
  BY <1>1 DEF IdeInv, Owned, Types, Called, OneInside, Inside
<1>3. lock' # t /\ \A u \in Threads \ {t} : lock' = lock /\ call'[u] = call[u] /\ pc'[u] = pc[u]
  BY <1>1, <1>2 DEF IdeInv, Owned, Types, channel
<1>4. <<b, s>> \in Addresses
  BY <1>1 DEF Addresses
<1>5. Stored' = Stored /\ Broken' = Broken
  <2>1. SameSectors
    BY <1>1, HeldSame DEF SameWork
  <2> QED
    BY <1>1, <2>1, StoredSame DEF Broken, troubles
<1>6. Op' = [Op EXCEPT ![t] = op] /\ Sector' = [Sector EXCEPT ![t] = <<b, s>>]
  BY <1>1, <1>2 DEF Op, Sector
<1>7. \A u \in Threads : /\ Does(u)' <=> Does(u)
                         /\ Carries(u)' = IF u = t THEN v ELSE Carries(u)
  <2>1. ~Does(t) /\ Does(t)' = FALSE /\ Carries(t)' = v
    BY <1>1, <1>2, <1>3 DEF Does, Carries, HasRead, HasWritten, IdeInv, Owned, Types
  <2>2. ASSUME NEW u \in Threads, u # t
        PROVE  (Does(u)' <=> Does(u)) /\ Carries(u)' = Carries(u)
    BY <1>1, <1>3, <2>2 DEF Does, Carries, HasRead, HasWritten, DRQ, registers
  <2> QED
    BY <2>1, <2>2
<1>8. Done' = Done
  BY <1>7 DEF Done, Does
<1>9. Value' = [Value EXCEPT ![t] = v]
  BY <1>7 DEF Value, Carries
<1>10. Op[t] = "none"
  BY <1>2 DEF Op, NoCall
<1>11. Store!Begin(t, op, <<b, s>>, v)
  BY <1>5, <1>6, <1>8, <1>9, <1>10 DEF Store!Begin
<1> QED
  BY <1>1, <1>4, <1>5, <1>11 DEF Advances, Store!Next, Ops

(* The channel's owner goes on; what the disks hold and do is the same. *)
LEMMA QuietAdvances ==
  ASSUME IdeInv, IdeInv', NEW t \in Threads,
         Acquire(t) \/ Select(t) \/ SelectSector(t) \/ Down(t)
  PROVE  Advances
<1>1. UNCHANGED <<call, disk, medium, troubles, panicked, confused>> 
  BY DEF Acquire, Select, SelectSector, Down
<1>2. SameSectors /\ SameTroubles
  BY <1>1, HeldSame DEF SameWork, SameTroubles, troubles
<1>3. lock' = t /\ \A u \in Threads \ {t} : lock # u
  <2>1. CASE Acquire(t)
    BY <2>1 DEF Acquire, IdeInv, Owned, Types
  <2>2. CASE Select(t) \/ SelectSector(t) \/ Down(t)
    <3>1. pc[t] \in {"select", "sector", "down"} /\ lock' = lock
      BY <2>2 DEF Select, SelectSector, Down, At, channel
    <3> QED
      BY <3>1 DEF IdeInv, Owned, OneInside, Inside, Places
  <2> QED
    BY <2>1, <2>2
<1>4. (Does(t)' <=> Does(t)) /\ Carries(t)' = Carries(t)
  BY <1>1, <1>3 DEF Acquire, Select, SelectSector, Down, At, Goto, Does, Carries, HasRead, HasWritten, DRQ,
                    IdeInv, Owned, Types, registers
<1>5. \A u \in Threads : SameCall(u)
  <2>1. SameCall(t)
    BY <1>1, <1>4 DEF SameCall, SameRequest
  <2>2. ASSUME NEW u \in Threads \ {t} PROVE SameCall(u)
    BY <1>1, <1>3, OthersSame DEF IdeInv, Owned
  <2> QED
    BY <2>1, <2>2
<1> QED
  BY <1>2, <1>5, StoreStutters DEF Advances

LEMMA WaitIdleAdvances ==
  ASSUME IdeInv, IdeInv', NEW t \in Threads, WaitOther(t) \/ WaitSelected(t)
  PROVE  Advances
<1>1. PICK place \in {"select", "sector"} :
        /\ pc' = [pc EXCEPT ![t] = place]
        /\ pc[t] \in {"idle", "selected"}
        /\ disk' = [disk EXCEPT ![selected].intrq = FALSE]
        /\ confused' = (disk[selected].state # "idle")
        /\ UNCHANGED <<call, channel, registers, medium, troubles, panicked>>
        /\ ~confused
  BY DEF WaitOther, WaitSelected, WaitIdle, At, Goto, Running
<1>2. disk \in [Disks -> Controllers] /\ selected \in Disks /\ pc \in [Threads -> Places] /\ lock = t
  BY <1>1 DEF IdeInv, Owned, Types, OneInside, Inside, Places
<1>3. \A d \in Disks : SameWork(d)
  BY <1>1, <1>2 DEF SameWork, Controllers
<1>4. SameSectors
  BY <1>1, <1>3, HeldSame
<1>5. SameCall(t)
  BY <1>1, <1>2 DEF SameCall, SameRequest, Does, Carries, HasRead, HasWritten
<1>6. ASSUME NEW u \in Threads \ {t} PROVE SameCall(u)
  BY <1>1, <1>2, OthersSame DEF IdeInv, Owned, channel
<1>7. CASE confused'
  BY <1>7, StoreBreaks DEF Broken, Advances
<1>8. CASE ~confused'
  BY <1>1, <1>4, <1>5, <1>6, <1>8, StoreStutters DEF SameTroubles, troubles, Advances
<1> QED
  BY <1>7, <1>8

LEMMA IssueAdvances ==
  ASSUME IdeInv, IdeInv', NEW t \in Threads, Issue(t)
  PROVE  Advances
<1>1. /\ pc[t] = "command" /\ pc' = [pc EXCEPT ![t] = AfterCommand(call[t].op)]
      /\ disk' = [disk EXCEPT ![selected] =
                    [@ EXCEPT !.state = "busy", !.op = call[t].op, !.sector = lba]]
      /\ confused' = (disk[selected].state # "idle")
      /\ ~confused
      /\ UNCHANGED <<call, channel, registers, medium, troubles, panicked>>
  BY DEF Issue, At, Goto, Running
<1>2. disk \in [Disks -> Controllers] /\ selected \in Disks /\ pc \in [Threads -> Places]
      /\ lock = t /\ call[t].op \in Ops
  BY <1>1 DEF IdeInv, Owned, Types, OneInside, Called, Inside, Places
<1>3. disk'[selected].state = "busy" /\ \A d \in Disks \ {selected} : disk'[d] = disk[d]
  BY <1>1, <1>2 DEF Controllers
<1>4. CASE confused'
  BY <1>4, StoreBreaks DEF Broken, Advances
<1>5. CASE ~confused'
  <2>1. SameSectors
    BY <1>1, <1>3, <1>5, HeldSame DEF SameWork
  <2>2. SameCall(t)
    BY <1>1, <1>2, <1>3 DEF SameCall, SameRequest, Does, Carries, HasRead, HasWritten, DRQ,
                            AfterCommand, registers, Ops
  <2>3. ASSUME NEW u \in Threads \ {t} PROVE SameCall(u)
    BY <1>1, <1>2, OthersSame DEF IdeInv, Owned, channel
  <2> QED
    BY <1>1, <1>5, <2>1, <2>2, <2>3, StoreStutters DEF SameTroubles, troubles, Advances
<1> QED
  BY <1>4, <1>5

LEMMA WaitWhileBusyAdvances ==
  ASSUME IdeInv, IdeInv', NEW t \in Threads, WaitWhileBusy(t)
  PROVE  Advances
<1>1. /\ pc[t] = "busy" /\ UNCHANGED <<call, troubles, confused, channel, registers, disk, medium>>
      /\ IF DRQ(selected) THEN pc' = [pc EXCEPT ![t] = "data"] /\ UNCHANGED panicked
         ELSE panicked' = TRUE /\ UNCHANGED pc
  BY DEF WaitWhileBusy, At, Goto, PANIC
<1>2. pc \in [Threads -> Places] /\ lock = t
  BY <1>1 DEF IdeInv, Owned, Types, OneInside, Inside, Places
<1>3. CASE panicked'
  BY <1>3, StoreBreaks DEF Broken, Advances
<1>4. CASE ~panicked'
  <2>1. SameSectors
    BY <1>1, HeldSame DEF SameWork
  <2>2. SameCall(t)
    BY <1>1, <1>2, <1>4 DEF SameCall, SameRequest, Does, Carries, HasRead, HasWritten, DRQ, registers, channel
  <2>3. ASSUME NEW u \in Threads \ {t} PROVE SameCall(u)
    BY <1>1, <1>2, OthersSame DEF IdeInv, Owned, channel
  <2> QED
    BY <1>1, <1>4, <2>1, <2>2, <2>3, StoreStutters DEF SameTroubles, troubles, Advances
<1> QED
  BY <1>3, <1>4

LEMMA TransferAdvances ==
  ASSUME IdeInv, IdeInv', NEW t \in Threads, Transfer(t)
  PROVE  Advances
<1>1. /\ pc[t] = "data" /\ pc' = [pc EXCEPT ![t] = AfterData(call[t].op)]
      /\ IF call[t].op = "read"
         THEN call' = [call EXCEPT ![t].buffer = disk[selected].data]
         ELSE UNCHANGED call
      /\ confused' = ~(DRQ(selected) /\ disk[selected].op = call[t].op)
      /\ ~confused
      /\ UNCHANGED <<channel, registers, medium, troubles, panicked>>
  BY DEF Transfer, At, Goto, Running
<1>2. disk \in [Disks -> Controllers] /\ selected \in Disks /\ pc \in [Threads -> Places]
      /\ lock = t /\ call[t].op \in Ops /\ selected = Target(t) /\ lba = SectorNo(t)
      /\ call \in [Threads -> Calls]
  BY <1>1 DEF IdeInv, Owned, Types, OneInside, Called, Addressed, Inside, Places
<1>3. CASE confused'
  BY <1>3, StoreBreaks DEF Broken, Advances
<1>4. CASE ~confused'
  <2>1. State = "drq" /\ disk[selected].op = call[t].op /\ disk[selected].sector = lba
    BY <1>1, <1>2 DEF IdeInv, Settled, AtWork, Works, State
  <2>2. ASSUME NEW u \in Threads \ {t} PROVE SameCall(u)
    <3>1. call'[u] = call[u]
      BY <1>1, <1>2
    <3> QED
      BY <1>1, <1>2, <3>1, OthersSame DEF IdeInv, Owned, channel
  <2>3. SameTroubles
    BY <1>1, <1>4 DEF SameTroubles, troubles
  <2>4. call[t] \in Calls /\ \A d \in Disks \ {selected} : disk'[d] = disk[d]
    BY <1>1, <1>2, Transfers
  <2>5. CASE call[t].op = "read"
    <3>1. disk'[selected].state = "idle"
      BY <2>5, Transfers
    <3>2. SameSectors
      BY <1>1, <2>1, <2>4, <3>1, HeldSame DEF SameWork, State
    <3>3. SameRequest(t) /\ call'[t].buffer = disk[selected].data
      BY <1>1, <1>2, <2>4, <2>5 DEF SameRequest, Calls
    <3>4. Does(t) /\ Carries(t) = disk[selected].data
      BY <1>1, <1>2, <2>1, <2>5 DEF Does, Carries, HasRead, DRQ, State
    <3>5. pc'[t] = "unlock"
      BY <1>1, <1>2, <2>5 DEF AfterData
    <3>6. Does(t)' /\ Carries(t)' = call'[t].buffer
      BY <2>5, <3>3, <3>5 DEF Does, Carries, HasRead, SameRequest
    <3>7. SameCall(t)
      BY <3>3, <3>4, <3>6 DEF SameCall
    <3> QED
      BY <2>2, <2>3, <3>2, <3>7, StoreStutters DEF Advances
  <2>6. CASE call[t].op = "write"
    <3>1. disk'[selected].state = "storing" /\ disk'[selected].sector = lba
          /\ disk'[selected].data = call[t].buffer
      BY <2>1, <2>6, Transfers
    <3>2. pc'[t] = "down" /\ call' = call /\ medium' = medium
      BY <1>1, <1>2, <2>6 DEF AfterData
    <3>3. ~Does(t) /\ Does(t)' /\ SameRequest(t) /\ Carries(t)' = Carries(t) /\ Carries(t) = call[t].buffer
      BY <1>1, <2>6, <3>2 DEF Does, Carries, HasRead, HasWritten, SameRequest
    <3>4. \A d \in Disks : \A s \in SectorsOf(d) :
            Held(d, s)' = IF d = Target(t) /\ s = SectorNo(t) THEN Carries(t) ELSE Held(d, s)
      BY <1>2, <2>1, <2>4, <3>1, <3>2, <3>3 DEF Held, State
    <3>5. <<call[t].block, call[t].sector>> \in Addresses
      BY <1>1, AddressOfCall DEF IdeInv
    <3> QED
      BY <2>2, <2>3, <2>6, <3>3, <3>4, <3>5, WriteTakesEffect DEF Advances
  <2> QED
    BY <1>2, <2>5, <2>6 DEF Ops
<1> QED
  BY <1>3, <1>4

LEMMA ReleaseAdvances ==
  ASSUME IdeInv, IdeInv', NEW t \in Threads, Release(t)
  PROVE  Advances
<1>1. /\ pc[t] = "unlock" /\ pc' = [pc EXCEPT ![t] = "user"]
      /\ lock' = Nobody /\ call' = [call EXCEPT ![t] = NoCall]
      /\ UNCHANGED <<expecting_interrupt, completion_wait, registers, disk, medium,
                     troubles, panicked, confused>>
  BY DEF Release, At, Goto
<1>2. call \in [Threads -> Calls] /\ pc \in [Threads -> Places] /\ call[t].op \in Ops /\ lock = t
      /\ lock' \notin Threads
  BY <1>1 DEF IdeInv, Owned, Types, Called, OneInside, Inside, Places
<1>3. Stored' = Stored /\ Broken' = Broken
  <2>1. SameSectors
    BY <1>1, HeldSame DEF SameWork
  <2> QED
    BY <1>1, <2>1, StoredSame DEF Broken, troubles
<1>4. Op' = [Op EXCEPT ![t] = "none"] /\ Sector' = [Sector EXCEPT ![t] = <<Nobody, 0>>]
  BY <1>1, <1>2 DEF Op, Sector, NoCall
<1>5. \A u \in Threads : u # t => SameCall(u)
  BY <1>1, <1>2, OthersSame DEF IdeInv, Owned
<1>6. Does(t) /\ Does(t)' = FALSE /\ Carries(t)' = NoValue
  BY <1>1, <1>2 DEF Does, Carries, HasRead, HasWritten, NoCall, Ops
<1>7. Done' = [Done EXCEPT ![t] = FALSE] /\ Done[t]
  BY <1>5, <1>6 DEF Done, Does, SameCall
<1>8. Value' = [Value EXCEPT ![t] = NoValue]
  BY <1>5, <1>6 DEF Value, Carries, SameCall
<1>9. Store!End(t)
  BY <1>3, <1>4, <1>7, <1>8 DEF Store!End
<1> QED
  BY <1>3, <1>9 DEF Advances, Store!Next

(* The steps that are not the threads' leave the calls alone. *)
LEMMA HardwareAdvances ==
  ASSUME IdeInv, UNCHANGED <<pc, call, lock, selected>>, SameTroubles, SameSectors,
         disk'[selected].data = disk[selected].data \/ ~DRQ(selected),
         DRQ(selected)' <=> DRQ(selected)
  PROVE  Advances
<1>1. ASSUME NEW t \in Threads PROVE SameCall(t)
  BY DEF SameCall, SameRequest, Does, Carries, HasRead, HasWritten
<1> QED
  BY <1>1, StoreStutters DEF Advances

LEMMA InterruptAdvances ==
  ASSUME IdeInv, Interrupt \/ Stray
  PROVE  Advances
<1>1. /\ disk' = [disk EXCEPT ![selected].intrq = FALSE]
      /\ UNCHANGED <<pc, call, lock, registers, medium, dropped, panicked, confused>>
  BY DEF IdeInv, Owned, Types, Interrupt, Stray, interrupt_handler
<1>2. disk \in [Disks -> Controllers] /\ selected \in Disks
  BY DEF IdeInv, Owned, Types
<1>3. \A d \in Disks : SameWork(d)
  BY <1>1, <1>2 DEF SameWork, Controllers
<1>4. SameSectors
  BY <1>1, <1>3, HeldSame
<1> QED
  BY <1>1, <1>2, <1>3, <1>4, HardwareAdvances DEF SameTroubles, SameWork, DRQ, registers

LEMMA DieAdvances ==
  ASSUME IdeInv, NEW d \in Disks, Die(d)
  PROVE  Advances
<1>1. /\ disk' = [disk EXCEPT ![d].dead = TRUE]
      /\ UNCHANGED <<pc, call, channel, registers, medium, dropped, panicked, confused>>
  BY DEF Die, Elsewhere
<1>2. disk \in [Disks -> Controllers] /\ selected \in Disks
  BY DEF IdeInv, Owned, Types
<1>3. \A e \in Disks : SameWork(e)
  BY <1>1, <1>2 DEF SameWork, Controllers
<1>4. SameSectors
  BY <1>1, <1>3, HeldSame
<1> QED
  BY <1>1, <1>2, <1>3, <1>4, HardwareAdvances DEF SameTroubles, SameWork, DRQ, registers, channel

LEMMA FailAdvances ==
  ASSUME IdeInv, IdeInv', NEW d \in Disks, Fail(d)
  PROVE  Advances
<1>1. /\ d = selected /\ State \in {"busy", "storing"}
      /\ UNCHANGED <<pc, call, lock, selected, panicked, confused, medium>>
      /\ dropped' = (dropped \/ State = "storing")
  BY OnlySelectedWorks DEF Fail, Elsewhere, Running, channel, registers, State
<1>2. disk \in [Disks -> Controllers] /\ selected \in Disks /\ dropped \in BOOLEAN
  BY DEF IdeInv, Owned, Types
<1>3. disk'[selected].state = "idle" /\ \A e \in Disks \ {selected} : disk'[e] = disk[e]
  BY <1>1, <1>2, ControllerStep DEF Fail
<1>4. CASE State = "storing"
  BY <1>1, <1>4, StoreBreaks DEF Broken, Advances
<1>5. CASE State = "busy"
  <2>1. SameSectors
    BY <1>1, <1>3, <1>5, HeldSame DEF SameWork, State
  <2>2. SameTroubles
    BY <1>1, <1>2, <1>5 DEF SameTroubles
  <2> QED
    BY <1>1, <1>3, <1>5, <2>1, <2>2, HardwareAdvances DEF DRQ, State
<1> QED
  BY <1>1, <1>4, <1>5

LEMMA AnswerAdvances ==
  ASSUME IdeInv, IdeInv', NEW d \in Disks, Answer(d)
  PROVE  Advances
<1>1. /\ ~confused /\ d = selected /\ State \in {"busy", "storing"}
      /\ UNCHANGED <<pc, call, lock, selected, lba, panicked, confused, dropped>>
  BY OnlySelectedWorks DEF Answer, Elsewhere, Running, channel, registers
<1>2. disk \in [Disks -> Controllers] /\ selected \in Disks /\ SameTroubles
  BY <1>1 DEF IdeInv, Owned, Types, SameTroubles
<1>3. CASE State = "storing"
  <2>1. /\ medium' = [medium EXCEPT ![selected][disk[selected].sector] = disk[selected].data]
        /\ disk'[selected].state = "idle" /\ \A e \in Disks \ {selected} : disk'[e] = disk[e]
    BY <1>1, <1>2, <1>3, ControllerStep DEF Answer, State
  <2>2. DOMAIN medium = Disks /\ medium[selected] \in [SectorsOf(selected) -> Values]
    BY <1>2 DEF IdeInv, Owned, Types
  <2>3. SameSectors
    <3>1. ASSUME NEW e \in Disks, NEW s \in SectorsOf(e) PROVE Held(e, s)' = Held(e, s)
      <4>1. CASE e = selected
        BY <1>3, <2>1, <2>2, <4>1 DEF Held, State
      <4>2. CASE e # selected
        BY <2>1, <2>2, <4>2 DEF Held
      <4> QED
        BY <4>1, <4>2
    <3> QED
      BY <3>1 DEF SameSectors
  <2> QED
    BY <1>1, <1>2, <1>3, <2>1, <2>3, HardwareAdvances DEF DRQ, State
<1>4. CASE State = "busy"
  <2>1. PICK t \in Threads : lock = t /\ disk[selected].op = call[t].op /\ disk[selected].sector = lba
                            /\ lba = SectorNo(t) /\ pc[t] \in {"down", "busy"} /\ call[t].op \in Ops
                            /\ selected = Target(t) /\ (call[t].op = "write" => pc[t] = "busy")
    BY <1>1, <1>4 DEF IdeInv, Owned, Types, OneInside, Called, Addressed, Settled, AtWork, Works,
                      State, Inside, Places, Ops
  <2>2. SectorNo(t) \in SectorsOf(selected) /\ <<call[t].block, call[t].sector>> \in Addresses
    BY <2>1, SectorOnDisk, AddressOfCall DEF IdeInv
  <2>3. /\ UNCHANGED medium
        /\ disk'[selected].state = "drq" /\ \A e \in Disks \ {selected} : disk'[e] = disk[e]
        /\ call[t].op = "read" => disk'[selected].data = medium[selected][lba]
    <3>1. Controller(selected, "drq", IF call[t].op = "read" THEN medium[selected][lba] ELSE NoValue)
          /\ UNCHANGED medium
      BY <1>1, <1>4, <2>1 DEF Answer, State
    <3>2. medium[selected][lba] \in Values
      BY <1>2, <2>1, <2>2 DEF IdeInv, Owned, Types
    <3> QED
      BY <1>2, <3>1, <3>2, ControllerStep
  <2>4. SameSectors
    BY <1>4, <2>3, HeldSame DEF SameWork, State
  <2>5. ASSUME NEW u \in Threads \ {t} PROVE SameCall(u)
    BY <1>1, <2>1, OthersSame DEF IdeInv, Owned
  <2>6. CASE call[t].op = "write"
    <3>1. SameCall(t)
      BY <1>1, <2>1, <2>6 DEF SameCall, SameRequest, Does, Carries, HasRead, HasWritten
    <3> QED
      BY <1>2, <2>4, <2>5, <3>1, StoreStutters DEF Advances
  <2>7. CASE call[t].op = "read"
    <3>1. ~Does(t)
      BY <1>4, <2>1, <2>7 DEF Does, HasRead, HasWritten, DRQ, State
    <3>2. Does(t)' /\ Carries(t)' = disk'[selected].data /\ SameRequest(t)
      BY <1>1, <2>1, <2>3, <2>7 DEF Does, Carries, HasRead, DRQ, SameRequest
    <3>3. Held(Target(t), SectorNo(t)) = medium[selected][lba]
      BY <1>4, <2>1 DEF Held, State
    <3> QED
      BY <1>2, <2>2, <2>3, <2>4, <2>5, <2>7, <3>1, <3>2, <3>3, ReadTakesEffect DEF Advances
  <2> QED
    BY <2>1, <2>6, <2>7 DEF Ops
<1> QED
  BY <1>1, <1>3, <1>4

LEMMA NextAdvances == IdeInv /\ IdeInv' /\ Next => Advances
<1> SUFFICES ASSUME IdeInv, IdeInv', Next PROVE Advances
  OBVIOUS
<1>1. CASE \E t \in Threads : Runs(t) \/ Reads(t) \/ Writes(t)
  <2>1. PICK t \in Threads : Runs(t) \/ Reads(t) \/ Writes(t)
    BY <1>1
  <2> QED
    BY <2>1, CallAdvances, QuietAdvances, WaitIdleAdvances, IssueAdvances, WaitWhileBusyAdvances,
       TransferAdvances, ReleaseAdvances DEF Runs
<1>2. CASE Interrupt \/ Stray
  BY <1>2, InterruptAdvances
<1>3. CASE \E d \in Disks : Answer(d) \/ Fail(d) \/ Die(d)
  BY <1>3, AnswerAdvances, FailAdvances, DieAdvances
<1> QED
  BY <1>1, <1>2, <1>3 DEF Next

LEMMA StoreStarts == Init => Store!Init
<1> SUFFICES ASSUME Init PROVE Store!Init
  OBVIOUS
<1>1. PICK v \in Values : medium = [d \in Disks |-> [s \in SectorsOf(d) |-> v]]
  BY DEF Init, SectorsOf
<1>2. \A a \in Addresses : Held(DiskOf[a[1]], Start[a[1]] + a[2]) = v
  BY <1>1, AddressOnDisk DEF Init, Held, IdleDisk
<1>3. Stored = [a \in Addresses |-> v]
  BY <1>2 DEF Stored
<1>4. /\ Sector = [t \in Threads |-> <<Nobody, 0>>] /\ Op = [t \in Threads |-> "none"]
      /\ Done = [t \in Threads |-> FALSE] /\ Value = [t \in Threads |-> NoValue]
  BY DEF Init, Sector, Op, Done, Value, HasRead, HasWritten, NoCall
<1>5. ~Broken
  BY DEF Init, Broken
<1> QED
  BY <1>3, <1>4, <1>5 DEF Store!Init, Broken

(***************************************************************************)
(* A sector of a partition is an atomic register, whatever the threads do  *)
(* at once, whatever interrupts come and whichever commands fail: a read   *)
(* returns what was last written, until a write is lost or the kernel      *)
(* panics.                                                                 *)
(***************************************************************************)
THEOREM DisksKeepSectors == Spec => ImplementsStore
<1>1. IdeInv /\ IdeInv' /\ [Next]_vars => [Store!Next]_(Store!vars)
  <2>1. ASSUME UNCHANGED vars PROVE UNCHANGED Store!vars
    BY <2>1 DEF vars, channel, registers, troubles, Store!vars, Stored, Sector, Op, Value, Done,
                Broken, Held, HasRead, HasWritten, DRQ
  <2> QED
    BY <2>1, NextAdvances DEF Advances
<1> QED
  BY <1>1, StoreStarts, IdeInvHolds, PTL DEF Spec, ImplementsStore, Store!Spec
=============================================================================
