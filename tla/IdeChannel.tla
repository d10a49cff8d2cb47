------------------------------ MODULE IdeChannel ------------------------------
(***************************************************************************)
(* The block devices: partitions (devices/partition.c) of disks            *)
(* (devices/block.c), two of which share an ATA channel (devices/ide.c).   *)
(* A thread takes the channel's lock, programs the selected disk, and      *)
(* sleeps on completion_wait until the disk's interrupt.  The disk is      *)
(* hardware: it is modelled from what ide.c expects of it, and may answer  *)
(* with an error, or never; the interrupt line may carry stray interrupts. *)
(***************************************************************************)
EXTENDS Integers, FiniteSets

CONSTANTS
  Threads,
  Disks,         \* those on the channel
  DiskSize,      \* in sectors
  Blocks,        \* the partitions
  DiskOf, Start, Size,
  Values,        \* what a sector may hold
  NoValue, Nobody,
  MaxStrays,     \* bound: interrupts that no disk has raised
  MaxFaults      \* bound: commands that a disk fails

ASSUME IdeAssumption ==
  /\ DiskSize \in [Disks -> Nat]
  /\ DiskOf \in [Blocks -> Disks] /\ Start \in [Blocks -> Nat] /\ Size \in [Blocks -> Nat]
  /\ \A b \in Blocks : Start[b] + Size[b] <= DiskSize[DiskOf[b]]
  /\ NoValue \notin Values /\ Nobody \notin Threads
  /\ MaxStrays \in Nat /\ MaxFaults \in Nat

VARIABLES
  pc,            \* where each thread is in its call
  call,          \* the call: op, block, sector, and the buffer
  lock, expecting_interrupt, completion_wait,    \* struct channel
  selected, lba, \* the channel's registers: the selected disk, the sector
  disk,          \* each disk's controller
  medium,        \* what each disk keeps
  strays, faults,
  panicked,
  confused,      \* history: a disk was addressed in the middle of a command
  dropped        \* history: a disk failed to keep what it had received

channel == <<lock, expecting_interrupt, completion_wait>>
registers == <<selected, lba>>
troubles == <<strays, faults, dropped>>
vars == <<pc, call, channel, registers, disk, medium, troubles, panicked, confused>>

NoCall == [op |-> "none", block |-> Nobody, sector |-> 0, buffer |-> NoValue]

(***************************************************************************)
(* A controller is idle, BSY (busy, and storing once it has the data), or  *)
(* DRQ (wants to move data); intrq is its interrupt line.                  *)
(***************************************************************************)
IdleDisk == [state |-> "idle", op |-> "none", sector |-> 0, data |-> NoValue,
             intrq |-> FALSE, dead |-> FALSE]

(* After ide_init(); identify_ata_device() has left an interrupt expected. *)
Init ==
  /\ pc = [t \in Threads |-> "user"] /\ call = [t \in Threads |-> NoCall]
  /\ lock = Nobody /\ expecting_interrupt = TRUE /\ completion_wait = 0
  /\ selected \in Disks /\ lba = 0
  /\ disk = [d \in Disks |-> IdleDisk]
  /\ \E v \in Values : medium = [d \in Disks |-> [s \in 0..(DiskSize[d] - 1) |-> v]]
  /\ strays = 0 /\ faults = 0 /\ dropped = FALSE
  /\ panicked = FALSE /\ confused = FALSE

Running == ~panicked /\ ~confused
At(t, place) == pc[t] = place /\ Running
Goto(t, place) == pc' = [pc EXCEPT ![t] = place]
Target(t) == DiskOf[call[t].block]
BSY(d) == disk[d].state \in {"busy", "storing"}
DRQ(d) == disk[d].state = "drq"
PANIC == panicked' = TRUE /\ UNCHANGED <<pc, channel, registers, disk, medium>>

-----------------------------------------------------------------------------
(* block.c and partition.c *)

InDevice(sector, size) == sector < size

\* Mutant: the sector is not moved to where the partition starts.
Unmoved(t) == call[t].sector

SectorNo(t) == Start[call[t].block] + call[t].sector

(***************************************************************************)
(* block_read() and block_write() of a partition, which calls them again   *)
(* for its disk: both check the sector.                                    *)
(***************************************************************************)
Call(t, op, b, s, v) ==
  /\ At(t, "user")
  /\ call' = [call EXCEPT ![t] = [op |-> op, block |-> b, sector |-> s, buffer |-> v]]
  /\ IF InDevice(s, Size[b]) /\ InDevice(Start[b] + s, DiskSize[DiskOf[b]])
     THEN Goto(t, "lock") /\ UNCHANGED <<channel, registers, disk, medium, panicked>>
     ELSE PANIC
  /\ UNCHANGED <<troubles, confused>>

-----------------------------------------------------------------------------
(* ide.c: ide_read() and ide_write() *)

Acquire(t) ==
  /\ At(t, "lock")
  /\ lock = Nobody /\ lock' = t
  /\ Goto(t, "idle")
  /\ UNCHANGED <<call, expecting_interrupt, completion_wait, registers, disk, medium,
                 troubles, panicked, confused>>

(***************************************************************************)
(* wait_until_idle() of the selected disk gives up after 10 ms, and the    *)
(* caller goes on; reading the status clears a pending interrupt.          *)
(***************************************************************************)
WaitIdle(t, place) ==
  /\ disk' = [disk EXCEPT ![selected].intrq = FALSE]
  /\ confused' = (disk[selected].state # "idle")
  /\ Goto(t, place)
  /\ UNCHANGED <<call, channel, registers, medium, troubles, panicked>>

(* select_device_wait() *)
WaitOther(t) == At(t, "idle") /\ WaitIdle(t, "select")

Select(t) ==
  /\ At(t, "select")
  /\ selected' = Target(t)
  /\ Goto(t, "selected")
  /\ UNCHANGED <<call, channel, lba, disk, medium, troubles, panicked, confused>>

WaitSelected(t) == At(t, "selected") /\ WaitIdle(t, "sector")

(* The rest of select_sector(), and issue_pio_command() up to its outb().  *)
SelectSector(t) ==
  /\ At(t, "sector")
  /\ lba' = SectorNo(t)
  /\ expecting_interrupt' = TRUE
  /\ Goto(t, "command")
  /\ UNCHANGED <<call, lock, completion_wait, selected, disk, medium, troubles,
                 panicked, confused>>

\* Mutant: a write does not wait for its completion.
WritesAsync(op) == "unlock"

AfterCommand(op) == IF op = "read" THEN "down" ELSE "busy"
AfterData(op) == IF op = "read" THEN "unlock" ELSE "down"

Issue(t) ==
  /\ At(t, "command")
  /\ disk' = [disk EXCEPT ![selected] =
                [@ EXCEPT !.state = "busy", !.op = call[t].op, !.sector = lba]]
  /\ confused' = (disk[selected].state # "idle")
  /\ Goto(t, AfterCommand(call[t].op))
  /\ UNCHANGED <<call, channel, registers, medium, troubles, panicked>>

(* sema_down (&c->completion_wait); a read then waits for the data. *)
Down(t) ==
  /\ At(t, "down")
  /\ completion_wait > 0
  /\ completion_wait' = completion_wait - 1
  /\ Goto(t, IF call[t].op = "read" THEN "busy" ELSE "unlock")
  /\ UNCHANGED <<call, lock, expecting_interrupt, registers, disk, medium, troubles,
                 panicked, confused>>

(***************************************************************************)
(* wait_while_busy(): the disk wants to move the data, or has failed and   *)
(* does not, or stays busy for 30 seconds, which only a dead one does.     *)
(***************************************************************************)
WaitWhileBusy(t) ==
  /\ At(t, "busy")
  /\ ~BSY(selected) \/ disk[selected].dead
  /\ IF DRQ(selected)
     THEN Goto(t, "data") /\ UNCHANGED <<channel, registers, disk, medium, panicked>>
     ELSE PANIC
  /\ UNCHANGED <<call, troubles, confused>>

(* input_sector() and output_sector() *)
Transfer(t) ==
  /\ At(t, "data")
  /\ IF call[t].op = "read"
     THEN /\ call' = [call EXCEPT ![t].buffer = disk[selected].data]
          /\ disk' = [disk EXCEPT ![selected] = [@ EXCEPT !.state = "idle", !.data = NoValue]]
     ELSE /\ disk' = [disk EXCEPT ![selected] =
                        [@ EXCEPT !.state = "storing", !.data = call[t].buffer]]
          /\ UNCHANGED call
  /\ confused' = ~(DRQ(selected) /\ disk[selected].op = call[t].op)
  /\ Goto(t, AfterData(call[t].op))
  /\ UNCHANGED <<channel, registers, medium, troubles, panicked>>

Release(t) ==
  /\ At(t, "unlock")
  /\ lock' = Nobody
  /\ Goto(t, "user")
  /\ call' = [call EXCEPT ![t] = NoCall]
  /\ UNCHANGED <<expecting_interrupt, completion_wait, registers, disk, medium,
                 troubles, panicked, confused>>

-----------------------------------------------------------------------------
(* interrupt_handler() *)

\* Mutant: the handler wakes a waiter only once the disk is idle again.
UpIfIdle == completion_wait' = completion_wait + (IF DRQ(selected) THEN 0 ELSE 1)

Up == completion_wait' = completion_wait + 1

(* Reading the status acknowledges the disk's interrupt. *)
interrupt_handler ==
  /\ IF expecting_interrupt
     THEN Up /\ disk' = [disk EXCEPT ![selected].intrq = FALSE]
     ELSE UNCHANGED <<completion_wait, disk>>
  /\ UNCHANGED <<pc, call, lock, expecting_interrupt, registers, medium, faults, dropped,
                 panicked, confused>>

Interrupt == Running /\ disk[selected].intrq /\ interrupt_handler /\ UNCHANGED strays

Stray ==
  /\ Running /\ strays < MaxStrays
  /\ strays' = strays + 1
  /\ interrupt_handler

-----------------------------------------------------------------------------
(* The disk *)

Controller(d, state, data) ==
  disk' = [disk EXCEPT ![d] =
             [@ EXCEPT !.state = state, !.data = data,
                       !.intrq = disk[d].intrq \/ state = "idle" \/ disk[d].op = "read"]]

(* What the disk's answer leaves alone. *)
Elsewhere == UNCHANGED <<pc, call, channel, registers, panicked, confused, strays>>

(* It has read the sector, wants the data to be written, or has stored it. *)
Answer(d) ==
  /\ Running /\ BSY(d) /\ ~disk[d].dead
  /\ IF disk[d].state = "storing"
     THEN /\ medium' = [medium EXCEPT ![d][disk[d].sector] = disk[d].data]
          /\ Controller(d, "idle", NoValue)
     ELSE /\ Controller(d, "drq", IF disk[d].op = "read" THEN medium[d][disk[d].sector]
                                  ELSE NoValue)
          /\ UNCHANGED medium
  /\ Elsewhere /\ UNCHANGED <<faults, dropped>>

(* It ends the command with an error. *)
Fail(d) ==
  /\ Running /\ BSY(d) /\ ~disk[d].dead
  /\ faults < MaxFaults /\ faults' = faults + 1
  /\ Controller(d, "idle", NoValue)
  /\ dropped' = (dropped \/ disk[d].state = "storing")
  /\ Elsewhere /\ UNCHANGED medium

(* It never answers again. *)
Die(d) ==
  /\ Running /\ BSY(d) /\ ~disk[d].dead
  /\ faults < MaxFaults /\ faults' = faults + 1
  /\ disk' = [disk EXCEPT ![d].dead = TRUE]
  /\ Elsewhere /\ UNCHANGED <<medium, dropped>>

-----------------------------------------------------------------------------
Runs(t) ==
  \/ Acquire(t) \/ WaitOther(t) \/ Select(t) \/ WaitSelected(t) \/ SelectSector(t)
  \/ Issue(t) \/ Down(t) \/ WaitWhileBusy(t) \/ Transfer(t) \/ Release(t)

Reads(t) == \E b \in Blocks : \E s \in 0..(Size[b] - 1) : Call(t, "read", b, s, NoValue)

Writes(t) == \E b \in Blocks, v \in Values : \E s \in 0..(Size[b] - 1) :
               Call(t, "write", b, s, v)

Next ==
  \/ \E t \in Threads : Runs(t) \/ Reads(t) \/ Writes(t)
  \/ Interrupt \/ Stray
  \/ \E d \in Disks : Answer(d) \/ Fail(d) \/ Die(d)

(* Threads that can run do, disks answer and their interrupts are taken. *)
Fairness ==
  /\ \A t \in Threads : WF_vars(Runs(t))
  /\ \A d \in Disks : WF_vars(Answer(d))
  /\ WF_vars(Interrupt)

Spec == Init /\ [][Next]_vars /\ Fairness
=============================================================================
