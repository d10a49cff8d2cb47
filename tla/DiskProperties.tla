---------------------------- MODULE DiskProperties ----------------------------
(* What must hold of the block devices of IdeChannel, and an instance. *)
EXTENDS IdeChannel, TLC

Places == {"user", "lock", "idle", "select", "selected", "sector", "command", "down",
           "busy", "data", "unlock"}

(* Every variable has its type. *)
TypeOK ==
  /\ pc \in [Threads -> Places]
  /\ \A t \in Threads : /\ call[t].op \in {"none", "read", "write"}
                        /\ call[t].block \in Blocks \cup {Nobody}
                        /\ call[t].buffer \in Values \cup {NoValue}
  /\ lock \in Threads \cup {Nobody}
  /\ expecting_interrupt \in BOOLEAN /\ completion_wait \in Nat
  /\ selected \in Disks /\ lba \in Nat
  /\ \A d \in Disks : /\ disk[d].state \in {"idle", "busy", "storing", "drq"}
                      /\ disk[d].data \in Values \cup {NoValue}
                      /\ medium[d] \in [0..(DiskSize[d] - 1) -> Values]
  /\ {panicked, confused, dropped} \subseteq BOOLEAN

(***************************************************************************)
(* As long as no interrupt comes for nothing, each one has been waited for *)
(* when the channel is given up: the semaphore is back at zero, no disk is *)
(* at work or about to interrupt, and so none is ever addressed in the     *)
(* middle of a command, although the waits for it to be idle give up.      *)
(***************************************************************************)
QuietWhenFree == strays = 0 =>
  /\ ~confused
  /\ lock = Nobody =>
       /\ completion_wait = 0
       /\ \A d \in Disks : disk[d].state = "idle" /\ ~disk[d].intrq

(* The partitions of a disk are apart: partition.c leaves that to its tables. *)
ASSUME PartitionsAssumption ==
  \A b, c \in Blocks :
    b # c /\ DiskOf[b] = DiskOf[c] =>
      Start[b] + Size[b] <= Start[c] \/ Start[c] + Size[c] <= Start[b]

(* What BlockStore's variables are here. *)
Addresses == UNION {{<<b, s>> : s \in 0..(Size[b] - 1)} : b \in Blocks}

Held(d, s) ==
  IF disk[d].state = "storing" /\ disk[d].sector = s THEN disk[d].data ELSE medium[d][s]

HasRead(t) ==
  /\ call[t].op = "read"
  /\ pc[t] = "unlock" \/ (lock = t /\ pc[t] \in {"down", "busy", "data"} /\ DRQ(selected))
HasWritten(t) ==
  call[t].op = "write" /\ pc[t] \in {"down", "unlock"}

Stored == [a \in Addresses |-> Held(DiskOf[a[1]], Start[a[1]] + a[2])]
Sector == [t \in Threads |-> <<call[t].block, call[t].sector>>]
Op == [t \in Threads |-> call[t].op]
Value == [t \in Threads |-> IF HasRead(t) /\ pc[t] # "unlock" THEN disk[selected].data
                            ELSE call[t].buffer]
Done == [t \in Threads |-> HasRead(t) \/ HasWritten(t)]
Broken == confused \/ dropped \/ panicked

Store == INSTANCE BlockStore WITH
  Clients <- Threads, Sectors <- Addresses, NoSector <- <<Nobody, 0>>,
  stored <- Stored, sector <- Sector, op <- Op, value <- Value, done <- Done,
  broken <- Broken

(***************************************************************************)
(* The partitions' sectors are atomic registers, for whichever partition   *)
(* of whichever disk of the channel a thread calls for.  A sector that the *)
(* disk has received but not stored counts as written.                     *)
(***************************************************************************)
ImplementsStore == Store!Spec

(***************************************************************************)
(* Whoever has the channel gives it back, whatever interrupts are lost to  *)
(* wait_until_idle() or come for nothing, unless a disk dies on him.       *)
(***************************************************************************)
ChannelReturned ==
  lock # Nobody ~>
    \/ lock = Nobody \/ ~Running
    \/ \E d \in Disks : disk[d].dead

(* A disk that fails to store what it was given makes the write fail. *)
WritesKept == ~dropped

-----------------------------------------------------------------------------
(***************************************************************************)
(* Two partitions of the first disk, one of the second.                    *)
(***************************************************************************)
CONSTANTS t1, t2, v1, v2

MCThreads == {t1, t2}
MCValues == {v1, v2}
MCDiskSize == (0 :> 2) @@ (1 :> 1)
MCDiskOf == ("filesys" :> 0) @@ ("scratch" :> 0) @@ ("swap" :> 1)
MCStart == ("filesys" :> 0) @@ ("scratch" :> 1) @@ ("swap" :> 0)
MCSize == ("filesys" :> 1) @@ ("scratch" :> 1) @@ ("swap" :> 1)
=============================================================================
