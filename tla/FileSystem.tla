----------------------------- MODULE FileSystem -----------------------------
(***************************************************************************)
(* The base file system under the user programs' system calls:             *)
(* filesys/inode.c, filesys.c, directory.c, file.c and free-map.c, called  *)
(* from userprog/syscall.c and from load() in userprog/process.c.  It has  *)
(* no lock of its own: the system calls hold lock_f, load() holds none.    *)
(* A step is what no other thread sees half done and no power failure      *)
(* leaves half on the disk: a sector written, a statement on an inode.     *)
(***************************************************************************)
EXTENDS Integers, FiniteSets

CONSTANTS
  Procs, Names,
  Program,       \* the program that is on the disk when the kernel boots
  MaxSector, Slots,
  Lengths,       \* of the files created, in sectors
  Values,        \* what a data sector may hold
  MaxInodes,     \* bound: struct inodes in memory at a time
  MaxLoads,      \* bound: programs loaded
  MaxCrashes     \* bound: power failures

Root == 1                          \* ROOT_DIR_SECTOR
Sectors == 3..MaxSector            \* all but the free map's and the root's
Inodes == 1..MaxInodes
Entries == 1..Slots
NoOne == "no one"
Zeros == "zeros"

ASSUME FileSystemAssumption ==
  /\ MaxSector \in Nat /\ MaxSector > 3
  /\ Slots \in Nat \ {0} /\ MaxInodes \in Nat \ {0}
  /\ Lengths \subseteq Nat
  /\ Program \in Names
  /\ IsFiniteSet(Procs) /\ NoOne \notin Procs \cup Names
  /\ Zeros \in Values

(* What a sector holds: an inode_disk, or data. *)
InodeDisk(start, length) == [start |-> start, length |-> length, data |-> "inode"]
Data(v) == [start |-> 0, length |-> 0, data |-> v]
Unread == Data("unread")           \* an inode whose sector is not read yet
RootDisk == InodeDisk(2, 1)
Extent(d) == d.start..(d.start + d.length - 1)

FreeEntry == [name |-> NoOne, sector |-> 0]
FreeInode == [sector |-> 0, open_cnt |-> 0, deny_write_cnt |-> 0,
              removed |-> FALSE, data |-> Unread]

(***************************************************************************)
(* The locals of a call: op is the call, name and length its arguments,    *)
(* target the sector inode_open() is to open, found the inode it has found *)
(* or that is being freed, root and ino the inodes it holds, sector and    *)
(* start the sectors it has allocated or is about to release.  met is      *)
(* history: the call has overlapped a load(), or is one that has.          *)
(***************************************************************************)
NoCall == [op |-> "none", name |-> NoOne, length |-> 0, target |-> 0, found |-> 0,
           root |-> 0, ino |-> 0, sector |-> 0, start |-> 0, met |-> FALSE]

VARIABLES
  free_map,      \* the sectors marked, in memory and on the disk
  dir,           \* the entries of the root directory, on the disk
  disk,          \* the files' sectors
  inode,         \* the struct inodes; those with a sector are in open_inodes
  pc, call,      \* where each process is in the file system, and its locals
  file,          \* the inode of its open file, 0 if none
  executable,    \* the inode of the program it runs, 0 if none
  lock_f,
  loads, crashes,
  raced,         \* what another thread was changing has been used
  panicked,      \* an assertion has failed
  lost,          \* history: the sectors marked that belong to nothing
  ran            \* history: how many that have ended ran from each inode

onDisk == <<free_map, dir, disk>>
tables == <<file, executable, ran>>
counts == <<loads, crashes>>
faults == <<raced, panicked>>
vars == <<onDisk, inode, pc, call, tables, lock_f, counts, faults, lost>>

Init ==
  /\ free_map = {3, 4}
  /\ dir = [e \in Entries |->
             IF e = 1 THEN [name |-> Program, sector |-> 3] ELSE FreeEntry]
  /\ disk = [s \in Sectors |-> IF s = 3 THEN InodeDisk(4, 1) ELSE Data(Zeros)]
  /\ inode = [i \in Inodes |-> FreeInode]
  /\ pc = [p \in Procs |-> "new"]
  /\ call = [p \in Procs |-> NoCall]
  /\ file = [p \in Procs |-> 0] /\ executable = [p \in Procs |-> 0]
  /\ lock_f = NoOne
  /\ loads = 0 /\ crashes = 0
  /\ raced = FALSE /\ panicked = FALSE
  /\ lost = {}
  /\ ran = [i \in Inodes |-> 0]

(***************************************************************************)
(* Once memory has been used that was not read yet or freed already,       *)
(* nothing is known of what follows, and a failed assertion stops the      *)
(* kernel: the model stops at either.                                      *)
(***************************************************************************)
At(p, place) == pc[p] = place /\ ~raced /\ ~panicked
Goto(p, place) == pc' = [pc EXCEPT ![p] = place]
Race(cond) == raced' = cond /\ UNCHANGED panicked
ASSERTION(cond) == panicked' = ~cond /\ UNCHANGED raced

-----------------------------------------------------------------------------
(***************************************************************************)
(* The calls.  Each acquires lock_f and, but for close and write, opens    *)
(* the root directory.  A process has at most one file open.               *)
(***************************************************************************)
\* Mutant: no lock is taken.
Unlocked(p) == UNCHANGED lock_f

Acquire(p) == lock_f = NoOne /\ lock_f' = p

(* The call of p begins; it meets the loads under way, or all if it is one. *)
Meets(q, op) == call[q].op # "none" /\ "load" \in {op, call[q].op}

Called(p, c) ==
  call' = [q \in Procs |->
    IF q = p THEN [c EXCEPT !.met = \E r \in Procs : Meets(r, c.op)]
    ELSE [call[q] EXCEPT !.met = @ \/ Meets(q, c.op)]]

Begin(p, op, n, l, place) ==
  /\ Called(p, [NoCall EXCEPT !.op = op, !.name = n, !.length = l, !.target = Root])
  /\ Goto(p, place)

Create(p) ==
  /\ At(p, "user") /\ Acquire(p)
  /\ \E n \in Names, l \in Lengths : Begin(p, "create", n, l, "scan")
  /\ UNCHANGED <<onDisk, inode, tables, counts, faults, lost>>

Open(p) ==
  /\ At(p, "user") /\ file[p] = 0 /\ Acquire(p)
  /\ \E n \in Names : Begin(p, "open", n, 0, "scan")
  /\ UNCHANGED <<onDisk, inode, tables, counts, faults, lost>>

Remove(p) ==
  /\ At(p, "user") /\ Acquire(p)
  /\ \E n \in Names : Begin(p, "remove", n, 0, "scan")
  /\ UNCHANGED <<onDisk, inode, tables, counts, faults, lost>>

Write(p) ==
  /\ At(p, "user") /\ file[p] # 0 /\ Acquire(p)
  /\ Begin(p, "write", NoOne, 0, "write_check")
  /\ UNCHANGED <<onDisk, inode, tables, counts, faults, lost>>

(* The file leaves the process's list; its inode is then closed. *)
GiveUpFile(p, op, place) ==
  /\ Called(p, [NoCall EXCEPT !.op = op, !.ino = file[p]])
  /\ file' = [file EXCEPT ![p] = 0]
  /\ Goto(p, place)
  /\ UNCHANGED <<executable, ran>>

Close(p) ==
  /\ At(p, "user") /\ file[p] # 0 /\ Acquire(p)
  /\ GiveUpFile(p, "close", "close")
  /\ UNCHANGED <<onDisk, inode, counts, faults, lost>>

(* process_exit(), also of a process whose program could not be loaded. *)
Exit(p) ==
  /\ At(p, "user") \/ At(p, "not_loaded")
  /\ Acquire(p)
  /\ GiveUpFile(p, "exit", IF file[p] # 0 THEN "close" ELSE "allow")
  /\ UNCHANGED <<onDisk, inode, counts, faults, lost>>

(* load() opens the program without lock_f. *)
Load(p) ==
  /\ At(p, "new") /\ loads < MaxLoads
  /\ loads' = loads + 1
  /\ \E n \in Names : Begin(p, "load", n, 0, "scan")
  /\ UNCHANGED <<onDisk, inode, tables, lock_f, crashes, faults, lost>>

-----------------------------------------------------------------------------
(***************************************************************************)
(* inode_open(), of the root directory and of a file.  The list is         *)
(* searched; what is found is reopened, and otherwise a new inode is put   *)
(* into the list and only then read, which sleeps.                         *)
(***************************************************************************)
Scan(p) ==
  LET here == {i \in Inodes : inode[i].sector = call[p].target}
  IN /\ At(p, "scan")
     /\ \/ /\ here = {}
           /\ Goto(p, "push")
           /\ UNCHANGED call
        \/ /\ \E i \in here : call' = [call EXCEPT ![p].found = i]
           /\ Goto(p, "reopen")
     /\ UNCHANGED <<onDisk, inode, tables, lock_f, counts, faults, lost>>

(* The entry that was looked up has been erased meanwhile. *)
Overtaken(p) ==
  /\ call[p].target # Root
  /\ [name |-> call[p].name, sector |-> call[p].target] \notin {dir[e] : e \in Entries}

Opened(p, i) ==
  IF call[p].target = Root
  THEN /\ call' = [call EXCEPT ![p].root = i]
       /\ Goto(p, IF call[p].op = "create" THEN "alloc" ELSE "lookup")
  ELSE /\ call' = [call EXCEPT ![p].ino = i]
       /\ Goto(p, IF call[p].op = "remove" THEN "erase" ELSE "close_root")

inode_reopen(i) == inode' = [inode EXCEPT ![i].open_cnt = @ + 1]

(* The inode found may be in use no more. *)
Reopen(p) ==
  LET i == call[p].found
  IN /\ At(p, "reopen")
     /\ Race(inode[i].sector # call[p].target \/ inode[i].open_cnt = 0 \/ Overtaken(p))
     /\ inode_reopen(i)
     /\ Opened(p, i)
     /\ UNCHANGED <<onDisk, tables, lock_f, counts, lost>>

(* Another thread may have put an inode of that sector there meanwhile. *)
Push(p) ==
  LET free == {i \in Inodes : inode[i].sector = 0}
      i == CHOOSE i \in free : \A j \in free : i <= j
  IN /\ At(p, "push") /\ free # {}
     /\ Race(Overtaken(p) \/ \E j \in Inodes : inode[j].sector = call[p].target)
     /\ inode' = [inode EXCEPT ![i].sector = call[p].target, ![i].open_cnt = 1]
     /\ call' = [call EXCEPT ![p].found = i]
     /\ Goto(p, "read")
     /\ UNCHANGED <<onDisk, tables, lock_f, counts, lost>>

ReadInode(p) ==
  LET i == call[p].found
      s == call[p].target
  IN /\ At(p, "read")
     /\ inode' = [inode EXCEPT ![i].data = IF s = Root THEN RootDisk ELSE disk[s]]
     /\ Opened(p, i)
     /\ UNCHANGED <<onDisk, tables, lock_f, counts, faults, lost>>

(* lookup() in the root directory. *)
InDir(n) == {e \in Entries : dir[e].name = n}
NotRead(i) == inode[i].data = Unread

Lookup(p) ==
  LET es == InDir(call[p].name)
  IN /\ At(p, "lookup")
     /\ Race(NotRead(call[p].root))
     /\ \/ /\ es = {}
           /\ Goto(p, "close_root")
           /\ UNCHANGED call
        \/ /\ \E e \in es : call' = [call EXCEPT ![p].target = dir[e].sector]
           /\ Goto(p, "scan")
     /\ UNCHANGED <<onDisk, inode, tables, lock_f, counts, lost>>

-----------------------------------------------------------------------------
(***************************************************************************)
(* filesys_create(): a sector for the inode, sectors for its data, the     *)
(* inode, zeros, and last the entry.  free_map_allocate() takes the first  *)
(* run of free sectors that is long enough and writes the map to the disk. *)
(***************************************************************************)
Run(s, n) == s..(s + n - 1)
Fits(n) == {s \in Sectors : Run(s, n) \subseteq Sectors \ free_map}
FirstFit(n) == CHOOSE s \in Fits(n) : \A r \in Fits(n) : s <= r

Marked(ss) == free_map' = free_map \cup ss

Alloc(p) ==
  /\ At(p, "alloc")
  /\ \/ /\ Fits(1) = {}
        /\ Goto(p, "close_root")
        /\ UNCHANGED <<free_map, call>>
     \/ /\ Fits(1) # {}
        /\ Marked({FirstFit(1)})
        /\ call' = [call EXCEPT ![p].sector = FirstFit(1)]
        /\ Goto(p, "alloc_data")
  /\ UNCHANGED <<dir, disk, inode, tables, lock_f, counts, faults, lost>>

AllocData(p) ==
  LET n == call[p].length
  IN /\ At(p, "alloc_data")
     /\ \/ /\ Fits(n) = {}
           /\ Goto(p, "release")
           /\ UNCHANGED <<free_map, call>>
        \/ /\ Fits(n) # {}
           /\ Marked(Run(FirstFit(n), n))
           /\ call' = [call EXCEPT ![p].start = FirstFit(n)]
           /\ Goto(p, "write_inode")
     /\ UNCHANGED <<dir, disk, inode, tables, lock_f, counts, faults, lost>>

(* What a call has marked and no file has yet, or has no more. *)
Held(p) == IF call[p].start = 0 THEN {} ELSE Run(call[p].start, call[p].length)

WriteInode(p) ==
  /\ At(p, "write_inode")
  /\ disk' = [disk EXCEPT ![call[p].sector] = InodeDisk(call[p].start, call[p].length)]
  /\ Goto(p, "zero")
  /\ UNCHANGED <<free_map, dir, inode, call, tables, lock_f, counts, faults, lost>>

(* All at once: the sectors are nobody's yet. *)
ZeroData(p) ==
  /\ At(p, "zero")
  /\ disk' = [s \in Sectors |-> IF s \in Held(p) THEN Data(Zeros) ELSE disk[s]]
  /\ Goto(p, "add")
  /\ UNCHANGED <<free_map, dir, inode, call, tables, lock_f, counts, faults, lost>>

DirAdd(p) ==
  LET n == call[p].name
      free == InDir(NoOne)
  IN /\ At(p, "add")
     /\ Race(NotRead(call[p].root))
     /\ \/ /\ InDir(n) # {} \/ free = {}
           /\ Goto(p, "release")
           /\ UNCHANGED <<dir, call>>
        \/ /\ InDir(n) = {} /\ free # {}
           /\ dir' = [dir EXCEPT ![CHOOSE e \in free : \A f \in free : e <= f] =
                                   [name |-> n, sector |-> call[p].sector]]
           /\ call' = [call EXCEPT ![p].sector = 0, ![p].start = 0]
           /\ Goto(p, "close_root")
     /\ UNCHANGED <<free_map, disk, inode, tables, lock_f, counts, lost>>

(* A create that fails gives back the inode's sector, not the data's. *)
Release(p) ==
  /\ At(p, "release")
  /\ ASSERTION(call[p].sector \in free_map)
  /\ free_map' = free_map \ {call[p].sector}
  /\ lost' = lost \cup Held(p)
  /\ call' = [call EXCEPT ![p].sector = 0, ![p].start = 0]
  /\ Goto(p, "close_root")
  /\ UNCHANGED <<dir, disk, inode, tables, lock_f, counts, raced>>

-----------------------------------------------------------------------------
(* dir_remove() erases the entry and marks the inode. *)
\* Mutant: the entry stays.
EntryKept(n) == UNCHANGED dir

Erased(n) == dir' = [e \in Entries |-> IF e \in InDir(n) THEN FreeEntry ELSE dir[e]]

Erase(p) ==
  /\ At(p, "erase")
  /\ Erased(call[p].name)
  /\ inode' = [inode EXCEPT ![call[p].ino].removed = TRUE]
  /\ Goto(p, "close")
  /\ UNCHANGED <<free_map, disk, call, tables, lock_f, counts, faults, lost>>

AfterClose(op) ==
  CASE op = "remove" -> "close_root"
    [] op = "exit" -> "allow"
    [] OTHER -> "return"

\* Mutant: a removed inode is freed whoever has it open.
LastOrRemoved(i) == inode[i].open_cnt = 1 \/ inode[i].removed

LastOpener(i) == inode[i].open_cnt = 1

(* inode_close(): the count, and for the last opener the rest. *)
CloseInode(p) ==
  LET i == call[p].ino
  IN /\ At(p, "close")
     /\ inode' = [inode EXCEPT ![i].open_cnt = @ - 1]
     /\ call' = [call EXCEPT ![p].ino = 0, ![p].found = i]
     /\ Goto(p, IF LastOpener(i) THEN "free" ELSE AfterClose(call[p].op))
     /\ UNCHANGED <<onDisk, tables, lock_f, counts, faults, lost>>

FreeIno(p) ==
  LET i == call[p].found
      d == inode[i].data
  IN /\ At(p, "free")
     /\ inode' = [inode EXCEPT ![i] = FreeInode]
     /\ \/ /\ ~inode[i].removed
           /\ Goto(p, AfterClose(call[p].op))
           /\ UNCHANGED <<free_map, call, faults>>
        \/ /\ inode[i].removed
           /\ ASSERTION(inode[i].sector \in free_map)
           /\ free_map' = free_map \ {inode[i].sector}
           /\ call' = [call EXCEPT ![p].start = d.start, ![p].length = d.length]
           /\ Goto(p, "free_data")
     /\ UNCHANGED <<dir, disk, tables, lock_f, counts, lost>>

\* Mutant: the data's sectors stay marked.
DataKept(p) == UNCHANGED free_map

DataReleased(p) == free_map' = free_map \ Held(p)

FreeData(p) ==
  /\ At(p, "free_data")
  /\ ASSERTION(Held(p) \subseteq free_map)
  /\ DataReleased(p)
  /\ call' = [call EXCEPT ![p].start = 0]
  /\ Goto(p, AfterClose(call[p].op))
  /\ UNCHANGED <<dir, disk, inode, tables, lock_f, counts, raced, lost>>

(* dir_close(): the same for the root directory, never removed. *)
AfterRoot(p) == IF call[p].op = "load" THEN "loaded" ELSE "return"

CloseRoot(p) ==
  LET i == call[p].root
  IN /\ At(p, "close_root")
     /\ inode' = [inode EXCEPT ![i].open_cnt = @ - 1]
     /\ call' = [call EXCEPT ![p].root = 0, ![p].found = i]
     /\ Goto(p, IF LastOpener(i) THEN "free_root" ELSE AfterRoot(p))
     /\ UNCHANGED <<onDisk, tables, lock_f, counts, faults, lost>>

FreeRoot(p) ==
  /\ At(p, "free_root")
  /\ inode' = [inode EXCEPT ![call[p].found] = FreeInode]
  /\ Goto(p, AfterRoot(p))
  /\ UNCHANGED <<onDisk, call, tables, lock_f, counts, faults, lost>>

-----------------------------------------------------------------------------
(* inode_write_at() looks at deny_write_cnt once, and then writes. *)
WriteCheck(p) ==
  /\ At(p, "write_check")
  /\ Goto(p, IF inode[file[p]].deny_write_cnt > 0 THEN "return" ELSE "write")
  /\ UNCHANGED <<onDisk, inode, call, tables, lock_f, counts, faults, lost>>

WriteSector(p) ==
  LET i == file[p]
      d == inode[i].data
  IN /\ At(p, "write")
     /\ Race(NotRead(i) \/ inode[i].deny_write_cnt > 0)
     /\ \/ UNCHANGED disk                \* at the end of the file
        \/ \E s \in Extent(d), v \in Values : disk' = [disk EXCEPT ![s] = Data(v)]
     /\ Goto(p, "return")
     /\ UNCHANGED <<free_map, dir, inode, call, tables, lock_f, counts, lost>>

\* Mutant: the lock is kept when there is no such file.
KeptWithoutFile(p) ==
  lock_f' = IF call[p].op = "open" /\ call[p].ino = 0 THEN p ELSE NoOne

Unlock(p) == lock_f' = NoOne

(* The system call ends; sys_open() has a file, if there is one. *)
Return(p) ==
  /\ At(p, "return")
  /\ Unlock(p)
  /\ file' = IF call[p].op = "open" THEN [file EXCEPT ![p] = call[p].ino] ELSE file
  /\ call' = [call EXCEPT ![p] = NoCall]
  /\ Goto(p, "user")
  /\ UNCHANGED <<onDisk, inode, executable, ran, counts, faults, lost>>

(* load() denies writes to the program it has found, and reads it. *)
DenyWrite(p) ==
  LET i == call[p].ino
  IN /\ At(p, "loaded")
     /\ \/ /\ i = 0
           /\ Goto(p, "not_loaded")
           /\ UNCHANGED <<inode, executable, faults>>
        \/ /\ i # 0
           /\ inode' = [inode EXCEPT ![i].deny_write_cnt = @ + 1]
           /\ panicked' = (inode[i].deny_write_cnt >= inode[i].open_cnt)
           /\ raced' = NotRead(i)
           /\ executable' = [executable EXCEPT ![p] = i]
           /\ Goto(p, "user")
     /\ call' = [call EXCEPT ![p] = NoCall]
     /\ UNCHANGED <<onDisk, file, ran, lock_f, counts, lost>>

\* Mutant: writes stay denied.
StaysDenied(i) == UNCHANGED inode

Allowed(i) == inode' = [inode EXCEPT ![i].deny_write_cnt = @ - 1]

(* process_exit() allows writes again.  The program's file is not closed. *)
AllowWrite(p) ==
  LET i == executable[p]
  IN /\ At(p, "allow")
     /\ \/ /\ i = 0
           /\ UNCHANGED <<inode, executable, ran, faults>>
        \/ /\ i # 0
           /\ ASSERTION(inode[i].deny_write_cnt \in 1..inode[i].open_cnt)
           /\ Allowed(i)
           /\ executable' = [executable EXCEPT ![p] = 0]
           /\ ran' = [ran EXCEPT ![i] = @ + 1]
     /\ Unlock(p)
     /\ call' = [call EXCEPT ![p] = NoCall]
     /\ Goto(p, "new")
     /\ UNCHANGED <<onDisk, file, counts, lost>>

-----------------------------------------------------------------------------
(* The files that have a name, and what belongs to a file. *)
Named == {dir[e].sector : e \in Entries} \ {0}
OfFile(s) == {s} \cup Extent(disk[s])

(* The power fails; the kernel boots again from what is on the disk. *)
PowerFailure ==
  /\ crashes < MaxCrashes /\ ~raced /\ ~panicked
  /\ crashes' = crashes + 1
  /\ inode' = [i \in Inodes |-> FreeInode]
  /\ pc' = [p \in Procs |-> "new"]
  /\ call' = [p \in Procs |-> NoCall]
  /\ file' = [p \in Procs |-> 0] /\ executable' = [p \in Procs |-> 0]
  /\ ran' = [i \in Inodes |-> 0]
  /\ lock_f' = NoOne
  /\ lost' = free_map \ UNION {OfFile(s) : s \in Named}
  /\ UNCHANGED <<onDisk, loads, faults>>

Call(p) == \/ Create(p) \/ Open(p) \/ Remove(p) \/ Write(p) \/ Close(p) \/ Exit(p)
           \/ Load(p)

Step(p) == \/ Scan(p) \/ Reopen(p) \/ Push(p) \/ ReadInode(p) \/ Lookup(p)
           \/ Alloc(p) \/ AllocData(p) \/ WriteInode(p) \/ ZeroData(p) \/ DirAdd(p)
           \/ Release(p) \/ Erase(p) \/ CloseInode(p) \/ FreeIno(p) \/ FreeData(p)
           \/ CloseRoot(p) \/ FreeRoot(p) \/ WriteCheck(p) \/ WriteSector(p)
           \/ Return(p) \/ DenyWrite(p) \/ AllowWrite(p)

Next == PowerFailure \/ \E p \in Procs : Call(p) \/ Step(p)

(* Code gets on, and a disk answers. *)
Spec == Init /\ [][Next]_vars /\ \A p \in Procs : WF_vars(Step(p))
=============================================================================
