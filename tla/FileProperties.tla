--------------------------- MODULE FileProperties ---------------------------
(* What is to hold of the file system; see the README for the runs. *)
EXTENDS FileSystem

InodesOrNone == Inodes \cup {0}
Numbers == 0..(2 * Cardinality(Procs) + MaxLoads)
Contents == Values \cup {"inode", "unread"}
Disks == [start : 0..MaxSector, length : 0..MaxSector, data : Contents]

(* Every variable has its type. *)
TypeOK ==
  /\ free_map \subseteq Sectors /\ lost \subseteq Sectors
  /\ dir \in [Entries -> [name : Names \cup {NoOne}, sector : 0..MaxSector]]
  /\ disk \in [Sectors -> Disks]
  /\ inode \in [Inodes -> [sector : 0..MaxSector, open_cnt : Numbers,
                           deny_write_cnt : Numbers, removed : BOOLEAN, data : Disks]]
  /\ \A p \in Procs : call[p].found \in InodesOrNone /\ call[p].root \in InodesOrNone
  /\ file \in [Procs -> InodesOrNone] /\ executable \in [Procs -> InodesOrNone]
  /\ lock_f \in Procs \cup {NoOne}
  /\ ran \in [Inodes -> 0..MaxLoads]

Sound == ~raced /\ ~panicked

(* The sectors of the open files, of the named ones and of the calls. *)
OpenFiles == {inode[i].sector : i \in Inodes} \ {0, Root}
OfCall(p) == ({call[p].sector} \ {0}) \cup Held(p)

(***************************************************************************)
(* Whatever the order in which creates and removes write the disk, and     *)
(* wherever the power fails, an entry of the directory leads to an inode   *)
(* whose sectors are marked in the map, and no name has two entries.       *)
(***************************************************************************)
EntriesBacked == Sound =>
  \A e \in Entries : dir[e].sector # 0 =>
    /\ dir[e].sector \in Sectors /\ disk[dir[e].sector].data = "inode"
    /\ OfFile(dir[e].sector) \subseteq free_map
    /\ InDir(dir[e].name) = {e}

(***************************************************************************)
(* Every marked sector belongs to exactly one of the files named or open,  *)
(* to a call that is allocating or releasing it, or is lost: a create that *)
(* fails after allocating loses the data's sectors, as a power failure     *)
(* may.  Nothing else does, and no sector is handed out twice.             *)
(***************************************************************************)
SectorsAccounted == Sound =>
  LET files == Named \cup OpenFiles
      calls == {p \in Procs : OfCall(p) # {}}
  IN /\ free_map = lost \cup (UNION {OfFile(s) : s \in files})
                        \cup (UNION {OfCall(p) : p \in calls})
     /\ \A s, t \in files : s # t => OfFile(s) \cap OfFile(t) = {}
     /\ \A s \in files : OfFile(s) \cap lost = {}
     /\ \A p \in calls : /\ OfCall(p) \cap lost = {}
                         /\ \A s \in files : OfFile(s) \cap OfCall(p) = {}

(***************************************************************************)
(* open_cnt counts those that have the inode: open files, calls under way, *)
(* programs that run, and programs that have ended, since process_exit()   *)
(* does not close the executable.  deny_write_cnt counts the running ones. *)
(***************************************************************************)
Holders(i) ==
  Cardinality({p \in Procs : file[p] = i}) + Cardinality({p \in Procs : executable[p] = i})
    + Cardinality({p \in Procs : call[p].root = i}) + Cardinality({p \in Procs : call[p].ino = i})
    + Cardinality({p \in Procs : pc[p] = "read" /\ call[p].found = i})

OpensCounted == Sound =>
  \A i \in Inodes :
    /\ inode[i].open_cnt = Holders(i) + ran[i]
    /\ inode[i].deny_write_cnt = Cardinality({p \in Procs : executable[p] = i})

(***************************************************************************)
(* Only a program being loaded, which load() does without lock_f, makes    *)
(* calls of the file system see each other's unfinished work, and none of  *)
(* its assertions ever fails.                                              *)
(***************************************************************************)
OnlyLoadsRace == [][/\ raced' => \E p \in Procs : call[p].met
                    /\ ~panicked']_vars

-----------------------------------------------------------------------------
(***************************************************************************)
(* The promise: as the disk and the open inodes keep it.                   *)
(***************************************************************************)
SectorOf(i) == IF i = 0 THEN 0 ELSE inode[i].sector

names == [n \in Names |->
  IF InDir(n) = {} THEN 0 ELSE dir[CHOOSE e \in InDir(n) : TRUE].sector]
held == [p \in Procs |->
  {SectorOf(file[p]), SectorOf(call[p].ino), IF pc[p] = "read" THEN call[p].target ELSE 0}
    \ {0, Root}]
running == [p \in Procs |-> SectorOf(executable[p])]

(* An open file is read through its inode's copy of the sector. *)
Now(s) ==
  LET copies == {inode[i].data : i \in {j \in Inodes : inode[j].sector = s}} \ {Unread}
  IN IF copies = {} THEN disk[s] ELSE CHOOSE d \in copies : TRUE

Reachable == ({names[n] : n \in Names} \cup {running[p] : p \in Procs}
               \cup UNION {held[p] : p \in Procs}) \ {0}
data == [s \in Sectors |->
  IF s \in Reachable /\ Now(s).length > 0
  THEN [i \in 0..(Now(s).length - 1) |-> disk[Now(s).start + i].data] ELSE <<>>]

ZeroFilled(d) == \A i \in DOMAIN d : d[i] = Zeros

Abstract == INSTANCE FileStore WITH
  Files <- Sectors, Fresh <- ZeroFilled, broken <- raced

(***************************************************************************)
(* Files keep their names and contents through create, remove, open, close *)
(* and power failures; removed ones live on while they are open; the       *)
(* programs that run are not written.                                      *)
(***************************************************************************)
ImplementsFileStore == Abstract!Spec

(* Every call ends, and gives lock_f back: whoever needs it gets it. *)
CallsReturn ==
  /\ \A p \in Procs : pc[p] \notin {"user", "new", "not_loaded"} ~>
                        (pc[p] \in {"user", "new", "not_loaded"} \/ ~Sound)
  /\ lock_f # NoOne ~> (lock_f = NoOne \/ ~Sound)

(***************************************************************************)
(* inode.c: opening a single inode twice returns the same `struct inode'.  *)
(***************************************************************************)
OpensShared == \A i, j \in Inodes :
  inode[i].sector = inode[j].sector /\ inode[i].sector # 0 => i = j
=============================================================================
