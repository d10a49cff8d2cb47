----------------------------- MODULE FileProofs -----------------------------
(***************************************************************************)
(* The file system keeps its accounts, for any number of processes, names, *)
(* sectors, inodes, loads and power failures, by the inductive invariant   *)
(* FileInv, and only loads race.                                           *)
(***************************************************************************)
EXTENDS FileProperties, FiniteSetTheorems, WellFoundedInduction, NaturalsInduction, TLAPS

-----------------------------------------------------------------------------
(***************************************************************************)
(* The inductive invariant, of the states that are Sound.  First, what a   *)
(* process holds at each place of a call: w is its pc, c its locals, f its *)
(* file and x its program.                                                 *)
(***************************************************************************)
Outside == {"user", "new", "not_loaded"}
Opening == {"scan", "reopen", "push", "read"}
Making == {"alloc", "alloc_data", "write_inode", "zero", "add", "release"}
Closing == {"close", "free", "free_data"}
Leaving == {"close_root", "free_root"}
Freeing == {"free", "free_root"}
Places == Outside \cup Opening \cup Making \cup Closing \cup Leaving
           \cup {"lookup", "erase", "write_check", "write", "return", "loaded", "allow"}
Ops == {"none", "create", "open", "remove", "write", "close", "exit", "load"}

\* The types, and no bound on the counts.
DiskOf == [start : Nat, length : Nat, data : Contents]
Calls == [op : Ops, name : Names \cup {NoOne}, length : Nat,
          target : Sectors \cup {0, Root}, found : InodesOrNone, root : InodesOrNone,
          ino : InodesOrNone, sector : Sectors \cup {0}, start : Sectors \cup {0},
          met : BOOLEAN]

Types ==
  /\ free_map \subseteq Sectors
  /\ dir \in [Entries -> [name : Names \cup {NoOne}, sector : Sectors \cup {0}]]
  /\ disk \in [Sectors -> DiskOf]
  /\ inode \in [Inodes -> [sector : Sectors \cup {0, Root}, open_cnt : Nat,
                           deny_write_cnt : Nat, removed : BOOLEAN, data : DiskOf]]
  /\ pc \in [Procs -> Places]
  /\ call \in [Procs -> Calls]
  /\ file \in [Procs -> InodesOrNone] /\ executable \in [Procs -> InodesOrNone]
  /\ ran \in [Inodes -> Nat]

PlacesOf(op) ==
  CASE op = "create" -> Opening \cup Making \cup Leaving \cup {"return"}
    [] op = "open" -> Opening \cup Leaving \cup {"lookup", "return"}
    [] op = "remove" -> Opening \cup Closing \cup Leaving \cup {"lookup", "erase", "return"}
    [] op = "load" -> Opening \cup Leaving \cup {"lookup", "loaded"}
    [] op = "write" -> {"write_check", "write", "return"}
    [] op = "close" -> Closing \cup {"return"}
    [] op = "exit" -> Closing \cup {"allow"}
    [] OTHER -> Outside

HasRoot(w, c) ==
  \/ w \in Making \cup {"lookup", "erase", "close_root"}
  \/ w \in Opening /\ c.target # Root
  \/ w \in Closing /\ c.op = "remove"

Shape(w, c, f, x) ==
  /\ w \in PlacesOf(c.op)
  /\ w \in Outside => c = NoCall
  /\ c.op \in {"create", "open", "remove", "load"} => c.name \in Names
  /\ w \in Opening => c.target \in Sectors \cup {Root}
  /\ w \in Opening /\ c.op = "create" => c.target = Root
  /\ c.root # 0 <=> HasRoot(w, c)
  /\ w \in {"erase", "close"} => c.ino # 0
  /\ c.ino # 0 => \/ w \in {"erase", "close"}
                  \/ c.op \in {"open", "load"} /\ w \in Leaving \cup {"return", "loaded"}
  /\ w \in {"reopen", "read"} \cup Freeing => c.found # 0
  /\ c.sector # 0 <=> w \in Making \ {"alloc"}
  /\ w \in {"write_inode", "zero", "add", "free_data"} => c.start # 0
  /\ c.start # 0 => w \in {"write_inode", "zero", "add", "release", "free_data"}
  /\ w \in {"new", "not_loaded"} \/ c.op \in {"open", "load", "exit"} => f = 0
  /\ w \in {"new", "not_loaded"} \/ c.op = "load" => x = 0
  /\ c.op = "write" => f # 0

Shapes == \A p \in Procs : Shape(pc[p], call[p], file[p], executable[p])

\* Only the holder of lock_f is in a system call.
Solo == \A p \in Procs : call[p].op \in {"none", "load"} \/ lock_f = p

\* What a process holds is what it takes it for.
Entry(n, s) == [name |-> n, sector |-> s]
InUse(n, s) == Entry(n, s) \in {dir[e] : e \in Entries}

Knows(p) ==
  LET c == call[p]
  IN /\ c.root # 0 => inode[c.root].sector = Root
     /\ c.ino # 0 => inode[c.ino].sector \in Sectors
     /\ file[p] # 0 => inode[file[p]].sector \in Sectors
     /\ executable[p] # 0 => inode[executable[p]].sector \in Sectors
     /\ pc[p] = "read" => inode[c.found].sector = c.target
     /\ pc[p] = "free" => inode[c.found].sector \in Sectors
     /\ pc[p] = "free_root" => inode[c.found].sector = Root
     /\ pc[p] \in Freeing => inode[c.found].open_cnt = 0
     /\ pc[p] = "read" /\ c.op = "remove" /\ c.target # Root => InUse(c.name, c.target)
     /\ pc[p] = "erase" => InUse(c.name, inode[c.ino].sector)
     /\ c.sector # 0 => c.sector \notin Held(p)
     /\ pc[p] \in {"zero", "add"} => disk[c.sector] = InodeDisk(c.start, c.length)

\* One process frees an inode.
OneFrees == \A p, q \in Procs :
  pc[p] \in Freeing /\ pc[q] \in Freeing /\ call[p].found = call[q].found => p = q

\* The struct inodes: one for a sector, with what the sector holds.
InodeOK(i) ==
  LET s == inode[i].sector
  IN /\ s = 0 => inode[i] = FreeInode
     /\ s # 0 /\ inode[i].open_cnt = 0 =>
          \E p \in Procs : pc[p] \in Freeing /\ call[p].found = i
     /\ s # 0 /\ NotRead(i) => \E p \in Procs : pc[p] = "read" /\ call[p].found = i
     /\ s \in Sectors => /\ NotRead(i) \/ inode[i].data = disk[s]
                         /\ inode[i].removed <=> s \notin Named
     /\ s = Root => ~inode[i].removed

InodesOK == OpensShared /\ \A i \in Inodes : InodeOK(i)

\* The directory: no name twice, no sector twice.
DirOK == \A e, f \in Entries :
  /\ dir[e].name = NoOne <=> dir[e].sector = 0
  /\ dir[e].name = dir[f].name /\ dir[e].name # NoOne => e = f
  /\ dir[e].sector = dir[f].sector /\ dir[e].sector # 0 => e = f

\* The files: what lies at the sector of one is its inode.
Files == Named \cup OpenFiles
WholeFiles == \A s \in Files :
  disk[s].data = "inode" /\ disk[s].start \in Sectors /\ s \notin Extent(disk[s])

Accounts ==
  /\ \A s \in Sectors :
       s \in free_map <=> \/ s \in lost
                          \/ \E f \in Files : s \in OfFile(f)
                          \/ \E p \in Procs : s \in OfCall(p)
  /\ \A s \in Files : OfFile(s) \subseteq free_map
  /\ \A p \in Procs : OfCall(p) \subseteq free_map
  /\ lost \subseteq free_map
  /\ \A s, t \in Files : s # t => OfFile(s) \cap OfFile(t) = {}
  /\ \A s \in Files : OfFile(s) \cap lost = {}
  /\ \A p \in Procs : OfCall(p) \cap lost = {}
  /\ \A p \in Procs, s \in Files : OfFile(s) \cap OfCall(p) = {}

Counted == \A i \in Inodes :
  /\ inode[i].open_cnt = Holders(i) + ran[i]
  /\ inode[i].deny_write_cnt = Cardinality({p \in Procs : executable[p] = i})

\* Calls that overlap a load are met, and what the others saw still holds.
MetOK == \A p, q \in Procs :
  p # q /\ call[p].op # "none" /\ call[q].op # "none" /\ "load" \in {call[p].op, call[q].op}
    => call[p].met

Sees(p) ==
  LET c == call[p]
  IN call[p].met \/
     /\ pc[p] = "reopen" => inode[c.found].sector = c.target /\ inode[c.found].open_cnt > 0
     /\ pc[p] = "push" => \A i \in Inodes : inode[i].sector # c.target
     /\ pc[p] \in Opening /\ c.target # Root => InUse(c.name, c.target)
     /\ pc[p] = "write" => inode[file[p]].deny_write_cnt = 0

Knowing == \A p \in Procs : Knows(p)
Seeing == \A p \in Procs : Sees(p)

FileInv ==
  /\ Types /\ Shapes /\ Solo /\ Knowing /\ OneFrees /\ InodesOK /\ DirOK
  /\ WholeFiles /\ Accounts /\ Counted /\ MetOK /\ Seeing

IInv == Sound => FileInv

-----------------------------------------------------------------------------
(* Counting.                                                               *)

\* One element comes or goes.
LEMMA CountMoves ==
  ASSUME NEW S, NEW T, IsFiniteSet(S), IsFiniteSet(T), NEW x, S \ {x} = T \ {x}
  PROVE  /\ Cardinality(S) \in Nat /\ Cardinality(T) \in Nat
         /\ Cardinality(T) = Cardinality(S) + (IF x \in T THEN 1 ELSE 0)
                                            - (IF x \in S THEN 1 ELSE 0)
         /\ x \in S => Cardinality(S) > 0
<1>1. Cardinality(S) \in Nat /\ Cardinality(T) \in Nat
  BY FS_CardinalityType
<1>2. Cardinality(S \ {x}) = IF x \in S THEN Cardinality(S) - 1 ELSE Cardinality(S)
  BY FS_RemoveElement
<1>3. Cardinality(T \ {x}) = IF x \in T THEN Cardinality(T) - 1 ELSE Cardinality(T)
  BY FS_RemoveElement
<1>4. x \in S => Cardinality(S) > 0
  <2>1. Cardinality(S) = 0 <=> S = {}
    BY FS_EmptySet
  <2> QED
    BY <1>1, <2>1
<1> QED
  BY <1>1, <1>2, <1>3, <1>4

\* The same for the processes that have i in f.
With(f, i) == {p \in Procs : f[p] = i}
One(j, i) == IF j = i THEN 1 ELSE 0

LEMMA WithMoves ==
  ASSUME NEW f, NEW g, NEW i, NEW p \in Procs, \A q \in Procs \ {p} : g[q] = f[q]
  PROVE  /\ Cardinality(With(f, i)) \in Nat /\ Cardinality(With(g, i)) \in Nat
         /\ Cardinality(With(g, i)) = Cardinality(With(f, i)) + One(g[p], i) - One(f[p], i)
         /\ f[p] = i => Cardinality(With(f, i)) > 0
         /\ Cardinality(With(f, i)) >= One(f[p], i)
<1>1. IsFiniteSet(With(f, i)) /\ IsFiniteSet(With(g, i))
  BY FileSystemAssumption, FS_Subset DEF With
<1>2. With(f, i) \ {p} = With(g, i) \ {p}
  BY DEF With
<1>3. (p \in With(f, i) <=> f[p] = i) /\ (p \in With(g, i) <=> g[p] = i)
  BY DEF With
<1> HIDE DEF With
<1> QED
  BY <1>1, <1>2, <1>3, CountMoves DEF One

\* Holders by the functions that it counts, and the share of one process.
Roots == [p \in Procs |-> call[p].root]
Inos == [p \in Procs |-> call[p].ino]
Reading == [p \in Procs |-> IF pc[p] = "read" THEN call[p].found ELSE 0]
Share(w, c, f, x, i) ==
  One(f, i) + One(x, i) + One(c.root, i) + One(c.ino, i)
    + One(IF w = "read" THEN c.found ELSE 0, i)
ShareOf(p, i) == Share(pc[p], call[p], file[p], executable[p], i)

LEMMA HoldersIs ==
  ASSUME NEW i \in Inodes
  PROVE  Holders(i) = Cardinality(With(file, i)) + Cardinality(With(executable, i))
           + Cardinality(With(Roots, i)) + Cardinality(With(Inos, i))
           + Cardinality(With(Reading, i))
<1>1. {p \in Procs : call[p].root = i} = With(Roots, i)
  BY DEF With, Roots
<1>2. {p \in Procs : call[p].ino = i} = With(Inos, i)
  BY DEF With, Inos
<1>3. {p \in Procs : pc[p] = "read" /\ call[p].found = i} = With(Reading, i)
  BY DEF With, Reading, Inodes
<1>4. {p \in Procs : file[p] = i} = With(file, i)
  BY DEF With
<1>5. {p \in Procs : executable[p] = i} = With(executable, i)
  BY DEF With
<1> QED
  BY <1>1, <1>2, <1>3, <1>4, <1>5 DEF Holders

\* A step of p moves no other process, but may let a call meet it.
Alike(c, d) ==
  /\ d.op = c.op /\ d.name = c.name /\ d.length = c.length /\ d.target = c.target
  /\ d.found = c.found /\ d.root = c.root /\ d.ino = c.ino
  /\ d.sector = c.sector /\ d.start = c.start
  /\ c.op = "none" => d = c
  /\ c.met => d.met

Moves(p) == \A q \in Procs \ {p} :
  /\ pc'[q] = pc[q] /\ Alike(call[q], call'[q])
  /\ file'[q] = file[q] /\ executable'[q] = executable[q]

LEMMA HoldersMove ==
  ASSUME NEW p \in Procs, Moves(p), NEW i \in Inodes
  PROVE  /\ Holders(i) \in Nat /\ Holders(i)' \in Nat
         /\ Holders(i)' = Holders(i) + ShareOf(p, i)' - ShareOf(p, i)
         /\ Holders(i) >= ShareOf(p, i)
         /\ ShareOf(p, i) \in Nat /\ ShareOf(p, i)' \in Nat
<1>1. /\ \A q \in Procs \ {p} : file'[q] = file[q]
      /\ \A q \in Procs \ {p} : executable'[q] = executable[q]
  BY DEF Moves
<1>2. \A q \in Procs \ {p} : Roots'[q] = Roots[q]
  BY DEF Moves, Alike, Roots
<1>3. \A q \in Procs \ {p} : Inos'[q] = Inos[q]
  BY DEF Moves, Alike, Inos
<1>4. \A q \in Procs \ {p} : Reading'[q] = Reading[q]
  BY DEF Moves, Alike, Reading
<1>5. Holders(i)' = Cardinality(With(file', i)) + Cardinality(With(executable', i))
           + Cardinality(With(Roots', i)) + Cardinality(With(Inos', i))
           + Cardinality(With(Reading', i))
  <2>1. {q \in Procs : call'[q].root = i} = With(Roots', i)
    BY DEF With, Roots
  <2>2. {q \in Procs : call'[q].ino = i} = With(Inos', i)
    BY DEF With, Inos
  <2>3. {q \in Procs : pc'[q] = "read" /\ call'[q].found = i} = With(Reading', i)
    BY DEF With, Reading, Inodes
  <2>4. {q \in Procs : file'[q] = i} = With(file', i)
    BY DEF With
  <2>5. {q \in Procs : executable'[q] = i} = With(executable', i)
    BY DEF With
  <2> QED
    BY <2>1, <2>2, <2>3, <2>4, <2>5 DEF Holders
<1>6. /\ Roots[p] = call[p].root /\ Roots'[p] = call'[p].root
      /\ Inos[p] = call[p].ino /\ Inos'[p] = call'[p].ino
      /\ Reading[p] = (IF pc[p] = "read" THEN call[p].found ELSE 0)
      /\ Reading'[p] = (IF pc'[p] = "read" THEN call'[p].found ELSE 0)
  BY DEF Roots, Inos, Reading
<1> HIDE DEF One, ShareOf, With, Roots, Inos, Reading
<1>7. /\ Cardinality(With(file, i)) \in Nat /\ Cardinality(With(file', i)) \in Nat
      /\ Cardinality(With(file', i)) = Cardinality(With(file, i)) + One(file'[p], i) - One(file[p], i)
      /\ Cardinality(With(file, i)) >= One(file[p], i)
  BY <1>1, WithMoves, ZenonT(60)
<1>8. /\ Cardinality(With(executable, i)) \in Nat /\ Cardinality(With(executable', i)) \in Nat
      /\ Cardinality(With(executable', i)) =
           Cardinality(With(executable, i)) + One(executable'[p], i) - One(executable[p], i)
      /\ Cardinality(With(executable, i)) >= One(executable[p], i)
  BY <1>1, WithMoves, ZenonT(60)
<1>9. /\ Cardinality(With(Roots, i)) \in Nat /\ Cardinality(With(Roots', i)) \in Nat
      /\ Cardinality(With(Roots', i)) = Cardinality(With(Roots, i)) + One(Roots'[p], i) - One(Roots[p], i)
      /\ Cardinality(With(Roots, i)) >= One(Roots[p], i)
  BY <1>2, WithMoves, Zenon
<1>10. /\ Cardinality(With(Inos, i)) \in Nat /\ Cardinality(With(Inos', i)) \in Nat
       /\ Cardinality(With(Inos', i)) = Cardinality(With(Inos, i)) + One(Inos'[p], i) - One(Inos[p], i)
       /\ Cardinality(With(Inos, i)) >= One(Inos[p], i)
  BY <1>3, WithMoves, Zenon
<1>11. /\ Cardinality(With(Reading, i)) \in Nat /\ Cardinality(With(Reading', i)) \in Nat
       /\ Cardinality(With(Reading', i)) =
            Cardinality(With(Reading, i)) + One(Reading'[p], i) - One(Reading[p], i)
       /\ Cardinality(With(Reading, i)) >= One(Reading[p], i)
  BY <1>4, WithMoves, Zenon
<1>12. \A j : One(j, i) \in Nat
  BY DEF One
<1>13. ShareOf(p, i) = One(file[p], i) + One(executable[p], i) + One(Roots[p], i)
                         + One(Inos[p], i) + One(Reading[p], i)
  BY <1>6 DEF ShareOf, Share
<1>14. ShareOf(p, i)' = One(file'[p], i) + One(executable'[p], i) + One(Roots'[p], i)
                          + One(Inos'[p], i) + One(Reading'[p], i)
  BY <1>6 DEF ShareOf, Share
<1> QED
  BY <1>5, <1>7, <1>8, <1>9, <1>10, <1>11, <1>12, <1>13, <1>14, HoldersIs

\* What is held has been opened, and is not being freed.
LEMMA HeldIsOpen ==
  ASSUME Counted, Types, NEW p \in Procs, NEW i \in Inodes,
         \/ file[p] = i \/ executable[p] = i \/ call[p].root = i \/ call[p].ino = i
         \/ pc[p] = "read" /\ call[p].found = i
  PROVE  inode[i].open_cnt > 0
<1>1. /\ Cardinality(With(file, i)) \in Nat
      /\ file[p] = i => Cardinality(With(file, i)) > 0
  BY WithMoves
<1>2. /\ Cardinality(With(executable, i)) \in Nat
      /\ executable[p] = i => Cardinality(With(executable, i)) > 0
  BY WithMoves
<1>3. /\ Cardinality(With(Roots, i)) \in Nat
      /\ Roots[p] = i => Cardinality(With(Roots, i)) > 0
  BY WithMoves
<1>4. /\ Cardinality(With(Inos, i)) \in Nat
      /\ Inos[p] = i => Cardinality(With(Inos, i)) > 0
  BY WithMoves
<1>5. /\ Cardinality(With(Reading, i)) \in Nat
      /\ Reading[p] = i => Cardinality(With(Reading, i)) > 0
  BY WithMoves
<1>6. file[p] = i \/ executable[p] = i \/ Roots[p] = i \/ Inos[p] = i \/ Reading[p] = i
  BY DEF Roots, Inos, Reading
<1>7. Holders(i) > 0 /\ Holders(i) \in Nat
  BY <1>1, <1>2, <1>3, <1>4, <1>5, <1>6, HoldersIs
<1>8. ran[i] \in Nat /\ inode[i].open_cnt = Holders(i) + ran[i]
  BY DEF Types, Counted
<1> QED
  BY <1>7, <1>8

-----------------------------------------------------------------------------
(* What a step of one process leaves alone.                                *)

LEMMA LeastIs ==
  ASSUME NEW I \in SUBSET Nat, I # {}
  PROVE  \E x \in I : \A y \in I : x <= y
<1> DEFINE R == {ss \in Nat \X Nat : ss[1] < ss[2]}
<1>1. IsWellFoundedOn(R, Nat)
  BY NatLessThanWellFounded DEF OpToRel
<1>2. \A x, y \in Nat : <<y, x>> \in R <=> y < x
  OBVIOUS
<1> HIDE DEF R
<1>3. PICK x \in I : \A y \in I : ~ (<<y, x>> \in R)
  BY <1>1, WFMin
<1>4. \A y \in I : ~ (y < x)
  BY <1>2, <1>3
<1>5. \A y \in I : x \in Int /\ y \in Int
  OBVIOUS
<1> QED
  BY <1>4, <1>5

LEMMA FirstFits ==
  ASSUME NEW n \in Nat, Fits(n) # {}
  PROVE  FirstFit(n) \in Fits(n)
<1>1. Fits(n) \in SUBSET Nat
  BY FileSystemAssumption DEF Fits, Sectors
<1>2. \E s \in Fits(n) : \A r \in Fits(n) : s <= r
  BY <1>1, LeastIs
<1> QED
  BY <1>2 DEF FirstFit

LEMMA InCall ==
  ASSUME FileInv, NEW p \in Procs
  PROVE  /\ pc[p] \in Outside <=> call[p].op = "none"
         /\ pc[p] \in Outside => call[p] = NoCall
<1>1. Shape(pc[p], call[p], file[p], executable[p]) /\ call[p].op \in Ops
  BY DEF FileInv, Shapes, Types, Calls
<1>2. pc[p] \in Outside => call[p] = NoCall
  BY <1>1 DEF Shape
<1>3. NoCall.op = "none"
  BY DEF NoCall
<1>4. call[p].op = "none" => pc[p] \in Outside
  BY <1>1 DEF Shape, PlacesOf
<1> QED
  BY <1>2, <1>3, <1>4

\* Two processes in calls: one of them loads, and they have met.
LEMMA BothMet ==
  ASSUME FileInv, NEW p \in Procs, NEW q \in Procs, p # q,
         pc[p] \notin Outside, pc[q] \notin Outside
  PROVE  call[q].met /\ "load" \in {call[p].op, call[q].op}
<1>1. call[p].op # "none" /\ call[q].op # "none"
  BY InCall
<1>2. "load" \in {call[p].op, call[q].op}
  BY <1>1 DEF FileInv, Solo
<1> QED
  BY <1>1, <1>2 DEF FileInv, MetOK

LEMMA OthersSee ==
  ASSUME FileInv, NEW p \in Procs, pc[p] \notin Outside, Moves(p)
  PROVE  \A q \in Procs \ {p} : Sees(q)'
<1> SUFFICES ASSUME NEW q \in Procs \ {p} PROVE Sees(q)'
  OBVIOUS
<1>1. CASE pc[q] \in Outside
  <2>1. pc'[q] \in Outside
    BY <1>1 DEF Moves
  <2>2. pc'[q] \notin {"reopen", "push", "write"} \cup Opening
    BY <2>1 DEF Outside, Opening
  <2> QED
    BY <2>2 DEF Sees
<1>2. CASE pc[q] \notin Outside
  <2>1. call[q].met
    BY <1>2, BothMet
  <2> QED
    BY <2>1 DEF Sees, Moves, Alike
<1> QED
  BY <1>1, <1>2

LEMMA SoloKept ==
  ASSUME FileInv, NEW p \in Procs, Moves(p),
         \/ lock_f' = lock_f /\ call'[p].op \in {call[p].op, "none"}
         \/ call'[p].op = "none" /\ call[p].op \notin {"none", "load"}
  PROVE  Solo'
BY DEF FileInv, Solo, Moves, Alike

LEMMA MetKept ==
  ASSUME FileInv, NEW p \in Procs, Moves(p),
         \/ call'[p].op = call[p].op /\ call'[p].met = call[p].met
         \/ call'[p].op = "none"
  PROVE  MetOK'
BY DEF FileInv, MetOK, Moves, Alike

LEMMA ShapesKept ==
  ASSUME FileInv, NEW p \in Procs, Moves(p),
         Shape(pc[p], call[p], file[p], executable[p])'
  PROVE  Shapes'
<1> SUFFICES ASSUME NEW q \in Procs \ {p}
             PROVE  Shape(pc[q], call[q], file[q], executable[q])'
  BY DEF Shapes
<1>1. Shape(pc[q], call[q], file[q], executable[q])
  BY DEF FileInv, Shapes
<1>2. pc'[q] = pc[q] /\ file'[q] = file[q] /\ executable'[q] = executable[q]
  BY DEF Moves
<1> DEFINE c == call[q]
           d == call'[q]
<1>3. Alike(c, d)
  BY DEF Moves
<1>4. c.op = "none" <=> pc[q] \in Outside
  BY InCall
<1>5. HasRoot(pc[q], c) <=> HasRoot(pc[q], d)
  BY <1>3 DEF HasRoot, Alike
<1> HIDE DEF c, d
<1>6. Shape(pc[q], d, file[q], executable[q])
  BY <1>1, <1>3, <1>4, <1>5 DEF Shape, Alike, c
<1> QED
  BY <1>2, <1>6 DEF d

\* The inodes a process holds or frees.
Uses(q, i) ==
  \/ i \in {call[q].root, call[q].ino, file[q], executable[q]}
  \/ pc[q] \in {"read"} \cup Freeing /\ call[q].found = i

LEMMA OthersKnow ==
  ASSUME FileInv, NEW p \in Procs, Moves(p),
         \A q \in Procs \ {p}, i \in Inodes : Uses(q, i) =>
           /\ inode'[i].sector = inode[i].sector
           /\ pc[q] \in Freeing => inode'[i].open_cnt = 0 \/ inode[i].open_cnt > 0,
         UNCHANGED <<dir, disk>> \/ call[p].op \notin {"none", "load"}
  PROVE  \A q \in Procs \ {p} : Knows(q)'
<1> SUFFICES ASSUME NEW q \in Procs \ {p} PROVE Knows(q)'
  OBVIOUS
<1>0. \A i \in Inodes : Uses(q, i) =>
           /\ inode'[i].sector = inode[i].sector
           /\ pc[q] \in Freeing => inode'[i].open_cnt = 0 \/ inode[i].open_cnt > 0
  OBVIOUS
<1>1. Knows(q)
  BY DEF FileInv, Knowing
<1>2. /\ pc'[q] = pc[q] /\ file'[q] = file[q] /\ executable'[q] = executable[q]
      /\ Alike(call[q], call'[q])
  BY DEF Moves
<1>3. /\ call[q].root \in Inodes \cup {0} /\ call[q].ino \in Inodes \cup {0}
      /\ file[q] \in Inodes \cup {0} /\ executable[q] \in Inodes \cup {0}
      /\ call[q].found \in Inodes \cup {0}
  BY DEF FileInv, Types, Calls, InodesOrNone
<1>4. pc[q] \in {"reopen", "read"} \cup Freeing => call[q].found # 0
  BY DEF FileInv, Shapes, Shape
<1>4a. pc[q] \in {"erase"} => call[q].ino # 0
  BY DEF FileInv, Shapes, Shape
<1>5. /\ call[q].root # 0 => inode'[call[q].root].sector = inode[call[q].root].sector
      /\ call[q].ino # 0 => inode'[call[q].ino].sector = inode[call[q].ino].sector
      /\ file[q] # 0 => inode'[file[q]].sector = inode[file[q]].sector
      /\ executable[q] # 0 => inode'[executable[q]].sector = inode[executable[q]].sector
      /\ pc[q] \in {"read"} \cup Freeing =>
           inode'[call[q].found].sector = inode[call[q].found].sector
  BY <1>0, <1>3, <1>4 DEF Uses
<1>6. pc[q] \in Freeing => inode'[call[q].found].open_cnt = 0
  <2>1. pc[q] \in Freeing => inode[call[q].found].open_cnt = 0
    BY <1>1 DEF Knows
  <2> QED
    BY <1>0, <1>3, <1>4, <2>1 DEF Uses
<1>7. CASE UNCHANGED <<dir, disk>>
  BY <1>1, <1>2, <1>4a, <1>5, <1>6, <1>7 DEF Knows, Alike, Held, InUse, Freeing
<1>8. CASE call[p].op \notin {"none", "load"}
  <2>1. call[q].op \in {"none", "load"}
    BY <1>8 DEF FileInv, Solo
  <2>2. Shape(pc[q], call[q], file[q], executable[q])
    BY DEF FileInv, Shapes
  <2>3. pc[q] \notin {"erase", "zero", "add"} /\ call[q].op # "remove" /\ call[q].sector = 0
    BY <2>1, <2>2 DEF Shape, PlacesOf, Opening, Leaving, Outside, Making
  <2> QED
    BY <1>1, <1>2, <1>5, <1>6, <2>3 DEF Knows, Alike, Held, InUse, Freeing
<1> QED
  BY <1>7, <1>8

LEMMA CountedKept ==
  ASSUME Counted, Types, Types', NEW p \in Procs, Moves(p),
         \A i \in Inodes :
           /\ inode'[i].open_cnt + ShareOf(p, i) + ran[i]
                = inode[i].open_cnt + ShareOf(p, i)' + ran'[i]
           /\ inode'[i].deny_write_cnt + One(executable[p], i)
                = inode[i].deny_write_cnt + One(executable'[p], i)
  PROVE  Counted'
<1> SUFFICES ASSUME NEW i \in Inodes
             PROVE  /\ inode'[i].open_cnt = Holders(i)' + ran'[i]
                    /\ inode'[i].deny_write_cnt = Cardinality({q \in Procs : executable'[q] = i})
  BY DEF Counted
<1>1. /\ Holders(i) \in Nat /\ Holders(i)' \in Nat
      /\ Holders(i)' = Holders(i) + ShareOf(p, i)' - ShareOf(p, i)
      /\ ShareOf(p, i) \in Nat /\ ShareOf(p, i)' \in Nat
  BY HoldersMove
<1>2. inode[i].open_cnt \in Nat /\ inode'[i].open_cnt \in Nat /\ ran[i] \in Nat /\ ran'[i] \in Nat
      /\ inode[i].deny_write_cnt \in Nat /\ inode'[i].deny_write_cnt \in Nat
  BY DEF Types
<1>3. \A q \in Procs \ {p} : executable'[q] = executable[q]
  BY DEF Moves
<1>4. /\ Cardinality(With(executable, i)) \in Nat /\ Cardinality(With(executable', i)) \in Nat
      /\ Cardinality(With(executable', i)) =
           Cardinality(With(executable, i)) + One(executable'[p], i) - One(executable[p], i)
  BY <1>3, WithMoves, Zenon
<1>5. inode[i].open_cnt = Holders(i) + ran[i]
      /\ inode[i].deny_write_cnt = Cardinality(With(executable, i))
  BY DEF Counted, With
<1>6. inode'[i].open_cnt = Holders(i)' + ran'[i]
  <2>1. inode'[i].open_cnt + ShareOf(p, i) + ran[i] = inode[i].open_cnt + ShareOf(p, i)' + ran'[i]
    OBVIOUS
  <2> QED
    BY <1>1, <1>2, <1>5, <2>1
<1>7. One(executable[p], i) \in Nat /\ One(executable'[p], i) \in Nat
  BY DEF One
<1>8. inode'[i].deny_write_cnt = Cardinality(With(executable', i))
  <2> HIDE DEF One, With
  <2> QED
    BY <1>2, <1>4, <1>5, <1>7
<1> QED
  BY <1>6, <1>8 DEF With

LEMMA FilesKept ==
  ASSUME FileInv, Files' = Files, UNCHANGED <<free_map, lost>>,
         \A s \in Files : disk'[s] = disk[s],
         \A q \in Procs : OfCall(q)' = OfCall(q)
  PROVE  WholeFiles' /\ Accounts'
<1>1. WholeFiles /\ Accounts
  BY DEF FileInv
<1>2. \A s \in Files : OfFile(s)' = OfFile(s)
  BY DEF OfFile, Extent
<1>3. WholeFiles'
  BY <1>1 DEF WholeFiles, Extent
<1>4. Accounts'
  BY <1>1, <1>2 DEF Accounts
<1> QED
  BY <1>3, <1>4

LEMMA NamedKept == ASSUME UNCHANGED dir PROVE Named' = Named
BY DEF Named

LEMMA OpenFilesKept ==
  ASSUME \A i \in Inodes : inode'[i].sector = inode[i].sector
  PROVE  OpenFiles' = OpenFiles
BY DEF OpenFiles

LEMMA OfCallKept ==
  ASSUME NEW p \in Procs, Moves(p),
         call'[p].sector = call[p].sector /\ call'[p].start = call[p].start,
         call[p].start # 0 => call'[p].length = call[p].length
  PROVE  \A q \in Procs : OfCall(q)' = OfCall(q)
BY DEF Moves, Alike, OfCall, Held, Run

\* A step that touches no file and no inode.
LEMMA QuietKeeps ==
  ASSUME FileInv, NEW p \in Procs, Moves(p), UNCHANGED <<free_map, dir, disk, inode, lost>>,
         pc[p] \notin {"read"} \cup Freeing, pc'[p] \notin {"read"} \cup Freeing,
         call'[p].sector = call[p].sector, call[p].start = 0, call'[p].start = 0
  PROVE  OneFrees' /\ InodesOK' /\ DirOK' /\ WholeFiles' /\ Accounts'
<1>1. OneFrees'
  BY DEF FileInv, OneFrees, Moves, Alike
<1>2. Named' = Named /\ OpenFiles' = OpenFiles
  BY NamedKept, OpenFilesKept
<1>3. OpensShared'
  BY DEF FileInv, InodesOK, OpensShared
<1>4. ASSUME NEW i \in Inodes PROVE InodeOK(i)'
  <2>1. InodeOK(i)
    BY DEF FileInv, InodesOK
  <2>2. ASSUME NEW q \in Procs, pc[q] \in {"read"} \cup Freeing, call[q].found = i
        PROVE  pc'[q] = pc[q] /\ call'[q].found = i
    BY <2>2 DEF Moves, Alike
  <2> QED
    BY <1>2, <2>1, <2>2 DEF InodeOK, NotRead
<1>5. DirOK'
  BY DEF FileInv, DirOK
<1>6. WholeFiles' /\ Accounts'
  <2>1. \A q \in Procs : OfCall(q)' = OfCall(q)
    BY OfCallKept
  <2>2. Files' = Files
    BY <1>2 DEF Files
  <2> QED
    BY <2>1, <2>2, FilesKept
<1> QED
  BY <1>1, <1>3, <1>4, <1>5, <1>6 DEF InodesOK

-----------------------------------------------------------------------------
(* The calls begin.                                                        *)

LEMMA NoCallIs ==
  /\ NoCall \in Calls /\ NoCall.op = "none" /\ NoCall.root = 0 /\ NoCall.ino = 0
  /\ NoCall.sector = 0 /\ NoCall.start = 0 /\ NoCall.found = 0
BY DEF NoCall, Calls, Ops, InodesOrNone

LEMMA CallKeeps ==
  ASSUME FileInv, NEW p \in Procs, pc[p] \in Outside,
         NEW c \in Calls, Called(p, c), c.op # "none", ~c.met,
         c.root = 0, c.sector = 0, c.start = 0,
         NEW w \in {"scan", "write_check", "close", "allow"}, Goto(p, w),
         w = "scan" => c.target = Root,
         \/ c.ino = 0 /\ UNCHANGED file
         \/ c.ino = file[p] /\ file' = [file EXCEPT ![p] = 0],
         Shape(w, c, file'[p], executable[p]),
         \/ c.op = "load" /\ UNCHANGED lock_f
         \/ Acquire(p),
         UNCHANGED <<onDisk, inode, executable, ran, lost>>
  PROVE  FileInv'
<1> DEFINE b == \E r \in Procs : Meets(r, c.op)
<1> DEFINE d == [c EXCEPT !.met = b]
<1>0. call[p] = NoCall
  BY InCall
<1>1. d \in Calls /\ Alike(c, d) /\ d.met = b
  BY DEF Calls, Alike
<1>2. /\ call'[p] = d
      /\ \A q \in Procs \ {p} : call'[q] = [call[q] EXCEPT !.met = @ \/ Meets(q, c.op)]
      /\ call' = [q \in Procs |-> call'[q]]
  BY DEF Called
<1>3. ASSUME NEW q \in Procs \ {p}
      PROVE  /\ call'[q] \in Calls /\ Alike(call[q], call'[q])
             /\ call'[q].met <=> call[q].met \/ Meets(q, c.op)
  <2>1. call[q] \in Calls
    BY DEF FileInv, Types
  <2>2. PICK m \in BOOLEAN : m <=> call[q].met \/ Meets(q, c.op)
    OBVIOUS
  <2>3. call'[q] = [call[q] EXCEPT !.met = m]
    BY <1>2, <2>1, <2>2 DEF Calls
  <2>4. call[q].op = "none" => m = call[q].met
    <3>1. call[q].op = "none" => call[q] = NoCall
      BY InCall
    <3> QED
      BY <2>1, <2>2, <3>1 DEF Meets, Calls
  <2>5. call[q].op = "none" => [call[q] EXCEPT !.met = m] = call[q]
    BY <2>1, <2>4 DEF Calls
  <2> QED
    BY <2>1, <2>2, <2>3, <2>5 DEF Calls, Alike
<1>4. pc' = [pc EXCEPT ![p] = w] /\ pc'[p] = w
  BY DEF FileInv, Types, Goto
<1>5. Moves(p)
  BY <1>3, <1>4 DEF Moves, FileInv, Types
<1> HIDE DEF d, b
<1>6. Types'
  <2>1. call' \in [Procs -> Calls]
    BY <1>1, <1>2, <1>3
  <2>2. pc' \in [Procs -> Places] /\ file' \in [Procs -> InodesOrNone]
    BY <1>4 DEF FileInv, Types, Places, InodesOrNone, Opening, Closing
  <2> QED
    BY <2>1, <2>2 DEF FileInv, Types, onDisk
<1>7. call'[p].op = c.op /\ call'[p].root = 0 /\ call'[p].ino = c.ino /\ call'[p].sector = 0
      /\ call'[p].start = 0 /\ (w = "scan" => call'[p].target = Root)
      /\ (call'[p].met <=> b)
  BY <1>1, <1>2 DEF Alike
<1>8. Shapes'
  <2>1. HasRoot(w, d) <=> HasRoot(w, c)
    BY <1>1 DEF HasRoot, Alike
  <2>2. c.op # "none" /\ w \notin Outside
    BY DEF Outside
  <2>3. Shape(w, d, file'[p], executable[p])
    BY <1>1, <2>1, <2>2 DEF Shape, Alike
  <2>4. Shape(pc[p], call[p], file[p], executable[p])'
    BY <1>2, <1>4, <2>3
  <2> QED
    BY <1>5, <2>4, ShapesKept
<1>9. Solo'
  <2>1. \A q \in Procs \ {p} : call'[q].op = call[q].op
    BY <1>3 DEF Alike
  <2>2. CASE c.op = "load" /\ UNCHANGED lock_f
    BY <1>7, <2>1, <2>2 DEF FileInv, Solo
  <2>3. CASE Acquire(p)
    <3>1. \A q \in Procs : call[q].op \in {"none", "load"}
      BY <2>3, FileSystemAssumption DEF FileInv, Solo, Acquire
    <3> QED
      BY <2>1, <2>3, <3>1 DEF Solo, Acquire
  <2> QED
    BY <2>2, <2>3
<1>10. Knowing'
  <2>1. \A q \in Procs \ {p} : Knows(q)'
    <3>1. \A q \in Procs \ {p}, i \in Inodes : Uses(q, i) =>
           /\ inode'[i].sector = inode[i].sector
           /\ pc[q] \in Freeing => inode'[i].open_cnt = 0 \/ inode[i].open_cnt > 0
      <4>1. \A i \in Inodes : inode[i].open_cnt \in Nat
        BY DEF FileInv, Types
      <4> QED
        BY <4>1
    <3> QED
      BY <1>5, <3>1, OthersKnow DEF onDisk
  <2>2. Knows(p)'
    <3>1. Knows(p)
      BY DEF FileInv, Knowing
    <3>2. file'[p] = file[p] \/ file'[p] = 0
      BY DEF FileInv, Types
    <3>3. c.ino \in {0, file[p]}
      OBVIOUS
    <3>4. pc'[p] \notin {"read", "free", "free_root", "erase", "zero", "add"} \cup Freeing
      BY <1>4 DEF Freeing
    <3> QED
      BY <1>7, <3>1, <3>2, <3>3, <3>4 DEF Knows
  <2> QED
    BY <2>1, <2>2 DEF Knowing
<1>11. OneFrees' /\ InodesOK' /\ DirOK' /\ WholeFiles' /\ Accounts'
  <2>1. call[p].sector = 0 /\ call[p].start = 0
    BY <1>0, NoCallIs
  <2>2. pc'[p] \notin {"read"} \cup Freeing /\ pc[p] \notin {"read"} \cup Freeing
    BY <1>4 DEF Freeing, Outside
  <2> QED
    BY <1>5, <1>7, <2>1, <2>2, QuietKeeps DEF onDisk
<1>12. Counted'
  <2>1. pc[p] # "read" /\ pc'[p] # "read" /\ call[p].root = 0 /\ call[p].ino = 0
    BY <1>0, <1>4, NoCallIs DEF Outside
  <2>2. file'[p] \in Int /\ file[p] \in Int /\ One(0, 0) = 1
    BY <1>6 DEF FileInv, Types, InodesOrNone, One, Inodes
  <2>3. \A i \in Inodes : ShareOf(p, i)' = ShareOf(p, i)
    <3>1. \A i \in Inodes : One(0, i) = 0
      BY DEF One, Inodes
    <3>2. \A j, i : One(j, i) \in Int
      BY DEF One
    <3>3. \A i \in Inodes : One(file[p], i) = One(file'[p], i) + One(c.ino, i)
      <4>1. CASE c.ino = 0 /\ UNCHANGED file
        BY <3>1, <3>2, <4>1
      <4>2. CASE c.ino = file[p] /\ file' = [file EXCEPT ![p] = 0]
        <5>1. file'[p] = 0
          BY <4>2 DEF FileInv, Types
        <5> QED
          BY <3>1, <3>2, <4>2, <5>1
      <4> QED
        BY <4>1, <4>2
    <3> HIDE DEF One
    <3> QED
      BY <1>7, <2>1, <3>1, <3>2, <3>3 DEF ShareOf, Share
  <2>4. \A i \in Inodes :
           /\ inode'[i].open_cnt + ShareOf(p, i) + ran[i]
                = inode[i].open_cnt + ShareOf(p, i)' + ran'[i]
           /\ inode'[i].deny_write_cnt + One(executable[p], i)
                = inode[i].deny_write_cnt + One(executable'[p], i)
    BY <2>3
  <2> QED
    BY <1>5, <1>6, <2>4, CountedKept DEF FileInv
<1>13. MetOK'
  <2>1. \A q \in Procs \ {p} : call'[q].op = call[q].op /\ (call[q].met => call'[q].met)
    BY <1>3 DEF Alike
  <2>2. \A q \in Procs \ {p} : call[q].op # "none" /\ "load" \in {c.op, call[q].op}
           => call'[q].met /\ b
    BY <1>3 DEF Meets, b
  <2> QED
    BY <1>7, <2>1, <2>2 DEF FileInv, MetOK
<1>14. Seeing'
  <2>1. ASSUME NEW q \in Procs \ {p} PROVE Sees(q)'
    <3>1. Sees(q)
      BY DEF FileInv, Seeing
    <3>2. pc'[q] = pc[q] /\ file'[q] = file[q] /\ Alike(call[q], call'[q])
      BY <1>5 DEF Moves
    <3> QED
      BY <3>1, <3>2 DEF Sees, Alike, InUse, onDisk
  <2>2. Sees(p)'
    BY <1>4, <1>7 DEF Sees, Opening
  <2> QED
    BY <2>1, <2>2 DEF Seeing
<1> QED
  BY <1>6, <1>8, <1>9, <1>10, <1>11, <1>12, <1>13, <1>14 DEF FileInv

LEMMA CallsKeep == ASSUME FileInv, NEW p \in Procs, Call(p) PROVE FileInv'
<1> USE DEF Goto
<1>0. /\ Shape(pc[p], call[p], file[p], executable[p])
      /\ file \in [Procs -> InodesOrNone] /\ Lengths \subseteq Nat
  BY FileSystemAssumption DEF FileInv, Shapes, Types
<1>1. ASSUME NEW n \in Names, NEW l \in Lengths \cup {0}, NEW op \in {"create", "open", "remove", "load"},
             Begin(p, op, n, l, "scan"), pc[p] \in Outside,
             UNCHANGED <<onDisk, inode, tables, lost>>,
             op = "open" => file[p] = 0,
             op = "load" => file[p] = 0 /\ executable[p] = 0 /\ UNCHANGED lock_f,
             op # "load" => Acquire(p)
      PROVE  FileInv'
  <2> DEFINE c == [NoCall EXCEPT !.op = op, !.name = n, !.length = l, !.target = Root]
  <2>1. /\ c \in Calls /\ c.op = op /\ c.target = Root /\ ~c.met /\ c.root = 0 /\ c.sector = 0
        /\ c.start = 0 /\ c.ino = 0 /\ c.name = n
    <3>1. l \in Nat /\ op \in Ops
      BY <1>0 DEF Ops
    <3>2. \A nc \in Calls : [nc EXCEPT !.op = op, !.name = n, !.length = l, !.target = Root] \in Calls
      BY <3>1 DEF Calls
    <3>3. c \in Calls
      BY <3>2, NoCallIs
    <3>4. c.op = op /\ c.target = Root /\ c.name = n /\ ~c.met /\ c.root = 0 /\ c.sector = 0
          /\ c.start = 0 /\ c.ino = 0
      <4>1. ~NoCall.met
        BY DEF NoCall
      <4> QED
        BY <4>1, NoCallIs DEF Calls
    <3> QED
      BY <3>3, <3>4
  <2>2. Called(p, c) /\ Goto(p, "scan")
    BY <1>1 DEF Begin
  <2>3. Shape("scan", c, file'[p], executable[p])
    <3>1. ~HasRoot("scan", c)
      BY <2>1 DEF HasRoot, Making, Closing, Opening
    <3>2. op # "exit" /\ op # "write"
      OBVIOUS
    <3> HIDE DEF c
    <3> QED
      BY <1>1, <2>1, <3>1, <3>2
      DEF Shape, PlacesOf, Opening, Outside, Leaving, Closing, Making, Freeing, tables, Root
  <2> HIDE DEF c
  <2> QED
    BY <1>1, <2>1, <2>2, <2>3, CallKeeps DEF tables
<1>2. ASSUME NEW op \in {"close", "exit"}, NEW w \in {"close", "allow"}, GiveUpFile(p, op, w),
             pc[p] \in Outside, Acquire(p), UNCHANGED <<onDisk, inode, lost>>,
             w = (IF file[p] # 0 THEN "close" ELSE "allow"), w = "allow" => op = "exit"
      PROVE  FileInv'
  <2> DEFINE c == [NoCall EXCEPT !.op = op, !.ino = file[p]]
  <2>1. /\ c \in Calls /\ c.op = op /\ ~c.met /\ c.root = 0 /\ c.sector = 0
        /\ c.start = 0 /\ c.ino = file[p]
    BY <1>0 DEF NoCall, Calls, Ops, InodesOrNone
  <2>2. Called(p, c) /\ Goto(p, w) /\ file' = [file EXCEPT ![p] = 0] /\ file'[p] = 0
    BY <1>0, <1>2 DEF GiveUpFile
  <2>3. Shape(w, c, file'[p], executable[p])
    <3>1. ~HasRoot(w, c)
      BY <2>1 DEF HasRoot, Making, Closing, Opening
    <3> HIDE DEF c
    <3> QED
      BY <1>2, <2>1, <2>2, <3>1
      DEF Shape, PlacesOf, Opening, Outside, Leaving, Closing, Making, Freeing
  <2> HIDE DEF c
  <2> QED
    BY <1>2, <2>1, <2>2, <2>3, CallKeeps DEF GiveUpFile
<1>3. ASSUME Write(p) PROVE FileInv'
  <2> DEFINE c == [NoCall EXCEPT !.op = "write", !.name = NoOne, !.length = 0, !.target = Root]
  <2>1. /\ c \in Calls /\ c.op = "write" /\ ~c.met /\ c.root = 0 /\ c.sector = 0
        /\ c.start = 0 /\ c.ino = 0
    BY DEF NoCall, Calls, Ops, InodesOrNone
  <2>2. Called(p, c) /\ Goto(p, "write_check") /\ pc[p] \in Outside /\ file'[p] # 0
    BY <1>3 DEF Write, Begin, At, Outside, tables
  <2>3. Shape("write_check", c, file'[p], executable[p])
    <3>1. ~HasRoot("write_check", c)
      BY DEF HasRoot, Making, Closing, Opening
    <3> HIDE DEF c
    <3> QED
      BY <2>1, <2>2, <3>1
      DEF Shape, PlacesOf, Opening, Outside, Leaving, Closing, Making, Freeing
  <2> HIDE DEF c
  <2> QED
    BY <1>3, <2>1, <2>2, <2>3, CallKeeps DEF Write, tables
<1>4. ASSUME Create(p) PROVE FileInv'
  <2>1. PICK n \in Names, l \in Lengths : Begin(p, "create", n, l, "scan")
    BY <1>4 DEF Create
  <2> QED
    BY <1>1, <1>4, <2>1 DEF Create, At, Outside
<1>5. ASSUME Open(p) PROVE FileInv'
  <2>1. PICK n \in Names : Begin(p, "open", n, 0, "scan")
    BY <1>5 DEF Open
  <2> QED
    BY <1>1, <1>5, <2>1 DEF Open, At, Outside
<1>6. ASSUME Remove(p) PROVE FileInv'
  <2>1. PICK n \in Names : Begin(p, "remove", n, 0, "scan")
    BY <1>6 DEF Remove
  <2> QED
    BY <1>1, <1>6, <2>1 DEF Remove, At, Outside
<1>7. ASSUME Load(p) PROVE FileInv'
  <2>1. PICK n \in Names : Begin(p, "load", n, 0, "scan")
    BY <1>7 DEF Load
  <2>2. pc[p] = "new" /\ file[p] = 0 /\ executable[p] = 0
    BY <1>0, <1>7 DEF Load, At, Shape
  <2> QED
    BY <1>1, <1>7, <2>1, <2>2 DEF Load, Outside
<1>8. ASSUME Close(p) PROVE FileInv'
  <2>1. GiveUpFile(p, "close", "close") /\ file[p] # 0
    BY <1>8 DEF Close
  <2> QED
    BY <1>2, <1>8, <2>1 DEF Close, At, Outside
<1>9. ASSUME Exit(p) PROVE FileInv'
  <2>1. GiveUpFile(p, "exit", IF file[p] # 0 THEN "close" ELSE "allow")
    BY <1>9 DEF Exit
  <2> QED
    BY <1>2, <1>9, <2>1 DEF Exit, At, Outside
<1> QED
  BY <1>3, <1>4, <1>5, <1>6, <1>7, <1>8, <1>9 DEF Call

-----------------------------------------------------------------------------
(* The steps of a call.                                                    *)

LEMMA Local ==
  ASSUME Types, NEW p \in Procs, NEW w \in Places, NEW c \in Calls,
         pc' = [pc EXCEPT ![p] = w], call' = [call EXCEPT ![p] = c],
         \A q \in Procs \ {p} : file'[q] = file[q] /\ executable'[q] = executable[q]
  PROVE  /\ Moves(p) /\ pc'[p] = w /\ call'[p] = c
         /\ call' \in [Procs -> Calls] /\ pc' \in [Procs -> Places]
BY DEF Types, Moves, Alike

LEMMA StepKeeps ==
  ASSUME FileInv, NEW p \in Procs, pc[p] \notin Outside, Types', Moves(p),
         Shape(pc[p], call[p], file[p], executable[p])',
         \/ /\ call'[p].op = call[p].op /\ call'[p].met = call[p].met /\ UNCHANGED lock_f
         \/ /\ call'[p].op = "none"
            /\ UNCHANGED lock_f \/ call[p].op \notin {"none", "load"},
         \A q \in Procs \ {p}, i \in Inodes : Uses(q, i) =>
           /\ inode'[i].sector = inode[i].sector
           /\ pc[q] \in Freeing => inode'[i].open_cnt = 0 \/ inode[i].open_cnt > 0,
         UNCHANGED <<dir, disk>> \/ call[p].op \notin {"none", "load"},
         Knows(p)', Sees(p)',
         \A i \in Inodes :
           /\ inode'[i].open_cnt + ShareOf(p, i) + ran[i]
                = inode[i].open_cnt + ShareOf(p, i)' + ran'[i]
           /\ inode'[i].deny_write_cnt + One(executable[p], i)
                = inode[i].deny_write_cnt + One(executable'[p], i),
         OneFrees', InodesOK', DirOK', WholeFiles', Accounts'
  PROVE  FileInv'
<1>1. Shapes'
  BY ShapesKept
<1>2. Solo' /\ MetOK'
  BY SoloKept, MetKept
<1>3. Knowing'
  <2>1. \A q \in Procs \ {p} : Knows(q)'
    BY OthersKnow
  <2> QED
    BY <2>1 DEF Knowing
<1>4. Counted'
  BY CountedKept DEF FileInv
<1>5. Seeing'
  <2>1. \A q \in Procs \ {p} : Sees(q)'
    BY OthersSee
  <2> QED
    BY <2>1 DEF Seeing
<1> QED
  BY <1>1, <1>2, <1>3, <1>4, <1>5 DEF FileInv

LEMMA QuietStep ==
  ASSUME FileInv, NEW p \in Procs, pc[p] \notin Outside \cup {"read"} \cup Freeing,
         NEW w \in Places, w \notin {"read"} \cup Freeing, NEW c \in Calls,
         pc' = [pc EXCEPT ![p] = w], call' = [call EXCEPT ![p] = c],
         file' \in [Procs -> InodesOrNone], \A q \in Procs \ {p} : file'[q] = file[q],
         UNCHANGED <<onDisk, inode, executable, ran, lost>>,
         Shape(w, c, file'[p], executable[p]),
         \/ c.op = call[p].op /\ c.met = call[p].met /\ UNCHANGED lock_f
         \/ c.op = "none" /\ (UNCHANGED lock_f \/ call[p].op \notin {"none", "load"}),
         c.root = call[p].root, c.sector = call[p].sector, c.start = 0, call[p].start = 0,
         \A i \in Inodes : One(c.ino, i) + One(file'[p], i) = One(call[p].ino, i) + One(file[p], i),
         Knows(p)', Sees(p)'
  PROVE  FileInv'
<1>1. Moves(p) /\ pc'[p] = w /\ call'[p] = c /\ call' \in [Procs -> Calls] /\ pc' \in [Procs -> Places]
  BY Local DEF FileInv
<1>2. Types'
  BY <1>1 DEF FileInv, Types, onDisk
<1>3. OneFrees' /\ InodesOK' /\ DirOK' /\ WholeFiles' /\ Accounts'
  BY <1>1, QuietKeeps DEF onDisk
<1>4. \A i \in Inodes :
           /\ inode'[i].open_cnt + ShareOf(p, i) + ran[i]
                = inode[i].open_cnt + ShareOf(p, i)' + ran'[i]
           /\ inode'[i].deny_write_cnt + One(executable[p], i)
                = inode[i].deny_write_cnt + One(executable'[p], i)
  <2>1. \A j, i : One(j, i) \in Int
    BY DEF One
  <2>2. ASSUME NEW i \in Inodes PROVE ShareOf(p, i)' = ShareOf(p, i)
    <3>1. One(c.ino, i) + One(file'[p], i) = One(call[p].ino, i) + One(file[p], i)
      OBVIOUS
    <3> HIDE DEF One
    <3> QED
      BY <1>1, <2>1, <3>1 DEF ShareOf, Share
  <2> QED
    BY <2>2
<1>5. \A q \in Procs \ {p}, i \in Inodes : Uses(q, i) =>
           /\ inode'[i].sector = inode[i].sector
           /\ pc[q] \in Freeing => inode'[i].open_cnt = 0 \/ inode[i].open_cnt > 0
  <2>1. \A i \in Inodes : inode[i].open_cnt \in Nat
    BY DEF FileInv, Types
  <2> QED
    BY <2>1
<1>6. Shape(pc[p], call[p], file[p], executable[p])'
  BY <1>1
<1>7. \/ /\ call'[p].op = call[p].op /\ call'[p].met = call[p].met /\ UNCHANGED lock_f
      \/ /\ call'[p].op = "none"
         /\ UNCHANGED lock_f \/ call[p].op \notin {"none", "load"}
  BY <1>1
<1> QED
  BY <1>1, <1>2, <1>3, <1>4, <1>5, <1>6, <1>7, StepKeeps DEF onDisk

\* An inode in the list that nobody has open is being freed.
LEMMA UnopenedIsFreed ==
  ASSUME FileInv, NEW p \in Procs, pc[p] \notin Outside \cup Freeing,
         NEW i \in Inodes, inode[i].sector # 0, inode[i].open_cnt = 0
  PROVE  call[p].met
<1>1. PICK r \in Procs : pc[r] \in Freeing
  BY DEF FileInv, InodesOK, InodeOK
<1>2. r # p /\ pc[r] \notin Outside
  BY <1>1 DEF Freeing, Outside
<1> QED
  BY <1>2, BothMet

LEMMA ScanKeeps == ASSUME FileInv, NEW p \in Procs, Scan(p) PROVE FileInv'
<1>1. pc[p] = "scan" /\ pc[p] \notin Outside \cup {"read"} \cup Freeing
  BY DEF Scan, At, Outside, Freeing
<1>2. /\ Shape(pc[p], call[p], file[p], executable[p]) /\ Knows(p) /\ Sees(p) /\ call[p] \in Calls
      /\ call \in [Procs -> Calls] /\ file \in [Procs -> InodesOrNone]
  BY DEF FileInv, Shapes, Knowing, Seeing, Types
<1>3. UNCHANGED <<onDisk, inode, executable, ran, lost, file, lock_f>>
  BY DEF Scan, tables
<1>4. /\ call[p].start = 0 /\ call[p].sector = 0 /\ call[p].target # 0 /\ call[p].ino = 0
      /\ call[p].op \in {"create", "open", "remove", "load"}
  BY <1>1, <1>2, FileSystemAssumption
  DEF Shape, PlacesOf, Making, Root, Sectors, Leaving, Opening, Closing, Outside, Calls, Ops
<1>5. CASE /\ Goto(p, "push") /\ UNCHANGED call
           /\ {i \in Inodes : inode[i].sector = call[p].target} = {}
  <2>1. pc' = [pc EXCEPT ![p] = "push"] /\ call' = [call EXCEPT ![p] = call[p]]
    BY <1>2, <1>5 DEF Goto
  <2>2. Shape("push", call[p], file[p], executable[p])
    <3>1. HasRoot("push", call[p]) <=> HasRoot("scan", call[p])
      BY DEF HasRoot, Opening, Making, Closing
    <3> QED
      BY <1>1, <1>2, <3>1 DEF Shape, PlacesOf, Opening, Making, Closing, Leaving, Outside, Freeing
  <2>3. pc'[p] = "push"
    BY <2>1 DEF FileInv, Types
  <2>4. Knows(p)'
    BY <1>2, <1>3, <1>5, <2>3, <1>1, <1>4 DEF Knows, Freeing, Held, onDisk
  <2>5. Sees(p)'
    BY <1>1, <1>2, <1>3, <1>5, <2>3 DEF Sees, Opening, InUse, onDisk
  <2>6. "push" \in Places /\ "push" \notin {"read"} \cup Freeing
    BY DEF Places, Opening, Freeing
  <2> QED
    BY <1>1, <1>2, <1>3, <1>4, <2>1, <2>2, <2>4, <2>5, <2>6, QuietStep
<1>6. ASSUME NEW i \in Inodes, inode[i].sector = call[p].target,
             call' = [call EXCEPT ![p].found = i], Goto(p, "reopen")
      PROVE  FileInv'
  <2> DEFINE c == [call[p] EXCEPT !.found = i]
  <2>1. pc' = [pc EXCEPT ![p] = "reopen"] /\ call' = [call EXCEPT ![p] = c]
    BY <1>2, <1>6 DEF Goto
  <2>2. /\ c \in Calls /\ c.op = call[p].op /\ c.met = call[p].met /\ c.root = call[p].root
        /\ c.ino = call[p].ino /\ c.sector = call[p].sector /\ c.start = call[p].start
        /\ c.target = call[p].target /\ c.found = i /\ c.name = call[p].name
    BY <1>2 DEF Calls, InodesOrNone
  <2>3. i # 0 /\ i \in Int
    BY DEF Inodes
  <2>4. pc'[p] = "reopen" /\ call'[p] = c
    BY <1>2, <2>1 DEF FileInv, Types
  <2> HIDE DEF c
  <2>5. Shape("reopen", c, file[p], executable[p])
    <3>1. HasRoot("reopen", c) <=> HasRoot("scan", call[p])
      BY <2>2 DEF HasRoot, Opening, Making, Closing
    <3> QED
      BY <1>1, <1>2, <1>4, <2>2, <2>3, <3>1
      DEF Shape, PlacesOf, Opening, Making, Closing, Leaving, Outside, Freeing
  <2>6. Knows(p)'
    BY <1>2, <1>3, <1>4, <2>2, <2>4 DEF Knows, Freeing, Held, onDisk
  <2>7. Sees(p)'
    <3>1. call[p].met \/ inode[i].open_cnt # 0
      BY <1>1, <1>4, <1>6, UnopenedIsFreed
    <3>2. inode[i].open_cnt \in Nat
      BY DEF FileInv, Types
    <3> QED
      BY <1>1, <1>2, <1>3, <1>6, <2>2, <2>4, <3>1, <3>2 DEF Sees, Opening, InUse, onDisk
  <2>8. "reopen" \in Places /\ "reopen" \notin {"read"} \cup Freeing
    BY DEF Places, Opening, Freeing
  <2> QED
    BY <1>1, <1>2, <1>3, <1>4, <2>1, <2>2, <2>5, <2>6, <2>7, <2>8, QuietStep
<1> QED
  BY <1>5, <1>6 DEF Scan

LEMMA LookupKeeps == ASSUME FileInv, NEW p \in Procs, Lookup(p), Sound' PROVE FileInv'
<1>1. pc[p] = "lookup" /\ pc[p] \notin Outside \cup {"read"} \cup Freeing
  BY DEF Lookup, At, Outside, Freeing
<1>2. /\ Shape(pc[p], call[p], file[p], executable[p]) /\ Knows(p) /\ call[p] \in Calls
      /\ call \in [Procs -> Calls] /\ file \in [Procs -> InodesOrNone]
  BY DEF FileInv, Shapes, Knowing, Types
<1>3. UNCHANGED <<onDisk, inode, executable, ran, lost, file, lock_f>>
  BY DEF Lookup, tables
<1>4. /\ call[p].start = 0 /\ call[p].sector = 0 /\ call[p].ino = 0 /\ call[p].root # 0
      /\ call[p].op \in {"open", "remove", "load"} /\ call[p].name \in Names
  BY <1>1, <1>2 DEF Shape, PlacesOf, Making, Leaving, Opening, Closing, Outside, Calls, Ops, HasRoot
<1>5. CASE Goto(p, "close_root") /\ UNCHANGED call
  <2>1. pc' = [pc EXCEPT ![p] = "close_root"] /\ call' = [call EXCEPT ![p] = call[p]]
    BY <1>2, <1>5 DEF Goto
  <2>2. Shape("close_root", call[p], file[p], executable[p])
    <3>1. HasRoot("close_root", call[p])
      BY DEF HasRoot
    <3> QED
      BY <1>1, <1>2, <1>4, <3>1 DEF Shape, PlacesOf, Opening, Making, Closing, Leaving, Outside, Freeing
  <2>3. pc'[p] = "close_root"
    BY <2>1 DEF FileInv, Types
  <2>4. Knows(p)'
    BY <1>2, <1>3, <1>5, <2>3, <1>1, <1>4 DEF Knows, Freeing, Held, onDisk
  <2>5. Sees(p)'
    BY <2>3 DEF Sees, Opening
  <2>6. "close_root" \in Places /\ "close_root" \notin {"read"} \cup Freeing
    BY DEF Places, Leaving, Freeing
  <2> QED
    BY <1>1, <1>2, <1>3, <1>4, <2>1, <2>2, <2>4, <2>5, <2>6, QuietStep
<1>6. ASSUME NEW e \in InDir(call[p].name),
             call' = [call EXCEPT ![p].target = dir[e].sector], Goto(p, "scan")
      PROVE  FileInv'
  <2> DEFINE c == [call[p] EXCEPT !.target = dir[e].sector]
  <2>1. pc' = [pc EXCEPT ![p] = "scan"] /\ call' = [call EXCEPT ![p] = c]
    BY <1>2, <1>6 DEF Goto
  <2>2. /\ e \in Entries /\ dir[e].name = call[p].name /\ dir[e].sector \in Sectors
        /\ dir[e] = Entry(call[p].name, dir[e].sector)
    <3>1. e \in Entries /\ dir[e].name = call[p].name /\ dir[e].name # NoOne
      BY <1>4, <1>6, FileSystemAssumption DEF InDir
    <3>2. dir[e] \in [name : Names \cup {NoOne}, sector : Sectors \cup {0}]
      BY <3>1 DEF FileInv, Types
    <3>3. dir[e].sector # 0
      BY <3>1 DEF FileInv, DirOK
    <3> QED
      BY <3>1, <3>2, <3>3 DEF Entry
  <2>3. /\ c \in Calls /\ c.op = call[p].op /\ c.met = call[p].met /\ c.root = call[p].root
        /\ c.ino = call[p].ino /\ c.sector = call[p].sector /\ c.start = call[p].start
        /\ c.target = dir[e].sector /\ c.name = call[p].name
    BY <1>2, <2>2 DEF Calls
  <2>4. pc'[p] = "scan" /\ call'[p] = c
    BY <1>2, <2>1 DEF FileInv, Types
  <2> HIDE DEF c
  <2>5. Shape("scan", c, file[p], executable[p])
    <3>1. HasRoot("scan", c)
      BY <2>2, <2>3, FileSystemAssumption DEF HasRoot, Opening, Sectors, Root
    <3>2. c.op # "create" /\ c.op # "exit" /\ c.op # "write"
      BY <1>4, <2>3
    <3> QED
      BY <1>1, <1>2, <1>4, <2>2, <2>3, <3>1, <3>2
      DEF Shape, PlacesOf, Opening, Making, Closing, Leaving, Outside, Freeing
  <2>6. Knows(p)'
    BY <1>2, <1>3, <1>4, <2>3, <2>4 DEF Knows, Freeing, Held, onDisk
  <2>7. Sees(p)'
    <3>1. InUse(c.name, c.target)
      BY <2>2, <2>3 DEF InUse
    <3> QED
      BY <1>3, <2>4, <3>1 DEF Sees, InUse, onDisk
  <2>8. "scan" \in Places /\ "scan" \notin {"read"} \cup Freeing
    BY DEF Places, Opening, Freeing
  <2> QED
    BY <1>1, <1>2, <1>3, <1>4, <2>1, <2>3, <2>5, <2>6, <2>7, <2>8, QuietStep
<1> QED
  BY <1>5, <1>6 DEF Lookup

LEMMA WriteCheckKeeps == ASSUME FileInv, NEW p \in Procs, WriteCheck(p) PROVE FileInv'
<1>1. pc[p] = "write_check" /\ pc[p] \notin Outside \cup {"read"} \cup Freeing
  BY DEF WriteCheck, At, Outside, Freeing
<1>2. /\ Shape(pc[p], call[p], file[p], executable[p]) /\ Knows(p) /\ call[p] \in Calls
      /\ call \in [Procs -> Calls] /\ file \in [Procs -> InodesOrNone]
  BY DEF FileInv, Shapes, Knowing, Types
<1>3. UNCHANGED <<onDisk, inode, executable, ran, lost, file, lock_f, call>>
  BY DEF WriteCheck, tables
<1>4. call[p].op = "write" /\ call[p].start = 0 /\ call[p].sector = 0 /\ file[p] \in Inodes
  BY <1>1, <1>2
  DEF Shape, PlacesOf, Making, Leaving, Opening, Closing, Outside, Calls, Ops, InodesOrNone
<1> DEFINE w == IF inode[file[p]].deny_write_cnt > 0 THEN "return" ELSE "write"
<1>5. pc' = [pc EXCEPT ![p] = w] /\ call' = [call EXCEPT ![p] = call[p]]
  BY <1>2, <1>3 DEF WriteCheck, Goto
<1>6. w \in {"return", "write"} /\ (w = "write" => inode[file[p]].deny_write_cnt = 0)
  BY <1>4 DEF FileInv, Types
<1> HIDE DEF w
<1>7. Shape(w, call[p], file[p], executable[p])
  <2>1. HasRoot(w, call[p]) <=> HasRoot(pc[p], call[p])
    BY <1>1, <1>6 DEF HasRoot, Opening, Making, Closing
  <2> QED
    BY <1>1, <1>2, <1>4, <1>6, <2>1
    DEF Shape, PlacesOf, Opening, Making, Closing, Leaving, Outside, Freeing
<1>8. pc'[p] = w
  BY <1>5 DEF FileInv, Types
<1>9. Knows(p)'
  BY <1>2, <1>3, <1>4, <1>6, <1>8 DEF Knows, Freeing, Held, onDisk
<1>10. Sees(p)'
  BY <1>3, <1>6, <1>8 DEF Sees, Opening
<1>11. w \in Places /\ w \notin {"read"} \cup Freeing
  BY <1>6 DEF Places, Opening, Freeing
<1> QED
  BY <1>1, <1>2, <1>3, <1>4, <1>5, <1>7, <1>9, <1>10, <1>11, QuietStep

LEMMA ReturnKeeps == ASSUME FileInv, NEW p \in Procs, Return(p) PROVE FileInv'
<1>1. pc[p] = "return" /\ pc[p] \notin Outside \cup {"read"} \cup Freeing
  BY DEF Return, At, Outside, Freeing
<1>2. /\ Shape(pc[p], call[p], file[p], executable[p]) /\ Knows(p) /\ call[p] \in Calls
      /\ call \in [Procs -> Calls] /\ file \in [Procs -> InodesOrNone]
  BY DEF FileInv, Shapes, Knowing, Types
<1>3. /\ UNCHANGED <<onDisk, inode, executable, ran, lost>>
      /\ file' = IF call[p].op = "open" THEN [file EXCEPT ![p] = call[p].ino] ELSE file
      /\ pc' = [pc EXCEPT ![p] = "user"] /\ call' = [call EXCEPT ![p] = NoCall]
  BY DEF Return, Goto
<1>4. /\ call[p].op \in {"create", "open", "remove", "write", "close"}
      /\ call[p].start = 0 /\ call[p].sector = 0 /\ call[p].root = 0
      /\ call[p].op # "open" => call[p].ino = 0
      /\ call[p].op = "open" => file[p] = 0
  BY <1>1, <1>2 DEF Shape, PlacesOf, HasRoot, Making, Leaving, Opening, Closing, Outside, Calls, Ops
<1>5. /\ file' \in [Procs -> InodesOrNone] /\ \A q \in Procs \ {p} : file'[q] = file[q]
      /\ file'[p] = IF call[p].op = "open" THEN call[p].ino ELSE file[p]
  BY <1>2, <1>3 DEF Calls
<1>6. Shape("user", NoCall, file'[p], executable[p])
  <2>1. ~HasRoot("user", NoCall)
    BY DEF HasRoot, Opening, Making, Closing
  <2> QED
    BY <2>1, NoCallIs DEF Shape, PlacesOf, Opening, Making, Closing, Leaving, Outside, Freeing
<1>7. pc'[p] = "user" /\ call'[p] = NoCall
  BY <1>2, <1>3 DEF FileInv, Types
<1>8. Knows(p)'
  BY <1>2, <1>3, <1>4, <1>5, <1>7, NoCallIs DEF Knows, Freeing
<1>9. Sees(p)'
  BY <1>7 DEF Sees, Opening
<1>10. "user" \in Places /\ "user" \notin {"read"} \cup Freeing
  BY DEF Places, Outside, Freeing
<1>11. \A i \in Inodes :
         One(NoCall.ino, i) + One(file'[p], i) = One(call[p].ino, i) + One(file[p], i)
  <2>1. \A j, i : One(j, i) \in Int
    BY DEF One
  <2> HIDE DEF One
  <2> QED
    BY <1>4, <1>5, <2>1, NoCallIs
<1> QED
  BY <1>1, <1>2, <1>3, <1>4, <1>5, <1>6, <1>8, <1>9, <1>10, <1>11, NoCallIs, QuietStep

-----------------------------------------------------------------------------
(* The steps on one inode.                                                 *)

InodeRecords == [sector : Sectors \cup {0, Root}, open_cnt : Nat, deny_write_cnt : Nat,
                 removed : BOOLEAN, data : DiskOf]

\* No other inode is touched, and it has its sector for itself.
LEMMA InodesKept ==
  ASSUME FileInv, NEW p \in Procs, Moves(p), NEW j \in Inodes,
         \A i \in Inodes \ {j} : inode'[i] = inode[i],
         \A i \in Inodes \ {j} : inode[i].sector = 0 \/ inode[i].sector # inode'[j].sector,
         pc[p] \in {"read"} \cup Freeing => call[p].found = j,
         Named' = Named, \A s \in OpenFiles : disk'[s] = disk[s],
         InodeOK(j)'
  PROVE  InodesOK'
<1>1. OpensShared'
  BY DEF FileInv, InodesOK, OpensShared
<1>2. ASSUME NEW i \in Inodes \ {j} PROVE InodeOK(i)'
  <2>1. InodeOK(i) /\ inode'[i] = inode[i]
    BY DEF FileInv, InodesOK
  <2>2. ASSUME NEW q \in Procs, pc[q] \in {"read"} \cup Freeing, call[q].found = i
        PROVE  pc'[q] = pc[q] /\ call'[q].found = i
    BY <2>2 DEF Moves, Alike
  <2>3. inode[i].sector \in Sectors => disk'[inode[i].sector] = disk[inode[i].sector]
    <3>1. inode[i].sector \in Sectors => inode[i].sector \in OpenFiles
      BY FileSystemAssumption DEF OpenFiles, Sectors, Root
    <3> QED
      BY <3>1
  <2> QED
    BY <2>1, <2>2, <2>3 DEF InodeOK, NotRead
<1> QED
  BY <1>1, <1>2 DEF InodesOK

LEMMA OneFreesKept ==
  ASSUME FileInv, NEW p \in Procs, Moves(p),
         pc'[p] \in Freeing => \/ pc[p] \in Freeing /\ call'[p].found = call[p].found
                               \/ call'[p].found \in Inodes
                                  /\ inode[call'[p].found].open_cnt > 0
  PROVE  OneFrees'
<1>1. \A q \in Procs : pc[q] \in Freeing => inode[call[q].found].open_cnt = 0
  BY DEF FileInv, Knowing, Knows
<1>2. \A q \in Procs \ {p} : pc'[q] = pc[q] /\ call'[q].found = call[q].found
  BY DEF Moves, Alike
<1> QED
  BY <1>1, <1>2 DEF FileInv, OneFrees

\* The inode of j changes, not its sector.
LEMMA InodeStep ==
  ASSUME FileInv, NEW p \in Procs, pc[p] \notin Outside,
         NEW w \in Places, NEW c \in Calls,
         pc' = [pc EXCEPT ![p] = w], call' = [call EXCEPT ![p] = c],
         NEW j \in Inodes, NEW n \in InodeRecords, inode' = [inode EXCEPT ![j] = n],
         n.sector = inode[j].sector, inode[j].open_cnt > 0,
         executable' \in [Procs -> InodesOrNone], ran' \in [Inodes -> Nat],
         \A q \in Procs \ {p} : executable'[q] = executable[q],
         UNCHANGED <<onDisk, lost, file>>,
         Shape(w, c, file[p], executable'[p]),
         \/ c.op = call[p].op /\ c.met = call[p].met /\ UNCHANGED lock_f
         \/ c.op = "none" /\ (UNCHANGED lock_f \/ call[p].op \notin {"none", "load"}),
         c.sector = call[p].sector, c.start = 0, call[p].start = 0,
         pc[p] \notin Freeing, pc[p] = "read" => call[p].found = j,
         w \in Freeing => c.found = j,
         InodeOK(j)',
         n.open_cnt + ShareOf(p, j) + ran[j]
           = inode[j].open_cnt + Share(w, c, file[p], executable'[p], j) + ran'[j],
         n.deny_write_cnt + One(executable[p], j)
           = inode[j].deny_write_cnt + One(executable'[p], j),
         \A i \in Inodes \ {j} :
           /\ ShareOf(p, i) = Share(w, c, file[p], executable'[p], i) /\ ran'[i] = ran[i]
           /\ One(executable[p], i) = One(executable'[p], i),
         Knows(p)', Sees(p)'
  PROVE  FileInv'
<1>1. Moves(p) /\ pc'[p] = w /\ call'[p] = c /\ call' \in [Procs -> Calls] /\ pc' \in [Procs -> Places]
  BY Local DEF FileInv
<1>2. inode \in [Inodes -> InodeRecords] /\ inode'[j] = n /\ \A i \in Inodes \ {j} : inode'[i] = inode[i]
  BY DEF FileInv, Types, InodeRecords
<1>3. Types'
  <2>1. inode' \in [Inodes -> InodeRecords]
    BY <1>2
  <2> QED
    BY <1>1, <2>1 DEF FileInv, Types, onDisk, InodeRecords
<1>4. \A i \in Inodes : inode'[i].sector = inode[i].sector
  BY <1>2
<1>5. Named' = Named /\ OpenFiles' = OpenFiles /\ UNCHANGED <<free_map, dir, disk>>
  BY <1>4, NamedKept, OpenFilesKept DEF onDisk
<1>6. InodesOK'
  <2>1. \A i \in Inodes \ {j} : inode[i].sector = 0 \/ inode[i].sector # inode'[j].sector
    BY <1>2 DEF FileInv, InodesOK, OpensShared
  <2> QED
    BY <1>1, <1>2, <1>5, <2>1, InodesKept
<1>7. OneFrees'
  BY <1>1, OneFreesKept
<1>8. DirOK'
  BY <1>5 DEF FileInv, DirOK
<1>9. WholeFiles' /\ Accounts'
  <2>1. \A q \in Procs : OfCall(q)' = OfCall(q)
    BY <1>1, OfCallKept
  <2>2. Files' = Files
    BY <1>5 DEF Files
  <2> QED
    BY <1>5, <2>1, <2>2, FilesKept
<1>10. \A i \in Inodes :
           /\ inode'[i].open_cnt + ShareOf(p, i) + ran[i]
                = inode[i].open_cnt + ShareOf(p, i)' + ran'[i]
           /\ inode'[i].deny_write_cnt + One(executable[p], i)
                = inode[i].deny_write_cnt + One(executable'[p], i)
  <2>1. \A i : ShareOf(p, i)' = Share(w, c, file[p], executable'[p], i)
    BY <1>1 DEF ShareOf, Share
  <2> HIDE DEF ShareOf, Share, One
  <2> QED
    BY <1>2, <2>1
<1>11. \A q \in Procs \ {p}, i \in Inodes : Uses(q, i) =>
           /\ inode'[i].sector = inode[i].sector
           /\ pc[q] \in Freeing => inode'[i].open_cnt = 0 \/ inode[i].open_cnt > 0
  <2>1. \A i \in Inodes : inode[i].open_cnt \in Nat
    BY <1>2 DEF InodeRecords
  <2> QED
    BY <1>2, <1>4, <2>1
<1>12. Shape(pc[p], call[p], file[p], executable[p])'
  BY <1>1
<1>13. \/ /\ call'[p].op = call[p].op /\ call'[p].met = call[p].met /\ UNCHANGED lock_f
       \/ /\ call'[p].op = "none"
          /\ UNCHANGED lock_f \/ call[p].op \notin {"none", "load"}
  BY <1>1
<1> QED
  BY <1>1, <1>3, <1>5, <1>6, <1>7, <1>8, <1>9, <1>10, <1>11, <1>12, <1>13, StepKeeps

-----------------------------------------------------------------------------
(* inode_open().                                                           *)

\* Where a call goes on with the inode i that it has opened.
Opens(p, i, w, c) ==
  /\ c \in Calls /\ w \in {"alloc", "lookup", "erase", "close_root"}
  /\ pc' = [pc EXCEPT ![p] = w] /\ call' = [call EXCEPT ![p] = c]
  /\ c.op = call[p].op /\ c.met = call[p].met /\ c.name = call[p].name
  /\ c.sector = 0 /\ c.start = 0 /\ c.target = call[p].target
  /\ Shape(w, c, file[p], executable[p])
  /\ \/ call[p].target = Root /\ c.root = i /\ c.ino = 0 /\ w # "erase"
     \/ call[p].target \in Sectors /\ c.root = call[p].root /\ c.ino = i
  /\ w = "erase" => c.op = "remove" /\ call[p].target \in Sectors
  /\ \A k \in Inodes : Share(w, c, file[p], executable[p], k)
       = One(file[p], k) + One(executable[p], k) + One(call[p].root, k) + One(call[p].ino, k)
         + One(i, k)

LEMMA OpenedIs ==
  ASSUME FileInv, NEW p \in Procs, pc[p] \in {"reopen", "read"}, NEW i \in Inodes, Opened(p, i)
  PROVE  \E w, c : Opens(p, i, w, c)
<1>1. /\ Shape(pc[p], call[p], file[p], executable[p]) /\ call[p] \in Calls
      /\ call \in [Procs -> Calls]
  BY DEF FileInv, Shapes, Types
<1>2. /\ call[p].op \in {"create", "open", "remove", "load"} /\ call[p].ino = 0
      /\ call[p].sector = 0 /\ call[p].start = 0 /\ call[p].target \in Sectors \cup {Root}
      /\ call[p].root # 0 <=> call[p].target # Root
      /\ call[p].op = "create" => call[p].target = Root
  BY <1>1 DEF Shape, PlacesOf, HasRoot, Making, Leaving, Opening, Closing, Outside, Calls, Ops
<1>3. i # 0 /\ Root \notin Sectors
  BY FileSystemAssumption DEF Inodes, Root, Sectors
<1>4. \A j, k : One(j, k) \in Int
  BY DEF One
<1>5. \A k \in Inodes : One(0, k) = 0
  BY DEF One, Inodes
<1>6. CASE call[p].target = Root
  <2> DEFINE c == [call[p] EXCEPT !.root = i]
             w == IF call[p].op = "create" THEN "alloc" ELSE "lookup"
  <2>1. pc' = [pc EXCEPT ![p] = w] /\ call' = [call EXCEPT ![p] = c]
    BY <1>1, <1>6 DEF Opened, Goto
  <2>2. /\ c \in Calls /\ c.op = call[p].op /\ c.met = call[p].met /\ c.name = call[p].name
        /\ c.ino = 0 /\ c.root = i /\ c.found = call[p].found
        /\ c.sector = 0 /\ c.start = 0 /\ c.target = call[p].target
    BY <1>1, <1>2 DEF Calls, InodesOrNone
  <2>3. w \in {"alloc", "lookup"} /\ (c.op = "create" <=> w = "alloc")
    BY <2>2
  <2> HIDE DEF c, w
  <2>4. Shape(w, c, file[p], executable[p])
    <3>1. HasRoot(w, c)
      BY <2>3 DEF HasRoot, Making
    <3> QED
      BY <1>1, <1>2, <1>3, <2>2, <2>3, <3>1
      DEF Shape, PlacesOf, Opening, Making, Closing, Leaving, Outside, Freeing
  <2>5. ASSUME NEW k \in Inodes PROVE Share(w, c, file[p], executable[p], k)
          = One(file[p], k) + One(executable[p], k) + One(call[p].root, k) + One(call[p].ino, k)
            + One(i, k)
    <3>1. w # "read" /\ call[p].root = 0
      BY <1>2, <1>6, <2>3
    <3> HIDE DEF One
    <3> QED
      BY <1>2, <1>4, <1>5, <2>2, <3>1 DEF Share
  <2>6. Opens(p, i, w, c)
    BY <1>6, <2>1, <2>2, <2>3, <2>4, <2>5 DEF Opens
  <2> QED
    BY <2>6
<1>7. CASE call[p].target # Root
  <2> DEFINE c == [call[p] EXCEPT !.ino = i]
             w == IF call[p].op = "remove" THEN "erase" ELSE "close_root"
  <2>1. pc' = [pc EXCEPT ![p] = w] /\ call' = [call EXCEPT ![p] = c]
    BY <1>1, <1>7 DEF Opened, Goto
  <2>2. /\ c \in Calls /\ c.op = call[p].op /\ c.met = call[p].met /\ c.name = call[p].name
        /\ c.ino = i /\ c.root = call[p].root /\ c.found = call[p].found
        /\ c.sector = 0 /\ c.start = 0 /\ c.target = call[p].target
    BY <1>1, <1>2 DEF Calls, InodesOrNone
  <2>3. /\ w \in {"erase", "close_root"} /\ (c.op = "remove" <=> w = "erase")
        /\ c.op \in {"open", "remove", "load"}
    BY <1>2, <1>7, <2>2
  <2> HIDE DEF c, w
  <2>4. Shape(w, c, file[p], executable[p])
    <3>1. HasRoot(w, c)
      BY <2>3 DEF HasRoot, Making
    <3> QED
      BY <1>1, <1>2, <1>3, <1>7, <2>2, <2>3, <3>1
      DEF Shape, PlacesOf, Opening, Making, Closing, Leaving, Outside, Freeing
  <2>5. ASSUME NEW k \in Inodes PROVE Share(w, c, file[p], executable[p], k)
          = One(file[p], k) + One(executable[p], k) + One(call[p].root, k) + One(call[p].ino, k)
            + One(i, k)
    <3>1. w # "read"
      BY <2>3
    <3> HIDE DEF One
    <3> QED
      BY <1>2, <1>4, <1>5, <2>2, <3>1 DEF Share
  <2>6. Opens(p, i, w, c)
    BY <1>2, <1>7, <2>1, <2>2, <2>3, <2>4, <2>5 DEF Opens
  <2> QED
    BY <2>6
<1> QED
  BY <1>6, <1>7

LEMMA OpenedKnows ==
  ASSUME FileInv, NEW p \in Procs, NEW i \in Inodes, NEW w, NEW c, Opens(p, i, w, c),
         UNCHANGED <<dir, disk, file, executable>>,
         \A k \in Inodes : inode'[k].sector = inode[k].sector,
         inode[i].sector = call[p].target,
         call[p].op = "remove" /\ call[p].target # Root => InUse(call[p].name, call[p].target)
  PROVE  Knows(p)' /\ Sees(p)'
<1>1. Knows(p) /\ call[p] \in Calls /\ file[p] \in InodesOrNone /\ executable[p] \in InodesOrNone
  BY DEF FileInv, Knowing, Types
<1>2. pc'[p] = w /\ call'[p] = c
  BY DEF FileInv, Types, Opens
<1>3. w \in {"alloc", "lookup", "erase", "close_root"}
  BY DEF Opens
<1>4. /\ file[p] # 0 => inode'[file[p]].sector \in Sectors
      /\ executable[p] # 0 => inode'[executable[p]].sector \in Sectors
  BY <1>1 DEF Knows, InodesOrNone
<1>5. c.root # 0 => inode'[c.root].sector = Root
  BY <1>1 DEF Knows, Opens, Calls, InodesOrNone
<1>6. c.ino # 0 => inode'[c.ino].sector \in Sectors
  BY DEF Opens
<1>7. Root \notin Sectors
  BY FileSystemAssumption DEF Root, Sectors
<1>8. w = "erase" => InUse(c.name, inode'[c.ino].sector) 
  BY <1>7 DEF Opens
<1>10. Knows(p)'
  BY <1>2, <1>3, <1>4, <1>5, <1>6, <1>8 DEF Knows, Freeing, Opens, InUse
<1>11. Sees(p)'
  BY <1>2, <1>3 DEF Sees, Opening
<1> QED
  BY <1>10, <1>11

LEMMA NotOvertaken ==
  ASSUME NEW p, ~Overtaken(p), call[p].target # Root
  PROVE  InUse(call[p].name, call[p].target)
BY DEF Overtaken, InUse, Entry

LEMMA ReopenKeeps == ASSUME FileInv, NEW p \in Procs, Reopen(p), Sound' PROVE FileInv'
<1>1. pc[p] = "reopen" /\ pc[p] \notin Outside \cup Freeing
  BY DEF Reopen, At, Outside, Freeing
<1>2. /\ Shape(pc[p], call[p], file[p], executable[p]) /\ Knows(p) /\ call[p] \in Calls
      /\ call \in [Procs -> Calls] /\ inode \in [Inodes -> InodeRecords]
      /\ executable \in [Procs -> InodesOrNone] /\ ran \in [Inodes -> Nat]
  BY DEF FileInv, Shapes, Knowing, Types, InodeRecords
<1>3. PICK i \in Inodes : i = call[p].found
  BY <1>1, <1>2 DEF Shape, Calls, InodesOrNone
<1>4. inode[i].sector = call[p].target /\ inode[i].open_cnt > 0 /\ ~Overtaken(p)
  <2>1. ~raced'
    BY DEF Sound
  <2>2. inode[i].open_cnt \in Nat
    BY <1>2, <1>3 DEF InodeRecords
  <2>3. raced' = (inode[i].sector # call[p].target \/ inode[i].open_cnt = 0 \/ Overtaken(p))
    BY <1>3 DEF Reopen, Race
  <2>4. inode[i].sector = call[p].target /\ inode[i].open_cnt # 0 /\ ~Overtaken(p)
    BY <1>3, <2>1, <2>3
  <2> QED
    BY <2>2, <2>4
<1>5. PICK w, c : Opens(p, i, w, c)
  BY <1>1, <1>3, OpenedIs DEF Reopen
<1> DEFINE n == [inode[i] EXCEPT !.open_cnt = @ + 1]
<1>6. /\ n \in InodeRecords /\ n.sector = inode[i].sector /\ n.open_cnt = inode[i].open_cnt + 1
      /\ n.deny_write_cnt = inode[i].deny_write_cnt /\ n.removed = inode[i].removed
      /\ n.data = inode[i].data
  BY <1>2, <1>3 DEF InodeRecords
<1>7. inode' = [inode EXCEPT ![i] = n] /\ UNCHANGED <<onDisk, tables, lock_f, lost>>
  BY <1>2, <1>3 DEF Reopen, inode_reopen, InodeRecords
<1> HIDE DEF n
<1>8. inode'[i] = n /\ \A k \in Inodes : inode'[k].sector = inode[k].sector
  BY <1>2, <1>3, <1>6, <1>7
<1>9. UNCHANGED <<free_map, dir, disk, file, executable, ran, lost, lock_f>>
  BY <1>7 DEF onDisk, tables
<1>10. Knows(p)' /\ Sees(p)'
  <2>1. call[p].target # Root => InUse(call[p].name, call[p].target)
    BY <1>4, NotOvertaken
  <2> QED
    BY <1>3, <1>4, <1>5, <1>8, <1>9, <2>1, OpenedKnows
<1>11. InodeOK(i)'
  <2>1. InodeOK(i)
    BY <1>3 DEF FileInv, InodesOK
  <2>2. Named' = Named
    BY <1>9, NamedKept
  <2>3. n.sector # 0 /\ n.open_cnt # 0
    <3>1. inode[i].sector # 0
      BY <1>1, <1>2, <1>4, FileSystemAssumption DEF Shape, Opening, Root, Sectors
    <3>2. inode[i].open_cnt \in Nat
      BY <1>2, <1>3 DEF InodeRecords
    <3> QED
      BY <1>6, <3>1, <3>2
  <2>4. ASSUME NEW q \in Procs, pc[q] = "read", call[q].found = i
        PROVE  pc'[q] = "read" /\ call'[q].found = i
    <3>1. q # p
      BY <1>1, <2>4
    <3> QED
      BY <2>4, <3>1, <1>5 DEF Opens, FileInv, Types
  <2>5. NotRead(i)' => \E q \in Procs : pc'[q] = "read" /\ call'[q].found = i
    <3>1. NotRead(i)' => NotRead(i) /\ inode[i].sector # 0
      BY <1>6, <1>8, <2>3 DEF NotRead
    <3>2. NotRead(i) /\ inode[i].sector # 0 =>
            \E q \in Procs : pc[q] = "read" /\ call[q].found = i
      BY <2>1 DEF InodeOK
    <3> QED
      BY <2>4, <3>1, <3>2
  <2>6. NotRead(i)' <=> NotRead(i)
    BY <1>6, <1>8 DEF NotRead
  <2> QED
    BY <1>6, <1>8, <1>9, <2>1, <2>2, <2>3, <2>5, <2>6 DEF InodeOK
<1>12. ShareOf(p, i) \in Int /\ \A k \in Inodes : Share(w, c, file[p], executable[p], k)
                                              = ShareOf(p, k) + One(i, k)
  <2>1. \A j, k : One(j, k) \in Int
    BY DEF One
  <2>2. \A k \in Inodes : One(0, k) = 0
    BY DEF One, Inodes
  <2>3. \A k \in Inodes : ShareOf(p, k) = One(file[p], k) + One(executable[p], k)
                            + One(call[p].root, k) + One(call[p].ino, k) + One(0, k)
    BY <1>1 DEF ShareOf, Share
  <2>4. \A k \in Inodes : Share(w, c, file[p], executable[p], k)
       = One(file[p], k) + One(executable[p], k) + One(call[p].root, k) + One(call[p].ino, k)
         + One(i, k)
    BY <1>5 DEF Opens
  <2> HIDE DEF One, Share, ShareOf
  <2> QED
    BY <1>3, <2>1, <2>2, <2>3, <2>4
<1>13. /\ n.open_cnt + ShareOf(p, i) + ran[i]
           = inode[i].open_cnt + Share(w, c, file[p], executable'[p], i) + ran'[i]
       /\ n.deny_write_cnt + One(executable[p], i)
           = inode[i].deny_write_cnt + One(executable'[p], i)
       /\ \A k \in Inodes \ {i} :
           /\ ShareOf(p, k) = Share(w, c, file[p], executable'[p], k) /\ ran'[k] = ran[k]
           /\ One(executable[p], k) = One(executable'[p], k)
  <2>1. One(i, i) = 1 /\ \A k \in Inodes \ {i} : One(i, k) = 0
    BY DEF One
  <2>2. ran[i] \in Int /\ inode[i].open_cnt \in Int
    BY <1>2, <1>3 DEF InodeRecords
  <2>3. \A k \in Inodes : ShareOf(p, k) \in Int
    BY DEF ShareOf, Share, One
  <2>4. \A k \in Inodes : Share(w, c, file[p], executable'[p], k) = ShareOf(p, k) + One(i, k)
    BY <1>9, <1>12
  <2>5. Share(w, c, file[p], executable'[p], i) = ShareOf(p, i) + 1 /\ ShareOf(p, i) \in Int
    BY <1>3, <2>1, <2>3, <2>4
  <2> HIDE DEF One, Share, ShareOf
  <2>6. n.open_cnt + ShareOf(p, i) + ran[i]
           = inode[i].open_cnt + Share(w, c, file[p], executable'[p], i) + ran'[i]
    BY <1>6, <1>9, <2>2, <2>5
  <2>7. \A k \in Inodes \ {i} : ShareOf(p, k) = Share(w, c, file[p], executable'[p], k)
    <3> SUFFICES ASSUME NEW k \in Inodes \ {i}
                 PROVE  ShareOf(p, k) = Share(w, c, file[p], executable'[p], k)
      OBVIOUS
    <3>1. ShareOf(p, k) \in Int /\ One(i, k) = 0
      BY <2>1, <2>3
    <3> QED
      BY <2>4, <3>1
  <2> QED
    BY <1>6, <1>9, <2>6, <2>7
<1>14. /\ w \in Places /\ c \in Calls /\ w \notin Freeing /\ pc[p] # "read"
       /\ pc' = [pc EXCEPT ![p] = w] /\ call' = [call EXCEPT ![p] = c]
       /\ Shape(w, c, file[p], executable'[p]) /\ c.op = call[p].op /\ c.met = call[p].met
       /\ c.sector = 0 /\ c.start = 0
  BY <1>1, <1>5, <1>9 DEF Opens, Places, Making, Leaving, Freeing
<1>15. call[p].sector = 0 /\ call[p].start = 0
  BY <1>1, <1>2 DEF Shape, Making
<1>20. /\ executable' \in [Procs -> InodesOrNone] /\ ran' \in [Inodes -> Nat]
       /\ \A q \in Procs \ {p} : executable'[q] = executable[q]
       /\ UNCHANGED <<onDisk, lost, file>> /\ UNCHANGED lock_f
       /\ c.sector = call[p].sector /\ c.start = 0 /\ call[p].start = 0
       /\ pc[p] \notin Freeing /\ (pc[p] = "read" => call[p].found = i)
       /\ (w \in Freeing => c.found = i) /\ pc[p] \notin Outside
  BY <1>1, <1>2, <1>3, <1>4, <1>6, <1>7, <1>9, <1>14, <1>15
<1> QED
  BY <1>3, <1>4, <1>6, <1>7, <1>14, <1>20, <1>10, <1>11, <1>13, InodeStep

LEMMA ReadInodeKeeps == ASSUME FileInv, NEW p \in Procs, ReadInode(p) PROVE FileInv'
<1> DEFINE s == call[p].target
<1>1. pc[p] = "read" /\ pc[p] \notin Outside \cup Freeing
  BY DEF ReadInode, At, Outside, Freeing
<1>2. /\ Shape(pc[p], call[p], file[p], executable[p]) /\ Knows(p) /\ call[p] \in Calls
      /\ call \in [Procs -> Calls] /\ inode \in [Inodes -> InodeRecords]
      /\ executable \in [Procs -> InodesOrNone] /\ ran \in [Inodes -> Nat]
      /\ disk \in [Sectors -> DiskOf]
  BY DEF FileInv, Shapes, Knowing, Types, InodeRecords
<1>3. PICK i \in Inodes : i = call[p].found
  BY <1>1, <1>2 DEF Shape, Calls, InodesOrNone
<1>4. /\ inode[i].sector = s /\ s \in Sectors \cup {Root} /\ Root \notin Sectors /\ s # 0
      /\ inode[i].open_cnt > 0
  <2>1. inode[i].open_cnt > 0
    BY <1>1, <1>3, HeldIsOpen DEF FileInv
  <2>2. inode[i].sector = s /\ s \in Sectors \cup {Root}
    BY <1>1, <1>2, <1>3 DEF Knows, Shape, Opening
  <2> QED
    BY <2>1, <2>2, FileSystemAssumption DEF Root, Sectors
<1>5. PICK w, c : Opens(p, i, w, c)
  BY <1>1, <1>3, OpenedIs DEF ReadInode
<1> DEFINE d == IF s = Root THEN RootDisk ELSE disk[s]
           n == [inode[i] EXCEPT !.data = d]
<1>6. d \in DiskOf /\ d # Unread /\ (s # Root => d = disk[s])
  <2>1. CASE s = Root
    BY <2>1 DEF RootDisk, InodeDisk, DiskOf, Contents, Unread, Data
  <2>2. CASE s # Root
    <3>1. s \in OpenFiles
      BY <1>3, <1>4, <2>2 DEF OpenFiles
    <3>2. disk[s].data = "inode"
      BY <3>1 DEF FileInv, WholeFiles, Files
    <3> QED
      BY <1>2, <1>4, <2>2, <3>2 DEF Unread, Data
  <2> QED
    BY <2>1, <2>2
<1>7. inode' = [inode EXCEPT ![i] = n] /\ UNCHANGED <<onDisk, tables, lock_f, lost>>
  BY <1>2, <1>3 DEF ReadInode, InodeRecords
<1> HIDE DEF d
<1>8. /\ n \in InodeRecords /\ n.sector = inode[i].sector /\ n.open_cnt = inode[i].open_cnt
      /\ n.deny_write_cnt = inode[i].deny_write_cnt /\ n.removed = inode[i].removed
      /\ n.data = d
  BY <1>2, <1>3, <1>6 DEF InodeRecords
<1> HIDE DEF n, s
<1>9. inode'[i] = n /\ \A k \in Inodes : inode'[k].sector = inode[k].sector
  BY <1>2, <1>3, <1>7, <1>8
<1>10. UNCHANGED <<free_map, dir, disk, file, executable, ran, lost, lock_f>>
  BY <1>7 DEF onDisk, tables
<1>11. Knows(p)' /\ Sees(p)'
  <2>1. call[p].op = "remove" /\ call[p].target # Root => InUse(call[p].name, call[p].target)
    BY <1>1, <1>2 DEF Knows
  <2>2. inode[i].sector = call[p].target
    BY <1>4 DEF s
  <2> QED
    BY <1>3, <1>5, <1>9, <1>10, <2>1, <2>2, OpenedKnows
<1>12. InodeOK(i)'
  <2>1. InodeOK(i)
    BY <1>3 DEF FileInv, InodesOK
  <2>2. Named' = Named
    BY <1>10, NamedKept
  <2>3. n.open_cnt # 0
    <3>1. inode[i].open_cnt \in Nat
      BY <1>2, <1>3 DEF InodeRecords
    <3> QED
      BY <1>4, <1>8, <3>1
  <2>4. ~NotRead(i)'
    BY <1>6, <1>8, <1>9 DEF NotRead
  <2>5. n.sector # 0 /\ (n.sector \in Sectors => d = disk'[n.sector])
    BY <1>4, <1>6, <1>8, <1>10
  <2> QED
    BY <1>8, <1>9, <2>1, <2>2, <2>3, <2>4, <2>5 DEF InodeOK
<1>13. \A k \in Inodes : Share(w, c, file[p], executable[p], k) = ShareOf(p, k)
  <2>1. \A k \in Inodes : ShareOf(p, k) = One(file[p], k) + One(executable[p], k)
                            + One(call[p].root, k) + One(call[p].ino, k) + One(i, k)
    BY <1>1, <1>3 DEF ShareOf, Share
  <2> QED
    BY <1>5, <2>1 DEF Opens
<1>14. /\ n.open_cnt + ShareOf(p, i) + ran[i]
           = inode[i].open_cnt + Share(w, c, file[p], executable'[p], i) + ran'[i]
       /\ n.deny_write_cnt + One(executable[p], i)
           = inode[i].deny_write_cnt + One(executable'[p], i)
       /\ \A k \in Inodes \ {i} :
           /\ ShareOf(p, k) = Share(w, c, file[p], executable'[p], k) /\ ran'[k] = ran[k]
           /\ One(executable[p], k) = One(executable'[p], k)
  <2> HIDE DEF One, Share, ShareOf
  <2> QED
    BY <1>3, <1>8, <1>10, <1>13
<1>15. /\ w \in Places /\ c \in Calls /\ w \notin Freeing /\ call[p].found = i
       /\ pc' = [pc EXCEPT ![p] = w] /\ call' = [call EXCEPT ![p] = c]
       /\ Shape(w, c, file[p], executable'[p]) /\ c.op = call[p].op /\ c.met = call[p].met
       /\ c.sector = 0 /\ c.start = 0
  BY <1>1, <1>3, <1>5, <1>10 DEF Opens, Places, Making, Leaving, Freeing
<1>16. call[p].sector = 0 /\ call[p].start = 0
  BY <1>1, <1>2 DEF Shape, Making
<1>20. /\ executable' \in [Procs -> InodesOrNone] /\ ran' \in [Inodes -> Nat]
       /\ \A q \in Procs \ {p} : executable'[q] = executable[q]
       /\ UNCHANGED <<onDisk, lost, file>> /\ UNCHANGED lock_f
       /\ c.sector = call[p].sector /\ c.start = 0 /\ call[p].start = 0
       /\ pc[p] \notin Freeing /\ (pc[p] = "read" => call[p].found = i)
       /\ (w \in Freeing => c.found = i) /\ pc[p] \notin Outside
  BY <1>1, <1>2, <1>3, <1>4, <1>7, <1>8, <1>10, <1>15, <1>16
<1> QED
  BY <1>3, <1>4, <1>7, <1>8, <1>15, <1>20, <1>11, <1>12, <1>14, InodeStep

-----------------------------------------------------------------------------
(* inode_close(), of a file and of the root directory.                     *)

Drops(i) == inode' = [inode EXCEPT ![i].open_cnt = @ - 1]

(* p drops inode i, and goes on at w with call c. *)
DropStep(p, i, w, c) ==
  /\ pc[p] \in {"close", "close_root"} /\ i \in {call[p].ino, call[p].root}
  /\ pc' = [pc EXCEPT ![p] = w] /\ call' = [call EXCEPT ![p] = c]
  /\ Drops(i)
  /\ UNCHANGED <<onDisk, tables, lock_f, lost>>
  /\ w \in Freeing <=> LastOpener(i)
  /\ w = "free" => i = call[p].ino
  /\ w = "free_root" => i = call[p].root
  /\ c.op = call[p].op /\ c.met = call[p].met /\ c.found = i
  /\ c.sector = call[p].sector /\ c.start = 0 /\ call[p].start = 0 /\ call[p].sector = 0
  /\ c.root \in {0, call[p].root} /\ c.ino \in {0, call[p].ino}
  /\ \A k \in Inodes : One(c.root, k) + One(c.ino, k) + One(i, k)
                          = One(call[p].root, k) + One(call[p].ino, k)
  /\ Shape(w, c, file[p], executable[p])

LEMMA DropKeeps ==
  ASSUME FileInv, NEW p \in Procs, NEW i \in Inodes,
         NEW w \in {"free", "free_root", "close_root", "allow", "return", "loaded"}, NEW c \in Calls,
         DropStep(p, i, w, c)
  PROVE  FileInv'
<1> USE DEF DropStep
<1>1. pc[p] \notin Outside /\ pc[p] \notin Freeing /\ pc[p] # "read" /\ pc[p] \notin Opening
  BY DEF Outside, Freeing, Opening
<1>2. /\ Knows(p) /\ call[p] \in Calls /\ InodeOK(i)
      /\ call \in [Procs -> Calls] /\ inode \in [Inodes -> InodeRecords]
      /\ executable \in [Procs -> InodesOrNone] /\ ran \in [Inodes -> Nat]
      /\ file \in [Procs -> InodesOrNone] /\ pc \in [Procs -> Places]
  BY DEF FileInv, Knowing, Types, InodeRecords, InodesOK
<1>3. inode[i].open_cnt > 0 /\ inode[i].open_cnt \in Nat
  <2>1. call[p].ino = i \/ call[p].root = i
    OBVIOUS
  <2> QED
    BY <1>2, <2>1, HeldIsOpen DEF FileInv, InodeRecords
<1>4. PICK n \in InodeRecords :
        /\ n = [inode[i] EXCEPT !.open_cnt = @ - 1]
        /\ n.sector = inode[i].sector /\ n.open_cnt = inode[i].open_cnt - 1
        /\ n.deny_write_cnt = inode[i].deny_write_cnt /\ n.removed = inode[i].removed
        /\ n.data = inode[i].data
  <2> DEFINE m == [inode[i] EXCEPT !.open_cnt = @ - 1]
  <2>1. inode[i] \in InodeRecords /\ inode[i].open_cnt - 1 \in Nat
    BY <1>2, <1>3
  <2>2. /\ m \in InodeRecords /\ m.sector = inode[i].sector /\ m.open_cnt = inode[i].open_cnt - 1
        /\ m.deny_write_cnt = inode[i].deny_write_cnt /\ m.removed = inode[i].removed
        /\ m.data = inode[i].data
    BY <2>1 DEF InodeRecords
  <2> QED
    BY <2>2
<1>5. inode' = [inode EXCEPT ![i] = n] /\ inode'[i] = n
      /\ \A k \in Inodes : inode'[k].sector = inode[k].sector
  BY <1>2, <1>4 DEF Drops
<1>6. UNCHANGED <<free_map, dir, disk, file, executable, ran, lost, lock_f>>
  BY DEF onDisk, tables
<1>7. pc'[p] = w /\ call'[p] = c
  BY <1>2
<1>8. InodeOK(i)'
  <2>1. Named' = Named
    BY <1>6, NamedKept
  <2>2. NotRead(i)' <=> NotRead(i)
    BY <1>4, <1>5 DEF NotRead
  <2>3. n.open_cnt = 0 => w \in Freeing
    BY <1>3, <1>4 DEF LastOpener
  <2>4. n.open_cnt = 0 => \E q \in Procs : pc'[q] \in Freeing /\ call'[q].found = i
    BY <1>7, <2>3
  <2>5. ASSUME NEW q \in Procs, pc[q] = "read", call[q].found = i
        PROVE  pc'[q] = "read" /\ call'[q].found = i
    BY <1>1, <1>2, <2>5
  <2>6. n.sector # 0 /\ NotRead(i)' => \E q \in Procs : pc'[q] = "read" /\ call'[q].found = i
    <3>1. n.sector # 0 /\ NotRead(i)' => \E q \in Procs : pc[q] = "read" /\ call[q].found = i
      BY <1>2, <1>4, <2>2 DEF InodeOK
    <3> QED
      BY <2>5, <3>1
  <2>7. n.sector # 0
    <3>1. i # 0 /\ Root # 0 /\ 0 \notin Sectors
      BY FileSystemAssumption DEF Inodes, Root, Sectors
    <3>2. inode[i].sector \in Sectors \cup {Root}
      BY <1>2, <3>1 DEF Knows
    <3> QED
      BY <1>4, <3>1, <3>2
  <2> QED
    BY <1>2, <1>4, <1>5, <1>6, <2>1, <2>2, <2>4, <2>6, <2>7 DEF InodeOK
<1>9. Knows(p)'
  <2>1. /\ c.root # 0 => inode[c.root].sector = Root
        /\ c.ino # 0 => inode[c.ino].sector \in Sectors
        /\ file[p] # 0 => inode[file[p]].sector \in Sectors
        /\ executable[p] # 0 => inode[executable[p]].sector \in Sectors
    BY <1>2 DEF Knows
  <2>2. /\ c.root \in Inodes \cup {0} /\ c.ino \in Inodes \cup {0}
        /\ file[p] \in Inodes \cup {0} /\ executable[p] \in Inodes \cup {0}
    BY <1>2 DEF Calls, InodesOrNone
  <2>3. /\ c.root # 0 => inode'[c.root].sector = Root
        /\ c.ino # 0 => inode'[c.ino].sector \in Sectors
        /\ file[p] # 0 => inode'[file[p]].sector \in Sectors
        /\ executable[p] # 0 => inode'[executable[p]].sector \in Sectors
    BY <1>5, <2>1, <2>2
  <2>4. w \in Freeing => inode'[i].open_cnt = 0
    <3>1. LastOpener(i) => inode[i].open_cnt = 1
      BY DEF LastOpener
    <3>2. inode'[i].open_cnt = inode[i].open_cnt - 1
      BY <1>4, <1>5
    <3> QED
      BY <3>1, <3>2
  <2>5. (w = "free" => n.sector \in Sectors) /\ (w = "free_root" => n.sector = Root)
    <3>1. i # 0
      BY DEF Inodes
    <3> QED
      BY <1>2, <1>4, <3>1 DEF Knows
  <2>6. w \notin {"read", "erase", "zero", "add"}
    OBVIOUS
  <2> QED
    BY <1>5, <1>6, <1>7, <2>3, <2>4, <2>5, <2>6 DEF Knows
<1>10. Sees(p)'
  BY <1>7 DEF Sees, Opening
<1>11. \A k \in Inodes : ShareOf(p, k) = Share(w, c, file[p], executable[p], k) + One(i, k)
  <2>1. \A j, k : One(j, k) \in Int
    BY DEF One
  <2>2. \A k \in Inodes : One(0, k) = 0
    BY DEF One, Inodes
  <2> HIDE DEF One
  <2> SUFFICES ASSUME NEW k \in Inodes
               PROVE  ShareOf(p, k) = Share(w, c, file[p], executable[p], k) + One(i, k)
    OBVIOUS
  <2>3. One(c.root, k) + One(c.ino, k) + One(i, k) = One(call[p].root, k) + One(call[p].ino, k)
    OBVIOUS
  <2>4. Share(w, c, file[p], executable[p], k)
          = One(file[p], k) + One(executable[p], k) + One(c.root, k) + One(c.ino, k) + One(0, k)
    BY DEF Share
  <2>5. ShareOf(p, k) = One(file[p], k) + One(executable[p], k)
                          + One(call[p].root, k) + One(call[p].ino, k) + One(0, k)
    BY <1>1 DEF ShareOf, Share
  <2> QED
    BY <2>1, <2>3, <2>4, <2>5
<1>12. /\ n.open_cnt + ShareOf(p, i) + ran[i]
           = inode[i].open_cnt + Share(w, c, file[p], executable'[p], i) + ran'[i]
       /\ n.deny_write_cnt + One(executable[p], i)
           = inode[i].deny_write_cnt + One(executable'[p], i)
       /\ \A k \in Inodes \ {i} :
           /\ ShareOf(p, k) = Share(w, c, file[p], executable'[p], k) /\ ran'[k] = ran[k]
           /\ One(executable[p], k) = One(executable'[p], k)
  <2>1. One(i, i) = 1 /\ \A k \in Inodes \ {i} : One(i, k) = 0
    BY DEF One
  <2>2. ran[i] \in Int /\ inode[i].open_cnt \in Int
    BY <1>2, <1>3
  <2>3. \A k \in Inodes : Share(w, c, file[p], executable[p], k) \in Int
    BY DEF Share, One
  <2> HIDE DEF One, Share, ShareOf
  <2>4. ShareOf(p, i) = Share(w, c, file[p], executable[p], i) + 1
    BY <1>11, <2>1
  <2>5. Share(w, c, file[p], executable[p], i) \in Int
    BY <2>3
  <2>6. n.open_cnt + ShareOf(p, i) + ran[i]
           = inode[i].open_cnt + Share(w, c, file[p], executable'[p], i) + ran'[i]
    BY <1>4, <1>6, <2>2, <2>4, <2>5
  <2>7. \A k \in Inodes \ {i} : ShareOf(p, k) = Share(w, c, file[p], executable'[p], k)
    <3> SUFFICES ASSUME NEW k \in Inodes \ {i}
                 PROVE  ShareOf(p, k) = Share(w, c, file[p], executable'[p], k)
      OBVIOUS
    <3>1. Share(w, c, file[p], executable[p], k) \in Int /\ One(i, k) = 0
      BY <2>1, <2>3
    <3> QED
      BY <1>6, <1>11, <3>1
  <2> QED
    BY <1>4, <1>6, <2>6, <2>7
<1>13. /\ executable' \in [Procs -> InodesOrNone] /\ ran' \in [Inodes -> Nat]
       /\ \A q \in Procs \ {p} : executable'[q] = executable[q]
       /\ UNCHANGED <<onDisk, lost, file>> /\ UNCHANGED lock_f
       /\ w \in Places /\ Shape(w, c, file[p], executable'[p])
       /\ (pc[p] = "read" => call[p].found = i) /\ (w \in Freeing => c.found = i)
  BY <1>1, <1>2, <1>6 DEF Places, Freeing, Leaving, Closing, onDisk, tables
<1>14. n.sector = inode[i].sector /\ inode[i].open_cnt > 0 /\ c.sector = call[p].sector
       /\ pc[p] \notin Outside /\ pc[p] \notin Freeing
       /\ c.op = call[p].op /\ c.met = call[p].met
       /\ pc' = [pc EXCEPT ![p] = w] /\ call' = [call EXCEPT ![p] = c]
       /\ inode' = [inode EXCEPT ![i] = n]
  BY <1>1, <1>3, <1>4, <1>5
<1> QED
  BY <1>8, <1>9, <1>10, <1>12, <1>13, <1>14, InodeStep, ZenonT(100)

LEMMA CloseInodeKeeps == ASSUME FileInv, NEW p \in Procs, CloseInode(p) PROVE FileInv'
<1>1. pc[p] = "close"
  BY DEF CloseInode, At
<1>2. /\ Shape(pc[p], call[p], file[p], executable[p]) /\ call[p] \in Calls
      /\ call \in [Procs -> Calls]
  BY DEF FileInv, Shapes, Types
<1>3. PICK i \in Inodes : i = call[p].ino
  BY <1>1, <1>2 DEF Shape, Calls, InodesOrNone
<1> DEFINE c == [call[p] EXCEPT !.ino = 0, !.found = i]
           w == IF LastOpener(i) THEN "free" ELSE AfterClose(call[p].op)
<1>4. /\ pc' = [pc EXCEPT ![p] = w] /\ call' = [call EXCEPT ![p] = c]
      /\ Drops(i) /\ UNCHANGED <<onDisk, tables, lock_f, lost>>
  BY <1>2, <1>3 DEF CloseInode, Goto, Drops
<1>5. /\ c \in Calls /\ c.op = call[p].op /\ c.met = call[p].met /\ c.root = call[p].root
      /\ c.ino = 0 /\ c.sector = call[p].sector /\ c.start = call[p].start
      /\ c.target = call[p].target /\ c.found = i /\ c.name = call[p].name
  BY <1>2 DEF Calls, InodesOrNone
<1>6. /\ call[p].op \in {"remove", "close", "exit"} /\ call[p].start = 0 /\ call[p].sector = 0
      /\ call[p].root # 0 <=> call[p].op = "remove"
  BY <1>1, <1>2 DEF Shape, PlacesOf, HasRoot, Making, Opening, Leaving, Outside, Closing, Calls, Ops
<1>7. w \in {"free", "close_root", "allow", "return"} /\ (w = "free" <=> LastOpener(i))
      /\ (w = "close_root" => call[p].op = "remove") /\ (w = "allow" => call[p].op = "exit")
      /\ (w = "return" => call[p].op = "close")
  BY <1>6 DEF AfterClose
<1> HIDE DEF c, w
<1>8. Shape(w, c, file[p], executable[p])
  <2>1. HasRoot(w, c) <=> c.op = "remove"
    BY <1>5, <1>6, <1>7 DEF HasRoot, Making, Opening, Closing
  <2>2. i # 0
    BY DEF Inodes
  <2> QED
    BY <1>1, <1>2, <1>5, <1>6, <1>7, <2>1, <2>2
    DEF Shape, PlacesOf, Making, Opening, Leaving, Outside, Closing, Freeing
<1>9. \A k \in Inodes : One(c.root, k) + One(c.ino, k) + One(i, k)
                          = One(call[p].root, k) + One(call[p].ino, k)
  <2>1. \A j, k : One(j, k) \in Int
    BY DEF One
  <2>2. \A k \in Inodes : One(0, k) = 0
    BY DEF One, Inodes
  <2> HIDE DEF One
  <2> QED
    BY <1>3, <1>5, <2>1, <2>2
<1>10. w \in Freeing <=> LastOpener(i)
  BY <1>7 DEF Freeing
<1>11. /\ pc[p] \in {"close", "close_root"} /\ i \in {call[p].ino, call[p].root}
       /\ w \in {"free", "free_root", "close_root", "allow", "return", "loaded"} /\ c \in Calls
       /\ (w = "free" => i = call[p].ino) /\ (w = "free_root" => i = call[p].root)
       /\ c.start = 0 /\ c.root \in {0, call[p].root} /\ c.ino \in {0, call[p].ino}
       /\ c.op = call[p].op /\ c.met = call[p].met /\ c.found = i /\ c.sector = call[p].sector
       /\ call[p].start = 0 /\ call[p].sector = 0
  BY <1>1, <1>3, <1>5, <1>6, <1>7
<1>12. DropStep(p, i, w, c)
  BY <1>4, <1>8, <1>9, <1>10, <1>11 DEF DropStep
<1> QED
  BY <1>11, <1>12, DropKeeps

LEMMA CloseRootKeeps == ASSUME FileInv, NEW p \in Procs, CloseRoot(p) PROVE FileInv'
<1>1. pc[p] = "close_root"
  BY DEF CloseRoot, At
<1>2. /\ Shape(pc[p], call[p], file[p], executable[p]) /\ call[p] \in Calls
      /\ call \in [Procs -> Calls]
  BY DEF FileInv, Shapes, Types
<1>3. PICK i \in Inodes : i = call[p].root
  BY <1>1, <1>2 DEF Shape, HasRoot, Calls, InodesOrNone
<1> DEFINE c == [call[p] EXCEPT !.root = 0, !.found = i]
           w == IF LastOpener(i) THEN "free_root" ELSE AfterRoot(p)
<1>4. /\ pc' = [pc EXCEPT ![p] = w] /\ call' = [call EXCEPT ![p] = c]
      /\ Drops(i) /\ UNCHANGED <<onDisk, tables, lock_f, lost>>
  BY <1>2, <1>3 DEF CloseRoot, Goto, Drops
<1>5. /\ c \in Calls /\ c.op = call[p].op /\ c.met = call[p].met /\ c.root = 0
      /\ c.ino = call[p].ino /\ c.sector = call[p].sector /\ c.start = call[p].start
      /\ c.target = call[p].target /\ c.found = i /\ c.name = call[p].name
  BY <1>2 DEF Calls, InodesOrNone
<1>6. /\ call[p].op \in {"create", "open", "remove", "load"} /\ call[p].start = 0
      /\ call[p].sector = 0 /\ (call[p].ino # 0 => call[p].op \in {"open", "load"})
  BY <1>1, <1>2 DEF Shape, PlacesOf, HasRoot, Making, Opening, Leaving, Outside, Closing, Calls, Ops
<1>7. w \in {"free_root", "loaded", "return"} /\ (w = "free_root" <=> LastOpener(i))
      /\ (w = "loaded" => call[p].op = "load") /\ (w = "return" => call[p].op # "load")
  BY <1>6 DEF AfterRoot
<1> HIDE DEF c, w
<1>8. Shape(w, c, file[p], executable[p])
  <2>1. ~HasRoot(w, c)
    BY <1>5, <1>6, <1>7 DEF HasRoot, Making, Opening, Closing
  <2>2. i # 0
    BY DEF Inodes
  <2> QED
    BY <1>1, <1>2, <1>5, <1>6, <1>7, <2>1, <2>2
    DEF Shape, PlacesOf, Making, Opening, Leaving, Outside, Closing, Freeing
<1>9. \A k \in Inodes : One(c.root, k) + One(c.ino, k) + One(i, k)
                          = One(call[p].root, k) + One(call[p].ino, k)
  <2>1. \A j, k : One(j, k) \in Int
    BY DEF One
  <2>2. \A k \in Inodes : One(0, k) = 0
    BY DEF One, Inodes
  <2> HIDE DEF One
  <2> QED
    BY <1>3, <1>5, <2>1, <2>2
<1>10. w \in Freeing <=> LastOpener(i)
  BY <1>7 DEF Freeing
<1>11. /\ pc[p] \in {"close", "close_root"} /\ i \in {call[p].ino, call[p].root}
       /\ w \in {"free", "free_root", "close_root", "allow", "return", "loaded"} /\ c \in Calls
       /\ (w = "free" => i = call[p].ino) /\ (w = "free_root" => i = call[p].root)
       /\ c.start = 0 /\ c.root \in {0, call[p].root} /\ c.ino \in {0, call[p].ino}
       /\ c.op = call[p].op /\ c.met = call[p].met /\ c.found = i /\ c.sector = call[p].sector
       /\ call[p].start = 0 /\ call[p].sector = 0
  BY <1>1, <1>3, <1>5, <1>6, <1>7
<1>12. DropStep(p, i, w, c)
  BY <1>4, <1>8, <1>9, <1>10, <1>11 DEF DropStep
<1> QED
  BY <1>11, <1>12, DropKeeps

-----------------------------------------------------------------------------
(* A program is loaded, and ends.                                          *)

LEMMA DeniedIs ==
  ASSUME FileInv, NEW p \in Procs, NEW i \in Inodes, executable[p] = i
  PROVE  inode[i].deny_write_cnt > 0
<1>1. Cardinality(With(executable, i)) > 0
  BY WithMoves
<1> QED
  BY <1>1 DEF FileInv, Counted, With

LEMMA DenyWriteKeeps == ASSUME FileInv, NEW p \in Procs, DenyWrite(p) PROVE FileInv'
<1>1. pc[p] = "loaded" /\ pc[p] \notin Outside \cup {"read"} \cup Freeing
  BY DEF DenyWrite, At, Outside, Freeing
<1>2. /\ Shape(pc[p], call[p], file[p], executable[p]) /\ Knows(p) /\ call[p] \in Calls
      /\ call \in [Procs -> Calls] /\ inode \in [Inodes -> InodeRecords]
      /\ executable \in [Procs -> InodesOrNone] /\ ran \in [Inodes -> Nat]
      /\ file \in [Procs -> InodesOrNone] /\ pc \in [Procs -> Places]
  BY DEF FileInv, Shapes, Knowing, Types, InodeRecords
<1>3. /\ call[p].op = "load" /\ call[p].start = 0 /\ call[p].sector = 0 /\ call[p].root = 0
      /\ file[p] = 0 /\ executable[p] = 0 /\ call[p].ino \in InodesOrNone
  BY <1>1, <1>2
  DEF Shape, PlacesOf, HasRoot, Making, Opening, Leaving, Outside, Closing, Calls, Ops
<1>4. /\ call' = [call EXCEPT ![p] = NoCall] /\ call'[p] = NoCall
      /\ UNCHANGED <<onDisk, file, ran, lock_f, lost>>
  BY <1>2 DEF DenyWrite
<1>5. CASE call[p].ino = 0
  <2>1. /\ pc' = [pc EXCEPT ![p] = "not_loaded"] /\ pc'[p] = "not_loaded"
        /\ UNCHANGED <<inode, executable>>
    BY <1>2, <1>5 DEF DenyWrite, Goto
  <2>2. Shape("not_loaded", NoCall, file[p], executable[p])
    <3>1. ~HasRoot("not_loaded", NoCall)
      BY DEF HasRoot, Making, Opening, Closing
    <3> QED
      BY <1>3, <3>1, NoCallIs DEF Shape, PlacesOf, Making, Opening, Leaving, Outside, Closing, Freeing
  <2>3. Knows(p)'
    BY <1>3, <1>4, <2>1, NoCallIs DEF Knows, Freeing
  <2>4. Sees(p)'
    BY <2>1 DEF Sees, Opening
  <2>5. /\ "not_loaded" \in Places /\ "not_loaded" \notin {"read"} \cup Freeing
        /\ file' \in [Procs -> InodesOrNone] /\ \A q \in Procs \ {p} : file'[q] = file[q]
        /\ NoCall.op = "none" /\ UNCHANGED lock_f
        /\ UNCHANGED <<onDisk, inode, executable, ran, lost>>
        /\ NoCall.root = call[p].root /\ NoCall.sector = call[p].sector
        /\ NoCall.start = 0 /\ call[p].start = 0 /\ NoCall \in Calls
        /\ Shape("not_loaded", NoCall, file'[p], executable[p])
    BY <1>2, <1>3, <1>4, <2>1, <2>2, NoCallIs DEF Places, Outside, Freeing
  <2>6. \A i \in Inodes :
          One(NoCall.ino, i) + One(file'[p], i) = One(call[p].ino, i) + One(file[p], i)
    BY <1>4, <1>5, NoCallIs
  <2> QED
    BY <1>1, <1>4, <2>1, <2>3, <2>4, <2>5, <2>6, QuietStep, ZenonT(100)
<1>6. CASE call[p].ino # 0
  <2>1. PICK i \in Inodes : i = call[p].ino
    BY <1>3, <1>6 DEF InodesOrNone
  <2>2. inode[i].open_cnt > 0 /\ inode[i] \in InodeRecords /\ inode[i].sector \in Sectors
    BY <1>2, <1>6, <2>1, HeldIsOpen DEF FileInv, Knows
  <2>3. PICK n \in InodeRecords :
        /\ n = [inode[i] EXCEPT !.deny_write_cnt = @ + 1]
        /\ n.sector = inode[i].sector /\ n.open_cnt = inode[i].open_cnt
        /\ n.deny_write_cnt = inode[i].deny_write_cnt + 1 /\ n.removed = inode[i].removed
        /\ n.data = inode[i].data
    <3> DEFINE m == [inode[i] EXCEPT !.deny_write_cnt = @ + 1]
    <3>1. /\ m \in InodeRecords
          /\ m.sector = inode[i].sector /\ m.open_cnt = inode[i].open_cnt
          /\ m.deny_write_cnt = inode[i].deny_write_cnt + 1 /\ m.removed = inode[i].removed
          /\ m.data = inode[i].data
      BY <2>2 DEF InodeRecords
    <3> QED
      BY <3>1
  <2>4. /\ pc' = [pc EXCEPT ![p] = "user"] /\ pc'[p] = "user"
        /\ executable' = [executable EXCEPT ![p] = i]
        /\ inode' = [inode EXCEPT ![i] = n] /\ inode'[i] = n
    BY <1>2, <1>6, <2>1, <2>3 DEF DenyWrite, Goto
  <2>5. Shape("user", NoCall, file[p], executable'[p])
    <3>1. ~HasRoot("user", NoCall)
      BY DEF HasRoot, Making, Opening, Closing
    <3> QED
      BY <3>1, NoCallIs DEF Shape, PlacesOf, Making, Opening, Leaving, Outside, Closing, Freeing
  <2>6. InodeOK(i)'
    <3>1. InodeOK(i) /\ Named' = Named
      BY <1>4, NamedKept DEF FileInv, InodesOK, onDisk
    <3>2. NotRead(i)' <=> NotRead(i)
      BY <2>3, <2>4 DEF NotRead
    <3>3. \A q \in Procs : pc[q] = "read" => pc'[q] = "read" /\ call'[q].found = call[q].found
      BY <1>1, <1>2, <1>4, <2>4
    <3>4. n.open_cnt # 0 /\ n.sector # 0 /\ n.sector # Root
      BY <2>2, <2>3, FileSystemAssumption DEF InodeRecords, Sectors, Root
    <3>5. NotRead(i)' => \E q \in Procs : pc'[q] = "read" /\ call'[q].found = i
      BY <2>3, <3>1, <3>2, <3>3, <3>4 DEF InodeOK
    <3> QED
      BY <1>4, <2>3, <2>4, <3>1, <3>2, <3>4, <3>5 DEF InodeOK, onDisk
  <2>7. Knows(p)'
    <3>1. executable'[p] = i
      BY <1>2, <2>4
    <3> QED
      BY <1>3, <1>4, <2>2, <2>3, <2>4, <3>1, NoCallIs DEF Knows, Freeing
  <2>8. Sees(p)'
    BY <2>4 DEF Sees, Opening
  <2>9. \A k \in Inodes : ShareOf(p, k) = Share("user", NoCall, file[p], executable'[p], k)
    <3>1. executable'[p] = i
      BY <1>2, <2>4
    <3>2. \A j, k : One(j, k) \in Int
      BY DEF One
    <3>3. \A k : ShareOf(p, k) = One(0, k) + One(0, k) + One(0, k) + One(i, k) + One(0, k)
      BY <1>1, <1>3, <2>1 DEF ShareOf, Share
    <3>4. \A k : Share("user", NoCall, file[p], executable'[p], k)
                   = One(0, k) + One(i, k) + One(0, k) + One(0, k) + One(0, k)
      BY <1>3, <3>1, NoCallIs DEF Share
    <3> HIDE DEF One
    <3> QED
      BY <3>2, <3>3, <3>4
  <2>10. /\ n.open_cnt + ShareOf(p, i) + ran[i]
             = inode[i].open_cnt + Share("user", NoCall, file[p], executable'[p], i) + ran'[i]
         /\ n.deny_write_cnt + One(executable[p], i)
             = inode[i].deny_write_cnt + One(executable'[p], i)
         /\ \A k \in Inodes \ {i} :
             /\ ShareOf(p, k) = Share("user", NoCall, file[p], executable'[p], k)
             /\ ran'[k] = ran[k] /\ One(executable[p], k) = One(executable'[p], k)
    <3>1. executable'[p] = i /\ \A k \in Inodes : One(0, k) = 0
      BY <1>2, <2>4 DEF One, Inodes
    <3>2. One(i, i) = 1 /\ \A k \in Inodes \ {i} : One(i, k) = 0
      BY DEF One
    <3>3. inode[i].deny_write_cnt \in Nat
      BY <2>2 DEF InodeRecords
    <3> HIDE DEF One, Share, ShareOf
    <3> QED
      BY <1>3, <1>4, <2>3, <2>9, <3>1, <3>2, <3>3
  <2>11. /\ "user" \in Places /\ NoCall \in Calls /\ n.sector = inode[i].sector
         /\ executable' \in [Procs -> InodesOrNone] /\ ran' \in [Inodes -> Nat]
         /\ \A q \in Procs \ {p} : executable'[q] = executable[q]
         /\ UNCHANGED <<onDisk, lost, file>>
         /\ NoCall.sector = call[p].sector /\ NoCall.start = 0
         /\ call[p].start = 0 /\ pc[p] \notin Freeing /\ pc[p] \notin Outside
         /\ (pc[p] = "read" => call[p].found = i) /\ ("user" \in Freeing => NoCall.found = i)
    BY <1>1, <1>2, <1>3, <1>4, <2>1, <2>3, <2>4, NoCallIs DEF Places, Outside, Freeing, InodesOrNone
  <2>12. \/ NoCall.op = call[p].op /\ NoCall.met = call[p].met /\ UNCHANGED lock_f
         \/ /\ NoCall.op = "none"
            /\ UNCHANGED lock_f \/ call[p].op \notin {"none", "load"}
    BY <1>4, NoCallIs
  <2>13. /\ pc' = [pc EXCEPT ![p] = "user"] /\ call' = [call EXCEPT ![p] = NoCall]
         /\ inode' = [inode EXCEPT ![i] = n] /\ inode[i].open_cnt > 0
    BY <1>4, <2>2, <2>4
  <2> QED
    BY <2>5, <2>6, <2>7, <2>8, <2>10, <2>11, <2>12, <2>13, InodeStep, ZenonT(100)
<1> QED
  BY <1>5, <1>6

LEMMA AllowWriteKeeps == ASSUME FileInv, NEW p \in Procs, AllowWrite(p) PROVE FileInv'
<1>1. pc[p] = "allow" /\ pc[p] \notin Outside \cup {"read"} \cup Freeing
  BY DEF AllowWrite, At, Outside, Freeing
<1>2. /\ Shape(pc[p], call[p], file[p], executable[p]) /\ Knows(p) /\ call[p] \in Calls
      /\ call \in [Procs -> Calls] /\ inode \in [Inodes -> InodeRecords]
      /\ executable \in [Procs -> InodesOrNone] /\ ran \in [Inodes -> Nat]
      /\ file \in [Procs -> InodesOrNone] /\ pc \in [Procs -> Places]
  BY DEF FileInv, Shapes, Knowing, Types, InodeRecords
<1>3. /\ call[p].op = "exit" /\ call[p].start = 0 /\ call[p].sector = 0 /\ call[p].root = 0
      /\ file[p] = 0 /\ executable[p] \in InodesOrNone /\ call[p].ino = 0
  BY <1>1, <1>2
  DEF Shape, PlacesOf, HasRoot, Making, Opening, Leaving, Outside, Closing, Calls, Ops
<1>4. /\ call' = [call EXCEPT ![p] = NoCall] /\ call'[p] = NoCall
      /\ pc' = [pc EXCEPT ![p] = "new"] /\ pc'[p] = "new"
      /\ UNCHANGED <<onDisk, file, lost>>
  BY <1>2 DEF AllowWrite, Goto
<1>5. ~HasRoot("new", NoCall)
  BY DEF HasRoot, Making, Opening, Closing
<1>6. Sees(p)'
  BY <1>4 DEF Sees, Opening
<1>7. CASE executable[p] = 0
  <2>1. UNCHANGED <<inode, executable, ran>>
    BY <1>7 DEF AllowWrite
  <2>2. Shape("new", NoCall, file[p], executable[p])
    BY <1>3, <1>5, <1>7, NoCallIs
    DEF Shape, PlacesOf, Making, Opening, Leaving, Outside, Closing, Freeing
  <2>3. Knows(p)'
    BY <1>3, <1>4, <1>7, <2>1, NoCallIs DEF Knows, Freeing
  <2>4. /\ "new" \in Places /\ "new" \notin {"read"} \cup Freeing
        /\ file' \in [Procs -> InodesOrNone] /\ \A q \in Procs \ {p} : file'[q] = file[q]
        /\ NoCall.op = "none" /\ call[p].op \notin {"none", "load"}
        /\ UNCHANGED <<onDisk, inode, executable, ran, lost>>
        /\ NoCall.root = call[p].root /\ NoCall.sector = call[p].sector
        /\ NoCall.start = 0 /\ call[p].start = 0 /\ NoCall \in Calls
        /\ Shape("new", NoCall, file'[p], executable[p])
    BY <1>2, <1>3, <1>4, <2>1, <2>2, NoCallIs DEF Places, Outside, Freeing
  <2>5. \A i \in Inodes :
          One(NoCall.ino, i) + One(file'[p], i) = One(call[p].ino, i) + One(file[p], i)
    BY <1>3, <1>4, NoCallIs
  <2> QED
    BY <1>1, <1>4, <1>6, <2>3, <2>4, <2>5, QuietStep, ZenonT(100)
<1>8. CASE executable[p] # 0
  <2>1. PICK i \in Inodes : i = executable[p]
    BY <1>3, <1>8 DEF InodesOrNone
  <2>2. /\ inode[i].open_cnt > 0 /\ inode[i] \in InodeRecords /\ inode[i].sector \in Sectors
        /\ inode[i].deny_write_cnt > 0
    BY <1>2, <1>8, <2>1, HeldIsOpen, DeniedIs DEF FileInv, Knows
  <2>3. PICK n \in InodeRecords :
        /\ n = [inode[i] EXCEPT !.deny_write_cnt = @ - 1]
        /\ n.sector = inode[i].sector /\ n.open_cnt = inode[i].open_cnt
        /\ n.deny_write_cnt = inode[i].deny_write_cnt - 1 /\ n.removed = inode[i].removed
        /\ n.data = inode[i].data
    <3> DEFINE m == [inode[i] EXCEPT !.deny_write_cnt = @ - 1]
    <3>1. /\ m \in InodeRecords
          /\ m.sector = inode[i].sector /\ m.open_cnt = inode[i].open_cnt
          /\ m.deny_write_cnt = inode[i].deny_write_cnt - 1 /\ m.removed = inode[i].removed
          /\ m.data = inode[i].data
      BY <2>2 DEF InodeRecords
    <3> QED
      BY <3>1
  <2>4. /\ executable' = [executable EXCEPT ![p] = 0] /\ ran' = [ran EXCEPT ![i] = @ + 1]
        /\ inode' = [inode EXCEPT ![i] = n] /\ inode'[i] = n
    BY <1>2, <1>8, <2>1, <2>3 DEF AllowWrite, Allowed
  <2>4a. executable'[p] = 0 /\ ran'[i] = ran[i] + 1 /\ \A k \in Inodes \ {i} : ran'[k] = ran[k]
    BY <1>2, <2>4
  <2>5. Shape("new", NoCall, file[p], executable'[p])
    BY <1>3, <1>5, <2>4a, NoCallIs
    DEF Shape, PlacesOf, Making, Opening, Leaving, Outside, Closing, Freeing
  <2>6. InodeOK(i)'
    <3>1. InodeOK(i) /\ Named' = Named
      BY <1>4, NamedKept DEF FileInv, InodesOK, onDisk
    <3>2. NotRead(i)' <=> NotRead(i)
      BY <2>3, <2>4 DEF NotRead
    <3>3. \A q \in Procs : pc[q] = "read" => pc'[q] = "read" /\ call'[q].found = call[q].found
      BY <1>1, <1>2, <1>4, <2>4
    <3>4. n.open_cnt # 0 /\ n.sector # 0 /\ n.sector # Root
      BY <2>2, <2>3, FileSystemAssumption DEF InodeRecords, Sectors, Root
    <3>5. NotRead(i)' => \E q \in Procs : pc'[q] = "read" /\ call'[q].found = i
      BY <2>3, <3>1, <3>2, <3>3, <3>4 DEF InodeOK
    <3> QED
      BY <1>4, <2>3, <2>4, <3>1, <3>2, <3>4, <3>5 DEF InodeOK, onDisk
  <2>7. Knows(p)'
    BY <1>3, <1>4, <2>4a, NoCallIs DEF Knows, Freeing
  <2>8. \A k \in Inodes : ShareOf(p, k) = One(i, k) + 4 * One(0, k)
                          /\ Share("new", NoCall, file[p], executable'[p], k) = 5 * One(0, k)
    <3>1. \A j, k : One(j, k) \in Int
      BY DEF One
    <3>2. \A k : ShareOf(p, k) = One(0, k) + One(i, k) + One(0, k) + One(0, k) + One(0, k)
      BY <1>1, <1>3, <2>1 DEF ShareOf, Share
    <3>3. \A k : Share("new", NoCall, file[p], executable'[p], k)
                   = One(0, k) + One(0, k) + One(0, k) + One(0, k) + One(0, k)
      BY <1>3, <2>4a, NoCallIs DEF Share
    <3> HIDE DEF One
    <3> QED
      BY <3>1, <3>2, <3>3
  <2>9. /\ n.open_cnt + ShareOf(p, i) + ran[i]
             = inode[i].open_cnt + Share("new", NoCall, file[p], executable'[p], i) + ran'[i]
         /\ n.deny_write_cnt + One(executable[p], i)
             = inode[i].deny_write_cnt + One(executable'[p], i)
         /\ \A k \in Inodes \ {i} :
             /\ ShareOf(p, k) = Share("new", NoCall, file[p], executable'[p], k)
             /\ ran'[k] = ran[k] /\ One(executable[p], k) = One(executable'[p], k)
    <3>1. \A k \in Inodes : One(0, k) = 0
      BY DEF One, Inodes
    <3>2. One(i, i) = 1 /\ \A k \in Inodes \ {i} : One(i, k) = 0
      BY DEF One
    <3>3. inode[i].deny_write_cnt \in Nat /\ ran[i] \in Nat /\ inode[i].open_cnt \in Nat
      BY <1>2, <2>2 DEF InodeRecords
    <3> HIDE DEF One, Share, ShareOf
    <3> QED
      BY <2>1, <2>3, <2>4a, <2>8, <3>1, <3>2, <3>3
  <2>10. /\ "new" \in Places /\ NoCall \in Calls /\ n.sector = inode[i].sector
         /\ executable' \in [Procs -> InodesOrNone] /\ ran' \in [Inodes -> Nat]
         /\ \A q \in Procs \ {p} : executable'[q] = executable[q]
         /\ UNCHANGED <<onDisk, lost, file>> /\ call[p].op \notin {"none", "load"}
         /\ NoCall.op = "none" /\ NoCall.sector = call[p].sector /\ NoCall.start = 0
         /\ call[p].start = 0 /\ pc[p] \notin Freeing /\ pc[p] \notin Outside
         /\ (pc[p] = "read" => call[p].found = i) /\ ("new" \in Freeing => NoCall.found = i)
    BY <1>1, <1>2, <1>3, <1>4, <2>1, <2>3, <2>4, NoCallIs DEF Places, Outside, Freeing, InodesOrNone
  <2> QED
    BY <1>4, <1>6, <2>2, <2>4, <2>5, <2>6, <2>7, <2>9, <2>10, InodeStep, ZenonT(100)
<1> QED
  BY <1>7, <1>8

-----------------------------------------------------------------------------
(* An inode enters the list, and leaves it.                                *)

LEMMA UsedIsListed ==
  ASSUME FileInv, NEW q \in Procs, NEW i \in Inodes, Uses(q, i)
  PROVE  inode[i].sector # 0
<1>1. Knows(q) /\ Shape(pc[q], call[q], file[q], executable[q])
  BY DEF FileInv, Knowing, Shapes
<1>2. i # 0 /\ Root # 0 /\ 0 \notin Sectors
  BY FileSystemAssumption DEF Inodes, Root, Sectors
<1>3. CASE i \in {call[q].root, call[q].ino, file[q], executable[q]}
  BY <1>1, <1>2, <1>3 DEF Knows
<1>4. CASE pc[q] \in {"read"} \cup Freeing /\ call[q].found = i
  <2>1. pc[q] = "read" => call[q].target \in Sectors \cup {Root}
    BY <1>1 DEF Shape, Opening
  <2> QED
    BY <1>1, <1>2, <1>4, <2>1 DEF Knows, Freeing
<1> QED
  BY <1>3, <1>4 DEF Uses

LEMMA PushKeeps == ASSUME FileInv, NEW p \in Procs, Push(p), Sound' PROVE FileInv'
<1>1. pc[p] = "push" /\ pc[p] \notin Outside \cup Freeing
  BY DEF Push, At, Outside, Freeing
<1>2. /\ Shape(pc[p], call[p], file[p], executable[p]) /\ Knows(p) /\ call[p] \in Calls
      /\ call \in [Procs -> Calls] /\ inode \in [Inodes -> InodeRecords]
      /\ executable \in [Procs -> InodesOrNone] /\ ran \in [Inodes -> Nat]
      /\ file \in [Procs -> InodesOrNone] /\ pc \in [Procs -> Places]
  BY DEF FileInv, Shapes, Knowing, Types, InodeRecords
<1> DEFINE free == {k \in Inodes : inode[k].sector = 0}
<1>3. PICK i \in free : i = CHOOSE k \in free : \A j \in free : k <= j
  <2>1. free # {} /\ free \in SUBSET Nat
    BY DEF Push, Inodes
  <2>2. \E k \in free : \A j \in free : k <= j
    BY <2>1, LeastIs
  <2> QED
    BY <2>2
<1>4. i \in Inodes /\ inode[i] = FreeInode /\ inode[i].sector = 0
  BY <1>3 DEF FileInv, InodesOK, InodeOK
<1>5. ~Overtaken(p) /\ \A j \in Inodes : inode[j].sector # call[p].target
  <2>1. ~raced'
    BY DEF Sound
  <2>2. raced' = (Overtaken(p) \/ \E j \in Inodes : inode[j].sector = call[p].target)
    BY DEF Push, Race
  <2> QED
    BY <2>1, <2>2
<1>6. /\ inode' = [inode EXCEPT ![i].sector = call[p].target, ![i].open_cnt = 1]
      /\ call' = [call EXCEPT ![p].found = i] /\ pc' = [pc EXCEPT ![p] = "read"]
      /\ UNCHANGED <<onDisk, tables, lock_f, lost>>
  BY <1>3 DEF Push, Goto
<1> HIDE DEF free
<1>7. /\ call[p].start = 0 /\ call[p].sector = 0 /\ call[p].target \in Sectors \cup {Root}
      /\ call[p].op \in {"create", "open", "remove", "load"} /\ call[p].ino = 0
  BY <1>1, <1>2
  DEF Shape, PlacesOf, Making, Leaving, Opening, Closing, Outside, Calls, Ops
<1>8. Root \notin Sectors /\ 0 \notin Sectors /\ Root # 0 /\ i # 0
  BY <1>4, FileSystemAssumption DEF Sectors, Root, Inodes
<1>9. PICK n \in InodeRecords :
        /\ n.sector = call[p].target /\ n.open_cnt = 1 /\ n.deny_write_cnt = 0
        /\ n.removed = FALSE /\ n.data = Unread /\ inode' = [inode EXCEPT ![i] = n]
  <2> DEFINE m == [inode[i] EXCEPT !.sector = call[p].target, !.open_cnt = 1]
  <2>1. inode[i] \in InodeRecords
    BY <1>2, <1>4
  <2>1b. FreeInode.deny_write_cnt = 0 /\ FreeInode.removed = FALSE /\ FreeInode.data = Unread
    BY DEF FreeInode
  <2>1a. \A r \in InodeRecords, s \in Sectors \cup {0, Root} :
          LET q == [r EXCEPT !.sector = s, !.open_cnt = 1]
          IN /\ q \in InodeRecords /\ q.sector = s /\ q.open_cnt = 1
             /\ q.deny_write_cnt = r.deny_write_cnt /\ q.removed = r.removed /\ q.data = r.data
    BY DEF InodeRecords
  <2>2. /\ m.sector = call[p].target /\ m.open_cnt = 1 /\ m.deny_write_cnt = 0
        /\ m.removed = FALSE /\ m.data = Unread /\ m \in InodeRecords
    <3>0. call[p].target \in Sectors \cup {0, Root}
      BY <1>7
    <3>1. /\ m.sector = call[p].target /\ m.open_cnt = 1 /\ m \in InodeRecords
          /\ m.deny_write_cnt = inode[i].deny_write_cnt /\ m.removed = inode[i].removed
          /\ m.data = inode[i].data
      BY <3>0, <2>1, <2>1a, Zenon
    <3> HIDE DEF m
    <3> QED
      BY <1>4, <2>1b, <3>1
  <2>3. inode' = [inode EXCEPT ![i] = m]
    BY <1>2, <1>4, <1>6
  <2> QED
    BY <2>2, <2>3
<1> DEFINE c == [call[p] EXCEPT !.found = i]
<1>10. /\ c \in Calls /\ c.op = call[p].op /\ c.met = call[p].met /\ c.root = call[p].root
       /\ c.ino = call[p].ino /\ c.sector = call[p].sector /\ c.start = call[p].start
       /\ c.target = call[p].target /\ c.found = i /\ c.name = call[p].name
  BY <1>2, <1>4 DEF Calls, InodesOrNone
<1>11. call' = [call EXCEPT ![p] = c] /\ pc' = [pc EXCEPT ![p] = "read"]
  BY <1>2, <1>6
<1> HIDE DEF c
<1>12. UNCHANGED <<free_map, dir, disk, file, executable, ran, lost, lock_f>>
  BY <1>6 DEF onDisk, tables
<1>13. "read" \in Places
  BY DEF Places, Opening
<1>14. Moves(p) /\ pc'[p] = "read" /\ call'[p] = c /\ call' \in [Procs -> Calls] /\ pc' \in [Procs -> Places]
  BY <1>10, <1>11, <1>12, <1>13, Local DEF FileInv
<1>15. inode'[i] = n /\ inode' \in [Inodes -> InodeRecords] /\ \A k \in Inodes \ {i} : inode'[k] = inode[k]
  BY <1>2, <1>4, <1>9
<1>16. Types'
  BY <1>12, <1>14, <1>15 DEF FileInv, Types, InodeRecords
<1>17. Shape("read", c, file[p], executable[p])
  <2>1. HasRoot("read", c) <=> HasRoot("push", call[p])
    BY <1>10 DEF HasRoot, Opening, Making, Closing
  <2> QED
    BY <1>1, <1>2, <1>7, <1>8, <1>10, <2>1
    DEF Shape, PlacesOf, Opening, Making, Closing, Leaving, Outside, Freeing
<1>18. Shape(pc[p], call[p], file[p], executable[p])'
  BY <1>12, <1>14, <1>17
<1>19. call[p].target # Root => InUse(call[p].name, call[p].target) /\ call[p].target \in Named
  <2>1. call[p].target # Root => InUse(call[p].name, call[p].target)
    BY <1>5, NotOvertaken
  <2>2. ASSUME NEW e \in Entries, dir[e] = Entry(call[p].name, call[p].target),
               call[p].target # Root
        PROVE  call[p].target \in Named
    BY <1>7, <1>8, <2>2 DEF Named, Entry
  <2> QED
    BY <2>1, <2>2 DEF InUse
<1>20. Named' = Named /\ Files' = Files
  <2>1. Named' = Named
    BY <1>12, NamedKept
  <2>2. \A s : s \in OpenFiles' <=> s \in OpenFiles \/ (s = call[p].target /\ s # Root)
    <3>1. \A s : s \in OpenFiles' <=> s \notin {0, Root} /\ \E k \in Inodes : s = inode'[k].sector
      BY DEF OpenFiles
    <3>2. \A s : s \in OpenFiles <=> s \notin {0, Root} /\ \E k \in Inodes : s = inode[k].sector
      BY DEF OpenFiles
    <3>3. \A s : (\E k \in Inodes : s = inode'[k].sector)
               <=> s = call[p].target \/ (\E k \in Inodes \ {i} : s = inode[k].sector)
      BY <1>4, <1>9, <1>15
    <3> QED
      BY <1>4, <1>7, <1>8, <3>1, <3>2, <3>3
  <2>3. \A s : s \in Files' <=> s \in Files
    BY <1>19, <2>1, <2>2 DEF Files
  <2> QED
    BY <2>1, <2>3
<1>21. WholeFiles' /\ Accounts'
  <2>1. \A q \in Procs : OfCall(q)' = OfCall(q)
    BY <1>7, <1>10, <1>14, OfCallKept
  <2> QED
    BY <1>12, <1>20, <2>1, FilesKept
<1>22. InodeOK(i)'
  <2>1. n.sector \in Sectors => n.sector \in Named'
    BY <1>8, <1>9, <1>19, <1>20
  <2>2. \E q \in Procs : pc'[q] = "read" /\ call'[q].found = i
    BY <1>10, <1>14
  <2>3. n.sector # 0 /\ NotRead(i)'
    BY <1>7, <1>8, <1>9, <1>15 DEF NotRead
  <2> QED
    BY <1>9, <1>15, <2>1, <2>2, <2>3 DEF InodeOK
<1>23. InodesOK'
  <2>1. \A k \in Inodes \ {i} : inode[k].sector = 0 \/ inode[k].sector # inode'[i].sector
    BY <1>5, <1>9, <1>15
  <2>2. pc[p] \notin {"read"} \cup Freeing
    BY <1>1
  <2> QED
    BY <1>4, <1>12, <1>14, <1>15, <1>20, <1>22, <2>1, <2>2, InodesKept
<1>24. OneFrees' /\ DirOK'
  <2>1. "read" \notin Freeing
    BY DEF Freeing
  <2>2. OneFrees'
    BY <1>14, <2>1, OneFreesKept
  <2> QED
    BY <1>12, <2>2 DEF FileInv, DirOK
<1>25. \A q \in Procs \ {p}, k \in Inodes : Uses(q, k) =>
           /\ inode'[k].sector = inode[k].sector
           /\ pc[q] \in Freeing => inode'[k].open_cnt = 0 \/ inode[k].open_cnt > 0
  <2>1. \A q \in Procs, k \in Inodes : Uses(q, k) => k # i
    BY <1>4, UsedIsListed
  <2>2. \A k \in Inodes : inode[k].open_cnt \in Nat
    BY <1>2 DEF InodeRecords
  <2> QED
    BY <1>15, <2>1, <2>2
<1>26. Knows(p)'
  <2>1. file[p] # 0 => inode'[file[p]].sector \in Sectors
    BY <1>2, <1>4, <1>8, <1>15 DEF Knows, InodesOrNone
  <2>2. executable[p] # 0 => inode'[executable[p]].sector \in Sectors
    BY <1>2, <1>4, <1>8, <1>15 DEF Knows, InodesOrNone
  <2>3. c.root # 0 => inode'[c.root].sector = Root
    BY <1>2, <1>4, <1>8, <1>10, <1>15 DEF Knows, Calls, InodesOrNone
  <2> QED
    BY <1>7, <1>9, <1>10, <1>12, <1>14, <1>15, <1>19, <2>1, <2>2, <2>3
    DEF Knows, Freeing, InUse
<1>27. Sees(p)'
  BY <1>10, <1>12, <1>14, <1>19 DEF Sees, InUse
<1>28. \A k \in Inodes :
           /\ inode'[k].open_cnt + ShareOf(p, k) + ran[k]
                = inode[k].open_cnt + ShareOf(p, k)' + ran'[k]
           /\ inode'[k].deny_write_cnt + One(executable[p], k)
                = inode[k].deny_write_cnt + One(executable'[p], k)
  <2> SUFFICES ASSUME NEW k \in Inodes
      PROVE  /\ inode'[k].open_cnt + ShareOf(p, k) + ran[k]
                = inode[k].open_cnt + ShareOf(p, k)' + ran'[k]
             /\ inode'[k].deny_write_cnt + One(executable[p], k)
                = inode[k].deny_write_cnt + One(executable'[p], k)
    OBVIOUS
  <2>1. \A j : One(j, k) \in Int
    BY DEF One
  <2>2. ShareOf(p, k) = One(file[p], k) + One(executable[p], k) + One(call[p].root, k)
                          + One(call[p].ino, k) + One(0, k)
    BY <1>1 DEF ShareOf, Share
  <2>3. ShareOf(p, k)' = One(file[p], k) + One(executable[p], k) + One(call[p].root, k)
                          + One(call[p].ino, k) + One(i, k)
    BY <1>10, <1>12, <1>14 DEF ShareOf, Share
  <2>4. One(0, k) = 0 /\ One(i, k) = (IF k = i THEN 1 ELSE 0)
    BY DEF One, Inodes
  <2>5. ran[k] \in Int /\ inode[k].open_cnt \in Int /\ inode[k].deny_write_cnt \in Int
    BY <1>2 DEF InodeRecords
  <2>6. inode'[k].open_cnt = inode[k].open_cnt + (IF k = i THEN 1 ELSE 0)
        /\ inode'[k].deny_write_cnt = inode[k].deny_write_cnt
    BY <1>4, <1>9, <1>15, <2>5 DEF FreeInode
  <2> HIDE DEF One, ShareOf
  <2> QED
    BY <1>12, <2>1, <2>2, <2>3, <2>4, <2>5, <2>6
<1>29. call'[p].op = call[p].op /\ call'[p].met = call[p].met /\ UNCHANGED lock_f
       /\ UNCHANGED <<dir, disk>> /\ pc[p] \notin Outside
  BY <1>1, <1>10, <1>12, <1>14
<1> QED
  BY <1>14, <1>16, <1>18, <1>21, <1>23, <1>24, <1>25, <1>26, <1>27, <1>28, <1>29, StepKeeps

\* What the last opener frees nobody else has.
LEMMA FreedIsUnused ==
  ASSUME FileInv, NEW p \in Procs, pc[p] \in Freeing, NEW i \in Inodes, i = call[p].found
  PROVE  /\ inode[i].open_cnt = 0 /\ inode[i].deny_write_cnt = 0 /\ inode[i].sector # 0
         /\ \A q \in Procs \ {p} : ~Uses(q, i)
         /\ i \notin {call[p].root, call[p].ino, file[p], executable[p]}
         /\ ~NotRead(i)
<1>1. inode[i].open_cnt = 0
  BY DEF FileInv, Knowing, Knows
<1>2. \A q \in Procs : /\ i \notin {call[q].root, call[q].ino, file[q], executable[q]}
                       /\ ~(pc[q] = "read" /\ call[q].found = i)
  BY <1>1, HeldIsOpen DEF FileInv
<1>3. \A q \in Procs \ {p} : ~Uses(q, i)
  BY <1>2 DEF Uses, FileInv, OneFrees
<1>4. inode[i].deny_write_cnt = 0
  <2>1. {q \in Procs : executable[q] = i} = {}
    BY <1>2
  <2> QED
    BY <2>1, FS_EmptySet DEF FileInv, Counted
<1>5. inode[i].sector # 0
  <2>1. Uses(p, i)
    BY DEF Uses
  <2> QED
    BY <2>1, UsedIsListed
<1>6. ~NotRead(i)
  BY <1>2, <1>5 DEF FileInv, InodesOK, InodeOK
<1> QED
  BY <1>1, <1>2, <1>3, <1>4, <1>5, <1>6

LEMMA UnlistKeeps ==
  ASSUME FileInv, NEW p \in Procs, pc[p] \in Freeing, NEW i \in Inodes, i = call[p].found,
         NEW w \in Places, w \notin {"read"} \cup Freeing, NEW c \in Calls,
         pc' = [pc EXCEPT ![p] = w], call' = [call EXCEPT ![p] = c],
         inode' = [inode EXCEPT ![i] = FreeInode],
         UNCHANGED <<dir, disk, tables, lock_f>>, free_map' \subseteq Sectors,
         Shape(w, c, file[p], executable[p]),
         c.op = call[p].op, c.met = call[p].met, c.root = call[p].root, c.ino = call[p].ino,
         c.sector = call[p].sector, call[p].sector = 0,
         w \notin {"erase", "zero", "add", "write"} \cup Opening,
         WholeFiles', Accounts'
  PROVE  FileInv'
<1>1. pc[p] \notin Outside /\ pc[p] # "read"
  BY DEF Outside, Freeing
<1>2. /\ Knows(p) /\ call[p] \in Calls
      /\ call \in [Procs -> Calls] /\ inode \in [Inodes -> InodeRecords]
      /\ executable \in [Procs -> InodesOrNone] /\ ran \in [Inodes -> Nat]
      /\ file \in [Procs -> InodesOrNone] /\ pc \in [Procs -> Places]
  BY DEF FileInv, Knowing, Types, InodeRecords
<1>3. /\ inode[i].open_cnt = 0 /\ inode[i].deny_write_cnt = 0
      /\ \A q \in Procs \ {p} : ~Uses(q, i)
      /\ i \notin {call[p].root, call[p].ino, file[p], executable[p]}
  BY FreedIsUnused
<1>4. UNCHANGED <<dir, disk, file, executable, ran, lock_f>>
  BY DEF tables
<1>5. Moves(p) /\ pc'[p] = w /\ call'[p] = c /\ call' \in [Procs -> Calls] /\ pc' \in [Procs -> Places]
  BY <1>4, Local DEF FileInv
<1>6. FreeInode \in InodeRecords /\ FreeInode.sector = 0 /\ FreeInode.open_cnt = 0
      /\ FreeInode.deny_write_cnt = 0
  BY DEF FreeInode, InodeRecords, Unread, Data, DiskOf, Contents
<1>7. inode'[i] = FreeInode /\ inode' \in [Inodes -> InodeRecords]
      /\ \A k \in Inodes \ {i} : inode'[k] = inode[k]
  BY <1>2, <1>6
<1>8. Types'
  BY <1>4, <1>5, <1>7 DEF FileInv, Types, InodeRecords
<1>9. Named' = Named
  BY <1>4, NamedKept
<1>10. InodesOK'
  <2>1. InodeOK(i)'
    <3>1. 0 \notin Sectors /\ Root # 0
      BY FileSystemAssumption DEF Sectors, Root
    <3> QED
      BY <1>6, <1>7, <3>1 DEF InodeOK
  <2>2. \A k \in Inodes \ {i} : inode[k].sector = 0 \/ inode[k].sector # inode'[i].sector
    BY <1>6, <1>7
  <2> QED
    BY <1>4, <1>5, <1>7, <1>9, <2>1, <2>2, InodesKept
<1>11. OneFrees' /\ DirOK'
  <2>1. OneFrees'
    BY <1>5, OneFreesKept
  <2> QED
    BY <1>4, <2>1 DEF FileInv, DirOK
<1>12. \A q \in Procs \ {p}, k \in Inodes : Uses(q, k) =>
           /\ inode'[k].sector = inode[k].sector
           /\ pc[q] \in Freeing => inode'[k].open_cnt = 0 \/ inode[k].open_cnt > 0
  <2>1. \A k \in Inodes : inode[k].open_cnt \in Nat
    BY <1>2 DEF InodeRecords
  <2> QED
    BY <1>3, <1>7, <2>1
<1>13. Knows(p)'
  <2>1. file[p] # 0 => inode'[file[p]].sector \in Sectors
    BY <1>2, <1>3, <1>7 DEF Knows, InodesOrNone
  <2>2. executable[p] # 0 => inode'[executable[p]].sector \in Sectors
    BY <1>2, <1>3, <1>7 DEF Knows, InodesOrNone
  <2>3. c.root # 0 => inode'[c.root].sector = Root
    BY <1>2, <1>3, <1>7 DEF Knows, Calls, InodesOrNone
  <2>4. c.ino # 0 => inode'[c.ino].sector \in Sectors
    BY <1>2, <1>3, <1>7 DEF Knows, Calls, InodesOrNone
  <2> QED
    BY <1>4, <1>5, <2>1, <2>2, <2>3, <2>4 DEF Knows, Freeing
<1>14. Sees(p)'
  BY <1>5 DEF Sees, Opening
<1>15. \A k \in Inodes :
           /\ inode'[k].open_cnt + ShareOf(p, k) + ran[k]
                = inode[k].open_cnt + ShareOf(p, k)' + ran'[k]
           /\ inode'[k].deny_write_cnt + One(executable[p], k)
                = inode[k].deny_write_cnt + One(executable'[p], k)
  <2>1. \A k : ShareOf(p, k)' = ShareOf(p, k)
    BY <1>1, <1>4, <1>5 DEF ShareOf, Share
  <2>2. \A k \in Inodes : inode'[k].open_cnt = inode[k].open_cnt
                          /\ inode'[k].deny_write_cnt = inode[k].deny_write_cnt
    BY <1>3, <1>6, <1>7
  <2> QED
    BY <1>4, <2>1, <2>2
<1>16. Shape(pc[p], call[p], file[p], executable[p])'
  BY <1>4, <1>5
<1>17. call'[p].op = call[p].op /\ call'[p].met = call[p].met /\ UNCHANGED lock_f
       /\ UNCHANGED <<dir, disk>>
  BY <1>4, <1>5
<1> QED
  BY <1>1, <1>5, <1>8, <1>10, <1>11, <1>12, <1>13, <1>14, <1>15, <1>16, <1>17, StepKeeps

LEMMA UnlistedFiles ==
  ASSUME FileInv, NEW i \in Inodes, inode' = [inode EXCEPT ![i] = FreeInode]
  PROVE  OpenFiles' = OpenFiles \ {inode[i].sector}
<1>1. /\ OpensShared /\ inode \in [Inodes -> InodeRecords]
  BY DEF FileInv, InodesOK, Types, InodeRecords
<1>2. inode'[i].sector = 0 /\ \A k \in Inodes \ {i} : inode'[k] = inode[k]
  BY <1>1 DEF FreeInode
<1>3. \A s : s \in OpenFiles' <=> s \notin {0, Root} /\ \E k \in Inodes : s = inode'[k].sector
  BY DEF OpenFiles
<1>4. \A s : s \in OpenFiles <=> s \notin {0, Root} /\ \E k \in Inodes : s = inode[k].sector
  BY DEF OpenFiles
<1> QED
  BY <1>1, <1>2, <1>3, <1>4 DEF OpensShared

\* Of the calls only that of the holder of lock_f holds sectors.
LEMMA OthersHoldNothing ==
  ASSUME FileInv, NEW p \in Procs, Moves(p), call[p].op \notin {"none", "load"}
  PROVE  \A q \in Procs \ {p} : OfCall(q) = {} /\ OfCall(q)' = {}
<1> SUFFICES ASSUME NEW q \in Procs \ {p} PROVE OfCall(q) = {} /\ OfCall(q)' = {}
  OBVIOUS
<1>1. call[q].op \in {"none", "load"}
  BY DEF FileInv, Solo
<1>2. Shape(pc[q], call[q], file[q], executable[q])
  BY DEF FileInv, Shapes
<1>3. call[q].sector = 0 /\ call[q].start = 0
  BY <1>1, <1>2 DEF Shape, PlacesOf, Opening, Leaving, Outside, Making
<1>4. call'[q].sector = 0 /\ call'[q].start = 0
  BY <1>3 DEF Moves, Alike
<1> QED
  BY <1>3, <1>4 DEF OfCall, Held

LEMMA AccountsOf ==
  ASSUME NEW p \in Procs, \A q \in Procs \ {p} : OfCall(q)' = {},
         \A t \in Sectors : t \in free_map' <=> \/ t \in lost'
                                                \/ \E f \in Files' : t \in OfFile(f)'
                                                \/ t \in OfCall(p)',
         \A s \in Files' : OfFile(s)' \subseteq free_map',
         OfCall(p)' \subseteq free_map', lost' \subseteq free_map',
         \A s, t \in Files' : s # t => OfFile(s)' \cap OfFile(t)' = {},
         \A s \in Files' : OfFile(s)' \cap lost' = {} /\ OfFile(s)' \cap OfCall(p)' = {},
         OfCall(p)' \cap lost' = {}
  PROVE  Accounts'
<1>1. \A t : (\E q \in Procs : t \in OfCall(q)') <=> t \in OfCall(p)'
  OBVIOUS
<1>2. \A q \in Procs : OfCall(q)' = {} \/ q = p
  OBVIOUS
<1> QED
  BY <1>1, <1>2 DEF Accounts

LEMMA FreeRootKeeps == ASSUME FileInv, NEW p \in Procs, FreeRoot(p) PROVE FileInv'
<1>1. pc[p] = "free_root" /\ pc[p] \in Freeing
  BY DEF FreeRoot, At, Freeing
<1>2. /\ Shape(pc[p], call[p], file[p], executable[p]) /\ Knows(p) /\ call[p] \in Calls
      /\ call \in [Procs -> Calls] /\ pc \in [Procs -> Places] /\ free_map \subseteq Sectors
  BY DEF FileInv, Shapes, Knowing, Types
<1>3. PICK i \in Inodes : i = call[p].found
  BY <1>1, <1>2 DEF Shape, Calls, InodesOrNone, Freeing
<1>4. PICK w \in {"loaded", "return"} : w = AfterRoot(p)
  BY DEF AfterRoot
<1>5. /\ inode' = [inode EXCEPT ![i] = FreeInode] /\ pc' = [pc EXCEPT ![p] = w]
      /\ UNCHANGED <<onDisk, call, tables, lock_f, lost>>
  BY <1>3, <1>4 DEF FreeRoot, Goto
<1>6. call' = [call EXCEPT ![p] = call[p]]
  BY <1>2, <1>5
<1>7. /\ call[p].op \in {"create", "open", "remove", "load"}
      /\ call[p].start = 0 /\ call[p].sector = 0 /\ call[p].root = 0
  BY <1>1, <1>2
  DEF Shape, PlacesOf, Making, Leaving, Opening, Closing, Outside, Calls, Ops, HasRoot
<1>8. Shape(w, call[p], file[p], executable[p])
  <2>1. ~HasRoot(w, call[p])
    BY DEF HasRoot, Opening, Making, Closing
  <2>2. w = IF call[p].op = "load" THEN "loaded" ELSE "return"
    BY <1>4 DEF AfterRoot
  <2> QED
    BY <1>1, <1>2, <1>7, <2>1, <2>2
    DEF Shape, PlacesOf, Opening, Making, Closing, Leaving, Outside, Freeing
<1>9. WholeFiles' /\ Accounts'
  <2>1. inode[i].sector = Root
    BY <1>1, <1>2, <1>3 DEF Knows
  <2>2. OpenFiles' = OpenFiles
    <3>1. Root \notin OpenFiles
      BY DEF OpenFiles
    <3> QED
      BY <1>5, <2>1, <3>1, UnlistedFiles
  <2>3. Files' = Files
    BY <1>5, <2>2, NamedKept DEF Files, onDisk
  <2>4. \A q \in Procs : OfCall(q)' = OfCall(q)
    BY <1>5 DEF OfCall, Held
  <2> QED
    BY <1>5, <2>3, <2>4, FilesKept DEF onDisk
<1>10. /\ w \in Places /\ w \notin {"read"} \cup Freeing
       /\ w \notin {"erase", "zero", "add", "write"} \cup Opening
  BY DEF Places, Freeing, Opening
<1>11. UNCHANGED <<dir, disk, tables, lock_f>> /\ free_map' \subseteq Sectors
  BY <1>2, <1>5 DEF onDisk
<1> QED
  BY <1>1, <1>2, <1>3, <1>5, <1>6, <1>7, <1>8, <1>9, <1>10, <1>11, UnlistKeeps

\* What an inode has in memory that the last opener frees.
LEMMA FreedFile ==
  ASSUME FileInv, NEW p \in Procs, pc[p] = "free", NEW i \in Inodes, i = call[p].found,
         NEW s, s = inode[i].sector
  PROVE  /\ s \in Sectors /\ s \in OpenFiles /\ inode[i].data = disk[s]
         /\ inode[i].removed <=> s \notin Named
<1>1. s \in Sectors /\ pc[p] \in Freeing
  BY DEF FileInv, Knowing, Knows, Freeing
<1>2. ~NotRead(i)
  BY <1>1, FreedIsUnused
<1>3. s \notin {0, Root}
  BY <1>1, FileSystemAssumption DEF Sectors, Root
<1> QED
  BY <1>1, <1>2, <1>3 DEF FileInv, InodesOK, InodeOK, OpenFiles

LEMMA FreeInoKeeps == ASSUME FileInv, NEW p \in Procs, FreeIno(p) PROVE FileInv'
<1>1. pc[p] = "free" /\ pc[p] \in Freeing
  BY DEF FreeIno, At, Freeing
<1>2. /\ Shape(pc[p], call[p], file[p], executable[p]) /\ Knows(p) /\ call[p] \in Calls
      /\ call \in [Procs -> Calls] /\ pc \in [Procs -> Places] /\ free_map \subseteq Sectors
      /\ inode \in [Inodes -> InodeRecords] /\ disk \in [Sectors -> DiskOf]
  BY DEF FileInv, Shapes, Knowing, Types, InodeRecords
<1>3. PICK i \in Inodes : i = call[p].found
  BY <1>1, <1>2 DEF Shape, Calls, InodesOrNone, Freeing
<1>4. PICK s \in Sectors : s = inode[i].sector
  BY <1>1, <1>3, FreedFile
<1>5. /\ s \in OpenFiles /\ inode[i].data = disk[s] /\ (inode[i].removed <=> s \notin Named)
      /\ s \in Files
  BY <1>1, <1>3, <1>4, FreedFile DEF Files
<1>6. /\ call[p].op \in {"remove", "close", "exit"}
      /\ call[p].start = 0 /\ call[p].sector = 0 /\ call[p].ino = 0
      /\ (call[p].root # 0 <=> call[p].op = "remove")
  BY <1>1, <1>2
  DEF FileInv, Types, Shape, PlacesOf, Making, Leaving, Opening, Closing, Outside, Calls, Ops, HasRoot
<1>7. /\ inode' = [inode EXCEPT ![i] = FreeInode]
      /\ UNCHANGED <<dir, disk, tables, lock_f, lost>>
  BY <1>3 DEF FreeIno
<1>8. OpenFiles' = OpenFiles \ {s} /\ Named' = Named
  BY <1>4, <1>7, UnlistedFiles, NamedKept
<1>9. CASE ~inode[i].removed
  <2>1. PICK w \in {"close_root", "allow", "return"} : w = AfterClose(call[p].op)
    BY DEF AfterClose
  <2>2. pc' = [pc EXCEPT ![p] = w] /\ UNCHANGED <<free_map, call>>
    BY <1>3, <1>9, <2>1 DEF FreeIno, Goto
  <2>3. call' = [call EXCEPT ![p] = call[p]]
    BY <1>2, <2>2
  <2>4. w = CASE call[p].op = "remove" -> "close_root" [] call[p].op = "exit" -> "allow"
              [] OTHER -> "return"
    BY <2>1 DEF AfterClose
  <2>5. HasRoot(w, call[p]) <=> call[p].op = "remove"
    BY <1>6, <2>4 DEF HasRoot, Opening, Making, Closing
  <2>6. Shape(w, call[p], file[p], executable[p])
    BY <1>1, <1>2, <1>6, <2>4, <2>5
    DEF Shape, PlacesOf, Opening, Making, Closing, Leaving, Outside, Freeing
  <2>7. WholeFiles' /\ Accounts'
    <3>1. Files' = Files
      BY <1>5, <1>8, <1>9 DEF Files
    <3>2. \A q \in Procs : OfCall(q)' = OfCall(q)
      BY <2>2 DEF OfCall, Held
    <3> QED
      BY <1>7, <2>2, <3>1, <3>2, FilesKept
  <2>8. /\ w \in Places /\ w \notin {"read"} \cup Freeing
        /\ w \notin {"erase", "zero", "add", "write"} \cup Opening
    BY DEF Places, Freeing, Opening, Leaving
  <2>9. UNCHANGED <<dir, disk, tables, lock_f>> /\ free_map' \subseteq Sectors
    BY <1>2, <1>7, <2>2
  <2> QED
    BY <1>1, <1>2, <1>3, <1>6, <1>7, <2>2, <2>3, <2>6, <2>7, <2>8, <2>9, UnlistKeeps
<1>10. CASE inode[i].removed
  <2>1. WholeFiles /\ Accounts
    BY DEF FileInv
  <2>2. disk[s].start \in Sectors /\ disk[s].length \in Nat /\ s \notin Extent(disk[s])
        /\ disk[s] \in DiskOf
    BY <1>2, <1>5, <2>1 DEF WholeFiles, DiskOf
  <2>3. PICK c \in Calls :
          /\ call' = [call EXCEPT ![p] = c]
          /\ c.start = disk[s].start /\ c.length = disk[s].length /\ c.op = call[p].op
          /\ c.met = call[p].met /\ c.root = call[p].root /\ c.ino = call[p].ino
          /\ c.sector = call[p].sector /\ c.name = call[p].name /\ c.target = call[p].target
    <3>1. \A r \in Calls, a \in Sectors, l \in Nat :
              [r EXCEPT !.start = a, !.length = l] \in Calls
      BY DEF Calls
    <3> DEFINE c == [call[p] EXCEPT !.start = disk[s].start, !.length = disk[s].length]
    <3>2. call' = [call EXCEPT ![p].start = disk[s].start, ![p].length = disk[s].length]
      BY <1>3, <1>5, <1>10 DEF FreeIno
    <3>3. call' = [call EXCEPT ![p] = c]
      BY <1>2, <3>2
    <3>4. /\ c \in Calls /\ c.start = disk[s].start /\ c.length = disk[s].length
          /\ c.op = call[p].op /\ c.met = call[p].met /\ c.root = call[p].root
          /\ c.ino = call[p].ino /\ c.sector = call[p].sector /\ c.name = call[p].name
          /\ c.target = call[p].target
      <4>1. c \in Calls
        <5>1. call[p] \in Calls /\ disk[s].start \in Sectors /\ disk[s].length \in Nat
          BY <1>2, <2>2
        <5> QED
          BY <3>1, <5>1, Zenon
      <4>2. /\ c.start = disk[s].start /\ c.length = disk[s].length
            /\ c.op = call[p].op /\ c.met = call[p].met /\ c.root = call[p].root
            /\ c.ino = call[p].ino /\ c.sector = call[p].sector /\ c.name = call[p].name
            /\ c.target = call[p].target
        BY <1>2 DEF Calls
      <4> QED
        BY <4>1, <4>2
    <3> HIDE DEF c
    <3> QED
      BY <3>3, <3>4
  <2>4. pc' = [pc EXCEPT ![p] = "free_data"] /\ free_map' = free_map \ {s}
    BY <1>3, <1>4, <1>10 DEF FreeIno, Goto
  <2>5. UNCHANGED <<file, executable>>
    BY <1>7 DEF tables
  <2>6. Moves(p) /\ call'[p] = c
    <3>1. "free_data" \in Places
      BY DEF Places, Closing
    <3> QED
      BY <2>3, <2>4, <2>5, <3>1, Local DEF FileInv
  <2>7. HasRoot("free_data", c) <=> call[p].op = "remove"
    BY <2>3 DEF HasRoot, Opening, Making, Closing
  <2>8. c.start # 0
    BY <2>2, <2>3, FileSystemAssumption DEF Sectors
  <2>9. Shape("free_data", c, file[p], executable[p])
    BY <1>1, <1>2, <1>6, <2>3, <2>7, <2>8
    DEF Shape, PlacesOf, Opening, Making, Closing, Leaving, Outside, Freeing
  <2>10. /\ \A q \in Procs \ {p} : OfCall(q) = {} /\ OfCall(q)' = {}
         /\ OfCall(p) = {} /\ OfCall(p)' = Extent(disk[s])
    <3>1. \A q \in Procs \ {p} : OfCall(q) = {} /\ OfCall(q)' = {}
      BY <1>6, <2>6, OthersHoldNothing
    <3>2. OfCall(p) = {}
      BY <1>6 DEF OfCall, Held
    <3>3. Held(p)' = Extent(disk[s])
      BY <2>3, <2>6, <2>8 DEF Held, Run, Extent
    <3>4. OfCall(p)' = Held(p)'
      BY <1>6, <2>3, <2>6 DEF OfCall
    <3> QED
      BY <3>1, <3>2, <3>3, <3>4
  <2>11. Files' = Files \ {s}
    BY <1>5, <1>8, <1>10 DEF Files
  <2>12. \A t : OfFile(t)' = OfFile(t)
    BY <1>7 DEF OfFile, Extent
  <2>13. OfFile(s) = {s} \cup Extent(disk[s])
    BY DEF OfFile
  <2>14. \A t \in Files : t \in OfFile(t)
    BY DEF OfFile
  <2>15. WholeFiles'
    BY <1>7, <2>1, <2>11 DEF WholeFiles, Extent
  <2>16. Accounts'
    <3>1. /\ \A t \in Sectors : t \in free_map <=> \/ t \in lost
                                                  \/ \E f \in Files : t \in OfFile(f)
          /\ \A f \in Files : OfFile(f) \subseteq free_map
          /\ lost \subseteq free_map
          /\ \A f, g \in Files : f # g => OfFile(f) \cap OfFile(g) = {}
          /\ \A f \in Files : OfFile(f) \cap lost = {}
      <4>1. \A q \in Procs : OfCall(q) = {}
        BY <2>10
      <4> QED
        BY <2>1, <4>1 DEF Accounts
    <3> DEFINE E == Extent(disk[s])
    <3>2. \A t \in Sectors : (\E f \in Files : t \in OfFile(f)) <=>
             t = s \/ t \in E \/ \E f \in Files \ {s} : t \in OfFile(f)
      BY <1>5, <2>13
    <3>3. /\ s \in free_map /\ s \notin lost /\ E \subseteq free_map /\ E \cap lost = {}
          /\ s \notin E
          /\ \A f \in Files \ {s} : s \notin OfFile(f) /\ E \cap OfFile(f) = {}
      BY <1>5, <2>2, <2>13, <3>1
    <3> HIDE DEF E
    <3>4. ASSUME NEW t \in Sectors
          PROVE  t \in free_map \ {s} <=> \/ t \in lost
                                          \/ \E f \in Files \ {s} : t \in OfFile(f)
                                          \/ t \in E
      <4> DEFINE others == \E f \in Files \ {s} : t \in OfFile(f)
      <4>1. t \in free_map <=> t \in lost \/ t = s \/ t \in E \/ others
        BY <3>1, <3>2, Zenon
      <4>2. others => t # s
        BY <3>3, Zenon
      <4> HIDE DEF others
      <4>3. t \in free_map \ {s} <=> t \in lost \/ others \/ t \in E
        BY <3>3, <4>1, <4>2
      <4> QED
        BY <4>3 DEF others
    <3>5. /\ \A f \in Files \ {s} : OfFile(f) \subseteq free_map \ {s}
          /\ E \subseteq free_map \ {s} /\ lost \subseteq free_map \ {s}
          /\ \A f, g \in Files \ {s} : f # g => OfFile(f) \cap OfFile(g) = {}
          /\ \A f \in Files \ {s} : OfFile(f) \cap lost = {} /\ OfFile(f) \cap E = {}
          /\ E \cap lost = {}
      BY <3>1, <3>3
    <3>6. lost' = lost /\ OfCall(p)' = E /\ \A q \in Procs \ {p} : OfCall(q)' = {}
      BY <1>7, <2>10 DEF E
    <3> QED
      BY <2>4, <2>11, <2>12, <3>4, <3>5, <3>6, AccountsOf
  <2>17. /\ "free_data" \in Places /\ "free_data" \notin {"read"} \cup Freeing
         /\ "free_data" \notin {"erase", "zero", "add", "write"} \cup Opening
    BY DEF Places, Freeing, Opening, Closing
  <2>18. UNCHANGED <<dir, disk, tables, lock_f>> /\ free_map' \subseteq Sectors
    BY <1>2, <1>7, <2>4
  <2> QED
    BY <1>1, <1>3, <1>6, <1>7, <2>3, <2>4, <2>9, <2>15, <2>16, <2>17, <2>18, UnlistKeeps
<1> QED
  BY <1>9, <1>10

-----------------------------------------------------------------------------
(* The holder of lock_f takes sectors, writes them and gives them back.    *)

LEMMA HolderStep ==
  ASSUME FileInv, NEW p \in Procs, pc[p] \notin Outside \cup {"read"} \cup Freeing,
         call[p].op \notin {"none", "load"},
         NEW w \in Places, w \notin {"erase", "write"} \cup Opening \cup Freeing,
         NEW c \in Calls, pc' = [pc EXCEPT ![p] = w], call' = [call EXCEPT ![p] = c],
         UNCHANGED <<inode, tables, lock_f>>, free_map' \subseteq Sectors,
         dir' \in [Entries -> [name : Names \cup {NoOne}, sector : Sectors \cup {0}]],
         disk' \in [Sectors -> DiskOf],
         Shape(w, c, file[p], executable[p]),
         c.op = call[p].op, c.met = call[p].met, c.root = call[p].root, c.ino = call[p].ino,
         c.sector # 0 => c.start = 0 \/ c.sector \notin Run(c.start, c.length),
         w \in {"zero", "add"} => disk'[c.sector] = InodeDisk(c.start, c.length),
         \A s \in OpenFiles : disk'[s] = disk[s] /\ (s \in Named' <=> s \in Named),
         DirOK', WholeFiles', Accounts'
  PROVE  FileInv'
<1>1. UNCHANGED <<file, executable, ran>> /\ inode' = inode /\ lock_f' = lock_f
  BY DEF tables
<1>2. Moves(p) /\ pc'[p] = w /\ call'[p] = c /\ call' \in [Procs -> Calls] /\ pc' \in [Procs -> Places]
  BY <1>1, Local DEF FileInv
<1>3. Types'
  BY <1>1, <1>2 DEF FileInv, Types
<1>4. Shape(pc[p], call[p], file[p], executable[p])'
  BY <1>1, <1>2
<1>5. InodesOK'
  <2>1. OpensShared'
    BY <1>1 DEF FileInv, InodesOK, OpensShared
  <2>2. ASSUME NEW i \in Inodes PROVE InodeOK(i)'
    <3>1. InodeOK(i)
      BY DEF FileInv, InodesOK
    <3>2. \A q \in Procs : pc[q] \in {"read"} \cup Freeing =>
             pc'[q] = pc[q] /\ call'[q].found = call[q].found
      BY <1>2 DEF Moves, Alike
    <3>3. inode[i].sector \in Sectors => inode[i].sector \in OpenFiles
      BY FileSystemAssumption DEF OpenFiles, Sectors, Root
    <3>4. inode[i].sector \in Sectors =>
             /\ disk'[inode[i].sector] = disk[inode[i].sector]
             /\ inode[i].sector \in Named' <=> inode[i].sector \in Named
      BY <3>3
    <3> QED
      BY <1>1, <3>1, <3>2, <3>4 DEF InodeOK, NotRead
  <2> QED
    BY <2>1, <2>2 DEF InodesOK
<1>6. OneFrees'
  BY <1>2, OneFreesKept
<1>7. \A q \in Procs \ {p}, i \in Inodes : Uses(q, i) =>
           /\ inode'[i].sector = inode[i].sector
           /\ pc[q] \in Freeing => inode'[i].open_cnt = 0 \/ inode[i].open_cnt > 0
  <2>1. \A i \in Inodes : inode[i].open_cnt \in Nat
    BY DEF FileInv, Types
  <2> QED
    BY <1>1, <2>1
<1>8. Knows(p)'
  <2>1. Knows(p)
    BY DEF FileInv, Knowing
  <2>2. c.sector # 0 => c.sector \notin Held(p)'
    BY <1>2 DEF Held
  <2>3. w \notin {"read", "erase"} \cup Freeing
    BY DEF Opening
  <2> QED
    BY <1>1, <1>2, <2>1, <2>2, <2>3 DEF Knows, Freeing
<1>9. Sees(p)'
  BY <1>2 DEF Sees, Opening
<1>10. \A i \in Inodes :
           /\ inode'[i].open_cnt + ShareOf(p, i) + ran[i]
                = inode[i].open_cnt + ShareOf(p, i)' + ran'[i]
           /\ inode'[i].deny_write_cnt + One(executable[p], i)
                = inode[i].deny_write_cnt + One(executable'[p], i)
  <2>1. w # "read" /\ pc[p] # "read"
    BY DEF Opening
  <2>2. \A i : ShareOf(p, i)' = ShareOf(p, i)
    BY <1>1, <1>2, <2>1 DEF ShareOf, Share
  <2> QED
    BY <1>1, <2>2
<1>11. call'[p].op = call[p].op /\ call'[p].met = call[p].met /\ UNCHANGED lock_f
       /\ pc[p] \notin Outside
  BY <1>1, <1>2
<1> QED
  BY <1>2, <1>3, <1>4, <1>5, <1>6, <1>7, <1>8, <1>9, <1>10, <1>11, StepKeeps

Filed(t) == \E f \in Files : t \in OfFile(f)

LEMMA SoleAccounts ==
  ASSUME Accounts, NEW p \in Procs, \A q \in Procs \ {p} : OfCall(q) = {} /\ OfCall(q)' = {}
  PROVE  \A t \in Sectors : t \in free_map <=> t \in lost \/ Filed(t) \/ t \in OfCall(p)
<1> TAKE t \in Sectors
<1>1. t \in free_map <=> t \in lost \/ Filed(t) \/ (\E q \in Procs : t \in OfCall(q))
  BY DEF Accounts, Filed
<1>2. (\E q \in Procs : t \in OfCall(q)) <=> t \in OfCall(p)
  OBVIOUS
<1> QED
  BY <1>1, <1>2, Zenon

\* A call takes sectors that are free, and gives what it holds back or loses it.
LEMMA Takes ==
  ASSUME FileInv, NEW p \in Procs, Moves(p), call[p].op \notin {"none", "load"},
         UNCHANGED <<dir, disk, inode, lost>>,
         NEW R, R \subseteq Sectors \ free_map, free_map' = free_map \cup R,
         OfCall(p)' = OfCall(p) \cup R
  PROVE  WholeFiles' /\ Accounts'
<1>1. WholeFiles /\ Accounts
  BY DEF FileInv
<1>2. Files' = Files
  BY DEF Files, Named, OpenFiles
<1>3. \A s : OfFile(s)' = OfFile(s)
  BY DEF OfFile, Extent
<1>4. \A q \in Procs \ {p} : OfCall(q) = {} /\ OfCall(q)' = {}
  BY OthersHoldNothing
<1>5. WholeFiles'
  BY <1>1, <1>2 DEF WholeFiles, Extent
<1>6. \A t \in Sectors : t \in free_map <=> t \in lost \/ Filed(t) \/ t \in OfCall(p)
  BY <1>1, <1>4, SoleAccounts
<1>7. \A t \in Sectors : t \in free_map \cup R <=> t \in lost \/ Filed(t) \/ t \in OfCall(p) \cup R
  BY <1>6
<1>8. /\ \A s \in Files : OfFile(s) \subseteq free_map /\ OfFile(s) \cap lost = {}
                          /\ OfFile(s) \cap OfCall(p) = {}
      /\ OfCall(p) \subseteq free_map /\ lost \subseteq free_map /\ OfCall(p) \cap lost = {}
      /\ \A s, t \in Files : s # t => OfFile(s) \cap OfFile(t) = {}
  BY <1>1 DEF Accounts
<1>9. /\ \A s \in Files : OfFile(s) \subseteq free_map \cup R
                          /\ OfFile(s) \cap (OfCall(p) \cup R) = {}
      /\ OfCall(p) \cup R \subseteq free_map \cup R /\ lost \subseteq free_map \cup R
      /\ (OfCall(p) \cup R) \cap lost = {}
  BY <1>8
<1>10. lost' = lost
  OBVIOUS
<1>11. Accounts'
  BY <1>2, <1>3, <1>4, <1>7, <1>8, <1>9, <1>10, AccountsOf DEF Filed
<1> QED
  BY <1>5, <1>11

LEMMA GivesBack ==
  ASSUME FileInv, NEW p \in Procs, Moves(p), call[p].op \notin {"none", "load"},
         UNCHANGED <<dir, disk, inode>>, NEW G, NEW L, OfCall(p) = G \cup L, G \cap L = {},
         free_map' = free_map \ G, lost' = lost \cup L, OfCall(p)' = {}
  PROVE  WholeFiles' /\ Accounts'
<1>1. WholeFiles /\ Accounts
  BY DEF FileInv
<1>2. Files' = Files
  BY DEF Files, Named, OpenFiles
<1>3. \A s : OfFile(s)' = OfFile(s)
  BY DEF OfFile, Extent
<1>4. \A q \in Procs \ {p} : OfCall(q) = {} /\ OfCall(q)' = {}
  BY OthersHoldNothing
<1>5. WholeFiles'
  BY <1>1, <1>2 DEF WholeFiles, Extent
<1>6. \A t \in Sectors : t \in free_map <=> t \in lost \/ Filed(t) \/ t \in OfCall(p)
  BY <1>1, <1>4, SoleAccounts
<1>7. /\ \A s \in Files : OfFile(s) \subseteq free_map /\ OfFile(s) \cap lost = {}
                          /\ OfFile(s) \cap OfCall(p) = {}
      /\ OfCall(p) \subseteq free_map /\ lost \subseteq free_map /\ OfCall(p) \cap lost = {}
      /\ \A s, t \in Files : s # t => OfFile(s) \cap OfFile(t) = {}
  BY <1>1 DEF Accounts
<1>8. \A t \in Sectors : t \in free_map \ G <=> t \in lost \cup L \/ Filed(t) \/ t \in {}
  <2>1. \A t : Filed(t) => t \notin OfCall(p)
    BY <1>7 DEF Filed
  <2> QED
    BY <1>6, <1>7, <2>1
<1>9. /\ \A s \in Files : OfFile(s) \subseteq free_map \ G
                          /\ OfFile(s) \cap (lost \cup L) = {} /\ OfFile(s) \cap {} = {}
      /\ {} \subseteq free_map \ G /\ lost \cup L \subseteq free_map \ G
      /\ {} \cap (lost \cup L) = {}
  BY <1>7
<1>10. Accounts'
  BY <1>2, <1>3, <1>4, <1>7, <1>8, <1>9, AccountsOf DEF Filed
<1> QED
  BY <1>5, <1>10

\* The locals of a call that is making a file.
LEMMA MakingIs ==
  ASSUME FileInv, NEW p \in Procs, pc[p] \in Making
  PROVE  /\ call[p].op = "create" /\ call[p].root # 0 /\ call[p].ino = 0
         /\ call[p].name \in Names
         /\ call[p].length \in Nat /\ call[p].start \in Sectors \cup {0}
         /\ call[p].sector \in Sectors \cup {0} /\ (call[p].sector # 0 <=> pc[p] # "alloc")
         /\ pc[p] \notin {"write_inode", "zero", "add", "release"} => call[p].start = 0
         /\ pc[p] \in {"write_inode", "zero", "add"} => call[p].start # 0
         /\ pc[p] \notin Outside \cup {"read"} \cup Freeing
<1>1. Shape(pc[p], call[p], file[p], executable[p]) /\ call[p] \in Calls
  BY DEF FileInv, Shapes, Types
<1>2. pc[p] \notin Opening \cup Closing \cup Leaving \cup Outside
                   \cup {"lookup", "erase", "write_check", "write", "return", "loaded", "allow"}
  BY DEF Making, Opening, Closing, Leaving, Outside
<1>3. call[p].op = "create"
  BY <1>1, <1>2 DEF Shape, PlacesOf, Calls, Ops
<1>4. HasRoot(pc[p], call[p])
  BY DEF HasRoot
<1> QED
  BY <1>1, <1>2, <1>3, <1>4
  DEF Shape, Calls, InodesOrNone, Making, Closing, Leaving, Freeing, Opening

\* The shape of the places that follow.
LEMMA MakingShape ==
  ASSUME FileInv, NEW p \in Procs, pc[p] \in Making, NEW c \in Calls,
         c.op = call[p].op, c.name = call[p].name, c.root = call[p].root, c.ino = call[p].ino,
         NEW w \in (Making \ {"alloc"}) \cup {"close_root"},
         c.sector # 0 <=> w # "close_root",
         w \in {"write_inode", "zero", "add"} => c.start # 0,
         c.start # 0 => w \in {"write_inode", "zero", "add", "release"}
  PROVE  Shape(w, c, file[p], executable[p])
<1>1. /\ Shape(pc[p], call[p], file[p], executable[p])
  BY DEF FileInv, Shapes
<1>2. /\ call[p].op = "create" /\ call[p].root # 0 /\ call[p].ino = 0 /\ call[p].name \in Names
  BY MakingIs
<1>3. HasRoot(w, c)
  BY DEF HasRoot, Making
<1>4. pc[p] \notin Outside
  BY DEF Making, Outside
<1> QED
  BY <1>1, <1>2, <1>3, <1>4
  DEF Shape, PlacesOf, Making, Opening, Closing, Leaving, Outside, Freeing

LEMMA AllocKeeps == ASSUME FileInv, NEW p \in Procs, Alloc(p) PROVE FileInv'
<1>1. pc[p] = "alloc" /\ pc[p] \in Making
  BY DEF Alloc, At, Making
<1>2. /\ call[p] \in Calls /\ call \in [Procs -> Calls] /\ pc \in [Procs -> Places]
      /\ free_map \subseteq Sectors /\ disk \in [Sectors -> DiskOf]
      /\ dir \in [Entries -> [name : Names \cup {NoOne}, sector : Sectors \cup {0}]]
      /\ 0 \notin Sectors
  BY FileSystemAssumption DEF FileInv, Types, Sectors
<1>3. /\ call[p].op = "create" /\ call[p].sector = 0 /\ call[p].start = 0
      /\ pc[p] \notin Outside \cup {"read"} \cup Freeing
  BY <1>1, MakingIs
<1>4. UNCHANGED <<dir, disk, inode, tables, lock_f, lost>>
  BY DEF Alloc
<1>5. PICK w \in {"close_root", "alloc_data"}, c \in Calls, R \in SUBSET Sectors :
        /\ pc' = [pc EXCEPT ![p] = w] /\ call' = [call EXCEPT ![p] = c]
        /\ c.op = call[p].op /\ c.name = call[p].name /\ c.root = call[p].root
        /\ c.ino = call[p].ino /\ c.met = call[p].met /\ c.start = 0
        /\ (c.sector # 0 <=> w # "close_root")
        /\ R = {c.sector} \ {0} /\ R \subseteq Sectors \ free_map /\ free_map' = free_map \cup R
  <2>1. CASE Fits(1) = {} /\ Goto(p, "close_root") /\ UNCHANGED <<free_map, call>>
    <3>1. call' = [call EXCEPT ![p] = call[p]] /\ free_map' = free_map \cup ({call[p].sector} \ {0})
      BY <1>2, <1>3, <2>1
    <3> QED
      BY <1>2, <1>3, <2>1, <3>1 DEF Goto
  <2>2. CASE /\ Fits(1) # {} /\ Marked({FirstFit(1)})
             /\ call' = [call EXCEPT ![p].sector = FirstFit(1)] /\ Goto(p, "alloc_data")
    <3>1. PICK s \in Sectors : s = FirstFit(1) /\ s \notin free_map
      <4>1. FirstFit(1) \in Fits(1)
        BY <2>2, FirstFits
      <4>2. \A s \in Sectors : s \in Run(s, 1)
        BY FileSystemAssumption DEF Run, Sectors
      <4> QED
        BY <4>1, <4>2 DEF Fits
    <3> DEFINE c == [call[p] EXCEPT !.sector = s]
    <3>2. call' = [call EXCEPT ![p] = c] /\ pc' = [pc EXCEPT ![p] = "alloc_data"]
          /\ free_map' = free_map \cup {s}
      BY <1>2, <2>2, <3>1 DEF Goto, Marked
    <3>3. c \in Calls /\ c.op = call[p].op /\ c.name = call[p].name /\ c.root = call[p].root
          /\ c.ino = call[p].ino /\ c.met = call[p].met /\ c.start = call[p].start
          /\ c.sector = s
      BY <1>2 DEF Calls
    <3> HIDE DEF c
    <3> QED
      BY <1>2, <1>3, <3>1, <3>2, <3>3
  <2> QED
    BY <2>1, <2>2 DEF Alloc
<1>6. Moves(p) /\ call'[p] = c
  <2>1. w \in Places
    BY DEF Places, Leaving, Making
  <2>2. UNCHANGED <<file, executable>>
    BY <1>4 DEF tables
  <2> QED
    BY <1>5, <2>1, <2>2, Local DEF FileInv
<1>7. OfCall(p)' = OfCall(p) \cup R
  BY <1>3, <1>5, <1>6 DEF OfCall, Held
<1>8. WholeFiles' /\ Accounts'
  BY <1>3, <1>4, <1>5, <1>6, <1>7, Takes
<1>9. Shape(w, c, file[p], executable[p])
  BY <1>1, <1>5, MakingShape DEF Making
<1>10. /\ w \in Places /\ w \notin {"erase", "write"} \cup Opening \cup Freeing
       /\ w \notin {"zero", "add"}
  BY DEF Places, Leaving, Making, Opening, Freeing
<1>11. /\ UNCHANGED <<inode, tables, lock_f>> /\ free_map' \subseteq Sectors
       /\ dir' \in [Entries -> [name : Names \cup {NoOne}, sector : Sectors \cup {0}]]
       /\ disk' \in [Sectors -> DiskOf]
       /\ \A s \in OpenFiles : disk'[s] = disk[s] /\ (s \in Named' <=> s \in Named)
  <2>1. Named' = Named
    BY <1>4, NamedKept
  <2> QED
    BY <1>2, <1>4, <1>5, <2>1
<1>12. DirOK'
  BY <1>4 DEF FileInv, DirOK
<1>13. c.sector # 0 => c.start = 0 \/ c.sector \notin Run(c.start, c.length)
  BY <1>5
<1>14. call[p].op \notin {"none", "load"}
  BY <1>3
<1> QED
  BY <1>3, <1>5, <1>8, <1>9, <1>10, <1>11, <1>12, <1>13, <1>14, HolderStep

LEMMA AllocDataKeeps == ASSUME FileInv, NEW p \in Procs, AllocData(p) PROVE FileInv'
<1>1. pc[p] = "alloc_data" /\ pc[p] \in Making
  BY DEF AllocData, At, Making
<1>2. /\ call[p] \in Calls /\ call \in [Procs -> Calls] /\ pc \in [Procs -> Places]
      /\ free_map \subseteq Sectors /\ disk \in [Sectors -> DiskOf]
      /\ dir \in [Entries -> [name : Names \cup {NoOne}, sector : Sectors \cup {0}]]
      /\ 0 \notin Sectors
  BY FileSystemAssumption DEF FileInv, Types, Sectors
<1>3. /\ call[p].op = "create" /\ call[p].sector \in Sectors /\ call[p].start = 0
      /\ call[p].length \in Nat /\ call[p].sector # 0
      /\ pc[p] \notin Outside \cup {"read"} \cup Freeing
  BY <1>1, <1>2, MakingIs
<1>4. UNCHANGED <<dir, disk, inode, tables, lock_f, lost>>
  BY DEF AllocData
<1>5. PICK w \in {"release", "write_inode"}, c \in Calls, R \in SUBSET Sectors :
        /\ pc' = [pc EXCEPT ![p] = w] /\ call' = [call EXCEPT ![p] = c]
        /\ c.op = call[p].op /\ c.name = call[p].name /\ c.root = call[p].root
        /\ c.ino = call[p].ino /\ c.met = call[p].met /\ c.sector = call[p].sector
        /\ (c.start # 0 <=> w = "write_inode")
        /\ R = (IF c.start = 0 THEN {} ELSE Run(c.start, c.length))
        /\ R \subseteq Sectors \ free_map /\ free_map' = free_map \cup R
  <2> DEFINE n == call[p].length
  <2>1. CASE Fits(n) = {} /\ Goto(p, "release") /\ UNCHANGED <<free_map, call>>
    <3>1. call' = [call EXCEPT ![p] = call[p]] /\ free_map' = free_map \cup {}
      BY <1>2, <1>3, <2>1
    <3> QED
      BY <1>2, <1>3, <2>1, <3>1 DEF Goto
  <2>2. CASE /\ Fits(n) # {} /\ Marked(Run(FirstFit(n), n))
             /\ call' = [call EXCEPT ![p].start = FirstFit(n)] /\ Goto(p, "write_inode")
    <3>1. PICK s \in Sectors : s = FirstFit(n) /\ Run(s, n) \subseteq Sectors \ free_map
      <4>1. FirstFit(n) \in Fits(n)
        BY <1>3, <2>2, FirstFits
      <4> QED
        BY <4>1 DEF Fits
    <3> DEFINE c == [call[p] EXCEPT !.start = s]
    <3>2. call' = [call EXCEPT ![p] = c] /\ pc' = [pc EXCEPT ![p] = "write_inode"]
          /\ free_map' = free_map \cup Run(s, n)
      BY <1>2, <2>2, <3>1 DEF Goto, Marked
    <3>3. c \in Calls /\ c.op = call[p].op /\ c.name = call[p].name /\ c.root = call[p].root
          /\ c.ino = call[p].ino /\ c.met = call[p].met /\ c.start = s /\ c.length = n
          /\ c.sector = call[p].sector
      BY <1>2 DEF Calls
    <3> HIDE DEF c
    <3>4. s # 0 /\ Run(s, n) = (IF c.start = 0 THEN {} ELSE Run(c.start, c.length))
      BY <1>2, <3>3
    <3> QED
      BY <3>1, <3>2, <3>3, <3>4
  <2> QED
    BY <2>1, <2>2 DEF AllocData
<1>6. Moves(p) /\ call'[p] = c
  <2>1. w \in Places
    BY DEF Places, Making
  <2>2. UNCHANGED <<file, executable>>
    BY <1>4 DEF tables
  <2> QED
    BY <1>5, <2>1, <2>2, Local DEF FileInv
<1>7. OfCall(p)' = OfCall(p) \cup R
  BY <1>3, <1>5, <1>6 DEF OfCall, Held
<1>8. WholeFiles' /\ Accounts'
  BY <1>3, <1>4, <1>5, <1>6, <1>7, Takes
<1>9. Shape(w, c, file[p], executable[p])
  BY <1>1, <1>3, <1>5, MakingShape DEF Making
<1>10. /\ w \in Places /\ w \notin {"erase", "write"} \cup Opening \cup Freeing
       /\ w \notin {"zero", "add"}
  BY DEF Places, Making, Opening, Freeing
<1>11. /\ UNCHANGED <<inode, tables, lock_f>> /\ free_map' \subseteq Sectors
       /\ dir' \in [Entries -> [name : Names \cup {NoOne}, sector : Sectors \cup {0}]]
       /\ disk' \in [Sectors -> DiskOf]
       /\ \A s \in OpenFiles : disk'[s] = disk[s] /\ (s \in Named' <=> s \in Named)
  <2>1. Named' = Named
    BY <1>4, NamedKept
  <2> QED
    BY <1>2, <1>4, <1>5, <2>1
<1>12. DirOK'
  BY <1>4 DEF FileInv, DirOK
<1>13. c.sector # 0 => c.start = 0 \/ c.sector \notin Run(c.start, c.length)
  <2>1. call[p].sector \in free_map
    BY <1>3 DEF FileInv, Accounts, OfCall
  <2> QED
    BY <1>5, <2>1
<1>14. call[p].op \notin {"none", "load"}
  BY <1>3
<1> QED
  BY <1>3, <1>5, <1>8, <1>9, <1>10, <1>11, <1>12, <1>13, <1>14, HolderStep

\* What a call writes before its file has a name is no other file's.
LEMMA WritesOwn ==
  ASSUME FileInv, NEW p \in Procs, pc[p] \in {"write_inode", "zero"},
         NEW w \in {"zero", "add"}, Goto(p, w),
         disk' \in [Sectors -> DiskOf], \A s \in Sectors \ OfCall(p) : disk'[s] = disk[s],
         disk'[call[p].sector] = InodeDisk(call[p].start, call[p].length),
         UNCHANGED <<free_map, dir, inode, call, tables, lock_f, lost>>
  PROVE  FileInv'
<1>1. pc[p] \in Making /\ pc[p] # "alloc" /\ pc[p] \in {"write_inode", "zero", "add"}
  BY DEF Making
<1>2. /\ call[p] \in Calls /\ call \in [Procs -> Calls] /\ pc \in [Procs -> Places]
      /\ free_map \subseteq Sectors
      /\ dir \in [Entries -> [name : Names \cup {NoOne}, sector : Sectors \cup {0}]]
      /\ 0 \notin Sectors /\ Knows(p)
  BY FileSystemAssumption DEF FileInv, Types, Sectors, Knowing
<1>3. /\ call[p].op = "create" /\ call[p].sector # 0 /\ call[p].start # 0
      /\ pc[p] \notin Outside \cup {"read"} \cup Freeing
  BY <1>1, MakingIs
<1>4. pc' = [pc EXCEPT ![p] = w] /\ call' = [call EXCEPT ![p] = call[p]]
  BY <1>2 DEF Goto
<1>5. \A s \in Files : disk'[s] = disk[s]
  <2>1. \A s \in Files : OfFile(s) \cap OfCall(p) = {} /\ OfFile(s) \subseteq free_map
    BY DEF FileInv, Accounts
  <2>2. \A s \in Files : s \in OfFile(s)
    BY DEF OfFile
  <2> QED
    BY <1>2, <2>1, <2>2
<1>6. Named' = Named /\ OpenFiles' = OpenFiles /\ Files' = Files
  BY NamedKept, OpenFilesKept DEF Files
<1>7. \A q \in Procs : OfCall(q)' = OfCall(q)
  BY DEF OfCall, Held
<1>8. WholeFiles' /\ Accounts'
  BY <1>5, <1>6, <1>7, FilesKept
<1>9. Shape(w, call[p], file[p], executable[p])
  BY <1>1, <1>2, <1>3, MakingShape DEF Making
<1>10. /\ w \in Places /\ w \notin {"erase", "write"} \cup Opening \cup Freeing
  BY DEF Places, Making, Opening, Freeing
<1>11. /\ UNCHANGED <<inode, tables, lock_f>> /\ free_map' \subseteq Sectors
       /\ dir' \in [Entries -> [name : Names \cup {NoOne}, sector : Sectors \cup {0}]]
       /\ \A s \in OpenFiles : disk'[s] = disk[s] /\ (s \in Named' <=> s \in Named)
  BY <1>2, <1>5, <1>6 DEF Files
<1>12. DirOK'
  BY DEF FileInv, DirOK
<1>13. call[p].sector \notin Run(call[p].start, call[p].length)
  BY <1>2, <1>3 DEF Knows, Held
<1>14. call[p].op \notin {"none", "load"}
  BY <1>3
<1> QED
  BY <1>2, <1>3, <1>4, <1>8, <1>9, <1>10, <1>11, <1>12, <1>13, <1>14, HolderStep

LEMMA WriteInodeKeeps == ASSUME FileInv, NEW p \in Procs, WriteInode(p) PROVE FileInv'
<1>1. pc[p] = "write_inode" /\ pc[p] \in Making
  BY DEF WriteInode, At, Making
<1>2. /\ call[p].sector \in Sectors /\ call[p].start \in Sectors /\ call[p].length \in Nat
      /\ disk \in [Sectors -> DiskOf]
  BY <1>1, MakingIs DEF FileInv, Types
<1>3. PICK d \in DiskOf : d = InodeDisk(call[p].start, call[p].length)
  <2>1. call[p].start \in Nat
    BY <1>2, FileSystemAssumption DEF Sectors
  <2>2. \A a, l \in Nat : InodeDisk(a, l) \in DiskOf
    BY DEF InodeDisk, DiskOf, Contents
  <2> QED
    BY <1>2, <2>1, <2>2
<1>4. disk' = [disk EXCEPT ![call[p].sector] = d]
  BY <1>3 DEF WriteInode
<1>5. /\ disk' \in [Sectors -> DiskOf] /\ disk'[call[p].sector] = d
      /\ \A s \in Sectors \ {call[p].sector} : disk'[s] = disk[s]
  BY <1>2, <1>4
<1>6. call[p].sector \in OfCall(p)
  BY <1>2, FileSystemAssumption DEF OfCall, Sectors
<1>7. \A s \in Sectors \ OfCall(p) : disk'[s] = disk[s]
  BY <1>5, <1>6
<1>8. /\ Goto(p, "zero") /\ UNCHANGED <<free_map, dir, inode, call, tables, lock_f, lost>>
  BY DEF WriteInode
<1> QED
  BY <1>1, <1>3, <1>5, <1>7, <1>8, WritesOwn

LEMMA ZeroDataKeeps == ASSUME FileInv, NEW p \in Procs, ZeroData(p) PROVE FileInv'
<1>1. pc[p] = "zero" /\ pc[p] \in Making
  BY DEF ZeroData, At, Making
<1>2. /\ call[p].sector \in Sectors /\ disk \in [Sectors -> DiskOf] /\ Knows(p)
      /\ call[p].sector # 0
  BY <1>1, MakingIs DEF FileInv, Types, Knowing
<1>3. /\ disk[call[p].sector] = InodeDisk(call[p].start, call[p].length)
      /\ call[p].sector \notin Held(p)
  BY <1>1, <1>2 DEF Knows
<1>4. PICK z \in DiskOf : z = Data(Zeros)
  BY FileSystemAssumption DEF Data, DiskOf, Contents
<1>5. disk' = [s \in Sectors |-> IF s \in Held(p) THEN z ELSE disk[s]]
  BY <1>4 DEF ZeroData
<1>6. /\ disk' \in [Sectors -> DiskOf] /\ disk'[call[p].sector] = disk[call[p].sector]
      /\ \A s \in Sectors \ Held(p) : disk'[s] = disk[s]
  BY <1>2, <1>3, <1>5
<1>7. \A s \in Sectors \ OfCall(p) : disk'[s] = disk[s]
  BY <1>6 DEF OfCall
<1>8. /\ Goto(p, "add") /\ UNCHANGED <<free_map, dir, inode, call, tables, lock_f, lost>>
  BY DEF ZeroData
<1> QED
  BY <1>1, <1>3, <1>6, <1>7, <1>8, WritesOwn

LEMMA ReleaseKeeps == ASSUME FileInv, NEW p \in Procs, Release(p) PROVE FileInv'
<1>1. pc[p] = "release" /\ pc[p] \in Making
  BY DEF Release, At, Making
<1>2. /\ call[p] \in Calls /\ call \in [Procs -> Calls] /\ pc \in [Procs -> Places]
      /\ free_map \subseteq Sectors /\ disk \in [Sectors -> DiskOf]
      /\ dir \in [Entries -> [name : Names \cup {NoOne}, sector : Sectors \cup {0}]]
      /\ 0 \notin Sectors /\ Knows(p)
  BY FileSystemAssumption DEF FileInv, Types, Sectors, Knowing
<1>3. /\ call[p].op = "create" /\ call[p].sector \in Sectors /\ call[p].sector # 0
      /\ pc[p] \notin Outside \cup {"read"} \cup Freeing
  BY <1>1, <1>2, MakingIs
<1>4. PICK c \in Calls :
        /\ call' = [call EXCEPT ![p] = c]
        /\ c.op = call[p].op /\ c.name = call[p].name /\ c.root = call[p].root
        /\ c.ino = call[p].ino /\ c.met = call[p].met /\ c.sector = 0 /\ c.start = 0
  <2> DEFINE c == [call[p] EXCEPT !.sector = 0, !.start = 0]
  <2>1. call' = [call EXCEPT ![p] = c]
    BY <1>2 DEF Release
  <2>2. \A r \in Calls : [r EXCEPT !.sector = 0, !.start = 0] \in Calls
    BY DEF Calls
  <2>3. c \in Calls
    BY <1>2, <2>2, Zenon
  <2>4. /\ c.op = call[p].op /\ c.name = call[p].name /\ c.root = call[p].root
        /\ c.ino = call[p].ino /\ c.met = call[p].met /\ c.sector = 0 /\ c.start = 0
    BY <1>2 DEF Calls
  <2> HIDE DEF c
  <2> QED
    BY <2>1, <2>3, <2>4
<1>5. /\ pc' = [pc EXCEPT ![p] = "close_root"]
      /\ UNCHANGED <<dir, disk, inode, tables, lock_f>>
      /\ free_map' = free_map \ {call[p].sector} /\ lost' = lost \cup Held(p)
  BY DEF Release, Goto
<1>6. Moves(p) /\ call'[p] = c
  <2>1. "close_root" \in Places /\ UNCHANGED <<file, executable>>
    BY <1>5 DEF Places, Leaving, tables
  <2> QED
    BY <1>4, <1>5, <2>1, Local DEF FileInv
<1>7. /\ OfCall(p) = {call[p].sector} \cup Held(p) /\ OfCall(p)' = {}
      /\ {call[p].sector} \cap Held(p) = {}
  BY <1>2, <1>3, <1>4, <1>6 DEF OfCall, Held, Knows
<1>8. WholeFiles' /\ Accounts'
  BY <1>3, <1>5, <1>6, <1>7, GivesBack
<1>9. Shape("close_root", c, file[p], executable[p])
  BY <1>1, <1>4, MakingShape DEF Making
<1>10. /\ "close_root" \in Places /\ "close_root" \notin {"erase", "write"} \cup Opening \cup Freeing
       /\ "close_root" \notin {"zero", "add"}
  BY DEF Places, Leaving, Opening, Freeing
<1>11. /\ UNCHANGED <<inode, tables, lock_f>> /\ free_map' \subseteq Sectors
       /\ dir' \in [Entries -> [name : Names \cup {NoOne}, sector : Sectors \cup {0}]]
       /\ disk' \in [Sectors -> DiskOf]
       /\ \A s \in OpenFiles : disk'[s] = disk[s] /\ (s \in Named' <=> s \in Named)
  <2>1. Named' = Named
    BY <1>5, NamedKept
  <2> QED
    BY <1>2, <1>5, <2>1
<1>12. DirOK'
  BY <1>5 DEF FileInv, DirOK
<1>13. call[p].op \notin {"none", "load"}
  BY <1>3
<1> QED
  BY <1>3, <1>4, <1>5, <1>8, <1>9, <1>10, <1>11, <1>12, <1>13, HolderStep

LEMMA FreeDataKeeps == ASSUME FileInv, NEW p \in Procs, FreeData(p) PROVE FileInv'
<1>1. pc[p] = "free_data" /\ pc[p] \notin Outside \cup {"read"} \cup Freeing
  BY DEF FreeData, At, Outside, Freeing
<1>2. /\ call[p] \in Calls /\ call \in [Procs -> Calls] /\ pc \in [Procs -> Places]
      /\ free_map \subseteq Sectors /\ disk \in [Sectors -> DiskOf]
      /\ dir \in [Entries -> [name : Names \cup {NoOne}, sector : Sectors \cup {0}]]
      /\ Shape(pc[p], call[p], file[p], executable[p])
  BY DEF FileInv, Types, Shapes
<1>3. /\ call[p].op \in {"remove", "close", "exit"} /\ call[p].sector = 0 /\ call[p].ino = 0
      /\ (call[p].root # 0 <=> call[p].op = "remove")
  BY <1>1, <1>2
  DEF Shape, PlacesOf, Making, Leaving, Opening, Closing, Outside, Calls, Ops, HasRoot
<1>4. PICK c \in Calls :
        /\ call' = [call EXCEPT ![p] = c]
        /\ c.op = call[p].op /\ c.name = call[p].name /\ c.root = call[p].root
        /\ c.ino = call[p].ino /\ c.met = call[p].met /\ c.sector = 0 /\ c.start = 0
  <2> DEFINE c == [call[p] EXCEPT !.start = 0]
  <2>1. call' = [call EXCEPT ![p] = c]
    BY <1>2 DEF FreeData
  <2>2. /\ c.op = call[p].op /\ c.name = call[p].name /\ c.root = call[p].root
        /\ c.ino = call[p].ino /\ c.met = call[p].met /\ c.sector = 0 /\ c.start = 0
        /\ c \in Calls
    BY <1>2, <1>3 DEF Calls
  <2> HIDE DEF c
  <2> QED
    BY <2>1, <2>2
<1>5. PICK w \in {"close_root", "allow", "return"} : w = AfterClose(call[p].op)
  BY DEF AfterClose
<1>6. /\ pc' = [pc EXCEPT ![p] = w] /\ UNCHANGED <<dir, disk, inode, tables, lock_f, lost>>
      /\ free_map' = free_map \ Held(p)
  BY <1>5 DEF FreeData, Goto, DataReleased
<1>7. Moves(p) /\ call'[p] = c
  <2>1. w \in Places /\ UNCHANGED <<file, executable>>
    BY <1>6 DEF Places, Leaving, tables
  <2> QED
    BY <1>4, <1>6, <2>1, Local DEF FileInv
<1>8. OfCall(p) = Held(p) /\ OfCall(p)' = {}
  BY <1>3, <1>4, <1>7 DEF OfCall, Held
<1>9. WholeFiles' /\ Accounts'
  <2>1. OfCall(p) = Held(p) \cup {} /\ Held(p) \cap {} = {} /\ lost' = lost \cup {}
    BY <1>6, <1>8
  <2>2. call[p].op \notin {"none", "load"}
    BY <1>3
  <2> QED
    BY <1>6, <1>7, <1>8, <2>1, <2>2, GivesBack
<1>10. Shape(w, c, file[p], executable[p])
  <2>1. HasRoot(w, c) <=> call[p].op = "remove"
    BY <1>3, <1>4, <1>5 DEF HasRoot, Opening, Making, Closing, AfterClose
  <2>2. w = CASE call[p].op = "remove" -> "close_root" [] call[p].op = "exit" -> "allow"
              [] OTHER -> "return"
    BY <1>5 DEF AfterClose
  <2> QED
    BY <1>1, <1>2, <1>3, <1>4, <2>1, <2>2
    DEF Shape, PlacesOf, Opening, Making, Closing, Leaving, Outside, Freeing
<1>11. /\ w \in Places /\ w \notin {"erase", "write"} \cup Opening \cup Freeing
       /\ w \notin {"zero", "add"}
  BY DEF Places, Leaving, Opening, Freeing
<1>12. /\ UNCHANGED <<inode, tables, lock_f>> /\ free_map' \subseteq Sectors
       /\ dir' \in [Entries -> [name : Names \cup {NoOne}, sector : Sectors \cup {0}]]
       /\ disk' \in [Sectors -> DiskOf]
       /\ \A s \in OpenFiles : disk'[s] = disk[s] /\ (s \in Named' <=> s \in Named)
  <2>1. Named' = Named
    BY <1>6, NamedKept
  <2> QED
    BY <1>2, <1>6, <2>1
<1>13. DirOK'
  BY <1>6 DEF FileInv, DirOK
<1>14. call[p].op \notin {"none", "load"}
  BY <1>3
<1> QED
  BY <1>1, <1>4, <1>6, <1>9, <1>10, <1>11, <1>12, <1>13, <1>14, HolderStep

\* The file that a create has made gets its name.
LEMMA DirAddKeeps == ASSUME FileInv, NEW p \in Procs, DirAdd(p) PROVE FileInv'
<1>1. pc[p] = "add" /\ pc[p] \in Making
  BY DEF DirAdd, At, Making
<1>2. /\ call[p] \in Calls /\ call \in [Procs -> Calls] /\ pc \in [Procs -> Places]
      /\ free_map \subseteq Sectors /\ disk \in [Sectors -> DiskOf]
      /\ dir \in [Entries -> [name : Names \cup {NoOne}, sector : Sectors \cup {0}]]
      /\ 0 \notin Sectors /\ Knows(p)
  BY FileSystemAssumption DEF FileInv, Types, Sectors, Knowing
<1>3. /\ call[p].op = "create" /\ call[p].sector \in Sectors /\ call[p].sector # 0
      /\ call[p].start \in Sectors /\ call[p].start # 0 /\ call[p].name \in Names
      /\ pc[p] \notin Outside \cup {"read"} \cup Freeing
      /\ call[p].op \notin {"none", "load"}
  BY <1>1, <1>2, MakingIs
<1>4. UNCHANGED <<free_map, disk, inode, tables, lock_f, lost>>
  BY DEF DirAdd
<1>5. /\ free_map' \subseteq Sectors /\ disk' \in [Sectors -> DiskOf]
      /\ UNCHANGED <<inode, tables, lock_f>>
  BY <1>2, <1>4
<1>6. CASE Goto(p, "release") /\ UNCHANGED <<dir, call>>
  <2>1. pc' = [pc EXCEPT ![p] = "release"] /\ call' = [call EXCEPT ![p] = call[p]]
    BY <1>2, <1>6 DEF Goto
  <2>2. Named' = Named /\ OpenFiles' = OpenFiles /\ Files' = Files
    BY <1>4, <1>6, NamedKept, OpenFilesKept DEF Files
  <2>3. WholeFiles' /\ Accounts'
    <3>1. \A q \in Procs : OfCall(q)' = OfCall(q)
      BY <1>6 DEF OfCall, Held
    <3> QED
      BY <1>4, <2>2, <3>1, FilesKept
  <2>4. Shape("release", call[p], file[p], executable[p])
    BY <1>1, <1>2, <1>3, MakingShape DEF Making
  <2>5. DirOK'
    BY <1>6 DEF FileInv, DirOK
  <2>6. call[p].sector # 0 => call[p].start = 0 \/ call[p].sector \notin Run(call[p].start, call[p].length)
    BY <1>2, <1>3 DEF Knows, Held
  <2>7. /\ "release" \in Places /\ "release" \notin {"erase", "write"} \cup Opening \cup Freeing
        /\ "release" \notin {"zero", "add"}
    BY DEF Places, Making, Opening, Freeing
  <2>8. /\ dir' \in [Entries -> [name : Names \cup {NoOne}, sector : Sectors \cup {0}]]
        /\ \A s \in OpenFiles : disk'[s] = disk[s] /\ (s \in Named' <=> s \in Named)
    BY <1>2, <1>4, <1>6, <2>2
  <2> QED
    BY <1>2, <1>3, <1>5, <2>1, <2>3, <2>4, <2>5, <2>6, <2>7, <2>8, HolderStep
<1> DEFINE n == call[p].name
           s == call[p].sector
           free == InDir(NoOne)
<1>7. CASE /\ InDir(n) = {} /\ free # {}
           /\ dir' = [dir EXCEPT ![CHOOSE e \in free : \A f \in free : e <= f] =
                                   [name |-> n, sector |-> s]]
           /\ call' = [call EXCEPT ![p].sector = 0, ![p].start = 0]
           /\ Goto(p, "close_root")
  <2>1. PICK e \in Entries :
          /\ dir[e].name = NoOne /\ dir[e].sector = 0
          /\ dir' = [dir EXCEPT ![e] = [name |-> n, sector |-> s]]
    <3>1. free \in SUBSET Nat
      BY DEF InDir, Entries
    <3>2. \E x \in free : \A y \in free : x <= y
      BY <1>7, <3>1, LeastIs
    <3>3. PICK e \in free : e = CHOOSE x \in free : \A y \in free : x <= y
      BY <3>2
    <3>4. e \in Entries /\ dir[e].name = NoOne
      BY <3>3 DEF InDir
    <3>5. dir[e].sector = 0
      BY <3>4 DEF FileInv, DirOK
    <3> QED
      BY <1>7, <3>3, <3>4, <3>5
  <2>2. PICK c \in Calls :
        /\ call' = [call EXCEPT ![p] = c]
        /\ c.op = call[p].op /\ c.name = call[p].name /\ c.root = call[p].root
        /\ c.ino = call[p].ino /\ c.met = call[p].met /\ c.sector = 0 /\ c.start = 0
    <3> DEFINE c == [call[p] EXCEPT !.sector = 0, !.start = 0]
    <3>1. call' = [call EXCEPT ![p] = c]
      BY <1>2, <1>7
    <3>2. \A r \in Calls : [r EXCEPT !.sector = 0, !.start = 0] \in Calls
      BY DEF Calls
    <3>3. c \in Calls
      BY <1>2, <3>2, Zenon
    <3>4. /\ c.op = call[p].op /\ c.name = call[p].name /\ c.root = call[p].root
          /\ c.ino = call[p].ino /\ c.met = call[p].met /\ c.sector = 0 /\ c.start = 0
      BY <1>2 DEF Calls
    <3> HIDE DEF c
    <3> QED
      BY <3>1, <3>3, <3>4
  <2>3. pc' = [pc EXCEPT ![p] = "close_root"]
    BY <1>7 DEF Goto
  <2>4. Moves(p) /\ call'[p] = c
    <3>1. "close_root" \in Places /\ UNCHANGED <<file, executable>>
      BY <1>4 DEF Places, Leaving, tables
    <3> QED
      BY <2>2, <2>3, <3>1, Local DEF FileInv
  <2>5. /\ dir' \in [Entries -> [name : Names \cup {NoOne}, sector : Sectors \cup {0}]]
        /\ dir'[e].name = n /\ dir'[e].sector = s /\ \A f \in Entries \ {e} : dir'[f] = dir[f]
    <3> DEFINE r == [name |-> n, sector |-> s]
    <3>1. /\ r \in [name : Names \cup {NoOne}, sector : Sectors \cup {0}]
          /\ r.name = n /\ r.sector = s
      BY <1>3
    <3>2. dir' = [dir EXCEPT ![e] = r]
      BY <2>1
    <3> HIDE DEF r
    <3> QED
      BY <1>2, <3>1, <3>2
  <2>6. /\ WholeFiles /\ Accounts /\ DirOK
        /\ OfCall(p) = {s} \cup Held(p) /\ OfCall(p) \subseteq free_map
        /\ \A f \in Files : OfFile(f) \cap OfCall(p) = {} /\ f \in OfFile(f)
    <3>1. WholeFiles /\ Accounts /\ DirOK
      BY DEF FileInv
    <3>2. OfCall(p) = {s} \cup Held(p)
      BY <1>3 DEF OfCall
    <3>3. \A f \in Files : f \in OfFile(f)
      BY DEF OfFile
    <3> QED
      BY <3>1, <3>2, <3>3 DEF Accounts
  <2>7. s \notin Files /\ s \in Sectors
    BY <1>3, <2>6
  <2>8. Named' = Named \cup {s}
    <3>1. \A t : t \in Named' <=> t # 0 /\ \E f \in Entries : t = dir'[f].sector
      BY DEF Named
    <3>2. \A t : t \in Named <=> t # 0 /\ \E f \in Entries : t = dir[f].sector
      BY DEF Named
    <3>3. \A t : (\E f \in Entries : t = dir'[f].sector)
               <=> t = s \/ (\E f \in Entries \ {e} : t = dir[f].sector)
      BY <2>5
    <3>4. \A t : t # 0 => ((\E f \in Entries : t = dir[f].sector)
               <=> (\E f \in Entries \ {e} : t = dir[f].sector))
      BY <2>1
    <3>5. \A t : t \in Named' <=> t \in Named \/ t = s
      <4> TAKE t
      <4>1. t = 0 => t # s
        BY <1>3
      <4> QED
        BY <3>1, <3>2, <3>3, <3>4, <4>1, Zenon
    <3> QED
      BY <3>5
  <2>9. OpenFiles' = OpenFiles
    BY <1>4, OpenFilesKept
  <2>10. Files' = Files \cup {s}
    BY <2>8, <2>9 DEF Files
  <2>11. \A f : OfFile(f)' = OfFile(f)
    BY <1>4 DEF OfFile, Extent
  <2>12. /\ disk[s].data = "inode" /\ Extent(disk[s]) = Held(p) /\ disk[s].start = call[p].start
         /\ s \notin Held(p)
    <3>1. disk[s] = InodeDisk(call[p].start, call[p].length) /\ s \notin Held(p)
      BY <1>1, <1>2, <1>3 DEF Knows
    <3> QED
      BY <1>3, <3>1 DEF InodeDisk, Extent, Held, Run
  <2>13. OfFile(s) = OfCall(p)
    BY <2>6, <2>12 DEF OfFile
  <2>14. OfCall(p)' = {}
    BY <2>2, <2>4 DEF OfCall, Held
  <2>15. WholeFiles'
    <3>1. disk' = disk
      BY <1>4
    <3> QED
      BY <1>3, <2>6, <2>10, <2>12, <3>1 DEF WholeFiles, Extent
  <2>16. Accounts'
    <3>1. \A q \in Procs \ {p} : OfCall(q) = {} /\ OfCall(q)' = {}
      BY <1>3, <2>4, OthersHoldNothing
    <3>2. \A t \in Sectors : t \in free_map <=> t \in lost \/ Filed(t) \/ t \in OfCall(p)
      BY <2>6, <3>1, SoleAccounts
    <3>3. \A t : (\E f \in Files \cup {s} : t \in OfFile(f)) <=> Filed(t) \/ t \in OfCall(p)
      BY <2>13 DEF Filed
    <3>4. \A t \in Sectors : t \in free_map <=> t \in lost
                                \/ (\E f \in Files \cup {s} : t \in OfFile(f)) \/ t \in {}
      BY <3>2, <3>3
    <3>5. /\ \A f \in Files : OfFile(f) \subseteq free_map /\ OfFile(f) \cap lost = {}
          /\ lost \subseteq free_map /\ OfCall(p) \cap lost = {}
          /\ \A f, g \in Files : f # g => OfFile(f) \cap OfFile(g) = {}
      BY <2>6 DEF Accounts
    <3>6. /\ \A f \in Files \cup {s} : OfFile(f) \subseteq free_map /\ OfFile(f) \cap lost = {}
                                       /\ OfFile(f) \cap {} = {}
          /\ {} \subseteq free_map /\ {} \cap lost = {}
          /\ \A f, g \in Files \cup {s} : f # g => OfFile(f) \cap OfFile(g) = {}
      BY <2>6, <2>13, <3>5
    <3>7. free_map' = free_map /\ lost' = lost
      BY <1>4
    <3> QED
      BY <2>10, <2>11, <2>14, <3>1, <3>4, <3>5, <3>6, <3>7, AccountsOf
  <2>17. DirOK'
    <3>1. \A f \in Entries : dir[f].name # n
      BY <1>7 DEF InDir
    <3>2. \A f \in Entries : dir[f].sector # s
      BY <1>3, <2>7 DEF Files, Named
    <3>3. n # NoOne /\ s # 0
      BY <1>3, FileSystemAssumption
    <3> QED
      BY <2>5, <2>6, <3>1, <3>2, <3>3 DEF DirOK
  <2>18. Shape("close_root", c, file[p], executable[p])
    BY <1>1, <2>2, MakingShape DEF Making
  <2>19. /\ "close_root" \in Places
         /\ "close_root" \notin {"erase", "write"} \cup Opening \cup Freeing
         /\ "close_root" \notin {"zero", "add"}
    BY DEF Places, Leaving, Opening, Freeing
  <2>20. \A t \in OpenFiles : disk'[t] = disk[t] /\ (t \in Named' <=> t \in Named)
    BY <1>4, <2>7, <2>8 DEF Files
  <2> QED
    BY <1>3, <1>5, <2>2, <2>3, <2>5, <2>15, <2>16, <2>17, <2>18, <2>19, <2>20, HolderStep
<1> QED
  BY <1>6, <1>7 DEF DirAdd

LEMMA WriteSectorKeeps == ASSUME FileInv, NEW p \in Procs, WriteSector(p), Sound' PROVE FileInv'
<1>1. pc[p] = "write" /\ pc[p] \notin Outside \cup {"read"} \cup Freeing
  BY DEF WriteSector, At, Outside, Freeing
<1>2. /\ call[p] \in Calls /\ call \in [Procs -> Calls] /\ pc \in [Procs -> Places]
      /\ free_map \subseteq Sectors /\ disk \in [Sectors -> DiskOf]
      /\ dir \in [Entries -> [name : Names \cup {NoOne}, sector : Sectors \cup {0}]]
      /\ 0 \notin Sectors /\ Root \notin Sectors
      /\ Shape(pc[p], call[p], file[p], executable[p]) /\ Knows(p)
      /\ file[p] \in InodesOrNone
  BY FileSystemAssumption DEF FileInv, Types, Shapes, Knowing, Sectors, Root
<1>3. /\ call[p].op = "write" /\ call[p].sector = 0 /\ call[p].start = 0 /\ call[p].root = 0
      /\ call[p].ino = 0 /\ call[p].op \notin {"none", "load"}
  BY <1>1, <1>2
  DEF Shape, PlacesOf, Making, Leaving, Opening, Closing, Outside, Calls, Ops, HasRoot
<1>4. PICK i \in Inodes : i = file[p]
  BY <1>2, <1>3 DEF Shape, InodesOrNone
<1>5. ~NotRead(i)
  <2>1. raced' = (NotRead(file[p]) \/ inode[file[p]].deny_write_cnt > 0)
    BY DEF WriteSector, Race
  <2> QED
    BY <1>4, <2>1 DEF Sound
<1>6. PICK s \in Sectors : s = inode[i].sector
  BY <1>2, <1>4, FileSystemAssumption DEF Knows, Inodes
<1>7. /\ s \in OpenFiles /\ s \in Files /\ inode[i].data = disk[s]
  BY <1>2, <1>5, <1>6 DEF FileInv, InodesOK, InodeOK, OpenFiles, Files
<1>8. /\ pc' = [pc EXCEPT ![p] = "return"] /\ call' = [call EXCEPT ![p] = call[p]]
      /\ UNCHANGED <<free_map, dir, inode, call, tables, lock_f, lost>>
  BY <1>2 DEF WriteSector, Goto
<1>9. disk' \in [Sectors -> DiskOf] /\ \A g \in Files : disk'[g] = disk[g]
  <2>1. CASE UNCHANGED disk
    BY <1>2, <2>1
  <2>2. ASSUME NEW t \in Extent(disk[s]), NEW v \in Values, disk' = [disk EXCEPT ![t] = Data(v)]
        PROVE  disk' \in [Sectors -> DiskOf] /\ \A g \in Files : disk'[g] = disk[g]
    <3>1. Data(v) \in DiskOf
      BY DEF Data, DiskOf, Contents
    <3>2. \A g \in Files : g # t
      <4>1. t \in OfFile(s) /\ \A g \in Files : g \in OfFile(g)
        BY DEF OfFile
      <4>2. /\ \A f, g \in Files : f # g => OfFile(f) \cap OfFile(g) = {}
            /\ s \notin Extent(disk[s])
        BY <1>7 DEF FileInv, Accounts, WholeFiles
      <4> QED
        BY <1>7, <4>1, <4>2
    <3>3. \A g \in Files : g \in Sectors
      BY <1>2 DEF FileInv, Accounts, OfFile
    <3> QED
      BY <1>2, <2>2, <3>1, <3>2, <3>3
  <2>3. UNCHANGED disk \/ \E t \in Extent(disk[s]), v \in Values : disk' = [disk EXCEPT ![t] = Data(v)]
    BY <1>4, <1>7 DEF WriteSector
  <2> QED
    BY <2>1, <2>2, <2>3
<1>10. Named' = Named /\ OpenFiles' = OpenFiles /\ Files' = Files
  BY <1>8, NamedKept, OpenFilesKept DEF Files
<1>11. WholeFiles' /\ Accounts'
  <2>1. \A q \in Procs : OfCall(q)' = OfCall(q)
    BY <1>8 DEF OfCall, Held
  <2> QED
    BY <1>8, <1>9, <1>10, <2>1, FilesKept
<1>12. Shape("return", call[p], file[p], executable[p])
  <2>1. ~HasRoot("return", call[p])
    BY DEF HasRoot, Making, Opening, Closing
  <2> QED
    BY <1>1, <1>2, <1>3, <2>1
    DEF Shape, PlacesOf, Making, Opening, Closing, Leaving, Outside, Freeing
<1>13. /\ "return" \in Places /\ "return" \notin {"erase", "write"} \cup Opening \cup Freeing
       /\ "return" \notin {"zero", "add"}
  BY DEF Places, Opening, Freeing
<1>14. DirOK'
  BY <1>8 DEF FileInv, DirOK
<1>15. /\ UNCHANGED <<inode, tables, lock_f>> /\ free_map' \subseteq Sectors
       /\ dir' \in [Entries -> [name : Names \cup {NoOne}, sector : Sectors \cup {0}]]
       /\ \A g \in OpenFiles : disk'[g] = disk[g] /\ (g \in Named' <=> g \in Named)
  BY <1>2, <1>8, <1>9, <1>10 DEF Files
<1> QED
  BY <1>1, <1>2, <1>3, <1>8, <1>9, <1>11, <1>12, <1>13, <1>14, <1>15, HolderStep

LEMMA EraseKeeps == ASSUME FileInv, NEW p \in Procs, Erase(p) PROVE FileInv'
<1>1. pc[p] = "erase" /\ pc[p] \notin Outside \cup {"read"} \cup Freeing
  BY DEF Erase, At, Outside, Freeing
<1>2. /\ call[p] \in Calls /\ call \in [Procs -> Calls] /\ pc \in [Procs -> Places]
      /\ inode \in [Inodes -> InodeRecords]
      /\ dir \in [Entries -> [name : Names \cup {NoOne}, sector : Sectors \cup {0}]]
      /\ 0 \notin Sectors /\ Root \notin Sectors
      /\ Shape(pc[p], call[p], file[p], executable[p]) /\ Knows(p)
  BY FileSystemAssumption DEF FileInv, Types, Shapes, Knowing, Sectors, Root, InodeRecords
<1>3. /\ call[p].op = "remove" /\ call[p].sector = 0 /\ call[p].start = 0 /\ call[p].root # 0
      /\ call[p].ino # 0 /\ call[p].op \notin {"none", "load"} /\ call[p].name \in Names
  BY <1>1, <1>2
  DEF Shape, PlacesOf, Making, Leaving, Opening, Closing, Outside, Calls, Ops, HasRoot
<1>4. PICK j \in Inodes : j = call[p].ino
  BY <1>2, <1>3 DEF Calls, InodesOrNone
<1>5. PICK s \in Sectors : s = inode[j].sector
  BY <1>2, <1>3, <1>4 DEF Knows
<1>6. PICK e \in Entries : dir[e].name = call[p].name /\ dir[e].sector = s
  <2>1. InUse(call[p].name, s)
    BY <1>1, <1>2, <1>4, <1>5 DEF Knows
  <2>2. PICK e \in Entries : dir[e] = Entry(call[p].name, s)
    BY <2>1 DEF InUse
  <2> QED
    BY <2>2 DEF Entry
<1>7. DirOK /\ OpensShared /\ \A i \in Inodes : InodeOK(i)
  BY DEF FileInv, InodesOK
<1>8. InDir(call[p].name) = {e}
  <2>1. call[p].name # NoOne
    BY <1>3, FileSystemAssumption
  <2>2. \A f \in Entries : dir[f].name = call[p].name => f = e
    BY <1>6, <1>7, <2>1 DEF DirOK
  <2> QED
    BY <1>6, <2>2 DEF InDir
<1>9. dir' = [f \in Entries |-> IF f = e THEN FreeEntry ELSE dir[f]]
  BY <1>8 DEF Erase, Erased
<1>10. FreeEntry \in [name : Names \cup {NoOne}, sector : Sectors \cup {0}]
       /\ FreeEntry.name = NoOne /\ FreeEntry.sector = 0
  BY DEF FreeEntry
<1>11. /\ dir' \in [Entries -> [name : Names \cup {NoOne}, sector : Sectors \cup {0}]]
       /\ dir'[e] = FreeEntry /\ \A f \in Entries \ {e} : dir'[f] = dir[f]
  BY <1>2, <1>9, <1>10
<1>12. PICK n \in InodeRecords :
        /\ n.sector = inode[j].sector /\ n.open_cnt = inode[j].open_cnt
        /\ n.deny_write_cnt = inode[j].deny_write_cnt /\ n.removed = TRUE
        /\ n.data = inode[j].data /\ inode' = [inode EXCEPT ![j] = n]
  <2> DEFINE m == [inode[j] EXCEPT !.removed = TRUE]
  <2>1. inode' = [inode EXCEPT ![j] = m]
    BY <1>2, <1>4 DEF Erase
  <2>2. /\ m \in InodeRecords /\ m.sector = inode[j].sector /\ m.open_cnt = inode[j].open_cnt
        /\ m.deny_write_cnt = inode[j].deny_write_cnt /\ m.removed = TRUE
        /\ m.data = inode[j].data
    BY <1>2 DEF InodeRecords
  <2> HIDE DEF m
  <2> QED
    BY <2>1, <2>2
<1>13. /\ pc' = [pc EXCEPT ![p] = "close"] /\ call' = [call EXCEPT ![p] = call[p]]
       /\ UNCHANGED <<free_map, disk, call, file, executable, ran, lock_f, lost>>
  BY <1>2 DEF Erase, Goto, tables
<1>14. /\ Moves(p) /\ pc'[p] = "close" /\ call'[p] = call[p]
       /\ call' \in [Procs -> Calls] /\ pc' \in [Procs -> Places]
  <2>1. "close" \in Places
    BY DEF Places, Closing
  <2> QED
    BY <1>2, <1>13, <2>1, Local DEF FileInv
<1>15. /\ inode'[j] = n /\ inode' \in [Inodes -> InodeRecords]
       /\ \A k \in Inodes \ {j} : inode'[k] = inode[k]
  BY <1>2, <1>12
<1>16. \A k \in Inodes : inode'[k].sector = inode[k].sector
                        /\ inode'[k].open_cnt = inode[k].open_cnt
                        /\ inode'[k].deny_write_cnt = inode[k].deny_write_cnt
  BY <1>12, <1>15
<1>17. Types'
  BY <1>11, <1>13, <1>14, <1>15 DEF FileInv, Types, InodeRecords
<1>18. Shape(pc[p], call[p], file[p], executable[p])'
  <2>1. HasRoot("close", call[p]) /\ HasRoot("erase", call[p])
    BY <1>3 DEF HasRoot, Closing
  <2>2. Shape("close", call[p], file[p], executable[p])
    BY <1>1, <1>2, <1>3, <2>1
    DEF Shape, PlacesOf, Making, Opening, Closing, Leaving, Outside, Freeing
  <2> QED
    BY <1>13, <1>14, <2>2
<1>19. \A t : t \in Named' <=> t \in Named /\ t # s
  <2>1. \A t : t \in Named' <=> t # 0 /\ \E f \in Entries : t = dir'[f].sector
    BY DEF Named
  <2>2. \A t : t \in Named <=> t # 0 /\ \E f \in Entries : t = dir[f].sector
    BY DEF Named
  <2>3. \A t : t # 0 => ((\E f \in Entries : t = dir'[f].sector)
                           <=> (\E f \in Entries \ {e} : t = dir[f].sector))
    BY <1>10, <1>11
  <2>4. \A f \in Entries \ {e} : dir[f].sector # s
    BY <1>2, <1>6, <1>7 DEF DirOK
  <2>5. \A t : (\E f \in Entries : t = dir[f].sector)
                 <=> t = s \/ (\E f \in Entries \ {e} : t = dir[f].sector)
    BY <1>6
  <2> TAKE t
  <2> DEFINE others == \E f \in Entries \ {e} : t = dir[f].sector
  <2>6. others => t # s
    BY <2>4
  <2>7. t \in Named' <=> t # 0 /\ others
    BY <2>1, <2>3
  <2>8. t \in Named <=> t # 0 /\ (t = s \/ others)
    BY <2>2, <2>5
  <2> HIDE DEF others
  <2> QED
    BY <1>2, <2>6, <2>7, <2>8
<1>20. OpenFiles' = OpenFiles
  BY <1>16, OpenFilesKept
<1>21. Files' = Files
  <2>1. s \in OpenFiles
    BY <1>2, <1>5 DEF OpenFiles
  <2>2. \A t : t \in Files' <=> t \in Files
    BY <1>19, <1>20, <2>1 DEF Files
  <2> QED
    BY <2>2
<1>22. WholeFiles' /\ Accounts'
  <2>1. \A q \in Procs : OfCall(q)' = OfCall(q)
    BY <1>13 DEF OfCall, Held
  <2> QED
    BY <1>13, <1>21, <2>1, FilesKept
<1>23. InodesOK'
  <2>1. OpensShared'
    BY <1>7, <1>16 DEF OpensShared
  <2>2. ASSUME NEW k \in Inodes PROVE InodeOK(k)'
    <3>1. InodeOK(k)
      BY <1>7
    <3>2. \A q \in Procs : pc[q] \in {"read"} \cup Freeing =>
             pc'[q] = pc[q] /\ call'[q].found = call[q].found
      BY <1>1, <1>13, <1>14 DEF Moves
    <3>3. CASE k = j
      <4>1. inode[j].sector = s /\ s # 0 /\ s # Root
        BY <1>2, <1>5
      <4>2. NotRead(j)' <=> NotRead(j)
        BY <1>12, <1>15 DEF NotRead
      <4>3. n.sector = s /\ n.removed = TRUE /\ s \notin Named'
        BY <1>5, <1>12, <1>19
      <4> QED
        BY <1>5, <1>12, <1>13, <1>15, <3>1, <3>2, <3>3, <4>1, <4>2, <4>3 DEF InodeOK
    <3>4. CASE k # j
      <4>1. inode'[k] = inode[k]
        BY <1>15, <3>4
      <4>2. inode[k].sector # s
        BY <1>2, <1>5, <1>7, <3>4 DEF OpensShared
      <4>3. inode[k].sector \in Named' <=> inode[k].sector \in Named
        BY <1>19, <4>2
      <4> QED
        BY <1>13, <3>1, <3>2, <4>1, <4>3 DEF InodeOK, NotRead
    <3> QED
      BY <3>3, <3>4
  <2> QED
    BY <2>1, <2>2 DEF InodesOK
<1>24. OneFrees' /\ DirOK'
  <2>1. "close" \notin Freeing
    BY DEF Freeing
  <2>2. OneFrees'
    BY <1>14, <2>1, OneFreesKept
  <2> QED
    BY <1>7, <1>10, <1>11, <2>2 DEF DirOK
<1>25. \A q \in Procs \ {p}, k \in Inodes : Uses(q, k) =>
           /\ inode'[k].sector = inode[k].sector
           /\ pc[q] \in Freeing => inode'[k].open_cnt = 0 \/ inode[k].open_cnt > 0
  <2>1. \A k \in Inodes : inode[k].open_cnt \in Nat
    BY <1>2 DEF InodeRecords
  <2> QED
    BY <1>16, <2>1
<1>26. Knows(p)' /\ Sees(p)'
  <2>1. /\ file[p] \in InodesOrNone /\ executable[p] \in InodesOrNone
        /\ call[p].root \in InodesOrNone /\ call[p].ino \in InodesOrNone
    BY <1>2 DEF FileInv, Types, Calls
  <2>2. /\ file[p] # 0 => inode'[file[p]].sector \in Sectors
        /\ executable[p] # 0 => inode'[executable[p]].sector \in Sectors
        /\ call[p].root # 0 => inode'[call[p].root].sector = Root
        /\ call[p].ino # 0 => inode'[call[p].ino].sector \in Sectors
    BY <1>2, <1>16, <2>1 DEF Knows, InodesOrNone
  <2> QED
    BY <1>3, <1>13, <1>14, <2>2 DEF Knows, Sees, Freeing, Opening
<1>27. \A k \in Inodes :
           /\ inode'[k].open_cnt + ShareOf(p, k) + ran[k]
                = inode[k].open_cnt + ShareOf(p, k)' + ran'[k]
           /\ inode'[k].deny_write_cnt + One(executable[p], k)
                = inode[k].deny_write_cnt + One(executable'[p], k)
  <2>1. \A k : ShareOf(p, k)' = ShareOf(p, k)
    BY <1>1, <1>13, <1>14 DEF ShareOf, Share
  <2> QED
    BY <1>13, <1>16, <2>1
<1>28. call'[p].op = call[p].op /\ call'[p].met = call[p].met /\ UNCHANGED lock_f
       /\ pc[p] \notin Outside
  BY <1>1, <1>13, <1>14
<1> QED
  BY <1>3, <1>14, <1>17, <1>18, <1>22, <1>23, <1>24, <1>25, <1>26, <1>27, <1>28, StepKeeps

-----------------------------------------------------------------------------
(* The kernel boots, at first and when the power has failed.               *)

Booted ==
  /\ inode = [i \in Inodes |-> FreeInode]
  /\ pc = [p \in Procs |-> "new"]
  /\ call = [p \in Procs |-> NoCall]
  /\ file = [p \in Procs |-> 0] /\ executable = [p \in Procs |-> 0]
  /\ ran = [i \in Inodes |-> 0]
  /\ free_map \subseteq Sectors
  /\ dir \in [Entries -> [name : Names \cup {NoOne}, sector : Sectors \cup {0}]]
  /\ disk \in [Sectors -> DiskOf]
  /\ DirOK
  /\ \A s \in Named : disk[s].data = "inode" /\ disk[s].start \in Sectors /\ s \notin Extent(disk[s])
  /\ \A s \in Named : OfFile(s) \subseteq free_map
  /\ \A s, t \in Named : s # t => OfFile(s) \cap OfFile(t) = {}
  /\ lost = free_map \ UNION {OfFile(s) : s \in Named}

LEMMA BootedIs == Booted => FileInv
<1> SUFFICES ASSUME Booted PROVE FileInv
  OBVIOUS
<1>1. /\ FreeInode \in InodeRecords /\ FreeInode.sector = 0 /\ FreeInode.open_cnt = 0
      /\ FreeInode.deny_write_cnt = 0
  BY DEF FreeInode, InodeRecords, Unread, Data, DiskOf, Contents
<1>2. /\ \A i \in Inodes : inode[i] = FreeInode /\ ran[i] = 0
      /\ \A p \in Procs : /\ pc[p] = "new" /\ call[p] = NoCall
                          /\ file[p] = 0 /\ executable[p] = 0
  BY DEF Booted
<1>3. 0 \notin Inodes
  BY DEF Inodes
<1>4. Types
  <2>1. "new" \in Places /\ NoCall \in Calls /\ 0 \in InodesOrNone /\ 0 \in Nat
    BY NoCallIs DEF Places, Outside, InodesOrNone
  <2>2. inode \in [Inodes -> InodeRecords] /\ pc \in [Procs -> Places]
        /\ call \in [Procs -> Calls] /\ file \in [Procs -> InodesOrNone]
        /\ executable \in [Procs -> InodesOrNone] /\ ran \in [Inodes -> Nat]
    BY <1>1, <2>1 DEF Booted
  <2> QED
    BY <2>2 DEF Booted, Types, InodeRecords
<1>5. Shapes
  <2>1. ~HasRoot("new", NoCall)
    BY DEF HasRoot, Making, Opening, Closing
  <2>2. Shape("new", NoCall, 0, 0)
    BY <2>1, NoCallIs DEF Shape, PlacesOf, Making, Opening, Leaving, Outside, Closing, Freeing
  <2> QED
    BY <1>2, <2>2 DEF Shapes
<1>6. Solo /\ MetOK
  BY <1>2, NoCallIs DEF Solo, MetOK
<1>7. Knowing
  BY <1>2, NoCallIs DEF Knowing, Knows, Freeing
<1>8. OneFrees
  BY <1>2 DEF OneFrees, Freeing
<1>9. InodesOK
  <2>1. 0 \notin Sectors /\ Root # 0
    BY FileSystemAssumption DEF Sectors, Root
  <2> QED
    BY <1>1, <1>2, <2>1 DEF InodesOK, OpensShared, InodeOK
<1>10. Files = Named
  <2>1. OpenFiles = {}
    BY <1>1, <1>2 DEF OpenFiles
  <2> QED
    BY <2>1 DEF Files
<1>11. \A p \in Procs : OfCall(p) = {}
  BY <1>2, NoCallIs DEF OfCall, Held
<1>12. WholeFiles
  BY <1>10 DEF WholeFiles, Booted
<1>13. Accounts
  BY <1>10, <1>11 DEF Accounts, Booted
<1>14. Counted
  <2> SUFFICES ASSUME NEW i \in Inodes
      PROVE /\ inode[i].open_cnt = Holders(i) + ran[i]
            /\ inode[i].deny_write_cnt = Cardinality({p \in Procs : executable[p] = i})
    BY DEF Counted
  <2>1. /\ {p \in Procs : file[p] = i} = {} /\ {p \in Procs : executable[p] = i} = {}
        /\ {p \in Procs : call[p].root = i} = {} /\ {p \in Procs : call[p].ino = i} = {}
        /\ {p \in Procs : pc[p] = "read" /\ call[p].found = i} = {}
    BY <1>2, <1>3, NoCallIs
  <2>2. Cardinality({}) = 0
    BY FS_EmptySet
  <2>3. /\ Cardinality({p \in Procs : file[p] = i}) = 0
        /\ Cardinality({p \in Procs : executable[p] = i}) = 0
        /\ Cardinality({p \in Procs : call[p].root = i}) = 0
        /\ Cardinality({p \in Procs : call[p].ino = i}) = 0
        /\ Cardinality({p \in Procs : pc[p] = "read" /\ call[p].found = i}) = 0
    BY <2>1, <2>2, Zenon
  <2>4. Holders(i) = 0 + 0 + 0 + 0 + 0
    BY <2>3, Zenon DEF Holders
  <2>5. inode[i] = FreeInode /\ ran[i] = 0
    BY <1>2
  <2> QED
    BY <1>1, <2>3, <2>4, <2>5
<1>15. Seeing
  BY <1>2 DEF Seeing, Sees, Opening
<1> QED
  BY <1>4, <1>5, <1>6, <1>7, <1>8, <1>9, <1>12, <1>13, <1>14, <1>15 DEF FileInv, Booted

LEMMA InitHolds == Init => FileInv
<1> SUFFICES ASSUME Init PROVE Booted
  BY BootedIs
<1>1. 3 \in Sectors /\ 4 \in Sectors /\ Sectors \subseteq Nat /\ 1 \in Entries
  BY FileSystemAssumption DEF Sectors, Entries
<1>2. /\ \A e \in Entries : /\ e = 1 => dir[e].name = Program /\ dir[e].sector = 3
                            /\ e # 1 => dir[e].name = NoOne /\ dir[e].sector = 0
      /\ disk[3] = InodeDisk(4, 1)
  BY <1>1 DEF Init, FreeEntry
<1>3. Named = {3}
  BY <1>1, <1>2 DEF Named
<1>4. Extent(disk[3]) = {4} /\ disk[3].data = "inode" /\ disk[3].start = 4
  <2>1. InodeDisk(4, 1).start = 4 /\ InodeDisk(4, 1).length = 1 /\ InodeDisk(4, 1).data = "inode"
    BY DEF InodeDisk
  <2>2. 4..(4 + 1 - 1) = {4}
    OBVIOUS
  <2> QED
    BY <1>2, <2>1, <2>2 DEF Extent
<1>5. OfFile(3) = {3, 4}
  BY <1>4 DEF OfFile
<1>6. free_map = {3, 4} /\ lost = {}
  BY DEF Init
<1>7. dir \in [Entries -> [name : Names \cup {NoOne}, sector : Sectors \cup {0}]]
  <2>1. /\ [name |-> Program, sector |-> 3] \in [name : Names \cup {NoOne}, sector : Sectors \cup {0}]
        /\ FreeEntry \in [name : Names \cup {NoOne}, sector : Sectors \cup {0}]
    BY <1>1, FileSystemAssumption DEF FreeEntry
  <2> QED
    BY <2>1 DEF Init
<1>8. disk \in [Sectors -> DiskOf]
  <2>1. InodeDisk(4, 1) \in DiskOf /\ Data(Zeros) \in DiskOf
    BY FileSystemAssumption DEF InodeDisk, Data, DiskOf, Contents
  <2> QED
    BY <2>1 DEF Init
<1>9. DirOK
  BY <1>2, FileSystemAssumption DEF DirOK
<1>10. UNION {OfFile(s) : s \in Named} = {3, 4}
  BY <1>3, <1>5
<1> QED
  BY <1>1, <1>3, <1>4, <1>5, <1>6, <1>7, <1>8, <1>9, <1>10 DEF Init, Booted

LEMMA PowerFailureKeeps == ASSUME FileInv, PowerFailure PROVE FileInv'
<1>1. Booted'
  <2>1. UNCHANGED <<free_map, dir, disk>>
    BY DEF PowerFailure, onDisk
  <2>2. Named' = Named
    BY <2>1, NamedKept
  <2>3. \A s : OfFile(s)' = OfFile(s)
    BY <2>1 DEF OfFile, Extent
  <2>4. lost' = free_map \ UNION {OfFile(s) : s \in Named}
    BY DEF PowerFailure
  <2>5. /\ Types /\ DirOK /\ WholeFiles /\ Accounts
    BY DEF FileInv
  <2>6. DirOK'
    BY <2>1, <2>5 DEF DirOK
  <2>7. Named \subseteq Files
    BY DEF Files
  <2>8. UNION {OfFile(s)' : s \in Named'} = UNION {OfFile(s) : s \in Named}
    BY <2>2, <2>3
  <2>9. /\ free_map' \subseteq Sectors
        /\ dir' \in [Entries -> [name : Names \cup {NoOne}, sector : Sectors \cup {0}]]
        /\ disk' \in [Sectors -> DiskOf]
    BY <2>1, <2>5 DEF Types
  <2>10. \A s \in Named' : disk'[s].data = "inode" /\ disk'[s].start \in Sectors
                           /\ s \notin Extent(disk'[s])
    BY <2>1, <2>2, <2>5, <2>7 DEF WholeFiles
  <2>11. /\ \A s \in Named' : OfFile(s)' \subseteq free_map'
         /\ \A s, t \in Named' : s # t => OfFile(s)' \cap OfFile(t)' = {}
    BY <2>1, <2>2, <2>3, <2>5, <2>7 DEF Accounts
  <2>12. lost' = free_map' \ UNION {OfFile(s)' : s \in Named'}
    BY <2>1, <2>4, <2>8
  <2>13. /\ inode' = [i \in Inodes |-> FreeInode] /\ pc' = [p \in Procs |-> "new"]
         /\ call' = [p \in Procs |-> NoCall] /\ file' = [p \in Procs |-> 0]
         /\ executable' = [p \in Procs |-> 0] /\ ran' = [i \in Inodes |-> 0]
    BY DEF PowerFailure
  <2> QED
    BY <2>6, <2>9, <2>10, <2>11, <2>12, <2>13 DEF Booted, Extent
<1> QED
  BY <1>1, BootedIs, PTL

-----------------------------------------------------------------------------
(* The theorems.                                                           *)

LEMMA StepsKeep == ASSUME FileInv, NEW p \in Procs, Step(p), Sound' PROVE FileInv'
<1>1. CASE Scan(p)
  BY <1>1, ScanKeeps
<1>2. CASE Reopen(p)
  BY <1>2, ReopenKeeps
<1>3. CASE Push(p)
  BY <1>3, PushKeeps
<1>4. CASE ReadInode(p)
  BY <1>4, ReadInodeKeeps
<1>5. CASE Lookup(p)
  BY <1>5, LookupKeeps
<1>6. CASE Alloc(p)
  BY <1>6, AllocKeeps
<1>7. CASE AllocData(p)
  BY <1>7, AllocDataKeeps
<1>8. CASE WriteInode(p)
  BY <1>8, WriteInodeKeeps
<1>9. CASE ZeroData(p)
  BY <1>9, ZeroDataKeeps
<1>10. CASE DirAdd(p)
  BY <1>10, DirAddKeeps
<1>11. CASE Release(p)
  BY <1>11, ReleaseKeeps
<1>12. CASE Erase(p)
  BY <1>12, EraseKeeps
<1>13. CASE CloseInode(p)
  BY <1>13, CloseInodeKeeps
<1>14. CASE FreeIno(p)
  BY <1>14, FreeInoKeeps
<1>15. CASE FreeData(p)
  BY <1>15, FreeDataKeeps
<1>16. CASE CloseRoot(p)
  BY <1>16, CloseRootKeeps
<1>17. CASE FreeRoot(p)
  BY <1>17, FreeRootKeeps
<1>18. CASE WriteCheck(p)
  BY <1>18, WriteCheckKeeps
<1>19. CASE WriteSector(p)
  BY <1>19, WriteSectorKeeps
<1>20. CASE Return(p)
  BY <1>20, ReturnKeeps
<1>21. CASE DenyWrite(p)
  BY <1>21, DenyWriteKeeps
<1>22. CASE AllowWrite(p)
  BY <1>22, AllowWriteKeeps
<1> QED
  BY <1>1, <1>2, <1>3, <1>4, <1>5, <1>6, <1>7, <1>8, <1>9, <1>10, <1>11, <1>12, <1>13, <1>14,
     <1>15, <1>16, <1>17, <1>18, <1>19, <1>20, <1>21, <1>22 DEF Step

LEMMA StutterKeeps == ASSUME FileInv, UNCHANGED vars PROVE FileInv'
<1>1. /\ UNCHANGED <<free_map, dir, disk, inode, pc, call, file, executable, ran, lock_f, lost>>
  BY DEF vars, onDisk, tables
<1>2. /\ Named' = Named /\ OpenFiles' = OpenFiles /\ Files' = Files
      /\ \A q \in Procs : OfCall(q)' = OfCall(q) /\ Held(q)' = Held(q)
      /\ \A s : OfFile(s)' = OfFile(s)
      /\ \A i : Holders(i)' = Holders(i)
  BY <1>1 DEF Files, Named, OpenFiles, OfCall, Held, OfFile, Extent, Holders
<1>3. Types' /\ Shapes' /\ Solo' /\ OneFrees' /\ DirOK' /\ MetOK' /\ OpensShared'
  BY <1>1 DEF FileInv, Types, Shapes, Solo, OneFrees, DirOK, MetOK, InodesOK, OpensShared,
     Shape, HasRoot
<1>4. Knowing' /\ Seeing'
  BY <1>1, <1>2 DEF FileInv, Knowing, Knows, Seeing, Sees, InUse
<1>5. \A i \in Inodes : InodeOK(i)'
  BY <1>1, <1>2 DEF FileInv, InodesOK, InodeOK, NotRead
<1>6. WholeFiles' /\ Accounts' /\ Counted'
  BY <1>1, <1>2 DEF FileInv, WholeFiles, Accounts, Counted
<1> QED
  BY <1>3, <1>4, <1>5, <1>6 DEF FileInv, InodesOK

LEMMA StepIsSound == ASSUME NEW p \in Procs, Step(p) PROVE Sound
<1>1. /\ (Scan(p) => Sound) /\ (Reopen(p) => Sound) /\ (Push(p) => Sound)
      /\ (ReadInode(p) => Sound) /\ (Lookup(p) => Sound) /\ (Alloc(p) => Sound)
  BY DEF Scan, Reopen, Push, ReadInode, Lookup, Alloc, At, Sound
<1>2. /\ (AllocData(p) => Sound) /\ (WriteInode(p) => Sound) /\ (ZeroData(p) => Sound)
      /\ (DirAdd(p) => Sound) /\ (Release(p) => Sound) /\ (Erase(p) => Sound)
  BY DEF AllocData, WriteInode, ZeroData, DirAdd, Release, Erase, At, Sound
<1>3. /\ (CloseInode(p) => Sound) /\ (FreeIno(p) => Sound) /\ (FreeData(p) => Sound)
      /\ (CloseRoot(p) => Sound) /\ (FreeRoot(p) => Sound) /\ (WriteCheck(p) => Sound)
  BY DEF CloseInode, FreeIno, FreeData, CloseRoot, FreeRoot, WriteCheck, At, Sound
<1>4. /\ (WriteSector(p) => Sound) /\ (Return(p) => Sound) /\ (DenyWrite(p) => Sound)
      /\ (AllowWrite(p) => Sound)
  BY DEF WriteSector, Return, DenyWrite, AllowWrite, At, Sound
<1> QED
  BY <1>1, <1>2, <1>3, <1>4 DEF Step

\* Nothing takes a fault back: what is sound was so before.
LEMMA SoundBefore == ASSUME [Next]_vars, Sound' PROVE Sound
<1>1. CASE UNCHANGED vars
  BY <1>1 DEF vars, faults, Sound
<1>2. CASE PowerFailure
  BY <1>2 DEF PowerFailure, Sound
<1>3. ASSUME NEW p \in Procs, Call(p) PROVE Sound
  BY <1>3 DEF Call, Create, Open, Remove, Write, Close, Exit, Load, At, Sound
<1>4. ASSUME NEW p \in Procs, Step(p) PROVE Sound
  BY <1>4, StepIsSound
<1> QED
  BY <1>1, <1>2, <1>3, <1>4 DEF Next

LEMMA NextKeeps == IInv /\ [Next]_vars => IInv'
<1> SUFFICES ASSUME IInv, [Next]_vars, Sound' PROVE FileInv'
  BY DEF IInv
<1>1. FileInv
  BY SoundBefore DEF IInv
<1>2. CASE UNCHANGED vars
  BY <1>1, <1>2, StutterKeeps
<1>3. CASE PowerFailure
  BY <1>1, <1>3, PowerFailureKeeps
<1>4. ASSUME NEW p \in Procs, Call(p) PROVE FileInv'
  BY <1>1, <1>4, CallsKeep
<1>5. ASSUME NEW p \in Procs, Step(p) PROVE FileInv'
  BY <1>1, <1>5, StepsKeep
<1> QED
  BY <1>2, <1>3, <1>4, <1>5 DEF Next

THEOREM InvariantHolds == Spec => []IInv
<1>1. Init => IInv
  BY InitHolds DEF IInv
<1> QED
  BY <1>1, NextKeeps, PTL DEF Spec

(***************************************************************************)
(* EntriesBacked: whatever the order in which creates and removes write    *)
(* the disk, and wherever the power fails, an entry of the directory leads *)
(* to an inode whose sectors are marked, and no name has two entries.      *)
(***************************************************************************)
THEOREM EntriesAreBacked == Spec => []EntriesBacked
<1>1. IInv => EntriesBacked
  <2> SUFFICES ASSUME FileInv, NEW e \in Entries, dir[e].sector # 0
               PROVE  /\ dir[e].sector \in Sectors /\ disk[dir[e].sector].data = "inode"
                      /\ OfFile(dir[e].sector) \subseteq free_map
                      /\ InDir(dir[e].name) = {e}
    BY DEF IInv, EntriesBacked
  <2>1. dir[e].sector \in Sectors /\ dir[e].name # NoOne
    BY DEF FileInv, Types, DirOK
  <2>2. dir[e].sector \in Files
    BY DEF Files, Named
  <2>3. InDir(dir[e].name) = {e}
    BY <2>1 DEF FileInv, DirOK, InDir
  <2> QED
    BY <2>1, <2>2, <2>3 DEF FileInv, WholeFiles, Accounts
<1> QED
  BY <1>1, InvariantHolds, PTL

(***************************************************************************)
(* SectorsAccounted: every marked sector belongs to exactly one file named *)
(* or open, to a call that is allocating or releasing it, or is lost.      *)
(***************************************************************************)
THEOREM SectorsAreAccounted == Spec => []SectorsAccounted
<1>1. IInv => SectorsAccounted
  <2> SUFFICES ASSUME FileInv PROVE SectorsAccounted
    BY DEF IInv, SectorsAccounted
  <2> DEFINE calls == {p \in Procs : OfCall(p) # {}}
             ofFiles == UNION {OfFile(s) : s \in Files}
             ofCalls == UNION {OfCall(p) : p \in calls}
             called(t) == \E p \in Procs : t \in OfCall(p)
  <2>1. free_map \subseteq Sectors /\ Accounts
    BY DEF FileInv, Types
  <2>2. \A t : (t \in ofFiles <=> Filed(t)) /\ (t \in ofCalls <=> called(t))
    BY DEF Filed
  <2>3. /\ \A t \in Sectors : t \in free_map <=> t \in lost \/ Filed(t) \/ called(t)
        /\ \A t : t \in lost \/ Filed(t) \/ called(t) => t \in Sectors
    BY <2>1 DEF Accounts, Filed
  <2> HIDE DEF ofFiles, ofCalls, called
  <2>4. free_map = lost \cup ofFiles \cup ofCalls
    BY <2>1, <2>2, <2>3
  <2>5. /\ \A s, t \in Files : s # t => OfFile(s) \cap OfFile(t) = {}
        /\ \A s \in Files : OfFile(s) \cap lost = {}
        /\ \A p \in calls : /\ OfCall(p) \cap lost = {}
                            /\ \A s \in Files : OfFile(s) \cap OfCall(p) = {}
    BY <2>1 DEF Accounts
  <2> QED
    <3> HIDE DEF calls
    <3>1. free_map = lost \cup (UNION {OfFile(s) : s \in Named \cup OpenFiles})
                          \cup (UNION {OfCall(p) : p \in calls})
      BY <2>4 DEF Files, ofFiles, ofCalls
    <3>2. /\ \A s, t \in Named \cup OpenFiles : s # t => OfFile(s) \cap OfFile(t) = {}
          /\ \A s \in Named \cup OpenFiles : OfFile(s) \cap lost = {}
          /\ \A p \in calls : /\ OfCall(p) \cap lost = {}
                              /\ \A s \in Named \cup OpenFiles : OfFile(s) \cap OfCall(p) = {}
      BY <2>5, Zenon DEF Files
    <3> QED
      BY <3>1, <3>2, Zenon DEF SectorsAccounted, calls
<1> QED
  BY <1>1, InvariantHolds, PTL

(***************************************************************************)
(* OpensCounted: open_cnt counts the open files, calls and programs, that  *)
(* have the inode and those that have ended; deny_write_cnt the running.   *)
(***************************************************************************)
THEOREM OpensAreCounted == Spec => []OpensCounted
<1>1. IInv => OpensCounted
  BY DEF IInv, FileInv, Counted, OpensCounted
<1> QED
  BY <1>1, InvariantHolds, PTL

-----------------------------------------------------------------------------
(* Only loads race.                                                        *)

LEMMA ReadByAnother ==
  ASSUME FileInv, NEW p \in Procs, pc[p] \notin Outside \cup {"read"},
         NEW i \in Inodes, inode[i].sector # 0, NotRead(i)
  PROVE  call[p].met
<1>1. PICK q \in Procs : pc[q] = "read" /\ call[q].found = i
  BY DEF FileInv, InodesOK, InodeOK
<1>2. q # p /\ pc[q] \notin Outside
  BY <1>1 DEF Outside
<1> QED
  BY <1>2, BothMet

\* What each step that looks at another's work finds.
LEMMA RacesAreMet == ASSUME FileInv, Sound, NEW p \in Procs, Step(p), raced' PROVE call[p].met
<1>0. /\ Shape(pc[p], call[p], file[p], executable[p]) /\ Knows(p) /\ Sees(p)
      /\ call[p] \in Calls /\ file[p] \in InodesOrNone
      /\ 0 \notin Sectors /\ Root # 0
  BY FileSystemAssumption DEF FileInv, Shapes, Knowing, Seeing, Types, Sectors, Root
<1>1. CASE Reopen(p)
  <2>1. pc[p] = "reopen" /\ pc[p] \in Opening
    BY <1>1 DEF Reopen, At, Opening
  <2>2. raced' = (inode[call[p].found].sector # call[p].target
                   \/ inode[call[p].found].open_cnt = 0 \/ Overtaken(p))
    BY <1>1 DEF Reopen, Race
  <2>3. Overtaken(p) => call[p].target # Root /\ ~InUse(call[p].name, call[p].target)
    BY DEF Overtaken, InUse, Entry
  <2> QED
    <3>1. \/ call[p].met
          \/ /\ inode[call[p].found].sector = call[p].target
             /\ inode[call[p].found].open_cnt > 0
             /\ call[p].target # Root => InUse(call[p].name, call[p].target)
      BY <1>0, <2>1 DEF Sees
    <3>2. \/ inode[call[p].found].sector # call[p].target
          \/ inode[call[p].found].open_cnt = 0 \/ Overtaken(p)
      BY <2>2
    <3> QED
      BY <2>3, <3>1, <3>2
<1>2. CASE Push(p)
  <2>1. pc[p] = "push" /\ pc[p] \in Opening
    BY <1>2 DEF Push, At, Opening
  <2>2. Overtaken(p) \/ \E j \in Inodes : inode[j].sector = call[p].target
    BY <1>2 DEF Push, Race
  <2>3. Overtaken(p) => call[p].target # Root /\ ~InUse(call[p].name, call[p].target)
    BY DEF Overtaken, InUse, Entry
  <2> QED
    <3>1. \/ call[p].met
          \/ /\ \A j \in Inodes : inode[j].sector # call[p].target
             /\ call[p].target # Root => InUse(call[p].name, call[p].target)
      BY <1>0, <2>1 DEF Sees
    <3> QED
      BY <2>2, <2>3, <3>1
<1>3. CASE Lookup(p) \/ DirAdd(p)
  <2>1. pc[p] \in {"lookup", "add"} /\ pc[p] \notin Outside \cup {"read"}
    BY <1>3 DEF Lookup, DirAdd, At, Outside
  <2>2. raced' = NotRead(call[p].root)
    BY <1>3 DEF Lookup, DirAdd, Race
  <2>3. call[p].root \in Inodes /\ inode[call[p].root].sector = Root
    <3>1. HasRoot(pc[p], call[p])
      BY <2>1 DEF HasRoot, Making
    <3> QED
      BY <1>0, <3>1 DEF Shape, Knows, Calls, InodesOrNone
  <2> QED
    BY <1>0, <2>1, <2>2, <2>3, ReadByAnother
<1>4. CASE WriteSector(p)
  <2>1. pc[p] = "write" /\ pc[p] \notin Outside \cup {"read"}
    BY <1>4 DEF WriteSector, At, Outside
  <2>2. raced' = (NotRead(file[p]) \/ inode[file[p]].deny_write_cnt > 0)
    BY <1>4 DEF WriteSector, Race
  <2>3. call[p].op = "write"
    BY <1>0, <2>1
    DEF Shape, PlacesOf, Making, Leaving, Opening, Closing, Outside, Calls, Ops
  <2>4. file[p] \in Inodes /\ inode[file[p]].sector \in Sectors
    BY <1>0, <2>3 DEF Shape, Knows, InodesOrNone
  <2>5. inode[file[p]].deny_write_cnt > 0 => call[p].met
    <3>1. inode[file[p]].deny_write_cnt = 0 \/ call[p].met
      BY <1>0, <2>1 DEF Sees
    <3> QED
      BY <3>1
  <2> QED
    BY <1>0, <2>1, <2>2, <2>4, <2>5, ReadByAnother
<1>5. CASE DenyWrite(p)
  <2>1. pc[p] = "loaded" /\ pc[p] \notin Outside \cup {"read"}
    BY <1>5 DEF DenyWrite, At, Outside
  <2>2. call[p].ino # 0 /\ raced' = NotRead(call[p].ino)
    BY <1>5 DEF DenyWrite, Sound, faults
  <2>3. call[p].ino \in Inodes /\ inode[call[p].ino].sector \in Sectors
    BY <1>0, <2>2 DEF Knows, Calls, InodesOrNone
  <2> QED
    BY <1>0, <2>1, <2>2, <2>3, ReadByAnother
<1>6. CASE \/ Scan(p) \/ ReadInode(p) \/ Alloc(p) \/ AllocData(p) \/ WriteInode(p) \/ ZeroData(p)
           \/ Release(p) \/ Erase(p) \/ CloseInode(p) \/ FreeIno(p) \/ FreeData(p)
           \/ CloseRoot(p) \/ FreeRoot(p) \/ WriteCheck(p) \/ Return(p) \/ AllowWrite(p)
  <2>1. UNCHANGED raced
    BY <1>6 DEF Scan, ReadInode, Alloc, AllocData, WriteInode, ZeroData, Release, Erase,
       CloseInode, FreeIno, FreeData, CloseRoot, FreeRoot, WriteCheck, Return, AllowWrite,
       faults, ASSERTION
  <2> QED
    BY <2>1 DEF Sound
<1> QED
  BY <1>1, <1>2, <1>3, <1>4, <1>5, <1>6 DEF Step

\* An inode is opened more often than its writes are denied.
LEMMA DeniedIsOpened ==
  ASSUME FileInv, NEW i \in Inodes
  PROVE  /\ inode[i].deny_write_cnt \in Nat /\ inode[i].open_cnt \in Nat
         /\ inode[i].deny_write_cnt <= inode[i].open_cnt
         /\ \A p \in Procs : call[p].ino = i => inode[i].deny_write_cnt < inode[i].open_cnt
<1>1. /\ inode[i].deny_write_cnt \in Nat /\ inode[i].open_cnt \in Nat /\ ran[i] \in Nat
      /\ inode[i].open_cnt = Holders(i) + ran[i]
      /\ inode[i].deny_write_cnt = Cardinality({p \in Procs : executable[p] = i})
  BY DEF FileInv, Types, Counted
<1>2. {p \in Procs : executable[p] = i} = With(executable, i)
  BY DEF With
<1>3. /\ IsFiniteSet(With(file, i)) /\ IsFiniteSet(With(executable, i))
      /\ IsFiniteSet(With(Roots, i)) /\ IsFiniteSet(With(Inos, i)) /\ IsFiniteSet(With(Reading, i))
  BY FileSystemAssumption, FS_Subset DEF With
<1> DEFINE f == Cardinality(With(file, i))
           x == Cardinality(With(executable, i))
           r == Cardinality(With(Roots, i))
           o == Cardinality(With(Inos, i))
           w == Cardinality(With(Reading, i))
<1>4. f \in Nat /\ x \in Nat /\ r \in Nat /\ o \in Nat /\ w \in Nat
  BY <1>3, FS_CardinalityType
<1>5. Holders(i) = f + x + r + o + w
  BY HoldersIs
<1>6. ASSUME NEW p \in Procs, call[p].ino = i PROVE o > 0
  BY <1>6, WithMoves DEF Inos
<1> HIDE DEF f, x, r, o, w
<1>7. inode[i].deny_write_cnt = x
  BY <1>1, <1>2 DEF x
<1>8. inode[i].open_cnt = f + x + r + o + w + ran[i]
  BY <1>1, <1>5
<1>9. x <= f + x + r + o + w + ran[i] /\ (o > 0 => x < f + x + r + o + w + ran[i])
  BY <1>1, <1>4
<1> QED
  BY <1>1, <1>6, <1>7, <1>8, <1>9

LEMMA AssertionsHold == ASSUME FileInv, Sound, NEW p \in Procs, Step(p) PROVE ~panicked'
<1>0. /\ Shape(pc[p], call[p], file[p], executable[p]) /\ Knows(p) /\ Accounts
      /\ call[p] \in Calls /\ executable[p] \in InodesOrNone
  BY DEF FileInv, Shapes, Knowing, Types
<1>1. CASE Release(p)
  <2>1. pc[p] \in Making /\ pc[p] # "alloc"
    BY <1>1 DEF Release, At, Making
  <2>2. call[p].sector \in OfCall(p)
    BY <2>1, MakingIs DEF OfCall
  <2> QED
    BY <1>0, <1>1, <2>2 DEF Release, ASSERTION, Accounts
<1>2. CASE FreeIno(p)
  <2>1. pc[p] = "free"
    BY <1>2 DEF FreeIno, At
  <2>2. PICK i \in Inodes : i = call[p].found
    BY <1>0, <2>1 DEF Shape, Calls, InodesOrNone, Freeing
  <2>3. inode[i].sector \in Files /\ inode[i].sector \in OfFile(inode[i].sector)
    BY <2>1, <2>2, FreedFile DEF Files, OfFile
  <2>4. inode[i].sector \in free_map
    BY <1>0, <2>3 DEF Accounts
  <2> QED
    BY <1>2, <2>2, <2>4 DEF FreeIno, ASSERTION, Sound, faults
<1>3. CASE FreeData(p)
  <2>1. Held(p) \subseteq free_map
    BY <1>0 DEF Accounts, OfCall
  <2> QED
    BY <1>3, <2>1 DEF FreeData, ASSERTION
<1>4. CASE DenyWrite(p)
  <2>1. CASE call[p].ino = 0
    BY <1>4, <2>1 DEF DenyWrite, Sound, faults
  <2>2. CASE call[p].ino # 0
    <3>1. PICK i \in Inodes : i = call[p].ino
      BY <1>0, <2>2 DEF Calls, InodesOrNone
    <3>2. ~(inode[i].deny_write_cnt >= inode[i].open_cnt)
      BY <3>1, DeniedIsOpened
    <3>3. panicked' = (inode[i].deny_write_cnt >= inode[i].open_cnt)
      BY <1>4, <2>2, <3>1 DEF DenyWrite
    <3> QED
      BY <3>2, <3>3
  <2> QED
    BY <2>1, <2>2
<1>5. CASE AllowWrite(p)
  <2>1. CASE executable[p] = 0
    BY <1>5, <2>1 DEF AllowWrite, Sound, faults
  <2>2. CASE executable[p] # 0
    <3>1. PICK i \in Inodes : i = executable[p]
      BY <1>0, <2>2 DEF InodesOrNone
    <3>2. inode[i].deny_write_cnt \in 1..inode[i].open_cnt
      BY <3>1, DeniedIsOpened, DeniedIs
    <3>3. panicked' = ~(inode[i].deny_write_cnt \in 1..inode[i].open_cnt)
      BY <1>5, <2>2, <3>1 DEF AllowWrite, ASSERTION
    <3> QED
      BY <3>2, <3>3
  <2> QED
    BY <2>1, <2>2
<1>6. CASE \/ Scan(p) \/ Reopen(p) \/ Push(p) \/ ReadInode(p) \/ Lookup(p) \/ Alloc(p)
           \/ AllocData(p) \/ WriteInode(p) \/ ZeroData(p) \/ DirAdd(p) \/ Erase(p)
           \/ CloseInode(p) \/ CloseRoot(p) \/ FreeRoot(p) \/ WriteCheck(p) \/ WriteSector(p)
           \/ Return(p)
  <2>1. UNCHANGED panicked
    BY <1>6 DEF Scan, Reopen, Push, ReadInode, Lookup, Alloc, AllocData, WriteInode, ZeroData,
       DirAdd, Erase, CloseInode, CloseRoot, FreeRoot, WriteCheck, WriteSector, Return,
       faults, Race
  <2> QED
    BY <2>1 DEF Sound
<1> QED
  BY <1>1, <1>2, <1>3, <1>4, <1>5, <1>6 DEF Step

(***************************************************************************)
(* OnlyLoadsRace: unfinished work of another thread is used only when a    *)
(* program is being loaded, and no assertion of the file system ever fails.*)
(***************************************************************************)
THEOREM OnlyLoadsRaceHolds == Spec => OnlyLoadsRace
<1> DEFINE A == (raced' => \E p \in Procs : call[p].met) /\ ~panicked'
<1>1. IInv /\ [Next]_vars => [A]_vars
  <2> SUFFICES ASSUME IInv, Next PROVE A \/ UNCHANGED vars
    OBVIOUS
  <2>1. CASE PowerFailure
    BY <2>1 DEF PowerFailure, faults
  <2>2. ASSUME NEW p \in Procs, Call(p) PROVE A
    BY <2>2 DEF Call, Create, Open, Remove, Write, Close, Exit, Load, At, faults
  <2>3. ASSUME NEW p \in Procs, Step(p) PROVE A
    <3>1. Sound
      BY <2>3, StepIsSound
    <3>2. FileInv
      BY <3>1 DEF IInv
    <3> QED
      BY <2>3, <3>1, <3>2, RacesAreMet, AssertionsHold
  <2> QED
    BY <2>1, <2>2, <2>3 DEF Next
<1> QED
  BY <1>1, InvariantHolds, PTL DEF Spec, OnlyLoadsRace

-----------------------------------------------------------------------------
(***************************************************************************)
(* What is kept, as FileStore tells it: the contents of a file are those   *)
(* of its sectors, and each step shows as one of the store's, or as none.  *)
(***************************************************************************)
\* The sectors of a file that is written are zeros when it gets its name.
Zeroed == \A p \in Procs : pc[p] = "add" => \A s \in Held(p) : disk[s].data = Zeros

\* What a caller sees of the inodes and the calls.
LEMMA MappingTypes ==
  ASSUME FileInv
  PROVE  /\ \A n \in Names : names[n] \in Named \cup {0}
         /\ \A p \in Procs : running[p] \in OpenFiles \cup {0} /\ held[p] \subseteq OpenFiles
         /\ Files \subseteq Sectors /\ 0 \notin Files
         /\ Reachable \subseteq Files
<1>1. ASSUME NEW n \in Names PROVE names[n] \in Named \cup {0}
  BY DEF names, InDir, Named
<1>2. ASSUME NEW p \in Procs, NEW i \in InodesOrNone,
             i \in {file[p], executable[p], call[p].ino}
      PROVE  SectorOf(i) \in OpenFiles \cup {0} /\ (i # 0 => SectorOf(i) \in Sectors)
  <2>1. Knows(p)
    BY DEF FileInv, Knowing
  <2>2. (i = 0) \/ (i \in Inodes /\ inode[i].sector \in Sectors)
    <3>1. CASE i = file[p]
      BY <2>1, <3>1 DEF Knows, InodesOrNone
    <3>2. CASE i = executable[p]
      BY <2>1, <3>2 DEF Knows, InodesOrNone
    <3>3. CASE i = call[p].ino
      BY <2>1, <3>3 DEF Knows, InodesOrNone
    <3> QED
      BY <1>2, <3>1, <3>2, <3>3
  <2> QED
    BY <2>2, FileSystemAssumption DEF SectorOf, OpenFiles, Sectors, Root
<1>3. ASSUME NEW p \in Procs PROVE running[p] \in OpenFiles \cup {0}
  BY <1>2 DEF running, FileInv, Types
<1>4. ASSUME NEW p \in Procs PROVE held[p] \subseteq OpenFiles
  <2>1. file[p] \in InodesOrNone /\ call[p].ino \in InodesOrNone /\ call[p].found \in InodesOrNone
    BY DEF FileInv, Types, Calls
  <2>2. ASSUME pc[p] = "read", call[p].target \notin {0, Root} PROVE call[p].target \in OpenFiles
    <3>1. call[p].found \in Inodes /\ inode[call[p].found].sector = call[p].target
      BY <2>1, <2>2 DEF FileInv, Knowing, Knows, Shapes, Shape, InodesOrNone
    <3> QED
      BY <2>2, <3>1 DEF OpenFiles
  <2> QED
    BY <1>2, <2>1, <2>2 DEF held
<1>5. Files \subseteq Sectors /\ 0 \notin Files
  BY FileSystemAssumption, SMTT(30)
  DEF Files, Named, OpenFiles, FileInv, Types, Sectors, Root, Entries, Inodes
<1> QED
  BY <1>1, <1>3, <1>4, <1>5 DEF Reachable, Files

\* A file is read from its sector, through whichever copy.
LEMMA NowIs == ASSUME FileInv, NEW s \in Sectors PROVE Now(s) = disk[s]
<1> DEFINE copies == {inode[i].data : i \in {j \in Inodes : inode[j].sector = s}} \ {Unread}
<1>1. \A d \in copies : d = disk[s]
  BY DEF FileInv, InodesOK, InodeOK, NotRead
<1>2. copies # {} => (CHOOSE d \in copies : TRUE) = disk[s]
  BY <1>1
<1> HIDE DEF copies
<1>3. Now(s) = IF copies = {} THEN disk[s] ELSE CHOOSE d \in copies : TRUE
  BY DEF Now, copies
<1> QED
  BY <1>2, <1>3

\* The contents of a file are those of its sectors.
DataShown == [s \in Sectors |->
  IF s \in Reachable /\ disk[s].length > 0
  THEN [i \in 0..(disk[s].length - 1) |-> disk[disk[s].start + i].data] ELSE <<>>]

LEMMA DataIs == FileInv => data = DataShown
BY NowIs DEF data, DataShown

LEMMA DataWillBe == (FileInv => data = DataShown)'
BY DataIs, PTL

LEMMA ContentsKept ==
  ASSUME FileInv, FileInv', NEW s, s \in Reachable, s \in Reachable',
         \A t \in OfFile(s) : disk'[t] = disk[t]
  PROVE  data'[s] = data[s]
<1>1. s \in Sectors
  BY MappingTypes
<1>2. disk'[s] = disk[s] /\ disk[s] \in DiskOf
  BY <1>1 DEF FileInv, Types, OfFile
<1>3. disk[s].length \in Nat /\ disk[s].start \in Nat
  BY <1>2 DEF DiskOf
<1>4. ASSUME NEW i \in 0..(disk[s].length - 1)
      PROVE  disk'[disk[s].start + i] = disk[disk[s].start + i]
  <2>1. disk[s].start + i \in Extent(disk[s])
    BY <1>3 DEF Extent
  <2> QED
    BY <2>1 DEF OfFile
<1>5. data[s] = IF disk[s].length > 0
                THEN [i \in 0..(disk[s].length - 1) |-> disk[disk[s].start + i].data] ELSE <<>>
  BY <1>1, DataIs DEF DataShown
<1>6. data' = DataShown'
  BY DataWillBe
<1>7. data'[s] = IF disk[s].length > 0
                 THEN [i \in 0..(disk[s].length - 1) |-> disk'[disk[s].start + i].data] ELSE <<>>
  BY <1>1, <1>2, <1>6 DEF DataShown
<1>8. [i \in 0..(disk[s].length - 1) |-> disk'[disk[s].start + i].data]
        = [i \in 0..(disk[s].length - 1) |-> disk[disk[s].start + i].data]
  BY <1>4
<1> QED
  BY <1>5, <1>7, <1>8

\* A file that gets its name when its sectors hold zeros is filled with them.
LEMMA DataIsFresh ==
  FileInv => \A s \in Reachable :
    (\A t \in Extent(disk[s]) : disk[t].data = Zeros) => ZeroFilled(data[s])
<1> SUFFICES ASSUME FileInv, NEW s, s \in Reachable, \A t \in Extent(disk[s]) : disk[t].data = Zeros
             PROVE  ZeroFilled(data[s])
  OBVIOUS
<1>1. s \in Sectors /\ disk[s] \in DiskOf
  BY MappingTypes DEF FileInv, Types
<1>2. data[s] = IF disk[s].length > 0
                THEN [i \in 0..(disk[s].length - 1) |-> disk[disk[s].start + i].data] ELSE <<>>
  BY <1>1, DataIs DEF DataShown
<1>3. \A i \in 0..(disk[s].length - 1) : disk[s].start + i \in Extent(disk[s])
  BY <1>1 DEF DiskOf, Extent
<1> QED
  BY <1>2, <1>3 DEF ZeroFilled

-----------------------------------------------------------------------------
(* The steps, as FileStore's.                                              *)
Shown == <<names, data, held, running>>

\* A step that shows nothing and writes no file's sectors.
LEMMA NotShown ==
  ASSUME FileInv, FileInv', names' = names, held' = held, running' = running,
         \A s \in Files : \A t \in OfFile(s) : disk'[t] = disk[t]
  PROVE  UNCHANGED Shown
<1>1. Reachable' = Reachable
  BY DEF Reachable
<1>2. \A s \in Reachable : data'[s] = data[s]
  BY <1>1, ContentsKept, MappingTypes
<1>3. \A s \in Sectors \ Reachable : data[s] = <<>> /\ data'[s] = <<>>
  BY <1>1 DEF data
<1>4. data \in [Sectors -> {data[s] : s \in Sectors}] /\ data' \in [Sectors -> {data'[s] : s \in Sectors}]
  BY DEF data
<1> HIDE DEF Reachable, data
<1>5. data' = data
  BY <1>2, <1>3, <1>4
<1> QED
  BY <1>5 DEF Shown

AbstractStep ==
  \/ \E n \in Names : Abstract!Remove(n) \/ \E f \in Sectors : Abstract!Create(n, f)
  \/ \E p \in Procs : \/ \E n \in Names : Abstract!Open(p, n)
                      \/ \E f \in Sectors : Abstract!Close(p, f) \/ Abstract!Write(p, f)
                                              \/ Abstract!Run(p, f)
                      \/ Abstract!End(p)
  \/ Abstract!PowerFailure
  \/ UNCHANGED Shown

LEMMA AbstractNext ==
  ASSUME AbstractStep, UNCHANGED raced
  PROVE  [Abstract!Next]_(Abstract!vars)
BY DEF AbstractStep, Abstract!Next, Abstract!vars, Shown

\* InUse of the abstract store.
LEMMA InUseIs == Abstract!InUse = Reachable
BY DEF Abstract!InUse, Reachable

\* A step of p leaves the other processes where they are, and a call begun by
\* p may only let theirs meet it.
LEMMA CallsAreLocal ==
  ASSUME FileInv, NEW p \in Procs, Call(p), NEW q \in Procs \ {p}
  PROVE  /\ pc'[q] = pc[q] /\ file'[q] = file[q] /\ executable'[q] = executable[q]
         /\ call'[q].ino = call[q].ino /\ call'[q].target = call[q].target
         /\ call'[q].start = call[q].start /\ call'[q].length = call[q].length
<1>0. /\ pc \in [Procs -> Places] /\ call[q] \in Calls
      /\ file \in [Procs -> InodesOrNone] /\ executable \in [Procs -> InodesOrNone]
  BY DEF FileInv, Types
<1>1. ASSUME NEW c, Called(p, c)
      PROVE  /\ call'[q].ino = call[q].ino /\ call'[q].target = call[q].target
             /\ call'[q].start = call[q].start /\ call'[q].length = call[q].length
  <2>1. call'[q] = [call[q] EXCEPT !.met = @ \/ Meets(q, c.op)]
    BY <1>1 DEF Called
  <2> QED
    BY <1>0, <2>1 DEF Calls
<1>2. CASE Create(p) \/ Open(p) \/ Remove(p) \/ Write(p) \/ Load(p)
  <2>1. \E c, w : Called(p, c) /\ Goto(p, w) /\ UNCHANGED tables
    BY <1>2 DEF Create, Open, Remove, Write, Load, Begin
  <2> QED
    BY <1>0, <1>1, <2>1 DEF Goto, tables
<1>3. CASE Close(p) \/ Exit(p)
  <2>1. \E c, w : Called(p, c) /\ Goto(p, w) /\ file' = [file EXCEPT ![p] = 0]
                                  /\ UNCHANGED executable
    BY <1>3 DEF Close, Exit, GiveUpFile
  <2> QED
    BY <1>0, <1>1, <2>1 DEF Goto
<1> QED
  BY <1>2, <1>3 DEF Call

LEMMA StepsAreLocal ==
  ASSUME FileInv, NEW p \in Procs, Step(p), NEW q \in Procs \ {p}
  PROVE  /\ pc'[q] = pc[q] /\ file'[q] = file[q] /\ executable'[q] = executable[q]
         /\ call'[q] = call[q]
<1>0. /\ pc \in [Procs -> Places] /\ call \in [Procs -> Calls]
      /\ file \in [Procs -> InodesOrNone] /\ executable \in [Procs -> InodesOrNone]
  BY DEF FileInv, Types
<1>1. ASSUME Scan(p) \/ Reopen(p) \/ Push(p) \/ ReadInode(p) \/ Lookup(p)
      PROVE  pc'[q] = pc[q] /\ file' = file /\ executable' = executable /\ call'[q] = call[q]
  BY <1>0, <1>1 DEF Scan, Reopen, Push, ReadInode, Lookup, Opened, Goto, tables
<1>2. ASSUME Alloc(p) \/ AllocData(p) \/ WriteInode(p) \/ ZeroData(p) \/ DirAdd(p) \/ Release(p)
      PROVE  pc'[q] = pc[q] /\ file' = file /\ executable' = executable /\ call'[q] = call[q]
  BY <1>0, <1>2 DEF Alloc, AllocData, WriteInode, ZeroData, DirAdd, Release, Goto, tables
<1>3. ASSUME \/ Erase(p) \/ CloseInode(p) \/ FreeIno(p) \/ FreeData(p)
             \/ CloseRoot(p) \/ FreeRoot(p) \/ WriteCheck(p) \/ WriteSector(p)
      PROVE  pc'[q] = pc[q] /\ file' = file /\ executable' = executable /\ call'[q] = call[q]
  BY <1>0, <1>3 DEF Erase, CloseInode, FreeIno, FreeData, CloseRoot, FreeRoot,
                    WriteCheck, WriteSector, Goto, tables
<1>4. ASSUME Return(p) \/ DenyWrite(p) \/ AllowWrite(p)
      PROVE  /\ pc'[q] = pc[q] /\ call'[q] = call[q]
             /\ file'[q] = file[q] /\ executable'[q] = executable[q]
  BY <1>0, <1>4 DEF Return, DenyWrite, AllowWrite, Goto
<1> QED
  BY <1>1, <1>2, <1>3, <1>4 DEF Step

LEMMA OthersStay ==
  ASSUME FileInv, NEW p \in Procs, Call(p) \/ Step(p), NEW q \in Procs \ {p}
  PROVE  /\ pc'[q] = pc[q] /\ file'[q] = file[q] /\ executable'[q] = executable[q]
         /\ call'[q].ino = call[q].ino /\ call'[q].target = call[q].target
BY CallsAreLocal, StepsAreLocal

\* An inode that somebody has is of the same sector after the step.
LEMMA SectorKept ==
  ASSUME FileInv, NEW p \in Procs, Call(p) \/ Step(p), NEW q \in Procs, NEW i \in Inodes,
         i \in {file[q], executable[q], call[q].ino}
  PROVE  inode'[i].sector = inode[i].sector
<1>0. /\ inode \in [Inodes -> [sector : Sectors \cup {0, Root}, open_cnt : Nat,
                           deny_write_cnt : Nat, removed : BOOLEAN, data : DiskOf]]
      /\ call[p].found \in InodesOrNone /\ inode[i].sector \in Sectors
  <2>1. Knows(q)
    BY DEF FileInv, Knowing
  <2>2. inode[i].sector \in Sectors
    <3>1. CASE i = file[q]
      BY <2>1, <3>1 DEF Knows, Inodes
    <3>2. CASE i = executable[q]
      BY <2>1, <3>2 DEF Knows, Inodes
    <3>3. CASE i = call[q].ino
      BY <2>1, <3>3 DEF Knows, Inodes
    <3> QED
      BY <3>1, <3>2, <3>3
  <2> QED
    BY <2>2 DEF FileInv, Types, Calls
<1>1. CASE Push(p)
  <2>1. PICK k : inode' = [inode EXCEPT ![k].sector = call[p].target, ![k].open_cnt = 1]
                 /\ (k \in Inodes => inode[k].sector = 0)
    <3> DEFINE free == {j \in Inodes : inode[j].sector = 0}
               k == CHOOSE j \in free : \A m \in free : j <= m
    <3>1. inode' = [inode EXCEPT ![k].sector = call[p].target, ![k].open_cnt = 1] /\ free # {}
      BY <1>1 DEF Push
    <3>2. free \in SUBSET Nat /\ free # {}
      BY <3>1 DEF Inodes
    <3>a. \E x \in free : \A y \in free : x <= y
      <4> HIDE DEF free
      <4> QED
        BY <3>2, LeastIs
    <3>3. k \in free
      BY <3>a
    <3> QED
      BY <3>1, <3>3
  <2>2. i # k
    BY <1>0, <2>1, FileSystemAssumption DEF Sectors
  <2> QED
    BY <1>0, <2>1, <2>2
<1>2. CASE FreeIno(p) \/ FreeRoot(p)
  <2>1. pc[p] \in Freeing /\ inode' = [inode EXCEPT ![call[p].found] = FreeInode]
    BY <1>2 DEF FreeIno, FreeRoot, At, Freeing
  <2>2. i # call[p].found
    <3>1. SUFFICES ASSUME i = call[p].found PROVE FALSE
      OBVIOUS
    <3>2. inode[i].open_cnt = 0 /\ (\A r \in Procs \ {p} : ~Uses(r, i))
          /\ i \notin {call[p].root, call[p].ino, file[p], executable[p]}
      BY <2>1, <3>1, FreedIsUnused
    <3> QED
      BY <3>2 DEF Uses
  <2> QED
    BY <1>0, <2>1, <2>2
<1>3. ASSUME \/ \E j : inode_reopen(j)
             \/ \E j, d : inode' = [inode EXCEPT ![j].data = d]
             \/ \E j : inode' = [inode EXCEPT ![j].removed = TRUE]
             \/ \E j : inode' = [inode EXCEPT ![j].open_cnt = @ - 1]
             \/ \E j : inode' = [inode EXCEPT ![j].deny_write_cnt = @ + 1]
             \/ \E j : inode' = [inode EXCEPT ![j].deny_write_cnt = @ - 1]
             \/ inode' = inode
      PROVE  inode'[i].sector = inode[i].sector
  BY <1>0, <1>3 DEF inode_reopen
<1>4. CASE Call(p)
  BY <1>4 DEF Call, Create, Open, Remove, Write, Close, Exit, Load
<1>5. CASE Reopen(p)
  BY <1>3, <1>5 DEF Reopen
<1>6. CASE ReadInode(p)
  BY <1>3, <1>6, Zenon DEF ReadInode
<1>7. CASE Erase(p)
  BY <1>3, <1>7 DEF Erase
<1>8. CASE CloseInode(p) \/ CloseRoot(p)
  BY <1>3, <1>8 DEF CloseInode, CloseRoot
<1>9. CASE DenyWrite(p) \/ AllowWrite(p)
  BY <1>3, <1>9 DEF DenyWrite, AllowWrite, Allowed
<1>10. CASE \/ Scan(p) \/ Lookup(p) \/ Alloc(p) \/ AllocData(p) \/ WriteInode(p) \/ ZeroData(p)
            \/ DirAdd(p) \/ Release(p) \/ FreeData(p) \/ WriteCheck(p) \/ WriteSector(p) \/ Return(p)
  BY <1>10 DEF Scan, Lookup, Alloc, AllocData, WriteInode, ZeroData, DirAdd, Release, FreeData,
               WriteCheck, WriteSector, Return
<1> QED
  BY <1>1, <1>2, <1>4, <1>5, <1>6, <1>7, <1>8, <1>9, <1>10 DEF Step

\* A step of p, and what shows of the processes.
LEMMA Stays ==
  ASSUME FileInv, NEW p \in Procs, Call(p) \/ Step(p)
  PROVE  /\ \A q \in Procs : \A i : i \in {file[q], executable[q], call[q].ino} =>
              SectorOf(i)' = SectorOf(i)
         /\ \A q \in Procs \ {p} : held'[q] = held[q] /\ running'[q] = running[q]
<1>1. ASSUME NEW q \in Procs, NEW i, i \in {file[q], executable[q], call[q].ino}
      PROVE  SectorOf(i)' = SectorOf(i)
  <2>1. (i = 0) \/ i \in Inodes
    BY <1>1 DEF FileInv, Types, Calls, InodesOrNone
  <2> QED
    BY <1>1, <2>1, SectorKept DEF SectorOf
<1>2. ASSUME NEW q \in Procs \ {p} PROVE held'[q] = held[q] /\ running'[q] = running[q]
  <2>1. PICK f, x, o :
          /\ f = file[q] /\ x = executable[q] /\ o = call[q].ino
          /\ f = file'[q] /\ x = executable'[q] /\ o = call'[q].ino
    BY OthersStay
  <2>2. SectorOf(f)' = SectorOf(f) /\ SectorOf(x)' = SectorOf(x) /\ SectorOf(o)' = SectorOf(o)
    BY <1>1, <2>1
  <2>3. held[q] = {SectorOf(f), SectorOf(o), IF pc[q] = "read" THEN call[q].target ELSE 0} \ {0, Root}
        /\ running[q] = SectorOf(x)
    BY <2>1 DEF held, running
  <2>4. held'[q] = {SectorOf(f)', SectorOf(o)', IF pc'[q] = "read" THEN call'[q].target ELSE 0} \ {0, Root}
        /\ running'[q] = SectorOf(x)'
    BY <2>1 DEF held, running, SectorOf
  <2> QED
    BY <2>2, <2>3, <2>4, OthersStay
<1> QED
  BY <1>1, <1>2

\* What p has after a step of its own, by the inodes it had.
LEMMA OwnIs ==
  ASSUME FileInv, NEW p \in Procs, Call(p) \/ Step(p)
  PROVE  /\ \A f, o :
              (/\ f = file'[p] /\ f \in {0, file[p], call[p].ino}
               /\ o = call'[p].ino /\ o \in {0, file[p], call[p].ino}) =>
              held'[p] = {SectorOf(f), SectorOf(o),
                          IF pc'[p] = "read" THEN call'[p].target ELSE 0} \ {0, Root}
         /\ \A x : (x = executable'[p] /\ x \in {0, executable[p], call[p].ino}) =>
              running'[p] = SectorOf(x)
<1>1. \A i : i \in {0, file[p], executable[p], call[p].ino} => SectorOf(i)' = SectorOf(i)
  BY Stays DEF SectorOf
<1>2. ASSUME NEW f, NEW o, f = file'[p], f \in {0, file[p], call[p].ino},
             o = call'[p].ino, o \in {0, file[p], call[p].ino}
      PROVE  held'[p] = {SectorOf(f), SectorOf(o),
                         IF pc'[p] = "read" THEN call'[p].target ELSE 0} \ {0, Root}
  <2>1. held'[p] = {SectorOf(f)', SectorOf(o)', IF pc'[p] = "read" THEN call'[p].target ELSE 0}
                     \ {0, Root}
    BY <1>2 DEF held, SectorOf
  <2> QED
    BY <1>1, <1>2, <2>1
<1>3. ASSUME NEW x, x = executable'[p], x \in {0, executable[p], call[p].ino}
      PROVE  running'[p] = SectorOf(x)
  <2>1. running'[p] = SectorOf(x)'
    BY <1>3 DEF running, SectorOf
  <2> QED
    BY <1>1, <1>3, <2>1
<1> QED
  BY <1>2, <1>3

LEMMA Unseen ==
  ASSUME FileInv, FileInv', NEW p \in Procs, Call(p) \/ Step(p), UNCHANGED dir,
         held'[p] = held[p], running'[p] = running[p],
         \A s \in Files : \A t \in OfFile(s) : disk'[t] = disk[t]
  PROVE  AbstractStep
<1>1. \A q \in Procs : held'[q] = held[q] /\ running'[q] = running[q]
  BY Stays
<1>2. held' = held /\ running' = running
  <2>1. /\ held = [q \in Procs |-> held[q]] /\ held' = [q \in Procs |-> held'[q]]
        /\ running = [q \in Procs |-> running[q]] /\ running' = [q \in Procs |-> running'[q]]
    BY DEF held, running
  <2> QED
    BY <1>1, <2>1, Zenon
<1>3. names' = names
  BY DEF names, InDir
<1> QED
  BY <1>2, <1>3, NotShown DEF AbstractStep

\* The steps that leave p its file, its program and the inode of its call.
LEMMA UnseenStep ==
  ASSUME FileInv, FileInv', NEW p \in Procs, Call(p) \/ Step(p), UNCHANGED dir,
         pc[p] # "read", pc'[p] # "read",
         file'[p] = file[p], executable'[p] = executable[p], call'[p].ino = call[p].ino,
         \A s \in Files : \A t \in OfFile(s) : disk'[t] = disk[t]
  PROVE  AbstractStep
<1>1. PICK f, x, o : /\ f = file[p] /\ x = executable[p] /\ o = call[p].ino
                     /\ f = file'[p] /\ x = executable'[p] /\ o = call'[p].ino
  OBVIOUS
<1>2. held'[p] = {SectorOf(f), SectorOf(o), IF pc'[p] = "read" THEN call'[p].target ELSE 0}
                   \ {0, Root} /\ running'[p] = SectorOf(x)
  BY <1>1, OwnIs
<1>3. held'[p] = held[p] /\ running'[p] = running[p]
  BY <1>1, <1>2 DEF held, running
<1> QED
  BY <1>3, Unseen

LEMMA CallsUnseen ==
  ASSUME FileInv, FileInv', NEW p \in Procs, Call(p)
  PROVE  AbstractStep
<1>1. pc[p] \in Outside /\ call[p] = NoCall
  <2>1. pc[p] \in Outside
    BY DEF Call, Create, Open, Remove, Write, Close, Exit, Load, At, Outside
  <2> QED
    BY <2>1, InCall
<1>2. pc \in [Procs -> Places] /\ file \in [Procs -> InodesOrNone]
  BY DEF FileInv, Types
<1>3. UNCHANGED <<dir, disk, inode, executable>>
  BY DEF Call, Create, Open, Remove, Write, Close, Exit, Load, GiveUpFile, onDisk, tables
<1>4. CASE Create(p) \/ Open(p) \/ Remove(p) \/ Write(p) \/ Load(p)
  <2>1. \E op, n, l : \E w \in {"scan", "write_check"} : Begin(p, op, n, l, w)
    BY <1>4 DEF Create, Open, Remove, Write, Load
  <2>2. ASSUME NEW op, NEW n, NEW l, NEW w \in {"scan", "write_check"}, Begin(p, op, n, l, w)
        PROVE  call'[p].ino = 0 /\ pc'[p] # "read"
    BY <1>2, <2>2 DEF Begin, Called, Goto, NoCall
  <2>3. file' = file
    BY <1>4 DEF Create, Open, Remove, Write, Load, tables
  <2>4. call[p].ino = 0 /\ pc[p] # "read"
    BY <1>1 DEF NoCall, Outside
  <2> QED
    BY <1>3, <2>1, <2>2, <2>3, <2>4, UnseenStep
<1>5. CASE Close(p) \/ Exit(p)
  <2>1. file'[p] = 0 /\ call'[p].ino = file[p] /\ pc'[p] # "read"
    <3>1. \E op : \E w \in {"close", "allow"} : GiveUpFile(p, op, w)
      BY <1>5 DEF Close, Exit
    <3>2. ASSUME NEW op, NEW w \in {"close", "allow"}, GiveUpFile(p, op, w)
          PROVE  file'[p] = 0 /\ call'[p].ino = file[p] /\ pc'[p] # "read"
      BY <1>2, <3>2 DEF GiveUpFile, Called, Goto, NoCall
    <3> QED
      BY <3>1, <3>2
  <2>0. call[p].ino = 0 /\ pc[p] # "read"
    BY <1>1 DEF NoCall, Outside
  <2>2. PICK f : f = file[p] /\ f = call'[p].ino
    BY <2>1
  <2>3. PICK x : x = executable[p] /\ x = executable'[p]
    BY <1>3
  <2>4. PICK z : z = 0 /\ z = file'[p]
    BY <2>1
  <2>5. held'[p] = {SectorOf(z), SectorOf(f), 0} \ {0, Root} /\ running'[p] = SectorOf(x)
    BY <2>1, <2>2, <2>3, <2>4, OwnIs
  <2>6. held[p] = {SectorOf(f), SectorOf(0), 0} \ {0, Root} /\ running[p] = SectorOf(x)
    BY <2>0, <2>2, <2>3 DEF held, running
  <2>7. held'[p] = held[p] /\ running'[p] = running[p]
    BY <2>4, <2>5, <2>6
  <2> QED
    BY <1>3, <2>7, Unseen
<1> QED
  BY <1>4, <1>5 DEF Call

\* The steps that change no table and write no file.
LEMMA QuietUnseen ==
  ASSUME FileInv, FileInv', NEW p \in Procs,
         \/ Scan(p) \/ Lookup(p) \/ Alloc(p) \/ AllocData(p) \/ Release(p) \/ FreeIno(p)
         \/ FreeData(p) \/ CloseRoot(p) \/ FreeRoot(p) \/ WriteCheck(p)
  PROVE  AbstractStep
<1>0. pc \in [Procs -> Places] /\ call \in [Procs -> Calls]
  BY DEF FileInv, Types
<1>1. Step(p)
  BY DEF Step
<1>2. UNCHANGED <<dir, disk, file, executable>>
  BY DEF Scan, Lookup, Alloc, AllocData, Release, FreeIno, FreeData, CloseRoot, FreeRoot,
         WriteCheck, onDisk, tables
<1>3. pc[p] # "read" /\ pc'[p] # "read"
  <2>1. CASE Scan(p) \/ Lookup(p) \/ Alloc(p) \/ AllocData(p) \/ Release(p) \/ WriteCheck(p)
    BY <1>0, <2>1 DEF Scan, Lookup, Alloc, AllocData, Release, WriteCheck, At, Goto
  <2>2. CASE FreeIno(p) \/ FreeData(p) \/ CloseRoot(p) \/ FreeRoot(p)
    BY <1>0, <2>2 DEF FreeIno, FreeData, CloseRoot, FreeRoot, At, Goto, AfterClose, AfterRoot
  <2> QED
    BY <2>1, <2>2
<1>4. call'[p].ino = call[p].ino
  <2>1. CASE Scan(p) \/ Lookup(p) \/ Alloc(p) \/ AllocData(p) \/ Release(p) \/ WriteCheck(p)
    BY <1>0, <2>1 DEF Scan, Lookup, Alloc, AllocData, Release, WriteCheck, Calls
  <2>2. CASE FreeIno(p) \/ FreeData(p) \/ CloseRoot(p) \/ FreeRoot(p)
    BY <1>0, <2>2 DEF FreeIno, FreeData, CloseRoot, FreeRoot, Calls
  <2> QED
    BY <2>1, <2>2
<1> QED
  BY <1>1, <1>2, <1>3, <1>4, UnseenStep

\* A create writes sectors that are no file's yet.
LEMMA WritesUnseen ==
  ASSUME FileInv, FileInv', NEW p \in Procs, WriteInode(p) \/ ZeroData(p)
  PROVE  AbstractStep
<1>0. pc \in [Procs -> Places] /\ call \in [Procs -> Calls] /\ disk \in [Sectors -> DiskOf]
  BY DEF FileInv, Types
<1>1. Step(p)
  BY DEF Step
<1>2. UNCHANGED <<dir, call, file, executable>> /\ pc[p] # "read" /\ pc'[p] # "read"
  BY <1>0 DEF WriteInode, ZeroData, At, Goto, tables
<1>3. call[p].sector # 0
  BY DEF WriteInode, ZeroData, At, FileInv, Shapes, Shape, Making
<1>4. \A s \in Files : OfFile(s) \cap OfCall(p) = {} /\ OfFile(s) \subseteq Sectors
  BY DEF FileInv, Accounts, Types
<1>5. \A t \in Sectors : t \notin OfCall(p) => disk'[t] = disk[t]
  BY <1>0, <1>3 DEF WriteInode, ZeroData, OfCall
<1>6. \A s \in Files : \A t \in OfFile(s) : disk'[t] = disk[t]
  BY <1>4, <1>5
<1> QED
  BY <1>1, <1>2, <1>6, UnseenStep

\* The steps that show: what p has before and after.
LEMMA HeldIs ==
  ASSUME FileInv, NEW p \in Procs, Step(p)
  PROVE  /\ pc[p] # "read" => held[p] = {SectorOf(file[p]), SectorOf(call[p].ino)} \ {0, Root}
         /\ \A f : f = file[p] /\ f = file'[p] =>
              \A o : o = call'[p].ino => held'[p] =
                {SectorOf(f), SectorOf(o)', IF pc'[p] = "read" THEN call'[p].target ELSE 0} \ {0, Root}
         /\ \A x : x = executable[p] /\ x = executable'[p] => running'[p] = running[p]
         /\ \A o : o = call[p].ino => SectorOf(o)' = SectorOf(o)
<1>1. pc[p] # "read" => held[p] = {SectorOf(file[p]), SectorOf(call[p].ino)} \ {0, Root}
  BY DEF held, SectorOf
<1>2. ASSUME NEW f, f = file[p], f = file'[p], NEW o, o = call'[p].ino
      PROVE  held'[p] = {SectorOf(f), SectorOf(o)', IF pc'[p] = "read" THEN call'[p].target ELSE 0}
                          \ {0, Root}
  <2>1. SectorOf(f)' = SectorOf(f)
    BY <1>2, Stays
  <2> QED
    BY <1>2, <2>1 DEF held, SectorOf
<1>3. ASSUME NEW x, x = executable[p], x = executable'[p] PROVE running'[p] = running[p]
  <2>1. SectorOf(x)' = SectorOf(x)
    BY <1>3, Stays
  <2> QED
    BY <1>3, <2>1 DEF running, SectorOf
<1>4. \A o : o = call[p].ino => SectorOf(o)' = SectorOf(o)
  BY Stays
<1> QED
  BY <1>1, <1>2, <1>3, <1>4

\* The entry that a name has.
LEMMA NameIs ==
  ASSUME FileInv, NEW n \in Names, NEW s \in Sectors, InUse(n, s)
  PROVE  names[n] = s /\ s # 0
<1>1. PICK e \in Entries : dir[e] = Entry(n, s)
  BY DEF InUse
<1>2. n # NoOne /\ dir[e].name = n /\ dir[e].sector = s /\ s # 0
  BY <1>1, FileSystemAssumption DEF Entry, Sectors
<1>3. InDir(n) = {e}
  BY <1>2 DEF InDir, FileInv, DirOK
<1>4. (CHOOSE x \in InDir(n) : TRUE) = e
  BY <1>3
<1> QED
  BY <1>2, <1>3, <1>4 DEF names

LEMMA ReachableGrows ==
  ASSUME names' = names, running' = running, \A p \in Procs : held[p] \subseteq held'[p]
  PROVE  Reachable \subseteq Reachable'
BY DEF Reachable

LEMMA HeldOthers ==
  ASSUME FileInv, NEW p \in Procs, Call(p) \/ Step(p)
  PROVE  /\ held' = [held EXCEPT ![p] = held'[p]]
         /\ running' = [running EXCEPT ![p] = running'[p]]
         /\ \A q \in Procs \ {p} : held'[q] = held[q] /\ running'[q] = running[q]
<1>1. \A q \in Procs \ {p} : held'[q] = held[q] /\ running'[q] = running[q]
  BY Stays
<1>2. /\ held = [q \in Procs |-> held[q]] /\ held' = [q \in Procs |-> held'[q]]
      /\ running = [q \in Procs |-> running[q]] /\ running' = [q \in Procs |-> running'[q]]
  BY DEF held, running
<1> QED
  BY <1>1, <1>2

LEMMA OpensFile ==
  ASSUME FileInv, FileInv', NEW p \in Procs, Step(p), UNCHANGED <<dir, disk>>,
         NEW n \in Names, names[n] # 0, held'[p] = held[p] \cup {names[n]},
         running'[p] = running[p]
  PROVE  AbstractStep
<1>1. names' = names
  BY DEF names, InDir
<1>2. held' = [held EXCEPT ![p] = held[p] \cup {names[n]}] /\ running' = running
      /\ \A q \in Procs : held[q] \subseteq held'[q]
  <2>1. running = [running EXCEPT ![p] = running[p]]
    BY DEF running
  <2> QED
    BY <2>1, HeldOthers
<1>3. \A s \in Reachable : data'[s] = data[s]
  BY <1>1, <1>2, ReachableGrows, ContentsKept
<1>4. Abstract!Open(p, n)
  BY <1>1, <1>2, <1>3, InUseIs DEF Abstract!Open, Abstract!Kept
<1> QED
  BY <1>4 DEF AbstractStep

LEMMA ReopenShows ==
  ASSUME FileInv, FileInv', NEW p \in Procs, Reopen(p), ~raced'
  PROVE  AbstractStep
<1>0. /\ pc \in [Procs -> Places] /\ call \in [Procs -> Calls] /\ call[p] \in Calls
      /\ Shape(pc[p], call[p], file[p], executable[p])
      /\ inode \in [Inodes -> [sector : Sectors \cup {0, Root}, open_cnt : Nat,
                           deny_write_cnt : Nat, removed : BOOLEAN, data : DiskOf]]
  BY DEF FileInv, Types, Shapes
<1>1. Step(p) /\ UNCHANGED <<dir, disk, file, executable>> /\ pc[p] = "reopen"
  BY DEF Step, Reopen, onDisk, tables, At
<1>2. CASE call[p].target = Root
  <2>1. pc'[p] # "read" /\ call'[p].ino = call[p].ino
    BY <1>0, <1>2 DEF Reopen, Opened, Goto, Calls
  <2> QED
    BY <1>1, <2>1, UnseenStep
<1>3. CASE call[p].target # Root
  <2>1. PICK i \in Inodes : i = call[p].found
    BY <1>0, <1>1 DEF Shape, Calls, InodesOrNone
  <2>2. pc'[p] # "read" /\ call'[p].ino = i
    BY <1>0, <1>3, <2>1 DEF Reopen, Opened, Goto, Calls
  <2>3. inode[i].sector = call[p].target /\ ~Overtaken(p)
    BY <2>1 DEF Reopen, Race
  <2>4. inode'[i].sector = call[p].target
    BY <1>0, <2>1, <2>3 DEF Reopen, inode_reopen
  <2>5. call[p].ino = 0 /\ call[p].op \in {"create", "open", "remove", "load"}
        /\ call[p].name \in Names /\ call[p].target \in Sectors
    BY <1>0, <1>1, <1>3 DEF Shape, PlacesOf, Opening, Making, Closing, Leaving, Outside, Calls
  <2>6. InUse(call[p].name, call[p].target)
    BY <1>3, <2>3 DEF Overtaken, InUse, Entry
  <2>7. held[p] = {SectorOf(file[p])} \ {0, Root}
    BY <1>1, <2>5, HeldIs DEF SectorOf
  <2>8. held'[p] = {SectorOf(file[p]), call[p].target} \ {0, Root}
    <3>1. SectorOf(i)' = call[p].target
      BY <2>4, FileSystemAssumption DEF SectorOf, Inodes
    <3>2. PICK f : f = file[p] /\ f = file'[p]
      BY <1>1
    <3>3. held'[p] = {SectorOf(f), SectorOf(i)', 0} \ {0, Root}
      BY <1>1, <2>2, <3>2, HeldIs
    <3> QED
      BY <3>1, <3>2, <3>3
  <2>9. running'[p] = running[p]
    BY <1>1, HeldIs
  <2>10. call[p].target \notin {0, Root}
    BY <2>5, FileSystemAssumption DEF Sectors, Root
  <2> QED
    BY <1>1, <2>5, <2>6, <2>7, <2>8, <2>9, <2>10, NameIs, OpensFile
<1> QED
  BY <1>2, <1>3

LEMMA PushShows ==
  ASSUME FileInv, FileInv', NEW p \in Procs, Push(p), ~raced'
  PROVE  AbstractStep
<1>0. /\ pc \in [Procs -> Places] /\ call \in [Procs -> Calls] /\ call[p] \in Calls
      /\ Shape(pc[p], call[p], file[p], executable[p])
  BY DEF FileInv, Types, Shapes
<1>1. Step(p) /\ UNCHANGED <<dir, disk, file, executable>> /\ pc[p] = "push"
      /\ pc'[p] = "read" /\ ~Overtaken(p)
  BY <1>0 DEF Step, Push, onDisk, tables, At, Goto, Race
<1>2. call'[p].ino = 0 /\ call[p].ino = 0 /\ call'[p].target = call[p].target
  BY <1>0, <1>1 DEF Push, Calls, Shape, Leaving
<1>3. held[p] = {SectorOf(file[p])} \ {0, Root}
  BY <1>1, <1>2, HeldIs DEF SectorOf
<1>4. held'[p] = {SectorOf(file[p]), call[p].target} \ {0, Root}
  <2>1. PICK f : f = file[p] /\ f = file'[p]
    BY <1>1
  <2>2. PICK z : z = 0 /\ z = call'[p].ino
    BY <1>2
  <2>3. held'[p] = {SectorOf(f), SectorOf(z)', call[p].target} \ {0, Root}
    BY <1>1, <1>2, <2>1, <2>2, HeldIs
  <2> QED
    BY <2>1, <2>2, <2>3 DEF SectorOf
<1>5. running'[p] = running[p]
  BY <1>1, HeldIs
<1>6. CASE call[p].target = Root
  BY <1>1, <1>3, <1>4, <1>5, <1>6, Unseen DEF OfFile
<1>7. CASE call[p].target # Root
  <2>1. call[p].op \in {"create", "open", "remove", "load"}
        /\ call[p].name \in Names /\ call[p].target \in Sectors
    BY <1>0, <1>1, <1>7 DEF Shape, PlacesOf, Opening, Making, Closing, Leaving, Outside, Calls
  <2>2. InUse(call[p].name, call[p].target)
    BY <1>1, <1>7 DEF Overtaken, InUse, Entry
  <2>3. call[p].target \notin {0, Root}
    BY <2>1, FileSystemAssumption DEF Sectors, Root
  <2> QED
    BY <1>1, <1>3, <1>4, <1>5, <2>1, <2>2, <2>3, NameIs, OpensFile
<1> QED
  BY <1>6, <1>7

LEMMA ReadUnseen ==
  ASSUME FileInv, FileInv', NEW p \in Procs, ReadInode(p)
  PROVE  AbstractStep
<1>0. /\ pc \in [Procs -> Places] /\ call \in [Procs -> Calls] /\ call[p] \in Calls
      /\ Shape(pc[p], call[p], file[p], executable[p]) /\ Knows(p)
      /\ inode \in [Inodes -> [sector : Sectors \cup {0, Root}, open_cnt : Nat,
                           deny_write_cnt : Nat, removed : BOOLEAN, data : DiskOf]]
  BY DEF FileInv, Types, Shapes, Knowing
<1>1. Step(p) /\ UNCHANGED <<dir, disk, file, executable>> /\ pc[p] = "read"
  BY DEF Step, ReadInode, onDisk, tables, At
<1>2. PICK i \in Inodes : i = call[p].found
  BY <1>0, <1>1 DEF Shape, Calls, InodesOrNone
<1>3. inode[i].sector = call[p].target /\ inode'[i].sector = inode[i].sector /\ i # 0
  BY <1>0, <1>1, <1>2 DEF Knows, ReadInode, Inodes
<1>4. pc'[p] # "read" /\ call[p].ino = 0
      /\ call'[p].ino = IF call[p].target = Root THEN 0 ELSE i
  BY <1>0, <1>1, <1>2 DEF ReadInode, Opened, Goto, Calls, Shape, Leaving
<1>5. held[p] = {SectorOf(file[p]), call[p].target} \ {0, Root}
  BY <1>1, <1>4 DEF held, SectorOf
<1>6. PICK f, o : f = file[p] /\ f = file'[p] /\ o = call'[p].ino
  BY <1>1
<1>7. held'[p] = {SectorOf(f), SectorOf(o)', 0} \ {0, Root}
  BY <1>1, <1>4, <1>6, HeldIs
<1>8. SectorOf(o)' = IF call[p].target = Root THEN 0 ELSE call[p].target
  BY <1>3, <1>4, <1>6 DEF SectorOf
<1>9. held'[p] = held[p]
  BY <1>5, <1>6, <1>7, <1>8
<1> QED
  BY <1>1, <1>9, HeldIs, Unseen

LEMMA FreshNext ==
  (FileInv => \A s \in Reachable :
    (\A t \in Extent(disk[s]) : disk[t].data = Zeros) => ZeroFilled(data[s]))'
BY DataIsFresh, PTL

LEMMA AddShows ==
  ASSUME FileInv, FileInv', Zeroed, NEW p \in Procs, DirAdd(p)
  PROVE  AbstractStep
<1>0. /\ pc \in [Procs -> Places] /\ call \in [Procs -> Calls] /\ call[p] \in Calls
      /\ Shape(pc[p], call[p], file[p], executable[p]) /\ Knows(p)
      /\ dir \in [Entries -> [name : Names \cup {NoOne}, sector : Sectors \cup {0}]]
  BY DEF FileInv, Types, Shapes, Knowing
<1>1. Step(p) /\ UNCHANGED <<disk, file, executable>> /\ pc[p] = "add"
  BY DEF Step, DirAdd, tables, At
<1>2. pc'[p] # "read" /\ call'[p].ino = call[p].ino
  BY <1>0 DEF DirAdd, Goto, Calls
<1>3. CASE UNCHANGED dir
  BY <1>1, <1>2, <1>3, UnseenStep DEF OfFile
<1>4. CASE ~UNCHANGED dir
  <2>0. PICK n, f : n = call[p].name /\ f = call[p].sector
    OBVIOUS
  <2> DEFINE free == InDir(NoOne)
  <2>1. PICK e : e = CHOOSE x \in free : \A y \in free : x <= y
    OBVIOUS
  <2>2. InDir(n) = {} /\ free # {} /\ dir' = [dir EXCEPT ![e] = Entry(n, f)]
    BY <1>4, <2>0, <2>1 DEF DirAdd, Entry
  <2>3. e \in Entries /\ dir[e].name = NoOne
    <3>1. free \in SUBSET Nat /\ free # {}
      BY <2>2 DEF InDir, Entries
    <3>2. \E x \in free : \A y \in free : x <= y
      <4> HIDE DEF free
      <4> QED
        BY <3>1, LeastIs
    <3>3. e \in free
      BY <2>1, <3>2
    <3> QED
      BY <3>3 DEF InDir
  <2>4. n \in Names /\ f \in Sectors /\ f # 0 /\ call[p].start # 0 /\ n # NoOne
    <3>1. call[p].op = "create" /\ pc[p] \in Making \ {"alloc"}
      BY <1>0, <1>1 DEF Shape, PlacesOf, Opening, Making, Closing, Leaving, Outside
    <3> QED
      BY <1>0, <1>1, <2>0, <3>1, FileSystemAssumption DEF Shape, Calls, Sectors
  <2>5. names[n] = 0
    BY <2>2, <2>4 DEF names
  <2>6. names'[n] = f
    <3>1. InDir(n)' = {e}
      BY <1>0, <2>2, <2>3, <2>4 DEF InDir, Entry
    <3>2. (CHOOSE x \in {e} : TRUE) = e
      OBVIOUS
    <3>3. names'[n] = dir'[CHOOSE x \in {e} : TRUE].sector
      <4>1. names' = [m \in Names |->
              IF InDir(m)' = {} THEN 0 ELSE dir'[CHOOSE x \in InDir(m)' : TRUE].sector]
        BY DEF names
      <4> QED
        BY <3>1, <4>1, <2>4
    <3> QED
      BY <1>0, <2>2, <2>3, <3>2, <3>3 DEF Entry
  <2>7. ASSUME NEW m \in Names, m # n PROVE names'[m] = names[m]
    <3>1. InDir(m)' = InDir(m) /\ \A x \in InDir(m) : dir'[x] = dir[x]
      BY <1>0, <2>2, <2>3, <2>7, FileSystemAssumption DEF InDir, Entry
    <3>2. InDir(m) # {} => (CHOOSE x \in InDir(m) : TRUE) \in InDir(m)
      OBVIOUS
    <3> QED
      BY <3>1, <3>2 DEF names
  <2>8. names' = [names EXCEPT ![n] = f]
    <3>1. names = [m \in Names |-> names[m]] /\ names' = [m \in Names |-> names'[m]]
      BY DEF names
    <3> QED
      BY <2>6, <2>7, <3>1
  <2>9. held' = held /\ running' = running
    <3>1. PICK x, o, z : /\ x = file[p] /\ x = file'[p] /\ o = call[p].ino /\ o = call'[p].ino
                         /\ z = executable[p] /\ z = executable'[p]
      BY <1>1, <1>2
    <3>2. held'[p] = {SectorOf(x), SectorOf(o), 0} \ {0, Root} /\ running'[p] = running[p]
      BY <1>1, <1>2, <3>1, HeldIs
    <3>3. held'[p] = held[p]
      BY <1>1, <3>1, <3>2, HeldIs
    <3>4. held = [held EXCEPT ![p] = held[p]] /\ running = [running EXCEPT ![p] = running[p]]
      BY DEF held, running
    <3> QED
      BY <1>1, <3>2, <3>3, <3>4, HeldOthers
  <2>10. f \notin Reachable
    <3>1. f \in OfCall(p)
      BY <2>0, <2>4 DEF OfCall
    <3>2. f \notin Files
      BY <3>1 DEF FileInv, Accounts, OfFile
    <3> QED
      BY <3>2, MappingTypes
  <2>11. f \in Reachable'
    BY <2>4, <2>6 DEF Reachable
  <2>12. \A s \in Reachable : data'[s] = data[s]
    <3>1. ASSUME NEW s \in Names, names[s] # 0 PROVE names'[s] = names[s]
      BY <2>5, <2>7, <3>1
    <3>2. Reachable \subseteq Reachable'
      BY <2>9, <3>1 DEF Reachable
    <3> QED
      BY <1>1, <3>2, ContentsKept
  <2>13. ZeroFilled(data'[f])
    <3>1. disk[f] = InodeDisk(call[p].start, call[p].length)
      BY <1>0, <1>1, <2>0 DEF Knows
    <3>2. Extent(disk[f]) = Held(p)
      BY <2>4, <3>1 DEF InodeDisk, Extent, Held, Run
    <3>3. \A t \in Extent(disk[f]) : disk[t].data = Zeros
      BY <1>1, <3>2 DEF Zeroed
    <3>4. \A t \in Extent(disk'[f]) : disk'[t].data = Zeros
      BY <1>1, <3>3
    <3> QED
      BY <2>11, <3>4, FreshNext DEF Extent, ZeroFilled
  <2>14. Abstract!Create(n, f)
    BY <2>4, <2>5, <2>8, <2>9, <2>10, <2>12, <2>13, InUseIs DEF Abstract!Create, Abstract!Kept
  <2> QED
    BY <2>4, <2>14 DEF AbstractStep
<1> QED
  BY <1>3, <1>4

LEMMA EraseShows ==
  ASSUME FileInv, FileInv', NEW p \in Procs, Erase(p)
  PROVE  AbstractStep
<1>0. /\ pc \in [Procs -> Places] /\ call \in [Procs -> Calls] /\ call[p] \in Calls
      /\ Shape(pc[p], call[p], file[p], executable[p]) /\ Knows(p)
      /\ dir \in [Entries -> [name : Names \cup {NoOne}, sector : Sectors \cup {0}]]
  BY DEF FileInv, Types, Shapes, Knowing
<1>1. Step(p) /\ UNCHANGED <<disk, file, executable, call>> /\ pc[p] = "erase" /\ pc'[p] = "close"
  BY <1>0 DEF Step, Erase, tables, At, Goto
<1>n. PICK n : n = call[p].name
  OBVIOUS
<1>2. n \in Names /\ n # NoOne
  <2>1. call[p].op = "remove"
    BY <1>0, <1>1 DEF Shape, PlacesOf, Opening, Making, Closing, Leaving, Outside
  <2> QED
    BY <1>0, <1>n, <2>1, FileSystemAssumption DEF Shape
<1>3. names[n] # 0
  <2>1. InUse(n, inode[call[p].ino].sector)
    BY <1>0, <1>1, <1>n DEF Knows
  <2>2. inode[call[p].ino].sector \in Sectors
    BY <1>0, <1>1 DEF Knows, Shape
  <2> QED
    BY <1>2, <2>1, <2>2, NameIs
<1>4. \A e \in Entries : dir'[e] = IF dir[e].name = n THEN FreeEntry ELSE dir[e]
  BY <1>n DEF Erase, Erased, InDir
<1>5. InDir(n)' = {}
  BY <1>2, <1>4 DEF InDir, FreeEntry
<1>6. names'[n] = 0
  <2>1. names' = [m \in Names |->
          IF InDir(m)' = {} THEN 0 ELSE dir'[CHOOSE x \in InDir(m)' : TRUE].sector]
    BY DEF names
  <2> QED
    BY <1>2, <1>5, <2>1
<1>7. ASSUME NEW m \in Names, m # n PROVE names'[m] = names[m]
  <2>1. m # NoOne
    BY FileSystemAssumption
  <2>2. InDir(m)' = InDir(m) /\ \A x \in InDir(m) : dir'[x] = dir[x]
    BY <1>4, <1>7, <2>1 DEF InDir, FreeEntry
  <2>3. InDir(m) # {} => (CHOOSE x \in InDir(m) : TRUE) \in InDir(m)
    OBVIOUS
  <2> QED
    BY <2>2, <2>3 DEF names
<1>8. names' = [names EXCEPT ![n] = 0]
  <2>1. names = [m \in Names |-> names[m]] /\ names' = [m \in Names |-> names'[m]]
    BY DEF names
  <2> QED
    BY <1>6, <1>7, <2>1
<1>9. held' = held /\ running' = running
  <2>1. PICK x, o, z : /\ x = file[p] /\ x = file'[p] /\ o = call[p].ino /\ o = call'[p].ino
                       /\ z = executable[p] /\ z = executable'[p]
    BY <1>1
  <2>2. held'[p] = {SectorOf(x), SectorOf(o), 0} \ {0, Root} /\ running'[p] = running[p]
    BY <1>1, <2>1, HeldIs
  <2>3. held'[p] = held[p]
    BY <1>1, <2>1, <2>2, HeldIs
  <2>4. held = [held EXCEPT ![p] = held[p]] /\ running = [running EXCEPT ![p] = running[p]]
    BY DEF held, running
  <2> QED
    BY <1>1, <2>2, <2>3, <2>4, HeldOthers
<1>10. \A s \in Reachable' : data'[s] = data[s]
  <2>1. \A m \in Names : names'[m] \in {0, names[m]}
    BY <1>6, <1>7
  <2>2. Reachable' \subseteq Reachable
    BY <1>9, <2>1 DEF Reachable
  <2> QED
    BY <1>1, <2>2, ContentsKept
<1>11. Abstract!InUse' = Reachable'
  BY DEF Abstract!InUse, Reachable
<1>12. Abstract!Remove(n)
  BY <1>3, <1>8, <1>9, <1>10, <1>11 DEF Abstract!Remove, Abstract!Kept
<1> QED
  BY <1>2, <1>12 DEF AbstractStep

LEMMA CloseShows ==
  ASSUME FileInv, FileInv', NEW p \in Procs, CloseInode(p)
  PROVE  AbstractStep
<1>0. /\ pc \in [Procs -> Places] /\ call \in [Procs -> Calls] /\ call[p] \in Calls
      /\ Shape(pc[p], call[p], file[p], executable[p]) /\ Knows(p)
  BY DEF FileInv, Types, Shapes, Knowing
<1>1. Step(p) /\ UNCHANGED <<dir, disk, file, executable>> /\ pc[p] = "close"
  BY DEF Step, CloseInode, onDisk, tables, At
<1>2. pc'[p] # "read" /\ call'[p].ino = 0
  BY <1>0 DEF CloseInode, Goto, Calls, AfterClose
<1>3. PICK i : i = call[p].ino
  OBVIOUS
<1>4. i \in Inodes /\ inode[i].sector \in Sectors /\ SectorOf(i) = inode[i].sector
  BY <1>0, <1>1, <1>3 DEF Shape, Knows, Calls, InodesOrNone, SectorOf, Inodes
<1>5. SectorOf(i) \in held[p]
  BY <1>1, <1>3, <1>4, HeldIs, FileSystemAssumption DEF Sectors, Root
<1>6. held'[p] = {SectorOf(file[p])} \ {0, Root} /\ running'[p] = running[p]
  <2>1. PICK x, z : x = file[p] /\ x = file'[p] /\ z = 0 /\ z = call'[p].ino
    BY <1>1, <1>2
  <2>2. held'[p] = {SectorOf(x), SectorOf(z)', 0} \ {0, Root}
    BY <1>1, <1>2, <2>1, HeldIs
  <2> QED
    BY <1>1, <2>1, <2>2, HeldIs DEF SectorOf
<1>7. held[p] = {SectorOf(file[p]), SectorOf(i)} \ {0, Root}
  BY <1>1, <1>3, HeldIs
<1>8. CASE held'[p] = held[p]
  BY <1>1, <1>6, <1>8, Unseen
<1>9. CASE held'[p] # held[p]
  <2>1. held'[p] = held[p] \ {SectorOf(i)}
    BY <1>6, <1>7, <1>9
  <2>2. names' = names /\ running' = running /\ held' = [held EXCEPT ![p] = @ \ {SectorOf(i)}]
    <3>1. running = [running EXCEPT ![p] = running[p]]
      BY DEF running
    <3> QED
      BY <1>1, <1>6, <2>1, <3>1, HeldOthers DEF names, InDir
  <2>3. Reachable' \subseteq Reachable
    <3>1. \A q \in Procs : held'[q] \subseteq held[q]
      BY <1>1, <2>1, HeldOthers
    <3> QED
      BY <2>2, <3>1 DEF Reachable
  <2>4. \A s \in Reachable' : data'[s] = data[s]
    BY <1>1, <2>3, ContentsKept
  <2>5. Abstract!InUse' = Reachable'
    BY DEF Abstract!InUse, Reachable
  <2>6. Abstract!Close(p, SectorOf(i))
    BY <1>5, <2>2, <2>4, <2>5 DEF Abstract!Close, Abstract!Kept
  <2> QED
    BY <1>4, <2>6 DEF AbstractStep
<1> QED
  BY <1>8, <1>9

LEMMA WriteShows ==
  ASSUME FileInv, FileInv', NEW p \in Procs, WriteSector(p), ~raced'
  PROVE  AbstractStep
<1>0. /\ pc \in [Procs -> Places] /\ call \in [Procs -> Calls] /\ call[p] \in Calls
      /\ Shape(pc[p], call[p], file[p], executable[p]) /\ Knows(p) /\ file[p] \in InodesOrNone
      /\ disk \in [Sectors -> DiskOf]
  BY DEF FileInv, Types, Shapes, Knowing
<1>1. Step(p) /\ UNCHANGED <<dir, call, file, executable>> /\ pc[p] = "write" /\ pc'[p] = "return"
  BY <1>0 DEF Step, WriteSector, tables, At, Goto
<1>2. PICK i : i = file[p]
  OBVIOUS
<1>3. i \in Inodes /\ i # 0 /\ inode[i].sector \in Sectors
  <2>1. call[p].op = "write"
    BY <1>0, <1>1 DEF Shape, PlacesOf, Opening, Making, Closing, Leaving, Outside
  <2> QED
    BY <1>0, <1>2, <2>1 DEF Shape, Knows, InodesOrNone
<1>4. PICK f \in Sectors : f = inode[i].sector
  BY <1>3
<1>5. ~NotRead(i) /\ inode[i].deny_write_cnt = 0 /\ inode[i].data = disk[f]
  <2>1. ~NotRead(i) /\ ~(inode[i].deny_write_cnt > 0)
    BY <1>2 DEF WriteSector, Race
  <2> QED
    BY <1>3, <1>4, <2>1 DEF FileInv, Types, InodesOK, InodeOK
<1>6. f \in held[p] /\ f \in Files
  <2>1. f = SectorOf(file[p])
    BY <1>2, <1>3, <1>4 DEF SectorOf
  <2>2. f \notin {0, Root}
    BY FileSystemAssumption DEF Sectors, Root
  <2>3. f \in held[p]
    BY <1>1, <2>1, <2>2, HeldIs
  <2> QED
    BY <2>3, MappingTypes DEF Files
<1>7. \A q \in Procs : running[q] # f
  <2>1. \A q \in Procs : executable[q] # i
    <3>1. IsFiniteSet({q \in Procs : executable[q] = i})
      BY FileSystemAssumption, FS_Subset
    <3>2. Cardinality({q \in Procs : executable[q] = i}) = 0
      BY <1>3, <1>5 DEF FileInv, Counted
    <3> QED
      BY <3>1, <3>2, FS_EmptySet
  <2>2. ASSUME NEW q \in Procs, running[q] = f PROVE FALSE
    <3>1. executable[q] \in Inodes /\ inode[executable[q]].sector = f
      BY <2>2, FileSystemAssumption DEF running, SectorOf, FileInv, Types, InodesOrNone, Sectors
    <3> QED
      BY <1>3, <1>4, <2>1, <3>1, FileSystemAssumption
        DEF FileInv, InodesOK, OpensShared, Sectors
  <2> QED
    BY <2>2
<1>8. held' = held /\ running' = running /\ names' = names
  <2>1. PICK x, o, z : /\ x = file[p] /\ x = file'[p] /\ o = call[p].ino /\ o = call'[p].ino
                       /\ z = executable[p] /\ z = executable'[p]
    BY <1>1
  <2>2. held'[p] = {SectorOf(x), SectorOf(o), 0} \ {0, Root} /\ running'[p] = running[p]
    BY <1>1, <2>1, HeldIs
  <2>3. held'[p] = held[p]
    BY <1>1, <2>1, <2>2, HeldIs
  <2>4. held = [held EXCEPT ![p] = held[p]] /\ running = [running EXCEPT ![p] = running[p]]
    BY DEF held, running
  <2> QED
    BY <1>1, <2>2, <2>3, <2>4, HeldOthers DEF names, InDir
<1>9. Reachable' = Reachable
  BY <1>8 DEF Reachable
<1>10. \A t \in Sectors : t \notin OfFile(f) => disk'[t] = disk[t]
  <2>1. \/ disk' = disk
        \/ \E s \in Extent(disk[f]), v \in Values : disk' = [disk EXCEPT ![s] = Data(v)]
    BY <1>2, <1>5 DEF WriteSector
  <2> QED
    BY <1>0, <2>1 DEF OfFile
<1>11. \A s \in Reachable \ {f} : data'[s] = data[s]
  <2>1. \A s \in Reachable \ {f} : s \in Files /\ OfFile(s) \cap OfFile(f) = {} /\ OfFile(s) \subseteq Sectors
    BY <1>6, MappingTypes DEF FileInv, Accounts, Types
  <2>2. \A s \in Reachable \ {f} : \A t \in OfFile(s) : disk'[t] = disk[t]
    BY <1>10, <2>1
  <2> QED
    BY <1>9, <2>2, ContentsKept
<1>12. Abstract!Write(p, f)
  BY <1>6, <1>7, <1>8, <1>11, InUseIs DEF Abstract!Write, Abstract!Kept
<1> QED
  BY <1>12 DEF AbstractStep

LEMMA ReturnUnseen ==
  ASSUME FileInv, FileInv', NEW p \in Procs, Return(p)
  PROVE  AbstractStep
<1>0. /\ pc \in [Procs -> Places] /\ call \in [Procs -> Calls] /\ call[p] \in Calls
      /\ Shape(pc[p], call[p], file[p], executable[p]) /\ file \in [Procs -> InodesOrNone]
  BY DEF FileInv, Types, Shapes
<1>1. Step(p) /\ UNCHANGED <<dir, disk, executable>> /\ pc[p] = "return" /\ pc'[p] = "user"
      /\ call'[p].ino = 0
  BY <1>0 DEF Step, Return, onDisk, At, Goto, NoCall
<1>2. PICK x, o : x = file[p] /\ o = call[p].ino
  OBVIOUS
<1>3. held[p] = {SectorOf(x), SectorOf(o)} \ {0, Root}
  BY <1>1, <1>2, HeldIs
<1>4. PICK f : f = file'[p] /\ f \in {x, o} /\ held[p] = {SectorOf(f)} \ {0, Root}
  <2>1. CASE call[p].op = "open"
    <3>1. x = 0
      BY <1>0, <1>1, <1>2, <2>1 DEF Shape
    <3>2. file'[p] = o
      BY <1>0, <1>2, <2>1 DEF Return
    <3> QED
      BY <1>3, <3>1, <3>2 DEF SectorOf
  <2>2. CASE call[p].op # "open"
    <3>1. o = 0
      BY <1>0, <1>1, <1>2, <2>2 DEF Shape, PlacesOf, Opening, Making, Closing, Leaving, Outside
    <3>2. file'[p] = x
      BY <1>0, <1>2, <2>2 DEF Return
    <3> QED
      BY <1>3, <3>1, <3>2 DEF SectorOf
  <2> QED
    BY <2>1, <2>2
<1>5. PICK z : z = 0 /\ z = call'[p].ino
  BY <1>1
<1>6. held'[p] = {SectorOf(f), SectorOf(z), 0} \ {0, Root}
  BY <1>1, <1>2, <1>4, <1>5, OwnIs
<1>7. held'[p] = held[p]
  BY <1>4, <1>5, <1>6 DEF SectorOf
<1> QED
  BY <1>1, <1>7, HeldIs, Unseen

LEMMA DenyShows ==
  ASSUME FileInv, FileInv', NEW p \in Procs, DenyWrite(p)
  PROVE  AbstractStep
<1>0. /\ pc \in [Procs -> Places] /\ call \in [Procs -> Calls] /\ call[p] \in Calls
      /\ Shape(pc[p], call[p], file[p], executable[p]) /\ Knows(p)
      /\ executable \in [Procs -> InodesOrNone]
  BY DEF FileInv, Types, Shapes, Knowing
<1>1. Step(p) /\ UNCHANGED <<dir, disk, file>> /\ pc[p] = "loaded" /\ pc'[p] # "read"
      /\ call'[p].ino = 0
  BY <1>0 DEF Step, DenyWrite, onDisk, At, Goto, NoCall
<1>2. PICK i : i = call[p].ino
  OBVIOUS
<1>3. file[p] = 0 /\ executable[p] = 0
  <2>1. call[p].op = "load"
    BY <1>0, <1>1 DEF Shape, PlacesOf, Opening, Making, Closing, Leaving, Outside
  <2> QED
    BY <1>0, <2>1 DEF Shape
<1>4. held'[p] = {}
  <2>1. PICK x, z : x = file[p] /\ x = file'[p] /\ z = 0 /\ z = call'[p].ino
    BY <1>1
  <2>2. held'[p] = {SectorOf(x), SectorOf(z), 0} \ {0, Root}
    BY <1>1, <2>1, OwnIs
  <2> QED
    BY <1>3, <2>1, <2>2 DEF SectorOf
<1>5. held[p] = {SectorOf(i)} \ {0, Root}
  BY <1>1, <1>2, <1>3, HeldIs DEF SectorOf
<1>6. CASE i = 0
  <2>1. executable' = executable
    BY <1>2, <1>6 DEF DenyWrite
  <2>2. held[p] = {}
    BY <1>5, <1>6 DEF SectorOf
  <2> QED
    BY <1>1, <1>4, <2>1, <2>2, HeldIs, Unseen
<1>7. CASE i # 0
  <2>1. executable'[p] = i
    BY <1>0, <1>2, <1>7 DEF DenyWrite
  <2>2. running'[p] = SectorOf(i)
    <3>1. PICK x : x = i /\ x = executable'[p]
      BY <2>1
    <3> QED
      BY <1>1, <1>2, <3>1, OwnIs
  <2>3. PICK f \in Sectors : f = SectorOf(i) /\ f \in held[p]
    <3>1. SectorOf(i) \in Sectors
      BY <1>0, <1>2, <1>7 DEF Knows, SectorOf
    <3> QED
      BY <1>5, <3>1, FileSystemAssumption DEF Sectors, Root
  <2>4. /\ held' = [held EXCEPT ![p] = {}] /\ running' = [running EXCEPT ![p] = f]
        /\ names' = names
    BY <1>1, <1>4, <2>2, <2>3, HeldOthers DEF names, InDir
  <2>5. Reachable \subseteq Reachable'
    <3>1. running[p] = 0 /\ held[p] = {f}
      BY <1>3, <1>5, <2>3 DEF running, SectorOf
    <3>2. running'[p] = f /\ \A q \in Procs \ {p} : held'[q] = held[q] /\ running'[q] = running[q]
      BY <1>1, <2>2, <2>3, HeldOthers
    <3> QED
      BY <2>4, <3>1, <3>2 DEF Reachable
  <2>6. \A s \in Reachable : data'[s] = data[s]
    BY <1>1, <2>5, ContentsKept
  <2>7. Abstract!Run(p, f)
    BY <2>3, <2>4, <2>6, InUseIs DEF Abstract!Run, Abstract!Kept
  <2> QED
    BY <2>7 DEF AbstractStep
<1> QED
  BY <1>6, <1>7

LEMMA AllowShows ==
  ASSUME FileInv, FileInv', NEW p \in Procs, AllowWrite(p)
  PROVE  AbstractStep
<1>0. /\ pc \in [Procs -> Places] /\ call \in [Procs -> Calls] /\ call[p] \in Calls
      /\ Shape(pc[p], call[p], file[p], executable[p])
      /\ executable \in [Procs -> InodesOrNone]
  BY DEF FileInv, Types, Shapes
<1>1. Step(p) /\ UNCHANGED <<dir, disk, file>> /\ pc[p] = "allow" /\ pc'[p] = "new"
      /\ call'[p].ino = 0 /\ executable'[p] = 0
  BY <1>0 DEF Step, AllowWrite, onDisk, At, Goto, NoCall
<1>2. call[p].ino = 0
  <2>1. call[p].op = "exit"
    BY <1>0, <1>1 DEF Shape, PlacesOf, Opening, Making, Closing, Leaving, Outside
  <2> QED
    BY <1>0, <1>1, <2>1 DEF Shape
<1>3. held'[p] = held[p]
  <2>1. PICK x, z : x = file[p] /\ x = file'[p] /\ z = 0 /\ z = call'[p].ino /\ z = call[p].ino
    BY <1>1, <1>2
  <2>2. held'[p] = {SectorOf(x), SectorOf(z), 0} \ {0, Root}
    BY <1>1, <2>1, OwnIs
  <2>3. held[p] = {SectorOf(x), SectorOf(z)} \ {0, Root}
    BY <1>1, <2>1, HeldIs
  <2> QED
    BY <2>1, <2>2, <2>3 DEF SectorOf
<1>4. running'[p] = 0
  BY <1>1 DEF running, SectorOf
<1>5. held' = held /\ running' = [running EXCEPT ![p] = 0] /\ names' = names
  <2>1. held = [held EXCEPT ![p] = held[p]]
    BY DEF held
  <2> QED
    BY <1>1, <1>3, <1>4, <2>1, HeldOthers DEF names, InDir
<1>6. Reachable' \subseteq Reachable
  <2>1. \A q \in Procs : running'[q] \in {0, running[q]}
    BY <1>1, <1>4, HeldOthers
  <2> QED
    BY <1>5, <2>1 DEF Reachable
<1>7. \A s \in Reachable' : data'[s] = data[s]
  BY <1>1, <1>6, ContentsKept
<1>8. Abstract!InUse' = Reachable'
  BY DEF Abstract!InUse, Reachable
<1>9. Abstract!End(p)
  BY <1>5, <1>7, <1>8 DEF Abstract!End, Abstract!Kept
<1> QED
  BY <1>9 DEF AbstractStep

LEMMA FailureShows ==
  ASSUME FileInv, FileInv', PowerFailure
  PROVE  AbstractStep
<1>1. /\ names' = names /\ held' = [p \in Procs |-> {}] /\ running' = [p \in Procs |-> 0]
  BY DEF PowerFailure, names, InDir, held, running, SectorOf, NoCall, onDisk
<1>2. Reachable' \subseteq Reachable
  BY <1>1 DEF Reachable
<1>3. \A s \in Reachable' : data'[s] = data[s]
  BY <1>2, ContentsKept DEF PowerFailure, onDisk
<1>4. Abstract!InUse' = Reachable'
  BY DEF Abstract!InUse, Reachable
<1>5. Abstract!PowerFailure
  BY <1>1, <1>3, <1>4 DEF Abstract!PowerFailure, Abstract!Kept
<1> QED
  BY <1>5 DEF AbstractStep

\* A step of a process shows as one step of the store, or none.
LEMMA StepShows ==
  ASSUME FileInv, FileInv', Zeroed, NEW p \in Procs, Step(p), ~raced'
  PROVE  AbstractStep
<1>1. CASE Reopen(p) \/ Push(p) \/ ReadInode(p) \/ WriteSector(p)
  BY <1>1, ReopenShows, PushShows, ReadUnseen, WriteShows
<1>2. CASE WriteInode(p) \/ ZeroData(p) \/ DirAdd(p) \/ Erase(p) \/ CloseInode(p)
  BY <1>2, WritesUnseen, AddShows, EraseShows, CloseShows
<1>3. CASE Return(p) \/ DenyWrite(p) \/ AllowWrite(p)
  BY <1>3, ReturnUnseen, DenyShows, AllowShows
<1>4. CASE \/ Scan(p) \/ Lookup(p) \/ Alloc(p) \/ AllocData(p) \/ Release(p) \/ FreeIno(p)
           \/ FreeData(p) \/ CloseRoot(p) \/ FreeRoot(p) \/ WriteCheck(p)
  BY <1>4, QuietUnseen
<1> QED
  BY <1>1, <1>2, <1>3, <1>4 DEF Step

\* Only the create that is to name a file can write its sectors.
LEMMA ZeroedKept ==
  ASSUME FileInv, Zeroed, NEW p \in Procs, Call(p) \/ Step(p)
  PROVE  Zeroed'
<1> SUFFICES ASSUME NEW q \in Procs, pc'[q] = "add", NEW s \in Held(q)'
             PROVE  disk'[s].data = Zeros
  BY DEF Zeroed
<1>0. /\ pc \in [Procs -> Places] /\ call \in [Procs -> Calls] /\ disk \in [Sectors -> DiskOf]
      /\ free_map \subseteq Sectors
  BY DEF FileInv, Types
<1>1. CASE q = p
  <2>1. ZeroData(p)
    <3>1. CASE Call(p)
      <4>1. \E w \in {"scan", "write_check", "close", "allow"} : Goto(p, w)
        BY <3>1 DEF Call, Create, Open, Remove, Write, Load, Begin, Close, Exit, GiveUpFile
      <4> QED
        BY <1>0, <1>1, <4>1 DEF Goto
    <3>2. CASE Scan(p) \/ Reopen(p) \/ Push(p) \/ ReadInode(p) \/ Lookup(p) \/ Alloc(p) \/ AllocData(p)
      BY <1>0, <1>1, <3>2 DEF Scan, Reopen, Push, ReadInode, Opened, Lookup, Alloc, AllocData, Goto
    <3>3. CASE WriteInode(p) \/ DirAdd(p) \/ Release(p) \/ Erase(p) \/ CloseInode(p) \/ FreeIno(p)
      BY <1>0, <1>1, <3>3 DEF WriteInode, DirAdd, Release, Erase, CloseInode, FreeIno, AfterClose, Goto
    <3>4. CASE \/ FreeData(p) \/ CloseRoot(p) \/ FreeRoot(p) \/ WriteCheck(p) \/ WriteSector(p)
               \/ Return(p) \/ DenyWrite(p) \/ AllowWrite(p)
      BY <1>0, <1>1, <3>4 DEF FreeData, CloseRoot, FreeRoot, WriteCheck, WriteSector, Return,
                              DenyWrite, AllowWrite, AfterClose, AfterRoot, Goto
    <3> QED
      BY <3>1, <3>2, <3>3, <3>4 DEF Step
  <2>2. call' = call /\ disk' = [t \in Sectors |-> IF t \in Held(p) THEN Data(Zeros) ELSE disk[t]]
    BY <2>1 DEF ZeroData
  <2>3. s \in Held(p)
    BY <1>1, <2>2 DEF Held
  <2>4. s \in Sectors
    <3>1. Held(p) \subseteq free_map
      BY DEF FileInv, Accounts, OfCall
    <3> QED
      BY <1>0, <2>3, <3>1
  <2> QED
    BY <2>2, <2>3, <2>4 DEF Data
<1>2. CASE q # p
  <2>1. pc[q] = "add" /\ call'[q].start = call[q].start /\ call'[q].length = call[q].length
    <3>1. pc[q] = "add"
      BY <1>2, OthersStay
    <3>2. CASE Step(p)
      <4>1. call'[q] = call[q]
        BY <1>2, <3>2, StepsAreLocal
      <4> QED
        BY <3>1, <4>1
    <3>3. CASE Call(p)
      BY <1>2, <3>1, <3>3, CallsAreLocal
    <3> QED
      BY <3>1, <3>2, <3>3
  <2>2. s \in Held(q)
    <3>1. Held(q)' = Held(q)
      BY <2>1 DEF Held, Run
    <3> QED
      BY <3>1
  <2>3. disk' = disk
    <3>1. ~(WriteInode(p) \/ ZeroData(p) \/ WriteSector(p))
      <4>1. call[q].op = "create"
        BY <2>1, SMTT(30) DEF FileInv, Shapes, Shape, PlacesOf, Opening, Making, Closing, Leaving, Outside
      <4>2. SUFFICES ASSUME pc[p] \in {"write_inode", "zero", "write"} PROVE FALSE
        BY DEF WriteInode, ZeroData, WriteSector, At
      <4>3. call[p].op \in {"create", "write"}
        BY <4>2, SMTT(30) DEF FileInv, Shapes, Shape, PlacesOf, Opening, Making, Closing, Leaving, Outside
      <4> QED
        BY <1>2, <4>1, <4>3 DEF FileInv, Solo
    <3>2. CASE Call(p)
      BY <3>2, Zenon DEF Call, Create, Open, Remove, Write, Load, Close, Exit, onDisk
    <3>3. CASE Step(p)
      BY <3>1, <3>3, Zenon
      DEF Step, Scan, Reopen, Push, ReadInode, Lookup, Alloc, AllocData, DirAdd,
            Release, Erase, CloseInode, FreeIno, FreeData, CloseRoot, FreeRoot, WriteCheck, Return,
            DenyWrite, AllowWrite, onDisk
    <3> QED
      BY <3>2, <3>3
  <2> QED
    BY <2>1, <2>2, <2>3 DEF Zeroed
<1> QED
  BY <1>1, <1>2

\* The store begins with the program that is on the disk, and nothing open.
LEMMA StoreBegins == Init => Abstract!Init
BY DEF Init, Abstract!Init, held, running, SectorOf, NoCall

\* That something has raced is known or not.
LEMMA RacedIsKnown == ASSUME raced \in BOOLEAN, [Next]_vars PROVE raced' \in BOOLEAN
<1>1. ASSUME UNCHANGED vars \/ PowerFailure PROVE raced' = raced
  BY <1>1 DEF vars, faults, PowerFailure
<1>2. ASSUME NEW p \in Procs, Call(p) PROVE raced' = raced
  BY <1>2 DEF Call, Create, Open, Remove, Write, Close, Exit, Load, faults
<1>3. ASSUME NEW p \in Procs, Step(p) PROVE raced' = raced \/ raced' \in BOOLEAN
  <2>1. CASE Reopen(p) \/ Push(p) \/ Lookup(p) \/ DirAdd(p) \/ WriteSector(p)
    BY <2>1 DEF Reopen, Push, Lookup, DirAdd, WriteSector, Race, NotRead, Overtaken
  <2>2. CASE Release(p) \/ FreeData(p)
    BY <2>2 DEF Release, FreeData
  <2>3. CASE FreeIno(p) \/ DenyWrite(p) \/ AllowWrite(p)
    BY <2>3 DEF FreeIno, DenyWrite, AllowWrite, ASSERTION, NotRead, faults
  <2>4. CASE \/ Scan(p) \/ ReadInode(p) \/ Alloc(p) \/ AllocData(p) \/ WriteInode(p) \/ ZeroData(p)
             \/ Erase(p) \/ CloseInode(p) \/ CloseRoot(p) \/ FreeRoot(p) \/ WriteCheck(p) \/ Return(p)
    BY <2>4 DEF Scan, ReadInode, Alloc, AllocData, WriteInode, ZeroData, Erase, CloseInode,
                CloseRoot, FreeRoot, WriteCheck, Return, faults
  <2> QED
    BY <1>3, <2>1, <2>2, <2>3, <2>4 DEF Step
<1> QED
  BY <1>1, <1>2, <1>3 DEF Next

LEMMA StoreSteps ==
  ASSUME IInv, IInv', raced \in BOOLEAN, Sound => Zeroed, [Next]_vars
  PROVE  [Abstract!Next]_(Abstract!vars) /\ (Sound' => Zeroed')
<1>0. raced' \in BOOLEAN
  BY RacedIsKnown
<1>1. CASE UNCHANGED vars
  <2>1. UNCHANGED Shown /\ UNCHANGED raced
    BY <1>1 DEF vars, onDisk, tables, faults, Shown, names, data, held, running, InDir, SectorOf,
                Reachable, Now
  <2>2. Sound => Sound' /\ (Sound' => Sound)
    BY <1>1 DEF vars, faults, Sound
  <2>3. Zeroed => Zeroed'
    BY <1>1 DEF vars, onDisk, Zeroed, Held
  <2> QED
    BY <2>1, <2>2, <2>3, AbstractNext, SoundBefore DEF AbstractStep
<1>2. CASE PowerFailure
  <2>1. Sound /\ Sound' /\ UNCHANGED raced
    BY <1>2 DEF PowerFailure, Sound, faults
  <2>2. FileInv /\ FileInv'
    BY <2>1 DEF IInv
  <2>3. AbstractStep
    BY <1>2, <2>2, FailureShows
  <2>4. Zeroed'
    BY <1>2 DEF PowerFailure, Zeroed
  <2> QED
    BY <2>1, <2>3, <2>4, AbstractNext
<1>3. ASSUME NEW p \in Procs, Call(p)
      PROVE  [Abstract!Next]_(Abstract!vars) /\ (Sound' => Zeroed')
  <2>1. Sound /\ Sound' /\ UNCHANGED raced
    BY <1>3 DEF Call, Create, Open, Remove, Write, Close, Exit, Load, At, Sound, faults
  <2>2. FileInv /\ FileInv'
    BY <2>1 DEF IInv
  <2>3. AbstractStep
    BY <1>3, <2>2, CallsUnseen
  <2>4. Zeroed'
    BY <1>3, <2>1, <2>2, ZeroedKept
  <2> QED
    BY <2>1, <2>3, <2>4, AbstractNext
<1>4. ASSUME NEW p \in Procs, Step(p)
      PROVE  [Abstract!Next]_(Abstract!vars) /\ (Sound' => Zeroed')
  <2>1. Sound /\ FileInv /\ ~panicked'
    BY <1>4, StepIsSound, AssertionsHold DEF IInv
  <2>2. Zeroed'
    BY <1>4, <2>1, ZeroedKept
  <2>3. CASE raced'
    BY <2>2, <2>3 DEF Abstract!Next
  <2>4. CASE ~raced'
    <3>1. Sound' /\ UNCHANGED raced
      BY <1>0, <2>1, <2>4 DEF Sound
    <3>2. FileInv'
      BY <3>1 DEF IInv
    <3>3. AbstractStep
      BY <1>4, <2>1, <2>4, <3>2, StepShows
    <3> QED
      BY <2>2, <3>1, <3>3, AbstractNext
  <2> QED
    BY <2>3, <2>4
<1> QED
  BY <1>1, <1>2, <1>3, <1>4 DEF Next

(***************************************************************************)
(* ImplementsFileStore: files keep their names and contents through        *)
(* create, remove, open, close and power failures; removed ones live on    *)
(* while they are open; the programs that run are not written.             *)
(***************************************************************************)
THEOREM FilesAreKept == Spec => ImplementsFileStore
<1> DEFINE Z == raced \in BOOLEAN /\ (Sound => Zeroed)
<1>1. Init => Z
  BY DEF Init, Zeroed
<1>2. IInv /\ IInv' /\ Z /\ [Next]_vars => [Abstract!Next]_(Abstract!vars) /\ Z'
  BY StoreSteps, RacedIsKnown
<1> QED
  BY <1>1, <1>2, StoreBegins, InvariantHolds, PTL DEF Spec, ImplementsFileStore, Abstract!Spec
=============================================================================
