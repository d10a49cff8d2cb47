------------------------------ MODULE FileStore ------------------------------
(***************************************************************************)
(* What a file system promises its callers.  A file has a name from its    *)
(* creation to its removal, and lives on while somebody has it open; it    *)
(* holds what was last written to it; nobody writes a program that runs.   *)
(* A power failure takes the open files and nothing that has a name.  Of   *)
(* calls that overlap (broken) nothing is promised.                        *)
(***************************************************************************)
EXTENDS Integers

CONSTANTS Procs, Names, Files, Fresh(_)

VARIABLES
  names,         \* the file of each name, 0 if none
  data,          \* the contents of each file
  held,          \* the files each process has open
  running,       \* the file of the program it runs, 0 if none
  broken

vars == <<names, data, held, running, broken>>

InUse == ({names[n] : n \in Names} \cup {running[p] : p \in Procs}
           \cup UNION {held[p] : p \in Procs}) \ {0}

Init == held = [p \in Procs |-> {}] /\ running = [p \in Procs |-> 0] /\ ~broken

(* Files nobody can reach may change. *)
Kept(fs) == \A f \in fs : data'[f] = data[f]

Create(n, f) ==
  /\ names[n] = 0 /\ f \notin InUse
  /\ names' = [names EXCEPT ![n] = f]
  /\ Fresh(data'[f]) /\ Kept(InUse)
  /\ UNCHANGED <<held, running>>

Remove(n) ==
  /\ names[n] # 0
  /\ names' = [names EXCEPT ![n] = 0]
  /\ Kept(InUse') /\ UNCHANGED <<held, running>>

Open(p, n) ==
  /\ names[n] # 0
  /\ held' = [held EXCEPT ![p] = @ \cup {names[n]}]
  /\ Kept(InUse) /\ UNCHANGED <<names, running>>

Close(p, f) ==
  /\ f \in held[p]
  /\ held' = [held EXCEPT ![p] = @ \ {f}]
  /\ Kept(InUse') /\ UNCHANGED <<names, running>>

Write(p, f) ==
  /\ f \in held[p] /\ \A q \in Procs : running[q] # f
  /\ Kept(InUse \ {f}) /\ UNCHANGED <<names, held, running>>

Run(p, f) ==
  /\ f \in held[p]
  /\ running' = [running EXCEPT ![p] = f]
  /\ held' = [held EXCEPT ![p] = {}]
  /\ Kept(InUse) /\ UNCHANGED names

End(p) ==
  /\ running' = [running EXCEPT ![p] = 0]
  /\ Kept(InUse') /\ UNCHANGED <<names, held>>

PowerFailure ==
  /\ held' = [p \in Procs |-> {}]
  /\ running' = [p \in Procs |-> 0]
  /\ Kept(InUse') /\ UNCHANGED names

Next ==
  \/ broken'
  \/ /\ UNCHANGED broken
     /\ \/ \E n \in Names : Remove(n) \/ \E f \in Files : Create(n, f)
        \/ \E p \in Procs : \/ \E n \in Names : Open(p, n)
                            \/ \E f \in Files : Close(p, f) \/ Write(p, f) \/ Run(p, f)
                            \/ End(p)
        \/ PowerFailure

Spec == Init /\ [][Next]_vars
=============================================================================
