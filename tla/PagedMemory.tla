----------------------------- MODULE PagedMemory -----------------------------
(***************************************************************************)
(* What paging promises: a page keeps what was last written to it, wherever*)
(* it is kept, until its owner gives the page up.  Of a machine on which   *)
(* eviction has been overtaken (broken) nothing is promised.               *)
(***************************************************************************)
CONSTANTS Pages, Values

VARIABLES
  value, valid,
  stored,       \* what was last written to each page
  lasting,      \* the pages whose contents outlive them: mapped files
  broken

vars == <<value, valid, stored, lasting, broken>>

Init == valid = [g \in Pages |-> FALSE] /\ broken = FALSE

(* The owner writes, through an instruction or a system call. *)
Write(g) ==
  /\ valid[g]
  /\ \E v \in Values : /\ value' = [value EXCEPT ![g] = v]
                      /\ stored' = [stored EXCEPT ![g] = v]
  /\ UNCHANGED <<valid, broken>>

(* A new page holds what its file holds, or junk. *)
Enter ==
  /\ \A g \in Pages : /\ valid[g] => valid'[g]
                     /\ stored'[g] = IF ~valid[g] /\ valid'[g]
                                     THEN value[g] ELSE stored[g]
  /\ UNCHANGED <<value, broken>>

Leave(g) ==
  /\ valid[g]
  /\ valid' = [valid EXCEPT ![g] = FALSE]
  /\ \A h \in Pages \ {g} : value'[h] = value[h] /\ stored'[h] = stored[h]
  /\ g \in lasting => value'[g] = value[g]
  /\ UNCHANGED broken

Next ==
  /\ broken' \/ Enter \/ \E g \in Pages : Write(g) \/ Leave(g)
  /\ UNCHANGED lasting

Spec == Init /\ [][Next]_vars
=============================================================================
