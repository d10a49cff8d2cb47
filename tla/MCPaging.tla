------------------------------ MODULE MCPaging ------------------------------
(* Instances of PagingProperties for the model checker. *)
EXTENDS PagingProperties, TLC

CONSTANTS p, q, v1, v2

MCProcs == {p, q}
MCPages == {"p data", "p stack", "q map", "q stack"}
MCOwner == [g \in MCPages |-> IF g \in {"p data", "p stack"} THEN p ELSE q]

(***************************************************************************)
(* Files: one program with initialised data and a stack, one that maps a   *)
(* file.  Stacks: nothing but stacks, one of which grows, onto the page    *)
(* that holds data in the other layout.                                    *)
(***************************************************************************)
Files == [g \in MCPages |->
  CASE g = "p data" -> "FILE" [] g = "q map" -> "MMAP" [] OTHER -> "SWAP"]
Stacks == [g \in MCPages |-> IF g = "q map" THEN "NONE" ELSE "SWAP"]
MCLayouts == {Files, Stacks}
MCStacks == {Stacks}

(***************************************************************************)
(* All stack pages hold one value at a time, and what follows an overtaken *)
(* eviction is explored with stacks only.                                  *)
(***************************************************************************)
StackValues == {stored[g] : g \in {h \in Pages : kind[h] = "SWAP"}} \ {Junk}

Explored ==
  /\ Cardinality(StackValues) <= 1
  /\ kind = Files => Sound

MCValues == {v1, v2}

Symmetry == Permutations(MCValues)
=============================================================================
