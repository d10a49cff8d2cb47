------------------------------ MODULE MCMemory ------------------------------
(* Instances of AllocatorProperties for the model checker. *)
EXTENDS AllocatorProperties, TLC

CONSTANTS t1, t2, d1

MCThreads == {t1, t2}
MCDescs == {d1}
Symmetry == Permutations(MCThreads)
=============================================================================
