------------------------------- MODULE MCFiles -------------------------------
(* Instances of FileProperties for the model checker. *)
EXTENDS FileProperties

CONSTANTS p, q

MCProcs == {p, q}
MCLengths == {1}
=============================================================================
