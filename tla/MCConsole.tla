------------------------------ MODULE MCConsole ------------------------------
(* Instances of ConsoleProperties for the model checker. *)
EXTENDS ConsoleProperties

CONSTANTS r1, r2

MCReaders == {r1, r2}

(* One thread reads keys, or two do. *)
MCCrowds == {{r1}, {r1, r2}}
MCPairs == {{r1, r2}}
=============================================================================
