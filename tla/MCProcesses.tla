----------------------------- MODULE MCProcesses -----------------------------
(* Instances of ProcessProperties for the model checker. *)
EXTENDS ProcessProperties

MCStatuses == {0, -2}

(* Boots whose programs behave, and boots that meet one kind of mishap. *)
MCPrograms == {{}} \cup {{m} : m \in Mishaps}

(* Programs that end without waiting for the children they started. *)
MCOrphans == {{"orphans"}}
=============================================================================
