-------------------------------- MODULE Heap --------------------------------
(***************************************************************************)
(* What malloc(), realloc(), free() and the page allocator promise: memory *)
(* that is handed out is nobody else's until it is given back, and what    *)
(* its owner has written there stays, also when it is moved.               *)
(***************************************************************************)
EXTENDS Sequences, Naturals

CONSTANTS
  Clients,
  Cells,     \* units of memory
  Extents,   \* what may be handed out: sequences of cells
  Values     \* what a cell may hold

VARIABLES
  owned,     \* the extents of every client
  content    \* of the cells

vars == <<owned, content>>

CellsOf(e) == {e[k] : k \in DOMAIN e}
Taken == UNION {CellsOf(e) : e \in UNION {owned[c] : c \in Clients}}
Untouched(cells) == \A x \in cells : content'[x] = content[x]

Init ==
  /\ owned = [c \in Clients |-> {}]
  /\ content \in [Cells -> Values]

Allocate(c) == \E e \in Extents :
  /\ CellsOf(e) \cap Taken = {}
  /\ owned' = [owned EXCEPT ![c] = @ \cup {e}]
  /\ Untouched(Taken)

Move(c) == \E old \in owned[c], new \in Extents :
  /\ CellsOf(new) \cap Taken = {}
  /\ owned' = [owned EXCEPT ![c] = (@ \ {old}) \cup {new}]
  /\ Untouched(Taken \ CellsOf(old))
  /\ \A k \in DOMAIN old \cap DOMAIN new : content'[new[k]] = content[old[k]]

Free(c) == \E e \in owned[c] :
  /\ owned' = [owned EXCEPT ![c] = @ \ {e}]
  /\ Untouched(Taken \ CellsOf(e))

Store(c) == \E e \in owned[c] :
  /\ Untouched(Taken \ CellsOf(e))
  /\ UNCHANGED owned

(* The allocator's own work, in memory that is nobody's. *)
Manage == Untouched(Taken) /\ UNCHANGED owned

Next ==
  /\ content' \in [Cells -> Values]
  /\ \/ Manage
     \/ \E c \in Clients : Allocate(c) \/ Move(c) \/ Free(c) \/ Store(c)

Spec == Init /\ [][Next]_vars
=============================================================================
