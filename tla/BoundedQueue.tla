---------------------------- MODULE BoundedQueue ----------------------------
(***************************************************************************)
(* What an interrupt queue promises: bytes leave in the order in which     *)
(* they came, none is lost or repeated, and there are never more than      *)
(* Capacity of them.                                                       *)
(***************************************************************************)
EXTENDS Naturals, Sequences

CONSTANTS Items, Capacity

VARIABLES
  items,     \* what is in the queue
  last,      \* what left it last
  closed

vars == <<items, last, closed>>

Init == items = <<>> /\ closed = FALSE

Put(x) ==
  /\ Len(items) < Capacity
  /\ items' = Append(items, x)
  /\ UNCHANGED <<last, closed>>

Take ==
  /\ items # <<>>
  /\ last' = Head(items)
  /\ items' = Tail(items)
  /\ UNCHANGED closed

(* A full queue makes room for one more. *)
Replace(x) ==
  /\ Len(items) = Capacity
  /\ last' = Head(items)
  /\ items' = Append(Tail(items), x)
  /\ UNCHANGED closed

(* Everything leaves, in order, before the queue is given up. *)
Close ==
  /\ ~closed
  /\ closed' = TRUE
  /\ IF items = <<>> THEN UNCHANGED last ELSE last' = items[Len(items)]
  /\ items' = <<>>

Next == Take \/ Close \/ \E x \in Items : Put(x) \/ Replace(x)

Spec == Init /\ [][Next]_vars
=============================================================================
