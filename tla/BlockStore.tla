------------------------------ MODULE BlockStore ------------------------------
(***************************************************************************)
(* What block devices promise: each call takes effect at once, at a moment *)
(* between its beginning and its end, on a sector that is nobody else's.   *)
(* Of a machine whose disk has failed or been confused (broken) nothing is *)
(* promised.                                                               *)
(***************************************************************************)
CONSTANTS Clients, Sectors, Values, NoSector, NoValue

VARIABLES
  stored,        \* what each sector holds
  sector, op,    \* the call of each client
  value,         \* what it is to write, or has read
  done,          \* it has taken effect
  broken

vars == <<stored, sector, op, value, done, broken>>

Init ==
  /\ \E v \in Values : stored = [s \in Sectors |-> v]
  /\ sector = [c \in Clients |-> NoSector] /\ op = [c \in Clients |-> "none"]
  /\ value = [c \in Clients |-> NoValue]
  /\ done = [c \in Clients |-> FALSE]
  /\ broken = FALSE

Begin(c, o, s, v) ==
  /\ op[c] = "none"
  /\ op' = [op EXCEPT ![c] = o] /\ sector' = [sector EXCEPT ![c] = s]
  /\ value' = [value EXCEPT ![c] = v]
  /\ UNCHANGED <<stored, done>>

Effect(c) ==
  /\ op[c] # "none" /\ ~done[c]
  /\ done' = [done EXCEPT ![c] = TRUE]
  /\ IF op[c] = "read"
     THEN value' = [value EXCEPT ![c] = stored[sector[c]]] /\ UNCHANGED stored
     ELSE stored' = [stored EXCEPT ![sector[c]] = value[c]] /\ UNCHANGED value
  /\ UNCHANGED <<op, sector>>

End(c) ==
  /\ done[c]
  /\ done' = [done EXCEPT ![c] = FALSE]
  /\ op' = [op EXCEPT ![c] = "none"] /\ sector' = [sector EXCEPT ![c] = NoSector]
  /\ value' = [value EXCEPT ![c] = NoValue]
  /\ UNCHANGED stored

Next ==
  \/ broken'
  \/ /\ UNCHANGED broken
     /\ \E c \in Clients :
          \/ Effect(c) \/ End(c)
          \/ \E s \in Sectors :
               Begin(c, "read", s, NoValue) \/ \E v \in Values : Begin(c, "write", s, v)

Spec == Init /\ [][Next]_vars
=============================================================================
