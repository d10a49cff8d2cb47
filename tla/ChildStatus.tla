----------------------------- MODULE ChildStatus -----------------------------
(***************************************************************************)
(* What exec, exit and wait promise together: a child lives, ends with a   *)
(* status, and may be reaped, once, after it has ended, with that status.  *)
(* A machine on which some thread has used another's record is broken, and *)
(* nothing is promised of it.                                              *)
(***************************************************************************)
CONSTANTS Children, Values, Unset, None

VARIABLES
  life,      \* unborn, alive, ended or reaped
  outcome,   \* the status each child has ended with
  answer,    \* the status its parent has been told
  broken

vars == <<life, outcome, answer, broken>>

Init ==
  /\ life \in [Children -> {"unborn", "alive"}]
  /\ outcome = [c \in Children |-> Unset]
  /\ answer = [c \in Children |-> None]
  /\ broken = FALSE

Become(c, before, after) ==
  /\ life[c] = before
  /\ life' = [life EXCEPT ![c] = after]
  /\ UNCHANGED broken

Begin(c) == Become(c, "unborn", "alive") /\ UNCHANGED <<outcome, answer>>

End(c) ==
  /\ Become(c, "alive", "ended")
  /\ \E v \in Values : outcome' = [outcome EXCEPT ![c] = v]
  /\ UNCHANGED answer

Reap(c) ==
  /\ Become(c, "ended", "reaped")
  /\ answer' = [answer EXCEPT ![c] = outcome[c]]
  /\ UNCHANGED outcome

Next == broken' \/ \E c \in Children : Begin(c) \/ End(c) \/ Reap(c)

Spec == Init /\ [][Next]_vars
=============================================================================
