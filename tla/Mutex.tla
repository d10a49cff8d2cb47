-------------------------------- MODULE Mutex -------------------------------
(***************************************************************************)
(* What synch.h promises of locks, without scheduler, priorities or        *)
(* semaphores: a thread asks for one lock at a time, is given it when      *)
(* nobody has it, and is the one who gives it back.  A free lock that is   *)
(* wanted does not stay free.                                              *)
(***************************************************************************)
CONSTANTS Threads, Locks, NULL

VARIABLES wants,      \* lock each thread is asking for
          owner,      \* thread each lock is given to
          stopped     \* the kernel has panicked

vars == <<wants, owner, stopped>>

TypeOK ==
    /\ wants \in [Threads -> Locks \union {NULL}]
    /\ owner \in [Locks -> Threads \union {NULL}]
    /\ stopped \in BOOLEAN

Init ==
    /\ wants = [t \in Threads |-> NULL]
    /\ owner = [l \in Locks |-> NULL]
    /\ stopped = FALSE

Request(t, l) ==
    /\ ~ stopped
    /\ wants[t] = NULL /\ owner[l] # t
    /\ wants' = [wants EXCEPT ![t] = l]
    /\ UNCHANGED <<owner, stopped>>

Give(t, l) == owner[l] = NULL /\ owner' = [owner EXCEPT ![l] = t]

Grant(t) ==
    /\ ~ stopped
    /\ wants[t] # NULL /\ Give(t, wants[t])
    /\ wants' = [wants EXCEPT ![t] = NULL]
    /\ UNCHANGED stopped

\* lock_try_acquire() that succeeds.
TryGrant(t, l) ==
    /\ ~ stopped
    /\ wants[t] = NULL /\ Give(t, l)
    /\ UNCHANGED <<wants, stopped>>

Release(t, l) ==
    /\ ~ stopped
    /\ wants[t] = NULL /\ owner[l] = t
    /\ owner' = [owner EXCEPT ![l] = NULL]
    /\ UNCHANGED <<wants, stopped>>

Stop ==
    /\ ~ stopped /\ stopped' = TRUE
    /\ UNCHANGED <<wants, owner>>

Next ==
    \/ \E t \in Threads, l \in Locks : Request(t, l) \/ TryGrant(t, l) \/ Release(t, l)
    \/ \E t \in Threads : Grant(t)
    \/ Stop

SafeSpec == Init /\ [][Next]_vars

Spec == SafeSpec /\ WF_vars(\E t \in Threads : Grant(t))
=============================================================================
