--------------------------- MODULE LockRefinement ---------------------------
(***************************************************************************)
(* The locks of synch.c implement Mutex: a lock belongs to the thread that *)
(* took its semaphore, from sema_down() in lock_acquire() until sema_up()  *)
(* in lock_release(), whatever lock->holder says in between.               *)
(***************************************************************************)
EXTENDS KernelProperties

OwnerOf(l) == IF Owners(l) = {} THEN NULL ELSE CHOOSE t \in Threads : Owns(t, l)

Wanted(t) ==
    IF \E l \in Locks : Acquiring(t, l) THEN frame[t].lock ELSE NULL

Abstract == INSTANCE Mutex WITH
    wants <- [t \in Threads |-> Wanted(t)],
    owner <- [l \in Locks |-> OwnerOf(l)],
    stopped <- (fault # "none")

\* Every behaviour of the kernel is one of Mutex: no step gives a lock that
\* somebody has, or takes one from its owner; and with the scheduler's
\* fairness a free lock that is wanted is given to someone.
ImplementsMutex == Abstract!Spec
=============================================================================
