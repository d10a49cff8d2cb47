------------------------------ MODULE MCThreads -----------------------------
(***************************************************************************)
(* Instances of the threads kernel for TLC: three threads, the first of    *)
(* them running at boot.                                                   *)
(***************************************************************************)
EXTENDS LockRefinement

CONSTANTS main, t1, t2, a, b

\* Both other threads are ready at boot, or their pages are free.
BootBoth == <<t1, t2>>
BootNone == <<>>

Equal == [t \in Threads |-> 1]
Falling == (main :> 3) @@ (t1 :> 2) @@ (t2 :> 1)
TwoHigh == (main :> 2) @@ (t1 :> 2) @@ (t2 :> 1)
MainHigh == (main :> 2) @@ (t1 :> 1) @@ (t2 :> 1)

\* Either lock may be acquired while the other is held.
AnyOrder == {<<a, b>>, <<b, a>>}

CondOfA == [x \in Conds |-> a]
=============================================================================
