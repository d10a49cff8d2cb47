---------------------------- MODULE PriorityList ----------------------------
(***************************************************************************)
(* The ordered-list algorithms of lib/kernel/list.c as they are used by    *)
(* the scheduler and the synchronisation primitives.  A list of elements   *)
(* is a sequence; `list_less_func' is a key function: every comparator     *)
(* of the kernel (is_thread_larger_priority, is_thread_more_ticks,         *)
(* is_cond_larger_priority) orders elements by a DECREASING integer key.   *)
(***************************************************************************)
EXTENDS Integers, Sequences, FiniteSets, SequencesExt

\* less (a, b): a must come strictly before b.
Less(key, a, b) == key[a] > key[b]

\* Position before which list_insert_ordered inserts x: the first element e
\* with less (x, e), else the end.  Equal keys keep first-come order.
InsertPos(list, x, key) ==
    LET behind == {i \in DOMAIN list : Less(key, x, list[i])}
    IN  IF behind = {} THEN Len(list) + 1 ELSE Min(behind)

list_insert_ordered(list, x, key) == InsertAt(list, InsertPos(list, x, key), x)

\* Mutant: the element stays linked where it was.
list_remove_forgotten(list, x) == list

\* list_remove unlinks an element from whatever list holds it; on the model's
\* side it is applied to each list, and leaves alone those x is not in.
list_remove(list, x) == RemoveFirst(list, x)

list_push_back(list, x) == Append(list, x)

\* list_sort is a natural merge sort whose merge takes from the left run on
\* equal keys, hence stable.  Its result is defined by ranks: position i of
\* the input goes behind every position that must precede it.
Precedes(list, key, i, j) ==
    \/ Less(key, list[i], list[j])
    \/ key[list[i]] = key[list[j]] /\ i < j

Rank(list, key, i) ==
    Cardinality({j \in DOMAIN list : Precedes(list, key, j, i)}) + 1

list_sort(list, key) ==
    [k \in DOMAIN list |->
        list[CHOOSE i \in DOMAIN list : Rank(list, key, i) = k]]

\* is_sorted (list.c), the order the comments of thread.c and timer.c claim.
Sorted(list, key) ==
    \A i, j \in DOMAIN list : i < j => ~ Less(key, list[j], list[i])
=============================================================================
