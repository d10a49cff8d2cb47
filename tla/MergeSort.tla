------------------------------ MODULE MergeSort -----------------------------
(***************************************************************************)
(* list_sort() of lib/kernel/list.c, the natural merge sort the scheduler  *)
(* sorts waiters with, step by step: pairs of adjacent runs are merged in  *)
(* place, pass after pass, until a pass finds a single run.                *)
(*                                                                         *)
(* The scheduler modules use PriorityList!list_sort, defined by ranks;     *)
(* this module shows that the code computes it.                            *)
(***************************************************************************)
EXTENDS PriorityList

CONSTANTS MaxLen, Keys

ASSUME MergeSortAssumption == MaxLen \in Nat /\ Keys \subseteq Int

VARIABLES input, key,         \* the list as passed, and its elements' keys
          list,
          pc,
          output_run_cnt,
          a0, a1b0, b1        \* positions; Len(list) + 1 is list_end()

vars == <<input, key, list, pc, output_run_cnt, a0, a1b0, b1>>

list_end == Len(list) + 1

Init ==
    /\ \E n \in 0 .. MaxLen : input = [i \in 1 .. n |-> i] /\ key \in [1 .. n -> Keys]
    /\ list = input
    /\ pc = "pass"
    /\ output_run_cnt = 0
    /\ a0 = 1 /\ a1b0 = 1 /\ b1 = 1

\* End of the run of elements in order that starts at position i.
find_end_of_run(i) ==
    Min({j \in i + 1 .. list_end : j = list_end \/ Less(key, list[j], list[j - 1])})

\* The for loop's body up to inplace_merge(): two adjacent runs.
FindRuns ==
    /\ pc = "pass" /\ a0 # list_end
    /\ find_end_of_run(a0) # list_end
    /\ output_run_cnt' = output_run_cnt + 1
    /\ a1b0' = find_end_of_run(a0)
    /\ b1' = find_end_of_run(find_end_of_run(a0))
    /\ pc' = "merge"
    /\ UNCHANGED <<input, key, list, a0>>

\* Mutant: equal elements are taken from the right run first.
LeftFirstStrictly == Less(key, list[a0], list[a1b0])

LeftMayStay == ~ Less(key, list[a1b0], list[a0])

\* The loop of inplace_merge(): take from the left run while its element may
\* stay first, else splice the right run's first element in before it.
MergeStep ==
    /\ pc = "merge" /\ a0 # a1b0 /\ a1b0 # b1
    /\ IF LeftMayStay
       THEN UNCHANGED <<list, a1b0>>
       ELSE /\ list' = InsertAt(RemoveAt(list, a1b0), a0, list[a1b0])
            /\ a1b0' = a1b0 + 1
    /\ a0' = a0 + 1
    /\ UNCHANGED <<input, key, pc, output_run_cnt, b1>>

MergeDone ==
    /\ pc = "merge" /\ (a0 = a1b0 \/ a1b0 = b1)
    /\ a0' = b1
    /\ pc' = "pass"
    /\ UNCHANGED <<input, key, list, output_run_cnt, a1b0, b1>>

\* The pass is over: at the end of the list, or in its last run, which counts.
Runs == IF a0 = list_end THEN output_run_cnt ELSE output_run_cnt + 1

MorePasses == Runs > 1

PassDone ==
    /\ pc = "pass"
    /\ a0 # list_end => find_end_of_run(a0) = list_end
    /\ pc' = IF MorePasses THEN "pass" ELSE "done"
    /\ output_run_cnt' = 0
    /\ a0' = 1
    /\ UNCHANGED <<input, key, list, a1b0, b1>>

Next == FindRuns \/ MergeStep \/ MergeDone \/ PassDone

Spec == Init /\ [][Next]_vars /\ WF_vars(Next)

\* list_sort() comes to an end on every list, however many passes it takes, and
\* has then performed the stable sort PriorityList defines.
SortsByRank == <>(pc = "done" /\ list = list_sort(input, key))
=============================================================================
