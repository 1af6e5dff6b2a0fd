----------------------------- MODULE SortedArray -----------------------------
(***************************************************************************)
(* The result of alloc_merge_sort (client/sort.c) as a function of the     *)
(* array, for the specifications that sort in one step. How the program    *)
(* gets there is the subject of MergeSort.                                 *)
(***************************************************************************)
EXTENDS Integers, SequencesExt

\* The places of s with an item below x, and those with one that is not above it.
Below(s, x) == {k \in DOMAIN s : s[k] < x}
UpTo(s, x) == {k \in DOMAIN s : s[k] <= x}

\* alloc_merge_sort: fewer than i items are below the i-th, and at least i of them
\* are not above it.
Sorted(s) ==
  [i \in 1 .. Cardinality(DOMAIN s) |->
     CHOOSE x \in ToSet(s) : Cardinality(Below(s, x)) < i /\ i <= Cardinality(UpTo(s, x))]
=============================================================================
