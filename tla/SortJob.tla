------------------------------- MODULE SortJob -------------------------------
(***************************************************************************)
(* What the distributed sort promises whatever messages implement it, and  *)
(* whatever the analysis of the histograms decides: each destination sorts *)
(* exactly ItemsCount items, once, and every item of every input is sorted *)
(* by exactly one. The output file is less certain: it gets the sorted     *)
(* items, or stays as it was; if processes may fail, it may get some.      *)
(***************************************************************************)
EXTENDS SortedArray, OutputFile, FiniteSetsExt

CONSTANTS
  NodeCount,    \* SRC_NODES_COUNT: of sources, and of destinations
  ItemsCount,   \* ARRAY_ITEMS_COUNT: items of each input and of each output
  OldOutputs,   \* what the output files hold before
  MayFail       \* whether an output file may not take all the items

VARIABLES
  input,        \* each source's input file
  output,       \* each destination's output file
  array,        \* each destination's sorted array, <<>> before it has it
  left          \* which items of the sources are in no array yet: the i-th
                \* smallest of source s is <<s, i>>

jobVars == <<input, output, array, left>>

Nodes == 0 .. NodeCount - 1

\* The items at the given places of the sources' sorted arrays, sorted.
ItemsAt(places) == Sorted([p \in places |-> Sorted(input[p[1]])[p[2]]])

Init ==
  /\ input \in [Nodes -> [1 .. ItemsCount -> Nat]]
  /\ output = OldOutputs
  /\ array = [d \in Nodes |-> <<>>]
  /\ left = Nodes \X (1 .. ItemsCount)

\* A destination sorts its share and saves it if it can.
SortShare(d) ==
  /\ array[d] = <<>>
  /\ \E places \in kSubset(ItemsCount, left) :
       LET items == ItemsAt(places) IN
       /\ left' = left \ places
       /\ array' = [array EXCEPT ![d] = items]
       /\ \E file \in Saved(output[d], items) \cup
                        (IF MayFail THEN Torn(output[d], items) ELSE {}) :
            output' = [output EXCEPT ![d] = file]
  /\ UNCHANGED input

Next == \E d \in Nodes : SortShare(d)

Spec == Init /\ [][Next]_jobVars /\ \A d \in Nodes : WF_jobVars(SortShare(d))
=============================================================================
