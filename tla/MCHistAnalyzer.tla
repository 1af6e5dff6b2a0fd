---------------------------- MODULE MCHistAnalyzer ----------------------------
(* Two sources: all sorted arrays of eight items over 0 .. 2. Three sources: *)
(* a family of arrays that grow at different paces, with and without runs of *)
(* equal items.                                                              *)
EXTENDS HistAnalyzer

MCArrays ==
  {a \in [0 .. 7 -> 0 .. 2] : \A i \in 1 .. 7 : a[i - 1] <= a[i]}

Family(items) ==
  {[i \in 0 .. items - 1 |-> 3 * i + c] : c \in {0, 2, 5}}
    \cup {[i \in 0 .. items - 1 |-> (i \div m) * m + c] : m \in 1 .. 4, c \in {0, 1}}

TwoSources == [0 .. 1 -> MCArrays]

MCInputs == TwoSources \cup [0 .. 2 -> Family(12)]

ThreeSources == [0 .. 2 -> Family(10)]
=============================================================================
