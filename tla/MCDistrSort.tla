----------------------------- MODULE MCDistrSort -----------------------------
(* Two sources and two destinations; the inputs differ in how the items are  *)
(* spread over the ranges: an equal item in both, all small ones in one      *)
(* source (empty ranges), interleaved. With three, the parts of several      *)
(* sources interleave at a destination. One of the output files is there     *)
(* already, with more items than are written.                                *)
EXTENDS DistrSort

MCInputs ==
  { (0 :> <<3, 1, 2>> @@ 1 :> <<4, 2, 9>>),
    (0 :> <<3, 1, 2>> @@ 1 :> <<6, 5, 4>>),
    (0 :> <<5, 1, 3>> @@ 1 :> <<2, 6, 4>>) }

MCOldOutputs == 0 :> <<>> @@ 1 :> <<9, 8, 7, 6>>

MCInputsThree == { (0 :> <<3>> @@ 1 :> <<2>> @@ 2 :> <<3>>) }
MCOldOutputsThree == [d \in 0 .. 2 |-> <<>>]
=============================================================================
