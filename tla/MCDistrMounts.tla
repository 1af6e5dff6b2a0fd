---------------------------- MODULE MCDistrMounts ----------------------------
(* Two sources and two destinations, two items each, sent one by one: ranges   *)
(* have no, one or two parts. An int wraps after few additions of a stale      *)
(* header. One of the output files is there already, with more items.          *)
EXTENDS DistrMounts

MCInputs == { (0 :> <<3, 1>> @@ 1 :> <<2, 4>>) }

MCOldOutputs == 0 :> <<5, 6, 7>> @@ 1 :> <<>>

AnyHeader == {UnknownHeader, RangeHeader(0), RangeHeader(1), RangePart(<<>>)}
OnlyUnknown == {UnknownHeader}
=============================================================================
