--------------------------- MODULE MCSortChecks ---------------------------
(* Constants of the run of SortChecks: some items are larger than CRC_ATOM *)
(* and two of them have the same remainder.                                *)
EXTENDS SortChecks

Items == {0, 2, 4, 7}

=============================================================================
