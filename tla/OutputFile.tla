------------------------------ MODULE OutputFile ------------------------------
(***************************************************************************)
(* What a destination leaves in data/<k>output.data (client/dest/          *)
(* main_dst.c). The file is opened with O_WRONLY and O_CREAT, without      *)
(* O_TRUNC and without the mode that O_CREAT takes: there may be one of an *)
(* earlier run, longer than the items, or one that must not be written.    *)
(***************************************************************************)
EXTENDS Integers, Sequences

\* The items replace the first ones of the file.
Overwritten(file, items) == items \o SubSeq(file, Len(items) + 1, Len(file))

\* Behind write, and behind an open that fails, which main does not notice.
Saved(file, items) == {Overwritten(file, items), file}

\* Not all the items could be written: assert(wrote == data_size) ends the process.
Torn(file, items) ==
  {Overwritten(file, SubSeq(items, 1, n)) : n \in 0 .. Len(items) - 1}
=============================================================================
