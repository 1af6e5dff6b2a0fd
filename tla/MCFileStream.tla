---------------------------- MODULE MCFileStream ----------------------------
(* Messages of one byte (replies) and of several, read at once or in parts.  *)
EXTENDS FileStream

MCSizes == <<1, 6, 1, 3, 5, 2>>
=============================================================================
