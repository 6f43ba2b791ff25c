---------------------------- MODULE MCCompaction ----------------------------
(* Model-checking instance of Compaction.  Rows that land in different files  *)
(* are all the code can tell apart, so a handful of them is enough.           *)
EXTENDS Compaction
=============================================================================
