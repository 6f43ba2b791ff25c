------------------------------ MODULE ClosedDay ------------------------------
(***************************************************************************)
(* What a partition of the store promises whoever scans it, whatever the   *)
(* nightly compaction is doing to its files: a row that was recorded is    *)
(* read once or, for a while, not at all.  It is never read twice and a    *)
(* row nobody recorded is never read.  docs/storage.md section 9 calls it  *)
(* "a gap, never a doubling".                                              *)
(***************************************************************************)
EXTENDS Naturals

CONSTANT Row

VARIABLES
  recorded,   (* the rows whose file has landed in the partition *)
  copies      (* how many times a scan returns each row          *)

vars == <<recorded, copies>>

Init ==
  /\ recorded = {}
  /\ copies = [r \in Row |-> 0]

(* A flush lands a file of rows that were never recorded before. *)
Land(new) ==
  /\ new \subseteq Row \ recorded
  /\ recorded' = recorded \cup new
  /\ copies' = [r \in Row |-> IF r \in new THEN 1 ELSE copies[r]]

(* Some rows are out of a reader's sight ... *)
Withhold(some) ==
  /\ some \subseteq recorded
  /\ copies' = [r \in Row |-> IF r \in some THEN 0 ELSE copies[r]]
  /\ UNCHANGED recorded

(* ... and all of them come back together. *)
Restore ==
  /\ copies' = [r \in Row |-> IF r \in recorded THEN 1 ELSE 0]
  /\ UNCHANGED recorded

Next ==
  \/ \E new \in SUBSET Row : Land(new)
  \/ \E some \in SUBSET Row : Withhold(some)
  \/ Restore

Spec == Init /\ [][Next]_vars
=============================================================================
