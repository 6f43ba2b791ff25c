----------------------------- MODULE Compaction -----------------------------
(***************************************************************************)
(* The nightly compaction of one closed partition: BarStore.compact_partition *)
(* with its _recover, _verify and _write_manifest, against a directory that *)
(* late flushes keep adding files to, a process that can die between any   *)
(* two file operations, and writes that come out damaged.                   *)
(*                                                                          *)
(* An action is one file operation.  What survives a crash is the directory *)
(* (disk, tmp, manifest); pc, job and left are the running process's own.   *)
(* A row is a model value: the code only ever counts and copies rows.       *)
(***************************************************************************)
EXTENDS Naturals, FiniteSets

CONSTANTS
  Row,          (* the sealed bars that can reach this partition             *)
  MaxFaults     (* bound: crashes, damaged writes and rotted files together  *)

ASSUME CompactionAssumption ==
  /\ IsFiniteSet(Row)
  /\ MaxFaults \in Nat

VARIABLES
  disk,         (* the partition's *.parquet files: name -> the rows in it   *)
  tmp,          (* the one <output>.parquet.tmp                              *)
  manifest,     (* _compaction.json                                          *)
  pc,           (* the file operation compact_partition is about to do       *)
  job,          (* its inputs, output and expected, and whether it resumes   *)
  left,         (* the inputs whose unlink is still to come                  *)
  flushes,      (* flush files named so far; a flush never reuses a name     *)
  landed,       (* history: every row whose file has landed                  *)
  rotted,       (* history: the staged output was damaged while at rest      *)
  faults        (* faults spent                                              *)

directory == <<disk, tmp, manifest>>
process == <<pc, job, left>>
history == <<flushes, landed, rotted>>
vars == <<directory, process, history, faults>>

(* Flush files and compact-NNNNNN.parquet files never share a name. *)
Name == [kind : {"flush", "compact"}, n : Nat]
Flush(n) == [kind |-> "flush", n |-> n]
Compact(n) == [kind |-> "compact", n |-> n]

NoTmp == [here |-> FALSE, name |-> Compact(0), rows |-> {}]
NoManifest == [here |-> FALSE, output |-> Compact(0), inputs |-> {}, count |-> 0]
NoJob == [inputs |-> {}, output |-> Compact(0), count |-> 0, resumed |-> FALSE]

Files == DOMAIN disk
With(name, rows) ==
  [f \in Files \cup {name} |-> IF f = name THEN rows ELSE disk[f]]
Without(name) == [f \in Files \ {name} |-> disk[f]]

(* The rows of some of the files.  The code adds the files' own footers up; *)
(* the files of a partition hold different rows (NeverDoubled), so that sum *)
(* is the size of the union.                                                *)
RowsOf(names) == UNION {disk[f] : f \in names}

(* Variant: reuses the newest name instead of the one after it. *)
OutputReused(n) ==
  /\ \A f \in Files : f.kind = "compact" => f.n <= n
  /\ Compact(n) \in Files \/ (n = 1 /\ \A f \in Files : f.kind = "flush")

(* The next unused compact-NNNNNN name. *)
Output(n) ==
  /\ \A f \in Files : f.kind = "compact" => f.n < n
  /\ n = 1 \/ Compact(n - 1) \in Files

Init ==
  /\ disk = [f \in {} |-> {}] /\ tmp = NoTmp /\ manifest = NoManifest
  /\ pc = "idle" /\ job = NoJob /\ left = {}
  /\ flushes = 0 /\ landed = {} /\ rotted = FALSE
  /\ faults = 0

-----------------------------------------------------------------------------
(* The store's flush of this day landing: os.replace of a fresh name.  It may *)
(* come at any point of a compaction.                                         *)
FlushLands ==
  /\ \E new \in SUBSET (Row \ landed) :
        /\ new # {}
        /\ disk' = With(Flush(flushes + 1), new)
        /\ landed' = landed \cup new
  /\ flushes' = flushes + 1
  /\ UNCHANGED <<tmp, manifest, process, rotted, faults>>

(* compact_partition is called. *)
Start ==
  /\ pc = "idle"
  /\ pc' = "recover"
  /\ UNCHANGED <<directory, job, left, history, faults>>

-----------------------------------------------------------------------------
(* _recover.  Without a manifest a tmp vouches for nothing and is cleared.    *)
RecoverNothing ==
  /\ pc = "recover" /\ ~manifest.here
  /\ tmp' = NoTmp
  /\ pc' = "list"
  /\ UNCHANGED <<disk, manifest, job, left, history, faults>>

(* The file the manifest vouches for: published already, or still staged. *)
Vouched ==
  IF manifest.output \in Files THEN disk[manifest.output] ELSE tmp.rows
VouchedExists ==
  \/ manifest.output \in Files
  \/ tmp.here /\ tmp.name = manifest.output

(* Variant: deletes what the directory lists, not what the manifest names.    *)
RecoverByListing ==
  /\ pc = "recover" /\ manifest.here
  /\ VouchedExists /\ Cardinality(Vouched) = manifest.count
  /\ job' = [inputs |-> manifest.inputs, output |-> manifest.output,
             count |-> manifest.count, resumed |-> TRUE]
  /\ left' = Files \ {manifest.output}
  /\ pc' = "delete"
  /\ UNCHANGED <<directory, history, faults>>

(* With one, the vouched file is read back before anything is deleted ...    *)
RecoverResumes ==
  /\ pc = "recover" /\ manifest.here
  /\ VouchedExists /\ Cardinality(Vouched) = manifest.count
  /\ job' = [inputs |-> manifest.inputs, output |-> manifest.output,
             count |-> manifest.count, resumed |-> TRUE]
  /\ left' = manifest.inputs
  /\ pc' = "delete"
  /\ UNCHANGED <<directory, history, faults>>

(* ... and CompactionUnsound raised if it does not verify. *)
RecoverRefuses ==
  /\ pc = "recover" /\ manifest.here
  /\ ~(VouchedExists /\ Cardinality(Vouched) = manifest.count)
  /\ pc' = "idle"
  /\ UNCHANGED <<directory, job, left, history, faults>>

-----------------------------------------------------------------------------
(* The listing, the footers' counts and the name of the output.              *)
List ==
  /\ pc = "list"
  /\ Cardinality(Files) > 1
  /\ \E n \in 1 .. flushes :     (* a run needs a flush since the last one *)
        /\ Output(n)
        /\ job' = [inputs |-> Files, output |-> Compact(n),
                   count |-> Cardinality(RowsOf(Files)), resumed |-> FALSE]
  /\ pc' = "write"
  /\ UNCHANGED <<directory, left, history, faults>>

(* One file, or none: a no-op and not a rewrite. *)
NothingToDo ==
  /\ pc = "list"
  /\ Cardinality(Files) <= 1
  /\ pc' = "idle" /\ job' = NoJob
  /\ UNCHANGED <<directory, left, history, faults>>

(* read_parquet(inputs) ... write_parquet(tmp), whole or damaged. *)
Write ==
  /\ pc = "write"
  /\ \E rows \in SUBSET RowsOf(job.inputs) :
        /\ rows # RowsOf(job.inputs) => faults < MaxFaults
        /\ faults' = IF rows = RowsOf(job.inputs) THEN faults ELSE faults + 1
        /\ tmp' = [here |-> TRUE, name |-> job.output, rows |-> rows]
  /\ pc' = "verify"
  /\ UNCHANGED <<disk, manifest, job, left, history>>

(* Variant: takes the count from the frame it has just written.               *)
VerifySkipped ==
  /\ pc = "verify"
  /\ pc' = "commit"
  /\ UNCHANGED <<directory, job, left, history, faults>>

(* _verify: the tmp is read back and counted.                                 *)
Verify ==
  /\ pc = "verify"
  /\ Cardinality(tmp.rows) = job.count
  /\ pc' = "commit"
  /\ UNCHANGED <<directory, job, left, history, faults>>

(* CompactionUnsound: the tmp is removed and nothing else is touched. *)
VerifyFails ==
  /\ pc = "verify"
  /\ Cardinality(tmp.rows) # job.count
  /\ tmp' = NoTmp
  /\ pc' = "idle" /\ job' = NoJob
  /\ UNCHANGED <<disk, manifest, left, history, faults>>

(* _write_manifest, the commit point: atomic, by os.replace. *)
Commit ==
  /\ pc = "commit"
  /\ manifest' = [here |-> TRUE, output |-> job.output,
                  inputs |-> job.inputs, count |-> job.count]
  /\ left' = job.inputs
  /\ pc' = "delete"
  /\ UNCHANGED <<disk, tmp, job, history, faults>>

(* unlink(missing_ok=True) of one input.  The code goes through the list in   *)
(* order; any order is allowed here, so a crash leaves any part of it.        *)
Delete ==
  /\ pc = "delete"
  /\ \E name \in left :
        /\ disk' = Without(name)
        /\ left' = left \ {name}
  /\ UNCHANGED <<tmp, manifest, pc, job, history, faults>>

(* os.replace(tmp, output), or for a run that had published, tmp.unlink().    *)
Publish ==
  /\ pc = "delete" /\ left = {}
  /\ disk' = IF job.output \in Files THEN disk ELSE With(job.output, tmp.rows)
  /\ tmp' = NoTmp
  /\ pc' = "drop"
  /\ UNCHANGED <<manifest, job, left, history, faults>>

(* The manifest goes last.  A recovery is followed by a compaction of whatever *)
(* has landed since.                                                           *)
Drop ==
  /\ pc = "drop"
  /\ manifest' = NoManifest
  /\ pc' = IF job.resumed THEN "list" ELSE "idle"
  /\ job' = NoJob
  /\ UNCHANGED <<disk, tmp, left, history, faults>>

-----------------------------------------------------------------------------
Crash ==
  /\ pc # "idle"
  /\ faults < MaxFaults
  /\ pc' = "idle" /\ job' = NoJob /\ left' = {}
  /\ faults' = faults + 1
  /\ UNCHANGED <<directory, history>>

(* The staged output is damaged between two runs.                             *)
Rot ==
  /\ pc = "idle"
  /\ manifest.here /\ tmp.here /\ ~rotted
  /\ faults < MaxFaults
  /\ \E rows \in SUBSET tmp.rows :
        /\ rows # tmp.rows
        /\ tmp' = [tmp EXCEPT !.rows = rows]
  /\ rotted' = TRUE
  /\ faults' = faults + 1
  /\ UNCHANGED <<disk, manifest, process, flushes, landed>>

CompactorStep ==
  \/ Start
  \/ RecoverNothing \/ RecoverResumes \/ RecoverRefuses
  \/ List \/ NothingToDo \/ Write \/ Verify \/ VerifyFails \/ Commit
  \/ Delete \/ Publish \/ Drop

Next == CompactorStep \/ FlushLands \/ Crash \/ Rot

Spec == Init /\ [][Next]_vars

(* The job is run again every night, and once started it goes on. *)
FairSpec == Spec /\ WF_vars(CompactorStep)

-----------------------------------------------------------------------------
(* The names and sets the code's variables range over. *)
TypeOK ==
  /\ disk = [f \in Files |-> disk[f]] /\ Files \subseteq Name
  /\ \A f \in Files : disk[f] \subseteq Row
  /\ tmp \in [here : BOOLEAN, name : Name, rows : SUBSET Row]
  /\ manifest \in [here : BOOLEAN, output : Name, inputs : SUBSET Name, count : Nat]
  /\ job \in [inputs : SUBSET Name, output : Name, count : Nat, resumed : BOOLEAN]
  /\ pc \in {"idle", "recover", "list", "write", "verify", "commit", "delete", "drop"}
  /\ left \subseteq job.inputs
  /\ flushes \in Nat /\ landed \subseteq Row
  /\ rotted \in BOOLEAN /\ faults \in 0 .. MaxFaults

(* What a scan of the partition returns, and what only the manifest vouches for. *)
Readable == RowsOf(Files)
Staged == IF manifest.here /\ tmp.here THEN tmp.rows ELSE {}

(* No row can be read twice, at any instant of a compaction and after any      *)
(* crash: two files of the partition never hold one row.  It is why the inputs *)
(* are deleted before the output is published (store.py:694).                  *)
NeverDoubled ==
  \A f, g \in Files : f # g => disk[f] \cap disk[g] = {}

(* No row that landed is ever lost: it is readable, or it sits in the staged   *)
(* output a manifest vouches for, where the next run finds it.  A late flush   *)
(* landing mid-compaction is included.                                         *)
NothingLost == ~rotted => landed = Readable \cup Staged

(* Both: what landed is kept, once.                                            *)
EveryRowOnce == NeverDoubled /\ NothingLost

(* "Cannot happen", says the code of a manifest with neither an output nor a   *)
(* tmp (store.py:1285); this is that claim.                                    *)
ManifestIsBacked == manifest.here => VouchedExists

(* No file is removed unless every row of it is held elsewhere: readable, or   *)
(* staged under a manifest.  A recovery re-reads the staged file first, so     *)
(* this holds even when it was damaged since it was verified.                  *)
DeletesAreCovered ==
  [][\A f \in Files \ Files' : disk[f] \subseteq Readable' \cup Staged']_vars

(* A reader sees a closed day: the promise of ClosedDay, with the number of    *)
(* files that hold a row as the times a scan returns it.                       *)
Day == INSTANCE ClosedDay WITH
  recorded <- landed,
  copies <- [r \in Row |-> Cardinality({f \in Files : r \in disk[f]})]
ReadsAsAClosedDay == Day!Spec

(* However often it is interrupted, the job ends with one file that holds      *)
(* every row, unless the staged copy itself was damaged.                       *)
SettlesToOneFile ==
  <>[](rotted \/ (Cardinality(Files) <= 1 /\ Readable = landed))
=============================================================================
