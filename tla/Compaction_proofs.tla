-------------------------- MODULE Compaction_proofs --------------------------
(* Theorems about Compaction for every finite set of rows and any number of   *)
(* crashes, damaged writes and damaged files.                                 *)
EXTENDS Compaction, FiniteSetTheorems, TLAPS

(* Flush names are fresh: none is ahead of the counter.                       *)
NamesAreFresh ==
  \A f \in Files \cup manifest.inputs : f.kind = "flush" => f.n <= flushes

(* What is readable has landed.                                               *)
ReadableLanded == \A f \in Files : disk[f] \subseteq landed

(* Before the commit point every input is still there, the count is theirs,   *)
(* and the tmp holds some, then all, of their rows.                           *)
Planned ==
  pc \in {"write", "verify", "commit"} =>
    /\ ~manifest.here /\ ~rotted
    /\ job.inputs \subseteq Files
    /\ job.output.kind = "compact" /\ job.output \notin Files
    /\ job.count = Cardinality(RowsOf(job.inputs))
Written ==
  /\ pc \in {"verify", "commit"} =>
       tmp.here /\ tmp.name = job.output /\ tmp.rows \subseteq RowsOf(job.inputs)
  /\ pc = "commit" => tmp.rows = RowsOf(job.inputs)

(* After it the job is the manifest's, and only inputs still to delete exist. *)
Committed ==
  /\ pc \in {"delete", "drop"} =>
       /\ manifest.here /\ ~rotted
       /\ job.inputs = manifest.inputs /\ job.output = manifest.output
  /\ pc = "delete" => manifest.inputs \cap Files \subseteq left
  /\ pc # "delete" => left = {}
  /\ pc = "drop" => manifest.output \in Files
  /\ pc = "list" => ~manifest.here

(* A manifest has its output either staged or published, never both, and      *)
(* published only when every input is gone.                                   *)
OneOutput ==
  manifest.here =>
    /\ manifest.output.kind = "compact" /\ manifest.output \notin manifest.inputs
    /\ tmp.here <=> manifest.output \notin Files
    /\ tmp.here => tmp.name = manifest.output
    /\ manifest.output \in Files => manifest.inputs \cap Files = {}

(* A staged output holds its inputs' rows and no other file's; its count      *)
(* tells whether it was damaged since, and a damaged one stops every run.     *)
StagedCovers ==
  manifest.here /\ tmp.here =>
    /\ \A f \in manifest.inputs \cap Files : ~rotted => disk[f] \subseteq tmp.rows
    /\ \A f \in Files \ manifest.inputs : disk[f] \cap tmp.rows = {}
    /\ tmp.rows \subseteq landed
    /\ ~rotted => Cardinality(tmp.rows) = manifest.count
RottedIsRefused ==
  rotted =>
    /\ manifest.here /\ tmp.here
    /\ Cardinality(tmp.rows) # manifest.count
    /\ pc \in {"idle", "recover"}

CompactionInv ==
  /\ TypeOK /\ NeverDoubled /\ NothingLost
  /\ NamesAreFresh /\ ReadableLanded
  /\ Planned /\ Written /\ Committed
  /\ OneOutput /\ StagedCovers /\ RottedIsRefused

USE CompactionAssumption

(* Any part of the rows is finite and smaller than the whole.                 *)
LEMMA PartOfRows ==
  ASSUME NEW S \in SUBSET Row, NEW T \in SUBSET S
  PROVE  /\ IsFiniteSet(S) /\ Cardinality(S) \in Nat
         /\ Cardinality(T) \in Nat
         /\ Cardinality(T) = Cardinality(S) => T = S
<1>1. IsFiniteSet(S)
  BY FS_Subset
<1>2. IsFiniteSet(T) /\ (Cardinality(S) = Cardinality(T) => S = T)
  BY <1>1, FS_Subset
<1> QED
  BY <1>1, <1>2, FS_CardinalityType

(* It holds of the partition of a day that has just closed.                     *)
LEMMA InitEstablishes == Init => CompactionInv
<1> SUFFICES ASSUME Init PROVE CompactionInv
  OBVIOUS
<1>1. TypeOK
  <2>1. Compact(0) \in Name
    BY DEF Compact, Name
  <2>2. Files = {} /\ disk = [f \in Files |-> disk[f]]
    BY DEF Init, Files
  <2>3. tmp \in [here : BOOLEAN, name : Name, rows : SUBSET Row]
    BY <2>1 DEF Init, NoTmp
  <2>4. manifest \in [here : BOOLEAN, output : Name, inputs : SUBSET Name, count : Nat]
    BY <2>1 DEF Init, NoManifest
  <2>5. job \in [inputs : SUBSET Name, output : Name, count : Nat, resumed : BOOLEAN]
    BY <2>1 DEF Init, NoJob
  <2>6. faults \in 0 .. MaxFaults /\ flushes \in Nat /\ landed \subseteq Row
    BY DEF Init
  <2>7. left \subseteq job.inputs /\ pc = "idle" /\ rotted \in BOOLEAN
    BY DEF Init
  <2> QED
    BY <2>2, <2>3, <2>4, <2>5, <2>6, <2>7 DEF TypeOK
<1>2. NeverDoubled /\ NothingLost /\ NamesAreFresh /\ ReadableLanded
  BY DEF Init, NeverDoubled, NothingLost, NamesAreFresh, ReadableLanded, Files,
         Readable, Staged, RowsOf, NoManifest
<1>3. /\ Planned /\ Written /\ Committed /\ OneOutput /\ StagedCovers
      /\ RottedIsRefused
  BY DEF Init, Planned, Written, Committed, OneOutput, StagedCovers, RottedIsRefused,
         NoManifest
<1> QED
  BY <1>1, <1>2, <1>3 DEF CompactionInv

(* Every step of the compactor, a fault or a late flush keeps it.                *)
LEMMA StepPreserves == CompactionInv /\ [Next]_vars => CompactionInv'
<1> SUFFICES ASSUME CompactionInv, [Next]_vars
             PROVE  CompactionInv'
  OBVIOUS
<1> USE DEF CompactionInv, directory, process, history, Files, NeverDoubled,
            NothingLost, NamesAreFresh, ReadableLanded, Planned, Written, Committed,
            OneOutput, StagedCovers, RottedIsRefused, NoManifest, NoTmp, NoJob
<1>0. TypeOK
  BY DEF CompactionInv
<1>1. CASE Start
  <2>1. TypeOK'
    BY <1>1 DEF Start, TypeOK, Files, Name, NoTmp, NoJob, NoManifest, Compact, Flush, With, Without
  <2>2. (NeverDoubled /\ NamesAreFresh /\ ReadableLanded)'
    BY <1>1, <1>0 DEF Start, TypeOK, Readable, Staged, RowsOf, With, Without, Flush
  <2>3. NothingLost'
    BY <1>1, <1>0 DEF Start, TypeOK, Readable, Staged, RowsOf, With, Without, Flush
  <2>4. (Planned /\ Written)'
    BY <1>1, <1>0 DEF Start, TypeOK, Readable, Staged, RowsOf, With, Without, Flush
  <2>5. Committed'
    BY <1>1, <1>0 DEF Start, TypeOK, Readable, Staged, RowsOf, With, Without, Flush
  <2>6. (OneOutput /\ StagedCovers /\ RottedIsRefused)'
    BY <1>1, <1>0 DEF Start, TypeOK, Readable, Staged, RowsOf, With, Without, Flush
  <2> QED
    BY <2>1, <2>2, <2>3, <2>4, <2>5, <2>6
<1>2. CASE RecoverNothing
  <2>1. TypeOK'
    BY <1>2 DEF RecoverNothing, TypeOK, Files, Name, NoTmp, NoJob, NoManifest, Compact, Flush, With, Without
  <2>2. (NeverDoubled /\ NamesAreFresh /\ ReadableLanded)'
    BY <1>2, <1>0 DEF RecoverNothing, TypeOK, Readable, Staged, RowsOf, With, Without, Flush
  <2>3. NothingLost'
    BY <1>2, <1>0 DEF RecoverNothing, TypeOK, Readable, Staged, RowsOf, With, Without, Flush
  <2>4. (Planned /\ Written)'
    BY <1>2, <1>0 DEF RecoverNothing, TypeOK, Readable, Staged, RowsOf, With, Without, Flush
  <2>5. Committed'
    BY <1>2, <1>0 DEF RecoverNothing, TypeOK, Readable, Staged, RowsOf, With, Without, Flush
  <2>6. (OneOutput /\ StagedCovers /\ RottedIsRefused)'
    BY <1>2, <1>0 DEF RecoverNothing, TypeOK, Readable, Staged, RowsOf, With, Without, Flush
  <2> QED
    BY <2>1, <2>2, <2>3, <2>4, <2>5, <2>6
<1>3. CASE RecoverResumes
  <2>1. TypeOK'
    BY <1>3 DEF RecoverResumes, TypeOK, Files, Name, NoTmp, NoJob, NoManifest, Compact, Flush, With, Without
  <2>2. (NeverDoubled /\ NamesAreFresh /\ ReadableLanded)'
    BY <1>3, <1>0 DEF RecoverResumes, TypeOK, Readable, Staged, RowsOf, With, Without, Flush
  <2>3. NothingLost'
    BY <1>3, <1>0 DEF RecoverResumes, TypeOK, Readable, Staged, RowsOf, With, Without, Flush
  <2>4. (Planned /\ Written)'
    BY <1>3, <1>0 DEF RecoverResumes, TypeOK, Readable, Staged, RowsOf, With, Without, Flush
  <2>5. Committed'
    BY <1>3, <1>0 DEF RecoverResumes, TypeOK, Vouched, VouchedExists
  <2>6. (OneOutput /\ StagedCovers /\ RottedIsRefused)'
    BY <1>3, <1>0 DEF RecoverResumes, TypeOK, Vouched, VouchedExists
  <2> QED
    BY <2>1, <2>2, <2>3, <2>4, <2>5, <2>6
<1>4. CASE RecoverRefuses
  <2>1. TypeOK'
    BY <1>4 DEF RecoverRefuses, TypeOK, Files, Name, NoTmp, NoJob, NoManifest, Compact, Flush, With, Without
  <2>2. (NeverDoubled /\ NamesAreFresh /\ ReadableLanded)'
    BY <1>4, <1>0 DEF RecoverRefuses, TypeOK, Readable, Staged, RowsOf, With, Without, Flush
  <2>3. NothingLost'
    BY <1>4, <1>0 DEF RecoverRefuses, TypeOK, Readable, Staged, RowsOf, With, Without, Flush
  <2>4. (Planned /\ Written)'
    BY <1>4, <1>0 DEF RecoverRefuses, TypeOK, Readable, Staged, RowsOf, With, Without, Flush
  <2>5. Committed'
    BY <1>4, <1>0 DEF RecoverRefuses, TypeOK, Readable, Staged, RowsOf, With, Without, Flush
  <2>6. (OneOutput /\ StagedCovers /\ RottedIsRefused)'
    BY <1>4, <1>0 DEF RecoverRefuses, TypeOK, Readable, Staged, RowsOf, With, Without, Flush
  <2> QED
    BY <2>1, <2>2, <2>3, <2>4, <2>5, <2>6
<1>5. CASE List
  <2>1. TypeOK'
    <3>1. RowsOf(Files) \in SUBSET Row
      BY <1>0 DEF TypeOK, RowsOf
    <3>2. Cardinality(RowsOf(Files)) \in Nat
      BY <3>1, PartOfRows
    <3> HIDE DEF RowsOf
    <3> QED
      BY <1>5, <1>0, <3>2 DEF List, TypeOK, Name, Compact
  <2>2. (NeverDoubled /\ NamesAreFresh /\ ReadableLanded)'
    BY <1>5, <1>0 DEF List, TypeOK, Readable, Staged, RowsOf, With, Without, Flush
  <2>3. NothingLost'
    BY <1>5, <1>0 DEF List, TypeOK, Readable, Staged, RowsOf, With, Without, Flush
  <2>4. (Planned /\ Written)'
    <3>1. ~rotted /\ ~manifest.here
      BY <1>5 DEF List
    <3>2. PICK n \in 1 .. flushes :
             Output(n) /\ job' = [inputs |-> Files, output |-> Compact(n),
                                  count |-> Cardinality(RowsOf(Files)), resumed |-> FALSE]
      BY <1>5 DEF List
    <3>3. Compact(n) \notin Files
      BY <3>2, <1>0 DEF Output, Compact, TypeOK
    <3> QED
      BY <1>5, <3>1, <3>2, <3>3 DEF List, Compact, RowsOf
  <2>5. Committed'
    BY <1>5, <1>0 DEF List, TypeOK, Readable, Staged, RowsOf, With, Without, Flush
  <2>6. (OneOutput /\ StagedCovers /\ RottedIsRefused)'
    BY <1>5, <1>0 DEF List, TypeOK, Readable, Staged, RowsOf, With, Without, Flush
  <2> QED
    BY <2>1, <2>2, <2>3, <2>4, <2>5, <2>6
<1>6. CASE NothingToDo
  <2>1. TypeOK'
    BY <1>6 DEF NothingToDo, TypeOK, Files, Name, NoTmp, NoJob, NoManifest, Compact, Flush, With, Without
  <2>2. (NeverDoubled /\ NamesAreFresh /\ ReadableLanded)'
    BY <1>6, <1>0 DEF NothingToDo, TypeOK, Readable, Staged, RowsOf, With, Without, Flush
  <2>3. NothingLost'
    BY <1>6, <1>0 DEF NothingToDo, TypeOK, Readable, Staged, RowsOf, With, Without, Flush
  <2>4. (Planned /\ Written)'
    BY <1>6, <1>0 DEF NothingToDo, TypeOK, Readable, Staged, RowsOf, With, Without, Flush
  <2>5. Committed'
    BY <1>6, <1>0 DEF NothingToDo, TypeOK, Readable, Staged, RowsOf, With, Without, Flush
  <2>6. (OneOutput /\ StagedCovers /\ RottedIsRefused)'
    BY <1>6, <1>0 DEF NothingToDo, TypeOK, Readable, Staged, RowsOf, With, Without, Flush
  <2> QED
    BY <2>1, <2>2, <2>3, <2>4, <2>5, <2>6
<1>7. CASE Write
  <2>1. TypeOK'
    <3>1. RowsOf(job.inputs) \subseteq Row
      BY <1>7, <1>0 DEF Write, TypeOK, RowsOf
    <3>2. tmp' \in [here : BOOLEAN, name : Name, rows : SUBSET Row]
      BY <1>7, <1>0, <3>1 DEF Write, TypeOK
    <3>3. faults' \in 0 .. MaxFaults
      BY <1>7, <1>0 DEF Write, TypeOK
    <3> QED
      BY <1>7, <1>0, <3>2, <3>3 DEF Write, TypeOK
  <2>2. (NeverDoubled /\ NamesAreFresh /\ ReadableLanded)'
    BY <1>7, <1>0 DEF Write, TypeOK, Readable, Staged, RowsOf, With, Without, Flush
  <2>3. NothingLost'
    BY <1>7, <1>0 DEF Write, TypeOK, Readable, Staged, RowsOf, With, Without, Flush
  <2>4. (Planned /\ Written)'
    BY <1>7, <1>0 DEF Write, TypeOK, Readable, Staged, RowsOf, With, Without, Flush
  <2>5. Committed'
    BY <1>7, <1>0 DEF Write, TypeOK, Readable, Staged, RowsOf, With, Without, Flush
  <2>6. (OneOutput /\ StagedCovers /\ RottedIsRefused)'
    BY <1>7, <1>0 DEF Write, TypeOK, Readable, Staged, RowsOf, With, Without, Flush
  <2> QED
    BY <2>1, <2>2, <2>3, <2>4, <2>5, <2>6
<1>8. CASE Verify
  <2>1. TypeOK'
    BY <1>8 DEF Verify, TypeOK, Files, Name, NoTmp, NoJob, NoManifest, Compact, Flush, With, Without
  <2>2. (NeverDoubled /\ NamesAreFresh /\ ReadableLanded)'
    BY <1>8, <1>0 DEF Verify, TypeOK, Readable, Staged, RowsOf, With, Without, Flush
  <2>3. NothingLost'
    BY <1>8, <1>0 DEF Verify, TypeOK, Readable, Staged, RowsOf, With, Without, Flush
  <2>4. (Planned /\ Written)'
    <3>1. /\ job.inputs \subseteq Files /\ tmp.rows \subseteq RowsOf(job.inputs)
          /\ job.count = Cardinality(RowsOf(job.inputs))
      BY <1>8 DEF Verify
    <3>2. RowsOf(job.inputs) \in SUBSET Row
      BY <1>0, <3>1 DEF TypeOK, RowsOf
    <3>3. tmp.rows = RowsOf(job.inputs)
      BY <1>8, <3>1, <3>2, PartOfRows DEF Verify
    <3> QED
      BY <1>8, <3>3 DEF Verify, RowsOf
  <2>5. Committed'
    BY <1>8, <1>0 DEF Verify, TypeOK, Readable, Staged, RowsOf, With, Without, Flush
  <2>6. (OneOutput /\ StagedCovers /\ RottedIsRefused)'
    BY <1>8, <1>0 DEF Verify, TypeOK, Readable, Staged, RowsOf, With, Without, Flush
  <2> QED
    BY <2>1, <2>2, <2>3, <2>4, <2>5, <2>6
<1>9. CASE VerifyFails
  <2>1. TypeOK'
    BY <1>9 DEF VerifyFails, TypeOK, Files, Name, NoTmp, NoJob, NoManifest, Compact, Flush, With, Without
  <2>2. (NeverDoubled /\ NamesAreFresh /\ ReadableLanded)'
    BY <1>9, <1>0 DEF VerifyFails, TypeOK, Readable, Staged, RowsOf, With, Without, Flush
  <2>3. NothingLost'
    BY <1>9, <1>0 DEF VerifyFails, TypeOK, Readable, Staged, RowsOf, With, Without, Flush
  <2>4. (Planned /\ Written)'
    BY <1>9, <1>0 DEF VerifyFails, TypeOK, Readable, Staged, RowsOf, With, Without, Flush
  <2>5. Committed'
    BY <1>9, <1>0 DEF VerifyFails, TypeOK, Readable, Staged, RowsOf, With, Without, Flush
  <2>6. (OneOutput /\ StagedCovers /\ RottedIsRefused)'
    BY <1>9, <1>0 DEF VerifyFails, TypeOK, Readable, Staged, RowsOf, With, Without, Flush
  <2> QED
    BY <2>1, <2>2, <2>3, <2>4, <2>5, <2>6
<1>10. CASE Commit
  <2>1. TypeOK'
    BY <1>10 DEF Commit, TypeOK, Files, Name, NoTmp, NoJob, NoManifest, Compact, Flush, With, Without
  <2>2. (NeverDoubled /\ NamesAreFresh /\ ReadableLanded)'
    BY <1>10, <1>0 DEF Commit, TypeOK, Readable, Staged, RowsOf, With, Without, Flush
  <2>3. NothingLost'
    BY <1>10, <1>0 DEF Commit, TypeOK, Readable, Staged, RowsOf, With, Without, Flush
  <2>4. (Planned /\ Written)'
    BY <1>10, <1>0 DEF Commit, TypeOK, Readable, Staged, RowsOf, With, Without, Flush
  <2>5. Committed'
    BY <1>10, <1>0 DEF Commit, TypeOK, Readable, Staged, RowsOf, With, Without, Flush
  <2>6. (OneOutput /\ StagedCovers /\ RottedIsRefused)'
    <3>1. /\ tmp.here /\ tmp.name = job.output /\ tmp.rows = RowsOf(job.inputs)
          /\ job.inputs \subseteq Files /\ job.output \notin Files /\ ~rotted
          /\ job.output.kind = "compact" /\ job.count = Cardinality(RowsOf(job.inputs))
      BY <1>10 DEF Commit
    <3>2. OneOutput' /\ RottedIsRefused'
      BY <1>10, <3>1 DEF Commit
    <3>3. Cardinality(tmp.rows) = job.count
      BY <3>1
    <3>4. \A f \in job.inputs : disk[f] \subseteq tmp.rows
      BY <3>1 DEF RowsOf
    <3>5. \A f \in Files \ job.inputs : disk[f] \cap tmp.rows = {}
      BY <3>1 DEF RowsOf
    <3>6. tmp.rows \subseteq landed
      BY <3>1 DEF RowsOf
    <3> QED
      BY <1>10, <3>2, <3>3, <3>4, <3>5, <3>6 DEF Commit
  <2> QED
    BY <2>1, <2>2, <2>3, <2>4, <2>5, <2>6
<1>11. CASE Delete
  <2>1. TypeOK'
    BY <1>11 DEF Delete, TypeOK, Files, Name, NoTmp, NoJob, NoManifest, Compact, Flush, With, Without
  <2>2. (NeverDoubled /\ NamesAreFresh /\ ReadableLanded)'
    BY <1>11, <1>0 DEF Delete, TypeOK, Readable, Staged, RowsOf, With, Without, Flush
  <2>3. NothingLost'
    BY <1>11, <1>0 DEF Delete, TypeOK, Readable, Staged, RowsOf, With, Without, Flush
  <2>4. (Planned /\ Written)'
    BY <1>11, <1>0 DEF Delete, TypeOK, Readable, Staged, RowsOf, With, Without, Flush
  <2>5. Committed'
    BY <1>11, <1>0 DEF Delete, TypeOK, Readable, Staged, RowsOf, With, Without, Flush
  <2>6. (OneOutput /\ StagedCovers /\ RottedIsRefused)'
    BY <1>11, <1>0 DEF Delete, TypeOK, Readable, Staged, RowsOf, With, Without, Flush
  <2> QED
    BY <2>1, <2>2, <2>3, <2>4, <2>5, <2>6
<1>12. CASE Publish
  <2>1. TypeOK'
    <3>1. /\ disk' = [f \in Files' |-> disk'[f]] /\ Files' \subseteq Name
          /\ \A f \in Files' : disk'[f] \subseteq Row
      <4>1. CASE job.output \in Files
        BY <1>12, <1>0, <4>1 DEF Publish, TypeOK
      <4>2. CASE job.output \notin Files
        <5>1. disk' = With(job.output, tmp.rows)
          BY <1>12, <4>2 DEF Publish
        <5>2. tmp.rows \subseteq Row /\ job.output \in Name
          BY <1>0 DEF TypeOK
        <5> QED
          BY <1>0, <5>1, <5>2 DEF With, TypeOK
      <4> QED
        BY <4>1, <4>2
    <3>2. tmp' \in [here : BOOLEAN, name : Name, rows : SUBSET Row]
      BY <1>12 DEF Publish, Name, Compact
    <3> QED
      BY <1>12, <1>0, <3>1, <3>2 DEF Publish, TypeOK
  <2>2. (NeverDoubled /\ NamesAreFresh /\ ReadableLanded)'
    BY <1>12, <1>0 DEF Publish, TypeOK, Readable, Staged, RowsOf, With, Without, Flush
  <2>3. NothingLost'
    <3>1. CASE job.output \in Files
      BY <1>12, <1>0, <3>1 DEF Publish, TypeOK, Readable, Staged, RowsOf
    <3>2. CASE job.output \notin Files
      <4>1. manifest.here /\ tmp.here /\ ~rotted
        BY <1>12, <3>2 DEF Publish
      <4>2. Readable' = Readable \cup tmp.rows
        <5>1. /\ Files' = Files \cup {job.output} /\ disk'[job.output] = tmp.rows
              /\ \A f \in Files : disk'[f] = disk[f]
          BY <1>12, <3>2 DEF Publish, With
        <5> QED
          BY <5>1 DEF Readable, RowsOf
      <4>3. Staged = tmp.rows /\ Staged' = {}
        BY <1>12, <4>1 DEF Publish, Staged
      <4> QED
        BY <1>12, <4>1, <4>2, <4>3 DEF Publish
    <3> QED
      BY <3>1, <3>2
  <2>4. (Planned /\ Written)'
    BY <1>12, <1>0 DEF Publish, TypeOK, Readable, Staged, RowsOf, With, Without, Flush
  <2>5. Committed'
    BY <1>12, <1>0 DEF Publish, TypeOK, Readable, Staged, RowsOf, With, Without, Flush
  <2>6. (OneOutput /\ StagedCovers /\ RottedIsRefused)'
    BY <1>12, <1>0 DEF Publish, TypeOK, Readable, Staged, RowsOf, With, Without, Flush
  <2> QED
    BY <2>1, <2>2, <2>3, <2>4, <2>5, <2>6
<1>13. CASE Drop
  <2>1. TypeOK'
    BY <1>13 DEF Drop, TypeOK, Files, Name, NoTmp, NoJob, NoManifest, Compact, Flush, With, Without
  <2>2. (NeverDoubled /\ NamesAreFresh /\ ReadableLanded)'
    BY <1>13, <1>0 DEF Drop, TypeOK, Readable, Staged, RowsOf, With, Without, Flush
  <2>3. NothingLost'
    BY <1>13, <1>0 DEF Drop, TypeOK, Readable, Staged, RowsOf, With, Without, Flush
  <2>4. (Planned /\ Written)'
    BY <1>13, <1>0 DEF Drop, TypeOK, Readable, Staged, RowsOf, With, Without, Flush
  <2>5. Committed'
    BY <1>13, <1>0 DEF Drop, TypeOK, Readable, Staged, RowsOf, With, Without, Flush
  <2>6. (OneOutput /\ StagedCovers /\ RottedIsRefused)'
    BY <1>13, <1>0 DEF Drop, TypeOK, Readable, Staged, RowsOf, With, Without, Flush
  <2> QED
    BY <2>1, <2>2, <2>3, <2>4, <2>5, <2>6
<1>14. CASE FlushLands
  <2>1. TypeOK'
    BY <1>14 DEF FlushLands, TypeOK, Files, Name, NoTmp, NoJob, NoManifest, Compact, Flush, With, Without
  <2>0. PICK new \in SUBSET (Row \ landed) :
           disk' = With(Flush(flushes + 1), new) /\ landed' = landed \cup new
    BY <1>14 DEF FlushLands
  <2>a. Flush(flushes + 1) \notin Files \cup manifest.inputs
    BY <1>0 DEF TypeOK, Flush
  <2>b. /\ Files' = Files \cup {Flush(flushes + 1)}
        /\ disk'[Flush(flushes + 1)] = new
        /\ \A f \in Files : disk'[f] = disk[f]
    BY <2>0, <2>a DEF With
  <2>2. (NeverDoubled /\ NamesAreFresh /\ ReadableLanded)'
    <3>1. NeverDoubled' /\ ReadableLanded'
      BY <2>0, <2>b
    <3>2. NamesAreFresh'
      <4>1. flushes' = flushes + 1 /\ manifest' = manifest /\ flushes \in Nat
        BY <1>14, <1>0 DEF FlushLands, TypeOK
      <4>2. \A f \in Files \cup manifest.inputs : f.n \in Nat
        BY <1>0 DEF TypeOK, Name
      <4>3. Flush(flushes + 1).n = flushes + 1
        BY DEF Flush
      <4> QED
        BY <2>b, <4>1, <4>2, <4>3
    <3> QED
      BY <3>1, <3>2
  <2>3. NothingLost'
    <3>1. Readable' = Readable \cup new
      BY <2>b DEF Readable, RowsOf
    <3> QED
      BY <1>14, <2>0, <3>1 DEF FlushLands, Staged
  <2>4. (Planned /\ Written)'
    <3>1. ASSUME pc \in {"write", "verify", "commit"}
          PROVE  RowsOf(job.inputs)' = RowsOf(job.inputs)
      <4>1. job.inputs \subseteq Files /\ job' = job
        BY <1>14, <3>1 DEF FlushLands
      <4>2. \A f \in job.inputs : disk'[f] = disk[f]
        BY <2>b, <4>1
      <4> QED
        BY <4>1, <4>2 DEF RowsOf
    <3>2. job.output.kind = "compact" => job.output # Flush(flushes + 1)
      BY DEF Flush
    <3> HIDE DEF RowsOf
    <3> QED
      BY <1>14, <2>b, <3>1, <3>2 DEF FlushLands
  <2>5. Committed'
    BY <1>14, <1>0 DEF FlushLands, TypeOK, Readable, Staged, RowsOf, With, Without, Flush
  <2>6. (OneOutput /\ StagedCovers /\ RottedIsRefused)'
    BY <1>14, <1>0 DEF FlushLands, TypeOK, Readable, Staged, RowsOf, With, Without, Flush
  <2> QED
    BY <2>1, <2>2, <2>3, <2>4, <2>5, <2>6
<1>15. CASE Crash
  <2>1. TypeOK'
    BY <1>15 DEF Crash, TypeOK, Files, Name, NoTmp, NoJob, NoManifest, Compact, Flush, With, Without
  <2>2. (NeverDoubled /\ NamesAreFresh /\ ReadableLanded)'
    BY <1>15, <1>0 DEF Crash, TypeOK, Readable, Staged, RowsOf, With, Without, Flush
  <2>3. NothingLost'
    BY <1>15, <1>0 DEF Crash, TypeOK, Readable, Staged, RowsOf, With, Without, Flush
  <2>4. (Planned /\ Written)'
    BY <1>15, <1>0 DEF Crash, TypeOK, Readable, Staged, RowsOf, With, Without, Flush
  <2>5. Committed'
    BY <1>15, <1>0 DEF Crash, TypeOK, Readable, Staged, RowsOf, With, Without, Flush
  <2>6. (OneOutput /\ StagedCovers /\ RottedIsRefused)'
    BY <1>15, <1>0 DEF Crash, TypeOK, Readable, Staged, RowsOf, With, Without, Flush
  <2> QED
    BY <2>1, <2>2, <2>3, <2>4, <2>5, <2>6
<1>16. CASE Rot
  <2>1. TypeOK'
    BY <1>16 DEF Rot, TypeOK, Files, Name, NoTmp, NoJob, NoManifest, Compact, Flush, With, Without
  <2>2. (NeverDoubled /\ NamesAreFresh /\ ReadableLanded)'
    BY <1>16, <1>0 DEF Rot, TypeOK, Readable, Staged, RowsOf, With, Without, Flush
  <2>3. NothingLost'
    BY <1>16, <1>0 DEF Rot, TypeOK, Readable, Staged, RowsOf, With, Without, Flush
  <2>4. (Planned /\ Written)'
    BY <1>16, <1>0 DEF Rot, TypeOK, Readable, Staged, RowsOf, With, Without, Flush
  <2>5. Committed'
    BY <1>16, <1>0 DEF Rot, TypeOK, Readable, Staged, RowsOf, With, Without, Flush
  <2>6. (OneOutput /\ StagedCovers /\ RottedIsRefused)'
    <3>1. PICK rows \in SUBSET tmp.rows : rows # tmp.rows /\ tmp' = [tmp EXCEPT !.rows = rows]
      BY <1>16 DEF Rot
    <3>2. tmp.rows \in SUBSET Row
      BY <1>0 DEF TypeOK
    <3>3. Cardinality(rows) # Cardinality(tmp.rows)
      BY <3>1, <3>2, PartOfRows
    <3>4. /\ tmp'.here /\ tmp'.name = tmp.name /\ tmp'.rows = rows
          /\ manifest' = manifest /\ disk' = disk /\ landed' = landed /\ pc' = "idle"
          /\ manifest.here /\ ~rotted /\ rotted'
      BY <1>16, <1>0, <3>1 DEF Rot, TypeOK
    <3>5. RottedIsRefused'
      <4>1. Cardinality(tmp.rows) = manifest.count
        BY <1>16, <3>4 DEF Rot
      <4> QED
        BY <3>3, <3>4, <4>1
    <3>6. OneOutput'
      <4>1. tmp.here
        BY <1>16 DEF Rot
      <4> QED
        BY <3>4, <4>1
    <3>7. StagedCovers'
      BY <3>1, <3>4
    <3> QED
      BY <3>5, <3>6, <3>7
  <2> QED
    BY <2>1, <2>2, <2>3, <2>4, <2>5, <2>6
<1>17. CASE UNCHANGED vars
  BY <1>17 DEF vars, TypeOK, NeverDoubled, NothingLost, NamesAreFresh, ReadableLanded,
     Planned, Written, Committed, OneOutput, StagedCovers, RottedIsRefused,
     Readable, Staged, RowsOf, Files
<1> QED
  BY <1>1, <1>2, <1>3, <1>4, <1>5, <1>6, <1>7, <1>8, <1>9, <1>10, <1>11, <1>12, <1>13, <1>14, <1>15, <1>16, <1>17 DEF Next, CompactorStep

(* The partition keeps its inductive invariant for every set of rows and any  *)
(* number of faults.                                                          *)
THEOREM CompactionCorrect == Spec => []CompactionInv
BY InitEstablishes, StepPreserves, PTL DEF Spec

(* Every variable keeps its range, and a run only ever has inputs of its own  *)
(* left to delete.                                                            *)
THEOREM CompactionTypes == Spec => []TypeOK
<1>1. CompactionInv => TypeOK
  BY DEF CompactionInv
<1> QED
  BY CompactionCorrect, <1>1, PTL

(* A gap, never a doubling: no scan of a closed day returns a row twice.      *)
THEOREM NoRowIsReadTwice == Spec => []NeverDoubled
<1>1. CompactionInv => NeverDoubled
  BY DEF CompactionInv
<1> QED
  BY CompactionCorrect, <1>1, PTL

(* No crash, damaged write or late flush loses a row of a closed day.         *)
THEOREM NoRowIsLost == Spec => []NothingLost
<1>1. CompactionInv => NothingLost
  BY DEF CompactionInv
<1> QED
  BY CompactionCorrect, <1>1, PTL

(* Both: whatever landed is kept, and a scan returns it once at most.          *)
THEOREM EveryRowIsKeptOnce == Spec => []EveryRowOnce
<1>1. CompactionInv => EveryRowOnce
  BY DEF CompactionInv, EveryRowOnce
<1> QED
  BY <1>1, CompactionCorrect, PTL

(* What the code says cannot happen does not: a manifest always has an output *)
(* or a tmp.                                                                  *)
THEOREM ManifestsAreBacked == Spec => []ManifestIsBacked
<1>1. CompactionInv => ManifestIsBacked
  BY DEF CompactionInv, OneOutput, ManifestIsBacked, VouchedExists
<1> QED
  BY CompactionCorrect, <1>1, PTL

(* No file leaves the partition while it holds the only copy of a row.        *)
THEOREM NoDeleteLosesARow == Spec => DeletesAreCovered
<1>1. CompactionInv /\ [Next]_vars
        => [\A f \in Files \ Files' : disk[f] \subseteq Readable' \cup Staged']_vars
  <2> SUFFICES ASSUME CompactionInv, Next, NEW f \in Files \ Files'
               PROVE  disk[f] \subseteq Readable' \cup Staged'
    BY DEF vars
  <2>1. TypeOK
    BY DEF CompactionInv
  <2>2. CASE Delete
    <3>1. PICK name \in left : disk' = Without(name)
      BY <2>2 DEF Delete
    <3>2. f = name /\ f \in manifest.inputs \cap Files
      BY <2>1, <2>2, <3>1 DEF CompactionInv, Committed, Without, Files, TypeOK, Delete
    <3>3. manifest.here /\ tmp.here /\ ~rotted
      BY <2>2, <3>2 DEF CompactionInv, Committed, OneOutput, Delete
    <3>4. disk[f] \subseteq tmp.rows
      BY <3>2, <3>3 DEF CompactionInv, StagedCovers
    <3> QED
      BY <2>2, <3>3, <3>4 DEF Delete, Staged
  <2>3. CASE Publish
    BY <2>3 DEF Publish, With, Files
  <2>4. CASE FlushLands
    BY <2>4 DEF FlushLands, With, Files
  <2>5. CASE disk' = disk
    BY <2>5 DEF Files
  <2> QED
    BY <2>2, <2>3, <2>4, <2>5 DEF Next, CompactorStep, directory, Start, RecoverNothing,
       RecoverResumes, RecoverRefuses, List, NothingToDo, Write, Verify, VerifyFails,
       Commit, Drop, Crash, Rot
<1> QED
  BY CompactionCorrect, <1>1, PTL DEF DeletesAreCovered, Spec

(* A scan of files with no row in common returns a readable row once and any  *)
(* other row not at all.                                                      *)
LEMMA CopiesAreCounted ==
  ASSUME NEW dir, \A f, g \in DOMAIN dir : f # g => dir[f] \cap dir[g] = {}, NEW r
  PROVE  Cardinality({f \in DOMAIN dir : r \in dir[f]})
           = IF \E f \in DOMAIN dir : r \in dir[f] THEN 1 ELSE 0
<1>1. CASE \E f \in DOMAIN dir : r \in dir[f]
  <2>1. PICK g \in DOMAIN dir : r \in dir[g]
    BY <1>1
  <2>2. {f \in DOMAIN dir : r \in dir[f]} = {g}
    BY <2>1
  <2> QED
    BY <1>1, <2>2, FS_Singleton
<1>2. CASE ~\E f \in DOMAIN dir : r \in dir[f]
  <2>1. {f \in DOMAIN dir : r \in dir[f]} = {}
    BY <1>2
  <2> QED
    BY <1>2, <2>1, FS_EmptySet
<1> QED
  BY <1>1, <1>2

(* The partition, its manifest and its crashes implement the closed day: a    *)
(* flush adds rows, a delete hides a file's rows, a publication shows them    *)
(* all again, and nothing else a compaction does can be seen by a reader.     *)
THEOREM ImplementsClosedDay == Spec => ReadsAsAClosedDay
<1> DEFINE copies == [r \in Row |-> Cardinality({f \in Files : r \in disk[f]})]
           once == [r \in Row |-> IF r \in Readable THEN 1 ELSE 0]
<1>1. Init => Day!Init
  <2> SUFFICES ASSUME Init PROVE landed = {} /\ copies = [r \in Row |-> 0]
    BY DEF Day!Init
  <2>1. \A r : {f \in Files : r \in disk[f]} = {}
    BY DEF Init, Files
  <2> QED
    BY <2>1, FS_EmptySet DEF Init
<1>2. CompactionInv /\ CompactionInv' /\ [Next]_vars => [Day!Next]_(Day!vars)
  <2> SUFFICES ASSUME CompactionInv, CompactionInv', Next
               PROVE  Day!Next \/ (landed' = landed /\ copies' = copies)
    BY DEF vars, Day!vars, directory, history, Files
  <2>1. copies = once
    <3>1. \A r : Cardinality({f \in Files : r \in disk[f]})
                   = IF \E f \in Files : r \in disk[f] THEN 1 ELSE 0
      BY CopiesAreCounted DEF CompactionInv, NeverDoubled, Files
    <3> QED
      BY <3>1 DEF Readable, RowsOf
  <2>2. copies' = once'
    <3>1. \A r : Cardinality({f \in Files' : r \in disk'[f]})
                   = IF \E f \in Files' : r \in disk'[f] THEN 1 ELSE 0
      BY CopiesAreCounted DEF CompactionInv, NeverDoubled, Files
    <3> QED
      BY <3>1 DEF Readable, RowsOf
  <2> HIDE DEF copies
  <2>3. TypeOK /\ landed \subseteq Row /\ Readable \subseteq landed
    BY DEF CompactionInv, TypeOK, ReadableLanded, Readable, RowsOf
  <2>4. CASE FlushLands
    <3>1. PICK new \in SUBSET (Row \ landed) :
             disk' = With(Flush(flushes + 1), new) /\ landed' = landed \cup new
      BY <2>4 DEF FlushLands
    <3>2. Flush(flushes + 1) \notin Files
      BY <2>3 DEF CompactionInv, NamesAreFresh, Flush, TypeOK
    <3>3. /\ Files' = Files \cup {Flush(flushes + 1)}
          /\ disk'[Flush(flushes + 1)] = new
          /\ \A f \in Files : disk'[f] = disk[f]
      BY <3>1, <3>2 DEF With, Files
    <3>4. Readable' = Readable \cup new
      BY <3>3 DEF Readable, RowsOf
    <3>5. copies' = [r \in Row |-> IF r \in new THEN 1 ELSE copies[r]]
      BY <2>1, <2>2, <3>4
    <3>6. Day!Land(new)
      BY <3>1, <3>5 DEF Day!Land, copies
    <3> QED
      BY <3>6 DEF Day!Next
  <2>5. CASE Delete
    <3>1. PICK name \in left : disk' = Without(name)
      BY <2>5 DEF Delete
    <3> DEFINE some == IF name \in Files THEN disk[name] ELSE {}
    <3>2. /\ Files' = Files \ {name}
          /\ \A f \in Files' : disk'[f] = disk[f]
      BY <3>1 DEF Without, Files
    <3>3. Readable' = Readable \ some
      BY <3>2 DEF Readable, RowsOf, CompactionInv, NeverDoubled
    <3>4. copies' = [r \in Row |-> IF r \in some THEN 0 ELSE copies[r]]
      BY <2>1, <2>2, <3>3
    <3>5. some \subseteq Readable
      BY DEF Readable, RowsOf
    <3>6. some \subseteq landed /\ landed' = landed
      BY <2>3, <2>5, <3>5 DEF Delete, history
    <3>7. Day!Withhold(some)
      BY <3>4, <3>6 DEF Day!Withhold, copies
    <3>8. some \in SUBSET Row
      BY <2>3, <3>6
    <3> QED
      BY <3>7, <3>8 DEF Day!Next
  <2>6. CASE Publish /\ disk' # disk
    <3>1. /\ job.output \notin Files /\ disk' = With(job.output, tmp.rows)
          /\ landed' = landed
      BY <2>6 DEF Publish, history
    <3>2. manifest.here /\ tmp.here /\ ~rotted
      BY <2>6, <3>1 DEF CompactionInv, Committed, OneOutput, Publish
    <3>3. landed = Readable \cup tmp.rows
      BY <3>2 DEF CompactionInv, NothingLost, Staged
    <3>4. /\ Files' = Files \cup {job.output}
          /\ disk'[job.output] = tmp.rows
          /\ \A f \in Files : disk'[f] = disk[f]
      BY <3>1 DEF With, Files
    <3>5. Readable' = Readable \cup tmp.rows
      BY <3>4 DEF Readable, RowsOf
    <3>6. copies' = [r \in Row |-> IF r \in landed THEN 1 ELSE 0]
      BY <2>2, <3>3, <3>5
    <3>7. Day!Restore
      BY <3>1, <3>6 DEF Day!Restore, copies
    <3> QED
      BY <3>7 DEF Day!Next
  <2>7. CASE disk' = disk /\ landed' = landed
    BY <2>7 DEF copies, Files
  <2>8. \/ FlushLands \/ Delete \/ (Publish /\ disk' # disk)
        \/ (disk' = disk /\ landed' = landed)
    BY DEF Next, CompactorStep, directory, history, Start, RecoverNothing, Publish,
       RecoverResumes, RecoverRefuses, List, NothingToDo, Write, Verify, VerifyFails,
       Commit, Drop, Crash, Rot
  <2> QED
    BY <2>4, <2>5, <2>6, <2>7, <2>8
<1> QED
  BY CompactionCorrect, <1>1, <1>2, PTL DEF ReadsAsAClosedDay, Spec, Day!Spec
=============================================================================
