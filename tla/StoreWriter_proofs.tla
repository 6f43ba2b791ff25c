------------------------- MODULE StoreWriter_proofs -------------------------
(* Theorems about StoreWriter for any set of streams, graces, read size,      *)
(* commands, faults and bounds: the types and the order of the marks, and     *)
(* that the record is exact and that a resume invents nothing.                *)
(*                                                                            *)
(* The first eight parts of RecordInv hold whatever goes wrong: the order of  *)
(* the log, of the marks and of the watermarks, and where a generation's      *)
(* files are; NeverDoubled is among them.  The last three say where every     *)
(* entry is as long as `lapses' is empty: in a committed file, in memory with *)
(* a replay position before it, or behind a pause span.                       *)
(*                                                                            *)
(* With one part more, that a row's entries are of its minute, the writer     *)
(* implements RecordedLog: a commit adds whole minutes, what is published is   *)
(* within its grace and so of no committed minute, and what a pause drops is   *)
(* of none either.                                                            *)
EXTENDS StoreWriter, FiniteSetTheorems, WellFoundedInduction, TLAPS

(* The types.                                                               *)
Positions == [Stream -> 0 .. MaxEntries]
Marks == [Stream -> 0 .. MaxTime]
Span == [from : Positions, to : [Stream -> 0 .. Open]]
Rows == [Stream -> SUBSET Row]
WriterTypes ==
  /\ now \in 1 .. MaxTime
  /\ log \in [Stream -> Seq([at : 1 .. MaxTime, minute : 1 .. MaxTime])]
  /\ handed \in Positions /\ position \in Positions /\ drained \in Positions
  /\ queue \in [Stream -> SUBSET Index] /\ open \in [Stream -> SUBSET Index]
  /\ folded \in [Stream -> SUBSET Index] /\ dropped \in [Stream -> SUBSET Index]
  /\ sealed \in Marks /\ buffer \in Rows /\ reached \in [Stream -> 0 .. NotReached]
  /\ disk \subseteq [gen : Nat, row : Row]
  /\ checkpoint \in [generation : Nat, positions : Positions, sealed : Marks,
                     recording : BOOLEAN, spans : Seq(Span)]
  /\ plan \in [generation : Nat, rows : Rows, positions : Positions, sealed : Marks]
  /\ \A m \in DOMAIN origins : origins[m] \in Positions
  /\ skip \in Seq(Span) /\ spans \in Seq(Span) /\ pending \in Seq(Commands)
  /\ intent \in Nat /\ generation \in Nat
  /\ pc \in {"take", "drain", "sync", "plan", "files", "clear", "dead", "down"}
  /\ after \in {"pass", "commands", "stop"}
  /\ recording \in BOOLEAN /\ replaying \in BOOLEAN
  /\ behind \subseteq Stream /\ caught \subseteq Stream

(* What is on the streams was published in order, and within its grace.        *)
LogInv ==
  \A s \in Stream :
    /\ Length(s) <= MaxEntries
    /\ \A i \in 1 .. Length(s) :
         /\ log[s][i].at <= now /\ Minute(s, i) <= log[s][i].at
         /\ log[s][i].at <= Minute(s, i) + Grace[s]
         /\ \A j \in i .. Length(s) : log[s][i].at <= log[s][j].at

(* The order of the marks on a stream.                                       *)
MarksInv ==
  \A s \in Stream :
    /\ checkpoint.positions[s] <= handed[s] /\ handed[s] <= Length(s)
    /\ drained[s] <= position[s] /\ position[s] <= handed[s]
    /\ queue[s] \subseteq drained[s] + 1 .. position[s]
    /\ open[s] \subseteq 1 .. drained[s]
    /\ folded[s] \subseteq 1 .. handed[s] /\ dropped[s] \subseteq 1 .. handed[s]
    /\ plan.positions[s] <= handed[s]
    /\ pc = "files" => plan.positions[s] <= position[s]

(* A reader that has replayed stands where the group does. One that has reached  *)
(* the end of a stream has read all that is older than this minute.            *)
ReaderInv ==
  Running =>
    /\ replaying \/ position = handed
    /\ \A s \in Stream : reached[s] # NotReached =>
         \A i \in position[s] + 1 .. Length(s) : log[s][i].at = now
    /\ \A s \in caught : reached[s] # NotReached

(* A watermark is a grace behind the clock.                                   *)
Behind(mark) == \A s \in Stream : mark[s] = 0 \/ mark[s] + 1 + Grace[s] <= now
SealedInv == Behind(sealed) /\ Behind(checkpoint.sealed) /\ (pc = "files" => plan.sealed = sealed)

(* A replay from the origin of an open minute reads all that was folded into it. *)
OriginsInv ==
  \A s \in Stream :
    /\ \A i \in open[s] : /\ sealed[s] < Minute(s, i) /\ Minute(s, i) \in DOMAIN origins
                          /\ origins[Minute(s, i)][s] < i
    /\ \A m \in DOMAIN origins : origins[m][s] <= drained[s]

(* The bars of a table are one per minute, and of minutes that are sealed.       *)
BarsFit(s, kept) ==
  /\ \A r \in kept : r.table = s /\ r.minute <= sealed[s]
  /\ \A r, q \in kept : r.minute = q.minute => r = q
NewTo(row, kept) == \A r \in kept : r.minute # row.minute

FilesInv ==
  /\ UncommittedIsPlanned /\ NeverDoubled
  /\ \A f \in disk : f.gen <= checkpoint.generation => f.row.minute <= checkpoint.sealed[f.row.table]
  /\ Running =>
       /\ generation = checkpoint.generation
       /\ \A f \in disk : f.gen <= generation \/ (pc = "files" /\ f.gen = plan.generation)
       /\ \A f \in disk : f.row.minute <= sealed[f.row.table] /\ NewTo(f.row, buffer[f.row.table])
       /\ \A s \in Stream : BarsFit(s, buffer[s])
       /\ pc = "files" => plan.generation = generation + 1 /\ intent = plan.generation
       /\ pc = "clear" => plan.generation = generation /\ buffer = Nothing
       /\ pc \in {"files", "clear"} =>
            /\ \A s \in Stream : BarsFit(s, plan.rows[s]) /\ buffer[s] \subseteq plan.rows[s]
            /\ \A f \in disk : IF f.gen = plan.generation THEN f.row \in plan.rows[f.row.table]
                                                          ELSE NewTo(f.row, plan.rows[f.row.table])

(* What is in a bar was folded.                                              *)
FoldedInv ==
  /\ \A f \in disk : f.row.entries \subseteq folded[f.row.table]
  /\ \A s \in Stream : /\ open[s] \subseteq folded[s]
                       /\ \A r \in buffer[s] \cup plan.rows[s] : r.entries \subseteq folded[s]

(* A list of pause spans: off is one span without an end, whose beginning the    *)
(* writer had drained to.                                                   *)
IsOpen(span) == span.to = Everywhere(Open)
Closed(list) ==
  \A k \in DOMAIN list : IsOpen(list[k]) \/ \A s \in Stream : list[k].to[s] <= handed[s]
SpansFit(list, on) ==
  /\ Closed(list)
  /\ IF on THEN \A k \in DOMAIN list : ~IsOpen(list[k])
     ELSE \E k \in DOMAIN list :
            /\ IsOpen(list[k]) /\ \A l \in DOMAIN list : IsOpen(list[l]) => l = k
            /\ \A s \in Stream : \A i \in 1 .. list[k].from[s] : i \in folded[s] \cup dropped[s]

Commanding == pc \in {"plan", "files"} /\ after = "commands"
SpansInv ==
  /\ SpansFit(checkpoint.spans, checkpoint.recording)
  /\ Running =>
       /\ SpansFit(spans, recording) /\ Closed(skip)
       /\ replaying => spans = skip /\ checkpoint.spans = skip
       /\ ~Commanding => checkpoint.spans = spans /\ checkpoint.recording = recording

(* Where an entry is, once the writer has it.                                 *)
InABar(s, i) == (\E f \in disk : f.row.table = s /\ i \in f.row.entries) \/ \E r \in buffer[s] : i \in r.entries
Stored(s, i) == i \in dropped[s] \/ InABar(s, i)

DurableInv ==
  /\ Safe
  /\ \A s \in Stream : folded[s] \cap dropped[s] = {}
  /\ \A s \in Stream : \A i \in 1 .. Length(s) :
       /\ Minute(s, i) <= checkpoint.sealed[s] => i \in dropped[s] \/ OnDisk(s, i)
       /\ i \in dropped[s] => Hidden(checkpoint.spans, s, i, TRUE)

MemoryInv ==
  Running => \A s \in Stream : \A i \in 1 .. Length(s) :
    /\ Minute(s, i) <= sealed[s] => Stored(s, i)
    /\ i <= position[s] => i \in queue[s] \/ i \in open[s] \/ Stored(s, i)
    /\ i \in dropped[s] => Hidden(spans, s, i, TRUE)
    /\ i \in open[s] => ~Hidden(spans, s, i, TRUE)
    /\ i \in queue[s] /\ Hidden(spans, s, i, TRUE) => ~recording /\ i \notin folded[s]
    /\ pc = "files" /\ i \in open[s] \cup queue[s] => plan.positions[s] < i

RecordInv ==
  /\ WriterTypes /\ LogInv /\ MarksInv /\ ReaderInv /\ SealedInv /\ OriginsInv /\ FilesInv /\ FoldedInv
  /\ lapses = {} => SpansInv /\ DurableInv /\ MemoryInv

-----------------------------------------------------------------------------
(* A set of naturals has a least element, which MinOf is.                     *)
LEMMA MinIsLeast ==
  ASSUME NEW S \in SUBSET Nat, S # {}
  PROVE  MinOf(S) \in S /\ \A y \in S : MinOf(S) <= y
<1>1. PICK i \in S : \A j \in S : <<j, i>> \notin OpToRel(<, Nat)
  BY NatLessThanWellFounded, WFMin
<1>2. \A j \in S : ~(j < i)
  BY <1>1 DEF OpToRel
<1>3. \E x \in S : \A y \in S : x <= y
  BY <1>2
<1> QED
  BY <1>3 DEF MinOf

(* The lesser of two numbers.                                                 *)
LEMMA MinOfTwo ==
  ASSUME NEW a \in Nat, NEW b \in Nat
  PROVE  MinOf({a, b}) \in Nat /\ MinOf({a, b}) <= a /\ MinOf({a, b}) <= b
         /\ MinOf({a, b}) \in {a, b}
<1>1. {a, b} \in SUBSET Nat /\ {a, b} # {}
  OBVIOUS
<1>2. MinOf({a, b}) \in {a, b} /\ \A y \in {a, b} : MinOf({a, b}) <= y
  BY <1>1, MinIsLeast
<1> QED
  BY <1>2

(* The constants.                                                             *)
LEMMA Constant ==
  /\ IsFiniteSet(Stream) /\ Stream # {} /\ \A s \in Stream : Grace[s] \in Nat
  /\ ReadCount \in Nat \ {0} /\ MaxTime \in Nat \ {0} /\ MaxEntries \in Nat
  /\ NotReached \in Nat /\ Open \in Nat /\ MaxEntries < NotReached /\ MaxEntries < Open
BY StoreAssumption DEF NotReached, Open

(* Each stream is shorter than the bound on all of them together.             *)
LEMMA StreamsAreBounded ==
  ASSUME \A s \in Stream : Length(s) \in Nat, NEW s \in Stream,
         Cardinality(Entries) < MaxEntries
  PROVE  Length(s) + 1 <= MaxEntries
<1> DEFINE Part(r) == {<<r, i>> : i \in 1 .. Length(r)}
           Parts == {Part(r) : r \in Stream}
<1>1. \A r \in Stream : IsFiniteSet(Part(r)) /\ Cardinality(Part(r)) = Length(r)
  <2> SUFFICES ASSUME NEW r \in Stream
               PROVE  IsFiniteSet(Part(r)) /\ Cardinality(Part(r)) = Length(r)
    OBVIOUS
  <2> DEFINE f == [i \in 1 .. Length(r) |-> <<r, i>>]
  <2>1. f \in Bijection(1 .. Length(r), Part(r))
    BY DEF Bijection, Injection, IsInjective, Surjection
  <2>2. IsFiniteSet(1 .. Length(r)) /\ Cardinality(1 .. Length(r)) = Length(r)
    <3>1. Length(r) \in Nat
      OBVIOUS
    <3> HIDE DEF f, Part
    <3> QED
      BY <3>1, FS_Interval
  <2> HIDE DEF f, Part
  <2>3. IsFiniteSet(Part(r)) /\ Cardinality(Part(r)) = Cardinality(1 .. Length(r))
    BY <2>1, <2>2, FS_Bijection DEF ExistsBijection
  <2> QED
    BY <2>2, <2>3
<1>2. Entries = UNION Parts
  BY DEF Entries
<1> HIDE DEF Part
<1>3. IsFiniteSet(Parts)
  <2> DEFINE g == [r \in Stream |-> Part(r)]
  <2>1. g \in Surjection(Stream, Parts)
    BY DEF Surjection
  <2> HIDE DEF g, Parts
  <2> QED
    BY <2>1, Constant, FS_Surjection
<1>4. \A T \in Parts : IsFiniteSet(T)
  BY <1>1
<1> HIDE DEF Parts
<1>5. IsFiniteSet(Entries)
  BY <1>2, <1>3, <1>4, FS_UNION
<1>6. Part(s) \subseteq Entries
  BY <1>2 DEF Parts
<1>7. Cardinality(Part(s)) <= Cardinality(Entries)
  BY <1>5, <1>6, FS_Subset
<1>8. Cardinality(Entries) \in Nat /\ Length(s) \in Nat /\ MaxEntries \in Nat
  BY <1>5, FS_CardinalityType, Constant
<1> QED
  BY <1>1, <1>7, <1>8

(* A stream and its entries, typed.                                           *)
LEMMA Streams ==
  ASSUME WriterTypes, NEW s \in Stream
  PROVE  /\ Length(s) \in Nat /\ handed[s] \in Nat /\ position[s] \in Nat /\ drained[s] \in Nat
         /\ sealed[s] \in 0 .. MaxTime /\ reached[s] \in 0 .. NotReached
         /\ checkpoint.positions[s] \in Nat /\ plan.positions[s] \in Nat
         /\ checkpoint.sealed[s] \in 0 .. MaxTime /\ plan.sealed[s] \in 0 .. MaxTime
         /\ position[s] <= MaxEntries /\ handed[s] <= MaxEntries
         /\ \A i \in 1 .. Length(s) : Minute(s, i) \in 1 .. MaxTime /\ log[s][i].at \in 1 .. MaxTime
<1>1. log[s] \in Seq([at : 1 .. MaxTime, minute : 1 .. MaxTime])
  BY DEF WriterTypes
<1>2. Length(s) \in Nat
  BY <1>1 DEF Length
<1>3. \A i \in 1 .. Length(s) : log[s][i] \in [at : 1 .. MaxTime, minute : 1 .. MaxTime]
  <2> DEFINE T == [at : 1 .. MaxTime, minute : 1 .. MaxTime]
  <2>1. log[s] \in Seq(T)
    BY <1>1
  <2> HIDE DEF T
  <2>2. \A i \in 1 .. Len(log[s]) : log[s][i] \in T
    BY <2>1
  <2> QED
    BY <2>2 DEF Length, T
<1>4. \A i \in 1 .. Length(s) : Minute(s, i) \in 1 .. MaxTime /\ log[s][i].at \in 1 .. MaxTime
  BY <1>3 DEF Minute
<1>5. /\ handed[s] \in 0 .. MaxEntries /\ position[s] \in 0 .. MaxEntries
      /\ drained[s] \in 0 .. MaxEntries
      /\ sealed[s] \in 0 .. MaxTime /\ reached[s] \in 0 .. NotReached
  BY DEF WriterTypes, Positions, Marks
<1>6. /\ checkpoint.positions[s] \in 0 .. MaxEntries /\ plan.positions[s] \in 0 .. MaxEntries
      /\ checkpoint.sealed[s] \in 0 .. MaxTime /\ plan.sealed[s] \in 0 .. MaxTime
  BY DEF WriterTypes, Positions, Marks
<1> QED
  BY <1>2, <1>4, <1>5, <1>6, Constant

(* What a read puts on the queue, and what it takes for paused.               *)
Handed(s, i) == i \in queue[s] \/ (i \in position[s] + 1 .. position'[s] /\ ~Hidden(skip, s, i, replaying))
Skipped(s, i) ==
  \/ i \in dropped[s]
  \/ i \in position[s] + 1 .. position'[s] /\ Hidden(skip, s, i, replaying) /\ i \notin folded[s]
LEMMA DeliverFacts ==
  ASSUME WriterTypes, NEW n \in [Stream -> Nat], \A s \in Stream : position[s] + n[s] <= MaxEntries,
         Deliver(n)
  PROVE  /\ position' \in Positions /\ \A s \in Stream : position'[s] = position[s] + n[s]
         /\ queue' \in [Stream -> SUBSET Index] /\ dropped' \in [Stream -> SUBSET Index]
         /\ \A s \in Stream : \A i : i \in queue'[s] <=> Handed(s, i)
         /\ \A s \in Stream : \A i : i \in dropped'[s] <=> Skipped(s, i)
<1> DEFINE batch(s) == position[s] + 1 .. position[s] + n[s]
           hidden(s) == {i \in batch(s) : Hidden(skip, s, i, replaying)}
<1>1. /\ position' = [s \in Stream |-> position[s] + n[s]]
      /\ queue' = [s \in Stream |-> queue[s] \cup (batch(s) \ hidden(s))]
      /\ dropped' = [s \in Stream |-> dropped[s] \cup (hidden(s) \ folded[s])]
  BY DEF Deliver
<1>2. \A s \in Stream : /\ position'[s] = position[s] + n[s] /\ position'[s] \in 0 .. MaxEntries
                        /\ batch(s) = position[s] + 1 .. position'[s]
  BY <1>1, Streams, Constant
<1>3. \A s \in Stream : batch(s) \subseteq Index
  BY <1>2, Streams, Constant DEF Index
<1>4. position' \in Positions
  BY <1>1, <1>2 DEF Positions
<1>5. \A s \in Stream : queue[s] \in SUBSET Index /\ dropped[s] \in SUBSET Index
  BY DEF WriterTypes
<1> HIDE DEF batch
<1>6. \A s \in Stream : \A i : i \in queue'[s] <=> i \in queue[s] \/ (i \in batch(s) /\ ~Hidden(skip, s, i, replaying))
  BY <1>1
<1>7. \A s \in Stream : \A i : i \in dropped'[s] <=> i \in dropped[s] \/ (i \in batch(s) /\ Hidden(skip, s, i, replaying) /\ i \notin folded[s])
  BY <1>1
<1>8. queue' \in [Stream -> SUBSET Index] /\ dropped' \in [Stream -> SUBSET Index]
  BY <1>1, <1>3, <1>5
<1> QED
  BY <1>2, <1>4, <1>6, <1>7, <1>8 DEF Handed, Skipped

(* Neither read passes the log, and a replay does not pass the group.           *)
LEMMA ReadFacts ==
  ASSUME WriterTypes, LogInv, MarksInv, ReaderInv, ReplayRead \/ GroupRead
  PROVE  /\ position' \in Positions /\ handed' \in Positions
         /\ queue' \in [Stream -> SUBSET Index] /\ dropped' \in [Stream -> SUBSET Index]
         /\ \A s \in Stream : \A i : i \in queue'[s] <=> Handed(s, i)
         /\ \A s \in Stream : \A i : i \in dropped'[s] <=> Skipped(s, i)
         /\ \A s \in Stream : /\ position[s] <= position'[s] /\ position'[s] <= handed'[s]
                              /\ handed[s] <= handed'[s] /\ handed'[s] <= Length(s)
         /\ ~replaying => position = handed /\ handed' = position'
<1>1. CASE ReplayRead
  <2> DEFINE n == [s \in Stream |-> ReplayBatch(s)]
  <2>1. \A s \in Stream : ReplayBatch(s) \in Nat /\ position[s] + ReplayBatch(s) <= handed[s]
    <3> SUFFICES ASSUME NEW s \in Stream
                 PROVE  ReplayBatch(s) \in Nat /\ position[s] + ReplayBatch(s) <= handed[s]
      OBVIOUS
    <3>1. position[s] \in Nat /\ handed[s] \in Nat /\ position[s] <= handed[s]
      BY Streams DEF MarksInv
    <3>2. handed[s] - position[s] \in Nat /\ ReadCount \in Nat
      BY <3>1, Constant
    <3>3. ReplayBatch(s) \in Nat /\ ReplayBatch(s) <= handed[s] - position[s]
      BY <3>2, MinOfTwo DEF ReplayBatch
    <3> QED
      BY <3>1, <3>3
  <2>2. Deliver(n) /\ replaying /\ handed' = handed
    BY <1>1 DEF ReplayRead
  <2>3. n \in [Stream -> Nat] /\ \A s \in Stream : n[s] = ReplayBatch(s)
    BY <2>1
  <2> HIDE DEF n
  <2>4. \A s \in Stream : position[s] + n[s] <= handed[s] /\ position[s] + n[s] <= MaxEntries
    BY <2>1, <2>3, Streams, Constant
  <2>5. /\ position' \in Positions /\ \A s \in Stream : position'[s] = position[s] + n[s]
        /\ queue' \in [Stream -> SUBSET Index] /\ dropped' \in [Stream -> SUBSET Index]
        /\ \A s \in Stream : \A i : i \in queue'[s] <=> Handed(s, i)
        /\ \A s \in Stream : \A i : i \in dropped'[s] <=> Skipped(s, i)
    BY <2>2, <2>3, <2>4, DeliverFacts
  <2>6. \A s \in Stream : /\ position[s] <= position'[s] /\ position'[s] <= handed'[s]
                          /\ handed[s] <= handed'[s] /\ handed'[s] <= Length(s)
    <3> SUFFICES ASSUME NEW s \in Stream
                 PROVE  /\ position[s] <= position'[s] /\ position'[s] <= handed'[s]
                        /\ handed[s] <= handed'[s] /\ handed'[s] <= Length(s)
      OBVIOUS
    <3>1. position'[s] = position[s] + n[s] /\ n[s] \in Nat /\ position[s] + n[s] <= handed[s]
      BY <2>3, <2>4, <2>5
    <3>2. handed[s] <= Length(s) /\ handed'[s] = handed[s]
      BY <2>2 DEF MarksInv
    <3> QED
      BY <3>1, <3>2, Streams
  <2>7. handed' \in Positions
    BY <2>2 DEF WriterTypes
  <2> QED
    BY <2>2, <2>5, <2>6, <2>7
<1>2. CASE GroupRead
  <2> DEFINE n == [s \in Stream |-> MinOf({ReadCount, Length(s) - handed[s]})]
  <2>1. position = handed
    BY <1>2 DEF GroupRead, LoopIsFree, ReaderInv, Running
  <2>2. Deliver(n) /\ ~replaying /\ handed' = position'
    BY <1>2 DEF GroupRead
  <2>3. n \in [Stream -> Nat] /\ \A s \in Stream : position[s] + n[s] <= Length(s)
    <3>1. ASSUME NEW s \in Stream
          PROVE  /\ MinOf({ReadCount, Length(s) - handed[s]}) \in Nat
                 /\ position[s] + MinOf({ReadCount, Length(s) - handed[s]}) <= Length(s)
      <4>1. handed[s] \in Nat /\ Length(s) \in Nat /\ handed[s] <= Length(s) /\ position[s] = handed[s]
        BY <2>1, Streams DEF MarksInv
      <4>2. Length(s) - handed[s] \in Nat /\ ReadCount \in Nat
        BY <4>1, Constant
      <4>3. /\ MinOf({ReadCount, Length(s) - handed[s]}) \in Nat
            /\ MinOf({ReadCount, Length(s) - handed[s]}) <= Length(s) - handed[s]
        BY <4>2, MinOfTwo
      <4> QED
        BY <4>1, <4>3
    <3> QED
      BY <3>1
  <2> HIDE DEF n
  <2>4. \A s \in Stream : position[s] + n[s] <= MaxEntries
    <3> SUFFICES ASSUME NEW s \in Stream PROVE position[s] + n[s] <= MaxEntries
      OBVIOUS
    <3>1. Length(s) <= MaxEntries /\ Length(s) \in Nat /\ n[s] \in Nat /\ position[s] + n[s] <= Length(s)
      BY <2>3, Streams DEF LogInv
    <3> QED
      BY <3>1, Streams, Constant
  <2>5. /\ position' \in Positions /\ \A s \in Stream : position'[s] = position[s] + n[s]
        /\ queue' \in [Stream -> SUBSET Index] /\ dropped' \in [Stream -> SUBSET Index]
        /\ \A s \in Stream : \A i : i \in queue'[s] <=> Handed(s, i)
        /\ \A s \in Stream : \A i : i \in dropped'[s] <=> Skipped(s, i)
    BY <2>2, <2>3, <2>4, DeliverFacts
  <2>6. \A s \in Stream : /\ position[s] <= position'[s] /\ position'[s] <= handed'[s]
                          /\ handed[s] <= handed'[s] /\ handed'[s] <= Length(s)
    <3> SUFFICES ASSUME NEW s \in Stream
                 PROVE  /\ position[s] <= position'[s] /\ position'[s] <= handed'[s]
                        /\ handed[s] <= handed'[s] /\ handed'[s] <= Length(s)
      OBVIOUS
    <3>1. position'[s] = position[s] + n[s] /\ n[s] \in Nat /\ position[s] + n[s] <= Length(s)
      BY <2>3, <2>5
    <3>2. handed[s] = position[s] /\ handed'[s] = position'[s]
      BY <2>1, <2>2
    <3> QED
      BY <3>1, <3>2, Streams
  <2> QED
    BY <2>1, <2>2, <2>5, <2>6
<1> QED
  BY <1>1, <1>2

(* The clock of a seal is not ahead of what a stream that has not been read   *)
(* to its end has been drained to.                                            *)
LEMMA ClockFacts ==
  ASSUME WriterTypes, LogInv, MarksInv
  PROVE  /\ SealClock \in Nat /\ SealClock <= now
         /\ \A s \in Stream \ CaughtUp : SealClock <= LogTime(s, DrainedAt[s])
<1> DEFINE A == {LogTime(s, position[s]) : s \in BehindStreams}
           B == {LogTime(s, DrainedAt[s]) : s \in Stream \ CaughtUp}
<1>1. \A s \in Stream : \A i \in 0 .. Length(s) : LogTime(s, i) \in Nat
  <2> SUFFICES ASSUME NEW s \in Stream, NEW i \in 0 .. Length(s) PROVE LogTime(s, i) \in Nat
    OBVIOUS
  <2>1. CASE i = 0
    BY <2>1 DEF LogTime
  <2>2. CASE i # 0
    <3>1. i \in 1 .. Length(s)
      BY <2>2, Streams
    <3>2. log[s][i].at \in 1 .. MaxTime
      BY <3>1, Streams
    <3> QED
      BY <2>2, <3>2, Constant DEF LogTime
  <2> QED
    BY <2>1, <2>2
<1>2. \A s \in Stream : position[s] \in 0 .. Length(s) /\ DrainedAt[s] \in 0 .. Length(s)
  <2> SUFFICES ASSUME NEW s \in Stream
               PROVE  position[s] \in 0 .. Length(s) /\ DrainedAt[s] \in 0 .. Length(s)
    OBVIOUS
  <2>1. drained[s] <= position[s] /\ position[s] <= handed[s] /\ handed[s] <= Length(s)
    BY DEF MarksInv
  <2>2. drained[s] \in 0 .. Length(s) /\ position[s] \in 0 .. Length(s)
    BY <2>1, Streams
  <2> QED
    BY <2>2 DEF DrainedAt
<1>3. BehindStreams \subseteq Stream
  BY DEF BehindStreams, WriterTypes
<1>4. A \subseteq Nat /\ B \subseteq Nat
  BY <1>1, <1>2, <1>3
<1>5. now \in Nat
  BY Constant DEF WriterTypes
<1>6. SealClock = MinOf({now} \cup A \cup B)
  BY DEF SealClock
<1>7. {now} \cup A \cup B \in SUBSET Nat /\ {now} \cup A \cup B # {}
  BY <1>4, <1>5
<1>8. \A s \in Stream \ CaughtUp : LogTime(s, DrainedAt[s]) \in B
  OBVIOUS
<1> HIDE DEF A, B
<1>9. /\ MinOf({now} \cup A \cup B) \in Nat /\ MinOf({now} \cup A \cup B) <= now
      /\ \A b \in B : MinOf({now} \cup A \cup B) <= b
  BY <1>7, MinIsLeast
<1> QED
  BY <1>6, <1>8, <1>9

(* No seal passes an entry its reader has not read: of a stream that has not  *)
(* been read to its end the clock is that of an older entry, and of one that  *)
(* has, what is unread was published this minute.                             *)
LEMMA SealSpares ==
  ASSUME WriterTypes, LogInv, MarksInv, ReaderInv, Running,
         NEW s \in Stream, NEW i \in 1 .. Length(s), position[s] < i,
         sealed[s] < Minute(s, i)
  PROVE  SealedThrough(s, SealClock) < Minute(s, i)
<1>1. /\ SealClock \in Nat /\ SealClock <= now
      /\ s \notin CaughtUp => SealClock <= LogTime(s, DrainedAt[s])
  BY ClockFacts
<1>2. /\ Minute(s, i) \in Nat /\ log[s][i].at \in Nat /\ Grace[s] \in Nat /\ sealed[s] \in Nat
      /\ position[s] \in Nat /\ drained[s] \in Nat /\ reached[s] \in Nat /\ NotReached \in Nat
      /\ Length(s) \in Nat /\ now \in Nat /\ i \in Nat
  <2>1. now \in Nat
    BY Constant DEF WriterTypes
  <2>2. Minute(s, i) \in Nat /\ log[s][i].at \in Nat
    BY Streams, Constant
  <2>3. Grace[s] \in Nat /\ NotReached \in Nat
    BY Constant
  <2>4. /\ sealed[s] \in Nat /\ position[s] \in Nat /\ drained[s] \in Nat /\ reached[s] \in Nat
        /\ Length(s) \in Nat
    BY Streams, Constant
  <2> QED
    BY <2>1, <2>2, <2>3, <2>4
<1>3. log[s][i].at <= Minute(s, i) + Grace[s] /\ drained[s] <= position[s] /\ position[s] <= MaxEntries
  BY Streams DEF LogInv, MarksInv
<1>4. SealClock <= log[s][i].at
  <2>1. CASE s \notin CaughtUp
    <3>1. DrainedAt[s] \in 0 .. Length(s) /\ DrainedAt[s] < i
      BY <1>2, <1>3 DEF DrainedAt
    <3>2. CASE DrainedAt[s] = 0
      BY <1>1, <1>2, <2>1, <3>2 DEF LogTime
    <3>3. CASE DrainedAt[s] # 0
      <4> DEFINE d == DrainedAt[s]
      <4>1. d \in 1 .. Length(s) /\ i \in d .. Length(s)
        BY <1>2, <3>1, <3>3
      <4>2. log[s][d].at <= log[s][i].at /\ log[s][d].at \in 1 .. MaxTime
        BY <4>1, Streams DEF LogInv
      <4>3. LogTime(s, d) = log[s][d].at
        BY <3>3 DEF LogTime
      <4> QED
        BY <1>1, <1>2, <2>1, <4>2, <4>3
    <3> QED
      BY <3>2, <3>3
  <2>2. CASE s \in CaughtUp
    <3>1. reached[s] # NotReached
      <4>1. CASE s \in caught
        BY <4>1 DEF ReaderInv
      <4>2. CASE reached[s] <= DrainedAt[s]
        <5>1. DrainedAt[s] \in Nat /\ DrainedAt[s] <= MaxEntries
          BY <1>2, <1>3, Constant DEF DrainedAt
        <5> QED
          BY <1>2, <4>2, <5>1, Constant
      <4> QED
        BY <2>2, <4>1, <4>2 DEF CaughtUp
    <3>2. i \in position[s] + 1 .. Length(s)
      BY <1>2
    <3>3. log[s][i].at = now
      BY <3>1, <3>2 DEF ReaderInv
    <3> QED
      BY <1>1, <3>3
  <2> QED
    BY <2>1, <2>2
<1> QED
  BY <1>1, <1>2, <1>3, <1>4 DEF SealedThrough

(* What a seal does, when nothing is in a file of this generation.            *)
SealEffect(others) ==
  /\ sealed' \in Marks /\ caught' = CaughtUp
  /\ open' \in [Stream -> SUBSET Index] /\ buffer' \in Rows
  /\ \A s \in Stream :
       /\ sealed[s] <= sealed'[s]
       /\ sealed'[s] = sealed[s] \/ sealed'[s] + 1 + Grace[s] <= now
       /\ \A i \in 1 .. Length(s) : position[s] < i /\ sealed[s] < Minute(s, i) => sealed'[s] < Minute(s, i)
       /\ \A i : i \in open'[s] <=> i \in open[s] /\ sealed'[s] < Minute(s, i)
       /\ \A i \in open[s] : Minute(s, i) <= sealed'[s] => \E r \in buffer'[s] : i \in r.entries
       /\ buffer[s] \subseteq buffer'[s]
       /\ \A r \in buffer'[s] \ buffer[s] :
            /\ r.table = s /\ r.minute <= sealed'[s]
            /\ r.entries = {i \in open[s] : Minute(s, i) = r.minute} /\ r.entries # {}
  /\ lapses' = {} => /\ lapses = {} /\ others = {}
                     /\ \A s \in Stream : \A i \in queue[s] :
                          sealed[s] < Minute(s, i) => sealed'[s] < Minute(s, i)
LEMMA SealFacts ==
  ASSUME WriterTypes, LogInv, MarksInv, ReaderInv, Running, NEW others, Seal(others)
  PROVE  SealEffect(others)
<1> DEFINE through == [s \in Stream |-> SealedThrough(s, SealClock)]
           closing(s) == {i \in open[s] : Minute(s, i) <= through[s]}
<1>1. /\ sealed' = through
      /\ open' = [s \in Stream |-> open[s] \ closing(s)]
      /\ buffer' = [s \in Stream |-> buffer[s] \cup BarsOf(s, closing(s))]
      /\ caught' = CaughtUp
      /\ lapses' = lapses \cup others \cup
           Lapse("straddled", \E s \in Stream : \E i \in queue[s] :
                                 Minute(s, i) \in sealed[s] + 1 .. through[s])
  BY DEF Seal
<1>2. \A s \in Stream : through[s] = SealedThrough(s, SealClock) /\ sealed'[s] = SealedThrough(s, SealClock)
  BY <1>1
<1>3. \A s \in Stream : /\ sealed'[s] \in 0 .. MaxTime /\ sealed[s] <= sealed'[s]
                        /\ sealed'[s] = sealed[s] \/ sealed'[s] + 1 + Grace[s] <= now
  <2> SUFFICES ASSUME NEW s \in Stream
               PROVE  /\ sealed'[s] \in 0 .. MaxTime /\ sealed[s] <= sealed'[s]
                      /\ sealed'[s] = sealed[s] \/ sealed'[s] + 1 + Grace[s] <= now
    OBVIOUS
  <2>1. /\ SealClock \in Nat /\ SealClock <= now /\ now \in 1 .. MaxTime /\ Grace[s] \in Nat
        /\ sealed[s] \in 0 .. MaxTime /\ MaxTime \in Nat
    BY ClockFacts, Streams, Constant DEF WriterTypes
  <2> QED
    BY <1>2, <2>1 DEF SealedThrough
<1>4. \A s \in Stream : \A i \in 1 .. Length(s) :
         position[s] < i /\ sealed[s] < Minute(s, i) => sealed'[s] < Minute(s, i)
  BY <1>2, SealSpares
<1>5. \A s \in Stream : \A i \in open[s] : i \in 1 .. Length(s) /\ i \in Index /\ Minute(s, i) \in 1 .. MaxTime
  <2> SUFFICES ASSUME NEW s \in Stream, NEW i \in open[s]
               PROVE  i \in 1 .. Length(s) /\ i \in Index /\ Minute(s, i) \in 1 .. MaxTime
    OBVIOUS
  <2>1. i \in 1 .. drained[s] /\ drained[s] <= position[s] /\ position[s] <= handed[s] /\ handed[s] <= Length(s)
    BY DEF MarksInv
  <2>2. i \in 1 .. Length(s)
    BY <2>1, Streams
  <2>3. i \in Index
    BY DEF WriterTypes
  <2> QED
    BY <2>2, <2>3, Streams
<1>6. \A s \in Stream : \A i : i \in open'[s] <=> i \in open[s] /\ sealed'[s] < Minute(s, i)
  <2> SUFFICES ASSUME NEW s \in Stream, NEW i
               PROVE  i \in open'[s] <=> i \in open[s] /\ sealed'[s] < Minute(s, i)
    OBVIOUS
  <2>1. i \in open'[s] <=> i \in open[s] /\ ~(Minute(s, i) <= sealed'[s])
    BY <1>1
  <2>2. i \in open[s] => Minute(s, i) \in Int
    BY <1>5
  <2>3. sealed'[s] \in Int
    BY <1>3
  <2> QED
    BY <2>1, <2>2, <2>3
<1>7. \A s \in Stream : \A r \in BarsOf(s, closing(s)) :
         /\ r \in Row /\ r.table = s /\ r.minute <= sealed'[s]
         /\ r.entries = {i \in open[s] : Minute(s, i) = r.minute} /\ r.entries # {}
  <2> SUFFICES ASSUME NEW s \in Stream, NEW r \in BarsOf(s, closing(s))
               PROVE  /\ r \in Row /\ r.table = s /\ r.minute <= sealed'[s]
                      /\ r.entries = {i \in open[s] : Minute(s, i) = r.minute} /\ r.entries # {}
    OBVIOUS
  <2>1. PICK m \in {Minute(s, i) : i \in closing(s)} :
           r = [table |-> s, minute |-> m, entries |-> {i \in closing(s) : Minute(s, i) = m}]
    BY DEF BarsOf
  <2>2. PICK j \in closing(s) : m = Minute(s, j)
    BY <2>1
  <2>3. m <= sealed'[s] /\ m \in 1 .. MaxTime
    BY <1>1, <1>5, <2>2
  <2>4. {i \in closing(s) : Minute(s, i) = m} = {i \in open[s] : Minute(s, i) = m}
    BY <1>1, <2>3
  <2>5. {i \in open[s] : Minute(s, i) = m} \in SUBSET Index /\ j \in {i \in open[s] : Minute(s, i) = m}
    BY <1>5, <2>2
  <2> HIDE DEF closing
  <2> QED
    BY <2>1, <2>3, <2>4, <2>5 DEF Row
<1>8. \A s \in Stream : \A i \in open[s] : Minute(s, i) <= sealed'[s] => \E r \in BarsOf(s, closing(s)) : i \in r.entries
  <2> SUFFICES ASSUME NEW s \in Stream, NEW i \in open[s], Minute(s, i) <= sealed'[s]
               PROVE  \E r \in BarsOf(s, closing(s)) : i \in r.entries
    OBVIOUS
  <2>1. i \in closing(s)
    BY <1>1
  <2> HIDE DEF closing
  <2> DEFINE r == [table |-> s, minute |-> Minute(s, i), entries |-> {j \in closing(s) : Minute(s, j) = Minute(s, i)}]
  <2>2. r \in BarsOf(s, closing(s))
    BY <2>1 DEF BarsOf
  <2>3. i \in r.entries
    BY <2>1
  <2> QED
    BY <2>2, <2>3
<1>9. \A s \in Stream : buffer'[s] = buffer[s] \cup BarsOf(s, closing(s))
  BY <1>1
<1>10. lapses' = {} => /\ lapses = {} /\ others = {}
                       /\ \A s \in Stream : \A i \in queue[s] :
                            sealed[s] < Minute(s, i) => sealed'[s] < Minute(s, i)
  <2> SUFFICES ASSUME lapses' = {}
               PROVE  /\ lapses = {} /\ others = {}
                      /\ \A s \in Stream : \A i \in queue[s] :
                           sealed[s] < Minute(s, i) => sealed'[s] < Minute(s, i)
    OBVIOUS
  <2>1. lapses = {} /\ others = {}
    BY <1>1
  <2>2. ~ \E s \in Stream : \E i \in queue[s] : Minute(s, i) \in sealed[s] + 1 .. sealed'[s]
    BY <1>1 DEF Lapse
  <2>3. ASSUME NEW s \in Stream, NEW i \in queue[s], sealed[s] < Minute(s, i)
        PROVE  sealed'[s] < Minute(s, i)
    <3>1. i \in drained[s] + 1 .. position[s] /\ position[s] <= handed[s] /\ handed[s] <= Length(s)
      BY DEF MarksInv
    <3>2. i \in 1 .. Length(s)
      BY <3>1, Streams
    <3>3. Minute(s, i) \in Nat /\ sealed[s] \in Nat /\ sealed'[s] \in Nat
      BY <1>3, <3>2, Streams
    <3>4. Minute(s, i) \notin sealed[s] + 1 .. sealed'[s]
      BY <2>2
    <3> QED
      BY <2>3, <3>3, <3>4
  <2> QED
    BY <2>1, <2>3
<1>11. sealed' \in Marks
  BY <1>1, <1>3 DEF Marks
<1>12. \A s \in Stream : open[s] \in SUBSET Index /\ buffer[s] \in SUBSET Row
  BY DEF WriterTypes, Rows
<1> HIDE DEF closing
<1>13. open' \in [Stream -> SUBSET Index] /\ buffer' \in Rows
  BY <1>1, <1>7, <1>12 DEF Rows
<1>14. ASSUME NEW s \in Stream
       PROVE  /\ buffer[s] \subseteq buffer'[s]
              /\ \A r \in buffer'[s] \ buffer[s] :
                   /\ r.table = s /\ r.minute <= sealed'[s]
                   /\ r.entries = {i \in open[s] : Minute(s, i) = r.minute} /\ r.entries # {}
              /\ \A i \in open[s] : Minute(s, i) <= sealed'[s] => \E r \in buffer'[s] : i \in r.entries
  <2>1. buffer[s] \subseteq buffer'[s] /\ BarsOf(s, closing(s)) \subseteq buffer'[s]
    BY <1>9
  <2>2. \A r \in buffer'[s] \ buffer[s] : r \in BarsOf(s, closing(s))
    BY <1>9
  <2>3. \A i \in open[s] : Minute(s, i) <= sealed'[s] => \E r \in buffer'[s] : i \in r.entries
    BY <1>8, <2>1
  <2> QED
    BY <1>7, <2>1, <2>2, <2>3
<1>15. caught' = CaughtUp
  BY <1>1
<1> QED
  BY <1>3, <1>4, <1>6, <1>10, <1>11, <1>13, <1>14, <1>15 DEF SealEffect

(* A pass takes every entry off the queue: it folds what it does not refuse,  *)
(* or, when not recording, drops what had not been folded before.             *)
Fresh(s, i) == i \in queue[s] /\ sealed[s] < Minute(s, i)
LEMMA DrainFacts ==
  ASSUME WriterTypes, MarksInv, Drain
  PROVE  /\ queue' = Nothing /\ drained' = position /\ pc' = "sync" /\ pc \in {"take", "drain"}
         /\ recording =>
              /\ \A s \in Stream : \A i : i \in open'[s] <=> i \in open[s] \/ Fresh(s, i)
              /\ \A s \in Stream : \A i : i \in folded'[s] <=> i \in folded[s] \/ Fresh(s, i)
              /\ \A s \in Stream : \A i : Fresh(s, i) => Minute(s, i) \in DOMAIN origins'
              /\ DOMAIN origins \subseteq DOMAIN origins'
              /\ \A m \in DOMAIN origins' : origins'[m] = IF m \in DOMAIN origins THEN origins[m] ELSE drained
              /\ dropped' = dropped /\ lapses' = lapses
         /\ ~recording =>
              /\ \A s \in Stream : \A i : i \in dropped'[s] <=> i \in dropped[s] \/ (i \in queue[s] /\ i \notin folded[s])
              /\ open' = open /\ folded' = folded /\ origins' = origins
              /\ lapses' = {} => lapses = {} /\ \A s \in Stream : \A i : Fresh(s, i) => i \notin folded[s]
         /\ open' \in [Stream -> SUBSET Index] /\ folded' \in [Stream -> SUBSET Index]
         /\ dropped' \in [Stream -> SUBSET Index]
<1> DEFINE fresh(s) == {i \in queue[s] : Minute(s, i) > sealed[s]}
           minutes == UNION {{Minute(s, i) : i \in fresh(s)} : s \in Stream}
<1>1. /\ queue' = Nothing /\ drained' = position /\ pc' = "sync" /\ pc \in {"take", "drain"}
      /\ recording =>
           /\ open' = [s \in Stream |-> open[s] \cup fresh(s)]
           /\ origins' = [m \in DOMAIN origins \cup minutes |->
                            IF m \in DOMAIN origins THEN origins[m] ELSE drained]
           /\ folded' = [s \in Stream |-> folded[s] \cup fresh(s)]
           /\ dropped' = dropped /\ lapses' = lapses
      /\ ~recording =>
           /\ dropped' = [s \in Stream |-> dropped[s] \cup (queue[s] \ folded[s])]
           /\ lapses' = lapses \cup Lapse("abandoned", \E s \in Stream : fresh(s) \cap folded[s] # {})
           /\ open' = open /\ folded' = folded /\ origins' = origins
  BY DEF Drain
<1>2. \A s \in Stream : \A i : i \in fresh(s) <=> Fresh(s, i)
  <2> SUFFICES ASSUME NEW s \in Stream, NEW i PROVE i \in fresh(s) <=> Fresh(s, i)
    OBVIOUS
  <2>1. i \in queue[s] => Minute(s, i) \in Int
    <3>1. queue[s] \subseteq drained[s] + 1 .. position[s] /\ position[s] <= handed[s] /\ handed[s] <= Length(s)
      BY DEF MarksInv
    <3>2. i \in queue[s] => i \in 1 .. Length(s)
      BY <3>1, Streams
    <3> QED
      BY <3>2, Streams
  <2>2. sealed[s] \in Int
    BY Streams
  <2> QED
    BY <2>1, <2>2 DEF Fresh
<1>3. \A s \in Stream : \A i : Fresh(s, i) => Minute(s, i) \in minutes
  BY <1>2
<1> HIDE DEF minutes, fresh
<1>4. \A s \in Stream : fresh(s) \subseteq Index
  <2>1. \A s \in Stream : queue[s] \in SUBSET Index
    BY DEF WriterTypes
  <2> QED
    BY <1>2, <2>1 DEF Fresh
<1>5. /\ open \in [Stream -> SUBSET Index] /\ folded \in [Stream -> SUBSET Index]
      /\ dropped \in [Stream -> SUBSET Index] /\ queue \in [Stream -> SUBSET Index]
  BY DEF WriterTypes
<1>6. CASE recording
  <2>1. open' \in [Stream -> SUBSET Index] /\ folded' \in [Stream -> SUBSET Index]
    BY <1>1, <1>4, <1>5, <1>6
  <2> QED
    BY <1>1, <1>2, <1>3, <1>5, <1>6, <2>1
<1>7. CASE ~recording
  <2>1. dropped' \in [Stream -> SUBSET Index]
    BY <1>1, <1>5, <1>7
  <2>2. lapses' = {} => lapses = {} /\ \A s \in Stream : \A i : Fresh(s, i) => i \notin folded[s]
    <3>1. lapses' = lapses \cup Lapse("abandoned", \E s \in Stream : fresh(s) \cap folded[s] # {})
      BY <1>1, <1>7
    <3>2. lapses' = {} => ~ \E s \in Stream : fresh(s) \cap folded[s] # {}
      BY <3>1 DEF Lapse
    <3> QED
      BY <1>2, <3>1, <3>2
  <2>3. \A s \in Stream : \A i : i \in dropped'[s] <=> i \in dropped[s] \/ (i \in queue[s] /\ i \notin folded[s])
    BY <1>1, <1>7
  <2> QED
    BY <1>1, <1>5, <1>7, <2>1, <2>2, <2>3
<1> QED
  BY <1>6, <1>7

(* A replay from the planned positions reads whatever is folded into an open  *)
(* minute, and begins no later than the last pass.                            *)
LEMMA ReplayFacts ==
  ASSUME WriterTypes, MarksInv, OriginsInv
  PROVE  /\ ReplayPositions \in Positions
         /\ \A s \in Stream : ReplayPositions[s] <= position[s]
         /\ \A s \in Stream : \A i \in open[s] : ReplayPositions[s] < i
         /\ OpenMinutes # {} => \A s \in Stream : ReplayPositions[s] <= drained[s]
<1>1. \A s \in Stream : drained[s] <= position[s] /\ drained[s] \in Nat /\ position[s] \in Nat
  BY Streams DEF MarksInv
<1>2. CASE OpenMinutes = {}
  <2>1. ReplayPositions = position
    BY <1>2 DEF ReplayPositions
  <2>2. \A s \in Stream : \A i \in open[s] : Minute(s, i) \in OpenMinutes
    BY DEF OpenMinutes
  <2>3. \A s \in Stream : open[s] = {}
    BY <1>2, <2>2
  <2>4. position \in Positions
    BY DEF WriterTypes
  <2> QED
    BY <1>1, <1>2, <2>1, <2>3, <2>4
<1>3. CASE OpenMinutes # {}
  <2> DEFINE O(s) == {origins[m][s] : m \in OpenMinutes}
  <2>1. ReplayPositions = [s \in Stream |-> MinOf(O(s))]
    BY <1>3 DEF ReplayPositions
  <2>2. OpenMinutes \subseteq DOMAIN origins
    BY DEF OpenMinutes, OriginsInv
  <2>3. ASSUME NEW s \in Stream
        PROVE  /\ MinOf(O(s)) \in 0 .. MaxEntries /\ MinOf(O(s)) <= drained[s]
               /\ \A i \in open[s] : MinOf(O(s)) < i
    <3>1. \A m \in OpenMinutes : origins[m][s] \in 0 .. MaxEntries /\ origins[m][s] <= drained[s]
      BY <2>2 DEF WriterTypes, Positions, OriginsInv
    <3>2. O(s) \in SUBSET Nat /\ O(s) # {} /\ \A x \in O(s) : x \in 0 .. MaxEntries /\ x <= drained[s]
      BY <1>3, <3>1, Constant
    <3>3. \A i \in open[s] : Minute(s, i) \in OpenMinutes /\ origins[Minute(s, i)][s] < i
      BY DEF OriginsInv, OpenMinutes
    <3>4. \A i \in open[s] : origins[Minute(s, i)][s] \in O(s) /\ origins[Minute(s, i)][s] < i
      BY <3>3
    <3>5. open[s] \subseteq Nat
      <4>1. open[s] \in SUBSET Index
        BY DEF WriterTypes
      <4> QED
        BY <4>1, Constant DEF Index
    <3> HIDE DEF O
    <3>6. MinOf(O(s)) \in O(s) /\ \A y \in O(s) : MinOf(O(s)) <= y
      BY <3>2, MinIsLeast
    <3>7. MinOf(O(s)) \in Nat /\ MinOf(O(s)) \in 0 .. MaxEntries /\ MinOf(O(s)) <= drained[s]
      BY <3>2, <3>6
    <3>8. ASSUME NEW i \in open[s] PROVE MinOf(O(s)) < i
      <4>1. origins[Minute(s, i)][s] \in Nat /\ MinOf(O(s)) <= origins[Minute(s, i)][s] /\ origins[Minute(s, i)][s] < i
        BY <3>2, <3>4, <3>6
      <4> QED
        BY <3>5, <3>7, <4>1
    <3> QED
      BY <3>7, <3>8
  <2> HIDE DEF O
  <2>4. ReplayPositions \in Positions
    BY <2>1, <2>3 DEF Positions
  <2>5. \A s \in Stream : ReplayPositions[s] = MinOf(O(s))
    BY <2>1
  <2>6. ASSUME NEW s \in Stream
        PROVE  ReplayPositions[s] <= position[s]
    BY <1>1, <2>3, <2>5, Constant
  <2> QED
    BY <2>3, <2>4, <2>5, <2>6
<1> QED
  BY <1>2, <1>3

-----------------------------------------------------------------------------
(* The state before anything is published or started.                         *)
LEMMA NothingTyped ==
  /\ Start \in Positions /\ Start \in Marks /\ Nothing \in Rows
  /\ Nothing \in [Stream -> SUBSET Index]
  /\ NoPlan \in [generation : Nat, rows : Rows, positions : Positions, sealed : Marks]
  /\ Everywhere(NotReached) \in [Stream -> 0 .. NotReached]
  /\ \A s \in Stream : Start[s] = 0 /\ Nothing[s] = {}
<1>1. Start \in Positions /\ Start \in Marks /\ Nothing \in Rows
  BY Constant DEF Start, Positions, Marks, Nothing, Rows
<1> QED
  BY <1>1, Constant DEF NoPlan, Everywhere, Nothing, Start

(* Every step keeps the types.                                                *)
LEMMA TypesKept ==
  ASSUME WriterTypes, LogInv, MarksInv, ReaderInv, OriginsInv, Next
  PROVE  WriterTypes'
<1>1. ASSUME NEW s \in Stream, Publish(s) PROVE WriterTypes'
  <2> DEFINE T == [at : 1 .. MaxTime, minute : 1 .. MaxTime]
  <2>1. PICK m \in 1 .. now : log' = [log EXCEPT ![s] = Append(@, [at |-> now, minute |-> m])]
    BY <1>1 DEF Publish
  <2>2. now \in 1 .. MaxTime
    BY DEF WriterTypes
  <2>3. [at |-> now, minute |-> m] \in T
    BY <2>2, Constant
  <2>4. log \in [Stream -> Seq(T)]
    BY DEF WriterTypes
  <2> HIDE DEF T
  <2>5. log' \in [Stream -> Seq(T)]
    BY <2>1, <2>3, <2>4
  <2>6. log' \in [Stream -> Seq([at : 1 .. MaxTime, minute : 1 .. MaxTime])]
    BY <2>5 DEF T
  <2> QED
    BY <1>1, <2>6 DEF Publish, WriterTypes, durable, reader, bars, control, commit, history
<1>2. CASE Tick
  <2>1. now' \in 1 .. MaxTime
    <3>1. now \in 1 .. MaxTime
      BY DEF WriterTypes
    <3>2. now < MaxTime /\ now' = now + 1
      BY <1>2 DEF Tick
    <3> QED
      BY <3>1, <3>2, Constant
  <2> QED
    BY <1>2, <2>1 DEF Tick, WriterTypes, durable, reader, bars, control, commit, history
<1>3. CASE SendCommand
  <2>1. pending' \in Seq(Commands)
    BY <1>3 DEF SendCommand, WriterTypes
  <2> QED
    BY <1>3, <2>1 DEF SendCommand, WriterTypes, world, durable, reader, bars, commit, history
<1>4. CASE ReplayRead
  <2>1. /\ position' \in Positions /\ handed' \in Positions
        /\ queue' \in [Stream -> SUBSET Index] /\ dropped' \in [Stream -> SUBSET Index]
    BY <1>4, ReadFacts
  <2> QED
    BY <1>4, <2>1 DEF ReplayRead, WriterTypes, world, durable, bars, control, commit
<1>5. CASE ReplayDone
  BY <1>5 DEF ReplayDone, WriterTypes, world, durable, bars, control, commit, history
<1>6. CASE GroupRead
  <2>1. /\ position' \in Positions /\ handed' \in Positions
        /\ queue' \in [Stream -> SUBSET Index] /\ dropped' \in [Stream -> SUBSET Index]
    BY <1>6, ReadFacts
  <2>2. reached' \in [Stream -> 0 .. NotReached] /\ behind' \subseteq Stream
    <3>1. \A s \in Stream : position'[s] \in 0 .. MaxEntries /\ reached[s] \in 0 .. NotReached
      BY <2>1, Streams DEF Positions
    <3>2. \A s \in Stream : position'[s] \in 0 .. NotReached
      BY <3>1, Constant
    <3> QED
      BY <1>6, <3>1, <3>2 DEF GroupRead
  <2> QED
    BY <1>6, <2>1, <2>2 DEF GroupRead, WriterTypes, world, durable, bars, control, commit
<1>7. CASE Drain
  <2>1. /\ queue' = Nothing /\ drained' = position /\ pc' = "sync"
        /\ open' \in [Stream -> SUBSET Index] /\ folded' \in [Stream -> SUBSET Index]
        /\ dropped' \in [Stream -> SUBSET Index]
    BY <1>7, DrainFacts
  <2>2. \A m \in DOMAIN origins' : origins'[m] \in Positions
    <3>1. CASE recording
      BY <1>7, <3>1, DrainFacts DEF WriterTypes
    <3>2. CASE ~recording
      <4>1. origins' = origins
        BY <1>7, <3>2 DEF Drain
      <4> QED
        BY <4>1 DEF WriterTypes
    <3> QED
      BY <3>1, <3>2
  <2> QED
    BY <1>7, <2>1, <2>2, NothingTyped DEF Drain, WriterTypes, world, durable, reader, control, commit
<1>8. ASSUME NEW others, Seal(others), Running PROVE sealed' \in Marks /\ open' \in [Stream -> SUBSET Index] /\ buffer' \in Rows /\ caught' \subseteq Stream
  <2>1. SealEffect(others)
    BY <1>8, SealFacts
  <2>2. CaughtUp \subseteq Stream
    BY DEF CaughtUp, WriterTypes
  <2> QED
    BY <2>1, <2>2 DEF SealEffect
<1>9. CASE ApplyCommand
  <2>1. PICK others : Seal(others)
    BY <1>9 DEF ApplyCommand
  <2>2. sealed' \in Marks /\ open' \in [Stream -> SUBSET Index] /\ buffer' \in Rows /\ caught' \subseteq Stream
    BY <1>8, <1>9, <2>1 DEF ApplyCommand, Running
  <2>3. pending' \in Seq(Commands)
    BY <1>9 DEF ApplyCommand, WriterTypes
  <2>4. spans' \in Seq(Span)
    <3>1. Everywhere(Open) \in [Stream -> 0 .. Open] /\ position \in Positions /\ position \in [Stream -> 0 .. Open]
      <4>1. position \in Positions
        BY DEF WriterTypes
      <4>2. Everywhere(Open) \in [Stream -> 0 .. Open]
        BY Constant DEF Everywhere
      <4>3. 0 .. MaxEntries \subseteq 0 .. Open
        BY Constant
      <4>4. position \in [Stream -> 0 .. Open]
        BY <4>1, <4>3 DEF Positions
      <4> QED
        BY <4>1, <4>2, <4>4
    <3>2. [from |-> position, to |-> Everywhere(Open)] \in Span
      BY <3>1 DEF Span
    <3>3. Append(spans, [from |-> position, to |-> Everywhere(Open)]) \in Seq(Span)
      BY <3>2 DEF WriterTypes
    <3>4. ASSUME NEW k \in DOMAIN spans PROVE [spans EXCEPT ![k].to = position] \in Seq(Span)
      <4>1. spans \in Seq(Span) /\ spans[k] \in Span
        BY DEF WriterTypes
      <4>2. [spans[k] EXCEPT !.to = position] \in Span
        BY <3>1, <4>1 DEF Span
      <4>3. [spans EXCEPT ![k].to = position] = [spans EXCEPT ![k] = [spans[k] EXCEPT !.to = position]]
        OBVIOUS
      <4> QED
        BY <4>1, <4>2, <4>3
    <3>5. ASSUME NEW k, k \notin DOMAIN spans PROVE [spans EXCEPT ![k].to = position] = spans
      <4>1. spans = [i \in DOMAIN spans |-> spans[i]]
        BY DEF WriterTypes
      <4> QED
        BY <3>5, <4>1
    <3>6. spans \in Seq(Span)
      BY DEF WriterTypes
    <3>7. \/ spans' = Append(spans, [from |-> position, to |-> Everywhere(Open)])
          \/ spans' = spans \/ spans' = [spans EXCEPT ![MaxOf(OpenSpans)].to = position]
      BY <1>9 DEF ApplyCommand
    <3>8. [spans EXCEPT ![MaxOf(OpenSpans)].to = position] \in Seq(Span)
      BY <3>4, <3>5, <3>6
    <3> QED
      BY <3>3, <3>6, <3>7, <3>8
  <2> QED
    BY <1>9, <2>2, <2>3, <2>4 DEF ApplyCommand, WriterTypes, world, durable, reader
<1>10. CASE PausedPass
  BY <1>10 DEF PausedPass, Park, WriterTypes, world, durable, reader, bars, control, commit, history
<1>11. CASE SealPass
  <2>1. sealed' \in Marks /\ open' \in [Stream -> SUBSET Index] /\ buffer' \in Rows /\ caught' \subseteq Stream
    BY <1>8, <1>11 DEF SealPass, Running
  <2> QED
    BY <1>11, <2>1 DEF SealPass, Park, WriterTypes, world, durable, reader, control
<1>12. CASE CommitPlan
  <2>1. ReplayPositions \in Positions
    BY ReplayFacts
  <2>2. plan' \in [generation : Nat, rows : Rows, positions : Positions, sealed : Marks]
    BY <1>12, <2>1 DEF CommitPlan, WriterTypes
  <2> QED
    BY <1>12, <2>2 DEF CommitPlan, WriterTypes, world, reader, bars, control
<1>13. ASSUME NEW s \in Stream, FlushTable(s) PROVE WriterTypes'
  <2>1. buffer \in Rows /\ buffer[s] \subseteq Row /\ plan.generation \in Nat
    BY DEF WriterTypes, Rows
  <2>2. buffer' \in Rows
    BY <1>13, <2>1 DEF FlushTable, Rows
  <2>3. {[gen |-> plan.generation, row |-> r] : r \in buffer[s]} \subseteq [gen : Nat, row : Row]
    BY <2>1
  <2>4. disk' \subseteq [gen : Nat, row : Row]
    BY <1>13, <2>3 DEF FlushTable, WriterTypes
  <2> QED
    BY <1>13, <2>2, <2>4 DEF FlushTable, WriterTypes, world, reader, control, commit, history
<1>14. CASE WriteCheckpoint
  <2>1. checkpoint' \in [generation : Nat, positions : Positions, sealed : Marks,
                         recording : BOOLEAN, spans : Seq(Span)]
    BY <1>14 DEF WriteCheckpoint, WriterTypes
  <2> QED
    BY <1>14, <2>1 DEF WriteCheckpoint, WriterTypes, world, reader, bars, control, history
<1>15. CASE ClearIntent
  <2>1. \A m \in DOMAIN origins' : origins'[m] \in Positions
    BY <1>15 DEF ClearIntent, WriterTypes
  <2>2. pc' \in {"take", "drain", "sync", "plan", "files", "clear", "dead", "down"}
    BY <1>15 DEF ClearIntent, Return, WriterTypes
  <2> QED
    BY <1>15, <2>1, <2>2, NothingTyped DEF ClearIntent, Return, WriterTypes, world, reader, control, history
<1>16. CASE CommitFails
  <2>1. pc' \in {"take", "drain", "sync", "plan", "files", "clear", "dead", "down"}
    BY <1>16 DEF CommitFails, WriterTypes
  <2> QED
    BY <1>16, <2>1, NothingTyped DEF CommitFails, RollBack, WriterTypes, world, reader, control
<1>17. CASE ClearFails
  <2>1. disk' \subseteq [gen : Nat, row : Row] /\ buffer' \in Rows /\ intent' \in Nat
    BY <1>17 DEF ClearFails, RollBack, WriterTypes
  <2>2. plan' \in [generation : Nat, rows : Rows, positions : Positions, sealed : Marks] /\ pc' = "drain"
    BY <1>17, NothingTyped DEF ClearFails
  <2> QED
    BY <1>17, <2>1, <2>2 DEF ClearFails, WriterTypes, world, reader, control
<1>18. CASE Stop
  <2>1. sealed' \in Marks /\ open' \in [Stream -> SUBSET Index] /\ buffer' \in Rows /\ caught' \subseteq Stream
    BY <1>8, <1>18 DEF Stop, Running
  <2> QED
    BY <1>18, <2>1 DEF Stop, WriterTypes, world, durable, reader, control
<1>19. CASE Crash
  <2>1. /\ now' \in 1 .. MaxTime /\ log' \in [Stream -> Seq([at : 1 .. MaxTime, minute : 1 .. MaxTime])]
        /\ handed' \in Positions /\ intent' \in Nat
        /\ folded' \in [Stream -> SUBSET Index] /\ dropped' \in [Stream -> SUBSET Index]
        /\ disk' \subseteq [gen : Nat, row : Row]
        /\ checkpoint' \in [generation : Nat, positions : Positions, sealed : Marks,
                           recording : BOOLEAN, spans : Seq(Span)]
    BY <1>19 DEF Crash, WriterTypes, world, durable, history
  <2>2. /\ position' \in Positions /\ drained' \in Positions
        /\ queue' \in [Stream -> SUBSET Index] /\ open' \in [Stream -> SUBSET Index]
        /\ sealed' \in Marks /\ buffer' \in Rows /\ reached' \in [Stream -> 0 .. NotReached]
        /\ plan' \in [generation : Nat, rows : Rows, positions : Positions, sealed : Marks]
    BY <1>19, NothingTyped DEF Crash
  <2>3. /\ \A m \in DOMAIN origins' : origins'[m] \in Positions
        /\ skip' \in Seq(Span) /\ spans' \in Seq(Span) /\ pending' \in Seq(Commands)
        /\ generation' \in Nat /\ pc' = "down" /\ after' = "pass"
        /\ recording' \in BOOLEAN /\ replaying' \in BOOLEAN
        /\ behind' \subseteq Stream /\ caught' \subseteq Stream
    <3>1. /\ origins' = [m \in {} |-> Start] /\ skip' = <<>> /\ spans' = <<>>
          /\ pending' = <<>> /\ generation' = 0
      BY <1>19 DEF Crash
    <3>2. /\ pc' = "down" /\ after' = "pass" /\ recording' = TRUE /\ replaying' = FALSE
          /\ behind' = {} /\ caught' = {}
      BY <1>19 DEF Crash
    <3>3. \A m \in DOMAIN origins' : origins'[m] \in Positions
      BY <3>1
    <3>4. /\ skip' \in Seq(Span) /\ spans' \in Seq(Span) /\ pending' \in Seq(Commands) /\ generation' \in Nat
      BY <3>1
    <3> QED
      BY <3>2, <3>3, <3>4
  <2> QED
    BY <2>1, <2>2, <2>3 DEF WriterTypes
<1>20. CASE Restart
  <2>1. checkpoint.positions \in Positions /\ checkpoint.sealed \in Marks /\ checkpoint.spans \in Seq(Span)
        /\ checkpoint.recording \in BOOLEAN /\ checkpoint.generation \in Nat
    BY DEF WriterTypes
  <2>2. disk' \subseteq [gen : Nat, row : Row]
    BY <1>20 DEF Restart, Recovered, WriterTypes
  <2>3. /\ now' \in 1 .. MaxTime /\ log' \in [Stream -> Seq([at : 1 .. MaxTime, minute : 1 .. MaxTime])]
        /\ handed' \in Positions /\ intent' \in Nat
        /\ folded' \in [Stream -> SUBSET Index] /\ dropped' \in [Stream -> SUBSET Index]
        /\ checkpoint' \in [generation : Nat, positions : Positions, sealed : Marks,
                           recording : BOOLEAN, spans : Seq(Span)]
    BY <1>20 DEF Restart, WriterTypes, world, history
  <2>4. /\ position' \in Positions /\ drained' \in Positions
        /\ queue' \in [Stream -> SUBSET Index] /\ open' \in [Stream -> SUBSET Index]
        /\ sealed' \in Marks /\ buffer' \in Rows /\ reached' \in [Stream -> 0 .. NotReached]
        /\ plan' \in [generation : Nat, rows : Rows, positions : Positions, sealed : Marks]
    BY <1>20, <2>1, NothingTyped DEF Restart, Watermarks
  <2>5. /\ \A m \in DOMAIN origins' : origins'[m] \in Positions
        /\ skip' \in Seq(Span) /\ spans' \in Seq(Span) /\ pending' \in Seq(Commands)
        /\ generation' \in Nat /\ pc' = "take" /\ after' = "pass"
        /\ recording' \in BOOLEAN /\ replaying' \in BOOLEAN
        /\ behind' \subseteq Stream /\ caught' \subseteq Stream
    <3>1. /\ origins' = [m \in {} |-> Start] /\ skip' = checkpoint.spans /\ spans' = checkpoint.spans
          /\ pending' = <<>> /\ generation' = checkpoint.generation
      BY <1>20 DEF Restart
    <3>2. /\ pc' = "take" /\ after' = "pass" /\ recording' = checkpoint.recording /\ replaying' = TRUE
          /\ behind' = {} /\ caught' = {}
      BY <1>20 DEF Restart
    <3>3. \A m \in DOMAIN origins' : origins'[m] \in Positions
      BY <3>1
    <3> QED
      BY <2>1, <3>1, <3>2, <3>3
  <2> QED
    BY <2>2, <2>3, <2>4, <2>5 DEF WriterTypes
<1> QED
  BY <1>1, <1>2, <1>3, <1>4, <1>5, <1>6, <1>7, <1>9, <1>10, <1>11, <1>12, <1>13, <1>14, <1>15,
     <1>16, <1>17, <1>18, <1>19, <1>20 DEF Next, WriterStep, ReaderStep

-----------------------------------------------------------------------------
(* What is published is in order and on time.                                 *)
LEMMA LogKept ==
  ASSUME WriterTypes, LogInv, Next
  PROVE  /\ LogInv' /\ \A s \in Stream : \A i \in 1 .. Length(s) : log'[s][i] = log[s][i]
         /\ \A s \in Stream : Len(log[s]) <= Len(log'[s])
<1>1. ASSUME NEW s \in Stream, Publish(s)
      PROVE  /\ LogInv' /\ \A r \in Stream : \A i \in 1 .. Length(r) : log'[r][i] = log[r][i]
             /\ \A r \in Stream : Len(log[r]) <= Len(log'[r])
  <2>1. PICK m \in 1 .. now : /\ now <= m + Grace[s]
                              /\ log' = [log EXCEPT ![s] = Append(@, [at |-> now, minute |-> m])]
    BY <1>1 DEF Publish
  <2>2. Cardinality(Entries) < MaxEntries /\ now' = now
    BY <1>1 DEF Publish
  <2>3. \A r \in Stream : Length(r) \in Nat /\ log[r] \in Seq([at : 1 .. MaxTime, minute : 1 .. MaxTime])
    BY Streams DEF WriterTypes
  <2>4. Length(s) + 1 <= MaxEntries
    BY <2>2, <2>3, StreamsAreBounded
  <2>5. /\ log'[s] = Append(log[s], [at |-> now, minute |-> m])
        /\ \A r \in Stream : r # s => log'[r] = log[r]
    BY <2>1 DEF WriterTypes
  <2>6. /\ Length(s)' = Length(s) + 1 /\ log'[s][Length(s) + 1] = [at |-> now, minute |-> m]
        /\ \A i \in 1 .. Length(s) : log'[s][i] = log[s][i]
    <3> DEFINE T == [at : 1 .. MaxTime, minute : 1 .. MaxTime]
               e == [at |-> now, minute |-> m]
    <3>1. log[s] \in Seq(T) /\ Len(log[s]) = Length(s) /\ Length(s)' = Len(log'[s])
      BY <2>3 DEF Length
    <3> HIDE DEF T, e
    <3>2. /\ Len(Append(log[s], e)) = Len(log[s]) + 1 /\ Append(log[s], e)[Len(log[s]) + 1] = e
          /\ \A i \in 1 .. Len(log[s]) : Append(log[s], e)[i] = log[s][i]
      BY <3>1
    <3> QED
      BY <2>5, <3>1, <3>2 DEF e
  <2>7. ASSUME NEW r \in Stream PROVE Length(r)' <= MaxEntries /\ Length(r) <= Length(r)'
                                      /\ \A i \in 1 .. Length(r) : log'[r][i] = log[r][i]
    <3>1. CASE r = s
      BY <2>3, <2>4, <2>6, <3>1, Constant
    <3>2. CASE r # s
      BY <2>3, <2>5, <3>2 DEF LogInv, Length
    <3> QED
      BY <3>1, <3>2
  <2>8. ASSUME NEW r \in Stream, NEW i \in 1 .. Length(r)'
        PROVE  /\ log'[r][i].at <= now /\ log'[r][i].minute <= log'[r][i].at
               /\ log'[r][i].at <= log'[r][i].minute + Grace[r]
               /\ \A j \in i .. Length(r)' : log'[r][i].at <= log'[r][j].at
    <3>1. \A j \in 1 .. Length(r) : /\ log[r][j].at <= now /\ log[r][j].minute <= log[r][j].at
                                    /\ log[r][j].at <= log[r][j].minute + Grace[r]
                                    /\ \A k \in j .. Length(r) : log[r][j].at <= log[r][k].at
      BY DEF LogInv, Minute
    <3>2. CASE r # s
      BY <2>3, <2>5, <3>1, <3>2 DEF Length
    <3>3. CASE r = s
      <4>1. now \in Nat /\ m \in Nat /\ Grace[s] \in Nat /\ Length(s) \in Nat
        BY <2>1, <2>3, Constant DEF WriterTypes
      <4>2. CASE i = Length(s) + 1
        <5>1. log'[r][i] = [at |-> now, minute |-> m] /\ i .. Length(r)' = {i}
          BY <2>6, <3>3, <4>1, <4>2
        <5>2. log'[r][i].at = now /\ log'[r][i].minute = m
          BY <5>1
        <5>3. \A j \in i .. Length(r)' : log'[r][i].at <= log'[r][j].at
          BY <4>1, <5>1, <5>2
        <5>4. m <= now /\ now <= m + Grace[r] /\ now <= now
          BY <2>1, <3>3, <4>1
        <5> QED
          BY <5>2, <5>3, <5>4
      <4>3. CASE i # Length(s) + 1
        <5>1. i \in 1 .. Length(s)
          BY <2>6, <3>3, <4>1, <4>3
        <5>2. ASSUME NEW j \in i .. Length(r)' PROVE log'[r][i].at <= log'[r][j].at
          <6>1. CASE j = Length(s) + 1
            BY <2>6, <3>1, <3>3, <5>1, <6>1
          <6>2. CASE j # Length(s) + 1
            <7>1. j \in i .. Length(s) /\ j \in 1 .. Length(s)
              BY <2>6, <3>3, <4>1, <5>1, <6>2
            <7> QED
              BY <2>6, <3>1, <3>3, <5>1, <7>1
          <6> QED
            BY <6>1, <6>2
        <5> QED
          BY <2>6, <3>1, <3>3, <5>1, <5>2
      <4> QED
        BY <4>2, <4>3
    <3> QED
      BY <3>2, <3>3
  <2> QED
    <3>1. \A r \in Stream : Len(log[r]) <= Len(log'[r])
      BY <2>7 DEF Length
    <3> QED
      BY <2>2, <2>7, <2>8, <3>1 DEF LogInv, Minute
<1>2. CASE Tick
  <2>1. log' = log /\ now' = now + 1 /\ now \in Nat
    BY <1>2, Constant DEF Tick, WriterTypes
  <2>2. \A s \in Stream : \A i \in 1 .. Length(s) : log[s][i].at <= now' /\ Length(s) \in Nat
    BY <2>1, Streams, Constant DEF LogInv
  <2> QED
    BY <2>1, <2>2, Streams DEF LogInv, Length, Minute
<1>3. ASSUME UNCHANGED world
      PROVE  /\ LogInv' /\ \A s \in Stream : \A i \in 1 .. Length(s) : log'[s][i] = log[s][i]
             /\ \A s \in Stream : Len(log[s]) <= Len(log'[s])
  BY <1>3, Streams DEF world, LogInv, Length, Minute
<1>4. \/ \E s \in Stream : Publish(s)
      \/ Tick \/ UNCHANGED world
  BY DEF Next, WriterStep, ReaderStep, Drain, ApplyCommand, PausedPass, SealPass, CommitPlan, FlushTable,
         WriteCheckpoint, ClearIntent, ReplayRead, ReplayDone, GroupRead, Restart, SendCommand,
         CommitFails, ClearFails, Stop, Crash
<1> QED
  BY <1>1, <1>2, <1>3, <1>4

(* What follows a commit is none of its own stages.                           *)
LEMMA Returns ==
  ASSUME WriterTypes, ClearIntent \/ CommitFails
  PROVE  pc' \in {"drain", "sync", "dead", "down"}
<1>1. after \in {"pass", "commands", "stop"}
  BY DEF WriterTypes
<1>2. \/ pc' = [pass |-> "drain", commands |-> "sync", stop |-> "down"][after]
      \/ pc' = [pass |-> "drain", commands |-> "dead", stop |-> "down"][after]
  BY DEF ClearIntent, Return, CommitFails
<1>3. CASE after = "pass"
  BY <1>2, <1>3
<1>4. CASE after = "commands"
  BY <1>2, <1>4
<1>5. CASE after = "stop"
  BY <1>2, <1>5
<1> QED
  BY <1>1, <1>3, <1>4, <1>5

(* The marks of every stream stay in order.                                   *)
LEMMA MarksKept ==
  ASSUME WriterTypes, WriterTypes', LogInv, MarksInv, ReaderInv, OriginsInv, Next
  PROVE  MarksInv'
<1>1. ASSUME NEW s \in Stream, Publish(s) PROVE MarksInv'
  <2>1. UNCHANGED <<checkpoint, handed, drained, position, queue, open, folded, dropped, plan, pc>>
    BY <1>1 DEF Publish, durable, reader, bars, commit, history
  <2>2. \A r \in Stream : Length(r) <= Length(r)' /\ Length(r) \in Nat /\ Length(r)' \in Nat
    <3>1. \A r \in Stream : log'[r] \in Seq([at : 1 .. MaxTime, minute : 1 .. MaxTime])
      BY DEF WriterTypes
    <3>2. \A r \in Stream : Length(r)' \in Nat
      BY <3>1 DEF Length
    <3>3. \A r \in Stream : Len(log[r]) <= Len(log'[r])
      BY LogKept
    <3>4. \A r \in Stream : Length(r) \in Nat /\ Length(r) <= Length(r)'
      BY <3>3, Streams DEF Length
    <3> QED
      BY <3>2, <3>4
  <2>3. \A r \in Stream : handed[r] <= Length(r)'
    BY <2>2, Streams DEF MarksInv
  <2> QED
    BY <2>1, <2>3 DEF MarksInv
<1>2. ASSUME UNCHANGED <<log, checkpoint, handed, drained, position, queue, folded, dropped, plan>>,
             \A s \in Stream : open'[s] \subseteq open[s], pc' # "files" \/ pc = "files"
      PROVE  MarksInv'
  BY <1>2 DEF MarksInv, Length
<1>3. CASE ReplayRead \/ GroupRead
  <2>1. UNCHANGED <<log, checkpoint, drained, open, folded, plan, pc>>
    BY <1>3 DEF ReplayRead, GroupRead, world, durable, bars, commit
  <2>2. ASSUME NEW s \in Stream
        PROVE  /\ checkpoint'.positions[s] <= handed'[s] /\ handed'[s] <= Length(s)'
               /\ drained'[s] <= position'[s] /\ position'[s] <= handed'[s]
               /\ queue'[s] \subseteq drained'[s] + 1 .. position'[s]
               /\ open'[s] \subseteq 1 .. drained'[s]
               /\ folded'[s] \subseteq 1 .. handed'[s] /\ dropped'[s] \subseteq 1 .. handed'[s]
               /\ plan'.positions[s] <= handed'[s]
               /\ pc' = "files" => plan'.positions[s] <= position'[s]
    <3>1. /\ position[s] <= position'[s] /\ position'[s] <= handed'[s]
          /\ handed[s] <= handed'[s] /\ handed'[s] <= Length(s)
          /\ position'[s] \in Nat /\ handed'[s] \in Nat
      BY <1>3, ReadFacts, Constant DEF Positions
    <3>2. \A i : /\ i \in queue'[s] => i \in queue[s] \/ i \in position[s] + 1 .. position'[s]
                 /\ i \in dropped'[s] => i \in dropped[s] \/ i \in position[s] + 1 .. position'[s]
      BY <1>3, ReadFacts DEF Handed, Skipped
    <3>3. /\ checkpoint.positions[s] <= handed[s] /\ drained[s] <= position[s]
          /\ queue[s] \subseteq drained[s] + 1 .. position[s] /\ open[s] \subseteq 1 .. drained[s]
          /\ folded[s] \subseteq 1 .. handed[s] /\ dropped[s] \subseteq 1 .. handed[s]
          /\ plan.positions[s] <= handed[s] /\ (pc = "files" => plan.positions[s] <= position[s])
      BY DEF MarksInv
    <3>4. /\ checkpoint.positions[s] \in Nat /\ handed[s] \in Nat /\ drained[s] \in Nat /\ position[s] \in Nat
          /\ plan.positions[s] \in Nat /\ Length(s) \in Nat /\ Length(s)' = Length(s)
      BY <2>1, Streams DEF Length
    <3>5. queue'[s] \subseteq drained[s] + 1 .. position'[s]
      BY <3>1, <3>2, <3>3, <3>4
    <3>6. folded[s] \subseteq 1 .. handed'[s] /\ dropped'[s] \subseteq 1 .. handed'[s]
      BY <3>1, <3>2, <3>3, <3>4
    <3>7. /\ checkpoint.positions[s] <= handed'[s] /\ drained[s] <= position'[s]
          /\ plan.positions[s] <= handed'[s] /\ (pc = "files" => plan.positions[s] <= position'[s])
      BY <3>1, <3>3, <3>4
    <3> QED
      BY <2>1, <3>1, <3>3, <3>4, <3>5, <3>6, <3>7
  <2> QED
    BY <2>2 DEF MarksInv
<1>4. CASE Drain
  <2>1. UNCHANGED <<log, checkpoint, handed, position, plan>> /\ drained' = position /\ queue' = Nothing /\ pc' = "sync"
    BY <1>4 DEF Drain, world, durable, reader, commit
  <2>2. ASSUME NEW s \in Stream
        PROVE  /\ open'[s] \subseteq 1 .. position[s]
               /\ folded'[s] \subseteq 1 .. handed[s] /\ dropped'[s] \subseteq 1 .. handed[s]
    <3>1. \A i : /\ i \in open'[s] => i \in open[s] \/ i \in queue[s]
                 /\ i \in folded'[s] => i \in folded[s] \/ i \in queue[s]
                 /\ i \in dropped'[s] => i \in dropped[s] \/ i \in queue[s]
      BY <1>4, DrainFacts DEF Fresh
    <3>2. /\ drained[s] <= position[s] /\ position[s] <= handed[s]
          /\ queue[s] \subseteq drained[s] + 1 .. position[s] /\ open[s] \subseteq 1 .. drained[s]
          /\ folded[s] \subseteq 1 .. handed[s] /\ dropped[s] \subseteq 1 .. handed[s]
      BY DEF MarksInv
    <3>3. handed[s] \in Nat /\ drained[s] \in Nat /\ position[s] \in Nat
      BY Streams
    <3>4. /\ queue[s] \subseteq 1 .. position[s] /\ queue[s] \subseteq 1 .. handed[s]
          /\ open[s] \subseteq 1 .. position[s]
      BY <3>2, <3>3
    <3> QED
      BY <3>1, <3>2, <3>4
  <2>3. \A s \in Stream : position[s] <= position[s] /\ Nothing[s] = {}
    BY Streams DEF Nothing
  <2> QED
    BY <2>1, <2>2, <2>3 DEF MarksInv, Length
<1>5. ASSUME NEW others, Seal(others), Running PROVE \A s \in Stream : open'[s] \subseteq open[s]
  BY <1>5, SealFacts DEF SealEffect
<1>6. CASE CommitPlan
  <2>1. UNCHANGED <<log, checkpoint, handed, drained, position, queue, open, folded, dropped>>
        /\ plan'.positions = ReplayPositions
    BY <1>6 DEF CommitPlan, world, durable, reader, bars, history
  <2>2. \A s \in Stream : ReplayPositions[s] <= position[s] /\ ReplayPositions[s] \in Nat
    BY ReplayFacts, Constant DEF Positions
  <2>3. \A s \in Stream : ReplayPositions[s] <= handed[s]
    BY <2>2, Streams DEF MarksInv
  <2> QED
    BY <2>1, <2>2, <2>3 DEF MarksInv, Length
<1>7. CASE WriteCheckpoint
  <2>1. UNCHANGED <<log, handed, drained, position, queue, open, folded, dropped, plan>>
        /\ checkpoint'.positions = plan.positions /\ pc' = "clear"
    BY <1>7 DEF WriteCheckpoint, world, reader, bars, history
  <2> QED
    BY <2>1 DEF MarksInv, Length
<1>8. ASSUME UNCHANGED <<log, checkpoint, handed, drained, position, queue, folded, dropped, open>>,
             plan' = NoPlan, pc' # "files"
      PROVE  MarksInv'
  <2>1. \A s \in Stream : plan'.positions[s] = 0
    BY <1>8, NothingTyped DEF NoPlan
  <2>2. \A s \in Stream : 0 <= handed[s]
    BY Streams
  <2> QED
    BY <1>8, <2>1, <2>2 DEF MarksInv, Length
<1>9. CASE ClearIntent \/ CommitFails \/ ClearFails
  <2>1. UNCHANGED <<log, checkpoint, handed, drained, position, queue, folded, dropped, open>> /\ plan' = NoPlan
    BY <1>9 DEF ClearIntent, Return, CommitFails, RollBack, ClearFails, world, reader, history
  <2>2. pc' # "files"
    BY <1>9, Returns DEF ClearFails
  <2> QED
    BY <1>8, <2>1, <2>2
<1>10. CASE Crash \/ Restart
  <2>1. /\ UNCHANGED <<log, checkpoint, handed, folded, dropped>> /\ drained' = position' /\ queue' = Nothing
        /\ open' = Nothing /\ plan' = NoPlan /\ pc' # "files"
        /\ position' = Start \/ position' = checkpoint.positions
    BY <1>10 DEF Crash, Restart, world, durable, history
  <2>2. ASSUME NEW s \in Stream
        PROVE  /\ position'[s] <= handed[s] /\ position'[s] \in Nat
               /\ plan'.positions[s] <= handed[s] /\ queue'[s] = {} /\ open'[s] = {}
    <3>1. checkpoint.positions[s] <= handed[s] /\ checkpoint.positions[s] \in Nat /\ handed[s] \in Nat
      BY Streams DEF MarksInv
    <3> QED
      BY <2>1, <3>1, NothingTyped DEF NoPlan
  <2> QED
    BY <2>1, <2>2 DEF MarksInv, Length
<1>11. CASE Tick \/ SendCommand \/ ReplayDone \/ PausedPass \/ \E s \in Stream : FlushTable(s)
  <2>1. UNCHANGED <<log, checkpoint, handed, drained, position, queue, folded, dropped, plan, open>>
        /\ (pc' # "files" \/ pc = "files")
    BY <1>11 DEF Tick, SendCommand, ReplayDone, PausedPass, Park, FlushTable, world, durable, reader, bars, commit, history
  <2> QED
    BY <1>2, <2>1
<1>12. CASE ApplyCommand \/ SealPass \/ Stop
  <2>1. UNCHANGED <<log, checkpoint, handed, drained, position, queue, folded, dropped, plan>> /\ pc' # "files"
    BY <1>12 DEF ApplyCommand, SealPass, Park, Stop, world, durable, reader
  <2>2. (\E others : Seal(others)) /\ Running
    BY <1>12 DEF ApplyCommand, SealPass, Stop, Running
  <2> QED
    BY <1>2, <1>5, <2>1, <2>2
<1> QED
  BY <1>1, <1>3, <1>4, <1>6, <1>7, <1>9, <1>10, <1>11, <1>12 DEF Next, WriterStep, ReaderStep

-----------------------------------------------------------------------------
(* A reader that has reached the end of a stream has all but this minute's.   *)
LEMMA ReaderKept ==
  ASSUME WriterTypes, LogInv, MarksInv, ReaderInv, Next
  PROVE  ReaderInv'
<1> DEFINE Unread(s) == position[s] + 1 .. Length(s)
<1>1. ASSUME NEW s \in Stream, Publish(s) PROVE ReaderInv'
  <2>1. UNCHANGED <<now, position, handed, replaying, reached, caught, pc>>
    BY <1>1 DEF Publish, reader
  <2>2. PICK m : log' = [log EXCEPT ![s] = Append(@, [at |-> now, minute |-> m])]
    BY <1>1 DEF Publish
  <2>3. ASSUME Running, NEW r \in Stream, reached[r] # NotReached, NEW i \in position[r] + 1 .. Length(r)'
        PROVE  log'[r][i].at = now
    <3>1. \A j \in position[r] + 1 .. Length(r) : log[r][j].at = now
      BY <2>3 DEF ReaderInv
    <3>2. CASE r # s
      <4>1. log'[r] = log[r]
        BY <2>2, <3>2 DEF WriterTypes
      <4> QED
        BY <2>3, <3>1, <4>1 DEF Length
    <3>3. CASE r = s
      <4> DEFINE T == [at : 1 .. MaxTime, minute : 1 .. MaxTime]
                 e == [at |-> now, minute |-> m]
      <4>1. log[s] \in Seq(T) /\ log'[s] = Append(log[s], e) /\ e.at = now
        BY <2>2 DEF WriterTypes
      <4> HIDE DEF T, e
      <4>2. /\ Len(log'[s]) = Len(log[s]) + 1 /\ log'[s][Len(log[s]) + 1] = e
            /\ \A j \in 1 .. Len(log[s]) : log'[s][j] = log[s][j]
        BY <4>1
      <4>3. position[s] \in Nat /\ Len(log[s]) \in Nat
        BY Streams DEF Length
      <4>4. i \in position[s] + 1 .. Len(log[s]) + 1
        BY <2>3, <3>3, <4>2 DEF Length
      <4>5. CASE i = Len(log[s]) + 1
        BY <3>3, <4>1, <4>2, <4>5
      <4>6. CASE i # Len(log[s]) + 1
        <5>1. i \in position[s] + 1 .. Len(log[s]) /\ i \in 1 .. Len(log[s])
          BY <4>3, <4>4, <4>6
        <5> QED
          BY <3>1, <3>3, <4>2, <5>1 DEF Length
      <4> QED
        BY <4>5, <4>6
    <3> QED
      BY <3>2, <3>3
  <2>4. Running' = Running
    BY <2>1 DEF Running
  <2> QED
    BY <2>1, <2>3, <2>4 DEF ReaderInv
<1>2. CASE Tick
  <2>1. UNCHANGED <<log, position, handed, replaying, reached, caught, pc>>
    BY <1>2 DEF Tick, reader
  <2>2. Running => \A s \in Stream : reached[s] # NotReached => position[s] = Length(s)
    BY <1>2 DEF Tick
  <2>3. \A s \in Stream : position[s] \in Nat /\ Length(s) \in Nat
    BY Streams
  <2>4. Running => \A s \in Stream : reached[s] # NotReached => position[s] + 1 .. Length(s) = {}
    BY <2>2, <2>3
  <2> QED
    BY <2>1, <2>4 DEF ReaderInv, Running, Length
<1>3. CASE ReplayRead
  <2>1. UNCHANGED <<now, log, handed, replaying, reached, caught, pc>> /\ replaying
    BY <1>3 DEF ReplayRead, world, bars
  <2>2. \A s \in Stream : position[s] <= position'[s] /\ position'[s] \in Nat /\ position[s] \in Nat /\ Length(s) \in Nat
    BY <1>3, ReadFacts, Streams, Constant DEF Positions
  <2>3. \A s \in Stream : position'[s] + 1 .. Length(s) \subseteq position[s] + 1 .. Length(s)
    BY <2>2
  <2> QED
    BY <2>1, <2>3 DEF ReaderInv, Running, Length
<1>4. CASE GroupRead
  <2> DEFINE n == [s \in Stream |-> MinOf({ReadCount, Length(s) - handed[s]})]
  <2>1. /\ UNCHANGED <<now, log, replaying, caught, pc>> /\ handed' = position'
        /\ position' = [s \in Stream |-> position[s] + n[s]]
        /\ reached' = [s \in Stream |-> IF s \in Short(n) THEN position'[s] ELSE reached[s]]
        /\ ~replaying /\ Running
    BY <1>4 DEF GroupRead, Deliver, world, bars, LoopIsFree, Running
  <2>2. \A s \in Stream : /\ position[s] <= position'[s] /\ position'[s] <= Length(s) /\ position'[s] <= MaxEntries
                          /\ position'[s] \in Nat /\ position[s] \in Nat /\ Length(s) \in Nat
    <3>1. \A s \in Stream : /\ position[s] <= position'[s] /\ position'[s] \in 0 .. MaxEntries
                            /\ position'[s] <= handed'[s] /\ handed'[s] <= Length(s)
      BY <1>4, ReadFacts DEF Positions
    <3> QED
      BY <2>1, <3>1, Streams, Constant
  <2>3. ASSUME NEW s \in Stream, s \in Short(n) PROVE position'[s] = Length(s)
    <3>1. n[s] < ReadCount /\ position'[s] = position[s] + n[s] /\ n[s] = MinOf({ReadCount, Length(s) - handed[s]})
      BY <2>1, <2>3 DEF Short
    <3>2. handed[s] = position[s]
      BY <2>1 DEF ReaderInv
    <3>3. Length(s) - handed[s] \in Nat /\ ReadCount \in Nat
      BY <2>2, <3>2, Constant
    <3>4. n[s] \in {ReadCount, Length(s) - handed[s]}
      BY <3>1, <3>3, MinOfTwo
    <3> QED
      BY <2>2, <3>1, <3>2, <3>3, <3>4
  <2> HIDE DEF n
  <2>4. ASSUME NEW s \in Stream, reached'[s] # NotReached, NEW i \in position'[s] + 1 .. Length(s)
        PROVE  log[s][i].at = now
    <3>1. CASE s \in Short(n)
      BY <2>2, <2>3, <2>4, <3>1
    <3>2. CASE s \notin Short(n)
      <4>1. reached'[s] = reached[s] /\ i \in position[s] + 1 .. Length(s)
        BY <2>1, <2>2, <3>2
      <4> QED
        BY <2>1, <2>4, <4>1 DEF ReaderInv
    <3> QED
      BY <3>1, <3>2
  <2>5. \A s \in caught : reached'[s] # NotReached
    <3>1. \A s \in caught : s \in Stream /\ reached[s] # NotReached
      BY <2>1 DEF ReaderInv, WriterTypes
    <3>2. \A s \in Stream : position'[s] # NotReached
      BY <2>2, Constant
    <3> QED
      BY <2>1, <3>1, <3>2
  <2> QED
    BY <2>1, <2>4, <2>5 DEF ReaderInv, Running, Length
<1>5. ASSUME UNCHANGED <<now, log, position, handed, replaying, reached, caught>>, Running' => Running
      PROVE  ReaderInv'
  BY <1>5 DEF ReaderInv, Length
<1>6. CASE ApplyCommand \/ SealPass \/ Stop
  <2>1. UNCHANGED <<now, log, position, handed, replaying, reached>> /\ caught' = CaughtUp /\ Running
    BY <1>6 DEF ApplyCommand, SealPass, Stop, Seal, world, reader, Running
  <2>2. ASSUME NEW s \in CaughtUp PROVE reached[s] # NotReached
    <3>1. CASE s \in caught
      BY <2>1, <3>1 DEF ReaderInv
    <3>2. CASE s \in Stream /\ reached[s] <= DrainedAt[s]
      <4>1. drained[s] <= position[s] /\ position[s] <= MaxEntries /\ drained[s] \in Nat /\ position[s] \in Nat
            /\ reached[s] \in Nat
        BY <3>2, Streams, Constant DEF MarksInv
      <4>2. DrainedAt[s] \in Nat /\ DrainedAt[s] <= MaxEntries
        BY <4>1, Constant DEF DrainedAt
      <4> QED
        BY <3>2, <4>1, <4>2, Constant
    <3> QED
      BY <3>1, <3>2 DEF CaughtUp
  <2> QED
    BY <2>1, <2>2 DEF ReaderInv, Running, Length
<1>7. CASE ReplayDone
  <2>1. UNCHANGED <<now, log, position, handed, reached, caught, pc>> /\ position = handed
    BY <1>7 DEF ReplayDone, world, bars
  <2> QED
    BY <2>1 DEF ReaderInv, Running, Length
<1>8. CASE Crash
  BY <1>8 DEF Crash, ReaderInv, Running
<1>9. CASE Restart
  BY <1>9 DEF Restart, ReaderInv, Everywhere
<1>10. CASE SendCommand \/ Drain \/ PausedPass \/ CommitPlan \/ (\E s \in Stream : FlushTable(s))
            \/ WriteCheckpoint \/ ClearIntent \/ CommitFails \/ ClearFails
  <2>1. UNCHANGED <<now, log, position, handed, replaying, reached, caught>> /\ Running
    BY <1>10 DEF SendCommand, Drain, PausedPass, CommitPlan, FlushTable, WriteCheckpoint, ClearIntent,
                 CommitFails, ClearFails, Running, LoopIsFree, world, reader, bars
  <2> QED
    BY <1>5, <2>1
<1> QED
  BY <1>1, <1>2, <1>3, <1>4, <1>6, <1>7, <1>8, <1>9, <1>10 DEF Next, WriterStep, ReaderStep

(* The watermarks stay a grace behind the clock.                              *)
LEMMA SealedKept ==
  ASSUME WriterTypes, LogInv, MarksInv, ReaderInv, SealedInv, Next
  PROVE  SealedInv'
<1>1. \A s \in Stream : /\ sealed[s] = 0 \/ sealed[s] + 1 + Grace[s] <= now
                        /\ checkpoint.sealed[s] = 0 \/ checkpoint.sealed[s] + 1 + Grace[s] <= now
  BY DEF SealedInv, Behind
<1>2. CASE Tick
  <2>1. UNCHANGED <<sealed, checkpoint, plan, pc>> /\ now' = now + 1
    BY <1>2 DEF Tick, durable, bars, commit
  <2>2. ASSUME NEW s \in Stream
        PROVE  /\ sealed[s] = 0 \/ sealed[s] + 1 + Grace[s] <= now'
               /\ checkpoint.sealed[s] = 0 \/ checkpoint.sealed[s] + 1 + Grace[s] <= now'
    <3>1. now \in Nat /\ MaxTime \in Nat
      BY Constant DEF WriterTypes
    <3>2. sealed[s] \in Nat /\ checkpoint.sealed[s] \in Nat /\ Grace[s] \in Nat
      BY Streams, Constant
    <3> QED
      BY <1>1, <2>1, <3>1, <3>2
  <2> QED
    BY <2>1, <2>2 DEF SealedInv, Behind
<1>3. CASE ApplyCommand \/ SealPass \/ Stop
  <2>1. UNCHANGED <<now, checkpoint>> /\ pc' # "files" /\ Running /\ \E others : Seal(others)
    BY <1>3 DEF ApplyCommand, SealPass, Park, Stop, world, durable, Running
  <2>2. \A s \in Stream : sealed'[s] = sealed[s] \/ sealed'[s] + 1 + Grace[s] <= now
    BY <2>1, SealFacts DEF SealEffect
  <2> QED
    BY <1>1, <2>1, <2>2 DEF SealedInv, Behind
<1>4. CASE CommitPlan
  <2>1. UNCHANGED <<now, checkpoint, sealed>> /\ plan'.sealed = sealed
    BY <1>4 DEF CommitPlan, world, durable, bars
  <2> QED
    BY <1>1, <2>1 DEF SealedInv, Behind
<1>5. CASE WriteCheckpoint
  <2>1. UNCHANGED <<now, sealed>> /\ checkpoint'.sealed = plan.sealed /\ plan.sealed = sealed /\ pc' # "files"
    BY <1>5 DEF WriteCheckpoint, world, bars, SealedInv
  <2> QED
    BY <1>1, <2>1 DEF SealedInv, Behind
<1>6. CASE Crash \/ Restart
  <2>1. UNCHANGED <<now, checkpoint>> /\ (sealed' = Start \/ sealed' = checkpoint.sealed) /\ pc' # "files"
    BY <1>6 DEF Crash, Restart, Watermarks, world, durable
  <2>2. \A s \in Stream : Start[s] = 0
    BY DEF Start
  <2> QED
    BY <1>1, <2>1, <2>2 DEF SealedInv, Behind
<1>7. ASSUME UNCHANGED <<now, checkpoint, sealed>>, pc' = "files" => pc = "files" /\ plan' = plan
      PROVE  SealedInv'
  BY <1>1, <1>7 DEF SealedInv, Behind
<1>8. CASE SendCommand \/ Drain \/ PausedPass \/ ReplayRead \/ ReplayDone \/ GroupRead \/ ClearFails
           \/ (\E s \in Stream : Publish(s)) \/ (\E s \in Stream : FlushTable(s))
  <2>1. UNCHANGED <<now, checkpoint, sealed>> /\ (pc' = "files" => pc = "files" /\ plan' = plan)
    BY <1>8 DEF SendCommand, Drain, PausedPass, Park, ReplayRead, ReplayDone, GroupRead, ClearFails, Publish,
                FlushTable, world, durable, bars, commit
  <2> QED
    BY <1>7, <2>1
<1>9. CASE ClearIntent \/ CommitFails
  <2>1. UNCHANGED <<now, checkpoint, sealed>>
    BY <1>9 DEF ClearIntent, CommitFails, RollBack, world, durable, bars
  <2>2. pc' # "files"
    BY <1>9, Returns
  <2> QED
    BY <1>7, <2>1, <2>2
<1> QED
  BY <1>2, <1>3, <1>4, <1>5, <1>6, <1>8, <1>9 DEF Next, WriterStep, ReaderStep

(* An origin is before what it is the origin of.                              *)
LEMMA OriginsKept ==
  ASSUME WriterTypes, WriterTypes', LogInv, MarksInv, ReaderInv, OriginsInv, Next
  PROVE  OriginsInv'
<1>1. \A s \in Stream : /\ \A i \in open[s] : /\ sealed[s] < Minute(s, i) /\ Minute(s, i) \in DOMAIN origins
                                              /\ origins[Minute(s, i)][s] < i /\ i \in 1 .. Length(s)
                        /\ \A m \in DOMAIN origins : origins[m][s] <= drained[s]
  <2>1. ASSUME NEW s \in Stream PROVE open[s] \subseteq 1 .. Length(s)
    <3>1. /\ open[s] \subseteq 1 .. drained[s] /\ drained[s] <= position[s] /\ position[s] <= handed[s]
          /\ handed[s] <= Length(s)
      BY DEF MarksInv
    <3> QED
      BY <3>1, Streams
  <2> QED
    BY <2>1 DEF OriginsInv
<1>2. ASSUME UNCHANGED <<sealed, origins, drained, open>>
      PROVE  OriginsInv'
  <2>1. \A s \in Stream : \A i \in 1 .. Length(s) : log'[s][i] = log[s][i]
    BY LogKept
  <2> QED
    BY <1>1, <1>2, <2>1 DEF OriginsInv, Minute
<1>3. CASE Drain
  <2>1. UNCHANGED <<log, sealed>> /\ drained' = position
    BY <1>3 DEF Drain, world
  <2>2. ASSUME NEW s \in Stream
        PROVE  /\ \A m \in DOMAIN origins' : origins'[m][s] <= position[s]
               /\ \A i \in open'[s] : /\ sealed[s] < Minute(s, i) /\ Minute(s, i) \in DOMAIN origins'
                                      /\ origins'[Minute(s, i)][s] < i
    <3>1. drained[s] <= position[s] /\ drained[s] \in Nat /\ position[s] \in Nat
          /\ queue[s] \subseteq drained[s] + 1 .. position[s]
      BY Streams DEF MarksInv
    <3>2. \A m \in DOMAIN origins : origins[m][s] \in Nat /\ origins[m][s] <= drained[s]
      BY <1>1, Constant DEF WriterTypes, Positions
    <3>3. CASE recording
      <4>1. /\ \A i : i \in open'[s] <=> i \in open[s] \/ Fresh(s, i)
            /\ \A i : Fresh(s, i) => Minute(s, i) \in DOMAIN origins'
            /\ DOMAIN origins \subseteq DOMAIN origins'
            /\ \A m \in DOMAIN origins' : origins'[m] = IF m \in DOMAIN origins THEN origins[m] ELSE drained
        BY <1>3, <3>3, DrainFacts
      <4>2. \A m \in DOMAIN origins' : origins'[m][s] <= drained[s] /\ origins'[m][s] \in Nat
        BY <3>1, <3>2, <4>1
      <4>3. \A m \in DOMAIN origins' : origins'[m][s] <= position[s]
        BY <3>1, <4>2
      <4>4. ASSUME NEW i \in open'[s]
            PROVE  /\ sealed[s] < Minute(s, i) /\ Minute(s, i) \in DOMAIN origins'
                   /\ origins'[Minute(s, i)][s] < i
        <5>1. CASE i \in open[s]
          BY <1>1, <4>1, <5>1
        <5>2. CASE Fresh(s, i)
          <6>1. i \in drained[s] + 1 .. position[s] /\ sealed[s] < Minute(s, i) /\ Minute(s, i) \in DOMAIN origins'
            BY <3>1, <4>1, <5>2 DEF Fresh
          <6>2. origins'[Minute(s, i)][s] <= drained[s] /\ origins'[Minute(s, i)][s] \in Nat
            BY <4>2, <6>1
          <6> QED
            BY <3>1, <6>1, <6>2
        <5> QED
          BY <4>1, <4>4, <5>1, <5>2
      <4> QED
        BY <4>3, <4>4
    <3>4. CASE ~recording
      <4>1. open' = open /\ origins' = origins
        BY <1>3, <3>4, DrainFacts
      <4>2. \A m \in DOMAIN origins : origins[m][s] <= position[s]
        BY <3>1, <3>2
      <4> QED
        BY <1>1, <4>1, <4>2
    <3> QED
      BY <3>3, <3>4
  <2> QED
    BY <2>1, <2>2 DEF OriginsInv, Minute
<1>4. CASE ApplyCommand \/ SealPass \/ Stop
  <2>1. UNCHANGED <<log, origins, drained>> /\ Running /\ \E others : Seal(others)
    BY <1>4 DEF ApplyCommand, SealPass, Stop, world, Running
  <2>2. \A s \in Stream : \A i : i \in open'[s] <=> i \in open[s] /\ sealed'[s] < Minute(s, i)
    BY <2>1, SealFacts DEF SealEffect
  <2> QED
    BY <1>1, <2>1, <2>2 DEF OriginsInv, Minute
<1>5. CASE ClearIntent
  <2>1. UNCHANGED <<log, open, sealed, drained>>
        /\ origins' = [m \in {k \in DOMAIN origins : \E s \in Stream : sealed[s] < k} |-> origins[m]]
    BY <1>5 DEF ClearIntent, world
  <2>2. \A s \in Stream : \A i \in open[s] : Minute(s, i) \in DOMAIN origins' /\ origins'[Minute(s, i)] = origins[Minute(s, i)]
    BY <1>1, <2>1
  <2>3. \A m \in DOMAIN origins' : m \in DOMAIN origins /\ origins'[m] = origins[m]
    BY <2>1
  <2> QED
    BY <1>1, <2>1, <2>2, <2>3 DEF OriginsInv, Minute
<1>6. CASE Crash \/ Restart
  <2>1. open' = Nothing /\ origins' = [m \in {} |-> Start]
    BY <1>6 DEF Crash, Restart
  <2>2. \A s \in Stream : open'[s] = {}
    BY <2>1, NothingTyped
  <2> QED
    BY <2>1, <2>2 DEF OriginsInv
<1>7. \/ UNCHANGED <<sealed, origins, drained, open>>
      \/ Drain \/ ApplyCommand \/ SealPass \/ Stop \/ ClearIntent \/ Crash \/ Restart
  BY DEF Next, WriterStep, ReaderStep, PausedPass, CommitPlan, FlushTable, WriteCheckpoint, ReplayRead, ReplayDone,
         GroupRead, Publish, Tick, SendCommand, CommitFails, RollBack, ClearFails, bars
<1> QED
  BY <1>2, <1>3, <1>4, <1>5, <1>6, <1>7

(* What is in a bar was folded.                                               *)
LEMMA FoldedKept ==
  ASSUME WriterTypes, LogInv, MarksInv, ReaderInv, FilesInv, FoldedInv, Next
  PROVE  FoldedInv'
<1>1. /\ \A f \in disk : f.row.entries \subseteq folded[f.row.table]
      /\ \A s \in Stream : /\ open[s] \subseteq folded[s]
                           /\ \A r \in buffer[s] : r.entries \subseteq folded[s]
                           /\ \A r \in plan.rows[s] : r.entries \subseteq folded[s]
  BY DEF FoldedInv
<1>2. \A f \in disk : f.row.table \in Stream
  BY DEF WriterTypes, Row
<1>3. CASE Drain
  <2>1. UNCHANGED <<disk, buffer, plan>>
    BY <1>3 DEF Drain, durable, commit
  <2>2. ASSUME NEW s \in Stream PROVE folded[s] \subseteq folded'[s] /\ open'[s] \subseteq folded'[s]
    BY <1>1, <1>3, DrainFacts
  <2>3. \A f \in disk : f.row.entries \subseteq folded'[f.row.table]
    BY <1>1, <1>2, <2>2
  <2> QED
    BY <1>1, <2>1, <2>2, <2>3 DEF FoldedInv
<1>4. CASE ApplyCommand \/ SealPass \/ Stop
  <2>1. UNCHANGED <<disk, folded, plan>> /\ Running /\ \E others : Seal(others)
    BY <1>4 DEF ApplyCommand, SealPass, Stop, durable, Running
  <2>2. \A s \in Stream : /\ \A i : i \in open'[s] => i \in open[s]
                          /\ \A r \in buffer'[s] \ buffer[s] : r.entries = {i \in open[s] : Minute(s, i) = r.minute}
    BY <2>1, SealFacts DEF SealEffect
  <2>3. \A s \in Stream : \A r \in buffer'[s] : r \in buffer[s] \/ r.entries \subseteq open[s]
    BY <2>2
  <2> QED
    BY <1>1, <2>1, <2>2, <2>3 DEF FoldedInv
<1>5. CASE CommitPlan
  <2>1. UNCHANGED <<disk, folded, open, buffer>> /\ plan'.rows = buffer
    BY <1>5 DEF CommitPlan, durable, bars
  <2> QED
    BY <1>1, <2>1 DEF FoldedInv
<1>6. ASSUME NEW s \in Stream, FlushTable(s) PROVE FoldedInv'
  <2>1. /\ UNCHANGED <<folded, open, plan>> /\ buffer' = [buffer EXCEPT ![s] = {}]
        /\ disk' = disk \cup {[gen |-> plan.generation, row |-> r] : r \in buffer[s]}
        /\ Running
    BY <1>6 DEF FlushTable, history, commit, Running
  <2>2. \A r \in buffer[s] : r.table = s
    BY <2>1 DEF FilesInv, BarsFit
  <2>3. \A t \in Stream : buffer'[t] \subseteq buffer[t]
    BY <2>1 DEF WriterTypes, Rows
  <2>4. \A f \in disk' : f.row.entries \subseteq folded[f.row.table]
    BY <1>1, <2>1, <2>2
  <2> QED
    BY <1>1, <2>1, <2>3, <2>4 DEF FoldedInv
<1>7. CASE CommitFails \/ ClearFails
  <2>1. UNCHANGED <<folded, open>> /\ (buffer' = plan.rows \/ buffer' = buffer) /\ plan' = NoPlan /\ disk' \subseteq disk
    BY <1>7 DEF CommitFails, ClearFails, RollBack, history
  <2>2. \A s \in Stream : plan'.rows[s] = {}
    BY <2>1, NothingTyped DEF NoPlan
  <2>3. \A f \in disk' : f.row.entries \subseteq folded[f.row.table]
    BY <1>1, <2>1
  <2> QED
    BY <1>1, <2>1, <2>2, <2>3 DEF FoldedInv
<1>8. CASE ClearIntent
  <2>1. UNCHANGED <<disk, folded, open, buffer>> /\ plan' = NoPlan
    BY <1>8 DEF ClearIntent, Return, history
  <2>2. \A s \in Stream : plan'.rows[s] = {}
    BY <2>1, NothingTyped DEF NoPlan
  <2> QED
    BY <1>1, <2>1, <2>2 DEF FoldedInv
<1>9. CASE Crash \/ Restart
  <2>1. UNCHANGED folded /\ open' = Nothing /\ buffer' = Nothing /\ plan' = NoPlan /\ disk' \subseteq disk
    BY <1>9 DEF Crash, Restart, Recovered, durable, history
  <2>2. \A s \in Stream : plan'.rows[s] = {} /\ open'[s] = {} /\ buffer'[s] = {}
    BY <2>1, NothingTyped DEF NoPlan
  <2> QED
    BY <1>1, <2>1, <2>2 DEF FoldedInv
<1>10. \/ UNCHANGED <<disk, folded, open, buffer, plan>>
       \/ Drain \/ ApplyCommand \/ SealPass \/ Stop \/ CommitPlan \/ (\E s \in Stream : FlushTable(s))
       \/ CommitFails \/ ClearFails \/ ClearIntent \/ Crash \/ Restart
  BY DEF Next, WriterStep, ReaderStep, PausedPass, WriteCheckpoint, ReplayRead, ReplayDone,
         GroupRead, Publish, Tick, SendCommand, durable, bars, commit, history
<1>11. ASSUME UNCHANGED <<disk, folded, open, buffer, plan>> PROVE FoldedInv'
  BY <1>11 DEF FoldedInv
<1> QED
  BY <1>3, <1>4, <1>5, <1>6, <1>7, <1>8, <1>9, <1>10, <1>11

-----------------------------------------------------------------------------
(* The files of a generation: which are there, what may not be there twice,   *)
(* and, while it is written, what is left in the buffers.                     *)
LEMMA FilesKept ==
  ASSUME WriterTypes, LogInv, MarksInv, ReaderInv, SealedInv, OriginsInv, FilesInv, Next
  PROVE  FilesInv'
<1>1. /\ \A f \in disk : f.gen > checkpoint.generation => intent = f.gen
      /\ \A f, g \in disk : f.row.table = g.row.table /\ f.row.minute = g.row.minute => f = g
      /\ \A f \in disk : f.gen <= checkpoint.generation => f.row.minute <= checkpoint.sealed[f.row.table]
  BY DEF FilesInv, UncommittedIsPlanned, NeverDoubled
<1>2. Running =>
       /\ generation = checkpoint.generation
       /\ \A f \in disk : f.gen <= generation \/ (pc = "files" /\ f.gen = plan.generation)
       /\ \A f \in disk : f.row.minute <= sealed[f.row.table] /\ NewTo(f.row, buffer[f.row.table])
       /\ \A s \in Stream : BarsFit(s, buffer[s])
       /\ pc = "files" => plan.generation = generation + 1 /\ intent = plan.generation
       /\ pc = "clear" => plan.generation = generation /\ buffer = Nothing
  BY DEF FilesInv
<1>3. pc \in {"files", "clear"} =>
        /\ \A s \in Stream : BarsFit(s, plan.rows[s]) /\ buffer[s] \subseteq plan.rows[s]
        /\ \A f \in disk : IF f.gen = plan.generation THEN f.row \in plan.rows[f.row.table]
                                                      ELSE NewTo(f.row, plan.rows[f.row.table])
  BY DEF FilesInv, Running
<1>4. /\ \A f \in disk : f.gen \in Nat /\ f.row \in Row /\ f.row.table \in Stream /\ f.row.minute \in 1 .. MaxTime
      /\ \A s \in Stream : \A r \in buffer[s] : r \in Row /\ r.minute \in 1 .. MaxTime
      /\ checkpoint.generation \in Nat /\ generation \in Nat /\ plan.generation \in Nat
  <2>1. \A f \in disk : f.gen \in Nat /\ f.row \in Row
    BY DEF WriterTypes
  <2>2. \A s \in Stream : \A r \in buffer[s] : r \in Row
    BY DEF WriterTypes, Rows
  <2>3. checkpoint.generation \in Nat /\ generation \in Nat /\ plan.generation \in Nat
    BY DEF WriterTypes
  <2> QED
    BY <2>1, <2>2, <2>3 DEF Row
<1>5. ASSUME UNCHANGED <<disk, checkpoint, intent, generation, sealed, buffer, plan>>,
             pc' = pc \/ (Running /\ pc # "files" /\ pc' \notin {"files", "clear"})
      PROVE  FilesInv'
  BY <1>1, <1>2, <1>3, <1>5 DEF FilesInv, UncommittedIsPlanned, NeverDoubled, Running, BarsFit
<1>6. CASE \/ (\E s \in Stream : Publish(s)) \/ Tick \/ SendCommand \/ ReplayRead \/ ReplayDone \/ GroupRead
           \/ Drain \/ PausedPass
  <2>1. UNCHANGED <<disk, checkpoint, intent, generation, sealed, buffer, plan>>
    BY <1>6 DEF Publish, Tick, SendCommand, ReplayRead, ReplayDone, GroupRead, Drain, PausedPass,
                durable, bars, commit
  <2>2. pc' = pc \/ (Running /\ pc # "files" /\ pc' \notin {"files", "clear"})
    BY <1>6 DEF Publish, Tick, SendCommand, ReplayRead, ReplayDone, GroupRead, Drain, PausedPass, Park, Running
  <2> QED
    BY <1>5, <2>1, <2>2
<1>7. CASE ApplyCommand \/ SealPass \/ Stop
  <2>1. /\ UNCHANGED <<disk, checkpoint, intent, generation, plan>> /\ Running /\ \E others : Seal(others)
        /\ pc # "files" /\ pc # "clear" /\ pc' \notin {"files", "clear"}
    BY <1>7 DEF ApplyCommand, SealPass, Park, Stop, durable, Running
  <2>2. \A s \in Stream :
           /\ sealed[s] <= sealed'[s] /\ sealed'[s] \in 0 .. MaxTime
           /\ buffer[s] \subseteq buffer'[s] /\ buffer'[s] \subseteq Row
           /\ \A r \in buffer'[s] \ buffer[s] :
                /\ r.table = s /\ r.minute <= sealed'[s]
                /\ r.entries = {i \in open[s] : Minute(s, i) = r.minute} /\ r.entries # {}
    BY <2>1, SealFacts DEF SealEffect, Marks, Rows
  <2>3. \A s \in Stream : \A r \in buffer'[s] \ buffer[s] : sealed[s] < r.minute
    <3> SUFFICES ASSUME NEW s \in Stream, NEW r \in buffer'[s] \ buffer[s] PROVE sealed[s] < r.minute
      OBVIOUS
    <3>1. PICK i \in open[s] : Minute(s, i) = r.minute
      BY <2>2
    <3> QED
      BY <3>1 DEF OriginsInv
  <2>4. \A f \in disk : f.row.minute <= sealed'[f.row.table]
    <3> SUFFICES ASSUME NEW f \in disk PROVE f.row.minute <= sealed'[f.row.table]
      OBVIOUS
    <3>1. /\ f.row.minute <= sealed[f.row.table] /\ sealed[f.row.table] <= sealed'[f.row.table]
          /\ f.row.minute \in Nat /\ sealed[f.row.table] \in Nat /\ sealed'[f.row.table] \in Nat
      BY <1>2, <1>4, <2>1, <2>2, Streams, Constant
    <3> QED
      BY <3>1
  <2>5. \A f \in disk : NewTo(f.row, buffer'[f.row.table])
    <3> SUFFICES ASSUME NEW f \in disk, NEW r \in buffer'[f.row.table] PROVE r.minute # f.row.minute
      BY DEF NewTo
    <3>1. CASE r \in buffer[f.row.table]
      BY <1>2, <2>1, <3>1 DEF NewTo
    <3>2. CASE r \notin buffer[f.row.table]
      <4>1. sealed[f.row.table] < r.minute /\ f.row.minute <= sealed[f.row.table]
        BY <1>2, <1>4, <2>1, <2>3, <3>2
      <4>2. sealed[f.row.table] \in Nat /\ f.row.minute \in Nat
        BY <1>4, Streams, Constant
      <4>3. r.minute \in Nat
        BY <1>4, <2>2, Constant DEF Row
      <4> QED
        BY <4>1, <4>2, <4>3
    <3> QED
      BY <3>1, <3>2
  <2>6. ASSUME NEW s \in Stream
        PROVE  /\ \A r \in buffer'[s] : r.table = s /\ r.minute <= sealed'[s]
               /\ \A r, q \in buffer'[s] : r.minute = q.minute => r = q
    <3>1. /\ \A r \in buffer[s] : r.table = s /\ r.minute <= sealed[s]
          /\ \A r, q \in buffer[s] : r.minute = q.minute => r = q
      BY <1>2, <2>1 DEF BarsFit
    <3>2. sealed[s] \in Nat /\ sealed'[s] \in Nat /\ sealed[s] <= sealed'[s]
      BY <2>2, Streams, Constant
    <3>3. \A r \in buffer'[s] : r \in Row /\ r.minute \in Nat
      BY <2>2, Constant DEF Row
    <3>4. \A r \in buffer[s] : r.minute <= sealed'[s] /\ r \in buffer'[s]
      BY <2>2, <3>1, <3>2, <3>3
    <3>5. ASSUME NEW r \in buffer'[s], NEW q \in buffer'[s], r.minute = q.minute PROVE r = q
      <4>1. CASE r \in buffer[s] /\ q \in buffer[s]
        BY <3>1, <3>5, <4>1
      <4>2. CASE r \in buffer[s] /\ q \notin buffer[s]
        BY <2>3, <3>1, <3>2, <3>3, <3>5, <4>2
      <4>3. CASE r \notin buffer[s] /\ q \in buffer[s]
        BY <2>3, <3>1, <3>2, <3>3, <3>5, <4>3
      <4>4. CASE r \notin buffer[s] /\ q \notin buffer[s]
        <5> DEFINE Part(m) == {i \in open[s] : Minute(s, i) = m}
        <5>a. r.entries = Part(r.minute) /\ q.entries = Part(q.minute) /\ r.table = s /\ q.table = s
          BY <2>2, <4>4
        <5> HIDE DEF Part
        <5>1. r.entries = q.entries /\ r.table = q.table
          BY <3>5, <5>a
        <5>2. \A x \in Row : x = [table |-> x.table, minute |-> x.minute, entries |-> x.entries]
          BY DEF Row
        <5>3. r \in Row /\ q \in Row
          BY <3>3
        <5>4. /\ r = [table |-> r.table, minute |-> r.minute, entries |-> r.entries]
              /\ q = [table |-> q.table, minute |-> q.minute, entries |-> q.entries]
          BY <5>2, <5>3
        <5> QED
          BY <3>5, <5>1, <5>4
      <4> QED
        BY <4>1, <4>2, <4>3, <4>4
    <3> QED
      BY <2>2, <3>1, <3>4, <3>5
  <2> QED
    BY <1>1, <1>2, <2>1, <2>4, <2>5, <2>6 DEF FilesInv, UncommittedIsPlanned, NeverDoubled, BarsFit
<1>8. CASE CommitPlan
  <2>1. /\ UNCHANGED <<disk, checkpoint, generation, sealed, buffer>> /\ pc = "plan" /\ Running /\ pc' = "files"
        /\ plan'.generation = generation + 1 /\ plan'.rows = buffer /\ intent' = generation + 1
    BY <1>8 DEF CommitPlan, bars, Running
  <2>2. \A f \in disk : f.gen <= generation /\ f.gen # generation + 1
    BY <1>2, <1>4, <2>1
  <2>3. \A f \in disk : ~(f.gen > checkpoint.generation)
    BY <1>2, <1>4, <2>1, <2>2
  <2> QED
    BY <1>1, <1>2, <2>1, <2>2, <2>3 DEF FilesInv, UncommittedIsPlanned, NeverDoubled, BarsFit, NewTo
<1>9. ASSUME NEW s \in Stream, FlushTable(s) PROVE FilesInv'
  <2>1. /\ UNCHANGED <<checkpoint, intent, generation, sealed, plan, pc>> /\ pc = "files" /\ Running
        /\ disk' = disk \cup {[gen |-> plan.generation, row |-> r] : r \in buffer[s]}
        /\ buffer' = [buffer EXCEPT ![s] = {}]
    BY <1>9 DEF FlushTable, commit, Running
  <2>2. /\ \A t \in Stream : buffer'[t] \subseteq buffer[t]
        /\ buffer'[s] = {}
    BY <2>1 DEF WriterTypes, Rows
  <2>3. \A f \in disk' : f \in disk \/ (f.gen = plan.generation /\ f.row \in buffer[s])
    BY <2>1
  <2>4. plan.generation = checkpoint.generation + 1 /\ intent = plan.generation
    BY <1>2, <2>1
  <2>5. \A r \in buffer[s] : r.table = s /\ r.minute <= sealed[s]
    BY <1>2, <2>1 DEF BarsFit
  <2>6. UncommittedIsPlanned'
    BY <1>1, <2>1, <2>3, <2>4 DEF UncommittedIsPlanned
  <2>7. NeverDoubled'
    <3> SUFFICES ASSUME NEW f \in disk', NEW g \in disk', f.row.table = g.row.table, f.row.minute = g.row.minute
                 PROVE  f = g
      BY DEF NeverDoubled
    <3>1. CASE f \in disk /\ g \in disk
      BY <1>1, <3>1
    <3>2. ASSUME NEW a \in disk, NEW b \in disk' \ disk, a.row.table = b.row.table, a.row.minute = b.row.minute
          PROVE  FALSE
      <4>1. b.row \in buffer[a.row.table]
        BY <2>3, <2>5, <3>2
      <4> QED
        BY <1>2, <2>1, <3>2, <4>1 DEF NewTo
    <3>3. CASE f \notin disk /\ g \notin disk
      <4>1. PICK r \in buffer[s] : f = [gen |-> plan.generation, row |-> r]
        BY <2>1, <3>3
      <4>2. PICK q \in buffer[s] : g = [gen |-> plan.generation, row |-> q]
        BY <2>1, <3>3
      <4>3. r.minute = q.minute
        BY <4>1, <4>2
      <4>4. r = q
        BY <1>2, <2>1, <4>3 DEF BarsFit
      <4> QED
        BY <4>1, <4>2, <4>4
    <3> QED
      BY <3>1, <3>2, <3>3
  <2>8. \A f \in disk' : f.gen <= checkpoint.generation => f.row.minute <= checkpoint.sealed[f.row.table]
    BY <1>1, <1>4, <2>3, <2>4
  <2>9. \A f \in disk' : f.gen <= generation \/ f.gen = plan.generation
    BY <1>2, <2>1, <2>3
  <2>10. \A f \in disk' : f.row.minute <= sealed[f.row.table] /\ NewTo(f.row, buffer'[f.row.table])
    <3> SUFFICES ASSUME NEW f \in disk'
                 PROVE  f.row.minute <= sealed[f.row.table] /\ NewTo(f.row, buffer'[f.row.table])
      OBVIOUS
    <3>1. CASE f \in disk
      BY <1>2, <1>4, <2>1, <2>2, <3>1 DEF NewTo
    <3>2. CASE f \notin disk
      BY <2>2, <2>3, <2>5, <3>2 DEF NewTo
    <3> QED
      BY <3>1, <3>2
  <2>11. \A t \in Stream : /\ \A r \in buffer'[t] : r.table = t /\ r.minute <= sealed[t]
                           /\ \A r, q \in buffer'[t] : r.minute = q.minute => r = q
    BY <1>2, <2>1, <2>2 DEF BarsFit
  <2>12. \A t \in Stream : BarsFit(t, plan.rows[t]) /\ buffer'[t] \subseteq plan.rows[t]
    BY <1>3, <2>1, <2>2
  <2>13. \A f \in disk' : IF f.gen = plan.generation THEN f.row \in plan.rows[f.row.table]
                                                     ELSE NewTo(f.row, plan.rows[f.row.table])
    <3> SUFFICES ASSUME NEW f \in disk', f \notin disk
                 PROVE  f.gen = plan.generation /\ f.row \in plan.rows[f.row.table]
      BY <1>3, <2>1
    <3> QED
      BY <1>3, <2>1, <2>3, <2>5
  <2> QED
    BY <1>2, <2>1, <2>6, <2>7, <2>8, <2>9, <2>10, <2>11, <2>12, <2>13 DEF FilesInv, BarsFit
<1>10. CASE WriteCheckpoint
  <2>1. /\ UNCHANGED <<disk, intent, sealed, buffer, plan>> /\ pc = "files" /\ Running /\ pc' = "clear"
        /\ checkpoint'.generation = plan.generation /\ checkpoint'.sealed = plan.sealed
        /\ generation' = plan.generation /\ buffer = Nothing
    BY <1>10 DEF WriteCheckpoint, bars, Running
  <2>2. plan.sealed = sealed /\ plan.generation = generation + 1
    BY <1>2, <2>1 DEF SealedInv
  <2>3. \A f \in disk : f.gen <= plan.generation
    BY <1>2, <1>4, <2>1, <2>2
  <2>4. \A f \in disk : ~(f.gen > plan.generation)
    BY <1>4, <2>3
  <2> QED
    BY <1>1, <1>2, <1>3, <2>1, <2>2, <2>3, <2>4 DEF FilesInv, UncommittedIsPlanned, NeverDoubled, BarsFit
<1>11. CASE ClearIntent
  <2>1. UNCHANGED <<disk, checkpoint, generation, sealed, buffer>> /\ pc = "clear" /\ Running /\ pc' \notin {"files", "clear"}
    BY <1>11, Returns DEF ClearIntent, Running
  <2>2. \A f \in disk : ~(f.gen > checkpoint.generation) /\ f.gen <= generation
    BY <1>2, <1>4, <2>1
  <2> QED
    BY <1>1, <1>2, <2>1, <2>2 DEF FilesInv, UncommittedIsPlanned, NeverDoubled, BarsFit
<1>12. CASE CommitFails \/ ClearFails
  <2>1. /\ UNCHANGED <<checkpoint, generation, sealed>> /\ pc \in {"files", "clear"} /\ Running /\ pc' \notin {"files", "clear"}
        /\ disk' = {f \in disk : f.gen # plan.generation} /\ (buffer' = plan.rows \/ (buffer' = buffer /\ pc = "clear"))
    BY <1>12, Returns DEF CommitFails, ClearFails, RollBack, Running
  <2>2. \A f \in disk' : f \in disk /\ f.gen <= generation /\ ~(f.gen > checkpoint.generation)
    BY <1>2, <1>4, <2>1
  <2>3. \A f \in disk' : f.row.minute <= sealed[f.row.table] /\ NewTo(f.row, buffer'[f.row.table])
    BY <1>2, <1>3, <2>1
  <2>4. \A s \in Stream : BarsFit(s, buffer'[s])
    BY <1>2, <1>3, <2>1
  <2> QED
    BY <1>1, <1>2, <2>1, <2>2, <2>3, <2>4 DEF FilesInv, UncommittedIsPlanned, NeverDoubled, BarsFit
<1>13. CASE Crash
  <2>1. UNCHANGED <<disk, checkpoint, intent>> /\ pc' = "down"
    BY <1>13 DEF Crash, durable
  <2> QED
    BY <1>1, <2>1 DEF FilesInv, UncommittedIsPlanned, NeverDoubled, Running
<1>14. CASE Restart
  <2>1. /\ UNCHANGED checkpoint /\ disk' = Recovered /\ generation' = checkpoint.generation
        /\ sealed' = checkpoint.sealed /\ buffer' = Nothing /\ pc' = "take"
    BY <1>14 DEF Restart, Watermarks
  <2>2. \A f \in disk' : f \in disk /\ f.gen <= checkpoint.generation /\ ~(f.gen > checkpoint.generation)
    BY <1>1, <1>4, <2>1 DEF Recovered
  <2>3. \A s \in Stream : buffer'[s] = {}
    BY <2>1, NothingTyped
  <2>4. \A f \in disk' : f.row.minute <= sealed'[f.row.table] /\ NewTo(f.row, buffer'[f.row.table])
    BY <1>1, <1>4, <2>1, <2>2, <2>3 DEF NewTo
  <2> QED
    BY <1>1, <2>1, <2>2, <2>3, <2>4 DEF FilesInv, UncommittedIsPlanned, NeverDoubled, BarsFit
<1> QED
  BY <1>6, <1>7, <1>8, <1>9, <1>10, <1>11, <1>12, <1>13, <1>14 DEF Next, WriterStep, ReaderStep

-----------------------------------------------------------------------------
(* What Redis and the history have they keep.                                 *)
LEMMA Grown ==
  ASSUME WriterTypes, WriterTypes', LogInv, MarksInv, ReaderInv, Next
  PROVE  /\ lapses \subseteq lapses'
         /\ \A s \in Stream : /\ handed[s] <= handed'[s] /\ handed'[s] \in 0 .. MaxEntries
                              /\ folded[s] \subseteq folded'[s] /\ dropped[s] \subseteq dropped'[s]
<1>1. lapses \subseteq lapses'
  BY DEF Next, WriterStep, ReaderStep, Drain, ApplyCommand, PausedPass, SealPass, Seal, CommitPlan, FlushTable,
         WriteCheckpoint, ClearIntent, ReplayRead, ReplayDone, GroupRead, Restart, SendCommand, Publish, Tick,
         CommitFails, ClearFails, Stop, Crash, history
<1>2. \A s \in Stream : handed'[s] \in 0 .. MaxEntries /\ handed[s] \in 0 .. MaxEntries
  BY DEF WriterTypes, Positions
<1>3. ASSUME UNCHANGED <<handed, folded, dropped>>
      PROVE  \A s \in Stream : /\ handed[s] <= handed'[s]
                               /\ folded[s] \subseteq folded'[s] /\ dropped[s] \subseteq dropped'[s]
  BY <1>2, <1>3, Constant
<1>4. CASE ReplayRead \/ GroupRead
  <2>1. folded' = folded
    BY <1>4 DEF ReplayRead, GroupRead
  <2>2. \A s \in Stream : handed[s] <= handed'[s] /\ dropped[s] \subseteq dropped'[s]
    BY <1>4, ReadFacts DEF Skipped
  <2> QED
    BY <1>1, <1>2, <2>1, <2>2
<1>5. CASE Drain
  <2>1. handed' = handed
    BY <1>5 DEF Drain
  <2>2. \A s \in Stream : folded[s] \subseteq folded'[s] /\ dropped[s] \subseteq dropped'[s]
    <3>1. CASE recording
      BY <1>5, <3>1, DrainFacts
    <3>2. CASE ~recording
      BY <1>5, <3>2, DrainFacts
    <3> QED
      BY <3>1, <3>2
  <2> QED
    BY <1>1, <1>2, <2>1, <2>2, Constant
<1>6. UNCHANGED <<handed, folded, dropped>> \/ ReplayRead \/ GroupRead \/ Drain
  BY DEF Next, WriterStep, ReaderStep, ApplyCommand, PausedPass, SealPass, CommitPlan, FlushTable,
         WriteCheckpoint, ClearIntent, ReplayDone, Restart, SendCommand, Publish, Tick,
         CommitFails, ClearFails, Stop, Crash, history
<1> QED
  BY <1>1, <1>2, <1>3, <1>4, <1>5, <1>6

(* A list that fits goes on fitting.                                          *)
FitNext(list, on) ==
  /\ \A k \in DOMAIN list : IsOpen(list[k]) \/ \A s \in Stream : list[k].to[s] <= handed'[s]
  /\ IF on THEN \A k \in DOMAIN list : ~IsOpen(list[k])
     ELSE \E k \in DOMAIN list :
            /\ IsOpen(list[k]) /\ \A l \in DOMAIN list : IsOpen(list[l]) => l = k
            /\ \A s \in Stream : \A i \in 1 .. list[k].from[s] : i \in folded'[s] \cup dropped'[s]
LEMMA FitGrows ==
  ASSUME WriterTypes, WriterTypes', LogInv, MarksInv, ReaderInv, Next,
         NEW list \in Seq(Span), NEW on \in BOOLEAN
  PROVE  /\ SpansFit(list, on) => FitNext(list, on)
         /\ Closed(list) => \A k \in DOMAIN list : IsOpen(list[k]) \/ \A s \in Stream : list[k].to[s] <= handed'[s]
<1>1. \A s \in Stream : /\ handed[s] <= handed'[s] /\ handed[s] \in Nat /\ handed'[s] \in Nat
                        /\ folded[s] \cup dropped[s] \subseteq folded'[s] \cup dropped'[s]
  BY Grown, Streams, Constant
<1>2. \A k \in DOMAIN list : \A s \in Stream : list[k].to[s] \in Nat
  <2>1. \A k \in DOMAIN list : list[k] \in Span
    OBVIOUS
  <2>2. \A k \in DOMAIN list : list[k].to \in [Stream -> 0 .. Open]
    BY <2>1 DEF Span
  <2> QED
    BY <2>2, Constant
<1>3. Closed(list) => \A k \in DOMAIN list : IsOpen(list[k]) \/ \A s \in Stream : list[k].to[s] <= handed'[s]
  BY <1>1, <1>2 DEF Closed
<1>4. CASE on
  BY <1>3, <1>4 DEF SpansFit, FitNext
<1>5. CASE ~on
  <2> SUFFICES ASSUME SpansFit(list, on) PROVE FitNext(list, on)
    BY <1>3
  <2>1. PICK k \in DOMAIN list :
            /\ IsOpen(list[k]) /\ \A l \in DOMAIN list : IsOpen(list[l]) => l = k
            /\ \A s \in Stream : \A i \in 1 .. list[k].from[s] : i \in folded[s] \cup dropped[s]
    BY <1>5 DEF SpansFit
  <2>2. \A s \in Stream : \A i \in 1 .. list[k].from[s] : i \in folded'[s] \cup dropped'[s]
    BY <1>1, <2>1
  <2> QED
    BY <1>3, <1>5, <2>1, <2>2 DEF SpansFit, FitNext
<1> QED
  BY <1>3, <1>4, <1>5

(* An open span is no closed one.                                             *)
LEMMA OpenIsUnbounded ==
  ASSUME WriterTypes
  PROVE  /\ position # Everywhere(Open)
         /\ \A s \in Stream : Everywhere(Open)[s] = Open /\ handed[s] < Open /\ position[s] < Open
<1>1. PICK s \in Stream : TRUE
  BY Constant
<1>2. \A r \in Stream : position[r] <= MaxEntries /\ handed[r] <= MaxEntries /\ position[r] \in Nat /\ handed[r] \in Nat
  BY Streams
<1>3. \A r \in Stream : Everywhere(Open)[r] = Open /\ handed[r] < Open /\ position[r] < Open
  BY <1>2, Constant DEF Everywhere
<1> QED
  BY <1>1, <1>2, <1>3, Constant

(* With no lapse, the list of spans is right at every moment.                 *)
LEMMA SpansKept ==
  ASSUME WriterTypes, WriterTypes', LogInv, MarksInv, ReaderInv, FoldedInv, FilesInv,
         SpansInv, MemoryInv, Next, lapses = {}, lapses' = {}
  PROVE  SpansInv'
<1>1. /\ checkpoint.spans \in Seq(Span) /\ checkpoint.recording \in BOOLEAN
      /\ spans \in Seq(Span) /\ skip \in Seq(Span) /\ recording \in BOOLEAN
  BY DEF WriterTypes
<1>2. /\ FitNext(checkpoint.spans, checkpoint.recording)
      /\ Running => FitNext(spans, recording)
      /\ Running => \A k \in DOMAIN skip : IsOpen(skip[k]) \/ \A s \in Stream : skip[k].to[s] <= handed'[s]
  BY <1>1, FitGrows DEF SpansInv
<1>3. FitNext(checkpoint.spans, checkpoint.recording) =>
        \A k \in DOMAIN checkpoint.spans : IsOpen(checkpoint.spans[k])
                                           \/ \A s \in Stream : checkpoint.spans[k].to[s] <= handed'[s]
  BY DEF FitNext
<1>4. ASSUME UNCHANGED <<checkpoint, recording, spans, skip>>, replaying' => replaying,
             Running' => Running, Running => (Commanding => Commanding')
      PROVE  SpansInv'
  BY <1>2, <1>4 DEF SpansInv, SpansFit, Closed, FitNext, IsOpen
<1>5. CASE \/ (\E s \in Stream : Publish(s)) \/ Tick \/ SendCommand \/ ReplayRead \/ ReplayDone \/ GroupRead
           \/ Drain \/ PausedPass \/ SealPass \/ CommitPlan \/ (\E s \in Stream : FlushTable(s))
           \/ ClearIntent \/ Stop
  <2>1. UNCHANGED <<checkpoint, recording, spans, skip>>
    BY <1>5 DEF Publish, Tick, SendCommand, ReplayRead, ReplayDone, GroupRead, Drain, PausedPass, SealPass,
                CommitPlan, FlushTable, ClearIntent, Stop, durable, reader, control
  <2>4. replaying' => replaying
    <3>1. replaying' = replaying \/ replaying' = FALSE
      BY <1>5 DEF Publish, Tick, SendCommand, ReplayRead, ReplayDone, GroupRead, Drain, PausedPass, SealPass,
                  CommitPlan, FlushTable, ClearIntent, Stop, reader
    <3> QED
      BY <3>1
  <2>2. Running' => Running
    BY <1>5 DEF Publish, Tick, SendCommand, ReplayRead, ReplayDone, GroupRead, Drain, PausedPass, SealPass,
                CommitPlan, FlushTable, ClearIntent, Stop, Running, LoopIsFree
  <2>3. Commanding => Commanding'
    BY <1>5 DEF Publish, Tick, SendCommand, ReplayRead, ReplayDone, GroupRead, Drain, PausedPass, SealPass,
                CommitPlan, FlushTable, ClearIntent, Stop, Commanding, commit
  <2> QED
    BY <1>4, <2>1, <2>2, <2>3, <2>4
<1>6. CASE CommitFails
  <2>1. UNCHANGED <<checkpoint, recording, spans, skip, replaying>> /\ Running /\ pc = "files"
    BY <1>6 DEF CommitFails, reader, control, Running
  <2>2. after # "commands"
    BY <1>6 DEF CommitFails, Lapse
  <2>3. ~Commanding
    BY <2>2 DEF Commanding
  <2> QED
    BY <1>4, <2>1, <2>3
<1>7. CASE ClearFails
  BY <1>7 DEF ClearFails
<1>8. CASE ApplyCommand
  <2>1. /\ UNCHANGED <<checkpoint, skip, replaying, handed, position, folded, dropped>> /\ Running
        /\ pc' = "plan" /\ after' = "commands" /\ pc = "sync"
    BY <1>8 DEF ApplyCommand, durable, reader, Running
  <2>2. /\ QueueEmpty /\ ~replaying
        /\ Head(pending) = "pause" => OpenSpans = {}
    <3>1. Lapse("misplaced", ~QueueEmpty) \cup Lapse("premature", replaying) \cup
          Lapse("nested", Head(pending) = "pause" /\ OpenSpans # {}) = {}
      BY <1>8 DEF ApplyCommand, Seal
    <3> QED
      BY <3>1 DEF Lapse
  <2>3. FitNext(spans', recording')
    <3>1. OpenSpans = {k \in DOMAIN spans : IsOpen(spans[k])}
      BY DEF OpenSpans, IsOpen
    <3>2. FitNext(spans, recording)
      BY <1>2, <2>1
    <3>3. CASE Head(pending) = "pause"
      <4> DEFINE e == [from |-> position, to |-> Everywhere(Open)]
                 n == Len(spans) + 1
      <4>1. recording' = FALSE /\ spans' = Append(spans, e)
        BY <1>8, <3>3 DEF ApplyCommand
      <4>2. e \in Span
        <5>1. position \in Positions
          BY DEF WriterTypes
        <5>2. Everywhere(Open) \in [Stream -> 0 .. Open]
          BY Constant DEF Everywhere
        <5> QED
          BY <5>1, <5>2 DEF Span
      <4>3. IsOpen(e) /\ e.from = position
        BY DEF IsOpen
      <4> HIDE DEF e
      <4>4. /\ DOMAIN spans' = 1 .. n /\ n \in Nat /\ spans'[n] = e
            /\ \A k \in DOMAIN spans : k \in 1 .. n /\ k # n /\ spans'[k] = spans[k]
            /\ \A k \in 1 .. n : k # n => k \in DOMAIN spans
        BY <1>1, <4>1, <4>2
      <4>5. \A k \in DOMAIN spans : ~IsOpen(spans[k])
        BY <2>2, <3>1, <3>3
      <4>6. \A s \in Stream : \A i \in 1 .. position[s] : i \in folded'[s] \cup dropped'[s]
        <5> SUFFICES ASSUME NEW s \in Stream, NEW i \in 1 .. position[s] PROVE i \in folded[s] \cup dropped[s]
          BY <2>1
        <5>1. i \in 1 .. Length(s) /\ i <= position[s]
          <6>1. position[s] <= handed[s] /\ handed[s] <= Length(s)
            BY DEF MarksInv
          <6> QED
            BY <6>1, Streams
        <5>2. queue[s] = {}
          BY <2>2 DEF QueueEmpty, Nothing
        <5>3. i \in open[s] \/ Stored(s, i)
          BY <2>1, <5>1, <5>2 DEF MemoryInv
        <5> QED
          BY <5>3 DEF FoldedInv, Stored, InABar
      <4>7. \A k \in DOMAIN spans' : IsOpen(spans'[k]) \/ \A s \in Stream : spans'[k].to[s] <= handed'[s]
        BY <3>2, <4>3, <4>4 DEF FitNext
      <4>8. /\ n \in DOMAIN spans' /\ IsOpen(spans'[n]) /\ \A l \in DOMAIN spans' : IsOpen(spans'[l]) => l = n
            /\ \A s \in Stream : \A i \in 1 .. spans'[n].from[s] : i \in folded'[s] \cup dropped'[s]
        BY <4>3, <4>4, <4>5, <4>6
      <4> QED
        BY <4>1, <4>7, <4>8 DEF FitNext
    <3>4. CASE Head(pending) # "pause"
      <4>1. /\ recording' = TRUE
            /\ spans' = IF OpenSpans = {} THEN spans ELSE [spans EXCEPT ![MaxOf(OpenSpans)].to = position]
        BY <1>8, <3>4 DEF ApplyCommand
      <4>2. CASE OpenSpans = {}
        BY <3>1, <3>2, <4>1, <4>2 DEF FitNext
      <4>3. CASE OpenSpans # {}
        <5>1. PICK k \in DOMAIN spans : IsOpen(spans[k]) /\ \A l \in DOMAIN spans : IsOpen(spans[l]) => l = k
          BY <3>1, <3>2, <4>3 DEF FitNext
        <5>2. OpenSpans = {k} /\ k \in Nat
          BY <1>1, <3>1, <5>1
        <5>3. MaxOf({k}) = k
          BY <5>2 DEF MaxOf
        <5>4. spans' = [spans EXCEPT ![k].to = position]
          BY <4>1, <4>3, <5>2, <5>3
        <5>5. /\ DOMAIN spans' = DOMAIN spans /\ spans'[k].to = position
              /\ \A l \in DOMAIN spans : l # k => spans'[l] = spans[l]
          <6>1. spans[k] \in Span
            BY <1>1
          <6> QED
            BY <1>1, <5>4, <6>1 DEF Span
        <5>6. position # Everywhere(Open) /\ \A s \in Stream : position[s] <= handed[s]
          BY OpenIsUnbounded DEF MarksInv
        <5>7. \A l \in DOMAIN spans' : ~IsOpen(spans'[l])
          BY <5>1, <5>5, <5>6 DEF IsOpen
        <5>8. \A l \in DOMAIN spans' : IsOpen(spans'[l]) \/ \A s \in Stream : spans'[l].to[s] <= handed'[s]
          BY <2>1, <3>2, <5>5, <5>6, <5>1 DEF FitNext
        <5> QED
          BY <4>1, <5>7, <5>8 DEF FitNext
      <4> QED
        BY <4>2, <4>3
    <3> QED
      BY <3>3, <3>4
  <2> QED
    BY <1>2, <2>1, <2>2, <2>3 DEF SpansInv, SpansFit, Closed, FitNext, Commanding
<1>9. CASE WriteCheckpoint
  <2>1. /\ UNCHANGED <<recording, spans, skip, replaying>> /\ Running
        /\ checkpoint'.spans = spans /\ checkpoint'.recording = recording
    BY <1>9 DEF WriteCheckpoint, reader, control, Running
  <2>2. replaying => spans = skip
    BY <2>1 DEF SpansInv
  <2> QED
    BY <1>2, <2>1, <2>2 DEF SpansInv, SpansFit, Closed, FitNext
<1>10. CASE Crash
  <2>1. checkpoint' = checkpoint /\ ~Running'
    BY <1>10 DEF Crash, Running, durable
  <2> QED
    BY <1>2, <2>1 DEF SpansInv, SpansFit, Closed, FitNext
<1>11. CASE Restart
  <2>1. checkpoint' = checkpoint /\ spans' = checkpoint.spans /\ skip' = checkpoint.spans
        /\ recording' = checkpoint.recording
    BY <1>11 DEF Restart
  <2> QED
    BY <1>2, <1>3, <2>1 DEF SpansInv, SpansFit, Closed, FitNext
<1> QED
  BY <1>5, <1>6, <1>7, <1>8, <1>9, <1>10, <1>11 DEF Next, WriterStep, ReaderStep

-----------------------------------------------------------------------------
(* What is published is past every mark and not yet sealed.                   *)
LEMMA Published ==
  ASSUME WriterTypes, LogInv, MarksInv, SealedInv, NEW s \in Stream, Publish(s)
  PROVE  \A r \in Stream : \A i \in 1 .. Len(log'[r]) :
           \/ i \in 1 .. Length(r) /\ log'[r][i].minute = Minute(r, i)
           \/ /\ handed[r] < i /\ position[r] < i /\ i \notin dropped[r] /\ i \notin folded[r]
              /\ i \notin queue[r] /\ i \notin open[r] /\ checkpoint.positions[r] < i
              /\ ~(log'[r][i].minute <= sealed[r]) /\ ~(log'[r][i].minute <= checkpoint.sealed[r])
<1> SUFFICES ASSUME NEW r \in Stream, NEW i \in 1 .. Len(log'[r])
             PROVE  \/ i \in 1 .. Len(log[r]) /\ log'[r][i].minute = log[r][i].minute
                    \/ /\ handed[r] < i /\ position[r] < i /\ i \notin dropped[r] /\ i \notin folded[r]
                       /\ i \notin queue[r] /\ i \notin open[r] /\ checkpoint.positions[r] < i
                       /\ ~(log'[r][i].minute <= sealed[r]) /\ ~(log'[r][i].minute <= checkpoint.sealed[r])
  BY DEF Length, Minute
<1>1. PICK m \in 1 .. now : /\ now <= m + Grace[s]
                            /\ log' = [log EXCEPT ![s] = Append(@, [at |-> now, minute |-> m])]
  BY DEF Publish
<1>2. CASE r # s
  <2>1. log'[r] = log[r]
    BY <1>1, <1>2 DEF WriterTypes
  <2> QED
    BY <2>1
<1>3. CASE r = s
  <2> DEFINE T == [at : 1 .. MaxTime, minute : 1 .. MaxTime]
             e == [at |-> now, minute |-> m]
  <2>1. log[s] \in Seq(T) /\ log'[s] = Append(log[s], e) /\ e.minute = m
    BY <1>1 DEF WriterTypes
  <2> HIDE DEF T, e
  <2>2. /\ Len(log'[s]) = Len(log[s]) + 1 /\ log'[s][Len(log[s]) + 1] = e /\ Len(log[s]) \in Nat
        /\ \A j \in 1 .. Len(log[s]) : log'[s][j] = log[s][j]
    BY <2>1
  <2>3. CASE i # Len(log[s]) + 1
    <3>1. i \in 1 .. Len(log[s])
      BY <1>3, <2>2, <2>3
    <3> QED
      BY <1>3, <2>2, <3>1
  <2>4. CASE i = Len(log[s]) + 1
    <3>1. log'[r][i].minute = m
      BY <1>3, <2>1, <2>2, <2>4
    <3>2. /\ handed[s] \in Nat /\ position[s] \in Nat /\ drained[s] \in Nat /\ checkpoint.positions[s] \in Nat
          /\ sealed[s] \in Nat /\ checkpoint.sealed[s] \in Nat
      BY Streams, Constant
    <3>3. /\ checkpoint.positions[s] <= handed[s] /\ handed[s] <= Len(log[s])
          /\ drained[s] <= position[s] /\ position[s] <= handed[s]
          /\ queue[s] \subseteq drained[s] + 1 .. position[s] /\ open[s] \subseteq 1 .. drained[s]
          /\ folded[s] \subseteq 1 .. handed[s] /\ dropped[s] \subseteq 1 .. handed[s]
      BY DEF MarksInv, Length
    <3>4. handed[r] < i /\ position[r] < i /\ checkpoint.positions[r] < i /\ drained[r] < i
      <4>1. Len(log[s]) \in Nat
        BY <2>2
      <4>2. /\ checkpoint.positions[s] <= handed[s] /\ handed[s] <= Len(log[s])
            /\ drained[s] <= position[s] /\ position[s] <= handed[s]
        BY <3>3
      <4>3. /\ handed[s] < Len(log[s]) + 1 /\ position[s] < Len(log[s]) + 1
            /\ checkpoint.positions[s] < Len(log[s]) + 1 /\ drained[s] < Len(log[s]) + 1
        BY <3>2, <4>1, <4>2
      <4> QED
        BY <1>3, <2>4, <4>3
    <3>5. i \notin dropped[r] /\ i \notin folded[r] /\ i \notin queue[r] /\ i \notin open[r]
      BY <1>3, <2>2, <2>4, <3>2, <3>3, <3>4
    <3>6. /\ sealed[s] = 0 \/ sealed[s] + 1 + Grace[s] <= now
          /\ checkpoint.sealed[s] = 0 \/ checkpoint.sealed[s] + 1 + Grace[s] <= now
      BY DEF SealedInv, Behind
    <3>7. now \in Nat /\ Grace[s] \in Nat
      BY Constant DEF WriterTypes
    <3>8. ~(m <= sealed[s]) /\ ~(m <= checkpoint.sealed[s])
      <4>1. m \in Nat /\ 0 < m /\ now <= m + Grace[s]
        BY <1>1, <3>7
      <4>2. ~(m <= sealed[s])
        BY <3>2, <3>6, <3>7, <4>1
      <4>3. ~(m <= checkpoint.sealed[s])
        BY <3>2, <3>6, <3>7, <4>1
      <4> QED
        BY <4>2, <4>3
    <3> QED
      BY <1>3, <3>1, <3>4, <3>5, <3>8
  <2> QED
    BY <2>3, <2>4
<1> QED
  BY <1>2, <1>3

(* A batch hides only what the checkpoint's spans hide, and only from the     *)
(* replay: an ended span ends before what the group has not read.             *)
LEMMA HiddenByTheReplay ==
  ASSUME WriterTypes, MarksInv, ReaderInv, SpansInv, Running,
         NEW s \in Stream, NEW i \in Nat, position[s] < i, Hidden(skip, s, i, replaying)
  PROVE  replaying /\ Hidden(checkpoint.spans, s, i, TRUE) /\ Hidden(spans, s, i, TRUE)
<1>1. skip \in Seq(Span) /\ replaying \in BOOLEAN
  BY DEF WriterTypes
<1>2. PICK k \in DOMAIN skip : /\ skip[k].from[s] < i
                               /\ IF skip[k].to[s] = Open THEN replaying ELSE i <= skip[k].to[s]
  BY DEF Hidden
<1>3. replaying
  <2> SUFFICES ASSUME ~replaying PROVE FALSE
    OBVIOUS
  <2>1. position = handed /\ Closed(skip)
    BY DEF ReaderInv, SpansInv
  <2>2. skip[k].to[s] # Open /\ i <= skip[k].to[s]
    BY <1>2
  <2>3. skip[k].to[s] <= handed[s]
    BY <2>1, <2>2, OpenIsUnbounded DEF Closed, IsOpen
  <2>4. skip[k] \in Span
    BY <1>1
  <2>5. skip[k].to[s] \in Nat /\ handed[s] \in Nat
    BY <2>4, Streams, Constant DEF Span
  <2> QED
    BY <2>1, <2>2, <2>3, <2>5
<1>4. Hidden(skip, s, i, TRUE)
  BY <1>2 DEF Hidden
<1> QED
  BY <1>3, <1>4 DEF SpansInv

(* What a paused writer drops is behind the span its pause opened.            *)
LEMMA PausedIsHidden ==
  ASSUME WriterTypes, MarksInv, SpansInv, Running, ~recording,
         NEW s \in Stream, NEW i \in queue[s], i \notin folded[s], i \notin dropped[s]
  PROVE  Hidden(spans, s, i, TRUE)
<1>1. PICK k \in DOMAIN spans :
      /\ IsOpen(spans[k])
      /\ \A r \in Stream : \A j \in 1 .. spans[k].from[r] : j \in folded[r] \cup dropped[r]
  BY DEF SpansInv, SpansFit
<1>2. i \in Nat /\ 0 < i
  <2>1. queue[s] \subseteq drained[s] + 1 .. position[s]
    BY DEF MarksInv
  <2> QED
    BY <2>1, Streams
<1>3. spans[k].from[s] \in Nat
  <2>1. spans \in Seq(Span)
    BY DEF WriterTypes
  <2>2. spans[k] \in Span
    BY <2>1
  <2> QED
    BY <2>2, Constant DEF Span, Positions
<1>4. spans[k].from[s] < i
  BY <1>1, <1>2, <1>3
<1>5. spans[k].to[s] = Open
  BY <1>1, OpenIsUnbounded DEF IsOpen
<1> QED
  BY <1>4, <1>5 DEF Hidden

(* An entry in the next state, as DurableInv has it.                          *)
OnDiskNext(s, i) == \E r \in Committed' : r.table = s /\ i \in r.entries
EntryNext(s, i) ==
  /\ \/ i \in dropped'[s] \/ OnDiskNext(s, i)
     \/ checkpoint'.positions[s] < i /\ (Hidden(checkpoint'.spans, s, i, TRUE) => i \notin folded'[s])
  /\ log'[s][i].minute <= checkpoint'.sealed[s] => i \in dropped'[s] \/ OnDiskNext(s, i)
  /\ i \in dropped'[s] => Hidden(checkpoint'.spans, s, i, TRUE)
LEMMA EntriesSuffice ==
  ASSUME \A s \in Stream : folded'[s] \cap dropped'[s] = {},
         \A s \in Stream : \A i \in 1 .. Len(log'[s]) : EntryNext(s, i)
  PROVE  DurableInv'
BY DEF DurableInv, Safe, OnDisk, Replayable, Length, Minute, EntryNext, OnDiskNext

(* It holds if the files stay, and what is newly dropped is behind a span and *)
(* what is newly folded is not.                                               *)
LEMMA EntryStays ==
  ASSUME NEW s \in Stream, NEW i, checkpoint' = checkpoint, Committed' = Committed,
         log'[s][i].minute = Minute(s, i),
         i \in dropped[s] => i \in dropped'[s],
         i \in dropped'[s] => i \in dropped[s] \/ Hidden(checkpoint.spans, s, i, TRUE),
         i \in folded'[s] => i \in folded[s] \/ ~Hidden(checkpoint.spans, s, i, TRUE),
         i \in dropped[s] \/ OnDisk(s, i) \/ Replayable(s, i),
         Minute(s, i) <= checkpoint.sealed[s] => i \in dropped[s] \/ OnDisk(s, i),
         i \in dropped[s] => Hidden(checkpoint.spans, s, i, TRUE)
  PROVE  EntryNext(s, i)
<1>1. OnDisk(s, i) => OnDiskNext(s, i)
  BY DEF OnDisk, OnDiskNext
<1>2. /\ checkpoint'.positions = checkpoint.positions /\ checkpoint'.sealed = checkpoint.sealed
      /\ checkpoint'.spans = checkpoint.spans
  OBVIOUS
<1>3. i \in dropped'[s] => Hidden(checkpoint'.spans, s, i, TRUE)
  BY <1>2
<1>4. log'[s][i].minute <= checkpoint'.sealed[s] => i \in dropped'[s] \/ OnDiskNext(s, i)
  BY <1>1, <1>2
<1>5. \/ i \in dropped'[s] \/ OnDiskNext(s, i)
      \/ checkpoint'.positions[s] < i /\ (Hidden(checkpoint'.spans, s, i, TRUE) => i \notin folded'[s])
  BY <1>1, <1>2 DEF Replayable
<1> QED
  BY <1>3, <1>4, <1>5 DEF EntryNext

(* With no lapse, what a restart has to go by is the record.                  *)
LEMMA DurableKept ==
  ASSUME WriterTypes, WriterTypes', LogInv, MarksInv, ReaderInv, SealedInv, FilesInv, FoldedInv,
         SpansInv, DurableInv, MemoryInv, Next, lapses = {}, lapses' = {}
  PROVE  DurableInv'
<1>1. \A s \in Stream : \A i \in 1 .. Length(s) :
        /\ i \in dropped[s] \/ OnDisk(s, i) \/ Replayable(s, i)
        /\ Minute(s, i) <= checkpoint.sealed[s] => i \in dropped[s] \/ OnDisk(s, i)
        /\ i \in dropped[s] => Hidden(checkpoint.spans, s, i, TRUE)
  BY DEF DurableInv, Safe
<1>2. \A s \in Stream : folded[s] \cap dropped[s] = {}
  BY DEF DurableInv
<1>3. /\ \A f \in disk : f.gen \in Nat
      /\ checkpoint.generation \in Nat /\ generation \in Nat /\ plan.generation \in Nat
  BY DEF WriterTypes
<1>4. ASSUME UNCHANGED <<log, checkpoint, folded, dropped>>, Committed' = Committed
      PROVE  DurableInv'
  BY <1>1, <1>2, <1>4 DEF DurableInv, Safe, OnDisk, Replayable, Length, Minute
<1>5. CASE \/ Tick \/ SendCommand \/ ReplayDone \/ PausedPass \/ ApplyCommand \/ SealPass \/ CommitPlan
           \/ ClearIntent \/ Stop \/ Crash
  <2>1. UNCHANGED <<log, checkpoint, disk, folded, dropped>>
    BY <1>5 DEF Tick, SendCommand, ReplayDone, PausedPass, ApplyCommand, SealPass, CommitPlan, ClearIntent, Stop,
                Crash, world, durable, history
  <2> QED
    BY <1>4, <2>1 DEF Committed
<1>6. ASSUME NEW s \in Stream, FlushTable(s) PROVE DurableInv'
  <2>1. /\ UNCHANGED <<log, checkpoint, folded, dropped>> /\ pc = "files" /\ Running
        /\ disk' = disk \cup {[gen |-> plan.generation, row |-> r] : r \in buffer[s]}
    BY <1>6 DEF FlushTable, history, world, Running
  <2>2. plan.generation = checkpoint.generation + 1
    BY <2>1 DEF FilesInv
  <2>3. \A f \in disk' : f.gen <= checkpoint.generation <=> f \in disk /\ f.gen <= checkpoint.generation
    BY <1>3, <2>1, <2>2
  <2>4. {g \in disk' : g.gen <= checkpoint.generation} = {g \in disk : g.gen <= checkpoint.generation}
    BY <2>1, <2>3
  <2> QED
    BY <1>4, <2>1, <2>4 DEF Committed
<1>7. CASE CommitFails
  <2>1. /\ UNCHANGED <<log, checkpoint, folded, dropped>> /\ pc = "files" /\ Running
        /\ disk' = {f \in disk : f.gen # plan.generation}
    BY <1>7 DEF CommitFails, RollBack, world, Running
  <2>2. plan.generation = checkpoint.generation + 1
    BY <2>1 DEF FilesInv
  <2>3. {g \in disk' : g.gen <= checkpoint.generation} = {g \in disk : g.gen <= checkpoint.generation}
    BY <1>3, <2>1, <2>2
  <2> QED
    BY <1>4, <2>1, <2>3 DEF Committed
<1>8. CASE Restart
  <2>1. UNCHANGED <<log, checkpoint, folded, dropped>> /\ disk' = Recovered
    BY <1>8 DEF Restart, world, history
  <2>2. {g \in disk' : g.gen <= checkpoint.generation} = {g \in disk : g.gen <= checkpoint.generation}
    <3>1. intent \in Nat
      BY DEF WriterTypes
    <3> QED
      BY <1>3, <2>1, <3>1 DEF Recovered
  <2> QED
    BY <1>4, <2>1, <2>2 DEF Committed
<1>9. ASSUME NEW s \in Stream, Publish(s) PROVE DurableInv'
  <2>1. UNCHANGED <<checkpoint, disk, folded, dropped>>
    BY <1>9 DEF Publish, durable, history
  <2>2. Committed' = Committed
    BY <2>1 DEF Committed
  <2>3. ASSUME NEW r \in Stream, NEW i \in 1 .. Len(log'[r]) PROVE EntryNext(r, i)
    <3>1. CASE i \in 1 .. Length(r) /\ log'[r][i].minute = Minute(r, i)
      BY <1>1, <2>1, <2>2, <3>1, EntryStays
    <3>2. CASE /\ i \notin dropped[r] /\ i \notin folded[r] /\ checkpoint.positions[r] < i
               /\ ~(log'[r][i].minute <= checkpoint.sealed[r])
      BY <2>1, <3>2 DEF EntryNext
    <3> QED
      BY <1>9, <3>1, <3>2, Published
  <2> QED
    BY <1>2, <2>1, <2>3, EntriesSuffice
<1>10. CASE ReplayRead \/ GroupRead
  <2>1. UNCHANGED <<log, checkpoint, disk, folded>> /\ Running
    BY <1>10 DEF ReplayRead, GroupRead, world, durable, Running, LoopIsFree
  <2>2. \A s \in Stream : \A i : i \in dropped'[s] <=> Skipped(s, i)
    BY <1>10, ReadFacts
  <2>3. ASSUME NEW s \in Stream, NEW i \in dropped'[s], i \notin dropped[s]
        PROVE  i \notin folded[s] /\ Hidden(checkpoint.spans, s, i, TRUE)
    <3>1. i \in position[s] + 1 .. position'[s] /\ Hidden(skip, s, i, replaying) /\ i \notin folded[s]
      BY <2>2, <2>3 DEF Skipped
    <3>2. i \in Nat /\ position[s] < i
      BY <3>1, Streams
    <3> QED
      BY <2>1, <3>1, <3>2, HiddenByTheReplay
  <2>4. \A s \in Stream : dropped[s] \subseteq dropped'[s] /\ folded'[s] \cap dropped'[s] = {}
    BY <1>2, <2>1, <2>2, <2>3 DEF Skipped
  <2>5. Committed' = Committed
    BY <2>1 DEF Committed
  <2>6. ASSUME NEW s \in Stream, NEW i \in 1 .. Len(log'[s]) PROVE EntryNext(s, i)
    <3>1. i \in 1 .. Length(s) /\ log'[s][i].minute = Minute(s, i)
      BY <2>1 DEF Length, Minute
    <3> QED
      BY <1>1, <2>1, <2>3, <2>4, <2>5, <3>1, EntryStays
  <2> QED
    BY <2>4, <2>6, EntriesSuffice
<1>11. CASE Drain
  <2>1. UNCHANGED <<log, checkpoint, disk>> /\ Running /\ ~Commanding
    BY <1>11 DEF Drain, world, durable, Running, Commanding
  <2>2. checkpoint.spans = spans /\ checkpoint.recording = recording
    BY <2>1 DEF SpansInv
  <2>3. CASE recording
    <3>1. dropped' = dropped /\ \A s \in Stream : \A i : i \in folded'[s] <=> i \in folded[s] \/ Fresh(s, i)
      BY <1>11, <2>3, DrainFacts
    <3>2. \A s \in Stream : \A i : Fresh(s, i) => ~Hidden(checkpoint.spans, s, i, TRUE)
      <4> SUFFICES ASSUME NEW s \in Stream, NEW i, Fresh(s, i) PROVE ~Hidden(spans, s, i, TRUE)
        BY <2>2
      <4>1. i \in queue[s]
        BY DEF Fresh
      <4>2. queue[s] \subseteq drained[s] + 1 .. position[s] /\ position[s] <= handed[s] /\ handed[s] <= Length(s)
        BY DEF MarksInv
      <4>3. i \in 1 .. Length(s)
        BY <4>1, <4>2, Streams
      <4> QED
        BY <2>1, <2>3, <4>1, <4>3 DEF MemoryInv
    <3>3. \A s \in Stream : folded'[s] \cap dropped[s] = {}
      <4> SUFFICES ASSUME NEW s \in Stream, NEW i \in dropped[s], Fresh(s, i) PROVE FALSE
        BY <1>2, <3>1
      <4>1. i \in 1 .. handed[s] /\ handed[s] <= Length(s)
        BY DEF MarksInv
      <4>2. i \in 1 .. Length(s)
        BY <4>1, Streams
      <4> QED
        BY <1>1, <3>2, <4>2
    <3>4. Committed' = Committed
      BY <2>1 DEF Committed
    <3>5. ASSUME NEW s \in Stream, NEW i \in 1 .. Len(log'[s]) PROVE EntryNext(s, i)
      <4>1. i \in 1 .. Length(s) /\ log'[s][i].minute = Minute(s, i)
        BY <2>1 DEF Length, Minute
      <4> QED
        BY <1>1, <2>1, <3>1, <3>2, <3>4, <4>1, EntryStays
    <3>6. \A s \in Stream : folded'[s] \cap dropped'[s] = {}
      BY <3>1, <3>3
    <3> QED
      BY <3>5, <3>6, EntriesSuffice
  <2>4. CASE ~recording
    <3>1. /\ folded' = folded
          /\ \A s \in Stream : \A i : i \in dropped'[s] <=> i \in dropped[s] \/ (i \in queue[s] /\ i \notin folded[s])
      BY <1>11, <2>4, DrainFacts
    <3>2. ASSUME NEW s \in Stream, NEW i \in queue[s], i \notin folded[s], i \notin dropped[s]
          PROVE  Hidden(spans, s, i, TRUE)
      BY <2>1, <2>4, <3>2, PausedIsHidden
    <3>3. \A s \in Stream : /\ folded[s] \cap dropped'[s] = {} /\ dropped[s] \subseteq dropped'[s]
                            /\ \A i \in dropped'[s] : i \in dropped[s] \/ Hidden(checkpoint.spans, s, i, TRUE)
      BY <1>2, <2>2, <3>1, <3>2
    <3>4. Committed' = Committed
      BY <2>1 DEF Committed
    <3>5. ASSUME NEW s \in Stream, NEW i \in 1 .. Len(log'[s]) PROVE EntryNext(s, i)
      <4>1. i \in 1 .. Length(s) /\ log'[s][i].minute = Minute(s, i)
        BY <2>1 DEF Length, Minute
      <4> QED
        BY <1>1, <2>1, <3>1, <3>3, <3>4, <4>1, EntryStays
    <3>6. \A s \in Stream : folded'[s] \cap dropped'[s] = {}
      BY <3>1, <3>3
    <3> QED
      BY <3>5, <3>6, EntriesSuffice
  <2> QED
    BY <2>3, <2>4
<1>12. CASE WriteCheckpoint
  <2>1. /\ UNCHANGED <<log, disk, folded, dropped, buffer>> /\ pc = "files" /\ Running /\ buffer = Nothing
        /\ checkpoint' = [generation |-> plan.generation, positions |-> plan.positions,
                          sealed |-> plan.sealed, recording |-> recording, spans |-> spans]
    BY <1>12 DEF WriteCheckpoint, world, bars, history, Running
  <2>2. /\ checkpoint'.generation = plan.generation /\ checkpoint'.positions = plan.positions
        /\ checkpoint'.sealed = sealed /\ checkpoint'.spans = spans
    BY <2>1 DEF SealedInv
  <2>3. plan.generation = generation + 1 /\ generation = checkpoint.generation
        /\ \A f \in disk : f.gen <= generation \/ f.gen = plan.generation
    BY <2>1 DEF FilesInv
  <2>4. Committed' = {f.row : f \in disk}
    <3>1. {g \in disk : g.gen <= plan.generation} = disk
      BY <1>3, <2>3
    <3> QED
      BY <2>1, <2>2, <3>1 DEF Committed
  <2>5. \A s \in Stream : \A i : (\E f \in disk : f.row.table = s /\ i \in f.row.entries) =>
                                    \E r \in Committed' : r.table = s /\ i \in r.entries
    BY <2>4
  <2>6. \A s \in Stream : \A i : Stored(s, i) => i \in dropped[s] \/ \E r \in Committed' : r.table = s /\ i \in r.entries
    BY <2>1, <2>5, NothingTyped DEF Stored, InABar
  <2>7. \A s \in Stream : \A i : OnDisk(s, i) => \E r \in Committed' : r.table = s /\ i \in r.entries
    <3>1. Committed \subseteq Committed'
      BY <2>4 DEF Committed
    <3> QED
      BY <3>1 DEF OnDisk
  <2>8. ASSUME NEW s \in Stream, NEW i \in 1 .. Length(s)
        PROVE  /\ \/ i \in dropped[s] \/ \E r \in Committed' : r.table = s /\ i \in r.entries
                  \/ plan.positions[s] < i /\ (Hidden(spans, s, i, TRUE) => i \notin folded[s])
               /\ Minute(s, i) <= sealed[s] => i \in dropped[s] \/ \E r \in Committed' : r.table = s /\ i \in r.entries
               /\ i \in dropped[s] => Hidden(spans, s, i, TRUE)
    <3>1. /\ Minute(s, i) <= sealed[s] => Stored(s, i)
          /\ i <= position[s] => i \in queue[s] \/ i \in open[s] \/ Stored(s, i)
          /\ i \in dropped[s] => Hidden(spans, s, i, TRUE)
          /\ i \in open[s] => ~Hidden(spans, s, i, TRUE)
          /\ i \in queue[s] /\ Hidden(spans, s, i, TRUE) => i \notin folded[s]
          /\ i \in open[s] \cup queue[s] => plan.positions[s] < i
      BY <2>1 DEF MemoryInv
    <3>2. position[s] \in Nat /\ plan.positions[s] \in Nat /\ i \in Nat /\ plan.positions[s] <= position[s]
      BY <2>1, Streams DEF MarksInv
    <3>3. CASE i <= position[s]
      BY <2>6, <3>1, <3>3
    <3>4. CASE ~(i <= position[s])
      <4>1. plan.positions[s] < i
        BY <3>2, <3>4
      <4>2. CASE Hidden(spans, s, i, TRUE) /\ i \in folded[s]
        <5>1. i <= handed[s]
          BY <4>2, Streams DEF MarksInv
        <5>2. replaying
          <6>1. position # handed
            BY <3>4, <5>1
          <6> QED
            BY <2>1, <6>1 DEF ReaderInv
        <5>3. checkpoint.spans = spans
          BY <2>1, <5>2 DEF SpansInv
        <5>4. ~Replayable(s, i)
          BY <4>2, <5>3 DEF Replayable
        <5>5. i \in dropped[s] \/ OnDisk(s, i)
          BY <1>1, <5>4
        <5> QED
          BY <2>6, <2>7, <3>1, <5>5
      <4> QED
        BY <2>6, <3>1, <4>1, <4>2
    <3> QED
      BY <3>3, <3>4
  <2>9. ASSUME NEW s \in Stream, NEW i \in 1 .. Len(log'[s]) PROVE EntryNext(s, i)
    <3>1. i \in 1 .. Length(s) /\ log'[s][i].minute = Minute(s, i)
      BY <2>1 DEF Length, Minute
    <3> QED
      <4>1. /\ \/ i \in dropped[s] \/ OnDiskNext(s, i)
               \/ plan.positions[s] < i /\ (Hidden(spans, s, i, TRUE) => i \notin folded[s])
            /\ Minute(s, i) <= sealed[s] => i \in dropped[s] \/ OnDiskNext(s, i)
            /\ i \in dropped[s] => Hidden(spans, s, i, TRUE)
        BY <2>8, <3>1 DEF OnDiskNext
      <4> QED
        BY <2>1, <2>2, <3>1, <4>1 DEF EntryNext
  <2>10. \A s \in Stream : folded'[s] \cap dropped'[s] = {}
    BY <1>2, <2>1
  <2> QED
    BY <2>9, <2>10, EntriesSuffice
<1>13. CASE ClearFails
  BY <1>13 DEF ClearFails
<1> QED
  BY <1>5, <1>6, <1>7, <1>8, <1>9, <1>10, <1>11, <1>12, <1>13 DEF Next, WriterStep, ReaderStep


-----------------------------------------------------------------------------
(* An entry in this state and in the next, as MemoryInv has it.               *)
Place(s, i) ==
  /\ Minute(s, i) <= sealed[s] => Stored(s, i)
  /\ i <= position[s] => i \in queue[s] \/ i \in open[s] \/ Stored(s, i)
  /\ i \in dropped[s] => Hidden(spans, s, i, TRUE)
  /\ i \in open[s] => ~Hidden(spans, s, i, TRUE)
  /\ i \in queue[s] /\ Hidden(spans, s, i, TRUE) => ~recording /\ i \notin folded[s]
  /\ pc = "files" /\ i \in open[s] \cup queue[s] => plan.positions[s] < i
StoredNext(s, i) ==
  \/ i \in dropped'[s] \/ (\E f \in disk' : f.row.table = s /\ i \in f.row.entries)
  \/ \E r \in buffer'[s] : i \in r.entries
PlaceNext(s, i) ==
  /\ log'[s][i].minute <= sealed'[s] => StoredNext(s, i)
  /\ i <= position'[s] => i \in queue'[s] \/ i \in open'[s] \/ StoredNext(s, i)
  /\ i \in dropped'[s] => Hidden(spans', s, i, TRUE)
  /\ i \in open'[s] => ~Hidden(spans', s, i, TRUE)
  /\ i \in queue'[s] /\ Hidden(spans', s, i, TRUE) => ~recording' /\ i \notin folded'[s]
  /\ pc' = "files" /\ i \in open'[s] \cup queue'[s] => plan'.positions[s] < i
LEMMA PlacesSuffice ==
  ASSUME Running' => \A s \in Stream : \A i \in 1 .. Len(log'[s]) : PlaceNext(s, i)
  PROVE  MemoryInv'
<1>1. ASSUME Running', NEW s \in Stream, NEW i \in 1 .. Length(s)'
      PROVE  (Place(s, i))'
  <2>1. i \in 1 .. Len(log'[s]) /\ Minute(s, i)' = log'[s][i].minute
    BY <1>1 DEF Length, Minute
  <2>2. StoredNext(s, i) <=> Stored(s, i)'
    BY DEF Stored, InABar, StoredNext
  <2>3. PlaceNext(s, i)
    BY <1>1, <2>1
  <2> QED
    BY <2>1, <2>2, <2>3 DEF Place, PlaceNext
<1> QED
  BY <1>1 DEF MemoryInv, Place

(* It keeps its place if no mark moves and the files and buffers still have it. *)
LEMMA PlaceStays ==
  ASSUME NEW s \in Stream, NEW i, Place(s, i), log'[s][i].minute = Minute(s, i),
         sealed'[s] = sealed[s], position'[s] = position[s], queue'[s] = queue[s], open'[s] = open[s],
         folded'[s] = folded[s], dropped'[s] = dropped[s], spans' = spans, recording' = recording,
         pc' = "files" => pc = "files" /\ plan' = plan,
         Stored(s, i) => StoredNext(s, i)
  PROVE  PlaceNext(s, i)
BY DEF Place, PlaceNext

(* What a batch has not hidden is behind a span only of a pause that goes on. *)
LEMMA HandedInAPause ==
  ASSUME WriterTypes, MarksInv, ReaderInv, SpansInv, Running,
         NEW s \in Stream, NEW i \in Nat, position[s] < i,
         ~Hidden(skip, s, i, replaying), Hidden(spans, s, i, TRUE)
  PROVE  ~recording /\ i \notin folded[s]
<1>1. spans \in Seq(Span) /\ replaying \in BOOLEAN
  BY DEF WriterTypes
<1>2. ~replaying
  <2> SUFFICES ASSUME replaying PROVE FALSE
    OBVIOUS
  <2>1. spans = skip /\ replaying = TRUE
    BY <1>1 DEF SpansInv
  <2>2. ~Hidden(spans, s, i, TRUE)
    BY <2>1
  <2> QED
    BY <2>2
<1>3. position = handed /\ handed[s] \in Nat /\ handed[s] < i /\ folded[s] \subseteq 1 .. handed[s]
  BY <1>2, Streams DEF ReaderInv, MarksInv
<1>4. PICK k \in DOMAIN spans : /\ spans[k].from[s] < i
                                /\ spans[k].to[s] = Open \/ i <= spans[k].to[s]
  BY DEF Hidden
<1>5. recording => spans[k].to[s] <= handed[s]
  BY <1>4 DEF SpansInv, SpansFit, Closed
<1>6. spans[k].to[s] \in Nat
  <2>1. spans[k] \in Span
    BY <1>1, <1>4
  <2> QED
    BY <2>1, Constant DEF Span
<1>7. handed[s] < Open
  BY OpenIsUnbounded
<1>8. ~recording
  BY <1>3, <1>4, <1>5, <1>6, <1>7, Constant
<1>9. i \notin folded[s]
  BY <1>3
<1> QED
  BY <1>8, <1>9

(* Sealing takes an entry out of the open bars into a buffer, none out of a   *)
(* queue, and none that is not yet read.                                      *)
LEMMA SealKeepsThePlace ==
  ASSUME WriterTypes, MarksInv, NEW others, SealEffect(others), lapses' = {},
         UNCHANGED <<log, disk, position, queue, folded, dropped>>,
         NEW s \in Stream, NEW i \in 1 .. Length(s), Place(s, i)
  PROVE  /\ log'[s][i].minute <= sealed'[s] => StoredNext(s, i)
         /\ i <= position'[s] => i \in queue'[s] \/ i \in open'[s] \/ StoredNext(s, i)
         /\ i \in open'[s] => i \in open[s] /\ ~Hidden(spans, s, i, TRUE)
<1>1. /\ i \in Nat /\ Minute(s, i) \in Nat /\ sealed[s] \in Nat /\ sealed'[s] \in Nat /\ position[s] \in Nat
  <2>1. sealed' \in Marks
    BY DEF SealEffect
  <2> QED
    BY <2>1, Streams, Constant DEF Marks
<1>2. Stored(s, i) => StoredNext(s, i)
  BY DEF Stored, InABar, StoredNext, SealEffect
<1>3. i \in open[s] => i \in open'[s] \/ StoredNext(s, i)
  BY <1>1 DEF SealEffect, StoredNext
<1>4. i <= position[s] => i \in queue[s] \/ i \in open[s] \/ Stored(s, i)
  BY DEF Place
<1>5. log'[s][i].minute = Minute(s, i)
  BY DEF Minute
<1>6. ASSUME Minute(s, i) <= sealed'[s] PROVE StoredNext(s, i)
  <2>1. CASE Minute(s, i) <= sealed[s]
    BY <1>2, <2>1 DEF Place
  <2>2. CASE ~(Minute(s, i) <= sealed[s])
    <3>1. sealed[s] < Minute(s, i)
      BY <1>1, <2>2
    <3>2. i <= position[s]
      BY <1>1, <1>6, <3>1 DEF SealEffect
    <3>3. i \notin queue[s]
      BY <1>1, <1>6, <3>1 DEF SealEffect
    <3>4. i \notin open'[s]
      BY <1>1, <1>6 DEF SealEffect
    <3> QED
      BY <1>2, <1>3, <1>4, <3>2, <3>3, <3>4
  <2> QED
    BY <2>1, <2>2
<1>7. i <= position'[s] => i \in queue'[s] \/ i \in open'[s] \/ StoredNext(s, i)
  BY <1>2, <1>3, <1>4
<1>8. i \in open'[s] => i \in open[s] /\ ~Hidden(spans, s, i, TRUE)
  BY DEF SealEffect, Place
<1> QED
  BY <1>5, <1>6, <1>7, <1>8

(* A command moves no span over what has been read, nor from what was dropped. *)
LEMMA CommandSpans ==
  ASSUME WriterTypes, MarksInv, ReaderInv, SpansInv, ApplyCommand, QueueEmpty, ~replaying,
         Head(pending) = "pause" => OpenSpans = {},
         NEW s \in Stream, NEW i \in 1 .. position[s]
  PROVE  Hidden(spans', s, i, TRUE) <=> Hidden(spans, s, i, TRUE)
<1>1. spans \in Seq(Span) /\ position \in Positions
  BY DEF WriterTypes
<1>2. Running /\ pc = "sync"
  BY DEF ApplyCommand, Running
<1>3. /\ position[s] \in Nat /\ position[s] < Open /\ position # Everywhere(Open) /\ Open \in Nat
      /\ Everywhere(Open)[s] = Open
  BY Streams, OpenIsUnbounded, Constant
<1>4. CASE Head(pending) = "pause"
  <2> DEFINE e == [from |-> position, to |-> Everywhere(Open)]
             n == Len(spans) + 1
  <2>1. spans' = Append(spans, e)
    BY <1>4 DEF ApplyCommand
  <2>2. e \in Span
    <3>1. Everywhere(Open) \in [Stream -> 0 .. Open]
      BY Constant DEF Everywhere
    <3> QED
      BY <1>1, <3>1 DEF Span
  <2>3. ~(e.from[s] < i)
    BY <1>3
  <2> HIDE DEF e
  <2>4. /\ DOMAIN spans' = 1 .. n /\ n \in Nat /\ spans'[n] = e
        /\ \A k \in DOMAIN spans : k \in 1 .. n /\ spans'[k] = spans[k]
        /\ \A k \in 1 .. n : k # n => k \in DOMAIN spans
    BY <1>1, <2>1, <2>2
  <2>5. Hidden(spans, s, i, TRUE) => Hidden(spans', s, i, TRUE)
    BY <2>4 DEF Hidden
  <2>6. Hidden(spans', s, i, TRUE) => Hidden(spans, s, i, TRUE)
    BY <2>3, <2>4 DEF Hidden
  <2> QED
    BY <2>5, <2>6
<1>5. CASE Head(pending) # "pause"
  <2>1. spans' = IF OpenSpans = {} THEN spans ELSE [spans EXCEPT ![MaxOf(OpenSpans)].to = position]
    BY <1>5 DEF ApplyCommand
  <2>2. CASE OpenSpans = {}
    <3>1. spans' = spans
      BY <2>1, <2>2
    <3> QED
      BY <3>1
  <2>3. CASE OpenSpans # {}
    <3>1. PICK k \in DOMAIN spans : IsOpen(spans[k]) /\ \A l \in DOMAIN spans : IsOpen(spans[l]) => l = k
      <4>1. \E l \in DOMAIN spans : IsOpen(spans[l])
        BY <2>3 DEF OpenSpans, IsOpen
      <4> QED
        BY <1>2, <4>1 DEF SpansInv, SpansFit
    <3>2. OpenSpans = {k} /\ k \in Nat
      BY <1>1, <3>1 DEF OpenSpans, IsOpen
    <3>3. MaxOf({k}) = k
      BY <3>2 DEF MaxOf
    <3>4. spans' = [spans EXCEPT ![k].to = position]
      BY <2>1, <2>3, <3>2, <3>3
    <3>5. /\ DOMAIN spans' = DOMAIN spans /\ spans'[k].to = position /\ spans'[k].from = spans[k].from
          /\ \A l \in DOMAIN spans : l # k => spans'[l] = spans[l]
      <4>1. spans[k] \in Span
        BY <1>1
      <4> QED
        BY <1>1, <3>4, <4>1 DEF Span
    <3>6. spans[k].to[s] = Open /\ spans'[k].to[s] = position[s]
      BY <1>3, <3>1, <3>5 DEF IsOpen
    <3>7. position[s] # Open /\ i <= position[s]
      BY <1>3
    <3>8. \A l \in DOMAIN spans :
            (/\ spans[l].from[s] < i /\ IF spans[l].to[s] = Open THEN TRUE ELSE i <= spans[l].to[s]) <=>
            (/\ spans'[l].from[s] < i /\ IF spans'[l].to[s] = Open THEN TRUE ELSE i <= spans'[l].to[s])
      BY <3>5, <3>6, <3>7
    <3> QED
      BY <3>5, <3>8 DEF Hidden
  <2> QED
    BY <2>2, <2>3
<1> QED
  BY <1>4, <1>5

(* With no lapse, every entry the writer has is where MemoryInv says.         *)
LEMMA MemoryKept ==
  ASSUME WriterTypes, WriterTypes', LogInv, MarksInv, ReaderInv, SealedInv, OriginsInv, FilesInv, FoldedInv,
         SpansInv, DurableInv, MemoryInv, Next, lapses = {}, lapses' = {}
  PROVE  MemoryInv'
<1>1. Running => \A s \in Stream : \A i \in 1 .. Length(s) : Place(s, i)
  BY DEF MemoryInv, Place
<1>2. ASSUME NEW s \in Stream, NEW i, Len(log'[s]) = Len(log[s]), i \in 1 .. Len(log'[s])
      PROVE  i \in 1 .. Length(s) /\ i \in Nat
  BY <1>2, Streams DEF Length
<1>3. ASSUME UNCHANGED <<log, sealed, position, queue, open, folded, dropped, spans, recording>>, Running,
             pc' = "files" => pc = "files" /\ plan' = plan,
             \A s \in Stream : \A i : Stored(s, i) => StoredNext(s, i)
      PROVE  MemoryInv'
  <2>1. ASSUME NEW s \in Stream, NEW i \in 1 .. Len(log'[s]) PROVE PlaceNext(s, i)
    <3>1. i \in 1 .. Length(s) /\ log'[s][i].minute = Minute(s, i)
      BY <1>3 DEF Length, Minute
    <3>2. Place(s, i)
      BY <1>1, <1>3, <3>1
    <3> QED
      BY <1>3, <3>1, <3>2, PlaceStays
  <2> QED
    BY <2>1, PlacesSuffice
<1>4. ASSUME UNCHANGED <<disk, buffer, dropped>>
      PROVE  \A s \in Stream : \A i : Stored(s, i) => StoredNext(s, i)
  BY <1>4 DEF Stored, InABar, StoredNext
<1>5. CASE \/ Tick \/ SendCommand \/ ReplayDone \/ PausedPass \/ WriteCheckpoint \/ ClearIntent
  <2>1. UNCHANGED <<log, sealed, position, queue, open, folded, dropped, spans, recording, disk, buffer>>
    BY <1>5 DEF Tick, SendCommand, ReplayDone, PausedPass, WriteCheckpoint, ClearIntent,
                world, durable, reader, bars, control, history
  <2>2. pc' = "files" => pc = "files" /\ plan' = plan
    <3>1. CASE ClearIntent
      BY <3>1, Returns
    <3>2. CASE ~ClearIntent
      BY <1>5, <3>2 DEF Tick, SendCommand, ReplayDone, PausedPass, WriteCheckpoint, Park, commit
    <3> QED
      BY <3>1, <3>2
  <2>3. Running \/ ~Running'
    BY <1>5 DEF Tick, SendCommand, ReplayDone, PausedPass, WriteCheckpoint, ClearIntent, Running
  <2>4. CASE Running
    BY <1>3, <1>4, <2>1, <2>2, <2>4
  <2>5. CASE ~Running'
    BY <2>5, PlacesSuffice
  <2> QED
    BY <2>3, <2>4, <2>5
<1>6. ASSUME NEW s \in Stream, Publish(s) PROVE MemoryInv'
  <2>1. UNCHANGED <<sealed, position, queue, open, folded, dropped, spans, recording, disk, buffer, pc, plan>>
    BY <1>6 DEF Publish, durable, reader, bars, control, commit, history
  <2>2. ASSUME Running, NEW r \in Stream, NEW i \in 1 .. Len(log'[r]) PROVE PlaceNext(r, i)
    <3>1. CASE i \in 1 .. Length(r) /\ log'[r][i].minute = Minute(r, i)
      <4>1. Place(r, i) /\ (Stored(r, i) => StoredNext(r, i))
        BY <1>1, <1>4, <2>1, <2>2, <3>1
      <4> QED
        BY <2>1, <3>1, <4>1, PlaceStays
    <3>2. CASE /\ position[r] < i /\ i \notin dropped[r] /\ i \notin queue[r] /\ i \notin open[r]
               /\ ~(log'[r][i].minute <= sealed[r])
      <4>1. ~(i <= position[r])
        <5>1. log'[r] \in Seq([at : 1 .. MaxTime, minute : 1 .. MaxTime])
          BY DEF WriterTypes
        <5>2. i \in Nat
          BY <5>1
        <5> QED
          BY <3>2, <5>2, Streams
      <4> QED
        BY <2>1, <3>2, <4>1 DEF PlaceNext
    <3> QED
      BY <1>6, <3>1, <3>2, Published
  <2>3. Running' => Running
    BY <2>1 DEF Running
  <2> QED
    BY <2>2, <2>3, PlacesSuffice
<1>7. CASE ReplayRead \/ GroupRead
  <2>1. UNCHANGED <<log, sealed, open, folded, spans, recording, disk, buffer, pc, plan, checkpoint>> /\ Running
    BY <1>7 DEF ReplayRead, GroupRead, world, durable, bars, control, commit, Running, LoopIsFree
  <2>2. /\ \A s \in Stream : \A i : i \in queue'[s] <=> Handed(s, i)
        /\ \A s \in Stream : \A i : i \in dropped'[s] <=> Skipped(s, i)
        /\ position' \in Positions
    BY <1>7, ReadFacts
  <2>3. ASSUME NEW s \in Stream, NEW i \in 1 .. Len(log'[s]) PROVE PlaceNext(s, i)
    <3>1. i \in 1 .. Length(s) /\ i \in Nat /\ log'[s][i].minute = Minute(s, i)
      BY <1>2, <2>1 DEF Minute
    <3>2. Place(s, i)
      BY <1>1, <2>1, <3>1
    <3>3. Stored(s, i) => StoredNext(s, i)
      BY <2>1, <2>2 DEF Stored, InABar, StoredNext, Skipped
    <3>4. position[s] \in Nat /\ position'[s] \in Nat
      BY <2>2, Streams, Constant DEF Positions
    <3>5. ASSUME i \in position[s] + 1 .. position'[s], Hidden(skip, s, i, replaying)
          PROVE  StoredNext(s, i) /\ Hidden(spans, s, i, TRUE)
      <4>1. position[s] < i
        BY <3>1, <3>4, <3>5
      <4>2. Hidden(checkpoint.spans, s, i, TRUE) /\ Hidden(spans, s, i, TRUE)
        BY <2>1, <3>1, <3>5, <4>1, HiddenByTheReplay
      <4>3. CASE i \in folded[s]
        <5>1. i \in dropped[s] \/ OnDisk(s, i)
          BY <3>1, <4>2, <4>3 DEF DurableInv, Safe, Replayable
        <5>2. Stored(s, i)
          BY <5>1 DEF Stored, InABar, OnDisk, Committed
        <5> QED
          BY <3>3, <4>2, <5>2
      <4>4. CASE i \notin folded[s]
        <5>1. i \in dropped'[s]
          BY <2>2, <3>5, <4>4 DEF Skipped
        <5> QED
          BY <4>2, <5>1 DEF StoredNext
      <4> QED
        BY <4>3, <4>4
    <3>6. log'[s][i].minute <= sealed'[s] => StoredNext(s, i)
      BY <2>1, <3>1, <3>2, <3>3 DEF Place
    <3>7. i <= position'[s] => i \in queue'[s] \/ i \in open'[s] \/ StoredNext(s, i)
      <4> SUFFICES ASSUME i <= position'[s] PROVE i \in queue'[s] \/ i \in open'[s] \/ StoredNext(s, i)
        OBVIOUS
      <4>1. CASE i <= position[s]
        <5>1. i \in queue[s] => i \in queue'[s]
          BY <2>2 DEF Handed
        <5> QED
          BY <2>1, <3>2, <3>3, <4>1, <5>1 DEF Place
      <4>2. CASE ~(i <= position[s])
        <5>1. i \in position[s] + 1 .. position'[s]
          BY <3>1, <3>4, <4>2
        <5>2. CASE Hidden(skip, s, i, replaying)
          BY <3>5, <5>1, <5>2
        <5>3. CASE ~Hidden(skip, s, i, replaying)
          BY <2>2, <5>1, <5>3 DEF Handed
        <5> QED
          BY <5>2, <5>3
      <4> QED
        BY <4>1, <4>2
    <3>8. i \in dropped'[s] => Hidden(spans', s, i, TRUE)
      <4>1. i \in dropped'[s] => Hidden(spans, s, i, TRUE)
        BY <2>2, <3>2, <3>5 DEF Skipped, Place
      <4>2. spans' = spans
        BY <2>1
      <4> QED
        BY <4>1, <4>2
    <3>9. i \in open'[s] => ~Hidden(spans', s, i, TRUE)
      <4>1. spans' = spans /\ open' = open
        BY <2>1
      <4> QED
        BY <3>2, <4>1 DEF Place
    <3>10. ASSUME i \in queue'[s], i \notin queue[s]
           PROVE  /\ position[s] < i
                  /\ Hidden(spans, s, i, TRUE) => ~recording /\ i \notin folded[s]
      <4>1. i \in position[s] + 1 .. position'[s] /\ ~Hidden(skip, s, i, replaying)
        BY <2>2, <3>10 DEF Handed
      <4>2. position[s] < i
        BY <3>1, <3>4, <4>1
      <4> QED
        BY <2>1, <3>1, <4>1, <4>2, HandedInAPause
    <3>11. i \in queue'[s] /\ Hidden(spans', s, i, TRUE) => ~recording' /\ i \notin folded'[s]
      <4>1. spans' = spans /\ recording' = recording /\ folded' = folded
        BY <2>1
      <4> QED
        BY <3>2, <3>10, <4>1 DEF Place
    <3>12. pc' = "files" /\ i \in open'[s] \cup queue'[s] => plan'.positions[s] < i
      <4> SUFFICES ASSUME pc = "files", i \in open[s] \cup queue'[s] PROVE plan.positions[s] < i
        BY <2>1
      <4>1. CASE i \in open[s] \cup queue[s]
        BY <3>2, <4>1 DEF Place
      <4>2. CASE i \in queue'[s] /\ i \notin queue[s]
        <5>1. plan.positions[s] <= position[s] /\ plan.positions[s] \in Nat /\ position[s] < i
          BY <3>10, <4>2, Streams DEF MarksInv
        <5> QED
          BY <3>1, <3>4, <5>1
      <4> QED
        BY <4>1, <4>2
    <3> QED
      BY <3>6, <3>7, <3>8, <3>9, <3>11, <3>12 DEF PlaceNext
  <2> QED
    BY <2>3, PlacesSuffice
<1>8. CASE Drain
  <2>1. /\ UNCHANGED <<log, sealed, position, spans, recording, disk, buffer>> /\ Running
        /\ pc' = "sync" /\ queue' = Nothing
    BY <1>8 DEF Drain, world, durable, reader, control, Running
  <2>2. ASSUME NEW s \in Stream, NEW i \in 1 .. Len(log'[s]) PROVE PlaceNext(s, i)
    <3>1. i \in 1 .. Length(s) /\ i \in Nat /\ log'[s][i].minute = Minute(s, i)
      BY <1>2, <2>1 DEF Minute
    <3>2. Place(s, i) /\ i \notin queue'[s]
      BY <1>1, <2>1, <3>1, NothingTyped
    <3>3. i \in queue[s] => Fresh(s, i) \/ Stored(s, i)
      <4>1. Minute(s, i) \in Nat /\ sealed[s] \in Nat
        BY <3>1, Streams, Constant
      <4> QED
        BY <3>2, <4>1 DEF Fresh, Place
    <3>4. CASE recording
      <4>1. /\ i \in open'[s] <=> i \in open[s] \/ Fresh(s, i)
            /\ dropped' = dropped
        BY <1>8, <3>4, DrainFacts
      <4>2. Stored(s, i) => StoredNext(s, i)
        BY <1>4, <2>1, <4>1
      <4>3. Fresh(s, i) => ~Hidden(spans, s, i, TRUE)
        BY <3>2, <3>4 DEF Fresh, Place
      <4>4. spans' = spans
        BY <2>1
      <4>5. i \in open'[s] => ~Hidden(spans', s, i, TRUE)
        BY <3>2, <4>1, <4>3, <4>4 DEF Place
      <4>6. i \in dropped'[s] => Hidden(spans', s, i, TRUE)
        BY <3>2, <4>1, <4>4 DEF Place
      <4>7. /\ log'[s][i].minute <= sealed'[s] => StoredNext(s, i)
            /\ i <= position'[s] => i \in open'[s] \/ StoredNext(s, i)
        BY <2>1, <3>1, <3>2, <3>3, <4>1, <4>2 DEF Place
      <4> QED
        BY <2>1, <3>2, <4>5, <4>6, <4>7 DEF PlaceNext
    <3>5. CASE ~recording
      <4>1. /\ i \in dropped'[s] <=> i \in dropped[s] \/ (i \in queue[s] /\ i \notin folded[s])
            /\ open' = open /\ (Fresh(s, i) => i \notin folded[s])
        BY <1>8, <3>5, DrainFacts
      <4>2. Stored(s, i) => StoredNext(s, i)
        BY <2>1, <4>1 DEF Stored, InABar, StoredNext
      <4>3. i \in queue[s] => StoredNext(s, i)
        BY <3>3, <4>1, <4>2 DEF StoredNext
      <4>4. spans' = spans
        BY <2>1
      <4>5. i \in dropped'[s] => Hidden(spans', s, i, TRUE)
        <5>1. CASE i \in dropped[s]
          BY <3>2, <4>4, <5>1 DEF Place
        <5>2. CASE i \notin dropped[s]
          BY <2>1, <3>5, <4>1, <4>4, <5>2, PausedIsHidden
        <5> QED
          BY <5>1, <5>2
      <4>6. i \in open'[s] => ~Hidden(spans', s, i, TRUE)
        BY <3>2, <4>1, <4>4 DEF Place
      <4>7. /\ log'[s][i].minute <= sealed'[s] => StoredNext(s, i)
            /\ i <= position'[s] => i \in open'[s] \/ StoredNext(s, i)
        BY <2>1, <3>1, <3>2, <4>1, <4>2, <4>3 DEF Place
      <4> QED
        BY <2>1, <3>2, <4>5, <4>6, <4>7 DEF PlaceNext
    <3> QED
      BY <3>4, <3>5
  <2> QED
    BY <2>2, PlacesSuffice
<1>9. CASE SealPass \/ Stop
  <2>1. /\ UNCHANGED <<log, disk, position, queue, folded, dropped, spans, recording>>
        /\ Running /\ pc' # "files" /\ Seal({})
    BY <1>9 DEF SealPass, Stop, Park, world, durable, reader, control, Running
  <2>2. SealEffect({})
    BY <2>1, SealFacts
  <2>3. ASSUME NEW s \in Stream, NEW i \in 1 .. Len(log'[s]) PROVE PlaceNext(s, i)
    <3>1. i \in 1 .. Length(s)
      BY <1>2, <2>1
    <3>2. Place(s, i)
      BY <1>1, <2>1, <3>1
    <3>3. /\ log'[s][i].minute <= sealed'[s] => StoredNext(s, i)
          /\ i <= position'[s] => i \in queue'[s] \/ i \in open'[s] \/ StoredNext(s, i)
          /\ i \in open'[s] => ~Hidden(spans, s, i, TRUE)
      BY <2>1, <2>2, <3>1, <3>2, SealKeepsThePlace
    <3>4. spans' = spans /\ recording' = recording /\ queue' = queue /\ folded' = folded /\ dropped' = dropped
      BY <2>1
    <3>5. /\ i \in dropped'[s] => Hidden(spans', s, i, TRUE)
          /\ i \in open'[s] => ~Hidden(spans', s, i, TRUE)
          /\ i \in queue'[s] /\ Hidden(spans', s, i, TRUE) => ~recording' /\ i \notin folded'[s]
      BY <3>2, <3>3, <3>4 DEF Place
    <3> QED
      BY <2>1, <3>3, <3>5 DEF PlaceNext
  <2> QED
    BY <2>3, PlacesSuffice
<1>10. CASE ApplyCommand
  <2> DEFINE others == Lapse("misplaced", ~QueueEmpty) \cup Lapse("premature", replaying) \cup
                       Lapse("nested", Head(pending) = "pause" /\ OpenSpans # {})
  <2>1. /\ UNCHANGED <<log, disk, position, queue, folded, dropped>>
        /\ Running /\ pc' = "plan" /\ Seal(others)
    BY <1>10 DEF ApplyCommand, world, durable, reader, Running
  <2>2. SealEffect(others)
    BY <2>1, SealFacts
  <2>3. QueueEmpty /\ ~replaying /\ (Head(pending) = "pause" => OpenSpans = {})
    <3>1. others = {}
      BY <2>2 DEF SealEffect
    <3> QED
      BY <3>1 DEF Lapse
  <2> HIDE DEF others
  <2>4. ASSUME NEW s \in Stream, NEW i \in 1 .. Len(log'[s]) PROVE PlaceNext(s, i)
    <3>1. i \in 1 .. Length(s) /\ i \in Nat /\ 0 < i
      BY <1>2, <2>1
    <3>2. Place(s, i)
      BY <1>1, <2>1, <3>1
    <3>3. /\ log'[s][i].minute <= sealed'[s] => StoredNext(s, i)
          /\ i <= position'[s] => i \in queue'[s] \/ i \in open'[s] \/ StoredNext(s, i)
          /\ i \in open'[s] => i \in open[s] /\ ~Hidden(spans, s, i, TRUE)
      BY <2>1, <2>2, <3>1, <3>2, SealKeepsThePlace
    <3>4. queue'[s] = {}
      BY <2>1, <2>3 DEF QueueEmpty, Nothing
    <3>5. i \in open[s] \cup dropped[s] => i \in 1 .. position[s]
      <4>1. /\ open[s] \subseteq 1 .. drained[s] /\ drained[s] <= position[s] /\ dropped[s] \subseteq 1 .. handed[s]
            /\ position = handed
        BY <2>1, <2>3 DEF MarksInv, ReaderInv
      <4> QED
        BY <3>1, <4>1, Streams
    <3>6. i \in 1 .. position[s] => (Hidden(spans', s, i, TRUE) <=> Hidden(spans, s, i, TRUE))
      BY <1>10, <2>3, CommandSpans
    <3>7. i \in dropped'[s] => Hidden(spans', s, i, TRUE)
      BY <2>1, <3>2, <3>5, <3>6 DEF Place
    <3>8. i \in open'[s] => ~Hidden(spans', s, i, TRUE)
      BY <3>3, <3>5, <3>6
    <3> QED
      BY <2>1, <3>3, <3>4, <3>7, <3>8 DEF PlaceNext
  <2> QED
    BY <2>4, PlacesSuffice
<1>11. CASE CommitPlan
  <2>1. /\ UNCHANGED <<log, sealed, position, queue, open, folded, dropped, spans, recording, disk, buffer, drained>>
        /\ Running /\ plan' = [generation |-> generation + 1, rows |-> buffer,
                               positions |-> ReplayPositions, sealed |-> sealed]
    BY <1>11 DEF CommitPlan, world, reader, bars, control, Running
  <2>2. plan'.positions = ReplayPositions
    BY <2>1
  <2>3. OpenMinutes = {} => QueueEmpty
    BY <1>11 DEF CommitPlan, Lapse
  <2>4. ASSUME NEW s \in Stream, NEW i \in 1 .. Len(log'[s]) PROVE PlaceNext(s, i)
    <3>1. i \in 1 .. Length(s) /\ i \in Nat /\ log'[s][i].minute = Minute(s, i)
      BY <1>2, <2>1 DEF Minute
    <3>2. Place(s, i) /\ (Stored(s, i) => StoredNext(s, i))
      BY <1>1, <1>4, <2>1, <3>1
    <3>3. i \in open[s] \cup queue[s] => ReplayPositions[s] < i
      <4>1. CASE i \in open[s]
        BY <4>1, ReplayFacts
      <4>2. CASE i \in queue[s]
        <5>1. OpenMinutes # {}
          BY <2>3, <4>2 DEF QueueEmpty, Nothing
        <5>2. ReplayPositions[s] <= drained[s] /\ ReplayPositions \in Positions
          BY <5>1, ReplayFacts
        <5>3. i \in drained[s] + 1 .. position[s]
          BY <4>2 DEF MarksInv
        <5>4. ReplayPositions[s] \in Nat /\ drained[s] \in Nat /\ position[s] \in Nat
          BY <5>2, Streams, Constant DEF Positions
        <5> QED
          BY <5>2, <5>3, <5>4
      <4> QED
        BY <4>1, <4>2
    <3>4. spans' = spans
      BY <2>1
    <3>5. /\ i \in dropped'[s] => Hidden(spans', s, i, TRUE)
          /\ i \in open'[s] => ~Hidden(spans', s, i, TRUE)
          /\ i \in queue'[s] /\ Hidden(spans', s, i, TRUE) => ~recording' /\ i \notin folded'[s]
      BY <2>1, <3>2, <3>4 DEF Place
    <3>6. /\ log'[s][i].minute <= sealed'[s] => StoredNext(s, i)
          /\ i <= position'[s] => i \in queue'[s] \/ i \in open'[s] \/ StoredNext(s, i)
      BY <2>1, <3>1, <3>2 DEF Place
    <3>7. i \in open'[s] \cup queue'[s] => plan'.positions[s] < i
      BY <2>1, <2>2, <3>3
    <3> QED
      BY <3>5, <3>6, <3>7 DEF PlaceNext
  <2> QED
    BY <2>4, PlacesSuffice
<1>12. ASSUME NEW s \in Stream, FlushTable(s) PROVE MemoryInv'
  <2>1. /\ UNCHANGED <<log, sealed, position, queue, open, folded, dropped, spans, recording, plan, pc>> /\ Running
        /\ disk' = disk \cup {[gen |-> plan.generation, row |-> r] : r \in buffer[s]}
        /\ buffer' = [buffer EXCEPT ![s] = {}]
    BY <1>12 DEF FlushTable, world, reader, control, commit, history, Running
  <2>2. ASSUME NEW t \in Stream, NEW i, Stored(t, i) PROVE StoredNext(t, i)
    <3>1. CASE i \in dropped[t] \/ \E f \in disk : f.row.table = t /\ i \in f.row.entries
      BY <2>1, <3>1 DEF StoredNext
    <3>2. ASSUME NEW r \in buffer[t], i \in r.entries PROVE StoredNext(t, i)
      <4>1. CASE t = s
        <5> DEFINE f == [gen |-> plan.generation, row |-> r]
        <5>1. f \in disk' /\ f.row = r
          BY <2>1, <4>1
        <5>2. r.table = t
          BY <2>1 DEF FilesInv, BarsFit
        <5> QED
          BY <3>2, <5>1, <5>2 DEF StoredNext
      <4>2. CASE t # s
        <5>1. buffer'[t] = buffer[t]
          BY <2>1, <4>2 DEF WriterTypes, Rows
        <5> QED
          BY <3>2, <5>1 DEF StoredNext
      <4> QED
        BY <4>1, <4>2
    <3> QED
      BY <2>2, <3>1, <3>2 DEF Stored, InABar
  <2> QED
    BY <1>3, <2>1, <2>2
<1>13. CASE CommitFails
  <2>1. /\ UNCHANGED <<log, sealed, position, queue, open, folded, dropped, spans, recording>>
        /\ Running /\ pc = "files" /\ buffer' = plan.rows /\ disk' = {f \in disk : f.gen # plan.generation}
    BY <1>13 DEF CommitFails, RollBack, world, reader, control, Running
  <2>2. pc' # "files"
    BY <1>13, Returns
  <2>3. ASSUME NEW t \in Stream, NEW i, Stored(t, i) PROVE StoredNext(t, i)
    <3>1. CASE i \in dropped[t]
      BY <2>1, <3>1 DEF StoredNext
    <3>2. ASSUME NEW f \in disk, f.row.table = t, i \in f.row.entries PROVE StoredNext(t, i)
      <4>1. CASE f.gen = plan.generation
        <5>1. f.row \in plan.rows[f.row.table]
          BY <2>1, <4>1 DEF FilesInv
        <5> QED
          BY <2>1, <3>2, <5>1 DEF StoredNext
      <4>2. CASE f.gen # plan.generation
        BY <2>1, <3>2, <4>2 DEF StoredNext
      <4> QED
        BY <4>1, <4>2
    <3>3. ASSUME NEW r \in buffer[t], i \in r.entries PROVE StoredNext(t, i)
      <4>1. buffer[t] \subseteq plan.rows[t]
        BY <2>1 DEF FilesInv
      <4> QED
        BY <2>1, <3>3, <4>1 DEF StoredNext
    <3> QED
      BY <2>3, <3>1, <3>2, <3>3 DEF Stored, InABar
  <2> QED
    BY <1>3, <2>1, <2>2, <2>3
<1>14. CASE ClearFails
  BY <1>14 DEF ClearFails
<1>15. CASE Crash
  <2>1. ~Running'
    BY <1>15 DEF Crash, Running
  <2> QED
    BY <2>1, PlacesSuffice
<1>16. CASE Restart
  <2>1. /\ UNCHANGED <<log, folded, dropped>> /\ disk' = Recovered /\ pc' = "take"
        /\ sealed' = checkpoint.sealed /\ position' = checkpoint.positions /\ spans' = checkpoint.spans
        /\ queue' = Nothing /\ open' = Nothing
    BY <1>16 DEF Restart, Watermarks, world, history
  <2>2. ASSUME NEW s \in Stream, NEW i, OnDisk(s, i) PROVE StoredNext(s, i)
    <3>1. PICK f \in disk : f.gen <= checkpoint.generation /\ f.row.table = s /\ i \in f.row.entries
      BY <2>2 DEF OnDisk, Committed
    <3>2. f.gen \in Nat /\ checkpoint.generation \in Nat /\ intent \in Nat
      BY <3>1 DEF WriterTypes
    <3>3. f \in disk'
      BY <2>1, <3>1, <3>2 DEF Recovered
    <3> QED
      BY <3>1, <3>3 DEF StoredNext
  <2>3. ASSUME NEW s \in Stream, NEW i \in 1 .. Len(log'[s]) PROVE PlaceNext(s, i)
    <3>1. i \in 1 .. Length(s) /\ i \in Nat /\ log'[s][i].minute = Minute(s, i)
      BY <1>2, <2>1 DEF Minute
    <3>2. /\ i \in dropped[s] \/ OnDisk(s, i) \/ Replayable(s, i)
          /\ Minute(s, i) <= checkpoint.sealed[s] => i \in dropped[s] \/ OnDisk(s, i)
          /\ i \in dropped[s] => Hidden(checkpoint.spans, s, i, TRUE)
      BY <3>1 DEF DurableInv, Safe
    <3>3. i \notin queue'[s] /\ i \notin open'[s]
      BY <2>1, NothingTyped
    <3>4. i \in dropped[s] \/ OnDisk(s, i) => StoredNext(s, i)
      BY <2>1, <2>2 DEF StoredNext
    <3>5. i <= checkpoint.positions[s] => i \in dropped[s] \/ OnDisk(s, i)
      <4>1. i <= checkpoint.positions[s] => ~Replayable(s, i)
        <5>1. checkpoint.positions[s] \in Nat
          BY Streams
        <5>2. i <= checkpoint.positions[s] => ~(checkpoint.positions[s] < i)
          BY <3>1, <5>1
        <5> QED
          BY <5>2 DEF Replayable
      <4> QED
        BY <3>2, <4>1
    <3>6. spans' = checkpoint.spans
      BY <2>1
    <3>7. i \in dropped'[s] => Hidden(spans', s, i, TRUE)
      BY <2>1, <3>2, <3>6
    <3> QED
      BY <2>1, <3>1, <3>2, <3>3, <3>4, <3>5, <3>7 DEF PlaceNext
  <2> QED
    BY <2>3, PlacesSuffice
<1> QED
  BY <1>5, <1>6, <1>7, <1>8, <1>9, <1>10, <1>11, <1>12, <1>13, <1>14, <1>15, <1>16 DEF Next, WriterStep, ReaderStep

-----------------------------------------------------------------------------
(* RecordInv holds at first.                                                  *)
LEMMA RecordAtFirst ==
  ASSUME Init
  PROVE  RecordInv
<1>1. /\ \A s \in Stream : Start[s] = 0 /\ Nothing[s] = {} /\ log[s] = <<>> /\ Length(s) = 0
      /\ Start \in Positions /\ Start \in Marks /\ Nothing \in Rows /\ Nothing \in [Stream -> SUBSET Index]
      /\ NoPlan \in [generation : Nat, rows : Rows, positions : Positions, sealed : Marks]
      /\ Everywhere(NotReached) \in [Stream -> 0 .. NotReached]
  BY NothingTyped DEF Init, Length
<1>2. WriterTypes
  <2>1. /\ now \in 1 .. MaxTime /\ log \in [Stream -> Seq([at : 1 .. MaxTime, minute : 1 .. MaxTime])]
    BY Constant DEF Init
  <2>2. checkpoint \in [generation : Nat, positions : Positions, sealed : Marks,
                        recording : BOOLEAN, spans : Seq(Span)]
    BY <1>1 DEF Init
  <2>3. \A m \in DOMAIN origins : origins[m] \in Positions
    BY DEF Init
  <2>4. /\ handed \in Positions /\ position \in Positions /\ drained \in Positions
        /\ queue \in [Stream -> SUBSET Index] /\ open \in [Stream -> SUBSET Index]
        /\ folded \in [Stream -> SUBSET Index] /\ dropped \in [Stream -> SUBSET Index]
        /\ sealed \in Marks /\ buffer \in Rows /\ reached \in [Stream -> 0 .. NotReached]
    BY <1>1 DEF Init
  <2>5. /\ disk \subseteq [gen : Nat, row : Row]
        /\ plan \in [generation : Nat, rows : Rows, positions : Positions, sealed : Marks]
        /\ intent \in Nat /\ generation \in Nat
    BY <1>1 DEF Init
  <2>6. skip \in Seq(Span) /\ spans \in Seq(Span) /\ pending \in Seq(Commands)
    BY DEF Init
  <2>7. /\ pc \in {"take", "drain", "sync", "plan", "files", "clear", "dead", "down"}
        /\ after \in {"pass", "commands", "stop"}
        /\ recording \in BOOLEAN /\ replaying \in BOOLEAN
        /\ behind \subseteq Stream /\ caught \subseteq Stream
    BY DEF Init
  <2> QED
    BY <2>1, <2>2, <2>3, <2>4, <2>5, <2>6, <2>7 DEF WriterTypes
<1>3. LogInv /\ MarksInv /\ SealedInv /\ OriginsInv
  <2>1. LogInv
    BY <1>1, Constant DEF LogInv
  <2>2. checkpoint.positions = Start /\ checkpoint.sealed = Start /\ plan.positions = Start
    BY DEF Init, NoPlan
  <2>3. MarksInv
    BY <1>1, <2>2 DEF MarksInv, Init
  <2>4. SealedInv
    BY <1>1, <2>2 DEF SealedInv, Behind, Init
  <2>5. OriginsInv
    BY <1>1 DEF OriginsInv, Init
  <2> QED
    BY <2>1, <2>3, <2>4, <2>5
<1>4. ReaderInv
  <2>1. reached = Everywhere(NotReached) /\ position = handed /\ caught = {}
    BY DEF Init
  <2>2. \A s \in Stream : reached[s] = NotReached
    BY <2>1 DEF Everywhere
  <2> QED
    BY <2>1, <2>2 DEF ReaderInv
<1>5. FilesInv /\ FoldedInv
  <2>1. /\ disk = {} /\ buffer = Nothing /\ pc = "take" /\ generation = 0 /\ open = Nothing
        /\ checkpoint.generation = 0 /\ plan.rows = Nothing
    BY DEF Init, NoPlan
  <2>2. FilesInv
    BY <1>1, <2>1 DEF FilesInv, UncommittedIsPlanned, NeverDoubled, BarsFit
  <2> QED
    BY <1>1, <2>1, <2>2 DEF FoldedInv
<1>6. SpansInv /\ DurableInv /\ MemoryInv
  <2>1. /\ spans = <<>> /\ skip = <<>> /\ checkpoint.spans = <<>> /\ recording = TRUE
        /\ checkpoint.recording = TRUE /\ replaying = FALSE /\ folded = Nothing
    BY DEF Init
  <2>2. DOMAIN spans = {} /\ DOMAIN skip = {}
    BY <2>1
  <2>3. Closed(spans) /\ Closed(skip) /\ SpansFit(spans, recording)
    BY <2>1, <2>2 DEF SpansFit, Closed
  <2>4. checkpoint.spans = spans /\ checkpoint.recording = recording
    BY <2>1
  <2>5. SpansInv
    BY <2>1, <2>3, <2>4 DEF SpansInv
  <2>6. \A s \in Stream : 1 .. Length(s) = {}
    BY <1>1
  <2>7. DurableInv
    BY <1>1, <2>1, <2>6 DEF DurableInv, Safe
  <2>8. MemoryInv
    BY <2>6 DEF MemoryInv
  <2> QED
    BY <2>5, <2>7, <2>8
<1> QED
  BY <1>2, <1>3, <1>4, <1>5, <1>6 DEF RecordInv

(* RecordInv is kept by every step.                                           *)
LEMMA RecordKept ==
  ASSUME RecordInv, [Next]_vars
  PROVE  RecordInv'
<1>1. /\ WriterTypes /\ LogInv /\ MarksInv /\ ReaderInv /\ SealedInv /\ OriginsInv /\ FilesInv /\ FoldedInv
      /\ lapses = {} => SpansInv /\ DurableInv /\ MemoryInv
  BY DEF RecordInv
<1>2. CASE Next
  <2>1. WriterTypes' /\ LogInv'
    BY <1>1, <1>2, TypesKept, LogKept
  <2>2. MarksInv' /\ ReaderInv' /\ SealedInv' /\ OriginsInv'
    BY <1>1, <1>2, <2>1, MarksKept, ReaderKept, SealedKept, OriginsKept
  <2>3. FilesInv' /\ FoldedInv'
    BY <1>1, <1>2, <2>1, FilesKept, FoldedKept
  <2>4. lapses' = {} => lapses = {}
    BY <1>1, <1>2, <2>1, Grown
  <2>5. lapses' = {} => SpansInv' /\ DurableInv' /\ MemoryInv'
    BY <1>1, <1>2, <2>1, <2>4, SpansKept, DurableKept, MemoryKept
  <2> QED
    BY <2>1, <2>2, <2>3, <2>5 DEF RecordInv
<1>3. CASE UNCHANGED vars
  <2>1. UNCHANGED <<now, log, handed, disk, checkpoint, intent, position, replaying, behind, reached, skip,
                    queue, pc, after, drained, caught, open, sealed, origins, buffer, recording, spans, pending,
                    generation, plan, folded, dropped, lapses>>
    BY <1>3 DEF vars, world, durable, reader, bars, control, commit, history
  <2>2. WriterTypes'
    BY <1>1, <2>1 DEF WriterTypes
  <2>3. LogInv' /\ MarksInv' /\ ReaderInv' /\ SealedInv' /\ OriginsInv'
    BY <1>1, <2>1 DEF LogInv, MarksInv, ReaderInv, SealedInv, OriginsInv, Behind, Length, Minute, Running
  <2>4. FilesInv' /\ FoldedInv'
    BY <1>1, <2>1 DEF FilesInv, FoldedInv, UncommittedIsPlanned, NeverDoubled, BarsFit, NewTo, Running
  <2>5. lapses' = {} => SpansInv' /\ DurableInv' /\ MemoryInv'
    <3>1. lapses = {} => SpansInv'
      BY <1>1, <2>1 DEF SpansInv, SpansFit, Closed, Commanding, Running, IsOpen
    <3>2. lapses = {} => DurableInv'
      <4>1. Committed' = Committed
        BY <2>1 DEF Committed
      <4>2. \A s \in Stream : \A i : OnDisk(s, i)' = OnDisk(s, i)
        BY <4>1 DEF OnDisk
      <4>3. \A s \in Stream : \A i : Replayable(s, i)' = Replayable(s, i)
        BY <2>1 DEF Replayable
      <4>4. \A s \in Stream : Length(s)' = Length(s) /\ \A i : Minute(s, i)' = Minute(s, i)
        BY <2>1 DEF Length, Minute
      <4>5. Safe' = Safe
        BY <2>1, <4>2, <4>3, <4>4 DEF Safe
      <4> QED
        BY <1>1, <2>1, <4>2, <4>4, <4>5 DEF DurableInv
    <3>3. lapses = {} => MemoryInv'
      <4>1. \A s \in Stream : \A i : Stored(s, i)' = Stored(s, i)
        BY <2>1 DEF Stored, InABar
      <4>2. \A s \in Stream : Length(s)' = Length(s) /\ \A i : Minute(s, i)' = Minute(s, i)
        BY <2>1 DEF Length, Minute
      <4>3. Running' = Running
        BY <2>1 DEF Running
      <4> QED
        BY <1>1, <2>1, <4>1, <4>2, <4>3 DEF MemoryInv
    <3> QED
      BY <2>1, <3>1, <3>2, <3>3
  <2> QED
    BY <2>2, <2>3, <2>4, <2>5 DEF RecordInv
<1> QED
  BY <1>2, <1>3

(* Where every entry is, and in which order the marks are, at every instant.   *)
LEMMA RecordAlways == Spec => []RecordInv
<1>1. Init => RecordInv
  BY RecordAtFirst
<1>2. RecordInv /\ [Next]_vars => RecordInv'
  BY RecordKept
<1> QED
  BY <1>1, <1>2, PTL DEF Spec

(* The types of the writer's state, and the order of the marks on each stream:  *)
(* what is folded was delivered, what is delivered was logged, and a mark on    *)
(* disk is never past the one in memory (StoreStream's ids, BarWriter's         *)
(* positions).                                                                *)
THEOREM WriterIsTyped == Spec => []TypeOK
<1>1. RecordInv => TypeOK
  <2> SUFFICES ASSUME RecordInv PROVE TypeOK
    OBVIOUS
  <2>1. WriterTypes /\ LogInv /\ MarksInv /\ SealedInv
    BY DEF RecordInv
  <2>2. \A s \in Stream : log[s] \in Seq([at : 1 .. now, minute : 1 .. now])
    <3> SUFFICES ASSUME NEW s \in Stream PROVE log[s] \in Seq([at : 1 .. now, minute : 1 .. now])
      OBVIOUS
    <3> DEFINE T == [at : 1 .. MaxTime, minute : 1 .. MaxTime]
               U == [at : 1 .. now, minute : 1 .. now]
    <3>1. log[s] \in Seq(T) /\ now \in Nat
      <4>1. log[s] \in Seq(T)
        BY <2>1 DEF WriterTypes
      <4>2. now \in 1 .. MaxTime
        BY <2>1 DEF WriterTypes
      <4> QED
        BY <4>1, <4>2, Constant
    <3>2. \A i \in 1 .. Len(log[s]) : log[s][i] \in U
      <4> SUFFICES ASSUME NEW i \in 1 .. Len(log[s]) PROVE log[s][i] \in U
        OBVIOUS
      <4>1. log[s][i] \in T
        <5> HIDE DEF T
        <5> QED
          BY <3>1
      <4>2. log[s][i].at <= now /\ log[s][i].minute <= log[s][i].at
        BY <2>1 DEF LogInv, Length, Minute
      <4>3. MaxTime \in Nat
        BY Constant
      <4> QED
        BY <3>1, <4>1, <4>2, <4>3
    <3> HIDE DEF T, U
    <3>3. log[s] \in Seq(U)
      BY <3>1, <3>2
    <3> QED
      BY <3>3 DEF U
  <2>3. \A s \in Stream : sealed[s] \in 0 .. now /\ buffer[s] \subseteq Row
    <3> SUFFICES ASSUME NEW s \in Stream PROVE sealed[s] \in 0 .. now /\ buffer[s] \subseteq Row
      OBVIOUS
    <3>1. sealed[s] \in Nat /\ Grace[s] \in Nat /\ now \in Nat
      <4>1. now \in 1 .. MaxTime
        BY <2>1 DEF WriterTypes
      <4>2. sealed[s] \in 0 .. MaxTime
        BY <2>1, Streams
      <4> QED
        BY <4>1, <4>2, Constant
    <3>2. sealed[s] = 0 \/ sealed[s] + 1 + Grace[s] <= now
      BY <2>1 DEF SealedInv, Behind
    <3>3. sealed[s] <= now
      BY <3>1, <3>2
    <3>4. buffer \in Rows
      BY <2>1 DEF WriterTypes
    <3> QED
      BY <3>1, <3>3, <3>4 DEF Rows
  <2>4. now \in 1 .. MaxTime + 1
    BY <2>1, Constant DEF WriterTypes
  <2>5. \A s \in Stream :
        /\ checkpoint.positions[s] <= handed[s] /\ handed[s] <= Length(s)
        /\ drained[s] <= position[s] /\ position[s] <= handed[s]
        /\ queue[s] \subseteq drained[s] + 1 .. position[s]
        /\ open[s] \subseteq 1 .. drained[s]
    BY <2>1 DEF MarksInv
  <2>6. /\ \A f \in disk : f.gen \in Nat /\ f.row \in Row
        /\ checkpoint.generation \in Nat /\ checkpoint.recording \in BOOLEAN
        /\ intent \in Nat /\ generation \in Nat
        /\ pc \in {"take", "drain", "sync", "plan", "files", "clear", "dead", "down"}
        /\ after \in {"pass", "commands", "stop"}
        /\ recording \in BOOLEAN /\ replaying \in BOOLEAN
        /\ behind \subseteq Stream /\ caught \subseteq Stream
    BY <2>1 DEF WriterTypes
  <2> QED
    BY <2>2, <2>3, <2>4, <2>5, <2>6 DEF TypeOK
<1> QED
  BY <1>1, RecordAlways, PTL

(* The record is exact at every instant, whatever crashes, stops, failed       *)
(* flushes, commands and late reads came before: no table holds two rows for a *)
(* minute, and unless one of the eight named situations has happened, every    *)
(* entry published while recording is in a committed file or will be replayed  *)
(* by the next start (BarWriter's commit, recover_intent and _replay).         *)
THEOREM TheRecordIsExact == Spec => []RecordIsExact
<1>1. RecordInv => RecordIsExact
  BY DEF RecordInv, FilesInv, DurableInv, RecordIsExact, NothingLost
<1> QED
  BY <1>1, RecordAlways, PTL

(* A resume invents nothing: no row of any table holds an entry that a paused  *)
(* writer dropped or a replay skipped (_in_skip_span, _finish_drain_pass).     *)
THEOREM NothingIsInvented == Spec => []NothingInvented
<1>1. RecordInv => NothingInvented
  <2> SUFFICES ASSUME RecordInv, lapses = {}, NEW f \in disk
               PROVE  f.row.entries \cap dropped[f.row.table] = {}
    BY DEF NothingInvented
  <2>1. f.row.entries \subseteq folded[f.row.table]
    BY DEF RecordInv, FoldedInv
  <2>2. f.row.table \in Stream
    BY DEF RecordInv, WriterTypes, Row
  <2>3. folded[f.row.table] \cap dropped[f.row.table] = {}
    BY <2>2 DEF RecordInv, DurableInv
  <2> QED
    BY <2>1, <2>3
<1> QED
  BY <1>1, RecordAlways, PTL

(* Every file of a generation the checkpoint has not taken over is named by    *)
(* the flush intent, so that recover_intent finds and removes it.              *)
THEOREM EveryFileIsVouchedFor == Spec => []UncommittedIsPlanned
<1>1. RecordInv => UncommittedIsPlanned
  BY DEF RecordInv, FilesInv
<1> QED
  BY <1>1, RecordAlways, PTL

(* A committed row stays as it is: unless one of the eight situations happens, *)
(* no rollback and no recovery takes away what a checkpoint has moved past     *)
(* (_roll_back, recover_intent).                                               *)
THEOREM CommittedRowsStay == Spec => CommittedStays
<1>1. RecordInv /\ [Next]_vars => [lapses' # {} \/ Committed \subseteq Committed']_vars
  <2> SUFFICES ASSUME RecordInv, Next, lapses' = {} PROVE Committed \subseteq Committed'
    OBVIOUS
  <2>1. /\ \A f \in disk : f.gen \in Nat
        /\ checkpoint.generation \in Nat /\ generation \in Nat /\ plan.generation \in Nat /\ intent \in Nat
    BY DEF RecordInv, WriterTypes
  <2>2. pc = "files" => plan.generation = checkpoint.generation + 1
    BY DEF RecordInv, FilesInv, Running
  <2>3. ~ClearFails
    BY DEF ClearFails
  <2>4. CASE checkpoint' = checkpoint
    <3>1. \A f \in disk : f.gen <= checkpoint.generation => f \in disk'
      <4>1. CASE disk' = disk
        BY <4>1
      <4>2. CASE \E s \in Stream : FlushTable(s)
        BY <4>2 DEF FlushTable
      <4>3. CASE CommitFails
        BY <2>1, <2>2, <4>3 DEF CommitFails, RollBack
      <4>4. CASE Restart
        BY <2>1, <4>4 DEF Restart, Recovered
      <4>5. disk' = disk \/ (\E s \in Stream : FlushTable(s)) \/ CommitFails \/ Restart
        BY <2>3 DEF Next, WriterStep, ReaderStep, Drain, ApplyCommand, PausedPass, SealPass, CommitPlan,
                    WriteCheckpoint, ClearIntent, ReplayRead, ReplayDone, GroupRead, SendCommand, Publish, Tick,
                    Stop, Crash, durable
      <4> QED
        BY <4>1, <4>2, <4>3, <4>4, <4>5
    <3> QED
      BY <2>4, <3>1 DEF Committed
  <2>5. CASE WriteCheckpoint
    <3>1. /\ disk' = disk /\ pc = "files"
          /\ checkpoint' = [generation |-> plan.generation, positions |-> plan.positions,
                            sealed |-> plan.sealed, recording |-> recording, spans |-> spans]
      BY <2>5 DEF WriteCheckpoint
    <3>2. checkpoint'.generation = checkpoint.generation + 1
      BY <2>2, <3>1
    <3>3. \A f \in disk : f.gen <= checkpoint.generation => f.gen <= checkpoint'.generation
      BY <2>1, <3>2
    <3> QED
      BY <3>1, <3>3 DEF Committed
  <2>6. checkpoint' = checkpoint \/ WriteCheckpoint
    BY <2>3 DEF Next, WriterStep, ReaderStep, Drain, ApplyCommand, PausedPass, SealPass, CommitPlan, FlushTable,
                ClearIntent, ReplayRead, ReplayDone, GroupRead, Restart, SendCommand, Publish, Tick,
                CommitFails, Stop, Crash, durable
  <2> QED
    BY <2>4, <2>5, <2>6
<1> QED
  BY <1>1, RecordAlways, PTL DEF Spec, CommittedStays

-----------------------------------------------------------------------------
(* The entries of a row are of its minute.                                    *)
MinutesFit ==
  /\ \A f \in disk : \A i \in f.row.entries : Minute(f.row.table, i) = f.row.minute
  /\ \A s \in Stream : \A r \in buffer[s] \cup plan.rows[s] : \A i \in r.entries : Minute(s, i) = r.minute

(* Every step keeps it: a bar is sealed with the entries of its minute, and     *)
(* what is flushed or put back is what was sealed.                            *)
LEMMA MinutesKept ==
  ASSUME RecordInv, MinutesFit, Next
  PROVE  MinutesFit'
<1>1. WriterTypes /\ LogInv /\ MarksInv /\ ReaderInv /\ FilesInv /\ FoldedInv
  BY DEF RecordInv
<1>2. /\ \A s \in Stream : \A i \in 1 .. Length(s) : log'[s][i].minute = Minute(s, i)
      /\ \A s \in Stream : folded[s] \subseteq 1 .. Length(s) /\ open[s] \subseteq 1 .. Length(s)
  <2>1. \A s \in Stream : \A i \in 1 .. Length(s) : log'[s][i].minute = Minute(s, i)
    BY <1>1, LogKept DEF Minute
  <2>2. ASSUME NEW s \in Stream PROVE folded[s] \subseteq 1 .. Length(s) /\ open[s] \subseteq 1 .. Length(s)
    <3>1. /\ folded[s] \subseteq 1 .. handed[s] /\ open[s] \subseteq 1 .. drained[s]
          /\ drained[s] <= position[s] /\ position[s] <= handed[s] /\ handed[s] <= Length(s)
      BY <1>1 DEF MarksInv
    <3>2. drained[s] \in Nat /\ position[s] \in Nat /\ handed[s] \in Nat /\ Length(s) \in Nat
      BY <1>1, Streams
    <3> QED
      BY <3>1, <3>2
  <2> QED
    BY <2>1, <2>2
<1>3. \A f \in disk' : f \in disk \/ (f.row.table \in Stream /\ f.row \in buffer[f.row.table])
  <2>1. ASSUME NEW s \in Stream, FlushTable(s)
        PROVE  \A f \in disk' : f \in disk \/ (f.row.table \in Stream /\ f.row \in buffer[f.row.table])
    <3>1. disk' = disk \cup {[gen |-> plan.generation, row |-> r] : r \in buffer[s]} /\ Running
      BY <2>1 DEF FlushTable, Running
    <3>2. \A r \in buffer[s] : r.table = s
      BY <1>1, <3>1 DEF FilesInv, BarsFit
    <3> QED
      BY <3>1, <3>2
  <2>2. disk' \subseteq disk \/ \E s \in Stream : FlushTable(s)
    BY DEF Next, WriterStep, ReaderStep, Drain, ApplyCommand, PausedPass, SealPass, CommitPlan, WriteCheckpoint,
           ClearIntent, ReplayRead, ReplayDone, GroupRead, Restart, Recovered, SendCommand, Publish, Tick,
           CommitFails, ClearFails, RollBack, Stop, Crash, durable
  <2> QED
    BY <2>1, <2>2
<1>4. \A s \in Stream : \A r \in buffer'[s] :
        r \in buffer[s] \cup plan.rows[s] \/ \A i \in r.entries : i \in open[s] /\ Minute(s, i) = r.minute
  <2>1. CASE ApplyCommand \/ SealPass \/ Stop
    <3>1. Running /\ \E others : Seal(others)
      BY <2>1 DEF ApplyCommand, SealPass, Stop, Running
    <3>2. \A s \in Stream : \A r \in buffer'[s] \ buffer[s] : r.entries = {i \in open[s] : Minute(s, i) = r.minute}
      BY <1>1, <3>1, SealFacts DEF SealEffect
    <3> QED
      BY <3>2
  <2>2. ASSUME NEW s \in Stream, FlushTable(s) PROVE \A t \in Stream : buffer'[t] \subseteq buffer[t]
    BY <1>1, <2>2 DEF FlushTable, WriterTypes, Rows
  <2>3. CASE CommitFails \/ ClearFails
    <3>1. buffer' = plan.rows \/ buffer' = buffer
      BY <2>3 DEF CommitFails, ClearFails, RollBack
    <3> QED
      BY <3>1
  <2>4. CASE Crash \/ Restart
    <3>1. \A s \in Stream : buffer'[s] = {}
      BY <2>4, NothingTyped DEF Crash, Restart
    <3> QED
      BY <3>1
  <2>5. \/ buffer' = buffer \/ ApplyCommand \/ SealPass \/ Stop \/ (\E s \in Stream : FlushTable(s))
        \/ CommitFails \/ ClearFails \/ Crash \/ Restart
    BY DEF Next, WriterStep, ReaderStep, Drain, PausedPass, CommitPlan, WriteCheckpoint, ClearIntent,
           ReplayRead, ReplayDone, GroupRead, SendCommand, Publish, Tick, bars
  <2> QED
    BY <2>1, <2>2, <2>3, <2>4, <2>5
<1>5. \A s \in Stream : \A r \in plan'.rows[s] : r \in buffer[s] \cup plan.rows[s]
  <2>1. plan' = NoPlan => \A s \in Stream : plan'.rows[s] = {}
    BY NothingTyped DEF NoPlan
  <2>2. CommitPlan => plan'.rows = buffer
    BY DEF CommitPlan
  <2>3. CommitPlan \/ plan' = plan \/ plan' = NoPlan
    BY DEF Next, WriterStep, ReaderStep, Drain, ApplyCommand, PausedPass, SealPass, FlushTable,
           WriteCheckpoint, ClearIntent, Return, ReplayRead, ReplayDone, GroupRead, Restart, SendCommand,
           Publish, Tick, CommitFails, ClearFails, Stop, Crash, commit
  <2> QED
    BY <2>1, <2>2, <2>3
<1>6. \A f \in disk : f.row.table \in Stream /\ f.row.entries \subseteq 1 .. Length(f.row.table)
  <2>1. \A f \in disk : f.row.table \in Stream /\ f.row.entries \subseteq folded[f.row.table]
    BY <1>1 DEF FoldedInv, WriterTypes, Row
  <2> QED
    BY <1>2, <2>1
<1>7. \A s \in Stream : \A r \in buffer[s] \cup plan.rows[s] : r.entries \subseteq 1 .. Length(s)
  BY <1>1, <1>2 DEF FoldedInv
<1>8. \A s \in Stream : \A r \in buffer[s] \cup plan.rows[s] : \A i \in r.entries : log'[s][i].minute = r.minute
  BY <1>2, <1>7 DEF MinutesFit
<1>9. \A f \in disk' : \A i \in f.row.entries : log'[f.row.table][i].minute = f.row.minute
  <2> SUFFICES ASSUME NEW f \in disk', NEW i \in f.row.entries
               PROVE  log'[f.row.table][i].minute = f.row.minute
    OBVIOUS
  <2>1. CASE f \in disk
    BY <1>2, <1>6, <2>1 DEF MinutesFit
  <2>2. CASE f.row.table \in Stream /\ f.row \in buffer[f.row.table]
    BY <1>8, <2>2
  <2> QED
    BY <1>3, <2>1, <2>2
<1>10. \A s \in Stream : \A r \in buffer'[s] \cup plan'.rows[s] : \A i \in r.entries : log'[s][i].minute = r.minute
  BY <1>2, <1>4, <1>5, <1>8
<1> QED
  BY <1>9, <1>10 DEF MinutesFit, Minute

(* Only a checkpoint changes what is committed: a failed commit and a recovery   *)
(* remove files the checkpoint had not taken over.                            *)
LEMMA OnlyCheckpointsCommit ==
  ASSUME RecordInv, Next, lapses' = {}
  PROVE  WriteCheckpoint \/ Committed' = Committed
<1>1. /\ \A f \in disk : f.gen \in Nat
      /\ checkpoint.generation \in Nat /\ generation \in Nat /\ plan.generation \in Nat /\ intent \in Nat
  BY DEF RecordInv, WriterTypes
<1>2. pc = "files" => plan.generation = checkpoint.generation + 1
  BY DEF RecordInv, FilesInv, Running
<1>3. ~ClearFails
  BY DEF ClearFails
<1>4. checkpoint' = checkpoint \/ WriteCheckpoint
  BY <1>3 DEF Next, WriterStep, ReaderStep, Drain, ApplyCommand, PausedPass, SealPass, CommitPlan, FlushTable,
              ClearIntent, ReplayRead, ReplayDone, GroupRead, Restart, SendCommand, Publish, Tick,
              CommitFails, Stop, Crash, durable
<1>5. \A f : f \in disk /\ f.gen <= checkpoint.generation <=> f \in disk' /\ f.gen <= checkpoint.generation
  <2>1. CASE disk' = disk
    BY <2>1
  <2>2. ASSUME NEW s \in Stream, FlushTable(s)
        PROVE  \A f : f \in disk /\ f.gen <= checkpoint.generation <=> f \in disk' /\ f.gen <= checkpoint.generation
    <3>1. /\ disk' = disk \cup {[gen |-> plan.generation, row |-> r] : r \in buffer[s]}
          /\ ~(plan.generation <= checkpoint.generation)
      BY <1>1, <1>2, <2>2 DEF FlushTable
    <3> QED
      BY <3>1
  <2>3. CASE CommitFails
    BY <1>1, <1>2, <2>3 DEF CommitFails, RollBack
  <2>4. CASE Restart
    BY <1>1, <2>4 DEF Restart, Recovered
  <2>5. disk' = disk \/ (\E s \in Stream : FlushTable(s)) \/ CommitFails \/ Restart
    BY <1>3 DEF Next, WriterStep, ReaderStep, Drain, ApplyCommand, PausedPass, SealPass, CommitPlan,
                WriteCheckpoint, ClearIntent, ReplayRead, ReplayDone, GroupRead, SendCommand, Publish, Tick,
                Stop, Crash, durable
  <2> QED
    BY <2>1, <2>2, <2>3, <2>4, <2>5
<1> QED
  BY <1>4, <1>5 DEF Committed

(* What is folded or dropped is on the log.                                   *)
LEMMA OnTheLog ==
  ASSUME WriterTypes, MarksInv, FoldedInv
  PROVE  /\ \A s \in Stream : folded[s] \subseteq 1 .. Length(s) /\ dropped[s] \subseteq 1 .. Length(s)
         /\ \A f \in disk : f.row.table \in Stream /\ f.row.entries \subseteq 1 .. Length(f.row.table)
<1>1. ASSUME NEW s \in Stream PROVE folded[s] \subseteq 1 .. Length(s) /\ dropped[s] \subseteq 1 .. Length(s)
  <2>1. /\ folded[s] \subseteq 1 .. handed[s] /\ dropped[s] \subseteq 1 .. handed[s] /\ handed[s] <= Length(s)
        /\ handed[s] \in Nat /\ Length(s) \in Nat
    BY Streams DEF MarksInv
  <2> QED
    BY <2>1
<1>2. \A f \in disk : f.row.table \in Stream /\ f.row.entries \subseteq folded[f.row.table]
  BY DEF FoldedInv, WriterTypes, Row
<1> QED
  BY <1>1, <1>2

(* What is published belongs to no committed minute: it is within its grace.    *)
LEMMA PublishedInTime ==
  ASSUME RecordInv, RecordInv', NEW s \in Stream, Publish(s)
  PROVE  Log!Publish
<1>1. WriterTypes /\ LogInv /\ MarksInv /\ SealedInv /\ FilesInv
  BY DEF RecordInv
<1>2. PICK m \in 1 .. now : /\ now <= m + Grace[s]
                           /\ log' = [log EXCEPT ![s] = Append(@, [at |-> now, minute |-> m])]
  BY DEF Publish
<1> DEFINE n == Len(log[s])
           x == [at |-> now, minute |-> m]
           e == [table |-> s, minute |-> m, id |-> n + 1]
<1>3. log[s] \in Seq([at : 1 .. MaxTime, minute : 1 .. MaxTime]) /\ n \in Nat
  BY <1>1, Streams DEF WriterTypes, Length
<1>4. /\ log'[s] = Append(log[s], x)
      /\ \A r \in Stream : r # s => log'[r] = log[r]
  BY <1>1, <1>2 DEF WriterTypes
<1>5. /\ Len(log'[s]) = n + 1 /\ log'[s][n + 1] = x
      /\ \A i \in 1 .. n : log'[s][i] = log[s][i]
  <2> DEFINE T == [at : 1 .. MaxTime, minute : 1 .. MaxTime]
  <2>1. log[s] \in Seq(T)
    BY <1>3
  <2> HIDE DEF T, x
  <2>2. /\ Len(Append(log[s], x)) = Len(log[s]) + 1 /\ Append(log[s], x)[Len(log[s]) + 1] = x
        /\ \A i \in 1 .. Len(log[s]) : Append(log[s], x)[i] = log[s][i]
    BY <2>1
  <2> QED
    BY <1>4, <2>2
<1>6. Logged' = Logged \cup {e}
  <2>1. \A y : y \in Logged <=> \E r \in Stream : \E i \in 1 .. Len(log[r]) :
                 y = [table |-> r, minute |-> log[r][i].minute, id |-> i]
    BY DEF Logged, Entry, Minute, Length
  <2>2. \A y : y \in Logged' <=> \E r \in Stream : \E i \in 1 .. Len(log'[r]) :
                 y = [table |-> r, minute |-> log'[r][i].minute, id |-> i]
    BY DEF Logged, Entry, Minute, Length
  <2>3. \A i : i \in 1 .. Len(log'[s]) <=> i \in 1 .. n \/ i = n + 1
    BY <1>3, <1>5
  <2>4. e \in Logged'
    <3>1. n + 1 \in 1 .. Len(log'[s]) /\ log'[s][n + 1].minute = m
      BY <1>5, <2>3
    <3> QED
      BY <2>2, <3>1
  <2> HIDE DEF n, e, x
  <2>5. ASSUME NEW y \in Logged PROVE y \in Logged'
    <3>1. PICK r \in Stream : \E i \in 1 .. Len(log[r]) :
                 y = [table |-> r, minute |-> log[r][i].minute, id |-> i]
      BY <2>1
    <3>2. PICK i \in 1 .. Len(log[r]) : y = [table |-> r, minute |-> log[r][i].minute, id |-> i]
      BY <3>1
    <3>3. i \in 1 .. Len(log'[r]) /\ log'[r][i] = log[r][i]
      BY <1>4, <1>5, <2>3 DEF n
    <3> QED
      BY <2>2, <3>2, <3>3
  <2>6. ASSUME NEW y \in Logged' PROVE y \in Logged \/ y = e
    <3>1. PICK r \in Stream : \E i \in 1 .. Len(log'[r]) :
                 y = [table |-> r, minute |-> log'[r][i].minute, id |-> i]
      BY <2>2
    <3>2. PICK i \in 1 .. Len(log'[r]) : y = [table |-> r, minute |-> log'[r][i].minute, id |-> i]
      BY <3>1
    <3>3. CASE r = s /\ i = n + 1
      BY <1>5, <3>2, <3>3 DEF e, x
    <3>4. CASE ~(r = s /\ i = n + 1)
      <4>1. i \in 1 .. Len(log[r]) /\ log'[r][i] = log[r][i]
        BY <1>4, <1>5, <2>3, <3>2, <3>4 DEF n
      <4> QED
        BY <2>1, <3>2, <4>1
    <3> QED
      BY <3>3, <3>4
  <2> QED
    BY <2>4, <2>5, <2>6
<1>7. ~Log!Recorded(e)
  <2> SUFFICES ASSUME NEW r \in Committed, r.table = s, r.minute = m PROVE FALSE
    BY DEF Log!Recorded, Log!SameMinute
  <2>1. PICK f \in disk : f.row = r /\ f.gen <= checkpoint.generation
    BY DEF Committed
  <2>2. m <= checkpoint.sealed[s]
    BY <1>1, <2>1 DEF FilesInv
  <2>3. checkpoint.sealed[s] = 0 \/ checkpoint.sealed[s] + 1 + Grace[s] <= now
    BY <1>1 DEF SealedInv, Behind
  <2>4. checkpoint.sealed[s] \in Nat /\ Grace[s] \in Nat /\ now \in Nat /\ m \in Nat /\ 1 <= m
    <3>1. checkpoint.sealed[s] \in 0 .. MaxTime /\ now \in 1 .. MaxTime
      BY <1>1, Streams DEF WriterTypes
    <3> QED
      BY <1>2, <3>1, Constant
  <2> QED
    BY <1>2, <2>2, <2>3, <2>4
<1>8. Refused' = Refused /\ Committed' = Committed
  <2>1. UNCHANGED <<dropped, disk, checkpoint>>
    BY DEF Publish, durable, history
  <2>2. Committed' = Committed
    BY <2>1 DEF Committed
  <2>3. \A r \in Stream : \A i \in dropped[r] : log'[r][i] = log[r][i]
    BY <1>1, LogKept, OnTheLog DEF RecordInv, Next
  <2>4. \A r \in Stream : {Entry(r, i) : i \in dropped[r]}' = {Entry(r, i) : i \in dropped[r]}
    BY <2>1, <2>3 DEF Entry, Minute
  <2> QED
    BY <2>2, <2>4 DEF Refused
<1> QED
  <2> HIDE DEF e
  <2>1. e \in Logged'
    BY <1>6
  <2> QED
    BY <1>6, <1>7, <1>8, <2>1 DEF Log!Publish


(* What is dropped or skipped belongs to no committed minute: an entry of one is  *)
(* in its row or was refused before, and what was folded is never refused.      *)
LEMMA RefusedInTime ==
  ASSUME RecordInv, RecordInv', lapses = {}, lapses' = {}, Next, log' = log, Committed' = Committed
  PROVE  Log!Refuse
<1>1. /\ WriterTypes /\ LogInv /\ MarksInv /\ ReaderInv /\ FilesInv /\ FoldedInv /\ DurableInv
      /\ WriterTypes' /\ MarksInv' /\ FoldedInv' /\ DurableInv'
  BY DEF RecordInv
<1>2. /\ \A s \in Stream : folded[s] \subseteq folded'[s] /\ dropped[s] \subseteq dropped'[s]
      /\ \A s \in Stream : dropped'[s] \subseteq 1 .. Len(log[s])
  <2>1. \A s \in Stream : folded[s] \subseteq folded'[s] /\ dropped[s] \subseteq dropped'[s]
    BY <1>1, Grown
  <2>2. ASSUME NEW s \in Stream PROVE dropped'[s] \subseteq 1 .. Len(log[s])
    <3>1. /\ dropped'[s] \subseteq 1 .. handed'[s] /\ handed'[s] <= Len(log'[s])
          /\ handed'[s] \in 0 .. MaxEntries
      BY <1>1 DEF MarksInv, WriterTypes, Positions, Length
    <3>2. Len(log[s]) \in Nat
      BY <1>1, Streams DEF Length
    <3> QED
      BY <3>1, <3>2, Constant
  <2> QED
    BY <2>1, <2>2
<1>3. Logged' = Logged
  BY DEF Logged, Entry, Minute, Length
<1>4. /\ \A e : e \in Refused <=> \E s \in Stream : \E i \in dropped[s] : e = Entry(s, i)
      /\ \A e : e \in Refused' <=> \E s \in Stream : \E i \in dropped'[s] : e = Entry(s, i)
      /\ \A e : e \in Logged <=> \E s \in Stream : \E i \in 1 .. Len(log[s]) : e = Entry(s, i)
  BY DEF Refused, Logged, Entry, Minute, Length
<1>5. Refused \subseteq Refused' /\ Refused' \subseteq Logged
  BY <1>2, <1>4
<1>6. ASSUME NEW e \in Refused' \ Refused PROVE ~Log!Recorded(e)
  <2>1. PICK s \in Stream : \E i \in dropped'[s] : e = Entry(s, i)
    BY <1>4, <1>6
  <2>2. PICK i \in dropped'[s] : e = Entry(s, i)
    BY <2>1
  <2>3. i \notin dropped[s] /\ i \in 1 .. Length(s)
    BY <1>2, <1>4, <1>6, <2>2 DEF Length
  <2>4. i \notin folded[s]
    <3>1. folded'[s] \cap dropped'[s] = {}
      BY <1>1 DEF DurableInv
    <3> QED
      BY <1>2, <2>2, <3>1
  <2>5. ~OnDisk(s, i)
    BY <1>1, <2>4 DEF OnDisk, Committed, FoldedInv
  <2>6. ~(Minute(s, i) <= checkpoint.sealed[s])
    BY <1>1, <2>3, <2>5 DEF DurableInv
  <2>7. \A r \in Committed : r.table = s => r.minute <= checkpoint.sealed[s]
    BY <1>1 DEF FilesInv, Committed
  <2> QED
    BY <2>2, <2>6, <2>7 DEF Log!Recorded, Log!SameMinute, Entry
<1> QED
  BY <1>3, <1>5, <1>6 DEF Log!Refuse

(* A commit adds whole minutes: everything of a sealed minute is in a committed   *)
(* file or was refused, and a minute has one row.                             *)
LEMMA CommitsWholeMinutes ==
  ASSUME RecordInv, MinutesFit, RecordInv', MinutesFit', lapses = {}, lapses' = {}, WriteCheckpoint
  PROVE  Log!Commit
<1>1. /\ WriterTypes /\ MarksInv /\ FilesInv /\ FoldedInv /\ DurableInv
      /\ FilesInv' /\ DurableInv'
  BY DEF RecordInv
<1>2. /\ UNCHANGED <<log, disk, dropped, folded>> /\ pc = "files"
      /\ checkpoint'.generation = plan.generation
  BY DEF WriteCheckpoint, world, history
<1>3. /\ plan.generation = checkpoint.generation + 1
      /\ checkpoint.generation \in Nat /\ \A f \in disk : f.gen \in Nat
  BY <1>1, <1>2 DEF FilesInv, Running, WriterTypes
<1>4. Logged' = Logged /\ Refused' = Refused
  BY <1>2 DEF Logged, Refused, Entry, Minute, Length
<1>5. Committed \subseteq Committed'
  <2>1. \A f \in disk : f.gen <= checkpoint.generation => f.gen <= checkpoint'.generation
    BY <1>2, <1>3
  <2> QED
    BY <1>2, <2>1 DEF Committed
<1>6. ASSUME NEW r \in Committed' \ Committed
      PROVE  r.entries = Log!WholeMinute(r) /\ ~Log!Recorded(r)
  <2>1. PICK f \in disk : f.row = r /\ f.gen <= checkpoint'.generation
    BY <1>2, <1>6 DEF Committed
  <2>2. ~(f.gen <= checkpoint.generation)
    BY <1>6, <2>1 DEF Committed
  <2>3. \A g \in disk : g.row.table = r.table /\ g.row.minute = r.minute => g = f
    BY <1>1, <2>1 DEF FilesInv, NeverDoubled
  <2>4. ~Log!Recorded(r)
    BY <2>2, <2>3 DEF Log!Recorded, Log!SameMinute, Committed
  <2>5. r.table \in Stream /\ r.entries \subseteq 1 .. Length(r.table) /\ r.entries \subseteq folded[r.table]
    BY <1>1, <2>1, OnTheLog DEF FoldedInv
  <2>6. \A i \in r.entries : Minute(r.table, i) = r.minute /\ i \notin dropped[r.table]
    BY <1>1, <2>1, <2>5 DEF MinutesFit, DurableInv
  <2>7. ASSUME NEW i \in 1 .. Length(r.table), Minute(r.table, i) = r.minute, i \notin dropped[r.table]
        PROVE  i \in r.entries
    <3>1. r.minute <= checkpoint'.sealed[r.table]
      BY <1>1, <1>2, <2>1 DEF FilesInv
    <3>2. \A s \in Stream : \A j \in 1 .. Length(s) :
            Minute(s, j) <= checkpoint'.sealed[s] => j \in dropped[s] \/ OnDisk(s, j)'
      BY <1>1, <1>2 DEF DurableInv, Length, Minute
    <3>3. OnDisk(r.table, i)'
      BY <2>5, <2>7, <3>1, <3>2
    <3>4. PICK q \in Committed' : q.table = r.table /\ i \in q.entries
      BY <3>3 DEF OnDisk
    <3>5. PICK g \in disk : g.row = q
      BY <1>2, <3>4 DEF Committed
    <3>6. g.row.minute = r.minute
      BY <2>7, <3>4, <3>5 DEF MinutesFit
    <3> QED
      BY <2>1, <2>3, <3>4, <3>5, <3>6
  <2>8. \A i : i \in r.entries <=> i \in 1 .. Length(r.table) /\ Minute(r.table, i) = r.minute /\ i \notin dropped[r.table]
    BY <2>5, <2>6, <2>7
  <2>9. \A e : e \in Logged \ Refused /\ Log!SameMinute(e, r) <=>
          \E i \in 1 .. Length(r.table) : /\ e = Entry(r.table, i) /\ Minute(r.table, i) = r.minute
                                         /\ i \notin dropped[r.table]
    <3>1. \A e : e \in Logged <=> \E s \in Stream : \E i \in 1 .. Length(s) : e = Entry(s, i)
      BY DEF Logged
    <3>2. \A e : e \in Refused <=> \E s \in Stream : \E i \in dropped[s] : e = Entry(s, i)
      BY DEF Refused
    <3>3. \A s, i : Entry(s, i).table = s /\ Entry(s, i).minute = Minute(s, i) /\ Entry(s, i).id = i
      BY DEF Entry
    <3>4. ASSUME NEW e \in Logged \ Refused, Log!SameMinute(e, r)
          PROVE  \E i \in 1 .. Length(r.table) : /\ e = Entry(r.table, i) /\ Minute(r.table, i) = r.minute
                                                /\ i \notin dropped[r.table]
      <4>1. PICK s \in Stream : \E i \in 1 .. Length(s) : e = Entry(s, i)
        BY <3>1, <3>4
      <4>2. PICK i \in 1 .. Length(s) : e = Entry(s, i)
        BY <4>1
      <4>3. s = r.table /\ Minute(s, i) = r.minute
        BY <3>3, <3>4, <4>2 DEF Log!SameMinute
      <4>4. i \notin dropped[s]
        BY <3>2, <3>4, <4>2
      <4> QED
        BY <4>2, <4>3, <4>4
    <3>5. ASSUME NEW i \in 1 .. Length(r.table), Minute(r.table, i) = r.minute, i \notin dropped[r.table]
          PROVE  Entry(r.table, i) \in Logged \ Refused /\ Log!SameMinute(Entry(r.table, i), r)
      <4>1. Entry(r.table, i) \in Logged
        BY <2>5, <3>1, <3>5
      <4>2. Entry(r.table, i) \notin Refused
        <5> SUFFICES ASSUME NEW s \in Stream, NEW j \in dropped[s], Entry(r.table, i) = Entry(s, j) PROVE FALSE
          BY <3>2
        <5>1. s = r.table /\ j = i
          BY <3>3
        <5> QED
          BY <3>5, <5>1
      <4> QED
        BY <3>3, <3>5, <4>1, <4>2 DEF Log!SameMinute
    <3> QED
      BY <3>4, <3>5
  <2>10. \A i : i \in Log!WholeMinute(r) <=> i \in r.entries
    <3>1. \A i : i \in Log!WholeMinute(r) <=> \E e \in Logged \ Refused : Log!SameMinute(e, r) /\ i = e.id
      BY DEF Log!WholeMinute
    <3>2. \A s, i : Entry(s, i).id = i
      BY DEF Entry
    <3> QED
      BY <2>8, <2>9, <3>1, <3>2
  <2>11. r.entries \in SUBSET Nat
    BY <2>5
  <2> QED
    BY <2>4, <2>10
<1> QED
  BY <1>4, <1>5, <1>6 DEF Log!Commit

(* The split store implements a recorded log (consume_group's reader, BarWriter    *)
(* and _store-checkpoint.json): a reader of the committed files sees each minute   *)
(* of each table once, whole and final, whatever crashes, replays, pauses and       *)
(* failed flushes went before, until one of the eight situations happens.        *)
THEOREM ImplementsRecordedLog == Spec => IsARecordedLog
<1> DEFINE Inv == RecordInv /\ MinutesFit
<1>1. Init => Log!Init /\ MinutesFit
  <2> SUFFICES ASSUME Init PROVE Log!Init /\ MinutesFit
    OBVIOUS
  <2>1. /\ log = [s \in Stream |-> <<>>] /\ disk = {} /\ buffer = Nothing /\ plan = NoPlan
        /\ dropped = Nothing /\ lapses = {}
    BY DEF Init
  <2>2. \A s \in Stream : Length(s) = 0 /\ dropped[s] = {} /\ buffer[s] = {} /\ plan.rows[s] = {}
    BY <2>1 DEF Length, Nothing, NoPlan
  <2>3. Logged = {}
    BY <2>2 DEF Logged
  <2>4. Refused = {}
    BY <2>2 DEF Refused
  <2>5. Committed = {}
    BY <2>1 DEF Committed
  <2>6. MinutesFit
    BY <2>1, <2>2 DEF MinutesFit
  <2> QED
    BY <2>1, <2>3, <2>4, <2>5, <2>6 DEF Log!Init
<1>2. RecordInv /\ RecordInv' /\ MinutesFit /\ [Next]_vars => MinutesFit'
  <2>1. ASSUME UNCHANGED vars, MinutesFit PROVE MinutesFit'
    BY <2>1 DEF vars, world, durable, bars, commit, MinutesFit, Minute
  <2> QED
    BY <2>1, MinutesKept
<1>3. Inv /\ Inv' /\ [Next]_vars => [Log!Next]_(Log!vars)
  <2>1. ASSUME UNCHANGED vars PROVE UNCHANGED Log!vars
    BY <2>1 DEF vars, world, durable, history, Log!vars, Logged, Refused, Entry, Minute, Length, Committed
  <2>2. ASSUME Inv, Inv', Next PROVE Log!Next
    <3>1. CASE lapses' # {}
      BY <3>1 DEF Log!Next
    <3>2. CASE lapses' = {}
      <4>1. lapses = {}
        BY <2>2, <3>2, Grown DEF RecordInv
      <4>2. ASSUME NEW s \in Stream, Publish(s) PROVE Log!Publish
        BY <2>2, <4>2, PublishedInTime
      <4>3. ASSUME WriteCheckpoint PROVE Log!Commit
        BY <2>2, <3>2, <4>1, <4>3, CommitsWholeMinutes
      <4>4. ASSUME log' = log, Committed' = Committed PROVE Log!Refuse
        BY <2>2, <3>2, <4>1, <4>4, RefusedInTime
      <4>5. WriteCheckpoint \/ Committed' = Committed
        BY <2>2, <3>2, OnlyCheckpointsCommit
      <4>6. log' = log \/ \E s \in Stream : Publish(s)
        BY <2>2 DEF Next, WriterStep, ReaderStep, Drain, ApplyCommand, PausedPass, SealPass, CommitPlan,
                    FlushTable, WriteCheckpoint, ClearIntent, ReplayRead, ReplayDone, GroupRead, Restart,
                    SendCommand, Tick, CommitFails, ClearFails, Stop, Crash, world
      <4>7. Log!Publish \/ Log!Refuse \/ Log!Commit
        <5>1. (\E s \in Stream : Publish(s)) => Log!Publish
          BY <4>2
        <5>2. WriteCheckpoint => Log!Commit
          BY <4>3
        <5>3. log' = log /\ Committed' = Committed => Log!Refuse
          BY <4>4
        <5> QED
          BY <4>5, <4>6, <5>1, <5>2, <5>3
      <4> QED
        BY <3>2, <4>7 DEF Log!Next
    <3> QED
      BY <3>1, <3>2
  <2> QED
    BY <2>1, <2>2
<1> QED
  BY <1>1, <1>2, <1>3, RecordAlways, PTL DEF Spec, IsARecordedLog, Log!Spec
=============================================================================
