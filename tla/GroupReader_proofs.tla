------------------------- MODULE GroupReader_proofs -------------------------
(* Theorems about GroupReader for every read size, retry budget, number of    *)
(* entries and number of faults, and for both kinds of consumer.              *)
EXTENDS GroupReader, FiniteSetTheorems, WellFoundedInduction, TLAPS

(* What became of an entry, as far as a restart is concerned: it is stored,   *)
(* one of the three leaks has it, or retention took it.                       *)
Accounted(i) == i \in kept \cup vanished \cup unreplayed \cup early \/ i <= trimmed
Covered(i) == i \in got \/ Accounted(i)

(* Where the reader can be at which moment of its life.                       *)
Phases ==
  /\ saved = None => cursor = -1
  /\ ~checkpoints => saved = None
  /\ ~exists => pc \in {"down", "lost"} /\ saved = None /\ pel = {} /\ kept = {} /\ got = {}
  /\ ~exists /\ checkpoints => pc = "down"
  /\ pc \in {"gaps", "positions", "replay"} => cursor # -1
  /\ pc = "down" => got = {}
HandedOut ==
  /\ got \subseteq 1..last /\ kept \subseteq 1..last /\ pel \subseteq 1..last
  /\ position.id <= added /\ saved.id <= added

(* A batch in hand is the oldest part of the pending list, and what of it no  *)
(* longer has fields was trimmed.                                             *)
InHand ==
  pc \in {"ack", "adoptAck", "drainAck"} =>
    /\ batch \subseteq pel
    /\ \A i \in batch, j \in pel \ batch : i < j
    /\ \A i \in batch \ live : i <= trimmed

(* New entries are read, and a replay begun, with nothing pending.            *)
NothingPending ==
  /\ pc = "ack" => ~recover /\ pel = batch
  /\ pc = "read" /\ ~recover => pel = {}
  /\ pc \in {"positions", "replay"} => pel = {}

(* What is pending is newer than everything delivered in this life, and, with *)
(* no checkpoint, in any.                                                     *)
PendingIsAhead ==
  /\ \A i \in pel, j \in got : i > j
  /\ ~checkpoints => (got \cup pel) \cap kept = {}

(* A replay has delivered what is up to its cursor, and nothing past it.      *)
ReplayCovers ==
  cursor # -1 /\ pc \in {"gaps", "adopt", "adoptAck", "positions", "replay"} =>
    /\ saved.id <= position.id /\ position.id <= cursor
    /\ pc # "replay" => got = {}
    /\ \A i \in got : i <= cursor
    /\ \A i \in (base + 1)..cursor : Covered(i)
    /\ \A i \in Retained : saved.id < i /\ i <= cursor => i \in got

(* A position names only what has been accounted for, a saved one what will   *)
(* still be after a crash.                                                    *)
PositionsCover ==
  /\ saved = None /\ checkpoints => got \subseteq early
  /\ saved # None =>
       /\ \A i \in (base + 1)..saved.id : Accounted(i)
       /\ \A i \in (base + 1)..position.id : Covered(i)

(* A reader that is past its replay, or never had one, has behind the group's *)
(* position only what is covered or pending.                                  *)
Passing ==
  \/ saved = None
  \/ pc \in {"read", "ack", "drain", "drainAck"}
  \/ cursor = -1 /\ pc \in {"adopt", "adoptAck"}
GroupIsCovered == Passing => \A i \in (base + 1)..last : i \in pel \/ Covered(i)

ReaderInv ==
  /\ TypeOK /\ Phases /\ HandedOut /\ InHand /\ NothingPending /\ PendingIsAhead
  /\ ReplayCovers /\ PositionsCover /\ GroupIsCovered

USE ReaderAssumption

----------------------------------------------------------------------------
(* A set of entries has a first and a last one.                               *)
LEMMA FirstExists ==
  ASSUME NEW S \in SUBSET Nat, S # {}
  PROVE  \E i \in S : \A j \in S : i <= j
<1>1. PICK i \in S : \A j \in S : <<j, i>> \notin OpToRel(<, Nat)
  BY NatLessThanWellFounded, WFMin
<1>2. \A j \in S : ~(j < i)
  BY <1>1 DEF OpToRel
<1> QED
  BY <1>2

(* A non-empty set of entry ids up to a bound has a last one.                    *)
LEMMA LastOfIds ==
  ASSUME NEW S \in SUBSET Ids, S # {}
  PROVE  Max(S) \in S /\ \A j \in S : Max(S) >= j
<1> DEFINE Above == {n \in 0..MaxEntries : \A j \in S : n >= j}
<1>1. Above \in SUBSET Nat /\ MaxEntries \in Above
  BY DEF Ids
<1>2. PICK n \in Above : \A m \in Above : n <= m
  BY <1>1, FirstExists
<1>3. n \in S
  <2> SUFFICES ASSUME n \notin S PROVE FALSE
    OBVIOUS
  <2>1. \A j \in S : j \in Nat /\ j < n
    BY <1>2 DEF Ids
  <2>2. n \in 0..MaxEntries
    BY <1>2
  <2>3. PICK j \in S : TRUE
    OBVIOUS
  <2>4. n - 1 \in 0..MaxEntries
    BY <2>1, <2>2, <2>3
  <2>5. \A k \in S : n - 1 >= k
    BY <2>1, <2>2
  <2> QED
    BY <2>2, <2>4, <2>5, <1>2
<1>4. \E i \in S : \A j \in S : i >= j
  BY <1>2, <1>3
<1> QED
  BY <1>4 DEF Max

(* A set of entry ids is finite, so its size is a number.                        *)
LEMMA PartOfIds ==
  ASSUME NEW S \in SUBSET Ids
  PROVE  IsFiniteSet(S) /\ Cardinality(S) \in Nat
<1>1. IsFiniteSet(Ids)
  BY FS_Interval DEF Ids
<1> QED
  BY <1>1, FS_Subset, FS_CardinalityType

(* A COUNTed read returns the oldest of the entries, and some if there are any. *)
LEMMA LowestReads ==
  ASSUME NEW S \in SUBSET Ids
  PROVE  /\ Lowest(S) \subseteq S
         /\ S # {} => Lowest(S) # {}
         /\ \A i \in Lowest(S), j \in S : j <= i => j \in Lowest(S)
<1>1. Lowest(S) \subseteq S
  BY DEF Lowest
<1>2. ASSUME S # {} PROVE Lowest(S) # {}
  <2>1. PICK i \in S : \A j \in S : i <= j
    BY <1>2, FirstExists DEF Ids
  <2>2. \A j \in S : j \in Nat /\ i \in Nat /\ (j <= i => j = i)
    BY <2>1 DEF Ids
  <2>3. {j \in S : j <= i} = {i}
    <3>1. \A x \in {j \in S : j <= i} : x = i
      BY <2>2
    <3>2. i \in {j \in S : j <= i}
      BY <2>2
    <3> QED
      BY <3>1, <3>2
  <2>4. Cardinality({j \in S : j <= i}) = 1
    BY <2>3, FS_Singleton
  <2>5. i \in Lowest(S)
    BY <2>4 DEF Lowest
  <2> QED
    BY <2>5
<1>3. ASSUME NEW i \in Lowest(S), NEW j \in S, j <= i PROVE j \in Lowest(S)
  <2> DEFINE Upto(k) == {m \in S : m <= k}
  <2>a. \A m \in S : m \in Nat
    BY DEF Ids
  <2>b. i \in Nat /\ j \in Nat
    BY <1>1, <2>a
  <2>c. \A m \in S : m <= j => m <= i
    BY <1>3, <2>a, <2>b
  <2>1. Upto(j) \in SUBSET Upto(i)
    BY <2>c
  <2>2. Upto(i) \in SUBSET Ids /\ Upto(j) \in SUBSET Ids
    OBVIOUS
  <2>3. Cardinality(Upto(j)) <= Cardinality(Upto(i))
    BY <2>1, <2>2, PartOfIds, FS_Subset
  <2>4. Cardinality(Upto(i)) <= ReadCount
    BY DEF Lowest
  <2>5. Cardinality(Upto(j)) \in Nat /\ Cardinality(Upto(i)) \in Nat
    BY <2>2, PartOfIds
  <2>6. Cardinality(Upto(j)) <= ReadCount
    BY <2>3, <2>4, <2>5
  <2> QED
    BY <2>6 DEF Lowest
<1> QED
  BY <1>1, <1>2, <1>3
(* What a delivery does to the reader's side.                                 *)
LEMMA Delivered ==
  ASSUME TypeOK, NEW S \in SUBSET Ids, Deliver(S)
  PROVE  /\ got' = got \cup S /\ got' \subseteq Ids
         /\ position' \in Position
         /\ S = {} => position' = position
         /\ S # {} => position'.id \in S /\ \A j \in S : position'.id >= j
         /\ position'.index = position.index + Cardinality(S)
         /\ early \subseteq early' /\ early' \subseteq Ids
         /\ checkpoints /\ saved = None => early' = early \cup S
         /\ ~(checkpoints /\ saved = None) => early' = early
<1>1. got' = got \cup S /\ got' \subseteq Ids
  BY DEF Deliver, TypeOK
<1>2. /\ early \subseteq early' /\ early' \subseteq Ids
      /\ checkpoints /\ saved = None => early' = early \cup S
      /\ ~(checkpoints /\ saved = None) => early' = early
  BY DEF Deliver, TypeOK
<1>3. CASE S = {}
  <2>1. position' = position /\ position.index \in Nat /\ position \in Position
    BY <1>3 DEF Deliver, TypeOK, Position
  <2> QED
    BY <1>1, <1>2, <1>3, <2>1, FS_EmptySet
<1>4. CASE S # {}
  <2>1. position' = [id |-> Max(S), index |-> position.index + Cardinality(S)]
    BY <1>4 DEF Deliver
  <2>2. Max(S) \in S /\ \A j \in S : Max(S) >= j
    BY <1>4, LastOfIds
  <2>a. \A j \in S : j \in 0..MaxEntries
    BY DEF Ids
  <2>3. Max(S) \in 0..MaxEntries
    BY <2>2, <2>a
  <2>4. position.index \in Nat /\ Cardinality(S) \in Nat
    BY PartOfIds DEF TypeOK, Position
  <2>5. position' \in Position
    BY <2>1, <2>3, <2>4 DEF Position
  <2> QED
    BY <1>1, <1>2, <1>4, <2>1, <2>2, <2>5
<1> QED
  BY <1>3, <1>4

(* Retention only takes entries away from what there was below the last one.  *)
LEMMA MoreTrimmed ==
  ASSUME NEW t \in Nat, NEW u \in Nat, NEW a \in Nat, NEW c \in Int, t <= u, c <= a
  PROVE  \A i \in (u + 1)..(a + 1) : i <= c => i \in (t + 1)..a
OBVIOUS

(* What XREADGROUP does to the group, when there is something to read.        *)
LEMMA HandedOver ==
  ASSUME TypeOK, Undelivered # {}, HandOver(Lowest(Undelivered))
  PROVE  /\ Lowest(Undelivered) \subseteq (last + 1)..last'
         /\ last' \in last..added
         /\ pel' = pel \cup Lowest(Undelivered)
         /\ \A i \in (last + 1)..last' : i \in Lowest(Undelivered) \/ i <= trimmed
<1> DEFINE L == Lowest(Undelivered)
<1>0. /\ added \in Nat /\ trimmed \in Nat /\ last \in Nat /\ last <= added
      /\ added <= MaxEntries /\ trimmed <= added
  BY DEF TypeOK
<1>1. \A i : i \in Undelivered <=> i \in Nat /\ trimmed < i /\ last < i /\ i <= added
  BY <1>0 DEF Undelivered, Retained
<1>2. Undelivered \in SUBSET Ids
  BY <1>0, <1>1 DEF Ids
<1>3. /\ L \subseteq Undelivered /\ L # {}
      /\ \A i \in L, j \in Undelivered : j <= i => j \in L
  BY <1>2, LowestReads
<1>4. L \in SUBSET Ids
  BY <1>2, <1>3
<1>5. last' = Max(L) /\ pel' = pel \cup L
  BY DEF HandOver
<1>6. last' \in L /\ \A i \in L : i <= last'
  <2>1. Max(L) \in L /\ \A i \in L : Max(L) >= i
    BY <1>3, <1>4, LastOfIds
  <2>2. \A i \in L : i \in Nat
    BY <1>1, <1>3
  <2> QED
    BY <1>5, <2>1, <2>2
<1>7. last' \in Nat /\ last < last' /\ last' <= added
  BY <1>1, <1>3, <1>6
<1>8. \A i \in L : i \in (last + 1)..last'
  BY <1>0, <1>1, <1>3, <1>6, <1>7
<1>9. ASSUME NEW i \in (last + 1)..last', ~(i <= trimmed) PROVE i \in L
  <2>1. i \in Undelivered
    BY <1>0, <1>1, <1>7, <1>9
  <2> QED
    BY <2>1, <1>3, <1>6, <1>9
<1> QED
  BY <1>0, <1>5, <1>7, <1>8, <1>9

(* It holds of a stream nobody has read.                                       *)
LEMMA InitEstablishes == Init => ReaderInv
<1> SUFFICES ASSUME Init PROVE ReaderInv
  OBVIOUS
<1>1. TypeOK
  <2>1. position \in Position /\ saved = None
    BY DEF Init, Position
  <2>2. /\ added = 0 /\ trimmed \in 0..added /\ last \in 0..added /\ cursor \in -1..added
        /\ base \in 0..added /\ reported \in 0..added
        /\ retries \in 0..(Retries + 1) /\ ~(retries > Retries) /\ faults \in 0..MaxFaults
    BY DEF Init
  <2>3. added \in 0..MaxEntries /\ checkpoints \in BOOLEAN
    BY DEF Init
  <2> QED
    BY <2>1, <2>2, <2>3 DEF Init, TypeOK
<1>2. Phases /\ HandedOut /\ InHand /\ NothingPending /\ PendingIsAhead
  BY DEF Init, Phases, HandedOut, InHand, NothingPending, PendingIsAhead, None
<1>3. ReplayCovers /\ PositionsCover /\ GroupIsCovered
  BY DEF Init, ReplayCovers, PositionsCover, GroupIsCovered
<1> QED
  BY <1>1, <1>2, <1>3 DEF ReaderInv

(* Every step of the producer, the reader and the faults keeps it.              *)
LEMMA StepPreserves == ReaderInv /\ [Next]_vars => ReaderInv'
<1> SUFFICES ASSUME ReaderInv, [Next]_vars
             PROVE  ReaderInv'
  OBVIOUS
<1> USE DEF ReaderInv, redis, reader, consumer, history, Phases, HandedOut, InHand,
            NothingPending, PendingIsAhead, ReplayCovers, PositionsCover,
            GroupIsCovered, Passing, Accounted, Covered
<1>0. TypeOK
  BY DEF ReaderInv
<1>a. /\ saved # None => saved \in Position
      /\ \A p \in Position : p # None /\ p.id \in 0..MaxEntries /\ p.index \in Nat
      /\ position \in Position
      /\ position.id \in Nat /\ saved.id \in Int /\ (saved # None => saved.id \in Nat)
  BY <1>0 DEF TypeOK, Position, None
<1>b. /\ added \in Nat /\ trimmed \in Nat /\ last \in Nat /\ base \in Nat /\ cursor \in Int
      /\ trimmed <= added /\ last <= added /\ added <= MaxEntries /\ cursor <= added
  BY <1>0 DEF TypeOK
<1>1. CASE Publish
  <2>a. trimmed' \in Nat /\ trimmed <= trimmed' /\ added' = added + 1
    BY <1>1, <1>b DEF Publish
  <2>b. \A i \in Ids : i \in Nat /\ (i <= trimmed => i <= trimmed')
    BY <2>a, <1>b DEF Ids
  <2>1. TypeOK'
    BY <1>1, <1>0, <1>a, <1>b DEF Publish, TypeOK, Ids, Position
  <2>2. (Phases /\ NothingPending)'
    BY <1>1, <1>0, <1>a, <1>b DEF Publish, TypeOK, Ids, Retained
  <2>3. (HandedOut /\ InHand)'
    <3>1. HandedOut'
      BY <1>1, <1>0, <1>a, <1>b, <2>a DEF Publish, TypeOK
    <3>2. InHand'
      BY <1>1, <1>0, <2>b DEF Publish, TypeOK
    <3> QED
      BY <3>1, <3>2
  <2>4. PendingIsAhead'
    BY <1>1, <1>0, <1>a, <1>b DEF Publish, TypeOK, Ids, Retained
  <2>5. ReplayCovers'
    <3>1. \A i \in Retained' : i <= cursor => i \in Retained
      <4>1. Retained = (trimmed + 1)..added /\ Retained' = (trimmed' + 1)..added'
        BY DEF Retained
      <4>2. \A i \in (trimmed' + 1)..added' : i <= cursor => i \in (trimmed + 1)..added
        BY <2>a, <1>b, MoreTrimmed
      <4> QED
        BY <4>1, <4>2
    <3>2. ASSUME cursor # -1, pc \in {"gaps", "adopt", "adoptAck", "positions", "replay"}
          PROVE  \A i \in (base + 1)..cursor : Covered(i)'
      BY <1>1, <3>2, <2>a, <1>b DEF Publish
    <3> QED
      BY <1>1, <3>1, <3>2 DEF Publish
  <2>6. PositionsCover'
    BY <1>1, <1>0, <1>a, <1>b DEF Publish, TypeOK, Ids, Retained
  <2>7. GroupIsCovered'
    BY <1>1, <1>0, <1>a, <1>b DEF Publish, TypeOK, Ids, Retained
  <2> QED
    BY <2>1, <2>2, <2>3, <2>4, <2>5, <2>6, <2>7
<1>2. CASE EnsureGroup
  <2>1. TypeOK'
    BY <1>2, <1>0, <1>a, <1>b DEF EnsureGroup, ReplayFrom, TypeOK, Ids, Position
  <2>2. (Phases /\ HandedOut /\ InHand /\ NothingPending /\ PendingIsAhead)'
    BY <1>2, <1>0, <1>a, <1>b DEF EnsureGroup, ReplayFrom, TypeOK
  <2>3. (ReplayCovers /\ PositionsCover /\ GroupIsCovered)'
    BY <1>2, <1>0, <1>a, <1>b DEF EnsureGroup, ReplayFrom, TypeOK, Retained
  <2> QED
    BY <2>1, <2>2, <2>3
<1>3. CASE Gaps
  <2>1. TypeOK'
    BY <1>3, <1>0, <1>a, <1>b DEF Gaps, Rebased, TypeOK, Ids, Position
  <2>2. (Phases /\ HandedOut /\ InHand /\ NothingPending /\ PendingIsAhead)'
    BY <1>3, <1>0, <1>a, <1>b DEF Gaps, Rebased, TypeOK
  <2>3. (ReplayCovers /\ PositionsCover /\ GroupIsCovered)'
    BY <1>3, <1>0, <1>a, <1>b DEF Gaps, Rebased, TypeOK, Retained
  <2> QED
    BY <2>1, <2>2, <2>3
<1>4. CASE ReadPending
  <2>a. pel \in SUBSET Ids
    BY <1>0 DEF TypeOK
  <2>b. /\ Lowest(pel) \subseteq pel
        /\ \A i \in Lowest(pel), j \in pel : j <= i => j \in Lowest(pel)
    BY <2>a, LowestReads
  <2>c. \A i \in Ids : i \in Nat /\ i >= 1
    BY DEF Ids
  <2>1. TypeOK'
    BY <1>4, <1>0, <2>a, <2>b DEF ReadPending, TypeOK
  <2>2. (Phases /\ NothingPending)'
    BY <1>4, <1>0, <1>a, <1>b DEF ReadPending, TypeOK, Ids, Retained
  <2>3. (HandedOut /\ InHand)'
    <3>1. batch' = Lowest(pel) /\ live' = Lowest(pel) \ (1..trimmed) /\ pel' = pel
      BY <1>4 DEF ReadPending
    <3>2. \A i \in batch' \ live' : i <= trimmed
      BY <3>1, <2>a, <2>b, <2>c, <1>b
    <3>a. \A i \in pel : i \in Nat
      BY <2>a, <2>c
    <3>3. \A i \in batch', j \in pel \ batch' : i < j
      <4> SUFFICES ASSUME NEW i \in Lowest(pel), NEW j \in pel, j \notin Lowest(pel)
                   PROVE  i < j
        BY <3>1
      <4>1. i \in Nat /\ j \in Nat
        BY <3>a, <2>b
      <4>2. ~(j <= i)
        BY <2>b
      <4> QED
        BY <4>1, <4>2
    <3> QED
      BY <1>4, <3>1, <3>2, <3>3, <2>b DEF ReadPending
  <2>4. PendingIsAhead'
    BY <1>4, <1>0, <1>a, <1>b DEF ReadPending, TypeOK, Ids, Retained
  <2>5. ReplayCovers'
    BY <1>4, <1>0, <1>a, <1>b DEF ReadPending, TypeOK, Ids, Retained
  <2>6. PositionsCover'
    BY <1>4, <1>0, <1>a, <1>b DEF ReadPending, TypeOK, Ids, Retained
  <2>7. GroupIsCovered'
    BY <1>4, <1>0, <1>a, <1>b DEF ReadPending, TypeOK, Ids, Retained
  <2> QED
    BY <2>1, <2>2, <2>3, <2>4, <2>5, <2>6, <2>7
<1>5. CASE PendingDrained
  <2>1. TypeOK'
    BY <1>5, <1>0, <1>a, <1>b DEF PendingDrained, TypeOK, Ids, Position
  <2>2. (Phases /\ HandedOut /\ InHand /\ NothingPending /\ PendingIsAhead)'
    BY <1>5, <1>0, <1>a, <1>b DEF PendingDrained, TypeOK
  <2>3. (ReplayCovers /\ PositionsCover /\ GroupIsCovered)'
    BY <1>5, <1>0, <1>a, <1>b DEF PendingDrained, TypeOK, Retained
  <2> QED
    BY <2>1, <2>2, <2>3
<1>6. CASE AckPending
  <2>a. Recovered \in SUBSET Ids /\ Recovered \subseteq live /\ live \subseteq batch /\ batch \subseteq pel
    BY <1>6, <1>0 DEF AckPending, Recovered, TypeOK
  <2>b. Deliver(Recovered) /\ pel' = pel \ batch
    BY <1>6 DEF AckPending, Acked
  <2>c. /\ got' = got \cup Recovered /\ got' \subseteq Ids
        /\ position' \in Position
        /\ Recovered = {} => position' = position
        /\ Recovered # {} => position'.id \in Recovered /\ \A j \in Recovered : position'.id >= j
        /\ early \subseteq early' /\ early' \subseteq Ids
        /\ checkpoints /\ saved = None => early' = early \cup Recovered
    BY <1>0, <2>a, <2>b, Delivered
  <2>d. \A i \in Ids : i \in Nat /\ i >= 1
    BY DEF Ids
  <2>e. position'.id \in Nat
    BY <2>a, <2>c, <2>d, <1>a
  <2>1. TypeOK'
    BY <1>6, <1>0, <2>a, <2>b, <2>c DEF AckPending, TypeOK
  <2>2. (Phases /\ NothingPending)'
    BY <1>6, <1>0, <1>a, <1>b DEF AckPending, Acked, Recovered, Deliver, TypeOK, Ids, Retained
  <2>3. (HandedOut /\ InHand)'
    <3>1. got' \subseteq 1..last
      BY <2>a, <2>c
    <3>2. position'.id <= added
      BY <2>a, <2>c, <1>a, <1>b
    <3> QED
      BY <1>6, <3>1, <3>2, <2>b, <1>a DEF AckPending
  <2>4. PendingIsAhead'
    BY <1>6, <1>0, <1>a, <1>b DEF AckPending, Acked, Recovered, Deliver, TypeOK, Ids, Retained
  <2>5. ReplayCovers'
    BY <1>6, <1>0, <1>a, <1>b DEF AckPending, Acked, Recovered, Deliver, TypeOK, Ids, Retained
  <2>6. PositionsCover'
    <3>1. ASSUME saved # None, Recovered # {}, NEW i \in (base + 1)..position'.id
          PROVE  Covered(i)'
      <4>1. i \in (base + 1)..last
        BY <3>1, <2>a, <2>c, <2>e, <1>b
      <4>2. i \in pel \/ Covered(i)
        BY <1>6, <3>1, <4>1 DEF AckPending, Recovered, Passing
      <4>a. position'.id \in batch /\ \A j \in pel \ batch : position'.id < j
        BY <1>6, <3>1, <2>a, <2>c DEF AckPending
      <4>3. i \in pel => i \in batch
        BY <4>a, <3>1, <2>e, <1>b
      <4>4. i \in batch => i \in Recovered \/ i <= trimmed
        BY <1>6, <3>1 DEF AckPending, Recovered, InHand
      <4> QED
        BY <1>6, <4>2, <4>3, <4>4, <2>c DEF AckPending
    <3>2. saved = None /\ checkpoints => got' \subseteq early'
      BY <1>6, <2>c DEF AckPending
    <3>3. ASSUME saved # None
          PROVE  \A i \in (base + 1)..position'.id : Covered(i)'
      <4>1. CASE Recovered = {}
        BY <1>6, <3>3, <4>1, <2>c DEF AckPending
      <4>2. CASE Recovered # {}
        BY <3>1, <3>3, <4>2
      <4> QED
        BY <4>1, <4>2
    <3> QED
      BY <1>6, <3>2, <3>3, <2>c DEF AckPending
  <2>7. GroupIsCovered'
    BY <1>6, <1>0, <1>a, <1>b DEF AckPending, Acked, Recovered, Deliver, TypeOK, Ids, Retained
  <2> QED
    BY <2>1, <2>2, <2>3, <2>4, <2>5, <2>6, <2>7
<1>7. CASE GroupPosition
  <2>1. TypeOK'
    BY <1>7, <1>0, <1>a, <1>b DEF GroupPosition, TypeOK, Ids, Position
  <2>2. (Phases /\ HandedOut /\ InHand /\ NothingPending /\ PendingIsAhead)'
    BY <1>7, <1>0, <1>a, <1>b DEF GroupPosition, TypeOK
  <2>3. (ReplayCovers /\ PositionsCover /\ GroupIsCovered)'
    BY <1>7, <1>0, <1>a, <1>b DEF GroupPosition, TypeOK, Retained
  <2> QED
    BY <2>1, <2>2, <2>3
<1>8. CASE GroupPositionFails
  <2>1. TypeOK'
    BY <1>8, <1>0, <1>a, <1>b DEF GroupPositionFails, Fault, TypeOK, Ids, Position
  <2>2. (Phases /\ HandedOut /\ InHand /\ NothingPending /\ PendingIsAhead)'
    BY <1>8, <1>0, <1>a, <1>b DEF GroupPositionFails, Fault, TypeOK
  <2>3. (ReplayCovers /\ PositionsCover /\ GroupIsCovered)'
    BY <1>8, <1>0, <1>a, <1>b DEF GroupPositionFails, Fault, TypeOK, Retained
  <2> QED
    BY <2>1, <2>2, <2>3
<1>9. CASE Replay
  <2> DEFINE ahead == {i \in Retained : i > cursor}
             entries == Lowest(ahead)
             bounded == Bounded(entries)
  <2>1. /\ pc = "replay" /\ cursor # -1 /\ saved # None /\ pel = {} /\ cursor \in Nat
        /\ exists /\ saved \in Position
    BY <1>9, <1>0, <1>a DEF Replay, TypeOK
  <2>2. \A i : i \in ahead <=> i \in Nat /\ trimmed < i /\ cursor < i /\ i <= added
    BY <1>b, <2>1 DEF Retained
  <2>3. ahead \in SUBSET Ids
    BY <1>b, <2>2 DEF Ids
  <2>4. /\ entries \subseteq ahead
        /\ ahead # {} => entries # {}
        /\ \A i \in entries, j \in ahead : j <= i => j \in entries
    BY <2>3, LowestReads
  <2>5. UNCHANGED <<checkpoints, redis, batch, live, recover, retries, saved, kept,
                    base, vanished, unreplayed, rejoined, reported, faults>>
    BY <1>9 DEF Replay
  <2>6. /\ saved.id <= position.id /\ position.id <= cursor
        /\ \A i \in got : i <= cursor
        /\ \A i \in (base + 1)..cursor : Covered(i)
        /\ \A i \in Retained : saved.id < i /\ i <= cursor => i \in got
        /\ \A i \in (base + 1)..saved.id : Accounted(i)
    BY <2>1
  <2> HIDE DEF entries, ahead
  <2>7. CASE cursor >= last \/ entries = {}
    <3>1. pc' = "read" /\ UNCHANGED <<cursor, got, position, early>>
      BY <1>9, <2>7 DEF Replay, entries, ahead
    <3>2. \A i \in (base + 1)..last : i <= cursor \/ i <= trimmed
      BY <2>2, <2>4, <2>7, <1>b, <2>1
    <3>3. TypeOK'
      BY <1>0, <2>1, <2>5, <3>1 DEF TypeOK
    <3>4. (Phases /\ HandedOut /\ InHand /\ NothingPending /\ PendingIsAhead)'
      BY <2>1, <2>5, <3>1
    <3>5. (ReplayCovers /\ PositionsCover)'
      BY <2>1, <2>5, <3>1
    <3>6. GroupIsCovered'
      <4>1. ASSUME NEW i \in (base + 1)..last PROVE Covered(i)
        BY <3>2, <2>6, <1>b, <2>1
      <4> QED
        BY <2>5, <3>1, <4>1
    <3> QED
      BY <3>3, <3>4, <3>5, <3>6
  <2>8. CASE cursor < last /\ entries # {}
    <3>1. /\ Deliver(bounded) /\ pc' = pc
          /\ cursor' = IF bounded = entries THEN Max(entries) ELSE last
      BY <1>9, <2>8, <1>b DEF Replay, entries, ahead
    <3>2. bounded \subseteq entries /\ entries \in SUBSET Ids /\ bounded \in SUBSET Ids
      BY <2>3, <2>4 DEF Bounded
    <3>3. /\ \A i \in entries : i \in Nat /\ trimmed < i /\ cursor < i /\ i <= added
          /\ \A i \in bounded : i \in Nat /\ trimmed < i /\ cursor < i /\ i <= last
          /\ \A i \in entries : i <= last => i \in bounded
      BY <2>2, <2>4 DEF Bounded
    <3>4. /\ got' = got \cup bounded /\ got' \subseteq Ids
          /\ position' \in Position
          /\ bounded = {} => position' = position
          /\ bounded # {} => position'.id \in bounded /\ \A j \in bounded : position'.id >= j
          /\ early' = early
      BY <1>0, <3>1, <3>2, <2>1, Delivered
    <3>5. Max(entries) \in entries /\ \A j \in entries : Max(entries) >= j
      BY <2>8, <3>2, LastOfIds
    <3>6. /\ cursor' \in Nat /\ cursor < cursor' /\ cursor' <= last
          /\ \A i \in bounded : i <= cursor'
          /\ \A i \in (cursor + 1)..cursor' : i \in bounded \/ i <= trimmed
      <4> HIDE DEF bounded
      <4>1. CASE bounded = entries
        <5>1. cursor' \in bounded /\ cursor' \in entries /\ \A j \in entries : j <= cursor'
          BY <3>1, <3>5, <4>1, <3>3
        <5>2. ASSUME NEW i \in (cursor + 1)..cursor', ~(i <= trimmed) PROVE i \in bounded
          <6>1. i \in ahead /\ i <= cursor'
            BY <5>1, <5>2, <3>3, <2>2, <1>b, <2>1
          <6> QED
            BY <6>1, <5>1, <2>4, <4>1
        <5> QED
          BY <5>1, <5>2, <3>3, <4>1, <1>b, <2>1
      <4>2. CASE bounded # entries
        <5>1. cursor' = last
          BY <3>1, <4>2
        <5>2. PICK e \in entries : e > last
          BY <3>2, <3>3, <4>2, <1>b
        <5>3. ASSUME NEW i \in (cursor + 1)..last, ~(i <= trimmed) PROVE i \in bounded
          <6>1. i \in ahead /\ i <= e /\ i <= last
            BY <5>2, <5>3, <3>3, <2>2, <1>b, <2>1
          <6>2. i \in entries
            BY <6>1, <2>4
          <6> QED
            BY <6>1, <6>2, <3>3
        <5> QED
          BY <5>1, <5>3, <3>3, <2>8, <1>b, <2>1
      <4> QED
        BY <4>1, <4>2
    <3> HIDE DEF bounded
    <3>7. /\ saved.id <= position'.id /\ position'.id <= cursor'
          /\ position'.id \in Nat
      BY <3>3, <3>4, <3>6, <2>6, <1>a, <2>1
    <3>8. ASSUME NEW i \in (base + 1)..cursor' PROVE Covered(i)'
      <4>1. i \in (base + 1)..cursor \/ i \in (cursor + 1)..cursor'
        BY <3>6, <1>b, <2>1
      <4> QED
        BY <4>1, <3>6, <3>4, <2>6, <2>5
    <3>9. TypeOK'
      <4>1. cursor' \in -1..added
        BY <3>6, <1>b
      <4> QED
        BY <1>0, <2>1, <2>5, <3>1, <3>4, <4>1 DEF TypeOK
    <3>10. (Phases /\ InHand /\ NothingPending /\ GroupIsCovered)'
      BY <2>1, <2>5, <3>1, <3>6
    <3>11. (HandedOut /\ PendingIsAhead)'
      <4>a. \A i \in bounded : i \in 1..last
        BY <3>3, <1>b
      <4>1. got' \subseteq 1..last
        BY <3>4, <4>a
      <4>2. position'.id <= added
        BY <3>6, <3>7, <1>b
      <4> QED
        BY <4>1, <4>2, <2>1, <2>5
    <3>12. ReplayCovers'
      <4>1. ASSUME NEW i \in Retained, saved.id < i, i <= cursor' PROVE i \in got'
        <5>1. i <= cursor \/ i \in (cursor + 1)..cursor'
          BY <4>1, <3>6, <1>b, <2>1 DEF Retained
        <5> QED
          BY <5>1, <4>1, <3>4, <3>6, <2>6, <1>b DEF Retained
      <4>2. \A i \in got' : i <= cursor'
        BY <3>4, <3>6, <2>6, <2>1, <1>0 DEF TypeOK, Ids
      <4>3. Retained' = Retained
        BY <2>5 DEF Retained
      <4> QED
        BY <4>1, <4>2, <4>3, <3>1, <3>7, <3>8, <2>1, <2>5
    <3>13. PositionsCover'
      <4>1. \A i \in (base + 1)..position'.id : i \in (base + 1)..cursor'
        BY <3>6, <3>7, <1>b
      <4> QED
        BY <4>1, <3>8, <3>4, <2>1, <2>5, <2>6
    <3> QED
      BY <3>9, <3>10, <3>11, <3>12, <3>13
  <2> QED
    BY <2>7, <2>8, <1>b
<1>10. CASE StartRecovery
  <2>1. TypeOK'
    BY <1>10, <1>0, <1>a, <1>b DEF StartRecovery, TypeOK, Ids, Position
  <2>2. (Phases /\ HandedOut /\ InHand /\ NothingPending /\ PendingIsAhead)'
    BY <1>10, <1>0, <1>a, <1>b DEF StartRecovery, TypeOK
  <2>3. (ReplayCovers /\ PositionsCover /\ GroupIsCovered)'
    BY <1>10, <1>0, <1>a, <1>b DEF StartRecovery, TypeOK, Retained
  <2> QED
    BY <2>1, <2>2, <2>3
<1>11. CASE ReadNew
  <2>a. PICK L : /\ batch' = L /\ live' = L /\ pel' = pel \cup L
                 /\ L \subseteq (last + 1)..last' /\ last' \in last..added
                 /\ \A i \in (last + 1)..last' : i \in L \/ i <= trimmed
    BY <1>11, <1>0, HandedOver DEF ReadNew
  <2>b. last' \in Nat /\ last <= last' /\ last' <= added
    BY <2>a, <1>b
  <2>c. L \subseteq 1..last' /\ \A i \in L : i \in Nat /\ i > last
    BY <2>a, <2>b, <1>b
  <2>d. 1..last \subseteq 1..last' /\ 1..last' \subseteq Ids
    BY <2>b, <1>b DEF Ids
  <2>1. TypeOK'
    <3>1. /\ pel' \subseteq Ids /\ last' \in 0..added /\ batch' \subseteq Ids
      BY <1>11, <1>0, <2>a, <2>b, <2>c, <2>d DEF TypeOK, ReadNew
    <3> QED
      BY <1>11, <1>0, <3>1, <2>a DEF TypeOK, ReadNew
  <2>2. (Phases /\ NothingPending)'
    BY <1>11, <1>0, <1>a, <1>b, <2>a DEF ReadNew
  <2>3. (HandedOut /\ InHand)'
    BY <1>11, <2>a, <2>b, <2>c, <2>d DEF ReadNew
  <2>4. PendingIsAhead'
    <3>1. \A i \in L, j \in 1..last : i > j
      BY <2>c, <1>b
    <3> QED
      BY <1>11, <3>1, <2>a DEF ReadNew
  <2>5. ReplayCovers'
    BY <1>11 DEF ReadNew
  <2>6. PositionsCover'
    BY <1>11 DEF ReadNew
  <2>7. GroupIsCovered'
    <3>1. ASSUME NEW i \in (base + 1)..last' PROVE i \in (base + 1)..last \/ i \in (last + 1)..last'
      BY <1>b, <2>b
    <3> QED
      BY <1>11, <3>1, <2>a DEF ReadNew
  <2> QED
    BY <2>1, <2>2, <2>3, <2>4, <2>5, <2>6, <2>7
<1>12. CASE ReadNothing
  <2>1. TypeOK'
    BY <1>12, <1>0, <1>a, <1>b DEF ReadNothing, TypeOK, Ids, Position
  <2>2. (Phases /\ HandedOut /\ InHand /\ NothingPending /\ PendingIsAhead)'
    BY <1>12, <1>0, <1>a, <1>b DEF ReadNothing, TypeOK
  <2>3. (ReplayCovers /\ PositionsCover /\ GroupIsCovered)'
    BY <1>12, <1>0, <1>a, <1>b DEF ReadNothing, TypeOK, Retained
  <2> QED
    BY <2>1, <2>2, <2>3
<1>13. CASE Ack
  <2>a. live \in SUBSET Ids /\ live \subseteq live /\ live \subseteq batch /\ batch \subseteq pel
    BY <1>13, <1>0 DEF Ack, TypeOK
  <2>b. Deliver(live) /\ pel' = pel \ batch
    BY <1>13 DEF Ack, Acked
  <2>c. /\ got' = got \cup live /\ got' \subseteq Ids
        /\ position' \in Position
        /\ live = {} => position' = position
        /\ live # {} => position'.id \in live /\ \A j \in live : position'.id >= j
        /\ early \subseteq early' /\ early' \subseteq Ids
        /\ checkpoints /\ saved = None => early' = early \cup live
    BY <1>0, <2>a, <2>b, Delivered
  <2>d. \A i \in Ids : i \in Nat /\ i >= 1
    BY DEF Ids
  <2>e. position'.id \in Nat
    BY <2>a, <2>c, <2>d, <1>a
  <2>1. TypeOK'
    BY <1>13, <1>0, <2>a, <2>b, <2>c DEF Ack, TypeOK
  <2>2. (Phases /\ NothingPending)'
    BY <1>13, <1>0, <1>a, <1>b DEF Ack, Acked, Deliver, TypeOK, Ids, Retained
  <2>3. (HandedOut /\ InHand)'
    <3>1. got' \subseteq 1..last
      BY <2>a, <2>c
    <3>2. position'.id <= added
      BY <2>a, <2>c, <1>a, <1>b
    <3> QED
      BY <1>13, <3>1, <3>2, <2>b, <1>a DEF Ack
  <2>4. PendingIsAhead'
    BY <1>13, <1>0, <1>a, <1>b DEF Ack, Acked, Deliver, TypeOK, Ids, Retained
  <2>5. ReplayCovers'
    BY <1>13, <1>0, <1>a, <1>b DEF Ack, Acked, Deliver, TypeOK, Ids, Retained
  <2>6. PositionsCover'
    <3>1. ASSUME saved # None, live # {}, NEW i \in (base + 1)..position'.id
          PROVE  Covered(i)'
      <4>1. i \in (base + 1)..last
        BY <3>1, <2>a, <2>c, <2>e, <1>b
      <4>2. i \in pel \/ Covered(i)
        BY <1>13, <3>1, <4>1 DEF Ack, Passing
      <4>a. position'.id \in batch /\ \A j \in pel \ batch : position'.id < j
        BY <1>13, <3>1, <2>a, <2>c DEF Ack
      <4>3. i \in pel => i \in batch
        BY <4>a, <3>1, <2>e, <1>b
      <4>4. i \in batch => i \in live \/ i <= trimmed
        BY <1>13, <3>1 DEF Ack, InHand
      <4> QED
        BY <1>13, <4>2, <4>3, <4>4, <2>c DEF Ack
    <3>2. saved = None /\ checkpoints => got' \subseteq early'
      BY <1>13, <2>c DEF Ack
    <3>3. ASSUME saved # None
          PROVE  \A i \in (base + 1)..position'.id : Covered(i)'
      <4>1. CASE live = {}
        BY <1>13, <3>3, <4>1, <2>c DEF Ack
      <4>2. CASE live # {}
        BY <3>1, <3>3, <4>2
      <4> QED
        BY <4>1, <4>2
    <3> QED
      BY <1>13, <3>2, <3>3, <2>c DEF Ack
  <2>7. GroupIsCovered'
    BY <1>13, <1>0, <1>a, <1>b DEF Ack, Acked, Deliver, TypeOK, Ids, Retained
  <2> QED
    BY <2>1, <2>2, <2>3, <2>4, <2>5, <2>6, <2>7
<1>14. CASE ReadFails
  <2>a. PICK L : /\ pel' = pel \cup L
                 /\ L \subseteq (last + 1)..last' /\ last' \in last..added
                 /\ \A i \in (last + 1)..last' : i \in L \/ i <= trimmed
    <3>1. CASE UNCHANGED <<last, pel>>
      <4>1. pel' = pel \cup {} /\ last' \in last..added
        BY <3>1, <1>b
      <4>2. \A i \in (last + 1)..last' : FALSE
        BY <3>1, <1>b
      <4> QED
        BY <4>1, <4>2
    <3>2. CASE Undelivered # {} /\ HandOver(Lowest(Undelivered))
      BY <3>2, <1>0, HandedOver
    <3> QED
      BY <1>14, <3>1, <3>2 DEF ReadFails
  <2>b. last' \in Nat /\ last <= last' /\ last' <= added
    BY <2>a, <1>b
  <2>c. L \subseteq 1..last' /\ \A i \in L : i \in Nat /\ i > last
    BY <2>a, <2>b, <1>b
  <2>d. 1..last \subseteq 1..last' /\ 1..last' \subseteq Ids
    BY <2>b, <1>b DEF Ids
  <2>e. retries <= Retries /\ retries \in Nat
    BY <1>14, <1>0 DEF ReadFails, TypeOK
  <2>f. /\ recover' = TRUE /\ retries' = retries + 1 /\ batch' = {} /\ live' = {}
        /\ pc' = IF retries + 1 > Retries THEN "lost" ELSE "read"
        /\ faults' \in 0..MaxFaults
        /\ UNCHANGED <<checkpoints, added, trimmed, exists, position, cursor, consumer, history>>
    BY <1>14, <1>0 DEF ReadFails, ReaderFailed, GivesUp, Armed, Fault, TypeOK
  <2>g. pc \in {"read", "drain"}
    BY <1>14 DEF ReadFails
  <2>1. TypeOK'
    <3>1. /\ pel' \subseteq Ids /\ last' \in 0..added /\ batch' \subseteq Ids
      BY <2>e, <2>f, <2>g, <1>0, <2>a, <2>b, <2>c, <2>d DEF TypeOK
    <3> QED
      BY <2>e, <2>f, <2>g, <1>0, <3>1, <2>a DEF TypeOK
  <2>2. (Phases /\ NothingPending)'
    BY <2>e, <2>f, <2>g, <1>0, <1>a, <1>b, <2>a
  <2>3. (HandedOut /\ InHand)'
    BY <2>e, <2>f, <2>g, <2>a, <2>b, <2>c, <2>d
  <2>4. PendingIsAhead'
    <3>1. \A i \in L, j \in 1..last : i > j
      BY <2>c, <1>b
    <3> QED
      BY <2>e, <2>f, <2>g, <3>1, <2>a
  <2>5. ReplayCovers'
    BY <2>e, <2>f, <2>g
  <2>6. PositionsCover'
    BY <2>e, <2>f, <2>g
  <2>7. GroupIsCovered'
    <3>1. ASSUME NEW i \in (base + 1)..last' PROVE i \in (base + 1)..last \/ i \in (last + 1)..last'
      BY <1>b, <2>b
    <3> QED
      BY <2>e, <2>f, <2>g, <3>1, <2>a
  <2> QED
    BY <2>1, <2>2, <2>3, <2>4, <2>5, <2>6, <2>7
<1>15. CASE AckFails
  <2>a. retries <= Retries /\ retries \in Nat /\ live \subseteq Ids
    BY <1>15, <1>0 DEF AckFails, TypeOK
  <2>b. /\ recover' = TRUE /\ retries' = retries + 1 /\ batch' = {} /\ live' = {}
        /\ pc' = IF retries + 1 > Retries THEN "lost" ELSE "read"
        /\ faults' \in 0..MaxFaults
        /\ UNCHANGED <<checkpoints, added, trimmed, exists, last, position, cursor,
                       consumer, base, unreplayed, early, rejoined, reported>>
    BY <1>15, <1>0 DEF AckFails, ReaderFailed, GivesUp, Armed, Fault, TypeOK
  <2>c. pel' \subseteq pel /\ vanished' \subseteq vanished \cup live
    BY <1>15 DEF AckFails, Acked
  <2>1. TypeOK'
    <3>1. pel' \subseteq Ids /\ vanished' \subseteq Ids
      BY <2>a, <2>c, <1>0 DEF TypeOK
    <3>2. retries' \in 0..(Retries + 1) /\ (retries' > Retries => pc' = "lost")
      BY <2>a, <2>b
    <3> QED
      BY <2>b, <3>1, <3>2, <1>0 DEF TypeOK
  <2>2. (Phases /\ NothingPending)'
    BY <1>15, <1>0, <1>a, <1>b
      DEF AckFails, Fault, ReaderFailed, GivesUp, Armed, Acked, TypeOK, Ids, Retained
  <2>3. (HandedOut /\ InHand)'
    BY <1>15, <1>0, <1>a, <1>b
      DEF AckFails, Fault, ReaderFailed, GivesUp, Armed, Acked, TypeOK, Ids, Retained
  <2>4. PendingIsAhead'
    BY <1>15, <1>0, <1>a, <1>b
      DEF AckFails, Fault, ReaderFailed, GivesUp, Armed, Acked, TypeOK, Ids, Retained
  <2>5. ReplayCovers'
    BY <1>15, <1>0, <1>a, <1>b
      DEF AckFails, Fault, ReaderFailed, GivesUp, Armed, Acked, TypeOK, Ids, Retained
  <2>6. PositionsCover'
    BY <1>15, <1>0, <1>a, <1>b
      DEF AckFails, Fault, ReaderFailed, GivesUp, Armed, Acked, TypeOK, Ids, Retained
  <2>7. GroupIsCovered'
    BY <1>15, <1>0, <1>a, <1>b
      DEF AckFails, Fault, ReaderFailed, GivesUp, Armed, Acked, TypeOK, Ids, Retained
  <2> QED
    BY <2>1, <2>2, <2>3, <2>4, <2>5, <2>6, <2>7
<1>16. CASE PositioningFails
  <2>1. TypeOK'
    <3>1. pel' \subseteq Ids /\ vanished' \subseteq Ids
      BY <1>16, <1>0 DEF PositioningFails, Acked, TypeOK
    <3>2. faults' \in 0..MaxFaults
      BY <1>16, <1>0 DEF PositioningFails, Fault, TypeOK
    <3> QED
      BY <1>16, <3>1, <3>2, <1>0 DEF PositioningFails, TypeOK
  <2>2. (Phases /\ NothingPending)'
    BY <1>16, <1>0, <1>a, <1>b DEF PositioningFails, Fault, Acked, TypeOK, Ids, Retained
  <2>3. (HandedOut /\ InHand)'
    BY <1>16, <1>0, <1>a, <1>b DEF PositioningFails, Fault, Acked, TypeOK, Ids, Retained
  <2>4. PendingIsAhead'
    BY <1>16, <1>0, <1>a, <1>b DEF PositioningFails, Fault, Acked, TypeOK, Ids, Retained
  <2>5. ReplayCovers'
    BY <1>16, <1>0, <1>a, <1>b DEF PositioningFails, Fault, Acked, TypeOK, Ids, Retained
  <2>6. PositionsCover'
    BY <1>16, <1>0, <1>a, <1>b DEF PositioningFails, Fault, Acked, TypeOK, Ids, Retained
  <2>7. GroupIsCovered'
    BY <1>16, <1>0, <1>a, <1>b DEF PositioningFails, Fault, Acked, TypeOK, Ids, Retained
  <2> QED
    BY <2>1, <2>2, <2>3, <2>4, <2>5, <2>6, <2>7
<1>17. CASE FirstCheckpoint
  <2>1. TypeOK'
    <3>1. (base + 1)..position.id \subseteq Ids
      BY <1>a, <1>b DEF Ids
    <3>2. early' \subseteq Ids
      BY <1>17, <1>0, <3>1 DEF FirstCheckpoint, TypeOK
    <3> QED
      BY <1>17, <1>0, <1>a, <3>2 DEF FirstCheckpoint, TypeOK
  <2>2. (Phases /\ NothingPending)'
    BY <1>17, <1>0, <1>a, <1>b DEF FirstCheckpoint, TypeOK, Ids, Retained
  <2>3. (HandedOut /\ InHand)'
    BY <1>17, <1>0, <1>a, <1>b DEF FirstCheckpoint, TypeOK, Ids, Retained
  <2>4. PendingIsAhead'
    BY <1>17, <1>0, <1>a, <1>b DEF FirstCheckpoint, TypeOK, Ids, Retained
  <2>5. ReplayCovers'
    BY <1>17, <1>0, <1>a, <1>b DEF FirstCheckpoint, TypeOK, Ids, Retained
  <2>6. PositionsCover'
    BY <1>17, <1>0, <1>a, <1>b DEF FirstCheckpoint, TypeOK, Ids, Retained
  <2>7. GroupIsCovered'
    BY <1>17, <1>0, <1>a, <1>b DEF FirstCheckpoint, TypeOK, Ids, Retained
  <2> QED
    BY <2>1, <2>2, <2>3, <2>4, <2>5, <2>6, <2>7
<1>18. CASE Save
  <2>1. TypeOK'
    BY <1>18, <1>0, <1>a, <1>b DEF Save, TypeOK, Ids, Position
  <2>2. (Phases /\ HandedOut /\ InHand /\ NothingPending /\ PendingIsAhead)'
    BY <1>18, <1>0, <1>a, <1>b DEF Save, TypeOK
  <2>3. (ReplayCovers /\ PositionsCover /\ GroupIsCovered)'
    BY <1>18, <1>0, <1>a, <1>b DEF Save, TypeOK, Retained
  <2> QED
    BY <2>1, <2>2, <2>3
<1>19. CASE Crash
  <2>1. TypeOK'
    <3>1. position' \in Position /\ cursor' \in -1..added /\ retries' \in 0..(Retries + 1)
      BY <1>19, <1>b DEF Crash, Position
    <3>2. faults' \in 0..MaxFaults /\ kept' \subseteq Ids
      BY <1>19, <1>0 DEF Crash, Fault, TypeOK
    <3>3. /\ pc' = "down" /\ batch' = {} /\ live' = {} /\ recover' = FALSE /\ got' = {}
          /\ retries' = 0
          /\ UNCHANGED <<checkpoints, redis, saved, history>>
      BY <1>19 DEF Crash
    <3>4. retries' \in 0..(Retries + 1) /\ ~(retries' > Retries)
      BY <3>3
    <3>5. cursor' \in -1..added' /\ live' \subseteq batch' /\ batch' \subseteq Ids /\ got' \subseteq Ids
      BY <3>1, <3>3
    <3> QED
      BY <3>1, <3>2, <3>3, <3>4, <3>5, <1>0 DEF TypeOK
  <2>2. (Phases /\ NothingPending)'
    BY <1>19, <1>0, <1>a, <1>b DEF Crash, Fault, TypeOK, Ids, Retained
  <2>3. (HandedOut /\ InHand)'
    BY <1>19, <1>0, <1>a, <1>b DEF Crash, Fault, TypeOK, Ids, Retained
  <2>4. PendingIsAhead'
    BY <1>19, <1>0, <1>a, <1>b DEF Crash, Fault, TypeOK, Ids, Retained
  <2>5. ReplayCovers'
    BY <1>19, <1>0, <1>a, <1>b DEF Crash, Fault, TypeOK, Ids, Retained
  <2>6. PositionsCover'
    BY <1>19, <1>0, <1>a, <1>b DEF Crash, Fault, TypeOK, Ids, Retained
  <2>7. GroupIsCovered'
    BY <1>19, <1>0, <1>a, <1>b DEF Crash, Fault, TypeOK, Ids, Retained
  <2> QED
    BY <2>1, <2>2, <2>3, <2>4, <2>5, <2>6, <2>7
<1>20. CASE EnsureGroupFails
  <2>1. /\ pc = "down" /\ ~checkpoints /\ pc' = "lost" /\ trimmed' = trimmed /\ added' = added
        /\ UNCHANGED <<checkpoints, pel, position, cursor, batch, live, recover, retries>>
        /\ UNCHANGED <<saved, got, kept, vanished, unreplayed, early, rejoined, reported>>
        /\ \/ UNCHANGED <<exists, last, base>>
           \/ ~exists /\ exists' = TRUE /\ last' = added /\ base' = added
    BY <1>20 DEF EnsureGroupFails
  <2>2. faults' \in 0..MaxFaults
    BY <1>20, <1>0 DEF EnsureGroupFails, Fault, TypeOK
  <2>3. last' \in 0..added' /\ base' \in 0..added' /\ exists' \in BOOLEAN
    <3>1. added \in Nat /\ last \in 0..added /\ base \in 0..added /\ exists \in BOOLEAN /\ added \in 0..added
      BY <1>0 DEF TypeOK
    <3> QED
      BY <2>1, <3>1
  <2>7. TypeOK' /\ Phases'
    BY <2>1, <2>2, <2>3, <1>0, <1>a, <1>b DEF TypeOK, Position
  <2>4. HandedOut' /\ InHand' /\ NothingPending'
    BY <2>1, <1>0, <1>a, <1>b DEF TypeOK, Retained
  <2>5. PendingIsAhead' /\ ReplayCovers' /\ PositionsCover'
    BY <2>1, <1>0, <1>a, <1>b DEF TypeOK, Retained
  <2>6. GroupIsCovered'
    BY <2>1, <1>0, <1>a, <1>b DEF TypeOK, Retained
  <2> QED
    BY <2>4, <2>5, <2>6, <2>7
<1>21. CASE UNCHANGED vars
  BY <1>21 DEF vars, TypeOK, Retained
<1> QED
  BY <1>1, <1>2, <1>3, <1>4, <1>5, <1>6, <1>7, <1>8, <1>9, <1>10, <1>11, <1>12, <1>13,
       <1>14, <1>15, <1>16, <1>17, <1>18, <1>19, <1>20, <1>21
    DEF Next, Start, Pass, Failure

(* Every behaviour keeps the invariant of the reader.                          *)
THEOREM InvHolds == Spec => []ReaderInv
  BY InitEstablishes, StepPreserves, PTL DEF Spec

----------------------------------------------------------------------------
(* Type correctness of the reader, for every instance.                        *)
THEOREM TypeCorrect == Spec => []TypeOK
<1>1. ReaderInv => TypeOK
  BY DEF ReaderInv
<1> QED
  BY <1>1, InvHolds, PTL

(* No pass leaves a delivered entry in the pending list, whatever fails.      *)
THEOREM PendingHolds == Spec => []PendingIsUndelivered
<1>1. ReaderInv => PendingIsUndelivered
  <2> SUFFICES ASSUME ReaderInv, NEW i \in pel, i \in got PROVE FALSE
    BY DEF PendingIsUndelivered
  <2>1. i > i /\ i \in Nat
    BY DEF ReaderInv, PendingIsAhead, TypeOK, Ids
  <2> QED
    BY <2>1
<1> QED
  BY <1>1, InvHolds, PTL

(* The bar buffer is given nothing twice, over any number of restarts.        *)
THEOREM OnceEverHolds == Spec => []DeliveredOnceEver
<1>1. ReaderInv => DeliveredOnceEver
  BY DEF ReaderInv, PendingIsAhead, DeliveredOnceEver
<1> QED
  BY <1>1, InvHolds, PTL

(* Retention and the three leaks apart, an entry the group has moved past is  *)
(* with the consumer, pending, or ahead of the saved position.                *)
THEOREM NothingSkippedHolds == Spec => []NothingSkipped
<1>1. ReaderInv => NothingSkipped
  <2> SUFFICES ASSUME ReaderInv, NEW i \in (base + 1)..last
               PROVE  Reachable(i) \/ i <= trimmed \/ i \in vanished \cup unreplayed \cup early
    BY DEF NothingSkipped
  <2>1. base \in Nat /\ last \in Nat /\ saved.id \in Int
    BY DEF ReaderInv, TypeOK, Position, None
  <2>2. CASE saved = None
    BY <2>2 DEF ReaderInv, GroupIsCovered, Passing, Covered, Accounted, Reachable
  <2>3. CASE saved # None
    BY <2>1, <2>3 DEF ReaderInv, PositionsCover, Accounted, Reachable
  <2> QED
    BY <2>2, <2>3
<1> QED
  BY <1>1, InvHolds, PTL

(* Both: no entry is passed over, and none is handed over twice.              *)
THEOREM DeliveryIsExactHolds == Spec => []DeliveryIsExact
<1>1. NothingSkipped /\ DeliveredOnceEver => DeliveryIsExact
  BY DEF DeliveryIsExact
<1> QED
  BY <1>1, NothingSkippedHolds, OnceEverHolds, PTL

----------------------------------------------------------------------------
(* Where the consumer is given nothing, order and count stand still.          *)
LEMMA NothingNew ==
  ASSUME TypeOK, got' = got, position' = position
  PROVE  LET new == got' \ got
         IN /\ \A i \in new, j \in got : i > j
            /\ position'.index = position.index + Cardinality(new)
<1>1. position.index \in Nat
  BY DEF TypeOK, Position
<1>2. got' \ got = {} /\ Cardinality({}) = 0
  BY FS_EmptySet
<1>3. position'.index = position.index + 0
  BY <1>1
<1>4. position'.index = position.index + Cardinality(got' \ got)
  BY <1>2, <1>3
<1> QED
  BY <1>2, <1>4

(* A delivery of newer entries keeps both.                                    *)
LEMMA NewerDelivered ==
  ASSUME TypeOK, NEW S \in SUBSET Ids, Deliver(S), \A i \in S, j \in got : i > j
  PROVE  LET new == got' \ got
         IN /\ \A i \in new, j \in got : i > j
            /\ position'.index = position.index + Cardinality(new)
<1>1. got' = got \cup S /\ position'.index = position.index + Cardinality(S)
  BY Delivered
<1>2. \A i \in S : i \in Nat
  BY DEF Ids
<1>3. \A i \in S : i \notin got
  BY <1>2
<1>4. got' \ got = S
  BY <1>1, <1>3
<1> QED
  BY <1>1, <1>4

(* Within one life of the consumer everything is delivered once and in order. *)
THEOREM OnceInOrderHolds == Spec => OnceInOrder
<1> DEFINE Ordered ==
      pc \notin {"down", "gaps"} /\ pc' # "down" =>
        LET new == got' \ got
        IN /\ \A i \in new, j \in got : i > j
           /\ position'.index = position.index + Cardinality(new)
<1>1. ReaderInv /\ [Next]_vars => [Ordered]_vars
  <2> SUFFICES ASSUME ReaderInv, Next, pc \notin {"down", "gaps"}, pc' # "down"
               PROVE  Ordered
    BY DEF vars
  <2>0. TypeOK
    BY DEF ReaderInv
  <2>1. CASE AckPending \/ Ack
    <3>1. PICK S : Deliver(S) /\ S \subseteq batch /\ batch \subseteq pel /\ S \in SUBSET Ids
      BY <2>0, <2>1 DEF AckPending, Ack, Recovered, ReaderInv, InHand, TypeOK
    <3>2. \A i \in S, j \in got : i > j
      BY <3>1 DEF ReaderInv, PendingIsAhead
    <3> QED
      BY <2>0, <3>1, <3>2, NewerDelivered
  <2>2. CASE Replay
    <3> DEFINE ahead == {i \in Retained : i > cursor}
               bounded == Bounded(Lowest(ahead))
    <3>1. CASE Deliver(bounded)
      <4>1. pc = "replay" /\ \A j \in got : j <= cursor
        BY <2>2 DEF Replay, ReaderInv, ReplayCovers, Phases
      <4>2. ahead \in SUBSET Ids
        BY <2>0 DEF TypeOK, Retained, Ids
      <4>3. bounded \subseteq ahead
        BY <4>2, LowestReads DEF Bounded
      <4>4. \A i \in bounded, j \in got : i > j
        <5>1. /\ \A i \in bounded : i \in Nat /\ i > cursor
              /\ \A j \in got : j \in Nat
          BY <2>0, <4>2, <4>3 DEF TypeOK, Ids
        <5>2. cursor \in Int
          BY <2>0 DEF TypeOK
        <5> HIDE DEF bounded
        <5> QED
          BY <4>1, <5>1, <5>2
      <4> QED
        BY <2>0, <3>1, <4>2, <4>3, <4>4, NewerDelivered
    <3>2. CASE UNCHANGED <<got, position>>
      BY <2>0, <3>2, NothingNew
    <3> QED
      BY <2>2, <3>1, <3>2 DEF Replay
  <2>3. CASE ~(AckPending \/ Ack \/ Replay)
    <3>1. UNCHANGED <<got, position>>
      BY <2>3 DEF Next, Start, Pass, Failure, Publish, EnsureGroup, Gaps, ReadPending,
        PendingDrained, GroupPosition, GroupPositionFails, StartRecovery, ReadNew,
        ReadNothing, ReadFails, AckFails, PositioningFails, EnsureGroupFails, FirstCheckpoint, Save, Crash,
        reader, consumer
    <3> QED
      BY <2>0, <3>1, NothingNew
  <2> QED
    BY <2>1, <2>2, <2>3
<1> QED
  BY <1>1, InvHolds, PTL DEF Spec, OnceInOrder

(* When a replay is over, everything retained between the saved position and  *)
(* the group's has been delivered.                                            *)
THEOREM ReplayMeetsTheGroupHolds == Spec => ReplayMeetsTheGroup
<1> DEFINE Met ==
      pc = "replay" /\ pc' = "read" =>
        \A i \in Retained : saved.id < i /\ i <= last => i \in got
<1>1. ReaderInv /\ [Next]_vars => [Met]_vars
  <2> SUFFICES ASSUME ReaderInv, Next, pc = "replay", pc' = "read",
                      NEW i \in Retained, saved.id < i, i <= last
               PROVE  i \in got
    BY DEF vars
  <2>1. /\ last \in Nat /\ trimmed \in Nat /\ added \in Nat /\ cursor \in Int
        /\ added <= MaxEntries /\ cursor # -1
    BY DEF ReaderInv, TypeOK, Phases
  <2>2. Replay
    BY DEF Next, Start, Pass, Failure, Publish, EnsureGroup, Gaps, ReadPending,
      PendingDrained, AckPending, GroupPosition, GroupPositionFails, StartRecovery,
      ReadNew, ReadNothing, Ack, ReadFails, AckFails, PositioningFails, EnsureGroupFails,
      FirstCheckpoint, Save, Crash, reader
  <2> DEFINE ahead == {j \in Retained : j > cursor}
  <2>3. ahead \in SUBSET Ids
    BY <2>1 DEF Retained, Ids
  <2>4. cursor >= last \/ Lowest(ahead) = {}
    BY <2>2 DEF Replay
  <2>5. cursor >= last \/ ahead = {}
    BY <2>3, <2>4, LowestReads
  <2>6. i \in Int /\ i <= cursor
    BY <2>1, <2>5 DEF Retained
  <2> QED
    BY <2>1, <2>6 DEF ReaderInv, ReplayCovers
<1> QED
  BY <1>1, InvHolds, PTL DEF Spec, ReplayMeetsTheGroup

-----------------------------------------------------------------------------
(* A position counts no more entries than it names, or than were reported lost.   *)
Honest(p) == p.index <= p.id \/ p.index <= reported

(* Retention never takes the newest entry, and a report never runs ahead of it;  *)
(* what is delivered is newer than both the position and the last report.        *)
Trims == reported <= trimmed /\ (added > 0 => trimmed < added)

(* What of a batch still has fields is in hand only until it is acknowledged,    *)
(* and is newer than what was reported lost.                                     *)
LiveIsRetained ==
  /\ pc \notin {"ack", "adoptAck", "drainAck"} => live = {}
  /\ \A i \in live : i > reported

(* Positions are honest, unless a store once joined an existing group without    *)
(* one; outside a replay, what is pending is newer than the position.            *)
Counts ==
  ~rejoined =>
    /\ position.id <= last /\ Honest(position)
    /\ saved # None => saved.id <= last /\ Honest(saved)
    /\ cursor = -1 /\ pc \in {"adopt", "adoptAck"} => pel = {}
    /\ pc \in {"read", "ack", "drain", "drainAck"} => \A i \in pel : i > position.id

(* What the gap report rests on, beside ReaderInv.                               *)
GapInv == Trims /\ LiveIsRetained /\ Counts

(* A delivery of entries newer than the position and the last report.            *)
LEMMA DeliveryIsHonest ==
  ASSUME TypeOK, Honest(position), NEW S \in SUBSET Ids, Deliver(S), reported' = reported,
         \A i \in S : i > position.id /\ i > reported
  PROVE  Honest(position)'
<1>1. position \in Position /\ position.index \in Nat /\ position.id \in Nat /\ reported \in Nat
  BY DEF TypeOK, Position
<1>2. /\ S = {} => position' = position
      /\ S # {} => position'.id \in S /\ \A j \in S : position'.id >= j
      /\ position'.index = position.index + Cardinality(S)
  BY Delivered
<1>3. CASE S = {}
  BY <1>2, <1>3 DEF Honest
<1>4. CASE S # {}
  <2> DEFINE top == position'.id
             from == position.index
  <2>1. top \in S /\ \A j \in S : top >= j
    BY <1>2, <1>4
  <2>2. \A j \in S : j \in Nat
    BY DEF Ids
  <2>3. \A j \in S : j > from
    BY <1>1, <2>2 DEF Honest
  <2>4. top \in Nat /\ from \in Nat /\ top > from
    BY <1>1, <2>1, <2>2, <2>3
  <2> HIDE DEF top, from
  <2>5. S \in SUBSET ((from + 1)..top)
    BY <2>1, <2>2, <2>3, <2>4
  <2>6. IsFiniteSet((from + 1)..top) /\ Cardinality((from + 1)..top) = top - from
    <3>1. from + 1 \in Int /\ top \in Int /\ ~(from + 1 > top)
      BY <2>4
    <3>2. /\ IsFiniteSet((from + 1)..top)
          /\ Cardinality((from + 1)..top) = IF from + 1 > top THEN 0 ELSE top - (from + 1) + 1
      BY <3>1, FS_Interval
    <3> QED
      BY <2>4, <3>1, <3>2
  <2>7. Cardinality(S) <= top - from
    BY <2>5, <2>6, FS_Subset
  <2>8. Cardinality(S) \in Nat
    BY PartOfIds
  <2>9. from + Cardinality(S) <= top
    BY <2>4, <2>7, <2>8
  <2>10. position'.index <= position'.id
    BY <1>2, <2>9 DEF top, from
  <2> QED
    BY <2>10 DEF Honest
<1> QED
  BY <1>3, <1>4

(* Every step of the store, of Redis and of the publisher keeps it.              *)
LEMMA GapKept ==
  ASSUME ReaderInv, ReaderInv', GapInv, Next
  PROVE  GapInv'
<1> USE DEF redis, reader, consumer, history
<1>0. /\ TypeOK /\ TypeOK' /\ Phases /\ InHand /\ NothingPending /\ ReplayCovers
      /\ Trims /\ LiveIsRetained /\ Counts
  BY DEF ReaderInv, GapInv
<1>a. /\ position \in Position /\ position.id \in Nat /\ position.index \in Nat
      /\ saved # None => saved \in Position /\ saved.id \in Nat /\ saved.index \in Nat
      /\ added \in Nat /\ trimmed \in Nat /\ last \in Nat /\ reported \in Nat
      /\ trimmed <= added /\ last <= added
      /\ \A i \in Ids : i \in Nat
      /\ live \subseteq Ids /\ pel \subseteq Ids /\ live \subseteq batch
  BY <1>0 DEF TypeOK, Position, Ids
<1>b. \A i \in Retained : i \in Ids
  <2>1. added <= MaxEntries /\ trimmed \in Nat /\ added \in Nat
    BY <1>0 DEF TypeOK
  <2>2. \A i \in Retained : i \in Nat /\ trimmed < i /\ i <= added
    BY <2>1 DEF Retained
  <2> QED
    BY <2>1, <2>2 DEF Ids
<1>1. CASE Publish
  <2>1. /\ added' = added + 1 /\ trimmed' \in trimmed..added
        /\ UNCHANGED <<last, pel, pc, position, cursor, live, saved, rejoined, reported>>
    BY <1>1 DEF Publish
  <2>2. Trims'
    BY <1>0, <1>a, <2>1 DEF Trims
  <2>3. LiveIsRetained' /\ Counts'
    BY <1>0, <2>1 DEF LiveIsRetained, Counts, Honest
  <2> QED
    BY <2>2, <2>3 DEF GapInv
<1>2. CASE EnsureGroup
  <2>1. /\ pc = "down" /\ pc' \in {"gaps", "adopt"}
        /\ UNCHANGED <<added, trimmed, pel, live, saved, reported>>
        /\ IF saved # None
           THEN position' = saved /\ pc' = "gaps"
           ELSE position' = [id |-> added, index |-> added] /\ cursor' = -1 /\ pc' = "adopt"
        /\ IF exists THEN UNCHANGED last /\ rejoined' = (rejoined \/ saved = None)
           ELSE last' = added /\ UNCHANGED rejoined
    BY <1>2 DEF EnsureGroup
  <2>2. ~exists => saved = None /\ pel = {}
    BY <1>0 DEF Phases
  <2>3. Trims' /\ LiveIsRetained'
    BY <1>0, <2>1 DEF Trims, LiveIsRetained
  <2>4. Counts'
    <3> SUFFICES ASSUME ~rejoined'
                 PROVE  /\ position'.id <= last' /\ Honest(position)'
                        /\ saved' # None => saved'.id <= last' /\ Honest(saved)'
                        /\ cursor' = -1 /\ pc' \in {"adopt", "adoptAck"} => pel' = {}
                        /\ pc' \in {"read", "ack", "drain", "drainAck"} => \A i \in pel' : i > position'.id
      BY DEF Counts
    <3>1. CASE saved # None
      <4>1. exists /\ ~rejoined /\ last' = last /\ position' = saved /\ pc' = "gaps"
        BY <2>1, <2>2, <3>1
      <4>2. saved.id <= last /\ Honest(saved)
        BY <1>0, <3>1, <4>1 DEF Counts
      <4> QED
        BY <2>1, <4>1, <4>2 DEF Honest
    <3>2. CASE saved = None
      <4>1. ~exists /\ last' = added /\ position' = [id |-> added, index |-> added] /\ pc' = "adopt"
        BY <2>1, <3>2
      <4>2. pel' = {} /\ saved' = None
        BY <2>1, <2>2, <3>2, <4>1
      <4>3. position'.id = added /\ position'.index = added
        BY <4>1
      <4> QED
        BY <1>a, <4>1, <4>2, <4>3 DEF Honest
    <3> QED
      BY <3>1, <3>2
  <2> QED
    BY <2>3, <2>4 DEF GapInv
<1>3. CASE Gaps
  <2>1. /\ pc = "gaps" /\ pc' = "adopt"
        /\ position' = IF Lost > 0 THEN Rebased ELSE position
        /\ reported' = IF Lost > 0 THEN trimmed ELSE reported
        /\ UNCHANGED <<added, trimmed, last, pel, cursor, live, saved, rejoined>>
    BY <1>3 DEF Gaps
  <2>2. cursor # -1 /\ saved # None
    BY <1>0, <2>1 DEF Phases
  <2>3. reported <= reported' /\ reported' <= trimmed
    BY <1>0, <1>a, <2>1 DEF Trims
  <2>4. live = {}
    BY <1>0, <2>1 DEF LiveIsRetained
  <2>5. Trims' /\ LiveIsRetained'
    BY <1>0, <2>1, <2>3, <2>4 DEF Trims, LiveIsRetained
  <2>6. Counts'
    <3> SUFFICES ASSUME ~rejoined
                 PROVE  /\ position'.id <= last /\ Honest(position)'
                        /\ saved.id <= last /\ Honest(saved)'
      BY <2>1, <2>2 DEF Counts
    <3>1. saved.id <= last /\ Honest(saved)' /\ position.id <= last
      <4>1. saved.id <= last /\ Honest(saved) /\ position.id <= last
        BY <1>0, <2>2 DEF Counts
      <4> QED
        BY <1>a, <2>1, <2>2, <2>3, <4>1 DEF Honest, TypeOK
    <3>2. CASE Lost > 0
      <4>1. position' = [id |-> saved.id, index |-> trimmed] /\ reported' = trimmed
        BY <2>1, <3>2 DEF Rebased
      <4>2. position'.id = saved.id /\ position'.index = trimmed
        BY <4>1
      <4> QED
        BY <1>a, <3>1, <4>1, <4>2 DEF Honest
    <3>3. CASE ~(Lost > 0)
      <4>1. position' = position /\ reported' = reported
        BY <2>1, <3>3
      <4>2. Honest(position)
        BY <1>0 DEF Counts
      <4> QED
        BY <3>1, <4>1, <4>2 DEF Honest
    <3> QED
      BY <3>1, <3>2, <3>3
  <2> QED
    BY <2>5, <2>6 DEF GapInv
<1>4. CASE ReadPending
  <2>1. /\ pc \in {"adopt", "drain"} /\ pel # {}
        /\ batch' = Lowest(pel) /\ live' = Lowest(pel) \ (1..trimmed)
        /\ pc' = IF pc = "adopt" THEN "adoptAck" ELSE "drainAck"
        /\ UNCHANGED <<added, trimmed, last, pel, position, cursor, saved, rejoined, reported>>
    BY <1>4 DEF ReadPending
  <2>2. \A i \in live' : i > reported
    <3>1. Lowest(pel) \subseteq Ids
      BY <1>a, LowestReads
    <3>2. \A i \in live' : i \in Nat /\ i \in Ids /\ i \notin 1..trimmed
      BY <1>a, <2>1, <3>1
    <3>3. \A i \in live' : i > trimmed
      BY <1>a, <3>2 DEF Ids
    <3> QED
      BY <1>0, <1>a, <3>2, <3>3 DEF Trims
  <2>3. Trims' /\ LiveIsRetained'
    BY <1>0, <2>1, <2>2 DEF Trims, LiveIsRetained
  <2>4. Counts'
    BY <1>0, <2>1 DEF Counts, Honest
  <2> QED
    BY <2>3, <2>4 DEF GapInv
<1>5. CASE PendingDrained
  <2>1. /\ pc \in {"adopt", "drain"} /\ pel = {} /\ pc' \in {"positions", "read"}
        /\ UNCHANGED <<added, trimmed, last, pel, position, cursor, live, saved, rejoined, reported>>
    BY <1>5 DEF PendingDrained
  <2> QED
    BY <1>0, <2>1 DEF Trims, LiveIsRetained, Counts, Honest, GapInv
<1>6. CASE AckPending
  <2>1. /\ pc \in {"adoptAck", "drainAck"} /\ pel' = Acked /\ live' = {} /\ Deliver(Recovered)
        /\ pc' = IF pc = "adoptAck" THEN "adopt" ELSE "drain"
        /\ UNCHANGED <<added, trimmed, last, cursor, saved, rejoined, reported>>
    BY <1>6 DEF AckPending
  <2>2. Trims' /\ LiveIsRetained'
    BY <1>0, <2>1 DEF Trims, LiveIsRetained
  <2>3. Counts'
    <3> SUFFICES ASSUME ~rejoined
                 PROVE  /\ position'.id <= last /\ Honest(position)'
                        /\ cursor = -1 /\ pc' = "adopt" => pel' = {}
                        /\ pc' = "drain" => \A i \in pel' : i > position'.id
      <4>1. ~rejoined /\ saved # None => saved.id <= last /\ Honest(saved)'
        BY <1>0, <2>1 DEF Counts, Honest
      <4> QED
        BY <2>1, <4>1 DEF Counts
    <3>1. /\ position.id <= last /\ Honest(position)
          /\ cursor = -1 /\ pc = "adoptAck" => pel = {}
          /\ pc = "drainAck" => \A i \in pel : i > position.id
      BY <1>0, <2>1 DEF Counts
    <3>2. /\ batch \subseteq pel /\ \A i \in batch, j \in pel \ batch : i < j
      BY <1>0, <2>1 DEF InHand
    <3>3. Recovered \in SUBSET Ids /\ Recovered \subseteq batch /\ Recovered \subseteq live
      BY <1>a DEF Recovered
    <3>4. \A i \in Recovered : i > position.id /\ i > reported
      <4>1. CASE pc = "adoptAck"
        <5>1. cursor # -1 => Recovered = {}
          BY <4>1 DEF Recovered
        <5>2. cursor = -1 => Recovered = {}
          BY <3>1, <3>2, <3>3, <4>1
        <5> QED
          BY <5>1, <5>2
      <4>2. CASE pc = "drainAck"
        BY <1>0, <3>1, <3>2, <3>3, <4>2 DEF LiveIsRetained
      <4> QED
        BY <2>1, <4>1, <4>2
    <3>5. Honest(position)'
      BY <1>0, <2>1, <3>1, <3>3, <3>4, DeliveryIsHonest
    <3>6. /\ Recovered = {} => position' = position
          /\ Recovered # {} => position'.id \in Recovered
      BY <1>0, <2>1, <3>3, Delivered
    <3>7. pel' = pel \ batch
      BY <2>1 DEF Acked
    <3>8. position'.id <= last
      <4>1. HandedOut
        BY DEF ReaderInv
      <4>2. \A i \in Recovered : i <= last
        BY <1>a, <3>2, <3>3, <4>1 DEF HandedOut
      <4> QED
        BY <3>1, <3>6, <4>2
    <3>9. cursor = -1 /\ pc' = "adopt" => pel' = {}
      BY <2>1, <3>1, <3>7
    <3>10. pc' = "drain" => \A i \in pel' : i > position'.id
      <4> SUFFICES ASSUME pc' = "drain", NEW i \in pel' PROVE i > position'.id
        OBVIOUS
      <4>1. pc = "drainAck" /\ i \in pel /\ i \notin batch
        BY <2>1, <3>7
      <4>2. \A j \in batch : j < i
        BY <3>2, <4>1
      <4>3. Recovered # {} => position'.id < i
        BY <3>3, <3>6, <4>2
      <4>4. i \in Nat /\ (Recovered # {} => position'.id \in Nat)
        BY <1>a, <3>3, <3>6, <4>1
      <4> QED
        BY <3>1, <3>6, <4>1, <4>3, <4>4
    <3> QED
      BY <3>5, <3>8, <3>9, <3>10
  <2> QED
    BY <2>2, <2>3 DEF GapInv
<1>7. CASE GroupPosition
  <2>1. /\ pc' = "replay"
        /\ UNCHANGED <<added, trimmed, last, pel, position, cursor, live, saved, rejoined, reported>>
        /\ pc = "positions"
    BY <1>7 DEF GroupPosition
  <2> QED
    BY <1>0, <2>1 DEF Trims, LiveIsRetained, Counts, Honest, GapInv
<1>8. CASE GroupPositionFails
  <2>1. /\ pc = "positions" /\ pc' = "read"
        /\ UNCHANGED <<added, trimmed, last, pel, position, cursor, live, saved, rejoined, reported>>
    BY <1>8 DEF GroupPositionFails
  <2>2. pel = {}
    BY <1>0, <2>1 DEF NothingPending
  <2> QED
    BY <1>0, <2>1, <2>2 DEF Trims, LiveIsRetained, Counts, Honest, GapInv
<1>9. CASE Replay
  <2>0. \A i \in Retained : i \in Ids
    BY <1>b
  <2> DEFINE entries == Lowest({i \in Retained : i > cursor})
             bounded == Bounded(entries)
  <2>1. /\ pc = "replay" /\ pc' \in {"replay", "read"}
        /\ UNCHANGED <<added, trimmed, last, pel, live, saved, rejoined, reported>>
        /\ UNCHANGED position \/ Deliver(bounded)
    BY <1>9 DEF Replay
  <2>2. pel = {} /\ cursor # -1 /\ position.id <= cursor
    BY <1>0, <2>1 DEF NothingPending, Phases, ReplayCovers
  <2>3. Trims' /\ LiveIsRetained'
    BY <1>0, <2>1 DEF Trims, LiveIsRetained
  <2>4. \A i \in bounded : i \in Retained /\ i > cursor /\ i <= last
    <3>1. {i \in Retained : i > cursor} \in SUBSET Ids
      BY <2>0
    <3>2. entries \subseteq {i \in Retained : i > cursor}
      BY <3>1, LowestReads
    <3> QED
      BY <3>2 DEF Bounded
  <2> HIDE DEF entries, bounded
  <2>5. bounded \in SUBSET Ids
    BY <2>0, <2>4
  <2>6. cursor \in Int
    BY <1>0 DEF TypeOK
  <2>7. \A i \in bounded : i > position.id /\ i > reported
    <3> SUFFICES ASSUME NEW i \in bounded PROVE i > position.id /\ i > reported
      OBVIOUS
    <3>1. i \in Nat /\ i > cursor /\ i > trimmed
      BY <1>a, <2>4, <2>5 DEF Retained
    <3> QED
      BY <1>0, <1>a, <2>2, <2>6, <3>1 DEF Trims
  <2>8. Counts'
    <3> SUFFICES ASSUME ~rejoined PROVE position'.id <= last /\ Honest(position)'
      <4>1. ~rejoined /\ saved # None => saved.id <= last /\ Honest(saved)'
        BY <1>0, <2>1 DEF Counts, Honest
      <4> QED
        BY <2>1, <2>2, <4>1 DEF Counts
    <3>1. position.id <= last /\ Honest(position)
      BY <1>0 DEF Counts
    <3>2. CASE UNCHANGED position
      BY <2>1, <3>1, <3>2 DEF Honest
    <3>3. CASE Deliver(bounded)
      <4>1. Honest(position)'
        BY <1>0, <2>1, <2>5, <2>7, <3>1, <3>3, DeliveryIsHonest
      <4>2. bounded = {} => position' = position
        BY <1>0, <2>5, <3>3, Delivered
      <4>3. bounded # {} => position'.id \in bounded
        BY <1>0, <2>5, <3>3, Delivered
      <4> QED
        BY <2>4, <3>1, <4>1, <4>2, <4>3
    <3> QED
      BY <2>1, <3>2, <3>3
  <2> QED
    BY <2>3, <2>8 DEF GapInv
<1>10. CASE StartRecovery
  <2>1. /\ pc = "read" /\ pc' = "drain"
        /\ UNCHANGED <<added, trimmed, last, pel, position, cursor, live, saved, rejoined, reported>>
    BY <1>10 DEF StartRecovery
  <2> QED
    BY <1>0, <2>1 DEF Trims, LiveIsRetained, Counts, Honest, GapInv
<1>11. CASE ReadNew
  <2>1. /\ pc = "read" /\ pc' = "ack" /\ Undelivered # {} /\ HandOver(Lowest(Undelivered))
        /\ live' = Lowest(Undelivered)
        /\ UNCHANGED <<added, trimmed, position, cursor, saved, rejoined, reported>>
    BY <1>11 DEF ReadNew
  <2>2. /\ Lowest(Undelivered) \subseteq (last + 1)..last' /\ last' \in last..added
        /\ pel' = pel \cup Lowest(Undelivered)
    BY <1>0, <2>1, HandedOver
  <2>3. \A i \in Lowest(Undelivered) : i \in Nat /\ i > trimmed /\ i > last
    <3>1. Undelivered \in SUBSET Ids /\ \A i \in Undelivered : i > trimmed /\ i > last
      BY <1>a, <1>b DEF Undelivered, Retained
    <3> QED
      BY <1>a, <3>1, LowestReads
  <2>4. Trims' /\ LiveIsRetained'
    BY <1>0, <1>a, <2>1, <2>3 DEF Trims, LiveIsRetained
  <2>5. Counts'
    BY <1>0, <1>a, <2>1, <2>2, <2>3 DEF Counts, Honest
  <2> QED
    BY <2>4, <2>5 DEF GapInv
<1>12. CASE ReadNothing
  <2>1. UNCHANGED <<added, trimmed, last, pel, pc, position, cursor, live, saved, rejoined, reported>>
    BY <1>12 DEF ReadNothing
  <2> QED
    BY <1>0, <2>1 DEF Trims, LiveIsRetained, Counts, Honest, GapInv
<1>13. CASE Ack
  <2>1. /\ pc = "ack" /\ pc' = "read" /\ pel' = Acked /\ live' = {} /\ Deliver(live)
        /\ UNCHANGED <<added, trimmed, last, cursor, saved, rejoined, reported>>
    BY <1>13 DEF Ack
  <2>2. pel = batch
    BY <1>0, <2>1 DEF NothingPending
  <2>3. pel' = {}
    BY <2>1, <2>2 DEF Acked
  <2>4. Trims' /\ LiveIsRetained'
    BY <1>0, <2>1 DEF Trims, LiveIsRetained
  <2>5. Counts'
    <3> SUFFICES ASSUME ~rejoined PROVE position'.id <= last /\ Honest(position)'
      <4>1. ~rejoined /\ saved # None => saved.id <= last /\ Honest(saved)'
        BY <1>0, <2>1 DEF Counts, Honest
      <4> QED
        BY <2>1, <2>3, <4>1 DEF Counts
    <3>1. position.id <= last /\ Honest(position) /\ \A i \in pel : i > position.id
      BY <1>0, <2>1 DEF Counts
    <3>2. live \in SUBSET Ids /\ \A i \in live : i > position.id /\ i > reported
      BY <1>0, <1>a, <2>2, <3>1 DEF LiveIsRetained
    <3>3. Honest(position)'
      BY <1>0, <2>1, <3>1, <3>2, DeliveryIsHonest
    <3>4. /\ live = {} => position' = position
          /\ live # {} => position'.id \in live
      BY <1>0, <2>1, <3>2, Delivered
    <3>5. \A i \in live : i <= last
      <4>1. HandedOut
        BY DEF ReaderInv
      <4> QED
        BY <1>a, <2>2, <4>1 DEF HandedOut
    <3> QED
      BY <3>1, <3>3, <3>4, <3>5
  <2> QED
    BY <2>4, <2>5 DEF GapInv
<1>14. CASE ReadFails
  <2>1. /\ pc \in {"read", "drain"} /\ pc' \in {"read", "lost"} /\ live' = {}
        /\ \/ UNCHANGED <<last, pel>>
           \/ Undelivered # {} /\ HandOver(Lowest(Undelivered))
        /\ UNCHANGED <<added, trimmed, position, cursor, saved, rejoined, reported>>
    BY <1>14 DEF ReadFails, ReaderFailed
  <2>2. last <= last' /\ last' \in Nat /\ \A i \in pel' : i \in pel \/ i > last
    <3>1. CASE UNCHANGED <<last, pel>>
      BY <1>a, <3>1
    <3>2. CASE Undelivered # {} /\ HandOver(Lowest(Undelivered))
      <4>1. /\ Lowest(Undelivered) \subseteq (last + 1)..last' /\ last' \in last..added
            /\ pel' = pel \cup Lowest(Undelivered)
        BY <1>0, <3>2, HandedOver
      <4> QED
        BY <1>a, <4>1
    <3> QED
      BY <2>1, <3>1, <3>2
  <2>3. \A i \in pel' : i \in Nat
    BY <1>0 DEF TypeOK, Ids
  <2>4. Trims' /\ LiveIsRetained'
    BY <1>0, <2>1 DEF Trims, LiveIsRetained
  <2>5. Counts'
    <3> SUFFICES ASSUME ~rejoined
                 PROVE  /\ position.id <= last' /\ Honest(position)'
                        /\ saved # None => saved.id <= last' /\ Honest(saved)'
                        /\ \A i \in pel' : i > position.id
      BY <2>1 DEF Counts
    <3>1. /\ position.id <= last /\ Honest(position)
          /\ saved # None => saved.id <= last /\ Honest(saved)
          /\ \A i \in pel : i > position.id
      BY <1>0, <2>1 DEF Counts
    <3>2. \A i \in pel' : i > position.id
      BY <1>a, <2>2, <2>3, <3>1
    <3>3. position.id <= last' /\ (saved # None => saved.id <= last')
      BY <1>a, <2>2, <3>1
    <3> QED
      BY <2>1, <3>1, <3>2, <3>3 DEF Honest
  <2> QED
    BY <2>4, <2>5 DEF GapInv
<1>15. CASE AckFails
  <2>1. /\ pc \in {"ack", "drainAck"} /\ pc' \in {"read", "lost"} /\ live' = {} /\ pel' \subseteq pel
        /\ UNCHANGED <<added, trimmed, last, position, cursor, saved, rejoined, reported>>
    BY <1>15 DEF AckFails, ReaderFailed, Acked
  <2> QED
    BY <1>0, <2>1 DEF Trims, LiveIsRetained, Counts, Honest, GapInv
<1>16. CASE PositioningFails
  <2>1. /\ pc' = "lost" /\ live' = {}
        /\ UNCHANGED <<added, trimmed, last, position, cursor, saved, rejoined, reported>>
    BY <1>16 DEF PositioningFails
  <2> QED
    BY <1>0, <2>1 DEF Trims, LiveIsRetained, Counts, Honest, GapInv
<1>17. CASE FirstCheckpoint \/ Save
  <2>1. /\ saved' = position
        /\ UNCHANGED <<added, trimmed, last, pel, pc, position, cursor, live, rejoined, reported>>
    BY <1>17 DEF FirstCheckpoint, Save
  <2> QED
    BY <1>0, <2>1 DEF Trims, LiveIsRetained, Counts, Honest, GapInv
<1>18. CASE Crash
  <2>1. /\ pc' = "down" /\ live' = {} /\ position' = [id |-> 0, index |-> 0]
        /\ UNCHANGED <<added, trimmed, last, pel, saved, rejoined, reported>>
    BY <1>18 DEF Crash
  <2>2. position'.id = 0 /\ position'.index = 0
    BY <2>1
  <2>3. Trims' /\ LiveIsRetained'
    BY <1>0, <2>1 DEF Trims, LiveIsRetained
  <2>4. Counts'
    BY <1>0, <1>a, <2>1, <2>2 DEF Counts, Honest
  <2> QED
    BY <2>3, <2>4 DEF GapInv
<1>19. CASE EnsureGroupFails
  <2>1. /\ pc = "down" /\ pc' = "lost" /\ (last' = last \/ last' = added)
        /\ UNCHANGED <<added, trimmed, pel, position, cursor, live, saved, rejoined, reported>>
    BY <1>19 DEF EnsureGroupFails
  <2>2. last <= last'
    BY <1>a, <2>1
  <2> QED
    BY <1>0, <1>a, <2>1, <2>2 DEF Trims, LiveIsRetained, Counts, Honest, GapInv
<1> QED
  BY <1>1, <1>2, <1>3, <1>4, <1>5, <1>6, <1>7, <1>8, <1>9, <1>10, <1>11, <1>12, <1>13, <1>14, <1>15,
     <1>16, <1>17, <1>18, <1>19 DEF Next, Start, Pass, Failure

(* The start-up check of the store (replay_gaps) never understates: for every read  *)
(* size, retry budget and schedule of crashes it reports at least the entries that  *)
(* retention took behind the saved position since the last report, unless a store   *)
(* once joined an existing group without a position.                            *)
THEOREM GapIsNeverUnderstated == Spec => []GapIsNotUnderstated
<1>1. Init => GapInv
  <2> SUFFICES ASSUME Init PROVE GapInv
    OBVIOUS
  <2>1. /\ added = 0 /\ trimmed = 0 /\ last = 0 /\ pel = {} /\ pc = "down" /\ live = {}
        /\ position = [id |-> 0, index |-> 0] /\ saved = None /\ reported = 0
    BY DEF Init
  <2>2. position.id = 0 /\ position.index = 0
    BY <2>1
  <2> QED
    BY <2>1, <2>2 DEF GapInv, Trims, LiveIsRetained, Counts, Honest
<1>2. ReaderInv /\ ReaderInv' /\ GapInv /\ [Next]_vars => GapInv'
  <2> SUFFICES ASSUME ReaderInv, ReaderInv', GapInv, [Next]_vars PROVE GapInv'
    OBVIOUS
  <2>1. CASE Next
    BY <2>1, GapKept
  <2>2. CASE UNCHANGED vars
    BY <2>2
      DEF vars, redis, reader, consumer, history, GapInv, Trims, LiveIsRetained, Counts,
         Honest
  <2> QED
    BY <2>1, <2>2
<1>3. ReaderInv /\ GapInv => GapIsNotUnderstated
  <2> SUFFICES ASSUME ReaderInv, GapInv, saved # None, ~rejoined
               PROVE  Lost >= Cardinality({i \in 1..trimmed : i > saved.id /\ i > reported})
    BY DEF GapIsNotUnderstated
  <2> DEFINE S == {i \in 1..trimmed : i > saved.id /\ i > reported}
             from == saved.index
  <2>1. /\ saved.id \in Nat /\ from \in Nat /\ reported \in Nat
        /\ trimmed \in Nat /\ added \in Nat /\ trimmed <= added
    BY DEF ReaderInv, TypeOK, Position
  <2>2. (from <= saved.id \/ from <= reported) /\ (added > 0 => trimmed < added)
    BY DEF GapInv, Counts, Honest, Trims
  <2>3. CASE S = {}
    <3>1. Cardinality(S) = 0
      BY <2>3, FS_EmptySet
    <3>2. Lost >= 0
      <4>1. CASE Retained = {}
        BY <4>1 DEF Lost
      <4>2. CASE Retained # {}
        <5> DEFINE d == trimmed - saved.index
        <5>1. d \in Int
          BY <2>1
        <5> HIDE DEF d
        <5>2. Max({0, d}) >= 0
          <6>1. \E x \in {0, d} : \A y \in {0, d} : x >= y
            BY <5>1
          <6> QED
            BY <6>1 DEF Max
        <5> QED
          BY <4>2, <5>2 DEF Lost, d
      <4> QED
        BY <4>1, <4>2
    <3> QED
      BY <3>1, <3>2
  <2>4. CASE S # {}
    <3>1. PICK k \in S : TRUE
      BY <2>4
    <3>2. k \in 1..trimmed /\ k > from
      BY <2>1, <2>2
    <3>3. trimmed < added /\ from < trimmed
      BY <2>1, <2>2, <3>2
    <3>4. Retained # {}
      <4>1. added \in Retained
        BY <2>1, <3>3 DEF Retained
      <4> QED
        BY <4>1
    <3> DEFINE d == trimmed - saved.index
    <3>5. d \in Nat /\ d > 0
      BY <2>1, <3>3
    <3>6. S \in SUBSET ((from + 1)..trimmed)
      BY <2>1, <2>2
    <3>7. IsFiniteSet((from + 1)..trimmed) /\ Cardinality((from + 1)..trimmed) = d
      <4>1. from + 1 \in Int /\ trimmed \in Int /\ ~(from + 1 > trimmed)
        BY <2>1, <3>3
      <4>2. /\ IsFiniteSet((from + 1)..trimmed)
            /\ Cardinality((from + 1)..trimmed) = IF from + 1 > trimmed THEN 0 ELSE trimmed - (from + 1) + 1
        BY <4>1, FS_Interval
      <4> QED
        BY <2>1, <4>1, <4>2
    <3>8. Cardinality(S) <= d
      <4>1. Cardinality(S) <= Cardinality((from + 1)..trimmed)
        BY <3>6, <3>7, FS_Subset
      <4> HIDE DEF S
      <4> QED
        BY <3>7, <4>1
    <3> HIDE DEF d
    <3>9. Max({0, d}) = d
      <4>1. \E x \in {0, d} : \A y \in {0, d} : x >= y
        BY <3>5
      <4>2. Max({0, d}) \in {0, d} /\ Max({0, d}) >= d
        BY <4>1 DEF Max
      <4> QED
        BY <3>5, <4>2
    <3>10. Lost = d
      BY <3>4, <3>9 DEF Lost, d
    <3>11. IsFiniteSet(S)
      BY <3>6, <3>7, FS_Subset
    <3>12. Cardinality(S) \in Nat
      BY <3>11, FS_CardinalityType
    <3> QED
      BY <3>5, <3>8, <3>10, <3>12
  <2> QED
    BY <2>3, <2>4
<1> QED
  BY <1>1, <1>2, <1>3, InvHolds, PTL DEF Spec
=============================================================================
