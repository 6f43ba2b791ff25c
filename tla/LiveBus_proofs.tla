--------------------------- MODULE LiveBus_proofs ---------------------------
(***************************************************************************)
(* Theorems about LiveBus for every ceiling, read size, queue, retry budget,  *)
(* number of records and number of faults.                                  *)
(*                                                                         *)
(* The publisher's half: a record older than the one in hand is on the        *)
(* stream already, or nothing newer than it is; what waits, the batch before  *)
(* the outbox, ascends. The reader's half: behind its cursor it has missed    *)
(* only what retention took or a full queue would have evicted, and it has    *)
(* counted no more than that.                                               *)
(*                                                                         *)
(* The counters: what was confirmed is on the stream and waits no more, so a   *)
(* batch that is confirmed adds as many records as it is long.                *)
(***************************************************************************)
EXTENDS LiveBus, SequenceTheorems, FunctionTheorems, FiniteSetTheorems, TLAPS

TypeOK ==
  /\ bus \in {"open", "closing", "closed"} /\ published \in Nat
  /\ outbox \in Seq(Nat) /\ batch \in Seq(Nat) /\ cancelled \in Seq(Nat)
  /\ sent \in Nat /\ sent <= Len(batch)
  /\ written \in Nat /\ outboxDropped \in Nat
  /\ stream \in Seq(Nat) /\ trimmed \in Nat /\ trimmed <= Len(stream)
  /\ pc \in {"start", "read", "heads", "newest", "lost"}
  /\ lastId \in Nat /\ baseline \in Nat /\ delivered \in Nat
  /\ outstanding \in Int /\ head \in Nat /\ skipped \in Nat /\ retries \in Nat
  /\ queue \in Seq(Nat) /\ shown \in Nat
  /\ start \in Nat /\ seen \in SUBSET Nat
  /\ faults \in Nat

(* What waits for the stream, oldest first.                                   *)
Waiting == batch \o outbox

(* s ascends, and by at least one from each element to the next.              *)
Spread(s) == \A i, j \in 1..Len(s) : i <= j => s[j] - s[i] >= j - i

(* r may be written, or written again, without coming late for the first time. *)
NotLate(r) ==
  \A i \in 1..Len(stream) : stream[i] > r => \E k \in 1..(i - 1) : stream[k] = r

OutboxInv ==
  /\ Spread(Waiting)
  /\ Records(Waiting) \subseteq 1..published
  /\ \A i \in 1..Len(stream) : stream[i] <= published
  /\ \A m \in 1..sent : batch[m] \in Records(stream)
  /\ \A r \in Records(stream) \cup Records(Waiting) : NotLate(r)
  /\ bus = "open" => cancelled = <<>>
  /\ NewestAreKept

(* What the reader has missed up to its cursor.                               *)
Missed == {id \in (start + 1)..lastId : id \notin seen}

SkipInv ==
  /\ start <= lastId /\ lastId <= Len(stream)
  /\ Len(stream) > 0 => trimmed < Len(stream)
  /\ seen \subseteq 1..lastId
  /\ \A id \in Missed : id <= trimmed \/ id <= lastId - Capacity
  /\ skipped <= Cardinality(Missed)
  /\ lastId - baseline - delivered <= Cardinality(Missed) - skipped
  /\ pc = "start" => lastId = 0 /\ seen = {} /\ skipped = 0
  /\ pc = "newest" =>
       /\ lastId <= head /\ head <= Len(stream)
       /\ outstanding = head - baseline - delivered
       /\ outstanding > Capacity

USE LiveAssumption

----------------------------------------------------------------------------
(* The ids from..to, as a sequence, are the numbers of that interval in order. *)
LEMMA RunIsTheInterval ==
  ASSUME NEW from \in Nat, NEW to \in Nat, from <= to + 1
  PROVE  /\ Run(from, to) \in Seq(Nat)
         /\ Len(Run(from, to)) = to - from + 1
         /\ \A i \in 1..(to - from + 1) : Run(from, to)[i] = from + i - 1
<1>1. to - from + 1 \in Nat
  OBVIOUS
<1>2. \A i \in 1..(to - from + 1) : from + i - 1 \in Nat
  OBVIOUS
<1>3. Run(from, to) = [i \in 1..(to - from + 1) |-> from + i - 1]
  BY DEF Run
<1> QED
  BY <1>1, <1>2, <1>3

(* The newest n elements of a sequence are its end.                           *)
LEMMA NewestIsTheEnd ==
  ASSUME NEW s \in Seq(Nat), NEW n \in Nat
  PROVE  /\ Newest(n, s) \in Seq(Nat)
         /\ Len(Newest(n, s)) = IF Len(s) > n THEN n ELSE Len(s)
         /\ \A i \in 1..Len(Newest(n, s)) :
              Newest(n, s)[i] = s[Len(s) - Len(Newest(n, s)) + i]
<1> DEFINE m == IF Len(s) > n THEN Len(s) - n + 1 ELSE 1
<1>1. m \in 1..(Len(s) + 1) /\ Len(s) \in Nat
  OBVIOUS
<1>2. Newest(n, s) = SubSeq(s, m, Len(s))
  BY DEF Newest
<1>3. SubSeq(s, m, Len(s)) \in Seq(Nat)
  BY SMTT(30), <1>1
<1>a. m = IF Len(s) > n THEN Len(s) - n + 1 ELSE 1
  OBVIOUS
<1> HIDE DEF m
<1>b. Len(SubSeq(s, m, Len(s))) = Len(s) - m + 1
  BY <1>1, SubSeqProperties
<1>4. Len(SubSeq(s, m, Len(s))) = IF Len(s) > n THEN n ELSE Len(s)
  <2>1. m \in Int /\ n \in Int /\ Len(s) \in Int
    BY <1>1
  <2>2. Len(s) > n => m = Len(s) - n + 1
    BY <1>a
  <2>3. ~(Len(s) > n) => m = 1
    BY <1>a
  <2> QED
    BY <2>1, <2>2, <2>3, <1>b
<1>5. ASSUME NEW i \in 1..Len(SubSeq(s, m, Len(s)))
      PROVE  SubSeq(s, m, Len(s))[i] = s[Len(s) - Len(SubSeq(s, m, Len(s))) + i]
  <2>1. i \in 1..(Len(s) - m + 1)
    BY <1>b
  <2>2. SubSeq(s, m, Len(s))[i] = s[m + i - 1]
    BY <1>1, <2>1, SubSeqProperties
  <2>3. m + i - 1 = Len(s) - Len(SubSeq(s, m, Len(s))) + i
    BY <1>1, <2>1, <1>b
  <2> QED
    BY <2>2, <2>3
<1> QED
  BY <1>2, <1>3, <1>4, <1>5, <1>a

(* The first n elements of a sequence are its beginning.                      *)
LEMMA UpToIsTheBeginning ==
  ASSUME NEW s \in Seq(Nat), NEW n \in Nat
  PROVE  /\ UpTo(n, s) \in Seq(Nat)
         /\ Len(UpTo(n, s)) = IF Len(s) < n THEN Len(s) ELSE n
         /\ \A i \in 1..Len(UpTo(n, s)) : UpTo(n, s)[i] = s[i]
<1> DEFINE m == IF Len(s) < n THEN Len(s) ELSE n
<1>1. m \in 0..Len(s) /\ Len(s) \in Nat
  OBVIOUS
<1>2. UpTo(n, s) = SubSeq(s, 1, m)
  BY DEF UpTo
<1> QED
  BY SMTT(30), <1>1, <1>2

(* A delivery leaves the cursor, the queue and the seen ids typed.              *)
LEMMA DeliverIsTyped ==
  ASSUME TypeOK, NEW ids \in Seq(Nat), Deliver(ids)
  PROVE  lastId' \in Nat /\ queue' \in Seq(Nat) /\ seen' \in SUBSET Nat
<1>1. lastId \in Nat /\ queue \in Seq(Nat) /\ seen \in SUBSET Nat
  BY DEF TypeOK
<1>2. queue \o ids \in Seq(Nat)
  BY <1>1
<1>3. Capacity \in Nat
  OBVIOUS
<1>4. Newest(Capacity, queue \o ids) \in Seq(Nat)
  BY <1>2, <1>3, NewestIsTheEnd
<1>5. queue' \in Seq(Nat)
  BY <1>4 DEF Deliver, KeptInQueue
<1>6. lastId' \in Nat
  <2>1. CASE ids = <<>>
    BY <2>1, <1>1 DEF Deliver
  <2>2. CASE ids # <<>>
    BY <2>2 DEF Deliver
  <2> QED
    BY <2>1, <2>2
<1>7. seen' \in SUBSET Nat
  <2>1. \A i \in 1..Len(ids) : ids[i] \in Nat
    OBVIOUS
  <2>2. {ids[i] : i \in 1..Len(ids)} \in SUBSET Nat
    BY <2>1
  <2> QED
    BY <1>1, <2>2 DEF Deliver
<1> QED
  BY <1>5, <1>6, <1>7

(* The ids a read finds: what retention left past the cursor.                  *)
LEMMA RetainedIsTheInterval ==
  ASSUME TypeOK, NEW id \in Nat, id <= Len(stream)
  PROVE  \E from \in Nat :
           /\ from = (IF id < trimmed THEN trimmed + 1 ELSE id + 1)
           /\ Retained(id) \in Seq(Nat)
           /\ Len(Retained(id)) = Len(stream) - from + 1
           /\ \A i \in 1..Len(Retained(id)) : Retained(id)[i] = from + i - 1
<1> DEFINE from == IF id < trimmed THEN trimmed + 1 ELSE id + 1
<1>1. Len(stream) \in Nat /\ trimmed \in Nat /\ trimmed <= Len(stream)
  BY DEF TypeOK
<1>2. from \in Nat /\ from <= Len(stream) + 1
  BY <1>1
<1>3. Retained(id) = Run(from, Len(stream))
  BY DEF Retained
<1> HIDE DEF from
<1>4. /\ Run(from, Len(stream)) \in Seq(Nat)
      /\ Len(Run(from, Len(stream))) = Len(stream) - from + 1
      /\ \A i \in 1..(Len(stream) - from + 1) : Run(from, Len(stream))[i] = from + i - 1
  BY <1>1, <1>2, RunIsTheInterval
<1>5. from = (IF id < trimmed THEN trimmed + 1 ELSE id + 1)
  BY DEF from
<1> QED
  BY <1>2, <1>3, <1>4, <1>5

----------------------------------------------------------------------------
(* The variables have their types in every state.                              *)
LEMMA TypesStart == Init => TypeOK
BY DEF Init, TypeOK

(* A read's ids are typed, and begin where the cursor or retention stands.      *)
LEMMA ReadIds ==
  ASSUME TypeOK, lastId <= Len(stream)
  PROVE  UpTo(ReadCount, Retained(lastId)) \in Seq(Nat)
<1>1. lastId \in Nat /\ ReadCount \in Nat
  BY DEF TypeOK
<1>2. Retained(lastId) \in Seq(Nat)
  BY <1>1, RetainedIsTheInterval
<1> QED
  BY <1>1, <1>2, UpToIsTheBeginning

(* A resync's ids are typed.                                                   *)
LEMMA ResyncIds ==
  ASSUME TypeOK
  PROVE  Newest(Capacity, Retained(0)) \in Seq(Nat)
<1>1. 0 <= Len(stream) /\ Capacity \in Nat
  BY DEF TypeOK
<1>2. Retained(0) \in Seq(Nat)
  BY <1>1, RetainedIsTheInterval
<1> QED
  BY <1>1, <1>2, NewestIsTheEnd

(* A step leaves the types, the cursor within the stream.                       *)
LEMMA TypesKeep ==
  ASSUME TypeOK, lastId <= Len(stream), Next
  PROVE  TypeOK'
<1> USE DEF publisher, redis, cursor, screen
<1>t. /\ outbox \in Seq(Nat) /\ batch \in Seq(Nat) /\ stream \in Seq(Nat) /\ queue \in Seq(Nat)
      /\ published \in Nat /\ outboxDropped \in Nat /\ sent \in Nat /\ trimmed \in Nat
      /\ MaxOutbox \in Nat
  BY DEF TypeOK
<1>1. CASE Publish
  <2> DEFINE box == Append(outbox, published + 1)
  <2>1. box \in Seq(Nat) /\ Len(box) \in Nat
    BY <1>t
  <2>2. Newest(MaxOutbox, box) \in Seq(Nat)
    BY <2>1, <1>t, NewestIsTheEnd
  <2>3. outbox' \in Seq(Nat) /\ outboxDropped' \in Nat
    <3>1. CASE Len(box) > MaxOutbox
      <4>1. outbox' = Newest(MaxOutbox, box)
        BY <1>1, <3>1 DEF Publish, Kept
      <4>2. outboxDropped' = outboxDropped + Len(box) - MaxOutbox
        BY <1>1, <3>1 DEF Publish
      <4> HIDE DEF box
      <4> QED
        BY <4>1, <4>2, <3>1, <2>1, <2>2, <1>t
    <3>2. CASE ~(Len(box) > MaxOutbox)
      BY <1>1, <2>1, <3>2, <1>t DEF Publish
    <3> QED
      BY <3>1, <3>2
  <2>4. published' \in Nat
    BY <1>1, <1>t DEF Publish
  <2>5. UNCHANGED <<bus, batch, sent, written, cancelled, redis, screen, faults>>
    BY <1>1 DEF Publish
  <2> QED
    BY <2>3, <2>4, <2>5 DEF TypeOK
<1>2. CASE Flush
  BY <1>2 DEF Flush, TypeOK
<1>3. CASE Add
  <2>1. stream' \in Seq(Nat) /\ Len(stream') = Len(stream) + 1
    BY SMTT(30), <1>3, <1>t DEF Add
  <2>2. sent' \in Nat /\ sent' <= Len(batch)
    BY <1>3, <1>t DEF Add
  <2>3. trimmed <= Len(stream')
    BY <2>1, <1>t DEF TypeOK
  <2>4. UNCHANGED <<bus, published, outbox, batch, written, outboxDropped, cancelled, trimmed,
                    screen, faults>>
    BY <1>3 DEF Add
  <2> QED
    BY <2>1, <2>2, <2>3, <2>4 DEF TypeOK
<1>4. CASE Trim
  <2>1. trimmed' \in (trimmed + 1)..(Len(stream) - sent)
    BY <1>4 DEF Trim
  <2>2. trimmed' \in Nat /\ trimmed' <= Len(stream)
    BY <2>1, <1>t
  <2> QED
    BY <1>4, <2>2 DEF Trim, TypeOK
<1>5. CASE FlushDone
  BY SMTT(30), <1>5 DEF FlushDone, AfterFlush, TypeOK
<1>6. CASE FlushFails
  BY <1>6 DEF FlushFails, AfterFlush, PutBack, Fault, TypeOK
<1>7. CASE Close
  BY <1>7 DEF Close, TypeOK
<1>8. CASE Position
  BY SMTT(30), <1>8 DEF Position, TypeOK
<1>9. CASE PositionFails
  BY <1>9 DEF PositionFails, Fault, TypeOK
<1>10. CASE Read
  <2> DEFINE ids == UpTo(ReadCount, Retained(lastId))
  <2>1. ids \in Seq(Nat)
    BY ReadIds
  <2>2. Deliver(ids) /\ delivered' = delivered + Len(ids)
    BY <1>10 DEF Read
  <2>3. pc' \in {"heads", pc} /\ retries' \in {0, retries}
    BY <1>10 DEF Read
  <2>4. UNCHANGED <<publisher, redis, baseline, skipped, outstanding, head, shown, start, faults>>
    BY <1>10 DEF Read
  <2> HIDE DEF ids
  <2>5. lastId' \in Nat /\ queue' \in Seq(Nat) /\ seen' \in SUBSET Nat
    BY <2>1, <2>2, DeliverIsTyped
  <2>6. delivered' \in Nat
    BY <2>1, <2>2 DEF TypeOK
  <2> QED
    BY SMTT(30), <2>3, <2>4, <2>5, <2>6 DEF TypeOK
<1>11. CASE ReadNothing
  BY <1>11 DEF ReadNothing, TypeOK
<1>12. CASE Heads
  <2>1. Len(stream) \in Nat /\ Behind \in Int /\ head \in Nat /\ outstanding \in Int
    BY DEF TypeOK, Behind
  <2>2. outstanding' \in {outstanding, Behind} /\ head' \in {head, Len(stream)}
    BY <1>12 DEF Heads
  <2>3. pc' \in {"read", "newest"} /\ retries' \in {0, retries}
    BY <1>12 DEF Heads
  <2>4. UNCHANGED <<publisher, redis, cursor, queue, shown, start, seen, faults>>
    BY <1>12 DEF Heads
  <2> QED
    BY SMTT(30), <2>1, <2>2, <2>3, <2>4 DEF TypeOK
<1>13. CASE Resync
  <2> DEFINE ids == Newest(Capacity, Retained(0))
  <2>1. ids \in Seq(Nat)
    BY ResyncIds
  <2>2. /\ Deliver(ids) /\ delivered' = Len(ids) /\ baseline' = head
        /\ skipped' = skipped + (IF outstanding > Len(ids) THEN outstanding - Len(ids) ELSE 0)
    BY <1>13 DEF Resync, NewBaseline
  <2>3. /\ outstanding' = 0 /\ head' = 0 /\ retries' = 0 /\ pc' = "read"
        /\ UNCHANGED <<publisher, redis, shown, start, faults>>
    BY <1>13 DEF Resync
  <2> HIDE DEF ids
  <2>4. lastId' \in Nat /\ queue' \in Seq(Nat) /\ seen' \in SUBSET Nat
    BY <2>1, <2>2, DeliverIsTyped
  <2>5. skipped \in Nat /\ outstanding \in Int /\ Len(ids) \in Nat /\ head \in Nat
    BY <2>1 DEF TypeOK
  <2>6. skipped' \in Nat /\ delivered' \in Nat /\ baseline' \in Nat
    BY <2>2, <2>5
  <2> QED
    BY <2>3, <2>4, <2>6 DEF TypeOK
<1>14. CASE ReadFails
  BY <1>14 DEF ReadFails, Fault, TypeOK
<1>15. CASE Take
  BY SMTT(30), <1>15, <1>t DEF Take, TypeOK
<1> QED
  BY <1>1, <1>2, <1>3, <1>4, <1>5, <1>6, <1>7, <1>8, <1>9, <1>10, <1>11, <1>12, <1>13,
     <1>14, <1>15 DEF Next

----------------------------------------------------------------------------
(* A concatenation is the first sequence and then the second.                  *)
LEMMA ConcatIs ==
  ASSUME NEW s \in Seq(Nat), NEW t \in Seq(Nat)
  PROVE  /\ s \o t \in Seq(Nat) /\ Len(s \o t) = Len(s) + Len(t)
         /\ \A i \in 1..Len(s) : (s \o t)[i] = s[i]
         /\ \A i \in 1..Len(t) : (s \o t)[Len(s) + i] = t[i]
<1>1. s \o t \in Seq(Nat) /\ Len(s \o t) = Len(s) + Len(t)
  OBVIOUS
<1>2. \A i \in 1..(Len(s) + Len(t)) :
        (s \o t)[i] = IF i <= Len(s) THEN s[i] ELSE t[i - Len(s)]
  OBVIOUS
<1>3. Len(s) \in Nat /\ Len(t) \in Nat
  OBVIOUS
<1>4. ASSUME NEW i \in 1..Len(t) PROVE (s \o t)[Len(s) + i] = t[i]
  <2>1. Len(s) + i \in 1..(Len(s) + Len(t)) /\ ~(Len(s) + i <= Len(s))
    BY <1>3
  <2>2. Len(s) + i - Len(s) = i
    BY <1>3
  <2> QED
    BY <2>1, <2>2, <1>2
<1> QED
  BY <1>1, <1>2, <1>3, <1>4

(* What is left of an ascending sequence ascends.                              *)
LEMMA PartIsSpread ==
  ASSUME NEW s \in Seq(Nat), NEW t \in Seq(Nat), Spread(s),
         NEW f \in [1..Len(t) -> 1..Len(s)],
         \A i \in 1..Len(t) : t[i] = s[f[i]],
         \A i, j \in 1..Len(t) : i <= j => f[j] - f[i] >= j - i
  PROVE  Spread(t)
<1> SUFFICES ASSUME NEW i \in 1..Len(t), NEW j \in 1..Len(t), i <= j
             PROVE  t[j] - t[i] >= j - i
  BY DEF Spread
<1>1. f[i] \in 1..Len(s) /\ f[j] \in 1..Len(s)
  OBVIOUS
<1>2. f[j] - f[i] >= j - i /\ i \in Int /\ j \in Int
  OBVIOUS
<1>3. f[i] \in Int /\ f[j] \in Int /\ f[i] <= f[j]
  BY <1>1, <1>2
<1>4. s[f[j]] - s[f[i]] >= f[j] - f[i]
  BY <1>1, <1>3 DEF Spread
<1>5. \A k \in 1..Len(s) : s[k] \in Nat
  BY SMTT(30)
<1>6. s[f[i]] \in Nat /\ s[f[j]] \in Nat
  BY <1>1, <1>5
<1>7. s[f[j]] - s[f[i]] >= j - i
  <2>1. \A a, b, c \in Int : a >= b /\ b >= c => a >= c
    OBVIOUS
  <2>a. \A a, b \in Int : a - b \in Int
    OBVIOUS
  <2>b. s[f[i]] \in Int /\ s[f[j]] \in Int
    BY SMTT(30), <1>6
  <2>c. i \in Int /\ j \in Int
    BY <1>2
  <2>2. s[f[j]] - s[f[i]] \in Int /\ f[j] - f[i] \in Int /\ j - i \in Int
    BY <1>3, <2>a, <2>b, <2>c
  <2> QED
    BY <2>1, <2>2, <1>2, <1>4
<1>8. t[i] = s[f[i]] /\ t[j] = s[f[j]]
  OBVIOUS
<1> QED
  BY <1>7, <1>8

(* The publisher starts with nothing to write.                                 *)
LEMMA OutboxStarts == Init => OutboxInv
BY DEF Init, OutboxInv, Waiting, Spread, Records, NotLate, NewestAreKept

(* The reader moves nothing of the publisher's.                                 *)
LEMMA OthersKeepTheOutbox ==
  ASSUME OutboxInv, UNCHANGED <<publisher, stream>>
  PROVE  OutboxInv'
<1>1. UNCHANGED <<bus, published, outbox, batch, sent, cancelled, stream>>
  BY DEF publisher
<1>2. Waiting' = Waiting
  BY <1>1 DEF Waiting
<1>3. (\A r \in Records(stream) \cup Records(Waiting) : NotLate(r))'
  BY ZenonT(30), <1>1, <1>2 DEF OutboxInv, NotLate, Records
<1>4. NewestAreKept'
  BY <1>1 DEF OutboxInv, NewestAreKept, Records
<1>5. Spread(Waiting)' /\ (Records(Waiting) \subseteq 1..published)'
  BY <1>1, <1>2 DEF OutboxInv, Spread, Records
<1>6. (\A m \in 1..sent : batch[m] \in Records(stream))'
  BY <1>1 DEF OutboxInv, Records
<1> QED
  BY <1>1, <1>3, <1>4, <1>5, <1>6 DEF OutboxInv

(* A step that writes nothing to the stream and leaves waiting a part of what    *)
(* waited, in order, makes nothing late.                                       *)
LEMMA LessWaits ==
  ASSUME TypeOK, TypeOK', OutboxInv, UNCHANGED <<stream, published>>,
         NEW f \in [1..Len(Waiting') -> 1..Len(Waiting)],
         \A i \in 1..Len(Waiting') : Waiting'[i] = Waiting[f[i]],
         \A i, j \in 1..Len(Waiting') : i <= j => f[j] - f[i] >= j - i
  PROVE  /\ Spread(Waiting)'
         /\ (Records(Waiting) \subseteq 1..published)'
         /\ (\A i \in 1..Len(stream) : stream[i] <= published)'
         /\ (\A r \in Records(stream) \cup Records(Waiting) : NotLate(r))'
<1>1. Waiting \in Seq(Nat) /\ Waiting' \in Seq(Nat)
  BY ConcatIs DEF TypeOK, Waiting
<1>2. Spread(Waiting)
  BY DEF OutboxInv
<1>3. Spread(Waiting')
  BY <1>1, <1>2, PartIsSpread
<1>4. Records(Waiting') \subseteq Records(Waiting)
  <2>1. \A i \in 1..Len(Waiting') : f[i] \in 1..Len(Waiting)
    OBVIOUS
  <2>2. \A i \in 1..Len(Waiting') : \E k \in 1..Len(Waiting) : Waiting'[i] = Waiting[k]
    BY <2>1
  <2> QED
    BY SMTT(30), <2>2 DEF Records
<1>5. \A r : NotLate(r)' <=> NotLate(r)
  BY DEF NotLate
<1>6. Records(stream)' = Records(stream)
  BY DEF Records
<1>7. Spread(Waiting)'
  BY <1>3 DEF Spread
<1>8. Records(Waiting)' = Records(Waiting')
  BY DEF Records
<1>9. /\ Records(Waiting) \subseteq 1..published
      /\ \A i \in 1..Len(stream) : stream[i] <= published
      /\ \A r \in Records(stream) \cup Records(Waiting) : NotLate(r)
  BY DEF OutboxInv
<1> QED
  BY <1>4, <1>5, <1>6, <1>7, <1>8, <1>9

(* What is published is newer than all that waits and all that was written.     *)
LEMMA NewestIsAhead ==
  ASSUME TypeOK, OutboxInv
  PROVE  Spread(batch \o Append(outbox, published + 1))
<1> DEFINE box == Append(outbox, published + 1)
           full == batch \o box
<1>1. /\ batch \in Seq(Nat) /\ outbox \in Seq(Nat) /\ published \in Nat
  BY DEF TypeOK
<1>2. /\ box \in Seq(Nat) /\ Len(box) = Len(outbox) + 1
      /\ box[Len(box)] = published + 1
      /\ \A i \in 1..Len(outbox) : box[i] = outbox[i]
  BY <1>1
<1> HIDE DEF box
<1>3. /\ full \in Seq(Nat) /\ Len(full) = Len(batch) + Len(box)
      /\ \A i \in 1..Len(batch) : full[i] = batch[i]
      /\ \A i \in 1..Len(box) : full[Len(batch) + i] = box[i]
  BY <1>1, <1>2, ConcatIs
<1>4. /\ Waiting \in Seq(Nat) /\ Len(Waiting) = Len(batch) + Len(outbox)
      /\ \A i \in 1..Len(batch) : Waiting[i] = batch[i]
      /\ \A i \in 1..Len(outbox) : Waiting[Len(batch) + i] = outbox[i]
  BY <1>1, ConcatIs DEF Waiting
<1>5. Len(batch) \in Nat /\ Len(outbox) \in Nat /\ Len(box) \in Nat
  BY <1>1, <1>2
<1>6. ASSUME NEW i \in 1..Len(Waiting) PROVE full[i] = Waiting[i]
  <2>1. CASE i <= Len(batch)
    BY SMTT(30), <2>1, <1>3, <1>4, <1>5
  <2>2. CASE ~(i <= Len(batch))
    <3>1. i - Len(batch) \in 1..Len(outbox) /\ i - Len(batch) \in 1..Len(box)
      BY SMTT(30), <2>2, <1>4, <1>5, <1>2
    <3>2. Len(batch) + (i - Len(batch)) = i
      BY <1>5
    <3> QED
      BY ZenonT(30), <3>1, <3>2, <1>2, <1>3, <1>4
  <2> QED
    BY <2>1, <2>2
<1>7. full[Len(Waiting) + 1] = published + 1 /\ Len(full) = Len(Waiting) + 1
  <2>1. Len(batch) + Len(box) = Len(Waiting) + 1 /\ Len(box) \in 1..Len(box)
    BY <1>2, <1>4, <1>5
  <2> QED
    BY <2>1, <1>2, <1>3
<1>8. Spread(Waiting) /\ \A i \in 1..Len(Waiting) : Waiting[i] \in 1..published
  BY DEF OutboxInv, Records
<1> HIDE DEF full
<1>9. ASSUME NEW i \in 1..Len(full), NEW j \in 1..Len(full), i <= j
      PROVE  full[j] - full[i] >= j - i
  <2>1. CASE j <= Len(Waiting)
    <3>1. i \in 1..Len(Waiting) /\ j \in 1..Len(Waiting)
      BY <2>1, <1>9, <1>4, <1>5
    <3> QED
      BY <3>1, <1>6, <1>8, <1>9 DEF Spread
  <2>2. CASE i = Len(Waiting) + 1
    <3>1. j = i
      BY <2>2, <1>7, <1>9, <1>4, <1>5
    <3>2. full[i] \in Nat
      BY <1>3
    <3> QED
      BY <3>1, <3>2
  <2>3. CASE i # Len(Waiting) + 1 /\ ~(j <= Len(Waiting))
    <3> DEFINE n == Len(Waiting)
    <3>1. n \in Nat /\ j = n + 1 /\ i \in 1..n /\ n \in 1..n
      BY SMTT(30), <2>3, <1>7, <1>9, <1>4, <1>5
    <3>2. Waiting[n] - Waiting[i] >= n - i
      BY <3>1, <1>8 DEF Spread
    <3>3. Waiting[n] \in 1..published /\ Waiting[i] \in 1..published
      BY <3>1, <1>8
    <3>4. full[i] = Waiting[i] /\ full[j] = published + 1
      BY <3>1, <1>6, <1>7
    <3>5. \A top, a, b, x, y \in Int : a - b >= y - x /\ a <= top => top + 1 - b >= y + 1 - x
      OBVIOUS
    <3>6. published \in Int /\ Waiting[n] \in Int /\ Waiting[i] \in Int /\ i \in Int /\ n \in Int
      BY SMTT(30), <3>1, <3>3, <1>1
    <3>7. Waiting[n] <= published
      BY <3>3
    <3> HIDE DEF n
    <3>8. published + 1 - Waiting[i] >= n + 1 - i
      BY <3>2, <3>5, <3>6, <3>7
    <3>9. j = n + 1
      BY <3>1
    <3>10. published + 1 - full[i] >= n + 1 - i
      BY <3>4, <3>8
    <3>11. published + 1 - full[i] >= j - i
      BY <3>6, <3>9, <3>10
    <3> QED
      BY SMTT(30), <3>4, <3>6, <3>11
  <2> QED
    BY <2>1, <2>2, <2>3
<1> QED
  BY <1>9 DEF Spread, full, box

(* The ceiling takes the oldest of the outbox, and a record it takes has as many  *)
(* newer ones behind it as the outbox may hold.                                  *)
LEMMA PublishKeepsTheOutbox ==
  ASSUME TypeOK, TypeOK', OutboxInv, Publish
  PROVE  OutboxInv'
<1> DEFINE box == Append(outbox, published + 1)
           full == batch \o box
<1>1. /\ batch \in Seq(Nat) /\ outbox \in Seq(Nat) /\ published \in Nat /\ MaxOutbox \in Nat
      /\ stream \in Seq(Nat) /\ outbox' \in Seq(Nat) /\ MaxOutbox > 0
  <2>1. MaxOutbox \in Nat /\ MaxOutbox > 0
    OBVIOUS
  <2> QED
    BY <2>1 DEF TypeOK
<1>2. /\ box \in Seq(Nat) /\ Len(box) = Len(outbox) + 1
      /\ box[Len(outbox) + 1] = published + 1
      /\ \A i \in 1..Len(outbox) : box[i] = outbox[i]
  BY <1>1
<1>3. /\ published' = published + 1
      /\ UNCHANGED <<bus, batch, sent, cancelled, stream>>
  BY DEF Publish, redis
<1>4. \/ outbox' = box
      \/ Len(box) > MaxOutbox /\ outbox' = Newest(MaxOutbox, box)
  <2>1. CASE Len(box) > MaxOutbox
    BY <2>1 DEF Publish, Kept
  <2>2. CASE ~(Len(box) > MaxOutbox)
    <3>1. outbox' = Append(outbox, published + 1)
      BY <2>2 DEF Publish
    <3> QED
      BY <3>1
  <2> QED
    BY <2>1, <2>2
<1>5. Spread(full)
  BY NewestIsAhead
<1> HIDE DEF box
<1>6. /\ full \in Seq(Nat) /\ Len(full) = Len(batch) + Len(box)
      /\ \A i \in 1..Len(batch) : full[i] = batch[i]
      /\ \A i \in 1..Len(box) : full[Len(batch) + i] = box[i]
  BY <1>1, <1>2, ConcatIs
<1>7. Len(batch) \in Nat /\ Len(outbox) \in Nat /\ Len(box) \in Nat /\ Len(outbox') \in Nat
  BY <1>1, <1>2
<1>8. PICK d \in Nat :
        /\ Len(outbox') = Len(box) - d
        /\ \A i \in 1..Len(outbox') : outbox'[i] = box[d + i]
        /\ d = 0 \/ d = Len(box) - MaxOutbox
  <2>1. CASE outbox' = box
    <3>1. Len(outbox') = Len(box) - 0 /\ \A i \in 1..Len(outbox') : outbox'[i] = box[0 + i]
      BY <2>1, <1>7
    <3> QED
      BY <3>1
  <2>2. CASE Len(box) > MaxOutbox /\ outbox' = Newest(MaxOutbox, box)
    <3>1. /\ Len(outbox') = MaxOutbox
          /\ \A i \in 1..Len(outbox') : outbox'[i] = box[Len(box) - Len(outbox') + i]
      BY <2>2, <1>1, <1>2, NewestIsTheEnd
    <3>2. Len(box) - MaxOutbox \in Nat /\ Len(outbox') = Len(box) - (Len(box) - MaxOutbox)
      BY <2>2, <3>1, <1>1, <1>7
    <3>3. \A i \in 1..Len(outbox') : outbox'[i] = box[(Len(box) - MaxOutbox) + i]
      BY <3>1
    <3> QED
      BY <3>2, <3>3
  <2> QED
    BY <1>4, <2>1, <2>2
<1>9. /\ Waiting' = batch \o outbox'
      /\ Waiting' \in Seq(Nat) /\ Len(Waiting') = Len(batch) + Len(outbox')
      /\ \A i \in 1..Len(batch) : Waiting'[i] = batch[i]
      /\ \A i \in 1..Len(outbox') : Waiting'[Len(batch) + i] = outbox'[i]
  BY <1>1, <1>3, ConcatIs DEF Waiting
<1> DEFINE f == [i \in 1..Len(Waiting') |-> IF i <= Len(batch) THEN i ELSE d + i]
<1>10. ASSUME NEW i \in 1..Len(Waiting')
       PROVE  f[i] \in 1..Len(full) /\ Waiting'[i] = full[f[i]]
  <2>1. CASE i <= Len(batch)
    <3>1. i \in 1..Len(batch) /\ i \in 1..Len(full) /\ f[i] = i
      BY <2>1, <1>6, <1>7
    <3> QED
      BY <3>1, <1>6, <1>9
  <2>2. CASE ~(i <= Len(batch))
    <3> DEFINE k == i - Len(batch)
    <3>a. k \in 1..Len(outbox') /\ i = Len(batch) + k
      BY <2>2, <1>7, <1>9
    <3>2. f[i] = d + i
      BY <2>2
    <3> HIDE DEF k, f
    <3>b. d + k \in 1..Len(box)
      BY <3>a, <1>7, <1>8
    <3>c. d + i = Len(batch) + (d + k) /\ Len(batch) + (d + k) \in 1..Len(full)
      BY <3>a, <3>b, <1>6, <1>7
    <3>1. /\ k \in 1..Len(outbox') /\ d + k \in 1..Len(box)
          /\ i = Len(batch) + k /\ d + i = Len(batch) + (d + k)
          /\ d + i \in 1..Len(full)
      BY <3>a, <3>b, <3>c
    <3>3. Waiting'[i] = box[d + k] /\ full[d + i] = box[d + k]
      BY <3>1, <1>6, <1>8, <1>9
    <3> QED
      BY <3>1, <3>2, <3>3
  <2> QED
    BY <2>1, <2>2
<1>11. \A i, j \in 1..Len(Waiting') : i <= j => f[j] - f[i] >= j - i
  <2> SUFFICES ASSUME NEW i \in 1..Len(Waiting'), NEW j \in 1..Len(Waiting'), i <= j
               PROVE  f[j] - f[i] >= j - i
    OBVIOUS
  <2>1. f[i] = (IF i <= Len(batch) THEN i ELSE d + i) /\ f[j] = (IF j <= Len(batch) THEN j ELSE d + j)
    OBVIOUS
  <2>2. i \in Nat /\ j \in Nat /\ d \in Nat /\ Len(batch) \in Nat
    BY <1>7, <1>8, <1>9
  <2> HIDE DEF f
  <2> QED
    BY <2>1, <2>2
<1>12. f \in [1..Len(Waiting') -> 1..Len(full)]
  BY <1>10
<1> HIDE DEF f
<1>13. Spread(Waiting')
  BY <1>5, <1>6, <1>9, <1>10, <1>11, <1>12, PartIsSpread
<1>14. \A i \in 1..Len(full) : full[i] \in Records(Waiting) \/ full[i] = published + 1
  <2>1. /\ Len(Waiting) = Len(batch) + Len(outbox)
        /\ \A i \in 1..Len(batch) : Waiting[i] = batch[i]
        /\ \A i \in 1..Len(outbox) : Waiting[Len(batch) + i] = outbox[i]
    BY <1>1, ConcatIs DEF Waiting
  <2> SUFFICES ASSUME NEW i \in 1..Len(full)
               PROVE  full[i] \in Records(Waiting) \/ full[i] = published + 1
    OBVIOUS
  <2>2. CASE i <= Len(batch)
    <3>1. i \in 1..Len(batch) /\ i \in 1..Len(Waiting)
      BY <2>1, <2>2, <1>6, <1>7
    <3>2. full[i] = Waiting[i]
      BY <3>1, <2>1, <1>6
    <3> QED
      BY <3>1, <3>2 DEF Records
  <2>3. CASE ~(i <= Len(batch))
    <3> DEFINE k == i - Len(batch)
    <3>1. k \in 1..Len(box) /\ i = Len(batch) + k
      BY <2>3, <1>6, <1>7
    <3> HIDE DEF k
    <3>2. full[i] = box[k]
      BY <3>1, <1>6
    <3>3. CASE k = Len(outbox) + 1
      BY <3>2, <3>3, <1>2
    <3>4. CASE k # Len(outbox) + 1
      <4>1. k \in 1..Len(outbox) /\ i \in 1..Len(Waiting)
        BY SMTT(30), <3>1, <3>4, <2>1, <1>2, <1>7
      <4>2. Waiting[i] = outbox[k] /\ box[k] = outbox[k]
        BY <3>1, <4>1, <2>1, <1>2
      <4> QED
        BY <3>2, <4>1, <4>2 DEF Records
    <3> QED
      BY <3>3, <3>4
  <2> QED
    BY <2>2, <2>3
<1>15. Records(Waiting') \subseteq Records(Waiting) \cup {published + 1}
  <2>1. \A i \in 1..Len(Waiting') : Waiting'[i] \in Records(Waiting) \cup {published + 1}
    BY <1>10, <1>14
  <2> QED
    BY <2>1 DEF Records
<1>16. /\ Records(Waiting) \subseteq 1..published
       /\ \A i \in 1..Len(stream) : stream[i] <= published
       /\ \A m \in 1..sent : batch[m] \in Records(stream)
       /\ \A r \in Records(stream) \cup Records(Waiting) : NotLate(r)
       /\ bus = "open" => cancelled = <<>>
       /\ NewestAreKept
  BY DEF OutboxInv
<1>17. Records(Waiting') \subseteq 1..(published + 1)
  BY SMTT(30), <1>1, <1>15, <1>16
<1>18. \A i \in 1..Len(stream) : stream[i] \in Nat
  BY <1>1
<1>19. NotLate(published + 1)
  BY SMTT(30), <1>1, <1>16, <1>18 DEF NotLate
<1>20. \A r \in Records(stream) \cup Records(Waiting') : NotLate(r)
  BY <1>15, <1>16, <1>19
<1>21. ASSUME NEW r \in 1..(published + 1), r > published + 1 - MaxOutbox
       PROVE  r \in Records(stream) \cup Records(outbox') \cup Records(batch) \cup Records(cancelled)
  <2>1. ASSUME NEW i \in 1..Len(box), box[i] = r
        PROVE  r \in Records(outbox')
    <3>1. CASE i > d
      <4>1. i - d \in 1..Len(outbox') /\ d + (i - d) = i
        <5>1. i \in Nat /\ d \in Nat /\ i <= Len(box) /\ Len(outbox') = Len(box) - d
          BY <1>7, <1>8
        <5> QED
          BY <5>1, <3>1, <1>7
      <4>2. outbox'[i - d] = r
        BY <4>1, <2>1, <1>8
      <4> QED
        BY <4>1, <4>2 DEF Records
    <3>2. CASE ~(i > d)
      <4> DEFINE n == Len(box)
                 m == Len(batch)
      <4>1. d = n - MaxOutbox /\ n \in 1..n /\ n \in Nat /\ m \in Nat /\ i \in Nat /\ i <= n
        BY <3>2, <1>7, <1>8
      <4>2. m + i \in 1..Len(full) /\ m + n \in 1..Len(full) /\ m + i <= m + n
        BY SMTT(30), <4>1, <1>6
      <4>3. full[m + i] = r /\ full[m + n] = published + 1
        BY <4>1, <2>1, <1>2, <1>6
      <4>4. full[m + n] - full[m + i] >= (m + n) - (m + i)
        BY <4>2, <1>5 DEF Spread
      <4> HIDE DEF m, n
      <4>5. published + 1 - r >= n - i
        BY <4>1, <4>3, <4>4, <1>1
      <4>6. n - i >= MaxOutbox
        BY <4>1, <3>2, <1>1
      <4> QED
        BY <4>1, <4>5, <4>6, <1>1, <1>21
    <3> QED
      BY <3>1, <3>2
  <2>2. CASE r = published + 1
    <3>1. Len(outbox) + 1 \in 1..Len(box)
      BY <1>2, <1>7
    <3> QED
      BY <2>1, <2>2, <3>1, <1>2
  <2>3. CASE r # published + 1
    <3>1. r \in 1..published /\ r > published - MaxOutbox
      BY <2>3, <1>1, <1>21
    <3>2. r \in Records(stream) \cup Records(outbox) \cup Records(batch) \cup Records(cancelled)
      BY <3>1, <1>16 DEF NewestAreKept
    <3>3. CASE r \in Records(outbox)
      <4>1. PICK i \in 1..Len(outbox) : outbox[i] = r
        BY <3>3 DEF Records
      <4>2. i \in 1..Len(box) /\ box[i] = r
        BY SMTT(30), <4>1, <1>2, <1>7
      <4> QED
        BY <4>2, <2>1
    <3> QED
      BY <3>2, <3>3
  <2> QED
    BY <2>2, <2>3
<1>22. NewestAreKept'
  <2>1. \A r \in 1..(published + 1) : r > published + 1 - MaxOutbox =>
          r \in Records(stream) \cup Records(outbox') \cup Records(batch) \cup Records(cancelled)
    BY <1>21
  <2>2. /\ Records(stream)' = Records(stream) /\ Records(outbox)' = Records(outbox')
        /\ Records(batch)' = Records(batch) /\ Records(cancelled)' = Records(cancelled)
    BY <1>3 DEF Records
  <2>3. published' = published + 1
    BY <1>3
  <2>4. \A r \in 1..published' : r > published' - MaxOutbox =>
          r \in Records(stream)' \cup Records(outbox)' \cup Records(batch)' \cup Records(cancelled)'
    <3> SUFFICES ASSUME NEW r \in 1..published', r > published' - MaxOutbox
                 PROVE  r \in Records(stream)' \cup Records(outbox)' \cup Records(batch)'
                                \cup Records(cancelled)'
      OBVIOUS
    <3>1. r \in 1..(published + 1) /\ r > published + 1 - MaxOutbox
      BY <2>3, <1>1
    <3>2. r \in Records(stream) \cup Records(outbox') \cup Records(batch) \cup Records(cancelled)
      BY <2>1, <3>1
    <3> QED
      BY <2>2, <3>2
  <2> QED
    BY <2>4 DEF NewestAreKept
<1>23. (\A r \in Records(stream) \cup Records(Waiting) : NotLate(r))'
  BY <1>3, <1>20 DEF NotLate, Records
<1>24. Spread(Waiting)' /\ (Records(Waiting) \subseteq 1..published)'
  BY <1>3, <1>13, <1>17 DEF Spread, Records
<1>25. (\A i \in 1..Len(stream) : stream[i] <= published)'
  BY SMTT(30), <1>1, <1>3, <1>16, <1>18
<1>26. (\A m \in 1..sent : batch[m] \in Records(stream))'
  BY <1>3, <1>16 DEF Records
<1> QED
  BY <1>3, <1>16, <1>22, <1>23, <1>24, <1>25, <1>26 DEF OutboxInv

(* A flush that begins moves the outbox into the batch, one that fails moves the   *)
(* batch back in front of it: what waits stays.                                  *)
LEMMA WaitingStays ==
  ASSUME TypeOK, TypeOK', OutboxInv, Waiting' = Waiting,
         UNCHANGED <<stream, published, cancelled>>, sent' = 0, bus' = "open" => bus = "open"
  PROVE  /\ OutboxInv'
         /\ Records(outbox)' \cup Records(batch)' = Records(outbox) \cup Records(batch)
<1>1. /\ outbox \in Seq(Nat) /\ batch \in Seq(Nat) /\ outbox' \in Seq(Nat) /\ batch' \in Seq(Nat)
  BY DEF TypeOK
<1>2. ASSUME NEW s \in Seq(Nat), NEW t \in Seq(Nat)
      PROVE  Records(s \o t) = Records(s) \cup Records(t)
  <2>1. /\ Len(s \o t) = Len(s) + Len(t) /\ Len(s) \in Nat /\ Len(t) \in Nat
        /\ \A i \in 1..Len(s) : (s \o t)[i] = s[i]
        /\ \A i \in 1..Len(t) : (s \o t)[Len(s) + i] = t[i]
    BY ConcatIs
  <2>2. ASSUME NEW i \in 1..Len(s \o t) PROVE (s \o t)[i] \in Records(s) \cup Records(t)
    <3>1. CASE i <= Len(s)
      <4>1. i \in 1..Len(s)
        BY <2>1, <3>1
      <4> QED
        BY <4>1, <2>1 DEF Records
    <3>2. CASE ~(i <= Len(s))
      <4>1. i - Len(s) \in 1..Len(t) /\ Len(s) + (i - Len(s)) = i
        BY <2>1, <3>2
      <4>2. (s \o t)[i] = t[i - Len(s)]
        BY <4>1, <2>1
      <4> QED
        BY <4>1, <4>2 DEF Records
    <3> QED
      BY <3>1, <3>2
  <2>3. ASSUME NEW i \in 1..Len(s) PROVE s[i] \in Records(s \o t)
    <3>1. i \in 1..Len(s \o t)
      BY <2>1
    <3> QED
      BY <3>1, <2>1 DEF Records
  <2>4. ASSUME NEW i \in 1..Len(t) PROVE t[i] \in Records(s \o t)
    <3>1. Len(s) + i \in 1..Len(s \o t)
      BY <2>1
    <3> QED
      BY <3>1, <2>1 DEF Records
  <2>5. Records(s \o t) \subseteq Records(s) \cup Records(t)
    <3> SUFFICES ASSUME NEW r \in Records(s \o t) PROVE r \in Records(s) \cup Records(t)
      OBVIOUS
    <3>1. PICK i \in 1..Len(s \o t) : r = (s \o t)[i]
      BY DEF Records
    <3> QED
      BY <3>1, <2>2
  <2>6. Records(s) \cup Records(t) \subseteq Records(s \o t)
    <3> SUFFICES ASSUME NEW r \in Records(s) \cup Records(t) PROVE r \in Records(s \o t)
      OBVIOUS
    <3>1. CASE r \in Records(s)
      <4>1. PICK i \in 1..Len(s) : r = s[i]
        BY <3>1 DEF Records
      <4> QED
        BY <4>1, <2>3
    <3>2. CASE r \in Records(t)
      <4>1. PICK i \in 1..Len(t) : r = t[i]
        BY <3>2 DEF Records
      <4> QED
        BY <4>1, <2>4
    <3> QED
      BY <3>1, <3>2
  <2> QED
    BY <2>5, <2>6
<1>3. Records(Waiting) = Records(batch) \cup Records(outbox)
  BY <1>1, <1>2 DEF Waiting
<1>4. Records(Waiting') = Records(batch') \cup Records(outbox')
  BY <1>1, <1>2 DEF Waiting
<1>5. Records(outbox)' = Records(outbox') /\ Records(batch)' = Records(batch')
  BY DEF Records
<1>6. Records(outbox)' \cup Records(batch)' = Records(outbox) \cup Records(batch)
  BY <1>3, <1>4, <1>5
<1>7. Records(stream)' = Records(stream) /\ Records(cancelled)' = Records(cancelled)
  BY DEF Records
<1>8. NewestAreKept'
  <2>1. NewestAreKept
    BY DEF OutboxInv
  <2>2. published' = published
    OBVIOUS
  <2>3. \A r \in 1..published' : r > published' - MaxOutbox =>
          r \in Records(stream)' \cup Records(outbox)' \cup Records(batch)' \cup Records(cancelled)'
    BY <2>1, <2>2, <1>6, <1>7 DEF NewestAreKept
  <2> QED
    BY <2>3 DEF NewestAreKept
<1>9. (\A r \in Records(stream) \cup Records(Waiting) : NotLate(r))'
  BY <1>7 DEF OutboxInv, NotLate, Records
<1>10. Spread(Waiting)' /\ (Records(Waiting) \subseteq 1..published)'
  BY DEF OutboxInv, Spread, Records
<1>11. (\A m \in 1..sent : batch[m] \in Records(stream))'
  OBVIOUS
<1> QED
  BY <1>6, <1>8, <1>9, <1>10, <1>11 DEF OutboxInv

(* A batch that is done with, written or cancelled, leaves what waits behind it.   *)
LEMMA BatchLeaves ==
  ASSUME TypeOK, TypeOK', OutboxInv, UNCHANGED <<stream, published>>,
         Waiting' = outbox, sent' = 0, bus' = "open" => cancelled' = <<>>, NewestAreKept'
  PROVE  OutboxInv'
<1> DEFINE f == [i \in 1..Len(Waiting') |-> Len(batch) + i]
<1>a. batch \in Seq(Nat) /\ outbox \in Seq(Nat)
  BY DEF TypeOK
<1>1. batch \in Seq(Nat) /\ outbox \in Seq(Nat) /\ Len(batch) \in Nat /\ Len(outbox) \in Nat
  BY <1>a
<1>2. /\ Len(Waiting) = Len(batch) + Len(outbox)
      /\ \A i \in 1..Len(outbox) : Waiting[Len(batch) + i] = outbox[i]
  BY <1>1, ConcatIs DEF Waiting
<1>3. \A i \in 1..Len(outbox) : Len(batch) + i \in 1..Len(Waiting)
  BY <1>1, <1>2
<1>4. f \in [1..Len(Waiting') -> 1..Len(Waiting)]
  BY <1>3
<1>5. \A i \in 1..Len(Waiting') : Waiting'[i] = Waiting[f[i]]
  BY <1>2
<1>6. \A i, j \in 1..Len(Waiting') : i <= j => f[j] - f[i] >= j - i
  BY <1>1
<1> HIDE DEF f
<1>7. /\ Spread(Waiting)'
      /\ (Records(Waiting) \subseteq 1..published)'
      /\ (\A i \in 1..Len(stream) : stream[i] <= published)'
      /\ (\A r \in Records(stream) \cup Records(Waiting) : NotLate(r))'
  BY <1>4, <1>5, <1>6, LessWaits
<1>8. (\A m \in 1..sent : batch[m] \in Records(stream))'
  OBVIOUS
<1>9. (bus = "open" => cancelled = <<>>)' /\ NewestAreKept'
  OBVIOUS
<1> QED
  BY <1>7, <1>8, <1>9 DEF OutboxInv

(* An entry is added: it is the next of the batch, so all that is older than it    *)
(* and waits was written before.                                               *)
LEMMA AddKeepsTheOutbox ==
  ASSUME TypeOK, TypeOK', OutboxInv, Add
  PROVE  OutboxInv'
<1> DEFINE x == batch[sent + 1]
<1>1. /\ stream \in Seq(Nat) /\ batch \in Seq(Nat) /\ outbox \in Seq(Nat)
      /\ sent \in Nat /\ sent < Len(batch) /\ Len(batch) \in Nat /\ Len(stream) \in Nat
      /\ published \in Nat
  <2>1. /\ stream \in Seq(Nat) /\ batch \in Seq(Nat) /\ outbox \in Seq(Nat)
        /\ sent \in Nat /\ published \in Nat
    BY DEF TypeOK
  <2>2. sent < Len(batch)
    BY DEF Add
  <2> QED
    BY <2>1, <2>2
<1>2. /\ stream' = Append(stream, x) /\ sent' = sent + 1
      /\ UNCHANGED <<bus, published, outbox, batch, cancelled>>
  BY DEF Add
<1>3. sent + 1 \in 1..Len(batch) /\ x \in Nat
  BY SMTT(30), <1>1
<1>4. /\ Len(stream') = Len(stream) + 1 /\ stream'[Len(stream) + 1] = x
      /\ \A i \in 1..Len(stream) : stream'[i] = stream[i]
  BY <1>1, <1>2, <1>3
<1>5. /\ Waiting \in Seq(Nat) /\ Len(Waiting) = Len(batch) + Len(outbox)
      /\ \A i \in 1..Len(batch) : Waiting[i] = batch[i]
  BY <1>1, ConcatIs DEF Waiting
<1>6. sent + 1 \in 1..Len(Waiting) /\ Waiting[sent + 1] = x
  BY <1>1, <1>3, <1>5
<1>7. Waiting' = Waiting
  BY <1>2 DEF Waiting
<1> HIDE DEF x
<1>8. ASSUME NEW i \in 1..Len(stream') PROVE i \in 1..Len(stream) \/ i = Len(stream) + 1
  <2>1. i \in 1..(Len(stream) + 1)
    BY <1>4
  <2> QED
    BY <2>1, <1>1
<1>9. \A i \in 1..Len(stream) : i \in 1..Len(stream')
  BY <1>1, <1>4
<1>10. Records(stream) \subseteq Records(stream')
  <2> SUFFICES ASSUME NEW i \in 1..Len(stream) PROVE stream[i] \in Records(stream')
    BY DEF Records
  <2>1. i \in 1..Len(stream') /\ stream'[i] = stream[i]
    BY <1>4, <1>9
  <2> QED
    BY <2>1 DEF Records
<1>11. Records(stream') \subseteq Records(stream) \cup {x}
  <2> SUFFICES ASSUME NEW i \in 1..Len(stream') PROVE stream'[i] \in Records(stream) \cup {x}
    BY DEF Records
  <2> QED
    BY <1>4, <1>8 DEF Records
<1>12. x \in Records(stream')
  <2>1. Len(stream) + 1 \in 1..Len(stream')
    BY <1>1, <1>4
  <2> QED
    BY <2>1, <1>4 DEF Records
<1>13. x \in Records(Waiting)
  BY <1>6 DEF Records
<1>14. /\ Spread(Waiting) /\ Records(Waiting) \subseteq 1..published
       /\ \A i \in 1..Len(stream) : stream[i] <= published
       /\ \A m \in 1..sent : batch[m] \in Records(stream)
       /\ \A r \in Records(stream) \cup Records(Waiting) : NotLate(r)
       /\ bus = "open" => cancelled = <<>>
       /\ NewestAreKept
  BY DEF OutboxInv
<1>15. ASSUME NEW r \in Records(Waiting), x > r PROVE r \in Records(stream)
  <2>1. PICK m \in 1..Len(Waiting) : Waiting[m] = r
    BY DEF Records
  <2>2. m <= sent
    <3> SUFFICES ASSUME ~(m <= sent) PROVE FALSE
      OBVIOUS
    <3>1. sent + 1 <= m /\ m \in Nat
      BY <1>1, <1>5
    <3>2. Waiting[m] - Waiting[sent + 1] >= m - (sent + 1)
      BY <3>1, <1>6, <1>14 DEF Spread
    <3>3. r \in Nat /\ x \in Nat
      BY <2>1, <1>3, <1>5
    <3>4. r - x >= m - (sent + 1)
      BY <3>2, <2>1, <1>6
    <3> QED
      BY <3>1, <3>3, <3>4, <1>1, <1>15
  <2>3. m \in 1..sent /\ m \in 1..Len(batch)
    BY <2>2, <1>1
  <2> QED
    BY <2>1, <2>3, <1>5, <1>14
<1>16. ASSUME NEW r \in Records(stream') \cup Records(Waiting) PROVE NotLate(r)'
  <2>1. r \in Records(stream) \cup Records(Waiting)
    BY <1>11, <1>13
  <2>2. NotLate(r)
    BY <2>1, <1>14
  <2>3. ASSUME NEW i \in 1..Len(stream'), stream'[i] > r
        PROVE  \E k \in 1..(i - 1) : stream'[k] = r
    <3>1. CASE i \in 1..Len(stream)
      <4>1. PICK k \in 1..(i - 1) : stream[k] = r
        BY <3>1, <2>2, <2>3, <1>4 DEF NotLate
      <4>2. k \in 1..Len(stream)
        BY <3>1, <1>1
      <4> QED
        BY <4>1, <4>2, <1>4
    <3>2. CASE i = Len(stream) + 1
      <4>1. x > r
        BY <3>2, <2>3, <1>4
      <4>2. r \in Records(stream)
        BY <4>1, <2>1, <1>15
      <4>3. PICK k \in 1..Len(stream) : stream[k] = r
        BY <4>2 DEF Records
      <4>4. k \in 1..(i - 1)
        BY <3>2, <1>1
      <4> QED
        BY <4>3, <4>4, <1>4
    <3> QED
      BY <3>1, <3>2, <1>8
  <2> QED
    BY <2>3 DEF NotLate
<1>17. (\A r \in Records(stream) \cup Records(Waiting) : NotLate(r))'
  BY <1>7, <1>16 DEF Records
<1>18. (\A m \in 1..sent : batch[m] \in Records(stream))'
  <2>1. ASSUME NEW m \in 1..(sent + 1) PROVE batch[m] \in Records(stream')
    <3>1. CASE m = sent + 1
      BY <3>1, <1>12 DEF x
    <3>2. CASE m # sent + 1
      <4>1. m \in 1..sent
        BY <3>2, <1>1
      <4> QED
        BY <4>1, <1>10, <1>14
    <3> QED
      BY <3>1, <3>2
  <2> QED
    BY <2>1, <1>2 DEF Records
<1>19. (\A i \in 1..Len(stream) : stream[i] <= published)'
  <2>1. x \in 1..published
    BY <1>13, <1>14
  <2>2. \A i \in 1..Len(stream') : stream'[i] <= published
    <3> SUFFICES ASSUME NEW i \in 1..Len(stream') PROVE stream'[i] <= published
      OBVIOUS
    <3>1. CASE i \in 1..Len(stream)
      BY <3>1, <1>4, <1>14
    <3>2. CASE i = Len(stream) + 1
      BY <3>2, <2>1, <1>1, <1>4
    <3> QED
      BY <3>1, <3>2, <1>8
  <2> QED
    BY <2>2, <1>2
<1>20. NewestAreKept'
  <2>1. \A r \in 1..published : r > published - MaxOutbox =>
          r \in Records(stream') \cup Records(outbox) \cup Records(batch) \cup Records(cancelled)
    BY <1>10, <1>14 DEF NewestAreKept
  <2> QED
    BY <2>1, <1>2 DEF NewestAreKept, Records
<1>21. Spread(Waiting)' /\ (Records(Waiting) \subseteq 1..published)'
  BY <1>2, <1>7, <1>14 DEF Spread, Records
<1> QED
  BY <1>2, <1>14, <1>17, <1>18, <1>19, <1>20, <1>21 DEF OutboxInv

(* Every step keeps the publisher's half.                                       *)
LEMMA OutboxKept ==
  ASSUME TypeOK, TypeOK', OutboxInv, Next
  PROVE  OutboxInv'
<1>t. /\ outbox \in Seq(Nat) /\ batch \in Seq(Nat) /\ cancelled \in Seq(Nat)
      /\ sent \in Nat /\ sent <= Len(batch)
  BY DEF TypeOK
<1>k. NewestAreKept /\ \A m \in 1..sent : batch[m] \in Records(stream)
  BY DEF OutboxInv
<1>1. CASE Publish
  BY <1>1, PublishKeepsTheOutbox
<1>2. CASE Flush
  <2>1. Waiting' = Waiting
    BY <1>2, <1>t DEF Flush, Waiting
  <2>2. sent' = 0 /\ UNCHANGED <<stream, published, cancelled, bus>>
    <3>1. batch = <<>> /\ UNCHANGED <<bus, published, sent, cancelled, redis>>
      BY <1>2 DEF Flush
    <3>2. sent = 0
      BY <3>1, <1>t
    <3> QED
      BY <3>1, <3>2 DEF redis
  <2> QED
    BY <2>1, <2>2, WaitingStays
<1>3. CASE Add
  BY <1>3, AddKeepsTheOutbox
<1>4. CASE Trim
  BY <1>4, OthersKeepTheOutbox DEF Trim
<1>5. CASE FlushDone
  <2>1. /\ sent = Len(batch) /\ batch' = <<>> /\ sent' = 0 /\ bus' = AfterFlush
        /\ UNCHANGED <<published, outbox, cancelled, stream>>
    BY <1>5 DEF FlushDone, redis
  <2>2. Waiting' = outbox
    BY <2>1, <1>t DEF Waiting
  <2>3. Records(batch) \subseteq Records(stream)
    BY <2>1, <1>k DEF Records
  <2>4. NewestAreKept'
    <3>1. \A r \in 1..published : r > published - MaxOutbox =>
            r \in Records(stream) \cup Records(outbox) \cup Records(cancelled)
      BY <2>3, <1>k DEF NewestAreKept
    <3> QED
      BY <3>1, <2>1 DEF NewestAreKept, Records
  <2>5. bus' = "open" => cancelled' = <<>>
    BY <2>1 DEF AfterFlush, OutboxInv
  <2> QED
    BY <2>1, <2>2, <2>4, <2>5, BatchLeaves
<1>6. CASE FlushFails
  <2>1. /\ outbox' = batch \o outbox /\ batch' = <<>> /\ sent' = 0 /\ bus' = AfterFlush
        /\ UNCHANGED <<published, cancelled, stream>>
    BY <1>6 DEF FlushFails, PutBack, redis
  <2>2. Waiting' = Waiting
    BY <2>1, <1>t DEF Waiting
  <2>3. bus' = "open" => bus = "open"
    BY <2>1 DEF AfterFlush
  <2> QED
    BY <2>1, <2>2, <2>3, WaitingStays
<1>7. CASE Close
  <2>1. /\ bus = "open" /\ cancelled' = batch /\ batch' = outbox /\ outbox' = <<>> /\ sent' = 0
        /\ bus' \in {"closed", "closing"}
        /\ UNCHANGED <<published, stream>>
    BY <1>7 DEF Close, redis
  <2>2. Waiting' = outbox
    BY <2>1, <1>t DEF Waiting
  <2>3. Records(cancelled) = {}
    BY <2>1 DEF OutboxInv, Records
  <2>4. NewestAreKept'
    <3>1. \A r \in 1..published : r > published - MaxOutbox =>
            r \in Records(stream) \cup Records(outbox) \cup Records(batch)
      BY <2>3, <1>k DEF NewestAreKept
    <3>2. Records(cancelled') = Records(batch) /\ Records(batch') = Records(outbox)
      BY <2>1
    <3>3. \A r \in 1..published : r > published - MaxOutbox =>
            r \in Records(stream) \cup Records(batch') \cup Records(cancelled')
      BY <3>1, <3>2
    <3> QED
      BY <3>3, <2>1 DEF NewestAreKept, Records
  <2> QED
    BY <2>1, <2>2, <2>4, BatchLeaves
<1>8. CASE Position \/ PositionFails \/ Read \/ ReadNothing \/ Heads \/ Resync \/ ReadFails \/ Take
  <2>1. UNCHANGED <<publisher, redis>>
    BY <1>8 DEF Position, PositionFails, Read, ReadNothing, Heads, Resync, ReadFails, Take
  <2>2. UNCHANGED <<publisher, stream>>
    BY <2>1 DEF redis
  <2> QED
    BY <2>2, OthersKeepTheOutbox
<1> QED
  BY <1>1, <1>2, <1>3, <1>4, <1>5, <1>6, <1>7, <1>8 DEF Next

----------------------------------------------------------------------------
(* The reader starts with nothing missed.                                       *)
LEMMA SkipStarts == Init => SkipInv
<1> SUFFICES ASSUME Init PROVE SkipInv
  OBVIOUS
<1>1. stream = <<>> /\ trimmed = 0 /\ pc = "start" /\ lastId = 0 /\ baseline = 0
      /\ delivered = 0 /\ skipped = 0 /\ start = 0 /\ seen = {}
  BY DEF Init
<1>2. Missed = {}
  BY <1>1 DEF Missed
<1>3. Cardinality(Missed) = 0
  BY <1>2, FS_EmptySet
<1>4. Len(stream) = 0
  BY <1>1
<1> QED
  BY <1>1, <1>2, <1>3, <1>4 DEF SkipInv

(* What is missed is finite.                                                    *)
LEMMA MissedIsFinite ==
  ASSUME TypeOK
  PROVE  IsFiniteSet(Missed) /\ Cardinality(Missed) \in Nat
<1>1. start \in Nat /\ lastId \in Nat
  BY DEF TypeOK
<1>2. IsFiniteSet((start + 1)..lastId)
  BY <1>1, FS_Interval
<1>3. Missed \subseteq (start + 1)..lastId
  BY DEF Missed
<1> QED
  BY <1>2, <1>3, FS_Subset, FS_CardinalityType

(* A longer stream, of which retention removed more, costs the reader nothing yet. *)
LEMMA OthersKeepTheSkips ==
  ASSUME TypeOK, TypeOK', SkipInv,
         UNCHANGED <<lastId, baseline, delivered, skipped, start, seen>>,
         Len(stream) <= Len(stream'), trimmed <= trimmed',
         Len(stream') > 0 => trimmed' < Len(stream'),
         pc' = "start" => pc = "start",
         pc' = "newest" => pc = "newest" /\ UNCHANGED <<outstanding, head>>
  PROVE  SkipInv'
<1>1. Missed' = Missed
  BY DEF Missed
<1>2. Cardinality(Missed)' = Cardinality(Missed)
  BY <1>1
<1>3. /\ lastId \in Nat /\ Len(stream) \in Nat /\ Len(stream') \in Nat /\ trimmed \in Nat
      /\ trimmed' \in Nat /\ head \in Nat /\ start \in Nat
  <2>1. stream \in Seq(Nat) /\ stream' \in Seq(Nat)
    BY DEF TypeOK
  <2>2. Len(stream) \in Nat /\ Len(stream') \in Nat
    BY <2>1
  <2>3. lastId \in Nat /\ trimmed \in Nat /\ trimmed' \in Nat /\ head \in Nat /\ start \in Nat
    BY DEF TypeOK
  <2> QED
    BY <2>2, <2>3
<1>4. \A id \in Missed : id \in Nat /\ (id <= trimmed \/ id <= lastId - Capacity)
  BY <1>3 DEF SkipInv, Missed
<1>5. (\A id \in Missed : id <= trimmed \/ id <= lastId - Capacity)'
  <2>1. \A id \in Missed : id <= trimmed' \/ id <= lastId - Capacity
    BY <1>3, <1>4
  <2> QED
    BY <2>1, <1>1
<1>6. (start <= lastId /\ lastId <= Len(stream))'
  BY <1>3 DEF SkipInv
<1>7. (pc = "newest" =>
         /\ lastId <= head /\ head <= Len(stream)
         /\ outstanding = head - baseline - delivered
         /\ outstanding > Capacity)'
  <2> SUFFICES ASSUME pc' = "newest"
               PROVE  /\ lastId' <= head' /\ head' <= Len(stream')
                      /\ outstanding' = head' - baseline' - delivered'
                      /\ outstanding' > Capacity
    OBVIOUS
  <2>1. /\ pc = "newest" /\ head' = head /\ outstanding' = outstanding
        /\ lastId' = lastId /\ baseline' = baseline /\ delivered' = delivered
    OBVIOUS
  <2>2. /\ lastId <= head /\ head <= Len(stream)
        /\ outstanding = head - baseline - delivered /\ outstanding > Capacity
    BY <2>1 DEF SkipInv
  <2>3. head <= Len(stream')
    BY <2>2, <1>3
  <2>4. lastId' <= head' /\ head' <= Len(stream')
    BY <2>1, <2>2, <2>3
  <2>5. outstanding' = head' - baseline' - delivered' /\ outstanding' > Capacity
    BY <2>1, <2>2
  <2> QED
    BY <2>4, <2>5
<1>8. (seen \subseteq 1..lastId)' /\ (pc = "start" => lastId = 0 /\ seen = {} /\ skipped = 0)'
  BY DEF SkipInv
<1>9. (skipped <= Cardinality(Missed)
       /\ lastId - baseline - delivered <= Cardinality(Missed) - skipped)'
  BY <1>2 DEF SkipInv
<1> QED
  BY <1>5, <1>6, <1>7, <1>8, <1>9 DEF SkipInv

(* Delivering the ids from..to moves the cursor to to.                           *)
LEMMA DeliverTheInterval ==
  ASSUME TypeOK, NEW from \in Nat, NEW to \in Nat, from <= to,
         NEW ids \in Seq(Nat), Len(ids) = to - from + 1,
         \A i \in 1..Len(ids) : ids[i] = from + i - 1,
         Deliver(ids)
  PROVE  lastId' = to /\ seen' = seen \cup from..to
<1>1. Len(ids) \in Nat /\ Len(ids) >= 1 /\ ids # <<>> /\ Len(ids) \in 1..Len(ids)
  <2>1. Len(ids) \in Nat /\ Len(ids) >= 1
    OBVIOUS
  <2> QED
    BY <2>1
<1>2. lastId' = ids[Len(ids)]
  BY <1>1 DEF Deliver
<1>3. lastId' = to
  BY SMTT(30), <1>1, <1>2
<1>4. {ids[i] : i \in 1..Len(ids)} = from..to
  <2>1. \A i \in 1..Len(ids) : ids[i] \in from..to
    <3> SUFFICES ASSUME NEW i \in 1..Len(ids) PROVE ids[i] \in from..to
      OBVIOUS
    <3>1. ids[i] = from + i - 1
      OBVIOUS
    <3>2. i \in Nat /\ 1 <= i /\ i <= to - from + 1
      BY <1>1
    <3> QED
      BY <3>1, <3>2
  <2>2. ASSUME NEW id \in from..to PROVE \E i \in 1..Len(ids) : ids[i] = id
    <3>1. id - from + 1 \in 1..Len(ids)
      BY <1>1
    <3>2. ids[id - from + 1] = from + (id - from + 1) - 1
      BY <3>1
    <3>3. ids[id - from + 1] = id
      BY <3>2
    <3> QED
      BY <3>1, <3>3
  <2> QED
    BY <2>1, <2>2
<1> QED
  BY <1>3, <1>4 DEF Deliver

(* A delivery of from..to misses what lies between the old cursor and from.        *)
LEMMA DeliveryMisses ==
  ASSUME TypeOK, SkipInv, NEW from \in Nat, NEW to \in Nat,
         from <= to, lastId <= to, start' = start, lastId' = to,
         seen' = seen \cup from..to,
         \A id \in Missed : id < from
  PROVE  /\ Missed' = Missed \cup (lastId + 1)..(from - 1)
         /\ IsFiniteSet(Missed')
         /\ Cardinality(Missed') = Cardinality(Missed)
                                     + (IF from > lastId THEN from - 1 - lastId ELSE 0)
<1>1. start \in Nat /\ lastId \in Nat /\ start <= lastId
  BY DEF TypeOK, SkipInv
<1>2. \A id \in seen : id \in Nat /\ id <= lastId
  BY <1>1 DEF SkipInv
<1>3. Missed' = Missed \cup (lastId + 1)..(from - 1)
  <2>1. ASSUME NEW id \in Missed' PROVE id \in Missed \cup (lastId + 1)..(from - 1)
    <3>1. id \in (start + 1)..to /\ id \notin seen /\ id \notin from..to
      BY <2>1 DEF Missed
    <3>2. id < from /\ id \in Nat
      BY <3>1, <1>1
    <3>3. CASE id <= lastId
      <4>1. id \in (start + 1)..lastId
        BY <3>1, <3>3, <1>1
      <4> QED
        BY <4>1, <3>1 DEF Missed
    <3>4. CASE ~(id <= lastId)
      BY <3>2, <3>4, <1>1
    <3> QED
      BY <3>3, <3>4
  <2>2. ASSUME NEW id \in Missed PROVE id \in Missed'
    <3>1. id \in (start + 1)..lastId /\ id \notin seen /\ id < from
      BY DEF Missed
    <3>2. id \in (start + 1)..to /\ id \notin from..to
      BY <3>1, <1>1
    <3> QED
      BY <3>1, <3>2 DEF Missed
  <2>3. ASSUME NEW id \in (lastId + 1)..(from - 1) PROVE id \in Missed'
    <3>1. id \in Nat /\ id > lastId /\ id < from
      BY <1>1
    <3>2. id \notin seen
      BY <1>1, <1>2, <3>1
    <3>3. id \in (start + 1)..to /\ id \notin from..to
      BY <3>1, <1>1
    <3> QED
      BY <3>2, <3>3 DEF Missed
  <2> QED
    BY <2>1, <2>2, <2>3
<1>4. IsFiniteSet(Missed) /\ Cardinality(Missed) \in Nat
  BY MissedIsFinite
<1>5. /\ IsFiniteSet((lastId + 1)..(from - 1))
      /\ Cardinality((lastId + 1)..(from - 1)) = IF from > lastId THEN from - 1 - lastId ELSE 0
  <2>1. lastId + 1 \in Int /\ from - 1 \in Int
    BY <1>1
  <2>2. /\ IsFiniteSet((lastId + 1)..(from - 1))
        /\ Cardinality((lastId + 1)..(from - 1)) =
             IF lastId + 1 > from - 1 THEN 0 ELSE (from - 1) - (lastId + 1) + 1
    BY <2>1, FS_Interval
  <2>3. (IF lastId + 1 > from - 1 THEN 0 ELSE (from - 1) - (lastId + 1) + 1)
          = IF from > lastId THEN from - 1 - lastId ELSE 0
    BY <1>1
  <2> QED
    BY <2>2, <2>3
<1>6. Missed \cap (lastId + 1)..(from - 1) = {}
  BY <1>1 DEF Missed
<1>7. Cardinality(Missed \cap (lastId + 1)..(from - 1)) = 0
  BY <1>6, FS_EmptySet
<1>8. /\ IsFiniteSet(Missed \cup (lastId + 1)..(from - 1))
      /\ Cardinality(Missed \cup (lastId + 1)..(from - 1)) =
           Cardinality(Missed) + Cardinality((lastId + 1)..(from - 1))
             - Cardinality(Missed \cap (lastId + 1)..(from - 1))
  BY <1>4, <1>5, FS_Union
<1>9. Cardinality(Missed \cup (lastId + 1)..(from - 1)) =
        Cardinality(Missed) + (IF from > lastId THEN from - 1 - lastId ELSE 0)
  <2> DEFINE gap == IF from > lastId THEN from - 1 - lastId ELSE 0
  <2>1. gap \in Nat
    BY <1>1
  <2>2. Cardinality((lastId + 1)..(from - 1)) = gap
    BY <1>5
  <2> HIDE DEF gap
  <2>3. Cardinality(Missed \cup (lastId + 1)..(from - 1)) = Cardinality(Missed) + gap
    BY <1>4, <1>7, <1>8, <2>1, <2>2
  <2> QED
    BY <2>3 DEF gap
<1> QED
  BY <1>3, <1>8, <1>9

(* A read misses what retention took past the cursor, and counts nothing of it.    *)
LEMMA ReadKeepsTheSkips ==
  ASSUME TypeOK, TypeOK', SkipInv, Read
  PROVE  SkipInv'
<1> DEFINE from == IF lastId < trimmed THEN trimmed + 1 ELSE lastId + 1
           got == UpTo(ReadCount, Retained(lastId))
           to == from + Len(got) - 1
<1>1. /\ lastId \in Nat /\ trimmed \in Nat /\ Len(stream) \in Nat /\ start \in Nat
      /\ skipped \in Nat /\ baseline \in Nat /\ delivered \in Nat
      /\ trimmed <= Len(stream)
  <2>1. stream \in Seq(Nat)
    BY DEF TypeOK
  <2> QED
    BY <2>1 DEF TypeOK
<1>2. /\ start <= lastId /\ lastId <= Len(stream)
      /\ Len(stream) > 0 => trimmed < Len(stream)
      /\ seen \subseteq 1..lastId
      /\ \A id \in Missed : id <= trimmed \/ id <= lastId - Capacity
      /\ skipped <= Cardinality(Missed)
      /\ lastId - baseline - delivered <= Cardinality(Missed) - skipped
  BY DEF SkipInv
<1>3. /\ from \in Nat /\ from > lastId /\ from > trimmed
      /\ \A id \in Nat : lastId < id /\ id < from => id <= trimmed
  BY <1>1
<1>4. /\ Retained(lastId) \in Seq(Nat)
      /\ Len(Retained(lastId)) = Len(stream) - from + 1
      /\ \A i \in 1..Len(Retained(lastId)) : Retained(lastId)[i] = from + i - 1
  BY ZenonT(30), <1>1, <1>2, RetainedIsTheInterval
<1>5. Retained(lastId) # <<>> /\ Len(Retained(lastId)) \in Nat /\ Len(Retained(lastId)) > 0
  <2>1. Retained(lastId) # <<>>
    BY DEF Read
  <2> QED
    BY <2>1, <1>4
<1>6. /\ got \in Seq(Nat)
      /\ Len(got) = IF Len(Retained(lastId)) < ReadCount THEN Len(Retained(lastId)) ELSE ReadCount
      /\ \A i \in 1..Len(got) : got[i] = Retained(lastId)[i]
  <2>1. ReadCount \in Nat
    OBVIOUS
  <2> QED
    BY <2>1, <1>4, UpToIsTheBeginning
<1>7. Len(got) \in Nat /\ Len(got) >= 1 /\ Len(got) <= Len(Retained(lastId))
  <2>1. ReadCount \in Nat /\ ReadCount > 0
    OBVIOUS
  <2> QED
    BY <2>1, <1>5, <1>6
<1>8. /\ Deliver(got) /\ delivered' = delivered + Len(got)
      /\ pc = "read" /\ pc' \in {"heads", "read"}
      /\ UNCHANGED <<stream, trimmed, baseline, skipped, start>>
  BY DEF Read, redis
<1> HIDE DEF from, got
<1>9. \A i \in 1..Len(got) : got[i] = from + i - 1
  <2> SUFFICES ASSUME NEW i \in 1..Len(got) PROVE got[i] = from + i - 1
    OBVIOUS
  <2>1. i \in 1..Len(Retained(lastId))
    BY <1>5, <1>7
  <2> QED
    BY <2>1, <1>4, <1>6
<1>10. /\ to \in Nat /\ from <= to /\ lastId <= to /\ to <= Len(stream)
       /\ Len(got) = to - from + 1
  BY SMTT(30), <1>1, <1>3, <1>4, <1>7
<1> HIDE DEF to
<1>11. lastId' = to /\ seen' = seen \cup from..to
  BY <1>3, <1>6, <1>8, <1>9, <1>10, DeliverTheInterval
<1>12. \A id \in Missed : id \in Nat /\ id <= lastId
  BY <1>1 DEF Missed
<1>13. \A id \in Missed : id < from
  BY <1>1, <1>3, <1>12
<1>14. /\ Missed' = Missed \cup (lastId + 1)..(from - 1)
       /\ Cardinality(Missed') = Cardinality(Missed)
                                   + (IF from > lastId THEN from - 1 - lastId ELSE 0)
  BY <1>3, <1>8, <1>10, <1>11, <1>13, DeliveryMisses
<1>15. Cardinality(Missed) \in Nat
  BY MissedIsFinite
<1>16. Cardinality(Missed') = Cardinality(Missed) + (from - 1 - lastId)
  BY <1>3, <1>14
<1>17. skipped' <= Cardinality(Missed')
  BY SMTT(30), <1>1, <1>2, <1>3, <1>8, <1>15, <1>16
<1>18. lastId' - baseline' - delivered' <= Cardinality(Missed') - skipped'
  <2> DEFINE c == Cardinality(Missed)
             n == Len(got)
  <2>1. c \in Nat /\ n \in Nat /\ lastId - baseline - delivered <= c - skipped
    BY <1>2, <1>7, <1>15
  <2>2. Cardinality(Missed') = c + (from - 1 - lastId)
    BY <1>16
  <2>3. to = from + n - 1
    BY <1>3, <1>10, <2>1
  <2> HIDE DEF c, n
  <2>4. to - baseline - (delivered + n) <= (c + (from - 1 - lastId)) - skipped
    BY <2>1, <2>3, <1>1, <1>3
  <2>5. delivered' = delivered + n
    BY <1>8 DEF n
  <2> QED
    BY <2>2, <2>4, <2>5, <1>8, <1>11
<1>19. \A id \in Missed' : id <= trimmed' \/ id <= lastId' - Capacity
  <2> SUFFICES ASSUME NEW id \in Missed' PROVE id <= trimmed \/ id <= to - Capacity
    BY <1>8, <1>11
  <2>1. CASE id \in Missed
    <3>1. id \in Nat /\ Capacity \in Nat
      BY <2>1, <1>12
    <3> QED
      BY <2>1, <3>1, <1>1, <1>2, <1>10
  <2>2. CASE id \in (lastId + 1)..(from - 1)
    BY <2>2, <1>1, <1>3
  <2> QED
    BY <2>1, <2>2, <1>14
<1>20. seen' \subseteq 1..lastId'
  <2>1. seen \subseteq 1..to /\ from..to \subseteq 1..to
    BY <1>1, <1>2, <1>3, <1>10
  <2> QED
    BY <2>1, <1>11
<1>21. start' <= lastId' /\ lastId' <= Len(stream') /\ (Len(stream') > 0 => trimmed' < Len(stream'))
  BY <1>1, <1>2, <1>8, <1>10, <1>11
<1>22. pc' # "start" /\ pc' # "newest"
  BY <1>8
<1>23. Cardinality(Missed)' = Cardinality(Missed') /\ (\A id : id \in Missed' <=> (id \in Missed)')
  OBVIOUS
<1> QED
  BY <1>17, <1>18, <1>19, <1>20, <1>21, <1>22 DEF SkipInv

(* A resync misses what lies between the cursor and the newest the queue can hold,  *)
(* and reports no more: the count it was told came before the entries it read.      *)
LEMMA ResyncKeepsTheSkips ==
  ASSUME TypeOK, TypeOK', SkipInv, Resync
  PROVE  SkipInv'
<1> DEFINE got == Newest(Capacity, Retained(0))
           k == Len(got)
           to == Len(stream)
           from == to - k + 1
<1>1. /\ lastId \in Nat /\ trimmed \in Nat /\ to \in Nat /\ start \in Nat
      /\ skipped \in Nat /\ baseline \in Nat /\ delivered \in Nat /\ head \in Nat
      /\ outstanding \in Int /\ trimmed <= to /\ Capacity \in Nat /\ Capacity > 0
  <2>1. stream \in Seq(Nat)
    BY DEF TypeOK
  <2>2. Capacity \in Nat /\ Capacity > 0
    OBVIOUS
  <2> QED
    BY <2>1, <2>2 DEF TypeOK
<1>2. /\ start <= lastId /\ lastId <= to
      /\ to > 0 => trimmed < to
      /\ seen \subseteq 1..lastId
      /\ \A id \in Missed : id <= trimmed \/ id <= lastId - Capacity
      /\ skipped <= Cardinality(Missed)
      /\ lastId - baseline - delivered <= Cardinality(Missed) - skipped
  BY DEF SkipInv
<1>3. /\ lastId <= head /\ head <= to
      /\ outstanding = head - baseline - delivered
      /\ outstanding > Capacity
  BY DEF SkipInv, Resync
<1>4. PICK first \in Nat :
        /\ first = (IF 0 < trimmed THEN trimmed + 1 ELSE 1)
        /\ Retained(0) \in Seq(Nat)
        /\ Len(Retained(0)) = to - first + 1
        /\ \A i \in 1..Len(Retained(0)) : Retained(0)[i] = first + i - 1
  <2>1. 0 \in Nat /\ 0 <= to
    BY <1>1
  <2>2. \E from_1 \in Nat :
           /\ from_1 = (IF 0 < trimmed THEN trimmed + 1 ELSE 0 + 1)
           /\ Retained(0) \in Seq(Nat)
           /\ Len(Retained(0)) = Len(stream) - from_1 + 1
           /\ \A i \in 1..Len(Retained(0)) : Retained(0)[i] = from_1 + i - 1
    BY <2>1, RetainedIsTheInterval
  <2> QED
    BY SMTT(30), <2>2
<1>5. first = trimmed + 1
  BY <1>1, <1>4
<1>6. /\ got \in Seq(Nat)
      /\ Len(got) = IF Len(Retained(0)) > Capacity THEN Capacity ELSE Len(Retained(0))
      /\ \A i \in 1..Len(got) : got[i] = Retained(0)[Len(Retained(0)) - Len(got) + i]
  BY <1>1, <1>4, NewestIsTheEnd
<1>7. /\ Deliver(got) /\ delivered' = Len(got) /\ baseline' = head
      /\ skipped' = skipped + (IF outstanding > Len(got) THEN outstanding - Len(got) ELSE 0)
      /\ pc' = "read"
      /\ UNCHANGED <<stream, trimmed, start>>
  BY DEF Resync, NewBaseline, redis
<1> HIDE DEF got, to
<1>8. to > 0 /\ Len(Retained(0)) = to - trimmed /\ to - trimmed > 0
  <2>1. head > 0
    BY <1>1, <1>3
  <2>2. to > 0
    BY <2>1, <1>1, <1>3
  <2>3. trimmed < to
    BY <2>2, <1>2
  <2>4. to - (trimmed + 1) + 1 = to - trimmed
    BY <1>1
  <2>5. Len(Retained(0)) = to - trimmed
    BY <2>4, <1>4, <1>5
  <2> QED
    BY <2>2, <2>3, <2>5, <1>1
<1>9. /\ k \in Nat /\ k >= 1 /\ k <= Capacity /\ k <= to - trimmed
      /\ k = Capacity \/ k = to - trimmed
  BY <1>1, <1>6, <1>8
<1> HIDE DEF k
<1>10. from \in Nat /\ from <= to /\ k = to - from + 1 /\ from > trimmed /\ from >= 1
  BY <1>1, <1>9
<1>11. \A i \in 1..Len(got) : got[i] = from + i - 1
  <2> SUFFICES ASSUME NEW i \in 1..k PROVE got[i] = from + i - 1
    BY DEF k
  <2>1. Len(Retained(0)) - k + i \in 1..Len(Retained(0))
    BY <1>1, <1>8, <1>9
  <2>2. Retained(0)[Len(Retained(0)) - k + i] = first + (Len(Retained(0)) - k + i) - 1
    BY <2>1, <1>4
  <2>3. first + (Len(Retained(0)) - k + i) - 1 = from + i - 1
    BY <1>1, <1>5, <1>8, <1>9
  <2>4. got[i] = Retained(0)[Len(Retained(0)) - k + i]
    BY <1>6 DEF k
  <2> QED
    BY <2>2, <2>3, <2>4
<1> HIDE DEF from
<1>12. lastId' = to /\ seen' = seen \cup from..to
  BY <1>1, <1>6, <1>7, <1>10, <1>11, DeliverTheInterval DEF k
<1>13. \A id \in Missed : id \in Nat /\ id <= lastId
  BY <1>1 DEF Missed
<1>14. \A id \in Missed : id < from
  <2> SUFFICES ASSUME NEW id \in Missed PROVE id < from
    OBVIOUS
  <2>1. id \in Nat /\ (id <= trimmed \/ id <= lastId - Capacity)
    BY <1>2, <1>13
  <2>2. id <= trimmed \/ id <= to - Capacity
    BY <2>1, <1>1, <1>2
  <2>3. trimmed < from /\ to - Capacity < from
    BY <1>1, <1>9, <1>10
  <2> QED
    BY <2>1, <2>2, <2>3, <1>1, <1>10
<1>15. /\ Missed' = Missed \cup (lastId + 1)..(from - 1)
       /\ Cardinality(Missed') = Cardinality(Missed)
                                   + (IF from > lastId THEN from - 1 - lastId ELSE 0)
  BY <1>1, <1>2, <1>7, <1>10, <1>12, <1>14, DeliveryMisses
<1>16. Cardinality(Missed) \in Nat
  BY MissedIsFinite
<1>17. /\ skipped' <= Cardinality(Missed')
       /\ lastId' - baseline' - delivered' <= Cardinality(Missed') - skipped'
  <2> DEFINE c == Cardinality(Missed)
             c2 == Cardinality(Missed')
             more == IF outstanding > k THEN outstanding - k ELSE 0
             gap == IF from > lastId THEN from - 1 - lastId ELSE 0
  <2>1. c \in Nat /\ c2 = c + gap /\ skipped' = skipped + more
    BY <1>7, <1>15, <1>16 DEF k
  <2>2. gap \in Nat /\ gap >= from - 1 - lastId
    BY <1>1, <1>10
  <2>3. more \in Nat /\ (more = 0 \/ more = head - baseline - delivered - k)
    BY <1>1, <1>3, <1>9
  <2>4. skipped <= c /\ lastId - baseline - delivered <= c - skipped
    BY <1>2
  <2> HIDE DEF c, c2, more, gap
  <2>5. CASE more = 0
    <3>1. skipped' = skipped /\ c2 = c + gap
      BY <2>1, <2>5, <1>1
    <3>2. skipped <= c + gap
      BY <2>1, <2>2, <2>4, <1>1
    <3>3. to - head - k <= c + gap - skipped
      BY <2>1, <2>2, <2>4, <1>1, <1>2, <1>3, <1>9, <1>10
    <3>4. lastId' = to /\ baseline' = head /\ delivered' = k
      BY <1>7, <1>12 DEF k
    <3>5. skipped' <= c2
      BY <3>1, <3>2
    <3>6. lastId' - baseline' - delivered' <= c2 - skipped'
      BY <3>1, <3>3, <3>4, <2>1, <2>2, <1>1, <1>9
    <3> QED
      BY <3>5, <3>6 DEF c2
  <2>6. CASE more = head - baseline - delivered - k
    <3>1. skipped' = skipped + (head - baseline - delivered - k) /\ c2 = c + gap
      BY <2>1, <2>6
    <3>2. skipped + (head - baseline - delivered - k) <= c + gap
      BY <2>1, <2>2, <2>4, <1>1, <1>2, <1>3, <1>9, <1>10
    <3>3. to - head - k <= c + gap - (skipped + (head - baseline - delivered - k))
      BY <2>1, <2>2, <2>4, <1>1, <1>2, <1>3, <1>9, <1>10
    <3>4. lastId' = to /\ baseline' = head /\ delivered' = k
      BY <1>7, <1>12 DEF k
    <3>5. skipped' <= c2
      BY <3>1, <3>2
    <3>6. lastId' - baseline' - delivered' <= c2 - skipped'
      BY <3>1, <3>3, <3>4, <2>1, <2>2, <1>1, <1>9
    <3> QED
      BY <3>5, <3>6 DEF c2
  <2> QED
    BY <2>3, <2>5, <2>6
<1>18. \A id \in Missed' : id <= trimmed' \/ id <= lastId' - Capacity
  <2> SUFFICES ASSUME NEW id \in Missed' PROVE id <= trimmed \/ id <= to - Capacity
    BY <1>7, <1>12
  <2>1. CASE id \in Missed
    <3>1. id \in Nat /\ (id <= trimmed \/ id <= lastId - Capacity)
      BY <2>1, <1>2, <1>13
    <3> QED
      BY <3>1, <1>1, <1>2
  <2>2. CASE id \in (lastId + 1)..(from - 1)
    <3>1. id \in Nat /\ id < from
      BY <2>2, <1>1, <1>10
    <3> QED
      BY <3>1, <1>1, <1>9, <1>10
  <2> QED
    BY <2>1, <2>2, <1>15
<1>19. seen' \subseteq 1..lastId'
  <2>1. seen \subseteq 1..to /\ from..to \subseteq 1..to
    BY <1>1, <1>2, <1>10
  <2> QED
    BY <2>1, <1>12
<1>20. start' <= lastId' /\ lastId' <= Len(stream') /\ (Len(stream') > 0 => trimmed' < Len(stream'))
  BY <1>1, <1>2, <1>7, <1>12 DEF to
<1> QED
  BY <1>7, <1>17, <1>18, <1>19, <1>20 DEF SkipInv

(* Every step keeps the reader's half.                                           *)
LEMMA SkipKept ==
  ASSUME TypeOK, TypeOK', SkipInv, Next
  PROVE  SkipInv'
<1>t. /\ stream \in Seq(Nat) /\ Len(stream) \in Nat /\ trimmed \in Nat /\ sent \in Nat
      /\ lastId \in Nat /\ baseline \in Nat /\ delivered \in Nat /\ batch \in Seq(Nat)
  <2>1. stream \in Seq(Nat)
    BY DEF TypeOK
  <2> QED
    BY <2>1 DEF TypeOK
<1>k. Len(stream) > 0 => trimmed < Len(stream)
  BY DEF SkipInv
<1>1. CASE Publish \/ Flush \/ FlushDone \/ FlushFails \/ Close
  <2>1. UNCHANGED <<redis, screen>>
    BY <1>1 DEF Publish, Flush, FlushDone, FlushFails, Close
  <2>2. /\ UNCHANGED <<lastId, baseline, delivered, skipped, start, seen>>
        /\ UNCHANGED <<stream, trimmed, pc, outstanding, head>>
    BY <2>1 DEF redis, screen, cursor
  <2> QED
    BY <2>2, <1>t, <1>k, OthersKeepTheSkips
<1>2. CASE Add
  <2>1. /\ stream' = Append(stream, batch[sent + 1]) /\ sent < Len(batch)
        /\ UNCHANGED <<trimmed, screen>>
    BY <1>2 DEF Add
  <2>2. /\ UNCHANGED <<lastId, baseline, delivered, skipped, start, seen>>
        /\ UNCHANGED <<trimmed, pc, outstanding, head>>
    BY <2>1 DEF screen, cursor
  <2>3. batch[sent + 1] \in Nat
    <3>1. sent + 1 \in 1..Len(batch)
      BY <2>1, <1>t
    <3> QED
      BY <3>1, <1>t
  <2>4. Len(stream') = Len(stream) + 1
    BY <2>1, <2>3, <1>t
  <2>5. trimmed <= Len(stream)
    BY DEF TypeOK
  <2>6. Len(stream) <= Len(stream') /\ trimmed <= trimmed' /\ trimmed' < Len(stream')
    BY <2>2, <2>4, <2>5, <1>t
  <2> QED
    BY <2>2, <2>6, OthersKeepTheSkips
<1>3. CASE Trim
  <2>1. /\ trimmed' \in (trimmed + 1)..(Len(stream) - sent) /\ batch # <<>> /\ sent = Len(batch)
        /\ UNCHANGED <<stream, screen>>
    BY <1>3 DEF Trim
  <2>2. /\ UNCHANGED <<lastId, baseline, delivered, skipped, start, seen>>
        /\ UNCHANGED <<stream, pc, outstanding, head>>
    BY <2>1 DEF screen, cursor
  <2>3. sent > 0
    BY <2>1, <1>t
  <2>4. trimmed <= trimmed' /\ trimmed' < Len(stream)
    BY <2>1, <2>3, <1>t
  <2>5. Len(stream) <= Len(stream') /\ trimmed' < Len(stream')
    BY <2>2, <2>4, <1>t
  <2> QED
    BY <2>2, <2>4, <2>5, OthersKeepTheSkips
<1>4. CASE Position
  <2>1. /\ pc = "start" /\ pc' = "read" /\ lastId' = Len(stream) /\ baseline' = Len(stream)
        /\ delivered' = 0 /\ start' = Len(stream)
        /\ UNCHANGED <<stream, trimmed, skipped, seen>>
    BY <1>4 DEF Position, redis
  <2>2. skipped = 0 /\ seen = {}
    BY <2>1 DEF SkipInv
  <2>3. Missed' = {}
    BY <2>1, <1>t DEF Missed
  <2>4. Cardinality(Missed)' = 0
    BY <2>3, FS_EmptySet
  <2>5. (skipped <= Cardinality(Missed)
         /\ lastId - baseline - delivered <= Cardinality(Missed) - skipped)'
    BY <2>1, <2>2, <2>4, <1>t
  <2> QED
    BY <2>1, <2>2, <2>3, <2>5, <1>t, <1>k DEF SkipInv
<1>5. CASE PositionFails \/ ReadNothing \/ ReadFails \/ Take
  <2>1. /\ UNCHANGED <<redis, lastId, baseline, delivered, skipped, start, seen>>
        /\ pc' = "start" => pc = "start"
        /\ pc' = "newest" => pc = "newest" /\ UNCHANGED <<outstanding, head>>
    BY <1>5 DEF PositionFails, ReadNothing, ReadFails, Take, cursor
  <2>2. UNCHANGED <<stream, trimmed>>
    BY <2>1 DEF redis
  <2>3. Len(stream) <= Len(stream') /\ trimmed <= trimmed' /\ (Len(stream') > 0 => trimmed' < Len(stream'))
    BY <2>2, <1>t, <1>k
  <2> QED
    BY <2>1, <2>3, OthersKeepTheSkips
<1>6. CASE Read
  BY <1>6, ReadKeepsTheSkips
<1>7. CASE Heads
  <2>1. /\ UNCHANGED <<stream, trimmed, lastId, baseline, delivered, skipped, start, seen>>
        /\ pc' \in {"read", "newest"}
    BY <1>7 DEF Heads, redis, cursor
  <2>2. ASSUME pc' = "newest"
        PROVE  /\ outstanding' = Len(stream) - baseline - delivered /\ head' = Len(stream)
               /\ Len(stream) - baseline - delivered > Capacity
    <3>1. ~(Behind <= Capacity)
      BY <1>7, <2>2 DEF Heads
    <3>2. Behind = Len(stream) - baseline - delivered /\ Capacity \in Nat
      BY DEF Behind
    <3> QED
      BY <1>7, <3>1, <3>2, <1>t DEF Heads
  <2>3. Missed' = Missed
    BY <2>1 DEF Missed
  <2>4. (pc = "newest" =>
           /\ lastId <= head /\ head <= Len(stream)
           /\ outstanding = head - baseline - delivered
           /\ outstanding > Capacity)'
    <3> SUFFICES ASSUME pc' = "newest"
                 PROVE  /\ lastId' <= head' /\ head' <= Len(stream')
                        /\ outstanding' = head' - baseline' - delivered'
                        /\ outstanding' > Capacity
      OBVIOUS
    <3>1. /\ outstanding' = Len(stream) - baseline - delivered /\ head' = Len(stream)
          /\ Len(stream) - baseline - delivered > Capacity
      BY <2>2
    <3>2. lastId <= Len(stream)
      BY DEF SkipInv
    <3>3. lastId' <= head' /\ head' <= Len(stream')
      BY <3>1, <3>2, <2>1, <1>t
    <3> QED
      BY <3>1, <3>3, <2>1
  <2>5. pc' # "start"
    BY <2>1
  <2> QED
    BY <2>1, <2>3, <2>4, <2>5 DEF SkipInv
<1>8. CASE Resync
  BY <1>8, ResyncKeepsTheSkips
<1> QED
  BY <1>1, <1>2, <1>3, <1>4, <1>5, <1>6, <1>7, <1>8 DEF Next

----------------------------------------------------------------------------
(* The bus keeps its types and both halves of its invariant, on a closed bus and    *)
(* with a reader that gave up as well.                                            *)
THEOREM LiveInvariants == Spec => [](TypeOK /\ OutboxInv /\ SkipInv)
<1>1. Init => TypeOK /\ OutboxInv /\ SkipInv
  BY TypesStart, OutboxStarts, SkipStarts
<1>2. TypeOK /\ OutboxInv /\ SkipInv /\ [Next]_vars => (TypeOK /\ OutboxInv /\ SkipInv)'
  <2> SUFFICES ASSUME TypeOK, OutboxInv, SkipInv, [Next]_vars
               PROVE  (TypeOK /\ OutboxInv /\ SkipInv)'
    OBVIOUS
  <2>1. CASE Next
    <3>1. lastId <= Len(stream)
      BY DEF SkipInv
    <3>2. TypeOK'
      BY <2>1, <3>1, TypesKeep
    <3> QED
      BY <2>1, <3>2, OutboxKept, SkipKept
  <2>2. CASE UNCHANGED vars
    <3>1. UNCHANGED <<publisher, redis, screen, faults>>
      BY <2>2 DEF vars
    <3>2. TypeOK'
      BY <3>1 DEF TypeOK, publisher, redis, screen, cursor
    <3>3. UNCHANGED <<publisher, stream>>
      BY <3>1 DEF redis
    <3>4. OutboxInv'
      BY <3>3, OthersKeepTheOutbox
    <3>5. SkipInv'
      BY <3>1 DEF SkipInv, Missed, redis, screen, cursor
    <3> QED
      BY <3>2, <3>4, <3>5
  <2> QED
    BY <2>1, <2>2
<1> QED
  BY <1>1, <1>2, PTL DEF Spec

(* The publisher of redis_bus.py loses only the oldest of what it holds, and never    *)
(* the order: whatever the ceiling, the failed pipelines and the puts-back, as many of *)
(* the newest records as the outbox may hold are kept or written, and a record is     *)
(* written for the first time before any newer one.                                *)
THEOREM OutboxIsAlwaysFaithful == Spec => []OutboxIsFaithful
<1>1. TypeOK /\ OutboxInv => OutboxIsFaithful
  <2> SUFFICES ASSUME TypeOK, OutboxInv PROVE OutboxIsFaithful
    OBVIOUS
  <2>1. NewestAreKept
    BY DEF OutboxInv
  <2>2. ASSUME NEW i \in 1..Len(stream), NEW j \in 1..Len(stream), stream[j] < stream[i]
        PROVE  \E k \in 1..(i - 1) : stream[k] = stream[j]
    <3>1. stream[i] \in Nat /\ stream[j] \in Nat
      <4>1. stream \in Seq(Nat)
        BY DEF TypeOK
      <4> QED
        BY SMTT(30), <4>1
    <3>2. NotLate(stream[j])
      BY DEF OutboxInv, Records
    <3> QED
      BY <3>1, <3>2, <2>2 DEF NotLate
  <2>3. FirstWritesInOrder
    BY <2>2 DEF FirstWritesInOrder
  <2> QED
    BY <2>1, <2>3 DEF OutboxIsFaithful
<1> QED
  BY <1>1, LiveInvariants, PTL

(* The screen's reader never reports an entry as skipped that it was delivered: the    *)
(* count _resync_if_behind adds up stays within what its cursor passed unseen,        *)
(* through retention, resyncs that race the publisher, and passes that failed.        *)
THEOREM SkipsAreAlwaysReal == Spec => []SkipsAreReal
<1>1. SkipInv => SkipsAreReal
  BY DEF SkipInv, SkipsAreReal, Missed
<1> QED
  BY <1>1, LiveInvariants, PTL

----------------------------------------------------------------------------
(* What was confirmed is on the stream and no longer waits, however often a batch *)
(* was repeated before it was.                                                *)
Confirmed == Records(stream) \ Records(Waiting)

(* Everything published is accounted for, once.                               *)
CountInv ==
  /\ published = written + outboxDropped + Len(outbox) + Len(batch) + Len(cancelled)
  /\ written <= Cardinality(Confirmed)

(* What waits is in the batch or in the outbox.                                 *)
LEMMA WaitingIsEither ==
  ASSUME NEW s \in Seq(Nat), NEW t \in Seq(Nat)
  PROVE  Records(s \o t) = Records(s) \cup Records(t)
<1>1. /\ s \o t \in Seq(Nat) /\ Len(s \o t) = Len(s) + Len(t)
      /\ \A i \in 1..Len(s) : (s \o t)[i] = s[i]
      /\ \A i \in 1..Len(t) : (s \o t)[Len(s) + i] = t[i]
      /\ Len(s) \in Nat /\ Len(t) \in Nat
  BY ConcatIs
<1> DEFINE u == s \o t
<1> HIDE DEF u
<1>2. /\ Len(u) = Len(s) + Len(t)
      /\ \A i \in 1..Len(s) : u[i] = s[i]
      /\ \A i \in 1..Len(t) : u[Len(s) + i] = t[i]
  BY <1>1 DEF u
<1>3. ASSUME NEW i \in 1..Len(u) PROVE u[i] \in Records(s) \cup Records(t)
  <2>1. CASE i <= Len(s)
    <3>1. i \in 1..Len(s)
      BY <1>1, <1>2, <2>1
    <3> QED
      BY <3>1, <1>2 DEF Records
  <2>2. CASE ~(i <= Len(s))
    <3>1. i - Len(s) \in 1..Len(t) /\ Len(s) + (i - Len(s)) = i
      BY <1>1, <1>2, <2>2
    <3>2. u[i] = t[i - Len(s)]
      BY <3>1, <1>2
    <3> QED
      BY <3>1, <3>2 DEF Records
  <2> QED
    BY <2>1, <2>2
<1>4. ASSUME NEW i \in 1..Len(s) PROVE s[i] \in Records(u)
  <2>1. i \in 1..Len(u)
    BY <1>1, <1>2
  <2> QED
    BY <2>1, <1>2 DEF Records
<1>5. ASSUME NEW i \in 1..Len(t) PROVE t[i] \in Records(u)
  <2>1. Len(s) + i \in 1..Len(u)
    BY <1>1, <1>2
  <2> QED
    BY <2>1, <1>2 DEF Records
<1>6. Records(u) \subseteq Records(s) \cup Records(t)
  BY <1>3 DEF Records
<1>7. Records(s) \subseteq Records(u) /\ Records(t) \subseteq Records(u)
  BY <1>4, <1>5 DEF Records
<1> QED
  BY <1>6, <1>7 DEF u

(* The records of a sequence are finitely many, and as many as it is long when it *)
(* ascends.                                                                   *)
LEMMA RecordsAreFinite ==
  ASSUME NEW s \in Seq(Nat)
  PROVE  IsFiniteSet(Records(s)) /\ (Spread(s) => Len(s) <= Cardinality(Records(s)))
<1> DEFINE n == Len(s)
           f == [i \in 1..n |-> s[i]]
           T == Records(s)
<1>1. n \in Nat
  OBVIOUS
<1>2. IsFiniteSet(1..n) /\ Cardinality(1..n) = n
  <2>1. 1 \in Int /\ n \in Int
    OBVIOUS
  <2>2. IsFiniteSet(1..n) /\ Cardinality(1..n) = IF 1 > n THEN 0 ELSE n - 1 + 1
    BY <2>1, FS_Interval, Zenon
  <2> HIDE DEF n
  <2> QED
    BY <1>1, <2>2
<1>3. \A i \in 1..n : s[i] \in Nat /\ s[i] \in T /\ f[i] = s[i]
  BY SMTT(30) DEF Records
<1>4. \A r \in T : \E i \in 1..n : f[i] = r
  BY DEF Records
<1>5. f \in [1..n -> T]
  BY DEF Records
<1> HIDE DEF f, T, n
<1>6. f \in Surjection(1..n, T)
  BY <1>4, <1>5, Fun_IsSurj
<1>7. IsFiniteSet(T)
  BY <1>2, <1>6, FS_Surjection
<1>8. ASSUME Spread(s) PROVE n <= Cardinality(T)
  <2>1. ASSUME NEW i \in 1..n, NEW j \in 1..n, i < j PROVE s[i] # s[j]
    <3>1. s[j] - s[i] >= j - i
      BY <1>8, <2>1, <1>1 DEF Spread, n
    <3>2. s[i] \in Nat /\ s[j] \in Nat /\ i \in Int /\ j \in Int
      BY <1>3
    <3> QED
      BY <2>1, <3>1, <3>2
  <2>2. \A i, j \in 1..n : f[i] = f[j] => i = j
    <3> SUFFICES ASSUME NEW i \in 1..n, NEW j \in 1..n, f[i] = f[j] PROVE i = j
      OBVIOUS
    <3>1. s[i] = s[j] /\ i \in Int /\ j \in Int
      BY <1>3
    <3>2. ~(i < j) /\ ~(j < i)
      BY <2>1, <3>1
    <3> QED
      BY <3>1, <3>2
  <2>3. f \in Injection(1..n, T)
    BY <1>5, <2>2, Fun_IsInj
  <2>4. Cardinality(1..n) <= Cardinality(T)
    BY <1>7, <2>3, FS_Injection
  <2> QED
    BY <1>2, <2>4
<1> QED
  BY <1>7, <1>8 DEF n, T

(* No step that confirms nothing takes back what was confirmed.                  *)
LEMMA ConfirmedStays ==
  ASSUME TypeOK, TypeOK', CountInv, Confirmed \subseteq Confirmed', written' = written
  PROVE  (written <= Cardinality(Confirmed))'
<1>1. stream' \in Seq(Nat)
  BY DEF TypeOK
<1>2. IsFiniteSet(Records(stream'))
  BY <1>1, RecordsAreFinite
<1>3. IsFiniteSet(Confirmed')
  <2>1. Confirmed' \in SUBSET Records(stream')
    BY DEF Confirmed, Records
  <2> QED
    BY <1>2, <2>1, FS_Subset
<1>4. Cardinality(Confirmed) <= Cardinality(Confirmed') /\ IsFiniteSet(Confirmed)
  BY <1>3, FS_Subset
<1>5. Cardinality(Confirmed) \in Nat /\ Cardinality(Confirmed') \in Nat
  BY <1>3, <1>4, FS_CardinalityType
<1>6. written <= Cardinality(Confirmed) /\ written \in Nat
  BY DEF CountInv, TypeOK
<1>7. Cardinality(Confirmed)' = Cardinality(Confirmed')
  OBVIOUS
<1> HIDE DEF Confirmed
<1> QED
  BY <1>4, <1>5, <1>6, <1>7

(* The publisher starts with nothing to count, and only its own steps count.       *)
LEMMA CountStarts == Init => CountInv
<1> SUFFICES ASSUME Init PROVE CountInv
  OBVIOUS
<1>1. /\ published = 0 /\ written = 0 /\ outboxDropped = 0
      /\ outbox = <<>> /\ batch = <<>> /\ cancelled = <<>> /\ stream = <<>>
  BY DEF Init
<1>2. Records(stream) = {}
  BY <1>1 DEF Records
<1>3. Confirmed = {}
  BY <1>2 DEF Confirmed
<1>4. Cardinality(Confirmed) = 0
  BY <1>3, FS_EmptySet
<1> QED
  BY <1>1, <1>4 DEF CountInv

(* A step that moves none of the counted parts keeps the count.                *)
LEMMA OthersKeepTheCount ==
  ASSUME CountInv, UNCHANGED <<published, written, outboxDropped, outbox, batch, cancelled, stream>>
  PROVE  CountInv'
<1>1. Confirmed' = Confirmed
  BY DEF Confirmed, Records, Waiting
<1> QED
  BY <1>1 DEF CountInv

(* A record that is published is on no stream yet, and the ceiling takes only     *)
(* from what waits.                                                          *)
LEMMA PublishCounts ==
  ASSUME TypeOK, TypeOK', OutboxInv, CountInv, Publish
  PROVE  CountInv'
<1> DEFINE box == Append(outbox, published + 1)
<1>0. /\ outbox \in Seq(Nat) /\ batch \in Seq(Nat) /\ stream \in Seq(Nat) /\ cancelled \in Seq(Nat)
      /\ outbox' \in Seq(Nat) /\ published \in Nat /\ written \in Nat /\ outboxDropped \in Nat
  BY DEF TypeOK
<1>1. /\ outbox \in Seq(Nat) /\ batch \in Seq(Nat) /\ stream \in Seq(Nat) /\ outbox' \in Seq(Nat)
      /\ published \in Nat /\ written \in Nat /\ outboxDropped \in Nat /\ Len(cancelled) \in Nat
      /\ Len(outbox) \in Nat /\ Len(batch) \in Nat
  BY <1>0, LenProperties
<1>2. /\ published' = published + 1 /\ UNCHANGED <<batch, written, cancelled, stream>>
      /\ IF Len(box) > MaxOutbox
         THEN outbox' = Kept(box) /\ outboxDropped' = outboxDropped + Len(box) - MaxOutbox
         ELSE outbox' = box /\ UNCHANGED outboxDropped
  BY DEF Publish, redis
<1>3. /\ box \in Seq(Nat) /\ Len(box) = Len(outbox) + 1 /\ MaxOutbox \in Nat
      /\ \A i \in 1..Len(box) : box[i] = published + 1 \/ \E j \in 1..Len(outbox) : box[i] = outbox[j]
  <2>1. box \in Seq(Nat) /\ Len(box) = Len(outbox) + 1
    BY <1>1
  <2>2. \A i \in 1..Len(box) : box[i] = IF i <= Len(outbox) THEN outbox[i] ELSE published + 1
    <3>1. outbox \in Seq(Nat) /\ published + 1 \in Nat /\ Len(outbox) \in Nat
      BY <1>1
    <3> QED
      BY <3>1, <2>1, AppendProperties, SMTT(30)
  <2>3. MaxOutbox \in Nat
    OBVIOUS
  <2> HIDE DEF box
  <2>4. ASSUME NEW i \in 1..Len(box)
        PROVE  box[i] = published + 1 \/ \E j \in 1..Len(outbox) : box[i] = outbox[j]
    <3>1. CASE i <= Len(outbox)
      <4>1. i \in 1..Len(outbox)
        BY <1>1, <2>1, <3>1
      <4> QED
        BY <2>2, <3>1, <4>1
    <3> QED
      BY <2>2, <3>1
  <2> QED
    BY <2>1, <2>3, <2>4
<1> HIDE DEF box
<1>4. ASSUME Len(box) > MaxOutbox
      PROVE  \A i \in 1..Len(outbox') : \E j \in 1..Len(box) : outbox'[i] = box[j]
  <2>1. outbox' = Newest(MaxOutbox, box) /\ outboxDropped' = outboxDropped + Len(box) - MaxOutbox
    BY <1>2, <1>4 DEF Kept
  <2>2. /\ Len(outbox') = MaxOutbox
        /\ \A i \in 1..Len(outbox') : outbox'[i] = box[Len(box) - MaxOutbox + i]
    BY <1>3, <1>4, <2>1, NewestIsTheEnd
  <2>3. \A i \in 1..Len(outbox') : Len(box) - MaxOutbox + i \in 1..Len(box)
    BY <1>3, <1>4, <2>2
  <2> QED
    BY <2>2, <2>3
<1>5. /\ Len(outbox') + outboxDropped' = Len(outbox) + 1 + outboxDropped
      /\ outboxDropped' \in Int /\ Len(outbox') \in Nat
  <2>1. CASE Len(box) > MaxOutbox
    <3>1. outbox' = Newest(MaxOutbox, box) /\ outboxDropped' = outboxDropped + Len(box) - MaxOutbox
      BY <1>2, <2>1 DEF Kept
    <3>2. Len(outbox') = MaxOutbox
      BY <1>3, <2>1, <3>1, NewestIsTheEnd
    <3> QED
      BY <1>1, <1>3, <3>1, <3>2
  <2>2. CASE ~(Len(box) > MaxOutbox)
    <3>1. Len(outbox') = Len(outbox) + 1 /\ outboxDropped' = outboxDropped
      BY <1>2, <1>3, <2>2
    <3> QED
      BY <1>1, <3>1
  <2> QED
    BY <2>1, <2>2
<1>6. \A i \in 1..Len(outbox') : outbox'[i] = published + 1 \/ outbox'[i] \in Records(outbox)
  <2>1. \A i \in 1..Len(outbox') : \E j \in 1..Len(box) : outbox'[i] = box[j]
    <3>1. CASE ~(Len(box) > MaxOutbox)
      <4>1. outbox' = box
        BY <1>2, <3>1
      <4> QED
        BY <4>1
    <3> QED
      BY <3>1, <1>4
  <2>2. \A j \in 1..Len(box) : box[j] = published + 1 \/ box[j] \in Records(outbox)
    BY <1>3 DEF Records
  <2> QED
    BY <2>1, <2>2
<1>7. Records(outbox') \subseteq Records(outbox) \cup {published + 1}
  BY <1>6 DEF Records
<1>8. published + 1 \notin Records(stream)
  <2>1. \A i \in 1..Len(stream) : stream[i] <= published
    BY DEF OutboxInv
  <2>2. \A i \in 1..Len(stream) : stream[i] # published + 1
    BY <2>1, <1>1
  <2> QED
    BY <2>2 DEF Records
<1>9. Confirmed \subseteq Confirmed'
  <2>1. /\ Records(Waiting) = Records(batch) \cup Records(outbox)
        /\ Records(batch' \o outbox') = Records(batch') \cup Records(outbox')
    BY <1>1, <1>2, WaitingIsEither DEF Waiting
  <2>2. Records(Waiting)' = Records(batch' \o outbox') /\ Records(stream)' = Records(stream)
    BY <1>2 DEF Waiting, Records
  <2>3. Records(batch') = Records(batch)
    BY <1>2
  <2> QED
    BY <1>7, <1>8, <2>1, <2>2, <2>3 DEF Confirmed
<1>10. (written <= Cardinality(Confirmed))'
  BY <1>2, <1>9, ConfirmedStays
<1>11. published = written + outboxDropped + Len(outbox) + Len(batch) + Len(cancelled)
  BY DEF CountInv
<1>12. published' = written + outboxDropped' + Len(outbox') + Len(batch) + Len(cancelled)
  <2>1. published' = published + 1
    BY <1>2
  <2> DEFINE d == outboxDropped'
             o == Len(outbox')
  <2>2. o + d = Len(outbox) + 1 + outboxDropped
    BY <1>5
  <2>3. /\ published \in Int /\ written \in Int /\ outboxDropped \in Int /\ Len(outbox) \in Int
        /\ Len(batch) \in Int /\ Len(cancelled) \in Int /\ d \in Int /\ o \in Int
    BY <1>1, <1>5
  <2> HIDE DEF d, o
  <2>4. published + 1 = written + d + o + Len(batch) + Len(cancelled)
    BY <2>2, <2>3, <1>11
  <2> QED
    BY <2>1, <2>4 DEF d, o
<1>13. (published = written + outboxDropped + Len(outbox) + Len(batch) + Len(cancelled))'
  BY <1>2, <1>12
<1> QED
  BY <1>10, <1>13 DEF CountInv

(* A step that leaves waiting no more than what waited takes back nothing.        *)
LEMMA LessWaitsIsConfirmed ==
  ASSUME TypeOK, TypeOK', CountInv, written' = written,
         Records(stream) \subseteq Records(stream'),
         (Records(stream') \ Records(stream)) \cup Records(Waiting') \subseteq Records(Waiting)
  PROVE  (written <= Cardinality(Confirmed))'
<1>1. Records(stream)' = Records(stream') /\ Records(Waiting)' = Records(Waiting')
  BY DEF Records
<1>2. Confirmed \subseteq Confirmed'
  BY <1>1 DEF Confirmed
<1> QED
  BY <1>2, ConfirmedStays

(* A pipeline that answered confirms its whole batch, whose records are on the    *)
(* stream, differ from each other and from what still waits.                    *)
LEMMA FlushDoneCounts ==
  ASSUME TypeOK, TypeOK', OutboxInv, CountInv, FlushDone
  PROVE  CountInv'
<1>0. /\ outbox \in Seq(Nat) /\ batch \in Seq(Nat) /\ stream \in Seq(Nat) /\ cancelled \in Seq(Nat)
      /\ published \in Nat /\ written \in Nat /\ outboxDropped \in Nat
  BY DEF TypeOK
<1>1. /\ outbox \in Seq(Nat) /\ batch \in Seq(Nat) /\ stream \in Seq(Nat)
      /\ published \in Nat /\ written \in Nat /\ outboxDropped \in Nat /\ Len(cancelled) \in Nat
      /\ Len(outbox) \in Nat /\ Len(batch) \in Nat
  BY <1>0, LenProperties
<1>2. /\ sent = Len(batch) /\ written' = written + Len(batch) /\ batch' = <<>>
      /\ UNCHANGED <<published, outbox, outboxDropped, cancelled, stream>>
  BY DEF FlushDone, redis
<1>3. /\ Waiting \in Seq(Nat) /\ Len(Waiting) = Len(batch) + Len(outbox)
      /\ \A i \in 1..Len(batch) : Waiting[i] = batch[i]
      /\ \A i \in 1..Len(outbox) : Waiting[Len(batch) + i] = outbox[i]
  BY <1>1, ConcatIs DEF Waiting
<1>4. Spread(Waiting) /\ \A m \in 1..Len(batch) : batch[m] \in Records(stream)
  BY <1>2 DEF OutboxInv
<1>5. Spread(batch)
  <2>1. ASSUME NEW i \in 1..Len(batch), NEW j \in 1..Len(batch), i <= j
        PROVE  batch[j] - batch[i] >= j - i
    <3>1. i \in 1..Len(Waiting) /\ j \in 1..Len(Waiting)
      BY <1>1, <1>3
    <3>2. Waiting[j] - Waiting[i] >= j - i
      BY <1>4, <2>1, <3>1 DEF Spread
    <3> QED
      BY <1>3, <3>2
  <2> QED
    BY <2>1 DEF Spread
<1>6. \A i \in 1..Len(batch), j \in 1..Len(outbox) : batch[i] # outbox[j]
  <2> SUFFICES ASSUME NEW i \in 1..Len(batch), NEW j \in 1..Len(outbox) PROVE batch[i] # outbox[j]
    OBVIOUS
  <2> DEFINE k == Len(batch) + j
  <2>1. i \in 1..Len(Waiting) /\ k \in 1..Len(Waiting) /\ i < k /\ i \in Int /\ k \in Int
    <3>1. Len(Waiting) = Len(batch) + Len(outbox) /\ Len(batch) \in Nat /\ Len(outbox) \in Nat
      BY <1>1, <1>3
    <3>2. i \in Int /\ 1 <= i /\ i <= Len(batch) /\ j \in Int /\ 1 <= j /\ j <= Len(outbox)
      BY <3>1
    <3> QED
      BY <3>1, <3>2
  <2>2. Waiting[i] = batch[i] /\ Waiting[k] = outbox[j]
    BY <1>3
  <2> HIDE DEF k
  <2>3. Waiting[k] - Waiting[i] >= k - i
    BY <1>4, <2>1 DEF Spread
  <2>4. Waiting[k] \in Nat /\ Waiting[i] \in Nat
    <3>1. \A x \in 1..Len(Waiting) : Waiting[x] \in Nat
      BY <1>3, ElementOfSeq
    <3> QED
      BY <2>1, <3>1
  <2>5. Waiting[i] # Waiting[k]
    BY <2>1, <2>3, <2>4
  <2> QED
    BY <2>2, <2>5
<1> DEFINE Before == Records(stream) \ (Records(batch) \cup Records(outbox))
           After == Records(stream) \ Records(outbox)
<1>7. Confirmed = Before
  <2>1. Records(Waiting) = Records(batch) \cup Records(outbox)
    BY <1>1, WaitingIsEither DEF Waiting
  <2> QED
    BY <2>1 DEF Confirmed
<1>8. Confirmed' = After
  <2>1. Waiting' = outbox
    BY <1>1, <1>2 DEF Waiting
  <2>2. Records(Waiting)' = Records(outbox) /\ Records(stream)' = Records(stream)
    BY <1>2, <2>1 DEF Records
  <2> QED
    BY <2>2 DEF Confirmed
<1>9. After = Before \cup Records(batch) /\ Before \cap Records(batch) = {}
  <2>1. Records(batch) \subseteq Records(stream)
    BY <1>4 DEF Records
  <2>2. Records(batch) \cap Records(outbox) = {}
    BY <1>6 DEF Records
  <2> QED
    BY <2>1, <2>2
<1>10. /\ IsFiniteSet(Records(batch)) /\ IsFiniteSet(Records(stream))
       /\ Len(batch) <= Cardinality(Records(batch))
  BY <1>1, <1>5, RecordsAreFinite
<1>11. IsFiniteSet(Before)
  <2>1. Before \in SUBSET Records(stream)
    OBVIOUS
  <2> QED
    BY <1>10, <2>1, FS_Subset
<1> HIDE DEF Before, After
<1>12. Cardinality(After) = Cardinality(Before) + Cardinality(Records(batch))
  <2>1. Cardinality(Before \cup Records(batch)) =
          Cardinality(Before) + Cardinality(Records(batch)) - Cardinality(Before \cap Records(batch))
    BY <1>10, <1>11, FS_Union
  <2>2. Cardinality(Before \cap Records(batch)) = 0
    BY <1>9, FS_EmptySet
  <2>3. Cardinality(Before) \in Nat /\ Cardinality(Records(batch)) \in Nat
    BY <1>10, <1>11, FS_CardinalityType
  <2>4. Cardinality(Before \cup Records(batch)) = Cardinality(Before) + Cardinality(Records(batch))
    BY <2>1, <2>2, <2>3
  <2> QED
    BY <1>9, <2>4
<1>13. Cardinality(Before) \in Nat /\ Cardinality(Records(batch)) \in Nat
  BY <1>10, <1>11, FS_CardinalityType
<1>14. written <= Cardinality(Before)
  BY <1>7 DEF CountInv
<1>15. written + Len(batch) <= Cardinality(After)
  BY <1>1, <1>10, <1>12, <1>13, <1>14
<1>16. (written <= Cardinality(Confirmed))'
  <2>1. Cardinality(Confirmed)' = Cardinality(After)
    BY <1>8, Zenon
  <2> QED
    BY <1>2, <1>15, <2>1
<1>17. published = written + outboxDropped + Len(outbox) + Len(batch) + Len(cancelled)
  BY DEF CountInv
<1>18. (published = written + outboxDropped + Len(outbox) + Len(batch) + Len(cancelled))'
  BY <1>1, <1>2, <1>17
<1> QED
  BY <1>16, <1>18 DEF CountInv

(* Every step keeps the count.                                                *)
LEMMA CountKept ==
  ASSUME TypeOK, TypeOK', OutboxInv, CountInv, Next
  PROVE  CountInv'
<1>0. /\ outbox \in Seq(Nat) /\ batch \in Seq(Nat) /\ stream \in Seq(Nat) /\ cancelled \in Seq(Nat)
      /\ written \in Nat /\ outboxDropped \in Nat /\ sent \in Nat
  BY DEF TypeOK
<1>t. /\ Len(outbox) \in Nat /\ Len(batch) \in Nat /\ Len(cancelled) \in Nat
      /\ written \in Nat /\ outboxDropped \in Nat
  BY <1>0, LenProperties
<1>c. published = written + outboxDropped + Len(outbox) + Len(batch) + Len(cancelled)
  BY DEF CountInv
<1>w. Records(Waiting) = Records(batch) \cup Records(outbox)
  BY <1>0, WaitingIsEither DEF Waiting
<1>1. CASE Publish
  BY <1>1, PublishCounts
<1>2. CASE Flush
  <2>1. /\ batch = <<>> /\ batch' = outbox /\ outbox' = <<>>
        /\ UNCHANGED <<published, written, outboxDropped, cancelled, stream>>
    BY <1>2 DEF Flush, redis
  <2>2. Waiting' = Waiting
    BY <2>1, <1>0 DEF Waiting
  <2>3. (written <= Cardinality(Confirmed))'
    <3>1. Confirmed' = Confirmed
      BY <2>1, <2>2 DEF Confirmed, Records
    <3> QED
      BY <2>1, <3>1, ConfirmedStays
  <2>4. Len(batch) = 0 /\ Len(batch') = Len(outbox) /\ Len(outbox') = 0
    BY <2>1
  <2>5. (published = written + outboxDropped + Len(outbox) + Len(batch) + Len(cancelled))'
    BY <2>1, <2>4, <1>t, <1>c
  <2> QED
    BY <2>3, <2>5 DEF CountInv
<1>3. CASE Add
  <2>1. /\ sent < Len(batch) /\ stream' = Append(stream, batch[sent + 1])
        /\ UNCHANGED <<published, outbox, batch, written, outboxDropped, cancelled>>
    BY <1>3 DEF Add
  <2>2. sent + 1 \in 1..Len(batch)
    BY <2>1, <1>0, <1>t
  <2>3. Records(stream') = Records(stream) \cup {batch[sent + 1]}
    <3> DEFINE r == batch[sent + 1]
    <3>1. r \in Nat
      <4>1. \A i \in 1..Len(batch) : batch[i] \in Nat
        BY <1>0, SMTT(30)
      <4> QED
        BY <2>2, <4>1
    <3> HIDE DEF r
    <3>2. /\ Append(stream, r) \in Seq(Nat) /\ Len(Append(stream, r)) = Len(stream) + 1
          /\ \A i \in 1..Len(stream) : Append(stream, r)[i] = stream[i]
          /\ Append(stream, r)[Len(stream) + 1] = r
      BY <1>0, <3>1
    <3>3. Len(stream) \in Nat
      BY <1>0, LenProperties
    <3> DEFINE u == Append(stream, r)
    <3> HIDE DEF u
    <3>4. /\ Len(u) = Len(stream) + 1
          /\ \A i \in 1..Len(stream) : u[i] = stream[i]
          /\ u[Len(stream) + 1] = r
      BY <3>2 DEF u
    <3>5. \A i \in 1..Len(u) : i \in 1..Len(stream) \/ i = Len(stream) + 1
      BY <3>3, <3>4
    <3>6. \A i \in 1..Len(stream) : i \in 1..Len(u)
      BY <3>3, <3>4
    <3>7. Len(stream) + 1 \in 1..Len(u)
      BY <3>3, <3>4
    <3>8. \A i \in 1..Len(u) : u[i] \in Records(stream) \cup {r}
      BY <3>4, <3>5 DEF Records
    <3>9. \A i \in 1..Len(stream) : stream[i] \in Records(u)
      BY <3>4, <3>6 DEF Records
    <3>10. r \in Records(u)
      BY <3>4, <3>7 DEF Records
    <3>11. Records(u) \subseteq Records(stream) \cup {r} /\ Records(stream) \subseteq Records(u)
      BY <3>8, <3>9 DEF Records
    <3>12. Records(u) = Records(stream) \cup {r}
      BY <3>10, <3>11
    <3> QED
      BY <2>1, <3>12 DEF u, r
  <2>4. batch[sent + 1] \in Records(Waiting)
    BY <2>2, <1>w DEF Records
  <2>5. Waiting' = Waiting
    BY <2>1 DEF Waiting
  <2>6. /\ Records(stream) \subseteq Records(stream')
        /\ (Records(stream') \ Records(stream)) \cup Records(Waiting') \subseteq Records(Waiting)
    BY <2>3, <2>4, <2>5
  <2>7. (written <= Cardinality(Confirmed))'
    BY <2>1, <2>6, LessWaitsIsConfirmed
  <2> QED
    BY <2>1, <2>7 DEF CountInv
<1>4. CASE Trim
  BY <1>4, OthersKeepTheCount DEF Trim, publisher
<1>5. CASE FlushDone
  BY <1>5, FlushDoneCounts
<1>6. CASE FlushFails
  <2>1. /\ outbox' = batch \o outbox /\ batch' = <<>>
        /\ UNCHANGED <<published, written, outboxDropped, cancelled, stream>>
    BY <1>6 DEF FlushFails, PutBack, redis
  <2>2. Waiting' = Waiting
    BY <2>1, <1>0 DEF Waiting
  <2>3. (written <= Cardinality(Confirmed))'
    <3>1. Confirmed' = Confirmed
      BY <2>1, <2>2 DEF Confirmed, Records
    <3> QED
      BY <2>1, <3>1, ConfirmedStays
  <2>4. Len(batch') = 0 /\ Len(outbox') = Len(batch) + Len(outbox)
    BY <2>1, <1>0, ConcatIs
  <2>5. (published = written + outboxDropped + Len(outbox) + Len(batch) + Len(cancelled))'
    BY <2>1, <2>4, <1>t, <1>c
  <2> QED
    BY <2>3, <2>5 DEF CountInv
<1>7. CASE Close
  <2>1. /\ bus = "open" /\ cancelled' = batch /\ batch' = outbox /\ outbox' = <<>>
        /\ UNCHANGED <<published, written, outboxDropped, stream>>
    BY <1>7 DEF Close, redis
  <2>2. Len(cancelled) = 0
    BY <2>1 DEF OutboxInv
  <2>3. Waiting' = outbox
    BY <2>1, <1>0 DEF Waiting
  <2>4. Records(Waiting') \subseteq Records(Waiting) /\ Records(stream') = Records(stream)
    BY <2>1, <2>3, <1>w
  <2>5. (written <= Cardinality(Confirmed))'
    BY <2>1, <2>4, LessWaitsIsConfirmed
  <2>6. Len(cancelled') = Len(batch) /\ Len(batch') = Len(outbox) /\ Len(outbox') = 0
    BY <2>1
  <2>7. (published = written + outboxDropped + Len(outbox) + Len(batch) + Len(cancelled))'
    BY <2>1, <2>2, <2>6, <1>t, <1>c
  <2> QED
    BY <2>5, <2>7 DEF CountInv
<1>8. CASE Position \/ PositionFails \/ Read \/ ReadNothing \/ Heads \/ Resync \/ ReadFails \/ Take
  <2>1. UNCHANGED <<publisher, redis>>
    BY <1>8 DEF Position, PositionFails, Read, ReadNothing, Heads, Resync, ReadFails, Take
  <2>2. UNCHANGED <<published, written, outboxDropped, outbox, batch, cancelled, stream>>
    BY <2>1 DEF publisher, redis
  <2> QED
    BY <2>2, OthersKeepTheCount
<1> QED
  BY <1>1, <1>2, <1>3, <1>4, <1>5, <1>6, <1>7, <1>8 DEF Next

(* The publisher's counters of redis_bus.py are exact, for every ceiling and batch  *)
(* size: a published record is confirmed, waiting, in flight, counted as dropped or *)
(* was in the batch the close cancelled; and no more is confirmed than there are    *)
(* records on the stream, however often a failed batch was repeated.             *)
THEOREM EveryRecordStaysCounted == Spec => []EveryRecordIsCounted
<1>1. Init => CountInv
  BY CountStarts
<1>2. TypeOK /\ TypeOK' /\ OutboxInv /\ CountInv /\ [Next]_vars => CountInv'
  <2> SUFFICES ASSUME TypeOK, TypeOK', OutboxInv, CountInv, [Next]_vars PROVE CountInv'
    OBVIOUS
  <2>1. CASE Next
    BY <2>1, CountKept
  <2>2. CASE UNCHANGED vars
    BY <2>2, OthersKeepTheCount DEF vars, publisher, redis
  <2> QED
    BY <2>1, <2>2
<1>3. TypeOK /\ CountInv => EveryRecordIsCounted
  <2> SUFFICES ASSUME TypeOK, CountInv PROVE EveryRecordIsCounted
    OBVIOUS
  <2>1. stream \in Seq(Nat) /\ written \in Nat
    BY DEF TypeOK
  <2>2. IsFiniteSet(Records(stream))
    BY <2>1, RecordsAreFinite
  <2>3. Confirmed \in SUBSET Records(stream)
    BY DEF Confirmed
  <2>4. Cardinality(Confirmed) <= Cardinality(Records(stream)) /\ IsFiniteSet(Confirmed)
    BY <2>2, <2>3, FS_Subset
  <2>5. Cardinality(Confirmed) \in Nat /\ Cardinality(Records(stream)) \in Nat
    BY <2>2, <2>4, FS_CardinalityType
  <2>6. written <= Cardinality(Confirmed)
    BY DEF CountInv
  <2>7. written <= Cardinality(Records(stream))
    BY <2>1, <2>4, <2>5, <2>6
  <2> QED
    BY <2>7 DEF EveryRecordIsCounted, CountInv
<1> QED
  BY <1>1, <1>2, <1>3, LiveInvariants, PTL DEF Spec
=============================================================================
