------------------------------ MODULE LiveBus ------------------------------
(***************************************************************************)
(* The live path of redis_bus.py on one stream: the publisher's outbox and   *)
(* its flusher, the stream with its retention, and one drop-oldest reader    *)
(* (a screen) with the bounded queue of fanout.py and its consumer.         *)
(*                                                                         *)
(* Records are numbered as they are published; those that cannot be encoded  *)
(* never reach the outbox and are left out. A stream id is the ordinal of    *)
(* its entry, so Len(stream) is entries-added and the last generated id, and *)
(* the entries 1..trimmed are the ones retention has removed.               *)
(***************************************************************************)
EXTENDS Integers, Sequences, FiniteSets

CONSTANTS
  MaxOutbox,   \* BusConfig.max_outbox: the ceiling of the outbox
  ReadCount,   \* BusConfig.read_count: entries in a full read
  Capacity,    \* maxsize of the screen's subscription
  Retries,     \* BusConfig.read_retries: failed passes in a row a reader survives
  MaxRecords,  \* bound: records published
  MaxFaults    \* bound: failed commands

ASSUME LiveAssumption ==
  /\ {MaxOutbox, ReadCount, Capacity} \subseteq Nat \ {0}
  /\ {Retries, MaxRecords, MaxFaults} \subseteq Nat

VARIABLES
  bus,            \* the publisher's bus: open, closing (its last flush) or closed
  published,      \* records published
  outbox,         \* records that wait for a flush
  batch,          \* the batch a flush is writing, empty when none is
  sent,           \* how many of its XADDs Redis has applied
  written,        \* records whose write was confirmed
  outboxDropped,  \* records the ceiling dropped
  stream,         \* every entry ever added, as its record
  trimmed,        \* entries retention has removed
  pc,             \* where the screen's reader is
  lastId,         \* sub.last_ids
  baseline,       \* sub._baseline: entries-added at the last positioning
  delivered,      \* sub._delivered: entries taken since
  outstanding,    \* what a resync found outstanding
  head,           \* the entries-added it was computed from
  skipped,        \* sub.skipped
  retries,        \* sub.retries
  queue,          \* the screen's queue, of stream ids
  shown,          \* the id the screen took last, 0 before the first
  start,          \* history: the id the reader was positioned at
  seen,           \* history: the ids delivered to the queue
  cancelled,      \* history: the batch in flight when the flusher was cancelled
  faults          \* bound: faults so far

publisher == <<bus, published, outbox, batch, sent, written, outboxDropped, cancelled>>
redis == <<stream, trimmed>>
cursor == <<lastId, baseline, delivered, skipped>>
screen == <<pc, cursor, outstanding, head, retries, queue, shown, start, seen>>
vars == <<publisher, redis, screen, faults>>

Init ==
  /\ bus = "open" /\ published = 0
  /\ outbox = <<>> /\ batch = <<>> /\ sent = 0
  /\ written = 0 /\ outboxDropped = 0 /\ cancelled = <<>>
  /\ stream = <<>> /\ trimmed = 0
  /\ pc = "start" /\ lastId = 0 /\ baseline = 0 /\ delivered = 0
  /\ outstanding = 0 /\ head = 0 /\ skipped = 0 /\ retries = 0
  /\ queue = <<>> /\ shown = 0
  /\ start = 0 /\ seen = {}
  /\ faults = 0

----------------------------------------------------------------------------
(* The newest n elements of a sequence.                                     *)
Newest(n, s) == SubSeq(s, IF Len(s) > n THEN Len(s) - n + 1 ELSE 1, Len(s))

(* The ids from..to as a sequence.                                          *)
Run(from, to) == [i \in 1..(to - from + 1) |-> from + i - 1]

Fault == faults < MaxFaults /\ faults' = faults + 1

----------------------------------------------------------------------------
(* What the ceiling keeps of the outbox.                                    *)
Kept(box) == Newest(MaxOutbox, box)

(* publish: synchronous, from the socket's handler, at any point of a flush. *)
Publish ==
  /\ bus = "open"
  /\ published < MaxRecords
  /\ published' = published + 1
  /\ LET box == Append(outbox, published + 1)
     IN IF Len(box) > MaxOutbox
        THEN outbox' = Kept(box) /\ outboxDropped' = outboxDropped + Len(box) - MaxOutbox
        ELSE outbox' = box /\ UNCHANGED outboxDropped
  /\ UNCHANGED <<bus, batch, sent, written, cancelled, redis, screen, faults>>

(* flush: the whole outbox becomes one pipeline.                            *)
Flush ==
  /\ bus = "open"
  /\ batch = <<>> /\ outbox # <<>>
  /\ batch' = outbox
  /\ outbox' = <<>>
  /\ UNCHANGED <<bus, published, sent, written, outboxDropped, cancelled, redis, screen, faults>>

(* Redis runs the pipeline one command at a time: other clients' commands    *)
(* may come between.                                                        *)
Add ==
  /\ sent < Len(batch)
  /\ stream' = Append(stream, batch[sent + 1])
  /\ sent' = sent + 1
  /\ UNCHANGED <<bus, published, outbox, batch, written, outboxDropped, cancelled, trimmed,
                 screen, faults>>

(* The XTRIM of the pipeline removes by age, never what it has just added.   *)
Trim ==
  /\ batch # <<>> /\ sent = Len(batch)
  /\ trimmed' \in (trimmed + 1)..(Len(stream) - sent)
  /\ UNCHANGED <<publisher, stream, screen, faults>>

AfterFlush == IF bus = "closing" THEN "closed" ELSE bus

FlushDone ==
  /\ batch # <<>> /\ sent = Len(batch)
  /\ written' = written + Len(batch)
  /\ batch' = <<>> /\ sent' = 0
  /\ bus' = AfterFlush
  /\ UNCHANGED <<published, outbox, outboxDropped, cancelled, redis, screen, faults>>

(* A failed batch is put back in front of what was published meanwhile.      *)
PutBehind == outbox \o batch
PutBack == batch \o outbox

(* The pipeline fails with any prefix of it applied, all of it included. The *)
(* close has no second attempt.                                             *)
FlushFails ==
  /\ Fault
  /\ batch # <<>>
  /\ outbox' = PutBack
  /\ batch' = <<>> /\ sent' = 0
  /\ bus' = AfterFlush
  /\ UNCHANGED <<published, written, outboxDropped, cancelled, redis, screen>>

(* aclose: the flusher is cancelled, also while it awaits a pipeline, whose   *)
(* batch is not put back; then one last flush of the outbox.                *)
Close ==
  /\ bus = "open"
  /\ cancelled' = batch
  /\ batch' = outbox /\ outbox' = <<>> /\ sent' = 0
  /\ bus' = IF outbox = <<>> THEN "closed" ELSE "closing"
  /\ UNCHANGED <<published, written, outboxDropped, redis, screen, faults>>

----------------------------------------------------------------------------
(* The ids a read from id finds, oldest first.                              *)
Retained(id) == Run(IF id < trimmed THEN trimmed + 1 ELSE id + 1, Len(stream))
UpTo(n, s) == SubSeq(s, 1, IF Len(s) < n THEN Len(s) ELSE n)

(* What the full queue keeps. The in-process bus offers in the same way.     *)
KeptOldest(ids) == UpTo(Capacity, ids)
KeptInQueue(ids) == Newest(Capacity, ids)

(* _deliver: the cursor moves over the entries, and the queue evicts its     *)
(* oldest to take them.                                                     *)
Deliver(ids) ==
  /\ lastId' = IF ids = <<>> THEN lastId ELSE ids[Len(ids)]
  /\ queue' = KeptInQueue(queue \o ids)
  /\ seen' = seen \cup {ids[i] : i \in 1..Len(ids)}

(* _position_at_head: the newest id and entries-added of one XINFO.          *)
Position ==
  /\ pc = "start"
  /\ pc' = "read"
  /\ lastId' = Len(stream) /\ baseline' = Len(stream) /\ delivered' = 0
  /\ start' = Len(stream)
  /\ UNCHANGED <<publisher, redis, skipped, outstanding, head, retries, queue,
                 shown, seen, faults>>

(* It runs outside the retry driver, so its failure ends the reader.         *)
PositionFails ==
  /\ Fault
  /\ pc = "start"
  /\ pc' = "lost"
  /\ UNCHANGED <<publisher, redis, cursor, outstanding, head, retries, queue,
                 shown, start, seen>>

(* _read_head_pass. A full read asks how far behind the reader is.           *)
Read ==
  /\ pc = "read"
  /\ Retained(lastId) # <<>>
  /\ LET ids == UpTo(ReadCount, Retained(lastId))
     IN /\ Deliver(ids)
        /\ delivered' = delivered + Len(ids)
        /\ IF Len(ids) >= ReadCount
           THEN pc' = "heads" /\ UNCHANGED retries
           ELSE retries' = 0 /\ UNCHANGED pc
  /\ UNCHANGED <<publisher, redis, baseline, skipped, outstanding, head, shown, start, faults>>

ReadNothing ==
  /\ pc = "read"
  /\ Retained(lastId) = <<>>
  /\ retries > 0
  /\ retries' = 0
  /\ UNCHANGED <<publisher, redis, pc, cursor, outstanding, head, queue, shown,
                 start, seen, faults>>

(* _resync_if_behind, up to its second command.                             *)
Behind == Len(stream) - baseline - delivered

Heads ==
  /\ pc = "heads"
  /\ IF Behind <= Capacity
     THEN /\ pc' = "read" /\ retries' = 0
          /\ UNCHANGED <<outstanding, head>>
     ELSE /\ pc' = "newest" /\ outstanding' = Behind /\ head' = Len(stream)
          /\ UNCHANGED retries
  /\ UNCHANGED <<publisher, redis, cursor, queue, shown, start, seen, faults>>

(* XREVRANGE: the newest entries the stream holds by now. The baseline is    *)
(* the count the XINFO gave, and the entries delivered here count from it.   *)
OldBaseline == baseline
NewBaseline == head

Resync ==
  /\ pc = "newest"
  /\ LET ids == Newest(Capacity, Retained(0))
     IN /\ skipped' = skipped + (IF outstanding > Len(ids) THEN outstanding - Len(ids) ELSE 0)
        /\ baseline' = NewBaseline
        /\ delivered' = Len(ids)
        /\ Deliver(ids)
  /\ outstanding' = 0 /\ head' = 0
  /\ retries' = 0
  /\ pc' = "read"
  /\ UNCHANGED <<publisher, redis, shown, start, faults>>

(* _run_reader and _reader_failed: any command of a pass fails; what it had  *)
(* delivered stays delivered, and past the budget the reader gives up.       *)
ReadFails ==
  /\ Fault
  /\ pc \in {"read", "heads", "newest"}
  /\ retries' = retries + 1
  /\ pc' = IF retries + 1 > Retries THEN "lost" ELSE "read"
  /\ outstanding' = 0 /\ head' = 0
  /\ UNCHANGED <<publisher, redis, cursor, queue, shown, start, seen>>

(* take: the screen's consumer.                                             *)
Take ==
  /\ queue # <<>>
  /\ shown' = Head(queue)
  /\ queue' = Tail(queue)
  /\ UNCHANGED <<publisher, redis, pc, cursor, outstanding, head, retries, start,
                 seen, faults>>

----------------------------------------------------------------------------
Reader == Position \/ Read \/ ReadNothing \/ Heads \/ Resync

Next ==
  \/ Publish \/ Flush \/ Add \/ Trim \/ FlushDone \/ FlushFails \/ Close
  \/ Position \/ PositionFails \/ Read \/ ReadNothing \/ Heads \/ Resync \/ ReadFails
  \/ Take

Spec == Init /\ [][Next]_vars

(* The flusher ticks, Redis answers, and the two loops of the reading side   *)
(* are tasks of one event loop.                                             *)
LiveSpec == Spec /\ WF_vars(Flush) /\ WF_vars(Add) /\ WF_vars(FlushDone)
                 /\ WF_vars(Reader) /\ WF_vars(Take)

----------------------------------------------------------------------------
Records(s) == {s[i] : i \in 1..Len(s)}

(* The publisher's counters are exact through refused batches, the ceiling   *)
(* and the close: what was published is confirmed, waiting, in flight,       *)
(* counted as dropped or was in the batch the close cancelled.              *)
EveryRecordIsCounted ==
  /\ published = written + outboxDropped + Len(outbox) + Len(batch) + Len(cancelled)
  /\ written <= Cardinality(Records(stream))

(* The ceiling takes the oldest: as many of the newest records as the outbox *)
(* may hold are never the ones that are gone, whatever was put back when.    *)
NewestAreKept ==
  \A r \in 1..published : r > published - MaxOutbox =>
    r \in Records(stream) \cup Records(outbox) \cup Records(batch) \cup Records(cancelled)

(* A record reaches the stream for the first time only before any newer one: *)
(* what is repeated after a failed flush repeats in order.                  *)
FirstWritesInOrder ==
  \A i, j \in 1..Len(stream) :
    i < j /\ stream[j] < stream[i] => \E k \in 1..(i - 1) : stream[k] = stream[j]

(* Both: the bounds of the outbox and of a failed flush cost the oldest, and     *)
(* never the order.                                                        *)
OutboxIsFaithful == NewestAreKept /\ FirstWritesInOrder

(* What the reader reports as skipped it really did not get.                 *)
SkipsAreReal ==
  skipped <= Cardinality({id \in (start + 1)..lastId : id \notin seen})

(* _resync_if_behind says of its subtraction that the arithmetic is exact to *)
(* the round trip: what the stream added since the baseline, less what the   *)
(* reader took of it.                                                       *)
OutstandingIsExact ==
  pc = "newest" =>
    outstanding = Cardinality({id \in (baseline + 1)..head : id \notin seen})

(* End to end: when publishing stops, the screen comes to show the newest    *)
(* record, through put-back batches, the ceiling, retention, resyncs and     *)
(* failed passes, unless its reader gave up, the publisher was closed or the *)
(* record was on the stream before the reader took its position.            *)
ScreenShowsTheNewest ==
  <>[](\/ pc = "lost" \/ bus = "closed"
       \/ Len(stream) = start
       \/ shown > 0 /\ stream[shown] = published)
=============================================================================
