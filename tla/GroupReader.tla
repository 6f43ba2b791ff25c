---------------------------- MODULE GroupReader ----------------------------
(***************************************************************************)
(* The lossless reader of redis_bus.py on one stream: the consumer group it *)
(* creates or rejoins, the pending list it inherits, the replay from a      *)
(* saved position, and the read/ack/deliver passes with their retries.      *)
(*                                                                         *)
(* A stream id is the ordinal of its entry, so "added" is at once           *)
(* entries-added and the last generated id, and the entries 1..trimmed are  *)
(* the ones retention has removed. Two consumers use this reader: the store, *)
(* which passes the positions of its checkpoint (checkpoints = TRUE), and   *)
(* the api's bar buffer, which passes none. Nobody removes a group from under *)
(* its reader, so what replay_gaps and _replay say of a missing one is left  *)
(* out.                                                                   *)
(***************************************************************************)
EXTENDS Integers, FiniteSetsExt

CONSTANTS
  Consumers,   \* which consumers are checked: a set of values of "checkpoints"
  ReadCount,   \* BusConfig.read_count: entries in a full read
  Retries,     \* BusConfig.read_retries: failed passes in a row a reader survives
  MaxEntries,  \* bound: entries published
  MaxFaults    \* bound: crashes and failed commands

ASSUME ReaderAssumption ==
  /\ Consumers \subseteq BOOLEAN
  /\ ReadCount \in Nat \ {0}
  /\ Retries \in Nat
  /\ MaxEntries \in Nat
  /\ MaxFaults \in Nat

None == [id |-> -1, index |-> -1]
Ids == 1..MaxEntries
Position == [id : 0..MaxEntries, index : Nat]

VARIABLES
  checkpoints,  \* whether the consumer records positions
  added,        \* entries published
  trimmed,      \* entries retention has removed
  exists,       \* whether the consumer group exists
  last,         \* the group's last-delivered-id
  pel,          \* the group's pending list
  pc,           \* where the reader is
  position,     \* sub.positions
  cursor,       \* where the replay reads from, -1 without a start_id
  batch,        \* the ids in hand between a read and its ack
  live,         \* the ones among them that still had their fields
  recover,      \* sub._recover_pending
  retries,      \* sub.retries
  saved,        \* the position in the checkpoint, None before the first
  got,          \* delivered to this incarnation of the consumer
  kept,         \* delivered earlier, and stored or consumed by now
  base,         \* history: the id the group was created at
  vanished,     \* history: acked by a command whose reply never arrived
  unreplayed,   \* history: given up with a replay that did not take place
  early,        \* history: delivered before, or claimed by, the first checkpoint
  rejoined,     \* history: a reader joined an existing group without a position
  reported,     \* history: the entries trimmed when a gap was last reported
  faults        \* bound: faults so far

redis == <<added, trimmed, exists, last, pel>>
reader == <<pc, position, cursor, batch, live, recover, retries>>
consumer == <<saved, got, kept>>
history == <<base, vanished, unreplayed, early, rejoined, reported>>
vars == <<checkpoints, redis, reader, consumer, history, faults>>

Init ==
  /\ checkpoints \in Consumers
  /\ added = 0 /\ trimmed = 0 /\ exists = FALSE /\ last = 0 /\ pel = {}
  /\ pc = "down" /\ position = [id |-> 0, index |-> 0] /\ cursor = -1
  /\ batch = {} /\ live = {} /\ recover = FALSE /\ retries = 0
  /\ saved = None /\ got = {} /\ kept = {}
  /\ base = 0 /\ vanished = {} /\ unreplayed = {} /\ early = {} /\ rejoined = FALSE /\ reported = 0
  /\ faults = 0

----------------------------------------------------------------------------
(* The first ReadCount ids of a set, which is what one COUNTed read returns. *)
Lowest(S) == {i \in S : Cardinality({j \in S : j <= i}) <= ReadCount}

Retained == (trimmed + 1)..added
Undelivered == {i \in Retained : i > last}

(* _deliver: the queue takes the entries and the position counts them.      *)
Deliver(S) ==
  /\ got' = got \cup S
  /\ position' = IF S = {} THEN position
                 ELSE [id |-> Max(S), index |-> position.index + Cardinality(S)]
  /\ early' = IF checkpoints /\ saved = None THEN early \cup S ELSE early

(* What an ack leaves in the pending list.                                  *)
Acked == pel \ batch

Fault == faults < MaxFaults /\ faults' = faults + 1

(* One flush of the publisher: an XADD, and an XTRIM by age that may remove  *)
(* any number of the entries that were there before it.                     *)
Publish ==
  /\ added < MaxEntries
  /\ added' = added + 1
  /\ trimmed' \in trimmed..added
  /\ UNCHANGED <<checkpoints, exists, last, pel, reader, consumer, history, faults>>

----------------------------------------------------------------------------
(* The replay reads after its cursor, so a cursor on the first retained entry *)
(* would skip it.                                                           *)
FirstRetained == IF saved.id < trimmed THEN trimmed + 1 ELSE saved.id
ReplayFrom == saved.id

(* Start-up. _ensure_group: a saved position is the replay's start; without  *)
(* one the reader is seated at the head, also when the group is further back. *)
EnsureGroup ==
  /\ pc = "down"
  /\ exists' = TRUE
  /\ IF saved # None
     THEN position' = saved /\ cursor' = ReplayFrom /\ pc' = "gaps"
     ELSE position' = [id |-> added, index |-> added] /\ cursor' = -1 /\ pc' = "adopt"
  /\ IF exists
     THEN UNCHANGED <<last, base>> /\ rejoined' = (rejoined \/ saved = None)
     ELSE last' = added /\ base' = added /\ UNCHANGED rejoined
  /\ UNCHANGED <<checkpoints, added, trimmed, pel, batch, live, recover, retries,
                 consumer, vanished, unreplayed, early, reported, faults>>

(* Redis fails it. The store's process ends and starts again, which EnsureGroup *)
(* and a Crash amount to; the bar buffer's reader ends, where nobody asks for   *)
(* its position, and the group may have been created all the same.            *)
EnsureGroupFails ==
  /\ Fault
  /\ pc = "down" /\ ~checkpoints
  /\ pc' = "lost"
  /\ \/ UNCHANGED <<exists, last, base>>
     \/ ~exists /\ exists' = TRUE /\ last' = added /\ base' = added
  /\ UNCHANGED <<checkpoints, added, trimmed, pel, position, cursor, batch, live, recover, retries,
                 consumer, vanished, unreplayed, early, rejoined, reported>>

(* replay_gaps: the entries trimmed since the saved position, by its index;  *)
(* a stream that holds nothing answers zero.                                *)
Lost == IF Retained = {} THEN 0 ELSE Max({0, trimmed - saved.index})

Rebased == [id |-> saved.id, index |-> trimmed]

(* The store's start-up check, before any reader runs. A gap rebases the     *)
(* position: the id stays a read cursor, the index moves onto the trim count. *)
Gaps ==
  /\ pc = "gaps"
  /\ pc' = "adopt"
  /\ position' = IF Lost > 0 THEN Rebased ELSE position
  /\ reported' = IF Lost > 0 THEN trimmed ELSE reported
  /\ UNCHANGED <<checkpoints, redis, cursor, batch, live, recover, retries,
                 consumer, base, vanished, unreplayed, early, rejoined, faults>>

----------------------------------------------------------------------------
(* _drain_pending reads the pending list from 0: before the first pass (pc   *)
(* "adopt") and at the head of a pass that follows a failed one ("drain").   *)
(* Entries that were trimmed come back without fields.                      *)
ReadPending ==
  /\ pc \in {"adopt", "drain"}
  /\ pel # {}
  /\ batch' = Lowest(pel)
  /\ live' = Lowest(pel) \ (1..trimmed)
  /\ pc' = IF pc = "adopt" THEN "adoptAck" ELSE "drainAck"
  /\ UNCHANGED <<checkpoints, redis, position, cursor, recover, retries,
                 consumer, history, faults>>

(* The pending list has been read to its end.                               *)
PendingDrained ==
  /\ pc \in {"adopt", "drain"}
  /\ pel = {}
  /\ recover' = FALSE
  /\ pc' = IF pc = "adopt" /\ cursor # -1 THEN "positions" ELSE "read"
  /\ UNCHANGED <<checkpoints, redis, position, cursor, batch, live, retries,
                 consumer, history, faults>>

(* How an acked batch is settled: a stream that will be replayed leaves an   *)
(* inherited batch to the replay, anything else is delivered now.           *)
AlwaysDeferred == IF pc = "adoptAck" THEN {} ELSE live
Recovered == IF pc = "adoptAck" /\ cursor # -1 THEN {} ELSE live

AckPending ==
  /\ pc \in {"adoptAck", "drainAck"}
  /\ pel' = Acked
  /\ batch' = {} /\ live' = {}
  /\ Deliver(Recovered)
  /\ pc' = IF pc = "adoptAck" THEN "adopt" ELSE "drain"
  /\ UNCHANGED <<checkpoints, added, trimmed, exists, last, cursor, recover, retries,
                 saved, kept, base, vanished, unreplayed, rejoined, reported, faults>>

----------------------------------------------------------------------------
(* _group_positions: the replay asks for the group's last-delivered-id.      *)
GroupPosition ==
  /\ pc = "positions"
  /\ pc' = "replay"
  /\ UNCHANGED <<checkpoints, redis, position, cursor, batch, live, recover, retries,
                 consumer, history, faults>>

(* Whatever goes wrong with that question is taken for a missing stream, and *)
(* the reader goes on to new entries with nothing replayed.                 *)
GroupPositionFails ==
  /\ Fault
  /\ pc = "positions"
  /\ pc' = "read"
  /\ unreplayed' = unreplayed \cup ((cursor + 1)..last)
  /\ UNCHANGED <<checkpoints, redis, position, cursor, batch, live, recover, retries,
                 consumer, base, vanished, early, rejoined, reported>>

(* _replay: one XREAD from the cursor. It has no end of its own, so what is  *)
(* past the group's last-delivered-id is dropped and the stream is done.     *)
Unbounded(entries) == entries
Bounded(entries) == {i \in entries : i <= last}

Replay ==
  /\ pc = "replay"
  /\ LET entries == Lowest({i \in Retained : i > cursor})
         bounded == Bounded(entries)
     IN IF cursor >= last \/ entries = {}
        THEN /\ pc' = "read"
             /\ UNCHANGED <<cursor, got, position, early>>
        ELSE /\ Deliver(bounded)
             /\ cursor' = IF bounded = entries THEN Max(entries) ELSE last
             /\ UNCHANGED pc
  /\ UNCHANGED <<checkpoints, redis, batch, live, recover, retries, saved, kept,
                 base, vanished, unreplayed, rejoined, reported, faults>>

----------------------------------------------------------------------------
(* _read_group_pass. A pass after a failed one drains the pending list first. *)
StartRecovery ==
  /\ pc = "read" /\ recover
  /\ pc' = "drain"
  /\ UNCHANGED <<checkpoints, redis, position, cursor, batch, live, recover, retries,
                 consumer, history, faults>>

(* What XREADGROUP > does at the server.                                     *)
HandOver(S) ==
  /\ last' = Max(S)
  /\ pel' = pel \cup S

ReadNew ==
  /\ pc = "read" /\ ~recover
  /\ Undelivered # {}
  /\ HandOver(Lowest(Undelivered))
  /\ batch' = Lowest(Undelivered)
  /\ live' = Lowest(Undelivered)
  /\ pc' = "ack"
  /\ UNCHANGED <<checkpoints, added, trimmed, exists, position, cursor, recover,
                 retries, consumer, history, faults>>

(* A read that returns nothing is a pass that succeeded: _reader_recovered.  *)
ReadNothing ==
  /\ pc = "read" /\ ~recover
  /\ Undelivered = {}
  /\ retries > 0
  /\ retries' = 0
  /\ UNCHANGED <<checkpoints, redis, pc, position, cursor, batch, live, recover,
                 consumer, history, faults>>

(* Acked on receipt, then delivered, with no suspension between the two.     *)
Ack ==
  /\ pc = "ack"
  /\ pel' = Acked
  /\ batch' = {} /\ live' = {}
  /\ Deliver(live)
  /\ retries' = 0
  /\ pc' = "read"
  /\ UNCHANGED <<checkpoints, added, trimmed, exists, last, cursor, recover,
                 saved, kept, base, vanished, unreplayed, rejoined, reported, faults>>

----------------------------------------------------------------------------
(* _reader_failed: arm the recovery, and give up past the retry budget.      *)
NotArmed == recover
Armed == TRUE

GivesUp(failures) == failures > Retries

ReaderFailed ==
  /\ recover' = Armed
  /\ retries' = retries + 1
  /\ pc' = IF GivesUp(retries + 1) THEN "lost" ELSE "read"
  /\ batch' = {} /\ live' = {}

(* A read of a pass fails: the pending read, which moves nothing, or         *)
(* XREADGROUP >, which Redis may have served before the reply was lost.      *)
ReadFails ==
  /\ Fault
  /\ pc \in {"read", "drain"}
  /\ ReaderFailed
  /\ \/ UNCHANGED <<last, pel>>
     \/ pc = "read" /\ ~recover /\ Undelivered # {} /\ HandOver(Lowest(Undelivered))
  /\ UNCHANGED <<checkpoints, added, trimmed, exists, position, cursor, consumer, history>>

(* The ack of a pass fails, before or after Redis applied it. In the second  *)
(* case the pending list no longer holds what was never delivered.          *)
AckFails ==
  /\ Fault
  /\ pc \in {"ack", "drainAck"}
  /\ ReaderFailed
  /\ \/ UNCHANGED <<pel, vanished>>
     \/ pel' = Acked /\ vanished' = vanished \cup live
  /\ UNCHANGED <<checkpoints, added, trimmed, exists, last, position, cursor,
                 consumer, base, unreplayed, early, rejoined, reported>>

(* A failure before the first pass is outside the retry driver and ends the  *)
(* reader; the ack of an inherited batch may have been applied.              *)
PositioningFails ==
  /\ Fault
  /\ pc \in {"adopt", "adoptAck", "replay"}
  /\ pc' = "lost"
  /\ batch' = {} /\ live' = {}
  /\ \/ UNCHANGED <<pel, vanished>>
     \/ pc = "adoptAck" /\ pel' = Acked /\ vanished' = vanished \cup live
  /\ UNCHANGED <<checkpoints, added, trimmed, exists, last, position, cursor, recover,
                 retries, consumer, base, unreplayed, early, rejoined, reported>>

----------------------------------------------------------------------------
(* The store's checkpoints. The first one is written by the start-up, while  *)
(* the reader already runs, and stores nothing.                             *)
FirstCheckpoint ==
  /\ checkpoints /\ saved = None
  /\ pc # "down"
  /\ saved' = position
  /\ early' = early \cup (base + 1)..position.id
  /\ UNCHANGED <<checkpoints, redis, reader, got, kept, base, vanished, unreplayed, rejoined,
                 reported, faults>>

(* A later one follows the commit of everything up to the position it names; *)
(* that is StoreWriter's subject and taken here as it is.                   *)
Save ==
  /\ checkpoints /\ saved # None
  /\ pc \notin {"down", "gaps"}
  /\ saved # position
  /\ saved' = position
  /\ kept' = kept \cup got
  /\ UNCHANGED <<checkpoints, redis, reader, got, history, faults>>

(* The process ends. What the store held in memory is gone; what the bar     *)
(* buffer was given has been given.                                         *)
Crash ==
  /\ Fault
  /\ pc # "down"
  /\ pc' = "down"
  /\ position' = [id |-> 0, index |-> 0] /\ cursor' = -1
  /\ batch' = {} /\ live' = {} /\ recover' = FALSE /\ retries' = 0
  /\ got' = {}
  /\ kept' = IF checkpoints THEN kept ELSE kept \cup got
  /\ UNCHANGED <<checkpoints, redis, saved, history>>

----------------------------------------------------------------------------
Start == EnsureGroup \/ Gaps
Pass == \/ ReadPending \/ PendingDrained \/ AckPending
        \/ GroupPosition \/ Replay
        \/ StartRecovery \/ ReadNew \/ ReadNothing \/ Ack
Failure == \/ GroupPositionFails \/ ReadFails \/ AckFails
           \/ PositioningFails \/ EnsureGroupFails \/ Crash

Next == Publish \/ Start \/ Pass \/ Failure \/ FirstCheckpoint \/ Save

Spec == Init /\ [][Next]_vars

(* The event loop schedules a task that can run, and Compose restarts a      *)
(* process that ended. Nothing is owed by the publisher or by the faults.    *)
FairSpec == Spec /\ WF_vars(Start) /\ WF_vars(Pass)

----------------------------------------------------------------------------
(* Type invariant.                                                          *)
TypeOK ==
  /\ checkpoints \in BOOLEAN /\ exists \in BOOLEAN
  /\ recover \in BOOLEAN /\ rejoined \in BOOLEAN
  /\ added \in 0..MaxEntries /\ trimmed \in 0..added /\ last \in 0..added
  /\ pc \in {"down", "gaps", "adopt", "adoptAck", "positions", "replay",
             "read", "ack", "drain", "drainAck", "lost"}
  /\ position \in Position /\ saved \in Position \cup {None}
  /\ cursor \in -1..added
  /\ retries \in 0..(Retries + 1) /\ (retries > Retries => pc = "lost")
  /\ base \in 0..added /\ reported \in 0..added
  /\ batch \subseteq Ids /\ live \subseteq batch
  /\ got \subseteq Ids /\ kept \subseteq Ids
  /\ pel \subseteq Ids /\ vanished \subseteq Ids /\ early \subseteq Ids /\ unreplayed \subseteq Ids
  /\ faults \in 0..MaxFaults

(* Where an entry the group has handed out can still be: with the consumer,  *)
(* in the pending list, or ahead of the position a restart replays from.     *)
Reachable(i) ==
  \/ i \in got \cup kept
  \/ i \in pel
  \/ saved # None /\ i > saved.id

(* An entry the group has moved past is never simply skipped, whatever fails *)
(* and whenever the process dies: it is with the consumer, pending, or ahead *)
(* of the saved position (_drain_pending, _replay). Beyond retention there   *)
(* are exactly three leaks: an ack whose reply was lost, a replay that was   *)
(* silently given up, and the first run of a store, before its checkpoint.   *)
NothingSkipped ==
  \A i \in (base + 1)..last :
    Reachable(i) \/ i <= trimmed \/ i \in vanished \cup unreplayed \cup early

(* Redis' pending list holds entries handed to this consumer and not         *)
(* delivered, and nothing else, which is what makes the recovery read exact: *)
(* whatever fails, no pass leaves a delivered entry there to be read again.  *)
PendingIsUndelivered == pel \cap got = {}

(* Without a checkpoint nothing is delivered twice, across any number of     *)
(* restarts: acks are what the group remembers.                             *)
DeliveredOnceEver == ~checkpoints => got \cap kept = {}

(* Both: no entry is passed over and none is handed over twice.              *)
DeliveryIsExact == NothingSkipped /\ DeliveredOnceEver

(* Within one life of the consumer the queue gets every entry once and in    *)
(* stream order, across adoption, replay, reads, failed passes and recovery. *)
OnceInOrder ==
  [][ pc \notin {"down", "gaps"} /\ pc' # "down" =>
        LET new == got' \ got
        IN /\ \A i \in new, j \in got : i > j
           /\ position'.index = position.index + Cardinality(new) ]_vars

(* The replay and the group's own reads meet exactly: when the first pass    *)
(* runs, everything retained between the saved position and the group's      *)
(* last-delivered-id has been delivered.                                    *)
ReplayMeetsTheGroup ==
  [][ pc = "replay" /\ pc' = "read" =>
        \A i \in Retained : saved.id < i /\ i <= last => i \in got ]_vars

(* The start-up gap report never understates: it counts at least the entries *)
(* trimmed above the saved position since the last report. The one exception is a store that once  *)
(* joined an existing group without a position, and was seated at the head.  *)
GapIsNotUnderstated ==
  saved # None /\ ~rejoined =>
    Lost >= Cardinality({i \in 1..trimmed : i > saved.id /\ i > reported})

(* Every published entry is in the end delivered, stored, or known lost, or  *)
(* the reader has given up and says so.                                     *)
Settled(i) ==
  \/ i \in got \cup kept \/ i <= trimmed \/ i <= base
  \/ i \in vanished \cup unreplayed \cup early
  \/ pc = "lost"

EverythingSettles == \A i \in Ids : i <= added ~> Settled(i)

----------------------------------------------------------------------------
(* What the documents promise, and the code does not keep.                  *)

(* test_a_pass_that_fails_after_xreadgroup_returned_loses_nothing, and the   *)
(* comment at redis_bus.py:1159: a failed pass costs nothing.                *)
FailedPassLosesNothing ==
  \A i \in (base + 1)..last : Reachable(i) \/ i <= trimmed \/ i \in unreplayed \cup early

(* _replay's own words, "no gap": when the first pass begins, what the saved  *)
(* position and the group had between them was delivered, or was trimmed.    *)
ReplayLeavesNoGap ==
  [][ cursor # -1 /\ pc \in {"positions", "replay"} /\ pc' = "read" =>
        \A i \in Retained : cursor < i /\ i <= last => i \in got ]_vars

(* StreamLag.trimmed_past, "the exact test for a replay gap": the group's    *)
(* position is older than the oldest retained entry.                        *)
TrimmedPast == exists /\ Retained # {} /\ last < trimmed + 1

TrimmedPastIsExact == TrimmedPast => \E i \in 1..trimmed : i > last
=============================================================================
