----------------------------- MODULE StoreWriter -----------------------------
(***************************************************************************)
(* The split store, from the Redis log to the Parquet files: the reader of *)
(* its consumer group (redis_bus.py), BarWriter's drain loop, its sealing, *)
(* its generation commit, and the start-up that recovers and replays       *)
(* (store.py, store_main.py).                                              *)
(*                                                                         *)
(* The process is one event loop and one commit thread.  pc is where the   *)
(* writer's task stands; in "drain" and "sync" it holds the loop and the   *)
(* reader cannot run.  Time is counted in minutes: minute m is over at     *)
(* m + 1, and a tick of the clock is one minute.                           *)
(***************************************************************************)
EXTENDS Naturals, Sequences, FiniteSets

CONSTANTS
  Stream,       (* the streams; each feeds the table of the same name        *)
  Grace,        (* per table: how long after its end a minute stays open     *)
  ReadCount,    (* XREADGROUP's COUNT                                        *)
  Commands,     (* what control.command may carry: a subset of pause, resume *)
  Faults,       (* what may go wrong: crash, stop, flush, clear              *)
  MaxTime, MaxEntries, MaxCommands, MaxFaults     (* bounds                  *)

ASSUME StoreAssumption ==
  /\ IsFiniteSet(Stream) /\ Stream # {}
  /\ Grace \in [Stream -> Nat]
  /\ ReadCount \in Nat \ {0}
  /\ Commands \subseteq {"pause", "resume"}
  /\ Faults \subseteq {"crash", "stop", "flush", "clear"}
  /\ MaxTime \in Nat \ {0} /\ MaxEntries \in Nat /\ MaxCommands \in Nat /\ MaxFaults \in Nat

VARIABLES
  now,          (* the wall clock                                            *)
  log,          (* Redis: per stream, the entries XADDed, [at, minute]       *)
  handed,       (* Redis: the group's last-delivered id                      *)
  disk,         (* the rows in *.parquet, each with its file's generation    *)
  checkpoint,   (* _store-checkpoint.json                                    *)
  intent,       (* the generation _store-flush-intent.json plans; 0: no file *)
  position,     (* reader: positions                                         *)
  replaying,    (* reader: _replay has not finished                          *)
  behind,       (* reader: streams whose last group read came back full      *)
  reached,      (* reader: caught_up_at; NotReached before a short read      *)
  skip,         (* reader: the pause spans it was started with               *)
  queue,        (* the subscription's queue                                  *)
  pc, after,    (* where the writer's task stands; what follows the commit   *)
  drained,      (* prev_positions                                            *)
  caught,       (* _caught_up                                                *)
  open,         (* the aggregators' open bars: the entries folded into them  *)
  sealed,       (* _sealed_through_us                                        *)
  origins,      (* per minute, prev_positions when it was first folded       *)
  buffer,       (* the four stores' _buffer                                  *)
  recording, spans,   (* recording, pause_spans                              *)
  pending,      (* _pending_commands                                         *)
  generation,   (* committed_generation                                      *)
  plan,         (* the commit in flight                                      *)
  folded, dropped, lapses,   (* history; see the end of this module          *)
  sent, faults               (* commands and faults spent                    *)

world == <<now, log>>
durable == <<disk, checkpoint, intent>>
reader == <<position, replaying, behind, reached, skip>>
bars == <<open, sealed, origins, buffer>>
control == <<recording, spans, pending>>
commit == <<after, generation, plan>>
history == <<folded, dropped, lapses>>
vars == <<world, handed, durable, reader, queue, pc, drained, caught, bars,
          control, commit, history, sent, faults>>

NotReached == MaxEntries + 1        (* above every position *)
Open == MaxEntries + 1              (* the end of a span that has none *)
Nothing == [s \in Stream |-> {}]
Start == [s \in Stream |-> 0]
MinOf(S) == CHOOSE x \in S : \A y \in S : x <= y
MaxOf(S) == CHOOSE x \in S : \A y \in S : y <= x
Everywhere(n) == [s \in Stream |-> n]
Lapse(name, happens) == IF happens THEN {name} ELSE {}

Minute(s, i) == log[s][i].minute
Length(s) == Len(log[s])
Entries == UNION {{<<s, i>> : i \in 1 .. Length(s)} : s \in Stream}
QueueEmpty == queue = Nothing
Running == pc # "down"
LoopIsFree == pc \in {"take", "plan", "files", "checkpoint", "clear", "dead"}

NoPlan == [generation |-> 0, rows |-> Nothing, positions |-> Start, sealed |-> Start]

Init ==
  /\ now = 1 /\ log = [s \in Stream |-> <<>>] /\ handed = Start
  /\ disk = {} /\ intent = 0
  /\ checkpoint = [generation |-> 0, positions |-> Start, sealed |-> Start,
                   recording |-> TRUE, spans |-> <<>>]
  /\ position = Start /\ replaying = FALSE
  /\ behind = {} /\ reached = Everywhere(NotReached) /\ skip = <<>>
  /\ queue = Nothing /\ pc = "take" /\ after = "pass"
  /\ drained = Start /\ caught = {}
  /\ open = Nothing /\ sealed = Start /\ origins = [m \in {} |-> Start]
  /\ buffer = Nothing
  /\ recording = TRUE /\ spans = <<>> /\ pending = <<>>
  /\ generation = 0 /\ plan = NoPlan
  /\ folded = Nothing /\ dropped = Nothing /\ lapses = {}
  /\ sent = 0 /\ faults = 0

-----------------------------------------------------------------------------
(* The feed publishes: only what the tables' graces still admit.             *)
Publish(s) ==
  /\ Cardinality(Entries) < MaxEntries
  /\ \E m \in 1 .. now :
        /\ now <= m + Grace[s]
        /\ log' = [log EXCEPT ![s] = Append(@, [at |-> now, minute |-> m])]
  /\ UNCHANGED <<now, handed, durable, reader, queue, pc, drained, caught, bars,
                 control, commit, history, sent, faults>>

(* A minute passes.  A reader that has caught up delivers, and a writer at its  *)
(* take folds, well within a grace: only a commit, or being down or behind,     *)
(* outlasts one.                                                                *)
Tick ==
  /\ now < MaxTime
  /\ pc \notin {"drain", "sync"}
  /\ Running => \A s \in Stream : reached[s] # NotReached => position[s] = Length(s)
  /\ pc = "take" => QueueEmpty
  /\ now' = now + 1
  /\ UNCHANGED <<log, handed, durable, reader, queue, pc, drained, caught, bars,
                 control, commit, history, sent, faults>>

(* consume_control hands a command over. *)
SendCommand ==
  /\ LoopIsFree
  /\ sent < MaxCommands
  /\ \E c \in Commands : pending' = Append(pending, c)
  /\ sent' = sent + 1
  /\ UNCHANGED <<world, handed, durable, reader, queue, pc, drained, caught, bars,
                 recording, spans, commit, history, faults>>

-----------------------------------------------------------------------------
(* Variant: loses the last entry of a span. *)
HiddenShort(list, s, i, inReplay) ==
  \E k \in DOMAIN list :
     /\ list[k].from[s] < i
     /\ IF list[k].to[s] = Open THEN inReplay ELSE i < list[k].to[s]

(* _in_skip_span.  A span without an end hides only what is replayed. *)
Hidden(list, s, i, inReplay) ==
  \E k \in DOMAIN list :
     /\ list[k].from[s] < i
     /\ IF list[k].to[s] = Open THEN inReplay ELSE i <= list[k].to[s]

(* _deliver: the next n[s] entries of every stream, the hidden ones left out. *)
Deliver(n) ==
  LET batch(s) == position[s] + 1 .. position[s] + n[s]
      hidden(s) == {i \in batch(s) : Hidden(skip, s, i, replaying)}
  IN /\ position' = [s \in Stream |-> position[s] + n[s]]
     /\ queue' = [s \in Stream |-> queue[s] \cup (batch(s) \ hidden(s))]
     /\ dropped' = [s \in Stream |-> dropped[s] \cup (hidden(s) \ folded[s])]

(* One XREAD of _replay: what precedes the group's position, no further. *)
ReplayBatch(s) == MinOf({ReadCount, handed[s] - position[s]})
ReplayRead ==
  /\ LoopIsFree
  /\ replaying /\ position # handed
  /\ Deliver([s \in Stream |-> ReplayBatch(s)])
  /\ UNCHANGED <<world, handed, durable, replaying, behind, reached, skip, pc,
                 drained, caught, bars, control, commit, folded, lapses, sent, faults>>

ReplayDone ==
  /\ LoopIsFree
  /\ replaying /\ position = handed
  /\ replaying' = FALSE
  /\ UNCHANGED <<world, handed, durable, position, behind, reached, skip, queue, pc,
                 drained, caught, bars, control, commit, history, sent, faults>>

(* Variant: a read of nothing proves nothing. *)
ShortOnlyIfAny(n) == {s \in Stream : n[s] \in 1 .. ReadCount - 1}

(* One XREADGROUP of every stream, acked and delivered.  Less than COUNT       *)
(* entries of a stream, none included, is everything it held.                  *)
Short(n) == {s \in Stream : n[s] < ReadCount}
GroupRead ==
  LET n == [s \in Stream |-> MinOf({ReadCount, Length(s) - handed[s]})] IN
  /\ LoopIsFree /\ ~replaying
  /\ Deliver(n)
  /\ handed' = position'
  /\ behind' = {s \in Stream : n[s] = ReadCount}
  /\ reached' = [s \in Stream |-> IF s \in Short(n) THEN position'[s] ELSE reached[s]]
  /\ UNCHANGED <<world, durable, replaying, skip, pc, drained, caught, bars, control,
                 commit, folded, lapses, sent, faults>>

-----------------------------------------------------------------------------
(* run: take, then take_nowait until the queue is empty, each into ingest,     *)
(* and _finish_drain_pass.  A writer that is not recording drops them; an      *)
(* entry of a sealed minute is refused as late.                                *)
Drain ==
  LET fresh(s) == {i \in queue[s] : Minute(s, i) > sealed[s]}
      minutes == UNION {{Minute(s, i) : i \in fresh(s)} : s \in Stream}
  IN
  /\ pc \in {"take", "drain"}
  /\ IF recording
     THEN /\ open' = [s \in Stream |-> open[s] \cup fresh(s)]
          /\ origins' = [m \in DOMAIN origins \cup minutes |->
                           IF m \in DOMAIN origins THEN origins[m] ELSE drained]
          /\ folded' = [s \in Stream |-> folded[s] \cup fresh(s)]
          /\ UNCHANGED <<dropped, lapses>>
     ELSE /\ dropped' = [s \in Stream |-> dropped[s] \cup (queue[s] \ folded[s])]
          /\ lapses' = lapses \cup
               Lapse("abandoned", \E s \in Stream : fresh(s) \cap folded[s] # {})
          /\ UNCHANGED <<open, origins, folded>>
  /\ queue' = Nothing
  /\ drained' = position
  /\ pc' = "sync"
  /\ UNCHANGED <<world, handed, durable, reader, caught, sealed, buffer, control,
                 commit, sent, faults>>

(* _drained_positions, catching_up_streams and seal_clock.                     *)
DrainedAt == IF QueueEmpty THEN position ELSE drained
CaughtUp == caught \cup {s \in Stream : reached[s] <= DrainedAt[s]}
LogTime(s, i) == IF i = 0 THEN 0 ELSE log[s][i].at
BehindStreams == IF replaying THEN Stream ELSE behind

(* Variant: the wall clock, whatever the readers have read. *)
WallClock == now

SealClock ==
  MinOf({now} \cup {LogTime(s, position[s]) : s \in BehindStreams}
              \cup {LogTime(s, DrainedAt[s]) : s \in Stream \ CaughtUp})

(* _seal: every table on its own watermark, which moves whether or not         *)
(* anything was open; the sealed bars go to the stores' buffers.               *)
SealedThrough(s, t) ==
  IF t > Grace[s] + 1 + sealed[s] THEN t - 1 - Grace[s] ELSE sealed[s]
BarsOf(s, entries) ==
  {[table |-> s, minute |-> m, entries |-> {i \in entries : Minute(s, i) = m}] :
      m \in {Minute(s, i) : i \in entries}}
Seal(others) ==
  LET t == SealClock
      through == [s \in Stream |-> SealedThrough(s, t)]
      closing(s) == {i \in open[s] : Minute(s, i) <= through[s]}
  IN /\ sealed' = through
     /\ open' = [s \in Stream |-> open[s] \ closing(s)]
     /\ buffer' = [s \in Stream |-> buffer[s] \cup BarsOf(s, closing(s))]
     /\ caught' = CaughtUp
     /\ lapses' = lapses \cup others \cup
          Lapse("straddled", \E s \in Stream : \E i \in queue[s] :
                                Minute(s, i) \in sealed[s] + 1 .. through[s])

(* The first pending command, applied, sealed and about to be committed.  A    *)
(* pause opens a span; a resume ends the newest span that is open.             *)
OpenSpans == {k \in DOMAIN spans : spans[k].to = Everywhere(Open)}
ApplyCommand ==
  /\ pc = "sync" /\ pending # <<>>
  /\ \/ /\ Head(pending) = "pause"
        /\ recording' = FALSE
        /\ spans' = Append(spans, [from |-> position, to |-> Everywhere(Open)])
     \/ /\ Head(pending) = "resume"
        /\ recording' = TRUE
        /\ spans' = IF OpenSpans = {} THEN spans
                     ELSE [spans EXCEPT ![MaxOf(OpenSpans)].to = position]
  /\ pending' = Tail(pending)
  /\ Seal(Lapse("misplaced", ~QueueEmpty) \cup Lapse("premature", replaying) \cup
          Lapse("nested", Head(pending) = "pause" /\ OpenSpans # {}))
  /\ pc' = "plan" /\ after' = "commands"
  /\ UNCHANGED <<world, handed, durable, reader, queue, drained, origins, generation,
                 plan, folded, dropped, sent, faults>>

(* The next take parks the task only if the queue is empty.                    *)
Park == pc' = IF QueueEmpty THEN "take" ELSE "drain"

(* A paused pass ends there. *)
PausedPass ==
  /\ pc = "sync" /\ pending = <<>> /\ ~recording
  /\ Park
  /\ UNCHANGED <<world, handed, durable, reader, queue, drained, caught, bars, control,
                 commit, history, sent, faults>>

(* replay_positions: the earliest origin of a minute that is still open.       *)
OpenMinutes == UNION {{Minute(s, i) : i \in open[s]} : s \in Stream}
ReplayPositions ==
  IF OpenMinutes = {} THEN position
  ELSE [s \in Stream |-> MinOf({origins[m][s] : m \in OpenMinutes})]

(* A recording one seals, and commits when the flush interval is over: at any  *)
(* pass here.  A commit that would repeat the checkpoint is left out.          *)
WorthCommitting ==
  \/ buffer # Nothing
  \/ sealed # checkpoint.sealed \/ ReplayPositions # checkpoint.positions
SealPass ==
  /\ pc = "sync" /\ pending = <<>> /\ recording
  /\ Seal({})
  /\ UNCHANGED <<world, handed, durable, reader, queue, drained, origins, control,
                 generation, plan, folded, dropped, sent, faults>>
  /\ \/ Park /\ UNCHANGED after
     \/ pc' = "plan" /\ after' = "pass" /\ WorthCommitting'

-----------------------------------------------------------------------------
(* _commit, on its thread: the plan and the intent.                            *)
CommitPlan ==
  /\ pc = "plan"
  /\ plan' = [generation |-> generation + 1, rows |-> buffer,
              positions |-> ReplayPositions, sealed |-> sealed]
  /\ intent' = generation + 1
  /\ lapses' = lapses \cup Lapse("overtaken", OpenMinutes = {} /\ ~QueueEmpty)
  /\ pc' = "files"
  /\ UNCHANGED <<world, handed, disk, checkpoint, reader, queue, drained, caught, bars,
                 control, after, generation, folded, dropped, sent, faults>>

(* One store's flush: all its files or none, and then its buffer is dropped.   *)
FlushTable(s) ==
  /\ pc = "files"
  /\ buffer[s] # {}
  /\ disk' = disk \cup {[gen |-> plan.generation, row |-> r] : r \in buffer[s]}
  /\ buffer' = [buffer EXCEPT ![s] = {}]
  /\ UNCHANGED <<world, handed, checkpoint, intent, reader, queue, pc, drained, caught,
                 open, sealed, origins, control, commit, history, sent, faults>>

WriteCheckpoint ==
  /\ pc = "files" /\ buffer = Nothing
  /\ checkpoint' = [generation |-> plan.generation, positions |-> plan.positions,
                    sealed |-> plan.sealed, recording |-> recording, spans |-> spans]
  /\ generation' = plan.generation
  /\ pc' = "clear"
  /\ UNCHANGED <<world, handed, disk, intent, reader, queue, drained, caught, bars,
                 control, after, plan, history, sent, faults>>

(* What follows a commit, by who asked for it.                                 *)
Return ==
  /\ pc' = [pass |-> "drain", commands |-> "sync", stop |-> "down"][after]
  /\ after' = "pass" /\ plan' = NoPlan

ClearIntent ==
  /\ pc = "clear"
  /\ intent' = 0
  /\ origins' = [m \in {k \in DOMAIN origins : \E s \in Stream : sealed[s] < k} |->
                   origins[m]]
  /\ Return
  /\ UNCHANGED <<world, handed, disk, checkpoint, reader, queue, drained, caught, open,
                 sealed, buffer, control, generation, history, sent, faults>>

(* The handler: the generation's files are removed and the buffers put back.   *)
(* _maybe_flush swallows the exception; a command's commit lets it end run.    *)
RollBack ==
  /\ disk' = {f \in disk : f.gen # plan.generation}
  /\ buffer' = plan.rows
  /\ intent' = 0

CommitFails ==
  /\ "flush" \in Faults /\ faults < MaxFaults
  /\ pc = "files"
  /\ RollBack
  /\ pc' = [pass |-> "drain", commands |-> "dead", stop |-> "down"][after]
  /\ after' = "pass" /\ plan' = NoPlan
  /\ lapses' = lapses \cup Lapse("dead", after = "commands")
  /\ faults' = faults + 1
  /\ UNCHANGED <<world, handed, checkpoint, reader, queue, drained, caught, open, sealed,
                 origins, control, generation, folded, dropped, sent>>

(* clear_intent raises after the checkpoint is written: the handler runs all   *)
(* the same, and its own clear_intent may raise again before the buffers are   *)
(* put back.                                                                   *)
ClearFails ==
  /\ "clear" \in Faults /\ faults < MaxFaults
  /\ pc = "clear" /\ after = "pass"
  /\ \/ RollBack
     \/ /\ disk' = {f \in disk : f.gen # plan.generation}
        /\ UNCHANGED <<buffer, intent>>
  /\ pc' = "drain"
  /\ lapses' = lapses \cup {"cleanup"}
  /\ plan' = NoPlan
  /\ faults' = faults + 1
  /\ UNCHANGED <<world, handed, checkpoint, reader, queue, drained, caught, open, sealed,
                 origins, control, after, generation, folded, dropped, sent>>

-----------------------------------------------------------------------------
(* _close_process: run is cancelled, aclose seals and commits.                 *)
Stop ==
  /\ "stop" \in Faults /\ faults < MaxFaults
  /\ pc \in {"take", "dead"}
  /\ Seal({})
  /\ pc' = "plan" /\ after' = "stop"
  /\ faults' = faults + 1
  /\ UNCHANGED <<world, handed, durable, reader, queue, drained, origins, control,
                 generation, plan, folded, dropped, sent>>

(* The process dies.  Only Redis and the files remain.                         *)
Crash ==
  /\ "crash" \in Faults /\ faults < MaxFaults
  /\ Running
  /\ pc' = "down"
  /\ position' = Start /\ replaying' = FALSE /\ behind' = {} /\ skip' = <<>>
  /\ reached' = Everywhere(NotReached)
  /\ queue' = Nothing /\ drained' = Start /\ caught' = {}
  /\ open' = Nothing /\ sealed' = Start /\ buffer' = Nothing
  /\ origins' = [m \in {} |-> Start]
  /\ recording' = TRUE /\ spans' = <<>> /\ pending' = <<>>
  /\ after' = "pass" /\ generation' = 0 /\ plan' = NoPlan
  /\ faults' = faults + 1
  /\ UNCHANGED <<world, handed, durable, history, sent>>

(* recover_intent, and the watermarks restore_checkpoint restores.             *)
Recovered ==
  IF intent > checkpoint.generation THEN {f \in disk : f.gen # intent} ELSE disk
Watermarks == checkpoint.sealed

(* _prepare_process: recover, restore, subscribe at the checkpoint, replay.    *)
Restart ==
  /\ pc = "down"
  /\ disk' = Recovered
  /\ intent' = 0
  /\ generation' = checkpoint.generation
  /\ sealed' = Watermarks
  /\ recording' = checkpoint.recording
  /\ spans' = checkpoint.spans /\ skip' = checkpoint.spans
  /\ position' = checkpoint.positions /\ drained' = checkpoint.positions
  /\ replaying' = TRUE /\ behind' = {} /\ reached' = Everywhere(NotReached)
  /\ caught' = {}
  /\ queue' = Nothing /\ open' = Nothing /\ buffer' = Nothing
  /\ origins' = [m \in {} |-> Start]
  /\ pending' = <<>>
  /\ pc' = "take" /\ after' = "pass" /\ plan' = NoPlan
  /\ UNCHANGED <<world, handed, checkpoint, history, sent, faults>>

WriterStep ==
  \/ Drain \/ ApplyCommand \/ PausedPass \/ SealPass
  \/ CommitPlan \/ (\E s \in Stream : FlushTable(s)) \/ WriteCheckpoint \/ ClearIntent
ReaderStep == ReplayRead \/ ReplayDone \/ GroupRead

Next ==
  \/ WriterStep \/ ReaderStep \/ Restart
  \/ Tick \/ (\E s \in Stream : Publish(s)) \/ SendCommand
  \/ CommitFails \/ ClearFails \/ Stop \/ Crash

Spec == Init /\ [][Next]_vars

(* The event loop runs every ready task in turn, so neither the reader nor the *)
(* clock waits for ever behind the writer's passes, which hold the loop only   *)
(* for a moment; a flush interval ends; a dead process is started again.       *)
Flush == SealPass /\ pc' = "plan"
FairSpec ==
  /\ Spec
  /\ WF_vars(WriterStep) /\ SF_vars(Flush)
  /\ SF_vars(ReaderStep) /\ SF_vars(Tick)
  /\ WF_vars(Restart)

-----------------------------------------------------------------------------
(* The shape of the state, and the order of the marks on each stream: nothing  *)
(* is folded before it is delivered, delivered before it is logged, or read    *)
(* twice by the replay and the group between them.                             *)
Index == 1 .. MaxEntries
Row == [table : Stream, minute : 1 .. MaxTime, entries : SUBSET Index]
TypeOK ==
  /\ now \in 1 .. MaxTime + 1
  /\ \A s \in Stream :
        /\ log[s] \in Seq([at : 1 .. now, minute : 1 .. now])
        /\ checkpoint.positions[s] <= handed[s] /\ handed[s] <= Length(s)
        /\ drained[s] <= position[s] /\ position[s] <= handed[s]
        /\ queue[s] \subseteq drained[s] + 1 .. position[s]
        /\ open[s] \subseteq 1 .. drained[s]
        /\ sealed[s] \in 0 .. now /\ buffer[s] \subseteq Row
  /\ \A f \in disk : f.gen \in Nat /\ f.row \in Row
  /\ checkpoint.generation \in Nat /\ checkpoint.recording \in BOOLEAN
  /\ intent \in Nat /\ generation \in Nat
  /\ pc \in {"take", "drain", "sync", "plan", "files", "clear", "dead", "down"}
  /\ after \in {"pass", "commands", "stop"}
  /\ recording \in BOOLEAN /\ replaying \in BOOLEAN
  /\ behind \subseteq Stream /\ caught \subseteq Stream

(* What a restart has to go by: the rows in files the checkpoint has taken     *)
(* over, and the entries it will read again.  An entry that had been folded is *)
(* not safe behind a pause span, which the replay would skip.                  *)
Committed == {f.row : f \in {g \in disk : g.gen <= checkpoint.generation}}
OnDisk(s, i) == \E r \in Committed : r.table = s /\ i \in r.entries
Replayable(s, i) ==
  /\ checkpoint.positions[s] < i
  /\ Hidden(checkpoint.spans, s, i, TRUE) => i \notin folded[s]
Safe ==
  \A s \in Stream : \A i \in 1 .. Length(s) :
    i \in dropped[s] \/ OnDisk(s, i) \/ Replayable(s, i)

(* No minute is stored twice: whatever has been flushed, rolled back, replayed *)
(* and flushed again, a table holds one row for a minute (0010, R3).           *)
NeverDoubled ==
  \A f, g \in disk : f.row.table = g.row.table /\ f.row.minute = g.row.minute => f = g

(* Nothing is lost: at any instant the process may die, and every entry that   *)
(* was published while recording is in a committed file or will be replayed.   *)
(* `lapses' names the eight situations in which the code does lose entries;    *)
(* this says that there is no ninth.                                           *)
NothingLost == lapses = {} => Safe

(* Both: what a restart has to go by is the record, once.                      *)
RecordIsExact == NeverDoubled /\ NothingLost

(* A resume invents nothing: no row holds an entry that was published while    *)
(* recording was off, in this process or the one before it.                    *)
NothingInvented ==
  lapses = {} => \A f \in disk : f.row.entries \cap dropped[f.row.table] = {}

(* Every file the checkpoint does not vouch for is in the flush intent, so     *)
(* that a start-up can find and remove it before it writes the rows again.     *)
UncommittedIsPlanned ==
  \A f \in disk : f.gen > checkpoint.generation => intent = f.gen

(* A committed row stays as it is: no rollback and no recovery takes a file    *)
(* the checkpoint has already moved past.                                      *)
CommittedStays == [][lapses' # {} \/ Committed \subseteq Committed']_vars

(* A reader of the committed files sees a recorded log: the promise of          *)
(* RecordedLog, for the entries of every stream and the rows of every table.     *)
Entry(s, i) == [table |-> s, minute |-> Minute(s, i), id |-> i]
Logged == UNION {{Entry(s, i) : i \in 1 .. Length(s)} : s \in Stream}
Refused == UNION {{Entry(s, i) : i \in dropped[s]} : s \in Stream}
Log == INSTANCE RecordedLog WITH
  published <- Logged, refused <- Refused, rows <- Committed, excused <- lapses # {}
IsARecordedLog == Log!Spec

(* Every entry whose minute is over reaches a committed file, across a crash   *)
(* and whatever the reader and the clock do meanwhile.                         *)
Settles ==
  \A s \in Stream : \A i \in Index :
    (<<s, i>> \in Entries /\ log[s][i].minute + 1 + Grace[s] <= MaxTime)
      ~> (OnDisk(s, i) \/ lapses # {})

-----------------------------------------------------------------------------
(* What the repository says of the situations in `lapses', each violated.      *)

(* "Never lost while Redis still holds it": with no minute open, the commit    *)
(* records the reader's position, which is past entries still in the queue.    *)
ReplayLosesNothing == lapses \subseteq {"overtaken"} => Safe
(* The minute open at a pause is written on resume: not if the store restarted *)
(* in between, for it comes up paused and drops what it replays.               *)
PauseKeepsTheOpenMinute == lapses \subseteq {"abandoned"} => Safe
(* A second pause is no error: it opens a second span, the resume ends one of  *)
(* the two, and the next replay skips everything after the other.              *)
PauseTwiceIsNoError == lapses \subseteq {"nested"} => Safe
(* A command behind another takes the reader's position for its span, past     *)
(* entries that are folded afterwards and then skipped by a replay.            *)
CommandsKeepTheirPlace == lapses \subseteq {"misplaced"} => Safe
(* A pause in the middle of a replay takes the rest of it for paused.          *)
PauseSparesTheReplay == lapses \subseteq {"premature"} => Safe
(* A pass seals on the wall clock after a command's commit, before it drains   *)
(* what arrived, on time, during it.                                           *)
NoMinuteClosesEarly == lapses \subseteq {"straddled"} => Safe
(* "Nothing is lost to the failure itself": a clear_intent that raises after   *)
(* the checkpoint has the handler remove committed files.                      *)
FailedCleanupLosesNothing == lapses \subseteq {"cleanup"} => Safe
(* "A failed flush must not kill the writer": a command's commit does.         *)
AFailedFlushSparesTheWriter == pc # "dead"
=============================================================================
