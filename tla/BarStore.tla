------------------------------ MODULE BarStore ------------------------------
(***************************************************************************)
(* One table of BarStore in store.py and who meets there: the writer's loop   *)
(* that seals and flushes, the pause of POST /recording and the shutdown,     *)
(* which flush beside it, and the reads that take the files and the rows not  *)
(* yet in one. In the monolith a read finds those rows in the store's own     *)
(* buffer; in the split, in the BarBuffer of the api (bar_buffer.py), which    *)
(* folds the bars the store publishes as it seals them.                      *)
(*                                                                         *)
(* Time counts minutes, every minute recorded gives one bar, and a bar is its *)
(* minute. A file is what it holds and its name: its earliest minute and its   *)
(* ordinal, or in the split its generation. Checkpoint and intent are         *)
(* StoreWriter's; here the split differs in what a crash leaves.             *)
(***************************************************************************)
EXTENDS Integers, Sequences, FiniteSets

CONSTANTS
  FlushEvery,  \* FLUSH_SECONDS, in minutes
  Horizon,     \* BUFFER_HORIZON_SECONDS, in minutes
  Slack,       \* minutes a due flush may still take to be in its file
  MaxMinute,   \* bound: the clock
  MaxFaults    \* bound: failed flushes, crashes and pauses

ASSUME StoreAssumption ==
  /\ {FlushEvery, Horizon} \subseteq Nat \ {0}
  /\ {Slack, MaxMinute, MaxFaults} \subseteq Nat
  /\ FlushEvery + Slack <= Horizon  \* one interval and the headroom

Threads == {"run", "pause", "close"}

VARIABLES
  composition,  \* monolith or split
  clock,        \* the minute now open
  recording,    \* BarWriter.recording
  writer,       \* the writer's task: running, closing or closed
  unsealed,     \* minutes the aggregator holds
  lastFlush,    \* _last_flush
  buffer,       \* BarStore._buffer
  flushes,      \* the ordinal, or the generation, of the last flush that landed
  flush,        \* per thread that flushes, where it is and what it took
  disk,         \* the files
  events,       \* md.option_bar on its stream, not yet applied
  held,         \* the bars of the api's BarBuffer
  newest,       \* its newest_minute
  read,         \* the read under way
  recorded,     \* history: minutes with a tick folded
  shown,        \* history: minutes some read has answered
  missing,      \* history: minutes a read should have answered, and did not
  raced,        \* history: a bar was added, or a flush begun, during a flush
  delayed,      \* history: a flush failed, or the store died, and none landed since
  faults        \* bound: faults so far

store == <<writer, unsealed, lastFlush, buffer, flushes, flush, disk, recording>>
api == <<events, held, newest>>
storeVars == <<composition, clock, store, api, read, recorded, shown, missing, raced, delayed, faults>>

Idle == [at |-> "idle", rows |-> {}, name |-> <<0, 0>>]
NoRead == [at |-> "idle", files |-> FALSE, due |-> {}, pending |-> {}]

StoreInit ==
  /\ composition \in {"monolith", "split"}
  /\ clock = 1 /\ recording = TRUE /\ writer = "running"
  /\ unsealed = {1} /\ recorded = {1} /\ lastFlush = 1
  /\ buffer = {} /\ flushes = 0 /\ disk = {}
  /\ flush = [t \in Threads |-> Idle]
  /\ events = <<>> /\ held = {} /\ newest = 0
  /\ read = NoRead /\ shown = {} /\ missing = {}
  /\ raced = FALSE /\ delayed = FALSE /\ faults = 0

Fault == faults < MaxFaults /\ faults' = faults + 1

----------------------------------------------------------------------------
Min(S) == CHOOSE m \in S : \A i \in S : m <= i
Max(S) == CHOOSE m \in S : \A i \in S : m >= i
Rows(files) == UNION {f.rows : f \in files}
Flushing == {t \in Threads : flush[t].at # "idle"}
Ascending(S) == CHOOSE s \in [1..Cardinality(S) -> S] : \A i, j \in DOMAIN s : i < j => s[i] < s[j]

Due == clock - lastFlush >= FlushEvery

(* A minute passes. The writer's pass and its flush take less than Slack; a    *)
(* pause lasts as long as it likes.                                         *)
MinutePasses ==
  /\ clock < MaxMinute
  /\ recording /\ writer = "running" => clock - lastFlush < FlushEvery + Slack
  /\ Flushing # {} => clock - lastFlush < Slack
  /\ clock' = clock + 1
  /\ IF recording /\ writer = "running"
       THEN unsealed' = unsealed \cup {clock + 1} /\ recorded' = recorded \cup {clock + 1}
       ELSE UNCHANGED <<unsealed, recorded>>
  /\ UNCHANGED <<composition, recording, writer, lastFlush, buffer, flushes, flush, disk, api,
                 read, shown, missing, raced, delayed, faults>>

(* _hand_to_store: what is sealed is added to the buffer's list and, in the   *)
(* split, published.                                                        *)
HandOver(bars) ==
  /\ buffer' = buffer \cup bars
  /\ events' = IF composition = "split" THEN events \o Ascending(bars) ELSE events

Sealable == {m \in unsealed : m < clock}

(* to_thread: the thread looks at the buffer later.                          *)
Begun(t) == flush' = [flush EXCEPT ![t] = [Idle EXCEPT !.at = "begun"]]

(* One pass of run: seal, and flush if the interval has elapsed.             *)
Pass ==
  /\ writer = "running" /\ recording
  /\ flush["run"].at = "idle"
  /\ Sealable # {} \/ Due
  /\ HandOver(Sealable) /\ unsealed' = unsealed \ Sealable
  /\ IF Due THEN Begun("run") /\ lastFlush' = clock ELSE UNCHANGED <<flush, lastFlush>>
  /\ raced' = (raced \/ (Flushing # {} /\ (Sealable # {} \/ Due)))
  /\ UNCHANGED <<composition, clock, recording, writer, flushes, disk, held, newest, read, recorded,
                 shown, missing, delayed, faults>>

(* set_recording(False): a task of its own in the monolith; in the split the  *)
(* command is applied by run between two passes.                             *)
Pause ==
  /\ Fault
  /\ writer = "running"
  /\ LET t == IF composition = "monolith" THEN "pause" ELSE "run"
     IN  flush[t].at = "idle" /\ Begun(t)
  /\ recording' = FALSE
  /\ lastFlush' = clock
  /\ HandOver(Sealable) /\ unsealed' = unsealed \ Sealable
  /\ raced' = (raced \/ Flushing # {})
  /\ UNCHANGED <<composition, clock, writer, flushes, disk, held, newest, read, recorded, shown,
                 missing, delayed>>

(* set_recording(True) raises the flag and no more. In the split the command   *)
(* seals the minute left open at the pause, and flushes, as a pause does.      *)
FlagRaised ==
  /\ unsealed' = unsealed \cup {clock}
  /\ UNCHANGED <<buffer, events, flush, lastFlush, raced>>

ResumeApplied ==
  /\ flush["run"].at = "idle" /\ Begun("run")
  /\ HandOver(Sealable) /\ unsealed' = (unsealed \ Sealable) \cup {clock}
  /\ lastFlush' = clock
  /\ raced' = (raced \/ Flushing # {})

Resume ==
  /\ ~recording /\ writer = "running"
  /\ recording' = TRUE
  /\ recorded' = recorded \cup {clock}
  /\ IF composition = "monolith" THEN FlagRaised ELSE ResumeApplied
  /\ UNCHANGED <<composition, clock, writer, flushes, disk, held, newest, read, shown, missing,
                 delayed, faults>>

(* The shutdown cancels run, whose thread goes on, and closes: the monolith   *)
(* drains the open minute too, the split leaves it to the replay.            *)
Close ==
  /\ writer = "running" /\ writer' = "closing"
  /\ LET bars == IF composition = "monolith" THEN unsealed ELSE Sealable
     IN  HandOver(bars) /\ unsealed' = unsealed \ bars
  /\ Begun("close")
  /\ lastFlush' = clock
  /\ raced' = (raced \/ Flushing # {})
  /\ UNCHANGED <<composition, clock, recording, flushes, disk, held, newest, read, recorded, shown,
                 missing, delayed, faults>>

----------------------------------------------------------------------------
(* _flush_buffer, in its thread.                                            *)
Ended(t) ==
  /\ flush' = [flush EXCEPT ![t] = Idle]
  /\ writer' = IF t = "close" THEN "closed" ELSE writer

Nothing(t) ==
  /\ flush[t].at = "begun" /\ buffer = {}
  /\ Ended(t)
  /\ UNCHANGED <<composition, clock, recording, unsealed, lastFlush, buffer, flushes, disk, api, read,
                 recorded, shown, missing, raced, delayed, faults>>

(* The rows it will write are those of the list as it is now; the list itself *)
(* stays in place.                                                          *)
Taken == [at |-> "writing", rows |-> buffer, name |-> <<Min(buffer), flushes + 1>>]

BufferEmptied == {}
BufferKept == buffer

Take(t) ==
  /\ flush[t].at = "begun" /\ buffer # {}
  /\ flush' = [flush EXCEPT ![t] = Taken]
  /\ buffer' = BufferKept
  /\ UNCHANGED <<composition, clock, recording, writer, unsealed, lastFlush, flushes, disk, api, read,
                 recorded, shown, missing, raced, delayed, faults>>

(* os.replace: a file of the same name is overwritten.                       *)
File(t) == [name |-> flush[t].name, rows |-> flush[t].rows]
Without(name) == {f \in disk : f.name # name}

Land(t) ==
  /\ flush[t].at = "writing"
  /\ disk' = Without(flush[t].name) \cup {File(t)}
  /\ flush' = [flush EXCEPT ![t].at = "landed"]
  /\ UNCHANGED <<composition, clock, recording, writer, unsealed, lastFlush, buffer, flushes, api,
                 read, recorded, shown, missing, raced, delayed, faults>>

(* The buffer is replaced by an empty one.                                   *)
End(t) ==
  /\ flush[t].at = "landed"
  /\ buffer' = {}
  /\ flushes' = flush[t].name[2]
  /\ Ended(t)
  /\ delayed' = FALSE
  /\ UNCHANGED <<composition, clock, recording, unsealed, lastFlush, disk, api, read, recorded, shown,
                 missing, raced, faults>>

(* It failed, before or after a file was in place, and buffer and ordinal are *)
(* as they were. The monolith's _discard removes what was published, best     *)
(* effort. The split's commit removes every planned file and puts its copies  *)
(* of the buffers back; a removal that fails in its turn, which leaves them    *)
(* emptied, is left out.                                                    *)
OrdinalKept(t) == flushes

RolledBack(t) ==
  IF composition = "split"
    THEN {Without(flush[t].name)}
    ELSE {disk} \cup (IF flush[t].at = "landed" THEN {Without(flush[t].name)} ELSE {})

Fails(t) ==
  /\ Fault
  /\ flush[t].at \in {"writing", "landed"}
  /\ disk' \in RolledBack(t)
  /\ flushes' = OrdinalKept(t)
  /\ Ended(t)
  /\ delayed' = TRUE
  /\ UNCHANGED <<composition, clock, recording, unsealed, lastFlush, buffer, api, read, recorded, shown,
                 missing, raced>>

(* The split's store dies and is started again. What no checkpoint vouches    *)
(* for is removed, and the minutes not in a file are open again from the log. *)
Restart ==
  /\ Fault
  /\ composition = "split" /\ writer = "running"
  /\ disk' = {f \in disk : f.name[2] <= flushes}
  /\ unsealed' = recorded \ Rows(disk')
  /\ buffer' = {} /\ flush' = [t \in Threads |-> Idle]
  /\ lastFlush' = clock
  /\ delayed' = TRUE
  /\ UNCHANGED <<composition, clock, recording, writer, flushes, api, read, recorded, shown, missing,
                 raced>>

----------------------------------------------------------------------------
(* BarBuffer.apply: a bar replaces the one of its minute, and those older     *)
(* than the horizon, counted from the newest minute folded, go.              *)
OneInterval(m, top) == m > top - FlushEvery
Keeps(m, top) == m >= top - Horizon

Apply ==
  /\ events # <<>>
  /\ events' = Tail(events)
  /\ newest' = Max({newest, Head(events)})
  /\ held' = {m \in held \cup {Head(events)} : Keeps(m, newest')}
  /\ UNCHANGED <<composition, clock, store, read, recorded, shown, missing, raced, delayed, faults>>

----------------------------------------------------------------------------
(* scan_and_pending: scan looks whether there is any file at all, pending     *)
(* copies the rows not in one, and the files are read when the query runs.   *)
Answerable ==
  shown \cup (IF composition = "monolith" THEN recorded \ unsealed ELSE held \cup Rows(disk))

Scan ==
  /\ read.at = "idle"
  /\ read' = [NoRead EXCEPT !.at = "scanned", !.files = disk # {}, !.due = Answerable]
  /\ UNCHANGED <<composition, clock, store, api, recorded, shown, missing, raced, delayed, faults>>

Pending ==
  /\ read.at = "scanned"
  /\ read' = [read EXCEPT !.at = "pending",
                          !.pending = IF composition = "monolith" THEN buffer ELSE held]
  /\ UNCHANGED <<composition, clock, store, api, recorded, shown, missing, raced, delayed, faults>>

(* prefer_disk: the rows of both, one for a minute, the file's if it is there. *)
PreferDisk(files, pending) == files \cup (pending \ files)

Collect ==
  /\ read.at = "pending"
  /\ read' = NoRead
  /\ LET rows == PreferDisk(IF read.files THEN Rows(disk) ELSE {}, read.pending)
     IN  /\ shown' = shown \cup rows
         /\ missing' = missing \cup
              (IF raced \/ delayed \/ ~read.files THEN {} ELSE read.due \ rows)
  /\ UNCHANGED <<composition, clock, store, api, recorded, raced, delayed, faults>>

----------------------------------------------------------------------------
StoreNext ==
  \/ MinutePasses \/ Pass \/ Pause \/ Resume \/ Close \/ Restart
  \/ \E t \in Threads : Nothing(t) \/ Take(t) \/ Land(t) \/ End(t) \/ Fails(t)
  \/ Apply
  \/ Scan \/ Pending \/ Collect

StoreSpec == StoreInit /\ [][StoreNext]_storeVars

----------------------------------------------------------------------------
SealedMinutes == recorded \ unsealed

(* A sealed bar, which the aggregator will not seal again, is in the buffer   *)
(* or in a file whatever flush failed, unless a pause or the shutdown added   *)
(* to the buffer, or flushed it, during a flush (see below).                 *)
NothingLost == ~raced => SealedMinutes \subseteq buffer \cup Rows(disk)

(* No minute is in two files, although a rolled-back file may stay behind:    *)
(* the retry has its name and overwrites it.                                *)
NeverDoubled == ~raced => \A f, g \in disk : f # g => f.rows \cap g.rows = {}

(* Both: a sealed bar is kept, and kept once.                               *)
EveryBarIsKeptOnce == NothingLost /\ NeverDoubled

(* A read has every bar there was to read when it began, and what a read has  *)
(* answered every later one answers, while bars move from the buffer to a     *)
(* file and out of the BarBuffer. Excused are reads on a store without a      *)
(* file, and those after a flush failed or the store restarted, until one     *)
(* lands: the horizon covers one interval.                                  *)
ReadsAreWhole == missing = {}

(* "All or nothing ... the buffer is the only copy of a sealed bar and it is  *)
(* not surrendered until the file it belongs in exists": add runs on the      *)
(* event loop, the flush in a thread, and the flush drops the list with what  *)
(* was added to it since it looked.                                         *)
BufferIsNotSurrendered == SealedMinutes \subseteq buffer \cup Rows(disk)
=============================================================================
