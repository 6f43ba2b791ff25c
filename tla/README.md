# A TLA+ verification of the Delta option-chain engine

This directory keeps the formal models of the engine under `engine/src/deltapayoff` and
of the two screens of `web/` that depend on its timing: what each concurrent part does,
the properties that make it correct, the runs of the model checker TLC that test them on
small instances, and proofs, checked by TLAPS, that hold for every instance. File and
line references are to `src/`; short names (`store.py`) are under
`src/engine/src/deltapayoff/`, and `components/`, `lib/` under `src/web/`.

## 1. The system

The engine reads option quotes from one venue (Delta Exchange), folds them into
one-minute bars, stores the bars as Parquet files, and serves live and historical option
chains. It runs as one process (the monolith, joined by an in-process `FanOut`) or split
into `feed`, `store`, `api` and `discord-alerts` around Redis Streams, with a web client
and an nginx proxy (`compose.yml`). Inside a process everything is one asyncio event
loop; only Parquet writes run in threads.

| Part | State it keeps | Operations | What is hard | Module |
|---|---|---|---|---|
| Connection controller (`controller.py`), adapter socket (`adapters/delta_socket.py`), `supervisor.py` | connection state, retry budget, backoff, pause flags, ages of the last frame and dial; the socket | dial loop, watchdog tick, pause, resume, reconnect, stop, the socket's open, frame, drop | a command or a tick between any two awaits of the loop; silent sockets; a bounded number of dials | `Connection` |
| Subscription registry and relisting (`adapters/delta_socket.py`, `feed_runtime.py`) | what is registered, what the socket was told | relist, subscribe, replay on a new socket | a subscribe while the replay of the registry is being sent | `FeedSession` |
| Event decoding and the chain cache (`adapters/delta.py`, `wire.py`, `events/`, `stream.py`, `chain.py`, `compute.py`) | the newest event of each kind of each contract | decode, encode, apply, build the ladder, price it, hand ticks to the store | absent, zero and not-a-number; book and ticker of different moments | `Ladder` |
| Minute aggregators (`bars.py`) | open minutes per table, seal watermarks | add, seal, flush, restore | disorder, stragglers, two sources of one quote | `MinuteBars` |
| Bar store, its buffer and the reads (`store.py`, `bar_buffer.py`, `contract_bars.py`, ...) | buffer, files, flush threads; recent bars in the api | hand over, flush, pause, resume, close, fold, evict, read | rows that move from memory to a file under a reader; two flushes at once | `BarStore` |
| Store writer of the split (`store.py`, `store_main.py`) | open bars, watermarks, pause spans, generation, checkpoint and intent | drain, seal, commit, pause, resume, recover, replay | death between any two file operations; late entries | `StoreWriter`, `RecordedLog` |
| Compaction (`store.py:1170-1420`) | the partition's files, a staged output, a manifest | verify, publish, delete, recover | death anywhere, files landing meanwhile, damaged writes | `Compaction`, `ClosedDay` |
| Lossless Redis reader (`redis_bus.py`) | positions, recovery flag, retries; in Redis the last-delivered-id and the pending list | create or rejoin the group, adopt, replay, read, ack, deliver | commands whose reply is lost, retention running past the reader, restarts | `GroupReader` |
| Publisher and drop-oldest reader (`redis_bus.py`, `fanout.py`) | the outbox; a bounded queue per consumer, a baseline count | publish, flush, put back, drop; offer, evict, resync | a batch applied and put back; the ceiling; counts across a jump | `LiveBus` |
| Live chain (`stream.py`) | dirty pairs, watches with a grace, solved ladders | watch, unwatch, recompute, close the minute, sample | a reader that cleans a pair nobody watches | `ChainCache` |
| What the api knows of the feed (`main.py`) | effective state per adapter | apply transitions and heartbeats, command and wait | two streams, lost and repeated records, states passed through | `FeedState` |
| Store monitor (`store_main.py`) | gaps counted and alerted, lag alerted | poll, announce once, report health | hysteresis, stale answers, an "exact" gap test | `StoreMonitor` |
| Alert gate (`discord_alerts.py`, `alert_consumer.py`) | collapse window, post floor, backoff | decide, post, commit or roll back | a failed post must give back exactly what it took | `Alerts` |
| Recording switch (`main.py`, `store_main.py`, `components/RecordingToggle.tsx`) | control queue, cached state, a tab's state | toggle, poll, post, acknowledge | a cached answer that is about to change; polls in flight | `Recording` |
| Lifespans (`main.py`, `feed_main.py`, `store_main.py`, `alert_main.py`) | tasks, readers, the outbox at the end | start in order, serve, close in order | parts that fail half way; last words after the bus is gone | `Lifespans` |
| Volatility chart (`volatility.py`, `realised_vol.py`, `iv_index.py`) | none of its own: the stored minutes | bounds, series | windows over holes, look-ahead, listed versus answered | `Volatility` |
| Ladder page (`components/ChainScreen.tsx`, `lib/`) | selection, lists, slider, socket, requests in flight | pick, answer, push, close, retry | answers out of order, sockets and timers left behind | `ChainScreen` |

How they interact: the adapter's frames become events on the bus (Redis Streams or the
fan-out). The api's chain cache folds the newest of each and solves ladders, which the
browsers see and the store is told of; the store's reader puts events on a queue that the
writer drains into minutes. The writer's checkpoint carries the reader's positions, and a
restart replays the log from them. Sealed bars are published again and reach the api's
bar buffer through a second lossless reader; every read joins files and buffer. A nightly
compaction merges the files. Commands (pause, resume, reconnect, recording) go from the
api over the bus and are acknowledged through a cache fed by it. Alerts from every part
reach the alert consumer.

What makes each correct, in one line: the *connection* reports only what its socket does
and stops rather than dial for ever; a *session* carries every listed contract; a *ladder*
says what the venue said last; a *bar* is its minute; the *store* keeps each recorded
minute exactly once and a read misses none of it; *compaction* is invisible; a *lossless
reader* skips nothing and delivers nothing twice; an *outbox* keeps the newest in order; a
*gate* silences only what was heard; a *switch* shows what the store does; a *screen*
shows its selection.

## 2. The modules

`PROJECT.json` maps every definition to its lines. A module named after a part holds its
variables, one action per handler or step, and its properties; mutated forms of a handler
that the mutants use stand before it.

| Module | Models | Composed in, run |
|---|---|---|
| `Connection` | one controller, dial loop, socket, watchdog, commands | `FeedSession`, `connection` |
| `FeedSession` | EXTENDS it: registry, replay, live subscribes, relisting | `connection` |
| `Compaction`, `ClosedDay` | `compact_partition` and its recovery; the abstract partition | `compaction` |
| `StoreWriter`, `RecordedLog` | the split store: log, reader, writer, commit, pause, recovery, replay; what its files promise | `store_replay`, `store_pause` |
| `GroupReader` | the lossless reader on one stream | `reader` |
| `LiveBus` | outbox, flusher, stream, drop-oldest reader and its queue | `live_bus` |
| `FeedState` | controller's words over two streams into the api's cache, badge and commands | `feed_state` |
| `Ladder`, `MinuteBars`, `BarStore` | frame to ladder and tick; event to bar; bar to file and answer | `Bars`, `bars` |
| `Alerts`, `StoreMonitor`, `Recording`, `Lifespans` | what an operator is told and may press; start and stop | `Operations`, `operations` |
| `ChainCache`, `ChainScreen`, `Volatility` | live ladders, the page, the chart | `Screens`, `screens` |
| `FeedSession_proofs`, `Compaction_proofs`, `GroupReader_proofs`, `LiveBus_proofs`, `StoreWriter_proofs`, `Bars_proofs`, `Operations_proofs`, `Screens_proofs` | theorems about the module of the name and those it composes (`Operations_proofs` also about `FeedState`), section 4 | |
| `MC*` | the values of structured constants | |

**Composites that follow one part.** `Bars`, `Operations` and `Screens` choose one of
their parts in the initial state and let it run while the others stand still. Modelled at
their own level the parts share no variable (the page sees a ladder as a value, the cache
only whether it is current; the bar store counts minutes, the aggregators build them), so
a product would multiply the states and add no behaviour. Parts that do share state are
composed for real: the session with its connection, the writer with its reader and its
commit thread, the outbox with the reader behind it, the browser's tabs with the api and
the store.

### Connection and FeedSession

Variables hold `ConnectionState` (`conn`), where the dial loop stands (`loop`), the
stream task and its socket (`stream`), the pause and give-up flags, the budget (`spent`,
`dials`), the backoff and the ages the watchdog compares. The loop is cut at its awaits
(park, dial, stream, backoff), so a command or a tick can run exactly where the event
loop can switch. A dial may hang, a socket may open and say nothing, a frame may arrive
after the watchdog declared silence: none of that needs a fault action, since nothing is
assumed of the venue. Ages saturate at `ReconnectAfter`.

`FeedSession` adds what is subscribed: the listing discovers contracts (`List`, `Answer`,
`Relist`), `Registered` is the registry, a subscribe on a socket that is up is sent by a
task of its own (`Send`), and a new socket is told the whole registry (`Replay`). The
hazard is an instrument registered between the two; `SocketIsSubscribed` says none is
missed and `ListingsReachTheSocket` that a contract the venue lists is subscribed on the
socket that is up, or that socket ends. Left out: the counters, `last_beat`, a publish that raises, an
adapter that raises anything but a cancellation, the failure counting of the tick loop.

### Ladder

One underlying and one expiry. A value is spelled as the venue spells it: `"null"` for
every absent text, `"zero"`, `"junk"` for NaN and Infinity, which `json.loads` lets
through, and two numbers. A frame is decoded (`Decoded`), its events are encoded on the
streams of their types, which are read one by one in any order, and the newest of each
kind is applied. `RawChain` builds the ladder from book and ticker; `Enrich` gives it a
forward and volatilities, where `Outcomes` says what the arithmetic finds; the two ways
of a ladder into the store (`ComputedTicksFromChain`, and through `ComputedChainEvent`)
must agree. `BuildChain` is the ladder from a REST snapshot.
`LadderIsTrue` is both: the ladder is what the venue said last, with no quote
where nobody quotes, an open interest of zero where it is zero, and no number that is not
one; and figures are there exactly with a reason or with Greeks, alike on both legs and
both ways. Seen while modelling: an emptied book shows the ticker's quote, up to five
seconds older; a REST spot of `"0"` stays `0.0` while the frame's is absent; `"Infinity"`
as REST text passes `to_number`; a non-positive forward would make `report_greeks` raise.

### MinuteBars and BarStore

`MinuteBars` folds the events of one contract and its underlying into the four tables.
Stamps, clock and graces have one unit; a mid is kept doubled. History: the ticks
accepted and refused and the bars emitted. `BarIsTheMinute` recomputes every bar from the
accepted ticks whatever the order of arrival; `EveryMinuteOnce` says that no minute gets
two rows, also across a restored checkpoint, and that only true stragglers are counted
late, the ticker's fallback quotes included. Each kind of event has its own lag and each
table its own grace; the samples of the computed table wait `ComputedGrace`, the 2 s of the
split, and with 0 they are those of the monolith, which takes them without a bus.

`BarStore` is one table from the sealed row on, in the monolith and in the split:
passes, flush threads that look at the buffer later (`Begun`, `Take`, `Land`, `End`),
pause, resume and close which flush beside them, failed writes, a restart, the api's
buffer with its eviction, and a read in its three moments (buffer, files, join).
`EveryBarIsKeptOnce` excuses one race, which is a finding (`bar_store_race`).
A failed write is rolled back by `RolledBack`: the monolith removes what it published best
effort, the split removes every planned file.
`ReadsAreWhole` excuses reads of a store with no file yet, and those
between a failed flush or a restart and the next file. Seen while modelling: a
restart of the split store resets `_last_flush`, so that up to nine minutes may be
unflushed against the buffer's horizon of six; a failed flush likewise; `rows()` iterates
a dict in a threadpool while `apply` changes it; a restarted api starts at `$`; the
backfill's ordinal seed counts files, which a compaction lowers.

### Compaction and ClosedDay

A partition is a set of named files, each a set of rows. A compaction stages the output,
writes a manifest, verifies the staged file, publishes by rename, deletes the inputs in
any order and removes the manifest; every step can be the last before a crash, and the
recovery reads the manifest and resumes, refuses or clears. Faults: a crash, a damaged
write, and a staged file that rots after it was verified. Late flushes land at any time.
Writes are not reordered as by a power loss, and one compactor runs at a time.
`ClosedDay` says what a reader of a closed day sees: each row at most once, none ever lost
for good, missing only while it is staged; `Compaction` implements it. Seen while
modelling: `compact_all` looks for a flush intent only once (`store.py:1391`).

### StoreWriter and RecordedLog

One table per stream and one contract per table; a bar's content is the set of entries
folded into it. `now` counts minutes. The reader delivers to `queue`; the writer's passes
drain it into `open` bars, seal those whose grace is over on the seal clock, and commit
them in generations: plan and intent, the files one by one in the commit thread, the
checkpoint, the intent's removal. The reader runs between those steps, as the event loop
lets it. Pause and resume wait in `pending` and are applied at the head of a pass with a
commit of their own. `Restart` recovers the intent, restores the checkpoint and replays.
`Tick` is guarded by what a grace of many seconds amounts to: a reader that made a short
read delivers, and a parked writer folds, well within a grace. Not modelled: two commits
at once, a rollback whose unlink fails, retention, undecodable entries.

**Lapses.** The checker kept finding schedules in which the code does lose entries. Each
was traced in the source and given a name that the responsible action puts into
`lapses`: `overtaken` (a commit with no minute open records the reader's position, past
the queue), `abandoned` (a restart while paused drops the minute open at the pause),
`nested` (a second pause's span never closes), `misplaced` (a command behind another
takes a position past unfolded entries), `premature` (a pause during the replay),
`straddled` (a seal right after a command's commit, ahead of the queue), `cleanup` (the
commit's clean-up fails after its checkpoint), `dead` (a command's commit fails and ends
the writer). `RecordIsExact` then says that these are all there is: without them every
recorded entry is in exactly one committed file or will be replayed. The positions of
successive checkpoints are not monotone; it is harmless, because the seal watermarks
refuse what is read again.

`RecordedLog` is what a reader of the committed files may rely on: a row is the whole of
its minute and final. When a commit adds it, it holds every entry of the minute that was
published and not refused; from then on no entry of that minute is published or refused,
no second row appears, and the row never goes. `IsARecordedLog` says that `StoreWriter`
implements it; a store with a lapse behind it is excused. That an entry reaches a row at
all is the liveness property `Settles`.

### GroupReader

One stream, whose ids are the ordinals of its entries; retention removes a prefix. `pc`
is where the reader stands between two awaits: `gaps`, `adopt`, `adoptAck`, `positions`,
`replay`, `read`, `ack`, `drain`, `drainAck`, `lost`. Every command can fail before or
after Redis applied it; a process can die anywhere. A group that cannot be created ends
the bar buffer's reader for good (`EnsureGroupFails`); the store does not start and is
started again, which is a crash. Two consumers, one with checkpoints
(the store) and one without (the bar buffer). Redis is external: a COUNTed read returns
the lowest ids, an XACK removes ids from the pending list, trimmed pending entries come
back without fields, a stream once written is never empty. `DeliveryIsExact` names the
three leaks the checker found (`vanished`, `unreplayed`, `early`) as the only ways an
entry the group has moved past can be missed.

### LiveBus

The outbox with its ceiling, a flush of one batch as a pipeline of XADDs and a trim, its
failure before or after Redis applied it, the put-back in front of what was published
meanwhile, the close; and the drop-oldest reader with its positioning, passes, resync and
the bounded queue. `OutboxIsFaithful`: what the ceiling drops is the oldest, and first
writes are in order. `SkipsAreReal`: what is reported as skipped was really not
delivered. `ScreenShowsTheNewest`: once publishing ends, the screen comes to show the
newest record, unless its reader gave up or the publisher was closed. Seen while modelling: a close cancels the flusher in mid-pipeline and its batch is
not put back; `OutstandingIsExact` (section 3) fails.

### FeedState

Transitions and heartbeats cross on two streams, may be lost, repeated (a batch written
twice) or overtaken; the cache takes each by its own clock. `FailureIsReal`: a 504
means that no acknowledging state reached the cache while the request waited, also one
that was only passed through. `BadgeConverges`: in the end the badge of `/ws/chain` says
what the controller is, or that the feed is silent.
Seen while modelling: `resume` on a connection that is not paused and `reconnect` while it
reconnects end in a 504, since no transition follows; the history of the cache holds 32
against a queue of 100.

### Alerts, StoreMonitor, Recording, Lifespans

`Alerts` keeps times as ages, so no clock bounds it. `GateIsExact`: a signature is
silenced if and only if one like it was answered inside the window (or any request was made
inside the floor, or a backoff is on), and the count of repeats is exact, whatever failed
or was rolled back. `StoreMonitor` is the start-up gap check, the poll, both alerts and
`/health`; `TroubleIsNotHidden` says that a gap or a lag that lasts turns the health to an
error also when the monitor fails or stops. `Recording` is the switch from the tab to the
store and back; `LastPostPrevails` and `TabsTellTheTruth`. A tab's reads are counted, not
named: its timer sends another every five seconds whether or not the last is answered,
and they land in any order. `Lifespans` starts and closes
the five processes; `ClosesClean`: the last words of every part reach Redis and no task is
left, unless Redis was away, the preparation failed or the last commit raised. A start that
raises half way is one action for each process that can (`StartFails`, `PrepareFails`,
`BusUnavailable`).

Seen while modelling: `replay_gap_counted` is never reset; the start-up gap is counted
twice (a finding); one signature for the gap alerts of all streams; a group exactly at the
trim point is reported as past it with nothing lost. POST /recording does not ask whether
the cached state is fresh; its ack may precede the pause's commit, so that a crash after
it may come back recording; a command published while the store is down is lost; the
toggle's "a pause does not survive a restart" is true of the monolith only; a poll in
flight when a toggle starts can repaint the old state. `_prepare_process` failing after
the bus is up leaves the bus open; a final commit that raises skips the close of the bus,
so that sealed bars and the alert about it stay in the outbox; a monolith whose first
listing raises anything but `DeltaUnavailable` ends with its client open; a monolith that came up
without the venue never tries again, and its shutdown returns before the writer is
closed; the store's own tasks have no done-callback.

### ChainCache, ChainScreen, Volatility

`ChainCache` reduces a ladder to whether it answers for the inputs as they are and whether
it was computed in the minute now open. `CleanMeansCurrent`, `MinuteIsInHand` (what is not
dirty was solved for this minute, excused by a solve that raised), `WatchedIsRefreshed`.
`ChainScreen`: a handler, the render it causes and the effects whose dependencies changed
are one step; request ids are a flag on the newest request of a kind; sockets and timers
of left subscriptions stay in `subs` until they are really gone. A link may name an expiry
that is no date (`Unreal`): its reads are refused and so is its socket, which the page does
not open again (`Refused`). `LadderIsTheSelection`,
`OneSocketWhileFollowing`, `ScreenSettles`. `Volatility`: a price p stands for 2^p and a
volatility is kept as the fraction its square is, so that log returns, windows and the
interpolation are exact; `PointsAreTrue` recomputes a charted point from the stored
minutes of its window; `AcceptedIsCharted` and `OfferStands` relate the bounds route to
the series route.

Seen while modelling: `chain()` on an unwatched pair takes it off the dirty set; a failed
solve in the minute pass hands over the older ladder; two live subscribes can write
concurrently, contrary to `delta_socket.py:437`. On the page: a failed historical read
leaves the former ladder under the new slider minute, with an error; a failed request for
the minutes is swallowed and never repeated; the old expiry is subscribed under a new
underlying until the list arrives, and the minutes of the old pair are offered until the
new answer; the notice says "closest minute" when the right edge is shown; an error notice
outlives the recovery. In the chart: `expected` spans only the surviving bars
(`realised_vol.py:60`); a bucket stamped at its start may end after the point
(look-ahead); `MaxPoints` + 1 points; `IvRvPanel.fetchSeries` has no guard against a stale
answer.

## 3. The runs

| Run | Instance | Shows | Distinct states |
|---|---|---|---|
| `connection` | budget 2, degraded after 1, reconnect after 3, backoff 1 to 4, all commands, two contracts | the badge is backed by a socket; dials are bounded; no socket outlives its loop; a socket that is up misses no contract; unpaused, the connection delivers for ever or stops | 292,341 |
| `compaction` | 4 rows, 3 faults | no row doubled or lost, the refinement of `ClosedDay`, an ending in one file | 97,073 |
| `store_replay` | 2 tables with graces 1 and 0, reads of 1 entry, 2 entries, 3 minutes, one crash, stop, failed flush or failed clean-up | outside the lapses every entry is in one committed file or will be replayed, and each whose minute is over reaches a file | 167,957 |
| `store_pause` | 1 table, two commands, one crash, stop or failed flush | the refinement of `RecordedLog`: a committed row is the whole of its minute and final, without what was published while paused | 2,542,685 |
| `reader` | both consumers, 4 entries, reads of 2, 1 retry, 3 faults | delivered once, in order, nothing missed outside the named leaks, exact hand-over from replay to group, every entry settled | 580,897 |
| `live_bus` | an outbox of 3, reads of 1, a queue of 1, 1 retry, 4 records, one fault | the ceiling drops the oldest, first writes are in order, skips are real, the screen ends on the newest | 663,396 |
| `feed_state` | 1 client, 3 transitions, 1 queued and 2 unseen records, 1 fault | a 504 means that nothing acknowledged the command; the badge settles on the truth | 1,035,531 |
| `operations` | 3 signatures, window 5, floor 2; 4 entries and 1 restart of the monitor; 2 tabs with a read out each, 2 posts, 1 mishap; 5 processes, 2 outages, 2 deaths | the gate is exact; lasting trouble is shown; the last post prevails and the tabs come to tell it; a shutdown sends its last words | 548,702 |
| `screens` | 2 underlyings, 4 expiries of which one is no date, 4 links, 2 picks, 1 failure; 2 chains, grace 2, 2 tabs; 4 minutes of stored rows | a ladder not dirty is current and of this minute; the page shows its selection over one socket; charted points are what the stored minutes say | 229,333 |
| `bars` | 2 strikes, 2 frames; 3 events of any order, width 2, graces 0, 2 and 1 for book, reference and computed, events up to 3 late, time 5; flushes every 2 minutes, 5 minutes, horizon 3, 1 fault | the ladder is what the venue said; a bar is its minute; a minute gets one row; each bar is kept once; a read misses none | 2,432,580 |

Two runs are expected to fail: each states a sentence of the repository that the code does
not keep, and TLC prints the schedule.

| Run | Property | Schedule |
|---|---|---|
| `bar_store_race` | `BufferIsNotSurrendered` | a pause seals a bar into the buffer while a flush thread writes; the thread then replaces the list it read before (`store.py:980`) |
| `gap_count` | `GapIsCountedOnce` | the start-up check counts a gap (`store_main.py:293`), and the first poll of the monitor counts it again |

**Promises without a run.** The modules state more than the runs check, at the end of
each: put one in place of the properties of the configuration named to see the answer.
These hold: `DropIsRetried`, `StoppedAdapterHasNoSocket`, `NoIllegalTransition`
(`MCFeedSession.cfg`), `UncommittedIsPlanned`, `CommittedStays` (`MCStoreWriter_replay.cfg`),
`NothingInvented` (`MCStoreWriter_pause.cfg`), `GapIsNotUnderstated` (`MCGroupReader.cfg`),
`KnownNeverGoesBack` (`MCFeedState.cfg`), `EveryRecordIsCounted` (`MCLiveBus.cfg`). All but
the first, a liveness property, are also proved.
These are refuted:

| Property | What is promised | What happens |
|---|---|---|
| `PauseParks`, `PausedNeverDials`, `GivenUpIsNotResumed`, `ResumedIsDialled` | "A pause parks the dial loop rather than returning from it" (`docs/design/lld/commands.md:127`) | a pause in the backoff sleep makes the loop return, and the resume dials nothing |
| `ReplayLosesNothing` | "never lost while Redis still holds it" (`docs/design/decisions/0010-store-replay.md:144`) | entries are queued during a commit's thread; the next commit, with no minute open, records a position past them; crash |
| `PauseTwiceIsNoError` | "Posting `false` twice is not an error" (`docs/recording-contract.md:88`) | two pauses, one resume: the older span stays open and a replay skips what came after the resume |
| `FailedCleanupLosesNothing` | "nothing is lost to the failure itself" (`store.py:2047`) | `clear_intent` raises after the checkpoint, and the handler deletes the files it names |
| `PauseKeepsTheOpenMinute`, `CommandsKeepTheirPlace`, `PauseSparesTheReplay`, `NoMinuteClosesEarly`, `AFailedFlushSparesTheWriter` | the same, for the other lapses of `StoreWriter` | section 2 |
| `FailedPassLosesNothing` | a failed pass loses nothing (`engine/tests/test_bus_reader_resilience.py:704`) | the XACK is applied and its reply lost: neither pending nor delivered |
| `ReplayLeavesNoGap` | "No gap, and no entry twice" (`redis_bus.py:1534`) | one failed XINFO GROUPS at start-up is taken for a missing stream (`redis_bus.py:1583`) and nothing is replayed, although the inherited entries were acked in favour of the replay |
| `TrimmedPastIsExact` | that a group past the trim point has lost entries | a group exactly at it has lost none |
| `OutstandingIsExact` (`MaxOutbox` 2, `MaxRecords` 7, no fault) | that the subtraction is exact to the round trip | the resync counts entries delivered after its XINFO |
| `BackoffIsHonoured` | that the backoff Discord names in a 429 is honoured | the poster counts it from its decision, which precedes the answer by the time of the call |
| `EveryMinuteIsClosed`, `RowsHaveAFrame` | "close each minute for every expiry, watched or not"; a row stands for a frame of its own minute | `chain()` on a pair nobody watches takes it off the dirty set; the live pass stamps a ladder without a new frame |
| `AnswerFollowsTheCommand`, `SilenceIsSent` | a request completes on the transition its command made (`commands.md`); `stopped` / `silent` is sent when the stale bound is crossed (`live-chain-contract.md`) | another transition answers for it; a badge that reads `stopped` (paused) already stays as it is |
| `DeathIsReported` | that a task that ends is logged (`store_main.py:654`, `redis_bus.py:877`) | the store's own tasks have no done-callback |

**Bounds.** The rules that create the hazards are about neighbours: two passes, two
generations, two minutes, a read that is full and one that is short. Two entries over two
tables and three minutes are enough for a minute that is open, one that is sealed and one
that is committed at once, and for a replay that meets each. Four entries with reads of
two give a full read, a short one, a replay that runs past its target and a trim inside
any of them; three faults give a failed pass, a second one past the budget and a crash.
Four rows give a compaction two inputs, a late flush and a second compaction. An outbox
of three with four records overflows while a batch is in flight. Two reads of
one tab out at once (`MaxGets` 2) were run for the switch alone: 1,629,900 states, no
violation; the run keeps to one, which already crosses a post. Three bar events give an
early, a late and a straggling tick to one minute; five minutes with a flush in every second of them
and a horizon of three give a read over two files, a bar in both file and memory, and an
eviction. Four minutes of stored rows hold a hole, a window over it and two buckets.
Three signatures and a window longer than two floors give a repeat inside the window, one
after it and a rollback between. The ages of a connection saturate and its dials are
bounded by its own code: that run has no bound of its own.

**Deadlock** is checked in `compaction`, `store_replay` and `store_pause`, which never
stop. Elsewhere a bounded environment (no more records, picks, posts, frames) leaves the
system with nothing to do, and the check is off.

**Fairness.** All of it is that asyncio runs every ready task and that Compose restarts a
process that died; nothing is asked of the venue, of publishers, commands or faults.
Weak fairness: the loop, a dial's outcome, the tick and a scheduled callback of a
connection; the sends of its subscriptions, and the answer and the repetition of a
listing; the compaction's step (the nightly job runs again until it succeeds); the
writer's step and the restart; the reader's start and pass; the flusher, the drop-oldest
reader and its consumer; the passes of the live chain; applying what a stream holds, the
heartbeat, and the silence of a feed that is down; the page's answers, socket and retry
timer; the switch's polls and acknowledgements. Strong fairness only in `StoreWriter`, for
the reader, the clock and the flush: the writer's passes disable them for a moment again
and again, and asyncio serves ready tasks in turn.

## 4. The proofs

The theorems hold for every value of the constants, bounds and fault counts included.
Where a bound of a model appears in them it is arbitrary. Every safety invariant and
action property of the passing runs is proved. Hardly one is inductive as it stands; each
module states the invariant that is, with one step per action, and its header gives the
idea.

**Assumptions.** The theorems rest on the named assumptions on the constants and on
nothing else; TLC evaluates them in the runs. Most give a constant its type. Those that
relate constants are the code's own: a call to Discord times out within the collapse
window (`CallTimeout <= Window`); the api's buffer outlasts a flush and its delay
(`FlushEvery + Slack <= Horizon`); a lag is within its grace; a link and a listing name
known contracts; there is a stream and a first minute; no board expires past the index's
last day (`LastExpiry`); the opening and the closing price of a bar lie in its range. One
is the model's: a smile's volatilities divide by the gaps between its strikes, so that
the interpolation at the forward is a whole number.

**`FeedSession_proofs`** (`Connection`, `FeedSession`). Of the connection:
the type invariant, `NoIllegalTransition`, `BadgeIsBacked`, `DialsBounded`,
`StoppedAdapterHasNoSocket`, by an invariant that relates where the loop stands to the
socket, the state to both, and the dials to what is spent of the budget.
`NoSocketOutlives` is an action property; its second half is about two successive states
of a connection nobody pauses, for which `UnpausedLife` adds that such a loop is never
parked and that a reconnecting connection has let its socket go. A session is a
connection (`SessionSpec => Spec`), so all of this holds of the adapter that carries
contracts, and `SocketIsSubscribed`: what is registered before a replay is in it, what is
registered during it is sent behind it (`ReplayCoversTheRegistry`), and every way out of a
socket forgets both (`NothingIsHeld`).

**`Compaction_proofs`**: `EveryRowOnce` with its two halves, `ManifestIsBacked`, the
action property `DeletesAreCovered`, and that `Compaction` implements `ClosedDay`: its
initial states map to initial states, each step to a step or a stutter. The invariant
says what each stage knows of the files: while a manifest is there, its output or its
staged file holds what its inputs held, and a row that is on both sides of that line is
seen by a reader on at most one.

**`GroupReader_proofs`**: `TypeOK`, `PendingIsUndelivered`, `DeliveryIsExact` with its two
halves, `OnceInOrder`, `ReplayMeetsTheGroup`. That an acked entry may be left to a replay
rests on what the replay will cover, so the invariant says phase by phase what each
position stands for: a saved position names only what a crash leaves accounted for
(`PositionsCover`), a replay has delivered everything up to its cursor and nothing past it
(`ReplayCovers`), a reader past its replay has nothing behind the group's position that is
neither pending nor covered (`GroupIsCovered`), and what is pending is newer than what was
delivered (`PendingIsAhead`). That the gap report never understates
(`GapIsNotUnderstated`) needs the position to be honest: it counts no more entries than it
names, or than were already reported lost (`Honest`), because each delivery is newer than
both (`GapInv`).

**`LiveBus_proofs`**: `OutboxIsFaithful` and `SkipsAreReal`. The publisher's half
(`OutboxInv`): what waits, the batch before the outbox, ascends, and whatever is older
than the record in hand is on the stream or has nothing newer there, which is what a
repeated batch needs. The reader's half (`SkipInv`): behind its cursor it has missed only
what retention took or a full queue would have evicted, and it has counted no more. The
counters (`EveryRecordIsCounted`) follow from one more fact: no more records are counted as
written than are on the stream and wait no longer (`CountInv`), whichever batch was repeated.

**`StoreWriter_proofs`**: `RecordIsExact`, `NothingInvented`, `CommittedStays`, that
`StoreWriter` implements `RecordedLog` (`IsARecordedLog`), that a file the checkpoint has
not taken over is the one the intent names (`UncommittedIsPlanned`), and the types with
the order of the marks. The invariant has two halves. The first holds whatever goes wrong:
the order of the log (`LogInv`), of delivered, drained and checkpointed positions
(`MarksInv`, `ReaderInv`), of the seal watermarks (`SealedInv`), the positions each minute
was opened at (`OriginsInv`), where a generation's files are (`FilesInv`), and what may be
in an open bar (`FoldedInv`); no entry is stored twice follows from it. The second says
where every entry is while no lapse has happened: behind a pause span (`SpansInv`), in a
committed file (`DurableInv`), or in memory with a replay position before it
(`MemoryInv`). What each named lapse breaks is a conjunct of this half, which is why the
property is stated outside them. The refinement needs one part more, that a row's entries
are of its minute (`MinutesFit`). Then a checkpoint is a commit of whole minutes, because
everything of a sealed minute is in a committed file or was refused; what is published is
within its grace, behind which every watermark stays; what is refused was never folded;
and every other step leaves the committed rows alone.

**`Bars_proofs`** (`MinuteBars`, `BarStore`, `Ladder`). `BarIsTheMinute` and
`EveryMinuteOnce`, for every minute width, every set of prices and every order of arrival:
the code builds a bar in place, one `update` a tick; the proof relates it to what it took
by `SeriesOf(series, points)`, which an update carries to the set with one point more
(`UpdateExtends`). From there up it is composition: a field, a mid, the two sources of a
quote, a last sample, a bucket (`FoldExtends`). The watermark divides the minutes: open
ones are above it and hold exactly the ticks accepted for them, settled ones are below it,
and an accepted tick is in one or the other. That only stragglers are late is the
arithmetic of the graces.
`EveryBarIsKeptOnce` and `ReadsAreWhole`: the files are divided into settled ones, which
no step touches, and those under the name the next flush uses, whose rows are still in the
buffer (`StoreInv`); a read is followed through its three moments (`ReadsInv`, for the
monolith and the split apart).
`LadderIsTrue`: for each contract the cache holds the venue's last word if no entry about
it is left on the stream, and otherwise the last such entry carries it (`TickersFollow`,
`BooksFollow`, `SpotFollows`). Then a canonical string is one contract, a strike and a
side are one leg, and the ticks of the store are the same over the bus and without it.

**`Operations_proofs`** (`Alerts`, `Lifespans`, `Recording`, `StoreMonitor`, and `FeedState`).
`GateIsExact` speaks of the moments between alerts; what a rollback restores depends on what its
decision found, so the invariant adds what is true while a request is in flight
(`CallTookTheWindow`, `OthersAgree`, `FloorAgrees`). `ClosesClean`, for any number of
outages and dead tasks: the steps of a shutdown still to come close all that runs, and
behind the close of the bus there is only the client, which says nothing; so what speaks
after a flush has a flush to come, or the last one went wrong. `LastPostPrevails`, for any
number of tabs: a dead store takes up again what its checkpoint says, so what it does and
what is durable are kept together (`DeadIsDurable`). `TroubleIsNotHidden`: a loss or a
lag is known to the monitor once a poll has had the time to find it. Of the api's cache:
`FailureIsReal`, as any acknowledgement that came while a request waits is among the
records the request has not looked at (`RequestInv`), and `KnownNeverGoesBack`, that no
order of the two streams makes the cache fall back.

**`Screens_proofs`** (`ChainCache`, `ChainScreen`, `Volatility`). `CleanMeansCurrent` and
`MinuteIsInHand`, for any set of pairs: a ladder exists only of pairs a contract was seen
for, so what makes it stale marks it; and until the minute pass every pair with a frame is
dirty or already in hand (`BeforeThePass`). `LadderIsTheSelection` and
`OneSocketWhileFollowing`: between two steps the effects have seen the page as it is, so
what they asked for, hold open and show fits its view (`PageInvariant`); a handler
disturbs that and the two renders it causes restore it. `OfferStands` and
`AcceptedIsCharted`: the record only grows at its end (`ChartInvariant`), and with it the
bounds; the rest is arithmetic of spans, strides and remainders. `PointsAreTrue` has two
halves. An implied figure lies between its two neighbours, because a line between two
variances does (`LinesStayBetween`), which is also why the refusal of a negative variance
never strikes and a listed tenor is always answered with its own. A realised figure is a
difference of two prefix sums, found by two bisections, and has to be what the formula
gives over the window's own minutes (`RollingIsItsWindow`). That is about sums of any
length, and induction is not to be had; each step is an argument about the first place
where it would fail (`PrefixSumsExist`, `SumsGrow`, `OrderedByRank`, `SameSteps`): the sum
of what is earlier than a stamp takes in one value at each stamp, in the record as in its
window, so the window's total is the difference (`WindowsAreDifferences`), and the squared
deviations from the window's mean are its two sums (`DeviationsAreSums`). A return belongs
to a window when its first bar does and its last has ended, which is what the earlier
upper bisection says (`ObservationsOfAWindow`); and a window cut at the strides of its
buckets holds whole buckets (`WindowsAreWholeBuckets`).

**What the proofs changed in the models.** A proof that does not go through says something
about its model. The proof of `LadderIsTrue` found that a contract's identifier passes a
conversion of its own and may be absent, which the third ticker of `MCBars` now is; that
of `ReadsAreWhole`, that the clock was bounded by a flush during a pause, when the code
flushes nothing. The proof of `PointsAreTrue` found that the property did not hold as it
was first stated, of every interval: with a lookback shorter than the interval the upper
bisection of a return estimator can fall behind the lower one, and `rolling` answers with
a negative number of observations (`realised_vol.py:414`), although it promises the "Same
answers as the plain path" (`realised_vol.py:378`). `valid_intervals` refuses such a pair
before it gets there, so the property now speaks of the intervals the route accepts.
Otherwise definitions were only put into a form the provers can use (decoded events as a
set, minutes as a union, sums as a recursive function, a square as a product), and
assumptions they need were named.

**Only model-checked.** *Liveness*, in every run: `DeliversOrStops`,
`ListingsReachTheSocket`, `SettlesToOneFile`, `Settles`, `EverythingSettles`,
`ScreenShowsTheNewest`, `TabsTellTheTruth`, `BadgeConverges`, `WatchedIsRefreshed`,
`ScreenSettles`; the proof system has no rules for fairness that reach them.
Of the promises without a run `DropIsRetried` is one more liveness property.

## 5. What is not modelled

- *Arithmetic.* Black-76, the implied-volatility solvers, Greeks, logarithms and roots
  are floating point. `Ladder` takes their outcomes as data, `Volatility` chooses prices
  for which they are exact.
- *Logging and measurement* (`logging_setup.py`, `log_events.py`, `timing.py`,
  `throughput.py`, `tools/measure_*`): no other part reads what they write. *Store
  location* (`store_home.py`): path rules over the file system, decided once at start.
- *Api:* the smile and surface routes (pure functions of one ladder), the catalogue and
  its documentation, validation of requests. *Wire formats:* the spelling of an event;
  the conversions that decide what an absent value becomes are in `Ladder`.
- *Web:* rendering, the volatility panel (its stale answer is noted in section 2), charts
  and the smile page.
- *Tools:* the migration and the load generator are one-shot scripts; `backfill_index`
  is in `Volatility`, `compact_store` calls the modelled compaction.
- *Inside modelled parts:* counters nothing decides on; the failure counting of the
  watchdog's loop; two commits of one generation at once (`store.py:2062`) and a rollback
  of the split whose unlink fails; a group that disappears while its reader runs or
  replays (`redis_bus.py:1504`, `1615`), since nothing in the repository deletes one;
  frames and messages that break the contract between the engine and its own client; `compact_all` beside a writer that begins after its look
  (`store.py:1391`); a power loss that reorders writes; the alerts the store's parts send
  through `alert_consumer.py` (they are messages to `Alerts`).

## 6. Plan

1. *(done)* Connection, compaction, the split writer, the lossless reader, with proofs.
2. *(done)* The session, the ladder, the bars from event to file and answer, the outbox
   and the drop-oldest reader, the api's knowledge of the feed, alerts, monitor, switch,
   lifespans, the live chain, the page and the chart.
3. *(done)* A theorem for every safety invariant and action property of the runs,
   and for the promises without a run; the refinements of `ClosedDay` and `RecordedLog`.
4. The two races of section 5: `compact_all` against a beginning commit, and the commit
   of a cancelled run against the one of the shutdown.
