---------------------------- MODULE StoreMonitor ----------------------------
(***************************************************************************)
(* store_main.py's watch over its own consumer group: the replay-gap check at  *)
(* start-up, poll_bus and the loop that calls it, the two alerts, and GET       *)
(* /health. One stream and its group; the streams do not meet.               *)
(*                                                                         *)
(* An entry is its ordinal, so that entries-added, entries-read and the trim    *)
(* count of XINFO are indices. A tick is one monitor interval, and a poll is     *)
(* free to fail, to be late or never to come.                                *)
(***************************************************************************)
EXTENDS Integers, FiniteSets

CONSTANTS
  LagThreshold,    \* STORE_LAG_ALERT_ENTRIES
  StaleIntervals,  \* STORE_BUS_MONITOR_STALE_INTERVALS
  MaxEntries,      \* bound: entries published
  MaxRestarts      \* bound: restarts of the store

ASSUME MonitorAssumption ==
  {LagThreshold, StaleIntervals, MaxEntries, MaxRestarts} \subseteq Nat

VARIABLES
  phase,       \* "starting" until the first poll of poll_bus, then "serving"
  added,       \* entries-added
  trimmed,     \* the entries retention has taken
  delivered,   \* the group's entries-read
  saved,       \* the index of the checkpoint's position
  reading,     \* the reader has not given up
  polled,      \* bus_lag and bus_gaps: the last answer, or nothing yet
  sincePoll,   \* bus_checked_at, in ticks, up to where it is stale
  lostEntries, \* writer.replay_gap_entries
  counted,     \* replay_gap_counted
  alerted,     \* replay_gap_alerted and lag_alerted
  restarts,    \* bound: restarts so far
  troubled,    \* history: ticks for which each trouble has lasted, up to where it counts
  seen,        \* history: the troubles the loop's own polls have seen
  told,        \* history: the troubles this process has sent an alert of
  gone         \* history: the entries this process can never read

stream == <<added, trimmed, delivered, saved, reading>>
checks == <<polled, sincePoll, lostEntries, counted, alerted>>
monitorVars == <<phase, stream, checks, restarts, troubled, seen, told, gone>>

Troubles == {"gap", "lag"}
Larger(a, b) == IF a > b THEN a ELSE b
Nothing == [lag |-> 0, gap |-> FALSE, known |-> FALSE]

MonitorInit ==
  /\ phase = "starting" /\ added = 0 /\ trimmed = 0 /\ delivered = 0 /\ saved = 0 /\ reading = TRUE
  /\ polled = Nothing /\ sincePoll = 0 /\ lostEntries = 0 /\ counted = 0 /\ alerted = {}
  /\ restarts = 0 /\ troubled = [t \in Troubles |-> 0] /\ seen = {} /\ told = {} /\ gone = {}

----------------------------------------------------------------------------
(* What XINFO says: StreamLag's trimmed_past and lost, and Redis's lag. A group *)
(* that has read everything retention took is "past" by one comparison of ids.  *)
TrimmedPast == added > trimmed /\ trimmed > 0 /\ delivered <= trimmed
Lost == Larger(0, trimmed - delivered)
Lag == added - delivered

(* A trouble as it is, whoever looks. *)
Troubling(t) == IF t = "gap" THEN delivered < trimmed ELSE Lag > LagThreshold
Lasting == [t \in Troubles |-> IF Troubling(t)' THEN troubled[t] ELSE 0]

Append1 ==
  /\ added < MaxEntries /\ added' = added + 1
  /\ UNCHANGED <<phase, trimmed, delivered, saved, reading, checks, restarts, seen, told, gone>>
  /\ troubled' = Lasting

(* XTRIM MINID by the publisher, whose flush has just added an entry.         *)
Trim == \E upTo \in (trimmed + 1)..(added - 1) :
  /\ trimmed' = upTo /\ gone' = gone \cup ((Larger(delivered, trimmed) + 1)..upTo)
  /\ UNCHANGED <<phase, added, delivered, saved, reading, checks, restarts, seen, told>>
  /\ troubled' = Lasting

GroupReads == \E upTo \in (Larger(delivered, trimmed) + 1)..added :
  /\ reading /\ delivered' = upTo
  /\ UNCHANGED <<phase, added, trimmed, saved, reading, checks, restarts, seen, told, gone>>
  /\ troubled' = Lasting

Commit ==
  /\ saved < delivered /\ saved' = delivered
  /\ UNCHANGED <<phase, added, trimmed, delivered, reading, checks, restarts, troubled, seen, told, gone>>

GivesUp ==
  /\ reading /\ phase = "serving" /\ reading' = FALSE
  /\ UNCHANGED <<phase, added, trimmed, delivered, saved, checks, restarts, troubled, seen, told, gone>>

----------------------------------------------------------------------------
(* poll_bus: _note_replay_gaps counts the increase, and both alerts are sent    *)
(* once an excursion.                                                       *)
Answer == [lag |-> Lag, gap |-> TrimmedPast, known |-> TRUE]
Found(t) == IF t = "gap" THEN TrimmedPast ELSE Lag > LagThreshold

NoteReplayGaps ==
  IF TrimmedPast /\ Lost > counted
  THEN lostEntries' = lostEntries + (Lost - counted) /\ counted' = Lost
  ELSE UNCHANGED <<lostEntries, counted>>

Announce(announce) ==
  LET found == {t \in Troubles : Found(t)}
      new == IF announce THEN found \ alerted ELSE {}
  IN /\ alerted' = (alerted \cap found) \cup new
     /\ told' = told \cup new
     /\ seen' = seen \cup (IF announce THEN found ELSE {})

PollBus(announce) ==
  /\ polled' = Answer /\ sincePoll' = 0 /\ NoteReplayGaps /\ Announce(announce)
  /\ UNCHANGED <<stream, restarts, troubled, gone>>

PollOnce == phase = "serving" /\ PollBus(TRUE) /\ UNCHANGED phase

Seed ==
  /\ phase = "starting" /\ phase' = "serving"
  /\ \/ PollBus(FALSE)
     \/ UNCHANGED <<stream, checks, restarts, troubled, seen, told, gone>>

(* A poll that fails counts an error and leaves everything as it was.         *)
CheckedAnyway == 0
AfterAFailure == sincePoll

PollFails ==
  /\ phase = "serving" /\ polled.known /\ sincePoll' = AfterAFailure
  /\ UNCHANGED <<phase, stream, polled, lostEntries, counted, alerted, restarts, troubled, seen, told, gone>>

MonitorTicks ==
  /\ phase = "serving"
  /\ sincePoll' = IF polled.known /\ sincePoll <= StaleIntervals THEN sincePoll + 1 ELSE sincePoll
  /\ troubled' = [t \in Troubles |-> IF Troubling(t) /\ troubled[t] <= StaleIntervals
                                     THEN troubled[t] + 1 ELSE troubled[t]]
  /\ UNCHANGED <<phase, stream, polled, lostEntries, counted, alerted, restarts, seen, told, gone>>

(* _prepare_process: replay_gaps measures from the saved positions, counts and  *)
(* alerts; the readers start, and the first poll is silent.                  *)
ReplayGap == Larger(0, trimmed - saved)

StoreRestarts ==
  /\ restarts < MaxRestarts /\ restarts' = restarts + 1
  /\ phase' = "starting" /\ reading' = TRUE /\ UNCHANGED <<added, trimmed, delivered, saved>>
  /\ polled' = Nothing /\ sincePoll' = 0 /\ lostEntries' = ReplayGap /\ counted' = 0 /\ alerted' = {}
  /\ told' = IF ReplayGap > 0 THEN {"gap"} ELSE {}
  /\ gone' = (saved + 1)..trimmed /\ seen' = {}
  /\ troubled' = [t \in Troubles |-> 0]

MonitorNext ==
  \/ Append1 \/ Trim \/ GroupReads \/ Commit \/ GivesUp \/ PollOnce \/ Seed \/ PollFails \/ MonitorTicks \/ StoreRestarts
MonitorSpec == MonitorInit /\ [][MonitorNext]_monitorVars

----------------------------------------------------------------------------
(* _health_problems.                                                        *)
Healthy ==
  /\ reading /\ ~polled.gap /\ lostEntries = 0 /\ polled.lag <= LagThreshold
  /\ polled.known /\ sincePoll <= StaleIntervals

(* Entries trimmed unread, or a lag past the threshold, that have lasted longer *)
(* than the monitor may go unheard turn the store's health to an error, whether   *)
(* its polls come, fail or have stopped; and a trouble that the loop has seen has *)
(* been alerted.                                                            *)
TroubleIsNotHidden ==
  /\ phase = "serving" /\ (\E t \in Troubles : troubled[t] > StaleIntervals) => ~Healthy
  /\ seen \subseteq told

(* store_main.py:122: a loss "is counted once and then only as it grows".      *)
GapIsCountedOnce == lostEntries <= Cardinality(gone)
=============================================================================
