----------------------------- MODULE Recording -----------------------------
(***************************************************************************)
(* The recording switch of the split system: web/components/RecordingToggle   *)
(* in each tab, GET and POST /recording over StoreStateCache in the api, and   *)
(* the store's control queue, commit and store.state notices behind it.       *)
(*                                                                         *)
(* A snapshot is the recording flag it carries, "on" or "off". The five-second  *)
(* poll, the ten-second cadence and the ten-second timeout have no length: each  *)
(* may come at any time. The bar counts of a snapshot are left out, and so is the monolith,  *)
(* whose route calls the writer of BarStore directly.                        *)
(***************************************************************************)
EXTENDS Integers, Sequences

CONSTANTS
  Tabs,         \* browser tabs with the switch on screen
  MaxGets,      \* bound: polls of one tab that are out at once
  MaxPosts,     \* bound: presses of the switch
  MaxInFlight,  \* bound: store.state snapshots on their stream
  MaxMishaps    \* bound: crashes of the store, failed commits, lost snapshots

ASSUME RecordingAssumption ==
  {MaxPosts, MaxMishaps} \subseteq Nat /\ {MaxGets, MaxInFlight} \subseteq Nat \ {0}

Unread == "unknown"  \* no state yet, or none that is fresh: the 503
PollAnswers == {"on", "off", Unread}
Opposite(flag) == IF flag = "on" THEN "off" ELSE "on"

NoPolls == [carried \in PollAnswers \cup {"asked"} |-> 0]

VARIABLES
  alive,      \* whether a store process runs
  recording,  \* writer.recording
  durable,    \* the recording flag of the checkpoint
  owed,       \* a command was applied and its commit has not ended
  pending,    \* the control subscription and _pending_commands, as wanted flags
  snapshots,  \* store.state on its stream, oldest first
  cached,     \* StoreStateCache.event
  fresh,      \* its age is within STORE_STATE_STALE_SECONDS
  shown,      \* each tab's state
  failure,    \* each tab shows that something failed
  busy,       \* each tab's inFlight: its switch was pressed and not answered
  polls,      \* each tab's GETs, by what they carry: how many are asked or answered
  post,       \* each tab's POST: where it is
  want,       \* and what it asks for, "on" when there is none
  presses,    \* bound: presses so far
  mishaps,    \* bound: mishaps so far
  accepted,   \* history: what the last POST the api took asked for
  undone      \* history: the store died, or was dead, with that command not durable

storeVars == <<alive, recording, durable, owed, pending>>
apiVars == <<snapshots, cached, fresh>>
tabVars == <<shown, failure, busy, polls, post, want, presses>>
switchVars == <<storeVars, apiVars, tabVars, mishaps, accepted, undone>>

SwitchInit ==
  /\ alive = TRUE /\ recording = "on" /\ durable = "on" /\ owed = FALSE /\ pending = <<>>
  /\ snapshots = <<>> /\ cached = Unread /\ fresh = FALSE
  /\ shown = [t \in Tabs |-> Unread] /\ failure = [t \in Tabs |-> FALSE]
  /\ busy = [t \in Tabs |-> FALSE] /\ polls = [t \in Tabs |-> NoPolls]
  /\ post = [t \in Tabs |-> "none"] /\ want = [t \in Tabs |-> "on"]
  /\ presses = 0 /\ mishaps = 0 /\ accepted = Unread /\ undone = FALSE

Mishap == mishaps < MaxMishaps /\ mishaps' = mishaps + 1

----------------------------------------------------------------------------
(* The store: _apply_pending_commands at a drained point, the commit it asks    *)
(* for and any later one, publish_state_forever, and the process itself.       *)
ApplyCommand ==
  /\ alive /\ ~owed /\ pending # <<>>
  /\ recording' = Head(pending) /\ pending' = Tail(pending) /\ owed' = TRUE
  /\ UNCHANGED <<alive, durable, apiVars, tabVars, mishaps, accepted, undone>>

Checkpoint ==
  /\ alive /\ (owed \/ durable # recording)
  /\ durable' = recording /\ owed' = FALSE
  /\ UNCHANGED <<alive, recording, pending, apiVars, tabVars, mishaps, accepted, undone>>

CommitFails ==
  /\ alive /\ owed /\ Mishap /\ owed' = FALSE
  /\ UNCHANGED <<alive, recording, durable, pending, apiVars, tabVars, accepted, undone>>

PublishState ==
  /\ alive /\ Len(snapshots) < MaxInFlight
  /\ snapshots' = Append(snapshots, recording)
  /\ UNCHANGED <<storeVars, cached, fresh, tabVars, mishaps, accepted, undone>>

StoreDies ==
  /\ alive /\ Mishap /\ alive' = FALSE /\ owed' = FALSE /\ pending' = <<>>
  /\ undone' = (undone \/ pending # <<>> \/ durable # recording)
  /\ UNCHANGED <<recording, durable, apiVars, tabVars, accepted>>

(* restore_checkpoint; the control reader starts at "$".                     *)
StoreStarts ==
  /\ ~alive /\ alive' = TRUE /\ recording' = durable
  /\ UNCHANGED <<durable, owed, pending, apiVars, tabVars, mishaps, accepted, undone>>

----------------------------------------------------------------------------
(* The api: StoreStateCache, GET /recording and POST /recording.              *)
ApplySnapshot ==
  /\ snapshots # <<>> /\ snapshots' = Tail(snapshots)
  /\ cached' = Head(snapshots) /\ fresh' = TRUE
  /\ UNCHANGED <<storeVars, tabVars, mishaps, accepted, undone>>

SnapshotLost ==
  /\ snapshots # <<>> /\ Mishap /\ snapshots' = Tail(snapshots)
  /\ UNCHANGED <<storeVars, cached, fresh, tabVars, accepted, undone>>

GoesStale ==
  /\ fresh /\ ~alive /\ snapshots = <<>> /\ fresh' = FALSE
  /\ UNCHANGED <<storeVars, snapshots, cached, tabVars, mishaps, accepted, undone>>

AnswerPoll(t) ==
  /\ polls[t]["asked"] > 0
  /\ polls' = [polls EXCEPT ![t]["asked"] = @ - 1, ![t][IF fresh THEN cached ELSE Unread] = @ + 1]
  /\ UNCHANGED <<storeVars, apiVars, shown, failure, busy, post, want, presses, mishaps, accepted, undone>>

(* The command is published before the cached state is looked at.            *)
UnlessCached(w) == IF alive /\ cached # w THEN Append(pending, w) ELSE pending
Published(w) == IF alive THEN Append(pending, w) ELSE pending

TakePost(t) ==
  /\ post[t] = "asked"
  /\ pending' = Published(want[t])
  /\ post' = [post EXCEPT ![t] = IF cached = want[t] THEN "answered" ELSE "waiting"]
  /\ accepted' = want[t] /\ undone' = ~alive
  /\ UNCHANGED <<alive, recording, durable, owed, apiVars, shown, failure, busy, polls, want, presses, mishaps>>

(* wait_for_ack: a later generation that carries what was asked for. A POST waits *)
(* only if the cache held the other flag, so what it waits for is a later one.    *)
Acknowledge(t) ==
  /\ post[t] = "waiting" /\ cached = want[t]
  /\ post' = [post EXCEPT ![t] = "answered"]
  /\ UNCHANGED <<storeVars, apiVars, shown, failure, busy, polls, want, presses, mishaps, accepted, undone>>

PostTimesOut(t) ==
  /\ post[t] = "waiting" /\ post' = [post EXCEPT ![t] = "failed"]
  /\ UNCHANGED <<storeVars, apiVars, shown, failure, busy, polls, want, presses, mishaps, accepted, undone>>

----------------------------------------------------------------------------
(* A tab: read on its interval, toggle, and what comes back. A poll does not     *)
(* wait for an earlier one, they may land in any order, and one that was on its  *)
(* way when the switch was pressed still lands.                             *)
Out(t) == polls[t]["asked"] + polls[t]["on"] + polls[t]["off"] + polls[t][Unread]

Poll(t) ==
  /\ ~busy[t] /\ Out(t) < MaxGets /\ polls' = [polls EXCEPT ![t]["asked"] = @ + 1]
  /\ UNCHANGED <<storeVars, apiVars, shown, failure, busy, post, want, presses, mishaps, accepted, undone>>

PollLands(t, answer) ==
  /\ polls[t][answer] > 0 /\ polls' = [polls EXCEPT ![t][answer] = @ - 1]
  /\ shown' = [shown EXCEPT ![t] = IF answer = Unread THEN @ ELSE answer]
  /\ failure' = [failure EXCEPT ![t] = answer = Unread]
  /\ UNCHANGED <<storeVars, apiVars, busy, post, want, presses, mishaps, accepted, undone>>

Toggle(t) ==
  /\ shown[t] # Unread /\ ~busy[t]
  /\ presses < MaxPosts /\ presses' = presses + 1
  /\ busy' = [busy EXCEPT ![t] = TRUE] /\ failure' = [failure EXCEPT ![t] = FALSE]
  /\ want' = [want EXCEPT ![t] = Opposite(shown[t])] /\ post' = [post EXCEPT ![t] = "asked"]
  /\ UNCHANGED <<storeVars, apiVars, shown, polls, mishaps, accepted, undone>>

(* The finally of toggle, whatever came back.                                *)
OnlyOnSuccess(outcome) == outcome = "failed"
StillBusy(outcome) == FALSE

PostLands(t) ==
  /\ post[t] \in {"answered", "failed"} /\ post' = [post EXCEPT ![t] = "none"]
  /\ want' = [want EXCEPT ![t] = "on"]
  /\ busy' = [busy EXCEPT ![t] = StillBusy(post[t])]
  /\ shown' = [shown EXCEPT ![t] = IF post[t] = "answered" THEN want[t] ELSE @]
  /\ failure' = [failure EXCEPT ![t] = @ \/ post[t] = "failed"]
  /\ UNCHANGED <<storeVars, apiVars, polls, presses, mishaps, accepted, undone>>

Reads(t) == Poll(t) \/ AnswerPoll(t) \/ \E answer \in PollAnswers : PollLands(t, answer)
Answering(t) == TakePost(t) \/ Acknowledge(t) \/ PostTimesOut(t) \/ PostLands(t)

SwitchNext ==
  \/ ApplyCommand \/ Checkpoint \/ CommitFails \/ PublishState \/ StoreDies \/ StoreStarts
  \/ ApplySnapshot \/ SnapshotLost \/ GoesStale
  \/ \E t \in Tabs : Reads(t) \/ Answering(t) \/ Toggle(t)

(* The tab polls and every request is answered or times out; the store drains   *)
(* its queue, ends its commits and publishes; the cache follows the stream, and  *)
(* grows stale behind a dead store.                                         *)
SwitchFairness ==
  /\ \A t \in Tabs : /\ WF_switchVars(Poll(t)) /\ WF_switchVars(AnswerPoll(t)) /\ WF_switchVars(Answering(t))
                    /\ \A answer \in PollAnswers : WF_switchVars(PollLands(t, answer))
  /\ WF_switchVars(ApplyCommand) /\ WF_switchVars(Checkpoint) /\ WF_switchVars(PublishState)
  /\ WF_switchVars(ApplySnapshot) /\ WF_switchVars(GoesStale)

SwitchSpec == SwitchInit /\ [][SwitchNext]_switchVars /\ SwitchFairness

----------------------------------------------------------------------------
(* Of two tabs that press the switch the last POST the api took prevails: the   *)
(* store is in the state it asked for or has its command last in the queue,     *)
(* even when the answer was given from a state an earlier command was about to   *)
(* change. Only a store that died before its commit may come back otherwise.    *)
LastPostPrevails == accepted # Unread /\ ~undone =>
  IF pending = <<>> THEN recording = accepted ELSE pending[Len(pending)] = accepted

(* Once the presses end every tab shows what the store does, or says that it    *)
(* cannot know: a refused, timed-out or overtaken answer, a lost snapshot or a   *)
(* restart leaves no tab wrong for longer than a poll.                        *)
TabsTellTheTruth == <>[](\A t \in Tabs :
  ~busy[t] /\ IF alive THEN shown[t] = recording /\ ~failure[t] ELSE failure[t])
=============================================================================
