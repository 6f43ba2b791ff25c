------------------------------ MODULE FeedState ------------------------------
(***************************************************************************)
(* What the split api knows of the feed: the connection's transitions and    *)
(* heartbeats cross Redis on two streams into FeedConnectionCache, the badge *)
(* of /ws/chain is drawn from the cache, and POST /feed/{adapter}/{command}  *)
(* publishes a command and waits for the cache to acknowledge it.           *)
(*                                                                         *)
(* The controller's transitions are numbered in the order it made them, and  *)
(* a transition's number stands for its ts_received. A heartbeat is stamped  *)
(* between two transitions: it carries the number of the last one, whose     *)
(* state it repeats, and is newer than it.                                  *)
(***************************************************************************)
EXTENDS Integers, Sequences

CONSTANTS
  Clients,         \* who posts to the command route, one request at a time
  MaxTransitions,  \* bound: transitions the controllers make
  MaxQueued,       \* bound: commands, and heartbeats, on their stream at once
  MaxUnseen,       \* bound: updates before a waiting request looks (history's maxlen)
  MaxFaults        \* bound: lost or repeated records, and silences of a live feed

ASSUME FeedStateAssumption ==
  /\ {MaxTransitions, MaxFaults} \subseteq Nat
  /\ {MaxQueued, MaxUnseen} \subseteq Nat \ {0}

Commands == {"pause", "resume", "reconnect"}
Transitions == [state : {"connecting", "connected", "reconnecting", "stopped"},
                reason : {"start", "resume", "open", "closed", "backoff", "stopped",
                          "paused", "silent", "none"}]
Unknown == [state |-> "unknown", reason |-> "none"]

VARIABLES
  up,           \* whether a feed process runs
  paused,       \* the controller's _paused
  said,         \* the transitions made, oldest first
  control,      \* the commands on their stream, with the client that sent each
  connections,  \* feed.connection events on their stream, as transition numbers
  beats,        \* heartbeats on their stream, as transition numbers
  connection,   \* observation.connection, 0 before the first
  heartbeat,    \* observation.heartbeat, 0 before the first
  silent,       \* whether the stale bound has passed since the stale origin
  badge,        \* the last feed message sent to the browser
  request,      \* each client's command
  progress,     \* where its request is
  unseen,       \* the projections it has not looked at: does each acknowledge it?
  acked,        \* history: an acknowledging projection was made while it waits
  taken,        \* history: the clients whose last command the controller took
  faults        \* bound: faults so far

feed == <<up, paused, said>>
streams == <<control, connections, beats>>
cache == <<connection, heartbeat, silent>>
route == <<request, progress, unseen, acked>>
vars == <<feed, streams, cache, badge, route, taken, faults>>

Init ==
  /\ up = FALSE /\ paused = FALSE /\ said = <<>>
  /\ control = <<>> /\ connections = <<>> /\ beats = <<>>
  /\ connection = 0 /\ heartbeat = 0 /\ silent = FALSE
  /\ badge = Unknown
  /\ request = [c \in Clients |-> "none"] /\ progress = [c \in Clients |-> "idle"]
  /\ unseen = [c \in Clients |-> <<>>] /\ acked = [c \in Clients |-> FALSE]
  /\ taken = {} /\ faults = 0

Fault == faults < MaxFaults /\ faults' = faults + 1

----------------------------------------------------------------------------
(* The feed process: its controller and its heartbeats.                     *)
State == said[Len(said)].state

(* transition(): one move, published on the stream of feed.connection.       *)
Say(state, reason) ==
  /\ Len(said) < MaxTransitions
  /\ said' = Append(said, [state |-> state, reason |-> reason])
  /\ connections' = Append(connections, Len(said) + 1)

Start ==
  /\ ~up /\ up' = TRUE
  /\ Say("connecting", "start")
  /\ UNCHANGED <<paused, control, beats, cache, badge, route, taken, faults>>

(* What the venue and the budget move.                                      *)
Move ==
  /\ up
  /\ \/ State = "connecting" /\ Say("connected", "open")
     \/ State \in {"connecting", "connected"} /\ Say("reconnecting", "closed")
     \/ State = "reconnecting" /\ Say("connecting", "backoff")
     \/ State = "reconnecting" /\ Say("stopped", "stopped")
  /\ UNCHANGED <<up, paused, control, beats, cache, badge, route, taken, faults>>

(* _consume_control: the next command reaches pause, resume or reconnect.    *)
Consume ==
  /\ up /\ control # <<>>
  /\ control' = Tail(control)
  /\ taken' = taken \cup {Head(control).by}
  /\ LET command == Head(control).command
         Ignored == UNCHANGED <<said, connections>>
     IN  \/ /\ command = "pause"
            /\ paused' = TRUE
            /\ IF State = "stopped" THEN Ignored ELSE Say("stopped", "paused")
         \/ /\ command = "resume"
            /\ paused' = FALSE
            /\ IF paused THEN Say("connecting", "resume") ELSE Ignored
         \/ /\ command = "reconnect"
            /\ UNCHANGED paused
            /\ IF State \in {"stopped", "reconnecting"} THEN Ignored
                                                      ELSE Say("reconnecting", "closed")
  /\ UNCHANGED <<up, beats, cache, badge, route, faults>>

(* _beat: the state again, every heartbeat_every.                           *)
Beat ==
  /\ up /\ Len(beats) < MaxQueued
  /\ beats' = Append(beats, Len(said))
  /\ UNCHANGED <<feed, control, connections, cache, badge, route, taken, faults>>

(* The process dies. A reader of control.command starts at the tip of its    *)
(* stream, so the commands nobody read are never taken.                     *)
Crash ==
  /\ up /\ up' = FALSE /\ paused' = FALSE
  /\ control' = <<>>
  /\ UNCHANGED <<said, connections, beats, cache, badge, route, taken, faults>>

----------------------------------------------------------------------------
(* The bus: a record its ceiling or retention dropped, and a batch that was  *)
(* put back after Redis had applied it.                                     *)
Lose ==
  /\ Fault
  /\ \/ control # <<>> /\ control' = Tail(control) /\ UNCHANGED <<connections, beats>>
     \/ connections # <<>> /\ connections' = Tail(connections) /\ UNCHANGED <<control, beats>>
     \/ beats # <<>> /\ beats' = Tail(beats) /\ UNCHANGED <<control, connections>>
  /\ UNCHANGED <<feed, cache, badge, route, taken>>

Repeat ==
  /\ Fault
  /\ Len(said) > 1
  /\ connections' = connections \o <<Len(said) - 1, Len(said)>>
  /\ UNCHANGED <<feed, control, beats, cache, badge, route, taken>>

----------------------------------------------------------------------------
(* The cache and its projection.                                            *)
HydratesOnly(c, h) == c = 0
FromHeartbeat(c, h) == h >= c

(* _health: the newer of the two says the state. A heartbeat has no reason of *)
(* its own and borrows the last transition's if that reached the same state.  *)
Project(c, h, quiet) ==
  CASE c = 0 /\ h = 0 -> Unknown
    [] quiet /\ (c > 0 \/ h > 0) -> [state |-> "stopped", reason |-> "silent"]
    [] ~quiet /\ h > 0 /\ FromHeartbeat(c, h) ->
         [state |-> said[h].state,
          reason |-> IF c > 0 /\ said[c].state = said[h].state
                       THEN said[c].reason ELSE "none"]
    [] OTHER -> said[c]

Health == Project(connection, heartbeat, silent)

(* _command_is_acknowledged.                                                *)
Acknowledged(health, command) ==
  CASE command = "pause" -> health = [state |-> "stopped", reason |-> "paused"]
    [] command = "resume" -> health = [state |-> "connecting", reason |-> "resume"]
    [] command = "reconnect" -> health = [state |-> "reconnecting", reason |-> "closed"]

Waiting == {c \in Clients : progress[c] = "waiting"}

(* The history of projections, as far as one request has yet to look at it.  *)
LatestOnly(seen, ack) == <<ack>>
Remember(seen, ack) == Append(seen, ack)

(* apply: the projection is kept for the requests that wait.                 *)
Update(c, h, quiet) ==
  /\ \A w \in Waiting : Len(unseen[w]) < MaxUnseen
  /\ connection' = c /\ heartbeat' = h /\ silent' = quiet
  /\ LET ack(w) == Acknowledged(Project(c, h, quiet), request[w])
     IN  /\ unseen' = [w \in Clients |-> IF w \in Waiting
                                           THEN Remember(unseen[w], ack(w))
                                           ELSE unseen[w]]
         /\ acked' = [w \in Clients |-> acked[w] \/ (w \in Waiting /\ ack(w))]

Newer(k) == k > connection

ApplyConnection ==
  /\ connections # <<>>
  /\ connections' = Tail(connections)
  /\ IF Newer(Head(connections))
       THEN Update(Head(connections), heartbeat, silent)
       ELSE UNCHANGED <<cache, unseen, acked>>
  /\ UNCHANGED <<feed, control, beats, badge, request, progress, taken, faults>>

ApplyHeartbeat ==
  /\ beats # <<>>
  /\ beats' = Tail(beats)
  /\ IF Head(beats) >= heartbeat
       THEN Update(connection, Head(beats), FALSE)
       ELSE UNCHANGED <<cache, unseen, acked>>
  /\ UNCHANGED <<feed, control, connections, badge, request, progress, taken, faults>>

(* FEED_HEARTBEAT_STALE_SECONDS pass with no heartbeat: for good when the     *)
(* feed is down, once in a while when its heartbeats are held up.            *)
Silence ==
  /\ ~silent /\ (connection > 0 \/ heartbeat > 0)
  /\ silent' = TRUE
  /\ IF up THEN Fault ELSE beats = <<>> /\ UNCHANGED faults
  /\ UNCHANGED <<feed, streams, connection, heartbeat, badge, route, taken>>

(* push_feed_update: a feed message when the state is not the one last sent. *)
Push ==
  /\ Health # Unknown
  /\ Health.state # badge.state
  /\ badge' = Health
  /\ UNCHANGED <<feed, streams, cache, route, taken, faults>>

----------------------------------------------------------------------------
(* feed_command in the split composition: publish, answer from the cache if  *)
(* it acknowledges already, else wait.                                      *)
Post(c, command) ==
  /\ c \notin Waiting
  /\ up => Len(control) < MaxQueued
  /\ request' = [request EXCEPT ![c] = command]
  /\ control' = IF up THEN Append(control, [by |-> c, command |-> command]) ELSE control
  /\ taken' = taken \ {c}
  /\ progress' = [progress EXCEPT ![c] = IF Acknowledged(Health, command)
                                     THEN "cached" ELSE "waiting"]
  /\ unseen' = [unseen EXCEPT ![c] = <<>>] /\ acked' = [acked EXCEPT ![c] = FALSE]
  /\ UNCHANGED <<feed, connections, beats, cache, badge, faults>>

Look(c) ==
  /\ c \in Waiting /\ unseen[c] # <<>>
  /\ unseen' = [unseen EXCEPT ![c] = IF Head(@) THEN <<>> ELSE Tail(@)]
  /\ acked' = [acked EXCEPT ![c] = @ /\ ~Head(unseen[c])]
  /\ progress' = [progress EXCEPT ![c] = IF Head(unseen[c]) THEN "answered" ELSE @]
  /\ UNCHANGED <<feed, streams, cache, badge, request, taken, faults>>

(* COMMAND_ACK_TIMEOUT_SECONDS: 504, unless an update is at hand.            *)
Timeout(c) ==
  /\ c \in Waiting /\ unseen[c] = <<>>
  /\ progress' = [progress EXCEPT ![c] = "failed"]
  /\ UNCHANGED <<feed, streams, cache, badge, request, unseen, acked, taken, faults>>

----------------------------------------------------------------------------
Next ==
  \/ Start \/ Move \/ Consume \/ Beat \/ Crash
  \/ Lose \/ Repeat
  \/ ApplyConnection \/ ApplyHeartbeat \/ Silence \/ Push
  \/ \E c \in Clients : \/ \E command \in Commands : Post(c, command)
                        \/ Look(c) \/ Timeout(c)

Spec == Init /\ [][Next]_vars

(* The controller ticks, the cache's task drains its subscription, the clock *)
(* of the stale bound runs, the websocket pushes, a request looks.            *)
LiveSpec ==
  /\ Spec
  /\ WF_vars(Beat) /\ WF_vars(ApplyConnection) /\ WF_vars(ApplyHeartbeat)
  /\ WF_vars(Silence /\ ~up) /\ WF_vars(Push)
  /\ \A c \in Clients : WF_vars(Look(c))

----------------------------------------------------------------------------
(* The cache stands on the newest transition or heartbeat it was given, in    *)
(* whatever order the two streams and a batch written twice bring them: what *)
(* the badge and the route are told never returns to an older transition.    *)
KnownNeverGoesBack ==
  [][connection' >= connection /\ heartbeat' >= heartbeat]_<<connection, heartbeat>>

(* A 504 says that no acknowledgement came while the request waited: a state *)
(* the connection only passed through, connecting after a resume and          *)
(* reconnecting after a cut, is not missed because another followed it.       *)
FailureIsReal == \A c \in Clients : progress[c] = "failed" => ~acked[c]

(* Once transitions, faults and crashes stop, the badge settles on the state *)
(* the connection is in, and on stopped when the feed is gone, although a     *)
(* transition was lost, repeated or overtaken by a heartbeat.                *)
Truth ==
  CASE up -> State
    [] ~up /\ connection = 0 /\ heartbeat = 0 -> "unknown"
    [] OTHER -> "stopped"

BadgeConverges == <>[](badge.state = Truth)

(* commands.md promises that a request completes when the cache observes the *)
(* transition its command made. The cache cannot tell whose it was.          *)
AnswerFollowsTheCommand == \A c \in Clients : progress[c] = "answered" => c \in taken

(* live-chain-contract.md promises that stopped / silent is sent when the     *)
(* stale bound is crossed. A badge that reads stopped already stays as it is. *)
SilenceIsSent ==
  (badge.reason = "paused" /\ silent /\ ~up) ~> (badge.reason # "paused" \/ up)
=============================================================================
