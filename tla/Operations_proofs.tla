------------------------ MODULE Operations_proofs ------------------------
(***************************************************************************)
(* Proofs about the processes and those who watch and command them.            *)
(*                                                                         *)
(* The alert gate silences exactly what was heard, for every set of signatures,  *)
(* window, floor and timeout. GateIsExact speaks of the moments between alerts    *)
(* and is not inductive: what a rollback restores depends on what the decision    *)
(* found. The invariant adds what is true while a request is in flight: the       *)
(* window of its signature was taken when the request was decided, and Discord    *)
(* had answered none like it.                                               *)
(*                                                                         *)
(* A process closes clean, whatever it is, however often Redis stops answering    *)
(* and however many of its tasks die. Two things are said of the steps of a        *)
(* shutdown that are still to come: they close all that is running, and behind    *)
(* the close of the bus there is only the client, which says nothing. So what      *)
(* speaks after a flush has a flush to come, or the last one went wrong.          *)
(*                                                                         *)
(* The recording switch of any number of tabs settles on the last post: a store    *)
(* that is dead takes up again what its checkpoint says, so what it does and what   *)
(* is durable are kept together. The health report hides no trouble: what the      *)
(* store has lost, or is behind by, is known to the monitor as soon as a poll has   *)
(* had the time to find it, and stays known until one finds it gone.              *)
(*                                                                         *)
(* A command to the feed (FeedState) is only said to have failed if nothing        *)
(* acknowledged it: the acknowledgement a waiting request has had is among the     *)
(* records it has still to look at.                                           *)
(***************************************************************************)
EXTENDS Operations, FeedState, TLAPS

(* The signatures that are not being posted are silenced as long as their last *)
(* answer is recent.                                                       *)
OthersAgree == \A s \in Signatures : s # call => sincePost[s] = sinceAnswered[s]

(* The one being posted had a free window, and took it with the decision.     *)
CallTookTheWindow == call # None => sincePost[call] = callAge /\ sinceAnswered[call] = Window

(* Every request, and nothing else, takes the floor.                         *)
FloorAgrees == sinceLast = sinceCall

GateInvariant == TypeOK /\ OthersAgree /\ CallTookTheWindow /\ FloorAgrees /\ FoldsAreExact

----------------------------------------------------------------------------
(* An age stays within its limit.                                           *)
LEMMA OlderIsAnAge ==
  ASSUME NEW limit \in Nat, NEW age \in 0..limit
  PROVE  Older(age, limit) \in 0..limit
  BY DEF Older

(* An age below its limit is one tick older.                                 *)
LEMMA OlderIsNext ==
  ASSUME NEW limit \in Nat, NEW age \in 0..limit, age < limit
  PROVE  Older(age, limit) = age + 1
  BY DEF Older

(* The invariant gives the property.                                         *)
LEMMA InvariantIsEnough == GateInvariant => GateIsExact
<1>1. SUFFICES ASSUME GateInvariant, call = None PROVE SilenceIsExact
  BY DEF GateIsExact, GateInvariant, SilenceIsExact, SilenceHasAReason, CallsAreSpaced
<1>2. \A s \in Signatures : sincePost[s] = sinceAnswered[s]
  BY <1>1, AlertsAssumption DEF GateInvariant, OthersAgree
<1>3. sinceLast = sinceCall
  BY <1>1 DEF GateInvariant, FloorAgrees
<1>4. QED
  BY <1>2, <1>3 DEF SilenceIsExact, SilenceHasAReason, CallsAreSpaced, Collapsed, RateLimited

(* A service that has just come up has heard nothing.                        *)
LEMMA FreshIsExact == ASSUME AlertsInit PROVE GateInvariant
  BY AlertsAssumption
  DEF AlertsInit, Fresh, GateInvariant, TypeOK, OthersAgree, CallTookTheWindow, FloorAgrees, FoldsAreExact

----------------------------------------------------------------------------
(* Time ages both sides alike, and a call no further than its timeout.        *)
LEMMA AgeKeeps == ASSUME GateInvariant, AlertsAge PROVE GateInvariant'
<1> USE AlertsAssumption DEF GateInvariant
<1>1. TypeOK
  OBVIOUS
<1>2. callAge' \in 0..CallTimeout
  BY <1>1 DEF AlertsAge, TypeOK
<1>3. sincePost' \in [Signatures -> 0..Window] /\ sinceAnswered' \in [Signatures -> 0..Window]
  BY <1>1, OlderIsAnAge DEF AlertsAge, TypeOK
<1>4. sinceLast' \in 0..Floor /\ sinceCall' \in 0..Floor
  BY <1>1, OlderIsAnAge DEF AlertsAge, TypeOK
<1>5. TypeOK'
  BY <1>1, <1>2, <1>3, <1>4 DEF AlertsAge, TypeOK
<1>6. OthersAgree'
  BY DEF AlertsAge, OthersAgree
<1>7. CallTookTheWindow'
  <2>1. SUFFICES ASSUME call # None PROVE sincePost[call]' = callAge' /\ sinceAnswered[call]' = Window
    BY DEF CallTookTheWindow, AlertsAge
  <2>2. call \in Signatures /\ call' = call /\ callAge' = callAge + 1
    BY <1>1, <2>1 DEF TypeOK, AlertsAge
  <2>3. sincePost[call] = callAge /\ sinceAnswered[call] = Window /\ callAge < CallTimeout
    BY <2>1 DEF CallTookTheWindow, AlertsAge
  <2>4. sincePost[call] \in 0..Window /\ sincePost[call] < Window
    BY <1>1, <2>2, <2>3 DEF TypeOK
  <2>5. sincePost'[call] = Older(sincePost[call], Window) /\ sinceAnswered'[call] = Older(sinceAnswered[call], Window)
    BY <2>2 DEF AlertsAge
  <2>6. Older(sinceAnswered[call], Window) = Window
    BY <2>3 DEF Older
  <2>7. QED
    BY <2>2, <2>3, <2>4, <2>5, <2>6, OlderIsNext
<1>8. FloorAgrees' /\ FoldsAreExact'
  BY DEF AlertsAge, FloorAgrees, FoldsAreExact
<1>9. QED
  BY <1>5, <1>6, <1>7, <1>8

(* The decision, all four ways.                                              *)
LEMMA DecisionKeeps ==
  ASSUME GateInvariant, NEW s \in Signatures, Fold(s) \/ Drop(s) \/ Request(s) \/ Skip(s)
  PROVE  GateInvariant'
<1> USE AlertsAssumption DEF GateInvariant
<1>1. TypeOK /\ call = None /\ s # None
  BY DEF Fold, Drop, Request, Skip
<1>2. \A t \in Signatures : sincePost[t] = sinceAnswered[t]
  BY <1>1 DEF OthersAgree
<1>3. CASE Fold(s)
  <2>1. TypeOK'
    BY <1>1, <1>3 DEF Fold, TypeOK
  <2>2. OthersAgree' /\ CallTookTheWindow' /\ FloorAgrees'
    BY <1>1, <1>2, <1>3 DEF Fold, OthersAgree, CallTookTheWindow, FloorAgrees
  <2>3. FoldsAreExact'
    BY <1>3 DEF Fold, FoldsAreExact
  <2>4. QED
    BY <2>1, <2>2, <2>3
<1>4. CASE Drop(s)
  BY <1>1, <1>2, <1>4 DEF Drop, alertHistory, TypeOK, OthersAgree, CallTookTheWindow, FloorAgrees, FoldsAreExact
<1>5. CASE Request(s)
  <2>1. sincePost[s] = Window
    BY <1>1, <1>5 DEF Request, Collapsed, TypeOK
  <2>2. TypeOK'
    BY <1>1, <1>5 DEF Request, TypeOK
  <2>3. OthersAgree'
    BY <1>1, <1>2, <1>5 DEF Request, OthersAgree, TypeOK
  <2>4. CallTookTheWindow'
    BY <1>1, <1>2, <1>5, <2>1 DEF Request, CallTookTheWindow, TypeOK
  <2>5. FloorAgrees' /\ FoldsAreExact'
    BY <1>5 DEF Request, FloorAgrees, FoldsAreExact
  <2>6. QED
    BY <2>2, <2>3, <2>4, <2>5
<1>6. CASE Skip(s)
  <2>1. sincePost[s] = Window /\ sinceLast = Floor
    BY <1>1, <1>6 DEF Skip, Collapsed, RateLimited, TypeOK
  <2>2. sincePost' = sincePost /\ sinceLast' = sinceLast
    BY <1>1, <1>6, <2>1 DEF Skip, RolledBack, TypeOK
  <2>3. QED
    BY <1>1, <1>2, <1>6, <2>2
    DEF Skip, RolledBack, alertHistory, TypeOK, OthersAgree, CallTookTheWindow, FloorAgrees, FoldsAreExact
<1>7. QED
  BY <1>3, <1>4, <1>5, <1>6

(* Discord answers, with a 2xx or a 429: the window it took is now earned.     *)
LEMMA AnswerKeeps ==
  ASSUME GateInvariant, Delivered \/ \E r \in RetryAfters : Refused(r)
  PROVE  GateInvariant'
<1> USE AlertsAssumption DEF GateInvariant
<1>1. TypeOK /\ call \in Signatures /\ sincePost[call] = callAge
  BY DEF TypeOK, CallTookTheWindow, Delivered, Refused
<1>2. /\ call' = None /\ callAge' = 0 /\ snapshot' = 0
      /\ sinceAnswered' = [sinceAnswered EXCEPT ![call] = callAge]
      /\ UNCHANGED <<webhook, sincePost, suppressed, sinceLast, sinceCall, folded>>
  BY DEF Delivered, Refused, Answered
<1>3. blocked' \in Nat /\ asked' \in Nat
  <2>1. CASE Delivered
    BY <1>1, <2>1 DEF Delivered, TypeOK
  <2>2. CASE \E r \in RetryAfters : Refused(r)
    BY <1>1, <2>2 DEF Refused, Backoff, TypeOK
  <2>3. QED
    BY <2>1, <2>2
<1>4. callAge \in 0..Window /\ 0 \in 0..CallTimeout
  BY <1>1 DEF TypeOK
<1>5. TypeOK'
  BY <1>1, <1>2, <1>3, <1>4 DEF TypeOK
<1>6. OthersAgree'
  BY <1>1, <1>2 DEF OthersAgree, TypeOK
<1>7. CallTookTheWindow' /\ FloorAgrees' /\ FoldsAreExact'
  BY <1>2 DEF CallTookTheWindow, FloorAgrees, FoldsAreExact
<1>8. QED
  BY <1>5, <1>6, <1>7

(* Nobody answered: exactly the window is given back.                        *)
LEMMA FailureKeeps == ASSUME GateInvariant, Failed PROVE GateInvariant'
<1> USE AlertsAssumption DEF GateInvariant
<1>1. TypeOK /\ call \in Signatures /\ sinceAnswered[call] = Window
  BY DEF TypeOK, CallTookTheWindow, Failed
<1>2. 0 \in 0..CallTimeout /\ Window \in 0..Window
  OBVIOUS
<1>3. TypeOK'
  BY <1>1, <1>2 DEF Failed, Answered, WindowBack, alertHistory, TypeOK
<1>4. OthersAgree'
  BY <1>1 DEF Failed, Answered, WindowBack, alertHistory, OthersAgree, TypeOK
<1>5. CallTookTheWindow' /\ FloorAgrees' /\ FoldsAreExact'
  BY DEF Failed, Answered, WindowBack, alertHistory, CallTookTheWindow, FloorAgrees, FoldsAreExact
<1>6. QED
  BY <1>3, <1>4, <1>5

(* A restart forgets both sides.                                             *)
LEMMA RestartKeeps == ASSUME GateInvariant, ServiceRestarts PROVE GateInvariant'
  BY AlertsAssumption
  DEF ServiceRestarts, GateInvariant, TypeOK, OthersAgree, CallTookTheWindow, FloorAgrees, FoldsAreExact

(* A step of anything else changes nothing here.                             *)
LEMMA StutterKeeps == ASSUME GateInvariant, UNCHANGED alertVars PROVE GateInvariant'
  BY DEF alertVars, gate, alertHistory, GateInvariant, TypeOK, OthersAgree, CallTookTheWindow,
         FloorAgrees, FoldsAreExact

(* The invariant holds of every behaviour.                                   *)
LEMMA GateInvariantHolds == AlertsSpec => []GateInvariant
<1>1. AlertsInit => GateInvariant
  BY FreshIsExact
<1>2. GateInvariant /\ [AlertsNext]_alertVars => GateInvariant'
  BY AgeKeeps, DecisionKeeps, AnswerKeeps, FailureKeeps, RestartKeeps, StutterKeeps DEF AlertsNext
<1>3. QED
  BY <1>1, <1>2, PTL DEF AlertsSpec

----------------------------------------------------------------------------
(* Every variable of the gate, the poster and the history has its type.       *)
THEOREM AlertTypes == AlertsSpec => []TypeOK
<1>1. GateInvariant => TypeOK
  BY DEF GateInvariant
<1>2. QED
  BY <1>1, GateInvariantHolds, PTL

(* An alert is silenced exactly when one like it was answered inside the window  *)
(* or any request was made inside the floor, and repeats are counted exactly,   *)
(* whatever failed, was rolled back or was skipped (AlertGate.decide and its     *)
(* two rollbacks).                                                          *)
THEOREM GateIsAlwaysExact == AlertsSpec => []GateIsExact
  BY InvariantIsEnough, GateInvariantHolds, PTL

----------------------------------------------------------------------------
(* What each process may have running, and what of it speaks.                 *)
Parts ==
  CASE process = "monolith" -> {"client", "supervisor"} \cup MonolithTasks
    [] process = "api" -> BusParts \cup ApiReaders \cup ApiTasks
    [] process = "feed" -> BusParts \cup {"client", "supervisor", "instrument-relist", "read-feed-control", "feed-control"}
    [] process = "store" -> BusParts \cup StoreReaders \cup StoreTasks
    [] process = "alerts" -> BusParts \cup {"read-alerts", "alert-consumer"}

Speakers == {"supervisor", "store-state", "store-writer", "computed-chain-publisher"}

(* What the steps of a shutdown close.                                       *)
Closes(step) ==
  CASE step = "tasks" -> Tasks \cup {"instrument-relist"}
    [] step = "supervisor" -> {"supervisor"}
    [] step = "bus" -> Readers \cup BusParts
    [] step = "client" -> {"client"}
    [] OTHER -> {}

Steps == {"tasks", "supervisor", "writer", "bus", "client"}

StillCloses(steps, piece) == \E i \in 1..Len(steps) : piece \in Closes(steps[i])
BusComes(steps) == \E i \in 1..Len(steps) : steps[i] = "bus"
OnlyTheClient(steps) == \A i \in 1..Len(steps) : steps[i] = "client"
BusIsLast(steps) == \A i, j \in 1..Len(steps) : i < j /\ steps[i] = "bus" => steps[j] = "client"

(* A process starts only the parts that are its own.                          *)
Starting == {"client", "bus", "control", "listing", "groups", "checkpoint"}

StagesFit ==
  /\ process \in {"monolith", "api", "feed", "store", "alerts"}
  /\ stage \in Starting \cup {"serving", "closing", "over"}
  /\ stage = "control" => process = "feed"
  /\ stage \in {"groups", "checkpoint"} => process = "store"
  /\ stage \in {"client", "listing"} => process \in {"monolith", "feed"}
  /\ stage = "bus" => process # "monolith"

(* Until it serves it has said nothing.                                      *)
StartsQuietly ==
  stage \in Starting =>
    /\ running \subseteq Parts \ Speakers
    /\ outbox = {} /\ wentWrong = {}
    /\ stage = "bus" => running = {}
    /\ stage = "client" => running \subseteq BusParts
    /\ process = "monolith" => running \subseteq {"client"}

(* While it serves, its shutdown would close all of it.                       *)
ServesItsParts ==
  stage = "serving" =>
    /\ running \subseteq Parts
    /\ process = "monolith" /\ "no venue" \in wentWrong => running \subseteq {"client"}

(* While it closes, the rest of the shutdown does, and sends the last words.   *)
ClosesTheRest ==
  stage = "closing" =>
    /\ toClose \in Seq(Steps)
    /\ \A piece \in running : StillCloses(toClose, piece)
    /\ BusIsLast(toClose)
    /\ BusComes(toClose) \/ process = "monolith"
         \/ (OnlyTheClient(toClose) /\ (outbox = {} \/ "last flush" \in wentWrong))

(* When it is over nothing speaks any more.                                  *)
IsOver ==
  stage = "over" =>
    /\ running = {} \/ wentWrong \cap {"preparation", "last commit"} # {}
    /\ running \cap Speakers = {} \/ "last commit" \in wentWrong
    /\ outbox = {} \/ wentWrong \cap {"last flush", "last commit"} # {}

MonolithIsSilent == process = "monolith" => outbox = {}

LifespanInvariant ==
  /\ StagesFit /\ StartsQuietly /\ ServesItsParts /\ ClosesTheRest /\ IsOver
  /\ MonolithIsSilent

----------------------------------------------------------------------------
(* What a step leaves of the sequence it begins.                              *)
LEMMA TailIsTheRest ==
  ASSUME NEW steps \in Seq(Steps), steps # <<>>
  PROVE  /\ Tail(steps) \in Seq(Steps)
         /\ Len(steps) \in Nat \ {0} /\ Len(Tail(steps)) = Len(steps) - 1
         /\ Head(steps) = steps[1]
         /\ \A i \in 1..Len(Tail(steps)) : Tail(steps)[i] = steps[i + 1]
  OBVIOUS

(* What the rest closes is all but what the step closes.                      *)
LEMMA TailStillCloses ==
  ASSUME NEW steps \in Seq(Steps), steps # <<>>, NEW piece,
         StillCloses(steps, piece), piece \notin Closes(Head(steps))
  PROVE  StillCloses(Tail(steps), piece)
<1>1. PICK i \in 1..Len(steps) : piece \in Closes(steps[i])
  BY DEF StillCloses
<1>2. i # 1
  BY <1>1, TailIsTheRest
<1>3. i - 1 \in 1..Len(Tail(steps)) /\ Tail(steps)[i - 1] = steps[i]
  BY <1>1, <1>2, TailIsTheRest
<1>4. QED
  BY <1>1, <1>3 DEF StillCloses

(* The bus still comes, unless the step was its close.                        *)
LEMMA BusStillComes ==
  ASSUME NEW steps \in Seq(Steps), steps # <<>>, BusComes(steps), Head(steps) # "bus"
  PROVE  BusComes(Tail(steps))
<1>1. PICK i \in 1..Len(steps) : steps[i] = "bus"
  BY DEF BusComes
<1>2. i - 1 \in 1..Len(Tail(steps)) /\ Tail(steps)[i - 1] = steps[i]
  BY <1>1, TailIsTheRest
<1>3. QED
  BY <1>1, <1>2 DEF BusComes

(* Behind the bus comes only the client, and behind the client too.            *)
LEMMA OrderIsKept ==
  ASSUME NEW steps \in Seq(Steps), steps # <<>>, BusIsLast(steps)
  PROVE  /\ BusIsLast(Tail(steps))
         /\ Head(steps) = "bus" => OnlyTheClient(Tail(steps))
         /\ OnlyTheClient(steps) => OnlyTheClient(Tail(steps)) /\ Head(steps) = "client"
<1>1. BusIsLast(Tail(steps))
  <2>1. SUFFICES ASSUME NEW i \in 1..Len(Tail(steps)), NEW j \in 1..Len(Tail(steps)), i < j, Tail(steps)[i] = "bus"
                 PROVE  Tail(steps)[j] = "client"
    BY DEF BusIsLast
  <2>2. i + 1 \in 1..Len(steps) /\ j + 1 \in 1..Len(steps) /\ i + 1 < j + 1
    BY <2>1, TailIsTheRest
  <2>3. QED
    BY <2>1, <2>2, TailIsTheRest DEF BusIsLast
<1>2. ASSUME Head(steps) = "bus" PROVE OnlyTheClient(Tail(steps))
  <2>1. SUFFICES ASSUME NEW i \in 1..Len(Tail(steps)) PROVE Tail(steps)[i] = "client"
    BY DEF OnlyTheClient
  <2>2. 1 \in 1..Len(steps) /\ i + 1 \in 1..Len(steps) /\ 1 < i + 1
    BY <2>1, TailIsTheRest
  <2>3. QED
    BY <1>2, <2>2, TailIsTheRest DEF BusIsLast
<1>3. ASSUME OnlyTheClient(steps) PROVE OnlyTheClient(Tail(steps)) /\ Head(steps) = "client"
  <2>1. 1 \in 1..Len(steps) /\ \A i \in 1..Len(Tail(steps)) : i + 1 \in 1..Len(steps)
    BY TailIsTheRest
  <2>2. QED
    BY <1>3, <2>1, TailIsTheRest DEF OnlyTheClient
<1>4. QED
  BY <1>1, <1>2, <1>3

----------------------------------------------------------------------------
(* Each step of the start brings up parts of the process that do not speak yet.  *)
LEMMA StartKeeps ==
  ASSUME LifespanInvariant,
         OpenClient \/ StartBus \/ BusUnavailable \/ Control \/ PrepareStore \/ PrepareFails
  PROVE  LifespanInvariant'
<1> USE DEF LifespanInvariant
<1>1. /\ StagesFit /\ StartsQuietly /\ stage \in Starting /\ MonolithIsSilent
      /\ UNCHANGED <<process, ended, toClose, redisUp, outbox, outages>>
  BY DEF OpenClient, StartBus, BusUnavailable, Control, PrepareStore, PrepareFails, Started, Starting
<1>2. outbox = {} /\ wentWrong = {} /\ running \subseteq Parts \ Speakers
  BY <1>1 DEF StartsQuietly
<1>3. Parts' = Parts
  BY <1>1 DEF Parts
<1>4. stage' # "closing" /\ MonolithIsSilent'
  BY <1>1 DEF OpenClient, StartBus, AfterTheBus, BusUnavailable, Control, PrepareStore, PrepareFails,
              Goes, Gives, MonolithIsSilent, StagesFit
<1>5. ASSUME NEW next, NEW parts, Goes(next, parts), UNCHANGED wentWrong,
             next \in Starting \cup {"serving"}, next # "bus", parts \subseteq Parts,
             next = "client" => running \cup parts \subseteq BusParts,
             next \in Starting => parts \cap Speakers = {},
             process = "monolith" => running \cup parts \subseteq {"client"}
      PROVE  StartsQuietly' /\ ServesItsParts' /\ ClosesTheRest' /\ IsOver'
  BY <1>1, <1>2, <1>3, <1>5 DEF Goes, StartsQuietly, ServesItsParts, ClosesTheRest, IsOver, Starting
<1>6. CASE OpenClient
  <2>1. "client" \in Parts /\ "client" \notin Speakers
    BY <1>1, <1>6 DEF OpenClient, StagesFit, Parts, Speakers
  <2>2. StagesFit'
    BY <1>1, <1>6 DEF OpenClient, StagesFit, Goes, Starting
  <2>3. process = "monolith" => running \subseteq {"client"}
    BY <1>1 DEF StartsQuietly
  <2>4. QED
    BY <1>4, <1>5, <1>6, <2>1, <2>2, <2>3 DEF OpenClient, Starting
<1>7. CASE StartBus
  <2>1. process # "monolith" /\ process \in {"api", "feed", "store", "alerts"}
    BY <1>1, <1>7 DEF StartBus, StagesFit
  <2>2. StagesFit'
    BY <1>1, <1>7, <2>1 DEF StartBus, AfterTheBus, StagesFit, Goes, Starting
  <2>3. BusParts \cap Speakers = {} /\ (process \in {"feed", "store"} => BusParts \subseteq Parts)
    BY DEF BusParts, Speakers, Parts
  <2>4. CASE process = "api"
    BY <1>4, <1>5, <1>7, <2>2, <2>4 DEF StartBus, AfterTheBus, Parts, Starting
  <2>5. CASE process = "alerts"
    BY <1>4, <1>5, <1>7, <2>2, <2>5 DEF StartBus, AfterTheBus, Parts, Starting
  <2>6. CASE process = "feed"
    <3>1. running = {}
      BY <1>1, <1>7 DEF StartBus, StartsQuietly
    <3>2. QED
      BY <1>4, <1>5, <1>7, <2>2, <2>3, <2>6, <3>1 DEF StartBus, AfterTheBus, Starting
  <2>7. CASE process = "store"
    BY <1>4, <1>5, <1>7, <2>2, <2>3, <2>7 DEF StartBus, AfterTheBus, Starting
  <2>8. QED
    BY <2>1, <2>4, <2>5, <2>6, <2>7
<1>8. CASE BusUnavailable
  <2>1. running = {} /\ stage' = "over" /\ running' = running
    BY <1>1, <1>8 DEF BusUnavailable, StartsQuietly, Gives
  <2>2. QED
    BY <1>1, <1>2, <1>4, <2>1 DEF StagesFit, StartsQuietly, ServesItsParts, ClosesTheRest, IsOver, Starting
<1>9. CASE Control
  <2>1. process = "feed"
    BY <1>1, <1>9 DEF Control, StagesFit
  <2>2. StagesFit'
    BY <1>1, <1>9, <2>1 DEF Control, StagesFit, Goes, Starting
  <2>3. {"read-feed-control", "feed-control"} \subseteq Parts /\ {"read-feed-control", "feed-control"} \cap Speakers = {}
    BY <2>1 DEF Parts, Speakers
  <2>4. QED
    BY <1>4, <1>5, <1>9, <2>1, <2>2, <2>3 DEF Control, Starting
<1>10. CASE PrepareStore
  <2>1. process = "store"
    BY <1>1, <1>10 DEF PrepareStore, StagesFit
  <2>2. StagesFit'
    BY <1>1, <1>10, <2>1 DEF PrepareStore, StagesFit, Goes, Starting
  <2>3. StoreReaders \subseteq Parts /\ StoreReaders \cap Speakers = {}
    BY <2>1 DEF Parts, Speakers, StoreReaders
  <2>4. QED
    BY <1>4, <1>5, <1>10, <2>1, <2>2, <2>3 DEF PrepareStore, Starting
<1>11. CASE PrepareFails
  <2>1. stage' = "over" /\ running' = running /\ wentWrong' = {"preparation"}
    BY <1>2, <1>11 DEF PrepareFails, Gives
  <2>2. QED
    BY <1>1, <1>2, <1>4, <2>1 DEF StagesFit, StartsQuietly, ServesItsParts, ClosesTheRest, IsOver, Starting
<1>12. QED
  BY <1>6, <1>7, <1>8, <1>9, <1>10, <1>11

(* With its last parts up, or without the venue, it serves.                    *)
LEMMA ServingBegins ==
  ASSUME LifespanInvariant, StartFeed \/ DeltaUnavailable \/ StartStore
  PROVE  LifespanInvariant'
<1> USE DEF LifespanInvariant
<1>1. /\ StagesFit /\ StartsQuietly /\ stage \in Starting /\ stage' = "serving" /\ process' = process
  BY DEF StartFeed, DeltaUnavailable, StartStore, Started, Starting, Goes, Gives
<1>2. outbox = {} /\ wentWrong = {} /\ running \subseteq Parts /\ Parts' = Parts
  BY <1>1 DEF StartsQuietly, Parts
<1>3. StagesFit' /\ StartsQuietly' /\ ClosesTheRest' /\ IsOver'
  BY <1>1 DEF StagesFit, StartsQuietly, ClosesTheRest, IsOver, Starting
<1>4. CASE StartFeed
  <2>1. process \in {"monolith", "feed"} /\ outbox' = outbox
    BY <1>1, <1>4 DEF StartFeed, StagesFit, Started
  <2>2. {"supervisor"} \cup FedTasks \subseteq Parts
    BY <2>1 DEF FedTasks, Parts
  <2>3. running' = running \cup ({"supervisor"} \cup FedTasks) /\ wentWrong' = wentWrong
    BY <1>4 DEF StartFeed, Goes
  <2>4. QED
    BY <1>1, <1>2, <1>3, <2>1, <2>2, <2>3 DEF ServesItsParts, MonolithIsSilent
<1>5. CASE DeltaUnavailable
  BY <1>1, <1>2, <1>3, <1>5 DEF DeltaUnavailable, Gives, Started, StartsQuietly, ServesItsParts, MonolithIsSilent
<1>6. CASE StartStore
  <2>1. process = "store" /\ wentWrong' = wentWrong /\ running' = running \cup StoreTasks
    BY <1>1, <1>6 DEF StartStore, StagesFit, Goes
  <2>2. StoreTasks \subseteq Parts
    BY <2>1 DEF Parts
  <2>3. QED
    BY <1>1, <1>2, <1>3, <2>1, <2>2 DEF ServesItsParts, MonolithIsSilent
<1>7. QED
  BY <1>4, <1>5, <1>6

----------------------------------------------------------------------------
(* What still speaks has its flush to come.                                  *)
LEMMA PublishKeeps == ASSUME LifespanInvariant, Publish PROVE LifespanInvariant'
<1> USE DEF LifespanInvariant
<1>1. PICK piece \in running \cap Speakers : process # "monolith"
  BY DEF Publish, Speakers
<1>2. UNCHANGED <<process, stage, running, ended, toClose, redisUp, outages, wentWrong>>
  BY DEF Publish
<1>3. Parts' = Parts
  BY <1>2 DEF Parts
<1>4. stage \notin Starting
  BY <1>1 DEF StartsQuietly
<1>5. ASSUME stage = "closing", OnlyTheClient(toClose) PROVE FALSE
  <2>1. StillCloses(toClose, piece)
    BY <1>1, <1>5 DEF ClosesTheRest
  <2>2. piece \in Closes("client")
    BY <2>1, <1>5 DEF StillCloses, OnlyTheClient
  <2>3. QED
    BY <1>1, <2>2 DEF Closes, Speakers
<1>6. stage = "over" => "last commit" \in wentWrong
  BY <1>1 DEF IsOver
<1>7. StagesFit' /\ StartsQuietly' /\ ServesItsParts' /\ MonolithIsSilent'
  BY <1>1, <1>2, <1>3, <1>4 DEF StagesFit, StartsQuietly, ServesItsParts, MonolithIsSilent
<1>8. ClosesTheRest'
  BY <1>2, <1>5 DEF ClosesTheRest
<1>9. IsOver'
  BY <1>2, <1>6 DEF IsOver
<1>10. QED
  BY <1>7, <1>8, <1>9

(* A flush, an outage and its end only empty the outbox or leave it.           *)
LEMMA RedisKeeps ==
  ASSUME LifespanInvariant, Flush \/ RedisStops \/ RedisReturns \/ UNCHANGED lifespanVars
  PROVE  LifespanInvariant'
<1> USE DEF LifespanInvariant
<1>1. /\ UNCHANGED <<process, stage, running, toClose, wentWrong>>
      /\ outbox' = {} \/ outbox' = outbox
  BY DEF Flush, RedisStops, RedisReturns, lifespanVars
<1>2. Parts' = Parts
  BY <1>1 DEF Parts
<1>3. ClosesTheRest'
  BY <1>1 DEF ClosesTheRest
<1>4. QED
  BY <1>1, <1>2, <1>3 DEF StagesFit, StartsQuietly, ServesItsParts, IsOver, MonolithIsSilent

(* A task that dies leaves less to close; the monolith has no reader whose death *)
(* the bus would report.                                                    *)
LEMMA DeathKeeps == ASSUME LifespanInvariant, EndsByItself PROVE LifespanInvariant'
<1> USE DEF LifespanInvariant
<1>1. PICK piece \in running \cap Mortal :
        /\ stage = "serving" /\ running' = running \ {piece}
        /\ outbox' = outbox \cup (IF piece \in Readers THEN {"alert"} ELSE {})
        /\ UNCHANGED <<process, stage, toClose, wentWrong>>
  BY DEF EndsByItself
<1>2. Parts' = Parts
  BY <1>1 DEF Parts
<1>3. MonolithIsSilent'
  <2>1. process = "monolith" => Parts \cap Readers = {}
    BY DEF Parts, MonolithTasks, Readers, ApiReaders, StoreReaders
  <2>2. QED
    BY <1>1, <2>1 DEF ServesItsParts, MonolithIsSilent
<1>4. QED
  BY <1>1, <1>2, <1>3 DEF StagesFit, StartsQuietly, ServesItsParts, ClosesTheRest, IsOver, Starting

(* The order of each shutdown: it closes all the parts, and the bus behind all   *)
(* that speaks.                                                             *)
LEMMA ShutdownIsComplete ==
  ASSUME process \in {"monolith", "api", "feed", "store", "alerts"}
  PROVE  /\ Closing \in Seq(Steps) /\ BusIsLast(Closing)
         /\ process # "monolith" => BusComes(Closing)
         /\ ~(process = "monolith" /\ "no venue" \in wentWrong) =>
              \A piece \in Parts : StillCloses(Closing, piece)
         /\ process = "monolith" => StillCloses(Closing, "client")
<1>1. CASE process = "monolith" /\ "no venue" \in wentWrong
  <2>1. Closing = <<"supervisor", "client">>
    BY <1>1 DEF Closing
  <2>2. /\ Closing \in Seq(Steps)
        /\ Len(Closing) = 2 /\ Closing[1] = "supervisor" /\ Closing[2] = "client"
    <3>1. "supervisor" \in Steps /\ "client" \in Steps
      BY DEF Steps
    <3>2. <<"supervisor", "client">> \in Seq(Steps)
      BY <3>1
    <3>3. QED
      BY <2>1, <3>2
  <2>3. BusIsLast(Closing) /\ StillCloses(Closing, "client")
    BY <2>2 DEF BusIsLast, StillCloses, Closes
  <2>4. QED
    BY <1>1, <2>2, <2>3
<1>2. CASE process = "monolith" /\ "no venue" \notin wentWrong
  <2>1. Closing = <<"supervisor", "tasks", "writer", "client">>
    BY <1>2 DEF Closing
  <2>2. /\ Closing \in Seq(Steps) /\ Len(Closing) = 4
        /\ Closing[1] = "supervisor" /\ Closing[2] = "tasks" /\ Closing[3] = "writer" /\ Closing[4] = "client"
    BY <2>1 DEF Steps
  <2>3. BusIsLast(Closing) /\ StillCloses(Closing, "client")
    BY <2>2 DEF BusIsLast, StillCloses, Closes
  <2>4. ASSUME NEW piece \in Parts PROVE piece \in Closes("supervisor") \cup Closes("tasks") \cup Closes("client")
    BY <1>2, <2>4 DEF Parts, Closes, Tasks
  <2>5. ASSUME NEW piece \in Parts PROVE StillCloses(Closing, piece)
    <3>1. {1, 2, 4} \subseteq 1..Len(Closing)
      BY <2>2
    <3>2. QED
      BY <2>2, <2>4, <3>1 DEF StillCloses
  <2>6. QED
    BY <1>2, <2>2, <2>3, <2>5
<1>3. CASE process = "feed"
  <2>1. Closing = <<"tasks", "supervisor", "bus", "client">>
    BY <1>3 DEF Closing
  <2>2. /\ Closing \in Seq(Steps) /\ Len(Closing) = 4
        /\ Closing[1] = "tasks" /\ Closing[2] = "supervisor" /\ Closing[3] = "bus" /\ Closing[4] = "client"
    BY <2>1 DEF Steps
  <2>3. BusIsLast(Closing) /\ BusComes(Closing)
    BY <2>2 DEF BusIsLast, BusComes
  <2>4. ASSUME NEW piece \in Parts
        PROVE  piece \in Closes("tasks") \cup Closes("supervisor") \cup Closes("bus") \cup Closes("client")
    BY <1>3, <2>4 DEF Parts, Closes, Tasks, Readers
  <2>5. QED
    BY <1>3, <2>2, <2>3, <2>4 DEF StillCloses
<1>4. CASE process = "store"
  <2>1. Closing = <<"tasks", "writer", "bus">>
    BY <1>4 DEF Closing
  <2>2. /\ Closing \in Seq(Steps) /\ Len(Closing) = 3
        /\ Closing[1] = "tasks" /\ Closing[2] = "writer" /\ Closing[3] = "bus"
    BY <2>1 DEF Steps
  <2>3. BusIsLast(Closing) /\ BusComes(Closing)
    BY <2>2 DEF BusIsLast, BusComes
  <2>4. ASSUME NEW piece \in Parts PROVE piece \in Closes("tasks") \cup Closes("bus")
    BY <1>4, <2>4 DEF Parts, Closes, Tasks, Readers
  <2>5. ASSUME NEW piece \in Parts PROVE StillCloses(Closing, piece)
    <3>1. {1, 3} \subseteq 1..Len(Closing)
      BY <2>2
    <3>2. QED
      BY <2>2, <2>4, <3>1 DEF StillCloses
  <2>6. QED
    BY <1>4, <2>2, <2>3, <2>5
<1>5. CASE process \in {"api", "alerts"}
  <2>1. Closing = <<"tasks", "bus">>
    BY <1>5 DEF Closing
  <2>2. Closing \in Seq(Steps) /\ Len(Closing) = 2 /\ Closing[1] = "tasks" /\ Closing[2] = "bus"
    BY <2>1 DEF Steps
  <2>3. BusIsLast(Closing) /\ BusComes(Closing)
    BY <2>2 DEF BusIsLast, BusComes
  <2>4. ASSUME NEW piece \in Parts PROVE piece \in Closes("tasks") \cup Closes("bus")
    BY <1>5, <2>4 DEF Parts, Closes, Tasks, Readers
  <2>5. ASSUME NEW piece \in Parts PROVE StillCloses(Closing, piece)
    <3>1. {1, 2} \subseteq 1..Len(Closing)
      BY <2>2
    <3>2. QED
      BY <2>2, <2>4, <3>1 DEF StillCloses
  <2>6. QED
    BY <1>5, <2>2, <2>3, <2>5
<1>6. QED
  BY <1>1, <1>2, <1>3, <1>4, <1>5

(* Its shutdown is as long as what it runs asks for.                          *)
LEMMA StopKeeps == ASSUME LifespanInvariant, Stop PROVE LifespanInvariant'
<1> USE DEF LifespanInvariant
<1>1. /\ StagesFit /\ ServesItsParts /\ stage = "serving" /\ stage' = "closing" /\ toClose' = Closing
      /\ UNCHANGED <<process, running, outbox, wentWrong>>
  BY DEF Stop
<1>2. process \in {"monolith", "api", "feed", "store", "alerts"}
  BY <1>1 DEF StagesFit
<1>3. \A piece \in running : StillCloses(Closing, piece)
  BY <1>1, <1>2, ShutdownIsComplete DEF ServesItsParts
<1>4. ClosesTheRest'
  BY <1>1, <1>2, <1>3, ShutdownIsComplete DEF ClosesTheRest
<1>5. QED
  BY <1>1, <1>4 DEF StagesFit, StartsQuietly, ServesItsParts, IsOver, MonolithIsSilent, Starting

(* A start that fails closes what it has brought up, or is over at once.         *)
LEMMA StartFailsKeeps == ASSUME LifespanInvariant, StartFails PROVE LifespanInvariant'
<1> USE DEF LifespanInvariant
<1>1. /\ StagesFit /\ StartsQuietly /\ MonolithIsSilent /\ stage \in Starting
      /\ UNCHANGED <<process, running, outbox>>
  BY DEF StartFails, Gives, Started, Starting
<1>2. outbox = {} /\ running \subseteq Parts \ Speakers
  BY <1>1 DEF StartsQuietly
<1>3. MonolithIsSilent'
  BY <1>1 DEF MonolithIsSilent
<1>4. CASE process = "feed" /\ stage = "listing"
  <2>1. stage' = "closing" /\ toClose' = Closing
    BY <1>4 DEF StartFails
  <2>2. \A piece \in running : StillCloses(Closing, piece)
    BY <1>2, <1>4, ShutdownIsComplete
  <2>3. ClosesTheRest'
    BY <1>1, <1>4, <2>1, <2>2, ShutdownIsComplete DEF ClosesTheRest
  <2>4. QED
    BY <1>1, <1>3, <2>1, <2>3 DEF StagesFit, StartsQuietly, ServesItsParts, IsOver, Starting
<1>5. CASE process = "feed" /\ stage = "client"
  <2>1. stage' = "closing" /\ toClose' = <<"bus", "client">>
    BY <1>5 DEF StartFails
  <2>2. /\ toClose' \in Seq(Steps) /\ Len(toClose') = 2
        /\ toClose'[1] = "bus" /\ toClose'[2] = "client"
    BY <2>1 DEF Steps
  <2>3. BusIsLast(toClose') /\ BusComes(toClose')
    BY <2>2 DEF BusIsLast, BusComes
  <2>4. running \subseteq BusParts
    BY <1>1, <1>5 DEF StartsQuietly
  <2>5. \A piece \in running : StillCloses(toClose', piece)
    BY <2>2, <2>4 DEF StillCloses, Closes
  <2>6. ClosesTheRest'
    BY <1>1, <2>1, <2>2, <2>3, <2>5 DEF ClosesTheRest
  <2>7. QED
    BY <1>1, <1>3, <2>1, <2>6 DEF StagesFit, StartsQuietly, ServesItsParts, IsOver, Starting
<1>6. CASE process = "monolith"
  <2>1. stage' = "over" /\ "preparation" \in wentWrong'
    BY <1>6 DEF StartFails, Gives
  <2>2. QED
    BY <1>1, <1>2, <1>3, <2>1 DEF StagesFit, StartsQuietly, ServesItsParts, ClosesTheRest, IsOver, Starting
<1>7. QED
  BY <1>4, <1>5, <1>6 DEF StartFails

----------------------------------------------------------------------------
(* A step of the shutdown that is not the bus's. What it lets be said comes      *)
(* before the flush.                                                        *)
LEMMA StepKeeps ==
  ASSUME LifespanInvariant, NEW step \in Steps \ {"bus"}, Step(step), stage' = stage, process' = process,
         running' = running \ Closes(step), wentWrong' = wentWrong,
         step = "client" \/ process = "monolith" => outbox' = outbox
  PROVE  LifespanInvariant'
<1> USE DEF LifespanInvariant
<1>1. /\ stage = "closing" /\ toClose # <<>> /\ Head(toClose) = step /\ toClose' = Tail(toClose)
      /\ toClose \in Seq(Steps) /\ BusIsLast(toClose)
  BY DEF Step, ClosesTheRest
<1>2. toClose' \in Seq(Steps) /\ BusIsLast(toClose')
  BY <1>1, TailIsTheRest, OrderIsKept
<1>3. \A piece \in running' : StillCloses(toClose', piece)
  BY <1>1, TailStillCloses DEF ClosesTheRest
<1>4. BusComes(toClose) => BusComes(toClose')
  BY <1>1, BusStillComes
<1>5. OnlyTheClient(toClose) => OnlyTheClient(toClose') /\ step = "client"
  BY <1>1, OrderIsKept
<1>6. ClosesTheRest'
  BY <1>1, <1>2, <1>3, <1>4, <1>5 DEF ClosesTheRest
<1>7. QED
  BY <1>1, <1>6 DEF StagesFit, StartsQuietly, ServesItsParts, IsOver, MonolithIsSilent, Starting

(* The steps that close tasks, supervisor, writer and client.                 *)
LEMMA ClosesKeep ==
  ASSUME LifespanInvariant, CloseTasks \/ CloseSupervisor \/ CloseWriter \/ CloseClient
  PROVE  LifespanInvariant'
<1>1. CASE CloseTasks
  <2>1. "tasks" \in Steps \ {"bus"} /\ Closes("tasks") = Tasks \cup {"instrument-relist"}
    BY DEF Steps, Closes
  <2>2. QED
    BY <1>1, <2>1, StepKeeps DEF CloseTasks
<1>2. CASE CloseSupervisor
  <2>1. "supervisor" \in Steps \ {"bus"} /\ Closes("supervisor") = {"supervisor"}
    BY DEF Steps, Closes
  <2>2. QED
    BY <1>2, <2>1, StepKeeps DEF CloseSupervisor
<1>3. CASE CloseWriter
  <2>1. "writer" \in Steps \ {"bus"} /\ running \ Closes("writer") = running
    BY DEF Steps, Closes
  <2>2. QED
    BY <1>3, <2>1, StepKeeps DEF CloseWriter
<1>4. CASE CloseClient
  <2>1. "client" \in Steps \ {"bus"} /\ Closes("client") = {"client"}
    BY DEF Steps, Closes
  <2>2. QED
    BY <1>4, <2>1, StepKeeps DEF CloseClient
<1>5. QED
  BY <1>1, <1>2, <1>3, <1>4

(* A last commit that fails ends the store where it stands.                   *)
LEMMA FailedCommitKeeps == ASSUME LifespanInvariant, CloseWriterFails PROVE LifespanInvariant'
<1> USE DEF LifespanInvariant
<1>1. CASE process = "store"
  <2>1. /\ stage' = "over" /\ "last commit" \in wentWrong' /\ process' = process
    BY <1>1 DEF CloseWriterFails
  <2>2. QED
    BY <1>1, <2>1 DEF StagesFit, StartsQuietly, ServesItsParts, ClosesTheRest, IsOver, MonolithIsSilent, Starting
<1>2. CASE process # "store"
  <2>1. "writer" \in Steps \ {"bus"} /\ running \ Closes("writer") = running
    BY DEF Steps, Closes
  <2>2. QED
    BY <1>2, <2>1, StepKeeps DEF CloseWriterFails
<1>3. QED
  BY <1>1, <1>2

(* The bus flushes what was said, and only the client is left.                *)
LEMMA BusKeeps == ASSUME LifespanInvariant, CloseBus PROVE LifespanInvariant'
<1> USE DEF LifespanInvariant
<1>1. /\ stage = "closing" /\ toClose # <<>> /\ Head(toClose) = "bus" /\ toClose' = Tail(toClose)
      /\ toClose \in Seq(Steps) /\ BusIsLast(toClose)
      /\ stage' = stage /\ process' = process /\ running' = running \ Closes("bus")
  BY DEF CloseBus, Step, ClosesTheRest, Closes
<1>2. toClose' \in Seq(Steps) /\ BusIsLast(toClose') /\ OnlyTheClient(toClose')
  BY <1>1, TailIsTheRest, OrderIsKept
<1>3. \A piece \in running' : StillCloses(toClose', piece)
  BY <1>1, TailStillCloses DEF ClosesTheRest
<1>4. outbox' = {} \/ ("last flush" \in wentWrong' /\ outbox' = outbox)
  BY DEF CloseBus
<1>5. ClosesTheRest'
  BY <1>1, <1>2, <1>3, <1>4 DEF ClosesTheRest
<1>6. QED
  BY <1>1, <1>4, <1>5 DEF StagesFit, StartsQuietly, ServesItsParts, IsOver, MonolithIsSilent, Starting

(* With no step left, nothing is running and nothing is unsent.               *)
LEMMA OverKeeps == ASSUME LifespanInvariant, Over PROVE LifespanInvariant'
<1> USE DEF LifespanInvariant
<1>1. /\ stage = "closing" /\ toClose = <<>> /\ stage' = "over"
      /\ UNCHANGED <<process, running, outbox, wentWrong>>
  BY DEF Over
<1>2. \A piece \in running : StillCloses(<<>>, piece)
  BY <1>1 DEF ClosesTheRest
<1>3. running = {}
  BY <1>2 DEF StillCloses
<1>4. ~BusComes(<<>>)
  BY DEF BusComes
<1>5. outbox = {} \/ "last flush" \in wentWrong
  BY <1>1, <1>4 DEF ClosesTheRest, MonolithIsSilent
<1>6. QED
  BY <1>1, <1>3, <1>5 DEF StagesFit, StartsQuietly, ServesItsParts, ClosesTheRest, IsOver, MonolithIsSilent, Starting

----------------------------------------------------------------------------
(* The invariant holds of every behaviour.                                   *)
LEMMA LifespanInvariantHolds == LifespanSpec => []LifespanInvariant
<1>1. LifespanInit => LifespanInvariant
  <2>1. SUFFICES ASSUME LifespanInit PROVE LifespanInvariant
    OBVIOUS
  <2>2. process \in {"monolith", "api", "feed", "store", "alerts"}
    BY <2>1, LifespanAssumption DEF LifespanInit
  <2>3. stage = IF process = "monolith" THEN "client" ELSE "bus"
    BY <2>1, <2>2 DEF LifespanInit, FirstStage
  <2>4. running = {} /\ outbox = {} /\ wentWrong = {}
    BY <2>1 DEF LifespanInit
  <2>5. QED
    BY <2>2, <2>3, <2>4
    DEF LifespanInvariant, StagesFit, StartsQuietly, ServesItsParts, ClosesTheRest, IsOver,
        MonolithIsSilent, Starting
<1>2. LifespanInvariant /\ [LifespanNext]_lifespanVars => LifespanInvariant'
  BY StartKeeps, StartFailsKeeps, ServingBegins, PublishKeeps, RedisKeeps, DeathKeeps, StopKeeps, ClosesKeep,
     FailedCommitKeeps, BusKeeps, OverKeeps DEF LifespanNext
<1>3. QED
  BY <1>1, <1>2, PTL DEF LifespanSpec

(* When a process is over, all its parts have said is with Redis, unless Redis was *)
(* away at its last flush or its last commit raised, and nothing of it is left     *)
(* running, unless its preparation or its last commit failed, or the first listing  *)
(* of a monolith raised: whatever the process, the outages and the tasks that died (the lifespans of main.py,        *)
(* feed_main.py, store_main.py and alert_main.py, and RedisBus.aclose).           *)
THEOREM EveryProcessClosesClean == LifespanSpec => []ClosesClean
<1>1. LifespanInvariant => ClosesClean
  BY DEF LifespanInvariant, IsOver, ClosesClean, LastWordsAreSent, NothingIsLeftOpen
<1>2. QED
  BY <1>1, LifespanInvariantHolds, PTL

----------------------------------------------------------------------------
(* The recording switch.                                                     *)

Flags == {"on", "off"}

SwitchTypeOK ==
  /\ alive \in BOOLEAN /\ recording \in Flags /\ durable \in Flags
  /\ pending \in Seq(Flags)
  /\ want \in [Tabs -> Flags]
  /\ accepted \in Flags \cup {Unread} /\ undone \in BOOLEAN

(* A dead store has no queue, and unless a command was undone it died with all   *)
(* it had applied durable.                                                    *)
DeadIsDurable == ~alive => pending = <<>> /\ (~undone => recording = durable)

SwitchInvariant == SwitchTypeOK /\ DeadIsDurable /\ LastPostPrevails

(* A step that leaves the store and the last POST alone keeps the invariant.     *)
LEMMA StoreIsLeftAlone ==
  ASSUME SwitchInvariant, UNCHANGED <<alive, recording, pending, accepted, undone>>,
         want' \in [Tabs -> Flags], durable' \in Flags, ~alive => durable' = durable
  PROVE  SwitchInvariant'
BY DEF SwitchInvariant, SwitchTypeOK, DeadIsDurable, LastPostPrevails

(* The invariant holds of every state of the switch.                           *)
LEMMA SwitchKeeps ==
  ASSUME SwitchInvariant, SwitchNext
  PROVE  SwitchInvariant'
<1> USE DEF storeVars, apiVars, tabVars
<1>t. /\ alive \in BOOLEAN /\ recording \in Flags /\ durable \in Flags
      /\ pending \in Seq(Flags) /\ want \in [Tabs -> Flags]
      /\ accepted \in Flags \cup {Unread} /\ undone \in BOOLEAN
  BY DEF SwitchInvariant, SwitchTypeOK
<1>d. ~alive => pending = <<>> /\ (~undone => recording = durable)
  BY DEF SwitchInvariant, DeadIsDurable
<1>l. accepted # Unread /\ ~undone =>
        IF pending = <<>> THEN recording = accepted ELSE pending[Len(pending)] = accepted
  BY DEF SwitchInvariant, LastPostPrevails
<1>1. CASE ApplyCommand
  <2>1. /\ alive /\ pending # <<>> /\ recording' = Head(pending) /\ pending' = Tail(pending)
        /\ UNCHANGED <<alive, durable, want, accepted, undone>>
    BY <1>1 DEF ApplyCommand
  <2>2. Len(pending) \in Nat /\ Len(pending) >= 1 /\ Head(pending) = pending[1]
    BY <2>1, <1>t
  <2>3. recording' \in Flags /\ pending' \in Seq(Flags) /\ Len(pending') = Len(pending) - 1
    BY <2>1, <1>t
  <2>4. ASSUME accepted # Unread, ~undone
        PROVE  IF pending' = <<>> THEN recording' = accepted ELSE pending'[Len(pending')] = accepted
    <3>1. pending[Len(pending)] = accepted
      BY <2>1, <2>4, <1>l
    <3>2. CASE pending' = <<>>
      <4>1. Len(pending) = 1
        BY <3>2, <2>2, <2>3
      <4> QED
        BY <3>1, <3>2, <4>1, <2>1, <2>2
    <3>3. CASE pending' # <<>>
      <4>1. Len(pending') \in 1..Len(pending')
        BY <3>3, <2>3
      <4>2. pending'[Len(pending')] = pending[Len(pending') + 1]
        BY <4>1, <2>1, <1>t
      <4>3. Len(pending') + 1 = Len(pending)
        BY <2>2, <2>3
      <4> QED
        BY <3>1, <3>3, <4>2, <4>3
    <3> QED
      BY <3>2, <3>3
  <2>5. SwitchTypeOK' /\ DeadIsDurable'
    BY <2>1, <2>3, <1>t DEF SwitchTypeOK, DeadIsDurable
  <2>6. LastPostPrevails'
    BY <2>1, <2>4 DEF LastPostPrevails
  <2> QED
    BY <2>5, <2>6 DEF SwitchInvariant
<1>2. CASE Checkpoint
  BY <1>2, <1>t, StoreIsLeftAlone DEF Checkpoint
<1>3. CASE CommitFails \/ PublishState \/ ApplySnapshot \/ SnapshotLost \/ GoesStale
  BY <1>3, <1>t, StoreIsLeftAlone DEF CommitFails, PublishState, ApplySnapshot, SnapshotLost, GoesStale
<1>4. CASE StoreDies
  <2>1. /\ alive' = FALSE /\ pending' = <<>>
        /\ undone' = (undone \/ pending # <<>> \/ durable # recording)
        /\ UNCHANGED <<recording, durable, want, accepted>>
    BY <1>4 DEF StoreDies
  <2>a. (undone \/ pending # <<>> \/ durable # recording) \in BOOLEAN
    OBVIOUS
  <2>c. undone' \in BOOLEAN
    BY <2>1, <2>a, Zenon
  <2>d. pending' \in Seq(Flags)
    BY <2>1
  <2>b. undone' \in BOOLEAN /\ alive' \in BOOLEAN /\ pending' \in Seq(Flags)
    BY <2>1, <2>c, <2>d
  <2>2. SwitchTypeOK'
    BY <2>1, <2>b, <1>t DEF SwitchTypeOK
  <2>3. DeadIsDurable' /\ LastPostPrevails'
    BY <2>1, <1>l DEF DeadIsDurable, LastPostPrevails
  <2> QED
    BY <2>2, <2>3 DEF SwitchInvariant
<1>5. CASE StoreStarts
  <2>1. /\ ~alive /\ alive' = TRUE /\ recording' = durable
        /\ UNCHANGED <<durable, pending, want, accepted, undone>>
    BY <1>5 DEF StoreStarts
  <2>2. SwitchTypeOK' /\ DeadIsDurable'
    BY <2>1, <1>t DEF SwitchTypeOK, DeadIsDurable
  <2>3. LastPostPrevails'
    BY <2>1, <1>d, <1>l DEF LastPostPrevails
  <2> QED
    BY <2>2, <2>3 DEF SwitchInvariant
<1>6. ASSUME NEW t \in Tabs, TakePost(t)
      PROVE  SwitchInvariant'
  <2>1. /\ pending' = Published(want[t]) /\ accepted' = want[t] /\ undone' = ~alive
        /\ UNCHANGED <<alive, recording, durable, want>>
    BY <1>6 DEF TakePost
  <2>2. want[t] \in Flags
    BY <1>t
  <2>3. CASE alive
    <3>1. pending' = Append(pending, want[t])
      BY <2>1, <2>3 DEF Published
    <3>2. pending' \in Seq(Flags) /\ pending' # <<>> /\ pending'[Len(pending')] = want[t]
      BY <3>1, <2>2, <1>t
    <3>3. SwitchTypeOK' /\ DeadIsDurable'
      BY <2>1, <2>2, <2>3, <3>2, <1>t DEF SwitchTypeOK, DeadIsDurable
    <3>4. LastPostPrevails'
      BY <2>1, <3>2 DEF LastPostPrevails
    <3> QED
      BY <3>3, <3>4 DEF SwitchInvariant
  <2>4. CASE ~alive
    <3>1. pending' = pending /\ undone' = TRUE
      BY <2>1, <2>4, <1>t DEF Published
    <3>2. SwitchTypeOK' /\ DeadIsDurable' /\ LastPostPrevails'
      BY <2>1, <2>2, <2>4, <3>1, <1>t, <1>d DEF SwitchTypeOK, DeadIsDurable, LastPostPrevails
    <3> QED
      BY <3>2 DEF SwitchInvariant
  <2> QED
    BY <2>3, <2>4
<1>7. ASSUME NEW t \in Tabs, Toggle(t)
      PROVE  SwitchInvariant'
  <2>1. /\ UNCHANGED <<alive, recording, durable, pending, accepted, undone>>
        /\ want' = [want EXCEPT ![t] = Opposite(shown[t])]
    BY <1>7 DEF Toggle
  <2>2. want' \in [Tabs -> Flags]
    BY <2>1, <1>t DEF Opposite, Flags
  <2> QED
    BY <2>1, <2>2, <1>t, StoreIsLeftAlone
<1>8. ASSUME NEW t \in Tabs,
             Reads(t) \/ Acknowledge(t) \/ PostTimesOut(t) \/ PostLands(t)
      PROVE  SwitchInvariant'
  <2>1. /\ UNCHANGED <<alive, recording, durable, pending, accepted, undone>>
        /\ want' = want \/ want' = [want EXCEPT ![t] = "on"]
    BY <1>8 DEF Reads, Poll, AnswerPoll, PollLands, Acknowledge, PostTimesOut, PostLands
  <2>2. want' \in [Tabs -> Flags]
    BY <2>1, <1>t DEF Flags
  <2> QED
    BY <2>1, <2>2, <1>t, StoreIsLeftAlone
<1> QED
  BY <1>1, <1>2, <1>3, <1>4, <1>5, <1>6, <1>7, <1>8 DEF SwitchNext, Answering

(* Of the presses of any number of tabs the last POST the api took prevails, in    *)
(* the store or at the end of its queue (POST /recording, _apply_pending_commands),  *)
(* through failed commits and crashes that undid no command.                     *)
THEOREM TheLastPostPrevails == SwitchSpec => []LastPostPrevails
<1>1. SwitchInit => SwitchInvariant
  <2> SUFFICES ASSUME SwitchInit PROVE SwitchInvariant
    OBVIOUS
  <2>1. /\ alive = TRUE /\ recording = "on" /\ durable = "on" /\ pending = <<>>
        /\ want = [t \in Tabs |-> "on"] /\ accepted = Unread /\ undone = FALSE
    BY DEF SwitchInit
  <2>2. "on" \in Flags
    BY DEF Flags
  <2>3. pending \in Seq(Flags)
    BY <2>1
  <2>4. want \in [Tabs -> Flags]
    BY <2>1, <2>2
  <2>5. SwitchTypeOK
    BY <2>1, <2>2, <2>3, <2>4 DEF SwitchTypeOK
  <2>6. DeadIsDurable /\ LastPostPrevails
    BY <2>1 DEF DeadIsDurable, LastPostPrevails
  <2> QED
    BY <2>5, <2>6 DEF SwitchInvariant
<1>2. SwitchInvariant /\ [SwitchNext]_switchVars => SwitchInvariant'
  <2> SUFFICES ASSUME SwitchInvariant, [SwitchNext]_switchVars PROVE SwitchInvariant'
    OBVIOUS
  <2>1. CASE SwitchNext
    BY <2>1, SwitchKeeps
  <2>2. CASE UNCHANGED switchVars
    <3>1. UNCHANGED <<alive, recording, durable, pending, want, accepted, undone>>
      BY <2>2 DEF switchVars, storeVars, tabVars
    <3>2. want \in [Tabs -> Flags] /\ durable \in Flags
      BY DEF SwitchInvariant, SwitchTypeOK
    <3> QED
      BY <3>1, <3>2, StoreIsLeftAlone
  <2> QED
    BY <2>1, <2>2
<1>3. SwitchInvariant => LastPostPrevails
  BY DEF SwitchInvariant
<1> QED
  BY <1>1, <1>2, <1>3, PTL DEF SwitchSpec

----------------------------------------------------------------------------
(* The store's watch over its group.                                          *)

MonitorTypeOK ==
  /\ phase \in {"starting", "serving"}
  /\ added \in Nat /\ trimmed \in Nat /\ delivered \in Nat
  /\ polled \in [lag : Int, gap : BOOLEAN, known : BOOLEAN]
  /\ sincePoll \in 0..(StaleIntervals + 1)
  /\ troubled \in [Troubles -> 0..(StaleIntervals + 1)]

(* Retention never takes the newest entry.                                     *)
TheNewestStays == trimmed > 0 => trimmed < added

(* A trouble that has lasted is there, and one that has lasted longer than since   *)
(* the last good poll was there for that poll to find.                          *)
TroubleIsThere == \A t \in Troubles : troubled[t] > 0 => Troubling(t)
PollFoundIt ==
  polled.known => \A t \in Troubles : troubled[t] > sincePoll =>
    IF t = "gap" THEN polled.gap ELSE polled.lag > LagThreshold

(* What this process is silent about it has told.                              *)
SilenceIsEarned == seen \subseteq told /\ alerted \subseteq told

MonitorInvariant ==
  MonitorTypeOK /\ TheNewestStays /\ TroubleIsThere /\ PollFoundIt /\ SilenceIsEarned

(* The invariant is enough.                                                    *)
LEMMA MonitorInvariantIsEnough == MonitorInvariant => TroubleIsNotHidden
<1> SUFFICES ASSUME MonitorInvariant PROVE TroubleIsNotHidden
  OBVIOUS
<1>1. ASSUME NEW t \in Troubles, troubled[t] > StaleIntervals PROVE ~Healthy
  <2> SUFFICES ASSUME Healthy PROVE FALSE
    OBVIOUS
  <2>1. polled.known /\ sincePoll <= StaleIntervals /\ ~polled.gap /\ polled.lag <= LagThreshold
    BY DEF Healthy
  <2>2. /\ troubled[t] \in Nat /\ sincePoll \in Nat /\ polled.lag \in Int
        /\ StaleIntervals \in Nat /\ LagThreshold \in Nat
    BY MonitorAssumption DEF MonitorInvariant, MonitorTypeOK
  <2>3. troubled[t] > sincePoll
    BY <1>1, <2>1, <2>2
  <2>4. IF t = "gap" THEN polled.gap ELSE polled.lag > LagThreshold
    BY <2>1, <2>3 DEF MonitorInvariant, PollFoundIt
  <2> QED
    BY <2>1, <2>2, <2>4
<1>2. seen \subseteq told
  BY DEF MonitorInvariant, SilenceIsEarned
<1> QED
  BY <1>1, <1>2 DEF TroubleIsNotHidden

(* A step of the stream: a trouble that ends is forgotten, one that begins has     *)
(* lasted for nothing yet.                                                     *)
LEMMA StreamMoves ==
  ASSUME MonitorInvariant, troubled' = Lasting,
         added' \in Nat, trimmed' \in Nat, delivered' \in Nat,
         trimmed' > 0 => trimmed' < added',
         UNCHANGED <<phase, polled, sincePoll, seen, told, alerted>>
  PROVE  MonitorInvariant'
<1>1. /\ troubled \in [Troubles -> 0..(StaleIntervals + 1)] /\ StaleIntervals \in Nat
      /\ sincePoll \in 0..(StaleIntervals + 1)
      /\ \A t \in Troubles : troubled[t] > 0 => Troubling(t)
  BY MonitorAssumption DEF MonitorInvariant, MonitorTypeOK, TroubleIsThere
<1>2. \A t \in Troubles : troubled'[t] = IF Troubling(t)' THEN troubled[t] ELSE 0
  BY DEF Lasting
<1>3. troubled' \in [Troubles -> 0..(StaleIntervals + 1)]
  BY <1>1 DEF Lasting
<1>4. TroubleIsThere'
  <2>1. \A t \in Troubles : troubled'[t] > 0 => Troubling(t)'
    BY <1>2
  <2> QED
    BY <2>1 DEF TroubleIsThere
<1>5. PollFoundIt'
  <2>1. ASSUME polled.known, NEW t \in Troubles, troubled'[t] > sincePoll
        PROVE  IF t = "gap" THEN polled.gap ELSE polled.lag > LagThreshold
    <3>1. troubled'[t] \in {troubled[t], 0}
      BY <1>2
    <3>2. troubled[t] > sincePoll
      BY <3>1, <2>1, <1>1
    <3> QED
      BY <2>1, <3>2 DEF MonitorInvariant, PollFoundIt
  <2> QED
    BY <2>1 DEF PollFoundIt
<1>6. MonitorTypeOK'
  BY <1>3 DEF MonitorInvariant, MonitorTypeOK
<1>7. TheNewestStays' /\ SilenceIsEarned'
  BY DEF TheNewestStays, SilenceIsEarned, MonitorInvariant
<1> QED
  BY <1>4, <1>5, <1>6, <1>7 DEF MonitorInvariant

(* A good poll finds every trouble there is.                                   *)
LEMMA PollKeeps ==
  ASSUME MonitorInvariant, NEW announce \in BOOLEAN, PollBus(announce),
         phase' \in {"starting", "serving"}
  PROVE  MonitorInvariant'
<1>1. /\ polled' = Answer /\ sincePoll' = 0 /\ Announce(announce)
      /\ UNCHANGED <<added, trimmed, delivered, troubled>>
  BY DEF PollBus, stream
<1>2. /\ added \in Nat /\ trimmed \in Nat /\ delivered \in Nat
      /\ troubled \in [Troubles -> 0..(StaleIntervals + 1)] /\ StaleIntervals \in Nat
  BY MonitorAssumption DEF MonitorInvariant, MonitorTypeOK
<1>3. polled' \in [lag : Int, gap : BOOLEAN, known : BOOLEAN]
  BY <1>1, <1>2 DEF Answer, Lag, TrimmedPast
<1>4. MonitorTypeOK'
  BY <1>1, <1>2, <1>3 DEF MonitorTypeOK
<1>5. TheNewestStays' /\ TroubleIsThere'
  BY <1>1 DEF MonitorInvariant, TheNewestStays, TroubleIsThere, Troubling, Lag
<1>6. ASSUME NEW t \in Troubles, troubled[t] > 0
      PROVE  IF t = "gap" THEN TrimmedPast ELSE Lag > LagThreshold
  <2>1. Troubling(t)
    BY <1>6 DEF MonitorInvariant, TroubleIsThere
  <2>2. CASE t = "gap"
    <3>1. delivered < trimmed
      BY <2>1, <2>2 DEF Troubling
    <3>2. trimmed > 0 /\ delivered <= trimmed
      BY <3>1, <1>2
    <3>3. added > trimmed
      BY <3>2, <1>2 DEF MonitorInvariant, TheNewestStays
    <3> QED
      BY <2>2, <3>2, <3>3 DEF TrimmedPast
  <2>3. CASE t # "gap"
    BY <2>1, <2>3 DEF Troubling
  <2> QED
    BY <2>2, <2>3
<1>7. PollFoundIt'
  <2>1. polled'.gap = TrimmedPast /\ polled'.lag = Lag
    BY <1>1 DEF Answer
  <2>2. \A t \in Troubles : troubled'[t] > sincePoll' =>
          IF t = "gap" THEN polled'.gap ELSE polled'.lag > LagThreshold
    BY <1>1, <1>6, <2>1
  <2> QED
    BY <2>2 DEF PollFoundIt
<1>8. SilenceIsEarned'
  BY <1>1 DEF Announce, MonitorInvariant, SilenceIsEarned
<1> QED
  BY <1>4, <1>5, <1>7, <1>8 DEF MonitorInvariant

(* A tick ages a trouble and the last poll alike.                                *)
LEMMA TickKeeps ==
  ASSUME MonitorInvariant, MonitorTicks
  PROVE  MonitorInvariant'
<1>1. /\ sincePoll' = IF polled.known /\ sincePoll <= StaleIntervals THEN sincePoll + 1 ELSE sincePoll
      /\ troubled' = [t \in Troubles |-> IF Troubling(t) /\ troubled[t] <= StaleIntervals
                                         THEN troubled[t] + 1 ELSE troubled[t]]
      /\ UNCHANGED <<phase, added, trimmed, delivered, polled, seen, told, alerted>>
  BY DEF MonitorTicks, stream
<1>2. /\ troubled \in [Troubles -> 0..(StaleIntervals + 1)] /\ StaleIntervals \in Nat
      /\ sincePoll \in 0..(StaleIntervals + 1)
      /\ \A t \in Troubles : troubled[t] > 0 => Troubling(t)
  BY MonitorAssumption DEF MonitorInvariant, MonitorTypeOK, TroubleIsThere
<1>3. sincePoll' \in 0..(StaleIntervals + 1)
  BY <1>1, <1>2
<1>4. troubled' \in [Troubles -> 0..(StaleIntervals + 1)]
  BY <1>1, <1>2
<1>5. MonitorTypeOK'
  BY <1>1, <1>3, <1>4 DEF MonitorInvariant, MonitorTypeOK
<1>6. \A t : Troubling(t)' <=> Troubling(t)
  BY <1>1 DEF Troubling, Lag
<1>7. TroubleIsThere'
  <2>1. \A t \in Troubles : troubled'[t] > 0 => Troubling(t)
    BY <1>1, <1>2
  <2> QED
    BY <2>1, <1>6 DEF TroubleIsThere
<1>8. PollFoundIt'
  <2>1. ASSUME polled.known, NEW t \in Troubles, troubled'[t] > sincePoll'
        PROVE  IF t = "gap" THEN polled.gap ELSE polled.lag > LagThreshold
    <3>1. troubled[t] \in 0..(StaleIntervals + 1)
      BY <1>2
    <3>2. troubled'[t] = IF Troubling(t) /\ troubled[t] <= StaleIntervals THEN troubled[t] + 1 ELSE troubled[t]
      BY <1>1
    <3>3. troubled[t] > sincePoll
      BY <1>1, <1>2, <2>1, <3>1, <3>2
    <3> QED
      BY <2>1, <3>3 DEF MonitorInvariant, PollFoundIt
  <2> QED
    BY <2>1, <1>1 DEF PollFoundIt
<1>9. TheNewestStays' /\ SilenceIsEarned'
  BY <1>1 DEF MonitorInvariant, TheNewestStays, SilenceIsEarned
<1> QED
  BY <1>5, <1>7, <1>8, <1>9 DEF MonitorInvariant

(* Every step of the monitor keeps its invariant.                                *)
LEMMA MonitorKeeps ==
  ASSUME MonitorInvariant, MonitorNext
  PROVE  MonitorInvariant'
<1>t. /\ added \in Nat /\ trimmed \in Nat /\ delivered \in Nat
      /\ trimmed > 0 => trimmed < added
      /\ StaleIntervals \in Nat
  BY MonitorAssumption DEF MonitorInvariant, MonitorTypeOK, TheNewestStays
<1>1. CASE Append1
  <2>1. /\ added' = added + 1 /\ troubled' = Lasting
        /\ UNCHANGED <<phase, trimmed, delivered, polled, sincePoll, seen, told, alerted>>
    BY <1>1 DEF Append1, checks
  <2>2. added' \in Nat /\ (trimmed' > 0 => trimmed' < added')
    BY <2>1, <1>t
  <2> QED
    BY <2>1, <2>2, <1>t, StreamMoves
<1>2. CASE Trim
  <2>1. PICK upTo \in (trimmed + 1)..(added - 1) :
          /\ trimmed' = upTo /\ troubled' = Lasting
          /\ UNCHANGED <<phase, added, delivered, polled, sincePoll, seen, told, alerted>>
    BY <1>2 DEF Trim, checks
  <2>2. trimmed' \in Nat /\ (trimmed' > 0 => trimmed' < added')
    BY <2>1, <1>t
  <2> QED
    BY <2>1, <2>2, <1>t, StreamMoves
<1>3. CASE GroupReads
  <2>1. PICK upTo \in (Larger(delivered, trimmed) + 1)..added :
          /\ delivered' = upTo /\ troubled' = Lasting
          /\ UNCHANGED <<phase, added, trimmed, polled, sincePoll, seen, told, alerted>>
    BY <1>3 DEF GroupReads, checks
  <2>2. Larger(delivered, trimmed) \in Nat
    BY <1>t DEF Larger
  <2>3. delivered' \in Nat
    BY <2>1, <2>2, <1>t
  <2> QED
    BY <2>1, <2>3, <1>t, StreamMoves
<1>4. CASE Commit \/ GivesUp \/ PollFails
  <2>1. UNCHANGED <<phase, added, trimmed, delivered, polled, sincePoll, alerted, troubled, seen, told>>
    BY <1>4 DEF Commit, GivesUp, PollFails, AfterAFailure, checks, stream
  <2> QED
    BY <2>1 DEF MonitorInvariant, MonitorTypeOK, TheNewestStays, TroubleIsThere, Troubling, Lag,
                PollFoundIt, SilenceIsEarned
<1>5. CASE PollOnce
  BY <1>5, PollKeeps DEF PollOnce
<1>6. CASE Seed
  <2>1. phase' = "serving"
    BY <1>6 DEF Seed
  <2>2. CASE PollBus(FALSE)
    BY <2>1, <2>2, PollKeeps
  <2>3. CASE UNCHANGED <<stream, checks, restarts, troubled, seen, told, gone>>
    BY <2>1, <2>3 DEF stream, checks, MonitorInvariant, MonitorTypeOK, TheNewestStays,
                      TroubleIsThere, Troubling, Lag, PollFoundIt, SilenceIsEarned
  <2> QED
    BY <1>6, <2>2, <2>3 DEF Seed
<1>7. CASE MonitorTicks
  BY <1>7, TickKeeps
<1>8. CASE StoreRestarts
  <2>1. /\ phase' = "starting" /\ polled' = Nothing /\ sincePoll' = 0 /\ alerted' = {} /\ seen' = {}
        /\ troubled' = [t \in Troubles |-> 0]
        /\ UNCHANGED <<added, trimmed, delivered>>
    BY <1>8 DEF StoreRestarts
  <2>2. MonitorTypeOK'
    BY <2>1, <1>t DEF MonitorTypeOK, Nothing
  <2>3. TheNewestStays' /\ SilenceIsEarned'
    BY <2>1, <1>t DEF TheNewestStays, SilenceIsEarned
  <2>4. TroubleIsThere' /\ PollFoundIt'
    BY <2>1 DEF TroubleIsThere, PollFoundIt, Nothing
  <2> QED
    BY <2>2, <2>3, <2>4 DEF MonitorInvariant
<1> QED
  BY <1>1, <1>2, <1>3, <1>4, <1>5, <1>6, <1>7, <1>8 DEF MonitorNext

(* Entries trimmed unread and a lag past the threshold show in the store's health    *)
(* and in its alerts (poll_bus, _health_problems), for every threshold and every     *)
(* number of intervals a poll may be missed.                                      *)
THEOREM TroubleIsNeverHidden == MonitorSpec => []TroubleIsNotHidden
<1>1. MonitorInit => MonitorInvariant
  <2> SUFFICES ASSUME MonitorInit PROVE MonitorInvariant
    OBVIOUS
  <2>1. StaleIntervals \in Nat
    BY MonitorAssumption
  <2>2. MonitorTypeOK
    BY <2>1 DEF MonitorInit, MonitorTypeOK, Nothing
  <2>3. TheNewestStays /\ TroubleIsThere /\ PollFoundIt /\ SilenceIsEarned
    BY DEF MonitorInit, TheNewestStays, TroubleIsThere, PollFoundIt, SilenceIsEarned, Nothing
  <2> QED
    BY <2>2, <2>3 DEF MonitorInvariant
<1>2. MonitorInvariant /\ [MonitorNext]_monitorVars => MonitorInvariant'
  <2> SUFFICES ASSUME MonitorInvariant, [MonitorNext]_monitorVars PROVE MonitorInvariant'
    OBVIOUS
  <2>1. CASE MonitorNext
    BY <2>1, MonitorKeeps
  <2>2. CASE UNCHANGED monitorVars
    BY <2>2 DEF monitorVars, stream, checks, MonitorInvariant, MonitorTypeOK, TheNewestStays,
                TroubleIsThere, Troubling, Lag, PollFoundIt, SilenceIsEarned
  <2> QED
    BY <2>1, <2>2
<1> QED
  BY <1>1, <1>2, MonitorInvariantIsEnough, PTL DEF MonitorSpec

----------------------------------------------------------------------------
(* What the split api knows of the feed: the cache and the requests that wait    *)
(* on it (FeedState).                                                       *)
KnownTypes ==
  /\ said \in Seq(Transitions) /\ connections \in Seq(Nat) /\ beats \in Seq(Nat)
  /\ connection \in Nat /\ heartbeat \in Nat
  /\ request \in [Clients -> Commands \cup {"none"}]
  /\ progress \in [Clients -> {"idle", "waiting", "cached", "answered", "failed"}]
  /\ unseen \in [Clients -> Seq(BOOLEAN)] /\ acked \in [Clients -> BOOLEAN]

(* A request that waits and has been acknowledged has the acknowledgement still  *)
(* to look at, so that it does not time out.                                  *)
RequestInv ==
  \A c \in Clients :
    /\ progress[c] = "waiting" => request[c] \in Commands
    /\ progress[c] = "failed" => ~acked[c]
    /\ progress[c] = "waiting" /\ acked[c] => \E k \in DOMAIN unseen[c] : unseen[c][k]

(* What an update does to the cache and to the requests.                       *)
LEMMA UpdateKeeps ==
  ASSUME KnownTypes, RequestInv, NEW k \in Nat, NEW h \in Nat, NEW quiet, Update(k, h, quiet),
         UNCHANGED <<request, progress>>
  PROVE  /\ connection' = k /\ heartbeat' = h
         /\ unseen' \in [Clients -> Seq(BOOLEAN)] /\ acked' \in [Clients -> BOOLEAN]
         /\ RequestInv'
<1> DEFINE ack(w) == Acknowledged(Project(k, h, quiet), request[w])
<1>1. /\ connection' = k /\ heartbeat' = h
      /\ unseen' = [w \in Clients |-> IF w \in Waiting THEN Remember(unseen[w], ack(w)) ELSE unseen[w]]
      /\ acked' = [w \in Clients |-> acked[w] \/ (w \in Waiting /\ ack(w))]
  BY DEF Update
<1>2. \A w \in Waiting : w \in Clients /\ progress[w] = "waiting" /\ ack(w) \in BOOLEAN
  BY DEF Waiting, Acknowledged, Commands, RequestInv
<1> HIDE DEF ack
<1>3. ASSUME NEW w \in Clients
      PROVE  /\ unseen'[w] \in Seq(BOOLEAN) /\ acked'[w] \in BOOLEAN
             /\ acked'[w] = (acked[w] \/ (w \in Waiting /\ ack(w)))
             /\ w \notin Waiting => unseen'[w] = unseen[w]
             /\ w \in Waiting =>
                  /\ \A j \in DOMAIN unseen[w] : j \in DOMAIN unseen'[w] /\ unseen'[w][j] = unseen[w][j]
                  /\ ack(w) => \E j \in DOMAIN unseen'[w] : unseen'[w][j]
  <2>1. unseen[w] \in Seq(BOOLEAN) /\ acked[w] \in BOOLEAN
    BY DEF KnownTypes
  <2>2. acked'[w] = (acked[w] \/ (w \in Waiting /\ ack(w)))
    BY <1>1
  <2>3. CASE w \in Waiting
    <3> DEFINE noticed == unseen[w]
               a == ack(w)
    <3>1. unseen'[w] = Append(noticed, a)
      BY <1>1, <2>3 DEF Remember
    <3>2. noticed \in Seq(BOOLEAN) /\ a \in BOOLEAN
      BY <1>2, <2>1, <2>3
    <3> HIDE DEF noticed, a
    <3>3. /\ unseen'[w] \in Seq(BOOLEAN)
          /\ \A j \in DOMAIN noticed : j \in DOMAIN unseen'[w] /\ unseen'[w][j] = noticed[j]
          /\ Len(noticed) + 1 \in DOMAIN unseen'[w] /\ unseen'[w][Len(noticed) + 1] = a
      BY <3>1, <3>2
    <3>4. acked'[w] \in BOOLEAN
      BY <2>2
    <3> QED
      BY <2>2, <2>3, <3>3, <3>4 DEF noticed, a
  <2>4. CASE w \notin Waiting
    <3>1. unseen'[w] = unseen[w]
      BY <1>1, <2>4
    <3> QED
      BY <2>1, <2>2, <2>4, <3>1
  <2> QED
    BY <2>3, <2>4
<1>4. unseen' \in [Clients -> Seq(BOOLEAN)] /\ acked' \in [Clients -> BOOLEAN]
  <2>1. \E f : unseen' = [w \in Clients |-> f[w]]
    <3>1. unseen' = [w \in Clients |-> unseen'[w]]
      BY <1>1
    <3> QED
      BY <3>1
  <2>2. acked' = [w \in Clients |-> acked'[w]]
    BY <1>1
  <2> QED
    BY <1>3, <2>1, <2>2
<1>5. RequestInv'
  <2> SUFFICES ASSUME NEW c \in Clients
               PROVE  /\ progress[c] = "waiting" => request[c] \in Commands
                      /\ progress[c] = "failed" => ~acked'[c]
                      /\ progress[c] = "waiting" /\ acked'[c] => \E j \in DOMAIN unseen'[c] : unseen'[c][j]
    BY DEF RequestInv, Commands
  <2>1. c \in Waiting <=> progress[c] = "waiting"
    BY DEF Waiting
  <2> QED
    BY <1>3, <2>1 DEF RequestInv
<1> QED
  BY <1>1, <1>4, <1>5

(* What the head and the tail of a sequence that is not empty hold.         *)
LEMMA HeadAndTail ==
  ASSUME NEW S, NEW s \in Seq(S), s # <<>>
  PROVE  /\ Head(s) \in S /\ Head(s) = s[1] /\ Tail(s) \in Seq(S)
         /\ \A k \in DOMAIN s : k # 1 => k - 1 \in DOMAIN Tail(s) /\ Tail(s)[k - 1] = s[k]
<1>1. Head(s) \in S /\ Head(s) = s[1]
  OBVIOUS
<1>2. Tail(s) \in Seq(S) /\ Len(Tail(s)) = Len(s) - 1
  OBVIOUS
<1>3. Len(s) \in Nat /\ DOMAIN s = 1 .. Len(s) /\ DOMAIN Tail(s) = 1 .. Len(s) - 1
  BY <1>2
<1>4. ASSUME NEW k \in DOMAIN s, k # 1
      PROVE  k - 1 \in DOMAIN Tail(s) /\ Tail(s)[k - 1] = s[k]
  <2>1. k \in 2 .. Len(s) /\ k - 1 \in 1 .. Len(s) - 1 /\ (k - 1) + 1 = k
    BY <1>3, <1>4
  <2>2. Tail(s)[k - 1] = s[(k - 1) + 1]
    BY <2>1
  <2> QED
    BY <1>3, <2>1, <2>2
<1> QED
  BY <1>1, <1>2, <1>4

(* Every step keeps both, and the cache stands on no older transition after it.  *)
LEMMA KnownStep ==
  ASSUME KnownTypes, RequestInv, Next
  PROVE  KnownTypes' /\ RequestInv' /\ connection' >= connection /\ heartbeat' >= heartbeat
<1> USE DEF feed, streams, cache, route
<1>1. /\ Len(said) \in Nat /\ connection \in Nat /\ heartbeat \in Nat
      /\ connection >= connection /\ heartbeat >= heartbeat
  BY DEF KnownTypes
<1>2. ASSUME UNCHANGED <<connection, heartbeat, request, progress, unseen, acked>>,
             said' \in Seq(Transitions), connections' \in Seq(Nat), beats' \in Seq(Nat)
      PROVE  KnownTypes' /\ RequestInv' /\ connection' >= connection /\ heartbeat' >= heartbeat
  BY <1>1, <1>2 DEF KnownTypes, RequestInv, Commands, Transitions
<1>3. ASSUME NEW state \in {"connecting", "connected", "reconnecting", "stopped"},
             NEW reason \in {"start", "resume", "open", "closed", "backoff", "stopped", "paused"},
             Say(state, reason)
      PROVE  said' \in Seq(Transitions) /\ connections' \in Seq(Nat)
  <2>1. [state |-> state, reason |-> reason] \in Transitions
    BY DEF Transitions
  <2> QED
    BY <1>1, <1>3, <2>1 DEF Say, KnownTypes
<1>4. said \in Seq(Transitions) /\ connections \in Seq(Nat) /\ beats \in Seq(Nat)
  BY DEF KnownTypes
<1>5. CASE Start \/ Move \/ Consume
  <2>1. UNCHANGED <<beats, connection, heartbeat, request, progress, unseen, acked>>
    BY <1>5 DEF Start, Move, Consume
  <2>2. \/ UNCHANGED <<said, connections>>
        \/ \E state \in {"connecting", "connected", "reconnecting", "stopped"},
              reason \in {"start", "resume", "open", "closed", "backoff", "stopped", "paused"} : Say(state, reason)
    <3>1. CASE Start
      BY <3>1 DEF Start
    <3>2. CASE Move
      BY <3>2 DEF Move
    <3>3. CASE Consume
      BY <3>3 DEF Consume
    <3> QED
      BY <1>5, <3>1, <3>2, <3>3
  <2>3. said' \in Seq(Transitions) /\ connections' \in Seq(Nat)
    BY <1>3, <1>4, <2>2
  <2> QED
    BY <1>2, <1>4, <2>1, <2>3
<1>6. CASE Beat
  <2>1. beats' \in Seq(Nat)
    BY <1>1, <1>4, <1>6 DEF Beat
  <2> QED
    BY <1>2, <1>4, <1>6, <2>1 DEF Beat
<1>7. CASE Crash
  BY <1>2, <1>4, <1>7 DEF Crash
<1>8. CASE Lose
  <2>1. \/ UNCHANGED <<connections, beats>>
        \/ connections # <<>> /\ connections' = Tail(connections) /\ UNCHANGED beats
        \/ beats # <<>> /\ beats' = Tail(beats) /\ UNCHANGED connections
    BY <1>8 DEF Lose
  <2>2. /\ connections # <<>> => Tail(connections) \in Seq(Nat)
        /\ beats # <<>> => Tail(beats) \in Seq(Nat)
    BY <1>4, HeadAndTail
  <2>3. connections' \in Seq(Nat) /\ beats' \in Seq(Nat)
    BY <1>4, <2>1, <2>2
  <2> QED
    BY <1>2, <1>4, <1>8, <2>3 DEF Lose
<1>9. CASE Repeat
  <2>1. Len(said) - 1 \in Nat
    BY <1>1, <1>9 DEF Repeat
  <2>2. <<Len(said) - 1, Len(said)>> \in Seq(Nat)
    BY <1>1, <2>1
  <2>3. connections' \in Seq(Nat)
    BY <1>4, <1>9, <2>2 DEF Repeat
  <2> QED
    BY <1>2, <1>4, <1>9, <2>3 DEF Repeat
<1>10. CASE ApplyConnection
  <2>1. connections # <<>> /\ connections' = Tail(connections) /\ UNCHANGED <<said, beats, request, progress>>
    BY <1>10 DEF ApplyConnection
  <2>2. connections' \in Seq(Nat) /\ Head(connections) \in Nat
    BY <1>4, <2>1
  <2>3. CASE Newer(Head(connections))
    <3>1. Update(Head(connections), heartbeat, silent)
      BY <1>10, <2>3 DEF ApplyConnection
    <3>2. /\ connection' = Head(connections) /\ heartbeat' = heartbeat
          /\ unseen' \in [Clients -> Seq(BOOLEAN)] /\ acked' \in [Clients -> BOOLEAN] /\ RequestInv'
      BY <1>1, <2>1, <2>2, <3>1, UpdateKeeps
    <3>3. connection' >= connection
      BY <1>1, <2>2, <2>3, <3>2 DEF Newer
    <3> QED
      BY <1>1, <1>4, <2>1, <2>2, <3>2, <3>3 DEF KnownTypes, Commands, Transitions
  <2>4. CASE ~Newer(Head(connections))
    BY <1>2, <1>4, <1>10, <2>1, <2>2, <2>4 DEF ApplyConnection
  <2> QED
    BY <2>3, <2>4
<1>11. CASE ApplyHeartbeat
  <2>1. beats # <<>> /\ beats' = Tail(beats) /\ UNCHANGED <<said, connections, request, progress>>
    BY <1>11 DEF ApplyHeartbeat
  <2>2. beats' \in Seq(Nat) /\ Head(beats) \in Nat
    BY <1>4, <2>1
  <2>3. CASE Head(beats) >= heartbeat
    <3>1. Update(connection, Head(beats), FALSE)
      BY <1>11, <2>3 DEF ApplyHeartbeat
    <3>2. /\ connection' = connection /\ heartbeat' = Head(beats)
          /\ unseen' \in [Clients -> Seq(BOOLEAN)] /\ acked' \in [Clients -> BOOLEAN] /\ RequestInv'
      BY <1>1, <2>1, <2>2, <3>1, UpdateKeeps
    <3> QED
      BY <1>1, <1>4, <2>1, <2>2, <2>3, <3>2 DEF KnownTypes, Commands, Transitions
  <2>4. CASE ~(Head(beats) >= heartbeat)
    BY <1>2, <1>4, <1>11, <2>1, <2>2, <2>4 DEF ApplyHeartbeat
  <2> QED
    BY <2>3, <2>4
<1>12. CASE Silence
  BY <1>2, <1>4, <1>12 DEF Silence
<1>13. CASE Push
  BY <1>2, <1>4, <1>13 DEF Push
<1>14. ASSUME NEW c \in Clients, NEW command \in Commands, Post(c, command)
       PROVE  KnownTypes' /\ RequestInv' /\ connection' >= connection /\ heartbeat' >= heartbeat
  <2>1. /\ UNCHANGED <<said, connections, beats, connection, heartbeat>>
        /\ request' = [request EXCEPT ![c] = command]
        /\ unseen' = [unseen EXCEPT ![c] = <<>>] /\ acked' = [acked EXCEPT ![c] = FALSE]
    BY <1>14 DEF Post
  <2>2. \/ progress' = [progress EXCEPT ![c] = "cached"] \/ progress' = [progress EXCEPT ![c] = "waiting"]
    BY <1>14 DEF Post
  <2>3. KnownTypes'
    <3>1. <<>> \in Seq(BOOLEAN)
      OBVIOUS
    <3> QED
      BY <2>1, <2>2, <3>1 DEF KnownTypes, Commands, Transitions
  <2>4. ASSUME NEW w \in Clients
        PROVE  /\ progress'[w] = "waiting" => request'[w] \in Commands
               /\ progress'[w] = "failed" => ~acked'[w]
               /\ progress'[w] = "waiting" /\ acked'[w] => \E k \in DOMAIN unseen'[w] : unseen'[w][k]
    <3>1. CASE w = c
      BY <2>1, <2>2, <3>1 DEF KnownTypes
    <3>2. CASE w # c
      BY <2>1, <2>2, <3>2 DEF KnownTypes, RequestInv
    <3> QED
      BY <3>1, <3>2
  <2>5. RequestInv'
    BY <2>4 DEF RequestInv, Commands
  <2> QED
    BY <1>1, <2>1, <2>3, <2>5
<1>15. ASSUME NEW c \in Clients, Look(c)
       PROVE  KnownTypes' /\ RequestInv' /\ connection' >= connection /\ heartbeat' >= heartbeat
  <2> DEFINE noticed == unseen[c]
  <2>1. /\ UNCHANGED <<said, connections, beats, connection, heartbeat, request>>
        /\ progress[c] = "waiting" /\ noticed # <<>>
        /\ unseen' = [unseen EXCEPT ![c] = IF Head(noticed) THEN <<>> ELSE Tail(noticed)]
        /\ acked' = [acked EXCEPT ![c] = acked[c] /\ ~Head(noticed)]
        /\ progress' = [progress EXCEPT ![c] = IF Head(noticed) THEN "answered" ELSE progress[c]]
    BY <1>15 DEF Look, Waiting
  <2>2. noticed \in Seq(BOOLEAN) /\ acked[c] \in BOOLEAN
    BY DEF KnownTypes
  <2>3. acked[c] => \E k \in DOMAIN noticed : noticed[k]
    BY <2>1 DEF RequestInv
  <2> HIDE DEF noticed
  <2>4. /\ Head(noticed) \in BOOLEAN /\ Head(noticed) = noticed[1] /\ Tail(noticed) \in Seq(BOOLEAN) /\ <<>> \in Seq(BOOLEAN)
        /\ \A k \in DOMAIN noticed : k # 1 => k - 1 \in DOMAIN Tail(noticed) /\ Tail(noticed)[k - 1] = noticed[k]
    <3>1. <<>> \in Seq(BOOLEAN)
      OBVIOUS
    <3> QED
      BY <2>1, <2>2, <3>1, HeadAndTail
  <2>5. acked'[c] = (acked[c] /\ ~Head(noticed)) /\ acked'[c] \in BOOLEAN
    BY <2>1, <2>2 DEF KnownTypes
  <2>6. unseen'[c] = IF Head(noticed) THEN <<>> ELSE Tail(noticed)
    BY <2>1 DEF KnownTypes
  <2>7. progress'[c] = IF Head(noticed) THEN "answered" ELSE "waiting"
    BY <2>1 DEF KnownTypes
  <2>8. KnownTypes'
    <3>1. unseen' \in [Clients -> Seq(BOOLEAN)]
      BY <2>1, <2>4, <2>6 DEF KnownTypes
    <3>2. acked' \in [Clients -> BOOLEAN]
      BY <2>1, <2>5 DEF KnownTypes
    <3>3. progress' \in [Clients -> {"idle", "waiting", "cached", "answered", "failed"}]
      BY <2>1 DEF KnownTypes
    <3> QED
      BY <2>1, <3>1, <3>2, <3>3 DEF KnownTypes, Commands, Transitions
  <2>9. ASSUME NEW w \in Clients
        PROVE  /\ progress'[w] = "waiting" => request'[w] \in Commands
               /\ progress'[w] = "failed" => ~acked'[w]
               /\ progress'[w] = "waiting" /\ acked'[w] => \E k \in DOMAIN unseen'[w] : unseen'[w][k]
    <3>1. CASE w = c
      <4>1. CASE Head(noticed)
        BY <2>7, <3>1, <4>1
      <4>2. CASE ~Head(noticed)
        <5>1. acked[c] => \E k \in DOMAIN Tail(noticed) : Tail(noticed)[k]
          BY <2>3, <2>4, <4>2
        <5> QED
          BY <2>1, <2>5, <2>6, <2>7, <3>1, <4>2, <5>1 DEF RequestInv
      <4> QED
        BY <2>4, <4>1, <4>2
    <3>2. CASE w # c
      BY <2>1, <3>2 DEF KnownTypes, RequestInv
    <3> QED
      BY <3>1, <3>2
  <2>10. RequestInv'
    BY <2>9 DEF RequestInv, Commands
  <2> QED
    BY <1>1, <2>1, <2>8, <2>10
<1>16. ASSUME NEW c \in Clients, Timeout(c)
       PROVE  KnownTypes' /\ RequestInv' /\ connection' >= connection /\ heartbeat' >= heartbeat
  <2>1. /\ UNCHANGED <<said, connections, beats, connection, heartbeat, request, unseen, acked>>
        /\ progress[c] = "waiting" /\ unseen[c] = <<>> /\ progress' = [progress EXCEPT ![c] = "failed"]
    BY <1>16 DEF Timeout, Waiting
  <2>2. ~acked[c]
    BY <2>1 DEF RequestInv
  <2>3. KnownTypes'
    BY <2>1 DEF KnownTypes, Commands, Transitions
  <2>4. RequestInv'
    BY <2>1, <2>2 DEF KnownTypes, RequestInv, Commands
  <2> QED
    BY <1>1, <2>1, <2>3, <2>4
<1> QED
  BY <1>5, <1>6, <1>7, <1>8, <1>9, <1>10, <1>11, <1>12, <1>13, <1>14, <1>15, <1>16 DEF Next

(* The invariant of the last failure heard of always holds.                 *)
LEMMA KnownAlways == Spec => [](KnownTypes /\ RequestInv)
<1>1. Init => KnownTypes /\ RequestInv
  <2> SUFFICES ASSUME Init PROVE KnownTypes /\ RequestInv
    OBVIOUS
  <2>1. <<>> \in Seq(Transitions) /\ <<>> \in Seq(Nat) /\ <<>> \in Seq(BOOLEAN)
    OBVIOUS
  <2> QED
    BY <2>1 DEF Init, KnownTypes, RequestInv
<1>2. KnownTypes /\ RequestInv /\ [Next]_(vars) => (KnownTypes /\ RequestInv)'
  <2> SUFFICES ASSUME KnownTypes, RequestInv, UNCHANGED vars PROVE KnownTypes' /\ RequestInv'
    BY KnownStep
  <2> QED
    BY DEF KnownTypes, RequestInv, vars, feed, streams, cache, route,
           Commands, Transitions
<1> QED
  BY <1>1, <1>2, PTL DEF Spec

(* A 504 says that no acknowledgement came while the request waited, whatever   *)
(* is lost, repeated, late or held up between the feed and the cache, and       *)
(* whatever follows the acknowledgement before the request looks               *)
(* (feed_command, FeedConnectionCache.observe).                               *)
THEOREM AFailureIsReal == Spec => []FailureIsReal
<1>1. RequestInv => FailureIsReal
  BY DEF RequestInv, FailureIsReal
<1> QED
  BY <1>1, KnownAlways, PTL

(* The cache never returns to an older transition or heartbeat than the one it  *)
(* stands on, in whatever order the two streams, a retry and a restart of the   *)
(* feed bring them (FeedConnectionCache.apply).                               *)
THEOREM TheCacheNeverGoesBack == Spec => KnownNeverGoesBack
<1>1. /\ KnownTypes /\ RequestInv /\ [Next]_(vars)
      => [connection' >= connection /\ heartbeat' >= heartbeat]_<<connection, heartbeat>>
  <2> SUFFICES ASSUME KnownTypes, RequestInv, Next
               PROVE  connection' >= connection /\ heartbeat' >= heartbeat
    BY DEF vars, cache
  <2> QED
    BY KnownStep
<1> QED
  BY <1>1, KnownAlways, PTL DEF Spec, KnownNeverGoesBack
=============================================================================
