----------------------------- MODULE Lifespans -----------------------------
(***************************************************************************)
(* The life of the engine's processes: the monolith and the api (main.py), the *)
(* feed (feed_main.py), the store (store_main.py) and the alert service        *)
(* (alert_main.py). Each starts its parts in an order of its own, in which       *)
(* Redis or the venue may be missing; serves, while a task may end; and closes   *)
(* its parts in order, while the others still run.                            *)
(*                                                                         *)
(* What is published is one word for each thing a part says; a word is in the    *)
(* outbox of redis_bus.py until a flush takes all of it to Redis.              *)
(***************************************************************************)
EXTENDS Integers, Sequences, FiniteSets

CONSTANTS
  Processes,   \* the processes looked at
  MaxOutages,  \* bound: times Redis stops answering
  MaxDeaths    \* bound: tasks that end by themselves

ASSUME LifespanAssumption ==
  /\ Processes \subseteq {"monolith", "api", "feed", "store", "alerts"}
  /\ {MaxOutages, MaxDeaths} \subseteq Nat

VARIABLES
  process,   \* which of them this is
  stage,     \* what it starts next, "serving", "closing" or "over"
  running,   \* its tasks, clients and readers that are running
  ended,     \* those that ended by themselves
  toClose,   \* the steps of the shutdown still to come
  redisUp,   \* Redis answers
  outbox,    \* words published and not yet written
  outages,   \* bound: outages so far
  wentWrong  \* history: what kept it from starting, or from closing, as it should

lifespanVars == <<process, stage, running, ended, toClose, redisUp, outbox, outages, wentWrong>>

----------------------------------------------------------------------------
(* What each of them runs.                                                   *)
MonolithTasks == {"chain-stream", "chain-recompute", "chain-minute-pass", "bar-writer", "instrument-relist"}
ApiTasks == {"chain-stream", "chain-recompute", "chain-minute-pass", "feed-state", "store-state-cache",
             "computed-chain-publisher", "bar-buffer"}
ApiReaders == {"read-chain-cache", "read-feed-state", "read-store-state", "read-bar-buffer"}
StoreTasks == {"store-writer", "store-control", "store-state", "store-bus-monitor"}
StoreReaders == {"read-store", "read-store-control"}
Tasks == MonolithTasks \cup ApiTasks \cup StoreTasks \cup {"feed-control", "alert-consumer"}
Readers == ApiReaders \cup StoreReaders \cup {"read-feed-control", "read-alerts"}

(* RedisBus.start: the connection, proved by a ping, and the flusher.          *)
BusParts == {"redis", "bus-flush"}

FirstStage == [monolith |-> "client", api |-> "bus", feed |-> "bus", store |-> "bus", alerts |-> "bus"]

LifespanInit ==
  /\ process \in Processes /\ stage = FirstStage[process]
  /\ running = {} /\ ended = {} /\ toClose = <<>>
  /\ redisUp \in BOOLEAN /\ outbox = {} /\ outages = 0 /\ wentWrong = {}

Goes(next, parts) == stage' = next /\ running' = running \cup parts
Gives(next) == stage' = next /\ UNCHANGED running
Started == UNCHANGED <<process, ended, toClose, redisUp, outbox, outages>>

----------------------------------------------------------------------------
(* Starting. An exception out of the lifespan ends the process.                *)
OpenClient ==
  /\ stage = "client"
  /\ Goes(IF process = "feed" THEN "control" ELSE "listing", {"client"})
  /\ UNCHANGED wentWrong /\ Started

(* start_bus, and what each process does beside it: the api and the alert        *)
(* service have subscribed already, the feed does so later, and the store         *)
(* prepares its groups before a reader may run.                              *)
AfterTheBus ==
  CASE process = "api" -> Goes("serving", BusParts \cup ApiReaders \cup ApiTasks)
    [] process = "alerts" -> Goes("serving", BusParts \cup {"read-alerts", "alert-consumer"})
    [] process = "feed" -> Goes("client", BusParts)
    [] process = "store" -> Goes("groups", BusParts)

StartBus ==
  /\ stage = "bus" /\ redisUp
  /\ AfterTheBus
  /\ UNCHANGED wentWrong /\ Started

(* BusUnavailable: fatal everywhere, once what was opened is closed.            *)
BusUnavailable ==
  /\ stage = "bus" /\ ~redisUp
  /\ Gives("over") /\ wentWrong' = wentWrong \cup {"no redis"} /\ Started

(* The feed's own commands, whether or not the venue will answer.              *)
Control ==
  /\ stage = "control" /\ Goes("listing", {"read-feed-control", "feed-control"})
  /\ UNCHANGED wentWrong /\ Started

(* start_feed_stack, and the same in the feed: the first listing, then the       *)
(* supervisor and the tasks.                                                *)
FedTasks == IF process = "monolith" THEN MonolithTasks ELSE {"instrument-relist"}

StartFeed ==
  /\ stage = "listing" /\ Goes("serving", {"supervisor"} \cup FedTasks)
  /\ UNCHANGED wentWrong /\ Started

(* The venue cannot be asked, or the monolith was told not to.                 *)
DeltaUnavailable ==
  /\ stage = "listing" /\ Gives("serving")
  /\ wentWrong' = wentWrong \cup {"no venue"} /\ Started

(* The order it closes in. A monolith that never started its feed leaves the      *)
(* writer alone.                                                            *)
BusFirst ==
  CASE process = "monolith" -> <<"supervisor", "tasks", "writer", "client">>
    [] process = "feed" -> <<"tasks", "bus", "supervisor", "client">>
    [] process = "store" -> <<"tasks", "bus", "writer">>
    [] OTHER -> <<"tasks", "bus">>

Closing ==
  CASE process = "monolith" /\ "no venue" \in wentWrong -> <<"supervisor", "client">>
    [] process = "monolith" /\ "no venue" \notin wentWrong -> <<"supervisor", "tasks", "writer", "client">>
    [] process = "feed" -> <<"tasks", "supervisor", "bus", "client">>
    [] process = "store" -> <<"tasks", "writer", "bus">>
    [] OTHER -> <<"tasks", "bus">>

(* Anything else that goes wrong by then. The feed closes what it has, which      *)
(* without a client and an adapter is less; the monolith's exception leaves its    *)
(* lifespan before the try that would close anything.                         *)
StartFails ==
  \/ /\ process = "feed" /\ stage \in {"client", "listing"}
     /\ stage' = "closing" /\ toClose' = IF stage = "client" THEN <<"bus", "client">> ELSE Closing
     /\ wentWrong' = wentWrong \cup {"start"}
     /\ UNCHANGED <<process, running, ended, redisUp, outbox, outages>>
  \/ /\ process = "monolith" /\ stage = "listing"
     /\ Gives("over") /\ wentWrong' = wentWrong \cup {"preparation"} /\ Started

(* _prepare_process: groups and the gap check, then the readers, then the first  *)
(* checkpoint. Redis or the disk may fail it half way.                       *)
PrepareStore ==
  /\ stage = "groups" /\ redisUp /\ Goes("checkpoint", StoreReaders)
  /\ UNCHANGED wentWrong /\ Started

StartStore ==
  /\ stage = "checkpoint" /\ Goes("serving", StoreTasks)
  /\ outbox' = outbox \cup {"state"}
  /\ UNCHANGED <<process, ended, toClose, redisUp, outages, wentWrong>>

PrepareFails ==
  /\ stage \in {"groups", "checkpoint"}
  /\ Gives("over") /\ wentWrong' = wentWrong \cup {"preparation"} /\ Started

----------------------------------------------------------------------------
(* Serving.                                                                 *)
Says(part) == CASE part = "supervisor" -> "event" [] part = "store-state" -> "state"
                [] part = "store-writer" -> "bars" [] part = "computed-chain-publisher" -> "computed"

Publish == \E part \in running \cap {"supervisor", "store-state", "store-writer", "computed-chain-publisher"} :
  /\ process # "monolith"
  /\ outbox' = outbox \cup {Says(part)}
  /\ UNCHANGED <<process, stage, running, ended, toClose, redisUp, outages, wentWrong>>

Flush ==
  /\ "bus-flush" \in running /\ redisUp /\ outbox # {} /\ outbox' = {}
  /\ UNCHANGED <<process, stage, running, ended, toClose, redisUp, outages, wentWrong>>

RedisStops ==
  /\ redisUp /\ outages < MaxOutages /\ redisUp' = FALSE /\ outages' = outages + 1
  /\ UNCHANGED <<process, stage, running, ended, toClose, outbox, wentWrong>>

RedisReturns ==
  /\ ~redisUp /\ redisUp' = TRUE
  /\ UNCHANGED <<process, stage, running, ended, toClose, outbox, outages, wentWrong>>

(* A task that raises, which the loops that catch whatever they call do not.    *)
(* _reader_exited says it on the bus, too.                                   *)
Guarded == {"chain-recompute", "chain-minute-pass", "instrument-relist", "store-control",
            "store-state", "store-bus-monitor"}
Mortal == (Tasks \ Guarded) \cup Readers \cup {"bus-flush"}

EndsByItself == \E part \in running \cap Mortal :
  /\ stage = "serving" /\ Cardinality(ended) < MaxDeaths
  /\ running' = running \ {part} /\ ended' = ended \cup {part}
  /\ outbox' = outbox \cup (IF part \in Readers THEN {"alert"} ELSE {})
  /\ UNCHANGED <<process, stage, toClose, redisUp, outages, wentWrong>>

----------------------------------------------------------------------------
(* Closing.                                                                 *)
Stop ==
  /\ stage = "serving" /\ stage' = "closing" /\ toClose' = Closing
  /\ UNCHANGED <<process, running, ended, redisUp, outbox, outages, wentWrong>>

Step(step) == stage = "closing" /\ toClose # <<>> /\ Head(toClose) = step /\ toClose' = Tail(toClose)

CloseTasks ==
  /\ Step("tasks") /\ running' = running \ (Tasks \cup {"instrument-relist"})
  /\ UNCHANGED <<process, stage, ended, redisUp, outbox, outages, wentWrong>>

(* Each controller is stopped first, and says so.                            *)
CloseSupervisor ==
  /\ Step("supervisor") /\ running' = running \ {"supervisor"}
  /\ outbox' = IF process = "feed" THEN outbox \cup {"stopped"} ELSE outbox
  /\ UNCHANGED <<process, stage, ended, redisUp, outages, wentWrong>>

(* BarWriter.aclose publishes what it seals; the monolith's goes to no bus.     *)
CloseWriter ==
  /\ Step("writer") /\ outbox' = IF process = "store" THEN outbox \cup {"bars"} ELSE outbox
  /\ UNCHANGED <<process, stage, running, ended, redisUp, outages, wentWrong>>

(* The last commit fails. The monolith logs it; in the store the exception       *)
(* leaves _close_process, and the bus is not closed.                         *)
CloseWriterFails ==
  /\ Step("writer")
  /\ IF process = "store"
       THEN /\ stage' = "over" /\ wentWrong' = wentWrong \cup {"last commit"}
            /\ outbox' = outbox \cup {"bars", "alert"}
       ELSE UNCHANGED <<stage, wentWrong, outbox>>
  /\ UNCHANGED <<process, running, ended, redisUp, outages>>

(* RedisBus.aclose: readers, flusher, one last flush, the connection.          *)
CloseBus ==
  /\ Step("bus") /\ running' = running \ (Readers \cup BusParts)
  /\ IF redisUp THEN outbox' = {} /\ UNCHANGED wentWrong
                ELSE wentWrong' = wentWrong \cup {"last flush"} /\ UNCHANGED outbox
  /\ UNCHANGED <<process, stage, ended, redisUp, outages>>

CloseClient ==
  /\ Step("client") /\ running' = running \ {"client"}
  /\ UNCHANGED <<process, stage, ended, redisUp, outbox, outages, wentWrong>>

Over ==
  /\ stage = "closing" /\ toClose = <<>> /\ stage' = "over"
  /\ UNCHANGED <<process, running, ended, toClose, redisUp, outbox, outages, wentWrong>>

LifespanNext ==
  \/ OpenClient \/ StartBus \/ BusUnavailable \/ Control \/ StartFeed \/ DeltaUnavailable \/ StartFails
  \/ PrepareStore \/ StartStore \/ PrepareFails
  \/ Publish \/ Flush \/ RedisStops \/ RedisReturns \/ EndsByItself
  \/ Stop \/ CloseTasks \/ CloseSupervisor \/ CloseWriter \/ CloseWriterFails \/ CloseBus \/ CloseClient
  \/ Over

LifespanSpec == LifespanInit /\ [][LifespanNext]_lifespanVars

----------------------------------------------------------------------------
(* What says that a task ended: the done-callbacks of main.py's tasks and of     *)
(* the bus's, and the problems of the health route.                          *)
Logged == IF process \in {"monolith", "api"} THEN MonolithTasks \cup ApiTasks ELSE {}
BusLogged == Readers \cup {"bus-flush"}

FeedProblems ==
  (ended \cap {"read-feed-control", "bus-flush", "feed-control"})
  \cup (IF "supervisor" \in running THEN {} ELSE {"supervisor"})
StoreProblems == ended \cap (StoreReaders \cup {"bus-flush"})
AlertProblems == {"alert-consumer"} \ running
Problems ==
  CASE process = "feed" -> FeedProblems [] process = "store" -> StoreProblems
    [] process = "alerts" -> AlertProblems [] OTHER -> {}

----------------------------------------------------------------------------
(* A process that closes has sent what its parts said to the last, the stopped   *)
(* transition of its feed and the bars its store sealed among it, also when its   *)
(* flusher had died, unless Redis was away at the last flush or the last commit   *)
(* raised.                                                                  *)
LastWordsAreSent ==
  stage = "over" /\ wentWrong \cap {"last flush", "last commit"} = {} => outbox = {}

(* Whether it could not start without Redis, came up without the venue, or        *)
(* closed, no task, reader or connection of it is left: only a store that fails   *)
(* in its preparation or its last commit, and a monolith whose first listing       *)
(* raises, leave that to the end of the process.                              *)
NothingIsLeftOpen ==
  stage = "over" /\ wentWrong \cap {"preparation", "last commit"} = {} => running = {}

(* Both.                                                                    *)
ClosesClean == LastWordsAreSent /\ NothingIsLeftOpen

(* store_main.py:654 promises "Every reason this store is not fine", "a task that  *)
(* exited" among them, and redis_bus.py:877 says that a task that can die          *)
(* unobserved was the root of an incident. The store's own tasks have no           *)
(* done-callback, and /health asks after the bus's only.                        *)
DeathIsReported == stage = "serving" => ended \subseteq Logged \cup BusLogged \cup Problems
=============================================================================
