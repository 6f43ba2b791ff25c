----------------------------- MODULE Operations -----------------------------
(***************************************************************************)
(* What a person who runs the system is told, and what they may press: the    *)
(* alerts in Discord (Alerts), the store's health and its own alerts           *)
(* (StoreMonitor), the recording switch of the browser (Recording), and the    *)
(* start and stop of a process (Lifespans). Modelled as they are, the four      *)
(* share no state, so a behaviour follows one of them while the others stand   *)
(* still.                                                                  *)
(***************************************************************************)
EXTENDS Alerts, StoreMonitor, Recording, Lifespans

VARIABLE part  \* which of the four the behaviour follows

operationsVars == <<part, alertVars, monitorVars, switchVars, lifespanVars>>

(* The switch of a system whose store is down, and whose tabs say so. *)
SwitchedOff ==
  /\ alive = FALSE /\ recording = "on" /\ durable = "on" /\ owed = FALSE /\ pending = <<>>
  /\ snapshots = <<>> /\ cached = Unread /\ fresh = FALSE
  /\ shown = [t \in Tabs |-> Unread] /\ failure = [t \in Tabs |-> TRUE]
  /\ busy = [t \in Tabs |-> FALSE] /\ polls = [t \in Tabs |-> NoPolls]
  /\ post = [t \in Tabs |-> "none"] /\ want = [t \in Tabs |-> "on"]
  /\ presses = 0 /\ mishaps = 0 /\ accepted = Unread /\ undone = FALSE

(* A process that is over. *)
LongOver ==
  /\ process = CHOOSE p \in Processes : TRUE
  /\ stage = "over" /\ running = {} /\ ended = {} /\ toClose = <<>>
  /\ redisUp = TRUE /\ outbox = {} /\ outages = 0 /\ wentWrong = {}

OperationsInit ==
  /\ part \in {"alerts", "monitor", "recording", "lifespan"}
  /\ IF part = "alerts" THEN AlertsInit ELSE webhook = FALSE /\ Fresh
  /\ MonitorInit
  /\ IF part = "recording" THEN SwitchInit ELSE SwitchedOff
  /\ IF part = "lifespan" THEN LifespanInit ELSE LongOver

OperationsNext ==
  \/ part = "alerts" /\ AlertsNext /\ UNCHANGED <<part, monitorVars, switchVars, lifespanVars>>
  \/ part = "monitor" /\ MonitorNext /\ UNCHANGED <<part, alertVars, switchVars, lifespanVars>>
  \/ part = "recording" /\ SwitchNext /\ UNCHANGED <<part, alertVars, monitorVars, lifespanVars>>
  \/ part = "lifespan" /\ LifespanNext /\ UNCHANGED <<part, alertVars, monitorVars, switchVars>>

OperationsSpec ==
  OperationsInit /\ [][OperationsNext]_operationsVars /\ (part = "recording" => SwitchFairness)
=============================================================================
