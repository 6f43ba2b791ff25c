------------------------------ MODULE Alerts ------------------------------
(***************************************************************************)
(* The Discord alert service: AlertConsumer._run_once over AlertGate and     *)
(* DiscordPoster (alert_consumer.py, discord_alerts.py). One alert is       *)
(* handled at a time; the HTTP call is the one place it waits.              *)
(*                                                                         *)
(* Times are kept as ages: how long ago something happened, counted up to    *)
(* the limit the code compares it with, where it stays. "Never" is that      *)
(* limit, because the code treats both alike. So no clock bounds the model.  *)
(***************************************************************************)
EXTENDS Integers

CONSTANTS
  Signatures,   \* (code, adapter, severity) of the alerts
  Window,       \* ALERT_COLLAPSE_WINDOW_SECONDS, in ticks
  Floor,        \* ALERT_MIN_POST_INTERVAL_SECONDS, in ticks
  RetryAfters,  \* what a 429 may ask for, in ticks
  CallTimeout,  \* how long the HTTP client waits, in ticks
  MaxFolds,     \* bound: repeats folded between two posts of a signature
  None          \* no signature

ASSUME AlertsAssumption ==
  /\ {Window, Floor} \subseteq Nat \ {0}
  /\ CallTimeout \in 0..Window
  /\ MaxFolds \in Nat
  /\ RetryAfters \subseteq Nat
  /\ None \notin Signatures

VARIABLES
  webhook,       \* whether DISCORD_WEBHOOK_URL is set
  sincePost,     \* gate: age of _last_post_at_by_signature
  suppressed,    \* gate: _suppressed_count_by_signature
  sinceLast,     \* gate: age of last_post_at
  snapshot,      \* gate: the suppressed count of _pending_post
  blocked,       \* poster: ticks until _blocked_until, 0 when past
  call,          \* the signature being posted, None between alerts
  callAge,       \* ticks since its decision
  sinceAnswered, \* history: age of the decision of the last post Discord answered
  sinceCall,     \* history: age of the decision of the last HTTP call
  folded,        \* history: repeats folded since the last HTTP call
  asked          \* history: ticks left of the backoff, counted from Discord's answer

gate == <<sincePost, suppressed, sinceLast, snapshot>>
alertHistory == <<sinceAnswered, sinceCall, folded, asked>>
alertVars == <<webhook, gate, blocked, call, callAge, alertHistory>>

Fresh ==
  /\ sincePost = [s \in Signatures |-> Window]
  /\ suppressed = [s \in Signatures |-> 0]
  /\ sinceLast = Floor
  /\ snapshot = 0
  /\ blocked = 0
  /\ call = None /\ callAge = 0
  /\ sinceAnswered = [s \in Signatures |-> Window]
  /\ sinceCall = Floor
  /\ folded = [s \in Signatures |-> 0]
  /\ asked = 0

AlertsInit == webhook \in BOOLEAN /\ Fresh

----------------------------------------------------------------------------
Older(age, limit) == IF age < limit THEN age + 1 ELSE limit

AlertsAge ==
  /\ call # None => callAge < CallTimeout
  /\ sincePost' = [s \in Signatures |-> Older(sincePost[s], Window)]
  /\ sinceLast' = Older(sinceLast, Floor)
  /\ blocked' = IF blocked > 0 THEN blocked - 1 ELSE 0
  /\ callAge' = IF call = None THEN 0 ELSE callAge + 1
  /\ sinceAnswered' = [s \in Signatures |-> Older(sinceAnswered[s], Window)]
  /\ sinceCall' = Older(sinceCall, Floor)
  /\ asked' = IF asked > 0 THEN asked - 1 ELSE 0
  /\ UNCHANGED <<webhook, suppressed, snapshot, call, folded>>

----------------------------------------------------------------------------
(* AlertGate.decide. A repeat inside the window is folded; otherwise one     *)
(* inside the floor of any post is dropped and leaves no mark.              *)
Collapsed(s) == sincePost[s] < Window
RateLimited == sinceLast < Floor

Fold(s) ==
  /\ call = None
  /\ Collapsed(s)
  /\ suppressed[s] < MaxFolds
  /\ suppressed' = [suppressed EXCEPT ![s] = @ + 1]
  /\ snapshot' = 0
  /\ folded' = [folded EXCEPT ![s] = @ + 1]
  /\ UNCHANGED <<webhook, sincePost, sinceLast, blocked, call, callAge, sinceAnswered,
                 sinceCall, asked>>

Drop(s) ==
  /\ call = None
  /\ ~Collapsed(s) /\ RateLimited
  /\ snapshot' = 0
  /\ UNCHANGED <<webhook, sincePost, suppressed, sinceLast, blocked, call, callAge, alertHistory>>

(* post_alert up to its await: without a webhook, or inside Discord's        *)
(* backoff, nothing is called.                                              *)
Ready == webhook /\ blocked = 0

(* The decision to post takes the count, the window and the floor, and the   *)
(* request leaves with no suspension in between.                            *)
Request(s) ==
  /\ call = None
  /\ ~Collapsed(s) /\ ~RateLimited /\ Ready
  /\ snapshot' = suppressed[s]
  /\ suppressed' = [suppressed EXCEPT ![s] = 0]
  /\ sincePost' = [sincePost EXCEPT ![s] = 0]
  /\ sinceLast' = 0
  /\ call' = s /\ callAge' = 0
  /\ sinceCall' = 0
  /\ folded' = [folded EXCEPT ![s] = 0]
  /\ UNCHANGED <<webhook, blocked, sinceAnswered, asked>>

(* NOT_ATTEMPTED: decide spent the three, and rollback_post restores them    *)
(* before anything else runs. What it restores of the two times is expired,  *)
(* or decide had not let the alert through.                                 *)
RolledBack(s) ==
  /\ sincePost' = [sincePost EXCEPT ![s] = Window]
  /\ sinceLast' = Floor
  /\ UNCHANGED suppressed

Skip(s) ==
  /\ call = None
  /\ ~Collapsed(s) /\ ~RateLimited /\ ~Ready
  /\ RolledBack(s)
  /\ snapshot' = 0
  /\ UNCHANGED <<webhook, blocked, call, callAge, alertHistory>>

----------------------------------------------------------------------------
Answered ==
  /\ call' = None /\ callAge' = 0
  /\ snapshot' = 0

(* DELIVERED: the occurrence keeps its window.                              *)
Delivered ==
  /\ call # None
  /\ Answered
  /\ sinceAnswered' = [sinceAnswered EXCEPT ![call] = callAge]
  /\ UNCHANGED <<webhook, sincePost, suppressed, sinceLast, blocked, sinceCall, folded, asked>>

(* RATE_LIMITED: Discord saw it, so the window stays; the backoff counts     *)
(* from the time of the decision.                                           *)
Backoff(r) == IF r > callAge THEN r - callAge ELSE 0

Refused(r) ==
  /\ call # None
  /\ Answered
  /\ sinceAnswered' = [sinceAnswered EXCEPT ![call] = callAge]
  /\ blocked' = Backoff(r)
  /\ asked' = r
  /\ UNCHANGED <<webhook, sincePost, suppressed, sinceLast, sinceCall, folded>>

(* FAILED: rollback_collapse_window gives the window back, and only that;    *)
(* what it restores of the window is expired, or decide had folded.         *)
Committed == UNCHANGED <<sincePost, sinceLast, suppressed>>
WindowBack ==
  /\ sincePost' = [sincePost EXCEPT ![call] = Window]
  /\ UNCHANGED <<sinceLast, suppressed>>

Failed ==
  /\ call # None
  /\ Answered
  /\ WindowBack
  /\ UNCHANGED <<webhook, blocked, alertHistory>>

(* The service is restarted: the gate and the poster are memory, and a call  *)
(* in flight ends with the process. Alerts from before the start are dropped *)
(* ahead of the gate and change nothing.                                    *)
ServiceRestarts ==
  /\ sincePost' = [s \in Signatures |-> Window]
  /\ suppressed' = [s \in Signatures |-> 0]
  /\ sinceLast' = Floor
  /\ snapshot' = 0
  /\ blocked' = 0
  /\ call' = None /\ callAge' = 0
  /\ sinceAnswered' = [s \in Signatures |-> Window]
  /\ sinceCall' = Floor
  /\ folded' = [s \in Signatures |-> 0]
  /\ asked' = 0
  /\ UNCHANGED webhook

Alert(s) == Fold(s) \/ Drop(s) \/ Request(s) \/ Skip(s)

AlertsNext ==
  \/ AlertsAge
  \/ \E s \in Signatures : Fold(s) \/ Drop(s) \/ Request(s) \/ Skip(s)
  \/ Delivered \/ (\E r \in RetryAfters : Refused(r)) \/ Failed
  \/ ServiceRestarts

AlertsSpec == AlertsInit /\ [][AlertsNext]_alertVars

----------------------------------------------------------------------------
TypeOK ==
  /\ webhook \in BOOLEAN
  /\ sincePost \in [Signatures -> 0..Window]
  /\ sinceAnswered \in [Signatures -> 0..Window]
  /\ suppressed \in [Signatures -> Nat]
  /\ folded \in [Signatures -> Nat]
  /\ sinceLast \in 0..Floor /\ sinceCall \in 0..Floor
  /\ snapshot \in Nat /\ blocked \in Nat /\ asked \in Nat
  /\ call \in Signatures \cup {None}
  /\ callAge \in 0..CallTimeout

(* Between alerts the gate silences a signature only for a post of it that   *)
(* Discord answered inside the window, and anything else only for a request  *)
(* that was really made inside the floor: a post that failed, or was never   *)
(* attempted, silences nothing (#115).                                      *)
SilenceHasAReason ==
  call = None =>
    /\ \A s \in Signatures : Collapsed(s) => sinceAnswered[s] < Window
    /\ RateLimited => sinceCall < Floor

(* And never too little: requests are a floor apart, and a signature Discord *)
(* has answered is not posted again inside its window, whatever failed,      *)
(* was rolled back or skipped meanwhile.                                    *)
CallsAreSpaced ==
  call = None =>
    /\ \A s \in Signatures : sinceAnswered[s] < Window => Collapsed(s)
    /\ sinceCall < Floor => RateLimited

(* Both at once: an alert is silenced exactly when its reader has seen one    *)
(* like it, or the webhook a request, too recently.                         *)
SilenceIsExact == SilenceHasAReason /\ CallsAreSpaced

(* "collapsed N times since last post": the count a message will carry is    *)
(* the repeats folded since the last request for its signature; a skipped    *)
(* post gives it back and a failed one does not.                            *)
FoldsAreExact == suppressed = folded

(* The gate, between alerts, is what really happened to the earlier ones.     *)
GateIsExact == SilenceIsExact /\ FoldsAreExact

(* alert_main.health says of a 429 that Discord named its own backoff and    *)
(* the poster is honouring it. The poster counts it from the decision, which *)
(* precedes the answer by the time of the call.                             *)
BackoffIsHonoured == asked > 0 => blocked > 0
=============================================================================
