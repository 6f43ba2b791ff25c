----------------------------- MODULE Connection -----------------------------
(***************************************************************************)
(* One feed connection: the state machine of controller.ConnectionController, *)
(* the dial loop that drives it, the staleness watchdog that ticks beside it, *)
(* the operator's commands, and the adapter's socket underneath (one          *)
(* adapter.stream() call is one connection).                                  *)
(*                                                                            *)
(* Everything runs on one asyncio loop, so an action here is the code between *)
(* two awaits.  What interleaves is which task runs next: the dial loop, the  *)
(* stream task, the watchdog, a command handler, and time itself.             *)
(*                                                                            *)
(* Every instant the code keeps (`_last_message_at`, `_opened_at`,            *)
(* `_attempt_at`, `_entered_at`) is kept here as an AGE that saturates at     *)
(* ReconnectAfter: the watchdog only ever compares ages with two bounds, so   *)
(* nothing it can tell apart is lost, and the state space is finite without   *)
(* a horizon.                                                                 *)
(***************************************************************************)
EXTENDS Naturals

CONSTANTS
  Budget,          (* reconnect_budget: drops allowed before giving up        *)
  DegradedAfter,   (* degraded_after, in ticks of the modelled clock          *)
  ReconnectAfter,  (* reconnect_after, in ticks                               *)
  RetryDelay,      (* retry_delay: the first backoff wait                     *)
  MaxRetryDelay,   (* MAX_RETRY_DELAY_SECONDS: the ceiling of the doubling    *)
  Commands         (* the operator verbs this instance receives               *)

ASSUME ConnectionAssumption ==
  /\ Budget \in Nat
  /\ RetryDelay \in Nat /\ MaxRetryDelay \in Nat
  /\ RetryDelay <= MaxRetryDelay
  /\ DegradedAfter \in Nat /\ ReconnectAfter \in Nat
  /\ 0 < DegradedAfter /\ DegradedAfter < ReconnectAfter
  /\ Commands \subseteq {"pause", "resume", "reconnect"}

VARIABLES
  conn,            (* _state; "none" before start()                           *)
  raised,          (* whether some handler ever raised IllegalTransition      *)
  paused,          (* _paused                                                 *)
  spent,           (* _budget_spent                                           *)
  gaveUp,          (* whether the reconnect_budget_spent alert has gone out   *)
  delay,           (* _delay: the next backoff wait                           *)
  socketClosed,    (* _socket_closed: the last thing said of the socket       *)
  cutByPause,      (* _cut_by = "paused"                                      *)
  loop,            (* where run()/_attempt_forever is awaiting                *)
  left,            (* ticks left of the backoff sleep                         *)
  stream,          (* the adapter.stream task, and the socket it owns         *)
  adapterStopped,  (* the adapter's permanent _stopping flag                  *)
  attached,        (* whether connection_signal is on the adapter's register  *)
  msgAge,          (* age of _last_message_at, NoAge when it is None          *)
  openAge,         (* age of _opened_at; None is as good as ReconnectAfter    *)
  dialAge,         (* age of _attempt_at, likewise                            *)
  stateAge,        (* age of _entered_at                                      *)
  dials            (* history: dials since the endpoint last proved itself    *)

machine == <<conn, raised, stateAge>>
budget == <<spent, gaveUp, adapterStopped>>
ages == <<msgAge, openAge, dialAge>>
task == <<loop, left, stream>>
vars == <<conn, raised, paused, spent, gaveUp, delay, socketClosed, cutByPause,
          loop, left, stream, adapterStopped, attached, msgAge, openAge,
          dialAge, stateAge, dials>>

NoAge == ReconnectAfter + 1

States == {"none", "connecting", "connected", "degraded", "reconnecting", "stopped"}

(* idle: not run yet.  parked: awaiting _resumed.  unparked: _resumed was     *)
(* set, the wake-up is scheduled and cannot be taken back.  streaming:        *)
(* awaiting the stream task.  sleeping: the backoff.  finishing: in run()'s   *)
(* finally, awaiting the cancelled timer.  unwinding: the supervisor          *)
(* cancelled the task.  closed: unwound after that.                           *)
LoopStates == {"idle", "parked", "unparked", "streaming", "sleeping",
               "finishing", "done", "unwinding", "closed"}

(* none: no task.  new: created, not run yet.  dialing, open: inside          *)
(* DeltaSocket.run.  cut: cancel() called, not delivered.  over: finished,    *)
(* the dial loop not resumed yet.                                             *)
StreamStates == {"none", "new", "dialing", "open", "cut", "over"}

Live == {"new", "dialing", "open", "cut"}     \* not stream.done()
Running == {"connecting", "connected", "degraded"}

Allowed ==
  { <<"none", "connecting">>, <<"stopped", "connecting">>,
    <<"connecting", "connected">>, <<"connected", "degraded">>,
    <<"degraded", "connected">>, <<"reconnecting", "connecting">> }
  \cup { <<s, "reconnecting">> : s \in Running }
  \cup { <<s, "stopped">> : s \in Running \cup {"reconnecting"} }

-----------------------------------------------------------------------------
(* The pieces the handlers are made of.  Each one fixes the primed variables  *)
(* its first line names.                                                      *)

(* transition(): the moves a handler makes in one go, ending in state `to`.   *)
(* A move off the table raises IllegalTransition.                             *)
Go(moves, to) ==
  /\ conn' = to
  /\ raised' = (raised \/ \E m \in moves : m \notin Allowed)
  /\ stateAge' = IF moves = {} THEN stateAge ELSE 0

Stay == UNCHANGED machine

(* start(): the only place the age of the last message is forgotten.          *)
Start ==
  /\ Go({<<conn, "connecting">>}, "connecting")
  /\ msgAge' = NoAge /\ openAge' = ReconnectAfter /\ dialAge' = ReconnectAfter
  /\ attached' = TRUE

(* stop(): the adapter is told whatever the state.                            *)
Stop ==
  /\ adapterStopped' = TRUE
  /\ IF conn \in {"none", "stopped"} THEN Stay ELSE Go({<<conn, "stopped">>}, "stopped")

(* _cut(): cancel a stream task that has not finished.                        *)
Cut(byPause) ==
  IF stream \in Live
    THEN stream' = "cut" /\ cutByPause' = byPause
    ELSE UNCHANGED <<stream, cutByPause>>

(* connection_closed() and _spend_reconnect(), reached from state `from`      *)
(* after the moves `before`: checked before spending, so a budget of two      *)
(* allows two reconnects.                                                     *)
ConnectionClosed(from, before) ==
  LET down == before \cup IF from = "reconnecting" THEN {}
                          ELSE {<<from, "reconnecting">>}
  IN
  /\ socketClosed' = TRUE
  /\ \/ /\ from \in {"none", "stopped"}
        /\ Go(before, from)
        /\ UNCHANGED budget
     \/ /\ from \notin {"none", "stopped"} /\ spent < Budget
        /\ spent' = spent + 1
        /\ Go(down, "reconnecting")
        /\ UNCHANGED <<gaveUp, adapterStopped>>
     \/ /\ from \notin {"none", "stopped"} /\ spent >= Budget
        /\ Go(down \cup {<<"reconnecting", "stopped">>}, "stopped")
        /\ gaveUp' = TRUE /\ adapterStopped' = TRUE
        /\ UNCHANGED spent

(* Variant: merely opening restores the budget.                               *)
ConnectionOpenedRestoresBudget ==
  /\ openAge' = 0
  /\ socketClosed' = FALSE
  /\ spent' = 0
  /\ UNCHANGED dials
  /\ \/ /\ conn = "reconnecting"
        /\ Go({<<conn, "connecting">>, <<"connecting", "connected">>}, "connected")
     \/ conn = "connecting" /\ Go({<<conn, "connected">>}, "connected")
     \/ conn \notin {"reconnecting", "connecting"} /\ Stay

(* connection_opened(): the replayed socket's silence starts here.            *)
ConnectionOpened ==
  /\ openAge' = 0
  /\ socketClosed' = FALSE
  /\ UNCHANGED <<spent, dials>>
  /\ \/ /\ conn = "reconnecting"
        /\ Go({<<conn, "connecting">>, <<"connecting", "connected">>}, "connected")
     \/ conn = "connecting" /\ Go({<<conn, "connected">>}, "connected")
     \/ conn \notin {"reconnecting", "connecting"} /\ Stay

(* message_arrived(): refused when stopped, or else the age, the budget and   *)
(* the backoff are restored in full.                                          *)
MessageArrived ==
  IF conn = "stopped"
    THEN Stay /\ UNCHANGED <<msgAge, spent, delay, dials>>
    ELSE /\ msgAge' = 0 /\ spent' = 0 /\ delay' = RetryDelay
         /\ dials' = 0
         /\ \/ /\ conn = "reconnecting"
               /\ Go({<<conn, "connecting">>, <<"connecting", "connected">>}, "connected")
            \/ conn \in {"connecting", "degraded"} /\ Go({<<conn, "connected">>}, "connected")
            \/ conn \in {"none", "connected"} /\ Stay

(* The top of _attempt_forever: park, or start the next stream task.          *)
NextAttempt ==
  IF paused THEN loop' = "parked" /\ stream' = "none"
            ELSE loop' = "streaming" /\ stream' = "new"

-----------------------------------------------------------------------------
Init ==
  /\ conn = "none" /\ raised = FALSE /\ paused = FALSE
  /\ spent = 0 /\ gaveUp = FALSE /\ delay = RetryDelay
  /\ socketClosed = FALSE /\ cutByPause = FALSE
  /\ loop = "idle" /\ left = 0 /\ stream = "none"
  /\ adapterStopped = FALSE /\ attached = TRUE
  /\ msgAge = NoAge /\ openAge = ReconnectAfter /\ dialAge = ReconnectAfter
  /\ stateAge = 0 /\ dials = 0

(* ------------------------------ the dial loop ----------------------------- *)

(* run(), up to its first await.                                              *)
Run ==
  /\ loop = "idle"
  /\ IF ~paused /\ conn = "none" THEN Start ELSE Stay /\ UNCHANGED <<ages, attached>>
  /\ NextAttempt
  /\ UNCHANGED <<paused, budget, delay, socketClosed, cutByPause, left, dials>>

(* The stream ended because of a pause, or while one is in force.             *)
ContinueAfterPause ==
  /\ loop = "streaming" /\ stream = "over"
  /\ cutByPause \/ paused
  /\ cutByPause' = FALSE
  /\ NextAttempt
  /\ UNCHANGED <<machine, paused, budget, delay, socketClosed, left, attached, ages, dials>>

(* The stream ended and there is nothing to redial: out of the loop, into     *)
(* run()'s finally.                                                           *)
ReturnFromLoop ==
  /\ loop = "streaming" /\ stream = "over"
  /\ ~(cutByPause \/ paused)
  /\ conn = "stopped" \/ ~socketClosed
  /\ loop' = "finishing" /\ stream' = "none"
  /\ UNCHANGED <<machine, paused, budget, delay, socketClosed, cutByPause, left,
                 attached, ages, dials>>

(* A drop: wait out the backoff.                                              *)
BackOff ==
  /\ loop = "streaming" /\ stream = "over"
  /\ ~(cutByPause \/ paused)
  /\ conn # "stopped" /\ socketClosed
  /\ loop' = "sleeping" /\ stream' = "none" /\ left' = delay
  /\ UNCHANGED <<machine, paused, budget, delay, socketClosed, cutByPause, attached,
                 ages, dials>>

(* The sleep is over and the connection was stopped meanwhile.                *)
ReturnFromBackOff ==
  /\ loop = "sleeping" /\ left = 0
  /\ conn = "stopped"
  /\ loop' = "finishing"
  /\ delay' = IF 2 * delay < MaxRetryDelay THEN 2 * delay ELSE MaxRetryDelay
  /\ UNCHANGED <<machine, paused, budget, socketClosed, cutByPause, left, stream,
                 attached, ages, dials>>

(* The sleep is over: the attempt gets its own grace and is announced.        *)
Redial ==
  /\ loop = "sleeping" /\ left = 0
  /\ conn # "stopped"
  /\ delay' = IF 2 * delay < MaxRetryDelay THEN 2 * delay ELSE MaxRetryDelay
  /\ IF conn = "reconnecting"
       THEN Go({<<conn, "connecting">>}, "connecting") /\ dialAge' = 0
       ELSE Stay /\ UNCHANGED dialAge
  /\ NextAttempt
  /\ UNCHANGED <<paused, budget, socketClosed, cutByPause, left, attached, msgAge,
                 openAge, dials>>

(* _resumed.wait() returns; the code does not look at _paused again.          *)
Unpark ==
  /\ loop = "unparked"
  /\ loop' = "streaming" /\ stream' = "new"
  /\ UNCHANGED <<machine, paused, budget, delay, socketClosed, cutByPause, left,
                 attached, ages, dials>>

(* The end of run()'s finally: stop() and detach().                           *)
Finish ==
  /\ loop = "finishing"
  /\ loop' = "done"
  /\ Stop
  /\ attached' = FALSE
  /\ UNCHANGED <<paused, spent, gaveUp, delay, socketClosed, cutByPause, left, stream,
                 ages, dials>>

(* ------------------------- the adapter's one connection ------------------- *)

(* The history of dials is only ever compared with Budget + 1: it is capped    *)
(* one above.                                                                 *)
OneMore(n) == IF n < Budget + 2 THEN n + 1 ELSE n

(* DeltaSocket.run starts: a stopped adapter opens nothing and reports        *)
(* nothing.                                                                   *)
Dial ==
  /\ stream = "new"
  /\ IF adapterStopped
       THEN stream' = "over" /\ UNCHANGED dials
       ELSE stream' = "dialing" /\ dials' = OneMore(dials)
  /\ UNCHANGED <<machine, paused, budget, delay, socketClosed, cutByPause, loop, left,
                 attached, ages>>

(* The socket is up.  With subscriptions on it the controller is told; a      *)
(* socket with nothing subscribed is not reported as open (FeedSession says   *)
(* which it is).                                                              *)
SocketUp(subscribed) ==
  /\ stream = "dialing"
  /\ stream' = "open"
  /\ IF subscribed /\ attached
       THEN ConnectionOpened
       ELSE Stay /\ UNCHANGED <<openAge, socketClosed, spent, dials>>
  /\ UNCHANGED <<paused, gaveUp, adapterStopped, delay, cutByPause, loop, left,
                 attached, msgAge, dialAge>>

SocketOpens == \E subscribed \in BOOLEAN : SocketUp(subscribed)

(* A frame goes through sink(): noted, then published.                        *)
Frame ==
  /\ stream = "open"
  /\ MessageArrived
  /\ UNCHANGED <<paused, gaveUp, adapterStopped, socketClosed, cutByPause, task,
                 attached, openAge, dialAge>>

(* The dial failed or the connection ended, and it is reported as a drop      *)
(* unless the adapter was stopped.                                            *)
SocketEnds ==
  /\ stream \in {"dialing", "open"}
  /\ stream' = "over"
  /\ IF ~adapterStopped /\ attached
       THEN ConnectionClosed(conn, {})
       ELSE Stay /\ UNCHANGED <<budget, socketClosed>>
  /\ UNCHANGED <<paused, delay, cutByPause, loop, left, attached, ages, dials>>

(* The cancellation reaches the stream, which unwinds and reports no close.   *)
CancelDelivered ==
  /\ stream = "cut"
  /\ stream' = "over"
  /\ UNCHANGED <<machine, paused, budget, delay, socketClosed, cutByPause, loop, left,
                 attached, ages, dials>>

(* ---------------------------- time and the watchdog ----------------------- *)

Older(age) == IF age < ReconnectAfter THEN age + 1 ELSE age

Tick ==
  /\ msgAge' = Older(msgAge) /\ openAge' = Older(openAge)
  /\ dialAge' = Older(dialAge) /\ stateAge' = Older(stateAge)
  /\ left' = IF left > 0 THEN left - 1 ELSE 0
  /\ UNCHANGED <<conn, raised, paused, budget, delay, socketClosed, cutByPause, loop,
                 stream, attached, dials>>

Least(a, b) == IF a < b THEN a ELSE b

(* What _check_staleness measures: the youngest of the last message (or, with *)
(* none, the state), the last open and the last attempt.                      *)
Silence == Least(IF msgAge = NoAge THEN stateAge ELSE msgAge, Least(openAge, dialAge))

Watching == loop \in {"parked", "unparked", "streaming", "sleeping"}

(* Variant: marks the state and neither cuts nor reports the drop.            *)
PollSilentOnlyMarks ==
  /\ Watching /\ conn \in Running
  /\ Silence >= ReconnectAfter
  /\ Go({<<conn, "reconnecting">>}, "reconnecting")
  /\ UNCHANGED <<paused, budget, delay, socketClosed, cutByPause, task, attached, ages,
                 dials>>

(* The longer bound: mark it, alert, cut the socket and report the drop.      *)
PollSilent ==
  /\ Watching /\ conn \in Running
  /\ Silence >= ReconnectAfter
  /\ Cut(FALSE)
  /\ ConnectionClosed("reconnecting", {<<conn, "reconnecting">>})
  /\ UNCHANGED <<paused, delay, loop, left, attached, ages, dials>>

PollStale ==
  /\ Watching /\ conn = "connected"
  /\ Silence >= DegradedAfter /\ Silence < ReconnectAfter
  /\ Go({<<conn, "degraded">>}, "degraded")
  /\ UNCHANGED <<paused, budget, delay, socketClosed, cutByPause, task, attached,
                 ages, dials>>

(* -------------------------------- commands -------------------------------- *)

Commanded(verb) == verb \in Commands /\ loop \notin {"unwinding", "closed"}

Pause ==
  /\ Commanded("pause")
  /\ paused' = TRUE
  /\ IF conn \in {"none", "stopped"} THEN Stay ELSE Go({<<conn, "stopped">>}, "stopped")
  /\ Cut(TRUE)
  /\ UNCHANGED <<budget, delay, socketClosed, loop, left, attached, ages, dials>>

Resume ==
  /\ Commanded("resume")
  /\ paused
  /\ paused' = FALSE
  /\ spent' = 0 /\ delay' = RetryDelay /\ socketClosed' = FALSE
  /\ dials' = 0
  /\ Start
  /\ loop' = IF loop = "parked" THEN "unparked" ELSE loop
  /\ UNCHANGED <<gaveUp, adapterStopped, cutByPause, left, stream>>

(* Variant: cuts the socket and reports no drop.                              *)
ReconnectOnlyCuts ==
  /\ Commanded("reconnect")
  /\ conn \notin {"none", "stopped"}
  /\ Cut(FALSE)
  /\ UNCHANGED <<machine, paused, budget, delay, socketClosed, loop, left, attached,
                 ages, dials>>

Reconnect ==
  /\ Commanded("reconnect")
  /\ conn \notin {"none", "stopped"}
  /\ Cut(FALSE)
  /\ ConnectionClosed(conn, {})
  /\ UNCHANGED <<paused, delay, loop, left, attached, ages, dials>>

(* ------------------------- the supervisor closing it ---------------------- *)

(* aclose(): stop() and cancel the task; cancelling the gather in             *)
(* _stream_once cancels the stream with it.                                   *)
Close ==
  /\ loop \notin {"unwinding", "closed"}
  /\ Stop
  /\ loop' = "unwinding"
  /\ stream' = IF stream \in Live THEN "cut" ELSE stream
  /\ UNCHANGED <<paused, spent, gaveUp, delay, socketClosed, cutByPause, left, attached,
                 ages, dials>>

(* The cancelled task has run its finally and the controller is detached.     *)
Unwind ==
  /\ loop = "unwinding" /\ stream \notin Live
  /\ Stop
  /\ loop' = "closed" /\ stream' = "none"
  /\ attached' = FALSE
  /\ UNCHANGED <<paused, spent, gaveUp, delay, socketClosed, cutByPause, left, ages,
                 dials>>

-----------------------------------------------------------------------------
Loop == Run \/ ContinueAfterPause \/ ReturnFromLoop \/ BackOff
        \/ ReturnFromBackOff \/ Redial \/ Unpark \/ Finish
Adapter == Dial \/ SocketOpens \/ Frame \/ SocketEnds \/ CancelDelivered
Watchdog == PollSilent \/ PollStale
Operator == Pause \/ Resume \/ Reconnect
Supervisor == Close \/ Unwind

Next == Loop \/ Adapter \/ Tick \/ Watchdog \/ Operator \/ Supervisor

Spec == Init /\ [][Next]_vars

(* What the event loop owes: ready tasks run, the watchdog is polled, time    *)
(* passes and a started dial coroutine gets its first step.  Nothing is       *)
(* assumed of the venue or of the operator.                                   *)
Fairness ==
  /\ WF_vars(Loop)
  /\ WF_vars(Dial) /\ WF_vars(CancelDelivered)
  /\ WF_vars(Tick) /\ WF_vars(PollSilent)
  /\ WF_vars(Unwind)

FairSpec == Spec /\ Fairness
-----------------------------------------------------------------------------
(* Every variable stays in its range: the budget never goes below zero left,  *)
(* the backoff never above its ceiling, the ages never past the bound.        *)
ControlTypeOK ==
  /\ conn \in States /\ loop \in LoopStates /\ stream \in StreamStates
  /\ raised \in BOOLEAN /\ paused \in BOOLEAN /\ gaveUp \in BOOLEAN
  /\ socketClosed \in BOOLEAN /\ cutByPause \in BOOLEAN
  /\ adapterStopped \in BOOLEAN /\ attached \in BOOLEAN

CountTypeOK ==
  /\ spent \in 0..Budget /\ dials \in 0..(Budget + 2)
  /\ delay \in 0..MaxRetryDelay /\ left \in 0..MaxRetryDelay
  /\ msgAge \in 0..NoAge /\ openAge \in 0..ReconnectAfter
  /\ dialAge \in 0..ReconnectAfter /\ stateAge \in 0..ReconnectAfter

TypeOK == ControlTypeOK /\ CountTypeOK

(* No interleaving of the loop, the socket, the watchdog and the commands     *)
(* makes a handler attempt a move the table does not have: IllegalTransition  *)
(* is never raised into the socket reader, the watchdog or run().             *)
NoIllegalTransition == ~raised

(* A connection that reports data or quiet has an open socket under it; a     *)
(* green badge over a socket that was cut, or never dialled, is the failure   *)
(* controller.py is written against.                                          *)
BadgeIsBacked == conn \in {"connected", "degraded"} => stream = "open"

(* What is promised to a connection no operator ever pauses (what a pause can *)
(* do to one is at the end of this module).                                   *)
NeverPaused == [](~paused)

(* An endpoint that accepts and delivers nothing is dialled at most Budget+1  *)
(* times between two proofs that it is worth trying (a frame, or an           *)
(* operator's resume).                                                        *)
DialsBounded == dials <= Budget + 1

(* Once the adapter was told to stop no socket of its is up: giving up really *)
(* ends the dialling and the quotes.                                          *)
StoppedAdapterHasNoSocket == adapterStopped => stream \notin {"dialing", "open"}

(* No socket outlives its reason: none is up under an adapter told to stop,   *)
(* and, in a life without a pause, `reconnecting` never names a socket that   *)
(* can still speak, because the watchdog and the reconnect command end the    *)
(* old one before the loop may dial another.                                  *)
NoSocketOutlives ==
  /\ []StoppedAdapterHasNoSocket
  /\ NeverPaused => [](conn = "reconnecting" => stream \in {"none", "cut", "over"})

(* A detached controller has no socket that still owes it a signal (a part of *)
(* the inductive invariant of FeedSession_proofs).                             *)
DetachedIsOver == ~attached => loop \in {"done", "unwinding", "closed"} /\ stream = "none"

(* "Stops out loud, rather than retrying an unreachable venue forever": the   *)
(* connection delivers for ever, or comes to rest in stopped.  No assumption  *)
(* on the venue: a dial that hangs and a socket that opens and says nothing   *)
(* are both covered by the watchdog.                                          *)
DeliversOrStops ==
  NeverPaused => ([]<><<Frame>>_vars \/ <>[](conn \in {"none", "stopped"}))

(* A reported drop is always followed by an attempt or by stopped.            *)
DropIsRetried ==
  NeverPaused => ((conn = "reconnecting") ~> (conn \in {"connecting", "stopped"}))

-----------------------------------------------------------------------------
(* What the repository says of pausing, and what the runs that expect a       *)
(* violation refute.                                                          *)

(* commands.md section 4: "A pause parks the dial loop rather than returning  *)
(* from it."                                                                  *)
PauseParks == [][paused => ~(loop # "finishing" /\ loop' = "finishing")]_vars

(* controller.py: a pause is "the socket cut and the subscriptions kept - so  *)
(* the dial loop parks": no dial begins under a pause.                        *)
PausedNeverDials == [][paused => ~(stream = "new" /\ stream' = "dialing")]_vars

(* commands.md section 5: a connection that spent its budget is refused a     *)
(* resume, for nothing would be working to make `connecting` true.            *)
GivenUpIsNotResumed == [][gaveUp /\ loop = "done" => conn' # "connecting"]_vars

(* commands.md section 4: the loop never takes a stream it lost around a      *)
(* pause for an adapter that had finished, and returns under a connection     *)
(* the resume has already moved to connecting.                                *)
ResumedIsDialled ==
  [][~gaveUp /\ conn = "connecting" => ~(loop # "finishing" /\ loop' = "finishing")]_vars
=============================================================================
