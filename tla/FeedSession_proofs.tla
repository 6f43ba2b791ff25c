------------------------ MODULE FeedSession_proofs ------------------------
(***************************************************************************)
(* Proofs about a connection, and about a connection and its subscriptions, for  *)
(* every budget, bound, backoff, set of commands and set of contracts.         *)
(*                                                                         *)
(* A session does nothing to its connection that the connection does not do by  *)
(* itself, so the theorems about Connection, which come first, hold in it. Which *)
(* contracts its socket carries depends on both: what is registered during a     *)
(* replay is sent behind it, what is registered before it is in it, and every    *)
(* way out of a socket forgets both.                                         *)
(***************************************************************************)
EXTENDS FeedSession, Sequences, TLAPS

(* A loop that is not awaiting a stream owns none.                            *)
StreamIsOwned ==
  loop \in {"idle", "parked", "unparked", "sleeping", "finishing", "done", "closed"}
    => stream = "none"

(* A pause holds the connection down, and whatever is down was paused, was    *)
(* told to stop, or was never run.                                            *)
DownIsMeant ==
  /\ paused => conn \in {"none", "stopped"}
  /\ conn = "stopped" => paused \/ adapterStopped
  /\ conn = "none" => paused \/ adapterStopped \/ loop = "idle"

(* Every dial since the last proof was paid for by a drop, the one in         *)
(* progress excepted.                                                         *)
DialsArePaid ==
  /\ dials <= spent + 1
  /\ stream \notin {"dialing", "open"} /\ ~paused /\ ~adapterStopped => dials <= spent
  /\ stream = "new" /\ ~adapterStopped => dials <= spent
  /\ loop = "unparked" => dials <= spent

ConnectionInv ==
  /\ TypeOK
  /\ StreamIsOwned
  /\ NoIllegalTransition
  /\ DownIsMeant
  /\ BadgeIsBacked
  /\ StoppedAdapterHasNoSocket
  /\ DetachedIsOver
  /\ DialsArePaid
USE ConnectionAssumption

(* The invariant holds initially.                                             *)
LEMMA InitEstablishes == Init => ConnectionInv
<1> SUFFICES ASSUME Init PROVE ConnectionInv
  OBVIOUS
<1>1. ControlTypeOK
  BY DEF Init, ControlTypeOK, States, LoopStates, StreamStates
<1>2. CountTypeOK
  BY DEF Init, CountTypeOK, NoAge
<1>3. /\ StreamIsOwned /\ NoIllegalTransition /\ DownIsMeant /\ BadgeIsBacked
      /\ StoppedAdapterHasNoSocket /\ DetachedIsOver /\ DialsArePaid
  BY DEF Init, StreamIsOwned, NoIllegalTransition, DownIsMeant, BadgeIsBacked,
         StoppedAdapterHasNoSocket, DetachedIsOver, DialsArePaid
<1> QED
  BY <1>1, <1>2, <1>3 DEF ConnectionInv, TypeOK

(* Every step of the loop, the socket, the clock, the watchdog, the operator  *)
(* and the supervisor keeps it.                                               *)
LEMMA StepPreserves == ConnectionInv /\ [Next]_vars => ConnectionInv'
<1> SUFFICES ASSUME ConnectionInv, [Next]_vars
             PROVE  ConnectionInv'
  OBVIOUS
<1> USE DEF ConnectionInv, TypeOK, ControlTypeOK, CountTypeOK, StreamIsOwned,
            NoIllegalTransition, DownIsMeant, BadgeIsBacked,
            StoppedAdapterHasNoSocket, DetachedIsOver, DialsArePaid,
            States, LoopStates, StreamStates, NoAge, Allowed, Running, Live,
            machine, budget, ages, task
<1>1. CASE Run
  <2>1. ControlTypeOK'
    BY <1>1 DEF Run, Go, Stay, Start, NextAttempt
  <2>2. CountTypeOK'
    BY <1>1 DEF Run, Go, Stay, Start, NextAttempt
  <2>3. (StreamIsOwned /\ NoIllegalTransition /\ DownIsMeant /\ BadgeIsBacked)'
    BY <1>1 DEF Run, Go, Stay, Start, NextAttempt
  <2>4. (StoppedAdapterHasNoSocket /\ DetachedIsOver /\ DialsArePaid)'
    BY <1>1 DEF Run, Go, Stay, Start, NextAttempt
  <2> QED
    BY <2>1, <2>2, <2>3, <2>4
<1>2. CASE ContinueAfterPause
  BY <1>2 DEF ContinueAfterPause, NextAttempt
<1>3. CASE ReturnFromLoop
  BY <1>3 DEF ReturnFromLoop
<1>4. CASE BackOff
  BY <1>4 DEF BackOff
<1>5. CASE ReturnFromBackOff
  BY <1>5 DEF ReturnFromBackOff
<1>6. CASE Redial
  <2>1. ControlTypeOK'
    BY <1>6 DEF Redial, Go, Stay, NextAttempt
  <2>2. CountTypeOK'
    BY <1>6 DEF Redial, Go, Stay, NextAttempt
  <2>3. (StreamIsOwned /\ NoIllegalTransition /\ DownIsMeant /\ BadgeIsBacked)'
    BY <1>6 DEF Redial, Go, Stay, NextAttempt
  <2>4. (StoppedAdapterHasNoSocket /\ DetachedIsOver /\ DialsArePaid)'
    BY <1>6 DEF Redial, Go, Stay, NextAttempt
  <2> QED
    BY <2>1, <2>2, <2>3, <2>4
<1>7. CASE Unpark
  BY <1>7 DEF Unpark
<1>8. CASE Finish
  <2>1. ControlTypeOK'
    BY <1>8 DEF Finish, Go, Stay, Stop
  <2>2. CountTypeOK'
    BY <1>8 DEF Finish, Go, Stay, Stop
  <2>3. (StreamIsOwned /\ NoIllegalTransition /\ DownIsMeant /\ BadgeIsBacked)'
    BY <1>8 DEF Finish, Go, Stay, Stop
  <2>4. (StoppedAdapterHasNoSocket /\ DetachedIsOver /\ DialsArePaid)'
    BY <1>8 DEF Finish, Go, Stay, Stop
  <2> QED
    BY <2>1, <2>2, <2>3, <2>4
<1>9. CASE Dial
  BY <1>9 DEF Dial, OneMore
<1>10. CASE SocketOpens
  <2>1. ControlTypeOK'
    BY <1>10 DEF SocketOpens, SocketUp, Go, Stay, ConnectionOpened
  <2>2. CountTypeOK'
    BY <1>10 DEF SocketOpens, SocketUp, Go, Stay, ConnectionOpened
  <2>3. (StreamIsOwned /\ NoIllegalTransition /\ DownIsMeant /\ BadgeIsBacked)'
    BY <1>10 DEF SocketOpens, SocketUp, Go, Stay, ConnectionOpened
  <2>4. (StoppedAdapterHasNoSocket /\ DetachedIsOver /\ DialsArePaid)'
    BY <1>10 DEF SocketOpens, SocketUp, Go, Stay, ConnectionOpened
  <2> QED
    BY <2>1, <2>2, <2>3, <2>4
<1>11. CASE Frame
  <2>1. ControlTypeOK'
    BY <1>11 DEF Frame, Go, Stay, MessageArrived
  <2>2. CountTypeOK'
    BY <1>11 DEF Frame, Go, Stay, MessageArrived
  <2>3. (StreamIsOwned /\ NoIllegalTransition /\ DownIsMeant /\ BadgeIsBacked)'
    BY <1>11 DEF Frame, Go, Stay, MessageArrived
  <2>4. (StoppedAdapterHasNoSocket /\ DetachedIsOver /\ DialsArePaid)'
    BY <1>11 DEF Frame, Go, Stay, MessageArrived
  <2> QED
    BY <2>1, <2>2, <2>3, <2>4
<1>12. CASE SocketEnds
  <2>1. ControlTypeOK'
    BY <1>12 DEF SocketEnds, Go, Stay, ConnectionClosed
  <2>2. CountTypeOK'
    BY <1>12 DEF SocketEnds, Go, Stay, ConnectionClosed
  <2>3. (StreamIsOwned /\ NoIllegalTransition /\ DownIsMeant /\ BadgeIsBacked)'
    BY <1>12 DEF SocketEnds, Go, Stay, ConnectionClosed
  <2>4. (StoppedAdapterHasNoSocket /\ DetachedIsOver /\ DialsArePaid)'
    BY <1>12 DEF SocketEnds, Go, Stay, ConnectionClosed
  <2> QED
    BY <2>1, <2>2, <2>3, <2>4
<1>13. CASE CancelDelivered
  BY <1>13 DEF CancelDelivered
<1>14. CASE Tick
  BY <1>14 DEF Tick, Older
<1>15. CASE PollSilent
  <2>1. ControlTypeOK'
    BY <1>15 DEF PollSilent, Go, Cut, ConnectionClosed, Watching
  <2>2. CountTypeOK'
    BY <1>15 DEF PollSilent, Go, Cut, ConnectionClosed, Watching
  <2>3. (StreamIsOwned /\ NoIllegalTransition /\ DownIsMeant /\ BadgeIsBacked)'
    BY <1>15 DEF PollSilent, Go, Cut, ConnectionClosed, Watching
  <2>4. (StoppedAdapterHasNoSocket /\ DetachedIsOver /\ DialsArePaid)'
    BY <1>15 DEF PollSilent, Go, Cut, ConnectionClosed, Watching
  <2> QED
    BY <2>1, <2>2, <2>3, <2>4
<1>16. CASE PollStale
  <2>1. ControlTypeOK'
    BY <1>16 DEF PollStale, Go, Watching
  <2>2. CountTypeOK'
    BY <1>16 DEF PollStale, Go, Watching
  <2>3. (StreamIsOwned /\ NoIllegalTransition /\ DownIsMeant /\ BadgeIsBacked)'
    BY <1>16 DEF PollStale, Go, Watching
  <2>4. (StoppedAdapterHasNoSocket /\ DetachedIsOver /\ DialsArePaid)'
    BY <1>16 DEF PollStale, Go, Watching
  <2> QED
    BY <2>1, <2>2, <2>3, <2>4
<1>17. CASE Pause
  <2>1. ControlTypeOK'
    BY ZenonT(30), <1>17 DEF Pause, Go, Stay, Cut, Commanded
  <2>2. CountTypeOK'
    BY <1>17 DEF Pause, Go, Stay, Cut, Commanded
  <2>3. (StreamIsOwned /\ NoIllegalTransition /\ DownIsMeant /\ BadgeIsBacked)'
    BY <1>17 DEF Pause, Go, Stay, Cut, Commanded
  <2>4. (StoppedAdapterHasNoSocket /\ DetachedIsOver /\ DialsArePaid)'
    BY <1>17 DEF Pause, Go, Stay, Cut, Commanded
  <2> QED
    BY <2>1, <2>2, <2>3, <2>4
<1>18. CASE Resume
  <2>1. ControlTypeOK'
    BY <1>18 DEF Resume, Start, Go, Commanded
  <2>2. CountTypeOK'
    BY <1>18 DEF Resume, Start, Go, Commanded
  <2>3. (StreamIsOwned /\ NoIllegalTransition /\ DownIsMeant /\ BadgeIsBacked)'
    BY <1>18 DEF Resume, Start, Go, Commanded
  <2>4. (StoppedAdapterHasNoSocket /\ DetachedIsOver /\ DialsArePaid)'
    BY <1>18 DEF Resume, Start, Go, Commanded
  <2> QED
    BY <2>1, <2>2, <2>3, <2>4
<1>19. CASE Reconnect
  <2>1. ControlTypeOK'
    BY <1>19 DEF Reconnect, Cut, Go, ConnectionClosed, Commanded
  <2>2. CountTypeOK'
    BY <1>19 DEF Reconnect, Cut, Go, ConnectionClosed, Commanded
  <2>3. (StreamIsOwned /\ NoIllegalTransition /\ DownIsMeant /\ BadgeIsBacked)'
    BY <1>19 DEF Reconnect, Cut, Go, ConnectionClosed, Commanded
  <2>4. (StoppedAdapterHasNoSocket /\ DetachedIsOver /\ DialsArePaid)'
    BY <1>19 DEF Reconnect, Cut, Go, ConnectionClosed, Commanded
  <2> QED
    BY <2>1, <2>2, <2>3, <2>4
<1>20. CASE Close
  <2>1. ControlTypeOK'
    BY <1>20 DEF Close, Stop, Go, Stay
  <2>2. CountTypeOK'
    BY <1>20 DEF Close, Stop, Go, Stay
  <2>3. (StreamIsOwned /\ NoIllegalTransition /\ DownIsMeant /\ BadgeIsBacked)'
    BY <1>20 DEF Close, Stop, Go, Stay
  <2>4. (StoppedAdapterHasNoSocket /\ DetachedIsOver /\ DialsArePaid)'
    BY <1>20 DEF Close, Stop, Go, Stay
  <2> QED
    BY <2>1, <2>2, <2>3, <2>4
<1>21. CASE Unwind
  <2>1. ControlTypeOK'
    BY <1>21 DEF Unwind, Stop, Go, Stay
  <2>2. CountTypeOK'
    BY <1>21 DEF Unwind, Stop, Go, Stay
  <2>3. (StreamIsOwned /\ NoIllegalTransition /\ DownIsMeant /\ BadgeIsBacked)'
    BY <1>21 DEF Unwind, Stop, Go, Stay
  <2>4. (StoppedAdapterHasNoSocket /\ DetachedIsOver /\ DialsArePaid)'
    BY <1>21 DEF Unwind, Stop, Go, Stay
  <2> QED
    BY <2>1, <2>2, <2>3, <2>4
<1>22. CASE UNCHANGED vars
  BY <1>22 DEF vars
<1> QED
  BY <1>1, <1>2, <1>3, <1>4, <1>5, <1>6, <1>7, <1>8, <1>9, <1>10, <1>11,
     <1>12, <1>13, <1>14, <1>15, <1>16, <1>17, <1>18, <1>19, <1>20, <1>21, <1>22
  DEF Next, Loop, Adapter, Watchdog, Operator, Supervisor

(* The connection keeps its inductive invariant for every budget, bound and   *)
(* set of commands.                                                           *)
THEOREM ConnectionCorrect == Spec => []ConnectionInv
BY InitEstablishes, StepPreserves, PTL DEF Spec

(* The variables keep their ranges; in particular the budget is never         *)
(* overspent (controller._spend_reconnect checks before it spends).           *)
THEOREM ConnectionTypes == Spec => []TypeOK
<1>1. ConnectionInv => TypeOK
  BY DEF ConnectionInv
<1> QED
  BY ConnectionCorrect, <1>1, PTL

(* No handler ever attempts a move that is not in controller.ALLOWED.         *)
THEOREM TransitionsAreLegal == Spec => []NoIllegalTransition
<1>1. ConnectionInv => NoIllegalTransition
  BY DEF ConnectionInv
<1> QED
  BY ConnectionCorrect, <1>1, PTL

(* `connected` and `degraded` are only ever reported over an open socket.     *)
THEOREM BadgesAreBacked == Spec => []BadgeIsBacked
<1>1. ConnectionInv => BadgeIsBacked
  BY DEF ConnectionInv
<1> QED
  BY ConnectionCorrect, <1>1, PTL

(* Between two proofs that the endpoint works it is dialled at most           *)
(* Budget + 1 times, whatever the operator and the venue do.                  *)
THEOREM DialsAreBounded == Spec => []DialsBounded
<1>1. ConnectionInv => DialsBounded
  BY DEF ConnectionInv, TypeOK, CountTypeOK, DialsArePaid, DialsBounded
<1> QED
  BY ConnectionCorrect, <1>1, PTL

(* An adapter that was told to stop has no socket.                            *)
THEOREM StoppedAdaptersAreQuiet == Spec => []StoppedAdapterHasNoSocket
<1>1. ConnectionInv => StoppedAdapterHasNoSocket
  BY DEF ConnectionInv
<1> QED
  BY ConnectionCorrect, <1>1, PTL

-----------------------------------------------------------------------------
(* A life without a pause: nothing is parked, no cut is a pause's, and a       *)
(* connection that is reconnecting has let its socket go.                      *)
UnpausedLife ==
  /\ ~cutByPause /\ loop \notin {"parked", "unparked"}
  /\ loop = "idle" => conn \in {"none", "stopped"}
  /\ conn = "reconnecting" => stream \in {"none", "cut", "over"}

(* A step between two unpaused states keeps it.                                *)
LEMMA UnpausedStep ==
  ASSUME ConnectionInv, UnpausedLife, ~paused, ~paused', [Next]_vars
  PROVE  UnpausedLife'
<1> USE DEF ConnectionInv, TypeOK, ControlTypeOK, StreamIsOwned, BadgeIsBacked, DownIsMeant, UnpausedLife,
            States, LoopStates, StreamStates, Running, Live, machine, budget, ages, task, Go, Stay
<1>1. CASE Loop
  <2>1. CASE Run
    BY <2>1 DEF Run, Start, NextAttempt
  <2>2. CASE ContinueAfterPause \/ ReturnFromLoop \/ BackOff \/ ReturnFromBackOff \/ Unpark
    BY <2>2 DEF ContinueAfterPause, ReturnFromLoop, BackOff, ReturnFromBackOff, Unpark
  <2>3. CASE Redial
    BY <2>3 DEF Redial, NextAttempt
  <2>4. CASE Finish
    BY <2>4 DEF Finish, Stop
  <2> QED
    BY <1>1, <2>1, <2>2, <2>3, <2>4 DEF Loop
<1>2. CASE Adapter
  <2>1. CASE Dial \/ CancelDelivered
    BY <2>1 DEF Dial, CancelDelivered
  <2>2. CASE SocketOpens
    BY <2>2 DEF SocketOpens, SocketUp, ConnectionOpened
  <2>3. CASE Frame
    BY <2>3 DEF Frame, MessageArrived
  <2>4. CASE SocketEnds
    BY <2>4 DEF SocketEnds, ConnectionClosed
  <2> QED
    BY <1>2, <2>1, <2>2, <2>3, <2>4 DEF Adapter
<1>3. CASE Tick
  BY <1>3 DEF Tick
<1>4. CASE Watchdog
  BY <1>4 DEF Watchdog, PollSilent, PollStale, Watching, Cut, ConnectionClosed
<1>5. CASE Operator
  BY <1>5 DEF Operator, Pause, Resume, Reconnect, Cut, ConnectionClosed
<1>6. CASE Supervisor
  BY <1>6 DEF Supervisor, Close, Unwind, Stop
<1>7. CASE UNCHANGED vars
  BY <1>7 DEF vars
<1> QED
  BY <1>1, <1>2, <1>3, <1>4, <1>5, <1>6, <1>7 DEF Next

(* No socket is up under an adapter told to stop, and without a pause          *)
(* `reconnecting` never names a socket that can still speak (PollSilent and    *)
(* the reconnect command cut before the loop dials again).                     *)
THEOREM SocketsDoNotOutlive == Spec => NoSocketOutlives
<1>1. Init => UnpausedLife
  BY DEF Init, UnpausedLife
<1>2. ConnectionInv /\ UnpausedLife /\ ~paused /\ ~paused' /\ [Next]_vars => UnpausedLife'
  BY UnpausedStep
<1>3. UnpausedLife => (conn = "reconnecting" => stream \in {"none", "cut", "over"})
  BY DEF UnpausedLife
<1>4. ConnectionInv => StoppedAdapterHasNoSocket
  BY DEF ConnectionInv
<1> QED
  BY ConnectionCorrect, <1>1, <1>2, <1>3, <1>4, PTL DEF Spec, NoSocketOutlives, NeverPaused

----------------------------------------------------------------------------
(* A stream without a socket holds nothing of the session's.                  *)
NothingIsHeld == phase = "none" => replay = {} /\ sends = {} /\ told = {}

SocketIsHeld ==
  /\ stream \in {"none", "new", "over"} => phase = "none"
  /\ stream = "dialing" => phase \in {"none", "replaying"}
  /\ stream = "open" => phase = "replayed"

(* While the registry is replayed, what joins it is on its way.                *)
ReplayCoversTheRegistry ==
  phase = "replaying" => replay # {} /\ registry \subseteq replay \cup sends

SessionInvariant ==
  /\ ConnectionInv
  /\ NothingIsHeld /\ SocketIsHeld /\ ReplayCoversTheRegistry
  /\ SocketIsSubscribed

----------------------------------------------------------------------------
(* A session is a connection: every step of it is one of the connection's or    *)
(* none.                                                                    *)
LEMMA StepIsAStep == [SessionNext]_sessionVars => [Next]_vars
<1>1. SUFFICES ASSUME [SessionNext]_sessionVars, UNCHANGED vars \/ SessionNext PROVE [Next]_vars
  BY DEF sessionVars
<1>2. CASE UNCHANGED vars
  BY <1>2
<1>3. CASE \E c \in Contracts : List(c) \/ Send(c)
  BY <1>3 DEF List, Send
<1>4. CASE Answer \/ Relist \/ Replay
  BY <1>4 DEF Answer, Relist, Replay
<1>5. CASE Opened
  BY <1>5 DEF Opened, Next, Adapter, SocketOpens
<1>6. CASE Quoted
  BY <1>6 DEF Quoted, Next, Adapter
<1>7. CASE Ended
  BY <1>7 DEF Ended, Next, Adapter
<1>8. CASE Loop \/ Dial \/ Tick \/ Watchdog \/ Operator \/ Supervisor
  BY <1>8 DEF Next, Adapter
<1>9. QED
  BY <1>1, <1>2, <1>3, <1>4, <1>5, <1>6, <1>7, <1>8 DEF SessionNext

----------------------------------------------------------------------------
(* What the loop, the dial, the clock, the watchdog and the commands do to a     *)
(* stream: they open none, and they drop none that the adapter has not let go.   *)
LEMMA OthersLeaveTheSocket ==
  ASSUME ConnectionInv, Loop \/ Dial \/ Tick \/ Watchdog \/ Operator \/ Supervisor
  PROVE  /\ stream' = "open" => stream = "open"
         /\ stream' = "dialing" => stream \in {"new", "dialing"}
         /\ stream' \in {"none", "new", "over"} => stream \in {"none", "new", "over"}
         /\ stream' = "open" /\ conn' \in {"connected", "degraded"} => conn \in {"connected", "degraded"}
<1> USE DEF ConnectionInv, TypeOK, ControlTypeOK, StreamIsOwned, States, StreamStates, Live, Running,
            machine, budget, ages, task, Go, Stay
<1>1. CASE Loop
  <2>1. CASE Run
    BY <2>1 DEF Run, NextAttempt
  <2>2. CASE ContinueAfterPause
    BY <2>2 DEF ContinueAfterPause, NextAttempt
  <2>3. CASE ReturnFromLoop \/ BackOff \/ ReturnFromBackOff \/ Unpark
    BY <2>3 DEF ReturnFromLoop, BackOff, ReturnFromBackOff, Unpark
  <2>4. CASE Redial
    BY <2>4 DEF Redial, NextAttempt
  <2>5. CASE Finish
    BY <2>5 DEF Finish, Stop
  <2>6. QED
    BY <1>1, <2>1, <2>2, <2>3, <2>4, <2>5 DEF Loop
<1>2. CASE Dial
  BY <1>2 DEF Dial
<1>3. CASE Tick
  BY <1>3 DEF Tick
<1>4. CASE Watchdog
  BY <1>4 DEF Watchdog, PollSilent, PollStale, Cut, ConnectionClosed
<1>5. CASE Operator
  <2>1. CASE Pause
    BY <2>1 DEF Pause, Cut
  <2>2. CASE Resume
    BY <2>2 DEF Resume, Start
  <2>3. CASE Reconnect
    BY <2>3 DEF Reconnect, Cut, ConnectionClosed
  <2>4. QED
    BY <1>5, <2>1, <2>2, <2>3 DEF Operator
<1>6. CASE Supervisor
  BY <1>6 DEF Supervisor, Close, Unwind, Stop
<1>7. QED
  BY <1>1, <1>2, <1>3, <1>4, <1>5, <1>6

(* A badge under a dial is not green, so a socket with nothing on it is not       *)
(* announced as one.                                                        *)
LEMMA QuietSocketsStayQuiet ==
  ASSUME ConnectionInv, NEW subscribed, SocketUp(subscribed), ~subscribed
  PROVE  conn' \notin {"connected", "degraded"}
  BY DEF ConnectionInv, BadgeIsBacked, SocketUp, Stay, machine

(* A session starts without a socket.                                        *)
LEMMA SessionStarts == SessionInit => SessionInvariant
<1>1. SUFFICES ASSUME SessionInit PROVE SessionInvariant
  OBVIOUS
<1>2. ConnectionInv
  BY <1>1, InitEstablishes DEF SessionInit
<1>3. stream = "none"
  BY <1>1 DEF SessionInit, Init
<1>4. QED
  BY <1>1, <1>2, <1>3
  DEF SessionInit, SessionInvariant, NothingIsHeld, SocketIsHeld, ReplayCoversTheRegistry, SocketIsSubscribed

(* Every step of a session keeps its invariant.                              *)
LEMMA SessionStepKeeps ==
  ASSUME SessionInvariant, [SessionNext]_sessionVars
  PROVE  SessionInvariant'
<1>1. ConnectionInv /\ ConnectionInv'
  BY StepIsAStep, StepPreserves DEF SessionInvariant
<1> USE DEF SessionInvariant, NothingIsHeld, SocketIsHeld, ReplayCoversTheRegistry, SocketIsSubscribed
<1>2. CASE \E c \in Contracts : List(c) \/ Send(c)
  BY <1>1, <1>2 DEF List, Send, vars, socket
<1>3. CASE Answer
  BY <1>1, <1>3 DEF Answer, vars, socket
<1>4. CASE Relist
  <2>1. /\ registry' = registry \cup answer /\ sends' = sends \cup SentLive(answer \ registry)
        /\ UNCHANGED <<stream, conn, phase, replay, told>>
    BY <1>4 DEF Relist, Registered, vars
  <2>2. NothingIsHeld' /\ SocketIsHeld'
    BY <2>1 DEF SentLive
  <2>3. ReplayCoversTheRegistry' /\ SocketIsSubscribed'
    BY <2>1 DEF SentLive
  <2>4. QED
    BY <1>1, <2>2, <2>3
<1>5. CASE Replay
  BY <1>1, <1>5 DEF Replay, vars
<1>6. CASE Opened
  <2>1. /\ SocketUp(phase = "replaying") /\ stream' = "open" /\ phase' = "replayed"
        /\ told' = replay /\ replay' = {} /\ UNCHANGED <<registry, sends>>
        /\ phase = "replaying" \/ registry = {}
    BY <1>6 DEF Opened, SocketUp
  <2>2. registry' \subseteq told' \cup sends'
    BY <2>1
  <2>3. conn' \in {"connected", "degraded"} => told' # {}
    BY <1>1, <2>1, QuietSocketsStayQuiet
  <2>4. QED
    BY <1>1, <2>1, <2>2, <2>3
<1>7. CASE Quoted
  <2>1. stream = "open" /\ stream' = "open" /\ told # {} /\ UNCHANGED <<registry, phase, replay, sends, told>>
    BY <1>7 DEF Quoted, Frame, task, session, socket
  <2>2. QED
    BY <1>1, <2>1
<1>8. CASE Ended
  <2>1. stream' = "over" /\ phase' = "none" /\ replay' = {} /\ sends' = {} /\ told' = {}
    BY <1>8 DEF Ended, SocketEnds, CancelDelivered
  <2>2. QED
    BY <1>1, <2>1
<1>9. CASE /\ Loop \/ Dial \/ Tick \/ Watchdog \/ Operator \/ Supervisor
           /\ UNCHANGED session
  <2>1. UNCHANGED <<registry, phase, replay, sends, told>>
    BY <1>9 DEF session, socket
  <2>2. stream' \in StreamStates
    BY <1>1 DEF ConnectionInv, TypeOK, ControlTypeOK
  <2>3. QED
    BY <1>1, <1>9, <2>1, <2>2, OthersLeaveTheSocket
<1>10. CASE UNCHANGED sessionVars
  BY <1>1, <1>10 DEF sessionVars, vars, session, socket
<1>11. QED
  BY <1>2, <1>3, <1>4, <1>5, <1>6, <1>7, <1>8, <1>9, <1>10 DEF SessionNext

----------------------------------------------------------------------------
(* A session implements the connection: what is proved of the one holds of the    *)
(* other, the legality of its transitions and the bound on its dials among it.   *)
THEOREM SessionIsAConnection == SessionSpec => Spec
<1>1. SessionInit => Init
  BY DEF SessionInit
<1>2. QED
  BY <1>1, StepIsAStep, PTL DEF SessionSpec, Spec

(* A socket that is up carries every registered contract or has a send under way  *)
(* for it, whenever the contract was registered (DeltaFeed.subscribe against      *)
(* DeltaFeed._pump), and no badge is green over a socket that carries nothing.    *)
THEOREM EverySocketIsSubscribed == SessionSpec => []SocketIsSubscribed
<1>1. SessionInvariant => SocketIsSubscribed
  BY DEF SessionInvariant
<1>2. QED
  BY <1>1, SessionStarts, SessionStepKeeps, PTL DEF SessionSpec

=============================================================================
