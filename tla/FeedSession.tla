----------------------------- MODULE FeedSession -----------------------------
(***************************************************************************)
(* The connection together with what is subscribed on it: the registry of    *)
(* delta_socket.DeltaFeed, its replay on every new socket, the subscribe      *)
(* frames sent on a socket that is already up, and the listing of            *)
(* feed_runtime.py that discovers contracts while all of this goes on.       *)
(*                                                                         *)
(* Every step of the connection is one of Connection's. A contract stands    *)
(* for its two channels, which are registered together.                     *)
(***************************************************************************)
EXTENDS Connection

CONSTANT Contracts  \* what the venue may ever list

VARIABLES
  listed,    \* what the venue lists
  answer,    \* what relist_instruments was answered; {} between listings
  registry,  \* DeltaFeed.registry, and FeedStack.listed, which it never leaves
  phase,     \* the pumped socket: none, replaying (the registry), replayed
  replay,    \* the snapshot being replayed
  sends,     \* contracts in a live subscribe that has not gone out
  told       \* contracts the venue was told of on this socket

socket == <<phase, replay, sends, told>>
session == <<listed, answer, registry, socket>>
sessionVars == <<vars, session>>

(* The first listing came before the connection was started, and may have    *)
(* been empty.                                                              *)
SessionInit ==
  /\ Init
  /\ listed \in SUBSET Contracts
  /\ answer = {}
  /\ registry = listed
  /\ phase = "none" /\ replay = {} /\ sends = {} /\ told = {}

-----------------------------------------------------------------------------
(* The venue lists a contract.                                              *)
List(c) ==
  /\ c \notin listed
  /\ listed' = listed \cup {c}
  /\ UNCHANGED <<vars, answer, registry, socket>>

(* A listing that fails is asked for again: it is the one answered that has  *)
(* an effect, and only if there is something new in it.                     *)
Answer ==
  /\ answer = {}
  /\ ~(listed \subseteq registry)
  /\ answer' = listed
  /\ UNCHANGED <<vars, listed, registry, socket>>

(* subscribe: what is fresh is registered, and sent if a socket is held. The *)
(* variants hold it only once its replay is out, and never.                 *)
AfterTheReplay(fresh) == IF phase = "replayed" THEN fresh ELSE {}
RegisteredOnly(fresh) == {}
SentLive(fresh) == IF phase # "none" THEN fresh ELSE {}

Registered(fresh) == registry \cup fresh

Relist ==
  /\ answer # {}
  /\ answer' = {}
  /\ registry' = Registered(answer)
  /\ sends' = sends \cup SentLive(answer \ registry)
  /\ UNCHANGED <<vars, listed, phase, replay, told>>

(* _send_subscribe: waits for the replay, then writes.  A write fails only   *)
(* on a socket that is gone, and then the connection ends.                   *)
Send(c) ==
  /\ stream = "open" /\ phase = "replayed"
  /\ c \in sends
  /\ sends' = sends \ {c}
  /\ told' = told \cup {c}
  /\ UNCHANGED <<vars, listed, answer, registry, phase, replay>>

-----------------------------------------------------------------------------
(* _pump: the socket is held before the registry is looked at, and the       *)
(* replay is awaited.                                                       *)
Replay ==
  /\ stream = "dialing" /\ phase = "none"
  /\ registry # {}
  /\ phase' = "replaying" /\ replay' = registry
  /\ UNCHANGED <<vars, listed, answer, registry, sends, told>>

(* The replay is out, or there was none to send; then it is announced, or   *)
(* not.                                                                     *)
Opened ==
  /\ phase = "replaying" \/ (phase = "none" /\ registry = {})
  /\ SocketUp(phase = "replaying")
  /\ phase' = "replayed"
  /\ told' = replay
  /\ replay' = {}
  /\ UNCHANGED <<listed, answer, registry, sends>>

(* A venue that was told of nothing sends nothing.                          *)
Quoted ==
  /\ Frame
  /\ told # {}
  /\ UNCHANGED session

(* The end of a connection takes its sends with it.                         *)
Ended ==
  /\ SocketEnds \/ CancelDelivered
  /\ phase' = "none" /\ replay' = {} /\ sends' = {} /\ told' = {}
  /\ UNCHANGED <<listed, answer, registry>>

SessionNext ==
  \/ \E c \in Contracts : List(c) \/ Send(c)
  \/ Answer \/ Relist
  \/ Replay \/ Opened \/ Quoted \/ Ended
  \/ Loop /\ UNCHANGED session
  \/ Dial /\ UNCHANGED session
  \/ Tick /\ UNCHANGED session
  \/ Watchdog /\ UNCHANGED session
  \/ Operator /\ UNCHANGED session
  \/ Supervisor /\ UNCHANGED session

SessionSpec == SessionInit /\ [][SessionNext]_sessionVars

(* The listing is repeated until the venue answers, and a send task runs.    *)
FairSession ==
  /\ SessionSpec /\ Fairness
  /\ WF_sessionVars(Answer) /\ WF_sessionVars(Relist)
  /\ WF_sessionVars(\E c \in Contracts : Send(c))

-----------------------------------------------------------------------------
SessionTypeOK ==
  /\ {listed, answer, registry, replay, sends, told} \subseteq SUBSET Contracts
  /\ phase \in {"none", "replaying", "replayed"}

(* A socket that was reported open has everything the registry holds on it,  *)
(* or a send of its own under way for the rest, whenever the contract was     *)
(* registered; and no badge is green over a socket with nothing on it.        *)
SocketIsSubscribed ==
  stream = "open" =>
    /\ registry \subseteq told \cup sends
    /\ conn \in {"connected", "degraded"} => told # {}

(* A contract the venue lists is subscribed on the connection that is up,    *)
(* which a healthy feed never gives a second chance by reconnecting.         *)
ListingsReachTheSocket ==
  \A c \in Contracts :
    (c \in listed /\ stream = "open") ~> (c \in told \/ stream # "open")
=============================================================================
