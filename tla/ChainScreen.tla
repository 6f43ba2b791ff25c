---------------------------- MODULE ChainScreen ----------------------------
(***************************************************************************)
(* web/components/ChainScreen.tsx over lib/live.ts, lib/position.ts and        *)
(* lib/timeline.ts: the ladder page, its subscription to /ws/chain, and the    *)
(* three reads it makes, whose answers arrive late, out of order or not at all. *)
(*                                                                         *)
(* An event handler, the render it causes and the effects whose dependencies   *)
(* that render changed are one step, as they are in the browser. Instants are   *)
(* minutes. The request ids are a flag on the newest request of its kind. The   *)
(* backoff has no length here; the live minute is one minute, newer than every   *)
(* stored one; the venue's badge is FeedState's, and a frame that breaks the    *)
(* wire contract is left out.                                               *)
(***************************************************************************)
EXTENDS Integers, FiniteSets

CONSTANTS
  NoExpiry,     \* the empty expiry
  NoChain,      \* no ladder
  Underlyings,  \* UNDERLYINGS
  Expiries,     \* every expiry a link or a listing may name
  Unreal,       \* the expiries of a link that are no date, which the engine refuses
  Listings,     \* per underlying, the lists /expiries or the fixture may answer
  Quoted,       \* the pairs <<underlying, expiry>> the engine has a chain for
  StoredDay,    \* per pair, the minutes /chain/minutes answers
  LiveMinute,   \* the minute of every live push
  Links,        \* the [underlying, expiry, wanted] a page may be opened with
  MaxPicks,     \* bound: what the reader does
  MaxFailures   \* bound: reads that fail and sockets that close

Edge == -1      \* wanted = null: whatever the right edge is
Nowhere == -1   \* no position on the timeline
Pairs == Underlyings \X (Expiries \cup {NoExpiry})

ASSUME PageAssumption ==
  /\ NoExpiry \notin Expiries
  /\ Links \subseteq [underlying : Underlyings, expiry : Expiries \cup {NoExpiry}, wanted : Int]
  /\ \A u \in Underlyings : Listings[u] \subseteq SUBSET (Expiries \ Unreal)
  /\ Quoted \subseteq Underlyings \X (Expiries \ Unreal)
  /\ \A p \in Quoted : StoredDay[p] \subseteq 0..LiveMinute
  /\ LiveMinute \in Nat /\ {MaxPicks, MaxFailures} \subseteq Nat

VARIABLES
  page,      \* the component's state: see Opened
  asks,      \* the reads under way: kind, what was asked, and if it is the newest
  subs,      \* the subscriptions of lib/live.ts that are alive
  picks,     \* bound: what the reader has done
  failures,  \* bound: what has failed
  lost       \* history: the kinds of read whose newest has failed

pageVars == <<page, asks, subs, picks, failures, lost>>

Sel(p) == <<p.underlying, p.expiry>>

----------------------------------------------------------------------------
(* buildTimeline, withLiveMinute and positionOf.                            *)
LiveEdge(p) == IF p.status = "live" /\ p.live # NoChain THEN {LiveMinute} ELSE {}

Grid(stored) == IF stored = {} THEN {}
  ELSE {m \in 0..LiveMinute : (\E a \in stored : a <= m) /\ (\E b \in stored : m <= b)}

Placed(p) == {m \in LiveEdge(p) : \A s \in Grid(p.minutes) : s <= m}
Stamps(p) == Grid(p.minutes) \cup Placed(p)
RightEdge(S) == IF S = {} THEN Nowhere ELSE CHOOSE m \in S : \A n \in S : n <= m
Stamp(p) == IF p.wanted \in Stamps(p) THEN p.wanted ELSE RightEdge(Stamps(p))
OnLive(p) == Stamp(p) \in Placed(p)
SubscribedOnceLive(p) == OnLive(p)
Following(p) == p.wanted = Edge \/ OnLive(p)

----------------------------------------------------------------------------
(* What a render hands to the effects. An effect runs when one of its          *)
(* dependencies changed; all of them see the same render.                    *)
View(p) == [pair |-> Sel(p), expiry |-> p.expiry, following |-> Following(p), stamp |-> Stamp(p)]

NeverRetired(kind, A) == A
Retire(kind, A) == {[a EXCEPT !.newest = @ /\ a.kind # kind] : a \in A}

Asked(kind, what, at, A) ==
  Retire(kind, A) \cup {[kind |-> kind, what |-> what, at |-> at, newest |-> TRUE]}

ExpiriesEffect(old, new, s) ==
  IF old.pair[1] = new.pair[1] THEN s
  ELSE [s EXCEPT !.page.busy = TRUE, !.page.error = FALSE,
                 !.asks = Asked("expiries", new.pair, Edge, @)]

MinutesEffect(old, new, s) ==
  IF old.pair = new.pair \/ new.expiry = NoExpiry THEN s
  ELSE [s EXCEPT !.asks = Asked("minutes", new.pair, Edge, @)]

(* The function subscribeChain returned stops the retry and closes the socket. *)
LeavesTheTimer(S) == {s \in S : s.phase = "retrying"}
Unsubscribed(S) == {}

LiveEffect(old, new, s) ==
  IF old.pair = new.pair /\ old.following = new.following THEN s
  ELSE IF new.expiry = NoExpiry \/ ~new.following THEN [s EXCEPT !.subs = Unsubscribed(@)]
  ELSE [s EXCEPT !.page.live = NoChain, !.page.status = "connecting",
                 !.subs = Unsubscribed(@) \cup {[pair |-> new.pair, phase |-> "connecting"]}]

LadderEffect(old, new, s) ==
  IF old = new THEN s
  ELSE IF new.following \/ new.stamp = Nowhere
  THEN [s EXCEPT !.asks = Retire("ladder", @),
                 !.page.ladder = NoChain, !.page.empty = FALSE, !.page.reading = FALSE]
  ELSE [s EXCEPT !.asks = Asked("ladder", new.pair, new.stamp, @), !.page.reading = TRUE]

Commit(old, new, s) ==
  LadderEffect(old, new, LiveEffect(old, new, MinutesEffect(old, new, ExpiriesEffect(old, new, s))))

(* A handler's render and the renders its effects cause: no third one differs. *)
Rendered(q, A, S, failed) ==
  \E v0 \in {View(page)}, v1 \in {View(q)} :
  \E first \in {Commit(v0, v1, [page |-> q, asks |-> A, subs |-> S])} : \E v2 \in {View(first.page)} :
  \E second \in {Commit(v1, v2, first)} : \E v3 \in {View(second.page)} :
  \E last \in {Commit(v2, v3, second)} :
    /\ page' = last.page /\ asks' = last.asks /\ subs' = last.subs
    /\ lost' = (lost \cup failed) \ {a.kind : a \in {b \in last.asks : b.newest}}

Renders(q, A, S) == Rendered(q, A, S, {}) /\ UNCHANGED <<picks, failures>>
Fails(q, A, S, kinds) ==
  failures < MaxFailures /\ failures' = failures + 1 /\ Rendered(q, A, S, kinds) /\ UNCHANGED picks
Picks(q) ==
  picks < MaxPicks /\ picks' = picks + 1 /\ Rendered(q, asks, subs, {}) /\ UNCHANGED failures

(* The first render of the page, before any effect has run.                  *)
Opened(link) ==
  [underlying |-> link.underlying, expiry |-> link.expiry, expiries |-> {}, wanted |-> link.wanted,
   minutes |-> {}, live |-> NoChain, status |-> "connecting", error |-> FALSE, busy |-> FALSE,
   ladder |-> NoChain, empty |-> FALSE, reading |-> FALSE]

(* Mount runs every effect: nothing was rendered before.                     *)
PageInit == \E link \in Links :
  LET p == Opened(link)
      s == Commit(View([p EXCEPT !.underlying = NoExpiry]), View(p), [page |-> p, asks |-> {}, subs |-> {}])
  IN /\ page = s.page /\ asks = s.asks /\ subs = s.subs
     /\ picks = 0 /\ failures = 0 /\ lost = {}

----------------------------------------------------------------------------
(* The reader. The pickers are disabled while a list is read; the slider is    *)
(* not, and its right edge is spelled "whatever the right edge is".           *)
PickUnderlying == \E u \in Underlyings \ {page.underlying} :
  ~page.busy /\ Picks([page EXCEPT !.underlying = u, !.wanted = Edge])

PickExpiry == \E e \in page.expiries \ {page.expiry} :
  ~page.busy /\ Picks([page EXCEPT !.expiry = e, !.wanted = Edge])

PickIndex == \E m \in Stamps(page) :
  Picks([page EXCEPT !.wanted = IF m = RightEdge(Stamps(page)) THEN Edge ELSE m])

(* The answers. An older request's is dropped. The engine checks the expiry it   *)
(* is asked about before it reads anything.                                  *)
Real(a) == a.what[2] \notin Unreal

AnswerStale == \E a \in asks : ~a.newest /\ Renders(page, asks \ {a}, subs)

AnswerExpiries == \E a \in asks : \E list \in Listings[a.what[1]] :
  \E chosen \in IF a.what[2] \in list THEN {a.what[2]} ELSE IF list = {} THEN {NoExpiry} ELSE list :
    /\ a.kind = "expiries" /\ a.newest
    /\ Renders([page EXCEPT !.expiries = list, !.expiry = chosen, !.busy = FALSE,
                            !.error = @ \/ list = {}], asks \ {a}, subs)

AnswerMinutes == \E a \in asks :
  /\ a.kind = "minutes" /\ a.newest /\ Real(a)
  /\ Renders([page EXCEPT !.minutes = IF a.what \in Quoted THEN StoredDay[a.what] ELSE {}], asks \ {a}, subs)

AnswerLadder == \E a \in asks :
  /\ a.kind = "ladder" /\ a.newest /\ Real(a)
  /\ LET stored == a.what \in Quoted /\ a.at \in StoredDay[a.what]
     IN Renders([page EXCEPT !.ladder = IF stored THEN <<a.what, a.at>> ELSE NoChain,
                             !.empty = ~stored, !.reading = FALSE], asks \ {a}, subs)

(* A failed read says so, except the slider's, and none is asked again.       *)
Unanswered(a) == [page EXCEPT !.error = @ \/ a.kind # "minutes", !.busy = @ /\ a.kind # "expiries",
                              !.reading = @ /\ a.kind # "ladder"]

AnswerRefused == \E a \in asks :
  /\ a.kind # "expiries" /\ a.newest /\ ~Real(a)
  /\ Rendered(Unanswered(a), asks \ {a}, subs, {a.kind}) /\ UNCHANGED <<picks, failures>>

ReadFails == \E a \in asks : a.newest /\ Fails(Unanswered(a), asks \ {a}, subs, {a.kind})

(* subscribeChain: onmessage, and the retry after onclose. A refusal is not      *)
(* retried.                                                                *)
Moved(s, phase) == (subs \ {s}) \cup {[s EXCEPT !.phase = phase]}

SocketOpens == \E s \in subs : s.phase = "connecting" /\ Renders(page, asks, Moved(s, "open"))

Push == \E s \in subs :
  /\ s.phase = "open" /\ s.pair[2] \notin Unreal
  /\ Renders([page EXCEPT !.status = IF s.pair \in Quoted THEN "live" ELSE "waiting",
                          !.live = IF s.pair \in Quoted THEN s.pair ELSE @], asks, subs)

Refused == \E s \in subs :
  /\ s.phase = "open" /\ s.pair[2] \in Unreal
  /\ Renders([page EXCEPT !.status = "error"], asks, Moved(s, "refused"))

SocketCloses == \E s \in subs :
  s.phase \in {"connecting", "open"} /\ Fails([page EXCEPT !.status = "closed"], asks, Moved(s, "retrying"), {})

Retry == \E s \in subs :
  s.phase = "retrying" /\ Renders([page EXCEPT !.status = "connecting"], asks, Moved(s, "connecting"))

Answers == AnswerStale \/ AnswerExpiries \/ AnswerMinutes \/ AnswerLadder \/ AnswerRefused
PageNext ==
  \/ PickUnderlying \/ PickExpiry \/ PickIndex \/ AnswerStale \/ AnswerExpiries \/ AnswerMinutes
  \/ AnswerLadder \/ AnswerRefused \/ ReadFails \/ SocketOpens \/ Push \/ Refused \/ SocketCloses \/ Retry

(* The browser answers or fails every request, and runs every timer.          *)
PageFairness ==
  /\ WF_pageVars(Answers) /\ WF_pageVars(SocketOpens) /\ WF_pageVars(Push) /\ WF_pageVars(Refused)
  /\ WF_pageVars(Retry)
PageSpec == PageInit /\ [][PageNext]_pageVars /\ PageFairness

----------------------------------------------------------------------------
(* The ladder on screen is the selection's: a live one comes from the selected *)
(* pair, and a stored one is of the selected pair and the minute the slider    *)
(* stands on, unless that minute is being read or its read has failed. No slow  *)
(* answer, of a minute or pair the reader has left, is shown under another.    *)
LadderIsTheSelection == page.expiry # NoExpiry =>
  IF Following(page) THEN page.live \in {NoChain, Sel(page)} /\ page.ladder = NoChain
  ELSE page.reading \/ "ladder" \in lost \/ page.ladder \in {NoChain, <<Sel(page), Stamp(page)>>}

(* The page holds one subscription while it follows the stream, to the selected *)
(* pair, and none while it stands on a stored minute: no socket and no reconnect *)
(* timer outlives the selection it was opened for, however quickly it changes.  *)
OneSocketWhileFollowing ==
  subs = {} \/ \E s \in subs : subs = {s} /\ s.pair = Sel(page) /\ Following(page) /\ page.expiry # NoExpiry

(* Once the reader rests, a page that follows shows the live ladder of every    *)
(* pair the engine has one for, and a pinned page shows its minute's ladder or   *)
(* says that there is none, unless a read failed: a page never waits for a       *)
(* socket that nothing will open.                                           *)
ScreenSettles == <>[](page.expiry # NoExpiry =>
  IF page.wanted = Edge THEN Sel(page) \in Quoted => page.status = "live" /\ page.live = Sel(page)
  ELSE \/ lost \cap {"minutes", "ladder"} # {} \/ page.empty \/ page.minutes = {}
       \/ page.ladder = <<Sel(page), Stamp(page)>>)
=============================================================================
