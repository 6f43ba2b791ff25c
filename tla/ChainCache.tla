----------------------------- MODULE ChainCache -----------------------------
(***************************************************************************)
(* The live chain of stream.py on one underlying: which ladders are dirty,   *)
(* who watches them, the 100 ms pass over the watched, the pass that closes  *)
(* each minute for the rest, a reader that asks for a ladder, and the two    *)
(* ways a ladder reaches the computed bars: the sampler takes the watched,   *)
(* the minute pass hands over what it solved.                               *)
(*                                                                         *)
(* A ladder is reduced to whether it answers for the inputs as they are and  *)
(* whether it was computed in the minute now open. Time is counted in ticks  *)
(* of the sampler and in minutes; every handler runs whole, since one event  *)
(* loop runs them all and none of them awaits.                              *)
(***************************************************************************)
EXTENDS Integers, FiniteSets

CONSTANTS
  Chains,       \* the (underlying, expiry) pairs of one underlying
  SampleEvery,  \* COMPUTED_SAMPLE_SECONDS, in ticks
  Grace,        \* GRACE_SECONDS, in ticks
  MaxTabs,      \* bound: browsers at once
  MaxFaults     \* bound: solves that raise

ASSUME ChainAssumption ==
  /\ {SampleEvery, Grace, MaxTabs} \subseteq Nat \ {0}
  /\ MaxFaults \in Nat
  /\ IsFiniteSet(Chains)

VARIABLES
  expiries,   \* _expiries: pairs a contract was seen for
  listed,     \* pairs with a reference, hence with a ladder to build
  dirty,      \* the dirty set
  computed,   \* pairs with a ladder in _computed
  current,    \* of those, the ladders computed from the inputs as they are
  stamped,    \* of those, the ladders computed in the open minute
  arrived,    \* pairs whose _arrived_at is in the open minute
  viewers,    \* Watch.viewers
  release,    \* ticks since Watch.released_at, Grace once elapsed
  sampled,    \* ticks since the sampler's last look
  closed,     \* whether the minute pass of the open minute has run
  rows,       \* pairs whose computed bar of the open minute has a tick
  tabs,       \* history: browsers really open on a pair
  framed,     \* history: pairs with a ladder and a frame before the minute pass
  excused,    \* history: those solved since where no pass hands the ladder over
  faults      \* bound: solves that raised

cache == <<expiries, listed, dirty, computed, current, stamped, arrived>>
interest == <<viewers, release>>
record == <<sampled, closed, rows, framed, excused>>
cacheVars == <<cache, interest, record, tabs, faults>>

TypeOK ==
  /\ {expiries, listed, dirty, computed, current, stamped, arrived, rows, framed,
    excused} \subseteq SUBSET Chains
  /\ viewers \in [Chains -> Nat] /\ tabs \in [Chains -> Nat]
  /\ release \in [Chains -> 0..Grace]
  /\ sampled \in 0..SampleEvery
  /\ closed \in BOOLEAN
  /\ faults \in Nat

CacheInit ==
  /\ expiries = {} /\ listed = {} /\ dirty = {}
  /\ computed = {} /\ current = {} /\ stamped = {} /\ arrived = {}
  /\ viewers = [p \in Chains |-> 0] /\ release = [p \in Chains |-> Grace]
  /\ sampled = 0 /\ closed = FALSE /\ rows = {}
  /\ tabs = [p \in Chains |-> 0] /\ framed = {} /\ excused = {}
  /\ faults = 0

----------------------------------------------------------------------------
(* apply: a frame of one contract, and a spot that moved.                   *)

(* The pair is marked, and the instant of its newest frame kept. A frame     *)
(* before the minute pass owes the record a row, once there is a ladder.     *)
Apply(p) ==
  /\ expiries' = expiries \cup {p}
  /\ dirty' = dirty \cup {p}
  /\ current' = current \ {p}
  /\ arrived' = arrived \cup {p}
  /\ framed' = IF ~closed /\ p \in listed' THEN framed \cup {p} ELSE framed
  /\ excused' = IF closed THEN excused ELSE excused \ {p}
  /\ UNCHANGED <<computed, stamped, interest, sampled, closed, rows, tabs, faults>>

Reference(p) == listed' = listed \cup {p} /\ Apply(p)
Quote(p) == listed' = listed /\ Apply(p)

(* A spot that moved marks every pair a contract was seen for.              *)
IndexQuote ==
  /\ dirty' = dirty \cup expiries
  /\ current' = {}
  /\ UNCHANGED <<expiries, listed, computed, stamped, arrived, interest, record,
                 tabs, faults>>

----------------------------------------------------------------------------
(* Interest: a browser opens or leaves /ws/chain.                           *)
Live(p) == viewers[p] > 0 \/ release[p] < Grace

Open == {b \in Chains \X (1..MaxTabs) : b[2] <= tabs[b[1]]}

Watch(p) ==
  /\ Cardinality(Open) < MaxTabs
  /\ tabs' = [tabs EXCEPT ![p] = @ + 1]
  /\ viewers' = [viewers EXCEPT ![p] = @ + 1]
  /\ release' = [release EXCEPT ![p] = Grace]
  /\ UNCHANGED <<cache, record, faults>>

(* One viewer less; the grace starts when the last one leaves.              *)
LeftAsAFlag(n) == 0
Left(n) == n - 1

Unwatch(p) ==
  /\ tabs[p] > 0
  /\ tabs' = [tabs EXCEPT ![p] = @ - 1]
  /\ IF viewers[p] = 0
       THEN UNCHANGED interest
       ELSE /\ viewers' = [viewers EXCEPT ![p] = Left(@)]
            /\ release' = IF Left(viewers[p]) = 0
                            THEN [release EXCEPT ![p] = 0]
                            ELSE release
  /\ UNCHANGED <<cache, record, faults>>

----------------------------------------------------------------------------
(* Solving. A pair without a reference builds no ladder; a solve that raises *)
(* goes back on the dirty set.                                              *)
DroppedFromTheSet(failed) == {}
BackOnTheSet(failed) == failed

Drain(pending, failed) ==
  /\ failed \subseteq pending \cap listed
  /\ faults + Cardinality(failed) <= MaxFaults
  /\ faults' = faults + Cardinality(failed)
  /\ dirty' = (dirty \ pending) \cup BackOnTheSet(failed)
  /\ LET solved == (pending \cap listed) \ failed
     IN  /\ computed' = computed \cup solved
         /\ current' = current \cup solved
         /\ stamped' = stamped \cup solved
  /\ UNCHANGED <<expiries, listed, arrived>>

(* What the live pass takes off the dirty set.                              *)
WholeBoard == dirty
Watched == {p \in dirty : Live(p)}

RecomputeWatched(failed) ==
  /\ Watched # {}
  /\ Drain(Watched, failed)
  /\ UNCHANGED <<interest, record, tabs>>

(* The minute pass leaves a pair with no frame this minute as it is. It hands *)
(* over the ladder of every pair it took, the older one where a solve raised, *)
(* which its stamp then refuses.                                            *)
RecomputeClosingMinute(failed) ==
  /\ ~closed
  /\ Drain(dirty \cap arrived, failed)
  /\ closed' = TRUE
  /\ rows' = rows \cup (dirty \cap arrived \cap stamped')
  /\ excused' = excused \cup failed
  /\ UNCHANGED <<interest, sampled, framed, tabs>>

(* chain(): the cached ladder of a clean pair, or a fresh solve. A pair that *)
(* nobody watches leaves the dirty set, and no pass hands it over after that.*)
Chain(p) ==
  /\ p \in dirty \cap listed
  /\ dirty' = dirty \ {p}
  /\ computed' = computed \cup {p}
  /\ current' = current \cup {p}
  /\ stamped' = stamped \cup {p}
  /\ excused' = IF Live(p) THEN excused ELSE excused \cup {p}
  /\ UNCHANGED <<expiries, listed, arrived, interest, sampled, closed, rows,
                 framed, tabs, faults>>

----------------------------------------------------------------------------
(* The sampler takes the ladders the live pass keeps, on its timer and at    *)
(* the edge of each minute; a ladder of an older minute is refused as late.  *)
Sample ==
  /\ sampled = SampleEvery
  /\ sampled' = 0
  /\ rows' = rows \cup {p \in stamped : Live(p)}
  /\ UNCHANGED <<cache, interest, closed, framed, excused, tabs, faults>>

CacheTicks ==
  /\ sampled < SampleEvery
  /\ sampled' = sampled + 1
  /\ release' = [p \in Chains |-> IF viewers[p] = 0 /\ release[p] < Grace
                                   THEN release[p] + 1 ELSE release[p]]
  /\ excused' = excused \cup {p \in Chains : /\ release[p] < release'[p]
                                          /\ release'[p] = Grace
                                          /\ p \in dirty => closed}
  /\ UNCHANGED <<cache, viewers, closed, rows, framed, tabs, faults>>

(* The minute turns after its pass. The sampler looks as it does.            *)
MinuteEdge ==
  /\ closed
  /\ sampled' = 0 /\ closed' = FALSE
  /\ stamped' = {} /\ arrived' = {} /\ rows' = {}
  /\ framed' = {} /\ excused' = {}
  /\ UNCHANGED <<expiries, listed, dirty, computed, current, interest, tabs, faults>>

----------------------------------------------------------------------------
LivePass == \E failed \in SUBSET Chains : RecomputeWatched(failed)

CacheNext ==
  \/ \E p \in Chains : \/ Reference(p) \/ Quote(p)
                      \/ Watch(p) \/ Unwatch(p)
                      \/ Chain(p)
  \/ IndexQuote
  \/ LivePass
  \/ \E failed \in SUBSET Chains : RecomputeClosingMinute(failed)
  \/ Sample \/ CacheTicks \/ MinuteEdge

CacheSpec == CacheInit /\ [][CacheNext]_cacheVars

(* recompute_forever sleeps and runs the pass again, whatever it raised.     *)
CacheFairness == WF_cacheVars(LivePass)
LiveCacheSpec == CacheSpec /\ CacheFairness

----------------------------------------------------------------------------
(* chain() serves a pair that is not dirty from the cache without looking at *)
(* an input. The ladder it serves was computed from the newest reference,    *)
(* quote and spot, whichever pass solved it and whatever raised before.      *)
CleanMeansCurrent == computed \ dirty \subseteq current

(* A frame before the minute pass reaches the record whoever opens or leaves *)
(* its pair: once the pass has run, the pair has its row or holds a ladder of *)
(* this minute that the sampler will still find. Excused are a pair solved by *)
(* chain() while nobody watched it, one whose solve raised in the pass, and   *)
(* one whose grace elapsed on a ladder the sampler had not taken.             *)
MinuteIsInHand ==
  closed => \A p \in framed \ excused : p \in rows \/ (p \in stamped /\ Live(p))

(* As long as a browser is open on a pair its ladder is brought up to date,  *)
(* although other tabs on it close and solves raise.                        *)
WatchedIsRefreshed ==
  \A p \in Chains :
    (p \in listed /\ tabs[p] > 0) ~> (p \in current \/ tabs[p] = 0)

(* What recompute_every_minute promises, "close each minute for every expiry, *)
(* watched or not", with no pair excused but one whose solve raised.         *)
EveryMinuteIsClosed ==
  closed /\ faults = 0 =>
    \A p \in framed : p \in rows \/ (p \in stamped /\ Live(p))

(* What the rule against forward filling promises of the whole record, and   *)
(* the live pass breaks: a row stands for a frame of its own minute.         *)
RowsHaveAFrame == rows \subseteq arrived
=============================================================================
