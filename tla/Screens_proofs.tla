-------------------------- MODULE Screens_proofs --------------------------
(***************************************************************************)
(* Proofs about what the screens show. First the live chain, for every set of    *)
(* chains, sampling period and grace, and any number of browsers and of solves     *)
(* that raise.                                                             *)
(*                                                                         *)
(* What is cached is kept current by the dirty set: a ladder is only ever built  *)
(* of a pair a contract was seen for, so a frame or a spot that makes it stale   *)
(* marks it. That a minute's frames reach the record is settled before the       *)
(* minute pass: each of them has marked its pair, or the pair was solved since    *)
(* where the sampler finds it.                                              *)
(*                                                                         *)
(* Then the ladder page, for every set of contracts, listings and links. Between  *)
(* two steps its effects have seen the page as it is: what they asked for, hold    *)
(* open and show fits its view. A handler disturbs that, and the renders it        *)
(* causes restore it, the first by running the effects for the new view and the    *)
(* second because a new subscription blanks the live minute the slider was on.     *)
(*                                                                         *)
(* Then the chart, for every record, ceiling of points and set of boards. What the  *)
(* bounds offer is read off the first and the last bar and the last board, and so    *)
(* is what the series accepts: the proofs are of spans, strides and remainders.    *)
(* Minutes are only ever stored behind the ones that are there, so the record        *)
(* grows at its end, and the bounds with it.                                   *)
(*                                                                         *)
(* Last its points. A line lies between the two values it joins, so none of the     *)
(* square roots of the term structure is of less than nothing. A realised figure    *)
(* is a difference of two prefix sums, cut by bisection: those sums exist and grow     *)
(* with each stamp, so does the sum of what is earlier than a stamp, and two series    *)
(* that take the same steps agree. Each of these is an argument about the first       *)
(* place it would fail. The sum of squared deviations is then the two sums' own, and    *)
(* a window of minutes on a stride of its own buckets holds whole ones.          *)
(***************************************************************************)
EXTENDS Screens, FiniteSetTheorems, WellFoundedInduction, TLAPS

KnownPairs == computed \subseteq listed /\ listed \subseteq expiries

(* Where the ladder of a pair with a frame this minute is found.              *)
InHand(p) == p \in rows \/ (p \in stamped /\ Live(p))

BeforeThePass == ~closed => \A p \in framed \ excused : p \in dirty \/ InHand(p)

CacheInvariant ==
  /\ TypeOK
  /\ KnownPairs
  /\ CleanMeansCurrent
  /\ framed \subseteq listed \cap arrived
  /\ BeforeThePass
  /\ MinuteIsInHand

----------------------------------------------------------------------------
(* A viewer who leaves, the last one included, leaves a pair live for a while.   *)
LEMMA UnwatchedIsLive ==
  ASSUME TypeOK, NEW q \in Chains, NEW p \in Chains, Unwatch(q), Live(p)
  PROVE  Live(p)'
<1> USE ChainAssumption DEF TypeOK
<1>1. CASE viewers[q] = 0
  BY <1>1 DEF Unwatch, Live, interest
<1>2. CASE viewers[q] # 0 /\ p = q
  <2>1. viewers[q] \in Nat \ {0}
    BY <1>2
  <2>2. viewers'[q] = viewers[q] - 1 /\ (viewers[q] - 1 = 0 => release'[q] = 0)
    BY <1>2 DEF Unwatch, Left
  <2>3. QED
    BY <1>2, <2>1, <2>2 DEF Live
<1>3. CASE viewers[q] # 0 /\ p # q
  <2>1. viewers'[p] = viewers[p] /\ release'[p] = release[p]
    BY <1>3 DEF Unwatch
  <2>2. QED
    BY <2>1 DEF Live
<1>4. QED
  BY <1>1, <1>2, <1>3

(* A tick ends the grace of a pair only by making it Grace ticks old.          *)
LEMMA TickedIsLive ==
  ASSUME TypeOK, NEW p \in Chains, CacheTicks, Live(p)
  PROVE  Live(p)' \/ (release[p] < release'[p] /\ release'[p] = Grace)
<1>1. release'[p] = IF viewers[p] = 0 /\ release[p] < Grace THEN release[p] + 1 ELSE release[p]
  BY DEF CacheTicks, TypeOK
<1>2. viewers' = viewers /\ release[p] \in 0..Grace /\ viewers[p] \in Nat
  BY DEF CacheTicks, TypeOK
<1>3. QED
  BY <1>1, <1>2, ChainAssumption DEF Live

(* The types, one step at a time.                                           *)
LEMMA CacheTypesKeep == ASSUME TypeOK, CacheNext PROVE TypeOK'
<1> USE ChainAssumption DEF TypeOK, cache, interest, record
<1>1. ASSUME NEW p \in Chains, Reference(p) \/ Quote(p) PROVE TypeOK'
  BY <1>1 DEF Reference, Quote, Apply
<1>2. CASE IndexQuote
  BY <1>2 DEF IndexQuote
<1>3. ASSUME NEW p \in Chains, Watch(p) PROVE TypeOK'
  BY <1>3 DEF Watch
<1>4. ASSUME NEW p \in Chains, Unwatch(p) PROVE TypeOK'
  <2>1. tabs' \in [Chains -> Nat]
    BY <1>4 DEF Unwatch
  <2>2. viewers' \in [Chains -> Nat] /\ release' \in [Chains -> 0..Grace]
    BY <1>4 DEF Unwatch, Left
  <2>3. QED
    BY <1>4, <2>1, <2>2 DEF Unwatch
<1>5. ASSUME NEW p \in Chains, Chain(p) PROVE TypeOK'
  BY <1>5 DEF Chain
<1>6. ASSUME NEW pending \in SUBSET Chains, NEW failed, Drain(pending, failed)
      PROVE  {dirty', computed', current', stamped'} \subseteq SUBSET Chains
  BY <1>6 DEF Drain, BackOnTheSet
<1>7. ASSUME NEW failed \in SUBSET Chains, RecomputeWatched(failed) \/ RecomputeClosingMinute(failed)
      PROVE  TypeOK'
  <2>1. Watched \in SUBSET Chains /\ dirty \cap arrived \in SUBSET Chains
    BY DEF Watched
  <2>2. {dirty', computed', current', stamped'} \subseteq SUBSET Chains
    BY <1>6, <1>7, <2>1 DEF RecomputeWatched, RecomputeClosingMinute
  <2>3. faults' \in Nat
    <3>1. Cardinality(failed) \in Nat
      BY FS_Subset, FS_CardinalityType
    <3>2. faults' = faults + Cardinality(failed)
      BY <1>7 DEF RecomputeWatched, RecomputeClosingMinute, Drain
    <3>3. QED
      BY <3>1, <3>2
  <2>4. QED
    BY <1>7, <2>2, <2>3 DEF RecomputeWatched, RecomputeClosingMinute, Drain
<1>8. CASE Sample
  BY <1>8 DEF Sample
<1>9. CASE CacheTicks
  <2>1. release' \in [Chains -> 0..Grace]
    BY <1>9 DEF CacheTicks
  <2>2. excused' \in SUBSET Chains
    BY <1>9 DEF CacheTicks
  <2>3. QED
    BY <1>9, <2>1, <2>2 DEF CacheTicks
<1>10. CASE MinuteEdge
  <2>1. 0 \in 0..SampleEvery
    OBVIOUS
  <2>2. {expiries', listed', dirty', computed', current', stamped', arrived', rows', framed', excused'}
          \subseteq SUBSET Chains
    BY <1>10 DEF MinuteEdge
  <2>3. QED
    BY <1>10, <2>1, <2>2 DEF MinuteEdge
<1>11. CASE \E p \in Chains : Reference(p) \/ Quote(p) \/ Watch(p) \/ Unwatch(p) \/ Chain(p)
  BY <1>1, <1>3, <1>4, <1>5, <1>11
<1>12. CASE \E failed \in SUBSET Chains : RecomputeWatched(failed) \/ RecomputeClosingMinute(failed)
  BY <1>7, <1>12
<1>13. QED
  BY <1>2, <1>8, <1>9, <1>10, <1>11, <1>12 DEF CacheNext, LivePass

----------------------------------------------------------------------------
(* A frame marks its pair, and owes the record a row if it came in time.       *)
LEMMA FrameKeeps ==
  ASSUME CacheInvariant, NEW p \in Chains, Reference(p) \/ Quote(p)
  PROVE  CacheInvariant'
<1> USE DEF CacheInvariant
<1>1. TypeOK'
  BY CacheTypesKeep DEF CacheNext
<1>2. /\ listed \subseteq listed' /\ listed' \subseteq listed \cup {p} /\ expiries' = expiries \cup {p}
      /\ dirty' = dirty \cup {p} /\ current' = current \ {p} /\ arrived' = arrived \cup {p}
      /\ framed' = IF ~closed /\ p \in listed' THEN framed \cup {p} ELSE framed
      /\ excused' = IF closed THEN excused ELSE excused \ {p}
      /\ UNCHANGED <<computed, stamped, viewers, release, closed, rows>>
  BY DEF Reference, Quote, Apply, interest
<1>3. \A q \in Chains : InHand(q) => InHand(q)'
  BY <1>2 DEF InHand, Live
<1>4. KnownPairs' /\ CleanMeansCurrent'
  BY <1>2 DEF KnownPairs, CleanMeansCurrent
<1>5. (framed \subseteq listed \cap arrived)'
  BY <1>2
<1>6. BeforeThePass'
  BY <1>2, <1>3 DEF BeforeThePass, TypeOK
<1>7. MinuteIsInHand'
  BY <1>2 DEF MinuteIsInHand, Live
<1>8. QED
  BY <1>1, <1>4, <1>5, <1>6, <1>7

(* A spot that moved marks every pair with a ladder.                          *)
LEMMA SpotKeeps == ASSUME CacheInvariant, IndexQuote PROVE CacheInvariant'
<1> USE DEF CacheInvariant
<1>1. TypeOK'
  BY CacheTypesKeep DEF CacheNext
<1>2. /\ dirty' = dirty \cup expiries
      /\ UNCHANGED <<expiries, listed, computed, stamped, arrived, viewers, release, closed, rows, framed, excused>>
  BY DEF IndexQuote, interest, record
<1>3. QED
  BY <1>1, <1>2 DEF KnownPairs, CleanMeansCurrent, BeforeThePass, InHand, MinuteIsInHand, Live

(* Browsers come and go, the sampler looks, and the clock ticks: a ladder that  *)
(* was in hand stays there, or its grace is over and it is excused, unless its   *)
(* pair is dirty and the pass is still to come.                              *)
LEMMA InterestKeeps ==
  ASSUME CacheInvariant, (\E q \in Chains : Watch(q) \/ Unwatch(q)) \/ Sample \/ CacheTicks
  PROVE  CacheInvariant'
<1> USE DEF CacheInvariant
<1>1. TypeOK'
  BY CacheTypesKeep DEF CacheNext
<1>2. UNCHANGED <<expiries, listed, dirty, computed, current, stamped, arrived, closed, framed>>
  BY DEF Watch, Unwatch, Sample, CacheTicks, cache, record
<1>3. rows \subseteq rows' /\ excused \subseteq excused'
  BY DEF Watch, Unwatch, Sample, CacheTicks, record
<1>4. ASSUME NEW p \in Chains \ excused', InHand(p)
      PROVE  InHand(p)' \/ (p \in dirty /\ ~closed)
  <2>1. CASE \E q \in Chains : Watch(q)
    <3>1. PICK q \in Chains : Watch(q)
      BY <2>1
    <3>2. Live(p) => Live(p)'
      BY <3>1 DEF Watch, Live, TypeOK
    <3>3. QED
      BY <1>2, <1>3, <1>4, <3>2 DEF InHand
  <2>2. CASE \E q \in Chains : Unwatch(q)
    BY <1>2, <1>3, <1>4, <2>2, UnwatchedIsLive DEF InHand
  <2>3. CASE Sample
    BY <1>4, <2>3 DEF Sample, InHand, Live, interest, cache
  <2>4. CASE CacheTicks
    <3>1. CASE Live(p) => Live(p)'
      BY <1>2, <1>3, <1>4, <3>1 DEF InHand
    <3>2. CASE release[p] < release'[p] /\ release'[p] = Grace
      BY <1>4, <2>4, <3>2 DEF CacheTicks
    <3>3. QED
      BY <2>4, <3>1, <3>2, TickedIsLive
  <2>5. QED
    BY <2>1, <2>2, <2>3, <2>4
<1>5. \A p \in framed : p \in Chains
  BY DEF TypeOK
<1>6. BeforeThePass' /\ MinuteIsInHand'
  <2>1. \A p \in framed \ excused : InHand(p) \/ (p \in dirty /\ ~closed)
    BY DEF BeforeThePass, MinuteIsInHand, InHand
  <2>2. \A p \in framed' \ excused' : InHand(p)' \/ (p \in dirty' /\ ~closed')
    BY <1>2, <1>3, <1>4, <1>5, <2>1
  <2>3. QED
    BY <2>2 DEF BeforeThePass, MinuteIsInHand, InHand
<1>7. QED
  BY <1>1, <1>2, <1>6 DEF KnownPairs, CleanMeansCurrent

----------------------------------------------------------------------------
(* What a pass does to the pairs it takes.                                    *)
LEMMA DrainedAreCurrent ==
  ASSUME CacheInvariant, NEW pending, NEW failed, Drain(pending, failed)
  PROVE  /\ KnownPairs' /\ CleanMeansCurrent'
         /\ UNCHANGED <<expiries, listed, arrived>> /\ stamped \subseteq stamped'
         /\ \A p \in dirty \cap listed : p \in dirty' \/ (p \in pending /\ p \in stamped')
         /\ \A p \in pending \cap listed : p \in failed \/ p \in stamped'
  BY DEF CacheInvariant, KnownPairs, CleanMeansCurrent, Drain, BackOnTheSet

(* The live pass takes watched pairs only, where the sampler will look.        *)
LEMMA LivePassKeeps ==
  ASSUME CacheInvariant, NEW failed \in SUBSET Chains, RecomputeWatched(failed)
  PROVE  CacheInvariant'
<1> USE DEF CacheInvariant
<1>1. TypeOK'
  BY CacheTypesKeep DEF CacheNext, LivePass
<1>2. Drain(Watched, failed) /\ UNCHANGED <<viewers, release, closed, rows, framed, excused>>
  BY DEF RecomputeWatched, interest, record
<1>3. KnownPairs' /\ CleanMeansCurrent' /\ listed' = listed /\ arrived' = arrived /\ stamped \subseteq stamped'
  BY <1>2, DrainedAreCurrent
<1>4. \A p \in Chains : InHand(p) => InHand(p)'
  BY <1>2, <1>3 DEF InHand, Live
<1>5. \A p \in dirty \cap listed : p \in dirty' \/ (Live(p) /\ p \in stamped')
  BY <1>2, DrainedAreCurrent DEF Watched
<1>6. BeforeThePass'
  BY <1>2, <1>4, <1>5 DEF BeforeThePass, InHand, Live, TypeOK
<1>7. MinuteIsInHand'
  BY <1>2, <1>3 DEF MinuteIsInHand, Live
<1>8. QED
  BY <1>1, <1>2, <1>3, <1>6, <1>7

(* The minute pass takes what has arrived, and hands it over.                 *)
LEMMA MinutePassKeeps ==
  ASSUME CacheInvariant, NEW failed \in SUBSET Chains, RecomputeClosingMinute(failed)
  PROVE  CacheInvariant'
<1> USE DEF CacheInvariant
<1>1. TypeOK'
  BY CacheTypesKeep DEF CacheNext
<1>2. /\ Drain(dirty \cap arrived, failed) /\ ~closed /\ closed' = TRUE
      /\ rows' = rows \cup (dirty \cap arrived \cap stamped') /\ excused' = excused \cup failed
      /\ UNCHANGED <<viewers, release, framed>>
  BY DEF RecomputeClosingMinute, interest
<1>3. /\ KnownPairs' /\ CleanMeansCurrent' /\ listed' = listed /\ arrived' = arrived /\ stamped \subseteq stamped'
      /\ \A p \in dirty \cap arrived \cap listed : p \in failed \/ p \in stamped'
  BY <1>2, DrainedAreCurrent
<1>4. ASSUME NEW p \in framed \ excused'
      PROVE  InHand(p)'
  <2>1. p \in listed /\ p \in arrived /\ p \notin excused /\ p \notin failed
    BY <1>2, <1>4
  <2>2. CASE p \in dirty
    BY <1>2, <1>3, <2>1, <2>2 DEF InHand
  <2>3. CASE InHand(p)
    BY <1>2, <1>3, <2>3 DEF InHand, Live
  <2>4. QED
    BY <1>2, <1>4, <2>1, <2>2, <2>3 DEF BeforeThePass
<1>5. BeforeThePass' /\ MinuteIsInHand'
  BY <1>2, <1>4 DEF BeforeThePass, MinuteIsInHand, InHand
<1>6. QED
  BY <1>1, <1>2, <1>3, <1>5

(* A reader of a pair nobody watches takes it off the dirty set, and is the one  *)
(* that excuses it.                                                        *)
LEMMA ReaderKeeps ==
  ASSUME CacheInvariant, NEW q \in Chains, Chain(q)
  PROVE  CacheInvariant'
<1> USE DEF CacheInvariant
<1>1. TypeOK'
  BY CacheTypesKeep DEF CacheNext
<1>2. /\ q \in dirty \cap listed /\ dirty' = dirty \ {q} /\ computed' = computed \cup {q}
      /\ current' = current \cup {q} /\ stamped' = stamped \cup {q}
      /\ excused' = IF Live(q) THEN excused ELSE excused \cup {q}
      /\ UNCHANGED <<expiries, listed, arrived, viewers, release, closed, rows, framed>>
  BY DEF Chain, interest
<1>3. KnownPairs' /\ CleanMeansCurrent'
  BY <1>2 DEF KnownPairs, CleanMeansCurrent
<1>4. \A p \in Chains : InHand(p) => InHand(p)'
  BY <1>2 DEF InHand, Live
<1>5. q \notin excused' => InHand(q)'
  BY <1>2 DEF InHand, Live
<1>6. BeforeThePass'
  BY <1>2, <1>4, <1>5 DEF BeforeThePass, TypeOK
<1>7. MinuteIsInHand'
  BY <1>2 DEF MinuteIsInHand, Live
<1>8. QED
  BY <1>1, <1>2, <1>3, <1>6, <1>7

(* A new minute starts with nothing owed.                                    *)
LEMMA EdgeKeeps == ASSUME CacheInvariant, MinuteEdge PROVE CacheInvariant'
<1> USE DEF CacheInvariant
<1>1. TypeOK'
  BY CacheTypesKeep DEF CacheNext
<1>2. QED
  BY <1>1 DEF MinuteEdge, KnownPairs, CleanMeansCurrent, BeforeThePass, MinuteIsInHand

----------------------------------------------------------------------------
(* The invariant holds of every behaviour.                                   *)
LEMMA CacheInvariantHolds == CacheSpec => []CacheInvariant
<1>1. CacheInit => CacheInvariant
  <2>1. SUFFICES ASSUME CacheInit PROVE CacheInvariant
    OBVIOUS
  <2>2. 0 \in 0..SampleEvery /\ Grace \in 0..Grace
    BY ChainAssumption
  <2>3. TypeOK
    <3>1. {expiries, listed, dirty, computed, current, stamped, arrived, rows, framed, excused}
            \subseteq SUBSET Chains
      BY <2>1 DEF CacheInit
    <3>2. QED
      BY <2>1, <2>2, <3>1 DEF CacheInit, TypeOK
  <2>4. QED
    BY <2>1, <2>3
    DEF CacheInit, CacheInvariant, KnownPairs, CleanMeansCurrent, BeforeThePass, MinuteIsInHand
<1>2. CacheInvariant /\ [CacheNext]_cacheVars => CacheInvariant'
  <2>1. SUFFICES ASSUME CacheInvariant, [CacheNext]_cacheVars PROVE CacheInvariant'
    OBVIOUS
  <2>2. CASE UNCHANGED cacheVars
    BY <2>1, <2>2
    DEF cacheVars, cache, interest, record, CacheInvariant, TypeOK, KnownPairs, CleanMeansCurrent,
        BeforeThePass, InHand, MinuteIsInHand, Live
  <2>3. CASE \E p \in Chains : Reference(p) \/ Quote(p) \/ Chain(p)
    BY <2>1, <2>3, FrameKeeps, ReaderKeeps
  <2>4. CASE (\E q \in Chains : Watch(q) \/ Unwatch(q)) \/ Sample \/ CacheTicks
    BY <2>1, <2>4, InterestKeeps
  <2>5. CASE \E failed \in SUBSET Chains : RecomputeWatched(failed) \/ RecomputeClosingMinute(failed)
    BY <2>1, <2>5, LivePassKeeps, MinutePassKeeps
  <2>6. CASE IndexQuote \/ MinuteEdge
    BY <2>1, <2>6, SpotKeeps, EdgeKeeps
  <2>7. QED
    BY <2>1, <2>2, <2>3, <2>4, <2>5, <2>6 DEF CacheNext, LivePass
<1>3. QED
  BY <1>1, <1>2, PTL DEF CacheSpec

(* A pair that is not dirty is served from a ladder computed from its newest      *)
(* inputs, whichever pass solved it and whatever raised before (ChainStream's     *)
(* chain and _drain).                                                       *)
THEOREM ServedLaddersAreCurrent == CacheSpec => []CleanMeansCurrent
<1>1. CacheInvariant => CleanMeansCurrent
  BY DEF CacheInvariant
<1>2. QED
  BY <1>1, CacheInvariantHolds, PTL

(* Once the minute pass has run, every pair with a frame before it has its row or  *)
(* a ladder the sampler will still find, but for the excused (stream.py's two      *)
(* ways into the computed bars).                                            *)
THEOREM EveryMinuteIsInHand == CacheSpec => []MinuteIsInHand
<1>1. CacheInvariant => MinuteIsInHand
  BY DEF CacheInvariant
<1>2. QED
  BY <1>1, CacheInvariantHolds, PTL

----------------------------------------------------------------------------
(* The ladder page. Its effects see the page through a view; what they last saw  *)
(* is the page's view between two steps, and the subscription, the live ladder,   *)
(* the reads under way and the stored ladder fit it.                             *)

PageStates ==
  [underlying : Underlyings, expiry : Expiries \cup {NoExpiry}, expiries : SUBSET Expiries,
   wanted : Int, minutes : SUBSET (0..LiveMinute), live : Pairs \cup {NoChain},
   status : {"connecting", "live", "waiting", "closed", "error"}, error : BOOLEAN, busy : BOOLEAN,
   ladder : (Pairs \X Int) \cup {NoChain}, empty : BOOLEAN, reading : BOOLEAN]
Kinds == {"expiries", "minutes", "ladder"}
Requests == [kind : Kinds, what : Pairs, at : Int, newest : BOOLEAN]
Subscriptions == [pair : Pairs, phase : {"connecting", "open", "retrying", "refused"}]
Rendering == [page : PageStates, asks : SUBSET Requests, subs : SUBSET Subscriptions]
Views == [pair : Pairs, expiry : Expiries \cup {NoExpiry}, following : BOOLEAN, stamp : Int]

AsksALadder(a) == a.kind = "ladder" /\ a.newest

SubsFit(S, v) ==
  IF v.following /\ v.expiry # NoExpiry
  THEN \A s \in S : S = {s} /\ s.pair = v.pair
  ELSE S = {}

LiveFits(p, v) == v.following /\ v.expiry # NoExpiry => p.live \in {NoChain, v.pair}

AsksFit(A, p, v) ==
  \A a \in A : AsksALadder(a) =>
    ~v.following /\ a.what = v.pair /\ a.at = v.stamp /\ p.reading

(* gone holds the kinds of read whose newest has failed.                       *)
LadderFits(p, v, gone) ==
  IF v.following THEN p.ladder = NoChain
  ELSE p.reading \/ "ladder" \in gone \/ p.ladder \in {NoChain, <<v.pair, v.stamp>>}

Fits(s, v, gone) ==
  /\ SubsFit(s.subs, v) /\ LiveFits(s.page, v)
  /\ AsksFit(s.asks, s.page, v) /\ LadderFits(s.page, v, gone)

PageInvariant ==
  /\ page \in PageStates /\ asks \in SUBSET Requests /\ subs \in SUBSET Subscriptions
  /\ Fits([page |-> page, asks |-> asks, subs |-> subs], View(page), lost)

(* What an effect may leave alone.                                           *)
SameSelection(p, q) ==
  p.underlying = q.underlying /\ p.expiry = q.expiry /\ p.wanted = q.wanted /\ p.minutes = q.minutes
SameLive(p, q) == p.live = q.live /\ p.status = q.status
SameLadder(p, q) == p.ladder = q.ladder /\ p.reading = q.reading
NewestLadder(A) == {a \in A : AsksALadder(a)}

(* The live effect subscribes anew.                                          *)
Resets(old, new) ==
  ~(old.pair = new.pair /\ old.following = new.following) /\ new.following /\ new.expiry # NoExpiry

----------------------------------------------------------------------------
(* A set of minutes has a last one.                                          *)
LEMMA LastMinuteExists ==
  ASSUME NEW S \in SUBSET (0..LiveMinute), S # {}
  PROVE  \E m \in S : \A n \in S : n <= m
<1>0. LiveMinute \in Nat
  BY PageAssumption
<1> USE <1>0
<1> DEFINE T == {LiveMinute - m : m \in S}
<1>1. T \subseteq Nat /\ T # {}
  <2>1. \A m \in S : LiveMinute - m \in Nat
    OBVIOUS
  <2>2. QED
    BY <2>1
<1>2. PICK t \in T : \A r \in T : <<r, t>> \notin OpToRel(<, Nat)
  BY <1>1, NatLessThanWellFounded, WFMin
<1>3. \A r \in T : ~(r < t)
  BY <1>1, <1>2 DEF OpToRel
<1>4. PICK m \in S : t = LiveMinute - m
  OBVIOUS
<1>5. ASSUME NEW n \in S PROVE n <= m
  <2>1. LiveMinute - n \in T
    OBVIOUS
  <2>2. ~(LiveMinute - n < LiveMinute - m)
    BY <1>3, <1>4, <2>1
  <2>3. n \in Int /\ m \in Int /\ LiveMinute \in Int
    OBVIOUS
  <2>4. QED
    BY <2>2, <2>3
<1>6. QED
  BY <1>5

(* The position of a page is a minute of its timeline, or nowhere.             *)
LEMMA StampIsAnInstant == ASSUME NEW p \in PageStates PROVE Stamp(p) \in Int
<1>1. Stamps(p) \in SUBSET (0..LiveMinute)
  BY PageAssumption DEF Stamps, Grid, Placed, LiveEdge
<1>2. CASE Stamps(p) = {}
  BY <1>2 DEF Stamp, RightEdge, Nowhere
<1>3. CASE Stamps(p) # {}
  <2>1. RightEdge(Stamps(p)) \in Stamps(p)
    BY <1>1, <1>3, LastMinuteExists DEF RightEdge
  <2>2. p.wanted \in Int
    BY DEF PageStates
  <2>3. QED
    BY <1>1, <2>1, <2>2 DEF Stamp
<1>4. QED
  BY <1>2, <1>3

(* What a render hands to the effects.                                       *)
LEMMA ViewType ==
  ASSUME NEW p \in PageStates
  PROVE  View(p) \in Views /\ View(p).expiry = View(p).pair[2] /\ View(p).pair = Sel(p)
<1>1. Stamp(p) \in Int
  BY StampIsAnInstant
<1>2. Following(p) \in BOOLEAN
  BY DEF Following
<1>3. Sel(p) \in Pairs /\ Sel(p)[2] = p.expiry /\ p.expiry \in Expiries \cup {NoExpiry}
  BY DEF Sel, Pairs, PageStates
<1>4. QED
  BY <1>1, <1>2, <1>3 DEF View, Views

(* It sees nothing else of the page.                                         *)
LEMMA SameView == ASSUME NEW p, NEW q, SameSelection(p, q), SameLive(p, q) PROVE View(p) = View(q)
<1> USE DEF SameSelection, SameLive
<1>1. LiveEdge(p) = LiveEdge(q)
  BY DEF LiveEdge
<1>2. Placed(p) = Placed(q)
  BY <1>1 DEF Placed
<1>3. Stamps(p) = Stamps(q)
  BY <1>2 DEF Stamps
<1>4. Stamp(p) = Stamp(q)
  BY <1>3 DEF Stamp
<1>5. Following(p) = Following(q)
  BY <1>2, <1>4 DEF Following, OnLive
<1>6. Sel(p) = Sel(q)
  BY DEF Sel
<1>7. QED
  BY <1>4, <1>5, <1>6 DEF View

----------------------------------------------------------------------------
(* Asking again retires the request of that kind that was the newest.          *)
LEMMA Retired ==
  ASSUME NEW A \in SUBSET Requests, NEW kind
  PROVE  /\ Retire(kind, A) \in SUBSET Requests
         /\ \A b \in Retire(kind, A) : b.newest => b \in A /\ b.kind # kind
<1>1. SUFFICES ASSUME NEW a \in A, NEW b, b = [a EXCEPT !.newest = @ /\ a.kind # kind]
               PROVE  b \in Requests /\ (b.newest => b \in A /\ b.kind # kind)
  BY DEF Retire
<1>2. a \in Requests /\ (a.newest /\ a.kind # kind) \in BOOLEAN
  BY DEF Requests
<1>3. b \in Requests /\ b.newest = (a.newest /\ a.kind # kind) /\ b.kind = a.kind
  BY <1>1, <1>2 DEF Requests
<1>4. ASSUME b.newest PROVE b = a
  BY <1>1, <1>2, <1>3, <1>4 DEF Requests
<1>5. QED
  BY <1>3, <1>4

(* The newest requests after one more.                                       *)
LEMMA AskedOnce ==
  ASSUME NEW A \in SUBSET Requests, NEW kind \in Kinds, NEW what \in Pairs, NEW at \in Int
  PROVE  /\ Asked(kind, what, at, A) \in SUBSET Requests
         /\ \A b \in Asked(kind, what, at, A) : b.newest =>
              \/ b = [kind |-> kind, what |-> what, at |-> at, newest |-> TRUE]
              \/ b \in A /\ b.kind # kind
<1>1. [kind |-> kind, what |-> what, at |-> at, newest |-> TRUE] \in Requests
  BY DEF Requests
<1>2. QED
  BY <1>1, Retired DEF Asked

(* The lists of expiries and of minutes are asked for beside the rest.          *)
LEMMA ReadEffects ==
  ASSUME NEW s \in Rendering, NEW old, NEW new \in Views, NEW t,
         t = MinutesEffect(old, new, ExpiriesEffect(old, new, s))
  PROVE  /\ t \in Rendering /\ t.subs = s.subs /\ NewestLadder(t.asks) \subseteq NewestLadder(s.asks)
         /\ SameSelection(t.page, s.page) /\ SameLive(t.page, s.page) /\ SameLadder(t.page, s.page)
<1> USE DEF SameSelection, SameLive, SameLadder
<1>1. new.pair \in Pairs /\ Edge \in Int /\ {"expiries", "minutes"} \subseteq Kinds
  BY DEF Views, Edge, Kinds
<1> DEFINE r == ExpiriesEffect(old, new, s)
<1>2. /\ r \in Rendering /\ r.subs = s.subs /\ NewestLadder(r.asks) \subseteq NewestLadder(s.asks)
      /\ SameSelection(r.page, s.page) /\ SameLive(r.page, s.page) /\ SameLadder(r.page, s.page)
  <2>1. CASE old.pair[1] = new.pair[1]
    BY <2>1 DEF ExpiriesEffect
  <2>2. CASE old.pair[1] # new.pair[1]
    <3>1. s.asks \in SUBSET Requests
      BY DEF Rendering
    <3>2. /\ Asked("expiries", new.pair, Edge, s.asks) \in SUBSET Requests
          /\ NewestLadder(Asked("expiries", new.pair, Edge, s.asks)) \subseteq NewestLadder(s.asks)
      BY <1>1, <3>1, AskedOnce DEF NewestLadder, AsksALadder
    <3>3. r = [s EXCEPT !.page.busy = TRUE, !.page.error = FALSE,
                        !.asks = Asked("expiries", new.pair, Edge, s.asks)]
      BY <2>2 DEF ExpiriesEffect
    <3>4. [s.page EXCEPT !.busy = TRUE, !.error = FALSE] \in PageStates
      BY DEF Rendering, PageStates
    <3>5. r.page = [s.page EXCEPT !.busy = TRUE, !.error = FALSE]
      BY <3>3 DEF Rendering
    <3>6. r.subs = s.subs /\ r.asks = Asked("expiries", new.pair, Edge, s.asks)
      BY <3>3 DEF Rendering
    <3>7. r \in Rendering
      BY <3>2, <3>3, <3>4 DEF Rendering
    <3>8. SameSelection(r.page, s.page) /\ SameLive(r.page, s.page) /\ SameLadder(r.page, s.page)
      BY <3>5 DEF Rendering, PageStates
    <3>9. QED
      BY <3>2, <3>6, <3>7, <3>8
  <2>3. QED
    BY <2>1, <2>2
<1>3. r.asks \in SUBSET Requests
  BY <1>2 DEF Rendering
<1> HIDE DEF r
<1>4. /\ Asked("minutes", new.pair, Edge, r.asks) \in SUBSET Requests
      /\ NewestLadder(Asked("minutes", new.pair, Edge, r.asks)) \subseteq NewestLadder(r.asks)
  BY <1>1, <1>3, AskedOnce DEF NewestLadder, AsksALadder
<1>5. t = r \/ t = [r EXCEPT !.asks = Asked("minutes", new.pair, Edge, r.asks)]
  BY DEF MinutesEffect, r
<1>6. QED
  BY <1>2, <1>4, <1>5 DEF Rendering

(* A subscription is closed before the next is opened, and the ladder it pushed  *)
(* goes with it.                                                            *)
LEMMA LiveEffectKeeps ==
  ASSUME NEW s \in Rendering, NEW old, NEW new \in Views, NEW t, t = LiveEffect(old, new, s),
         old.pair = new.pair => old.expiry = new.expiry
  PROVE  /\ t \in Rendering /\ t.asks = s.asks
         /\ SameSelection(t.page, s.page) /\ SameLadder(t.page, s.page)
         /\ ~Resets(old, new) => SameLive(t.page, s.page)
         /\ Resets(old, new) => t.page.live = NoChain /\ t.page.status = "connecting"
         /\ SubsFit(s.subs, old) /\ LiveFits(s.page, old) => SubsFit(t.subs, new) /\ LiveFits(t.page, new)
<1> USE DEF SameSelection, SameLive, SameLadder
<1>1. CASE old.pair = new.pair /\ old.following = new.following
  BY <1>1 DEF LiveEffect, SubsFit, LiveFits, Resets
<1>2. CASE ~(old.pair = new.pair /\ old.following = new.following) /\ (new.expiry = NoExpiry \/ ~new.following)
  <2>1. t = [s EXCEPT !.subs = {}]
    BY <1>2 DEF LiveEffect, Unsubscribed
  <2>2. t \in Rendering /\ t.page = s.page /\ t.asks = s.asks /\ t.subs = {}
    BY <2>1 DEF Rendering
  <2>3. QED
    BY <1>2, <2>2 DEF SubsFit, LiveFits, Resets
<1>3. CASE Resets(old, new)
  <2>1. t = [s EXCEPT !.page.live = NoChain, !.page.status = "connecting",
                      !.subs = {[pair |-> new.pair, phase |-> "connecting"]}]
    BY <1>3 DEF LiveEffect, Unsubscribed, Resets, Rendering
  <2>2. [pair |-> new.pair, phase |-> "connecting"] \in Subscriptions
    BY DEF Views, Subscriptions
  <2>3. [s.page EXCEPT !.live = NoChain, !.status = "connecting"] \in PageStates
    BY DEF Rendering, PageStates
  <2>4. t.page = [s.page EXCEPT !.live = NoChain, !.status = "connecting"]
    BY <2>1 DEF Rendering
  <2>5. t.subs = {[pair |-> new.pair, phase |-> "connecting"]} /\ t.asks = s.asks
    BY <2>1 DEF Rendering
  <2>6. t \in Rendering
    <3>1. t = [page |-> [s.page EXCEPT !.live = NoChain, !.status = "connecting"], asks |-> s.asks,
               subs |-> {[pair |-> new.pair, phase |-> "connecting"]}]
      BY <2>1 DEF Rendering
    <3>2. s.asks \in SUBSET Requests
      BY DEF Rendering
    <3>3. {[pair |-> new.pair, phase |-> "connecting"]} \in SUBSET Subscriptions
      BY <2>2
    <3> QED
      BY <2>3, <3>1, <3>2, <3>3 DEF Rendering
  <2>7. t.page.live = NoChain /\ t.page.status = "connecting" /\ SameSelection(t.page, s.page) /\ SameLadder(t.page, s.page)
    BY <2>4 DEF Rendering, PageStates
  <2>8. SubsFit(t.subs, new)
    BY <1>3, <2>5 DEF SubsFit, Resets
  <2>9. LiveFits(t.page, new)
    BY <2>7 DEF LiveFits
  <2>10. QED
    BY <1>3, <2>5, <2>6, <2>7, <2>8, <2>9
<1>4. QED
  BY <1>1, <1>2, <1>3 DEF Resets

(* A stored ladder is asked for by its minute, and dropped with its selection.  *)
LEMMA LadderEffectKeeps ==
  ASSUME NEW s \in Rendering, NEW old, NEW new \in Views, NEW t, t = LadderEffect(old, new, s), NEW gone
  PROVE  /\ t \in Rendering /\ t.subs = s.subs
         /\ SameSelection(t.page, s.page) /\ SameLive(t.page, s.page)
         /\ AsksFit(s.asks, s.page, old) /\ LadderFits(s.page, old, gone) =>
              AsksFit(t.asks, t.page, new) /\ LadderFits(t.page, new, gone)
<1> USE DEF SameSelection, SameLive
<1>1. CASE old = new
  BY <1>1 DEF LadderEffect, AsksFit, LadderFits
<1>2. CASE old # new /\ (new.following \/ new.stamp = Nowhere)
  <2>1. t = [s EXCEPT !.asks = Retire("ladder", s.asks),
                      !.page.ladder = NoChain, !.page.empty = FALSE, !.page.reading = FALSE]
    BY <1>2 DEF LadderEffect
  <2>2. Retire("ladder", s.asks) \in SUBSET Requests /\ \A a \in Retire("ladder", s.asks) : ~AsksALadder(a)
    BY Retired DEF Rendering, AsksALadder
  <2> DEFINE q == [s.page EXCEPT !.ladder = NoChain, !.empty = FALSE, !.reading = FALSE]
  <2>3. q \in PageStates
    BY DEF Rendering, PageStates
  <2>4. t.page = q /\ t.subs = s.subs /\ t.asks = Retire("ladder", s.asks)
    BY <2>1 DEF Rendering
  <2>5. t \in Rendering
    BY <2>1, <2>2, <2>3 DEF Rendering
  <2>6. q.ladder = NoChain /\ SameSelection(q, s.page) /\ SameLive(q, s.page)
    BY DEF Rendering, PageStates
  <2> HIDE DEF q
  <2>7. AsksFit(t.asks, t.page, new) /\ LadderFits(t.page, new, gone)
    BY <2>2, <2>4, <2>6 DEF AsksFit, LadderFits
  <2>8. QED
    BY <2>4, <2>5, <2>6, <2>7
<1>3. CASE old # new /\ ~(new.following \/ new.stamp = Nowhere)
  <2>1. t = [s EXCEPT !.asks = Asked("ladder", new.pair, new.stamp, s.asks), !.page.reading = TRUE]
    BY <1>3 DEF LadderEffect
  <2>2. new.pair \in Pairs /\ new.stamp \in Int /\ "ladder" \in Kinds /\ s.asks \in SUBSET Requests
    BY DEF Views, Kinds, Rendering
  <2>3. /\ Asked("ladder", new.pair, new.stamp, s.asks) \in SUBSET Requests
        /\ \A a \in Asked("ladder", new.pair, new.stamp, s.asks) : AsksALadder(a) =>
             a.what = new.pair /\ a.at = new.stamp
    BY <2>2, AskedOnce DEF AsksALadder
  <2> DEFINE q == [s.page EXCEPT !.reading = TRUE]
  <2>4. q \in PageStates
    BY DEF Rendering, PageStates
  <2>5. t.page = q /\ t.subs = s.subs /\ t.asks = Asked("ladder", new.pair, new.stamp, s.asks)
    BY <2>1 DEF Rendering
  <2>6. t \in Rendering
    BY <2>1, <2>3, <2>4 DEF Rendering
  <2>7. q.reading = TRUE /\ SameSelection(q, s.page) /\ SameLive(q, s.page)
    BY DEF Rendering, PageStates
  <2> HIDE DEF q
  <2>8. AsksFit(t.asks, t.page, new) /\ LadderFits(t.page, new, gone)
    BY <1>3, <2>3, <2>5, <2>7 DEF AsksFit, LadderFits
  <2>9. QED
    BY <2>5, <2>6, <2>7, <2>8
<1>4. QED
  BY <1>1, <1>2, <1>3

----------------------------------------------------------------------------
(* A commit takes the page from one view to the next, whatever it was before.   *)
LEMMA CommitFits ==
  ASSUME NEW s \in Rendering, NEW old, NEW new \in Views, old.pair = new.pair => old.expiry = new.expiry,
         NEW gone, NEW t, t = Commit(old, new, s), Fits(s, old, gone)
  PROVE  /\ t \in Rendering /\ Fits(t, new, gone) /\ SameSelection(t.page, s.page)
         /\ ~Resets(old, new) => View(t.page) = View(s.page)
         /\ Resets(old, new) => t.page.live = NoChain /\ t.page.status = "connecting"
<1> DEFINE r == MinutesEffect(old, new, ExpiriesEffect(old, new, s))
           l == LiveEffect(old, new, r)
<1>1. /\ r \in Rendering /\ r.subs = s.subs /\ NewestLadder(r.asks) \subseteq NewestLadder(s.asks)
      /\ SameSelection(r.page, s.page) /\ SameLive(r.page, s.page) /\ SameLadder(r.page, s.page)
  BY ReadEffects
<1> HIDE DEF r
<1>2. SubsFit(r.subs, old) /\ LiveFits(r.page, old)
  BY <1>1 DEF Fits, LiveFits, SameLive
<1>3. AsksFit(r.asks, r.page, old) /\ LadderFits(r.page, old, gone)
  BY <1>1 DEF Fits, AsksFit, LadderFits, SameLadder, NewestLadder
<1>4. /\ l \in Rendering /\ l.asks = r.asks /\ SameSelection(l.page, r.page) /\ SameLadder(l.page, r.page)
      /\ ~Resets(old, new) => SameLive(l.page, r.page)
      /\ Resets(old, new) => l.page.live = NoChain /\ l.page.status = "connecting"
      /\ SubsFit(l.subs, new) /\ LiveFits(l.page, new)
  BY <1>1, <1>2, LiveEffectKeeps
<1> HIDE DEF l
<1>5. AsksFit(l.asks, l.page, old) /\ LadderFits(l.page, old, gone)
  BY <1>3, <1>4 DEF AsksFit, LadderFits, SameLadder
<1>6. t = LadderEffect(old, new, l)
  BY DEF Commit, l, r
<1>7. /\ t \in Rendering /\ t.subs = l.subs /\ SameSelection(t.page, l.page) /\ SameLive(t.page, l.page)
      /\ AsksFit(t.asks, t.page, new) /\ LadderFits(t.page, new, gone)
  BY <1>4, <1>5, <1>6, LadderEffectKeeps
<1>8. Fits(t, new, gone)
  BY <1>4, <1>7 DEF Fits, LiveFits, SameLive
<1>9. SameSelection(t.page, s.page)
  BY <1>1, <1>4, <1>7 DEF SameSelection
<1>10. ASSUME ~Resets(old, new) PROVE View(t.page) = View(s.page)
  <2>1. SameLive(t.page, s.page)
    BY <1>1, <1>4, <1>7, <1>10 DEF SameLive
  <2>2. QED
    BY <1>9, <2>1, SameView
<1>11. Resets(old, new) => t.page.live = NoChain /\ t.page.status = "connecting"
  BY <1>4, <1>7 DEF SameLive
<1>12. QED
  BY <1>7, <1>8, <1>9, <1>10, <1>11

(* The effects run again only when something they depend on has changed.        *)
LEMMA CommitSame == ASSUME NEW v, NEW s PROVE Commit(v, v, s) = s
BY DEF Commit, LadderEffect, LiveEffect, MinutesEffect, ExpiriesEffect

(* The view of a pair holds its expiry.                                      *)
LEMMA ViewsOfAPair ==
  ASSUME NEW p \in PageStates, NEW q \in PageStates
  PROVE  View(p).pair = View(q).pair => View(p).expiry = View(q).expiry
BY ViewType

(* A step of the page settles in two renders: the second may see the slider leave *)
(* the live minute that the first one's new subscription has blanked, and the     *)
(* third sees nothing new.                                                   *)
LEMMA RenderSettles ==
  ASSUME NEW old, NEW q \in PageStates, NEW s \in Rendering, s.page = q, NEW gone, Fits(s, old, gone),
         old.pair = View(q).pair => old.expiry = View(q).expiry,
         NEW first, first = Commit(old, View(q), s),
         NEW second, second = Commit(View(q), View(first.page), first),
         NEW last, last = Commit(View(first.page), View(second.page), second)
  PROVE  last \in Rendering /\ Fits(last, View(last.page), gone)
<1> DEFINE v1 == View(q)
           v2 == View(first.page)
<1>1. v1 \in Views
  BY ViewType
<1>2. /\ first \in Rendering /\ Fits(first, v1, gone) /\ SameSelection(first.page, q)
      /\ ~Resets(old, v1) => v2 = v1
  BY <1>1, CommitFits
<1>3. first.page \in PageStates
  BY <1>2 DEF Rendering
<1>4. v2 \in Views /\ (v1.pair = v2.pair => v1.expiry = v2.expiry)
  BY <1>3, ViewType, ViewsOfAPair
<1>5. v2.pair = v1.pair
  BY <1>2, <1>3, ViewType DEF SameSelection, Sel
<1>6. ~Resets(v1, v2)
  <2>1. CASE Resets(old, v1)
    BY <1>5, <2>1 DEF Resets
  <2>2. CASE ~Resets(old, v1)
    BY <1>2, <2>2 DEF Resets
  <2>3. QED
    BY <2>1, <2>2
<1> HIDE DEF v1, v2
<1>7. second = Commit(v1, v2, first)
  BY DEF v1, v2
<1>8. /\ second \in Rendering /\ Fits(second, v2, gone) /\ View(second.page) = View(first.page)
  BY <1>2, <1>4, <1>6, <1>7, CommitFits
<1>9. last = second
  BY <1>8, CommitSame
<1>10. QED
  BY <1>8, <1>9 DEF v2

(* A handler that leaves the page fitting the view it was rendered with keeps the *)
(* invariant. A read that is asked again is no longer lost, and is under way.    *)
LEMMA RenderKeeps ==
  ASSUME page \in PageStates, NEW q \in PageStates, NEW A \in SUBSET Requests, NEW S \in SUBSET Subscriptions,
         NEW failed, Rendered(q, A, S, failed),
         Fits([page |-> q, asks |-> A, subs |-> S], View(page), lost \cup failed)
  PROVE  PageInvariant'
<1> DEFINE gone == lost \cup failed
           s == [page |-> q, asks |-> A, subs |-> S]
<1>1. s \in Rendering /\ s.page = q
  BY DEF Rendering
<1>2. View(page).pair = View(q).pair => View(page).expiry = View(q).expiry
  BY ViewsOfAPair
<1>3. PICK first, second, last :
        /\ first = Commit(View(page), View(q), s)
        /\ second = Commit(View(q), View(first.page), first)
        /\ last = Commit(View(first.page), View(second.page), second)
        /\ page' = last.page /\ asks' = last.asks /\ subs' = last.subs
        /\ lost' = gone \ {a.kind : a \in {b \in last.asks : b.newest}}
  BY DEF Rendered
<1>4. last \in Rendering /\ Fits(last, View(last.page), gone)
  BY <1>1, <1>2, <1>3, RenderSettles
<1> HIDE DEF gone, s
<1>5. page' \in PageStates /\ asks' \in SUBSET Requests /\ subs' \in SUBSET Subscriptions
  BY <1>3, <1>4 DEF Rendering
<1> DEFINE v == View(last.page)
           t == [page |-> last.page, asks |-> last.asks, subs |-> last.subs]
<1>6. SubsFit(last.subs, v) /\ LiveFits(last.page, v) /\ AsksFit(last.asks, last.page, v)
  BY <1>4 DEF Fits
<1>7. LadderFits(last.page, v, lost')
  <2>1. LadderFits(last.page, v, gone)
    BY <1>4 DEF Fits
  <2>2. CASE \E a \in last.asks : AsksALadder(a)
    BY <1>6, <2>1, <2>2 DEF AsksFit, LadderFits
  <2>3. CASE \A a \in last.asks : ~AsksALadder(a)
    <3>1. "ladder" \in gone => "ladder" \in lost'
      BY <1>3, <2>3 DEF AsksALadder
    <3>2. QED
      BY <2>1, <3>1 DEF LadderFits
  <2>4. QED
    BY <2>2, <2>3
<1>8. Fits(t, v, lost')
  BY <1>6, <1>7 DEF Fits
<1>9. Fits([page |-> page', asks |-> asks', subs |-> subs'], View(page'), lost')
  BY <1>3, <1>8
<1>10. QED
  BY <1>5, <1>9 DEF PageInvariant, View

----------------------------------------------------------------------------
(* What the invariant says of a page and its subscriptions and reads.          *)
LEMMA WhatFits ==
  ASSUME PageInvariant
  PROVE  /\ page \in PageStates /\ asks \in SUBSET Requests /\ subs \in SUBSET Subscriptions
         /\ View(page) \in Views /\ View(page).pair = Sel(page)
         /\ SubsFit(subs, View(page)) /\ LiveFits(page, View(page))
         /\ AsksFit(asks, page, View(page)) /\ LadderFits(page, View(page), lost)
<1>1. page \in PageStates /\ asks \in SUBSET Requests /\ subs \in SUBSET Subscriptions
  BY DEF PageInvariant
<1>2. Fits([page |-> page, asks |-> asks, subs |-> subs], View(page), lost)
  BY DEF PageInvariant
<1>3. QED
  BY <1>1, <1>2, ViewType DEF Fits

(* The reader moves the selection, and the effects do the rest.               *)
LEMMA PicksKeep ==
  ASSUME PageInvariant, PickUnderlying \/ PickExpiry \/ PickIndex
  PROVE  PageInvariant'
<1> DEFINE v == View(page)
<1>1. /\ page \in PageStates /\ asks \in SUBSET Requests /\ subs \in SUBSET Subscriptions
      /\ SubsFit(subs, v) /\ LiveFits(page, v) /\ AsksFit(asks, page, v) /\ LadderFits(page, v, lost)
  BY WhatFits
<1> HIDE DEF v
<1>2. ASSUME NEW q \in PageStates, Picks(q), SameLadder(q, page), q.live = page.live
      PROVE  PageInvariant'
  <2>1. Rendered(q, asks, subs, {}) /\ lost \cup {} = lost
    BY <1>2 DEF Picks
  <2>2. LiveFits(q, v) /\ AsksFit(asks, q, v) /\ LadderFits(q, v, lost)
    BY <1>1, <1>2 DEF LiveFits, AsksFit, LadderFits, SameLadder
  <2>3. Fits([page |-> q, asks |-> asks, subs |-> subs], v, lost \cup {})
    BY <1>1, <2>1, <2>2 DEF Fits
  <2>4. QED
    BY <1>1, <2>1, <2>3, RenderKeeps DEF v
<1>3. CASE PickUnderlying
  <2>1. PICK u \in Underlyings : Picks([page EXCEPT !.underlying = u, !.wanted = Edge])
    BY <1>3 DEF PickUnderlying
  <2> DEFINE q == [page EXCEPT !.underlying = u, !.wanted = Edge]
  <2>2. Edge \in Int
    BY DEF Edge
  <2>3. q \in PageStates
    BY <1>1, <2>2 DEF PageStates
  <2>4. SameLadder(q, page) /\ q.live = page.live
    BY <1>1 DEF PageStates, SameLadder
  <2>5. QED
    BY <1>2, <2>1, <2>3, <2>4
<1>4. CASE PickExpiry
  <2>1. PICK e \in page.expiries : Picks([page EXCEPT !.expiry = e, !.wanted = Edge])
    BY <1>4 DEF PickExpiry
  <2>2. e \in Expiries
    BY <1>1 DEF PageStates
  <2> DEFINE q == [page EXCEPT !.expiry = e, !.wanted = Edge]
  <2>3. Edge \in Int
    BY DEF Edge
  <2>4. q \in PageStates
    BY <1>1, <2>2, <2>3 DEF PageStates
  <2>5. SameLadder(q, page) /\ q.live = page.live
    BY <1>1 DEF PageStates, SameLadder
  <2>6. QED
    BY <1>2, <2>1, <2>4, <2>5
<1>5. CASE PickIndex
  <2>1. PICK m \in Stamps(page) :
          Picks([page EXCEPT !.wanted = IF m = RightEdge(Stamps(page)) THEN Edge ELSE m])
    BY <1>5 DEF PickIndex
  <2>2. m \in Int
    BY <2>1, PageAssumption DEF Stamps, Grid, Placed, LiveEdge
  <2>3. PICK w \in Int : w = IF m = RightEdge(Stamps(page)) THEN Edge ELSE m
    BY <2>2 DEF Edge
  <2> DEFINE q == [page EXCEPT !.wanted = w]
  <2>4. q \in PageStates /\ SameLadder(q, page) /\ q.live = page.live
    BY <1>1 DEF PageStates, SameLadder
  <2>5. QED
    BY <1>2, <2>1, <2>3, <2>4
<1>6. QED
  BY <1>3, <1>4, <1>5

(* An answer, or a failure, ends one read. Of the stored ladders, the newest is   *)
(* the only one anybody waits for.                                          *)
LEMMA OneNewestLadder ==
  ASSUME PageInvariant, NEW a \in asks, AsksALadder(a)
  PROVE  \A b \in asks \ {a} : ~AsksALadder(b)
<1>1. asks \in SUBSET Requests /\ AsksFit(asks, page, View(page))
  BY WhatFits
<1>2. ASSUME NEW b \in asks, AsksALadder(b) PROVE b = a
  BY <1>1, <1>2 DEF AsksFit, AsksALadder, Requests
<1>3. QED
  BY <1>2

(* An answer that touches neither ladder keeps the invariant.                 *)
LEMMA QuietAnswerKeeps ==
  ASSUME PageInvariant, NEW a \in asks, NEW q \in PageStates, NEW failed, Rendered(q, asks \ {a}, subs, failed),
         q.live = page.live, SameLadder(q, page)
  PROVE  PageInvariant'
<1> DEFINE v == View(page)
<1>1. /\ page \in PageStates /\ asks \in SUBSET Requests /\ subs \in SUBSET Subscriptions
      /\ SubsFit(subs, v) /\ LiveFits(page, v) /\ AsksFit(asks, page, v) /\ LadderFits(page, v, lost)
  BY WhatFits
<1> HIDE DEF v
<1>2. LiveFits(q, v) /\ AsksFit(asks \ {a}, q, v) /\ LadderFits(q, v, lost \cup failed)
  BY <1>1 DEF LiveFits, AsksFit, LadderFits, SameLadder
<1>3. Fits([page |-> q, asks |-> asks \ {a}, subs |-> subs], v, lost \cup failed)
  BY <1>1, <1>2 DEF Fits
<1>4. asks \ {a} \in SUBSET Requests
  BY <1>1
<1>5. QED
  BY <1>1, <1>3, <1>4, RenderKeeps DEF v

(* A read that fails is remembered until its kind is asked for again.          *)
LEMMA UnansweredKeeps ==
  ASSUME PageInvariant, NEW a \in asks, a.newest, Rendered(Unanswered(a), asks \ {a}, subs, {a.kind})
  PROVE  PageInvariant'
<1> DEFINE v == View(page)
<1>1. /\ page \in PageStates /\ asks \in SUBSET Requests /\ subs \in SUBSET Subscriptions
      /\ SubsFit(subs, v) /\ LiveFits(page, v) /\ AsksFit(asks, page, v) /\ LadderFits(page, v, lost)
  BY WhatFits
<1>2. Rendered([page EXCEPT !.error = @ \/ a.kind # "minutes", !.busy = @ /\ a.kind # "expiries",
                            !.reading = @ /\ a.kind # "ladder"], asks \ {a}, subs, {a.kind})
  BY DEF Unanswered
<1>3. PICK wrong \in BOOLEAN, busier \in BOOLEAN, still \in BOOLEAN :
        /\ wrong = (page.error \/ a.kind # "minutes") /\ busier = (page.busy /\ a.kind # "expiries")
        /\ still = (page.reading /\ a.kind # "ladder")
  OBVIOUS
<1> DEFINE q == [page EXCEPT !.error = wrong, !.busy = busier, !.reading = still]
<1>4. Rendered(q, asks \ {a}, subs, {a.kind})
  BY <1>2, <1>3
<1>5. q \in PageStates /\ q.live = page.live /\ q.ladder = page.ladder /\ q.reading = still
  BY ZenonT(30), <1>1 DEF PageStates
<1>6. asks \ {a} \in SUBSET Requests
  BY <1>1
<1> HIDE DEF q, v
<1>7. CASE a.kind # "ladder"
  <2>1. SameLadder(q, page)
    <3>1. page.reading \in BOOLEAN
      BY <1>1 DEF PageStates
    <3>2. still = page.reading
      BY <1>3, <1>7, <3>1
    <3>3. QED
      BY <1>5, <3>2 DEF SameLadder
  <2>2. QED
    BY <1>4, <1>5, <2>1, QuietAnswerKeeps
<1>8. CASE a.kind = "ladder"
  <2>1. AsksALadder(a)
    BY <1>8 DEF AsksALadder
  <2>2. \A b \in asks \ {a} : ~AsksALadder(b)
    BY <2>1, OneNewestLadder
  <2>3. ~v.following
    BY <1>1, <2>1 DEF AsksFit
  <2>4. SubsFit(subs, v) /\ LiveFits(q, v) /\ AsksFit(asks \ {a}, q, v) /\ LadderFits(q, v, lost \cup {a.kind})
    BY <1>1, <1>5, <1>8, <2>2, <2>3 DEF LiveFits, AsksFit, LadderFits
  <2>5. Fits([page |-> q, asks |-> asks \ {a}, subs |-> subs], v, lost \cup {a.kind})
    BY <2>4 DEF Fits
  <2>6. QED
    BY <1>1, <1>4, <1>5, <1>6, <2>5, RenderKeeps DEF v
<1>9. QED
  BY <1>7, <1>8

(* Answers, in any order.                                                   *)
LEMMA AnswersKeep == ASSUME PageInvariant, Answers PROVE PageInvariant'
<1> DEFINE v == View(page)
<1>1. /\ page \in PageStates /\ asks \in SUBSET Requests /\ subs \in SUBSET Subscriptions
      /\ SubsFit(subs, v) /\ LiveFits(page, v) /\ AsksFit(asks, page, v) /\ LadderFits(page, v, lost)
  BY WhatFits
<1>2. CASE AnswerStale
  <2>1. PICK a \in asks : Rendered(page, asks \ {a}, subs, {})
    BY <1>2 DEF AnswerStale, Renders
  <2>2. QED
    BY <1>1, <2>1, QuietAnswerKeeps DEF SameLadder
<1>3. CASE AnswerExpiries
  <2>1. PICK a \in asks : \E list \in Listings[a.what[1]] :
          \E chosen \in IF a.what[2] \in list THEN {a.what[2]} ELSE IF list = {} THEN {NoExpiry} ELSE list :
            Renders([page EXCEPT !.expiries = list, !.expiry = chosen, !.busy = FALSE,
                                 !.error = @ \/ list = {}], asks \ {a}, subs)
    BY <1>3 DEF AnswerExpiries
  <2>2. PICK list \in Listings[a.what[1]] :
          \E chosen \in IF a.what[2] \in list THEN {a.what[2]} ELSE IF list = {} THEN {NoExpiry} ELSE list :
            Renders([page EXCEPT !.expiries = list, !.expiry = chosen, !.busy = FALSE,
                                 !.error = @ \/ list = {}], asks \ {a}, subs)
    BY <2>1
  <2>3. a.what[1] \in Underlyings
    BY <1>1 DEF Requests, Pairs
  <2>4. list \subseteq Expiries
    BY <2>2, <2>3, PageAssumption
  <2>5. PICK chosen \in Expiries \cup {NoExpiry} :
          Renders([page EXCEPT !.expiries = list, !.expiry = chosen, !.busy = FALSE,
                               !.error = @ \/ list = {}], asks \ {a}, subs)
    BY <2>2, <2>4
  <2>6. PICK wrong \in BOOLEAN : wrong = (page.error \/ list = {})
    OBVIOUS
  <2> DEFINE q == [page EXCEPT !.expiries = list, !.expiry = chosen, !.busy = FALSE, !.error = wrong]
  <2>7. q \in PageStates /\ q.live = page.live /\ SameLadder(q, page)
    BY <1>1, <2>4 DEF PageStates, SameLadder
  <2>8. Rendered(q, asks \ {a}, subs, {})
    BY <2>5, <2>6 DEF Renders
  <2>9. QED
    BY <2>7, <2>8, QuietAnswerKeeps
<1>4. CASE AnswerMinutes
  <2>1. PICK a \in asks :
          Renders([page EXCEPT !.minutes = IF a.what \in Quoted THEN StoredDay[a.what] ELSE {}], asks \ {a}, subs)
    BY <1>4 DEF AnswerMinutes
  <2> DEFINE q == [page EXCEPT !.minutes = IF a.what \in Quoted THEN StoredDay[a.what] ELSE {}]
  <2>2. (IF a.what \in Quoted THEN StoredDay[a.what] ELSE {}) \in SUBSET (0..LiveMinute)
    BY PageAssumption
  <2>3. q \in PageStates /\ q.live = page.live /\ SameLadder(q, page)
    BY <1>1, <2>2 DEF PageStates, SameLadder
  <2>4. QED
    BY <2>1, <2>3, QuietAnswerKeeps DEF Renders
<1>5. CASE AnswerLadder
  <2>1. PICK a \in asks :
          /\ a.kind = "ladder" /\ a.newest
          /\ LET stored == a.what \in Quoted /\ a.at \in StoredDay[a.what]
             IN Renders([page EXCEPT !.ladder = IF stored THEN <<a.what, a.at>> ELSE NoChain,
                                     !.empty = ~stored, !.reading = FALSE], asks \ {a}, subs)
    BY <1>5 DEF AnswerLadder
  <2>2. PICK stored \in BOOLEAN : stored = (a.what \in Quoted /\ a.at \in StoredDay[a.what])
    OBVIOUS
  <2>3. PICK shown \in {NoChain, <<a.what, a.at>>} : shown = IF stored THEN <<a.what, a.at>> ELSE NoChain
    OBVIOUS
  <2>4. PICK none \in BOOLEAN : none = ~stored
    OBVIOUS
  <2> DEFINE q == [page EXCEPT !.ladder = shown, !.empty = none, !.reading = FALSE]
  <2>5. Rendered(q, asks \ {a}, subs, {}) /\ AsksALadder(a)
    BY <2>1, <2>2, <2>3, <2>4 DEF Renders, AsksALadder
  <2>6. shown \in (Pairs \X Int) \cup {NoChain}
    BY <1>1 DEF Requests
  <2>7. q \in PageStates /\ q.live = page.live /\ q.ladder = shown
    <3>1. page \in PageStates
      BY <1>1
    <3>2. q \in PageStates
      BY <2>6, <3>1 DEF PageStates
    <3>3. q.live = page.live /\ q.ladder = shown
      BY <3>1 DEF PageStates
    <3> QED
      BY <3>2, <3>3
  <2>8. ~v.following /\ a.what = v.pair /\ a.at = v.stamp
    BY <1>1, <2>5 DEF AsksFit
  <2>9. \A b \in asks \ {a} : ~AsksALadder(b)
    BY <2>5, OneNewestLadder
  <2> HIDE DEF q, v
  <2>10. SubsFit(subs, v) /\ LiveFits(q, v) /\ AsksFit(asks \ {a}, q, v) /\ LadderFits(q, v, lost \cup {})
    BY <1>1, <2>3, <2>7, <2>8, <2>9 DEF LiveFits, AsksFit, LadderFits
  <2>11. Fits([page |-> q, asks |-> asks \ {a}, subs |-> subs], v, lost \cup {})
    BY <2>10 DEF Fits
  <2>12. asks \ {a} \in SUBSET Requests
    BY <1>1
  <2>13. QED
    BY <1>1, <2>5, <2>7, <2>11, <2>12, RenderKeeps DEF v
<1>6. CASE AnswerRefused
  BY <1>6, UnansweredKeeps DEF AnswerRefused
<1>7. QED
  BY <1>2, <1>3, <1>4, <1>5, <1>6 DEF Answers

(* So does a read that fails.                                               *)
LEMMA ReadFailsKeeps == ASSUME PageInvariant, ReadFails PROVE PageInvariant'
BY UnansweredKeeps DEF ReadFails, Fails

(* The one subscription opens, is pushed ladders or refused, closes, and is tried   *)
(* again.                                                                  *)
LEMMA SocketKeeps ==
  ASSUME PageInvariant, SocketOpens \/ Push \/ Refused \/ SocketCloses \/ Retry
  PROVE  PageInvariant'
<1> DEFINE v == View(page)
<1>1. /\ page \in PageStates /\ asks \in SUBSET Requests /\ subs \in SUBSET Subscriptions
      /\ SubsFit(subs, v) /\ LiveFits(page, v) /\ AsksFit(asks, page, v) /\ LadderFits(page, v, lost)
  BY WhatFits
<1> HIDE DEF v
<1>2. ASSUME NEW q \in PageStates, NEW S \in SUBSET Subscriptions, Rendered(q, asks, S, {}),
             SubsFit(S, v), LiveFits(q, v), SameLadder(q, page)
      PROVE  PageInvariant'
  <2>1. AsksFit(asks, q, v) /\ LadderFits(q, v, lost \cup {})
    BY <1>1, <1>2 DEF AsksFit, LadderFits, SameLadder
  <2>2. Fits([page |-> q, asks |-> asks, subs |-> S], v, lost \cup {})
    BY <1>2, <2>1 DEF Fits
  <2>3. QED
    BY <1>1, <1>2, <2>2, RenderKeeps DEF v
<1>3. ASSUME NEW s \in subs, NEW phase \in {"connecting", "open", "retrying", "refused"}
      PROVE  Moved(s, phase) \in SUBSET Subscriptions /\ SubsFit(Moved(s, phase), v)
  <2>1. subs = {s} /\ s.pair = v.pair /\ v.following /\ v.expiry # NoExpiry /\ s \in Subscriptions
    BY <1>1, <1>3 DEF SubsFit
  <2>2. Moved(s, phase) = {[s EXCEPT !.phase = phase]}
    BY <2>1 DEF Moved
  <2>3. [s EXCEPT !.phase = phase] \in Subscriptions /\ [s EXCEPT !.phase = phase].pair = v.pair
    BY <2>1 DEF Subscriptions
  <2>4. QED
    BY <2>1, <2>2, <2>3 DEF SubsFit
<1>4. ASSUME NEW status \in {"connecting", "live", "waiting", "closed", "error"}
      PROVE  LET q == [page EXCEPT !.status = status]
             IN q \in PageStates /\ LiveFits(q, v) /\ SameLadder(q, page)
  BY <1>1 DEF PageStates, LiveFits, SameLadder
<1>5. CASE SocketOpens
  <2>1. PICK s \in subs : Rendered(page, asks, Moved(s, "open"), {})
    BY <1>5 DEF SocketOpens, Renders
  <2>2. Moved(s, "open") \in SUBSET Subscriptions /\ SubsFit(Moved(s, "open"), v)
    BY <1>3
  <2>3. QED
    BY <1>1, <1>2, <2>1, <2>2 DEF SameLadder
<1>6. CASE SocketCloses
  <2>1. PICK s \in subs : Rendered([page EXCEPT !.status = "closed"], asks, Moved(s, "retrying"), {})
    BY <1>6 DEF SocketCloses, Fails
  <2>2. Moved(s, "retrying") \in SUBSET Subscriptions /\ SubsFit(Moved(s, "retrying"), v)
    BY <1>3
  <2>3. QED
    BY <1>2, <1>4, <2>1, <2>2
<1>7. CASE Retry
  <2>1. PICK s \in subs : Rendered([page EXCEPT !.status = "connecting"], asks, Moved(s, "connecting"), {})
    BY <1>7 DEF Retry, Renders
  <2>2. Moved(s, "connecting") \in SUBSET Subscriptions /\ SubsFit(Moved(s, "connecting"), v)
    BY <1>3
  <2>3. QED
    BY <1>2, <1>4, <2>1, <2>2
<1>8. CASE Push
  <2>1. PICK s \in subs : Rendered([page EXCEPT !.status = IF s.pair \in Quoted THEN "live" ELSE "waiting",
                                               !.live = IF s.pair \in Quoted THEN s.pair ELSE @], asks, subs, {})
    BY <1>8 DEF Push, Renders
  <2>2. s.pair = v.pair /\ s.pair \in Pairs
    BY <1>1 DEF SubsFit, Subscriptions
  <2>3. PICK status \in {"live", "waiting"}, shown \in {page.live, s.pair} :
          /\ status = IF s.pair \in Quoted THEN "live" ELSE "waiting"
          /\ shown = IF s.pair \in Quoted THEN s.pair ELSE page.live
    OBVIOUS
  <2> DEFINE q == [page EXCEPT !.status = status, !.live = shown]
  <2>4. page.live \in Pairs \cup {NoChain}
    BY <1>1 DEF PageStates
  <2>5. q \in PageStates /\ q.live = shown /\ SameLadder(q, page)
    BY <1>1, <2>2, <2>4 DEF PageStates, SameLadder
  <2>6. LiveFits(q, v)
    BY <1>1, <2>2, <2>3, <2>5 DEF LiveFits
  <2>7. Rendered(q, asks, subs, {})
    BY <2>1, <2>3
  <2>8. QED
    BY <1>1, <1>2, <2>5, <2>6, <2>7
<1>9. CASE Refused
  <2>1. PICK s \in subs : Rendered([page EXCEPT !.status = "error"], asks, Moved(s, "refused"), {})
    BY <1>9 DEF Refused, Renders
  <2>2. Moved(s, "refused") \in SUBSET Subscriptions /\ SubsFit(Moved(s, "refused"), v)
    BY <1>3
  <2>3. QED
    BY <1>2, <1>4, <2>1, <2>2
<1>10. QED
  BY <1>5, <1>6, <1>7, <1>8, <1>9

----------------------------------------------------------------------------
(* Mount runs every effect: there is no view before it, and nothing to fit.      *)
LEMMA MountFits == ASSUME PageInit PROVE PageInvariant
<1>1. PICK link \in Links :
        LET p == Opened(link)
            s == Commit(View([p EXCEPT !.underlying = NoExpiry]), View(p), [page |-> p, asks |-> {}, subs |-> {}])
        IN page = s.page /\ asks = s.asks /\ subs = s.subs /\ lost = {}
  BY DEF PageInit
<1> DEFINE p == Opened(link)
           old == View([p EXCEPT !.underlying = NoExpiry])
           s == [page |-> p, asks |-> {}, subs |-> {}]
           t == Commit(old, View(p), s)
<1>2. p \in PageStates
  BY PageAssumption DEF Opened, PageStates
<1>3. s \in Rendering
  BY <1>2 DEF Rendering
<1>4. p.live = NoChain /\ p.ladder = NoChain /\ p.status = "connecting"
  BY DEF Opened
<1>5. old.expiry = View(p).expiry
  BY DEF View, Opened
<1>6. Fits(s, old, {})
  BY <1>4 DEF Fits, SubsFit, LiveFits, AsksFit, LadderFits
<1>7. View(p) \in Views
  BY <1>2, ViewType
<1>8. /\ t \in Rendering /\ Fits(t, View(p), {}) /\ SameSelection(t.page, p)
      /\ ~Resets(old, View(p)) => View(t.page) = View(p)
      /\ Resets(old, View(p)) => t.page.live = NoChain /\ t.page.status = "connecting"
  BY <1>3, <1>5, <1>6, <1>7, CommitFits
<1>9. View(t.page) = View(p)
  <2>1. CASE Resets(old, View(p))
    BY <1>4, <1>8, <2>1, SameView DEF SameLive
  <2>2. QED
    BY <1>8, <2>1
<1>10. QED
  BY <1>1, <1>8, <1>9 DEF PageInvariant, Rendering, Fits

(* The invariant holds of every behaviour.                                   *)
LEMMA PageInvariantHolds == PageSpec => []PageInvariant
<1>1. PageInit => PageInvariant
  BY MountFits
<1>2. PageInvariant /\ [PageNext]_pageVars => PageInvariant'
  <2>1. SUFFICES ASSUME PageInvariant, [PageNext]_pageVars PROVE PageInvariant'
    OBVIOUS
  <2>2. CASE UNCHANGED pageVars
    <3>1. page' = page /\ asks' = asks /\ subs' = subs /\ lost' = lost
      BY <2>2 DEF pageVars
    <3>2. View(page)' = View(page')
      BY DEF View, Sel, Following, OnLive, Stamp, Stamps, Placed, LiveEdge, Grid, RightEdge
    <3>3. QED
      BY <2>1, <3>1, <3>2 DEF PageInvariant
  <2>3. CASE PageNext
    BY <2>1, <2>3, PicksKeep, AnswersKeep, ReadFailsKeeps, SocketKeeps DEF PageNext, Answers
  <2>4. QED
    BY <2>1, <2>2, <2>3
<1>3. QED
  BY <1>1, <1>2, PTL DEF PageSpec

(* Under whatever the reader does and however late the reads answer, the ladder   *)
(* on screen is of the selected pair and instant: ChainScreen.tsx's request ids,   *)
(* and the reset its subscription effect makes.                              *)
THEOREM TheLadderIsTheSelections == PageSpec => []LadderIsTheSelection
<1>1. PageInvariant => LadderIsTheSelection
  <2>1. SUFFICES ASSUME PageInvariant, page.expiry # NoExpiry PROVE LadderIsTheSelection
    BY DEF LadderIsTheSelection
  <2>2. LiveFits(page, View(page)) /\ LadderFits(page, View(page), lost)
    BY <2>1, WhatFits
  <2>3. /\ View(page).pair = Sel(page) /\ View(page).expiry = page.expiry
        /\ View(page).following = Following(page) /\ View(page).stamp = Stamp(page)
    BY DEF View
  <2>4. QED
    BY <2>1, <2>2, <2>3 DEF LiveFits, LadderFits, LadderIsTheSelection
<1>2. QED
  BY <1>1, PageInvariantHolds, PTL

(* The page never holds two subscriptions, nor one that its selection does not     *)
(* ask for: what subscribeChain's returned function undoes, in lib/live.ts.      *)
THEOREM NoSocketOutlivesItsSelection == PageSpec => []OneSocketWhileFollowing
<1>1. PageInvariant => OneSocketWhileFollowing
  <2>1. SUFFICES ASSUME PageInvariant PROVE OneSocketWhileFollowing
    OBVIOUS
  <2>2. SubsFit(subs, View(page))
    BY <2>1, WhatFits
  <2>3. /\ View(page).pair = Sel(page) /\ View(page).expiry = page.expiry
        /\ View(page).following = Following(page)
    BY DEF View
  <2>4. QED
    BY <2>2, <2>3 DEF SubsFit, OneSocketWhileFollowing
<1>2. QED
  BY <1>1, PageInvariantHolds, PTL

----------------------------------------------------------------------------
(* A set of natural numbers has a least one, and a bounded one a greatest.     *)
LEMMA LeastOf ==
  ASSUME NEW S \in SUBSET Nat, S # {}
  PROVE  Min(S) \in S /\ \A k \in S : Min(S) <= k
<1>1. PICK i \in S : \A j \in S : <<j, i>> \notin OpToRel(<, Nat)
  BY NatLessThanWellFounded, WFMin
<1>2. \A j \in S : ~(j < i)
  BY <1>1 DEF OpToRel
<1>3. \A j \in S : i <= j
  BY <1>2
<1> QED
  BY <1>3 DEF Min

(* The greatest of a finite set of numbers is one of them and bounds them.  *)
LEMMA GreatestOf ==
  ASSUME NEW n \in Nat, NEW S \in SUBSET (0..n), S # {}
  PROVE  Max(S) \in S /\ \A k \in S : k <= Max(S)
<1> DEFINE Above == {m \in Nat : \A k \in S : k <= m}
<1>1. Above \in SUBSET Nat /\ n \in Above
  OBVIOUS
<1>2. Min(Above) \in Above /\ \A m \in Above : Min(Above) <= m
  BY <1>1, LeastOf
<1>3. PICK m \in Nat : m = Min(Above)
  BY <1>2
<1>4. (\A k \in S : k <= m) /\ \A l \in Above : m <= l
  BY <1>2, <1>3
<1>5. m \in S
  <2> SUFFICES ASSUME m \notin S PROVE FALSE
    OBVIOUS
  <2>1. PICK k \in S : TRUE
    OBVIOUS
  <2>2. \A l \in S : l \in Nat /\ l <= m - 1
    BY <1>4
  <2>3. m - 1 \in Nat
    BY <2>1, <2>2
  <2>4. m - 1 \in Above
    BY <2>2, <2>3
  <2> QED
    BY <1>4, <2>4
<1>6. \E j \in S : \A k \in S : j >= k
  BY <1>4, <1>5
<1> QED
  BY <1>6 DEF Max

(* More numbers reach further on both sides.                                 *)
LEMMA MoreReachFurther ==
  ASSUME NEW n \in Nat, NEW T \in SUBSET (0..n), NEW S \in SUBSET T, S # {}
  PROVE  Min(T) <= Min(S) /\ Max(S) <= Max(T) /\ {Min(S), Min(T), Max(S), Max(T)} \subseteq 0..n
<1>1. /\ S \in SUBSET Nat
      /\ T \in SUBSET Nat
      /\ S \in SUBSET (0..n)
      /\ T # {}
  <2>1. \A k \in 0..n : k \in Nat
    OBVIOUS
  <2>2. S \subseteq 0..n /\ T # {}
    OBVIOUS
  <2> QED
    BY <2>1, <2>2
<1>2. Min(S) \in S /\ Min(T) \in T /\ \A k \in T : Min(T) <= k
  BY <1>1, LeastOf
<1>3. Max(S) \in S /\ Max(T) \in T /\ \A k \in T : k <= Max(T)
  BY <1>1, GreatestOf
<1> QED
  BY <1>2, <1>3

(* The greater of two numbers.                                              *)
LEMMA GreaterOfTwo ==
  ASSUME NEW a \in Int, NEW b \in Int
  PROVE  Max({a, b}) = IF a >= b THEN a ELSE b
<1>1. \E m \in {a, b} : \A k \in {a, b} : m >= k
  OBVIOUS
<1>2. Max({a, b}) \in {a, b} /\ \A k \in {a, b} : Max({a, b}) >= k
  BY <1>1 DEF Max
<1> QED
  BY <1>2

(* The lesser of two numbers.                                               *)
LEMMA LesserOfTwo ==
  ASSUME NEW a \in Int, NEW b \in Int
  PROVE  Min({a, b}) = IF a <= b THEN a ELSE b
<1>1. \E m \in {a, b} : \A k \in {a, b} : m <= k
  OBVIOUS
<1>2. Min({a, b}) \in {a, b} /\ \A k \in {a, b} : Min({a, b}) <= k
  BY <1>1 DEF Min
<1> QED
  BY <1>2

----------------------------------------------------------------------------
(* What the chart reads lies behind the minute the store will hold next: bars the *)
(* venue's prices made, and boards it listed.                                  *)
ChartInvariant ==
  /\ minute \in Nat
  /\ DOMAIN spot \subseteq 0..(minute - 1)
  /\ DOMAIN index \subseteq 0..(minute - 1)
  /\ DOMAIN ivs \subseteq 0..(minute - 1)
  /\ \A m \in DOMAIN ivs : ivs[m] \in Boards
  /\ \A m \in DOMAIN spot : spot[m] \in Bars
  /\ \A m \in DOMAIN index : index[m] \in Candles

(* The span of a record only grows with it.                                  *)
LEMMA HistoryGrows ==
  ASSUME NEW n \in Nat, NEW more, DOMAIN more \subseteq 0..n,
         NEW bars, DOMAIN bars \subseteq DOMAIN more
  PROVE  HistoryDays(bars) \in Nat /\ HistoryDays(more) \in Nat /\ HistoryDays(bars) <= HistoryDays(more)
<1>1. IsFiniteSet(0..n)
  BY FS_Interval
<1>2. IsFiniteSet(DOMAIN more)
  BY <1>1, FS_Subset
<1>3. Cardinality(DOMAIN bars) <= Cardinality(DOMAIN more) /\ IsFiniteSet(DOMAIN bars)
  BY <1>2, FS_Subset
<1>4. Cardinality(DOMAIN bars) \in Nat /\ Cardinality(DOMAIN more) \in Nat
  BY <1>2, <1>3, FS_CardinalityType
<1>5. ASSUME NEW S \in SUBSET (0..n), S # {}
      PROVE  Max(S) - Min(S) \in Nat
  <2>1. S \in SUBSET Nat /\ S # {}
    BY <1>5
  <2>2. Min(S) \in S /\ \A k \in S : Min(S) <= k
    BY <2>1, LeastOf
  <2>3. Max(S) \in S
    BY <1>5, GreatestOf
  <2>4. Max(S) \in Nat /\ Min(S) \in Nat /\ Min(S) <= Max(S)
    BY <2>1, <2>2, <2>3
  <2> QED
    BY <2>4
<1>6. Cardinality(DOMAIN bars) >= 2 => DOMAIN bars # {} /\ DOMAIN more # {}
  BY <1>4, FS_EmptySet
<1>7. Cardinality(DOMAIN more) >= 2 => DOMAIN more # {}
  BY <1>4, FS_EmptySet
<1>8. DOMAIN bars # {} =>
        /\ Min(DOMAIN more) <= Min(DOMAIN bars) /\ Max(DOMAIN bars) <= Max(DOMAIN more)
        /\ {Min(DOMAIN bars), Min(DOMAIN more), Max(DOMAIN bars), Max(DOMAIN more)} \subseteq 0..n
  BY MoreReachFurther
<1>9. HistoryDays(bars) \in Nat /\ HistoryDays(more) \in Nat
  BY <1>4, <1>5, <1>6, <1>7 DEF HistoryDays
<1> QED
  BY <1>3, <1>4, <1>6, <1>8, <1>9 DEF HistoryDays

(* A tenor is counted in minutes still to come, up to the last expiry.        *)
LEMMA TenorsAreAhead ==
  ASSUME NEW boards, \A m \in DOMAIN boards : m \in Nat /\ boards[m] \in Boards
  PROVE  ListedTenors(boards) \in SUBSET (1..LastExpiry)
<1>1. MinExpiry \in Nat \ {0} /\ LastExpiry \in Nat
  BY VolatilityAssumption
<1>2. ASSUME NEW m \in DOMAIN boards, NEW e \in DOMAIN boards[m], e - m >= MinExpiry
      PROVE  e - m \in 1..LastExpiry
  <2>1. e \in 0..LastExpiry /\ m \in Nat
    BY <1>2, VolatilityAssumption
  <2> QED
    BY <1>1, <1>2, <2>1
<1> QED
  BY <1>2 DEF ListedTenors

(* A board that stays stored keeps its tenors listed.                        *)
LEMMA TenorsStay ==
  ASSUME NEW boards, NEW later, DOMAIN boards \subseteq DOMAIN later,
         \A m \in DOMAIN boards : later[m] = boards[m]
  PROVE  ListedTenors(boards) \subseteq ListedTenors(later)
BY DEF ListedTenors

(* A usable offer of bounds is still inside the bounds of any record that       *)
(* extends the one it was made from.                                         *)
LEMMA OffersGrow ==
  ASSUME NEW n \in Nat, NEW more, DOMAIN more \subseteq 0..n,
         NEW bars, DOMAIN bars \subseteq DOMAIN more,
         NEW later, \A m \in DOMAIN later : m \in Nat /\ later[m] \in Boards,
         NEW boards, DOMAIN boards \subseteq DOMAIN later, \A m \in DOMAIN boards : later[m] = boards[m],
         NEW interval \in Intervals,
         Usable(LookbackBounds(bars, boards, interval))
  PROVE  /\ LookbackBounds(more, later, interval).min <= LookbackBounds(bars, boards, interval).min
         /\ LookbackBounds(bars, boards, interval).max <= LookbackBounds(more, later, interval).max
<1> DEFINE old == ListedTenors(boards)
           new == ListedTenors(later)
           floor == MinObservations * interval
<1>1. floor \in Nat /\ MinObservations \in Nat /\ interval \in Nat
  BY VolatilityAssumption
<1>2. old # {}
  <2> SUFFICES ASSUME old = {} PROVE FALSE
    OBVIOUS
  <2>1. LookbackBounds(bars, boards, interval) = [min |-> floor, max |-> 0, binding |-> "term_structure"]
    BY DEF LookbackBounds
  <2>2. floor >= 1
    <3>1. MinObservations >= 1 /\ interval >= 1 /\ MinObservations \in Int /\ interval \in Int
      BY VolatilityAssumption
    <3> QED
      BY <3>1
  <2> QED
    BY <1>1, <2>1, <2>2 DEF Usable
<1>3. new \in SUBSET (0..LastExpiry) /\ old \in SUBSET new /\ LastExpiry \in Nat
  <2>1. new \in SUBSET (1..LastExpiry) /\ LastExpiry \in Nat
    BY TenorsAreAhead, VolatilityAssumption
  <2>2. old \subseteq new
    BY TenorsStay
  <2> QED
    BY <2>1, <2>2
<1> HIDE DEF old, new, floor
<1>4. /\ Min(new) <= Min(old)
      /\ Max(old) <= Max(new)
      /\ {Min(old), Min(new), Max(old), Max(new)} \subseteq 0..LastExpiry
  BY <1>2, <1>3, MoreReachFurther
<1>5. new # {}
  BY <1>2, <1>3
<1>6. HistoryDays(bars) \in Nat /\ HistoryDays(more) \in Nat /\ HistoryDays(bars) <= HistoryDays(more)
  BY HistoryGrows
<1>7. /\ LookbackBounds(bars, boards, interval).min = Max({floor, Min(old)})
      /\ LookbackBounds(bars, boards, interval).max = Min({HistoryDays(bars), Max(old)})
  BY <1>2 DEF LookbackBounds, old, floor
<1>8. /\ LookbackBounds(more, later, interval).min = Max({floor, Min(new)})
      /\ LookbackBounds(more, later, interval).max = Min({HistoryDays(more), Max(new)})
  BY <1>5 DEF LookbackBounds, new, floor
<1>9. {Min(old), Min(new), Max(old), Max(new)} \subseteq Int
  BY <1>3, <1>4
<1>10. Max({floor, Min(new)}) <= Max({floor, Min(old)})
  <2>1. Max({floor, Min(new)}) = IF floor >= Min(new) THEN floor ELSE Min(new)
    BY <1>1, <1>9, GreaterOfTwo
  <2>2. Max({floor, Min(old)}) = IF floor >= Min(old) THEN floor ELSE Min(old)
    BY <1>1, <1>9, GreaterOfTwo
  <2> QED
    BY <1>1, <1>4, <1>9, <2>1, <2>2
<1>11. Min({HistoryDays(bars), Max(old)}) <= Min({HistoryDays(more), Max(new)})
  <2>1. Min({HistoryDays(bars), Max(old)}) = IF HistoryDays(bars) <= Max(old) THEN HistoryDays(bars) ELSE Max(old)
    BY <1>6, <1>9, LesserOfTwo
  <2>2. Min({HistoryDays(more), Max(new)}) = IF HistoryDays(more) <= Max(new) THEN HistoryDays(more) ELSE Max(new)
    BY <1>6, <1>9, LesserOfTwo
  <2> QED
    BY <1>4, <1>6, <1>9, <2>1, <2>2
<1> QED
  BY <1>7, <1>8, <1>10, <1>11

(* Storing a minute adds that minute and leaves the others as they are.         *)
LEMMA WithAdds ==
  ASSUME NEW f, NEW x, NEW V
  PROVE  /\ DOMAIN f \subseteq DOMAIN With(f, x, V) /\ DOMAIN With(f, x, V) \subseteq DOMAIN f \cup {x}
         /\ \A y \in DOMAIN f : y # x => With(f, x, V)[y] = f[y]
         /\ \A y \in DOMAIN With(f, x, V) : y \notin DOMAIN f => With(f, x, V)[y] \in V
<1>1. CASE V = {}
  BY <1>1 DEF With
<1>2. CASE V # {}
  <2>1. With(f, x, V) = [y \in DOMAIN f \cup {x} |-> IF y = x THEN CHOOSE v \in V : TRUE ELSE f[y]]
    BY <1>2 DEF With
  <2>2. (CHOOSE v \in V : TRUE) \in V
    BY <1>2
  <2> QED
    BY <2>1, <2>2
<1> QED
  BY <1>1, <1>2

(* A sealed minute and a backfill keep the record behind the clock.            *)
LEMMA ChartStep ==
  ASSUME ChartInvariant, ChartNext
  PROVE  /\ ChartInvariant'
         /\ DOMAIN spot \subseteq DOMAIN spot' /\ DOMAIN ivs \subseteq DOMAIN ivs'
         /\ \A m \in DOMAIN ivs : ivs'[m] = ivs[m]
         /\ index' = index \/ (DOMAIN index = {} /\ DOMAIN index' # {})
<1>1. CASE Seal
  <2>1. PICK row \in Rows : /\ minute' = minute + 1
                            /\ spot' = With(spot, minute, row.bar)
                            /\ ivs' = With(ivs, minute, row.board)
                            /\ index' = index
    BY <1>1 DEF Seal
  <2>2. minute \in Nat /\ minute' = minute + 1 /\ minute' \in Nat
    BY <2>1 DEF ChartInvariant
  <2>3. /\ DOMAIN spot \subseteq DOMAIN spot'
        /\ DOMAIN spot' \subseteq DOMAIN spot \cup {minute}
        /\ \A m \in DOMAIN spot : m # minute => spot'[m] = spot[m]
        /\ \A m \in DOMAIN spot' : m \notin DOMAIN spot => spot'[m] \in row.bar
    BY <2>1, WithAdds
  <2>4. /\ DOMAIN ivs \subseteq DOMAIN ivs'
        /\ DOMAIN ivs' \subseteq DOMAIN ivs \cup {minute}
        /\ \A m \in DOMAIN ivs : m # minute => ivs'[m] = ivs[m]
        /\ \A m \in DOMAIN ivs' : m \notin DOMAIN ivs => ivs'[m] \in row.board
    BY <2>1, WithAdds
  <2>5. ASSUME NEW m \in 0..(minute - 1)
        PROVE  m # minute /\ m \in 0..(minute' - 1)
    BY <2>2
  <2>6. minute \in 0..(minute' - 1)
    BY <2>2
  <2>7. \A m \in DOMAIN ivs : ivs'[m] = ivs[m]
    BY <2>4, <2>5 DEF ChartInvariant
  <2>8. row.board \subseteq Boards /\ row.bar \subseteq Bars
    BY DEF Boards, Bars
  <2>9. ChartInvariant'
    <3>1. DOMAIN spot' \subseteq 0..(minute' - 1)
      BY <2>3, <2>5, <2>6 DEF ChartInvariant
    <3>2. DOMAIN index' \subseteq 0..(minute' - 1)
      BY <2>1, <2>5 DEF ChartInvariant
    <3>3. DOMAIN ivs' \subseteq 0..(minute' - 1)
      BY <2>4, <2>5, <2>6 DEF ChartInvariant
    <3>4. \A m \in DOMAIN ivs' : ivs'[m] \in Boards
      BY <2>4, <2>7, <2>8 DEF ChartInvariant
    <3>5. \A m \in DOMAIN spot' : spot'[m] \in Bars
      BY <2>3, <2>5, <2>8 DEF ChartInvariant
    <3>6. \A m \in DOMAIN index' : index'[m] \in Candles
      BY <2>1 DEF ChartInvariant
    <3> QED
      BY <2>2, <3>1, <3>2, <3>3, <3>4, <3>5, <3>6 DEF ChartInvariant
  <2> QED
    BY <2>1, <2>3, <2>4, <2>7, <2>9
<1>2. CASE Backfill
  <2>1. PICK from \in 0..minute, candle \in Candles :
          /\ from < minute /\ DOMAIN index = {}
          /\ index' = [m \in from..(minute - 1) |-> candle]
          /\ UNCHANGED <<minute, spot, ivs>>
    BY <1>2 DEF Backfill
  <2>2. minute \in Nat /\ from \in Nat
    BY <2>1 DEF ChartInvariant
  <2>3. DOMAIN index' = from..(minute - 1) /\ from \in from..(minute - 1)
    BY <2>1, <2>2
  <2>4. DOMAIN index' \subseteq 0..(minute - 1) /\ \A m \in DOMAIN index' : index'[m] \in Candles
    BY <2>1, <2>2, <2>3
  <2> QED
    BY <2>1, <2>3, <2>4 DEF ChartInvariant
<1> QED
  BY <1>1, <1>2 DEF ChartNext

(* The invariant of the chart always holds.                                 *)
LEMMA ChartInvariantHolds == ChartSpec => []ChartInvariant
<1>1. ChartInit => ChartInvariant
  <2> SUFFICES ASSUME ChartInit PROVE ChartInvariant
    OBVIOUS
  <2>1. minute = 0 /\ spot = <<>> /\ index = <<>> /\ ivs = <<>>
    BY DEF ChartInit
  <2>2. DOMAIN spot = {} /\ DOMAIN index = {} /\ DOMAIN ivs = {}
    BY <2>1
  <2> QED
    BY <2>1, <2>2 DEF ChartInvariant
<1>2. ChartInvariant /\ [ChartNext]_chartVars => ChartInvariant'
  <2> SUFFICES ASSUME ChartInvariant, UNCHANGED chartVars PROVE ChartInvariant'
    BY ChartStep
  <2> QED
    BY DEF ChartInvariant, chartVars
<1> QED
  BY <1>1, <1>2, PTL DEF ChartSpec

(* A lookback the chart's bounds offered is accepted for good: storing minutes   *)
(* widens the bounds, also when a tenor rolls off or a hole is left, and only a  *)
(* backfill, which puts another series in place of the first, may take it back   *)
(* (lookback_bounds, _listed_tenors, _select_realised_series).                 *)
THEOREM AnOfferStands == ChartSpec => OfferStands
<1> DEFINE Stands == (DOMAIN index = {}) = (DOMAIN index' = {}) => \A interval \in Intervals :
             LET later == LookbackBounds(Selected(spot', index'), ivs', interval)
             IN Usable(Offer(interval)) => later.min <= Offer(interval).min /\ Offer(interval).max <= later.max
<1>1. ChartInvariant /\ [ChartNext]_chartVars => [Stands]_chartVars
  <2> SUFFICES ASSUME ChartInvariant, ChartNext, (DOMAIN index = {}) = (DOMAIN index' = {}),
                      NEW interval \in Intervals, Usable(Offer(interval))
               PROVE  /\ LookbackBounds(Selected(spot', index'), ivs', interval).min <= Offer(interval).min
                      /\ Offer(interval).max <= LookbackBounds(Selected(spot', index'), ivs', interval).max
    OBVIOUS
  <2> DEFINE bars == Selected(spot, index)
             more == Selected(spot', index')
  <2>1. /\ DOMAIN spot \subseteq DOMAIN spot' /\ DOMAIN ivs \subseteq DOMAIN ivs'
        /\ \A m \in DOMAIN ivs : ivs'[m] = ivs[m]
        /\ ChartInvariant'
        /\ index' = index
    BY ChartStep
  <2>2. minute' \in Nat /\ \A m \in DOMAIN ivs' : m \in Nat /\ ivs'[m] \in Boards
    BY <2>1 DEF ChartInvariant
  <2>3. DOMAIN more \subseteq 0..minute'
    BY <2>1, <2>2 DEF ChartInvariant, Selected
  <2>4. DOMAIN bars \subseteq DOMAIN more
    BY <2>1 DEF Selected
  <2>5. Offer(interval) = LookbackBounds(bars, ivs, interval)
    BY DEF Offer, Bars1m
  <2> HIDE DEF bars, more
  <2>6. Usable(LookbackBounds(bars, ivs, interval))
    BY <2>5
  <2>7. /\ LookbackBounds(more, ivs', interval).min <= LookbackBounds(bars, ivs, interval).min
        /\ LookbackBounds(bars, ivs, interval).max <= LookbackBounds(more, ivs', interval).max
    BY <2>1, <2>2, <2>3, <2>4, <2>6, OffersGrow
  <2> QED
    BY <2>5, <2>7 DEF more
<1> QED
  BY <1>1, ChartInvariantHolds, PTL DEF ChartSpec, OfferStands

----------------------------------------------------------------------------
(* Quotients, and the arithmetic of a stride.                                 *)
LEMMA Quotient ==
  ASSUME NEW a \in Nat, NEW d \in Nat \ {0}
  PROVE  a \div d \in Nat /\ a % d \in 0..(d - 1) /\ a = d * (a \div d) + (a % d)
OBVIOUS

(* A product grows with its factor.                                         *)
LEMMA Times ==
  ASSUME NEW a \in Nat, NEW b \in Nat, NEW c \in Nat, a <= b
  PROVE  a * c \in Nat /\ b * c \in Nat /\ a * c <= b * c
<1>1. b * c = a * c + (b - a) * c /\ (b - a) \in Nat
  OBVIOUS
<1>2. (b - a) * c \in Nat /\ a * c \in Nat /\ b * c \in Nat
  BY <1>1
<1> QED
  BY <1>1, <1>2

(* The points of a chart cover its span with a stride apart.                   *)
LEMMA StrideCovers ==
  ASSUME NEW span \in Nat, NEW interval \in Nat \ {0}
  PROVE  /\ Stride(span, interval) \in Nat \ {0}
         /\ span < (MaxPoints + 1) * (Stride(span, interval) * interval)
<1> DEFINE q == span \div interval
           steps == IF 1 >= q THEN 1 ELSE q
           top == steps + MaxPoints - 1
           r == top \div MaxPoints
           stride == IF 1 >= r THEN 1 ELSE r
<1>1. MaxPoints \in Nat \ {0}
  BY VolatilityAssumption
<1>2. q \in Nat /\ span % interval < interval /\ span % interval \in Nat /\ span = interval * q + (span % interval)
  BY Quotient
<1> HIDE DEF q
<1>3. steps \in Nat /\ q <= steps /\ 1 <= steps
  BY <1>2
<1> HIDE DEF steps
<1>4. top \in Nat
  BY <1>1, <1>3
<1> HIDE DEF top
<1>5. r \in Nat /\ top % MaxPoints \in 0..(MaxPoints - 1) /\ top = MaxPoints * r + (top % MaxPoints)
  BY <1>1, <1>4, Quotient
<1> HIDE DEF r
<1>6. stride \in Nat \ {0} /\ r <= stride
  BY <1>5
<1> HIDE DEF stride
<1>7. Stride(span, interval) = stride
  <2>1. Max({1, q}) = steps
    BY <1>2, GreaterOfTwo DEF steps
  <2>2. Max({1, r}) = stride
    BY <1>5, GreaterOfTwo DEF stride
  <2> QED
    BY <2>1, <2>2 DEF Stride, q, r, top
<1>8. steps <= MaxPoints * stride
  <2>1. MaxPoints * r \in Nat /\ steps <= MaxPoints * r
    <3>1. MaxPoints * r \in Nat /\ top % MaxPoints <= MaxPoints - 1 /\ top % MaxPoints \in Int
      BY <1>1, <1>5
    <3>2. top = steps + MaxPoints - 1
      BY DEF top
    <3> QED
      BY <1>1, <1>3, <1>5, <3>1, <3>2
  <2>2. r * MaxPoints <= stride * MaxPoints
    BY <1>1, <1>5, <1>6, Times
  <2>3. r * MaxPoints = MaxPoints * r /\ stride * MaxPoints = MaxPoints * stride /\ MaxPoints * stride \in Nat
    BY <1>1, <1>5, <1>6
  <2> QED
    BY <1>3, <2>1, <2>2, <2>3
<1>9. (MaxPoints + 1) * stride \in Nat /\ q + 1 <= (MaxPoints + 1) * stride
  <2>1. (MaxPoints + 1) * stride = MaxPoints * stride + stride /\ MaxPoints * stride \in Nat
    BY <1>1, <1>6
  <2> QED
    BY <1>2, <1>3, <1>6, <1>8, <2>1
<1>10. (q + 1) * interval <= ((MaxPoints + 1) * stride) * interval
  BY <1>2, <1>9, Times
<1>11. span < (q + 1) * interval
  <2>1. (q + 1) * interval = interval * q + interval /\ interval * q \in Nat
    BY <1>2
  <2> QED
    BY <1>2, <2>1
<1>12. ((MaxPoints + 1) * stride) * interval = (MaxPoints + 1) * (stride * interval)
  BY <1>1, <1>6
<1>13. (q + 1) * interval \in Nat /\ (MaxPoints + 1) * (stride * interval) \in Nat
  BY <1>1, <1>2, <1>6
<1> QED
  BY <1>6, <1>7, <1>10, <1>11, <1>12, <1>13

(* Stamps a step apart are as many as steps fit, and one more.                 *)
LEMMA StampsAreFew ==
  ASSUME NEW start \in Nat, NEW end \in Nat, NEW step \in Nat \ {0}, NEW points \in Nat,
         end - start < (points + 1) * step
  PROVE  Cardinality({at \in start..end : (at - start) % step = 0}) <= points + 1
<1> DEFINE Marked == {at \in start..end : (at - start) % step = 0}
           J == {j \in 0..points : start + j * step \in Marked}
           f == [j \in J |-> start + j * step]
<1>1. ASSUME NEW at \in Marked
      PROVE  \E j \in J : start + j * step = at
  <2>1. at - start \in Nat /\ (at - start) % step = 0 /\ at <= end /\ at \in Nat
    OBVIOUS
  <2>2. PICK j \in Nat : j = (at - start) \div step
    BY <2>1, Quotient
  <2>3. at - start = step * j
    <3>1. at - start = step * ((at - start) \div step) + ((at - start) % step)
      BY <2>1, Quotient
    <3>2. step * j \in Nat
      OBVIOUS
    <3> QED
      BY <2>1, <2>2, <3>1, <3>2
  <2>4. step * j = j * step /\ j * step \in Nat /\ (points + 1) * step \in Nat
    OBVIOUS
  <2>5. j * step < (points + 1) * step
    BY <2>1, <2>3, <2>4
  <2>6. ~(points + 1 <= j)
    <3> SUFFICES ASSUME points + 1 <= j PROVE FALSE
      OBVIOUS
    <3>1. (points + 1) * step <= j * step
      BY Times
    <3> QED
      BY <2>4, <2>5, <3>1
  <2>7. j \in 0..points
    BY <2>6
  <2>8. start + j * step = at
    BY <2>1, <2>3, <2>4
  <2> QED
    BY <2>7, <2>8
<1>2. f \in Surjection(J, Marked)
  BY <1>1 DEF Surjection
<1>3. IsFiniteSet(0..points) /\ Cardinality(0..points) = points + 1
  BY FS_Interval
<1>4. J \in SUBSET (0..points)
  OBVIOUS
<1>5. IsFiniteSet(J) /\ Cardinality(J) <= points + 1
  BY <1>3, <1>4, FS_Subset
<1>6. IsFiniteSet(Marked) /\ Cardinality(Marked) <= Cardinality(J)
  BY <1>2, <1>5, FS_Surjection
<1>7. Cardinality(J) \in Nat /\ Cardinality(Marked) \in Nat
  BY <1>5, <1>6, FS_CardinalityType
<1> QED
  BY <1>5, <1>6, <1>7

----------------------------------------------------------------------------
(* What an accepted lookback has behind it: observations enough, and a record   *)
(* that spans it.                                                           *)
LEMMA AnOfferHasARecord ==
  ASSUME ChartInvariant, NEW interval \in Intervals, Usable(Offer(interval)),
         NEW lookback \in Offer(interval).min..Offer(interval).max
  PROVE  /\ lookback \in Nat /\ MinObservations * interval <= lookback
         /\ DOMAIN Bars1m # {}
         /\ DOMAIN Bars1m \in SUBSET (0..minute)
         /\ {Min(DOMAIN Bars1m), Max(DOMAIN Bars1m)} \subseteq Nat
         /\ lookback <= Max(DOMAIN Bars1m) - Min(DOMAIN Bars1m)
<1> DEFINE tenors == ListedTenors(ivs)
           floor == MinObservations * interval
           D == DOMAIN Bars1m
<1>1. floor \in Nat /\ 1 <= floor
  <2>1. MinObservations >= 1 /\ interval >= 1 /\ MinObservations \in Nat /\ interval \in Nat
    BY VolatilityAssumption
  <2> QED
    BY <2>1
<1>2. minute \in Nat /\ D \in SUBSET (0..minute)
  <2>1. minute \in Nat /\ \A m \in 0..(minute - 1) : m \in 0..minute
    BY DEF ChartInvariant
  <2>2. D = DOMAIN spot \/ D = DOMAIN index
    BY DEF Bars1m, Selected
  <2> QED
    BY <2>1, <2>2 DEF ChartInvariant
<1>3. HistoryDays(Bars1m) \in Nat
  BY <1>2, HistoryGrows
<1>4. tenors \in SUBSET (0..LastExpiry) /\ LastExpiry \in Nat
  <2>1. \A m \in DOMAIN ivs : m \in Nat /\ ivs[m] \in Boards
    BY DEF ChartInvariant
  <2>2. tenors \in SUBSET (1..LastExpiry) /\ LastExpiry \in Nat
    BY <2>1, TenorsAreAhead, VolatilityAssumption
  <2> QED
    BY <2>2
<1> HIDE DEF tenors, floor, D
<1>5. tenors # {}
  <2> SUFFICES ASSUME tenors = {} PROVE FALSE
    OBVIOUS
  <2>1. Offer(interval) = [min |-> floor, max |-> 0, binding |-> "term_structure"]
    BY DEF Offer, LookbackBounds, tenors, floor
  <2> QED
    BY <1>1, <2>1 DEF Usable
<1>6. /\ Offer(interval).min = Max({floor, Min(tenors)})
      /\ Offer(interval).max = Min({HistoryDays(Bars1m), Max(tenors)})
  BY <1>5 DEF Offer, LookbackBounds, tenors, floor
<1>7. Min(tenors) \in Nat /\ Max(tenors) \in Nat
  <2>1. tenors \in SUBSET tenors
    OBVIOUS
  <2>2. {Min(tenors), Max(tenors)} \subseteq 0..LastExpiry
    BY <1>4, <1>5, <2>1, MoreReachFurther
  <2> QED
    BY <1>4, <2>2
<1>8. Offer(interval).min \in Nat /\ floor <= Offer(interval).min
  BY <1>1, <1>6, <1>7, GreaterOfTwo
<1>9. Offer(interval).max \in Nat /\ Offer(interval).max <= HistoryDays(Bars1m)
  BY <1>3, <1>6, <1>7, LesserOfTwo
<1>10. lookback \in Nat /\ floor <= lookback /\ lookback <= HistoryDays(Bars1m)
  BY <1>1, <1>3, <1>8, <1>9
<1>11. HistoryDays(Bars1m) # 0
  BY <1>1, <1>3, <1>10
<1>12. ~(Cardinality(D) < 2) /\ HistoryDays(Bars1m) = Max(D) - Min(D)
  BY <1>11 DEF HistoryDays, D
<1>13. D # {}
  BY <1>12, FS_EmptySet
<1>14. {Min(D), Max(D)} \subseteq Nat
  <2>1. D \in SUBSET D
    OBVIOUS
  <2>2. {Min(D), Max(D)} \subseteq 0..minute
    BY <1>2, <1>13, <2>1, MoreReachFurther
  <2> QED
    BY <1>2, <2>2
<1> QED
  BY <1>2, <1>10, <1>12, <1>13, <1>14 DEF D, floor

(* The record a window is read from ends where the stored minutes end.          *)
LEMMA BucketsEndInTheRecord ==
  ASSUME NEW n \in Nat, NEW bars, DOMAIN bars \in SUBSET (0..n), NEW interval \in Nat \ {0},
         DOMAIN bars # {}
  PROVE  /\ DOMAIN Resample(bars, interval) # {}
         /\ Max(DOMAIN Resample(bars, interval)) \in Nat
         /\ Max(DOMAIN Resample(bars, interval)) <= Max(DOMAIN bars)
<1> DEFINE D == DOMAIN bars
           R == DOMAIN Resample(bars, interval)
<1>1. R = {interval * (m \div interval) : m \in D}
  BY DEF Resample, BucketOf
<1>2. Max(D) \in D /\ \A m \in D : m <= Max(D)
  BY GreatestOf
<1>3. ASSUME NEW m \in D
      PROVE  interval * (m \div interval) \in Nat /\ interval * (m \div interval) <= m /\ m \in Nat /\ m <= n
  <2>1. m \in Nat /\ m <= n
    OBVIOUS
  <2>2. m \div interval \in Nat /\ m % interval \in 0..(interval - 1) /\ m = interval * (m \div interval) + (m % interval)
    BY <2>1, Quotient
  <2>3. interval * (m \div interval) \in Nat
    BY <2>2
  <2> QED
    BY <2>1, <2>2, <2>3
<1> HIDE DEF D, R
<1>4. R \in SUBSET (0..n)
  BY <1>1, <1>3
<1>5. R # {}
  BY <1>1, <1>2
<1>6. Max(R) \in R
  BY <1>4, <1>5, GreatestOf
<1>7. PICK m \in D : Max(R) = interval * (m \div interval)
  BY <1>1, <1>6
<1>8. m <= Max(D) /\ Max(D) \in Nat /\ m \in Nat
  BY <1>2, <1>3
<1>9. Max(R) \in Nat /\ Max(R) <= Max(D)
  BY <1>3, <1>7, <1>8
<1> QED
  BY <1>5, <1>9 DEF R, D

(* A chart of an accepted lookback.                                           *)
LEMMA Charted ==
  ASSUME ChartInvariant, NEW interval \in Intervals, NEW alignment \in {"contemporaneous", "lag"},
         Usable(Offer(interval)), NEW lookback \in Offer(interval).min..Offer(interval).max
  PROVE  LET chart == Get(Bars1m, ivs, interval, lookback, alignment)
             bars == Resample(Bars1m, interval)
             figures == Realised(bars, "parkinson", interval, lookback, chart.stamps, alignment)
         IN /\ chart.refusal = "" /\ chart.stamps # {}
            /\ interval \in ValidIntervals(lookback)
            /\ Cardinality(chart.stamps) <= MaxPoints + 1
            /\ \A at \in chart.stamps :
                 /\ alignment = "contemporaneous" => at - lookback >= Min(DOMAIN Bars1m)
                 /\ alignment = "lag" /\ at + lookback > Max(DOMAIN Bars1m) => figures[at].value = NoValue
<1> DEFINE D == DOMAIN Bars1m
           start == Begin(Bars1m, lookback, alignment)
           end == Max(D)
           step == Stride(end - start, interval) * interval
           Marked == {at \in start..end : (at - start) % step = 0}
           chart == Get(Bars1m, ivs, interval, lookback, alignment)
           bars == Resample(Bars1m, interval)
           figures == Realised(bars, "parkinson", interval, lookback, chart.stamps, alignment)
<1>1. interval \in Nat \ {0} /\ MinObservations \in Nat \ {0} /\ MaxPoints \in Nat \ {0}
  BY VolatilityAssumption
<1>2. /\ lookback \in Nat /\ MinObservations * interval <= lookback
      /\ D # {} /\ D \in SUBSET (0..minute)
      /\ {Min(D), Max(D)} \subseteq Nat
      /\ lookback <= Max(D) - Min(D)
  BY AnOfferHasARecord
<1>3. /\ start = Min(D) \/ start = Min(D) + lookback
      /\ alignment = "contemporaneous" => start = Min(D) + lookback
  BY <1>2 DEF Begin
<1> HIDE DEF start, D
<1>4. start \in Nat /\ end \in Nat /\ end - start \in Nat
  BY <1>2, <1>3
<1>5. Stride(end - start, interval) \in Nat \ {0} /\ end - start < (MaxPoints + 1) * step
  BY <1>1, <1>4, StrideCovers
<1>6. step \in Nat \ {0}
  BY <1>1, <1>5
<1>7. chart = [refusal |-> "", stamps |-> Marked]
  <2>1. Usable(LookbackBounds(Bars1m, ivs, interval))
    BY DEF Offer
  <2>2. lookback \in LookbackBounds(Bars1m, ivs, interval).min..LookbackBounds(Bars1m, ivs, interval).max
    BY DEF Offer
  <2>3. DOMAIN Bars1m # {} /\ ~(start > end)
    BY <1>2, <1>4 DEF D
  <2> QED
    BY <2>1, <2>2, <2>3 DEF Get, start, D
<1> HIDE DEF step, chart
<1>8. start \in Marked
  <2>1. start \in start..end /\ start - start = 0
    BY <1>4
  <2>2. 0 % step = 0
    BY <1>6
  <2> QED
    BY <2>1, <2>2
<1>9. Cardinality(Marked) <= MaxPoints + 1
  <2>1. MaxPoints \in Nat /\ end - start < (MaxPoints + 1) * step
    BY <1>1, <1>5 DEF step
  <2> HIDE DEF end
  <2> QED
    BY <1>4, <1>6, <2>1, StampsAreFew
<1>10. interval \in ValidIntervals(lookback)
  BY <1>1, <1>2 DEF ValidIntervals
<1>11. ASSUME NEW at \in Marked
       PROVE  /\ alignment = "contemporaneous" => at - lookback >= Min(D)
              /\ alignment = "lag" /\ at + lookback > Max(D) => figures[at].value = NoValue
  <2>1. at \in Nat /\ start <= at
    BY <1>4
  <2>2. alignment = "contemporaneous" => at - lookback >= Min(D)
    BY <1>2, <1>3, <2>1
  <2>3. ASSUME alignment = "lag", at + lookback > Max(D)
        PROVE  figures[at].value = NoValue
    <3>1. Max(DOMAIN bars) \in Nat /\ Max(DOMAIN bars) <= Max(D)
      <4>1. minute \in Nat
        BY DEF ChartInvariant
      <4> QED
        BY <1>1, <1>2, <4>1, BucketsEndInTheRecord DEF D
    <3>2. ~(at + lookback <= Max(DOMAIN bars))
      BY <1>2, <2>1, <2>3, <3>1
    <3>3. ~Answered(bars, at + lookback)
      BY <3>2 DEF Answered
    <3>4. at \in chart.stamps
      BY <1>7
    <3>5. figures[at] = Unmeasured(0)
      BY <2>3, <3>3, <3>4 DEF Realised
    <3> QED
      BY <3>5 DEF Unmeasured
  <2> QED
    BY <2>2, <2>3
<1>12. chart.refusal = "" /\ chart.stamps = Marked
  BY <1>7
<1> HIDE DEF Marked, figures
<1>13. /\ chart.refusal = "" /\ chart.stamps # {}
       /\ interval \in ValidIntervals(lookback)
       /\ Cardinality(chart.stamps) <= MaxPoints + 1
       /\ \A at \in chart.stamps :
            /\ alignment = "contemporaneous" => at - lookback >= Min(D)
            /\ alignment = "lag" /\ at + lookback > Max(D) => figures[at].value = NoValue
  BY <1>8, <1>9, <1>10, <1>11, <1>12
<1> QED
  BY <1>13 DEF chart, figures, D

(* A lookback the bounds route offers is charted by the series route: it is not   *)
(* refused, the record holds its window from the first contemporaneous point on,   *)
(* a lag point is left open until all of its window has happened, and the chart    *)
(* keeps to its ceiling of points, whatever holes the record has                  *)
(* (lookback_bounds, valid_intervals, volatility_series).                       *)
THEOREM AcceptedAreCharted == ChartSpec => []AcceptedIsCharted
<1>1. ChartInvariant => AcceptedIsCharted
  <2> SUFFICES ASSUME ChartInvariant, NEW interval \in Intervals,
                      NEW alignment \in {"contemporaneous", "lag"}, Usable(Offer(interval)),
                      NEW lookback \in Offer(interval).min..Offer(interval).max
               PROVE  LET chart == Get(Bars1m, ivs, interval, lookback, alignment)
                          bars == Resample(Bars1m, interval)
                          figures == Realised(bars, "parkinson", interval, lookback, chart.stamps, alignment)
                      IN /\ chart.refusal = "" /\ chart.stamps # {}
                         /\ interval \in ValidIntervals(lookback)
                         /\ Cardinality(chart.stamps) <= MaxPoints + 1
                         /\ \A at \in chart.stamps :
                              /\ alignment = "contemporaneous" => at - lookback >= Min(DOMAIN Bars1m)
                              /\ alignment = "lag" /\ at + lookback > Max(DOMAIN Bars1m)
                                   => figures[at].value = NoValue
    BY DEF AcceptedIsCharted
  <2> QED
    BY Charted
<1> QED
  BY <1>1, ChartInvariantHolds, PTL

----------------------------------------------------------------------------
(* The level of one smile is a number, and one.                               *)
LEMMA OneLevel ==
  ASSUME NEW board \in Boards, NEW e \in DOMAIN board
  PROVE  \E level \in Int : AtmForOneExpiry(board[e]) \subseteq {level}
<1> DEFINE chain == board[e]
           below == {k \in DOMAIN chain.smile : k <= chain.forward}
           above == {k \in DOMAIN chain.smile : k >= chain.forward}
           lower == Max(below)
           upper == Min(above)
<1>1. /\ chain.forward \in Nat /\ DOMAIN chain.smile \subseteq Nat
      /\ \A k \in DOMAIN chain.smile : chain.smile[k] \in Nat
  BY VolatilityAssumption
<1>2. below \in SUBSET (0..chain.forward) /\ above \in SUBSET Nat
  BY <1>1
<1> HIDE DEF chain
<1>3. CASE below = {} \/ above = {}
  BY <1>3 DEF AtmForOneExpiry, chain
<1>4. CASE below # {} /\ above # {}
  <2>1. lower \in below
    BY <1>1, <1>2, <1>4, GreatestOf
  <2>2. upper \in above
    BY <1>2, <1>4, LeastOf
  <2>6. /\ lower \in DOMAIN chain.smile /\ lower <= chain.forward
        /\ upper \in DOMAIN chain.smile /\ chain.forward <= upper
    <3> HIDE DEF lower, upper
    <3> QED
      BY <1>1, <2>1, <2>2
  <2>3. /\ lower \in Nat /\ upper \in Nat /\ lower <= upper
        /\ chain.smile[lower] \in Nat /\ chain.smile[upper] \in Nat
    <3> HIDE DEF lower, upper, below, above
    <3> QED
      BY <1>1, <2>6
  <2>4. CASE lower = upper
    <3>1. AtmForOneExpiry(board[e]) = {chain.smile[lower]}
      BY <1>4, <2>4 DEF AtmForOneExpiry, chain
    <3> QED
      BY <2>3, <3>1, SMTT(30)
  <2>5. CASE lower # upper
    <3>1. AtmForOneExpiry(board[e]) =
            {chain.smile[lower] + ((chain.forward - lower) * (chain.smile[upper] - chain.smile[lower]))
                                    \div (upper - lower)}
      BY <1>4, <2>5 DEF AtmForOneExpiry, chain
    <3> DEFINE rise == (chain.forward - lower) * (chain.smile[upper] - chain.smile[lower])
    <3>2. rise \in Int /\ upper - lower \in Nat \ {0}
      BY <1>1, <2>3, <2>5
    <3> HIDE DEF rise
    <3>3. chain.smile[lower] + rise \div (upper - lower) \in Int
      BY <2>3, <3>2
    <3> QED
      BY <3>1, <3>3 DEF rise
  <2> QED
    BY <2>4, <2>5
<1> QED
  BY <1>3, <1>4

(* A point of the term structure lies ahead, and each day has one.             *)
LEMMA PointsAreAhead ==
  ASSUME NEW board \in Boards, NEW at \in Nat
  PROVE  /\ \A p \in TermStructure(board, at) :
              p = <<p[1], p[2]>> /\ p[1] \in 1..LastExpiry /\ p[2] \in Int
         /\ \A p, q \in TermStructure(board, at) : p[1] = q[1] => p = q
<1>1. ASSUME NEW p \in TermStructure(board, at)
      PROVE  \E e \in DOMAIN board : \E level \in AtmForOneExpiry(board[e]) :
               e - at >= MinExpiry /\ p = <<e - at, level>>
  BY DEF TermStructure
<1>2. ASSUME NEW e \in DOMAIN board, e - at >= MinExpiry
      PROVE  e \in Nat /\ e - at \in 1..LastExpiry
  <2>1. e \in 0..LastExpiry /\ LastExpiry \in Nat /\ MinExpiry \in Nat \ {0}
    BY VolatilityAssumption
  <2> QED
    BY <1>2, <2>1
<1>3. ASSUME NEW p \in TermStructure(board, at)
      PROVE  p = <<p[1], p[2]>> /\ p[1] \in 1..LastExpiry /\ p[2] \in Int
  <2>1. PICK e \in DOMAIN board : \E level \in AtmForOneExpiry(board[e]) :
          e - at >= MinExpiry /\ p = <<e - at, level>>
    BY <1>1
  <2>0. PICK level \in AtmForOneExpiry(board[e]) : e - at >= MinExpiry /\ p = <<e - at, level>>
    BY <2>1
  <2>2. e - at \in 1..LastExpiry
    BY <1>2, <2>0
  <2>3. level \in Int
    BY <2>0, OneLevel
  <2> QED
    BY <2>0, <2>2, <2>3
<1>4. ASSUME NEW p \in TermStructure(board, at), NEW q \in TermStructure(board, at), p[1] = q[1]
      PROVE  p = q
  <2>1. PICK e \in DOMAIN board : \E level \in AtmForOneExpiry(board[e]) :
          e - at >= MinExpiry /\ p = <<e - at, level>>
    BY <1>1
  <2>0. PICK level \in AtmForOneExpiry(board[e]) : e - at >= MinExpiry /\ p = <<e - at, level>>
    BY <2>1
  <2>2. PICK f \in DOMAIN board : \E other \in AtmForOneExpiry(board[f]) :
          f - at >= MinExpiry /\ q = <<f - at, other>>
    BY <1>1
  <2>5. PICK other \in AtmForOneExpiry(board[f]) : f - at >= MinExpiry /\ q = <<f - at, other>>
    BY <2>2
  <2>3. e = f
    BY <1>2, <1>4, <2>0, <2>5
  <2>4. level = other
    BY <2>0, <2>3, <2>5, OneLevel
  <2> QED
    BY <2>0, <2>3, <2>4, <2>5
<1> QED
  BY <1>3, <1>4

(* A line between two values stays between them.                              *)
LEMMA LinesStayBetween ==
  ASSUME NEW a \in Int, NEW b \in Int, NEW t \in Int, a <= t, t <= b, NEW u \in Int, NEW v \in Int
  PROVE  LET total == u * (b - a) + (t - a) * (v - u)
         IN  /\ total \in Int
             /\ Min({u, v}) * (b - a) <= total
             /\ total <= Max({u, v}) * (b - a)
<1>1. t - a \in Nat /\ b - a \in Nat /\ t - a <= b - a
  OBVIOUS
<1>2. CASE u <= v
  <2>1. v - u \in Nat
    BY <1>2
  <2>2. /\ (t - a) * (v - u) \in Nat /\ (b - a) * (v - u) \in Nat
        /\ (t - a) * (v - u) <= (b - a) * (v - u)
    BY <1>1, <2>1, Times
  <2>3. v * (b - a) = u * (b - a) + (b - a) * (v - u) /\ u * (b - a) \in Int /\ v * (b - a) \in Int
    OBVIOUS
  <2>4. Min({u, v}) = u /\ Max({u, v}) = v
    BY <1>2, GreaterOfTwo, LesserOfTwo
  <2> QED
    BY <2>2, <2>3, <2>4
<1>3. CASE v < u
  <2>1. u - v \in Nat
    BY <1>3
  <2>2. /\ (t - a) * (u - v) \in Nat /\ (b - a) * (u - v) \in Nat
        /\ (t - a) * (u - v) <= (b - a) * (u - v)
    BY <1>1, <2>1, Times
  <2>3. /\ v * (b - a) = u * (b - a) - (b - a) * (u - v) /\ u * (b - a) \in Int /\ v * (b - a) \in Int
        /\ (t - a) * (v - u) = -((t - a) * (u - v))
    OBVIOUS
  <2>4. Min({u, v}) = v /\ Max({u, v}) = u
    BY <1>3, GreaterOfTwo, LesserOfTwo
  <2> QED
    BY <2>2, <2>3, <2>4
<1> QED
  BY <1>2, <1>3

(* The listed points next to a tenor.                                         *)
LEMMA NeighboursExist ==
  ASSUME NEW S, \A p \in S : p[1] \in 1..LastExpiry, S # {}
  PROVE  /\ \E p \in S : \A q \in S : q[1] <= p[1]
         /\ \E p \in S : \A q \in S : p[1] <= q[1]
<1> DEFINE days == {p[1] : p \in S}
<1>1. LastExpiry \in Nat
  BY VolatilityAssumption
<1>2. days \in SUBSET (0..LastExpiry) /\ days # {}
  BY <1>1
<1>3. days \in SUBSET Nat
  BY <1>1
<1>4. \A p \in S : p[1] \in days
  OBVIOUS
<1>5. Max(days) \in days /\ \A k \in days : k <= Max(days)
  <2> HIDE DEF days
  <2> QED
    BY <1>1, <1>2, GreatestOf
<1>6. Min(days) \in days /\ \A k \in days : Min(days) <= k
  <2> HIDE DEF days
  <2> QED
    BY <1>2, <1>3, LeastOf
<1>7. PICK p \in S : p[1] = Max(days)
  BY <1>5
<1>8. PICK q \in S : q[1] = Min(days)
  BY <1>6
<1> HIDE DEF days
<1> QED
  BY <1>4, <1>5, <1>6, <1>7, <1>8

(* The total variance of a point of the term structure.                      *)
Variance(p) == p[2] * p[2] * p[1]

(* A volatility over a tenor lies between its two neighbours, and a tenor that is *)
(* listed is answered with its own level.                                      *)
Interpolates(value, points, tenor) ==
  /\ value # NoValue => \E near, far \in points :
       /\ near[1] <= tenor /\ tenor <= far[1]
       /\ \A p \in points : p[1] <= near[1] \/ far[1] <= p[1]
       /\ Min({Variance(near), Variance(far)}) * value[2] <= value[1]
       /\ value[1] <= Max({Variance(near), Variance(far)}) * value[2]
  /\ \A p \in points : p[1] = tenor => value # NoValue /\ value[1] = Variance(p) * value[2]

(* What atm_iv answers does.                                                *)
LEMMA AtmIvInterpolates ==
  ASSUME NEW board \in Boards, NEW at \in Nat, NEW tenor \in Nat \ {0}
  PROVE  Interpolates(AtmIv(board, at, tenor), TermStructure(board, at), tenor)
<1> DEFINE points == TermStructure(board, at)
           value == AtmIv(board, at, tenor)
           below == {p \in points : p[1] <= tenor}
           above == {p \in points : p[1] >= tenor}
           near == CHOOSE p \in below : \A q \in below : q[1] <= p[1]
           far == CHOOSE p \in above : \A q \in above : p[1] <= q[1]
           total == Variance(near) * (far[1] - near[1]) + (tenor - near[1]) * (Variance(far) - Variance(near))
<1>1. /\ \A p \in points : p[1] \in 1..LastExpiry /\ p[2] \in Int
      /\ \A p, q \in points : p[1] = q[1] => p = q
  BY PointsAreAhead
<1>2. value = IF below = {} \/ above = {} THEN NoValue
              ELSE IF near = far THEN <<near[2] * near[2] * tenor, 1>>
              ELSE IF total <= 0 \/ tenor <= 0 THEN NoValue
              ELSE <<total, far[1] - near[1]>>
  BY Zenon DEF AtmIv, Variance
<1> SUFFICES Interpolates(value, points, tenor)
  OBVIOUS
<1> USE DEF Interpolates
<1> HIDE DEF points, value
<1>3. CASE below = {} \/ above = {}
  <2>1. value = NoValue
    BY <1>2, <1>3
  <2>2. \A p \in points : p[1] # tenor
    <3> SUFFICES ASSUME NEW p \in points, p[1] = tenor PROVE FALSE
      OBVIOUS
    <3>1. p \in below /\ p \in above
      OBVIOUS
    <3> QED
      BY <1>3, <3>1
  <2> HIDE DEF below, above
  <2> QED
    BY <2>1, <2>2
<1>4. CASE below # {} /\ above # {}
  <2>1. near \in below /\ \A q \in below : q[1] <= near[1]
    <3>1. \E p \in below : \A q \in below : q[1] <= p[1]
      BY <1>1, <1>4, NeighboursExist
    <3> HIDE DEF below
    <3> QED
      BY <3>1
  <2>2. far \in above /\ \A q \in above : far[1] <= q[1]
    <3>1. \E p \in above : \A q \in above : p[1] <= q[1]
      BY <1>1, <1>4, NeighboursExist
    <3> HIDE DEF above
    <3> QED
      BY <3>1
  <2> HIDE DEF near, far
  <2>3. /\ near \in points /\ far \in points
        /\ near[1] \in Nat /\ far[1] \in Nat /\ near[1] <= tenor /\ tenor <= far[1]
        /\ near[2] \in Int /\ far[2] \in Int
        /\ LastExpiry \in Nat
    BY <1>1, <2>1, <2>2, VolatilityAssumption
  <2>4. \A p \in points : p[1] <= near[1] \/ far[1] <= p[1]
    BY <1>1, <2>1, <2>2, <2>3
  <2>5. ASSUME NEW p \in points, p[1] = tenor
        PROVE  near = p /\ far = p
    <3>1. p \in below /\ p \in above
      BY <2>5
    <3>2. near[1] = tenor /\ far[1] = tenor
      BY <2>1, <2>2, <2>3, <2>5, <3>1
    <3> QED
      BY <1>1, <2>3, <2>5, <3>2
  <2>6. Variance(near) \in Int /\ Variance(far) \in Int
    BY <2>3 DEF Variance
  <2>7. CASE near = far
    <3>1. near[1] = tenor
      BY <2>3, <2>7
    <3>2. value = <<Variance(near), 1>>
      BY <1>2, <1>4, <2>7, <3>1 DEF Variance
    <3>3. Min({Variance(near), Variance(far)}) = Variance(near) /\ Max({Variance(near), Variance(far)}) = Variance(near)
      BY <2>6, <2>7, GreaterOfTwo, LesserOfTwo
    <3>4. value # NoValue /\ value[1] = Variance(near) /\ value[2] = 1
      BY <3>2 DEF NoValue
    <3>5. /\ Min({Variance(near), Variance(far)}) * value[2] <= value[1]
          /\ value[1] <= Max({Variance(near), Variance(far)}) * value[2]
      BY <2>6, <3>3, <3>4
    <3>6. \A p \in points : p[1] = tenor => value # NoValue /\ value[1] = Variance(p) * value[2]
      BY <2>5, <2>6, <3>4
    <3> QED
      BY <2>3, <2>4, <3>5, <3>6
  <2>8. CASE near # far
    <3>3. \A p \in points : p[1] # tenor
      BY <2>5, <2>8
    <3>1. CASE total <= 0 \/ tenor <= 0
      <4>1. value = NoValue
        BY <1>2, <1>4, <2>8, <3>1
      <4> QED
        BY <3>3, <4>1
    <3>2. CASE ~(total <= 0 \/ tenor <= 0)
      <4>1. value = <<total, far[1] - near[1]>>
        BY <1>2, <1>4, <2>8, <3>2
      <4>2. /\ Min({Variance(near), Variance(far)}) * (far[1] - near[1]) <= total
            /\ total <= Max({Variance(near), Variance(far)}) * (far[1] - near[1])
        <5>1. /\ near[1] \in Int /\ far[1] \in Int /\ tenor \in Int
              /\ near[1] <= tenor /\ tenor <= far[1]
          BY <2>3
        <5> QED
          BY <2>6, <5>1, LinesStayBetween
      <4>3. value[1] = total /\ value[2] = far[1] - near[1]
        BY <4>1
      <4> HIDE DEF total
      <4>4. /\ Min({Variance(near), Variance(far)}) * value[2] <= value[1]
            /\ value[1] <= Max({Variance(near), Variance(far)}) * value[2]
        BY <4>2, <4>3
      <4> QED
        BY <2>3, <2>4, <3>3, <4>4
    <3> QED
      BY <3>1, <3>2
  <2> QED
    BY <2>7, <2>8
<1> QED
  BY <1>3, <1>4 DEF points, value

(* The minute an implied figure is read from is the newest one at or before its *)
(* stamp, and no older than the tolerance.                                    *)
LEMMA ReadsTheNewest ==
  ASSUME ChartInvariant, NEW interval \in Nat \ {0}, NEW at \in 0..minute, NEW tenor
  PROVE  LET sources == {m \in DOMAIN ivs : m <= at /\ at <= m + interval /\ \A n \in DOMAIN ivs : n <= m \/ at < n}
         IN  IF sources = {} THEN Implied(at, interval, tenor) = NoValue
             ELSE \E m \in Nat : sources = {m} /\ m \in DOMAIN ivs /\ Implied(at, interval, tenor) = AtmIv(ivs[m], m, tenor)
<1> DEFINE R == Readable(at, interval)
           sources == {m \in DOMAIN ivs : m <= at /\ at <= m + interval /\ \A n \in DOMAIN ivs : n <= m \/ at < n}
<1>1. minute \in Nat /\ at \in Nat /\ \A m \in DOMAIN ivs : m \in Nat
  BY DEF ChartInvariant
<1>2. R = {m \in DOMAIN ivs : m <= at /\ at - m <= interval}
  BY DEF Readable
<1>3. R \in SUBSET (0..at)
  BY <1>1, <1>2
<1>4. Max({interval, 1}) = interval
  BY GreaterOfTwo
<1>5. Implied(at, interval, tenor) =
        LET found == IF R = {} THEN {} ELSE {Max(R)}
        IN IF found = {} THEN NoValue ELSE AtmIv(ivs[Max(found)], Max(found), tenor)
  BY <1>4 DEF Implied, ImpliedAt
<1> HIDE DEF R
<1>6. CASE R = {}
  <2>1. sources = {}
    BY <1>1, <1>2, <1>6
  <2> QED
    BY <1>5, <1>6, <2>1
<1>7. CASE R # {}
  <2> DEFINE m == Max(R)
  <2>1. m \in R /\ \A k \in R : k <= m
    BY <1>1, <1>3, <1>7, GreatestOf
  <2>2. m \in Nat
    <3> HIDE DEF m
    <3> QED
      BY <1>1, <1>3, <2>1
  <2>3. Max({m}) = m
    <3>1. {m} \in SUBSET (0..at) /\ {m} # {}
      BY <1>3, <2>1
    <3>2. Max({m}) \in {m}
      BY <1>1, <3>1, GreatestOf
    <3> QED
      BY <3>2
  <2>4. Implied(at, interval, tenor) = AtmIv(ivs[m], m, tenor)
    BY <1>5, <1>7, <2>3
  <2> HIDE DEF m
  <2>5. sources = {m}
    <3>1. m \in sources
      BY <1>1, <1>2, <2>1, <2>2
    <3>2. ASSUME NEW k \in sources PROVE k = m
      BY <1>1, <1>2, <2>1, <2>2
    <3> QED
      BY <3>1, <3>2
  <2> QED
    BY <1>2, <2>1, <2>2, <2>4, <2>5
<1> QED
  BY <1>6, <1>7

(* The half of the chart that is read off the boards.                          *)
LEMMA ImpliedHolds == ASSUME ChartInvariant PROVE ImpliedIsCurrent
<1> SUFFICES ASSUME NEW interval \in Intervals, NEW at \in 0..minute, NEW tenor \in 1..(minute + MinExpiry)
    PROVE  LET value == Implied(at, interval, tenor)
               sources == {m \in DOMAIN ivs : m <= at /\ at <= m + interval /\ \A n \in DOMAIN ivs : n <= m \/ at < n}
               points(m) == TermStructure(ivs[m], m)
           IN /\ value # NoValue => \E m \in sources : \E near, far \in points(m) :
                   /\ near[1] <= tenor /\ tenor <= far[1]
                   /\ \A p \in points(m) : p[1] <= near[1] \/ far[1] <= p[1]
                   /\ Min({Variance(near), Variance(far)}) * value[2] <= value[1]
                   /\ value[1] <= Max({Variance(near), Variance(far)}) * value[2]
              /\ \A m \in sources : \A p \in points(m) :
                   p[1] = tenor => value # NoValue /\ value[1] = Variance(p) * value[2]
  BY DEF ImpliedIsCurrent, Variance
<1> DEFINE sources == {m \in DOMAIN ivs : m <= at /\ at <= m + interval /\ \A n \in DOMAIN ivs : n <= m \/ at < n}
           value == Implied(at, interval, tenor)
<1>1. interval \in Nat \ {0} /\ tenor \in Nat \ {0}
  BY VolatilityAssumption DEF ChartInvariant
<1>2. IF sources = {} THEN value = NoValue
      ELSE \E m \in Nat : sources = {m} /\ m \in DOMAIN ivs /\ value = AtmIv(ivs[m], m, tenor)
  BY <1>1, ReadsTheNewest
<1> HIDE DEF sources, value
<1>3. (value # NoValue => sources # {}) /\ \A m \in sources : Interpolates(value, TermStructure(ivs[m], m), tenor)
  <2>1. CASE sources = {}
    BY <1>2, <2>1
  <2>2. CASE sources # {}
    <3>1. PICK m \in Nat : sources = {m} /\ m \in DOMAIN ivs /\ value = AtmIv(ivs[m], m, tenor)
      BY <1>2, <2>2
    <3>2. ivs[m] \in Boards
      BY <3>1 DEF ChartInvariant
    <3>3. Interpolates(AtmIv(ivs[m], m, tenor), TermStructure(ivs[m], m), tenor)
      BY <1>1, <3>1, <3>2, AtmIvInterpolates
    <3> QED
      BY <3>1, <3>3
  <2> QED
    BY <2>1, <2>2
<1> QED
  BY <1>3, Zenon DEF sources, value, Interpolates

(* The sums of the prefixes of any sequence of numbers exist.                 *)
LEMMA PrefixSumsExist ==
  ASSUME NEW values \in Seq(Int), NEW k \in 0..Len(values)
  PROVE  \E f \in [0..k -> Int] : f = [i \in 0..k |-> IF i = 0 THEN 0 ELSE f[i - 1] + values[i]]
<1> DEFINE Summed(j) == \E f \in [0..j -> Int] : f = [i \in 0..j |-> IF i = 0 THEN 0 ELSE f[i - 1] + values[i]]
           Bad == {j \in 0..Len(values) : ~Summed(j)}
<1>1. Len(values) \in Nat /\ \A i \in 1..Len(values) : values[i] \in Int
  OBVIOUS
<1>2. ASSUME Bad # {} PROVE FALSE
  <2>1. Bad \in SUBSET Nat
    BY <1>1
  <2>2. Min(Bad) \in Bad /\ \A j \in Bad : Min(Bad) <= j
    <3> HIDE DEF Bad
    <3> QED
      BY <1>2, <2>1, LeastOf
  <2>3. PICK j \in Nat : j \in Bad /\ \A i \in Bad : j <= i
    BY <2>1, <2>2
  <2>4. j # 0
    <3>1. SUFFICES Summed(0)
      BY <2>3
    <3>2. [i \in 0..0 |-> 0] \in [0..0 -> Int] /\ [i \in 0..0 |-> 0] = [i \in 0..0 |-> IF i = 0 THEN 0 ELSE [l \in 0..0 |-> 0][i - 1] + values[i]]
      OBVIOUS
    <3> QED
      BY <3>2
  <2>5. j - 1 \in 0..Len(values) /\ j - 1 \notin Bad /\ j \in 1..Len(values)
    <3> HIDE DEF Summed
    <3> QED
      BY <1>1, <2>3, <2>4
  <2>6. PICK f \in [0..(j - 1) -> Int] : f = [i \in 0..(j - 1) |-> IF i = 0 THEN 0 ELSE f[i - 1] + values[i]]
    BY <2>5
  <2> DEFINE g == [i \in 0..j |-> IF i = j THEN f[j - 1] + values[j] ELSE f[i]]
  <2>7. g \in [0..j -> Int]
    <3>1. f[j - 1] + values[j] \in Int
      BY <1>1, <2>4, <2>5
    <3>2. \A i \in 0..j : i # j => f[i] \in Int
      BY <2>4
    <3> QED
      BY <3>1, <3>2
  <2>8. \A i \in 0..j : g[i] = IF i = 0 THEN 0 ELSE g[i - 1] + values[i]
    <3> TAKE i \in 0..j
    <3>1. CASE i = j
      BY <2>4, <2>3, <3>1
    <3>2. CASE i # j
      <4>1. i \in 0..(j - 1) /\ (i # 0 => i - 1 \in 0..(j - 1) /\ i - 1 \in 0..j /\ i - 1 # j)
        BY <2>3, <3>2
      <4>2. f[i] = IF i = 0 THEN 0 ELSE f[i - 1] + values[i]
        BY <2>6, <4>1
      <4> QED
        BY <3>2, <4>1, <4>2
    <3> QED
      BY <3>1, <3>2
  <2>9. g = [i \in 0..j |-> IF i = 0 THEN 0 ELSE g[i - 1] + values[i]]
    <3>1. DOMAIN g = 0..j
      OBVIOUS
    <3> HIDE DEF g
    <3> QED
      BY <2>7, <2>8
  <2>10. Summed(j)
    <3> HIDE DEF g
    <3> QED
      BY <2>7, <2>9
  <2> QED
    BY <2>3, <2>10
<1>3. Summed(k)
  BY <1>2
<1> QED
  BY <1>3

(* They start with nothing, and each adds the next number.                    *)
LEMMA PrefixSumsAdd ==
  ASSUME NEW values \in Seq(Int)
  PROVE  /\ PrefixSums(values)[0] = 0
         /\ \A i \in 0..Len(values) : PrefixSums(values)[i] \in Int
         /\ \A i \in 1..Len(values) : PrefixSums(values)[i] = PrefixSums(values)[i - 1] + values[i]
<1>1. PrefixSums(values) = CHOOSE f : f = [i \in 0..Len(values) |-> IF i = 0 THEN 0 ELSE f[i - 1] + values[i]]
  BY DEF PrefixSums
<1>2. Len(values) \in Nat /\ Len(values) \in 0..Len(values) /\ 0 \in 0..Len(values)
  OBVIOUS
<1>3. \E f \in [0..Len(values) -> Int] : f = [i \in 0..Len(values) |-> IF i = 0 THEN 0 ELSE f[i - 1] + values[i]]
  BY <1>2, PrefixSumsExist
<1> DEFINE sums == PrefixSums(values)
<1>4. sums = [i \in 0..Len(values) |-> IF i = 0 THEN 0 ELSE sums[i - 1] + values[i]]
  BY <1>1, <1>3
<1> HIDE DEF sums
<1>5. sums[0] = 0 /\ \A i \in 1..Len(values) : sums[i] = sums[i - 1] + values[i]
  <2>1. \A i \in 0..Len(values) : sums[i] = IF i = 0 THEN 0 ELSE sums[i - 1] + values[i]
    BY <1>4
  <2> QED
    BY <1>2, <2>1
<1> DEFINE Bad == {i \in 0..Len(values) : sums[i] \notin Int}
<1>6. ASSUME Bad # {} PROVE FALSE
  <2>1. Bad \in SUBSET Nat
    BY <1>2
  <2>2. Min(Bad) \in Bad /\ \A j \in Bad : Min(Bad) <= j
    <3> HIDE DEF Bad
    <3> QED
      BY <1>6, <2>1, LeastOf
  <2>3. PICK j \in Nat : j \in Bad /\ \A i \in Bad : j <= i
    BY <2>1, <2>2
  <2>4. j # 0
    BY <1>5, <2>3
  <2>5. j - 1 \in 0..Len(values) /\ j - 1 \notin Bad /\ j \in 1..Len(values)
    BY <1>2, <2>3, <2>4
  <2>6. sums[j] = sums[j - 1] + values[j] /\ sums[j - 1] \in Int /\ values[j] \in Int
    BY <1>5, <2>5
  <2> QED
    BY <2>3, <2>6
<1> QED
  BY <1>5, <1>6 DEF sums

----------------------------------------------------------------------------
(* What is counted before a number: nothing at first, then one for each member. *)
Earlier(S, x) == Cardinality({y \in S : y < x})
(* Stamps of a record of n minutes.                                          *)
Stamped(S, n) == n \in Nat /\ S \in SUBSET (0..n)

(* What is earlier than a number is a count, and one more past each stamp.   *)
LEMMA EarlierCounts ==
  ASSUME NEW n, NEW S, Stamped(S, n), NEW x \in Int
  PROVE  /\ Earlier(S, x) \in Nat
         /\ Earlier(S, x) <= Cardinality(S) /\ Cardinality(S) \in Nat
         /\ Earlier(S, x + 1) = IF x \in S THEN Earlier(S, x) + 1 ELSE Earlier(S, x)
<1>0. n \in Nat /\ S \in SUBSET (0..n)
  BY DEF Stamped
<1> USE <1>0
<1>1. IsFiniteSet(S)
  <2>1. IsFiniteSet(0..n)
    BY FS_Interval
  <2> QED
    BY <2>1, FS_Subset
<1>7. \A y \in S : y \in Int
  OBVIOUS
<1>2. ASSUME NEW T \in SUBSET S
      PROVE  IsFiniteSet(T) /\ Cardinality(T) \in Nat /\ Cardinality(T) <= Cardinality(S)
  BY <1>1, FS_Subset, FS_CardinalityType
<1>3. Earlier(S, x) \in Nat /\ Earlier(S, x) <= Cardinality(S)
  BY <1>2 DEF Earlier
<1>4. Cardinality(S) \in Nat
  BY <1>2
<1>6. Earlier(S, x + 1) = IF x \in S THEN Earlier(S, x) + 1 ELSE Earlier(S, x)
  <2>1. CASE x \notin S
    <3>1. {y \in S : y < x + 1} = {y \in S : y < x}
      <4>1. ASSUME NEW y \in S PROVE y < x + 1 <=> y < x
        BY <1>7, <2>1
      <4> QED
        BY <4>1
    <3> QED
      BY <2>1, <3>1 DEF Earlier
  <2>2. CASE x \in S
    <3>1. {y \in S : y < x + 1} = {y \in S : y < x} \cup {x} /\ x \notin {y \in S : y < x}
      <4>1. ASSUME NEW y \in S PROVE y < x + 1 <=> (y < x \/ y = x)
        BY <1>7
      <4>2. ~(x < x)
        OBVIOUS
      <4> QED
        BY <2>2, <4>1, <4>2
    <3>2. IsFiniteSet({y \in S : y < x})
      BY <1>2
    <3>3. Cardinality({y \in S : y < x} \cup {x}) = Cardinality({y \in S : y < x}) + 1
      BY <3>1, <3>2, FS_AddElement
    <3> QED
      BY <2>2, <3>1, <3>3 DEF Earlier
  <2> QED
    BY <2>1, <2>2
<1> QED
  BY <1>3, <1>4, <1>6

(* A later stamp has no fewer before it.                                      *)
LEMMA LaterHasMoreBefore ==
  ASSUME NEW n, NEW S, Stamped(S, n), NEW w \in Int, NEW x \in Int, w <= x
  PROVE  Earlier(S, w) <= Earlier(S, x)
<1>0. n \in Nat /\ S \in SUBSET (0..n)
  BY DEF Stamped
<1> USE <1>0
<1>1. ASSUME NEW y \in S, y < w PROVE y < x
  <2>1. y \in Int
    OBVIOUS
  <2> QED
    BY <1>1, <2>1
<1>2. {y \in S : y < w} \subseteq {y \in S : y < x}
  BY <1>1
<1>3. IsFiniteSet(0..n)
  BY FS_Interval
<1>4. IsFiniteSet({y \in S : y < x})
  BY <1>3, FS_Subset
<1> QED
  BY <1>2, <1>4, FS_Subset DEF Earlier

(* Outside the members, all of them or none.                                  *)
LEMMA EarlierAtTheEnds ==
  ASSUME NEW S, NEW x
  PROVE  /\ (\A y \in S : y < x) => Earlier(S, x) = Cardinality(S)
         /\ (\A y \in S : ~(y < x)) => Earlier(S, x) = 0
<1>1. ASSUME \A y \in S : y < x PROVE {y \in S : y < x} = S
  BY <1>1
<1>2. ASSUME \A y \in S : ~(y < x) PROVE {y \in S : y < x} = {}
  BY <1>2
<1> QED
  BY <1>1, <1>2, FS_EmptySet DEF Earlier

(* The numbers of a set in order: each at the place the earlier ones leave it.  *)
LEMMA OrderedByRank ==
  ASSUME NEW n, NEW S, Stamped(S, n)
  PROVE  /\ DOMAIN InOrder(S) = 1..Cardinality(S)
         /\ \A i \in 1..Cardinality(S) : InOrder(S)[i] \in S /\ Earlier(S, InOrder(S)[i]) = i - 1
         /\ \A x \in S : Earlier(S, x) + 1 \in 1..Cardinality(S) /\ InOrder(S)[Earlier(S, x) + 1] = x
<1>0. n \in Nat /\ S \in SUBSET (0..n)
  BY DEF Stamped
<1> USE <1>0
<1>1. /\ Cardinality(S) \in Nat
      /\ \A x \in S : x \in Nat /\ x <= n
      /\ \A x \in Int : Earlier(S, x) \in Nat /\ Earlier(S, x) <= Cardinality(S)
      /\ \A x \in Int : Earlier(S, x + 1) = IF x \in S THEN Earlier(S, x) + 1 ELSE Earlier(S, x)
      /\ \A x, w \in Int : w <= x => Earlier(S, w) <= Earlier(S, x)
  <2>1. \A x \in S : x \in Nat /\ x <= n
    OBVIOUS
  <2>2. Cardinality(S) \in Nat
    <3>1. 0 \in Int
      OBVIOUS
    <3> QED
      BY <3>1, EarlierCounts
  <2>3. ASSUME NEW x \in Int
        PROVE  /\ Earlier(S, x) \in Nat /\ Earlier(S, x) <= Cardinality(S)
               /\ Earlier(S, x + 1) = IF x \in S THEN Earlier(S, x) + 1 ELSE Earlier(S, x)
    BY EarlierCounts
  <2>4. ASSUME NEW x \in Int, NEW w \in Int, w <= x PROVE Earlier(S, w) <= Earlier(S, x)
    BY <2>4, LaterHasMoreBefore
  <2> QED
    BY <2>1, <2>2, <2>3, <2>4
<1>2. InOrder(S) = [i \in 1..Cardinality(S) |-> CHOOSE x \in S : Earlier(S, x) = i - 1]
  BY DEF InOrder, Earlier
<1>3. ASSUME NEW x \in S, NEW y \in S, Earlier(S, x) = Earlier(S, y)
      PROVE  x = y
  <2>1. ASSUME NEW v \in S, NEW w \in S, v < w
        PROVE  Earlier(S, v) < Earlier(S, w)
    <3>1. v \in Int /\ w \in Int /\ v + 1 \in Int /\ v + 1 <= w
      BY <1>1, <2>1
    <3>2. Earlier(S, v + 1) = Earlier(S, v) + 1 /\ Earlier(S, v + 1) <= Earlier(S, w)
      BY <1>1, <3>1
    <3> QED
      BY <1>1, <3>1, <3>2
  <2>2. x \in Int /\ y \in Int /\ Earlier(S, x) \in Int
    BY <1>1
  <2> QED
    BY <1>3, <2>1, <2>2
<1>4. ASSUME NEW i \in 1..Cardinality(S)
      PROVE  \E x \in S : Earlier(S, x) = i - 1
  <2> DEFINE Reached == {x \in 0..(n + 1) : i <= Earlier(S, x)}
  <2>1. n + 1 \in Reached
    <3>1. \A y \in S : y < n + 1
      BY <1>1
    <3>2. Earlier(S, n + 1) = Cardinality(S)
      BY <3>1, EarlierAtTheEnds
    <3> QED
      BY <1>1, <3>2
  <2>2. Reached \in SUBSET Nat /\ Reached # {}
    BY <2>1
  <2>3. Min(Reached) \in Reached /\ \A x \in Reached : Min(Reached) <= x
    <3> HIDE DEF Reached
    <3> QED
      BY <2>2, LeastOf
  <2>4. PICK x \in Nat : x \in Reached /\ \A w \in Reached : x <= w
    BY <2>2, <2>3
  <2>5. x # 0
    <3>1. \A y \in S : ~(y < 0)
      BY <1>1
    <3>2. Earlier(S, 0) = 0
      BY <3>1, EarlierAtTheEnds
    <3> QED
      BY <1>1, <2>4, <3>2
  <2>6. x - 1 \in Nat /\ x - 1 \in 0..(n + 1) /\ x - 1 \notin Reached
    BY <2>4, <2>5
  <2>7. Earlier(S, x - 1) < i /\ i <= Earlier(S, x) /\ Earlier(S, x - 1) \in Nat
    BY <1>1, <2>4, <2>6
  <2>8. Earlier(S, x) = IF x - 1 \in S THEN Earlier(S, x - 1) + 1 ELSE Earlier(S, x - 1)
    <3>1. (x - 1) + 1 = x /\ x - 1 \in Int
      BY <2>4
    <3> QED
      BY <1>1, <3>1
  <2>9. x - 1 \in S /\ Earlier(S, x - 1) = i - 1
    BY <2>7, <2>8
  <2> QED
    BY <2>9
<1>5. ASSUME NEW i \in 1..Cardinality(S)
      PROVE  InOrder(S)[i] \in S /\ Earlier(S, InOrder(S)[i]) = i - 1
  BY <1>2, <1>4
<1>6. ASSUME NEW x \in S
      PROVE  Earlier(S, x) + 1 \in 1..Cardinality(S) /\ InOrder(S)[Earlier(S, x) + 1] = x
  <2>1. x \in Int /\ Earlier(S, x) \in Nat
    BY <1>1
  <2>2. Earlier(S, x + 1) = Earlier(S, x) + 1 /\ Earlier(S, x + 1) <= Cardinality(S)
    BY <1>1, <2>1
  <2>3. Earlier(S, x) + 1 \in 1..Cardinality(S)
    BY <1>1, <2>1, <2>2
  <2>4. /\ InOrder(S)[Earlier(S, x) + 1] \in S
        /\ Earlier(S, InOrder(S)[Earlier(S, x) + 1]) = (Earlier(S, x) + 1) - 1
    BY <1>5, <2>3
  <2>5. Earlier(S, InOrder(S)[Earlier(S, x) + 1]) = Earlier(S, x)
    BY <2>1, <2>4
  <2> QED
    BY <1>3, <2>3, <2>4, <2>5
<1> QED
  BY <1>2, <1>5, <1>6

(* A bisection counts what is before its stamp.                               *)
LEMMA BisectionsCount ==
  ASSUME NEW n, NEW S, Stamped(S, n), NEW x \in Int
  PROVE  BisectLeft(InOrder(S), x) = Earlier(S, x) /\ BisectRight(InOrder(S), x) = Earlier(S, x + 1)
<1>0. n \in Nat /\ S \in SUBSET (0..n)
  BY DEF Stamped
<1> USE <1>0
<1>1. /\ Cardinality(S) \in Nat
      /\ \A w \in S : w \in Nat /\ w <= n
      /\ \A w \in Int : Earlier(S, w) \in Nat /\ Earlier(S, w) <= Cardinality(S)
      /\ \A w \in Int : Earlier(S, w + 1) = IF w \in S THEN Earlier(S, w) + 1 ELSE Earlier(S, w)
      /\ \A v, w \in Int : w <= v => Earlier(S, w) <= Earlier(S, v)
  <2>1. \A w \in S : w \in Nat /\ w <= n
    OBVIOUS
  <2>2. Cardinality(S) \in Nat
    BY EarlierCounts
  <2>3. ASSUME NEW v \in Int
        PROVE  /\ Earlier(S, v) \in Nat /\ Earlier(S, v) <= Cardinality(S)
               /\ Earlier(S, v + 1) = IF v \in S THEN Earlier(S, v) + 1 ELSE Earlier(S, v)
    BY EarlierCounts
  <2>4. ASSUME NEW v \in Int, NEW w \in Int, w <= v PROVE Earlier(S, w) <= Earlier(S, v)
    BY <2>4, LaterHasMoreBefore
  <2> QED
    BY <2>1, <2>2, <2>3, <2>4
<1>2. /\ DOMAIN InOrder(S) = 1..Cardinality(S)
      /\ \A i \in 1..Cardinality(S) : InOrder(S)[i] \in S /\ Earlier(S, InOrder(S)[i]) = i - 1
  BY OrderedByRank
<1>3. ASSUME NEW i \in 1..Cardinality(S), NEW v \in Int
      PROVE  InOrder(S)[i] < v <=> i \in 1..Earlier(S, v)
  <2>1. PICK y \in S : y = InOrder(S)[i]
    BY <1>2
  <2>2. y \in Int /\ y + 1 \in Int /\ Earlier(S, y) = i - 1 /\ Earlier(S, y + 1) = i
    <3>1. y \in Int /\ Earlier(S, y) = i - 1
      <4>1. Earlier(S, InOrder(S)[i]) = i - 1
        BY <1>2
      <4>2. y \in Int
        BY <1>1
      <4> QED
        BY <2>1, <4>1, <4>2
    <3>2. Earlier(S, y + 1) = Earlier(S, y) + 1
      BY <1>1, <3>1
    <3> QED
      BY <3>1, <3>2
  <2>3. y < v => i <= Earlier(S, v)
    BY <1>1, <2>2
  <2>4. ~(y < v) => Earlier(S, v) <= i - 1
    BY <1>1, <2>2
  <2>5. Earlier(S, v) \in Nat
    BY <1>1
  <2> QED
    BY <2>1, <2>3, <2>4, <2>5
<1>4. ASSUME NEW v \in Int
      PROVE  Cardinality({i \in 1..Cardinality(S) : InOrder(S)[i] < v}) = Earlier(S, v)
  <2>1. Earlier(S, v) \in Nat /\ Earlier(S, v) <= Cardinality(S)
    BY <1>1
  <2>2. {i \in 1..Cardinality(S) : InOrder(S)[i] < v} = 1..Earlier(S, v)
    <3>1. ASSUME NEW i \in 1..Earlier(S, v) PROVE i \in 1..Cardinality(S)
      BY <1>1, <2>1
    <3>2. \A i \in 1..Cardinality(S) : InOrder(S)[i] < v <=> i \in 1..Earlier(S, v)
      BY <1>3
    <3> QED
      BY <3>1, <3>2
  <2>3. Cardinality(1..Earlier(S, v)) = Earlier(S, v)
    BY <2>1, FS_Interval
  <2> QED
    BY <2>2, <2>3
<1>5. BisectLeft(InOrder(S), x) = Earlier(S, x)
  BY <1>2, <1>4 DEF BisectLeft
<1>6. BisectRight(InOrder(S), x) = Earlier(S, x + 1)
  <2>1. \A i \in 1..Cardinality(S) : InOrder(S)[i] <= x <=> InOrder(S)[i] < x + 1
    <3> TAKE i \in 1..Cardinality(S)
    <3>1. PICK y \in S : y = InOrder(S)[i]
      BY <1>2
    <3>2. y \in Int
      BY <1>1
    <3> QED
      BY <3>1, <3>2
  <2>2. {i \in 1..Cardinality(S) : InOrder(S)[i] <= x} = {i \in 1..Cardinality(S) : InOrder(S)[i] < x + 1}
    BY <2>1
  <2> QED
    BY <1>2, <1>4, <2>2 DEF BisectRight
<1> QED
  BY <1>5, <1>6

----------------------------------------------------------------------------
(* Two series that take the same steps gain the same.                          *)
LEMMA SameSteps ==
  ASSUME NEW a \in Int, NEW b \in Int, a <= b, NEW g, NEW h,
         \A x \in a..b : g[x] \in Int /\ h[x] \in Int,
         \A x \in a..(b - 1) : g[x + 1] - g[x] = h[x + 1] - h[x]
  PROVE  g[b] - g[a] = h[b] - h[a]
<1> DEFINE Bad == {k \in 0..(b - a) : g[a + k] - g[a] # h[a + k] - h[a]}
<1>1. b - a \in Nat /\ a + (b - a) = b /\ a \in a..b
  OBVIOUS
<1>2. ASSUME Bad # {} PROVE FALSE
  <2>1. Bad \in SUBSET Nat
    BY <1>1
  <2>2. Min(Bad) \in Bad /\ \A j \in Bad : Min(Bad) <= j
    <3> HIDE DEF Bad
    <3> QED
      BY <1>2, <2>1, LeastOf
  <2>3. PICK j \in Nat : j \in Bad /\ \A i \in Bad : j <= i
    BY <2>1, <2>2
  <2>4. j # 0
    <3>1. a + 0 = a
      OBVIOUS
    <3>2. g[a + 0] - g[a] = h[a + 0] - h[a]
      BY <1>1, <3>1
    <3> QED
      BY <2>3, <3>2
  <2>5. j - 1 \in 0..(b - a) /\ j - 1 \notin Bad
    <3>1. j \in 0..(b - a)
      BY <2>3
    <3> HIDE DEF Bad
    <3> QED
      BY <1>1, <2>3, <2>4, <3>1
  <2>6. g[a + (j - 1)] - g[a] = h[a + (j - 1)] - h[a]
    BY <2>5
  <2> DEFINE x == a + (j - 1)
  <2>7. x \in a..(b - 1) /\ x \in a..b /\ x + 1 \in a..b /\ x + 1 = a + j
    BY <1>1, <2>3, <2>4, <2>5
  <2>8. g[a + j] - g[a] # h[a + j] - h[a]
    BY <2>3
  <2>9. g[x] - g[a] = h[x] - h[a]
    BY <2>6
  <2> HIDE DEF x, Bad
  <2>10. g[x + 1] - g[x] = h[x + 1] - h[x]
    BY <2>7
  <2>11. g[x + 1] - g[a] # h[x + 1] - h[a]
    BY <2>7, <2>8
  <2>12. {g[x], h[x], g[x + 1], h[x + 1], g[a], h[a]} \subseteq Int
    BY <1>1, <2>7
  <2> QED
    BY <2>9, <2>10, <2>11, <2>12
<1>3. b - a \in 0..(b - a)
  BY <1>1
<1>4. g[a + (b - a)] - g[a] = h[a + (b - a)] - h[a]
  BY <1>2, <1>3
<1> QED
  BY <1>1, <1>4

(* The values of a record in order, and the sum of those before a stamp.       *)
Recorded(obs, S, n) == Stamped(S, n) /\ obs \in [S -> Int]
SumBefore(obs, x) == PrefixSums(Values(obs))[Earlier(DOMAIN obs, x)]

(* The values of a record, at the places their stamps have.                  *)
LEMMA ValuesInOrder ==
  ASSUME NEW n, NEW S, NEW obs, Recorded(obs, S, n)
  PROVE  /\ Values(obs) \in Seq(Int) /\ Len(Values(obs)) = Cardinality(S) /\ Cardinality(S) \in Nat
         /\ Values(obs) = [i \in 1..Cardinality(S) |-> obs[InOrder(S)[i]]]
<1>0. Stamped(S, n) /\ obs \in [S -> Int] /\ DOMAIN obs = S
  BY DEF Recorded
<1> USE <1>0
<1>1. Cardinality(S) \in Nat
  <2>1. 0 \in Int
    OBVIOUS
  <2> QED
    BY <2>1, EarlierCounts
<1>2. DOMAIN InOrder(S) = 1..Cardinality(S) /\ \A i \in 1..Cardinality(S) : InOrder(S)[i] \in S
  BY OrderedByRank
<1>3. Values(obs) = [i \in 1..Cardinality(S) |-> obs[InOrder(S)[i]]]
  BY <1>2 DEF Values
<1>4. Values(obs) \in [1..Cardinality(S) -> Int]
  BY <1>2, <1>3
<1> HIDE DEF Values
<1>5. Values(obs) \in Seq(Int) /\ Len(Values(obs)) = Cardinality(S)
  BY <1>1, <1>4
<1> QED
  BY <1>1, <1>3, <1>5

(* The sum of what is earlier starts with nothing and takes in each stamp.   *)
LEMMA SumsGrow ==
  ASSUME NEW n, NEW S, NEW obs, Recorded(obs, S, n), NEW x \in Int
  PROVE  /\ SumBefore(obs, x) \in Int
         /\ SumBefore(obs, x + 1) = IF x \in S THEN SumBefore(obs, x) + obs[x] ELSE SumBefore(obs, x)
<1>0. Stamped(S, n) /\ obs \in [S -> Int] /\ DOMAIN obs = S
  BY DEF Recorded
<1> USE <1>0
<1> DEFINE values == Values(obs)
           sums == PrefixSums(values)
           size == Cardinality(S)
           rank == Earlier(S, x)
<1>1. values \in Seq(Int) /\ Len(values) = size /\ size \in Nat /\ values = [i \in 1..size |-> obs[InOrder(S)[i]]]
  BY ValuesInOrder
<1>2. /\ \A i \in 0..size : sums[i] \in Int
      /\ \A i \in 1..size : sums[i] = sums[i - 1] + values[i]
  <2> HIDE DEF values
  <2>1. /\ \A i \in 0..Len(values) : sums[i] \in Int
        /\ \A i \in 1..Len(values) : sums[i] = sums[i - 1] + values[i]
    BY <1>1, PrefixSumsAdd
  <2> QED
    BY <1>1, <2>1
<1>3. /\ rank \in 0..size
      /\ Earlier(S, x + 1) = IF x \in S THEN rank + 1 ELSE rank
  <2>1. /\ rank \in Nat /\ rank <= size /\ size \in Nat
        /\ Earlier(S, x + 1) = IF x \in S THEN rank + 1 ELSE rank
    BY EarlierCounts
  <2> HIDE DEF rank, size
  <2> QED
    BY <2>1
<1>4. x \in S => rank + 1 \in 1..size /\ InOrder(S)[rank + 1] = x
  BY OrderedByRank
<1>5. SumBefore(obs, x) = sums[rank] /\ SumBefore(obs, x + 1) = sums[Earlier(S, x + 1)]
  BY DEF SumBefore
<1> HIDE DEF sums, rank, size
<1>6. CASE x \in S
  <2>1. values[rank + 1] = obs[x]
    BY <1>1, <1>4, <1>6
  <2> HIDE DEF values
  <2>2. (rank + 1) - 1 = rank
    BY <1>1, <1>3
  <2>3. sums[rank + 1] = sums[(rank + 1) - 1] + values[rank + 1]
    BY <1>2, <1>4, <1>6
  <2> QED
    BY <1>2, <1>3, <1>5, <1>6, <2>1, <2>2, <2>3
<1>7. CASE x \notin S
  BY <1>2, <1>3, <1>5, <1>7
<1> QED
  BY <1>6, <1>7

(* A window holds as many stamps as lie between its ends.                      *)
LEMMA WindowsCount ==
  ASSUME NEW n, NEW S, Stamped(S, n), NEW lo \in Int, NEW hi \in Int, lo <= hi
  PROVE  /\ Cardinality(S \cap (lo..(hi - 1))) = Earlier(S, hi) - Earlier(S, lo)
         /\ Stamped(S \cap (lo..(hi - 1)), n)
<1> DEFINE T == S \cap (lo..(hi - 1))
<1>1. Stamped(T, n)
  BY DEF Stamped
<1>2. \A x \in lo..(hi - 1) : x \in T <=> x \in S
  OBVIOUS
<1>3. \A y \in T : y < hi /\ ~(y < lo)
  OBVIOUS
<1> HIDE DEF T
<1>4. Cardinality(T) \in Nat
  <2>1. 0 \in Int
    OBVIOUS
  <2> QED
    BY <1>1, <2>1, EarlierCounts
<1>5. Earlier(T, hi) = Cardinality(T) /\ Earlier(T, lo) = 0
  BY <1>3, EarlierAtTheEnds
<1>6. Earlier(T, hi) - Earlier(T, lo) = Earlier(S, hi) - Earlier(S, lo)
  <2> DEFINE g == [x \in Int |-> Earlier(T, x)]
             h == [x \in Int |-> Earlier(S, x)]
  <2>1. ASSUME NEW x \in Int PROVE g[x] \in Int /\ h[x] \in Int
    BY <1>1, EarlierCounts
  <2>2. ASSUME NEW x \in lo..(hi - 1) PROVE g[x + 1] - g[x] = h[x + 1] - h[x]
    <3>0. x \in Int /\ x + 1 \in Int
      OBVIOUS
    <3>1. Earlier(T, x + 1) = (IF x \in T THEN Earlier(T, x) + 1 ELSE Earlier(T, x)) /\ Earlier(T, x) \in Int
      BY <1>1, <3>0, EarlierCounts
    <3>2. Earlier(S, x + 1) = (IF x \in S THEN Earlier(S, x) + 1 ELSE Earlier(S, x)) /\ Earlier(S, x) \in Int
      BY <3>0, EarlierCounts
    <3>3. x \in T <=> x \in S
      BY <1>2
    <3> QED
      BY <3>0, <3>1, <3>2, <3>3
  <2>3. g[lo] = Earlier(T, lo) /\ g[hi] = Earlier(T, hi) /\ h[lo] = Earlier(S, lo) /\ h[hi] = Earlier(S, hi)
    OBVIOUS
  <2> HIDE DEF g, h
  <2>4. \A x \in lo..hi : g[x] \in Int /\ h[x] \in Int
    BY <2>1
  <2>5. g[hi] - g[lo] = h[hi] - h[lo]
    BY <2>2, <2>4, SameSteps
  <2> QED
    BY <2>3, <2>5
<1>7. Earlier(S, hi) \in Int /\ Earlier(S, lo) \in Int
  BY EarlierCounts
<1> QED
  BY <1>1, <1>4, <1>5, <1>6, <1>7 DEF T

(* What a window of a record holds is the difference of what is before its ends. *)
Cut(obs, S, lo, last) == [m \in S \cap (lo..last) |-> obs[m]]

(* The total of a window is what is earlier at its end less at its start.    *)
LEMMA WindowsAreDifferences ==
  ASSUME NEW n, NEW S, NEW obs, Recorded(obs, S, n), NEW lo \in Int, NEW last \in Int, lo <= last + 1
  PROVE  /\ Values(Cut(obs, S, lo, last)) \in Seq(Int)
         /\ Len(Values(Cut(obs, S, lo, last))) = Earlier(S, last + 1) - Earlier(S, lo)
         /\ Total(Values(Cut(obs, S, lo, last))) = SumBefore(obs, last + 1) - SumBefore(obs, lo)
<1>0. Stamped(S, n) /\ obs \in [S -> Int] /\ DOMAIN obs = S
  BY DEF Recorded
<1> USE <1>0
<1> DEFINE hi == last + 1
           T == S \cap (lo..(hi - 1))
           part == Cut(obs, S, lo, last)
<1>11. hi \in Int /\ lo <= hi /\ hi - 1 = last
  OBVIOUS
<1> HIDE DEF hi
<1>1. Stamped(T, n) /\ Recorded(part, T, n) /\ DOMAIN part = T
  BY <1>11 DEF Stamped, Recorded, Cut
<1>2. \A x \in lo..(hi - 1) : (x \in T <=> x \in S) /\ (x \in T => part[x] = obs[x] /\ obs[x] \in Int)
  BY <1>11 DEF Cut
<1>3. \A y \in T : y < hi /\ ~(y < lo)
  BY <1>11
<1> HIDE DEF T, part
<1>4. /\ Values(part) \in Seq(Int) /\ Len(Values(part)) = Cardinality(T) /\ Cardinality(T) \in Nat
  BY <1>1, ValuesInOrder
<1>5. Earlier(T, hi) = Cardinality(T) /\ Earlier(T, lo) = 0
  BY <1>3, EarlierAtTheEnds
<1>6. Cardinality(T) = Earlier(S, hi) - Earlier(S, lo)
  BY <1>11, WindowsCount DEF T
<1>7. SumBefore(part, hi) - SumBefore(part, lo) = SumBefore(obs, hi) - SumBefore(obs, lo)
  <2> DEFINE g == [x \in Int |-> SumBefore(part, x)]
             h == [x \in Int |-> SumBefore(obs, x)]
  <2>1. ASSUME NEW x \in Int PROVE g[x] \in Int /\ h[x] \in Int
    BY <1>1, SumsGrow
  <2>2. ASSUME NEW x \in lo..(hi - 1) PROVE g[x + 1] - g[x] = h[x + 1] - h[x]
    <3>0. x \in Int /\ x + 1 \in Int
      BY <1>11
    <3>1. SumBefore(part, x + 1) = (IF x \in T THEN SumBefore(part, x) + part[x] ELSE SumBefore(part, x)) /\ SumBefore(part, x) \in Int
      BY <1>1, <3>0, SumsGrow
    <3>2. SumBefore(obs, x + 1) = (IF x \in S THEN SumBefore(obs, x) + obs[x] ELSE SumBefore(obs, x)) /\ SumBefore(obs, x) \in Int
      BY <3>0, SumsGrow
    <3>3. (x \in T <=> x \in S) /\ (x \in T => part[x] = obs[x] /\ obs[x] \in Int)
      BY <1>2
    <3>4. SumBefore(part, x + 1) - SumBefore(part, x) = SumBefore(obs, x + 1) - SumBefore(obs, x)
      BY <3>1, <3>2, <3>3
    <3> QED
      BY <3>0, <3>4
  <2>3. g[lo] = SumBefore(part, lo) /\ g[hi] = SumBefore(part, hi) /\ h[lo] = SumBefore(obs, lo) /\ h[hi] = SumBefore(obs, hi)
    BY <1>11
  <2> HIDE DEF g, h
  <2>4. \A x \in lo..hi : g[x] \in Int /\ h[x] \in Int
    BY <2>1
  <2>5. g[hi] - g[lo] = h[hi] - h[lo]
    BY <1>11, <2>2, <2>4, SameSteps
  <2> QED
    BY <2>3, <2>5
<1>8. SumBefore(part, lo) = 0
  <2>1. PrefixSums(Values(part))[0] = 0
    BY <1>4, PrefixSumsAdd
  <2> QED
    BY <1>1, <1>5, <2>1 DEF SumBefore
<1>9. SumBefore(part, hi) = Total(Values(part))
  BY <1>1, <1>4, <1>5 DEF SumBefore, Total
<1>10. SumBefore(part, hi) \in Int
  BY <1>1, <1>11, SumsGrow
<1> QED
  BY <1>4, <1>5, <1>6, <1>7, <1>8, <1>9, <1>10 DEF part, hi

(* The arithmetic of one squared deviation.                                   *)
LEMMA OneDeviation ==
  ASSUME NEW n \in Int, NEW s \in Int, NEW v \in Int, NEW p \in Int, NEW q \in Int, NEW k \in Int
  PROVE  (n * n * (q + v * v) - 2 * n * s * (p + v) + (k + 1) * s * s) - (n * n * q - 2 * n * s * p + k * s * s)
           = (n * v - s) * (n * v - s)
OBVIOUS

(* The same of every value of a sequence.                                    *)
LEMMA AllDeviations ==
  ASSUME NEW n \in Int, NEW s \in Int, NEW q \in Int
  PROVE  /\ n * n * q - 2 * n * s * s + n * s * s = n * (n * q - s * s)
         /\ n * n * 0 - 2 * n * s * 0 + 0 * s * s = 0
OBVIOUS

(* A sequence of integers none of which is negative is one of naturals.      *)
LEMMA NaturalSequence ==
  ASSUME NEW n \in Nat, NEW f \in [1..n -> Nat]
  PROVE  f \in Seq(Nat) /\ f \in Seq(Int) /\ Len(f) = n
<1>1. f \in [1..n -> Int]
  OBVIOUS
<1> QED
  BY <1>1

(* No square is negative, nor a sum of numbers none of which is.               *)
LEMMA SquaresAreNatural == ASSUME NEW x \in Int PROVE x * x \in Nat
<1>1. CASE x >= 0
  BY <1>1
<1>2. CASE x < 0
  <2>1. -x \in Nat /\ x * x = (-x) * (-x)
    BY <1>2
  <2> QED
    BY <2>1
<1> QED
  BY <1>1, <1>2

(* Their total is not negative either.                                       *)
LEMMA TotalsOfNaturals ==
  ASSUME NEW values \in Seq(Nat)
  PROVE  Total(values) \in Nat
<1> DEFINE sums == PrefixSums(values)
           Bad == {i \in 0..Len(values) : sums[i] \notin Nat}
<1>1. values \in Seq(Int) /\ Len(values) \in Nat /\ \A i \in 1..Len(values) : values[i] \in Nat
  OBVIOUS
<1>2. /\ sums[0] = 0
      /\ \A i \in 1..Len(values) : sums[i] = sums[i - 1] + values[i]
  BY <1>1, PrefixSumsAdd
<1> HIDE DEF sums
<1>3. ASSUME Bad # {} PROVE FALSE
  <2>1. Bad \in SUBSET Nat
    BY <1>1
  <2>2. Min(Bad) \in Bad /\ \A j \in Bad : Min(Bad) <= j
    <3> HIDE DEF Bad
    <3> QED
      BY <1>3, <2>1, LeastOf
  <2>3. PICK j \in Nat : j \in Bad /\ \A i \in Bad : j <= i
    BY <2>1, <2>2
  <2>4. j # 0
    BY <1>2, <2>3
  <2>5. j - 1 \in 0..Len(values) /\ j - 1 \notin Bad /\ j \in 1..Len(values)
    <3>1. j \in 0..Len(values)
      BY <2>3
    <3> HIDE DEF Bad
    <3> QED
      BY <1>1, <2>3, <2>4, <3>1
  <2>6. sums[j] = sums[j - 1] + values[j] /\ sums[j - 1] \in Nat /\ values[j] \in Nat
    BY <1>1, <1>2, <2>5
  <2> QED
    BY <2>3, <2>6
<1>4. Len(values) \in 0..Len(values)
  BY <1>1
<1> QED
  BY <1>3, <1>4 DEF Total, sums

(* Two series that start alike and take the same steps end alike.              *)
LEMMA SameEnds ==
  ASSUME NEW n \in Nat, NEW g, NEW h, g[0] = 0, h[0] = 0,
         \A x \in 0..n : g[x] \in Int /\ h[x] \in Int,
         \A x \in 1..n : g[x] - g[x - 1] = h[x] - h[x - 1]
  PROVE  g[n] = h[n]
<1> DEFINE zero == 0
<1>1. \A x \in zero..n : g[x] \in Int /\ h[x] \in Int
  OBVIOUS
<1>2. ASSUME NEW x \in zero..(n - 1)
      PROVE  g[x + 1] - g[x] = h[x + 1] - h[x]
  <2>1. x + 1 \in 1..n /\ (x + 1) - 1 = x
    OBVIOUS
  <2>2. g[x + 1] - g[(x + 1) - 1] = h[x + 1] - h[(x + 1) - 1]
    BY <2>1
  <2> QED
    BY <2>1, <2>2
<1>3. zero \in Int /\ n \in Int /\ zero <= n /\ g[zero] = 0 /\ h[zero] = 0 /\ n \in zero..n
  OBVIOUS
<1> HIDE DEF zero
<1>4. g[n] - g[zero] = h[n] - h[zero]
  BY <1>1, <1>2, <1>3, SameSteps
<1>5. g[n] \in Int /\ h[n] \in Int
  BY <1>1, <1>3
<1> QED
  BY <1>3, <1>4, <1>5

(* What is added up: squares, squared deviations from s, and the latter's total *)
(* as it comes out of the sum q of the squares and the sum p of the values.      *)
AreSquares(squares, values, n) ==
  squares \in [1..n -> Int] /\ \A i \in 1..n : squares[i] = values[i] * values[i]
AreDeviations(deviations, values, s, n) ==
  /\ deviations \in [1..n -> Int]
  /\ \A i \in 1..n : deviations[i] = (n * values[i] - s) * (n * values[i] - s)
FromSums(n, s, q, p) == n * n * q - 2 * n * s * p + n * s * s

(* The squared deviations of a record from any number, from its sum and its     *)
(* sum of squares.                                                         *)
LEMMA DeviationsAreSums ==
  ASSUME NEW n \in Nat, NEW s \in Int, NEW values \in [1..n -> Int],
         NEW squares, AreSquares(squares, values, n),
         NEW deviations, AreDeviations(deviations, values, s, n)
  PROVE  /\ Total(deviations) = FromSums(n, s, Total(squares), Total(values))
         /\ {Total(deviations), Total(squares), Total(values)} \subseteq Int
<1>0. /\ squares \in [1..n -> Int] /\ \A i \in 1..n : squares[i] = values[i] * values[i]
      /\ deviations \in [1..n -> Int]
      /\ \A i \in 1..n : deviations[i] = (n * values[i] - s) * (n * values[i] - s)
  BY DEF AreSquares, AreDeviations
<1> USE <1>0
<1>1. /\ values \in Seq(Int) /\ Len(values) = n
      /\ squares \in Seq(Int) /\ Len(squares) = n
      /\ deviations \in Seq(Int) /\ Len(deviations) = n
  OBVIOUS
<1> DEFINE P == PrefixSums(values)
           Q == PrefixSums(squares)
           O == PrefixSums(deviations)
           h == [k \in 0..n |-> n * n * Q[k] - 2 * n * s * P[k] + k * s * s]
<1>2. /\ P[0] = 0 /\ Q[0] = 0 /\ O[0] = 0
      /\ \A k \in 0..n : P[k] \in Int /\ Q[k] \in Int /\ O[k] \in Int
      /\ \A k \in 1..n : /\ P[k] = P[k - 1] + values[k]
                         /\ Q[k] = Q[k - 1] + squares[k]
                         /\ O[k] = O[k - 1] + deviations[k]
  BY <1>1, PrefixSumsAdd
<1>3. P[n] = Total(values) /\ Q[n] = Total(squares) /\ O[n] = Total(deviations)
  BY <1>1 DEF Total
<1> HIDE DEF P, Q, O
<1>4. \A k \in 0..n : O[k] \in Int /\ h[k] \in Int
  <2> SUFFICES ASSUME NEW k \in 0..n PROVE O[k] \in Int /\ h[k] \in Int
    OBVIOUS
  <2>1. P[k] \in Int /\ Q[k] \in Int /\ O[k] \in Int /\ n \in Int /\ k \in Int
    BY <1>2
  <2>2. n * n * Q[k] - 2 * n * s * P[k] + k * s * s \in Int
    BY <2>1
  <2> QED
    BY <2>1, <2>2
<1>5. ASSUME NEW k \in 1..n
      PROVE  O[k] - O[k - 1] = h[k] - h[k - 1]
  <2> DEFINE j == k - 1
             v == values[k]
             p == P[k - 1]
             q == Q[k - 1]
  <2>1. j \in 0..n /\ k \in 0..n /\ k = j + 1 /\ j \in Int
    OBVIOUS
  <2>2. v \in Int /\ p \in Int /\ q \in Int /\ O[k - 1] \in Int /\ n \in Int
    BY <1>2, <2>1, SMTT(30)
  <2>3. P[k] = p + v /\ Q[k] = q + v * v /\ O[k] = O[k - 1] + (n * v - s) * (n * v - s)
    BY <1>2
  <2>4. h[k] = n * n * Q[k] - 2 * n * s * P[k] + k * s * s
    BY <2>1
  <2>5. h[k - 1] = n * n * q - 2 * n * s * p + j * s * s
    BY <2>1
  <2> HIDE DEF v, h, p, q, j
  <2>6. h[k] = n * n * (q + v * v) - 2 * n * s * (p + v) + (j + 1) * s * s
    BY <2>1, <2>3, <2>4, Zenon
  <2>7. (n * n * (q + v * v) - 2 * n * s * (p + v) + (j + 1) * s * s) - (n * n * q - 2 * n * s * p + j * s * s)
          = (n * v - s) * (n * v - s)
    BY <2>1, <2>2, OneDeviation
  <2>8. h[k] - h[k - 1] = (n * v - s) * (n * v - s)
    BY <2>5, <2>6, <2>7, Zenon
  <2>9. (n * v - s) * (n * v - s) \in Int
    BY <2>2
  <2> QED
    BY <2>2, <2>3, <2>8, <2>9
<1>6. h[0] = 0 /\ h[n] = n * n * Q[n] - 2 * n * s * P[n] + n * s * s
  <2>1. 0 \in 0..n /\ n \in 0..n
    OBVIOUS
  <2>2. h[0] = n * n * Q[0] - 2 * n * s * P[0] + 0 * s * s
    BY <2>1
  <2>3. h[n] = n * n * Q[n] - 2 * n * s * P[n] + n * s * s
    BY <2>1
  <2>4. n * n * 0 - 2 * n * s * 0 + 0 * s * s = 0
    BY AllDeviations
  <2> HIDE DEF h
  <2> QED
    BY <1>2, <2>2, <2>3, <2>4
<1>7. O[n] = h[n]
  <2> HIDE DEF h
  <2> QED
    BY <1>2, <1>4, <1>5, <1>6, SameEnds
<1>8. P[n] \in Int /\ Q[n] \in Int /\ O[n] \in Int
  BY <1>2
<1> HIDE DEF h
<1>9. h[n] = FromSums(n, s, Q[n], P[n])
  BY <1>6 DEF FromSums
<1> QED
  BY <1>3, <1>7, <1>8, <1>9

(* From their own sum over their number.                                     *)
LEMMA DeviationFromMean ==
  ASSUME NEW n \in Nat, NEW values \in [1..n -> Int],
         NEW squares, AreSquares(squares, values, n),
         NEW deviations, AreDeviations(deviations, values, Total(values), n)
  PROVE  /\ Total(squares) \in Int /\ Total(values) \in Int /\ Total(deviations) \in Nat
         /\ Total(deviations) = n * (n * Total(squares) - Total(values) * Total(values))
<1> DEFINE s == Total(values)
<1>1. s \in Int
  <2>1. values \in Seq(Int) /\ Len(values) \in 0..Len(values)
    OBVIOUS
  <2> QED
    BY <2>1, PrefixSumsAdd DEF Total
<1> HIDE DEF s
<1>2. ASSUME NEW i \in 1..n
      PROVE  (n * values[i] - s) * (n * values[i] - s) \in Nat
  <2>1. n * values[i] - s \in Int
    BY <1>1
  <2> QED
    BY <2>1, SquaresAreNatural
<1>3. AreDeviations(deviations, values, s, n)
  BY DEF s
<1>4. deviations \in [1..n -> Nat]
  <2>1. \A i \in 1..n : deviations[i] \in Nat
    BY <1>2, <1>3 DEF AreDeviations
  <2> QED
    BY <1>3, <2>1 DEF AreDeviations
<1>5. deviations \in Seq(Nat)
  BY <1>4, NaturalSequence
<1>6. /\ Total(deviations) = n * n * Total(squares) - 2 * n * s * Total(values) + n * s * s
      /\ Total(squares) \in Int
  <2>1. Total(deviations) = FromSums(n, s, Total(squares), Total(values)) /\ Total(squares) \in Int
    BY <1>1, <1>3, DeviationsAreSums
  <2> QED
    BY <2>1, Zenon DEF FromSums
<1>7. Total(deviations) = n * n * Total(squares) - 2 * n * s * s + n * s * s
  BY <1>6 DEF s
<1>8. n * n * Total(squares) - 2 * n * s * s + n * s * s = n * (n * Total(squares) - s * s)
  <2>1. n \in Int
    OBVIOUS
  <2> QED
    BY <1>1, <1>6, <2>1, AllDeviations
<1>9. Total(deviations) \in Nat
  BY <1>5, TotalsOfNaturals
<1> QED
  BY <1>1, <1>6, <1>7, <1>8, <1>9, Zenon DEF s

(* The prices of one bar.                                                    *)
Prices == [open : 0..MaxPrice, high : 0..MaxPrice, low : 0..MaxPrice, close : 0..MaxPrice]

(* What one observation says is a number.                                     *)
LEMMA ObservationsAreNumbers ==
  ASSUME NEW b \in Prices, NEW c \in Prices, NEW estimator \in Estimators
  PROVE  /\ estimator \in ReturnEstimators => Return(estimator, b, c) \in Int
         /\ estimator \notin ReturnEstimators => Term(estimator, b) \in Int
<1>1. MaxPrice \in Nat /\ estimator \in ReturnEstimators \cup RangeEstimators
  BY VolatilityAssumption
<1>2. /\ b.open \in 0..MaxPrice /\ b.high \in 0..MaxPrice /\ b.low \in 0..MaxPrice /\ b.close \in 0..MaxPrice
      /\ c.close \in 0..MaxPrice
  BY DEF Prices
<1>3. ASSUME estimator \in ReturnEstimators PROVE Return(estimator, b, c) \in Int
  <2>1. MaxPrice + c.close - b.close \in Nat
    BY <1>1, <1>2
  <2>2. \A x \in Nat : 2 ^ x \in Int
    BY SMT
  <2>3. 2 ^ (MaxPrice + c.close - b.close) \in Int /\ 2 ^ MaxPrice \in Int
    BY <1>1, <2>1, <2>2
  <2>4. c.close - b.close \in Int
    BY <1>1, <1>2
  <2>5. 2 ^ (MaxPrice + c.close - b.close) - 2 ^ MaxPrice \in Int
    BY <2>3
  <2> QED
    BY <2>4, <2>5 DEF Return
<1>4. ASSUME estimator \notin ReturnEstimators PROVE Term(estimator, b) \in Int
  <2>1. \A x \in Int : Squared(x) \in Int
    BY DEF Squared
  <2>2. /\ b.high - b.low \in Int /\ b.close - b.open \in Int
        /\ b.high - b.close \in Int /\ b.high - b.open \in Int
        /\ b.low - b.close \in Int /\ b.low - b.open \in Int
    BY <1>1, <1>2
  <2>3. Squared(b.high - b.low) \in Int /\ Squared(b.close - b.open) \in Int
    BY <2>1, <2>2
  <2>4. 5 * Squared(b.high - b.low) - 4 * Squared(b.close - b.open) \in Int
    BY <2>3
  <2>5. (b.high - b.close) * (b.high - b.open) + (b.low - b.close) * (b.low - b.open) \in Int
    BY <2>2
  <2>6. estimator \in {"parkinson", "garman_klass", "rogers_satchell"}
    BY <1>1, <1>4 DEF RangeEstimators
  <2>7. CASE estimator = "parkinson"
    BY <2>3, <2>7 DEF Term
  <2>8. CASE estimator = "garman_klass"
    BY <2>4, <2>8 DEF Term
  <2>9. CASE estimator = "rogers_satchell"
    BY <2>5, <2>9 DEF Term
  <2> QED
    BY <2>6, <2>7, <2>8, <2>9
<1> QED
  BY <1>3, <1>4

(* The stamps a return starts at: the next bar is one interval later.          *)
Starts(B, interval) ==
  {x \in B : x + interval \in B /\ \A k \in B : k <= x \/ x + interval <= k}

(* Each adjacent pair has one return, kept at its first bar.                  *)
LEMMA ReturnsOfARecord ==
  ASSUME NEW n, NEW bars, Stamped(DOMAIN bars, n), NEW interval \in Nat \ {0},
         NEW estimator \in ReturnEstimators
  PROVE  Observations(bars, interval, estimator) =
           [x \in Starts(DOMAIN bars, interval) |-> Return(estimator, bars[x], bars[x + interval])]
<1> DEFINE B == DOMAIN bars
           pairs == AdjacentPairs(bars, interval)
           next(m) == CHOOSE k \in B : <<m, k>> \in pairs
<1>1. \A x \in B : x \in Int
  BY DEF Stamped
<1>2. Observations(bars, interval, estimator) =
        [m \in {p[1] : p \in pairs} |-> Return(estimator, bars[m], bars[next(m)])]
  BY Zenon DEF Observations
<1>3. \A x, y : <<x, y>> \in pairs <=>
        /\ x \in B /\ y \in B /\ x < y /\ (\A k \in B : k <= x \/ y <= k) /\ y - x = interval
  BY DEF AdjacentPairs, Apart
<1>4. \A p \in pairs : p = <<p[1], p[2]>>
  BY DEF AdjacentPairs
<1> HIDE DEF B, pairs
<1>5. ASSUME NEW x \in Starts(B, interval)
      PROVE  <<x, x + interval>> \in pairs /\ next(x) = x + interval
  <2>1. x \in B /\ x + interval \in B /\ \A k \in B : k <= x \/ x + interval <= k
    BY DEF Starts
  <2>2. x \in Int /\ x < x + interval /\ (x + interval) - x = interval
    BY <1>1, <2>1
  <2>3. <<x, x + interval>> \in pairs
    BY <1>3, <2>1, <2>2
  <2>4. ASSUME NEW y \in B, <<x, y>> \in pairs PROVE y = x + interval
    <3>1. y - x = interval /\ y \in Int
      BY <1>1, <1>3, <2>4
    <3> QED
      BY <2>2, <3>1
  <2> QED
    BY <2>1, <2>3, <2>4
<1>6. {p[1] : p \in pairs} = Starts(B, interval)
  <2>1. ASSUME NEW p \in pairs PROVE p[1] \in Starts(B, interval)
    <3>1. PICK x, y : p = <<x, y>> /\ x = p[1]
      BY <1>4
    <3>2. x \in B /\ y \in B /\ (\A k \in B : k <= x \/ y <= k) /\ y - x = interval
      BY <1>3, <3>1
    <3>3. y = x + interval
      BY <1>1, <3>2
    <3> QED
      BY <3>1, <3>2, <3>3 DEF Starts
  <2>2. ASSUME NEW x \in Starts(B, interval) PROVE \E p \in pairs : p[1] = x
    BY <1>5
  <2> QED
    BY <2>1, <2>2
<1> HIDE DEF next
<1>7. [m \in {p[1] : p \in pairs} |-> Return(estimator, bars[m], bars[next(m)])]
        = [x \in Starts(B, interval) |-> Return(estimator, bars[x], bars[x + interval])]
  BY <1>5, <1>6
<1> QED
  BY <1>2, <1>7, Zenon DEF B

(* The pairs of a window are those both of whose bars it holds.                *)
LEMMA PairsOfAWindow ==
  ASSUME NEW n, NEW B, Stamped(B, n), NEW interval \in Nat \ {0}, NEW lo \in Int, NEW at \in Int
  PROVE  Starts(B \cap (lo..at), interval) = Starts(B, interval) \cap (lo..(at - interval))
<1> DEFINE W == B \cap (lo..at)
<1>1. \A x \in B : x \in Int
  BY DEF Stamped
<1>2. ASSUME NEW x \in Starts(W, interval)
      PROVE  x \in Starts(B, interval) /\ x \in lo..(at - interval)
  <2>1. /\ x \in B /\ x + interval \in B /\ \A k \in W : k <= x \/ x + interval <= k
        /\ lo <= x /\ x + interval <= at /\ x \in Int
    BY <1>1 DEF Starts
  <2>2. ASSUME NEW k \in B PROVE k <= x \/ x + interval <= k
    <3>1. CASE k \in W
      BY <2>1, <3>1
    <3>2. CASE k \notin W
      <4>1. k \in Int /\ ~(lo <= k /\ k <= at)
        BY <1>1, <3>2
      <4> QED
        BY <2>1, <4>1
    <3> QED
      BY <3>1, <3>2
  <2> HIDE DEF W
  <2>3. x \in Starts(B, interval)
    BY <2>1, <2>2 DEF Starts
  <2> QED
    BY <2>1, <2>3
<1>3. ASSUME NEW x \in Starts(B, interval), x \in lo..(at - interval)
      PROVE  x \in Starts(W, interval)
  <2>1. x \in B /\ x + interval \in B /\ \A k \in B : k <= x \/ x + interval <= k
    BY DEF Starts
  <2>2. x \in W /\ x + interval \in W /\ \A k \in W : k \in B
    BY <1>3, <2>1
  <2> HIDE DEF W
  <2> QED
    BY <2>1, <2>2 DEF Starts
<1> QED
  <2> HIDE DEF W
  <2>1. Starts(W, interval) = Starts(B, interval) \cap (lo..(at - interval))
    BY <1>2, <1>3
  <2> QED
    BY <2>1 DEF W

(* A record of bars at some stamps, and the part of it a window holds.       *)
BarsAt(bars, B, n) == Stamped(B, n) /\ bars \in [B -> Prices]
WindowOf(part, bars, W) == part \in [W -> Prices] /\ \A m \in W : part[m] = bars[m]

(* The observations of a window are those of the record that start in it and     *)
(* are over by its end.                                                     *)
LEMMA ObservationsOfAWindow ==
  ASSUME NEW n, NEW B, NEW bars, BarsAt(bars, B, n), NEW interval \in Nat \ {0},
         NEW estimator \in Estimators, NEW lo \in Int, NEW at \in Int,
         NEW part, WindowOf(part, bars, B \cap (lo..at))
  PROVE  \E F, obs : /\ Recorded(obs, F, n)
                     /\ Observations(bars, interval, estimator) = obs
                     /\ Observations(part, interval, estimator) = Cut(obs, F, lo, LastStart(estimator, at, interval))
<1> DEFINE W == B \cap (lo..at)
<1>0. Stamped(B, n) /\ bars \in [B -> Prices] /\ part \in [W -> Prices] /\ \A m \in W : part[m] = bars[m]
  BY DEF BarsAt, WindowOf
<1> USE <1>0
<1>1. DOMAIN bars = B /\ DOMAIN part = W /\ Stamped(W, n)
  BY DEF Stamped
<1>2. CASE estimator \in ReturnEstimators
  <2> DEFINE F == Starts(B, interval)
             obs == [x \in F |-> Return(estimator, bars[x], bars[x + interval])]
  <2>1. Observations(bars, interval, estimator) = obs
    BY <1>1, <1>2, ReturnsOfARecord
  <2>2. \A x \in F : x \in B /\ x + interval \in B
    BY DEF Starts
  <2>3. Recorded(obs, F, n)
    <3>1. \A x \in F : Return(estimator, bars[x], bars[x + interval]) \in Int
      BY <1>2, <2>2, ObservationsAreNumbers
    <3>2. Stamped(F, n)
      BY <2>2 DEF Stamped
    <3> HIDE DEF F
    <3> QED
      BY <3>1, <3>2 DEF Recorded
  <2>4. Observations(part, interval, estimator) =
          [x \in Starts(W, interval) |-> Return(estimator, part[x], part[x + interval])]
    <3>1. Stamped(DOMAIN part, n) /\ W = DOMAIN part
      BY <1>1
    <3> HIDE DEF W
    <3>2. Observations(part, interval, estimator) =
            [x \in Starts(DOMAIN part, interval) |-> Return(estimator, part[x], part[x + interval])]
      BY <1>2, <3>1, ReturnsOfARecord
    <3> QED
      BY <3>1, <3>2
  <2>5. Starts(W, interval) = F \cap (lo..(at - interval))
    BY PairsOfAWindow
  <2>6. LastStart(estimator, at, interval) = at - interval
    BY <1>2 DEF LastStart
  <2>7. \A x \in Starts(W, interval) : x \in W /\ x + interval \in W /\ x \in F
    <3>1. \A x \in Starts(W, interval) : x \in W /\ x + interval \in W
      BY DEF Starts
    <3> QED
      BY <2>5, <3>1
  <2>8. \A x \in Starts(W, interval) :
          Return(estimator, part[x], part[x + interval]) = Return(estimator, bars[x], bars[x + interval])
    BY <2>7
  <2>9. Observations(part, interval, estimator) = Cut(obs, F, lo, at - interval)
    <3> HIDE DEF F, W
    <3> QED
      BY <2>4, <2>5, <2>7, <2>8 DEF Cut
  <2> HIDE DEF F, obs
  <2> QED
    BY <2>1, <2>3, <2>6, <2>9
<1>3. CASE estimator \notin ReturnEstimators
  <2> DEFINE obs == [x \in B |-> Term(estimator, bars[x])]
  <2>1. Observations(bars, interval, estimator) = obs
    BY <1>1, <1>3, Zenon DEF Observations
  <2>2. Recorded(obs, B, n)
    <3>1. \A x \in B : Term(estimator, bars[x]) \in Int
      BY <1>3, ObservationsAreNumbers
    <3> QED
      BY <3>1 DEF Recorded
  <2>3. Observations(part, interval, estimator) = [x \in W |-> Term(estimator, part[x])]
    BY <1>1, <1>3, Zenon DEF Observations
  <2>4. LastStart(estimator, at, interval) = at
    BY <1>3 DEF LastStart
  <2>5. \A x \in W : Term(estimator, part[x]) = Term(estimator, bars[x]) /\ x \in B
    OBVIOUS
  <2>6. Observations(part, interval, estimator) = Cut(obs, B, lo, at)
    BY <2>3, <2>5 DEF Cut
  <2> HIDE DEF obs
  <2> QED
    BY <2>1, <2>2, <2>4, <2>6
<1> QED
  BY <1>2, <1>3

(* The ends of a window, read off two bisections, are its first and last bars.  *)
LEMMA EndsOfAWindow ==
  ASSUME NEW n, NEW B, Stamped(B, n), NEW lo \in Int, NEW at \in Int, lo <= at,
         B \cap (lo..at) # {}
  PROVE  /\ InOrder(B)[Earlier(B, lo) + 1] = Min(B \cap (lo..at))
         /\ InOrder(B)[Earlier(B, at + 1)] = Max(B \cap (lo..at))
<1> DEFINE W == B \cap (lo..at)
<1>1. n \in Nat /\ W \in SUBSET (0..n) /\ W \in SUBSET Nat /\ \A y \in B : y \in Int
  BY DEF Stamped
<1>2. \A y \in W : y \in B /\ lo <= y /\ y <= at /\ y \in Int
  BY <1>1
<1>3. \A y \in B : lo <= y /\ y <= at => y \in W
  BY <1>1
<1> HIDE DEF W
<1>4. Min(W) \in W /\ \A k \in W : Min(W) <= k
  BY <1>1, LeastOf DEF W
<1>5. Max(W) \in W /\ \A k \in W : k <= Max(W)
  BY <1>1, GreatestOf DEF W
<1>6. PICK first \in W : first = Min(W)
  BY <1>4
<1>7. PICK last \in W : last = Max(W)
  BY <1>5
<1>8. Earlier(B, first) = Earlier(B, lo)
  <2>1. ASSUME NEW y \in B PROVE y < first <=> y < lo
    <3>1. y \in Int /\ first \in Int /\ lo <= first /\ first <= at
      BY <1>1, <1>2
    <3>2. y \in W => first <= y
      BY <1>4, <1>6
    <3> QED
      BY <1>3, <3>1, <3>2
  <2>2. {y \in B : y < first} = {y \in B : y < lo}
    BY <2>1
  <2> QED
    BY <2>2 DEF Earlier
<1>9. Earlier(B, last + 1) = Earlier(B, at + 1)
  <2>1. ASSUME NEW y \in B PROVE y < last + 1 <=> y < at + 1
    <3>1. y \in Int /\ last \in Int /\ lo <= last /\ last <= at
      BY <1>1, <1>2
    <3>2. y \in W => y <= last
      BY <1>5, <1>7
    <3> QED
      BY <1>3, <3>1, <3>2
  <2>2. {y \in B : y < last + 1} = {y \in B : y < at + 1}
    BY <2>1
  <2> QED
    BY <2>2 DEF Earlier
<1>10. Earlier(B, last + 1) = Earlier(B, last) + 1
  <2>1. last \in B /\ last \in Int
    BY <1>2
  <2> QED
    BY <2>1, EarlierCounts
<1>11. InOrder(B)[Earlier(B, first) + 1] = first /\ InOrder(B)[Earlier(B, last) + 1] = last
  <2>1. first \in B /\ last \in B
    BY <1>2
  <2> QED
    BY <2>1, OrderedByRank
<1> QED
  BY <1>6, <1>7, <1>8, <1>9, <1>10, <1>11 DEF W

(* The spans of a window, read off the two bisections.                         *)
LEMMA SpansOfAWindow ==
  ASSUME NEW n, NEW B, Stamped(B, n), NEW lo \in Int, NEW at \in Int, lo <= at, NEW interval
  PROVE  LET W == B \cap (lo..at)
             times == InOrder(B)
             first == BisectLeft(times, lo)
             last == BisectRight(times, at)
         IN  /\ Spans(W, interval) = IF last - first >= 2 THEN (times[last] - times[first + 1]) \div interval ELSE 0
             /\ last > first <=> W # {}
<1> DEFINE W == B \cap (lo..at)
           times == InOrder(B)
           first == Earlier(B, lo)
           last == Earlier(B, at + 1)
<1>1. BisectLeft(times, lo) = first /\ BisectRight(times, at) = last
  BY BisectionsCount
<1>2. Cardinality(W) = last - first
  <2>1. at + 1 \in Int /\ lo <= at + 1 /\ (at + 1) - 1 = at
    OBVIOUS
  <2> QED
    BY <2>1, WindowsCount
<1>3. first \in Nat /\ last \in Nat
  <2>1. at + 1 \in Int
    OBVIOUS
  <2> QED
    BY <2>1, EarlierCounts
<1>4. W # {} <=> Cardinality(W) # 0
  <2>1. IsFiniteSet(0..n)
    BY FS_Interval DEF Stamped
  <2>2. IsFiniteSet(W)
    BY <2>1, FS_Subset DEF Stamped
  <2> QED
    BY <2>2, FS_EmptySet
<1>5. Cardinality(W) \in Nat
  <2>1. IsFiniteSet(0..n)
    BY FS_Interval DEF Stamped
  <2>2. IsFiniteSet(W)
    BY <2>1, FS_Subset DEF Stamped
  <2> QED
    BY <2>2, FS_CardinalityType
<1>6. W # {} => times[first + 1] = Min(W) /\ times[last] = Max(W)
  BY EndsOfAWindow
<1> HIDE DEF W, times, first, last
<1>7. Spans(W, interval) = IF last - first >= 2 THEN (times[last] - times[first + 1]) \div interval ELSE 0
  <2>1. CASE last - first >= 2
    <3>1. W # {} /\ ~(Cardinality(W) < 2)
      BY <1>2, <1>3, <1>4, <2>1
    <3> QED
      BY <1>6, <2>1, <3>1 DEF Spans
  <2>2. CASE ~(last - first >= 2)
    <3>1. Cardinality(W) < 2
      BY <1>2, <1>3, <2>2
    <3> QED
      BY <2>2, <3>1 DEF Spans
  <2> QED
    BY <2>1, <2>2
<1>8. last > first <=> W # {}
  BY <1>2, <1>3, <1>4, <1>5
<1> QED
  BY <1>1, <1>7, <1>8 DEF W, times

(* The figure of rolling, from the number of observations, their sum and the    *)
(* sum of their squares.                                                      *)
FigureOf(isReturn, count, sum, squares, expected) ==
  IF count = 0 THEN Unmeasured(expected)
  ELSE [value |-> IF isReturn
                  THEN IF count < 2 THEN NoValue
                       ELSE <<Max({count * squares - sum * sum, 0}), count * (count - 1)>>
                  ELSE IF sum < 0 THEN NoValue ELSE <<sum, count>>,
        observations |-> count, expected |-> expected]

(* Values that are the observations of a window have its figure.               *)
LEMMA FigureOfAWindow ==
  ASSUME NEW count \in Nat, NEW values \in [1..count -> Int], NEW squares \in [1..count -> Int],
         \A i \in 1..count : squares[i] = values[i] * values[i], NEW expected
  PROVE  /\ SameFigure(FigureOf(TRUE, count, Total(values), Total(squares), expected),
                       [value |-> SampleDeviation(values), observations |-> Len(values), expected |-> expected])
         /\ SameFigure(FigureOf(FALSE, count, Total(values), Total(squares), expected),
                       [value |-> RangeResult(values), observations |-> Len(values), expected |-> expected])
<1> DEFINE sum == Total(values)
           deviations == [i \in 1..count |-> (count * values[i] - sum) * (count * values[i] - sum)]
<1>1. values \in Seq(Int) /\ Len(values) = count /\ (count = 0 => values = <<>>) /\ (count # 0 => values # <<>>)
  OBVIOUS
<1>2. sum \in Int
  <2>1. Len(values) \in 0..Len(values)
    BY <1>1
  <2> QED
    BY <1>1, <2>1, PrefixSumsAdd DEF Total
<1>3. /\ Total(squares) \in Int /\ Total(deviations) \in Nat
      /\ Total(deviations) = count * (count * Total(squares) - sum * sum)
  <2>1. /\ deviations \in [1..count -> Int]
        /\ \A i \in 1..count : deviations[i] = (count * values[i] - Total(values)) * (count * values[i] - Total(values))
    <3>1. \A i \in 1..count : (count * values[i] - sum) * (count * values[i] - sum) \in Int
      <4> HIDE DEF sum
      <4> QED
        BY <1>2
    <3> QED
      BY <3>1
  <2> HIDE DEF deviations
  <2>2. AreDeviations(deviations, values, Total(values), count)
    BY <2>1, Zenon DEF AreDeviations
  <2>3. AreSquares(squares, values, count)
    BY Zenon DEF AreSquares
  <2> HIDE DEF sum
  <2>4. /\ Total(squares) \in Int /\ Total(deviations) \in Nat
        /\ Total(deviations) = count * (count * Total(squares) - Total(values) * Total(values))
    BY <2>2, <2>3, DeviationFromMean
  <2> QED
    BY <2>4, Zenon DEF sum
<1>4. SampleDeviation(values) =
        IF count < 2 THEN NoValue ELSE <<Total(deviations), count * count * (count - 1)>>
  BY <1>1, Zenon DEF SampleDeviation
<1>5. RangeResult(values) = IF count = 0 \/ sum < 0 THEN NoValue ELSE <<sum, count>>
  BY <1>1 DEF RangeResult
<1> HIDE DEF sum, deviations
<1> DEFINE centred == count * Total(squares) - sum * sum
<1>6. count # 0 => centred \in Nat /\ Max({centred, 0}) = centred
  <2> SUFFICES ASSUME count # 0 PROVE centred \in Nat /\ Max({centred, 0}) = centred
    OBVIOUS
  <2>1. centred \in Int /\ count * centred \in Nat
    BY <1>2, <1>3
  <2> HIDE DEF centred
  <2>2. centred >= 0
    <3> SUFFICES ASSUME centred < 0 PROVE FALSE
      BY <2>1
    <3>1. -centred \in Nat \ {0} /\ count \in Nat \ {0}
      BY <2>1
    <3>2. count * (-centred) \in Nat \ {0} /\ count * (-centred) = -(count * centred)
      BY <2>1, <3>1
    <3> QED
      BY <2>1, <3>2
  <2> QED
    BY <2>1, <2>2, GreaterOfTwo
<1>7. CASE count = 0
  BY <1>1, <1>4, <1>5, <1>7 DEF SameFigure, FigureOf, Unmeasured, NoValue
<1>8. CASE count # 0
  <2>1. SameFigure(FigureOf(FALSE, count, sum, Total(squares), expected),
                   [value |-> RangeResult(values), observations |-> Len(values), expected |-> expected])
    BY <1>1, <1>2, <1>5, <1>8 DEF SameFigure, FigureOf, NoValue
  <2>2. SameFigure(FigureOf(TRUE, count, sum, Total(squares), expected),
                   [value |-> SampleDeviation(values), observations |-> Len(values), expected |-> expected])
    <3>1. CASE count < 2
      BY <1>1, <1>4, <1>8, <3>1 DEF SameFigure, FigureOf, NoValue
    <3>2. CASE ~(count < 2)
      <4>1. FigureOf(TRUE, count, sum, Total(squares), expected)
              = [value |-> <<centred, count * (count - 1)>>, observations |-> count, expected |-> expected]
        BY <1>6, <1>8, <3>2 DEF FigureOf
      <4>2. SampleDeviation(values) = <<count * centred, count * count * (count - 1)>>
        BY <1>3, <1>4, <3>2
      <4> HIDE DEF centred
      <4>3. centred * (count * count * (count - 1)) = (count * centred) * (count * (count - 1))
        BY <1>6, <1>8
      <4> QED
        <5> DEFINE num == count * centred
                   den == count * count * (count - 1)
                   pairs == count * (count - 1)
        <5>1. FigureOf(TRUE, count, sum, Total(squares), expected)
                = [value |-> <<centred, pairs>>, observations |-> count, expected |-> expected]
          BY <4>1
        <5>2. SampleDeviation(values) = <<num, den>> /\ centred * den = num * pairs /\ Len(values) = count
          BY <1>1, <4>2, <4>3
        <5> HIDE DEF num, den, pairs
        <5> QED
          <6> DEFINE a == FigureOf(TRUE, count, sum, Total(squares), expected)
                     b == [value |-> SampleDeviation(values), observations |-> Len(values), expected |-> expected]
          <6>7. a = [value |-> <<centred, pairs>>, observations |-> count, expected |-> expected]
            BY <5>1, Zenon
          <6>6. b.value = SampleDeviation(values) /\ b.observations = Len(values) /\ b.expected = expected
            OBVIOUS
          <6> HIDE DEF a, b
          <6>5. a.value = <<centred, pairs>> /\ a.observations = count /\ a.expected = expected
            BY <6>7
          <6>1. /\ a.value = <<centred, pairs>> /\ a.observations = count /\ a.expected = expected
                /\ b.value = <<num, den>> /\ b.observations = count /\ b.expected = expected
            BY <5>2, <6>5, <6>6
          <6>2. a.value # NoValue /\ a.value[1] = centred /\ a.value[2] = pairs
            BY <6>1 DEF NoValue
          <6>3. b.value # NoValue /\ b.value[1] = num /\ b.value[2] = den
            BY <6>1 DEF NoValue
          <6>4. SameFigure(a, b)
            BY <5>2, <6>1, <6>2, <6>3 DEF SameFigure
          <6> QED
            BY <6>4 DEF a, b
    <3> QED
      BY <3>1, <3>2
  <2> QED
    BY <2>1, <2>2 DEF sum
<1> QED
  BY <1>7, <1>8 DEF sum

(* What rolling answers for a stamp is what the window-at-a-time formulas answer *)
(* of the bars between the stamp and its lookback.                              *)
LEMMA RollingIsItsWindow ==
  ASSUME NEW n, NEW B, NEW bars, BarsAt(bars, B, n), NEW interval \in Nat \ {0},
         NEW estimator \in Estimators, NEW lookback \in Nat, interval <= lookback,
         NEW at \in Nat, NEW timestamps, at \in timestamps,
         NEW part, WindowOf(part, bars, B \cap ((at - lookback)..at))
  PROVE  SameFigure(Rolling(bars, estimator, interval, lookback, timestamps)[at],
                    WindowAtATime(part, interval, estimator))
<1> DEFINE lo == at - lookback
           W == B \cap (lo..at)
           isReturn == estimator \in ReturnEstimators
           final == LastStart(estimator, at, interval)
           hi == final + 1
<1>1. lo \in Int /\ at \in Int /\ lo <= at
  OBVIOUS
<1>2. final \in Int /\ lo <= final + 1
  BY DEF LastStart
<1>3. DOMAIN bars = B /\ DOMAIN part = W /\ Stamped(B, n)
  BY DEF BarsAt, WindowOf
<1> HIDE DEF lo, final
<1>4. PICK F, obs : /\ Recorded(obs, F, n)
                    /\ Observations(bars, interval, estimator) = obs
                    /\ Observations(part, interval, estimator) = Cut(obs, F, lo, final)
  <2>1. WindowOf(part, bars, B \cap (lo..at))
    BY DEF lo
  <2> HIDE DEF isReturn
  <2>2. \E F, obs : /\ Recorded(obs, F, n)
                    /\ Observations(bars, interval, estimator) = obs
                    /\ Observations(part, interval, estimator) = Cut(obs, F, lo, LastStart(estimator, at, interval))
    BY <1>1, <2>1, ObservationsOfAWindow, SMTT(30)
  <2> QED
    BY <2>2 DEF final
<1>5. Stamped(F, n) /\ obs \in [F -> Int] /\ DOMAIN obs = F
  BY <1>4 DEF Recorded
<1> DEFINE times == InOrder(B)
           first == BisectLeft(times, lo)
           last == BisectRight(times, at)
           spans == IF last - first >= 2 THEN (times[last] - times[first + 1]) \div interval ELSE 0
           expected == IF isReturn THEN spans ELSE IF last > first THEN spans + 1 ELSE 0
           stamps == InOrder(F)
           values == Values(obs)
           total == PrefixSums(values)
           totalSquared == PrefixSums([i \in DOMAIN values |-> values[i] * values[i]])
           low == BisectLeft(stamps, lo)
           high == BisectRight(stamps, final)
<1>6. Rolling(bars, estimator, interval, lookback, timestamps)[at]
        = FigureOf(isReturn, high - low, total[high] - total[low], totalSquared[high] - totalSquared[low], expected)
  BY <1>3, <1>4, <1>5 DEF Rolling, FigureOf, lo, final
<1> DEFINE piece == Cut(obs, F, lo, final)
           square == [m \in F |-> obs[m] * obs[m]]
           squarePiece == Cut(square, F, lo, final)
<1>7. low = Earlier(F, lo) /\ high = Earlier(F, hi)
  BY <1>1, <1>2, <1>5, BisectionsCount
<1>8. hi \in Int /\ lo <= hi /\ hi - 1 = final
  BY <1>1, <1>2
<1>9. Recorded(square, F, n)
  <2>1. \A m \in F : obs[m] * obs[m] \in Int
    BY <1>5
  <2> QED
    BY <1>5, <2>1 DEF Recorded
<1>10. Values(square) = [i \in DOMAIN values |-> values[i] * values[i]]
  <2>1. DOMAIN InOrder(F) = 1..Cardinality(F) /\ \A i \in 1..Cardinality(F) : InOrder(F)[i] \in F
    BY <1>5, OrderedByRank
  <2>2. values = [i \in 1..Cardinality(F) |-> obs[InOrder(F)[i]]]
    BY <1>4, ValuesInOrder
  <2>3. Values(square) = [i \in 1..Cardinality(F) |-> square[InOrder(F)[i]]]
    BY <1>9, ValuesInOrder
  <2> HIDE DEF values
  <2> QED
    BY <2>1, <2>2, <2>3
<1>11. total[high] = SumBefore(obs, hi) /\ total[low] = SumBefore(obs, lo)
  BY <1>5, <1>7 DEF SumBefore
<1>12. totalSquared[high] = SumBefore(square, hi) /\ totalSquared[low] = SumBefore(square, lo)
  BY <1>7, <1>10 DEF SumBefore
<1> HIDE DEF values, total, totalSquared, low, high, square, final, hi
<1> DEFINE own == Values(piece)
           ownSquares == Values(squarePiece)
           count == high - low
<1>13. own \in Seq(Int) /\ Len(own) = count /\ Total(own) = total[high] - total[low]
  <2>1. /\ own \in Seq(Int)
        /\ Len(own) = Earlier(F, hi) - Earlier(F, lo)
        /\ Total(own) = SumBefore(obs, hi) - SumBefore(obs, lo)
    BY <1>1, <1>2, <1>4, WindowsAreDifferences DEF hi
  <2> QED
    BY <1>7, <1>11, <2>1
<1>14. ownSquares \in Seq(Int) /\ Len(ownSquares) = count /\ Total(ownSquares) = totalSquared[high] - totalSquared[low]
  <2>1. /\ ownSquares \in Seq(Int)
        /\ Len(ownSquares) = Earlier(F, hi) - Earlier(F, lo)
        /\ Total(ownSquares) = SumBefore(square, hi) - SumBefore(square, lo)
    BY <1>1, <1>2, <1>9, WindowsAreDifferences DEF hi
  <2> QED
    BY <1>7, <1>12, <2>1
<1>15. \A i \in 1..count : ownSquares[i] = own[i] * own[i]
  <2> DEFINE T == F \cap (lo..final)
  <2>1. Stamped(T, n)
    BY <1>5 DEF Stamped
  <2>2. piece \in [T -> Int] /\ squarePiece \in [T -> Int] /\ \A m \in T : squarePiece[m] = piece[m] * piece[m]
    BY <1>5, <1>9 DEF square, Recorded, Cut
  <2>3. DOMAIN InOrder(T) = 1..Cardinality(T) /\ \A i \in 1..Cardinality(T) : InOrder(T)[i] \in T
    BY <2>1, OrderedByRank
  <2>4. Recorded(piece, T, n) /\ Recorded(squarePiece, T, n)
    BY <2>1, <2>2 DEF Recorded
  <2> HIDE DEF T, piece, squarePiece
  <2>5. own = [i \in 1..Cardinality(T) |-> piece[InOrder(T)[i]]] /\ Len(own) = Cardinality(T)
    BY <2>4, ValuesInOrder
  <2>6. ownSquares = [i \in 1..Cardinality(T) |-> squarePiece[InOrder(T)[i]]]
    BY <2>4, ValuesInOrder
  <2> HIDE DEF own, ownSquares
  <2> QED
    BY <1>13, <2>2, <2>3, <2>5, <2>6
<1>16. spans = Spans(W, interval) /\ (last > first <=> W # {})
  BY <1>1, <1>3, SpansOfAWindow
<1> HIDE DEF spans, first, last, W, own, ownSquares, count
<1>17. count \in Nat /\ own \in [1..count -> Int] /\ ownSquares \in [1..count -> Int]
  BY <1>13, <1>14
<1>18. expected = IF isReturn THEN Spans(W, interval) ELSE IF W = {} THEN 0 ELSE Spans(W, interval) + 1
  BY <1>16
<1> HIDE DEF expected
<1>19. WindowAtATime(part, interval, estimator)
         = IF isReturn
           THEN [value |-> SampleDeviation(own), observations |-> Len(own), expected |-> expected]
           ELSE [value |-> RangeResult(own), observations |-> Len(own), expected |-> expected]
  <2>1. Observations(part, interval, estimator) = piece
    BY <1>4
  <2>2. Values(Observations(part, interval, estimator)) = own
    BY <2>1, Zenon DEF own
  <2> HIDE DEF piece
  <2>3. CASE isReturn
    <3>1. WindowAtATime(part, interval, estimator)
            = [value |-> SampleDeviation(own), observations |-> Len(own), expected |-> Spans(W, interval)]
      BY <1>3, <2>2, <2>3, Zenon DEF WindowAtATime
    <3> QED
      BY <1>18, <2>3, <3>1
  <2>4. CASE ~isReturn
    <3>1. WindowAtATime(part, interval, estimator)
            = [value |-> RangeResult(own), observations |-> Len(own),
               expected |-> IF W = {} THEN 0 ELSE Spans(W, interval) + 1]
      BY <1>3, <2>2, <2>4, Zenon DEF WindowAtATime
    <3> QED
      BY <1>18, <2>4, <3>1
  <2> QED
    BY <2>3, <2>4
<1>20. Rolling(bars, estimator, interval, lookback, timestamps)[at]
         = FigureOf(isReturn, count, Total(own), Total(ownSquares), expected)
  BY <1>6, <1>13, <1>14 DEF count
<1>21. /\ SameFigure(FigureOf(TRUE, count, Total(own), Total(ownSquares), expected),
                     [value |-> SampleDeviation(own), observations |-> Len(own), expected |-> expected])
       /\ SameFigure(FigureOf(FALSE, count, Total(own), Total(ownSquares), expected),
                     [value |-> RangeResult(own), observations |-> Len(own), expected |-> expected])
  BY <1>15, <1>17, FigureOfAWindow
<1>22. CASE isReturn
  <2>1. isReturn = TRUE
    BY <1>22
  <2> HIDE DEF isReturn
  <2> QED
    BY <1>19, <1>20, <1>21, <2>1
<1>23. CASE ~isReturn
  <2>1. isReturn = FALSE
    BY <1>23
  <2> HIDE DEF isReturn
  <2> QED
    BY <1>19, <1>20, <1>21, <2>1
<1> QED
  BY <1>22, <1>23

----------------------------------------------------------------------------
(* Quotients of any number, and the multiples around it.                       *)
LEMMA QuotientOfAny ==
  ASSUME NEW a \in Int, NEW d \in Nat \ {0}
  PROVE  a \div d \in Int /\ d * (a \div d) <= a /\ a < d * (a \div d) + d
OBVIOUS

(* Different multiples are a whole stride apart.                             *)
LEMMA MultiplesApart ==
  ASSUME NEW d \in Nat \ {0}, NEW j \in Int, NEW k \in Int
  PROVE  /\ j <= k => d * j <= d * k
         /\ j < k => d * j + d <= d * k
<1>1. d * k = d * j + d * (k - j) /\ d * j \in Int /\ d * k \in Int /\ d * (k - j) \in Int
  OBVIOUS
<1>2. j <= k => d * (k - j) \in Nat
  <2> SUFFICES ASSUME j <= k PROVE d * (k - j) \in Nat
    OBVIOUS
  <2>1. k - j \in Nat
    OBVIOUS
  <2> QED
    BY <2>1
<1>3. j < k => d * (k - j) >= d
  <2> SUFFICES ASSUME j < k PROVE d * (k - j) >= d
    OBVIOUS
  <2>1. k - j - 1 \in Nat /\ d * (k - j) = d * (k - j - 1) + d
    OBVIOUS
  <2>2. d * (k - j - 1) \in Nat
    BY <2>1
  <2> QED
    BY <2>1, <2>2
<1> QED
  BY <1>1, <1>2, <1>3

(* A bucket's quotient is its own.                                            *)
LEMMA QuotientOfAMultiple ==
  ASSUME NEW d \in Nat \ {0}, NEW k \in Nat
  PROVE  (d * k) \div d = k
<1>1. (d * k) \div d \in Int /\ d * ((d * k) \div d) <= d * k /\ d * k < d * ((d * k) \div d) + d
  <2>1. d * k \in Int
    OBVIOUS
  <2> QED
    BY <2>1, QuotientOfAny
<1> DEFINE q == (d * k) \div d
<1> HIDE DEF q
<1>2. q \in Int /\ d * q <= d * k /\ d * k < d * q + d /\ d * q \in Int /\ d * k \in Int
  BY <1>1 DEF q
<1>3. ~(q < k)
  BY <1>2, MultiplesApart
<1>4. ~(k < q)
  BY <1>2, MultiplesApart
<1>5. q = k
  BY <1>2, <1>3, <1>4
<1> QED
  BY <1>5 DEF q

(* A window of minutes is cut along its buckets.                               *)
LEMMA WindowsAreWholeBuckets ==
  ASSUME NEW interval \in Nat \ {0}, NEW lo \in Int, NEW at \in Nat, NEW m \in Nat
  PROVE  m \in (interval * ((lo + interval - 1) \div interval))..(interval * (at \div interval) + interval - 1)
           <=> interval * (m \div interval) \in lo..at
<1> DEFINE k == m \div interval
           c == (lo + interval - 1) \div interval
           a == at \div interval
<1>1. k \in Int /\ interval * k <= m /\ m < interval * k + interval
  BY QuotientOfAny
<1>2. c \in Int /\ interval * c <= lo + interval - 1 /\ lo + interval - 1 < interval * c + interval
  <2>1. lo + interval - 1 \in Int
    OBVIOUS
  <2> QED
    BY <2>1, QuotientOfAny
<1>3. a \in Int /\ interval * a <= at /\ at < interval * a + interval
  BY QuotientOfAny
<1> HIDE DEF k, c, a
<1>4. interval * k \in Int /\ interval * c \in Int /\ interval * a \in Int
  BY <1>1, <1>2, <1>3
<1>5. (c <= k => interval * c <= interval * k) /\ (k < c => interval * k + interval <= interval * c)
  BY <1>1, <1>2, MultiplesApart
<1>6. (k <= a => interval * k <= interval * a) /\ (a < k => interval * a + interval <= interval * k)
  BY <1>1, <1>3, MultiplesApart
<1>7. interval * c <= m <=> lo <= interval * k
  BY <1>1, <1>2, <1>4, <1>5
<1>8. m <= interval * a + interval - 1 <=> interval * k <= at
  BY <1>1, <1>3, <1>4, <1>6
<1> DEFINE ic == interval * c
           ia == interval * a
           ik == interval * k
<1>9. m \in ic..(ia + interval - 1) <=> ik \in lo..at
  <2> HIDE DEF ic, ia, ik
  <2>1. ic \in Int /\ ia \in Int /\ ik \in Int
    BY <1>4 DEF ic, ia, ik
  <2>2. (ic <= m <=> lo <= ik) /\ (m <= ia + interval - 1 <=> ik <= at)
    BY <1>7, <1>8 DEF ic, ia, ik
  <2> QED
    BY <2>1, <2>2
<1> QED
  BY <1>9, Zenon DEF k, c, a

(* Each bucket of a record has the prices of the minutes in it.                 *)
LEMMA BucketsHavePrices ==
  ASSUME NEW n, NEW bars, Stamped(DOMAIN bars, n), \A m \in DOMAIN bars : bars[m] \in Prices,
         NEW interval \in Nat \ {0}
  PROVE  BarsAt(Resample(bars, interval), DOMAIN Resample(bars, interval), n)
<1> DEFINE D == DOMAIN bars
           group(k) == {m \in D : m \div interval = k}
           open(at) == bars[Min(group(at \div interval))].open
           high(at) == Max({bars[m].high : m \in group(at \div interval)})
           low(at) == Min({bars[m].low : m \in group(at \div interval)})
           close(at) == bars[Max(group(at \div interval))].close
           R == {interval * (m \div interval) : m \in D}
<1>1. Resample(bars, interval) = [at \in R |-> [open |-> open(at), high |-> high(at), low |-> low(at), close |-> close(at)]]
  BY Zenon DEF Resample, BucketOf
<1>2. n \in Nat /\ D \in SUBSET (0..n) /\ \A m \in D : m \in Nat /\ m <= n
  BY DEF Stamped
<1>3. MaxPrice \in Nat
  BY VolatilityAssumption
<1>4. \A m \in D : /\ bars[m].open \in 0..MaxPrice /\ bars[m].high \in 0..MaxPrice
                   /\ bars[m].low \in 0..MaxPrice /\ bars[m].close \in 0..MaxPrice
  BY DEF Prices
<1> HIDE DEF D
<1>5. ASSUME NEW at \in R
      PROVE  /\ at \in 0..n /\ group(at \div interval) # {}
             /\ group(at \div interval) \in SUBSET D
  <2>1. PICK m \in D : at = interval * (m \div interval)
    OBVIOUS
  <2>2. m \in Nat /\ m <= n /\ m \div interval \in Nat /\ interval * (m \div interval) <= m
    <3>1. m \in Nat /\ m <= n
      BY <1>2
    <3> DEFINE q == m \div interval
               r == m % interval
    <3>2. q \in Nat /\ r \in 0..(interval - 1) /\ m = interval * q + r
      BY <3>1, Quotient
    <3> HIDE DEF q, r
    <3>3. interval * q <= m
      BY <3>1, <3>2
    <3> QED
      BY <3>1, <3>2, <3>3 DEF q
  <2>3. at \div interval = m \div interval
    BY <2>1, <2>2, QuotientOfAMultiple
  <2>4. interval * (m \div interval) \in Nat
    BY <2>2
  <2>5. at \in 0..n
    BY <1>2, <2>1, <2>2, <2>4
  <2> QED
    BY <2>1, <2>3, <2>5
<1>6. ASSUME NEW G \in SUBSET D, G # {}
      PROVE  /\ Min(G) \in D /\ Max(G) \in D
             /\ Max({bars[m].high : m \in G}) \in 0..MaxPrice
             /\ Min({bars[m].low : m \in G}) \in 0..MaxPrice
  <2>1. G \in SUBSET Nat /\ G \in SUBSET (0..n)
    BY <1>2
  <2>2. Min(G) \in D /\ Max(G) \in D
    BY <1>2, <1>6, <2>1, LeastOf, GreatestOf
  <2> DEFINE highs == {bars[m].high : m \in G}
             lows == {bars[m].low : m \in G}
  <2>3. highs # {} /\ highs \in SUBSET (0..MaxPrice)
    BY <1>4, <1>6
  <2>4. lows # {} /\ lows \in SUBSET (0..MaxPrice) /\ lows \in SUBSET Nat
    BY <1>3, <1>4, <1>6
  <2> HIDE DEF highs, lows
  <2>5. Max(highs) \in 0..MaxPrice
    BY <1>3, <2>3, GreatestOf
  <2>6. Min(lows) \in 0..MaxPrice
    BY <2>4, LeastOf
  <2> QED
    BY <2>2, <2>5, <2>6 DEF highs, lows
<1>7. ASSUME NEW at \in R
      PROVE  /\ open(at) \in 0..MaxPrice /\ high(at) \in 0..MaxPrice
             /\ low(at) \in 0..MaxPrice /\ close(at) \in 0..MaxPrice
  <2> DEFINE G == group(at \div interval)
  <2>1. G \in SUBSET D /\ G # {}
    BY <1>5
  <2> HIDE DEF G
  <2>2. /\ bars[Min(G)].open \in 0..MaxPrice /\ bars[Max(G)].close \in 0..MaxPrice
        /\ Max({bars[m].high : m \in G}) \in 0..MaxPrice
        /\ Min({bars[m].low : m \in G}) \in 0..MaxPrice
    BY <1>4, <1>6, <2>1
  <2> QED
    BY <2>2 DEF G
<1>8. R \in SUBSET (0..n)
  BY <1>5
<1> HIDE DEF R, open, high, low, close, group
<1>9. [at \in R |-> [open |-> open(at), high |-> high(at), low |-> low(at), close |-> close(at)]] \in [R -> Prices]
  BY <1>7 DEF Prices
<1>10. Resample(bars, interval) \in [R -> Prices] /\ DOMAIN Resample(bars, interval) = R
  BY <1>1, <1>9
<1> QED
  BY <1>2, <1>8, <1>10 DEF BarsAt, Stamped

(* The buckets of the stored minutes of a window are the record's own.          *)
LEMMA WindowOfBuckets ==
  ASSUME NEW n, NEW bars, Stamped(DOMAIN bars, n), \A m \in DOMAIN bars : bars[m] \in Prices,
         NEW interval \in Nat \ {0}, NEW lo \in Int, NEW at \in Nat,
         NEW window, \A m \in DOMAIN bars : m \in window <=> interval * (m \div interval) \in lo..at
  PROVE  WindowOf(Resample(Stored(bars, window), interval), Resample(bars, interval),
                  DOMAIN Resample(bars, interval) \cap (lo..at))
<1> DEFINE D == DOMAIN bars
           own == Stored(bars, window)
           E == D \cap window
           R == {interval * (m \div interval) : m \in D}
           W == {interval * (m \div interval) : m \in E}
           group(k) == {m \in D : m \div interval = k}
           part(k) == {m \in E : m \div interval = k}
           bar(f, g) == [open |-> f[Min(g)].open, high |-> Max({f[m].high : m \in g}),
                         low |-> Min({f[m].low : m \in g}), close |-> f[Max(g)].close]
<1>1. DOMAIN own = E /\ \A m \in E : own[m] = bars[m]
  BY DEF Stored
<1>2. Resample(bars, interval) = [b \in R |-> bar(bars, group(b \div interval))]
  BY Zenon DEF Resample, BucketOf
<1>3. Resample(own, interval) = [b \in W |-> bar(own, part(b \div interval))]
  <2> HIDE DEF own, E
  <2> QED
    BY <1>1, Zenon DEF Resample, BucketOf
<1>4. n \in Nat /\ D \in SUBSET (0..n) /\ \A m \in D : m \in Nat
  BY DEF Stamped
<1> HIDE DEF D, own
<1>5. \A m \in D : m \in window <=> interval * (m \div interval) \in lo..at
  BY DEF D
<1>6. W = R \cap (lo..at)
  BY <1>5
<1>7. ASSUME NEW b \in W
      PROVE  /\ part(b \div interval) = group(b \div interval) /\ part(b \div interval) # {}
             /\ part(b \div interval) \in SUBSET E
  <2>1. PICK m \in E : b = interval * (m \div interval)
    OBVIOUS
  <2>2. m \in Nat /\ m \div interval \in Nat /\ m \in D
    BY <1>4, <2>1, Quotient
  <2>3. b \div interval = m \div interval
    BY <2>1, <2>2, QuotientOfAMultiple
  <2>4. ASSUME NEW k \in D, k \div interval = m \div interval PROVE k \in E
    BY <1>5, <2>1, <2>4
  <2> QED
    BY <2>1, <2>3, <2>4
<1>8. ASSUME NEW g \in SUBSET E, g # {}
      PROVE  bar(own, g) = bar(bars, g)
  <2>1. g \in SUBSET Nat /\ g \in SUBSET (0..n)
    BY <1>4
  <2>2. Min(g) \in g /\ Max(g) \in g
    BY <1>4, <1>8, <2>1, LeastOf, GreatestOf
  <2>3. own[Min(g)] = bars[Min(g)] /\ own[Max(g)] = bars[Max(g)]
    BY <1>1, <2>2
  <2>4. {own[m].high : m \in g} = {bars[m].high : m \in g} /\ {own[m].low : m \in g} = {bars[m].low : m \in g}
    BY <1>1
  <2> HIDE DEF E
  <2> QED
    BY <2>3, <2>4
<1> HIDE DEF E, R, W, bar, part, group
<1>9. \A b \in W : b \in R /\ bar(own, part(b \div interval)) = bar(bars, group(b \div interval))
  BY <1>6, <1>7, <1>8
<1>10. \A b \in W : Resample(own, interval)[b] = Resample(bars, interval)[b]
  BY <1>2, <1>3, <1>9
<1>11. DOMAIN Resample(bars, interval) = R /\ DOMAIN Resample(own, interval) = W
  BY <1>2, <1>3
<1>12. \A b \in R : Resample(bars, interval)[b] \in Prices
  <2>1. BarsAt(Resample(bars, interval), DOMAIN Resample(bars, interval), n)
    BY BucketsHavePrices
  <2> QED
    BY <1>11, <2>1 DEF BarsAt
<1>13. Resample(own, interval) \in [W -> Prices]
  <2>1. Resample(own, interval) = [b \in W |-> Resample(own, interval)[b]]
    BY <1>3
  <2>2. \A b \in W : Resample(own, interval)[b] \in Prices
    BY <1>9, <1>10, <1>12
  <2> QED
    BY <2>1, <2>2
<1> QED
  BY <1>6, <1>10, <1>11, <1>13 DEF WindowOf, own

(* The half of the chart that is read off the bars.                            *)
LEMMA FiguresHold == ASSUME ChartInvariant PROVE FigureIsItsWindow
<1> SUFFICES ASSUME NEW lookback \in 1..minute, NEW interval \in ValidIntervals(lookback),
                    NEW estimator \in Estimators, NEW at \in 0..minute
             PROVE  SameFigure(Rolling(Resample(Bars1m, interval), estimator, interval, lookback, 0..minute)[at],
                      WindowAtATime(Resample(Stored(Bars1m,
                        (interval * ((at - lookback + interval - 1) \div interval))
                          ..(interval * (at \div interval) + interval - 1)), interval), interval, estimator))
  BY Zenon DEF FigureIsItsWindow
<1> DEFINE lo == at - lookback
           window == (interval * ((lo + interval - 1) \div interval))..(interval * (at \div interval) + interval - 1)
           bars == Resample(Bars1m, interval)
           part == Resample(Stored(Bars1m, window), interval)
<1>1. minute \in Nat /\ lookback \in Nat /\ at \in Nat /\ at \in 0..minute /\ lo \in Int
  BY DEF ChartInvariant
<1>2. interval \in Nat \ {0} /\ interval <= lookback
  <2>1. interval \in Nat \ {0} /\ MinObservations \in Nat \ {0} /\ lookback >= MinObservations * interval
    BY VolatilityAssumption DEF ValidIntervals
  <2>2. 1 * interval <= MinObservations * interval /\ MinObservations * interval \in Nat
    BY <2>1, Times
  <2> QED
    BY <1>1, <2>1, <2>2
<1>3. Stamped(DOMAIN Bars1m, minute) /\ \A m \in DOMAIN Bars1m : Bars1m[m] \in Prices
  <2>1. Bars \cup Candles \subseteq Prices
    BY VolatilityAssumption DEF Prices
  <2>2. Bars1m = index \/ Bars1m = spot
    BY DEF Bars1m, Selected
  <2>3. 0..(minute - 1) \subseteq 0..minute
    BY <1>1
  <2> QED
    BY <1>1, <2>1, <2>2, <2>3 DEF Stamped, ChartInvariant
<1>4. \A m \in DOMAIN Bars1m : m \in window <=> interval * (m \div interval) \in lo..at
  <2> SUFFICES ASSUME NEW m \in DOMAIN Bars1m PROVE m \in window <=> interval * (m \div interval) \in lo..at
    OBVIOUS
  <2>1. m \in Nat
    BY <1>3 DEF Stamped
  <2> HIDE DEF lo
  <2> QED
    BY <1>1, <1>2, <2>1, WindowsAreWholeBuckets
<1>5. WindowOf(part, bars, DOMAIN bars \cap (lo..at))
  <2> HIDE DEF window, lo
  <2> QED
    BY <1>1, <1>2, <1>3, <1>4, WindowOfBuckets
<1>6. BarsAt(bars, DOMAIN bars, minute)
  BY <1>2, <1>3, BucketsHavePrices
<1>7. WindowOf(part, bars, DOMAIN bars \cap ((at - lookback)..at))
  BY <1>5
<1> HIDE DEF bars, part
<1>8. SameFigure(Rolling(bars, estimator, interval, lookback, 0..minute)[at],
                 WindowAtATime(part, interval, estimator))
  BY <1>1, <1>2, <1>6, <1>7, RollingIsItsWindow
<1> QED
  BY <1>8, Zenon DEF bars, part, window, lo

(* Every point of the chart is true. Its realised figure is the formula's over the  *)
(* stored minutes of its own window, whatever holes the record has: the prefix       *)
(* sums and bisections of rolling count and add exactly the observations of the       *)
(* window, and resample's buckets are whole in it. Its implied figure is read off     *)
(* the newest board that is not stale, between two listed expiries' variances         *)
(* (rolling, resample, atm_iv, _implied_at in realised_vol.py and iv_index.py).       *)
THEOREM PointsStayTrue == ChartSpec => []PointsAreTrue
<1>1. ChartInvariant => PointsAreTrue
  BY FiguresHold, ImpliedHolds DEF PointsAreTrue
<1> QED
  BY <1>1, ChartInvariantHolds, PTL
=============================================================================
