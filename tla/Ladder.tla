------------------------------- MODULE Ladder -------------------------------
(***************************************************************************)
(* From the venue's frame to a ladder, and from the ladder to a stored tick:   *)
(* the decoding of adapters/delta.py and wire.py, the events on their streams  *)
(* (events, redis_wire.py), the newest of each in the chain cache (stream.py),  *)
(* the fold into rows (chain.py), our own volatilities beside them              *)
(* (compute.py), and the two ways those take to the store (bars.py).           *)
(*                                                                         *)
(* One underlying and one expiry. A number is spelled as the venue spells it:   *)
(* "null" stands for every absent text, "zero" for "0", "junk" for NaN and      *)
(* Infinity, which json.loads lets through; "low" and "high" are numbers. What   *)
(* the arithmetic of the forward and the solver finds is an outcome.            *)
(***************************************************************************)
EXTENDS Integers, Sequences, FiniteSets

CONSTANTS
  Strikes,       \* the strikes listed
  MinPairs,      \* MIN_PAIRS: quoted pairs behind a trusted forward
  BookFrames,    \* the top of book a frame of ob_l2 may carry
  TickerFrames,  \* the fields a frame of ticker may carry
  MaxSent        \* bound: frames

Spelled == {"null", "zero", "junk", "low", "high"}
Rights == {"C", "P"}
Sides == {"call", "put"}

ASSUME LadderAssumption ==
  /\ Strikes \subseteq Nat /\ {MinPairs, MaxSent} \subseteq Nat
  /\ BookFrames \subseteq [bid : Spelled, bidSize : Spelled, ask : Spelled, askSize : Spelled]
  /\ TickerFrames \subseteq [id : Spelled, bid : Spelled, ask : Spelled, oi : Spelled, spot : Spelled]

Types == {"md.option_quote", "md.option_reference", "md.index_quote"}

VARIABLES
  wire,        \* per event type, the entries of its stream still to be read
  reference,   \* _reference: per canonical string, the instrument and the newest payload
  quote,       \* _quote, the same
  spot,        \* _spot, "absent" before the first
  sent,        \* bound: frames so far
  lastBook,    \* history: the newest frame of ob_l2 of each contract
  lastTicker,  \* history: the newest readable frame of ticker of each contract
  lastSpot     \* history: the newest readable spot of a frame

ladderVars == <<wire, reference, quote, spot, sent, lastBook, lastTicker, lastSpot>>

----------------------------------------------------------------------------
(* Contracts. A symbol and a canonical string are the parts they join by "-".    *)
Symbols == {<<r, "BTC", k, "expiry">> : r \in Rights, k \in Strikes}
OddSymbol == <<"MV", "BTC">>

(* instrument_from_symbol: at most one.                                     *)
InstrumentsOf(symbol) ==
  {[venue |-> "DELTA", underlying |-> symbol[2], expiry |-> symbol[4], strike |-> symbol[3],
    right |-> symbol[1], venueSymbol |-> symbol, quoteCurrency |-> "USD",
    settlementCurrency |-> "USD"] : s \in {symbol} \cap Symbols}

Canonical(i) == <<i.venue, i.underlying, i.expiry, i.strike, i.right, i.quoteCurrency>>

(* Neither the venue's symbol nor the settlement currency is in the string.      *)
FromCanonical(text, symbol) ==
  [venue |-> text[1], underlying |-> text[2], expiry |-> text[3], strike |-> text[4],
   right |-> text[5], venueSymbol |-> symbol, quoteCurrency |-> text[6],
   settlementCurrency |-> "USD"]

Side(i) == IF i.right = "C" THEN "call" ELSE "put"

----------------------------------------------------------------------------
(* Numbers at the boundary.                                                 *)
ToNumber(v) == IF v = "null" THEN "absent" ELSE v
ToQuoteNumber(v) == IF v \in {"null", "zero"} THEN "absent" ELSE v
Finite(v) == IF v = "junk" THEN "absent" ELSE v

(* A level is guarded as a pair: no size without its price.                  *)
PriceOf(price) == Finite(ToQuoteNumber(price))
SizeOf(price, size) == IF PriceOf(price) = "absent" THEN "absent" ELSE Finite(ToQuoteNumber(size))

Event(type, about, payload) == [type |-> type, about |-> about, payload |-> payload]

QuoteEvent(i, f) ==
  Event("md.option_quote", {i}, [bid |-> PriceOf(f.bid), bidSize |-> SizeOf(f.bid, f.bidSize),
                                 ask |-> PriceOf(f.ask), askSize |-> SizeOf(f.ask, f.askSize)])

ReferenceEvent(i, f) ==
  Event("md.option_reference", {i}, [productId |-> ToNumber(f.id), bid |-> PriceOf(f.bid), ask |-> PriceOf(f.ask),
                                     oi |-> Finite(ToNumber(f.oi))])

IndexEvents(f) ==
  IF PriceOf(f.spot) = "absent" THEN {}
  ELSE {Event("md.index_quote", {}, [spot |-> PriceOf(f.spot)])}

(* to_int cannot make an integer of NaN: the exception ends the frame.          *)
Readable(channel, f) == channel = "ob_l2" \/ f.id # "junk"

(* An event refuses a number that is not finite, and the whole frame with it.     *)
Unfinite(event) == \E field \in DOMAIN event.payload : event.payload[field] = "junk"
Constructed(events) == IF \E event \in events : Unfinite(event) THEN {} ELSE events

Decoded(channel, symbol, f) ==
  IF InstrumentsOf(symbol) = {} \/ ~Readable(channel, f) THEN {}
  ELSE LET i == CHOOSE j \in InstrumentsOf(symbol) : TRUE
       IN Constructed(IF channel = "ob_l2" THEN {QuoteEvent(i, f)}
                      ELSE {ReferenceEvent(i, f)} \cup IndexEvents(f))

----------------------------------------------------------------------------
(* redis_wire: an event as the fields of its entry, and back.                 *)
Encode(event) ==
  [type |-> event.type, instrument |-> {Canonical(i) : i \in event.about},
   venueSymbol |-> {i.venueSymbol : i \in event.about}, payload |-> event.payload]

FromWire(entry) ==
  LET symbol == IF entry.venueSymbol = {} THEN <<>> ELSE CHOOSE s \in entry.venueSymbol : TRUE
  IN Event(entry.type, {FromCanonical(text, symbol) : text \in entry.instrument}, entry.payload)

(* A cache that has heard of nothing, or of every contract and one spot.        *)
LadderInit ==
  /\ wire = [t \in Types |-> <<>>] /\ quote = {} /\ lastBook = <<>> /\ sent = 0
  /\ \/ reference = {} /\ spot = "absent" /\ lastTicker = <<>> /\ lastSpot = "absent"
     \/ \E f \in {g \in TickerFrames : g.id # "junk" /\ g.spot \in {"low", "high"}} :
          /\ reference = {[key |-> Canonical(i), instrument |-> i, payload |-> ReferenceEvent(i, f).payload]
                            : i \in UNION {InstrumentsOf(symbol) : symbol \in Symbols}}
          /\ spot = f.spot /\ lastTicker = [symbol \in Symbols |-> f] /\ lastSpot = f.spot

(* handle: one frame, its events, at most one of a type, each at the end of its  *)
(* stream.                                                                  *)
OnTheWire(events) ==
  wire' = [t \in Types |-> IF \E event \in events : event.type = t
                           THEN Append(wire[t], Encode(CHOOSE event \in events : event.type = t))
                           ELSE wire[t]]

Remembered(frames, symbol, f) == [s \in DOMAIN frames \cup {symbol} |-> IF s = symbol THEN f ELSE frames[s]]

BookArrives(symbol, f) ==
  /\ sent < MaxSent /\ sent' = sent + 1
  /\ OnTheWire(Decoded("ob_l2", symbol, f))
  /\ lastBook' = Remembered(lastBook, symbol, f)
  /\ UNCHANGED <<reference, quote, spot, lastTicker, lastSpot>>

TickerArrives(symbol, f) ==
  /\ sent < MaxSent /\ sent' = sent + 1
  /\ OnTheWire(Decoded("ticker", symbol, f))
  /\ IF f.id = "junk" \/ symbol = OddSymbol THEN UNCHANGED <<lastTicker, lastSpot>>
     ELSE /\ lastTicker' = Remembered(lastTicker, symbol, f)
          /\ lastSpot' = IF f.spot \in {"low", "high"} THEN f.spot ELSE lastSpot
  /\ UNCHANGED <<reference, quote, spot, lastBook>>

(* ChainStream.apply: the newest of its kind for its instrument. The streams are  *)
(* read one by one, in any order.                                            *)
NewestOf(cache, i, payload) ==
  {entry \in cache : entry.key # Canonical(i)}
    \cup {[key |-> Canonical(i), instrument |-> i, payload |-> payload]}

Applied(event) ==
  CASE event.type = "md.index_quote" ->
         spot' = event.payload.spot /\ UNCHANGED <<reference, quote>>
    [] event.type = "md.option_reference" ->
         (\E i \in event.about : reference' = NewestOf(reference, i, event.payload))
         /\ UNCHANGED <<quote, spot>>
    [] event.type = "md.option_quote" ->
         (\E i \in event.about : quote' = NewestOf(quote, i, event.payload))
         /\ UNCHANGED <<reference, spot>>

Applies(type) ==
  /\ wire[type] # <<>> /\ wire' = [wire EXCEPT ![type] = Tail(@)]
  /\ Applied(FromWire(Head(wire[type])))
  /\ UNCHANGED <<sent, lastBook, lastTicker, lastSpot>>

LadderNext ==
  \/ \E symbol \in Symbols \cup {OddSymbol} :
       \/ \E f \in BookFrames : BookArrives(symbol, f)
       \/ \E f \in TickerFrames : TickerArrives(symbol, f)
  \/ \E type \in Types : Applies(type)

LadderSpec == LadderInit /\ [][LadderNext]_ladderVars

----------------------------------------------------------------------------
(* leg_from_events: the book's pair where it quotes either side, else the        *)
(* reference's; never one of each.                                           *)
Quoting(books) == {b \in books : b.bid # "absent" \/ b.ask # "absent"}

SideBySide(r, books) ==
  [bid |-> IF \E b \in books : b.bid # "absent" THEN (CHOOSE b \in books : TRUE).bid ELSE r.bid,
   ask |-> IF \E b \in books : b.ask # "absent" THEN (CHOOSE b \in books : TRUE).ask ELSE r.ask]

BookOverTicker(r, books) ==
  LET pair == IF Quoting(books) = {} THEN r ELSE CHOOSE b \in Quoting(books) : TRUE
  IN [bid |-> pair.bid, ask |-> pair.ask]

LegFromEvents(i, r, books) ==
  LET top == BookOverTicker(r, books)
  IN [symbol |-> i.venueSymbol, productId |-> r.productId, bid |-> top.bid, ask |-> top.ask, oi |-> r.oi]

(* chain_from_legs: a row for each strike with a leg, a leg for each side of it.   *)
Numbers == [low |-> 1, high |-> 4]
Distance(a, b) == IF a > b THEN a - b ELSE b - a

(* nearest_strike, the lower of two as near; at most one.                      *)
NearestStrike(strikes, price) ==
  IF price = "absent" THEN {}
  ELSE LET far(k) == Distance(k, Numbers[price])
       IN {k \in strikes : \A l \in strikes : far(k) < far(l) \/ (far(k) = far(l) /\ k <= l)}

ChainFromLegs(legs, price) ==
  LET strikes == {l.strike : l \in legs}
      at(k) == {l \in legs : l.strike = k}
  IN [spot |-> price, atm |-> NearestStrike(strikes, price),
      rows |-> [k \in strikes |-> [s \in {l.side : l \in at(k)} |-> (CHOOSE l \in at(k) : l.side = s).leg]]]

RawChain ==
  ChainFromLegs({[strike |-> r.instrument.strike, side |-> Side(r.instrument),
                  leg |-> LegFromEvents(r.instrument, r.payload, {q.payload : q \in {p \in quote : p.key = r.key}})]
                   : r \in reference}, spot)

(* build_chain: the ladder of the venue's own snapshot, in which the numbers are    *)
(* texts and NaN is an absent one.                                          *)
TextNumber(v) == IF v \in {"null", "junk"} THEN "absent" ELSE v
TextQuote(v) == IF TextNumber(v) = "zero" THEN "absent" ELSE TextNumber(v)

BuildLeg(symbol, t) ==
  [symbol |-> symbol, productId |-> TextNumber(t.id), bid |-> TextQuote(t.bid), ask |-> TextQuote(t.ask),
   oi |-> TextNumber(t.oi)]

BuildChain(tickers, price) ==
  ChainFromLegs({[strike |-> s[3], side |-> IF s[1] = "C" THEN "call" ELSE "put", leg |-> BuildLeg(s, tickers[s])]
                   : s \in DOMAIN tickers}, price)

----------------------------------------------------------------------------
(* forward.py and compute.py. An outcome says what the arithmetic finds: a line    *)
(* through the pairs, a plausible rate, time to expiry, the forward, and a          *)
(* volatility that converges.                                                *)
Outcomes == [line : BOOLEAN, rate : BOOLEAN, years : BOOLEAN, forward : Strikes, converges : BOOLEAN]

QuotedBoth(row, side) == side \in DOMAIN row /\ row[side].bid # "absent" /\ row[side].ask # "absent"
ParityPairs(chain) == {k \in DOMAIN chain.rows : QuotedBoth(chain.rows[k], "call") /\ QuotedBoth(chain.rows[k], "put")}

F1(chain, o) ==
  LET pairs == Cardinality(ParityPairs(chain))
      fits == pairs >= 2 /\ o.line
  IN [method |-> "F1", forward |-> IF fits THEN {o.forward} ELSE {}, pairs |-> pairs,
      trusted |-> fits /\ pairs >= MinPairs /\ o.rate]

(* The money strike alone, which must be quoted on both sides.                 *)
F2(chain, o) ==
  LET priced == chain.atm \cap ParityPairs(chain)
  IN [method |-> "F2", forward |-> IF priced = {} THEN {} ELSE {o.forward},
      pairs |-> Cardinality(priced), trusted |-> priced # {}]

ForwardFit(chain, o) ==
  LET f1 == F1(chain, o)
  IN CASE f1.trusted \/ ~o.years -> f1
       [] ~f1.trusted /\ o.years /\ f1.forward # {} /\ f1.pairs >= MinPairs ->
            [f1 EXCEPT !.method = "F1+assumed-rate", !.trusted = TRUE]
       [] OTHER -> IF F2(chain, o).trusted THEN F2(chain, o) ELSE f1

(* What a leg is given: a volatility with its Greeks, or a reason.              *)
Unpriced(leg, reason) == [iv |-> {}, ivLeg |-> leg, reason |-> reason, greeks |-> "absent"]
Priced(leg, strike) == [iv |-> {strike}, ivLeg |-> leg, reason |-> "", greeks |-> "greeks"]

(* The out-of-the-money side of a strike: calls from the forward up.            *)
OutOfTheMoney(strike, forward) == IF strike >= forward THEN "call" ELSE "put"

ComputedAt(row, strike, forward, o) ==
  LET leg == OutOfTheMoney(strike, forward)
  IN IF ~QuotedBoth(row, leg) THEN Unpriced(leg, IF leg \in DOMAIN row THEN "no quote" ELSE "no leg")
     ELSE IF o.converges THEN Priced(leg, strike) ELSE Unpriced(leg, "no solution")

Computed(chain, fit, strike, o) ==
  IF ~fit.trusted \/ fit.forward = {} \/ ~o.years
    THEN Unpriced("none", IF o.years THEN "no forward" ELSE "expired")
    ELSE ComputedAt(chain.rows[strike], strike, CHOOSE f \in fit.forward : TRUE, o)

Enrich(chain, o) ==
  LET fit == ForwardFit(chain, o)
      solved == fit.trusted /\ fit.forward # {} /\ o.years
  IN [rows |-> [k \in DOMAIN chain.rows |->
                 [s \in DOMAIN chain.rows[k] |->
                   [leg |-> chain.rows[k][s], computed |-> Computed(chain, fit, k, o)]]],
      forward |-> IF solved THEN fit.forward ELSE {},
      method |-> fit.method]

----------------------------------------------------------------------------
(* The ticks of the store. The monolith makes them of the ladder, the split       *)
(* engine of the md.computed_chain it publishes; a store says "solved" by an      *)
(* absent reason, a ladder by an empty one.                                  *)
ReasonStored(reason) == IF reason = "" THEN "absent" ELSE reason

StoredTick(symbol, computed, chain) ==
  [symbol |-> symbol, iv |-> computed.iv, ivLeg |-> computed.ivLeg, greeks |-> computed.greeks,
   reason |-> ReasonStored(computed.reason), forward |-> chain.forward, method |-> chain.method]

LegsOf(rows) == UNION {{rows[k][s] : s \in DOMAIN rows[k]} : k \in DOMAIN rows}

ComputedTicksFromChain(chain) == {StoredTick(l.leg.symbol, l.computed, chain) : l \in LegsOf(chain.rows)}

(* computed_chain_event: per strike a call and a put, or none.                  *)
ComputedChainEvent(chain) ==
  [forward |-> chain.forward, method |-> chain.method,
   strikes |-> {[s \in Sides |-> IF s \in DOMAIN chain.rows[k]
                                   THEN {[symbol |-> chain.rows[k][s].leg.symbol,
                                          computed |-> chain.rows[k][s].computed]} ELSE {}]
                  : k \in DOMAIN chain.rows}]

ComputedTicksFromEvent(event) ==
  {[symbol |-> l.symbol, iv |-> l.computed.iv, ivLeg |-> l.computed.ivLeg, greeks |-> l.computed.greeks,
    reason |-> ReasonStored(l.computed.reason), forward |-> event.forward, method |-> event.method]
     : l \in UNION {strike["call"] \cup strike["put"] : strike \in event.strikes}}

----------------------------------------------------------------------------
AllRead == \A t \in Types : wire[t] = <<>>

(* What a price, and what open interest, is when it is spelled so.              *)
Meant(v) == IF v \in {"low", "high"} THEN v ELSE "absent"
Counted(v) == IF v \in {"zero", "low", "high"} THEN v ELSE "absent"

(* Once every entry is read, the ladder is what the venue said last: a leg for     *)
(* each contract with a readable ticker and for no other, under the venue's name;   *)
(* the book's pair if its last frame quoted either side, else the ticker's; no       *)
(* quote where nobody quotes and an open interest of zero where it is zero; and      *)
(* no number that is not one, which costs a field and never a frame. Where no book   *)
(* has come, a snapshot of the venue that says the same gives the same ladder.       *)
LadderSaysWhatTheVenueSaid ==
  sent > 0 /\ AllRead =>
    /\ RawChain.spot = lastSpot
    /\ {<<l.symbol, l.bid, l.ask, l.oi>> : l \in LegsOf(RawChain.rows)} =
       {LET t == lastTicker[s]
            quoted == s \in DOMAIN lastBook /\ {Meant(lastBook[s].bid), Meant(lastBook[s].ask)} # {"absent"}
            top == IF quoted THEN <<lastBook[s].bid, lastBook[s].ask>> ELSE <<t.bid, t.ask>>
        IN <<s, Meant(top[1]), Meant(top[2]), Counted(t.oi)>> : s \in DOMAIN lastTicker}
    /\ lastBook = <<>> => RawChain = BuildChain(lastTicker, spot)

(* Whatever the arithmetic finds: a strike shows one volatility, on each of its     *)
(* legs, only if its out-of-the-money leg is quoted on both sides, with Greeks if    *)
(* and only if there is one and a reason if there is none; and the store is given    *)
(* the same ticks by the monolith and through the bus.                            *)
FiguresTravel ==
  reference # {} /\ AllRead =>
    \A o \in Outcomes :
      LET chain == Enrich(RawChain, o)
      IN /\ \A k \in DOMAIN chain.rows : \A s \in DOMAIN chain.rows[k] :
              LET c == chain.rows[k][s].computed
              IN /\ c.iv # {} => /\ chain.forward # {} /\ c.ivLeg \in DOMAIN chain.rows[k]
                                       /\ "absent" \notin {chain.rows[k][c.ivLeg].leg.bid, chain.rows[k][c.ivLeg].leg.ask}
                 /\ (c.iv = {}) = (c.greeks = "absent") /\ (c.iv = {}) = (c.reason # "")
                 /\ \A r \in DOMAIN chain.rows[k] : chain.rows[k][r].computed = c
         /\ ComputedTicksFromChain(chain) = ComputedTicksFromEvent(ComputedChainEvent(chain))

(* Both: what is shown is what the venue said and what follows from it, and the      *)
(* store is told what is shown.                                              *)
LadderIsTrue == LadderSaysWhatTheVenueSaid /\ FiguresTravel
=============================================================================
