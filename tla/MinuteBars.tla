----------------------------- MODULE MinuteBars -----------------------------
(***************************************************************************)
(* bars.py for one contract and its underlying: the events of the bus are    *)
(* folded into the open minutes of four tables, and a minute is emitted as a *)
(* bar once the clock has passed its end and the table's grace.             *)
(*                                                                         *)
(* Stamps and the clock count the same unit, minute m is the stamps from      *)
(* m * Width, and a price is a number. A mid is kept doubled, as bid + ask.  *)
(* Events the converters refuse (no stamp, no symbol) are left out.          *)
(***************************************************************************)
EXTENDS Integers, FiniteSets

CONSTANTS
  Width,           \* BUCKET_US, in units of the clock
  BookGrace,       \* GRACE_SECONDS
  ReferenceGrace,  \* TICKER_GRACE_SECONDS
  ComputedGrace,   \* COMPUTED_GRACE_SECONDS, or COMPUTED_SPLIT_GRACE_SECONDS
  BookLag,         \* the measured lag of md.option_quote
  ReferenceLag,    \* the measured lag of md.option_reference
  ComputedLag,     \* the transit of a computed chain, none in the monolith
  Books,           \* the bid and ask an md.option_quote may carry
  References,      \* the prices of an md.option_reference, and whether it has any level
  Spots,           \* the prices of md.index_quote
  Restores,        \* the watermarks a checkpoint may bring, -1 for none
  None,            \* an absent price
  MaxFrames,       \* bound: events
  MaxAge,          \* bound: how old an event may arrive
  MaxTime          \* bound: the clock

Tables == {"quote", "reference", "spot", "computed"}
Price == Nat \cup {None}

ASSUME BarsAssumption ==
  /\ Width \in Nat \ {0}
  /\ {BookGrace, ReferenceGrace, ComputedGrace, BookLag, ReferenceLag, ComputedLag} \subseteq Nat
  /\ BookLag <= BookGrace /\ ReferenceLag <= ReferenceGrace /\ ComputedLag <= ComputedGrace
  /\ BookGrace <= ReferenceGrace
  /\ None \notin Nat
  /\ Books \subseteq [bid : Price, ask : Price]
  /\ References \subseteq [bid : Price, ask : Price, mark : Price, ltp : Price, levels : BOOLEAN]
  /\ Spots \subseteq Nat
  /\ Restores \subseteq [Tables -> Nat \cup {-1}]
  /\ {MaxFrames, MaxAge, MaxTime} \subseteq Nat

VARIABLES
  now,       \* the writer's clock
  open,      \* _open: per table, what its open minutes hold
  through,   \* _sealed_through_us, as a minute
  restored,  \* _restored_through_us, as a minute
  frames,    \* bound: events so far; an event's number is its place in the arrivals
  emitted,   \* history: the bars handed to the store
  accepted,  \* history: per table, the ticks folded
  late       \* history: the event and the age of every tick counted as late

barHistory == <<emitted, accepted, late>>
barVars == <<now, open, through, restored, frames, barHistory>>

BarsInit ==
  /\ now = 0
  /\ open = [t \in Tables |-> <<>>]
  /\ restored \in Restores
  /\ through = restored
  /\ frames = 0
  /\ emitted = {} /\ accepted = [t \in Tables |-> {}] /\ late = {}

----------------------------------------------------------------------------
MinuteOf(at) == at \div Width

(* _Series: the extremes by value, the open and the close by the venue's     *)
(* stamp. Of two ticks with one stamp the first opens and the second closes. *)
NoSeries == [ticks |-> 0, open |-> None, high |-> None, low |-> None, close |-> None,
             openAt |-> 0, closeAt |-> 0]

First(v, at) == [ticks |-> 1, open |-> v, high |-> v, low |-> v, close |-> v,
                 openAt |-> at, closeAt |-> at]

Opens(series, at) == at < series.openAt
ClosesAsReceived(series, at) == TRUE
Closes(series, at) == at >= series.closeAt

Updated(series, v, at) ==
  [ticks   |-> series.ticks + 1,
   open    |-> IF Opens(series, at) THEN v ELSE series.open,
   high    |-> IF v > series.high THEN v ELSE series.high,
   low     |-> IF v < series.low THEN v ELSE series.low,
   close   |-> IF Closes(series, at) THEN v ELSE series.close,
   openAt  |-> IF Opens(series, at) THEN at ELSE series.openAt,
   closeAt |-> IF Closes(series, at) THEN at ELSE series.closeAt]

(* An absent price advances nothing.                                        *)
Update(series, v, at) ==
  CASE v = None -> series
    [] v # None /\ series.ticks = 0 -> First(v, at)
    [] OTHER -> Updated(series, v, at)

(* _Last: one sample, the newest by its stamp, and of equals the last taken. *)
NoSample == [at |-> -1, no |-> 0]
UpdateLast(last, tick) ==
  IF tick.at >= last.at THEN [at |-> tick.at, no |-> tick.no] ELSE last

Mid(bid, ask) == IF bid = None \/ ask = None THEN None ELSE bid + ask

----------------------------------------------------------------------------
(* What a bucket holds before its first tick, and with one more.             *)
NoQuotes == [bid |-> NoSeries, ask |-> NoSeries, mid |-> NoSeries]

Empty(t) ==
  CASE t = "quote"     -> [book |-> NoQuotes, reference |-> NoQuotes]
    [] t = "reference" -> [mark |-> NoSeries, ltp |-> NoSeries, last |-> NoSample]
    [] t = "spot"      -> [spot |-> NoSeries]
    [] t = "computed"  -> [last |-> NoSample]

WithQuote(quotes, tick) ==
  [bid |-> Update(quotes.bid, tick.bid, tick.at),
   ask |-> Update(quotes.ask, tick.ask, tick.at),
   mid |-> Update(quotes.mid, Mid(tick.bid, tick.ask), tick.at)]

(* The two sources of a quote are kept apart: _Sources.of.                   *)
OwnSet(bucket, tick) ==
  IF tick.source = "book"
    THEN [book |-> WithQuote(bucket.book, tick), reference |-> bucket.reference]
    ELSE [book |-> bucket.book, reference |-> WithQuote(bucket.reference, tick)]

Folded(t, bucket, tick) ==
  CASE t = "quote"     -> OwnSet(bucket, tick)
    [] t = "reference" -> [mark |-> Update(bucket.mark, tick.mark, tick.at),
                           ltp  |-> Update(bucket.ltp, tick.ltp, tick.at),
                           last |-> UpdateLast(bucket.last, tick)]
    [] t = "spot"      -> [spot |-> Update(bucket.spot, tick.spot, tick.at)]
    [] t = "computed"  -> [last |-> UpdateLast(bucket.last, tick)]

(* _emit: the book's series if it saw anything, the fallback's otherwise.    *)
Observed(quotes) == quotes.bid.ticks + quotes.ask.ticks > 0
BarOf(t, bucket) ==
  IF t = "quote"
    THEN [fromBook |-> Observed(bucket.book),
          quotes |-> IF Observed(bucket.book) THEN bucket.book ELSE bucket.reference]
    ELSE bucket

----------------------------------------------------------------------------
(* add, once per table an event feeds. A tick at or below the watermark is   *)
(* counted and refused.                                                     *)
Sealed(t, minute) == minute <= through[t]

Takes(t, tick) == tick # None /\ ~Sealed(t, MinuteOf(tick.at))

OpenWith(t, tick) ==
  LET m == MinuteOf(tick.at)
      bucket == IF m \in DOMAIN open[t] THEN open[t][m] ELSE Empty(t)
  IN  [i \in DOMAIN open[t] \cup {m} |->
         IF i = m THEN Folded(t, bucket, tick) ELSE open[t][i]]

(* ingest: `ticks' is what the event is worth to each table, None to most.    *)
Ingest(kind, at, ticks) ==
  /\ frames < MaxFrames
  /\ frames' = frames + 1
  /\ open' = [t \in Tables |-> IF Takes(t, ticks[t]) THEN OpenWith(t, ticks[t]) ELSE open[t]]
  /\ accepted' = [t \in Tables |->
                    accepted[t] \cup (IF Takes(t, ticks[t]) THEN {ticks[t]} ELSE {})]
  /\ late' = late \cup
       {[kind |-> kind, age |-> now - at] :
          t \in {u \in Tables : /\ ticks[u] # None
                                /\ Sealed(u, MinuteOf(at))
                                /\ MinuteOf(at) > restored[u]}}
  /\ UNCHANGED <<now, through, restored, emitted>>

Worth(quote, reference, spot, computed) ==
  [t \in Tables |-> CASE t = "quote" -> quote [] t = "reference" -> reference
                      [] t = "spot" -> spot [] t = "computed" -> computed]

QuoteTick(at, source, c) ==
  IF c.bid = None /\ c.ask = None
    THEN None
    ELSE [at |-> at, no |-> frames, source |-> source, bid |-> c.bid, ask |-> c.ask]

OptionQuote(at, c) ==
  Ingest("option_quote", at, Worth(QuoteTick(at, "book", c), None, None, None))

(* ReferenceTick.observed: a mark, a last price or one of the eleven levels.   *)
(* The reference's own bid and ask are the quote bar's business.             *)
SomethingObserved(c) == c.mark # None \/ c.ltp # None \/ c.levels

ReferenceTick(at, c) ==
  IF SomethingObserved(c)
    THEN [at |-> at, no |-> frames, mark |-> c.mark, ltp |-> c.ltp]
    ELSE None

OptionReference(at, c) ==
  Ingest("option_reference", at,
         Worth(QuoteTick(at, "reference", c), ReferenceTick(at, c), None, None))

IndexQuote(at, price) ==
  Ingest("index_quote", at, Worth(None, None, [at |-> at, no |-> frames, spot |-> price], None))

(* A computed chain is stamped with the instant it was computed.             *)
Sample(at) == Ingest("computed", at, Worth(None, None, None, [at |-> at, no |-> frames]))

----------------------------------------------------------------------------
(* What each table waits for after a minute's end. The quote bars wait for   *)
(* their fallback; the computed ones for nothing in the monolith, which reads  *)
(* the cache itself, and for the transit of the event in the split.          *)
SealsOnTheBook == [t \in Tables |-> CASE t = "quote" -> BookGrace
                                     [] t = "computed" -> ComputedGrace
                                     [] OTHER -> ReferenceGrace]
Grace == [t \in Tables |-> IF t = "computed" THEN ComputedGrace ELSE ReferenceGrace]

Boundary(t) == MinuteOf(now - Grace[t]) - 1

(* The watermark moves whether or not anything was open.                     *)
Reached(t) == Boundary(t)

(* seal: all four tables at one reading of the clock.                        *)
Ready(t) == {m \in DOMAIN open[t] : m <= Boundary(t)}

Emit(due) ==
  /\ open' = [t \in Tables |-> [m \in DOMAIN open[t] \ due[t] |-> open[t][m]]]
  /\ emitted' = emitted \cup
       UNION {{[table |-> t, minute |-> m, bar |-> BarOf(t, open[t][m])] : m \in due[t]}
                : t \in Tables}

Seal ==
  /\ Emit([t \in Tables |-> Ready(t)])
  /\ through' = [t \in Tables |-> IF Reached(t) > through[t] THEN Reached(t) ELSE through[t]]
  /\ UNCHANGED <<now, restored, frames, accepted, late>>

(* flush: every open minute, as the writer closes; it folds nothing after.   *)
Newest(t) == CHOOSE m \in DOMAIN open[t] : \A i \in DOMAIN open[t] : i <= m
Flush ==
  /\ Emit([t \in Tables |-> DOMAIN open[t]])
  /\ through' = [t \in Tables |-> IF DOMAIN open[t] # {} /\ Newest(t) > through[t]
                                    THEN Newest(t) ELSE through[t]]
  /\ frames' = MaxFrames
  /\ UNCHANGED <<now, restored, accepted, late>>

Tick ==
  /\ now < MaxTime
  /\ now' = now + 1
  /\ UNCHANGED <<open, through, restored, frames, barHistory>>

Stamps == {at \in (now - MaxAge)..now : at >= 0}

BarsNext ==
  \/ \E at \in Stamps : \/ \E c \in Books : OptionQuote(at, c)
                        \/ \E c \in References : OptionReference(at, c)
                        \/ \E price \in Spots : IndexQuote(at, price)
                        \/ Sample(at)
  \/ Seal \/ Flush \/ Tick

BarsSpec == BarsInit /\ [][BarsNext]_barVars

----------------------------------------------------------------------------
(* What a bar says of the ticks of its minute, whatever order they came in.  *)
Of(t, minute) == {x \in accepted[t] : MinuteOf(x.at) = minute}

(* The prices of one field, each with its stamp and its place.               *)
Points(ticks, f) ==
  {[at |-> x.at, no |-> x.no, v |-> x[f]] : x \in {y \in ticks : y[f] # None}}
Mids(ticks) ==
  {[at |-> x.at, no |-> x.no, v |-> x.bid + x.ask] :
     x \in {y \in ticks : y.bid # None /\ y.ask # None}}

Before(p, q) == p.at < q.at \/ (p.at = q.at /\ p.no <= q.no)

Summary(series, points) ==
  /\ series.ticks = Cardinality(points)
  /\ points # {} =>
       /\ \E p \in points : series.open = p.v /\ \A q \in points : Before(p, q)
       /\ \E p \in points : series.close = p.v /\ \A q \in points : Before(q, p)
       /\ \E p \in points : series.high = p.v /\ \A q \in points : q.v <= p.v
       /\ \E p \in points : series.low = p.v /\ \A q \in points : q.v >= p.v

Latest(last, ticks) ==
  \E x \in ticks : last = [at |-> x.at, no |-> x.no] /\ \A y \in ticks : Before(y, x)

QuoteSummary(quotes, ticks) ==
  /\ Summary(quotes.bid, Points(ticks, "bid"))
  /\ Summary(quotes.ask, Points(ticks, "ask"))
  /\ Summary(quotes.mid, Mids(ticks))

Describes(t, bar, ticks) ==
  CASE t = "quote" ->
         LET book == {x \in ticks : x.source = "book"}
         IN  /\ bar.fromBook <=> book # {}
             /\ QuoteSummary(bar.quotes, IF book # {} THEN book ELSE ticks)
    [] t = "reference" -> /\ Summary(bar.mark, Points(ticks, "mark"))
                          /\ Summary(bar.ltp, Points(ticks, "ltp"))
                          /\ Latest(bar.last, ticks)
    [] t = "spot"      -> Summary(bar.spot, Points(ticks, "spot"))
    [] t = "computed"  -> Latest(bar.last, ticks)

(* A bar is its minute: whatever order the network brought the ticks in, and *)
(* however the book and its fallback alternated, the open and the close are   *)
(* the venue's first and last, the extremes are reached, a mid is that of one *)
(* tick, the book alone speaks when it spoke at all, and no bar is empty.     *)
BarIsTheMinute ==
  \A e \in emitted : /\ Of(e.table, e.minute) # {}
                     /\ Describes(e.table, e.bar, Of(e.table, e.minute))

(* One bar a minute: what was emitted, by this process or by the one whose   *)
(* checkpoint it restored, is never opened again, so no minute has two rows. *)
OneBarPerMinute ==
  \A t \in Tables :
    /\ \A e \in emitted : e.table = t => e.minute \notin DOMAIN open[t] /\ e.minute > restored[t]
    /\ \A m \in DOMAIN open[t] : m > restored[t]

(* Late counts stragglers only: an event no older than the lag measured of    *)
(* its stream finds its minute open, the reference that is a quote's fallback *)
(* and the computed chain that crossed the bus included.                     *)
Lag(kind) == CASE kind = "option_quote" -> BookLag
               [] kind = "computed" -> ComputedLag
               [] OTHER -> ReferenceLag
OnlyStragglersAreLate == \A x \in late : x.age > Lag(x.kind)

(* A minute gets one bar, of every tick that was not a straggler.             *)
EveryMinuteOnce == OneBarPerMinute /\ OnlyStragglersAreLate

=============================================================================
