--------------------------- MODULE Bars_proofs ---------------------------
(***************************************************************************)
(* Proofs about the way of the data: from the venue's frames to a ladder, from      *)
(* the events to a bar, and from the bar to a file and into an answer.             *)
(*                                                                         *)
(* A bar is its minute and a minute gets one bar, for every width, grace, set of   *)
(* prices and number of events, in whatever order they arrive. The open minutes    *)
(* are compared with the ticks they took: what a series holds is a summary of a    *)
(* set of points that a further point extends. The watermark divides the minutes:  *)
(* above it are the open ones, below it those whose ticks are settled.           *)
(*                                                                         *)
(* A bar is kept once and no read misses it, for every cadence whose horizon has   *)
(* the headroom of a flush, and any number of minutes, pauses, crashes and failed   *)
(* flushes. The files are divided too: the settled ones, which nothing touches,    *)
(* and those of the name the next flush uses, whose rows are still in the buffer.  *)
(*                                                                         *)
(* The ladder is what the venue said last, for any strikes and frames: each          *)
(* contract's stream and cache together end at its last word, the cache if no        *)
(* entry about it is left and the last such entry otherwise. The rest is a lookup     *)
(* and two copies: a canonical string is one contract, a strike and a side are one     *)
(* leg, and the ticks of the store are the same through the bus and without it.       *)
(***************************************************************************)
EXTENDS Bars, FiniteSetTheorems, WellFoundedInduction, TLAPS

(* An earlier stamp is in no later minute.                                    *)
LEMMA MinutesAreInOrder ==
  ASSUME NEW a \in Int, NEW b \in Int, a <= b
  PROVE  MinuteOf(a) \in Int /\ MinuteOf(b) \in Int /\ MinuteOf(a) <= MinuteOf(b)
  BY BarsAssumption DEF MinuteOf

(* A stamp is in a natural minute.                                           *)
LEMMA StampHasAMinute ==
  ASSUME NEW a \in Nat
  PROVE  MinuteOf(a) \in Nat
  BY BarsAssumption DEF MinuteOf

(* A set of naturals has a least.                                            *)
LEMMA LeastExists ==
  ASSUME NEW S \in SUBSET Nat, S # {}
  PROVE  \E i \in S : \A j \in S : i <= j
<1>1. PICK i \in S : \A j \in S : <<j, i>> \notin OpToRel(<, Nat)
  BY NatLessThanWellFounded, WFMin
<1>2. \A j \in S : ~(j < i)
  BY <1>1 DEF OpToRel
<1>3. QED
  BY <1>2

(* A set of minutes up to a bound has a newest.                               *)
LEMMA NewestExists ==
  ASSUME NEW bound \in Nat, NEW S \in SUBSET (0..bound), S # {}
  PROVE  \E m \in S : \A i \in S : i <= m
<1> DEFINE Above == {n \in 0..bound : \A i \in S : i <= n}
<1>1. Above \in SUBSET Nat /\ bound \in Above
  OBVIOUS
<1>2. PICK n \in Above : \A k \in Above : n <= k
  BY <1>1, LeastExists
<1>3. n \in S
  <2>1. SUFFICES ASSUME n \notin S PROVE FALSE
    OBVIOUS
  <2>2. \A i \in S : i \in Nat /\ i < n
    BY <1>2, <2>1
  <2>3. n - 1 \in 0..bound
    <3>1. PICK i \in S : i < n
      BY <2>2
    <3>2. QED
      BY <1>2, <2>2, <3>1
  <2>4. n - 1 \in Above
    BY <2>2, <2>3
  <2>5. QED
    BY <1>2, <2>3, <2>4
<1>4. QED
  BY <1>2, <1>3

----------------------------------------------------------------------------
(* What a series says of the points it took.                                 *)
Point == [at : Nat, no : Nat, v : Nat]

SeriesOf(s, points) ==
  /\ points \subseteq Point /\ IsFiniteSet(points)
  /\ s.ticks = Cardinality(points)
  /\ points # {} =>
       /\ \E p \in points : s.open = p.v /\ s.openAt = p.at /\ \A q \in points : Before(p, q)
       /\ \E p \in points : s.close = p.v /\ s.closeAt = p.at /\ \A q \in points : Before(q, p)
       /\ \E p \in points : s.high = p.v /\ \A q \in points : q.v <= p.v
       /\ \E p \in points : s.low = p.v /\ \A q \in points : q.v >= p.v

(* Such a series is the summary a bar asks for.                               *)
LEMMA SeriesIsASummary ==
  ASSUME NEW s, NEW points, SeriesOf(s, points)
  PROVE  Summary(s, points)
  BY DEF SeriesOf, Summary

(* It took nothing exactly when there is nothing.                             *)
LEMMA TicksAreCounted ==
  ASSUME NEW s, NEW points, SeriesOf(s, points)
  PROVE  s.ticks \in Nat /\ (s.ticks = 0 <=> points = {})
  BY FS_CardinalityType, FS_EmptySet DEF SeriesOf

(* Before its first point it took none.                                       *)
LEMMA NoSeriesIsEmpty == SeriesOf(NoSeries, {})
  BY FS_EmptySet DEF SeriesOf, NoSeries

(* A point that arrives after the others, whatever its stamp, extends it: of     *)
(* two with one stamp the earlier arrival opens and the later closes.           *)
LEMMA UpdateExtends ==
  ASSUME NEW s, NEW points, SeriesOf(s, points),
         NEW p \in Point, \A q \in points : q.no < p.no
  PROVE  SeriesOf(Update(s, p.v, p.at), points \cup {p})
<1> DEFINE new == points \cup {p}
           u == Update(s, p.v, p.at)
<1>1. p.v # None /\ p.v \in Nat /\ p.at \in Nat /\ p.no \in Nat /\ p \notin points
  BY BarsAssumption DEF Point
<1>2. new \subseteq Point /\ IsFiniteSet(new) /\ Cardinality(new) = Cardinality(points) + 1
  BY <1>1, FS_AddElement DEF SeriesOf
<1>3. CASE points = {}
  <2>1. s.ticks = 0 /\ u = First(p.v, p.at) /\ Cardinality(new) = 1
    BY <1>1, <1>2, <1>3, FS_EmptySet, TicksAreCounted DEF Update
  <2>2. Before(p, p)
    BY <1>1 DEF Before
  <2>3. QED
    BY <1>1, <1>2, <1>3, <2>1, <2>2 DEF SeriesOf, First
<1>4. CASE points # {}
  <2>1. s.ticks \in Nat /\ s.ticks # 0 /\ s.ticks = Cardinality(points)
    BY <1>4, TicksAreCounted DEF SeriesOf
  <2>2. u = Updated(s, p.v, p.at)
    BY <1>1, <2>1 DEF Update
  <2>3. u.ticks = Cardinality(new)
    BY <1>2, <2>1, <2>2 DEF Updated
  <2>4. \A q \in points : q.at \in Nat /\ q.no \in Nat /\ q.v \in Nat /\ q.no < p.no
    BY DEF SeriesOf, Point
  <2>5. \E r \in new : u.open = r.v /\ u.openAt = r.at /\ \A q \in new : Before(r, q)
    <3>1. PICK r \in points : s.open = r.v /\ s.openAt = r.at /\ \A q \in points : Before(r, q)
      BY <1>4 DEF SeriesOf
    <3>2. CASE Opens(s, p.at)
      <4>1. u.open = p.v /\ u.openAt = p.at
        BY <2>2, <3>2 DEF Updated
      <4>2. \A q \in new : Before(p, q)
        BY <1>1, <2>4, <3>1, <3>2 DEF Opens, Before
      <4>3. QED
        BY <4>1, <4>2
    <3>3. CASE ~Opens(s, p.at)
      <4>1. u.open = r.v /\ u.openAt = r.at
        BY <2>2, <3>1, <3>3 DEF Updated
      <4>2. \A q \in new : Before(r, q)
        BY <1>1, <2>4, <3>1, <3>3 DEF Opens, Before
      <4>3. QED
        BY <4>1, <4>2
    <3>4. QED
      BY <3>2, <3>3
  <2>6. \E r \in new : u.close = r.v /\ u.closeAt = r.at /\ \A q \in new : Before(q, r)
    <3>1. PICK r \in points : s.close = r.v /\ s.closeAt = r.at /\ \A q \in points : Before(q, r)
      BY <1>4 DEF SeriesOf
    <3>2. CASE Closes(s, p.at)
      <4>1. u.close = p.v /\ u.closeAt = p.at
        BY <2>2, <3>2 DEF Updated
      <4>2. \A q \in new : Before(q, p)
        BY <1>1, <2>4, <3>1, <3>2 DEF Closes, Before
      <4>3. QED
        BY <4>1, <4>2
    <3>3. CASE ~Closes(s, p.at)
      <4>1. u.close = r.v /\ u.closeAt = r.at
        BY <2>2, <3>1, <3>3 DEF Updated
      <4>2. \A q \in new : Before(q, r)
        BY <1>1, <2>4, <3>1, <3>3 DEF Closes, Before
      <4>3. QED
        BY <4>1, <4>2
    <3>4. QED
      BY <3>2, <3>3
  <2>7. \E r \in new : u.high = r.v /\ \A q \in new : q.v <= r.v
    <3>1. PICK r \in points : s.high = r.v /\ \A q \in points : q.v <= r.v
      BY <1>4 DEF SeriesOf
    <3>2. u.high = IF p.v > r.v THEN p.v ELSE r.v
      BY <2>2, <3>1 DEF Updated
    <3>3. QED
      BY <1>1, <2>4, <3>1, <3>2
  <2>8. \E r \in new : u.low = r.v /\ \A q \in new : q.v >= r.v
    <3>1. PICK r \in points : s.low = r.v /\ \A q \in points : q.v >= r.v
      BY <1>4 DEF SeriesOf
    <3>2. u.low = IF p.v < r.v THEN p.v ELSE r.v
      BY <2>2, <3>1 DEF Updated
    <3>3. QED
      BY <1>1, <2>4, <3>1, <3>2
  <2>9. QED
    BY <1>2, <2>3, <2>5, <2>6, <2>7, <2>8 DEF SeriesOf
<1>5. QED
  BY <1>3, <1>4

----------------------------------------------------------------------------
(* What a tick of each table is.                                             *)
TickOf(t) ==
  CASE t = "quote" -> {x \in [at : Nat, no : Nat, source : {"book", "reference"}, bid : Price, ask : Price] :
                         x.bid # None \/ x.ask # None}
    [] t = "reference" -> [at : Nat, no : Nat, mark : Price, ltp : Price]
    [] t = "spot" -> [at : Nat, no : Nat, spot : Nat]
    [] t = "computed" -> [at : Nat, no : Nat]

(* What a bucket says of the ticks it took.                                   *)
From(source, ticks) == {x \in ticks : x.source = source}

HoldsQuotes(quotes, ticks) ==
  /\ SeriesOf(quotes.bid, Points(ticks, "bid"))
  /\ SeriesOf(quotes.ask, Points(ticks, "ask"))
  /\ SeriesOf(quotes.mid, Mids(ticks))

HoldsLast(last, ticks) == (ticks = {} /\ last = NoSample) \/ Latest(last, ticks)

Holds(t, bucket, ticks) ==
  CASE t = "quote" -> /\ HoldsQuotes(bucket.book, From("book", ticks))
                      /\ HoldsQuotes(bucket.reference, From("reference", ticks))
    [] t = "reference" -> /\ SeriesOf(bucket.mark, Points(ticks, "mark"))
                          /\ SeriesOf(bucket.ltp, Points(ticks, "ltp"))
                          /\ HoldsLast(bucket.last, ticks)
    [] t = "spot" -> SeriesOf(bucket.spot, Points(ticks, "spot"))
    [] t = "computed" -> HoldsLast(bucket.last, ticks)

----------------------------------------------------------------------------
(* A tick adds its price to the points of a field, or nothing.                *)
LEMMA FieldExtends ==
  ASSUME NEW s, NEW ticks, NEW x, NEW f, SeriesOf(s, Points(ticks, f)),
         x.at \in Nat, x.no \in Nat, x[f] \in Price, \A y \in ticks : y.no < x.no
  PROVE  SeriesOf(Update(s, x[f], x.at), Points(ticks \cup {x}, f))
<1> DEFINE p == [at |-> x.at, no |-> x.no, v |-> x[f]]
<1>1. CASE x[f] = None
  <2>1. Points(ticks \cup {x}, f) = Points(ticks, f)
    BY <1>1 DEF Points
  <2>2. Update(s, x[f], x.at) = s
    BY <1>1 DEF Update
  <2>3. QED
    BY <2>1, <2>2
<1>2. CASE x[f] # None
  <2>1. Points(ticks \cup {x}, f) = Points(ticks, f) \cup {p}
    BY <1>2 DEF Points
  <2>2. p \in Point /\ p.v = x[f] /\ p.at = x.at
    BY <1>2 DEF Point, Price
  <2>3. \A q \in Points(ticks, f) : q.no < p.no
    BY DEF Points
  <2>4. SeriesOf(Update(s, p.v, p.at), Points(ticks, f) \cup {p})
    BY <2>2, <2>3, UpdateExtends
  <2>5. QED
    BY <2>1, <2>2, <2>4
<1>3. QED
  BY <1>1, <1>2

(* The mid of a tick is its own: of bid and ask seen together.                *)
LEMMA MidExtends ==
  ASSUME NEW s, NEW ticks, NEW x, SeriesOf(s, Mids(ticks)),
         x.at \in Nat, x.no \in Nat, x.bid \in Price, x.ask \in Price, \A y \in ticks : y.no < x.no
  PROVE  SeriesOf(Update(s, Mid(x.bid, x.ask), x.at), Mids(ticks \cup {x}))
<1> DEFINE p == [at |-> x.at, no |-> x.no, v |-> x.bid + x.ask]
<1>1. CASE x.bid = None \/ x.ask = None
  <2>1. Mids(ticks \cup {x}) = Mids(ticks)
    BY <1>1 DEF Mids
  <2>2. Update(s, Mid(x.bid, x.ask), x.at) = s
    BY <1>1 DEF Update, Mid
  <2>3. QED
    BY <2>1, <2>2
<1>2. CASE x.bid # None /\ x.ask # None
  <2>1. Mids(ticks \cup {x}) = Mids(ticks) \cup {p}
    BY <1>2 DEF Mids
  <2>2. p \in Point /\ p.v = Mid(x.bid, x.ask) /\ p.at = x.at
    BY <1>2 DEF Point, Price, Mid
  <2>3. \A q \in Mids(ticks) : q.no < p.no
    BY DEF Mids
  <2>4. SeriesOf(Update(s, p.v, p.at), Mids(ticks) \cup {p})
    BY <2>2, <2>3, UpdateExtends
  <2>5. QED
    BY <2>1, <2>2, <2>4
<1>3. QED
  BY <1>1, <1>2

(* A bid, an ask and the mid of a tick, all three.                            *)
LEMMA QuotesExtend ==
  ASSUME NEW quotes, NEW ticks, NEW x, HoldsQuotes(quotes, ticks),
         x.at \in Nat, x.no \in Nat, x.bid \in Price, x.ask \in Price, \A y \in ticks : y.no < x.no
  PROVE  HoldsQuotes(WithQuote(quotes, x), ticks \cup {x})
<1>1. x["bid"] = x.bid /\ x["ask"] = x.ask
  OBVIOUS
<1>2. SeriesOf(Update(quotes.bid, x.bid, x.at), Points(ticks \cup {x}, "bid"))
  BY <1>1, FieldExtends DEF HoldsQuotes
<1>3. SeriesOf(Update(quotes.ask, x.ask, x.at), Points(ticks \cup {x}, "ask"))
  BY <1>1, FieldExtends DEF HoldsQuotes
<1>4. SeriesOf(Update(quotes.mid, Mid(x.bid, x.ask), x.at), Mids(ticks \cup {x}))
  BY MidExtends DEF HoldsQuotes
<1>5. QED
  BY <1>2, <1>3, <1>4 DEF HoldsQuotes, WithQuote

(* The last sample is the newest by its stamp, and of equals the last to arrive. *)
LEMMA LastExtends ==
  ASSUME NEW last, NEW ticks, NEW x, HoldsLast(last, ticks),
         x.at \in Nat, x.no \in Nat, \A y \in ticks : y.at \in Nat /\ y.no \in Nat /\ y.no < x.no
  PROVE  HoldsLast(UpdateLast(last, x), ticks \cup {x})
<1>1. CASE ticks = {}
  <2>1. last = NoSample \/ Latest(last, ticks)
    BY DEF HoldsLast
  <2>2. last = NoSample
    BY <1>1, <2>1 DEF Latest
  <2>3. UpdateLast(last, x) = [at |-> x.at, no |-> x.no]
    BY <2>2 DEF NoSample, UpdateLast
  <2>4. QED
    BY <1>1, <2>3 DEF HoldsLast, Latest, Before
<1>2. CASE ticks # {}
  <2>1. PICK y \in ticks : last = [at |-> y.at, no |-> y.no] /\ \A z \in ticks : Before(z, y)
    BY <1>2 DEF HoldsLast, Latest
  <2>2. CASE x.at >= y.at
    <3>1. UpdateLast(last, x) = [at |-> x.at, no |-> x.no]
      BY <2>1, <2>2 DEF UpdateLast
    <3>2. \A z \in ticks \cup {x} : Before(z, x)
      BY <2>1, <2>2 DEF Before
    <3>3. QED
      BY <3>1, <3>2 DEF HoldsLast, Latest
  <2>3. CASE ~(x.at >= y.at)
    <3>1. UpdateLast(last, x) = [at |-> y.at, no |-> y.no]
      BY <2>1, <2>3 DEF UpdateLast
    <3>2. \A z \in ticks \cup {x} : Before(z, y)
      BY <2>1, <2>3 DEF Before
    <3>3. QED
      BY <2>1, <3>1, <3>2 DEF HoldsLast, Latest
  <2>4. QED
    BY <2>2, <2>3
<1>3. QED
  BY <1>1, <1>2

----------------------------------------------------------------------------
(* A new bucket has taken nothing.                                           *)
LEMMA EmptyHolds == ASSUME NEW t \in Tables PROVE Holds(t, Empty(t), {})
<1>1. \A f : Points({}, f) = {}
  BY DEF Points
<1>2. Mids({}) = {} /\ From("book", {}) = {} /\ From("reference", {}) = {}
  BY DEF Mids, From
<1>3. HoldsQuotes(NoQuotes, {})
  BY <1>1, <1>2, NoSeriesIsEmpty DEF HoldsQuotes, NoQuotes
<1>4. HoldsLast(NoSample, {})
  BY DEF HoldsLast
<1>5. QED
  BY <1>1, <1>2, <1>3, <1>4, NoSeriesIsEmpty DEF Tables, Holds, Empty

(* A tick that arrives after the others extends its bucket.                    *)
LEMMA FoldExtends ==
  ASSUME NEW t \in Tables, NEW bucket, NEW ticks \in SUBSET TickOf(t), NEW x \in TickOf(t),
         Holds(t, bucket, ticks), \A y \in ticks : y.no < x.no
  PROVE  Holds(t, Folded(t, bucket, x), ticks \cup {x})
<1>1. CASE t = "quote"
  <2>1. x.at \in Nat /\ x.no \in Nat /\ x.bid \in Price /\ x.ask \in Price /\ x.source \in {"book", "reference"}
    BY <1>1 DEF TickOf
  <2>2. HoldsQuotes(bucket.book, From("book", ticks)) /\ HoldsQuotes(bucket.reference, From("reference", ticks))
    BY <1>1 DEF Holds
  <2>3. \A source : \A y \in From(source, ticks) : y.no < x.no
    BY DEF From
  <2>4. CASE x.source = "book"
    <3>1. From("book", ticks \cup {x}) = From("book", ticks) \cup {x}
          /\ From("reference", ticks \cup {x}) = From("reference", ticks)
      BY <2>4 DEF From
    <3>2. HoldsQuotes(WithQuote(bucket.book, x), From("book", ticks) \cup {x})
      BY <2>1, <2>2, <2>3, QuotesExtend
    <3>3. QED
      BY <1>1, <2>2, <2>4, <3>1, <3>2 DEF Holds, Folded, OwnSet
  <2>5. CASE x.source = "reference"
    <3>1. From("reference", ticks \cup {x}) = From("reference", ticks) \cup {x}
          /\ From("book", ticks \cup {x}) = From("book", ticks)
      BY <2>5 DEF From
    <3>2. HoldsQuotes(WithQuote(bucket.reference, x), From("reference", ticks) \cup {x})
      BY <2>1, <2>2, <2>3, QuotesExtend
    <3>3. QED
      BY <1>1, <2>2, <2>5, <3>1, <3>2 DEF Holds, Folded, OwnSet
  <2>6. QED
    BY <2>1, <2>4, <2>5
<1>2. CASE t = "reference"
  <2>1. /\ x.at \in Nat /\ x.no \in Nat /\ x["mark"] = x.mark /\ x["ltp"] = x.ltp
        /\ x.mark \in Price /\ x.ltp \in Price
        /\ \A y \in ticks : y.at \in Nat /\ y.no \in Nat
    BY <1>2 DEF TickOf
  <2>2. /\ SeriesOf(bucket.mark, Points(ticks, "mark")) /\ SeriesOf(bucket.ltp, Points(ticks, "ltp"))
        /\ HoldsLast(bucket.last, ticks)
    BY <1>2 DEF Holds
  <2>3. /\ SeriesOf(Update(bucket.mark, x.mark, x.at), Points(ticks \cup {x}, "mark"))
        /\ SeriesOf(Update(bucket.ltp, x.ltp, x.at), Points(ticks \cup {x}, "ltp"))
    BY <2>1, <2>2, FieldExtends
  <2>4. HoldsLast(UpdateLast(bucket.last, x), ticks \cup {x})
    BY <2>1, <2>2, LastExtends
  <2>5. QED
    BY <1>2, <2>3, <2>4 DEF Holds, Folded
<1>3. CASE t = "spot"
  <2>1. x.at \in Nat /\ x.no \in Nat /\ x["spot"] = x.spot /\ x.spot \in Price
    BY <1>3 DEF TickOf, Price
  <2>2. SeriesOf(Update(bucket.spot, x.spot, x.at), Points(ticks \cup {x}, "spot"))
    BY <1>3, <2>1, FieldExtends DEF Holds
  <2>3. QED
    BY <1>3, <2>2 DEF Holds, Folded
<1>4. CASE t = "computed"
  <2>1. x.at \in Nat /\ x.no \in Nat /\ \A y \in ticks : y.at \in Nat /\ y.no \in Nat
    BY <1>4 DEF TickOf
  <2>2. HoldsLast(UpdateLast(bucket.last, x), ticks \cup {x})
    BY <1>4, <2>1, LastExtends DEF Holds
  <2>3. QED
    BY <1>4, <2>2 DEF Holds, Folded
<1>5. QED
  BY <1>1, <1>2, <1>3, <1>4 DEF Tables

(* The bar of a bucket with a tick in it describes its ticks: the book's alone    *)
(* when there was a book tick, the fallback's, which are then all, otherwise.    *)
LEMMA BarDescribes ==
  ASSUME NEW t \in Tables, NEW bucket, NEW ticks \in SUBSET TickOf(t), ticks # {},
         Holds(t, bucket, ticks)
  PROVE  Describes(t, BarOf(t, bucket), ticks)
<1>1. CASE t = "quote"
  <2> DEFINE book == From("book", ticks)
             bar == BarOf(t, bucket)
  <2>1. HoldsQuotes(bucket.book, book) /\ HoldsQuotes(bucket.reference, From("reference", ticks))
    BY <1>1 DEF Holds
  <2>2. /\ bucket.book.bid.ticks \in Nat /\ (bucket.book.bid.ticks = 0 <=> Points(book, "bid") = {})
        /\ bucket.book.ask.ticks \in Nat /\ (bucket.book.ask.ticks = 0 <=> Points(book, "ask") = {})
    BY <2>1, TicksAreCounted DEF HoldsQuotes
  <2>3. Points(book, "bid") = {} /\ Points(book, "ask") = {} <=> book = {}
    <3>1. \A x \in book : x["bid"] # None \/ x["ask"] # None
      BY <1>1 DEF TickOf, From
    <3>2. \A f : \A x \in book : x[f] # None => Points(book, f) # {}
      BY DEF Points
    <3>3. book = {} => Points(book, "bid") = {} /\ Points(book, "ask") = {}
      BY DEF Points
    <3>4. QED
      BY <3>1, <3>2, <3>3
  <2>4. Observed(bucket.book) <=> book # {}
    BY <2>2, <2>3 DEF Observed
  <2>5. bar.fromBook = Observed(bucket.book)
        /\ bar.quotes = IF Observed(bucket.book) THEN bucket.book ELSE bucket.reference
    BY <1>1 DEF BarOf
  <2>6. book = {} => From("reference", ticks) = ticks
    BY <1>1 DEF TickOf, From
  <2>7. HoldsQuotes(bar.quotes, IF book # {} THEN book ELSE ticks)
    BY <2>1, <2>4, <2>5, <2>6
  <2>8. QuoteSummary(bar.quotes, IF book # {} THEN book ELSE ticks)
    BY <2>7, SeriesIsASummary DEF HoldsQuotes, QuoteSummary
  <2>9. bar.fromBook <=> book # {}
    BY <2>4, <2>5
  <2>10. QED
    BY <1>1, <2>8, <2>9 DEF Describes, From
<1>2. CASE t = "reference"
  BY <1>2, SeriesIsASummary DEF Holds, HoldsLast, Describes, BarOf
<1>3. CASE t = "spot"
  BY <1>3, SeriesIsASummary DEF Holds, Describes, BarOf
<1>4. CASE t = "computed"
  BY <1>4 DEF Holds, HoldsLast, Describes, BarOf
<1>5. QED
  BY <1>1, <1>2, <1>3, <1>4 DEF Tables

----------------------------------------------------------------------------
(* The inductive invariant. The watermark of a table only grows from the one      *)
(* restored, and until the flush only to where the clock allows; the open         *)
(* minutes are above it and hold exactly the ticks accepted for them; an           *)
(* accepted tick is in an open minute or in a settled one; and what was emitted     *)
(* is settled, and says what its ticks say.                                   *)
WatermarkFollowsTheClock ==
  /\ now \in Nat /\ frames \in 0..MaxFrames
  /\ restored \in [Tables -> Int] /\ through \in [Tables -> Int]
  /\ \A t \in Tables : restored[t] <= through[t]
  /\ frames < MaxFrames => \A t \in Tables : through[t] = restored[t] \/ through[t] <= Boundary(t)

OpenHoldsItsTicks ==
  \A t \in Tables :
    /\ DOMAIN open[t] \subseteq 0..MinuteOf(now)
    /\ \A m \in DOMAIN open[t] :
         m > through[t] /\ Of(t, m) # {} /\ Holds(t, open[t][m], Of(t, m))

TicksHaveAMinute ==
  \A t \in Tables :
    /\ accepted[t] \subseteq TickOf(t)
    /\ \A x \in accepted[t] : /\ x.no < frames
                              /\ MinuteOf(x.at) \in DOMAIN open[t] \/ MinuteOf(x.at) <= through[t]

EmittedIsSettled ==
  \A e \in emitted :
    /\ e.table \in Tables /\ e.minute \in Int
    /\ restored[e.table] < e.minute /\ e.minute <= through[e.table]
    /\ Of(e.table, e.minute) # {}
    /\ Describes(e.table, e.bar, Of(e.table, e.minute))

BarInvariant ==
  /\ WatermarkFollowsTheClock
  /\ OpenHoldsItsTicks
  /\ TicksHaveAMinute
  /\ EmittedIsSettled
  /\ OnlyStragglersAreLate

(* It holds of a process that has just restored its checkpoint.                 *)
LEMMA InitEstablishes == BarsInit => BarInvariant
<1>1. SUFFICES ASSUME BarsInit PROVE BarInvariant
  OBVIOUS
<1>2. restored \in [Tables -> Int] /\ through = restored /\ now = 0 /\ frames = 0
  <2>1. restored \in Restores /\ through = restored /\ now = 0 /\ frames = 0
    BY <1>1 DEF BarsInit
  <2>2. Restores \subseteq [Tables -> Nat \cup {-1}]
    BY BarsAssumption
  <2>3. QED
    BY <2>1, <2>2
<1>3. WatermarkFollowsTheClock
  <2>1. 0 \in 0..MaxFrames
    BY BarsAssumption
  <2>2. QED
    BY <1>2, <2>1 DEF WatermarkFollowsTheClock
<1>4. \A t \in Tables : DOMAIN open[t] = {} /\ accepted[t] = {}
  <2>1. open = [t \in Tables |-> <<>>] /\ accepted = [t \in Tables |-> {}]
    BY <1>1 DEF BarsInit
  <2>2. QED
    BY <2>1
<1>5. OpenHoldsItsTicks /\ TicksHaveAMinute
  BY <1>4 DEF OpenHoldsItsTicks, TicksHaveAMinute
<1>6. EmittedIsSettled /\ OnlyStragglersAreLate
  <2>1. emitted = {} /\ late = {}
    BY <1>1 DEF BarsInit
  <2>2. QED
    BY <2>1 DEF EmittedIsSettled, OnlyStragglersAreLate
<1>7. QED
  BY <1>3, <1>5, <1>6 DEF BarInvariant

(* An event older than the lag of its stream is the only one that can miss its     *)
(* minute: until the flush the watermark is behind the clock by the grace.        *)
LEMMA LateIsOld ==
  ASSUME WatermarkFollowsTheClock, frames < MaxFrames, NEW t \in Tables,
         NEW kind, kind = "computed" <=> t = "computed",
         NEW at \in Nat, Sealed(t, MinuteOf(at)), MinuteOf(at) > restored[t]
  PROVE  now - at > Lag(kind)
<1>1. /\ {now, BookLag, ReferenceLag, ReferenceGrace, ComputedLag, ComputedGrace} \subseteq Nat
      /\ BookLag <= ReferenceGrace /\ ReferenceLag <= ReferenceGrace /\ ComputedLag <= ComputedGrace
  <2>1. BookGrace \in Nat
    BY BarsAssumption
  <2>2. QED
    BY <2>1, BarsAssumption DEF WatermarkFollowsTheClock
<1>2. Lag(kind) \in Nat /\ Lag(kind) <= Grace[t] /\ Grace[t] \in Nat
  <2>1. CASE t = "computed"
    BY <1>1, <2>1 DEF Lag, Grace
  <2>2. CASE t # "computed"
    BY <1>1, <2>2 DEF Lag, Grace
  <2>3. QED
    BY <2>1, <2>2
<1>3. MinuteOf(at) \in Nat /\ restored[t] \in Int /\ through[t] \in Int
  BY StampHasAMinute DEF WatermarkFollowsTheClock
<1>4. MinuteOf(at) <= MinuteOf(now - Grace[t]) - 1
  <2>1. Boundary(t) = MinuteOf(now - Grace[t]) - 1
    BY DEF Boundary
  <2>2. Boundary(t) \in Int
    <3>1. now - Grace[t] \in Int
      BY <1>1, <1>2
    <3>2. QED
      BY <2>1, <3>1, MinutesAreInOrder
  <2>3. through[t] = restored[t] \/ through[t] <= Boundary(t)
    BY DEF WatermarkFollowsTheClock
  <2>4. MinuteOf(at) <= through[t] /\ MinuteOf(at) > restored[t]
    BY DEF Sealed
  <2>5. MinuteOf(at) <= Boundary(t)
    BY <1>3, <2>2, <2>3, <2>4
  <2>6. QED
    BY <2>1, <2>5
<1>5. ~(now - Grace[t] <= at)
  <2>1. SUFFICES ASSUME now - Grace[t] <= at PROVE FALSE
    OBVIOUS
  <2>2. now - Grace[t] \in Int /\ at \in Int
    BY <1>1, <1>2
  <2>3. /\ MinuteOf(now - Grace[t]) <= MinuteOf(at)
        /\ MinuteOf(now - Grace[t]) \in Int
    BY <2>1, <2>2, MinutesAreInOrder
  <2>4. QED
    BY <1>3, <1>4, <2>3
<1>6. QED
  BY <1>1, <1>2, <1>5

----------------------------------------------------------------------------
(* What an event is worth to a table: nothing, or a tick with its stamp and number.   *)
IsTick(x, t, at, no) == x # None => x \in TickOf(t) /\ x.at = at /\ x.no = no

(* An event: what it is worth to each table is folded into an open minute, opens    *)
(* one above the watermark, or is refused.                                     *)
LEMMA IngestKeeps ==
  ASSUME BarInvariant, NEW kind, NEW at \in Stamps, NEW ticks, Ingest(kind, at, ticks),
         \A t \in Tables : IsTick(ticks[t], t, at, frames),
         \A t \in Tables : ticks[t] # None => (kind = "computed" <=> t = "computed")
  PROVE  BarInvariant'
<1> DEFINE Counts(t) == Takes(t, ticks[t])
           minute == MinuteOf(at)
<1>1. /\ frames < MaxFrames /\ frames' = frames + 1 /\ frames \in Nat /\ now \in Nat
      /\ frames' \in 0..MaxFrames /\ UNCHANGED <<now, through, restored, emitted>>
  BY BarsAssumption DEF Ingest, BarInvariant, WatermarkFollowsTheClock
<1>2. at \in Nat /\ at <= now /\ minute \in Nat /\ minute <= MinuteOf(now) /\ MinuteOf(now) \in Int
  <2>1. at \in Int /\ at >= 0 /\ at <= now
    BY <1>1, BarsAssumption DEF Stamps
  <2>2. QED
    BY <1>1, <2>1, StampHasAMinute, MinutesAreInOrder
<1>3. \A t \in Tables : Counts(t) => /\ ticks[t] \in TickOf(t) /\ ticks[t].at = at
                                    /\ ticks[t].no = frames /\ ~(minute <= through[t])
  BY DEF Takes, Sealed, IsTick
<1>4. \A t \in Tables :
        /\ Counts(t) => accepted'[t] = accepted[t] \cup {ticks[t]} /\ open'[t] = OpenWith(t, ticks[t])
        /\ ~Counts(t) => accepted'[t] = accepted[t] /\ open'[t] = open[t]
  BY DEF Ingest
<1>5. \A t \in Tables : through[t] \in Int /\ restored[t] \in Int /\ restored[t] <= through[t]
  BY DEF BarInvariant, WatermarkFollowsTheClock
<1>6. WatermarkFollowsTheClock'
  <2>1. \A t \in Tables : through[t] = restored[t] \/ through[t] <= Boundary(t)
    BY <1>1 DEF BarInvariant, WatermarkFollowsTheClock
  <2>2. \A t \in Tables : Boundary(t)' = Boundary(t)
    BY <1>1 DEF Boundary
  <2>3. QED
    BY <1>1, <2>1, <2>2 DEF BarInvariant, WatermarkFollowsTheClock
<1>7. \A t \in Tables : \A m :
        /\ Counts(t) /\ m = minute => Of(t, m)' = Of(t, m) \cup {ticks[t]}
        /\ ~(Counts(t) /\ m = minute) => Of(t, m)' = Of(t, m)
  <2>1. SUFFICES ASSUME NEW t \in Tables, NEW m
                 PROVE  /\ Counts(t) /\ m = minute => Of(t, m)' = Of(t, m) \cup {ticks[t]}
                        /\ ~(Counts(t) /\ m = minute) => Of(t, m)' = Of(t, m)
    OBVIOUS
  <2>2. Of(t, m)' = {x \in accepted'[t] : MinuteOf(x.at) = m}
    BY DEF Of, MinuteOf
  <2>3. CASE Counts(t)
    <3>1. accepted'[t] = accepted[t] \cup {ticks[t]} /\ MinuteOf(ticks[t].at) = minute
      BY <1>3, <1>4, <2>3
    <3>2. QED
      BY <2>2, <2>3, <3>1 DEF Of
  <2>4. CASE ~Counts(t)
    BY <1>4, <2>2, <2>4 DEF Of
  <2>5. QED
    BY <2>3, <2>4
<1>8. OpenHoldsItsTicks'
  <2>1. SUFFICES ASSUME NEW t \in Tables
                 PROVE  /\ DOMAIN open'[t] \subseteq 0..MinuteOf(now)
                        /\ \A m \in DOMAIN open'[t] :
                             m > through[t] /\ Of(t, m)' # {} /\ Holds(t, open'[t][m], Of(t, m)')
    BY <1>1 DEF OpenHoldsItsTicks
  <2>2. /\ DOMAIN open[t] \subseteq 0..MinuteOf(now)
        /\ \A m \in DOMAIN open[t] :
             m > through[t] /\ Of(t, m) # {} /\ Holds(t, open[t][m], Of(t, m))
    BY DEF BarInvariant, OpenHoldsItsTicks
  <2>3. CASE ~Counts(t)
    BY <1>4, <1>7, <2>2, <2>3
  <2>4. CASE Counts(t)
    <3> DEFINE x == ticks[t]
               bucket == IF minute \in DOMAIN open[t] THEN open[t][minute] ELSE Empty(t)
    <3>1. open'[t] = [i \in DOMAIN open[t] \cup {minute} |->
                        IF i = minute THEN Folded(t, bucket, x) ELSE open[t][i]]
      BY <1>3, <1>4, <2>4 DEF OpenWith
    <3>2. Of(t, minute) \subseteq TickOf(t) /\ \A y \in Of(t, minute) : y.no < x.no
      BY <1>3, <2>4 DEF BarInvariant, TicksHaveAMinute, Of
    <3>3. Holds(t, bucket, Of(t, minute))
      <4>1. CASE minute \in DOMAIN open[t]
        BY <2>2, <4>1
      <4>2. CASE minute \notin DOMAIN open[t]
        <5>1. Of(t, minute) = {}
          BY <1>3, <2>4, <4>2 DEF BarInvariant, TicksHaveAMinute, Of
        <5>2. QED
          BY <4>2, <5>1, EmptyHolds
      <4>3. QED
        BY <4>1, <4>2
    <3>4. Holds(t, Folded(t, bucket, x), Of(t, minute) \cup {x})
      BY <1>3, <2>4, <3>2, <3>3, FoldExtends
    <3>5. minute > through[t] /\ minute \in 0..MinuteOf(now)
      BY <1>2, <1>3, <1>5, <2>4
    <3>6. DOMAIN open'[t] = DOMAIN open[t] \cup {minute}
      BY <3>1
    <3>7. ASSUME NEW m \in DOMAIN open'[t]
          PROVE  m > through[t] /\ Of(t, m)' # {} /\ Holds(t, open'[t][m], Of(t, m)')
      <4>1. CASE m = minute
        BY SMTT(30), <1>7, <2>4, <3>1, <3>4, <3>5, <4>1
      <4>2. CASE m # minute
        BY <1>7, <2>2, <3>1, <3>6, <4>2
      <4>3. QED
        BY <4>1, <4>2
    <3>8. QED
      BY <2>2, <3>5, <3>6, <3>7
  <2>5. QED
    BY <2>3, <2>4
<1>9. TicksHaveAMinute'
  <2>1. SUFFICES ASSUME NEW t \in Tables
                 PROVE  /\ accepted'[t] \subseteq TickOf(t)
                        /\ \A x \in accepted'[t] :
                             /\ x.no < frames'
                             /\ MinuteOf(x.at) \in DOMAIN open'[t] \/ MinuteOf(x.at) <= through[t]
    BY <1>1 DEF TicksHaveAMinute, MinuteOf, TickOf
  <2>2. /\ accepted[t] \subseteq TickOf(t)
        /\ \A x \in accepted[t] : /\ x.no < frames /\ x.no \in Nat
                                  /\ MinuteOf(x.at) \in DOMAIN open[t] \/ MinuteOf(x.at) <= through[t]
    BY DEF BarInvariant, TicksHaveAMinute, TickOf, Tables
  <2>3. CASE ~Counts(t)
    BY <1>1, <1>4, <2>2, <2>3
  <2>4. CASE Counts(t)
    <3>1. DOMAIN open'[t] = DOMAIN open[t] \cup {minute}
      BY <1>3, <1>4, <2>4 DEF OpenWith
    <3>2. accepted'[t] = accepted[t] \cup {ticks[t]} /\ ticks[t] \in TickOf(t)
          /\ MinuteOf(ticks[t].at) = minute /\ ticks[t].no = frames
      BY <1>3, <1>4, <2>4
    <3>3. QED
      BY <1>1, <2>2, <3>1, <3>2
  <2>5. QED
    BY <2>3, <2>4
<1>10. EmittedIsSettled'
  <2>1. SUFFICES ASSUME NEW e \in emitted
                 PROVE  /\ e.table \in Tables /\ e.minute \in Int
                        /\ restored[e.table] < e.minute /\ e.minute <= through[e.table]
                        /\ Of(e.table, e.minute)' # {}
                        /\ Describes(e.table, e.bar, Of(e.table, e.minute)')
    BY <1>1 DEF EmittedIsSettled
  <2>2. /\ e.table \in Tables /\ e.minute \in Int
        /\ restored[e.table] < e.minute /\ e.minute <= through[e.table]
        /\ Of(e.table, e.minute) # {}
        /\ Describes(e.table, e.bar, Of(e.table, e.minute))
    BY DEF BarInvariant, EmittedIsSettled
  <2>3. ~(Counts(e.table) /\ e.minute = minute)
    BY <1>3, <2>2
  <2>4. Of(e.table, e.minute)' = Of(e.table, e.minute)
    BY <1>7, <2>2, <2>3
  <2>5. QED
    BY <2>2, <2>4
<1>11. OnlyStragglersAreLate'
  <2>1. SUFFICES ASSUME NEW x \in late' PROVE x.age > Lag(x.kind)
    BY DEF OnlyStragglersAreLate, Lag
  <2>2. CASE x \in late
    BY <2>2 DEF BarInvariant, OnlyStragglersAreLate
  <2>3. CASE x \notin late
    <3>1. PICK t \in Tables : /\ x = [kind |-> kind, age |-> now - at] /\ ticks[t] # None
                             /\ Sealed(t, minute) /\ minute > restored[t]
      BY <2>3 DEF Ingest
    <3>2. now - at > Lag(kind)
      BY <1>1, <1>2, <3>1, LateIsOld DEF BarInvariant
    <3>3. QED
      BY <3>1, <3>2
  <2>4. QED
    BY <2>2, <2>3
<1>12. QED
  BY <1>6, <1>8, <1>9, <1>10, <1>11 DEF BarInvariant

(* Minutes leave the open ones as bars: what leaves is at or below the watermark,   *)
(* and what stays is above it.                                                 *)
LEMMA EmitKeeps ==
  ASSUME BarInvariant, NEW due, Emit(due), UNCHANGED <<now, restored, accepted, late>>,
         frames' \in 0..MaxFrames, frames <= frames',
         through' \in [Tables -> Int],
         \A t \in Tables :
           /\ due[t] \subseteq DOMAIN open[t] /\ through[t] <= through'[t]
           /\ \A m \in DOMAIN open[t] : IF m \in due[t] THEN m <= through'[t] ELSE m > through'[t],
         frames' < MaxFrames =>
           \A t \in Tables : through'[t] = restored[t] \/ through'[t] <= Boundary(t)
  PROVE  BarInvariant'
<1>1. \A t \in Tables : through[t] \in Int /\ restored[t] \in Int /\ restored[t] <= through[t]
                       /\ through'[t] \in Int
  BY DEF BarInvariant, WatermarkFollowsTheClock
<1>2. WatermarkFollowsTheClock'
  <2>1. \A t \in Tables : Boundary(t)' = Boundary(t)
    BY DEF Boundary
  <2>2. \A t \in Tables : restored[t] <= through'[t]
    BY <1>1
  <2>3. QED
    BY <2>1, <2>2 DEF BarInvariant, WatermarkFollowsTheClock
<1>3. \A t \in Tables : \A m : Of(t, m)' = Of(t, m)
  BY DEF Of
<1>4. ASSUME NEW t \in Tables
      PROVE  /\ DOMAIN open'[t] = DOMAIN open[t] \ due[t]
             /\ \A m \in DOMAIN open'[t] : open'[t][m] = open[t][m]
  BY DEF Emit
<1>5. OpenHoldsItsTicks'
  <2>1. SUFFICES ASSUME NEW t \in Tables
                 PROVE  /\ DOMAIN open'[t] \subseteq 0..MinuteOf(now)
                        /\ \A m \in DOMAIN open'[t] :
                             m > through'[t] /\ Of(t, m)' # {} /\ Holds(t, open'[t][m], Of(t, m)')
    BY DEF OpenHoldsItsTicks
  <2>2. /\ DOMAIN open[t] \subseteq 0..MinuteOf(now)
        /\ \A m \in DOMAIN open[t] : Of(t, m) # {} /\ Holds(t, open[t][m], Of(t, m))
    BY DEF BarInvariant, OpenHoldsItsTicks
  <2>3. QED
    BY <1>3, <1>4, <2>2
<1>6. TicksHaveAMinute'
  <2>1. SUFFICES ASSUME NEW t \in Tables
                 PROVE  /\ accepted[t] \subseteq TickOf(t)
                        /\ \A x \in accepted[t] :
                             /\ x.no < frames'
                             /\ MinuteOf(x.at) \in DOMAIN open'[t] \/ MinuteOf(x.at) <= through'[t]
    BY DEF TicksHaveAMinute, MinuteOf
  <2>2. /\ accepted[t] \subseteq TickOf(t)
        /\ \A x \in accepted[t] : /\ x.no < frames /\ x.no \in Nat /\ x.at \in Nat
                                  /\ MinuteOf(x.at) \in DOMAIN open[t] \/ MinuteOf(x.at) <= through[t]
    BY DEF BarInvariant, TicksHaveAMinute, TickOf, Tables
  <2>3. frames \in Nat /\ frames' \in Nat
    BY BarsAssumption DEF BarInvariant, WatermarkFollowsTheClock
  <2>4. \A x \in accepted[t] : MinuteOf(x.at) \in Nat
    BY <2>2, StampHasAMinute
  <2>5. \A x \in accepted[t] : MinuteOf(x.at) \in DOMAIN open'[t] \/ MinuteOf(x.at) <= through'[t]
    BY <1>1, <1>4, <2>2, <2>4
  <2>6. QED
    BY <2>2, <2>3, <2>5
<1>7. EmittedIsSettled'
  <2>1. SUFFICES ASSUME NEW e \in emitted'
                 PROVE  /\ e.table \in Tables /\ e.minute \in Int
                        /\ restored[e.table] < e.minute /\ e.minute <= through'[e.table]
                        /\ Of(e.table, e.minute)' # {}
                        /\ Describes(e.table, e.bar, Of(e.table, e.minute)')
    BY DEF EmittedIsSettled
  <2>2. CASE e \in emitted
    <3>1. /\ e.table \in Tables /\ e.minute \in Int
          /\ restored[e.table] < e.minute /\ e.minute <= through[e.table]
          /\ Of(e.table, e.minute) # {}
          /\ Describes(e.table, e.bar, Of(e.table, e.minute))
      BY <2>2 DEF BarInvariant, EmittedIsSettled
    <3>2. e.minute <= through'[e.table]
      BY <1>1, <3>1
    <3>3. QED
      BY <1>3, <3>1, <3>2
  <2>3. CASE e \notin emitted
    <3>1. PICK t \in Tables : \E m \in due[t] : e = [table |-> t, minute |-> m, bar |-> BarOf(t, open[t][m])]
      BY <2>3 DEF Emit
    <3>2. PICK m \in due[t] : e = [table |-> t, minute |-> m, bar |-> BarOf(t, open[t][m])]
      BY <3>1
    <3>3. m \in DOMAIN open[t] /\ m <= through'[t]
      BY <3>2
    <3>4. m \in Int /\ m > through[t] /\ Of(t, m) # {} /\ Holds(t, open[t][m], Of(t, m))
      <4>1. DOMAIN open[t] \subseteq 0..MinuteOf(now)
            /\ m > through[t] /\ Of(t, m) # {} /\ Holds(t, open[t][m], Of(t, m))
        BY <3>3 DEF BarInvariant, OpenHoldsItsTicks
      <4>2. QED
        BY <3>3, <4>1
    <3>5. Of(t, m) \subseteq TickOf(t)
      BY DEF BarInvariant, TicksHaveAMinute, Of
    <3>6. Describes(t, BarOf(t, open[t][m]), Of(t, m))
      BY <3>4, <3>5, BarDescribes
    <3>7. e.table = t /\ e.minute = m /\ e.bar = BarOf(t, open[t][m])
      BY <3>2
    <3>8. restored[t] < m
      BY <1>1, <3>4
    <3>9. QED
      BY <1>3, <3>3, <3>4, <3>6, <3>7, <3>8
  <2>4. QED
    BY <2>2, <2>3
<1>8. OnlyStragglersAreLate'
  BY DEF BarInvariant, OnlyStragglersAreLate, Lag
<1>9. QED
  BY <1>2, <1>5, <1>6, <1>7, <1>8 DEF BarInvariant

----------------------------------------------------------------------------
(* Each table gets what the event is worth to it.                                *)
LEMMA WorthIsTyped ==
  ASSUME NEW at, NEW no, NEW q, NEW r, NEW s, NEW c,
         IsTick(q, "quote", at, no), IsTick(r, "reference", at, no),
         IsTick(s, "spot", at, no), IsTick(c, "computed", at, no)
  PROVE  \A t \in Tables : IsTick(Worth(q, r, s, c)[t], t, at, no)
<1>1. SUFFICES ASSUME NEW t \in Tables
               PROVE  IsTick(Worth(q, r, s, c)[t], t, at, no)
  OBVIOUS
<1>2. CASE t = "quote"
  BY <1>2 DEF Worth
<1>3. CASE t = "reference"
  BY <1>3 DEF Worth
<1>4. CASE t = "spot"
  BY <1>4 DEF Worth
<1>5. CASE t = "computed"
  BY <1>5 DEF Worth
<1>6. QED
  BY <1>2, <1>3, <1>4, <1>5 DEF Tables

(* The four events: each tick is of its table, stamped and numbered.              *)
LEMMA EventKeeps ==
  ASSUME BarInvariant, NEW at \in Stamps,
         \/ \E c \in Books : OptionQuote(at, c)
         \/ \E c \in References : OptionReference(at, c)
         \/ \E price \in Spots : IndexQuote(at, price)
         \/ Sample(at)
  PROVE  BarInvariant'
<1>1. at \in Nat /\ frames \in Nat
  BY BarsAssumption DEF Stamps, BarInvariant, WatermarkFollowsTheClock
<1>2. \A source \in {"book", "reference"} : \A c :
        c.bid \in Price /\ c.ask \in Price => IsTick(QuoteTick(at, source, c), "quote", at, frames)
  <2>1. SUFFICES ASSUME NEW source \in {"book", "reference"}, NEW c, c.bid \in Price, c.ask \in Price,
                        ~(c.bid = None /\ c.ask = None)
                 PROVE  IsTick(QuoteTick(at, source, c), "quote", at, frames)
    BY DEF QuoteTick, IsTick
  <2> DEFINE tick == [at |-> at, no |-> frames, source |-> source, bid |-> c.bid, ask |-> c.ask]
  <2>2. QuoteTick(at, source, c) = tick
    BY <2>1 DEF QuoteTick
  <2>3. tick \in TickOf("quote")
    BY <1>1, <2>1 DEF TickOf
  <2>4. QED
    BY <2>2, <2>3 DEF IsTick
<1>3. \A t \in Tables : IsTick(None, t, at, frames)
  BY DEF IsTick
<1>4. CASE \E c \in Books : OptionQuote(at, c)
  <2>1. PICK c \in Books : OptionQuote(at, c)
    BY <1>4
  <2> DEFINE ticks == Worth(QuoteTick(at, "book", c), None, None, None)
  <2>2. c.bid \in Price /\ c.ask \in Price
    BY BarsAssumption
  <2>3. \A t \in Tables : IsTick(ticks[t], t, at, frames)
    BY <1>2, <1>3, <2>2, WorthIsTyped DEF Tables
  <2>4. /\ \A t \in Tables : ticks[t] # None => t # "computed"
        /\ Ingest("option_quote", at, ticks)
    BY <2>1 DEF OptionQuote, Worth, Tables
  <2>5. QED
    BY <2>3, <2>4, IngestKeeps
<1>5. CASE \E c \in References : OptionReference(at, c)
  <2>1. PICK c \in References : OptionReference(at, c)
    BY <1>5
  <2> DEFINE tick == ReferenceTick(at, c)
             ticks == Worth(QuoteTick(at, "reference", c), tick, None, None)
  <2>2. c.bid \in Price /\ c.ask \in Price /\ c.mark \in Price /\ c.ltp \in Price
    BY BarsAssumption
  <2>3. IsTick(tick, "reference", at, frames)
    <3>1. [at |-> at, no |-> frames, mark |-> c.mark, ltp |-> c.ltp] \in TickOf("reference")
      BY <1>1, <2>2 DEF TickOf
    <3>2. QED
      BY <3>1 DEF ReferenceTick, IsTick
  <2>4. \A t \in Tables : IsTick(ticks[t], t, at, frames)
    BY <1>2, <1>3, <2>2, <2>3, WorthIsTyped DEF Tables
  <2>5. /\ \A t \in Tables : ticks[t] # None => t # "computed"
        /\ Ingest("option_reference", at, ticks)
    BY <2>1 DEF OptionReference, Worth, Tables
  <2>6. QED
    BY <2>4, <2>5, IngestKeeps
<1>6. CASE \E price \in Spots : IndexQuote(at, price)
  <2>1. PICK price \in Spots : IndexQuote(at, price)
    BY <1>6
  <2> DEFINE tick == [at |-> at, no |-> frames, spot |-> price]
             ticks == Worth(None, None, tick, None)
  <2>2. IsTick(tick, "spot", at, frames)
    BY <1>1, BarsAssumption DEF TickOf, IsTick
  <2>3. \A t \in Tables : IsTick(ticks[t], t, at, frames)
    BY <1>3, <2>2, WorthIsTyped DEF Tables
  <2>4. /\ \A t \in Tables : ticks[t] # None => t # "computed"
        /\ Ingest("index_quote", at, ticks)
    BY <2>1 DEF IndexQuote, Worth, Tables
  <2>5. QED
    BY <2>3, <2>4, IngestKeeps
<1>7. CASE Sample(at)
  <2> DEFINE tick == [at |-> at, no |-> frames]
             ticks == Worth(None, None, None, tick)
  <2>1. IsTick(tick, "computed", at, frames)
    BY <1>1 DEF TickOf, IsTick
  <2>2. \A t \in Tables : IsTick(ticks[t], t, at, frames)
    BY <1>3, <2>1, WorthIsTyped DEF Tables
  <2>3. /\ \A t \in Tables : ticks[t] # None => t = "computed"
        /\ Ingest("computed", at, ticks)
    BY <1>7 DEF Sample, Worth, Tables
  <2>4. QED
    BY <2>2, <2>3, IngestKeeps
<1>8. QED
  BY <1>4, <1>5, <1>6, <1>7

(* The clock's boundary is a minute, and does not go back as the clock goes on.     *)
LEMMA BoundaryAdvances ==
  ASSUME now \in Nat, now' \in Nat, now <= now', NEW t \in Tables
  PROVE  Boundary(t) \in Int /\ Boundary(t)' \in Int /\ Boundary(t) <= Boundary(t)'
<1>1. Grace[t] \in Nat
  BY BarsAssumption DEF Grace
<1>2. /\ now - Grace[t] \in Int /\ now' - Grace[t] \in Int
      /\ now - Grace[t] <= now' - Grace[t]
  BY <1>1
<1>3. /\ MinuteOf(now - Grace[t]) \in Int /\ MinuteOf(now' - Grace[t]) \in Int
      /\ MinuteOf(now - Grace[t]) <= MinuteOf(now' - Grace[t])
  BY <1>2, MinutesAreInOrder
<1>4. Boundary(t) = MinuteOf(now - Grace[t]) - 1 /\ Boundary(t)' = MinuteOf(now' - Grace[t]) - 1
  BY DEF Boundary, Grace, MinuteOf
<1>5. QED
  BY <1>3, <1>4

(* A seal emits the minutes the clock has passed.                               *)
LEMMA SealKeeps == ASSUME BarInvariant, Seal PROVE BarInvariant'
<1> DEFINE due == [t \in Tables |-> Ready(t)]
<1>1. now \in Nat /\ through \in [Tables -> Int]
  BY DEF BarInvariant, WatermarkFollowsTheClock
<1>2. \A t \in Tables : Boundary(t) \in Int
  <2>1. SUFFICES ASSUME NEW t \in Tables PROVE Boundary(t) \in Int
    OBVIOUS
  <2>2. Grace[t] \in Nat
    BY BarsAssumption DEF Grace
  <2>3. now - Grace[t] \in Int
    BY <1>1, <2>2
  <2>4. QED
    BY <2>3, MinutesAreInOrder DEF Boundary
<1>3. /\ Emit(due) /\ UNCHANGED <<now, restored, frames, accepted, late>>
      /\ through' = [t \in Tables |-> IF Boundary(t) > through[t] THEN Boundary(t) ELSE through[t]]
  BY DEF Seal, Reached
<1>4. through' \in [Tables -> Int]
  BY <1>1, <1>2, <1>3
<1>5. \A t \in Tables : through'[t] = IF Boundary(t) > through[t] THEN Boundary(t) ELSE through[t]
  BY <1>3
<1>6. \A t \in Tables : \A m \in DOMAIN open[t] : m \in Int /\ m > through[t]
  <2>1. \A t \in Tables : \A m \in DOMAIN open[t] : m \in 0..MinuteOf(now) /\ m > through[t]
    BY DEF BarInvariant, OpenHoldsItsTicks
  <2>2. QED
    BY <2>1
<1>7. ASSUME NEW t \in Tables
      PROVE  /\ due[t] \subseteq DOMAIN open[t] /\ through[t] <= through'[t]
             /\ \A m \in DOMAIN open[t] : IF m \in due[t] THEN m <= through'[t] ELSE m > through'[t]
  <2>1. due[t] = {m \in DOMAIN open[t] : m <= Boundary(t)}
    BY DEF Ready
  <2>2. through[t] \in Int
    BY <1>1
  <2>3. QED
    BY <1>2, <1>5, <1>6, <2>1, <2>2
<1>8. frames' < MaxFrames => \A t \in Tables : through'[t] = restored[t] \/ through'[t] <= Boundary(t)
  BY <1>2, <1>3, <1>5 DEF BarInvariant, WatermarkFollowsTheClock
<1>9. frames' \in 0..MaxFrames /\ frames <= frames'
  BY <1>3, BarsAssumption DEF BarInvariant, WatermarkFollowsTheClock
<1>10. QED
  BY <1>3, <1>4, <1>7, <1>8, <1>9, EmitKeeps

(* The flush emits them all, and no event follows.                              *)
LEMMA FlushKeeps == ASSUME BarInvariant, Flush PROVE BarInvariant'
<1> DEFINE due == [t \in Tables |-> DOMAIN open[t]]
<1>1. /\ now \in Nat /\ through \in [Tables -> Int] /\ frames \in 0..MaxFrames /\ MaxFrames \in Nat
  BY BarsAssumption DEF BarInvariant, WatermarkFollowsTheClock
<1>2. \A t \in Tables : DOMAIN open[t] \subseteq 0..MinuteOf(now)
                        /\ \A m \in DOMAIN open[t] : m > through[t]
  BY DEF BarInvariant, OpenHoldsItsTicks
<1>3. /\ Emit(due) /\ frames' = MaxFrames /\ UNCHANGED <<now, restored, accepted, late>>
      /\ through' = [t \in Tables |-> IF DOMAIN open[t] # {} /\ Newest(t) > through[t]
                                         THEN Newest(t) ELSE through[t]]
  BY DEF Flush
<1>4. ASSUME NEW t \in Tables, DOMAIN open[t] # {}
      PROVE  /\ Newest(t) \in DOMAIN open[t] /\ Newest(t) \in Int
             /\ \A m \in DOMAIN open[t] : m <= Newest(t)
  <2>1. MinuteOf(now) \in Nat
    BY <1>1, StampHasAMinute
  <2>2. \E m \in DOMAIN open[t] : \A i \in DOMAIN open[t] : i <= m
    BY <1>2, <1>4, <2>1, NewestExists
  <2>3. Newest(t) \in DOMAIN open[t] /\ \A m \in DOMAIN open[t] : m <= Newest(t)
    BY <2>2 DEF Newest
  <2>4. QED
    BY <1>2, <2>3
<1>5. through' \in [Tables -> Int]
  BY <1>1, <1>3, <1>4
<1>6. ASSUME NEW t \in Tables
      PROVE  /\ due[t] \subseteq DOMAIN open[t] /\ through[t] <= through'[t]
             /\ \A m \in DOMAIN open[t] : IF m \in due[t] THEN m <= through'[t] ELSE m > through'[t]
  <2>1. through[t] \in Int /\ due[t] = DOMAIN open[t]
    BY <1>1
  <2>2. CASE DOMAIN open[t] = {}
    BY <1>3, <2>1, <2>2
  <2>3. CASE DOMAIN open[t] # {}
    <3>1. Newest(t) > through[t] /\ Newest(t) \in Int
      BY <1>2, <1>4, <2>3
    <3>2. through'[t] = Newest(t)
      BY <1>3, <2>3, <3>1
    <3>3. QED
      BY <1>4, <2>1, <2>3, <3>1, <3>2
  <2>4. QED
    BY <2>2, <2>3
<1>7. frames' \in 0..MaxFrames /\ frames <= frames' /\ ~(frames' < MaxFrames)
  BY <1>1, <1>3
<1>8. QED
  BY <1>3, <1>5, <1>6, <1>7, EmitKeeps

(* The clock moves: it leaves the open minutes and the watermark where they are.     *)
LEMMA TickKeeps ==
  ASSUME BarInvariant, now' \in Nat, now <= now',
         UNCHANGED <<open, through, restored, frames, barHistory>>
  PROVE  BarInvariant'
<1>1. UNCHANGED <<open, through, restored, frames, emitted, accepted, late>>
  BY DEF barHistory
<1>2. now \in Nat /\ through \in [Tables -> Int] /\ restored \in [Tables -> Int]
  BY DEF BarInvariant, WatermarkFollowsTheClock
<1>3. \A t \in Tables : Boundary(t) \in Int /\ Boundary(t)' \in Int /\ Boundary(t) <= Boundary(t)'
  BY <1>2, BoundaryAdvances
<1>4. WatermarkFollowsTheClock'
  BY <1>1, <1>2, <1>3 DEF BarInvariant, WatermarkFollowsTheClock
<1>5. \A t \in Tables : \A m : Of(t, m)' = Of(t, m)
  BY <1>1 DEF Of
<1>6. OpenHoldsItsTicks'
  <2>1. MinuteOf(now) \in Int /\ MinuteOf(now') \in Int /\ MinuteOf(now) <= MinuteOf(now')
    BY <1>2, MinutesAreInOrder
  <2>2. SUFFICES ASSUME NEW t \in Tables
                 PROVE  /\ DOMAIN open[t] \subseteq 0..MinuteOf(now')
                        /\ \A m \in DOMAIN open[t] :
                             m > through[t] /\ Of(t, m)' # {} /\ Holds(t, open[t][m], Of(t, m)')
    BY <1>1 DEF OpenHoldsItsTicks
  <2>3. /\ DOMAIN open[t] \subseteq 0..MinuteOf(now)
        /\ \A m \in DOMAIN open[t] :
             m > through[t] /\ Of(t, m) # {} /\ Holds(t, open[t][m], Of(t, m))
    BY DEF BarInvariant, OpenHoldsItsTicks
  <2>4. DOMAIN open[t] \subseteq 0..MinuteOf(now')
    BY <2>1, <2>3
  <2>5. QED
    BY <1>5, <2>3, <2>4
<1>7. TicksHaveAMinute'
  BY <1>1 DEF BarInvariant, TicksHaveAMinute
<1>8. EmittedIsSettled'
  <2>1. SUFFICES ASSUME NEW e \in emitted
                 PROVE  /\ e.table \in Tables /\ e.minute \in Int
                        /\ restored[e.table] < e.minute /\ e.minute <= through[e.table]
                        /\ Of(e.table, e.minute)' # {}
                        /\ Describes(e.table, e.bar, Of(e.table, e.minute)')
    BY <1>1 DEF EmittedIsSettled
  <2>2. QED
    BY <1>5 DEF BarInvariant, EmittedIsSettled
<1>9. OnlyStragglersAreLate'
  BY <1>1 DEF BarInvariant, OnlyStragglersAreLate
<1>10. QED
  BY <1>4, <1>6, <1>7, <1>8, <1>9 DEF BarInvariant

(* Every step keeps the invariant.                                           *)
LEMMA NextKeeps == BarInvariant /\ [BarsNext]_barVars => BarInvariant'
<1>1. SUFFICES ASSUME BarInvariant, [BarsNext]_barVars PROVE BarInvariant'
  OBVIOUS
<1>2. now \in Nat
  BY <1>1 DEF BarInvariant, WatermarkFollowsTheClock
<1>3. CASE UNCHANGED barVars
  BY <1>1, <1>2, <1>3, TickKeeps DEF barVars
<1>4. CASE Seal
  BY <1>1, <1>4, SealKeeps
<1>5. CASE Flush
  BY <1>1, <1>5, FlushKeeps
<1>6. CASE Tick
  <2>1. now' \in Nat /\ now <= now' /\ UNCHANGED <<open, through, restored, frames, barHistory>>
    BY <1>2, <1>6 DEF Tick
  <2>2. QED
    BY <1>1, <2>1, TickKeeps
<1>7. ASSUME NEW at \in Stamps,
             \/ \E c \in Books : OptionQuote(at, c)
             \/ \E c \in References : OptionReference(at, c)
             \/ \E price \in Spots : IndexQuote(at, price)
             \/ Sample(at)
      PROVE  BarInvariant'
  BY <1>1, <1>7, EventKeeps
<1>8. QED
  BY <1>1, <1>3, <1>4, <1>5, <1>6, <1>7 DEF BarsNext

(* The invariant holds of every behaviour.                                     *)
THEOREM BarsAreInvariant == BarsSpec => []BarInvariant
<1>1. BarsInit => BarInvariant
  BY InitEstablishes
<1>2. BarInvariant /\ [BarsNext]_barVars => BarInvariant'
  BY NextKeeps
<1>3. QED
  BY <1>1, <1>2, PTL DEF BarsSpec

(* A bar is its minute: whatever order the ticks came in, bars.py emits the       *)
(* venue's open and close, extremes that were reached, the mid of one tick, the      *)
(* book alone when it spoke, and never an empty bar.                            *)
THEOREM BarsAreTheirMinutes == BarsSpec => []BarIsTheMinute
<1>1. BarInvariant => BarIsTheMinute
  BY DEF BarInvariant, EmittedIsSettled, BarIsTheMinute
<1>2. QED
  BY <1>1, BarsAreInvariant, PTL

(* A minute gets one bar, of every tick that was no straggler: a minute that has a    *)
(* bar, of this process or of the one before its checkpoint, is never opened again,   *)
(* and only an event older than the lag of its stream is counted as late.          *)
THEOREM MinutesHaveOneBar == BarsSpec => []EveryMinuteOnce
<1>1. BarInvariant => EveryMinuteOnce
  <2>1. SUFFICES ASSUME BarInvariant PROVE OneBarPerMinute
    BY DEF BarInvariant, EveryMinuteOnce
  <2>2. \A t \in Tables : \A m \in DOMAIN open[t] : m \in Int /\ m > through[t]
    <3>1. \A t \in Tables : \A m \in DOMAIN open[t] : m \in 0..MinuteOf(now) /\ m > through[t]
      BY <2>1 DEF BarInvariant, OpenHoldsItsTicks
    <3>2. QED
      BY <3>1
  <2>3. \A t \in Tables : restored[t] \in Int /\ through[t] \in Int /\ restored[t] <= through[t]
    BY <2>1 DEF BarInvariant, WatermarkFollowsTheClock
  <2>4. \A e \in emitted : /\ e.table \in Tables /\ e.minute \in Int
                           /\ restored[e.table] < e.minute /\ e.minute <= through[e.table]
    BY <2>1 DEF BarInvariant, EmittedIsSettled
  <2>5. \A t \in Tables : \A m \in DOMAIN open[t] : m > restored[t]
    BY <2>2, <2>3
  <2>6. ASSUME NEW e \in emitted, NEW t \in Tables, e.table = t
        PROVE  e.minute \notin DOMAIN open[t] /\ e.minute > restored[t]
    BY <2>2, <2>3, <2>4, <2>6
  <2>7. QED
    BY <2>5, <2>6 DEF OneBarPerMinute
<1>2. QED
  BY <1>1, BarsAreInvariant, PTL

----------------------------------------------------------------------------
(* The first minute of a set is one of it, and no later than any.             *)
LEMMA MinIsLeast ==
  ASSUME NEW S \in SUBSET Nat, S # {}
  PROVE  Min(S) \in S /\ \A i \in S : Min(S) <= i
  BY LeastExists DEF Min

(* It stays the first when later minutes are added.                           *)
LEMMA MinStays ==
  ASSUME NEW S \in SUBSET Nat, S # {}, NEW T \in SUBSET Nat, \A i \in S, j \in T : i < j
  PROVE  Min(S \cup T) = Min(S)
<1>1. Min(S) \in S /\ \A i \in S : Min(S) <= i
  BY MinIsLeast
<1>2. Min(S \cup T) \in S \cup T /\ \A i \in S \cup T : Min(S \cup T) <= i
  <2>1. S \cup T \in SUBSET Nat /\ S \cup T # {}
    OBVIOUS
  <2>2. QED
    BY <2>1, MinIsLeast
<1>3. \A a \in S, b \in S \cup T :
        (\A i \in S : a <= i) /\ (\A i \in S \cup T : b <= i) => a = b
  OBVIOUS
<1>4. QED
  BY <1>1, <1>2, <1>3

(* The later of two minutes.                                                  *)
LEMMA MaxOfTwo ==
  ASSUME NEW a \in Nat, NEW b \in Nat
  PROVE  Max({a, b}) \in {a, b} /\ a <= Max({a, b}) /\ b <= Max({a, b})
<1>1. \E m \in {a, b} : \A i \in {a, b} : m >= i
  BY a <= b \/ b <= a
<1>2. QED
  BY <1>1 DEF Max

(* What an enumeration in order is.                                           *)
InOrder(s, S) ==
  /\ s \in [1..Cardinality(S) -> S]
  /\ \A i, j \in DOMAIN s : i < j => s[i] < s[j]

(* Every finite set of minutes has one: the least set without would have one,   *)
(* its first minute before an enumeration of the others.                       *)
LEMMA OrderExists ==
  ASSUME NEW S \in SUBSET Nat, IsFiniteSet(S)
  PROVE  \E s : InOrder(s, S)
<1> DEFINE Bare(n) == \E T \in SUBSET Nat :
                        IsFiniteSet(T) /\ Cardinality(T) = n /\ ~ \E s : InOrder(s, T)
           Sizes == {n \in Nat : Bare(n)}
<1>1. SUFFICES ASSUME ~ \E s : InOrder(s, S) PROVE FALSE
  OBVIOUS
<1>2. Sizes # {}
  BY <1>1, FS_CardinalityType
<1>3. PICK n \in Sizes : \A k \in Sizes : n <= k
  BY <1>2, LeastExists
<1>4. PICK T \in SUBSET Nat :
        IsFiniteSet(T) /\ Cardinality(T) = n /\ ~ \E s : InOrder(s, T)
  BY <1>3
<1>5. T # {}
  <2>1. SUFFICES ASSUME T = {} PROVE FALSE
    OBVIOUS
  <2>2. Cardinality(T) = 0
    BY <2>1, FS_EmptySet
  <2>3. InOrder([i \in 1..0 |-> i], T)
    BY <2>1, <2>2 DEF InOrder
  <2>4. QED
    BY <1>4, <2>3
<1>6. PICK x \in T : \A j \in T : x <= j
  BY <1>5, LeastExists
<1> DEFINE R == T \ {x}
<1>7. IsFiniteSet(R) /\ Cardinality(R) = n - 1 /\ n \in Nat /\ n - 1 \in Nat
  <2>1. IsFiniteSet(R) /\ Cardinality(R) = Cardinality(T) - 1
    BY <1>4, <1>6, FS_RemoveElement
  <2>2. Cardinality(R) \in Nat
    BY <2>1, FS_CardinalityType
  <2>3. QED
    BY <1>4, <2>1, <2>2
<1>8. PICK s : InOrder(s, R)
  BY <1>3, <1>7
<1> DEFINE longer == [i \in 1..n |-> IF i = 1 THEN x ELSE s[i - 1]]
<1>9. s \in [1..(n - 1) -> R] /\ \A i, j \in 1..(n - 1) : i < j => s[i] < s[j]
  BY <1>7, <1>8 DEF InOrder
<1>10. \A i \in 1..n : i # 1 => s[i - 1] \in R /\ s[i - 1] > x /\ s[i - 1] \in Nat
  <2>1. SUFFICES ASSUME NEW i \in 1..n, i # 1 PROVE s[i - 1] \in R /\ s[i - 1] > x /\ s[i - 1] \in Nat
    OBVIOUS
  <2>2. i - 1 \in 1..(n - 1)
    BY <1>7, <2>1
  <2>3. s[i - 1] \in R
    BY <1>9, <2>2
  <2>4. s[i - 1] \in Nat /\ x \in Nat /\ x <= s[i - 1] /\ s[i - 1] # x
    BY <1>6, <2>3
  <2>5. QED
    BY <2>3, <2>4
<1>11. longer \in [1..n -> T]
  BY <1>6, <1>10
<1>12. ASSUME NEW i \in 1..n, NEW j \in 1..n, i < j PROVE longer[i] < longer[j]
  <2>1. CASE i = 1
    BY <1>6, <1>10, <1>12, <2>1
  <2>2. CASE i # 1
    <3>1. i - 1 \in 1..(n - 1) /\ j - 1 \in 1..(n - 1) /\ i - 1 < j - 1 /\ j # 1
      BY <1>7, <1>12, <2>2
    <3>2. QED
      BY <1>9, <1>12, <2>2, <3>1
  <2>3. QED
    BY <2>1, <2>2
<1>13. InOrder(longer, T)
  BY <1>4, <1>11, <1>12 DEF InOrder
<1>14. QED
  BY <1>4, <1>13

(* So what is published at a hand-over are the minutes handed over.             *)
LEMMA AscendingIsTheSet ==
  ASSUME NEW S \in SUBSET Nat, IsFiniteSet(S)
  PROVE  Ascending(S) \in Seq(S)
<1>1. \E s \in [1..Cardinality(S) -> S] : \A i, j \in DOMAIN s : i < j => s[i] < s[j]
  BY OrderExists DEF InOrder
<1>2. Ascending(S) \in [1..Cardinality(S) -> S]
  BY <1>1 DEF Ascending
<1>3. Cardinality(S) \in Nat
  BY FS_CardinalityType
<1>4. QED
  BY <1>2, <1>3

----------------------------------------------------------------------------
(* The minutes of a sequence of events.                                       *)
In(s) == {s[i] : i \in 1..Len(s)}

(* A hand-over adds to them what it publishes, and an event applied is one.    *)
LEMMA MinutesOfEvents ==
  ASSUME NEW S, NEW s \in Seq(S)
  PROVE  /\ \A T : \A t \in Seq(T) : In(s \o t) \subseteq In(s) \cup T
         /\ s # <<>> => Head(s) \in In(s) /\ In(Tail(s)) \subseteq In(s) /\ Tail(s) \in Seq(S)
         /\ In(s) \subseteq S
<1>1. ASSUME NEW T, NEW t \in Seq(T) PROVE In(s \o t) \subseteq In(s) \cup T
  <2>1. SUFFICES ASSUME NEW i \in 1..Len(s \o t) PROVE (s \o t)[i] \in In(s) \cup T
    BY DEF In
  <2>2. Len(s) \in Nat /\ Len(t) \in Nat /\ Len(s \o t) = Len(s) + Len(t)
    OBVIOUS
  <2>3. CASE i <= Len(s)
    <3>1. (s \o t)[i] = s[i] /\ i \in 1..Len(s)
      BY <2>2, <2>3
    <3>2. QED
      BY <3>1 DEF In
  <2>4. CASE i > Len(s)
    <3>1. (s \o t)[i] = t[i - Len(s)] /\ i - Len(s) \in 1..Len(t)
      BY <2>2, <2>4
    <3>2. QED
      BY <3>1
  <2>5. QED
    BY <2>2, <2>3, <2>4
<1>2. ASSUME s # <<>> PROVE Head(s) \in In(s) /\ In(Tail(s)) \subseteq In(s) /\ Tail(s) \in Seq(S)
  <2>1. Len(s) \in Nat /\ Len(s) > 0 /\ Head(s) = s[1] /\ Tail(s) \in Seq(S)
        /\ Len(Tail(s)) = Len(s) - 1
    BY <1>2
  <2>2. \A i \in 1..Len(Tail(s)) : Tail(s)[i] = s[i + 1] /\ i + 1 \in 1..Len(s)
    BY <1>2, <2>1
  <2>3. QED
    BY <2>1, <2>2 DEF In
<1>3. In(s) \subseteq S
  BY DEF In
<1>4. QED
  BY <1>1, <1>2, <1>3

----------------------------------------------------------------------------
(* What the variables hold: minutes that were recorded, and files of them.     *)
Files == [name : Nat \X Nat, rows : SUBSET recorded]
Stages == {"idle", "begun", "writing", "landed"}
FlushState == [at : Stages, rows : SUBSET recorded, name : Nat \X Nat]

StoreTypeOK ==
  /\ composition \in {"monolith", "split"}
  /\ clock \in Nat \ {0}
  /\ recording \in BOOLEAN
  /\ writer \in {"running", "closing", "closed"}
  /\ recorded \subseteq 1..clock
  /\ unsealed \subseteq recorded
  /\ buffer \subseteq recorded
  /\ held \subseteq recorded
  /\ shown \subseteq recorded
  /\ lastFlush \in 1..clock
  /\ flushes \in Nat
  /\ flush \in [Threads -> FlushState]
  /\ disk \subseteq Files
  /\ events \in Seq(recorded)
  /\ newest \in recorded \cup {0}
  /\ read \in [at : {"idle", "scanned", "pending"}, files : BOOLEAN,
               due : SUBSET recorded, pending : SUBSET recorded]
  /\ raced \in BOOLEAN
  /\ delayed \in BOOLEAN

(* Any set of recorded minutes is a finite set of naturals.                    *)
LEMMA MinutesAreFinite ==
  ASSUME StoreTypeOK, NEW S, S \subseteq recorded
  PROVE  S \in SUBSET Nat /\ IsFiniteSet(S) /\ \A m \in S : m <= clock
<1>1. clock \in Nat /\ S \subseteq 1..clock
  BY DEF StoreTypeOK
<1>2. IsFiniteSet(1..clock)
  BY <1>1, FS_Interval
<1>3. IsFiniteSet(S)
  BY <1>1, <1>2, FS_Subset
<1>4. QED
  BY <1>1, <1>3

(* What is published when minutes are handed over.                             *)
LEMMA EventsAreTyped ==
  ASSUME StoreTypeOK, NEW bars, bars \subseteq recorded, HandOver(bars)
  PROVE  events' \in Seq(recorded) /\ In(events') \subseteq In(events) \cup bars
<1>1. events \in Seq(recorded)
  BY DEF StoreTypeOK
<1>2. Ascending(bars) \in Seq(bars)
  BY MinutesAreFinite, AscendingIsTheSet
<1>3. Ascending(bars) \in Seq(recorded)
  BY <1>2
<1>4. CASE composition = "split"
  <2>1. events' = events \o Ascending(bars)
    BY <1>4 DEF HandOver
  <2>2. QED
    BY <1>1, <1>2, <1>3, <2>1, MinutesOfEvents
<1>5. CASE composition # "split"
  BY <1>1, <1>5 DEF HandOver
<1>6. QED
  BY <1>4, <1>5

(* A sequence of minutes is one of more minutes.                               *)
LEMMA SeqGrows ==
  ASSUME NEW S, NEW T, S \subseteq T, NEW s \in Seq(S)
  PROVE  s \in Seq(T)
<1>1. Len(s) \in Nat /\ s \in [1..Len(s) -> S]
  OBVIOUS
<1>2. s \in [1..Len(s) -> T]
  BY <1>1
<1>3. QED
  BY <1>1, <1>2

(* A set of files stays one while minutes are recorded, and a flush's state too. *)
LEMMA RecordedGrows ==
  ASSUME StoreTypeOK, recorded \subseteq recorded'
  PROVE  /\ disk \subseteq Files'
         /\ flush \in [Threads -> FlushState']
         /\ events \in Seq(recorded') /\ newest \in recorded' \cup {0}
         /\ held \subseteq recorded' /\ shown \subseteq recorded'
         /\ read \in [at : {"idle", "scanned", "pending"}, files : BOOLEAN,
                      due : SUBSET recorded', pending : SUBSET recorded']
<1>1. disk \subseteq Files'
  BY DEF StoreTypeOK, Files
<1>2. flush \in [Threads -> FlushState']
  BY DEF StoreTypeOK, FlushState
<1>3. events \in Seq(recorded')
  BY SeqGrows DEF StoreTypeOK
<1>4. QED
  BY <1>1, <1>2, <1>3 DEF StoreTypeOK

(* The rows of typed files are recorded minutes.                               *)
LEMMA RowsAreRecorded ==
  ASSUME StoreTypeOK
  PROVE  Rows(disk) \subseteq recorded
  BY DEF StoreTypeOK, Rows, Files

(* The store begins with tables of rows and files of rows.                  *)
LEMMA StoreStartsTyped == StoreInit => StoreTypeOK
<1> SUFFICES ASSUME StoreInit PROVE StoreTypeOK
  OBVIOUS
<1>1. flush \in [Threads -> FlushState]
  BY DEF StoreInit, FlushState, Stages, Idle
<1>2. read \in [at : {"idle", "scanned", "pending"}, files : BOOLEAN,
               due : SUBSET recorded, pending : SUBSET recorded]
  BY DEF StoreInit, NoRead
<1>3. recorded \subseteq 1..clock /\ lastFlush \in 1..clock /\ clock \in Nat \ {0}
  BY DEF StoreInit
<1>4. events \in Seq(recorded) /\ disk \subseteq Files
  BY DEF StoreInit
<1>5. QED
  BY <1>1, <1>2, <1>3, <1>4 DEF StoreInit, StoreTypeOK

(* Every step of the store keeps its types.                                 *)
LEMMA StoreStaysTyped ==
  ASSUME StoreTypeOK, [StoreNext]_storeVars
  PROVE  StoreTypeOK'
<1> USE StoreAssumption
<1>1. CASE MinutePasses
  <2>1. clock \in Nat \ {0} /\ clock' = clock + 1 /\ recorded \subseteq 1..clock
    BY <1>1 DEF MinutePasses, StoreTypeOK
  <2>2. clock' \in Nat \ {0} /\ 1..clock \subseteq 1..clock' /\ clock + 1 \in 1..clock'
    BY <2>1
  <2>3. recorded \subseteq recorded' /\ recorded' \subseteq 1..clock' /\ unsealed' \subseteq recorded'
        /\ buffer' \subseteq recorded' /\ lastFlush' \in 1..clock'
    BY <1>1, <2>1, <2>2 DEF MinutePasses, StoreTypeOK
  <2>4. /\ disk \subseteq Files'
        /\ flush \in [Threads -> FlushState']
        /\ events \in Seq(recorded') /\ newest \in recorded' \cup {0}
        /\ held \subseteq recorded' /\ shown \subseteq recorded'
        /\ read \in [at : {"idle", "scanned", "pending"}, files : BOOLEAN,
                     due : SUBSET recorded', pending : SUBSET recorded']
    BY <2>3, RecordedGrows
  <2>5. QED
    BY <1>1, <2>2, <2>3, <2>4 DEF MinutePasses, StoreTypeOK, api
<1> DEFINE handed == IF composition = "monolith" THEN unsealed ELSE Sealable
<1>2. Sealable \subseteq recorded /\ handed \subseteq recorded /\ unsealed \ Sealable \subseteq recorded
      /\ unsealed \ handed \subseteq recorded /\ clock \in 1..clock
      /\ unsealed \subseteq recorded /\ recorded \subseteq 1..clock
  <2>1. clock \in 1..clock
    BY DEF StoreTypeOK
  <2>2. QED
    BY <2>1 DEF StoreTypeOK, Sealable
<1>3. \A t \in Threads : Begun(t) => flush' \in [Threads -> FlushState]
  <2>1. [Idle EXCEPT !.at = "begun"] \in FlushState
    BY DEF Idle, FlushState, Stages
  <2>2. QED
    BY <2>1 DEF Begun, StoreTypeOK
<1>4. CASE Pass
  <2>1. events' \in Seq(recorded) /\ buffer' \subseteq recorded /\ unsealed' \subseteq recorded
    BY <1>2, <1>4, EventsAreTyped DEF Pass, HandOver, StoreTypeOK
  <2>2. flush' \in [Threads -> FlushState] /\ lastFlush' \in 1..clock /\ raced' \in BOOLEAN
    BY <1>2, <1>3, <1>4 DEF Pass, StoreTypeOK, Threads
  <2>3. QED
    BY <1>4, <2>1, <2>2 DEF Pass, StoreTypeOK, Files, FlushState
<1>5. CASE Pause
  <2>1. events' \in Seq(recorded) /\ buffer' \subseteq recorded /\ unsealed' \subseteq recorded
    BY <1>2, <1>5, EventsAreTyped DEF Pause, HandOver, StoreTypeOK
  <2>2. flush' \in [Threads -> FlushState] /\ lastFlush' \in 1..clock /\ raced' \in BOOLEAN
    BY <1>2, <1>3, <1>5 DEF Pause, StoreTypeOK, Threads
  <2>3. QED
    BY <1>5, <2>1, <2>2 DEF Pause, StoreTypeOK, Files, FlushState
<1>6. CASE Resume
  <2>1. recorded \subseteq recorded' /\ recorded' \subseteq 1..clock' /\ clock' = clock
    BY <1>2, <1>6 DEF Resume
  <2>2. CASE composition = "monolith"
    <3>1. unsealed' \subseteq recorded' /\ FlagRaised
      BY <1>2, <1>6, <2>2 DEF Resume, FlagRaised
    <3>2. QED
      BY <1>6, <2>1, <3>1, RecordedGrows DEF Resume, FlagRaised, StoreTypeOK, Files, FlushState
  <2>3. CASE composition # "monolith"
    <3>1. ResumeApplied
      BY <1>6, <2>3 DEF Resume
    <3>2. events' \in Seq(recorded) /\ buffer' \subseteq recorded /\ unsealed' \subseteq recorded'
      BY <1>2, <1>6, <3>1, EventsAreTyped DEF ResumeApplied, Resume, HandOver, StoreTypeOK
    <3>3. flush' \in [Threads -> FlushState] /\ lastFlush' \in 1..clock /\ raced' \in BOOLEAN
      BY <1>2, <1>3, <3>1 DEF ResumeApplied, StoreTypeOK, Threads
    <3>4. flush' \in [Threads -> FlushState']
      BY <2>1, <3>3 DEF FlushState
    <3>5. events' \in Seq(recorded') /\ buffer' \subseteq recorded'
      BY <2>1, <3>2, SeqGrows
    <3>6. /\ disk \subseteq Files' /\ newest \in recorded' \cup {0}
          /\ held \subseteq recorded' /\ shown \subseteq recorded'
          /\ read \in [at : {"idle", "scanned", "pending"}, files : BOOLEAN,
                       due : SUBSET recorded', pending : SUBSET recorded']
      BY <2>1, RecordedGrows
    <3>7. QED
      BY <1>6, <2>1, <3>2, <3>3, <3>4, <3>5, <3>6 DEF Resume, StoreTypeOK
  <2>4. QED
    BY <2>2, <2>3
<1>7. CASE Close
  <2>1. events' \in Seq(recorded) /\ buffer' \subseteq recorded /\ unsealed' \subseteq recorded
    BY <1>2, <1>7, EventsAreTyped DEF Close, HandOver, StoreTypeOK
  <2>2. flush' \in [Threads -> FlushState] /\ lastFlush' \in 1..clock /\ raced' \in BOOLEAN
    BY <1>2, <1>3, <1>7 DEF Close, StoreTypeOK, Threads
  <2>3. QED
    BY <1>7, <2>1, <2>2 DEF Close, StoreTypeOK, Files, FlushState
<1>8. CASE Restart
  <2>1. disk' \subseteq Files /\ unsealed' \subseteq recorded /\ lastFlush' \in 1..clock
    BY <1>2, <1>8 DEF Restart, StoreTypeOK
  <2>2. flush' \in [Threads -> FlushState]
    BY <1>8 DEF Restart, FlushState, Idle, Stages
  <2>3. QED
    BY <1>8, <2>1, <2>2 DEF Restart, StoreTypeOK, Files, FlushState, api
<1>9. ASSUME NEW t \in Threads, Ended(t)
      PROVE  flush' \in [Threads -> FlushState] /\ writer' \in {"running", "closing", "closed"}
  BY <1>9 DEF Ended, StoreTypeOK, FlushState, Idle, Stages
<1>10. ASSUME NEW t \in Threads, Nothing(t) PROVE StoreTypeOK'
  BY <1>9, <1>10 DEF Nothing, StoreTypeOK, Files, FlushState, api
<1>11. ASSUME NEW t \in Threads, Take(t) PROVE StoreTypeOK'
  <2>1. Min(buffer) \in Nat
    BY <1>11, MinutesAreFinite, MinIsLeast DEF Take, StoreTypeOK
  <2>2. Taken \in FlushState
    BY <2>1 DEF Taken, FlushState, Stages, StoreTypeOK
  <2>3. QED
    BY SMTT(30), <1>11, <2>2 DEF Take, BufferKept, StoreTypeOK, Files, FlushState, api
<1>12. ASSUME NEW t \in Threads, Land(t) PROVE StoreTypeOK'
  <2>1. File(t) \in Files
    BY DEF File, Files, StoreTypeOK, FlushState
  <2>2. disk' \subseteq Files
    BY <1>12, <2>1 DEF Land, Without, StoreTypeOK
  <2>3. flush' \in [Threads -> FlushState]
    <3>1. flush[t] \in FlushState
      BY DEF StoreTypeOK
    <3>2. [flush[t] EXCEPT !.at = "landed"] \in FlushState
      BY <3>1 DEF FlushState, Stages
    <3>3. QED
      BY <1>12, <3>2 DEF Land, StoreTypeOK
  <2>4. QED
    BY <1>12, <2>2, <2>3 DEF Land, StoreTypeOK, Files, FlushState, api
<1>13. ASSUME NEW t \in Threads, End(t) PROVE StoreTypeOK'
  <2>1. flush[t].name[2] \in Nat
    BY DEF StoreTypeOK, FlushState
  <2>2. QED
    BY <1>9, <1>13, <2>1 DEF End, StoreTypeOK, Files, FlushState, api
<1>14. ASSUME NEW t \in Threads, Fails(t) PROVE StoreTypeOK'
  <2>1. disk' \subseteq Files
    BY <1>14 DEF Fails, RolledBack, Without, StoreTypeOK
  <2>2. QED
    BY <1>9, <1>14, <2>1 DEF Fails, OrdinalKept, StoreTypeOK, Files, FlushState, api
<1>15. CASE Apply
  <2>1. events \in Seq(recorded) /\ events # <<>>
    BY <1>15 DEF Apply, StoreTypeOK
  <2>2. Head(events) \in recorded /\ Tail(events) \in Seq(recorded)
    BY <2>1
  <2>3. Head(events) \in Nat /\ newest \in Nat
    <3>1. \A m \in recorded : m \in Nat
      BY MinutesAreFinite
    <3>2. newest \in recorded \cup {0}
      BY DEF StoreTypeOK
    <3>3. QED
      BY <2>2, <3>1, <3>2
  <2>4. newest' \in recorded \cup {0}
    <3>1. Max({newest, Head(events)}) \in {newest, Head(events)}
      BY <2>3, MaxOfTwo
    <3>2. newest' = Max({newest, Head(events)})
      BY <1>15 DEF Apply
    <3>3. newest \in recorded \cup {0}
      BY DEF StoreTypeOK
    <3>4. QED
      BY <2>2, <3>1, <3>2, <3>3
  <2>5. QED
    BY <1>15, <2>2, <2>4 DEF Apply, StoreTypeOK, Files, FlushState, store
<1>16. Answerable \subseteq recorded
  BY RowsAreRecorded DEF Answerable, StoreTypeOK
<1>17. CASE Scan
  <2>1. read' \in [at : {"idle", "scanned", "pending"}, files : BOOLEAN,
                   due : SUBSET recorded, pending : SUBSET recorded]
    BY <1>16, <1>17 DEF Scan, NoRead
  <2>2. QED
    BY <1>17, <2>1 DEF Scan, StoreTypeOK, Files, FlushState, store, api
<1>18. CASE Pending
  <2>1. read' \in [at : {"idle", "scanned", "pending"}, files : BOOLEAN,
                   due : SUBSET recorded, pending : SUBSET recorded]
    BY <1>18 DEF Pending, StoreTypeOK
  <2>2. QED
    BY <1>18, <2>1 DEF Pending, StoreTypeOK, Files, FlushState, store, api
<1>19. CASE Collect
  <2>1. shown' \subseteq recorded
    BY <1>19, RowsAreRecorded DEF Collect, PreferDisk, StoreTypeOK
  <2>2. QED
    BY <1>19, <2>1 DEF Collect, NoRead, StoreTypeOK, Files, FlushState, store, api
<1>20. CASE UNCHANGED storeVars
  BY SMTT(30), <1>20 DEF storeVars, store, api, StoreTypeOK, Files, FlushState
<1>21. QED
  BY <1>1, <1>4, <1>5, <1>6, <1>7, <1>8, <1>10, <1>11, <1>12, <1>13, <1>14, <1>15, <1>17, <1>18,
     <1>19, <1>20 DEF StoreNext

(* What is recorded, sealed or not, is minutes always.                        *)
THEOREM StoreTypes == StoreSpec => []StoreTypeOK
<1>1. QED
  BY StoreStartsTyped, StoreStaysTyped, PTL DEF StoreSpec

----------------------------------------------------------------------------
(* A file is settled once the flush that wrote it has ended. Any other is that  *)
(* of the flush under way, or one a failed flush left behind: both have the      *)
(* name the next flush will use.                                             *)
Settled == {f \in disk : f.name[2] <= flushes}
Loose == {f \in disk : f.name[2] > flushes}

OneFlush == \A t, u \in Threads : flush[t].at # "idle" /\ flush[u].at # "idle" => t = u

FlushInv ==
  /\ OneFlush
  /\ \A t \in Threads : flush[t].at \in {"writing", "landed"} =>
       buffer # {} /\ flush[t].rows = buffer /\ flush[t].name = <<Min(buffer), flushes + 1>>
  /\ \A t \in Threads : flush[t].at = "landed" => File(t) \in disk

FilesInv ==
  /\ \A f, g \in Settled : f # g => f.rows \cap g.rows = {}
  /\ \A f \in Settled : \A r \in f.rows, m \in buffer : r < m
  /\ \A f \in Loose : buffer # {} /\ f.rows \subseteq buffer /\ f.name = <<Min(buffer), flushes + 1>>
  /\ \A f, g \in disk : f.name = g.name => f = g

SealedInv ==
  /\ SealedMinutes = buffer \cup Rows(disk)
  /\ \A s \in SealedMinutes, u \in unsealed : s < u
  /\ writer = "running" => \A s \in SealedMinutes : s < clock

StoreInv == ~raced => FlushInv /\ FilesInv /\ SealedInv

(* A file's ordinal is a number, so it is settled or it is not.                 *)
LEMMA SettledOrLoose ==
  ASSUME StoreTypeOK
  PROVE  disk = Settled \cup Loose /\ Settled \cap Loose = {}
<1>1. \A f \in disk : f.name[2] \in Nat /\ flushes \in Nat
  BY DEF StoreTypeOK, Files
<1>2. QED
  BY <1>1 DEF Settled, Loose

(* What the sealed minutes of the settled files and the buffer are to each other *)
(* is what a reader is told.                                                  *)
LEMMA StoreInvIsEnough ==
  ASSUME StoreTypeOK, StoreInv
  PROVE  EveryBarIsKeptOnce
<1>1. NothingLost
  BY DEF StoreInv, SealedInv, NothingLost
<1>2. ASSUME ~raced, NEW f \in disk, NEW g \in disk, f # g PROVE f.rows \cap g.rows = {}
  <2>1. FilesInv
    BY <1>2 DEF StoreInv
  <2>2. f \in Settled \cup Loose /\ g \in Settled \cup Loose
    BY SettledOrLoose
  <2>3. \A h \in disk : h.rows \subseteq Nat
    BY MinutesAreFinite DEF StoreTypeOK, Files
  <2>4. ASSUME NEW a \in Settled, NEW b \in Loose PROVE a.rows \cap b.rows = {}
    <3>1. \A r \in a.rows, m \in b.rows : r < m /\ r \in Nat
      BY <2>1, <2>3 DEF FilesInv, Settled
    <3>2. QED
      BY <3>1
  <2>5. CASE f \in Loose /\ g \in Loose
    BY <1>2, <2>1, <2>5 DEF FilesInv, Loose
  <2>6. CASE f \in Settled /\ g \in Settled
    BY <1>2, <2>1, <2>6 DEF FilesInv
  <2>7. QED
    BY <2>2, <2>4, <2>5, <2>6
<1>3. QED
  BY <1>1, <1>2 DEF EveryBarIsKeptOnce, NeverDoubled

(* When no flush is under way one may begin.                                   *)
LEMMA FlushBegins ==
  ASSUME StoreTypeOK, Flushing = {}, flush' = flush \/ \E t \in Threads : Begun(t)
  PROVE  FlushInv'
<1>1. \A t \in Threads : flush[t].at = "idle"
  BY DEF Flushing
<1>2. CASE flush' = flush
  BY <1>1, <1>2 DEF FlushInv, OneFlush
<1>3. CASE \E t \in Threads : Begun(t)
  <2>1. PICK t \in Threads : Begun(t)
    BY <1>3
  <2>2. flush' = [flush EXCEPT ![t] = [Idle EXCEPT !.at = "begun"]]
    BY <2>1 DEF Begun
  <2>3. flush'[t].at = "begun" /\ \A u \in Threads : u # t => flush'[u].at = "idle"
    BY <1>1, <2>2 DEF StoreTypeOK, Idle
  <2>4. QED
    BY <2>3 DEF FlushInv, OneFlush
<1>4. QED
  BY <1>2, <1>3

(* The oldest of what the aggregator holds go to the buffer, and the minute now  *)
(* open may be opened.                                                        *)
LEMMA HandOverKeeps ==
  ASSUME StoreTypeOK, FilesInv, SealedInv,
         NEW bars \in SUBSET unsealed, \A b \in bars, u \in unsealed \ bars : b < u,
         NEW opened \in SUBSET {clock},
         opened # {} => writer = "running" /\ \A b \in bars : b < clock,
         writer' = "running" => writer = "running" /\ \A b \in bars : b < clock,
         recorded' = recorded \cup opened, unsealed' = (unsealed \ bars) \cup opened,
         buffer' = buffer \cup bars, disk' = disk, flushes' = flushes, clock' = clock
  PROVE  FilesInv' /\ SealedInv' /\ SealedMinutes' = SealedMinutes \cup bars
<1>1. Rows(disk') = Rows(disk) /\ Settled' = Settled /\ Loose' = Loose
  BY DEF Settled, Loose
<1>2. buffer \cup Rows(disk) = SealedMinutes /\ \A s \in SealedMinutes, u \in unsealed : s < u
  BY DEF SealedInv
<1>3. buffer \in SUBSET Nat /\ bars \in SUBSET Nat
  BY MinutesAreFinite DEF StoreTypeOK
<1>4. \A f \in Settled : \A r \in f.rows : \A b \in bars : r < b
  BY <1>2 DEF Settled, Rows
<1>5. ASSUME NEW f \in Loose
      PROVE  buffer' # {} /\ f.rows \subseteq buffer' /\ f.name = <<Min(buffer'), flushes' + 1>>
  <2>1. buffer # {} /\ f.rows \subseteq buffer /\ f.name = <<Min(buffer), flushes + 1>>
    BY DEF FilesInv
  <2>2. \A i \in buffer, j \in bars : i < j
    BY <1>2
  <2>3. Min(buffer \cup bars) = Min(buffer)
    BY <1>3, <2>1, <2>2, MinStays
  <2>4. QED
    BY <2>1, <2>3
<1>6. FilesInv'
  <2>1. \A f \in Settled : \A r \in f.rows, m \in buffer' : r < m
    BY <1>4 DEF FilesInv
  <2>2. QED
    BY <1>1, <1>5, <2>1 DEF FilesInv
<1>7. opened \cap (SealedMinutes \cup bars) = {}
  <2>1. SUFFICES ASSUME opened # {} PROVE clock \notin SealedMinutes \cup bars
    OBVIOUS
  <2>2. \A m \in SealedMinutes \cup bars : m < clock
    BY <2>1 DEF SealedInv
  <2>3. clock \in Nat
    BY DEF StoreTypeOK
  <2>4. QED
    BY <2>2, <2>3
<1>8. SealedMinutes' = SealedMinutes \cup bars
  <2>1. unsealed \subseteq recorded /\ bars \subseteq unsealed
    BY DEF StoreTypeOK
  <2>2. QED
    BY <1>7, <2>1 DEF SealedMinutes
<1>9. SealedInv'
  <2>1. SealedMinutes' = buffer' \cup Rows(disk')
    BY <1>1, <1>2, <1>8
  <2>2. \A s \in SealedMinutes', u \in unsealed' : s < u
    BY <1>2, <1>8 DEF SealedInv
  <2>3. writer' = "running" => \A s \in SealedMinutes' : s < clock'
    BY <1>8 DEF SealedInv
  <2>4. QED
    BY <2>1, <2>2, <2>3 DEF SealedInv
<1>10. QED
  BY <1>6, <1>8, <1>9

(* What a flush takes, writes and gives up, and what happens elsewhere, keeps     *)
(* the minutes sealed and each in one place.                                   *)
LEMMA StoreInvStarts == StoreInit => StoreInv
<1>1. SUFFICES ASSUME StoreInit PROVE FlushInv /\ FilesInv /\ SealedInv
  BY DEF StoreInv
<1>2. FlushInv
  BY <1>1 DEF StoreInit, FlushInv, OneFlush, Idle
<1>3. FilesInv
  BY <1>1 DEF StoreInit, FilesInv, Settled, Loose
<1>4. SealedMinutes = {} /\ Rows(disk) = {}
  BY <1>1 DEF StoreInit, SealedMinutes, Rows
<1>5. SealedInv
  BY <1>1, <1>4 DEF StoreInit, SealedInv
<1>6. QED
  BY <1>2, <1>3, <1>5

(* A pass, a pause, a resume and the shutdown begin no flush during another,      *)
(* unless they are the race that is told apart.                                *)
LEMMA MinutesAreSealed ==
  ASSUME StoreTypeOK, StoreTypeOK', StoreInv, ~raced', Pass \/ Pause \/ Resume \/ Close
  PROVE  FlushInv' /\ FilesInv' /\ SealedInv' /\ SealedMinutes \subseteq SealedMinutes'
<1>1. Sealable \in SUBSET unsealed /\ (\A b \in Sealable : b < clock)
      /\ \A b \in Sealable, u \in unsealed \ Sealable : b < u
  <2>1. \A m \in unsealed : m \in Nat /\ clock \in Nat
    BY MinutesAreFinite DEF StoreTypeOK
  <2>2. QED
    BY <2>1 DEF Sealable
<1>2. CASE Pass
  <2>1. ~raced /\ Flushing = {} /\ (flush' = flush \/ Begun("run"))
    BY <1>2 DEF Pass
  <2>2. FlushInv'
    BY <2>1, FlushBegins DEF Threads
  <2>3. FilesInv /\ SealedInv
    BY <2>1 DEF StoreInv
  <2>4. QED
    BY <1>1, <1>2, <2>2, <2>3, HandOverKeeps DEF Pass, HandOver
<1>3. CASE Pause
  <2>1. ~raced /\ Flushing = {} /\ (Begun("run") \/ Begun("pause"))
    BY <1>3 DEF Pause
  <2>2. FlushInv'
    BY <2>1, FlushBegins DEF Threads
  <2>3. FilesInv /\ SealedInv
    BY <2>1 DEF StoreInv
  <2>4. QED
    BY <1>1, <1>3, <2>2, <2>3, HandOverKeeps DEF Pause, HandOver
<1>4. CASE Resume
  <2>1. CASE composition = "monolith"
    <3>1. ~raced /\ FlagRaised
      BY <1>4, <2>1 DEF Resume, FlagRaised
    <3>2. FlushInv /\ FilesInv /\ SealedInv
      BY <3>1 DEF StoreInv
    <3>3. FilesInv' /\ SealedInv' /\ SealedMinutes \subseteq SealedMinutes'
      <4>1. \A b \in {}, u \in unsealed \ {} : b < u
        OBVIOUS
      <4>2. /\ writer = "running" /\ recorded' = recorded \cup {clock}
            /\ unsealed' = (unsealed \ {}) \cup {clock}
            /\ buffer' = buffer \cup {} /\ disk' = disk /\ flushes' = flushes /\ clock' = clock
        BY <1>4, <3>1 DEF Resume, FlagRaised
      <4>3. QED
        BY <3>2, <4>1, <4>2, HandOverKeeps
    <3>4. FlushInv'
      BY <1>4, <3>1, <3>2 DEF Resume, FlagRaised, FlushInv, OneFlush, File
    <3>5. QED
      BY <3>3, <3>4
  <2>2. CASE composition # "monolith"
    <3>1. ResumeApplied
      BY <1>4, <2>2 DEF Resume
    <3>2. ~raced /\ Flushing = {} /\ Begun("run")
      BY <3>1 DEF ResumeApplied
    <3>3. FlushInv'
      BY <3>2, FlushBegins DEF Threads
    <3>4. FilesInv /\ SealedInv
      BY <3>2 DEF StoreInv
    <3>5. QED
      BY <1>1, <1>4, <3>1, <3>3, <3>4, HandOverKeeps DEF Resume, ResumeApplied, HandOver
  <2>3. QED
    BY <2>1, <2>2
<1>5. CASE Close
  <2> DEFINE bars == IF composition = "monolith" THEN unsealed ELSE Sealable
  <2>1. ~raced /\ Flushing = {} /\ Begun("close")
    BY <1>5 DEF Close
  <2>2. FlushInv'
    BY <2>1, FlushBegins DEF Threads
  <2>3. FilesInv /\ SealedInv
    BY <2>1 DEF StoreInv
  <2>4. bars \in SUBSET unsealed /\ \A b \in bars, u \in unsealed \ bars : b < u
    BY <1>1
  <2>5. QED
    BY <1>5, <2>2, <2>3, <2>4, HandOverKeeps DEF Close, HandOver
<1>6. QED
  BY <1>2, <1>3, <1>4, <1>5

(* A minute passes: the flushes under way keep their accounts.              *)
LEMMA MinutePassesKeeps ==
  ASSUME StoreTypeOK, FlushInv, FilesInv, SealedInv, MinutePasses
  PROVE  FlushInv' /\ FilesInv' /\ SealedInv' /\ SealedMinutes' = SealedMinutes
<1>1. FlushInv' /\ FilesInv'
  BY DEF MinutePasses, FlushInv, OneFlush, File, FilesInv, Settled, Loose
<1>2. clock \in Nat /\ \A m \in recorded : m \in Nat /\ m <= clock
  BY MinutesAreFinite DEF StoreTypeOK
<1>3. SealedMinutes' = SealedMinutes /\ Rows(disk') = Rows(disk)
  <2>1. clock + 1 \notin recorded
    BY <1>2
  <2>2. QED
    BY <2>1 DEF MinutePasses, SealedMinutes
<1>4. \A s \in SealedMinutes : s \in Nat /\ s < clock + 1
  BY <1>2 DEF SealedMinutes
<1>5. SealedInv'
  <2>1. unsealed' \subseteq unsealed \cup {clock + 1} /\ buffer' = buffer /\ clock' = clock + 1
    BY DEF MinutePasses
  <2>2. QED
    BY <1>3, <1>4, <2>1 DEF SealedInv
<1>6. QED
  BY <1>1, <1>3, <1>5

(* The store comes back with the settled files alone; what only the buffer held    *)
(* is open again.                                                            *)
LEMMA RestartKeeps ==
  ASSUME StoreTypeOK, FilesInv, SealedInv, Restart
  PROVE  FlushInv' /\ FilesInv' /\ SealedInv'
<1>1. disk' = Settled /\ flushes' = flushes /\ buffer' = {} /\ recorded' = recorded
      /\ unsealed' = recorded \ Rows(disk') /\ clock' = clock /\ writer' = writer
  BY DEF Restart, Settled
<1>2. FlushInv'
  BY DEF Restart, FlushInv, OneFlush, Idle
<1>3. Settled' = Settled /\ Loose' = {}
  BY <1>1, SettledOrLoose DEF Settled, Loose
<1>4. FilesInv'
  BY <1>1, <1>3, SettledOrLoose DEF FilesInv
<1>5. Rows(Settled) \subseteq SealedMinutes /\ Rows(Settled) \subseteq recorded
  BY RowsAreRecorded DEF SealedInv, Rows, Settled
<1>6. SealedMinutes' = Rows(Settled)
  BY <1>1, <1>5 DEF SealedMinutes
<1>7. ASSUME NEW m \in Rows(Settled), NEW u \in unsealed' PROVE m < u
  <2>1. u \in unsealed \/ u \in buffer \/ u \in Rows(Loose)
    <3>1. u \in recorded /\ u \notin Rows(Settled)
      BY <1>1, <1>7
    <3>2. u \in unsealed \/ u \in buffer \cup Rows(disk)
      BY <3>1 DEF SealedInv, SealedMinutes
    <3>3. Rows(disk) = Rows(Settled) \cup Rows(Loose)
      BY SettledOrLoose DEF Rows
    <3>4. QED
      BY <3>1, <3>2, <3>3
  <2>2. Rows(Loose) \subseteq buffer
    BY DEF FilesInv, Rows
  <2>3. CASE u \in unsealed
    BY <1>5, <2>3 DEF SealedInv
  <2>4. CASE u \in buffer
    BY <2>4 DEF FilesInv, Rows
  <2>5. QED
    BY <2>1, <2>2, <2>3, <2>4
<1>8. SealedInv'
  BY <1>1, <1>5, <1>6, <1>7 DEF SealedInv
<1>9. QED
  BY <1>2, <1>4, <1>8

(* A flush that ends is the only one there was.                                *)
LEMMA NoOtherFlush ==
  ASSUME StoreTypeOK, FlushInv, NEW t \in Threads, flush[t].at # "idle", Ended(t)
  PROVE  (\A u \in Threads : flush'[u].at = "idle") /\ FlushInv'
<1>1. \A u \in Threads : u # t => flush[u].at = "idle"
  BY DEF FlushInv, OneFlush
<1>2. \A u \in Threads : flush'[u].at = "idle"
  BY <1>1 DEF Ended, Idle, StoreTypeOK
<1>3. QED
  BY <1>2 DEF FlushInv, OneFlush

(* A flush that finds nothing to write keeps them.                          *)
LEMMA NothingKeeps ==
  ASSUME StoreTypeOK, FlushInv, FilesInv, SealedInv, NEW t \in Threads, Nothing(t)
  PROVE  FlushInv' /\ FilesInv' /\ SealedInv'
<1>1. FlushInv'
  BY NoOtherFlush DEF Nothing
<1>2. FilesInv'
  BY DEF Nothing, FilesInv, Settled, Loose
<1>3. writer' = "running" => writer = "running"
  BY DEF Nothing, Ended
<1>4. SealedInv'
  BY <1>3 DEF Nothing, SealedInv, SealedMinutes
<1>5. QED
  BY <1>1, <1>2, <1>4

(* Rows taken out of the buffer go into the flush that took them.           *)
LEMMA TakeKeeps ==
  ASSUME StoreTypeOK, FlushInv, FilesInv, SealedInv, NEW t \in Threads, Take(t)
  PROVE  FlushInv' /\ FilesInv' /\ SealedInv'
<1>1. FilesInv' /\ SealedInv'
  BY DEF Take, BufferKept, FilesInv, Settled, Loose, SealedInv, SealedMinutes
<1>2. \A u \in Threads : u # t => flush[u].at = "idle"
  BY DEF Take, FlushInv, OneFlush
<1>3. flush'[t] = Taken /\ \A u \in Threads : u # t => flush'[u].at = "idle"
  BY <1>2 DEF Take, StoreTypeOK
<1>4. buffer' = buffer /\ flushes' = flushes /\ buffer # {}
  BY DEF Take, BufferKept
<1>5. Taken.at = "writing" /\ Taken.rows = buffer /\ Taken.name = <<Min(buffer), flushes + 1>>
  BY DEF Taken
<1>6. FlushInv'
  BY <1>3, <1>4, <1>5 DEF FlushInv, OneFlush
<1>7. QED
  BY <1>1, <1>6

(* The file of a flush takes the place of one a failed flush left behind.         *)
LEMMA LandKeeps ==
  ASSUME StoreTypeOK, FlushInv, FilesInv, SealedInv, NEW t \in Threads, Land(t)
  PROVE  /\ FlushInv' /\ FilesInv' /\ SealedInv'
         /\ Settled' = Settled
         /\ Rows(disk) \subseteq Rows(disk') /\ Rows(disk') \subseteq Rows(disk) \cup buffer
<1> DEFINE name == <<Min(buffer), flushes + 1>>
           new == [name |-> name, rows |-> buffer]
<1>1. flush[t].at = "writing" /\ flush[t].rows = buffer /\ flush[t].name = name /\ buffer # {}
      /\ File(t) = new
  BY DEF Land, FlushInv, File
<1>2. flushes \in Nat /\ name[2] = flushes + 1 /\ new.name = name /\ new.rows = buffer
  BY DEF StoreTypeOK
<1>3. disk' = Settled \cup {new}
  <2>1. disk' = {f \in disk : f.name # name} \cup {new}
    BY <1>1 DEF Land, Without
  <2>2. \A f \in Settled : f.name # name
    BY <1>2 DEF Settled
  <2>3. \A f \in Loose : f.name = name
    BY DEF FilesInv
  <2>4. QED
    BY <2>1, <2>2, <2>3, SettledOrLoose
<1>4. Settled' = Settled /\ Loose' = {new}
  <2>1. \A f \in Settled : f.name[2] \in Nat /\ f.name[2] <= flushes
    BY DEF Settled, StoreTypeOK, Files
  <2>2. flushes' = flushes
    BY DEF Land
  <2>3. QED
    BY <1>2, <1>3, <2>1, <2>2 DEF Settled, Loose
<1>5. buffer' = buffer /\ flushes' = flushes /\ recorded' = recorded /\ unsealed' = unsealed
      /\ clock' = clock /\ writer' = writer
  BY DEF Land
<1>6. FilesInv'
  <2>1. \A f, g \in disk' : f.name = g.name => f = g
    <3>1. \A f \in Settled : f.name # name
      BY <1>2 DEF Settled
    <3>2. \A f, g \in Settled : f.name = g.name => f = g
      BY DEF FilesInv, Settled
    <3>3. QED
      BY <1>2, <1>3, <3>1, <3>2
  <2>2. QED
    BY <1>1, <1>2, <1>4, <1>5, <2>1 DEF FilesInv
<1>7. Rows(disk) \subseteq Rows(disk') /\ buffer \subseteq Rows(disk')
      /\ Rows(disk') \subseteq Rows(disk) \cup buffer
  <2>1. Rows(disk) = Rows(Settled) \cup Rows(Loose)
    BY SettledOrLoose DEF Rows
  <2>2. Rows(Loose) \subseteq buffer
    BY DEF FilesInv, Rows
  <2>3. Rows(disk') = Rows(Settled) \cup buffer
    BY <1>2, <1>3 DEF Rows
  <2>4. QED
    BY <2>1, <2>2, <2>3
<1>8. SealedInv'
  BY <1>5, <1>7 DEF SealedInv, SealedMinutes
<1>9. FlushInv'
  <2>1. \A u \in Threads : u # t => flush[u].at = "idle"
    BY <1>1 DEF FlushInv, OneFlush
  <2>2. flush'[t] = [flush[t] EXCEPT !.at = "landed"]
        /\ \A u \in Threads : u # t => flush'[u] = flush[u]
    BY DEF Land, StoreTypeOK
  <2>3. flush[t] \in FlushState
    BY DEF StoreTypeOK
  <2>4. flush'[t].at = "landed" /\ flush'[t].rows = buffer /\ flush'[t].name = name
    BY <1>1, <2>2, <2>3 DEF FlushState
  <2>5. File(t)' = new
    BY <2>4 DEF File
  <2>6. \A u \in Threads : flush'[u].at # "idle" => u = t
    BY <2>1, <2>2
  <2>7. new \in disk'
    BY <1>3
  <2>8. \A u \in Threads : flush'[u].at = "landed" => File(u)' \in disk'
    BY <2>5, <2>6, <2>7
  <2>9. \A u \in Threads : flush'[u].at \in {"writing", "landed"} =>
           buffer' # {} /\ flush'[u].rows = buffer' /\ flush'[u].name = <<Min(buffer'), flushes' + 1>>
    BY <1>1, <1>5, <2>4, <2>6
  <2>10. OneFlush'
    BY <2>6 DEF OneFlush
  <2>11. QED
    BY <2>8, <2>9, <2>10 DEF FlushInv
<1>10. QED
  BY <1>4, <1>6, <1>7, <1>8, <1>9

(* Its end settles it, and what it took leaves the buffer.                       *)
LEMMA EndKeeps ==
  ASSUME StoreTypeOK, FlushInv, FilesInv, SealedInv, NEW t \in Threads, End(t)
  PROVE  /\ FlushInv' /\ FilesInv' /\ SealedInv'
         /\ Rows(disk) = SealedMinutes /\ SealedMinutes' = SealedMinutes
         /\ Settled \subseteq Settled'
<1>1. flush[t].at = "landed" /\ flush[t].rows = buffer /\ File(t) \in disk
      /\ flush[t].name = <<Min(buffer), flushes + 1>> /\ flushes \in Nat
  BY DEF End, FlushInv, StoreTypeOK
<1>2. flushes' = flushes + 1 /\ buffer' = {} /\ disk' = disk
  BY <1>1 DEF End
<1>3. FlushInv'
  BY <1>1, NoOtherFlush DEF End
<1>4. buffer \subseteq Rows(disk)
  BY <1>1 DEF Rows, File
<1>5. Loose = {File(t)}
  <2>1. File(t) \in Loose
    BY <1>1 DEF Loose, File
  <2>2. \A f \in Loose : f = File(t)
    BY <1>1, <2>1 DEF FilesInv, Loose
  <2>3. QED
    BY <2>1, <2>2
<1>6. \A f \in disk : f.name[2] \in Nat /\ f.name[2] <= flushes + 1
  <2>1. \A f \in disk : f.name[2] \in Nat
    BY DEF StoreTypeOK, Files
  <2>2. \A f \in Loose : f.name[2] = flushes + 1
    BY DEF FilesInv
  <2>3. \A f \in Settled : f.name[2] <= flushes
    BY DEF Settled
  <2>4. QED
    BY <1>1, <2>1, <2>2, <2>3, SettledOrLoose
<1>7. Settled' = disk /\ Loose' = {}
  <2>1. \A f \in disk : f.name[2] <= flushes + 1 /\ ~(f.name[2] > flushes + 1)
    BY <1>1, <1>6
  <2>2. Settled' = {f \in disk : f.name[2] <= flushes + 1}
        /\ Loose' = {f \in disk : f.name[2] > flushes + 1}
    BY <1>2 DEF Settled, Loose
  <2>3. QED
    BY <2>1, <2>2
<1>8. \A f, g \in disk : f # g => f.rows \cap g.rows = {}
  <2>1. \A f \in disk : f \in Settled \/ f = File(t)
    BY <1>5, SettledOrLoose
  <2>2. \A m \in buffer : m \in Nat
    BY MinutesAreFinite DEF StoreTypeOK
  <2>3. \A f \in Settled : f.rows \cap File(t).rows = {}
    BY <1>1, <2>2 DEF FilesInv, File
  <2>4. QED
    BY <2>1, <2>3 DEF FilesInv
<1>9. FilesInv'
  BY <1>2, <1>7, <1>8 DEF FilesInv
<1>10. Rows(disk) = SealedMinutes
  BY <1>4 DEF SealedInv
<1>11. SealedMinutes' = SealedMinutes /\ unsealed' = unsealed /\ clock' = clock
       /\ (writer' = "running" => writer = "running")
  BY DEF End, Ended, SealedMinutes
<1>12. SealedInv'
  BY <1>2, <1>10, <1>11 DEF SealedInv
<1>13. QED
  BY <1>3, <1>7, <1>9, <1>10, <1>11, <1>12 DEF Settled

(* A failed flush keeps the buffer, whatever of its file is removed.              *)
LEMMA FailsKeeps ==
  ASSUME StoreTypeOK, FlushInv, FilesInv, SealedInv, NEW t \in Threads, Fails(t)
  PROVE  FlushInv' /\ FilesInv' /\ SealedInv' /\ Settled' = Settled /\ Rows(disk') \subseteq Rows(disk)
<1>1. /\ flush[t].at \in {"writing", "landed"} /\ flushes' = flushes /\ buffer' = buffer
      /\ unsealed' = unsealed /\ recorded' = recorded /\ clock' = clock
      /\ (writer' = "running" => writer = "running")
  BY DEF Fails, OrdinalKept, Ended
<1>2. FlushInv'
  BY <1>1, NoOtherFlush DEF Fails
<1>3. flush[t].name[2] = flushes + 1 /\ flushes \in Nat
  BY <1>1 DEF FlushInv, StoreTypeOK
<1>4. disk' \subseteq disk /\ Settled \subseteq disk'
  <2>1. \A f \in Settled : f.name # flush[t].name
    BY <1>3 DEF Settled
  <2>2. disk' = disk \/ disk' = Without(flush[t].name)
    BY DEF Fails, RolledBack
  <2>3. QED
    BY <2>1, <2>2 DEF Without, Settled
<1>5. Settled' = Settled /\ Loose' \subseteq Loose
  BY <1>1, <1>4 DEF Settled, Loose
<1>6. FilesInv'
  BY <1>1, <1>4, <1>5 DEF FilesInv
<1>7. Rows(disk') \cup buffer = Rows(disk) \cup buffer
  <2>1. Rows(disk) = Rows(Settled) \cup Rows(Loose)
    BY SettledOrLoose DEF Rows
  <2>2. Rows(Loose) \subseteq buffer
    BY DEF FilesInv, Rows
  <2>3. Rows(Settled) \subseteq Rows(disk') /\ Rows(disk') \subseteq Rows(disk)
    BY <1>4 DEF Rows
  <2>4. QED
    BY <2>1, <2>2, <2>3
<1>8. SealedInv'
  BY <1>1, <1>7 DEF SealedInv, SealedMinutes
<1>9. QED
  BY <1>2, <1>4, <1>5, <1>6, <1>8 DEF Rows

(* Every step of either store keeps the invariant of the flushes.           *)
LEMMA StoreInvKept ==
  ASSUME StoreTypeOK, StoreTypeOK', StoreInv, [StoreNext]_storeVars
  PROVE  StoreInv'
<1>1. SUFFICES ASSUME ~raced' PROVE FlushInv' /\ FilesInv' /\ SealedInv'
  BY DEF StoreInv
<1>2. CASE Pass \/ Pause \/ Resume \/ Close
  BY <1>1, <1>2, MinutesAreSealed
<1>3. CASE ~(Pass \/ Pause \/ Resume \/ Close)
  <2>1. raced' = raced
    BY <1>3 DEF StoreNext, MinutePasses, Restart, Nothing, Take, Land, End, Fails, Apply, Scan,
               Pending, Collect, storeVars
  <2>2. FlushInv /\ FilesInv /\ SealedInv
    BY <1>1, <2>1 DEF StoreInv
  <2>3. CASE MinutePasses
    BY <2>2, <2>3, MinutePassesKeeps
  <2>4. CASE Restart
    BY <2>2, <2>4, RestartKeeps
  <2>5. CASE \E t \in Threads : Nothing(t) \/ Take(t) \/ Land(t) \/ End(t) \/ Fails(t)
    BY <2>2, <2>5, NothingKeeps, TakeKeeps, LandKeeps, EndKeeps, FailsKeeps
  <2>6. CASE Apply \/ Scan \/ Pending \/ Collect \/ UNCHANGED storeVars
    <3>1. UNCHANGED <<clock, store, recorded>>
      BY <2>6 DEF Apply, Scan, Pending, Collect, storeVars
    <3>2. QED
      BY <2>2, <3>1 DEF store, FlushInv, OneFlush, File, FilesInv, Settled, Loose, SealedInv, SealedMinutes
  <2>7. QED
    BY <1>3, <2>3, <2>4, <2>5, <2>6 DEF StoreNext
<1>4. QED
  BY <1>2, <1>3

(* No bar is lost or doubled between the aggregator and the files: not when a     *)
(* flush fails before or after its file is in place, when the store dies or when   *)
(* it is paused, as long as nothing is added to the buffer during a flush.        *)
THEOREM KeptOnce == StoreSpec => []EveryBarIsKeptOnce
<1>1. StoreInit => StoreTypeOK /\ StoreInv
  BY StoreStartsTyped, StoreInvStarts
<1>2. StoreTypeOK /\ StoreInv /\ [StoreNext]_storeVars => (StoreTypeOK /\ StoreInv)'
  BY StoreStaysTyped, StoreInvKept
<1>3. StoreTypeOK /\ StoreInv => EveryBarIsKeptOnce
  BY StoreInvIsEnough
<1>4. QED
  BY <1>1, <1>2, <1>3, PTL DEF StoreSpec

----------------------------------------------------------------------------
(* What the reads have answered, or have in hand.                              *)
Asked == shown \cup read.due \cup read.pending

(* In the monolith a bar is sealed once and for all: the one a read is to answer  *)
(* is in what it copied of the buffer, or in a file that is settled.             *)
MonolithInv ==
  /\ events = <<>> /\ held = {} /\ newest = 0
  /\ Asked \subseteq SealedMinutes
  /\ read.at = "pending" => read.due \subseteq read.pending \cup Rows(Settled)

(* In the split a restart opens minutes again that were sealed and published. All *)
(* that anyone has seen is older than the minute open when a flush begins, so a   *)
(* flush that ends has brought it to the files.                                *)
Known == (Asked \cup held \cup In(events) \cup {newest} \cup buffer \cup Rows(disk)) \ {0}

StillOpen == \A m \in unsealed : lastFlush <= m /\ (recording \/ m <= lastFlush)

(* From then on what is not in a file was sealed since the flush, within the     *)
(* horizon of the newest bar published: the BarBuffer still has it.             *)
CurrentInv ==
  /\ StillOpen
  /\ Known \subseteq SealedMinutes
  /\ \A m \in buffer : lastFlush <= m \/ Flushing # {}
  /\ \A m \in buffer, s \in SealedMinutes : s - m <= Horizon
  /\ Asked \subseteq held \cup Rows(disk)
  /\ read.at = "pending" => read.due \subseteq read.pending \cup Rows(disk)

PunctualInv == writer = "running" /\ recording => clock - lastFlush <= FlushEvery + Slack

SplitInv ==
  /\ \A m \in Known : m < clock
  /\ Flushing # {} => StillOpen /\ \A m \in Known : m < lastFlush
  /\ PunctualInv
  /\ ~delayed => CurrentInv

ReadsInv ==
  /\ missing = {}
  /\ ~raced => /\ composition = "monolith" => MonolithInv
               /\ composition = "split" => SplitInv

(* All of it is minutes that were recorded.                                    *)
LEMMA KnownIsRecorded ==
  ASSUME StoreTypeOK
  PROVE  /\ Known \subseteq recorded /\ Asked \subseteq recorded /\ 0 \notin recorded
         /\ \A m \in recorded : m \in Nat /\ m <= clock
         /\ clock \in Nat /\ lastFlush \in Nat /\ lastFlush <= clock
<1>1. Asked \subseteq recorded
  BY DEF Asked, StoreTypeOK
<1>2. Rows(disk) \subseteq recorded /\ In(events) \subseteq recorded
  BY RowsAreRecorded, MinutesOfEvents DEF StoreTypeOK
<1>3. buffer \subseteq recorded /\ held \subseteq recorded /\ newest \in recorded \cup {0}
  BY DEF StoreTypeOK
<1>4. recorded \subseteq 1..clock /\ lastFlush \in 1..clock /\ clock \in Nat
  BY DEF StoreTypeOK
<1>5. 0 \notin recorded /\ (\A m \in recorded : m \in Nat /\ m <= clock)
      /\ lastFlush \in Nat /\ lastFlush <= clock
  BY <1>4
<1>6. QED
  BY <1>1, <1>2, <1>3, <1>4, <1>5 DEF Known

(* The invariant of the reads holds of an empty store.                      *)
LEMMA ReadsInvStarts == StoreInit => ReadsInv
<1> SUFFICES ASSUME StoreInit PROVE ReadsInv
  OBVIOUS
<1>1. SealedMinutes = {} /\ Rows(disk) = {} /\ Asked = {} /\ In(events) = {} /\ Flushing = {}
  BY DEF StoreInit, SealedMinutes, Rows, Asked, NoRead, In, Flushing, Idle
<1>2. Known = {}
  BY <1>1 DEF StoreInit, Known
<1>3. MonolithInv
  BY <1>1 DEF StoreInit, MonolithInv, NoRead
<1>4. StillOpen
  BY DEF StoreInit, StillOpen
<1>5. PunctualInv
  BY StoreAssumption DEF StoreInit, PunctualInv
<1>6. CurrentInv
  BY <1>1, <1>2, <1>4 DEF StoreInit, CurrentInv, NoRead
<1>7. QED
  BY <1>2, <1>3, <1>4, <1>5, <1>6 DEF ReadsInv, SplitInv, StoreInit

----------------------------------------------------------------------------
(* The monolith: no step of the store opens a sealed minute or unsettles a file.   *)
LEMMA StoreNeverUnseals ==
  ASSUME StoreTypeOK, StoreTypeOK', StoreInv, ~raced', StoreNext, composition = "monolith",
         ~(Apply \/ Scan \/ Pending \/ Collect)
  PROVE  /\ SealedMinutes \subseteq SealedMinutes' /\ Rows(Settled) \subseteq Rows(Settled')
         /\ UNCHANGED <<read, shown, missing>>
         /\ events = <<>> => UNCHANGED api
<1>1. CASE Pass \/ Pause \/ Resume \/ Close
  <2>1. SealedMinutes \subseteq SealedMinutes'
    BY <1>1, MinutesAreSealed
  <2>2. Settled' = Settled
    BY <1>1 DEF Settled, Pass, Pause, Resume, Close
  <2>3. UNCHANGED <<read, shown, missing>> /\ (events = <<>> => UNCHANGED api)
    BY <1>1 DEF Pass, Pause, Resume, Close, FlagRaised, HandOver, api
  <2>4. QED
    BY <2>1, <2>2, <2>3
<1>2. CASE ~(Pass \/ Pause \/ Resume \/ Close)
  <2>1. ~raced
    BY <1>2 DEF StoreNext, MinutePasses, Restart, Nothing, Take, Land, End, Fails, Apply, Scan,
                Pending, Collect
  <2>2. FlushInv /\ FilesInv /\ SealedInv
    BY <2>1 DEF StoreInv
  <2>3. CASE MinutePasses
    <3>1. SealedMinutes' = SealedMinutes
      BY <2>2, <2>3, MinutePassesKeeps
    <3>2. QED
      BY <2>3, <3>1 DEF MinutePasses, Settled, api
  <2>4. ASSUME NEW t \in Threads, Nothing(t) \/ Take(t) PROVE
          /\ SealedMinutes' = SealedMinutes /\ Settled' = Settled
          /\ UNCHANGED <<read, shown, missing, api>>
    BY <2>4 DEF Nothing, Take, SealedMinutes, Settled
  <2>5. ASSUME NEW t \in Threads, Land(t) PROVE
          /\ SealedMinutes' = SealedMinutes /\ Settled' = Settled
          /\ UNCHANGED <<read, shown, missing, api>>
    <3>1. Settled' = Settled
      BY <2>2, <2>5, LandKeeps
    <3>2. QED
      BY <2>5, <3>1 DEF Land, SealedMinutes, api
  <2>6. ASSUME NEW t \in Threads, End(t) PROVE
          /\ SealedMinutes' = SealedMinutes /\ Settled \subseteq Settled'
          /\ UNCHANGED <<read, shown, missing, api>>
    <3>1. Settled \subseteq Settled'
      BY <2>2, <2>6, EndKeeps
    <3>2. QED
      BY <2>6, <3>1 DEF End, SealedMinutes, api
  <2>7. ASSUME NEW t \in Threads, Fails(t) PROVE
          /\ SealedMinutes' = SealedMinutes /\ Settled' = Settled
          /\ UNCHANGED <<read, shown, missing, api>>
    <3>1. Settled' = Settled
      BY <2>2, <2>7, FailsKeeps
    <3>2. QED
      BY <2>7, <3>1 DEF Fails, SealedMinutes, api
  <2>8. ~Restart
    BY DEF Restart
  <2>9. QED
    BY <1>2, <2>3, <2>4, <2>5, <2>6, <2>7, <2>8 DEF StoreNext, Rows
<1>3. QED
  BY <1>1, <1>2

(* The steps of the monolith, one by one, keep what a read relies on.       *)
LEMMA MonolithStep ==
  ASSUME StoreTypeOK, StoreTypeOK', StoreInv, StoreInv', ReadsInv, ~raced', StoreNext,
         composition = "monolith"
  PROVE  MonolithInv' /\ missing' = {}
<1>1. ~raced
  BY DEF StoreNext, MinutePasses, Pass, Pause, Resume, FlagRaised, ResumeApplied, Close, Restart,
         Nothing, Take, Land, End, Fails, Apply, Scan, Pending, Collect
<1>2. MonolithInv /\ missing = {}
  BY <1>1 DEF ReadsInv
<1>3. FilesInv /\ SealedInv
  BY <1>1 DEF StoreInv
<1>4. ~Apply
  BY <1>2 DEF Apply, MonolithInv
<1>5. CASE ~(Scan \/ Pending \/ Collect)
  <2>1. /\ SealedMinutes \subseteq SealedMinutes' /\ Rows(Settled) \subseteq Rows(Settled')
        /\ UNCHANGED <<read, shown, missing>> /\ UNCHANGED api
    BY <1>2, <1>4, <1>5, StoreNeverUnseals DEF MonolithInv
  <2>2. QED
    BY <1>2, <2>1 DEF MonolithInv, Asked, api
<1>6. ASSUME UNCHANGED <<store, api, recorded>>
      PROVE  SealedMinutes' = SealedMinutes /\ Settled' = Settled /\ Rows(Settled') = Rows(Settled)
             /\ events' = events /\ held' = held /\ newest' = newest
  BY <1>6 DEF store, api, SealedMinutes, Settled
<1>7. CASE Scan
  <2>1. Answerable \subseteq SealedMinutes
    BY <1>2 DEF Answerable, SealedMinutes, MonolithInv, Asked
  <2>2. read'.at = "scanned" /\ read'.due = Answerable /\ read'.pending = {} /\ shown' = shown
        /\ missing' = missing
    BY <1>7 DEF Scan, NoRead
  <2>3. UNCHANGED <<store, api, recorded>>
    BY <1>7 DEF Scan
  <2>4. QED
    BY <1>2, <1>6, <2>1, <2>2, <2>3 DEF MonolithInv, Asked
<1>8. CASE Pending
  <2>1. read'.at = "pending" /\ read'.due = read.due /\ read'.pending = buffer /\ shown' = shown
        /\ missing' = missing
    BY <1>8 DEF Pending, StoreTypeOK
  <2>2. buffer \subseteq SealedMinutes /\ SealedMinutes \subseteq buffer \cup Rows(Settled)
    <3>1. Rows(disk) = Rows(Settled) \cup Rows(Loose)
      BY SettledOrLoose DEF Rows
    <3>2. Rows(Loose) \subseteq buffer
      BY <1>3 DEF FilesInv, Rows
    <3>3. QED
      BY <1>3, <3>1, <3>2 DEF SealedInv
  <2>3. UNCHANGED <<store, api, recorded>>
    BY <1>8 DEF Pending
  <2>4. QED
    BY <1>2, <1>6, <2>1, <2>2, <2>3 DEF MonolithInv, Asked
<1>9. CASE Collect
  <2>1. read.due \subseteq read.pending \cup Rows(Settled) /\ Rows(Settled) \subseteq Rows(disk)
    BY <1>2, <1>9 DEF Collect, MonolithInv, Rows, Settled
  <2>2. missing' = {}
    BY <1>2, <1>9, <2>1 DEF Collect, PreferDisk
  <2>3. read'.at = "idle" /\ read'.due = {} /\ read'.pending = {}
    BY <1>9 DEF Collect, NoRead
  <2>4. shown' \subseteq shown \cup Rows(disk) \cup read.pending
    BY <1>9 DEF Collect, PreferDisk
  <2>5. Rows(disk) \subseteq SealedMinutes
    BY <1>3 DEF SealedInv
  <2>6. UNCHANGED <<store, api, recorded>>
    BY <1>9 DEF Collect
  <2>7. QED
    BY <1>2, <1>6, <2>2, <2>3, <2>4, <2>5, <2>6 DEF MonolithInv, Asked
<1>10. QED
  BY <1>5, <1>7, <1>8, <1>9

----------------------------------------------------------------------------
(* The split. What a pass, a pause, a resume and the shutdown have in common.     *)
LEMMA SplitHandsOver ==
  ASSUME StoreTypeOK, StoreTypeOK', StoreInv, ~raced', composition = "split",
         Pass \/ Pause \/ Resume \/ Close
  PROVE  /\ ~raced /\ Flushing = {} /\ writer = "running"
         /\ HandOver(Sealable)
         /\ SealedMinutes' = SealedMinutes \cup Sealable
         /\ UNCHANGED <<clock, disk, flushes, held, newest, read, shown, missing, delayed>>
         /\ \A m \in Sealable : m \in unsealed /\ m < clock
         /\ \A u \in unsealed' : clock <= u
         /\ \/ /\ flush' = flush /\ lastFlush' = lastFlush
               /\ recording /\ UNCHANGED <<writer, recording>>
               /\ unsealed' \subseteq unsealed
            \/ lastFlush' = clock /\ \E t \in Threads : Begun(t)
<1>1. ~raced /\ Flushing = {}
  BY DEF Pass, Pause, Resume, ResumeApplied, Close
<1>2. FilesInv /\ SealedInv
  BY <1>1 DEF StoreInv
<1>3. \A m \in unsealed : m \in Nat /\ clock \in Nat
  BY MinutesAreFinite DEF StoreTypeOK
<1>4. Sealable \in SUBSET unsealed /\ (\A b \in Sealable : b < clock)
      /\ \A b \in Sealable, u \in unsealed \ Sealable : b < u
  BY <1>3 DEF Sealable
<1>5. \A u \in unsealed \ Sealable : clock <= u
  BY <1>3 DEF Sealable
<1>6. CASE Pass
  <2>1. SealedMinutes' = SealedMinutes \cup Sealable
    BY <1>2, <1>4, <1>6, HandOverKeeps DEF Pass, HandOver
  <2>2. QED
    BY <1>1, <1>4, <1>5, <1>6, <2>1 DEF Pass, Threads
<1>7. CASE Pause
  <2>1. SealedMinutes' = SealedMinutes \cup Sealable
    BY <1>2, <1>4, <1>7, HandOverKeeps DEF Pause, HandOver
  <2>2. QED
    BY <1>1, <1>4, <1>5, <1>7, <2>1 DEF Pause, Threads
<1>8. CASE Resume
  <2>1. ResumeApplied
    BY <1>8 DEF Resume
  <2>2. SealedMinutes' = SealedMinutes \cup Sealable
    BY <1>2, <1>4, <1>8, <2>1, HandOverKeeps DEF Resume, ResumeApplied, HandOver
  <2>3. \A u \in unsealed' : clock <= u
    <3>1. unsealed' = (unsealed \ Sealable) \cup {clock}
      BY <2>1 DEF ResumeApplied
    <3>2. clock \in Nat
      BY DEF StoreTypeOK
    <3>3. QED
      BY <1>5, <3>1, <3>2
  <2>4. QED
    BY <1>1, <1>4, <1>8, <2>1, <2>2, <2>3 DEF Resume, ResumeApplied, Threads
<1>9. CASE Close
  <2>1. HandOver(Sealable) /\ unsealed' = unsealed \ Sealable
    BY <1>9 DEF Close
  <2>2. SealedMinutes' = SealedMinutes \cup Sealable
    <3>1. recorded' = recorded
      BY <1>9 DEF Close
    <3>2. unsealed \subseteq recorded
      BY DEF StoreTypeOK
    <3>3. QED
      BY <1>4, <2>1, <3>1, <3>2 DEF SealedMinutes
  <2>3. QED
    BY <1>1, <1>4, <1>5, <1>9, <2>1, <2>2 DEF Close, Threads
<1>10. QED
  BY <1>6, <1>7, <1>8, <1>9

(* A flush that was begun and not ended is under way.                       *)
LEMMA BegunIsFlushing ==
  ASSUME StoreTypeOK, NEW t \in Threads, Begun(t)
  PROVE  Flushing' # {}
<1>1. flush'[t] = [Idle EXCEPT !.at = "begun"]
  BY DEF Begun, StoreTypeOK
<1>2. flush'[t].at = "begun"
  BY <1>1 DEF Idle
<1>3. QED
  BY <1>2 DEF Flushing

(* The split store hands its minute over: what a read relies on stays.      *)
LEMMA SplitHandOverKeeps ==
  ASSUME StoreTypeOK, StoreTypeOK', StoreInv, ~raced', composition = "split", SplitInv,
         Pass \/ Pause \/ Resume \/ Close
  PROVE  SplitInv' /\ missing' = missing
<1> DEFINE Quiet == /\ flush' = flush /\ lastFlush' = lastFlush
                    /\ recording /\ UNCHANGED <<writer, recording>>
                    /\ unsealed' \subseteq unsealed
           Starts == lastFlush' = clock /\ \E t \in Threads : Begun(t)
<1>1. /\ ~raced /\ Flushing = {} /\ writer = "running"
      /\ HandOver(Sealable)
      /\ SealedMinutes' = SealedMinutes \cup Sealable
      /\ UNCHANGED <<clock, disk, flushes, held, newest, read, shown, missing, delayed>>
      /\ \A m \in Sealable : m \in unsealed /\ m < clock
      /\ \A u \in unsealed' : clock <= u
      /\ Quiet \/ Starts
  BY SplitHandsOver
<1>2. SealedInv
  BY <1>1 DEF StoreInv
<1>3. /\ Known \subseteq recorded /\ 0 \notin recorded
      /\ \A m \in recorded : m \in Nat /\ m <= clock
      /\ clock \in Nat /\ lastFlush \in Nat /\ lastFlush <= clock
  BY KnownIsRecorded
<1>4. Known' \subseteq Known \cup Sealable
  <2>1. Sealable \subseteq recorded
    BY <1>1 DEF StoreTypeOK
  <2>2. In(events') \subseteq In(events) \cup Sealable
    BY <1>1, <2>1, EventsAreTyped
  <2>3. buffer' = buffer \cup Sealable
    BY <1>1 DEF HandOver
  <2>4. Asked' = Asked /\ Rows(disk') = Rows(disk) /\ held' = held /\ newest' = newest
    BY <1>1 DEF Asked
  <2>5. QED
    BY <2>2, <2>3, <2>4 DEF Known
<1>5. \A m \in Known' : m < clock'
  BY <1>1, <1>4 DEF SplitInv
<1>6. \A u \in unsealed' : u <= clock
  BY <1>1 DEF StoreTypeOK
<1>7. Starts => StillOpen' /\ (\A m \in Known' : m < lastFlush') /\ PunctualInv'
  <2>1. SUFFICES ASSUME Starts PROVE StillOpen' /\ (\A m \in Known' : m < lastFlush') /\ PunctualInv'
    OBVIOUS
  <2>2. lastFlush' = clock /\ clock' = clock
    BY <1>1, <2>1
  <2>3. clock' - lastFlush' = 0 /\ FlushEvery + Slack >= 0
    BY <1>3, <2>2, StoreAssumption
  <2>4. QED
    BY <1>1, <1>5, <1>6, <2>2, <2>3 DEF StillOpen, PunctualInv
<1>8. Quiet => Flushing' = {} /\ PunctualInv'
  BY <1>1 DEF Flushing, SplitInv, PunctualInv
<1>9. ASSUME ~delayed' PROVE CurrentInv'
  <2>1. CurrentInv
    BY <1>1, <1>9 DEF SplitInv
  <2>2. StillOpen'
    BY <1>1, <1>7, <2>1 DEF CurrentInv, StillOpen
  <2>3. Known' \subseteq SealedMinutes'
    BY <1>1, <1>4, <2>1 DEF CurrentInv
  <2>4. \A m \in buffer' : lastFlush <= m
    BY <1>1, <2>1 DEF CurrentInv, StillOpen, HandOver
  <2>5. \A m \in buffer' : lastFlush' <= m \/ Flushing' # {}
    BY <1>1, <2>4, BegunIsFlushing
  <2>6. ASSUME NEW m \in buffer', NEW s \in SealedMinutes' PROVE s - m <= Horizon
    <3>1. m \in Nat /\ s \in Nat /\ lastFlush <= m
      BY <1>3, <2>4 DEF StoreTypeOK, SealedMinutes
    <3>2. FlushEvery \in Nat /\ Slack \in Nat /\ Horizon \in Nat /\ FlushEvery + Slack <= Horizon
      BY StoreAssumption
    <3>3. CASE s \in Sealable
      <4>1. s < clock /\ s \in unsealed
        BY <1>1, <3>3
      <4>2. CASE recording
        <5>1. clock - lastFlush <= FlushEvery + Slack
          BY <1>1, <4>2 DEF SplitInv, PunctualInv
        <5>2. QED
          BY <1>3, <3>1, <3>2, <4>1, <5>1
      <4>3. CASE ~recording
        <5>1. s <= lastFlush
          BY <2>1, <4>1, <4>3 DEF CurrentInv, StillOpen
        <5>2. QED
          BY <1>3, <3>1, <3>2, <5>1
      <4>4. QED
        BY <4>2, <4>3
    <3>4. CASE s \in SealedMinutes /\ m \in buffer
      BY <2>1, <3>4 DEF CurrentInv
    <3>5. CASE s \in SealedMinutes /\ m \in Sealable
      <4>1. s < m
        BY <1>1, <1>2, <3>5 DEF SealedInv
      <4>2. QED
        BY <3>1, <3>2, <4>1
    <3>6. QED
      BY <1>1, <2>6, <3>3, <3>4, <3>5 DEF HandOver
  <2>7. Asked' \subseteq held' \cup Rows(disk')
    BY <1>1, <2>1 DEF CurrentInv, Asked
  <2>8. read'.at = "pending" => read'.due \subseteq read'.pending \cup Rows(disk')
    BY <1>1, <2>1 DEF CurrentInv
  <2>9. QED
    BY <2>2, <2>3, <2>5, <2>6, <2>7, <2>8 DEF CurrentInv
<1>10. QED
  BY <1>1, <1>5, <1>7, <1>8, <1>9 DEF SplitInv

(* A minute passes at the split store: what a read relies on stays.         *)
LEMMA SplitMinutePasses ==
  ASSUME StoreTypeOK, FlushInv, FilesInv, SealedInv, SplitInv, MinutePasses
  PROVE  SplitInv' /\ missing' = missing
<1>1. /\ Known \subseteq recorded /\ clock \in Nat /\ lastFlush \in Nat /\ lastFlush <= clock
      /\ \A m \in recorded : m \in Nat /\ m <= clock
  BY KnownIsRecorded
<1>2. /\ clock' = clock + 1 /\ lastFlush' = lastFlush /\ buffer' = buffer /\ disk' = disk
      /\ events' = events /\ held' = held /\ newest' = newest /\ read' = read /\ shown' = shown
      /\ missing' = missing /\ flush' = flush /\ delayed' = delayed /\ recording' = recording
      /\ writer' = writer
      /\ unsealed' = IF recording /\ writer = "running" THEN unsealed \cup {clock + 1} ELSE unsealed
      /\ (recording /\ writer = "running" => clock - lastFlush < FlushEvery + Slack)
  BY DEF MinutePasses, api
<1>3. Known' = Known /\ Asked' = Asked /\ Flushing' = Flushing
  BY <1>2 DEF Known, Asked, Flushing
<1>4. SealedMinutes' = SealedMinutes
  BY MinutePassesKeeps
<1>5. StillOpen => StillOpen'
  BY <1>1, <1>2 DEF StillOpen
<1>6. \A m \in Known : m < clock + 1
  BY <1>1
<1>7. PunctualInv'
  <2>1. FlushEvery + Slack \in Nat
    BY StoreAssumption
  <2>2. QED
    BY <1>1, <1>2, <2>1 DEF PunctualInv
<1>8. CurrentInv => CurrentInv'
  BY <1>2, <1>3, <1>4, <1>5 DEF CurrentInv
<1>9. QED
  BY <1>2, <1>3, <1>5, <1>6, <1>7, <1>8 DEF SplitInv

(* A restart and a failed flush leave less on the disk, and no flush under way.    *)
LEMMA SplitSetsBack ==
  ASSUME StoreTypeOK, FlushInv, FilesInv, SealedInv, SplitInv,
         Restart \/ \E t \in Threads : Fails(t)
  PROVE  SplitInv' /\ missing' = missing
<1> DEFINE Less ==
      /\ delayed' /\ Flushing' = {} /\ clock' = clock /\ missing' = missing
      /\ Asked' = Asked /\ held' = held /\ events' = events /\ newest' = newest
      /\ buffer' \subseteq buffer /\ Rows(disk') \subseteq Rows(disk)
      /\ (lastFlush' = clock \/ lastFlush' = lastFlush) /\ recording' = recording
      /\ (writer' = "running" => writer = "running")
<1>1. Less
  <2>1. CASE Restart
    BY <2>1 DEF Restart, Flushing, Idle, Asked, Rows, api
  <2>2. ASSUME NEW t \in Threads, Fails(t) PROVE Less
    <3>1. Rows(disk') \subseteq Rows(disk)
      BY <2>2, FailsKeeps
    <3>2. Flushing' = {}
      BY <2>2, NoOtherFlush DEF Fails, Flushing
    <3>3. QED
      BY <2>2, <3>1, <3>2 DEF Fails, Ended, Asked, api
  <2>3. QED
    BY <2>1, <2>2
<1>2. Known' \subseteq Known
  BY <1>1 DEF Known
<1>3. PunctualInv'
  <2>1. clock \in Nat /\ clock - clock = 0 /\ FlushEvery + Slack >= 0
    BY StoreAssumption DEF StoreTypeOK
  <2>2. QED
    BY <1>1, <2>1 DEF SplitInv, PunctualInv
<1>4. QED
  BY <1>1, <1>2, <1>3 DEF SplitInv

(* A flush that ends has brought to the files all that anyone knows.              *)
LEMMA SplitFlushes ==
  ASSUME StoreTypeOK, FlushInv, FilesInv, SealedInv, SplitInv,
         NEW t \in Threads, Nothing(t) \/ Take(t) \/ Land(t) \/ End(t)
  PROVE  SplitInv' /\ missing' = missing
<1>1. /\ clock' = clock /\ lastFlush' = lastFlush /\ recording' = recording
      /\ unsealed' = unsealed /\ recorded' = recorded
      /\ (writer' = "running" => writer = "running")
      /\ missing' = missing /\ read' = read /\ shown' = shown
      /\ events' = events /\ held' = held /\ newest' = newest
  BY DEF Nothing, Take, Land, End, Ended, api
<1>2. Asked' = Asked /\ SealedMinutes' = SealedMinutes /\ PunctualInv'
      /\ (StillOpen => StillOpen')
  BY <1>1 DEF Asked, SealedMinutes, SplitInv, PunctualInv, StillOpen
<1>3. buffer' \subseteq buffer /\ Rows(disk) \subseteq Rows(disk')
      /\ Rows(disk') \subseteq Rows(disk) \cup buffer
  <2>1. CASE Land(t)
    BY <2>1, LandKeeps DEF Land
  <2>2. CASE ~Land(t)
    BY <2>2 DEF Nothing, Take, BufferKept, End
  <2>3. QED
    BY <2>1, <2>2
<1>4. Known' \subseteq Known
  BY <1>1, <1>2, <1>3 DEF Known
<1>5. CASE Take(t) \/ Land(t)
  <2>1. t \in Flushing /\ delayed' = delayed
    BY <1>5 DEF Take, Land, Flushing
  <2>2. flush'[t].at # "idle"
    BY <1>5 DEF Take, Taken, Land, StoreTypeOK, FlushState
  <2>3. t \in Flushing'
    BY <2>2 DEF Flushing
  <2>4. CurrentInv => CurrentInv'
    BY <1>1, <1>2, <1>3, <1>4, <2>3 DEF CurrentInv
  <2>5. QED
    BY <1>1, <1>2, <1>4, <2>1, <2>4 DEF SplitInv
<1>6. CASE Nothing(t)
  <2>1. Flushing' = {}
    BY <1>6, NoOtherFlush DEF Nothing, Flushing
  <2>2. buffer' = {} /\ delayed' = delayed
    BY <1>6 DEF Nothing
  <2>3. CurrentInv => CurrentInv'
    BY <1>1, <1>2, <1>3, <1>4, <2>2 DEF CurrentInv
  <2>4. QED
    BY <1>1, <1>2, <1>4, <2>1, <2>2, <2>3 DEF SplitInv
<1>7. CASE End(t)
  <2>1. Flushing' = {} /\ t \in Flushing
    BY <1>7, NoOtherFlush DEF End, Flushing
  <2>2. buffer' = {} /\ disk' = disk /\ Rows(disk) = SealedMinutes
    BY <1>7, EndKeeps DEF End
  <2>3. StillOpen /\ \A m \in Known : m < lastFlush
    BY <2>1 DEF SplitInv
  <2>4. /\ Known \subseteq recorded /\ Asked \subseteq recorded /\ 0 \notin recorded
        /\ lastFlush \in Nat /\ \A m \in recorded : m \in Nat
    BY KnownIsRecorded
  <2>5. Known \subseteq SealedMinutes
    <3>1. \A m \in Known : m \notin unsealed
      BY <2>3, <2>4 DEF StillOpen
    <3>2. QED
      BY <2>4, <3>1 DEF SealedMinutes
  <2>6. Asked \subseteq Rows(disk)
    BY <2>2, <2>4, <2>5 DEF Known
  <2>7. read.due \subseteq Asked
    BY DEF Asked
  <2>8. CurrentInv'
    BY <1>1, <1>2, <1>4, <2>2, <2>3, <2>5, <2>6, <2>7 DEF CurrentInv
  <2>9. QED
    BY <1>1, <1>2, <1>4, <2>1, <2>8 DEF SplitInv
<1>8. QED
  BY <1>5, <1>6, <1>7

(* What leaves the BarBuffer is older than the horizon, so it is in a file.        *)
LEMMA SplitApplies ==
  ASSUME StoreTypeOK, StoreTypeOK', SealedInv, SplitInv, Apply
  PROVE  SplitInv' /\ missing' = missing
<1> DEFINE e == Head(events)
<1>1. events \in Seq(recorded) /\ events # <<>> /\ events' = Tail(events)
      /\ newest' = Max({newest, e})
      /\ held' = {m \in held \cup {e} : Keeps(m, newest')}
      /\ UNCHANGED <<clock, store, read, recorded, shown, missing, delayed>>
  BY DEF Apply, StoreTypeOK
<1>2. e \in In(events) /\ In(Tail(events)) \subseteq In(events) /\ In(events) \subseteq recorded
  BY <1>1, MinutesOfEvents
<1>3. /\ Known \subseteq recorded /\ 0 \notin recorded
      /\ \A m \in recorded : m \in Nat /\ m <= clock
  BY KnownIsRecorded
<1>4. newest' \in {newest, e} /\ e <= newest' /\ newest' \in Nat
  <2>1. newest \in recorded \cup {0}
    BY DEF StoreTypeOK
  <2>2. e \in Nat /\ newest \in Nat
    BY <1>2, <1>3, <2>1
  <2>3. QED
    BY <1>1, <2>2, MaxOfTwo
<1>5. lastFlush' = lastFlush /\ unsealed' = unsealed /\ recording' = recording /\ writer' = writer
      /\ flush' = flush /\ disk' = disk /\ buffer' = buffer /\ recorded' = recorded /\ read' = read
      /\ shown' = shown /\ clock' = clock /\ delayed' = delayed /\ missing' = missing
  BY <1>1 DEF store
<1>6. Known' \subseteq Known
  BY <1>1, <1>2, <1>3, <1>4, <1>5 DEF Known, Asked
<1>7. Flushing' = Flushing /\ SealedMinutes' = SealedMinutes /\ (StillOpen => StillOpen')
      /\ PunctualInv' /\ Asked' = Asked
  BY <1>5 DEF Flushing, SealedMinutes, StillOpen, SplitInv, PunctualInv, Asked
<1>8. ASSUME CurrentInv PROVE Asked \subseteq held' \cup Rows(disk)
  <2>1. SUFFICES ASSUME NEW m \in Asked, m \in held, m \notin Rows(disk) PROVE m \in held'
    BY <1>8 DEF CurrentInv
  <2>2. m \in Known
    BY <1>3, <2>1 DEF Known, StoreTypeOK
  <2>3. m \in buffer
    BY <1>8, <2>1, <2>2 DEF CurrentInv, SealedInv
  <2>4. newest' \in SealedMinutes
    <3>1. newest' # 0
      BY <1>2, <1>3, <1>4
    <3>2. newest' \in Known
      BY <1>2, <1>4, <3>1 DEF Known
    <3>3. QED
      BY <1>8, <3>2 DEF CurrentInv
  <2>5. newest' - m <= Horizon
    BY <1>8, <2>3, <2>4 DEF CurrentInv
  <2>6. m \in Nat
    BY <1>3, <2>2
  <2>7. Keeps(m, newest')
    BY <1>4, <2>5, <2>6, StoreAssumption DEF Keeps
  <2>8. QED
    BY <1>1, <2>1, <2>7
<1>9. CurrentInv => CurrentInv'
  BY <1>5, <1>6, <1>7, <1>8 DEF CurrentInv
<1>10. QED
  BY <1>5, <1>6, <1>7, <1>9 DEF SplitInv

(* A read: what is due when it begins is there when it ends.                     *)
LEMMA SplitReads ==
  ASSUME StoreTypeOK, StoreTypeOK', SealedInv, SplitInv, composition = "split", missing = {},
         Scan \/ Pending \/ Collect
  PROVE  SplitInv' /\ missing' = {}
<1>1. UNCHANGED <<clock, store, api, recorded, raced, delayed>>
  BY DEF Scan, Pending, Collect
<1>2. /\ Flushing' = Flushing /\ SealedMinutes' = SealedMinutes /\ (StillOpen => StillOpen')
      /\ PunctualInv' /\ Rows(disk') = Rows(disk) /\ lastFlush' = lastFlush /\ clock' = clock
      /\ buffer' = buffer /\ held' = held /\ newest' = newest /\ events' = events
      /\ delayed' = delayed
  BY <1>1 DEF store, api, Flushing, SealedMinutes, StillOpen, SplitInv, PunctualInv
<1>3. Asked' \subseteq Asked \cup held \cup Rows(disk)
  <2>1. CASE Scan
    <3>1. read'.due = Answerable /\ read'.pending = {} /\ shown' = shown
      BY <2>1 DEF Scan, NoRead
    <3>2. QED
      BY <3>1 DEF Asked, Answerable
  <2>2. CASE Pending
    <3>1. read'.due = read.due /\ read'.pending = held /\ shown' = shown
      BY <2>2 DEF Pending, StoreTypeOK
    <3>2. QED
      BY <3>1 DEF Asked
  <2>3. CASE Collect
    <3>1. read'.due = {} /\ read'.pending = {} /\ shown' \subseteq shown \cup Rows(disk) \cup read.pending
      BY <2>3 DEF Collect, NoRead, PreferDisk
    <3>2. QED
      BY <3>1 DEF Asked
  <2>4. QED
    BY <2>1, <2>2, <2>3
<1>4. Known' \subseteq Known
  BY <1>2, <1>3 DEF Known
<1>5. ASSUME CurrentInv PROVE read'.at = "pending" => read'.due \subseteq read'.pending \cup Rows(disk)
  <2>1. CASE Pending
    <3>1. read'.due = read.due /\ read'.pending = held
      BY <2>1 DEF Pending, StoreTypeOK
    <3>2. QED
      BY <1>5, <3>1 DEF CurrentInv, Asked
  <2>2. CASE Scan
    BY <2>2 DEF Scan, NoRead
  <2>3. CASE Collect
    BY <2>3 DEF Collect, NoRead
  <2>4. QED
    BY <2>1, <2>2, <2>3
<1>6. CurrentInv => CurrentInv'
  BY <1>2, <1>3, <1>4, <1>5 DEF CurrentInv
<1>7. missing' = {}
  <2>1. CASE Scan \/ Pending
    BY <2>1 DEF Scan, Pending
  <2>2. CASE Collect
    <3>1. CASE delayed
      BY <2>2, <3>1 DEF Collect
    <3>2. CASE ~delayed
      <4>1. read.due \subseteq read.pending \cup Rows(disk)
        BY <2>2, <3>2 DEF Collect, SplitInv, CurrentInv
      <4>2. QED
        BY <2>2, <4>1 DEF Collect, PreferDisk
    <3>3. QED
      BY <3>1, <3>2
  <2>3. QED
    BY <2>1, <2>2
<1>8. QED
  BY <1>2, <1>4, <1>6, <1>7 DEF SplitInv

(* Every step keeps the invariant of the reads.                             *)
LEMMA ReadsInvKept ==
  ASSUME StoreTypeOK, StoreTypeOK', StoreInv, StoreInv', ReadsInv, [StoreNext]_storeVars
  PROVE  ReadsInv'
<1>1. CASE UNCHANGED storeVars
  BY <1>1 DEF storeVars, store, api, ReadsInv, MonolithInv, SplitInv, StillOpen, CurrentInv,
              PunctualInv, Known, Asked, SealedMinutes, Settled, Flushing
<1>2. CASE StoreNext
  <2>1. composition' = composition /\ composition \in {"monolith", "split"} /\ (raced => raced')
    BY <1>2 DEF StoreTypeOK, StoreNext, MinutePasses, Pass, Pause, Resume, FlagRaised,
                ResumeApplied, Close, Restart, Nothing, Take, Land, End, Fails, Apply, Scan,
                Pending, Collect
  <2>2. CASE raced'
    <3>1. missing' = missing \/ (Collect /\ raced)
      BY <1>2, <2>2 DEF StoreNext, MinutePasses, Pass, Pause, Resume, FlagRaised, ResumeApplied,
                        Close, Restart, Nothing, Take, Land, End, Fails, Apply, Scan, Pending,
                        Collect
    <3>2. missing' = missing
      BY <3>1 DEF Collect
    <3>3. QED
      BY <2>2, <3>2 DEF ReadsInv
  <2>3. CASE ~raced' /\ composition = "monolith"
    BY <1>2, <2>1, <2>3, MonolithStep DEF ReadsInv
  <2>4. CASE ~raced' /\ composition = "split"
    <3>1. ~raced /\ SplitInv /\ missing = {} /\ FlushInv /\ FilesInv /\ SealedInv
      BY <2>1, <2>4 DEF ReadsInv, StoreInv
    <3>2. SplitInv' /\ missing' = {}
      BY <1>2, <2>4, <3>1, SplitHandOverKeeps, SplitMinutePasses, SplitSetsBack, SplitFlushes,
         SplitApplies, SplitReads DEF StoreNext
    <3>3. QED
      BY <2>1, <2>4, <3>2 DEF ReadsInv
  <2>5. QED
    BY <2>1, <2>2, <2>3, <2>4
<1>3. QED
  BY <1>1, <1>2

(* A read has every bar there was to read when it began, and answers again what   *)
(* any read has answered, in both compositions, whatever minutes pass and bars     *)
(* move from one buffer to another and to the files between its three looks.      *)
THEOREM NoReadMissesABar == StoreSpec => []ReadsAreWhole
<1>1. StoreInit => StoreTypeOK /\ StoreInv /\ ReadsInv
  BY StoreStartsTyped, StoreInvStarts, ReadsInvStarts
<1>2. StoreTypeOK /\ StoreInv /\ ReadsInv /\ [StoreNext]_storeVars
        => (StoreTypeOK /\ StoreInv /\ ReadsInv)'
  BY StoreStaysTyped, StoreInvKept, ReadsInvKept
<1>3. ReadsInv => ReadsAreWhole
  BY DEF ReadsInv, ReadsAreWhole
<1>4. QED
  BY <1>1, <1>2, <1>3, PTL DEF StoreSpec

----------------------------------------------------------------------------
(* Contracts: a symbol is one instrument, which its canonical string and the    *)
(* symbol give back.                                                        *)
Inst(s) ==
  [venue |-> "DELTA", underlying |-> s[2], expiry |-> s[4], strike |-> s[3], right |-> s[1],
   venueSymbol |-> s, quoteCurrency |-> "USD", settlementCurrency |-> "USD"]
Key(s) == Canonical(Inst(s))
SideOf(s) == IF s[1] = "C" THEN "call" ELSE "put"

(* The parts of a symbol; the symbol of no option has none of them.         *)
LEMMA SymbolParts ==
  ASSUME NEW s \in Symbols
  PROVE  /\ s = <<s[1], "BTC", s[3], "expiry">> /\ s[1] \in Rights /\ s[3] \in Strikes
         /\ s # OddSymbol
<1>1. PICK r \in Rights, k \in Strikes : s = <<r, "BTC", k, "expiry">>
  BY DEF Symbols
<1>2. OddSymbol[1] = "MV" /\ r # "MV"
  BY DEF OddSymbol, Rights
<1> QED
  BY <1>1, <1>2

(* A symbol is one instrument,                                              *)
LEMMA OneInstrument ==
  ASSUME NEW s \in Symbols
  PROVE  InstrumentsOf(s) = {Inst(s)} /\ (CHOOSE j \in InstrumentsOf(s) : TRUE) = Inst(s)
<1>1. InstrumentsOf(s) = {Inst(s)}
  BY DEF InstrumentsOf, Inst
<1> QED
  BY <1>1

(* and the symbol of no option is none.                                     *)
LEMMA OddHasNone == InstrumentsOf(OddSymbol) = {}
<1>1. OddSymbol \notin Symbols
  BY SymbolParts
<1> QED
  BY <1>1 DEF InstrumentsOf

(* The parts of a canonical string.                                         *)
LEMMA KeyParts ==
  ASSUME NEW s
  PROVE  /\ Key(s)[1] = "DELTA" /\ Key(s)[2] = s[2] /\ Key(s)[3] = s[4]
         /\ Key(s)[4] = s[3] /\ Key(s)[5] = s[1] /\ Key(s)[6] = "USD"
<1>1. Key(s) = <<"DELTA", s[2], s[4], s[3], s[1], "USD">>
  BY DEF Key, Canonical, Inst
<1> QED
  BY <1>1

(* Two contracts have two canonical strings.                                *)
LEMMA KeysTellApart ==
  ASSUME NEW s \in Symbols, NEW z \in Symbols, Key(s) = Key(z)
  PROVE  s = z
<1>1. s[1] = z[1] /\ s[3] = z[3]
  BY KeyParts
<1> QED
  BY <1>1, SymbolParts

(* A canonical string and the symbol give the instrument back.              *)
LEMMA KeyGivesBack == ASSUME NEW s \in Symbols PROVE FromCanonical(Key(s), s) = Inst(s)
BY KeyParts DEF FromCanonical, Inst

----------------------------------------------------------------------------
(* Decoding: a field is what its spelling means, and no spelling costs a frame    *)
(* but an id that is not a number.                                           *)
LEMMA Meanings ==
  ASSUME NEW v \in Spelled
  PROVE  /\ PriceOf(v) = Meant(v) /\ PriceOf(v) \in {"absent", "low", "high"}
         /\ Finite(ToNumber(v)) = Counted(v) /\ Finite(ToNumber(v)) # "junk"
         /\ v # "junk" => ToNumber(v) # "junk" /\ ToNumber(v) = TextNumber(v)
         /\ TextQuote(v) = Meant(v) /\ TextNumber(v) = Counted(v)
BY DEF Spelled, PriceOf, Finite, ToQuoteNumber, ToNumber, Meant, Counted, TextQuote, TextNumber

(* Every frame of ob_l2 about a contract is one quote.                      *)
LEMMA BookDecoded ==
  ASSUME NEW s \in Symbols, NEW f \in BookFrames
  PROVE  Decoded("ob_l2", s, f) = {QuoteEvent(Inst(s), f)}
<1>1. f.bid \in Spelled /\ f.ask \in Spelled /\ f.bidSize \in Spelled /\ f.askSize \in Spelled
  BY LadderAssumption
<1>2. /\ PriceOf(f.bid) # "junk" /\ PriceOf(f.ask) # "junk"
      /\ SizeOf(f.bid, f.bidSize) # "junk" /\ SizeOf(f.ask, f.askSize) # "junk"
  BY <1>1, Meanings DEF SizeOf, PriceOf, Finite
<1>3. ~Unfinite(QuoteEvent(Inst(s), f))
  BY <1>2 DEF Unfinite, QuoteEvent, Event
<1>4. Constructed({QuoteEvent(Inst(s), f)}) = {QuoteEvent(Inst(s), f)}
  BY <1>3 DEF Constructed
<1>5. InstrumentsOf(s) # {} /\ (CHOOSE j \in InstrumentsOf(s) : TRUE) = Inst(s) /\ Readable("ob_l2", f)
  BY OneInstrument DEF Readable
<1> QED
  BY <1>4, <1>5 DEF Decoded

(* A frame of ticker is a reference, and a spot if it has one, unless its id is unreadable. *)
LEMMA TickerDecoded ==
  ASSUME NEW s \in Symbols, NEW f \in TickerFrames
  PROVE  Decoded("ticker", s, f) =
           IF f.id = "junk" THEN {} ELSE {ReferenceEvent(Inst(s), f)} \cup IndexEvents(f)
<1>1. f.bid \in Spelled /\ f.ask \in Spelled /\ f.id \in Spelled /\ f.oi \in Spelled /\ f.spot \in Spelled
  BY LadderAssumption
<1>2. InstrumentsOf(s) # {} /\ (CHOOSE j \in InstrumentsOf(s) : TRUE) = Inst(s)
  BY OneInstrument
<1>3. CASE f.id = "junk"
  BY <1>3 DEF Decoded, Readable
<1>4. CASE f.id # "junk"
  <2>1. /\ PriceOf(f.bid) # "junk" /\ PriceOf(f.ask) # "junk" /\ Finite(ToNumber(f.oi)) # "junk"
        /\ ToNumber(f.id) # "junk" /\ PriceOf(f.spot) # "junk"
    BY <1>1, <1>4, Meanings
  <2>2. ~Unfinite(ReferenceEvent(Inst(s), f))
    BY <2>1 DEF Unfinite, ReferenceEvent, Event
  <2>3. ASSUME NEW e \in IndexEvents(f)
        PROVE  ~Unfinite(e)
    BY <2>1 DEF Unfinite, IndexEvents, Event
  <2>4. Constructed({ReferenceEvent(Inst(s), f)} \cup IndexEvents(f)) = {ReferenceEvent(Inst(s), f)} \cup IndexEvents(f)
    BY <2>2, <2>3 DEF Constructed
  <2> QED
    BY <1>2, <1>4, <2>4 DEF Decoded, Readable
<1> QED
  BY <1>3, <1>4

(* A frame about anything else is nothing.                                  *)
LEMMA OddDecoded ==
  ASSUME NEW channel, NEW f
  PROVE  Decoded(channel, OddSymbol, f) = {}
BY OddHasNone DEF Decoded

----------------------------------------------------------------------------
(* On the wire and back.                                                     *)
BookRecord(s, f) == [key |-> Key(s), instrument |-> Inst(s), payload |-> QuoteEvent(Inst(s), f).payload]
TickerRecord(s, f) == [key |-> Key(s), instrument |-> Inst(s), payload |-> ReferenceEvent(Inst(s), f).payload]
BookEntry(s, f) == Encode(QuoteEvent(Inst(s), f))
TickerEntry(s, f) == Encode(ReferenceEvent(Inst(s), f))
SpotEntry(p) == Encode(Event("md.index_quote", {}, [spot |-> p]))

(* An event about a contract comes back from its entry as it was.           *)
LEMMA Travels ==
  ASSUME NEW s \in Symbols, NEW type, NEW payload
  PROVE  /\ Encode(Event(type, {Inst(s)}, payload)).instrument = {Key(s)}
         /\ FromWire(Encode(Event(type, {Inst(s)}, payload))) = Event(type, {Inst(s)}, payload)
<1> DEFINE entry == Encode(Event(type, {Inst(s)}, payload))
<1>1. entry = [type |-> type, instrument |-> {Key(s)}, venueSymbol |-> {s}, payload |-> payload]
  <2>1. Inst(s).venueSymbol = s
    BY DEF Inst
  <2>2. {Canonical(i) : i \in {Inst(s)}} = {Key(s)} /\ {i.venueSymbol : i \in {Inst(s)}} = {s}
    BY <2>1 DEF Key
  <2> QED
    BY <2>2 DEF Encode, Event
<1> HIDE DEF entry
<1>2. entry.venueSymbol # {} /\ (CHOOSE z \in entry.venueSymbol : TRUE) = s
  BY <1>1
<1>3. FromWire(entry) = Event(type, {Inst(s)}, payload)
  <2>1. {FromCanonical(text, s) : text \in {Key(s)}} = {Inst(s)}
    BY KeyGivesBack
  <2> QED
    BY <1>1, <1>2, <2>1 DEF FromWire
<1> QED
  BY <1>1, <1>3 DEF entry

----------------------------------------------------------------------------
(* A stream and its cache, for one contract: either no entry about it is left    *)
(* and the cache holds what it should in the end, or the last entry about it      *)
(* carries that. E and R are the entry and the record, or nothing of each.        *)
Silent(w, s) == \A n \in DOMAIN w : w[n].instrument # {Key(s)}
Carries(w, s, e) == \E n \in DOMAIN w : w[n] = e /\ \A m \in DOMAIN w : n < m => w[m].instrument # {Key(s)}
Cached(cache, s) == {r \in cache : r.key = Key(s)}
Follows(w, cache, s, E, R) ==
  \/ Silent(w, s) /\ Cached(cache, s) = R
  \/ \E e \in E : Carries(w, s, e)

(* An entry at the end of a stream.                                         *)
LEMMA AppendFits ==
  ASSUME NEW S, NEW w \in Seq(S), NEW x \in S
  PROVE  /\ Append(w, x) \in Seq(S) /\ Len(w) \in Nat
         /\ DOMAIN w = 1..Len(w) /\ DOMAIN Append(w, x) = 1..(Len(w) + 1)
         /\ Append(w, x)[Len(w) + 1] = x
         /\ \A n \in 1..Len(w) : Append(w, x)[n] = w[n]
OBVIOUS

(* An entry about another contract changes nothing for this one.            *)
LEMMA FollowsTheOthers ==
  ASSUME NEW S, NEW w \in Seq(S), NEW x \in S, NEW cache, NEW s, NEW E, NEW R,
         Follows(w, cache, s, E, R), x.instrument # {Key(s)}
  PROVE  Follows(Append(w, x), cache, s, E, R)
<1> DEFINE v == Append(w, x)
<1>1. /\ Len(w) \in Nat /\ DOMAIN w = 1..Len(w) /\ DOMAIN v = 1..(Len(w) + 1)
      /\ v[Len(w) + 1] = x /\ \A n \in 1..Len(w) : v[n] = w[n]
  BY AppendFits
<1> HIDE DEF v
<1>2. \A n \in DOMAIN v : n \in DOMAIN w \/ n = Len(w) + 1
  BY <1>1
<1>3. CASE Silent(w, s) /\ Cached(cache, s) = R
  <2>1. Silent(v, s)
    BY <1>1, <1>2, <1>3 DEF Silent
  <2> QED
    BY <1>3, <2>1 DEF Follows, v
<1>4. ASSUME NEW e \in E, Carries(w, s, e)
      PROVE  Carries(v, s, e)
  <2>1. PICK n \in DOMAIN w : w[n] = e /\ \A m \in DOMAIN w : n < m => w[m].instrument # {Key(s)}
    BY <1>4 DEF Carries
  <2>2. n \in DOMAIN v /\ v[n] = e
    BY <1>1, <2>1
  <2>3. ASSUME NEW m \in DOMAIN v, n < m
        PROVE  v[m].instrument # {Key(s)}
    BY <1>1, <1>2, <2>1, <2>3
  <2> QED
    BY <2>2, <2>3 DEF Carries
<1> QED
  BY <1>3, <1>4 DEF Follows, v

(* The newest entry about a contract is what its cache will hold.           *)
LEMMA FollowsTheNewest ==
  ASSUME NEW S, NEW w \in Seq(S), NEW x \in S, NEW cache, NEW s, NEW R
  PROVE  Follows(Append(w, x), cache, s, {x}, R)
<1> DEFINE v == Append(w, x)
<1>1. Len(w) \in Nat /\ DOMAIN v = 1..(Len(w) + 1) /\ v[Len(w) + 1] = x
  BY AppendFits
<1> HIDE DEF v
<1>2. Len(w) + 1 \in DOMAIN v /\ \A m \in DOMAIN v : ~(Len(w) + 1 < m)
  BY <1>1
<1>3. Carries(v, s, x)
  BY <1>1, <1>2 DEF Carries
<1> QED
  BY <1>3 DEF Follows, v

(* An entry is read: the cache holds it, or what it held of the other contracts.    *)
LEMMA FollowsTheReader ==
  ASSUME NEW S, NEW w \in Seq(S), w # <<>>, NEW cache, NEW after, NEW s, NEW E, NEW R,
         Follows(w, cache, s, E, R), \A e \in E : e.instrument = {Key(s)},
         Head(w).instrument = {Key(s)} => \A e \in E : e = Head(w) => Cached(after, s) = R,
         Head(w).instrument # {Key(s)} => Cached(after, s) = Cached(cache, s)
  PROVE  Follows(Tail(w), after, s, E, R)
<1> DEFINE v == Tail(w)
           h == Head(w)
<1>1. /\ Len(w) \in Nat \ {0} /\ DOMAIN w = 1..Len(w) /\ DOMAIN v = 1..(Len(w) - 1) /\ h = w[1]
      /\ \A n \in 1..(Len(w) - 1) : v[n] = w[n + 1]
  <2>1. Len(w) \in Nat \ {0} /\ DOMAIN w = 1..Len(w) /\ h = w[1]
    OBVIOUS
  <2>2. v \in Seq(S) /\ Len(v) = Len(w) - 1
    OBVIOUS
  <2>3. DOMAIN v = 1..(Len(w) - 1)
    BY <2>2
  <2>4. \A n \in 1..(Len(w) - 1) : v[n] = w[n + 1]
    OBVIOUS
  <2> QED
    BY <2>1, <2>3, <2>4
<1> HIDE DEF v, h
<1>2. 1 \in DOMAIN w /\ \A n \in DOMAIN v : n + 1 \in DOMAIN w /\ v[n] = w[n + 1] /\ n \in Int
  BY <1>1
<1>3. CASE Silent(w, s) /\ Cached(cache, s) = R
  <2>1. h.instrument # {Key(s)}
    BY <1>1, <1>2, <1>3 DEF Silent
  <2>2. Silent(v, s)
    BY <1>2, <1>3 DEF Silent
  <2> QED
    BY <1>3, <2>1, <2>2 DEF Follows, v, h
<1>4. ASSUME NEW e \in E, Carries(w, s, e)
      PROVE  Follows(v, after, s, E, R)
  <2>1. PICK n \in DOMAIN w : w[n] = e /\ \A m \in DOMAIN w : n < m => w[m].instrument # {Key(s)}
    BY <1>4 DEF Carries
  <2>2. CASE n = 1
    <3>1. Silent(v, s)
      <4>1. \A k \in DOMAIN v : 1 < k + 1
        BY <1>1
      <4> QED
        BY <1>2, <2>1, <2>2, <4>1 DEF Silent
    <3>2. h = e
      BY <1>1, <2>1, <2>2
    <3>3. CASE h.instrument = {Key(s)}
      BY <3>1, <3>2, <3>3 DEF Follows, h
    <3> QED
      BY <3>2, <3>3 DEF h
  <2>3. CASE n # 1
    <3>1. n - 1 \in DOMAIN v /\ v[n - 1] = e
      <4>1. n - 1 \in 1..(Len(w) - 1) /\ (n - 1) + 1 = n
        BY <1>1, <2>3
      <4> QED
        BY <1>1, <2>1, <4>1
    <3>2. ASSUME NEW m \in DOMAIN v, n - 1 < m
          PROVE  v[m].instrument # {Key(s)}
      <4>1. n < m + 1
        BY <1>1, <3>2
      <4> QED
        BY <1>2, <2>1, <4>1
    <3>3. Carries(v, s, e)
      BY <3>1, <3>2 DEF Carries
    <3> QED
      BY <3>3 DEF Follows
  <2> QED
    BY <2>2, <2>3
<1> QED
  BY <1>3, <1>4 DEF Follows, v

----------------------------------------------------------------------------
(* The invariant of the way to the ladder. Each contract's stream and cache end   *)
(* at the venue's last word, and so does the spot.                             *)
ReferenceWire == wire["md.option_reference"]
QuoteWire == wire["md.option_quote"]
IndexWire == wire["md.index_quote"]

ReadableTickers == {f \in TickerFrames : f.id # "junk"}
TickerEntries == {TickerEntry(s, f) : s \in Symbols, f \in ReadableTickers}
BookEntries == {BookEntry(s, f) : s \in Symbols, f \in BookFrames}
SpotEntries == {SpotEntry(p) : p \in {"low", "high"}}

Entry(s, D, e) == IF s \in D THEN {e} ELSE {}

LadderTypes ==
  /\ wire = [t \in Types |-> wire[t]]
  /\ ReferenceWire \in Seq(TickerEntries) /\ QuoteWire \in Seq(BookEntries) /\ IndexWire \in Seq(SpotEntries)
  /\ DOMAIN lastTicker \subseteq Symbols
  /\ \A s \in DOMAIN lastTicker : lastTicker[s] \in ReadableTickers
  /\ DOMAIN lastBook \subseteq Symbols \cup {OddSymbol}
  /\ \A s \in DOMAIN lastBook : lastBook[s] \in BookFrames
  /\ \A r \in reference \cup quote : \E s \in Symbols : r.key = Key(s)

TickersFollow == \A s \in Symbols :
  Follows(ReferenceWire, reference, s, Entry(s, DOMAIN lastTicker, TickerEntry(s, lastTicker[s])),
          Entry(s, DOMAIN lastTicker, TickerRecord(s, lastTicker[s])))

BooksFollow == \A s \in Symbols :
  Follows(QuoteWire, quote, s, Entry(s, DOMAIN lastBook, BookEntry(s, lastBook[s])),
          Entry(s, DOMAIN lastBook, BookRecord(s, lastBook[s])))

SpotFollows ==
  \/ IndexWire = <<>> /\ spot = lastSpot
  \/ IndexWire # <<>> /\ IndexWire[Len(IndexWire)] = SpotEntry(lastSpot)

LadderInvariant == LadderTypes /\ TickersFollow /\ BooksFollow /\ SpotFollows

(* What the events of a frame leave on the three streams.                           *)
LEMMA BookOnTheWire ==
  ASSUME LadderTypes, NEW s \in Symbols, NEW f \in BookFrames, OnTheWire(Decoded("ob_l2", s, f))
  PROVE  /\ QuoteWire' = Append(QuoteWire, BookEntry(s, f)) /\ ReferenceWire' = ReferenceWire /\ IndexWire' = IndexWire
         /\ wire' = [t \in Types |-> wire'[t]]
<1> DEFINE q == QuoteEvent(Inst(s), f)
<1>1. q.type = "md.option_quote"
  BY DEF QuoteEvent, Event
<1> HIDE DEF q
<1>2. wire' = [t \in Types |-> IF \E event \in {q} : event.type = t
                              THEN Append(wire[t], Encode(CHOOSE event \in {q} : event.type = t)) ELSE wire[t]]
  BY BookDecoded DEF OnTheWire, q
<1>3. (CHOOSE event \in {q} : event.type = "md.option_quote") = q
  BY <1>1
<1>4. wire'["md.option_quote"] = Append(wire["md.option_quote"], Encode(q))
  BY <1>1, <1>2, <1>3 DEF Types
<1>5. wire'["md.option_reference"] = wire["md.option_reference"] /\ wire'["md.index_quote"] = wire["md.index_quote"]
  BY <1>1, <1>2 DEF Types
<1> QED
  BY <1>2, <1>4, <1>5 DEF QuoteWire, ReferenceWire, IndexWire, BookEntry, q

(* A ticker leaves a reference, and a spot if it has one.                   *)
LEMMA TickerOnTheWire ==
  ASSUME LadderTypes, NEW s \in Symbols, NEW f \in ReadableTickers, OnTheWire(Decoded("ticker", s, f))
  PROVE  /\ ReferenceWire' = Append(ReferenceWire, TickerEntry(s, f)) /\ QuoteWire' = QuoteWire
         /\ IndexWire' = IF PriceOf(f.spot) = "absent" THEN IndexWire ELSE Append(IndexWire, SpotEntry(PriceOf(f.spot)))
         /\ wire' = [t \in Types |-> wire'[t]]
<1> DEFINE r == ReferenceEvent(Inst(s), f)
           x == Event("md.index_quote", {}, [spot |-> PriceOf(f.spot)])
           carried == {r} \cup IndexEvents(f)
<1>1. r.type = "md.option_reference" /\ x.type = "md.index_quote"
  BY DEF ReferenceEvent, Event
<1>2. IndexEvents(f) = IF PriceOf(f.spot) = "absent" THEN {} ELSE {x}
  BY DEF IndexEvents
<1> HIDE DEF r, x
<1>3. wire' = [t \in Types |-> IF \E event \in carried : event.type = t
                              THEN Append(wire[t], Encode(CHOOSE event \in carried : event.type = t)) ELSE wire[t]]
  BY TickerDecoded DEF OnTheWire, r, ReadableTickers
<1> HIDE DEF carried
<1>4. \A event \in carried : event = r \/ (event = x /\ PriceOf(f.spot) # "absent")
  BY <1>2 DEF carried
<1>5. r \in carried /\ (PriceOf(f.spot) # "absent" => x \in carried)
  BY <1>2 DEF carried
<1>6. (CHOOSE event \in carried : event.type = "md.option_reference") = r
  BY <1>1, <1>4, <1>5
<1>7. PriceOf(f.spot) # "absent" => (CHOOSE event \in carried : event.type = "md.index_quote") = x
  BY <1>1, <1>4, <1>5
<1>8. wire'["md.option_reference"] = Append(wire["md.option_reference"], Encode(r))
  BY <1>1, <1>3, <1>5, <1>6 DEF Types
<1>9. wire'["md.option_quote"] = wire["md.option_quote"]
  BY <1>1, <1>3, <1>4 DEF Types
<1>10. PriceOf(f.spot) = "absent" => wire'["md.index_quote"] = wire["md.index_quote"]
  BY <1>1, <1>3, <1>4 DEF Types
<1>11. PriceOf(f.spot) # "absent" => wire'["md.index_quote"] = Append(wire["md.index_quote"], Encode(x))
  BY <1>1, <1>3, <1>5, <1>7 DEF Types
<1> QED
  BY <1>3, <1>8, <1>9, <1>10, <1>11 DEF QuoteWire, ReferenceWire, IndexWire, TickerEntry, SpotEntry, r, x

(* A frame without events leaves the streams alone.                         *)
LEMMA NothingOnTheWire ==
  ASSUME LadderTypes, OnTheWire({})
  PROVE  wire' = wire
BY DEF OnTheWire, LadderTypes

(* An entry is about its contract, and says what the cache will hold.            *)
LEMMA EntriesSay ==
  ASSUME NEW s \in Symbols, NEW f
  PROVE  /\ TickerEntry(s, f).instrument = {Key(s)} /\ FromWire(TickerEntry(s, f)) = ReferenceEvent(Inst(s), f)
         /\ BookEntry(s, f).instrument = {Key(s)} /\ FromWire(BookEntry(s, f)) = QuoteEvent(Inst(s), f)
         /\ TickerEntry(s, f).payload = TickerRecord(s, f).payload
         /\ BookEntry(s, f).payload = BookRecord(s, f).payload
<1>1. /\ TickerEntry(s, f).instrument = {Key(s)} /\ FromWire(TickerEntry(s, f)) = ReferenceEvent(Inst(s), f)
      /\ BookEntry(s, f).instrument = {Key(s)} /\ FromWire(BookEntry(s, f)) = QuoteEvent(Inst(s), f)
  BY Travels DEF TickerEntry, BookEntry, ReferenceEvent, QuoteEvent
<1>2. /\ TickerEntry(s, f).payload = TickerRecord(s, f).payload
      /\ BookEntry(s, f).payload = BookRecord(s, f).payload
  BY DEF TickerEntry, TickerRecord, BookEntry, BookRecord, Encode
<1> QED
  BY <1>1, <1>2

(* A frame of the book.                                                      *)
LEMMA BookStep ==
  ASSUME LadderInvariant, NEW z \in Symbols \cup {OddSymbol}, NEW f \in BookFrames, BookArrives(z, f)
  PROVE  LadderInvariant'
<1>1. /\ OnTheWire(Decoded("ob_l2", z, f)) /\ lastBook' = Remembered(lastBook, z, f)
      /\ UNCHANGED <<reference, quote, spot, lastTicker, lastSpot>>
  BY DEF BookArrives
<1>2. /\ DOMAIN lastBook' = DOMAIN lastBook \cup {z} /\ lastBook'[z] = f
      /\ \A s \in DOMAIN lastBook : s # z => lastBook'[s] = lastBook[s]
  <2> DEFINE noted == Remembered(lastBook, z, f)
  <2>1. DOMAIN noted = DOMAIN lastBook \cup {z} /\ noted[z] = f /\ \A s \in DOMAIN lastBook : s # z => noted[s] = lastBook[s]
    BY DEF Remembered
  <2>2. lastBook' = noted
    BY <1>1
  <2> HIDE DEF noted
  <2> QED
    BY <2>1, <2>2
<1>3. /\ wire' = [t \in Types |-> wire'[t]]
      /\ ReferenceWire' = ReferenceWire /\ IndexWire' = IndexWire
      /\ z \in Symbols => QuoteWire' = Append(QuoteWire, BookEntry(z, f))
      /\ z = OddSymbol => QuoteWire' = QuoteWire
  <2>1. CASE z \in Symbols
    <3>1. z # OddSymbol
      BY <2>1, SymbolParts
    <3> QED
      BY <1>1, <2>1, <3>1, BookOnTheWire DEF LadderInvariant
  <2>2. CASE z = OddSymbol
    <3>1. wire' = wire
      BY <1>1, <2>2, OddDecoded, NothingOnTheWire DEF LadderInvariant
    <3>2. z \notin Symbols
      BY <2>2, SymbolParts
    <3> QED
      BY <3>1, <3>2 DEF LadderInvariant, LadderTypes, ReferenceWire, QuoteWire, IndexWire
  <2> QED
    BY <2>1, <2>2
<1>4. LadderTypes'
  <2>1. QuoteWire' \in Seq(BookEntries)
    <3>1. z \in Symbols => BookEntry(z, f) \in BookEntries
      BY DEF BookEntries
    <3>2. QuoteWire \in Seq(BookEntries)
      BY DEF LadderInvariant, LadderTypes
    <3> QED
      BY <1>3, <3>1, <3>2, AppendFits
  <2>2. DOMAIN lastBook' \subseteq Symbols \cup {OddSymbol} /\ \A s \in DOMAIN lastBook' : lastBook'[s] \in BookFrames
    BY <1>2 DEF LadderInvariant, LadderTypes
  <2> QED
    BY <1>1, <1>3, <2>1, <2>2 DEF LadderInvariant, LadderTypes
<1>5. ASSUME NEW s \in Symbols
      PROVE  Follows(QuoteWire', quote, s, Entry(s, DOMAIN lastBook', BookEntry(s, lastBook'[s])),
                     Entry(s, DOMAIN lastBook', BookRecord(s, lastBook'[s])))
  <2>1. QuoteWire \in Seq(BookEntries)
    BY DEF LadderInvariant, LadderTypes
  <2>2. Follows(QuoteWire, quote, s, Entry(s, DOMAIN lastBook, BookEntry(s, lastBook[s])),
                Entry(s, DOMAIN lastBook, BookRecord(s, lastBook[s])))
    BY DEF LadderInvariant, BooksFollow
  <2>3. CASE s = z
    <3>1. QuoteWire' = Append(QuoteWire, BookEntry(s, f)) /\ BookEntry(s, f) \in BookEntries
      BY <1>3, <2>3 DEF BookEntries
    <3>2. Entry(s, DOMAIN lastBook', BookEntry(s, lastBook'[s])) = {BookEntry(s, f)}
      BY <1>2, <2>3 DEF Entry
    <3> QED
      BY <2>1, <3>1, <3>2, FollowsTheNewest
  <2>4. CASE s # z
    <3>1. Entry(s, DOMAIN lastBook', BookEntry(s, lastBook'[s])) = Entry(s, DOMAIN lastBook, BookEntry(s, lastBook[s]))
      BY <1>2, <2>4 DEF Entry
    <3>2. Entry(s, DOMAIN lastBook', BookRecord(s, lastBook'[s])) = Entry(s, DOMAIN lastBook, BookRecord(s, lastBook[s]))
      BY <1>2, <2>4 DEF Entry
    <3>3. CASE z \in Symbols
      <4>1. BookEntry(z, f) \in BookEntries /\ BookEntry(z, f).instrument # {Key(s)}
        BY <2>4, <3>3, EntriesSay, KeysTellApart DEF BookEntries
      <4>2. Follows(Append(QuoteWire, BookEntry(z, f)), quote, s, Entry(s, DOMAIN lastBook, BookEntry(s, lastBook[s])),
                    Entry(s, DOMAIN lastBook, BookRecord(s, lastBook[s])))
        BY <2>1, <2>2, <4>1, FollowsTheOthers
      <4> QED
        BY <1>3, <3>1, <3>2, <3>3, <4>2
    <3>4. CASE z = OddSymbol
      BY <1>3, <2>2, <3>1, <3>2, <3>4
    <3> QED
      BY <3>3, <3>4
  <2> QED
    BY <2>3, <2>4
<1>6. BooksFollow'
  BY <1>1, <1>5 DEF BooksFollow
<1>7. TickersFollow' /\ SpotFollows'
  BY <1>1, <1>3 DEF LadderInvariant, TickersFollow, SpotFollows
<1> QED
  BY <1>4, <1>6, <1>7 DEF LadderInvariant

(* A frame of the ticker.                                                    *)
LEMMA TickerStep ==
  ASSUME LadderInvariant, NEW z \in Symbols \cup {OddSymbol}, NEW f \in TickerFrames, TickerArrives(z, f)
  PROVE  LadderInvariant'
<1>1. OnTheWire(Decoded("ticker", z, f)) /\ UNCHANGED <<reference, quote, spot, lastBook>>
  BY DEF TickerArrives
<1>2. CASE f.id = "junk" \/ z = OddSymbol
  <2>1. UNCHANGED <<lastTicker, lastSpot>>
    BY <1>2 DEF TickerArrives
  <2>2. Decoded("ticker", z, f) = {}
    BY <1>2, TickerDecoded, OddDecoded
  <2>3. wire' = wire
    BY <1>1, <2>2, NothingOnTheWire DEF LadderInvariant
  <2> QED
    BY <1>1, <2>1, <2>3 DEF LadderInvariant, LadderTypes, TickersFollow, BooksFollow, SpotFollows,
                            ReferenceWire, QuoteWire, IndexWire
<1>3. CASE f.id # "junk" /\ z \in Symbols
  <2>0. z # OddSymbol /\ f \in ReadableTickers
    BY <1>3, SymbolParts DEF ReadableTickers
  <2>1. /\ lastTicker' = Remembered(lastTicker, z, f)
        /\ lastSpot' = IF f.spot \in {"low", "high"} THEN f.spot ELSE lastSpot
    BY <1>3, <2>0 DEF TickerArrives
  <2>2. /\ DOMAIN lastTicker' = DOMAIN lastTicker \cup {z} /\ lastTicker'[z] = f
        /\ \A s \in DOMAIN lastTicker : s # z => lastTicker'[s] = lastTicker[s]
    <3> DEFINE noted == Remembered(lastTicker, z, f)
    <3>1. DOMAIN noted = DOMAIN lastTicker \cup {z} /\ noted[z] = f /\ \A s \in DOMAIN lastTicker : s # z => noted[s] = lastTicker[s]
      BY DEF Remembered
    <3>2. lastTicker' = noted
      BY <2>1
    <3> HIDE DEF noted
    <3> QED
      BY <3>1, <3>2
  <2>3. /\ ReferenceWire' = Append(ReferenceWire, TickerEntry(z, f)) /\ QuoteWire' = QuoteWire
        /\ IndexWire' = IF PriceOf(f.spot) = "absent" THEN IndexWire ELSE Append(IndexWire, SpotEntry(PriceOf(f.spot)))
        /\ wire' = [t \in Types |-> wire'[t]]
    BY <1>1, <1>3, <2>0, TickerOnTheWire DEF LadderInvariant
  <2>4. TickerEntry(z, f) \in TickerEntries
    BY <1>3, <2>0 DEF TickerEntries
  <2>5. ReferenceWire \in Seq(TickerEntries) /\ IndexWire \in Seq(SpotEntries)
    BY DEF LadderInvariant, LadderTypes
  <2>6. /\ PriceOf(f.spot) \in {"absent", "low", "high"}
        /\ PriceOf(f.spot) # "absent" => lastSpot' = PriceOf(f.spot) /\ SpotEntry(PriceOf(f.spot)) \in SpotEntries
        /\ PriceOf(f.spot) = "absent" => lastSpot' = lastSpot
    <3>1. f.spot \in Spelled
      BY LadderAssumption
    <3>2. PriceOf(f.spot) = Meant(f.spot)
      BY <3>1, Meanings
    <3> QED
      BY <2>1, <3>2 DEF Meant, SpotEntries
  <2>7. IndexWire' \in Seq(SpotEntries) /\ SpotFollows'
    <3>1. CASE PriceOf(f.spot) = "absent"
      BY <1>1, <2>3, <2>5, <2>6, <3>1 DEF LadderInvariant, SpotFollows
    <3>2. CASE PriceOf(f.spot) # "absent"
      <4> DEFINE x == SpotEntry(PriceOf(f.spot))
      <4>1. x \in SpotEntries /\ IndexWire' = Append(IndexWire, x) /\ x = SpotEntry(lastSpot')
        BY <2>3, <2>6, <3>2
      <4> HIDE DEF x
      <4>2. IndexWire' \in Seq(SpotEntries) /\ Len(IndexWire') = Len(IndexWire) + 1 /\ IndexWire'[Len(IndexWire) + 1] = x /\ Len(IndexWire) \in Nat
        BY <2>5, <4>1
      <4>3. IndexWire' # <<>>
        BY <4>2
      <4> QED
        BY <4>1, <4>2, <4>3 DEF SpotFollows
    <3> QED
      BY <3>1, <3>2
  <2>8. LadderTypes'
    <3>1. ReferenceWire' \in Seq(TickerEntries)
      BY <2>3, <2>4, <2>5, AppendFits
    <3>2. DOMAIN lastTicker' \subseteq Symbols /\ \A s \in DOMAIN lastTicker' : lastTicker'[s] \in ReadableTickers
      BY <1>3, <2>0, <2>2 DEF LadderInvariant, LadderTypes
    <3> QED
      BY <1>1, <2>3, <2>7, <3>1, <3>2 DEF LadderInvariant, LadderTypes
  <2>9. ASSUME NEW s \in Symbols
        PROVE  Follows(ReferenceWire', reference, s, Entry(s, DOMAIN lastTicker', TickerEntry(s, lastTicker'[s])),
                       Entry(s, DOMAIN lastTicker', TickerRecord(s, lastTicker'[s])))
    <3>1. Follows(ReferenceWire, reference, s, Entry(s, DOMAIN lastTicker, TickerEntry(s, lastTicker[s])),
                  Entry(s, DOMAIN lastTicker, TickerRecord(s, lastTicker[s])))
      BY DEF LadderInvariant, TickersFollow
    <3>2. CASE s = z
      <4>1. Entry(s, DOMAIN lastTicker', TickerEntry(s, lastTicker'[s])) = {TickerEntry(s, f)}
        BY <2>2, <3>2 DEF Entry
      <4> QED
        BY <2>3, <2>4, <2>5, <3>2, <4>1, FollowsTheNewest
    <3>3. CASE s # z
      <4>1. Entry(s, DOMAIN lastTicker', TickerEntry(s, lastTicker'[s])) = Entry(s, DOMAIN lastTicker, TickerEntry(s, lastTicker[s]))
        BY <2>2, <3>3 DEF Entry
      <4>2. Entry(s, DOMAIN lastTicker', TickerRecord(s, lastTicker'[s])) = Entry(s, DOMAIN lastTicker, TickerRecord(s, lastTicker[s]))
        BY <2>2, <3>3 DEF Entry
      <4>3. TickerEntry(z, f).instrument # {Key(s)}
        BY <1>3, <3>3, EntriesSay, KeysTellApart
      <4>4. Follows(Append(ReferenceWire, TickerEntry(z, f)), reference, s,
                    Entry(s, DOMAIN lastTicker, TickerEntry(s, lastTicker[s])),
                    Entry(s, DOMAIN lastTicker, TickerRecord(s, lastTicker[s])))
        BY <2>4, <2>5, <3>1, <4>3, FollowsTheOthers
      <4> QED
        BY <2>3, <4>1, <4>2, <4>4
    <3> QED
      BY <3>2, <3>3
  <2>10. TickersFollow'
    BY <1>1, <2>9 DEF TickersFollow
  <2>11. BooksFollow'
    BY <1>1, <2>3 DEF LadderInvariant, BooksFollow
  <2> QED
    BY <2>7, <2>8, <2>10, <2>11 DEF LadderInvariant
<1> QED
  BY <1>2, <1>3

(* What a cache holds of each contract after one of them is applied.             *)
LEMMA NewestIsCached ==
  ASSUME NEW cache, NEW s \in Symbols, NEW payload, NEW z \in Symbols
  PROVE  /\ Cached(NewestOf(cache, Inst(s), payload), z) =
              IF z = s THEN {[key |-> Key(s), instrument |-> Inst(s), payload |-> payload]} ELSE Cached(cache, z)
         /\ \A r \in NewestOf(cache, Inst(s), payload) : r \in cache \/ r.key = Key(s)
<1> DEFINE new == [key |-> Key(s), instrument |-> Inst(s), payload |-> payload]
           N == NewestOf(cache, Inst(s), payload)
<1>1. N = {r \in cache : r.key # Key(s)} \cup {new} /\ new.key = Key(s)
  BY DEF NewestOf, Key
<1>2. z # s => Key(z) # Key(s)
  BY KeysTellApart
<1> HIDE DEF N, new
<1>3. z = s => Cached(N, z) = {new}
  BY <1>1 DEF Cached
<1>4. z # s => Cached(N, z) = Cached(cache, z)
  BY <1>1, <1>2 DEF Cached
<1>5. \A r \in N : r \in cache \/ r.key = Key(s)
  BY <1>1
<1> QED
  BY <1>3, <1>4, <1>5 DEF N, new

(* The first entry of a stream and the rest.                                *)
LEMMA TailFits ==
  ASSUME NEW S, NEW w \in Seq(S), w # <<>>
  PROVE  Head(w) \in S /\ Tail(w) \in Seq(S)
OBVIOUS

(* An entry of the tickers' stream is applied.                                *)
LEMMA TickerApplied ==
  ASSUME LadderInvariant, Applies("md.option_reference")
  PROVE  LadderInvariant'
<1> DEFINE h == Head(ReferenceWire)
<1>1. /\ ReferenceWire # <<>> /\ wire' = [wire EXCEPT !["md.option_reference"] = Tail(ReferenceWire)]
      /\ Applied(FromWire(h)) /\ UNCHANGED <<lastBook, lastTicker, lastSpot>>
  BY DEF Applies, ReferenceWire
<1>2. /\ ReferenceWire' = Tail(ReferenceWire) /\ QuoteWire' = QuoteWire /\ IndexWire' = IndexWire
      /\ wire' = [t \in Types |-> wire'[t]]
  BY <1>1 DEF LadderInvariant, LadderTypes, ReferenceWire, QuoteWire, IndexWire, Types
<1>3. ReferenceWire \in Seq(TickerEntries)
  BY DEF LadderInvariant, LadderTypes
<1>4. h \in TickerEntries /\ ReferenceWire' \in Seq(TickerEntries)
  BY <1>1, <1>2, <1>3, TailFits
<1> HIDE DEF h
<1>5. PICK s \in Symbols, f \in ReadableTickers : h = TickerEntry(s, f)
  BY <1>4 DEF TickerEntries
<1> DEFINE payload == ReferenceEvent(Inst(s), f).payload
<1>6. FromWire(h) = ReferenceEvent(Inst(s), f) /\ h.instrument = {Key(s)} /\ h.payload = payload
  BY <1>5, EntriesSay DEF TickerRecord
<1>7. reference' = NewestOf(reference, Inst(s), payload) /\ quote' = quote /\ spot' = spot
  <2>1. FromWire(h).type = "md.option_reference" /\ FromWire(h).about = {Inst(s)} /\ FromWire(h).payload = payload
    BY <1>6 DEF ReferenceEvent, Event
  <2> HIDE DEF payload
  <2> QED
    BY <1>1, <2>1 DEF Applied
<1>8. ASSUME NEW z \in Symbols
      PROVE  Follows(ReferenceWire', reference', z, Entry(z, DOMAIN lastTicker, TickerEntry(z, lastTicker[z])),
                     Entry(z, DOMAIN lastTicker, TickerRecord(z, lastTicker[z])))
  <2> DEFINE E == Entry(z, DOMAIN lastTicker, TickerEntry(z, lastTicker[z]))
             R == Entry(z, DOMAIN lastTicker, TickerRecord(z, lastTicker[z]))
  <2>1. Follows(ReferenceWire, reference, z, E, R)
    BY DEF LadderInvariant, TickersFollow
  <2>2. \A e \in E : e.instrument = {Key(z)} /\ e = TickerEntry(z, lastTicker[z]) /\ R = {TickerRecord(z, lastTicker[z])}
    BY EntriesSay DEF Entry
  <2>3. Cached(reference', z) = IF z = s THEN {TickerRecord(s, f)} ELSE Cached(reference, z)
    <3>1. TickerRecord(s, f) = [key |-> Key(s), instrument |-> Inst(s), payload |-> payload]
      BY DEF TickerRecord
    <3>2. ASSUME NEW p
          PROVE  Cached(NewestOf(reference, Inst(s), p), z) =
                   IF z = s THEN {[key |-> Key(s), instrument |-> Inst(s), payload |-> p]} ELSE Cached(reference, z)
      BY NewestIsCached
    <3> HIDE DEF payload
    <3>3. Cached(NewestOf(reference, Inst(s), payload), z) =
            IF z = s THEN {[key |-> Key(s), instrument |-> Inst(s), payload |-> payload]} ELSE Cached(reference, z)
      BY <3>2
    <3> QED
      BY <1>7, <3>1, <3>3
  <2>4. h.instrument # {Key(z)} => Cached(reference', z) = Cached(reference, z)
    BY <1>6, <2>3
  <2>5. ASSUME h.instrument = {Key(z)}, NEW e \in E, e = h
        PROVE  Cached(reference', z) = R
    <3>1. z = s
      BY <1>6, <2>5, KeysTellApart
    <3>2. h = TickerEntry(s, lastTicker[s]) /\ R = {TickerRecord(s, lastTicker[s])}
      BY <2>2, <2>5, <3>1
    <3>3. TickerRecord(s, lastTicker[s]) = TickerRecord(s, f)
      <4>1. TickerRecord(s, lastTicker[s]).payload = payload
        BY <1>6, <3>2, EntriesSay
      <4> QED
        BY <4>1 DEF TickerRecord
    <3> QED
      BY <2>3, <3>1, <3>2, <3>3
  <2> HIDE DEF E, R
  <2>6. Follows(Tail(ReferenceWire), reference', z, E, R)
    BY <1>1, <1>3, <2>1, <2>2, <2>4, <2>5, FollowsTheReader DEF h
  <2> QED
    BY <1>2, <2>6 DEF E, R
<1>9. \A r \in reference' : r \in reference \/ r.key = Key(s)
  BY <1>7, NewestIsCached
<1>10. LadderTypes'
  BY <1>1, <1>2, <1>4, <1>5, <1>7, <1>9 DEF LadderInvariant, LadderTypes
<1>11. TickersFollow'
  BY <1>1, <1>8 DEF TickersFollow
<1>12. BooksFollow' /\ SpotFollows'
  BY <1>1, <1>2, <1>7 DEF LadderInvariant, BooksFollow, SpotFollows
<1> QED
  BY <1>10, <1>11, <1>12 DEF LadderInvariant

(* An entry of the books' stream is applied.                                  *)
LEMMA BookApplied ==
  ASSUME LadderInvariant, Applies("md.option_quote")
  PROVE  LadderInvariant'
<1> DEFINE h == Head(QuoteWire)
<1>1. /\ QuoteWire # <<>> /\ wire' = [wire EXCEPT !["md.option_quote"] = Tail(QuoteWire)]
      /\ Applied(FromWire(h)) /\ UNCHANGED <<lastBook, lastTicker, lastSpot>>
  BY DEF Applies, QuoteWire
<1>2. /\ QuoteWire' = Tail(QuoteWire) /\ ReferenceWire' = ReferenceWire /\ IndexWire' = IndexWire
      /\ wire' = [t \in Types |-> wire'[t]]
  BY <1>1 DEF LadderInvariant, LadderTypes, QuoteWire, ReferenceWire, IndexWire, Types
<1>3. QuoteWire \in Seq(BookEntries)
  BY DEF LadderInvariant, LadderTypes
<1>4. h \in BookEntries /\ QuoteWire' \in Seq(BookEntries)
  BY <1>1, <1>2, <1>3, TailFits
<1> HIDE DEF h
<1>5. PICK s \in Symbols, f \in BookFrames : h = BookEntry(s, f)
  BY <1>4 DEF BookEntries
<1> DEFINE payload == QuoteEvent(Inst(s), f).payload
<1>6. FromWire(h) = QuoteEvent(Inst(s), f) /\ h.instrument = {Key(s)} /\ h.payload = payload
  BY <1>5, EntriesSay DEF BookRecord
<1>7. quote' = NewestOf(quote, Inst(s), payload) /\ reference' = reference /\ spot' = spot
  <2>1. FromWire(h).type = "md.option_quote" /\ FromWire(h).about = {Inst(s)} /\ FromWire(h).payload = payload
    BY <1>6 DEF QuoteEvent, Event
  <2> HIDE DEF payload
  <2> QED
    BY <1>1, <2>1 DEF Applied
<1>8. ASSUME NEW z \in Symbols
      PROVE  Follows(QuoteWire', quote', z, Entry(z, DOMAIN lastBook, BookEntry(z, lastBook[z])),
                     Entry(z, DOMAIN lastBook, BookRecord(z, lastBook[z])))
  <2> DEFINE E == Entry(z, DOMAIN lastBook, BookEntry(z, lastBook[z]))
             R == Entry(z, DOMAIN lastBook, BookRecord(z, lastBook[z]))
  <2>1. Follows(QuoteWire, quote, z, E, R)
    BY DEF LadderInvariant, BooksFollow
  <2>2. \A e \in E : e.instrument = {Key(z)} /\ e = BookEntry(z, lastBook[z]) /\ R = {BookRecord(z, lastBook[z])}
    BY EntriesSay DEF Entry
  <2>3. Cached(quote', z) = IF z = s THEN {BookRecord(s, f)} ELSE Cached(quote, z)
    <3>1. BookRecord(s, f) = [key |-> Key(s), instrument |-> Inst(s), payload |-> payload]
      BY DEF BookRecord
    <3> HIDE DEF payload
    <3>2. Cached(NewestOf(quote, Inst(s), payload), z) =
            IF z = s THEN {[key |-> Key(s), instrument |-> Inst(s), payload |-> payload]} ELSE Cached(quote, z)
      BY NewestIsCached
    <3> QED
      BY <1>7, <3>1, <3>2
  <2>4. h.instrument # {Key(z)} => Cached(quote', z) = Cached(quote, z)
    BY <1>6, <2>3
  <2>5. ASSUME h.instrument = {Key(z)}, NEW e \in E, e = h
        PROVE  Cached(quote', z) = R
    <3>1. z = s
      BY <1>6, <2>5, KeysTellApart
    <3>2. h = BookEntry(s, lastBook[s]) /\ R = {BookRecord(s, lastBook[s])}
      BY <2>2, <2>5, <3>1
    <3>3. BookRecord(s, lastBook[s]) = BookRecord(s, f)
      <4>1. BookRecord(s, lastBook[s]).payload = payload
        BY <1>6, <3>2, EntriesSay
      <4> QED
        BY <4>1 DEF BookRecord
    <3> QED
      BY <2>3, <3>1, <3>2, <3>3
  <2> HIDE DEF E, R
  <2>6. Follows(Tail(QuoteWire), quote', z, E, R)
    BY <1>1, <1>3, <2>1, <2>2, <2>4, <2>5, FollowsTheReader DEF h
  <2> QED
    BY <1>2, <2>6 DEF E, R
<1>9. \A r \in quote' : r \in quote \/ r.key = Key(s)
  BY <1>7, NewestIsCached
<1>10. LadderTypes'
  BY <1>1, <1>2, <1>4, <1>5, <1>7, <1>9 DEF LadderInvariant, LadderTypes
<1>11. BooksFollow'
  BY <1>1, <1>8 DEF BooksFollow
<1>12. TickersFollow' /\ SpotFollows'
  BY <1>1, <1>2, <1>7 DEF LadderInvariant, TickersFollow, SpotFollows
<1> QED
  BY <1>10, <1>11, <1>12 DEF LadderInvariant

(* An entry of the spot's stream is applied.                                  *)
LEMMA IndexApplied ==
  ASSUME LadderInvariant, Applies("md.index_quote")
  PROVE  LadderInvariant'
<1> DEFINE h == Head(IndexWire)
<1>1. /\ IndexWire # <<>> /\ wire' = [wire EXCEPT !["md.index_quote"] = Tail(IndexWire)]
      /\ Applied(FromWire(h)) /\ UNCHANGED <<lastBook, lastTicker, lastSpot>>
  BY DEF Applies, IndexWire
<1>2. /\ IndexWire' = Tail(IndexWire) /\ QuoteWire' = QuoteWire /\ ReferenceWire' = ReferenceWire
      /\ wire' = [t \in Types |-> wire'[t]]
  BY <1>1 DEF LadderInvariant, LadderTypes, ReferenceWire, QuoteWire, IndexWire, Types
<1>3. IndexWire \in Seq(SpotEntries)
  BY DEF LadderInvariant, LadderTypes
<1>4. h \in SpotEntries /\ IndexWire' \in Seq(SpotEntries)
  BY <1>1, <1>2, <1>3, TailFits
<1>5. h = IndexWire[1]
  BY <1>1, <1>3
<1> HIDE DEF h
<1>6. PICK p \in {"low", "high"} : h = SpotEntry(p)
  BY <1>4 DEF SpotEntries
<1>7. h.type = "md.index_quote" /\ h.payload.spot = p
  BY <1>6 DEF SpotEntry, Encode, Event
<1>8. FromWire(h).type = "md.index_quote" /\ FromWire(h).payload.spot = p
  BY <1>7 DEF FromWire, Event
<1>9. reference' = reference /\ quote' = quote /\ spot' = p
  BY <1>1, <1>8 DEF Applied
<1>10. LadderTypes'
  BY <1>1, <1>2, <1>4, <1>9 DEF LadderInvariant, LadderTypes
<1>11. TickersFollow' /\ BooksFollow'
  BY <1>1, <1>2, <1>9 DEF LadderInvariant, TickersFollow, BooksFollow
<1>12. SpotFollows'
  <2>1. IndexWire[Len(IndexWire)] = SpotEntry(lastSpot)
    BY <1>1 DEF LadderInvariant, SpotFollows
  <2>2. CASE Len(IndexWire) = 1
    <3>1. IndexWire' = <<>>
      BY <1>1, <1>2, <1>3, <2>2
    <3>2. SpotEntry(lastSpot).payload.spot = lastSpot
      BY DEF SpotEntry, Encode, Event
    <3>3. p = lastSpot
      BY <1>5, <1>7, <2>1, <2>2, <3>2
    <3> QED
      BY <1>1, <1>9, <3>1, <3>3 DEF SpotFollows
  <2>3. CASE Len(IndexWire) # 1
    <3>0. Len(IndexWire) \in Nat /\ Len(IndexWire) # 0
      BY <1>1, <1>3
    <3>1. Len(IndexWire) \in Nat /\ Len(IndexWire) >= 2
      <4>1. \A n \in Nat : n # 0 /\ n # 1 => n >= 2
        OBVIOUS
      <4> QED
        BY <2>3, <3>0, <4>1
    <3>2. Len(IndexWire') = Len(IndexWire) - 1
      BY <1>1, <1>2, <1>3
    <3>3. IndexWire'[Len(IndexWire) - 1] = IndexWire[(Len(IndexWire) - 1) + 1]
      BY <1>1, <1>2, <1>3, <3>1
    <3>4. IndexWire'[Len(IndexWire')] = SpotEntry(lastSpot')
      BY <1>1, <2>1, <3>1, <3>2, <3>3
    <3>5. IndexWire' # <<>>
      BY <1>4, <3>1, <3>2
    <3> QED
      BY <3>4, <3>5 DEF SpotFollows
  <2> QED
    BY <2>2, <2>3
<1> QED
  BY <1>10, <1>11, <1>12 DEF LadderInvariant

(* At the start nothing is on its way, and the cache holds what was said last.    *)
LEMMA LadderStarts == LadderInit => LadderInvariant
<1> SUFFICES ASSUME LadderInit
             PROVE  LadderInvariant
  OBVIOUS
<1>1. wire = [t \in Types |-> <<>>] /\ quote = {} /\ lastBook = <<>>
  BY DEF LadderInit
<1>2. ReferenceWire = <<>> /\ QuoteWire = <<>> /\ IndexWire = <<>>
  BY <1>1 DEF ReferenceWire, QuoteWire, IndexWire, Types
<1>3. /\ wire = [t \in Types |-> wire[t]] /\ DOMAIN lastBook = {}
      /\ ReferenceWire \in Seq(TickerEntries) /\ QuoteWire \in Seq(BookEntries) /\ IndexWire \in Seq(SpotEntries)
  BY <1>1, <1>2
<1>4. ASSUME NEW s
      PROVE  Silent(<<>>, s) /\ Cached({}, s) = {}
  BY DEF Silent, Cached
<1>5. BooksFollow
  <2>1. ASSUME NEW s \in Symbols
        PROVE  Follows(QuoteWire, quote, s, Entry(s, DOMAIN lastBook, BookEntry(s, lastBook[s])),
                       Entry(s, DOMAIN lastBook, BookRecord(s, lastBook[s])))
    <3>1. Entry(s, DOMAIN lastBook, BookRecord(s, lastBook[s])) = {}
      BY <1>3 DEF Entry
    <3>2. Silent(QuoteWire, s) /\ Cached(quote, s) = {}
      BY <1>1, <1>2, <1>4
    <3> QED
      BY <3>1, <3>2 DEF Follows
  <2> QED
    BY <2>1 DEF BooksFollow
<1>6. CASE reference = {} /\ spot = "absent" /\ lastTicker = <<>> /\ lastSpot = "absent"
  <2>1. DOMAIN lastTicker = {}
    BY <1>6
  <2>2. LadderTypes
    BY <1>1, <1>3, <1>6, <2>1 DEF LadderTypes
  <2>3. ASSUME NEW s \in Symbols
        PROVE  Follows(ReferenceWire, reference, s, Entry(s, DOMAIN lastTicker, TickerEntry(s, lastTicker[s])),
                       Entry(s, DOMAIN lastTicker, TickerRecord(s, lastTicker[s])))
    <3>1. Entry(s, DOMAIN lastTicker, TickerRecord(s, lastTicker[s])) = {}
      BY <2>1 DEF Entry
    <3>2. Silent(ReferenceWire, s) /\ Cached(reference, s) = {}
      BY <1>6, <1>2, <1>4
    <3> QED
      BY <3>1, <3>2 DEF Follows
  <2>4. TickersFollow /\ SpotFollows
    BY <1>2, <1>6, <2>3 DEF TickersFollow, SpotFollows
  <2> QED
    BY <1>5, <2>2, <2>4 DEF LadderInvariant
<1>7. ASSUME NEW f \in {g \in TickerFrames : g.id # "junk" /\ g.spot \in {"low", "high"}},
             reference = {[key |-> Canonical(i), instrument |-> i, payload |-> ReferenceEvent(i, f).payload]
                            : i \in UNION {InstrumentsOf(symbol) : symbol \in Symbols}},
             spot = f.spot, lastTicker = [symbol \in Symbols |-> f], lastSpot = f.spot
      PROVE  LadderInvariant
  <2>1. f \in ReadableTickers /\ DOMAIN lastTicker = Symbols /\ \A s \in Symbols : lastTicker[s] = f
    BY <1>7 DEF ReadableTickers
  <2>2. UNION {InstrumentsOf(symbol) : symbol \in Symbols} = {Inst(s) : s \in Symbols}
    BY OneInstrument
  <2>3. reference = {TickerRecord(s, f) : s \in Symbols}
    <3>1. reference = {[key |-> Canonical(i), instrument |-> i, payload |-> ReferenceEvent(i, f).payload]
                         : i \in {Inst(s) : s \in Symbols}}
      BY <1>7, <2>2
    <3>2. \A s \in Symbols : TickerRecord(s, f) = [key |-> Canonical(Inst(s)), instrument |-> Inst(s),
                                                   payload |-> ReferenceEvent(Inst(s), f).payload]
      BY DEF TickerRecord, Key
    <3> QED
      BY <3>1, <3>2
  <2>4. \A s \in Symbols : TickerRecord(s, f).key = Key(s)
    BY DEF TickerRecord
  <2>5. LadderTypes
    BY <1>1, <1>3, <2>1, <2>3, <2>4 DEF LadderTypes
  <2>6. ASSUME NEW s \in Symbols
        PROVE  Follows(ReferenceWire, reference, s, Entry(s, DOMAIN lastTicker, TickerEntry(s, lastTicker[s])),
                       Entry(s, DOMAIN lastTicker, TickerRecord(s, lastTicker[s])))
    <3>1. Entry(s, DOMAIN lastTicker, TickerRecord(s, lastTicker[s])) = {TickerRecord(s, f)}
      BY <2>1 DEF Entry
    <3>2. Cached(reference, s) = {TickerRecord(s, f)}
      BY <2>3, <2>4, KeysTellApart DEF Cached
    <3>3. Silent(ReferenceWire, s)
      BY <1>2, <1>4
    <3> QED
      BY <3>1, <3>2, <3>3 DEF Follows
  <2>7. TickersFollow /\ SpotFollows
    BY <1>2, <1>7, <2>6 DEF TickersFollow, SpotFollows
  <2> QED
    BY <1>5, <2>5, <2>7 DEF LadderInvariant
<1> QED
  BY <1>6, <1>7 DEF LadderInit

(* Every step keeps the invariant of the way to the ladder.                 *)
LEMMA LadderSteps == LadderInvariant /\ [LadderNext]_ladderVars => LadderInvariant'
<1> SUFFICES ASSUME LadderInvariant, [LadderNext]_ladderVars
             PROVE  LadderInvariant'
  OBVIOUS
<1>1. ASSUME NEW z \in Symbols \cup {OddSymbol}, NEW f \in BookFrames, BookArrives(z, f)
      PROVE  LadderInvariant'
  BY <1>1, BookStep
<1>2. ASSUME NEW z \in Symbols \cup {OddSymbol}, NEW f \in TickerFrames, TickerArrives(z, f)
      PROVE  LadderInvariant'
  BY <1>2, TickerStep
<1>3. ASSUME NEW type \in Types, Applies(type)
      PROVE  LadderInvariant'
  BY <1>3, TickerApplied, BookApplied, IndexApplied DEF Types
<1>4. CASE UNCHANGED ladderVars
  BY <1>4 DEF ladderVars, LadderInvariant, LadderTypes, TickersFollow, BooksFollow, SpotFollows,
              ReferenceWire, QuoteWire, IndexWire
<1> QED
  BY <1>1, <1>2, <1>3, <1>4 DEF LadderNext

(* The invariant of the way to the ladder always holds.                     *)
LEMMA LadderInvariantHolds == LadderSpec => []LadderInvariant
<1>1. LadderInit => LadderInvariant
  BY LadderStarts
<1>2. LadderInvariant /\ [LadderNext]_ladderVars => LadderInvariant'
  BY LadderSteps
<1> QED
  BY <1>1, <1>2, PTL DEF LadderSpec

(* Once every entry is read, the caches are the last words.                     *)
LEMMA AllReadCaches ==
  ASSUME LadderInvariant, AllRead
  PROVE  /\ spot = lastSpot
         /\ reference = {TickerRecord(s, lastTicker[s]) : s \in DOMAIN lastTicker}
         /\ \A s \in Symbols : Cached(quote, s) = Entry(s, DOMAIN lastBook, BookRecord(s, lastBook[s]))
<1>1. ReferenceWire = <<>> /\ QuoteWire = <<>> /\ IndexWire = <<>>
  BY DEF AllRead, Types, ReferenceWire, QuoteWire, IndexWire
<1>2. spot = lastSpot
  BY <1>1 DEF LadderInvariant, SpotFollows
<1>3. \A s, e : ~Carries(<<>>, s, e)
  BY DEF Carries
<1>4. \A s \in Symbols : Cached(reference, s) = Entry(s, DOMAIN lastTicker, TickerRecord(s, lastTicker[s]))
  BY <1>1, <1>3 DEF LadderInvariant, TickersFollow, Follows
<1>5. \A s \in Symbols : Cached(quote, s) = Entry(s, DOMAIN lastBook, BookRecord(s, lastBook[s]))
  BY <1>1, <1>3 DEF LadderInvariant, BooksFollow, Follows
<1>6. ASSUME NEW r \in reference
      PROVE  \E s \in DOMAIN lastTicker : r = TickerRecord(s, lastTicker[s])
  <2>1. PICK s \in Symbols : r.key = Key(s)
    BY DEF LadderInvariant, LadderTypes
  <2>2. r \in Entry(s, DOMAIN lastTicker, TickerRecord(s, lastTicker[s]))
    BY <1>4, <2>1 DEF Cached
  <2> QED
    BY <2>2 DEF Entry
<1>7. ASSUME NEW s \in DOMAIN lastTicker
      PROVE  TickerRecord(s, lastTicker[s]) \in reference
  <2>1. s \in Symbols
    BY DEF LadderInvariant, LadderTypes
  <2> QED
    BY <1>4, <2>1 DEF Cached, Entry
<1> QED
  BY <1>2, <1>5, <1>6, <1>7

----------------------------------------------------------------------------
(* A ladder of the legs g of the contracts D: no two of them share a strike and    *)
(* a side, so that each leg has its place and no place another leg.              *)
LegRows(D, g) == {[strike |-> s[3], side |-> SideOf(s), leg |-> g[s]] : s \in D}
LadderOf(D, g, price) == ChainFromLegs(LegRows(D, g), price)

(* Two contracts of one strike are of two sides.                            *)
LEMMA PlacesTellApart ==
  ASSUME NEW s \in Symbols, NEW z \in Symbols, s[3] = z[3], SideOf(s) = SideOf(z)
  PROVE  s = z
<1>1. s[1] \in {"C", "P"} /\ z[1] \in {"C", "P"}
  BY SymbolParts DEF Rights
<1>2. s[1] = z[1]
  BY <1>1 DEF SideOf
<1> QED
  BY <1>2, SymbolParts

HoldsTheLegs(rows, D, g) ==
  /\ \A s \in D : s[3] \in DOMAIN rows /\ SideOf(s) \in DOMAIN rows[s[3]] /\ rows[s[3]][SideOf(s)] = g[s]
  /\ \A k \in DOMAIN rows : \A x \in DOMAIN rows[k] : x \in Sides /\ \E s \in D : k = s[3] /\ x = SideOf(s)

(* The rows of a ladder hold its legs, each in its place.                   *)
LEMMA LadderHolds ==
  ASSUME NEW D \in SUBSET Symbols, NEW g, NEW price
  PROVE  HoldsTheLegs(LadderOf(D, g, price).rows, D, g)
<1> DEFINE legs == LegRows(D, g)
           strikes == {l.strike : l \in legs}
           at(k) == {l \in legs : l.strike = k}
           row(k) == [x \in {l.side : l \in at(k)} |-> (CHOOSE l \in at(k) : l.side = x).leg]
           rows == [k \in strikes |-> row(k)]
<1>1. LadderOf(D, g, price).rows = rows
  BY DEF LadderOf, ChainFromLegs
<1>2. \A l \in legs : \E s \in D : l.strike = s[3] /\ l.side = SideOf(s) /\ l.leg = g[s]
  BY DEF LegRows
<1>3. ASSUME NEW s \in D
      PROVE  \E l \in legs : l.strike = s[3] /\ l.side = SideOf(s) /\ l.leg = g[s]
  <2> DEFINE l == [strike |-> s[3], side |-> SideOf(s), leg |-> g[s]]
  <2>1. l \in legs
    BY DEF LegRows
  <2>2. l.strike = s[3] /\ l.side = SideOf(s) /\ l.leg = g[s]
    OBVIOUS
  <2> QED
    BY <2>1, <2>2
<1> HIDE DEF legs
<1>4. ASSUME NEW s \in D
      PROVE  s[3] \in DOMAIN rows /\ SideOf(s) \in DOMAIN rows[s[3]] /\ rows[s[3]][SideOf(s)] = g[s]
  <2>1. PICK l \in legs : l.strike = s[3] /\ l.side = SideOf(s) /\ l.leg = g[s]
    BY <1>3
  <2>2. s[3] \in strikes /\ l \in at(s[3])
    BY <2>1
  <2>3. SideOf(s) \in {m.side : m \in at(s[3])}
    BY <2>1, <2>2
  <2>4. \A m \in at(s[3]) : m.side = SideOf(s) => m.leg = g[s]
    <3>1. TAKE m \in at(s[3])
    <3>2. HAVE m.side = SideOf(s)
    <3>3. PICK z \in D : m.strike = z[3] /\ m.side = SideOf(z) /\ m.leg = g[z]
      BY <1>2, <3>1
    <3>4. z = s
      BY <3>1, <3>2, <3>3, PlacesTellApart
    <3> QED
      BY <3>3, <3>4
  <2>5. (CHOOSE m \in at(s[3]) : m.side = SideOf(s)).leg = g[s]
    BY <2>1, <2>2, <2>4
  <2>6. rows[s[3]] = row(s[3])
    BY <2>2
  <2> QED
    BY <2>2, <2>3, <2>5, <2>6
<1>5. ASSUME NEW k \in DOMAIN rows, NEW x \in DOMAIN rows[k]
      PROVE  x \in Sides /\ \E s \in D : k = s[3] /\ x = SideOf(s)
  <2>1. rows[k] = row(k) /\ x \in {m.side : m \in at(k)}
    OBVIOUS
  <2>2. PICK m \in at(k) : m.side = x
    BY <2>1
  <2>3. PICK s \in D : m.strike = s[3] /\ m.side = SideOf(s)
    BY <1>2, <2>2
  <2>4. k = s[3] /\ x = SideOf(s)
    BY <2>2, <2>3
  <2> QED
    BY <2>4 DEF SideOf, Sides
<1> HIDE DEF rows
<1>6. HoldsTheLegs(rows, D, g)
  BY <1>4, <1>5 DEF HoldsTheLegs
<1> QED
  BY <1>1, <1>6

(* Rows that hold the legs hold no others.                                  *)
LEMMA LegsHeld ==
  ASSUME NEW rows, NEW D, NEW g, HoldsTheLegs(rows, D, g)
  PROVE  LegsOf(rows) = {g[s] : s \in D} /\ \A k \in DOMAIN rows : DOMAIN rows[k] \subseteq Sides
<1>0. \A s \in D : s[3] \in DOMAIN rows /\ SideOf(s) \in DOMAIN rows[s[3]] /\ rows[s[3]][SideOf(s)] = g[s]
  BY DEF HoldsTheLegs
<1>1. \A k \in DOMAIN rows : \A x \in DOMAIN rows[k] : x \in Sides /\ \E s \in D : k = s[3] /\ x = SideOf(s)
  BY DEF HoldsTheLegs
<1>2. ASSUME NEW l \in LegsOf(rows)
      PROVE  l \in {g[s] : s \in D}
  <2>1. PICK k \in DOMAIN rows : l \in {rows[k][x] : x \in DOMAIN rows[k]}
    BY DEF LegsOf
  <2>2. PICK x \in DOMAIN rows[k] : l = rows[k][x]
    BY <2>1
  <2>3. PICK s \in D : k = s[3] /\ x = SideOf(s)
    BY <1>1
  <2> QED
    BY <1>0, <2>2, <2>3
<1>3. ASSUME NEW s \in D
      PROVE  g[s] \in LegsOf(rows)
  BY <1>0 DEF LegsOf
<1> QED
  BY <1>1, <1>2, <1>3

(* The legs of a ladder are those it was made of.                           *)
LEMMA LegsOfTheLadder ==
  ASSUME NEW D \in SUBSET Symbols, NEW g, NEW price
  PROVE  /\ LegsOf(LadderOf(D, g, price).rows) = {g[s] : s \in D}
         /\ \A k \in DOMAIN LadderOf(D, g, price).rows : DOMAIN LadderOf(D, g, price).rows[k] \subseteq Sides
<1> DEFINE rows == LadderOf(D, g, price).rows
<1>1. HoldsTheLegs(rows, D, g)
  BY LadderHolds
<1> HIDE DEF rows
<1>2. LegsOf(rows) = {g[s] : s \in D} /\ \A k \in DOMAIN rows : DOMAIN rows[k] \subseteq Sides
  BY <1>1, LegsHeld
<1> QED
  BY <1>2 DEF rows

----------------------------------------------------------------------------
(* What the ladder shows once every entry is read: the leg of a contract.          *)
BooksOf(s) == IF s \in DOMAIN lastBook THEN {QuoteEvent(Inst(s), lastBook[s]).payload} ELSE {}
Leg(s) == LegFromEvents(Inst(s), ReferenceEvent(Inst(s), lastTicker[s]).payload, BooksOf(s))
Legs == [s \in DOMAIN lastTicker |-> Leg(s)]

(* The raw ladder is made of one leg for each contract with a readable ticker. *)
LEMMA TheLadderShown ==
  ASSUME LadderInvariant, AllRead
  PROVE  RawChain = LadderOf(DOMAIN lastTicker, Legs, spot) /\ DOMAIN lastTicker \in SUBSET Symbols
<1> DEFINE legOf(r) == LegFromEvents(r.instrument, r.payload, {q.payload : q \in {p \in quote : p.key = r.key}})
           atPlace(r) == [strike |-> r.instrument.strike, side |-> Side(r.instrument), leg |-> legOf(r)]
           place(s) == [strike |-> s[3], side |-> SideOf(s), leg |-> Legs[s]]
<1>1. DOMAIN lastTicker \in SUBSET Symbols
  BY DEF LadderInvariant, LadderTypes
<1>2. reference = {TickerRecord(s, lastTicker[s]) : s \in DOMAIN lastTicker}
  BY AllReadCaches
<1>3. ASSUME NEW s \in DOMAIN lastTicker
      PROVE  atPlace(TickerRecord(s, lastTicker[s])) = place(s)
  <2> DEFINE r == TickerRecord(s, lastTicker[s])
  <2>1. /\ r.key = Key(s) /\ r.instrument = Inst(s)
        /\ r.payload = ReferenceEvent(Inst(s), lastTicker[s]).payload
    BY DEF TickerRecord
  <2>2. Inst(s).strike = s[3] /\ Side(Inst(s)) = SideOf(s)
    BY DEF Inst, Side, SideOf
  <2>3. {p \in quote : p.key = Key(s)} = Entry(s, DOMAIN lastBook, BookRecord(s, lastBook[s]))
    BY <1>1, AllReadCaches DEF Cached
  <2>4. {q.payload : q \in Entry(s, DOMAIN lastBook, BookRecord(s, lastBook[s]))} = BooksOf(s)
    <3>1. BookRecord(s, lastBook[s]).payload = QuoteEvent(Inst(s), lastBook[s]).payload
      BY DEF BookRecord
    <3> QED
      BY <3>1 DEF Entry, BooksOf
  <2> HIDE DEF r
  <2>5. legOf(r) = Leg(s)
    BY <2>1, <2>3, <2>4 DEF Leg
  <2>6. Legs[s] = Leg(s)
    BY DEF Legs
  <2> QED
    BY <2>1, <2>2, <2>5, <2>6 DEF r
<1>4. RawChain = ChainFromLegs({atPlace(r) : r \in reference}, spot)
  BY DEF RawChain
<1> HIDE DEF atPlace, place
<1>5. {atPlace(r) : r \in reference} = {place(s) : s \in DOMAIN lastTicker}
  BY <1>2, <1>3
<1>6. {place(s) : s \in DOMAIN lastTicker} = LegRows(DOMAIN lastTicker, Legs)
  BY DEF place, LegRows
<1> QED
  BY <1>1, <1>4, <1>5, <1>6 DEF LadderOf

(* A leg says what the venue's last frames say of it.                           *)
Quoted(s) == s \in DOMAIN lastBook /\ {Meant(lastBook[s].bid), Meant(lastBook[s].ask)} # {"absent"}
Top(s) == IF Quoted(s) THEN <<lastBook[s].bid, lastBook[s].ask>> ELSE <<lastTicker[s].bid, lastTicker[s].ask>>

(* Its figures are the last frames, and a snapshot has the same.            *)
LEMMA ALegSays ==
  ASSUME LadderInvariant, NEW s \in DOMAIN lastTicker
  PROVE  /\ Leg(s).symbol = s /\ Leg(s).bid = Meant(Top(s)[1]) /\ Leg(s).ask = Meant(Top(s)[2])
         /\ Leg(s).oi = Counted(lastTicker[s].oi)
         /\ s \notin DOMAIN lastBook => Leg(s) = BuildLeg(s, lastTicker[s])
<1> DEFINE t == lastTicker[s]
           r == ReferenceEvent(Inst(s), t).payload
           b == lastBook[s]
           q == QuoteEvent(Inst(s), b).payload
           top == BookOverTicker(r, BooksOf(s))
<1>1. s \in Symbols /\ t \in TickerFrames /\ t.id # "junk"
  BY DEF LadderInvariant, LadderTypes, ReadableTickers
<1>2. t.id \in Spelled /\ t.bid \in Spelled /\ t.ask \in Spelled /\ t.oi \in Spelled
  BY <1>1, LadderAssumption
<1>3. /\ r.bid = Meant(t.bid) /\ r.ask = Meant(t.ask) /\ r.oi = Counted(t.oi) /\ r.productId = TextNumber(t.id)
  <2>1. r.bid = PriceOf(t.bid) /\ r.ask = PriceOf(t.ask) /\ r.oi = Finite(ToNumber(t.oi)) /\ r.productId = ToNumber(t.id)
    BY DEF ReferenceEvent, Event
  <2> QED
    BY <1>1, <1>2, <2>1, Meanings
<1>4. s \in DOMAIN lastBook => q.bid = Meant(b.bid) /\ q.ask = Meant(b.ask)
  <2>1. q.bid = PriceOf(b.bid) /\ q.ask = PriceOf(b.ask)
    BY DEF QuoteEvent, Event
  <2>2. s \in DOMAIN lastBook => b \in BookFrames
    BY DEF LadderInvariant, LadderTypes
  <2>3. s \in DOMAIN lastBook => b.bid \in Spelled /\ b.ask \in Spelled
    BY <2>2, LadderAssumption
  <2> QED
    BY <2>1, <2>3, Meanings
<1>5. Inst(s).venueSymbol = s
  BY DEF Inst
<1> HIDE DEF r, q, t, b
<1>6. BooksOf(s) = IF s \in DOMAIN lastBook THEN {q} ELSE {}
  BY DEF BooksOf, q, b
<1>7. Quoting(BooksOf(s)) = IF Quoted(s) THEN {q} ELSE {}
  BY <1>4, <1>6 DEF Quoting, Quoted, b
<1>8. top.bid = Meant(Top(s)[1]) /\ top.ask = Meant(Top(s)[2])
  <2>1. CASE Quoted(s)
    <3>1. s \in DOMAIN lastBook /\ Top(s) = <<b.bid, b.ask>>
      BY <2>1 DEF Quoted, Top, b
    <3>2. top = [bid |-> q.bid, ask |-> q.ask]
      BY <1>7, <2>1 DEF BookOverTicker
    <3> QED
      BY <1>4, <3>1, <3>2
  <2>2. CASE ~Quoted(s)
    <3>1. Top(s) = <<t.bid, t.ask>>
      BY <2>2 DEF Top, t
    <3>2. top = [bid |-> r.bid, ask |-> r.ask]
      BY <1>7, <2>2 DEF BookOverTicker
    <3> QED
      BY <1>3, <3>1, <3>2
  <2> QED
    BY <2>1, <2>2
<1>9. Leg(s) = [symbol |-> s, productId |-> r.productId, bid |-> top.bid, ask |-> top.ask, oi |-> r.oi]
  BY <1>5 DEF Leg, LegFromEvents, r, t
<1>10. s \notin DOMAIN lastBook => Leg(s) = BuildLeg(s, t)
  <2>1. SUFFICES ASSUME s \notin DOMAIN lastBook
                 PROVE  Leg(s) = BuildLeg(s, t)
    OBVIOUS
  <2>2. Top(s) = <<t.bid, t.ask>>
    BY <2>1 DEF Top, Quoted, t
  <2>3. top.bid = TextQuote(t.bid) /\ top.ask = TextQuote(t.ask) /\ r.oi = TextNumber(t.oi)
    BY <1>2, <1>3, <1>8, <2>2, Meanings
  <2> HIDE DEF top
  <2> QED
    BY <1>3, <1>9, <2>3 DEF BuildLeg
<1> HIDE DEF top
<1> QED
  BY <1>3, <1>8, <1>9, <1>10 DEF t

(* The first part of the property follows from the invariant.               *)
LEMMA TheLadderSays ==
  ASSUME LadderInvariant
  PROVE  LadderSaysWhatTheVenueSaid
<1> SUFFICES ASSUME AllRead
             PROVE  /\ RawChain.spot = lastSpot
                    /\ {<<l.symbol, l.bid, l.ask, l.oi>> : l \in LegsOf(RawChain.rows)} =
                         {<<s, Meant(Top(s)[1]), Meant(Top(s)[2]), Counted(lastTicker[s].oi)>> : s \in DOMAIN lastTicker}
                    /\ lastBook = <<>> => RawChain = BuildChain(lastTicker, spot)
  BY DEF LadderSaysWhatTheVenueSaid, Top, Quoted
<1> DEFINE D == DOMAIN lastTicker
<1>1. RawChain = LadderOf(D, Legs, spot) /\ D \in SUBSET Symbols
  BY TheLadderShown
<1>2. RawChain.spot = lastSpot
  <2>1. LadderOf(D, Legs, spot).spot = spot
    BY DEF LadderOf, ChainFromLegs
  <2> QED
    BY <1>1, <2>1, AllReadCaches
<1>3. {<<l.symbol, l.bid, l.ask, l.oi>> : l \in LegsOf(RawChain.rows)} =
        {<<s, Meant(Top(s)[1]), Meant(Top(s)[2]), Counted(lastTicker[s].oi)>> : s \in D}
  <2>1. LegsOf(RawChain.rows) = {Legs[s] : s \in D}
    BY <1>1, LegsOfTheLadder
  <2>2. \A s \in D : /\ Legs[s].symbol = s /\ Legs[s].bid = Meant(Top(s)[1]) /\ Legs[s].ask = Meant(Top(s)[2])
                     /\ Legs[s].oi = Counted(lastTicker[s].oi)
    BY ALegSays DEF Legs
  <2> QED
    BY <2>1, <2>2
<1>4. ASSUME lastBook = <<>>
      PROVE  RawChain = BuildChain(lastTicker, spot)
  <2>1. DOMAIN lastBook = {}
    BY <1>4
  <2>2. \A s \in D : Legs[s] = BuildLeg(s, lastTicker[s])
    BY <2>1, ALegSays DEF Legs
  <2>3. LegRows(D, Legs) = {[strike |-> s[3], side |-> IF s[1] = "C" THEN "call" ELSE "put",
                             leg |-> BuildLeg(s, lastTicker[s])] : s \in D}
    BY <2>2 DEF LegRows, SideOf
  <2> QED
    BY <1>1, <2>3 DEF BuildChain, LadderOf
<1> QED
  BY <1>2, <1>3, <1>4

----------------------------------------------------------------------------
(* What a leg is given by the solver, whatever the arithmetic finds.              *)
Given(chain, k, o) == Computed(chain, ForwardFit(chain, o), k, o)

(* The empty reason, of a leg that is solved.                                   *)
Unexplained(c) == c.reason = ""
Reasons == {"no forward", "expired", "no quote", "no leg", "no solution"}

(* A leg that is given a reason is given no figure.                         *)
LEMMA GivenNothing ==
  ASSUME NEW leg, NEW reason \in Reasons
  PROVE  /\ Unpriced(leg, reason).iv = {} /\ Unpriced(leg, reason).greeks = "absent"
         /\ ~Unexplained(Unpriced(leg, reason))
<1>1. Unpriced(leg, reason).iv = {} /\ Unpriced(leg, reason).greeks = "absent" /\ Unpriced(leg, reason).reason = reason
  BY DEF Unpriced
<1>2. reason # ""
  BY Zenon DEF Reasons
<1> QED
  BY <1>1, <1>2, Zenon DEF Unexplained

(* A leg that is given a figure is given its Greeks and no reason.          *)
LEMMA GivenAFigure ==
  ASSUME NEW leg, NEW strike
  PROVE  /\ Priced(leg, strike).iv # {} /\ Priced(leg, strike).ivLeg = leg
         /\ Priced(leg, strike).greeks # "absent" /\ Unexplained(Priced(leg, strike))
BY DEF Priced, Unexplained

(* A figure needs a forward and a leg quoted on both sides.                 *)
LEMMA GivenToALeg ==
  ASSUME NEW chain, NEW o, NEW k, NEW c, c = Given(chain, k, o)
  PROVE  /\ c.iv # {} => /\ Enrich(chain, o).forward # {} /\ c.ivLeg \in DOMAIN chain.rows[k]
                         /\ chain.rows[k][c.ivLeg].bid # "absent" /\ chain.rows[k][c.ivLeg].ask # "absent"
         /\ (c.iv = {}) <=> (c.greeks = "absent")
         /\ (c.iv = {}) <=> ~Unexplained(c)
<1> DEFINE fit == ForwardFit(chain, o)
           forward == CHOOSE f \in fit.forward : TRUE
           side == OutOfTheMoney(k, forward)
           solved == fit.trusted /\ fit.forward # {} /\ o.years
<1>1. Enrich(chain, o).forward = IF solved THEN fit.forward ELSE {}
  BY DEF Enrich
<1>2. CASE ~solved
  <2>1. c = Unpriced("none", IF o.years THEN "no forward" ELSE "expired")
    BY <1>2 DEF Computed, Given, fit
  <2>2. c.iv = {} /\ c.greeks = "absent" /\ ~Unexplained(c)
    <3> HIDE DEF fit, forward, side, solved
    <3> QED
      BY <2>1, GivenNothing DEF Reasons
  <2> QED
    BY <2>2
<1>3. CASE solved /\ ~QuotedBoth(chain.rows[k], side)
  <2>1. c = Unpriced(side, IF side \in DOMAIN chain.rows[k] THEN "no quote" ELSE "no leg")
    BY <1>3 DEF Computed, ComputedAt, Given, fit
  <2>2. c.iv = {} /\ c.greeks = "absent" /\ ~Unexplained(c)
    <3> HIDE DEF fit, forward, side, solved
    <3> QED
      BY <2>1, GivenNothing DEF Reasons
  <2> QED
    BY <2>2
<1>4. CASE solved /\ QuotedBoth(chain.rows[k], side) /\ ~o.converges
  <2>1. c = Unpriced(side, "no solution")
    BY <1>4 DEF Computed, ComputedAt, Given, fit
  <2>2. c.iv = {} /\ c.greeks = "absent" /\ ~Unexplained(c)
    <3> HIDE DEF fit, forward, side, solved
    <3> QED
      BY <2>1, GivenNothing DEF Reasons
  <2> QED
    BY <2>2
<1>5. CASE solved /\ QuotedBoth(chain.rows[k], side) /\ o.converges
  <2>1. c = Priced(side, k)
    BY <1>5 DEF Computed, ComputedAt, Given, fit
  <2>2. c.iv # {} /\ c.ivLeg = side /\ c.greeks # "absent" /\ Unexplained(c)
    <3> HIDE DEF fit, forward, side, solved
    <3> QED
      BY <2>1, GivenAFigure
  <2>3. side \in DOMAIN chain.rows[k] /\ chain.rows[k][side].bid # "absent" /\ chain.rows[k][side].ask # "absent"
    <3> HIDE DEF side
    <3> QED
      BY <1>5 DEF QuotedBoth
  <2>4. Enrich(chain, o).forward # {}
    BY <1>1, <1>5
  <2> HIDE DEF side
  <2> QED
    BY <2>2, <2>3, <2>4
<1> QED
  BY <1>2, <1>3, <1>4, <1>5

(* An enriched ladder has the places of the raw one, and one figure for a strike.    *)
LEMMA Enriched ==
  ASSUME NEW chain, NEW o, NEW rows, rows = Enrich(chain, o).rows
  PROVE  /\ DOMAIN rows = DOMAIN chain.rows
         /\ \A k \in DOMAIN rows : /\ DOMAIN rows[k] = DOMAIN chain.rows[k]
                                   /\ \A s \in DOMAIN rows[k] : rows[k][s].leg = chain.rows[k][s] /\ rows[k][s].computed = Given(chain, k, o)
<1>1. rows = [k \in DOMAIN chain.rows |-> [s \in DOMAIN chain.rows[k] |->
                [leg |-> chain.rows[k][s], computed |-> Given(chain, k, o)]]]
  BY DEF Enrich, Given
<1> QED
  BY <1>1

(* The store is told the same through the bus, whose event carries a call and a     *)
(* put for each strike, or none.                                             *)
LEMMA TicksTravel ==
  ASSUME NEW chain, \A k \in DOMAIN chain.rows : DOMAIN chain.rows[k] \subseteq Sides
  PROVE  ComputedTicksFromChain(chain) = ComputedTicksFromEvent(ComputedChainEvent(chain))
<1> DEFINE event == ComputedChainEvent(chain)
           carried(k, s) == [symbol |-> chain.rows[k][s].leg.symbol, computed |-> chain.rows[k][s].computed]
           strike(k) == [s \in Sides |-> IF s \in DOMAIN chain.rows[k] THEN {carried(k, s)} ELSE {}]
           travelling == UNION {t["call"] \cup t["put"] : t \in event.strikes}
           tick(l) == [symbol |-> l.symbol, iv |-> l.computed.iv, ivLeg |-> l.computed.ivLeg,
                       greeks |-> l.computed.greeks, reason |-> ReasonStored(l.computed.reason),
                       forward |-> event.forward, method |-> event.method]
<1>1. /\ event.forward = chain.forward /\ event.method = chain.method
      /\ event.strikes = {strike(k) : k \in DOMAIN chain.rows}
  BY DEF ComputedChainEvent
<1>2. ComputedTicksFromEvent(event) = {tick(l) : l \in travelling}
  BY DEF ComputedTicksFromEvent
<1>3. \A k, s : tick(carried(k, s)) = StoredTick(chain.rows[k][s].leg.symbol, chain.rows[k][s].computed, chain)
  BY <1>1 DEF StoredTick
<1> HIDE DEF event, tick, carried
<1>4. \A k \in DOMAIN chain.rows, s \in Sides :
        strike(k)[s] = IF s \in DOMAIN chain.rows[k] THEN {carried(k, s)} ELSE {}
  OBVIOUS
<1> HIDE DEF strike
<1>5. ASSUME NEW l \in travelling
      PROVE  \E k \in DOMAIN chain.rows : \E s \in DOMAIN chain.rows[k] : l = carried(k, s)
  <2>1. PICK t \in event.strikes : l \in t["call"] \/ l \in t["put"]
    OBVIOUS
  <2>2. PICK k \in DOMAIN chain.rows : t = strike(k)
    BY <1>1
  <2>3. PICK s \in Sides : l \in strike(k)[s]
    BY <2>1, <2>2 DEF Sides
  <2>4. s \in DOMAIN chain.rows[k] /\ l = carried(k, s)
    <3>1. strike(k)[s] = IF s \in DOMAIN chain.rows[k] THEN {carried(k, s)} ELSE {}
      BY <1>4, <2>2
    <3> QED
      BY <2>3, <3>1
  <2> QED
    BY <2>2, <2>4
<1>6. ASSUME NEW k \in DOMAIN chain.rows, NEW s \in DOMAIN chain.rows[k]
      PROVE  carried(k, s) \in travelling
  <2>1. s \in Sides /\ strike(k) \in event.strikes /\ carried(k, s) \in strike(k)[s]
    BY <1>1, <1>4
  <2>2. carried(k, s) \in strike(k)["call"] \cup strike(k)["put"]
    BY <2>1 DEF Sides
  <2> QED
    BY <2>1, <2>2
<1> HIDE DEF travelling
<1>7. ASSUME NEW x \in ComputedTicksFromChain(chain)
      PROVE  x \in {tick(l) : l \in travelling}
  <2>1. PICK l \in LegsOf(chain.rows) : x = StoredTick(l.leg.symbol, l.computed, chain)
    BY DEF ComputedTicksFromChain
  <2>2. PICK k \in DOMAIN chain.rows : l \in {chain.rows[k][s] : s \in DOMAIN chain.rows[k]}
    BY DEF LegsOf
  <2>3. PICK s \in DOMAIN chain.rows[k] : l = chain.rows[k][s]
    BY <2>2
  <2>4. x = tick(carried(k, s))
    BY <1>3, <2>1, <2>3
  <2> QED
    BY <1>6, <2>4
<1>8. ASSUME NEW x \in {tick(l) : l \in travelling}
      PROVE  x \in ComputedTicksFromChain(chain)
  <2>1. PICK l \in travelling : x = tick(l)
    OBVIOUS
  <2>2. PICK k \in DOMAIN chain.rows : \E s \in DOMAIN chain.rows[k] : l = carried(k, s)
    BY <1>5
  <2>3. PICK s \in DOMAIN chain.rows[k] : l = carried(k, s)
    BY <2>2
  <2>4. chain.rows[k][s] \in LegsOf(chain.rows)
    BY DEF LegsOf
  <2>5. x = StoredTick(chain.rows[k][s].leg.symbol, chain.rows[k][s].computed, chain)
    BY <1>3, <2>1, <2>3
  <2> QED
    BY <2>4, <2>5 DEF ComputedTicksFromChain
<1>9. ComputedTicksFromChain(chain) = {tick(l) : l \in travelling}
  BY <1>7, <1>8
<1> QED
  BY <1>2, <1>9 DEF event

(* So does the second.                                                      *)
LEMMA TheFiguresTravel ==
  ASSUME LadderInvariant
  PROVE  FiguresTravel
<1> SUFFICES ASSUME AllRead, NEW o \in Outcomes
             PROVE  LET chain == Enrich(RawChain, o)
                    IN /\ \A k \in DOMAIN chain.rows : \A s \in DOMAIN chain.rows[k] :
                            LET c == chain.rows[k][s].computed
                            IN /\ c.iv # {} => /\ chain.forward # {} /\ c.ivLeg \in DOMAIN chain.rows[k]
                                               /\ "absent" \notin {chain.rows[k][c.ivLeg].leg.bid, chain.rows[k][c.ivLeg].leg.ask}
                               /\ (c.iv = {}) = (c.greeks = "absent") /\ (c.iv = {}) = (c.reason # "")
                               /\ \A r \in DOMAIN chain.rows[k] : chain.rows[k][r].computed = c
                       /\ ComputedTicksFromChain(chain) = ComputedTicksFromEvent(ComputedChainEvent(chain))
  BY DEF FiguresTravel
<1> DEFINE chain == Enrich(RawChain, o)
           raw == RawChain
<1>1. raw = LadderOf(DOMAIN lastTicker, Legs, spot) /\ DOMAIN lastTicker \in SUBSET Symbols
  BY TheLadderShown
<1>2. \A k \in DOMAIN raw.rows : DOMAIN raw.rows[k] \subseteq Sides
  BY <1>1, LegsOfTheLadder
<1>3. /\ DOMAIN chain.rows = DOMAIN raw.rows
      /\ \A k \in DOMAIN chain.rows :
           /\ DOMAIN chain.rows[k] = DOMAIN raw.rows[k]
           /\ \A s \in DOMAIN chain.rows[k] :
                chain.rows[k][s].leg = raw.rows[k][s] /\ chain.rows[k][s].computed = Given(raw, k, o)
  BY Enriched
<1>4. ASSUME NEW k, NEW c, c = Given(raw, k, o)
      PROVE  /\ c.iv # {} => /\ chain.forward # {} /\ c.ivLeg \in DOMAIN raw.rows[k]
                             /\ raw.rows[k][c.ivLeg].bid # "absent" /\ raw.rows[k][c.ivLeg].ask # "absent"
             /\ (c.iv = {}) <=> (c.greeks = "absent")
             /\ (c.iv = {}) <=> ~Unexplained(c)
  BY <1>4, GivenToALeg
<1> HIDE DEF chain, raw
<1>5. ASSUME NEW k \in DOMAIN chain.rows, NEW s \in DOMAIN chain.rows[k]
      PROVE  LET c == chain.rows[k][s].computed
             IN /\ c.iv # {} => /\ chain.forward # {} /\ c.ivLeg \in DOMAIN chain.rows[k]
                                /\ "absent" \notin {chain.rows[k][c.ivLeg].leg.bid, chain.rows[k][c.ivLeg].leg.ask}
                /\ (c.iv = {}) = (c.greeks = "absent") /\ (c.iv = {}) = (c.reason # "")
                /\ \A r \in DOMAIN chain.rows[k] : chain.rows[k][r].computed = c
  <2> DEFINE c == Given(raw, k, o)
  <2> HIDE DEF c
  <2>1. /\ DOMAIN chain.rows[k] = DOMAIN raw.rows[k]
        /\ \A r \in DOMAIN chain.rows[k] : chain.rows[k][r].computed = c /\ chain.rows[k][r].leg = raw.rows[k][r]
    BY <1>3 DEF c
  <2>2. /\ c.iv # {} => /\ chain.forward # {} /\ c.ivLeg \in DOMAIN raw.rows[k]
                        /\ raw.rows[k][c.ivLeg].bid # "absent" /\ raw.rows[k][c.ivLeg].ask # "absent"
        /\ (c.iv = {}) <=> (c.greeks = "absent")
        /\ (c.iv = {}) <=> ~Unexplained(c)
    <3>1. c = Given(raw, k, o)
      BY DEF c
    <3> QED
      BY <1>4, <3>1
  <2>3. c.iv # {} => /\ chain.forward # {} /\ c.ivLeg \in DOMAIN chain.rows[k]
                     /\ "absent" \notin {chain.rows[k][c.ivLeg].leg.bid, chain.rows[k][c.ivLeg].leg.ask}
    BY <2>1, <2>2
  <2>4. (c.iv = {}) = (c.greeks = "absent") /\ (c.iv = {}) = (c.reason # "")
    BY <2>2, Zenon DEF Unexplained
  <2>5. chain.rows[k][s].computed = c
    BY <2>1
  <2> QED
    BY <2>1, <2>3, <2>4, <2>5
<1>6. ComputedTicksFromChain(chain) = ComputedTicksFromEvent(ComputedChainEvent(chain))
  <2>1. \A k \in DOMAIN chain.rows : DOMAIN chain.rows[k] \subseteq Sides
    BY <1>2, <1>3
  <2> QED
    BY <2>1, TicksTravel
<1> QED
  BY <1>5, <1>6 DEF chain, raw

(* Once every entry is read, the ladder is what the venue said last of each         *)
(* contract and of the spot, a strike shows one figure, and the store is told what    *)
(* is shown: adapters/delta.py to stream.py, chain.py, compute.py and the ticks of    *)
(* bars.py, for any set of strikes, any frames and any number of them.             *)
THEOREM TheLadderIsTrue == LadderSpec => []LadderIsTrue
<1>1. LadderInvariant => LadderIsTrue
  BY TheLadderSays, TheFiguresTravel DEF LadderIsTrue
<1> QED
  BY <1>1, LadderInvariantHolds, PTL
=============================================================================
