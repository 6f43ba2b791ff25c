----------------------------- MODULE Volatility -----------------------------
(***************************************************************************)
(* realised_vol.py, iv_index.py, volatility.py and the two routes over them:  *)
(* what the chart of implied against realised volatility answers while the    *)
(* store grows under it by one minute at a time.                            *)
(*                                                                         *)
(* Time counts minutes. A price p stands for 2^p, so that the logarithm of a   *)
(* ratio is a difference and a simple return a power of two; floating-point    *)
(* rounding is left out. A volatility is kept as the fraction <<num, den>> its *)
(* square is, which carries every comparison and needs no root, and a constant *)
(* factor common to all the terms of one estimator is dropped.               *)
(***************************************************************************)
EXTENDS Integers, FiniteSets, Sequences, FiniteSetsExt

CONSTANTS
  Rows,             \* what a minute may store: a set of at most one bar, and of one board
  Candles,          \* the venue's candles a backfill may bring
  Intervals,        \* INTERVALS, in minutes
  Estimators,       \* the names asked for, of ESTIMATORS
  MinObservations,  \* MIN_OBSERVATIONS
  MinExpiry,        \* MIN_EXPIRY_DAYS, in minutes
  MaxPoints,        \* max_points
  LastExpiry,       \* bound: the last expiry of any board, in minutes
  MaxPrice,         \* bound: the largest price
  Horizon           \* bound: minutes recorded

ReturnEstimators == {"simple", "log"}
RangeEstimators == {"parkinson", "garman_klass", "rogers_satchell"}

(* A bar is [open, high, low, close]; a board is expiry -> [forward, smile].  *)
Bars == UNION {row.bar : row \in Rows}
Boards == UNION {row.board : row \in Rows}

(* A smile's volatilities divide by every gap between strikes, so that the   *)
(* interpolation between two of them is a whole number.                     *)
ASSUME VolatilityAssumption ==
  /\ \A row \in Rows : Cardinality(row.bar) <= 1 /\ Cardinality(row.board) <= 1
  /\ Bars \cup Candles \subseteq [open : 0..MaxPrice, high : 0..MaxPrice, low : 0..MaxPrice, close : 0..MaxPrice]
  /\ \A b \in Bars \cup Candles : b.low <= Min({b.open, b.close}) /\ b.high >= Max({b.open, b.close})
  /\ \A board \in Boards : DOMAIN board \subseteq 0..LastExpiry
  /\ \A board \in Boards : \A e \in DOMAIN board :
       /\ board[e].forward \in Nat
       /\ DOMAIN board[e].smile \subseteq Nat /\ \A k \in DOMAIN board[e].smile : board[e].smile[k] \in Nat
       /\ \A k, l \in DOMAIN board[e].smile : k < l => board[e].smile[k] % (l - k) = 0
  /\ Intervals \subseteq Nat \ {0} /\ 1 \in Intervals
  /\ Estimators \subseteq ReturnEstimators \cup RangeEstimators
  /\ {MinObservations, MinExpiry, MaxPoints} \subseteq Nat \ {0}
  /\ {LastExpiry, MaxPrice, Horizon} \subseteq Nat

VARIABLES
  minute,  \* the next minute the store will hold
  spot,    \* spot-bars: the rows with four prices, by minute
  index,   \* index-bars: what the backfill tool stored, by minute
  ivs      \* computed-bars: the solved chains, by minute

chartVars == <<minute, spot, index, ivs>>

ChartInit == minute = 0 /\ spot = <<>> /\ index = <<>> /\ ivs = <<>>

With(f, x, V) == IF V = {} THEN f
                 ELSE [y \in DOMAIN f \cup {x} |-> IF y = x THEN CHOOSE v \in V : TRUE ELSE f[y]]
Stored(f, S) == [x \in DOMAIN f \cap S |-> f[x]]

(* The store seals a minute: with its bar and its board, or without either,  *)
(* when nothing arrived or nothing solved.                                  *)
Seal == \E row \in Rows :
  /\ minute < Horizon
  /\ minute' = minute + 1
  /\ spot' = With(spot, minute, row.bar)
  /\ ivs' = With(ivs, minute, row.board)
  /\ UNCHANGED index

(* tools/backfill_index_bars.py: the venue's candles for a range of minutes.  *)
Backfill == \E from \in 0..minute, candle \in Candles :
  /\ from < minute /\ DOMAIN index = {}
  /\ index' = [m \in from..(minute - 1) |-> candle]
  /\ UNCHANGED <<minute, spot, ivs>>

ChartNext == Seal \/ Backfill
ChartSpec == ChartInit /\ [][ChartNext]_chartVars

----------------------------------------------------------------------------
(* resample: buckets aligned to the epoch; a bucket with no bars has no bar. *)
BucketOf(bars, m, interval) == m \div interval

Resample(bars, interval) ==
  LET key(m) == BucketOf(bars, m, interval)
      group(k) == {m \in DOMAIN bars : key(m) = k}
  IN [at \in {interval * key(m) : m \in DOMAIN bars} |->
        LET g == group(at \div interval) IN
        [open  |-> bars[Min(g)].open,
         high  |-> Max({bars[m].high : m \in g}),
         low   |-> Min({bars[m].low : m \in g}),
         close |-> bars[Max(g)].close]]

(* _adjacent_pairs, each under its earlier bar's stamp.                      *)
Apart(later, earlier, interval) == later - earlier = interval

AdjacentPairs(bars, interval) ==
  {p \in (DOMAIN bars) \X (DOMAIN bars) :
     /\ p[1] < p[2] /\ \A k \in DOMAIN bars : k <= p[1] \/ p[2] <= k
     /\ Apart(p[2], p[1], interval)}

Spans(stamps, interval) ==
  IF Cardinality(stamps) < 2 THEN 0 ELSE (Max(stamps) - Min(stamps)) \div interval

(* The five formulas: a return of a pair of bars, a variance term of one bar. *)
Return(estimator, earlier, later) ==
  IF estimator = "log" THEN later.close - earlier.close
  ELSE 2 ^ (MaxPrice + later.close - earlier.close) - 2 ^ MaxPrice

Squared(x) == x * x

Term(estimator, b) ==
  CASE estimator = "parkinson" -> Squared(b.high - b.low)
    [] estimator = "garman_klass" -> 5 * Squared(b.high - b.low) - 4 * Squared(b.close - b.open)
    [] estimator = "rogers_satchell" ->
         (b.high - b.close) * (b.high - b.open) + (b.low - b.close) * (b.low - b.open)

(* _per_pair_returns and _per_bar_terms: a value under each stamp.            *)
Observations(bars, interval, estimator) ==
  LET pairs == AdjacentPairs(bars, interval)
      later(m) == CHOOSE n \in DOMAIN bars : <<m, n>> \in pairs
  IN IF estimator \in ReturnEstimators
     THEN [m \in {p[1] : p \in pairs} |-> Return(estimator, bars[m], bars[later(m)])]
     ELSE [m \in DOMAIN bars |-> Term(estimator, bars[m])]

InOrder(S) ==
  [i \in 1..Cardinality(S) |-> CHOOSE x \in S : Cardinality({y \in S : y < x}) = i - 1]
Values(obs) == LET stamps == InOrder(DOMAIN obs) IN [i \in DOMAIN stamps |-> obs[stamps[i]]]

(* The sums of the prefixes of a sequence, the empty one first.               *)
PrefixSums(values) ==
  LET sums[i \in 0..Len(values)] == IF i = 0 THEN 0 ELSE sums[i - 1] + values[i] IN sums
Total(values) == PrefixSums(values)[Len(values)]

NoValue == <<>>
Unmeasured(expected) == [value |-> NoValue, observations |-> 0, expected |-> expected]

(* log_return_vol and simple_return_vol: the sample deviation of the returns  *)
(* of a window; parkinson, garman_klass and rogers_satchell: the mean of its   *)
(* terms. `bars` are the bars of the window.                                *)
SampleDeviation(values) ==
  LET n == Len(values)
      off(i) == n * values[i] - Total(values)
  IN IF n < 2 THEN NoValue ELSE <<Total([i \in 1..n |-> off(i) * off(i)]), n * n * (n - 1)>>

RangeResult(terms) ==
  IF terms = <<>> \/ Total(terms) < 0 THEN NoValue ELSE <<Total(terms), Len(terms)>>

WindowAtATime(bars, interval, estimator) ==
  LET values == Values(Observations(bars, interval, estimator))
      spans == Spans(DOMAIN bars, interval)
  IN IF estimator \in ReturnEstimators
     THEN [value |-> SampleDeviation(values), observations |-> Len(values), expected |-> spans]
     ELSE [value |-> RangeResult(values), observations |-> Len(values),
           expected |-> IF DOMAIN bars = {} THEN 0 ELSE spans + 1]

(* rolling: prefix sums over the whole record and two bisections a window.    *)
BisectLeft(stamps, x) == Cardinality({i \in DOMAIN stamps : stamps[i] < x})
BisectRight(stamps, x) == Cardinality({i \in DOMAIN stamps : stamps[i] <= x})

LastStamp(estimator, at, interval) == at
LastStart(estimator, at, interval) == IF estimator \in ReturnEstimators THEN at - interval ELSE at

Rolling(bars, estimator, interval, lookback, timestamps) ==
  LET times == InOrder(DOMAIN bars)
      obs == Observations(bars, interval, estimator)
      stamps == InOrder(DOMAIN obs)
      values == Values(obs)
      total == PrefixSums(values)
      totalSquared == PrefixSums([i \in DOMAIN values |-> values[i] * values[i]])
      isReturn == estimator \in ReturnEstimators
      result(at) ==
        LET first == BisectLeft(times, at - lookback)
            last == BisectRight(times, at)
            spans == IF last - first >= 2 THEN (times[last] - times[first + 1]) \div interval ELSE 0
            expected == IF isReturn THEN spans ELSE IF last > first THEN spans + 1 ELSE 0
            low == BisectLeft(stamps, at - lookback)
            high == BisectRight(stamps, LastStart(estimator, at, interval))
            count == high - low
            sum == total[high] - total[low]
            centred == count * (totalSquared[high] - totalSquared[low]) - sum * sum
        IN IF count = 0 THEN Unmeasured(expected)
           ELSE [value |-> IF isReturn
                           THEN IF count < 2 THEN NoValue
                                ELSE <<Max({centred, 0}), count * (count - 1)>>
                           ELSE IF sum < 0 THEN NoValue ELSE <<sum, count>>,
                 observations |-> count, expected |-> expected]
  IN [at \in timestamps |-> result(at)]

----------------------------------------------------------------------------
(* _atm_for_one_expiry: the smile at the forward, between its two strikes.   *)
AtmForOneExpiry(chain) ==
  LET below == {k \in DOMAIN chain.smile : k <= chain.forward}
      above == {k \in DOMAIN chain.smile : k >= chain.forward}
      lower == Max(below)
      upper == Min(above)
  IN IF below = {} \/ above = {} THEN {}
     ELSE IF lower = upper THEN {chain.smile[lower]}
     ELSE {chain.smile[lower] + ((chain.forward - lower) * (chain.smile[upper] - chain.smile[lower]))
                                  \div (upper - lower)}

(* _term_structure: <<days, level>> of the expiries past the floor that have  *)
(* a level.                                                                 *)
TermStructure(board, at) ==
  UNION {{<<e - at, level>> : level \in AtmForOneExpiry(board[e])} :
           e \in {x \in DOMAIN board : x - at >= MinExpiry}}

(* atm_iv with implied_over_window: the variance over the tenor, or nothing.  *)
AtmIv(board, at, tenor) ==
  LET points == TermStructure(board, at)
      below == {p \in points : p[1] <= tenor}
      above == {p \in points : p[1] >= tenor}
      near == CHOOSE p \in below : \A q \in below : q[1] <= p[1]
      far == CHOOSE p \in above : \A q \in above : p[1] <= q[1]
      variance(p) == p[2] * p[2] * p[1]
      total == variance(near) * (far[1] - near[1]) + (tenor - near[1]) * (variance(far) - variance(near))
  IN IF below = {} \/ above = {} THEN NoValue
     ELSE IF near = far THEN <<near[2] * near[2] * tenor, 1>>
     ELSE IF total <= 0 \/ tenor <= 0 THEN NoValue
     ELSE <<total, far[1] - near[1]>>

(* _implied_at: the newest stored minute at or before `at`, if not stale.     *)
Readable(at, tolerance) == {m \in DOMAIN ivs : m <= at /\ at - m <= tolerance}

ImpliedAt(at, tolerance) ==
  LET minutes == Readable(at, tolerance) IN IF minutes = {} THEN {} ELSE {Max(minutes)}

Implied(at, interval, tenor) ==
  LET found == ImpliedAt(at, Max({interval, 1}))
  IN IF found = {} THEN NoValue ELSE AtmIv(ivs[Max(found)], Max(found), tenor)

(* _realised: in lag mode the window ahead, once it has happened.            *)
Answered(bars, at) == DOMAIN bars # {} /\ at <= Max(DOMAIN bars)

Realised(bars, estimator, interval, lookback, timestamps, alignment) ==
  LET end(at) == IF alignment = "lag" THEN at + lookback ELSE at
      series == Rolling(bars, estimator, interval, lookback, {end(at) : at \in timestamps})
  IN [at \in timestamps |->
        IF alignment = "lag" /\ ~Answered(bars, end(at)) THEN Unmeasured(0)
        ELSE series[end(at)]]

(* scale_to_window.                                                         *)
OverWindow(value, interval, lookback) ==
  IF value = NoValue THEN NoValue ELSE <<value[1] * lookback, value[2] * interval>>

(* _select_realised_series: the index wins whole, or does not count.         *)
Selected(spotBars, indexBars) == IF DOMAIN indexBars # {} THEN indexBars ELSE spotBars

(* _listed_tenors and lookback_bounds.                                      *)
NewestTenors(boards) ==
  IF DOMAIN boards = {} THEN {}
  ELSE LET m == Max(DOMAIN boards) IN {e - m : e \in {x \in DOMAIN boards[m] : x - m >= MinExpiry}}
ListedTenors(boards) ==
  UNION {{e - m : e \in {x \in DOMAIN boards[m] : x - m >= MinExpiry}} : m \in DOMAIN boards}

RowsHeld(bars) == Cardinality(DOMAIN bars)
HistoryDays(bars) == IF Cardinality(DOMAIN bars) < 2 THEN 0 ELSE Max(DOMAIN bars) - Min(DOMAIN bars)

LookbackBounds(bars, boards, interval) ==
  LET tenors == ListedTenors(boards)
      floor == MinObservations * interval
  IN IF tenors = {} THEN [min |-> floor, max |-> 0, binding |-> "term_structure"]
     ELSE [min |-> Max({floor, Min(tenors)}),
           max |-> Min({HistoryDays(bars), Max(tenors)}),
           binding |-> IF HistoryDays(bars) <= Max(tenors) THEN "history" ELSE "term_structure"]

Usable(bounds) == bounds.max >= bounds.min
ValidIntervals(lookback) == {i \in Intervals : lookback >= MinObservations * i}

(* GET /volatility: a refusal, or the stamps of the points volatility_series  *)
(* fills. The first point of the contemporaneous chart has a window behind it. *)
Begin(bars, lookback, alignment) ==
  Min(DOMAIN bars) + (IF alignment = "contemporaneous" THEN lookback ELSE 0)

Stride(span, interval) ==
  LET steps == Max({1, span \div interval})
  IN Max({1, (steps + MaxPoints - 1) \div MaxPoints})

Get(bars, boards, interval, lookback, alignment) ==
  LET bounds == LookbackBounds(bars, boards, interval)
      start == Begin(bars, lookback, alignment)
      end == Max(DOMAIN bars)
      step == Stride(end - start, interval) * interval
      refused(why) == [refusal |-> why, stamps |-> {}]
  IN IF ~Usable(bounds) THEN refused("no lookback works yet")
     ELSE IF lookback \notin bounds.min..bounds.max THEN refused("out of bounds")
     ELSE IF DOMAIN bars = {} THEN refused("no bars stored")
     ELSE IF start > end THEN refused("does not fit the record")
     ELSE [refusal |-> "", stamps |-> {at \in start..end : (at - start) % step = 0}]

----------------------------------------------------------------------------
Bars1m == Selected(spot, index)
Offer(interval) == LookbackBounds(Bars1m, ivs, interval)

SameFigure(a, b) ==
  /\ a.observations = b.observations /\ a.expected = b.expected
  /\ (a.value = NoValue) = (b.value = NoValue)
  /\ a.value # NoValue => a.value[1] * b.value[2] = b.value[1] * a.value[2]

(* A realised figure is what its formula gives over the stored minutes of the *)
(* buckets stamped in [at - N, at], read alone: rolling, resample and the      *)
(* bisections agree with the window-at-a-time functions on any record with     *)
(* holes, and neither an older minute nor a later one moves it. (A lookback    *)
(* that is too short for the interval, which the route refuses, could make     *)
(* rolling count less than nothing.)                                        *)
FigureIsItsWindow ==
  \A lookback \in 1..minute : \A interval \in ValidIntervals(lookback), estimator \in Estimators :
  LET bars == Resample(Bars1m, interval)
      series == Rolling(bars, estimator, interval, lookback, 0..minute)
      window(at) == (interval * ((at - lookback + interval - 1) \div interval))
                      ..(interval * (at \div interval) + interval - 1)
  IN \A at \in 0..minute :
       SameFigure(series[at],
                  WindowAtATime(Resample(Stored(Bars1m, window(at)), interval), interval, estimator))

(* An implied figure is read from the newest minute at or before its stamp,    *)
(* never from one older than the tolerance, only for a tenor between two        *)
(* listed expiries past the floor, and lies between their total variances.      *)
ImpliedIsCurrent == \A interval \in Intervals, at \in 0..minute, tenor \in 1..(minute + MinExpiry) :
  LET value == Implied(at, interval, tenor)
      sources == {m \in DOMAIN ivs : m <= at /\ at <= m + interval /\ \A n \in DOMAIN ivs : n <= m \/ at < n}
      listed(m) == TermStructure(ivs[m], m)
      variance(p) == p[2] * p[2] * p[1]
  IN /\ value # NoValue => \E m \in sources : \E near, far \in listed(m) :
          /\ near[1] <= tenor /\ tenor <= far[1]
          /\ \A p \in listed(m) : p[1] <= near[1] \/ far[1] <= p[1]
          /\ Min({variance(near), variance(far)}) * value[2] <= value[1]
          /\ value[1] <= Max({variance(near), variance(far)}) * value[2]
     /\ \A m \in sources : \A p \in listed(m) :
          p[1] = tenor => value # NoValue /\ value[1] = variance(p) * value[2]

(* Both of a point's figures are what the store says of its stamp.             *)
PointsAreTrue == FigureIsItsWindow /\ ImpliedIsCurrent

(* A lookback inside the bounds is always charted: the record holds its window, *)
(* the first contemporaneous point has all of it behind, a lag point is        *)
(* answered once all of it has happened, and the chart keeps to its ceiling.   *)
AcceptedIsCharted == \A interval \in Intervals, alignment \in {"contemporaneous", "lag"} :
  Usable(Offer(interval)) => \A lookback \in Offer(interval).min..Offer(interval).max :
    LET chart == Get(Bars1m, ivs, interval, lookback, alignment)
        bars == Resample(Bars1m, interval)
        figures == Realised(bars, "parkinson", interval, lookback, chart.stamps, alignment)
    IN /\ chart.refusal = "" /\ chart.stamps # {}
       /\ interval \in ValidIntervals(lookback)
       /\ Cardinality(chart.stamps) <= MaxPoints + 1
       /\ \A at \in chart.stamps :
            /\ alignment = "contemporaneous" => at - lookback >= Min(DOMAIN Bars1m)
            /\ alignment = "lag" /\ at + lookback > Max(DOMAIN Bars1m) => figures[at].value = NoValue

(* A lookback the bounds offered stays accepted while the store grows, as long *)
(* as the realised series is the same: only a backfill may take an offer back. *)
OfferStands == [][
  (DOMAIN index = {}) = (DOMAIN index' = {}) => \A interval \in Intervals :
    LET later == LookbackBounds(Selected(spot', index'), ivs', interval)
    IN Usable(Offer(interval)) => later.min <= Offer(interval).min /\ Offer(interval).max <= later.max]_chartVars
=============================================================================
