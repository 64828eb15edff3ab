----------------------------- MODULE ChartSeries -----------------------------
(***************************************************************************)
(* What the chart component computes from its properties: the klines it    *)
(* plots, the levels and the markers it draws, the indicators, and what    *)
(* lies under the pointer.  A band is [cap, lower, upper]; a number that   *)
(* the code divides is the fraction [num, den]; times of klines are in     *)
(* milliseconds, those on the axis in seconds.                             *)
(***************************************************************************)
EXTENDS ScenarioView

CONSTANTS
  Width,          \* pixels of the chart
  Periods,        \* bars of ma7, ma20, ma60, ema20 and boll
  LevelsPerType   \* LEVELS_PER_TYPE

ASSUME ChartSeriesAssumption ==
  /\ None \notin Int
  /\ Width \in Nat \ {0} /\ LevelsPerType \in Nat
  /\ Periods \in [{"ma7", "ma20", "ma60", "ema20", "boll"} -> Nat \ {0}]

-----------------------------------------------------------------------------
(* Klines.                                                                 *)

toUnixTimestamp(time) == IF time < 1000 THEN None ELSE time \div 1000

\* Valid klines in the order of their times; of one time the last is kept.
chartKlines(klines) ==
  LET time(i) == toUnixTimestamp(klines[i].openTime)
      valid == {i \in DOMAIN klines : klines[i].valid /\ time(i) # None}
      latest == {i \in valid : \A j \in valid : time(j) = time(i) => j <= i}
      items == {[time |-> time(i), openTime |-> klines[i].openTime,
                 closeTime |-> klines[i].closeTime, open |-> klines[i].open,
                 close |-> klines[i].close, volume |-> klines[i].volume] : i \in latest}
  IN Arranged(items, {p \in items \X items : p[1].time < p[2].time})

\* The first of the items nearest to a time.
Nearest(items, time) ==
  LET off(i) == Distance(items[i].time, time)
  IN items[Least(DOMAIN items, {p \in (DOMAIN items) \X (DOMAIN items) :
             off(p[1]) < off(p[2]) \/ (off(p[1]) = off(p[2]) /\ p[1] < p[2])})]

nearestCandleTime(items, time) ==
  IF toUnixTimestamp(time) = None \/ items = <<>> THEN None
  ELSE Nearest(items, toUnixTimestamp(time)).time

\* The chart library fits the bars to its width; beyond them there is no time.
coordinateToTime(items, x) ==
  LET i == (x * Len(items)) \div Width + 1
  IN IF i \in DOMAIN items THEN items[i].time ELSE None

timeToCoordinate(items, time) ==
  LET at == {i \in DOMAIN items : items[i].time = time}
  IN IF at = {} THEN None
     ELSE ((2 * Min(at) - 1) * Width) \div (2 * Len(items))

\* The pointer's position within the chart.
pointerX(x) == Max2(0, Min({x, Width}))

nearestKlineByCoordinate(items, x) ==
  LET time == coordinateToTime(items, x)
  IN IF time = None THEN None ELSE Nearest(items, time)

MinSelection == 8

\* Variant: the last kline of the range is not counted.
RangeWithoutLast(items, from, to) ==
  LET first == nearestKlineByCoordinate(items, Min({from, to}))
      last  == nearestKlineByCoordinate(items, Max({from, to}))
  IN IF items = <<>> \/ Distance(from, to) < MinSelection \/ None \in {first, last} THEN None
     ELSE [startTime |-> first.openTime, endTime |-> last.closeTime,
           klineCount |-> Cardinality({n \in DOMAIN items :
                            first.time <= items[n].time /\ items[n].time < last.time})]

\* The range between two positions of the pointer, with the klines in it.
selectedKlineRange(items, from, to) ==
  LET first == nearestKlineByCoordinate(items, Min({from, to}))
      last  == nearestKlineByCoordinate(items, Max({from, to}))
  IN IF items = <<>> \/ Distance(from, to) < MinSelection \/ None \in {first, last} THEN None
     ELSE IF first.openTime = last.closeTime THEN None
     ELSE [startTime |-> first.openTime, endTime |-> last.closeTime,
           klineCount |-> Cardinality({n \in DOMAIN items :
                            first.time <= items[n].time /\ items[n].time <= last.time})]

-----------------------------------------------------------------------------
(* Levels.                                                                 *)

levelRole(level) ==
  IF level.resistanceVotes > 0 /\ level.breakoutTime # 0 THEN "resistance"
  ELSE IF level.type = "support" THEN "support" ELSE "resistance"

isSameLevel(left, right) == left.type = right.type /\ left.band.cap = right.band.cap

\* The strongest levels of either role with their ranks, the selected one
\* whatever its score, by rising market cap.
displayLevels(levels, selected) ==
  LET ranked(role) ==
        LET mine == {i \in DOMAIN levels : levelRole(levels[i]) = role}
            order == Arranged(mine, {p \in mine \X mine :
                       \/ levels[p[1]].score > levels[p[2]].score
                       \/ levels[p[1]].score = levels[p[2]].score /\ p[1] < p[2]})
        IN [n \in 1..Min({Cardinality(mine), LevelsPerType}) |->
              [level |-> levels[order[n]], rank |-> n]]
      both == ranked("support") \o ranked("resistance")
      all  == IF selected = None \/ (\E r \in ToSet(both) : isSameLevel(r.level, selected))
              THEN both
              ELSE Append(both, [level |-> selected, rank |-> LevelsPerType + 1])
  IN StableSort(all, LAMBDA a, b : a.level.band.cap < b.level.band.cap)

-----------------------------------------------------------------------------
(* Markers.                                                                *)

\* The trades of the selected level, in the window shown, each with its two
\* points; a point that is missing has the time 0.
Point(trade, n) ==
  IF n = 1 THEN [side |-> "buy", time |-> trade.buyTime, price |-> trade.buyPrice]
           ELSE [side |-> "sell", time |-> trade.sellTime, price |-> trade.sellPrice]

strategyMarkerDetails(p) ==
  LET items == chartKlines(p.klines)
      mine == {i \in DOMAIN p.trades :
                 p.trades[i].windowIndex = p.window /\ p.trades[i].band = p.selected.band}
      point(at) == Point(p.trades[at[1]], at[2])
      drawn == {at \in mine \X {1, 2} :
                  point(at).price > 0 /\ nearestCandleTime(items, point(at).time) # None}
      details == {[at |-> at, key |-> tradeKey(p.trades[at[1]]), side |-> point(at).side,
                   price |-> point(at).price,
                   time |-> nearestCandleTime(items, point(at).time)] : at \in drawn}
  IN IF p.selected = None \/ p.window = 0 THEN <<>>
     ELSE Arranged(details, {q \in details \X details :
            \/ q[1].time < q[2].time
            \/ q[1].time = q[2].time /\ Earlier(q[1].at, q[2].at)})

SampleTouches == 3

\* The failed touches of a level, or else its first sample ones, and its breakout.
buildLevelMarkers(p) ==
  LET items == chartKlines(p.klines)
      touches == IF p.selected.failedTouches # <<>> THEN p.selected.failedTouches
                 ELSE SubSeq(p.selected.sampleTouches, 1,
                             Min({SampleTouches, Len(p.selected.sampleTouches)}))
      on(time) == nearestCandleTime(items, time)
      seen == Sublist(touches, {i \in DOMAIN touches : on(touches[i]) # None})
      Mark(text, time) == [text |-> text, time |-> on(time)]
  IN IF p.selected = None THEN <<>>
     ELSE [i \in DOMAIN seen |-> Mark("touch", seen[i])]
            \o (IF p.selected.breakoutTime = 0 \/ on(p.selected.breakoutTime) = None THEN <<>>
                ELSE << Mark("breakout", p.selected.breakoutTime) >>)

\* What renderMarkers gives to the library, by time.
ChartMarkers(p) ==
  LET details == strategyMarkerDetails(p)
      Mark(d) == [text |-> d.side, time |-> d.time, price |-> d.price,
                  focused |-> d.key = p.focused]
  IN StableSort(buildLevelMarkers(p) \o [i \in DOMAIN details |-> Mark(details[i])],
                LAMBDA a, b : a.time < b.time)

HoverRadius == 16

\* The first of the markers nearest to the pointer; a price is a height.
findHoveredTradeMarker(p, x, y) ==
  LET items == chartKlines(p.klines)
      details == strategyMarkerDetails(p)
      square(i) == LET dx == timeToCoordinate(items, details[i].time) - x
                       dy == details[i].price - y
                   IN dx * dx + dy * dy
      near == {i \in DOMAIN details : square(i) <= HoverRadius * HoverRadius}
  IN IF near = {} THEN None
     ELSE details[Least(near, {q \in near \X near :
            square(q[1]) < square(q[2]) \/ (square(q[1]) = square(q[2]) /\ q[1] < q[2])})]

-----------------------------------------------------------------------------
(* Indicators.                                                             *)

\* The bars from the first full window on, each a sum divided by the period.
Means(items, period, sums) ==
  [n \in 1..Max2(Len(items) - period + 1, 0) |->
     [time |-> items[n + period - 1].time, num |-> sums[n + period - 1], den |-> period]]

\* Variant: the sum keeps the closes that have left the window.
SumOfAll(items, period) ==
  Means(items, period, RunningSum([i \in DOMAIN items |-> items[i].close]))

\* The sum runs along; the close that leaves the window is taken off.
calculateSMA(items, period) ==
  Means(items, period, RunningSum([i \in DOMAIN items |->
    items[i].close - (IF i > period THEN items[i - period].close ELSE 0)]))

\* previous + (close - previous) * 2 / (period + 1), from the first close.
calculateEMA(items, period) ==
  LET ema[i \in DOMAIN items] ==
        IF i = 1 THEN [time |-> items[1].time, num |-> items[1].close, den |-> 1]
        ELSE LET last == ema[i - 1]
             IN [time |-> items[i].time, den |-> last.den * (period + 1),
                 num |-> 2 * items[i].close * last.den + (period - 1) * last.num]
  IN ema

\* Of each window the mean and the sum of the squared deviations, in parts of
\* period and of its square; the bands lie two roots of their mean off.
calculateBollinger(items, period) ==
  LET closes(i) == [k \in 1..period |-> items[i - period + k].close]
      deviation(k, i) == period * closes(i)[k] - SumOf(closes(i))
  IN [n \in 1..Max2(Len(items) - period + 1, 0) |->
        LET i == n + period - 1
        IN [time |-> items[i].time, num |-> SumOf(closes(i)), den |-> period,
            squares |-> SumOf([k \in 1..period |-> deviation(k, i) * deviation(k, i)])]]

volumeBars(items) ==
  [i \in DOMAIN items |->
     [time |-> items[i].time, num |-> Max2(items[i].volume, 0), den |-> 1,
      rising |-> items[i].close >= items[i].open]]
================================================================================
