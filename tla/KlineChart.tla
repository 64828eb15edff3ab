------------------------------ MODULE KlineChart ------------------------------
(***************************************************************************)
(* The chart component.  The library that draws is told what to draw step  *)
(* by step: price lines are created and removed one by one, indicators are *)
(* series of their own, and drawings are an overlay computed from the      *)
(* positions the library gives.  So what is on the chart is state of its   *)
(* own, beside the properties the workspace passes in (ScenarioChart) and  *)
(* what the user has chosen, drawn or points at.                           *)
(*                                                                         *)
(* A price is the height, in pixels, at which it is drawn.                 *)
(***************************************************************************)
EXTENDS ChartSeries, Bags

CONSTANTS
  Props,          \* properties: [klines, levels, selected, window, trades, focused]
  Indicators,     \* indicators the user switches
  Xs, Ys,         \* places the pointer takes
  MaxDrawings,    \* bound: drawings on the chart
  MaxEnabled      \* bound: indicators at once

\* A kline, as the backend answers it.
Kline == [openTime : Nat, closeTime : Nat, open : Int, close : Int, volume : Int,
          valid : BOOLEAN]

\* Klines of one list are bars of one interval, which do not overlap (closeTime,
\* birdeyeCloseTime and candidateBarCloseTime of the backend).
ASSUME KlineChartAssumption ==
  /\ Xs \subseteq Int /\ Ys \subseteq Int /\ MaxDrawings \in Nat
  /\ Indicators \subseteq (DOMAIN Periods) \cup {"vol"}
  /\ \A p \in Props :
       /\ p \in [klines : Seq(Kline), levels : Seq(ToSet(p.levels)),
                 selected : {p.selected}, window : Nat, trades : Seq(ToSet(p.trades)),
                 focused : {p.focused}]
       /\ \A t \in ToSet(p.trades) :
            {t.buyTime, t.sellTime} \subseteq Nat /\ {t.buyPrice, t.sellPrice} \subseteq Int
       /\ \A k, l \in ToSet(p.klines) :
            k.openTime < k.closeTime /\ (k.openTime < l.openTime => k.closeTime <= l.openTime)

VARIABLES
  props,
  tool,           \* activeTool
  drawings,
  pending,        \* pendingTrendPoint
  selection,      \* None, or the two x of the range being drawn (isSelecting)
  hovered,        \* hoveredTradeMarker
  enabled,        \* enabledIndicators
  series,         \* what the library shows: [candles, lines, markers, plots]
  priceLines,     \* lines the component keeps in order to remove them
  hoverPriceLine,
  plotted,        \* indicatorSeries and volumeSeries
  overlay,        \* visibleDrawings as last computed
  emitted,        \* range-selected, of the last selection
  windows         \* history: the windows shown since the watch last ran

vars == <<props, tool, drawings, pending, selection, hovered, enabled, series,
          priceLines, hoverPriceLine, plotted, overlay, emitted, windows>>

lineVars == <<series, priceLines, hoverPriceLine>>

Tools == {"range", "horizontal", "trend"}
Klines == chartKlines(props.klines)

-----------------------------------------------------------------------------
(* Price lines.                                                            *)

LevelLines(p) ==
  LET shown == displayLevels(p.levels, p.selected)
  IN [i \in DOMAIN shown |->
        [of |-> "level", price |-> shown[i].level.band.cap, rank |-> shown[i].rank,
         role |-> levelRole(shown[i].level),
         strong |-> p.selected # None /\ isSameLevel(shown[i].level, p.selected)]]

HorizontalLines(d) ==
  LET horizontals == Sublist(d, {i \in DOMAIN d : d[i].type = "horizontal"})
  IN [i \in DOMAIN horizontals |->
        [of |-> "drawing", price |-> horizontals[i].price, rank |-> i]]

\* renderSelectedLevelBandLines
BandLines(p) ==
  IF p.selected = None \/ p.selected.band.lower <= 0 \/ p.selected.band.upper <= 0
  THEN <<>>
  ELSE << [of |-> "lower", price |-> p.selected.band.lower, role |-> levelRole(p.selected)],
          [of |-> "upper", price |-> p.selected.band.upper, role |-> levelRole(p.selected)] >>

\* renderHoveredTradeLine
HoverLine(h) ==
  IF h = None THEN None ELSE [of |-> "hover", price |-> h.price, side |-> h.side]

BagOf(line) == IF line = None THEN EmptyBag ELSE SetToBag({line})

\* The lines that stay when those the component knows are removed.
RemoveLines(lines) == (lines (-) ToBag(priceLines)) (-) BagOf(hoverPriceLine)

\* renderPriceLines: every line is removed, then all are created anew.
renderPriceLines(p, d, h) ==
  LET made == LevelLines(p) \o HorizontalLines(d) \o BandLines(p)
  IN /\ priceLines' = made
     /\ hoverPriceLine' = HoverLine(h)
     /\ series' = [series EXCEPT
                     !.lines = (RemoveLines(@) (+) ToBag(made)) (+) BagOf(HoverLine(h))]

-----------------------------------------------------------------------------
(* Indicators and drawings.                                                *)

Plot(key, items) ==
  CASE key = "vol" -> volumeBars(items)
    [] key \in {"ma7", "ma20", "ma60"} -> calculateSMA(items, Periods[key])
    [] key = "ema20" -> calculateEMA(items, Periods[key])
    [] key = "boll" -> calculateBollinger(items, Periods[key])

\* syncIndicatorSeries: a line without data is not added; the bars always are.
Plots(items, on) ==
  {plot \in {[key |-> key, data |-> Plot(key, items)] : key \in on} :
     plot.key = "vol" \/ plot.data # <<>>}

\* mapDrawingToCoordinates: a trend whose ends are not on the axis is left out.
visibleDrawings(items, d) ==
  LET Place(x) ==
        IF x.type = "horizontal" THEN [type |-> x.type, price |-> x.price]
        ELSE [type |-> x.type, x1 |-> timeToCoordinate(items, x.start.time),
              x2 |-> timeToCoordinate(items, x.end.time), y1 |-> x.start.price,
              y2 |-> x.end.price]
      OnAxis(x) == x.type = "trend" =>
                     None \notin {timeToCoordinate(items, x.start.time),
                                  timeToCoordinate(items, x.end.time)}
      shown == Sublist(d, {i \in DOMAIN d : OnAxis(d[i])})
  IN [i \in DOMAIN shown |-> Place(shown[i])]

\* renderChart
renderChart(p, on, h) ==
  LET items == chartKlines(p.klines)
      made == LevelLines(p) \o HorizontalLines(drawings) \o BandLines(p)
  IN /\ plotted' = Plots(items, on)
     /\ priceLines' = made
     /\ hoverPriceLine' = HoverLine(h)
     /\ series' = [candles |-> items, markers |-> ChartMarkers(p),
                   plots |-> (series.plots \ plotted) \cup plotted',
                   lines |-> (RemoveLines(series.lines) (+) ToBag(made))
                               (+) BagOf(HoverLine(h))]
     /\ overlay' = visibleDrawings(items, drawings)

-----------------------------------------------------------------------------
NoProps == [klines |-> <<>>, levels |-> <<>>, selected |-> None, window |-> 0,
            trades |-> <<>>, focused |-> None]

Init ==
  /\ props = NoProps
  /\ tool = "range" /\ drawings = <<>> /\ pending = None /\ selection = None
  /\ hovered = None /\ enabled = {}
  /\ series = [candles |-> <<>>, lines |-> EmptyBag, markers |-> <<>>, plots |-> {}]
  /\ priceLines = <<>> /\ hoverPriceLine = None /\ plotted = {}
  /\ overlay = <<>> /\ emitted = None /\ windows = {0}

\* The properties the watch lists: all but the index of the window.
Watched(p) == [p EXCEPT !.window = 0]

\* Variant: the marker pointed at stays when the properties change.
KeepHover(new) ==
  /\ Watched(new) # Watched(props)
  /\ props' = new /\ windows' = {new.window}
  /\ renderChart(new, enabled, hovered)
  /\ UNCHANGED <<tool, drawings, pending, selection, hovered, enabled, emitted>>

\* The watch on the properties.  Drawings, a half drawn trend line and a
\* selection under way stay.
PropsChange(new) ==
  /\ Watched(new) # Watched(props)
  /\ props' = new /\ windows' = {new.window}
  /\ hovered' = None
  /\ renderChart(new, enabled, None)
  /\ UNCHANGED <<tool, drawings, pending, selection, enabled, emitted>>

\* Another window alone draws nothing anew, nor does it put the card away,
\* although the markers are those of the trades of the window.
WindowChange(new) ==
  /\ new # props /\ Watched(new) = Watched(props)
  /\ props' = new /\ windows' = windows \cup {new.window}
  /\ UNCHANGED <<tool, drawings, pending, selection, hovered, enabled, lineVars, plotted,
                 overlay, emitted>>

\* With the watch on enabledIndicators.
toggleIndicator(key) ==
  /\ enabled' = IF key \in enabled THEN enabled \ {key} ELSE enabled \cup {key}
  /\ Cardinality(enabled') <= MaxEnabled
  /\ renderChart(props, enabled', hovered)
  /\ UNCHANGED <<props, windows, tool, drawings, pending, selection, hovered, emitted>>

\* Variant: a trend line begun with the old tool waits for its end.
KeepPending(new) ==
  /\ tool' = new
  /\ selection' = None
  /\ UNCHANGED <<props, windows, drawings, pending, hovered, enabled, lineVars, plotted, overlay,
                 emitted>>

setActiveTool(new) ==
  /\ tool' = new
  /\ pending' = None
  /\ selection' = None
  /\ UNCHANGED <<props, windows, drawings, hovered, enabled, lineVars, plotted, overlay, emitted>>

\* The button is disabled while there is no drawing.
clearDrawings ==
  /\ drawings # <<>>
  /\ drawings' = <<>>
  /\ pending' = None
  /\ renderPriceLines(props, <<>>, hovered)
  /\ overlay' = <<>>
  /\ UNCHANGED <<props, windows, tool, selection, hovered, enabled, plotted, emitted>>

-----------------------------------------------------------------------------
(* The pointer.                                                            *)

startSelection(x) ==
  /\ tool = "range"
  /\ Klines # <<>>
  /\ selection' = [from |-> pointerX(x), to |-> pointerX(x)]
  /\ emitted' = None
  /\ UNCHANGED <<props, windows, tool, drawings, pending, hovered, enabled, lineVars, plotted,
                 overlay>>

\* pointerToDrawingPoint
PointAt(x, y) ==
  LET kline == nearestKlineByCoordinate(Klines, pointerX(x))
  IN IF kline = None \/ y <= 0 THEN None ELSE [time |-> kline.time, price |-> y]

\* addDrawingFromPointer
CanDraw(x, y) ==
  /\ Klines # <<>>
  /\ PointAt(x, y) # None

DrawHorizontal(x, y) ==
  /\ tool = "horizontal"
  /\ CanDraw(x, y)
  /\ Len(drawings) < MaxDrawings
  /\ drawings' = Append(drawings, [type |-> "horizontal", price |-> y])
  /\ renderPriceLines(props, drawings', hovered)
  /\ overlay' = visibleDrawings(Klines, drawings')
  /\ UNCHANGED <<props, windows, tool, pending, selection, hovered, enabled, plotted, emitted>>

BeginTrend(x, y) ==
  /\ tool = "trend" /\ pending = None
  /\ CanDraw(x, y)
  /\ pending' = PointAt(x, y)
  /\ overlay' = visibleDrawings(Klines, drawings)
  /\ UNCHANGED <<props, windows, tool, drawings, selection, hovered, enabled, lineVars, plotted,
                 emitted>>

EndTrend(x, y) ==
  /\ tool = "trend" /\ pending # None
  /\ CanDraw(x, y)
  /\ Len(drawings) < MaxDrawings
  /\ drawings' = Append(drawings,
                   [type |-> "trend", start |-> pending, end |-> PointAt(x, y)])
  /\ pending' = None
  /\ overlay' = visibleDrawings(Klines, drawings')
  /\ UNCHANGED <<props, windows, tool, selection, hovered, enabled, lineVars, plotted, emitted>>

\* handlePointerMove while a range is drawn (moveSelection)
MoveSelection(x) ==
  /\ selection # None
  /\ selection' = [selection EXCEPT !.to = pointerX(x)]
  /\ hovered' = None
  /\ renderPriceLines(props, drawings, None)
  /\ overlay' = visibleDrawings(Klines, drawings)
  /\ UNCHANGED <<props, windows, tool, drawings, pending, enabled, plotted, emitted>>

MarkerKey(h) == IF h = None THEN None ELSE <<h.key, h.side>>

\* handlePointerMove otherwise (updateHoveredTradeMarker); only the tool that
\* selects ranges has markers to point at.
Hover(x, y) ==
  LET next == IF tool # "range" THEN None
              ELSE findHoveredTradeMarker(props, pointerX(x), y)
  IN /\ selection = None
     /\ MarkerKey(next) # MarkerKey(hovered)
     /\ hovered' = next
     /\ renderPriceLines(props, drawings, next)
     /\ UNCHANGED <<props, windows, tool, drawings, pending, selection, enabled, plotted,
                    overlay, emitted>>

finishSelection(x) ==
  /\ selection # None
  /\ LET range == selectedKlineRange(Klines, selection.from, pointerX(x))
     IN emitted' = range
  /\ selection' = None
  /\ UNCHANGED <<props, windows, tool, drawings, pending, hovered, enabled, lineVars, plotted,
                 overlay>>

\* The pointer leaves the chart.
cancelSelection ==
  /\ selection' = None
  /\ hovered' = None
  /\ renderPriceLines(props, drawings, None)
  /\ UNCHANGED <<props, windows, tool, drawings, pending, enabled, plotted, overlay, emitted>>

-----------------------------------------------------------------------------
Toolbar ==
  \/ \E key \in Indicators : toggleIndicator(key)
  \/ \E new \in Tools : setActiveTool(new)
  \/ clearDrawings

Pointer ==
  \/ \E x \in Xs : startSelection(x) \/ MoveSelection(x) \/ finishSelection(x)
  \/ \E x \in Xs, y \in Ys :
       DrawHorizontal(x, y) \/ BeginTrend(x, y) \/ EndTrend(x, y) \/ Hover(x, y)
  \/ cancelSelection

Next ==
  \/ \E new \in Props : PropsChange(new) \/ WindowChange(new)
  \/ Toolbar \/ Pointer

Spec == Init /\ [][Next]_vars

-----------------------------------------------------------------------------
(* Properties.                                                             *)

Points == [time : Nat, price : Nat \ {0}]

\* The variables keep their shapes: a drawing has prices above 0 and times of
\* the axis; a range is drawn with the tool for ranges only, and a trend line
\* that was begun never outlives a change of the tool.
TypeOK ==
  /\ props \in Props \cup {NoProps} /\ tool \in Tools /\ enabled \subseteq Indicators
  /\ \A d \in ToSet(drawings) :
       \/ d.type = "horizontal" /\ d.price \in Nat \ {0}
       \/ d.type = "trend" /\ d.start \in Points /\ d.end \in Points
  /\ pending # None => pending \in Points /\ tool = "trend"
  /\ selection # None => selection \in [from : 0..Width, to : 0..Width] /\ tool = "range"

InWindow(w) == [props EXCEPT !.window = w]

\* The lines on the chart are those of the levels, the drawings, the band of
\* the selected level and the marker pointed at, each once: none is left from
\* before, whatever order the properties, the toolbar and the pointer change
\* in.  The overlay has the drawings where the axis now has them.  Markers, and
\* the one the card describes, belong to the klines, the level and the trades
\* there are, and to a window shown since one of these changed: to the window
\* there is unless it has changed alone.
LinesMatchState ==
  /\ series.lines = ToBag(LevelLines(props) \o HorizontalLines(drawings)
                            \o BandLines(props)) (+) BagOf(HoverLine(hovered))
  /\ overlay = visibleDrawings(Klines, drawings)
  /\ \E w \in windows : series.markers = ChartMarkers(InWindow(w))
  /\ hovered # None =>
       \E w \in windows : hovered \in ToSet(strategyMarkerDetails(InWindow(w)))

\* The seconds at which an interval has klines.
InInterval(klines, start, end) ==
  {toUnixTimestamp(k.openTime) : k \in
     {l \in ToSet(klines) : l.valid /\ start <= l.openTime /\ l.openTime < end}}

\* A range that is handed to the workspace names klines that are shown: it
\* begins at one and ends at one, and counts exactly the klines of its interval,
\* even if the klines have changed since the pointer went down.
RangeIsShown ==
  [][emitted' \notin {emitted, None} =>
       \E i, j \in DOMAIN series.candles :
         /\ i <= j
         /\ emitted'.startTime = series.candles[i].openTime
         /\ emitted'.endTime = series.candles[j].closeTime
         /\ emitted'.klineCount
              = Cardinality(InInterval(props.klines, emitted'.startTime, emitted'.endTime))]_vars

\* What an indicator should be at the i-th kline.
Closes(items, i, period) == [k \in 1..period |-> items[i - period + k].close]

Power(base, n) ==
  LET power[k \in 0..n] == IF k = 0 THEN 1 ELSE base * power[k - 1]
  IN power[n]

IsMean(bar, items, i, period) ==
  /\ bar.time = items[i].time
  /\ bar.num = SumOf(Closes(items, i, period)) /\ bar.den = period

\* The weight of a close falls by (period - 1) / (period + 1) from bar to bar.
IsAverage(bar, items, i, period) ==
  /\ bar.time = items[i].time /\ bar.den = Power(period + 1, i - 1)
  /\ bar.num = Power(period - 1, i - 1) * items[1].close
       + SumOf([j \in 1..(i - 1) |-> 2 * items[j + 1].close
                 * Power(period - 1, i - 1 - j) * Power(period + 1, j - 1)])

\* The variance is the mean of the squares less the square of the mean.
IsVariance(squares, items, i, period) ==
  LET closes == Closes(items, i, period)
  IN squares = period * (period * SumOf([k \in 1..period |-> closes[k] * closes[k]])
                           - SumOf(closes) * SumOf(closes))

\* A line of means starts with the first full window.
AreMeans(data, items, period) ==
  /\ Len(data) = Len(items) - period + 1
  /\ \A n \in DOMAIN data : IsMean(data[n], items, n + period - 1, period)

AreAverages(data, items, period) ==
  /\ Len(data) = Len(items)
  /\ \A i \in DOMAIN data : IsAverage(data[i], items, i, period)

AreVariances(data, items, period) ==
  \A n \in DOMAIN data : IsVariance(data[n].squares, items, n + period - 1, period)

\* The data of an indicator is what the indicator means.
IsIndicator(p, items) ==
  \/ /\ p.key \in {"ma7", "ma20", "ma60", "boll"}
     /\ AreMeans(p.data, items, Periods[p.key])
     /\ p.key = "boll" => AreVariances(p.data, items, Periods["boll"])
  \/ p.key = "ema20" /\ AreAverages(p.data, items, Periods["ema20"])
  \/ p.key = "vol" /\ Len(p.data) = Len(items)

\* The series on the chart are those of the indicators switched on, no more:
\* the moving averages are the means of their windows, although the code keeps
\* a running sum, the exponential one has its weights, the middle band is the
\* moving average of its period, and times rise, which the library insists on.
IndicatorsMatchSeries ==
  /\ series.candles = Klines
  /\ {p.key : p \in series.plots}
       = {k \in enabled : \/ k = "vol"
                          \/ Len(series.candles) >= (IF k = "ema20" THEN 1 ELSE Periods[k])}
  /\ \A p, q \in series.plots : p.key = q.key => p = q
  /\ \A i \in 2..Len(series.candles) : series.candles[i - 1].time < series.candles[i].time
  /\ \A p \in series.plots : IsIndicator(p, series.candles)
===============================================================================
