----------------------------- MODULE ScenarioView -----------------------------
(***************************************************************************)
(* What the workspace derives from an answer of the backend: the windows   *)
(* and levels it shows, in which order, which of them a key or a trade     *)
(* selects, and the trade a position or a snapshot is drawn with.  A band  *)
(* is the market cap of a level with its lower and its upper bound, times  *)
(* are numbers, and 0 stands for a time or a point that is missing.  The   *)
(* last digit of a market cap stands for all that toPrecision(12) drops.   *)
(***************************************************************************)
EXTENDS Ordering, SequencesExt

CONSTANT None

\* Array.prototype.sort is stable.
StableSort(seq, Less(_, _)) ==
  LET order == Arranged(DOMAIN seq, {p \in (DOMAIN seq) \X (DOMAIN seq) :
                 \/ Less(seq[p[1]], seq[p[2]])
                 \/ ~Less(seq[p[2]], seq[p[1]]) /\ p[1] < p[2]})
  IN [n \in DOMAIN seq |-> seq[order[n]]]

First(seq) == IF seq = <<>> THEN None ELSE seq[1]

\* Array.prototype.find
Find(seq, Test(_)) == First(Sublist(seq, {i \in DOMAIN seq : Test(seq[i])}))

\* The order in which nested forEach loops come to two pairs of indices.
Earlier(a, b) == a[1] < b[1] \/ (a[1] = b[1] /\ a[2] < b[2])

Max2(a, b) == IF a > b THEN a ELSE b
Distance(a, b) == Max2(a - b, b - a)

-----------------------------------------------------------------------------
(* Levels.                                                                 *)

isSupportLevel(level) == level.supportVotes > 0 \/ level.type = "support"

isResistanceLevel(level) ==
  level.resistanceVotes > 0 \/ level.type = "resistance"

isBreakoutResistanceLevel(level) ==
  isResistanceLevel(level) /\ level.consolidation /\ level.breakoutTime # 0

levelDisplayName(level) ==
  IF isResistanceLevel(level) /\ level.breakoutTime # 0 THEN "pressure"
  ELSE IF level.type = "support" THEN "support" ELSE "pressure"

\* Supports first, then by falling score.
sortLevels(levels) ==
  StableSort(levels, LAMBDA a, b :
    LET aName == levelDisplayName(a)
        bName == levelDisplayName(b)
    IN IF aName # bName THEN aName = "support" ELSE a.score > b.score)

filterLevelsByView(levels, view) ==
  CASE view = "support" -> SelectSeq(levels, isSupportLevel)
    [] view = "resistance" -> SelectSeq(levels, isResistanceLevel)
    [] OTHER -> levels

toPrecision(amount) == (amount + 5) \div 10

\* The key leaves the bounds of the band out.
levelKey(level) ==
  <<level.type, toPrecision(level.band.cap), level.firstTime, level.lastTime>>

\* Of the levels of one band the one with a breakout, then the higher score,
\* then the first; it takes the place of the first of its band.
Better(next, current) ==
  IF (next.breakoutTime # 0) # (current.breakoutTime # 0)
  THEN next.breakoutTime # 0 ELSE next.score > current.score

bandKey(level) ==
  <<level.type, toPrecision(level.band.cap), toPrecision(level.band.lower),
    toPrecision(level.band.upper)>>

SameBand(a, b) == bandKey(a) = bandKey(b)

\* Variant: the first level of a band stays, whatever follows.
FirstOfBand(levels) ==
  SelectSeq(levels, LAMBDA level :
    ~\E i, j \in DOMAIN levels : i < j /\ levels[j] = level /\ SameBand(levels[i], level))

AddToBand(kept, level) ==
  LET at == {i \in DOMAIN kept : SameBand(kept[i], level)}
  IN IF at = {} THEN Append(kept, level)
     ELSE [i \in DOMAIN kept |->
             IF i \in at /\ Better(level, kept[i]) THEN level ELSE kept[i]]

dedupeLevelsByBand(levels) ==
  LET upTo[n \in 0..Len(levels)] ==
        IF n = 0 THEN <<>> ELSE AddToBand(upTo[n - 1], levels[n])
  IN upTo[Len(levels)]

-----------------------------------------------------------------------------
(* Windows.                                                                *)

windowKey(window) == <<window.windowIndex, window.startTime, window.endTime>>

\* The touches and the breakout identify a scenario; None if either is missing.
levelScenarioSignature(level) ==
  IF level.failedTouches = <<>> \/ level.breakoutTime = 0 THEN None
  ELSE <<level.failedTouches, level.breakoutTime>>

\* The levels of a window go by one after the other: a breakout that was seen
\* before is left out, as is one without a signature.
ScanLevel(scan, level) ==
  LET signature == levelScenarioSignature(level)
  IN IF ~isBreakoutResistanceLevel(level)
     THEN [scan EXCEPT !.levels = Append(@, level)]
     ELSE IF signature = None \/ signature \in scan.seen THEN scan
     ELSE [seen |-> scan.seen \cup {signature},
           levels |-> Append(scan.levels, level), new |-> TRUE]

Scanned(seen, levels) ==
  LET upTo[n \in 0..Len(levels)] ==
        IF n = 0 THEN [seen |-> seen, levels |-> <<>>, new |-> FALSE]
        ELSE ScanLevel(upTo[n - 1], levels[n])
  IN upTo[Len(levels)]

\* A window stays if it brings a breakout no earlier window had, and loses the
\* breakouts that an earlier window or level had.
AddWindow(shown, window) ==
  LET scan == Scanned(shown.seen, window.levels)
  IN [seen |-> scan.seen,
      kept |-> IF scan.new
               THEN Append(shown.kept, [window EXCEPT !.levels = scan.levels])
               ELSE shown.kept]

dedupeScenarioWindows(windows) ==
  LET upTo[n \in 0..Len(windows)] ==
        IF n = 0 THEN [seen |-> {}, kept |-> <<>>]
        ELSE AddWindow(upTo[n - 1], windows[n])
  IN upTo[Len(windows)].kept

\* The window a key selects, or the first one; its levels as they are listed.
selectedWindow(windows, key) ==
  LET shown == dedupeScenarioWindows(windows)
      match == Find(shown, LAMBDA w : windowKey(w) = key)
  IN IF match = None THEN First(shown) ELSE match

visibleWindowLevels(windows, key, view) ==
  LET window == selectedWindow(windows, key)
  IN IF window = None THEN <<>>
     ELSE filterLevelsByView(dedupeLevelsByBand(window.levels), view)

selectedLevel(windows, wKey, lKey, view) ==
  LET sorted == sortLevels(visibleWindowLevels(windows, wKey, view))
      match  == Find(sorted, LAMBDA l : levelKey(l) = lKey)
  IN IF match = None THEN First(sorted) ELSE match

\* The keys a fresh answer, or a click on a window, selects.
KeyOf(thing, Key(_)) == IF thing = None THEN None ELSE Key(thing)

InitialLevelKey(window, view) ==
  IF window = None THEN None
  ELSE KeyOf(First(sortLevels(filterLevelsByView(window.levels, view))), levelKey)

-----------------------------------------------------------------------------
(* Strategy groups and trades.                                             *)

groupKey(group) == group.takeProfitRate

tradeKey(trade) ==
  <<trade.takeProfitRate, trade.windowIndex, trade.levelIndex,
    trade.buyTime, trade.sellTime>>

pickBestStrategyGroup(groups) ==
  First(StableSort(groups, LAMBDA a, b : a.profit > b.profit))

\* The group shown is the one selected, or the first.
activeStrategyGroup(groups, key) ==
  LET match == Find(groups, LAMBDA g : groupKey(g) = key)
  IN IF match = None THEN First(groups) ELSE match

FiveMinutes == 5

\* Variant: the first trade that is near enough is taken.
FirstNearTrade(groups, time) ==
  Find(FlattenSeq([g \in DOMAIN groups |->
         [t \in DOMAIN groups[g].trades |->
            [group |-> groups[g], trade |-> groups[g].trades[t]]]]),
       LAMBDA m : Distance(m.trade.buyTime, time) <= FiveMinutes)

\* The first of the trades bought nearest to a time, at most five minutes off.
findNearestTradeByBuyTime(groups, time) ==
  LET trade(at) == groups[at[1]].trades[at[2]]
      off(at) == Distance(trade(at).buyTime, time)
      timed == {at \in UNION {{g} \X DOMAIN groups[g].trades : g \in DOMAIN groups} :
                  trade(at).buyTime # 0}
      before == {p \in timed \X timed :
                   \/ off(p[1]) < off(p[2])
                   \/ off(p[1]) = off(p[2]) /\ Earlier(p[1], p[2])}
      best == Least(timed, before)
  IN IF timed # {} /\ off(best) <= FiveMinutes
     THEN [group |-> groups[best[1]], trade |-> trade(best)] ELSE None

\* Variant: the first level of the window is taken.
FirstLevel(window, trade) == IF window = None THEN None ELSE First(window.levels)

\* focusTrade: the window of the trade, if it is shown, and in it the level of
\* the trade's band, preferably the one with the trade's breakout.
TradeWindow(windows, trade) ==
  Find(dedupeScenarioWindows(windows), LAMBDA w : w.windowIndex = trade.windowIndex)

TradeLevel(window, trade) ==
  LET matched == IF window = None THEN <<>>
                 ELSE SelectSeq(window.levels, LAMBDA l : l.band = trade.band)
      exact   == Find(matched, LAMBDA l : l.breakoutTime = trade.breakoutTime)
      broken  == Find(matched, LAMBDA l : l.breakoutTime # 0)
  IN IF exact # None THEN exact ELSE IF broken # None THEN broken
     ELSE First(matched)

-----------------------------------------------------------------------------
(* The token field and the range a load starts from.                       *)

\* Tokens of the pool without duplicates, in the order of the list.
candidateTokenAddressOptions(items) ==
  Sublist(items, {i \in DOMAIN items :
                    items[i] # None /\ \A j \in 1..(i - 1) : items[j] # items[i]})

\* From the entry into the pool for a candidate, else the last five days.
resolveDefaultRange(token, source, candidates) ==
  IF source = "system" /\ token \in ToSet(candidates) THEN "since_entry"
                                                      ELSE "five_days"

-----------------------------------------------------------------------------
(* A snapshot stored with a signal, drawn as one window with one level and *)
(* one trade.                                                              *)

\* Numbers that are missing become 0.
normalizeSnapshotLevel(level) ==
  IF level = None THEN None
  ELSE [level EXCEPT !.score = IF @ = None THEN 0 ELSE @]

normalizeSnapshotWindow(window, level) ==
  IF window = None THEN None
  ELSE [window EXCEPT
          !.windowIndex = IF @ = 0 THEN 1 ELSE @,
          !.levels = IF level = None THEN <<>> ELSE <<level>>]

\* exit / entry - 1, in percent, and 0 unless both are positive.
computePreviewProfitRate(entry, exit) ==
  IF entry <= 0 \/ exit <= 0 THEN 0 ELSE (100 * exit) \div entry - 100

\* The buy point is the breakout's, or the signal itself; the sell point is
\* the exit the sell signal carries.  The trade names no breakout.
buildSignalPreviewTrade(buy, sell, level, window) ==
  [takeProfitRate |-> IF sell = None THEN 0 ELSE sell.profitRate,
   windowIndex |-> window.windowIndex, levelIndex |-> 1, band |-> level.band,
   breakoutTime |-> 0,
   buyTime |-> IF level.breakoutTime # 0 THEN level.breakoutTime ELSE buy.time,
   sellTime |-> IF sell = None THEN 0 ELSE sell.exitTime,
   profitRate |-> IF sell = None THEN 0
                  ELSE computePreviewProfitRate(buy.cap, sell.cap)]
=============================================================================
