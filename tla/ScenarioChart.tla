---------------------------- MODULE ScenarioChart ----------------------------
(***************************************************************************)
(* The workspace around the chart: which token the form names, which       *)
(* answer of the backend is on the chart, what the page says about it and  *)
(* what is selected in it.  Levels, raw klines, backtests and signal       *)
(* snapshots are asked for independently and answered in any order; a      *)
(* position's scenario is a chain of two requests that reads the form      *)
(* again in between.                                                       *)
(*                                                                         *)
(* An answer is numbered when it arrives ("by"), so that parts of the page *)
(* can be traced to it.  The tab some handlers open is in TradeStream.     *)
(***************************************************************************)
EXTENDS ScenarioView

CONSTANTS
  Tokens,            \* token addresses
  LevelAnswers,      \* answers to a request for levels: [klines, windows]
  BacktestAnswers,   \* answers to a backtest: [klines, windows, groups, trades]
  Signals,           \* stored signals
  Positions,         \* rows of the position list: [token, candidateAt, time, open, close]
  Pools,             \* contents the candidate list takes
  MaxRequests,       \* bound: requests in flight at once
  MaxClicks,         \* bound: operations of the user
  Clicks             \* operations the user makes

ASSUME ScenarioChartAssumption ==
  /\ None \notin Tokens
  /\ MaxRequests \in Nat \ {0}
  /\ MaxClicks \in Nat
  /\ \A a \in LevelAnswers \cup BacktestAnswers :
       /\ a.klines \in Nat
       /\ a.windows \in Seq(ToSet(a.windows))
       /\ \A window \in ToSet(a.windows) :
            /\ {"windowIndex", "startTime", "endTime", "levels"} \subseteq DOMAIN window
            /\ window.levels \in Seq(ToSet(window.levels))
            /\ \A level \in ToSet(window.levels) : level.score \in Int
  /\ \A signal \in Signals :
       /\ signal.token \in Tokens /\ signal.buy \in Signals \cup {None}
       /\ signal.snapshot # None =>
            LET level == signal.snapshot.level
                window == signal.snapshot.window
            IN /\ level # None => "score" \in DOMAIN level /\ level.score \in Int \cup {None}
               /\ window # None =>
                    {"windowIndex", "startTime", "endTime", "levels"} \subseteq DOMAIN window
  /\ \A row \in Positions :
       row.token \in Tokens /\ row.open \in Signals \cup {None} /\ row.time \in Nat
  /\ \A a \in BacktestAnswers :
       /\ a.groups \in Seq(ToSet(a.groups))
       /\ \A g \in ToSet(a.groups) :
            /\ g.trades \in Seq(ToSet(g.trades))
            /\ \A t \in ToSet(g.trades) :
                 t.buyTime \in Nat /\ [group |-> g, trade |-> t] # None
  /\ \A items \in Pools : items \in Seq(Tokens \cup {None})

VARIABLES
  form,              \* [token, source]: form.tokenAddress and form.dataSource
  touched, auto,     \* tokenAddressTouched, hasAutoSelectedCandidateToken
  candidates,        \* tokens of candidateMonitorItems
  chart,             \* [result, strategy, preview, range]: store.result,
                     \* store.strategyBacktestResult, signalPreviewTrades, loadedRange
  pick,              \* [window, level, trade, group]: the keys selected
  levelView,
  chartRange,        \* selectedChartRange, as the answer it was drawn on
  busy,              \* [loading, backtest]: the two flags of the store
  marks,             \* [viewing, deleting, blacklisting]: rows whose button spins
  requests,
  answers, clicks

vars == <<form, touched, auto, candidates, chart, pick, levelView, chartRange,
          busy, marks, requests, answers, clicks>>

formVars == <<form, touched, auto, candidates>>
pageVars == <<chart, pick, levelView, chartRange>>

-----------------------------------------------------------------------------
(* What the page computes from its state.                                  *)

NoPick == [window |-> None, level |-> None, trade |-> None, group |-> None]

\* null, shown as no klines, no windows and no groups.
NoAnswer == [by |-> 0, klines |-> 0, windows |-> <<>>, groups |-> <<>>]
NoPreview == [by |-> 0, trade |-> None]
NoRange == [by |-> 0, source |-> None]

\* Variant: the preview of a snapshot stays on the chart.
KeepPreview(data, range) ==
  [result |-> data, strategy |-> NoAnswer, preview |-> chart.preview, range |-> range]

\* A load takes the place of the backtest and of the preview of a snapshot.
Loaded(data, range) ==
  [result |-> data, strategy |-> NoAnswer, preview |-> NoPreview, range |-> range]

\* Variant: the card goes on to name the range of the last load.
KeepLabel(klines, source) == chart.range

\* The range named after an answer, or none if it has no klines.
RangeOf(klines, source) ==
  IF klines = 0 THEN NoRange ELSE [by |-> answers + 1, source |-> source]

\* chartScenarioResult: the backtest if there is one, else the last load.
Shown(c) == IF c.strategy.by # 0 THEN c.strategy ELSE c.result
Windows(c) == Shown(c).windows

\* The trades drawn: the preview of a snapshot before the active group's.
activeStrategyTrades(c, p) ==
  IF c.preview.by # 0 THEN <<c.preview.trade>>
  ELSE LET group == activeStrategyGroup(c.strategy.groups, p.group)
       IN IF group = None THEN <<>> ELSE group.trades

SelectedWindow == selectedWindow(Windows(chart), pick.window)
SelectedLevel ==
  selectedLevel(Windows(chart), pick.window, pick.level, levelView)

\* focusTrade
FocusTrade(windows, p, trade) ==
  LET window == TradeWindow(windows, trade)
      level  == TradeLevel(window, trade)
  IN [p EXCEPT !.window = IF window = None THEN @ ELSE windowKey(window),
               !.level = IF level = None THEN @ ELSE levelKey(level),
               !.trade = tradeKey(trade)]

-----------------------------------------------------------------------------
(* Requests in flight.                                                     *)

NoRequest == [op |-> "none"]
Slots == 1..MaxRequests
InFlight(ops) == {s \in Slots : requests[s].op \in ops}
FreeSlots == InFlight({"none"})
Free == CHOOSE s \in FreeSlots : TRUE

Send(request) ==
  /\ FreeSlots # {}
  /\ requests' = [requests EXCEPT ![Free] = request]

\* Requests of the store's first flag; the second belongs to backtests.
Loads == {"levels", "raw"}

\* Variant: a load of raw klines does not reset the flag.
IdleLevels(op) ==
  [loading |-> busy.loading /\ op # "levels",
   backtest |-> busy.backtest /\ op # "backtest"]

\* The flags once a request has ended, whichever way.
Idle(op) ==
  [loading |-> busy.loading /\ op \notin Loads,
   backtest |-> busy.backtest /\ op # "backtest"]

Click(name) ==
  /\ name \in Clicks
  /\ clicks < MaxClicks
  /\ clicks' = clicks + 1

Init ==
  /\ form = [token |-> None, source |-> "system"]
  /\ touched = FALSE /\ auto = FALSE
  /\ candidates = <<>>
  /\ chart = [result |-> NoAnswer, strategy |-> NoAnswer,
              preview |-> NoPreview, range |-> NoRange]
  /\ pick = NoPick
  /\ levelView = "resistance"
  /\ chartRange = None
  /\ busy = [loading |-> FALSE, backtest |-> FALSE]
  /\ marks = [viewing |-> None, deleting |-> None, blacklisting |-> None]
  /\ requests = [s \in Slots |-> NoRequest]
  /\ answers = 0
  /\ clicks = 0

-----------------------------------------------------------------------------
(* The token field and the candidate list.                                 *)

\* Typing into the field or choosing an option: markTokenAddressTouched.
TypeToken(token) ==
  /\ Click("type")
  /\ form' = [form EXCEPT !.token = token]
  /\ touched' = TRUE
  /\ UNCHANGED <<auto, candidates, pageVars, busy, marks, requests, answers>>

\* Variant: a token the user has chosen is not respected.
AutoSelectAlways(items) ==
  LET options == candidateTokenAddressOptions(items)
  IN IF auto \/ options = <<>> THEN UNCHANGED <<form, auto>>
     ELSE /\ form' = [form EXCEPT !.token = options[1]]
          /\ auto' = TRUE

\* The watch on candidateTokenAddressOptions takes the first candidate once.
AutoSelect(items) ==
  LET options == candidateTokenAddressOptions(items)
  IN IF auto \/ touched \/ options = <<>> THEN UNCHANGED <<form, auto>>
     ELSE /\ form' = [form EXCEPT !.token = options[1]]
          /\ auto' = TRUE

\* A snapshot, an event or a load changes the candidate list.
CandidatesChange(items) ==
  /\ items # candidates
  /\ candidates' = items
  /\ AutoSelect(items)
  /\ UNCHANGED <<touched, pageVars, busy, marks, requests, answers, clicks>>

\* handleDeleteCandidate and handleBlacklistCandidate, once confirmed.
DropCandidate(op, token) ==
  /\ Click(op)
  /\ token \in ToSet(candidates)
  /\ marks[op] # token
  /\ Send([op |-> op, token |-> token])
  /\ marks' = [marks EXCEPT ![op] = token]
  /\ UNCHANGED <<formVars, pageVars, busy, answers>>

DropOps == {"deleting", "blacklisting"}

\* If the form names the token that is gone, the next candidate takes its place
\* and the field counts as untouched again; else the watch sees the new list.
DropAnswered(s) ==
  /\ requests[s].op \in DropOps
  /\ LET token == requests[s].token
         left  == Sublist(candidates, {i \in DOMAIN candidates : candidates[i] # token})
     IN /\ candidates' = left
        /\ IF form.token = token
           THEN /\ form' = [form EXCEPT !.token = First(left)]
                /\ auto' = (left # <<>>)
                /\ touched' = FALSE
           ELSE AutoSelect(left) /\ UNCHANGED touched
        /\ marks' = [marks EXCEPT ![requests[s].op] = None]
  /\ requests' = [requests EXCEPT ![s] = NoRequest]
  /\ UNCHANGED <<pageVars, busy, answers, clicks>>

-----------------------------------------------------------------------------
(* Levels of a range.                                                      *)

\* loadRangeLevels up to its await; row is the position of a chain, or None.
SendLevels(token, range, row) ==
  IF token = None THEN UNCHANGED <<requests, busy>>
  ELSE /\ Send([op |-> "levels", range |-> range, row |-> row])
       /\ busy' = [busy EXCEPT !.loading = TRUE]

\* The load button, disabled while loading.
loadKlineLevels ==
  /\ Click("levels")
  /\ ~busy.loading
  /\ chartRange' = None
  /\ SendLevels(form.token,
                resolveDefaultRange(form.token, form.source, candidates), None)
  /\ UNCHANGED <<formVars, chart, pick, levelView, marks, answers>>

loadSelectedRangeLevels ==
  /\ Click("selected")
  /\ ~busy.loading
  /\ chartRange # None
  /\ SendLevels(form.token, "selected", None)
  /\ UNCHANGED <<formVars, pageVars, marks, answers>>

\* loadPositionCandidateScenario up to its first await.
loadPositionCandidateScenario(row) ==
  /\ Click("position")
  /\ row.candidateAt # 0
  /\ form' = [token |-> row.token, source |-> "system"]
  /\ touched' = TRUE
  /\ SendLevels(row.token, "since_entry", row)
  /\ UNCHANGED <<auto, candidates, pageVars, marks, answers>>

\* The answer is shown; a position's chain goes on with a backtest of the
\* token the form names by now.
LevelsAnswered(s) ==
  /\ requests[s].op = "levels"
  /\ \E a \in LevelAnswers :
       LET by    == answers + 1
           first == First(dedupeScenarioWindows(a.windows))
           chain == requests[s].row # None /\ a.klines > 0 /\ form.token # None
       IN /\ chart' = Loaded([by |-> by, klines |-> a.klines,
                              windows |-> a.windows, groups |-> <<>>],
                             [by |-> by, source |-> requests[s].range])
          /\ pick' = [NoPick EXCEPT !.window = KeyOf(first, windowKey),
                                    !.level = InitialLevelKey(first, levelView)]
          /\ requests' = [requests EXCEPT ![s] =
               IF chain THEN [op |-> "backtest", row |-> requests[s].row]
               ELSE NoRequest]
          /\ busy' = [Idle("levels") EXCEPT !.backtest = @ \/ chain]
  /\ answers' = answers + 1
  /\ UNCHANGED <<formVars, levelView, chartRange, marks, clicks>>

-----------------------------------------------------------------------------
(* Raw klines of a candidate.                                              *)

loadCandidateSystemKlines(token) ==
  /\ Click("candidate")
  /\ token \in ToSet(candidates)
  /\ form' = [form EXCEPT !.token = token]
  /\ touched' = TRUE
  /\ Send([op |-> "raw"])
  /\ busy' = [busy EXCEPT !.loading = TRUE]
  /\ UNCHANGED <<auto, candidates, pageVars, marks, answers>>

RawAnswered(s) ==
  /\ requests[s].op = "raw"
  /\ \E klines \in {a.klines : a \in LevelAnswers} :
       chart' = Loaded([by |-> answers + 1, klines |-> klines,
                        windows |-> <<>>, groups |-> <<>>],
                       RangeOf(klines, "everything"))
  /\ pick' = NoPick
  /\ chartRange' = None
  /\ busy' = Idle("raw")
  /\ requests' = [requests EXCEPT ![s] = NoRequest]
  /\ answers' = answers + 1
  /\ UNCHANGED <<formVars, levelView, marks, clicks>>

-----------------------------------------------------------------------------
(* Backtests.                                                              *)

\* The backtest button, disabled while a backtest runs.
runStrategyForLoadedRange ==
  /\ Click("backtest")
  /\ ~busy.backtest
  /\ form.token # None
  /\ Send([op |-> "backtest", row |-> None])
  /\ busy' = [busy EXCEPT !.backtest = TRUE]
  /\ UNCHANGED <<formVars, pageVars, marks, answers>>

\* focusPositionTrade
FocusPosition(c, p, row) ==
  LET match == findNearestTradeByBuyTime(c.strategy.groups, row.time)
  IN IF row.time = 0 \/ match = None THEN p
     ELSE FocusTrade(Windows(c), [p EXCEPT !.group = groupKey(match.group)],
                     match.trade)

\* The best group is shown and its first trade, or else the first of all; a
\* position's chain then looks for the position's own trade.
BacktestAnswered(s) ==
  /\ requests[s].op = "backtest"
  /\ \E a \in BacktestAnswers :
       LET by    == answers + 1
           best  == pickBestStrategyGroup(a.groups)
           trade == IF best # None /\ best.trades # <<>> THEN best.trades[1]
                    ELSE First(a.trades)
           data  == [by |-> by, klines |-> a.klines, windows |-> a.windows,
                     groups |-> a.groups]
           shown == [result |-> [data EXCEPT !.groups = <<>>], strategy |-> data,
                     preview |-> NoPreview, range |-> chart.range]
           grouped == [pick EXCEPT !.group = KeyOf(best, groupKey)]
           focused == IF trade = None THEN grouped
                      ELSE FocusTrade(a.windows, grouped, trade)
       IN /\ chart' = shown
          /\ pick' = IF requests[s].row = None THEN focused
                     ELSE FocusPosition(shown, focused, requests[s].row)
  /\ busy' = Idle("backtest")
  /\ requests' = [requests EXCEPT ![s] = NoRequest]
  /\ answers' = answers + 1
  /\ UNCHANGED <<formVars, levelView, chartRange, marks, clicks>>

-----------------------------------------------------------------------------
(* Snapshots of signals.                                                   *)

\* The requests that end with the button of a closed position at rest.
ViewOps == {"view", "view_buy"}

focusSignalSnapshot(signal) ==
  /\ Click("snapshot")
  /\ Send([op |-> "signal", buy |-> signal, sell |-> None])
  /\ UNCHANGED <<formVars, pageVars, busy, marks, answers>>

\* handleViewClosedPosition reads both signals of a closed position.
handleViewClosedPosition(row) ==
  /\ Click("view")
  /\ row.open # None
  /\ marks.viewing # row
  /\ Send([op |-> "view", buy |-> row.open, sell |-> row.close])
  /\ marks' = [marks EXCEPT !.viewing = row]
  /\ UNCHANGED <<formVars, pageVars, busy, answers>>

Complete(snapshot) ==
  /\ snapshot # None
  /\ snapshot.klines > 0 /\ snapshot.level # None /\ snapshot.window # None

\* The snapshot of the signal "of" is put on the chart with the buy and the
\* sell it belongs to, in place of any load or backtest.
ShowSnapshot(of, buy, sell) ==
  LET by     == answers + 1
      stored == buy.snapshot
      level  == normalizeSnapshotLevel(stored.level)
      window == normalizeSnapshotWindow(stored.window, level)
      trade  == buildSignalPreviewTrade(buy, sell, level, window)
  IN /\ form' = [token |-> of.token, source |-> "system"]
     /\ chart' = [result |-> [by |-> by, klines |-> stored.klines,
                              windows |-> <<window>>, groups |-> <<>>],
                  strategy |-> NoAnswer, preview |-> [by |-> by, trade |-> trade],
                  range |-> [by |-> by, source |-> "snapshot"]]
     /\ pick' = [window |-> windowKey(window), level |-> levelKey(level),
                 trade |-> tradeKey(trade), group |-> None]
     /\ chartRange' = None
     /\ answers' = answers + 1

\* loadTradeSignalSnapshot: a sell without a snapshot is shown with its buy's,
\* which is fetched first; without a complete snapshot nothing changes.
SignalAnswered(s) ==
  /\ requests[s].op \in {"signal", "view"}
  /\ LET signal == requests[s].buy
         refer  == signal.snapshot = None /\ signal.type = "sell" /\ signal.buy # None
        second == IF requests[s].op = "view" THEN "view_buy" ELSE "buy_of"
     IN /\ requests' = [requests EXCEPT ![s] =
             IF refer THEN [op |-> second, sell |-> signal] ELSE NoRequest]
        /\ marks' = IF requests[s].op = "view" /\ ~refer
                    THEN [marks EXCEPT !.viewing = None] ELSE marks
        /\ IF Complete(signal.snapshot)
           THEN ShowSnapshot(signal, signal, requests[s].sell)
           ELSE UNCHANGED <<form, chart, pick, chartRange, answers>>
  /\ UNCHANGED <<touched, auto, candidates, levelView, busy, clicks>>

BuyAnswered(s) ==
  /\ requests[s].op \in {"buy_of", "view_buy"}
  /\ LET sell == requests[s].sell
     IN IF Complete(sell.buy.snapshot)
        THEN ShowSnapshot(sell, sell.buy, sell)
        ELSE UNCHANGED <<form, chart, pick, chartRange, answers>>
  /\ marks' = IF requests[s].op \in ViewOps THEN [marks EXCEPT !.viewing = None]
              ELSE marks
  /\ requests' = [requests EXCEPT ![s] = NoRequest]
  /\ UNCHANGED <<touched, auto, candidates, levelView, busy, clicks>>

-----------------------------------------------------------------------------
(* A request fails: only its flag or mark is reset.                        *)

RequestFailed(s) ==
  /\ requests[s] # NoRequest
  /\ busy' = Idle(requests[s].op)
  /\ LET op == requests[s].op
     IN marks' = [viewing |-> IF op \in ViewOps THEN None ELSE marks.viewing,
                  deleting |-> IF op = "deleting" THEN None ELSE marks.deleting,
                  blacklisting |-> IF op = "blacklisting" THEN None
                                   ELSE marks.blacklisting]
  /\ requests' = [requests EXCEPT ![s] = NoRequest]
  /\ UNCHANGED <<formVars, pageVars, answers, clicks>>

-----------------------------------------------------------------------------
(* Selection.                                                              *)

\* Variant: a drag over an empty chart selects.
RangeOfNothing ==
  /\ Click("range")
  /\ chartRange' = Shown(chart).by
  /\ UNCHANGED <<formVars, chart, pick, levelView, busy, marks, requests, answers>>

\* handleChartRangeSelected, on the klines that are shown.
RangeSelected ==
  /\ Click("range")
  /\ Shown(chart).klines > 0
  /\ chartRange' = Shown(chart).by
  /\ UNCHANGED <<formVars, chart, pick, levelView, busy, marks, requests, answers>>

Select(new) ==
  /\ pick' = new
  /\ UNCHANGED <<formVars, chart, levelView, chartRange, busy, marks, requests, answers>>

selectWindow(window) ==
  /\ Click("window")
  /\ Select([pick EXCEPT !.window = windowKey(window),
                         !.level = InitialLevelKey(window, levelView)])

focusLevel(level) ==
  /\ Click("level")
  /\ Select([pick EXCEPT !.level = levelKey(level)])

focusTrade(trade) ==
  /\ Click("trade")
  /\ Select(FocusTrade(Windows(chart), pick, trade))

selectStrategyGroup(group) ==
  /\ Click("group")
  /\ LET grouped == [pick EXCEPT !.group = groupKey(group)]
     IN Select(IF group.trades = <<>> THEN grouped
               ELSE FocusTrade(Windows(chart), grouped, group.trades[1]))

\* The watch on levelView selects the first level of the new view.
ChangeLevelView(view) ==
  /\ Click("levelView")
  /\ view # levelView
  /\ levelView' = view
  /\ pick' = [pick EXCEPT !.level =
       KeyOf(First(sortLevels(visibleWindowLevels(Windows(chart), pick.window, view))),
             levelKey)]
  /\ UNCHANGED <<formVars, chart, chartRange, busy, marks, requests, answers>>

-----------------------------------------------------------------------------
Selection ==
  \/ RangeSelected
  \/ \E w \in ToSet(dedupeScenarioWindows(Windows(chart))) : selectWindow(w)
  \/ \E l \in ToSet(visibleWindowLevels(Windows(chart), pick.window, levelView)) :
       focusLevel(l)
  \/ \E t \in ToSet(activeStrategyTrades(chart, pick)) : focusTrade(t)
  \/ \E g \in ToSet(chart.strategy.groups) : selectStrategyGroup(g)
  \/ \E view \in {"all", "support", "resistance"} : ChangeLevelView(view)

Call ==
  \/ \E token \in Tokens \cup {None} : TypeToken(token)
  \/ \E op \in DropOps, token \in Tokens : DropCandidate(op, token)
  \/ loadKlineLevels \/ loadSelectedRangeLevels \/ runStrategyForLoadedRange
  \/ \E row \in Positions : loadPositionCandidateScenario(row)
                              \/ handleViewClosedPosition(row)
  \/ \E token \in Tokens : loadCandidateSystemKlines(token)
  \/ \E signal \in Signals : focusSignalSnapshot(signal)

Answer(s) ==
  \/ LevelsAnswered(s) \/ RawAnswered(s) \/ BacktestAnswered(s)
  \/ SignalAnswered(s) \/ BuyAnswered(s) \/ DropAnswered(s)

Next ==
  \/ Call \/ Selection
  \/ \E items \in Pools : CandidatesChange(items)
  \/ \E s \in Slots : Answer(s) \/ RequestFailed(s)

Spec == Init /\ [][Next]_vars

-----------------------------------------------------------------------------
(* Properties.                                                             *)

Slot == {"none", "levels", "raw", "backtest", "signal", "buy_of"}
          \cup DropOps \cup ViewOps

\* The variables keep their shapes.
TypeOK ==
  /\ form.token \in Tokens \cup {None} /\ form.source = "system"
  /\ touched \in BOOLEAN /\ auto \in BOOLEAN
  /\ levelView \in {"all", "support", "resistance"}
  /\ busy \in [loading : BOOLEAN, backtest : BOOLEAN]
  /\ \A s \in Slots : requests[s].op \in Slot
  /\ answers \in Nat /\ clicks \in 0..MaxClicks
  /\ chartRange \in {None} \cup 1..answers

\* The trades drawn on the chart, its klines and its windows are always of one
\* answer, in whichever order answers arrive: a preview only lies over its own
\* snapshot, a backtest's groups only over its own klines.
TradesMatchChart ==
  /\ chart.preview.by # 0 =>
       chart.strategy.by = 0 /\ chart.result.by = chart.preview.by
  /\ chart.strategy.by # 0 => chart.result.by = chart.strategy.by

\* Without a backtest the range the page names is the range of the answer on
\* the chart, however many loads overlapped.  (A backtest that arrives late
\* covers the range it was started for, which the page no longer names.)
LabelMatchesChart ==
  chart.strategy.by = 0 =>
    /\ chart.range.by # 0 => chart.range.by = chart.result.by
    /\ chart.result.klines > 0 => chart.range.by # 0

\* A flag or a mark is set only while a request that will reset it is in flight.
BusyMeansInFlight ==
  /\ busy.loading => InFlight(Loads) # {}
  /\ busy.backtest => InFlight({"backtest"}) # {}
  /\ \A op \in DropOps : marks[op] # None => InFlight({op}) # {}
  /\ marks.viewing # None => InFlight(ViewOps) # {}

\* A change of the candidate list takes a token the user has chosen out of the
\* field only if it took it out of the list.
ChosenTokenKept ==
  [][touched /\ candidates' # candidates /\ form'.token # form.token
       => form.token \notin ToSet(candidates')]_vars

\* Each breakout of an answer is shown in one window and once, and a window is
\* shown only if it is the first with one of its breakouts.
ScenariosOnce ==
  LET Found(windows) ==
        {at \in UNION {{w} \X DOMAIN windows[w].levels : w \in DOMAIN windows} :
           /\ isBreakoutResistanceLevel(windows[at[1]].levels[at[2]])
           /\ levelScenarioSignature(windows[at[1]].levels[at[2]]) # None}
      Signature(windows, at) ==
        levelScenarioSignature(windows[at[1]].levels[at[2]])
      all   == Windows(chart)
      shown == dedupeScenarioWindows(all)
      new   == {at \in Found(all) : \A other \in Found(all) :
                 Signature(all, other) = Signature(all, at) =>
                   at[1] < other[1] \/ (at[1] = other[1] /\ at[2] <= other[2])}
  IN /\ {Signature(shown, at) : at \in Found(shown)}
          = {Signature(all, at) : at \in Found(all)}
     /\ \A a, b \in Found(shown) : Signature(shown, a) = Signature(shown, b) => a = b
     /\ {windowKey(shown[i]) : i \in DOMAIN shown} = {windowKey(all[at[1]]) : at \in new}

\* Of every band of the window one level is listed, and none of its band is
\* better (has a breakout the other lacks, or a higher score).
BandsOnce ==
  SelectedWindow # None =>
    LET levels == SelectedWindow.levels
        shown  == dedupeLevelsByBand(levels)
    IN \A level \in ToSet(levels) :
         /\ Cardinality({i \in DOMAIN shown : SameBand(shown[i], level)}) = 1
         /\ \A other \in ToSet(shown) : SameBand(other, level) => ~Better(level, other)

\* The window selector and the level list show every finding once.
FindingsShownOnce == ScenariosOnce /\ BandsOnce

\* The trade a position is shown with is one of the answer's, bought within five
\* minutes of the position, and none was bought nearer; there is none only if
\* no trade was bought within five minutes.
NearestIsNearest ==
  LET trades == UNION {ToSet(g.trades) : g \in ToSet(chart.strategy.groups)}
      near(t) == {trade \in trades : trade.buyTime # 0 /\ Distance(trade.buyTime, t) <= FiveMinutes}
  IN \A row \in Positions :
       LET match == findNearestTradeByBuyTime(chart.strategy.groups, row.time)
       IN IF near(row.time) = {} THEN match = None
          ELSE /\ match # None /\ match.trade \in near(row.time)
               /\ match.trade \in ToSet(match.group.trades)
               /\ \A trade \in near(row.time) :
                    Distance(match.trade.buyTime, row.time) <= Distance(trade.buyTime, row.time)

\* Focusing a trade of a backtest selects its window, if that is shown, and a
\* level of its band, and the one that broke out with the trade if there is one:
\* what the chart highlights is what the trade was bought on, although window,
\* level and view are selected apart.  The keys of levels leave their bounds
\* out and the list leaves levels out, so that this is so only where the levels
\* of the band are listed and no listed level of another band has a key of theirs.
FocusLandsOnBand ==
  [][\A trade \in ToSet(activeStrategyTrades(chart, pick))' :
       (chart'.strategy.by # 0 /\ pick'.trade = tradeKey(trade) /\ pick.trade # pick'.trade)
       => LET windows  == Windows(chart')
              window   == selectedWindow(windows, pick'.window)
              listed   == ToSet(visibleWindowLevels(windows, pick'.window, levelView'))
              ofBand   == {level \in ToSet(window.levels) : level.band = trade.band}
              selected == selectedLevel(windows, pick'.window, pick'.level, levelView')
              mistaken == {level \in listed \ ofBand :
                             \E own \in ofBand : levelKey(own) = levelKey(level)}
          IN TradeWindow(windows, trade) # None =>
               /\ window.windowIndex = trade.windowIndex
               /\ ofBand # {} /\ ofBand \subseteq listed /\ mistaken = {} =>
                    /\ selected \in ofBand
                    /\ (\E level \in ofBand : level.breakoutTime = trade.breakoutTime)
                         => selected.breakoutTime = trade.breakoutTime]_vars
=============================================================================
