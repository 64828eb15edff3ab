------------------------- MODULE ScenarioChartProofs -------------------------
(***************************************************************************)
(* Proofs about ScenarioChart: whatever the answers of the backend hold    *)
(* and in whichever order they arrive, the trades and the range on the     *)
(* page belong to the answer on the chart, a flag or a mark is set only    *)
(* while a request that resets it is in flight, and a token the user has   *)
(* chosen stays in the form as long as it is a candidate; every finding of *)
(* an answer is shown once, and a position with the nearest trade.         *)
(***************************************************************************)
EXTENDS ScenarioChart, OrderingProofs

\* The two halves of the inductive invariant: answers are numbered from 1, and
\* requests, flags and marks keep their shapes.
ChartInv == answers \in Nat /\ TradesMatchChart /\ LabelMatchesChart

FlagInv ==
  /\ DOMAIN requests = Slots
  /\ busy \in [loading : BOOLEAN, backtest : BOOLEAN]
  /\ DOMAIN marks = {"viewing", "deleting", "blacklisting"}
  /\ BusyMeansInFlight

-----------------------------------------------------------------------------
(* The chart.                                                              *)

\* An answer that is put on the chart with its own range, or with none if it
\* has no klines.
LEMMA LoadedKeepsChart ==
  ASSUME ChartInv, NEW data, NEW range,
         chart' = Loaded(data, range), answers' = answers + 1,
         data.by = answers + 1, data.klines \in Nat,
         range.by = answers + 1 \/ (range.by = 0 /\ data.klines = 0)
  PROVE  ChartInv'
BY DEF ChartInv, TradesMatchChart, LabelMatchesChart, Loaded, NoAnswer, NoPreview

LEMMA SnapshotKeepsChart ==
  ASSUME ChartInv, NEW of, NEW buy, NEW sell, ShowSnapshot(of, buy, sell)
  PROVE  ChartInv'
<1>1. chart'.strategy.by = 0 /\ chart'.result.by = answers + 1
      /\ chart'.preview.by = answers + 1 /\ chart'.range.by = answers + 1
  BY DEF ShowSnapshot, NoAnswer
<1>2. answers' = answers + 1
  BY DEF ShowSnapshot
<1> QED BY <1>1, <1>2 DEF ChartInv, TradesMatchChart, LabelMatchesChart

LEMMA SameChart ==
  ASSUME ChartInv, UNCHANGED <<chart, answers>>
  PROVE  ChartInv'
BY DEF ChartInv, TradesMatchChart, LabelMatchesChart

LEMMA LevelsKeepChart ==
  ASSUME ChartInv, NEW s \in Slots, LevelsAnswered(s)
  PROVE  ChartInv'
<1>1. PICK a \in LevelAnswers :
        chart' = Loaded([by |-> answers + 1, klines |-> a.klines,
                         windows |-> a.windows, groups |-> <<>>],
                        [by |-> answers + 1, source |-> requests[s].range])
  BY DEF LevelsAnswered
<1>2. a.klines \in Nat
  BY ScenarioChartAssumption
<1>3. answers' = answers + 1
  BY DEF LevelsAnswered
<1> QED BY <1>1, <1>2, <1>3, LoadedKeepsChart

LEMMA RawKeepsChart ==
  ASSUME ChartInv, NEW s \in Slots, RawAnswered(s)
  PROVE  ChartInv'
<1>1. PICK a \in LevelAnswers :
        chart' = Loaded([by |-> answers + 1, klines |-> a.klines,
                         windows |-> <<>>, groups |-> <<>>],
                        RangeOf(a.klines, "everything"))
  BY DEF RawAnswered
<1>2. a.klines \in Nat
  BY ScenarioChartAssumption
<1>3. answers' = answers + 1
  BY DEF RawAnswered
<1>4. \/ RangeOf(a.klines, "everything").by = answers + 1
      \/ RangeOf(a.klines, "everything").by = 0 /\ a.klines = 0
  BY DEF RangeOf, NoRange
<1> QED BY <1>1, <1>2, <1>3, <1>4, LoadedKeepsChart

\* A late backtest keeps the range of the page; it is then out of the
\* invariant's reach because a backtest is on the chart.
LEMMA BacktestKeepsChart ==
  ASSUME ChartInv, NEW s \in Slots, BacktestAnswered(s)
  PROVE  ChartInv'
<1>1. chart'.strategy.by = answers + 1 /\ chart'.result.by = answers + 1
      /\ chart'.preview.by = 0
  BY DEF BacktestAnswered, NoPreview
<1>2. answers' = answers + 1
  BY DEF BacktestAnswered
<1> QED BY <1>1, <1>2 DEF ChartInv, TradesMatchChart, LabelMatchesChart

LEMMA SignalKeepsChart ==
  ASSUME ChartInv, NEW s \in Slots, SignalAnswered(s) \/ BuyAnswered(s)
  PROVE  ChartInv'
<1>1. \/ UNCHANGED <<chart, answers>>
      \/ \E of, buy, sell : ShowSnapshot(of, buy, sell)
  BY DEF SignalAnswered, BuyAnswered
<1> QED BY <1>1, SnapshotKeepsChart, SameChart

LEMMA NextKeepsChart ==
  ASSUME ChartInv, [Next]_vars
  PROVE  ChartInv'
<1>1. CASE Call
  <2>1. UNCHANGED <<chart, answers>>
    BY <1>1 DEF Call, TypeToken, DropCandidate, loadKlineLevels,
       loadSelectedRangeLevels, runStrategyForLoadedRange,
       loadPositionCandidateScenario, handleViewClosedPosition,
       loadCandidateSystemKlines, focusSignalSnapshot, pageVars
  <2> QED BY <2>1, SameChart
<1>2. CASE Selection
  <2>1. UNCHANGED <<chart, answers>>
    BY <1>2 DEF Selection, RangeSelected, selectWindow, focusLevel, focusTrade,
       selectStrategyGroup, ChangeLevelView, Select
  <2> QED BY <2>1, SameChart
<1>3. CASE \E items \in Pools : CandidatesChange(items)
  BY <1>3, SameChart DEF CandidatesChange, pageVars
<1>4. ASSUME NEW s \in Slots, Answer(s)
      PROVE  ChartInv'
  <2>1. CASE DropAnswered(s)
    BY <2>1, SameChart DEF DropAnswered, pageVars
  <2> QED BY <1>4, <2>1, LevelsKeepChart, RawKeepsChart, BacktestKeepsChart,
             SignalKeepsChart DEF Answer
<1>5. ASSUME NEW s \in Slots, RequestFailed(s)
      PROVE  ChartInv'
  BY <1>5, SameChart DEF RequestFailed, pageVars
<1>6. CASE UNCHANGED vars
  BY <1>6, SameChart DEF vars
<1> QED BY <1>1, <1>2, <1>3, <1>4, <1>5, <1>6 DEF Next

-----------------------------------------------------------------------------
(* The flags and the marks.                                                *)

\* What BusyMeansInFlight says, without the sets of slots.
Waits(op) == \E s \in Slots : requests[s].op = op

LEMMA BusyAsWaits ==
  BusyMeansInFlight <=>
    /\ busy.loading => Waits("levels") \/ Waits("raw")
    /\ busy.backtest => Waits("backtest")
    /\ \A op \in DropOps : marks[op] # None => Waits(op)
    /\ marks.viewing # None => Waits("view") \/ Waits("view_buy")
BY DEF BusyMeansInFlight, InFlight, Loads, DropOps, ViewOps, Waits

LEMMA BusyAsWaitsNext ==
  BusyMeansInFlight' <=>
    /\ busy'.loading => Waits("levels")' \/ Waits("raw")'
    /\ busy'.backtest => Waits("backtest")'
    /\ \A op \in DropOps : marks'[op] # None => Waits(op)'
    /\ marks'.viewing # None => Waits("view")' \/ Waits("view_buy")'
BY DEF BusyMeansInFlight, InFlight, Loads, DropOps, ViewOps, Waits

\* A request is sent from a free slot: nothing that was awaited is lost.
LEMMA SendKeepsWaits ==
  ASSUME DOMAIN requests = Slots, NEW request, Send(request)
  PROVE  /\ DOMAIN requests' = Slots
         /\ \E s \in Slots : requests'[s] = request
         /\ \A op \in Slot \ {"none"} : Waits(op) => Waits(op)'
<1>1. Free \in Slots /\ requests[Free].op = "none"
  BY DEF Send, Free, FreeSlots, InFlight
<1>2. requests' = [requests EXCEPT ![Free] = request]
  BY DEF Send
<1>3. requests'[Free] = request
  BY <1>1, <1>2
<1>4. ASSUME NEW op \in Slot \ {"none"}, Waits(op)
      PROVE  Waits(op)'
  <2>1. PICK s \in Slots : requests[s].op = op
    BY <1>4 DEF Waits
  <2>2. s # Free
    BY <1>1, <2>1, <1>4
  <2>3. requests'[s].op = op
    BY <1>2, <2>1, <2>2
  <2> QED BY <2>3 DEF Waits
<1> QED BY <1>1, <1>2, <1>3, <1>4

\* A request that ends only takes its own operation away.
LEMMA EndKeepsWaits ==
  ASSUME DOMAIN requests = Slots, NEW s \in Slots, NEW next,
         requests' = [requests EXCEPT ![s] = next],
         NEW op, Waits(op), requests[s].op # op
  PROVE  Waits(op)'
<1>1. PICK t \in Slots : requests[t].op = op
  BY DEF Waits
<1>2. requests'[t].op = op
  BY <1>1
<1> QED BY <1>2 DEF Waits

LEMMA OpsAreSlots ==
  /\ {"levels", "raw", "backtest"} \cup DropOps \cup ViewOps \subseteq Slot \ {"none"}
  /\ \A op \in DropOps : op # "levels" /\ op # "raw" /\ op # "backtest"
                         /\ op # "viewing"
BY DEF Slot, DropOps, ViewOps

LEMMA SameFlags ==
  ASSUME FlagInv, UNCHANGED <<requests, busy, marks>>
  PROVE  FlagInv'
BY DEF FlagInv, BusyMeansInFlight, InFlight

\* A click that sends a request and sets at most the flag or the mark of it.
LEMMA SendKeepsFlags ==
  ASSUME FlagInv, NEW request, Send(request),
         \/ UNCHANGED busy
         \/ busy' = [busy EXCEPT !.loading = TRUE] /\ request.op \in Loads
         \/ busy' = [busy EXCEPT !.backtest = TRUE] /\ request.op = "backtest",
         \/ UNCHANGED marks
         \/ request.op = "view" /\ \E row : marks' = [marks EXCEPT !.viewing = row]
         \/ request.op \in DropOps
            /\ \E token : marks' = [marks EXCEPT ![request.op] = token]
  PROVE  FlagInv'
<1>1. DOMAIN requests' = Slots
      /\ \A op \in Slot \ {"none"} : Waits(op) => Waits(op)'
  BY SendKeepsWaits DEF FlagInv
<1>2. Waits(request.op)'
  BY SendKeepsWaits DEF FlagInv, Waits
<1>3. busy' \in [loading : BOOLEAN, backtest : BOOLEAN]
  BY DEF FlagInv
<1>4. DOMAIN marks' = {"viewing", "deleting", "blacklisting"}
  BY DEF FlagInv
<1>5. busy'.loading => Waits("levels")' \/ Waits("raw")'
  <2>1. CASE busy.loading
    BY <2>1, <1>1, OpsAreSlots, BusyAsWaits DEF FlagInv
  <2>2. CASE ~busy.loading
    <3>1. busy'.loading => request.op \in Loads
      BY <2>2 DEF FlagInv
    <3> QED BY <3>1, <1>2 DEF Loads
  <2> QED BY <2>1, <2>2
<1>6. busy'.backtest => Waits("backtest")'
  <2>1. CASE busy.backtest
    BY <2>1, <1>1, OpsAreSlots, BusyAsWaits DEF FlagInv
  <2>2. CASE ~busy.backtest
    <3>1. busy'.backtest => request.op = "backtest"
      BY <2>2 DEF FlagInv
    <3> QED BY <3>1, <1>2
  <2> QED BY <2>1, <2>2
<1>7. ASSUME NEW op \in DropOps, marks'[op] # None
      PROVE  Waits(op)'
  <2>1. CASE marks[op] # None
    BY <2>1, <1>1, OpsAreSlots, BusyAsWaits DEF FlagInv
  <2>2. CASE marks[op] = None
    <3>1. op \in {"deleting", "blacklisting"}
      BY DEF DropOps
    <3>2. request.op = op
      BY <1>7, <2>2, <3>1 DEF FlagInv
    <3> QED BY <3>2, <1>2
  <2> QED BY <2>1, <2>2
<1>8. ASSUME marks'.viewing # None
      PROVE  Waits("view")' \/ Waits("view_buy")'
  <2>1. CASE marks.viewing # None
    BY <2>1, <1>1, OpsAreSlots, BusyAsWaits DEF FlagInv, ViewOps
  <2>2. CASE marks.viewing = None
    <3>1. request.op = "view"
      BY <1>8, <2>2 DEF FlagInv, DropOps
    <3> QED BY <3>1, <1>2
  <2> QED BY <2>1, <2>2
<1> QED BY <1>1, <1>3, <1>4, <1>5, <1>6, <1>7, <1>8, BusyAsWaitsNext DEF FlagInv

LEMMA CallKeepsFlags ==
  ASSUME FlagInv, Call
  PROVE  FlagInv'
<1>1. ASSUME NEW token, NEW range, NEW row, SendLevels(token, range, row),
             UNCHANGED marks
      PROVE  FlagInv'
  <2>1. CASE token = None
    BY <1>1, <2>1, SameFlags DEF SendLevels
  <2>2. CASE token # None
    <3>1. Send([op |-> "levels", range |-> range, row |-> row])
          /\ busy' = [busy EXCEPT !.loading = TRUE]
      BY <1>1, <2>2 DEF SendLevels
    <3> QED BY <3>1, <1>1, SendKeepsFlags DEF Loads
  <2> QED BY <2>1, <2>2
<1>2. ASSUME NEW token, TypeToken(token) PROVE FlagInv'
  BY <1>2, SameFlags DEF TypeToken
<1>3. ASSUME NEW op \in DropOps, NEW token, DropCandidate(op, token) PROVE FlagInv'
  <2>1. Send([op |-> op, token |-> token]) /\ UNCHANGED busy
        /\ marks' = [marks EXCEPT ![op] = token]
    BY <1>3 DEF DropCandidate
  <2> QED BY <2>1, SendKeepsFlags
<1>4. CASE loadKlineLevels
  BY <1>1, <1>4 DEF loadKlineLevels
<1>5. CASE loadSelectedRangeLevels
  BY <1>1, <1>5 DEF loadSelectedRangeLevels
<1>6. CASE runStrategyForLoadedRange
  <2>1. Send([op |-> "backtest", row |-> None]) /\ UNCHANGED marks
        /\ busy' = [busy EXCEPT !.backtest = TRUE]
    BY <1>6 DEF runStrategyForLoadedRange
  <2> QED BY <2>1, SendKeepsFlags
<1>7. ASSUME NEW row, loadPositionCandidateScenario(row) PROVE FlagInv'
  BY <1>1, <1>7 DEF loadPositionCandidateScenario
<1>8. ASSUME NEW row, handleViewClosedPosition(row) PROVE FlagInv'
  <2>1. Send([op |-> "view", buy |-> row.open, sell |-> row.close])
        /\ UNCHANGED busy /\ marks' = [marks EXCEPT !.viewing = row]
    BY <1>8 DEF handleViewClosedPosition
  <2> QED BY <2>1, SendKeepsFlags
<1>9. ASSUME NEW token, loadCandidateSystemKlines(token) PROVE FlagInv'
  <2>1. Send([op |-> "raw"]) /\ UNCHANGED marks
        /\ busy' = [busy EXCEPT !.loading = TRUE]
    BY <1>9 DEF loadCandidateSystemKlines
  <2> QED BY <2>1, SendKeepsFlags DEF Loads
<1>10. ASSUME NEW signal, focusSignalSnapshot(signal) PROVE FlagInv'
  <2>1. Send([op |-> "signal", buy |-> signal, sell |-> None])
        /\ UNCHANGED <<busy, marks>>
    BY <1>10 DEF focusSignalSnapshot
  <2> QED BY <2>1, SendKeepsFlags
<1> QED BY <1>2, <1>3, <1>4, <1>5, <1>6, <1>7, <1>8, <1>9, <1>10 DEF Call

\* An answer or a failure ends a request (or turns it into the next of its
\* chain) and resets the flag and the mark of its operation.
LEMMA EndKeepsFlags ==
  ASSUME FlagInv, NEW s \in Slots, NEW next, NEW op, op = requests[s].op,
         requests' = [requests EXCEPT ![s] = next],
         busy' \in [loading : BOOLEAN, backtest : BOOLEAN],
         DOMAIN marks' = {"viewing", "deleting", "blacklisting"},
         busy'.loading => busy.loading /\ op \notin Loads,
         busy'.backtest =>
           \/ busy.backtest /\ op # "backtest"
           \/ next.op = "backtest",
         \A drop \in DropOps : marks'[drop] # None =>
           marks[drop] # None /\ op # drop,
         marks'.viewing # None =>
           \/ marks.viewing # None /\ op \notin ViewOps
           \/ next.op = "view_buy"
  PROVE  FlagInv'
<1>1. DOMAIN requests' = Slots
  BY DEF FlagInv
<1>2. \A other : Waits(other) /\ op # other => Waits(other)'
  BY EndKeepsWaits DEF FlagInv
<1>3. next.op = "backtest" => Waits("backtest")'
  <2>1. requests'[s] = next
    BY DEF FlagInv
  <2> QED BY <2>1 DEF Waits
<1>4. busy'.loading => Waits("levels")' \/ Waits("raw")'
  BY <1>2, BusyAsWaits DEF FlagInv, Loads
<1>5. busy'.backtest => Waits("backtest")'
  BY <1>2, <1>3, BusyAsWaits DEF FlagInv
<1>6. \A drop \in DropOps : marks'[drop] # None => Waits(drop)'
  BY <1>2, BusyAsWaits DEF FlagInv
<1>7. marks'.viewing # None => Waits("view")' \/ Waits("view_buy")'
  <2>1. next.op = "view_buy" => Waits("view_buy")'
    <3>1. requests'[s] = next
      BY DEF FlagInv
    <3> QED BY <3>1 DEF Waits
  <2> QED BY <2>1, <1>2, BusyAsWaits DEF FlagInv, ViewOps
<1> QED BY <1>1, <1>4, <1>5, <1>6, <1>7, BusyAsWaitsNext DEF FlagInv

LEMMA AnswerKeepsFlags ==
  ASSUME FlagInv, NEW s \in Slots, Answer(s)
  PROVE  FlagInv'
<1>1. CASE LevelsAnswered(s)
  <2>1. PICK chain \in BOOLEAN :
          /\ requests' = [requests EXCEPT ![s] =
               IF chain THEN [op |-> "backtest", row |-> requests[s].row]
               ELSE NoRequest]
          /\ busy' = [Idle("levels") EXCEPT !.backtest = @ \/ chain]
    BY <1>1 DEF LevelsAnswered
  <2>2. requests[s].op = "levels" /\ UNCHANGED marks
    BY <1>1 DEF LevelsAnswered
  <2>3. busy' \in [loading : BOOLEAN, backtest : BOOLEAN]
        /\ ~busy'.loading /\ (busy'.backtest => busy.backtest \/ chain)
    BY <2>1 DEF Idle, Loads, FlagInv
  <2>4. PICK next : requests' = [requests EXCEPT ![s] = next]
                    /\ (chain => next.op = "backtest")
    <3>1. CASE chain
      <4>1. requests' = [requests EXCEPT ![s] =
                           [op |-> "backtest", row |-> requests[s].row]]
        BY <2>1, <3>1
      <4>2. [op |-> "backtest", row |-> requests[s].row].op = "backtest"
        OBVIOUS
      <4> QED BY <4>1, <4>2
    <3>2. CASE ~chain
      BY <2>1, <3>2
    <3> QED BY <3>1, <3>2
  <2>5. DOMAIN marks' = {"viewing", "deleting", "blacklisting"}
        /\ (\A drop \in DropOps : marks'[drop] # None =>
              marks[drop] # None /\ requests[s].op # drop)
        /\ (marks'.viewing # None => marks.viewing # None /\ requests[s].op \notin ViewOps)
    BY <2>2, OpsAreSlots DEF FlagInv, ViewOps
  <2>6. busy'.backtest => \/ busy.backtest /\ requests[s].op # "backtest"
                          \/ next.op = "backtest"
    BY <2>2, <2>3, <2>4
  <2> QED BY <2>3, <2>4, <2>5, <2>6, EndKeepsFlags
<1>2. CASE RawAnswered(s)
  <2>1. requests[s].op = "raw" /\ UNCHANGED marks /\ busy' = Idle("raw")
        /\ requests' = [requests EXCEPT ![s] = NoRequest]
    BY <1>2 DEF RawAnswered
  <2>2. busy' \in [loading : BOOLEAN, backtest : BOOLEAN]
        /\ ~busy'.loading /\ (busy'.backtest => busy.backtest)
    BY <2>1 DEF Idle, Loads, FlagInv
  <2>3. DOMAIN marks' = {"viewing", "deleting", "blacklisting"}
        /\ (\A drop \in DropOps : marks'[drop] # None =>
              marks[drop] # None /\ requests[s].op # drop)
        /\ (marks'.viewing # None => marks.viewing # None /\ requests[s].op \notin ViewOps)
    BY <2>1, OpsAreSlots DEF FlagInv, ViewOps
  <2>4. (busy'.backtest => busy.backtest /\ requests[s].op # "backtest")
        /\ (busy'.loading => busy.loading /\ requests[s].op \notin Loads)
    BY <2>1, <2>2
  <2>5. PICK next : requests' = [requests EXCEPT ![s] = next]
    BY <2>1
  <2> QED BY <2>2, <2>3, <2>4, <2>5, EndKeepsFlags
<1>3. CASE BacktestAnswered(s)
  <2>1. requests[s].op = "backtest" /\ UNCHANGED marks /\ busy' = Idle("backtest")
        /\ requests' = [requests EXCEPT ![s] = NoRequest]
    BY <1>3 DEF BacktestAnswered
  <2>2. busy' \in [loading : BOOLEAN, backtest : BOOLEAN]
        /\ ~busy'.backtest /\ (busy'.loading => busy.loading)
    BY <2>1 DEF Idle, FlagInv
  <2>3. DOMAIN marks' = {"viewing", "deleting", "blacklisting"}
        /\ (\A drop \in DropOps : marks'[drop] # None =>
              marks[drop] # None /\ requests[s].op # drop)
        /\ (marks'.viewing # None => marks.viewing # None /\ requests[s].op \notin ViewOps)
    BY <2>1, OpsAreSlots DEF FlagInv, ViewOps
  <2>4. busy'.loading => busy.loading /\ requests[s].op \notin Loads
    BY <2>1, <2>2 DEF Loads
  <2>5. PICK next : requests' = [requests EXCEPT ![s] = next]
    BY <2>1
  <2> QED BY <2>2, <2>3, <2>4, <2>5, EndKeepsFlags
<1>4. CASE SignalAnswered(s) \/ BuyAnswered(s)
  <2>1. requests[s].op \in {"signal", "view", "buy_of", "view_buy"} /\ UNCHANGED busy
    BY <1>4 DEF SignalAnswered, BuyAnswered
  <2>2. PICK next : /\ requests' = [requests EXCEPT ![s] = next]
                    /\ \/ marks' = [marks EXCEPT !.viewing = None]
                       \/ UNCHANGED marks /\ requests[s].op \notin ViewOps
                       \/ UNCHANGED marks /\ next.op = "view_buy"
    <3>1. CASE SignalAnswered(s)
      <4> DEFINE signal == requests[s].buy
                 refer == signal.snapshot = None /\ signal.type = "sell" /\ signal.buy # None
                 second == IF requests[s].op = "view" THEN "view_buy" ELSE "buy_of"
                 then == [op |-> second, sell |-> signal]
      <4>1. /\ requests' = [requests EXCEPT ![s] = IF refer THEN then ELSE NoRequest]
            /\ marks' = IF requests[s].op = "view" /\ ~refer
                        THEN [marks EXCEPT !.viewing = None] ELSE marks
            /\ requests[s].op \in {"signal", "view"}
        BY <3>1 DEF SignalAnswered, FlagInv
      <4>2. CASE requests[s].op = "view" /\ refer
        <5>1. requests' = [requests EXCEPT ![s] = then] /\ UNCHANGED marks
          BY <4>1, <4>2
        <5>2. then.op = "view_buy"
          BY <4>2
        <5> QED BY <5>1, <5>2
      <4>3. CASE requests[s].op = "view" /\ ~refer
        BY <4>1, <4>3
      <4>4. CASE requests[s].op = "signal"
        BY <4>1, <4>4 DEF ViewOps
      <4> QED BY <4>1, <4>2, <4>3, <4>4
    <3>2. CASE BuyAnswered(s)
      BY <3>2 DEF BuyAnswered
    <3> QED BY <1>4, <3>1, <3>2
  <2>3. DOMAIN marks' = {"viewing", "deleting", "blacklisting"}
        /\ (\A drop \in DropOps : marks'[drop] # None =>
              marks[drop] # None /\ requests[s].op # drop)
        /\ (marks'.viewing # None => \/ marks.viewing # None /\ requests[s].op \notin ViewOps
                                     \/ next.op = "view_buy")
    BY <2>1, <2>2 DEF FlagInv, DropOps
  <2>4. busy' \in [loading : BOOLEAN, backtest : BOOLEAN]
        /\ (busy'.loading => busy.loading /\ requests[s].op \notin Loads)
        /\ (busy'.backtest => busy.backtest /\ requests[s].op # "backtest")
    BY <2>1 DEF FlagInv, Loads
  <2> QED BY <2>2, <2>3, <2>4, EndKeepsFlags
<1>5. CASE DropAnswered(s)
  <2>1. requests[s].op \in DropOps /\ UNCHANGED busy
        /\ requests' = [requests EXCEPT ![s] = NoRequest]
        /\ marks' = [marks EXCEPT ![requests[s].op] = None]
    BY <1>5 DEF DropAnswered
  <2>2. DOMAIN marks' = {"viewing", "deleting", "blacklisting"}
        /\ (\A drop \in DropOps : marks'[drop] # None =>
              marks[drop] # None /\ requests[s].op # drop)
        /\ (marks'.viewing # None => marks.viewing # None /\ requests[s].op \notin ViewOps)
    BY <2>1 DEF FlagInv, DropOps, ViewOps
  <2> QED BY <2>1, <2>2, EndKeepsFlags DEF FlagInv, Loads, DropOps
<1> QED BY <1>1, <1>2, <1>3, <1>4, <1>5 DEF Answer

LEMMA FailureKeepsFlags ==
  ASSUME FlagInv, NEW s \in Slots, RequestFailed(s)
  PROVE  FlagInv'
<1>1. busy' = Idle(requests[s].op)
      /\ requests' = [requests EXCEPT ![s] = NoRequest]
  BY DEF RequestFailed
<1>2. busy' \in [loading : BOOLEAN, backtest : BOOLEAN]
      /\ (busy'.loading => busy.loading /\ requests[s].op \notin Loads)
      /\ (busy'.backtest => busy.backtest /\ requests[s].op # "backtest")
  BY <1>1 DEF Idle, FlagInv
<1>3. DOMAIN marks' = {"viewing", "deleting", "blacklisting"}
      /\ (\A drop \in DropOps : marks'[drop] # None =>
            marks[drop] # None /\ requests[s].op # drop)
      /\ (marks'.viewing # None => marks.viewing # None /\ requests[s].op \notin ViewOps)
  BY DEF RequestFailed, DropOps
<1> QED BY <1>1, <1>2, <1>3, EndKeepsFlags

LEMMA NextKeepsFlags ==
  ASSUME FlagInv, [Next]_vars
  PROVE  FlagInv'
<1>1. CASE Selection
  <2>1. UNCHANGED <<requests, busy, marks>>
    BY <1>1 DEF Selection, RangeSelected, selectWindow, focusLevel, focusTrade,
       selectStrategyGroup, ChangeLevelView, Select
  <2> QED BY <2>1, SameFlags
<1>2. CASE \E items \in Pools : CandidatesChange(items)
  BY <1>2, SameFlags DEF CandidatesChange
<1>3. CASE UNCHANGED vars
  BY <1>3, SameFlags DEF vars
<1> QED BY <1>1, <1>2, <1>3, CallKeepsFlags, AnswerKeepsFlags, FailureKeepsFlags
        DEF Next

-----------------------------------------------------------------------------
LEMMA InitEstablishes == Init => ChartInv /\ FlagInv
<1> SUFFICES ASSUME Init PROVE ChartInv /\ FlagInv
  OBVIOUS
<1>1. ChartInv
  BY DEF Init, ChartInv, TradesMatchChart, LabelMatchesChart, NoAnswer, NoPreview,
     NoRange
<1>2. FlagInv
  BY DEF Init, FlagInv, BusyMeansInFlight, DropOps, ViewOps
<1> QED BY <1>1, <1>2

\* Trades, klines and windows on the chart are of one answer, for every set of
\* answers, every number of requests in flight and every order of the answers
\* (loadRangeLevels, runStrategyForLoadedRange, loadTradeSignalSnapshot).
THEOREM TradesAlwaysMatch == Spec => []TradesMatchChart
<1>1. Init => ChartInv
  BY InitEstablishes
<1>2. ChartInv /\ [Next]_vars => ChartInv'
  BY NextKeepsChart
<1>3. ChartInv => TradesMatchChart
  BY DEF ChartInv
<1> QED BY <1>1, <1>2, <1>3, PTL DEF Spec

\* Without a backtest on the chart the page names the range of the answer that
\* is on it (loadedRange).
THEOREM LabelAlwaysMatches == Spec => []LabelMatchesChart
<1>1. Init => ChartInv
  BY InitEstablishes
<1>2. ChartInv /\ [Next]_vars => ChartInv'
  BY NextKeepsChart
<1>3. ChartInv => LabelMatchesChart
  BY DEF ChartInv
<1> QED BY <1>1, <1>2, <1>3, PTL DEF Spec

\* A spinner never turns for nothing (store.loading, store.backtestLoading,
\* deletingCandidateAddress and blacklistingCandidateAddress).
THEOREM BusyAlwaysInFlight == Spec => []BusyMeansInFlight
<1>1. Init => FlagInv
  BY InitEstablishes
<1>2. FlagInv /\ [Next]_vars => FlagInv'
  BY NextKeepsFlags
<1>3. FlagInv => BusyMeansInFlight
  BY DEF FlagInv
<1> QED BY <1>1, <1>2, <1>3, PTL DEF Spec

-----------------------------------------------------------------------------
(* Types, and the token of the form.                                       *)

Fields == Tokens \cup {None}

\* Requests for a signal name one, and each answer on the page has its number.
RequestsTyped ==
  /\ DOMAIN requests = Slots
  /\ \A s \in Slots :
       /\ requests[s].op \in Slot
       /\ requests[s].op \in {"signal", "view"} =>
            requests[s].buy \in Signals
       /\ requests[s].op \in {"buy_of", "view_buy"} =>
            requests[s].sell \in Signals /\ requests[s].sell.buy \in Signals

PageTyped ==
  /\ answers \in Nat
  /\ chart.result.by \in 0..answers /\ chart.strategy.by \in 0..answers
  /\ chart.result.by = 0 => chart.result.klines = 0
  /\ levelView \in {"all", "support", "resistance"}
  /\ chartRange \in {None} \cup 1..answers

FormTyped ==
  /\ form \in [token : Fields, source : {"system"}]
  /\ touched \in BOOLEAN /\ auto \in BOOLEAN
  /\ candidates \in Seq(Fields)

FlagsTyped == busy \in [loading : BOOLEAN, backtest : BOOLEAN] /\ clicks \in 0..MaxClicks

\* The elements of a list that are picked by their places are elements of it.
LEMMA PickedAre ==
  ASSUME NEW items \in Seq(Fields), NEW places \in SUBSET (DOMAIN items),
         NEW picked, picked = Sublist(items, places)
  PROVE  /\ picked \in Seq(Fields)
         /\ \A x \in ToSet(picked) : \E i \in places : items[i] = x
<1> DEFINE m == Len(items)
<1>1. m \in Nat /\ items \in [1..m -> Fields] /\ places \in SUBSET (1..m)
  OBVIOUS
<1> HIDE DEF m
<1>2. picked \in Seq(Fields) /\ \A n \in DOMAIN picked : \E i \in places : picked[n] = items[i]
  BY <1>1, SublistIs
<1> QED BY <1>2 DEF ToSet

LEMMA FirstIsField ==
  ASSUME NEW items \in Seq(Fields)
  PROVE  First(items) \in Fields /\ (items # <<>> => items[1] \in Fields)
BY DEF First, Fields

LEMMA AutoSelectTyped ==
  ASSUME FormTyped, NEW items \in Seq(Fields), AutoSelect(items)
  PROVE  /\ form' \in [token : Fields, source : {"system"}] /\ auto' \in BOOLEAN
         /\ touched => UNCHANGED form
<1> DEFINE options == candidateTokenAddressOptions(items)
<1>1. options \in Seq(Fields)
  BY PickedAre DEF candidateTokenAddressOptions
<1>2. \/ UNCHANGED <<form, auto>>
      \/ ~touched /\ options # <<>> /\ auto' = TRUE
         /\ form' = [form EXCEPT !.token = options[1]]
  BY DEF AutoSelect
<1>3. options # <<>> => options[1] \in Fields
  BY <1>1, FirstIsField
<1> HIDE DEF options
<1> QED BY <1>2, <1>3 DEF FormTyped

\* What is left of the candidates when one is dropped.
LEMMA LeftAre ==
  ASSUME candidates \in Seq(Fields), NEW token, NEW left,
         left = Sublist(candidates, {i \in DOMAIN candidates : candidates[i] # token})
  PROVE  left \in Seq(Fields) /\ token \notin ToSet(left)
<1> DEFINE places == {i \in DOMAIN candidates : candidates[i] # token}
<1>1. places \in SUBSET (DOMAIN candidates) /\ \A i \in places : candidates[i] # token
  OBVIOUS
<1>2. left = Sublist(candidates, places)
  OBVIOUS
<1> HIDE DEF places
<1> QED BY <1>1, <1>2, PickedAre

\* The form after a candidate was dropped, and what of it concerns a token that
\* the user has chosen.
LEMMA DropKeepsForm ==
  ASSUME FormTyped, NEW s \in Slots, DropAnswered(s)
  PROVE  /\ FormTyped'
         /\ touched /\ form'.token # form.token => form.token \notin ToSet(candidates')
<1> DEFINE token == requests[s].token
           left == Sublist(candidates, {i \in DOMAIN candidates : candidates[i] # token})
<1>1. left \in Seq(Fields) /\ token \notin ToSet(left)
  BY LeftAre DEF FormTyped
<1>2. /\ candidates' = left
      /\ IF form.token = token
         THEN /\ form' = [form EXCEPT !.token = First(left)]
              /\ auto' = (left # <<>>) /\ touched' = FALSE
         ELSE AutoSelect(left) /\ UNCHANGED touched
  BY DEF DropAnswered
<1>3. First(left) \in Fields
  BY <1>1, FirstIsField
<1> HIDE DEF left, token
<1>4. CASE form.token = token
  BY <1>1, <1>2, <1>3, <1>4 DEF FormTyped
<1>5. CASE form.token # token
  BY <1>1, <1>2, <1>5, AutoSelectTyped DEF FormTyped
<1> QED BY <1>4, <1>5

-----------------------------------------------------------------------------
(* Each variable through a step.                                           *)

LEMMA FormStep ==
  ASSUME FormTyped, RequestsTyped, [Next]_vars
  PROVE  /\ FormTyped'
         /\ (touched /\ candidates' # candidates /\ form'.token # form.token)
              => form.token \notin ToSet(candidates')
<1>1. ASSUME UNCHANGED <<auto, candidates>>, touched' \in BOOLEAN,
             form' \in [token : Fields, source : {"system"}]
      PROVE  /\ FormTyped'
             /\ candidates' = candidates
  BY <1>1 DEF FormTyped
<1>2. ASSUME NEW token \in Fields, form' = [form EXCEPT !.token = token]
      PROVE  form' \in [token : Fields, source : {"system"}]
  BY <1>2 DEF FormTyped
<1>3. CASE UNCHANGED formVars
  BY <1>3 DEF formVars, FormTyped
<1>4. CASE Call
  <2>1. ASSUME NEW token \in Tokens \cup {None}, TypeToken(token)
        PROVE  UNCHANGED <<auto, candidates>> /\ touched' \in BOOLEAN
               /\ form' \in [token : Fields, source : {"system"}]
    BY <1>2, <2>1 DEF TypeToken, Fields
  <2>2. ASSUME NEW token \in Tokens, loadCandidateSystemKlines(token)
        PROVE  UNCHANGED <<auto, candidates>> /\ touched' \in BOOLEAN
               /\ form' \in [token : Fields, source : {"system"}]
    BY <1>2, <2>2 DEF loadCandidateSystemKlines, Fields
  <2>3. ASSUME NEW row \in Positions, loadPositionCandidateScenario(row)
        PROVE  UNCHANGED <<auto, candidates>> /\ touched' \in BOOLEAN
               /\ form' \in [token : Fields, source : {"system"}]
    <3>1. row.token \in Fields
      BY ScenarioChartAssumption DEF Fields
    <3> QED BY <2>3, <3>1 DEF loadPositionCandidateScenario
  <2>4. \/ UNCHANGED formVars
        \/ \E token \in Tokens \cup {None} : TypeToken(token)
        \/ \E token \in Tokens : loadCandidateSystemKlines(token)
        \/ \E row \in Positions : loadPositionCandidateScenario(row)
    BY <1>4 DEF Call, DropCandidate, loadKlineLevels, loadSelectedRangeLevels,
       runStrategyForLoadedRange, handleViewClosedPosition, focusSignalSnapshot
  <2> QED BY <1>1, <1>3, <2>1, <2>2, <2>3, <2>4
<1>5. CASE Selection
  BY <1>3, <1>5 DEF Selection, RangeSelected, selectWindow, focusLevel, focusTrade,
     selectStrategyGroup, ChangeLevelView, Select
<1>6. ASSUME NEW items \in Pools, CandidatesChange(items)
      PROVE  FormTyped' /\ (touched => UNCHANGED form)
  <2>1. items \in Seq(Fields)
    BY ScenarioChartAssumption DEF Fields
  <2>2. AutoSelect(items) /\ candidates' = items /\ UNCHANGED touched
    BY <1>6 DEF CandidatesChange
  <2> QED BY <2>1, <2>2, AutoSelectTyped DEF FormTyped
<1>7. ASSUME NEW of, of.token \in Tokens, NEW buy, NEW sell, ShowSnapshot(of, buy, sell)
      PROVE  form' \in [token : Fields, source : {"system"}]
  BY <1>7 DEF ShowSnapshot, Fields
<1>8. ASSUME NEW s \in Slots, SignalAnswered(s) \/ BuyAnswered(s)
      PROVE  /\ FormTyped'
             /\ candidates' = candidates
  <2>1. UNCHANGED <<touched, auto, candidates>>
    BY <1>8 DEF SignalAnswered, BuyAnswered
  <2>2. \/ UNCHANGED form
        \/ \E of, buy, sell : of.token \in Tokens /\ ShowSnapshot(of, buy, sell)
    <3>1. CASE SignalAnswered(s)
      <4>1. requests[s].buy.token \in Tokens
        BY <3>1, ScenarioChartAssumption DEF SignalAnswered, RequestsTyped
      <4> QED BY <3>1, <4>1 DEF SignalAnswered
    <3>2. CASE BuyAnswered(s)
      <4>1. requests[s].sell.token \in Tokens
        BY <3>2, ScenarioChartAssumption DEF BuyAnswered, RequestsTyped
      <4> QED BY <3>2, <4>1 DEF BuyAnswered
    <3> QED BY <1>8, <3>1, <3>2
  <2>3. form' \in [token : Fields, source : {"system"}]
    BY <1>7, <2>2 DEF FormTyped
  <2> QED BY <2>1, <2>3, <1>1 DEF FormTyped
<1>9. ASSUME NEW s \in Slots, LevelsAnswered(s) \/ RawAnswered(s) \/ BacktestAnswered(s)
                                \/ RequestFailed(s)
      PROVE  UNCHANGED formVars
  BY <1>9 DEF LevelsAnswered, RawAnswered, BacktestAnswered, RequestFailed
<1>10. CASE UNCHANGED vars
  BY <1>3, <1>10 DEF vars, formVars
<1> QED BY <1>3, <1>4, <1>5, <1>6, <1>8, <1>9, <1>10, DropKeepsForm DEF Next, Answer

LEMMA PageStep ==
  ASSUME PageTyped, [Next]_vars
  PROVE  PageTyped'
<1>1. ASSUME UNCHANGED <<chart, levelView, answers>>, chartRange' \in {None, chartRange}
      PROVE  PageTyped'
  BY <1>1 DEF PageTyped
<1>2. ASSUME answers' = answers + 1, UNCHANGED levelView,
             chartRange' \in {None, chartRange},
             chart'.result.by = answers + 1,
             chart'.strategy.by \in {0, answers + 1}
      PROVE  PageTyped'
  BY <1>2 DEF PageTyped
<1>3. CASE Call
  BY <1>1, <1>3 DEF Call, TypeToken, DropCandidate, loadKlineLevels, loadSelectedRangeLevels,
     runStrategyForLoadedRange, loadPositionCandidateScenario, handleViewClosedPosition,
     loadCandidateSystemKlines, focusSignalSnapshot, pageVars
<1>4. CASE RangeSelected
  <2>1. Shown(chart).by \in 1..answers
    BY <1>4 DEF RangeSelected, Shown, PageTyped
  <2> QED BY <1>4, <2>1 DEF RangeSelected, PageTyped
<1>5. ASSUME NEW view \in {"all", "support", "resistance"}, ChangeLevelView(view)
      PROVE  PageTyped'
  BY <1>5 DEF ChangeLevelView, PageTyped
<1>6. CASE Selection
  <2>1. \/ RangeSelected
        \/ \E view \in {"all", "support", "resistance"} : ChangeLevelView(view)
        \/ UNCHANGED <<chart, levelView, answers, chartRange>>
    BY <1>6 DEF Selection, selectWindow, focusLevel, focusTrade, selectStrategyGroup, Select
  <2> QED BY <1>1, <1>4, <1>5, <2>1
<1>7. ASSUME NEW items, CandidatesChange(items) PROVE PageTyped'
  BY <1>1, <1>7 DEF CandidatesChange, pageVars
<1>8. ASSUME NEW s \in Slots, LevelsAnswered(s) PROVE PageTyped'
  BY <1>2, <1>8 DEF LevelsAnswered, Loaded, NoAnswer
<1>9. ASSUME NEW s \in Slots, RawAnswered(s) PROVE PageTyped'
  BY <1>2, <1>9 DEF RawAnswered, Loaded, NoAnswer
<1>10. ASSUME NEW s \in Slots, BacktestAnswered(s) PROVE PageTyped'
  BY <1>2, <1>10 DEF BacktestAnswered
<1>11. ASSUME NEW of, NEW buy, NEW sell, ShowSnapshot(of, buy, sell), UNCHANGED levelView
       PROVE  PageTyped'
  BY <1>2, <1>11 DEF ShowSnapshot, NoAnswer
<1>12. ASSUME NEW s \in Slots, SignalAnswered(s) \/ BuyAnswered(s) PROVE PageTyped'
  <2>1. UNCHANGED levelView
        /\ \/ UNCHANGED <<chart, chartRange, answers>>
           \/ \E of, buy, sell : ShowSnapshot(of, buy, sell)
    BY <1>12 DEF SignalAnswered, BuyAnswered
  <2> QED BY <1>1, <1>11, <2>1
<1>13. ASSUME NEW s \in Slots, DropAnswered(s) \/ RequestFailed(s) PROVE PageTyped'
  BY <1>1, <1>13 DEF DropAnswered, RequestFailed, pageVars
<1>14. CASE UNCHANGED vars
  BY <1>1, <1>14 DEF vars
<1> QED BY <1>3, <1>6, <1>7, <1>8, <1>9, <1>10, <1>12, <1>13, <1>14 DEF Next, Answer

LEMMA RequestsStep ==
  ASSUME RequestsTyped, [Next]_vars
  PROVE  RequestsTyped'
<1> DEFINE Fits(r) == /\ r.op \in Slot
                      /\ r.op \in {"signal", "view"} =>
                           r.buy \in Signals
                      /\ r.op \in {"buy_of", "view_buy"} =>
                           r.sell \in Signals /\ r.sell.buy \in Signals
<1>1. DOMAIN requests = Slots /\ \A s \in Slots : Fits(requests[s])
  BY DEF RequestsTyped
<1>2. ASSUME NEW s, NEW r, Fits(r), requests' = [requests EXCEPT ![s] = r]
      PROVE  RequestsTyped'
  BY <1>1, <1>2 DEF RequestsTyped
<1>3. ASSUME NEW r, Fits(r), Send(r) PROVE RequestsTyped'
  BY <1>2, <1>3 DEF Send
<1>4. ASSUME UNCHANGED requests PROVE RequestsTyped'
  BY <1>1, <1>4 DEF RequestsTyped
<1>5. /\ Fits(NoRequest) /\ Fits([op |-> "raw"])
      /\ \A range, row : Fits([op |-> "levels", range |-> range, row |-> row])
      /\ \A row : Fits([op |-> "backtest", row |-> row])
      /\ \A token : \A op \in DropOps : Fits([op |-> op, token |-> token])
      /\ \A signal \in Signals : \A sell :
           /\ Fits([op |-> "signal", buy |-> signal, sell |-> sell])
           /\ Fits([op |-> "view", buy |-> signal, sell |-> sell])
  BY DEF NoRequest, Slot, DropOps, ViewOps
<1> HIDE DEF Fits
<1>6. CASE Call
  <2>1. ASSUME NEW token, NEW range, NEW row, SendLevels(token, range, row)
        PROVE  RequestsTyped'
    BY <1>3, <1>4, <1>5, <2>1 DEF SendLevels
  <2>2. ASSUME NEW op \in DropOps, NEW token, DropCandidate(op, token) PROVE RequestsTyped'
    BY <1>3, <1>5, <2>2 DEF DropCandidate
  <2>3. ASSUME NEW row \in Positions, handleViewClosedPosition(row) PROVE RequestsTyped'
    <3>1. row.open \in Signals
      BY <2>3, ScenarioChartAssumption DEF handleViewClosedPosition
    <3> QED BY <1>3, <1>5, <2>3, <3>1 DEF handleViewClosedPosition
  <2>4. ASSUME NEW signal \in Signals, focusSignalSnapshot(signal) PROVE RequestsTyped'
    BY <1>3, <1>5, <2>4 DEF focusSignalSnapshot
  <2>5. ASSUME NEW token, loadCandidateSystemKlines(token) PROVE RequestsTyped'
    BY <1>3, <1>5, <2>5 DEF loadCandidateSystemKlines
  <2>6. CASE runStrategyForLoadedRange
    BY <1>3, <1>5, <2>6 DEF runStrategyForLoadedRange
  <2>7. \/ UNCHANGED requests
        \/ \E token, range, row : SendLevels(token, range, row)
        \/ \E op \in DropOps, token \in Tokens : DropCandidate(op, token)
        \/ runStrategyForLoadedRange
        \/ \E row \in Positions : handleViewClosedPosition(row)
        \/ \E token \in Tokens : loadCandidateSystemKlines(token)
        \/ \E signal \in Signals : focusSignalSnapshot(signal)
    BY <1>6 DEF Call, TypeToken, loadKlineLevels, loadSelectedRangeLevels,
       loadPositionCandidateScenario
  <2> QED BY <1>4, <2>1, <2>2, <2>3, <2>4, <2>5, <2>6, <2>7
<1>7. CASE Selection
  BY <1>4, <1>7 DEF Selection, RangeSelected, selectWindow, focusLevel, focusTrade,
     selectStrategyGroup, ChangeLevelView, Select
<1>8. ASSUME NEW items, CandidatesChange(items) PROVE RequestsTyped'
  BY <1>4, <1>8 DEF CandidatesChange
<1>9. ASSUME NEW s \in Slots, SignalAnswered(s) PROVE RequestsTyped'
  <2> DEFINE signal == requests[s].buy
             second == IF requests[s].op = "view" THEN "view_buy" ELSE "buy_of"
             next == [op |-> second, sell |-> signal]
  <2>1. signal \in Signals /\ signal.buy \in Signals \cup {None}
    BY <1>1, <1>9, ScenarioChartAssumption DEF SignalAnswered, Fits
  <2>2. \/ requests' = [requests EXCEPT ![s] = NoRequest]
        \/ signal.buy # None /\ requests' = [requests EXCEPT ![s] = next]
    BY <1>1, <1>9 DEF SignalAnswered
  <2>3. next.op \in {"buy_of", "view_buy"} /\ next.sell = signal
    OBVIOUS
  <2>4. signal.buy # None => Fits(next)
    BY <2>1, <2>3 DEF Fits, Slot, ViewOps
  <2> QED BY <1>2, <1>5, <2>2, <2>4
<1>10. ASSUME NEW s \in Slots, Answer(s) \/ RequestFailed(s), ~SignalAnswered(s)
       PROVE  RequestsTyped'
  <2>1. \/ requests' = [requests EXCEPT ![s] = NoRequest]
        \/ \E row : requests' = [requests EXCEPT ![s] = [op |-> "backtest", row |-> row]]
    BY <1>10 DEF Answer, LevelsAnswered, RawAnswered, BacktestAnswered, BuyAnswered,
       DropAnswered, RequestFailed
  <2> QED BY <1>2, <1>5, <2>1
<1>11. CASE UNCHANGED vars
  BY <1>4, <1>11 DEF vars
<1> QED BY <1>6, <1>7, <1>8, <1>9, <1>10, <1>11 DEF Next

LEMMA FlagsStep ==
  ASSUME FlagInv, FlagsTyped, [Next]_vars
  PROVE  FlagsTyped'
<1>1. busy' \in [loading : BOOLEAN, backtest : BOOLEAN]
  BY NextKeepsFlags DEF FlagInv
<1>2. UNCHANGED clicks \/ \E name : Click(name)
  <2>1. CASE Call
    BY <2>1 DEF Call, TypeToken, DropCandidate, loadKlineLevels, loadSelectedRangeLevels,
       runStrategyForLoadedRange, loadPositionCandidateScenario, handleViewClosedPosition,
       loadCandidateSystemKlines, focusSignalSnapshot
  <2>2. CASE Selection
    BY <2>2 DEF Selection, RangeSelected, selectWindow, focusLevel, focusTrade,
       selectStrategyGroup, ChangeLevelView
  <2>3. ASSUME NEW s \in Slots, Answer(s) \/ RequestFailed(s) PROVE UNCHANGED clicks
    BY <2>3 DEF Answer, LevelsAnswered, RawAnswered, BacktestAnswered, SignalAnswered,
       BuyAnswered, DropAnswered, RequestFailed
  <2> QED BY <2>1, <2>2, <2>3 DEF Next, CandidatesChange, vars
<1>3. clicks' \in 0..MaxClicks
  BY <1>2, ScenarioChartAssumption DEF Click, FlagsTyped
<1> QED BY <1>1, <1>3 DEF FlagsTyped

PageInv == FlagInv /\ FlagsTyped /\ FormTyped /\ PageTyped /\ RequestsTyped

LEMMA PageInit == Init => PageInv
<1> SUFFICES ASSUME Init PROVE PageInv
  OBVIOUS
<1>1. FlagInv
  BY InitEstablishes
<1>2. FlagsTyped
  BY ScenarioChartAssumption DEF Init, FlagsTyped
<1>3. FormTyped
  <2>1. <<>> \in Seq(Fields) /\ None \in Fields
    BY DEF Fields
  <2>2. form = [token |-> None, source |-> "system"] /\ touched = FALSE /\ auto = FALSE
        /\ candidates = <<>>
    BY DEF Init
  <2>3. form \in [token : Fields, source : {"system"}]
    BY <2>1, <2>2
  <2> QED BY <2>1, <2>2, <2>3 DEF FormTyped
<1>4. PageTyped
  BY DEF Init, PageTyped, NoAnswer
<1>5. RequestsTyped
  BY DEF Init, RequestsTyped, NoRequest, Slot
<1> QED BY <1>1, <1>2, <1>3, <1>4, <1>5 DEF PageInv

LEMMA PageNext ==
  ASSUME PageInv, [Next]_vars
  PROVE  PageInv'
BY NextKeepsFlags, FlagsStep, FormStep, PageStep, RequestsStep DEF PageInv

\* The variables of the page keep their shapes, whatever the answers hold and in
\* whichever order they arrive.
THEOREM TypeCorrect == Spec => []TypeOK
<1>1. Init => PageInv
  BY PageInit
<1>2. PageInv /\ [Next]_vars => PageInv'
  BY PageNext
<1>3. PageInv => TypeOK
  BY DEF PageInv, FlagsTyped, FormTyped, PageTyped, RequestsTyped, TypeOK, Fields
<1> QED BY <1>1, <1>2, <1>3, PTL DEF Spec

\* A token the user has chosen leaves the form only with the list of candidates
\* (handleDeleteCandidate, watch(candidateTokenAddressOptions)).
THEOREM ChosenTokenStays == Spec => ChosenTokenKept
<1>1. Init => PageInv
  BY PageInit
<1>2. PageInv /\ [Next]_vars => PageInv'
  BY PageNext
<1>3. PageInv /\ [Next]_vars =>
        [touched /\ candidates' # candidates /\ form'.token # form.token
           => form.token \notin ToSet(candidates')]_vars
  BY FormStep DEF PageInv
<1> QED BY <1>1, <1>2, <1>3, PTL DEF Spec, ChosenTokenKept

-----------------------------------------------------------------------------
(* The trade a position is shown with.                                     *)

\* The strategy on the chart is that of a backtest, or has no groups.
GroupsInv ==
  \/ chart.strategy.groups = <<>>
  \/ \E a \in BacktestAnswers : chart.strategy.groups = a.groups

LEMMA GroupsKept ==
  ASSUME GroupsInv, [Next]_vars
  PROVE  GroupsInv'
<1>1. CASE Call
  <2>1. UNCHANGED chart
    BY <1>1 DEF Call, TypeToken, DropCandidate, loadKlineLevels,
       loadSelectedRangeLevels, runStrategyForLoadedRange,
       loadPositionCandidateScenario, handleViewClosedPosition,
       loadCandidateSystemKlines, focusSignalSnapshot, pageVars
  <2> QED BY <2>1 DEF GroupsInv
<1>2. CASE Selection
  <2>1. UNCHANGED chart
    BY <1>2 DEF Selection, RangeSelected, selectWindow, focusLevel, focusTrade,
       selectStrategyGroup, ChangeLevelView, Select
  <2> QED BY <2>1 DEF GroupsInv
<1>3. CASE \E items \in Pools : CandidatesChange(items)
  BY <1>3 DEF CandidatesChange, pageVars, GroupsInv
<1>4. ASSUME NEW s \in Slots, Answer(s) \/ RequestFailed(s)
      PROVE  GroupsInv'
  <2>1. CASE DropAnswered(s) \/ RequestFailed(s)
    BY <2>1 DEF DropAnswered, RequestFailed, pageVars, GroupsInv
  <2>2. CASE LevelsAnswered(s)
    <3>1. chart'.strategy = NoAnswer
      BY <2>2 DEF LevelsAnswered, Loaded
    <3> QED BY <3>1 DEF GroupsInv, NoAnswer
  <2>3. CASE RawAnswered(s)
    <3>1. chart'.strategy = NoAnswer
      BY <2>3 DEF RawAnswered, Loaded
    <3> QED BY <3>1 DEF GroupsInv, NoAnswer
  <2>4. CASE BacktestAnswered(s)
    <3>1. \E a \in BacktestAnswers : chart'.strategy.groups = a.groups
      BY <2>4 DEF BacktestAnswered
    <3> QED BY <3>1 DEF GroupsInv
  <2>5. CASE SignalAnswered(s) \/ BuyAnswered(s)
    <3>1. \/ UNCHANGED chart
          \/ \E of, buy, sell : ShowSnapshot(of, buy, sell)
      BY <2>5 DEF SignalAnswered, BuyAnswered
    <3>2. UNCHANGED chart \/ chart'.strategy = NoAnswer
      BY <3>1 DEF ShowSnapshot
    <3> QED BY <3>2 DEF GroupsInv, NoAnswer
  <2> QED BY <1>4, <2>1, <2>2, <2>3, <2>4, <2>5 DEF Answer
<1>5. CASE UNCHANGED vars
  BY <1>5 DEF vars, GroupsInv
<1> QED BY <1>1, <1>2, <1>3, <1>4, <1>5 DEF Next

\* Groups are a list of lists of trades.
GroupsTyped(groups) ==
  \E n \in Nat :
    /\ DOMAIN groups = 1..n
    /\ \A g \in 1..n :
         /\ \E m \in Nat : DOMAIN groups[g].trades = 1..m
         /\ \A t \in DOMAIN groups[g].trades :
              /\ groups[g].trades[t].buyTime \in Nat
              /\ [group |-> groups[g], trade |-> groups[g].trades[t]] # None

LEMMA GroupsAreTyped ==
  ASSUME GroupsInv
  PROVE  GroupsTyped(chart.strategy.groups)
<1>1. CASE chart.strategy.groups = <<>>
  <2>1. DOMAIN <<>> = 1..0
    OBVIOUS
  <2> QED BY <1>1, <2>1 DEF GroupsTyped
<1>2. ASSUME NEW a \in BacktestAnswers, chart.strategy.groups = a.groups
      PROVE  GroupsTyped(chart.strategy.groups)
  <2> DEFINE groups == a.groups
             n == Len(groups)
  <2>1. /\ groups \in Seq(ToSet(groups))
        /\ \A g \in ToSet(groups) :
             /\ g.trades \in Seq(ToSet(g.trades))
             /\ \A t \in ToSet(g.trades) :
                  t.buyTime \in Nat /\ [group |-> g, trade |-> t] # None
    BY ScenarioChartAssumption
  <2>2. n \in Nat /\ DOMAIN groups = 1..n
    BY <2>1
  <2>3. \A g \in DOMAIN groups : groups[g] \in ToSet(groups)
    BY DEF ToSet
  <2>4. \A g \in ToSet(groups) : \A t \in DOMAIN g.trades : g.trades[t] \in ToSet(g.trades)
    BY DEF ToSet
  <2>5. \A g \in ToSet(groups) : Len(g.trades) \in Nat /\ DOMAIN g.trades = 1..Len(g.trades)
    BY <2>1
  <2> HIDE DEF n, groups
  <2>6. ASSUME NEW g \in 1..n
        PROVE  /\ \E m \in Nat : DOMAIN groups[g].trades = 1..m
               /\ \A t \in DOMAIN groups[g].trades :
                    /\ groups[g].trades[t].buyTime \in Nat
                    /\ [group |-> groups[g], trade |-> groups[g].trades[t]] # None
    <3>1. groups[g] \in ToSet(groups)
      BY <2>2, <2>3
    <3> QED BY <2>1, <2>4, <2>5, <3>1
  <2> QED BY <1>2, <2>2, <2>6 DEF GroupsTyped, groups
<1> QED BY <1>1, <1>2 DEF GroupsInv

\* The places of the trades that name the time they were bought at.
Timed(groups) ==
  {at \in UNION {{g} \X DOMAIN groups[g].trades : g \in DOMAIN groups} :
     groups[at[1]].trades[at[2]].buyTime # 0}

TradeAt(groups, at) == groups[at[1]].trades[at[2]]

LEMMA TimedIs ==
  ASSUME NEW groups, GroupsTyped(groups)
  PROVE  /\ IsFiniteSet(Timed(groups))
         /\ \A at \in Timed(groups) :
              /\ at = <<at[1], at[2]>> /\ at[1] \in Nat /\ at[2] \in Nat
              /\ at[1] \in DOMAIN groups /\ at[2] \in DOMAIN groups[at[1]].trades
              /\ TradeAt(groups, at).buyTime \in Nat \ {0}
         /\ \A g \in DOMAIN groups : \A t \in DOMAIN groups[g].trades :
              groups[g].trades[t].buyTime # 0 => <<g, t>> \in Timed(groups)
<1>1. PICK n \in Nat :
        /\ DOMAIN groups = 1..n
        /\ \A g \in 1..n :
             /\ \E m \in Nat : DOMAIN groups[g].trades = 1..m
             /\ \A t \in DOMAIN groups[g].trades : groups[g].trades[t].buyTime \in Nat
  BY DEF GroupsTyped
<1> DEFINE row(g) == {g} \X DOMAIN groups[g].trades
           rows == {row(g) : g \in DOMAIN groups}
<1>2. \A r \in rows : IsFiniteSet(r)
  <2>1. ASSUME NEW g \in 1..n PROVE IsFiniteSet(row(g))
    <3>1. PICK m \in Nat : DOMAIN groups[g].trades = 1..m
      BY <1>1
    <3>2. IsFiniteSet(1..m)
      BY FS_Interval
    <3>3. IsFiniteSet({g})
      BY FS_Singleton
    <3>4. IsFiniteSet({g} \X (1..m))
      BY <3>2, <3>3, FS_Product
    <3> QED BY <3>1, <3>4
  <2> QED BY <1>1, <2>1
<1>3. IsFiniteSet(rows)
  <2> DEFINE f == [g \in DOMAIN groups |-> row(g)]
  <2>1. rows = {f[g] : g \in DOMAIN groups}
    OBVIOUS
  <2>2. IsFiniteSet(1..n)
    BY FS_Interval
  <2>3. IsFiniteSet(DOMAIN groups)
    BY <1>1, <2>2
  <2> HIDE DEF f, rows
  <2> QED BY <2>1, <2>3, FiniteImage
<1>4. IsFiniteSet(UNION rows)
  <2> HIDE DEF rows
  <2> QED BY <1>2, <1>3, FS_UNION
<1>5. IsFiniteSet(Timed(groups))
  <2>1. Timed(groups) \subseteq UNION rows
    BY DEF Timed
  <2> HIDE DEF rows
  <2> QED BY <1>4, <2>1, FS_Subset
<1>6. ASSUME NEW at \in Timed(groups)
      PROVE  /\ at = <<at[1], at[2]>> /\ at[1] \in Nat /\ at[2] \in Nat
             /\ at[1] \in DOMAIN groups /\ at[2] \in DOMAIN groups[at[1]].trades
             /\ TradeAt(groups, at).buyTime \in Nat \ {0}
  <2>1. PICK g \in DOMAIN groups : at \in {g} \X DOMAIN groups[g].trades
    BY DEF Timed
  <2>2. at = <<at[1], at[2]>> /\ at[1] = g /\ at[2] \in DOMAIN groups[g].trades
    BY <2>1
  <2>3. PICK m \in Nat : DOMAIN groups[g].trades = 1..m
    BY <1>1
  <2>4. groups[g].trades[at[2]].buyTime \in Nat
    BY <1>1, <2>2
  <2>5. groups[at[1]].trades[at[2]].buyTime # 0
    BY DEF Timed
  <2> QED BY <1>1, <2>2, <2>3, <2>4, <2>5 DEF TradeAt
<1>7. ASSUME NEW g \in DOMAIN groups, NEW t \in DOMAIN groups[g].trades,
             groups[g].trades[t].buyTime # 0
      PROVE  <<g, t>> \in Timed(groups)
  BY <1>7 DEF Timed
<1> QED BY <1>5, <1>6, <1>7

\* What findNearestTradeByBuyTime answers.
LEMMA FoundIsNearest ==
  ASSUME NEW groups, GroupsTyped(groups), NEW time \in Nat
  PROVE  LET off(at) == Distance(TradeAt(groups, at).buyTime, time)
             match == findNearestTradeByBuyTime(groups, time)
         IN /\ \A at \in Timed(groups) : off(at) \in Nat
            /\ \/ match = None /\ \A at \in Timed(groups) : off(at) > FiveMinutes
               \/ \E best \in Timed(groups) :
                    /\ match = [group |-> groups[best[1]], trade |-> TradeAt(groups, best)]
                    /\ off(best) <= FiveMinutes
                    /\ \A at \in Timed(groups) : off(best) <= off(at)
<1> DEFINE off(at) == Distance(TradeAt(groups, at).buyTime, time)
           timed == Timed(groups)
           before == {p \in timed \X timed :
                        \/ off(p[1]) < off(p[2])
                        \/ off(p[1]) = off(p[2]) /\ Earlier(p[1], p[2])}
           best == Least(timed, before)
           match == findNearestTradeByBuyTime(groups, time)
<1>1. match = IF timed # {} /\ off(best) <= FiveMinutes
              THEN [group |-> groups[best[1]], trade |-> TradeAt(groups, best)] ELSE None
  BY DEF findNearestTradeByBuyTime, Timed, TradeAt
<1>2. IsFiniteSet(timed)
  BY TimedIs
<1>3. \A at \in timed : /\ at = <<at[1], at[2]>> /\ at[1] \in Nat /\ at[2] \in Nat
                        /\ off(at) \in Nat
  <2>1. ASSUME NEW at \in timed
        PROVE /\ at = <<at[1], at[2]>> /\ at[1] \in Nat /\ at[2] \in Nat
              /\ TradeAt(groups, at).buyTime \in Nat
    BY TimedIs
  <2> QED BY <2>1 DEF Distance, Max2
<1> HIDE DEF timed, off, match
<1>4. StrictOrder(timed, before)
  <2>1. \A x, y \in timed : x[1] = y[1] /\ x[2] = y[2] => x = y
    BY <1>3
  <2> QED BY <1>3, <2>1 DEF StrictOrder, Earlier
<1>5. CASE timed = {}
  BY <1>1, <1>5 DEF timed, off, match
<1>6. CASE timed # {}
  <2>1. best \in timed /\ \A at \in timed \ {best} : <<best, at>> \in before
    <3> HIDE DEF before
    <3> QED BY <1>2, <1>4, <1>6, LeastIs
  <2>2. \A at \in timed : off(best) <= off(at)
    <3> SUFFICES ASSUME NEW at \in timed PROVE off(best) <= off(at)
      OBVIOUS
    <3>1. at = best \/ <<best, at>> \in before
      BY <2>1
    <3> HIDE DEF best
    <3>2. <<best, at>> \in before => off(best) <= off(at)
      BY <1>3, <2>1
    <3> QED BY <1>3, <2>1, <3>1, <3>2
  <2> HIDE DEF best
  <2>3. FiveMinutes \in Nat
    BY DEF FiveMinutes
  <2>4. CASE off(best) <= FiveMinutes
    <3>1. match = [group |-> groups[best[1]], trade |-> TradeAt(groups, best)]
      BY <1>1, <1>6, <2>4
    <3> QED BY <1>3, <2>1, <2>2, <2>4, <3>1 DEF timed, off, match
  <2>5. CASE ~(off(best) <= FiveMinutes)
    <3>1. match = None
      BY <1>1, <2>5
    <3>2. \A at \in timed : off(at) > FiveMinutes
      BY <1>3, <2>1, <2>2, <2>3, <2>5
    <3> QED BY <1>3, <3>1, <3>2 DEF timed, off, match
  <2> QED BY <2>4, <2>5
<1> QED BY <1>5, <1>6

LEMMA NearestOfGroups ==
  ASSUME GroupsInv
  PROVE  NearestIsNearest
<1> DEFINE groups == chart.strategy.groups
           trades == UNION {ToSet(g.trades) : g \in ToSet(groups)}
           near(t) == {trade \in trades :
                         trade.buyTime # 0 /\ Distance(trade.buyTime, t) <= FiveMinutes}
           timed == Timed(groups)
<1>1. GroupsTyped(groups)
  BY GroupsAreTyped
<1> HIDE DEF groups
<1> SUFFICES ASSUME NEW row \in Positions
    PROVE  LET match == findNearestTradeByBuyTime(groups, row.time)
           IN IF near(row.time) = {} THEN match = None
              ELSE /\ match # None /\ match.trade \in near(row.time)
                   /\ match.trade \in ToSet(match.group.trades)
                   /\ \A trade \in near(row.time) :
                        Distance(match.trade.buyTime, row.time) <= Distance(trade.buyTime, row.time)
  BY DEF NearestIsNearest, groups
<1> DEFINE time == row.time
           off(at) == Distance(TradeAt(groups, at).buyTime, time)
           match == findNearestTradeByBuyTime(groups, time)
<1>2. time \in Nat
  BY ScenarioChartAssumption
<1>3. /\ \A at \in timed : off(at) \in Nat
      /\ \/ match = None /\ \A at \in timed : off(at) > FiveMinutes
         \/ \E best \in timed :
              /\ match = [group |-> groups[best[1]], trade |-> TradeAt(groups, best)]
              /\ off(best) <= FiveMinutes
              /\ \A at \in timed : off(best) <= off(at)
  <2> HIDE DEF time
  <2> QED BY <1>1, <1>2, FoundIsNearest
<1>4. ASSUME NEW at \in timed
      PROVE  /\ TradeAt(groups, at) \in trades /\ TradeAt(groups, at).buyTime # 0
             /\ TradeAt(groups, at) \in ToSet(groups[at[1]].trades)
             /\ [group |-> groups[at[1]], trade |-> TradeAt(groups, at)] # None
  <2>1. /\ at[1] \in DOMAIN groups /\ at[2] \in DOMAIN groups[at[1]].trades
        /\ TradeAt(groups, at).buyTime \in Nat \ {0}
    BY <1>1, TimedIs
  <2>2. groups[at[1]] \in ToSet(groups)
    BY <2>1 DEF ToSet
  <2>3. TradeAt(groups, at) \in ToSet(groups[at[1]].trades)
    BY <2>1 DEF ToSet, TradeAt
  <2>4. [group |-> groups[at[1]], trade |-> TradeAt(groups, at)] # None
    BY <1>1, <2>1 DEF GroupsTyped, TradeAt
  <2> QED BY <2>1, <2>2, <2>3, <2>4
<1>5. ASSUME NEW trade \in near(time)
      PROVE  \E at \in timed : TradeAt(groups, at) = trade
  <2>1. PICK g \in ToSet(groups) : trade \in ToSet(g.trades)
    OBVIOUS
  <2>2. PICK i \in DOMAIN groups : g = groups[i]
    BY DEF ToSet
  <2>3. PICK j \in DOMAIN g.trades : trade = g.trades[j]
    BY <2>1 DEF ToSet
  <2>4. j \in DOMAIN groups[i].trades /\ groups[i].trades[j].buyTime # 0
    BY <2>2, <2>3
  <2>5. <<i, j>> \in timed
    BY <1>1, <2>4, TimedIs
  <2>6. TradeAt(groups, <<i, j>>) = trade
    BY <2>2, <2>3 DEF TradeAt
  <2> QED BY <2>5, <2>6
<1>6. FiveMinutes \in Nat
  BY DEF FiveMinutes
<1> HIDE DEF timed, match, time
<1>7. CASE match = None /\ \A at \in timed : off(at) > FiveMinutes
  <2>1. ASSUME NEW trade \in near(time) PROVE FALSE
    <3>1. PICK at \in timed : TradeAt(groups, at) = trade
      BY <1>5
    <3>2. off(at) \in Nat /\ off(at) > FiveMinutes /\ off(at) <= FiveMinutes
      BY <1>3, <1>7, <3>1
    <3> HIDE DEF off
    <3> QED BY <1>6, <3>2
  <2> QED BY <1>7, <2>1 DEF match, time
<1>8. ASSUME NEW best \in timed,
             match = [group |-> groups[best[1]], trade |-> TradeAt(groups, best)],
             off(best) <= FiveMinutes,
             \A at \in timed : off(best) <= off(at)
      PROVE  /\ near(time) # {} /\ match # None /\ match.trade \in near(time)
             /\ match.trade \in ToSet(match.group.trades)
             /\ \A trade \in near(time) :
                  Distance(match.trade.buyTime, time) <= Distance(trade.buyTime, time)
  <2>1. match.trade = TradeAt(groups, best) /\ match.group = groups[best[1]]
    BY <1>8
  <2>2. match # None /\ match.trade \in trades /\ match.trade.buyTime # 0
        /\ match.trade \in ToSet(match.group.trades)
    BY <1>4, <1>8, <2>1
  <2>3. match.trade \in near(time)
    BY <1>8, <2>1, <2>2
  <2>4. ASSUME NEW trade \in near(time)
        PROVE  Distance(match.trade.buyTime, time) <= Distance(trade.buyTime, time)
    <3>1. PICK at \in timed : TradeAt(groups, at) = trade
      BY <1>5
    <3>2. off(best) <= off(at)
      BY <1>8
    <3> QED BY <2>1, <3>1, <3>2
  <2> HIDE DEF near
  <2> QED BY <2>2, <2>3, <2>4
<1> QED BY <1>3, <1>7, <1>8 DEF match, time

\* The trade a position is shown with is the nearest of the backtest's, if one
\* is near enough (findNearestTradeByBuyTime).
THEOREM FoundAlwaysNearest == Spec => []NearestIsNearest
<1>1. Init => GroupsInv
  BY DEF Init, GroupsInv, NoAnswer
<1>2. GroupsInv /\ [Next]_vars => GroupsInv'
  BY GroupsKept
<1>3. GroupsInv => NearestIsNearest
  BY NearestOfGroups
<1> QED BY <1>1, <1>2, <1>3, PTL DEF Spec

-----------------------------------------------------------------------------
(* The levels of a window that are listed.                                *)

\* dedupeLevelsByBand keeps lists of levels.
LEMMA AddKeeps ==
  ASSUME NEW L, NEW kept \in Seq(L), NEW level \in L
  PROVE  AddToBand(kept, level) \in Seq(L)
<1>1. kept \in [1..Len(kept) -> L] /\ Len(kept) \in Nat
  OBVIOUS
<1> DEFINE at == {i \in DOMAIN kept : SameBand(kept[i], level)}
           new == [i \in DOMAIN kept |->
                     IF i \in at /\ Better(level, kept[i]) THEN level ELSE kept[i]]
<1>2. AddToBand(kept, level) = IF at = {} THEN Append(kept, level) ELSE new
  BY DEF AddToBand
<1>3. new \in [1..Len(kept) -> L]
  BY <1>1
<1>4. new \in Seq(L)
  <2> HIDE DEF new
  <2> QED BY <1>1, <1>3
<1> HIDE DEF new, at
<1> QED BY <1>2, <1>4

\* dedupeLevelsByBand goes through the levels one by one.
BandsTo(upTo, levels, m) ==
  /\ dedupeLevelsByBand(levels) = upTo[m]
  /\ upTo[0] = <<>>
  /\ \A n \in 1..m : upTo[n] = AddToBand(upTo[n - 1], levels[n])

LEMMA BandsOneByOne ==
  ASSUME NEW L, NEW m \in Nat, NEW levels \in [1..m -> L]
  PROVE  \E upTo : BandsTo(upTo, levels, m)
<1> DEFINE upTo == CHOOSE f : f = [n \in 0..m |->
                     IF n = 0 THEN <<>> ELSE AddToBand(f[n - 1], levels[n])]
           step == [p \in Seq(L) \X (1..m) |-> AddToBand(p[1], levels[p[2]])]
<1>1. Len(levels) = m
  OBVIOUS
<1>2. dedupeLevelsByBand(levels) = upTo[m]
  BY <1>1 DEF dedupeLevelsByBand
<1>3. step \in [Seq(L) \X (1..m) -> Seq(L)]
  <2>1. \A p \in Seq(L) \X (1..m) : p[1] \in Seq(L) /\ levels[p[2]] \in L
    OBVIOUS
  <2>2. \A p \in Seq(L) \X (1..m) : AddToBand(p[1], levels[p[2]]) \in Seq(L)
    BY <2>1, AddKeeps
  <2> QED BY <2>2
<1>4. PICK f : Recursive(f, m, Seq(L), <<>>, step)
  <2>1. <<>> \in Seq(L)
    OBVIOUS
  <2> HIDE DEF step
  <2> QED BY <1>3, <2>1, Recursion
<1>5. /\ f \in [0..m -> Seq(L)] /\ f[0] = <<>>
      /\ \A n \in 1..m : f[n] = AddToBand(f[n - 1], levels[n])
  <2>1. f \in [0..m -> Seq(L)] /\ f[0] = <<>>
    BY <1>4 DEF Recursive
  <2>2. ASSUME NEW n \in 1..m PROVE f[n] = AddToBand(f[n - 1], levels[n])
    <3>1. f[n - 1] \in Seq(L)
      BY <2>1
    <3>2. step[<<f[n - 1], n>>] = AddToBand(f[n - 1], levels[n])
      BY <3>1
    <3> QED BY <1>4, <3>2 DEF Recursive
  <2> QED BY <2>1, <2>2
<1>6. f = [n \in 0..m |-> IF n = 0 THEN <<>> ELSE AddToBand(f[n - 1], levels[n])]
  <2>1. \A n \in 0..m : f[n] = IF n = 0 THEN <<>> ELSE AddToBand(f[n - 1], levels[n])
    BY <1>5
  <2> QED BY <1>5, <2>1
<1>7. upTo = [n \in 0..m |-> IF n = 0 THEN <<>> ELSE AddToBand(upTo[n - 1], levels[n])]
  BY <1>6
<1> HIDE DEF upTo
<1>8. /\ upTo[0] = <<>>
      /\ \A n \in 1..m : upTo[n] = AddToBand(upTo[n - 1], levels[n])
  BY <1>7
<1> QED BY <1>2, <1>8 DEF BandsTo

\* One level of each band, and none of the levels is better.
OnePerBand(kept, levels, n, L) ==
  /\ kept \in Seq(L)
  /\ \A i, j \in DOMAIN kept : SameBand(kept[i], kept[j]) => i = j
  /\ \A p \in 1..n : \E i \in DOMAIN kept :
       SameBand(kept[i], levels[p]) /\ ~Better(levels[p], kept[i])

LEMMA AddKeepsBands ==
  ASSUME NEW L, \A level \in L : level.score \in Int,
         NEW m \in Nat, NEW levels \in [1..m -> L], NEW n \in 1..m,
         NEW kept, OnePerBand(kept, levels, n - 1, L),
         NEW next, next = AddToBand(kept, levels[n])
  PROVE  OnePerBand(next, levels, n, L)
<1> DEFINE level == levels[n]
           at == {i \in DOMAIN kept : SameBand(kept[i], level)}
<1>1. level \in L
  OBVIOUS
<1>2. /\ kept \in Seq(L)
      /\ \A i, j \in DOMAIN kept : SameBand(kept[i], kept[j]) => i = j
      /\ \A p \in 1..(n - 1) : \E i \in DOMAIN kept :
           SameBand(kept[i], levels[p]) /\ ~Better(levels[p], kept[i])
  BY DEF OnePerBand
<1>3. next \in Seq(L)
  BY <1>1, <1>2, AddKeeps
<1>4. \A p \in 1..n : p = n \/ p \in 1..(n - 1)
  OBVIOUS
<1>5. Len(kept) \in Nat /\ DOMAIN kept = 1..Len(kept) /\ \A i \in DOMAIN kept : kept[i] \in L
  BY <1>2
<1>6. CASE at = {}
  <2>1. next = Append(kept, level)
    BY <1>6 DEF AddToBand
  <2>2. /\ DOMAIN next = 1..(Len(kept) + 1) /\ next[Len(kept) + 1] = level
        /\ \A i \in DOMAIN kept : next[i] = kept[i] /\ i \in DOMAIN next
        /\ \A i \in DOMAIN next : i = Len(kept) + 1 \/ i \in DOMAIN kept
    BY <1>1, <1>2, <1>5, <2>1
  <2>3. \A i \in DOMAIN kept : ~SameBand(kept[i], level) /\ ~SameBand(level, kept[i])
    BY <1>6 DEF SameBand
  <2>4. SameBand(level, level) /\ ~Better(level, level)
    BY <1>1 DEF SameBand, Better
  <2>5. \A i, j \in DOMAIN next : SameBand(next[i], next[j]) => i = j
    <3> HIDE DEF at, level
    <3> QED BY <1>2, <2>2, <2>3
  <2>6. \A p \in 1..n : \E i \in DOMAIN next :
          SameBand(next[i], levels[p]) /\ ~Better(levels[p], next[i])
    <3>1. ASSUME NEW p \in 1..(n - 1)
          PROVE  \E i \in DOMAIN next : SameBand(next[i], levels[p]) /\ ~Better(levels[p], next[i])
      <4>1. PICK i \in DOMAIN kept : SameBand(kept[i], levels[p]) /\ ~Better(levels[p], kept[i])
        BY <1>2
      <4> QED BY <2>2, <4>1
    <3>2. Len(kept) + 1 \in DOMAIN next
      BY <1>5, <2>2
    <3>3. \E i \in DOMAIN next : SameBand(next[i], levels[n]) /\ ~Better(levels[n], next[i])
      BY <2>2, <2>4, <3>2
    <3> QED BY <1>4, <3>1, <3>3
  <2> QED BY <1>3, <2>5, <2>6 DEF OnePerBand
<1>7. CASE at # {}
  <2>1. next = [i \in DOMAIN kept |->
                  IF i \in at /\ Better(level, kept[i]) THEN level ELSE kept[i]]
    BY <1>7 DEF AddToBand
  <2>2. DOMAIN next = DOMAIN kept
    BY <2>1
  <2>3. ASSUME NEW i \in DOMAIN kept
        PROVE  /\ next[i] = kept[i] \/ (next[i] = level /\ SameBand(kept[i], level)
                                        /\ Better(level, kept[i]))
               /\ SameBand(kept[i], level) => ~Better(level, next[i])
    <3>1. next[i] = IF i \in at /\ Better(level, kept[i]) THEN level ELSE kept[i]
      BY <2>1
    <3>2. ~Better(level, level)
      BY <1>1 DEF Better
    <3> HIDE DEF level
    <3> QED BY <3>1, <3>2
  <2> HIDE DEF at, level
  <2>4. \A i \in DOMAIN kept : next[i] = kept[i] \/ SameBand(kept[i], next[i])
    BY <2>3
  <2>5. \A i, j \in DOMAIN next : SameBand(next[i], next[j]) => i = j
    <3> SUFFICES ASSUME NEW i \in DOMAIN kept, NEW j \in DOMAIN kept, SameBand(next[i], next[j])
                 PROVE  i = j
      BY <2>2
    <3>1. SameBand(kept[i], kept[j])
      BY <2>4 DEF SameBand
    <3> QED BY <1>2, <3>1
  <2>6. ASSUME NEW p \in 1..(n - 1)
        PROVE  \E i \in DOMAIN next : SameBand(next[i], levels[p]) /\ ~Better(levels[p], next[i])
    <3>1. PICK i \in DOMAIN kept : SameBand(kept[i], levels[p]) /\ ~Better(levels[p], kept[i])
      BY <1>2
    <3>2. levels[p] \in L /\ kept[i] \in L
      BY <1>5
    <3>3. SameBand(next[i], levels[p])
      BY <2>4, <3>1 DEF SameBand
    <3>4. CASE next[i] = kept[i]
      BY <2>2, <3>1, <3>4
    <3>5. CASE next[i] = level /\ Better(level, kept[i])
      <4>1. ~Better(levels[p], level)
        BY <1>1, <3>1, <3>2, <3>5 DEF Better
      <4> QED BY <2>2, <3>3, <3>5, <4>1
    <3> QED BY <2>3, <3>4, <3>5
  <2>7. \E i \in DOMAIN next : SameBand(next[i], levels[n]) /\ ~Better(levels[n], next[i])
    <3>1. PICK i \in DOMAIN kept : SameBand(kept[i], level)
      BY <1>7 DEF at
    <3>2. SameBand(next[i], level) /\ ~Better(level, next[i])
      BY <2>3, <2>4, <3>1 DEF SameBand
    <3> QED BY <2>2, <3>2 DEF level
  <2> QED BY <1>3, <1>4, <2>5, <2>6, <2>7 DEF OnePerBand
<1> QED BY <1>6, <1>7

LEMMA BandsAre ==
  ASSUME NEW L, \A level \in L : level.score \in Int,
         NEW m \in Nat, NEW levels \in [1..m -> L]
  PROVE  OnePerBand(dedupeLevelsByBand(levels), levels, m, L)
<1>1. PICK upTo : /\ dedupeLevelsByBand(levels) = upTo[m]
                  /\ upTo[0] = <<>>
                  /\ \A n \in 1..m : upTo[n] = AddToBand(upTo[n - 1], levels[n])
  <2>1. \E upTo : BandsTo(upTo, levels, m)
    BY BandsOneByOne
  <2> QED BY <2>1 DEF BandsTo
<1> DEFINE S == {n \in 0..m : OnePerBand(upTo[n], levels, n, L)}
<1>2. 0 \in S
  <2>1. <<>> \in Seq(L) /\ DOMAIN <<>> = {}
    OBVIOUS
  <2>2. OnePerBand(<<>>, levels, 0, L)
    BY <2>1 DEF OnePerBand
  <2> QED BY <1>1, <2>2
<1>3. ASSUME NEW n \in 1..m, n - 1 \in S PROVE n \in S
  <2>1. OnePerBand(upTo[n - 1], levels, n - 1, L) /\ upTo[n] = AddToBand(upTo[n - 1], levels[n])
    BY <1>1, <1>3
  <2>2. OnePerBand(upTo[n], levels, n, L)
    BY <2>1, AddKeepsBands
  <2> QED BY <2>2
<1>4. \A n \in 0..m : n \in S
  <2> HIDE DEF S
  <2> QED BY <1>2, <1>3, EachUpTo
<1>5. m \in S
  BY <1>4
<1> QED BY <1>1, <1>5

-----------------------------------------------------------------------------
(* The windows that are shown.                                            *)

\* A breakout that identifies a scenario, and the scenarios of some levels.
Finding(level) ==
  isBreakoutResistanceLevel(level) /\ levelScenarioSignature(level) # None

Scenarios(levels, n) ==
  {levelScenarioSignature(levels[p]) : p \in {q \in 1..n : Finding(levels[q])}}

Signatures(L) == {levelScenarioSignature(level) : level \in L}

Scans(L) ==
  [seen : SUBSET Signatures(L),
   levels : Seq(L), new : BOOLEAN]

LEMMA ScanKeeps ==
  ASSUME NEW L, NEW scan \in Scans(L), NEW level \in L
  PROVE  ScanLevel(scan, level) \in Scans(L)
<1> DEFINE signature == levelScenarioSignature(level)
           longer == Append(scan.levels, level)
<1>1. longer \in Seq(L)
  BY DEF Scans
<1>2. scan.seen \cup {signature} \in SUBSET Signatures(L)
  BY DEF Scans, Signatures
<1>3. [scan EXCEPT !.levels = longer] \in Scans(L)
  BY <1>1 DEF Scans
<1>4. [seen |-> scan.seen \cup {signature}, levels |-> longer, new |-> TRUE] \in Scans(L)
  BY <1>1, <1>2 DEF Scans
<1>5. ScanLevel(scan, level) \in
        {scan, [scan EXCEPT !.levels = longer],
         [seen |-> scan.seen \cup {signature}, levels |-> longer, new |-> TRUE]}
  BY DEF ScanLevel
<1> HIDE DEF signature, longer
<1> QED BY <1>3, <1>4, <1>5

NothingScanned(seen) == [seen |-> seen, levels |-> <<>>, new |-> FALSE]

\* The inner loop of dedupeScenarioWindows goes through the levels one by one.
ScansTo(upTo, seen, levels, m) ==
  /\ Scanned(seen, levels) = upTo[m]
  /\ upTo[0] = NothingScanned(seen)
  /\ \A n \in 1..m : upTo[n] = ScanLevel(upTo[n - 1], levels[n])

LEMMA ScannedOneByOne ==
  ASSUME NEW L, NEW m \in Nat, NEW levels \in [1..m -> L],
         NEW seen \in SUBSET Signatures(L)
  PROVE  \E upTo : ScansTo(upTo, seen, levels, m)
<1> DEFINE base == NothingScanned(seen)
           upTo == CHOOSE f : f = [n \in 0..m |->
                     IF n = 0 THEN base ELSE ScanLevel(f[n - 1], levels[n])]
           step == [p \in Scans(L) \X (1..m) |-> ScanLevel(p[1], levels[p[2]])]
<1>1. Len(levels) = m
  OBVIOUS
<1>2. Scanned(seen, levels) = upTo[m]
  BY <1>1 DEF Scanned, NothingScanned
<1>3. base \in Scans(L)
  <2>1. <<>> \in Seq(L)
    OBVIOUS
  <2> QED BY <2>1 DEF Scans, NothingScanned
<1> HIDE DEF base
<1>4. step \in [Scans(L) \X (1..m) -> Scans(L)]
  <2>1. \A p \in Scans(L) \X (1..m) : p[1] \in Scans(L) /\ levels[p[2]] \in L
    OBVIOUS
  <2>2. \A p \in Scans(L) \X (1..m) : ScanLevel(p[1], levels[p[2]]) \in Scans(L)
    BY <2>1, ScanKeeps
  <2> QED BY <2>2
<1>5. PICK f : Recursive(f, m, Scans(L), base, step)
  <2> HIDE DEF step
  <2> QED BY <1>3, <1>4, Recursion
<1>6. /\ f \in [0..m -> Scans(L)] /\ f[0] = base
      /\ \A n \in 1..m : f[n] = ScanLevel(f[n - 1], levels[n])
  <2>1. f \in [0..m -> Scans(L)] /\ f[0] = base
    BY <1>5 DEF Recursive
  <2>2. ASSUME NEW n \in 1..m PROVE f[n] = ScanLevel(f[n - 1], levels[n])
    <3>1. f[n - 1] \in Scans(L)
      BY <2>1
    <3>2. step[<<f[n - 1], n>>] = ScanLevel(f[n - 1], levels[n])
      BY <3>1
    <3> QED BY <1>5, <3>2 DEF Recursive
  <2> QED BY <2>1, <2>2
<1>7. f = [n \in 0..m |-> IF n = 0 THEN base ELSE ScanLevel(f[n - 1], levels[n])]
  <2>1. \A n \in 0..m : f[n] = IF n = 0 THEN base ELSE ScanLevel(f[n - 1], levels[n])
    BY <1>6
  <2> QED BY <1>6, <2>1
<1>8. upTo = [n \in 0..m |-> IF n = 0 THEN base ELSE ScanLevel(upTo[n - 1], levels[n])]
  BY <1>7
<1> HIDE DEF upTo
<1>9. /\ upTo[0] = base
      /\ \A n \in 1..m : upTo[n] = ScanLevel(upTo[n - 1], levels[n])
  BY <1>8
<1> QED BY <1>2, <1>9 DEF ScansTo, base

\* A level list in which each of the scenarios is found once.
FoundOnce(kept, scenarios) ==
  /\ \A i \in DOMAIN kept : Finding(kept[i]) => levelScenarioSignature(kept[i]) \in scenarios
  /\ \A s \in scenarios : \E i \in DOMAIN kept :
       Finding(kept[i]) /\ levelScenarioSignature(kept[i]) = s
  /\ \A i, j \in DOMAIN kept :
       Finding(kept[i]) /\ Finding(kept[j])
       /\ levelScenarioSignature(kept[i]) = levelScenarioSignature(kept[j]) => i = j

ScanInv(scan, seen, levels, n, L) ==
  /\ scan \in Scans(L)
  /\ scan.seen = seen \cup Scenarios(levels, n)
  /\ scan.new <=> Scenarios(levels, n) \ seen # {}
  /\ FoundOnce(scan.levels, Scenarios(levels, n) \ seen)

LEMMA AppendFound ==
  ASSUME NEW L, NEW kept \in Seq(L), NEW level \in L, NEW scenarios,
         FoundOnce(kept, scenarios), Finding(level),
         levelScenarioSignature(level) \notin scenarios
  PROVE  FoundOnce(Append(kept, level), scenarios \cup {levelScenarioSignature(level)})
<1> DEFINE longer == Append(kept, level)
           last == Len(kept) + 1
<1>1. /\ last \in DOMAIN longer /\ longer[last] = level
      /\ \A i \in DOMAIN kept : longer[i] = kept[i] /\ i \in DOMAIN longer
      /\ \A i \in DOMAIN longer : i = last \/ i \in DOMAIN kept
  OBVIOUS
<1> HIDE DEF longer, last
<1>2. \A i \in DOMAIN longer : Finding(longer[i]) =>
        levelScenarioSignature(longer[i]) \in scenarios \cup {levelScenarioSignature(level)}
  BY <1>1 DEF FoundOnce
<1>3. \A s \in scenarios \cup {levelScenarioSignature(level)} : \E i \in DOMAIN longer :
        Finding(longer[i]) /\ levelScenarioSignature(longer[i]) = s
  BY <1>1 DEF FoundOnce
<1>4. \A i \in DOMAIN kept : Finding(kept[i]) =>
        levelScenarioSignature(kept[i]) # levelScenarioSignature(level)
  BY DEF FoundOnce
<1>5. \A i, j \in DOMAIN longer :
        Finding(longer[i]) /\ Finding(longer[j])
        /\ levelScenarioSignature(longer[i]) = levelScenarioSignature(longer[j]) => i = j
  BY <1>1, <1>4 DEF FoundOnce
<1> QED BY <1>2, <1>3, <1>5 DEF FoundOnce, longer

LEMMA AppendOther ==
  ASSUME NEW L, NEW kept \in Seq(L), NEW level \in L, NEW scenarios,
         FoundOnce(kept, scenarios), ~Finding(level)
  PROVE  FoundOnce(Append(kept, level), scenarios)
<1> DEFINE longer == Append(kept, level)
           last == Len(kept) + 1
<1>1. /\ last \in DOMAIN longer /\ longer[last] = level
      /\ \A i \in DOMAIN kept : longer[i] = kept[i] /\ i \in DOMAIN longer
      /\ \A i \in DOMAIN longer : i = last \/ i \in DOMAIN kept
  OBVIOUS
<1> HIDE DEF longer, last
<1> QED BY <1>1 DEF FoundOnce, longer

LEMMA ScenariosGrow ==
  ASSUME NEW levels, NEW n \in Nat \ {0}
  PROVE  Scenarios(levels, n) =
           IF Finding(levels[n])
           THEN Scenarios(levels, n - 1) \cup {levelScenarioSignature(levels[n])}
           ELSE Scenarios(levels, n - 1)
<1>1. \A p : p \in 1..n <=> p = n \/ p \in 1..(n - 1)
  OBVIOUS
<1> QED BY <1>1 DEF Scenarios

LEMMA ScanKeepsInv ==
  ASSUME NEW L, NEW m \in Nat, NEW levels \in [1..m -> L], NEW n \in 1..m,
         NEW seen, NEW scan, ScanInv(scan, seen, levels, n - 1, L),
         NEW next, next = ScanLevel(scan, levels[n])
  PROVE  ScanInv(next, seen, levels, n, L)
<1> DEFINE level == levels[n]
           signature == levelScenarioSignature(level)
           old == Scenarios(levels, n - 1)
           now == Scenarios(levels, n)
<1>1. level \in L
  OBVIOUS
<1>2. /\ scan \in Scans(L) /\ scan.seen = seen \cup old
      /\ scan.new <=> old \ seen # {}
      /\ FoundOnce(scan.levels, old \ seen)
  BY DEF ScanInv
<1>3. next \in Scans(L)
  BY <1>1, <1>2, ScanKeeps
<1>4. now = IF Finding(level) THEN old \cup {signature} ELSE old
  BY ScenariosGrow
<1>5. scan.levels \in Seq(L)
  BY <1>2 DEF Scans
<1> HIDE DEF level, old, now
<1>6. CASE ~Finding(level) /\ ~isBreakoutResistanceLevel(level)
  <2>1. next = [scan EXCEPT !.levels = Append(@, level)]
    BY <1>6 DEF ScanLevel, level
  <2>2. next.seen = scan.seen /\ next.new = scan.new /\ next.levels = Append(scan.levels, level)
    BY <1>2, <2>1 DEF Scans
  <2>3. FoundOnce(next.levels, old \ seen)
    BY <1>1, <1>2, <1>5, <1>6, <2>2, AppendOther
  <2> QED BY <1>2, <1>3, <1>4, <1>6, <2>2, <2>3 DEF ScanInv, now, old
<1>7. CASE ~Finding(level) /\ isBreakoutResistanceLevel(level)
  <2>1. signature = None
    BY <1>7 DEF Finding
  <2>2. next = scan
    BY <1>7, <2>1 DEF ScanLevel, level
  <2> QED BY <1>2, <1>4, <1>7, <2>2 DEF ScanInv, now, old
<1>8. CASE Finding(level) /\ signature \in scan.seen
  <2>1. isBreakoutResistanceLevel(level)
    BY <1>8 DEF Finding
  <2>2. next = scan
    BY <1>8, <2>1 DEF ScanLevel, level
  <2>3. seen \cup now = seen \cup old /\ now \ seen = old \ seen
    BY <1>2, <1>4, <1>8
  <2> QED BY <1>2, <2>2, <2>3 DEF ScanInv, now, old
<1>9. CASE Finding(level) /\ signature \notin scan.seen
  <2>1. isBreakoutResistanceLevel(level) /\ signature # None
    BY <1>9 DEF Finding
  <2>2. next = [seen |-> scan.seen \cup {signature},
                levels |-> Append(scan.levels, level), new |-> TRUE]
    BY <1>9, <2>1 DEF ScanLevel, level
  <2>3. next.seen = scan.seen \cup {signature} /\ next.new = TRUE
        /\ next.levels = Append(scan.levels, level)
    BY <2>2
  <2>4. signature \notin old \ seen /\ now \ seen = (old \ seen) \cup {signature}
        /\ seen \cup now = scan.seen \cup {signature}
    BY <1>2, <1>4, <1>9
  <2>5. FoundOnce(next.levels, (old \ seen) \cup {signature})
    BY <1>1, <1>2, <1>5, <1>9, <2>3, <2>4, AppendFound
  <2>6. FoundOnce(next.levels, now \ seen)
    BY <2>4, <2>5
  <2>7. next.seen = seen \cup now /\ now \ seen # {}
    BY <2>3, <2>4
  <2> QED BY <1>3, <2>3, <2>6, <2>7 DEF ScanInv, now
<1> QED BY <1>6, <1>7, <1>8, <1>9

LEMMA ScannedIs ==
  ASSUME NEW L, NEW m \in Nat, NEW levels \in [1..m -> L],
         NEW seen \in SUBSET Signatures(L)
  PROVE  ScanInv(Scanned(seen, levels), seen, levels, m, L)
<1>1. PICK upTo : /\ Scanned(seen, levels) = upTo[m]
                  /\ upTo[0] = NothingScanned(seen)
                  /\ \A n \in 1..m : upTo[n] = ScanLevel(upTo[n - 1], levels[n])
  <2>1. \E upTo : ScansTo(upTo, seen, levels, m)
    BY ScannedOneByOne
  <2> QED BY <2>1 DEF ScansTo
<1> DEFINE S == {n \in 0..m : ScanInv(upTo[n], seen, levels, n, L)}
<1>2. 0 \in S
  <2>1. Scenarios(levels, 0) = {}
    BY DEF Scenarios
  <2>2. NothingScanned(seen) \in Scans(L)
    <3>1. <<>> \in Seq(L)
      OBVIOUS
    <3> QED BY <3>1 DEF Scans, NothingScanned
  <2>3. FoundOnce(<<>>, {})
    BY DEF FoundOnce
  <2>4. ScanInv(NothingScanned(seen), seen, levels, 0, L)
    BY <2>1, <2>2, <2>3 DEF ScanInv, NothingScanned
  <2> QED BY <1>1, <2>4
<1>3. ASSUME NEW n \in 1..m, n - 1 \in S PROVE n \in S
  <2>1. ScanInv(upTo[n - 1], seen, levels, n - 1, L)
        /\ upTo[n] = ScanLevel(upTo[n - 1], levels[n])
    BY <1>1, <1>3
  <2>2. ScanInv(upTo[n], seen, levels, n, L)
    BY <2>1, ScanKeepsInv
  <2> QED BY <2>2
<1>4. \A n \in 0..m : n \in S
  <2> HIDE DEF S
  <2> QED BY <1>2, <1>3, EachUpTo
<1>5. m \in S
  BY <1>4
<1> QED BY <1>1, <1>5

\* The scenarios of a window, and of the first n windows.
FoundIn(window) == Scenarios(window.levels, Len(window.levels))

Before(windows, n) == UNION {FoundIn(windows[w]) : w \in 1..n}

\* The window has a scenario that no earlier one has.
Brings(windows, w) == FoundIn(windows[w]) \ Before(windows, w - 1) # {}

\* W are windows with levels in L.
WindowsWith(W, L) ==
  \A window \in W :
    /\ {"windowIndex", "startTime", "endTime", "levels"} \subseteq DOMAIN window
    /\ window.levels \in Seq(L)

Cut(W, L) == {[window EXCEPT !.levels = levels] : window \in W, levels \in Seq(L)}

WindowScans(W, L) == [seen : SUBSET Signatures(L), kept : Seq(Cut(W, L))]

LEMMA WindowScan ==
  ASSUME NEW L, NEW W, WindowsWith(W, L), NEW window \in W, NEW seen \in SUBSET Signatures(L)
  PROVE  ScanInv(Scanned(seen, window.levels), seen, window.levels, Len(window.levels), L)
<1> DEFINE levels == window.levels
           m == Len(levels)
<1>1. m \in Nat /\ levels \in [1..m -> L]
  BY DEF WindowsWith
<1> HIDE DEF levels, m
<1>2. ScanInv(Scanned(seen, levels), seen, levels, m, L)
  BY <1>1, ScannedIs
<1> QED BY <1>2 DEF levels, m

LEMMA AddWindowKeeps ==
  ASSUME NEW L, NEW W, WindowsWith(W, L), NEW acc \in WindowScans(W, L), NEW window \in W
  PROVE  AddWindow(acc, window) \in WindowScans(W, L)
<1> DEFINE scan == Scanned(acc.seen, window.levels)
           cut == [window EXCEPT !.levels = scan.levels]
<1>1. acc.seen \in SUBSET Signatures(L) /\ acc.kept \in Seq(Cut(W, L))
  BY DEF WindowScans
<1>2. scan \in Scans(L)
  BY <1>1, WindowScan DEF ScanInv
<1>3. scan.seen \in SUBSET Signatures(L) /\ scan.levels \in Seq(L)
  <2> HIDE DEF scan
  <2> QED BY <1>2 DEF Scans
<1>4. AddWindow(acc, window) =
        [seen |-> scan.seen, kept |-> IF scan.new THEN Append(acc.kept, cut) ELSE acc.kept]
  BY DEF AddWindow
<1> HIDE DEF scan
<1>5. cut \in Cut(W, L)
  BY <1>3 DEF Cut
<1> HIDE DEF cut
<1>6. Append(acc.kept, cut) \in Seq(Cut(W, L))
  BY <1>1, <1>5
<1> QED BY <1>1, <1>3, <1>4, <1>6 DEF WindowScans

\* dedupeScenarioWindows goes through the windows one by one.
WindowsTo(upTo, windows, m) ==
  /\ dedupeScenarioWindows(windows) = upTo[m].kept
  /\ upTo[0] = [seen |-> {}, kept |-> <<>>]
  /\ \A n \in 1..m : upTo[n] = AddWindow(upTo[n - 1], windows[n])

LEMMA WindowsOneByOne ==
  ASSUME NEW L, NEW W, WindowsWith(W, L), NEW m \in Nat, NEW windows \in [1..m -> W]
  PROVE  \E upTo : WindowsTo(upTo, windows, m)
<1> DEFINE base == [seen |-> {}, kept |-> <<>>]
           T == WindowScans(W, L)
           upTo == CHOOSE f : f = [n \in 0..m |->
                     IF n = 0 THEN base ELSE AddWindow(f[n - 1], windows[n])]
           step == [p \in T \X (1..m) |-> AddWindow(p[1], windows[p[2]])]
<1>1. Len(windows) = m
  OBVIOUS
<1>2. dedupeScenarioWindows(windows) = upTo[m].kept
  BY <1>1 DEF dedupeScenarioWindows
<1>3. base \in T
  <2>1. <<>> \in Seq(Cut(W, L))
    OBVIOUS
  <2> QED BY <2>1 DEF WindowScans
<1> HIDE DEF base
<1>4. step \in [T \X (1..m) -> T]
  <2> HIDE DEF T
  <2>1. \A p \in T \X (1..m) : p[1] \in T /\ windows[p[2]] \in W
    OBVIOUS
  <2>2. \A p \in T \X (1..m) : AddWindow(p[1], windows[p[2]]) \in T
    BY <2>1, AddWindowKeeps DEF T
  <2> QED BY <2>2
<1> HIDE DEF T
<1>5. PICK f : Recursive(f, m, T, base, step)
  <2> HIDE DEF step
  <2> QED BY <1>3, <1>4, Recursion
<1>6. /\ f \in [0..m -> T] /\ f[0] = base
      /\ \A n \in 1..m : f[n] = AddWindow(f[n - 1], windows[n])
  <2>1. f \in [0..m -> T] /\ f[0] = base
    BY <1>5 DEF Recursive
  <2>2. ASSUME NEW n \in 1..m PROVE f[n] = AddWindow(f[n - 1], windows[n])
    <3>1. f[n - 1] \in T
      BY <2>1
    <3>2. step[<<f[n - 1], n>>] = AddWindow(f[n - 1], windows[n])
      BY <3>1
    <3> QED BY <1>5, <3>2 DEF Recursive
  <2> QED BY <2>1, <2>2
<1>7. f = [n \in 0..m |-> IF n = 0 THEN base ELSE AddWindow(f[n - 1], windows[n])]
  <2>1. \A n \in 0..m : f[n] = IF n = 0 THEN base ELSE AddWindow(f[n - 1], windows[n])
    BY <1>6
  <2> QED BY <1>6, <2>1
<1>8. upTo = [n \in 0..m |-> IF n = 0 THEN base ELSE AddWindow(upTo[n - 1], windows[n])]
  BY <1>7
<1> HIDE DEF upTo
<1>9. /\ upTo[0] = base
      /\ \A n \in 1..m : upTo[n] = AddWindow(upTo[n - 1], windows[n])
  BY <1>8
<1> QED BY <1>2, <1>9 DEF WindowsTo, base

\* The windows kept are those that bring a scenario, and have each once.
KeptOnce(kept, windows, n) ==
  /\ \A i \in DOMAIN kept :
       /\ \E w \in 1..n : Brings(windows, w) /\ windowKey(kept[i]) = windowKey(windows[w])
       /\ FoundIn(kept[i]) \subseteq Before(windows, n)
       /\ FoundOnce(kept[i].levels, FoundIn(kept[i]))
  /\ \A w \in 1..n : Brings(windows, w) =>
       \E i \in DOMAIN kept : windowKey(kept[i]) = windowKey(windows[w])
  /\ \A s \in Before(windows, n) : \E i \in DOMAIN kept : s \in FoundIn(kept[i])
  /\ \A i, j \in DOMAIN kept : FoundIn(kept[i]) \cap FoundIn(kept[j]) # {} => i = j

WindowInv(acc, windows, n, W, L) ==
  /\ acc \in WindowScans(W, L)
  /\ acc.seen = Before(windows, n)
  /\ KeptOnce(acc.kept, windows, n)

LEMMA OnceIsFound ==
  ASSUME NEW L, NEW levels \in Seq(L), NEW scenarios, FoundOnce(levels, scenarios)
  PROVE  Scenarios(levels, Len(levels)) = scenarios
<1>1. DOMAIN levels = 1..Len(levels)
  OBVIOUS
<1>2. Scenarios(levels, Len(levels))
        = {levelScenarioSignature(levels[p]) : p \in {q \in DOMAIN levels : Finding(levels[q])}}
  BY <1>1 DEF Scenarios
<1> QED BY <1>2 DEF FoundOnce

LEMMA BeforeGrows ==
  ASSUME NEW windows, NEW n \in Nat \ {0}
  PROVE  Before(windows, n) = Before(windows, n - 1) \cup FoundIn(windows[n])
<1>1. \A p : p \in 1..n <=> p = n \/ p \in 1..(n - 1)
  OBVIOUS
<1> QED BY <1>1 DEF Before

LEMMA AddWindowKeepsInv ==
  ASSUME NEW L, NEW W, WindowsWith(W, L), NEW m \in Nat, NEW windows \in [1..m -> W],
         NEW n \in 1..m, NEW acc, WindowInv(acc, windows, n - 1, W, L),
         NEW next, next = AddWindow(acc, windows[n])
  PROVE  WindowInv(next, windows, n, W, L)
<1> DEFINE window == windows[n]
           scan == Scanned(acc.seen, window.levels)
           cut == [window EXCEPT !.levels = scan.levels]
           old == Before(windows, n - 1)
           now == Before(windows, n)
           X == FoundIn(window) \ old
           kept == acc.kept
           longer == Append(kept, cut)
           last == Len(kept) + 1
<1>1. window \in W
  OBVIOUS
<1>2. acc \in WindowScans(W, L) /\ acc.seen = old /\ KeptOnce(kept, windows, n - 1)
  BY DEF WindowInv
<1>3. next \in WindowScans(W, L)
  BY <1>1, <1>2, AddWindowKeeps
<1>4. acc.seen \in SUBSET Signatures(L) /\ kept \in Seq(Cut(W, L))
  BY <1>2 DEF WindowScans
<1>5. ScanInv(scan, acc.seen, window.levels, Len(window.levels), L)
  BY <1>1, <1>4, WindowScan
<1>6. /\ scan \in Scans(L) /\ scan.seen = old \cup FoundIn(window)
      /\ scan.new <=> X # {}
      /\ FoundOnce(scan.levels, X)
  <2> HIDE DEF scan
  <2> QED BY <1>2, <1>5 DEF ScanInv, FoundIn
<1>7. now = old \cup FoundIn(window) /\ now = old \cup X
  BY BeforeGrows
<1>8. next = [seen |-> scan.seen, kept |-> IF scan.new THEN longer ELSE kept]
  BY DEF AddWindow
<1>9. Brings(windows, n) <=> X # {}
  BY DEF Brings
<1>10. \A w \in 1..n : w = n \/ w \in 1..(n - 1)
  OBVIOUS
<1> HIDE DEF scan
<1>11. scan.levels \in Seq(L)
  BY <1>6 DEF Scans
<1>12. cut.levels = scan.levels /\ windowKey(cut) = windowKey(window)
  BY <1>1 DEF WindowsWith, windowKey
<1>13. FoundIn(cut) = X
  BY <1>6, <1>11, <1>12, OnceIsFound DEF FoundIn
<1>14. next.seen = now
  BY <1>6, <1>7, <1>8
<1>15. cut \in Cut(W, L)
  BY <1>1, <1>11 DEF Cut
<1> HIDE DEF cut, window, old, now, X
<1>16. CASE X = {}
  <2>1. next.kept = kept
    BY <1>6, <1>8, <1>16
  <2>2. now = old /\ ~Brings(windows, n)
    BY <1>7, <1>9, <1>16
  <2> HIDE DEF kept
  <2>3. /\ \A i \in DOMAIN kept :
             /\ \E w \in 1..(n - 1) :
                  Brings(windows, w) /\ windowKey(kept[i]) = windowKey(windows[w])
             /\ FoundIn(kept[i]) \subseteq now
             /\ FoundOnce(kept[i].levels, FoundIn(kept[i]))
        /\ \A w \in 1..(n - 1) : Brings(windows, w) =>
             \E i \in DOMAIN kept : windowKey(kept[i]) = windowKey(windows[w])
        /\ \A s \in now : \E i \in DOMAIN kept : s \in FoundIn(kept[i])
        /\ \A i, j \in DOMAIN kept : FoundIn(kept[i]) \cap FoundIn(kept[j]) # {} => i = j
    BY <1>2, <2>2 DEF KeptOnce, old
  <2>4. \A w \in 1..(n - 1) : w \in 1..n
    OBVIOUS
  <2>5. \A i \in DOMAIN kept : \E w \in 1..n :
          Brings(windows, w) /\ windowKey(kept[i]) = windowKey(windows[w])
    BY <2>3, <2>4
  <2>6. \A w \in 1..n : Brings(windows, w) =>
          \E i \in DOMAIN kept : windowKey(kept[i]) = windowKey(windows[w])
    BY <1>10, <2>2, <2>3
  <2>7. KeptOnce(kept, windows, n)
    BY <2>3, <2>5, <2>6 DEF KeptOnce, now
  <2> QED BY <1>3, <1>14, <2>1, <2>7 DEF WindowInv, now
<1>17. CASE X # {}
  <2>1. next.kept = longer
    BY <1>6, <1>8, <1>17
  <2>2. /\ last \in DOMAIN longer /\ longer[last] = cut
        /\ \A i \in DOMAIN kept : longer[i] = kept[i] /\ i \in DOMAIN longer
        /\ \A i \in DOMAIN longer : i = last \/ i \in DOMAIN kept
    BY <1>4, <1>15
  <2> HIDE DEF longer, last, kept
  <2>3. /\ \A i \in DOMAIN kept :
             /\ \E w \in 1..(n - 1) :
                  Brings(windows, w) /\ windowKey(kept[i]) = windowKey(windows[w])
             /\ FoundIn(kept[i]) \subseteq old
             /\ FoundOnce(kept[i].levels, FoundIn(kept[i]))
        /\ \A w \in 1..(n - 1) : Brings(windows, w) =>
             \E i \in DOMAIN kept : windowKey(kept[i]) = windowKey(windows[w])
        /\ \A s \in old : \E i \in DOMAIN kept : s \in FoundIn(kept[i])
        /\ \A i, j \in DOMAIN kept : FoundIn(kept[i]) \cap FoundIn(kept[j]) # {} => i = j
    BY <1>2 DEF KeptOnce, old
  <2>4. \A w \in 1..(n - 1) : w \in 1..n
    OBVIOUS
  <2>5. ASSUME NEW i \in DOMAIN longer
        PROVE  /\ \E w \in 1..n : Brings(windows, w)
                                  /\ windowKey(longer[i]) = windowKey(windows[w])
               /\ FoundIn(longer[i]) \subseteq now
               /\ FoundOnce(longer[i].levels, FoundIn(longer[i]))
    <3>1. CASE i \in DOMAIN kept
      BY <1>7, <2>2, <2>3, <2>4, <3>1
    <3>2. CASE i = last
      <4>1. longer[i] = cut /\ n \in 1..n
        BY <2>2, <3>2
      <4>2. Brings(windows, n) /\ windowKey(longer[i]) = windowKey(windows[n])
        BY <1>9, <1>12, <1>17, <4>1 DEF window
      <4>3. FoundIn(longer[i]) \subseteq now
        BY <1>7, <1>13, <4>1
      <4>4. FoundOnce(longer[i].levels, FoundIn(longer[i]))
        BY <1>6, <1>12, <1>13, <4>1
      <4> QED BY <4>1, <4>2, <4>3, <4>4
    <3> QED BY <2>2, <3>1, <3>2
  <2>6. ASSUME NEW w \in 1..n, Brings(windows, w)
        PROVE  \E i \in DOMAIN longer : windowKey(longer[i]) = windowKey(windows[w])
    <3>1. CASE w = n
      BY <1>12, <2>2, <3>1 DEF window
    <3>2. CASE w \in 1..(n - 1)
      BY <2>2, <2>3, <2>6, <3>2
    <3> QED BY <1>10, <3>1, <3>2
  <2>7. \A s \in now : \E i \in DOMAIN longer : s \in FoundIn(longer[i])
    BY <1>7, <1>13, <2>2, <2>3
  <2>8. ASSUME NEW i \in DOMAIN longer, NEW j \in DOMAIN longer,
               FoundIn(longer[i]) \cap FoundIn(longer[j]) # {}
        PROVE  i = j
    <3>1. X \cap old = {}
      BY DEF X
    <3>2. \A k \in DOMAIN kept : FoundIn(kept[k]) \cap X = {}
      BY <2>3, <3>1
    <3> QED BY <1>13, <2>2, <2>3, <2>8, <3>2
  <2>9. KeptOnce(longer, windows, n)
    BY <2>5, <2>6, <2>7, <2>8 DEF KeptOnce, now
  <2> QED BY <1>3, <1>14, <2>1, <2>9 DEF WindowInv, now
<1> QED BY <1>16, <1>17

LEMMA WindowsAre ==
  ASSUME NEW L, NEW W, WindowsWith(W, L), NEW m \in Nat, NEW windows \in [1..m -> W],
         NEW shown, shown = dedupeScenarioWindows(windows)
  PROVE  shown \in Seq(Cut(W, L)) /\ KeptOnce(shown, windows, m)
<1>1. PICK upTo : /\ dedupeScenarioWindows(windows) = upTo[m].kept
                  /\ upTo[0] = [seen |-> {}, kept |-> <<>>]
                  /\ \A n \in 1..m : upTo[n] = AddWindow(upTo[n - 1], windows[n])
  <2>1. \E upTo : WindowsTo(upTo, windows, m)
    BY WindowsOneByOne
  <2> QED BY <2>1 DEF WindowsTo
<1> DEFINE S == {n \in 0..m : WindowInv(upTo[n], windows, n, W, L)}
<1>2. 0 \in S
  <2> DEFINE base == [seen |-> {}, kept |-> <<>>]
  <2>1. Before(windows, 0) = {}
    BY DEF Before
  <2>2. base \in WindowScans(W, L)
    <3>1. <<>> \in Seq(Cut(W, L))
      OBVIOUS
    <3> QED BY <3>1 DEF WindowScans
  <2>3. KeptOnce(<<>>, windows, 0)
    BY <2>1 DEF KeptOnce
  <2>4. WindowInv(base, windows, 0, W, L)
    BY <2>1, <2>2, <2>3 DEF WindowInv
  <2> QED BY <1>1, <2>4
<1>3. ASSUME NEW n \in 1..m, n - 1 \in S PROVE n \in S
  <2>1. WindowInv(upTo[n - 1], windows, n - 1, W, L)
        /\ upTo[n] = AddWindow(upTo[n - 1], windows[n])
    BY <1>1, <1>3
  <2>2. WindowInv(upTo[n], windows, n, W, L)
    BY <2>1, AddWindowKeepsInv
  <2> QED BY <2>2
<1>4. \A n \in 0..m : n \in S
  <2> HIDE DEF S
  <2> QED BY <1>2, <1>3, EachUpTo
<1>5. WindowInv(upTo[m], windows, m, W, L)
  <2>1. m \in S
    BY <1>4
  <2> QED BY <2>1
<1> QED BY <1>1, <1>5 DEF WindowInv, WindowScans

-----------------------------------------------------------------------------
(* The windows on the chart.                                               *)

\* Windows with levels that have a score.
WellFormed(windows) ==
  /\ windows \in Seq(ToSet(windows))
  /\ \A window \in ToSet(windows) :
       /\ {"windowIndex", "startTime", "endTime", "levels"} \subseteq DOMAIN window
       /\ window.levels \in Seq(ToSet(window.levels))
       /\ \A level \in ToSet(window.levels) : level.score \in Int

WindowsInv == WellFormed(chart.result.windows) /\ WellFormed(chart.strategy.windows)

LEMMA AnswersWellFormed ==
  /\ WellFormed(<<>>)
  /\ \A a \in LevelAnswers \cup BacktestAnswers : WellFormed(a.windows)
<1>1. WellFormed(<<>>)
  BY DEF WellFormed, ToSet
<1>2. \A a \in LevelAnswers \cup BacktestAnswers : WellFormed(a.windows)
  BY ScenarioChartAssumption DEF WellFormed
<1> QED BY <1>1, <1>2

LEMMA SnapshotWellFormed ==
  ASSUME NEW signal \in Signals, Complete(signal.snapshot),
         NEW level, level = normalizeSnapshotLevel(signal.snapshot.level),
         NEW window, window = normalizeSnapshotWindow(signal.snapshot.window, level)
  PROVE  WellFormed(<<window>>)
<1> DEFINE fields == {"windowIndex", "startTime", "endTime", "levels"}
           storedLevel == signal.snapshot.level
           storedWindow == signal.snapshot.window
<1>1. /\ storedLevel # None /\ storedWindow # None
      /\ "score" \in DOMAIN storedLevel /\ storedLevel.score \in Int \cup {None}
      /\ fields \subseteq DOMAIN storedWindow
  BY ScenarioChartAssumption DEF Complete
<1> HIDE DEF storedLevel, storedWindow
<1>2. level = [storedLevel EXCEPT !.score = IF @ = None THEN 0 ELSE @]
  BY <1>1 DEF normalizeSnapshotLevel, storedLevel
<1>3. level.score \in Int
  BY <1>1, <1>2
<1>4. window = [storedWindow EXCEPT
                  !.windowIndex = IF @ = 0 THEN 1 ELSE @,
                  !.levels = IF level = None THEN <<>> ELSE <<level>>]
  BY <1>1 DEF normalizeSnapshotWindow, storedWindow
<1>5. fields \subseteq DOMAIN window /\ window.levels \in {<<>>, <<level>>}
  BY <1>1, <1>4
<1>6. window.levels \in Seq(ToSet(window.levels)) /\ ToSet(window.levels) \subseteq {level}
  <2>1. ToSet(<<>>) = {} /\ ToSet(<<level>>) = {level}
    BY DEF ToSet
  <2>2. <<>> \in Seq({}) /\ <<level>> \in Seq({level})
    OBVIOUS
  <2> QED BY <1>5, <2>1, <2>2
<1>7. ToSet(<<window>>) = {window} /\ <<window>> \in Seq({window})
  BY DEF ToSet
<1> QED BY <1>3, <1>5, <1>6, <1>7 DEF WellFormed

LEMMA WindowsStep ==
  ASSUME WindowsInv, RequestsTyped, [Next]_vars
  PROVE  WindowsInv'
<1>1. ASSUME UNCHANGED chart PROVE WindowsInv'
  BY <1>1 DEF WindowsInv, WellFormed
<1>2. ASSUME WellFormed(chart'.result.windows), WellFormed(chart'.strategy.windows)
      PROVE  WindowsInv'
  BY <1>2 DEF WindowsInv, WellFormed
<1>3. NoAnswer.windows = <<>>
  BY DEF NoAnswer
<1>4. CASE Call
  BY <1>1, <1>4 DEF Call, TypeToken, DropCandidate, loadKlineLevels,
     loadSelectedRangeLevels, runStrategyForLoadedRange, loadPositionCandidateScenario,
     handleViewClosedPosition, loadCandidateSystemKlines, focusSignalSnapshot, pageVars
<1>5. CASE Selection
  BY <1>1, <1>5 DEF Selection, RangeSelected, selectWindow, focusLevel, focusTrade,
     selectStrategyGroup, ChangeLevelView, Select
<1>6. CASE \E items \in Pools : CandidatesChange(items)
  BY <1>1, <1>6 DEF CandidatesChange, pageVars
<1>7. ASSUME NEW s \in Slots, DropAnswered(s) \/ RequestFailed(s) PROVE WindowsInv'
  BY <1>1, <1>7 DEF DropAnswered, RequestFailed, pageVars
<1>8. ASSUME NEW s \in Slots, LevelsAnswered(s) PROVE WindowsInv'
  <2>1. \E a \in LevelAnswers :
          chart'.result.windows = a.windows /\ chart'.strategy = NoAnswer
    BY <1>8 DEF LevelsAnswered, Loaded
  <2> QED BY <1>2, <1>3, <2>1, AnswersWellFormed
<1>9. ASSUME NEW s \in Slots, RawAnswered(s) PROVE WindowsInv'
  <2>1. chart'.result.windows = <<>> /\ chart'.strategy = NoAnswer
    BY <1>9 DEF RawAnswered, Loaded
  <2> QED BY <1>2, <1>3, <2>1, AnswersWellFormed
<1>10. ASSUME NEW s \in Slots, BacktestAnswered(s) PROVE WindowsInv'
  <2>1. \E a \in BacktestAnswers :
          chart'.result.windows = a.windows /\ chart'.strategy.windows = a.windows
    BY <1>10 DEF BacktestAnswered
  <2> QED BY <1>2, <2>1, AnswersWellFormed
<1>11. ASSUME NEW of, NEW buy \in Signals, NEW sell, Complete(buy.snapshot),
              ShowSnapshot(of, buy, sell)
       PROVE  WindowsInv'
  <2> DEFINE level == normalizeSnapshotLevel(buy.snapshot.level)
             window == normalizeSnapshotWindow(buy.snapshot.window, level)
  <2>1. chart'.result.windows = <<window>> /\ chart'.strategy = NoAnswer
    BY <1>11 DEF ShowSnapshot
  <2>2. WellFormed(<<window>>)
    BY <1>11, SnapshotWellFormed
  <2> HIDE DEF window
  <2> QED BY <1>2, <1>3, <2>1, <2>2, AnswersWellFormed
<1>12. ASSUME NEW s \in Slots, SignalAnswered(s) \/ BuyAnswered(s) PROVE WindowsInv'
  <2>1. CASE SignalAnswered(s)
    <3>1. requests[s].buy \in Signals
      BY <2>1 DEF SignalAnswered, RequestsTyped
    <3>2. \/ UNCHANGED chart
          \/ /\ Complete(requests[s].buy.snapshot)
             /\ ShowSnapshot(requests[s].buy, requests[s].buy, requests[s].sell)
      BY <2>1 DEF SignalAnswered
    <3> QED BY <1>1, <1>11, <3>1, <3>2
  <2>2. CASE BuyAnswered(s)
    <3>1. requests[s].sell.buy \in Signals
      BY <2>2 DEF BuyAnswered, RequestsTyped
    <3>2. \/ UNCHANGED chart
          \/ /\ Complete(requests[s].sell.buy.snapshot)
             /\ ShowSnapshot(requests[s].sell, requests[s].sell.buy, requests[s].sell)
      BY <2>2 DEF BuyAnswered
    <3> QED BY <1>1, <1>11, <3>1, <3>2
  <2> QED BY <1>12, <2>1, <2>2
<1>13. CASE UNCHANGED vars
  BY <1>1, <1>13 DEF vars
<1> QED BY <1>4, <1>5, <1>6, <1>7, <1>8, <1>9, <1>10, <1>12, <1>13 DEF Next, Answer

LEMMA WindowsInit == Init => WindowsInv
BY AnswersWellFormed DEF Init, WindowsInv, NoAnswer

\* The places of the findings of some windows, and the one first with its
\* scenario.
FindingPlaces(windows) ==
  {at \in UNION {{w} \X DOMAIN windows[w].levels : w \in DOMAIN windows} :
     Finding(windows[at[1]].levels[at[2]])}

ScenarioAt(windows, at) == levelScenarioSignature(windows[at[1]].levels[at[2]])

FirstPlaces(windows) ==
  {at \in FindingPlaces(windows) : \A other \in FindingPlaces(windows) :
     ScenarioAt(windows, other) = ScenarioAt(windows, at) =>
       at[1] < other[1] \/ (at[1] = other[1] /\ at[2] <= other[2])}

\* Some windows with lists of levels.
HasLists(windows, m, L) ==
  DOMAIN windows = 1..m /\ \A w \in 1..m : windows[w].levels \in Seq(L)

LEMMA PlacesAre ==
  ASSUME NEW windows, NEW m \in Nat, NEW L, HasLists(windows, m, L)
  PROVE  /\ \A at \in FindingPlaces(windows) :
              /\ at = <<at[1], at[2]>> /\ at[1] \in 1..m
              /\ at[2] \in DOMAIN windows[at[1]].levels /\ at[2] \in Nat
              /\ Finding(windows[at[1]].levels[at[2]])
              /\ ScenarioAt(windows, at) \in FoundIn(windows[at[1]])
         /\ \A w \in 1..m : \A p \in DOMAIN windows[w].levels :
              Finding(windows[w].levels[p]) => <<w, p>> \in FindingPlaces(windows)
         /\ \A w \in 1..m : \A s \in FoundIn(windows[w]) :
              \E p \in DOMAIN windows[w].levels :
                /\ <<w, p>> \in FindingPlaces(windows) /\ ScenarioAt(windows, <<w, p>>) = s
<1>1. /\ DOMAIN windows = 1..m
      /\ \A w \in 1..m : DOMAIN windows[w].levels = 1..Len(windows[w].levels)
                         /\ Len(windows[w].levels) \in Nat
  BY DEF HasLists
<1>2. ASSUME NEW at \in FindingPlaces(windows)
      PROVE  /\ at = <<at[1], at[2]>> /\ at[1] \in 1..m
             /\ at[2] \in DOMAIN windows[at[1]].levels /\ at[2] \in Nat
             /\ Finding(windows[at[1]].levels[at[2]])
             /\ ScenarioAt(windows, at) \in FoundIn(windows[at[1]])
  <2>1. PICK w \in DOMAIN windows : at \in {w} \X DOMAIN windows[w].levels
    BY DEF FindingPlaces
  <2>2. Finding(windows[at[1]].levels[at[2]])
    BY DEF FindingPlaces
  <2>3. at = <<at[1], at[2]>> /\ at[1] = w /\ at[2] \in DOMAIN windows[w].levels
    BY <2>1
  <2>4. at[2] \in 1..Len(windows[at[1]].levels) /\ at[2] \in Nat
    BY <1>1, <2>3
  <2>5. ScenarioAt(windows, at) \in FoundIn(windows[at[1]])
    BY <2>2, <2>4 DEF FoundIn, Scenarios, ScenarioAt
  <2> QED BY <1>1, <2>2, <2>3, <2>4, <2>5
<1>3. ASSUME NEW w \in 1..m, NEW p \in DOMAIN windows[w].levels,
             Finding(windows[w].levels[p])
      PROVE  <<w, p>> \in FindingPlaces(windows)
  BY <1>1, <1>3 DEF FindingPlaces
<1>4. ASSUME NEW w \in 1..m, NEW s \in FoundIn(windows[w])
      PROVE  \E p \in DOMAIN windows[w].levels :
               <<w, p>> \in FindingPlaces(windows) /\ ScenarioAt(windows, <<w, p>>) = s
  <2>1. PICK p \in 1..Len(windows[w].levels) :
          Finding(windows[w].levels[p]) /\ s = levelScenarioSignature(windows[w].levels[p])
    BY DEF FoundIn, Scenarios
  <2>2. p \in DOMAIN windows[w].levels
    BY <1>1
  <2> QED BY <1>3, <2>1, <2>2 DEF ScenarioAt
<1> QED BY <1>2, <1>3, <1>4

LEMMA ScenariosAt ==
  ASSUME NEW windows, NEW m \in Nat, NEW L, HasLists(windows, m, L)
  PROVE  {ScenarioAt(windows, at) : at \in FindingPlaces(windows)} = Before(windows, m)
<1>1. ASSUME NEW at \in FindingPlaces(windows)
      PROVE  ScenarioAt(windows, at) \in Before(windows, m)
  <2>1. at[1] \in 1..m /\ ScenarioAt(windows, at) \in FoundIn(windows[at[1]])
    BY PlacesAre
  <2> QED BY <2>1 DEF Before
<1>2. ASSUME NEW s \in Before(windows, m)
      PROVE  \E at \in FindingPlaces(windows) : ScenarioAt(windows, at) = s
  <2>1. PICK w \in 1..m : s \in FoundIn(windows[w])
    BY DEF Before
  <2>2. PICK p \in DOMAIN windows[w].levels :
          <<w, p>> \in FindingPlaces(windows) /\ ScenarioAt(windows, <<w, p>>) = s
    BY <2>1, PlacesAre
  <2> QED BY <2>2
<1> QED BY <1>1, <1>2

\* A window brings a scenario if it has a place that is first with one.
LEMMA BringsFirst ==
  ASSUME NEW windows, NEW m \in Nat, NEW L, HasLists(windows, m, L), NEW w \in 1..m
  PROVE  Brings(windows, w) <=> \E at \in FirstPlaces(windows) : at[1] = w
<1>1. ASSUME NEW at \in FirstPlaces(windows), at[1] = w PROVE Brings(windows, w)
  <2> DEFINE s == ScenarioAt(windows, at)
  <2>1. at \in FindingPlaces(windows)
    BY DEF FirstPlaces
  <2>2. s \in FoundIn(windows[w])
    BY <1>1, <2>1, PlacesAre
  <2>3. ASSUME s \in Before(windows, w - 1) PROVE FALSE
    <3>1. PICK v \in 1..(w - 1) : s \in FoundIn(windows[v])
      BY <2>3 DEF Before
    <3>2. v \in 1..m /\ v < w
      OBVIOUS
    <3>3. PICK p \in DOMAIN windows[v].levels :
            <<v, p>> \in FindingPlaces(windows) /\ ScenarioAt(windows, <<v, p>>) = s
      <4>1. \A t \in FoundIn(windows[v]) : \E p \in DOMAIN windows[v].levels :
              <<v, p>> \in FindingPlaces(windows) /\ ScenarioAt(windows, <<v, p>>) = t
        BY <3>2, PlacesAre
      <4> HIDE DEF s
      <4> QED BY <3>1, <4>1
    <3> DEFINE other == <<v, p>>
    <3>4. other[1] = v
      OBVIOUS
    <3>5. at[1] < other[1] \/ (at[1] = other[1] /\ at[2] <= other[2])
      BY <3>3 DEF FirstPlaces
    <3> QED BY <1>1, <3>2, <3>4, <3>5
  <2> QED BY <2>2, <2>3 DEF Brings
<1>2. ASSUME Brings(windows, w) PROVE \E at \in FirstPlaces(windows) : at[1] = w
  <2>1. PICK s \in FoundIn(windows[w]) : s \notin Before(windows, w - 1)
    BY <1>2 DEF Brings
  <2> DEFINE P == {p \in DOMAIN windows[w].levels :
                     <<w, p>> \in FindingPlaces(windows) /\ ScenarioAt(windows, <<w, p>>) = s}
             R == {q \in P \X P : q[1] < q[2]}
             p == Least(P, R)
  <2>2. P # {}
    <3>1. \A t \in FoundIn(windows[w]) : \E q \in DOMAIN windows[w].levels :
            <<w, q>> \in FindingPlaces(windows) /\ ScenarioAt(windows, <<w, q>>) = t
      BY PlacesAre
    <3>2. PICK q \in DOMAIN windows[w].levels :
            <<w, q>> \in FindingPlaces(windows) /\ ScenarioAt(windows, <<w, q>>) = s
      BY <3>1
    <3> QED BY <3>2
  <2>3. IsFiniteSet(P) /\ P \subseteq Nat
    <3>1. /\ DOMAIN windows[w].levels = 1..Len(windows[w].levels)
          /\ Len(windows[w].levels) \in Nat
      BY DEF HasLists
    <3>2. IsFiniteSet(1..Len(windows[w].levels))
      BY <3>1, FS_Interval
    <3>3. P \subseteq 1..Len(windows[w].levels)
      BY <3>1
    <3> HIDE DEF P
    <3>4. IsFiniteSet(P)
      BY <3>2, <3>3, FS_Subset
    <3> QED BY <3>3, <3>4
  <2>4. StrictOrder(P, R)
    <3> HIDE DEF P
    <3> QED BY <2>3 DEF StrictOrder
  <2>5. p \in P /\ \A q \in P \ {p} : <<p, q>> \in R
    <3> HIDE DEF P, R
    <3> QED BY <2>2, <2>3, <2>4, LeastIs
  <2> HIDE DEF p
  <2>6. \A q \in P : p <= q
    <3> SUFFICES ASSUME NEW q \in P PROVE p <= q
      OBVIOUS
    <3>1. q = p \/ <<p, q>> \in R
      BY <2>5
    <3>2. <<p, q>> \in R => p < q
      <4> HIDE DEF P
      <4> QED OBVIOUS
    <3> HIDE DEF P, R
    <3>3. p \in Nat /\ q \in Nat
      BY <2>3, <2>5
    <3> QED BY <3>1, <3>2, <3>3
  <2> DEFINE at == <<w, p>>
  <2>7. at \in FindingPlaces(windows) /\ ScenarioAt(windows, at) = s /\ at[1] = w /\ at[2] = p
    BY <2>5
  <2>8. ASSUME NEW other \in FindingPlaces(windows), ScenarioAt(windows, other) = s
        PROVE  w < other[1] \/ (w = other[1] /\ p <= other[2])
    <3>1. /\ other = <<other[1], other[2]>> /\ other[1] \in 1..m
          /\ other[2] \in DOMAIN windows[other[1]].levels
          /\ s \in FoundIn(windows[other[1]])
      BY <2>8, PlacesAre
    <3>2. ASSUME other[1] < w PROVE FALSE
      <4>1. other[1] \in 1..(w - 1)
        BY <3>1, <3>2
      <4> QED BY <2>1, <3>1, <4>1 DEF Before
    <3>3. ASSUME other[1] = w PROVE p <= other[2]
      <4>1. other[2] \in P
        BY <2>8, <3>1, <3>3
      <4> HIDE DEF P
      <4> QED BY <2>6, <4>1
    <3> QED BY <3>1, <3>2, <3>3
  <2> HIDE DEF P, R, at
  <2>9. at \in FirstPlaces(windows)
    BY <2>7, <2>8 DEF FirstPlaces
  <2> QED BY <2>7, <2>9
<1> QED BY <1>1, <1>2

\* What a search in a list finds is one of its elements.
LEMMA FoundInList ==
  ASSUME NEW T, NEW list \in Seq(T), NEW places \in SUBSET (DOMAIN list),
         NEW x, x = First(Sublist(list, places)), x # None
  PROVE  \E p \in places : x = list[p]
<1> DEFINE s == Sublist(list, places)
<1>1. Len(list) \in Nat /\ list \in [1..Len(list) -> T] /\ places \in SUBSET (1..Len(list))
  OBVIOUS
<1>2. s \in Seq(T) /\ \A n \in DOMAIN s : \E p \in places : s[n] = list[p]
  <2>1. s = Sublist(list, places)
    OBVIOUS
  <2> HIDE DEF s
  <2> QED BY <1>1, <2>1, SublistIs
<1>3. s # <<>> /\ x = s[1]
  BY DEF First
<1> HIDE DEF s
<1>4. 1 \in DOMAIN s
  BY <1>2, <1>3
<1> QED BY <1>2, <1>3, <1>4

LEMMA SelectedIsShown ==
  ASSUME NEW windows, NEW key, NEW T, dedupeScenarioWindows(windows) \in Seq(T),
         selectedWindow(windows, key) # None
  PROVE  selectedWindow(windows, key) \in T
<1> DEFINE shown == dedupeScenarioWindows(windows)
           places == {i \in DOMAIN shown : windowKey(shown[i]) = key}
           match == First(Sublist(shown, places))
           picked == selectedWindow(windows, key)
<1>1. picked = IF match = None THEN First(shown) ELSE match
  BY DEF selectedWindow, Find
<1>2. places \in SUBSET (DOMAIN shown)
  OBVIOUS
<1>3. shown \in Seq(T)
  OBVIOUS
<1> HIDE DEF shown, places
<1>4. CASE match # None
  <2>1. \E p \in places : match = shown[p]
    <3> DEFINE x == match
    <3>1. x = First(Sublist(shown, places)) /\ x # None
      BY <1>4
    <3> HIDE DEF x
    <3>2. \E p \in places : x = shown[p]
      BY <1>2, <1>3, <3>1, FoundInList
    <3> QED BY <3>2 DEF x
  <2> QED BY <1>1, <1>2, <1>3, <1>4, <2>1
<1>5. CASE match = None
  <2>1. picked = First(shown)
    BY <1>1, <1>5
  <2>2. shown # <<>> /\ picked = shown[1]
    BY <2>1 DEF First
  <2> QED BY <1>3, <2>2
<1> QED BY <1>4, <1>5

LEMMA OnceOfWellFormed ==
  ASSUME WellFormed(Windows(chart))
  PROVE  FindingsShownOnce
<1> DEFINE all == Windows(chart)
           m == Len(all)
           W == ToSet(all)
           L == UNION {ToSet(window.levels) : window \in W}
           shown == dedupeScenarioWindows(all)
           n == Len(shown)
<1>1. /\ all \in Seq(W)
      /\ \A window \in W :
           /\ {"windowIndex", "startTime", "endTime", "levels"} \subseteq DOMAIN window
           /\ window.levels \in Seq(ToSet(window.levels))
           /\ \A level \in ToSet(window.levels) : level.score \in Int
  BY DEF WellFormed
<1>2. m \in Nat /\ DOMAIN all = 1..m /\ all \in [1..m -> W]
  <2> HIDE DEF all, W
  <2> QED BY <1>1
<1>3. \A level \in L : level.score \in Int
  BY <1>1
<1>4. \A window \in W : window.levels \in Seq(L)
  <2> SUFFICES ASSUME NEW window \in W PROVE window.levels \in Seq(L)
    OBVIOUS
  <2> DEFINE levels == window.levels
  <2>1. levels \in Seq(ToSet(levels)) /\ ToSet(levels) \subseteq L
    BY <1>1
  <2> HIDE DEF levels, L
  <2>2. levels \in [1..Len(levels) -> L] /\ Len(levels) \in Nat
    BY <2>1
  <2> QED BY <2>2 DEF levels
<1> HIDE DEF W, L, all
<1>5. WindowsWith(W, L)
  BY <1>1, <1>4 DEF WindowsWith
<1>6. shown \in Seq(Cut(W, L)) /\ KeptOnce(shown, all, m)
  <2>1. shown = dedupeScenarioWindows(all)
    OBVIOUS
  <2> HIDE DEF shown, m
  <2> QED BY <1>2, <1>5, <2>1, WindowsAre
<1>7. \A window \in Cut(W, L) : window.levels \in Seq(L)
  BY <1>5 DEF Cut, WindowsWith
<1>8. HasLists(all, m, L)
  BY <1>2, <1>4 DEF HasLists
<1>9. n \in Nat /\ DOMAIN shown = 1..n /\ HasLists(shown, n, L)
  <2> HIDE DEF shown
  <2> QED BY <1>6, <1>7 DEF HasLists
<1> HIDE DEF shown, n, m
<1>10. \A i \in 1..n : /\ \E w \in 1..m : Brings(all, w) /\ windowKey(shown[i]) = windowKey(all[w])
                       /\ FoundIn(shown[i]) \subseteq Before(all, m)
                       /\ FoundOnce(shown[i].levels, FoundIn(shown[i]))
  BY <1>6, <1>9 DEF KeptOnce
<1>11. Before(shown, n) = Before(all, m)
  <2>1. \A s \in Before(all, m) : \E i \in 1..n : s \in FoundIn(shown[i])
    BY <1>6, <1>9 DEF KeptOnce
  <2>2. Before(shown, n) = UNION {FoundIn(shown[i]) : i \in 1..n}
    BY DEF Before
  <2> HIDE DEF Before
  <2> QED BY <1>10, <2>1, <2>2
<1>12. {ScenarioAt(shown, at) : at \in FindingPlaces(shown)}
         = {ScenarioAt(all, at) : at \in FindingPlaces(all)}
  <2>1. {ScenarioAt(shown, at) : at \in FindingPlaces(shown)} = Before(shown, n)
    BY <1>9, ScenariosAt
  <2>2. {ScenarioAt(all, at) : at \in FindingPlaces(all)} = Before(all, m)
    BY <1>2, <1>8, ScenariosAt
  <2> QED BY <1>11, <2>1, <2>2
<1>13. ASSUME NEW a \in FindingPlaces(shown), NEW b \in FindingPlaces(shown),
              ScenarioAt(shown, a) = ScenarioAt(shown, b)
       PROVE  a = b
  <2>1. /\ a = <<a[1], a[2]>> /\ a[1] \in 1..n /\ a[2] \in DOMAIN shown[a[1]].levels
        /\ Finding(shown[a[1]].levels[a[2]])
        /\ ScenarioAt(shown, a) \in FoundIn(shown[a[1]])
    BY <1>9, PlacesAre
  <2>2. /\ b = <<b[1], b[2]>> /\ b[1] \in 1..n /\ b[2] \in DOMAIN shown[b[1]].levels
        /\ Finding(shown[b[1]].levels[b[2]])
        /\ ScenarioAt(shown, b) \in FoundIn(shown[b[1]])
    BY <1>9, PlacesAre
  <2>3. a[1] = b[1]
    <3>1. \A i, j \in 1..n : FoundIn(shown[i]) \cap FoundIn(shown[j]) # {} => i = j
      BY <1>6, <1>9 DEF KeptOnce
    <3> QED BY <1>13, <2>1, <2>2, <3>1
  <2>4. a[2] = b[2]
    BY <1>10, <1>13, <2>1, <2>2, <2>3 DEF FoundOnce, ScenarioAt
  <2> QED BY <2>1, <2>2, <2>3, <2>4
<1>14. {windowKey(shown[i]) : i \in DOMAIN shown} = {windowKey(all[at[1]]) : at \in FirstPlaces(all)}
  <2>1. ASSUME NEW i \in 1..n
        PROVE  \E at \in FirstPlaces(all) : windowKey(shown[i]) = windowKey(all[at[1]])
    <3>1. PICK w \in 1..m : Brings(all, w) /\ windowKey(shown[i]) = windowKey(all[w])
      BY <1>10
    <3>2. \E at \in FirstPlaces(all) : at[1] = w
      BY <1>2, <1>8, <3>1, BringsFirst
    <3> QED BY <3>1, <3>2
  <2>2. ASSUME NEW at \in FirstPlaces(all)
        PROVE  \E i \in 1..n : windowKey(shown[i]) = windowKey(all[at[1]])
    <3>1. at[1] \in 1..m
      <4>1. at \in FindingPlaces(all)
        BY DEF FirstPlaces
      <4> QED BY <1>2, <1>8, <4>1, PlacesAre
    <3>2. Brings(all, at[1])
      BY <1>2, <1>8, <3>1, BringsFirst
    <3>3. \A w \in 1..m : Brings(all, w) =>
            \E i \in 1..n : windowKey(shown[i]) = windowKey(all[w])
      BY <1>6, <1>9 DEF KeptOnce
    <3> DEFINE v == at[1]
    <3> HIDE DEF v
    <3>4. \E i \in 1..n : windowKey(shown[i]) = windowKey(all[v])
      BY <3>1, <3>2, <3>3 DEF v
    <3> QED BY <3>4 DEF v
  <2>3. DOMAIN shown = 1..n
    BY <1>9
  <2> QED BY <2>1, <2>2, <2>3, ZenonT(30)
<1>15. ScenariosOnce
  BY <1>12, <1>13, <1>14
     DEF ScenariosOnce, FindingPlaces, ScenarioAt, FirstPlaces, Finding, all, shown
<1>16. BandsOnce
  <2> SUFFICES ASSUME SelectedWindow # None PROVE BandsOnce
    BY DEF BandsOnce
  <2> DEFINE levels == SelectedWindow.levels
             listed == dedupeLevelsByBand(levels)
             N == Len(levels)
  <2>1. SelectedWindow \in Cut(W, L)
    <3>1. SelectedWindow = selectedWindow(all, pick.window)
      BY DEF SelectedWindow, all
    <3> QED BY <1>6, <3>1, SelectedIsShown DEF shown
  <2>2. levels \in Seq(L)
    BY <1>7, <2>1
  <2> HIDE DEF levels
  <2>3. N \in Nat /\ DOMAIN levels = 1..N /\ levels \in [1..N -> L]
    BY <2>2
  <2> HIDE DEF N
  <2>4. OnePerBand(listed, levels, N, L)
    BY <1>3, <2>3, BandsAre
  <2> HIDE DEF listed
  <2>5. ASSUME NEW level \in ToSet(levels)
        PROVE  /\ Cardinality({i \in DOMAIN listed : SameBand(listed[i], level)}) = 1
               /\ \A other \in ToSet(listed) : SameBand(other, level) => ~Better(level, other)
    <3>1. PICK p \in 1..N : level = levels[p]
      BY <2>3 DEF ToSet
    <3>2. PICK i \in DOMAIN listed : SameBand(listed[i], level) /\ ~Better(level, listed[i])
      BY <2>4, <3>1 DEF OnePerBand
    <3>3. \A j \in DOMAIN listed : SameBand(listed[j], level) => j = i
      <4>1. \A j \in DOMAIN listed : SameBand(listed[j], level) => SameBand(listed[j], listed[i])
        BY <3>2 DEF SameBand
      <4> QED BY <2>4, <4>1 DEF OnePerBand
    <3>4. {j \in DOMAIN listed : SameBand(listed[j], level)} = {i}
      BY <3>2, <3>3
    <3>5. Cardinality({i}) = 1
      BY FS_Singleton
    <3>6. \A other \in ToSet(listed) : SameBand(other, level) => ~Better(level, other)
      BY <3>2, <3>3 DEF ToSet
    <3> QED BY <3>4, <3>5, <3>6
  <2> QED BY <2>5 DEF BandsOnce, listed, levels
<1> QED BY <1>15, <1>16 DEF FindingsShownOnce

\* Whatever windows the backend answers with, the page shows every scenario of
\* them once and in the window that has it first, and of each band the best
\* level (dedupeScenarioWindows, dedupeLevelsByBand).
THEOREM FindingsAlwaysShownOnce == Spec => []FindingsShownOnce
<1>1. Init => PageInv /\ WindowsInv
  BY PageInit, WindowsInit
<1>2. PageInv /\ WindowsInv /\ [Next]_vars => PageInv' /\ WindowsInv'
  BY PageNext, WindowsStep DEF PageInv
<1>3. WindowsInv => FindingsShownOnce
  BY OnceOfWellFormed DEF WindowsInv, Windows, Shown
<1> QED BY <1>1, <1>2, <1>3, PTL DEF Spec
=============================================================================
