---------------------------- MODULE MCKlineChart ----------------------------
(***************************************************************************)
(* KlineChart with klines out of order, twice at one time and invalid,     *)
(* more levels of a role than are shown, trades of two bands and of two    *)
(* windows, and properties that differ in the window alone.                *)
(***************************************************************************)
EXTENDS KlineChart, TLC

K(minute, close) ==
  [openTime |-> 60000 * minute, closeTime |-> 60000 * minute + 60000,
   open |-> 5, close |-> close, volume |-> close - 4, valid |-> TRUE]

Invalid(kline) == [kline EXCEPT !.valid = FALSE]

Band(cap) == [cap |-> cap, lower |-> cap - 2, upper |-> cap + 2]

Level(type, cap, score, votes, breakout) ==
  [type |-> type, band |-> Band(cap), score |-> score, resistanceVotes |-> votes,
   breakoutTime |-> breakout, failedTouches |-> IF breakout = 0 THEN <<>> ELSE <<120000>>,
   sampleTouches |-> <<60000, 120000, 180000, 240000>>]

Trade(cap, index, buy, sell) ==
  [takeProfitRate |-> 8, windowIndex |-> index, levelIndex |-> 1, band |-> Band(cap),
   buyTime |-> buy, sellTime |-> sell, buyPrice |-> cap, sellPrice |-> cap + 9]

Broken == Level("support", 12, 1, 1, 180000)
Weak == Level("resistance", 2, 1, 1, 0)

Early == [klines |-> << K(3, 7), K(1, 4), Invalid(K(5, 1)), K(2, 3), K(3, 9), K(4, 2) >>,
          levels |-> << Level("resistance", 30, 3, 1, 0), Weak, Broken,
                        Level("support", 8, 2, 0, 0) >>,
          selected |-> Weak, window |-> 1,
          trades |-> << Trade(12, 1, 120000, 240000) >>, focused |-> None]

LateTrades == << Trade(12, 1, 180000, 420000), Trade(12, 1, 480000, 0),
                 Trade(12, 2, 360000, 420000) >>

Late == [Early EXCEPT !.selected = Broken, !.trades = LateTrades,
           !.klines = << K(6, 2), K(3, 1), K(7, 6), K(8, 0) >>,
           !.focused = tradeKey(LateTrades[1])]

Moved == [Late EXCEPT !.window = 2]

MCProps == {Early, Late, Moved}

MCXs == {-3, 24}

MCPeriods == [ma7 |-> 2, ma20 |-> 3, ma60 |-> 5, ema20 |-> 3, boll |-> 3]
=============================================================================
