--------------------------- MODULE MCScenarioChart ---------------------------
(***************************************************************************)
(* ScenarioChart with answers as the backend makes them: two windows that  *)
(* overlap and share a breakout, a support beside resistances of three     *)
(* kinds, two levels of one key and other bounds, two of one band as far   *)
(* as twelve digits go, groups of two take-profit rates of which one has   *)
(* no trade, an empty range, and signals with, without and with a partial  *)
(* snapshot.                                                               *)
(***************************************************************************)
EXTENDS ScenarioChart, TLC

Band(cap) == [cap |-> cap, lower |-> cap - 20, upper |-> cap + 20]

\* A band of the same market cap with other bounds.
Wider(band) == [band EXCEPT !.lower = @ - 20, !.upper = @ + 20]

Level(type, band, breakout, score) ==
  [type |-> type, band |-> band, breakoutTime |-> breakout,
   consolidation |-> breakout # 0, score |-> score,
   failedTouches |-> IF breakout = 0 THEN <<>> ELSE <<breakout - 2, breakout - 1>>,
   supportVotes |-> IF type = "support" THEN 1 ELSE 0,
   resistanceVotes |-> IF type = "resistance" THEN 1 ELSE 0,
   firstTime |-> 1, lastTime |-> 9]

\* A resistance that has turned into a support counts as both.
Turned(level) == [level EXCEPT !.supportVotes = 1, !.resistanceVotes = 1]

Window(index, levels) ==
  [windowIndex |-> index, startTime |-> index, endTime |-> index + 10,
   levels |-> levels]

AnswerWindows ==
  << Window(1, << Level("support", Band(100), 0, 5), Level("resistance", Band(200), 12, 3) >>),
     Window(2, << Level("resistance", Band(200), 12, 4) >>),
     Window(3, << Level("resistance", Band(300), 0, 7), Level("resistance", Band(200), 12, 2),
                  Level("resistance", Band(400), 15, 6),
                  Level("resistance", Wider(Band(400)), 17, 9),
                  Turned(Level("support", Band(500), 18, 1)),
                  [Level("resistance", Band(301), 0, 8) EXCEPT !.firstTime = 2] >>) >>

Trade(rate, index, level, buy) ==
  [takeProfitRate |-> rate, windowIndex |-> index, levelIndex |-> 1,
   band |-> level.band, breakoutTime |-> level.breakoutTime,
   buyTime |-> buy, sellTime |-> buy + 20]

TradeA == Trade(8, 1, Level("resistance", Band(200), 12, 3), 13)
TradeB == Trade(9, 3, Level("resistance", Band(400), 15, 6), 16)
TradeC == Trade(9, 3, Level("support", Band(500), 18, 1), 19)

MCLevelAnswers ==
  { [klines |-> 0, windows |-> <<>>], [klines |-> 9, windows |-> AnswerWindows] }

MCBacktestAnswers ==
  { [klines |-> 9, windows |-> AnswerWindows, trades |-> <<TradeA>>,
     groups |-> << [takeProfitRate |-> 8, profit |-> -1, trades |-> <<TradeA>>],
                   [takeProfitRate |-> 9, profit |-> 4, trades |-> <<TradeB, TradeC>>],
                   [takeProfitRate |-> 10, profit |-> 0, trades |-> <<>>] >>],
    [klines |-> 9, windows |-> <<>>, groups |-> <<>>, trades |-> <<>>] }

MCSnapshot ==
  [klines |-> 5, level |-> [Level("resistance", Band(200), 12, 3) EXCEPT !.score = None],
   window |-> Window(0, <<>>)]

Signal(token, type, snapshot, buy) ==
  [token |-> token, type |-> type, snapshot |-> snapshot, buy |-> buy, time |-> 14,
   cap |-> IF type = "buy" THEN 4 ELSE 5, exitTime |-> 20, profitRate |-> 25]

BuyA == Signal("A", "buy", MCSnapshot, None)
SellA == Signal("A", "sell", None, BuyA)
PartB == Signal("B", "buy", [MCSnapshot EXCEPT !.level = None], None)

MCSignals == {BuyA, SellA, PartB}

MCPositions ==
  { [token |-> "A", candidateAt |-> 3, time |-> 18, open |-> BuyA, close |-> SellA],
    [token |-> "B", candidateAt |-> 0, time |-> 30, open |-> None, close |-> None] }

MCPools == { <<>>, <<"A">>, <<"A", "A", "B">> }
=============================================================================
