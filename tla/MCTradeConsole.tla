---------------------------- MODULE MCTradeConsole ----------------------------
(***************************************************************************)
(* TradeConsole with positions whose times and amounts lie at the bounds   *)
(* of the formats.                                                         *)
(***************************************************************************)
EXTENDS TradeConsole, TLC

Position(id, status, openedAt, closedAt, cost, value, pnl, quantity) ==
  [id |-> id, status |-> status, openedAt |-> openedAt, closedAt |-> closedAt,
   costAmount |-> cost, marketValue |-> value,
   realizedPnl |-> IF status = "closed" THEN pnl ELSE 0,
   unrealizedPnl |-> IF status = "closed" THEN 0 ELSE pnl, quantity |-> quantity]

MCLists ==
  { <<>>,
    << Position(1, "open", 100000, 0, 1000, 1250, 250, 999),
       Position(2, "open", 99941, 0, 99999, 0, -500, 1049),
       Position(3, "open", 96401, 0, 100000, 0, -100500, 99950),
       Position(4, "closed", 13661, 99999, 99999499, 0, 27, 999950),
       Position(5, "closed", 1, 89941, 100000000, 0, -46, 1000020),
       Position(6, "closed", 10, 40, 123456789, 0, 0, 1000500),
       Position(7, "open", 13600, 0, 1997, 0, 0, 12345678) >> }

MCInstants == {100000, 186400}
===============================================================================
