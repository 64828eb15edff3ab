------------------------------ MODULE TradeTables ------------------------------
(***************************************************************************)
(* The numbers of the trade tables: ages, durations, amounts and the       *)
(* totals of the positions.  Times are in seconds (0 for one that is       *)
(* missing) and money is in cents; a text is the record of the numbers     *)
(* that stand in it, so that it can be read back.                          *)
(***************************************************************************)
EXTENDS Ordering, SequencesExt

CONSTANT None

Abs(n) == IF n < 0 THEN -n ELSE n
AtLeast(n, bound) == IF n < bound THEN bound ELSE n
AtMost(n, bound) == IF n > bound THEN bound ELSE n

\* toFixed: n / d rounded to a whole number, halves up, for n >= 0.
RoundDiv(n, d) == (2 * n + d) \div (2 * d)

-----------------------------------------------------------------------------
(* Times.                                                                  *)

Minute == 60
Hour == 60 * Minute
Day == 24 * Hour

NoParts == [d |-> 0, h |-> 0, m |-> 0, s |-> 0]

\* The parts of a number of seconds.
Parts(seconds) ==
  [d |-> seconds \div Day, h |-> (seconds % Day) \div Hour,
   m |-> (seconds % Hour) \div Minute, s |-> seconds % Minute]

SecondsOf(parts) ==
  parts.d * Day + parts.h * Hour + parts.m * Minute + parts.s

\* One unit only.
formatRelativeTime(time, now) ==
  IF time = 0 THEN None
  ELSE LET p == Parts(AtLeast(now - time, 0))
       IN IF p.d > 0 THEN [NoParts EXCEPT !.d = p.d]
          ELSE IF p.h > 0 THEN [NoParts EXCEPT !.h = p.h]
          ELSE IF p.m > 0 THEN [NoParts EXCEPT !.m = p.m] ELSE p

\* Seconds only below a minute; parts that are 0 are left out.
formatCompactRelativeTime(time, now) ==
  IF time = 0 THEN None
  ELSE LET p == Parts(AtLeast(now - time, 0))
       IN IF p.d + p.h + p.m > 0 THEN [p EXCEPT !.s = 0] ELSE p

\* Variant: the hours are not taken modulo a day.
DurationOfHours(openedAt, closedAt, now) ==
  LET seconds == AtLeast((IF closedAt = 0 THEN now ELSE closedAt) - openedAt, 0)
      p == [Parts(seconds) EXCEPT !.h = seconds \div Hour]
  IN IF p.d > 0 THEN [p EXCEPT !.s = 0] ELSE p

\* A closed position keeps its duration; days leave the seconds out.
formatHoldingDuration(openedAt, closedAt, now) ==
  LET p == Parts(AtLeast((IF closedAt = 0 THEN now ELSE closedAt) - openedAt, 0))
  IN IF p.d > 0 THEN [p EXCEPT !.s = 0] ELSE p

-----------------------------------------------------------------------------
(* Amounts.                                                                *)

\* Two decimals of a million, of a thousand or of one.
formatMarketCap(cents) ==
  LET a == Abs(cents)
      unit == IF a >= 100 * 1000000 THEN 1000000 ELSE IF a >= 100 * 1000 THEN 1000 ELSE 1
  IN [negative |-> cents < 0, hundredths |-> RoundDiv(a, unit), unit |-> unit]

\* Millions with whole thousands, or with tenths of a thousand when there is
\* less than one; thousands, with a decimal below a hundred; or the number.
formatCompactTokenAmount(amount) ==
  LET a == Abs(amount)
      k == (a % 1000000) \div 1000
      text(millions, thousands, tenths, ones) ==
        [negative |-> amount < 0, millions |-> millions, thousands |-> thousands,
         tenths |-> tenths, ones |-> ones]
  IN IF a >= 1000000
     THEN text(a \div 1000000, k, IF k = 0 THEN RoundDiv(a % 1000, 100) ELSE 0, 0)
     ELSE IF a >= 100000 THEN text(0, RoundDiv(a, 1000), 0, 0)
     ELSE IF a >= 1000 THEN text(0, 0, RoundDiv(a, 100), 0)
     ELSE text(0, 0, 0, a)

-----------------------------------------------------------------------------
(* Positions.                                                              *)

positionTotalPnl(row) == row.realizedPnl + row.unrealizedPnl

\* A position whose value is not known is worth its cost and its profit.
positionDisplayMarketValue(row) ==
  IF row.marketValue > 0 THEN row.marketValue
  ELSE IF row.costAmount > 0 THEN AtLeast(row.costAmount + positionTotalPnl(row), 0)
  ELSE 0

\* In percent of the cost, 0 without one.
positionTotalRate(row) ==
  IF row.costAmount <= 0 THEN 0
  ELSE LET pnl == positionTotalPnl(row)
       IN IF pnl < 0 THEN -((-100 * pnl) \div row.costAmount)
          ELSE (100 * pnl) \div row.costAmount

\* The width of the bar under a profit, and its colour.
positionPnlBarStyle(row) ==
  [width |-> AtMost(AtLeast(Abs(positionTotalRate(row)), 6), 100),
   color |-> IF row.costAmount <= 0 \/ positionTotalPnl(row) >= 0
             THEN "green" ELSE "red"]

openTradePositions(items) ==
  Sublist(items, {i \in DOMAIN items : items[i].status = "open"})

\* The strip over the table.
summarizeOpenPositions(items) ==
  LET open == openTradePositions(items)
  IN [cost |-> SumOf([i \in DOMAIN open |-> open[i].costAmount]),
      marketValue |-> SumOf([i \in DOMAIN open |->
        IF open[i].marketValue > 0 THEN open[i].marketValue
        ELSE AtLeast(open[i].costAmount + positionTotalPnl(open[i]), 0)]),
      totalPnl |-> SumOf([i \in DOMAIN open |-> positionTotalPnl(open[i])])]
================================================================================
