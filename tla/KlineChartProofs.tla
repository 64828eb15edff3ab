--------------------------- MODULE KlineChartProofs ---------------------------
(***************************************************************************)
(* Proofs about KlineChart: whatever the properties hold and in whichever  *)
(* order they, the toolbar and the pointer change, what the library draws  *)
(* is what the component means it to draw, and a range that is selected    *)
(* names the klines in it.                                                 *)
(***************************************************************************)
EXTENDS KlineChart, OrderingProofs

-----------------------------------------------------------------------------
(* Numbers.                                                                *)

LEMMA MinOfTwo ==
  ASSUME NEW a \in Int, NEW b \in Int
  PROVE  /\ Min({a, b}) \in {a, b} /\ Min({a, b}) <= a /\ Min({a, b}) <= b
         /\ Min({a, b}) \in Int
<1>1. \E x \in {a, b} : \A y \in {a, b} : x <= y
  OBVIOUS
<1>2. Min({a, b}) \in {a, b} /\ \A y \in {a, b} : Min({a, b}) <= y
  BY <1>1 DEF Min
<1> QED BY <1>2

LEMMA MaxOfTwo ==
  ASSUME NEW a \in Int, NEW b \in Int
  PROVE  /\ Max({a, b}) \in {a, b} /\ Max({a, b}) >= a /\ Max({a, b}) >= b
         /\ Max({a, b}) \in Int
<1>1. \E x \in {a, b} : \A y \in {a, b} : x >= y
  OBVIOUS
<1>2. Max({a, b}) \in {a, b} /\ \A y \in {a, b} : Max({a, b}) >= y
  BY <1>1 DEF Max
<1> QED BY <1>2

LEMMA Quotient ==
  ASSUME NEW a \in Nat, NEW b \in Nat \ {0}
  PROVE  a \div b \in Nat /\ b * (a \div b) <= a /\ a < b * (a \div b + 1)
OBVIOUS

LEMMA QuotientRises ==
  ASSUME NEW a \in Nat, NEW c \in Nat, a <= c, NEW b \in Nat \ {0}
  PROVE  a \div b <= c \div b
<1> DEFINE q == a \div b
           r == c \div b
<1>1. q \in Nat /\ r \in Nat /\ b * q <= a /\ c < b * (r + 1)
  BY Quotient
<1> HIDE DEF q, r
<1>2. b * q < b * (r + 1)
  BY <1>1
<1>3. q < r + 1
  BY <1>1, <1>2
<1> QED BY <1>1, <1>3 DEF q, r

LEMMA PointerWithin ==
  ASSUME NEW x \in Int
  PROVE  pointerX(x) \in 0..Width
<1>1. Width \in Nat /\ Width \in Int
  BY ChartSeriesAssumption
<1>2. Min({x, Width}) \in Int /\ Min({x, Width}) <= Width
  BY <1>1, MinOfTwo
<1> QED BY <1>1, <1>2 DEF pointerX, Max2

-----------------------------------------------------------------------------
(* Klines.                                                                 *)

Item == [time : Nat \ {0}, openTime : Nat, closeTime : Nat, open : Int, close : Int,
         volume : Int]

\* The i-th kline of a list can be shown, at this second.
Shows(klines, i, time) ==
  klines[i].valid /\ klines[i].openTime >= 1000 /\ time = klines[i].openTime \div 1000

\* Items are the klines that can be shown, one for each second, in their order.
ItemsOf(items, klines) ==
  /\ items \in Seq(Item)
  /\ \A i, j \in DOMAIN items : i < j => items[i].time < items[j].time
  /\ \A n \in DOMAIN items : \E i \in DOMAIN klines :
       /\ Shows(klines, i, items[n].time)
       /\ items[n].openTime = klines[i].openTime /\ items[n].closeTime = klines[i].closeTime
  /\ \A i \in DOMAIN klines, time \in Nat :
       Shows(klines, i, time) => \E n \in DOMAIN items : items[n].time = time

LEMMA KlinesAre ==
  ASSUME NEW klines \in Seq(Kline)
  PROVE  ItemsOf(chartKlines(klines), klines)
<1> DEFINE time(i) == toUnixTimestamp(klines[i].openTime)
           valid == {i \in DOMAIN klines : klines[i].valid /\ time(i) # None}
           latest == {i \in valid : \A j \in valid : time(j) = time(i) => j <= i}
           item(i) == [time |-> time(i), openTime |-> klines[i].openTime,
                       closeTime |-> klines[i].closeTime, open |-> klines[i].open,
                       close |-> klines[i].close, volume |-> klines[i].volume]
           items == {item(i) : i \in latest}
           R == {p \in items \X items : p[1].time < p[2].time}
           s == chartKlines(klines)
<1>1. s = Arranged(items, R)
  BY DEF chartKlines
<1>2. /\ Len(klines) \in Nat /\ DOMAIN klines = 1..Len(klines)
      /\ \A i \in DOMAIN klines : klines[i] \in Kline
  OBVIOUS
<1>3. \A i \in DOMAIN klines : time(i) # None =>
        /\ klines[i].openTime >= 1000 /\ time(i) = klines[i].openTime \div 1000
        /\ time(i) \in Nat \ {0}
  <2> SUFFICES ASSUME NEW i \in DOMAIN klines, time(i) # None
               PROVE  /\ klines[i].openTime >= 1000 /\ time(i) = klines[i].openTime \div 1000
                      /\ time(i) \in Nat \ {0}
    OBVIOUS
  <2> DEFINE t == klines[i].openTime
  <2>1. t \in Nat
    BY <1>2 DEF Kline
  <2>2. time(i) = IF t < 1000 THEN None ELSE t \div 1000
    BY DEF toUnixTimestamp
  <2> HIDE DEF t, time
  <2>3. t >= 1000 /\ time(i) = t \div 1000 /\ t \div 1000 \in Nat \ {0}
    BY <2>1, <2>2
  <2> QED BY <2>3 DEF t
<1>4. \A i \in DOMAIN klines, t \in Nat : Shows(klines, i, t) => time(i) = t /\ i \in valid
  <2> SUFFICES ASSUME NEW i \in DOMAIN klines, NEW t \in Nat, Shows(klines, i, t)
               PROVE  time(i) = t /\ i \in valid
    OBVIOUS
  <2>1. klines[i].openTime \in Nat /\ klines[i].openTime >= 1000 /\ klines[i].valid
        /\ t = klines[i].openTime \div 1000
    BY <1>2 DEF Kline, Shows
  <2>2. time(i) = t
    BY <2>1 DEF toUnixTimestamp
  <2>3. t # None
    BY ChartSeriesAssumption
  <2> QED BY <2>1, <2>2, <2>3
<1>5. \A i \in valid : Shows(klines, i, time(i)) /\ item(i) \in Item /\ time(i) \in Nat
  <2> SUFFICES ASSUME NEW i \in valid
               PROVE  Shows(klines, i, time(i)) /\ item(i) \in Item /\ time(i) \in Nat
    OBVIOUS
  <2>1. /\ klines[i].openTime >= 1000 /\ time(i) = klines[i].openTime \div 1000
        /\ time(i) \in Nat \ {0}
    BY <1>3
  <2>2. /\ klines[i].openTime \in Nat /\ klines[i].closeTime \in Nat /\ klines[i].open \in Int
        /\ klines[i].close \in Int /\ klines[i].volume \in Int
    BY <1>2 DEF Kline
  <2> HIDE DEF time
  <2> QED BY <2>1, <2>2 DEF Shows, Item
<1>6. IsFiniteSet(valid) /\ IsFiniteSet(latest)
  <2>1. IsFiniteSet(1..Len(klines))
    BY <1>2, FS_Interval
  <2> QED BY <1>2, <2>1, FS_Subset
<1>7. IsFiniteSet(items)
  <2> DEFINE f == [i \in latest |-> item(i)]
  <2>1. items = {f[i] : i \in latest}
    OBVIOUS
  <2> HIDE DEF f, items, latest
  <2> QED BY <1>6, <2>1, FiniteImage
<1>8. \A x \in items : \E i \in latest : x = item(i)
  OBVIOUS
<1>9. StrictOrder(items, R)
  <2>1. \A x \in items : x.time \in Nat
    BY <1>5
  <2>2. ASSUME NEW x \in items, NEW y \in items, x.time = y.time PROVE x = y
    <3>1. PICK i \in latest : x = item(i)
      OBVIOUS
    <3>2. PICK j \in latest : y = item(j)
      OBVIOUS
    <3>3. time(i) = time(j)
      BY <2>2, <3>1, <3>2
    <3>4. i <= j /\ j <= i /\ i \in Int /\ j \in Int
      BY <1>2, <3>3
    <3> QED BY <3>1, <3>2, <3>4
  <2> HIDE DEF items
  <2> QED BY <2>1, <2>2 DEF StrictOrder
<1>10. /\ s \in Seq(items) /\ DOMAIN s = 1..Len(s) /\ Len(s) \in Nat
       /\ \A x \in items : \E n \in DOMAIN s : s[n] = x
       /\ \A i, j \in DOMAIN s : i < j => <<s[i], s[j]>> \in R
  <2> HIDE DEF items, R, s
  <2> QED BY <1>1, <1>7, <1>9, ArrangedIs
<1>11. s \in Seq(Item)
  <2>1. items \subseteq Item
    BY <1>5
  <2> HIDE DEF items, s
  <2> QED BY <1>10, <2>1
<1>12. \A i, j \in DOMAIN s : i < j => s[i].time < s[j].time
  <2> HIDE DEF items, s
  <2> QED BY <1>10
<1>13. ASSUME NEW n \in DOMAIN s
       PROVE  \E i \in DOMAIN klines :
                /\ Shows(klines, i, s[n].time)
                /\ s[n].openTime = klines[i].openTime /\ s[n].closeTime = klines[i].closeTime
  <2>1. s[n] \in items
    <3> HIDE DEF items, s
    <3> QED BY <1>10, <1>13
  <2>2. PICK i \in latest : s[n] = item(i)
    BY <2>1
  <2>3. /\ s[n].time = time(i) /\ s[n].openTime = klines[i].openTime
        /\ s[n].closeTime = klines[i].closeTime
    BY <2>2
  <2> QED BY <1>5, <2>3
<1>14. ASSUME NEW i \in DOMAIN klines, NEW t \in Nat, Shows(klines, i, t)
       PROVE  \E n \in DOMAIN s : s[n].time = t
  <2> DEFINE same == {j \in valid : time(j) = t}
             later == {p \in same \X same : p[1] > p[2]}
  <2>1. i \in same
    BY <1>4, <1>14
  <2>2. IsFiniteSet(same) /\ same # {}
    BY <1>6, <2>1, FS_Subset
  <2>3. same \subseteq Int
    BY <1>2
  <2>4. StrictOrder(same, later)
    <3> HIDE DEF same
    <3> QED BY <2>3 DEF StrictOrder
  <2>5. PICK m \in same : \A j \in same \ {m} : <<m, j>> \in later
    <3> HIDE DEF same, later
    <3> QED BY <2>2, <2>4, LeastIs
  <2>6. m \in latest
    <3>1. ASSUME NEW j \in same PROVE j <= m
      <4>1. j = m \/ <<m, j>> \in later
        BY <2>5
      <4>2. j \in Int /\ m \in Int /\ (j = m \/ m > j)
        <5> HIDE DEF same
        <5> QED BY <2>3, <4>1
      <4> QED BY <4>2
    <3> QED BY <2>5, <3>1
  <2>7. item(m) \in items /\ item(m).time = t
    BY <2>5, <2>6
  <2> HIDE DEF s, items
  <2> QED BY <1>10, <2>7
<1> QED BY <1>11, <1>12, <1>13, <1>14 DEF ItemsOf

-----------------------------------------------------------------------------
(* Lists and the bags of their elements.                                   *)

IsList(s) == s \in Seq(ToSet(s))

LEMMA ListIs ==
  ASSUME NEW s, NEW n \in Nat, s = [i \in 1..n |-> s[i]]
  PROVE  IsList(s) /\ Len(s) = n /\ DOMAIN s = 1..n
<1>1. DOMAIN s = 1..n /\ \A i \in 1..n : s[i] \in ToSet(s)
  BY DEF ToSet
<1>2. s \in [1..n -> ToSet(s)]
  BY <1>1
<1> QED BY <1>1, <1>2 DEF IsList

LEMMA ListOf ==
  ASSUME NEW T, NEW s \in Seq(T)
  PROVE  IsList(s) /\ Len(s) \in Nat /\ DOMAIN s = 1..Len(s)
<1>1. Len(s) \in Nat /\ DOMAIN s = 1..Len(s) /\ s = [i \in 1..Len(s) |-> s[i]]
  OBVIOUS
<1> QED BY <1>1, ListIs

LEMMA ListsJoin ==
  ASSUME NEW s, NEW t, IsList(s), IsList(t)
  PROVE  IsList(s \o t)
<1> DEFINE T == ToSet(s) \cup ToSet(t)
<1>1. s \in Seq(T) /\ t \in Seq(T)
  BY DEF IsList
<1> HIDE DEF T
<1>2. s \o t \in Seq(T)
  BY <1>1
<1> QED BY <1>2, ListOf

LEMMA BagOfList ==
  ASSUME NEW s, IsList(s)
  PROVE  IsABag(ToBag(s))
<1>1. Len(s) \in Nat /\ DOMAIN s = 1..Len(s)
  BY ListOf DEF IsList
<1>2. IsFiniteSet(DOMAIN s)
  BY <1>1, FS_Interval
<1>3. ASSUME NEW x \in Range(s)
      PROVE  Cardinality({i \in DOMAIN s : s[i] = x}) \in {n \in Nat : n > 0}
  <2> DEFINE X == {i \in DOMAIN s : s[i] = x}
  <2>1. X # {}
    BY <1>3 DEF Range
  <2>2. IsFiniteSet(X)
    BY <1>2, FS_Subset
  <2>3. Cardinality(X) \in Nat /\ Cardinality(X) # 0
    BY <2>1, <2>2, FS_CardinalityType, FS_EmptySet
  <2> HIDE DEF X
  <2>4. Cardinality(X) \in {n \in Nat : n > 0}
    BY <2>3
  <2> QED BY <2>4 DEF X
<1> QED BY <1>3 DEF ToBag, IsABag

LEMMA BagOfOne ==
  ASSUME NEW line
  PROVE  IsABag(BagOf(line))
BY DEF BagOf, IsABag, SetToBag, EmptyBag

LEMMA EmptyAndBag ==
  ASSUME NEW B, IsABag(B)
  PROVE  EmptyBag (+) B = B
<1>1. /\ B = [e \in DOMAIN B |-> B[e]]
      /\ \A e \in DOMAIN B : B[e] \in Nat /\ 0 + B[e] = B[e]
  BY DEF IsABag
<1>2. DOMAIN EmptyBag = {}
  BY DEF EmptyBag, SetToBag
<1>3. EmptyBag (+) B = [e \in DOMAIN B |-> 0 + B[e]]
  BY <1>2 DEF (+)
<1> QED BY <1>1, <1>3

LEMMA SumLessFirst ==
  ASSUME NEW A, NEW B, IsABag(A), IsABag(B)
  PROVE  (A (+) B) (-) A = B
<1> DEFINE S == A (+) B
           D == [e \in DOMAIN S |-> IF e \in DOMAIN A THEN S[e] - A[e] ELSE S[e]]
<1>1. /\ \A e \in DOMAIN A : A[e] \in Nat /\ A[e] > 0
      /\ \A e \in DOMAIN B : B[e] \in Nat /\ B[e] > 0
      /\ B = [e \in DOMAIN B |-> B[e]]
  BY DEF IsABag
<1>2. DOMAIN S = DOMAIN A \cup DOMAIN B
  BY DEF (+)
<1>3. \A e \in DOMAIN S : D[e] = IF e \in DOMAIN B THEN B[e] ELSE 0
  BY <1>1 DEF (+)
<1>4. S (-) A = [e \in {d \in DOMAIN D : D[d] > 0} |-> D[e]]
  BY DEF (-)
<1>5. DOMAIN D = DOMAIN S
  OBVIOUS
<1> HIDE DEF D, S
<1>6. {d \in DOMAIN D : D[d] > 0} = DOMAIN B
  BY <1>1, <1>2, <1>3, <1>5
<1>7. S (-) A = [e \in DOMAIN B |-> B[e]]
  BY <1>2, <1>3, <1>4, <1>5, <1>6
<1> QED BY <1>1, <1>7 DEF S

LEMMA BagLessItself ==
  ASSUME NEW B, IsABag(B)
  PROVE  B (-) B = EmptyBag
<1>1. \A e \in DOMAIN B : B[e] \in Nat /\ ~(B[e] - B[e] > 0)
  BY DEF IsABag
<1> DEFINE D == [e \in DOMAIN B |-> IF e \in DOMAIN B THEN B[e] - B[e] ELSE B[e]]
<1>2. B (-) B = [e \in {d \in DOMAIN D : D[d] > 0} |-> D[e]]
  BY DEF (-)
<1>3. {d \in DOMAIN D : D[d] > 0} = {}
  BY <1>1
<1> HIDE DEF D
<1> QED BY <1>2, <1>3 DEF EmptyBag, SetToBag

\* The lines that are removed are all lines there are.
LEMMA AllRemoved ==
  ASSUME NEW A, NEW B, IsABag(A), IsABag(B)
  PROVE  ((A (+) B) (-) A) (-) B = EmptyBag
BY SumLessFirst, BagLessItself

-----------------------------------------------------------------------------
(* The kline nearest to a place.                                           *)

\* Of the items the one with the given time is the nearest.
LEMMA NearestIs ==
  ASSUME NEW items, NEW n \in Nat, DOMAIN items = 1..n, n > 0,
         \A i \in 1..n : items[i].time \in Nat, NEW time \in Int
  PROVE  /\ \E i \in DOMAIN items : Nearest(items, time) = items[i]
         /\ \A i \in DOMAIN items : items[i].time = time =>
              \E j \in DOMAIN items : Nearest(items, time) = items[j] /\ items[j].time = time
<1> DEFINE S == DOMAIN items
           off(i) == Distance(items[i].time, time)
           R == {p \in S \X S : off(p[1]) < off(p[2])
                                  \/ (off(p[1]) = off(p[2]) /\ p[1] < p[2])}
<1>1. Nearest(items, time) = items[Least(S, R)]
  BY DEF Nearest
<1>2. IsFiniteSet(S) /\ S # {} /\ S \subseteq Nat
  <2>1. IsFiniteSet(1..n)
    BY FS_Interval
  <2>2. 1 \in 1..n /\ 1..n \subseteq Nat
    OBVIOUS
  <2> QED BY <2>1, <2>2
<1>3. \A i \in S : /\ off(i) \in Nat
                   /\ off(i) = 0 <=> items[i].time = time
  BY DEF Distance, Max2
<1> HIDE DEF S, off
<1>4. StrictOrder(S, R)
  BY <1>2, <1>3 DEF StrictOrder
<1>5. /\ Least(S, R) \in S
      /\ \A y \in S \ {Least(S, R)} : <<Least(S, R), y>> \in R
  <2> HIDE DEF R
  <2> QED BY <1>2, <1>4, LeastIs
<1>6. ASSUME NEW i \in S, items[i].time = time
      PROVE  items[Least(S, R)].time = time
  <2>1. off(i) = 0
    BY <1>3, <1>6
  <2>2. i = Least(S, R) \/ off(Least(S, R)) <= off(i)
    <3>1. i = Least(S, R) \/ <<Least(S, R), i>> \in R
      BY <1>5
    <3>2. /\ <<Least(S, R), i>> \in R => off(Least(S, R)) <= off(i)
      <4> DEFINE l == Least(S, R)
      <4> HIDE DEF l
      <4>1. <<l, i>> \in R => off(l) < off(i) \/ off(l) = off(i)
        OBVIOUS
      <4>2. l \in S => off(l) \in Nat /\ off(i) \in Nat
        BY <1>3
      <4> QED BY <1>5, <4>1, <4>2 DEF l
    <3> QED BY <3>1, <3>2
  <2> QED BY <1>3, <1>5, <2>1, <2>2
<1> QED BY <1>1, <1>5, <1>6 DEF S

LEMMA ItemsAre ==
  ASSUME NEW items, NEW klines, ItemsOf(items, klines)
  PROVE  /\ Len(items) \in Nat /\ DOMAIN items = 1..Len(items)
         /\ \A n \in 1..Len(items) : items[n].time \in Nat \ {0}
         /\ \A n, m \in 1..Len(items) : items[n].time = items[m].time => n = m
         /\ items # <<>> <=> Len(items) > 0
<1>1. items \in Seq(Item)
  BY DEF ItemsOf
<1>2. /\ Len(items) \in Nat /\ DOMAIN items = 1..Len(items)
      /\ \A n \in 1..Len(items) : items[n] \in Item
      /\ items # <<>> <=> Len(items) > 0
  BY <1>1
<1>3. \A n \in 1..Len(items) : items[n].time \in Nat \ {0}
  BY <1>2 DEF Item
<1>4. \A n, m \in 1..Len(items) : n < m => items[n].time < items[m].time
  BY <1>2 DEF ItemsOf
<1>5. \A n, m \in 1..Len(items) : items[n].time = items[m].time => n = m
  BY <1>2, <1>3, <1>4
<1> QED BY <1>2, <1>3, <1>5

\* What nearestCandleTime answers is the time of a bar.
LEMMA NearestTimeIs ==
  ASSUME NEW klines \in Seq(Kline), NEW time \in Nat,
         nearestCandleTime(chartKlines(klines), time) # None
  PROVE  \E i \in DOMAIN chartKlines(klines) :
           nearestCandleTime(chartKlines(klines), time) = chartKlines(klines)[i].time
<1> DEFINE items == chartKlines(klines)
<1>1. ItemsOf(items, klines)
  BY KlinesAre
<1> HIDE DEF items
<1>2. /\ Len(items) \in Nat /\ DOMAIN items = 1..Len(items)
      /\ \A i \in 1..Len(items) : items[i].time \in Nat
      /\ items # <<>> <=> Len(items) > 0
  BY <1>1, ItemsAre
<1>3. toUnixTimestamp(time) \in Int /\ items # <<>>
  BY DEF nearestCandleTime, toUnixTimestamp, items
<1>4. Len(items) > 0
  BY <1>2, <1>3
<1>5. nearestCandleTime(items, time) = Nearest(items, toUnixTimestamp(time)).time
  BY <1>3 DEF nearestCandleTime, items
<1>6. \E i \in DOMAIN items : Nearest(items, toUnixTimestamp(time)) = items[i]
  BY <1>2, <1>3, <1>4, NearestIs
<1> QED BY <1>5, <1>6 DEF items

\* The kline under a place of the chart, if there is one.
LEMMA KlineUnder ==
  ASSUME NEW klines \in Seq(Kline), NEW x \in 0..Width,
         nearestKlineByCoordinate(chartKlines(klines), x) # None
  PROVE  /\ (x * Len(chartKlines(klines))) \div Width + 1 \in DOMAIN chartKlines(klines)
         /\ nearestKlineByCoordinate(chartKlines(klines), x)
              = chartKlines(klines)[(x * Len(chartKlines(klines))) \div Width + 1]
<1> DEFINE items == chartKlines(klines)
           i == (x * Len(items)) \div Width + 1
<1>1. ItemsOf(items, klines)
  BY KlinesAre
<1> HIDE DEF items
<1>2. /\ Len(items) \in Nat /\ DOMAIN items = 1..Len(items)
      /\ \A n \in 1..Len(items) : items[n].time \in Nat
      /\ \A n, m \in 1..Len(items) : items[n].time = items[m].time => n = m
  BY <1>1, ItemsAre
<1> HIDE DEF i
<1>3. nearestKlineByCoordinate(items, x)
        = IF coordinateToTime(items, x) = None THEN None
          ELSE Nearest(items, coordinateToTime(items, x))
  BY DEF nearestKlineByCoordinate
<1>4. coordinateToTime(items, x) = IF i \in DOMAIN items THEN items[i].time ELSE None
  BY DEF coordinateToTime, i
<1>5. i \in DOMAIN items
  BY <1>3, <1>4 DEF items
<1>6. /\ nearestKlineByCoordinate(items, x) = Nearest(items, items[i].time)
      /\ items[i].time \in Nat /\ Len(items) > 0
  BY <1>2, <1>3, <1>4, <1>5 DEF items
<1>7. \E j \in DOMAIN items :
        Nearest(items, items[i].time) = items[j] /\ items[j].time = items[i].time
  <2> DEFINE t == items[i].time
             m == Len(items)
  <2>1. /\ m \in Nat /\ DOMAIN items = 1..m /\ m > 0 /\ t \in Int
        /\ \A k \in 1..m : items[k].time \in Nat
    BY <1>2, <1>5, <1>6
  <2> HIDE DEF t, m
  <2>2. items[i].time = t => \E j \in DOMAIN items : Nearest(items, t) = items[j] /\ items[j].time = t
    BY <2>1, <1>5, NearestIs
  <2> QED BY <2>2 DEF t
<1>8. nearestKlineByCoordinate(items, x) = items[i]
  BY <1>2, <1>5, <1>6, <1>7
<1> QED BY <1>5, <1>8 DEF items, i

LEMMA CoordinateIs ==
  ASSUME NEW items, NEW klines, ItemsOf(items, klines), NEW i \in DOMAIN items
  PROVE  timeToCoordinate(items, items[i].time) \in Int
<1> DEFINE at == {n \in DOMAIN items : items[n].time = items[i].time}
<1>1. /\ Len(items) \in Nat /\ DOMAIN items = 1..Len(items)
      /\ \A n, m \in 1..Len(items) : items[n].time = items[m].time => n = m
  BY ItemsAre
<1>2. at = {i} /\ i \in Int /\ Len(items) \in Nat \ {0}
  BY <1>1
<1>3. Min(at) = i
  BY <1>2 DEF Min
<1>4. timeToCoordinate(items, items[i].time) = ((2 * Min(at) - 1) * Width) \div (2 * Len(items))
  BY <1>2 DEF timeToCoordinate
<1>5. (2 * i - 1) * Width \in Int /\ 2 * Len(items) \in Nat \ {0}
  BY <1>2, ChartSeriesAssumption
<1>6. \A a \in Int, b \in Nat \ {0} : a \div b \in Int
  OBVIOUS
<1> HIDE DEF at
<1> QED BY <1>3, <1>4, <1>5, <1>6

-----------------------------------------------------------------------------
(* Markers.                                                                *)

AllProps == Props \cup {NoProps}

LEMMA PropsAre ==
  ASSUME NEW p \in AllProps
  PROVE  /\ p.klines \in Seq(Kline)
         /\ IsList(p.levels) /\ Len(p.levels) \in Nat /\ DOMAIN p.levels = 1..Len(p.levels)
         /\ IsList(p.trades) /\ Len(p.trades) \in Nat /\ DOMAIN p.trades = 1..Len(p.trades)
         /\ \A n \in DOMAIN p.trades :
              /\ p.trades[n].buyTime \in Nat /\ p.trades[n].sellTime \in Nat
              /\ p.trades[n].buyPrice \in Int /\ p.trades[n].sellPrice \in Int
         /\ \A i, j \in DOMAIN p.klines :
              LET k == p.klines[i]
                  l == p.klines[j]
              IN k.openTime < k.closeTime
                   /\ (k.openTime < l.openTime => k.closeTime <= l.openTime)
<1>1. CASE p \in Props
  <2>0. p \in [klines : Seq(Kline), levels : Seq(ToSet(p.levels)), selected : {p.selected},
                window : Nat, trades : Seq(ToSet(p.trades)), focused : {p.focused}]
    BY <1>1, KlineChartAssumption
  <2>1. /\ p.klines \in Seq(Kline) /\ p.levels \in Seq(ToSet(p.levels))
        /\ p.trades \in Seq(ToSet(p.trades))
        /\ \A t \in ToSet(p.trades) :
             {t.buyTime, t.sellTime} \subseteq Nat /\ {t.buyPrice, t.sellPrice} \subseteq Int
        /\ \A k, l \in ToSet(p.klines) :
             k.openTime < k.closeTime /\ (k.openTime < l.openTime => k.closeTime <= l.openTime)
    <3>1. /\ p.klines \in Seq(Kline) /\ p.levels \in Seq(ToSet(p.levels))
          /\ p.trades \in Seq(ToSet(p.trades))
      BY <2>0
    <3> QED BY <1>1, <3>1, KlineChartAssumption
  <2>2. \A i \in DOMAIN p.klines : p.klines[i] \in ToSet(p.klines)
    BY DEF ToSet
  <2>3. \A n \in DOMAIN p.trades : p.trades[n] \in ToSet(p.trades)
    BY DEF ToSet
  <2>4. /\ IsList(p.levels) /\ Len(p.levels) \in Nat /\ DOMAIN p.levels = 1..Len(p.levels)
        /\ IsList(p.trades) /\ Len(p.trades) \in Nat /\ DOMAIN p.trades = 1..Len(p.trades)
    BY <2>1, ListOf
  <2>5. \A n \in DOMAIN p.trades :
          /\ p.trades[n].buyTime \in Nat /\ p.trades[n].sellTime \in Nat
          /\ p.trades[n].buyPrice \in Int /\ p.trades[n].sellPrice \in Int
    BY <2>1, <2>3
  <2> QED BY <2>1, <2>2, <2>4, <2>5
<1>2. CASE p = NoProps
  <2>1. p.klines = <<>> /\ p.levels = <<>> /\ p.trades = <<>>
    BY <1>2 DEF NoProps
  <2>2. /\ <<>> \in Seq(Kline) /\ <<>> \in Seq({}) /\ DOMAIN <<>> = {} /\ Len(<<>>) = 0
        /\ DOMAIN <<>> = 1..Len(<<>>)
    OBVIOUS
  <2>3. IsList(<<>>)
    BY <2>2, ListOf
  <2> QED BY <2>1, <2>2, <2>3
<1> QED BY <1>1, <1>2 DEF AllProps

\* Properties are records, so that the window is all that tells two apart.
PropsOf(p) ==
  p = [klines |-> p.klines, levels |-> p.levels, selected |-> p.selected,
       window |-> p.window, trades |-> p.trades, focused |-> p.focused]

LEMMA PropsAreRecords ==
  ASSUME NEW p \in AllProps
  PROVE  PropsOf(p)
<1>1. CASE p \in Props
  <2>1. p \in [klines : Seq(Kline), levels : Seq(ToSet(p.levels)), selected : {p.selected},
                window : Nat, trades : Seq(ToSet(p.trades)), focused : {p.focused}]
    BY <1>1, KlineChartAssumption
  <2> QED BY <2>1 DEF PropsOf
<1>2. CASE p = NoProps
  BY <1>2 DEF NoProps, PropsOf
<1> QED BY <1>1, <1>2 DEF AllProps

LEMMA OwnWindow ==
  ASSUME NEW p \in AllProps
  PROVE  [p EXCEPT !.window = p.window] = p
BY PropsAreRecords DEF PropsOf

\* Properties that differ in the window alone.
LEMMA SameWatched ==
  ASSUME NEW p \in AllProps, NEW q \in AllProps, Watched(q) = Watched(p)
  PROVE  /\ q.klines = p.klines /\ q.levels = p.levels /\ q.selected = p.selected
         /\ \A w : [q EXCEPT !.window = w] = [p EXCEPT !.window = w]
<1>1. PropsOf(p) /\ PropsOf(q)
  BY PropsAreRecords
<1>2. /\ Watched(p) = [klines |-> p.klines, levels |-> p.levels, selected |-> p.selected,
                       window |-> 0, trades |-> p.trades, focused |-> p.focused]
      /\ Watched(q) = [klines |-> q.klines, levels |-> q.levels, selected |-> q.selected,
                       window |-> 0, trades |-> q.trades, focused |-> q.focused]
  BY <1>1 DEF PropsOf, Watched
<1>3. /\ q.klines = p.klines /\ q.levels = p.levels /\ q.selected = p.selected
      /\ q.trades = p.trades /\ q.focused = p.focused
  BY <1>2
<1>4. ASSUME NEW w PROVE [q EXCEPT !.window = w] = [p EXCEPT !.window = w]
  <2>1. /\ [p EXCEPT !.window = w] =
             [klines |-> p.klines, levels |-> p.levels, selected |-> p.selected,
              window |-> w, trades |-> p.trades, focused |-> p.focused]
        /\ [q EXCEPT !.window = w] =
             [klines |-> q.klines, levels |-> q.levels, selected |-> q.selected,
              window |-> w, trades |-> q.trades, focused |-> q.focused]
    BY <1>1 DEF PropsOf
  <2> QED BY <1>3, <2>1
<1> QED BY <1>3, <1>4

\* Each marker is drawn at a bar and at a height.
LEMMA DetailsAre ==
  ASSUME NEW p \in AllProps
  PROVE  LET details == strategyMarkerDetails(p)
             items == chartKlines(p.klines)
         IN /\ IsList(details) /\ Len(details) \in Nat /\ DOMAIN details = 1..Len(details)
            /\ \A n \in DOMAIN details :
                 /\ details[n].price \in Int
                 /\ \E i \in DOMAIN items : details[n].time = items[i].time
<1> DEFINE items == chartKlines(p.klines)
           mine == {i \in DOMAIN p.trades :
                      p.trades[i].windowIndex = p.window /\ p.trades[i].band = p.selected.band}
           point(at) == Point(p.trades[at[1]], at[2])
           drawn == {at \in mine \X {1, 2} :
                       point(at).price > 0 /\ nearestCandleTime(items, point(at).time) # None}
           detail(at) == [at |-> at, key |-> tradeKey(p.trades[at[1]]), side |-> point(at).side,
                          price |-> point(at).price,
                          time |-> nearestCandleTime(items, point(at).time)]
           details == {detail(at) : at \in drawn}
           R == {q \in details \X details :
                   \/ q[1].time < q[2].time
                   \/ q[1].time = q[2].time /\ Earlier(q[1].at, q[2].at)}
           s == strategyMarkerDetails(p)
<1>1. s = IF p.selected = None \/ p.window = 0 THEN <<>> ELSE Arranged(details, R)
  BY DEF strategyMarkerDetails
<1>2. ItemsOf(items, p.klines) /\ p.klines \in Seq(Kline)
  BY PropsAre, KlinesAre
<1>3. /\ Len(items) \in Nat /\ DOMAIN items = 1..Len(items)
      /\ \A n \in 1..Len(items) : items[n].time \in Nat
  BY <1>2, ItemsAre
<1>4. IsFiniteSet(drawn)
  <2>1. Len(p.trades) \in Nat /\ DOMAIN p.trades = 1..Len(p.trades)
    BY PropsAre
  <2>2. IsFiniteSet(DOMAIN p.trades) /\ IsFiniteSet({1, 2})
    <3>1. IsFiniteSet({1} \cup {2})
      BY FS_Singleton, FS_AddElement
    <3>2. {1} \cup {2} = {1, 2}
      OBVIOUS
    <3>3. IsFiniteSet(1..Len(p.trades))
      BY <2>1, FS_Interval
    <3> QED BY <2>1, <3>1, <3>2, <3>3
  <2>3. IsFiniteSet(mine)
    BY <2>2, FS_Subset
  <2> HIDE DEF mine
  <2>4. IsFiniteSet(mine \X {1, 2})
    BY <2>2, <2>3, FS_Product
  <2> QED BY <2>4, FS_Subset
<1>5. IsFiniteSet(details)
  <2> DEFINE f == [at \in drawn |-> detail(at)]
  <2>1. details = {f[at] : at \in drawn}
    OBVIOUS
  <2> HIDE DEF f, details, drawn
  <2> QED BY <1>4, <2>1, FiniteImage
<1>6. ASSUME NEW at \in drawn
      PROVE  /\ at = <<at[1], at[2]>> /\ at[1] \in Nat /\ at[2] \in Nat
             /\ point(at).price \in Int
             /\ \E i \in DOMAIN items : detail(at).time = items[i].time
             /\ detail(at).time \in Nat
  <2>1. /\ at = <<at[1], at[2]>> /\ at[1] \in DOMAIN p.trades /\ at[2] \in {1, 2}
        /\ nearestCandleTime(items, point(at).time) # None
    OBVIOUS
  <2>2. /\ p.trades[at[1]].buyTime \in Nat /\ p.trades[at[1]].sellTime \in Nat
        /\ p.trades[at[1]].buyPrice \in Int /\ p.trades[at[1]].sellPrice \in Int
        /\ at[1] \in Nat
    BY <2>1, PropsAre
  <2>3. point(at).price \in Int /\ point(at).time \in Nat
    BY <2>2 DEF Point
  <2> HIDE DEF point
  <2>4. detail(at).time = nearestCandleTime(items, point(at).time)
    OBVIOUS
  <2>5. \E i \in DOMAIN items : detail(at).time = items[i].time
    BY <1>2, <2>1, <2>3, <2>4, NearestTimeIs
  <2> QED BY <1>3, <2>1, <2>2, <2>3, <2>5
<1>7. ASSUME NEW x \in details
      PROVE  /\ x.at \in drawn /\ x = detail(x.at)
             /\ x.time \in Nat /\ x.price \in Int
             /\ x.at = <<x.at[1], x.at[2]>> /\ x.at[1] \in Nat /\ x.at[2] \in Nat
             /\ \E i \in DOMAIN items : x.time = items[i].time
  <2>1. PICK at \in drawn : x = detail(at)
    OBVIOUS
  <2>2. x.at = at /\ x.price = point(at).price
    BY <2>1
  <2> HIDE DEF drawn, detail, items, point
  <2> QED BY <1>6, <2>1, <2>2
<1>8. StrictOrder(details, R)
  <2>1. ASSUME NEW x \in details, NEW y \in details, x.at = y.at PROVE x = y
    <3> HIDE DEF details, detail, drawn
    <3> QED BY <1>7, <2>1
  <2>2. \A x \in details : x.time \in Nat /\ x.at[1] \in Nat /\ x.at[2] \in Nat
    BY <1>7
  <2>3. ASSUME NEW x \in details, NEW y \in details, x.at[1] = y.at[1], x.at[2] = y.at[2]
        PROVE x = y
    <3> HIDE DEF details, detail, drawn
    <3> QED BY <1>7, <2>1, <2>3
  <2> HIDE DEF details
  <2> QED BY <2>2, <2>3 DEF StrictOrder, Earlier
<1>9. CASE ~(p.selected = None \/ p.window = 0)
  <2>1. s = Arranged(details, R)
    BY <1>1, <1>9
  <2>2. /\ s \in Seq(details) /\ Len(s) \in Nat /\ DOMAIN s = 1..Len(s)
    <3> HIDE DEF details, R, s
    <3> QED BY <1>5, <1>8, <2>1, ArrangedIs
  <2>3. IsList(s)
    <3> HIDE DEF details, s
    <3> QED BY <2>2, ListOf
  <2>4. \A n \in DOMAIN s : s[n] \in details
    <3> HIDE DEF details, s
    <3> QED BY <2>2
  <2> HIDE DEF details, s, items
  <2> QED BY <1>7, <2>2, <2>3, <2>4 DEF s, items
<1>10. CASE p.selected = None \/ p.window = 0
  <2>1. s = <<>>
    BY <1>1, <1>10
  <2>2. /\ <<>> \in Seq({}) /\ DOMAIN <<>> = {} /\ Len(<<>>) = 0 /\ DOMAIN <<>> = 1..Len(<<>>)
    OBVIOUS
  <2>3. IsList(<<>>)
    BY <2>2, ListOf
  <2> QED BY <2>1, <2>2, <2>3
<1> QED BY <1>9, <1>10

\* The card is that of a marker that is drawn.
LEMMA HoveredIs ==
  ASSUME NEW p \in AllProps, NEW x \in Int, NEW y \in Int,
         findHoveredTradeMarker(p, x, y) # None
  PROVE  findHoveredTradeMarker(p, x, y) \in ToSet(strategyMarkerDetails(p))
<1> DEFINE items == chartKlines(p.klines)
           details == strategyMarkerDetails(p)
           square(i) == LET dx == timeToCoordinate(items, details[i].time) - x
                            dy == details[i].price - y
                        IN dx * dx + dy * dy
           near == {i \in DOMAIN details : square(i) <= HoverRadius * HoverRadius}
           R == {q \in near \X near : square(q[1]) < square(q[2])
                                        \/ (square(q[1]) = square(q[2]) /\ q[1] < q[2])}
<1>1. /\ Len(details) \in Nat /\ DOMAIN details = 1..Len(details)
      /\ \A n \in DOMAIN details : /\ details[n].price \in Int
                                   /\ \E i \in DOMAIN items : details[n].time = items[i].time
  BY DetailsAre
<1>2. ItemsOf(items, p.klines)
  BY PropsAre, KlinesAre
<1>3. \A n \in DOMAIN details : square(n) \in Int
  <2> HIDE DEF items, details
  <2>1. ASSUME NEW n \in DOMAIN details
        PROVE  timeToCoordinate(items, details[n].time) \in Int
    BY <1>1, <1>2, CoordinateIs
  <2>2. \A a, b \in Int : a * a + b * b \in Int
    OBVIOUS
  <2> QED BY <1>1, <2>1, <2>2
<1>4. findHoveredTradeMarker(p, x, y) = IF near = {} THEN None ELSE details[Least(near, R)]
  BY DEF findHoveredTradeMarker
<1>5. near # {}
  BY <1>4
<1>6. IsFiniteSet(near) /\ near \subseteq DOMAIN details /\ near \subseteq Nat
  <2> HIDE DEF items, details
  <2>1. IsFiniteSet(1..Len(details))
    BY <1>1, FS_Interval
  <2>2. near \subseteq DOMAIN details
    OBVIOUS
  <2> HIDE DEF near
  <2> QED BY <1>1, <2>1, <2>2, FS_Subset
<1>7. StrictOrder(near, R)
  <2>1. \A n \in near : square(n) \in Int
    BY <1>3, <1>6
  <2> HIDE DEF near, square
  <2> QED BY <1>6, <2>1 DEF StrictOrder
<1>8. Least(near, R) \in near
  <2> HIDE DEF near, R
  <2> QED BY <1>5, <1>6, <1>7, LeastIs
<1> HIDE DEF near, R, details
<1>9. details[Least(near, R)] \in ToSet(details)
  BY <1>6, <1>8 DEF ToSet
<1> QED BY <1>4, <1>5, <1>9 DEF details

-----------------------------------------------------------------------------
(* Price lines.                                                            *)

\* The levels that are shown make a list.
LEMMA LevelLinesAre ==
  ASSUME NEW p \in AllProps
  PROVE  IsList(LevelLines(p))
<1> DEFINE levels == p.levels
           ranked(role) ==
             LET mine == {i \in DOMAIN levels : levelRole(levels[i]) = role}
                 order == Arranged(mine, {q \in mine \X mine :
                            \/ levels[q[1]].score > levels[q[2]].score
                            \/ levels[q[1]].score = levels[q[2]].score /\ q[1] < q[2]})
             IN [n \in 1..Min({Cardinality(mine), LevelsPerType}) |->
                   [level |-> levels[order[n]], rank |-> n]]
           both == ranked("support") \o ranked("resistance")
           all == IF \/ p.selected = None
                     \/ \E r \in ToSet(both) : isSameLevel(r.level, p.selected)
                  THEN both
                  ELSE Append(both, [level |-> p.selected, rank |-> LevelsPerType + 1])
           shown == displayLevels(levels, p.selected)
<1>1. shown = StableSort(all, LAMBDA a, b : a.level.band.cap < b.level.band.cap)
  BY DEF displayLevels
<1>2. ASSUME NEW role PROVE IsList(ranked(role))
  <2> DEFINE mine == {i \in DOMAIN levels : levelRole(levels[i]) = role}
  <2>1. Cardinality(mine) \in Nat
    <3>1. Len(levels) \in Nat /\ DOMAIN levels = 1..Len(levels)
      BY PropsAre
    <3>2. IsFiniteSet(1..Len(levels))
      BY <3>1, FS_Interval
    <3>3. IsFiniteSet(DOMAIN levels) /\ mine \subseteq DOMAIN levels
      BY <3>1, <3>2
    <3> HIDE DEF mine
    <3> QED BY <3>3, FS_Subset, FS_CardinalityType
  <2>2. Min({Cardinality(mine), LevelsPerType}) \in Nat
    <3> DEFINE n == Cardinality(mine)
    <3>1. n \in Int /\ n \in Nat /\ LevelsPerType \in Nat /\ LevelsPerType \in Int
      BY <2>1, ChartSeriesAssumption
    <3> HIDE DEF n
    <3>2. Min({n, LevelsPerType}) \in {n, LevelsPerType}
      BY <3>1, MinOfTwo
    <3> QED BY <3>1, <3>2 DEF n
  <2> HIDE DEF mine
  <2> QED BY <2>2, ListIs DEF mine
<1> HIDE DEF ranked
<1>3. IsList(both)
  BY <1>2, ListsJoin
<1> HIDE DEF both
<1>4. IsList(all)
  <2> DEFINE x == [level |-> p.selected, rank |-> LevelsPerType + 1]
             T == ToSet(both) \cup {x}
  <2>1. both \in Seq(T)
    BY <1>3 DEF IsList
  <2>2. x \in T
    OBVIOUS
  <2> HIDE DEF x, T
  <2>3. Append(both, x) \in Seq(T)
    BY <2>1, <2>2
  <2>4. IsList(Append(both, x))
    BY <2>3, ListOf
  <2> QED BY <1>3, <2>4 DEF x
<1> HIDE DEF all
<1>5. Len(all) \in Nat /\ DOMAIN all = 1..Len(all)
  BY <1>4, ListOf DEF IsList
<1>6. DOMAIN shown = 1..Len(all)
  BY <1>1, <1>5 DEF StableSort
<1> HIDE DEF shown
<1>7. LevelLines(p) = [i \in 1..Len(all) |-> LevelLines(p)[i]]
  BY <1>6 DEF LevelLines, shown
<1> QED BY <1>5, <1>7, ListIs

\* The places of the horizontal drawings, and what Sublist makes of them.
Horizontals(d) == {i \in DOMAIN d : d[i].type = "horizontal"}

LEMMA HorizontalLinesAre ==
  ASSUME NEW d, IsList(d)
  PROVE  IsList(HorizontalLines(d))
<1> DEFINE places == Horizontals(d)
           s == Sublist(d, places)
<1>1. Len(d) \in Nat /\ DOMAIN d = 1..Len(d) /\ d \in [1..Len(d) -> ToSet(d)]
  BY ListOf DEF IsList
<1>2. places \in SUBSET (1..Len(d))
  BY <1>1 DEF Horizontals
<1>3. s \in Seq(ToSet(d))
  <2> HIDE DEF places
  <2> QED BY <1>1, <1>2, SublistIs
<1>4. Len(s) \in Nat /\ DOMAIN s = 1..Len(s)
  BY <1>3
<1> HIDE DEF s
<1>5. HorizontalLines(d) = [i \in 1..Len(s) |-> HorizontalLines(d)[i]]
  BY <1>4 DEF HorizontalLines, Horizontals, s
<1> QED BY <1>4, <1>5, ListIs

\* A trend line has no price line of its own.
LEMMA TrendHasNoLine ==
  ASSUME NEW d, IsList(d), NEW x, x.type = "trend"
  PROVE  /\ IsList(Append(d, x))
         /\ HorizontalLines(Append(d, x)) = HorizontalLines(d)
<1> DEFINE T == ToSet(d) \cup {x}
           e == Append(d, x)
           n == Len(d)
           R == {p \in Horizontals(d) \X Horizontals(d) : p[1] < p[2]}
           g == Arranged(Horizontals(d), R)
<1>1. d \in Seq(T) /\ x \in T
  BY DEF IsList
<1>2. /\ n \in Nat /\ DOMAIN d = 1..n /\ e \in Seq(T) /\ DOMAIN e = 1..(n + 1)
      /\ \A i \in 1..n : e[i] = d[i]
      /\ e[n + 1] = x
  <2> HIDE DEF T
  <2> QED BY <1>1
<1>3. IsList(e)
  BY <1>2, ListOf
<1> HIDE DEF e, n
<1>4. \A i \in 1..(n + 1) : i \in 1..n \/ i = n + 1
  BY <1>2
<1>5. Horizontals(e) = Horizontals(d)
  <2>1. \A i \in Horizontals(e) : i \in Horizontals(d)
    BY <1>2, <1>4 DEF Horizontals
  <2>2. \A i \in Horizontals(d) : i \in Horizontals(e)
    BY <1>2, <1>4 DEF Horizontals
  <2> QED BY <2>1, <2>2
<1>6. /\ Cardinality(Horizontals(d)) \in Nat
      /\ \A i \in 1..Cardinality(Horizontals(d)) : g[i] \in Horizontals(d)
  <2>1. IsFiniteSet(1..n) /\ Horizontals(d) \subseteq 1..n /\ Horizontals(d) \subseteq Int
    BY <1>2, FS_Interval DEF Horizontals
  <2>2. IsFiniteSet(Horizontals(d))
    BY <2>1, FS_Subset
  <2>3. StrictOrder(Horizontals(d), R)
    BY <2>1 DEF StrictOrder
  <2> HIDE DEF R
  <2>4. /\ g \in Seq(Horizontals(d)) /\ DOMAIN g = 1..Cardinality(Horizontals(d))
        /\ Cardinality(Horizontals(d)) \in Nat
    BY <2>2, <2>3, ArrangedIs
  <2> HIDE DEF g
  <2> QED BY <2>4
<1>7. \A i \in Horizontals(d) : e[i] = d[i]
  BY <1>2 DEF Horizontals
<1> DEFINE se == Sublist(e, Horizontals(d))
           sd == Sublist(d, Horizontals(d))
<1>8. /\ se = [i \in 1..Cardinality(Horizontals(d)) |-> e[g[i]]]
      /\ sd = [i \in 1..Cardinality(Horizontals(d)) |-> d[g[i]]]
  BY DEF Sublist
<1>9. se = sd
  <2> HIDE DEF se, sd, g
  <2> QED BY <1>6, <1>7, <1>8
<1>10. /\ HorizontalLines(e) = [i \in DOMAIN se |-> [of |-> "drawing", price |-> se[i].price, rank |-> i]]
       /\ HorizontalLines(d) = [i \in DOMAIN sd |-> [of |-> "drawing", price |-> sd[i].price, rank |-> i]]
  <2>1. HorizontalLines(e) = [i \in DOMAIN Sublist(e, Horizontals(e)) |->
          [of |-> "drawing", price |-> Sublist(e, Horizontals(e))[i].price, rank |-> i]]
    BY DEF HorizontalLines, Horizontals
  <2>2. HorizontalLines(d) = [i \in DOMAIN sd |-> [of |-> "drawing", price |-> sd[i].price, rank |-> i]]
    BY DEF HorizontalLines, Horizontals
  <2> QED BY <1>5, <2>1, <2>2
<1>11. HorizontalLines(e) = HorizontalLines(d)
  <2> HIDE DEF se, sd
  <2> QED BY <1>9, <1>10
<1> QED BY <1>3, <1>11 DEF e

\* What the component makes: the lines of the levels, the drawings and the band.
Made(p, d) == LevelLines(p) \o HorizontalLines(d) \o BandLines(p)

LEMMA MadeIs ==
  ASSUME NEW p \in AllProps, NEW d, IsList(d)
  PROVE  IsList(Made(p, d)) /\ IsABag(ToBag(Made(p, d)))
<1>1. IsList(BandLines(p))
  <2> DEFINE low == [of |-> "lower", price |-> p.selected.band.lower, role |-> levelRole(p.selected)]
             up == [of |-> "upper", price |-> p.selected.band.upper, role |-> levelRole(p.selected)]
  <2>1. BandLines(p) = <<>> \/ BandLines(p) = << low, up >>
    BY DEF BandLines
  <2> HIDE DEF low, up
  <2>2. <<>> \in Seq({low, up}) /\ << low, up >> \in Seq({low, up})
    OBVIOUS
  <2>3. IsList(<<>>) /\ IsList(<< low, up >>)
    BY <2>2, ListOf
  <2> QED BY <2>1, <2>3
<1>2. IsList(Made(p, d))
  BY <1>1, LevelLinesAre, HorizontalLinesAre, ListsJoin DEF Made
<1> QED BY <1>2, BagOfList

-----------------------------------------------------------------------------
(* The invariant: what the component remembers of the lines it created is  *)
(* what is on the chart, so removing those it remembers removes all.       *)

MarkersInv ==
  /\ props.window \in windows
  /\ \E w \in windows : series.markers = ChartMarkers(InWindow(w))
  /\ hovered # None =>
       \E w \in windows : hovered \in ToSet(strategyMarkerDetails(InWindow(w)))

LinesInv ==
  /\ priceLines = Made(props, drawings)
  /\ hoverPriceLine = HoverLine(hovered)
  /\ series = [candles |-> Klines, markers |-> series.markers, plots |-> series.plots,
               lines |-> ToBag(priceLines) (+) BagOf(hoverPriceLine)]
  /\ overlay = visibleDrawings(Klines, drawings)
  /\ MarkersInv

KInv == TypeOK /\ IsList(drawings) /\ LinesInv

\* Whatever is drawn anew replaces everything that was there.
LEMMA Redrawn ==
  ASSUME KInv, NEW made, IsList(made), NEW h
  PROVE  (RemoveLines(series.lines) (+) ToBag(made)) (+) BagOf(h)
           = ToBag(made) (+) BagOf(h)
<1>1. IsABag(ToBag(priceLines)) /\ IsABag(BagOf(hoverPriceLine))
  BY MadeIs, BagOfOne DEF KInv, LinesInv, TypeOK, AllProps
<1>2. series.lines = ToBag(priceLines) (+) BagOf(hoverPriceLine)
  BY DEF KInv, LinesInv
<1>3. RemoveLines(series.lines) = EmptyBag
  BY <1>1, <1>2, AllRemoved DEF RemoveLines
<1>4. EmptyBag (+) ToBag(made) = ToBag(made)
  BY BagOfList, EmptyAndBag
<1> QED BY <1>3, <1>4

LEMMA DrawnLines ==
  ASSUME KInv, NEW p \in AllProps, NEW d, IsList(d), NEW h, renderPriceLines(p, d, h)
  PROVE  /\ priceLines' = Made(p, d)
         /\ hoverPriceLine' = HoverLine(h)
         /\ series' = [candles |-> series.candles, markers |-> series.markers,
                       plots |-> series.plots,
                       lines |-> ToBag(priceLines') (+) BagOf(hoverPriceLine')]
<1> DEFINE made == Made(p, d)
           all == (RemoveLines(series.lines) (+) ToBag(made)) (+) BagOf(HoverLine(h))
<1>1. /\ priceLines' = made /\ hoverPriceLine' = HoverLine(h)
      /\ series' = [series EXCEPT !.lines = all]
  BY DEF renderPriceLines, Made
<1>2. all = ToBag(made) (+) BagOf(HoverLine(h))
  BY MadeIs, Redrawn
<1>3. series = [candles |-> series.candles, markers |-> series.markers,
                plots |-> series.plots, lines |-> series.lines]
  <2>1. series = [candles |-> Klines, markers |-> series.markers, plots |-> series.plots,
                  lines |-> ToBag(priceLines) (+) BagOf(hoverPriceLine)]
    BY DEF KInv, LinesInv
  <2> DEFINE c == Klines
             m == series.markers
             b == series.plots
             l == ToBag(priceLines) (+) BagOf(hoverPriceLine)
  <2> HIDE DEF c, m, b, l
  <2>2. series = [candles |-> c, markers |-> m, plots |-> b, lines |-> l]
    BY <2>1 DEF c, m, b, l
  <2> QED BY <2>2
<1> HIDE DEF all, made
<1>4. series' = [candles |-> series.candles, markers |-> series.markers,
                 plots |-> series.plots, lines |-> all]
  BY <1>1, <1>3
<1> QED BY <1>1, <1>2, <1>4 DEF made

LEMMA DrawnChart ==
  ASSUME KInv, NEW p \in AllProps, NEW on, NEW h, renderChart(p, on, h)
  PROVE  /\ priceLines' = Made(p, drawings)
         /\ hoverPriceLine' = HoverLine(h)
         /\ series' = [candles |-> chartKlines(p.klines), markers |-> ChartMarkers(p),
                       plots |-> series'.plots,
                       lines |-> ToBag(priceLines') (+) BagOf(hoverPriceLine')]
         /\ overlay' = visibleDrawings(chartKlines(p.klines), drawings)
<1> DEFINE made == Made(p, drawings)
           all == (RemoveLines(series.lines) (+) ToBag(made)) (+) BagOf(HoverLine(h))
           plots == (series.plots \ plotted) \cup plotted'
           items == chartKlines(p.klines)
           marks == ChartMarkers(p)
<1>1. /\ priceLines' = made /\ hoverPriceLine' = HoverLine(h)
      /\ series' = [candles |-> items, markers |-> marks, plots |-> plots, lines |-> all]
      /\ overlay' = visibleDrawings(items, drawings)
  BY DEF renderChart, Made
<1>2. all = ToBag(made) (+) BagOf(HoverLine(h))
  BY MadeIs, Redrawn DEF KInv
<1> HIDE DEF all, made, plots, items, marks
<1>3. series'.plots = plots
  BY <1>1
<1> QED BY <1>1, <1>2, <1>3 DEF made, items, marks

-----------------------------------------------------------------------------
(* The chart when it is mounted.                                           *)

LEMMA Nothing ==
  ASSUME NEW s, DOMAIN s = {}, s = [i \in DOMAIN s |-> s[i]]
  PROVE  s = <<>>
OBVIOUS

LEMMA EmptyChart ==
  /\ chartKlines(<<>>) = <<>>
  /\ LevelLines(NoProps) = <<>> /\ Made(NoProps, <<>>) = <<>>
  /\ ChartMarkers(NoProps) = <<>>
  /\ visibleDrawings(<<>>, <<>>) = <<>>
  /\ ToBag(<<>>) (+) BagOf(None) = EmptyBag
<1>0. DOMAIN <<>> = {} /\ \A S : S = {} => 1..Cardinality(S) = {}
  BY FS_EmptySet
<1>1. chartKlines(<<>>) = <<>>
  <2>1. <<>> \in Seq(Kline)
    OBVIOUS
  <2>2. ItemsOf(chartKlines(<<>>), <<>>)
    BY <2>1, KlinesAre
  <2>3. DOMAIN chartKlines(<<>>) = {}
    BY <1>0, <2>2 DEF ItemsOf
  <2>4. chartKlines(<<>>) # <<>> <=> Len(chartKlines(<<>>)) > 0
    BY <2>2, ItemsAre
  <2>5. DOMAIN chartKlines(<<>>) = 1..Len(chartKlines(<<>>)) /\ Len(chartKlines(<<>>)) \in Nat
    BY <2>2, ItemsAre
  <2> QED BY <2>3, <2>4, <2>5
<1>2. LevelLines(NoProps) = <<>>
  <2> DEFINE levels == <<>>
             ranked(role) ==
               LET mine == {i \in DOMAIN levels : levelRole(levels[i]) = role}
                   order == Arranged(mine, {q \in mine \X mine :
                              \/ levels[q[1]].score > levels[q[2]].score
                              \/ levels[q[1]].score = levels[q[2]].score /\ q[1] < q[2]})
               IN [n \in 1..Min({Cardinality(mine), LevelsPerType}) |->
                     [level |-> levels[order[n]], rank |-> n]]
             both == ranked("support") \o ranked("resistance")
             shown == displayLevels(<<>>, None)
  <2>1. shown = StableSort(both, LAMBDA a, b : a.level.band.cap < b.level.band.cap)
    BY DEF displayLevels
  <2>2. ASSUME NEW role PROVE ranked(role) = <<>>
    <3> DEFINE mine == {i \in DOMAIN levels : levelRole(levels[i]) = role}
    <3>1. mine = {}
      BY <1>0
    <3> HIDE DEF mine
    <3>2. Cardinality(mine) = 0
      BY <3>1, FS_EmptySet
    <3>3. Min({Cardinality(mine), LevelsPerType}) = 0
      <4>1. LevelsPerType \in Nat
        BY ChartSeriesAssumption
      <4>2. Min({0, LevelsPerType}) \in {0, LevelsPerType} /\ Min({0, LevelsPerType}) <= 0
        BY <4>1, MinOfTwo
      <4> QED BY <3>2, <4>1, <4>2
    <3>4. DOMAIN ranked(role) = 1..0
      BY <3>3 DEF mine
    <3>5. 1..0 = {}
      OBVIOUS
    <3>6. ranked(role) = [i \in DOMAIN ranked(role) |-> ranked(role)[i]]
      OBVIOUS
    <3> HIDE DEF ranked
    <3> QED BY <3>4, <3>5, <3>6, Nothing
  <2> HIDE DEF ranked
  <2>3. both = <<>>
    BY <2>2
  <2> HIDE DEF both
  <2>4. DOMAIN shown = {}
    BY <1>0, <2>1, <2>3 DEF StableSort
  <2>5. /\ NoProps.levels = <<>> /\ NoProps.selected = None
    BY DEF NoProps
  <2> HIDE DEF shown
  <2>6. /\ DOMAIN LevelLines(NoProps) = {}
        /\ LevelLines(NoProps) = [i \in DOMAIN LevelLines(NoProps) |-> LevelLines(NoProps)[i]]
    BY <2>4, <2>5 DEF LevelLines, shown
  <2> QED BY <2>6, Nothing
<1>3. Made(NoProps, <<>>) = <<>>
  <2>1. BandLines(NoProps) = <<>>
    BY DEF BandLines, NoProps
  <2>2. HorizontalLines(<<>>) = <<>>
    <3>1. Horizontals(<<>>) = {}
      BY <1>0 DEF Horizontals
    <3> DEFINE s == Sublist(<<>>, Horizontals(<<>>))
    <3>2. DOMAIN s = {}
      BY <1>0, <3>1 DEF Sublist
    <3> HIDE DEF s
    <3>3. /\ DOMAIN HorizontalLines(<<>>) = {}
          /\ HorizontalLines(<<>>)
               = [i \in DOMAIN HorizontalLines(<<>>) |-> HorizontalLines(<<>>)[i]]
      BY <3>2 DEF HorizontalLines, Horizontals, s
    <3> QED BY <3>3, Nothing
  <2> QED BY <1>2, <2>1, <2>2 DEF Made
<1>4. ChartMarkers(NoProps) = <<>>
  <2>1. strategyMarkerDetails(NoProps) = <<>> /\ buildLevelMarkers(NoProps) = <<>>
    BY DEF strategyMarkerDetails, buildLevelMarkers, NoProps
  <2> DEFINE f == [i \in DOMAIN strategyMarkerDetails(NoProps) |->
                     [text |-> strategyMarkerDetails(NoProps)[i].side,
                      time |-> strategyMarkerDetails(NoProps)[i].time,
                      price |-> strategyMarkerDetails(NoProps)[i].price,
                      focused |-> strategyMarkerDetails(NoProps)[i].key = NoProps.focused]]
  <2>2. f = <<>>
    <3>1. DOMAIN f = {} /\ f = [i \in DOMAIN f |-> f[i]]
      BY <1>0, <2>1
    <3> HIDE DEF f
    <3> QED BY <3>1, Nothing
  <2>3. ChartMarkers(NoProps)
          = StableSort(buildLevelMarkers(NoProps) \o f, LAMBDA a, b : a.time < b.time)
    BY DEF ChartMarkers
  <2> HIDE DEF f
  <2>4. buildLevelMarkers(NoProps) \o f = <<>>
    BY <2>1, <2>2
  <2>5. /\ DOMAIN ChartMarkers(NoProps) = {}
        /\ ChartMarkers(NoProps) = [i \in DOMAIN ChartMarkers(NoProps) |-> ChartMarkers(NoProps)[i]]
    BY <1>0, <2>3, <2>4 DEF StableSort
  <2> QED BY <2>5, Nothing
<1>5. visibleDrawings(<<>>, <<>>) = <<>>
  <2> DEFINE v == visibleDrawings(<<>>, <<>>)
             OnAxis(x) == x.type = "trend" =>
                     None \notin {timeToCoordinate(<<>>, x.start.time),
                                  timeToCoordinate(<<>>, x.end.time)}
             places == {i \in DOMAIN <<>> : OnAxis(<<>>[i])}
             shown == Sublist(<<>>, places)
  <2>1. places = {}
    BY <1>0
  <2>2. v = [i \in DOMAIN shown |-> v[i]] /\ DOMAIN v = DOMAIN shown
    BY DEF visibleDrawings
  <2> HIDE DEF places, v
  <2>3. DOMAIN shown = {}
    BY <1>0, <2>1 DEF Sublist
  <2> HIDE DEF shown
  <2> QED BY <2>2, <2>3, Nothing DEF v
<1>6. ToBag(<<>>) (+) BagOf(None) = EmptyBag
  <2>1. ToBag(<<>>) = EmptyBag
    BY <1>0 DEF ToBag, Range, EmptyBag, SetToBag
  <2>2. BagOf(None) = EmptyBag
    BY DEF BagOf
  <2> QED BY <2>1, <2>2, EmptyAndBag, BagOfOne
<1> QED BY <1>1, <1>2, <1>3, <1>4, <1>5, <1>6

LEMMA InitKInv == Init => KInv
<1> SUFFICES ASSUME Init PROVE KInv
  OBVIOUS
<1>1. /\ props = NoProps /\ tool = "range" /\ drawings = <<>> /\ pending = None
      /\ selection = None /\ hovered = None /\ enabled = {} /\ priceLines = <<>>
      /\ hoverPriceLine = None /\ overlay = <<>> /\ windows = {0}
      /\ series = [candles |-> <<>>, lines |-> EmptyBag, markers |-> <<>>, plots |-> {}]
  BY DEF Init
<1>2. <<>> \in Seq({}) /\ ToSet(<<>>) = {}
  BY DEF ToSet
<1>3. IsList(drawings)
  BY <1>1, <1>2, ListOf
<1>4. TypeOK
  BY <1>1, <1>2 DEF TypeOK, Tools
<1>5. LinesInv
  <2>1. Klines = <<>>
    BY <1>1, EmptyChart DEF Klines, NoProps
  <2>2. HoverLine(None) = None
    BY DEF HoverLine
  <2>3. /\ priceLines = Made(props, drawings) /\ hoverPriceLine = HoverLine(hovered)
        /\ overlay = visibleDrawings(Klines, drawings)
        /\ ChartMarkers(props) = <<>>
        /\ ToBag(priceLines) (+) BagOf(hoverPriceLine) = EmptyBag
    BY <1>1, <2>1, <2>2, EmptyChart
  <2>4. series = [candles |-> <<>>, markers |-> series.markers, plots |-> series.plots,
                  lines |-> EmptyBag] /\ series.markers = <<>>
    BY <1>1
  <2>5. props.window = 0 /\ InWindow(0) = props
    BY <1>1 DEF InWindow, NoProps
  <2>6. MarkersInv
    BY <1>1, <2>3, <2>4, <2>5 DEF MarkersInv
  <2> QED BY <1>1, <2>1, <2>3, <2>4, <2>6 DEF LinesInv
<1> QED BY <1>3, <1>4, <1>5 DEF KInv

-----------------------------------------------------------------------------
(* Each action keeps it.                                                   *)

LEMMA PropsAreAll ==
  ASSUME KInv
  PROVE  props \in AllProps
BY DEF KInv, TypeOK, AllProps

\* A step that redraws everything, for properties p and a marker h of them.
LEMMA ChartKeepsLines ==
  ASSUME KInv, NEW p \in AllProps, NEW on, NEW h, renderChart(p, on, h), props' = p,
         hovered' = h, drawings' = drawings, p.window \in windows',
         h # None => \E w \in windows' :
                       h \in ToSet(strategyMarkerDetails([p EXCEPT !.window = w]))
  PROVE  LinesInv'
<1>1. /\ priceLines' = Made(p, drawings)
      /\ hoverPriceLine' = HoverLine(h)
      /\ series' = [candles |-> chartKlines(p.klines), markers |-> ChartMarkers(p),
                    plots |-> series'.plots,
                    lines |-> ToBag(priceLines') (+) BagOf(hoverPriceLine')]
      /\ overlay' = visibleDrawings(chartKlines(p.klines), drawings)
  BY DrawnChart
<1>2. Klines' = chartKlines(p.klines)
  BY DEF Klines
<1>3. series'.markers = ChartMarkers(p)
  <2> DEFINE c == chartKlines(p.klines)
             m == ChartMarkers(p)
             b == series'.plots
             l == ToBag(priceLines') (+) BagOf(hoverPriceLine')
  <2> HIDE DEF c, m, b, l
  <2>1. series' = [candles |-> c, markers |-> m, plots |-> b, lines |-> l]
    BY <1>1 DEF c, m, b, l
  <2> QED BY <2>1 DEF m
<1>4. MarkersInv'
  <2>1. [p EXCEPT !.window = p.window] = p
    BY OwnWindow
  <2>2. \E w \in windows' : series'.markers = ChartMarkers([p EXCEPT !.window = w])
    BY <1>3, <2>1
  <2> QED BY <2>2 DEF MarkersInv, InWindow
<1> QED BY <1>1, <1>2, <1>3, <1>4 DEF LinesInv

\* A step that redraws the lines, for drawings d and a marker h.
LEMMA RedrawKeepsLines ==
  ASSUME KInv, NEW d, IsList(d), NEW h, renderPriceLines(props, d, h),
         UNCHANGED <<props, windows>>,
         hovered' = h, drawings' = d, overlay' = visibleDrawings(Klines, d),
         h # None => \E w \in windows : h \in ToSet(strategyMarkerDetails(InWindow(w)))
  PROVE  LinesInv'
<1>1. /\ priceLines' = Made(props, d)
      /\ hoverPriceLine' = HoverLine(h)
      /\ series' = [candles |-> series.candles, markers |-> series.markers,
                    plots |-> series.plots,
                    lines |-> ToBag(priceLines') (+) BagOf(hoverPriceLine')]
  BY DrawnLines, PropsAreAll
<1>2. Klines' = Klines
  BY DEF Klines
<1>3. series.candles = Klines
  BY DEF KInv, LinesInv
<1>4. /\ series' = [candles |-> Klines, markers |-> series'.markers,
                    plots |-> series'.plots,
                    lines |-> ToBag(priceLines') (+) BagOf(hoverPriceLine')]
      /\ series'.markers = series.markers
  <2> DEFINE l == ToBag(priceLines') (+) BagOf(hoverPriceLine')
             b == series.plots
             c == Klines
             m == series.markers
  <2>1. series' = [candles |-> c, markers |-> m, plots |-> b, lines |-> l]
    BY <1>1, <1>3
  <2> HIDE DEF l, b, c, m
  <2>2. series'.plots = b /\ series'.markers = m
    BY <2>1
  <2> QED BY <2>1, <2>2 DEF l, b, c, m
<1>5. MarkersInv'
  BY <1>4 DEF KInv, LinesInv, MarkersInv, InWindow
<1> QED BY <1>1, <1>2, <1>4, <1>5 DEF LinesInv

\* A step that leaves the lines, adding at most a trend line to the drawings.
LEMMA StayKeepsLines ==
  ASSUME KInv, UNCHANGED <<props, windows, lineVars, hovered>>,
         \/ drawings' = drawings
         \/ \E x : x.type = "trend" /\ drawings' = Append(drawings, x),
         overlay' = visibleDrawings(Klines, drawings')
  PROVE  LinesInv' /\ IsList(drawings')
<1>1. IsList(drawings)
  BY DEF KInv
<1>2. IsList(drawings') /\ HorizontalLines(drawings') = HorizontalLines(drawings)
  BY <1>1, TrendHasNoLine
<1>3. Made(props, drawings') = Made(props, drawings)
  BY <1>2 DEF Made
<1>4. Klines' = Klines
  BY DEF Klines
<1>5. /\ priceLines' = Made(props, drawings') /\ hoverPriceLine' = HoverLine(hovered)
      /\ series' = [candles |-> Klines, markers |-> series'.markers, plots |-> series'.plots,
                    lines |-> ToBag(priceLines') (+) BagOf(hoverPriceLine')]
  BY <1>3 DEF KInv, LinesInv, lineVars
<1>6. MarkersInv'
  BY DEF KInv, LinesInv, MarkersInv, InWindow, lineVars
<1> QED BY <1>2, <1>4, <1>5, <1>6 DEF LinesInv

LEMMA Appended ==
  ASSUME NEW d, IsList(d), NEW x
  PROVE  IsList(Append(d, x)) /\ ToSet(Append(d, x)) = ToSet(d) \cup {x}
<1> DEFINE T == ToSet(d) \cup {x}
           e == Append(d, x)
<1>1. d \in Seq(T) /\ x \in T
  BY DEF IsList
<1>2. /\ Len(d) \in Nat /\ DOMAIN d = 1..Len(d) /\ e \in Seq(T)
      /\ DOMAIN e = 1..(Len(d) + 1)
      /\ \A i \in 1..Len(d) : e[i] = d[i]
      /\ e[Len(d) + 1] = x
  <2> HIDE DEF T
  <2> QED BY <1>1
<1>3. IsList(e)
  BY <1>2, ListOf
<1> HIDE DEF e
<1>4. \A i \in DOMAIN e : e[i] \in T
  BY <1>2
<1>5. \A y \in T : \E i \in DOMAIN e : e[i] = y
  <2>1. \A i \in DOMAIN d : i \in DOMAIN e /\ e[i] = d[i]
    BY <1>2
  <2>2. Len(d) + 1 \in DOMAIN e
    BY <1>2
  <2> QED BY <1>2, <2>1, <2>2 DEF ToSet
<1>6. ToSet(e) = T
  BY <1>4, <1>5 DEF ToSet
<1> QED BY <1>3, <1>6 DEF e

\* Where the pointer draws, there is a time and a price above 0.
LEMMA PointIs ==
  ASSUME KInv, NEW x \in Xs, NEW y \in Ys, CanDraw(x, y)
  PROVE  PointAt(x, y) \in Points /\ y \in Nat \ {0}
<1> DEFINE kline == nearestKlineByCoordinate(Klines, pointerX(x))
           i == (pointerX(x) * Len(Klines)) \div Width + 1
<1>1. PointAt(x, y) = IF kline = None \/ y <= 0 THEN None
                      ELSE [time |-> kline.time, price |-> y]
  BY DEF PointAt
<1>2. PointAt(x, y) # None
  BY DEF CanDraw
<1>3. kline # None /\ ~(y <= 0) /\ PointAt(x, y) = [time |-> kline.time, price |-> y]
  BY <1>1, <1>2
<1>4. x \in Int /\ y \in Int
  BY KlineChartAssumption
<1>5. pointerX(x) \in 0..Width
  BY <1>4, PointerWithin
<1>6. props.klines \in Seq(Kline) /\ ItemsOf(Klines, props.klines)
  BY PropsAreAll, PropsAre, KlinesAre DEF Klines
<1>7. i \in DOMAIN Klines /\ kline = Klines[i]
  BY <1>3, <1>5, <1>6, KlineUnder DEF Klines
<1> HIDE DEF i
<1>8. Klines[i].time \in Nat
  BY <1>6, <1>7, ItemsAre
<1> QED BY <1>3, <1>4, <1>7, <1>8 DEF Points

LEMMA PropsChangeKInv ==
  ASSUME KInv, NEW new \in Props, PropsChange(new)
  PROVE  KInv'
<1>1. /\ props' = new /\ hovered' = None /\ renderChart(new, enabled, None)
      /\ windows' = {new.window}
      /\ UNCHANGED <<tool, drawings, pending, selection, enabled, emitted>>
  BY DEF PropsChange
<1>2. LinesInv'
  BY <1>1, ChartKeepsLines DEF AllProps
<1>3. TypeOK' /\ IsList(drawings)'
  BY <1>1 DEF KInv, TypeOK
<1> QED BY <1>2, <1>3 DEF KInv

\* Another window alone: nothing that is drawn depends on it but the markers.
LEMMA WindowChangeKInv ==
  ASSUME KInv, NEW new \in Props, WindowChange(new)
  PROVE  KInv'
<1>1. /\ Watched(new) = Watched(props) /\ props' = new
      /\ windows' = windows \cup {new.window}
      /\ UNCHANGED <<tool, drawings, pending, selection, hovered, enabled, series, priceLines,
                     hoverPriceLine, plotted, overlay, emitted>>
  BY DEF WindowChange, lineVars
<1>2. /\ new.klines = props.klines /\ new.levels = props.levels
      /\ new.selected = props.selected
      /\ \A w : [new EXCEPT !.window = w] = [props EXCEPT !.window = w]
  BY <1>1, PropsAreAll, SameWatched DEF AllProps
<1>3. Made(new, drawings) = Made(props, drawings)
  <2> DEFINE Lines(levels, selected) ==
               [i \in DOMAIN displayLevels(levels, selected) |->
                  LET shown == displayLevels(levels, selected)
                  IN [of |-> "level", price |-> shown[i].level.band.cap,
                      rank |-> shown[i].rank, role |-> levelRole(shown[i].level),
                      strong |-> selected # None /\ isSameLevel(shown[i].level, selected)]]
  <2>1. LevelLines(new) = Lines(new.levels, new.selected)
        /\ LevelLines(props) = Lines(props.levels, props.selected)
    BY DEF LevelLines
  <2> HIDE DEF Lines
  <2>2. LevelLines(new) = LevelLines(props) /\ BandLines(new) = BandLines(props)
    BY <1>2, <2>1 DEF BandLines
  <2> QED BY <2>2 DEF Made
<1>4. Klines' = Klines
  BY <1>1, <1>2 DEF Klines
<1>5. MarkersInv'
  BY <1>1, <1>2 DEF KInv, LinesInv, MarkersInv, InWindow
<1>6. LinesInv'
  BY <1>1, <1>3, <1>4, <1>5 DEF KInv, LinesInv
<1>7. TypeOK' /\ IsList(drawings)'
  BY <1>1 DEF KInv, TypeOK
<1> QED BY <1>6, <1>7 DEF KInv

LEMMA ToolbarKInv ==
  ASSUME KInv, Toolbar
  PROVE  KInv'
<1>1. ASSUME NEW key \in Indicators, toggleIndicator(key)
      PROVE  KInv'
  <2>1. /\ renderChart(props, enabled', hovered)
        /\ UNCHANGED <<props, windows, tool, drawings, pending, selection, hovered, emitted>>
        /\ enabled' \subseteq enabled \cup {key}
    BY <1>1 DEF toggleIndicator
  <2>2. LinesInv'
    BY <2>1, PropsAreAll, ChartKeepsLines DEF KInv, LinesInv, MarkersInv, InWindow
  <2>3. TypeOK' /\ IsList(drawings)'
    BY <2>1 DEF KInv, TypeOK
  <2> QED BY <2>2, <2>3 DEF KInv
<1>2. ASSUME NEW new \in Tools, setActiveTool(new)
      PROVE  KInv'
  <2>1. /\ tool' = new /\ pending' = None /\ selection' = None
        /\ UNCHANGED <<props, windows, drawings, hovered, enabled, lineVars, plotted, overlay, emitted>>
    BY <1>2 DEF setActiveTool
  <2>2. LinesInv' /\ IsList(drawings')
    <3>1. overlay' = visibleDrawings(Klines, drawings')
      BY <2>1 DEF KInv, LinesInv
    <3> QED BY <2>1, <3>1, StayKeepsLines
  <2>3. TypeOK'
    BY <2>1 DEF KInv, TypeOK
  <2> QED BY <2>2, <2>3 DEF KInv
<1>3. ASSUME clearDrawings
      PROVE  KInv'
  <2>1. /\ drawings' = <<>> /\ pending' = None /\ renderPriceLines(props, <<>>, hovered)
        /\ overlay' = <<>>
        /\ UNCHANGED <<props, windows, tool, selection, hovered, enabled, plotted, emitted>>
    BY <1>3 DEF clearDrawings
  <2>2. <<>> \in Seq({}) /\ ToSet(<<>>) = {}
    BY DEF ToSet
  <2>3. IsList(<<>>)
    BY <2>2, ListOf
  <2>4. overlay' = visibleDrawings(Klines, <<>>)
    <3> DEFINE items == Klines
               OnAxis(x) == x.type = "trend" =>
                       None \notin {timeToCoordinate(items, x.start.time),
                                    timeToCoordinate(items, x.end.time)}
               places == {i \in DOMAIN <<>> : OnAxis(<<>>[i])}
               shown == Sublist(<<>>, places)
               v == visibleDrawings(items, <<>>)
    <3>1. places = {}
      OBVIOUS
    <3>2. v = [i \in DOMAIN shown |-> v[i]] /\ DOMAIN v = DOMAIN shown
      BY DEF visibleDrawings
    <3> HIDE DEF places, v
    <3>3. Cardinality(places) = 0
      BY <3>1, FS_EmptySet
    <3>4. DOMAIN shown = {}
      BY <3>3 DEF Sublist
    <3> HIDE DEF shown
    <3>5. v = <<>>
      BY <3>2, <3>4, Nothing
    <3> QED BY <2>1, <3>5 DEF v
  <2>5. LinesInv'
    BY <2>1, <2>3, <2>4, RedrawKeepsLines DEF KInv, LinesInv, MarkersInv
  <2>6. TypeOK' /\ IsList(drawings')
    BY <2>1, <2>2, <2>3 DEF KInv, TypeOK
  <2> QED BY <2>5, <2>6 DEF KInv
<1> QED BY <1>1, <1>2, <1>3 DEF Toolbar

\* The actions of the pointer that only select a range.
LEMMA SelectionKInv ==
  ASSUME KInv, NEW x \in Xs, startSelection(x) \/ MoveSelection(x) \/ finishSelection(x)
  PROVE  KInv'
<1>0. pointerX(x) \in 0..Width
  BY KlineChartAssumption, PointerWithin
<1>1. CASE startSelection(x)
  <2>1. /\ tool = "range" /\ selection' = [from |-> pointerX(x), to |-> pointerX(x)]
        /\ UNCHANGED <<props, windows, tool, drawings, pending, hovered, enabled, lineVars, plotted, overlay>>
    BY <1>1 DEF startSelection
  <2>2. LinesInv' /\ IsList(drawings')
    <3>1. overlay' = visibleDrawings(Klines, drawings')
      BY <2>1 DEF KInv, LinesInv
    <3> QED BY <2>1, <3>1, StayKeepsLines
  <2>3. TypeOK'
    BY <1>0, <2>1 DEF KInv, TypeOK
  <2> QED BY <2>2, <2>3 DEF KInv
<1>2. CASE MoveSelection(x)
  <2>1. /\ selection # None /\ selection' = [selection EXCEPT !.to = pointerX(x)]
        /\ hovered' = None /\ renderPriceLines(props, drawings, None)
        /\ overlay' = visibleDrawings(Klines, drawings)
        /\ UNCHANGED <<props, windows, tool, drawings, pending, enabled, plotted, emitted>>
    BY <1>2 DEF MoveSelection
  <2>2. LinesInv'
    BY <2>1, RedrawKeepsLines DEF KInv
  <2>3. selection' \in [from : 0..Width, to : 0..Width] /\ tool = "range"
    BY <1>0, <2>1 DEF KInv, TypeOK
  <2>4. TypeOK' /\ IsList(drawings')
    BY <2>1, <2>3 DEF KInv, TypeOK
  <2> QED BY <2>2, <2>4 DEF KInv
<1>3. CASE finishSelection(x)
  <2>1. /\ selection' = None
        /\ UNCHANGED <<props, windows, tool, drawings, pending, hovered, enabled, lineVars, plotted, overlay>>
    BY <1>3 DEF finishSelection
  <2>2. LinesInv' /\ IsList(drawings')
    <3>1. overlay' = visibleDrawings(Klines, drawings')
      BY <2>1 DEF KInv, LinesInv
    <3> QED BY <2>1, <3>1, StayKeepsLines
  <2>3. TypeOK'
    BY <2>1 DEF KInv, TypeOK
  <2> QED BY <2>2, <2>3 DEF KInv
<1> QED BY <1>1, <1>2, <1>3

\* The actions of the pointer that draw.
LEMMA DrawingKInv ==
  ASSUME KInv, NEW x \in Xs, NEW y \in Ys,
         DrawHorizontal(x, y) \/ BeginTrend(x, y) \/ EndTrend(x, y)
  PROVE  KInv'
<1>0. PointAt(x, y) \in Points /\ y \in Nat \ {0}
  BY PointIs DEF DrawHorizontal, BeginTrend, EndTrend
<1>1. CASE DrawHorizontal(x, y)
  <2> DEFINE line == [type |-> "horizontal", price |-> y]
  <2>1. /\ drawings' = Append(drawings, line) /\ renderPriceLines(props, drawings', hovered)
        /\ overlay' = visibleDrawings(Klines, drawings')
        /\ UNCHANGED <<props, windows, tool, pending, selection, hovered, enabled, plotted, emitted>>
    BY <1>1 DEF DrawHorizontal
  <2>2. IsList(drawings') /\ ToSet(drawings') = ToSet(drawings) \cup {line}
    BY <2>1, Appended DEF KInv
  <2>3. LinesInv'
    BY <2>1, <2>2, RedrawKeepsLines DEF KInv, LinesInv, MarkersInv
  <2>4. line.type = "horizontal" /\ line.price \in Nat \ {0}
    BY <1>0
  <2> HIDE DEF line
  <2>5. TypeOK'
    BY <2>1, <2>2, <2>4 DEF KInv, TypeOK
  <2> QED BY <2>2, <2>3, <2>5 DEF KInv
<1>2. CASE BeginTrend(x, y)
  <2>1. /\ tool = "trend" /\ pending' = PointAt(x, y)
        /\ overlay' = visibleDrawings(Klines, drawings)
        /\ UNCHANGED <<props, windows, tool, drawings, selection, hovered, enabled, lineVars, plotted,
                       emitted>>
    BY <1>2 DEF BeginTrend
  <2>2. LinesInv' /\ IsList(drawings')
    BY <2>1, StayKeepsLines
  <2>3. TypeOK'
    BY <1>0, <2>1 DEF KInv, TypeOK
  <2> QED BY <2>2, <2>3 DEF KInv
<1>3. CASE EndTrend(x, y)
  <2> DEFINE line == [type |-> "trend", start |-> pending, end |-> PointAt(x, y)]
  <2>1. /\ pending # None /\ drawings' = Append(drawings, line) /\ pending' = None
        /\ overlay' = visibleDrawings(Klines, drawings')
        /\ UNCHANGED <<props, windows, tool, selection, hovered, enabled, lineVars, plotted, emitted>>
    BY <1>3 DEF EndTrend
  <2>2. IsList(drawings') /\ ToSet(drawings') = ToSet(drawings) \cup {line}
    BY <2>1, Appended DEF KInv
  <2>3. line.type = "trend" /\ line.start \in Points /\ line.end \in Points
    BY <1>0, <2>1 DEF KInv, TypeOK
  <2> HIDE DEF line
  <2>4. LinesInv'
    BY <2>1, <2>3, StayKeepsLines
  <2>5. TypeOK'
    BY <2>1, <2>2, <2>3 DEF KInv, TypeOK
  <2> QED BY <2>2, <2>4, <2>5 DEF KInv
<1> QED BY <1>1, <1>2, <1>3

\* Pointing at a marker, and leaving the chart.
LEMMA PointingKInv ==
  ASSUME KInv, cancelSelection \/ \E x \in Xs, y \in Ys : Hover(x, y)
  PROVE  KInv'
<1>1. CASE cancelSelection
  <2>1. /\ selection' = None /\ hovered' = None /\ renderPriceLines(props, drawings, None)
        /\ UNCHANGED <<props, windows, tool, drawings, pending, enabled, plotted, overlay, emitted>>
    BY <1>1 DEF cancelSelection
  <2>2. LinesInv'
    BY <2>1, RedrawKeepsLines DEF KInv, LinesInv, MarkersInv
  <2>3. TypeOK' /\ IsList(drawings')
    BY <2>1 DEF KInv, TypeOK
  <2> QED BY <2>2, <2>3 DEF KInv
<1>2. ASSUME NEW x \in Xs, NEW y \in Ys, Hover(x, y)
      PROVE  KInv'
  <2> DEFINE next == IF tool # "range" THEN None
                     ELSE findHoveredTradeMarker(props, pointerX(x), y)
  <2>1. /\ hovered' = next /\ renderPriceLines(props, drawings, next)
        /\ UNCHANGED <<props, windows, tool, drawings, pending, selection, enabled, plotted,
                       overlay, emitted>>
    BY <1>2 DEF Hover
  <2>2. pointerX(x) \in Int /\ y \in Int
    <3>1. pointerX(x) \in 0..Width
      BY KlineChartAssumption, PointerWithin
    <3> QED BY <3>1, KlineChartAssumption
  <2>3. next # None =>
          \E w \in windows : next \in ToSet(strategyMarkerDetails(InWindow(w)))
    <3>1. next # None => next \in ToSet(strategyMarkerDetails(props))
      BY <2>2, PropsAreAll, HoveredIs
    <3>2. props.window \in windows /\ InWindow(props.window) = props
      BY PropsAreAll, OwnWindow DEF KInv, LinesInv, MarkersInv, InWindow
    <3> QED BY <3>1, <3>2
  <2> HIDE DEF next
  <2>4. LinesInv'
    BY <2>1, <2>3, RedrawKeepsLines DEF KInv, LinesInv, MarkersInv
  <2>5. TypeOK' /\ IsList(drawings')
    BY <2>1 DEF KInv, TypeOK
  <2> QED BY <2>4, <2>5 DEF KInv
<1> QED BY <1>1, <1>2

LEMMA StepKInv == KInv /\ [Next]_vars => KInv'
<1> SUFFICES ASSUME KInv, [Next]_vars PROVE KInv'
  OBVIOUS
<1>1. CASE \E new \in Props : PropsChange(new) \/ WindowChange(new)
  BY <1>1, PropsChangeKInv, WindowChangeKInv
<1>2. CASE Toolbar
  BY <1>2, ToolbarKInv
<1>3. CASE Pointer
  BY <1>3, SelectionKInv, DrawingKInv, PointingKInv DEF Pointer
<1>4. CASE UNCHANGED vars
  BY <1>4 DEF vars, KInv, TypeOK, LinesInv, MarkersInv, InWindow, Klines
<1> QED BY <1>1, <1>2, <1>3, <1>4 DEF Next

\* The invariant holds whatever properties arrive and whatever the user does.
THEOREM InvariantKept == Spec => []KInv
BY InitKInv, StepKInv, PTL DEF Spec

\* The variables keep their shapes (setActiveTool, addDrawingFromPointer and the
\* handlers of the pointer).
THEOREM TypeCorrect == Spec => []TypeOK
<1>1. KInv => TypeOK
  BY DEF KInv
<1> QED BY <1>1, InvariantKept, PTL

\* The lines and drawings on the chart are what the state says, markers and card
\* what it says of a window shown since the watch last ran (renderPriceLines,
\* renderChart, refreshDrawings and the watch on the properties).
THEOREM LinesAreThoseOfState == Spec => []LinesMatchState
<1>1. KInv => LinesMatchState
  <2> SUFFICES ASSUME KInv PROVE LinesMatchState
    OBVIOUS
  <2>1. /\ priceLines = Made(props, drawings) /\ hoverPriceLine = HoverLine(hovered)
        /\ overlay = visibleDrawings(Klines, drawings) /\ MarkersInv
    BY DEF KInv, LinesInv
  <2>2. series.lines = ToBag(priceLines) (+) BagOf(hoverPriceLine)
    BY DEF KInv, LinesInv
  <2> QED BY <2>1, <2>2 DEF LinesMatchState, MarkersInv, Made
<1> QED BY <1>1, InvariantKept, PTL

-----------------------------------------------------------------------------
(* The range that is handed to the workspace.                              *)

LEMMA Seconds ==
  ASSUME NEW a \in Nat, NEW b \in Nat
  PROVE  /\ a <= b => a \div 1000 <= b \div 1000
         /\ a \div 1000 < b \div 1000 => a < b
OBVIOUS

\* The bars counted are the klines of the interval: they are one for a second.
LEMMA CountIs ==
  ASSUME NEW p \in AllProps, NEW items, ItemsOf(items, p.klines),
         NEW i \in DOMAIN items, NEW j \in DOMAIN items, i <= j
  PROVE  Cardinality({n \in DOMAIN items :
                        items[i].time <= items[n].time /\ items[n].time <= items[j].time})
           = Cardinality(InInterval(p.klines, items[i].openTime, items[j].closeTime))
<1> DEFINE N == {n \in DOMAIN items :
                   items[i].time <= items[n].time /\ items[n].time <= items[j].time}
           ks == p.klines
           start == items[i].openTime
           end == items[j].closeTime
           T == InInterval(ks, start, end)
           f == [n \in N |-> items[n].time]
<1>1. /\ Len(items) \in Nat /\ DOMAIN items = 1..Len(items)
      /\ \A n \in 1..Len(items) : items[n].time \in Nat \ {0}
      /\ \A n, m \in 1..Len(items) : items[n].time = items[m].time => n = m
  BY ItemsAre
<1>2. ks \in Seq(Kline)
  BY PropsAre
<1>3. /\ \A n \in DOMAIN ks : ks[n].openTime \in Nat /\ ks[n].closeTime \in Nat
      /\ \A n, m \in DOMAIN ks :
           /\ ks[n].openTime < ks[n].closeTime
           /\ ks[n].openTime < ks[m].openTime => ks[n].closeTime <= ks[m].openTime
  <2>1. \A n \in DOMAIN ks : ks[n] \in Kline
    BY <1>2
  <2>2. \A n, m \in DOMAIN ks :
           /\ ks[n].openTime < ks[n].closeTime
           /\ ks[n].openTime < ks[m].openTime => ks[n].closeTime <= ks[m].openTime
    BY PropsAre
  <2> QED BY <2>1, <2>2 DEF Kline
<1>4. ASSUME NEW n \in DOMAIN items
      PROVE  \E k \in DOMAIN ks :
               /\ ks[k].valid /\ ks[k].openTime >= 1000
               /\ items[n].time = ks[k].openTime \div 1000
               /\ items[n].openTime = ks[k].openTime /\ items[n].closeTime = ks[k].closeTime
  BY DEF ItemsOf, Shows
<1>5. PICK a \in DOMAIN ks : /\ ks[a].valid /\ ks[a].openTime >= 1000
                             /\ items[i].time = ks[a].openTime \div 1000
                             /\ start = ks[a].openTime
  BY <1>4
<1>6. PICK b \in DOMAIN ks : /\ items[j].time = ks[b].openTime \div 1000
                             /\ end = ks[b].closeTime
  BY <1>4
<1>7. ASSUME NEW n \in N
      PROVE  items[n].time \in T
  <2>1. PICK k \in DOMAIN ks : /\ ks[k].valid /\ ks[k].openTime >= 1000
                               /\ items[n].time = ks[k].openTime \div 1000
                               /\ items[n].openTime = ks[k].openTime
    BY <1>4
  <2>2. ks[k].openTime \in Nat /\ ks[a].openTime \in Nat /\ ks[b].openTime \in Nat
        /\ ks[b].closeTime \in Nat
    BY <1>3
  <2>3. start <= ks[k].openTime
    <3>1. CASE n = i
      BY <1>5, <2>1, <2>2, <3>1
    <3>2. CASE n # i
      <4>1. items[i].time < items[n].time
        BY <1>1, <3>2
      <4>2. ks[a].openTime < ks[k].openTime
        BY <1>5, <2>1, <2>2, <4>1, Seconds
      <4> QED BY <1>5, <2>2, <4>2
    <3> QED BY <3>1, <3>2
  <2>4. ks[k].openTime < end
    <3>1. CASE n = j
      <4>1. items[n].closeTime = end
        BY <3>1
      <4>2. PICK c \in DOMAIN ks : items[n].openTime = ks[c].openTime
                                   /\ items[n].closeTime = ks[c].closeTime
        BY <1>4
      <4>3. ks[c].openTime < ks[c].closeTime
        BY <1>3
      <4> QED BY <2>1, <4>1, <4>2, <4>3
    <3>2. CASE n # j
      <4>1. items[n].time < items[j].time
        BY <1>1, <3>2
      <4>2. ks[k].openTime < ks[b].openTime
        BY <1>6, <2>1, <2>2, <4>1, Seconds
      <4>3. ks[b].openTime < ks[b].closeTime
        BY <1>3
      <4> QED BY <1>6, <2>2, <4>2, <4>3
    <3> QED BY <3>1, <3>2
  <2>5. ks[k] \in ToSet(ks)
    BY DEF ToSet
  <2>6. toUnixTimestamp(ks[k].openTime) = items[n].time
    BY <2>1, <2>2 DEF toUnixTimestamp
  <2> QED BY <2>1, <2>3, <2>4, <2>5, <2>6 DEF InInterval
<1>8. ASSUME NEW t \in T
      PROVE  \E n \in N : items[n].time = t
  <2>1. PICK x \in ToSet(ks) : /\ x.valid /\ start <= x.openTime /\ x.openTime < end
                               /\ t = toUnixTimestamp(x.openTime)
    BY DEF InInterval
  <2>2. PICK k \in DOMAIN ks : x = ks[k]
    BY DEF ToSet
  <2>3. ks[k].openTime \in Nat /\ ks[a].openTime \in Nat /\ ks[b].openTime \in Nat
        /\ ks[b].closeTime \in Nat /\ ks[k].closeTime \in Nat
    BY <1>3
  <2>4. ks[k].openTime >= 1000 /\ t = ks[k].openTime \div 1000 /\ t \in Nat
    BY <1>5, <2>1, <2>2, <2>3 DEF toUnixTimestamp
  <2>5. PICK n \in DOMAIN items : items[n].time = t
    <3>1. Shows(ks, k, t)
      BY <2>1, <2>2, <2>4 DEF Shows
    <3> QED BY <2>4, <3>1 DEF ItemsOf
  <2>6. items[i].time <= t
    BY <1>5, <2>1, <2>2, <2>3, <2>4, Seconds
  <2>7. t <= items[j].time
    <3>1. ks[k].openTime <= ks[b].openTime
      <4> SUFFICES ASSUME ks[b].openTime < ks[k].openTime PROVE FALSE
        BY <2>3
      <4>1. ks[b].closeTime <= ks[k].openTime
        BY <1>3
      <4> QED BY <1>6, <2>1, <2>2, <2>3, <4>1
    <3> QED BY <1>6, <2>3, <2>4, <3>1, Seconds
  <2> QED BY <2>5, <2>6, <2>7
<1>9. f \in Bijection(N, T)
  <2>1. f \in [N -> T]
    BY <1>7
  <2>2. \A n, m \in N : f[n] = f[m] => n = m
    BY <1>1
  <2>3. \A t \in T : \E n \in N : f[n] = t
    BY <1>8
  <2> HIDE DEF N, T, f
  <2> QED BY <2>1, <2>2, <2>3 DEF Bijection, Injection, Surjection, IsInjective
<1>10. IsFiniteSet(N)
  <2>1. IsFiniteSet(1..Len(items))
    BY <1>1, FS_Interval
  <2>2. N \subseteq 1..Len(items)
    BY <1>1
  <2> HIDE DEF N
  <2> QED BY <2>1, <2>2, FS_Subset
<1> HIDE DEF N, T, f
<1>11. Cardinality(T) = Cardinality(N)
  BY <1>9, <1>10, FS_Bijection DEF ExistsBijection
<1> QED BY <1>11 DEF N, T

LEMMA RangeIs ==
  ASSUME KInv, NEW from \in 0..Width, NEW to \in 0..Width,
         NEW range, range = selectedKlineRange(Klines, from, to), range # None
  PROVE  \E i, j \in DOMAIN series.candles :
           /\ i <= j
           /\ range.startTime = series.candles[i].openTime
           /\ range.endTime = series.candles[j].closeTime
           /\ range.klineCount
                = Cardinality(InInterval(props.klines, range.startTime, range.endTime))
<1> DEFINE items == Klines
           low == Min({from, to})
           high == Max({from, to})
           first == nearestKlineByCoordinate(items, low)
           last == nearestKlineByCoordinate(items, high)
           i == (low * Len(items)) \div Width + 1
           j == (high * Len(items)) \div Width + 1
           count == Cardinality({n \in DOMAIN items :
                       first.time <= items[n].time /\ items[n].time <= last.time})
<1>1. /\ first # None /\ last # None
      /\ range = [startTime |-> first.openTime, endTime |-> last.closeTime,
                  klineCount |-> count]
  BY DEF selectedKlineRange
<1>2. Width \in Nat \ {0} /\ from \in Int /\ to \in Int
  BY ChartSeriesAssumption
<1>3. low \in 0..Width /\ high \in 0..Width /\ low <= high
  <2>1. /\ low \in {from, to} /\ low <= from /\ low \in Int
    BY <1>2, MinOfTwo
  <2>2. /\ high \in {from, to} /\ high >= from /\ high \in Int
    BY <1>2, MaxOfTwo
  <2> HIDE DEF low, high
  <2> QED BY <1>2, <2>1, <2>2
<1> HIDE DEF low, high
<1>4. props \in AllProps /\ props.klines \in Seq(Kline) /\ ItemsOf(items, props.klines)
  BY PropsAreAll, PropsAre, KlinesAre DEF Klines
<1>5. i \in DOMAIN items /\ first = items[i] /\ j \in DOMAIN items /\ last = items[j]
  <2>1. i \in DOMAIN items /\ first = items[i]
    BY <1>1, <1>3, <1>4, KlineUnder DEF Klines
  <2>2. j \in DOMAIN items /\ last = items[j]
    BY <1>1, <1>3, <1>4, KlineUnder DEF Klines
  <2> QED BY <2>1, <2>2
<1>6. i <= j
  <2> DEFINE n == Len(items)
             a == low * n
             c == high * n
  <2>1. n \in Nat
    BY <1>4, ItemsAre
  <2> HIDE DEF n
  <2>2. a \in Nat /\ c \in Nat /\ a <= c
    <3>1. low \in Nat /\ high \in Nat /\ high - low \in Nat
      BY <1>2, <1>3
    <3>2. (high - low) * n \in Nat /\ low * n \in Nat /\ high * n \in Nat
      BY <2>1, <3>1
    <3>3. (high - low) * n = high * n - low * n
      BY <2>1, <3>1
    <3> QED BY <3>2, <3>3
  <2> HIDE DEF a, c
  <2>3. a \div Width <= c \div Width /\ a \div Width \in Nat /\ c \div Width \in Nat
    BY <1>2, <2>2, QuotientRises, Quotient
  <2>4. i = a \div Width + 1 /\ j = c \div Width + 1
    BY DEF a, c, n
  <2> HIDE DEF i, j
  <2> QED BY <2>3, <2>4
<1>7. count = Cardinality(InInterval(props.klines, items[i].openTime, items[j].closeTime))
  <2> HIDE DEF i, j, first, last, items
  <2>1. Cardinality({n \in DOMAIN items :
                        items[i].time <= items[n].time /\ items[n].time <= items[j].time})
           = Cardinality(InInterval(props.klines, items[i].openTime, items[j].closeTime))
    BY <1>4, <1>5, <1>6, CountIs
  <2> QED BY <1>5, <2>1
<1>8. series.candles = items
  BY DEF KInv, LinesInv
<1> HIDE DEF i, j, first, last, items, count
<1>9. /\ range.startTime = items[i].openTime /\ range.endTime = items[j].closeTime
      /\ range.klineCount = count
  BY <1>1, <1>5
<1> QED BY <1>5, <1>6, <1>7, <1>8, <1>9

\* A range that is handed to the workspace names the klines in it
\* (finishSelection and selectedKlineRange).
THEOREM RangeNamesKlines == Spec => RangeIsShown
<1> DEFINE Shown(range) ==
             \E i, j \in DOMAIN series.candles :
               /\ i <= j
               /\ range.startTime = series.candles[i].openTime
               /\ range.endTime = series.candles[j].closeTime
               /\ range.klineCount
                    = Cardinality(InInterval(props.klines, range.startTime, range.endTime))
<1>1. KInv /\ [Next]_vars =>
        [emitted' \notin {emitted, None} =>
           \E i, j \in DOMAIN series.candles :
             /\ i <= j
             /\ emitted'.startTime = series.candles[i].openTime
             /\ emitted'.endTime = series.candles[j].closeTime
             /\ emitted'.klineCount
                  = Cardinality(InInterval(props.klines, emitted'.startTime,
                                           emitted'.endTime))]_vars
  <2> SUFFICES ASSUME KInv, [Next]_vars, emitted' \notin {emitted, None}
               PROVE  Shown(emitted')
    OBVIOUS
  <2>1. PICK x \in Xs : finishSelection(x)
    <3>1. ASSUME NEW new \in Props, PropsChange(new) \/ WindowChange(new) PROVE FALSE
      BY <3>1 DEF PropsChange, WindowChange
    <3>2. ASSUME Toolbar PROVE FALSE
      BY <3>2 DEF Toolbar, toggleIndicator, setActiveTool, clearDrawings
    <3>3. ASSUME NEW x \in Xs, startSelection(x) \/ MoveSelection(x) PROVE FALSE
      BY <3>3 DEF startSelection, MoveSelection
    <3>4. ASSUME NEW x \in Xs, NEW y \in Ys,
                 DrawHorizontal(x, y) \/ BeginTrend(x, y) \/ EndTrend(x, y) \/ Hover(x, y)
          PROVE FALSE
      BY <3>4 DEF DrawHorizontal, BeginTrend, EndTrend, Hover
    <3>5. ASSUME cancelSelection PROVE FALSE
      BY <3>5 DEF cancelSelection
    <3>6. ~UNCHANGED vars
      BY DEF vars
    <3> QED BY <3>1, <3>2, <3>3, <3>4, <3>5, <3>6 DEF Next, Pointer
  <2>2. /\ selection # None
        /\ emitted' = selectedKlineRange(Klines, selection.from, pointerX(x))
    BY <2>1 DEF finishSelection
  <2>3. selection.from \in 0..Width /\ pointerX(x) \in 0..Width
    <3>1. selection \in [from : 0..Width, to : 0..Width]
      BY <2>2 DEF KInv, TypeOK
    <3>2. x \in Int
      BY KlineChartAssumption
    <3> QED BY <3>1, <3>2, PointerWithin
  <2> DEFINE range == emitted'
  <2>4. range # None /\ range = selectedKlineRange(Klines, selection.from, pointerX(x))
    BY <2>2
  <2> HIDE DEF range
  <2>5. Shown(range)
    BY <2>3, <2>4, RangeIs
  <2> QED BY <2>5 DEF range
<1> QED BY <1>1, InvariantKept, PTL DEF Spec, RangeIsShown

-----------------------------------------------------------------------------
(* Indicators.                                                             *)

\* A list of klines, as far as an indicator looks at it.
HasCloses(items) ==
  /\ Len(items) \in Nat /\ DOMAIN items = 1..Len(items)
  /\ \A i \in 1..Len(items) : items[i].close \in Int

\* The sums of the closes up to each.
CloseSums(items) == RunningSum([i \in 1..Len(items) |-> items[i].close])

LEMMA CloseSumsAre ==
  ASSUME NEW items, HasCloses(items)
  PROVE  /\ CloseSums(items) \in [0..Len(items) -> Int] /\ CloseSums(items)[0] = 0
         /\ \A i \in 1..Len(items) :
              CloseSums(items)[i] = CloseSums(items)[i - 1] + items[i].close
<1> DEFINE len == Len(items)
           list == [i \in 1..len |-> items[i].close]
           P == RunningSum(list)
<1>1. len \in Nat /\ list \in [1..len -> Int]
  BY DEF HasCloses
<1>2. \A i \in 1..len : list[i] = items[i].close
  OBVIOUS
<1>3. P = CloseSums(items)
  BY DEF CloseSums
<1> HIDE DEF len, list
<1>4. Sums(P, list, len)
  BY <1>1, RunningSumIs
<1> HIDE DEF P
<1> QED BY <1>2, <1>3, <1>4 DEF Sums, len

\* The sum over a window is the difference of two of them.
LEMMA WindowSum ==
  ASSUME NEW items, HasCloses(items), NEW period \in Nat \ {0},
         NEW i \in period..Len(items)
  PROVE  /\ Closes(items, i, period) \in [1..period -> Int]
         /\ SumOf(Closes(items, i, period))
              = CloseSums(items)[i] - CloseSums(items)[i - period]
<1> DEFINE P == CloseSums(items)
           len == Len(items)
           c == Closes(items, i, period)
           h == [k \in 0..period |-> P[i - period + k] - P[i - period]]
<1>1. len \in Nat /\ i \in 1..len /\ i - period \in 0..len
  BY DEF HasCloses
<1>2. /\ P \in [0..len -> Int]
      /\ \A n \in 1..len : P[n] = P[n - 1] + items[n].close /\ items[n].close \in Int
  BY CloseSumsAre DEF HasCloses
<1>3. /\ c = [k \in 1..period |-> c[k]]
      /\ \A k \in 1..period : c[k] = items[i - period + k].close
  BY DEF Closes
<1> HIDE DEF P, len, c
<1>4. \A k \in 0..period : i - period + k \in 0..len
  BY <1>1
<1>5. \A k \in 1..period : i - period + k \in 1..len
  BY <1>1
<1>6. c \in [1..period -> Int]
  <2>1. \A k \in 1..period : c[k] \in Int
    BY <1>2, <1>3, <1>5
  <2> QED BY <1>3, <2>1
<1>7. \A k \in 0..period : P[i - period + k] \in Int
  BY <1>2, <1>4
<1>8. h \in [0..period -> Int]
  <2>1. P[i - period] \in Int
    BY <1>1, <1>2
  <2>2. ASSUME NEW k \in 0..period PROVE P[i - period + k] - P[i - period] \in Int
    <3>1. P[i - period + k] \in Int
      BY <1>7
    <3> QED BY <2>1, <3>1
  <2> QED BY <2>2
<1>9. ASSUME NEW k \in 1..period PROVE h[k] = h[k - 1] + c[k]
  <2> DEFINE n == i - period + k
  <2>0. n \in 1..len
    BY <1>5
  <2>1. n \in 1..len /\ n - 1 = i - period + (k - 1) /\ k \in 0..period /\ k - 1 \in 0..period
    BY <1>1, <2>0
  <2>2. h[k] = P[n] - P[i - period] /\ h[k - 1] = P[n - 1] - P[i - period]
    BY <2>1
  <2>3. P[n] \in Int /\ P[n - 1] \in Int /\ P[i - period] \in Int
    BY <1>1, <1>2, <2>1
  <2>4. P[n] = P[n - 1] + items[n].close /\ c[k] = items[n].close /\ items[n].close \in Int
    BY <1>2, <1>3, <2>1
  <2> HIDE DEF n, h
  <2> QED BY <2>2, <2>3, <2>4
<1>10. h[0] = 0
  <2>1. 0 \in 0..period /\ i - period + 0 = i - period
    BY <1>1
  <2>2. h[0] = P[i - period] - P[i - period]
    BY <2>1
  <2>3. P[i - period] \in Int
    BY <1>1, <1>2
  <2> QED BY <2>2, <2>3
<1>11. h[period] = P[i] - P[i - period]
  <2>1. period \in 0..period /\ i - period + period = i
    BY <1>1
  <2> QED BY <2>1
<1> HIDE DEF h
<1>12. Sums(h, c, period)
  BY <1>8, <1>9, <1>10 DEF Sums
<1>13. SumOf(c) = h[period]
  <2>1. period \in Nat
    OBVIOUS
  <2> QED BY <1>6, <1>12, <2>1, SumIs
<1> QED BY <1>6, <1>11, <1>13 DEF c, P

LEMMA LineIs ==
  ASSUME NEW m \in Nat, NEW data, DOMAIN data = 1..m, data = [n \in 1..m |-> data[n]]
  PROVE  Len(data) = m /\ (data # <<>> <=> m > 0)
<1>1. Len(data) = m
  OBVIOUS
<1>2. CASE m > 0
  <2>1. 1 \in DOMAIN data /\ DOMAIN <<>> = {}
    BY <1>2
  <2> QED BY <1>1, <1>2, <2>1
<1>3. CASE ~(m > 0)
  <2>1. 1..m = {}
    BY <1>3
  <2>2. data = <<>>
    BY <2>1
  <2> QED BY <1>1, <1>3, <2>2
<1> QED BY <1>2, <1>3

\* calculateSMA: the sum that runs along is the sum over the window.
LEMMA AveragesAreMeans ==
  ASSUME NEW items, HasCloses(items), NEW period \in Nat \ {0}
  PROVE  LET data == calculateSMA(items, period)
         IN /\ data # <<>> <=> Len(items) >= period
            /\ data # <<>> => AreMeans(data, items, period)
<1> DEFINE P == CloseSums(items)
           len == Len(items)
           change == [i \in 1..len |->
                        items[i].close - (IF i > period THEN items[i - period].close ELSE 0)]
           R == RunningSum(change)
           f == [i \in 0..len |-> P[i] - (IF i >= period THEN P[i - period] ELSE 0)]
           data == calculateSMA(items, period)
           m == Max2(len - period + 1, 0)
<1>1. len \in Nat /\ DOMAIN items = 1..len /\ \A i \in 1..len : items[i].close \in Int
  BY DEF HasCloses
<1>2. /\ P \in [0..len -> Int] /\ P[0] = 0
      /\ \A i \in 1..len : P[i] = P[i - 1] + items[i].close
  BY CloseSumsAre
<1>3. data = [n \in 1..m |-> [time |-> items[n + period - 1].time,
                              num |-> R[n + period - 1], den |-> period]]
  BY <1>1 DEF calculateSMA, Means
<1> HIDE DEF P, len
<1>4. change \in [1..len -> Int]
  <2>1. \A i \in 1..len : i > period => i - period \in 1..len
    BY <1>1
  <2> QED BY <1>1, <2>1
<1>5. f \in [0..len -> Int]
  <2>1. \A i \in 0..len : i >= period => i - period \in 0..len
    BY <1>1
  <2> QED BY <1>2, <2>1
<1>6. f[0] = 0
  BY <1>1, <1>2
<1>7. ASSUME NEW i \in 1..len PROVE f[i] = f[i - 1] + change[i]
  <2>1. i \in 0..len /\ i - 1 \in 0..len /\ P[i] \in Int /\ P[i - 1] \in Int
        /\ items[i].close \in Int /\ P[i] = P[i - 1] + items[i].close
    BY <1>1, <1>2
  <2>2. CASE i < period
    <3>1. f[i] = P[i] - 0 /\ f[i - 1] = P[i - 1] - 0 /\ change[i] = items[i].close - 0
      BY <2>1, <2>2
    <3> QED BY <2>1, <3>1
  <2>3. CASE i = period
    <3>1. f[i] = P[i] - P[0] /\ f[i - 1] = P[i - 1] - 0 /\ change[i] = items[i].close - 0
      BY <2>1, <2>3
    <3> QED BY <1>2, <2>1, <3>1
  <2>4. CASE i > period
    <3>1. i - period \in 1..len /\ (i - 1) - period = (i - period) - 1
      BY <1>1, <2>4
    <3>2. /\ P[i - period] = P[(i - period) - 1] + items[i - period].close
          /\ P[i - period] \in Int /\ P[(i - period) - 1] \in Int
          /\ items[i - period].close \in Int
      <4> DEFINE n == i - period
      <4>1. n \in 1..len /\ n \in 0..len /\ n - 1 \in 0..len
        BY <1>1, <3>1
      <4> HIDE DEF n
      <4>2. P[n] = P[n - 1] + items[n].close /\ P[n] \in Int /\ P[n - 1] \in Int
            /\ items[n].close \in Int
        BY <1>1, <1>2, <4>1
      <4> QED BY <4>2 DEF n
    <3>3. /\ f[i] = P[i] - P[i - period] /\ f[i - 1] = P[i - 1] - P[(i - period) - 1]
          /\ change[i] = items[i].close - items[i - period].close
      BY <2>1, <2>4, <3>1
    <3> HIDE DEF f, change
    <3> QED BY <2>1, <3>2, <3>3
  <2> QED BY <2>2, <2>3, <2>4
<1>8. \A i \in period..len : f[i] = P[i] - P[i - period]
  BY <1>1
<1> HIDE DEF f, change
<1>9. R = f
  <2>1. Sums(f, change, len)
    BY <1>5, <1>6, <1>7 DEF Sums
  <2> QED BY <1>1, <1>4, <2>1, SumIs
<1> HIDE DEF R
<1>10. m \in Nat /\ (m > 0 <=> len >= period) /\ (m > 0 => m = len - period + 1)
  BY <1>1 DEF Max2
<1> HIDE DEF m
<1>11. Len(data) = m /\ DOMAIN data = 1..m /\ (data # <<>> <=> m > 0)
  <2>1. DOMAIN data = 1..m /\ data = [n \in 1..m |-> data[n]]
    BY <1>3
  <2> QED BY <1>10, <2>1, LineIs
<1>12. ASSUME NEW n \in 1..m PROVE IsMean(data[n], items, n + period - 1, period)
  <2> DEFINE i == n + period - 1
  <2>1. i \in period..len
    BY <1>1, <1>10
  <2>2. SumOf(Closes(items, i, period)) = P[i] - P[i - period]
    BY <2>1, WindowSum DEF P, len
  <2>3. data[n] = [time |-> items[i].time, num |-> R[i], den |-> period]
    BY <1>3
  <2>4. R[i] = P[i] - P[i - period]
    BY <1>8, <1>9, <2>1
  <2> HIDE DEF i
  <2>5. IsMean(data[n], items, i, period)
    BY <2>2, <2>3, <2>4 DEF IsMean
  <2> QED BY <2>5 DEF i
<1> HIDE DEF data
<1>13. data # <<>> => AreMeans(data, items, period)
  BY <1>10, <1>11, <1>12 DEF AreMeans, len
<1> QED BY <1>10, <1>11, <1>13 DEF data, len

LEMMA Square ==
  ASSUME NEW p \in Int, NEW s \in Int, NEW c \in Int
  PROVE  (p * c - s) * (p * c - s) = p * p * (c * c) - 2 * p * s * c + s * s
OBVIOUS

\* calculateBollinger: the sum of the squared deviations is the variance of the window.
LEMMA DeviationsAre ==
  ASSUME NEW p \in Nat, NEW c \in [1..p -> Int]
  PROVE  SumOf([k \in 1..p |-> (p * c[k] - SumOf(c)) * (p * c[k] - SumOf(c))])
           = p * (p * SumOf([k \in 1..p |-> c[k] * c[k]]) - SumOf(c) * SumOf(c))
<1> DEFINE s == SumOf(c)
           S == RunningSum(c)
           sq == [k \in 1..p |-> c[k] * c[k]]
           Q == RunningSum(sq)
           dev == [k \in 1..p |-> (p * c[k] - s) * (p * c[k] - s)]
           h == [k \in 0..p |-> p * p * Q[k] - 2 * p * s * S[k] + k * (s * s)]
<1>1. \A k \in 1..p : c[k] \in Int
  OBVIOUS
<1>2. Sums(S, c, p) /\ s = S[p]
  BY RunningSumIs
<1>3. S \in [0..p -> Int] /\ S[0] = 0 /\ \A k \in 1..p : S[k] = S[k - 1] + c[k]
  BY <1>2 DEF Sums
<1>4. s \in Int
  <2>1. p \in 0..p
    OBVIOUS
  <2> HIDE DEF S, s
  <2> QED BY <1>2, <1>3, <2>1
<1> HIDE DEF S, s
<1>5. sq \in [1..p -> Int] /\ \A k \in 1..p : sq[k] = c[k] * c[k]
  BY <1>1
<1>6. \A k \in 1..p : dev[k] = (p * c[k] - s) * (p * c[k] - s)
  OBVIOUS
<1>7. dev \in [1..p -> Int]
  <2>1. \A k \in 1..p : (p * c[k] - s) * (p * c[k] - s) \in Int
    BY <1>1, <1>4
  <2> QED BY <2>1
<1> HIDE DEF sq, dev
<1>8. Sums(Q, sq, p) /\ SumOf(sq) = Q[p]
  BY <1>5, RunningSumIs
<1> HIDE DEF Q
<1>9. Q \in [0..p -> Int] /\ Q[0] = 0 /\ \A k \in 1..p : Q[k] = Q[k - 1] + sq[k]
  BY <1>8 DEF Sums
<1>10. \A k \in 0..p : h[k] = p * p * Q[k] - 2 * p * s * S[k] + k * (s * s)
  OBVIOUS
<1>11. h \in [0..p -> Int]
  <2>1. ASSUME NEW k \in 0..p PROVE p * p * Q[k] - 2 * p * s * S[k] + k * (s * s) \in Int
    <3>1. Q[k] \in Int /\ S[k] \in Int /\ k \in Int /\ p \in Int
      BY <1>3, <1>9
    <3> QED BY <1>4, <3>1
  <2> QED BY <2>1
<1> HIDE DEF h
<1>12. h[0] = 0
  <2>1. 0 \in 0..p
    OBVIOUS
  <2>2. h[0] = p * p * 0 - 2 * p * s * 0 + 0 * (s * s)
    BY <1>3, <1>9, <1>10, <2>1
  <2> QED BY <1>4, <2>2
<1>13. ASSUME NEW k \in 1..p PROVE h[k] = h[k - 1] + dev[k]
  <2>1. k \in 0..p /\ k - 1 \in 0..p
    OBVIOUS
  <2> DEFINE x == c[k]
             a == Q[k - 1]
             b == S[k - 1]
  <2>2. x \in Int /\ a \in Int /\ b \in Int /\ k \in Int /\ p \in Int
    BY <1>1, <1>3, <1>9, <2>1
  <2>3. Q[k] = a + x * x /\ S[k] = b + x
    BY <1>3, <1>5, <1>9
  <2>4. h[k] = p * p * (a + x * x) - 2 * p * s * (b + x) + k * (s * s)
    BY <1>10, <2>1, <2>3
  <2>5. h[k - 1] = p * p * a - 2 * p * s * b + (k - 1) * (s * s)
    BY <1>10, <2>1
  <2>6. dev[k] = (p * x - s) * (p * x - s)
    BY <1>6
  <2> HIDE DEF x, a, b
  <2>7. dev[k] = p * p * (x * x) - 2 * p * s * x + s * s
    BY <1>4, <2>2, <2>6, Square
  <2>8. h[k] = (p * p * a - 2 * p * s * b + (k - 1) * (s * s))
                 + (p * p * (x * x) - 2 * p * s * x + s * s)
    BY <1>4, <2>2, <2>4
  <2> QED BY <2>5, <2>7, <2>8
<1>14. SumOf(dev) = h[p]
  <2>1. Sums(h, dev, p)
    BY <1>11, <1>12, <1>13 DEF Sums
  <2> QED BY <1>7, <2>1, SumIs
<1>15. h[p] = p * (p * Q[p] - s * s)
  <2>1. p \in 0..p /\ Q[p] \in Int
    BY <1>9
  <2>2. h[p] = p * p * Q[p] - 2 * p * s * s + p * (s * s)
    BY <1>2, <1>10, <2>1
  <2> QED BY <1>4, <2>1, <2>2
<1> QED BY <1>8, <1>14, <1>15 DEF s, sq, dev

LEMMA BandsAreVariances ==
  ASSUME NEW items, HasCloses(items), NEW period \in Nat \ {0}
  PROVE  LET data == calculateBollinger(items, period)
         IN /\ data # <<>> <=> Len(items) >= period
            /\ data # <<>> => AreMeans(data, items, period) /\ AreVariances(data, items, period)
<1> DEFINE len == Len(items)
           data == calculateBollinger(items, period)
           m == Max2(len - period + 1, 0)
           c(i) == Closes(items, i, period)
           squares(i) == SumOf([k \in 1..period |->
                                  (period * c(i)[k] - SumOf(c(i)))
                                    * (period * c(i)[k] - SumOf(c(i)))])
<1>1. len \in Nat /\ DOMAIN items = 1..len
  BY DEF HasCloses
<1>2. data = [n \in 1..m |-> [time |-> items[n + period - 1].time,
                              num |-> SumOf(c(n + period - 1)), den |-> period,
                              squares |-> squares(n + period - 1)]]
  BY DEF calculateBollinger, Closes
<1>3. m \in Nat /\ (m > 0 <=> len >= period) /\ (m > 0 => m = len - period + 1)
  BY <1>1 DEF Max2
<1> HIDE DEF m, data
<1>4. Len(data) = m /\ DOMAIN data = 1..m /\ (data # <<>> <=> m > 0)
  <2>1. DOMAIN data = 1..m /\ data = [n \in 1..m |-> data[n]]
    BY <1>2
  <2> QED BY <1>3, <2>1, LineIs
<1>5. ASSUME NEW n \in 1..m
      PROVE  /\ IsMean(data[n], items, n + period - 1, period)
             /\ IsVariance(data[n].squares, items, n + period - 1, period)
  <2> DEFINE i == n + period - 1
             cs == c(i)
             sqs == squares(i)
  <2>1. i \in period..len
    BY <1>1, <1>3
  <2>2. cs \in [1..period -> Int] /\ period \in Nat
    BY <2>1, WindowSum DEF len
  <2>3. data[n] = [time |-> items[i].time, num |-> SumOf(cs), den |-> period,
                   squares |-> sqs]
    BY <1>2
  <2>4. sqs = SumOf([k \in 1..period |-> (period * cs[k] - SumOf(cs))
                                           * (period * cs[k] - SumOf(cs))])
    OBVIOUS
  <2>5. cs = Closes(items, i, period)
    OBVIOUS
  <2> HIDE DEF i, cs, sqs
  <2>6. sqs = period * (period * SumOf([k \in 1..period |-> cs[k] * cs[k]])
                          - SumOf(cs) * SumOf(cs))
    BY <2>2, <2>4, DeviationsAre
  <2>7. IsMean(data[n], items, i, period)
    BY <2>3, <2>5 DEF IsMean
  <2>8. data[n].squares = sqs
    BY <2>3
  <2>9. IsVariance(data[n].squares, items, i, period)
    BY <2>5, <2>6, <2>8 DEF IsVariance
  <2> QED BY <2>7, <2>9 DEF i
<1>6. data # <<>> => AreMeans(data, items, period) /\ AreVariances(data, items, period)
  BY <1>3, <1>4, <1>5 DEF AreMeans, AreVariances, len
<1> QED BY <1>3, <1>4, <1>6 DEF data, len

\* The powers of a number.
Powers(f, base, m) ==
  f \in [0..m -> Int] /\ f[0] = 1 /\ \A k \in 1..m : f[k] = base * f[k - 1]

LEMMA PowersAre ==
  ASSUME NEW base \in Int, NEW m \in Nat
  PROVE  \E f : Powers(f, base, m) /\ Power(base, m) = f[m]
<1> DEFINE power == CHOOSE f : f = [k \in 0..m |-> IF k = 0 THEN 1 ELSE base * f[k - 1]]
           step == [p \in Int \X (1..m) |-> base * p[1]]
<1>1. Power(base, m) = power[m]
  BY DEF Power
<1>2. step \in [Int \X (1..m) -> Int]
  OBVIOUS
<1>3. PICK f : Recursive(f, m, Int, 1, step)
  <2>1. 1 \in Int
    OBVIOUS
  <2> HIDE DEF step
  <2> QED BY <1>2, <2>1, Recursion
<1>4. Powers(f, base, m)
  <2>1. f \in [0..m -> Int] /\ f[0] = 1
    BY <1>3 DEF Recursive
  <2>2. ASSUME NEW k \in 1..m PROVE f[k] = base * f[k - 1]
    <3>1. f[k - 1] \in Int
      BY <2>1
    <3>2. step[<<f[k - 1], k>>] = base * f[k - 1]
      BY <3>1
    <3> QED BY <1>3, <3>2 DEF Recursive
  <2> QED BY <2>1, <2>2 DEF Powers
<1>5. f = [k \in 0..m |-> IF k = 0 THEN 1 ELSE base * f[k - 1]]
  <2>1. f \in [0..m -> Int] /\ f[0] = 1 /\ \A k \in 1..m : f[k] = base * f[k - 1]
    BY <1>4 DEF Powers
  <2>2. \A k \in 0..m : f[k] = IF k = 0 THEN 1 ELSE base * f[k - 1]
    BY <2>1
  <2> QED BY <2>1, <2>2
<1>6. power = [k \in 0..m |-> IF k = 0 THEN 1 ELSE base * power[k - 1]]
  BY <1>5
<1> HIDE DEF power
<1>7. power = f
  <2> DEFINE S == {k \in Nat : k <= m => power[k] = f[k]}
  <2>0. f[0] = 1 /\ \A k \in 1..m : f[k] = base * f[k - 1]
    BY <1>4 DEF Powers
  <2>1. 0 \in S
    BY <1>6, <2>0
  <2>2. ASSUME NEW k \in Nat, k \in S PROVE k + 1 \in S
    <3>1. CASE k + 1 <= m
      <4>1. power[k] = f[k] /\ k + 1 \in 1..m /\ k + 1 # 0 /\ (k + 1) - 1 = k
        BY <2>2, <3>1
      <4>2. power[k + 1] = base * power[k]
        BY <1>6, <4>1
      <4>3. f[k + 1] = base * f[k]
        BY <2>0, <4>1
      <4> QED BY <4>1, <4>2, <4>3
    <3>2. CASE ~(k + 1 <= m)
      BY <3>2
    <3> QED BY <3>1, <3>2
  <2>3. \A k \in Nat : k \in S
    <3> HIDE DEF S
    <3> QED BY <2>1, <2>2, EachNumber
  <2>4. \A k \in 0..m : power[k] = f[k]
    BY <2>3
  <2> QED BY <1>5, <1>6, <2>4
<1> QED BY <1>1, <1>4, <1>7

LEMMA PowerIs ==
  ASSUME NEW base \in Int, NEW m \in Nat
  PROVE  /\ Power(base, 0) = 1 /\ Power(base, m) \in Int
         /\ Power(base, m + 1) = base * Power(base, m)
<1>1. PICK f : Powers(f, base, m) /\ Power(base, m) = f[m]
  BY PowersAre
<1>2. PICK g : Powers(g, base, m + 1) /\ Power(base, m + 1) = g[m + 1]
  <2>1. m + 1 \in Nat
    OBVIOUS
  <2> QED BY <2>1, PowersAre
<1>3. PICK z : Powers(z, base, 0) /\ Power(base, 0) = z[0]
  <2>1. 0 \in Nat
    OBVIOUS
  <2> QED BY <2>1, PowersAre
<1>4. /\ f \in [0..m -> Int] /\ f[0] = 1 /\ \A k \in 1..m : f[k] = base * f[k - 1]
      /\ g[0] = 1 /\ \A k \in 1..(m + 1) : g[k] = base * g[k - 1]
  BY <1>1, <1>2 DEF Powers
<1> DEFINE S == {k \in Nat : k <= m => g[k] = f[k]}
<1>5. \A k \in Nat : k \in S
  <2>1. 0 \in S
    BY <1>4
  <2>2. ASSUME NEW k \in Nat, k \in S PROVE k + 1 \in S
    <3>1. CASE k + 1 <= m
      <4>1. g[k] = f[k] /\ k + 1 \in 1..m /\ k + 1 \in 1..(m + 1) /\ (k + 1) - 1 = k
        BY <2>2, <3>1
      <4>2. f[k + 1] = base * f[k] /\ g[k + 1] = base * g[k]
        BY <1>4, <4>1
      <4> QED BY <4>1, <4>2
    <3>2. CASE ~(k + 1 <= m)
      BY <3>2
    <3> QED BY <3>1, <3>2
  <2> HIDE DEF S
  <2> QED BY <2>1, <2>2, EachNumber
<1>6. g[m] = f[m] /\ m \in 0..m
  BY <1>5
<1>7. g[m + 1] = base * g[m]
  <2>1. m + 1 \in 1..(m + 1) /\ (m + 1) - 1 = m
    OBVIOUS
  <2> QED BY <1>4, <2>1
<1>8. z[0] = 1
  BY <1>3 DEF Powers
<1> QED BY <1>1, <1>2, <1>3, <1>4, <1>6, <1>7, <1>8

\* The weighted closes that make up the average at a kline, without the first.
Weighted(items, period, i) ==
  [j \in 1..(i - 1) |-> 2 * items[j + 1].close
                          * Power(period - 1, i - 1 - j) * Power(period + 1, j - 1)]

\* The numerator and the denominator of the average at a kline.
Numerator(items, period, i) ==
  Power(period - 1, i - 1) * items[1].close + SumOf(Weighted(items, period, i))

Denominator(period, i) == Power(period + 1, i - 1)

LEMMA WeightedAre ==
  ASSUME NEW items, HasCloses(items), NEW period \in Nat \ {0}, NEW i \in 1..Len(items)
  PROVE  /\ Weighted(items, period, i) \in [1..(i - 1) -> Int]
         /\ SumOf(Weighted(items, period, i)) \in Int
         /\ Denominator(period, i) \in Int
         /\ Power(period - 1, i - 1) \in Int
<1>1. \A k \in Nat : Power(period - 1, k) \in Int /\ Power(period + 1, k) \in Int
  <2>1. period - 1 \in Int /\ period + 1 \in Int
    OBVIOUS
  <2> QED BY <2>1, PowerIs
<1>2. Weighted(items, period, i) \in [1..(i - 1) -> Int]
  <2>1. ASSUME NEW j \in 1..(i - 1)
        PROVE  2 * items[j + 1].close
                 * Power(period - 1, i - 1 - j) * Power(period + 1, j - 1) \in Int
    <3>1. j + 1 \in 1..Len(items) /\ i - 1 - j \in Nat /\ j - 1 \in Nat
      BY DEF HasCloses
    <3> DEFINE c == items[j + 1].close
               p == Power(period - 1, i - 1 - j)
               q == Power(period + 1, j - 1)
    <3>2. c \in Int /\ p \in Int /\ q \in Int
      BY <1>1, <3>1 DEF HasCloses
    <3> HIDE DEF c, p, q
    <3>3. 2 * c * p * q \in Int
      BY <3>2
    <3> QED BY <3>3 DEF c, p, q
  <2> QED BY <2>1 DEF Weighted
<1>3. i - 1 \in Nat
  BY DEF HasCloses
<1>4. SumOf(Weighted(items, period, i)) \in Int
  <2> DEFINE w == Weighted(items, period, i)
             m == i - 1
  <2>1. w \in [1..m -> Int] /\ m \in Nat /\ m \in 0..m
    BY <1>2, <1>3
  <2> HIDE DEF w, m
  <2>2. Sums(RunningSum(w), w, m) /\ SumOf(w) = RunningSum(w)[m]
    BY <2>1, RunningSumIs
  <2>3. SumOf(w) \in Int
    BY <2>1, <2>2 DEF Sums
  <2> QED BY <2>3 DEF w
<1> QED BY <1>1, <1>2, <1>3, <1>4 DEF Denominator

LEMMA Factors ==
  ASSUME NEW c \in Int, NEW q \in Int, NEW a \in Int, NEW b \in Int
  PROVE  2 * c * (q * a) * b = q * (2 * c * a * b)
OBVIOUS

\* From one kline to the next every weight is multiplied, and the new close is added.
LEMMA WeightsFall ==
  ASSUME NEW items, HasCloses(items), NEW period \in Nat \ {0}, NEW i \in 2..Len(items)
  PROVE  /\ Denominator(period, i) = Denominator(period, i - 1) * (period + 1)
         /\ Numerator(items, period, i)
              = 2 * items[i].close * Denominator(period, i - 1)
                  + (period - 1) * Numerator(items, period, i - 1)
<1> DEFINE q == period - 1
           r == period + 1
           m == i - 2
           w == Weighted(items, period, i - 1)
           v == Weighted(items, period, i)
           D == Denominator(period, i - 1)
           x == items[i].close
           y == items[1].close
           W == RunningSum(w)
           h == [k \in 0..(m + 1) |-> IF k = m + 1 THEN q * W[m] + 2 * x * D ELSE q * W[k]]
           A == Power(q, m)
<1>1. /\ i \in 1..Len(items) /\ i - 1 \in 1..Len(items) /\ m \in Nat /\ 1 \in 1..Len(items)
      /\ (i - 1) - 1 = m /\ i - 1 = m + 1 /\ q \in Int /\ r \in Int
  BY DEF HasCloses
<1>2. x \in Int /\ y \in Int
  BY <1>1 DEF HasCloses
<1>3. /\ w \in [1..m -> Int] /\ v \in [1..(m + 1) -> Int] /\ D \in Int /\ A \in Int
  BY <1>1, WeightedAre
<1>4. \A base \in Int, n \in Nat : /\ Power(base, 0) = 1 /\ Power(base, n) \in Int
                                   /\ Power(base, n + 1) = base * Power(base, n)
  BY PowerIs
<1>5. D = Power(r, m) /\ Denominator(period, i) = Power(r, m + 1)
  BY <1>1 DEF Denominator
<1>6. Denominator(period, i) = D * (period + 1)
  <2>1. Power(r, m + 1) = r * Power(r, m) /\ Power(r, m) \in Int
    BY <1>1, <1>4
  <2> QED BY <1>5, <2>1
<1>7. ASSUME NEW j \in 1..m PROVE v[j] = q * w[j]
  <2> DEFINE n == m - j
             c == items[j + 1].close
             a == Power(q, n)
             b == Power(r, j - 1)
  <2>1. /\ n \in Nat /\ j - 1 \in Nat /\ j \in 1..(m + 1) /\ j \in 1..((i - 1) - 1)
        /\ j \in 1..(i - 1) /\ i - 1 - j = n + 1 /\ (i - 1) - 1 - j = n /\ j + 1 \in 1..Len(items)
    BY <1>1 DEF HasCloses
  <2>2. v[j] = 2 * c * Power(q, n + 1) * b
    BY <2>1 DEF Weighted
  <2>3. w[j] = 2 * c * a * b
    BY <2>1 DEF Weighted
  <2>4. Power(q, n + 1) = q * a /\ a \in Int /\ b \in Int
    BY <1>1, <1>4, <2>1
  <2>5. c \in Int
    BY <2>1 DEF HasCloses
  <2> HIDE DEF a, b, c, n
  <2>6. v[j] = 2 * c * (q * a) * b
    BY <2>2, <2>4
  <2> HIDE DEF q, v, w
  <2>7. v[j] = q * (2 * c * a * b)
    BY <1>1, <2>4, <2>5, <2>6, Factors
  <2> QED BY <2>3, <2>7
<1>8. v[m + 1] = 2 * x * D
  <2>1. m + 1 \in 1..(i - 1) /\ i - 1 - (m + 1) = 0 /\ (m + 1) - 1 = m /\ (m + 1) + 1 = i
    BY <1>1
  <2>2. v[m + 1] = 2 * x * Power(q, 0) * Power(r, m)
    BY <2>1 DEF Weighted
  <2>3. Power(q, 0) = 1
    BY <1>1, <1>4
  <2> HIDE DEF x, D, v
  <2> QED BY <1>2, <1>3, <1>5, <2>2, <2>3
<1> HIDE DEF q, w, v, D, x, y, A, m
<1>9. Sums(W, w, m) /\ SumOf(w) = W[m]
  BY <1>1, <1>3, RunningSumIs
<1> HIDE DEF W
<1>10. W \in [0..m -> Int] /\ W[0] = 0 /\ \A k \in 1..m : W[k] = W[k - 1] + w[k]
  BY <1>9 DEF Sums
<1>11. /\ \A k \in 0..m : h[k] = q * W[k]
       /\ h[m + 1] = q * W[m] + 2 * x * D
  BY <1>1
<1>12. h \in [0..(m + 1) -> Int]
  <2>1. m \in 0..m /\ W[m] \in Int
    BY <1>1, <1>10
  <2>2. q * W[m] + 2 * x * D \in Int
    BY <1>1, <1>2, <1>3, <2>1
  <2>3. ASSUME NEW k \in 0..(m + 1)
        PROVE  (IF k = m + 1 THEN q * W[m] + 2 * x * D ELSE q * W[k]) \in Int
    <3>1. CASE k = m + 1
      BY <2>2, <3>1
    <3>2. CASE k # m + 1
      <4>1. k \in 0..m
        BY <1>1, <3>2
      <4>2. W[k] \in Int
        BY <1>10, <4>1
      <4> QED BY <1>1, <3>2, <4>2
    <3> QED BY <3>1, <3>2
  <2> QED BY <2>3
<1> HIDE DEF h
<1>13. h[0] = 0
  <2>1. 0 \in 0..m
    BY <1>1
  <2>2. h[0] = q * 0
    BY <1>10, <1>11, <2>1
  <2> QED BY <1>1, <2>2
<1>14. ASSUME NEW k \in 1..(m + 1) PROVE h[k] = h[k - 1] + v[k]
  <2>1. CASE k = m + 1
    <3>1. k - 1 = m /\ m \in 0..m /\ W[m] \in Int
      BY <1>1, <1>10, <2>1
    <3>2. h[k - 1] = q * W[m]
      BY <1>11, <3>1
    <3> QED BY <1>1, <1>2, <1>3, <1>8, <1>11, <2>1, <3>1, <3>2
  <2>2. CASE k # m + 1
    <3>1. k \in 1..m /\ k \in 0..m /\ k - 1 \in 0..m
      BY <1>1, <2>2
    <3>2. W[k] = W[k - 1] + w[k] /\ W[k - 1] \in Int /\ w[k] \in Int
      BY <1>3, <1>10, <3>1
    <3>3. h[k] = q * W[k] /\ h[k - 1] = q * W[k - 1] /\ v[k] = q * w[k]
      BY <1>7, <1>11, <3>1
    <3>4. h[k] = q * (W[k - 1] + w[k])
      BY <3>2, <3>3
    <3> QED BY <1>1, <3>2, <3>3, <3>4
  <2> QED BY <2>1, <2>2
<1>15. SumOf(v) = q * SumOf(w) + 2 * x * D
  <2>1. Sums(h, v, m + 1) /\ m + 1 \in Nat
    BY <1>1, <1>12, <1>13, <1>14 DEF Sums
  <2>2. SumOf(v) = h[m + 1]
    BY <1>3, <2>1, SumIs
  <2> QED BY <1>9, <1>11, <2>2
<1>16. Numerator(items, period, i) = 2 * x * D + q * Numerator(items, period, i - 1)
  <2>1. SumOf(w) \in Int
    <3>1. m \in 0..m
      BY <1>1
    <3> QED BY <1>9, <1>10, <3>1
  <2>2. Numerator(items, period, i - 1) = A * y + SumOf(w)
    BY <1>1 DEF Numerator, A, y, w, q, m
  <2>3. Numerator(items, period, i) = Power(q, m + 1) * y + SumOf(v)
    BY <1>1 DEF Numerator, y, v, q
  <2>4. Power(q, m + 1) = q * A
    BY <1>1, <1>4 DEF A
  <2> DEFINE s == SumOf(w)
  <2> HIDE DEF s
  <2>5. Numerator(items, period, i) = (q * A) * y + (q * s + 2 * x * D)
    BY <1>15, <2>3, <2>4 DEF s
  <2>6. (q * A) * y + (q * s + 2 * x * D) = 2 * x * D + q * (A * y + s)
    BY <1>1, <1>2, <1>3, <2>1 DEF s
  <2> QED BY <2>2, <2>5, <2>6 DEF s
<1> QED BY <1>6, <1>16 DEF D, x, q

\* calculateEMA: what is carried from bar to bar is the weighted sum.
LEMMA AveragesAreWeighted ==
  ASSUME NEW items, HasCloses(items), NEW period \in Nat \ {0}
  PROVE  LET data == calculateEMA(items, period)
         IN /\ data # <<>> <=> Len(items) >= 1
            /\ AreAverages(data, items, period)
<1> DEFINE len == Len(items)
           Bar(time, num, den) == [time |-> time, num |-> num, den |-> den]
           After(i, last) == Bar(items[i].time,
                                 2 * items[i].close * last.den + (period - 1) * last.num,
                                 last.den * (period + 1))
           first == Bar(items[1].time, items[1].close, 1)
           data == calculateEMA(items, period)
           f == [i \in 1..len |-> Bar(items[i].time, Numerator(items, period, i),
                                      Denominator(period, i))]
<1>1. len \in Nat /\ DOMAIN items = 1..len /\ \A i \in 1..len : items[i].close \in Int
  BY DEF HasCloses
<1>2. data = CHOOSE g : g = [i \in 1..len |-> IF i = 1 THEN first ELSE After(i, g[i - 1])]
  BY <1>1 DEF calculateEMA
<1> HIDE DEF len, data
<1>3. ASSUME NEW i \in 1..len
      PROVE  f[i] = IF i = 1 THEN first ELSE After(i, f[i - 1])
  <2>1. f[i] = Bar(items[i].time, Numerator(items, period, i), Denominator(period, i))
    OBVIOUS
  <2>2. CASE i = 1
    <3>1. Weighted(items, period, 1) \in [1..0 -> Int]
      <4>1. Weighted(items, period, 1) \in [1..(1 - 1) -> Int]
        BY <2>2, WeightedAre DEF len
      <4>2. 1 - 1 = 0
        OBVIOUS
      <4> QED BY <4>1, <4>2
    <3>2. SumOf(Weighted(items, period, 1)) = 0
      <4> DEFINE w == Weighted(items, period, 1)
      <4>1. w \in [1..0 -> Int] /\ 0 \in Nat
        BY <3>1
      <4> HIDE DEF w
      <4>2. Sums(RunningSum(w), w, 0) /\ SumOf(w) = RunningSum(w)[0]
        BY <4>1, RunningSumIs
      <4> QED BY <4>2 DEF Sums, w
    <3>3. Power(period - 1, 0) = 1 /\ Power(period + 1, 0) = 1
      <4>1. period - 1 \in Int /\ period + 1 \in Int /\ 0 \in Nat
        OBVIOUS
      <4> QED BY <4>1, PowerIs
    <3>4. Numerator(items, period, 1) = items[1].close /\ Denominator(period, 1) = 1
      <4>1. items[1].close \in Int
        BY <1>1, <2>2
      <4>2. 1 - 1 = 0
        OBVIOUS
      <4> QED BY <3>2, <3>3, <4>1, <4>2 DEF Numerator, Denominator
    <3> QED BY <2>1, <2>2, <3>4
  <2>3. CASE i # 1
    <3>1. i \in 2..len /\ i - 1 \in 1..len
      BY <1>1, <2>3
    <3>2. /\ Denominator(period, i) = Denominator(period, i - 1) * (period + 1)
          /\ Numerator(items, period, i)
               = 2 * items[i].close * Denominator(period, i - 1)
                   + (period - 1) * Numerator(items, period, i - 1)
      BY <3>1, WeightsFall DEF len
    <3>3. /\ f[i - 1].num = Numerator(items, period, i - 1)
          /\ f[i - 1].den = Denominator(period, i - 1)
      BY <3>1
    <3> HIDE DEF f
    <3> QED BY <2>1, <2>3, <3>2, <3>3
  <2> QED BY <2>2, <2>3
<1>4. f = [i \in 1..len |-> IF i = 1 THEN first ELSE After(i, f[i - 1])]
  <2>1. f = [i \in 1..len |-> f[i]]
    OBVIOUS
  <2> HIDE DEF f
  <2> QED BY <1>3, <2>1
<1> HIDE DEF f, first, After
<1>5. data = [i \in 1..len |-> IF i = 1 THEN first ELSE After(i, data[i - 1])]
  BY <1>2, <1>4
<1>6. data = f
  <2> DEFINE S == {k \in Nat : k + 1 <= len => data[k + 1] = f[k + 1]}
  <2>1. 0 \in S
    <3>1. CASE 1 <= len
      <4>1. 1 \in 1..len
        BY <1>1, <3>1
      <4>2. data[1] = first /\ f[1] = first
        BY <1>4, <1>5, <4>1
      <4> QED BY <4>2
    <3>2. CASE ~(1 <= len)
      BY <3>2
    <3> QED BY <3>1, <3>2
  <2>2. ASSUME NEW k \in Nat, k \in S PROVE k + 1 \in S
    <3> DEFINE i == k + 2
    <3>1. CASE i <= len
      <4>1. i \in 1..len /\ i # 1 /\ i - 1 = k + 1 /\ (k + 1) + 1 = i /\ k + 1 <= len
        BY <1>1, <3>1
      <4>2. data[k + 1] = f[k + 1]
        BY <2>2, <4>1
      <4>3. data[i] = After(i, data[i - 1]) /\ f[i] = After(i, f[i - 1])
        BY <1>4, <1>5, <4>1
      <4> HIDE DEF i
      <4>4. data[i] = f[i]
        BY <4>1, <4>2, <4>3
      <4> QED BY <4>1, <4>4
    <3>2. CASE ~(i <= len)
      BY <3>2
    <3> QED BY <3>1, <3>2
  <2>3. \A k \in Nat : k \in S
    <3> HIDE DEF S
    <3> QED BY <2>1, <2>2, EachNumber
  <2>4. ASSUME NEW i \in 1..len PROVE data[i] = f[i]
    <3>1. i - 1 \in Nat /\ (i - 1) + 1 = i /\ i <= len
      BY <1>1
    <3> QED BY <2>3, <3>1
  <2> QED BY <1>4, <1>5, <2>4
<1>7. Len(data) = len /\ DOMAIN data = 1..len /\ (data # <<>> <=> len > 0)
  <2>1. DOMAIN data = 1..len /\ data = [i \in 1..len |-> data[i]]
    BY <1>6 DEF f
  <2> QED BY <1>1, <2>1, LineIs
<1>8. ASSUME NEW i \in 1..len PROVE IsAverage(data[i], items, i, period)
  <2>1. /\ data[i].time = items[i].time /\ data[i].num = Numerator(items, period, i)
        /\ data[i].den = Denominator(period, i)
    BY <1>6 DEF f
  <2> QED BY <2>1 DEF IsAverage, Numerator, Denominator, Weighted
<1>9. AreAverages(data, items, period)
  BY <1>7, <1>8 DEF AreAverages, len
<1> QED BY <1>1, <1>7, <1>9 DEF data, len

\* What an indicator plots is what it means, and it plots something when there
\* are klines enough.
LEMMA PlotIs ==
  ASSUME NEW items, HasCloses(items), NEW key \in (DOMAIN Periods) \cup {"vol"}
  PROVE  /\ key # "vol" =>
              (Plot(key, items) # <<>>
                 <=> Len(items) >= (IF key = "ema20" THEN 1 ELSE Periods[key]))
         /\ key = "vol" \/ Plot(key, items) # <<>> =>
              IsIndicator([key |-> key, data |-> Plot(key, items)], items)
<1> DEFINE data == Plot(key, items)
           p == [key |-> key, data |-> data]
<1>1. /\ DOMAIN Periods = {"ma7", "ma20", "ma60", "ema20", "boll"}
      /\ \A k \in DOMAIN Periods : Periods[k] \in Nat \ {0}
  BY ChartSeriesAssumption
<1>2. p.key = key /\ p.data = data
  OBVIOUS
<1>3. CASE key = "vol"
  <2>1. data = volumeBars(items)
    BY <1>3 DEF Plot
  <2>2. /\ Len(items) \in Nat /\ DOMAIN data = 1..Len(items)
        /\ data = [n \in 1..Len(items) |-> data[n]]
    BY <2>1 DEF volumeBars, HasCloses
  <2> HIDE DEF data
  <2>3. Len(data) = Len(items)
    BY <2>2, LineIs
  <2> HIDE DEF p
  <2>4. IsIndicator(p, items)
    BY <1>2, <1>3, <2>3 DEF IsIndicator
  <2> QED BY <1>3, <2>4 DEF p, data
<1>4. CASE key \in {"ma7", "ma20", "ma60"}
  <2>1. data = calculateSMA(items, Periods[key]) /\ Periods[key] \in Nat \ {0}
    BY <1>1, <1>4 DEF Plot
  <2>2. /\ data # <<>> <=> Len(items) >= Periods[key]
        /\ data # <<>> => AreMeans(data, items, Periods[key])
    BY <2>1, AveragesAreMeans
  <2> HIDE DEF data, p
  <2>3. data # <<>> => IsIndicator(p, items)
    BY <1>2, <1>4, <2>2 DEF IsIndicator
  <2> QED BY <1>4, <2>2, <2>3 DEF p, data
<1>5. CASE key = "ema20"
  <2>1. data = calculateEMA(items, Periods[key]) /\ Periods[key] \in Nat \ {0}
    BY <1>1, <1>5 DEF Plot
  <2>2. (data # <<>> <=> Len(items) >= 1) /\ AreAverages(data, items, Periods[key])
    BY <2>1, AveragesAreWeighted
  <2> HIDE DEF data, p
  <2>3. IsIndicator(p, items)
    BY <1>2, <1>5, <2>2 DEF IsIndicator
  <2> QED BY <1>5, <2>2, <2>3 DEF p, data
<1>6. CASE key = "boll"
  <2>1. data = calculateBollinger(items, Periods[key]) /\ Periods[key] \in Nat \ {0}
    BY <1>1, <1>6 DEF Plot
  <2>2. /\ data # <<>> <=> Len(items) >= Periods[key]
        /\ data # <<>> => /\ AreMeans(data, items, Periods[key])
                          /\ AreVariances(data, items, Periods[key])
    BY <2>1, BandsAreVariances
  <2> HIDE DEF data, p
  <2>3. data # <<>> => IsIndicator(p, items)
    BY <1>2, <1>6, <2>2 DEF IsIndicator
  <2> QED BY <1>6, <2>2, <2>3 DEF p, data
<1> QED BY <1>1, <1>3, <1>4, <1>5, <1>6

\* The indicators on the chart are those the component can remove, and they are
\* those of the klines shown.
PlotsInv == series.plots = plotted /\ plotted = Plots(Klines, enabled)

LEMMA KlinesHaveCloses ==
  ASSUME NEW p \in AllProps
  PROVE  /\ HasCloses(chartKlines(p.klines))
         /\ \A i \in 2..Len(chartKlines(p.klines)) :
              chartKlines(p.klines)[i - 1].time < chartKlines(p.klines)[i].time
<1> DEFINE items == chartKlines(p.klines)
<1>1. ItemsOf(items, p.klines)
  BY PropsAre, KlinesAre
<1> HIDE DEF items
<1>2. Len(items) \in Nat /\ DOMAIN items = 1..Len(items) /\ items \in Seq(Item)
  BY <1>1, ItemsAre DEF ItemsOf
<1>3. \A i \in 1..Len(items) : items[i].close \in Int
  <2>1. \A i \in 1..Len(items) : items[i] \in Item
    BY <1>2
  <2> QED BY <2>1 DEF Item
<1>4. ASSUME NEW i \in 2..Len(items) PROVE items[i - 1].time < items[i].time
  <2>1. i - 1 \in DOMAIN items /\ i \in DOMAIN items /\ i - 1 < i
    BY <1>2
  <2> QED BY <1>1, <2>1 DEF ItemsOf
<1> QED BY <1>2, <1>3, <1>4 DEF HasCloses, items

LEMMA InitPlots == Init => PlotsInv
<1> SUFFICES ASSUME Init PROVE PlotsInv
  OBVIOUS
<1>1. enabled = {} /\ plotted = {} /\ series.plots = {}
  BY DEF Init
<1>2. Plots(Klines, {}) = {}
  BY DEF Plots
<1> QED BY <1>1, <1>2 DEF PlotsInv

\* A step that redraws everything exchanges the indicators.
LEMMA ChartKeepsPlots ==
  ASSUME PlotsInv, NEW p, props' = p, NEW on, enabled' = on, NEW h, renderChart(p, on, h)
  PROVE  PlotsInv'
<1>1. /\ plotted' = Plots(chartKlines(p.klines), on)
      /\ series'.plots = (series.plots \ plotted) \cup Plots(chartKlines(p.klines), on)
  BY DEF renderChart
<1>2. series.plots \ plotted = {}
  BY DEF PlotsInv
<1>3. Klines' = chartKlines(p.klines)
  BY DEF Klines
<1> QED BY <1>1, <1>2, <1>3 DEF PlotsInv

\* One that redraws the lines leaves them.
LEMMA LinesKeepPlots ==
  ASSUME KInv, PlotsInv, UNCHANGED <<props, enabled, plotted>>,
         \/ series' = series
         \/ \E d, h : renderPriceLines(props, d, h)
  PROVE  PlotsInv'
<1>1. series'.plots = series.plots
  <2>1. "plots" \in DOMAIN series
    BY DEF KInv, LinesInv
  <2>2. ASSUME NEW d, NEW h, renderPriceLines(props, d, h)
        PROVE  \E lines : series' = [series EXCEPT !.lines = lines]
    BY <2>2 DEF renderPriceLines
  <2> QED BY <2>1, <2>2
<1>2. Klines' = Klines
  BY DEF Klines
<1> QED BY <1>1, <1>2 DEF PlotsInv

LEMMA StepPlots == KInv /\ PlotsInv /\ [Next]_vars => PlotsInv'
<1> SUFFICES ASSUME KInv, PlotsInv, [Next]_vars PROVE PlotsInv'
  OBVIOUS
<1>1. ASSUME NEW new \in Props, PropsChange(new) \/ WindowChange(new) PROVE PlotsInv'
  <2>1. CASE PropsChange(new)
    BY <2>1, ChartKeepsPlots DEF PropsChange
  <2>2. CASE WindowChange(new)
    <3>1. /\ Watched(new) = Watched(props) /\ props' = new
          /\ UNCHANGED <<series, enabled, plotted>>
      BY <2>2 DEF WindowChange, lineVars
    <3>2. Klines' = Klines
      BY <3>1, PropsAreAll, SameWatched DEF AllProps, Klines
    <3> QED BY <3>1, <3>2 DEF PlotsInv
  <2> QED BY <1>1, <2>1, <2>2
<1>2. ASSUME Toolbar PROVE PlotsInv'
  <2>1. ASSUME NEW key \in Indicators, toggleIndicator(key) PROVE PlotsInv'
    BY <2>1, ChartKeepsPlots DEF toggleIndicator
  <2>2. ASSUME NEW new \in Tools, setActiveTool(new) PROVE PlotsInv'
    BY <2>2, LinesKeepPlots DEF setActiveTool, lineVars
  <2>3. ASSUME clearDrawings PROVE PlotsInv'
    BY <2>3, LinesKeepPlots DEF clearDrawings
  <2> QED BY <1>2, <2>1, <2>2, <2>3 DEF Toolbar
<1>3. ASSUME Pointer PROVE PlotsInv'
  <2>1. ASSUME NEW x \in Xs, startSelection(x) \/ MoveSelection(x) \/ finishSelection(x)
        PROVE  PlotsInv'
    BY <2>1, LinesKeepPlots DEF startSelection, MoveSelection, finishSelection, lineVars
  <2>2. ASSUME NEW x \in Xs, NEW y \in Ys,
               DrawHorizontal(x, y) \/ BeginTrend(x, y) \/ EndTrend(x, y) \/ Hover(x, y)
        PROVE  PlotsInv'
    <3>1. /\ UNCHANGED <<props, enabled, plotted>>
          /\ series' = series \/ \E d, h : renderPriceLines(props, d, h)
      BY <2>2 DEF DrawHorizontal, BeginTrend, EndTrend, Hover, lineVars
    <3> QED BY <3>1, LinesKeepPlots
  <2>3. ASSUME cancelSelection PROVE PlotsInv'
    BY <2>3, LinesKeepPlots DEF cancelSelection
  <2> QED BY <1>3, <2>1, <2>2, <2>3 DEF Pointer
<1>4. CASE UNCHANGED vars
  BY <1>4, LinesKeepPlots DEF vars
<1> QED BY <1>1, <1>2, <1>3, <1>4 DEF Next

\* The indicators on the chart are those switched on, with the means, weights and
\* variances they are named for (syncIndicatorSeries, calculateSMA, calculateEMA
\* and calculateBollinger).
THEOREM IndicatorsAreThoseOfKlines == Spec => []IndicatorsMatchSeries
<1>1. KInv /\ PlotsInv => IndicatorsMatchSeries
  <2> SUFFICES ASSUME KInv, PlotsInv PROVE IndicatorsMatchSeries
    OBVIOUS
  <2> DEFINE items == series.candles
             enough(k) == Len(items) >= (IF k = "ema20" THEN 1 ELSE Periods[k])
             shown == {k \in enabled : k = "vol" \/ Plot(k, items) # <<>>}
  <2>1. props \in AllProps /\ enabled \subseteq (DOMAIN Periods) \cup {"vol"}
    BY PropsAreAll, KlineChartAssumption DEF KInv, TypeOK
  <2>2. items = Klines
    BY DEF KInv, LinesInv
  <2>3. HasCloses(items) /\ \A i \in 2..Len(items) : items[i - 1].time < items[i].time
    BY <2>1, <2>2, KlinesHaveCloses DEF Klines
  <2>4. series.plots = {[key |-> k, data |-> Plot(k, items)] : k \in shown}
    BY <2>2 DEF PlotsInv, Plots
  <2> HIDE DEF items
  <2>5. shown = {k \in enabled : k = "vol" \/ enough(k)}
    BY <2>1, <2>3, PlotIs
  <2>6. ASSUME NEW p \in series.plots
        PROVE  /\ p.key \in shown /\ p = [key |-> p.key, data |-> Plot(p.key, items)]
               /\ IsIndicator(p, items)
    <3>1. PICK k \in shown : p = [key |-> k, data |-> Plot(k, items)]
      BY <2>4
    <3>2. k \in (DOMAIN Periods) \cup {"vol"} /\ (k = "vol" \/ Plot(k, items) # <<>>)
      BY <2>1
    <3>3. IsIndicator([key |-> k, data |-> Plot(k, items)], items)
      BY <2>3, <3>2, PlotIs
    <3> QED BY <3>1, <3>3
  <2> HIDE DEF shown
  <2>7. {p.key : p \in series.plots} = shown
    <3>1. ASSUME NEW k \in shown PROVE k \in {p.key : p \in series.plots}
      <4> DEFINE p == [key |-> k, data |-> Plot(k, items)]
      <4>1. p \in series.plots /\ p.key = k
        BY <2>4
      <4> QED BY <4>1
    <3> QED BY <2>6, <3>1
  <2>8. \A p, q \in series.plots : p.key = q.key => p = q
    BY <2>6
  <2> QED BY <2>2, <2>3, <2>5, <2>6, <2>7, <2>8 DEF IndicatorsMatchSeries, items
<1> QED BY <1>1, InvariantKept, InitPlots, StepPlots, PTL DEF Spec
=============================================================================
