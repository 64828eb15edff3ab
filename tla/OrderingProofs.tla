---------------------------- MODULE OrderingProofs ----------------------------
(***************************************************************************)
(* What the lists of Ordering are.                                         *)
(***************************************************************************)
EXTENDS Ordering, FiniteSetTheorems, TLAPS

\* R orders the elements of S, all of them and strictly.
StrictOrder(S, R) ==
  /\ \A x \in S : <<x, x>> \notin R
  /\ \A x, y \in S : x # y => <<x, y>> \in R \/ <<y, x>> \in R
  /\ \A x, y, z \in S : <<x, y>> \in R /\ <<y, z>> \in R => <<x, z>> \in R

\* What a function makes of finitely many elements is finite.
LEMMA FiniteImage ==
  ASSUME NEW S, IsFiniteSet(S), NEW f, NEW T, T = {f[x] : x \in S}
  PROVE  IsFiniteSet(T)
<1> DEFINE g == [x \in S |-> f[x]]
<1>1. g \in Surjection(S, T)
  BY DEF Surjection
<1>. QED
  BY <1>1, FS_Surjection

\* How many elements come before x.
Rank(S, R, x) == Cardinality({y \in S : <<y, x>> \in R})

LEMMA RankRises ==
  ASSUME NEW S, IsFiniteSet(S), NEW R, StrictOrder(S, R),
         NEW x \in S, NEW y \in S, <<x, y>> \in R
  PROVE  Rank(S, R, x) \in Nat /\ Rank(S, R, y) \in Nat /\ Rank(S, R, x) < Rank(S, R, y)
<1> DEFINE X == {z \in S : <<z, x>> \in R}
           Y == {z \in S : <<z, y>> \in R}
<1>1. IsFiniteSet(X) /\ IsFiniteSet(Y)
  BY FS_Subset
<1>2. X \subseteq Y /\ x \in Y /\ x \notin X
  BY DEF StrictOrder
<1>3. Cardinality(X) \in Nat /\ Cardinality(Y) \in Nat
  BY <1>1, FS_CardinalityType
<1>4. Cardinality(X) <= Cardinality(Y) /\ Cardinality(X) # Cardinality(Y)
  BY <1>1, <1>2, FS_Subset
<1>. QED
  BY <1>3, <1>4 DEF Rank

LEMMA RankInRange ==
  ASSUME NEW S, IsFiniteSet(S), NEW R, StrictOrder(S, R), NEW x \in S
  PROVE  Rank(S, R, x) \in 0..(Cardinality(S) - 1)
<1> DEFINE X == {z \in S : <<z, x>> \in R}
<1>1. IsFiniteSet(X) /\ Cardinality(X) \in Nat /\ Cardinality(S) \in Nat
  BY FS_Subset, FS_CardinalityType
<1>2. X \subseteq S /\ x \notin X
  BY DEF StrictOrder
<1>3. Cardinality(X) <= Cardinality(S) /\ Cardinality(X) # Cardinality(S)
  BY <1>2, FS_Subset
<1>. QED
  BY <1>1, <1>3 DEF Rank

\* Every place is taken by exactly one element.
LEMMA RankTaken ==
  ASSUME NEW S, IsFiniteSet(S), NEW R, StrictOrder(S, R)
  PROVE  /\ Cardinality(S) \in Nat
         /\ \A n \in 1..Cardinality(S) : \E x \in S : Rank(S, R, x) = n - 1
         /\ \A x, y \in S : Rank(S, R, x) = Rank(S, R, y) => x = y
<1> DEFINE N == Cardinality(S)
           T == 0..(N - 1)
           f == [x \in S |-> Rank(S, R, x)]
<1>1. N \in Nat
  BY FS_CardinalityType
<1>2. \A x, y \in S : Rank(S, R, x) = Rank(S, R, y) => x = y
  <2> SUFFICES ASSUME NEW x \in S, NEW y \in S, Rank(S, R, x) = Rank(S, R, y), x # y
               PROVE  FALSE
    OBVIOUS
  <2>1. <<x, y>> \in R \/ <<y, x>> \in R
    BY DEF StrictOrder
  <2>. QED
    BY <2>1, RankRises
<1>3. f \in [S -> T]
  BY RankInRange
<1>4. f \in Injection(S, T)
  BY <1>2, <1>3 DEF Injection, IsInjective
<1>5. IsFiniteSet(T) /\ Cardinality(T) = N
  <2>1. 0 \in Int /\ N - 1 \in Int
    BY <1>1
  <2>. QED
    BY <1>1, <2>1, FS_Interval
<1>6. f \in Surjection(S, T)
  BY <1>4, <1>5, FS_Injection
<1>7. ASSUME NEW n \in 1..N PROVE \E x \in S : Rank(S, R, x) = n - 1
  <2>1. n - 1 \in T
    BY <1>1
  <2>. QED
    BY <2>1, <1>6 DEF Surjection
<1>. QED
  BY <1>1, <1>2, <1>7

\* Of a set that is not empty one element is before all others.
LEMMA LeastIs ==
  ASSUME NEW S, IsFiniteSet(S), S # {}, NEW R, StrictOrder(S, R)
  PROVE  /\ Least(S, R) \in S
         /\ \A y \in S \ {Least(S, R)} : <<Least(S, R), y>> \in R
<1>1. Cardinality(S) \in Nat /\ Cardinality(S) # 0
  BY FS_CardinalityType, FS_EmptySet
<1>2. 1 \in 1..Cardinality(S)
  BY <1>1
<1>3. PICK x \in S : Rank(S, R, x) = 1 - 1
  BY <1>2, RankTaken
<1>4. ASSUME NEW y \in S, y # x PROVE <<x, y>> \in R
  <2>1. <<y, x>> \notin R
    <3> SUFFICES ASSUME <<y, x>> \in R PROVE FALSE
      OBVIOUS
    <3>. QED
      BY <1>3, RankRises
  <2>. QED
    BY <1>4, <2>1 DEF StrictOrder
<1>5. \E z \in S : \A y \in S \ {z} : <<z, y>> \in R
  BY <1>4
<1>. QED
  BY <1>5 DEF Least

LEMMA ArrangedIs ==
  ASSUME NEW S, IsFiniteSet(S), NEW R, StrictOrder(S, R), NEW s, s = Arranged(S, R)
  PROVE  /\ s \in Seq(S) /\ Len(s) = Cardinality(S) /\ Cardinality(S) \in Nat
         /\ DOMAIN s = 1..Cardinality(S)
         /\ \A n \in DOMAIN s : Rank(S, R, s[n]) = n - 1
         /\ \A x \in S : \E n \in DOMAIN s : s[n] = x
         /\ \A i, j \in DOMAIN s : i < j => <<s[i], s[j]>> \in R
<1> DEFINE N == Cardinality(S)
<1>1. /\ N \in Nat
      /\ \A n \in 1..N : \E x \in S : Rank(S, R, x) = n - 1
      /\ \A x, y \in S : Rank(S, R, x) = Rank(S, R, y) => x = y
  BY RankTaken
<1> DEFINE f == [n \in 1..N |-> CHOOSE x \in S : Rank(S, R, x) = n - 1]
<1>2. \A n \in 1..N : f[n] \in S /\ Rank(S, R, f[n]) = n - 1
  BY <1>1
<1>3. s = f /\ \A n \in 1..N : s[n] \in S /\ Rank(S, R, s[n]) = n - 1
  <2>1. s = f \o <<>>
    BY DEF Arranged, Rank
  <2>2. f \in Seq(S)
    BY <1>1, <1>2
  <2> HIDE DEF f
  <2>3. f \o <<>> = f
    BY <2>2
  <2>. QED
    BY <1>2, <2>1, <2>3
<1>4. DOMAIN s = 1..N /\ s \in [1..N -> S]
  BY <1>3
<1>5. s \in Seq(S) /\ Len(s) = N
  BY <1>1, <1>4
<1>6. ASSUME NEW x \in S PROVE \E n \in 1..N : s[n] = x
  <2>1. Rank(S, R, x) \in 0..(N - 1)
    BY RankInRange
  <2>2. Rank(S, R, x) + 1 \in 1..N /\ (Rank(S, R, x) + 1) - 1 = Rank(S, R, x)
    BY <2>1, <1>1
  <2>3. Rank(S, R, s[Rank(S, R, x) + 1]) = Rank(S, R, x) /\ s[Rank(S, R, x) + 1] \in S
    BY <1>3, <2>2
  <2>. QED
    BY <1>1, <2>2, <2>3
<1>7. ASSUME NEW i \in 1..N, NEW j \in 1..N, i < j PROVE <<s[i], s[j]>> \in R
  <2>1. /\ s[i] \in S /\ s[j] \in S
        /\ Rank(S, R, s[i]) = i - 1 /\ Rank(S, R, s[j]) = j - 1
    BY <1>3
  <2>2. Rank(S, R, s[i]) < Rank(S, R, s[j])
    <3>0. N \in Int
      BY <1>1
    <3> HIDE DEF N
    <3>1. i \in Int /\ j \in Int /\ i - 1 < j - 1
      BY <3>0, <1>7
    <3>. QED
      BY <2>1, <3>1
  <2>3. Rank(S, R, s[i]) \in Nat /\ Rank(S, R, s[j]) \in Nat
    BY <2>1, <1>1
  <2>4. s[i] # s[j]
    BY <2>2, <2>3
  <2>5. <<s[j], s[i]>> \in R => Rank(S, R, s[j]) < Rank(S, R, s[i])
    BY <2>1, RankRises
  <2>6. <<s[j], s[i]>> \notin R
    BY <2>2, <2>3, <2>5
  <2>. QED
    BY <2>1, <2>4, <2>6 DEF StrictOrder
<1>. QED
  BY <1>1, <1>3, <1>4, <1>5, <1>6, <1>7

\* What comes earlier in s has an earlier one of the places of list.
InPlaceOrder(s, list, places) ==
  \A i, j \in DOMAIN s : i < j =>
    \E p, q \in places : p < q /\ s[i] = list[p] /\ s[j] = list[q]

\* The order of the numbers arranges them, and picks the places of a list.
LEMMA SublistIs ==
  ASSUME NEW m \in Nat, NEW T, NEW list \in [1..m -> T], NEW places \in SUBSET (1..m),
         NEW s, s = Sublist(list, places)
  PROVE  /\ s \in Seq(T) /\ Len(s) = Cardinality(places) /\ Len(s) <= m
         /\ \A n \in DOMAIN s : \E p \in places : s[n] = list[p]
         /\ \A p \in places : \E n \in DOMAIN s : s[n] = list[p]
         /\ InPlaceOrder(s, list, places)
<1> DEFINE R == {p \in places \X places : p[1] < p[2]}
           g == Arranged(places, R)
<1>1. IsFiniteSet(places) /\ Cardinality(places) <= m
  <2>1. IsFiniteSet(1..m) /\ Cardinality(1..m) = m
    BY FS_Interval
  <2>2. IsFiniteSet(places) /\ Cardinality(places) <= Cardinality(1..m)
    BY <2>1, FS_Subset
  <2>. QED
    BY <2>1, <2>2
<1>2. StrictOrder(places, R)
  BY DEF StrictOrder
<1>3. /\ g \in Seq(places) /\ Len(g) = Cardinality(places) /\ Cardinality(places) \in Nat
      /\ DOMAIN g = 1..Cardinality(places)
      /\ \A x \in places : \E n \in DOMAIN g : g[n] = x
      /\ \A i, j \in DOMAIN g : i < j => <<g[i], g[j]>> \in R
  <2>1. g = Arranged(places, R)
    OBVIOUS
  <2>. HIDE DEF g, R
  <2>. QED
    BY <1>1, <1>2, <2>1, ArrangedIs
<1>4. s = [n \in 1..Cardinality(places) |-> list[g[n]]]
  BY DEF Sublist
<1>5. \A n \in DOMAIN g : g[n] \in places
  BY <1>3
<1>6. \A i, j \in DOMAIN g : i < j => g[i] < g[j]
  BY <1>3
<1>7. s \in [1..Cardinality(places) -> T]
  BY <1>3, <1>4, <1>5
<1>8. s \in Seq(T) /\ Len(s) = Cardinality(places) /\ DOMAIN s = DOMAIN g
  BY <1>3, <1>4, <1>7
<1>9. \A n \in DOMAIN s : s[n] = list[g[n]]
  BY <1>3, <1>4, <1>8
<1>10. \A n \in DOMAIN s : \E p \in places : s[n] = list[p]
  BY <1>5, <1>8, <1>9
<1>11. \A p \in places : \E n \in DOMAIN s : s[n] = list[p]
  BY <1>3, <1>8, <1>9
<1>12. ASSUME NEW i \in DOMAIN s, NEW j \in DOMAIN s, i < j
       PROVE  \E p, q \in places : p < q /\ s[i] = list[p] /\ s[j] = list[q]
  <2>1. g[i] \in places /\ g[j] \in places /\ g[i] < g[j]
    BY <1>5, <1>6, <1>8, <1>12
  <2>. QED
    BY <2>1, <1>9
<1>13. InPlaceOrder(s, list, places)
  BY <1>12 DEF InPlaceOrder
<1>14. Len(s) = Cardinality(places) /\ Len(s) <= m
  BY <1>1, <1>8
<1>. QED
  BY <1>8, <1>10, <1>11, <1>13, <1>14

\* The list s of length m has all elements of S in the order R.
Enumerates(s, m, S, R) ==
  /\ s \in [1..m -> S]
  /\ \A i, j \in 1..m : i < j => <<s[i], s[j]>> \in R
  /\ \A x \in S : \E i \in 1..m : s[i] = x

LEMMA RankInList ==
  ASSUME NEW S, NEW R, StrictOrder(S, R), NEW m \in Nat, NEW s, Enumerates(s, m, S, R)
  PROVE  /\ IsFiniteSet(S) /\ Cardinality(S) = m
         /\ \A i \in 1..m : Rank(S, R, s[i]) = i - 1
<1>0. /\ s \in [1..m -> S]
      /\ \A i, j \in 1..m : i < j => <<s[i], s[j]>> \in R
      /\ \A x \in S : \E i \in 1..m : s[i] = x
  BY DEF Enumerates
<1>1. \A i, j \in 1..m : i # j => s[i] # s[j]
  <2> SUFFICES ASSUME NEW i \in 1..m, NEW j \in 1..m, i < j PROVE s[i] # s[j]
    OBVIOUS
  <2>. QED
    BY <1>0 DEF StrictOrder
<1>2. \A i, j \in 1..m : <<s[i], s[j]>> \in R => i < j
  <2> SUFFICES ASSUME NEW i \in 1..m, NEW j \in 1..m, ~(i < j) PROVE <<s[i], s[j]>> \notin R
    OBVIOUS
  <2>1. CASE i = j
    BY <1>0, <2>1 DEF StrictOrder
  <2>2. CASE j < i
    <3>1. <<s[j], s[i]>> \in R /\ s[i] \in S /\ s[j] \in S
      BY <1>0, <2>2
    <3>. QED
      BY <3>1 DEF StrictOrder
  <2>. QED
    BY <2>1, <2>2
<1>3. s \in Bijection(1..m, S)
  BY <1>0, <1>1 DEF Bijection, Injection, Surjection, IsInjective
<1>4. IsFiniteSet(1..m) /\ Cardinality(1..m) = m
  BY FS_Interval
<1>5. IsFiniteSet(S) /\ Cardinality(S) = m
  BY <1>3, <1>4, FS_Bijection DEF ExistsBijection
<1>6. ASSUME NEW i \in 1..m PROVE Rank(S, R, s[i]) = i - 1
  <2> DEFINE X == {y \in S : <<y, s[i]>> \in R}
             t == [j \in 1..(i - 1) |-> s[j]]
  <2>1. \A j \in 1..(i - 1) : j \in 1..m /\ j < i
    OBVIOUS
  <2>2. t \in [1..(i - 1) -> X]
    BY <1>0, <2>1
  <2>3. \A y \in X : \E j \in 1..(i - 1) : t[j] = y
    <3> SUFFICES ASSUME NEW y \in X PROVE \E j \in 1..(i - 1) : s[j] = y
      OBVIOUS
    <3>1. PICK j \in 1..m : s[j] = y
      BY <1>0
    <3>2. j < i
      BY <3>1, <1>2
    <3>. QED
      BY <3>1, <3>2
  <2>4. \A j, k \in 1..(i - 1) : t[j] = t[k] => j = k
    BY <1>1, <2>1
  <2>5. t \in Bijection(1..(i - 1), X)
    BY <2>2, <2>3, <2>4 DEF Bijection, Injection, Surjection, IsInjective
  <2>6. IsFiniteSet(1..(i - 1)) /\ Cardinality(1..(i - 1)) = i - 1
    BY FS_Interval
  <2>. QED
    BY <2>5, <2>6, FS_Bijection DEF ExistsBijection, Rank
<1>. QED
  BY <1>5, <1>6

\* Two lists of the same elements in the same order are one.
LEMMA SameArrangement ==
  ASSUME NEW S, NEW R, StrictOrder(S, R),
         NEW m \in Nat, NEW s, Enumerates(s, m, S, R), NEW n \in Nat, NEW t, Enumerates(t, n, S, R)
  PROVE  s = t
<1>1. /\ IsFiniteSet(S) /\ Cardinality(S) = m
      /\ \A i \in 1..m : Rank(S, R, s[i]) = i - 1
  BY RankInList
<1>2. Cardinality(S) = n /\ \A i \in 1..n : Rank(S, R, t[i]) = i - 1
  BY RankInList
<1>3. \A x, y \in S : Rank(S, R, x) = Rank(S, R, y) => x = y
  BY <1>1, RankTaken
<1>4. s \in [1..m -> S] /\ t \in [1..m -> S]
  BY <1>1, <1>2 DEF Enumerates
<1>5. \A i \in 1..m : s[i] = t[i]
  BY <1>1, <1>2, <1>3, <1>4
<1>. QED
  BY <1>4, <1>5

-----------------------------------------------------------------------------
(* Sums.  What holds of 0 and of each number that follows one it holds of  *)
(* holds of all; so a function may be defined by recursion.                *)

LEMMA EachNumber ==
  ASSUME NEW S, 0 \in S, \A n \in Nat : n \in S => n + 1 \in S
  PROVE  \A n \in Nat : n \in S
<1> SUFFICES ASSUME NEW n \in Nat, n \notin S PROVE FALSE
  OBVIOUS
<1> DEFINE bad == {k \in 0..n : k \notin S}
           R == {p \in bad \X bad : p[1] < p[2]}
           m == Least(bad, R)
<1>1. bad # {} /\ bad \subseteq Nat
  OBVIOUS
<1>2. IsFiniteSet(bad)
  <2>1. IsFiniteSet(0..n)
    BY FS_Interval
  <2>. QED
    BY <2>1, FS_Subset
<1>3. StrictOrder(bad, R)
  <2>. HIDE DEF bad
  <2>. QED
    BY <1>1 DEF StrictOrder
<1>4. m \in bad /\ \A k \in bad \ {m} : <<m, k>> \in R
  <2>. HIDE DEF bad, R
  <2>. QED
    BY <1>1, <1>2, <1>3, LeastIs
<1>. HIDE DEF m
<1>5. m \in 0..n /\ m \notin S /\ m # 0
  BY <1>4
<1>6. m - 1 \in 0..n /\ m - 1 \in Nat /\ (m - 1) + 1 = m
  BY <1>5
<1>7. m - 1 \notin bad
  <2> SUFFICES ASSUME m - 1 \in bad PROVE FALSE
    OBVIOUS
  <2>1. <<m, m - 1>> \in R
    BY <1>4, <1>5
  <2>2. m < m - 1
    <3>. HIDE DEF bad
    <3>. QED
      BY <2>1
  <2>. QED
    BY <1>5, <2>2
<1>. QED
  BY <1>5, <1>6, <1>7

\* The same up to a number.
LEMMA EachUpTo ==
  ASSUME NEW m \in Nat, NEW S, 0 \in S, \A n \in 1..m : n - 1 \in S => n \in S
  PROVE  \A n \in 0..m : n \in S
<1> DEFINE X == {k \in Nat : k <= m => k \in S}
<1>1. 0 \in X
  OBVIOUS
<1>2. ASSUME NEW n \in Nat, n \in X PROVE n + 1 \in X
  <2>1. CASE n + 1 <= m
    <3>1. n + 1 \in 1..m /\ (n + 1) - 1 = n /\ n \in S
      BY <1>2, <2>1
    <3> QED BY <3>1
  <2>2. CASE ~(n + 1 <= m)
    BY <2>2
  <2> QED BY <2>1, <2>2
<1>3. \A n \in Nat : n \in X
  <2> HIDE DEF X
  <2> QED BY <1>1, <1>2, EachNumber
<1> QED BY <1>3

\* A function on 0..n from its first value and a step.
Recursive(f, n, T, base, step) ==
  /\ f \in [0..n -> T]
  /\ f[0] = base
  /\ \A i \in 1..n : f[i] = step[<<f[i - 1], i>>]

LEMMA RecursionStep ==
  ASSUME NEW k \in Nat, NEW n \in Nat, k + 1 <= n, NEW T, NEW base \in T,
         NEW step \in [T \X (1..n) -> T], NEW f, Recursive(f, k, T, base, step)
  PROVE  \E g : Recursive(g, k + 1, T, base, step)
<1> DEFINE g == [i \in 0..(k + 1) |-> IF i = k + 1 THEN step[<<f[k], k + 1>>] ELSE f[i]]
<1>1. /\ f \in [0..k -> T] /\ f[0] = base
      /\ \A i \in 1..k : f[i] = step[<<f[i - 1], i>>]
  BY DEF Recursive
<1>2. f[k] \in T /\ k + 1 \in 1..n
  BY <1>1
<1>3. step[<<f[k], k + 1>>] \in T
  BY <1>2
<1>4. g \in [0..(k + 1) -> T]
  <2>1. \A i \in 0..(k + 1) : i = k + 1 \/ i \in 0..k
    OBVIOUS
  <2>. QED
    BY <1>1, <1>3, <2>1
<1>5. \A i \in 0..k : g[i] = f[i]
  OBVIOUS
<1>6. g[k + 1] = step[<<g[k], k + 1>>]
  <2>1. k \in 0..k /\ k + 1 \in 0..(k + 1)
    OBVIOUS
  <2>2. g[k] = f[k]
    BY <1>5, <2>1
  <2>3. g[k + 1] = step[<<f[k], k + 1>>]
    BY <2>1
  <2>. QED
    BY <2>2, <2>3
<1>7. g[0] = base
  BY <1>1, <1>5
<1>. HIDE DEF g
<1>8. ASSUME NEW i \in 1..(k + 1) PROVE g[i] = step[<<g[i - 1], i>>]
  <2>1. CASE i = k + 1
    <3>1. i - 1 = k
      BY <2>1
    <3>. QED
      BY <1>6, <2>1, <3>1
  <2>2. CASE i # k + 1
    <3>1. i \in 1..k /\ i \in 0..k /\ i - 1 \in 0..k
      BY <2>2
    <3>. QED
      BY <1>1, <1>5, <3>1
  <2>. QED
    BY <2>1, <2>2
<1>. QED
  BY <1>4, <1>7, <1>8 DEF Recursive

LEMMA Recursion ==
  ASSUME NEW n \in Nat, NEW T, NEW base \in T, NEW step \in [T \X (1..n) -> T]
  PROVE  \E f : Recursive(f, n, T, base, step)
<1> DEFINE S == {k \in Nat : k <= n => \E f : Recursive(f, k, T, base, step)}
<1>1. 0 \in S
  <2>1. Recursive([i \in 0..0 |-> base], 0, T, base, step)
    BY DEF Recursive
  <2>. QED
    BY <2>1
<1>2. ASSUME NEW k \in Nat, k \in S PROVE k + 1 \in S
  <2>1. CASE k + 1 <= n
    <3>1. \E f : Recursive(f, k, T, base, step)
      BY <1>2, <2>1
    <3>2. \E g : Recursive(g, k + 1, T, base, step)
      BY <2>1, <3>1, RecursionStep
    <3>. QED
      BY <3>2
  <2>2. CASE ~(k + 1 <= n)
    BY <2>2
  <2>. QED
    BY <2>1, <2>2
<1>3. \A k \in Nat : k \in S
  <2>. HIDE DEF S
  <2>. QED
    BY <1>1, <1>2, EachNumber
<1>. QED
  BY <1>3

\* The sums of the beginnings of a list.
Sums(sums, list, m) ==
  /\ sums \in [0..m -> Int]
  /\ sums[0] = 0
  /\ \A n \in 1..m : sums[n] = sums[n - 1] + list[n]

LEMMA RunningSumIs ==
  ASSUME NEW m \in Nat, NEW list \in [1..m -> Int]
  PROVE  Sums(RunningSum(list), list, m) /\ SumOf(list) = RunningSum(list)[m]
<1> DEFINE upTo == CHOOSE f : f = [n \in 0..m |-> IF n = 0 THEN 0 ELSE f[n - 1] + list[n]]
           step == [p \in Int \X (1..m) |-> p[1] + list[p[2]]]
<1>1. Len(list) = m
  OBVIOUS
<1>2. RunningSum(list) = upTo /\ SumOf(list) = RunningSum(list)[m]
  BY <1>1 DEF RunningSum, SumOf
<1>3. step \in [Int \X (1..m) -> Int]
  OBVIOUS
<1>4. PICK f : Recursive(f, m, Int, 0, step)
  <2>1. 0 \in Int
    OBVIOUS
  <2>. HIDE DEF step
  <2>. QED
    BY <1>3, <2>1, Recursion
<1>5. /\ f \in [0..m -> Int] /\ f[0] = 0
      /\ \A n \in 1..m : f[n] = f[n - 1] + list[n]
  <2>1. f \in [0..m -> Int] /\ f[0] = 0
    BY <1>4 DEF Recursive
  <2>2. ASSUME NEW n \in 1..m PROVE f[n] = f[n - 1] + list[n]
    <3>1. f[n - 1] \in Int
      BY <2>1
    <3>2. step[<<f[n - 1], n>>] = f[n - 1] + list[n]
      BY <3>1
    <3>. QED
      BY <1>4, <3>2 DEF Recursive
  <2>. QED
    BY <2>1, <2>2
<1>6. f = [n \in 0..m |-> IF n = 0 THEN 0 ELSE f[n - 1] + list[n]]
  <2>1. \A n \in 0..m : f[n] = IF n = 0 THEN 0 ELSE f[n - 1] + list[n]
    BY <1>5
  <2>. QED
    BY <1>5, <2>1
<1>7. upTo = [n \in 0..m |-> IF n = 0 THEN 0 ELSE upTo[n - 1] + list[n]]
  BY <1>6
<1>. HIDE DEF upTo
<1>8. /\ upTo[0] = 0
      /\ \A n \in 1..m : upTo[n] = upTo[n - 1] + list[n]
  BY <1>7
<1> DEFINE S == {n \in Nat : n <= m => upTo[n] \in Int}
<1>9. \A n \in Nat : n \in S
  <2>1. 0 \in S
    BY <1>8
  <2>2. ASSUME NEW n \in Nat, n \in S PROVE n + 1 \in S
    <3>1. CASE n + 1 <= m
      <4>1. upTo[n] \in Int /\ n + 1 \in 1..m /\ (n + 1) - 1 = n
        BY <2>2, <3>1
      <4>2. upTo[n + 1] = upTo[n] + list[n + 1]
        BY <1>8, <4>1
      <4>3. upTo[n + 1] \in Int
        BY <4>1, <4>2
      <4>. QED
        BY <4>3
    <3>2. CASE ~(n + 1 <= m)
      BY <3>2
    <3>. QED
      BY <3>1, <3>2
  <2>. HIDE DEF S
  <2>. QED
    BY <2>1, <2>2, EachNumber
<1>10. upTo \in [0..m -> Int]
  <2>1. \A n \in 0..m : upTo[n] \in Int
    BY <1>9
  <2>. QED
    BY <1>7, <2>1
<1>. QED
  BY <1>2, <1>8, <1>10 DEF Sums

\* There is one such function.
LEMMA OneSum ==
  ASSUME NEW m \in Nat, NEW list, NEW f, Sums(f, list, m), NEW g, Sums(g, list, m)
  PROVE  f = g
<1>1. /\ f \in [0..m -> Int] /\ f[0] = 0 /\ \A n \in 1..m : f[n] = f[n - 1] + list[n]
      /\ g \in [0..m -> Int] /\ g[0] = 0 /\ \A n \in 1..m : g[n] = g[n - 1] + list[n]
  BY DEF Sums
<1> DEFINE S == {n \in Nat : n <= m => f[n] = g[n]}
<1>2. 0 \in S
  BY <1>1
<1>3. ASSUME NEW n \in Nat, n \in S PROVE n + 1 \in S
  <2>1. CASE n + 1 <= m
    <3>1. f[n] = g[n] /\ n + 1 \in 1..m /\ (n + 1) - 1 = n
      BY <1>3, <2>1
    <3>2. f[n + 1] = f[n] + list[n + 1] /\ g[n + 1] = g[n] + list[n + 1]
      BY <1>1, <3>1
    <3>. QED
      BY <3>1, <3>2
  <2>2. CASE ~(n + 1 <= m)
    BY <2>2
  <2>. QED
    BY <2>1, <2>2
<1>4. \A n \in Nat : n \in S
  <2>. HIDE DEF S
  <2>. QED
    BY <1>2, <1>3, EachNumber
<1>5. \A n \in 0..m : f[n] = g[n]
  BY <1>4
<1>. QED
  BY <1>1, <1>5

\* So a sum is what such a function ends with.
LEMMA SumIs ==
  ASSUME NEW m \in Nat, NEW list \in [1..m -> Int], NEW f, Sums(f, list, m)
  PROVE  RunningSum(list) = f /\ SumOf(list) = f[m]
<1>1. Sums(RunningSum(list), list, m) /\ SumOf(list) = RunningSum(list)[m]
  BY RunningSumIs
<1>2. RunningSum(list) = f
  <2> DEFINE g == RunningSum(list)
  <2>. HIDE DEF g
  <2>1. Sums(g, list, m)
    BY <1>1 DEF g
  <2>2. g = f
    BY <2>1, OneSum
  <2>. QED
    BY <2>2 DEF g
<1>. QED
  BY <1>1, <1>2

\* The sum over some places of a list is that of the whole, with 0 elsewhere.
LEMMA SublistSum ==
  ASSUME NEW m \in Nat, NEW list \in [1..m -> Int], NEW places \in SUBSET (1..m)
  PROVE  SumOf(Sublist(list, places)) = SumOf([i \in 1..m |-> IF i \in places THEN list[i] ELSE 0])
<1> DEFINE R == {p \in places \X places : p[1] < p[2]}
           g == Arranged(places, R)
           N == Cardinality(places)
           upTo(i) == places \cap (1..i)
           sub == Sublist(list, places)
           masked == [i \in 1..m |-> IF i \in places THEN list[i] ELSE 0]
           S == RunningSum(sub)
           f == [i \in 0..m |-> S[Cardinality(upTo(i))]]
<1>1. IsFiniteSet(places)
  <2>1. IsFiniteSet(1..m)
    BY FS_Interval
  <2>. QED
    BY <2>1, FS_Subset
<1>2. /\ g \in Seq(places) /\ N \in Nat /\ DOMAIN g = 1..N
      /\ \A n \in 1..N : Rank(places, R, g[n]) = n - 1
      /\ \A x \in places : \E n \in 1..N : g[n] = x
  <2>1. StrictOrder(places, R)
    BY DEF StrictOrder
  <2>2. g = Arranged(places, R)
    OBVIOUS
  <2>. HIDE DEF g, R
  <2>. QED
    BY <1>1, <2>1, <2>2, ArrangedIs
<1>3. \A i \in Int : /\ IsFiniteSet(upTo(i)) /\ Cardinality(upTo(i)) \in 0..N
  <2>. TAKE i \in Int
  <2>1. upTo(i) \subseteq places
    OBVIOUS
  <2>2. IsFiniteSet(upTo(i)) /\ Cardinality(upTo(i)) <= N
    BY <1>1, <2>1, FS_Subset
  <2>3. Cardinality(upTo(i)) \in Nat
    BY <2>2, FS_CardinalityType
  <2>. QED
    BY <1>2, <2>2, <2>3
<1>4. sub = [n \in 1..N |-> list[g[n]]]
  BY DEF Sublist
<1>5. sub \in [1..N -> Int]
  <2>0. \A n \in 1..N : g[n] \in places
    <3>. HIDE DEF g, N, R
    <3>. QED
      BY <1>2
  <2>1. \A n \in 1..N : g[n] \in 1..m
    BY <2>0
  <2>2. \A n \in 1..N : list[g[n]] \in Int
    BY <2>1
  <2>. QED
    BY <1>4, <2>2
<1>6. masked \in [1..m -> Int] /\ \A i \in 1..m : masked[i] = IF i \in places THEN list[i] ELSE 0
  OBVIOUS
<1>. HIDE DEF g, N, sub, masked
<1>7. Sums(S, sub, N) /\ SumOf(sub) = S[N]
  BY <1>2, <1>5, RunningSumIs
<1>. HIDE DEF S
<1>8. S \in [0..N -> Int] /\ S[0] = 0 /\ \A n \in 1..N : S[n] = S[n - 1] + sub[n]
  BY <1>7 DEF Sums
<1>9. f \in [0..m -> Int] /\ \A i \in 0..m : f[i] = S[Cardinality(upTo(i))]
  <2>1. \A i \in 0..m : Cardinality(upTo(i)) \in 0..N
    <3>. HIDE DEF upTo
    <3>. QED
      BY <1>3
  <2>2. \A i \in 0..m : S[Cardinality(upTo(i))] \in Int
    <3>. HIDE DEF upTo
    <3>. QED
      BY <1>8, <2>1
  <2>. QED
    BY <2>2
<1>. HIDE DEF f
<1>10. f[0] = 0
  <2>1. upTo(0) = {}
    OBVIOUS
  <2>2. Cardinality({}) = 0
    BY FS_EmptySet
  <2>3. f[0] = S[Cardinality(upTo(0))]
    BY <1>9
  <2>. QED
    BY <1>8, <2>1, <2>2, <2>3
<1>11. ASSUME NEW i \in 1..m PROVE f[i] = f[i - 1] + masked[i]
  <2>1. i \in 0..m /\ i - 1 \in 0..m /\ i - 1 \in Int /\ i \in Int
    OBVIOUS
  <2>2. CASE i \notin places
    <3>1. upTo(i) = upTo(i - 1)
      BY <2>2
    <3>2. f[i] = f[i - 1] /\ masked[i] = 0
      BY <1>6, <1>9, <2>1, <2>2, <3>1
    <3>3. f[i - 1] \in Int
      BY <1>9, <2>1
    <3>. QED
      BY <3>2, <3>3
  <2>3. CASE i \in places
    <3>1. PICK n \in 1..N : g[n] = i
      BY <1>2, <2>3
    <3>2. Rank(places, R, i) = n - 1
      BY <1>2, <3>1
    <3>3. {y \in places : <<y, i>> \in R} = upTo(i - 1)
      <4>1. \A y \in places : <<y, i>> \in R <=> y < i
        BY <2>3
      <4>2. \A y \in places : y < i <=> y \in 1..(i - 1)
        OBVIOUS
      <4>. HIDE DEF R
      <4>. QED
        BY <4>1, <4>2
    <3>4. Cardinality(upTo(i - 1)) = n - 1
      BY <3>2, <3>3 DEF Rank
    <3>5. Cardinality(upTo(i)) = n
      <4>1. upTo(i) = upTo(i - 1) \cup {i} /\ i \notin upTo(i - 1)
        BY <2>3
      <4>2. IsFiniteSet(upTo(i - 1))
        BY <1>3, <2>1
      <4>3. Cardinality(upTo(i - 1) \cup {i}) = Cardinality(upTo(i - 1)) + 1
        <5>. HIDE DEF upTo
        <5>. QED
          BY <4>1, <4>2, FS_AddElement
      <4>. HIDE DEF upTo
      <4>. QED
        BY <1>2, <3>4, <4>1, <4>3
    <3>6. f[i] = S[n] /\ f[i - 1] = S[n - 1]
      BY <1>9, <2>1, <3>4, <3>5
    <3>7. sub[n] = list[i] /\ masked[i] = list[i]
      BY <1>4, <1>6, <2>3, <3>1
    <3>. QED
      BY <1>8, <3>1, <3>6, <3>7
  <2>. QED
    BY <2>2, <2>3
<1>12. SumOf(masked) = f[m]
  <2>1. Sums(f, masked, m)
    BY <1>9, <1>10, <1>11 DEF Sums
  <2>. QED
    BY <1>6, <2>1, SumIs
<1>13. f[m] = S[N]
  <2>0. m \in 0..m
    OBVIOUS
  <2>1. upTo(m) = places
    <3>1. places \subseteq 1..m
      OBVIOUS
    <3>. QED
      BY <3>1, Zenon
  <2>2. Cardinality(upTo(m)) = N
    BY <2>1 DEF N
  <2>. QED
    BY <1>9, <2>0, <2>2
<1>. QED
  BY <1>7, <1>12, <1>13 DEF sub, masked
=============================================================================
