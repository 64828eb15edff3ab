------------------------------ MODULE Ordering ------------------------------
(***************************************************************************)
(* Lists that are sorted and filtered (Array.prototype.sort and filter).   *)
(* The elements are placed by how many come before them, which says what   *)
(* the list is without saying how an engine gets there.                    *)
(***************************************************************************)
EXTENDS Integers, Sequences, FiniteSets

\* The elements of S in the order R, a set of pairs.  (The empty list has TLC
\* compute the elements at once and not at each use.)
Arranged(S, R) ==
  [n \in 1..Cardinality(S) |->
     CHOOSE x \in S : Cardinality({y \in S : <<y, x>> \in R}) = n - 1] \o <<>>

\* The element of S before all others.
Least(S, R) == CHOOSE x \in S : \A y \in S \ {x} : <<x, y>> \in R

\* The elements of a list at the given places.
Sublist(list, places) ==
  LET order == Arranged(places, {p \in places \X places : p[1] < p[2]})
  IN [n \in 1..Cardinality(places) |-> list[order[n]]]

\* The sums of the beginnings of a list of numbers, and the sum of them all
\* (Array.prototype.reduce).
RunningSum(list) ==
  LET upTo[n \in 0..Len(list)] == IF n = 0 THEN 0 ELSE upTo[n - 1] + list[n]
  IN upTo

SumOf(list) == RunningSum(list)[Len(list)]
=============================================================================
