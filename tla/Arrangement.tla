---------------------------- MODULE Arrangement ----------------------------
(***************************************************************************)
(* sorted() with a key, as the arrangement of a finite set in an order, so *)
(* that what it returns can be reasoned about.                             *)
(***************************************************************************)
EXTENDS Integers, FiniteSets

\* The elements of S in the order R, a set of pairs.
Arranged(S, R) ==
  CHOOSE s \in [1 .. Cardinality(S) -> S] :
    \A i, j \in 1 .. Cardinality(S) : i < j => <<s[i], s[j]>> \in R

Ascending(S) == Arranged(S, {x \in S \X S : x[1] < x[2]})

\* The elements of a sequence at the positions that `order` lists.
Along(rs, order) == [i \in DOMAIN order |-> rs[order[i]]]
=============================================================================
