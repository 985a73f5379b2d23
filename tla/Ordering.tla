------------------------------ MODULE Ordering ------------------------------
(* The loops of the code that keep the order of what they walk and leave some *)
(* of it out: the positions they keep are a set of numbers, taken in order.   *)
EXTENDS Integers, FiniteSets

\* The numbers of a finite set, the least first.
Ascending(S) ==
  [k \in 1..Cardinality(S) |-> CHOOSE i \in S : Cardinality({j \in S : j <= i}) = k]
=============================================================================
