------------------------------- MODULE Places -------------------------------
(***************************************************************************)
(* Parts of a sequence by their places: what a filter or a list of firsts  *)
(* keeps, in its order.  (SelectSeq is built into the tools, without a     *)
(* definition a proof could use.)                                          *)
(***************************************************************************)
EXTENDS Integers, FiniteSets, Sequences

\* The n-th of the places P from the left, and the elements of s at them.
Nth(P, n) == CHOOSE k \in P : Cardinality({j \in P : j <= k}) = n
Picked(s, P) == [n \in 1 .. Cardinality(P) |-> s[Nth(P, n)]]
=============================================================================
