------------------------------ MODULE Selections ------------------------------
(* The members of a finite set of numbers in their order, and the elements a    *)
(* sequence has at such positions: a loop that goes through a list and takes    *)
(* some of its elements.                                                        *)
EXTENDS Naturals, Sequences, FiniteSets

\* The k-th smallest member.
Nth(set, k) == CHOOSE i \in set : Cardinality({j \in set : j <= i}) = k

Ascending(set) == [k \in 1 .. Cardinality(set) |-> Nth(set, k)]

Select(s, positions) == [k \in 1 .. Cardinality(positions) |-> s[Nth(positions, k)]]
===============================================================================
