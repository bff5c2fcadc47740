------------------------------ MODULE Selection ------------------------------
(* Items of a sequence picked by their places, in the order they have there:  *)
(* what a list comprehension with a condition keeps.                          *)
EXTENDS Naturals, Sequences, FiniteSets

Nth(places, n) == CHOOSE i \in places : Cardinality({j \in places : j <= i}) = n

Picked(items, places) == [n \in 1..Cardinality(places) |-> items[Nth(places, n)]]
=============================================================================
