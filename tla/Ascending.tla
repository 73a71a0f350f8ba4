------------------------------ MODULE Ascending -------------------------------
(***************************************************************************)
(* The elements of a finite set of numbers, in ascending order.  It stands *)
(* for loops that go through a table and act on some of its entries.       *)
(***************************************************************************)
EXTENDS Integers, FiniteSets

UpTo(S, x) == {y \in S : y <= x}

Ascending(S) == [k \in 1..Cardinality(S) |-> CHOOSE x \in S : Cardinality(UpTo(S, x)) = k]
=============================================================================
