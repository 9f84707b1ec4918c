------------------------------- MODULE Sublists -------------------------------
(***************************************************************************)
(* The elements of a sequence at given positions, in their order: what a   *)
(* loop that skips the others leaves of a list, a queue or a map that is   *)
(* sorted by number.  It says what SelectSeq says, with a set in the place *)
(* of the test; the places are found by counting, not by recursion, so     *)
(* that it can be reasoned about.                                          *)
(***************************************************************************)
EXTENDS Naturals, Sequences, FiniteSets

\* The number that has h numbers of P up to and including it.
Nth(P, h) == CHOOSE i \in P : Cardinality({j \in P : j <= i}) = h

Select(s, P) == [h \in 1..Cardinality(P) |-> s[Nth(P, h)]]

=============================================================================
