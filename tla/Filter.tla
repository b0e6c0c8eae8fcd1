------------------------------- MODULE Filter -------------------------------
(***************************************************************************)
(* Parts of a sequence, in its order: what SelectSeq of module Sequences   *)
(* is, by the positions that are kept and without recursion.               *)
(***************************************************************************)
EXTENDS Naturals, Sequences, FiniteSets

\* The i-th of a set of positions, from the least on.
Nth(I, i) == CHOOSE j \in I : Cardinality({k \in I : k <= j}) = i

\* The elements of s at the positions in I.
Picked(s, I) == [i \in 1..Cardinality(I) |-> s[Nth(I, i)]]
=============================================================================
