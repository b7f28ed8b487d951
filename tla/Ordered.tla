------------------------------ MODULE Ordered ------------------------------
(***************************************************************************)
(* Sequences taken from a set of positions in ascending order, and what it *)
(* is to be a sequence.  SelectSeq and SetToSortSeq say the same of fewer  *)
(* things that can be proved.                                              *)
(***************************************************************************)
EXTENDS Integers, Sequences, FiniteSets, Functions

\* A sequence, of whatever its elements are.
IsSeq(s) == s \in Seq(Range(s))

\* The members of a finite set of integers in ascending order, by their rank.
Ascending(S) ==
    [i \in 1..Cardinality(S) |-> CHOOSE n \in S : Cardinality({m \in S : m <= n}) = i]

\* The elements of s at some of its positions, in order.
Kept(s, positions) == [i \in 1..Cardinality(positions) |-> s[Ascending(positions)[i]]]

\* How often u is in s.
Times(u, s) == Cardinality({i \in 1..Len(s) : s[i] = u})
=============================================================================
