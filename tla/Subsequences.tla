---------------------------- MODULE Subsequences ----------------------------
(***************************************************************************)
(* Sequences from which some elements are taken.                           *)
(***************************************************************************)
EXTENDS Integers, Sequences, FiniteSets

(* The elements of s at the positions in `kept`, in their order.             *)
Subsequence(s, kept) ==
  LET Rank(i) == Cardinality({j \in kept : j <= i}) IN
  [k \in 1..Cardinality(kept) |-> s[CHOOSE i \in kept : Rank(i) = k]]

=============================================================================
