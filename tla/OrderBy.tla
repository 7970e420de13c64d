------------------------------ MODULE OrderBy -------------------------------
(***************************************************************************)
(* ORDER BY of a query: the rows of a set, put into a sequence by a strict *)
(* order. The order is a set of pairs: <<r, s>> is in it when r comes      *)
(* before s.                                                               *)
(*                                                                         *)
(* The sequence is defined by the rank of each row and not with            *)
(* SetToSortSeq, whose SortSeq is built into the tools: this definition    *)
(* can be reasoned about (OrderByProofs.tla).                              *)
(***************************************************************************)
EXTENDS Integers, FiniteSets

\* The rows of S that come before row s.
Preceding(s, S, order) == {r \in S : <<r, s>> \in order}

\* The i-th row is the one that i - 1 rows come before.
Sorted(S, order) ==
  [i \in 1..Cardinality(S) |->
     CHOOSE s \in S : Cardinality(Preceding(s, S, order)) = i - 1]
=============================================================================
