-------------------------------- MODULE Order --------------------------------
(***************************************************************************)
(* Numbers in order: the keys of a map, the ids of a table's rows, the     *)
(* positions of a list.  (SelectSeq and the folds are recursive; what is   *)
(* taken from a list by its positions can be proved about.)                *)
(***************************************************************************)
EXTENDS Integers, Sequences, FiniteSets

UpTo(S, n) == {m \in S : m <= n}

\* The k-th smallest number of a set.
Nth(S, k) == CHOOSE n \in S : Cardinality(UpTo(S, n)) = k

\* A std::map iterates in the order of its keys.
Sorted(S) == [k \in 1 .. Cardinality(S) |-> Nth(S, k)]

\* The rows at some positions of a list, in the order of the list.
Select(rows, positions) == [k \in 1 .. Cardinality(positions) |-> rows[Nth(positions, k)]]
=============================================================================
