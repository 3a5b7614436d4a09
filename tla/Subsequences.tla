---------------------------- MODULE Subsequences ----------------------------
(***************************************************************************)
(* Subsequences chosen by position, defined by rank rather than by         *)
(* recursion so that the prover can reason about them.                     *)
(***************************************************************************)
EXTENDS Integers, FiniteSets

\* The k-th smallest member of a finite set K of integers.
Nth(K, k) == CHOOSE i \in K : Cardinality({j \in K : j <= i}) = k

\* The entries of q at the positions in K, in their order.
Select(q, K) == [k \in 1 .. Cardinality(K) |-> q[Nth(K, k)]]

\* The members of a finite set of integers in increasing order.
InOrder(S) == [k \in 1 .. Cardinality(S) |-> Nth(S, k)]
=============================================================================
