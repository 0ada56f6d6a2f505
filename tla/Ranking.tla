------------------------------- MODULE Ranking -------------------------------
(***************************************************************************)
(* The members of a finite set of integers in increasing order.            *)
(***************************************************************************)
EXTENDS Integers, FiniteSets

Rank(K, k) == Cardinality({j \in K : j <= k})

NthOf(K, n) == CHOOSE k \in K : Rank(K, k) = n

Ascending(K) == [n \in 1 .. Cardinality(K) |-> NthOf(K, n)]

\* The members of the sequence q at the places in K, in the order of q.
Chosen(q, K) == [n \in 1 .. Cardinality(K) |-> q[NthOf(K, n)]]
=============================================================================
