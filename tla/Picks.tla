-------------------------------- MODULE Picks --------------------------------
(***************************************************************************)
(* A part of a sequence, given by the positions that stay: what a filter   *)
(* over a Rust iterator keeps, in the order of the iterator.               *)
(***************************************************************************)
EXTENDS Naturals, Sequences, FiniteSets

\* The k-th smallest element of a finite set of naturals that has k elements.
IsNth(S, k, i) == Cardinality({j \in S : j <= i}) = k
Nth(S, k) == CHOOSE i \in S : (\E j \in S : IsNth(S, k, j)) => IsNth(S, k, i)

\* The elements of q at the positions P, in q's order.
Pick(q, P) == [k \in 1..Cardinality(P) |-> q[Nth(P, k)]]
=============================================================================
