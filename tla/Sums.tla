-------------------------------- MODULE Sums --------------------------------
(***************************************************************************)
(* The sum of f over a set S, as the size of a pile that holds f[x] things *)
(* for each x in S.  It is defined by Cardinality, not by recursion, so    *)
(* that the provers can reason about it; module SumLemmas has its laws.    *)
(***************************************************************************)
EXTENDS Integers, FiniteSets

Heap(f, S) == UNION {{x} \X (1 .. f[x]) : x \in S}

SumOf(f, S) == Cardinality(Heap(f, S))

\* The sum of integers: what lies above zero less what lies below.
Above(f, S) == SumOf([x \in S |-> IF f[x] > 0 THEN f[x] ELSE 0], S)
Below(f, S) == SumOf([x \in S |-> IF f[x] < 0 THEN -f[x] ELSE 0], S)

NetOf(f, S) == Above(f, S) - Below(f, S)
=============================================================================
