------------------------------ MODULE ByteSums ------------------------------
(***************************************************************************)
(* The sum of a function into the naturals, counted as a set of units      *)
(* rather than folded, so that the provers can reason about it with the    *)
(* cardinalities of finite sets.                                           *)
(***************************************************************************)
EXTENDS Integers, FiniteSets

\* f[x] units for every x.
Units(f) == UNION {{x} \X (1..f[x]) : x \in DOMAIN f}

\* The sum of f[x] over the domain of f.
Bytes(f) == Cardinality(Units(f))

\* f on S, zero elsewhere.
Part(f, S) == [x \in DOMAIN f |-> IF x \in S THEN f[x] ELSE 0]
=============================================================================
