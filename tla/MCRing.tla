------------------------------- MODULE MCRing -------------------------------
(* A small instance of Ring.                                               *)
EXTENDS Ring

\* Documents at, below and above the partition depth, with stray slashes.
MCKeys == {<<"a">>, <<"a", "b">>, <<"", "a", "b", "c">>, <<"b", "", "c">>, <<"">>}

\* Any function will do; these values reach every residue.
MCHash == [p \in {PartitionKey(k, Depth) : k \in Keys} |-> 3 * Len(p) + (IF "b" \in Elements(p) THEN 1 ELSE 0)]
=============================================================================
