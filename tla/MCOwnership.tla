---------------------------- MODULE MCOwnership ----------------------------
(* Small instances of Ownership.                                           *)
EXTENDS Ownership, TLC

CONSTANTS k1, k2, t1, t2

OneKey     == {k1}
TwoKeys    == {k1, k2}
OneThread  == {t1}
TwoThreads == {t1, t2}
Symmetry   == Permutations(Threads)
=============================================================================
