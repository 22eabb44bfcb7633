--------------------------- MODULE MCCacheBudget ---------------------------
(* Small instances of CacheBudget.                                         *)
EXTENDS CacheBudget, TLC

CONSTANTS m1, m2, m3, k1, k2, t1, t2

ThreeManagers == {m1, m2, m3}
TwoManagers == {m1, m2}
TwoKeys     == {k1, k2}
OneKey      == {k1}
TwoThreads  == {t1, t2}

\* Both keys in one shard, or one shard each.
OneShard  == [k \in Keys |-> 1]
TwoShards == [k \in Keys |-> IF k = k1 THEN 1 ELSE 2]

\* Managers and threads are interchangeable.
Symmetry == Permutations(Threads) \cup Permutations(Managers)

\* Counting units adds the values up.
ASSUME \A f \in [1..2 -> 0..3] : Bytes(f) = f[1] + f[2]
=============================================================================
