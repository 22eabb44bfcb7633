---------------------------- MODULE MCMeshPool ----------------------------
(* One peer, one requesting goroutine and two connections beside the        *)
(* goroutines the pools, memberlist and Close bring along.                  *)
EXTENDS MeshPool

CONSTANTS p1, t1, c1, c2

OnePeer == {p1}
OneThread == {t1}
TwoConns == {c1, c2}
===========================================================================
