----------------------------- MODULE MCCASRetry -----------------------------
(* A small instance of CASRetry.                                           *)
EXTENDS CASRetry

CONSTANTS c1, c2, t1
MCClients == {c1, c2}
MCThreads == {c1, c2, t1}
=============================================================================
