----------------------------- MODULE MCS3Driver -----------------------------
(* A small instance of S3Driver.                                           *)
EXTENDS S3Driver

CONSTANTS k1, t1, t2

MCKeys    == {k1}
MCThreads == {t1, t2}
=============================================================================
