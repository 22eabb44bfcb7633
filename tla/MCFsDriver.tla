---------------------------- MODULE MCFsDriver -----------------------------
(* Small instances of FsDriver.                                            *)
EXTENDS FsDriver

CONSTANTS k1, t1, t2

MCKeys    == {k1}
MCThreads == {t1, t2}
=============================================================================
