---------------------------- MODULE MCListCache ----------------------------
(* Small instances of ListCache.                                           *)
EXTENDS ListCache, TLC

CONSTANTS t1, t2, t3

TwoThreads   == {t1, t2}
ThreeThreads == {t1, t2, t3}
Symmetry     == Permutations(Threads)

Page(prefix, cursor) == [prefix |-> prefix, cursor |-> cursor, limit |-> <<"9">>]

MCDocs == {<<"a", "x">>, <<"b">>}

\* The listing of a directory, and the root's.
OnePage  == {Page(<<"a">>, <<>>)}
TwoPages == OnePage \cup {Page(<<>>, <<>>)}

\* Document keys may contain the separator of ListCacheKey.String.  The second
\* page of "a" and that of "a|a", each resumed behind a key it has listed; "a~"
\* is behind both cursors, and under the first prefix only.
BarDocs  == {<<"a", "|", "a", "b">>, <<"a", "|", "a", "|", "a", "b">>, <<"a", "~">>}
BarPages == {Page(<<"a">>, <<"a", "|", "a", "|", "a", "b">>),
             Page(<<"a", "|", "a">>, <<"a", "|", "a", "b">>)}
=============================================================================
