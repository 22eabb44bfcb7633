------------------------------- MODULE Slices -------------------------------
(***************************************************************************)
(* Slices and lists of the Go code, as sequences.  Sorting and filtering   *)
(* go by the rank of an index, and not by recursion, so that the provers   *)
(* can reason about them with the cardinalities of finite sets.            *)
(***************************************************************************)
EXTENDS Integers, Sequences, FiniteSets

\* The elements of S in the order R, a set of pairs.
Enumerated(S, R) ==
    [n \in 1..Cardinality(S) |->
        CHOOSE x \in S : Cardinality({y \in S : <<y, x>> \in R}) = n]

\* The elements of s.
Elements(s) == {s[i] : i \in 1..Len(s)}

\* The indices of s in the order of its elements.
ByValue(s) ==
    {p \in (1..Len(s)) \X (1..Len(s)) :
        s[p[1]] < s[p[2]] \/ (s[p[1]] = s[p[2]] /\ p[1] <= p[2])}

\* sort.Strings, where strings are integers.
Sorted(s) == LET e == Enumerated(1..Len(s), ByValue(s)) IN [n \in 1..Len(s) |-> s[e[n]]]

\* S with the order of the integers.
ByIndex(S) == {p \in S \X S : p[1] <= p[2]}

\* A set of integers as a sorted slice.
Slice(S) == Enumerated(S, ByIndex(S))

\* s without the elements of M, in the order of s.
Without(s, M) ==
    LET rest == {i \in 1..Len(s) : s[i] \notin M}
        e == Enumerated(rest, ByIndex(rest))
    IN [n \in 1..Cardinality(rest) |-> s[e[n]]]
=============================================================================
