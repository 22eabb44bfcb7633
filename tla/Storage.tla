------------------------------ MODULE Storage ------------------------------
(***************************************************************************)
(* What a storage driver answers (pkg/storage), as a function of the       *)
(* current version of the key, which is also its ETag, and of the ETag the *)
(* caller expects.                                                         *)
(***************************************************************************)
EXTENDS Integers

CONSTANTS
    Absent,     \* no object under the key
    NoETag,     \* expectedETag == "": unconditional
    MatchAny    \* storage.MatchAnyETag, "*": only if there is no object

ASSUME StorageAssumption ==
    /\ Absent \notin Nat /\ NoETag \notin Nat /\ MatchAny \notin Nat
    /\ Absent # NoETag /\ NoETag # MatchAny /\ Absent # MatchAny

\* Put of the memory and file system drivers.
PutAnswer(current, expected) ==
    CASE expected = NoETag -> "ok"
      [] expected = MatchAny -> IF current = Absent THEN "ok" ELSE "ErrAlreadyExists"
      [] OTHER -> IF current = Absent THEN "ErrNotFound"
                  ELSE IF current = expected THEN "ok" ELSE "ErrVersionMismatch"

\* Delete of the memory and file system drivers.
DeleteAnswer(current, expected) ==
    CASE current = Absent -> "ErrNotFound"
      [] expected \in {NoETag, MatchAny, current} -> "ok"
      [] OTHER -> "ErrVersionMismatch"

\* PutObject with IfNoneMatch or IfMatch, and the errors Put makes of the
\* service's: 412 is a conflict, NoSuchKey for an IfMatch is just an error.
S3PutAnswer(current, expected) ==
    CASE expected = NoETag -> "ok"
      [] expected = MatchAny -> IF current = Absent THEN "ok" ELSE "ErrAlreadyExists"
      [] OTHER -> IF current = Absent THEN "error"
                  ELSE IF current = expected THEN "ok" ELSE "ErrVersionMismatch"

\* Delete of the S3 driver sends no condition, and DeleteObject also succeeds
\* when there is nothing to delete.
S3DeleteAnswer(current, expected) == "ok"
=============================================================================
