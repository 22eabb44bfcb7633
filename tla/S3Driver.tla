------------------------------ MODULE S3Driver ------------------------------
(***************************************************************************)
(* The S3 driver (pkg/storage/s3/s3.go): a call is one request, which the  *)
(* service evaluates and applies at one instant and whose answer may get   *)
(* lost.  It is AtomicStore with the answers of Put and Delete of this     *)
(* driver.                                                                 *)
(***************************************************************************)
EXTENDS Integers, Storage

CONSTANTS Keys, Threads, MaxVersion

VARIABLES store, version, call

ETags == {NoETag, MatchAny} \cup 1..MaxVersion

Service == INSTANCE AtomicStore WITH PutAnswer <- S3PutAnswer, DeleteAnswer <- S3DeleteAnswer

Spec == Service!Spec

\* What driver.go says of Delete: it removes an object with an optional CAS
\* check, so a Delete with an ETag takes away nothing but that version.
DeletesWhatWasExpected ==
    [][\A t \in Threads, k \in Keys :
         /\ call[t].st = "called" /\ call[t].op = "Delete" /\ call[t].key = k
         /\ call'[t].st = "done" /\ store[k] # Absent /\ store'[k] = Absent
         => call[t].etag \in {NoETag, MatchAny, store[k]}]_<<store, version, call>>
=============================================================================
