------------------------------ MODULE FsDriver ------------------------------
(***************************************************************************)
(* The file system driver (pkg/storage/fs/fs.go), step by step: the        *)
(* RWMutex, the temporary file and the rename of Put, the two reads of     *)
(* Get, failures of every system call, and the death of the process at any *)
(* moment.  It implements AtomicStore.                                     *)
(*                                                                         *)
(* A file is the version it was written as, contents and modification time *)
(* alike, or Partial when a write did not get to its end.  The system      *)
(* itself stays up: what was written or renamed is there after a crash.    *)
(***************************************************************************)
EXTENDS Integers, FiniteSets, Storage

CONSTANTS
    Keys, Threads,
    NoThread,
    Partial,        \* contents of a file whose write was cut off
    MaxVersion,     \* bound on the writes
    MaxFaults       \* bound on the failures and crashes

ASSUME FsAssumption ==
    /\ IsFiniteSet(Threads) /\ NoThread \notin Threads
    /\ Partial \notin Nat \cup {Absent}
    /\ MaxVersion \in Nat /\ MaxFaults \in Nat

VARIABLES
    files,      \* the .data file of every key, or Absent
    tmp,        \* the temporary file of a Put, or Absent
    orphans,    \* temporary files nobody will ever remove
    version, faults,
    writer, readers,    \* who holds d.mu
    pc,
    req,        \* the request of a goroutine: op, key, etag
    data,       \* what ReadFile returned
    ans         \* the answer: res, val, etag

vars == <<files, tmp, orphans, version, faults, writer, readers, pc, req, data, ans>>
diskVars == <<files, tmp, orphans, version>>
lockVars == <<writer, readers>>

ETags == {NoETag, MatchAny} \cup 1..MaxVersion
NoRequest == [op |-> "none"]
Answer(res, val, etag) == [res |-> res, val |-> val, etag |-> etag]
NoAnswer == Answer("none", Absent, Absent)
Refused(res) == Answer(res, Absent, Absent)

Init ==
    /\ files = [k \in Keys |-> Absent]
    /\ tmp = [t \in Threads |-> Absent]
    /\ orphans = 0 /\ version = 0 /\ faults = 0
    /\ writer = NoThread /\ readers = {}
    /\ pc = [t \in Threads |-> "idle"]
    /\ req = [t \in Threads |-> NoRequest]
    /\ data = [t \in Threads |-> Absent]
    /\ ans = [t \in Threads |-> NoAnswer]

Goto(t, l) == pc' = [pc EXCEPT ![t] = l]
Answers(t, a) == Goto(t, "done") /\ ans' = [ans EXCEPT ![t] = a]
Fails == faults < MaxFaults /\ faults' = faults + 1

Call(t, o, k, e) ==
    /\ pc[t] = "idle"
    /\ o = "Put" => version + Cardinality({u \in Threads : req[u].op = "Put"}) < MaxVersion
    /\ Goto(t, "lock")
    /\ req' = [req EXCEPT ![t] = [op |-> o, key |-> k, etag |-> e]]
    /\ UNCHANGED <<diskVars, faults, lockVars, data, ans>>

\* Mutant: Get does not take the mutex.
NoRLock(t) ==
    /\ pc[t] = "lock" /\ req[t].op = "Get"
    /\ Goto(t, "read")
    /\ UNCHANGED <<diskVars, faults, lockVars, req, data, ans>>

RLock(t) ==
    /\ pc[t] = "lock" /\ req[t].op = "Get" /\ writer = NoThread
    /\ readers' = readers \cup {t}
    /\ Goto(t, "read")
    /\ UNCHANGED <<diskVars, faults, writer, req, data, ans>>

\* Mutant: writers share the mutex like readers.
LockShared(t) ==
    /\ pc[t] = "lock" /\ req[t].op # "Get"
    /\ writer' = t
    /\ Goto(t, "check")
    /\ UNCHANGED <<diskVars, faults, readers, req, data, ans>>

Lock(t) ==
    /\ pc[t] = "lock" /\ req[t].op # "Get" /\ writer = NoThread /\ readers = {}
    /\ writer' = t
    /\ Goto(t, "check")
    /\ UNCHANGED <<diskVars, faults, readers, req, data, ans>>

\* os.ReadFile of Get
ReadFile(t) ==
    /\ pc[t] = "read"
    /\ IF files[req[t].key] = Absent
       THEN Answers(t, Refused("ErrNotFound")) /\ UNCHANGED data
       ELSE /\ data' = [data EXCEPT ![t] = files[req[t].key]]
            /\ Goto(t, "stat") /\ UNCHANGED ans
    /\ UNCHANGED <<diskVars, faults, lockVars, req>>

\* os.Stat of Get: the ETag is made of both.
Stat(t) ==
    /\ pc[t] = "stat"
    /\ Answers(t, IF files[req[t].key] = Absent THEN Refused("error")
                  ELSE Answer("ok", data[t], files[req[t].key]))
    /\ UNCHANGED <<diskVars, faults, lockVars, req, data>>

\* The conditions of Put and Delete.
CheckPut(t) ==
    /\ pc[t] = "check" /\ req[t].op = "Put"
    /\ LET answer == PutAnswer(files[req[t].key], req[t].etag) IN
       IF answer = "ok" THEN Goto(t, "create") /\ UNCHANGED ans
       ELSE Answers(t, Refused(answer))
    /\ UNCHANGED <<diskVars, faults, lockVars, req, data>>

CheckDelete(t) ==
    /\ pc[t] = "check" /\ req[t].op = "Delete"
    /\ LET answer == DeleteAnswer(files[req[t].key], req[t].etag) IN
       IF answer = "ok" THEN Goto(t, "remove") /\ UNCHANGED ans
       ELSE Answers(t, Refused(answer))
    /\ UNCHANGED <<diskVars, faults, lockVars, req, data>>

\* os.WriteFile of Put: the temporary file is there before it is complete.
CreateTmp(t) ==
    /\ pc[t] = "create"
    /\ tmp' = [tmp EXCEPT ![t] = Partial]
    /\ Goto(t, "write")
    /\ UNCHANGED <<files, orphans, version, faults, lockVars, req, data, ans>>

FillTmp(t) ==
    /\ pc[t] = "write"
    /\ tmp' = [tmp EXCEPT ![t] = version + 1]
    /\ Goto(t, "rename")
    /\ UNCHANGED <<files, orphans, version, faults, lockVars, req, data, ans>>

\* WriteFile fails: Put returns and leaves the temporary file behind.
WriteFails(t) ==
    /\ pc[t] = "write" /\ Fails
    /\ Answers(t, Refused("error"))
    /\ tmp' = [tmp EXCEPT ![t] = Absent]
    /\ orphans' = orphans + 1
    /\ UNCHANGED <<files, version, lockVars, req, data>>

Rename(t) ==
    /\ pc[t] = "rename"
    /\ files' = [files EXCEPT ![req[t].key] = tmp[t]]
    /\ tmp' = [tmp EXCEPT ![t] = Absent]
    /\ version' = version + 1
    /\ Answers(t, Answer("ok", version + 1, version + 1))
    /\ UNCHANGED <<orphans, faults, lockVars, req, data>>

\* Rename fails: the temporary file is removed.
RenameFails(t) ==
    /\ pc[t] = "rename" /\ Fails
    /\ tmp' = [tmp EXCEPT ![t] = Absent]
    /\ Answers(t, Refused("error"))
    /\ UNCHANGED <<files, orphans, version, lockVars, req, data>>

Remove(t) ==
    /\ pc[t] = "remove"
    /\ files' = [files EXCEPT ![req[t].key] = Absent]
    /\ Answers(t, Refused("ok"))
    /\ UNCHANGED <<tmp, orphans, version, faults, lockVars, req, data>>

\* Any other system call fails; the last one of Put, the Stat of the new file,
\* fails when the document is already in place.
Errs(t) ==
    /\ \/ pc[t] \in {"read", "stat", "check", "create", "remove"}
       \/ pc[t] = "done" /\ req[t].op = "Put" /\ ans[t].res = "ok"
    /\ Fails
    /\ Answers(t, Refused("error"))
    /\ UNCHANGED <<diskVars, lockVars, req, data>>

\* The deferred Unlock.
Return(t) ==
    /\ pc[t] = "done"
    /\ Goto(t, "idle")
    /\ writer' = IF writer = t THEN NoThread ELSE writer
    /\ readers' = readers \ {t}
    /\ req' = [req EXCEPT ![t] = NoRequest]
    /\ data' = [data EXCEPT ![t] = Absent]
    /\ ans' = [ans EXCEPT ![t] = NoAnswer]
    /\ UNCHANGED <<diskVars, faults>>

\* The process dies and starts again on the same directory.
Crash ==
    /\ Fails
    /\ pc' = [t \in Threads |-> "idle"]
    /\ req' = [t \in Threads |-> NoRequest]
    /\ data' = [t \in Threads |-> Absent]
    /\ ans' = [t \in Threads |-> NoAnswer]
    /\ writer' = NoThread /\ readers' = {}
    /\ orphans' = orphans + Cardinality({t \in Threads : tmp[t] # Absent})
    /\ tmp' = [t \in Threads |-> Absent]
    /\ UNCHANGED <<files, version>>

\* The steps on a file system whose Stat fails in Put only for a document that
\* does not exist.
Next ==
    \/ \E t \in Threads :
         \/ RLock(t) \/ Lock(t) \/ ReadFile(t) \/ Stat(t)
         \/ CheckPut(t) \/ CheckDelete(t)
         \/ CreateTmp(t) \/ FillTmp(t) \/ WriteFails(t)
         \/ Rename(t) \/ RenameFails(t) \/ Remove(t) \/ Errs(t) \/ Return(t)
         \/ \E o \in {"Get", "Put", "Delete"}, k \in Keys, e \in ETags : Call(t, o, k, e)
    \/ Crash

Spec == Init /\ [][Next]_vars
-----------------------------------------------------------------------------
(* Properties.                                                             *)

\* Types of the state: no document file is ever half-written.
TypeOK ==
    /\ files \in [Keys -> (1..MaxVersion) \cup {Absent}]
    /\ tmp \in [Threads -> (1..MaxVersion) \cup {Absent, Partial}]
    /\ orphans \in Nat /\ version \in 0..MaxVersion /\ faults \in 0..MaxFaults
    /\ writer \in Threads \cup {NoThread} /\ readers \subseteq Threads
    /\ data \in [Threads -> (1..MaxVersion) \cup {Absent}]
    /\ pc \in [Threads -> {"idle", "lock", "read", "stat", "check", "create", "write",
                           "rename", "remove", "done"}]
    /\ req \in [Threads -> [op : {"Get", "Put", "Delete"}, key : Keys, etag : ETags]
                           \cup {NoRequest}]
    /\ ans \in [Threads -> [res : {"none", "ok", "error", "ErrNotFound", "ErrAlreadyExists",
                                   "ErrVersionMismatch"},
                            val : (1..MaxVersion) \cup {Absent},
                            etag : (1..MaxVersion) \cup {Absent}]]

\* Temporary files do not pile up: each one that stays was left by a crash or
\* by a failed write, and those that are in use belong to one Put at most.
OrphansAccounted ==
    /\ orphans <= faults
    /\ Cardinality({t \in Threads : tmp[t] # Absent}) <= 1

callOf(t) ==
    IF pc[t] = "idle" THEN [st |-> "idle"]
    ELSE IF ans[t] = NoAnswer
    THEN [st |-> "called", op |-> req[t].op, key |-> req[t].key, etag |-> req[t].etag]
    ELSE [st |-> "done", res |-> ans[t].res, val |-> ans[t].val, etag |-> ans[t].etag]

Atomic == INSTANCE AtomicStore WITH store <- files, call <- [t \in Threads |-> callOf(t)]

\* The driver keeps AtomicStore's promise: the calls of concurrent goroutines
\* have their effects one at a time, comparison and write together, and
\* neither a failing system call nor a crash shows or loses anything else, as
\* long as Put's first Stat can tell whether the document exists.
ImplementsAtomicStore == Atomic!Spec
=============================================================================
