--------------------------- MODULE FsDriverProofs ---------------------------
(***************************************************************************)
(* Proofs that the file system driver accounts for its temporary files and *)
(* implements AtomicStore, for any sets of keys and goroutines and any     *)
(* number of writes, failures and crashes.                                 *)
(***************************************************************************)
EXTENDS FsDriver, FiniteSetTheorems, TLAPS

\* The calls of a driver.
Operations == {"Get", "Put", "Delete"}

\* A goroutine has a request while it is in a call, and an answer at its end.
Requests ==
    \A t \in Threads :
      IF pc[t] = "idle" THEN req[t] = NoRequest
                        ELSE req[t] \in [op : Operations, key : Keys, etag : ETags]

\* A call has its answer at its end and not before.
Answered ==
    \A t \in Threads : IF pc[t] = "done" THEN ans[t].res # "none" ELSE ans[t] = NoAnswer

\* d.mu excludes: who reads the files holds it shared, who may change them holds
\* it alone.
Locking ==
    /\ readers # {} => writer = NoThread
    /\ \A t \in Threads :
         /\ t \in readers <=> pc[t] \in {"read", "stat", "done"} /\ req[t].op = "Get"
         /\ writer = t <=> pc[t] \in {"check", "create", "write", "rename", "remove", "done"}
                           /\ req[t].op # "Get"

\* What the call has found out is still so.
Current ==
    \A t \in Threads :
      /\ pc[t] \in {"read", "stat"} => req[t].op = "Get"
      /\ pc[t] \in {"check", "create", "write", "rename", "remove"} => req[t].op # "Get"
      /\ pc[t] = "stat" => data[t] = files[req[t].key] /\ data[t] # Absent
      /\ pc[t] \in {"create", "write", "rename"} =>
           req[t].op = "Put" /\ PutAnswer(files[req[t].key], req[t].etag) = "ok"
      /\ pc[t] = "remove" =>
           req[t].op = "Delete" /\ DeleteAnswer(files[req[t].key], req[t].etag) = "ok"
      /\ pc[t] = "rename" => tmp[t] = version + 1
      /\ tmp[t] # Absent => pc[t] \in {"write", "rename"}

\* The Puts that have yet to make a version, and the room there is for them.
Pending == {t \in Threads : req[t].op = "Put" /\ pc[t] # "done"}
Room == version + Cardinality(Pending) <= MaxVersion

\* TypeOK in two parts.
Versions == (1..MaxVersion) \cup {Absent}
AnswerSet == [res : {"none", "ok", "error", "ErrNotFound", "ErrAlreadyExists",
                     "ErrVersionMismatch"},
              val : Versions, etag : Versions]
RequestSet == [op : Operations, key : Keys, etag : ETags] \cup {NoRequest}

\* The files, the lock and the locals of a call.
DiskTypes ==
    /\ files \in [Keys -> Versions]
    /\ tmp \in [Threads -> Versions \cup {Partial}]
    /\ orphans \in Nat /\ version \in 0..MaxVersion /\ faults \in 0..MaxFaults
    /\ writer \in Threads \cup {NoThread} /\ readers \subseteq Threads
    /\ data \in [Threads -> Versions]
    /\ pc \in [Threads -> {"idle", "lock", "read", "stat", "check", "create", "write",
                           "rename", "remove", "done"}]

\* What the caller sees.
CallTypes == req \in [Threads -> RequestSet] /\ ans \in [Threads -> AnswerSet]

\* What every goroutine in a call knows.
Calls == DiskTypes /\ CallTypes /\ Requests /\ Answered /\ Locking /\ Current

\* The type invariant follows.
LEMMA Types == Calls => TypeOK
BY Zenon DEF Calls, DiskTypes, CallTypes, Versions, AnswerSet, RequestSet, Operations, TypeOK

\* The state after New.
LEMMA InitCalls == Init => Calls
<1> SUFFICES ASSUME Init PROVE Calls
  BY Zenon
<1>1. DiskTypes
  BY FsAssumption DEF Init, DiskTypes, Versions
<1>2. CallTypes
  BY Zenon DEF Init, CallTypes, AnswerSet, RequestSet, NoAnswer, Answer, Versions
<1>3. Requests /\ Answered
  BY Zenon DEF Init, Requests, Answered
<1>4. Locking /\ Current
  BY FsAssumption, StorageAssumption, Zenon DEF Init, Locking, Current, NoRequest
<1> QED
  BY <1>1, <1>2, <1>3, <1>4, Zenon DEF Calls

\* Nobody else is in a call that reads or changes files while t is in one that
\* may change them.
LEMMA Alone ==
    ASSUME Calls, NEW t \in Threads, writer = t, NEW u \in Threads, u # t
    PROVE  pc[u] \in {"idle", "lock"} /\ tmp[u] = Absent
BY FsAssumption, Zenon DEF Calls, DiskTypes, Locking, Current

\* At most one temporary file is in use.
LEMMA TmpFiles ==
    ASSUME Calls
    PROVE  LET T == {t \in Threads : tmp[t] # Absent}
           IN  IsFiniteSet(T) /\ Cardinality(T) \in 0..1
<1> DEFINE T == {t \in Threads : tmp[t] # Absent}
<1>1. T \subseteq {writer}
  BY Zenon DEF Calls, Current, Locking
<1>2. IsFiniteSet({writer}) /\ Cardinality({writer}) = 1
  BY FS_Singleton, Zenon
<1>3. IsFiniteSet(T) /\ Cardinality(T) <= 1
  BY <1>1, <1>2, FS_Subset, Zenon
<1>4. Cardinality(T) \in Nat
  BY <1>3, FS_CardinalityType, Zenon
<1> QED
  BY <1>3, <1>4

\* A Put that is under way has room for its version.
LEMMA RoomForPut ==
    ASSUME Calls, Room, NEW t \in Threads, pc[t] \in {"write", "rename"}
    PROVE  version + 1 \in 1..MaxVersion
<1>1. t \in Pending
  BY Zenon DEF Calls, Current, Pending
<1>2. IsFiniteSet(Pending)
  BY FsAssumption, FS_Subset, Zenon DEF Pending
<1>3. Cardinality(Pending) \in Nat /\ Cardinality(Pending) # 0
  BY <1>1, <1>2, FS_CardinalityType, FS_EmptySet, Zenon
<1> QED
  BY <1>3, FsAssumption DEF Room, Calls, DiskTypes

\* What the calls answer.
LEMMA AnswerTypes ==
    /\ \A r \in {"ok", "error", "ErrNotFound", "ErrAlreadyExists", "ErrVersionMismatch"} :
         Refused(r) \in AnswerSet
    /\ \A v \in Versions : \A w \in Versions : Answer("ok", v, w) \in AnswerSet
    /\ NoAnswer \in AnswerSet
    /\ \A c, e : PutAnswer(c, e) \in {"ok", "ErrNotFound", "ErrAlreadyExists", "ErrVersionMismatch"}
    /\ \A c, e : DeleteAnswer(c, e) \in {"ok", "ErrNotFound", "ErrVersionMismatch"}
BY Zenon DEF Refused, Answer, NoAnswer, AnswerSet, Versions, PutAnswer, DeleteAnswer

\* Types of the files and the mutex.
LEMMA DiskStep ==
    ASSUME Calls, Room, Next
    PROVE  DiskTypes'
<1> USE FsAssumption, StorageAssumption
    DEF Calls, Goto, Answers, Fails, diskVars, lockVars, DiskTypes, Current, Requests, Versions
<1>1. ASSUME NEW t \in Threads, RLock(t) PROVE DiskTypes'
  BY <1>1, Zenon DEF RLock
<1>2. ASSUME NEW t \in Threads, Lock(t) PROVE DiskTypes'
  BY <1>2, Zenon DEF Lock
<1>3. ASSUME NEW t \in Threads, ReadFile(t) PROVE DiskTypes'
  BY <1>3 DEF ReadFile
<1>4. ASSUME NEW t \in Threads, Stat(t) PROVE DiskTypes'
  BY <1>4, Zenon DEF Stat
<1>5. ASSUME NEW t \in Threads, CheckPut(t) PROVE DiskTypes'
  BY <1>5, Zenon DEF CheckPut
<1>6. ASSUME NEW t \in Threads, CheckDelete(t) PROVE DiskTypes'
  BY <1>6 DEF CheckDelete
<1>7. ASSUME NEW t \in Threads, CreateTmp(t) PROVE DiskTypes'
  BY <1>7, Zenon DEF CreateTmp
<1>8. ASSUME NEW t \in Threads, FillTmp(t) PROVE DiskTypes'
  BY <1>8, RoomForPut, Zenon DEF FillTmp
<1>9. ASSUME NEW t \in Threads, WriteFails(t) PROVE DiskTypes'
  BY <1>9 DEF WriteFails
<1>10. ASSUME NEW t \in Threads, Rename(t) PROVE DiskTypes'
  BY <1>10, RoomForPut DEF Rename
<1>11. ASSUME NEW t \in Threads, RenameFails(t) PROVE DiskTypes'
  BY <1>11 DEF RenameFails
<1>12. ASSUME NEW t \in Threads, Remove(t) PROVE DiskTypes'
  BY <1>12, Zenon DEF Remove
<1>13. ASSUME NEW t \in Threads, Errs(t) PROVE DiskTypes'
  BY <1>13 DEF Errs
<1>14. ASSUME NEW t \in Threads, Return(t) PROVE DiskTypes'
  BY <1>14, Zenon DEF Return
<1>15. ASSUME NEW t \in Threads, NEW o \in Operations, NEW k \in Keys, NEW e \in ETags,
              Call(t, o, k, e)
       PROVE  DiskTypes'
  BY <1>15, Zenon DEF Call, Operations
<1>16. CASE Crash
  <2>1. Cardinality({t \in Threads : tmp[t] # Absent}) \in Nat
    BY TmpFiles
  <2> QED
    BY <1>16, <2>1 DEF Crash
<1> HIDE DEF DiskTypes, Current, Requests, Versions
<1> QED
  BY <1>1, <1>2, <1>3, <1>4, <1>5, <1>6, <1>7, <1>8, <1>9,
     <1>10, <1>11, <1>12, <1>13, <1>14, <1>15, <1>16, Zenon DEF Next, Operations

\* Types of requests and answers.
LEMMA CallTypeStep ==
    ASSUME Calls, Room, Next
    PROVE  CallTypes'
<1> USE FsAssumption, StorageAssumption, AnswerTypes
    DEF Calls, Goto, Answers, Fails, diskVars, lockVars, CallTypes
<1>1. ASSUME NEW t \in Threads, RLock(t) PROVE CallTypes'
  BY <1>1, Zenon DEF RLock
<1>2. ASSUME NEW t \in Threads, Lock(t) PROVE CallTypes'
  BY <1>2, Zenon DEF Lock
<1>3. ASSUME NEW t \in Threads, ReadFile(t) PROVE CallTypes'
  BY <1>3, Zenon DEF ReadFile
<1>4. ASSUME NEW t \in Threads, Stat(t) PROVE CallTypes'
  <2>1. files[req[t].key] \in Versions /\ data[t] \in Versions
    BY <1>4, Zenon DEF Stat, DiskTypes, Current
  <2> QED
    BY <1>4, <2>1, Zenon DEF Stat
<1>5. ASSUME NEW t \in Threads, CheckPut(t) PROVE CallTypes'
  BY <1>5 DEF CheckPut
<1>6. ASSUME NEW t \in Threads, CheckDelete(t) PROVE CallTypes'
  BY <1>6 DEF CheckDelete
<1>7. ASSUME NEW t \in Threads, CreateTmp(t) PROVE CallTypes'
  BY <1>7, Zenon DEF CreateTmp
<1>8. ASSUME NEW t \in Threads, FillTmp(t) PROVE CallTypes'
  BY <1>8, Zenon DEF FillTmp
<1>9. ASSUME NEW t \in Threads, WriteFails(t) PROVE CallTypes'
  BY <1>9, Zenon DEF WriteFails
<1>10. ASSUME NEW t \in Threads, Rename(t) PROVE CallTypes'
  <2>1. version + 1 \in Versions
    BY <1>10, RoomForPut, Zenon DEF Rename, Versions
  <2> QED
    BY <1>10, <2>1, Zenon DEF Rename
<1>11. ASSUME NEW t \in Threads, RenameFails(t) PROVE CallTypes'
  BY <1>11, Zenon DEF RenameFails
<1>12. ASSUME NEW t \in Threads, Remove(t) PROVE CallTypes'
  BY <1>12, Zenon DEF Remove
<1>13. ASSUME NEW t \in Threads, Errs(t) PROVE CallTypes'
  BY <1>13, Zenon DEF Errs
<1>14. ASSUME NEW t \in Threads, Return(t) PROVE CallTypes'
  <2>1. NoRequest \in RequestSet
    BY Zenon DEF RequestSet
  <2> QED
    BY <1>14, <2>1, Zenon DEF Return
<1>15. ASSUME NEW t \in Threads, NEW o \in Operations, NEW k \in Keys, NEW e \in ETags,
              Call(t, o, k, e)
       PROVE  CallTypes'
  <2>1. [op |-> o, key |-> k, etag |-> e] \in RequestSet
    BY Zenon DEF RequestSet
  <2> QED
    BY <1>15, <2>1, Zenon DEF Call
<1>16. CASE Crash
  <2>1. NoRequest \in RequestSet
    BY Zenon DEF RequestSet
  <2> QED
    BY <1>16, <2>1, Zenon DEF Crash
<1> HIDE DEF CallTypes
<1> QED
  BY <1>1, <1>2, <1>3, <1>4, <1>5, <1>6, <1>7, <1>8, <1>9,
     <1>10, <1>11, <1>12, <1>13, <1>14, <1>15, <1>16 DEF Next, Operations

\* Requests and answers.
LEMMA RequestStep ==
    ASSUME Calls, Room, Next
    PROVE  (Requests /\ Answered)'
<1> USE FsAssumption, StorageAssumption
    DEF Calls, Goto, Answers, Fails, diskVars, lockVars, DiskTypes, CallTypes,
        Requests, Answered, Answer, NoAnswer, Refused, NoRequest, Operations, PutAnswer, DeleteAnswer
<1>1. ASSUME NEW t \in Threads, RLock(t) PROVE (Requests /\ Answered)'
  BY <1>1, Zenon DEF RLock
<1>2. ASSUME NEW t \in Threads, Lock(t) PROVE (Requests /\ Answered)'
  BY <1>2, Zenon DEF Lock
<1>3. ASSUME NEW t \in Threads, ReadFile(t) PROVE (Requests /\ Answered)'
  BY <1>3 DEF ReadFile
<1>4. ASSUME NEW t \in Threads, Stat(t) PROVE (Requests /\ Answered)'
  BY <1>4, Zenon DEF Stat
<1>5. ASSUME NEW t \in Threads, CheckPut(t) PROVE (Requests /\ Answered)'
  BY <1>5 DEF CheckPut
<1>6. ASSUME NEW t \in Threads, CheckDelete(t) PROVE (Requests /\ Answered)'
  BY <1>6 DEF CheckDelete
<1>7. ASSUME NEW t \in Threads, CreateTmp(t) PROVE (Requests /\ Answered)'
  BY <1>7, Zenon DEF CreateTmp
<1>8. ASSUME NEW t \in Threads, FillTmp(t) PROVE (Requests /\ Answered)'
  BY <1>8, Zenon DEF FillTmp
<1>9. ASSUME NEW t \in Threads, WriteFails(t) PROVE (Requests /\ Answered)'
  BY <1>9, Zenon DEF WriteFails
<1>10. ASSUME NEW t \in Threads, Rename(t) PROVE (Requests /\ Answered)'
  BY <1>10, Zenon DEF Rename
<1>11. ASSUME NEW t \in Threads, RenameFails(t) PROVE (Requests /\ Answered)'
  BY <1>11, Zenon DEF RenameFails
<1>12. ASSUME NEW t \in Threads, Remove(t) PROVE (Requests /\ Answered)'
  BY <1>12, Zenon DEF Remove
<1>13. ASSUME NEW t \in Threads, Errs(t) PROVE (Requests /\ Answered)'
  BY <1>13, Zenon DEF Errs
<1>14. ASSUME NEW t \in Threads, Return(t) PROVE (Requests /\ Answered)'
  BY <1>14, Zenon DEF Return
<1>15. ASSUME NEW t \in Threads, NEW o \in Operations, NEW k \in Keys, NEW e \in ETags,
              Call(t, o, k, e)
       PROVE  (Requests /\ Answered)'
  BY <1>15, Zenon DEF Call, Operations
<1>16. CASE Crash
  BY <1>16, Zenon DEF Crash
<1> HIDE DEF DiskTypes, CallTypes, Requests, Answered, Answer, NoAnswer, Refused, NoRequest, Operations, PutAnswer, DeleteAnswer
<1> QED
  BY <1>1, <1>2, <1>3, <1>4, <1>5, <1>6, <1>7, <1>8, <1>9,
     <1>10, <1>11, <1>12, <1>13, <1>14, <1>15, <1>16 DEF Next, Operations

\* The mutex.
LEMMA LockStep ==
    ASSUME Calls, Room, Next
    PROVE  Locking'
<1> USE FsAssumption, StorageAssumption
    DEF Calls, Goto, Answers, Fails, diskVars, lockVars, DiskTypes, CallTypes, Requests,
        Locking, Current, NoRequest
<1>1. ASSUME NEW t \in Threads, RLock(t) PROVE Locking'
  BY <1>1, Zenon DEF RLock
<1>2. ASSUME NEW t \in Threads, Lock(t) PROVE Locking'
  BY <1>2, Zenon DEF Lock
<1>3. ASSUME NEW t \in Threads, ReadFile(t) PROVE Locking'
  BY <1>3 DEF ReadFile
<1>4. ASSUME NEW t \in Threads, Stat(t) PROVE Locking'
  BY <1>4, Zenon DEF Stat
<1>5. ASSUME NEW t \in Threads, CheckPut(t) PROVE Locking'
  BY <1>5 DEF CheckPut
<1>6. ASSUME NEW t \in Threads, CheckDelete(t) PROVE Locking'
  BY <1>6 DEF CheckDelete
<1>7. ASSUME NEW t \in Threads, CreateTmp(t) PROVE Locking'
  BY <1>7, Zenon DEF CreateTmp
<1>8. ASSUME NEW t \in Threads, FillTmp(t) PROVE Locking'
  BY <1>8, Zenon DEF FillTmp
<1>9. ASSUME NEW t \in Threads, WriteFails(t) PROVE Locking'
  BY <1>9, Zenon DEF WriteFails
<1>10. ASSUME NEW t \in Threads, Rename(t) PROVE Locking'
  BY <1>10, Zenon DEF Rename
<1>11. ASSUME NEW t \in Threads, RenameFails(t) PROVE Locking'
  BY <1>11, Zenon DEF RenameFails
<1>12. ASSUME NEW t \in Threads, Remove(t) PROVE Locking'
  BY <1>12, Zenon DEF Remove
<1>13. ASSUME NEW t \in Threads, Errs(t) PROVE Locking'
  BY <1>13 DEF Errs
<1>14. ASSUME NEW t \in Threads, Return(t) PROVE Locking'
  BY <1>14, Zenon DEF Return
<1>15. ASSUME NEW t \in Threads, NEW o \in Operations, NEW k \in Keys, NEW e \in ETags,
              Call(t, o, k, e)
       PROVE  Locking'
  BY <1>15 DEF Call, Operations
<1>16. CASE Crash
  BY <1>16, Zenon DEF Crash
<1> HIDE DEF DiskTypes, CallTypes, Requests, Locking, Current, NoRequest
<1> QED
  BY <1>1, <1>2, <1>3, <1>4, <1>5, <1>6, <1>7, <1>8, <1>9,
     <1>10, <1>11, <1>12, <1>13, <1>14, <1>15, <1>16, Zenon DEF Next, Operations

\* What a call has found out.
LEMMA CurrentStep ==
    ASSUME Calls, Room, Next
    PROVE  Current'
<1> USE FsAssumption, StorageAssumption
    DEF Calls, Goto, Answers, Fails, diskVars, lockVars, DiskTypes, CallTypes, Requests,
        Locking, Current, NoRequest
<1>1. ASSUME NEW t \in Threads, RLock(t) PROVE Current'
  BY <1>1, Zenon DEF RLock
<1>2. ASSUME NEW t \in Threads, Lock(t) PROVE Current'
  BY <1>2 DEF Lock
<1>3. ASSUME NEW t \in Threads, ReadFile(t) PROVE Current'
  BY <1>3 DEF ReadFile
<1>4. ASSUME NEW t \in Threads, Stat(t) PROVE Current'
  BY <1>4 DEF Stat
<1>5. ASSUME NEW t \in Threads, CheckPut(t) PROVE Current'
  BY <1>5 DEF CheckPut
<1>6. ASSUME NEW t \in Threads, CheckDelete(t) PROVE Current'
  BY <1>6 DEF CheckDelete
<1>7. ASSUME NEW t \in Threads, CreateTmp(t) PROVE Current'
  BY <1>7, Zenon DEF CreateTmp
<1>8. ASSUME NEW t \in Threads, FillTmp(t) PROVE Current'
  BY <1>8, Zenon DEF FillTmp
<1>9. ASSUME NEW t \in Threads, WriteFails(t) PROVE Current'
  BY <1>9, Zenon DEF WriteFails
<1>10. ASSUME NEW t \in Threads, Rename(t) PROVE Current'
  BY <1>10 DEF Rename
<1>11. ASSUME NEW t \in Threads, RenameFails(t) PROVE Current'
  BY <1>11 DEF RenameFails
<1>12. ASSUME NEW t \in Threads, Remove(t) PROVE Current'
  BY <1>12 DEF Remove
<1>13. ASSUME NEW t \in Threads, Errs(t) PROVE Current'
  BY <1>13 DEF Errs
<1>14. ASSUME NEW t \in Threads, Return(t) PROVE Current'
  BY <1>14, Zenon DEF Return
<1>15. ASSUME NEW t \in Threads, NEW o \in Operations, NEW k \in Keys, NEW e \in ETags,
              Call(t, o, k, e)
       PROVE  Current'
  BY <1>15 DEF Call, Operations
<1>16. CASE Crash
  BY <1>16, Zenon DEF Crash
<1> HIDE DEF DiskTypes, CallTypes, Requests, Locking, Current, NoRequest
<1> QED
  BY <1>1, <1>2, <1>3, <1>4, <1>5, <1>6, <1>7, <1>8, <1>9,
     <1>10, <1>11, <1>12, <1>13, <1>14, <1>15, <1>16 DEF Next, Operations

-----------------------------------------------------------------------------
(* The bound on the writes, and the temporary files.                       *)

\* A step that makes no version and adds no Put keeps the room.
LEMMA RoomKept ==
    ASSUME Calls, Room, Pending' \subseteq Pending, version' = version
    PROVE  Room'
<1>1. IsFiniteSet(Pending)
  BY FsAssumption, FS_Subset, Zenon DEF Pending
<1>2. Cardinality(Pending') <= Cardinality(Pending) /\ IsFiniteSet(Pending')
  BY <1>1, FS_Subset, Zenon
<1>3. Cardinality(Pending) \in Nat /\ Cardinality(Pending') \in Nat
  BY <1>1, <1>2, FS_CardinalityType, Zenon
<1>4. version \in Nat
  BY DEF Calls, DiskTypes
<1> QED
  BY <1>2, <1>3, <1>4, FsAssumption DEF Room

\* Every step keeps the room for the Puts under way: Call admits a Put only while
\* there is a version left for it, and Rename uses one up with its Put.
LEMMA RoomStep ==
    ASSUME Calls, Room, Next
    PROVE  Room'
<1>1. ASSUME NEW t \in Threads,
             \/ RLock(t) \/ Lock(t) \/ ReadFile(t) \/ Stat(t) \/ CheckPut(t) \/ CheckDelete(t)
             \/ CreateTmp(t) \/ FillTmp(t) \/ WriteFails(t) \/ RenameFails(t) \/ Remove(t)
             \/ Errs(t)
      PROVE  Room'
  <2>1. version' = version /\ req' = req
    BY <1>1, Zenon DEF RLock, Lock, ReadFile, Stat, CheckPut, CheckDelete, CreateTmp, FillTmp,
       WriteFails, RenameFails, Remove, Errs, diskVars
  <2>2. \E l : pc' = [pc EXCEPT ![t] = l] /\ (pc[t] = "done" => l = "done")
    BY <1>1, Zenon DEF RLock, Lock, ReadFile, Stat, CheckPut, CheckDelete, CreateTmp, FillTmp,
       WriteFails, RenameFails, Remove, Errs, Goto, Answers
  <2>3. Pending' \subseteq Pending
    BY <2>1, <2>2, Zenon DEF Pending, Calls, DiskTypes
  <2> QED
    BY <2>1, <2>3, RoomKept, Zenon
<1>2. ASSUME NEW t \in Threads, Return(t)
      PROVE  Room'
  <2>1. version' = version /\ Pending' \subseteq Pending
    BY <1>2, Zenon DEF Return, Goto, diskVars, Pending, Calls, DiskTypes, CallTypes, NoRequest
  <2> QED
    BY <2>1, RoomKept, Zenon
<1>3. CASE Crash
  <2>1. version' = version /\ Pending' \subseteq Pending
    BY <1>3, Zenon DEF Crash, Pending, NoRequest
  <2> QED
    BY <2>1, RoomKept, Zenon
<1>4. ASSUME NEW t \in Threads, Rename(t)
      PROVE  Room'
  <2>1. t \in Pending
    BY <1>4, Zenon DEF Rename, Calls, Current, Pending
  <2>2. IsFiniteSet(Pending)
    BY FsAssumption, FS_Subset, Zenon DEF Pending
  <2>3. Cardinality(Pending \ {t}) = Cardinality(Pending) - 1 /\ IsFiniteSet(Pending \ {t})
    BY <2>1, <2>2, FS_RemoveElement, Zenon
  <2>4. Pending' = Pending \ {t}
    BY <1>4, Zenon DEF Rename, Goto, Answers, Pending, Calls, DiskTypes
  <2>5. Cardinality(Pending) \in Nat /\ version \in Nat /\ version' = version + 1
    BY <1>4, <2>2, FS_CardinalityType DEF Rename, Calls, DiskTypes
  <2> QED
    BY <2>3, <2>4, <2>5, FsAssumption DEF Room
<1>5. ASSUME NEW t \in Threads, NEW o \in Operations, NEW k \in Keys, NEW e \in ETags,
             Call(t, o, k, e)
      PROVE  Room'
  <2> DEFINE Puts == {u \in Threads : req[u].op = "Put"}
  <2>1. version' = version
    BY <1>5, Zenon DEF Call, diskVars
  <2>2. CASE o # "Put"
    <3>1. Pending' \subseteq Pending
      BY <1>5, <2>2, Zenon DEF Call, Goto, Pending, Calls, DiskTypes, CallTypes
    <3> QED
      BY <2>1, <3>1, RoomKept, Zenon
  <2>3. CASE o = "Put"
    <3>1. version + Cardinality(Puts) < MaxVersion /\ t \notin Puts
      BY <1>5, <2>3 DEF Call, Calls, Requests, NoRequest
    <3>2. IsFiniteSet(Puts)
      BY FsAssumption, FS_Subset, Zenon
    <3>3. Cardinality(Puts \cup {t}) = Cardinality(Puts) + 1 /\ IsFiniteSet(Puts \cup {t})
      BY <3>1, <3>2, FS_AddElement, Zenon
    <3>4. Pending' \subseteq Puts \cup {t}
      BY <1>5, Zenon DEF Call, Goto, Pending, Calls, DiskTypes, CallTypes
    <3>5. Cardinality(Pending') <= Cardinality(Puts) + 1 /\ IsFiniteSet(Pending')
      BY <3>3, <3>4, FS_Subset, Zenon
    <3>6. Cardinality(Pending') \in Nat /\ Cardinality(Puts) \in Nat /\ version \in Nat
      BY <3>2, <3>5, FS_CardinalityType DEF Calls, DiskTypes
    <3> QED
      BY <2>1, <3>1, <3>5, <3>6, FsAssumption DEF Room
  <2> QED
    BY <2>2, <2>3, Zenon
<1> QED
  BY <1>1, <1>2, <1>3, <1>4, <1>5, Zenon DEF Next, Operations

\* The inductive invariant.
IInv == Calls /\ Room /\ orphans <= faults

\* A file that is left behind has cost a failure.
LEMMA OrphanStep ==
    ASSUME IInv, Next
    PROVE  orphans' <= faults'
<1>1. orphans \in Nat /\ faults \in Nat /\ orphans <= faults
  BY FsAssumption DEF IInv, Calls, DiskTypes
<1>2. ASSUME NEW t \in Threads, WriteFails(t)
      PROVE  orphans' <= faults'
  BY <1>1, <1>2 DEF WriteFails, Fails
<1>3. CASE Crash
  <2>1. Cardinality({t \in Threads : tmp[t] # Absent}) \in 0..1
    BY TmpFiles, Zenon DEF IInv
  <2> QED
    BY <1>1, <1>3, <2>1 DEF Crash, Fails
<1>4. CASE ~Crash /\ ~(\E t \in Threads : WriteFails(t))
  <2>1. orphans' = orphans /\ faults' \in {faults, faults + 1}
    BY <1>4, Zenon DEF Next, RLock, Lock, ReadFile, Stat, CheckPut, CheckDelete, CreateTmp,
       FillTmp, Rename, RenameFails, Remove, Errs, Return, Call, Fails, diskVars
  <2> QED
    BY <1>1, <2>1
<1> QED
  BY <1>2, <1>3, <1>4, Zenon

\* An empty directory and no calls.
LEMMA InitInv == Init => IInv
<1> SUFFICES ASSUME Init PROVE IInv
  BY Zenon
<1>1. Pending = {}
  BY Zenon DEF Init, Pending, NoRequest
<1>2. Room
  BY <1>1, FS_EmptySet, FsAssumption DEF Init, Room
<1> QED
  BY <1>2, InitCalls DEF Init, IInv

\* The invariant is inductive.
LEMMA NextInv == IInv /\ [Next]_vars => IInv'
<1> SUFFICES ASSUME IInv, [Next]_vars PROVE IInv'
  BY Zenon
<1>1. CASE Next
  <2>1. Calls'
    BY <1>1, DiskStep, CallTypeStep, RequestStep, LockStep, CurrentStep, Zenon DEF IInv, Calls
  <2> QED
    BY <1>1, <2>1, RoomStep, OrphanStep, Zenon DEF IInv
<1>2. CASE UNCHANGED vars
  <2>1. (DiskTypes /\ CallTypes /\ Requests /\ Answered)'
    BY <1>2, Zenon DEF vars, IInv, Calls, DiskTypes, CallTypes, Requests, Answered
  <2>2. (Locking /\ Current)'
    BY <1>2, Zenon DEF vars, IInv, Calls, Locking, Current
  <2>3. (Room /\ orphans <= faults)'
    BY <1>2, Zenon DEF vars, IInv, Room, Pending
  <2> QED
    BY <2>1, <2>2, <2>3, Zenon DEF IInv, Calls
<1> QED
  BY <1>1, <1>2, Zenon

\* No document file is ever half-written, whatever fails and whenever the process
\* dies, and each temporary file that stays has cost a failed write or a crash.
THEOREM FilesAreWhole == Spec => [](TypeOK /\ OrphansAccounted)
<1>1. IInv => TypeOK /\ OrphansAccounted
  BY Types, TmpFiles DEF IInv, OrphansAccounted
<1> QED
  BY InitInv, NextInv, <1>1, PTL DEF Spec
-----------------------------------------------------------------------------
(* The refinement of AtomicStore.                                          *)

\* The variable of AtomicStore.
abstractCall == [t \in Threads |-> callOf(t)]

\* A step of the call of t changes the abstract call of t alone.
LEMMA OneCall ==
    ASSUME NEW t \in Threads, NEW c,
           \A u \in Threads \ {t} : pc'[u] = pc[u] /\ req'[u] = req[u] /\ ans'[u] = ans[u],
           callOf(t)' = c
    PROVE  abstractCall' = [abstractCall EXCEPT ![t] = c]
<1>1. \A u \in Threads \ {t} : callOf(u)' = callOf(u)
  BY Zenon DEF callOf
<1> QED
  BY <1>1, Zenon DEF abstractCall

\* The abstract call of a goroutine, by its step.
LEMMA CallIs ==
    ASSUME Calls, NEW t \in Threads
    PROVE  /\ pc[t] = "idle" => callOf(t) = [st |-> "idle"]
           /\ pc[t] \notin {"idle", "done"} =>
                callOf(t) = [st |-> "called", op |-> req[t].op, key |-> req[t].key,
                             etag |-> req[t].etag]
           /\ pc[t] = "done" =>
                callOf(t) = [st |-> "done", res |-> ans[t].res, val |-> ans[t].val,
                             etag |-> ans[t].etag]
BY DEF Calls, Answered, callOf, NoAnswer, Answer

\* Steps that no caller sees: the mutex, the checks that pass, the temporary file.
LEMMA Unseen ==
    ASSUME Calls, NEW t \in Threads, UNCHANGED <<req, ans, files, version>>,
           NEW l, pc' = [pc EXCEPT ![t] = l], l # "idle", pc[t] # "idle"
    PROVE  UNCHANGED <<files, version, abstractCall>>
<1>1. pc'[t] = l /\ \A u \in Threads \ {t} : pc'[u] = pc[u]
  BY Zenon DEF Calls, DiskTypes
<1>2. \A u \in Threads : callOf(u)' = callOf(u)
  BY <1>1, Zenon DEF callOf
<1> QED
  BY <1>2, Zenon DEF abstractCall

\* An answer a, as the caller sees it.
LEMMA Answering ==
    ASSUME Calls, NEW t \in Threads, NEW a, a.res # "none", Answers(t, a), UNCHANGED req
    PROVE  abstractCall' = [abstractCall EXCEPT ![t] =
             [st |-> "done", res |-> a.res, val |-> a.val, etag |-> a.etag]]
<1>1. /\ pc'[t] = "done" /\ ans'[t] = a
      /\ \A u \in Threads \ {t} : pc'[u] = pc[u] /\ ans'[u] = ans[u]
  BY Zenon DEF Calls, DiskTypes, CallTypes, Answers, Goto
<1>2. callOf(t)' = [st |-> "done", res |-> a.res, val |-> a.val, etag |-> a.etag]
  BY <1>1 DEF callOf, NoAnswer, Answer
<1> QED
  BY <1>1, <1>2, OneCall

\* Every step of the driver is one of AtomicStore, or none.
LEMMA StepRefines ==
    ASSUME Calls, Room, Next
    PROVE  [Atomic!Next]_<<files, version, abstractCall>>
<1> DEFINE Goal == [Atomic!Next]_<<files, version, abstractCall>>
<1>a. \A t \in Threads : abstractCall[t] = callOf(t)
  BY Zenon DEF abstractCall
<1>b. ASSUME NEW t \in Threads, NEW o, NEW k, NEW e,
             callOf(t) = [st |-> "called", op |-> o, key |-> k, etag |-> e]
      PROVE  /\ abstractCall[t].st = "called" /\ abstractCall[t].op = o
             /\ abstractCall[t].key = k /\ abstractCall[t].etag = e
  BY <1>a, <1>b
<1>1. ASSUME NEW t \in Threads, RLock(t) \/ Lock(t) \/ CreateTmp(t) \/ FillTmp(t)
      PROVE  Goal
  <2>1. /\ UNCHANGED <<req, ans, files, version>> /\ pc[t] # "idle"
        /\ \E l \in {"read", "check", "write", "rename"} : pc' = [pc EXCEPT ![t] = l]
    BY <1>1, Zenon DEF RLock, Lock, CreateTmp, FillTmp, Goto, diskVars
  <2> QED
    BY <2>1, Unseen, Zenon
<1>2. ASSUME NEW t \in Threads, ReadFile(t)
      PROVE  Goal
  <2>1. callOf(t) = [st |-> "called", op |-> "Get", key |-> req[t].key, etag |-> req[t].etag]
    BY <1>2, CallIs, Zenon DEF ReadFile, Calls, Current
  <2>2. CASE files[req[t].key] = Absent
    <3>1. /\ Answers(t, Refused("ErrNotFound")) /\ UNCHANGED <<req, files, version>>
      BY <1>2, <2>2, Zenon DEF ReadFile, diskVars
    <3>2. abstractCall' = [abstractCall EXCEPT ![t] =
            [st |-> "done", res |-> "ErrNotFound", val |-> Absent, etag |-> Absent]]
      BY <3>1, Answering, Zenon DEF Refused, Answer
    <3>a. /\ abstractCall[t].st = "called" /\ abstractCall[t].op = "Get"
          /\ abstractCall[t].key = req[t].key /\ abstractCall[t].etag = req[t].etag
      BY <1>b, <2>1
    <3>3. Atomic!Get(t)
      BY <3>a, <2>1, <2>2, <3>1, <3>2, Zenon
         DEF Atomic!Get, Atomic!Refused, Atomic!Done, abstractCall
    <3> QED
      BY <3>3, Zenon DEF Atomic!Next
  <2>3. CASE files[req[t].key] # Absent
    <3>1. UNCHANGED <<req, ans, files, version>> /\ pc[t] # "idle"
          /\ pc' = [pc EXCEPT ![t] = "stat"]
      BY <1>2, <2>3, Zenon DEF ReadFile, Goto, diskVars
    <3> QED
      BY <3>1, Unseen, Zenon
  <2> QED
    BY <2>2, <2>3, Zenon
<1>3. ASSUME NEW t \in Threads, Stat(t)
      PROVE  Goal
  <2> DEFINE v == files[req[t].key]
  <2>1. /\ callOf(t) = [st |-> "called", op |-> "Get", key |-> req[t].key, etag |-> req[t].etag]
        /\ v # Absent /\ data[t] = v
    BY <1>3, CallIs, Zenon DEF Stat, Calls, Current
  <2>2. Answers(t, Answer("ok", v, v)) /\ UNCHANGED <<req, files, version>>
    BY <1>3, <2>1, Zenon DEF Stat, diskVars
  <2>3. abstractCall' = [abstractCall EXCEPT ![t] =
          [st |-> "done", res |-> "ok", val |-> v, etag |-> v]]
    BY <2>2, Answering, Zenon DEF Answer
  <2>a. /\ abstractCall[t].st = "called" /\ abstractCall[t].op = "Get"
        /\ abstractCall[t].key = req[t].key /\ abstractCall[t].etag = req[t].etag
    BY <1>b, <2>1
  <2>4. Atomic!Get(t)
    BY <2>a, <2>1, <2>2, <2>3, Zenon DEF Atomic!Get, Atomic!Done, abstractCall
  <2> QED
    BY <2>4, Zenon DEF Atomic!Next
<1>4. ASSUME NEW t \in Threads, CheckPut(t)
      PROVE  Goal
  <2> DEFINE r == PutAnswer(files[req[t].key], req[t].etag)
  <2>1. callOf(t) = [st |-> "called", op |-> "Put", key |-> req[t].key, etag |-> req[t].etag]
    BY <1>4, CallIs, Zenon DEF CheckPut
  <2>2. CASE r = "ok"
    <3>1. UNCHANGED <<req, ans, files, version>> /\ pc[t] # "idle"
          /\ pc' = [pc EXCEPT ![t] = "create"]
      BY <1>4, <2>2, Zenon DEF CheckPut, Goto, diskVars
    <3> QED
      BY <3>1, Unseen, Zenon
  <2>3. CASE r # "ok"
    <3>1. Answers(t, Refused(r)) /\ UNCHANGED <<req, files, version>>
      BY <1>4, <2>3, Zenon DEF CheckPut, diskVars
    <3>2. r # "none"
      BY AnswerTypes, Zenon
    <3> HIDE DEF r
    <3>3. abstractCall' = [abstractCall EXCEPT ![t] =
            [st |-> "done", res |-> r, val |-> Absent, etag |-> Absent]]
      BY <3>1, <3>2, Answering, Zenon DEF Refused, Answer
    <3>a. /\ abstractCall[t].st = "called" /\ abstractCall[t].op = "Put"
          /\ abstractCall[t].key = req[t].key /\ abstractCall[t].etag = req[t].etag
      BY <1>b, <2>1
    <3>4. Atomic!Put(t)
      BY <3>a, <2>1, <2>3, <3>1, <3>3, Zenon
         DEF Atomic!Put, Atomic!Refused, Atomic!Done, abstractCall, r
    <3> QED
      BY <3>4, Zenon DEF Atomic!Next
  <2> QED
    BY <2>2, <2>3, Zenon
<1>5. ASSUME NEW t \in Threads, CheckDelete(t)
      PROVE  Goal
  <2> DEFINE r == DeleteAnswer(files[req[t].key], req[t].etag)
  <2>1. callOf(t) = [st |-> "called", op |-> "Delete", key |-> req[t].key, etag |-> req[t].etag]
    BY <1>5, CallIs, Zenon DEF CheckDelete
  <2>2. CASE r = "ok"
    <3>1. UNCHANGED <<req, ans, files, version>> /\ pc[t] # "idle"
          /\ pc' = [pc EXCEPT ![t] = "remove"]
      BY <1>5, <2>2, Zenon DEF CheckDelete, Goto, diskVars
    <3> QED
      BY <3>1, Unseen, Zenon
  <2>3. CASE r # "ok"
    <3>1. Answers(t, Refused(r)) /\ UNCHANGED <<req, files, version>>
      BY <1>5, <2>3, Zenon DEF CheckDelete, diskVars
    <3>2. r # "none"
      BY AnswerTypes, Zenon
    <3> HIDE DEF r
    <3>3. abstractCall' = [abstractCall EXCEPT ![t] =
            [st |-> "done", res |-> r, val |-> Absent, etag |-> Absent]]
      BY <3>1, <3>2, Answering, Zenon DEF Refused, Answer
    <3>a. /\ abstractCall[t].st = "called" /\ abstractCall[t].op = "Delete"
          /\ abstractCall[t].key = req[t].key /\ abstractCall[t].etag = req[t].etag
      BY <1>b, <2>1
    <3>4. Atomic!Delete(t)
      BY <3>a, <2>1, <2>3, <3>1, <3>3, Zenon
         DEF Atomic!Delete, Atomic!Refused, Atomic!Done, abstractCall, r
    <3> QED
      BY <3>4, Zenon DEF Atomic!Next
  <2> QED
    BY <2>2, <2>3, Zenon
<1>6. ASSUME NEW t \in Threads, WriteFails(t) \/ RenameFails(t) \/ Errs(t)
      PROVE  Goal
  <2>1. /\ Answers(t, Refused("error")) /\ UNCHANGED <<req, files, version>>
        /\ pc[t] # "idle"
    BY <1>6, Zenon DEF WriteFails, RenameFails, Errs, diskVars
  <2>2. abstractCall' = [abstractCall EXCEPT ![t] =
          [st |-> "done", res |-> "error", val |-> Absent, etag |-> Absent]]
    BY <2>1, Answering, Zenon DEF Refused, Answer
  <2>3. callOf(t) # [st |-> "idle"]
    <3>1. callOf(t).st \in {"called", "done"}
      BY <2>1, CallIs
    <3>2. [st |-> "idle"].st = "idle"
      BY Zenon
    <3> QED
      BY <3>1, <3>2, Zenon
  <2>4. Atomic!Fail(t)
    BY <1>a, <2>1, <2>2, <2>3, Zenon
       DEF Atomic!Fail, Atomic!Refused, Atomic!Done, Atomic!Idle, abstractCall
  <2> QED
    BY <2>4, Zenon DEF Atomic!Next
<1>7. ASSUME NEW t \in Threads, Rename(t)
      PROVE  Goal
  <2>1. /\ callOf(t) = [st |-> "called", op |-> "Put", key |-> req[t].key, etag |-> req[t].etag]
        /\ PutAnswer(files[req[t].key], req[t].etag) = "ok" /\ tmp[t] = version + 1
    BY <1>7, CallIs, Zenon DEF Rename, Calls, Current
  <2>2. version < MaxVersion
    BY <1>7, RoomForPut, FsAssumption DEF Rename, Calls, DiskTypes
  <2>3. /\ Answers(t, Answer("ok", version + 1, version + 1)) /\ UNCHANGED req
        /\ files' = [files EXCEPT ![req[t].key] = version + 1] /\ version' = version + 1
    BY <1>7, <2>1, Zenon DEF Rename
  <2>4. abstractCall' = [abstractCall EXCEPT ![t] =
          [st |-> "done", res |-> "ok", val |-> version + 1, etag |-> version + 1]]
    BY <2>3, Answering, Zenon DEF Answer
  <2>a. /\ abstractCall[t].st = "called" /\ abstractCall[t].op = "Put"
        /\ abstractCall[t].key = req[t].key /\ abstractCall[t].etag = req[t].etag
    BY <1>b, <2>1
  <2>5. Atomic!Put(t)
    BY <2>a, <2>1, <2>2, <2>3, <2>4, Zenon DEF Atomic!Put, Atomic!Done, abstractCall
  <2> QED
    BY <2>5, Zenon DEF Atomic!Next
<1>8. ASSUME NEW t \in Threads, Remove(t)
      PROVE  Goal
  <2>1. /\ callOf(t) = [st |-> "called", op |-> "Delete", key |-> req[t].key, etag |-> req[t].etag]
        /\ DeleteAnswer(files[req[t].key], req[t].etag) = "ok"
    BY <1>8, CallIs, Zenon DEF Remove, Calls, Current
  <2>2. /\ Answers(t, Refused("ok")) /\ UNCHANGED <<req, version>>
        /\ files' = [files EXCEPT ![req[t].key] = Absent]
    BY <1>8, Zenon DEF Remove
  <2>3. abstractCall' = [abstractCall EXCEPT ![t] =
          [st |-> "done", res |-> "ok", val |-> Absent, etag |-> Absent]]
    BY <2>2, Answering, Zenon DEF Refused, Answer
  <2>a. /\ abstractCall[t].st = "called" /\ abstractCall[t].op = "Delete"
        /\ abstractCall[t].key = req[t].key /\ abstractCall[t].etag = req[t].etag
    BY <1>b, <2>1
  <2>4. Atomic!Delete(t)
    BY <2>a, <2>1, <2>2, <2>3, Zenon
       DEF Atomic!Delete, Atomic!Refused, Atomic!Done, abstractCall
  <2> QED
    BY <2>4, Zenon DEF Atomic!Next
<1>9. ASSUME NEW t \in Threads, Return(t)
      PROVE  Goal
  <2>1. callOf(t).st = "done"
    BY <1>9, CallIs DEF Return
  <2>2. /\ callOf(t)' = [st |-> "idle"] /\ UNCHANGED <<files, version>>
        /\ \A u \in Threads \ {t} : pc'[u] = pc[u] /\ req'[u] = req[u] /\ ans'[u] = ans[u]
    BY <1>9, Zenon DEF Return, Goto, callOf, diskVars, Calls, DiskTypes, CallTypes
  <2>3. abstractCall' = [abstractCall EXCEPT ![t] = [st |-> "idle"]]
    BY <2>2, OneCall, Zenon
  <2>4. Atomic!Return(t)
    BY <1>a, <2>1, <2>2, <2>3, Zenon DEF Atomic!Return, Atomic!Idle, abstractCall
  <2> QED
    BY <2>4, Zenon DEF Atomic!Next
<1>10. ASSUME NEW t \in Threads, NEW o \in Operations, NEW k \in Keys, NEW e \in ETags,
              Call(t, o, k, e)
       PROVE  Goal
  <2>1. callOf(t) = [st |-> "idle"]
    BY <1>10, CallIs, Zenon DEF Call
  <2>2. /\ UNCHANGED <<files, version>>
        /\ pc'[t] = "lock" /\ req'[t] = [op |-> o, key |-> k, etag |-> e] /\ ans'[t] = NoAnswer
        /\ \A u \in Threads \ {t} : pc'[u] = pc[u] /\ req'[u] = req[u] /\ ans'[u] = ans[u]
    BY <1>10, Zenon DEF Call, Goto, diskVars, Calls, DiskTypes, CallTypes, Answered
  <2>3. callOf(t)' = [st |-> "called", op |-> o, key |-> k, etag |-> e]
    BY <2>2 DEF callOf, NoAnswer
  <2>4. abstractCall' = [abstractCall EXCEPT ![t] =
          [st |-> "called", op |-> o, key |-> k, etag |-> e]]
    BY <2>2, <2>3, OneCall
  <2>5. Atomic!Invoke(t, o, k, e)
    BY <1>a, <2>1, <2>2, <2>4, Zenon DEF Atomic!Invoke, Atomic!Idle, Atomic!Called, abstractCall
  <2> QED
    BY <2>5, Zenon DEF Atomic!Next, Operations
<1>11. ASSUME Crash PROVE Goal
  <2>1. abstractCall' = [t \in Threads |-> [st |-> "idle"]] /\ UNCHANGED <<files, version>>
    BY <1>11, Zenon DEF Crash, abstractCall, callOf
  <2>2. Atomic!Crash
    BY <2>1, Zenon DEF Atomic!Crash, Atomic!Idle, abstractCall
  <2> QED
    BY <2>2, Zenon DEF Atomic!Next
<1> HIDE DEF Goal
<1>12. Goal
  <2>1. CASE Crash
    BY <1>11, <2>1, Zenon
  <2>2. ASSUME NEW t \in Threads,
               \/ RLock(t) \/ Lock(t) \/ ReadFile(t) \/ Stat(t)
               \/ CheckPut(t) \/ CheckDelete(t)
               \/ CreateTmp(t) \/ FillTmp(t) \/ WriteFails(t)
               \/ Rename(t) \/ RenameFails(t) \/ Remove(t) \/ Errs(t) \/ Return(t)
        PROVE  Goal
    BY <2>2, <1>1, <1>2, <1>3, <1>4, <1>5, <1>6, <1>7, <1>8, <1>9, Zenon
  <2>3. ASSUME NEW t \in Threads,
               \E o \in Operations, k \in Keys, e \in ETags : Call(t, o, k, e)
        PROVE  Goal
    BY <2>3, <1>10, Zenon
  <2> QED
    BY <2>1, <2>2, <2>3, Zenon DEF Next, Operations
<1> QED
  BY <1>12, Zenon DEF Goal

\* The driver implements AtomicStore: the calls of concurrent goroutines have
\* their effects one at a time, comparison and write together, and neither a
\* failing system call nor a crash shows or loses anything else.
THEOREM DriverIsAtomic == Spec => ImplementsAtomicStore
<1>1. Init => Atomic!Init
  BY Zenon DEF Init, Atomic!Init, Atomic!Idle, callOf
<1>2. IInv /\ [Next]_vars => [Atomic!Next]_(Atomic!vars)
  <2> SUFFICES ASSUME IInv, [Next]_vars PROVE [Atomic!Next]_(Atomic!vars)
    BY Zenon
  <2>1. CASE Next
    BY <2>1, StepRefines, Zenon DEF IInv, Atomic!vars, abstractCall
  <2>2. CASE UNCHANGED vars
    BY <2>2, Zenon DEF vars, Atomic!vars, callOf
  <2> QED
    BY <2>1, <2>2, Zenon
<1> QED
  BY InitInv, NextInv, <1>1, <1>2, PTL DEF Spec, ImplementsAtomicStore, Atomic!Spec
=============================================================================
