---------------------------- MODULE AtomicStore ----------------------------
(***************************************************************************)
(* What a storage driver promises: every call takes effect at one instant  *)
(* between its start and its return, compares and writes in that instant,  *)
(* and a crash loses calls but no object and shows no half-written one.    *)
(* The memory driver is this: each of its methods is one critical section. *)
(*                                                                         *)
(* Answers depend on the driver (PutAnswer, DeleteAnswer).  An error may   *)
(* stand for any answer that got lost.                                     *)
(***************************************************************************)
EXTENDS Integers

CONSTANTS
    Keys, Threads, ETags,
    Absent,
    MaxVersion,              \* bound on the writes
    PutAnswer(_, _), DeleteAnswer(_, _)

VARIABLES
    store,      \* version of every key, or Absent
    version,    \* the last version written
    call        \* the call of every goroutine

vars == <<store, version, call>>

Idle == [st |-> "idle"]
Called(o, k, e) == [st |-> "called", op |-> o, key |-> k, etag |-> e]

\* The answer of a call: an object is its value and its ETag.
Done(res, val, etag) == [st |-> "done", res |-> res, val |-> val, etag |-> etag]
Refused(res) == Done(res, Absent, Absent)

Init ==
    /\ store = [k \in Keys |-> Absent]
    /\ version = 0
    /\ call = [t \in Threads |-> Idle]

Invoke(t, o, k, e) ==
    /\ call[t] = Idle
    /\ call' = [call EXCEPT ![t] = Called(o, k, e)]
    /\ UNCHANGED <<store, version>>

\* Driver.Get
Get(t) ==
    /\ call[t].st = "called" /\ call[t].op = "Get"
    /\ LET v == store[call[t].key] IN
       call' = [call EXCEPT ![t] = IF v = Absent THEN Refused("ErrNotFound") ELSE Done("ok", v, v)]
    /\ UNCHANGED <<store, version>>

\* Driver.Put
Put(t) ==
    /\ call[t].st = "called" /\ call[t].op = "Put"
    /\ LET answer == PutAnswer(store[call[t].key], call[t].etag) IN
       IF answer # "ok" THEN /\ call' = [call EXCEPT ![t] = Refused(answer)]
                             /\ UNCHANGED <<store, version>>
       ELSE /\ version < MaxVersion
            /\ version' = version + 1
            /\ store' = [store EXCEPT ![call[t].key] = version + 1]
            /\ call' = [call EXCEPT ![t] = Done("ok", version + 1, version + 1)]

\* Driver.Delete
Delete(t) ==
    /\ call[t].st = "called" /\ call[t].op = "Delete"
    /\ LET answer == DeleteAnswer(store[call[t].key], call[t].etag) IN
       /\ store' = IF answer = "ok" THEN [store EXCEPT ![call[t].key] = Absent] ELSE store
       /\ call' = [call EXCEPT ![t] = Refused(answer)]
    /\ UNCHANGED version

\* A call fails before it has its effect, or its answer is lost afterwards.
Fail(t) ==
    /\ call[t] # Idle
    /\ call' = [call EXCEPT ![t] = Refused("error")]
    /\ UNCHANGED <<store, version>>

Return(t) ==
    /\ call[t].st = "done"
    /\ call' = [call EXCEPT ![t] = Idle]
    /\ UNCHANGED <<store, version>>

Crash ==
    /\ call' = [t \in Threads |-> Idle]
    /\ UNCHANGED <<store, version>>

Next ==
    \/ \E t \in Threads :
         \/ Get(t) \/ Put(t) \/ Delete(t) \/ Fail(t) \/ Return(t)
         \/ \E o \in {"Get", "Put", "Delete"}, k \in Keys, e \in ETags : Invoke(t, o, k, e)
    \/ Crash

Spec == Init /\ [][Next]_vars
=============================================================================
