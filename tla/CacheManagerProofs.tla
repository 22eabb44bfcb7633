------------------------- MODULE CacheManagerProofs -------------------------
(***************************************************************************)
(* Proofs about CacheManager, and about the clients of CASRetry on top of  *)
(* it, for any sets of keys and goroutines and any number of writes and    *)
(* failures.                                                               *)
(***************************************************************************)
EXTENDS CASRetry, TLAPS

\* Only a Get is ever at the steps of a Get.
GetSteps ==
    \A t \in Threads :
      pc[t] \in {"miss", "wait", "read", "forget", "close"} => op[t] = "Get"

\* What a goroutine is about to cache is an object, and what storage holds
\* unless a write overtook it.
AdmittedIsCurrent ==
    \A t \in Threads :
      pc[t] = "admit" => /\ val[t] \in Nat
                         /\ key[t] \in raced \/ val[t] = store[key[t]]

\* The singleflight part of the invariant, and the coherence part.
Flight == TypeOK /\ GetSteps /\ OneLeaderPerKey /\ NobodyWaitsInVain
Coherence == AdmittedIsCurrent /\ CoherentUnlessRaced

\* The inductive invariant.
IInv == Flight /\ Coherence

\* The state NewManager leaves.
LEMMA InitInv == Init => IInv
<1> SUFFICES ASSUME Init PROVE IInv
  OBVIOUS
<1>1. \E k \in Keys : TRUE
  BY ManagerAssumption
<1>2. (CHOOSE k \in Keys : TRUE) \in Keys
  BY <1>1
<1>3. Flight
  BY <1>2, ManagerAssumption, StorageAssumption
  DEF Init, Flight, TypeOK, GetSteps, OneLeaderPerKey, NobodyWaitsInVain, Leading
<1>4. Coherence
  BY DEF Init, Coherence, AdmittedIsCurrent, CoherentUnlessRaced
<1> QED
  BY <1>3, <1>4 DEF IInv

-----------------------------------------------------------------------------
(* Singleflight.                                                           *)

\* The steps of a goroutine inside an operation.
LEMMA FlightStep ==
    ASSUME IInv, NEW t \in Threads, Step(t) \/ CancelWait(t)
    PROVE  Flight'
<1> USE ManagerAssumption, StorageAssumption
    DEF IInv, Flight, TypeOK, GetSteps, OneLeaderPerKey, NobodyWaitsInVain, Leading,
        Goto, storeVars, cacheVars
<1>1. CASE Lead(t)
  BY <1>1 DEF Lead
<1>2. CASE Join(t)
  BY <1>2 DEF Join
<1>3. CASE ColdRead(t)
  BY <1>3 DEF ColdRead
<1>4. CASE ColdReadFails(t)
  BY <1>4 DEF ColdReadFails, Fails
<1>5. CASE Admit(t)
  <2>1. val[t] \in Nat
    BY <1>5 DEF Admit, Coherence, AdmittedIsCurrent
  <2>2. /\ item' \in [Keys -> Nat \cup {NoItem}] /\ fresh' \in [Keys -> BOOLEAN]
        /\ raced' \subseteq Keys
    <3>1. CASE Dropped(t, key[t])
      BY <3>1 DEF Dropped
    <3>2. CASE /\ item' = [item EXCEPT ![key[t]] = val[t]]
               /\ fresh' = [fresh EXCEPT ![key[t]] = TRUE]
               /\ UNCHANGED raced
      BY <2>1, <3>2
    <3> QED
      BY <1>5, <3>1, <3>2 DEF Admit
  <2>3. CASE op[t] = "Get"
    BY <1>5, <2>2, <2>3 DEF Admit, AfterUpdate
  <2>4. CASE op[t] # "Get"
    BY <1>5, <2>2, <2>4 DEF Admit, AfterUpdate
  <2> QED
    BY <2>3, <2>4
<1>6. CASE Invalidate(t)
  BY <1>6 DEF Invalidate, Dropped, AfterUpdate
<1>7. CASE Forget(t)
  BY <1>7 DEF Forget
<1>8. CASE CloseCall(t)
  BY <1>8 DEF CloseCall
<1>9. CASE CancelWait(t)
  BY <1>9 DEF CancelWait
<1> QED
  BY <1>1, <1>2, <1>3, <1>4, <1>5, <1>6, <1>7, <1>8, <1>9 DEF Step

\* What a driver call leaves of the variables of the driver, whether or not it
\* was applied.
LEMMA DriverTypes ==
    ASSUME TypeOK, NEW t, NEW k \in Keys, NEW v \in Nat \cup {Absent},
           \/ UNCHANGED <<store, raced>>
           \/ Written(t, k, v)
    PROVE  store' \in [Keys -> Nat \cup {Absent}] /\ raced' \subseteq Keys
BY DEF TypeOK, Written

\* What a call of the driver returns.
Results == {"ok", "error", "ErrNotFound", "ErrAlreadyExists", "ErrVersionMismatch"}

\* The call itself.
LEMMA FlightBegins ==
    ASSUME Flight, NEW t \in Threads, NEW k \in Keys, NEW o \in {"Put", "Delete"},
           NEW l \in {"admit", "invalidate"}, NEW v \in Nat \cup {Absent}, NEW r \in Results,
           Begins(t, o, k, l, v, r),
           store' \in [Keys -> Nat \cup {Absent}], raced' \subseteq Keys,
           version' \in 0..MaxVersion, faults' \in 0..MaxFaults
    PROVE  Flight'
BY ManagerAssumption
DEF Flight, TypeOK, GetSteps, OneLeaderPerKey, NobodyWaitsInVain, Leading, Begins, Goto,
    cacheVars, Results

\* What a driver call answers.
LEMMA AnswerTypes ==
    ASSUME NEW c, NEW e
    PROVE  PutAnswer(c, e) \in Results /\ DeleteAnswer(c, e) \in Results
BY DEF PutAnswer, DeleteAnswer, Results

\* The calls that start an operation.
LEMMA FlightCall ==
    ASSUME IInv, NEW t \in Threads, NEW k \in Keys,
           \/ GetHit(t, k) \/ GetMiss(t, k)
           \/ \E e : Put(t, k, e) \/ Delete(t, k, e)
    PROVE  Flight'
<1>1. CASE GetHit(t, k) \/ GetMiss(t, k)
  BY <1>1, ManagerAssumption
  DEF IInv, Flight, TypeOK, GetSteps, OneLeaderPerKey, NobodyWaitsInVain, Leading,
      Goto, storeVars, cacheVars, GetHit, GetMiss
<1>2. ASSUME NEW e, Put(t, k, e)
      PROVE  Flight'
  <2>1. /\ version' \in 0..MaxVersion /\ faults' \in 0..MaxFaults
        /\ version + 1 \in Nat
    BY <1>2, ManagerAssumption DEF Put, Fails, IInv, Flight, TypeOK, storeVars
  <2>2. store' \in [Keys -> Nat \cup {Absent}] /\ raced' \subseteq Keys
    <3>1. TypeOK /\ (UNCHANGED <<store, raced>> \/ Written(t, k, version + 1))
      BY <1>2 DEF Put, IInv, Flight, storeVars
    <3> QED
      BY <2>1, <3>1, DriverTypes
  <2>3. PutAnswer(store[k], e) \in Results
    BY AnswerTypes
  <2>4. CASE Begins(t, "Put", k, "admit", version + 1, "ok")
    BY <2>1, <2>2, <2>4, FlightBegins DEF IInv, Results
  <2>5. CASE Begins(t, "Put", k, "invalidate", Absent, PutAnswer(store[k], e))
    BY <2>1, <2>2, <2>3, <2>5, FlightBegins DEF IInv
  <2>6. CASE Begins(t, "Put", k, "invalidate", Absent, "error")
    BY <2>1, <2>2, <2>6, FlightBegins DEF IInv, Results
  <2> QED
    BY <1>2, <2>4, <2>5, <2>6 DEF Put
<1>3. ASSUME NEW e, Delete(t, k, e)
      PROVE  Flight'
  <2>1. version' \in 0..MaxVersion /\ faults' \in 0..MaxFaults
    BY <1>3, ManagerAssumption DEF Delete, Fails, IInv, Flight, TypeOK
  <2>2. store' \in [Keys -> Nat \cup {Absent}] /\ raced' \subseteq Keys
    <3>1. TypeOK /\ (UNCHANGED <<store, raced>> \/ Written(t, k, Absent))
      BY <1>3 DEF Delete, IInv, Flight
    <3> QED
      BY <3>1, DriverTypes
  <2>3. DeleteAnswer(store[k], e) \in Results
    BY AnswerTypes
  <2>4. CASE Begins(t, "Delete", k, "invalidate", Absent, DeleteAnswer(store[k], e))
    BY <2>1, <2>2, <2>3, <2>4, FlightBegins DEF IInv
  <2>5. CASE Begins(t, "Delete", k, "invalidate", Absent, "error")
    BY <2>1, <2>2, <2>5, FlightBegins DEF IInv, Results
  <2> QED
    BY <1>3, <2>4, <2>5 DEF Delete
<1> QED
  BY <1>1, <1>2, <1>3

\* Evictions and the TTL.
LEMMA FlightEnvironment ==
    ASSUME IInv, NEW k \in Keys, Evict(k) \/ Expire(k)
    PROVE  Flight'
<1> USE DEF IInv, Flight, TypeOK, GetSteps, OneLeaderPerKey, NobodyWaitsInVain, Leading,
        storeVars, threadVars
<1>1. CASE Evict(k)
  BY <1>1 DEF Evict, Dropped
<1>2. CASE Expire(k)
  BY <1>2 DEF Expire
<1> QED
  BY <1>1, <1>2

-----------------------------------------------------------------------------
(* Coherence.                                                              *)

\* The steps of a goroutine inside an operation.
LEMMA CoherenceStep ==
    ASSUME IInv, NEW t \in Threads, Step(t) \/ CancelWait(t)
    PROVE  Coherence'
<1> USE DEF IInv, Flight, TypeOK, Coherence, AdmittedIsCurrent, CoherentUnlessRaced,
        Goto, storeVars, cacheVars
<1>1. CASE Lead(t)
  BY <1>1 DEF Lead
<1>2. CASE Join(t)
  BY <1>2 DEF Join
<1>3. CASE ColdRead(t)
  BY <1>3 DEF ColdRead
<1>4. CASE ColdReadFails(t)
  BY <1>4 DEF ColdReadFails
<1>5. CASE Admit(t)
  BY <1>5 DEF Admit, Dropped, Admitting, AfterUpdate
<1>6. CASE Invalidate(t)
  BY <1>6 DEF Invalidate, Dropped, Admitting, AfterUpdate
<1>7. CASE Forget(t)
  BY <1>7 DEF Forget
<1>8. CASE CloseCall(t)
  BY <1>8 DEF CloseCall
<1>9. CASE CancelWait(t)
  BY <1>9 DEF CancelWait
<1> QED
  BY <1>1, <1>2, <1>3, <1>4, <1>5, <1>6, <1>7, <1>8, <1>9 DEF Step

\* The calls that start an operation.  A write that finds an older admission on
\* its way marks the key; any other leaves an update of its own to come.
LEMMA CoherenceCall ==
    ASSUME IInv, NEW t \in Threads, NEW k \in Keys,
           \/ GetHit(t, k) \/ GetMiss(t, k)
           \/ \E e : Put(t, k, e) \/ Delete(t, k, e)
    PROVE  Coherence'
<1> USE DEF IInv, Flight, TypeOK, Coherence, AdmittedIsCurrent, CoherentUnlessRaced, Goto,
        storeVars, cacheVars
<1>1. CASE GetHit(t, k)
  BY <1>1 DEF GetHit
<1>2. CASE GetMiss(t, k)
  BY <1>2 DEF GetMiss
<1>3. ASSUME NEW e, Put(t, k, e)
      PROVE  Coherence'
  <2>1. CASE /\ version' = version + 1 /\ Written(t, k, version + 1)
             /\ Begins(t, "Put", k, "admit", version + 1, "ok")
    BY <2>1 DEF Written, Begins, Admitting
  <2>2. ASSUME NEW r, Begins(t, "Put", k, "invalidate", Absent, r),
               UNCHANGED <<store, raced>>
        PROVE  Coherence'
    BY <2>2 DEF Begins
  <2>3. ASSUME NEW r, Begins(t, "Put", k, "invalidate", Absent, r),
               Written(t, k, version + 1)
        PROVE  Coherence'
    BY <2>3 DEF Written, Begins, Admitting
  <2> QED
    BY <1>3, <2>1, <2>2, <2>3 DEF Put
<1>4. ASSUME NEW e, Delete(t, k, e)
      PROVE  Coherence'
  <2>1. ASSUME NEW r, Begins(t, "Delete", k, "invalidate", Absent, r),
               UNCHANGED <<store, raced>>
        PROVE  Coherence'
    BY <2>1 DEF Begins
  <2>2. ASSUME NEW r, Begins(t, "Delete", k, "invalidate", Absent, r),
               Written(t, k, Absent)
        PROVE  Coherence'
    BY <2>2 DEF Written, Begins, Admitting
  <2> QED
    BY <1>4, <2>1, <2>2 DEF Delete
<1> QED
  BY <1>1, <1>2, <1>3, <1>4

\* Evictions and the TTL.
LEMMA CoherenceEnvironment ==
    ASSUME IInv, NEW k \in Keys, Evict(k) \/ Expire(k)
    PROVE  Coherence'
<1> USE DEF IInv, Flight, TypeOK, Coherence, AdmittedIsCurrent, CoherentUnlessRaced,
        storeVars, threadVars
<1>1. CASE Evict(k)
  BY <1>1, ManagerAssumption DEF Evict, Dropped, Admitting
<1>2. CASE Expire(k)
  BY <1>2 DEF Expire
<1> QED
  BY <1>1, <1>2

-----------------------------------------------------------------------------
\* The invariant is inductive, for goroutines that call what they like and for
\* the clients of CASRetry.
LEMMA NextInv == IInv /\ [Next \/ RetryNext]_vars => IInv'
<1> SUFFICES ASSUME IInv, [Next \/ RetryNext]_vars PROVE IInv'
  OBVIOUS
<1>1. ASSUME NEW t \in Threads, Step(t) \/ CancelWait(t)
      PROVE  IInv'
  BY <1>1, FlightStep, CoherenceStep DEF IInv
<1>2. ASSUME NEW t \in Threads, NEW k \in Keys,
             \/ GetHit(t, k) \/ GetMiss(t, k)
             \/ \E e : Put(t, k, e) \/ Delete(t, k, e)
      PROVE  IInv'
  BY <1>2, FlightCall, CoherenceCall DEF IInv
<1>3. ASSUME NEW k \in Keys, Evict(k) \/ Expire(k)
      PROVE  IInv'
  BY <1>3, FlightEnvironment, CoherenceEnvironment DEF IInv
<1>4. CASE UNCHANGED vars
  <2>1. Flight'
    BY <1>4 DEF vars, IInv, Flight, TypeOK, GetSteps, OneLeaderPerKey, NobodyWaitsInVain,
       Leading
  <2>2. Coherence'
    BY <1>4 DEF vars, IInv, Coherence, AdmittedIsCurrent, CoherentUnlessRaced
  <2> QED
    BY <2>1, <2>2 DEF IInv
<1>5. CASE Next
  BY <1>1, <1>2, <1>3, <1>5 DEF Next
<1>6. CASE RetryNext
  <2>1. ASSUME NEW c \in Clients, ClientCalls(c)
        PROVE  IInv'
    <3>1. c \in Threads /\ Doc \in Keys
      BY RetryAssumption
    <3>2. GetHit(c, Doc) \/ GetMiss(c, Doc) \/ \E e : Put(c, Doc, e)
      BY <2>1 DEF ClientCalls
    <3> QED
      BY <1>2, <3>1, <3>2
  <2>2. ASSUME NEW t \in Threads, OtherCalls(t)
        PROVE  IInv'
    BY <1>2, <2>2 DEF OtherCalls
  <2> QED
    BY <1>1, <1>3, <1>6, <2>1, <2>2 DEF RetryNext
<1> QED
  BY <1>4, <1>5, <1>6

\* Get coalesces: whatever the goroutines do, at most one of them is at the cold
\* read of a key, it is the one sfCalls names, and everyone who waits waits for a
\* call that is still to be closed.
THEOREM Singleflight == Spec => [](TypeOK /\ OneLeaderPerKey /\ NobodyWaitsInVain)
<1>1. IInv => TypeOK /\ OneLeaderPerKey /\ NobodyWaitsInVain
  BY DEF IInv, Flight
<1>2. IInv /\ [Next]_vars => IInv'
  BY NextInv
<1> QED
  BY InitInv, <1>1, <1>2, PTL DEF Spec

\* An entry that no update is on its way to is what storage holds, unless a write
\* overtook an older admission.
THEOREM CacheCoherence == Spec => []CoherentUnlessRaced
<1>1. IInv => CoherentUnlessRaced
  BY DEF IInv, Coherence
<1>2. IInv /\ [Next]_vars => IInv'
  BY NextInv
<1> QED
  BY InitInv, <1>1, <1>2, PTL DEF Spec

\* The same with clients that read, write back and try again.
THEOREM RetryingClients ==
    RetrySpec => [](OneLeaderPerKey /\ NobodyWaitsInVain /\ CoherentUnlessRaced)
<1>1. IInv => OneLeaderPerKey /\ NobodyWaitsInVain /\ CoherentUnlessRaced
  BY DEF IInv, Flight, Coherence
<1>2. IInv /\ [RetryNext]_vars => IInv'
  BY NextInv
<1> QED
  BY InitInv, <1>1, <1>2, PTL DEF RetrySpec
=============================================================================
