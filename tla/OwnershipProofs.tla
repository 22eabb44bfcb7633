--------------------------- MODULE OwnershipProofs ---------------------------
(***************************************************************************)
(* Proofs about Ownership, for any sets of keys and goroutines and any     *)
(* number of changes of the ring and of writes.                            *)
(***************************************************************************)
EXTENDS Ownership, TLAPS

\* Types; no generation in hand or on record is ahead of the ring's.
Types ==
    /\ generation \in Nat /\ mine \subseteq Keys
    /\ reconciledGen \in Nat /\ reconciledGen <= generation
    /\ mutex \in Threads \cup {NoThread}
    /\ store \in [Keys -> Nat] /\ version \in Nat
    /\ item \in [Keys -> Nat \cup {NoItem}]
    /\ pc \in [Threads -> {"idle", "check", "lock", "purge", "purgeAll", "route", "forward",
                           "local", "read", "admit", "invalidate"}]
    /\ key \in [Threads -> Keys]
    /\ gen \in [Threads -> Nat] /\ \A t \in Threads : gen[t] <= generation
    /\ left \in [Threads -> SUBSET Keys]
    /\ val \in [Threads -> Nat]
    /\ raced \subseteq Keys /\ stray \subseteq Keys

\* What a goroutine is about to cache is what storage holds, unless a write
\* overtook it.
AdmittedIsCurrent ==
    \A t \in Threads : pc[t] = "admit" => key[t] \in raced \/ val[t] = store[key[t]]

\* There is no entry of k, or one that straddles a change.
Excused(k) == item[k] = NoItem \/ k \in raced \/ k \in stray \/ ~Quiet(k)

\* The entry of k is as PurgedWhenReconciled wants it ...
Owned(k) == Excused(k) \/ (k \in mine /\ item[k] = store[k])

\* ... and what is left of that when the ring moves once: an entry that this
\* node may go on using is current, so that the purge of one transition need
\* only look at the owner.
Current(k) == Excused(k) \/ (k \in mine => item[k] = store[k])

\* What reconciledGen says of the cache, and what a purge has achieved so far
\* for the generation it will record.  A selective purge for the ring as it
\* is now comes exactly one generation after the recorded one.
Reconciling ==
    /\ reconciledGen = generation => \A k \in Keys : Owned(k)
    /\ reconciledGen + 1 = generation => \A k \in Keys : Current(k)
    /\ \A t \in Threads :
         /\ pc[t] = "purge" /\ gen[t] = generation =>
              reconciledGen + 1 = generation /\ \A k \in Keys \ left[t] : Owned(k)
         /\ pc[t] = "purgeAll" /\ gen[t] = generation =>
              \A k \in Keys \ left[t] : Owned(k)
         /\ pc[t] = "purgeAll" /\ gen[t] + 1 = generation =>
              \A k \in Keys \ left[t] : Current(k)

\* The inductive invariant.
IInv == Types /\ HolderIsPurging /\ AdmittedIsCurrent /\ Reconciling

\* The state of a node that has just joined.
LEMMA InitInv == Init => IInv
<1> SUFFICES ASSUME Init PROVE IInv
  BY Zenon
<1>1. (CHOOSE k \in Keys : TRUE) \in Keys
  BY OwnershipAssumption, Zenon
<1>2. Types
  BY <1>1, OwnershipAssumption DEF Init, Types
<1>3. HolderIsPurging /\ AdmittedIsCurrent
  BY OwnershipAssumption, Zenon DEF Init, HolderIsPurging, AdmittedIsCurrent
<1>4. Reconciling
  BY Zenon DEF Init, Reconciling, Owned, Current, Excused
<1> QED
  BY <1>2, <1>3, <1>4, Zenon DEF IInv

-----------------------------------------------------------------------------
(* Types and the mutex.                                                    *)

\* reconcileOwnership.
LEMMA TypesReconcile ==
    ASSUME Types, HolderIsPurging, NEW t \in Threads,
           \/ Check(t) \/ Lock(t) \/ GenerationCheck(t) \/ Record(t)
           \/ \E k \in Keys : PurgeMoved(t, k) \/ PurgeAny(t, k)
    PROVE  Types' /\ HolderIsPurging'
<1> USE OwnershipAssumption
    DEF Types, HolderIsPurging, Goto, Reconciled, ringVars, storeVars, cacheVars, requestVars
<1>1. CASE Check(t)
  BY <1>1 DEF Check
<1>2. CASE Lock(t)
  BY <1>2 DEF Lock
<1>3. CASE GenerationCheck(t)
  BY <1>3, Zenon DEF GenerationCheck
<1>4. CASE Record(t)
  BY <1>4 DEF Record
<1>5. ASSUME NEW k \in Keys, PurgeMoved(t, k)
      PROVE  Types' /\ HolderIsPurging'
  BY <1>5, Zenon DEF PurgeMoved, Dropped
<1>6. ASSUME NEW k \in Keys, PurgeAny(t, k)
      PROVE  Types' /\ HolderIsPurging'
  BY <1>6, Zenon DEF PurgeAny, Dropped
<1> QED
  BY <1>1, <1>2, <1>3, <1>4, <1>5, <1>6, Zenon

\* The operation itself.
LEMMA TypesOperate ==
    ASSUME Types, HolderIsPurging, NEW t \in Threads,
           \/ Route(t) \/ Forward(t) \/ LocalGet(t) \/ ColdRead(t) \/ LocalPut(t)
           \/ LocalDelete(t) \/ Admit(t) \/ Invalidate(t)
    PROVE  Types' /\ HolderIsPurging'
<1> USE OwnershipAssumption
    DEF Types, HolderIsPurging, Goto, Return, ringVars, storeVars, cacheVars, requestVars
<1>0. (CHOOSE k \in Keys : TRUE) \in Keys
  BY Zenon
<1>1. CASE Route(t)
  BY <1>1, Zenon DEF Route
<1>2. CASE Forward(t)
  BY <1>0, <1>2 DEF Forward, AppliedElsewhere
<1>3. CASE LocalGet(t)
  BY <1>0, <1>3 DEF LocalGet
<1>4. CASE ColdRead(t)
  BY <1>4, Zenon DEF ColdRead
<1>5. CASE LocalPut(t)
  BY <1>5 DEF LocalPut, Written
<1>6. CASE LocalDelete(t)
  BY <1>6 DEF LocalDelete, Written
<1>7. CASE Admit(t)
  BY <1>0, <1>7, Zenon DEF Admit
<1>8. CASE Invalidate(t)
  BY <1>0, <1>8, Zenon DEF Invalidate, Dropped
<1> QED
  BY <1>1, <1>2, <1>3, <1>4, <1>5, <1>6, <1>7, <1>8, Zenon

\* The rest of the cluster, the budget, and the start of an operation.
LEMMA TypesOthers ==
    ASSUME Types, HolderIsPurging,
           \/ \E owned \in SUBSET Keys : RingMoves(owned)
           \/ \E k \in Keys : WriteElsewhere(k) \/ Evict(k)
           \/ \E t \in Threads, o \in {"Get", "Put", "Delete"}, k \in Keys, r \in BOOLEAN :
                Begin(t, o, k, r)
    PROVE  Types' /\ HolderIsPurging'
<1> USE OwnershipAssumption
    DEF Types, HolderIsPurging, Goto, ringVars, storeVars, cacheVars, requestVars
<1>1. ASSUME NEW owned \in SUBSET Keys, RingMoves(owned)
      PROVE  Types' /\ HolderIsPurging'
  BY <1>1 DEF RingMoves
<1>2. ASSUME NEW k \in Keys, WriteElsewhere(k)
      PROVE  Types' /\ HolderIsPurging'
  BY <1>2 DEF WriteElsewhere, AppliedElsewhere
<1>3. ASSUME NEW k \in Keys, Evict(k)
      PROVE  Types' /\ HolderIsPurging'
  BY <1>3, Zenon DEF Evict, Dropped
<1>4. ASSUME NEW t \in Threads, NEW o \in {"Get", "Put", "Delete"}, NEW k \in Keys, NEW r,
             Begin(t, o, k, r)
      PROVE  Types' /\ HolderIsPurging'
  <2>1. /\ pc[t] = "idle" /\ pc' = [pc EXCEPT ![t] = "check"]
        /\ key' = [key EXCEPT ![t] = k] /\ gen' = [gen EXCEPT ![t] = generation]
        /\ UNCHANGED <<ringVars, reconciledGen, mutex, storeVars, cacheVars, left, val>>
    BY <1>4, Zenon DEF Begin
  <2>2. HolderIsPurging'
    BY <2>1, Zenon
  <2>3. Types'
    BY <2>1
  <2> QED
    BY <2>2, <2>3, Zenon
<1> QED
  BY <1>1, <1>2, <1>3, <1>4
-----------------------------------------------------------------------------
(* Entries and the updates on their way.                                   *)

\* No update of the entry of k is forgotten by the step.
UpdatesStay(k) ==
    \A u \in Threads :
      pc[u] \in {"admit", "invalidate"} /\ key[u] = k =>
        pc'[u] \in {"admit", "invalidate"} /\ key'[u] = k

\* The entry of k is as good as it was, whichever of the two is asked of it.
AsGood(k) == (Owned(k) => Owned(k)') /\ (Current(k) => Current(k)')

\* A step that touches neither the cache nor storage.
LEMMA SameEntry ==
    ASSUME NEW k \in Keys, UpdatesStay(k), UNCHANGED <<mine, item, store, raced, stray>>
    PROVE  AsGood(k)
BY Zenon DEF UpdatesStay, AsGood, Owned, Current, Excused, Quiet

\* A step that drops an entry.
LEMMA DroppedEntry ==
    ASSUME Types, NEW t, NEW d \in Keys, NEW k \in Keys, Dropped(t, d),
           k # d => UpdatesStay(k), UNCHANGED <<mine, store>>
    PROVE  AsGood(k)
<1>1. CASE k = d
  BY <1>1, Zenon DEF Types, Dropped, AsGood, Owned, Current, Excused
<1>2. CASE k # d
  <2>1. item'[k] = item[k] /\ (k \in raced => k \in raced') /\ (k \in stray => k \in stray')
    BY <1>2, Zenon DEF Types, Dropped
  <2> QED
    BY <1>2, <2>1, Zenon DEF UpdatesStay, AsGood, Owned, Current, Excused, Quiet
<1> QED
  BY <1>1, <1>2, Zenon

\* Another node writes: an entry that this node may use becomes excused.
LEMMA AppliedEntry ==
    ASSUME Types, NEW d \in Keys, NEW k \in Keys, AppliedElsewhere(d), UpdatesStay(k),
           UNCHANGED <<mine, item, stray>>
    PROVE  AsGood(k)
<1>1. raced \subseteq raced' /\ (d \in mine => d \in raced')
  BY Zenon DEF AppliedElsewhere
<1>2. k # d => store'[k] = store[k]
  BY Zenon DEF AppliedElsewhere, Types
<1>3. Excused(k) => Excused(k)'
  BY <1>1, Zenon DEF UpdatesStay, Excused, Quiet
<1>4. d \in mine => Excused(d)'
  BY <1>1, Zenon DEF Excused
<1> QED
  BY <1>2, <1>3, <1>4, Zenon DEF AsGood, Owned, Current

\* A goroutine of this node writes: its own update makes up for it.
LEMMA WrittenEntry ==
    ASSUME Types, NEW t \in Threads, NEW k \in Keys, NEW v \in Nat, Written(t, key[t], v),
           UpdatesStay(k), pc'[t] \in {"admit", "invalidate"},
           UNCHANGED <<mine, item, stray, key>>
    PROVE  AsGood(k)
<1>1. CASE k = key[t]
  BY <1>1, Zenon DEF AsGood, Owned, Current, Excused, Quiet
<1>2. CASE k # key[t]
  <2>1. store'[k] = store[k] /\ raced \subseteq raced'
    BY <1>2, Zenon DEF Types, Written
  <2> QED
    BY <2>1, Zenon DEF UpdatesStay, AsGood, Owned, Current, Excused, Quiet
<1> QED
  BY <1>1, <1>2, Zenon

\* An admission: what it stores is current, or excused.
LEMMA AdmittedEntry ==
    ASSUME Types, AdmittedIsCurrent, NEW t \in Threads, NEW k \in Keys, Admit(t)
    PROVE  AsGood(k)
<1> USE DEF ringVars, storeVars
<1>1. CASE k = key[t]
  <2>1. item'[k] = val[t] /\ (k \in mine \/ k \in stray')
    BY <1>1, Zenon DEF Types, Admit
  <2>2. k \in raced' \/ val[t] = store'[k]
    BY <1>1, Zenon DEF Admit, AdmittedIsCurrent
  <2>3. mine' = mine
    BY Zenon DEF Admit
  <2> QED
    BY <2>1, <2>2, <2>3, Zenon DEF AsGood, Owned, Current, Excused
<1>2. CASE k # key[t]
  <2>1. /\ item'[k] = item[k] /\ (k \in stray => k \in stray')
        /\ UNCHANGED <<mine, store, raced>>
    BY <1>2, Zenon DEF Types, Admit
  <2>2. UpdatesStay(k)
    BY <1>2, Zenon DEF UpdatesStay, Types, Admit, Return, Goto
  <2> QED
    BY <2>1, <2>2, Zenon DEF UpdatesStay, AsGood, Owned, Current, Excused, Quiet
<1> QED
  BY <1>1, <1>2, Zenon

\* Every step but a move of the ring.
LEMMA EntriesStayGood ==
    ASSUME Types, AdmittedIsCurrent, NEW k \in Keys,
           \/ \E t \in Threads :
                \/ Step(t)
                \/ \E o \in {"Get", "Put", "Delete"}, d \in Keys, r \in BOOLEAN : Begin(t, o, d, r)
           \/ \E d \in Keys : WriteElsewhere(d) \/ Evict(d)
    PROVE  AsGood(k)
<1> USE DEF ringVars, storeVars, cacheVars, requestVars, Goto
<1>1. ASSUME NEW t \in Threads,
             \/ Check(t) \/ Lock(t) \/ GenerationCheck(t) \/ Record(t) \/ Route(t)
             \/ LocalGet(t) \/ ColdRead(t)
      PROVE  AsGood(k)
  <2>1. UNCHANGED <<mine, item, store, raced, stray>>
    BY <1>1, Zenon DEF Check, Lock, GenerationCheck, Record, Route, LocalGet, ColdRead
  <2>2. \A u \in Threads : pc[u] \in {"admit", "invalidate"} => pc'[u] = pc[u] /\ key'[u] = key[u]
    BY <1>1 DEF Types, Check, Lock, GenerationCheck, Record, Route, LocalGet, ColdRead,
                Reconciled, Return
  <2> QED
    BY <2>1, <2>2, SameEntry, Zenon DEF UpdatesStay
<1>2. ASSUME NEW t \in Threads, NEW d \in Keys, PurgeMoved(t, d)
      PROVE  AsGood(k)
  <2>1. UpdatesStay(k) /\ UNCHANGED <<mine, store>>
    BY <1>2, Zenon DEF PurgeMoved, UpdatesStay
  <2>2. CASE d \notin mine
    BY <1>2, <2>1, <2>2, DroppedEntry, Zenon DEF PurgeMoved
  <2>3. CASE d \in mine
    BY <1>2, <2>1, <2>3, SameEntry, Zenon DEF PurgeMoved
  <2> QED
    BY <2>2, <2>3, Zenon
<1>3. ASSUME NEW t \in Threads, NEW d \in Keys, PurgeAny(t, d)
      PROVE  AsGood(k)
  BY <1>3, DroppedEntry, Zenon DEF PurgeAny, UpdatesStay
<1>4. ASSUME NEW t \in Threads, Forward(t)
      PROVE  AsGood(k)
  <2>1. UpdatesStay(k)
    BY <1>4, Zenon DEF Forward, Return, UpdatesStay, Types
  <2>2. key[t] \in Keys /\ UNCHANGED <<mine, item, stray>>
    BY <1>4, Zenon DEF Forward, Types
  <2>3. CASE UNCHANGED <<storeVars, raced>>
    BY <2>1, <2>2, <2>3, SameEntry, Zenon
  <2>4. CASE AppliedElsewhere(key[t])
    BY <2>1, <2>2, <2>4, AppliedEntry, Zenon
  <2> QED
    BY <1>4, <2>3, <2>4, Zenon DEF Forward
<1>5. ASSUME NEW t \in Threads, LocalPut(t)
      PROVE  AsGood(k)
  <2>1. UpdatesStay(k) /\ pc'[t] \in {"admit", "invalidate"} /\ UNCHANGED <<mine, item, stray, key>>
    BY <1>5, Zenon DEF LocalPut, UpdatesStay, Types
  <2>2. CASE Written(t, key[t], version + 1)
    BY <2>1, <2>2, WrittenEntry DEF Types
  <2>3. CASE UNCHANGED <<storeVars, raced>>
    BY <2>1, <2>3, SameEntry, Zenon
  <2> QED
    BY <1>5, <2>2, <2>3, Zenon DEF LocalPut
<1>6. ASSUME NEW t \in Threads, LocalDelete(t)
      PROVE  AsGood(k)
  <2>1. UpdatesStay(k) /\ pc'[t] \in {"admit", "invalidate"} /\ UNCHANGED <<mine, item, stray, key>>
    BY <1>6, Zenon DEF LocalDelete, UpdatesStay, Types
  <2>2. CASE Written(t, key[t], 0)
    BY <2>1, <2>2, WrittenEntry, Zenon
  <2>3. CASE UNCHANGED <<storeVars, raced>>
    BY <2>1, <2>3, SameEntry, Zenon
  <2> QED
    BY <1>6, <2>2, <2>3, Zenon DEF LocalDelete
<1>7. ASSUME NEW t \in Threads, Admit(t)
      PROVE  AsGood(k)
  BY <1>7, AdmittedEntry, Zenon
<1>8. ASSUME NEW t \in Threads, Invalidate(t)
      PROVE  AsGood(k)
  <2>1. key[t] \in Keys /\ (k # key[t] => UpdatesStay(k))
    BY <1>8, Zenon DEF Invalidate, Return, UpdatesStay, Types
  <2> QED
    BY <1>8, <2>1, DroppedEntry, Zenon DEF Invalidate
<1>9. ASSUME NEW t \in Threads, NEW o, NEW d, NEW r, Begin(t, o, d, r)
      PROVE  AsGood(k)
  <2>1. UNCHANGED <<mine, item, store, raced, stray>>
    BY <1>9, Zenon DEF Begin
  <2>2. /\ pc[t] = "idle" /\ pc' = [pc EXCEPT ![t] = "check"]
        /\ key' = [key EXCEPT ![t] = d]
    BY <1>9, Zenon DEF Begin
  <2>3. UpdatesStay(k)
    BY <2>2, Zenon DEF Types, UpdatesStay
  <2> QED
    BY <2>1, <2>3, SameEntry, Zenon
<1>10. ASSUME NEW d \in Keys, WriteElsewhere(d)
       PROVE  AsGood(k)
  <2>1. UpdatesStay(k)
    BY <1>10, Zenon DEF WriteElsewhere, UpdatesStay
  <2> QED
    BY <1>10, <2>1, AppliedEntry, Zenon DEF WriteElsewhere
<1>11. ASSUME NEW d \in Keys, Evict(d)
       PROVE  AsGood(k)
  BY <1>11, DroppedEntry, Zenon DEF Evict, UpdatesStay
<1> QED
  BY <1>1, <1>2, <1>3, <1>4, <1>5, <1>6, <1>7, <1>8, <1>9, <1>10, <1>11, Zenon DEF Step
-----------------------------------------------------------------------------
(* Admissions.                                                             *)

\* A step that drops an entry leaves the mark of a race as long as somebody
\* else is about to admit.
LEMMA AdmittedDrop ==
    ASSUME Types, AdmittedIsCurrent, NEW t, NEW d \in Keys, Dropped(t, d), UNCHANGED <<store, val>>,
           \A u \in Threads : pc'[u] = "admit" => u # t /\ pc[u] = "admit" /\ key'[u] = key[u]
    PROVE  AdmittedIsCurrent'
BY DEF AdmittedIsCurrent, Dropped, Admitting

\* Storage changes under d and marks whoever is about to admit.
LEMMA AdmittedWrite ==
    ASSUME Types, AdmittedIsCurrent, NEW t, NEW d \in Keys,
           \A c \in Keys \ {d} : store'[c] = store[c],
           raced \subseteq raced', Admitting(d) \ {t} # {} => d \in raced',
           \A u \in Threads :
             pc'[u] = "admit" /\ u # t => pc[u] = "admit" /\ key'[u] = key[u] /\ val'[u] = val[u],
           t \in Threads /\ pc'[t] = "admit" => key'[t] = d /\ val'[t] = store'[d]
    PROVE  AdmittedIsCurrent'
<1> SUFFICES ASSUME NEW u \in Threads, pc'[u] = "admit"
             PROVE  key'[u] \in raced' \/ val'[u] = store'[key'[u]]
  BY Zenon DEF AdmittedIsCurrent
<1>1. CASE u = t
  BY <1>1, Zenon
<1>2. CASE u # t /\ key[u] = d
  BY <1>2, Zenon DEF Admitting
<1>3. CASE u # t /\ key[u] # d
  BY <1>3 DEF Types, AdmittedIsCurrent
<1> QED
  BY <1>1, <1>2, <1>3, Zenon

\* Every step keeps what is about to be cached current, but for the races.
LEMMA AdmittedStep ==
    ASSUME Types, AdmittedIsCurrent, [Next]_vars
    PROVE  AdmittedIsCurrent'
<1> USE DEF ringVars, storeVars, cacheVars, requestVars, Goto
<1>1. ASSUME NEW t \in Threads,
             \/ Check(t) \/ Lock(t) \/ GenerationCheck(t) \/ Record(t) \/ Route(t) \/ LocalGet(t)
      PROVE  AdmittedIsCurrent'
  <2>1. UNCHANGED <<store, raced>>
    BY <1>1, Zenon DEF Check, Lock, GenerationCheck, Record, Route, LocalGet
  <2>2. \A u \in Threads : pc'[u] = "admit" =>
          pc[u] = "admit" /\ key'[u] = key[u] /\ val'[u] = val[u]
    BY <1>1 DEF Types, Check, Lock, GenerationCheck, Record, Route, LocalGet, Reconciled, Return
  <2> QED
    BY <2>1, <2>2, Zenon DEF AdmittedIsCurrent
<1>2. ASSUME NEW t \in Threads, NEW d \in Keys, PurgeMoved(t, d)
      PROVE  AdmittedIsCurrent'
  <2>1. CASE d \notin mine
    BY <1>2, <2>1, AdmittedDrop, Zenon DEF PurgeMoved
  <2>2. CASE d \in mine
    BY <1>2, <2>2, Zenon DEF PurgeMoved, AdmittedIsCurrent
  <2> QED
    BY <2>1, <2>2, Zenon
<1>3. ASSUME NEW t \in Threads, NEW d \in Keys, PurgeAny(t, d)
      PROVE  AdmittedIsCurrent'
  BY <1>3, AdmittedDrop, Zenon DEF PurgeAny
<1>4. ASSUME NEW t \in Threads, Forward(t)
      PROVE  AdmittedIsCurrent'
  <2>1. \A u \in Threads : pc'[u] = "admit" =>
          pc[u] = "admit" /\ key'[u] = key[u] /\ val'[u] = val[u]
    BY <1>4, Zenon DEF Forward, Return, Types
  <2>2. CASE UNCHANGED <<storeVars, raced>>
    BY <2>1, <2>2, Zenon DEF AdmittedIsCurrent
  <2>3. CASE AppliedElsewhere(key[t])
    <3>1. key[t] \in Keys /\ pc'[t] # "admit"
      BY <1>4, Zenon DEF Forward, Return, Types
    <3>2. \A c \in Keys \ {key[t]} : store'[c] = store[c]
      BY <2>3, Zenon DEF AppliedElsewhere, Types
    <3>3. raced \subseteq raced' /\ (Admitting(key[t]) \ {t} # {} => key[t] \in raced')
      BY <2>3, Zenon DEF AppliedElsewhere
    <3> QED
      BY <2>1, <3>1, <3>2, <3>3, AdmittedWrite
  <2> QED
    BY <1>4, <2>2, <2>3, Zenon DEF Forward
<1>5. ASSUME NEW t \in Threads, ColdRead(t)
      PROVE  AdmittedIsCurrent'
  BY <1>5, Zenon DEF ColdRead, Types, AdmittedIsCurrent
<1>6. ASSUME NEW t \in Threads, LocalPut(t)
      PROVE  AdmittedIsCurrent'
  <2>1. CASE /\ Written(t, key[t], version + 1)
             /\ val' = [val EXCEPT ![t] = version + 1]
    <3>1. key[t] \in Keys /\ key' = key
      BY <1>6, Zenon DEF LocalPut, Types
    <3>2. (\A c \in Keys \ {key[t]} : store'[c] = store[c]) /\ store'[key[t]] = version + 1
      BY <2>1, <3>1, Zenon DEF Written, Types
    <3>3. raced \subseteq raced' /\ (Admitting(key[t]) \ {t} # {} => key[t] \in raced')
      BY <2>1, Zenon DEF Written
    <3>4. \A u \in Threads : pc'[u] = "admit" /\ u # t => pc[u] = "admit" /\ val'[u] = val[u]
      BY <1>6, <2>1, Zenon DEF LocalPut, Types
    <3>5. val'[t] = version + 1
      BY <2>1, Zenon DEF Types
    <3> QED
      BY <3>1, <3>2, <3>3, <3>4, <3>5, AdmittedWrite
  <2>2. CASE Goto(t, "invalidate") /\ UNCHANGED <<storeVars, raced, val>>
    BY <1>6, <2>2, Zenon DEF LocalPut, Types, AdmittedIsCurrent
  <2> QED
    BY <1>6, <2>1, <2>2, Zenon DEF LocalPut
<1>7. ASSUME NEW t \in Threads, LocalDelete(t)
      PROVE  AdmittedIsCurrent'
  <2>0. /\ key[t] \in Keys /\ UNCHANGED <<key, val>> /\ pc'[t] # "admit"
        /\ \A u \in Threads : pc'[u] = "admit" => pc[u] = "admit"
    BY <1>7, Zenon DEF LocalDelete, Types
  <2>1. CASE Written(t, key[t], 0)
    <3>1. \A c \in Keys \ {key[t]} : store'[c] = store[c]
      BY <2>0, <2>1, Zenon DEF Written, Types
    <3>2. raced \subseteq raced' /\ (Admitting(key[t]) \ {t} # {} => key[t] \in raced')
      BY <2>1, Zenon DEF Written
    <3> QED
      BY <2>0, <3>1, <3>2, AdmittedWrite
  <2>2. CASE UNCHANGED <<storeVars, raced>>
    BY <2>0, <2>2, Zenon DEF AdmittedIsCurrent
  <2> QED
    BY <1>7, <2>1, <2>2, Zenon DEF LocalDelete
<1>8. ASSUME NEW t \in Threads, Admit(t)
      PROVE  AdmittedIsCurrent'
  BY <1>8, Zenon DEF Admit, Return, Types, AdmittedIsCurrent
<1>9. ASSUME NEW t \in Threads, Invalidate(t)
      PROVE  AdmittedIsCurrent'
  <2>1. key[t] \in Keys /\ Dropped(t, key[t]) /\ UNCHANGED store
    BY <1>9, Zenon DEF Invalidate, Types
  <2>2. \A u \in Threads : pc'[u] = "admit" =>
          u # t /\ pc[u] = "admit" /\ key'[u] = key[u] /\ val'[u] = val[u]
    BY <1>9, Zenon DEF Invalidate, Return, Types
  <2> QED
    BY <2>1, <2>2 DEF AdmittedIsCurrent, Dropped, Admitting
<1>10. ASSUME NEW t \in Threads, NEW o, NEW d, NEW r, Begin(t, o, d, r)
       PROVE  AdmittedIsCurrent'
  <2>1. /\ pc[t] = "idle" /\ pc' = [pc EXCEPT ![t] = "check"]
        /\ key' = [key EXCEPT ![t] = d] /\ UNCHANGED <<store, raced, val>>
    BY <1>10, Zenon DEF Begin
  <2> QED
    BY <2>1, Zenon DEF Types, AdmittedIsCurrent
<1>11. ASSUME NEW owned, RingMoves(owned)
       PROVE  AdmittedIsCurrent'
  BY <1>11, Zenon DEF RingMoves, AdmittedIsCurrent
<1>12. ASSUME NEW d \in Keys, WriteElsewhere(d)
       PROVE  AdmittedIsCurrent'
  <2>1. UNCHANGED <<pc, key, val>>
    BY <1>12, Zenon DEF WriteElsewhere
  <2>2. (\A c \in Keys \ {d} : store'[c] = store[c]) /\ raced \subseteq raced'
    BY <1>12, Zenon DEF WriteElsewhere, AppliedElsewhere, Types
  <2>3. Admitting(d) \ {NoThread} # {} => d \in raced'
    BY <1>12, Zenon DEF WriteElsewhere, AppliedElsewhere
  <2> QED
    BY <2>1, <2>2, <2>3, OwnershipAssumption, AdmittedWrite, Zenon
<1>13. ASSUME NEW d \in Keys, Evict(d)
       PROVE  AdmittedIsCurrent'
  BY <1>13, OwnershipAssumption, AdmittedDrop, Zenon DEF Evict
<1>14. CASE UNCHANGED vars
  BY <1>14, Zenon DEF vars, AdmittedIsCurrent
<1> QED
  BY <1>1, <1>2, <1>3, <1>4, <1>5, <1>6, <1>7, <1>8, <1>9, <1>10, <1>11, <1>12, <1>13, <1>14
 , Zenon DEF Next, Step
-----------------------------------------------------------------------------
(* The purge.                                                              *)

\* A step that leaves the ring, the record and every purge alone.
LEMMA PurgesUndisturbed ==
    ASSUME Reconciling, \A k \in Keys : AsGood(k), UNCHANGED <<generation, reconciledGen>>,
           \A u \in Threads : pc'[u] \in {"purge", "purgeAll"} =>
             pc'[u] = pc[u] /\ gen'[u] = gen[u] /\ left'[u] = left[u]
    PROVE  Reconciling'
<1>1. \A k \in Keys : (Owned(k) => Owned(k)') /\ (Current(k) => Current(k)')
  BY Zenon DEF AsGood
<1> HIDE DEF Owned, Current
<1> QED
  BY <1>1, Zenon DEF Reconciling

\* reconcileMu.Lock: the generation in hand is at most one ahead of the record
\* for a selective purge, and so is the ring if that is its generation.
LEMMA PurgeStarts ==
    ASSUME IInv, NEW t \in Threads, Lock(t), \A k \in Keys : AsGood(k)
    PROVE  Reconciling'
<1> USE DEF ringVars, Goto
<1>1. CASE reconciledGen = gen[t]
  <2>1. UNCHANGED <<generation, reconciledGen, left>>
    BY <1>1, Zenon DEF Lock
  <2>2. \A u \in Threads : pc'[u] \in {"purge", "purgeAll"} => pc'[u] = pc[u] /\ gen'[u] = gen[u]
    BY <1>1, Zenon DEF Lock, Reconciled, IInv, Types
  <2> QED
    BY <2>1, <2>2, PurgesUndisturbed, Zenon DEF IInv
<1>2. CASE reconciledGen # gen[t]
  <2>1. /\ UNCHANGED <<generation, reconciledGen, gen>> /\ left'[t] = Keys
        /\ pc'[t] = "purge" => gen[t] <= reconciledGen + 1
        /\ \A u \in Threads \ {t} : pc'[u] = pc[u] /\ left'[u] = left[u]
    BY <1>2 DEF Lock, IInv, Types
  <2>2. pc'[t] = "purge" /\ gen[t] = generation => reconciledGen + 1 = generation
    BY <1>2, <2>1 DEF IInv, Types
  <2>3. \A k \in Keys : (Owned(k) => Owned(k)') /\ (Current(k) => Current(k)')
    BY Zenon DEF AsGood
  <2> HIDE DEF Owned, Current
  <2> QED
    BY <2>1, <2>2, <2>3, Zenon DEF IInv, Reconciling
<1> QED
  BY <1>1, <1>2, Zenon

\* One key of a purge.
LEMMA PurgeAdvances ==
    ASSUME IInv, NEW t \in Threads, NEW d \in Keys, PurgeMoved(t, d) \/ PurgeAny(t, d),
           \A k \in Keys : AsGood(k)
    PROVE  Reconciling'
<1> USE DEF ringVars, cacheVars, storeVars
<1>1. /\ UNCHANGED <<generation, mine, reconciledGen, gen, pc, store>>
      /\ left'[t] = left[t] \ {d}
      /\ \A u \in Threads \ {t} : left'[u] = left[u]
  BY Zenon DEF PurgeMoved, PurgeAny, IInv, Types
<1>2. \A k \in Keys : (Owned(k) => Owned(k)') /\ (Current(k) => Current(k)')
  BY Zenon DEF AsGood
<1>3. PurgeAny(t, d) \/ d \notin mine => item'[d] = NoItem
  BY Zenon DEF PurgeAny, PurgeMoved, Dropped, IInv, Types
<1>4. PurgeAny(t, d) => Owned(d)' /\ Current(d)'
  BY <1>3, Zenon DEF Owned, Current, Excused
<1>5. PurgeMoved(t, d) /\ gen[t] = generation => Owned(d)'
  <2> SUFFICES ASSUME PurgeMoved(t, d), gen[t] = generation PROVE Owned(d)'
    BY Zenon
  <2>1. CASE d \notin mine
    BY <1>3, <2>1, Zenon DEF Owned, Excused
  <2>2. CASE d \in mine
    <3>1. Current(d)
      BY Zenon DEF PurgeMoved, IInv, Reconciling
    <3>2. Owned(d)
      BY <2>2, <3>1, Zenon DEF Owned, Current
    <3> QED
      BY <3>2, <1>2, Zenon
  <2> QED
    BY <2>1, <2>2, Zenon
<1>6. (PurgeMoved(t, d) => pc[t] = "purge") /\ (PurgeAny(t, d) => pc[t] = "purgeAll")
  BY Zenon DEF PurgeMoved, PurgeAny
<1> HIDE DEF Owned, Current, PurgeMoved, PurgeAny
<1> QED
  BY <1>1, <1>2, <1>4, <1>5, <1>6, Zenon DEF IInv, Reconciling

\* The look at the ring after a selective purge.
LEMMA PurgeChecked ==
    ASSUME IInv, NEW t \in Threads, GenerationCheck(t), \A k \in Keys : AsGood(k)
    PROVE  Reconciling'
<1>1. /\ UNCHANGED <<generation, reconciledGen, gen>>
      /\ pc[t] = "purge" /\ left[t] = {} /\ pc'[t] = "purgeAll"
      /\ left'[t] = IF generation # gen[t] THEN Keys ELSE {}
      /\ \A u \in Threads \ {t} : pc'[u] = pc[u] /\ left'[u] = left[u]
  BY Zenon DEF GenerationCheck, Goto, ringVars, IInv, Types
<1>2. \A k \in Keys : (Owned(k) => Owned(k)') /\ (Current(k) => Current(k)')
  BY Zenon DEF AsGood
<1>3. gen[t] + 1 = generation => gen[t] # generation
  BY DEF IInv, Types
<1> HIDE DEF Owned, Current
<1> QED
  BY <1>1, <1>2, <1>3, Zenon DEF IInv, Reconciling

\* The generation is recorded when nothing is left to purge for it.
LEMMA PurgeRecorded ==
    ASSUME IInv, NEW t \in Threads, Record(t), \A k \in Keys : AsGood(k)
    PROVE  Reconciling'
<1>1. /\ generation' = generation /\ reconciledGen' = gen[t]
      /\ pc[t] = "purgeAll" /\ left[t] = {}
      /\ pc'[t] = "route"
      /\ \A u \in Threads \ {t} : pc'[u] = pc[u] /\ left'[u] = left[u]
  BY Zenon DEF Record, Reconciled, Goto, ringVars, IInv, Types
<1>2. \A k \in Keys : (Owned(k) => Owned(k)') /\ (Current(k) => Current(k)')
  BY Zenon DEF AsGood
<1>3. \A u \in Threads : pc'[u] \notin {"purge", "purgeAll"}
  BY <1>1, Zenon DEF IInv, HolderIsPurging
<1> HIDE DEF Owned, Current
<1> QED
  BY <1>1, <1>2, <1>3, Zenon DEF IInv, Reconciling

\* The ring moves: what was owned is still current.
LEMMA RingMoved ==
    ASSUME IInv, NEW owned \in SUBSET Keys, RingMoves(owned)
    PROVE  Reconciling'
<1>1. /\ generation' = generation + 1
      /\ UNCHANGED <<reconciledGen, store, item, pc, key, gen, left, raced, stray>>
  BY Zenon DEF RingMoves, storeVars, cacheVars, requestVars
<1>2. \A k \in Keys : Owned(k) => Current(k)'
  BY <1>1, Zenon DEF Owned, Current, Excused, Quiet
<1>3. /\ reconciledGen # generation + 1 /\ (reconciledGen + 1 = generation + 1 => reconciledGen = generation)
      /\ \A u \in Threads : gen[u] # generation + 1 /\ (gen[u] + 1 = generation + 1 => gen[u] = generation)
  BY DEF IInv, Types
<1> HIDE DEF Owned, Current
<1> QED
  BY <1>1, <1>2, <1>3, Zenon DEF IInv, Reconciling

\* Every step keeps what is known of reconciliations.
LEMMA ReconcilingStep ==
    ASSUME IInv, [Next]_vars
    PROVE  Reconciling'
<1> USE DEF ringVars, storeVars, cacheVars, requestVars, Goto
<1>0. ASSUME \/ \E t \in Threads :
                  \/ Step(t)
                  \/ \E o \in {"Get", "Put", "Delete"}, d \in Keys, r \in BOOLEAN : Begin(t, o, d, r)
             \/ \E d \in Keys : WriteElsewhere(d) \/ Evict(d)
      PROVE  \A k \in Keys : AsGood(k)
  BY <1>0, EntriesStayGood, Zenon DEF IInv
<1>1. ASSUME NEW t \in Threads, \/ Check(t) \/ Route(t) \/ Forward(t) \/ LocalGet(t)
                                \/ ColdRead(t) \/ LocalPut(t) \/ LocalDelete(t) \/ Admit(t)
                                \/ Invalidate(t)
      PROVE  Reconciling'
  <2>1. \A k \in Keys : AsGood(k)
    BY <1>0, <1>1, Zenon DEF Step
  <2>2. UNCHANGED <<generation, reconciledGen, left>>
    BY <1>1, Zenon
       DEF Check, Route, Forward, LocalGet, ColdRead, LocalPut, LocalDelete, Admit, Invalidate
  <2>3. \A u \in Threads : pc'[u] \in {"purge", "purgeAll"} => pc'[u] = pc[u] /\ gen'[u] = gen[u]
    BY <1>1 DEF Check, Route, Forward, LocalGet, ColdRead, LocalPut, LocalDelete, Admit,
                Invalidate, Reconciled, Return, IInv, Types
  <2> QED
    BY <2>1, <2>2, <2>3, PurgesUndisturbed, Zenon DEF IInv
<1>2. ASSUME NEW t \in Threads, Lock(t)
      PROVE  Reconciling'
  BY <1>0, <1>2, PurgeStarts, Zenon DEF Step
<1>3. ASSUME NEW t \in Threads, NEW d \in Keys, PurgeMoved(t, d) \/ PurgeAny(t, d)
      PROVE  Reconciling'
  BY <1>0, <1>3, PurgeAdvances, Zenon DEF Step
<1>4. ASSUME NEW t \in Threads, GenerationCheck(t)
      PROVE  Reconciling'
  BY <1>0, <1>4, PurgeChecked, Zenon DEF Step
<1>5. ASSUME NEW t \in Threads, Record(t)
      PROVE  Reconciling'
  BY <1>0, <1>5, PurgeRecorded, Zenon DEF Step
<1>6. ASSUME NEW t \in Threads, NEW o \in {"Get", "Put", "Delete"}, NEW d \in Keys,
             NEW r \in BOOLEAN, Begin(t, o, d, r)
      PROVE  Reconciling'
  <2>1. \A k \in Keys : AsGood(k)
    BY <1>0, <1>6, Zenon
  <2>2. /\ UNCHANGED <<generation, reconciledGen, left>> /\ pc' = [pc EXCEPT ![t] = "check"]
        /\ gen' = [gen EXCEPT ![t] = generation]
    BY <1>6, Zenon DEF Begin
  <2>3. \A u \in Threads : pc'[u] \in {"purge", "purgeAll"} => pc'[u] = pc[u] /\ gen'[u] = gen[u]
    BY <2>2, Zenon DEF IInv, Types
  <2> QED
    BY <2>1, <2>2, <2>3, PurgesUndisturbed, Zenon DEF IInv
<1>7. ASSUME NEW d \in Keys, WriteElsewhere(d) \/ Evict(d)
      PROVE  Reconciling'
  <2>1. \A k \in Keys : AsGood(k)
    BY <1>0, <1>7, Zenon
  <2>2. UNCHANGED <<generation, reconciledGen, left, pc, gen>>
    BY <1>7, Zenon DEF WriteElsewhere, Evict
  <2> QED
    BY <2>1, <2>2, PurgesUndisturbed, Zenon DEF IInv
<1>8. ASSUME NEW owned \in SUBSET Keys, RingMoves(owned)
      PROVE  Reconciling'
  BY <1>8, RingMoved, Zenon
<1>9. CASE UNCHANGED vars
  BY <1>9 DEF vars, IInv, Reconciling, Owned, Current, Excused, Quiet
<1> QED
  BY <1>1, <1>2, <1>3, <1>4, <1>5, <1>6, <1>7, <1>8, <1>9, Zenon DEF Next, Step

\* The invariant is inductive.
LEMMA NextInv == IInv /\ [Next]_vars => IInv'
<1> SUFFICES ASSUME IInv, [Next]_vars PROVE IInv'
  BY Zenon
<1>1. Types' /\ HolderIsPurging'
  <2>1. CASE UNCHANGED vars
    BY <2>1, Zenon DEF vars, IInv, Types, HolderIsPurging
  <2>2. CASE \E t \in Threads : Step(t)
    BY <2>2, TypesReconcile, TypesOperate, Zenon DEF Step, IInv
  <2>3. CASE \E t \in Threads, o \in {"Get", "Put", "Delete"}, k \in Keys, r \in BOOLEAN :
               Begin(t, o, k, r)
    BY <2>3, TypesOthers, Zenon DEF IInv
  <2>4. CASE \/ \E owned \in SUBSET Keys : RingMoves(owned)
             \/ \E k \in Keys : WriteElsewhere(k) \/ Evict(k)
    BY <2>4, TypesOthers, Zenon DEF IInv
  <2> QED
    BY <2>1, <2>2, <2>3, <2>4, Zenon DEF Next
<1>2. AdmittedIsCurrent'
  BY AdmittedStep, Zenon DEF IInv
<1>3. Reconciling'
  BY ReconcilingStep, Zenon
<1> QED
  BY <1>1, <1>2, <1>3, Zenon DEF IInv

\* What reconcileOwnership is for: once the recorded generation is the ring's,
\* whatever is cached belongs to this node and is what storage holds, unless an
\* operation straddled the change, for any number of keys, goroutines, moves of
\* the ring and purges that overlap them.
THEOREM PurgesKeepOwnership == Spec => []PurgedWhenReconciled
<1>1. IInv => PurgedWhenReconciled
  BY Zenon DEF IInv, Reconciling, PurgedWhenReconciled, Owned, Excused
<1> QED
  BY <1>1, InitInv, NextInv, PTL DEF Spec

\* reconcileMu is held exactly during a purge, so nobody queues behind a
\* goroutine that will not unlock it, and one purge runs at a time.
THEOREM OnePurgeAtATime == Spec => []HolderIsPurging
<1>1. IInv => HolderIsPurging
  BY Zenon DEF IInv
<1> QED
  BY <1>1, InitInv, NextInv, PTL DEF Spec
=============================================================================
