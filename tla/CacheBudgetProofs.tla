-------------------------- MODULE CacheBudgetProofs -------------------------
(***************************************************************************)
(* Proofs about CacheBudget, for any number of Managers, keys, threads and *)
(* shards, any sizes and any limit.  In its accounting a step of a thread  *)
(* moves bytes between three places: entries (size), admissions that hold  *)
(* a reservation (Reserved) and drops that are not released yet (freed);   *)
(* used follows every move.                                                *)
(***************************************************************************)
EXTENDS CacheBudget, FiniteLemmas, TLAPS

-----------------------------------------------------------------------------
(* What the shard sections do, as facts the action proofs cite.            *)

\* There are finitely many slots.
LEMMA SlotsFinite == IsFiniteSet(Slots)
BY BudgetAssumption, FS_Product, Zenon DEF Slots

\* The bytes of a part of the cache are a natural number.
LEMMA PartBytesType ==
    ASSUME NEW f \in [Slots -> Nat], NEW A
    PROVE  Bytes(Part(f, A)) \in Nat
BY SlotsFinite, PartType, BytesType, Zenon

\* The clamped subtraction is exact when nothing has to be clamped.
LEMMA MinusExact ==
    ASSUME NEW a \in Nat, NEW n \in Nat
    PROVE  /\ Minus(a, n) \in Nat
           /\ n <= a => Minus(a, n) = a - n
BY DEF Minus

\* Dropping entries keeps the shard variables well typed, and what is not
\* cached has no size.
LEMMA DropFacts ==
    ASSUME TypeOK, LockDiscipline, NEW D, Drop(D)
    PROVE  /\ cached' \subseteq Slots
           /\ size' \in [Slots -> Nat]
           /\ bytes' \in [Managers \X Shards -> Nat]
           /\ lru' \in [Managers -> SUBSET (Keys \X Keys)]
           /\ \A x \in Slots \ cached' : size'[x] = 0
<1>1. size \in [Slots -> Nat] /\ bytes \in [Managers \X Shards -> Nat]
  BY Zenon DEF TypeOK
<1>2. \A y \in Managers \X Shards :
        Minus(bytes[y], Bytes(Part(size, D \cap InShard(y[1], y[2])))) \in Nat
  BY <1>1, PartBytesType, MinusExact, Zenon
<1>3. bytes' \in [Managers \X Shards -> Nat]
  BY <1>2, Zenon DEF Drop
<1>4. \A x \in Slots \ cached' : size'[x] = 0
  BY Zenon DEF TypeOK, LockDiscipline, Drop
<1> QED
  BY <1>3, <1>4, Zenon DEF TypeOK, Drop

\* Moving an entry to the front keeps the lists well typed.
LEMMA ToFrontType ==
    ASSUME TypeOK, NEW m \in Managers, NEW k \in Keys, ToFront(m, k)
    PROVE  lru' \in [Managers -> SUBSET (Keys \X Keys)]
<1> DEFINE L == {p \in lru[m] : p[1] # k /\ p[2] # k} \cup
                {<<j, k>> : j \in {j \in Keys \ {k} : <<m, j>> \in cached
                                                      /\ ShardOf[j] = ShardOf[k]}}
<1>1. lru' = [lru EXCEPT ![m] = L]
  BY Zenon DEF ToFront
<1>2. lru[m] \subseteq Keys \X Keys
  BY Zenon DEF TypeOK
<1>3. L \subseteq Keys \X Keys
  <2>1. {p \in lru[m] : p[1] # k /\ p[2] # k} \subseteq Keys \X Keys
    BY <1>2, Zenon
  <2>2. {<<j, k>> : j \in {j \in Keys \ {k} : <<m, j>> \in cached
                                              /\ ShardOf[j] = ShardOf[k]}}
          \subseteq Keys \X Keys
    <3> SUFFICES ASSUME NEW j \in Keys PROVE <<j, k>> \in Keys \X Keys
      BY Zenon
    <3> QED BY Zenon
  <2> QED
    BY <2>1, <2>2, Zenon
<1> HIDE DEF L
<1> QED
  BY <1>1, <1>3, Zenon DEF TypeOK

\* A thread that returns is idle with its locals reset; the others stay.
LEMMA ReturnFacts ==
    ASSUME TypeOK, NEW t \in Threads, Return(t)
    PROVE  /\ pc' \in [Threads -> {"idle", "reserve", "reclaim", "scan", "evict",
                                   "insert", "invalidate", "purge", "release",
                                   "unregister"}]
           /\ mgr' \in [Threads -> Managers \cup {NoManager}]
           /\ key' \in [Threads -> Keys \cup {NoKey}]
           /\ obj' \in [Threads -> Nat]
           /\ freed' \in [Threads -> Nat]
           /\ shard' \in [Threads -> Shards]
           /\ pc'[t] = "idle" /\ freed'[t] = 0
           /\ \A u \in Threads \ {t} :
                /\ pc'[u] = pc[u] /\ mgr'[u] = mgr[u] /\ key'[u] = key[u]
                /\ freed'[u] = freed[u]
<1>1. 1 \in Shards
  BY BudgetAssumption DEF Shards
<1> QED
  BY <1>1, Zenon DEF TypeOK, Return

\* Taking one Manager out of the list leaves a list of Managers.
LEMMA WithoutType ==
    ASSUME NEW s \in Seq(Managers), NEW i \in 1..Len(s)
    PROVE  /\ WithoutIndex(s, i) \in Seq(Managers)
           /\ Len(WithoutIndex(s, i)) = Len(s) - 1
<1>1. Len(s) - 1 \in Nat
  OBVIOUS
<1>2. \A j \in 1..(Len(s) - 1) : (IF j < i THEN s[j] ELSE s[j + 1]) \in Managers
  OBVIOUS
<1> QED
  BY <1>1, <1>2 DEF WithoutIndex

\* The corrected cursor is in range again.
LEMMA CursorAfterRange ==
    ASSUME NEW i \in Nat \ {0}, NEW n \in Nat, cursor \in Nat
    PROVE  /\ CursorAfter(i, n) \in Nat
           /\ n > 0 => CursorAfter(i, n) < n
           /\ n = 0 => CursorAfter(i, n) = 0
<1> DEFINE c == IF cursor > i - 1 THEN cursor - 1 ELSE cursor
<1>1. c \in Nat
  OBVIOUS
<1>2. n > 0 => c % n \in 0..(n - 1)
  BY <1>1
<1>3. CursorAfter(i, n) = IF n = 0 THEN 0 ELSE IF c >= n THEN c % n ELSE c
  BY Zenon DEF CursorAfter
<1> HIDE DEF c
<1> QED
  BY <1>1, <1>2, <1>3
-----------------------------------------------------------------------------
(* Types, lock discipline and the cursor.                                  *)

\* None of the three is inductive alone.
Base == TypeOK /\ LockDiscipline /\ CursorInRange

\* What LockDiscipline says of one thread.
Disciplined(t) ==
    /\ pc[t] \in {"reclaim", "scan", "evict"} <=> mu = t
    /\ pc[t] # "idle" => mgr[t] \in Managers
    /\ pc[t] \in {"reserve", "reclaim", "insert", "invalidate"} => key[t] \in Keys
    /\ mu = t /\ caller = "Reserve" => key[t] \in Keys
    /\ pc[t] \in {"scan", "evict"} => target \in Managers
    /\ pc[t] = "reclaim" => caller = "Reserve"
    /\ pc[t] \notin {"purge", "release"} => freed[t] = 0

\* LockDiscipline, thread by thread.
LEMMA DisciplineByThread ==
    LockDiscipline <=> /\ \A t \in Threads : Disciplined(t)
                       /\ mu = NoThread => caller = "Reserve"
                       /\ \A x \in Slots \ cached : size[x] = 0
BY Zenon DEF LockDiscipline, Disciplined

\* A step of thread t that leaves the others alone, and Budget.mu and what it
\* guards too unless t locks, holds or unlocks it, keeps the discipline when t
\* itself keeps it.
LEMMA DisciplineOfMover ==
    ASSUME LockDiscipline, NEW t \in Threads,
           \A u \in Threads \ {t} : /\ pc'[u] = pc[u] /\ mgr'[u] = mgr[u]
                                    /\ key'[u] = key[u] /\ freed'[u] = freed[u],
           \/ UNCHANGED <<mu, caller, target>>
           \/ mu \in {t, NoThread} /\ mu' \in {t, NoThread},
           Disciplined(t)', mu' = NoThread => caller' = "Reserve",
           \A x \in Slots \ cached' : size'[x] = 0
    PROVE  LockDiscipline'
<1>1. \A u \in Threads : Disciplined(u)
  BY DisciplineByThread, Zenon
<1>2. ASSUME NEW u \in Threads \ {t} PROVE Disciplined(u)'
  <2>1. Disciplined(u) /\ u # t /\ u # NoThread
    BY <1>1, BudgetAssumption, Zenon
  <2>2. /\ pc'[u] = pc[u] /\ mgr'[u] = mgr[u]
        /\ key'[u] = key[u] /\ freed'[u] = freed[u]
    BY Zenon
  <2>3. CASE UNCHANGED <<mu, caller, target>>
    BY <2>1, <2>2, <2>3, Zenon DEF Disciplined
  <2>4. CASE mu \in {t, NoThread} /\ mu' \in {t, NoThread}
    <3>1. mu # u /\ mu' # u
      BY <2>1, <2>4, Zenon
    <3> QED
      BY <2>1, <2>2, <3>1, Zenon DEF Disciplined
  <2> QED
    BY <2>3, <2>4, Zenon
<1>3. \A u \in Threads : Disciplined(u)'
  BY <1>2, Zenon
<1> QED
  BY <1>3, Zenon DEF LockDiscipline, Disciplined

\* A thread that returns from an operation outside the eviction loops keeps
\* the discipline.
LEMMA DisciplineOfReturn ==
    ASSUME TypeOK, LockDiscipline, NEW t \in Threads, Return(t), mu # t,
           UNCHANGED <<mu, caller, target>>,
           \A x \in Slots \ cached' : size'[x] = 0
    PROVE  LockDiscipline'
<1>1. /\ pc'[t] = "idle" /\ freed'[t] = 0
      /\ \A u \in Threads \ {t} : /\ pc'[u] = pc[u] /\ mgr'[u] = mgr[u]
                                  /\ key'[u] = key[u] /\ freed'[u] = freed[u]
  BY ReturnFacts, Zenon
<1>2. Disciplined(t)'
  BY <1>1, Zenon DEF Disciplined
<1>3. mu' = NoThread => caller' = "Reserve"
  BY Zenon DEF LockDiscipline
<1> QED
  BY <1>1, <1>2, <1>3, DisciplineOfMover, Zenon

\* Constants the locals of a thread are reset to.
LEMMA ResetTypes == 1 \in Shards /\ 1 \in 1..3 /\ 0 \in Nat
BY BudgetAssumption DEF Shards

\* Every variable keeps its type, Budget.mu its discipline and the cursor its range.
LEMMA BaseInvariant == Spec => []Base
<1> USE BudgetAssumption DEF Shards
<1>1. Init => Base
  BY DEF Init, Base, TypeOK, LockDiscipline, CursorInRange
<1>2. Base /\ [Next]_vars => Base'
  <2> SUFFICES ASSUME TypeOK, LockDiscipline, CursorInRange, [Next]_vars
               PROVE  TypeOK' /\ LockDiscipline' /\ CursorInRange'
    BY Zenon DEF Base
  <2> USE DEF budgetVars, shardVars, nsVars, threadVars, evictVars
  <2>1. ASSUME NEW m \in Managers, Register(m)
        PROVE  TypeOK' /\ LockDiscipline' /\ CursorInRange'
    <3>t. TypeOK'
      <4>1. Append(evictors, m) \in Seq(Managers)
        BY DEF TypeOK
      <4> QED
        BY <2>1, <4>1, Zenon DEF TypeOK, Register
    <3>l. LockDiscipline'
      BY <2>1, Zenon DEF TypeOK, LockDiscipline, Register
    <3>c. CursorInRange'
      BY <2>1 DEF TypeOK, CursorInRange, Register
    <3> QED BY <3>t, <3>l, <3>c, Zenon
  <2>2. ASSUME NEW m \in Managers, NEW k \in Keys, Touch(m, k)
        PROVE  TypeOK' /\ LockDiscipline' /\ CursorInRange'
    <3>1. lru' \in [Managers -> SUBSET (Keys \X Keys)]
      BY <2>2, ToFrontType, Zenon DEF Touch
    <3>t. TypeOK'
      BY <2>2, <3>1, Zenon DEF TypeOK, LockDiscipline, Touch
    <3>l. LockDiscipline'
      BY <2>2, <3>1, Zenon DEF TypeOK, LockDiscipline, Touch
    <3>c. CursorInRange'
      BY <2>2, <3>1, Zenon DEF TypeOK, CursorInRange, Touch
    <3> QED BY <3>t, <3>l, <3>c, Zenon
  <2>3. ASSUME NEW t \in Threads, NEW m \in Managers, Close(t, m)
        PROVE  TypeOK' /\ LockDiscipline' /\ CursorInRange'
    <3>t. TypeOK'
      BY <2>3, Zenon DEF TypeOK, LockDiscipline, Close, Goto
    <3>l. LockDiscipline'
      <4>1. /\ pc'[t] = "unregister" /\ mgr'[t] = m /\ freed'[t] = freed[t]
            /\ \A u \in Threads \ {t} : /\ pc'[u] = pc[u] /\ mgr'[u] = mgr[u]
                                        /\ key'[u] = key[u] /\ freed'[u] = freed[u]
        BY <2>3, Zenon DEF Close, Goto, TypeOK
      <4>2. UNCHANGED <<mu, caller, target>>
        BY <2>3, Zenon DEF Close
      <4>3. Disciplined(t)'
        BY <2>3, <4>1, <4>2, BudgetAssumption, Zenon DEF Close, Disciplined, LockDiscipline, TypeOK
      <4>4. mu' = NoThread => caller' = "Reserve"
        BY <4>2, BudgetAssumption, Zenon DEF LockDiscipline
      <4>5. \A x \in Slots \ cached' : size'[x] = 0
        BY <2>3, Zenon DEF LockDiscipline, Close
      <4> QED
        BY <4>1, <4>2, <4>3, <4>4, <4>5, DisciplineOfMover, Zenon
    <3>c. CursorInRange'
      BY <2>3, Zenon DEF TypeOK, CursorInRange, Close, Goto
    <3> QED BY <3>t, <3>l, <3>c, Zenon
  <2>4. ASSUME NEW t \in Threads, NEW m \in Managers, PurgeIf(t, m)
        PROVE  TypeOK' /\ LockDiscipline' /\ CursorInRange'
    <3>t. TypeOK'
      BY <2>4, Zenon DEF TypeOK, LockDiscipline, PurgeIf, Calls, Goto
    <3>l. LockDiscipline'
      <4>1. /\ pc'[t] = "purge" /\ mgr'[t] = m /\ freed'[t] = freed[t]
            /\ \A u \in Threads \ {t} : /\ pc'[u] = pc[u] /\ mgr'[u] = mgr[u]
                                        /\ key'[u] = key[u] /\ freed'[u] = freed[u]
        BY <2>4, Zenon DEF PurgeIf, Calls, Goto, TypeOK
      <4>2. UNCHANGED <<mu, caller, target>>
        BY <2>4, Zenon DEF PurgeIf
      <4>3. Disciplined(t)'
        BY <2>4, <4>1, <4>2, BudgetAssumption, Zenon DEF PurgeIf, Calls, Disciplined, LockDiscipline, TypeOK
      <4>4. mu' = NoThread => caller' = "Reserve"
        BY <4>2, BudgetAssumption, Zenon DEF LockDiscipline
      <4>5. \A x \in Slots \ cached' : size'[x] = 0
        BY <2>4, Zenon DEF LockDiscipline, PurgeIf
      <4> QED
        BY <4>1, <4>2, <4>3, <4>4, <4>5, DisciplineOfMover, Zenon
    <3>c. CursorInRange'
      BY <2>4, Zenon DEF TypeOK, CursorInRange, PurgeIf, Calls, Goto
    <3> QED BY <3>t, <3>l, <3>c, Zenon
  <2>5. ASSUME NEW t \in Threads, NEW m \in Managers, NEW k \in Keys, Invalidate(t, m, k)
        PROVE  TypeOK' /\ LockDiscipline' /\ CursorInRange'
    <3>1. Drop({<<m, k>>} \cap cached)
      BY <2>5, Zenon DEF Invalidate
    <3>2. cached' \subseteq Slots /\ size' \in [Slots -> Nat]
            /\ bytes' \in [Managers \X Shards -> Nat]
            /\ lru' \in [Managers -> SUBSET (Keys \X Keys)]
            /\ \A x \in Slots \ cached' : size'[x] = 0
      BY <3>1, DropFacts, Zenon
    <3>3. <<m, k>> \in Slots /\ size[<<m, k>>] \in Nat
      BY DEF TypeOK, Slots
    <3>b. used' \in Nat /\ evictors' \in Seq(Managers) /\ cursor' \in Nat
            /\ mu' \in Threads \cup {NoThread}
            /\ open' \subseteq Managers /\ quiet' \subseteq Managers
      BY <2>5, <3>1, <3>2, <3>3, Zenon
         DEF TypeOK, LockDiscipline, Invalidate, Calls, Goto, Return, ForgetBest
    <3>p. pc' \in [Threads -> {"idle", "reserve", "reclaim", "scan", "evict", "insert",
                                 "invalidate", "purge", "release", "unregister"}]
            /\ mgr' \in [Threads -> Managers \cup {NoManager}]
            /\ key' \in [Threads -> Keys \cup {NoKey}]
      <4>1. CASE size[<<m, k>>] > 0
        <5>1. /\ pc' = [pc EXCEPT ![t] = "release"]
              /\ mgr' = [mgr EXCEPT ![t] = m]
              /\ key' = [key EXCEPT ![t] = k]
          BY <2>5, <4>1, Zenon DEF Invalidate, Goto
        <5> QED
          BY <5>1, Zenon DEF TypeOK
      <4>2. CASE ~(size[<<m, k>>] > 0)
        <5>1. Return(t)
          BY <2>5, <4>2, Zenon DEF Invalidate
        <5> QED
          BY <5>1, ReturnFacts, Zenon
      <4> QED
        BY <4>1, <4>2, Zenon
    <3>o. obj' \in [Threads -> Nat] /\ freed' \in [Threads -> Nat]
            /\ shard' \in [Threads -> Shards]
      <4>1. CASE size[<<m, k>>] > 0
        <5>1. freed' = [freed EXCEPT ![t] = size[<<m, k>>]] /\ UNCHANGED <<obj, shard>>
          BY <2>5, <4>1, Zenon DEF Invalidate
        <5> QED
          BY <5>1, <3>3, Zenon DEF TypeOK
      <4>2. CASE ~(size[<<m, k>>] > 0)
        <5>1. Return(t)
          BY <2>5, <4>2, Zenon DEF Invalidate
        <5> QED
          BY <5>1, ReturnFacts, Zenon
      <4> QED
        BY <4>1, <4>2, Zenon
    <3>e. caller' \in {"Reserve", "Unregister"} /\ target' \in Managers \cup {NoManager}
            /\ attempt' \in 1..3 /\ best' \in Keys \cup {NoKey, Stale}
            /\ exhausted' \in Nat
      BY <2>5, <3>1, <3>2, <3>3, Zenon
         DEF TypeOK, LockDiscipline, Invalidate, Calls, Goto, Return, ForgetBest
    <3>s. cached' \subseteq Slots /\ size' \in [Slots -> Nat]
            /\ bytes' \in [Managers \X Shards -> Nat]
            /\ lru' \in [Managers -> SUBSET (Keys \X Keys)]
      BY <2>5, <3>1, <3>2, <3>3, Zenon
         DEF TypeOK, LockDiscipline, Invalidate, Calls, Goto, Return, ForgetBest
    <3>t. TypeOK'
      BY <3>b, <3>p, <3>o, <3>e, <3>s, Zenon DEF TypeOK
    <3>l. LockDiscipline'
      <4>1. CASE size[<<m, k>>] > 0
        <5>1. /\ pc' = [pc EXCEPT ![t] = "release"] /\ mgr' = [mgr EXCEPT ![t] = m]
              /\ key' = [key EXCEPT ![t] = k] /\ freed' = [freed EXCEPT ![t] = size[<<m, k>>]]
              /\ UNCHANGED <<mu, caller, target>> /\ pc[t] \notin {"reclaim", "scan", "evict"}
          BY <2>5, <4>1, Zenon DEF Invalidate, Calls, Goto, budgetVars
        <5>2. /\ pc'[t] = "release" /\ mgr'[t] = m /\ key'[t] = k
              /\ \A u \in Threads : u # t => /\ pc'[u] = pc[u] /\ mgr'[u] = mgr[u]
                                            /\ key'[u] = key[u] /\ freed'[u] = freed[u]
          BY <5>1, Zenon DEF TypeOK
        <5> QED
          <6>1. Disciplined(t)'
            BY <5>1, <5>2, Zenon DEF Disciplined, LockDiscipline
          <6>2. \A u \in Threads \ {t} : /\ pc'[u] = pc[u] /\ mgr'[u] = mgr[u]
                                         /\ key'[u] = key[u] /\ freed'[u] = freed[u]
            BY <5>2, Zenon
          <6>3. mu' = NoThread => caller' = "Reserve"
            BY <5>1, Zenon DEF LockDiscipline
          <6> QED
            BY <3>2, <5>1, <6>1, <6>2, <6>3, DisciplineOfMover, Zenon
      <4>2. CASE ~(size[<<m, k>>] > 0)
        <5>1. Return(t)
          BY <2>5, <4>2, Zenon DEF Invalidate
        <5>2. UNCHANGED <<mu, caller, target>> /\ pc[t] \notin {"reclaim", "scan", "evict"}
          BY <2>5, Zenon DEF Invalidate, Calls, budgetVars
        <5>3. mu # t
          BY <5>2, Zenon DEF LockDiscipline
        <5> QED
          BY <3>2, <5>1, <5>2, <5>3, DisciplineOfReturn, Zenon
      <4> QED BY <4>1, <4>2, <2>5, Zenon DEF TypeOK
    <3>c. CursorInRange'
      BY <2>5, <3>1, <3>2, <3>3, Zenon
         DEF TypeOK, CursorInRange, Invalidate, Calls, Goto, Return, ForgetBest
    <3> QED BY <3>t, <3>l, <3>c, Zenon
  <2>6. ASSUME NEW t \in Threads, NEW m \in Managers, NEW k \in Keys, NEW n \in Sizes, Admit(t, m, k, n)
        PROVE  TypeOK' /\ LockDiscipline' /\ CursorInRange'
    <3>t. TypeOK'
      BY <2>6, Zenon DEF TypeOK, LockDiscipline, Admit, Calls, Goto
    <3>l. LockDiscipline'
      <4>1. /\ pc'[t] \in {"invalidate", "reserve"} /\ mgr'[t] = m /\ key'[t] = k /\ freed'[t] = freed[t]
            /\ \A u \in Threads \ {t} : /\ pc'[u] = pc[u] /\ mgr'[u] = mgr[u]
                                        /\ key'[u] = key[u] /\ freed'[u] = freed[u]
        BY <2>6, Zenon DEF Admit, Goto, TypeOK
      <4>2. UNCHANGED <<mu, caller, target>>
        BY <2>6, Zenon DEF Admit
      <4>3. Disciplined(t)'
        BY <2>6, <4>1, <4>2, BudgetAssumption, Zenon DEF Admit, Calls, Disciplined, LockDiscipline, TypeOK
      <4>4. mu' = NoThread => caller' = "Reserve"
        BY <4>2, BudgetAssumption, Zenon DEF LockDiscipline
      <4>5. \A x \in Slots \ cached' : size'[x] = 0
        BY <2>6, Zenon DEF LockDiscipline, Admit
      <4> QED
        BY <4>1, <4>2, <4>3, <4>4, <4>5, DisciplineOfMover, Zenon
    <3>c. CursorInRange'
      BY <2>6, Zenon DEF TypeOK, CursorInRange, Admit, Calls, Goto
    <3> QED BY <3>t, <3>l, <3>c, Zenon
  <2>7. ASSUME NEW t \in Threads, UnregisterFound(t)
        PROVE  TypeOK' /\ LockDiscipline' /\ CursorInRange'
    <3>t. TypeOK'
      <4>1. mgr[t] \in Managers
        BY <2>7, Zenon DEF UnregisterFound, LockDiscipline
      <4> QED
        BY <2>7, <4>1, ResetTypes, Zenon DEF TypeOK, UnregisterFound, BeginEvictOldest, Goto
    <3>l. LockDiscipline'
      <4>1. /\ pc'[t] = "scan" /\ mgr'[t] = mgr[t] /\ freed'[t] = freed[t]
            /\ \A u \in Threads \ {t} : /\ pc'[u] = pc[u] /\ mgr'[u] = mgr[u]
                                        /\ key'[u] = key[u] /\ freed'[u] = freed[u]
        BY <2>7, Zenon DEF UnregisterFound, BeginEvictOldest, Goto, TypeOK
      <4>2. mu = NoThread /\ mu' = t /\ caller' = "Unregister" /\ target' = mgr[t]
        BY <2>7, Zenon DEF UnregisterFound, BeginEvictOldest
      <4>3. Disciplined(t)'
        BY <2>7, <4>1, <4>2, BudgetAssumption, Zenon DEF UnregisterFound, Disciplined, LockDiscipline, TypeOK
      <4>4. mu' = NoThread => caller' = "Reserve"
        BY <4>2, BudgetAssumption, Zenon DEF LockDiscipline
      <4>5. \A x \in Slots \ cached' : size'[x] = 0
        BY <2>7, Zenon DEF LockDiscipline, UnregisterFound
      <4> QED
        BY <4>1, <4>2, <4>3, <4>4, <4>5, DisciplineOfMover, Zenon
    <3>c. CursorInRange'
      BY <2>7, Zenon DEF TypeOK, CursorInRange, UnregisterFound, BeginEvictOldest, Goto
    <3> QED BY <3>t, <3>l, <3>c, Zenon
  <2>8. ASSUME NEW t \in Threads, UnregisterUnknown(t)
        PROVE  TypeOK' /\ LockDiscipline' /\ CursorInRange'
    <3>t. TypeOK'
      <4>1. Return(t)
        BY <2>8, Zenon DEF UnregisterUnknown
      <4> QED
        BY <2>8, <4>1, ReturnFacts, Zenon DEF TypeOK, UnregisterUnknown
    <3>l. LockDiscipline'
      <4>1. Return(t) /\ mu # t /\ UNCHANGED <<mu, caller, target, cached, size>>
        BY <2>8, BudgetAssumption, Zenon DEF UnregisterUnknown
      <4>2. \A x \in Slots \ cached' : size'[x] = 0
        BY <4>1, Zenon DEF LockDiscipline
      <4> QED
        BY <4>1, <4>2, DisciplineOfReturn, Zenon
    <3>c. CursorInRange'
      BY <2>8, Zenon DEF TypeOK, CursorInRange, UnregisterUnknown, Return
    <3> QED BY <3>t, <3>l, <3>c, Zenon
  <2>9. ASSUME NEW t \in Threads, ReserveFits(t)
        PROVE  TypeOK' /\ LockDiscipline' /\ CursorInRange'
    <3>t. TypeOK'
      <4>1. used \in Nat /\ obj[t] \in Nat
        BY Zenon DEF TypeOK
      <4>2. used + obj[t] \in Nat
        BY <4>1
      <4> QED
        BY <2>9, <4>2, Zenon DEF TypeOK, ReserveFits, Goto
    <3>l. LockDiscipline'
      <4>1. /\ pc'[t] = "insert" /\ mgr'[t] = mgr[t] /\ key'[t] = key[t] /\ freed'[t] = freed[t]
            /\ \A u \in Threads \ {t} : /\ pc'[u] = pc[u] /\ mgr'[u] = mgr[u]
                                        /\ key'[u] = key[u] /\ freed'[u] = freed[u]
        BY <2>9, Zenon DEF ReserveFits, Goto, TypeOK
      <4>2. UNCHANGED <<mu, caller, target>>
        BY <2>9, Zenon DEF ReserveFits
      <4>3. Disciplined(t)'
        BY <2>9, <4>1, <4>2, BudgetAssumption, Zenon DEF ReserveFits, Disciplined, LockDiscipline, TypeOK
      <4>4. mu' = NoThread => caller' = "Reserve"
        BY <4>2, BudgetAssumption, Zenon DEF LockDiscipline
      <4>5. \A x \in Slots \ cached' : size'[x] = 0
        BY <2>9, Zenon DEF LockDiscipline, ReserveFits
      <4> QED
        BY <4>1, <4>2, <4>3, <4>4, <4>5, DisciplineOfMover, Zenon
    <3>c. CursorInRange'
      BY <2>9, Zenon DEF TypeOK, CursorInRange, ReserveFits, Goto
    <3> QED BY <3>t, <3>l, <3>c, Zenon
  <2>10. ASSUME NEW t \in Threads, ReserveRefuses(t)
        PROVE  TypeOK' /\ LockDiscipline' /\ CursorInRange'
    <3>t. TypeOK'
      BY <2>10, Zenon DEF TypeOK, LockDiscipline, ReserveRefuses, Goto
    <3>l. LockDiscipline'
      <4>1. /\ pc'[t] = "invalidate" /\ mgr'[t] = mgr[t] /\ key'[t] = key[t] /\ freed'[t] = freed[t]
            /\ \A u \in Threads \ {t} : /\ pc'[u] = pc[u] /\ mgr'[u] = mgr[u]
                                        /\ key'[u] = key[u] /\ freed'[u] = freed[u]
        BY <2>10, Zenon DEF ReserveRefuses, Goto, TypeOK
      <4>2. UNCHANGED <<mu, caller, target>>
        BY <2>10, Zenon DEF ReserveRefuses
      <4>3. Disciplined(t)'
        BY <2>10, <4>1, <4>2, BudgetAssumption, Zenon DEF ReserveRefuses, Disciplined, LockDiscipline, TypeOK
      <4>4. mu' = NoThread => caller' = "Reserve"
        BY <4>2, BudgetAssumption, Zenon DEF LockDiscipline
      <4>5. \A x \in Slots \ cached' : size'[x] = 0
        BY <2>10, Zenon DEF LockDiscipline, ReserveRefuses
      <4> QED
        BY <4>1, <4>2, <4>3, <4>4, <4>5, DisciplineOfMover, Zenon
    <3>c. CursorInRange'
      BY <2>10, Zenon DEF TypeOK, CursorInRange, ReserveRefuses, Goto
    <3> QED BY <3>t, <3>l, <3>c, Zenon
  <2>11. ASSUME NEW t \in Threads, ReserveEvicts(t)
        PROVE  TypeOK' /\ LockDiscipline' /\ CursorInRange'
    <3>t. TypeOK'
      BY <2>11, Zenon DEF TypeOK, LockDiscipline, ReserveEvicts, Goto
    <3>l. LockDiscipline'
      <4>1. /\ pc'[t] = "reclaim" /\ mgr'[t] = mgr[t] /\ key'[t] = key[t] /\ freed'[t] = freed[t]
            /\ \A u \in Threads \ {t} : /\ pc'[u] = pc[u] /\ mgr'[u] = mgr[u]
                                        /\ key'[u] = key[u] /\ freed'[u] = freed[u]
        BY <2>11, Zenon DEF ReserveEvicts, Goto, TypeOK
      <4>2. mu = NoThread /\ mu' = t /\ caller' = caller
        BY <2>11, Zenon DEF ReserveEvicts
      <4>3. Disciplined(t)'
        BY <2>11, <4>1, <4>2, BudgetAssumption, Zenon DEF ReserveEvicts, Disciplined, LockDiscipline, TypeOK
      <4>4. mu' = NoThread => caller' = "Reserve"
        BY <4>2, BudgetAssumption, Zenon DEF LockDiscipline
      <4>5. \A x \in Slots \ cached' : size'[x] = 0
        BY <2>11, Zenon DEF LockDiscipline, ReserveEvicts
      <4> QED
        BY <4>1, <4>2, <4>3, <4>4, <4>5, DisciplineOfMover, Zenon
    <3>c. CursorInRange'
      BY <2>11, Zenon DEF TypeOK, CursorInRange, ReserveEvicts, Goto
    <3> QED BY <3>t, <3>l, <3>c, Zenon
  <2>12. ASSUME NEW t \in Threads, Release(t)
        PROVE  TypeOK' /\ LockDiscipline' /\ CursorInRange'
    <3>t. TypeOK'
      <4>1. used \in Nat /\ freed[t] \in Nat
        BY Zenon DEF TypeOK
      <4>2. Minus(used, freed[t]) \in Nat
        BY <4>1 DEF Minus
      <4>3. Return(t)
        BY <2>12, Zenon DEF Release
      <4> QED
        BY <2>12, <4>2, <4>3, ReturnFacts, Zenon DEF TypeOK, Release
    <3>l. LockDiscipline'
      <4>1. Return(t) /\ mu # t /\ UNCHANGED <<mu, caller, target, cached, size>>
        BY <2>12, BudgetAssumption, Zenon DEF Release
      <4>2. \A x \in Slots \ cached' : size'[x] = 0
        BY <4>1, Zenon DEF LockDiscipline
      <4> QED
        BY <4>1, <4>2, DisciplineOfReturn, Zenon
    <3>c. CursorInRange'
      BY <2>12, Zenon DEF TypeOK, CursorInRange, Release, Return, Minus
    <3> QED BY <3>t, <3>l, <3>c, Zenon
  <2>13. ASSUME NEW t \in Threads, ReclaimAsks(t)
        PROVE  TypeOK' /\ LockDiscipline' /\ CursorInRange'
    <3>1. Len(evictors) \in Nat \ {0} /\ cursor + 1 \in 1..Len(evictors)
      BY <2>13 DEF ReclaimAsks, TypeOK, CursorInRange
    <3>2. (cursor + 1) % Len(evictors) \in 0..(Len(evictors) - 1)
      BY <3>1 DEF TypeOK
    <3>3. evictors[cursor + 1] \in Managers
      BY <3>1 DEF TypeOK
    <3>t. TypeOK'
      <4>1. (cursor + 1) % Len(evictors) \in Nat
        BY <3>1, <3>2
      <4> QED
        BY <2>13, <3>3, <4>1, ResetTypes, Zenon DEF TypeOK, ReclaimAsks, BeginEvictOldest, Goto
    <3>l. LockDiscipline'
      <4>1. /\ pc'[t] = "scan" /\ mgr'[t] = mgr[t] /\ key'[t] = key[t] /\ freed'[t] = freed[t]
            /\ \A u \in Threads \ {t} : /\ pc'[u] = pc[u] /\ mgr'[u] = mgr[u]
                                        /\ key'[u] = key[u] /\ freed'[u] = freed[u]
        BY <2>13, <3>3, Zenon DEF ReclaimAsks, BeginEvictOldest, Goto, TypeOK
      <4>2. mu = t /\ mu' = t /\ caller' = "Reserve" /\ target' = evictors[cursor + 1]
        BY <2>13, <3>3, Zenon DEF LockDiscipline, ReclaimAsks, BeginEvictOldest
      <4>3. Disciplined(t)'
        BY <2>13, <3>3, <4>1, <4>2, BudgetAssumption, Zenon DEF ReclaimAsks, Disciplined, LockDiscipline, TypeOK
      <4>4. mu' = NoThread => caller' = "Reserve"
        BY <4>2, BudgetAssumption, Zenon DEF LockDiscipline
      <4>5. \A x \in Slots \ cached' : size'[x] = 0
        BY <2>13, Zenon DEF LockDiscipline, ReclaimAsks
      <4> QED
        BY <4>1, <4>2, <4>3, <4>4, <4>5, DisciplineOfMover, Zenon
    <3>c. CursorInRange'
      BY <2>13, <3>1, <3>2, <3>3 DEF TypeOK, CursorInRange, ReclaimAsks, BeginEvictOldest, Goto
    <3> QED BY <3>t, <3>l, <3>c, Zenon
  <2>14. ASSUME NEW t \in Threads, ReclaimGivesUp(t)
        PROVE  TypeOK' /\ LockDiscipline' /\ CursorInRange'
    <3>t. TypeOK'
      BY <2>14, ResetTypes, Zenon DEF TypeOK, ReclaimGivesUp, Unlock, Goto
    <3>l. LockDiscipline'
      <4>1. /\ pc'[t] = "invalidate" /\ mgr'[t] = mgr[t] /\ key'[t] = key[t] /\ freed'[t] = freed[t]
            /\ \A u \in Threads \ {t} : /\ pc'[u] = pc[u] /\ mgr'[u] = mgr[u]
                                        /\ key'[u] = key[u] /\ freed'[u] = freed[u]
        BY <2>14, Zenon DEF ReclaimGivesUp, Goto, TypeOK
      <4>2. mu = t /\ mu' = NoThread /\ caller' = "Reserve"
        BY <2>14, Zenon DEF LockDiscipline, ReclaimGivesUp, Unlock
      <4>3. Disciplined(t)'
        BY <2>14, <4>1, <4>2, BudgetAssumption, Zenon DEF ReclaimGivesUp, Disciplined, LockDiscipline, TypeOK
      <4>4. mu' = NoThread => caller' = "Reserve"
        BY <4>2, BudgetAssumption, Zenon DEF LockDiscipline
      <4>5. \A x \in Slots \ cached' : size'[x] = 0
        BY <2>14, Zenon DEF LockDiscipline, ReclaimGivesUp
      <4> QED
        BY <4>1, <4>2, <4>3, <4>4, <4>5, DisciplineOfMover, Zenon
    <3>c. CursorInRange'
      BY <2>14, Zenon DEF TypeOK, CursorInRange, ReclaimGivesUp, Unlock, Goto
    <3> QED BY <3>t, <3>l, <3>c, Zenon
  <2>15. ASSUME NEW t \in Threads, ScanShard(t)
        PROVE  TypeOK' /\ LockDiscipline' /\ CursorInRange'
    <3>1. best' \in Keys \cup {NoKey, Stale}
      BY <2>15, Zenon DEF ScanShard, Back, TypeOK
    <3>2. shard' \in [Threads -> Shards]
      <4>1. shard[t] \in 1..NumShards /\ shard \in [Threads -> Shards]
        BY Zenon DEF TypeOK
      <4>2. CASE shard[t] < NumShards
        <5>1. shard[t] + 1 \in Shards
          BY <4>1, <4>2
        <5> QED
          BY <2>15, <4>1, <4>2, <5>1, Zenon DEF ScanShard
      <4>3. CASE ~(shard[t] < NumShards)
        <5>1. 1 \in Shards
          OBVIOUS
        <5> QED
          BY <2>15, <4>1, <4>3, <5>1, Zenon DEF ScanShard
      <4> QED
        BY <4>2, <4>3, Zenon
    <3>t. TypeOK'
      <4>1. pc' = pc \/ pc' = [pc EXCEPT ![t] = "evict"]
        BY <2>15, Zenon DEF ScanShard, Goto
      <4> QED
        BY <2>15, <3>1, <3>2, <4>1, Zenon DEF TypeOK, ScanShard
    <3>l. LockDiscipline'
      <4>1. /\ (pc'[t] = pc[t] \/ pc'[t] = "evict") /\ mgr'[t] = mgr[t] /\ key'[t] = key[t] /\ freed'[t] = freed[t]
            /\ \A u \in Threads \ {t} : /\ pc'[u] = pc[u] /\ mgr'[u] = mgr[u]
                                        /\ key'[u] = key[u] /\ freed'[u] = freed[u]
        BY <2>15, Zenon DEF ScanShard, Goto, TypeOK
      <4>2. UNCHANGED <<mu, caller, target>>
        BY <2>15, Zenon DEF ScanShard
      <4>3. Disciplined(t)'
        BY <2>15, <4>1, <4>2, BudgetAssumption, Zenon DEF ScanShard, Disciplined, LockDiscipline, TypeOK
      <4>4. mu' = NoThread => caller' = "Reserve"
        BY <4>2, BudgetAssumption, Zenon DEF LockDiscipline
      <4>5. \A x \in Slots \ cached' : size'[x] = 0
        BY <2>15, Zenon DEF LockDiscipline, ScanShard
      <4> QED
        BY <4>1, <4>2, <4>3, <4>4, <4>5, DisciplineOfMover, Zenon
    <3>c. CursorInRange'
      BY <2>15, <3>1, <3>2, Zenon DEF TypeOK, CursorInRange, ScanShard, Goto
    <3> QED BY <3>t, <3>l, <3>c, Zenon
  <2>16. ASSUME NEW t \in Threads, EvictRetry(t)
        PROVE  TypeOK' /\ LockDiscipline' /\ CursorInRange'
    <3>t. TypeOK'
      <4>1. attempt + 1 \in 1..3
        BY <2>16 DEF EvictRetry, TypeOK
      <4> QED
        BY <2>16, <4>1, Zenon DEF TypeOK, EvictRetry, Goto
    <3>l. LockDiscipline'
      <4>1. /\ pc'[t] = "scan" /\ mgr'[t] = mgr[t] /\ key'[t] = key[t] /\ freed'[t] = freed[t]
            /\ \A u \in Threads \ {t} : /\ pc'[u] = pc[u] /\ mgr'[u] = mgr[u]
                                        /\ key'[u] = key[u] /\ freed'[u] = freed[u]
        BY <2>16, Zenon DEF EvictRetry, Goto, TypeOK
      <4>2. UNCHANGED <<mu, caller, target>>
        BY <2>16, Zenon DEF EvictRetry
      <4>3. Disciplined(t)'
        BY <2>16, <4>1, <4>2, BudgetAssumption, Zenon DEF EvictRetry, Disciplined, LockDiscipline, TypeOK
      <4>4. mu' = NoThread => caller' = "Reserve"
        BY <4>2, BudgetAssumption, Zenon DEF LockDiscipline
      <4>5. \A x \in Slots \ cached' : size'[x] = 0
        BY <2>16, Zenon DEF LockDiscipline, EvictRetry
      <4> QED
        BY <4>1, <4>2, <4>3, <4>4, <4>5, DisciplineOfMover, Zenon
    <3>c. CursorInRange'
      BY <2>16, Zenon DEF TypeOK, CursorInRange, EvictRetry, Goto
    <3> QED BY <3>t, <3>l, <3>c, Zenon
  <2>17. ASSUME NEW t \in Threads, EvictFrees(t)
        PROVE  TypeOK' /\ LockDiscipline' /\ CursorInRange'
    <3>1. Drop({<<target, best>>})
      BY <2>17, Zenon DEF EvictFrees
    <3>2. cached' \subseteq Slots /\ size' \in [Slots -> Nat]
            /\ bytes' \in [Managers \X Shards -> Nat]
            /\ lru' \in [Managers -> SUBSET (Keys \X Keys)]
            /\ \A x \in Slots \ cached' : size'[x] = 0
      BY <3>1, DropFacts, Zenon
    <3>3. <<target, best>> \in Slots
      BY <2>17, Zenon DEF EvictFrees, LockDiscipline, Slots
    <3>4. Minus(used, size[<<target, best>>]) \in Nat
      BY <3>3, MinusExact, Zenon DEF TypeOK
    <3>b. used' \in Nat /\ evictors' \in Seq(Managers) /\ cursor' \in Nat
            /\ mu' \in Threads \cup {NoThread}
            /\ open' \subseteq Managers /\ quiet' \subseteq Managers
      <4>1. Minus(used, size[<<target, best>>]) + obj[t] \in Nat
        BY <3>4 DEF TypeOK
      <4> QED
        BY <2>17, <3>4, <4>1, Zenon DEF TypeOK, EvictFrees, Unlock
    <3>p. pc' \in [Threads -> {"idle", "reserve", "reclaim", "scan", "evict", "insert",
                                 "invalidate", "purge", "release", "unregister"}]
            /\ mgr' \in [Threads -> Managers \cup {NoManager}]
            /\ key' \in [Threads -> Keys \cup {NoKey}]
      BY <2>17, Zenon DEF TypeOK, EvictFrees, BeginEvictOldest, Goto
    <3>o. obj' \in [Threads -> Nat] /\ freed' \in [Threads -> Nat]
            /\ shard' \in [Threads -> Shards]
      <4>1. 1 \in Shards
        OBVIOUS
      <4> QED
        BY <2>17, <3>1, <3>2, <3>3, <3>4, <4>1, Zenon DEF TypeOK, EvictFrees, BeginEvictOldest
    <3>e. caller' \in {"Reserve", "Unregister"} /\ target' \in Managers \cup {NoManager}
            /\ attempt' \in 1..3 /\ best' \in Keys \cup {NoKey, Stale}
            /\ exhausted' \in Nat
      BY <2>17, <3>3, ResetTypes, Zenon DEF TypeOK, EvictFrees, BeginEvictOldest, Unlock, Slots
    <3>s. cached' \subseteq Slots /\ size' \in [Slots -> Nat]
            /\ bytes' \in [Managers \X Shards -> Nat]
            /\ lru' \in [Managers -> SUBSET (Keys \X Keys)]
      BY <2>17, <3>1, <3>2, <3>3, <3>4, Zenon
         DEF TypeOK, LockDiscipline, EvictFrees, BeginEvictOldest, Unlock, Goto
    <3>t. TypeOK'
      BY <3>b, <3>p, <3>o, <3>e, <3>s, Zenon DEF TypeOK
    <3>l. LockDiscipline'
      <4>1. /\ mu = t /\ target \in Managers /\ pc[t] = "evict"
            /\ UNCHANGED <<mgr, key, freed>>
        BY <2>17, Zenon DEF EvictFrees, LockDiscipline
      <4>2. \A u \in Threads \ {t} : /\ pc'[u] = pc[u] /\ mgr'[u] = mgr[u]
                                     /\ key'[u] = key[u] /\ freed'[u] = freed[u]
        BY <2>17, <4>1, Zenon DEF EvictFrees, BeginEvictOldest, Goto, TypeOK
      <4>3. \/ /\ pc'[t] = "scan" /\ mu' = t /\ caller' = caller /\ target' = target
               /\ caller = "Unregister"
            \/ pc'[t] = "insert" /\ mu' = NoThread /\ caller' = "Reserve" /\ caller = "Reserve"
            \/ pc'[t] = "reclaim" /\ mu' = t /\ caller' = "Reserve" /\ caller = "Reserve"
        BY <2>17, <4>1, Zenon DEF EvictFrees, BeginEvictOldest, Unlock, Goto, TypeOK
      <4>4. Disciplined(t)
        BY DisciplineByThread, Zenon
      <4>5. Disciplined(t)'
        BY <4>1, <4>3, <4>4, BudgetAssumption, Zenon DEF Disciplined
      <4>6. mu' = NoThread => caller' = "Reserve"
        BY <4>3, BudgetAssumption, Zenon
      <4>7. mu \in {t, NoThread} /\ mu' \in {t, NoThread}
        BY <4>1, <4>3, Zenon
      <4> QED
        BY <3>2, <4>2, <4>5, <4>6, <4>7, DisciplineOfMover, Zenon
    <3>c. CursorInRange'
      BY <2>17, <3>1, <3>2, <3>3, <3>4, Zenon
         DEF TypeOK, CursorInRange, EvictFrees, BeginEvictOldest, Unlock, Goto
    <3> QED BY <3>t, <3>l, <3>c, Zenon
  <2>18. ASSUME NEW t \in Threads, EvictFailsReserve(t)
        PROVE  TypeOK' /\ LockDiscipline' /\ CursorInRange'
    <3>t. TypeOK'
      <4>1. exhausted + 1 \in Nat
        BY DEF TypeOK
      <4> QED
        BY <2>18, <4>1, ResetTypes, Zenon DEF TypeOK, EvictFailsReserve, Goto
    <3>l. LockDiscipline'
      <4>1. /\ pc'[t] = "reclaim" /\ mgr'[t] = mgr[t] /\ key'[t] = key[t] /\ freed'[t] = freed[t]
            /\ \A u \in Threads \ {t} : /\ pc'[u] = pc[u] /\ mgr'[u] = mgr[u]
                                        /\ key'[u] = key[u] /\ freed'[u] = freed[u]
        BY <2>18, Zenon DEF EvictFailsReserve, Goto, TypeOK
      <4>2. mu = t /\ mu' = t /\ caller = "Reserve" /\ caller' = caller
        BY <2>18, Zenon DEF LockDiscipline, EvictFailsReserve
      <4>3. Disciplined(t)'
        BY <2>18, <4>1, <4>2, BudgetAssumption, Zenon DEF EvictFailsReserve, Disciplined, LockDiscipline, TypeOK
      <4>4. mu' = NoThread => caller' = "Reserve"
        BY <4>2, BudgetAssumption, Zenon DEF LockDiscipline
      <4>5. \A x \in Slots \ cached' : size'[x] = 0
        BY <2>18, Zenon DEF LockDiscipline, EvictFailsReserve
      <4> QED
        BY <4>1, <4>2, <4>3, <4>4, <4>5, DisciplineOfMover, Zenon
    <3>c. CursorInRange'
      BY <2>18, Zenon DEF TypeOK, CursorInRange, EvictFailsReserve, Goto
    <3> QED BY <3>t, <3>l, <3>c, Zenon
  <2>19. ASSUME NEW t \in Threads, EvictFailsUnregister(t)
        PROVE  TypeOK' /\ LockDiscipline' /\ CursorInRange'
    <3>1. evictors' \in Seq(Managers) /\ cursor' \in Nat
            /\ CursorInRange'
      <4>1. PICK j \in 1..Len(evictors) : /\ evictors' = WithoutIndex(evictors, j)
                                         /\ cursor' = CursorAfter(j, Len(evictors) - 1)
        BY <2>19 DEF EvictFailsUnregister, TypeOK
      <4>2. evictors' \in Seq(Managers) /\ Len(evictors') = Len(evictors) - 1
        BY <4>1, WithoutType, Zenon DEF TypeOK
      <4>3. Len(evictors) - 1 \in Nat /\ j \in Nat \ {0} /\ cursor \in Nat
        BY <4>1 DEF TypeOK
      <4>4. cursor' \in Nat /\ (Len(evictors) - 1 > 0 => cursor' < Len(evictors) - 1)
              /\ (Len(evictors) - 1 = 0 => cursor' = 0)
        BY <4>1, <4>3, CursorAfterRange, Zenon
      <4> QED BY <4>2, <4>3, <4>4 DEF CursorInRange
    <3>t. TypeOK'
      <4>1. Return(t) /\ Unlock
        BY <2>19, Zenon DEF EvictFailsUnregister
      <4> QED
        BY <2>19, <3>1, <4>1, ReturnFacts, ResetTypes, Zenon
           DEF TypeOK, EvictFailsUnregister, Unlock
    <3>l. LockDiscipline'
      <4>1. Return(t) /\ Unlock /\ mu = t /\ UNCHANGED <<cached, size>>
        BY <2>19, Zenon DEF EvictFailsUnregister, LockDiscipline
      <4>2. /\ pc'[t] = "idle" /\ freed'[t] = 0
            /\ \A u \in Threads \ {t} : /\ pc'[u] = pc[u] /\ mgr'[u] = mgr[u]
                                        /\ key'[u] = key[u] /\ freed'[u] = freed[u]
        BY <4>1, ReturnFacts, Zenon
      <4>3. mu' = NoThread /\ caller' = "Reserve"
        BY <4>1, Zenon DEF Unlock
      <4>4. Disciplined(t)'
        BY <4>2, <4>3, BudgetAssumption, Zenon DEF Disciplined
      <4>5. \A x \in Slots \ cached' : size'[x] = 0
        BY <4>1, Zenon DEF LockDiscipline
      <4> QED
        BY <4>1, <4>2, <4>3, <4>4, <4>5, DisciplineOfMover, Zenon
    <3>c. CursorInRange'
      BY <2>19, <3>1, Zenon DEF TypeOK, CursorInRange, EvictFailsUnregister, Unlock, Return
    <3> QED BY <3>t, <3>l, <3>c, Zenon
  <2>20. ASSUME NEW t \in Threads, Insert(t)
        PROVE  TypeOK' /\ LockDiscipline' /\ CursorInRange'
    <3>1. mgr[t] \in Managers /\ key[t] \in Keys /\ <<mgr[t], key[t]>> \in Slots
      BY <2>20, Zenon DEF Insert, LockDiscipline, Slots
    <3>2. lru' \in [Managers -> SUBSET (Keys \X Keys)]
      BY <2>20, <3>1, ToFrontType, Zenon DEF Insert
    <3>3. bytes' \in [Managers \X Shards -> Nat]
      <4>1. <<mgr[t], ShardOf[key[t]]>> \in Managers \X Shards
        BY <3>1, BudgetAssumption, Zenon DEF Shards
      <4>2. /\ bytes[<<mgr[t], ShardOf[key[t]]>>] \in Nat /\ obj[t] \in Nat
            /\ size[<<mgr[t], key[t]>>] \in Nat
        BY <3>1, <4>1, Zenon DEF TypeOK
      <4>3. ShardBytesAfter(bytes[<<mgr[t], ShardOf[key[t]]>>], obj[t], size[<<mgr[t], key[t]>>]) \in Nat
        BY <4>2 DEF ShardBytesAfter, Minus
      <4> QED
        BY <2>20, <4>1, <4>3, Zenon DEF Insert, TypeOK
    <3>4. cached' \subseteq Slots /\ size' \in [Slots -> Nat]
      BY <2>20, <3>1, Zenon DEF Insert, TypeOK
    <3>5. \A x \in Slots \ cached' : size'[x] = 0
      BY <2>20, <3>1, Zenon DEF Insert, TypeOK, LockDiscipline
    <3>b. used' \in Nat /\ evictors' \in Seq(Managers) /\ cursor' \in Nat
            /\ mu' \in Threads \cup {NoThread}
            /\ open' \subseteq Managers /\ quiet' \subseteq Managers
      BY <2>20, <3>1, <3>2, <3>3, <3>4, <3>5, Zenon
         DEF TypeOK, LockDiscipline, Insert, Return, Goto
    <3>p. pc' \in [Threads -> {"idle", "reserve", "reclaim", "scan", "evict", "insert",
                                 "invalidate", "purge", "release", "unregister"}]
            /\ mgr' \in [Threads -> Managers \cup {NoManager}]
            /\ key' \in [Threads -> Keys \cup {NoKey}]
      <4>1. CASE size[<<mgr[t], key[t]>>] > 0
        BY <2>20, <4>1, Zenon DEF TypeOK, Insert, Goto
      <4>2. CASE ~(size[<<mgr[t], key[t]>>] > 0)
        <5>1. Return(t)
          BY <2>20, <4>2, Zenon DEF Insert
        <5> QED
          BY <5>1, ReturnFacts, Zenon
      <4> QED
        BY <4>1, <4>2, Zenon
    <3>o. obj' \in [Threads -> Nat] /\ freed' \in [Threads -> Nat]
            /\ shard' \in [Threads -> Shards]
      <4>1. CASE size[<<mgr[t], key[t]>>] > 0
        <5>1. /\ freed' = [freed EXCEPT ![t] = size[<<mgr[t], key[t]>>]]
              /\ UNCHANGED <<obj, shard>>
          BY <2>20, <4>1, Zenon DEF Insert
        <5>2. size[<<mgr[t], key[t]>>] \in Nat
          BY <2>20, Zenon DEF TypeOK, LockDiscipline, Insert, Slots
        <5> QED
          BY <5>1, <5>2, Zenon DEF TypeOK
      <4>2. CASE ~(size[<<mgr[t], key[t]>>] > 0)
        <5>1. Return(t)
          BY <2>20, <4>2, Zenon DEF Insert
        <5> QED
          BY <5>1, ReturnFacts, Zenon
      <4> QED
        BY <4>1, <4>2, Zenon
    <3>e. caller' \in {"Reserve", "Unregister"} /\ target' \in Managers \cup {NoManager}
            /\ attempt' \in 1..3 /\ best' \in Keys \cup {NoKey, Stale}
            /\ exhausted' \in Nat
      BY <2>20, Zenon DEF TypeOK, Insert
    <3>s. cached' \subseteq Slots /\ size' \in [Slots -> Nat]
            /\ bytes' \in [Managers \X Shards -> Nat]
            /\ lru' \in [Managers -> SUBSET (Keys \X Keys)]
      BY <3>2, <3>3, <3>4, Zenon
    <3>t. TypeOK'
      BY <3>b, <3>p, <3>o, <3>e, <3>s, Zenon DEF TypeOK
    <3>l. LockDiscipline'
      <4>1. UNCHANGED <<mu, caller, target>> /\ pc[t] = "insert" /\ mu # t
        BY <2>20, Zenon DEF Insert, LockDiscipline
      <4>2. CASE size[<<mgr[t], key[t]>>] > 0
        <5>1. /\ pc'[t] = "release" /\ mgr' = mgr
              /\ \A u \in Threads \ {t} : /\ pc'[u] = pc[u] /\ mgr'[u] = mgr[u]
                                          /\ key'[u] = key[u] /\ freed'[u] = freed[u]
          BY <2>20, <4>2, Zenon DEF TypeOK, Insert, Goto
        <5>2. Disciplined(t)'
          BY <3>1, <4>1, <5>1, Zenon DEF Disciplined
        <5>3. mu' = NoThread => caller' = "Reserve"
          BY <4>1, Zenon DEF LockDiscipline
        <5> QED
          BY <3>5, <4>1, <5>1, <5>2, <5>3, DisciplineOfMover, Zenon
      <4>3. CASE ~(size[<<mgr[t], key[t]>>] > 0)
        <5>1. Return(t)
          BY <2>20, <4>3, Zenon DEF Insert
        <5> QED
          BY <3>5, <4>1, <5>1, DisciplineOfReturn, Zenon
      <4> QED BY <4>2, <4>3, Zenon
    <3>c. CursorInRange'
      BY <2>20, <3>1, <3>2, <3>3, <3>4, <3>5, Zenon
         DEF TypeOK, CursorInRange, Insert, Return, Goto
    <3> QED BY <3>t, <3>l, <3>c, Zenon
  <2>21. ASSUME NEW t \in Threads, PurgeShard(t)
        PROVE  TypeOK' /\ LockDiscipline' /\ CursorInRange'
    <3>1. PICK D \in SUBSET (cached \cap InShard(mgr[t], shard[t])) :
            LET f == freed[t] + Bytes(Part(size, D)) IN
            /\ Drop(D)
            /\ ForgetBest(D)
            /\ \/ /\ shard[t] < NumShards
                  /\ shard' = [shard EXCEPT ![t] = @ + 1]
                  /\ freed' = [freed EXCEPT ![t] = f]
                  /\ UNCHANGED <<pc, mgr, key, obj>>
               \/ /\ shard[t] = NumShards /\ f > 0
                  /\ shard' = [shard EXCEPT ![t] = 1]
                  /\ freed' = [freed EXCEPT ![t] = f]
                  /\ Goto(t, "release")
                  /\ UNCHANGED <<mgr, key, obj>>
               \/ /\ shard[t] = NumShards /\ f = 0
                  /\ Return(t)
      BY <2>21, Zenon DEF PurgeShard
    <3>2. cached' \subseteq Slots /\ size' \in [Slots -> Nat]
            /\ bytes' \in [Managers \X Shards -> Nat]
            /\ lru' \in [Managers -> SUBSET (Keys \X Keys)]
            /\ \A x \in Slots \ cached' : size'[x] = 0
      BY <3>1, DropFacts, Zenon
    <3>3. best' \in Keys \cup {NoKey, Stale}
      BY <3>1, Zenon DEF ForgetBest, TypeOK
    <3>4. \A A : Bytes(Part(size, A)) \in Nat
      BY PartBytesType, Zenon DEF TypeOK
    <3> DEFINE f == freed[t] + Bytes(Part(size, D))
    <3>5. f \in Nat
      BY <3>4 DEF TypeOK
    <3>6. /\ UNCHANGED <<budgetVars, nsVars, caller, target, attempt, exhausted>>
          /\ pc[t] = "purge"
      BY <2>21, Zenon DEF PurgeShard
    <3>c. CursorInRange'
      BY <3>6, Zenon DEF CursorInRange, budgetVars
    <3> HIDE DEF f
    <3>7. CASE /\ shard[t] < NumShards
               /\ shard' = [shard EXCEPT ![t] = @ + 1]
               /\ freed' = [freed EXCEPT ![t] = f]
               /\ UNCHANGED <<pc, mgr, key, obj>>
      <4>1. shard' \in [Threads -> Shards] /\ freed' \in [Threads -> Nat]
        <5>1. shard[t] \in 1..NumShards
          BY Zenon DEF TypeOK, Shards
        <5>2. shard[t] + 1 \in Shards
          BY <3>7, <5>1, BudgetAssumption DEF Shards
        <5> QED
          BY <3>5, <3>7, <5>2, Zenon DEF TypeOK
      <4>t. TypeOK'
        BY <3>2, <3>3, <3>6, <3>7, <4>1, Zenon DEF TypeOK, budgetVars, nsVars
      <4>l. LockDiscipline'
        <5>1. \A u \in Threads \ {t} : /\ pc'[u] = pc[u] /\ mgr'[u] = mgr[u]
                                       /\ key'[u] = key[u] /\ freed'[u] = freed[u]
          BY <3>7, Zenon DEF TypeOK
        <5>2. Disciplined(t)'
          BY <3>6, <3>7, Zenon DEF Disciplined, LockDiscipline, budgetVars
        <5>3. UNCHANGED <<mu, caller, target>> /\ (mu' = NoThread => caller' = "Reserve")
          BY <3>6, Zenon DEF LockDiscipline, budgetVars
        <5> QED
          BY <3>2, <5>1, <5>2, <5>3, DisciplineOfMover, Zenon
      <4> QED
        BY <3>c, <4>t, <4>l, Zenon
    <3>8. CASE /\ shard' = [shard EXCEPT ![t] = 1]
               /\ freed' = [freed EXCEPT ![t] = f]
               /\ Goto(t, "release")
               /\ UNCHANGED <<mgr, key, obj>>
      <4>1. shard' \in [Threads -> Shards] /\ freed' \in [Threads -> Nat]
        BY <3>5, <3>8, ResetTypes, Zenon DEF TypeOK
      <4>2. pc' = [pc EXCEPT ![t] = "release"]
        BY <3>8, Zenon DEF Goto
      <4>t. TypeOK'
        BY <3>2, <3>3, <3>6, <3>8, <4>1, <4>2, Zenon DEF TypeOK, budgetVars, nsVars
      <4>l. LockDiscipline'
        BY <3>2, <3>6, <3>8, <4>2, Zenon DEF TypeOK, LockDiscipline, budgetVars
      <4> QED
        BY <3>c, <4>t, <4>l, Zenon
    <3>9. CASE Return(t)
      <4>t. TypeOK'
        BY <3>2, <3>3, <3>6, <3>9, ReturnFacts, Zenon DEF TypeOK, budgetVars, nsVars
      <4>l. LockDiscipline'
        <5>1. UNCHANGED <<mu, caller, target>> /\ mu # t
          BY <3>6, Zenon DEF LockDiscipline, budgetVars
        <5> QED
          BY <3>2, <3>9, <5>1, DisciplineOfReturn, Zenon
      <4> QED
        BY <3>c, <4>t, <4>l, Zenon
    <3> QED
      BY <3>1, <3>7, <3>8, <3>9, Zenon DEF f
  <2>22. CASE UNCHANGED vars
    BY <2>22, Zenon DEF TypeOK, LockDiscipline, CursorInRange, vars
  <2> QED
    BY <2>1, <2>2, <2>3, <2>4, <2>5, <2>6, <2>7, <2>8, <2>9, <2>10, <2>11, <2>12, <2>13, <2>14, <2>15, <2>16, <2>17, <2>18, <2>19, <2>20, <2>21, <2>22, Zenon
       DEF Next, Acquire, Proceed
<1> QED
  BY <1>1, <1>2, PTL DEF Spec

\* Spec => []TypeOK: in particular used, the shard byte counts, the cursor and
\* exhausted stay natural numbers and EvictOldest tries at most three times.
THEOREM TypeCorrect == Spec => []TypeOK
BY BaseInvariant, PTL DEF Base

\* Spec => []CursorInRange: Reserve never indexes evictors out of range,
\* whatever Register and Unregister did before.
THEOREM CursorSafe == Spec => []CursorInRange
BY BaseInvariant, PTL DEF Base

\* Spec => []LockDiscipline: Budget.mu is held by the goroutine in an eviction
\* loop and by no other, and bytes wait for Release only in a purge or just
\* before that Release.
THEOREM LockOrder == Spec => []LockDiscipline
BY BaseInvariant, PTL DEF Base
-----------------------------------------------------------------------------
(* How the three sums move.                                                *)

\* The three sums are natural numbers and bound each of their terms.
LEMMA SumTypes ==
    ASSUME TypeOK
    PROVE  /\ Reserved \in [Threads -> Nat]
           /\ Bytes(size) \in Nat /\ Bytes(Reserved) \in Nat /\ Bytes(freed) \in Nat
           /\ \A t \in Threads : Reserved[t] <= Bytes(Reserved) /\ freed[t] <= Bytes(freed)
           /\ \A x \in Slots : size[x] <= Bytes(size)
<1>1. /\ size \in [Slots -> Nat] /\ freed \in [Threads -> Nat]
      /\ Reserved \in [Threads -> Nat]
      /\ IsFiniteSet(Slots) /\ IsFiniteSet(Threads)
  BY SlotsFinite, BudgetAssumption, Zenon DEF TypeOK, Reserved
<1>2. Bytes(size) \in Nat /\ Bytes(Reserved) \in Nat /\ Bytes(freed) \in Nat
  BY <1>1, BytesType, Zenon
<1>3. \A t \in Threads : Reserved[t] <= Bytes(Reserved)
  BY <1>1, <1>2, BytesUpdate, Zenon
<1>4. \A t \in Threads : freed[t] <= Bytes(freed)
  BY <1>1, <1>2, BytesUpdate, Zenon
<1>5. \A x \in Slots : size[x] <= Bytes(size)
  BY <1>1, <1>2, BytesUpdate, Zenon
<1> QED
  BY <1>1, <1>2, <1>3, <1>4, <1>5, Zenon

\* A step of thread t changes the reserved and the freed bytes by what it
\* does to its own.
LEMMA ThreadMoves ==
    ASSUME TypeOK, TypeOK', NEW t \in Threads,
           \A u \in Threads \ {t} : /\ pc'[u] = pc[u] /\ obj'[u] = obj[u]
                                    /\ freed'[u] = freed[u]
    PROVE  /\ Bytes(Reserved') = Bytes(Reserved) - Reserved[t] + Reserved'[t]
           /\ Bytes(freed') = Bytes(freed) - freed[t] + freed'[t]
<1>1. /\ freed \in [Threads -> Nat] /\ freed' \in [Threads -> Nat]
      /\ Reserved \in [Threads -> Nat] /\ Reserved' \in [Threads -> Nat]
      /\ IsFiniteSet(Threads)
  BY BudgetAssumption, Zenon DEF TypeOK, Reserved
<1>2. \A u \in Threads \ {t} : Reserved'[u] = Reserved[u]
  BY Zenon DEF Reserved
<1>3. Reserved' = [Reserved EXCEPT ![t] = Reserved'[t]]
  <2> DEFINE g == [Reserved EXCEPT ![t] = Reserved'[t]]
  <2>1. g \in [Threads -> Nat] /\ \A u \in Threads : g[u] = Reserved'[u]
    BY <1>1, <1>2, Zenon
  <2> HIDE DEF g
  <2>2. g = Reserved'
    BY <1>1, <2>1
  <2> QED
    BY <2>2, Zenon DEF g
<1>4. freed' = [freed EXCEPT ![t] = freed'[t]]
  <2> DEFINE g == [freed EXCEPT ![t] = freed'[t]]
  <2>1. g \in [Threads -> Nat] /\ \A u \in Threads : g[u] = freed'[u]
    BY <1>1, Zenon
  <2> HIDE DEF g
  <2>2. g = freed'
    BY <1>1, <2>1
  <2> QED
    BY <2>2, Zenon DEF g
<1>5. Reserved'[t] \in Nat /\ freed'[t] \in Nat
  BY <1>1, Zenon
<1>6. Bytes([Reserved EXCEPT ![t] = Reserved'[t]]) = Bytes(Reserved) - Reserved[t] + Reserved'[t]
  BY <1>1, <1>5, BytesUpdate, Zenon
<1>7. Bytes([freed EXCEPT ![t] = freed'[t]]) = Bytes(freed) - freed[t] + freed'[t]
  BY <1>1, <1>5, BytesUpdate, Zenon
<1> QED
  BY <1>3, <1>4, <1>6, <1>7, Zenon

\* Entries that leave take exactly their bytes with them.
LEMMA DropMoves ==
    ASSUME TypeOK, NEW D \in SUBSET Slots, Drop(D)
    PROVE  Bytes(size') = Bytes(size) - Bytes(Part(size, D))
<1>1. size \in [Slots -> Nat] /\ IsFiniteSet(Slots)
  BY SlotsFinite, Zenon DEF TypeOK
<1>2. size' = Part(size, Slots \ D)
  BY <1>1, Zenon DEF Drop, Part
<1>3. Bytes(size) = Bytes(Part(size, D)) + Bytes(Part(size, Slots \ D))
  BY <1>1, BytesSplit, Zenon
<1>4. Bytes(Part(size, D)) \in Nat /\ Bytes(Part(size, Slots \ D)) \in Nat
  BY <1>1, PartBytesType, Zenon
<1> QED
  BY <1>2, <1>3, <1>4

\* One entry, or none, that leaves.
LEMMA DropOneMoves ==
    ASSUME TypeOK, LockDiscipline, NEW x \in Slots,
           Drop({x}) \/ Drop({x} \cap cached)
    PROVE  Bytes(size') = Bytes(size) - size[x]
<1>1. size \in [Slots -> Nat] /\ IsFiniteSet(Slots)
  BY SlotsFinite, Zenon DEF TypeOK
<1>2. size' = [size EXCEPT ![x] = 0]
  BY <1>1 DEF Drop, LockDiscipline
<1>3. \A v \in Nat : Bytes([size EXCEPT ![x] = v]) = Bytes(size) - size[x] + v
  BY <1>1, BytesUpdate, Zenon
<1>4. Bytes(size) \in Nat /\ size[x] \in Nat
  BY <1>1, BytesType, Zenon
<1>5. Bytes([size EXCEPT ![x] = 0]) = Bytes(size) - size[x]
  <2> DEFINE g(v) == Bytes([size EXCEPT ![x] = v])
  <2>1. \A v \in Nat : g(v) = Bytes(size) - size[x] + v
    BY <1>3, Zenon
  <2> HIDE DEF g
  <2>2. g(0) = Bytes(size) - size[x]
    BY <2>1, <1>4
  <2> QED
    BY <2>2, Zenon DEF g
<1> QED
  BY <1>2, <1>5, Zenon

\* The accounting is kept by a step of thread t if used moves with the sum of
\* what the step does to the entries and to the bytes in the hands of t.
LEMMA Balance ==
    ASSUME TypeOK, TypeOK', EveryByteChargedOnce, NEW t \in Threads,
           \A u \in Threads \ {t} : /\ pc'[u] = pc[u] /\ obj'[u] = obj[u]
                                    /\ freed'[u] = freed[u],
           used' = used + (Bytes(size') - Bytes(size)) + (Reserved'[t] - Reserved[t])
                        + (freed'[t] - freed[t])
    PROVE  EveryByteChargedOnce'
<1>1. /\ Bytes(size) \in Nat /\ Bytes(Reserved) \in Nat /\ Bytes(freed) \in Nat
      /\ Reserved[t] \in Nat /\ freed[t] \in Nat
  BY SumTypes, Zenon DEF TypeOK
<1>2. /\ Bytes(size') \in Nat /\ Reserved'[t] \in Nat /\ freed'[t] \in Nat
  <2>1. size' \in [Slots -> Nat]
    BY Zenon DEF TypeOK
  <2> QED
    BY <2>1, SlotsFinite, BytesType, Zenon DEF TypeOK, Reserved
<1>3. used' = Bytes(size') + Bytes(Reserved') + Bytes(freed')
  BY <1>1, <1>2, ThreadMoves DEF EveryByteChargedOnce
<1> QED
  BY <1>3, Zenon DEF EveryByteChargedOnce

\* A step that moves no bytes.
LEMMA QuietStep ==
    ASSUME TypeOK, TypeOK', EveryByteChargedOnce, NEW t \in Threads,
           \A u \in Threads \ {t} : /\ pc'[u] = pc[u] /\ obj'[u] = obj[u]
                                    /\ freed'[u] = freed[u],
           pc[t] # "insert", pc'[t] # "insert", freed'[t] = freed[t],
           used' = used, size' = size
    PROVE  EveryByteChargedOnce'
<1>1. Reserved[t] = 0 /\ Reserved'[t] = 0
  BY Zenon DEF Reserved
<1>2. Bytes(size) \in Nat /\ freed[t] \in Nat /\ used \in Nat
  BY SumTypes, Zenon DEF TypeOK
<1>3. used' = used + (Bytes(size') - Bytes(size)) + (Reserved'[t] - Reserved[t])
                   + (freed'[t] - freed[t])
  BY <1>1, <1>2
<1> QED
  BY <1>3, Balance, Zenon
-----------------------------------------------------------------------------
\* Spec => []EveryByteChargedOnce: whatever admissions, replacements,
\* evictions, purges and Unregister drains overlap, Budget.used is the sum of
\* the cached, the reserved and the not yet released bytes, and no clamp at
\* zero ever takes effect.
THEOREM Accounting == Spec => []EveryByteChargedOnce
<1>1. Init => EveryByteChargedOnce
  <2> SUFFICES ASSUME Init PROVE EveryByteChargedOnce
    BY Zenon
  <2>1. /\ size \in [Slots -> Nat] /\ \A x \in Slots : size[x] = 0
        /\ freed \in [Threads -> Nat] /\ \A t \in Threads : freed[t] = 0
        /\ Reserved \in [Threads -> Nat] /\ \A t \in Threads : Reserved[t] = 0
        /\ used = 0
    BY Zenon DEF Init, Reserved
  <2>2. Bytes(size) = 0 /\ Bytes(Reserved) = 0 /\ Bytes(freed) = 0
    BY <2>1, BytesZero, Zenon
  <2> QED
    BY <2>1, <2>2 DEF EveryByteChargedOnce
<1>2. ASSUME Base, Base', EveryByteChargedOnce, [Next]_vars
      PROVE  EveryByteChargedOnce'
  <2>0. TypeOK /\ TypeOK' /\ LockDiscipline
    BY <1>2, Zenon DEF Base
  <2>1. CASE UNCHANGED <<used, size, pc, obj, freed>>
    BY <1>2, <2>1, Zenon DEF EveryByteChargedOnce, Reserved
  <2>2. ASSUME NEW t \in Threads, NEW m \in Managers, Close(t, m)
        PROVE  EveryByteChargedOnce'
    <3>1. /\ \A u \in Threads \ {t} : pc'[u] = pc[u] /\ obj'[u] = obj[u] /\ freed'[u] = freed[u]
          /\ pc[t] # "insert" /\ pc'[t] # "insert" /\ freed'[t] = freed[t]
          /\ used' = used /\ size' = size
      BY <2>0, <2>2, Zenon DEF TypeOK, LockDiscipline, Close, Goto, budgetVars, shardVars
    <3> QED
      BY <1>2, <2>0, <3>1, QuietStep, Zenon
  <2>3. ASSUME NEW t \in Threads, NEW m \in Managers, PurgeIf(t, m)
        PROVE  EveryByteChargedOnce'
    <3>1. /\ \A u \in Threads \ {t} : pc'[u] = pc[u] /\ obj'[u] = obj[u] /\ freed'[u] = freed[u]
          /\ pc[t] # "insert" /\ pc'[t] # "insert" /\ freed'[t] = freed[t]
          /\ used' = used /\ size' = size
      BY <2>0, <2>3, Zenon
         DEF TypeOK, LockDiscipline, PurgeIf, Calls, Goto, budgetVars, shardVars
    <3> QED
      BY <1>2, <2>0, <3>1, QuietStep, Zenon
  <2>4. ASSUME NEW t \in Threads, NEW m \in Managers, NEW k \in Keys, NEW n \in Sizes, Admit(t, m, k, n)
        PROVE  EveryByteChargedOnce'
    <3>1. /\ \A u \in Threads \ {t} : pc'[u] = pc[u] /\ obj'[u] = obj[u] /\ freed'[u] = freed[u]
          /\ pc[t] # "insert" /\ pc'[t] # "insert" /\ freed'[t] = freed[t]
          /\ used' = used /\ size' = size
      <4>1. /\ pc[t] = "idle" /\ UNCHANGED <<used, size, freed>>
            /\ obj' = [obj EXCEPT ![t] = n]
            /\ \E l \in {"invalidate", "reserve"} : pc' = [pc EXCEPT ![t] = l]
        BY <2>4, Zenon DEF Admit, Calls, Goto, budgetVars, shardVars
      <4> QED
        BY <2>0, <4>1, Zenon DEF TypeOK
    <3> QED
      BY <1>2, <2>0, <3>1, QuietStep, Zenon
  <2>5. ASSUME NEW t \in Threads, UnregisterFound(t)
        PROVE  EveryByteChargedOnce'
    <3>1. /\ \A u \in Threads \ {t} : pc'[u] = pc[u] /\ obj'[u] = obj[u] /\ freed'[u] = freed[u]
          /\ pc[t] # "insert" /\ pc'[t] # "insert" /\ freed'[t] = freed[t]
          /\ used' = used /\ size' = size
      BY <2>0, <2>5, Zenon
         DEF TypeOK, LockDiscipline, UnregisterFound, BeginEvictOldest, Goto, budgetVars, shardVars
    <3> QED
      BY <1>2, <2>0, <3>1, QuietStep, Zenon
  <2>6. ASSUME NEW t \in Threads, UnregisterUnknown(t)
        PROVE  EveryByteChargedOnce'
    <3>1. /\ \A u \in Threads \ {t} : pc'[u] = pc[u] /\ obj'[u] = obj[u] /\ freed'[u] = freed[u]
          /\ pc[t] # "insert" /\ pc'[t] # "insert" /\ freed'[t] = freed[t]
          /\ used' = used /\ size' = size
      <4>1. /\ Return(t) /\ pc[t] = "unregister" /\ UNCHANGED <<used, size>>
        BY <2>6, Zenon DEF UnregisterUnknown, budgetVars, shardVars
      <4>2. freed[t] = 0
        BY <2>0, <4>1, Zenon DEF LockDiscipline
      <4> QED
        BY <2>0, <4>1, <4>2, Zenon DEF TypeOK, Return
    <3> QED
      BY <1>2, <2>0, <3>1, QuietStep, Zenon
  <2>7. ASSUME NEW t \in Threads, ReserveRefuses(t)
        PROVE  EveryByteChargedOnce'
    <3>1. /\ \A u \in Threads \ {t} : pc'[u] = pc[u] /\ obj'[u] = obj[u] /\ freed'[u] = freed[u]
          /\ pc[t] # "insert" /\ pc'[t] # "insert" /\ freed'[t] = freed[t]
          /\ used' = used /\ size' = size
      BY <2>0, <2>7, Zenon
         DEF TypeOK, LockDiscipline, ReserveRefuses, Goto, budgetVars, shardVars
    <3> QED
      BY <1>2, <2>0, <3>1, QuietStep, Zenon
  <2>8. ASSUME NEW t \in Threads, ReserveEvicts(t)
        PROVE  EveryByteChargedOnce'
    <3>1. /\ \A u \in Threads \ {t} : pc'[u] = pc[u] /\ obj'[u] = obj[u] /\ freed'[u] = freed[u]
          /\ pc[t] # "insert" /\ pc'[t] # "insert" /\ freed'[t] = freed[t]
          /\ used' = used /\ size' = size
      BY <2>0, <2>8, Zenon
         DEF TypeOK, LockDiscipline, ReserveEvicts, Goto, budgetVars, shardVars
    <3> QED
      BY <1>2, <2>0, <3>1, QuietStep, Zenon
  <2>9. ASSUME NEW t \in Threads, ReclaimAsks(t)
        PROVE  EveryByteChargedOnce'
    <3>1. /\ \A u \in Threads \ {t} : pc'[u] = pc[u] /\ obj'[u] = obj[u] /\ freed'[u] = freed[u]
          /\ pc[t] # "insert" /\ pc'[t] # "insert" /\ freed'[t] = freed[t]
          /\ used' = used /\ size' = size
      BY <2>0, <2>9, Zenon
         DEF TypeOK, LockDiscipline, ReclaimAsks, BeginEvictOldest, Goto, budgetVars, shardVars
    <3> QED
      BY <1>2, <2>0, <3>1, QuietStep, Zenon
  <2>10. ASSUME NEW t \in Threads, ReclaimGivesUp(t)
        PROVE  EveryByteChargedOnce'
    <3>1. /\ \A u \in Threads \ {t} : pc'[u] = pc[u] /\ obj'[u] = obj[u] /\ freed'[u] = freed[u]
          /\ pc[t] # "insert" /\ pc'[t] # "insert" /\ freed'[t] = freed[t]
          /\ used' = used /\ size' = size
      BY <2>0, <2>10, Zenon
         DEF TypeOK, LockDiscipline, ReclaimGivesUp, Goto, budgetVars, shardVars
    <3> QED
      BY <1>2, <2>0, <3>1, QuietStep, Zenon
  <2>11. ASSUME NEW t \in Threads, ScanShard(t)
        PROVE  EveryByteChargedOnce'
    <3>1. /\ \A u \in Threads \ {t} : pc'[u] = pc[u] /\ obj'[u] = obj[u] /\ freed'[u] = freed[u]
          /\ pc[t] # "insert" /\ pc'[t] # "insert" /\ freed'[t] = freed[t]
          /\ used' = used /\ size' = size
      BY <2>0, <2>11, Zenon DEF TypeOK, LockDiscipline, ScanShard, Goto, budgetVars, shardVars
    <3> QED
      BY <1>2, <2>0, <3>1, QuietStep, Zenon
  <2>12. ASSUME NEW t \in Threads, EvictRetry(t)
        PROVE  EveryByteChargedOnce'
    <3>1. /\ \A u \in Threads \ {t} : pc'[u] = pc[u] /\ obj'[u] = obj[u] /\ freed'[u] = freed[u]
          /\ pc[t] # "insert" /\ pc'[t] # "insert" /\ freed'[t] = freed[t]
          /\ used' = used /\ size' = size
      BY <2>0, <2>12, Zenon DEF TypeOK, LockDiscipline, EvictRetry, Goto, budgetVars, shardVars
    <3> QED
      BY <1>2, <2>0, <3>1, QuietStep, Zenon
  <2>13. ASSUME NEW t \in Threads, EvictFailsReserve(t)
        PROVE  EveryByteChargedOnce'
    <3>1. /\ \A u \in Threads \ {t} : pc'[u] = pc[u] /\ obj'[u] = obj[u] /\ freed'[u] = freed[u]
          /\ pc[t] # "insert" /\ pc'[t] # "insert" /\ freed'[t] = freed[t]
          /\ used' = used /\ size' = size
      BY <2>0, <2>13, Zenon
         DEF TypeOK, LockDiscipline, EvictFailsReserve, Goto, budgetVars, shardVars
    <3> QED
      BY <1>2, <2>0, <3>1, QuietStep, Zenon
  <2>14. ASSUME NEW t \in Threads, EvictFailsUnregister(t)
        PROVE  EveryByteChargedOnce'
    <3>1. /\ \A u \in Threads \ {t} : pc'[u] = pc[u] /\ obj'[u] = obj[u] /\ freed'[u] = freed[u]
          /\ pc[t] # "insert" /\ pc'[t] # "insert" /\ freed'[t] = freed[t]
          /\ used' = used /\ size' = size
      <4>1. /\ Return(t) /\ pc[t] = "evict" /\ UNCHANGED <<used, size>>
        BY <2>14, Zenon DEF EvictFailsUnregister, shardVars
      <4>2. freed[t] = 0
        BY <2>0, <4>1, Zenon DEF LockDiscipline
      <4> QED
        BY <2>0, <4>1, <4>2, Zenon DEF TypeOK, Return
    <3> QED
      BY <1>2, <2>0, <3>1, QuietStep, Zenon
  <2>15. ASSUME NEW t \in Threads, ReserveFits(t)
        PROVE  EveryByteChargedOnce'
    <3>1. /\ \A u \in Threads \ {t} : pc'[u] = pc[u] /\ obj'[u] = obj[u] /\ freed'[u] = freed[u]
          /\ Reserved[t] = 0 /\ Reserved'[t] = obj[t] /\ freed'[t] = freed[t]
          /\ used' = used + obj[t] /\ size' = size
      BY <2>0, <2>15, Zenon DEF TypeOK, Reserved, ReserveFits, Goto, shardVars
    <3>2. used \in Nat /\ obj[t] \in Nat /\ freed[t] \in Nat /\ Bytes(size) \in Nat
      BY <2>0, SumTypes, Zenon DEF TypeOK
    <3>3. used' = used + (Bytes(size') - Bytes(size)) + (Reserved'[t] - Reserved[t])
                       + (freed'[t] - freed[t])
      BY <3>1, <3>2
    <3> QED
      BY <1>2, <2>0, <3>1, <3>3, Balance, Zenon
  <2>16. ASSUME NEW t \in Threads, Insert(t)
        PROVE  EveryByteChargedOnce'
    <3> DEFINE x == <<mgr[t], key[t]>>
    <3>1. x \in Slots /\ size[x] \in Nat /\ obj[t] \in Nat /\ freed[t] = 0
      <4>1. mgr[t] \in Managers /\ key[t] \in Keys /\ freed[t] = 0
        BY <2>0, <2>16, Zenon DEF LockDiscipline, Insert
      <4> QED
        BY <2>0, <4>1, Zenon DEF TypeOK, Slots
    <3>2. size' = [size EXCEPT ![x] = obj[t]] /\ used' = used /\ pc[t] = "insert"
      BY <2>16, Zenon DEF Insert, budgetVars
    <3>7. /\ \A u \in Threads \ {t} : pc'[u] = pc[u] /\ obj'[u] = obj[u] /\ freed'[u] = freed[u]
          /\ pc'[t] # "insert" /\ freed'[t] = size[x]
      <4>3. CASE size[x] > 0
        <5>1. /\ freed' = [freed EXCEPT ![t] = size[x]] /\ obj' = obj
              /\ pc' = [pc EXCEPT ![t] = "release"]
          BY <2>16, <4>3, Zenon DEF Insert, Goto
        <5> QED
          BY <2>0, <5>1, Zenon DEF TypeOK
      <4>4. CASE ~(size[x] > 0)
        <5>1. Return(t)
          BY <2>16, <4>4, Zenon DEF Insert
        <5> QED
          <6>1. size[x] = 0
            BY <3>1, <4>4
          <6> QED
            BY <2>0, <5>1, <6>1, Zenon DEF TypeOK, Return
      <4> QED
        BY <4>3, <4>4, Zenon
    <3>5. Bytes(size') = Bytes(size) - size[x] + obj[t] /\ Bytes(size) \in Nat
      <4>1. size \in [Slots -> Nat] /\ IsFiniteSet(Slots)
        BY <2>0, SlotsFinite, Zenon DEF TypeOK
      <4> HIDE DEF x
      <4>2. Bytes([size EXCEPT ![x] = obj[t]]) = Bytes(size) - size[x] + obj[t]
        BY <3>1, <4>1, BytesUpdate, Zenon
      <4> QED
        BY <2>0, <3>2, <4>2, SumTypes, Zenon
    <3>6. Reserved[t] = obj[t] /\ Reserved'[t] = 0
      BY <3>2, <3>7, Zenon DEF Reserved
    <3>8. used' = used + (Bytes(size') - Bytes(size)) + (Reserved'[t] - Reserved[t])
                       + (freed'[t] - freed[t])
      <4> HIDE DEF x
      <4>1. used \in Nat
        BY <2>0, Zenon DEF TypeOK
      <4> QED
        BY <3>1, <3>2, <3>5, <3>6, <3>7, <4>1
    <3> QED
      BY <1>2, <2>0, <3>7, <3>8, Balance, Zenon
  <2>17. ASSUME NEW t \in Threads, NEW m \in Managers, NEW k \in Keys, Invalidate(t, m, k)
        PROVE  EveryByteChargedOnce'
    <3> DEFINE x == <<m, k>>
    <3>1. x \in Slots /\ size[x] \in Nat /\ freed[t] = 0 /\ pc[t] # "insert"
      BY <2>0, <2>17, Zenon DEF TypeOK, LockDiscipline, Invalidate, Calls, Slots
    <3>2. Drop({x} \cap cached) /\ used' = used
      BY <2>17, Zenon DEF Invalidate, budgetVars
    <3>7. /\ \A u \in Threads \ {t} : pc'[u] = pc[u] /\ obj'[u] = obj[u] /\ freed'[u] = freed[u]
          /\ pc'[t] # "insert" /\ freed'[t] = size[x]
      <4>3. CASE size[x] > 0
        <5>1. /\ freed' = [freed EXCEPT ![t] = size[x]] /\ obj' = obj
              /\ pc' = [pc EXCEPT ![t] = "release"]
          BY <2>17, <4>3, Zenon DEF Invalidate, Goto
        <5> QED
          BY <2>0, <5>1, Zenon DEF TypeOK
      <4>4. CASE ~(size[x] > 0)
        <5>1. Return(t)
          BY <2>17, <4>4, Zenon DEF Invalidate
        <5> QED
          <6>1. size[x] = 0
            BY <3>1, <4>4
          <6> QED
            BY <2>0, <5>1, <6>1, Zenon DEF TypeOK, Return
      <4> QED
        BY <4>3, <4>4, Zenon
    <3>5. Bytes(size') = Bytes(size) - size[x] /\ Bytes(size) \in Nat
      BY <2>0, <3>1, <3>2, DropOneMoves, SumTypes, Zenon
    <3>6. Reserved[t] = 0 /\ Reserved'[t] = 0
      BY <3>1, <3>7, Zenon DEF Reserved
    <3>8. used' = used + (Bytes(size') - Bytes(size)) + (Reserved'[t] - Reserved[t])
                       + (freed'[t] - freed[t])
      <4> HIDE DEF x
      <4>1. used \in Nat
        BY <2>0, Zenon DEF TypeOK
      <4> QED
        BY <3>1, <3>2, <3>5, <3>6, <3>7, <4>1
    <3> QED
      BY <1>2, <2>0, <3>7, <3>8, Balance, Zenon
  <2>18. ASSUME NEW t \in Threads, EvictFrees(t)
        PROVE  EveryByteChargedOnce'
    <3> DEFINE x == <<target, best>>
               v == Minus(used, size[x])
    <3>1. /\ x \in Slots /\ size[x] \in Nat /\ used \in Nat /\ obj[t] \in Nat
          /\ Drop({x}) /\ pc[t] = "evict" /\ freed' = freed /\ obj' = obj
      BY <2>0, <2>18 DEF TypeOK, LockDiscipline, EvictFrees, Slots
    <3>2. size[x] <= used
      BY <1>2, <2>0, <3>1, SumTypes DEF EveryByteChargedOnce
    <3>3. v = used - size[x]
      BY <3>1, <3>2, MinusExact, Zenon
    <3>4. /\ \A u \in Threads \ {t} : pc'[u] = pc[u] /\ obj'[u] = obj[u] /\ freed'[u] = freed[u]
          /\ \/ pc'[t] = "scan" /\ used' = v
             \/ pc'[t] = "insert" /\ used' = v + obj[t]
             \/ pc'[t] = "reclaim" /\ used' = v
      BY <2>0, <2>18, <3>1, Zenon DEF TypeOK, EvictFrees, BeginEvictOldest, Goto
    <3>5. Bytes(size') = Bytes(size) - size[x] /\ Bytes(size) \in Nat
      BY <2>0, <3>1, DropOneMoves, SumTypes, Zenon
    <3>6. /\ Reserved[t] = 0
          /\ used' = v + Reserved'[t] /\ Reserved'[t] \in Nat
      BY <3>1, <3>3, <3>4 DEF Reserved
    <3>8. used' = used + (Bytes(size') - Bytes(size)) + (Reserved'[t] - Reserved[t])
                       + (freed'[t] - freed[t])
      <4>1. freed[t] \in Nat /\ freed'[t] = freed[t]
        BY <2>0, <3>1, Zenon DEF TypeOK
      <4> HIDE DEF x, v
      <4> QED
        BY <3>1, <3>3, <3>5, <3>6, <4>1
    <3> QED
      BY <1>2, <2>0, <3>4, <3>8, Balance, Zenon
  <2>19. ASSUME NEW t \in Threads, PurgeShard(t)
        PROVE  EveryByteChargedOnce'
    <3>1. PICK D \in SUBSET (cached \cap InShard(mgr[t], shard[t])) :
            LET f == freed[t] + Bytes(Part(size, D)) IN
            /\ Drop(D)
            /\ \/ /\ freed' = [freed EXCEPT ![t] = f]
                  /\ pc' = pc \/ Goto(t, "release")
                  /\ obj' = obj
               \/ f = 0 /\ Return(t)
      BY <2>19, Zenon DEF PurgeShard
    <3> DEFINE d == Bytes(Part(size, D))
    <3>2. D \in SUBSET Slots /\ d \in Nat /\ freed[t] \in Nat
      BY <2>0, <3>1, PartBytesType, Zenon DEF TypeOK
    <3>3. Bytes(size') = Bytes(size) - d /\ Bytes(size) \in Nat
      BY <2>0, <3>1, <3>2, DropMoves, SumTypes, Zenon
    <3>4. used' = used /\ pc[t] = "purge"
      BY <2>19, Zenon DEF PurgeShard, budgetVars
    <3> HIDE DEF d
    <3>5. /\ \A u \in Threads \ {t} : pc'[u] = pc[u] /\ obj'[u] = obj[u] /\ freed'[u] = freed[u]
          /\ pc'[t] # "insert" /\ freed'[t] = freed[t] + d
      <4>1. CASE /\ freed' = [freed EXCEPT ![t] = freed[t] + d]
                 /\ pc' = pc \/ Goto(t, "release")
                 /\ obj' = obj
        BY <2>0, <3>4, <4>1, Zenon DEF TypeOK, Goto
      <4>2. CASE freed[t] + d = 0 /\ Return(t)
        BY <2>0, <3>4, <4>2 DEF TypeOK, Return
      <4> QED
        BY <3>1, <4>1, <4>2, Zenon DEF d
    <3>6. Reserved[t] = 0 /\ Reserved'[t] = 0
      BY <3>4, <3>5, Zenon DEF Reserved
    <3>8. used' = used + (Bytes(size') - Bytes(size)) + (Reserved'[t] - Reserved[t])
                       + (freed'[t] - freed[t])
      <4>1. used \in Nat
        BY <2>0, Zenon DEF TypeOK
      <4> QED
        BY <3>2, <3>3, <3>4, <3>5, <3>6, <4>1
    <3> QED
      BY <1>2, <2>0, <3>5, <3>8, Balance, Zenon
  <2>20. ASSUME NEW t \in Threads, Release(t)
        PROVE  EveryByteChargedOnce'
    <3>1. /\ \A u \in Threads \ {t} : pc'[u] = pc[u] /\ obj'[u] = obj[u] /\ freed'[u] = freed[u]
          /\ pc[t] = "release" /\ pc'[t] = "idle" /\ freed'[t] = 0
          /\ used' = Minus(used, freed[t]) /\ size' = size
      BY <2>0, <2>20 DEF TypeOK, Release, Return, shardVars
    <3>2. used \in Nat /\ freed[t] \in Nat /\ Bytes(size) \in Nat /\ freed[t] <= used
      <4>1. /\ Bytes(size) \in Nat /\ Bytes(Reserved) \in Nat /\ Bytes(freed) \in Nat
            /\ freed[t] <= Bytes(freed)
        BY <2>0, SumTypes, Zenon
      <4>2. used = Bytes(size) + Bytes(Reserved) + Bytes(freed)
        BY <1>2, Zenon DEF EveryByteChargedOnce
      <4> QED
        BY <2>0, <4>1, <4>2 DEF TypeOK
    <3>3. used' = used - freed[t]
      BY <3>1, <3>2, MinusExact, Zenon
    <3>6. Reserved[t] = 0 /\ Reserved'[t] = 0
      BY <3>1, Zenon DEF Reserved
    <3>8. used' = used + (Bytes(size') - Bytes(size)) + (Reserved'[t] - Reserved[t])
                       + (freed'[t] - freed[t])
      BY <3>1, <3>2, <3>3, <3>6
    <3> QED
      BY <1>2, <2>0, <3>1, <3>8, Balance, Zenon
  <2> QED
    <3>1. CASE \E m \in Managers : Register(m) \/ \E k \in Keys : Touch(m, k)
      BY <2>1, <3>1, Zenon DEF Register, Touch, budgetVars, shardVars, threadVars
    <3>2. CASE UNCHANGED vars
      BY <2>1, <3>2, Zenon DEF vars, budgetVars, shardVars, threadVars
    <3> QED
      BY <1>2, <3>1, <3>2, <2>2, <2>3, <2>4, <2>5, <2>6, <2>7, <2>8, <2>9, <2>10, <2>11, <2>12, <2>13, <2>14, <2>15, <2>16, <2>17, <2>18, <2>19, <2>20 DEF Next, Acquire, Proceed
<1>3. Spec => []Base
  BY BaseInvariant, Zenon DEF Base
<1> QED
  BY <1>1, <1>2, <1>3, PTL DEF Spec
-----------------------------------------------------------------------------
\* A Minus is a natural number no larger than what it subtracts from.
LEMMA MinusShrinks ==
    ASSUME NEW a \in Nat, NEW n \in Nat
    PROVE  Minus(a, n) \in Nat /\ Minus(a, n) <= a
BY DEF Minus

\* A step charges new bytes only through the check of Reserve; any other step
\* leaves used alone or lowers it.
LEMMA UsedMoves ==
    ASSUME Base, Next
    PROVE  \/ used' \in Nat /\ used' <= used
           \/ \E n \in Nat, u \in Nat : Fits(u, n) /\ used' = u + n
<1>0. used \in Nat /\ TypeOK /\ LockDiscipline
  BY Zenon DEF Base, TypeOK
<1>1. CASE used' = used
  BY <1>0, <1>1
<1>2. ASSUME NEW t \in Threads, ReserveFits(t)
      PROVE  \E n \in Nat, u \in Nat : Fits(u, n) /\ used' = u + n
  BY <1>0, <1>2, Zenon DEF ReserveFits, TypeOK
<1>3. ASSUME NEW t \in Threads, EvictFrees(t)
      PROVE  \/ used' \in Nat /\ used' <= used
             \/ \E n \in Nat, u \in Nat : Fits(u, n) /\ used' = u + n
  <2> DEFINE v == Minus(used, size[<<target, best>>])
  <2>1. size[<<target, best>>] \in Nat /\ obj[t] \in Nat
    BY <1>0, <1>3, Zenon DEF EvictFrees, TypeOK, LockDiscipline, Slots
  <2>2. v \in Nat /\ v <= used
    BY <1>0, <2>1, MinusShrinks, Zenon
  <2>3. used' = v \/ (Fits(v, obj[t]) /\ used' = v + obj[t])
    BY <1>3, Zenon DEF EvictFrees
  <2> HIDE DEF v
  <2> QED
    BY <2>1, <2>2, <2>3, Zenon
<1>4. ASSUME NEW t \in Threads, Release(t)
      PROVE  used' \in Nat /\ used' <= used
  BY <1>0, <1>4, MinusShrinks, Zenon DEF Release, TypeOK
<1> QED
  <2>1. ASSUME NEW t \in Threads,
               \/ \E m \in Managers : Close(t, m) \/ PurgeIf(t, m)
               \/ \E m \in Managers, k \in Keys :
                    Invalidate(t, m, k) \/ \E n \in Sizes : Admit(t, m, k, n)
               \/ UnregisterFound(t) \/ UnregisterUnknown(t)
               \/ ReserveRefuses(t) \/ ReserveEvicts(t)
               \/ ReclaimAsks(t) \/ ReclaimGivesUp(t)
               \/ ScanShard(t) \/ EvictRetry(t)
               \/ EvictFailsReserve(t) \/ EvictFailsUnregister(t)
               \/ Insert(t) \/ PurgeShard(t)
        PROVE  used' = used
    BY <2>1, Zenon DEF Close, PurgeIf, Invalidate, Admit, UnregisterFound, UnregisterUnknown,
         ReserveRefuses, ReserveEvicts, ReclaimAsks, ReclaimGivesUp, ScanShard, EvictRetry,
         EvictFailsReserve, EvictFailsUnregister, Insert, PurgeShard, budgetVars
  <2>2. CASE \E m \in Managers : Register(m) \/ \E k \in Keys : Touch(m, k)
    BY <1>1, <2>2, Zenon DEF Register, Touch, budgetVars
  <2> QED
    BY <1>1, <1>2, <1>3, <1>4, <2>1, <2>2, Zenon DEF Next, Acquire, Proceed

\* Spec => []CeilingHonoured: with a positive limit, what all Managers hold
\* and what their admissions have reserved never exceeds it.  The inductive
\* step is about used, which bounds both sums by Accounting.
THEOREM Ceiling == Spec => []CeilingHonoured
<1> DEFINE Within == Limit > 0 => used <= Limit
<1>1. Init => Within
  BY BudgetAssumption DEF Init
<1>2. ASSUME Base, Within, [Next]_vars PROVE Within'
  <2>1. CASE UNCHANGED vars
    BY <1>2, <2>1, Zenon DEF vars, budgetVars
  <2>2. CASE Next
    <3>1. used \in Nat
      BY <1>2, Zenon DEF Base, TypeOK
    <3> QED
      BY <1>2, <2>2, <3>1, UsedMoves, BudgetAssumption DEF Fits
  <2> QED
    BY <1>2, <2>1, <2>2, Zenon
<1>3. ASSUME Base, Within, EveryByteChargedOnce PROVE CeilingHonoured
  <2>1. /\ Bytes(size) \in Nat /\ Bytes(Reserved) \in Nat /\ Bytes(freed) \in Nat
    BY <1>3, SumTypes, Zenon DEF Base
  <2>2. used = Bytes(size) + Bytes(Reserved) + Bytes(freed)
    BY <1>3, Zenon DEF EveryByteChargedOnce
  <2> QED
    BY <1>3, <2>1, <2>2, BudgetAssumption DEF CeilingHonoured
<1> QED
  BY <1>1, <1>2, <1>3, BaseInvariant, Accounting, PTL DEF Spec
-----------------------------------------------------------------------------
\* Spec => []EvictsOnlyUnderPressure: as long as Reserve is in its eviction
\* loop the object it makes room for is within the limit and does not fit.
THEOREM Pressure == Spec => []EvictsOnlyUnderPressure
<1>1. Init => EvictsOnlyUnderPressure
  BY BudgetAssumption, Zenon DEF Init, EvictsOnlyUnderPressure
<1>2. ASSUME Base, Base', EvictsOnlyUnderPressure, [Next]_vars
      PROVE  EvictsOnlyUnderPressure'
  <2>0. /\ TypeOK /\ LockDiscipline /\ Limit \in Int /\ NoThread \notin Threads
        /\ used \in Nat /\ obj \in [Threads -> Nat]
    BY <1>2, BudgetAssumption, Zenon DEF Base, TypeOK
  <2>1. CASE UNCHANGED <<used, mu, caller, obj>>
    BY <1>2, <2>1, Zenon DEF EvictsOnlyUnderPressure
  \* A thread that does not hold Budget.mu leaves the holder's loop alone.
  <2>2. ASSUME NEW t \in Threads, UNCHANGED <<used, mu, caller>>, mu # t,
               \A u \in Threads \ {t} : obj'[u] = obj[u]
        PROVE  EvictsOnlyUnderPressure'
    BY <1>2, <2>2, Zenon DEF EvictsOnlyUnderPressure
  <2>3. CASE mu' = NoThread
    BY <2>0, <2>3, Zenon DEF EvictsOnlyUnderPressure
  <2>4. ASSUME NEW t \in Threads, NEW m \in Managers, Close(t, m)
        PROVE  EvictsOnlyUnderPressure'
    <3>1. /\ UNCHANGED <<used, mu, caller>> /\ mu # t
          /\ \A u \in Threads \ {t} : obj'[u] = obj[u]
      BY <2>0, <2>4, Zenon DEF TypeOK, LockDiscipline, Close, budgetVars, evictVars
    <3> QED
      BY <2>2, <3>1, Zenon
  <2>5. ASSUME NEW t \in Threads, NEW m \in Managers, PurgeIf(t, m)
        PROVE  EvictsOnlyUnderPressure'
    <3>1. /\ UNCHANGED <<used, mu, caller>> /\ mu # t
          /\ \A u \in Threads \ {t} : obj'[u] = obj[u]
      BY <2>0, <2>5, Zenon DEF TypeOK, LockDiscipline, PurgeIf, Calls, budgetVars, evictVars
    <3> QED
      BY <2>2, <3>1, Zenon
  <2>6. ASSUME NEW t \in Threads, NEW m \in Managers, NEW k \in Keys, NEW n \in Sizes, Admit(t, m, k, n)
        PROVE  EvictsOnlyUnderPressure'
    <3>1. /\ UNCHANGED <<used, mu, caller>> /\ mu # t
          /\ \A u \in Threads \ {t} : obj'[u] = obj[u]
      BY <2>0, <2>6, Zenon DEF TypeOK, LockDiscipline, Admit, Calls, budgetVars, evictVars
    <3> QED
      BY <2>2, <3>1, Zenon
  <2>7. ASSUME NEW t \in Threads, NEW m \in Managers, NEW k \in Keys, Invalidate(t, m, k)
        PROVE  EvictsOnlyUnderPressure'
    <3>1. /\ UNCHANGED <<used, mu, caller>> /\ mu # t
          /\ \A u \in Threads \ {t} : obj'[u] = obj[u]
      BY <2>0, <2>7, Zenon
         DEF TypeOK, LockDiscipline, Invalidate, Calls, Return, budgetVars, evictVars
    <3> QED
      BY <2>2, <3>1, Zenon
  <2>8. ASSUME NEW t \in Threads, UnregisterUnknown(t)
        PROVE  EvictsOnlyUnderPressure'
    <3>1. /\ UNCHANGED <<used, mu, caller>> /\ mu # t
          /\ \A u \in Threads \ {t} : obj'[u] = obj[u]
      BY <2>0, <2>8, Zenon
         DEF TypeOK, LockDiscipline, UnregisterUnknown, Return, budgetVars, evictVars
    <3> QED
      BY <2>2, <3>1, Zenon
  <2>9. ASSUME NEW t \in Threads, Insert(t)
        PROVE  EvictsOnlyUnderPressure'
    <3>1. /\ UNCHANGED <<used, mu, caller>> /\ mu # t
          /\ \A u \in Threads \ {t} : obj'[u] = obj[u]
      BY <2>0, <2>9, Zenon DEF TypeOK, LockDiscipline, Insert, Return, budgetVars, evictVars
    <3> QED
      BY <2>2, <3>1, Zenon
  <2>10. ASSUME NEW t \in Threads, PurgeShard(t)
        PROVE  EvictsOnlyUnderPressure'
    <3>1. /\ UNCHANGED <<used, mu, caller>> /\ mu # t
          /\ \A u \in Threads \ {t} : obj'[u] = obj[u]
      BY <2>0, <2>10, Zenon
         DEF TypeOK, LockDiscipline, PurgeShard, Return, budgetVars, evictVars
    <3> QED
      BY <2>2, <3>1, Zenon
  <2>11. ASSUME NEW t \in Threads, ReserveRefuses(t)
        PROVE  EvictsOnlyUnderPressure'
    <3>1. /\ UNCHANGED <<used, mu, caller>> /\ mu # t
          /\ \A u \in Threads \ {t} : obj'[u] = obj[u]
      BY <2>0, <2>11, Zenon DEF TypeOK, LockDiscipline, ReserveRefuses, budgetVars, evictVars
    <3> QED
      BY <2>2, <3>1, Zenon
  <2>12. ASSUME NEW t \in Threads, ReserveFits(t)
        PROVE  EvictsOnlyUnderPressure'
    <3>1. mu' = NoThread
      BY <2>12, Zenon DEF ReserveFits
    <3> QED
      BY <2>3, <3>1, Zenon
  <2>13. ASSUME NEW t \in Threads, Release(t)
        PROVE  EvictsOnlyUnderPressure'
    <3>1. mu' = NoThread
      BY <2>13, Zenon DEF Release
    <3> QED
      BY <2>3, <3>1, Zenon
  <2>14. ASSUME NEW t \in Threads, ReclaimGivesUp(t)
        PROVE  EvictsOnlyUnderPressure'
    <3>1. mu' = NoThread
      BY <2>14, Zenon DEF ReclaimGivesUp, Unlock
    <3> QED
      BY <2>3, <3>1, Zenon
  <2>15. ASSUME NEW t \in Threads, EvictFailsUnregister(t)
        PROVE  EvictsOnlyUnderPressure'
    <3>1. mu' = NoThread
      BY <2>15, Zenon DEF EvictFailsUnregister, Unlock
    <3> QED
      BY <2>3, <3>1, Zenon
  <2>16. ASSUME NEW t \in Threads, ScanShard(t)
        PROVE  EvictsOnlyUnderPressure'
    <3>1. UNCHANGED <<used, mu, caller, obj>>
      BY <2>16, Zenon DEF ScanShard, budgetVars
    <3> QED
      BY <2>1, <3>1, Zenon
  <2>17. ASSUME NEW t \in Threads, EvictRetry(t)
        PROVE  EvictsOnlyUnderPressure'
    <3>1. UNCHANGED <<used, mu, caller, obj>>
      BY <2>17, Zenon DEF EvictRetry, budgetVars
    <3> QED
      BY <2>1, <3>1, Zenon
  <2>18. ASSUME NEW t \in Threads, EvictFailsReserve(t)
        PROVE  EvictsOnlyUnderPressure'
    <3>1. UNCHANGED <<used, mu, caller, obj>>
      BY <2>18, Zenon DEF EvictFailsReserve, budgetVars
    <3> QED
      BY <2>1, <3>1, Zenon
  <2>19. ASSUME NEW t \in Threads, ReclaimAsks(t)
        PROVE  EvictsOnlyUnderPressure'
    <3>1. pc[t] = "reclaim" /\ mu = t /\ caller = "Reserve"
      BY <2>0, <2>19, Zenon DEF LockDiscipline, ReclaimAsks
    <3>2. UNCHANGED <<used, mu, caller, obj>>
      BY <2>19, <3>1, Zenon DEF ReclaimAsks, BeginEvictOldest
    <3> QED
      BY <2>1, <3>2, Zenon
  <2>20. ASSUME NEW t \in Threads, UnregisterFound(t)
        PROVE  EvictsOnlyUnderPressure'
    <3>1. mu' = t /\ caller' = "Unregister"
      BY <2>20, Zenon DEF UnregisterFound, BeginEvictOldest
    <3> QED
      BY <3>1, Zenon DEF EvictsOnlyUnderPressure
  <2>21. ASSUME NEW t \in Threads, ReserveEvicts(t)
        PROVE  EvictsOnlyUnderPressure'
    <3>1. /\ mu' = t /\ used' = used /\ obj' = obj
          /\ obj[t] <= Limit /\ ~Fits(used, obj[t])
      BY <2>21, Zenon DEF ReserveEvicts
    <3>2. Limit < used + obj[t]
      BY <2>0, <3>1 DEF Fits
    <3> QED
      BY <3>1, <3>2, Zenon DEF EvictsOnlyUnderPressure
  <2>22. ASSUME NEW t \in Threads, EvictFrees(t)
        PROVE  EvictsOnlyUnderPressure'
    <3>1. mu = t /\ pc[t] = "evict" /\ obj' = obj
      BY <2>0, <2>22, Zenon DEF LockDiscipline, EvictFrees
    <3>2. \/ mu' = t /\ caller' = "Unregister"
          \/ mu' = NoThread
          \/ mu' = t /\ caller = "Reserve" /\ ~Fits(used', obj[t])
      BY <2>22, <3>1, Zenon DEF EvictFrees, BeginEvictOldest, Unlock
    <3>3. CASE mu' = t /\ caller = "Reserve" /\ ~Fits(used', obj[t])
      <4>1. obj[t] <= Limit
        BY <1>2, <3>1, <3>3, Zenon DEF EvictsOnlyUnderPressure
      <4>2. used' \in Nat
        BY <1>2, Zenon DEF Base, TypeOK
      <4>3. Limit < used' + obj[t]
        BY <2>0, <3>3, <4>2 DEF Fits
      <4> QED
        BY <3>1, <3>3, <4>1, <4>3, Zenon DEF EvictsOnlyUnderPressure
    <3>4. CASE mu' = t /\ caller' = "Unregister"
      BY <3>4, Zenon DEF EvictsOnlyUnderPressure
    <3> QED
      BY <2>3, <3>2, <3>3, <3>4, Zenon
  <2> QED
    <3>1. CASE \E m \in Managers : Register(m) \/ \E k \in Keys : Touch(m, k)
      BY <2>1, <3>1, Zenon DEF Register, Touch, budgetVars, threadVars, evictVars
    <3>2. CASE UNCHANGED vars
      BY <2>1, <3>2, Zenon DEF vars, budgetVars, threadVars, evictVars
    <3> QED
      BY <1>2, <3>1, <3>2, <2>4, <2>5, <2>6, <2>7, <2>8, <2>9, <2>10, <2>11, <2>12, <2>13, <2>14, <2>15, <2>16, <2>17, <2>18, <2>19, <2>20, <2>21, <2>22, Zenon
         DEF Next, Acquire, Proceed
<1> QED
  BY <1>1, <1>2, BaseInvariant, PTL DEF Spec
-----------------------------------------------------------------------------
(* The byte counts of the shards.                                          *)

\* Entries that leave take their bytes out of the counts of their shards.
LEMMA DropKeepsCounts ==
    ASSUME TypeOK, ShardBytesExact, NEW D \in SUBSET Slots, Drop(D)
    PROVE  ShardBytesExact'
<1> SUFFICES ASSUME NEW m \in Managers, NEW s \in Shards
             PROVE  bytes'[<<m, s>>] = Bytes(Part(size', InShard(m, s)))
  BY Zenon DEF ShardBytesExact, InShard
<1> DEFINE A == InShard(m, s)
           f == Part(size, A)
<1>1. size \in [Slots -> Nat] /\ IsFiniteSet(Slots)
  BY SlotsFinite, Zenon DEF TypeOK
<1>2. f \in [Slots -> Nat] /\ \A x \in Slots : f[x] = IF x \in A THEN size[x] ELSE 0
  BY <1>1, PartType
<1>3. Part(f, D) = Part(size, D \cap A) /\ Part(f, Slots \ D) = Part(size', A)
  BY <1>1, <1>2, Zenon DEF Part, Drop
<1> HIDE DEF A
<1>4. bytes[<<m, s>>] = Bytes(f)
  BY Zenon DEF ShardBytesExact, A
<1>5. bytes'[<<m, s>>] = Minus(bytes[<<m, s>>], Bytes(Part(size, D \cap A)))
  BY Zenon DEF Drop, A
<1> HIDE DEF f
<1>6. Bytes(f) = Bytes(Part(f, D)) + Bytes(Part(f, Slots \ D))
  BY <1>1, <1>2, BytesSplit, Zenon
<1>7. Bytes(Part(f, D)) \in Nat /\ Bytes(Part(f, Slots \ D)) \in Nat
  BY <1>2, PartBytesType, Zenon
<1>8. bytes'[<<m, s>>] = Bytes(Part(size', A))
  BY <1>3, <1>4, <1>5, <1>6, <1>7 DEF Minus
<1> QED
  BY <1>8, Zenon DEF A

\* An entry that is added or replaced moves the count of its shard alone.
LEMMA InsertKeepsCounts ==
    ASSUME TypeOK, LockDiscipline, ShardBytesExact, NEW t \in Threads, Insert(t)
    PROVE  ShardBytesExact'
<1> SUFFICES ASSUME NEW m \in Managers, NEW s \in Shards
             PROVE  bytes'[<<m, s>>] = Bytes(Part(size', InShard(m, s)))
  BY Zenon DEF ShardBytesExact, InShard
<1> DEFINE A == InShard(m, s)
           f == Part(size, A)
           x == <<mgr[t], key[t]>>
           n == obj[t]
<1>1. size \in [Slots -> Nat] /\ bytes \in [Managers \X Shards -> Nat] /\ IsFiniteSet(Slots)
  BY SlotsFinite, Zenon DEF TypeOK
<1>2. f \in [Slots -> Nat] /\ \A z \in Slots : f[z] = IF z \in A THEN size[z] ELSE 0
  BY <1>1, PartType
<1>3. x \in Slots /\ n \in Nat /\ size[x] \in Nat
  BY <1>1, Zenon DEF TypeOK, LockDiscipline, Insert, Slots
<1>4. x \in A <=> m = mgr[t] /\ s = ShardOf[key[t]]
  BY Zenon DEF InShard, LockDiscipline, Insert
<1>5. /\ size' = [size EXCEPT ![x] = n]
      /\ bytes' = [bytes EXCEPT ![<<mgr[t], ShardOf[key[t]]>>] = Minus(@ + n, size[x])]
  BY Zenon DEF Insert, ShardBytesAfter
<1>6. bytes[<<m, s>>] = Bytes(f)
  BY Zenon DEF ShardBytesExact
<1> HIDE DEF A, x, n
<1>7. CASE x \in A
  <2>1. Part(size', A) = [f EXCEPT ![x] = n] /\ f[x] = size[x]
    <3>1. size' \in [Slots -> Nat] /\ \A z \in Slots : size'[z] = IF z = x THEN n ELSE size[z]
      BY <1>1, <1>3, <1>5, Zenon
    <3>2. /\ Part(size', A) \in [Slots -> Nat]
          /\ \A z \in Slots : Part(size', A)[z] = IF z \in A THEN size'[z] ELSE 0
      BY <3>1, PartType
    <3> QED
      BY <1>2, <1>3, <1>7, <3>1, <3>2, Zenon
  <2>2. bytes'[<<m, s>>] = Minus(Bytes(f) + n, size[x])
    BY <1>1, <1>4, <1>5, <1>6, <1>7, Zenon
  <2> HIDE DEF f
  <2>3. Bytes([f EXCEPT ![x] = n]) = Bytes(f) - f[x] + n /\ Bytes(f) >= f[x]
    <3>1. f \in [Slots -> Nat]
      BY <1>2, Zenon
    <3> QED
      BY <1>1, <1>3, <3>1, BytesUpdate, Zenon
  <2>5. Bytes(f) \in Nat
    BY <1>1, <1>2, BytesType, Zenon
  <2>4. bytes'[<<m, s>>] = Bytes(Part(size', A))
    BY <1>3, <2>1, <2>2, <2>3, <2>5 DEF Minus
  <2> QED
    BY <2>4, Zenon DEF A
<1>8. CASE x \notin A
  <2>1. Part(size', A) = f
    BY <1>1, <1>3, <1>5, <1>8, Zenon DEF Part
  <2>2. bytes'[<<m, s>>] = bytes[<<m, s>>]
    BY <1>1, <1>4, <1>5, <1>8, Zenon
  <2>3. bytes'[<<m, s>>] = Bytes(Part(size', A))
    BY <1>6, <2>1, <2>2, Zenon
  <2> QED
    BY <2>3, Zenon DEF A
<1> QED
  BY <1>7, <1>8, Zenon

\* Spec => []ShardBytesExact: the bytes a shard reports are those of its
\* entries, so that GetCacheSize is right and the clamp of a shard never takes
\* effect.
THEOREM ShardCounts == Spec => []ShardBytesExact
<1>1. Init => ShardBytesExact
  <2> SUFFICES ASSUME Init PROVE ShardBytesExact
    BY Zenon
  <2> SUFFICES ASSUME NEW m \in Managers, NEW s \in Shards
               PROVE  bytes[<<m, s>>] = Bytes(Part(size, InShard(m, s)))
    BY Zenon DEF ShardBytesExact
  <2>1. size \in [Slots -> Nat] /\ (\A x \in Slots : size[x] = 0) /\ bytes[<<m, s>>] = 0
    BY Zenon DEF Init
  <2> DEFINE f == Part(size, InShard(m, s))
  <2>2. f \in [Slots -> Nat] /\ \A x \in Slots : f[x] = 0
    BY <2>1, PartType
  <2> HIDE DEF f
  <2>3. Bytes(f) = 0
    BY <2>2, BytesZero, Zenon
  <2> QED
    BY <2>1, <2>3, Zenon DEF f
<1>2. ASSUME Base, ShardBytesExact, [Next]_vars PROVE ShardBytesExact'
  <2>0. TypeOK /\ LockDiscipline
    BY <1>2, Zenon DEF Base
  <2>1. CASE UNCHANGED <<size, bytes>>
    BY <1>2, <2>1, Zenon DEF ShardBytesExact, InShard
  <2>2. ASSUME NEW t \in Threads, EvictFrees(t) PROVE ShardBytesExact'
    <3>1. {<<target, best>>} \in SUBSET Slots /\ Drop({<<target, best>>})
      BY <2>0, <2>2 DEF EvictFrees, LockDiscipline, Slots
    <3> QED
      BY <1>2, <2>0, <3>1, DropKeepsCounts, Zenon
  <2>3. ASSUME NEW t \in Threads, NEW m \in Managers, NEW k \in Keys, Invalidate(t, m, k)
        PROVE  ShardBytesExact'
    <3>1. {<<m, k>>} \cap cached \in SUBSET Slots
      BY DEF Slots
    <3>2. Drop({<<m, k>>} \cap cached)
      BY <2>3, Zenon DEF Invalidate
    <3> QED
      BY <1>2, <2>0, <3>1, <3>2, DropKeepsCounts, Zenon
  <2>4. ASSUME NEW t \in Threads, PurgeShard(t) PROVE ShardBytesExact'
    <3>1. PICK D \in SUBSET (cached \cap InShard(mgr[t], shard[t])) : Drop(D)
      BY <2>4, Zenon DEF PurgeShard
    <3>2. D \in SUBSET Slots
      BY <2>0, Zenon DEF TypeOK
    <3> QED
      BY <1>2, <2>0, <3>1, <3>2, DropKeepsCounts, Zenon
  <2>5. ASSUME NEW t \in Threads, Insert(t) PROVE ShardBytesExact'
    BY <1>2, <2>0, <2>5, InsertKeepsCounts, Zenon
  <2>6. ASSUME NEW t \in Threads, Acquire(t) PROVE UNCHANGED <<size, bytes>>
    BY <2>6, Zenon DEF Acquire, UnregisterFound, UnregisterUnknown, ReserveFits, ReserveRefuses,
       ReserveEvicts, Release, shardVars
  <2>7. ASSUME NEW t \in Threads,
               \/ ReclaimAsks(t) \/ ReclaimGivesUp(t) \/ ScanShard(t) \/ EvictRetry(t)
               \/ EvictFailsReserve(t) \/ EvictFailsUnregister(t)
        PROVE  UNCHANGED <<size, bytes>>
    BY <2>7, Zenon DEF ReclaimAsks, ReclaimGivesUp, ScanShard, EvictRetry, EvictFailsReserve,
       EvictFailsUnregister, shardVars
  <2>8. ASSUME NEW m \in Managers, NEW k \in Keys, Touch(m, k) PROVE UNCHANGED <<size, bytes>>
    BY <2>8, Zenon DEF Touch
  <2>9. ASSUME NEW m \in Managers, Register(m) PROVE UNCHANGED <<size, bytes>>
    BY <2>9, Zenon DEF Register, shardVars
  <2>10. ASSUME NEW t \in Threads, NEW m \in Managers, Close(t, m) \/ PurgeIf(t, m)
         PROVE  UNCHANGED <<size, bytes>>
    BY <2>10, Zenon DEF Close, PurgeIf, shardVars
  <2>11. ASSUME NEW t \in Threads, NEW m \in Managers, NEW k \in Keys, NEW n \in Sizes,
                Admit(t, m, k, n)
         PROVE  UNCHANGED <<size, bytes>>
    BY <2>11, Zenon DEF Admit, shardVars
  <2>12. CASE UNCHANGED vars
    BY <2>1, <2>12, Zenon DEF vars, shardVars
  <2> QED
    BY <1>2, <2>1, <2>2, <2>3, <2>4, <2>5, <2>6, <2>7, <2>8, <2>9, <2>10,
       <2>11, <2>12, Zenon DEF Next, Proceed
<1> QED
  BY <1>1, <1>2, BaseInvariant, PTL DEF Spec
-----------------------------------------------------------------------------
(* Who is registered.                                                      *)

\* Thread t is in Budget.Unregister.
Leaving(t) == pc[t] = "unregister" \/ (mu = t /\ caller = "Unregister")

\* The list of Managers has no duplicates.  It holds the open ones, and of the
\* closed ones those that some thread is about to unregister.  An operation on
\* a Manager that was closed at rest is such an unregistration.
Registered ==
    /\ Distinct(evictors)
    /\ open \subseteq Elements(evictors)
    /\ \A m \in Elements(evictors) :
         m \in open \/ \E t \in Threads : mgr[t] = m /\ Leaving(t)
    /\ \A t \in Threads :
         /\ Leaving(t) => mgr[t] \notin open
         /\ mgr[t] \in quiet => mgr[t] \in open \/ Leaving(t)
         /\ mu = t /\ caller = "Unregister" => target = mgr[t] /\ target \in Elements(evictors)

\* The list without one of its Managers.
LEMMA WithoutIndexFacts ==
    ASSUME NEW s \in Seq(Managers), NEW i \in 1..Len(s), Distinct(s)
    PROVE  /\ Distinct(WithoutIndex(s, i))
           /\ Elements(WithoutIndex(s, i)) = Elements(s) \ {s[i]}
<1>w. PICK w : w = WithoutIndex(s, i)
  BY Zenon
<1>1. /\ w \in Seq(Managers) /\ Len(w) = Len(s) - 1 /\ Len(s) \in Nat
  BY <1>w, WithoutType
<1>2. \A j \in 1..Len(w) : w[j] = IF j < i THEN s[j] ELSE s[j + 1]
  BY <1>w, <1>1, Zenon DEF WithoutIndex
<1>3. Distinct(w)
  BY <1>1, <1>2 DEF Distinct
<1>4. \A j \in 1..Len(w) : w[j] \in Elements(s) \ {s[i]}
  BY <1>1, <1>2 DEF Distinct, Elements
<1>5. \A j \in 1..Len(s) : j # i => s[j] \in Elements(w)
  <2> SUFFICES ASSUME NEW j \in 1..Len(s), j # i PROVE s[j] \in Elements(w)
    BY Zenon
  <2>1. CASE j < i
    <3>1. j \in 1..Len(w) /\ w[j] = s[j]
      BY <1>1, <1>2, <2>1
    <3> QED
      BY <3>1, Zenon DEF Elements
  <2>2. CASE ~(j < i)
    <3>1. j - 1 \in 1..Len(w) /\ w[j - 1] = s[j]
      BY <1>1, <1>2, <2>2
    <3> QED
      BY <3>1, Zenon DEF Elements
  <2> QED
    BY <2>1, <2>2, Zenon
<1>6. Elements(w) = Elements(s) \ {s[i]}
  BY <1>4, <1>5, Zenon DEF Elements
<1> QED
  BY <1>w, <1>3, <1>6, Zenon

\* A step that moves nobody in or out of Unregister, and no drain.
LEMMA SameDrain ==
    ASSUME Registered, UNCHANGED <<evictors, open, quiet, mgr, mu, caller, target>>,
           \A u \in Threads : pc'[u] = "unregister" <=> pc[u] = "unregister"
    PROVE  Registered'
<1>1. \A u \in Threads : Leaving(u)' <=> Leaving(u)
  BY Zenon DEF Leaving
<1>2. Elements(evictors)' = Elements(evictors) /\ Distinct(evictors)' = Distinct(evictors)
  BY Zenon DEF Elements, Distinct
<1> QED
  BY <1>1, <1>2, Zenon DEF Registered

\* A step of a thread that is not in Unregister, on a Manager that is open.
LEMMA OperationStep ==
    ASSUME TypeOK, Registered, UNCHANGED <<evictors, open, quiet>>, NEW t \in Threads,
           pc[t] # "unregister", pc'[t] # "unregister",
           \A u \in Threads \ {t} : pc'[u] = pc[u] /\ mgr'[u] = mgr[u],
           mgr'[t] \in open \cup {mgr[t], NoManager},
           \/ (mu # t \/ caller # "Unregister") /\ UNCHANGED <<mu, caller, target>>
           \/ /\ mu \in {t, NoThread} /\ mu' \in {t, NoThread}
              /\ caller # "Unregister" /\ caller' # "Unregister"
    PROVE  Registered'
<1>1. ~Leaving(t) /\ ~Leaving(t)'
  BY Zenon DEF Leaving
<1>2. \A u \in Threads \ {t} : Leaving(u)' <=> Leaving(u)
  BY BudgetAssumption, Zenon DEF Leaving
<1>3. \A u \in Threads \ {t} : mu' = u /\ caller' = "Unregister" =>
                               mu = u /\ caller = "Unregister" /\ target' = target
  BY BudgetAssumption, Zenon
<1>4. Elements(evictors)' = Elements(evictors) /\ Distinct(evictors)' = Distinct(evictors)
  BY Zenon DEF Elements, Distinct
<1>5. NoManager \notin quiet
  BY BudgetAssumption, Zenon DEF TypeOK
<1>6. mgr'[t] \in quiet => mgr'[t] \in open
  BY <1>1, <1>5, Zenon DEF Registered
<1>7. ~(mu' = t /\ caller' = "Unregister")
  BY <1>1, Zenon DEF Leaving
<1> QED
  BY <1>1, <1>2, <1>3, <1>4, <1>6, <1>7, Zenon DEF Registered

\* The steps of an operation that reach the registration by OperationStep only.
LEMMA OperationsKeepRegistered ==
    ASSUME Base, Registered, NEW t \in Threads,
           \/ \E m \in Managers, k \in Keys, n \in Sizes : Admit(t, m, k, n)
           \/ \E m \in Managers : PurgeIf(t, m)
           \/ ReserveFits(t) \/ ReserveRefuses(t) \/ ReserveEvicts(t)
           \/ ReclaimAsks(t) \/ ReclaimGivesUp(t) \/ Insert(t) \/ PurgeShard(t) \/ Release(t)
           \/ EvictFailsReserve(t)
           \/ \E m \in Managers, k \in Keys : Invalidate(t, m, k)
    PROVE  Registered'
<1>0. TypeOK /\ LockDiscipline
  BY Zenon DEF Base
<1>1. CASE \/ \E m \in Managers, k \in Keys, n \in Sizes : Admit(t, m, k, n)
           \/ \E m \in Managers : PurgeIf(t, m)
  <2>1. /\ UNCHANGED <<evictors, open, quiet, mu, caller, target>>
        /\ pc[t] = "idle" /\ pc'[t] # "unregister" /\ mgr'[t] \in open
        /\ \A u \in Threads \ {t} : pc'[u] = pc[u] /\ mgr'[u] = mgr[u]
    BY <1>0, <1>1, Zenon DEF Admit, PurgeIf, Calls, Goto, TypeOK, budgetVars, nsVars, evictVars
  <2>2. mu # t
    BY <1>0, <2>1, Zenon DEF LockDiscipline
  <2> QED
    BY <1>0, <2>1, <2>2, OperationStep, Zenon
<1>2. CASE ReserveFits(t) \/ ReserveRefuses(t)
  <2>1. /\ UNCHANGED <<evictors, open, quiet, mu, caller, target>>
        /\ pc[t] = "reserve" /\ pc'[t] # "unregister" /\ mgr'[t] = mgr[t]
        /\ \A u \in Threads \ {t} : pc'[u] = pc[u] /\ mgr'[u] = mgr[u]
    BY <1>0, <1>2, Zenon DEF ReserveFits, ReserveRefuses, Goto, TypeOK, budgetVars, nsVars, evictVars
  <2>2. mu # t
    BY <1>0, <2>1, Zenon DEF LockDiscipline
  <2> QED
    BY <1>0, <2>1, <2>2, OperationStep, Zenon
<1>3. CASE ReserveEvicts(t)
  <2>1. /\ UNCHANGED <<evictors, open, quiet, caller>> /\ mu = NoThread /\ mu' = t
        /\ pc[t] = "reserve" /\ pc'[t] # "unregister" /\ mgr'[t] = mgr[t]
        /\ \A u \in Threads \ {t} : pc'[u] = pc[u] /\ mgr'[u] = mgr[u]
    BY <1>0, <1>3, Zenon DEF ReserveEvicts, Goto, TypeOK, nsVars, evictVars
  <2>2. caller # "Unregister"
    BY <1>0, <2>1, Zenon DEF LockDiscipline
  <2> QED
    BY <1>0, <2>1, <2>2, OperationStep, Zenon
<1>4. CASE ReclaimAsks(t) \/ ReclaimGivesUp(t) \/ EvictFailsReserve(t)
  <2>1. /\ UNCHANGED <<evictors, open, quiet>> /\ mu' \in {mu, NoThread}
        /\ pc[t] \in {"reclaim", "evict"} /\ pc'[t] # "unregister" /\ mgr'[t] = mgr[t]
        /\ caller' \in {"Reserve", caller}
        /\ pc[t] = "reclaim" \/ caller = "Reserve"
        /\ \A u \in Threads \ {t} : pc'[u] = pc[u] /\ mgr'[u] = mgr[u]
    BY <1>0, <1>4, Zenon DEF ReclaimAsks, ReclaimGivesUp, EvictFailsReserve, BeginEvictOldest,
       Unlock, Goto, TypeOK, budgetVars, nsVars
  <2>2. mu = t /\ caller = "Reserve" /\ caller' = "Reserve"
    BY <1>0, <2>1, Zenon DEF LockDiscipline
  <2> QED
    BY <1>0, <2>1, <2>2, OperationStep, Zenon
<1>5. CASE Insert(t) \/ PurgeShard(t) \/ Release(t)
  <2>1. /\ UNCHANGED <<evictors, open, quiet, mu, caller, target>>
        /\ pc[t] \in {"insert", "purge", "release"} /\ pc'[t] # "unregister"
        /\ mgr'[t] \in {mgr[t], NoManager}
        /\ \A u \in Threads \ {t} : pc'[u] = pc[u] /\ mgr'[u] = mgr[u]
    BY <1>0, <1>5, Zenon DEF Insert, PurgeShard, Release, Return, Goto, TypeOK, budgetVars,
       nsVars, evictVars
  <2>2. mu # t
    BY <1>0, <2>1, Zenon DEF LockDiscipline
  <2> QED
    BY <1>0, <2>1, <2>2, OperationStep, Zenon
<1>6. CASE \E m \in Managers, k \in Keys : Invalidate(t, m, k)
  <2>1. /\ UNCHANGED <<evictors, open, quiet, mu, caller, target>>
        /\ pc[t] \in {"idle", "invalidate"} /\ pc'[t] # "unregister"
        /\ mgr'[t] \in open \cup {mgr[t], NoManager}
        /\ \A u \in Threads \ {t} : pc'[u] = pc[u] /\ mgr'[u] = mgr[u]
    <3>1. PICK m \in Managers, k \in Keys : Invalidate(t, m, k)
      BY <1>6, Zenon
    <3>2. /\ UNCHANGED <<evictors, open, quiet, mu, caller, target>>
          /\ \/ pc[t] = "idle" /\ m \in open
             \/ pc[t] = "invalidate" /\ mgr[t] = m
      BY <3>1, Zenon DEF Invalidate, Calls, budgetVars, nsVars
    <3>3. \/ pc' = [pc EXCEPT ![t] = "release"] /\ mgr' = [mgr EXCEPT ![t] = m]
          \/ pc' = [pc EXCEPT ![t] = "idle"] /\ mgr' = [mgr EXCEPT ![t] = NoManager]
      BY <3>1, Zenon DEF Invalidate, Return, Goto
    <3>4. /\ pc'[t] # "unregister" /\ mgr'[t] \in {m, NoManager}
          /\ \A u \in Threads \ {t} : pc'[u] = pc[u] /\ mgr'[u] = mgr[u]
      BY <1>0, <3>3, Zenon DEF TypeOK
    <3> QED
      BY <3>2, <3>4, Zenon
  <2>2. mu # t
    BY <1>0, <2>1, Zenon DEF LockDiscipline
  <2> QED
    BY <1>0, <2>1, <2>2, OperationStep, Zenon
<1> QED
  BY <1>1, <1>2, <1>3, <1>4, <1>5, <1>6, Zenon

\* The steps of EvictOldest that stay in the loop, for Reserve or Unregister.
LEMMA EvictionKeepsRegistered ==
    ASSUME Base, Registered, NEW t \in Threads,
           ScanShard(t) \/ EvictRetry(t) \/ EvictFrees(t)
    PROVE  Registered'
<1>0. TypeOK /\ LockDiscipline
  BY Zenon DEF Base
<1>1. CASE ScanShard(t) \/ EvictRetry(t)
  <2>1. /\ UNCHANGED <<evictors, open, quiet, mgr, mu, caller, target>>
        /\ \A u \in Threads : pc'[u] = "unregister" <=> pc[u] = "unregister"
    BY <1>0, <1>1, Zenon DEF ScanShard, EvictRetry, Goto, TypeOK, budgetVars, nsVars
  <2> QED
    BY <2>1, SameDrain, Zenon
<1>2. CASE EvictFrees(t)
  <2>0. /\ UNCHANGED <<evictors, open, quiet, mgr>> /\ pc[t] = "evict" /\ mu = t
        /\ \A u \in Threads \ {t} : pc'[u] = pc[u]
        /\ pc'[t] # "unregister"
    BY <1>0, <1>2, Zenon DEF EvictFrees, BeginEvictOldest, Goto, TypeOK, LockDiscipline, nsVars
  <2>1. CASE caller = "Unregister"
    <3>1. UNCHANGED <<mu, caller, target>>
      BY <1>2, <2>1, Zenon DEF EvictFrees, BeginEvictOldest
    <3> QED
      BY <2>0, <3>1, SameDrain, Zenon
  <2>2. CASE caller # "Unregister"
    <3>1. caller' = "Reserve" /\ mu' \in {t, NoThread}
      BY <1>0, <1>2, <2>0, <2>2, Zenon DEF EvictFrees, Unlock, TypeOK
    <3> QED
      BY <1>0, <2>0, <2>2, <3>1, OperationStep, Zenon
  <2> QED
    BY <2>1, <2>2, Zenon
<1> QED
  BY <1>1, <1>2, Zenon

\* A Manager that registers was not in the list: a closed one leaves it before
\* its last operation returns.
LEMMA RegisterKeepsRegistered ==
    ASSUME Base, Registered, NEW m \in Managers, Register(m)
    PROVE  Registered'
<1>0. TypeOK /\ LockDiscipline
  BY Zenon DEF Base
<1>1. /\ m \notin open /\ (\A t \in Threads : mgr[t] # m) /\ mu = NoThread
      /\ evictors' = Append(evictors, m) /\ open' = open \cup {m} /\ quiet' = quiet \cup {m}
      /\ UNCHANGED <<pc, mgr, mu, caller, target>>
  BY Zenon DEF Register, Busy, threadVars, evictVars
<1>2. m \notin Elements(evictors)
  BY <1>1, Zenon DEF Registered
<1>3. Distinct(evictors') /\ Elements(evictors') = Elements(evictors) \cup {m}
  <2>1. evictors \in Seq(Managers) /\ Distinct(evictors)
    BY <1>0, Zenon DEF TypeOK, Registered
  <2>2. /\ Append(evictors, m) \in Seq(Managers)
        /\ Elements(Append(evictors, m)) = Elements(evictors) \cup {m}
        /\ Distinct(evictors) /\ m \notin Elements(evictors) => Distinct(Append(evictors, m))
    BY <2>1, AppendFacts, Zenon
  <2> QED
    BY <1>1, <1>2, <2>1, <2>2, Zenon
<1>4. \A u \in Threads : Leaving(u)' <=> Leaving(u)
  BY <1>1, Zenon DEF Leaving
<1>5. \A u \in Threads : mu' # u
  BY <1>1, BudgetAssumption, Zenon
<1>6. Elements(evictors)' = Elements(evictors) \cup {m} /\ Distinct(evictors)'
  BY <1>3, Zenon DEF Elements, Distinct
<1> QED
  BY <1>1, <1>4, <1>5, <1>6, Zenon DEF Registered

\* A Manager that is closed has a thread that will unregister it, and is quiet
\* only if no other thread works on it.
LEMMA CloseKeepsRegistered ==
    ASSUME Base, Registered, NEW t \in Threads, NEW m \in Managers, Close(t, m)
    PROVE  Registered'
<1>0. TypeOK /\ LockDiscipline
  BY Zenon DEF Base
<1>1. /\ pc[t] = "idle" /\ open' = open \ {m}
      /\ quiet' = IF m \in open /\ Busy(m) THEN quiet \ {m} ELSE quiet
      /\ pc'[t] = "unregister" /\ mgr'[t] = m
      /\ \A u \in Threads \ {t} : pc'[u] = pc[u] /\ mgr'[u] = mgr[u]
      /\ UNCHANGED <<evictors, mu, caller, target>>
  BY <1>0, Zenon DEF Close, Goto, TypeOK, budgetVars, evictVars
<1>2. ~Leaving(t) /\ mu # t /\ Leaving(t)'
  BY <1>0, <1>1, Zenon DEF Leaving, LockDiscipline
<1>3. \A u \in Threads \ {t} : Leaving(u)' <=> Leaving(u)
  BY <1>1, Zenon DEF Leaving
<1>4. Elements(evictors)' = Elements(evictors) /\ Distinct(evictors)' = Distinct(evictors)
  BY <1>1, Zenon DEF Elements, Distinct
<1>5. \A u \in Threads \ {t} : mgr'[u] \in quiet' => mgr'[u] \in open' \/ Leaving(u)'
  <2> SUFFICES ASSUME NEW u \in Threads \ {t}, mgr[u] \in quiet'
               PROVE  mgr[u] \in open' \/ Leaving(u)
    BY <1>1, <1>3, Zenon
  <2>1. mgr[u] \in open \/ Leaving(u)
    BY <1>1, Zenon DEF Registered
  <2>2. CASE mgr[u] = m /\ mgr[u] \in open
    BY <1>1, <2>2, Zenon DEF Busy
  <2> QED
    BY <1>1, <2>1, <2>2, Zenon
<1>6. \A x \in Elements(evictors)' :
        x \in open' \/ \E u \in Threads : mgr'[u] = x /\ Leaving(u)'
  <2> SUFFICES ASSUME NEW x \in Elements(evictors), x \notin open'
               PROVE  \E u \in Threads : mgr'[u] = x /\ Leaving(u)'
    BY <1>4, Zenon
  <2>1. CASE x = m
    BY <1>1, <1>2, <2>1, Zenon
  <2>2. CASE x # m
    BY <1>1, <1>2, <1>3, <2>2, Zenon DEF Registered
  <2> QED
    BY <2>1, <2>2, Zenon
<1> QED
  BY <1>1, <1>2, <1>3, <1>4, <1>5, <1>6, Zenon DEF Registered

\* Unregister that starts to drain, or finds the Manager gone.
LEMMA UnregisterKeepsRegistered ==
    ASSUME Base, Registered, NEW t \in Threads, UnregisterFound(t) \/ UnregisterUnknown(t)
    PROVE  Registered'
<1>0. TypeOK /\ LockDiscipline /\ DOMAIN evictors = 1..Len(evictors)
  BY DEF Base, TypeOK
<1>1. CASE UnregisterFound(t)
  <2>1. /\ UNCHANGED <<evictors, open, quiet, mgr>> /\ pc[t] = "unregister"
        /\ mu = NoThread /\ mu' = t /\ caller' = "Unregister" /\ target' = mgr[t]
        /\ \A u \in Threads \ {t} : pc'[u] = pc[u]
    BY <1>0, <1>1, Zenon DEF UnregisterFound, BeginEvictOldest, Goto, TypeOK, nsVars
  <2>2. mgr[t] \in Elements(evictors)
    BY <1>0, <1>1, Zenon DEF UnregisterFound, Elements
  <2>3. \A u \in Threads : Leaving(u)' <=> Leaving(u)
    BY <2>1, BudgetAssumption, Zenon DEF Leaving
  <2>4. Elements(evictors)' = Elements(evictors) /\ Distinct(evictors)' = Distinct(evictors)
    BY <2>1, Zenon DEF Elements, Distinct
  <2> QED
    BY <2>1, <2>2, <2>3, <2>4, Zenon DEF Registered
<1>2. CASE UnregisterUnknown(t)
  <2>1. /\ UNCHANGED <<evictors, open, quiet, mu, caller, target>> /\ pc[t] = "unregister"
        /\ mu = NoThread /\ pc'[t] = "idle" /\ mgr'[t] = NoManager
        /\ \A u \in Threads \ {t} : pc'[u] = pc[u] /\ mgr'[u] = mgr[u]
    BY <1>0, <1>2, Zenon DEF UnregisterUnknown, Return, TypeOK, budgetVars, nsVars, evictVars
  <2>2. mgr[t] \notin Elements(evictors)
    BY <1>0, <1>2, Zenon DEF UnregisterUnknown, Elements
  <2>3. /\ \A u \in Threads \ {t} : Leaving(u)' <=> Leaving(u)
        /\ \A u \in Threads : mu' # u
        /\ ~Leaving(t)'
    BY <2>1, BudgetAssumption, Zenon DEF Leaving
  <2>4. Elements(evictors)' = Elements(evictors) /\ Distinct(evictors)' = Distinct(evictors)
    BY <2>1, Zenon DEF Elements, Distinct
  <2>5. NoManager \notin quiet
    BY <1>0, BudgetAssumption, Zenon DEF TypeOK
  <2> QED
    BY <2>1, <2>2, <2>3, <2>4, <2>5, Zenon DEF Registered
<1> QED
  BY <1>1, <1>2, Zenon

\* What the end of a drain does to the list.
LEMMA DrainEnds ==
    ASSUME Base, Registered, NEW t \in Threads, EvictFailsUnregister(t)
    PROVE  /\ mu = t /\ caller = "Unregister" /\ pc[t] = "evict" /\ EvictFails
           /\ target = mgr[t] /\ target \in Managers
           /\ UNCHANGED <<open, quiet, cached>>
           /\ mu' = NoThread /\ pc'[t] = "idle" /\ mgr'[t] = NoManager
           /\ \A u \in Threads \ {t} : pc'[u] = pc[u] /\ mgr'[u] = mgr[u]
           /\ Distinct(evictors') /\ Elements(evictors') = Elements(evictors) \ {target}
           /\ \E i \in 1..Len(evictors) :
                /\ evictors[i] = target
                /\ evictors' = WithoutIndex(evictors, i)
                /\ cursor' = CursorAfter(i, Len(evictors) - 1)
<1>0. TypeOK /\ LockDiscipline /\ evictors \in Seq(Managers) /\ Distinct(evictors)
  BY Zenon DEF Base, TypeOK, Registered
<1>1. /\ caller = "Unregister" /\ pc[t] = "evict" /\ EvictFails
      /\ UNCHANGED <<open, quiet, cached>>
      /\ mu' = NoThread /\ pc'[t] = "idle" /\ mgr'[t] = NoManager
      /\ \A u \in Threads \ {t} : pc'[u] = pc[u] /\ mgr'[u] = mgr[u]
  BY <1>0, Zenon DEF EvictFailsUnregister, Unlock, Return, TypeOK, nsVars, shardVars
<1>2. mu = t /\ target = mgr[t] /\ target \in Managers
  BY <1>0, <1>1, Zenon DEF LockDiscipline, Registered
<1>3. DOMAIN evictors = 1..Len(evictors)
  BY <1>0
<1>4. PICK i \in 1..Len(evictors) :
             /\ evictors[i] = target
             /\ evictors' = WithoutIndex(evictors, i)
             /\ cursor' = CursorAfter(i, Len(evictors) - 1)
  BY <1>3, Zenon DEF EvictFailsUnregister
<1>5. /\ Distinct(WithoutIndex(evictors, i))
      /\ Elements(WithoutIndex(evictors, i)) = Elements(evictors) \ {evictors[i]}
  BY <1>0, WithoutIndexFacts, Zenon
<1>6. Distinct(evictors') /\ Elements(evictors') = Elements(evictors) \ {target}
  BY <1>4, <1>5, Zenon
<1> QED
  BY <1>1, <1>2, <1>4, <1>6, Zenon

\* The Manager that leaves was closed, and every other one keeps its reason to
\* be in the list.
LEMMA DrainKeepsRegistered ==
    ASSUME Base, Registered, NEW t \in Threads, EvictFailsUnregister(t)
    PROVE  Registered'
<1>0. TypeOK
  BY Zenon DEF Base
<1>1. /\ mu = t /\ caller = "Unregister" /\ pc[t] = "evict"
      /\ target = mgr[t] /\ target \in Managers
      /\ UNCHANGED <<open, quiet>>
      /\ mu' = NoThread /\ pc'[t] = "idle" /\ mgr'[t] = NoManager
      /\ \A u \in Threads \ {t} : pc'[u] = pc[u] /\ mgr'[u] = mgr[u]
      /\ Distinct(evictors') /\ Elements(evictors') = Elements(evictors) \ {target}
  BY DrainEnds, Zenon
<1>2. /\ Leaving(t) /\ ~Leaving(t)'
      /\ \A u \in Threads \ {t} : Leaving(u)' <=> Leaving(u)
      /\ \A u \in Threads : mu' # u
  BY <1>1, BudgetAssumption, Zenon DEF Leaving
<1>3. NoManager \notin quiet
  BY <1>0, BudgetAssumption, Zenon DEF TypeOK
<1>4. Distinct(evictors)' /\ Elements(evictors)' = Elements(evictors) \ {target}
  BY <1>1, Zenon DEF Distinct, Elements
<1>5. target \notin open
  BY <1>1, <1>2, Zenon DEF Registered
<1>6. \A x \in Elements(evictors) \ {target} :
        x \in open \/ \E u \in Threads \ {t} : mgr[u] = x /\ Leaving(u)
  BY <1>1, Zenon DEF Registered
<1> QED
  BY <1>1, <1>2, <1>3, <1>4, <1>5, <1>6, Zenon DEF Registered

\* Every step keeps the list in order.
LEMMA RegisteredStep ==
    ASSUME Base, Registered, [Next]_vars
    PROVE  Registered'
<1>1. CASE UNCHANGED vars
  <2>1. UNCHANGED <<evictors, open, quiet, mgr, mu, caller, target, pc>>
    BY <1>1, Zenon DEF vars, budgetVars, nsVars, threadVars, evictVars
  <2> QED
    BY <2>1, SameDrain, Zenon
<1>2. CASE \E m \in Managers, k \in Keys : Touch(m, k)
  <2>1. UNCHANGED <<evictors, open, quiet, mgr, mu, caller, target, pc>>
    BY <1>2, Zenon DEF Touch, budgetVars, nsVars, threadVars, evictVars
  <2> QED
    BY <2>1, SameDrain, Zenon
<1>3. CASE \E m \in Managers : Register(m)
  BY <1>3, RegisterKeepsRegistered, Zenon
<1>4. CASE \E t \in Threads, m \in Managers : Close(t, m)
  BY <1>4, CloseKeepsRegistered, Zenon
<1>5. CASE \E t \in Threads : UnregisterFound(t) \/ UnregisterUnknown(t)
  BY <1>5, UnregisterKeepsRegistered, Zenon
<1>6. CASE \E t \in Threads : EvictFailsUnregister(t)
  BY <1>6, DrainKeepsRegistered, Zenon
<1>7. CASE \E t \in Threads : ScanShard(t) \/ EvictRetry(t) \/ EvictFrees(t)
  BY <1>7, EvictionKeepsRegistered, Zenon
<1>8. CASE \E t \in Threads :
           \/ \E m \in Managers, k \in Keys, n \in Sizes : Admit(t, m, k, n)
           \/ \E m \in Managers : PurgeIf(t, m)
           \/ ReserveFits(t) \/ ReserveRefuses(t) \/ ReserveEvicts(t)
           \/ ReclaimAsks(t) \/ ReclaimGivesUp(t) \/ Insert(t) \/ PurgeShard(t) \/ Release(t)
           \/ EvictFailsReserve(t)
           \/ \E m \in Managers, k \in Keys : Invalidate(t, m, k)
  BY <1>8, OperationsKeepRegistered, Zenon
<1> QED
  BY <1>1, <1>2, <1>3, <1>4, <1>5, <1>6, <1>7, <1>8, Zenon DEF Next, Acquire, Proceed

\* Nobody is registered at first.
LEMMA RegisteredInit == Init => Registered
<1> SUFFICES ASSUME Init PROVE Registered
  BY Zenon
<1>1. evictors = <<>> /\ Elements(<<>>) = {} /\ Distinct(<<>>)
  BY DEF Init, Elements, Distinct
<1>2. /\ open = {} /\ NoManager \notin Managers /\ quiet = Managers
      /\ \A t \in Threads : mgr[t] = NoManager /\ pc[t] = "idle" /\ mu # t
  BY BudgetAssumption, Zenon DEF Init
<1> QED
  BY <1>1, <1>2, Zenon DEF Registered, Leaving

\* The turns of a list and of the list without one Manager.
LEMMA TurnKept ==
    ASSUME NEW s \in Seq(Managers), Distinct(s), NEW i \in 1..Len(s),
           cursor \in Nat, cursor < Len(s), Len(s) # 1
    PROVE  WithoutIndex(s, i)[CursorAfter(i, Len(s) - 1) + 1]
             = IF s[cursor + 1] = s[i] THEN s[((cursor + 1) % Len(s)) + 1] ELSE s[cursor + 1]
<1> PICK n : n = Len(s) - 1
  BY Zenon
<1>0. n \in Nat \ {0} /\ Len(s) = n + 1 /\ i \in 1..(n + 1) /\ cursor \in 0..n
  OBVIOUS
<1>1. \A j \in 1..n : WithoutIndex(s, i)[j] = IF j < i THEN s[j] ELSE s[j + 1]
  BY <1>0, Zenon DEF WithoutIndex
<1>2. s[cursor + 1] = s[i] <=> cursor + 1 = i
  BY <1>0 DEF Distinct
<1>3. CASE cursor > i - 1
  <2>1. CursorAfter(i, n) = cursor - 1
    BY <1>0, <1>3 DEF CursorAfter
  <2>2. WithoutIndex(s, i)[cursor] = s[cursor + 1]
    BY <1>0, <1>1, <1>3
  <2> QED
    BY <1>0, <1>2, <1>3, <2>1, <2>2
<1>4. CASE cursor < i - 1
  <2>1. CursorAfter(i, n) = cursor
    BY <1>0, <1>4 DEF CursorAfter
  <2>2. WithoutIndex(s, i)[cursor + 1] = s[cursor + 1]
    BY <1>0, <1>1, <1>4
  <2> QED
    BY <1>0, <1>2, <1>4, <2>1, <2>2
<1>5. CASE cursor = i - 1 /\ cursor < n
  <2>1. CursorAfter(i, n) = cursor
    BY <1>0, <1>5 DEF CursorAfter
  <2>2. WithoutIndex(s, i)[cursor + 1] = s[cursor + 2]
    BY <1>0, <1>1, <1>5
  <2>3. (cursor + 1) % (n + 1) = cursor + 1
    BY <1>0, <1>5
  <2> QED
    BY <1>0, <1>2, <1>5, <2>1, <2>2, <2>3
<1>6. CASE cursor = i - 1 /\ cursor = n
  <2>1. n % n = 0 /\ (n + 1) % (n + 1) = 0
    BY <1>0
  <2>2. CursorAfter(i, n) = 0
    BY <1>0, <1>6, <2>1 DEF CursorAfter
  <2>3. WithoutIndex(s, i)[1] = s[1]
    BY <1>0, <1>1, <1>6
  <2> QED
    BY <1>0, <1>2, <1>6, <2>1, <2>2, <2>3
<1> QED
  BY <1>0, <1>3, <1>4, <1>5, <1>6

\* Spec => RoundRobinKeepsTurn: the cursor of Unregister points to the Manager
\* that was to be asked next, or to the one behind it.
THEOREM RoundRobin == Spec => RoundRobinKeepsTurn
<1> DEFINE A == Len(evictors') < Len(evictors) /\ evictors' # <<>> =>
                  LET next == evictors[cursor + 1]
                      succ == evictors[((cursor + 1) % Len(evictors)) + 1]
                  IN evictors'[cursor' + 1] = IF next = target THEN succ ELSE next
<1>1. ASSUME Base, Registered, [Next]_vars PROVE [A]_vars
  <2> SUFFICES ASSUME Len(evictors') < Len(evictors), evictors' # <<>>
               PROVE  evictors'[cursor' + 1] =
                        IF evictors[cursor + 1] = target
                        THEN evictors[((cursor + 1) % Len(evictors)) + 1]
                        ELSE evictors[cursor + 1]
    BY Zenon
  <2>0. /\ evictors \in Seq(Managers) /\ Len(evictors) \in Nat /\ Distinct(evictors)
        /\ cursor \in Nat /\ CursorInRange
    BY <1>1 DEF Base, TypeOK, Registered
  <2>1. CASE evictors' = evictors
    BY <2>0, <2>1
  <2>2. CASE \E m \in Managers : Register(m)
    <3>1. PICK m \in Managers : evictors' = Append(evictors, m)
      BY <2>2, Zenon DEF Register
    <3> QED
      BY <2>0, <3>1
  <2>3. CASE \E t \in Threads : EvictFailsUnregister(t)
    <3>1. PICK i \in 1..Len(evictors) :
                 /\ evictors[i] = target
                 /\ evictors' = WithoutIndex(evictors, i)
                 /\ cursor' = CursorAfter(i, Len(evictors) - 1)
      BY <1>1, <2>3, DrainEnds, Zenon
    <3>2. Len(evictors) # 1
      <4>1. evictors' \in Seq(Managers) /\ Len(evictors') = Len(evictors) - 1
        BY <2>0, <3>1, WithoutType, Zenon
      <4> QED
        BY <4>1
    <3>3. cursor < Len(evictors)
      BY <2>0 DEF CursorInRange
    <3>4. WithoutIndex(evictors, i)[CursorAfter(i, Len(evictors) - 1) + 1]
             = IF evictors[cursor + 1] = evictors[i]
               THEN evictors[((cursor + 1) % Len(evictors)) + 1] ELSE evictors[cursor + 1]
      BY <2>0, <3>2, <3>3, TurnKept, Zenon
    <3> QED
      BY <3>1, <3>4, Zenon
  <2>4. CASE UNCHANGED vars
    BY <2>1, <2>4, Zenon DEF vars, budgetVars
  <2>5. CASE Next /\ ~(\E m \in Managers : Register(m)) /\ ~(\E t \in Threads : EvictFailsUnregister(t))
    <3>1. \A m \in Managers, k \in Keys : Touch(m, k) => evictors' = evictors
      BY Zenon DEF Touch, budgetVars
    <3>2. \A t \in Threads, m \in Managers :
            \/ Close(t, m) \/ PurgeIf(t, m)
            \/ \E k \in Keys : Invalidate(t, m, k) \/ \E n \in Sizes : Admit(t, m, k, n)
            => evictors' = evictors
      <4>1. \A t \in Threads, m \in Managers : Close(t, m) \/ PurgeIf(t, m) => evictors' = evictors
        BY Zenon DEF Close, PurgeIf, budgetVars
      <4>2. \A t \in Threads, m \in Managers, k \in Keys : Invalidate(t, m, k) => evictors' = evictors
        BY Zenon DEF Invalidate, budgetVars
      <4>3. \A t \in Threads, m \in Managers, k \in Keys, n \in Sizes :
              Admit(t, m, k, n) => evictors' = evictors
        BY Zenon DEF Admit, budgetVars
      <4> QED
        BY <4>1, <4>2, <4>3, Zenon
    <3>3. \A t \in Threads : Acquire(t) => evictors' = evictors
      BY Zenon DEF Acquire, UnregisterFound, UnregisterUnknown, ReserveFits, ReserveRefuses,
         ReserveEvicts, Release, budgetVars
    <3>4. \A t \in Threads :
            \/ ReclaimAsks(t) \/ ReclaimGivesUp(t) \/ ScanShard(t) \/ EvictRetry(t) \/ EvictFrees(t)
            \/ EvictFailsReserve(t) \/ Insert(t) \/ PurgeShard(t)
            => evictors' = evictors
      BY Zenon DEF ReclaimAsks, ReclaimGivesUp, ScanShard, EvictRetry, EvictFrees,
         EvictFailsReserve, Insert, PurgeShard, budgetVars
    <3>5. evictors' = evictors
      <4>1. Next /\ (\A m \in Managers : ~Register(m)) /\ \A t \in Threads : ~EvictFailsUnregister(t)
        BY <2>5, Zenon
      <4> QED
        BY <3>1, <3>2, <3>3, <3>4, <4>1, Zenon DEF Next, Proceed
    <3> QED
      BY <2>1, <3>5, Zenon
  <2> QED
    BY <1>1, <2>2, <2>3, <2>4, <2>5, Zenon
<1>2. Base /\ Registered /\ [Next]_vars => Registered'
  BY RegisteredStep, Zenon
<1>3. Base /\ Registered /\ [Next]_vars => [A]_vars
  BY <1>1, Zenon
<1> QED
  BY <1>2, <1>3, BaseInvariant, RegisteredInit, PTL DEF Spec, RoundRobinKeepsTurn
-----------------------------------------------------------------------------
(* The lists of the shards.                                                *)

\* Of two entries in a list at most one is behind the other, both are cached
\* and in one shard, and what is behind an entry is behind all that follow it.
LruOrdered ==
    \A m \in Managers :
      /\ \A a, b \in Keys : <<a, b>> \in lru[m] =>
            a # b /\ <<m, a>> \in cached /\ <<m, b>> \in cached /\ ShardOf[a] = ShardOf[b]
      /\ \A a, b, c \in Keys :
            <<a, b>> \in lru[m] /\ <<b, c>> \in lru[m] => <<a, c>> \in lru[m]

\* What leaves a shard leaves its list.
LEMMA DropKeepsOrder ==
    ASSUME LruOrdered, NEW D, Drop(D)
    PROVE  LruOrdered'
<1>1. \A m \in Managers, a, b \in Keys :
        <<a, b>> \in lru'[m] <=> <<a, b>> \in lru[m] /\ <<m, a>> \notin D /\ <<m, b>> \notin D
  BY Zenon DEF Drop
<1>2. cached' = cached \ D
  BY Zenon DEF Drop
<1> QED
  BY <1>1, <1>2, Zenon DEF LruOrdered

\* What comes to the front has the rest of its shard behind it.
LEMMA FrontKeepsOrder ==
    ASSUME TypeOK, LruOrdered, NEW m \in Managers, NEW k \in Keys, ToFront(m, k),
           cached \subseteq cached', <<m, k>> \in cached'
    PROVE  LruOrdered'
<1>1. \A x \in Managers \ {m} : lru'[x] = lru[x]
  BY Zenon DEF ToFront, TypeOK
<1>2. \A a, b \in Keys :
        <<a, b>> \in lru'[m] <=>
          \/ <<a, b>> \in lru[m] /\ a # k /\ b # k
          \/ b = k /\ a # k /\ <<m, a>> \in cached /\ ShardOf[a] = ShardOf[k]
  <2> DEFINE A == {p \in lru[m] : p[1] # k /\ p[2] # k}
             B == {<<j, k>> : j \in {j \in Keys \ {k} : <<m, j>> \in cached
                                                       /\ ShardOf[j] = ShardOf[k]}}
  <2>1. lru'[m] = A \cup B
    BY Zenon DEF ToFront, TypeOK
  <2>2. \A a, b \in Keys : <<a, b>> \in A <=> <<a, b>> \in lru[m] /\ a # k /\ b # k
    BY Zenon
  <2>3. \A a, b \in Keys :
          <<a, b>> \in B <=> b = k /\ a # k /\ <<m, a>> \in cached /\ ShardOf[a] = ShardOf[k]
    BY Zenon
  <2> HIDE DEF A, B
  <2> QED
    BY <2>1, <2>2, <2>3, Zenon
<1>3. ASSUME NEW a \in Keys, NEW b \in Keys, <<a, b>> \in lru'[m]
      PROVE  a # b /\ <<m, a>> \in cached' /\ <<m, b>> \in cached' /\ ShardOf[a] = ShardOf[b]
  <2>1. CASE <<a, b>> \in lru[m]
    <3>1. a # b /\ <<m, a>> \in cached /\ <<m, b>> \in cached /\ ShardOf[a] = ShardOf[b]
      BY <2>1, Zenon DEF LruOrdered
    <3> QED
      BY <3>1, Zenon
  <2>2. CASE b = k /\ a # k /\ <<m, a>> \in cached /\ ShardOf[a] = ShardOf[k]
    BY <2>2, Zenon
  <2> QED
    BY <1>2, <1>3, <2>1, <2>2, Zenon
<1>4. ASSUME NEW a \in Keys, NEW b \in Keys, NEW c \in Keys,
             <<a, b>> \in lru'[m], <<b, c>> \in lru'[m]
      PROVE  <<a, c>> \in lru'[m]
  <2>1. b # k /\ <<a, b>> \in lru[m] /\ a # k
    BY <1>2, <1>4, Zenon
  <2>2. /\ <<m, a>> \in cached /\ ShardOf[a] = ShardOf[b]
        /\ <<b, c>> \in lru[m] => <<a, c>> \in lru[m]
    BY <2>1, Zenon DEF LruOrdered
  <2> QED
    BY <1>2, <1>4, <2>1, <2>2, Zenon
<1>5. ASSUME NEW x \in Managers
      PROVE  /\ \A a, b \in Keys : <<a, b>> \in lru'[x] =>
                  /\ a # b /\ <<x, a>> \in cached' /\ <<x, b>> \in cached'
                  /\ ShardOf[a] = ShardOf[b]
             /\ \A a, b, c \in Keys :
                  <<a, b>> \in lru'[x] /\ <<b, c>> \in lru'[x] => <<a, c>> \in lru'[x]
  <2>1. CASE x = m
    BY <1>3, <1>4, <2>1, Zenon
  <2>2. CASE x # m
    BY <1>1, <2>2, Zenon DEF LruOrdered
  <2> QED
    BY <2>1, <2>2, Zenon
<1> QED
  BY <1>5, Zenon DEF LruOrdered

\* A shard with an entry has one with nothing behind it: lru.Back() is nil
\* only for an empty shard.
LEMMA BackExists ==
    ASSUME TypeOK, LruOrdered, NEW m \in Managers, NEW k \in Keys, <<m, k>> \in cached
    PROVE  Back(m, ShardOf[k]) # {}
<1> DEFINE S == {x \in Keys : <<m, x>> \in cached /\ ShardOf[x] = ShardOf[k]}
           P(x) == {j \in S : <<j, x>> \in lru[m]}
           C == {Cardinality(P(x)) : x \in S}
<1>0. S \subseteq Keys /\ IsFiniteSet(Keys) /\ k \in S
  BY BudgetAssumption, Zenon
<1>1. IsFiniteSet(S) /\ \A x : IsFiniteSet(P(x)) /\ Cardinality(P(x)) \in Nat
                               /\ Cardinality(P(x)) <= Cardinality(S)
  <2>1. IsFiniteSet(S)
    BY <1>0, FS_Subset, Zenon
  <2>2. \A x : P(x) \in SUBSET S
    BY Zenon
  <2> HIDE DEF S, P
  <2>3. \A x : IsFiniteSet(P(x)) /\ Cardinality(P(x)) <= Cardinality(S)
    BY <2>1, <2>2, FS_Subset, Zenon
  <2> QED
    BY <2>1, <2>3, FS_CardinalityType, Zenon
<1>2. PICK x \in S : \A y \in S : Cardinality(P(x)) <= Cardinality(P(y))
  <2>1. C \in SUBSET Int /\ C # {} /\ IsFiniteSet(C)
    <3>1. Cardinality(S) \in Nat /\ IsFiniteSet(0..Cardinality(S))
      BY <1>1, FS_CardinalityType, FS_Interval
    <3>2. C \subseteq 0..Cardinality(S)
      <4> HIDE DEF P, S
      <4> QED
        BY <1>1, <3>1
    <3>3. IsFiniteSet(C)
      BY <3>1, <3>2, FS_Subset, Zenon
    <3>4. C # {}
      BY <1>0, Zenon
    <3> HIDE DEF C
    <3> QED
      BY <3>1, <3>2, <3>3, <3>4
  <2> HIDE DEF P, S
  <2>2. PICK n \in C : \A y \in C : n <= y
    BY <2>1, LeastInt, Zenon
  <2>3. PICK x \in S : n = Cardinality(P(x))
    BY <2>2, Zenon
  <2> QED
    BY <2>2, <2>3, Zenon
<1>3. ASSUME NEW j \in Keys, <<j, x>> \in lru[m] PROVE FALSE
  <2>1. j \in S
    BY <1>2, <1>3, Zenon DEF LruOrdered
  <2>2. P(j) \subseteq P(x)
    BY <1>2, <1>3, <2>1, Zenon DEF LruOrdered
  <2>3. j \in P(x) /\ j \notin P(j)
    BY <1>3, <2>1, Zenon DEF LruOrdered
  <2> HIDE DEF P, S
  <2>4. Cardinality(P(j)) <= Cardinality(P(x)) /\ (Cardinality(P(j)) = Cardinality(P(x)) => P(x) = P(j))
    BY <1>1, <2>2, FS_Subset, Zenon
  <2>5. Cardinality(P(x)) <= Cardinality(P(j))
    BY <1>2, <2>1, Zenon
  <2>6. Cardinality(P(j)) = Cardinality(P(x))
    BY <1>1, <2>4, <2>5
  <2> QED
    BY <2>3, <2>4, <2>6, Zenon
<1>4. x \in Back(m, ShardOf[k])
  <2>1. x \in Keys /\ <<m, x>> \in cached /\ ShardOf[x] = ShardOf[k]
    BY <1>2, Zenon
  <2>2. <<m, x>> \in InShard(m, ShardOf[k])
    BY <2>1, Zenon DEF InShard
  <2> QED
    BY <1>3, <2>1, <2>2, Zenon DEF Back
<1> QED
  BY <1>4, Zenon

\* Every step keeps the lists in order.
LEMMA OrderStep ==
    ASSUME Base, LruOrdered, [Next]_vars
    PROVE  LruOrdered'
<1>0. TypeOK /\ LockDiscipline
  BY Zenon DEF Base
<1>1. CASE UNCHANGED <<cached, lru>>
  BY <1>1, Zenon DEF LruOrdered
<1>2. CASE \E m \in Managers, k \in Keys : Touch(m, k)
  <2>1. PICK m \in Managers, k \in Keys : /\ <<m, k>> \in cached /\ ToFront(m, k)
                                          /\ cached' = cached
    BY <1>2, Zenon DEF Touch
  <2> QED
    BY <1>0, <2>1, FrontKeepsOrder, Zenon
<1>3. CASE \E t \in Threads : Insert(t)
  <2>1. PICK t \in Threads : Insert(t)
    BY <1>3, Zenon
  <2>2. /\ mgr[t] \in Managers /\ key[t] \in Keys /\ ToFront(mgr[t], key[t])
        /\ cached' = cached \cup {<<mgr[t], key[t]>>}
    BY <1>0, <2>1, Zenon DEF Insert, LockDiscipline
  <2> QED
    BY <1>0, <2>2, FrontKeepsOrder, Zenon
<1>4. CASE \E D : Drop(D)
  BY <1>4, DropKeepsOrder, Zenon
<1>5. CASE UNCHANGED vars
  BY <1>1, <1>5, Zenon DEF vars, shardVars
<1>6. CASE Next
  <2>1. \A t \in Threads : /\ EvictFrees(t) \/ PurgeShard(t) => \E D : Drop(D)
                           /\ \A m \in Managers, k \in Keys : Invalidate(t, m, k) => \E D : Drop(D)
    BY Zenon DEF EvictFrees, PurgeShard, Invalidate
  <2>2. \A m \in Managers : Register(m) => UNCHANGED <<cached, lru>>
    BY Zenon DEF Register, shardVars
  <2>3. \A t \in Threads :
          \/ \E m \in Managers : Close(t, m) \/ PurgeIf(t, m)
          \/ \E m \in Managers, k \in Keys, n \in Sizes : Admit(t, m, k, n)
          \/ Acquire(t)
          \/ ReclaimAsks(t) \/ ReclaimGivesUp(t) \/ ScanShard(t) \/ EvictRetry(t)
          \/ EvictFailsReserve(t) \/ EvictFailsUnregister(t)
          => UNCHANGED <<cached, lru>>
    BY Zenon DEF Close, PurgeIf, Admit, Acquire, UnregisterFound, UnregisterUnknown, ReserveFits,
       ReserveRefuses, ReserveEvicts, Release, ReclaimAsks, ReclaimGivesUp, ScanShard, EvictRetry,
       EvictFailsReserve, EvictFailsUnregister, shardVars
  <2> QED
    BY <1>1, <1>2, <1>3, <1>4, <1>6, <2>1, <2>2, <2>3, Zenon DEF Next, Proceed
<1> QED
  BY <1>5, <1>6, Zenon
-----------------------------------------------------------------------------
(* The drain of a Manager that was closed at rest.                         *)

\* Nothing of m is cached.
Emptied(m) == \A k \in Keys : <<m, k>> \notin cached

\* Of a Manager that no operation disturbs, the drain knows that no entry is
\* taken from under it, that the shards it has looked at are empty if it has
\* found nothing yet, and that all are at the end of the scan.
DrainIsSure(t) ==
    /\ best # Stale
    /\ pc[t] = "scan" /\ best = NoKey =>
         \A k \in Keys : ShardOf[k] < shard[t] => <<target, k>> \notin cached
    /\ pc[t] = "evict" /\ best = NoKey => Emptied(target)

\* A Manager that was closed at rest holds nothing once it has left the list.
Drained ==
    /\ \A m \in quiet : m \in Elements(evictors) \/ Emptied(m)
    /\ \A t \in Threads :
         mu = t /\ caller = "Unregister" /\ target \in quiet => DrainIsSure(t)

\* A thread that works on a quiet Manager outside Unregister finds it open.
LEMMA OperationsAreOpen ==
    ASSUME Base, Registered, NEW t \in Threads,
           pc[t] \in {"insert", "invalidate", "purge"}, mgr[t] \in quiet
    PROVE  mgr[t] \in open
<1>1. mu # t
  BY Zenon DEF Base, LockDiscipline
<1> QED
  BY <1>1, Zenon DEF Registered, Leaving

\* A step that adds entries only to open Managers, takes no Manager out of the
\* list, and leaves a drain alone or begins a new scan.
LEMMA StillDrained ==
    ASSUME Base, Registered, Drained,
           Elements(evictors) \subseteq Elements(evictors'),
           \A m \in quiet' : m \in quiet \/ m \in Elements(evictors'),
           \A m \in quiet, k \in Keys : <<m, k>> \in cached' => <<m, k>> \in cached \/ m \in open,
           \A u \in Threads : mu' = u /\ caller' = "Unregister" /\ target' \in quiet' =>
             \/ /\ mu = u /\ caller = "Unregister" /\ target' = target /\ target \in quiet
                /\ best' = best /\ pc'[u] = pc[u] /\ shard'[u] = shard[u]
             \/ best' = NoKey /\ pc'[u] = "scan" /\ shard'[u] = 1
    PROVE  Drained'
<1>0. \A k \in Keys : ~(ShardOf[k] < 1)
  BY BudgetAssumption
<1>1. \A m \in quiet' : m \in Elements(evictors') \/ Emptied(m)'
  <2> SUFFICES ASSUME NEW m \in quiet', m \notin Elements(evictors'), NEW k \in Keys
               PROVE  <<m, k>> \notin cached'
    BY Zenon DEF Emptied
  <2>1. m \in quiet /\ m \notin Elements(evictors)
    BY Zenon
  <2>2. <<m, k>> \notin cached
    BY <2>1, Zenon DEF Drained, Emptied
  <2>3. m \notin open
    BY <2>1, Zenon DEF Registered
  <2> QED
    BY <2>1, <2>2, <2>3, Zenon
<1>2. ASSUME NEW u \in Threads, mu' = u, caller' = "Unregister", target' \in quiet'
      PROVE  DrainIsSure(u)'
  <2>1. CASE best' = NoKey /\ pc'[u] = "scan" /\ shard'[u] = 1
    BY <1>0, <2>1, BudgetAssumption, Zenon DEF DrainIsSure
  <2>2. CASE /\ mu = u /\ caller = "Unregister" /\ target' = target /\ target \in quiet
             /\ best' = best /\ pc'[u] = pc[u] /\ shard'[u] = shard[u]
    <3>1. target \notin open
      BY <2>2, Zenon DEF Registered, Leaving
    <3>2. \A k \in Keys : <<target, k>> \notin cached => <<target, k>> \notin cached'
      BY <2>2, <3>1, Zenon
    <3>3. DrainIsSure(u)
      BY <2>2, Zenon DEF Drained
    <3> QED
      BY <2>2, <3>2, <3>3, Zenon DEF DrainIsSure, Emptied
  <2> QED
    BY <1>2, <2>1, <2>2, Zenon
<1>3. Elements(evictors)' = Elements(evictors')
  BY Zenon DEF Elements
<1> QED
  BY <1>1, <1>2, <1>3, Zenon DEF Drained

\* A step of a thread outside EvictOldest that leaves the entries alone.
LEMMA CallsKeepDrained ==
    ASSUME Base, Registered, Drained, NEW t \in Threads,
           \/ \E m \in Managers : Close(t, m) \/ PurgeIf(t, m)
           \/ \E m \in Managers, k \in Keys, n \in Sizes : Admit(t, m, k, n)
           \/ UnregisterUnknown(t) \/ ReserveFits(t) \/ ReserveRefuses(t) \/ Release(t)
    PROVE  Drained'
<1>0. TypeOK /\ LockDiscipline
  BY Zenon DEF Base
<1>1. /\ UNCHANGED <<evictors, cached, mu, caller, target, best>> /\ quiet' \subseteq quiet
      /\ pc[t] \in {"idle", "unregister", "reserve", "release"}
      /\ \A u \in Threads \ {t} : pc'[u] = pc[u] /\ shard'[u] = shard[u]
  <2>1. CASE \E m \in Managers : Close(t, m) \/ PurgeIf(t, m)
    BY <1>0, <2>1, Zenon DEF Close, PurgeIf, Calls, Goto, TypeOK, budgetVars, shardVars, nsVars,
       evictVars
  <2>2. CASE \E m \in Managers, k \in Keys, n \in Sizes : Admit(t, m, k, n)
    BY <1>0, <2>2, Zenon DEF Admit, Calls, Goto, TypeOK, budgetVars, shardVars, nsVars, evictVars
  <2>3. CASE UnregisterUnknown(t) \/ Release(t)
    BY <1>0, <2>3, Zenon DEF UnregisterUnknown, Release, Return, TypeOK, budgetVars, shardVars,
       nsVars, evictVars
  <2>4. CASE ReserveFits(t) \/ ReserveRefuses(t)
    BY <1>0, <2>4, Zenon DEF ReserveFits, ReserveRefuses, Goto, TypeOK, budgetVars, shardVars,
       nsVars, evictVars
  <2> QED
    BY <2>1, <2>2, <2>3, <2>4, Zenon
<1>2. mu # t
  BY <1>0, <1>1, Zenon DEF LockDiscipline
<1> QED
  BY <1>1, <1>2, StillDrained, Zenon

\* A Manager that registers is in the list, and Budget.mu is free.
LEMMA RegisterKeepsDrained ==
    ASSUME Base, Registered, Drained, NEW m \in Managers, Register(m)
    PROVE  Drained'
<1>1. /\ evictors' = Append(evictors, m) /\ quiet' = quiet \cup {m} /\ cached' = cached
      /\ mu' = NoThread
  BY Zenon DEF Register, shardVars
<1>2. evictors \in Seq(Managers)
  BY Zenon DEF Base, TypeOK
<1>3. /\ Append(evictors, m) \in Seq(Managers)
      /\ Elements(Append(evictors, m)) = Elements(evictors) \cup {m}
      /\ Distinct(evictors) /\ m \notin Elements(evictors) => Distinct(Append(evictors, m))
  BY <1>2, AppendFacts, Zenon
<1>4. Elements(evictors') = Elements(evictors) \cup {m}
  BY <1>1, <1>3, Zenon
<1>5. \A u \in Threads : mu' # u
  BY <1>1, BudgetAssumption, Zenon
<1> QED
  BY <1>1, <1>4, <1>5, StillDrained, Zenon

\* The loop of Reserve runs under Budget.mu, so that no drain does.
LEMMA ReserveKeepsDrained ==
    ASSUME Base, Registered, Drained, NEW t \in Threads,
           \/ ReserveEvicts(t) \/ ReclaimAsks(t) \/ ReclaimGivesUp(t) \/ EvictFailsReserve(t)
           \/ EvictFrees(t) /\ caller = "Reserve"
           \/ (ScanShard(t) \/ EvictRetry(t)) /\ caller = "Reserve"
    PROVE  Drained'
<1>0. TypeOK /\ LockDiscipline
  BY Zenon DEF Base
<1>1. UNCHANGED <<evictors, quiet>> /\ cached' \subseteq cached
  BY Zenon DEF ReserveEvicts, ReclaimAsks, ReclaimGivesUp, EvictFailsReserve, EvictFrees, ScanShard,
     EvictRetry, Drop, budgetVars, shardVars, nsVars
<1>2. caller' = "Reserve"
  <2>1. pc[t] = "reclaim" => caller = "Reserve"
    BY <1>0, Zenon DEF LockDiscipline
  <2>2. mu = NoThread => caller = "Reserve"
    BY <1>0, Zenon DEF LockDiscipline
  <2> QED
    BY <2>1, <2>2, Zenon DEF ReserveEvicts, ReclaimAsks, ReclaimGivesUp, EvictFailsReserve,
       EvictFrees, ScanShard, EvictRetry, BeginEvictOldest, Unlock, evictVars
<1> QED
  BY <1>1, <1>2, StillDrained, Zenon

\* A drain that begins, and one that has freed an entry, scan from the start.
LEMMA ScansAfresh ==
    ASSUME Base, Registered, Drained, NEW t \in Threads,
           UnregisterFound(t) \/ (EvictFrees(t) /\ caller = "Unregister")
    PROVE  Drained'
<1>0. TypeOK /\ LockDiscipline
  BY Zenon DEF Base
<1>1. /\ UNCHANGED <<evictors, quiet>> /\ cached' \subseteq cached
      /\ mu' = t /\ best' = NoKey /\ pc'[t] = "scan" /\ shard'[t] = 1
  <2>1. EvictFrees(t) => mu = t
    BY <1>0, Zenon DEF EvictFrees, LockDiscipline
  <2> QED
    BY <1>0, <2>1, Zenon DEF UnregisterFound, EvictFrees, BeginEvictOldest, Goto, Drop, TypeOK,
       shardVars, nsVars
<1> QED
  BY <1>1, StillDrained, Zenon

\* Entries come only to open Managers, and go by themselves only from them.
LEMMA ShardsKeepDrained ==
    ASSUME Base, Registered, Drained, NEW t \in Threads,
           \/ Insert(t) \/ PurgeShard(t)
           \/ \E m \in Managers, k \in Keys : Invalidate(t, m, k)
    PROVE  Drained'
<1>0. TypeOK /\ LockDiscipline
  BY Zenon DEF Base
<1>1. /\ UNCHANGED <<evictors, quiet, mu, caller, target>>
      /\ pc[t] \in {"insert", "purge", "idle", "invalidate"}
      /\ \A u \in Threads \ {t} : pc'[u] = pc[u] /\ shard'[u] = shard[u]
  BY <1>0, Zenon DEF Insert, PurgeShard, Invalidate, Calls, Return, Goto, TypeOK, budgetVars, nsVars,
     evictVars
<1>2. mu # t
  BY <1>0, <1>1, Zenon DEF LockDiscipline
<1>3. \A u \in Threads : mu = u /\ caller = "Unregister" => target \notin open
  BY Zenon DEF Registered, Leaving
<1>4. CASE Insert(t)
  <2>1. cached' = cached \cup {<<mgr[t], key[t]>>} /\ best' = best
    BY <1>4, Zenon DEF Insert, evictVars
  <2>2. mgr[t] \in quiet => mgr[t] \in open
    BY <1>4, OperationsAreOpen, Zenon DEF Insert
  <2>3. \A m \in quiet, k \in Keys : <<m, k>> \in cached' => <<m, k>> \in cached \/ m \in open
    BY <2>1, <2>2, Zenon
  <2> QED
    BY <1>1, <1>2, <2>1, <2>3, StillDrained, Zenon
<1>5. CASE PurgeShard(t)
  <2>1. PICK D : /\ D \subseteq InShard(mgr[t], shard[t]) /\ Drop(D) /\ ForgetBest(D)
    BY <1>5, Zenon DEF PurgeShard
  <2>2. cached' \subseteq cached
    BY <2>1, Zenon DEF Drop
  <2>3. mgr[t] \in quiet => mgr[t] \in open
    BY <1>5, OperationsAreOpen, Zenon DEF PurgeShard
  <2>4. \A u \in Threads : mu = u /\ caller = "Unregister" /\ target \in quiet => best' = best
    BY <1>3, <2>1, <2>3, Zenon DEF ForgetBest, InShard
  <2> QED
    BY <1>1, <1>2, <2>2, <2>4, StillDrained, Zenon
<1>6. CASE \E m \in Managers, k \in Keys : Invalidate(t, m, k)
  <2>1. PICK m \in Managers, k \in Keys : Invalidate(t, m, k)
    BY <1>6, Zenon
  <2>2. cached' \subseteq cached
    BY <2>1, Zenon DEF Invalidate, Drop
  <2>3. m \in quiet => m \in open
    BY <2>1, OperationsAreOpen, Zenon DEF Invalidate, Calls
  <2>4. \A u \in Threads : mu = u /\ caller = "Unregister" /\ target \in quiet => best' = best
    BY <1>3, <2>1, <2>3, Zenon DEF Invalidate, ForgetBest
  <2> QED
    BY <1>1, <1>2, <2>2, <2>4, StillDrained, Zenon
<1> QED
  BY <1>4, <1>5, <1>6, Zenon

\* A scan of Unregister: a shard without a last entry is empty.
LEMMA ScanKeepsDrained ==
    ASSUME Base, Registered, LruOrdered, Drained, NEW t \in Threads,
           ScanShard(t) \/ EvictRetry(t), caller = "Unregister"
    PROVE  Drained'
<1>0. TypeOK /\ LockDiscipline
  BY Zenon DEF Base
<1>1. /\ UNCHANGED <<evictors, quiet, cached, mu, caller, target>> /\ pc[t] \in {"scan", "evict"}
      /\ EvictRetry(t) => best = Stale
  BY Zenon DEF ScanShard, EvictRetry, budgetVars, shardVars, nsVars
<1>2. mu = t /\ target \in Managers
  BY <1>0, <1>1, Zenon DEF LockDiscipline
<1>3. ASSUME target \in quiet PROVE DrainIsSure(t)'
  <2>1. DrainIsSure(t)
    BY <1>2, <1>3, Zenon DEF Drained
  <2>2. ScanShard(t)
    BY <1>1, <2>1, Zenon DEF DrainIsSure
  <2>3. /\ pc[t] = "scan"
        /\ \/ best' = best /\ (best # NoKey \/ Back(target, shard[t]) = {})
           \/ best' \in Keys
    BY <2>2, Zenon DEF ScanShard, Back
  <2>4. best' # Stale
    BY <2>1, <2>3, BudgetAssumption, Zenon DEF DrainIsSure
  <2>5. ASSUME best' = NoKey, NEW k \in Keys, ShardOf[k] <= shard[t]
        PROVE  <<target, k>> \notin cached
    <3>1. best = NoKey /\ Back(target, shard[t]) = {}
      BY <2>3, <2>5, BudgetAssumption, Zenon
    <3>2. ShardOf[k] < shard[t] \/ ShardOf[k] = shard[t]
      BY <1>0, <2>5, BudgetAssumption DEF TypeOK, Shards
    <3>3. CASE ShardOf[k] < shard[t]
      BY <2>1, <2>3, <3>1, <3>3, Zenon DEF DrainIsSure
    <3>4. CASE ShardOf[k] = shard[t]
      BY <1>0, <1>2, <3>1, <3>4, BackExists, Zenon
    <3> QED
      BY <3>2, <3>3, <3>4, Zenon
  <2>6. CASE shard[t] < NumShards
    <3>1. shard'[t] = shard[t] + 1 /\ pc'[t] = "scan"
      BY <1>0, <2>2, <2>3, <2>6, Zenon DEF ScanShard, TypeOK
    <3>2. \A k \in Keys : ShardOf[k] < shard'[t] => ShardOf[k] <= shard[t]
      BY <1>0, <3>1, BudgetAssumption DEF TypeOK, Shards
    <3> QED
      BY <1>1, <2>4, <2>5, <3>1, <3>2, Zenon DEF DrainIsSure
  <2>7. CASE ~(shard[t] < NumShards)
    <3>1. pc'[t] = "evict"
      BY <1>0, <2>2, <2>7, Zenon DEF ScanShard, Goto, TypeOK
    <3>2. \A k \in Keys : ShardOf[k] <= shard[t]
      BY <1>0, <2>7, BudgetAssumption DEF TypeOK, Shards
    <3> QED
      BY <1>1, <2>4, <2>5, <3>1, <3>2, Zenon DEF DrainIsSure, Emptied
  <2> QED
    BY <2>6, <2>7, Zenon
<1>4. \A m \in quiet : m \in Elements(evictors)' \/ Emptied(m)'
  BY <1>1, Zenon DEF Drained, Elements, Emptied
<1> QED
  BY <1>1, <1>2, <1>3, <1>4, Zenon DEF Drained

\* The end of the drain: nothing was found in any shard.
LEMMA EndKeepsDrained ==
    ASSUME Base, Registered, Drained, NEW t \in Threads, EvictFailsUnregister(t)
    PROVE  Drained'
<1>1. /\ mu = t /\ caller = "Unregister" /\ pc[t] = "evict" /\ EvictFails
      /\ UNCHANGED <<quiet, cached>> /\ mu' = NoThread
      /\ Elements(evictors') = Elements(evictors) \ {target}
  BY DrainEnds, Zenon
<1>2. target \in quiet => Emptied(target)
  <2> SUFFICES ASSUME target \in quiet PROVE Emptied(target)
    BY Zenon
  <2>1. DrainIsSure(t)
    BY <1>1, Zenon DEF Drained
  <2> QED
    BY <1>1, <2>1, Zenon DEF DrainIsSure, EvictFails
<1>3. \A m \in quiet : m \in Elements(evictors)' \/ Emptied(m)'
  <2>1. Elements(evictors)' = Elements(evictors')
    BY Zenon DEF Elements
  <2>2. \A m : Emptied(m)' <=> Emptied(m)
    BY <1>1, Zenon DEF Emptied
  <2> QED
    BY <1>1, <1>2, <2>1, <2>2, Zenon DEF Drained
<1>4. \A u \in Threads : mu' # u
  BY <1>1, BudgetAssumption, Zenon
<1> QED
  BY <1>1, <1>3, <1>4, Zenon DEF Drained

\* Every step keeps what a drain knows.
LEMMA DrainedStep ==
    ASSUME Base, Registered, LruOrdered, Drained, [Next]_vars
    PROVE  Drained'
<1>0. caller \in {"Reserve", "Unregister"}
  BY Zenon DEF Base, TypeOK
<1>1. CASE UNCHANGED <<evictors, quiet, cached, mu, caller, target, best, pc, shard>>
  BY <1>1, StillDrained, Zenon
<1>2. CASE UNCHANGED vars
  BY <1>1, <1>2, Zenon DEF vars, budgetVars, shardVars, nsVars, threadVars, evictVars
<1>3. CASE \E m \in Managers, k \in Keys : Touch(m, k)
  BY <1>1, <1>3, Zenon DEF Touch, budgetVars, nsVars, threadVars, evictVars
<1>4. CASE \E m \in Managers : Register(m)
  BY <1>4, RegisterKeepsDrained, Zenon
<1>5. CASE \E t \in Threads :
           \/ \E m \in Managers : Close(t, m) \/ PurgeIf(t, m)
           \/ \E m \in Managers, k \in Keys, n \in Sizes : Admit(t, m, k, n)
           \/ UnregisterUnknown(t) \/ ReserveFits(t) \/ ReserveRefuses(t) \/ Release(t)
  BY <1>5, CallsKeepDrained, Zenon
<1>6. CASE \E t \in Threads :
           \/ ReserveEvicts(t) \/ ReclaimAsks(t) \/ ReclaimGivesUp(t) \/ EvictFailsReserve(t)
  BY <1>6, ReserveKeepsDrained, Zenon
<1>7. CASE \E t \in Threads : UnregisterFound(t)
  BY <1>7, ScansAfresh, Zenon
<1>8. CASE \E t \in Threads : EvictFrees(t)
  BY <1>0, <1>8, ReserveKeepsDrained, ScansAfresh, Zenon
<1>9. CASE \E t \in Threads : ScanShard(t) \/ EvictRetry(t)
  BY <1>0, <1>9, ReserveKeepsDrained, ScanKeepsDrained, Zenon
<1>10. CASE \E t \in Threads : EvictFailsUnregister(t)
  BY <1>10, EndKeepsDrained, Zenon
<1>11. CASE \E t \in Threads :
            \/ Insert(t) \/ PurgeShard(t)
            \/ \E m \in Managers, k \in Keys : Invalidate(t, m, k)
  BY <1>11, ShardsKeepDrained, Zenon
<1> QED
  BY <1>2, <1>3, <1>4, <1>5, <1>6, <1>7, <1>8, <1>9, <1>10, <1>11, Zenon DEF Next, Acquire, Proceed

\* Spec => []QuietCloseLeavesNothing: Unregister drains a Manager that was
\* closed at rest completely, although EvictOldest gives its shards up one
\* after the other and other Managers go on.
THEOREM QuietClose == Spec => []QuietCloseLeavesNothing
<1>1. Init => LruOrdered /\ Drained
  <2> SUFFICES ASSUME Init PROVE LruOrdered /\ Drained
    BY Zenon
  <2>1. LruOrdered
    BY Zenon DEF Init, LruOrdered
  <2>2. Drained
    BY BudgetAssumption, Zenon DEF Init, Drained, Emptied
  <2> QED
    BY <2>1, <2>2, Zenon
<1>2. Base /\ Registered /\ [Next]_vars => Registered'
  BY RegisteredStep, Zenon
<1>3. Base /\ Registered /\ LruOrdered /\ Drained /\ [Next]_vars => LruOrdered' /\ Drained'
  BY OrderStep, DrainedStep, Zenon
<1>4. Registered /\ Drained => QuietCloseLeavesNothing
  BY Zenon DEF Registered, Drained, Emptied, QuietCloseLeavesNothing, Busy
<1> QED
  BY <1>1, <1>2, <1>3, <1>4, BaseInvariant, RegisteredInit, PTL DEF Spec
=============================================================================
