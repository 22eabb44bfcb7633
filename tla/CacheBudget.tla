---------------------------- MODULE CacheBudget ----------------------------
(***************************************************************************)
(* The byte Budget shared by the cache Managers of a process               *)
(* (pkg/cache/budget.go) and everything a Manager does to it               *)
(* (pkg/cache/cache.go): admit, Invalidate, PurgeIf, EvictOldest, Close.   *)
(*                                                                         *)
(* Threads are goroutines.  A shard mutex is a leaf lock, nothing blocks   *)
(* while it is held, so each of its critical sections is one step.         *)
(* Budget.mu is held across calls to EvictOldest, which takes shard locks  *)
(* one after the other: it is the variable mu, and the steps in between    *)
(* interleave with the shard sections of the other threads.                *)
(*                                                                         *)
(* An object is its length.  The LRU list of a shard is the set of pairs   *)
(* <<a, b>> such that a is behind b.                                       *)
(***************************************************************************)
EXTENDS Integers, Sequences, FiniteSets, ByteSums

CONSTANTS
    Managers,       \* one cache Manager per open namespace
    Keys,
    Threads,        \* goroutines
    NumShards,      \* shardCount
    ShardOf,        \* shardFor: Keys -> 1..NumShards
    Sizes,          \* the lengths of the objects that are read and written
    Limit,          \* Budget.limit, <= 0 is unbounded
    MaxObjectSize,  \* Config.MaxObjectSize, 0 is no cap
    NoThread,       \* Budget.mu is free
    NoManager,      \* the thread runs no operation
    NoKey,          \* nil
    Stale           \* bestElem is no longer in its list

ASSUME BudgetAssumption ==
    /\ IsFiniteSet(Managers) /\ IsFiniteSet(Keys) /\ IsFiniteSet(Threads)
    /\ NumShards \in Nat \ {0}
    /\ ShardOf \in [Keys -> 1..NumShards]
    /\ Sizes \subseteq Nat
    /\ Limit \in Int
    /\ MaxObjectSize \in Nat
    /\ NoThread \notin Threads
    /\ NoManager \notin Managers
    /\ NoKey \notin Keys /\ Stale \notin Keys /\ NoKey # Stale

VARIABLES
    \* Budget
    used,       \* bytes accounted for
    evictors,   \* registered Managers, in registration order
    cursor,     \* 0-based index of the next Manager to ask
    mu,         \* the thread that holds Budget.mu
    \* the shards of every Manager
    cached,     \* the entries, a set of <<manager, key>>
    size,       \* Item.size of an entry, 0 where there is none
    bytes,      \* cacheShard.bytes
    lru,        \* <<a, b>> \in lru[m]: a is behind b in the list of their shard
    \* namespaces
    open,       \* Managers whose database has not been closed
    quiet,      \* history: Managers closed while no operation ran on them
    \* locals of a thread
    pc, mgr, key, obj, freed, shard,
    \* locals of the thread that holds mu
    caller,     \* who called EvictOldest
    target,     \* the Manager whose EvictOldest runs
    attempt, best, exhausted

budgetVars == <<used, evictors, cursor, mu>>
shardVars  == <<cached, size, bytes, lru>>
nsVars     == <<open, quiet>>
threadVars == <<pc, mgr, key, obj, freed, shard>>
evictVars  == <<caller, target, attempt, best, exhausted>>
vars       == <<budgetVars, shardVars, nsVars, threadVars, evictVars>>

Shards == 1..NumShards
Slots  == Managers \X Keys
-----------------------------------------------------------------------------
\* b.used -= n, clamped at zero
Minus(a, n) == IF a - n < 0 THEN 0 ELSE a - n
-----------------------------------------------------------------------------
\* Types of the state.  Counters are never negative: a Manager's bytes and the
\* Budget's are clamped, the cursor is an index.
TypeOK ==
    /\ used \in Nat
    /\ evictors \in Seq(Managers)
    /\ cursor \in Nat
    /\ mu \in Threads \cup {NoThread}
    /\ cached \subseteq Slots
    /\ size \in [Slots -> Nat]
    /\ bytes \in [Managers \X Shards -> Nat]
    /\ lru \in [Managers -> SUBSET (Keys \X Keys)]
    /\ open \subseteq Managers
    /\ quiet \subseteq Managers
    /\ pc \in [Threads -> {"idle", "reserve", "reclaim", "scan", "evict",
                           "insert", "invalidate", "purge", "release",
                           "unregister"}]
    /\ mgr \in [Threads -> Managers \cup {NoManager}]
    /\ key \in [Threads -> Keys \cup {NoKey}]
    /\ obj \in [Threads -> Nat]
    /\ freed \in [Threads -> Nat]
    /\ shard \in [Threads -> Shards]
    /\ caller \in {"Reserve", "Unregister"}
    /\ target \in Managers \cup {NoManager}
    /\ attempt \in 1..3
    /\ best \in Keys \cup {NoKey, Stale}
    /\ exhausted \in Nat

Init ==
    /\ used = 0
    /\ evictors = <<>>
    /\ cursor = 0
    /\ mu = NoThread
    /\ cached = {}
    /\ size = [x \in Slots |-> 0]
    /\ bytes = [x \in Managers \X Shards |-> 0]
    /\ lru = [m \in Managers |-> {}]
    /\ open = {}
    /\ quiet = Managers
    /\ pc = [t \in Threads |-> "idle"]
    /\ mgr = [t \in Threads |-> NoManager]
    /\ key = [t \in Threads |-> NoKey]
    /\ obj = [t \in Threads |-> 0]
    /\ freed = [t \in Threads |-> 0]
    /\ shard = [t \in Threads |-> 1]
    /\ caller = "Reserve"
    /\ target = NoManager
    /\ attempt = 1
    /\ best = NoKey
    /\ exhausted = 0
-----------------------------------------------------------------------------
(* Critical sections of the shard locks.                                   *)

InShard(m, s) == {<<m, k>> : k \in {k \in Keys : ShardOf[k] = s}}

\* dropLocked, removeElemLocked and the loop of PurgeIf: the entries D leave.
Drop(D) ==
    /\ cached' = cached \ D
    /\ size' = [x \in Slots |-> IF x \in D THEN 0 ELSE size[x]]
    /\ bytes' = [y \in Managers \X Shards |->
                   Minus(bytes[y], Bytes(Part(size, D \cap InShard(y[1], y[2]))))]
    /\ lru' = [m \in Managers |-> {p \in lru[m] : <<m, p[1]>> \notin D
                                                  /\ <<m, p[2]>> \notin D}]

\* MoveToFront and PushFront: every other entry of the shard is behind k.
ToFront(m, k) ==
    lru' = [lru EXCEPT ![m] =
              {p \in @ : p[1] # k /\ p[2] # k} \cup
              {<<j, k>> : j \in {j \in Keys \ {k} : <<m, j>> \in cached
                                                    /\ ShardOf[j] = ShardOf[k]}}]

\* Mutant: the scan stops one shard early.
BackMissesLastShard(m, s) ==
    {k \in Keys : <<m, k>> \in cached \cap InShard(m, s) /\ s < NumShards
                  /\ \A j \in Keys : <<j, k>> \notin lru[m]}

\* lru.Back() of shard s of m: the entry with nothing behind it.
Back(m, s) ==
    {k \in Keys : <<m, k>> \in cached \cap InShard(m, s)
                  /\ \A j \in Keys : <<j, k>> \notin lru[m]}

\* An element another thread takes out of the list is not the element an
\* EvictOldest remembers any more, even if its key comes back.
ForgetBest(D) == best' = IF <<target, best>> \in D THEN Stale ELSE best
-----------------------------------------------------------------------------
(* Threads.                                                                *)

Busy(m) == \E t \in Threads : mgr[t] = m

Calls(t, m) == pc[t] = "idle" /\ m \in open

Goto(t, l) == pc' = [pc EXCEPT ![t] = l]

Return(t) ==
    /\ pc' = [pc EXCEPT ![t] = "idle"]
    /\ mgr' = [mgr EXCEPT ![t] = NoManager]
    /\ key' = [key EXCEPT ![t] = NoKey]
    /\ obj' = [obj EXCEPT ![t] = 0]
    /\ freed' = [freed EXCEPT ![t] = 0]
    /\ shard' = [shard EXCEPT ![t] = 1]

\* Mutant: a return that forgets the unlock.
ReturnLocked ==
    /\ caller' = "Reserve"
    /\ target' = NoManager
    /\ attempt' = 1
    /\ best' = NoKey
    /\ exhausted' = 0
    /\ UNCHANGED mu

\* The caller of EvictOldest is back in Budget and unlocks.
Unlock ==
    /\ mu' = NoThread
    /\ caller' = "Reserve"
    /\ target' = NoManager
    /\ attempt' = 1
    /\ best' = NoKey
    /\ exhausted' = 0
-----------------------------------------------------------------------------
(* Namespaces come and go.                                                 *)

\* NewManagerWithConfig ends with Budget.Register.  The name of a Manager
\* that was closed and holds nothing may be given to a new one.
Register(m) ==
    /\ m \notin open
    /\ ~Busy(m)
    /\ \A k \in Keys : <<m, k>> \notin cached
    /\ mu = NoThread
    /\ evictors' = Append(evictors, m)
    /\ open' = open \cup {m}
    /\ quiet' = quiet \cup {m}
    /\ UNCHANGED <<used, cursor, mu, shardVars, threadVars, evictVars>>

\* database.Close and Manager.Close call Budget.Unregister.
Close(t, m) ==
    /\ pc[t] = "idle"
    /\ open' = open \ {m}
    /\ quiet' = IF m \in open /\ Busy(m) THEN quiet \ {m} ELSE quiet
    /\ Goto(t, "unregister")
    /\ mgr' = [mgr EXCEPT ![t] = m]
    /\ UNCHANGED <<budgetVars, shardVars, key, obj, freed, shard, evictVars>>

BeginEvictOldest(t, m, c) ==
    /\ Goto(t, "scan")
    /\ shard' = [shard EXCEPT ![t] = 1]
    /\ caller' = c
    /\ target' = m
    /\ attempt' = 1
    /\ best' = NoKey

\* Unregister: lock, look e up, start draining it.
UnregisterFound(t) ==
    /\ pc[t] = "unregister" /\ mu = NoThread
    /\ \E i \in DOMAIN evictors : evictors[i] = mgr[t]
    /\ mu' = t
    /\ BeginEvictOldest(t, mgr[t], "Unregister")
    /\ UNCHANGED <<used, evictors, cursor, shardVars, nsVars,
                   mgr, key, obj, freed, exhausted>>

UnregisterUnknown(t) ==
    /\ pc[t] = "unregister" /\ mu = NoThread
    /\ \A i \in DOMAIN evictors : evictors[i] # mgr[t]
    /\ Return(t)
    /\ UNCHANGED <<budgetVars, shardVars, nsVars, evictVars>>
-----------------------------------------------------------------------------
(* Admission: Get after a cold read and Put after a write.                 *)

\* A hit of Get moves the entry to the front of its list.
Touch(m, k) ==
    /\ m \in open
    /\ <<m, k>> \in cached
    /\ ToFront(m, k)
    /\ UNCHANGED <<budgetVars, cached, size, bytes, nsVars, threadVars, evictVars>>

\* admit up to the call of Reserve; an object above the cap is not cached and
\* what was cached under its key goes.
Admit(t, m, k, n) ==
    /\ Calls(t, m)
    /\ Goto(t, IF MaxObjectSize > 0 /\ n > MaxObjectSize THEN "invalidate" ELSE "reserve")
    /\ mgr' = [mgr EXCEPT ![t] = m]
    /\ key' = [key EXCEPT ![t] = k]
    /\ obj' = [obj EXCEPT ![t] = n]
    /\ UNCHANGED <<budgetVars, shardVars, nsVars, freed, shard, evictVars>>

\* Mutant: the check forgets the new object.
FitsWithoutNew(u, n) == Limit <= 0 \/ u <= Limit

\* b.limit <= 0 || b.used+n <= b.limit
Fits(u, n) == Limit <= 0 \/ u + n <= Limit

ReserveFits(t) ==
    /\ pc[t] = "reserve" /\ mu = NoThread
    /\ Fits(used, obj[t])
    /\ used' = used + obj[t]
    /\ Goto(t, "insert")
    /\ UNCHANGED <<evictors, cursor, mu, shardVars, nsVars,
                   mgr, key, obj, freed, shard, evictVars>>

\* Bigger than the whole ceiling: refused before anything is evicted.
ReserveRefuses(t) ==
    /\ pc[t] = "reserve" /\ mu = NoThread
    /\ ~Fits(used, obj[t]) /\ obj[t] > Limit
    /\ Goto(t, "invalidate")
    /\ UNCHANGED <<budgetVars, shardVars, nsVars,
                   mgr, key, obj, freed, shard, evictVars>>

\* Mutant: an object above the ceiling is not refused first.
EvictsForAnything(t) ==
    /\ pc[t] = "reserve" /\ mu = NoThread
    /\ ~Fits(used, obj[t])
    /\ mu' = t
    /\ Goto(t, "reclaim")
    /\ UNCHANGED <<used, evictors, cursor, shardVars, nsVars,
                   mgr, key, obj, freed, shard, evictVars>>

ReserveEvicts(t) ==
    /\ pc[t] = "reserve" /\ mu = NoThread
    /\ ~Fits(used, obj[t]) /\ obj[t] <= Limit
    /\ mu' = t
    /\ Goto(t, "reclaim")
    /\ UNCHANGED <<used, evictors, cursor, shardVars, nsVars,
                   mgr, key, obj, freed, shard, evictVars>>

\* The loop of Reserve: ask the Manager under the cursor ...
ReclaimAsks(t) ==
    /\ pc[t] = "reclaim"
    /\ exhausted < Len(evictors)
    /\ cursor' = (cursor + 1) % Len(evictors)
    /\ BeginEvictOldest(t, evictors[cursor + 1], "Reserve")
    /\ UNCHANGED <<used, evictors, mu, shardVars, nsVars,
                   mgr, key, obj, freed, exhausted>>

\* ... until all of them have refused in a row.
ReclaimGivesUp(t) ==
    /\ pc[t] = "reclaim"
    /\ exhausted >= Len(evictors)
    /\ Goto(t, "invalidate")
    /\ Unlock
    /\ UNCHANGED <<used, evictors, cursor, shardVars, nsVars,
                   mgr, key, obj, freed, shard>>

\* Mutant: the bytes of the entry that is replaced stay counted.
GrownBy(b, n, replaced) == b + n

\* shard.bytes += size - replaced, clamped at zero
ShardBytesAfter(b, n, replaced) == Minus(b + n, replaced)

\* Mutant: the replaced bytes are never released.
InsertKeepsReplaced(t) ==
    /\ pc[t] = "insert"
    /\ cached' = cached \cup {<<mgr[t], key[t]>>}
    /\ size' = [size EXCEPT ![<<mgr[t], key[t]>>] = obj[t]]
    /\ bytes' = [bytes EXCEPT ![<<mgr[t], ShardOf[key[t]]>>] =
                   ShardBytesAfter(@, obj[t], size[<<mgr[t], key[t]>>])]
    /\ ToFront(mgr[t], key[t])
    /\ Return(t)
    /\ UNCHANGED <<budgetVars, nsVars, evictVars>>

\* The reserved bytes become an entry, new or in place of the old one.
Insert(t) ==
    LET x == <<mgr[t], key[t]>>
        y == <<mgr[t], ShardOf[key[t]]>>
    IN
    /\ pc[t] = "insert"
    /\ cached' = cached \cup {x}
    /\ size' = [size EXCEPT ![x] = obj[t]]
    /\ bytes' = [bytes EXCEPT ![y] = ShardBytesAfter(@, obj[t], size[x])]
    /\ ToFront(mgr[t], key[t])
    /\ IF size[x] > 0
       THEN /\ freed' = [freed EXCEPT ![t] = size[x]]
            /\ Goto(t, "release")
            /\ UNCHANGED <<mgr, key, obj, shard>>
       ELSE Return(t)
    /\ UNCHANGED <<budgetVars, nsVars, evictVars>>
-----------------------------------------------------------------------------
(* EvictOldest, in the hands of the thread that holds Budget.mu.           *)

\* One read-locked shard.  LastAccessed times of different shards are not
\* ordered in the model: the back of this shard may or may not be older.
ScanShard(t) ==
    /\ pc[t] = "scan"
    /\ \/ /\ best # NoKey \/ Back(target, shard[t]) = {}
          /\ best' = best
       \/ best' \in Back(target, shard[t])
    /\ IF shard[t] < NumShards
       THEN shard' = [shard EXCEPT ![t] = @ + 1] /\ UNCHANGED pc
       ELSE shard' = [shard EXCEPT ![t] = 1] /\ Goto(t, "evict")
    /\ UNCHANGED <<budgetVars, shardVars, nsVars, mgr, key, obj, freed,
                   caller, target, attempt, exhausted>>

\* The element was taken out since it was found: scan again, three times in all.
EvictRetry(t) ==
    /\ pc[t] = "evict"
    /\ best = Stale /\ attempt < 3
    /\ attempt' = attempt + 1
    /\ best' = NoKey
    /\ Goto(t, "scan")
    /\ UNCHANGED <<budgetVars, shardVars, nsVars, mgr, key, obj, freed, shard,
                   caller, target, exhausted>>

\* ok == true: the entry goes and the caller subtracts what it held.
EvictFrees(t) ==
    LET x == <<target, best>>
        u == Minus(used, size[x])
    IN
    /\ pc[t] = "evict"
    /\ best \in Keys
    /\ Drop({x})
    /\ \/ /\ caller = "Unregister"
          /\ used' = u
          /\ BeginEvictOldest(t, target, caller)
          /\ UNCHANGED <<mu, exhausted>>
       \/ /\ caller = "Reserve" /\ Fits(u, obj[t])
          /\ used' = u + obj[t]
          /\ Goto(t, "insert")
          /\ Unlock
          /\ UNCHANGED shard
       \/ /\ caller = "Reserve" /\ ~Fits(u, obj[t])
          /\ used' = u
          /\ Goto(t, "reclaim")
          /\ exhausted' = 0
          /\ target' = NoManager /\ attempt' = 1 /\ best' = NoKey
          /\ UNCHANGED <<mu, shard, caller>>
    /\ UNCHANGED <<evictors, cursor, nsVars, mgr, key, obj, freed>>

EvictFails == best = NoKey \/ (best = Stale /\ attempt = 3)

\* Mutant: a Manager that refuses is not counted.
RefusalNotCounted(t) ==
    /\ pc[t] = "evict" /\ caller = "Reserve"
    /\ EvictFails
    /\ Goto(t, "reclaim")
    /\ target' = NoManager /\ attempt' = 1 /\ best' = NoKey
    /\ UNCHANGED <<budgetVars, shardVars, nsVars, mgr, key, obj, freed, shard, caller,
                   exhausted>>

\* ok == false in Reserve: one more Manager in a row had nothing.
EvictFailsReserve(t) ==
    /\ pc[t] = "evict" /\ caller = "Reserve"
    /\ EvictFails
    /\ exhausted' = exhausted + 1
    /\ Goto(t, "reclaim")
    /\ target' = NoManager /\ attempt' = 1 /\ best' = NoKey
    /\ UNCHANGED <<budgetVars, shardVars, nsVars, mgr, key, obj, freed, shard, caller>>

\* Removal of evictors[i] (1-based) and the cursor that goes with the rest.
WithoutIndex(s, i) == [j \in 1..(Len(s) - 1) |-> IF j < i THEN s[j] ELSE s[j + 1]]

CursorNotMoved(i, n) == IF n = 0 THEN 0 ELSE cursor % n
CursorNotWrapped(i, n) == IF cursor > i - 1 THEN cursor - 1 ELSE cursor

CursorAfter(i, n) ==
    LET c == IF cursor > i - 1 THEN cursor - 1 ELSE cursor
    IN IF n = 0 THEN 0 ELSE IF c >= n THEN c % n ELSE c

\* ok == false in Unregister: the drain is over, the Manager leaves the list.
EvictFailsUnregister(t) ==
    /\ pc[t] = "evict" /\ caller = "Unregister"
    /\ EvictFails
    /\ \E i \in DOMAIN evictors :
         /\ evictors[i] = target
         /\ \A j \in 1..(i - 1) : evictors[j] # target
         /\ evictors' = WithoutIndex(evictors, i)
         /\ cursor' = CursorAfter(i, Len(evictors) - 1)
    /\ Unlock
    /\ Return(t)
    /\ UNCHANGED <<used, shardVars, nsVars>>
-----------------------------------------------------------------------------
(* Invalidation, ownership purge, Release.                                 *)

\* Delete, a failed Put or Get, and the refusals of admit.
Invalidate(t, m, k) ==
    LET x == <<m, k>> IN
    /\ \/ Calls(t, m)
       \/ pc[t] = "invalidate" /\ mgr[t] = m /\ key[t] = k
    /\ Drop({x} \cap cached)
    /\ ForgetBest({x})
    /\ IF size[x] > 0
       THEN /\ freed' = [freed EXCEPT ![t] = size[x]]
            /\ mgr' = [mgr EXCEPT ![t] = m]
            /\ key' = [key EXCEPT ![t] = k]
            /\ Goto(t, "release")
            /\ UNCHANGED <<obj, shard>>
       ELSE Return(t)
    /\ UNCHANGED <<budgetVars, nsVars, caller, target, attempt, exhausted>>

PurgeIf(t, m) ==
    /\ Calls(t, m)
    /\ Goto(t, "purge")
    /\ mgr' = [mgr EXCEPT ![t] = m]
    /\ UNCHANGED <<budgetVars, shardVars, nsVars, key, obj, freed, shard, evictVars>>

\* One shard of PurgeIf.  The predicate asks the hash ring, which may change
\* while the purge runs: any subset of the entries may satisfy it.
PurgeShard(t) ==
    /\ pc[t] = "purge"
    /\ \E D \in SUBSET (cached \cap InShard(mgr[t], shard[t])) :
         LET f == freed[t] + Bytes(Part(size, D)) IN
         /\ Drop(D)
         /\ ForgetBest(D)
         /\ \/ /\ shard[t] < NumShards
               /\ shard' = [shard EXCEPT ![t] = @ + 1]
               /\ freed' = [freed EXCEPT ![t] = f]
               /\ UNCHANGED <<pc, mgr, key, obj>>
            \/ /\ shard[t] = NumShards /\ f > 0
               /\ shard' = [shard EXCEPT ![t] = 1]
               /\ freed' = [freed EXCEPT ![t] = f]
               /\ Goto(t, "release")
               /\ UNCHANGED <<mgr, key, obj>>
            \/ /\ shard[t] = NumShards /\ f = 0
               /\ Return(t)
    /\ UNCHANGED <<budgetVars, nsVars, caller, target, attempt, exhausted>>

Release(t) ==
    /\ pc[t] = "release" /\ mu = NoThread
    /\ used' = Minus(used, freed[t])
    /\ Return(t)
    /\ UNCHANGED <<evictors, cursor, mu, shardVars, nsVars, evictVars>>
-----------------------------------------------------------------------------
\* The steps that wait for Budget.mu, and those that never wait.
Acquire(t) ==
    \/ UnregisterFound(t) \/ UnregisterUnknown(t)
    \/ ReserveFits(t) \/ ReserveRefuses(t) \/ ReserveEvicts(t)
    \/ Release(t)

Proceed(t) ==
    \/ ReclaimAsks(t) \/ ReclaimGivesUp(t)
    \/ ScanShard(t) \/ EvictRetry(t) \/ EvictFrees(t)
    \/ EvictFailsReserve(t) \/ EvictFailsUnregister(t)
    \/ Insert(t)
    \/ pc[t] = "invalidate" /\ \E m \in Managers, k \in Keys : Invalidate(t, m, k)
    \/ PurgeShard(t)

Next ==
    \/ \E m \in Managers : Register(m) \/ \E k \in Keys : Touch(m, k)
    \/ \E t \in Threads :
         \/ \E m \in Managers : Close(t, m) \/ PurgeIf(t, m)
         \/ \E m \in Managers, k \in Keys :
              Invalidate(t, m, k) \/ \E n \in Sizes : Admit(t, m, k, n)
         \/ Acquire(t)
         \/ Proceed(t)

Spec == Init /\ [][Next]_vars

\* A running goroutine keeps running, and a waiter of a Go mutex that is
\* unlocked again and again gets it (starvation mode of sync.Mutex).
Fairness == \A t \in Threads : WF_vars(Proceed(t)) /\ SF_vars(Acquire(t))

FairSpec == Spec /\ Fairness
-----------------------------------------------------------------------------
(* Properties.                                                             *)

\* Budget.mu is held exactly by the thread inside an eviction loop, an
\* EvictOldest runs only under it and on a Manager, an operation knows its
\* Manager and its key until it returns, bytes wait for Release only in a
\* purge or just before that Release, and what is not cached has no size.
LockDiscipline ==
    /\ \A t \in Threads :
         /\ pc[t] \in {"reclaim", "scan", "evict"} <=> mu = t
         /\ pc[t] # "idle" => mgr[t] \in Managers
         /\ pc[t] \in {"reserve", "reclaim", "insert", "invalidate"} => key[t] \in Keys
         /\ mu = t /\ caller = "Reserve" => key[t] \in Keys
         /\ pc[t] \in {"scan", "evict"} => target \in Managers
         /\ pc[t] = "reclaim" => caller = "Reserve"
         /\ pc[t] \notin {"purge", "release"} => freed[t] = 0
    /\ mu = NoThread => caller = "Reserve"
    /\ \A x \in Slots \ cached : size[x] = 0

\* Bytes a successful Reserve has charged and Insert has not yet stored.
Reserved == [t \in Threads |-> IF pc[t] = "insert" THEN obj[t] ELSE 0]

\* Every byte the Budget has accounted for is in exactly one place: in a
\* cached entry, in an admission between Reserve and the insertion, or in a
\* drop whose Release is still to come.  So Used() never drifts, whatever
\* evictions, purges, replacements and Unregister drains overlap, and the
\* clamps at zero in Reserve, Release and Unregister never hide a mistake.
EveryByteChargedOnce ==
    used = Bytes(size) + Bytes(Reserved) + Bytes(freed)

\* All Managers together never hold or are about to hold more bytes than the
\* process ceiling, even while entries are replaced (Reserve runs before the
\* replaced bytes are released) and while several threads admit at once.
CeilingHonoured ==
    Limit > 0 => Bytes(size) + Bytes(Reserved) <= Limit

\* cacheShard.bytes, which GetCacheSize reports, is the sum of the sizes of
\* the entries of the shard after any mix of admit, replace, evict and purge.
ShardBytesExact ==
    \A m \in Managers, s \in Shards :
        bytes[<<m, s>>] = Bytes(Part(size, InShard(m, s)))

\* Reserve takes entries away from other namespaces only for an object that
\* can fit and does not fit yet: at every moment of its eviction loop the
\* object is within the ceiling and there is no room for it.
EvictsOnlyUnderPressure ==
    \A t \in Threads :
        mu = t /\ caller = "Reserve" => obj[t] <= Limit /\ Limit < used + obj[t]

\* The cursor that Reserve indexes evictors with is in range whenever there
\* is an evictor, however Register and Unregister have changed the list, and
\* back at the start when there is none.
CursorInRange == IF evictors = <<>> THEN cursor = 0 ELSE cursor < Len(evictors)

\* A Manager that is closed while no operation runs on it leaves no entry
\* behind: Unregister drains it completely even though other Managers admit,
\* evict and purge meanwhile.
QuietCloseLeavesNothing ==
    \A m \in quiet \ open : ~Busy(m) => \A k \in Keys : <<m, k>> \notin cached

\* Unregister neither skips nor repeats a survivor's turn: the Manager that
\* was to be asked next is still next, or its successor when it is the one
\* that left.
RoundRobinKeepsTurn ==
    [][Len(evictors') < Len(evictors) /\ evictors' # <<>> =>
         LET next == evictors[cursor + 1]
             succ == evictors[((cursor + 1) % Len(evictors)) + 1]
         IN evictors'[cursor' + 1] = IF next = target THEN succ ELSE next]_vars

\* Every admit, Invalidate, PurgeIf and Unregister that starts returns: no
\* wait cycle between Budget.mu and the shard locks, and no eviction loop
\* without end.
EveryCallReturns == \A t \in Threads : pc[t] # "idle" ~> pc[t] = "idle"
=============================================================================
