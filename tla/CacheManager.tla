---------------------------- MODULE CacheManager ----------------------------
(***************************************************************************)
(* The document cache of one database (pkg/cache/cache.go: Get, Put,       *)
(* Delete, admit, awaitCall) in front of a storage driver, with several    *)
(* goroutines at work on the same keys.                                    *)
(*                                                                         *)
(* An object is its version, which is also its ETag: every write makes a   *)
(* new one.  What the shared Budget and the ownership purge do to entries  *)
(* is the environment here (Evict, and an admission that may be refused);  *)
(* modules CacheBudget and Ownership have the detail.  The driver answers  *)
(* in one step but the goroutine goes on later; a call may also fail, with *)
(* or without having had its effect.                                       *)
(***************************************************************************)
EXTENDS Integers, FiniteSets, Storage

CONSTANTS
    Keys,
    Threads,      \* goroutines
    NoThread,     \* no call in sfCalls
    NoItem,       \* not cached
    MaxVersion,   \* bound on the writes explored
    MaxFaults     \* bound on the failures of the driver

ASSUME ManagerAssumption ==
    /\ NoThread \notin Threads
    /\ NoItem \notin Nat /\ NoItem # Absent /\ Keys # {}
    /\ MaxVersion \in Nat /\ MaxFaults \in Nat

VARIABLES
    store,      \* cold storage: the version of every key, or Absent
    version,    \* the last version written
    faults,     \* failures so far
    item,       \* cached version, or NoItem
    fresh,      \* LastAccessed is within the TTL
    sfCalls,    \* the leader of the registered call, or NoThread
    \* locals of a goroutine
    pc, op, key,
    val,        \* the object in hand, Absent after an error
    res,        \* how the last operation of the goroutine ended
    leader,     \* the leader of the call a waiter has joined
    \* history
    raced       \* keys that were written while an admission of what was there
                \* before was outstanding

vars == <<store, version, faults, item, fresh, sfCalls, pc, op, key, val, res, leader,
          raced>>
storeVars  == <<store, version, faults>>
cacheVars  == <<item, fresh>>
threadVars == <<pc, op, key, val, res, leader>>

Init ==
    /\ store = [k \in Keys |-> Absent]
    /\ version = 0
    /\ faults = 0
    /\ item = [k \in Keys |-> NoItem]
    /\ fresh = [k \in Keys |-> FALSE]
    /\ sfCalls = [k \in Keys |-> NoThread]
    /\ pc = [t \in Threads |-> "idle"]
    /\ op = [t \in Threads |-> "none"]
    /\ key = [t \in Threads |-> CHOOSE k \in Keys : TRUE]
    /\ val = [t \in Threads |-> Absent]
    /\ res = [t \in Threads |-> "none"]
    /\ leader = [t \in Threads |-> NoThread]
    /\ raced = {}
-----------------------------------------------------------------------------
(* Helpers.                                                                *)

\* Goroutines that will store what they read from or wrote to the driver.
Admitting(k) == {t \in Threads : pc[t] = "admit" /\ key[t] = k}

\* The call of t in sfCalls: from LoadOrStore to the deferred Delete.
Leading(t) == op[t] = "Get" /\ pc[t] \in {"read", "admit", "invalidate", "forget"}

Goto(t, l) == pc' = [pc EXCEPT ![t] = l]

\* After its cache update a leader runs its deferred function, the others return.
AfterUpdate(t) == IF op[t] = "Get" THEN "forget" ELSE "idle"

Fails == faults < MaxFaults /\ faults' = faults + 1
-----------------------------------------------------------------------------
(* Get.                                                                    *)

GetHit(t, k) ==
    /\ pc[t] = "idle"
    /\ item[k] # NoItem /\ fresh[k]
    /\ op' = [op EXCEPT ![t] = "Get"]
    /\ key' = [key EXCEPT ![t] = k]
    /\ val' = [val EXCEPT ![t] = item[k]]
    /\ res' = [res EXCEPT ![t] = "ok"]
    /\ UNCHANGED <<storeVars, cacheVars, sfCalls, pc, leader, raced>>

GetMiss(t, k) ==
    /\ pc[t] = "idle"
    /\ item[k] = NoItem \/ ~fresh[k]
    /\ Goto(t, "miss")
    /\ op' = [op EXCEPT ![t] = "Get"]
    /\ key' = [key EXCEPT ![t] = k]
    /\ UNCHANGED <<storeVars, cacheVars, sfCalls, val, res, leader, raced>>

\* Mutant: every miss registers its own call.
LeadAlways(t) ==
    /\ pc[t] = "miss"
    /\ sfCalls' = [sfCalls EXCEPT ![key[t]] = t]
    /\ Goto(t, "read")
    /\ UNCHANGED <<storeVars, cacheVars, op, key, val, res, leader, raced>>

\* LoadOrStore with loaded == false.
Lead(t) ==
    /\ pc[t] = "miss"
    /\ sfCalls[key[t]] = NoThread
    /\ sfCalls' = [sfCalls EXCEPT ![key[t]] = t]
    /\ Goto(t, "read")
    /\ UNCHANGED <<storeVars, cacheVars, op, key, val, res, leader, raced>>

\* LoadOrStore with loaded == true: wait for that call.
Join(t) ==
    /\ pc[t] = "miss"
    /\ sfCalls[key[t]] # NoThread
    /\ leader' = [leader EXCEPT ![t] = sfCalls[key[t]]]
    /\ Goto(t, "wait")
    /\ UNCHANGED <<storeVars, cacheVars, sfCalls, op, key, val, res, raced>>

\* ctx.Done() while waiting.
CancelWait(t) ==
    /\ pc[t] = "wait"
    /\ Goto(t, "idle")
    /\ leader' = [leader EXCEPT ![t] = NoThread]
    /\ val' = [val EXCEPT ![t] = Absent]
    /\ res' = [res EXCEPT ![t] = "error"]
    /\ UNCHANGED <<storeVars, cacheVars, sfCalls, op, key, raced>>

\* driver.Get of the leader.
ColdRead(t) ==
    /\ pc[t] = "read"
    /\ val' = [val EXCEPT ![t] = store[key[t]]]
    /\ IF store[key[t]] # Absent
       THEN /\ Goto(t, "admit")
            /\ res' = [res EXCEPT ![t] = "ok"]
       ELSE /\ Goto(t, "invalidate")
            /\ res' = [res EXCEPT ![t] = "ErrNotFound"]
    /\ UNCHANGED <<storeVars, cacheVars, sfCalls, op, key, leader, raced>>

ColdReadFails(t) ==
    /\ pc[t] = "read" /\ Fails
    /\ val' = [val EXCEPT ![t] = Absent]
    /\ Goto(t, "invalidate")
    /\ res' = [res EXCEPT ![t] = "error"]
    /\ UNCHANGED <<store, version, cacheVars, sfCalls, op, key, leader, raced>>

\* The deferred function: sfCalls.Delete, then close(call.done), which hands
\* the result to everyone who has joined.
Forget(t) ==
    /\ pc[t] = "forget"
    /\ sfCalls' = [sfCalls EXCEPT ![key[t]] = NoThread]
    /\ Goto(t, "close")
    /\ UNCHANGED <<storeVars, cacheVars, op, key, val, res, leader, raced>>

\* Mutant: only a read that went well wakes the waiters.
CloseOnSuccess(t) ==
    LET W == {u \in Threads : res[t] = "ok" /\ pc[u] = "wait" /\ leader[u] = t} IN
    /\ pc[t] = "close"
    /\ pc' = [u \in Threads |-> IF u \in W \cup {t} THEN "idle" ELSE pc[u]]
    /\ val' = [u \in Threads |-> IF u \in W THEN val[t] ELSE val[u]]
    /\ res' = [u \in Threads |-> IF u \in W THEN res[t] ELSE res[u]]
    /\ leader' = [u \in Threads |-> IF u \in W THEN NoThread ELSE leader[u]]
    /\ UNCHANGED <<storeVars, cacheVars, sfCalls, op, key, raced>>

CloseCall(t) ==
    LET W == {u \in Threads : pc[u] = "wait" /\ leader[u] = t} IN
    /\ pc[t] = "close"
    /\ pc' = [u \in Threads |-> IF u \in W \cup {t} THEN "idle" ELSE pc[u]]
    /\ val' = [u \in Threads |-> IF u \in W THEN val[t] ELSE val[u]]
    /\ res' = [u \in Threads |-> IF u \in W THEN res[t] ELSE res[u]]
    /\ leader' = [u \in Threads |-> IF u \in W THEN NoThread ELSE leader[u]]
    /\ UNCHANGED <<storeVars, cacheVars, sfCalls, op, key, raced>>
-----------------------------------------------------------------------------
(* The cache update that ends every operation.                             *)

\* The entry goes.  Once nothing older is outstanding the key is clean again.
Dropped(t, k) ==
    /\ item' = [item EXCEPT ![k] = NoItem]
    /\ fresh' = [fresh EXCEPT ![k] = FALSE]
    /\ raced' = IF Admitting(k) \ {t} = {} THEN raced \ {k} ELSE raced

\* admit: stored with a new LastAccessed, or refused (too large, no room in
\* the budget), and then nothing stays cached under the key.
Admit(t) ==
    /\ pc[t] = "admit"
    /\ \/ /\ item' = [item EXCEPT ![key[t]] = val[t]]
          /\ fresh' = [fresh EXCEPT ![key[t]] = TRUE]
          /\ UNCHANGED raced
       \/ Dropped(t, key[t])
    /\ Goto(t, AfterUpdate(t))
    /\ UNCHANGED <<storeVars, sfCalls, op, key, val, res, leader>>

\* Mutant: a failed operation leaves the cache alone.
InvalidateNothing(t) ==
    /\ pc[t] = "invalidate"
    /\ Goto(t, AfterUpdate(t))
    /\ UNCHANGED <<storeVars, cacheVars, sfCalls, op, key, val, res, leader, raced>>

Invalidate(t) ==
    /\ pc[t] = "invalidate"
    /\ Dropped(t, key[t])
    /\ Goto(t, AfterUpdate(t))
    /\ UNCHANGED <<storeVars, sfCalls, op, key, val, res, leader>>
-----------------------------------------------------------------------------
(* Put and Delete.                                                         *)

\* The driver has applied a write of t to k.
Written(t, k, v) ==
    /\ store' = [store EXCEPT ![k] = v]
    /\ raced' = IF Admitting(k) \ {t} # {} THEN raced \cup {k} ELSE raced

Begins(t, o, k, l, v, r) ==
    /\ pc[t] = "idle"
    /\ Goto(t, l)
    /\ op' = [op EXCEPT ![t] = o]
    /\ key' = [key EXCEPT ![t] = k]
    /\ val' = [val EXCEPT ![t] = v]
    /\ res' = [res EXCEPT ![t] = r]
    /\ UNCHANGED <<cacheVars, sfCalls, leader>>

\* driver.Put.  After an error the entry is dropped: the write may have been
\* applied all the same.
Put(t, k, expected) ==
    LET answer == PutAnswer(store[k], expected) IN
    /\ version < MaxVersion
    /\ \/ /\ answer = "ok"
          /\ version' = version + 1
          /\ Written(t, k, version + 1)
          /\ Begins(t, "Put", k, "admit", version + 1, "ok")
          /\ UNCHANGED faults
       \/ /\ answer # "ok"
          /\ Begins(t, "Put", k, "invalidate", Absent, answer)
          /\ UNCHANGED <<storeVars, raced>>
       \/ /\ Fails
          /\ Begins(t, "Put", k, "invalidate", Absent, "error")
          /\ \/ UNCHANGED <<store, version, raced>>
             \/ answer = "ok" /\ version' = version + 1 /\ Written(t, k, version + 1)

\* Mutant: Delete leaves the entry in the cache.
DeleteKeepsEntry(t, k, expected) ==
    LET answer == DeleteAnswer(store[k], expected) IN
    /\ Begins(t, "Delete", k, "idle", Absent, answer)
    /\ IF answer = "ok" THEN Written(t, k, Absent) ELSE UNCHANGED <<store, raced>>
    /\ UNCHANGED <<version, faults>>

\* driver.Delete; the entry is dropped whatever the answer.
Delete(t, k, expected) ==
    LET answer == DeleteAnswer(store[k], expected) IN
    \/ /\ Begins(t, "Delete", k, "invalidate", Absent, answer)
       /\ IF answer = "ok" THEN Written(t, k, Absent) ELSE UNCHANGED <<store, raced>>
       /\ UNCHANGED <<version, faults>>
    \/ /\ Fails
       /\ Begins(t, "Delete", k, "invalidate", Absent, "error")
       /\ \/ UNCHANGED <<store, raced>>
          \/ answer = "ok" /\ Written(t, k, Absent)
       /\ UNCHANGED version
-----------------------------------------------------------------------------
(* The environment of the cache.                                           *)

\* The budget or an ownership purge takes the entry.
Evict(k) ==
    /\ item[k] # NoItem
    /\ Dropped(NoThread, k)
    /\ UNCHANGED <<storeVars, sfCalls, threadVars>>

\* Nobody has read the entry for the length of the TTL.  It stays.
Expire(k) ==
    /\ fresh[k]
    /\ fresh' = [fresh EXCEPT ![k] = FALSE]
    /\ UNCHANGED <<storeVars, item, sfCalls, threadVars, raced>>

\* Steps of a goroutine inside an operation.
Step(t) ==
    \/ Lead(t) \/ Join(t) \/ ColdRead(t) \/ ColdReadFails(t)
    \/ Admit(t) \/ Invalidate(t) \/ Forget(t) \/ CloseCall(t)

ETags == {NoETag, MatchAny} \cup 1..version

Next ==
    \/ \E t \in Threads :
         \/ Step(t) \/ CancelWait(t)
         \/ \E k \in Keys :
              \/ GetHit(t, k) \/ GetMiss(t, k)
              \/ \E e \in ETags : Put(t, k, e) \/ Delete(t, k, e)
    \/ \E k \in Keys : Evict(k) \/ Expire(k)

Spec == Init /\ [][Next]_vars

\* A goroutine that is not waiting for another one keeps running, and a
\* driver call returns.
FairSpec == Spec /\ \A t \in Threads : WF_vars(Step(t))
-----------------------------------------------------------------------------
(* Properties.                                                             *)

\* Types of the state.
TypeOK ==
    /\ store \in [Keys -> Nat \cup {Absent}]
    /\ version \in 0..MaxVersion
    /\ faults \in 0..MaxFaults
    /\ item \in [Keys -> Nat \cup {NoItem}]
    /\ fresh \in [Keys -> BOOLEAN]
    /\ sfCalls \in [Keys -> Threads \cup {NoThread}]
    /\ pc \in [Threads -> {"idle", "miss", "wait", "read", "admit", "invalidate",
                           "forget", "close"}]
    /\ op \in [Threads -> {"none", "Get", "Put", "Delete"}]
    /\ key \in [Threads -> Keys]
    /\ val \in [Threads -> Nat \cup {Absent}]
    /\ res \in [Threads -> {"none", "ok", "error", "ErrNotFound", "ErrAlreadyExists",
                            "ErrVersionMismatch"}]
    /\ leader \in [Threads -> Threads \cup {NoThread}]
    /\ raced \subseteq Keys

\* At any time at most one Get of a key is between LoadOrStore and the end of
\* its cold read, and it is the one sfCalls names: no two cold reads of a key
\* ever run side by side, and the deferred Delete, which goes by key alone,
\* never removes somebody else's call.
OneLeaderPerKey ==
    \A t \in Threads, k \in Keys :
        (Leading(t) /\ key[t] = k) <=> sfCalls[k] = t

\* A waiter's call is still on its way: its leader reads the same key and has
\* yet to close the channel, on the error paths too.
NobodyWaitsInVain ==
    \A t \in Threads : pc[t] = "wait" =>
        /\ leader[t] \in Threads
        /\ key[leader[t]] = key[t]
        /\ Leading(leader[t]) \/ pc[leader[t]] = "close"

\* What the cache guarantees: once the updates of the operations on a key are
\* done, its entry is what storage holds, after any mix of writes, deletes,
\* conflicts, failures with unknown outcome, refusals and evictions, unless a
\* write overtook an older admission.
CoherentUnlessRaced ==
    \A k \in Keys :
        k \notin raced /\ (\A t \in Threads : key[t] = k => pc[t] \notin {"admit", "invalidate"})
            => item[k] \in {NoItem, store[k]}

\* Every operation returns: waiters are woken, leaders do not get stuck.
EveryOperationReturns == \A t \in Threads : pc[t] # "idle" ~> pc[t] = "idle"
=============================================================================
