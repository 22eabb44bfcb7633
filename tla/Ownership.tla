----------------------------- MODULE Ownership -----------------------------
(***************************************************************************)
(* One node's database (pkg/db/db.go) in a cluster whose ring moves: every *)
(* operation first reconciles the cache with the generation of the ring    *)
(* (reconcileOwnership), then goes to the owner of its key, this node or   *)
(* another one.  GetRaw, PutRaw and DeleteRaw are what peers forward here; *)
(* they do not look at the ring.                                           *)
(*                                                                         *)
(* The ring is its generation and, for every key, whether this node owns   *)
(* it: NewNode puts the node into its ring and no event takes it out, so   *)
(* GetNode never answers "".  The other nodes are WriteElsewhere.  Module  *)
(* CacheManager has the detail of the cache (singleflight, the TTL), and   *)
(* ListCache that of the listings, which a reconcile drops as well.        *)
(* Storage holds the version of a key, 0 when it has none.                 *)
(***************************************************************************)
EXTENDS Integers, FiniteSets

CONSTANTS
    Keys,
    Threads,        \* goroutines of this node
    NoThread,       \* reconcileMu is free
    NoItem,         \* not cached
    MaxGeneration,  \* bound on the changes of the ring
    MaxVersion      \* bound on the writes

ASSUME OwnershipAssumption == Keys # {} /\ NoThread \notin Threads /\ NoItem \notin Nat

VARIABLES
    generation,     \* ring.Generation()
    mine,           \* keys this node owns in that generation
    reconciledGen,
    mutex,          \* who holds reconcileMu
    store, version, \* cold storage, and the last version written
    item,           \* cached version, or NoItem
    \* locals of a goroutine
    pc, op, key, raw,
    gen,            \* the generation reconcileOwnership has read
    left,           \* keys PurgeIf has yet to visit
    val,
    \* history
    raced,          \* keys written while an older admission was outstanding, or
                    \* elsewhere while this node was the owner
    stray           \* keys admitted here while another node was the owner

vars == <<generation, mine, reconciledGen, mutex, store, version, item, pc, op, key, raw,
          gen, left, val, raced, stray>>
ringVars    == <<generation, mine>>
storeVars   == <<store, version>>
cacheVars   == <<item, raced, stray>>
requestVars == <<op, key, raw>>

Init ==
    /\ generation = 1 /\ mine = Keys
    /\ reconciledGen = 0
    /\ mutex = NoThread
    /\ store = [k \in Keys |-> 0] /\ version = 0
    /\ item = [k \in Keys |-> NoItem]
    /\ pc = [t \in Threads |-> "idle"]
    /\ op = [t \in Threads |-> "none"]
    /\ key = [t \in Threads |-> CHOOSE k \in Keys : TRUE]
    /\ raw = [t \in Threads |-> FALSE]
    /\ gen = [t \in Threads |-> 0]
    /\ left = [t \in Threads |-> {}]
    /\ val = [t \in Threads |-> 0]
    /\ raced = {} /\ stray = {}

Goto(t, l) == pc' = [pc EXCEPT ![t] = l]

\* The operation of t is over, and so are its locals.
Return(t) ==
    /\ Goto(t, "idle")
    /\ op' = [op EXCEPT ![t] = "none"]
    /\ key' = [key EXCEPT ![t] = CHOOSE k \in Keys : TRUE]
    /\ raw' = [raw EXCEPT ![t] = FALSE]
    /\ val' = [val EXCEPT ![t] = 0]

\* reconcileOwnership is over.
Reconciled(t) ==
    /\ Goto(t, "route")
    /\ gen' = [gen EXCEPT ![t] = 0]

\* Goroutines that hold a version of k which they will store.
Admitting(k) == {t \in Threads : pc[t] = "admit" /\ key[t] = k}

\* The entry of k goes.
Dropped(t, k) ==
    /\ item' = [item EXCEPT ![k] = NoItem]
    /\ raced' = IF Admitting(k) \ {t} = {} THEN raced \ {k} ELSE raced
    /\ stray' = stray \ {k}

\* Storage applies a write of k.
Written(t, k, v) ==
    /\ store' = [store EXCEPT ![k] = v]
    /\ version' = version + 1
    /\ raced' = IF Admitting(k) \ {t} # {} THEN raced \cup {k} ELSE raced

-----------------------------------------------------------------------------
(* The rest of the cluster.                                                *)

\* A node joins or leaves: AddNode, RemoveNode.
RingMoves(owned) ==
    /\ generation < MaxGeneration
    /\ generation' = generation + 1
    /\ mine' = owned
    /\ UNCHANGED <<reconciledGen, mutex, storeVars, cacheVars, pc, requestVars, gen, left, val>>

\* Another node writes or deletes k in storage.
AppliedElsewhere(k) ==
    /\ version < MaxVersion
    /\ version' = version + 1
    /\ \E v \in {0, version + 1} : store' = [store EXCEPT ![k] = v]
    /\ raced' = IF k \in mine \/ Admitting(k) # {} THEN raced \cup {k} ELSE raced

WriteElsewhere(k) ==
    /\ AppliedElsewhere(k)
    /\ UNCHANGED <<ringVars, reconciledGen, mutex, item, pc, requestVars, gen, left, val, stray>>
-----------------------------------------------------------------------------
(* reconcileOwnership.                                                     *)

\* An operation, or its Raw form, starts and reads the generation.
Begin(t, o, k, r) ==
    /\ pc[t] = "idle"
    /\ op' = [op EXCEPT ![t] = o]
    /\ key' = [key EXCEPT ![t] = k]
    /\ raw' = [raw EXCEPT ![t] = r]
    /\ gen' = [gen EXCEPT ![t] = generation]
    /\ Goto(t, "check")
    /\ UNCHANGED <<ringVars, reconciledGen, mutex, storeVars, cacheVars, left, val>>

\* reconciledGen.Load() == gen, without the mutex.
Check(t) ==
    /\ pc[t] = "check"
    /\ IF reconciledGen = gen[t] THEN Reconciled(t) ELSE Goto(t, "lock") /\ UNCHANGED gen
    /\ UNCHANGED <<ringVars, reconciledGen, mutex, storeVars, cacheVars, requestVars, left, val>>

\* Mutant: the early return leaves the mutex locked.
LockKept(t) ==
    /\ pc[t] = "lock" /\ mutex = NoThread
    /\ mutex' = t
    /\ IF reconciledGen = gen[t]
       THEN Reconciled(t) /\ UNCHANGED left
       ELSE /\ Goto(t, IF gen[t] > reconciledGen + 1 THEN "purgeAll" ELSE "purge")
            /\ left' = [left EXCEPT ![t] = Keys]
            /\ UNCHANGED gen
    /\ UNCHANGED <<ringVars, reconciledGen, storeVars, cacheVars, requestVars, val>>

\* reconcileMu.Lock() and the second look.  reconciledGen only moves under the
\* mutex, so it is also what the goroutine goes on with.
Lock(t) ==
    /\ pc[t] = "lock" /\ mutex = NoThread
    /\ IF reconciledGen = gen[t]
       THEN Reconciled(t) /\ UNCHANGED <<mutex, left>>
       ELSE /\ mutex' = t
            /\ Goto(t, IF gen[t] > reconciledGen + 1 THEN "purgeAll" ELSE "purge")
            /\ left' = [left EXCEPT ![t] = Keys]
            /\ UNCHANGED gen
    /\ UNCHANGED <<ringVars, reconciledGen, storeVars, cacheVars, requestVars, val>>

\* PurgeIf reaches k and asks the ring as it is now.
PurgeMoved(t, k) ==
    /\ pc[t] = "purge" /\ k \in left[t]
    /\ IF k \notin mine THEN Dropped(t, k) ELSE UNCHANGED cacheVars
    /\ left' = [left EXCEPT ![t] = @ \ {k}]
    /\ UNCHANGED <<ringVars, reconciledGen, mutex, storeVars, pc, requestVars, gen, val>>

\* purgeEverything reaches k.
PurgeAny(t, k) ==
    /\ pc[t] = "purgeAll" /\ k \in left[t]
    /\ Dropped(t, k)
    /\ left' = [left EXCEPT ![t] = @ \ {k}]
    /\ UNCHANGED <<ringVars, reconciledGen, mutex, storeVars, pc, requestVars, gen, val>>

\* Mutant: a selective purge is taken at its word.
TrustPurge(t) ==
    /\ pc[t] = "purge" /\ left[t] = {}
    /\ Goto(t, "purgeAll")
    /\ UNCHANGED <<ringVars, reconciledGen, mutex, storeVars, cacheVars, requestVars, gen, left, val>>

\* Did the ring move underneath the selective purge?
GenerationCheck(t) ==
    /\ pc[t] = "purge" /\ left[t] = {}
    /\ Goto(t, "purgeAll")
    /\ left' = [left EXCEPT ![t] = IF generation # gen[t] THEN Keys ELSE {}]
    /\ UNCHANGED <<ringVars, reconciledGen, mutex, storeVars, cacheVars, requestVars, gen, val>>

\* reconciledGen.Store(gen) and the deferred Unlock.
Record(t) ==
    /\ pc[t] = "purgeAll" /\ left[t] = {}
    /\ reconciledGen' = gen[t]
    /\ mutex' = NoThread
    /\ Reconciled(t)
    /\ UNCHANGED <<ringVars, storeVars, cacheVars, requestVars, left, val>>
-----------------------------------------------------------------------------
(* The operation itself.                                                   *)

\* The ring is asked again; a Raw call is for this node whatever it says.
Route(t) ==
    /\ pc[t] = "route"
    /\ Goto(t, IF raw[t] \/ key[t] \in mine THEN "local" ELSE "forward")
    /\ UNCHANGED <<ringVars, reconciledGen, mutex, storeVars, cacheVars, requestVars, gen, left, val>>

\* ExecuteInterQuery.  The owner may apply a write whether or not its answer
\* arrives; without an answer a Get reads storage itself and caches nothing.
Forward(t) ==
    /\ pc[t] = "forward"
    /\ Return(t)
    /\ \/ UNCHANGED <<storeVars, raced>>
       \/ op[t] # "Get" /\ AppliedElsewhere(key[t])
    /\ UNCHANGED <<ringVars, reconciledGen, mutex, item, gen, left, stray>>

\* cacheMgr.Get
LocalGet(t) ==
    /\ pc[t] = "local" /\ op[t] = "Get"
    /\ IF item[key[t]] # NoItem THEN Return(t)
       ELSE Goto(t, "read") /\ UNCHANGED <<requestVars, val>>
    /\ UNCHANGED <<ringVars, reconciledGen, mutex, storeVars, cacheVars, gen, left>>

ColdRead(t) ==
    /\ pc[t] = "read"
    /\ val' = [val EXCEPT ![t] = store[key[t]]]
    /\ Goto(t, IF store[key[t]] = 0 THEN "invalidate" ELSE "admit")
    /\ UNCHANGED <<ringVars, reconciledGen, mutex, storeVars, cacheVars, requestVars, gen, left>>

\* cacheMgr.Put: the driver writes, or refuses the ETag.
LocalPut(t) ==
    /\ pc[t] = "local" /\ op[t] = "Put"
    /\ \/ /\ version < MaxVersion
          /\ Written(t, key[t], version + 1)
          /\ val' = [val EXCEPT ![t] = version + 1]
          /\ Goto(t, "admit")
       \/ /\ Goto(t, "invalidate")
          /\ UNCHANGED <<storeVars, raced, val>>
    /\ UNCHANGED <<ringVars, reconciledGen, mutex, item, requestVars, gen, left, stray>>

\* cacheMgr.Delete
LocalDelete(t) ==
    /\ pc[t] = "local" /\ op[t] = "Delete"
    /\ \/ version < MaxVersion /\ Written(t, key[t], 0)
       \/ UNCHANGED <<storeVars, raced>>
    /\ Goto(t, "invalidate")
    /\ UNCHANGED <<ringVars, reconciledGen, mutex, item, requestVars, gen, left, val, stray>>

Admit(t) ==
    /\ pc[t] = "admit"
    /\ item' = [item EXCEPT ![key[t]] = val[t]]
    /\ stray' = IF key[t] \in mine THEN stray ELSE stray \cup {key[t]}
    /\ Return(t)
    /\ UNCHANGED <<ringVars, reconciledGen, mutex, storeVars, gen, left, raced>>

Invalidate(t) ==
    /\ pc[t] = "invalidate"
    /\ Dropped(t, key[t])
    /\ Return(t)
    /\ UNCHANGED <<ringVars, reconciledGen, mutex, storeVars, gen, left>>

\* The cache budget takes an entry.
Evict(k) ==
    /\ item[k] # NoItem
    /\ Dropped(NoThread, k)
    /\ UNCHANGED <<ringVars, reconciledGen, mutex, storeVars, pc, requestVars, gen, left, val>>

Step(t) ==
    \/ Check(t) \/ Lock(t) \/ GenerationCheck(t) \/ Record(t) \/ Route(t) \/ Forward(t)
    \/ \E k \in Keys : PurgeMoved(t, k) \/ PurgeAny(t, k)
    \/ LocalGet(t) \/ ColdRead(t) \/ LocalPut(t) \/ LocalDelete(t) \/ Admit(t) \/ Invalidate(t)

Next ==
    \/ \E t \in Threads :
         \/ Step(t)
         \/ \E o \in {"Get", "Put", "Delete"}, k \in Keys, r \in BOOLEAN : Begin(t, o, k, r)
    \/ \E owned \in SUBSET Keys : RingMoves(owned)
    \/ \E k \in Keys : WriteElsewhere(k) \/ Evict(k)

Spec == Init /\ [][Next]_vars
-----------------------------------------------------------------------------
(* Properties.                                                             *)

\* No update of the entry of k is on its way.
Quiet(k) == \A t \in Threads : key[t] = k => pc[t] \notin {"admit", "invalidate"}

\* What the purge achieves: when the recorded generation is the ring's, every
\* entry is of a key this node owns and is what storage holds, however often
\* ownership moved away and back, through skipped generations, a ring that
\* moves during a purge and reconcilers with an old generation in hand, as
\* long as the operations themselves did not straddle the change.
PurgedWhenReconciled ==
    reconciledGen = generation =>
        \A k \in Keys \ (raced \cup stray) :
            item[k] # NoItem /\ Quiet(k) => k \in mine /\ item[k] = store[k]

\* Whoever queues on reconcileMu queues behind a goroutine that is at its
\* purge, never behind one that has left reconcileOwnership, early returns
\* included, or that waits itself; and only one purge runs at a time.
HolderIsPurging ==
    \A t \in Threads : mutex = t <=> pc[t] \in {"purge", "purgeAll"}
=============================================================================
