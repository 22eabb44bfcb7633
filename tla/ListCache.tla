----------------------------- MODULE ListCache -----------------------------
(***************************************************************************)
(* The cache of listing pages (pkg/cache/list_cache.go) in front of a      *)
(* storage driver, with goroutines that list and goroutines that write:    *)
(* a write of the database reaches the driver first and calls              *)
(* InvalidateKey afterwards (pkg/db/db.go).                                *)
(*                                                                         *)
(* Keys, prefixes and cursors are sequences of symbols, one of which is    *)
(* "|".  A page is a ListCacheKey; what the driver lists for it is the     *)
(* versions of the documents under its prefix (the window that cursor and  *)
(* limit cut out of them is module Listing's subject).                     *)
(***************************************************************************)
EXTENDS Integers, Sequences, FiniteSets, Slices

CONSTANTS
    Docs,         \* document keys
    Pages,        \* listing queries, records with prefix, cursor and limit
    Threads,      \* goroutines
    NoThread,     \* no call in sfCalls
    NoPage,       \* nothing cached
    MaxPages,     \* ListConfig.MaxPages
    MaxWrites,    \* bound on the writes explored
    MaxFaults     \* bound on the failures of the driver

VARIABLES
    store,      \* version of every document
    faults,     \* failures so far
    items,      \* cached pages by map key: [page, val, fresh], or NoPage
    lru,        \* map keys of the cached pages, most recently used first
    sfCalls,    \* the leader of the registered call by map key, or NoThread
    \* locals of a goroutine
    pc, page, doc,
    val,        \* the listing in hand
    leader,     \* the leader of the call a waiter has joined
    entry,      \* what became of the entry that a hit reads after the unlock:
                \* "same", "gone" (out of the map, never written again), "expired"
                \* or "rewritten"
    \* history
    raced,      \* map keys whose listing was overtaken by a write
    burst       \* driver.List calls in one burst of overlapping misses

vars == <<store, faults, items, lru, sfCalls, pc, page, doc, val, leader, entry, raced, burst>>
cacheVars == <<items, lru>>
-----------------------------------------------------------------------------
(* Queries.                                                                *)

\* ListCacheKey.String()
String(p) == p.prefix \o <<"|">> \o p.cursor \o <<"|">> \o p.limit

MapKeys == {String(p) : p \in Pages}

\* strings.HasPrefix
HasPrefix(s, prefix) == Len(prefix) <= Len(s) /\ SubSeq(s, 1, Len(prefix)) = prefix

\* The documents that driver.List finds under a prefix.
Under(prefix) == {d \in Docs : HasPrefix(d, prefix)}

\* What a listing may return.
Listings == UNION {[Under(p.prefix) -> 0..MaxWrites] : p \in Pages}

ASSUME ListCacheAssumption ==
    /\ MaxPages \in Nat \ {0} /\ MaxWrites \in Nat
    /\ NoThread \notin Threads
    /\ NoPage \notin [page : Pages, val : Listings, fresh : BOOLEAN]

\* driver.List
List(p) == [d \in Under(p.prefix) |-> store[d]]

Init ==
    /\ store = [d \in Docs |-> 0]
    /\ faults = 0
    /\ items = [m \in MapKeys |-> NoPage]
    /\ lru = <<>>
    /\ sfCalls = [m \in MapKeys |-> NoThread]
    /\ pc = [t \in Threads |-> "idle"]
    /\ page = [t \in Threads |-> NoPage]
    /\ doc = [t \in Threads |-> <<>>]
    /\ val = [t \in Threads |-> NoPage]
    /\ leader = [t \in Threads |-> NoThread]
    /\ entry = [t \in Threads |-> "gone"]
    /\ raced = {}
    /\ burst = [m \in MapKeys |-> 0]
-----------------------------------------------------------------------------
(* Helpers.                                                                *)

Goto(t, l) == pc' = [pc EXCEPT ![t] = l]

Cached(m) == items[m] # NoPage
Hit(m) == Cached(m) /\ items[m].fresh

\* Goroutines that listed for m and will store the result.
Admitting(m) == {t \in Threads : pc[t] = "admit" /\ String(page[t]) = m}

\* Listings for m that have missed.
Missed(m) == {t \in Threads : pc[t] \notin {"idle", "prune", "read"} /\ String(page[t]) = m}

\* Entries of M that goroutines are about to read change from one of the states
\* F to s.
Entries(M, F, s) ==
    entry' = [t \in Threads |->
                IF pc[t] = "read" /\ entry[t] \in F /\ String(page[t]) \in M THEN s
                ELSE entry[t]]

EntriesGone(M) == Entries(M, {"same", "expired"}, "gone")

\* The pages with the map keys M leave.
DropPages(M) ==
    /\ items' = [m \in MapKeys |-> IF m \in M THEN NoPage ELSE items[m]]
    /\ lru' = Without(lru, M)
    /\ raced' = {m \in raced : m \notin M \/ Admitting(m) # {}}
    /\ burst' = [m \in MapKeys |-> IF m \in M THEN 0 ELSE burst[m]]
    /\ EntriesGone(M)

\* lru.MoveToFront
ToFront(m) == lru' = <<m>> \o Without(lru, {m})

Touched(m) ==
    /\ ToFront(m)
    /\ items' = [items EXCEPT ![m].fresh = TRUE]

Fails == faults < MaxFaults /\ faults' = faults + 1
-----------------------------------------------------------------------------
(* ListPage.                                                               *)

Begins(t, p, l) ==
    /\ pc[t] = "idle"
    /\ Goto(t, l)
    /\ page' = [page EXCEPT ![t] = p]

LookupHit(t, p) ==
    LET m == String(p) IN
    /\ Hit(m)
    /\ Begins(t, p, "read")
    /\ Touched(m)
    /\ val' = [val EXCEPT ![t] = items[m].val]
    /\ entry' = [entry EXCEPT ![t] = "same"]
    /\ UNCHANGED <<store, faults, sfCalls, doc, leader, raced, burst>>

\* A hit copies items and nextCursor after it has unlocked: an entry that was
\* replaced in place in between may give the one listing or the other.
ReadHit(t) ==
    /\ pc[t] = "read"
    /\ Goto(t, "idle")
    /\ \/ UNCHANGED val
       \/ /\ entry[t] \in {"expired", "rewritten"} /\ Cached(String(page[t]))
          /\ val' = [val EXCEPT ![t] = items[String(page[t])].val]
    /\ entry' = [entry EXCEPT ![t] = "gone"]
    /\ UNCHANGED <<store, faults, cacheVars, sfCalls, page, doc, leader, raced, burst>>

\* An expired page is removed on the spot.
LookupMiss(t, p) ==
    LET m == String(p) IN
    /\ ~Hit(m)
    /\ Begins(t, p, "miss")
    /\ IF Cached(m) THEN DropPages({m})
       ELSE /\ burst' = IF Missed(m) = {} THEN [burst EXCEPT ![m] = 0] ELSE burst
            /\ UNCHANGED <<cacheVars, raced, entry>>
    /\ val' = [val EXCEPT ![t] = NoPage]
    /\ UNCHANGED <<store, faults, sfCalls, doc, leader>>

\* Mutant: every miss lists for itself.
LeadAlways(t) ==
    /\ pc[t] = "miss"
    /\ sfCalls' = [sfCalls EXCEPT ![String(page[t])] = t]
    /\ Goto(t, "recheck")
    /\ UNCHANGED <<store, faults, cacheVars, page, doc, val, leader, raced, burst, entry>>

Lead(t) ==
    /\ pc[t] = "miss"
    /\ sfCalls[String(page[t])] = NoThread
    /\ sfCalls' = [sfCalls EXCEPT ![String(page[t])] = t]
    /\ Goto(t, "recheck")
    /\ UNCHANGED <<store, faults, cacheVars, page, doc, val, leader, raced, burst, entry>>

Join(t) ==
    /\ pc[t] = "miss"
    /\ sfCalls[String(page[t])] # NoThread
    /\ leader' = [leader EXCEPT ![t] = sfCalls[String(page[t])]]
    /\ Goto(t, "wait")
    /\ UNCHANGED <<store, faults, cacheVars, sfCalls, page, doc, val, raced, burst, entry>>

\* ctx.Done() while waiting.
CancelWait(t) ==
    /\ pc[t] = "wait"
    /\ leader' = [leader EXCEPT ![t] = NoThread]
    /\ Goto(t, "idle")
    /\ UNCHANGED <<store, faults, cacheVars, sfCalls, page, doc, val, raced, burst, entry>>

\* Mutant: the leader does not look again.
NoRecheck(t) ==
    /\ pc[t] = "recheck"
    /\ Goto(t, "list")
    /\ UNCHANGED <<store, faults, cacheVars, sfCalls, page, doc, val, leader, raced, burst, entry>>

\* Another leader may have admitted the page just before LoadOrStore.
Recheck(t) ==
    LET m == String(page[t]) IN
    /\ pc[t] = "recheck"
    /\ IF Hit(m)
       THEN /\ Touched(m)
            /\ val' = [val EXCEPT ![t] = items[m].val]
            /\ Goto(t, "forget")
       ELSE Goto(t, "list") /\ UNCHANGED <<cacheVars, val>>
    /\ UNCHANGED <<store, faults, sfCalls, page, doc, leader, raced, burst, entry>>

\* driver.List; an error goes to the waiters and nothing is cached.
DriverList(t) ==
    /\ pc[t] = "list"
    /\ \/ /\ val' = [val EXCEPT ![t] = List(page[t])]
          /\ burst' = [burst EXCEPT ![String(page[t])] = @ + 1]
          /\ Goto(t, "admit")
          /\ UNCHANGED faults
       \/ /\ Fails
          /\ Goto(t, "forget")
          /\ UNCHANGED <<val, burst>>
    /\ UNCHANGED <<store, cacheVars, sfCalls, page, doc, leader, raced, entry>>

\* Mutant: one page too many stays.
KeptOneTooMany(m) ==
    IF Cached(m) THEN lru
    ELSE SubSeq(lru, 1, IF Len(lru) < MaxPages THEN Len(lru) ELSE MaxPages)

\* The page replaces the one that is there, or takes the place of the least
\* recently used ones at the end of the list.
Kept(m) ==
    IF Cached(m) THEN lru
    ELSE SubSeq(lru, 1, IF Len(lru) < MaxPages THEN Len(lru) ELSE MaxPages - 1)

Admit(t) ==
    LET m == String(page[t])
        gone == Elements(lru) \ Elements(Kept(m))
    IN
    /\ pc[t] = "admit"
    /\ items' = [x \in MapKeys |->
                   IF x = m THEN [page |-> IF Cached(m) THEN items[m].page ELSE page[t],
                                  val |-> val[t], fresh |-> TRUE]
                   ELSE IF x \in gone THEN NoPage ELSE items[x]]
    /\ lru' = <<m>> \o Without(Kept(m), {m})
    /\ raced' = {x \in raced : x \notin gone \/ Admitting(x) # {}}
    /\ burst' = [x \in MapKeys |-> IF x \in gone THEN 0 ELSE burst[x]]
    /\ IF Cached(m) THEN Entries({m}, {"same"}, "rewritten") ELSE EntriesGone(gone)
    /\ Goto(t, "forget")
    /\ UNCHANGED <<store, faults, sfCalls, page, doc, val, leader>>

\* The deferred function of the leader.
Forget(t) ==
    /\ pc[t] = "forget"
    /\ sfCalls' = [sfCalls EXCEPT ![String(page[t])] = NoThread]
    /\ Goto(t, "close")
    /\ UNCHANGED <<store, faults, cacheVars, page, doc, val, leader, raced, burst, entry>>

\* Mutant: a failed listing leaves without waking the waiters.
CloseOnSuccess(t) ==
    LET W == {u \in Threads : val[t] # NoPage /\ pc[u] = "wait" /\ leader[u] = t} IN
    /\ pc[t] = "close"
    /\ pc' = [u \in Threads |-> IF u \in W \cup {t} THEN "idle" ELSE pc[u]]
    /\ val' = [u \in Threads |-> IF u \in W THEN val[t] ELSE val[u]]
    /\ leader' = [u \in Threads |-> IF u \in W THEN NoThread ELSE leader[u]]
    /\ UNCHANGED <<store, faults, cacheVars, sfCalls, page, doc, raced, burst, entry>>

CloseCall(t) ==
    LET W == {u \in Threads : pc[u] = "wait" /\ leader[u] = t} IN
    /\ pc[t] = "close"
    /\ pc' = [u \in Threads |-> IF u \in W \cup {t} THEN "idle" ELSE pc[u]]
    /\ val' = [u \in Threads |-> IF u \in W THEN val[t] ELSE val[u]]
    /\ leader' = [u \in Threads |-> IF u \in W THEN NoThread ELSE leader[u]]
    /\ UNCHANGED <<store, faults, cacheVars, sfCalls, page, doc, raced, burst, entry>>
-----------------------------------------------------------------------------
(* Writes and invalidation.                                                *)

\* Map keys that list document d.
Lists(d) == {m \in MapKeys : \E p \in Pages : String(p) = m /\ HasPrefix(d, p.prefix)}

\* The driver applies a write: listings that are in hand are old now.
Write(t, d) ==
    /\ pc[t] = "idle" /\ store[d] < MaxWrites
    /\ store' = [store EXCEPT ![d] = @ + 1]
    /\ doc' = [doc EXCEPT ![t] = d]
    /\ Goto(t, "prune")
    /\ val' = [val EXCEPT ![t] = NoPage]
    /\ raced' = raced \cup {m \in Lists(d) : Admitting(m) # {}}
    /\ burst' = [m \in MapKeys |-> IF m \in Lists(d) THEN 0 ELSE burst[m]]
    /\ UNCHANGED <<faults, cacheVars, sfCalls, page, leader, entry>>

\* A write that fails although the driver has applied it: db.Put returns the
\* error and does not get to InvalidateKey.
WriteUnknown(t, d) ==
    /\ pc[t] = "idle" /\ store[d] < MaxWrites /\ Fails
    /\ store' = [store EXCEPT ![d] = @ + 1]
    /\ raced' = raced \cup Lists(d)
    /\ burst' = [m \in MapKeys |-> IF m \in Lists(d) THEN 0 ELSE burst[m]]
    /\ UNCHANGED <<cacheVars, sfCalls, pc, page, doc, val, leader, entry>>

\* Another node of the cluster writes: only its own list cache is pruned.
WriteElsewhere(d) ==
    /\ store[d] < MaxWrites
    /\ store' = [store EXCEPT ![d] = @ + 1]
    /\ raced' = raced \cup Lists(d)
    /\ burst' = [m \in MapKeys |-> IF m \in Lists(d) THEN 0 ELSE burst[m]]
    /\ UNCHANGED <<faults, cacheVars, sfCalls, pc, page, doc, val, leader, entry>>

\* Mutant: only a listing of exactly the directory of the document goes.
MatchesParent(m, key) ==
    Cached(m) /\ items[m].page.prefix = SubSeq(key, 1, Len(key) - 1)

\* The pages that InvalidateKey takes: the root listing and every prefix of key.
Matches(m, key) ==
    Cached(m) /\ (items[m].page.prefix = <<>> \/ HasPrefix(key, items[m].page.prefix))

InvalidateKey(t) ==
    /\ pc[t] = "prune"
    /\ DropPages({m \in MapKeys : Matches(m, doc[t])})
    /\ Goto(t, "idle")
    /\ UNCHANGED <<store, faults, sfCalls, page, doc, val, leader>>

InvalidatePrefix(prefix) ==
    /\ DropPages({m \in MapKeys : Cached(m) /\
                    LET q == items[m].page.prefix IN
                    prefix = <<>> \/ q = <<>> \/ HasPrefix(q, prefix) \/ HasPrefix(prefix, q)})
    /\ UNCHANGED <<store, faults, sfCalls, pc, page, doc, val, leader>>

\* A change of the ring, or Close.
Purge ==
    /\ DropPages(MapKeys)
    /\ UNCHANGED <<store, faults, sfCalls, pc, page, doc, val, leader>>

\* Nobody has read the page for the length of the TTL.
Expire(m) ==
    /\ Hit(m)
    /\ items' = [items EXCEPT ![m].fresh = FALSE]
    /\ burst' = [burst EXCEPT ![m] = 0]
    /\ Entries({m}, {"same"}, "expired")
    /\ UNCHANGED <<store, faults, lru, sfCalls, pc, page, doc, val, leader, raced>>

Step(t) ==
    \/ Lead(t) \/ Join(t) \/ Recheck(t) \/ DriverList(t) \/ Admit(t)
    \/ Forget(t) \/ CloseCall(t) \/ ReadHit(t) \/ InvalidateKey(t)

Next ==
    \/ \E t \in Threads :
         \/ Step(t) \/ CancelWait(t)
         \/ \E p \in Pages : LookupHit(t, p) \/ LookupMiss(t, p)
         \/ \E d \in Docs : Write(t, d) \/ WriteUnknown(t, d)
    \/ \E p \in Pages : InvalidatePrefix(p.prefix)
    \/ Purge
    \/ \E d \in Docs : WriteElsewhere(d)
    \/ \E m \in MapKeys : Expire(m)

Spec == Init /\ [][Next]_vars

\* A goroutine that waits for no other one keeps running; driver calls return.
FairSpec == Spec /\ \A t \in Threads : WF_vars(Step(t))
-----------------------------------------------------------------------------
(* Properties.                                                             *)

\* The map and the list hold the same pages, each once, and never more than
\* MaxPages of them, whatever replacements, evictions and invalidations met.
WithinCapacity ==
    /\ Elements(lru) = {m \in MapKeys : Cached(m)}
    /\ Len(lru) = Cardinality(Elements(lru))
    /\ Len(lru) <= MaxPages

\* Only one goroutine lists for a map key, and whoever waits waits for one
\* that will close its call.
WaitersHaveALeader ==
    /\ \A t \in Threads, m \in MapKeys :
          sfCalls[m] = t <=> /\ pc[t] \in {"recheck", "list", "admit", "forget"}
                             /\ String(page[t]) = m
    /\ \A t \in Threads : pc[t] = "wait" =>
          /\ leader[t] \in Threads
          /\ pc[leader[t]] \in {"recheck", "list", "admit", "forget", "close"}
          /\ String(page[leader[t]]) = String(page[t])

\* Overlapping misses of a page, with nothing written, dropped or expired
\* meanwhile, cost one driver.List: the leader's second look closes the gap
\* between the lookup and LoadOrStore.
OneListPerBurst == \A m \in MapKeys : burst[m] <= 1

\* A hit copies the entry after it has released the mutex, and an admission
\* writes an entry that is there in place.  The two do not meet, unless the
\* reader sleeps for a whole TTL in between: the leader's second look, and the
\* removal of what a lookup or a write drops, give a new listing a new entry.
HitsReadUndisturbed == \A t \in Threads : entry[t] # "rewritten"

\* Once the writes have pruned, a cached page is what the driver would list
\* now, unless a write overtook the listing or failed after it was applied.
FreshUnlessRaced ==
    \A m \in MapKeys :
        /\ Cached(m) /\ m \notin raced
        /\ \A t \in Threads : pc[t] = "prune" => m \notin Lists(doc[t])
        => items[m].val = List(items[m].page)

\* Every ListPage and every write returns.
EveryListingReturns == \A t \in Threads : pc[t] # "idle" ~> pc[t] = "idle"

\* What list_cache.go says of ListCacheKey: it identifies a distinct listing
\* query, so a listing is answered with the documents under its own prefix.
ListsOwnPrefix ==
    \A t \in Threads :
        pc[t] = "idle" /\ val[t] # NoPage => DOMAIN val[t] = Under(page[t].prefix)
=============================================================================
