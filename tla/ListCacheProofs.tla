-------------------------- MODULE ListCacheProofs ---------------------------
(***************************************************************************)
(* Proofs about ListCache, for any sets of documents, pages and goroutines *)
(* and any number of writes and failures.                                  *)
(***************************************************************************)
EXTENDS ListCache, FiniteLemmas, TLAPS

\* What the map holds under a map key.
Entry == [page : Pages, val : Listings, fresh : BOOLEAN]

\* The map of pages: a cached page has the map key it is found under.
ItemTypes ==
    /\ items \in [MapKeys -> Entry \cup {NoPage}]
    /\ \A m \in MapKeys : Cached(m) => String(items[m].page) = m

\* Types.  A goroutine in ListPage has a page, one at its prune a document, and
\* what an admission stores is a listing.
Types ==
    /\ store \in [Docs -> 0..MaxWrites]
    /\ ItemTypes
    /\ sfCalls \in [MapKeys -> Threads \cup {NoThread}]
    /\ pc \in [Threads -> {"idle", "read", "miss", "wait", "recheck", "list", "admit",
                           "forget", "close", "prune"}]
    /\ page \in [Threads -> Pages \cup {NoPage}]
    /\ doc \in [Threads -> Docs \cup {<<>>}]
    /\ val \in [Threads -> Listings \cup {NoPage}]
    /\ leader \in [Threads -> Threads \cup {NoThread}]
    /\ entry \in [Threads -> {"same", "gone", "expired", "rewritten"}]
    /\ burst \in [MapKeys -> Nat]
    /\ \A t \in Threads :
         /\ pc[t] \notin {"idle", "prune"} => page[t] \in Pages
         /\ pc[t] = "prune" => doc[t] \in Docs
         /\ pc[t] = "admit" => val[t] \in Listings

\* A leader that lists has found nothing, and nobody has admitted since.
ListsAreMissing ==
    \A t \in Threads : pc[t] \in {"list", "admit"} => ~Hit(String(page[t]))

\* The entry that a hit is about to read is the one that is cached, as long as
\* it was neither removed nor expired.
ReadsAreCached ==
    \A t \in Threads :
      /\ pc[t] = "read" /\ entry[t] = "same" => Hit(String(page[t]))
      /\ pc[t] # "read" => entry[t] = "gone"

\* What a burst has listed is cached, or about to be.
BurstIsCached ==
    \A m \in MapKeys : burst[m] # 0 => Hit(m) \/ Admitting(m) # {}

\* What is about to be cached is current, unless a write overtook it.
AdmittedIsCurrent ==
    \A t \in Threads :
      pc[t] = "admit" => String(page[t]) \in raced \/ val[t] = List(page[t])

\* FreshUnlessRaced, with the writes that concern the cached page itself.
PagesAreCurrent ==
    \A m \in MapKeys :
      /\ Cached(m) /\ m \notin raced
      /\ \A t \in Threads : pc[t] = "prune" => doc[t] \notin Under(items[m].page.prefix)
      => items[m].val = List(items[m].page)

\* The calls of the singleflight.
Flight == Types /\ WaitersHaveALeader

\* The misses of a page, and the reads of its entry.
Bursts == ListsAreMissing /\ ReadsAreCached /\ HitsReadUndisturbed /\ BurstIsCached
          /\ OneListPerBurst

\* The inductive invariant of ListPage.
IInv == Flight /\ Bursts

\* No two queries have one name.
NamesAreDistinct == \A p, q \in Pages : String(p) = String(q) => p = q

\* What is cached, and about to be, is current.
Freshness == AdmittedIsCurrent /\ PagesAreCurrent
-----------------------------------------------------------------------------
(* The map of pages.                                                       *)

\* The entries of all map keys but those of M are untouched.
SamePages(M) ==
    \A x \in MapKeys \ M : /\ Cached(x)' <=> Cached(x)
                           /\ Hit(x)' <=> Hit(x)
                           /\ items'[x] = items[x]

\* MoveToFront and the new expiry of a hit.
LEMMA TouchedItems ==
    ASSUME ItemTypes, NEW m \in MapKeys, Hit(m), Touched(m)
    PROVE  /\ ItemTypes' /\ SamePages({m}) /\ Hit(m)'
           /\ items'[m].page = items[m].page /\ items'[m].val = items[m].val
<1>1. items[m] \in Entry /\ items'[m] = [items[m] EXCEPT !.fresh = TRUE]
  BY Zenon DEF ItemTypes, Hit, Cached, Touched
<1>2. \A x \in MapKeys \ {m} : items'[x] = items[x]
  BY Zenon DEF ItemTypes, Touched
<1>3. /\ items'[m] \in Entry /\ items'[m].fresh = TRUE
      /\ items'[m].page = items[m].page /\ items'[m].val = items[m].val
  BY <1>1, Zenon DEF Entry
<1>4. NoPage \notin Entry
  BY ListCacheAssumption, Zenon DEF Entry
<1>5. Hit(m)'
  BY <1>3, <1>4, Zenon DEF Hit, Cached
<1>6. ItemTypes'
  BY <1>1, <1>2, <1>3, <1>4, Zenon DEF ItemTypes, Touched, Cached
<1> QED
  BY <1>2, <1>3, <1>5, <1>6, Zenon DEF SamePages, Hit, Cached

\* An invalidation leaves nothing under the map keys it names.
LEMMA DroppedItems ==
    ASSUME ItemTypes, NEW M, DropPages(M)
    PROVE  /\ ItemTypes' /\ SamePages(M)
           /\ \A x \in MapKeys : x \in M => ~Cached(x)'
BY Zenon DEF ItemTypes, DropPages, SamePages, Hit, Cached

\* What an admission takes out of the map.
Gone(m) == Elements(lru) \ Elements(Kept(m))

\* An admission caches the page of its goroutine, in a new entry or in place.
LEMMA AdmittedItems ==
    ASSUME Types, NEW t \in Threads, Admit(t), NEW m, m = String(page[t])
    PROVE  /\ m \in MapKeys
           /\ ItemTypes' /\ SamePages(Gone(m) \cup {m}) /\ Hit(m)'
           /\ items'[m].val = val[t]
           /\ items'[m].page = IF Cached(m) THEN items[m].page ELSE page[t]
           /\ \A x \in MapKeys : x \in Gone(m) /\ x # m => ~Cached(x)'
<1>1. m \in MapKeys
  BY Zenon DEF Admit, Types, MapKeys
<1>2. items' = [x \in MapKeys |->
                  IF x = m THEN [page |-> IF Cached(m) THEN items[m].page ELSE page[t],
                                 val |-> val[t], fresh |-> TRUE]
                  ELSE IF x \in Gone(m) THEN NoPage ELSE items[x]]
  BY Zenon DEF Admit, Gone
<1> DEFINE q == IF Cached(m) THEN items[m].page ELSE page[t]
           e == [page |-> q, val |-> val[t], fresh |-> TRUE]
<1>3. q \in Pages /\ String(q) = m
  BY <1>1, Zenon DEF Admit, Types, ItemTypes, Entry, Cached
<1>4. val[t] \in Listings
  BY Zenon DEF Admit, Types
<1>5. e \in Entry /\ e.page = q /\ e.val = val[t] /\ e.fresh = TRUE
  <2> HIDE DEF q
  <2> QED BY <1>3, <1>4, Zenon DEF Entry
<1>6. items'[m] = e
  BY <1>1, <1>2, Zenon
<1>7. \A x \in MapKeys : x # m => items'[x] = IF x \in Gone(m) THEN NoPage ELSE items[x]
  BY <1>2, Zenon
<1>8. NoPage \notin Entry
  BY ListCacheAssumption, Zenon DEF Entry
<1>9. items' \in [MapKeys -> Entry \cup {NoPage}]
  <2>1. \A x \in MapKeys : items'[x] \in Entry \cup {NoPage}
    <3> HIDE DEF e
    <3> QED BY <1>5, <1>6, <1>7, Zenon DEF Types, ItemTypes
  <2> QED
    BY <1>2, <2>1, Zenon
<1> HIDE DEF e, q, Gone
<1>10. ItemTypes'
  BY <1>3, <1>5, <1>6, <1>7, <1>9 DEF Types, ItemTypes, Cached
<1>11. Hit(m)'
  BY <1>5, <1>6, <1>8, Zenon DEF Hit, Cached
<1>12. SamePages(Gone(m) \cup {m})
  BY <1>7, Zenon DEF SamePages, Hit, Cached
<1>13. items'[m].val = val[t] /\ items'[m].page = q
  BY <1>5, <1>6, Zenon
<1>14. \A x \in MapKeys : x \in Gone(m) /\ x # m => ~Cached(x)'
  BY <1>7, Zenon DEF Cached
<1> QED
  BY <1>1, <1>10, <1>11, <1>12, <1>13, <1>14 DEF q

\* The TTL of a page passes: the entry stays and is no hit any more.
LEMMA ExpiredItems ==
    ASSUME ItemTypes, NEW m \in MapKeys, Expire(m)
    PROVE  /\ ItemTypes' /\ SamePages({m}) /\ Cached(m)' /\ ~Hit(m)'
           /\ items'[m].page = items[m].page /\ items'[m].val = items[m].val
<1>1. items[m] \in Entry /\ items'[m] = [items[m] EXCEPT !.fresh = FALSE]
  BY Zenon DEF ItemTypes, Hit, Cached, Expire
<1>2. \A x \in MapKeys \ {m} : items'[x] = items[x]
  BY Zenon DEF ItemTypes, Expire
<1>3. /\ items'[m] \in Entry /\ items'[m].fresh = FALSE
      /\ items'[m].page = items[m].page /\ items'[m].val = items[m].val
  BY <1>1, Zenon DEF Entry
<1>4. NoPage \notin Entry
  BY ListCacheAssumption, Zenon DEF Entry
<1>5. Cached(m)' /\ ~Hit(m)'
  BY <1>3, <1>4, Zenon DEF Hit, Cached
<1>6. ItemTypes'
  BY <1>1, <1>2, <1>3, <1>4 DEF ItemTypes, Expire, Cached, Hit
<1> QED
  BY <1>2, <1>3, <1>5, <1>6, Zenon DEF SamePages, Hit, Cached
-----------------------------------------------------------------------------
(* Types and the singleflight calls.                                       *)

\* Map keys of the pages in hand.
LEMMA NameOfPage ==
    ASSUME NEW p \in Pages
    PROVE  String(p) \in MapKeys
BY Zenon DEF MapKeys

\* The map is untouched.
LEMMA SameItems ==
    ASSUME ItemTypes, UNCHANGED items
    PROVE  ItemTypes' /\ SamePages({})
BY Zenon DEF ItemTypes, SamePages, Hit, Cached

\* A leader that stays in its call keeps the waiters waiting for it.
LEMMA LeaderGoesOn ==
    ASSUME Types, WaitersHaveALeader, NEW t \in Threads,
           NEW l \in {"recheck", "list", "admit", "forget"},
           pc[t] \in {"recheck", "list", "admit", "forget"},
           pc' = [pc EXCEPT ![t] = l], UNCHANGED <<sfCalls, page, leader>>
    PROVE  WaitersHaveALeader'
BY DEF Types, WaitersHaveALeader

\* What the driver lists is a listing.
LEMMA ListType ==
    ASSUME Types, NEW p \in Pages
    PROVE  List(p) \in Listings
<1>1. List(p) \in [Under(p.prefix) -> 0..MaxWrites]
  BY Zenon DEF List, Under, Types
<1> QED
  BY <1>1, Zenon DEF Listings

\* The readers' view of the entries stays within its type.
LEMMA EntriesType ==
    ASSUME Types, NEW M, NEW F, NEW s \in {"gone", "expired", "rewritten"}, Entries(M, F, s)
    PROVE  entry' \in [Threads -> {"same", "gone", "expired", "rewritten"}]
BY Zenon DEF Types, Entries

\* The state NewListCache leaves.
LEMMA InitInv == Init => IInv
<1> SUFFICES ASSUME Init PROVE IInv
  BY Zenon
<1>1. Types
  BY ListCacheAssumption DEF Init, Types, ItemTypes, Cached
<1>2. WaitersHaveALeader
  BY ListCacheAssumption, Zenon DEF Init, WaitersHaveALeader
<1>3. Bursts
  BY DEF Init, Bursts, ListsAreMissing, ReadsAreCached, HitsReadUndisturbed, BurstIsCached,
         OneListPerBurst
<1> QED
  BY <1>1, <1>2, <1>3, Zenon DEF IInv, Flight

\* A lookup.
LEMMA FlightLookup ==
    ASSUME Flight, NEW t \in Threads, NEW p \in Pages, LookupHit(t, p) \/ LookupMiss(t, p)
    PROVE  Flight'
<1>0. String(p) \in MapKeys
  BY NameOfPage, Zenon
<1>1. CASE LookupHit(t, p)
  <2>1. ItemTypes'
    BY <1>0, <1>1, TouchedItems DEF LookupHit, Flight, Types
  <2>2. items[String(p)].val \in Listings
    BY <1>0, <1>1, Zenon DEF LookupHit, Hit, Cached, Flight, Types, ItemTypes, Entry
  <2>3. Types'
    BY <1>1, <2>1, <2>2, Zenon DEF LookupHit, Begins, Goto, Flight, Types
  <2>4. WaitersHaveALeader'
    BY <1>1 DEF LookupHit, Begins, Goto, Flight, Types, WaitersHaveALeader
  <2> QED
    BY <2>3, <2>4, Zenon DEF Flight
<1>2. CASE LookupMiss(t, p)
  <2>1. /\ ItemTypes' /\ burst' \in [MapKeys -> Nat]
        /\ entry' \in [Threads -> {"same", "gone", "expired", "rewritten"}]
    <3>1. CASE DropPages({String(p)})
      BY <3>1, DroppedItems, EntriesType, Zenon DEF DropPages, EntriesGone, Flight, Types
    <3>2. CASE /\ burst' = IF Missed(String(p)) = {} THEN [burst EXCEPT ![String(p)] = 0] ELSE burst
               /\ UNCHANGED <<cacheVars, raced, entry>>
      BY <3>2, Zenon DEF Flight, Types, ItemTypes, Cached, cacheVars
    <3> QED
      BY <1>2, <3>1, <3>2, Zenon DEF LookupMiss
  <2>2. /\ pc[t] = "idle" /\ pc' = [pc EXCEPT ![t] = "miss"] /\ page' = [page EXCEPT ![t] = p]
        /\ val' = [val EXCEPT ![t] = NoPage] /\ UNCHANGED <<store, sfCalls, doc, leader>>
    BY <1>2, Zenon DEF LookupMiss, Begins, Goto
  <2>3. Types'
    BY <2>1, <2>2, Zenon DEF Flight, Types
  <2>4. WaitersHaveALeader'
    BY <2>2 DEF Flight, Types, WaitersHaveALeader
  <2> QED
    BY <2>3, <2>4, Zenon DEF Flight
<1> QED
  BY <1>1, <1>2, Zenon

\* The steps of a miss.
LEMMA FlightMiss ==
    ASSUME Flight, NEW t \in Threads,
           \/ Lead(t) \/ Join(t) \/ CancelWait(t) \/ Recheck(t) \/ DriverList(t)
    PROVE  Flight'
<1> USE DEF Goto, Flight
<1>0. pc[t] \notin {"idle", "prune"} => page[t] \in Pages /\ String(page[t]) \in MapKeys
  BY NameOfPage, Zenon DEF Types
<1>1. CASE Lead(t)
  BY <1>0, <1>1, SameItems, ListCacheAssumption DEF Lead, Types, WaitersHaveALeader, cacheVars
<1>2. CASE Join(t)
  BY <1>0, <1>2, SameItems, ListCacheAssumption DEF Join, Types, WaitersHaveALeader, cacheVars
<1>3. CASE CancelWait(t)
  BY <1>0, <1>3, SameItems, ListCacheAssumption DEF CancelWait, Types, WaitersHaveALeader, cacheVars
<1>4. CASE Recheck(t)
  <2>1. CASE Hit(String(page[t]))
    <3>1. ItemTypes'
      BY <1>0, <1>4, <2>1, TouchedItems, Zenon DEF Recheck, Types
    <3>2. items[String(page[t])].val \in Listings
      BY <1>0, <1>4, <2>1, Zenon DEF Recheck, Hit, Cached, Types, ItemTypes, Entry
    <3>3. Types'
      BY <1>4, <2>1, <3>1, <3>2, Zenon DEF Recheck, Types
    <3>4. WaitersHaveALeader'
      BY <1>4, <2>1, LeaderGoesOn, Zenon DEF Recheck
    <3> QED
      BY <3>3, <3>4, Zenon
  <2>2. CASE ~Hit(String(page[t]))
    <3>1. ItemTypes'
      BY <1>4, <2>2, SameItems, Zenon DEF Recheck, Types, cacheVars
    <3>2. Types'
      BY <1>4, <2>2, <3>1, Zenon DEF Recheck, Types
    <3>3. WaitersHaveALeader'
      BY <1>4, <2>2, LeaderGoesOn DEF Recheck
    <3> QED
      BY <3>2, <3>3, Zenon
  <2> QED
    BY <2>1, <2>2, Zenon
<1>5. CASE DriverList(t)
  <2>1. pc[t] = "list" => List(page[t]) \in Listings
    BY <1>0, ListType, Zenon
  <2>2. /\ pc[t] = "list" /\ UNCHANGED <<store, items, sfCalls, page, doc, leader, entry>>
        /\ \/ /\ val' = [val EXCEPT ![t] = List(page[t])]
              /\ burst' = [burst EXCEPT ![String(page[t])] = @ + 1]
              /\ pc' = [pc EXCEPT ![t] = "admit"]
           \/ pc' = [pc EXCEPT ![t] = "forget"] /\ UNCHANGED <<val, burst>>
    BY <1>5, Zenon DEF DriverList, cacheVars
  <2>3. Types'
    <3>1. ItemTypes'
      BY <2>2, SameItems, Zenon DEF Types
    <3>2. burst' \in [MapKeys -> Nat]
      BY <1>0, <2>2 DEF Types
    <3> QED
      BY <1>0, <2>1, <2>2, <3>1, <3>2 DEF Types
  <2>4. WaitersHaveALeader'
    BY <2>2, LeaderGoesOn, Zenon
  <2> QED
    BY <2>3, <2>4, Zenon
<1> QED
  BY <1>1, <1>2, <1>3, <1>4, <1>5, Zenon

\* The end of a call and of a hit.
LEMMA FlightEnds ==
    ASSUME Flight, NEW t \in Threads,
           \/ Admit(t) \/ Forget(t) \/ CloseCall(t) \/ ReadHit(t)
    PROVE  Flight'
<1> USE DEF Goto, Flight
<1>0. pc[t] \notin {"idle", "prune"} => page[t] \in Pages /\ String(page[t]) \in MapKeys
  BY NameOfPage, Zenon DEF Types
<1>1. CASE Admit(t)
  <2>1. ItemTypes'
    BY <1>1, AdmittedItems, Zenon
  <2>2. burst' \in [MapKeys -> Nat]
    BY <1>1, Zenon DEF Admit, Types
  <2>3. entry' \in [Threads -> {"same", "gone", "expired", "rewritten"}]
    BY <1>1, EntriesType, Zenon DEF Admit, EntriesGone
  <2>4. /\ pc[t] = "admit" /\ pc' = [pc EXCEPT ![t] = "forget"]
        /\ UNCHANGED <<store, sfCalls, page, doc, val, leader>>
    BY <1>1, Zenon DEF Admit
  <2>5. Types'
    BY <2>1, <2>2, <2>3, <2>4, Zenon DEF Types
  <2>6. WaitersHaveALeader'
    BY <2>4, LeaderGoesOn, Zenon
  <2> QED
    BY <2>5, <2>6, Zenon
<1>2. CASE Forget(t)
  BY <1>0, <1>2, SameItems, ListCacheAssumption DEF Forget, Types, WaitersHaveALeader, cacheVars
<1>3. CASE CloseCall(t)
  <2>1. Types'
    BY <1>3, SameItems, ListCacheAssumption, Zenon DEF CloseCall, Types, cacheVars
  <2>2. WaitersHaveALeader'
    BY <1>3 DEF CloseCall, Types, WaitersHaveALeader
  <2> QED
    BY <2>1, <2>2, Zenon
<1>4. CASE ReadHit(t)
  <2>1. /\ pc[t] = "read" /\ pc' = [pc EXCEPT ![t] = "idle"]
        /\ entry' = [entry EXCEPT ![t] = "gone"]
        /\ UNCHANGED <<store, items, sfCalls, page, doc, leader, burst>>
    BY <1>4, Zenon DEF ReadHit, cacheVars
  <2>2. /\ val' \in [Threads -> Listings \cup {NoPage}]
        /\ \A u \in Threads : u # t => val'[u] = val[u]
    <3>1. Cached(String(page[t])) => items[String(page[t])].val \in Listings
      BY <1>0, <2>1, Zenon DEF Cached, Types, ItemTypes, Entry
    <3> QED
      BY <1>4, <3>1, Zenon DEF ReadHit, Types
  <2>3. Types'
    <3>1. ItemTypes'
      BY <2>1, SameItems, Zenon DEF Types
    <3> QED
      BY <2>1, <2>2, <3>1, Zenon DEF Types
  <2>4. WaitersHaveALeader'
    BY <2>1 DEF Types, WaitersHaveALeader
  <2> QED
    BY <2>3, <2>4, Zenon
<1> QED
  BY <1>1, <1>2, <1>3, <1>4, Zenon
\* Writes, invalidations and the TTL.
LEMMA FlightWrites ==
    ASSUME Flight,
           \/ \E t \in Threads, d \in Docs : Write(t, d) \/ WriteUnknown(t, d)
           \/ \E d \in Docs : WriteElsewhere(d)
           \/ \E t \in Threads : InvalidateKey(t)
           \/ \E p \in Pages : InvalidatePrefix(p.prefix)
           \/ Purge
           \/ \E m \in MapKeys : Expire(m)
    PROVE  Flight'
<1> USE DEF Goto, Flight
<1>1. ASSUME NEW t \in Threads, NEW d \in Docs, Write(t, d) PROVE Flight'
  <2>1. ItemTypes'
    BY <1>1, SameItems, Zenon DEF Write, Types, cacheVars
  <2>2. store' \in [Docs -> 0..MaxWrites] /\ burst' \in [MapKeys -> Nat]
    BY <1>1, ListCacheAssumption DEF Write, Types
  <2>3. Types'
    BY <1>1, <2>1, <2>2, Zenon DEF Write, Types
  <2>4. WaitersHaveALeader'
    BY <1>1 DEF Write, Types, WaitersHaveALeader
  <2> QED
    BY <2>3, <2>4, Zenon
<1>2. ASSUME NEW d \in Docs, WriteElsewhere(d) \/ \E t \in Threads : WriteUnknown(t, d)
      PROVE  Flight'
  <2>1. /\ store[d] < MaxWrites
        /\ store' = [store EXCEPT ![d] = @ + 1]
        /\ burst' = [m \in MapKeys |-> IF m \in Lists(d) THEN 0 ELSE burst[m]]
        /\ UNCHANGED <<items, sfCalls, pc, page, doc, val, leader, entry>>
    BY <1>2, Zenon DEF WriteElsewhere, WriteUnknown, cacheVars
  <2>2. ItemTypes'
    BY <2>1, SameItems, Zenon DEF Types
  <2>3. store' \in [Docs -> 0..MaxWrites] /\ burst' \in [MapKeys -> Nat]
    BY <2>1, ListCacheAssumption DEF Types
  <2>4. Types' /\ WaitersHaveALeader'
    BY <2>1, <2>2, <2>3, Zenon DEF Types, WaitersHaveALeader
  <2> QED
    BY <2>4, Zenon
<1>3. ASSUME NEW M, DropPages(M),
             UNCHANGED <<store, faults, sfCalls, page, doc, val, leader>>,
             \/ UNCHANGED pc
             \/ \E t \in Threads : pc[t] = "prune" /\ pc' = [pc EXCEPT ![t] = "idle"]
      PROVE  Flight'
  <2>1. ItemTypes'
    BY <1>3, DroppedItems, Zenon DEF Types
  <2>2. /\ entry' \in [Threads -> {"same", "gone", "expired", "rewritten"}]
        /\ burst' \in [MapKeys -> Nat]
    BY <1>3, EntriesType, Zenon DEF Types, DropPages, EntriesGone
  <2>3. Types'
    BY <1>3, <2>1, <2>2, Zenon DEF Types
  <2>4. WaitersHaveALeader'
    <3>1. CASE UNCHANGED pc
      BY <1>3, <3>1 DEF WaitersHaveALeader
    <3>2. ASSUME NEW t \in Threads, pc[t] = "prune", pc' = [pc EXCEPT ![t] = "idle"]
          PROVE  WaitersHaveALeader'
      BY <1>3, <3>2 DEF Types, WaitersHaveALeader
    <3> QED
      BY <1>3, <3>1, <3>2, Zenon
  <2> QED
    BY <2>3, <2>4, Zenon
<1>4. ASSUME NEW m \in MapKeys, Expire(m) PROVE Flight'
  <2>1. ItemTypes'
    BY <1>4, ExpiredItems, Zenon DEF Types
  <2>2. /\ entry' \in [Threads -> {"same", "gone", "expired", "rewritten"}]
        /\ burst' \in [MapKeys -> Nat]
    BY <1>4, EntriesType, Zenon DEF Types, Expire
  <2>3. Types' /\ WaitersHaveALeader'
    BY <1>4, <2>1, <2>2, Zenon DEF Expire, Types, WaitersHaveALeader
  <2> QED
    BY <2>3, Zenon
<1> QED
  BY <1>1, <1>2, <1>3, <1>4, Zenon DEF InvalidateKey, InvalidatePrefix, Purge

\* Every step keeps the types, and every waiter a leader.
LEMMA FlightStep == Flight /\ [Next]_vars => Flight'
<1>1. Flight /\ UNCHANGED vars => Flight'
  <2> SUFFICES ASSUME Flight, UNCHANGED vars PROVE Flight'
    BY Zenon
  <2>1. ItemTypes'
    BY SameItems, Zenon DEF Flight, Types, vars
  <2> QED
    BY <2>1, Zenon DEF Flight, Types, WaitersHaveALeader, vars
<1>2. Flight /\ Next => Flight'
  BY FlightLookup, FlightMiss, FlightEnds, FlightWrites, Zenon DEF Next, Step
<1> QED
  BY <1>1, <1>2, Zenon
-----------------------------------------------------------------------------
(* Bursts of misses.                                                       *)

\* The goroutines of a step stay clear of the critical stretch of a miss, from
\* the decision to list to the admission, and of the read of a hit.
Outside ==
    \A u \in Threads :
      \/ pc'[u] = pc[u] /\ page'[u] = page[u]
      \/ pc[u] \notin {"read", "admit"} /\ pc'[u] \notin {"read", "list", "admit"}

\* Two goroutines that list have different map keys.
LEMMA OneLeader ==
    ASSUME Flight, NEW t \in Threads, NEW u \in Threads,
           pc[t] \in {"list", "admit"}, pc[u] \in {"list", "admit"},
           String(page[t]) = String(page[u])
    PROVE  t = u
BY NameOfPage DEF Flight, Types, WaitersHaveALeader

\* A step that changes no entry, and at most ends bursts.
LEMMA CalmBursts ==
    ASSUME IInv, Outside, UNCHANGED entry,
           \A x \in MapKeys : Hit(x)' <=> Hit(x),
           \A x \in MapKeys : burst'[x] \in {0, burst[x]}
    PROVE  Bursts'
<1> USE DEF IInv, Bursts
<1>1. ListsAreMissing'
  BY NameOfPage, Zenon DEF ListsAreMissing, Outside, Flight, Types
<1>2. ReadsAreCached'
  BY NameOfPage, Zenon DEF ReadsAreCached, Outside, Flight, Types
<1>3. HitsReadUndisturbed'
  BY Zenon DEF HitsReadUndisturbed
<1>4. BurstIsCached'
  <2>1. \A x \in MapKeys : Admitting(x) \subseteq Admitting(x)'
    BY Zenon DEF Admitting, Outside
  <2> QED
    BY <2>1, Zenon DEF BurstIsCached
<1>5. OneListPerBurst'
  BY DEF OneListPerBurst, Flight, Types
<1> QED
  BY <1>1, <1>2, <1>3, <1>4, <1>5, Zenon

\* The pages of M go.
LEMMA DropBursts ==
    ASSUME IInv, Outside, NEW M, DropPages(M)
    PROVE  Bursts'
<1> USE DEF IInv, Bursts
<1>1. /\ SamePages(M)
      /\ \A x \in MapKeys : x \in M => ~Hit(x)'
      /\ burst' = [m \in MapKeys |-> IF m \in M THEN 0 ELSE burst[m]]
  BY DroppedItems, Zenon DEF Flight, Types, DropPages, Hit
<1>2. \A u \in Threads :
        entry'[u] = IF pc[u] = "read" /\ entry[u] \in {"same", "expired"} /\ String(page[u]) \in M
                    THEN "gone" ELSE entry[u]
  BY Zenon DEF DropPages, EntriesGone, Entries
<1>3. ListsAreMissing'
  BY <1>1, NameOfPage, Zenon DEF SamePages, ListsAreMissing, Outside, Flight, Types
<1>4. ReadsAreCached'
  BY <1>1, <1>2, NameOfPage, Zenon DEF SamePages, ReadsAreCached, Outside, Flight, Types
<1>5. HitsReadUndisturbed'
  BY <1>2, Zenon DEF HitsReadUndisturbed
<1>6. BurstIsCached'
  <2>1. \A x \in MapKeys : Admitting(x) \subseteq Admitting(x)'
    BY Zenon DEF Admitting, Outside
  <2> QED
    BY <1>1, <2>1, Zenon DEF BurstIsCached, SamePages
<1>7. OneListPerBurst'
  BY <1>1 DEF OneListPerBurst
<1> QED
  BY <1>3, <1>4, <1>5, <1>6, <1>7, Zenon

\* A miss that is not the first of its burst lists nothing.
LEMMA ListBursts ==
    ASSUME IInv, NEW t \in Threads, DriverList(t)
    PROVE  Bursts'
<1> USE DEF IInv, Bursts
<1> PICK m : m = String(page[t])
  BY Zenon
<1>0. m \in MapKeys /\ pc[t] = "list"
  BY NameOfPage, Zenon DEF DriverList, Flight, Types
<1>1. \A x \in MapKeys : Hit(x)' <=> Hit(x)
  BY Zenon DEF DriverList, cacheVars, Hit, Cached
<1>2. CASE Goto(t, "forget") /\ UNCHANGED burst
  <2>1. Outside
    BY <1>0, <1>2, Zenon DEF Outside, Goto, DriverList, Flight, Types
  <2> QED
    BY <1>1, <1>2, <2>1, CalmBursts, Zenon DEF DriverList
<1>3. CASE burst' = [burst EXCEPT ![m] = @ + 1] /\ Goto(t, "admit")
  <2>1. burst[m] = 0
    <3>1. ~Hit(m)
      BY <1>0, Zenon DEF ListsAreMissing
    <3>2. Admitting(m) = {}
      BY <1>0, OneLeader, Zenon DEF Admitting
    <3> QED
      BY <1>0, <3>1, <3>2, Zenon DEF BurstIsCached
  <2>2. \A u \in Threads : page'[u] = page[u] /\ entry'[u] = entry[u]
                           /\ pc'[u] = IF u = t THEN "admit" ELSE pc[u]
    BY <1>3, Zenon DEF DriverList, Goto, Flight, Types
  <2>3. \A x \in MapKeys : burst'[x] = IF x = m THEN 1 ELSE burst[x]
    BY <1>3, <2>1 DEF Flight, Types
  <2>4. ListsAreMissing'
    BY <1>0, <1>1, <2>2, NameOfPage, Zenon DEF ListsAreMissing, Flight, Types
  <2>5. ReadsAreCached'
    BY <1>0, <1>1, <2>2, NameOfPage, Zenon DEF ReadsAreCached, Flight, Types
  <2>6. HitsReadUndisturbed'
    BY <2>2, Zenon DEF HitsReadUndisturbed
  <2>7. BurstIsCached'
    <3>1. \A x \in MapKeys : Admitting(x) \subseteq Admitting(x)'
      BY <1>0, <2>2, Zenon DEF Admitting
    <3>2. t \in Admitting(m)'
      BY <2>2, Zenon DEF Admitting
    <3> SUFFICES ASSUME NEW x \in MapKeys, burst'[x] # 0
                 PROVE  Hit(x)' \/ Admitting(x)' # {}
      BY Zenon DEF BurstIsCached
    <3>3. CASE x = m
      BY <3>2, <3>3, Zenon
    <3>4. CASE x # m
      <4>1. Hit(x) \/ Admitting(x) # {}
        BY <2>3, <3>4, Zenon DEF BurstIsCached
      <4> QED
        BY <1>1, <3>1, <4>1, Zenon
    <3> QED
      BY <3>3, <3>4, Zenon
  <2>8. OneListPerBurst'
    BY <2>3 DEF OneListPerBurst
  <2> QED
    BY <2>4, <2>5, <2>6, <2>7, <2>8, Zenon
<1> QED
  BY <1>2, <1>3, Zenon DEF DriverList

\* An admission finds no reader in the entry that it writes.
LEMMA AdmitBursts ==
    ASSUME IInv, NEW t \in Threads, Admit(t)
    PROVE  Bursts'
<1> USE DEF IInv, Bursts
<1> PICK m : m = String(page[t])
  BY Zenon
<1>0. m \in MapKeys /\ pc[t] = "admit" /\ ~Hit(m)
  BY NameOfPage, Zenon DEF Admit, Flight, Types, ListsAreMissing
<1>1. /\ SamePages(Gone(m) \cup {m}) /\ Hit(m)'
      /\ \A x \in MapKeys : x \in Gone(m) /\ x # m => ~Hit(x)'
  <2>1. /\ SamePages(Gone(m) \cup {m}) /\ Hit(m)'
        /\ \A x \in MapKeys : x \in Gone(m) /\ x # m => ~Cached(x)'
    BY AdmittedItems, Zenon DEF Flight
  <2> QED
    BY <2>1, Zenon DEF Hit
<1>2. \A x \in MapKeys : burst'[x] = IF x \in Gone(m) THEN 0 ELSE burst[x]
  BY Zenon DEF Admit, Gone
<1>3. \A u \in Threads : page'[u] = page[u] /\ pc'[u] = IF u = t THEN "forget" ELSE pc[u]
  BY Zenon DEF Admit, Goto, Flight, Types
<1>4. \A u \in Threads : \/ entry'[u] = entry[u] /\ (String(page[u]) \notin Gone(m) \/ entry[u] # "same")
                         \/ entry'[u] = "gone" /\ pc[u] = "read"
  <2>1. CASE Cached(m)
    <3>1. Gone(m) = {}
      BY <2>1, Zenon DEF Gone, Kept
    <3>2. \A u \in Threads : ~(pc[u] = "read" /\ entry[u] = "same" /\ String(page[u]) = m)
      BY <1>0, Zenon DEF ReadsAreCached
    <3>3. Entries({m}, {"same"}, "rewritten")
      BY <2>1, Zenon DEF Admit
    <3> QED
      BY <3>1, <3>2, <3>3, Zenon DEF Entries
  <2>2. CASE ~Cached(m)
    <3>1. EntriesGone(Gone(m))
      BY <2>2, Zenon DEF Admit, Gone
    <3> QED
      BY <3>1, Zenon DEF EntriesGone, Entries, ReadsAreCached
  <2> QED
    BY <2>1, <2>2, Zenon
<1>5. ListsAreMissing'
  <2> SUFFICES ASSUME NEW u \in Threads, pc'[u] \in {"list", "admit"} PROVE ~Hit(String(page[u]))'
    BY <1>3, Zenon DEF ListsAreMissing
  <2>1. u # t /\ pc[u] \in {"list", "admit"} /\ String(page[u]) \in MapKeys
    BY <1>3, NameOfPage, Zenon DEF Flight, Types
  <2>2. String(page[u]) # m
    BY <1>0, <2>1, OneLeader, Zenon
  <2>3. ~Hit(String(page[u]))
    BY <2>1, Zenon DEF ListsAreMissing
  <2>4. \A x \in MapKeys : x # m /\ ~Hit(x) => ~Hit(x)'
    BY <1>1, Zenon DEF SamePages
  <2> QED
    BY <1>3, <2>1, <2>2, <2>3, <2>4, Zenon
<1>6. ReadsAreCached'
  BY <1>0, <1>1, <1>3, <1>4, NameOfPage, Zenon DEF SamePages, ReadsAreCached, Flight, Types
<1>7. HitsReadUndisturbed'
  BY <1>4, Zenon DEF HitsReadUndisturbed
<1>8. BurstIsCached'
  <2>1. \A x \in MapKeys : x # m => Admitting(x) \subseteq Admitting(x)'
    BY <1>3, Zenon DEF Admitting
  <2> SUFFICES ASSUME NEW x \in MapKeys, burst'[x] # 0
               PROVE  Hit(x)' \/ Admitting(x)' # {}
    BY Zenon DEF BurstIsCached
  <2>2. CASE x = m
    BY <1>1, <2>2, Zenon
  <2>3. CASE x # m
    <3>1. x \notin Gone(m) /\ (Hit(x) \/ Admitting(x) # {})
      BY <1>2, Zenon DEF BurstIsCached
    <3>2. Hit(x)' <=> Hit(x)
      BY <1>1, <2>3, <3>1, Zenon DEF SamePages
    <3> QED
      BY <2>1, <2>3, <3>1, <3>2, Zenon
  <2> QED
    BY <2>2, <2>3, Zenon
<1>9. OneListPerBurst'
  BY <1>2 DEF OneListPerBurst
<1> QED
  BY <1>5, <1>6, <1>7, <1>8, <1>9, Zenon
\* Lookups and the second look of a leader.
LEMMA LookBursts ==
    ASSUME IInv, NEW t \in Threads,
           (\E p \in Pages : LookupHit(t, p) \/ LookupMiss(t, p)) \/ Recheck(t) \/ ReadHit(t)
    PROVE  Bursts'
<1> USE DEF IInv, Bursts
<1>1. ASSUME NEW p \in Pages, LookupHit(t, p) PROVE Bursts'
  <2>1. String(p) \in MapKeys /\ Hit(String(p)) /\ Touched(String(p))
    BY <1>1, NameOfPage, Zenon DEF LookupHit
  <2>2. \A x \in MapKeys : Hit(x)' <=> Hit(x)
    BY <2>1, TouchedItems, Zenon DEF SamePages, Flight, Types
  <2>3. \A u \in Threads : /\ pc'[u] = IF u = t THEN "read" ELSE pc[u]
                           /\ page'[u] = IF u = t THEN p ELSE page[u]
                           /\ entry'[u] = IF u = t THEN "same" ELSE entry[u]
    BY <1>1, Zenon DEF LookupHit, Begins, Goto, Flight, Types
  <2>4. pc[t] = "idle" /\ UNCHANGED burst
    BY <1>1, Zenon DEF LookupHit, Begins
  <2>5. ListsAreMissing'
    BY <2>2, <2>3, NameOfPage, Zenon DEF ListsAreMissing, Flight, Types
  <2>6. ReadsAreCached'
    BY <2>1, <2>2, <2>3, NameOfPage, Zenon DEF ReadsAreCached, Flight, Types
  <2>7. HitsReadUndisturbed'
    BY <2>3, Zenon DEF HitsReadUndisturbed
  <2>8. BurstIsCached'
    <3>1. \A x \in MapKeys : Admitting(x) \subseteq Admitting(x)'
      BY <2>3, <2>4, Zenon DEF Admitting
    <3> QED
      BY <2>2, <2>4, <3>1, Zenon DEF BurstIsCached
  <2>9. OneListPerBurst'
    BY <2>4, Zenon DEF OneListPerBurst
  <2> QED
    BY <2>5, <2>6, <2>7, <2>8, <2>9, Zenon
<1>2. ASSUME NEW p \in Pages, LookupMiss(t, p) PROVE Bursts'
  <2>1. Outside
    BY <1>2, Zenon DEF Outside, LookupMiss, Begins, Goto, Flight, Types
  <2>2. CASE DropPages({String(p)})
    BY <2>1, <2>2, DropBursts, Zenon
  <2>3. CASE /\ burst' = IF Missed(String(p)) = {} THEN [burst EXCEPT ![String(p)] = 0] ELSE burst
             /\ UNCHANGED <<cacheVars, raced, entry>>
    <3>1. \A x \in MapKeys : burst'[x] \in {0, burst[x]}
      BY <2>3, Zenon DEF Flight, Types
    <3>2. \A x \in MapKeys : Hit(x)' <=> Hit(x)
      BY <2>3, Zenon DEF Hit, Cached, cacheVars
    <3> QED
      BY <2>1, <2>3, <3>1, <3>2, CalmBursts
  <2> QED
    BY <1>2, <2>2, <2>3, Zenon DEF LookupMiss
<1>3. CASE Recheck(t)
  <2>0. String(page[t]) \in MapKeys /\ pc[t] = "recheck" /\ UNCHANGED <<page, entry, burst>>
    BY <1>3, NameOfPage, Zenon DEF Recheck, Flight, Types
  <2>1. CASE Hit(String(page[t]))
    <3>1. \A x \in MapKeys : Hit(x)' <=> Hit(x)
      BY <1>3, <2>0, <2>1, TouchedItems, Zenon DEF Recheck, SamePages, Flight, Types
    <3>2. Outside
      BY <1>3, <2>0, <2>1, Zenon DEF Outside, Recheck, Goto, Flight, Types
    <3> QED
      BY <2>0, <3>1, <3>2, CalmBursts, Zenon
  <2>2. CASE ~Hit(String(page[t]))
    <3>1. \A x \in MapKeys : Hit(x)' <=> Hit(x)
      BY <1>3, <2>2, Zenon DEF Recheck, cacheVars, Hit, Cached
    <3>2. \A u \in Threads : pc'[u] = IF u = t THEN "list" ELSE pc[u]
      BY <1>3, <2>2, Zenon DEF Recheck, Goto, Flight, Types
    <3>3. ListsAreMissing'
      BY <2>0, <2>2, <3>1, <3>2, NameOfPage DEF ListsAreMissing, Flight, Types
    <3>4. ReadsAreCached'
      BY <2>0, <3>1, <3>2, NameOfPage, Zenon DEF ReadsAreCached, Flight, Types
    <3>5. HitsReadUndisturbed' /\ OneListPerBurst'
      BY <2>0, Zenon DEF HitsReadUndisturbed, OneListPerBurst
    <3>6. \A x \in MapKeys : Admitting(x) \subseteq Admitting(x)'
      BY <2>0, <3>2, Zenon DEF Admitting
    <3>7. BurstIsCached'
      BY <2>0, <3>1, <3>6 DEF BurstIsCached
    <3> QED
      BY <3>3, <3>4, <3>5, <3>7, Zenon
  <2> QED
    BY <2>1, <2>2, Zenon
<1>4. CASE ReadHit(t)
  <2>1. \A u \in Threads : /\ pc'[u] = IF u = t THEN "idle" ELSE pc[u]
                           /\ entry'[u] = IF u = t THEN "gone" ELSE entry[u]
    BY <1>4, Zenon DEF ReadHit, Goto, Flight, Types
  <2>2. \A x \in MapKeys : Hit(x)' <=> Hit(x)
    BY <1>4, Zenon DEF ReadHit, cacheVars, Hit, Cached
  <2>3. pc[t] = "read" /\ UNCHANGED <<page, burst>>
    BY <1>4, Zenon DEF ReadHit
  <2>4. ListsAreMissing'
    BY <2>1, <2>2, <2>3, NameOfPage, Zenon DEF ListsAreMissing, Flight, Types
  <2>5. ReadsAreCached'
    BY <2>1, <2>2, <2>3, NameOfPage, Zenon DEF ReadsAreCached, Flight, Types
  <2>6. HitsReadUndisturbed' /\ OneListPerBurst'
    BY <2>1, <2>3, Zenon DEF HitsReadUndisturbed, OneListPerBurst
  <2>7. \A x \in MapKeys : Admitting(x) \subseteq Admitting(x)'
    BY <2>1, <2>3, Zenon DEF Admitting
  <2>8. BurstIsCached'
    BY <2>2, <2>3, <2>7, Zenon DEF BurstIsCached
  <2> QED
    BY <2>4, <2>5, <2>6, <2>8, Zenon
<1> QED
  BY <1>1, <1>2, <1>3, <1>4, Zenon

\* The other steps of a call.
LEMMA CallBursts ==
    ASSUME IInv, NEW t \in Threads,
           Lead(t) \/ Join(t) \/ CancelWait(t) \/ Forget(t) \/ CloseCall(t)
    PROVE  Bursts'
<1>1. UNCHANGED <<items, burst, entry, page>>
  BY Zenon DEF Lead, Join, CancelWait, Forget, CloseCall, cacheVars
<1>2. Outside
  BY <1>1 DEF Outside, Lead, Join, CancelWait, Forget, CloseCall, Goto, IInv, Flight, Types
<1>3. \A x \in MapKeys : Hit(x)' <=> Hit(x)
  BY <1>1, Zenon DEF Hit, Cached
<1> QED
  BY <1>1, <1>2, <1>3, CalmBursts, Zenon

\* Writes, invalidations and the TTL end bursts.
LEMMA WriteBursts ==
    ASSUME IInv,
           \/ \E t \in Threads, d \in Docs : Write(t, d) \/ WriteUnknown(t, d)
           \/ \E d \in Docs : WriteElsewhere(d)
           \/ \E t \in Threads : InvalidateKey(t)
           \/ \E p \in Pages : InvalidatePrefix(p.prefix)
           \/ Purge
           \/ \E m \in MapKeys : Expire(m)
    PROVE  Bursts'
<1>1. ASSUME NEW d \in Docs,
             WriteElsewhere(d) \/ \E t \in Threads : Write(t, d) \/ WriteUnknown(t, d)
      PROVE  Bursts'
  <2>1. /\ UNCHANGED <<items, page, entry>>
        /\ burst' = [m \in MapKeys |-> IF m \in Lists(d) THEN 0 ELSE burst[m]]
        /\ \/ UNCHANGED pc
           \/ \E t \in Threads : pc[t] = "idle" /\ pc' = [pc EXCEPT ![t] = "prune"]
    BY <1>1, Zenon DEF WriteElsewhere, Write, WriteUnknown, Goto, cacheVars
  <2>2. Outside
    BY <2>1, Zenon DEF Outside, IInv, Flight, Types
  <2>3. \A x \in MapKeys : Hit(x)' <=> Hit(x)
    BY <2>1, Zenon DEF Hit, Cached
  <2>4. \A x \in MapKeys : burst'[x] \in {0, burst[x]}
    BY <2>1, Zenon
  <2> QED
    BY <2>1, <2>2, <2>3, <2>4, CalmBursts, Zenon
<1>2. ASSUME NEW t \in Threads, InvalidateKey(t) PROVE Bursts'
  <2>1. Outside
    BY <1>2, Zenon DEF InvalidateKey, Outside, Goto, IInv, Flight, Types
  <2> QED
    BY <1>2, <2>1, DropBursts, Zenon DEF InvalidateKey
<1>3. CASE Purge \/ \E p \in Pages : InvalidatePrefix(p.prefix)
  <2>1. Outside
    BY <1>3, Zenon DEF InvalidatePrefix, Purge, Outside
  <2> QED
    BY <1>3, <2>1, DropBursts, Zenon DEF InvalidatePrefix, Purge
<1>4. ASSUME NEW m \in MapKeys, Expire(m) PROVE Bursts'
  <2> USE DEF IInv, Bursts
  <2>1. SamePages({m}) /\ ~Hit(m)'
    BY <1>4, ExpiredItems, Zenon DEF Flight, Types
  <2>2. \A u \in Threads :
          entry'[u] = IF pc[u] = "read" /\ entry[u] = "same" /\ String(page[u]) = m
                      THEN "expired" ELSE entry[u]
    BY <1>4, Zenon DEF Expire, Entries
  <2>3. UNCHANGED <<pc, page>> /\ \A x \in MapKeys : burst'[x] = IF x = m THEN 0 ELSE burst[x]
    BY <1>4, Zenon DEF Expire, Flight, Types
  <2>4. ListsAreMissing'
    BY <2>1, <2>3, NameOfPage, Zenon DEF SamePages, ListsAreMissing, Flight, Types
  <2>5. ReadsAreCached'
    BY <2>1, <2>2, <2>3, NameOfPage, Zenon DEF SamePages, ReadsAreCached, Flight, Types
  <2>6. HitsReadUndisturbed' /\ OneListPerBurst'
    BY <2>2, <2>3 DEF HitsReadUndisturbed, OneListPerBurst
  <2>7. \A x \in MapKeys : Admitting(x) \subseteq Admitting(x)'
    BY <2>3, Zenon DEF Admitting
  <2>8. BurstIsCached'
    BY <2>1, <2>3, <2>7, Zenon DEF BurstIsCached, SamePages
  <2> QED
    BY <2>4, <2>5, <2>6, <2>8, Zenon
<1> QED
  BY <1>1, <1>2, <1>3, <1>4, Zenon

\* Every step keeps what is known of bursts.
LEMMA InvStep == IInv /\ [Next]_vars => IInv'
<1>1. IInv /\ [Next]_vars => Flight'
  BY FlightStep, Zenon DEF IInv
<1>2. IInv /\ UNCHANGED vars => Bursts'
  <2> SUFFICES ASSUME IInv, UNCHANGED vars PROVE Bursts'
    BY Zenon
  <2>1. Outside /\ \A x \in MapKeys : Hit(x)' <=> Hit(x)
    BY Zenon DEF vars, Outside, Hit, Cached
  <2> QED
    BY <2>1, CalmBursts, Zenon DEF vars
<1>3. IInv /\ Next => Bursts'
  BY LookBursts, ListBursts, AdmitBursts, CallBursts, WriteBursts DEF Next, Step
<1> QED
  BY <1>1, <1>2, <1>3, Zenon DEF IInv

\* The singleflight calls of ListPage, the coalescing of misses and the reads
\* of a hit after the unlock: the inductive invariant and what it gives.
THEOREM ListPageInvariant == Spec => []IInv
BY InitInv, InvStep, PTL DEF Spec

\* Only one goroutine lists for a map key, and whoever waits in ListPage waits
\* for a leader that will close its call.
THEOREM ListWaitersHaveALeader == Spec => []WaitersHaveALeader
<1>1. IInv => WaitersHaveALeader
  BY Zenon DEF IInv, Flight
<1> QED
  BY <1>1, ListPageInvariant, PTL

\* Overlapping misses of a page cost one driver.List.
THEOREM MissesCoalesce == Spec => []OneListPerBurst
<1>1. IInv => OneListPerBurst
  BY Zenon DEF IInv, Bursts
<1> QED
  BY <1>1, ListPageInvariant, PTL

\* No admission writes an entry that a hit is about to read.
THEOREM ReadersAreUndisturbed == Spec => []HitsReadUndisturbed
<1>1. IInv => HitsReadUndisturbed
  BY Zenon DEF IInv, Bursts
<1> QED
  BY <1>1, ListPageInvariant, PTL
-----------------------------------------------------------------------------
(* Freshness.                                                              *)

\* Whoever lists a document under its prefix is found by the write.
LEMMA WriteFindsPage ==
    ASSUME NEW p \in Pages, NEW d \in Under(p.prefix)
    PROVE  String(p) \in Lists(d)
BY Zenon DEF Lists, Under, MapKeys

\* A write of another document leaves a listing as it is.
LEMMA ListOfOthers ==
    ASSUME Types, NEW p, NEW d \in Docs, d \notin Under(p.prefix),
           store' = [store EXCEPT ![d] = @ + 1]
    PROVE  \A x \in Under(p.prefix) : store'[x] = store[x]
<1>1. \A x \in Under(p.prefix) : x \in Docs /\ x # d
  BY Zenon DEF Under
<1> QED
  BY <1>1, Zenon DEF Types

\* A step without a write that puts nothing in hand or in the map, and forgets a
\* race only when the page goes.
LEMMA SteadyFresh ==
    ASSUME IInv, Freshness, UNCHANGED store,
           \A u \in Threads : pc'[u] = "admit" =>
             pc[u] = "admit" /\ page'[u] = page[u] /\ val'[u] = val[u],
           \A x \in MapKeys : x \in raced /\ (Admitting(x) # {} \/ Cached(x)') => x \in raced',
           \A x \in MapKeys : Cached(x)' =>
             Cached(x) /\ items'[x].page = items[x].page /\ items'[x].val = items[x].val,
           \A x \in MapKeys, u \in Threads :
             Cached(x)' /\ pc[u] = "prune" /\ doc[u] \in Under(items[x].page.prefix) =>
             pc'[u] = "prune" /\ doc'[u] = doc[u]
    PROVE  Freshness'
<1>1. AdmittedIsCurrent'
  <2> SUFFICES ASSUME NEW u \in Threads, pc'[u] = "admit", String(page[u]) \notin raced'
               PROVE  val[u] = [d \in Under(page[u].prefix) |-> store[d]]
    BY DEF AdmittedIsCurrent, List
  <2>1. pc[u] = "admit" /\ String(page[u]) \in MapKeys
    BY NameOfPage, Zenon DEF IInv, Flight, Types
  <2>2. Admitting(String(page[u])) # {}
    BY <2>1, Zenon DEF Admitting
  <2> QED
    BY <2>1, <2>2, Zenon DEF Freshness, AdmittedIsCurrent, List
<1>2. PagesAreCurrent'
  <2> SUFFICES ASSUME NEW x \in MapKeys, Cached(x)', x \notin raced',
                      \A u \in Threads :
                        pc'[u] = "prune" => doc'[u] \notin Under(items[x].page.prefix)
               PROVE  items[x].val = [d \in Under(items[x].page.prefix) |-> store[d]]
    BY DEF PagesAreCurrent, List
  <2>1. Cached(x) /\ x \notin raced
    BY Zenon
  <2>2. \A u \in Threads : pc[u] = "prune" => doc[u] \notin Under(items[x].page.prefix)
    BY Zenon
  <2> QED
    BY <2>1, <2>2, Zenon DEF Freshness, PagesAreCurrent, List
<1> QED
  BY <1>1, <1>2, Zenon DEF Freshness

\* What the driver lists is current.
LEMMA ListFresh ==
    ASSUME IInv, Freshness, NEW t \in Threads, DriverList(t)
    PROVE  Freshness'
<1>0. /\ pc[t] = "list" /\ UNCHANGED <<store, items, page, doc, raced>>
      /\ \/ val' = [val EXCEPT ![t] = List(page[t])] /\ pc' = [pc EXCEPT ![t] = "admit"]
         \/ pc' = [pc EXCEPT ![t] = "forget"] /\ UNCHANGED val
  BY Zenon DEF DriverList, Goto, cacheVars
<1>1. \A u \in Threads : pc'[u] = "admit" =>
        IF u = t THEN val'[u] = List(page[t]) ELSE pc[u] = "admit" /\ val'[u] = val[u]
  BY <1>0, Zenon DEF IInv, Flight, Types
<1>2. AdmittedIsCurrent'
  <2>1. UNCHANGED <<store, page, raced>>
    BY <1>0, Zenon
  <2> SUFFICES ASSUME NEW u \in Threads, pc'[u] = "admit", String(page[u]) \notin raced
               PROVE  val'[u] = List(page[u])
    BY <2>1, Zenon DEF AdmittedIsCurrent, List
  <2> QED
    BY <1>1, Zenon DEF Freshness, AdmittedIsCurrent
<1>3. \A u \in Threads : pc[u] = "prune" => pc'[u] = "prune"
  BY <1>0, Zenon DEF IInv, Flight, Types
<1>4. PagesAreCurrent'
  BY <1>0, <1>3 DEF Freshness, PagesAreCurrent, List, Cached
<1> QED
  BY <1>2, <1>4, Zenon DEF Freshness

\* What is admitted is current, or marked as raced.
LEMMA AdmitFresh ==
    ASSUME NamesAreDistinct, IInv, Freshness, NEW t \in Threads, Admit(t)
    PROVE  Freshness'
<1> PICK m : m = String(page[t])
  BY Zenon
<1>0. pc[t] = "admit" /\ page[t] \in Pages /\ UNCHANGED <<store, page, doc, val>>
  BY Zenon DEF Admit, IInv, Flight, Types
<1>1. /\ m \in MapKeys /\ SamePages(Gone(m) \cup {m})
      /\ items'[m].val = val[t]
      /\ items'[m].page = IF Cached(m) THEN items[m].page ELSE page[t]
      /\ \A x \in MapKeys : x \in Gone(m) /\ x # m => ~Cached(x)'
  BY AdmittedItems, Zenon DEF IInv, Flight
<1>2. items'[m].page = page[t]
  <2>1. CASE Cached(m)
    <3>1. items[m].page \in Pages /\ String(items[m].page) = m
      BY <1>1, <2>1, Zenon DEF Cached, IInv, Flight, Types, ItemTypes, Entry
    <3> QED
      BY <1>0, <1>1, <2>1, <3>1, Zenon DEF NamesAreDistinct
  <2> QED
    BY <1>1, <2>1, Zenon
<1>3. \A u \in Threads : /\ pc'[u] = "admit" => pc[u] = "admit"
                         /\ pc[u] = "prune" => pc'[u] = "prune"
  BY <1>0, Zenon DEF Admit, Goto, IInv, Flight, Types
<1>4. \A x : x \in raced /\ (x \notin Gone(m) \/ Admitting(x) # {}) => x \in raced'
  BY Zenon DEF Admit, Gone
<1>5. AdmittedIsCurrent'
  <2> SUFFICES ASSUME NEW u \in Threads, pc'[u] = "admit", String(page[u]) \notin raced'
               PROVE  val[u] = [d \in Under(page[u].prefix) |-> store[d]]
    BY <1>0, Zenon DEF AdmittedIsCurrent, List
  <2>1. Admitting(String(page[u])) # {} /\ pc[u] = "admit"
    BY <1>3, Zenon DEF Admitting
  <2> QED
    BY <1>4, <2>1, Zenon DEF Freshness, AdmittedIsCurrent, List
<1>6. PagesAreCurrent'
  <2> SUFFICES ASSUME NEW x \in MapKeys, Cached(x)', x \notin raced',
                      \A u \in Threads :
                        pc'[u] = "prune" => doc[u] \notin Under(items'[x].page.prefix)
               PROVE  items'[x].val = [d \in Under(items'[x].page.prefix) |-> store[d]]
    BY <1>0, Zenon DEF PagesAreCurrent, List
  <2>1. CASE x = m
    <3>1. t \in Admitting(m)
      BY <1>0, Zenon DEF Admitting
    <3>2. m \notin raced
      BY <1>4, <2>1, <3>1, Zenon
    <3> QED
      BY <1>0, <1>1, <1>2, <2>1, <3>2, Zenon DEF Freshness, AdmittedIsCurrent, List
  <2>2. CASE x # m
    <3>1. x \notin Gone(m) /\ x \notin raced
      BY <1>1, <1>4, <2>2, Zenon
    <3>2. Cached(x) /\ items'[x] = items[x]
      BY <1>1, <2>2, <3>1, Zenon DEF SamePages
    <3>3. \A u \in Threads : pc[u] = "prune" => doc[u] \notin Under(items[x].page.prefix)
      BY <1>3, <3>2, Zenon
    <3> QED
      BY <3>1, <3>2, <3>3, Zenon DEF Freshness, PagesAreCurrent, List
  <2> QED
    BY <2>1, <2>2, Zenon
<1> QED
  BY <1>5, <1>6, Zenon DEF Freshness

\* A write marks what is in hand, and its prune will find what is cached.
LEMMA WriteFresh ==
    ASSUME IInv, Freshness, NEW d \in Docs,
           WriteElsewhere(d) \/ \E t \in Threads : Write(t, d) \/ WriteUnknown(t, d)
    PROVE  Freshness'
<1> USE DEF IInv, Flight
<1>1. /\ store' = [store EXCEPT ![d] = @ + 1] /\ UNCHANGED <<items, page>>
      /\ \/ raced' = raced \cup Lists(d) /\ UNCHANGED <<pc, doc, val>>
         \/ /\ raced' = raced \cup {m \in Lists(d) : Admitting(m) # {}}
            /\ \E t \in Threads : /\ pc[t] = "idle" /\ pc' = [pc EXCEPT ![t] = "prune"]
                                  /\ doc' = [doc EXCEPT ![t] = d]
                                  /\ val' = [val EXCEPT ![t] = NoPage]
  BY Zenon DEF WriteElsewhere, Write, WriteUnknown, Goto, cacheVars
<1>2. \A u \in Threads : /\ pc'[u] = "admit" => pc[u] = "admit" /\ val'[u] = val[u]
                         /\ pc[u] = "prune" => pc'[u] = "prune" /\ doc'[u] = doc[u]
  BY <1>1, Zenon DEF Types
<1>3. AdmittedIsCurrent'
  <2> SUFFICES ASSUME NEW u \in Threads, pc'[u] = "admit", String(page[u]) \notin raced'
               PROVE  val[u] = [x \in Under(page[u].prefix) |-> store'[x]]
    BY <1>1, <1>2, Zenon DEF AdmittedIsCurrent, List
  <2>1. pc[u] = "admit" /\ page[u] \in Pages
    BY <1>2, Zenon DEF Types
  <2>2. Admitting(String(page[u])) # {}
    BY <2>1, Zenon DEF Admitting
  <2>3. String(page[u]) \notin Lists(d) /\ String(page[u]) \notin raced
    BY <1>1, <2>2, Zenon
  <2>4. d \notin Under(page[u].prefix)
    BY <2>1, <2>3, WriteFindsPage, Zenon
  <2>5. val[u] = List(page[u])
    BY <2>1, <2>3, Zenon DEF Freshness, AdmittedIsCurrent
  <2>6. \A x \in Under(page[u].prefix) : store'[x] = store[x]
    BY <1>1, <2>4, ListOfOthers, Zenon
  <2> QED
    BY <2>5, <2>6, Zenon DEF List
<1>4. PagesAreCurrent'
  <2> SUFFICES ASSUME NEW x \in MapKeys, Cached(x)', x \notin raced',
                      \A u \in Threads :
                        pc'[u] = "prune" => doc'[u] \notin Under(items[x].page.prefix)
               PROVE  items[x].val = [y \in Under(items[x].page.prefix) |-> store'[y]]
    BY <1>1, Zenon DEF PagesAreCurrent, List
  <2>1. Cached(x) /\ x \notin raced
    BY <1>1, Zenon DEF Cached
  <2>2. items[x].page \in Pages /\ String(items[x].page) = x
    BY <2>1, Zenon DEF Cached, Types, ItemTypes, Entry
  <2>3. \A u \in Threads : pc[u] = "prune" => doc[u] \notin Under(items[x].page.prefix)
    BY <1>2, Zenon
  <2>4. items[x].val = List(items[x].page)
    BY <2>1, <2>3, Zenon DEF Freshness, PagesAreCurrent
  <2>5. d \notin Under(items[x].page.prefix)
    <3>1. CASE raced' = raced \cup Lists(d)
      BY <2>2, <3>1, WriteFindsPage, Zenon
    <3>2. CASE \E t \in Threads : pc' = [pc EXCEPT ![t] = "prune"] /\ doc' = [doc EXCEPT ![t] = d]
      BY <3>2, Zenon DEF Types
    <3> QED
      BY <1>1, <3>1, <3>2, Zenon
  <2>6. \A y \in Under(items[x].page.prefix) : store'[y] = store[y]
    BY <1>1, <2>5, ListOfOthers, Zenon
  <2> QED
    BY <2>4, <2>6, Zenon DEF List
<1> QED
  BY <1>3, <1>4, Zenon DEF Freshness
\* Whatever leaves the map, and whichever write has pruned, the pages that
\* stay are as fresh as before.
LEMMA DropFresh ==
    ASSUME IInv, Freshness, NEW M, DropPages(M), UNCHANGED store,
           \A u \in Threads : pc'[u] = "admit" =>
             pc[u] = "admit" /\ page'[u] = page[u] /\ val'[u] = val[u],
           \A x \in MapKeys \ M, u \in Threads :
             Cached(x) /\ pc[u] = "prune" /\ doc[u] \in Under(items[x].page.prefix) =>
             pc'[u] = "prune" /\ doc'[u] = doc[u]
    PROVE  Freshness'
<1>1. SamePages(M) /\ \A x \in MapKeys : x \in M => ~Cached(x)'
  BY DroppedItems, Zenon DEF IInv, Flight, Types
<1>2. \A x : x \in raced /\ (x \notin M \/ Admitting(x) # {}) => x \in raced'
  BY Zenon DEF DropPages
<1>3. \A x \in MapKeys : Cached(x)' => x \notin M /\ Cached(x) /\ items'[x] = items[x]
  BY <1>1, Zenon DEF SamePages
<1> QED
  BY <1>2, <1>3, SteadyFresh, Zenon

\* The steps that read the map, or find nothing in it.
LEMMA LookFresh ==
    ASSUME IInv, Freshness, NEW t \in Threads,
           \/ \E p \in Pages : LookupHit(t, p) \/ LookupMiss(t, p)
           \/ Recheck(t) \/ ReadHit(t)
    PROVE  Freshness'
<1> USE DEF IInv, Flight, Goto
<1>1. ASSUME NEW m \in MapKeys, Hit(m), Touched(m), UNCHANGED <<store, doc, raced>>,
             NEW l \in {"read", "forget"}, pc' = [pc EXCEPT ![t] = l], pc[t] # "prune",
             \A u \in Threads : u # t => page'[u] = page[u] /\ val'[u] = val[u]
      PROVE  Freshness'
  <2>1. \A u \in Threads : /\ pc'[u] = "admit" => pc[u] = "admit" /\ u # t
                           /\ pc[u] = "prune" => pc'[u] = "prune"
    BY <1>1, Zenon DEF Types
  <2>2. \A x \in MapKeys : Cached(x)' =>
          Cached(x) /\ items'[x].page = items[x].page /\ items'[x].val = items[x].val
    BY <1>1, TouchedItems, Zenon DEF SamePages, Types, Hit
  <2> QED
    BY <1>1, <2>1, <2>2, SteadyFresh, Zenon
<1>2. ASSUME NEW p \in Pages, LookupHit(t, p) PROVE Freshness'
  <2>1. \A u \in Threads : u # t => page'[u] = page[u] /\ val'[u] = val[u]
    BY <1>2, Zenon DEF LookupHit, Begins, Types
  <2> QED
    BY <1>1, <1>2, <2>1, NameOfPage, Zenon DEF LookupHit, Begins
<1>3. ASSUME NEW p \in Pages, LookupMiss(t, p) PROVE Freshness'
  <2>1. /\ pc[t] = "idle" /\ pc' = [pc EXCEPT ![t] = "miss"] /\ page' = [page EXCEPT ![t] = p]
        /\ val' = [val EXCEPT ![t] = NoPage] /\ UNCHANGED <<store, doc>>
    BY <1>3, Zenon DEF LookupMiss, Begins
  <2>2. \A u \in Threads : /\ pc'[u] = "admit" => pc[u] = "admit" /\ page'[u] = page[u] /\ val'[u] = val[u]
                           /\ pc[u] = "prune" => pc'[u] = "prune" /\ doc'[u] = doc[u]
    BY <2>1, Zenon DEF Types
  <2>3. CASE DropPages({String(p)})
    BY <2>1, <2>2, <2>3, DropFresh, Zenon
  <2>4. CASE UNCHANGED <<cacheVars, raced, entry>>
    <3>1. \A x \in MapKeys : Cached(x)' => Cached(x) /\ items'[x] = items[x]
      BY <2>4, Zenon DEF Cached, cacheVars
    <3> QED
      BY <2>1, <2>2, <2>4, <3>1, SteadyFresh, Zenon
  <2> QED
    BY <1>3, <2>3, <2>4, Zenon DEF LookupMiss
<1>4. CASE Recheck(t)
  <2>a. pc[t] = "recheck" /\ UNCHANGED <<store, doc, page, raced>>
    BY <1>4, Zenon DEF Recheck
  <2>0. String(page[t]) \in MapKeys /\ pc[t] = "recheck" /\ UNCHANGED <<store, doc, page, raced>>
    BY <2>a, NameOfPage, Zenon DEF Types
  <2>1. CASE Hit(String(page[t]))
    <3>1. \A u \in Threads : u # t => page'[u] = page[u] /\ val'[u] = val[u]
      BY <1>4, <2>0, <2>1, Zenon DEF Recheck, Types
    <3> QED
      BY <1>1, <1>4, <2>0, <2>1, <3>1, Zenon DEF Recheck
  <2>2. CASE ~Hit(String(page[t]))
    <3>1. UNCHANGED <<items, val>> /\ pc' = [pc EXCEPT ![t] = "list"]
      BY <1>4, <2>2, Zenon DEF Recheck, cacheVars
    <3>2. \A u \in Threads : /\ pc'[u] = "admit" => pc[u] = "admit"
                             /\ pc[u] = "prune" => pc'[u] = "prune"
      BY <2>0, <3>1, Zenon DEF Types
    <3>3. \A x \in MapKeys : Cached(x)' => Cached(x) /\ items'[x] = items[x]
      BY <3>1, Zenon DEF Cached
    <3> QED
      BY <2>0, <3>1, <3>2, <3>3, SteadyFresh, Zenon
  <2> QED
    BY <2>1, <2>2, Zenon
<1>5. CASE ReadHit(t)
  <2>1. UNCHANGED <<store, items, doc, page, raced>> /\ pc[t] = "read"
        /\ pc' = [pc EXCEPT ![t] = "idle"]
    BY <1>5, Zenon DEF ReadHit, cacheVars
  <2>2. \A u \in Threads : /\ pc'[u] = "admit" => pc[u] = "admit" /\ val'[u] = val[u]
                           /\ pc[u] = "prune" => pc'[u] = "prune"
    BY <1>5, <2>1, Zenon DEF ReadHit, Types
  <2>3. \A x \in MapKeys : Cached(x)' => Cached(x) /\ items'[x] = items[x]
    BY <2>1, Zenon DEF Cached
  <2> QED
    BY <2>1, <2>2, <2>3, SteadyFresh, Zenon
<1> QED
  BY <1>2, <1>3, <1>4, <1>5, Zenon

\* The other steps of a call.
LEMMA CallFresh ==
    ASSUME IInv, Freshness, NEW t \in Threads,
           Lead(t) \/ Join(t) \/ CancelWait(t) \/ Forget(t) \/ CloseCall(t)
    PROVE  Freshness'
<1> USE DEF IInv, Flight, Goto
<1>1. UNCHANGED <<store, items, doc, page, raced>>
  BY Zenon DEF Lead, Join, CancelWait, Forget, CloseCall, cacheVars
<1>2. \A u \in Threads : /\ pc'[u] = "admit" => pc[u] = "admit" /\ val'[u] = val[u]
                         /\ pc[u] = "prune" => pc'[u] = "prune"
  <2>1. CASE Lead(t) \/ Join(t) \/ CancelWait(t) \/ Forget(t)
    BY <2>1, Zenon DEF Lead, Join, CancelWait, Forget, Types
  <2>2. CASE CloseCall(t)
    BY <2>2, Zenon DEF CloseCall, Types
  <2> QED
    BY <2>1, <2>2, Zenon
<1>3. \A x \in MapKeys : Cached(x)' => Cached(x) /\ items'[x] = items[x]
  BY <1>1, Zenon DEF Cached
<1> QED
  BY <1>1, <1>2, <1>3, SteadyFresh, Zenon

\* InvalidateKey takes every page that lists the written document; the TTL and
\* the other invalidations need not.
LEMMA PruneFresh ==
    ASSUME IInv, Freshness,
           \/ \E t \in Threads : InvalidateKey(t)
           \/ \E p \in Pages : InvalidatePrefix(p.prefix)
           \/ Purge
           \/ \E m \in MapKeys : Expire(m)
    PROVE  Freshness'
<1> USE DEF IInv, Flight, Goto
<1>1. ASSUME NEW t \in Threads, InvalidateKey(t) PROVE Freshness'
  <2> DEFINE M == {m \in MapKeys : Matches(m, doc[t])}
  <2>1. DropPages(M) /\ UNCHANGED <<store, page, doc, val>>
    BY <1>1, Zenon DEF InvalidateKey
  <2>2. \A u \in Threads : /\ pc'[u] = "admit" => pc[u] = "admit"
                           /\ pc[u] = "prune" /\ u # t => pc'[u] = "prune"
    BY <1>1, Zenon DEF InvalidateKey, Types
  <2>3. \A x \in MapKeys \ M : Cached(x) => doc[t] \notin Under(items[x].page.prefix)
    BY Zenon DEF Matches, Under
  <2> HIDE DEF M
  <2> QED
    BY <2>1, <2>2, <2>3, DropFresh, Zenon
<1>2. ASSUME NEW M, DropPages(M), UNCHANGED <<store, pc, page, doc, val>> PROVE Freshness'
  BY <1>2, DropFresh, Zenon
<1>3. ASSUME NEW m \in MapKeys, Expire(m) PROVE Freshness'
  <2>1. UNCHANGED <<store, pc, page, doc, val, raced>>
    BY <1>3, Zenon DEF Expire
  <2>2. \A x \in MapKeys : Cached(x)' =>
          Cached(x) /\ items'[x].page = items[x].page /\ items'[x].val = items[x].val
    <3>1. Cached(m)
      BY <1>3, Zenon DEF Expire, Hit
    <3>2. /\ SamePages({m})
          /\ items'[m].page = items[m].page /\ items'[m].val = items[m].val
      <4>1. ItemTypes
        BY Zenon DEF Types
      <4> QED
        BY <1>3, <4>1, ExpiredItems, Zenon
    <3> QED
      BY <3>1, <3>2, Zenon DEF SamePages
  <2> QED
    BY <2>1, <2>2, SteadyFresh, Zenon
<1>4. CASE Purge
  BY <1>2, <1>4, Zenon DEF Purge
<1>5. ASSUME NEW p \in Pages, InvalidatePrefix(p.prefix) PROVE Freshness'
  <2>1. UNCHANGED <<store, pc, page, doc, val>> /\ \E M : DropPages(M)
    BY <1>5, Zenon DEF InvalidatePrefix
  <2> QED
    BY <1>2, <2>1, Zenon
<1> QED
  BY <1>1, <1>3, <1>4, <1>5, Zenon

\* Every step keeps the cached pages fresh.
LEMMA FreshStep ==
    ASSUME NamesAreDistinct, IInv, Freshness, [Next]_vars
    PROVE  Freshness'
<1>1. CASE UNCHANGED vars
  BY <1>1 DEF vars, Freshness, AdmittedIsCurrent, PagesAreCurrent, List, Cached
<1>2. CASE Next
  BY <1>2, LookFresh, ListFresh, AdmitFresh, CallFresh, WriteFresh, PruneFresh, Zenon
     DEF Next, Step
<1> QED
  BY <1>1, <1>2, Zenon

\* Where no two listing queries have one String(), a cached page is what the
\* driver would list once the writes have pruned, unless a write overtook its
\* listing, failed after it was applied, or came from another node.
THEOREM CachedPagesAreFresh ==
    ASSUME NamesAreDistinct
    PROVE  Spec => []FreshUnlessRaced
<1>1. Init => Freshness
  BY DEF Init, Freshness, AdmittedIsCurrent, PagesAreCurrent, Cached
<1>2. IInv /\ Freshness /\ [Next]_vars => Freshness'
  BY FreshStep, Zenon
<1>3. IInv /\ Freshness => FreshUnlessRaced
  <2> SUFFICES ASSUME IInv, Freshness, NEW m \in MapKeys, Cached(m), m \notin raced,
                      \A t \in Threads : pc[t] = "prune" => m \notin Lists(doc[t])
               PROVE  items[m].val = List(items[m].page)
    BY Zenon DEF FreshUnlessRaced
  <2>1. items[m].page \in Pages /\ String(items[m].page) = m
    BY Zenon DEF Cached, IInv, Flight, Types, ItemTypes, Entry
  <2>2. \A t \in Threads : pc[t] = "prune" => doc[t] \notin Under(items[m].page.prefix)
    BY <2>1, WriteFindsPage, Zenon
  <2> QED
    BY <2>2, Zenon DEF Freshness, PagesAreCurrent
<1> QED
  BY <1>1, <1>2, <1>3, ListPageInvariant, PTL DEF Spec
-----------------------------------------------------------------------------
(* Capacity.                                                               *)

\* The list holds the map keys of the cached pages, each once.
ListIsMap ==
    /\ lru \in Seq(MapKeys) /\ Distinct(lru) /\ Len(lru) <= MaxPages
    /\ Elements(lru) = {m \in MapKeys : Cached(m)}

\* A step that leaves the list alone, and neither adds nor drops a page.
LEMMA SameList ==
    ASSUME ListIsMap, UNCHANGED lru, \A x \in MapKeys : Cached(x)' <=> Cached(x)
    PROVE  ListIsMap'
<1>1. {m \in MapKeys : Cached(m)}' = {m \in MapKeys : Cached(m)}
  BY Zenon
<1> QED
  BY <1>1, Zenon DEF ListIsMap

\* An invalidation takes the same pages out of the map and the list.
LEMMA DropList ==
    ASSUME ListIsMap, ItemTypes, NEW M, DropPages(M)
    PROVE  ListIsMap'
<1>1. lru' = Without(lru, M)
  BY Zenon DEF DropPages
<1>2. lru' \in Seq(MapKeys) /\ Len(lru') <= Len(lru) /\ Elements(lru') = Elements(lru) \ M
  BY <1>1, WithoutFacts DEF ListIsMap
<1>3. Distinct(lru')
  BY <1>1, WithoutDistinct DEF ListIsMap
<1>4. {m \in MapKeys : Cached(m)}' = {m \in MapKeys : Cached(m)} \ M
  BY DroppedItems, Zenon DEF SamePages
<1>5. Len(lru') <= MaxPages
  BY <1>2, ListCacheAssumption DEF ListIsMap
<1> QED
  BY <1>2, <1>3, <1>4, <1>5, Zenon DEF ListIsMap

\* A hit moves its page to the front.
LEMMA TouchList ==
    ASSUME ListIsMap, ItemTypes, NEW m \in MapKeys, Hit(m), Touched(m)
    PROVE  ListIsMap'
<1>1. lru' = <<m>> \o Without(lru, {m})
  BY Zenon DEF Touched, ToFront
<1>2. m \in Elements(lru)
  BY Zenon DEF ListIsMap, Hit
<1>3. /\ lru' \in Seq(MapKeys) /\ Distinct(lru') /\ Len(lru') = Len(lru)
      /\ Elements(lru') = Elements(lru) \cup {m}
  <2>1. lru \in Seq(MapKeys) /\ Distinct(lru)
    BY Zenon DEF ListIsMap
  <2>2. /\ <<m>> \o Without(lru, {m}) \in Seq(MapKeys)
        /\ Distinct(<<m>> \o Without(lru, {m}))
        /\ Elements(<<m>> \o Without(lru, {m})) = Elements(lru) \cup {m}
        /\ Len(<<m>> \o Without(lru, {m})) <= Len(lru) + 1
        /\ m \in Elements(lru) => Len(<<m>> \o Without(lru, {m})) = Len(lru)
    BY <2>1, ToFrontFacts, Zenon
  <2> QED
    BY <1>1, <1>2, <2>2, Zenon
<1>4. Hit(m)' /\ SamePages({m})
  BY TouchedItems, Zenon
<1>5. {x \in MapKeys : Cached(x)}' = {x \in MapKeys : Cached(x)}
  BY <1>4, Zenon DEF SamePages, Hit
<1> QED
  BY <1>2, <1>3, <1>5, Zenon DEF ListIsMap

\* What admit keeps has room for one more page, unless the page is there.
LEMMA KeptFacts ==
    ASSUME ListIsMap, NEW m \in MapKeys
    PROVE  /\ Kept(m) \in Seq(MapKeys) /\ Distinct(Kept(m))
           /\ Elements(Kept(m)) \subseteq Elements(lru)
           /\ Cached(m) => Kept(m) = lru
           /\ ~Cached(m) => Len(Kept(m)) + 1 <= MaxPages
<1>1. CASE Cached(m)
  BY <1>1, Zenon DEF Kept, ListIsMap
<1>2. CASE ~Cached(m)
  <2>1. PICK n : n = IF Len(lru) < MaxPages THEN Len(lru) ELSE MaxPages - 1
    OBVIOUS
  <2>2. n \in 0..Len(lru) /\ n + 1 <= MaxPages
    BY <2>1, ListCacheAssumption DEF ListIsMap
  <2>3. Kept(m) = SubSeq(lru, 1, n)
    BY <1>2, <2>1, Zenon DEF Kept
  <2>4. /\ Kept(m) \in Seq(MapKeys) /\ Len(Kept(m)) = n /\ Distinct(Kept(m))
        /\ Elements(Kept(m)) \subseteq Elements(lru)
    BY <2>2, <2>3, FirstFacts DEF ListIsMap
  <2> QED
    BY <1>2, <2>2, <2>4, Zenon
<1> QED
  BY <1>1, <1>2, Zenon

\* An admission evicts from the map what it drops from the end of the list.
LEMMA AdmitList ==
    ASSUME ListIsMap, Types, NEW t \in Threads, Admit(t)
    PROVE  ListIsMap'
<1>1. PICK m : m = String(page[t])
  OBVIOUS
<1>2. /\ m \in MapKeys /\ SamePages(Gone(m) \cup {m}) /\ Hit(m)'
      /\ \A x \in MapKeys : x \in Gone(m) /\ x # m => ~Cached(x)'
  BY <1>1, AdmittedItems, Zenon
<1>3. lru' = <<m>> \o Without(Kept(m), {m})
  BY <1>1, Zenon DEF Admit
<1>4. /\ Kept(m) \in Seq(MapKeys) /\ Distinct(Kept(m))
      /\ Elements(Kept(m)) \subseteq Elements(lru)
      /\ Cached(m) => Kept(m) = lru
      /\ ~Cached(m) => Len(Kept(m)) + 1 <= MaxPages
  BY <1>2, KeptFacts, Zenon
<1>5. /\ lru' \in Seq(MapKeys) /\ Distinct(lru')
      /\ Elements(lru') = Elements(Kept(m)) \cup {m}
      /\ Len(lru') <= Len(Kept(m)) + 1
      /\ m \in Elements(Kept(m)) => Len(lru') = Len(Kept(m))
  <2>1. /\ <<m>> \o Without(Kept(m), {m}) \in Seq(MapKeys)
        /\ Distinct(<<m>> \o Without(Kept(m), {m}))
        /\ Elements(<<m>> \o Without(Kept(m), {m})) = Elements(Kept(m)) \cup {m}
        /\ Len(<<m>> \o Without(Kept(m), {m})) <= Len(Kept(m)) + 1
        /\ m \in Elements(Kept(m)) => Len(<<m>> \o Without(Kept(m), {m})) = Len(Kept(m))
    BY <1>2, <1>4, ToFrontFacts, Zenon
  <2> QED
    BY <1>3, <2>1, Zenon
<1>6. Len(lru') <= MaxPages
  <2>1. CASE Cached(m)
    <3>1. m \in Elements(Kept(m)) /\ Kept(m) = lru
      BY <1>2, <1>4, <2>1, Zenon DEF ListIsMap
    <3> QED
      BY <1>5, <3>1, Zenon DEF ListIsMap
  <2>2. CASE ~Cached(m)
    <3>1. Len(lru') \in Int /\ Len(Kept(m)) \in Int
      BY <1>4, <1>5
    <3> QED
      BY <1>4, <1>5, <2>2, <3>1, ListCacheAssumption
  <2> QED
    BY <2>1, <2>2, Zenon
<1>7. {x \in MapKeys : Cached(x)}' = Elements(Kept(m)) \cup {m}
  <2>1. \A x \in MapKeys : x # m => (Cached(x)' <=> Cached(x) /\ x \notin Gone(m))
    BY <1>2, Zenon DEF SamePages
  <2>2. \A x \in MapKeys : Cached(x) /\ x \notin Gone(m) <=> x \in Elements(Kept(m))
    BY <1>4, Zenon DEF Gone, ListIsMap
  <2>3. Cached(m)'
    BY <1>2, Zenon DEF Hit
  <2>4. Elements(Kept(m)) \subseteq MapKeys
    BY <1>4, Zenon DEF ListIsMap
  <2> QED
    BY <1>2, <2>1, <2>2, <2>3, <2>4, Zenon
<1> QED
  BY <1>5, <1>6, <1>7, Zenon DEF ListIsMap

\* Every step keeps the list and the map together.
LEMMA ListStep ==
    ASSUME ListIsMap, Types, [Next]_vars
    PROVE  ListIsMap'
<1>0. ItemTypes
  BY Zenon DEF Types
<1>1. ASSUME UNCHANGED cacheVars PROVE ListIsMap'
  BY <1>1, SameList, Zenon DEF cacheVars, Cached
<1>2. ASSUME NEW t \in Threads, Step(t) PROVE ListIsMap'
  <2>1. CASE Recheck(t)
    <3>1. pc[t] = "recheck" /\ String(page[t]) \in MapKeys
      BY <2>1, NameOfPage, Zenon DEF Recheck, Types
    <3>2. CASE Hit(String(page[t]))
      BY <1>0, <2>1, <3>1, <3>2, TouchList, Zenon DEF Recheck
    <3>3. CASE ~Hit(String(page[t]))
      BY <1>1, <2>1, <3>3, Zenon DEF Recheck
    <3> QED
      BY <3>2, <3>3, Zenon
  <2>2. CASE Admit(t)
    BY <2>2, AdmitList, Zenon
  <2>3. CASE InvalidateKey(t)
    BY <1>0, <2>3, DropList, Zenon DEF InvalidateKey
  <2>4. CASE Lead(t) \/ Join(t) \/ DriverList(t) \/ Forget(t) \/ CloseCall(t) \/ ReadHit(t)
    BY <1>1, <2>4, Zenon DEF Lead, Join, DriverList, Forget, CloseCall, ReadHit
  <2> QED
    BY <1>2, <2>1, <2>2, <2>3, <2>4, Zenon DEF Step
<1>3. ASSUME NEW t \in Threads, NEW p \in Pages, LookupHit(t, p) PROVE ListIsMap'
  BY <1>0, <1>3, NameOfPage, TouchList, Zenon DEF LookupHit
<1>4. ASSUME NEW t \in Threads, NEW p \in Pages, LookupMiss(t, p) PROVE ListIsMap'
  <2>1. CASE Cached(String(p))
    BY <1>0, <1>4, <2>1, DropList, Zenon DEF LookupMiss
  <2>2. CASE ~Cached(String(p))
    BY <1>1, <1>4, <2>2, Zenon DEF LookupMiss
  <2> QED
    BY <2>1, <2>2, Zenon
<1>5. ASSUME NEW t \in Threads, CancelWait(t) PROVE ListIsMap'
  BY <1>1, <1>5, Zenon DEF CancelWait
<1>6. ASSUME NEW t \in Threads, NEW d \in Docs, Write(t, d) \/ WriteUnknown(t, d)
      PROVE  ListIsMap'
  BY <1>1, <1>6, Zenon DEF Write, WriteUnknown
<1>7. ASSUME NEW d \in Docs, WriteElsewhere(d) PROVE ListIsMap'
  BY <1>1, <1>7, Zenon DEF WriteElsewhere
<1>8. ASSUME NEW p \in Pages, InvalidatePrefix(p.prefix) PROVE ListIsMap'
  BY <1>0, <1>8, DropList, Zenon DEF InvalidatePrefix
<1>9. ASSUME Purge PROVE ListIsMap'
  BY <1>0, <1>9, DropList, Zenon DEF Purge
<1>10. ASSUME NEW m \in MapKeys, Expire(m) PROVE ListIsMap'
  <2>1. Cached(m)' /\ SamePages({m})
    BY <1>0, <1>10, ExpiredItems, Zenon
  <2>2. Cached(m) /\ UNCHANGED lru
    BY <1>10, Zenon DEF Expire, Hit
  <2> QED
    BY <2>1, <2>2, SameList, Zenon DEF SamePages
<1>11. ASSUME UNCHANGED vars PROVE ListIsMap'
  BY <1>1, <1>11, Zenon DEF vars, cacheVars
<1> QED
  BY <1>2, <1>3, <1>4, <1>5, <1>6, <1>7, <1>8, <1>9, <1>10, <1>11, Zenon DEF Next

\* The map of pages and the list of their use hold the same pages, each once,
\* and never more than MaxPages: no replacement, eviction or invalidation takes
\* a page out of the one and leaves it in the other.
THEOREM CacheStaysWithinCapacity == Spec => []WithinCapacity
<1>1. Init => ListIsMap
  <2> SUFFICES ASSUME Init PROVE ListIsMap
    BY Zenon
  <2>1. lru = <<>> /\ <<>> \in Seq(MapKeys) /\ Len(<<>>) = 0 /\ 0 <= MaxPages
    BY ListCacheAssumption DEF Init
  <2>2. Distinct(<<>>) /\ Elements(<<>>) = {}
    BY DEF Distinct, Elements
  <2>3. {m \in MapKeys : Cached(m)} = {}
    BY Zenon DEF Init, Cached
  <2> QED
    BY <2>1, <2>2, <2>3, Zenon DEF ListIsMap
<1>2. IInv /\ ListIsMap /\ [Next]_vars => ListIsMap'
  BY ListStep, Zenon DEF IInv, Flight
<1>3. ListIsMap => WithinCapacity
  <2> SUFFICES ASSUME ListIsMap PROVE WithinCapacity
    BY Zenon
  <2>1. Len(lru) = Cardinality(Elements(lru))
    BY DistinctLen DEF ListIsMap
  <2> QED
    BY <2>1, Zenon DEF ListIsMap, WithinCapacity
<1> QED
  BY <1>1, <1>2, <1>3, ListPageInvariant, PTL DEF Spec
=============================================================================
