------------------------------ MODULE Listing ------------------------------
(***************************************************************************)
(* Listings longer than a page: database.List (pkg/db/db.go) walks the     *)
(* pages of Driver.List while other goroutines write and delete.  Keys are *)
(* the naturals that match the prefix, in the order of the strings; the    *)
(* empty cursor is 0.  The drivers' List is an operator each: they cut     *)
(* pages at different places and differ in when they return a cursor.      *)
(* database.List passes no Delimiter, and the list cache is off.           *)
(***************************************************************************)
EXTENDS Integers, Sequences, FiniteSets, SequencesExt

CONSTANTS
    Keys,           \* naturals above 0
    Drivers,        \* of "memory", "fs", "s3", "other"
    Limits,         \* the limits asked for; 0 is none
    ListPageSize,   \* listPageSize
    ServicePage,    \* the most keys S3 returns at once
    MaxWrites       \* bound on the writes

ASSUME ListingAssumption ==
    /\ Keys \subseteq Nat \ {0} /\ Limits \subseteq Nat
    /\ ListPageSize \in Nat \ {0} /\ ServicePage \in Nat \ {0}

VARIABLES
    driver,
    present,    \* keys in storage
    writes,
    pc, limit, items, cursor,   \* locals of List
    stayed,     \* history: keys in storage ever since List was called
    seen        \* history: keys in storage at some time since then

vars == <<driver, present, writes, pc, limit, items, cursor, stayed, seen>>
-----------------------------------------------------------------------------
(* Driver.List: a page and the cursor of the next one.                     *)

\* Mutant: the key the cursor names is listed again.
BehindOrAt(S, c) == SetToSortSeq({k \in S : c = 0 \/ k >= c}, LAMBDA a, b : a < b)

\* The keys behind the cursor, sorted.
Behind(S, c) == SetToSortSeq({k \in S : c = 0 \/ k > c}, LAMBDA a, b : a < b)

FirstOf(s, n) == SubSeq(s, 1, Min({n, Len(s)}))

\* A full page has a cursor even if nothing follows.
MemoryList(S, c, n) ==
    LET page == IF n > 0 THEN FirstOf(Behind(S, c), n) ELSE Behind(S, c)
    IN [page |-> page, next |-> IF n > 0 /\ Len(page) >= n THEN Last(page) ELSE 0]

\* Mutant: the cursor is the first key that did not fit.
FsCursorTooFar(S, c, n) ==
    LET all == Behind(S, c)
    IN IF n > 0 /\ Len(all) > n THEN [page |-> FirstOf(all, n), next |-> all[n + 1]]
       ELSE [page |-> all, next |-> 0]

\* There is a cursor if something follows.
FsList(S, c, n) ==
    LET all == Behind(S, c)
    IN IF n > 0 /\ Len(all) > n THEN [page |-> FirstOf(all, n), next |-> all[n]]
       ELSE [page |-> all, next |-> 0]

\* S3 cuts a page where it likes to; the token resumes behind it.
S3List(S, c, n) == FsList(S, c, IF n > 0 THEN Min({n, ServicePage}) ELSE ServicePage)

\* A driver from elsewhere, of the kind database.List guards against: it has a
\* cursor for every page, the one it was given when nothing follows.
OtherList(S, c, n) ==
    LET page == FirstOf(Behind(S, c), n)
    IN [page |-> page, next |-> IF page = <<>> THEN c ELSE Last(page)]

DriverList(c, n) ==
    CASE driver = "memory" -> MemoryList(present, c, n)
      [] driver = "fs" -> FsList(present, c, n)
      [] driver = "s3" -> S3List(present, c, n)
      [] driver = "other" -> OtherList(present, c, n)
-----------------------------------------------------------------------------

Init ==
    /\ driver \in Drivers
    /\ present \in SUBSET Keys
    /\ writes = 0
    /\ pc = "idle" /\ limit = 0 /\ items = <<>> /\ cursor = 0
    /\ stayed = {} /\ seen = {}

Call(n) ==
    /\ pc = "idle"
    /\ pc' = "page"
    /\ limit' = n /\ items' = <<>> /\ cursor' = 0
    /\ stayed' = present /\ seen' = present
    /\ UNCHANGED <<driver, present, writes>>

PageLimit ==
    IF limit > 0 THEN Min({ListPageSize, limit - Len(items)}) ELSE ListPageSize

\* Mutant: only the cursor decides.
ContinuesWithCursor(r) == r.next # 0

\* Is there another page to fetch after r?
Continues(r) == r.next # 0 /\ r.page # <<>>

\* One round of the loop.
NextPage ==
    /\ pc = "page"
    /\ LET r == DriverList(cursor, PageLimit)
           all == items \o r.page
       IN IF limit > 0 /\ Len(all) >= limit
          THEN /\ items' = FirstOf(all, limit)
               /\ pc' = "done" /\ UNCHANGED cursor
          ELSE /\ items' = all
               /\ IF Continues(r) THEN cursor' = r.next /\ UNCHANGED pc
                  ELSE pc' = "done" /\ UNCHANGED cursor
    /\ UNCHANGED <<driver, present, writes, limit, stayed, seen>>

Returns ==
    /\ pc' = "idle"
    /\ limit' = 0 /\ items' = <<>> /\ cursor' = 0
    /\ stayed' = {} /\ seen' = {}
    /\ UNCHANGED <<driver, present, writes>>

Return == pc = "done" /\ Returns

\* A page fails: List returns the error, and nothing of what it has.
ListFails == pc = "page" /\ Returns

\* Other goroutines create and delete documents.
Create(k) ==
    /\ k \notin present /\ writes < MaxWrites
    /\ present' = present \cup {k}
    /\ writes' = writes + 1
    /\ seen' = IF pc = "idle" THEN seen ELSE seen \cup {k}
    /\ UNCHANGED <<driver, pc, limit, items, cursor, stayed>>

Delete(k) ==
    /\ k \in present /\ writes < MaxWrites
    /\ present' = present \ {k}
    /\ writes' = writes + 1
    /\ stayed' = stayed \ {k}
    /\ UNCHANGED <<driver, pc, limit, items, cursor, seen>>

Next ==
    \/ \E n \in Limits : Call(n)
    \/ NextPage \/ Return \/ ListFails
    \/ \E k \in Keys : Create(k) \/ Delete(k)

Spec == Init /\ [][Next]_vars

\* Calls of the driver return.
FairSpec == Spec /\ WF_vars(NextPage) /\ WF_vars(Return)
-----------------------------------------------------------------------------
(* Properties.                                                             *)

\* However the pages are cut and whatever is written between them, the listing
\* is in order, names no key twice, and none that was not there.
InOrderOnce ==
    /\ \A i, j \in DOMAIN items : i < j => items[i] < items[j]
    /\ ToSet(items) \subseteq seen

\* A listing that returns has at most limit keys, and misses no key that was
\* there all the time: none at all if it fell short of the limit, and none
\* below its last key otherwise.
NothingSkipped ==
    pc = "done" =>
        /\ limit > 0 => Len(items) <= limit
        /\ \A k \in stayed :
               \/ k \in ToSet(items)
               \/ limit > 0 /\ Len(items) = limit /\ k > Last(items)

\* List returns, although documents come and go while it walks, and with a
\* driver whose cursors never end.
EveryListReturns == pc = "page" ~> pc = "idle"
=============================================================================
