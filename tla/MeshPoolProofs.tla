--------------------------- MODULE MeshPoolProofs ---------------------------
(***************************************************************************)
(* For any number of peers, goroutines, connections and pools of any size: *)
(* MeshPool neither loses nor shares a connection and never sends one to   *)
(* the wrong peer, its map holds the open pools and no other, a closed     *)
(* pool keeps nothing but what was pushed late, and ring and pools follow  *)
(* memberlist.  The invariant adds to these properties the shape of the    *)
(* state and what a notification has yet to do.                            *)
(***************************************************************************)
EXTENDS MeshPool, TLAPS

-----------------------------------------------------------------------------
(* What a goroutine, a pool and a notification know at each of their steps. *)

\* A notification is about a member that joined or about one that left.
Notifications ==
    /\ members \in SUBSET Peers /\ event \in Event \cup {None}
    /\ unsynced \in SUBSET Peers /\ syncing \in Peers \cup {None}
    /\ event # None =>
         /\ event.kind = "join" <=> event.peer \in members
         /\ event.at = "close" => event.kind = "leave" /\ event.pool \in Pools

\* The pools and their connections.
PoolTypes ==
    /\ peers \in [Peers -> Pools \cup {0}] /\ made \in 0..MaxPools
    /\ addr \in [Pools -> Peers \cup {None}]
    /\ stage \in [Pools -> {"none", "open", "removed", "draining", "drained"}]
    /\ idle \in [Pools -> SUBSET Conns] /\ late \in SUBSET Pools
    /\ to \in [Conns -> Peers \cup {None}]

\* What EnsureConnected has in hand at its steps.
Warmers ==
    /\ warm \in [Pools -> {"off", "dial", "recheck", "push"}]
    /\ warmConn \in [Pools -> Conns \cup {None}]
    /\ \A q \in Pools : warmConn[q] # None <=> warm[q] \in {"recheck", "push"}

\* What a request has in hand at its steps.
Requests ==
    /\ pc \in [Threads -> {"idle", "lookup", "add", "find", "get", "pop", "dial",
                           "use", "put", "push"}]
    /\ target \in [Threads -> Peers \cup {None}]
    /\ pool \in [Threads -> Pools \cup {0}]
    /\ conn \in [Threads -> Conns \cup {None}]
    /\ \A t \in Threads :
         /\ pc[t] # "idle" => target[t] \in Peers
         /\ pc[t] \in {"get", "pop", "dial", "put", "push"} =>
              pool[t] \in Pools /\ addr[pool[t]] = target[t]
         /\ conn[t] # None <=> pc[t] \in {"use", "put", "push"}

\* Pools are made in their order.  One that was made has an address, one that was
\* not has nothing, and the map holds for an address a pool of that address.
Registry ==
    /\ \A q \in Pools :
         /\ q > made => stage[q] = "none"
         /\ stage[q] = "none" => addr[q] = None /\ idle[q] = {} /\ warm[q] = "off"
         /\ stage[q] # "none" => addr[q] \in Peers
    /\ \A p \in Peers : peers[p] # 0 => addr[peers[p]] = p

\* All of these, and that the map holds the open pools.
Shape == Notifications /\ PoolTypes /\ Warmers /\ Requests /\ Registry /\ RegisteredPoolsOpen

\* The state memberlist.Create leaves.
LEMMA InitShape == Init => Shape
<1> SUFFICES ASSUME Init PROVE Shape
  BY Zenon
<1> USE MeshAssumption DEF Init
<1>1. Notifications
  BY Zenon DEF Notifications
<1>2. PoolTypes
  BY DEF PoolTypes
<1>3. Warmers
  BY Zenon DEF Warmers
<1>4. Requests
  BY Zenon DEF Requests
<1>5. Registry /\ RegisteredPoolsOpen
  BY Zenon DEF Registry, RegisteredPoolsOpen
<1> QED
  BY <1>1, <1>2, <1>3, <1>4, <1>5, Zenon DEF Shape

\* The next pool.
LEMMA NextPool ==
    ASSUME Shape, made < MaxPools
    PROVE  /\ made + 1 \in Pools /\ made + 1 # 0 /\ made + 1 \in 0..MaxPools
           /\ stage[made + 1] = "none"
           /\ \A q \in Pools : q > made + 1 => q > made /\ q # made + 1
BY MeshAssumption DEF Shape, PoolTypes, Registry, Pools

\* The map names pools by their numbers.
LEMMA PoolIds == 0 \notin Pools
BY DEF Pools

\* A dial that can succeed finds a connection that is not open.
LEMMA FreeIsNotOpen ==
    ASSUME NEW p \in Peers, Reachable(p)
    PROVE  FreeConn \in Conns /\ to[FreeConn] = None
<1>1. \E c \in Conns : c \notin Open
  BY Zenon DEF Reachable, Open
<1>2. FreeConn \in Conns /\ FreeConn \notin Open
  BY <1>1, Zenon DEF FreeConn
<1> QED
  BY <1>2, Zenon DEF Open

\* What AddPeer does to the map.
LEMMA Added ==
    ASSUME Shape, NEW p \in Peers, AddPeer(p)
    PROVE  /\ peers'[p] # 0 \/ down
           /\ \A r \in Peers \ {p} : peers'[r] = peers[r]
BY NextPool, Zenon DEF Shape, PoolTypes, AddPeer, NewPeerPool, registry

-----------------------------------------------------------------------------
\* Notifications.
LEMMA NotificationStep ==
    ASSUME Shape, Next
    PROVE  Notifications'
<1>1. ASSUME NEW p \in Peers,
             \/ PeerLeave(p) \/ PeerStopsListening(p) \/ PeerCloseReturns(p)
      PROVE  UNCHANGED <<members, event, unsynced, syncing>>
  BY <1>1, Zenon DEF PeerLeave, PeerStopsListening, PeerCloseReturns, membership, registry,
     warmers, threadVars
<1>2. ASSUME NEW q \in Pools,
             \/ PoolClose(q) \/ PoolDrain(q) \/ WarmDial(q) \/ WarmRecheck(q)
             \/ WarmPush(q)
      PROVE  UNCHANGED <<members, event, unsynced, syncing>>
  BY <1>2, Zenon DEF PoolClose, PoolDrain, WarmDial, WarmEnds, WarmRecheck, WarmPush, Push,
     membership, registry, warmers, threadVars
<1>3. ASSUME NEW t \in Threads,
             \/ Lookup(t) \/ AddMissing(t) \/ Find(t) \/ GetConn(t) \/ Pop(t)
             \/ Dial(t) \/ Drop(t) \/ PutConn(t) \/ PoolPutConn(t) \/ PoolPush(t)
      PROVE  UNCHANGED <<members, event, unsynced, syncing>>
  BY <1>3, Zenon DEF Lookup, FailTrip, Return, Go, AddMissing, AddPeer, NewPeerPool,
     NoteStale, Find, GetConn, Pop, Use, Dial, Drop, PutConn, PoolPutConn, PoolPush,
     Push, membership, registry, warmers, threadVars
<1>4. ASSUME NEW t \in Threads, NEW p \in Peers,
             \/ Begin(t, p)
      PROVE  UNCHANGED <<members, event, unsynced, syncing>>
  BY <1>4, Zenon DEF Begin, Go, membership, registry, warmers, threadVars
<1>5. ASSUME \/ SyncDone \/ Cancel \/ ClosePools
      PROVE  UNCHANGED <<members, event, unsynced, syncing>>
  BY <1>5, Zenon DEF SyncDone, Cancel, ClosePools, membership, registry, warmers, threadVars
<1>6. ASSUME UNCHANGED <<members, event, unsynced, syncing>>
      PROVE  Notifications'
  BY <1>6, Zenon DEF Shape, membership, registry, warmers, threadVars, Notifications, Event
<1> USE MeshAssumption DEF Shape, membership, registry, warmers, threadVars,
   Notifications, Event
<1>7. ASSUME NEW p \in Peers, MemberJoins(p) PROVE Notifications'
  BY <1>7, Zenon DEF MemberJoins
<1>8. ASSUME NEW p \in Peers, MemberLeaves(p) PROVE Notifications'
  BY <1>8, Zenon DEF MemberLeaves
<1>9. ASSUME NotifyRing PROVE Notifications'
  BY <1>9, Zenon DEF NotifyRing
<1>10. ASSUME NotifyAddPeer PROVE Notifications'
  BY <1>10, NextPool, Zenon DEF NotifyAddPeer, AddPeer, NewPeerPool
<1>11. ASSUME NotifyRemovePeer PROVE Notifications'
  BY <1>11 DEF NotifyRemovePeer, PoolTypes
<1>12. ASSUME NotifyRemoved PROVE Notifications'
  BY <1>12, Zenon DEF NotifyRemoved
<1>13. ASSUME SyncSnapshot PROVE Notifications'
  BY <1>13, Zenon DEF SyncSnapshot
<1>14. ASSUME NEW p \in Peers, SyncRing(p) PROVE Notifications'
  BY <1>14, Zenon DEF SyncRing, NoteStale
<1>15. ASSUME SyncPool PROVE Notifications'
  BY <1>15, NextPool, Zenon DEF SyncPool, AddPeer, NewPeerPool, NoteStale
<1> HIDE DEF Shape, membership, registry, warmers, threadVars, Notifications, Event
<1> QED
  BY <1>1, <1>2, <1>3, <1>4, <1>5, <1>6, <1>7, <1>8, <1>9, <1>10, <1>11, <1>12, <1>13,
     <1>14, <1>15, Zenon DEF Next, Warm, Query, Notify, Sync

\* Types of the pools.
LEMMA PoolTypeStep ==
    ASSUME Shape, Next
    PROVE  PoolTypes'
<1>1. ASSUME NEW p \in Peers,
             \/ MemberJoins(p) \/ MemberLeaves(p) \/ PeerLeave(p)
             \/ PeerStopsListening(p) \/ PeerCloseReturns(p) \/ SyncRing(p)
      PROVE  UNCHANGED <<peers, made, addr, stage, idle, late, to>>
  BY <1>1, Zenon DEF MemberJoins, MemberLeaves, PeerLeave, PeerStopsListening,
     PeerCloseReturns, SyncRing, NoteStale, membership, registry, warmers, threadVars
<1>2. ASSUME NEW t \in Threads,
             \/ Lookup(t) \/ Find(t) \/ GetConn(t)
      PROVE  UNCHANGED <<peers, made, addr, stage, idle, late, to>>
  BY <1>2, Zenon DEF Lookup, FailTrip, Return, Go, Find, GetConn, membership, registry,
     warmers, threadVars
<1>3. ASSUME NEW t \in Threads, NEW p \in Peers,
             \/ Begin(t, p)
      PROVE  UNCHANGED <<peers, made, addr, stage, idle, late, to>>
  BY <1>3, Zenon DEF Begin, Go, membership, registry, warmers, threadVars
<1>4. ASSUME \/ NotifyRing \/ NotifyRemoved \/ SyncSnapshot \/ SyncDone \/ Cancel
      PROVE  UNCHANGED <<peers, made, addr, stage, idle, late, to>>
  BY <1>4, Zenon DEF NotifyRing, NotifyRemoved, SyncSnapshot, SyncDone, Cancel, membership,
     registry, warmers, threadVars
<1>5. ASSUME UNCHANGED <<peers, made, addr, stage, idle, late, to>>
      PROVE  PoolTypes'
  BY <1>5, Zenon DEF Shape, membership, registry, warmers, threadVars, PoolTypes
<1> USE MeshAssumption DEF Shape, membership, registry, warmers, threadVars, PoolTypes
<1>6. ASSUME NEW q \in Pools, PoolClose(q) PROVE PoolTypes'
  BY <1>6, Zenon DEF PoolClose
<1>7. ASSUME NEW q \in Pools, PoolDrain(q) PROVE PoolTypes'
  BY <1>7 DEF PoolDrain
<1>8. ASSUME NEW q \in Pools, WarmDial(q) PROVE PoolTypes'
  BY <1>8, FreeIsNotOpen DEF WarmDial, WarmEnds, Reachable, Warmers, Registry
<1>9. ASSUME NEW q \in Pools, WarmRecheck(q) PROVE PoolTypes'
  BY <1>9, Zenon DEF WarmRecheck, WarmEnds, Warmers
<1>10. ASSUME NEW q \in Pools, WarmPush(q) PROVE PoolTypes'
  BY <1>10 DEF WarmPush, WarmEnds, Push, Warmers
<1>11. ASSUME NotifyAddPeer PROVE PoolTypes'
  BY <1>11, NextPool DEF NotifyAddPeer, AddPeer, NewPeerPool, Notifications, Event
<1>12. ASSUME NotifyRemovePeer PROVE PoolTypes'
  BY <1>12 DEF NotifyRemovePeer, Notifications, Event
<1>13. ASSUME SyncPool PROVE PoolTypes'
  BY <1>13, NextPool DEF SyncPool, AddPeer, NewPeerPool, NoteStale, Notifications
<1>14. ASSUME NEW t \in Threads, AddMissing(t) PROVE PoolTypes'
  BY <1>14, NextPool DEF AddMissing, AddPeer, NewPeerPool, NoteStale, Go, Requests
<1>15. ASSUME NEW t \in Threads, Pop(t) PROVE PoolTypes'
  BY <1>15 DEF Pop, Use, Go, Requests
<1>16. ASSUME NEW t \in Threads, Dial(t) PROVE PoolTypes'
  BY <1>16, FreeIsNotOpen DEF Dial, FailTrip, Return, Go, Use, Reachable, Requests
<1>17. ASSUME NEW t \in Threads, Drop(t) PROVE PoolTypes'
  BY <1>17, Zenon DEF Drop, FailTrip, Return, Go, Requests
<1>18. ASSUME NEW t \in Threads, PutConn(t) PROVE PoolTypes'
  BY <1>18 DEF PutConn, Return, Go, Requests
<1>19. ASSUME NEW t \in Threads, PoolPutConn(t) PROVE PoolTypes'
  BY <1>19 DEF PoolPutConn, Return, Go, Requests
<1>20. ASSUME NEW t \in Threads, PoolPush(t) PROVE PoolTypes'
  BY <1>20 DEF PoolPush, Return, Go, Push, Requests
<1>21. ASSUME ClosePools PROVE PoolTypes'
  BY <1>21, Zenon DEF ClosePools
<1> HIDE DEF Shape, membership, registry, warmers, threadVars, PoolTypes
<1> QED
  BY <1>1, <1>2, <1>3, <1>4, <1>5, <1>6, <1>7, <1>8, <1>9, <1>10, <1>11, <1>12, <1>13,
     <1>14, <1>15, <1>16, <1>17, <1>18, <1>19, <1>20, <1>21, Zenon DEF Next, Warm, Query,
     Notify, Sync

\* EnsureConnected.
LEMMA WarmerStep ==
    ASSUME Shape, Next
    PROVE  Warmers'
<1>1. ASSUME NEW p \in Peers,
             \/ MemberJoins(p) \/ MemberLeaves(p) \/ PeerLeave(p)
             \/ PeerStopsListening(p) \/ PeerCloseReturns(p) \/ SyncRing(p)
      PROVE  UNCHANGED <<warm, warmConn>>
  BY <1>1, Zenon DEF MemberJoins, MemberLeaves, PeerLeave, PeerStopsListening,
     PeerCloseReturns, SyncRing, NoteStale, membership, registry, warmers, threadVars
<1>2. ASSUME NEW q \in Pools,
             \/ PoolClose(q) \/ PoolDrain(q)
      PROVE  UNCHANGED <<warm, warmConn>>
  BY <1>2, Zenon DEF PoolClose, PoolDrain, membership, registry, warmers, threadVars
<1>3. ASSUME NEW t \in Threads,
             \/ Lookup(t) \/ Find(t) \/ GetConn(t) \/ Pop(t) \/ Dial(t) \/ Drop(t)
             \/ PutConn(t) \/ PoolPutConn(t) \/ PoolPush(t)
      PROVE  UNCHANGED <<warm, warmConn>>
  BY <1>3, Zenon DEF Lookup, FailTrip, Return, Go, Find, GetConn, Pop, Use, Dial, Drop,
     PutConn, PoolPutConn, PoolPush, Push, membership, registry, warmers, threadVars
<1>4. ASSUME NEW t \in Threads, NEW p \in Peers,
             \/ Begin(t, p)
      PROVE  UNCHANGED <<warm, warmConn>>
  BY <1>4, Zenon DEF Begin, Go, membership, registry, warmers, threadVars
<1>5. ASSUME \/ NotifyRing \/ NotifyRemovePeer \/ NotifyRemoved \/ SyncSnapshot
             \/ SyncDone \/ Cancel \/ ClosePools
      PROVE  UNCHANGED <<warm, warmConn>>
  BY <1>5, Zenon DEF NotifyRing, NotifyRemovePeer, NotifyRemoved, SyncSnapshot, SyncDone,
     Cancel, ClosePools, membership, registry, warmers, threadVars
<1>6. ASSUME UNCHANGED <<warm, warmConn>>
      PROVE  Warmers'
  BY <1>6, Zenon DEF Shape, membership, registry, warmers, threadVars, Warmers
<1> USE MeshAssumption DEF Shape, membership, registry, warmers, threadVars, Warmers
<1>7. ASSUME NEW q \in Pools, WarmDial(q) PROVE Warmers'
  BY <1>7, FreeIsNotOpen DEF WarmDial, WarmEnds, Reachable, Registry, PoolTypes
<1>8. ASSUME NEW q \in Pools, WarmRecheck(q) PROVE Warmers'
  BY <1>8, Zenon DEF WarmRecheck, WarmEnds
<1>9. ASSUME NEW q \in Pools, WarmPush(q) PROVE Warmers'
  BY <1>9 DEF WarmPush, WarmEnds, Push
<1>10. ASSUME NotifyAddPeer PROVE Warmers'
  BY <1>10, NextPool DEF NotifyAddPeer, AddPeer, NewPeerPool, Registry, PoolTypes
<1>11. ASSUME SyncPool PROVE Warmers'
  BY <1>11, NextPool DEF SyncPool, AddPeer, NewPeerPool, NoteStale, Registry,
     PoolTypes
<1>12. ASSUME NEW t \in Threads, AddMissing(t) PROVE Warmers'
  BY <1>12, NextPool DEF AddMissing, AddPeer, NewPeerPool, NoteStale, Go, Registry,
     PoolTypes
<1> HIDE DEF Shape, membership, registry, warmers, threadVars, Warmers
<1> QED
  BY <1>1, <1>2, <1>3, <1>4, <1>5, <1>6, <1>7, <1>8, <1>9, <1>10, <1>11, <1>12, Zenon DEF
     Next, Warm, Query, Notify, Sync

\* Requests.  The address of a pool never changes.
LEMMA RequestStep ==
    ASSUME Shape, Next
    PROVE  Requests'
<1>1. ASSUME NEW p \in Peers,
             \/ MemberJoins(p) \/ MemberLeaves(p) \/ PeerLeave(p)
             \/ PeerStopsListening(p) \/ PeerCloseReturns(p) \/ SyncRing(p)
      PROVE  UNCHANGED <<pc, target, pool, conn, addr>>
  BY <1>1, Zenon DEF MemberJoins, MemberLeaves, PeerLeave, PeerStopsListening,
     PeerCloseReturns, SyncRing, NoteStale, membership, registry, warmers, threadVars
<1>2. ASSUME NEW q \in Pools,
             \/ PoolClose(q) \/ PoolDrain(q) \/ WarmDial(q) \/ WarmRecheck(q)
             \/ WarmPush(q)
      PROVE  UNCHANGED <<pc, target, pool, conn, addr>>
  BY <1>2, Zenon DEF PoolClose, PoolDrain, WarmDial, WarmEnds, WarmRecheck, WarmPush, Push,
     membership, registry, warmers, threadVars
<1>3. ASSUME \/ NotifyRing \/ NotifyRemovePeer \/ NotifyRemoved \/ SyncSnapshot
             \/ SyncDone \/ Cancel \/ ClosePools
      PROVE  UNCHANGED <<pc, target, pool, conn, addr>>
  BY <1>3, Zenon DEF NotifyRing, NotifyRemovePeer, NotifyRemoved, SyncSnapshot, SyncDone,
     Cancel, ClosePools, membership, registry, warmers, threadVars
<1>4. ASSUME UNCHANGED <<pc, target, pool, conn, addr>>
      PROVE  Requests'
  BY <1>4, Zenon DEF Shape, membership, registry, warmers, threadVars, Requests
<1> USE MeshAssumption DEF Shape, membership, registry, warmers, threadVars, Requests
<1>5. ASSUME NotifyAddPeer PROVE Requests'
  BY <1>5, NextPool DEF NotifyAddPeer, AddPeer, NewPeerPool, Registry, PoolTypes
<1>6. ASSUME SyncPool PROVE Requests'
  BY <1>6, NextPool DEF SyncPool, AddPeer, NewPeerPool, NoteStale, Registry, PoolTypes
<1>7. ASSUME NEW t \in Threads, Lookup(t) PROVE Requests'
  BY <1>7 DEF Lookup, FailTrip, Return, Go, Registry, PoolTypes
<1>8. ASSUME NEW t \in Threads, AddMissing(t) PROVE Requests'
  BY <1>8, NextPool DEF AddMissing, AddPeer, NewPeerPool, NoteStale, Go, Registry,
     PoolTypes
<1>9. ASSUME NEW t \in Threads, Find(t) PROVE Requests'
  BY <1>9 DEF Find, FailTrip, Return, Go, Registry, PoolTypes
<1>10. ASSUME NEW t \in Threads, GetConn(t) PROVE Requests'
  BY <1>10 DEF GetConn, FailTrip, Return, Go
<1>11. ASSUME NEW t \in Threads, Pop(t) PROVE Requests'
  BY <1>11 DEF Pop, Use, Go, PoolTypes
<1>12. ASSUME NEW t \in Threads, Dial(t) PROVE Requests'
  BY <1>12, FreeIsNotOpen DEF Dial, FailTrip, Return, Go, Use, Reachable
<1>13. ASSUME NEW t \in Threads, Drop(t) PROVE Requests'
  BY <1>13 DEF Drop, FailTrip, Return, Go
<1>14. ASSUME NEW t \in Threads, PutConn(t) PROVE Requests'
  BY <1>14 DEF PutConn, Return, Go, Registry, PoolTypes
<1>15. ASSUME NEW t \in Threads, PoolPutConn(t) PROVE Requests'
  BY <1>15 DEF PoolPutConn, Return, Go
<1>16. ASSUME NEW t \in Threads, PoolPush(t) PROVE Requests'
  BY <1>16, Zenon DEF PoolPush, Return, Go, Push
<1>17. ASSUME NEW t \in Threads, NEW p \in Peers, Begin(t, p) PROVE Requests'
  BY <1>17, Zenon DEF Begin, Go
<1> HIDE DEF Shape, membership, registry, warmers, threadVars, Requests
<1> QED
  BY <1>1, <1>2, <1>3, <1>4, <1>5, <1>6, <1>7, <1>8, <1>9, <1>10, <1>11, <1>12, <1>13,
     <1>14, <1>15, <1>16, <1>17, Zenon DEF Next, Warm, Query, Notify, Sync

\* The map and its pools.
LEMMA RegistryStep ==
    ASSUME Shape, Next
    PROVE  Registry'
<1>1. ASSUME NEW p \in Peers,
             \/ MemberJoins(p) \/ MemberLeaves(p) \/ PeerLeave(p)
             \/ PeerStopsListening(p) \/ PeerCloseReturns(p) \/ SyncRing(p)
      PROVE  UNCHANGED <<peers, made, addr, stage, idle, warm>>
  BY <1>1, Zenon DEF MemberJoins, MemberLeaves, PeerLeave, PeerStopsListening,
     PeerCloseReturns, SyncRing, NoteStale, membership, registry, warmers, threadVars
<1>2. ASSUME NEW t \in Threads,
             \/ Lookup(t) \/ Find(t) \/ GetConn(t) \/ Dial(t) \/ Drop(t) \/ PutConn(t)
             \/ PoolPutConn(t)
      PROVE  UNCHANGED <<peers, made, addr, stage, idle, warm>>
  BY <1>2, Zenon DEF Lookup, FailTrip, Return, Go, Find, GetConn, Dial, Use, Drop, PutConn,
     PoolPutConn, membership, registry, warmers, threadVars
<1>3. ASSUME NEW t \in Threads, NEW p \in Peers,
             \/ Begin(t, p)
      PROVE  UNCHANGED <<peers, made, addr, stage, idle, warm>>
  BY <1>3, Zenon DEF Begin, Go, membership, registry, warmers, threadVars
<1>4. ASSUME \/ NotifyRing \/ NotifyRemoved \/ SyncSnapshot \/ SyncDone \/ Cancel
      PROVE  UNCHANGED <<peers, made, addr, stage, idle, warm>>
  BY <1>4, Zenon DEF NotifyRing, NotifyRemoved, SyncSnapshot, SyncDone, Cancel, membership,
     registry, warmers, threadVars
<1>5. ASSUME UNCHANGED <<peers, made, addr, stage, idle, warm>>
      PROVE  Registry'
  BY <1>5, Zenon DEF Shape, membership, registry, warmers, threadVars, PoolTypes, Registry
<1> USE MeshAssumption DEF Shape, membership, registry, warmers, threadVars,
   PoolTypes, Registry
<1>6. ASSUME NEW q \in Pools, PoolClose(q) PROVE Registry'
  BY <1>6, Zenon DEF PoolClose
<1>7. ASSUME NEW q \in Pools, PoolDrain(q) PROVE Registry'
  BY <1>7 DEF PoolDrain
<1>8. ASSUME NEW q \in Pools, WarmDial(q) PROVE Registry'
  BY <1>8 DEF WarmDial, WarmEnds, Reachable, Warmers
<1>9. ASSUME NEW q \in Pools, WarmRecheck(q) PROVE Registry'
  BY <1>9 DEF WarmRecheck, WarmEnds, Warmers
<1>10. ASSUME NEW q \in Pools, WarmPush(q) PROVE Registry'
  BY <1>10 DEF WarmPush, WarmEnds, Push, Warmers
<1>11. ASSUME NotifyAddPeer PROVE Registry'
  BY <1>11, PoolIds, NextPool DEF NotifyAddPeer, AddPeer, NewPeerPool, Warmers,
     Notifications, Event
<1>12. ASSUME NotifyRemovePeer PROVE Registry'
  BY <1>12, PoolIds DEF NotifyRemovePeer, Notifications, Event
<1>13. ASSUME SyncPool PROVE Registry'
  BY <1>13, PoolIds, NextPool DEF SyncPool, AddPeer, NewPeerPool, NoteStale, Warmers,
     Notifications
<1>14. ASSUME NEW t \in Threads, AddMissing(t) PROVE Registry'
  BY <1>14, PoolIds, NextPool DEF AddMissing, AddPeer, NewPeerPool, NoteStale, Go,
     Warmers, Requests
<1>15. ASSUME NEW t \in Threads, Pop(t) PROVE Registry'
  BY <1>15 DEF Pop, Use, Go, Requests
<1>16. ASSUME NEW t \in Threads, PoolPush(t) PROVE Registry'
  BY <1>16 DEF PoolPush, Return, Go, Push, Requests
<1>17. ASSUME ClosePools PROVE Registry'
  BY <1>17, PoolIds DEF ClosePools
<1> HIDE DEF Shape, membership, registry, warmers, threadVars, PoolTypes, Registry
<1> QED
  BY <1>1, <1>2, <1>3, <1>4, <1>5, <1>6, <1>7, <1>8, <1>9, <1>10, <1>11, <1>12, <1>13,
     <1>14, <1>15, <1>16, <1>17, Zenon DEF Next, Warm, Query, Notify, Sync

\* The open pools are those of the map.
LEMMA RegisteredStep ==
    ASSUME Shape, Next
    PROVE  RegisteredPoolsOpen'
<1>1. ASSUME NEW p \in Peers,
             \/ MemberJoins(p) \/ MemberLeaves(p) \/ PeerLeave(p)
             \/ PeerStopsListening(p) \/ PeerCloseReturns(p) \/ SyncRing(p)
      PROVE  UNCHANGED <<peers, addr, stage>>
  BY <1>1, Zenon DEF MemberJoins, MemberLeaves, PeerLeave, PeerStopsListening,
     PeerCloseReturns, SyncRing, NoteStale, membership, registry, warmers, threadVars
<1>2. ASSUME NEW q \in Pools,
             \/ WarmDial(q) \/ WarmRecheck(q) \/ WarmPush(q)
      PROVE  UNCHANGED <<peers, addr, stage>>
  BY <1>2, Zenon DEF WarmDial, WarmEnds, WarmRecheck, WarmPush, Push, membership, registry,
     warmers, threadVars
<1>3. ASSUME NEW t \in Threads,
             \/ Lookup(t) \/ Find(t) \/ GetConn(t) \/ Pop(t) \/ Dial(t) \/ Drop(t)
             \/ PutConn(t) \/ PoolPutConn(t) \/ PoolPush(t)
      PROVE  UNCHANGED <<peers, addr, stage>>
  BY <1>3, Zenon DEF Lookup, FailTrip, Return, Go, Find, GetConn, Pop, Use, Dial, Drop,
     PutConn, PoolPutConn, PoolPush, Push, membership, registry, warmers, threadVars
<1>4. ASSUME NEW t \in Threads, NEW p \in Peers,
             \/ Begin(t, p)
      PROVE  UNCHANGED <<peers, addr, stage>>
  BY <1>4, Zenon DEF Begin, Go, membership, registry, warmers, threadVars
<1>5. ASSUME \/ NotifyRing \/ NotifyRemoved \/ SyncSnapshot \/ SyncDone \/ Cancel
      PROVE  UNCHANGED <<peers, addr, stage>>
  BY <1>5, Zenon DEF NotifyRing, NotifyRemoved, SyncSnapshot, SyncDone, Cancel, membership,
     registry, warmers, threadVars
<1>6. ASSUME UNCHANGED <<peers, addr, stage>>
      PROVE  RegisteredPoolsOpen'
  BY <1>6, Zenon DEF Shape, membership, registry, warmers, threadVars, PoolTypes, Registry,
     RegisteredPoolsOpen
<1> USE MeshAssumption DEF Shape, membership, registry, warmers, threadVars,
   PoolTypes, Registry, RegisteredPoolsOpen
<1>7. ASSUME NEW q \in Pools, PoolClose(q) PROVE RegisteredPoolsOpen'
  BY <1>7 DEF PoolClose
<1>8. ASSUME NEW q \in Pools, PoolDrain(q) PROVE RegisteredPoolsOpen'
  BY <1>8 DEF PoolDrain
<1>9. ASSUME NotifyAddPeer PROVE RegisteredPoolsOpen'
  BY <1>9, PoolIds, NextPool DEF NotifyAddPeer, AddPeer, NewPeerPool, Notifications,
     Event
<1>10. ASSUME NotifyRemovePeer PROVE RegisteredPoolsOpen'
  BY <1>10, PoolIds DEF NotifyRemovePeer, Notifications, Event
<1>11. ASSUME SyncPool PROVE RegisteredPoolsOpen'
  BY <1>11, PoolIds, NextPool DEF SyncPool, AddPeer, NewPeerPool, NoteStale,
     Notifications
<1>12. ASSUME NEW t \in Threads, AddMissing(t) PROVE RegisteredPoolsOpen'
  BY <1>12, PoolIds, NextPool DEF AddMissing, AddPeer, NewPeerPool, NoteStale, Go,
     Requests
<1>13. ASSUME ClosePools PROVE RegisteredPoolsOpen'
  BY <1>13, PoolIds DEF ClosePools
<1> HIDE DEF Shape, membership, registry, warmers, threadVars, PoolTypes, Registry,
   RegisteredPoolsOpen
<1> QED
  BY <1>1, <1>2, <1>3, <1>4, <1>5, <1>6, <1>7, <1>8, <1>9, <1>10, <1>11, <1>12, <1>13
    , Zenon DEF Next, Warm, Query, Notify, Sync

\* Shape is an invariant.
LEMMA NextShape == Shape /\ [Next]_vars => Shape'
<1> SUFFICES ASSUME Shape, [Next]_vars PROVE Shape'
  BY Zenon
<1>1. CASE Next
  BY <1>1, NotificationStep, PoolTypeStep, WarmerStep, RequestStep, RegistryStep, RegisteredStep
    , Zenon DEF Shape
<1>2. CASE UNCHANGED vars
  <2> USE <1>2 DEF Shape, vars, membership, registry, warmers, threadVars
  <2>1. (Notifications /\ PoolTypes)'
    BY Zenon DEF Notifications, PoolTypes
  <2>2. (Warmers /\ Requests)'
    BY Zenon DEF Warmers, Requests
  <2>3. (Registry /\ RegisteredPoolsOpen)'
    BY Zenon DEF Registry, RegisteredPoolsOpen
  <2> QED
    BY <2>1, <2>2, <2>3, Zenon
<1> QED
  BY <1>1, <1>2, Zenon
-----------------------------------------------------------------------------
(* Connections, pools and members.                                         *)

\* Ring and pools follow memberlist up to the notification being delivered.
Following ==
    \A p \in Peers :
      /\ p \in members =>
           /\ p \in ring \/ (event # None /\ event.peer = p /\ event.at = "ring")
           /\ peers[p] # 0 \/ down \/ (event # None /\ event.peer = p)
      /\ p \notin members \cup stale =>
           /\ p \notin ring \/ (event # None /\ event.peer = p /\ event.at = "ring")
           /\ peers[p] = 0 \/ (event # None /\ event.peer = p /\ event.at \in {"ring", "pool"})

\* Where a connection is.
Idle(c) == {q \in Pools : c \in idle[q]}
Warming(c) == {q \in Pools : warmConn[q] = c}
Using(c) == {t \in Threads : conn[t] = c}

\* The place of a connection: none, one channel or one goroutine.
Nowhere(c) == to[c] = None /\ Idle(c) = {} /\ Warming(c) = {} /\ Using(c) = {}
Pooled(c, q) == to[c] # None /\ Idle(c) = {q} /\ Warming(c) = {} /\ Using(c) = {}
Warmed(c, q) == to[c] # None /\ Idle(c) = {} /\ Warming(c) = {q} /\ Using(c) = {}
Used(c, t) == to[c] # None /\ Idle(c) = {} /\ Warming(c) = {} /\ Using(c) = {t}
Placed(c) ==
    \/ Nowhere(c)
    \/ \E q \in Pools : Pooled(c, q) \/ Warmed(c, q)
    \/ \E t \in Threads : Used(c, t)

IInv ==
    /\ Shape /\ Following
    /\ \A c \in Conns : Placed(c)
    /\ ConnsLeadToTheirPeer /\ DrainedUnlessLate

\* The state memberlist.Create leaves.
LEMMA InitInv == Init => IInv
<1> SUFFICES ASSUME Init PROVE IInv
  BY Zenon
<1> USE MeshAssumption DEF Init
<1>1. Following
  BY Zenon DEF Following
<1>2. (\A c \in Conns : Placed(c)) /\ ConnsLeadToTheirPeer /\ DrainedUnlessLate
  BY Zenon DEF Placed, Nowhere, Idle, Warming, Using, ConnsLeadToTheirPeer, DrainedUnlessLate
<1> QED
  BY InitShape, <1>1, <1>2, Zenon DEF IInv

\* Ring and pools after each part of a notification.
LEMMA FollowStep ==
    ASSUME Shape, Following, Next
    PROVE  Following'
<1>1. ASSUME NEW p \in Peers,
             \/ PeerLeave(p) \/ PeerStopsListening(p) \/ PeerCloseReturns(p)
      PROVE  UNCHANGED <<members, event, ring, stale, peers, down>>
  BY <1>1, Zenon DEF PeerLeave, PeerStopsListening, PeerCloseReturns, membership, registry,
     warmers, threadVars
<1>2. ASSUME NEW q \in Pools,
             \/ PoolClose(q) \/ PoolDrain(q) \/ WarmDial(q) \/ WarmRecheck(q)
             \/ WarmPush(q)
      PROVE  UNCHANGED <<members, event, ring, stale, peers, down>>
  BY <1>2, Zenon DEF PoolClose, PoolDrain, WarmDial, WarmEnds, WarmRecheck, WarmPush, Push,
     membership, registry, warmers, threadVars
<1>3. ASSUME NEW t \in Threads,
             \/ Lookup(t) \/ Find(t) \/ GetConn(t) \/ Pop(t) \/ Dial(t) \/ Drop(t)
             \/ PutConn(t) \/ PoolPutConn(t) \/ PoolPush(t)
      PROVE  UNCHANGED <<members, event, ring, stale, peers, down>>
  BY <1>3, Zenon DEF Lookup, FailTrip, Return, Go, Find, GetConn, Pop, Use, Dial, Drop,
     PutConn, PoolPutConn, PoolPush, Push, membership, registry, warmers, threadVars
<1>4. ASSUME NEW t \in Threads, NEW p \in Peers,
             \/ Begin(t, p)
      PROVE  UNCHANGED <<members, event, ring, stale, peers, down>>
  BY <1>4, Zenon DEF Begin, Go, membership, registry, warmers, threadVars
<1>5. ASSUME \/ SyncSnapshot \/ SyncDone
      PROVE  UNCHANGED <<members, event, ring, stale, peers, down>>
  BY <1>5, Zenon DEF SyncSnapshot, SyncDone, membership, registry, warmers, threadVars
<1>6. ASSUME UNCHANGED <<members, event, ring, stale, peers, down>>
      PROVE  Following'
  BY <1>6, Zenon DEF Shape, membership, registry, warmers, threadVars, Notifications, Event,
     PoolTypes, Following
<1> USE MeshAssumption DEF Shape, membership, registry, warmers, threadVars,
   Notifications, Event, PoolTypes, Following
<1>7. ASSUME NEW p \in Peers, MemberJoins(p) PROVE Following'
  BY <1>7, EventAssumption DEF MemberJoins
<1>8. ASSUME NEW p \in Peers, MemberLeaves(p) PROVE Following'
  BY <1>8, EventAssumption DEF MemberLeaves
<1>9. ASSUME NotifyRing PROVE Following'
  BY <1>9, EventAssumption DEF NotifyRing, Notifications
<1>10. ASSUME NotifyAddPeer PROVE Following'
  <2>1. event.peer \in Peers /\ AddPeer(event.peer)
    BY <1>10, Zenon DEF NotifyAddPeer
  <2> QED
    BY <1>10, <2>1, Added DEF NotifyAddPeer, Notifications
<1>11. ASSUME NotifyRemovePeer PROVE Following'
  BY <1>11, EventAssumption, PoolIds DEF NotifyRemovePeer, Notifications
<1>12. ASSUME NotifyRemoved PROVE Following'
  BY <1>12, Zenon DEF NotifyRemoved, Notifications
<1>13. ASSUME NEW p \in Peers, SyncRing(p) PROVE Following'
  BY <1>13, Zenon DEF SyncRing, NoteStale
<1>14. ASSUME SyncPool PROVE Following'
  <2>1. syncing \in Peers /\ AddPeer(syncing)
    BY <1>14, Zenon DEF SyncPool
  <2> QED
    BY <1>14, <2>1, Added, Zenon DEF SyncPool, NoteStale
<1>15. ASSUME NEW t \in Threads, AddMissing(t) PROVE Following'
  <2>1. target[t] \in Peers /\ AddPeer(target[t])
    BY <1>15, Zenon DEF AddMissing, Requests
  <2> QED
    BY <1>15, <2>1, Added DEF AddMissing, NoteStale
<1>16. ASSUME Cancel PROVE Following'
  BY <1>16, Zenon DEF Cancel
<1>17. ASSUME ClosePools PROVE Following'
  BY <1>17, Zenon DEF ClosePools
<1> HIDE DEF Shape, membership, registry, warmers, threadVars, Notifications, Event,
   PoolTypes, Following
<1> QED
  BY <1>1, <1>2, <1>3, <1>4, <1>5, <1>6, <1>7, <1>8, <1>9, <1>10, <1>11, <1>12, <1>13,
     <1>14, <1>15, <1>16, <1>17, Zenon DEF Next, Warm, Query, Notify, Sync

-----------------------------------------------------------------------------
(* Connections, one at a time.                                             *)

\* ConnsAccounted says that every connection has its place.
LEMMA PlacesAccount ==
    ASSUME PoolTypes, Warmers, Requests, \A c \in Conns : Placed(c)
    PROVE  ConnsAccounted
<1> USE MeshAssumption DEF PoolTypes, Warmers, Requests, Placed, Nowhere, Pooled, Warmed,
    Used, Idle, Warming, Using, Open
<1>1. \A c \in Open :
         \/ \E q \in Pools : c \in idle[q] \/ warmConn[q] = c
         \/ \E t \in Threads : conn[t] = c
  OBVIOUS
<1>2. /\ \A q \in Pools : idle[q] \subseteq Open /\ warmConn[q] \in Open \cup {None}
      /\ \A t \in Threads : conn[t] \in Open \cup {None}
  OBVIOUS
<1>3. \A q1, q2 \in Pools :
         /\ q1 # q2 => idle[q1] \cap idle[q2] = {}
         /\ warmConn[q1] \notin idle[q2]
         /\ q1 # q2 /\ warmConn[q1] # None => warmConn[q1] # warmConn[q2]
  OBVIOUS
<1>4. \A t \in Threads, q \in Pools :
         conn[t] \notin idle[q] /\ (conn[t] # None => conn[t] # warmConn[q])
  OBVIOUS
<1>5. \A t, u \in Threads : t # u /\ conn[t] # None => conn[t] # conn[u]
  OBVIOUS
<1> QED
  BY <1>1, <1>2, <1>3, <1>4, <1>5, Zenon DEF ConnsAccounted

\* Whoever holds a connection is its place.
LEMMA HolderIsPlace ==
    ASSUME NEW c \in Conns, Placed(c)
    PROVE  /\ \A q \in Pools : c \in idle[q] => Pooled(c, q)
           /\ \A q \in Pools : warmConn[q] = c => Warmed(c, q)
           /\ \A t \in Threads : conn[t] = c => Used(c, t)
           /\ to[c] = None => Nowhere(c)
BY Zenon DEF Placed, Nowhere, Pooled, Warmed, Used, Idle, Warming, Using

\* A connection that the step has nothing to do with.
LEMMA NotInvolved ==
    ASSUME NEW c \in Conns, Placed(c), to'[c] = to[c],
           \A q \in Pools : (c \in idle'[q] <=> c \in idle[q]) /\ (warmConn'[q] = c <=> warmConn[q] = c),
           \A t \in Threads : conn'[t] = c <=> conn[t] = c
    PROVE  Placed(c)'
<1>1. Idle(c)' = Idle(c) /\ Warming(c)' = Warming(c) /\ Using(c)' = Using(c)
  BY Zenon DEF Idle, Warming, Using
<1> QED
  BY <1>1, Zenon DEF Placed, Nowhere, Pooled, Warmed, Used

\* Every connection keeps a place, one.
LEMMA ConnStep ==
    ASSUME Shape, \A c \in Conns : Placed(c), Next
    PROVE  \A c \in Conns : Placed(c)'
<1>1. ASSUME NEW p \in Peers,
             \/ MemberJoins(p) \/ MemberLeaves(p) \/ PeerLeave(p)
             \/ PeerStopsListening(p) \/ PeerCloseReturns(p) \/ SyncRing(p)
      PROVE  UNCHANGED <<to, idle, warmConn, conn>>
  BY <1>1, Zenon DEF MemberJoins, MemberLeaves, PeerLeave, PeerStopsListening,
     PeerCloseReturns, SyncRing, NoteStale, membership, registry, warmers, threadVars
<1>2. ASSUME NEW q \in Pools,
             \/ PoolClose(q)
      PROVE  UNCHANGED <<to, idle, warmConn, conn>>
  BY <1>2, Zenon DEF PoolClose, membership, registry, warmers, threadVars
<1>3. ASSUME NEW t \in Threads,
             \/ AddMissing(t)
      PROVE  UNCHANGED <<to, idle, warmConn, conn>>
  BY <1>3, Zenon DEF AddMissing, AddPeer, NewPeerPool, NoteStale, Go, membership, registry,
     warmers, threadVars
<1>4. ASSUME NEW t \in Threads, NEW p \in Peers,
             \/ Begin(t, p)
      PROVE  UNCHANGED <<to, idle, warmConn, conn>>
  BY <1>4, Zenon DEF Begin, Go, membership, registry, warmers, threadVars
<1>5. ASSUME \/ NotifyRing \/ NotifyAddPeer \/ NotifyRemovePeer \/ NotifyRemoved
             \/ SyncSnapshot \/ SyncPool \/ SyncDone \/ Cancel \/ ClosePools
      PROVE  UNCHANGED <<to, idle, warmConn, conn>>
  BY <1>5, Zenon DEF NotifyRing, NotifyAddPeer, AddPeer, NewPeerPool, NotifyRemovePeer,
     NotifyRemoved, SyncSnapshot, SyncPool, NoteStale, SyncDone, Cancel, ClosePools,
     membership, registry, warmers, threadVars
<1>6. ASSUME UNCHANGED <<to, idle, warmConn, conn>>
      PROVE  \A c \in Conns : Placed(c)'
  BY <1>6, NotInvolved, Zenon DEF Shape, membership, registry, warmers, threadVars,
     PoolTypes, Warmers, Requests
<1> USE MeshAssumption DEF Shape, membership, registry, warmers, threadVars,
   PoolTypes, Warmers, Requests
<1>7. ASSUME NEW q \in Pools, PoolDrain(q) PROVE \A c \in Conns : Placed(c)'
  <2>1. CASE idle[q] = {}
    <3>1. UNCHANGED <<to, idle, warmConn, conn>>
      BY <1>7, <2>1, Zenon DEF PoolDrain
    <3> QED
      BY <3>1, NotInvolved, Zenon
  <2>2. CASE ~(idle[q] = {})
    <3>1. PICK c \in idle[q] : idle' = [idle EXCEPT ![q] = @ \ {c}] /\ to' = [to EXCEPT ![c] = None]
      BY <1>7, <2>2, Zenon DEF PoolDrain
    <3>2. Placed(c)' /\ c \in Conns
      BY <1>7, <2>2, <3>1, HolderIsPlace DEF PoolDrain, Placed, Nowhere, Pooled, Warmed, Used, Idle, Warming, Using
    <3>3. ASSUME NEW d \in Conns, d # c PROVE Placed(d)'
      BY <1>7, <2>2, <3>1, <3>3, NotInvolved DEF PoolDrain
    <3> QED
      BY <3>2, <3>3
  <2> QED
    BY <2>1, <2>2, Zenon
<1>8. ASSUME NEW q \in Pools, WarmDial(q) PROVE \A c \in Conns : Placed(c)'
  <2>1. CASE WarmEnds(q)
    <3>1. UNCHANGED <<to, idle, warmConn, conn>>
      BY <1>8, <2>1 DEF WarmDial, WarmEnds, Reachable, Warmers
    <3> QED
      BY <3>1, NotInvolved, Zenon
  <2>2. CASE ~(WarmEnds(q))
    <3>1. PICK c \in Conns : c = FreeConn /\ Nowhere(c)
      BY <1>8, <2>2, HolderIsPlace, FreeIsNotOpen, Zenon DEF WarmDial, Warmers, Registry
    <3>2. ASSUME NEW d \in Conns, d # c PROVE Placed(d)'
      <4>1. /\ to'[d] = to[d]
            /\ \A r \in Pools : (d \in idle'[r] <=> d \in idle[r]) /\ (warmConn'[r] = d <=> warmConn[r] = d)
            /\ \A u \in Threads : conn'[u] = d <=> conn[u] = d
        BY <1>8, <2>2, <3>1, <3>2 DEF WarmDial, WarmEnds, Reachable, Warmers, Registry
      <4> QED
        BY <3>2, <4>1, NotInvolved, Zenon
    <3>3. Placed(c)'
      BY <1>8, <2>2, <3>1 DEF WarmDial, WarmEnds, Reachable, Placed, Nowhere, Pooled, Warmed, Used, Idle, Warming, Using, Warmers, Registry
    <3> QED
      BY <3>2, <3>3
  <2> QED
    BY <2>1, <2>2, Zenon
<1>9. ASSUME NEW q \in Pools, WarmRecheck(q) PROVE \A c \in Conns : Placed(c)'
  <2>1. CASE Closed(q)
    <3>1. PICK c \in Conns : c = warmConn[q] /\ Warmed(c, q)
      BY <1>9, <2>1, HolderIsPlace DEF WarmRecheck, Warmers
    <3>2. ASSUME NEW d \in Conns, d # c PROVE Placed(d)'
      <4>1. /\ to'[d] = to[d]
            /\ \A r \in Pools : (d \in idle'[r] <=> d \in idle[r]) /\ (warmConn'[r] = d <=> warmConn[r] = d)
            /\ \A u \in Threads : conn'[u] = d <=> conn[u] = d
        BY <1>9, <2>1, <3>1, <3>2 DEF WarmRecheck, WarmEnds, Warmers
      <4> QED
        BY <3>2, <4>1, NotInvolved, Zenon
    <3>3. Placed(c)'
      BY <1>9, <2>1, <3>1 DEF WarmRecheck, WarmEnds, Placed, Nowhere, Pooled, Warmed, Used, Idle, Warming, Using, Warmers
    <3> QED
      BY <3>2, <3>3, Zenon
  <2>2. CASE ~(Closed(q))
    <3>1. UNCHANGED <<to, idle, warmConn, conn>>
      BY <1>9, <2>2, Zenon DEF WarmRecheck, WarmEnds, Warmers
    <3> QED
      BY <3>1, NotInvolved, Zenon
  <2> QED
    BY <2>1, <2>2, Zenon
<1>10. ASSUME NEW q \in Pools, WarmPush(q) PROVE \A c \in Conns : Placed(c)'
  <2>1. PICK c \in Conns : c = warmConn[q] /\ Warmed(c, q)
    BY <1>10, HolderIsPlace DEF WarmPush, Warmers
  <2>2. ASSUME NEW d \in Conns, d # c PROVE Placed(d)'
    <3>1. /\ to'[d] = to[d]
          /\ \A r \in Pools : (d \in idle'[r] <=> d \in idle[r]) /\ (warmConn'[r] = d <=> warmConn[r] = d)
          /\ \A u \in Threads : conn'[u] = d <=> conn[u] = d
      BY <1>10, <2>1, <2>2 DEF WarmPush, WarmEnds, Push, Warmers
    <3> QED
      BY <2>2, <3>1, NotInvolved, Zenon
  <2>3. Placed(c)'
    BY <1>10, <2>1 DEF WarmPush, WarmEnds, Push, Placed, Nowhere, Pooled, Warmed, Used, Idle, Warming, Using, Warmers
  <2> QED
    BY <2>2, <2>3, Zenon
<1>11. ASSUME NEW t \in Threads, Lookup(t) PROVE \A c \in Conns : Placed(c)'
  <2>1. UNCHANGED <<to, idle, warmConn, conn>>
    BY <1>11 DEF Lookup, FailTrip, Return, Go, Requests
  <2> QED
    BY <2>1, NotInvolved, Zenon
<1>12. ASSUME NEW t \in Threads, Find(t) PROVE \A c \in Conns : Placed(c)'
  <2>1. UNCHANGED <<to, idle, warmConn, conn>>
    BY <1>12 DEF Find, FailTrip, Return, Go, Requests
  <2> QED
    BY <2>1, NotInvolved, Zenon
<1>13. ASSUME NEW t \in Threads, GetConn(t) PROVE \A c \in Conns : Placed(c)'
  <2>1. UNCHANGED <<to, idle, warmConn, conn>>
    BY <1>13 DEF GetConn, FailTrip, Return, Go, Requests
  <2> QED
    BY <2>1, NotInvolved, Zenon
<1>14. ASSUME NEW t \in Threads, Pop(t) PROVE \A c \in Conns : Placed(c)'
  <2>1. CASE idle[pool[t]] = {}
    <3>1. UNCHANGED <<to, idle, warmConn, conn>>
      BY <1>14, <2>1, Zenon DEF Pop, Use, Go, Requests
    <3> QED
      BY <3>1, NotInvolved, Zenon
  <2>2. CASE ~(idle[pool[t]] = {})
    <3>1. PICK c \in idle[pool[t]] : idle' = [idle EXCEPT ![pool[t]] = @ \ {c}] /\ Use(t, c)
      BY <1>14, <2>2, Zenon DEF Pop
    <3>2. Placed(c)' /\ c \in Conns
      BY <1>14, <2>2, <3>1, HolderIsPlace DEF Pop, Use, Requests, Placed, Nowhere, Pooled, Warmed, Used, Idle, Warming, Using
    <3>3. ASSUME NEW d \in Conns, d # c PROVE Placed(d)'
      BY <1>14, <2>2, <3>1, <3>3, NotInvolved DEF Pop, Use, Requests
    <3> QED
      BY <3>2, <3>3, Zenon
  <2> QED
    BY <2>1, <2>2, Zenon
<1>15. ASSUME NEW t \in Threads, Dial(t) PROVE \A c \in Conns : Placed(c)'
  <2>1. CASE FailTrip(t)
    <3>1. UNCHANGED <<to, idle, warmConn, conn>>
      BY <1>15, <2>1 DEF Dial, FailTrip, Return, Go, Use, Reachable, Requests
    <3> QED
      BY <3>1, NotInvolved, Zenon
  <2>2. CASE ~(FailTrip(t))
    <3>1. PICK c \in Conns : c = FreeConn /\ Nowhere(c)
      BY <1>15, <2>2, HolderIsPlace, FreeIsNotOpen, Zenon DEF Dial, Requests
    <3>2. ASSUME NEW d \in Conns, d # c PROVE Placed(d)'
      <4>1. /\ to'[d] = to[d]
            /\ \A r \in Pools : (d \in idle'[r] <=> d \in idle[r]) /\ (warmConn'[r] = d <=> warmConn[r] = d)
            /\ \A u \in Threads : conn'[u] = d <=> conn[u] = d
        BY <1>15, <2>2, <3>1, <3>2 DEF Dial, FailTrip, Return, Go, Use, Reachable, Requests
      <4> QED
        BY <3>2, <4>1, NotInvolved, Zenon
    <3>3. Placed(c)'
      BY <1>15, <2>2, <3>1 DEF Dial, FailTrip, Return, Go, Use, Reachable, Placed, Nowhere, Pooled, Warmed, Used, Idle, Warming, Using, Requests
    <3> QED
      BY <3>2, <3>3
  <2> QED
    BY <2>1, <2>2, Zenon
<1>16. ASSUME NEW t \in Threads, Drop(t) PROVE \A c \in Conns : Placed(c)'
  <2>1. PICK c \in Conns : c = conn[t] /\ Used(c, t)
    BY <1>16, HolderIsPlace, Zenon DEF Drop, Requests
  <2>2. ASSUME NEW d \in Conns, d # c PROVE Placed(d)'
    <3>1. /\ to'[d] = to[d]
          /\ \A r \in Pools : (d \in idle'[r] <=> d \in idle[r]) /\ (warmConn'[r] = d <=> warmConn[r] = d)
          /\ \A u \in Threads : conn'[u] = d <=> conn[u] = d
      BY <1>16, <2>1, <2>2 DEF Drop, FailTrip, Return, Go, Requests
    <3> QED
      BY <2>2, <3>1, NotInvolved, Zenon
  <2>3. Placed(c)'
    BY <1>16, <2>1 DEF Drop, FailTrip, Return, Go, Placed, Nowhere, Pooled, Warmed, Used, Idle, Warming, Using, Requests
  <2> QED
    BY <2>2, <2>3, Zenon
<1>17. ASSUME NEW t \in Threads, PutConn(t) PROVE \A c \in Conns : Placed(c)'
  <2>1. CASE peers[target[t]] = 0
    <3>1. PICK c \in Conns : c = conn[t] /\ Used(c, t)
      BY <1>17, <2>1, HolderIsPlace, Zenon DEF PutConn, Requests
    <3>2. ASSUME NEW d \in Conns, d # c PROVE Placed(d)'
      <4>1. /\ to'[d] = to[d]
            /\ \A r \in Pools : (d \in idle'[r] <=> d \in idle[r]) /\ (warmConn'[r] = d <=> warmConn[r] = d)
            /\ \A u \in Threads : conn'[u] = d <=> conn[u] = d
        BY <1>17, <2>1, <3>1, <3>2 DEF PutConn, Return, Go, Requests
      <4> QED
        BY <3>2, <4>1, NotInvolved, Zenon
    <3>3. Placed(c)'
      BY <1>17, <2>1, <3>1 DEF PutConn, Return, Go, Placed, Nowhere, Pooled, Warmed, Used, Idle, Warming, Using, Requests
    <3> QED
      BY <3>2, <3>3, Zenon
  <2>2. CASE ~(peers[target[t]] = 0)
    <3>1. UNCHANGED <<to, idle, warmConn, conn>>
      BY <1>17, <2>2, Zenon DEF PutConn, Return, Go, Requests
    <3> QED
      BY <3>1, NotInvolved, Zenon
  <2> QED
    BY <2>1, <2>2, Zenon
<1>18. ASSUME NEW t \in Threads, PoolPutConn(t) PROVE \A c \in Conns : Placed(c)'
  <2>1. CASE Closed(pool[t])
    <3>1. PICK c \in Conns : c = conn[t] /\ Used(c, t)
      BY <1>18, <2>1, HolderIsPlace, Zenon DEF PoolPutConn, Requests
    <3>2. ASSUME NEW d \in Conns, d # c PROVE Placed(d)'
      <4>1. /\ to'[d] = to[d]
            /\ \A r \in Pools : (d \in idle'[r] <=> d \in idle[r]) /\ (warmConn'[r] = d <=> warmConn[r] = d)
            /\ \A u \in Threads : conn'[u] = d <=> conn[u] = d
        BY <1>18, <2>1, <3>1, <3>2 DEF PoolPutConn, Return, Go, Requests
      <4> QED
        BY <3>2, <4>1, NotInvolved, Zenon
    <3>3. Placed(c)'
      BY <1>18, <2>1, <3>1 DEF PoolPutConn, Return, Go, Placed, Nowhere, Pooled, Warmed, Used, Idle, Warming, Using, Requests
    <3> QED
      BY <3>2, <3>3, Zenon
  <2>2. CASE ~(Closed(pool[t]))
    <3>1. UNCHANGED <<to, idle, warmConn, conn>>
      BY <1>18, <2>2, Zenon DEF PoolPutConn, Return, Go, Requests
    <3> QED
      BY <3>1, NotInvolved, Zenon
  <2> QED
    BY <2>1, <2>2, Zenon
<1>19. ASSUME NEW t \in Threads, PoolPush(t) PROVE \A c \in Conns : Placed(c)'
  <2>1. PICK c \in Conns : c = conn[t] /\ Used(c, t)
    BY <1>19, HolderIsPlace DEF PoolPush, Requests
  <2>2. ASSUME NEW d \in Conns, d # c PROVE Placed(d)'
    <3>1. /\ to'[d] = to[d]
          /\ \A r \in Pools : (d \in idle'[r] <=> d \in idle[r]) /\ (warmConn'[r] = d <=> warmConn[r] = d)
          /\ \A u \in Threads : conn'[u] = d <=> conn[u] = d
      BY <1>19, <2>1, <2>2 DEF PoolPush, Return, Go, Push, Requests
    <3> QED
      BY <2>2, <3>1, NotInvolved, Zenon
  <2>3. Placed(c)'
    BY <1>19, <2>1 DEF PoolPush, Return, Go, Push, Placed, Nowhere, Pooled, Warmed, Used, Idle, Warming, Using, Requests
  <2> QED
    BY <2>2, <2>3, Zenon
<1> HIDE DEF Shape, membership, registry, warmers, threadVars, PoolTypes, Warmers,
   Requests
<1> QED
  BY <1>1, <1>2, <1>3, <1>4, <1>5, <1>6, <1>7, <1>8, <1>9, <1>10, <1>11, <1>12, <1>13,
     <1>14, <1>15, <1>16, <1>17, <1>18, <1>19, Zenon DEF Next, Warm, Query, Notify, Sync

\* Every connection is used for the peer it leads to.
LEMMA LeadStep ==
    ASSUME Shape, ConnsAccounted, ConnsLeadToTheirPeer, Next
    PROVE  ConnsLeadToTheirPeer'
<1>1. ASSUME NEW p \in Peers,
             \/ MemberJoins(p) \/ MemberLeaves(p) \/ PeerLeave(p)
             \/ PeerStopsListening(p) \/ PeerCloseReturns(p) \/ SyncRing(p)
      PROVE  UNCHANGED <<to, idle, warmConn, conn, addr, target>>
  BY <1>1, Zenon DEF MemberJoins, MemberLeaves, PeerLeave, PeerStopsListening,
     PeerCloseReturns, SyncRing, NoteStale, membership, registry, warmers, threadVars
<1>2. ASSUME NEW q \in Pools,
             \/ PoolClose(q)
      PROVE  UNCHANGED <<to, idle, warmConn, conn, addr, target>>
  BY <1>2, Zenon DEF PoolClose, membership, registry, warmers, threadVars
<1>3. ASSUME \/ NotifyRing \/ NotifyRemovePeer \/ NotifyRemoved \/ SyncSnapshot
             \/ SyncDone \/ Cancel \/ ClosePools
      PROVE  UNCHANGED <<to, idle, warmConn, conn, addr, target>>
  BY <1>3, Zenon DEF NotifyRing, NotifyRemovePeer, NotifyRemoved, SyncSnapshot, SyncDone,
     Cancel, ClosePools, membership, registry, warmers, threadVars
<1>4. ASSUME UNCHANGED <<to, idle, warmConn, conn, addr, target>>
      PROVE  ConnsLeadToTheirPeer'
  BY <1>4 DEF Shape, membership, registry, warmers, threadVars, PoolTypes, Warmers,
     Requests, ConnsLeadToTheirPeer
<1> USE MeshAssumption DEF Shape, membership, registry, warmers, threadVars,
   PoolTypes, Warmers, Requests, ConnsLeadToTheirPeer
<1>5. ASSUME NEW q \in Pools, PoolDrain(q) PROVE ConnsLeadToTheirPeer'
  <2>1. ASSUME NEW r \in Pools, NEW c \in idle'[r] \cup ({warmConn'[r]} \ {None})
        PROVE  to'[c] = addr'[r]
    BY <1>5, <2>1 DEF PoolDrain, ConnsAccounted, Open
  <2>2. ASSUME NEW u \in Threads, conn'[u] # None PROVE to'[conn'[u]] = target'[u]
    BY <1>5, <2>2 DEF PoolDrain, ConnsAccounted, Open
  <2> QED
    BY <2>1, <2>2, Zenon
<1>6. ASSUME NEW q \in Pools, WarmDial(q) PROVE ConnsLeadToTheirPeer'
  BY <1>6, FreeIsNotOpen DEF WarmDial, WarmEnds, Reachable, Warmers, Registry,
     ConnsAccounted, Open
<1>7. ASSUME NEW q \in Pools, WarmRecheck(q) PROVE ConnsLeadToTheirPeer'
  <2>1. ASSUME NEW r \in Pools, NEW c \in idle'[r] \cup ({warmConn'[r]} \ {None})
        PROVE  to'[c] = addr'[r]
    BY <1>7, <2>1 DEF WarmRecheck, WarmEnds, Warmers, ConnsAccounted, Open
  <2>2. ASSUME NEW u \in Threads, conn'[u] # None PROVE to'[conn'[u]] = target'[u]
    BY <1>7, <2>2 DEF WarmRecheck, WarmEnds, Warmers, ConnsAccounted, Open
  <2> QED
    BY <2>1, <2>2, Zenon
<1>8. ASSUME NEW q \in Pools, WarmPush(q) PROVE ConnsLeadToTheirPeer'
  BY <1>8 DEF WarmPush, WarmEnds, Push, Warmers, ConnsAccounted, Open
<1>9. ASSUME NotifyAddPeer PROVE ConnsLeadToTheirPeer'
  BY <1>9, NextPool DEF NotifyAddPeer, AddPeer, NewPeerPool, Registry, Warmers,
     Notifications, Event
<1>10. ASSUME SyncPool PROVE ConnsLeadToTheirPeer'
  BY <1>10, NextPool DEF SyncPool, AddPeer, NewPeerPool, NoteStale, Registry, Warmers,
     Notifications
<1>11. ASSUME NEW t \in Threads, Lookup(t) PROVE ConnsLeadToTheirPeer'
  BY <1>11 DEF Lookup, FailTrip, Return, Go, Requests, ConnsAccounted, Open
<1>12. ASSUME NEW t \in Threads, AddMissing(t) PROVE ConnsLeadToTheirPeer'
  BY <1>12, NextPool DEF AddMissing, AddPeer, NewPeerPool, NoteStale, Go, Registry,
     Warmers, Requests
<1>13. ASSUME NEW t \in Threads, Find(t) PROVE ConnsLeadToTheirPeer'
  BY <1>13 DEF Find, FailTrip, Return, Go, Requests, ConnsAccounted, Open
<1>14. ASSUME NEW t \in Threads, GetConn(t) PROVE ConnsLeadToTheirPeer'
  BY <1>14 DEF GetConn, FailTrip, Return, Go, Requests, ConnsAccounted, Open
<1>15. ASSUME NEW t \in Threads, Pop(t) PROVE ConnsLeadToTheirPeer'
  <2>1. ASSUME NEW r \in Pools, NEW c \in idle'[r] \cup ({warmConn'[r]} \ {None})
        PROVE  to'[c] = addr'[r]
    BY <1>15, <2>1 DEF Pop, Use, Go, Requests, ConnsAccounted, Open
  <2>2. ASSUME NEW u \in Threads, conn'[u] # None PROVE to'[conn'[u]] = target'[u]
    BY <1>15, <2>2 DEF Pop, Use, Go, Requests, ConnsAccounted, Open
  <2> QED
    BY <2>1, <2>2, Zenon
<1>16. ASSUME NEW t \in Threads, Dial(t) PROVE ConnsLeadToTheirPeer'
  BY <1>16, FreeIsNotOpen DEF Dial, FailTrip, Return, Go, Use, Reachable, Requests,
     ConnsAccounted, Open
<1>17. ASSUME NEW t \in Threads, Drop(t) PROVE ConnsLeadToTheirPeer'
  BY <1>17 DEF Drop, FailTrip, Return, Go, Requests, ConnsAccounted, Open
<1>18. ASSUME NEW t \in Threads, PutConn(t) PROVE ConnsLeadToTheirPeer'
  BY <1>18 DEF PutConn, Return, Go, Requests, ConnsAccounted, Open
<1>19. ASSUME NEW t \in Threads, PoolPutConn(t) PROVE ConnsLeadToTheirPeer'
  BY <1>19 DEF PoolPutConn, Return, Go, Requests, ConnsAccounted, Open
<1>20. ASSUME NEW t \in Threads, PoolPush(t) PROVE ConnsLeadToTheirPeer'
  BY <1>20 DEF PoolPush, Return, Go, Push, Requests, ConnsAccounted, Open
<1>21. ASSUME NEW t \in Threads, NEW p \in Peers, Begin(t, p) PROVE ConnsLeadToTheirPeer'
  BY <1>21 DEF Begin, Go, Requests
<1> HIDE DEF Shape, membership, registry, warmers, threadVars, PoolTypes, Warmers,
   Requests, ConnsLeadToTheirPeer
<1> QED
  BY <1>1, <1>2, <1>3, <1>4, <1>5, <1>6, <1>7, <1>8, <1>9, <1>10, <1>11, <1>12, <1>13,
     <1>14, <1>15, <1>16, <1>17, <1>18, <1>19, <1>20, <1>21, Zenon DEF Next, Warm, Query,
     Notify, Sync

\* A pool is drained when its channel was found empty.
LEMMA DrainStep ==
    ASSUME Shape, DrainedUnlessLate, Next
    PROVE  DrainedUnlessLate'
<1>1. ASSUME NEW p \in Peers,
             \/ MemberJoins(p) \/ MemberLeaves(p) \/ PeerLeave(p)
             \/ PeerStopsListening(p) \/ PeerCloseReturns(p) \/ SyncRing(p)
      PROVE  UNCHANGED <<stage, idle, late>>
  BY <1>1, Zenon DEF MemberJoins, MemberLeaves, PeerLeave, PeerStopsListening,
     PeerCloseReturns, SyncRing, NoteStale, membership, registry, warmers, threadVars
<1>2. ASSUME NEW q \in Pools,
             \/ WarmDial(q) \/ WarmRecheck(q)
      PROVE  UNCHANGED <<stage, idle, late>>
  BY <1>2, Zenon DEF WarmDial, WarmEnds, WarmRecheck, membership, registry, warmers,
     threadVars
<1>3. ASSUME NEW t \in Threads,
             \/ Lookup(t) \/ Find(t) \/ GetConn(t) \/ Dial(t) \/ Drop(t) \/ PutConn(t)
             \/ PoolPutConn(t)
      PROVE  UNCHANGED <<stage, idle, late>>
  BY <1>3, Zenon DEF Lookup, FailTrip, Return, Go, Find, GetConn, Dial, Use, Drop, PutConn,
     PoolPutConn, membership, registry, warmers, threadVars
<1>4. ASSUME NEW t \in Threads, NEW p \in Peers,
             \/ Begin(t, p)
      PROVE  UNCHANGED <<stage, idle, late>>
  BY <1>4, Zenon DEF Begin, Go, membership, registry, warmers, threadVars
<1>5. ASSUME \/ NotifyRing \/ NotifyRemoved \/ SyncSnapshot \/ SyncDone \/ Cancel
      PROVE  UNCHANGED <<stage, idle, late>>
  BY <1>5, Zenon DEF NotifyRing, NotifyRemoved, SyncSnapshot, SyncDone, Cancel, membership,
     registry, warmers, threadVars
<1>6. ASSUME UNCHANGED <<stage, idle, late>>
      PROVE  DrainedUnlessLate'
  BY <1>6, Zenon DEF Shape, membership, registry, warmers, threadVars, PoolTypes,
     DrainedUnlessLate, Closed
<1> USE MeshAssumption DEF Shape, membership, registry, warmers, threadVars,
   PoolTypes, DrainedUnlessLate, Closed
<1>7. ASSUME NEW q \in Pools, PoolClose(q) PROVE DrainedUnlessLate'
  BY <1>7, Zenon DEF PoolClose
<1>8. ASSUME NEW q \in Pools, PoolDrain(q) PROVE DrainedUnlessLate'
  BY <1>8, Zenon DEF PoolDrain
<1>9. ASSUME NEW q \in Pools, WarmPush(q) PROVE DrainedUnlessLate'
  BY <1>9, Zenon DEF WarmPush, WarmEnds, Push
<1>10. ASSUME NotifyAddPeer PROVE DrainedUnlessLate'
  BY <1>10, NextPool, Zenon DEF NotifyAddPeer, AddPeer, NewPeerPool
<1>11. ASSUME NotifyRemovePeer PROVE DrainedUnlessLate'
  BY <1>11, PoolIds DEF NotifyRemovePeer, Notifications, Event
<1>12. ASSUME SyncPool PROVE DrainedUnlessLate'
  BY <1>12, NextPool, Zenon DEF SyncPool, AddPeer, NewPeerPool, NoteStale
<1>13. ASSUME NEW t \in Threads, AddMissing(t) PROVE DrainedUnlessLate'
  BY <1>13, NextPool, Zenon DEF AddMissing, AddPeer, NewPeerPool, NoteStale, Go
<1>14. ASSUME NEW t \in Threads, Pop(t) PROVE DrainedUnlessLate'
  BY <1>14, Zenon DEF Pop, Use, Go, Requests
<1>15. ASSUME NEW t \in Threads, PoolPush(t) PROVE DrainedUnlessLate'
  BY <1>15 DEF PoolPush, Return, Go, Push, Requests
<1>16. ASSUME ClosePools PROVE DrainedUnlessLate'
  BY <1>16, Zenon DEF ClosePools
<1> HIDE DEF Shape, membership, registry, warmers, threadVars, PoolTypes,
   DrainedUnlessLate, Closed
<1> QED
  BY <1>1, <1>2, <1>3, <1>4, <1>5, <1>6, <1>7, <1>8, <1>9, <1>10, <1>11, <1>12, <1>13,
     <1>14, <1>15, <1>16, Zenon DEF Next, Warm, Query, Notify, Sync

-----------------------------------------------------------------------------
\* The invariant is inductive.
LEMMA NextInv == IInv /\ [Next]_vars => IInv'
<1> SUFFICES ASSUME IInv, [Next]_vars PROVE IInv'
  BY Zenon
<1>1. Shape'
  BY NextShape, Zenon DEF IInv
<1>2. CASE Next
  <2>1. Shape /\ ConnsAccounted
    BY PlacesAccount, Zenon DEF IInv, Shape
  <2>2. (Following /\ DrainedUnlessLate)'
    BY <1>2, <2>1, FollowStep, DrainStep, Zenon DEF IInv
  <2>3. (\A c \in Conns : Placed(c))' /\ ConnsLeadToTheirPeer'
    BY <1>2, <2>1, ConnStep, LeadStep, Zenon DEF IInv
  <2> QED
    BY <1>1, <2>2, <2>3, Zenon DEF IInv
<1>3. CASE UNCHANGED vars
  <2> USE <1>3 DEF IInv, vars, membership, registry, warmers, threadVars
  <2>1. (Following /\ DrainedUnlessLate /\ ConnsLeadToTheirPeer)'
    BY Zenon DEF Following, DrainedUnlessLate, ConnsLeadToTheirPeer
  <2>2. (\A c \in Conns : Placed(c))'
    BY NotInvolved, Zenon
  <2> QED
    BY <1>1, <2>1, <2>2, Zenon
<1> QED
  BY <1>2, <1>3, Zenon

\* PeerPool and MeshPool neither lose nor share a connection, whatever
\* interleaves.
THEOREM ConnectionsHaveOneHolder == Spec => []ConnsAccounted
<1>1. IInv => ConnsAccounted
  BY PlacesAccount, Zenon DEF IInv, Shape
<1> QED
  BY InitInv, NextInv, <1>1, PTL DEF Spec

\* A request never uses a connection that leads to another peer, and no pool
\* holds one.
THEOREM ConnectionsAreNotMixedUp == Spec => []ConnsLeadToTheirPeer
<1>1. IInv => ConnsLeadToTheirPeer
  BY Zenon DEF IInv, Shape
<1> QED
  BY InitInv, NextInv, <1>1, PTL DEF Spec

\* MeshPool.peers holds the open pools and no other.
THEOREM OpenPoolsAreRegistered == Spec => []RegisteredPoolsOpen
<1>1. IInv => RegisteredPoolsOpen
  BY Zenon DEF IInv, Shape
<1> QED
  BY InitInv, NextInv, <1>1, PTL DEF Spec

\* What stays in the channel of a closed pool was pushed after closed was set.
THEOREM PoolsCloseCleanly == Spec => []DrainedUnlessLate
<1>1. IInv => DrainedUnlessLate
  BY Zenon DEF IInv, Shape
<1> QED
  BY InitInv, NextInv, <1>1, PTL DEF Spec

\* Between notifications the ring and MeshPool.peers are what memberlist
\* reports, but for peers added again after their leave.
THEOREM RingFollowsMemberlist == Spec => []FollowsMembership
<1>1. IInv => FollowsMembership
  BY Zenon DEF IInv, Following, FollowsMembership
<1> QED
  BY InitInv, NextInv, <1>1, PTL DEF Spec
=============================================================================
