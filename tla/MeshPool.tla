------------------------------ MODULE MeshPool ------------------------------
(***************************************************************************)
(* The outgoing connections of one cluster node (pkg/cluster/pool.go) and  *)
(* what drives them in pkg/cluster/mesh.go: the memberlist notifications,  *)
(* the initial synchronisation of NewNode, the requests of                 *)
(* ExecuteInterQuery and the Close of this node and of its peers.          *)
(*                                                                         *)
(* A PeerPool is a channel of idle connections to one address.  MeshPool   *)
(* maps an address to its current PeerPool; a pool that was removed lives  *)
(* on in the goroutines that still refer to it.  A step is what the code   *)
(* does under one lock, in one channel operation or in one system call.    *)
(* The order of the connections in a channel is left out.                  *)
(***************************************************************************)
EXTENDS Naturals, FiniteSets

CONSTANTS
    Peers,          \* mesh addresses of the other nodes
    Threads,        \* goroutines that send inter-queries
    Conns,          \* bounds the connections open at the same time
    None,           \* no connection, no peer, no notification
    PoolSize,       \* NodeConfig.PoolSize
    MaxPools,       \* bounds the PeerPools ever created
    MaxLeaves       \* bounds the leaves memberlist reports

Pools == 1..MaxPools
\* A memberlist notification and how far it has come.
Event == [kind : {"join", "leave"}, peer : Peers, at : {"ring", "pool", "close"},
          pool : Pools \cup {0}]

ASSUME MeshAssumption ==
    /\ None \notin Peers /\ None \notin Conns
    /\ PoolSize \in Nat \ {0} /\ MaxPools \in Nat /\ MaxLeaves \in Nat
ASSUME EventAssumption == None \notin Event

VARIABLES
    members,    \* the peers memberlist reports
    leaves,     \* the leaves it has reported
    event,      \* the notification being delivered: [kind, peer, at]
    sync,       \* NewNode: "before", "loop" or "done"
    unsynced,   \* the snapshot of members NewNode has still to walk
    syncing,    \* the one it has put on the ring and not yet in the pool
    ring,       \* the peers on the ring
    peers,      \* MeshPool.peers: address to pool, 0 for none
    made,       \* PeerPools created so far; pool q is the q-th
    addr,       \* PeerPool.addr
    stage,      \* life of a pool: "none", "open", "removed" from peers,
                \* "draining" once closed is set, "drained" when Close returned
    idle,       \* PeerPool.conns
    warm,       \* step of a pool's EnsureConnected goroutine
    warmLeft,   \* iterations it has left
    warmConn,   \* the connection it has dialed
    down,       \* the context of the node is cancelled
    to,         \* the peer a connection leads to, None when it is closed
    pc, target, pool, conn, retried,    \* the inter-query of a goroutine
    peerState,  \* Close of a peer: "up", "leaving", "waiting", "gone"
    late,       \* history: pools that got a connection after closed was set
    stale       \* history: peers added after memberlist had given them up

membership == <<members, leaves, event, sync, unsynced, syncing, ring>>
registry == <<peers, made, addr>>
warmers == <<warm, warmLeft, warmConn>>
threadVars == <<pc, target, pool, conn, retried>>
vars == <<membership, registry, stage, idle, warmers, down, to, threadVars,
          peerState, late, stale>>

Open == {c \in Conns : to[c] # None}

\* The state of the program as NewNode returns from memberlist.Create.
Init ==
    /\ members = {} /\ leaves = 0 /\ event = None
    /\ sync = "before" /\ unsynced = {} /\ syncing = None /\ ring = {}
    /\ peers = [p \in Peers |-> 0] /\ made = 0
    /\ addr = [q \in Pools |-> None]
    /\ stage = [q \in Pools |-> "none"]
    /\ idle = [q \in Pools |-> {}]
    /\ warm = [q \in Pools |-> "off"]
    /\ warmLeft = [q \in Pools |-> 0]
    /\ warmConn = [q \in Pools |-> None]
    /\ down = FALSE
    /\ to = [c \in Conns |-> None]
    /\ pc = [t \in Threads |-> "idle"]
    /\ target = [t \in Threads |-> None]
    /\ pool = [t \in Threads |-> 0]
    /\ conn = [t \in Threads |-> None]
    /\ retried = [t \in Threads |-> FALSE]
    /\ peerState = [p \in Peers |-> "up"]
    /\ late = {} /\ stale = {}

-----------------------------------------------------------------------------
(* Pools *)

Closed(q) == stage[q] \in {"draining", "drained"}

\* NewPeerPool, which starts EnsureConnected.
NewPeerPool(p) ==
    LET q == made + 1 IN
    /\ made < MaxPools
    /\ made' = q
    /\ peers' = [peers EXCEPT ![p] = q]
    /\ addr' = [addr EXCEPT ![q] = p]
    /\ stage' = [stage EXCEPT ![q] = "open"]
    /\ warm' = [warm EXCEPT ![q] = "dial"]
    /\ warmLeft' = [warmLeft EXCEPT ![q] = PoolSize]

\* AddPeer does nothing once the context is done or for a peer it knows.
AddPeer(p) ==
    \/ (down \/ peers[p] # 0) /\ UNCHANGED <<registry, stage, warm, warmLeft>>
    \/ ~down /\ peers[p] = 0 /\ NewPeerPool(p)

\* What AddPeer is called for after memberlist has reported the leave.
NoteStale(p) == stale' = IF p \in members THEN stale ELSE stale \cup {p}

\* A dial can succeed while the listener of p is open.
Reachable(p) == peerState[p] \in {"up", "leaving"} /\ Open # Conns
FreeConn == CHOOSE c \in Conns : c \notin Open

\* PeerPool.Close sets closed and cancels the pool's context under its lock.
PoolClose(q) ==
    /\ stage[q] = "removed"
    /\ stage' = [stage EXCEPT ![q] = "draining"]
    /\ UNCHANGED <<membership, registry, idle, warmers, down, to, threadVars,
                   peerState, late, stale>>

\* Mutant: Close leaves the channel as it is.
PoolDrainNothing(q) ==
    /\ stage[q] = "draining"
    /\ stage' = [stage EXCEPT ![q] = "drained"]
    /\ UNCHANGED <<membership, registry, idle, to, warmers, down, threadVars,
                   peerState, late, stale>>

\* Close then receives and closes connections until the channel is empty.
PoolDrain(q) ==
    /\ stage[q] = "draining"
    /\ \/ /\ idle[q] = {}
          /\ stage' = [stage EXCEPT ![q] = "drained"]
          /\ UNCHANGED <<idle, to>>
       \/ \E c \in idle[q] :
            /\ idle' = [idle EXCEPT ![q] = @ \ {c}]
            /\ to' = [to EXCEPT ![c] = None]
            /\ UNCHANGED stage
    /\ UNCHANGED <<membership, registry, warmers, down, threadVars, peerState,
                   late, stale>>

\* The non-blocking send to the channel: a full one means the connection is
\* closed.  The sender does not look at closed again.
Push(q, c) ==
    \/ /\ Cardinality(idle[q]) < PoolSize
       /\ idle' = [idle EXCEPT ![q] = @ \cup {c}]
       /\ late' = IF Closed(q) THEN late \cup {q} ELSE late
       /\ UNCHANGED to
    \/ /\ Cardinality(idle[q]) >= PoolSize
       /\ to' = [to EXCEPT ![c] = None]
       /\ UNCHANGED <<idle, late>>

-----------------------------------------------------------------------------
(* EnsureConnected of pool q *)

WarmEnds(q) ==
    /\ warm' = [warm EXCEPT ![q] = "off"]
    /\ warmLeft' = [warmLeft EXCEPT ![q] = 0]
    /\ warmConn' = [warmConn EXCEPT ![q] = None]

\* One turn of the loop up to the dial: the context, closed and the length of
\* the channel, then the dial, which fails on its own account too.  A pool that
\* is closed between the two has its dial cancelled; a connection that was
\* returned between the two meets the full channel in WarmPush.
WarmDial(q) ==
    /\ warm[q] = "dial"
    /\ \/ WarmEnds(q) /\ UNCHANGED to
       \/ /\ ~down /\ ~Closed(q)
          /\ Cardinality(idle[q]) < PoolSize /\ Reachable(addr[q])
          /\ to' = [to EXCEPT ![FreeConn] = addr[q]]
          /\ warmConn' = [warmConn EXCEPT ![q] = FreeConn]
          /\ warm' = [warm EXCEPT ![q] = "recheck"]
          /\ warmLeft' = [warmLeft EXCEPT ![q] = @ - 1]
    /\ UNCHANGED <<membership, registry, stage, idle, down, threadVars, peerState,
                   late, stale>>

WarmRecheck(q) ==
    /\ warm[q] = "recheck"
    /\ \/ /\ Closed(q)
          /\ to' = [to EXCEPT ![warmConn[q]] = None]
          /\ WarmEnds(q)
       \/ /\ ~Closed(q)
          /\ warm' = [warm EXCEPT ![q] = "push"]
          /\ UNCHANGED <<to, warmLeft, warmConn>>
    /\ UNCHANGED <<membership, registry, stage, idle, down, threadVars, peerState,
                   late, stale>>

\* The connection goes to the channel; the loop ends when that is full, or
\* after PoolSize turns.
WarmPush(q) ==
    /\ warm[q] = "push"
    /\ Push(q, warmConn[q])
    /\ IF Cardinality(idle[q]) >= PoolSize \/ warmLeft[q] = 0
       THEN WarmEnds(q)
       ELSE /\ warm' = [warm EXCEPT ![q] = "dial"]
            /\ warmConn' = [warmConn EXCEPT ![q] = None]
            /\ UNCHANGED warmLeft
    /\ UNCHANGED <<membership, registry, stage, down, threadVars, peerState, stale>>

-----------------------------------------------------------------------------
(* Membership: memberlist calls one notification at a time, under the lock  *)
(* that Members takes as well, and NewNode walks a snapshot of the members. *)

\* A join is modelled as long as the leave of everyone who joined can be.
MemberJoins(p) ==
    /\ event = None /\ p \notin members /\ peerState[p] = "up"
    /\ leaves + Cardinality(members) < MaxLeaves
    /\ members' = members \cup {p}
    /\ event' = [kind |-> "join", peer |-> p, at |-> "ring", pool |-> 0]
    /\ UNCHANGED <<leaves, sync, unsynced, syncing, ring, registry, stage, idle,
                   warmers, down, to, threadVars, peerState, late, stale>>

\* A peer that left, or one that is up and that the failure detector gives up.
MemberLeaves(p) ==
    /\ event = None /\ p \in members
    /\ leaves' = leaves + 1
    /\ members' = members \ {p}
    /\ event' = [kind |-> "leave", peer |-> p, at |-> "ring", pool |-> 0]
    /\ UNCHANGED <<sync, unsynced, syncing, ring, registry, stage, idle, warmers, down, to,
                   threadVars, peerState, late, stale>>

\* NotifyJoin, NotifyUpdate and NotifyLeave change the ring first.
NotifyRing ==
    /\ event # None /\ event.at = "ring"
    /\ ring' = IF event.kind = "join" THEN ring \cup {event.peer}
                                      ELSE ring \ {event.peer}
    /\ event' = [event EXCEPT !.at = "pool"]
    /\ stale' = stale \ {event.peer}
    /\ UNCHANGED <<members, leaves, sync, unsynced, syncing, registry, stage,
                   idle, warmers, down, to, threadVars, peerState, late>>

NotifyAddPeer ==
    /\ event # None /\ event.kind = "join" /\ event.at = "pool"
    /\ AddPeer(event.peer)
    /\ event' = None
    /\ UNCHANGED <<members, leaves, sync, unsynced, syncing, ring, idle, warmConn, down,
                   to, threadVars, peerState, late, stale>>

\* Mutant: the pool stays in the map.
RemoveKeepsEntry ==
    /\ event # None /\ event.kind = "leave" /\ event.at = "pool"
    /\ LET q == peers[event.peer] IN
       \/ q = 0 /\ event' = None /\ UNCHANGED <<peers, stage>>
       \/ /\ q # 0
          /\ stage' = [stage EXCEPT ![q] = "removed"]
          /\ event' = None
          /\ UNCHANGED peers
    /\ UNCHANGED <<members, leaves, sync, unsynced, syncing, ring, made, addr, idle,
                   warmers, down, to, threadVars, peerState, late, stale>>

\* Mutant: a leave does not reach the pools.
NotifyRemoveRingOnly ==
    /\ event # None /\ event.kind = "leave" /\ event.at = "pool"
    /\ event' = None
    /\ UNCHANGED <<members, leaves, sync, unsynced, syncing, ring, registry, stage,
                   idle, warmers, down, to, threadVars, peerState, late, stale>>

\* RemovePeer takes the pool out of the map under the lock, and closes it after.
NotifyRemovePeer ==
    /\ event # None /\ event.kind = "leave" /\ event.at = "pool"
    /\ LET q == peers[event.peer] IN
       \/ q = 0 /\ event' = None /\ UNCHANGED <<peers, stage>>
       \/ /\ q # 0
          /\ peers' = [peers EXCEPT ![event.peer] = 0]
          /\ stage' = [stage EXCEPT ![q] = "removed"]
          /\ event' = [event EXCEPT !.at = "close", !.pool = q]
    /\ UNCHANGED <<members, leaves, sync, unsynced, syncing, ring, made, addr, idle,
                   warmers, down, to, threadVars, peerState, late, stale>>

\* The notification ends with the Close of the pool.
NotifyRemoved ==
    /\ event # None /\ event.at = "close"
    /\ stage[event.pool] = "drained"
    /\ event' = None
    /\ UNCHANGED <<members, leaves, sync, unsynced, syncing, ring, registry, stage, idle,
                   warmers, down, to, threadVars, peerState, late, stale>>

\* NewNode: mlist.Members().
SyncSnapshot ==
    /\ sync = "before" /\ event = None
    /\ sync' = "loop"
    /\ unsynced' = members
    /\ UNCHANGED <<members, leaves, event, syncing, ring, registry, stage, idle,
                   warmers, down, to, threadVars, peerState, late, stale>>

SyncRing(p) ==
    /\ sync = "loop" /\ syncing = None /\ p \in unsynced
    /\ ring' = ring \cup {p}
    /\ NoteStale(p)
    /\ syncing' = p
    /\ unsynced' = unsynced \ {p}
    /\ UNCHANGED <<members, leaves, event, sync, registry, stage, idle, warmers,
                   down, to, threadVars, peerState, late>>

SyncPool ==
    /\ syncing # None
    /\ AddPeer(syncing)
    /\ NoteStale(syncing)
    /\ syncing' = None
    /\ UNCHANGED <<members, leaves, event, sync, unsynced, ring, idle, warmConn,
                   down, to, threadVars, peerState, late>>

SyncDone ==
    /\ sync = "loop" /\ unsynced = {} /\ syncing = None
    /\ sync' = "done"
    /\ UNCHANGED <<members, leaves, event, unsynced, syncing, ring, registry,
                   stage, idle, warmers, down, to, threadVars, peerState, late, stale>>

-----------------------------------------------------------------------------
(* ExecuteInterQuery of goroutine t *)

Go(t, at) == pc' = [pc EXCEPT ![t] = at]

Return(t) ==
    /\ Go(t, "idle")
    /\ target' = [target EXCEPT ![t] = None]
    /\ pool' = [pool EXCEPT ![t] = 0]
    /\ conn' = [conn EXCEPT ![t] = None]
    /\ retried' = [retried EXCEPT ![t] = FALSE]

\* roundTrip failed: one retry, unless the caller's context is done.
FailTrip(t) ==
    \/ Return(t)
    \/ /\ ~retried[t]
       /\ retried' = [retried EXCEPT ![t] = TRUE]
       /\ Go(t, "lookup")
       /\ pool' = [pool EXCEPT ![t] = 0]
       /\ conn' = [conn EXCEPT ![t] = None]
       /\ UNCHANGED target

\* GetConn returned c: the exchange of frames may begin.
Use(t, c) ==
    /\ conn' = [conn EXCEPT ![t] = c]
    /\ pool' = [pool EXCEPT ![t] = 0]
    /\ Go(t, "use")

\* The request is for a peer that was on the ring when the caller looked.
Begin(t, p) ==
    /\ sync = "done" /\ pc[t] = "idle" /\ p \in ring
    /\ Go(t, "lookup")
    /\ target' = [target EXCEPT ![t] = p]
    /\ UNCHANGED <<membership, registry, stage, idle, warmers, down, to, pool, conn,
                   retried, peerState, late, stale>>

\* MeshPool.GetConn looks at the context first and at the map after: the map
\* may be read when the context is done by then.
Lookup(t) ==
    /\ pc[t] = "lookup"
    /\ \/ down /\ FailTrip(t)
       \/ /\ peers[target[t]] # 0
          /\ pool' = [pool EXCEPT ![t] = peers[target[t]]]
          /\ Go(t, "get")
          /\ UNCHANGED <<target, conn, retried>>
       \/ /\ peers[target[t]] = 0
          /\ Go(t, "add")
          /\ UNCHANGED <<target, pool, conn, retried>>
    /\ UNCHANGED <<membership, registry, stage, idle, warmers, down, to, peerState,
                   late, stale>>

AddMissing(t) ==
    /\ pc[t] = "add"
    /\ AddPeer(target[t])
    /\ NoteStale(target[t])
    /\ Go(t, "find")
    /\ UNCHANGED <<membership, idle, warmConn, down, to, target, pool, conn, retried,
                   peerState, late>>

Find(t) ==
    /\ pc[t] = "find"
    /\ \/ peers[target[t]] = 0 /\ FailTrip(t)
       \/ /\ peers[target[t]] # 0
          /\ pool' = [pool EXCEPT ![t] = peers[target[t]]]
          /\ Go(t, "get")
          /\ UNCHANGED <<target, conn, retried>>
    /\ UNCHANGED <<membership, registry, stage, idle, warmers, down, to, peerState,
                   late, stale>>

\* PeerPool.GetConn reads closed under the lock ...
GetConn(t) ==
    /\ pc[t] = "get"
    /\ \/ Closed(pool[t]) /\ FailTrip(t)
       \/ ~Closed(pool[t]) /\ Go(t, "pop") /\ UNCHANGED <<target, pool, conn, retried>>
    /\ UNCHANGED <<membership, registry, stage, idle, warmers, down, to, peerState,
                   late, stale>>

\* Mutant: the connection stays in the channel.
PopKeepsIdle(t) ==
    /\ pc[t] = "pop"
    /\ \/ /\ idle[pool[t]] = {}
          /\ Go(t, "dial")
          /\ UNCHANGED <<idle, pool, conn>>
       \/ \E c \in idle[pool[t]] :
            /\ Use(t, c)
            /\ UNCHANGED idle
    /\ UNCHANGED <<membership, registry, stage, warmers, down, to, target, retried,
                   peerState, late, stale>>

\* ... and then receives from the channel or, when it is empty, dials.
Pop(t) ==
    /\ pc[t] = "pop"
    /\ \/ /\ idle[pool[t]] = {}
          /\ Go(t, "dial")
          /\ UNCHANGED <<idle, pool, conn>>
       \/ \E c \in idle[pool[t]] :
            /\ idle' = [idle EXCEPT ![pool[t]] = @ \ {c}]
            /\ Use(t, c)
    /\ UNCHANGED <<membership, registry, stage, warmers, down, to, target, retried,
                   peerState, late, stale>>

\* The dial runs under the caller's context, not the pool's.
Dial(t) ==
    /\ pc[t] = "dial"
    /\ \/ FailTrip(t) /\ UNCHANGED to
       \/ /\ Reachable(addr[pool[t]])
          /\ to' = [to EXCEPT ![FreeConn] = addr[pool[t]]]
          /\ Use(t, FreeConn)
          /\ UNCHANGED <<target, retried>>
    /\ UNCHANGED <<membership, registry, stage, idle, warmers, down, peerState, late,
                   stale>>

\* Mutant: the connection is not closed.
DropLeaks(t) ==
    /\ pc[t] = "use"
    /\ FailTrip(t)
    /\ UNCHANGED <<membership, registry, stage, idle, warmers, down, to, peerState,
                   late, stale>>

\* Write or read failed, or the deadline passed: DropConn.
Drop(t) ==
    /\ pc[t] = "use"
    /\ to' = [to EXCEPT ![conn[t]] = None]
    /\ FailTrip(t)
    /\ UNCHANGED <<membership, registry, stage, idle, warmers, down, peerState, late,
                   stale>>

\* An answer: MeshPool.PutConn goes by the map, not by where the connection
\* came from.
PutConn(t) ==
    /\ pc[t] = "use"
    /\ \/ /\ peers[target[t]] = 0
          /\ to' = [to EXCEPT ![conn[t]] = None]
          /\ Return(t)
       \/ /\ peers[target[t]] # 0
          /\ pool' = [pool EXCEPT ![t] = peers[target[t]]]
          /\ Go(t, "put")
          /\ UNCHANGED <<to, target, conn, retried>>
    /\ UNCHANGED <<membership, registry, stage, idle, warmers, down, peerState, late,
                   stale>>

\* PeerPool.PutConn reads closed under the lock ...
PoolPutConn(t) ==
    /\ pc[t] = "put"
    /\ \/ /\ Closed(pool[t])
          /\ to' = [to EXCEPT ![conn[t]] = None]
          /\ Return(t)
       \/ /\ ~Closed(pool[t])
          /\ Go(t, "push")
          /\ UNCHANGED <<to, target, pool, conn, retried>>
    /\ UNCHANGED <<membership, registry, stage, idle, warmers, down, peerState, late,
                   stale>>

\* ... and sends to the channel without it.
PoolPush(t) ==
    /\ pc[t] = "push"
    /\ Push(pool[t], conn[t])
    /\ Return(t)
    /\ UNCHANGED <<membership, registry, stage, warmers, down, peerState, stale>>

-----------------------------------------------------------------------------
(* Close of this node and of the peers *)

\* Node.Close cancels the context first ...
Cancel ==
    /\ sync = "done" /\ ~down
    /\ down' = TRUE
    /\ UNCHANGED <<membership, registry, stage, idle, warmers, to, threadVars,
                   peerState, late, stale>>

\* ... and MeshPool.Close later takes every pool out of the map and closes them.
ClosePools ==
    /\ down
    /\ \E p \in Peers : peers[p] # 0
    /\ peers' = [p \in Peers |-> 0]
    /\ stage' = [q \in Pools |-> IF \E p \in Peers : peers[p] = q THEN "removed"
                                                                  ELSE stage[q]]
    /\ UNCHANGED <<membership, made, addr, idle, warmers, down, to, threadVars,
                   peerState, late, stale>>

\* Node.Close of a peer: Leave, then the listener, then wg.Wait for handleConn,
\* which reads from a connection until this node closes it.
PeerLeave(p) ==
    /\ peerState[p] = "up"
    /\ peerState' = [peerState EXCEPT ![p] = "leaving"]
    /\ UNCHANGED <<membership, registry, stage, idle, warmers, down, to, threadVars,
                   late, stale>>

PeerStopsListening(p) ==
    /\ peerState[p] = "leaving"
    /\ peerState' = [peerState EXCEPT ![p] = "waiting"]
    /\ UNCHANGED <<membership, registry, stage, idle, warmers, down, to, threadVars,
                   late, stale>>

PeerCloseReturns(p) ==
    /\ peerState[p] = "waiting"
    /\ \A c \in Conns : to[c] # p
    /\ peerState' = [peerState EXCEPT ![p] = "gone"]
    /\ UNCHANGED <<membership, registry, stage, idle, warmers, down, to, threadVars,
                   late, stale>>

-----------------------------------------------------------------------------
Warm(q) == WarmDial(q) \/ WarmRecheck(q) \/ WarmPush(q)

Notify == NotifyRing \/ NotifyAddPeer \/ NotifyRemovePeer \/ NotifyRemoved

Sync == SyncSnapshot \/ (\E p \in Peers : SyncRing(p)) \/ SyncPool \/ SyncDone

Query(t) ==
    \/ Lookup(t) \/ AddMissing(t) \/ Find(t) \/ GetConn(t) \/ Pop(t) \/ Dial(t)
    \/ Drop(t) \/ PutConn(t) \/ PoolPutConn(t) \/ PoolPush(t)

Next ==
    \/ \E p \in Peers :
         \/ MemberJoins(p) \/ MemberLeaves(p)
         \/ PeerLeave(p) \/ PeerStopsListening(p) \/ PeerCloseReturns(p)
    \/ \E q \in Pools : PoolClose(q) \/ PoolDrain(q) \/ Warm(q)
    \/ \E t \in Threads : Query(t) \/ \E p \in Peers : Begin(t, p)
    \/ Notify \/ Sync \/ Cancel \/ ClosePools

Spec == Init /\ [][Next]_vars

\* Goroutines run, dials and round trips end by their deadlines, a loop that
\* closes connections ends, a Close that has begun goes on, and memberlist finds
\* out about a peer that left.  Nobody has to start a request or a Close.
Fairness ==
    /\ \A t \in Threads : WF_vars(Query(t))
    /\ \A q \in Pools : WF_vars(Warm(q)) /\ WF_vars(PoolClose(q) \/ PoolDrain(q))
    /\ WF_vars(Notify) /\ WF_vars(Sync) /\ WF_vars(ClosePools)
    /\ \A p \in Peers :
         /\ SF_vars(MemberLeaves(p) /\ peerState[p] # "up")
         /\ WF_vars(PeerStopsListening(p)) /\ WF_vars(PeerCloseReturns(p))

FairSpec == Spec /\ Fairness

-----------------------------------------------------------------------------
\* No connection is shared and none is lost: an open one is idle in exactly one
\* pool or held by exactly one goroutine (a request, or a pool's EnsureConnected),
\* however requests, notifications and Close interleave; and what a pool or a
\* goroutine holds is open.
ConnsAccounted ==
    /\ \A c \in Open :
         \/ \E q \in Pools : c \in idle[q] \/ warmConn[q] = c
         \/ \E t \in Threads : conn[t] = c
    /\ \A q \in Pools : idle[q] \subseteq Open /\ warmConn[q] \in Open \cup {None}
    /\ \A t \in Threads : conn[t] \in Open \cup {None}
    /\ \A q1, q2 \in Pools :
         /\ q1 # q2 => idle[q1] \cap idle[q2] = {}
         /\ warmConn[q1] \notin idle[q2]
         /\ q1 # q2 /\ warmConn[q1] # None => warmConn[q1] # warmConn[q2]
    /\ \A t \in Threads, q \in Pools :
         conn[t] \notin idle[q] /\ (conn[t] # None => conn[t] # warmConn[q])
    /\ \A t, u \in Threads : t # u /\ conn[t] # None => conn[t] # conn[u]

\* A connection goes back to a pool of the peer it leads to, and a request uses
\* one to the peer it is meant for: PutConn goes by the address, not by the pool
\* the connection was taken from.
ConnsLeadToTheirPeer ==
    /\ \A q \in Pools : \A c \in idle[q] \cup ({warmConn[q]} \ {None}) : to[c] = addr[q]
    /\ \A t \in Threads : conn[t] # None => to[conn[t]] = target[t]

\* The map holds the open pools and no other: a request for a live peer is
\* never answered by a pool that is closed for good while it is registered, and
\* no open pool drops out of sight of Close.
RegisteredPoolsOpen ==
    \A q \in Pools :
      stage[q] = "open" <=> addr[q] # None /\ peers[addr[q]] = q

\* Once Close of a pool has returned, its channel holds nothing but what PutConn
\* or EnsureConnected pushed on the strength of a closed they had read before.
DrainedUnlessLate ==
    \A q \in Pools : stage[q] = "drained" /\ q \notin late => idle[q] = {}

\* Between notifications the ring and the pools follow memberlist, except for a
\* peer that NewNode's walk or a request added after its leave was delivered.
FollowsMembership ==
    event = None /\ sync = "done" =>
      \A p \in Peers :
        /\ p \in members => p \in ring /\ (peers[p] # 0 \/ down)
        /\ p \notin members \cup stale => p \notin ring /\ peers[p] = 0

\* The Close of a peer returns, and what can keep it waiting in wg.Wait is known:
\* a connection left in the channel of a closed pool, or a pool that was created
\* for the peer after it had left.
PeerClosesUnlessStray ==
    \A p \in Peers :
      peerState[p] = "waiting" ~>
        \/ peerState[p] = "gone"
        \/ peers[p] # 0
        \/ \E q \in Pools : stage[q] = "drained" /\ addr[q] = p /\ idle[q] # {}
=============================================================================
