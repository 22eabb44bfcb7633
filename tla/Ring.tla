-------------------------------- MODULE Ring --------------------------------
(***************************************************************************)
(* The sharding ring (pkg/sharding/sharding.go), one replica of it per     *)
(* cluster member.  The replicas never talk to each other: each is driven  *)
(* by the membership events of its own node, in its own order.             *)
(*                                                                         *)
(* A node address is a natural number, ordered as the strings are; "" is   *)
(* 0.  A key is the sequence of its "/"-separated segments, some of which  *)
(* may be empty.  fnv32a is any function into the naturals.                *)
(***************************************************************************)
EXTENDS Integers, Sequences, FiniteSets, FiniteSetsExt, Slices

CONSTANTS
    Replicas,       \* cluster members, each with a Ring of its own
    Addresses,      \* node addresses, naturals above 0
    Keys,           \* sequences of segments
    Depth,          \* partitionDepth
    Hash,           \* hashString, a function on partition keys
    MaxGeneration,  \* bound on the membership changes explored
    MaxBulk         \* bound on the length of a SetNodes argument

VARIABLES nodes, nodeSet, generation

vars == <<nodes, nodeSet, generation>>

Init ==
    /\ nodes = [r \in Replicas |-> <<>>]
    /\ nodeSet = [r \in Replicas |-> {}]
    /\ generation = [r \in Replicas |-> 0]
-----------------------------------------------------------------------------
(* Partitions and ownership.                                               *)

\* strings.Trim(key, "/"): empty segments go at both ends.
Trim(key) ==
    LET full == {i \in DOMAIN key : key[i] # ""}
    IN IF full = {} THEN <<>> ELSE SubSeq(key, Min(full), Max(full))

PartitionKey(key, depth) ==
    LET cleaned == Trim(key)
    IN IF depth <= 0 \/ Len(cleaned) <= depth THEN cleaned
       ELSE SubSeq(cleaned, 1, depth)

ASSUME RingAssumption ==
    /\ Addresses \subseteq Nat \ {0} /\ Depth \in Int
    /\ MaxGeneration \in Nat /\ MaxBulk \in Nat
    /\ \A k \in Keys : Hash[PartitionKey(k, Depth)] \in Nat

ShardFor(r, key) ==
    IF nodes[r] = <<>> THEN -1
    ELSE Hash[PartitionKey(key, Depth)] % Len(nodes[r])

GetNode(r, key) ==
    IF nodes[r] = <<>> THEN 0
    ELSE nodes[r][(Hash[PartitionKey(key, Depth)] % Len(nodes[r])) + 1]

\* sort.SearchStrings: the smallest index whose address is not below addr.
NodeIndex(r, addr) ==
    LET idx == Min({i \in 1..Len(nodes[r]) : nodes[r][i] >= addr} \cup {Len(nodes[r]) + 1})
    IN IF idx <= Len(nodes[r]) /\ nodes[r][idx] = addr THEN idx - 1 ELSE -1

HasNode(r, addr) == addr \in nodeSet[r]
-----------------------------------------------------------------------------
(* Membership.                                                             *)

\* Mutant: the new address stays at the end.
AppendUnsorted(r, addr) ==
    /\ addr \notin nodeSet[r] /\ generation[r] < MaxGeneration
    /\ nodeSet' = [nodeSet EXCEPT ![r] = @ \cup {addr}]
    /\ nodes' = [nodes EXCEPT ![r] = Append(@, addr)]
    /\ generation' = [generation EXCEPT ![r] = @ + 1]

\* A node that is already there changes nothing, and no generation.
AddNode(r, addr) ==
    /\ addr \notin nodeSet[r] /\ generation[r] < MaxGeneration
    /\ nodeSet' = [nodeSet EXCEPT ![r] = @ \cup {addr}]
    /\ nodes' = [nodes EXCEPT ![r] = Sorted(Append(@, addr))]
    /\ generation' = [generation EXCEPT ![r] = @ + 1]

RemoveNode(r, addr) ==
    /\ addr \in nodeSet[r] /\ generation[r] < MaxGeneration
    /\ nodeSet' = [nodeSet EXCEPT ![r] = @ \ {addr}]
    /\ nodes' = [nodes EXCEPT ![r] = Without(@, {addr})]
    /\ generation' = [generation EXCEPT ![r] = @ + 1]

\* Mutant: a bulk update always counts as a change.
SetNodesAlwaysBumps(r, addrs) ==
    LET dedup == Elements(addrs) \ {0} IN
    /\ generation[r] < MaxGeneration
    /\ nodes' = [nodes EXCEPT ![r] = Slice(dedup)]
    /\ nodeSet' = [nodeSet EXCEPT ![r] = dedup]
    /\ generation' = [generation EXCEPT ![r] = @ + 1]

\* Mutant: nodeSet is not replaced with the slice.
SetNodesKeepsSet(r, addrs) ==
    LET newNodes == Slice(Elements(addrs) \ {0}) IN
    /\ newNodes # nodes[r] /\ generation[r] < MaxGeneration
    /\ nodes' = [nodes EXCEPT ![r] = newNodes]
    /\ generation' = [generation EXCEPT ![r] = @ + 1]
    /\ UNCHANGED nodeSet

\* Empty addresses and duplicates are dropped; the same membership again
\* changes nothing.
SetNodes(r, addrs) ==
    LET dedup == Elements(addrs) \ {0}
        newNodes == Slice(dedup)
    IN
    /\ newNodes # nodes[r] /\ generation[r] < MaxGeneration
    /\ nodes' = [nodes EXCEPT ![r] = newNodes]
    /\ nodeSet' = [nodeSet EXCEPT ![r] = dedup]
    /\ generation' = [generation EXCEPT ![r] = @ + 1]

Next ==
    \E r \in Replicas :
        \/ \E addr \in Addresses : AddNode(r, addr) \/ RemoveNode(r, addr)
        \/ \E n \in 0..MaxBulk : \E addrs \in [1..n -> Addresses \cup {0}] : SetNodes(r, addrs)

Spec == Init /\ [][Next]_vars
-----------------------------------------------------------------------------
(* Properties.                                                             *)

\* "Every cluster member computes the identical shard distribution": two
\* members that know the same nodes agree on the owner of every key, whatever
\* joins, leaves and bulk updates led each of them there.
MembersAgree ==
    \A r1, r2 \in Replicas :
        nodeSet[r1] = nodeSet[r2] => \A k \in Keys : GetNode(r1, k) = GetNode(r2, k)

\* The three views of a ring match: the shard of a key is the index of its
\* owner, and the owner is a registered node; NodeIndex, which relies on a
\* binary search in a sorted slice, finds exactly the registered nodes.
IndexMatchesOwner ==
    \A r \in Replicas :
        /\ \A k \in Keys : nodeSet[r] # {} =>
              /\ HasNode(r, GetNode(r, k))
              /\ NodeIndex(r, GetNode(r, k)) = ShardFor(r, k)
        /\ \A a \in Addresses : HasNode(r, a) <=> NodeIndex(r, a) >= 0

\* The generation counts membership changes: one more on every change, the
\* same as long as there is none.  reconcileOwnership tells a single
\* transition from skipped ones by this.
GenerationCountsChanges ==
    [][\A r \in Replicas :
         generation'[r] = generation[r] + (IF nodeSet'[r] # nodeSet[r] THEN 1 ELSE 0)]_vars
=============================================================================
