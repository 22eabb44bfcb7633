----------------------------- MODULE RingProofs -----------------------------
(***************************************************************************)
(* Proofs about Ring, for any number of replicas, addresses and membership *)
(* changes and any hash.                                                   *)
(***************************************************************************)
EXTENDS Ring, FiniteLemmas, TLAPS

\* What every membership change restores: the slice is strictly ascending and
\* holds exactly the addresses of the set.
SliceIsSet ==
    /\ nodeSet \in [Replicas -> SUBSET Addresses]
    /\ nodes \in [Replicas -> Seq(Addresses)]
    /\ generation \in [Replicas -> Nat]
    /\ \A r \in Replicas : Ascending(nodes[r]) /\ Elements(nodes[r]) = nodeSet[r]
-----------------------------------------------------------------------------
(* Slices of addresses.                                                    *)

\* A shard is the index of a node.
LEMMA Remainder ==
    ASSUME NEW h \in Nat, NEW n \in Nat \ {0}
    PROVE  h % n \in 0..(n - 1)
OBVIOUS

\* Addresses are integers.
LEMMA AddressTypes ==
    /\ Addresses \in SUBSET Int /\ 0 \notin Addresses
    /\ \A s \in Seq(Addresses) : s \in Seq(Int)
<1>1. Addresses \in SUBSET Int /\ 0 \notin Addresses
  BY RingAssumption
<1>2. ASSUME NEW s \in Seq(Addresses) PROVE s \in Seq(Int)
  BY <1>1, <1>2, SeqOfMore, Zenon
<1> QED
  BY <1>1, <1>2, Zenon

\* AddNode: append and sort.
LEMMA AddedFacts ==
    ASSUME NEW s \in Seq(Addresses), Ascending(s), NEW a \in Addresses, a \notin Elements(s)
    PROVE  /\ Sorted(Append(s, a)) \in Seq(Addresses) /\ Ascending(Sorted(Append(s, a)))
           /\ Elements(Sorted(Append(s, a))) = Elements(s) \cup {a}
<1>1. Distinct(s)
  BY AddressTypes, AscendingDistinct
<1>2. PICK z : z = Append(s, a)
  OBVIOUS
<1>3. z \in Seq(Addresses) /\ Elements(z) = Elements(s) \cup {a} /\ Distinct(z)
  BY <1>1, <1>2, AppendFacts
<1>4. /\ Sorted(z) \in Seq(Addresses) /\ Elements(Sorted(z)) = Elements(z)
      /\ Ascending(Sorted(z))
  BY <1>3, AddressTypes, SortedFacts
<1> QED
  BY <1>2, <1>3, <1>4, Zenon

\* SetNodes: the argument without empty addresses and duplicates, sorted.
LEMMA BulkFacts ==
    ASSUME NEW n \in Nat, NEW addrs \in [1..n -> Addresses \cup {0}]
    PROVE  /\ Elements(addrs) \ {0} \in SUBSET Addresses
           /\ Slice(Elements(addrs) \ {0}) \in Seq(Addresses)
           /\ Ascending(Slice(Elements(addrs) \ {0}))
           /\ Elements(Slice(Elements(addrs) \ {0})) = Elements(addrs) \ {0}
<1>0. PICK dedup : dedup = Elements(addrs) \ {0}
  OBVIOUS
<1>1. addrs \in Seq(Addresses \cup {0}) /\ Len(addrs) = n
  BY SeqOfFunction
<1>2. dedup \in SUBSET Addresses
  <2>1. \A i \in 1..n : addrs[i] \in Addresses \cup {0}
    OBVIOUS
  <2> QED
    BY <1>0, <1>1, <2>1, Zenon DEF Elements
<1>3. IsFiniteSet(Elements(addrs))
  <2>1. addrs \in Surjection(1..n, Elements(addrs))
    BY <1>1 DEF Surjection, Elements
  <2>2. IsFiniteSet(1..n)
    BY IntervalFacts
  <2> QED
    BY <2>1, <2>2, FS_Surjection
<1>4. IsFiniteSet(dedup) /\ dedup \in SUBSET Int
  BY <1>0, <1>2, <1>3, FS_Subset, AddressTypes
<1>5. /\ Slice(dedup) \in Seq(dedup) /\ Ascending(Slice(dedup))
      /\ Elements(Slice(dedup)) = dedup
  BY <1>4, SliceFacts
<1>6. Slice(dedup) \in Seq(Addresses)
  BY <1>2, <1>5, SeqOfMore, Zenon
<1> QED
  BY <1>0, <1>2, <1>5, <1>6, Zenon

\* One set has one slice.
LEMMA SameMembers ==
    ASSUME NEW s \in Seq(Addresses), NEW t \in Seq(Addresses), Ascending(s), Ascending(t),
           Elements(s) = Elements(t)
    PROVE  s = t
BY AddressTypes, AscendingUnique

\* The index sort.SearchStrings returns, from 1.
Search(s, a) == Min({i \in 1..Len(s) : s[i] >= a} \cup {Len(s) + 1})

\* sort.SearchStrings finds the first address that is not below a.
LEMMA SearchFacts ==
    ASSUME NEW s \in Seq(Addresses), NEW a \in Int
    PROVE  /\ Search(s, a) \in 1..(Len(s) + 1)
           /\ \A i \in 1..Len(s) : s[i] >= a => Search(s, a) <= i
           /\ Search(s, a) <= Len(s) => s[Search(s, a)] >= a
<1>i. PICK idx : idx = Search(s, a)
  OBVIOUS
<1> DEFINE C == {i \in 1..Len(s) : s[i] >= a} \cup {Len(s) + 1}
<1>0. Len(s) \in Nat
  OBVIOUS
<1>1. C \in SUBSET (1..(Len(s) + 1)) /\ C # {} /\ C \in SUBSET Int
  BY <1>0
<1>2. IsFiniteSet(C)
  <2>1. Len(s) + 1 \in Nat
    BY <1>0
  <2>2. IsFiniteSet(1..(Len(s) + 1))
    BY <2>1, IntervalFacts
  <2> QED
    BY <1>1, <2>2, FS_Subset
<1>3. \E n \in C : \A m \in C : n <= m
  BY <1>1, <1>2, LeastInt
<1>4. idx \in C /\ \A m \in C : idx <= m
  <2> HIDE DEF C
  <2>1. idx = CHOOSE x \in C : \A y \in C : x <= y
    BY <1>i, Zenon DEF Search, Min, C
  <2> QED
    BY <1>3, <2>1, Zenon
<1>5. \A i \in 1..Len(s) : s[i] >= a => i \in C
  OBVIOUS
<1>6. idx <= Len(s) => s[idx] >= a
  BY <1>0, <1>4
<1> HIDE DEF C
<1>7. idx \in 1..(Len(s) + 1)
  BY <1>1, <1>4
<1> QED
  BY <1>i, <1>4, <1>5, <1>6, <1>7, Zenon
-----------------------------------------------------------------------------
(* The invariant.                                                          *)

\* A step of r puts one slice and one set in place.
LEMMA Replaced ==
    ASSUME SliceIsSet, NEW r \in Replicas, NEW s \in Seq(Addresses), NEW S \in SUBSET Addresses,
           Ascending(s), Elements(s) = S,
           nodes' = [nodes EXCEPT ![r] = s], nodeSet' = [nodeSet EXCEPT ![r] = S],
           generation' = [generation EXCEPT ![r] = @ + 1]
    PROVE  SliceIsSet'
<1>1. nodeSet' \in [Replicas -> SUBSET Addresses] /\ nodes' \in [Replicas -> Seq(Addresses)]
  BY Zenon DEF SliceIsSet
<1>2. generation' \in [Replicas -> Nat]
  BY DEF SliceIsSet
<1>3. \A q \in Replicas : Ascending(nodes'[q]) /\ Elements(nodes'[q]) = nodeSet'[q]
  <2>1. nodes'[r] = s /\ nodeSet'[r] = S
    BY Zenon DEF SliceIsSet
  <2>2. \A q \in Replicas : q # r => nodes'[q] = nodes[q] /\ nodeSet'[q] = nodeSet[q]
    BY Zenon DEF SliceIsSet
  <2> QED
    BY <2>1, <2>2, Zenon DEF SliceIsSet
<1> QED
  BY <1>1, <1>2, <1>3, Zenon DEF SliceIsSet

\* The membership events keep the slice and the set together, and each of them
\* that is not dropped by an early return changes the set.
LEMMA MembershipSteps ==
    ASSUME SliceIsSet, NEW r \in Replicas
    PROVE  /\ \A a \in Addresses : AddNode(r, a) => SliceIsSet' /\ nodeSet'[r] # nodeSet[r]
           /\ \A a \in Addresses : RemoveNode(r, a) => SliceIsSet' /\ nodeSet'[r] # nodeSet[r]
           /\ \A n \in 0..MaxBulk : \A addrs \in [1..n -> Addresses \cup {0}] :
                SetNodes(r, addrs) => SliceIsSet' /\ nodeSet'[r] # nodeSet[r]
<1>0. /\ nodes[r] \in Seq(Addresses) /\ Ascending(nodes[r])
      /\ Elements(nodes[r]) = nodeSet[r] /\ nodeSet[r] \in SUBSET Addresses
      /\ nodeSet \in [Replicas -> SUBSET Addresses] /\ nodes \in [Replicas -> Seq(Addresses)]
  BY Zenon DEF SliceIsSet
<1>1. ASSUME NEW a \in Addresses, AddNode(r, a) PROVE SliceIsSet' /\ nodeSet'[r] # nodeSet[r]
  <2>1. a \notin nodeSet[r]
    BY <1>1, Zenon DEF AddNode
  <2>2. PICK s : s = Sorted(Append(nodes[r], a))
    OBVIOUS
  <2>3. PICK S : S = nodeSet[r] \cup {a}
    OBVIOUS
  <2>4. s \in Seq(Addresses) /\ Ascending(s) /\ Elements(s) = S
    BY <1>0, <2>1, <2>2, <2>3, AddedFacts, Zenon
  <2>5. S \in SUBSET Addresses /\ S # nodeSet[r]
    BY <1>0, <2>1, <2>3, Zenon
  <2>6. /\ nodes' = [nodes EXCEPT ![r] = s] /\ nodeSet' = [nodeSet EXCEPT ![r] = S]
        /\ generation' = [generation EXCEPT ![r] = @ + 1]
    BY <1>1, <2>2, <2>3, Zenon DEF AddNode
  <2>7. SliceIsSet'
    BY <2>4, <2>5, <2>6, Replaced, Zenon
  <2> QED
    BY <1>0, <2>5, <2>6, <2>7, Zenon
<1>2. ASSUME NEW a \in Addresses, RemoveNode(r, a) PROVE SliceIsSet' /\ nodeSet'[r] # nodeSet[r]
  <2>1. a \in nodeSet[r]
    BY <1>2, Zenon DEF RemoveNode
  <2>2. PICK s : s = Without(nodes[r], {a})
    OBVIOUS
  <2>3. PICK S : S = nodeSet[r] \ {a}
    OBVIOUS
  <2>4. s \in Seq(Addresses) /\ Elements(s) = S
    BY <1>0, <2>2, <2>3, WithoutFacts
  <2>5. Ascending(s)
    BY <1>0, <2>2, WithoutAscends, AddressTypes
  <2>6. S \in SUBSET Addresses /\ S # nodeSet[r]
    BY <1>0, <2>1, <2>3, Zenon
  <2>7. /\ nodes' = [nodes EXCEPT ![r] = s] /\ nodeSet' = [nodeSet EXCEPT ![r] = S]
        /\ generation' = [generation EXCEPT ![r] = @ + 1]
    BY <1>2, <2>2, <2>3, Zenon DEF RemoveNode
  <2>8. SliceIsSet'
    BY <2>4, <2>5, <2>6, <2>7, Replaced, Zenon
  <2> QED
    BY <1>0, <2>6, <2>7, <2>8, Zenon
<1>3. ASSUME NEW n \in 0..MaxBulk, NEW addrs \in [1..n -> Addresses \cup {0}],
             SetNodes(r, addrs)
      PROVE  SliceIsSet' /\ nodeSet'[r] # nodeSet[r]
  <2>0. n \in Nat
    BY RingAssumption
  <2>1. PICK S : S = Elements(addrs) \ {0}
    OBVIOUS
  <2>2. PICK s : s = Slice(S)
    OBVIOUS
  <2>3. S \in SUBSET Addresses /\ s \in Seq(Addresses) /\ Ascending(s) /\ Elements(s) = S
    <3>1. /\ Elements(addrs) \ {0} \in SUBSET Addresses
          /\ Slice(Elements(addrs) \ {0}) \in Seq(Addresses)
          /\ Ascending(Slice(Elements(addrs) \ {0}))
          /\ Elements(Slice(Elements(addrs) \ {0})) = Elements(addrs) \ {0}
      BY <2>0, BulkFacts, Zenon
    <3> QED
      BY <2>1, <2>2, <3>1, Zenon
  <2>4. /\ s # nodes[r]
        /\ nodes' = [nodes EXCEPT ![r] = s] /\ nodeSet' = [nodeSet EXCEPT ![r] = S]
        /\ generation' = [generation EXCEPT ![r] = @ + 1]
    BY <1>3, <2>1, <2>2, Zenon DEF SetNodes
  <2>5. S # nodeSet[r]
    BY <1>0, <2>3, <2>4, SameMembers, Zenon
  <2>6. SliceIsSet'
    BY <2>3, <2>4, Replaced, Zenon
  <2> QED
    BY <1>0, <2>4, <2>5, <2>6, Zenon
<1> QED
  BY <1>1, <1>2, <1>3, Zenon

\* The state NewRing leaves.
LEMMA InitRing == Init => SliceIsSet
<1> SUFFICES ASSUME Init PROVE SliceIsSet
  BY Zenon
<1>1. <<>> \in Seq(Addresses) /\ Ascending(<<>>) /\ Elements(<<>>) = {}
  BY DEF Ascending, Elements
<1> QED
  BY <1>1 DEF Init, SliceIsSet

\* Every step restores the invariant.
LEMMA RingStep == SliceIsSet /\ [Next]_vars => SliceIsSet'
<1>1. SliceIsSet /\ UNCHANGED vars => SliceIsSet'
  BY Zenon DEF SliceIsSet, vars
<1>2. SliceIsSet /\ Next => SliceIsSet'
  BY MembershipSteps, Zenon DEF Next
<1> QED
  BY <1>1, <1>2, Zenon

\* The slice of a ring is its set, sorted, after any sequence of joins, leaves
\* and bulk updates.
THEOREM RingInvariant == Spec => []SliceIsSet
BY InitRing, RingStep, PTL DEF Spec
-----------------------------------------------------------------------------
(* What it gives.                                                          *)

\* Two members that know the same nodes name the same owner of every key.
THEOREM MembersAlwaysAgree == Spec => []MembersAgree
<1>1. SliceIsSet => MembersAgree
  <2> SUFFICES ASSUME SliceIsSet, NEW r1 \in Replicas, NEW r2 \in Replicas,
                      nodeSet[r1] = nodeSet[r2], NEW k \in Keys
               PROVE  GetNode(r1, k) = GetNode(r2, k)
    BY Zenon DEF MembersAgree
  <2>1. nodes[r1] = nodes[r2]
    BY SameMembers, Zenon DEF SliceIsSet
  <2> QED
    BY <2>1, Zenon DEF GetNode
<1> QED
  BY <1>1, RingInvariant, PTL

\* NodeIndex finds the nodes at their indices, and no others.
LEMMA NodeIndexFacts ==
    ASSUME SliceIsSet, NEW r \in Replicas
    PROVE  /\ \A i \in 1..Len(nodes[r]) : NodeIndex(r, nodes[r][i]) = i - 1
           /\ \A a \in Addresses : NodeIndex(r, a) >= 0 => a \in nodeSet[r]
<1>0. PICK s : s = nodes[r]
  OBVIOUS
<1>1. s \in Seq(Addresses) /\ Ascending(s) /\ Elements(s) = nodeSet[r] /\ Len(s) \in Nat
  <2>1. s \in Seq(Addresses) /\ Ascending(s) /\ Elements(s) = nodeSet[r]
    BY <1>0, Zenon DEF SliceIsSet
  <2> QED
    BY <2>1
<1>2. ASSUME NEW i \in 1..Len(s) PROVE NodeIndex(r, s[i]) = i - 1
  <2>1. PICK idx : idx = Search(s, s[i])
    OBVIOUS
  <2>2. s[i] \in Int
    BY <1>1, AddressTypes
  <2>3. /\ idx \in 1..(Len(s) + 1)
        /\ \A j \in 1..Len(s) : s[j] >= s[i] => idx <= j
        /\ idx <= Len(s) => s[idx] >= s[i]
    BY <1>1, <2>1, <2>2, SearchFacts, Zenon
  <2>4. idx <= i /\ idx \in 1..Len(s)
    BY <1>1, <2>2, <2>3
  <2>5. ~(idx < i)
    <3>1. s[idx] \in Int /\ s[idx] >= s[i]
      BY <1>1, <2>3, <2>4, AddressTypes
    <3>2. idx < i => s[idx] < s[i]
      BY <1>1, <2>4, Zenon DEF Ascending
    <3> QED
      BY <2>2, <3>1, <3>2
  <2>6. idx = i
    BY <1>1, <2>4, <2>5
  <2>7. idx <= Len(s) /\ s[idx] = s[i]
    BY <1>1, <2>6
  <2> QED
    BY <1>0, <2>1, <2>6, <2>7, Zenon DEF NodeIndex, Search
<1>3. ASSUME NEW a \in Addresses, NodeIndex(r, a) >= 0 PROVE a \in nodeSet[r]
  <2>1. PICK idx : idx = Search(s, a)
    OBVIOUS
  <2>2. NodeIndex(r, a) = IF idx <= Len(s) /\ s[idx] = a THEN idx - 1 ELSE -1
    BY <1>0, <2>1, Zenon DEF NodeIndex, Search
  <2>3. idx <= Len(s) /\ s[idx] = a
    BY <1>3, <2>2
  <2>4. idx \in 1..(Len(s) + 1)
    BY <1>1, <2>1, AddressTypes, SearchFacts, Zenon
  <2>5. idx \in 1..Len(s)
    BY <1>1, <2>3, <2>4
  <2> QED
    BY <1>1, <2>3, <2>5, Zenon DEF Elements
<1> QED
  BY <1>0, <1>2, <1>3, Zenon

\* ShardFor, GetNode, NodeIndex and HasNode give one picture of the ring.
THEOREM ViewsMatch == Spec => []IndexMatchesOwner
<1>1. SliceIsSet => IndexMatchesOwner
  <2> SUFFICES ASSUME SliceIsSet, NEW r \in Replicas
               PROVE  /\ \A k \in Keys : nodeSet[r] # {} =>
                            /\ HasNode(r, GetNode(r, k))
                            /\ NodeIndex(r, GetNode(r, k)) = ShardFor(r, k)
                      /\ \A a \in Addresses : HasNode(r, a) <=> NodeIndex(r, a) >= 0
    BY Zenon DEF IndexMatchesOwner
  <2>0. /\ nodes[r] \in Seq(Addresses) /\ Elements(nodes[r]) = nodeSet[r]
        /\ Len(nodes[r]) \in Nat
    <3>1. nodes[r] \in Seq(Addresses) /\ Elements(nodes[r]) = nodeSet[r]
      BY Zenon DEF SliceIsSet
    <3> QED
      BY <3>1
  <2>1. ASSUME NEW k \in Keys, nodeSet[r] # {}
        PROVE  HasNode(r, GetNode(r, k)) /\ NodeIndex(r, GetNode(r, k)) = ShardFor(r, k)
    <3>1. PICK h \in Nat : h = Hash[PartitionKey(k, Depth)]
      BY RingAssumption, Zenon
    <3>2. Len(nodes[r]) # 0 /\ nodes[r] # <<>>
      BY <2>0, <2>1 DEF Elements
    <3>3. PICK i : i = (h % Len(nodes[r])) + 1
      OBVIOUS
    <3>4. i \in 1..Len(nodes[r]) /\ i - 1 = h % Len(nodes[r])
      <4>1. Len(nodes[r]) \in Nat \ {0}
        BY <2>0, <3>2
      <4>2. PICK j : j = h % Len(nodes[r])
        OBVIOUS
      <4>3. j \in 0..(Len(nodes[r]) - 1)
        BY <4>1, <4>2, Remainder, Zenon
      <4>4. i = j + 1
        BY <3>3, <4>2, Zenon
      <4>5. i \in 1..Len(nodes[r]) /\ i - 1 = j
        BY <4>1, <4>3, <4>4
      <4> QED
        BY <4>2, <4>5, Zenon
    <3>5. GetNode(r, k) = nodes[r][i] /\ ShardFor(r, k) = i - 1
      BY <3>1, <3>2, <3>3, <3>4, Zenon DEF GetNode, ShardFor
    <3>6. nodes[r][i] \in nodeSet[r]
      BY <2>0, <3>4, Zenon DEF Elements
    <3>7. NodeIndex(r, nodes[r][i]) = i - 1
      BY <3>4, NodeIndexFacts, Zenon
    <3> QED
      BY <3>5, <3>6, <3>7, Zenon DEF HasNode
  <2>2. ASSUME NEW a \in Addresses PROVE HasNode(r, a) <=> NodeIndex(r, a) >= 0
    <3>1. ASSUME a \in nodeSet[r] PROVE NodeIndex(r, a) >= 0
      <4>1. PICK i \in 1..Len(nodes[r]) : nodes[r][i] = a
        BY <2>0, <3>1, Zenon DEF Elements
      <4>2. NodeIndex(r, a) = i - 1
        BY <4>1, NodeIndexFacts, Zenon
      <4> QED
        BY <2>0, <4>2
    <3> QED
      BY <3>1, NodeIndexFacts, Zenon DEF HasNode
  <2> QED
    BY <2>1, <2>2, Zenon
<1> QED
  BY <1>1, RingInvariant, PTL

\* The generation of a ring moves by one exactly when its membership changes.
THEOREM GenerationCounts == Spec => GenerationCountsChanges
<1> DEFINE A == \A r \in Replicas :
             generation'[r] = generation[r] + (IF nodeSet'[r] # nodeSet[r] THEN 1 ELSE 0)
<1>1. ASSUME SliceIsSet, [Next]_vars PROVE [A]_vars
  <2>1. ASSUME NEW r \in Replicas, nodeSet'[r] # nodeSet[r],
               generation' = [generation EXCEPT ![r] = @ + 1],
               NEW S, nodeSet' = [nodeSet EXCEPT ![r] = S]
        PROVE  A
    <3> SUFFICES ASSUME NEW q \in Replicas
                 PROVE  generation'[q] = generation[q]
                          + (IF nodeSet'[q] # nodeSet[q] THEN 1 ELSE 0)
      BY Zenon
    <3>1. generation \in [Replicas -> Nat] /\ nodeSet \in [Replicas -> SUBSET Addresses]
      BY <1>1, Zenon DEF SliceIsSet
    <3>2. generation[q] \in Nat
      BY <3>1, Zenon
    <3>3. CASE q = r
      <4>1. generation'[q] = generation[q] + 1
        BY <2>1, <3>1, <3>3, Zenon
      <4> QED
        BY <2>1, <3>3, <4>1, Zenon
    <3>4. CASE q # r
      <4>1. generation'[q] = generation[q] /\ nodeSet'[q] = nodeSet[q]
        BY <2>1, <3>1, <3>4, Zenon
      <4>2. generation[q] = generation[q] + 0
        BY <3>2
      <4> QED
        BY <4>1, <4>2, Zenon
    <3> QED
      BY <3>3, <3>4, Zenon
  <2>2. ASSUME NEW r \in Replicas, NEW a \in Addresses, AddNode(r, a) \/ RemoveNode(r, a)
        PROVE  A
    <3>1. nodeSet'[r] # nodeSet[r]
      BY <1>1, <2>2, MembershipSteps, Zenon
    <3>2. /\ generation' = [generation EXCEPT ![r] = @ + 1]
          /\ \E S : nodeSet' = [nodeSet EXCEPT ![r] = S]
      BY <2>2, Zenon DEF AddNode, RemoveNode
    <3> QED
      BY <2>1, <3>1, <3>2, Zenon
  <2>3. ASSUME NEW r \in Replicas, NEW n \in 0..MaxBulk,
               NEW addrs \in [1..n -> Addresses \cup {0}], SetNodes(r, addrs)
        PROVE  A
    <3>1. nodeSet'[r] # nodeSet[r]
      BY <1>1, <2>3, MembershipSteps, Zenon
    <3>2. /\ generation' = [generation EXCEPT ![r] = @ + 1]
          /\ \E S : nodeSet' = [nodeSet EXCEPT ![r] = S]
      BY <2>3, Zenon DEF SetNodes
    <3> QED
      BY <2>1, <3>1, <3>2, Zenon
  <2> QED
    BY <1>1, <2>2, <2>3, Zenon DEF Next
<1>2. SliceIsSet /\ [Next]_vars => [A]_vars
  BY <1>1, Zenon
<1> QED
  BY <1>2, RingInvariant, PTL DEF Spec, GenerationCountsChanges
=============================================================================
