---------------------------- MODULE FiniteLemmas ----------------------------
(***************************************************************************)
(* Facts about finite sets that the proofs of several components cite: the *)
(* sums of ByteSums, and the sorted and filtered sequences of Slices.      *)
(***************************************************************************)
EXTENDS ByteSums, Slices, FiniteSetTheorems, TLAPS
-----------------------------------------------------------------------------
(* Bytes is a natural number, splits over a partition of the domain, and   *)
(* follows the update of one value.                                        *)

\* The units of a function on a finite domain are finitely many.
LEMMA UnitsFinite ==
    ASSUME NEW S, IsFiniteSet(S), NEW f \in [S -> Nat]
    PROVE  IsFiniteSet(Units(f))
<1> DEFINE U(x) == {x} \X (1..f[x])
           T == {U(x) : x \in S}
           g == [x \in S |-> U(x)]
<1>1. \A x \in S : IsFiniteSet(U(x))
  <2> SUFFICES ASSUME NEW x \in S PROVE IsFiniteSet(U(x))
    OBVIOUS
  <2>1. f[x] \in Int
    OBVIOUS
  <2>2. IsFiniteSet(1..f[x])
    BY <2>1, FS_Interval
  <2>3. IsFiniteSet({x})
    BY FS_Singleton
  <2> QED
    BY <2>2, <2>3, FS_Product
<1>2. g \in Surjection(S, T)
  BY DEF Surjection
<1>3. IsFiniteSet(T)
  BY <1>2, FS_Surjection
<1>4. IsFiniteSet(UNION T)
  BY <1>1, <1>3, FS_UNION
<1>5. Units(f) = UNION T
  BY DEF Units
<1> QED
  BY <1>4, <1>5

\* A sum of naturals is a natural.
LEMMA BytesType ==
    ASSUME NEW S, IsFiniteSet(S), NEW f \in [S -> Nat]
    PROVE  Bytes(f) \in Nat
BY UnitsFinite, FS_CardinalityType DEF Bytes

\* Membership in Units without the UNION.
LEMMA UnitsMember ==
    ASSUME NEW S, NEW f \in [S -> Nat], NEW x, NEW i
    PROVE  <<x, i>> \in Units(f) <=> x \in S /\ i \in 1..f[x]
BY DEF Units

\* Every element of Units is a pair.
LEMMA UnitsPairs ==
    ASSUME NEW S, NEW f \in [S -> Nat], NEW u \in Units(f)
    PROVE  \E x \in S, i \in Int : i \in 1..f[x] /\ u = <<x, i>>
BY DEF Units

\* A function with values in Nat keeps them when it is cut to a part.
LEMMA PartType ==
    ASSUME NEW S, NEW f \in [S -> Nat], NEW A
    PROVE  /\ Part(f, A) \in [S -> Nat]
           /\ \A x \in S : Part(f, A)[x] = IF x \in A THEN f[x] ELSE 0
BY DEF Part

\* The sum splits over a set and its complement.
LEMMA BytesSplit ==
    ASSUME NEW S, IsFiniteSet(S), NEW f \in [S -> Nat], NEW A
    PROVE  Bytes(f) = Bytes(Part(f, A)) + Bytes(Part(f, S \ A))
<1> DEFINE a == Part(f, A)
           b == Part(f, S \ A)
<1>0. /\ a \in [S -> Nat] /\ \A x \in S : a[x] = IF x \in A THEN f[x] ELSE 0
      /\ b \in [S -> Nat] /\ \A x \in S : b[x] = IF x \in S \ A THEN f[x] ELSE 0
  BY PartType
<1> HIDE DEF a, b
<1>1. IsFiniteSet(Units(a)) /\ IsFiniteSet(Units(b))
  BY <1>0, UnitsFinite
<1>2. Units(f) \subseteq Units(a) \cup Units(b)
  <2> SUFFICES ASSUME NEW u \in Units(f) PROVE u \in Units(a) \cup Units(b)
    OBVIOUS
  <2>1. PICK x \in S, i \in Int : i \in 1..f[x] /\ u = <<x, i>>
    BY UnitsPairs
  <2>2. CASE x \in A
    <3>1. i \in 1..a[x] BY <2>1, <2>2, <1>0
    <3> QED BY <3>1, <2>1, <1>0, UnitsMember
  <2>3. CASE x \notin A
    <3>1. i \in 1..b[x] BY <2>1, <2>3, <1>0
    <3> QED BY <3>1, <2>1, <1>0, UnitsMember
  <2> QED BY <2>2, <2>3
<1>3. Units(a) \subseteq Units(f)
  <2> SUFFICES ASSUME NEW u \in Units(a) PROVE u \in Units(f)
    OBVIOUS
  <2>1. PICK x \in S, i \in Int : i \in 1..a[x] /\ u = <<x, i>>
    BY <1>0, UnitsPairs
  <2>2. i \in 1..f[x] BY <2>1, <1>0
  <2> QED BY <2>1, <2>2, UnitsMember
<1>4. Units(b) \subseteq Units(f)
  <2> SUFFICES ASSUME NEW u \in Units(b) PROVE u \in Units(f)
    OBVIOUS
  <2>1. PICK x \in S, i \in Int : i \in 1..b[x] /\ u = <<x, i>>
    BY <1>0, UnitsPairs
  <2>2. i \in 1..f[x] BY <2>1, <1>0
  <2> QED BY <2>1, <2>2, UnitsMember
<1>5. Units(a) \cap Units(b) = {}
  <2> SUFFICES ASSUME NEW u \in Units(a), u \in Units(b) PROVE FALSE
    OBVIOUS
  <2>1. PICK x \in S, i \in Int : i \in 1..a[x] /\ u = <<x, i>>
    BY <1>0, UnitsPairs
  <2>2. i \in 1..b[x]
    BY <2>1, <1>0, UnitsMember
  <2> QED BY <2>1, <2>2, <1>0
<1>6. Units(f) = Units(a) \cup Units(b)
  BY <1>2, <1>3, <1>4
<1>7. Cardinality(Units(f))
        = Cardinality(Units(a)) + Cardinality(Units(b)) - Cardinality(Units(a) \cap Units(b))
  BY <1>6, <1>1, FS_Union
<1>8. Cardinality(Units(a) \cap Units(b)) = 0
  BY <1>5, FS_EmptySet
<1>9. Bytes(a) \in Nat /\ Bytes(b) \in Nat
  BY <1>0, BytesType
<1>10. Bytes(f) = Bytes(a) + Bytes(b)
  BY <1>7, <1>8, <1>9 DEF Bytes
<1> QED BY <1>10 DEF a, b

\* A sum with one summand.
LEMMA BytesSingle ==
    ASSUME NEW S, NEW f \in [S -> Nat], NEW x \in S,
           \A y \in S : y # x => f[y] = 0
    PROVE  Bytes(f) = f[x]
<1>1. Units(f) = {x} \X (1..f[x])
  <2>1. ASSUME NEW u \in Units(f) PROVE u \in {x} \X (1..f[x])
    <3>1. PICK y \in S, i \in Int : i \in 1..f[y] /\ u = <<y, i>>
      BY <2>1, UnitsPairs
    <3>2. y = x BY <3>1
    <3> QED BY <3>1, <3>2
  <2>2. ASSUME NEW u \in {x} \X (1..f[x]) PROVE u \in Units(f)
    <3>1. PICK i \in 1..f[x] : u = <<x, i>>
      BY <2>2
    <3> QED BY <3>1, UnitsMember
  <2> QED BY <2>1, <2>2
<1>2. IsFiniteSet({x}) /\ Cardinality({x}) = 1
  BY FS_Singleton
<1>3. f[x] \in Nat
  OBVIOUS
<1>4. IsFiniteSet(1..f[x]) /\ Cardinality(1..f[x]) = f[x]
  BY <1>3, FS_Interval
<1>5. Cardinality({x} \X (1..f[x])) = f[x]
  <2>1. Cardinality({x} \X (1..f[x])) = Cardinality({x}) * Cardinality(1..f[x])
    BY <1>2, <1>4, FS_Product
  <2>2. 1 * f[x] = f[x]
    BY <1>3
  <2> QED
    BY <2>1, <2>2, <1>2, <1>4
<1> QED
  BY <1>1, <1>3, <1>5 DEF Bytes

\* The sum of a function that is zero everywhere.
LEMMA BytesZero ==
    ASSUME NEW S, NEW f \in [S -> Nat], \A y \in S : f[y] = 0
    PROVE  Bytes(f) = 0
<1>1. Units(f) = {}
  <2> SUFFICES ASSUME NEW u \in Units(f) PROVE FALSE
    OBVIOUS
  <2>1. PICK y \in S, i \in Int : i \in 1..f[y] /\ u = <<y, i>>
    BY UnitsPairs
  <2> QED BY <2>1
<1> QED BY <1>1, FS_EmptySet DEF Bytes

\* Changing one value changes the sum by the difference.
LEMMA BytesUpdate ==
    ASSUME NEW S, IsFiniteSet(S), NEW f \in [S -> Nat], NEW x \in S, NEW v \in Nat
    PROVE  /\ Bytes([f EXCEPT ![x] = v]) = Bytes(f) - f[x] + v
           /\ Bytes(f) >= f[x]
<1> DEFINE g == [f EXCEPT ![x] = v]
           a == Part(f, {x})
           b == Part(f, S \ {x})
           c == Part(g, {x})
           d == Part(g, S \ {x})
<1>1. g \in [S -> Nat]
  OBVIOUS
<1>2. Bytes(f) = Bytes(a) + Bytes(b)
  BY BytesSplit
<1>3. Bytes(g) = Bytes(c) + Bytes(d)
  <2> HIDE DEF g
  <2> QED BY <1>1, BytesSplit
<1>4. b = d
  BY DEF Part
<1>5. Bytes(a) = f[x]
  <2>1. a \in [S -> Nat] /\ a[x] = f[x] /\ \A y \in S : y # x => a[y] = 0
    BY DEF Part
  <2> HIDE DEF a
  <2> QED BY <2>1, BytesSingle
<1>6. Bytes(c) = v
  <2>1. c \in [S -> Nat] /\ c[x] = v /\ \A y \in S : y # x => c[y] = 0
    BY DEF Part
  <2> HIDE DEF c
  <2> QED BY <2>1, BytesSingle
<1>7. Bytes(b) \in Nat
  <2>1. b \in [S -> Nat]
    BY DEF Part
  <2> HIDE DEF b
  <2> QED BY <2>1, BytesType
<1> HIDE DEF a, b, c, d, g
<1>8. Bytes(g) = Bytes(f) - f[x] + v /\ Bytes(f) >= f[x]
  BY <1>2, <1>3, <1>4, <1>5, <1>6, <1>7
<1> QED BY <1>8 DEF g
-----------------------------------------------------------------------------
(* Enumerations, sorting and filtering.                                    *)

\* R orders S totally.
Orders(R, S) ==
    /\ \A x \in S : <<x, x>> \in R
    /\ \A x, y \in S : <<x, y>> \in R \/ <<y, x>> \in R
    /\ \A x, y \in S : <<x, y>> \in R /\ <<y, x>> \in R => x = y
    /\ \A x, y, z \in S : <<x, y>> \in R /\ <<y, z>> \in R => <<x, z>> \in R

\* The elements of S up to x.
UpTo(S, R, x) == {y \in S : <<y, x>> \in R}

\* The rank of an element tells where it is.
LEMMA Ranks ==
    ASSUME NEW S, IsFiniteSet(S), NEW R, Orders(R, S)
    PROVE  /\ \A x \in S : Cardinality(UpTo(S, R, x)) \in 1..Cardinality(S)
           /\ \A x, y \in S : <<x, y>> \in R =>
                Cardinality(UpTo(S, R, x)) <= Cardinality(UpTo(S, R, y))
           /\ \A x, y \in S :
                Cardinality(UpTo(S, R, x)) = Cardinality(UpTo(S, R, y)) => x = y
           /\ \A n \in 1..Cardinality(S) : \E x \in S : Cardinality(UpTo(S, R, x)) = n
<1> DEFINE N == Cardinality(S)
           rank(x) == Cardinality(UpTo(S, R, x))
<1>0. N \in Nat
  BY FS_CardinalityType
<1>1. \A x \in S : IsFiniteSet(UpTo(S, R, x)) /\ rank(x) \in 1..N
  <2> SUFFICES ASSUME NEW x \in S PROVE IsFiniteSet(UpTo(S, R, x)) /\ rank(x) \in 1..N
    OBVIOUS
  <2>1. UpTo(S, R, x) \in SUBSET S /\ x \in UpTo(S, R, x)
    BY DEF UpTo, Orders
  <2>2. IsFiniteSet(UpTo(S, R, x)) /\ rank(x) <= N
    BY <2>1, FS_Subset
  <2>3. rank(x) \in Nat /\ rank(x) # 0
    BY <2>1, <2>2, FS_CardinalityType, FS_EmptySet
  <2> QED
    BY <1>0, <2>2, <2>3
<1>2. \A x, y \in S : <<x, y>> \in R => UpTo(S, R, x) \in SUBSET UpTo(S, R, y)
  BY DEF UpTo, Orders
<1>3. \A x, y \in S : <<x, y>> \in R =>
        rank(x) <= rank(y) /\ (rank(x) = rank(y) => UpTo(S, R, x) = UpTo(S, R, y))
  BY <1>1, <1>2, FS_Subset
<1>4. \A x, y \in S : rank(x) = rank(y) => x = y
  <2>1. ASSUME NEW x \in S, NEW y \in S, <<x, y>> \in R, rank(x) = rank(y) PROVE x = y
    <3>1. y \in UpTo(S, R, x)
      <4>1. y \in UpTo(S, R, y)
        BY DEF UpTo, Orders
      <4> QED
        BY <1>3, <2>1, <4>1
    <3> QED
      BY <2>1, <3>1 DEF UpTo, Orders
  <2> QED
    BY <2>1 DEF Orders
<1>5. \A n \in 1..N : \E x \in S : rank(x) = n
  <2> DEFINE r == [x \in S |-> rank(x)]
  <2> HIDE DEF rank
  <2>1. r \in Injection(S, 1..N)
    BY <1>1, <1>4 DEF Injection, IsInjective
  <2>2. IsFiniteSet(1..N) /\ Cardinality(1..N) = N
    BY <1>0, FS_Interval
  <2> HIDE DEF r
  <2>3. r \in Surjection(S, 1..N)
    BY <2>1, <2>2, FS_Injection
  <2> QED
    BY <2>3 DEF Surjection, r
<1> QED
  BY <1>1, <1>3, <1>4, <1>5

\* An enumeration names every element once, in order.
LEMMA EnumeratedFacts ==
    ASSUME NEW S, IsFiniteSet(S), NEW R, Orders(R, S)
    PROVE  /\ Cardinality(S) \in Nat
           /\ Enumerated(S, R) \in [1..Cardinality(S) -> S]
           /\ \A i, j \in 1..Cardinality(S) :
                Enumerated(S, R)[i] = Enumerated(S, R)[j] => i = j
           /\ \A i, j \in 1..Cardinality(S) :
                i <= j => <<Enumerated(S, R)[i], Enumerated(S, R)[j]>> \in R
           /\ \A x \in S : \E i \in 1..Cardinality(S) : Enumerated(S, R)[i] = x
<1> PICK e : e = Enumerated(S, R)
  OBVIOUS
<1> DEFINE N == Cardinality(S)
           rank(x) == Cardinality(UpTo(S, R, x))
<1>0. N \in Nat
  BY FS_CardinalityType
<1>1. /\ \A x \in S : rank(x) \in 1..N
      /\ \A x, y \in S : <<x, y>> \in R => rank(x) <= rank(y)
      /\ \A x, y \in S : rank(x) = rank(y) => x = y
      /\ \A n \in 1..N : \E x \in S : rank(x) = n
  BY Ranks
<1>2. e = [n \in 1..N |-> CHOOSE x \in S : rank(x) = n]
  BY DEF Enumerated, UpTo
<1> HIDE DEF N, rank
<1>3. \A n \in 1..N : e[n] \in S /\ rank(e[n]) = n
  BY <1>1, <1>2
<1>4. e \in [1..N -> S]
  BY <1>2, <1>3
<1>5. \A i, j \in 1..N : e[i] = e[j] => i = j
  BY <1>3
<1>6. \A i, j \in 1..N : i <= j => <<e[i], e[j]>> \in R
  <2> SUFFICES ASSUME NEW i \in 1..N, NEW j \in 1..N, i <= j, <<e[i], e[j]>> \notin R PROVE FALSE
    OBVIOUS
  <2>1. <<e[j], e[i]>> \in R
    BY <1>3 DEF Orders
  <2>2. rank(e[j]) <= rank(e[i])
    BY <1>1, <1>3, <2>1
  <2>3. i = j
    BY <1>0, <1>3, <2>2
  <2> QED
    BY <1>3, <2>1, <2>3
<1>7. \A x \in S : \E i \in 1..N : e[i] = x
  BY <1>1, <1>3
<1> QED
  BY <1>0, <1>4, <1>5, <1>6, <1>7 DEF N

\* No element is there twice.
Distinct(s) == \A i, j \in 1..Len(s) : s[i] = s[j] => i = j

\* A function on 1..n is a sequence of length n.
LEMMA SeqOfFunction ==
    ASSUME NEW T, NEW n \in Nat, NEW s \in [1..n -> T]
    PROVE  s \in Seq(T) /\ Len(s) = n
OBVIOUS

\* A sequence over a set is one over a larger set.
LEMMA SeqOfMore ==
    ASSUME NEW T, NEW U, T \subseteq U, NEW s \in Seq(T)
    PROVE  s \in Seq(U)
<1>1. Len(s) \in Nat /\ s \in [1..Len(s) -> T]
  OBVIOUS
<1>2. s \in [1..Len(s) -> U]
  BY <1>1, Zenon
<1> QED
  BY <1>1, <1>2, SeqOfFunction, Zenon

\* The order of the integers is one.
LEMMA ByIndexOrders ==
    ASSUME NEW S \in SUBSET Int
    PROVE  Orders(ByIndex(S), S)
<1>1. \A x, y : <<x, y>> \in ByIndex(S) <=> x \in S /\ y \in S /\ x <= y
  BY DEF ByIndex
<1> QED
  BY <1>1 DEF Orders

\* A filtered sequence is the sequence along some of its indices.
LEMMA WithoutFacts ==
    ASSUME NEW T, NEW s \in Seq(T), NEW M
    PROVE  /\ Without(s, M) \in Seq(T) /\ Len(Without(s, M)) <= Len(s)
           /\ \E f \in [1..Len(Without(s, M)) -> 1..Len(s)] :
                /\ \A i \in 1..Len(Without(s, M)) : Without(s, M)[i] = s[f[i]]
                /\ \A i, j \in 1..Len(Without(s, M)) : i < j => f[i] < f[j]
           /\ Elements(Without(s, M)) = Elements(s) \ M
<1> DEFINE rest == {i \in 1..Len(s) : s[i] \notin M}
           N == Cardinality(rest)
           e == Enumerated(rest, ByIndex(rest))
           w == [n \in 1..N |-> s[e[n]]]
<1>0. Len(s) \in Nat /\ rest \in SUBSET (1..Len(s))
  OBVIOUS
<1>1. IsFiniteSet(rest) /\ N <= Len(s)
  <2>1. IsFiniteSet(1..Len(s)) /\ Cardinality(1..Len(s)) = Len(s)
    <3>0. PICK n \in Nat : n = Len(s)
      BY <1>0
    <3>1. 1 \in Int /\ n \in Int /\ (1 > n => n = 0) /\ n - 1 + 1 = n
      OBVIOUS
    <3>2. IsFiniteSet(1..n) /\ Cardinality(1..n) = n
      BY <3>1, FS_Interval
    <3> QED
      BY <3>0, <3>2, Zenon
  <2> QED
    BY <1>0, <2>1, FS_Subset
<1>2. Orders(ByIndex(rest), rest)
  BY <1>0, ByIndexOrders
<1>3. /\ N \in Nat /\ e \in [1..N -> rest]
      /\ \A i, j \in 1..N : e[i] = e[j] => i = j
      /\ \A i, j \in 1..N : i <= j => <<e[i], e[j]>> \in ByIndex(rest)
      /\ \A x \in rest : \E i \in 1..N : e[i] = x
  <2> HIDE DEF rest
  <2> QED
    BY <1>1, <1>2, EnumeratedFacts
<1>4. Without(s, M) = w
  BY DEF Without
<1> HIDE DEF e, N
<1>5. \A i \in 1..N : e[i] \in 1..Len(s) /\ s[e[i]] \notin M
  BY <1>3
<1>6. w \in [1..N -> T]
  BY <1>5
<1>7. w \in Seq(T) /\ Len(w) = N
  BY <1>3, <1>6, SeqOfFunction
<1>8. \A i, j \in 1..N : i < j => e[i] < e[j]
  <2> SUFFICES ASSUME NEW i \in 1..N, NEW j \in 1..N, i < j PROVE e[i] < e[j]
    OBVIOUS
  <2>0. i <= j /\ i # j
    BY <1>3
  <2>1. <<e[i], e[j]>> \in ByIndex(rest) /\ e[i] # e[j]
    BY <1>3, <2>0, Zenon
  <2>2. e[i] <= e[j]
    BY <2>1 DEF ByIndex
  <2> QED
    BY <1>0, <1>5, <2>1, <2>2
<1>9. Elements(w) = Elements(s) \ M
  <2> HIDE DEF w
  <2>1. \A i \in 1..N : w[i] = s[e[i]]
    BY DEF w
  <2>2. ASSUME NEW x \in Elements(w) PROVE x \in Elements(s) \ M
    BY <1>5, <1>7, <2>1 DEF Elements
  <2>3. ASSUME NEW x \in Elements(s) \ M PROVE x \in Elements(w)
    <3>1. PICK k \in 1..Len(s) : x = s[k]
      BY DEF Elements
    <3>2. PICK i \in 1..N : e[i] = k
      BY <1>3, <3>1
    <3> QED
      BY <1>7, <2>1, <3>1, <3>2 DEF Elements
  <2> QED
    BY <2>2, <2>3
<1>10. e \in [1..N -> 1..Len(s)] /\ \A i \in 1..N : w[i] = s[e[i]]
  BY <1>3
<1> HIDE DEF w
<1> QED
  BY <1>1, <1>4, <1>7, <1>8, <1>9, <1>10

\* A filtered sequence of distinct elements has distinct elements.
LEMMA WithoutDistinct ==
    ASSUME NEW T, NEW s \in Seq(T), NEW M, Distinct(s)
    PROVE  Distinct(Without(s, M))
<1>1. PICK f \in [1..Len(Without(s, M)) -> 1..Len(s)] :
             /\ \A i \in 1..Len(Without(s, M)) : Without(s, M)[i] = s[f[i]]
             /\ \A i, j \in 1..Len(Without(s, M)) : i < j => f[i] < f[j]
  BY WithoutFacts
<1>2. Len(Without(s, M)) \in Nat /\ Len(s) \in Nat
  BY WithoutFacts
<1> QED
  BY <1>1, <1>2 DEF Distinct

\* A sequence of distinct elements is as long as their set is large.
LEMMA DistinctLen ==
    ASSUME NEW T, NEW s \in Seq(T), Distinct(s)
    PROVE  IsFiniteSet(Elements(s)) /\ Cardinality(Elements(s)) = Len(s)
<1> DEFINE N == Len(s)
<1>1. N \in Nat /\ s \in [1..N -> T]
  OBVIOUS
<1>2. s \in Bijection(1..N, Elements(s))
  BY <1>1 DEF Bijection, Injection, IsInjective, Surjection, Elements, Distinct
<1>3. IsFiniteSet(1..N) /\ Cardinality(1..N) = N
  BY <1>1, FS_Interval
<1> HIDE DEF N
<1>4. IsFiniteSet(Elements(s)) /\ Cardinality(Elements(s)) = N
  BY <1>2, <1>3, FS_Bijection DEF ExistsBijection
<1> QED
  BY <1>4 DEF N

\* The first n elements of a sequence.
LEMMA FirstFacts ==
    ASSUME NEW T, NEW s \in Seq(T), NEW n \in 0..Len(s)
    PROVE  /\ SubSeq(s, 1, n) \in Seq(T) /\ Len(SubSeq(s, 1, n)) = n
           /\ Elements(SubSeq(s, 1, n)) \subseteq Elements(s)
           /\ Distinct(s) => Distinct(SubSeq(s, 1, n))
<1>1. /\ SubSeq(s, 1, n) \in Seq(T) /\ Len(SubSeq(s, 1, n)) = n
      /\ \A i \in 1..n : SubSeq(s, 1, n)[i] = s[i]
  OBVIOUS
<1>2. \A i \in 1..n : i \in 1..Len(s)
  OBVIOUS
<1>3. PICK f : f = SubSeq(s, 1, n)
  OBVIOUS
<1>4. Len(f) = n /\ \A i \in 1..n : f[i] = s[i]
  BY <1>1, <1>3
<1>5. Elements(f) \subseteq Elements(s)
  BY <1>2, <1>4, Zenon DEF Elements
<1>6. Distinct(s) => Distinct(f)
  BY <1>2, <1>4, Zenon DEF Distinct
<1> QED
  BY <1>1, <1>3, <1>5, <1>6, Zenon

\* An element moved to the front of a list, or put there.
LEMMA ToFrontFacts ==
    ASSUME NEW T, NEW s \in Seq(T), NEW m \in T, Distinct(s)
    PROVE  /\ <<m>> \o Without(s, {m}) \in Seq(T)
           /\ Distinct(<<m>> \o Without(s, {m}))
           /\ Elements(<<m>> \o Without(s, {m})) = Elements(s) \cup {m}
           /\ Len(<<m>> \o Without(s, {m})) <= Len(s) + 1
           /\ m \in Elements(s) => Len(<<m>> \o Without(s, {m})) = Len(s)
<1>w. PICK w : w = Without(s, {m})
  OBVIOUS
<1>1. w \in Seq(T) /\ Len(w) <= Len(s) /\ Elements(w) = Elements(s) \ {m} /\ Distinct(w)
  BY <1>w, WithoutFacts, WithoutDistinct
<1>f. PICK f : f = <<m>> \o w
  OBVIOUS
<1>2. /\ f \in Seq(T) /\ Len(f) = Len(w) + 1 /\ f[1] = m
      /\ \A i \in 1..Len(w) : f[i + 1] = w[i]
  <2>1. <<m>> \in Seq(T) /\ Len(<<m>>) = 1 /\ <<m>>[1] = m
    OBVIOUS
  <2> QED
    BY <1>1, <1>f, <2>1
<1>3. Len(w) \in Nat /\ Len(s) \in Nat
  BY <1>1
<1>4. \A i \in 1..Len(f) : i = 1 \/ (i - 1 \in 1..Len(w) /\ f[i] = w[i - 1])
  <2> SUFFICES ASSUME NEW i \in 1..Len(f), i # 1
               PROVE  i - 1 \in 1..Len(w) /\ f[i] = w[i - 1]
    OBVIOUS
  <2>1. i - 1 \in 1..Len(w) /\ (i - 1) + 1 = i
    BY <1>2, <1>3
  <2> QED
    BY <1>2, <2>1
<1>5. \A i \in 1..Len(w) : w[i] # m
  BY <1>1 DEF Elements
<1>6. Distinct(f)
  <2> SUFFICES ASSUME NEW i \in 1..Len(f), NEW j \in 1..Len(f), f[i] = f[j] PROVE i = j
    BY DEF Distinct
  <2>1. i - 1 \in 1..Len(w) /\ j - 1 \in 1..Len(w) => i - 1 = j - 1
    <3> SUFFICES ASSUME i - 1 \in 1..Len(w), j - 1 \in 1..Len(w) PROVE i - 1 = j - 1
      OBVIOUS
    <3>1. w[i - 1] = w[j - 1]
      <4>1. i # 1 /\ j # 1
        BY <1>3
      <4> QED
        BY <1>4, <4>1
    <3> QED
      BY <1>1, <3>1 DEF Distinct
  <2>2. i = 1 => j = 1
    BY <1>2, <1>4, <1>5
  <2>3. j = 1 => i = 1
    BY <1>2, <1>4, <1>5
  <2>4. i \in Int /\ j \in Int
    BY <1>2, <1>3
  <2> QED
    BY <1>4, <2>1, <2>2, <2>3, <2>4
<1>7. Elements(f) = Elements(s) \cup {m}
  <2>1. ASSUME NEW x \in Elements(f) PROVE x \in Elements(w) \cup {m}
    BY <1>2, <1>4 DEF Elements
  <2>2. ASSUME NEW x \in Elements(w) PROVE x \in Elements(f)
    <3>1. PICK i \in 1..Len(w) : x = w[i]
      BY DEF Elements
    <3>2. i + 1 \in 1..Len(f) /\ f[i + 1] = x
      BY <1>2, <1>3, <3>1
    <3> QED
      BY <3>2, Zenon DEF Elements
  <2>3. m \in Elements(f)
    BY <1>2, <1>3 DEF Elements
  <2> QED
    BY <1>1, <2>1, <2>2, <2>3
<1>8. m \in Elements(s) => Len(f) = Len(s)
  <2>1. Elements(f) = Elements(s) => Len(f) = Len(s)
    BY <1>2, <1>6, DistinctLen
  <2> QED
    BY <1>7, <2>1
<1>9. Len(f) <= Len(s) + 1
  BY <1>1, <1>2, <1>3
<1> QED
  BY <1>w, <1>f, <1>2, <1>6, <1>7, <1>8, <1>9, Zenon

\* An element appended to a slice.
LEMMA AppendFacts ==
    ASSUME NEW T, NEW s \in Seq(T), NEW a \in T
    PROVE  /\ Append(s, a) \in Seq(T)
           /\ Elements(Append(s, a)) = Elements(s) \cup {a}
           /\ Distinct(s) /\ a \notin Elements(s) => Distinct(Append(s, a))
<1>0. PICK z : z = Append(s, a)
  OBVIOUS
<1>1. /\ z \in Seq(T) /\ Len(z) = Len(s) + 1 /\ z[Len(s) + 1] = a
      /\ \A i \in 1..Len(s) : z[i] = s[i]
  BY <1>0
<1>2. /\ \A i \in 1..Len(z) : i \in 1..Len(s) \/ i = Len(s) + 1
      /\ \A i \in 1..Len(s) : i \in 1..Len(z)
      /\ Len(s) + 1 \in 1..Len(z)
  BY <1>1
<1>3. Elements(z) = Elements(s) \cup {a}
  <2>1. ASSUME NEW x \in Elements(z) PROVE x \in Elements(s) \cup {a}
    BY <1>1, <1>2, Zenon DEF Elements
  <2>2. ASSUME NEW x \in Elements(s) \cup {a} PROVE x \in Elements(z)
    BY <1>1, <1>2, Zenon DEF Elements
  <2> QED
    BY <2>1, <2>2, Zenon
<1>4. Distinct(s) /\ a \notin Elements(s) => Distinct(z)
  <2>1. a \notin Elements(s) => \A i \in 1..Len(s) : s[i] # a
    BY Zenon DEF Elements
  <2> QED
    BY <1>1, <1>2, <2>1, Zenon DEF Distinct
<1> QED
  BY <1>0, <1>1, <1>3, <1>4, Zenon
-----------------------------------------------------------------------------
(* Sorted slices.                                                          *)

\* Strictly ascending.
Ascending(s) == \A i, j \in 1..Len(s) : i < j => s[i] < s[j]

\* An initial interval is as large as its last number.
LEMMA IntervalFacts ==
    ASSUME NEW n \in Nat
    PROVE  IsFiniteSet(1..n) /\ Cardinality(1..n) = n
<1>1. 1 \in Int /\ n \in Int /\ (1 > n => n = 0) /\ n - 1 + 1 = n
  OBVIOUS
<1> QED
  BY <1>1, FS_Interval

\* The indices of a sequence are ordered by its elements and, among equal ones,
\* as they are.
LEMMA ByValueOrders ==
    ASSUME NEW T \in SUBSET Int, NEW s \in Seq(T)
    PROVE  Orders(ByValue(s), 1..Len(s))
<1> DEFINE I == 1..Len(s)
<1>1. \A x, y : <<x, y>> \in ByValue(s) <=>
        x \in I /\ y \in I /\ (s[x] < s[y] \/ (s[x] = s[y] /\ x <= y))
  BY DEF ByValue
<1>2. \A x \in I : x \in Int /\ s[x] \in Int
  <2>1. \A x \in I : x \in Int /\ s[x] \in T
    OBVIOUS
  <2> QED
    BY <2>1
<1> HIDE DEF I
<1>3. \A x \in I : <<x, x>> \in ByValue(s)
  BY <1>1, <1>2
<1>4. \A x, y \in I : <<x, y>> \in ByValue(s) \/ <<y, x>> \in ByValue(s)
  <2> SUFFICES ASSUME NEW x \in I, NEW y \in I
               PROVE  <<x, y>> \in ByValue(s) \/ <<y, x>> \in ByValue(s)
    OBVIOUS
  <2>1. (s[x] < s[y] \/ (s[x] = s[y] /\ x <= y)) \/ (s[y] < s[x] \/ (s[y] = s[x] /\ y <= x))
    BY <1>2
  <2> QED
    BY <1>1, <2>1, Zenon
<1>5. \A x, y \in I : <<x, y>> \in ByValue(s) /\ <<y, x>> \in ByValue(s) => x = y
  BY <1>1, <1>2
<1>6. \A x, y, z \in I :
        <<x, y>> \in ByValue(s) /\ <<y, z>> \in ByValue(s) => <<x, z>> \in ByValue(s)
  BY <1>1, <1>2
<1> QED
  BY <1>3, <1>4, <1>5, <1>6 DEF Orders, I

\* sort.Strings permutes the elements into ascending order.
LEMMA SortedFacts ==
    ASSUME NEW T \in SUBSET Int, NEW s \in Seq(T)
    PROVE  /\ Sorted(s) \in Seq(T) /\ Len(Sorted(s)) = Len(s)
           /\ Elements(Sorted(s)) = Elements(s)
           /\ Distinct(s) => Ascending(Sorted(s))
<1> DEFINE I == 1..Len(s)
<1>0. PICK e : e = Enumerated(I, ByValue(s))
  OBVIOUS
<1>1. Len(s) \in Nat /\ IsFiniteSet(I) /\ Cardinality(I) = Len(s)
  BY IntervalFacts
<1>2. Orders(ByValue(s), I)
  BY ByValueOrders
<1>3. /\ e \in [I -> I]
      /\ \A i, j \in I : e[i] = e[j] => i = j
      /\ \A i, j \in I : i <= j => <<e[i], e[j]>> \in ByValue(s)
      /\ \A x \in I : \E i \in I : e[i] = x
  <2>1. /\ e \in [1..Cardinality(I) -> I]
        /\ \A i, j \in 1..Cardinality(I) : e[i] = e[j] => i = j
        /\ \A i, j \in 1..Cardinality(I) : i <= j => <<e[i], e[j]>> \in ByValue(s)
        /\ \A x \in I : \E i \in 1..Cardinality(I) : e[i] = x
    <3> HIDE DEF I
    <3> QED
      BY <1>0, <1>1, <1>2, EnumeratedFacts
  <2>2. 1..Cardinality(I) = I
    BY <1>1
  <2> HIDE DEF I
  <2> QED
    BY <2>1, <2>2
<1>4. PICK z : z = Sorted(s)
  OBVIOUS
<1>5. z = [n \in I |-> s[e[n]]]
  BY <1>0, <1>4 DEF Sorted
<1>6. z \in [I -> T] /\ \A n \in I : z[n] = s[e[n]]
  BY <1>3, <1>5
<1>7. z \in Seq(T) /\ Len(z) = Len(s)
  BY <1>1, <1>6, SeqOfFunction
<1>8. Elements(z) = Elements(s)
  <2>1. ASSUME NEW x \in Elements(z) PROVE x \in Elements(s)
    <3>1. PICK k \in I : x = z[k]
      BY <1>7 DEF Elements
    <3>2. e[k] \in I /\ x = s[e[k]]
      BY <1>3, <1>6, <3>1
    <3> QED
      BY <3>2 DEF Elements
  <2>2. ASSUME NEW x \in Elements(s) PROVE x \in Elements(z)
    <3>1. PICK k \in I : x = s[k]
      BY DEF Elements
    <3>2. PICK i \in I : e[i] = k
      BY <1>3
    <3>3. z[i] = x /\ Len(z) = Len(s)
      BY <1>6, <1>7, <3>1, <3>2
    <3> QED
      BY <3>3 DEF Elements
  <2> QED
    BY <2>1, <2>2
<1>9. ASSUME Distinct(s) PROVE Ascending(z)
  <2> SUFFICES ASSUME NEW i \in I, NEW j \in I, i < j PROVE z[i] < z[j]
    BY <1>7 DEF Ascending
  <2>1. i <= j /\ i # j
    BY <1>1
  <2> HIDE DEF I
  <2>2. <<e[i], e[j]>> \in ByValue(s) /\ e[i] # e[j] /\ e[i] \in I /\ e[j] \in I
    BY <1>3, <2>1, Zenon
  <2>3. s[e[i]] # s[e[j]]
    BY <1>9, <2>2 DEF Distinct, I
  <2>4. s[e[i]] < s[e[j]]
    BY <2>2, <2>3 DEF ByValue
  <2> QED
    BY <1>6, <2>4
<1> QED
  BY <1>4, <1>7, <1>8, <1>9

\* A set as a slice is in order and has the elements of the set.
LEMMA SliceFacts ==
    ASSUME NEW S \in SUBSET Int, IsFiniteSet(S)
    PROVE  Slice(S) \in Seq(S) /\ Ascending(Slice(S)) /\ Elements(Slice(S)) = S
<1>0. PICK z : z = Slice(S)
  OBVIOUS
<1>1. PICK n : n = Cardinality(S)
  OBVIOUS
<1>2. /\ n \in Nat /\ z \in [1..n -> S]
      /\ \A i, j \in 1..n : z[i] = z[j] => i = j
      /\ \A i, j \in 1..n : i <= j => <<z[i], z[j]>> \in ByIndex(S)
      /\ \A x \in S : \E i \in 1..n : z[i] = x
  BY <1>0, <1>1, ByIndexOrders, EnumeratedFacts DEF Slice
<1>3. z \in Seq(S) /\ Len(z) = n
  BY <1>2, SeqOfFunction
<1>4. Ascending(z)
  <2> SUFFICES ASSUME NEW i \in 1..n, NEW j \in 1..n, i < j PROVE z[i] < z[j]
    BY <1>3 DEF Ascending
  <2>1. i <= j /\ i # j
    BY <1>2
  <2>2. <<z[i], z[j]>> \in ByIndex(S) /\ z[i] # z[j] /\ z[i] \in S /\ z[j] \in S
    BY <1>2, <2>1, Zenon
  <2>3. z[i] <= z[j]
    BY <2>2 DEF ByIndex
  <2>4. z[i] \in Int /\ z[j] \in Int
    BY <2>2
  <2> QED
    BY <2>2, <2>3, <2>4
<1>5. Elements(z) = S
  <2>1. \A i \in 1..n : z[i] \in S
    BY <1>2
  <2> QED
    <3>1. Elements(z) = {z[i] : i \in 1..n}
      BY <1>3, Zenon DEF Elements
    <3>2. \A x : x \in S <=> \E i \in 1..n : x = z[i]
      BY <1>2, <2>1, Zenon
    <3> QED
      BY <3>1, <3>2, Zenon
<1> QED
  BY <1>0, <1>3, <1>4, <1>5

\* A finite set of integers has a least one.
LEMMA LeastInt ==
    ASSUME NEW S \in SUBSET Int, IsFiniteSet(S), S # {}
    PROVE  \E n \in S : \A m \in S : n <= m
<1>0. PICK z : z = Slice(S)
  OBVIOUS
<1>1. z \in Seq(S) /\ Ascending(z) /\ Elements(z) = S
  BY <1>0, SliceFacts
<1>2. PICK k \in 1..Len(z) : TRUE
  BY <1>1 DEF Elements
<1>3. 1 \in 1..Len(z) /\ z[1] \in S
  BY <1>1, <1>2
<1>4. \A i \in 1..Len(z) : z[1] <= z[i]
  <2> SUFFICES ASSUME NEW i \in 1..Len(z) PROVE z[1] <= z[i]
    OBVIOUS
  <2>1. i = 1 \/ 1 < i
    BY <1>1
  <2>2. z[1] \in Int /\ z[i] \in Int
    <3>1. z[i] \in S
      BY <1>1
    <3> QED
      BY <1>3, <3>1
  <2> QED
    BY <1>1, <1>3, <2>1, <2>2 DEF Ascending
<1> QED
  BY <1>1, <1>3, <1>4 DEF Elements

\* A filtered ascending sequence is ascending.
LEMMA WithoutAscends ==
    ASSUME NEW T \in SUBSET Int, NEW s \in Seq(T), NEW M, Ascending(s)
    PROVE  Ascending(Without(s, M))
<1>1. PICK f \in [1..Len(Without(s, M)) -> 1..Len(s)] :
             /\ \A i \in 1..Len(Without(s, M)) : Without(s, M)[i] = s[f[i]]
             /\ \A i, j \in 1..Len(Without(s, M)) : i < j => f[i] < f[j]
  BY WithoutFacts
<1> QED
  BY <1>1 DEF Ascending

\* An ascending sequence has no element twice.
LEMMA AscendingDistinct ==
    ASSUME NEW s \in Seq(Int), Ascending(s)
    PROVE  Distinct(s)
<1> SUFFICES ASSUME NEW i \in 1..Len(s), NEW j \in 1..Len(s), s[i] = s[j] PROVE i = j
  BY DEF Distinct
<1>1. s[i] \in Int /\ s[j] \in Int /\ ~(s[i] < s[j]) /\ ~(s[j] < s[i])
  OBVIOUS
<1>2. ~(i < j) /\ ~(j < i)
  BY <1>1, Zenon DEF Ascending
<1> QED
  BY <1>2

\* There is one way to sort a set.
LEMMA AscendingUnique ==
    ASSUME NEW s \in Seq(Int), NEW t \in Seq(Int), Ascending(s), Ascending(t),
           Elements(s) = Elements(t)
    PROVE  s = t
<1>0. Len(s) \in Nat /\ Len(t) \in Nat
  OBVIOUS
<1>1. /\ \A i \in 1..Len(s) : s[i] \in Int /\ i \in Int /\ \E j \in 1..Len(t) : t[j] = s[i]
      /\ \A i \in 1..Len(t) : t[i] \in Int /\ i \in Int /\ \E j \in 1..Len(s) : s[j] = t[i]
  <2>1. \A i \in 1..Len(s) : s[i] \in Int /\ i \in Int /\ s[i] \in Elements(s)
    BY DEF Elements
  <2>2. \A i \in 1..Len(t) : t[i] \in Int /\ i \in Int /\ t[i] \in Elements(t)
    BY DEF Elements
  <2>3. \A x \in Elements(s) : \E j \in 1..Len(s) : s[j] = x
    BY Zenon DEF Elements
  <2>4. \A x \in Elements(t) : \E j \in 1..Len(t) : t[j] = x
    BY Zenon DEF Elements
  <2> QED
    BY <2>1, <2>2, <2>3, <2>4, Zenon
<1>2. Distinct(s) /\ Distinct(t)
  BY <1>1, AscendingDistinct
<1>3. Len(s) = Len(t)
  <2>1. Cardinality(Elements(s)) = Len(s) /\ Cardinality(Elements(t)) = Len(t)
    BY <1>2, DistinctLen
  <2> QED
    BY <2>1
<1> DEFINE n == Len(s)
           D == {i \in 1..n : s[i] # t[i]}
<1>4. CASE D # {}
  <2>1. D \in SUBSET Int /\ IsFiniteSet(D)
    <3>1. D \in SUBSET (1..n) /\ IsFiniteSet(1..n)
      BY <1>0, IntervalFacts
    <3> QED
      BY <3>1, FS_Subset
  <2>2. PICK i \in D : \A j \in D : i <= j
    BY <1>4, <2>1, LeastInt
  <2>3. \A j \in 1..n : j < i => s[j] = t[j]
    BY <1>0, <2>1, <2>2
  <2>4. i \in 1..n /\ s[i] # t[i] /\ s[i] \in Int /\ t[i] \in Int
    BY <1>1, <1>3, <2>2
  <2>5. CASE s[i] < t[i]
    <3>1. PICK j \in 1..n : t[j] = s[i]
      BY <1>1, <1>3, <2>4
    <3>2. ~(j < i)
      BY <2>3, <2>4, <3>1, <1>2 DEF Distinct
    <3>3. j = i \/ i < j
      BY <1>0, <2>4, <3>2
    <3> QED
      <4>1. i < j => t[i] < t[j]
        BY <1>3, <2>4, Zenon DEF Ascending
      <4> QED
        BY <2>4, <2>5, <3>1, <3>3, <4>1
  <2>6. CASE t[i] < s[i]
    <3>1. PICK j \in 1..n : s[j] = t[i]
      BY <1>1, <1>3, <2>4
    <3>2. ~(j < i)
      BY <1>2, <1>3, <2>3, <2>4, <3>1 DEF Distinct
    <3>3. j = i \/ i < j
      BY <1>0, <2>4, <3>2
    <3> QED
      <4>1. i < j => s[i] < s[j]
        BY <1>3, <2>4, Zenon DEF Ascending
      <4> QED
        BY <2>4, <2>6, <3>1, <3>3, <4>1
  <2> QED
    BY <2>4, <2>5, <2>6
<1>5. CASE D = {}
  <2>1. \A i \in 1..n : s[i] = t[i]
    BY <1>5
  <2> QED
    BY <1>0, <1>3, <2>1
<1> QED
  BY <1>4, <1>5
=============================================================================
