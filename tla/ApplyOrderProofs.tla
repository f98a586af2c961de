-------------------------- MODULE ApplyOrderProofs --------------------------
(***************************************************************************)
(* Proofs about ApplyOrder, for plans of any length and any dependencies:  *)
(* every change comes out once, in an order that OrderRules allows.        *)
(***************************************************************************)
EXTENDS ApplyOrder, FiniteSetTheorems, SequenceTheorems, TLAPS

-----------------------------------------------------------------------------
(* Sequences that list a set *)

\* every set of numbers has a least one
LEMMA LeastNat == \A T : T \subseteq Nat /\ T # {} => \E x \in T : \A y \in T : x <= y
<1> SUFFICES ASSUME NEW T, T \subseteq Nat, T # {} PROVE \E x \in T : \A y \in T : x <= y
  OBVIOUS
<1> DEFINE R == OpToRel(<, Nat)
<1>1. IsWellFoundedOn(R, Nat)
  BY NatLessThanWellFounded
<1>2. \A x, y \in Nat : x < y => <<x, y>> \in R
  BY DEF OpToRel
<1> HIDE DEF R
<1>3. PICK x \in T : \A y \in T : ~ (<<y, x>> \in R)
  BY <1>1, WFMin
<1>4. ASSUME NEW y \in T PROVE x <= y
  <2>1. x \in Nat /\ y \in Nat
    OBVIOUS
  <2>2. ~ (y < x)
    BY <2>1, <1>2, <1>3
  <2> QED BY <2>1, <2>2
<1> QED BY <1>4

Growing(q, S) ==
  /\ q \in [1..Cardinality(S) -> S]
  /\ \A i, j \in 1..Cardinality(S) : i < j => q[i] < q[j]

\* a set of addresses can be put in input order
LEMMA GrowingExists == \A n \in Nat : \A S \in SUBSET (1..n) : \E q : Growing(q, S)
<1> DEFINE Has(n) == \A S \in SUBSET (1..n) : \E q : Growing(q, S)
           Lacks == {n \in Nat : ~ Has(n)}
<1>1. Has(0)
  <2>1. ASSUME NEW S \in SUBSET (1..0) PROVE Growing(<<>>, S)
    <3>1. S = {}
      OBVIOUS
    <3>2. Cardinality(S) = 0
      BY <3>1, FS_EmptySet
    <3> QED BY <3>1, <3>2 DEF Growing
  <2> QED BY <2>1
<1>2. ASSUME NEW n \in Nat \ {0}, Has(n - 1) PROVE Has(n)
  <2>1. ASSUME NEW S \in SUBSET (1..n) PROVE \E q : Growing(q, S)
    <3>1. CASE n \notin S
      <4>1. S \in SUBSET (1..(n - 1))
        BY <3>1
      <4> QED BY <4>1, <1>2
    <3>2. CASE n \in S
      <4>1. S \ {n} \in SUBSET (1..(n - 1))
        OBVIOUS
      <4>2. PICK p : Growing(p, S \ {n})
        BY <4>1, <1>2
      <4>3. PICK k \in Nat : k = Cardinality(S) /\ k > 0 /\ k - 1 = Cardinality(S \ {n})
        <5>1. IsFiniteSet(1..n)
          BY FS_Interval
        <5>2. IsFiniteSet(S)
          BY <5>1, FS_Subset
        <5>3. Cardinality(S) \in Nat /\ Cardinality(S \ {n}) \in Nat
              /\ Cardinality(S \ {n}) = Cardinality(S) - 1
          BY <5>2, <3>2, FS_CardinalityType, FS_RemoveElement
        <5> QED BY <5>3
      <4>4. /\ p \in [1..(k - 1) -> S \ {n}]
            /\ \A i, j \in 1..(k - 1) : i < j => p[i] < p[j]
        BY <4>2, <4>3 DEF Growing
      <4>5. PICK q : q = [i \in 1..k |-> IF i = k THEN n ELSE p[i]]
        OBVIOUS
      <4>6. q \in [1..k -> S]
        <5>1. \A i \in 1..k : i # k => i \in 1..(k - 1)
          BY <4>3
        <5> QED BY <3>2, <4>4, <4>5, <5>1
      <4>7. ASSUME NEW i \in 1..k, NEW j \in 1..k, i < j PROVE q[i] < q[j]
        <5>0. i \in 1..(k - 1) /\ i # k
          BY <4>3, <4>7
        <5>1. q[i] = p[i] /\ p[i] \in S \ {n} /\ p[i] \in 1..(n - 1)
          BY <4>1, <4>4, <4>5, <5>0
        <5>2. CASE j = k
          BY <5>1, <5>2, <4>5
        <5>3. CASE j # k
          <6>1. j \in 1..(k - 1) /\ q[j] = p[j]
            BY <5>3, <4>3, <4>5
          <6> QED BY <4>4, <4>7, <5>0, <5>1, <6>1
        <5> QED BY <5>2, <5>3
      <4>8. Growing(q, S)
        BY <4>3, <4>6, <4>7 DEF Growing
      <4> QED BY <4>8
    <3> QED BY <3>1, <3>2
  <2> QED BY <2>1
<1>3. Lacks = {}
  <2> SUFFICES ASSUME Lacks # {} PROVE FALSE
    OBVIOUS
  <2>1. PICK n \in Lacks : \A m \in Lacks : n <= m
    <3>1. Lacks \subseteq Nat
      OBVIOUS
    <3> HIDE DEF Lacks
    <3> QED BY <3>1, LeastNat
  <2>2. n \in Nat /\ ~ Has(n) /\ n # 0
    BY <1>1
  <2>3. n - 1 \in Nat /\ n - 1 \notin Lacks
    <3>1. n - 1 \in Nat /\ ~ (n <= n - 1)
      BY <2>2
    <3> HIDE DEF Lacks
    <3> QED BY <2>1, <3>1
  <2>4. Has(n - 1)
    BY <2>3
  <2> QED BY <2>2, <2>4, <1>2
<1> QED BY <1>3

\* q lists the members of S, each of them once
Lists(q, S) ==
  /\ q \in Seq(S)
  /\ \A i, j \in 1..Len(q) : q[i] = q[j] => i = j
  /\ \A x \in S : \E i \in 1..Len(q) : q[i] = x

LEMMA Finite == ASSUME NEW S \in SUBSET Addrs
                PROVE  IsFiniteSet(S) /\ Cardinality(S) \in Nat
<1>1. IsFiniteSet(Addrs)
  BY BoundsOK, FS_Interval DEF Addrs
<1>2. IsFiniteSet(S)
  BY <1>1, FS_Subset
<1> QED BY <1>2, FS_CardinalityType

LEMMA InOrderLists == ASSUME NEW S \in SUBSET Addrs PROVE Lists(InOrder(S), S)
<1>1. PICK k \in Nat : k = Cardinality(S)
  BY Finite
<1>2. \E q : Growing(q, S)
  BY GrowingExists, BoundsOK DEF Addrs
<1>3. PICK q : q = InOrder(S)
  OBVIOUS
<1>4. q \in [1..k -> S] /\ \A i, j \in 1..k : i < j => q[i] < q[j]
  BY <1>1, <1>2, <1>3 DEF InOrder, Growing
<1>5. \A i, j \in 1..k : q[i] = q[j] => i = j
  <2>1. ASSUME NEW i \in 1..k PROVE q[i] \in Int
    <3>1. q[i] \in Addrs
      BY <1>4
    <3> QED BY <3>1, BoundsOK DEF Addrs
  <2>2. ASSUME NEW i \in 1..k, NEW j \in 1..k, i < j PROVE q[i] # q[j]
    <3>1. q[i] < q[j] /\ q[i] \in Int
      BY <1>4, <2>1, <2>2
    <3> QED BY <3>1
  <2>3. \A i, j \in 1..k : i < j \/ j < i \/ i = j
    OBVIOUS
  <2> QED BY <2>2, <2>3
<1>6. q \in Injection(1..k, S)
  BY <1>4, <1>5 DEF Injection, IsInjective
<1>7. Cardinality(1..k) = k
  BY FS_Interval
<1>8. q \in Surjection(1..k, S)
  BY <1>1, <1>6, <1>7, Finite, FS_Injection
<1>9. \A x \in S : \E i \in 1..k : q[i] = x
  BY <1>8 DEF Surjection
<1>10. q \in Seq(S) /\ Len(q) = k
  BY <1>4
<1> QED BY <1>3, <1>5, <1>9, <1>10 DEF Lists

LEMMA ListLen == ASSUME NEW S \in SUBSET Addrs, NEW q, Lists(q, S) PROVE Len(q) = Cardinality(S)
<1>1. PICK k \in Nat : k = Len(q)
  BY DEF Lists
<1>2. q \in [1..k -> S]
  BY <1>1 DEF Lists
<1>3. q \in Bijection(1..k, S)
  BY <1>1, <1>2 DEF Lists, Bijection, Injection, Surjection, IsInjective
<1>4. ExistsBijection(1..k, S)
  BY <1>3 DEF ExistsBijection
<1> QED BY <1>1, <1>4, FS_CountingElements

LEMMA JoinLists ==
  ASSUME NEW S, NEW T, S \cap T = {}, NEW a, NEW b, Lists(a, S), Lists(b, T)
  PROVE  Lists(a \o b, S \cup T)
<1>0. a \in Seq(S \cup T) /\ b \in Seq(S \cup T)
  BY DEF Lists
<1>1. PICK k \in Nat, l \in Nat : k = Len(a) /\ l = Len(b)
  BY DEF Lists
<1>2. PICK q : q = a \o b
  OBVIOUS
<1>3. /\ q \in Seq(S \cup T) /\ Len(q) = k + l
      /\ \A i \in 1..k : q[i] = a[i] /\ a[i] \in S
      /\ \A i \in 1..l : q[k + i] = b[i] /\ b[i] \in T
  <2>1. /\ q \in Seq(S \cup T) /\ Len(q) = k + l
        /\ \A i \in 1..(k + l) : q[i] = IF i <= k THEN a[i] ELSE b[i - k]
    BY <1>0, <1>1, <1>2, ConcatProperties
  <2>2. (\A i \in 1..k : a[i] \in S) /\ \A i \in 1..l : b[i] \in T
    BY <1>1 DEF Lists
  <2>3. \A i \in 1..k : q[i] = a[i]
    BY <2>1
  <2>4. \A i \in 1..l : q[k + i] = b[i]
    <3>1. \A i \in 1..l : k + i \in 1..(k + l) /\ ~ (k + i <= k) /\ (k + i) - k = i
      OBVIOUS
    <3> QED BY <2>1, <3>1
  <2> QED BY <2>1, <2>2, <2>3, <2>4
<1>4. \A i \in 1..(k + l) : i \in 1..k \/ (i - k \in 1..l /\ i = k + (i - k))
  OBVIOUS
<1>5. ASSUME NEW i \in 1..(k + l), NEW j \in 1..(k + l), q[i] = q[j] PROVE i = j
  <2>1. CASE i \in 1..k /\ j \in 1..k
    BY <1>1, <1>3, <1>5, <2>1 DEF Lists
  <2>2. CASE i - k \in 1..l /\ j - k \in 1..l
    <3>1. q[i] = b[i - k] /\ q[j] = b[j - k]
      BY <1>3, <2>2
    <3>2. i - k = j - k
      BY <1>1, <1>5, <2>2, <3>1 DEF Lists
    <3> QED BY <3>2
  <2>3. CASE (i \in 1..k /\ j - k \in 1..l) \/ (j \in 1..k /\ i - k \in 1..l)
    <3>1. \A n \in 1..k, m \in 1..(k + l) : m - k \in 1..l => q[n] # q[m]
      BY <1>3
    <3> QED BY <1>5, <2>3, <3>1
  <2> QED BY <1>4, <2>1, <2>2, <2>3
<1>6. ASSUME NEW x \in S \cup T PROVE \E i \in 1..(k + l) : q[i] = x
  <2>1. CASE x \in S
    <3>1. PICK i \in 1..k : a[i] = x
      BY <1>1, <2>1 DEF Lists
    <3> QED BY <1>3, <3>1
  <2>2. CASE x \in T
    <3>1. PICK i \in 1..l : b[i] = x
      BY <1>1, <2>2 DEF Lists
    <3>2. k + i \in 1..(k + l) /\ q[k + i] = x
      BY <1>3, <3>1
    <3> QED BY <3>2
  <2> QED BY <2>1, <2>2
<1> QED BY <1>2, <1>3, <1>5, <1>6 DEF Lists

LEMMA Joined ==
  ASSUME NEW S, NEW a \in Seq(S), NEW b \in Seq(S), NEW k, NEW l, k = Len(a), l = Len(b)
  PROVE  /\ k \in Nat /\ l \in Nat /\ Len(a \o b) = k + l
         /\ \A i \in 1..k : (a \o b)[i] = a[i]
         /\ \A i \in 1..l : (a \o b)[k + i] = b[i]
OBVIOUS

LEMMA ReverseLists ==
  ASSUME NEW S, NEW b, Lists(b, S)
  PROVE  /\ Lists(Reverse(b), S) /\ Len(Reverse(b)) = Len(b)
         /\ \A i \in 1..Len(b) : Reverse(b)[i] = b[(Len(b) - i) + 1]
<1>1. PICK k \in Nat : k = Len(b)
  BY DEF Lists
<1>2. PICK q : q = Reverse(b)
  OBVIOUS
<1>3. \A i \in 1..k : (k - i) + 1 \in 1..k /\ (k - ((k - i) + 1)) + 1 = i
  OBVIOUS
<1>4. q \in Seq(S) /\ Len(q) = k /\ \A i \in 1..k : q[i] = b[(k - i) + 1]
  <2>1. q = [i \in 1..k |-> b[(k - i) + 1]]
    BY <1>1, <1>2 DEF Reverse
  <2>2. \A i \in 1..k : b[i] \in S
    BY <1>1 DEF Lists
  <2>3. q \in [1..k -> S]
    BY <1>3, <2>1, <2>2
  <2> QED BY <2>1, <2>3
<1>5. ASSUME NEW i \in 1..k, NEW j \in 1..k, q[i] = q[j] PROVE i = j
  <2>1. PICK m \in 1..k, n \in 1..k : m = (k - i) + 1 /\ n = (k - j) + 1
    BY <1>3
  <2>2. b[m] = b[n]
    BY <1>4, <1>5, <2>1
  <2>3. m = n
    BY <1>1, <2>2 DEF Lists
  <2> QED BY <2>1, <2>3
<1>6. ASSUME NEW x \in S PROVE \E i \in 1..k : q[i] = x
  <2>1. PICK i \in 1..k : b[i] = x
    BY <1>1 DEF Lists
  <2>2. q[(k - i) + 1] = x
    BY <1>3, <1>4, <2>1
  <2> QED BY <1>3, <2>2
<1> QED BY <1>1, <1>2, <1>4, <1>5, <1>6 DEF Lists

-----------------------------------------------------------------------------
(* Counting edges *)

InputOK ==
  /\ action \in [Addrs -> {"update", "delete"}]
  /\ edges \in [Addrs -> [Addrs -> 0..MaxEdges]]

LEMMA EdgesFinite ==
  ASSUME NEW S \in SUBSET Addrs, NEW x
  PROVE  IsFiniteSet(EdgesInto(x, S)) /\ Cardinality(EdgesInto(x, S)) \in Nat
<1>1. IsFiniteSet(S) /\ IsFiniteSet(1..MaxEdges)
  BY Finite, FS_Interval, BoundsOK
<1>2. IsFiniteSet(S \X (1..MaxEdges))
  BY <1>1, FS_Product
<1>3. EdgesInto(x, S) \in SUBSET (S \X (1..MaxEdges))
  BY DEF EdgesInto
<1>4. IsFiniteSet(EdgesInto(x, S))
  BY <1>2, <1>3, FS_Subset
<1> QED BY <1>4, FS_CardinalityType

LEMMA EdgesNone ==
  ASSUME InputOK, NEW S \in SUBSET Addrs, NEW x \in Addrs
  PROVE  Cardinality(EdgesInto(x, S)) = 0 <=> \A d \in S : edges[x][d] = 0
<1>1. Cardinality(EdgesInto(x, S)) = 0 <=> EdgesInto(x, S) = {}
  BY EdgesFinite, FS_EmptySet
<1>2. \A d \in S : edges[x][d] \in 0..MaxEdges
  BY DEF InputOK
<1>3. ASSUME NEW d \in S, edges[x][d] # 0 PROVE EdgesInto(x, S) # {}
  <2>1. 1 \in 1..MaxEdges /\ 1 <= edges[x][d]
    BY <1>2, <1>3, BoundsOK
  <2>2. <<d, 1>> \in EdgesInto(x, S)
    BY <2>1 DEF EdgesInto
  <2> QED BY <2>2
<1>4. ASSUME NEW e \in EdgesInto(x, S) PROVE e[1] \in S /\ edges[x][e[1]] # 0
  <2>1. e[1] \in S /\ e[2] \in 1..MaxEdges /\ e[2] <= edges[x][e[1]]
    BY DEF EdgesInto
  <2> QED BY <2>1, <1>2, BoundsOK
<1> QED BY <1>1, <1>3, <1>4

LEMMA EdgesLess ==
  ASSUME InputOK, NEW S \in SUBSET Addrs, NEW x \in Addrs, NEW d \in S
  PROVE  Cardinality(EdgesInto(x, S \ {d})) = Cardinality(EdgesInto(x, S)) - edges[x][d]
<1>1. PICK n \in 0..MaxEdges : n = edges[x][d]
  BY DEF InputOK
<1>2. PICK D : D = {d} \X (1..n)
  OBVIOUS
<1>3. Cardinality(D) = n
  <2>1. IsFiniteSet({d}) /\ Cardinality({d}) = 1
    BY FS_Singleton
  <2>2. IsFiniteSet(1..n) /\ Cardinality(1..n) = n
    BY FS_Interval, BoundsOK
  <2>3. Cardinality({d} \X (1..n)) = Cardinality({d}) * Cardinality(1..n)
    BY <2>1, <2>2, FS_Product, Zenon
  <2> QED BY <1>2, <2>1, <2>2, <2>3
<1>4. EdgesInto(x, S) \cap D = D
  <2>1. ASSUME NEW e \in D PROVE e \in EdgesInto(x, S)
    <3>1. e = <<d, e[2]>> /\ e[1] = d /\ e[2] \in 1..n
      BY <1>2
    <3>2. e[2] \in 1..MaxEdges /\ e[2] <= edges[x][d]
      BY <1>1, <3>1, BoundsOK
    <3>3. e \in S \X (1..MaxEdges)
      BY <3>1, <3>2
    <3> QED BY <3>1, <3>2, <3>3 DEF EdgesInto
  <2> QED BY <2>1
<1>5. EdgesInto(x, S \ {d}) = EdgesInto(x, S) \ D
  <2>1. ASSUME NEW e \in S \X (1..MaxEdges), e[2] <= edges[x][e[1]] PROVE e[1] = d <=> e \in D
    BY <1>1, <1>2, <2>1, SMTT(30)
  <2> QED BY <2>1, SMTT(30) DEF EdgesInto
<1>6. Cardinality(EdgesInto(x, S) \ D) = Cardinality(EdgesInto(x, S)) - Cardinality(D)
  <2>1. IsFiniteSet(EdgesInto(x, S))
    BY EdgesFinite
  <2>2. Cardinality(EdgesInto(x, S) \ D)
          = Cardinality(EdgesInto(x, S)) - Cardinality(EdgesInto(x, S) \cap D)
    BY <2>1, FS_Difference, Zenon
  <2> QED BY <1>4, <2>2
<1> QED BY <1>1, <1>3, <1>5, <1>6

-----------------------------------------------------------------------------
(* The sort *)

\* up to place m, q has what an address depends on before it
Settled(q, P, m) ==
  \A p \in 1..m : \A d \in P : edges[q[p]][d] > 0 => \E r \in 1..(p - 1) : q[r] = d

\* topoSort's locals while it sorts P: an address counts the edges that come
\* from addresses not yet seen, and waits in ready when there are none
Sorting(P) ==
  /\ seen \subseteq P /\ Lists(ordered, seen) /\ Settled(ordered, P, Len(ordered))
  /\ ready \in Seq(P)
  /\ \A x \in P : indegree[x] = Cardinality(EdgesInto(x, P \ seen))
  /\ \A x \in P \ seen : indegree[x] = 0 => \E i \in 1..Len(ready) : ready[i] = x
  /\ \A x \in seen : indegree[x] = 0
  /\ \A i \in 1..Len(ready) : indegree[ready[i]] = 0

\* a sorted half: the first m of q come after what they depend on, each of
\* the others depends on one of the others
Kahn(q, P, m) ==
  /\ Lists(q, P) /\ m \in 0..Len(q) /\ Settled(q, P, m)
  /\ \A p \in (m + 1)..Len(q) : \E r \in (m + 1)..Len(q) : edges[q[p]][q[r]] > 0

Halves == {"upserts", "deletes"}

LEMMA StartSorting ==
  ASSUME InputOK, UNCHANGED input, NEW s \in Halves, StartSort(s), NEW P, P = Present(s)
  PROVE  Sorting(P)'
<1>1. P \in SUBSET Addrs
  BY DEF Present
<1>2. /\ seen' = {} /\ ordered' = <<>> /\ edges' = edges
      /\ ready' = InOrder({x \in P : Indegrees(s)[x] = 0}) /\ indegree' = Indegrees(s)
  BY DEF StartSort, input
<1>3. \A x \in P : indegree'[x] = Cardinality(EdgesInto(x, P))
  BY <1>1, <1>2 DEF Indegrees
<1>4. \A x \in P : EdgesInto(x, P \ seen)' = EdgesInto(x, P)
  BY <1>2 DEF EdgesInto
<1>5. PICK Z : Z = {x \in P : Indegrees(s)[x] = 0}
  OBVIOUS
<1>6. Lists(ready', Z) /\ Z \subseteq P
  BY <1>1, <1>2, <1>5, InOrderLists
<1>7. \A x \in Z : indegree'[x] = 0
  BY <1>2, <1>5
<1>8. \A x \in P : indegree'[x] = 0 => x \in Z
  BY <1>2, <1>5
<1>9. ready' \in Seq(P) /\ \A i \in 1..Len(ready') : ready'[i] \in Z
  BY <1>6 DEF Lists
<1>10. \A x \in Z : \E i \in 1..Len(ready') : ready'[i] = x
  BY <1>6 DEF Lists
<1>11. Lists(ordered, seen)' /\ Settled(ordered, P, Len(ordered))'
  BY <1>2 DEF Lists, Settled
<1> QED BY <1>2, <1>3, <1>4, <1>7, <1>8, <1>9, <1>10, <1>11 DEF Sorting

LEMMA PopSorting ==
  ASSUME InputOK, Pop, NEW P, P = Present(side), Sorting(P)
  PROVE  Sorting(P)'
<1>1. P \in SUBSET Addrs /\ edges' = edges /\ ready # <<>>
  BY DEF Present, Pop, input
<1>2. PICK id \in P : id = Head(ready)
  BY <1>1 DEF Sorting
<1>0. ready \in Seq(P)
  BY DEF Sorting
<1>3. PICK rest \in Seq(P) : rest = Tail(ready)
  <2>1. Tail(ready) \in Seq(P)
    BY <1>0, <1>1
  <2> QED BY <2>1
<1>4. PICK freed : freed = InOrder({x \in P : edges[x][id] > 0 /\ indegree[x] = edges[x][id]})
  OBVIOUS
<1>5. /\ \A i \in 1..Len(rest) : \E j \in 1..Len(ready) : ready[j] = rest[i]
      /\ \A j \in 1..Len(ready) : ready[j] = id \/ \E i \in 1..Len(rest) : rest[i] = ready[j]
  <2>1. PICK k \in Nat : k = Len(rest) /\ Len(ready) = k + 1
    <3>1. Len(rest) \in Nat /\ Len(ready) = Len(rest) + 1
      BY <1>0, <1>1, <1>3
    <3> QED BY <3>1
  <2>2. ready[1] = id /\ \A i \in 1..k : rest[i] = ready[i + 1]
    BY <1>0, <1>1, <1>2, <1>3, <2>1
  <2>3. ASSUME NEW i \in 1..k PROVE \E j \in 1..(k + 1) : ready[j] = rest[i]
    <3>1. i + 1 \in 1..(k + 1)
      OBVIOUS
    <3> QED BY <2>2, <3>1
  <2>4. ASSUME NEW j \in 1..(k + 1), j # 1 PROVE \E i \in 1..k : rest[i] = ready[j]
    <3>1. PICK i \in 1..k : j = i + 1
      <4>1. j - 1 \in 1..k /\ j = (j - 1) + 1
        BY <2>4
      <4> QED BY <4>1
    <3> QED BY <2>2, <3>1
  <2>5. \A j \in 1..(k + 1) : j # 1 => \E i \in 1..k : rest[i] = ready[j]
    BY <2>4
  <2> QED BY <2>1, <2>2, <2>3, <2>5
<1>6. indegree[id] = 0 /\ \A i \in 1..Len(rest) : indegree[rest[i]] = 0
  <2>1. ready[1] = id /\ 1 \in 1..Len(ready)
    BY <1>0, <1>1, <1>2
  <2>2. \A i \in 1..Len(ready) : indegree[ready[i]] = 0
    BY DEF Sorting
  <2> QED BY <1>5, <2>1, <2>2
<1>7. \A x \in P \ seen : x # id /\ indegree[x] = 0 => \E i \in 1..Len(rest) : rest[i] = x
  BY <1>5 DEF Sorting
<1>8. CASE id \in seen
  <2>1. ready' = rest /\ UNCHANGED <<seen, ordered, indegree>>
    BY <1>2, <1>3, <1>8 DEF Pop
  <2>2. Lists(ordered, seen)' /\ Settled(ordered, P, Len(ordered))'
    BY <1>1, <2>1 DEF Sorting, Settled, Lists
  <2>3. \A x \in P : EdgesInto(x, P \ seen)' = EdgesInto(x, P \ seen)
    BY <1>1, <2>1 DEF EdgesInto
  <2>4. \A x \in P \ seen : indegree[x] = 0 => \E i \in 1..Len(rest) : rest[i] = x
    BY <1>7, <1>8
  <2>5. \A x \in P : indegree[x] = Cardinality(EdgesInto(x, P \ seen))
    BY DEF Sorting
  <2>6. seen \subseteq P /\ \A x \in seen : indegree[x] = 0
    BY DEF Sorting
  <2>7. \A x \in P : indegree'[x] = Cardinality(EdgesInto(x, P \ seen)')
    BY <2>1, <2>3, <2>5
  <2>8. \A x \in P \ seen' : indegree'[x] = 0 => \E i \in 1..Len(ready') : ready'[i] = x
    BY <2>1, <2>4
  <2>9. /\ ready' \in Seq(P) /\ seen' \subseteq P /\ \A x \in seen' : indegree'[x] = 0
        /\ \A i \in 1..Len(ready') : indegree'[ready'[i]] = 0
    BY <1>3, <1>6, <2>1, <2>6
  <2> QED BY <2>2, <2>7, <2>8, <2>9 DEF Sorting
<1>9. CASE id \notin seen
  <2>1. /\ seen' = seen \cup {id} /\ ordered' = Append(ordered, id)
        /\ indegree' = [x \in Addrs |-> IF x \in P THEN indegree[x] - edges[x][id] ELSE indegree[x]]
        /\ ready' = rest \o freed
    BY <1>2, <1>3, <1>4, <1>9 DEF Pop
  <2>2. P \ seen \in SUBSET Addrs /\ id \in P \ seen
    BY <1>1, <1>9
  <2>3. ASSUME NEW x \in P
        PROVE  /\ indegree'[x] = indegree[x] - edges[x][id]
               /\ indegree'[x] = Cardinality(EdgesInto(x, P \ seen)')
               /\ edges[x][id] \in Nat /\ indegree[x] \in Nat
               /\ indegree[x] = 0 => edges[x][id] = 0
    <3>1. indegree'[x] = indegree[x] - edges[x][id]
      BY <1>1, <2>1
    <3>2. Cardinality(EdgesInto(x, (P \ seen) \ {id})) = indegree[x] - edges[x][id]
      <4>1. indegree[x] = Cardinality(EdgesInto(x, P \ seen)) /\ x \in Addrs /\ InputOK
        BY <1>1 DEF Sorting
      <4>2. Cardinality(EdgesInto(x, (P \ seen) \ {id}))
              = Cardinality(EdgesInto(x, P \ seen)) - edges[x][id]
        BY <2>2, <4>1, EdgesLess
      <4> QED BY <4>1, <4>2
    <3>3. EdgesInto(x, P \ seen)' = EdgesInto(x, (P \ seen) \ {id})
      <4>1. (P \ seen)' = (P \ seen) \ {id}
        BY <2>1
      <4> QED BY <1>1, <4>1 DEF EdgesInto
    <3>4. edges[x][id] \in Nat
      BY <1>1, BoundsOK DEF InputOK
    <3>5. indegree[x] \in Nat
      BY <2>2, EdgesFinite DEF Sorting
    <3>6. indegree[x] = 0 => edges[x][id] = 0
      BY <1>1, <2>2, EdgesNone DEF Sorting
    <3> QED BY <3>1, <3>2, <3>3, <3>4, <3>5, <3>6
  <2>4. PICK F : F = {x \in P : edges[x][id] > 0 /\ indegree[x] = edges[x][id]}
    OBVIOUS
  <2>5. F \subseteq P /\ Lists(freed, F)
    BY <1>1, <1>4, <2>4, InOrderLists
  <2>6. freed \in Seq(P) /\ ready' \in Seq(P) /\ \A i \in 1..Len(freed) : freed[i] \in F
    BY <1>3, <2>1, <2>5 DEF Lists
  <2>7. /\ \A i \in 1..Len(ready') : (\E j \in 1..Len(rest) : ready'[i] = rest[j]) \/ ready'[i] \in F
        /\ \A j \in 1..Len(rest) : \E i \in 1..Len(ready') : ready'[i] = rest[j]
        /\ \A x \in F : \E i \in 1..Len(ready') : ready'[i] = x
    <3>1. PICK k \in Nat, l \in Nat : k = Len(rest) /\ l = Len(freed)
      <4>1. Len(rest) \in Nat /\ Len(freed) \in Nat
        BY <1>3, <2>6
      <4> QED BY <4>1
    <3>2. /\ Len(ready') = k + l /\ \A i \in 1..k : ready'[i] = rest[i]
          /\ \A i \in 1..l : ready'[k + i] = freed[i]
      BY <1>3, <2>1, <2>6, <3>1
    <3>3. \A i \in 1..(k + l) : i \in 1..k \/ (i - k \in 1..l /\ i = k + (i - k))
      OBVIOUS
    <3>4. (\A i \in 1..k : i \in 1..(k + l)) /\ \A i \in 1..l : k + i \in 1..(k + l)
      OBVIOUS
    <3>5. \A x \in F : \E i \in 1..l : freed[i] = x
      BY <2>5, <3>1 DEF Lists
    <3>6. ASSUME NEW i \in 1..(k + l)
          PROVE  (\E j \in 1..k : ready'[i] = rest[j]) \/ ready'[i] \in F
      <4>1. CASE i \in 1..k
        BY <3>2, <4>1
      <4>2. CASE i - k \in 1..l /\ i = k + (i - k)
        <5>1. ready'[i] = freed[i - k]
          BY <3>2, <4>2
        <5> QED BY <2>6, <3>1, <4>2, <5>1
      <4> QED BY <3>3, <4>1, <4>2
    <3>7. ASSUME NEW x \in F PROVE \E i \in 1..(k + l) : ready'[i] = x
      <4>1. PICK i \in 1..l : freed[i] = x
        BY <3>5
      <4> QED BY <3>2, <3>4, <4>1
    <3> QED BY <3>1, <3>2, <3>4, <3>6, <3>7
  <2>8. \A x \in P \ seen' : indegree'[x] = 0 => \E i \in 1..Len(ready') : ready'[i] = x
    <3>1. ASSUME NEW x \in P \ seen', indegree'[x] = 0 PROVE \E i \in 1..Len(ready') : ready'[i] = x
      <4>1. x \in P \ seen /\ x # id
        BY <2>1
      <4>2. indegree[x] = edges[x][id]
        BY <2>3, <3>1
      <4>3. CASE edges[x][id] = 0
        BY <1>7, <2>7, <4>1, <4>2, <4>3
      <4>4. CASE edges[x][id] > 0
        BY <2>4, <2>7, <4>2, <4>4
      <4> QED BY <2>3, <4>3, <4>4
    <3> QED BY <3>1
  <2>9. \A x \in P : indegree[x] = 0 => indegree'[x] = 0
    BY <2>3
  <2>10. \A x \in F : indegree'[x] = 0
    BY <2>3, <2>4
  <2>11. \A x \in seen' : indegree'[x] = 0
    BY <1>6, <2>1, <2>9 DEF Sorting
  <2>12. \A i \in 1..Len(ready') : indegree'[ready'[i]] = 0
    <3>1. ASSUME NEW i \in 1..Len(ready') PROVE indegree'[ready'[i]] = 0
      <4>1. CASE ready'[i] \in F
        BY <2>10, <4>1
      <4>2. CASE ready'[i] \notin F
        <5>1. PICK j \in 1..Len(rest) : ready'[i] = rest[j]
          BY <2>7, <4>2
        <5>2. rest[j] \in P
          BY <1>3
        <5> QED BY <1>6, <2>9, <5>1, <5>2
      <4> QED BY <4>1, <4>2
    <3> QED BY <3>1
  <2>13. Lists(ordered, seen)'
    <3>1. seen \cap {id} = {} /\ Lists(ordered, seen)
      BY <1>9 DEF Sorting
    <3>2. Lists(<<id>>, {id})
      BY DEF Lists
    <3>3. ordered' = ordered \o <<id>>
      BY <2>1, <3>1 DEF Lists
    <3>4. Lists(ordered', seen')
      BY <2>1, <3>1, <3>2, <3>3, JoinLists
    <3> QED BY <3>4 DEF Lists
  <2>14. Settled(ordered, P, Len(ordered))'
    <3>1. PICK k \in Nat : k = Len(ordered)
      BY DEF Sorting, Lists
    <3>2. Len(ordered') = k + 1 /\ ordered'[k + 1] = id /\ \A i \in 1..k : ordered'[i] = ordered[i]
      BY <2>1, <3>1 DEF Sorting, Lists
    <3>3. ASSUME NEW p \in 1..(k + 1), NEW d \in P, edges[ordered'[p]][d] > 0
          PROVE  \E r \in 1..(p - 1) : ordered'[r] = d
      <4>1. CASE p \in 1..k
        <5>1. PICK r \in 1..(p - 1) : ordered[r] = d
          BY <3>1, <3>2, <3>3, <4>1 DEF Sorting, Settled
        <5>2. r \in 1..k
          BY <4>1
        <5> QED BY <3>2, <5>1, <5>2
      <4>2. CASE p = k + 1
        <5>1. edges[id][d] > 0 /\ edges[id][d] # 0
          BY <3>2, <3>3, <4>2
        <5>0. Cardinality(EdgesInto(id, P \ seen)) = 0
          BY <1>6 DEF Sorting
        <5>2. d \notin P \ seen
          BY <1>1, <2>2, <5>0, <5>1, EdgesNone
        <5>3. PICK r \in 1..k : ordered[r] = d
          BY <3>1, <5>2 DEF Sorting, Lists
        <5>4. r \in 1..(p - 1)
          BY <4>2
        <5> QED BY <3>2, <5>3, <5>4
      <4> QED BY <4>1, <4>2
    <3> QED BY <1>1, <3>2, <3>3 DEF Settled
  <2>15. seen' \subseteq P
    BY <2>1 DEF Sorting
  <2> QED BY <2>3, <2>6, <2>8, <2>11, <2>12, <2>13, <2>14, <2>15 DEF Sorting
<1> QED BY <1>8, <1>9

LEMMA SortedKahn ==
  ASSUME InputOK, NEW s \in Halves, Sorting(Present(s)), ready = <<>>
  PROVE  \E m : Kahn(Sorted(s), Present(s), m)
<1>1. PICK P \in SUBSET Addrs : P = Present(s)
  BY DEF Present
<1>2. PICK t : t = InOrder(P \ seen)
  OBVIOUS
<1>3. PICK q : q = ordered \o t
  OBVIOUS
<1>4. seen \subseteq P /\ Lists(ordered, seen) /\ Lists(t, P \ seen)
  BY <1>1, <1>2, InOrderLists DEF Sorting
<1>5. Lists(q, P)
  <2>1. seen \cap (P \ seen) = {} /\ seen \cup (P \ seen) = P
    BY <1>4
  <2> QED BY <1>3, <1>4, <2>1, JoinLists
<1>6. PICK m \in Nat, l \in Nat : m = Len(ordered) /\ l = Len(t)
  BY <1>4 DEF Lists
<1>7. /\ Len(q) = m + l /\ \A i \in 1..m : q[i] = ordered[i]
      /\ \A i \in 1..l : q[m + i] = t[i]
  <2>1. ordered \in Seq(P) /\ t \in Seq(P)
    BY <1>4 DEF Lists
  <2> QED BY <1>3, <1>6, <2>1
<1>8. Settled(q, P, m)
  <2>1. ASSUME NEW p \in 1..m, NEW d \in P, edges[q[p]][d] > 0 PROVE \E r \in 1..(p - 1) : q[r] = d
    <3>1. PICK r \in 1..(p - 1) : ordered[r] = d
      BY <1>1, <1>6, <1>7, <2>1 DEF Sorting, Settled
    <3>2. r \in 1..m
      OBVIOUS
    <3> QED BY <1>7, <3>1, <3>2
  <2> QED BY <2>1 DEF Settled
<1>9. ASSUME NEW p \in (m + 1)..(m + l) PROVE \E r \in (m + 1)..(m + l) : edges[q[p]][q[r]] > 0
  <2>1. PICK i \in 1..l : i = p - m /\ p = m + i
    OBVIOUS
  <2>2. PICK x \in P \ seen : x = q[p]
    <3>1. t[i] \in P \ seen
      BY <1>4, <1>6 DEF Lists
    <3> QED BY <1>7, <2>1, <3>1
  <2>3. indegree[x] # 0
    BY <1>1, <2>2 DEF Sorting
  <2>4. PICK d \in P \ seen : edges[x][d] # 0
    <3>1. P \ seen \in SUBSET Addrs
      OBVIOUS
    <3> QED BY <1>1, <2>2, <2>3, <3>1, EdgesNone DEF Sorting
  <2>5. PICK j \in 1..l : t[j] = d
    BY <1>4, <1>6 DEF Lists
  <2>6. edges[x][d] > 0
    BY <2>4, BoundsOK DEF InputOK
  <2>7. m + j \in (m + 1)..(m + l) /\ q[m + j] = d
    BY <1>7, <2>5
  <2> QED BY <2>2, <2>6, <2>7
<1>10. Kahn(q, P, m)
  BY <1>5, <1>6, <1>7, <1>8, <1>9 DEF Kahn
<1> QED BY <1>1, <1>2, <1>3, <1>10 DEF Sorted

-----------------------------------------------------------------------------
(* The invariant *)

Inv ==
  /\ InputOK /\ side \in {"start", "done"} \cup Halves
  /\ side \in Halves => Sorting(Present(side))
  /\ side = "deletes" => \E m : Kahn(result, Present("upserts"), m)
  /\ side = "done" => \E a, b : /\ \E m : Kahn(a, Present("upserts"), m)
                                /\ \E m : Kahn(b, Present("deletes"), m)
                                /\ result = a \o Reverse(b)

LEMMA InitInv == Init => Inv
BY DEF Init, Inv, InputOK, Halves

LEMMA KahnKept ==
  ASSUME edges' = edges, NEW q, NEW P, NEW m, Kahn(q, P, m),
         NEW s, q = result', P = Present(s)'
  PROVE  Kahn(result, Present(s), m)'
BY DEF Kahn, Lists, Settled

\* a list that is no part of the state is sorted as long as the edges stay
LEMMA KahnStays ==
  ASSUME edges' = edges, NEW q, NEW P, NEW m, Kahn(q, P, m)
  PROVE  Kahn(q, P, m)'
<1>1. Settled(q, P, m)'
  BY DEF Kahn, Settled
<1>2. \A p \in (m + 1)..Len(q) : \E r \in (m + 1)..Len(q) : edges'[q[p]][q[r]] > 0
  BY DEF Kahn
<1>3. Lists(q, P) /\ m \in 0..Len(q)
  BY DEF Kahn
<1> QED BY <1>1, <1>2, <1>3 DEF Kahn, Lists

LEMMA NextInv == Inv /\ [Next]_vars => Inv'
<1> SUFFICES ASSUME Inv, [Next]_vars PROVE Inv'
  OBVIOUS
<1>1. UNCHANGED input
  BY DEF Next, vars, Begin, Pop, FinishUpserts, FinishDeletes
<1>2. PICK U, D : U = Present("upserts") /\ D = Present("deletes")
  OBVIOUS
<1>3. InputOK /\ InputOK' /\ Present("upserts")' = U /\ Present("deletes")' = D /\ edges' = edges
  BY <1>1, <1>2 DEF Inv, input, InputOK, Present
<1>4. CASE Begin
  <2>1. side' = "upserts" /\ StartSort("upserts") /\ "upserts" \in Halves
    BY <1>4 DEF Begin, StartSort, Halves
  <2>2. Sorting(U)'
    BY <1>1, <1>2, <1>3, <2>1, StartSorting
  <2>3. Sorting(Present(side))'
    BY <1>3, <2>1, <2>2
  <2> QED BY <1>3, <2>1, <2>3 DEF Inv
<1>5. CASE Pop
  <2>1. side \in Halves /\ side' = side /\ result' = result
    BY <1>5 DEF Pop, Halves
  <2>2. PICK P : P = Present(side) /\ P = Present(side)'
    BY <1>2, <1>3, <2>1 DEF Halves
  <2>3. Sorting(P)'
    BY <1>3, <1>5, <2>1, <2>2, PopSorting DEF Inv
  <2>4. ASSUME side = "deletes" PROVE \E m : Kahn(result, Present("upserts"), m)'
    <3>1. PICK r : r = result /\ r = result'
      BY <2>1
    <3>2. PICK m : Kahn(r, U, m)
      BY <1>2, <2>4, <3>1 DEF Inv
    <3>3. Kahn(result, Present("upserts"), m)'
      BY <1>3, <3>1, <3>2, KahnKept
    <3> QED BY <3>3
  <2>5. Sorting(Present(side))'
    BY <2>2, <2>3
  <2> QED BY <1>3, <2>1, <2>4, <2>5 DEF Inv, Halves
<1>6. CASE FinishUpserts
  <2>1. /\ side = "upserts" /\ ready = <<>> /\ result' = Sorted("upserts")
        /\ side' = "deletes" /\ StartSort("deletes") /\ {"upserts", "deletes"} \subseteq Halves
    BY <1>6 DEF FinishUpserts, StartSort, Halves
  <2>2. PICK q : q = Sorted("upserts")
    OBVIOUS
  <2>3. PICK m : Kahn(q, U, m)
    BY <1>2, <1>3, <2>1, <2>2, SortedKahn DEF Inv
  <2>4. Kahn(result, Present("upserts"), m)'
    BY <1>3, <2>1, <2>2, <2>3, KahnKept
  <2>5. Sorting(D)'
    BY <1>1, <1>2, <1>3, <2>1, StartSorting
  <2>6. Sorting(Present(side))'
    BY <1>3, <2>1, <2>5
  <2> QED BY <1>3, <2>1, <2>4, <2>6 DEF Inv
<1>7. CASE FinishDeletes
  <2>1. /\ side = "deletes" /\ ready = <<>> /\ side' = "done" /\ "deletes" \in Halves
        /\ result' = result \o Reverse(Sorted("deletes"))
    BY <1>7 DEF FinishDeletes, Halves
  <2>2. PICK a, b : a = result /\ b = Sorted("deletes")
    OBVIOUS
  <2>3. \E m : Kahn(a, U, m)
    BY <1>2, <2>1, <2>2 DEF Inv
  <2>4. \E m : Kahn(b, D, m)
    BY <1>2, <1>3, <2>1, <2>2, SortedKahn DEF Inv
  <2>5. \A q, P, m : Kahn(q, P, m) => Kahn(q, P, m)'
    BY <1>3, KahnStays
  <2>6. (\E m : Kahn(a, Present("upserts"), m)') /\ \E m : Kahn(b, Present("deletes"), m)'
    BY <1>3, <2>3, <2>4, <2>5
  <2>7. result' = a \o Reverse(b)
    BY <2>1, <2>2
  <2> QED BY <1>3, <2>1, <2>6, <2>7 DEF Inv, Halves
<1>8. CASE UNCHANGED vars
  <2>1. UNCHANGED <<edges, side, indegree, ready, seen, ordered, result>>
    BY <1>8 DEF vars, input, sorter
  <2>2. \A q, P, m : Kahn(q, P, m) => Kahn(q, P, m)'
    BY <2>1, KahnStays
  <2>3. ASSUME side \in Halves PROVE Sorting(Present(side))'
    <3>1. PICK P : P = Present(side) /\ P = Present(side)'
      BY <1>2, <1>3, <2>1, <2>3 DEF Halves
    <3>2. Sorting(P)
      BY <2>3, <3>1 DEF Inv
    <3>3. \A x : EdgesInto(x, P \ seen)' = EdgesInto(x, P \ seen)
      BY <2>1 DEF EdgesInto
    <3>4. Sorting(P)'
      <4>1. Lists(ordered, seen)' /\ Settled(ordered, P, Len(ordered))'
        BY <2>1, <3>2 DEF Sorting, Lists, Settled
      <4>2. \A x \in P : indegree'[x] = Cardinality(EdgesInto(x, P \ seen)')
        BY <2>1, <3>2, <3>3 DEF Sorting
      <4>3. /\ seen' \subseteq P /\ ready' \in Seq(P) /\ \A x \in seen' : indegree'[x] = 0
            /\ \A x \in P \ seen' : indegree'[x] = 0 => \E i \in 1..Len(ready') : ready'[i] = x
            /\ \A i \in 1..Len(ready') : indegree'[ready'[i]] = 0
        BY <2>1, <3>2 DEF Sorting
      <4> QED BY <4>1, <4>2, <4>3 DEF Sorting
    <3> QED BY <3>1, <3>4
  <2>4. ASSUME side = "deletes" PROVE \E m : Kahn(result, Present("upserts"), m)'
    <3>1. PICK r : r = result /\ r = result'
      BY <2>1
    <3>2. PICK m : Kahn(r, U, m)
      BY <1>2, <2>4, <3>1 DEF Inv
    <3>3. Kahn(result, Present("upserts"), m)'
      BY <1>3, <3>1, <3>2, KahnKept
    <3> QED BY <3>3
  <2>5. ASSUME side = "done"
        PROVE  \E a, b : /\ \E m : Kahn(a, Present("upserts"), m)'
                         /\ \E m : Kahn(b, Present("deletes"), m)'
                         /\ result' = a \o Reverse(b)
    <3>1. PICK a, b : (\E m : Kahn(a, U, m)) /\ (\E m : Kahn(b, D, m)) /\ result = a \o Reverse(b)
      BY <1>2, <2>5 DEF Inv
    <3>2. (\E m : Kahn(a, Present("upserts"), m)') /\ \E m : Kahn(b, Present("deletes"), m)'
      BY <1>3, <2>2, <3>1
    <3> QED BY <2>1, <3>1, <3>2
  <2> QED BY <1>3, <2>1, <2>3, <2>4, <2>5 DEF Inv
<1> QED BY <1>4, <1>5, <1>6, <1>7, <1>8 DEF Next

LEMMA SpecInv == Spec => []Inv
BY InitInv, NextInv, PTL DEF Spec

-----------------------------------------------------------------------------
(* The result *)

\* the halves have the addresses of the plan between them
LEMMA TwoHalves ==
  ASSUME InputOK
  PROVE  /\ Present("upserts") \in SUBSET Addrs /\ Present("deletes") \in SUBSET Addrs
         /\ Present("upserts") \cap Present("deletes") = {}
         /\ Present("upserts") \cup Present("deletes") = Addrs
         /\ \A x \in Addrs : x \in Present("deletes") <=> action[x] = "delete"
BY DEF Present, InputOK

(* Every change of a plan comes out of the sort exactly once, even when    *)
(* references form a cycle (orderForApply).                                *)
THEOREM ChangesComeOnce == Spec => []EachChangeOnce
<1>1. ASSUME Inv PROVE EachChangeOnce
  <2>1. SUFFICES ASSUME side = "done" PROVE Len(result) = N /\ ToSet(result) = Addrs
    BY DEF EachChangeOnce
  <2>2. InputOK
    BY <1>1 DEF Inv
  <2>3. PICK a, b : /\ \E m : Kahn(a, Present("upserts"), m)
                    /\ \E m : Kahn(b, Present("deletes"), m)
                    /\ result = a \o Reverse(b)
    BY <1>1, <2>1 DEF Inv
  <2>4. Lists(a, Present("upserts")) /\ Lists(Reverse(b), Present("deletes"))
    BY <2>3, ReverseLists DEF Kahn
  <2>5. Lists(result, Addrs)
    BY <2>2, <2>3, <2>4, TwoHalves, JoinLists
  <2>6. Cardinality(Addrs) = N
    BY FS_Interval, BoundsOK DEF Addrs
  <2>7. Len(result) = N
    BY <2>5, <2>6, ListLen
  <2>8. ToSet(result) = Addrs
    <3>1. result \in Seq(Addrs) /\ DOMAIN result = 1..Len(result)
      BY <2>5 DEF Lists
    <3>2. \A i \in 1..Len(result) : result[i] \in Addrs
      BY <3>1
    <3>3. \A x \in Addrs : \E i \in 1..Len(result) : result[i] = x
      BY <2>5 DEF Lists
    <3> QED BY <3>1, <3>2, <3>3 DEF ToSet
  <2> QED BY <2>7, <2>8
<1>2. Inv => EachChangeOnce
  BY <1>1
<1> QED BY <1>2, SpecInv, PTL

\* the changes behind place m of a sorted half are those that reach a cycle
LEMMA CycleIsTail ==
  ASSUME InputOK, NEW P \in SUBSET Addrs, NEW q, NEW m, Kahn(q, P, m), NEW p \in 1..Len(q)
  PROVE  AsChange(q[p]) \in OnCycle(AsChanges(P), NeedsOf(Addrs)) <=> p > m
<1>1. PICK n \in Nat : n = Len(q)
  BY DEF Kahn, Lists
<1>2. m \in 0..n /\ \A i \in 1..n : q[i] \in P
  BY <1>1 DEF Kahn, Lists
<1>3. PICK needs : needs = NeedsOf(Addrs)
  OBVIOUS
<1>4. \A x \in Addrs : needs[AsChange(x)] = {d \in Addrs : edges[x][d] > 0}
  BY <1>3 DEF NeedsOf, AsChanges, AsChange
<1>5. \A x, y \in Addrs : AsChange(y).addr = y /\ (AsChange(x) = AsChange(y) => x = y)
  BY DEF AsChange
<1>6. ASSUME p > m PROVE AsChange(q[p]) \in OnCycle(AsChanges(P), needs)
  <2>1. PICK X : X = {AsChange(q[i]) : i \in (m + 1)..n}
    OBVIOUS
  <2>2. \A i \in (m + 1)..n : i \in 1..n
    BY <1>2
  <2>3. X \in SUBSET AsChanges(P)
    BY <1>2, <2>1, <2>2 DEF AsChanges
  <2>4. ASSUME NEW x \in X PROVE \E y \in X : y.addr \in needs[x]
    <3>1. PICK i \in (m + 1)..n : x = AsChange(q[i])
      BY <2>1
    <3>2. PICK r \in (m + 1)..n : edges[q[i]][q[r]] > 0
      BY <1>1, <3>1 DEF Kahn
    <3>3. q[i] \in Addrs /\ q[r] \in Addrs
      BY <1>2, <2>2
    <3>4. q[r] \in needs[x]
      BY <1>4, <3>1, <3>2, <3>3
    <3> QED BY <1>5, <2>1, <3>3, <3>4
  <2>5. AsChange(q[p]) \in X
    <3>1. p \in (m + 1)..n
      BY <1>1, <1>2, <1>6
    <3> QED BY <2>1, <3>1
  <2> QED BY <2>3, <2>4, <2>5 DEF OnCycle
<1>7. ASSUME AsChange(q[p]) \in OnCycle(AsChanges(P), needs), p <= m PROVE FALSE
  <2>1. PICK X \in SUBSET AsChanges(P) : /\ AsChange(q[p]) \in X
                                         /\ \A x \in X : \E y \in X : y.addr \in needs[x]
    BY <1>7 DEF OnCycle
  <2>2. PICK Early : Early = {i \in 1..m : AsChange(q[i]) \in X}
    OBVIOUS
  <2>3. p \in Early /\ Early \subseteq Nat
    BY <1>2, <1>7, <2>1, <2>2
  <2>4. PICK i \in Early : \A j \in Early : i <= j
    BY <2>3, LeastNat
  <2>5. i \in 1..m /\ AsChange(q[i]) \in X /\ q[i] \in Addrs
    BY <1>2, <2>2
  <2>6. PICK y \in X : y.addr \in needs[AsChange(q[i])]
    BY <2>1, <2>5
  <2>7. PICK d \in P : y = AsChange(d) /\ y.addr = d
    BY <1>5, <2>1 DEF AsChanges
  <2>8. edges[q[i]][d] > 0
    BY <1>4, <2>5, <2>6, <2>7
  <2>9. PICK r \in 1..(i - 1) : q[r] = d
    BY <2>5, <2>8 DEF Kahn, Settled
  <2>10. r \in 1..m /\ ~ (i <= r)
    BY <1>2, <2>5
  <2>11. r \in Early
    BY <2>2, <2>7, <2>9, <2>10
  <2> QED BY <2>4, <2>10, <2>11
<1>8. p \in Int /\ m \in Int
  BY <1>1, <1>2
<1> QED BY <1>3, <1>6, <1>7, <1>8

LEMMA CyclesOfHalves ==
  ASSUME InputOK
  PROVE  /\ Upserts(AsChanges(Addrs)) = AsChanges(Present("upserts"))
         /\ Deletes(AsChanges(Addrs)) = AsChanges(Present("deletes"))
         /\ \A needs : \A S \in SUBSET Addrs : OnCycle(AsChanges(S), needs) \subseteq AsChanges(S)
<1>1. \A x \in Addrs : AsChange(x).action = action[x]
  BY DEF AsChange
<1>2. \A S, needs : OnCycle(S, needs) \subseteq S
  BY DEF OnCycle
<1>3. Upserts(AsChanges(Addrs)) = AsChanges(Present("upserts"))
  BY <1>1 DEF Upserts, AsChanges, Present
<1>4. Deletes(AsChanges(Addrs)) = AsChanges(Present("deletes"))
  BY <1>1 DEF Deletes, AsChanges, Present
<1> QED BY <1>2, <1>3, <1>4

(* Each change of the result may come first among those from it on:        *)
(* upserts after what they depend on, deletes before it, and what reaches  *)
(* a cycle out of the way of the rest (topoSort, orderForApply).           *)
THEOREM OrderAlwaysLegal == Spec => []OrderIsLegal
<1>1. ASSUME Inv PROVE OrderIsLegal
  <2>1. SUFFICES
          ASSUME side = "done", NEW cyc, cyc = Unsorted(AsChanges(Addrs), NeedsOf(Addrs)), NEW p \in 1..N
          PROVE  MayPrecede(AsChange(result[p]), AsChanges(From(p)), cyc, NeedsOf(From(p)))
    BY DEF OrderIsLegal
  <2>2. InputOK
    BY <1>1 DEF Inv
  <2>3. PICK U \in SUBSET Addrs, D \in SUBSET Addrs : U = Present("upserts") /\ D = Present("deletes")
    BY <2>2, TwoHalves
  <2>4. PICK a, b, ma, mb : Kahn(a, U, ma) /\ Kahn(b, D, mb) /\ result = a \o Reverse(b)
    BY <1>1, <2>1, <2>3 DEF Inv
  <2>5. PICK k \in Nat, l \in Nat : k = Len(a) /\ l = Len(b)
    BY <2>4 DEF Kahn, Lists
  <2>6. /\ N = k + l
        /\ \A i \in 1..k : result[i] = a[i] /\ a[i] \in U
        /\ \A i \in 1..l : result[k + i] = b[(l - i) + 1] /\ b[i] \in D
    <3>1. Lists(a, U) /\ Lists(b, D)
      BY <2>4 DEF Kahn
    <3>2. PICK c : c = Reverse(b)
      OBVIOUS
    <3>3. Lists(c, D) /\ Len(c) = l /\ \A i \in 1..l : c[i] = b[(l - i) + 1]
      BY <2>5, <3>1, <3>2, ReverseLists
    <3>4. a \in Seq(Addrs) /\ c \in Seq(Addrs)
      BY <3>1, <3>3 DEF Lists
    <3>5. result = a \o c
      BY <2>4, <3>2
    <3>6. /\ Len(result) = k + l /\ \A i \in 1..k : result[i] = a[i]
          /\ \A i \in 1..l : result[k + i] = c[i]
      <4>1. k = Len(a) /\ l = Len(c)
        BY <2>5, <3>3
      <4>2. /\ Len(a \o c) = k + l /\ \A i \in 1..k : (a \o c)[i] = a[i]
            /\ \A i \in 1..l : (a \o c)[k + i] = c[i]
        BY <3>4, <4>1, Joined
      <4> QED BY <3>5, <4>2
    <3>7. Lists(result, Addrs)
      BY <2>2, <2>3, <3>1, <3>3, <3>5, TwoHalves, JoinLists
    <3>8. Cardinality(Addrs) = N
      BY FS_Interval, BoundsOK DEF Addrs
    <3>9. N = k + l
      BY <3>6, <3>7, <3>8, ListLen
    <3>10. \A i \in 1..k : result[i] = a[i] /\ a[i] \in U
      BY <2>5, <3>1, <3>6 DEF Lists
    <3>11. \A i \in 1..l : b[i] \in D
      BY <2>5, <3>1 DEF Lists
    <3> QED BY <3>3, <3>6, <3>9, <3>10, <3>11
  <2>7. /\ ma \in 0..k /\ mb \in 0..l
    BY <2>4, <2>5 DEF Kahn
  <2>8. ASSUME NEW i \in 1..k PROVE AsChange(a[i]) \in cyc <=> i > ma
    <3>1. AsChange(a[i]) \in OnCycle(AsChanges(U), NeedsOf(Addrs)) <=> i > ma
      BY <2>2, <2>4, <2>5, CycleIsTail
    <3>2. AsChange(a[i]) \notin AsChanges(D)
      <4>1. a[i] \notin D
        BY <2>2, <2>3, <2>6, TwoHalves
      <4> QED BY <4>1 DEF AsChanges, AsChange
    <3> QED BY <2>1, <2>2, <2>3, <3>1, <3>2, CyclesOfHalves DEF Unsorted
  <2>9. ASSUME NEW i \in 1..l PROVE AsChange(b[i]) \in cyc <=> i > mb
    <3>1. AsChange(b[i]) \in OnCycle(AsChanges(D), NeedsOf(Addrs)) <=> i > mb
      BY <2>2, <2>4, <2>5, CycleIsTail
    <3>2. AsChange(b[i]) \notin AsChanges(U)
      <4>1. b[i] \notin U
        BY <2>2, <2>3, <2>6, TwoHalves
      <4> QED BY <4>1 DEF AsChanges, AsChange
    <3> QED BY <2>1, <2>2, <2>3, <3>1, <3>2, CyclesOfHalves DEF Unsorted
  <2>10. PICK rest : rest = AsChanges(From(p))
    OBVIOUS
  <2>11. ASSUME NEW y \in rest
         PROVE  \E q \in p..N : y = AsChange(result[q]) /\ y.addr = result[q] /\ y.action = action[result[q]]
    BY <2>10 DEF AsChanges, From, AsChange
  <2>12. PICK needs : needs = NeedsOf(From(p))
    OBVIOUS
  <2>13. ASSUME NEW y \in rest PROVE needs[y] = {d \in Addrs : edges[y.addr][d] > 0}
    BY <2>10, <2>12 DEF NeedsOf
  <2>14. AsChange(result[p]) \in rest
    <3>1. p \in p..N
      BY <2>6
    <3> QED BY <2>10, <3>1 DEF AsChanges, From
  <2>15. CASE p \in 1..k
    <3>1. PICK x : x = AsChange(a[p]) /\ x = AsChange(result[p]) /\ x.addr = a[p]
      <4>1. result[p] = a[p] /\ AsChange(a[p]).addr = a[p]
        BY <2>6, <2>15 DEF AsChange
      <4> QED BY <4>1
    <3>2. x.action # "delete"
      BY <2>2, <2>3, <2>6, <2>15, <3>1, TwoHalves DEF AsChange
    <3>3. ASSUME NEW y \in Upserts(rest) PROVE \E q \in p..k : y = AsChange(a[q]) /\ y.addr = a[q]
      <4>1. PICK q \in p..N : y = AsChange(result[q]) /\ y.addr = result[q] /\ action[result[q]] # "delete"
        BY <2>11 DEF Upserts
      <4>2. CASE q \in 1..k
        BY <2>6, <2>15, <4>1, <4>2
      <4>3. CASE q \notin 1..k
        <5>1. PICK i \in 1..l : q = k + i
          <6>1. q - k \in 1..l /\ q = k + (q - k)
            BY <2>6, <2>15, <4>3
          <6> QED BY <6>1
        <5>2. (l - i) + 1 \in 1..l
          OBVIOUS
        <5>3. result[q] \in D
          BY <2>6, <5>1, <5>2
        <5> QED BY <2>2, <2>3, <4>1, <5>3, TwoHalves
      <4> QED BY <4>2, <4>3
    <3>4. CASE x \in cyc
      <4>1. p > ma
        BY <2>8, <2>15, <3>1, <3>4
      <4>2. ASSUME NEW y \in Upserts(rest) PROVE y \in cyc
        <5>1. PICK q \in p..k : y = AsChange(a[q])
          BY <3>3
        <5>2. q \in 1..k /\ q > ma
          BY <2>7, <2>15, <4>1
        <5> QED BY <2>8, <5>1, <5>2
      <4> QED BY <2>10, <3>1, <3>2, <3>4, <4>2 DEF MayPrecede
    <3>5. CASE x \notin cyc
      <4>1. p \in 1..ma
        <5>1. ~ (p > ma)
          BY <2>8, <2>15, <3>1, <3>5
        <5> QED BY <2>7, <2>15, <5>1
      <4>2. ASSUME NEW y \in Upserts(rest), y.addr \in needs[x] PROVE FALSE
        <5>1. PICK q \in p..k : y.addr = a[q]
          BY <3>3
        <5>2. q \in 1..k /\ a[q] \in U
          BY <2>6, <2>15
        <5>3. edges[a[p]][a[q]] > 0
          BY <2>13, <2>14, <3>1, <4>2, <5>1
        <5>4. PICK r \in 1..(p - 1) : a[r] = a[q]
          BY <2>4, <4>1, <5>2, <5>3 DEF Kahn, Settled
        <5>5. r \in 1..k /\ r # q
          BY <2>15
        <5> QED BY <2>4, <2>5, <5>2, <5>4, <5>5 DEF Kahn, Lists
      <4> QED BY <2>10, <2>12, <3>1, <3>2, <3>5, <4>2 DEF MayPrecede
    <3> QED BY <3>4, <3>5
  <2>16. CASE p \notin 1..k
    \* behind the upserts, the deletes in reverse: their places in b
    <3>1. PICK i \in 1..l : i = (N - p) + 1 /\ p = k + ((l - i) + 1)
      <4>1. (N - p) + 1 \in 1..l /\ p = k + ((l - ((N - p) + 1)) + 1)
        BY <2>6, <2>16
      <4> QED BY <4>1
    <3>2. ASSUME NEW q \in p..N PROVE \E j \in 1..i : result[q] = b[j]
      <4>1. PICK j \in 1..i : j = (N - q) + 1 /\ q = k + ((l - j) + 1)
        <5>1. (N - q) + 1 \in 1..i /\ q = k + ((l - ((N - q) + 1)) + 1)
          BY <2>6, <3>1
        <5> QED BY <5>1
      <4>2. PICK n \in 1..l : n = (l - j) + 1 /\ (l - n) + 1 = j
        <5>1. (l - j) + 1 \in 1..l /\ (l - ((l - j) + 1)) + 1 = j
          BY <4>1
        <5> QED BY <5>1
      <4>3. result[k + n] = b[j]
        BY <2>6, <4>2
      <4> QED BY <4>1, <4>2, <4>3
    <3>3. result[p] = b[i]
      <4>1. PICK n \in 1..l : n = (l - i) + 1 /\ (l - n) + 1 = i
        <5>1. (l - i) + 1 \in 1..l /\ (l - ((l - i) + 1)) + 1 = i
          BY <3>1
        <5> QED BY <5>1
      <4>2. result[k + n] = b[i]
        BY <2>6, <4>1
      <4> QED BY <3>1, <4>1, <4>2
    <3>4. PICK x : x = AsChange(b[i]) /\ x = AsChange(result[p]) /\ x.addr = b[i]
      <4>1. AsChange(b[i]).addr = b[i]
        BY DEF AsChange
      <4> QED BY <3>3, <4>1
    <3>5. ASSUME NEW y \in rest
          PROVE  \E j \in 1..i : y = AsChange(b[j]) /\ y.addr = b[j] /\ y.action = "delete"
      <4>1. PICK q \in p..N : y = AsChange(result[q]) /\ y.addr = result[q] /\ y.action = action[result[q]]
        BY <2>11
      <4>2. PICK j \in 1..i : result[q] = b[j]
        BY <3>2
      <4>3. action[b[j]] = "delete"
        <5>1. j \in 1..l
          BY <4>2
        <5>2. b[j] \in D
          BY <2>6, <5>1
        <5> QED BY <2>2, <2>3, <5>2, TwoHalves
      <4> QED BY <4>1, <4>2, <4>3
    <3>6. x.action = "delete" /\ Upserts(rest) = {}
      BY <2>14, <3>4, <3>5 DEF Upserts
    <3>7. ASSUME x \notin cyc, NEW y \in rest PROVE y \notin cyc /\ x.addr \notin needs[y]
      <4>1. i \in 1..mb
        <5>1. ~ (i > mb)
          BY <2>9, <3>4, <3>7
        <5> QED BY <2>7, <5>1
      <4>2. PICK j \in 1..i : y = AsChange(b[j]) /\ y.addr = b[j]
        BY <3>5
      <4>3. j \in 1..l /\ j \in 1..mb
        BY <2>7, <4>1
      <4>4. y \notin cyc
        BY <2>7, <2>9, <4>2, <4>3
      <4>5. ASSUME x.addr \in needs[y] PROVE FALSE
        <5>1. edges[b[j]][b[i]] > 0
          BY <2>13, <3>4, <4>2, <4>5
        <5>2. b[i] \in D
          BY <2>6
        <5>3. PICK r \in 1..(j - 1) : b[r] = b[i]
          BY <2>4, <4>3, <5>1, <5>2 DEF Kahn, Settled
        <5>4. r \in 1..l /\ r # i
          BY <4>3
        <5> QED BY <2>4, <2>5, <5>3, <5>4 DEF Kahn, Lists
      <4> QED BY <4>4, <4>5
    <3> QED BY <2>10, <2>12, <3>4, <3>6, <3>7 DEF MayPrecede
  <2> QED BY <2>15, <2>16
<1>2. Inv => OrderIsLegal
  BY <1>1
<1> QED BY <1>2, SpecInv, PTL
=============================================================================
