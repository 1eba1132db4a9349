---------------------------- MODULE Orders_proofs ----------------------------
(* Lemmas about sequences by rank: that the n-th of a set exists, and that   *)
(* what is chosen of a sequence, or put together of several, has each        *)
(* element once and nothing else.                                            *)
EXTENDS Orders, FiniteSetTheorems, WellFoundedInduction, TLAPS

Less == {ss \in Nat \X Nat : ss[1] < ss[2]}

\* A set of naturals has a least element, and a bounded one a greatest.
LEMMA Smallest == ASSUME NEW T \in SUBSET Nat, T # {} PROVE \E x \in T : \A y \in T : x <= y
PROOF
<1>1. IsWellFoundedOn(Less, Nat)
  BY NatLessThanWellFounded DEF OpToRel, Less
<1>2. PICK x \in T : \A y \in T : ~(<<y, x>> \in Less)
  BY <1>1, WFMin
<1>3. \A y \in T : ~(y < x)
  BY <1>2 DEF Less
<1>4. QED
  BY <1>3

LEMMA Largest == ASSUME NEW N \in Nat, NEW T \in SUBSET (1..N), T # {} PROVE \E x \in T : \A y \in T : y <= x
PROOF
<1> DEFINE below == {z \in Nat : \E y \in T : z = N - y}
<1>1. \A y \in T : N - y \in below
  OBVIOUS
<1>2. PICK z \in below : \A w \in below : z <= w
  <2>1. below \in SUBSET Nat /\ below # {}
    BY <1>1
  <2>2. QED
    BY <2>1, Smallest
<1>3. PICK x \in T : z = N - x
  BY <1>2
<1>4. \A y \in T : N - x <= N - y
  BY <1>1, <1>2, <1>3
<1>5. QED
  BY <1>4

\* Counted from the greatest down, each rank has its number.
LEMMA NthExists ==
  ASSUME NEW N \in Nat, NEW S \in SUBSET (1..N)
  PROVE  /\ IsFiniteSet(S) /\ Cardinality(S) \in Nat
         /\ \A n \in 1..Cardinality(S) : \E i \in S : Cardinality({j \in S : j >= i}) = n
PROOF
<1> DEFINE From(i) == {j \in S : j >= i}
           bad == {n \in 1..Cardinality(S) : ~ \E i \in S : Cardinality(From(i)) = n}
<1>1. IsFiniteSet(S) /\ Cardinality(S) \in Nat
  <2>1. IsFiniteSet(1..N)
    BY FS_Interval
  <2>2. QED
    BY <2>1, FS_Subset, FS_CardinalityType
<1>2. ASSUME bad # {} PROVE FALSE
  <2>1. PICK n \in bad : \A m \in bad : n <= m
    <3>1. bad \in SUBSET Nat
      BY <1>1
    <3>2. QED
      BY <1>2, <3>1, Smallest
  <2>2. CASE n = 1
    <3>1. S # {}
      BY <2>2, FS_EmptySet
    <3>2. PICK i \in S : \A j \in S : j <= i
      BY <3>1, Largest
    <3>3. From(i) = {i}
      <4>1. \A j \in S : j >= i <=> j = i
        BY <3>2
      <4>2. QED
        BY <4>1
    <3>4. QED
      BY <2>2, <3>3, FS_Singleton
  <2>3. CASE n > 1
    <3>1. n - 1 \in 1..Cardinality(S) /\ n - 1 \notin bad
      BY <1>1, <2>1, <2>3
    <3>2. PICK i \in S : Cardinality(From(i)) = n - 1
      BY <3>1
    <3>3. IsFiniteSet(From(i)) /\ From(i) # S
      BY <1>1, <2>1, <3>2, FS_Subset
    <3>4. PICK m \in S \ From(i) : \A j \in S \ From(i) : j <= m
      <4>1. S \ From(i) \in SUBSET (1..N) /\ S \ From(i) # {}
        BY <3>3
      <4>2. QED
        BY <4>1, Largest
    <3>5. From(m) = From(i) \cup {m} /\ m \notin From(i)
      <4>1. \A j \in S : j >= m <=> j >= i \/ j = m
        BY <3>2, <3>4
      <4>2. QED
        BY <3>4, <4>1
    <3>6. Cardinality(From(m)) = Cardinality(From(i)) + 1
      BY <3>3, <3>5, FS_AddElement
    <3>7. QED
      BY <2>1, <3>2, <3>4, <3>6
  <2>4. QED
    BY <2>1, <2>2, <2>3, <1>1
<1>3. QED
  BY <1>1, <1>2

-----------------------------------------------------------------------------
\* Each element of S has its own of a chain of subsets; their sizes are its ranks.
IsChain(S, D) ==
    /\ D \in [S -> SUBSET S] /\ \A x \in S : D[x] # {}
    /\ \A x, z \in S : x # z => D[x] # D[z] /\ (D[x] \subseteq D[z] \/ D[z] \subseteq D[x])

AreRanks(S, D) ==
    /\ \A x \in S : Cardinality(D[x]) \in 1..Cardinality(S)
    /\ \A x, z \in S : Cardinality(D[x]) = Cardinality(D[z]) => x = z
    /\ \A n \in 1..Cardinality(S) : \E x \in S : Cardinality(D[x]) = n

\* Each element of a finite set has a rank of its own, and each rank its element.
LEMMA RanksAreOneToOne ==
  ASSUME NEW S, IsFiniteSet(S), NEW D, IsChain(S, D)
  PROVE  Cardinality(S) \in Nat /\ AreRanks(S, D)
PROOF
<1> USE DEF IsChain
<1> DEFINE rank == [x \in S |-> Cardinality(D[x])]
<1>1. Cardinality(S) \in Nat
  BY FS_CardinalityType
<1>2. ASSUME NEW x \in S PROVE IsFiniteSet(D[x]) /\ rank[x] \in 1..Cardinality(S) /\ rank[x] = Cardinality(D[x])
  <2>1. D[x] \subseteq S
    OBVIOUS
  <2>2. IsFiniteSet(D[x]) /\ Cardinality(D[x]) <= Cardinality(S)
    BY <2>1, FS_Subset
  <2>3. Cardinality(D[x]) \in Nat /\ Cardinality(D[x]) # 0
    BY <2>1, <2>2, FS_CardinalityType, FS_EmptySet
  <2>4. QED
    BY <1>1, <2>2, <2>3
<1>3. ASSUME NEW x \in S, NEW z \in S, D[x] \subseteq D[z], D[x] # D[z] PROVE rank[x] # rank[z]
  BY <1>2, <1>3, FS_Subset
<1>4. \A x, z \in S : rank[x] = rank[z] => x = z
  <2> HIDE DEF rank
  <2>1. QED
    BY <1>3
<1>5. \A n \in 1..Cardinality(S) : \E x \in S : rank[x] = n
  <2>1. rank \in Injection(S, 1..Cardinality(S))
    BY <1>2, <1>4 DEF Injection, IsInjective
  <2>2. IsFiniteSet(1..Cardinality(S)) /\ Cardinality(1..Cardinality(S)) = Cardinality(S)
    BY <1>1, FS_Interval
  <2>3. rank \in Surjection(S, 1..Cardinality(S))
    BY <2>1, <2>2, FS_Injection
  <2>4. QED
    BY <2>3 DEF Surjection
<1>6. QED
  BY <1>1, <1>2, <1>4, <1>5 DEF AreRanks

\* InOrder numbers a finite set of numbers.
LEMMA InOrderNumbers ==
  ASSUME NEW S \in SUBSET Nat, IsFiniteSet(S)
  PROVE  /\ Cardinality(S) \in Nat
         /\ InOrder(S) \in [1..Cardinality(S) -> S]
         /\ \A m, n \in 1..Cardinality(S) : InOrder(S)[m] = InOrder(S)[n] => m = n
         /\ \A i \in S : \E n \in 1..Cardinality(S) : InOrder(S)[n] = i
PROOF
<1> DEFINE D == [i \in S |-> {k \in S : k <= i}]
           Rank(i) == Cardinality({k \in S : k <= i})
<1>1. \A i \in S : D[i] = {k \in S : k <= i} /\ i \in D[i]
  OBVIOUS
<1>2. IsChain(S, D)
  <2>1. ASSUME NEW x \in S, NEW z \in S, x < z PROVE D[x] # D[z] /\ D[x] \subseteq D[z]
    <3>1. z \in D[z] /\ z \notin D[x]
      BY <2>1
    <3>2. ASSUME NEW k \in S, k <= x PROVE k <= z
      BY <2>1, <3>2
    <3>3. D[x] \subseteq D[z]
      BY <3>2
    <3>4. QED
      BY <3>1, <3>3
  <2>2. \A x, z \in S : x # z => x < z \/ z < x
    OBVIOUS
  <2>3. D \in [S -> SUBSET S] /\ \A x \in S : D[x] # {}
    BY <1>1
  <2> HIDE DEF D
  <2>4. QED
    BY <2>1, <2>2, <2>3 DEF IsChain
<1> HIDE DEF D
<1>3. /\ Cardinality(S) \in Nat
      /\ \A x \in S : Rank(x) \in 1..Cardinality(S)
      /\ \A x, z \in S : Rank(x) = Rank(z) => x = z
      /\ \A n \in 1..Cardinality(S) : \E x \in S : Rank(x) = n
  <2>1. Cardinality(S) \in Nat /\ AreRanks(S, D)
    BY <1>2, RanksAreOneToOne
  <2>2. \A x \in S : Rank(x) = Cardinality(D[x])
    BY <1>1
  <2> HIDE DEF Rank
  <2>3. QED
    BY <2>1, <2>2 DEF AreRanks
<1>4. InOrder(S) = [n \in 1..Cardinality(S) |-> CHOOSE i \in S : Rank(i) = n]
  BY DEF InOrder
<1> HIDE DEF Rank
<1>5. \A n \in 1..Cardinality(S) : InOrder(S)[n] \in S /\ Rank(InOrder(S)[n]) = n
  BY <1>3, <1>4
<1>6. \A i \in S : \E n \in 1..Cardinality(S) : InOrder(S)[n] = i
  BY <1>3, <1>5
<1>7. QED
  BY <1>3, <1>4, <1>5, <1>6

LEMMA NumberedIsSeq ==
  ASSUME NEW R, NEW n \in Nat, NEW t \in [1..n -> R]
  PROVE  t \in Seq(R) /\ Len(t) = n /\ DOMAIN t = 1..n
PROOF
OBVIOUS

\* A filter keeps the elements at its positions, each once.
LEMMA ChosenElements ==
  ASSUME NEW R, NEW s \in Seq(R), NEW S \in SUBSET DOMAIN s
  PROVE  /\ Chosen(s, S) \in Seq(R) /\ IsFiniteSet(S) /\ Len(Chosen(s, S)) = Cardinality(S)
         /\ InOrder(S) \in [DOMAIN Chosen(s, S) -> S]
         /\ \A n \in DOMAIN Chosen(s, S) : Chosen(s, S)[n] = s[InOrder(S)[n]]
         /\ \A m, n \in DOMAIN Chosen(s, S) : InOrder(S)[m] = InOrder(S)[n] => m = n
         /\ \A i \in S : \E n \in DOMAIN Chosen(s, S) : InOrder(S)[n] = i
PROOF
<1>1. DOMAIN s = 1..Len(s) /\ Len(s) \in Nat
  OBVIOUS
<1>2. IsFiniteSet(S) /\ S \in SUBSET Nat
  <2>1. IsFiniteSet(1..Len(s))
    BY <1>1, FS_Interval
  <2>2. QED
    BY <1>1, <2>1, FS_Subset
<1>3. /\ Cardinality(S) \in Nat
      /\ InOrder(S) \in [1..Cardinality(S) -> S]
      /\ \A m, n \in 1..Cardinality(S) : InOrder(S)[m] = InOrder(S)[n] => m = n
      /\ \A i \in S : \E n \in 1..Cardinality(S) : InOrder(S)[n] = i
  BY <1>2, InOrderNumbers
<1>4. Chosen(s, S) = [n \in 1..Cardinality(S) |-> s[InOrder(S)[n]]]
  BY <1>3 DEF Chosen
<1>5. Chosen(s, S) \in Seq(R) /\ Len(Chosen(s, S)) = Cardinality(S) /\ DOMAIN Chosen(s, S) = 1..Cardinality(S)
  BY <1>3, <1>4
<1>6. QED
  BY <1>2, <1>3, <1>4, <1>5

\* Every place of short sequences has its turn when they are put one after another.
LEMMA ConcatenatedPlaces ==
  ASSUME NEW R, NEW s \in Seq(Seq(R)), NEW N \in Nat, \A k \in DOMAIN s : Len(s[k]) <= N
  PROVE  /\ Concatenated(s) \in Seq(R)
         /\ \E nth \in [DOMAIN Concatenated(s) -> Places(s)] :
               /\ \A n \in DOMAIN Concatenated(s) : Concatenated(s)[n] = s[nth[n][1]][nth[n][2]]
               /\ \A m, n \in DOMAIN Concatenated(s) : nth[m] = nth[n] => m = n
               /\ \A p \in Places(s) : \E n \in DOMAIN Concatenated(s) : nth[n] = p
PROOF
<1> DEFINE S == Places(s)
           D == [p \in S |-> UpToPlace(s, p)]
           Rank(p) == Cardinality(UpToPlace(s, p))
           nth == [n \in 1..Cardinality(S) |-> CHOOSE p \in S : Rank(p) = n]
<1>1. \A p \in S : /\ p[1] \in DOMAIN s /\ p[2] \in DOMAIN s[p[1]] /\ p = <<p[1], p[2]>>
                   /\ p[1] \in Nat /\ p[2] \in Nat /\ p \in (1..Len(s)) \X (1..N)
  <2>1. SUFFICES ASSUME NEW k \in DOMAIN s, NEW m \in DOMAIN s[k]
                 PROVE  k \in 1..Len(s) /\ m \in 1..N
    BY DEF Places
  <2>2. s[k] \in Seq(R) /\ Len(s[k]) <= N /\ Len(s[k]) \in Nat
    OBVIOUS
  <2>3. QED
    BY <2>2
<1>2. IsFiniteSet(S)
  <2>1. IsFiniteSet((1..Len(s)) \X (1..N))
    <3>1. IsFiniteSet(1..Len(s)) /\ IsFiniteSet(1..N)
      BY FS_Interval
    <3>2. QED
      BY <3>1, FS_Product
  <2>2. QED
    BY <1>1, <2>1, FS_Subset
<1>3. \A p \in S : D[p] = {q \in S : q[1] < p[1] \/ (q[1] = p[1] /\ q[2] <= p[2])}
  BY DEF UpToPlace
<1> HIDE DEF S
<1>4. IsChain(S, D)
  <2>1. D \in [S -> SUBSET S] /\ \A x \in S : x \in D[x]
    BY <1>1, <1>3
  <2>2. \A x \in S : x[1] \in Nat /\ x[2] \in Nat /\ x = <<x[1], x[2]>>
    BY <1>1
  <2> HIDE DEF D
  <2>3. ASSUME NEW x \in S, NEW z \in S, x[1] < z[1] \/ (x[1] = z[1] /\ x[2] < z[2])
        PROVE  D[x] # D[z] /\ D[x] \subseteq D[z]
    <3>1. z \in D[z] /\ z \notin D[x]
      BY <1>3, <2>2, <2>3
    <3>2. ASSUME NEW q \in D[x] PROVE q \in D[z]
      <4>1. q \in S /\ (q[1] < x[1] \/ (q[1] = x[1] /\ q[2] <= x[2]))
        BY <1>3
      <4>2. q[1] < z[1] \/ (q[1] = z[1] /\ q[2] <= z[2])
        BY <2>2, <2>3, <4>1
      <4>3. QED
        BY <1>3, <4>1, <4>2
    <3>3. QED
      BY <3>1, <3>2
  <2>4. ASSUME NEW x \in S, NEW z \in S, x # z
        PROVE  \/ x[1] < z[1] \/ (x[1] = z[1] /\ x[2] < z[2])
               \/ z[1] < x[1] \/ (z[1] = x[1] /\ z[2] < x[2])
    <3>1. CASE x[1] = z[1] /\ x[2] = z[2]
      <4>1. x = <<x[1], x[2]>> /\ z = <<z[1], z[2]>>
        BY <2>2
      <4>2. QED
        BY <2>4, <3>1, <4>1, Zenon
    <3>2. QED
      BY <2>2, <3>1
  <2>5. QED
    BY <2>1, <2>3, <2>4 DEF IsChain
<1>5. /\ Cardinality(S) \in Nat
      /\ \A x \in S : Rank(x) \in 1..Cardinality(S)
      /\ \A x, z \in S : Rank(x) = Rank(z) => x = z
      /\ \A n \in 1..Cardinality(S) : \E x \in S : Rank(x) = n
  <2>0. \A p \in S : D[p] = UpToPlace(s, p)
    OBVIOUS
  <2> HIDE DEF D
  <2>1. Cardinality(S) \in Nat /\ AreRanks(S, D)
    BY <1>2, <1>4, RanksAreOneToOne
  <2>2. \A x \in S : Rank(x) = Cardinality(D[x])
    BY <2>0
  <2> HIDE DEF Rank
  <2>3. QED
    BY <2>1, <2>2 DEF AreRanks
<1>6. Concatenated(s) = [n \in 1..Cardinality(S) |-> s[nth[n][1]][nth[n][2]]]
  BY DEF Concatenated, S
<1> HIDE DEF Rank
<1>7. \A n \in 1..Cardinality(S) : nth[n] \in S /\ Rank(nth[n]) = n
  BY <1>5
<1>8. nth \in [1..Cardinality(S) -> S]
  BY <1>7
<1>9. \A p \in S : \E n \in 1..Cardinality(S) : nth[n] = p
  BY <1>5, <1>7
<1>10. \A m, n \in 1..Cardinality(S) : nth[m] = nth[n] => m = n
  BY <1>7
<1> HIDE DEF nth
<1>11. \A n \in 1..Cardinality(S) : s[nth[n][1]][nth[n][2]] \in R
  <2> TAKE n \in 1..Cardinality(S)
  <2>1. nth[n][1] \in DOMAIN s /\ nth[n][2] \in DOMAIN s[nth[n][1]]
    BY <1>1, <1>8
  <2>2. s[nth[n][1]] \in Seq(R)
    BY <2>1
  <2>3. QED
    BY <2>1, <2>2
<1>12. Concatenated(s) \in Seq(R) /\ DOMAIN Concatenated(s) = 1..Cardinality(S)
  <2>1. Concatenated(s) \in [1..Cardinality(S) -> R]
    BY <1>6, <1>11
  <2>2. QED
    BY <1>5, <2>1, NumberedIsSeq
<1>13. \A n \in DOMAIN Concatenated(s) : Concatenated(s)[n] = s[nth[n][1]][nth[n][2]]
  BY <1>6, <1>12
<1>14. /\ nth \in [DOMAIN Concatenated(s) -> Places(s)]
       /\ \A m, n \in DOMAIN Concatenated(s) : nth[m] = nth[n] => m = n
       /\ \A p \in Places(s) : \E n \in DOMAIN Concatenated(s) : nth[n] = p
  BY <1>8, <1>9, <1>10, <1>12 DEF S
<1>15. QED
  BY <1>12, <1>13, <1>14, Zenon

\* The places of two sequences, one after the other
LEMMA TwoParts ==
  ASSUME NEW R, NEW s \in Seq(R), NEW t \in Seq(R)
  PROVE  /\ s \o t \in Seq(R) /\ Len(s \o t) = Len(s) + Len(t)
         /\ DOMAIN (s \o t) = 1..(Len(s) + Len(t)) /\ Len(s) \in Nat /\ Len(t) \in Nat
         /\ \A n \in DOMAIN s : n \in DOMAIN (s \o t) /\ (s \o t)[n] = s[n]
         /\ \A n \in DOMAIN t : Len(s) + n \in DOMAIN (s \o t) /\ (s \o t)[Len(s) + n] = t[n]
         /\ \A n \in DOMAIN (s \o t) : \/ n \in DOMAIN s /\ (s \o t)[n] = s[n]
                                       \/ n - Len(s) \in DOMAIN t /\ (s \o t)[n] = t[n - Len(s)]
PROOF
OBVIOUS

LEMMA PlaceIsPair ==
  ASSUME NEW s, NEW p \in Places(s)
  PROVE  p = <<p[1], p[2]>> /\ p[1] \in DOMAIN s /\ p[2] \in DOMAIN s[p[1]]
PROOF
BY DEF Places
=============================================================================
