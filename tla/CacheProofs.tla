---------------------------- MODULE CacheProofs ----------------------------
(***************************************************************************)
(* Proofs about the answer cache: the list and the map stay consistent,    *)
(* the capacity holds, and the LRU working-set guarantee, for any keys,    *)
(* bodies, capacity, times and windows.                                    *)
(***************************************************************************)
EXTENDS CacheHistory, SequenceTheorems, FiniteSetTheorems, TLAPS

-----------------------------------------------------------------------------
(* Lists without repetition *)

\* Taking the node at position p out of a list shifts the later ones by one.
LEMMA RemoveAtProperties ==
    ASSUME NEW S, NEW s \in Seq(S), NEW p \in 1..Len(s)
    PROVE  /\ RemoveAt(s, p) \in Seq(S)
           /\ Len(RemoveAt(s, p)) = Len(s) - 1
           /\ \A i \in 1..Len(s)-1 : RemoveAt(s, p)[i] = IF i < p THEN s[i] ELSE s[i+1]
  <1> DEFINE n == Len(s)
             u == SubSeq(s, 1, p-1)
             v == SubSeq(s, p+1, n)
  <1>1. n \in Nat /\ p \in Int /\ 1 <= p /\ p <= n
    BY LenProperties
  <1>2. \A i \in 1..n : s[i] \in S
    BY ElementOfSeq
  <1>3. \A i \in 1..p-1 : s[i] \in S
    BY <1>1, <1>2
  <1>4. \A i \in p+1..n : s[i] \in S
    BY <1>1, <1>2
  <1>5. /\ u \in Seq(S)
        /\ Len(u) = p-1
        /\ \A i \in 1..p-1 : u[i] = s[i]
    <2> HIDE DEF n
    <2>0. 1 \in Int /\ p-1 \in Int
      BY <1>1
    <2>1. /\ u \in Seq(S)
          /\ Len(u) = IF 1 <= p-1 THEN (p-1)-1+1 ELSE 0
          /\ \A i \in 1..(p-1)-1+1 : u[i] = s[1+i-1]
      BY <2>0, <1>3, SubSeqProperties
    <2> HIDE DEF u
    <2> QED BY <2>1, <1>1
  <1>6. /\ v \in Seq(S)
        /\ Len(v) = n-p
        /\ \A i \in 1..n-p : v[i] = s[p+i]
    <2> HIDE DEF n
    <2>0. n \in Int /\ p+1 \in Int
      BY <1>1
    <2>1. /\ v \in Seq(S)
          /\ Len(v) = IF p+1 <= n THEN n-(p+1)+1 ELSE 0
          /\ \A i \in 1..n-(p+1)+1 : v[i] = s[p+1+i-1]
      BY <2>0, <1>4, SubSeqProperties
    <2> HIDE DEF v
    <2> QED BY <2>1, <1>1
  <1>7. RemoveAt(s, p) = u \o v
    BY DEF RemoveAt
  <1> HIDE DEF n, u, v
  <1>8. /\ u \o v \in Seq(S)
        /\ Len(u \o v) = n - 1
        /\ \A i \in 1..n-1 : (u \o v)[i] = IF i <= p-1 THEN u[i] ELSE v[i-(p-1)]
    BY <1>1, <1>5, <1>6, ConcatProperties
  <1>9. ASSUME NEW i \in 1..n-1
        PROVE  (u \o v)[i] = IF i < p THEN s[i] ELSE s[i+1]
    <2>1. CASE i < p
      BY <2>1, <1>1, <1>5, <1>8
    <2>2. CASE i >= p
      <3>1. i-(p-1) \in 1..n-p /\ p + (i-(p-1)) = i+1 /\ ~(i <= p-1)
        BY <2>2, <1>1
      <3>2. v[i-(p-1)] = s[p + (i-(p-1))]
        BY <3>1, <1>6
      <3> QED BY <3>1, <3>2, <1>8, <2>2, <1>1
    <2>3. i < p \/ i >= p
      BY <1>1
    <2> QED BY <2>1, <2>2, <2>3
  <1> QED BY <1>7, <1>8, <1>9 DEF n

\* list.Remove on a list that holds each key at most once takes out exactly that
\* key's node and keeps the order of the others.
LEMMA RemoveFirstProperties ==
    ASSUME NEW S, NEW s \in Seq(S), IsInjective(s), NEW k
    PROVE  /\ RemoveFirst(s, k) \in Seq(S)
           /\ IsInjective(RemoveFirst(s, k))
           /\ Range(RemoveFirst(s, k)) = Range(s) \ {k}
           /\ \A a, b : Before(RemoveFirst(s, k), a, b) => Before(s, a, b)
  <1> DEFINE n == Len(s)
             t == RemoveFirst(s, k)
  <1>0. n \in Nat /\ DOMAIN s = 1..n /\ Range(s) = {s[i] : i \in 1..n}
    BY LenProperties, RangeEquality
  <1>1. CASE \E i \in 1..n : s[i] = k
    <2>1. PICK p \in 1..n : s[p] = k
      BY <1>1
    <2>2. {i \in 1..n : s[i] = k} = {p}
      BY <2>1, <1>0 DEF IsInjective
    <2>3. SelectInSeq(s, LAMBDA v : v = k) = p
      BY <2>2, <2>1, <1>0 DEF SelectInSeq, Min
    <2>4. t = RemoveAt(s, p)
      BY <2>3, <1>1 DEF RemoveFirst
    <2> HIDE DEF t
    <2>5. /\ t \in Seq(S)
          /\ Len(t) = n - 1
          /\ \A i \in 1..n-1 : t[i] = IF i < p THEN s[i] ELSE s[i+1]
      BY <2>1, <2>4, RemoveAtProperties
    <2> HIDE DEF n
    <2>6. DOMAIN t = 1..n-1 /\ Range(t) = {t[i] : i \in 1..n-1} /\ p \in Int
      BY <2>5, LenProperties, RangeEquality, <1>0
    <2> DEFINE q(i) == IF i < p THEN i ELSE i+1
    <2>7. \A i \in 1..n-1 : q(i) \in 1..n /\ q(i) # p /\ t[i] = s[q(i)]
      BY <2>5, <2>6, <1>0
    <2>8. \A i, j \in 1..n-1 : /\ i < j => q(i) < q(j)
                               /\ i # j => q(i) # q(j)
      BY <2>6, <1>0
    <2>9. \A m \in 1..n : m # p => \E i \in 1..n-1 : q(i) = m
      <3>1. ASSUME NEW m \in 1..n, m # p PROVE \E i \in 1..n-1 : q(i) = m
        <4>1. CASE m < p
          BY <4>1, <2>1, <2>6, <1>0
        <4>2. CASE m > p
          <5>1. m-1 \in 1..n-1 /\ q(m-1) = m
            BY <4>2, <2>1, <2>6, <1>0
          <5> QED BY <5>1
        <4> QED BY <3>1, <4>1, <4>2, <2>6, <1>0
      <3> QED BY <3>1
    <2> HIDE DEF q
    <2>10. IsInjective(t)
      BY <2>6, <2>7, <2>8, <1>0 DEF IsInjective
    <2>11. Range(t) = Range(s) \ {k}
      <3>1. ASSUME NEW i \in 1..n-1 PROVE t[i] \in Range(s) \ {k}
        BY <2>7, <2>1, <1>0 DEF IsInjective
      <3>2. ASSUME NEW m \in 1..n, s[m] # k PROVE s[m] \in Range(t)
        <4>1. PICK i \in 1..n-1 : q(i) = m
          BY <3>2, <2>1, <2>9
        <4> QED BY <4>1, <2>6, <2>7
      <3> QED BY <3>1, <3>2, <2>6, <1>0
    <2>12. ASSUME NEW a, NEW b, Before(t, a, b) PROVE Before(s, a, b)
      <3>1. PICK i, j \in 1..n-1 : i < j /\ t[i] = a /\ t[j] = b
        BY <2>12, <2>5 DEF Before
      <3>2. q(i) \in 1..n /\ q(j) \in 1..n /\ q(i) < q(j) /\ s[q(i)] = a /\ s[q(j)] = b
        BY <3>1, <2>7, <2>8
      <3> QED BY <3>2 DEF Before, n
    <2> QED BY <2>5, <2>10, <2>11, <2>12 DEF t
  <1>2. CASE ~ \E i \in 1..n : s[i] = k
    <2>1. t = s
      BY <1>2 DEF RemoveFirst
    <2>2. k \notin Range(s)
      BY <1>2, <1>0
    <2> QED BY <2>1, <2>2
  <1> QED BY <1>1, <1>2

\* MoveToFront of a listed key, and PushFront of a new one, put the key first and
\* keep the order of the others.
LEMMA MoveToFrontProperties ==
    ASSUME NEW S, NEW s \in Seq(S), IsInjective(s), NEW k \in S
    PROVE  /\ MoveToFront(s, k) \in Seq(S)
           /\ IsInjective(MoveToFront(s, k))
           /\ Range(MoveToFront(s, k)) = Range(s) \union {k}
           /\ \A a, b : Before(MoveToFront(s, k), a, b) =>
                 b # k /\ (a = k \/ Before(s, a, b))
  <1> DEFINE r == RemoveFirst(s, k)
             t == MoveToFront(s, k)
             n == Len(r)
  <1>1. /\ r \in Seq(S)
        /\ IsInjective(r)
        /\ Range(r) = Range(s) \ {k}
        /\ \A a, b : Before(r, a, b) => Before(s, a, b)
    BY RemoveFirstProperties
  <1> HIDE DEF r
  <1>2. n \in Nat /\ DOMAIN r = 1..n /\ Range(r) = {r[i] : i \in 1..n}
    BY <1>1, LenProperties, RangeEquality
  <1>3. <<k>> \in Seq(S) /\ Len(<<k>>) = 1 /\ <<k>>[1] = k
    OBVIOUS
  <1>4. t = <<k>> \o r
    BY DEF MoveToFront, r
  <1> HIDE DEF t, n
  <1>5. /\ t \in Seq(S)
        /\ Len(t) = n + 1
        /\ \A i \in 1..n+1 : t[i] = IF i <= 1 THEN <<k>>[i] ELSE r[i-1]
    BY <1>1, <1>2, <1>3, <1>4, ConcatProperties DEF n
  <1>6. /\ DOMAIN t = 1..n+1
        /\ Range(t) = {t[i] : i \in 1..n+1}
        /\ t[1] = k
        /\ \A i \in 2..n+1 : i-1 \in 1..n /\ t[i] = r[i-1] /\ t[i] # k
    <2>1. \A i \in 2..n+1 : i-1 \in 1..n /\ t[i] = r[i-1]
      BY <1>5, <1>2
    <2>2. \A i \in 1..n : r[i] # k
      BY <1>1, <1>2
    <2> QED BY <2>1, <2>2, <1>5, <1>2, <1>3, LenProperties, RangeEquality
  <1>7. IsInjective(t)
    <2>1. ASSUME NEW i \in 1..n+1, NEW j \in 1..n+1, t[i] = t[j]
          PROVE  i = j
      <3>0. (i = 1 \/ i \in 2..n+1) /\ (j = 1 \/ j \in 2..n+1)
        BY <1>2
      <3>1. CASE i = 1 \/ j = 1
        BY <3>0, <3>1, <2>1, <1>6
      <3>2. CASE i # 1 /\ j # 1
        <4>1. i \in 2..n+1 /\ j \in 2..n+1
          BY <3>2, <1>2
        <4>2. i-1 \in 1..n /\ j-1 \in 1..n /\ r[i-1] = r[j-1]
          BY <4>1, <2>1, <1>6
        <4>3. i-1 = j-1
          BY <4>2, <1>1, <1>2 DEF IsInjective
        <4> QED BY <4>1, <4>3, <1>2
      <3> QED BY <3>1, <3>2
    <2> QED BY <2>1, <1>6 DEF IsInjective
  <1>8. Range(t) = Range(s) \union {k}
    <2>1. ASSUME NEW x \in Range(t) PROVE x \in Range(s) \union {k}
      <3>1. PICK i \in 1..n+1 : t[i] = x
        BY <2>1, <1>6
      <3>2. CASE i = 1
        BY <3>1, <3>2, <1>6
      <3>3. CASE i # 1
        <4>1. i \in 2..n+1
          BY <3>3, <1>2
        <4> QED BY <4>1, <3>1, <1>6, <1>1, <1>2
      <3> QED BY <3>2, <3>3
    <2>2. ASSUME NEW x \in Range(r) PROVE x \in Range(t)
      <3>1. PICK i \in 1..n : r[i] = x
        BY <2>2, <1>2
      <3>2. i+1 \in 1..n+1 /\ i+1 \in 2..n+1 /\ (i+1)-1 = i
        BY <1>2
      <3>3. t[i+1] = x
        BY <3>1, <3>2, <1>6
      <3> QED BY <3>2, <3>3, <1>6
    <2>3. k \in Range(t)
      <3>1. 1 \in 1..n+1
        BY <1>2
      <3> QED BY <3>1, <1>6
    <2> QED BY <2>1, <2>2, <2>3, <1>1
  <1>9. ASSUME NEW a, NEW b, Before(t, a, b)
        PROVE  b # k /\ (a = k \/ Before(s, a, b))
    <2>1. PICK i, j \in 1..n+1 : i < j /\ t[i] = a /\ t[j] = b
      BY <1>9, <1>5 DEF Before
    <2>2. j \in 2..n+1
      BY <2>1, <1>2
    <2>3. CASE i = 1
      BY <2>1, <2>2, <2>3, <1>6
    <2>4. CASE i # 1
      <3>1. i \in 2..n+1 /\ i-1 < j-1
        BY <2>1, <2>4, <1>2
      <3>2. i-1 \in 1..n /\ j-1 \in 1..n /\ r[i-1] = a /\ r[j-1] = b
        BY <3>1, <2>1, <2>2, <1>6
      <3>3. Before(r, a, b)
        BY <3>1, <3>2 DEF Before, n
      <3>4. Before(s, a, b)
        BY <3>3, <1>1
      <3> QED BY <3>4, <2>1, <2>2, <1>6
    <2> QED BY <2>3, <2>4
  <1> QED BY <1>5, <1>7, <1>8, <1>9 DEF t

\* A list without repetition is as long as its set of keys is large: len(c.items)
\* counts the nodes of the list.
LEMMA ListCardinality ==
    ASSUME NEW S, NEW s \in Seq(S), IsInjective(s)
    PROVE  /\ IsFiniteSet(Range(s))
           /\ Cardinality(Range(s)) = Len(s)
  <1>1. Len(s) \in Nat /\ DOMAIN s = 1..Len(s)
    BY LenProperties
  <1>2. s \in Bijection(1..Len(s), Range(s))
    BY <1>1 DEF Bijection, Injection, Surjection, Range, IsInjective
  <1>3. ExistsBijection(1..Len(s), Range(s))
    BY <1>2 DEF ExistsBijection
  <1> QED BY <1>1, <1>3, FS_CountingElements, FS_NatBijection

\* The first m nodes of a list without repetition.
LEMMA PrefixProperties ==
    ASSUME NEW S, NEW s \in Seq(S), IsInjective(s), NEW m \in 0..Len(s)
    PROVE  /\ SubSeq(s, 1, m) \in Seq(S)
           /\ Len(SubSeq(s, 1, m)) = m
           /\ IsInjective(SubSeq(s, 1, m))
           /\ Range(SubSeq(s, 1, m)) = {s[i] : i \in 1..m}
           /\ \A a, b : Before(SubSeq(s, 1, m), a, b) => Before(s, a, b)
  <1> DEFINE t == SubSeq(s, 1, m)
  <1>1. Len(s) \in Nat /\ DOMAIN s = 1..Len(s) /\ m \in Int
    BY LenProperties
  <1>2. /\ t \in Seq(S)
        /\ Len(t) = m
        /\ \A i \in 1..m : t[i] = s[i]
    <2>1. \A i \in 1..m : s[i] \in S
      BY <1>1, ElementOfSeq
    <2>2. 1 \in Int /\ m \in Int
      BY <1>1
    <2>3. /\ t \in Seq(S)
          /\ Len(t) = IF 1 <= m THEN m-1+1 ELSE 0
          /\ \A i \in 1..m-1+1 : t[i] = s[1+i-1]
      BY <2>1, <2>2, SubSeqProperties
    <2> HIDE DEF t
    <2> QED BY <2>3, <1>1
  <1> HIDE DEF t
  <1>3. DOMAIN t = 1..m /\ Range(t) = {t[i] : i \in 1..m}
    BY <1>2, LenProperties, RangeEquality
  <1>4. IsInjective(t)
    BY <1>1, <1>2, <1>3 DEF IsInjective
  <1>5. Range(t) = {s[i] : i \in 1..m}
    BY <1>2, <1>3
  <1>6. ASSUME NEW a, NEW b, Before(t, a, b) PROVE Before(s, a, b)
    <2>1. PICK i, j \in 1..m : i < j /\ t[i] = a /\ t[j] = b
      BY <1>6, <1>2 DEF Before
    <2>2. i \in 1..Len(s) /\ j \in 1..Len(s) /\ s[i] = a /\ s[j] = b
      BY <2>1, <1>1, <1>2
    <2> QED BY <2>1, <2>2 DEF Before
  <1> QED BY <1>2, <1>4, <1>5, <1>6 DEF t

\* The eviction loop of Set on a list of n nodes: it leaves at most maxItems of
\* them, the front ones; a key it evicts is behind every one of the maxItems keys
\* it leaves.
LEMMA KeptProperties ==
    ASSUME NEW S, NEW s \in Seq(S), IsInjective(s)
    PROVE  LET kept == Kept(s, Len(s))
           IN  /\ kept \in Seq(S)
               /\ IsInjective(kept)
               /\ Len(kept) <= MaxItems
               /\ Range(kept) \subseteq Range(s)
               /\ s # <<>> => s[1] \in Range(kept)
               /\ \A a, b : Before(kept, a, b) => Before(s, a, b)
               /\ \A b \in Range(s) \ Range(kept) :
                     /\ Len(kept) = MaxItems
                     /\ \A a \in Range(kept) : Before(s, a, b)
  <1> DEFINE n == Len(s)
             kept == Kept(s, n)
  <1>0. /\ n \in Nat
        /\ DOMAIN s = 1..n
        /\ Range(s) = {s[i] : i \in 1..n}
        /\ MaxItems \in Nat /\ MaxItems >= 1
    BY LenProperties, RangeEquality, CapacityAssumption
  <1>1. CASE n > MaxItems
    <2>1. kept = SubSeq(s, 1, n - (n - MaxItems)) /\ n - (n - MaxItems) = MaxItems
      BY <1>0, <1>1 DEF Kept
    <2>2. MaxItems \in 0..n
      BY <1>0, <1>1
    <2>3. kept = SubSeq(s, 1, MaxItems)
      BY <2>1
    <2> HIDE DEF kept
    <2>4. /\ kept \in Seq(S)
          /\ Len(kept) = MaxItems
          /\ IsInjective(kept)
          /\ Range(kept) = {s[i] : i \in 1..MaxItems}
          /\ \A a, b : Before(kept, a, b) => Before(s, a, b)
      BY <2>2, <2>3, PrefixProperties
    <2>5. 1..MaxItems \subseteq 1..n /\ 1 \in 1..MaxItems
      BY <1>0, <1>1
    <2>6. Range(kept) \subseteq Range(s) /\ s[1] \in Range(kept)
      BY <2>4, <2>5, <1>0
    <2>7. ASSUME NEW b \in Range(s) \ Range(kept), NEW a \in Range(kept)
          PROVE  Before(s, a, b)
      <3>1. PICK j \in 1..n : s[j] = b
        BY <1>0
      <3>2. PICK i \in 1..MaxItems : s[i] = a
        BY <2>4
      <3>3. j \notin 1..MaxItems
        BY <2>4, <3>1
      <3>4. i \in 1..n /\ i < j
        BY <3>3, <2>5, <1>0
      <3> QED BY <3>1, <3>2, <3>4 DEF Before
    <2>8. Len(kept) <= MaxItems
      BY <2>4, <1>0
    <2> QED BY <2>4, <2>6, <2>7, <2>8 DEF kept
  <1>2. CASE ~(n > MaxItems)
    <2>1. kept = s
      BY <1>2 DEF Kept
    <2>2. s # <<>> => s[1] \in Range(s)
      <3>1. s # <<>> => 1 \in 1..n
        BY <1>0, EmptySeq
      <3> QED BY <3>1, <1>0
    <2>3. Len(s) <= MaxItems
      BY <1>2, <1>0
    <2> HIDE DEF kept
    <2> QED BY <2>1, <2>2, <2>3 DEF kept
  <1> QED BY <1>1, <1>2

-----------------------------------------------------------------------------
(* What a call does to the map and the list *)

CacheInv == TypeOK /\ ListMatchesMap /\ Bounded

Shape == DOMAIN items \subseteq Keys /\ items \in [DOMAIN items -> Entry] /\ lru \in Seq(Keys)

\* A hit reorders the list only.
LEMMA HitStep ==
    ASSUME Shape, ListMatchesMap, Bounded, NEW k \in DOMAIN items,
           items' = items, lru' = MoveToFront(lru, k)
    PROVE  /\ Shape' /\ ListMatchesMap' /\ Bounded'
           /\ \A a, b : Before(lru', a, b) => b # k /\ (a = k \/ Before(lru, a, b))
  <1>1. k \in Keys /\ lru \in Seq(Keys) /\ IsInjective(lru)
    BY DEF Shape, ListMatchesMap
  <1>2. /\ lru' \in Seq(Keys) /\ IsInjective(lru') /\ Range(lru') = Range(lru) \union {k}
        /\ \A a, b : Before(lru', a, b) => b # k /\ (a = k \/ Before(lru, a, b))
    BY <1>1, MoveToFrontProperties
  <1> QED BY <1>2 DEF Shape, ListMatchesMap, Bounded

\* removeElement takes one key out of both.
LEMMA RemoveStep ==
    ASSUME Shape, ListMatchesMap, Bounded, NEW k \in DOMAIN items, RemoveElement(k)
    PROVE  /\ Shape' /\ ListMatchesMap' /\ Bounded'
           /\ DOMAIN items' = DOMAIN items \ {k}
           /\ \A a, b : Before(lru', a, b) => Before(lru, a, b)
  <1>1. lru \in Seq(Keys) /\ IsInjective(lru)
    BY DEF Shape, ListMatchesMap
  <1>2. /\ lru' \in Seq(Keys) /\ IsInjective(lru') /\ Range(lru') = Range(lru) \ {k}
        /\ \A a, b : Before(lru', a, b) => Before(lru, a, b)
    BY <1>1, RemoveFirstProperties DEF RemoveElement
  <1>3. /\ DOMAIN items' = DOMAIN items \ {k}
        /\ items' \in [DOMAIN items' -> Entry]
    <2>1. items' = [x \in DOMAIN items \ {k} |-> items[x]]
      BY DEF RemoveElement, Without, Restrict
    <2>2. \A x \in DOMAIN items \ {k} : items[x] \in Entry
      BY DEF Shape
    <2> QED BY <2>1, <2>2
  <1>4. Bounded'
    <2>1. IsFiniteSet(DOMAIN items)
      BY <1>1, ListCardinality DEF ListMatchesMap
    <2>2. Cardinality(DOMAIN items') <= Cardinality(DOMAIN items)
      BY <2>1, <1>3, FS_Subset
    <2>3. Cardinality(DOMAIN items') \in Nat /\ Cardinality(DOMAIN items) \in Nat
      BY <2>1, <1>3, FS_Subset, FS_CardinalityType
    <2> QED BY <2>2, <2>3, CapacityAssumption DEF Bounded
  <1> QED BY <1>2, <1>3, <1>4 DEF Shape, ListMatchesMap

\* An accepted Set puts the key in front and evicts from the back.
LEMMA StoreStep ==
    ASSUME Shape, ListMatchesMap, Bounded,
           NEW k \in Keys, NEW body \in Bodies, NEW ttl \in TTLs, NEW extra \in Extras,
           NEW now \in Times, SetStored(k, body, ttl, extra, now)
    PROVE  /\ Shape' /\ ListMatchesMap' /\ Bounded'
           /\ k \in DOMAIN items'
           /\ DOMAIN items' \subseteq DOMAIN items \union {k}
           /\ \A a, b : Before(lru', a, b) => b # k /\ (a = k \/ Before(lru, a, b))
           /\ \A b \in DOMAIN items \ DOMAIN items' :
                 /\ b # k
                 /\ Cardinality(DOMAIN items') = MaxItems
                 /\ \A a \in DOMAIN items' : a = k \/ Before(lru, a, b)
  <1> DEFINE e == MkEntry(body, ttl, extra, now)
             grown == With(items, k, e)
             moved == MoveToFront(lru, k)
             kept == Kept(moved, Cardinality(DOMAIN grown))
  <1>1. lru \in Seq(Keys) /\ IsInjective(lru) /\ Range(lru) = DOMAIN items
    BY DEF Shape, ListMatchesMap
  <1>2. /\ moved \in Seq(Keys) /\ IsInjective(moved) /\ Range(moved) = DOMAIN items \union {k}
        /\ \A a, b : Before(moved, a, b) => b # k /\ (a = k \/ Before(lru, a, b))
    BY <1>1, MoveToFrontProperties
  <1>3. DOMAIN grown = DOMAIN items \union {k}
    BY DEF With
  <1>4. Cardinality(DOMAIN grown) = Len(moved)
    BY <1>2, <1>3, ListCardinality
  <1>5. moved # <<>> /\ moved[1] = k
    <2>1. RemoveFirst(lru, k) \in Seq(Keys)
      BY <1>1, RemoveFirstProperties
    <2> QED BY <2>1 DEF MoveToFront
  <1>6. lru' = kept /\ items' = Restrict(grown, Range(kept))
    BY DEF SetStored
  <1> HIDE DEF moved
  <1>7. kept = Kept(moved, Len(moved))
    BY <1>4
  <1> HIDE DEF kept
  <1>8. /\ kept \in Seq(Keys)
        /\ IsInjective(kept)
        /\ Len(kept) <= MaxItems
        /\ Range(kept) \subseteq Range(moved)
        /\ k \in Range(kept)
        /\ \A a, b : Before(kept, a, b) => Before(moved, a, b)
        /\ \A b \in Range(moved) \ Range(kept) :
              Len(kept) = MaxItems /\ \A a \in Range(kept) : Before(moved, a, b)
    BY <1>2, <1>5, <1>7, KeptProperties
  <1>9. DOMAIN items' = Range(kept)
    BY <1>6 DEF Restrict
  <1>10. Shape'
    <2>1. e \in Entry
      <3>1. now \in Int /\ ttl \in Int /\ extra \in Int
        BY TimeAssumption
      <3> QED BY <3>1 DEF MkEntry, Entry
    <2> HIDE DEF e
    <2>2. \A x \in DOMAIN grown : grown[x] \in Entry
      BY <2>1 DEF With, Shape
    <2> HIDE DEF grown
    <2>3. items' \in [DOMAIN items' -> Entry]
      BY <2>2, <1>2, <1>3, <1>6, <1>8 DEF Restrict
    <2> QED BY <2>3, <1>2, <1>6, <1>8, <1>9 DEF Shape
  <1>11. ListMatchesMap'
    BY <1>6, <1>8, <1>9 DEF ListMatchesMap
  <1>12. Cardinality(DOMAIN items') = Len(kept)
    BY <1>8, <1>9, ListCardinality
  <1>13. Bounded'
    BY <1>8, <1>12 DEF Bounded
  <1>14. ASSUME NEW b \in DOMAIN items \ DOMAIN items'
         PROVE  /\ b # k
                /\ Cardinality(DOMAIN items') = MaxItems
                /\ \A a \in DOMAIN items' : a = k \/ Before(lru, a, b)
    BY <1>2, <1>8, <1>9, <1>12
  <1> QED BY <1>2, <1>6, <1>8, <1>9, <1>10, <1>11, <1>13, <1>14

\* Every call keeps the list, the map and the capacity consistent.
LEMMA CallKeepsCacheInv == CacheInv /\ [Next]_vars => CacheInv'
  <1> SUFFICES ASSUME CacheInv, [Next]_vars PROVE CacheInv'
    OBVIOUS
  <1>0. Shape /\ ListMatchesMap /\ Bounded
    BY DEF CacheInv, TypeOK, Shape
  <1>1. ASSUME Shape', ListMatchesMap', Bounded', out' = None \/ out'.op \in {"GetFresh", "GetStale"}
        PROVE  CacheInv'
    BY <1>1 DEF CacheInv, TypeOK, Shape
  <1>2. CASE UNCHANGED vars
    BY <1>2 DEF CacheInv, TypeOK, ListMatchesMap, Bounded, vars
  <1>3. ASSUME NEW k \in Keys, NEW now \in Times, GetFresh(k, now) \/ GetStale(k, now)
        PROVE  CacheInv'
    <2>1. PICK op \in {"GetFresh", "GetStale"} :
             \/ LookupMiss(op, k, now)
             \/ k \in DOMAIN items /\ LookupKeep(op, k, now)
             \/ LookupDead(op, k, now)
             \/ k \in DOMAIN items /\ LookupHit(op, k, now)
      BY <1>3 DEF GetFresh, GetStale
    <2>2. out'.op \in {"GetFresh", "GetStale"}
      BY <2>1 DEF LookupMiss, LookupKeep, LookupDead, LookupHit, Answer
    <2>3. CASE LookupMiss(op, k, now) \/ LookupKeep(op, k, now)
      BY <2>3, <2>2, <1>0, <1>1 DEF LookupMiss, LookupKeep, Shape, ListMatchesMap, Bounded
    <2>4. CASE LookupDead(op, k, now)
      BY <2>4, <2>2, <1>0, <1>1, RemoveStep DEF LookupDead
    <2>5. CASE k \in DOMAIN items /\ LookupHit(op, k, now)
      BY <2>5, <2>2, <1>0, <1>1, HitStep DEF LookupHit
    <2> QED BY <2>1, <2>3, <2>4, <2>5
  <1>4. ASSUME NEW k \in Keys, NEW body \in Bodies, NEW ttl \in TTLs, NEW extra \in Extras,
               NEW now \in Times, Set(k, body, ttl, extra, now)
        PROVE  CacheInv'
    <2>1. CASE SetRefused(k, ttl)
      BY <2>1, <1>2 DEF SetRefused
    <2>2. CASE SetStored(k, body, ttl, extra, now)
      <3>1. out' = None
        BY <2>2 DEF SetStored
      <3> QED BY <3>1, <2>2, <1>0, <1>1, StoreStep
    <2> QED BY <1>4, <2>1, <2>2 DEF Set
  <1>5. ASSUME NEW k \in Keys, Delete(k) PROVE CacheInv'
    BY <1>5, <1>0, <1>1, RemoveStep DEF Delete
  <1> QED BY <1>2, <1>3, <1>4, <1>5 DEF Next

\* An empty cache is consistent.
LEMMA InitCacheInv == ASSUME Init PROVE CacheInv
  <1>1. DOMAIN items = {} /\ items \in [DOMAIN items -> Entry]
    BY DEF Init
  <1>2. lru \in Seq(Keys) /\ Range(lru) = {} /\ IsInjective(lru)
    BY DEF Init, Range, IsInjective
  <1>3. Bounded
    BY <1>1, FS_EmptySet, CapacityAssumption DEF Bounded
  <1> QED BY <1>1, <1>2, <1>3 DEF Init, CacheInv, TypeOK, ListMatchesMap

\* For every capacity, key set and sequence of calls: the map and the list hold
\* the same keys, each once, and never more than maxItems of them.
THEOREM CacheConsistent == Spec => []Consistent
  <1>1. Init => CacheInv
    BY InitCacheInv
  <1>2. CacheInv => Consistent
    BY DEF CacheInv, Consistent
  <1> QED BY <1>1, <1>2, CallKeepsCacheInv, PTL DEF Spec

-----------------------------------------------------------------------------
(* What a caller sees of one call *)

\* A look-up answers with the body of the key's entry; it changes no entry, and the only one
\* it may take out is its own key's, dead at the time of the call.
LEMMA LookupReadsEntry ==
    ASSUME NEW k, NEW now, GetFresh(k, now) \/ GetStale(k, now)
    PROVE  /\ out'.found => k \in DOMAIN items /\ out'.result = items[k].body
           /\ \A j \in DOMAIN items' : j \in DOMAIN items /\ items'[j] = items[j]
           /\ \A j \in DOMAIN items \ DOMAIN items' : j = k /\ Dead(items[j], now)
  <1>1. PICK op \in {"GetFresh", "GetStale"} :
           \/ items' = items /\ out' = Answer(op, k, now, FALSE, None)
           \/ /\ Dead(items[k], now) /\ items' = Without(items, k)
              /\ out' = Answer(op, k, now, FALSE, None)
           \/ /\ k \in DOMAIN items /\ items' = items
              /\ out' = Answer(op, k, now, TRUE, items[k].body)
    BY DEF GetFresh, GetStale, LookupMiss, LookupDead, LookupKeep, LookupHit, RemoveElement
  <1>2. out'.found => k \in DOMAIN items /\ out'.result = items[k].body
    BY <1>1 DEF Answer
  <1>3. items' = items \/ (Dead(items[k], now) /\ items' = [j \in DOMAIN items \ {k} |-> items[j]])
    BY <1>1 DEF Without, Restrict
  <1> QED BY <1>2, <1>3

\* GetStale finds every entry that is not dead, fresh or not.
LEMMA StaleMissMeansDead ==
    ASSUME NEW k, NEW now, GetStale(k, now), ~out'.found
    PROVE  k \notin DOMAIN items \/ Dead(items[k], now)
  BY DEF GetStale, LookupMiss, LookupDead, LookupHit, Answer

\* Look-ups keep the cache consistent.
LEMMA LookupKeepsCacheInv ==
    ASSUME CacheInv, NEW k \in Keys, NEW now \in Times, GetFresh(k, now) \/ GetStale(k, now)
    PROVE  CacheInv'
  BY CallKeepsCacheInv DEF Next

\* A Set with a positive ttl leaves its own entry and changes no other; it takes another one
\* out only when all of them do not fit.
LEMMA SetStoresEntry ==
    ASSUME CacheInv, NEW k \in Keys, NEW body \in Bodies, NEW ttl \in TTLs, NEW extra \in Extras,
           NEW now \in Times, ttl > 0, Set(k, body, ttl, extra, now)
    PROVE  /\ CacheInv'
           /\ k \in DOMAIN items' /\ items'[k] = MkEntry(body, ttl, extra, now)
           /\ \A j \in DOMAIN items' : j # k => j \in DOMAIN items /\ items'[j] = items[j]
           /\ \A K : /\ DOMAIN items \union {k} \subseteq K
                     /\ IsFiniteSet(K) /\ Cardinality(K) <= MaxItems
                     => DOMAIN items \subseteq DOMAIN items'
  <1> DEFINE e == MkEntry(body, ttl, extra, now)
             kept == Kept(MoveToFront(lru, k), Cardinality(DOMAIN With(items, k, e)))
  <1>1. SetStored(k, body, ttl, extra, now)
    BY TimeAssumption DEF Set, SetRefused
  <1>2. CacheInv'
    BY CallKeepsCacheInv DEF Next
  <1>3. /\ k \in DOMAIN items'
        /\ DOMAIN items' \subseteq DOMAIN items \union {k}
        /\ \A b \in DOMAIN items \ DOMAIN items' : Cardinality(DOMAIN items') = MaxItems
    BY <1>1, StoreStep DEF CacheInv, TypeOK, Shape
  <1>4. items' = Restrict(With(items, k, e), Range(kept))
    BY <1>1 DEF SetStored
  <1> HIDE DEF e, kept
  <1>5. \A j \in DOMAIN items' : items'[j] = With(items, k, e)[j]
    BY <1>4 DEF Restrict
  <1>6. \A j \in DOMAIN items \union {k} : With(items, k, e)[j] = IF j = k THEN e ELSE items[j]
    BY DEF With
  <1>7. ASSUME NEW K, DOMAIN items \union {k} \subseteq K, IsFiniteSet(K), Cardinality(K) <= MaxItems,
               NEW b \in DOMAIN items \ DOMAIN items'
        PROVE  FALSE
    <2>1. DOMAIN items' \union {b} \subseteq K
      BY <1>3, <1>7
    <2>2. IsFiniteSet(DOMAIN items')
      BY <2>1, <1>7, FS_Subset
    <2>3. Cardinality(DOMAIN items' \union {b}) = MaxItems + 1
      <3>1. b \notin DOMAIN items' /\ Cardinality(DOMAIN items') = MaxItems
        BY <1>3, <1>7
      <3> HIDE <1>7
      <3> QED BY <2>2, <3>1, FS_AddElement
    <2>4. Cardinality(DOMAIN items' \union {b}) <= Cardinality(K) /\ Cardinality(K) \in Nat
      BY <2>1, <1>7, FS_Subset, FS_CardinalityType
    <2> QED BY <2>3, <2>4, <1>7, CapacityAssumption
  <1> QED BY <1>2, <1>3, <1>5, <1>6, <1>7 DEF e

-----------------------------------------------------------------------------
(* The working-set guarantee *)

\* The history variables: since tracks keys, each with finitely many later ones.
HistoryOK ==
    /\ DOMAIN since \subseteq Keys
    /\ \A k \in DOMAIN since : since[k] \subseteq Keys /\ IsFiniteSet(since[k])

SinceInv == CacheInv /\ HistoryOK /\ FrontIsNewer /\ WorkingSetRetained

\* A use of k only adds k to the later keys of the others.
LEMMA UsedStep ==
    ASSUME HistoryOK, NEW k \in Keys, Used(k)
    PROVE  /\ DOMAIN since' = DOMAIN since \union {k}
           /\ since'[k] = {}
           /\ \A j \in DOMAIN since : j # k => since'[j] = since[j] \union {k}
           /\ HistoryOK'
  <1>1. /\ DOMAIN since' = DOMAIN since \union {k}
        /\ since'[k] = {}
        /\ \A j \in DOMAIN since : j # k => since'[j] = since[j] \union {k}
    BY DEF Used
  <1>2. IsFiniteSet({}) /\ \A j \in DOMAIN since : IsFiniteSet(since[j] \union {k})
    BY FS_EmptySet, FS_AddElement DEF HistoryOK
  <1> QED BY <1>1, <1>2 DEF HistoryOK

\* A set of later keys that did not reach maxItems after the use of k had not
\* reached it before.
LEMMA SinceGrows ==
    ASSUME HistoryOK, NEW k \in Keys, Used(k), NEW j \in DOMAIN since, j # k,
           Cardinality(since'[j]) < MaxItems
    PROVE  Cardinality(since[j]) < MaxItems
  <1>1. since'[j] = since[j] \union {k} /\ HistoryOK' /\ j \in DOMAIN since'
    BY UsedStep
  <1>2. IsFiniteSet(since'[j]) /\ since[j] \in SUBSET since'[j]
    BY <1>1 DEF HistoryOK
  <1>3. Cardinality(since[j]) <= Cardinality(since'[j])
    BY <1>2, FS_Subset
  <1>4. Cardinality(since[j]) \in Nat /\ Cardinality(since'[j]) \in Nat
    BY <1>2, FS_Subset, FS_CardinalityType
  <1> QED BY <1>3, <1>4, CapacityAssumption

\* A hit keeps the guarantee: the key used is cached, no other key leaves.
LEMMA HitKeepsSince ==
    ASSUME SinceInv, NEW k \in DOMAIN items, items' = items, lru' = MoveToFront(lru, k), Used(k)
    PROVE  HistoryOK' /\ FrontIsNewer' /\ WorkingSetRetained'
  <1>0. k \in Keys /\ Shape /\ ListMatchesMap /\ Bounded /\ HistoryOK
    BY DEF SinceInv, CacheInv, TypeOK, Shape
  <1>1. \A a, b : Before(lru', a, b) => b # k /\ (a = k \/ Before(lru, a, b))
    BY <1>0, HitStep
  <1>2. /\ DOMAIN since' = DOMAIN since \union {k}
        /\ \A j \in DOMAIN since : j # k => since'[j] = since[j] \union {k}
        /\ HistoryOK'
    BY <1>0, UsedStep
  <1>3. FrontIsNewer'
    BY <1>1, <1>2 DEF SinceInv, FrontIsNewer
  <1>4. ASSUME NEW j \in DOMAIN since', Cardinality(since'[j]) < MaxItems
        PROVE  j \in DOMAIN items'
    BY <1>0, <1>2, <1>4, SinceGrows DEF SinceInv, WorkingSetRetained
  <1> QED BY <1>2, <1>3, <1>4 DEF WorkingSetRetained

\* A removal keeps it: the key removed is no longer tracked.
LEMMA RemoveKeepsSince ==
    ASSUME SinceInv, NEW k \in DOMAIN items, RemoveElement(k), Dropped(k)
    PROVE  HistoryOK' /\ FrontIsNewer' /\ WorkingSetRetained'
  <1>0. Shape /\ ListMatchesMap /\ Bounded
    BY DEF SinceInv, CacheInv, TypeOK, Shape
  <1>1. /\ DOMAIN items' = DOMAIN items \ {k}
        /\ \A a, b : Before(lru', a, b) => Before(lru, a, b)
    BY <1>0, RemoveStep
  <1>2. DOMAIN since' = DOMAIN since \ {k} /\ \A j \in DOMAIN since \ {k} : since'[j] = since[j]
    BY DEF Dropped, Without, Restrict
  <1> QED BY <1>1, <1>2 DEF SinceInv, HistoryOK, FrontIsNewer, WorkingSetRetained

\* An accepted Set keeps it: whatever it evicts is behind maxItems other keys,
\* and all of those were used after it.
LEMMA StoreKeepsSince ==
    ASSUME SinceInv,
           NEW k \in Keys, NEW body \in Bodies, NEW ttl \in TTLs, NEW extra \in Extras,
           NEW now \in Times, SetStored(k, body, ttl, extra, now), Used(k)
    PROVE  HistoryOK' /\ FrontIsNewer' /\ WorkingSetRetained'
  <1>0. Shape /\ ListMatchesMap /\ Bounded /\ HistoryOK
    BY DEF SinceInv, CacheInv, TypeOK, Shape
  <1>1. /\ k \in DOMAIN items'
        /\ DOMAIN items' \subseteq DOMAIN items \union {k}
        /\ \A a, b : Before(lru', a, b) => b # k /\ (a = k \/ Before(lru, a, b))
        /\ \A b \in DOMAIN items \ DOMAIN items' :
              /\ b # k
              /\ Cardinality(DOMAIN items') = MaxItems
              /\ \A a \in DOMAIN items' : a = k \/ Before(lru, a, b)
    BY <1>0, StoreStep
  <1>2. /\ DOMAIN since' = DOMAIN since \union {k}
        /\ \A j \in DOMAIN since : j # k => since'[j] = since[j] \union {k}
        /\ HistoryOK'
    BY <1>0, UsedStep
  <1>3. FrontIsNewer'
    <2>1. DOMAIN items' \subseteq DOMAIN since'
      BY <1>1, <1>2 DEF SinceInv, FrontIsNewer
    <2>2. ASSUME NEW a \in DOMAIN items', NEW b \in DOMAIN items', Before(lru', a, b)
          PROVE  a \in since'[b]
      <3>1. b # k /\ b \in DOMAIN items /\ (a = k \/ Before(lru, a, b))
        BY <2>2, <1>1
      <3>2. b \in DOMAIN since /\ since'[b] = since[b] \union {k}
        BY <3>1, <1>2 DEF SinceInv, FrontIsNewer
      <3> QED BY <3>1, <3>2, <1>1 DEF SinceInv, FrontIsNewer
    <2> QED BY <2>1, <2>2 DEF FrontIsNewer
  <1>4. ASSUME NEW j \in DOMAIN since', Cardinality(since'[j]) < MaxItems
        PROVE  j \in DOMAIN items'
    <2>1. CASE j = k
      BY <2>1, <1>1
    <2>2. CASE j # k
      <3>1. j \in DOMAIN since /\ since'[j] = since[j] \union {k}
        BY <2>2, <1>2
      <3>2. j \in DOMAIN items
        BY <3>1, <2>2, <1>0, <1>4, SinceGrows DEF SinceInv, WorkingSetRetained
      <3>3. ASSUME j \notin DOMAIN items' PROVE FALSE
        <4>1. /\ Cardinality(DOMAIN items') = MaxItems
              /\ \A a \in DOMAIN items' : a = k \/ Before(lru, a, j)
          BY <3>2, <3>3, <1>1
        <4>2. \A a \in DOMAIN items' : a = k \/ (a \in DOMAIN items /\ Before(lru, a, j))
          BY <4>1, <1>1
        <4>3. DOMAIN items' \subseteq since'[j]
          BY <4>2, <3>1, <3>2 DEF SinceInv, FrontIsNewer
        <4>4. IsFiniteSet(since'[j])
          BY <1>2 DEF HistoryOK
        <4>5. Cardinality(DOMAIN items') <= Cardinality(since'[j]) /\ Cardinality(since'[j]) \in Nat
          BY <4>3, <4>4, FS_Subset, FS_CardinalityType
        <4> QED BY <4>1, <4>5, <1>4, CapacityAssumption
      <3> QED BY <3>3
    <2> QED BY <2>1, <2>2
  <1> QED BY <1>2, <1>3, <1>4 DEF WorkingSetRetained

\* Every step of the cache with its history is a step of the cache.
LEMMA HistoryStepIsCall == [HNext]_hvars => [Next]_vars
  BY DEF HNext, HLookup, HSet, HDelete, Next, hvars, vars

\* One lemma for the four things a lookup does to the map and the list.
LEMMA LookupEffect ==
    ASSUME NEW k \in Keys, NEW now \in Times, GetFresh(k, now) \/ GetStale(k, now)
    PROVE  \/ k \in DOMAIN items /\ items' = items /\ lru' = MoveToFront(lru, k) /\ out'.found
           \/ items' = items /\ lru' = lru /\ ~out'.found
           \/ k \in DOMAIN items /\ RemoveElement(k) /\ ~out'.found
  BY DEF GetFresh, GetStale, LookupMiss, LookupKeep, LookupDead, LookupHit, Answer

\* Every lookup, Set and Delete keeps the list in order of use and the working set cached.
LEMMA StepKeepsSinceInv == SinceInv /\ [HNext]_hvars => SinceInv'
  <1> SUFFICES ASSUME SinceInv, [HNext]_hvars PROVE SinceInv'
    OBVIOUS
  <1>1. CacheInv'
    BY HistoryStepIsCall, CallKeepsCacheInv DEF SinceInv
  <1>2. ASSUME items' = items, lru' = lru, since' = since
        PROVE  HistoryOK' /\ FrontIsNewer' /\ WorkingSetRetained'
    BY <1>2 DEF SinceInv, HistoryOK, FrontIsNewer, WorkingSetRetained
  <1>3. ASSUME NEW k \in Keys, NEW now \in Times, HLookup(k, now)
        PROVE  HistoryOK' /\ FrontIsNewer' /\ WorkingSetRetained'
    <2>1. CASE k \in DOMAIN items /\ items' = items /\ lru' = MoveToFront(lru, k) /\ out'.found
      BY <2>1, <1>3, HitKeepsSince DEF HLookup
    <2>2. CASE items' = items /\ lru' = lru /\ ~out'.found
      BY <2>2, <1>2, <1>3 DEF HLookup
    <2>3. CASE k \in DOMAIN items /\ RemoveElement(k) /\ ~out'.found
      <3>1. k \in DOMAIN items \ DOMAIN items'
        BY <2>3 DEF RemoveElement, Without, Restrict
      <3>2. Dropped(k)
        BY <3>1, <2>3, <1>3 DEF HLookup
      <3> QED BY <3>2, <2>3, RemoveKeepsSince
    <2> QED BY <1>3, <2>1, <2>2, <2>3, LookupEffect DEF HLookup
  <1>4. ASSUME NEW k \in Keys, NEW body \in Bodies, NEW ttl \in TTLs, NEW extra \in Extras,
               NEW now \in Times, HSet(k, body, ttl, extra, now)
        PROVE  HistoryOK' /\ FrontIsNewer' /\ WorkingSetRetained'
    <2>0. ttl \in Int
      BY TimeAssumption
    <2>1. CASE SetRefused(k, ttl)
      BY <2>0, <2>1, <1>2, <1>4 DEF HSet, SetRefused, vars
    <2>2. CASE SetStored(k, body, ttl, extra, now)
      <3>1. Used(k)
        BY <2>2, <1>4 DEF HSet, SetStored
      <3> QED BY <3>1, <2>2, StoreKeepsSince
    <2> QED BY <1>4, <2>1, <2>2 DEF HSet, Set
  <1>5. ASSUME NEW k \in Keys, HDelete(k)
        PROVE  HistoryOK' /\ FrontIsNewer' /\ WorkingSetRetained'
    BY <1>5, RemoveKeepsSince DEF HDelete, Delete
  <1>6. CASE UNCHANGED hvars
    BY <1>1, <1>2, <1>6 DEF hvars, SinceInv
  <1> QED BY <1>1, <1>3, <1>4, <1>5, <1>6 DEF HNext, SinceInv

\* New returns an empty cache, whose empty list is in order.
LEMMA InitSinceInv == HInit => SinceInv
  <1> SUFFICES ASSUME HInit PROVE SinceInv
    OBVIOUS
  <1>1. DOMAIN items = {} /\ items \in [DOMAIN items -> Entry]
    BY DEF HInit, Init
  <1>2. lru \in Seq(Keys) /\ Range(lru) = {} /\ IsInjective(lru)
    BY DEF HInit, Init, Range, IsInjective
  <1>3. Bounded
    BY <1>1, FS_EmptySet, CapacityAssumption DEF Bounded
  <1>4. CacheInv
    BY <1>1, <1>2, <1>3 DEF HInit, Init, CacheInv, TypeOK, ListMatchesMap
  <1>5. DOMAIN since = {}
    BY DEF HInit
  <1> QED BY <1>1, <1>4, <1>5 DEF SinceInv, HistoryOK, FrontIsNewer, WorkingSetRetained

\* For every capacity and sequence of calls: a key that was stored, not deleted
\* and not found dead is still cached while fewer than maxItems other keys were
\* used after it.
THEOREM WorkingSet == HSpec => []WorkingSetRetained
  <1>1. SinceInv => WorkingSetRetained
    BY DEF SinceInv
  <1> QED BY <1>1, InitSinceInv, StepKeepsSinceInv, PTL DEF HSpec

\* The keys in front of a key in the list were all used after it.
THEOREM ListInOrderOfUse == HSpec => []FrontIsNewer
  <1>1. SinceInv => FrontIsNewer
    BY DEF SinceInv
  <1> QED BY <1>1, InitSinceInv, StepKeepsSinceInv, PTL DEF HSpec

-----------------------------------------------------------------------------
(* The contract *)

ContractInv ==
    /\ CacheInv
    /\ lastSet \in [Keys -> UNION {{None}, [body : Bodies, at : Times, ttl : TTLs, extra : Extras]}]
    /\ EntryIsLastSet

\* An empty cache has no entry that could differ from its last Set.
LEMMA InitContractInv == HInit => ContractInv
  BY InitSinceInv DEF SinceInv, HInit, Init, ContractInv, EntryIsLastSet

\* Every call leaves each entry equal to the last accepted Set of its key.
LEMMA StepKeepsContractInv == ContractInv /\ [HNext]_hvars => ContractInv'
  <1> SUFFICES ASSUME ContractInv, [HNext]_hvars PROVE ContractInv'
    OBVIOUS
  <1>0. CacheInv'
    BY HistoryStepIsCall, CallKeepsCacheInv DEF ContractInv
  <1>1. ASSUME DOMAIN items' \subseteq DOMAIN items, lastSet' = lastSet,
               \A j \in DOMAIN items' : items'[j] = items[j]
        PROVE  ContractInv'
    BY <1>0, <1>1 DEF ContractInv, EntryIsLastSet
  <1>2. ASSUME NEW k \in DOMAIN items, RemoveElement(k)
        PROVE  /\ DOMAIN items' = DOMAIN items \ {k}
               /\ \A j \in DOMAIN items' : items'[j] = items[j]
    BY <1>2 DEF RemoveElement, Without, Restrict
  <1>3. ASSUME NEW k \in Keys, NEW now \in Times, HLookup(k, now)
        PROVE  ContractInv'
    <2>1. lastSet' = lastSet
      BY <1>3 DEF HLookup
    <2>2. items' = items \/ (k \in DOMAIN items /\ RemoveElement(k))
      BY <1>3, LookupEffect DEF HLookup
    <2> QED BY <2>1, <2>2, <1>1, <1>2
  <1>4. ASSUME NEW k \in Keys, NEW body \in Bodies, NEW ttl \in TTLs, NEW extra \in Extras,
               NEW now \in Times, HSet(k, body, ttl, extra, now)
        PROVE  ContractInv'
    <2>0. ttl \in Int
      BY TimeAssumption
    <2>1. CASE SetRefused(k, ttl)
      BY <2>0, <2>1, <1>1, <1>4 DEF HSet, SetRefused, vars
    <2>2. CASE SetStored(k, body, ttl, extra, now)
      <3> DEFINE set == [body |-> body, at |-> now, ttl |-> ttl, extra |-> extra]
      <3>1. lastSet' = [lastSet EXCEPT ![k] = set]
        BY <2>2, <1>4 DEF HSet, SetStored
      <3>2. set # None
        <4>1. DOMAIN set # DOMAIN None
          BY DEF None
        <4> QED BY <4>1
      <3>3. \A j \in DOMAIN items' : /\ j \in DOMAIN items \union {k}
                                     /\ items'[j] = IF j = k THEN MkEntry(body, ttl, extra, now)
                                                             ELSE items[j]
        <4>1. Shape /\ ListMatchesMap /\ Bounded
          BY DEF ContractInv, CacheInv, TypeOK, Shape
        <4>2. DOMAIN items' \subseteq DOMAIN items \union {k}
          BY <4>1, <2>2, StoreStep
        <4>3. \A j \in DOMAIN items' : items'[j] = With(items, k, MkEntry(body, ttl, extra, now))[j]
          BY <2>2 DEF SetStored, Restrict
        <4> QED BY <4>2, <4>3 DEF With
      <3>4. DOMAIN items \subseteq Keys
        BY DEF ContractInv, CacheInv, TypeOK
      <3>5. /\ set.body = body /\ set.at = now /\ set.ttl = ttl /\ set.extra = extra
            /\ set \in [body : Bodies, at : Times, ttl : TTLs, extra : Extras]
        OBVIOUS
      <3> HIDE DEF set
      <3> QED BY <1>0, <3>1, <3>2, <3>3, <3>4, <3>5 DEF ContractInv, EntryIsLastSet
    <2> QED BY <1>4, <2>1, <2>2 DEF HSet, Set
  <1>5. ASSUME NEW k \in Keys, HDelete(k) PROVE ContractInv'
    <2>1. k \in DOMAIN items /\ RemoveElement(k) /\ lastSet' = [lastSet EXCEPT ![k] = None]
      BY <1>5 DEF HDelete, Delete
    <2>2. DOMAIN items \subseteq Keys
      BY DEF ContractInv, CacheInv, TypeOK
    <2> QED BY <1>0, <1>2, <2>1, <2>2 DEF ContractInv, EntryIsLastSet
  <1>6. CASE UNCHANGED hvars
    BY <1>1, <1>6 DEF hvars
  <1> QED BY <1>3, <1>4, <1>5, <1>6 DEF HNext

\* A found lookup is a Hit of the contract, any other one a Miss.
LEMMA LookupIsContractStep ==
    ASSUME ContractInv, NEW k \in Keys, NEW now \in Times, HLookup(k, now)
    PROVE  Contract!Next
  <1>1. PICK op \in {"GetFresh", "GetStale"} :
           \/ out' = Answer(op, k, now, FALSE, None)
           \/ /\ k \in DOMAIN items
              /\ out' = Answer(op, k, now, TRUE, items[k].body)
              /\ IF op = "GetFresh" THEN ~Expired(items[k], now) ELSE ~Dead(items[k], now)
    <2>1. CASE GetFresh(k, now)
      BY <2>1 DEF GetFresh, LookupMiss, LookupKeep, LookupDead, LookupHit
    <2>2. CASE GetStale(k, now)
      BY <2>2 DEF GetStale, LookupMiss, LookupKeep, LookupDead, LookupHit
    <2> QED BY <2>1, <2>2 DEF HLookup
  <1>2. lastSet' = lastSet
    BY DEF HLookup
  <1>3. CASE out' = Answer(op, k, now, FALSE, None)
    BY <1>2, <1>3 DEF Contract!Next, Contract!Miss, Contract!None, None, Answer
  <1>4. CASE /\ k \in DOMAIN items
             /\ out' = Answer(op, k, now, TRUE, items[k].body)
             /\ IF op = "GetFresh" THEN ~Expired(items[k], now) ELSE ~Dead(items[k], now)
    <2>1. /\ lastSet[k] # None
          /\ items[k] = MkEntry(lastSet[k].body, lastSet[k].ttl, lastSet[k].extra, lastSet[k].at)
      BY <1>4 DEF ContractInv, EntryIsLastSet
    <2>2. lastSet[k] \in [body : Bodies, at : Times, ttl : TTLs, extra : Extras]
      BY <2>1 DEF ContractInv
    <2>3. lastSet[k].at \in Int /\ lastSet[k].ttl \in Int /\ lastSet[k].extra \in Int /\ now \in Int
      BY <2>2, TimeAssumption
    <2>4. now <= lastSet[k].at + Contract!Window(op, lastSet[k])
      <3>1. CASE op = "GetFresh"
        BY <3>1, <1>4, <2>1, <2>3 DEF Contract!Window, Expired, MkEntry
      <3>2. CASE op = "GetStale"
        BY <3>2, <1>4, <2>1, <2>3 DEF Contract!Window, Dead, MkEntry
      <3> QED BY <3>1, <3>2
    <2>5. items[k].body = lastSet[k].body
      BY <2>1 DEF MkEntry
    <2>6. Contract!Hit(op, k, now)
      BY <2>1, <2>4, <2>5, <1>2, <1>4 DEF Contract!Hit, Contract!None, None, Answer
    <2> QED BY <2>6 DEF Contract!Next
  <1> QED BY <1>1, <1>3, <1>4

\* The cache implements its contract: whatever a lookup returns is the body of
\* the last accepted Set of that key, within the window that Set opened.
THEOREM CacheKeepsContract == HSpec => KeepsContract
  <1>1. HInit => Contract!Init
    BY DEF HInit, Init, Contract!Init, Contract!None, None
  <1>2. ContractInv /\ [HNext]_hvars => [Contract!Next]_(Contract!vars)
    <2> SUFFICES ASSUME ContractInv, [HNext]_hvars
                 PROVE  Contract!Next \/ UNCHANGED <<lastSet, out>>
      BY DEF Contract!vars
    <2>1. ASSUME NEW k \in Keys, NEW now \in Times, HLookup(k, now)
          PROVE  Contract!Next
      BY <2>1, LookupIsContractStep
    <2>2. ASSUME NEW k \in Keys, NEW body \in Bodies, NEW ttl \in TTLs, NEW extra \in Extras,
                 NEW now \in Times, HSet(k, body, ttl, extra, now)
          PROVE  Contract!Next \/ UNCHANGED <<lastSet, out>>
      <3>0. ttl \in Int
        BY TimeAssumption
      <3>1. CASE SetRefused(k, ttl)
        BY <3>0, <3>1, <2>2 DEF HSet, SetRefused, vars
      <3>2. CASE SetStored(k, body, ttl, extra, now)
        <4>1. Contract!Put(k, body, ttl, extra, now)
          BY <3>2, <2>2 DEF HSet, SetStored, Contract!Put, Contract!None, None
        <4> QED BY <4>1 DEF Contract!Next
      <3> QED BY <2>2, <3>1, <3>2 DEF HSet, Set
    <2>3. ASSUME NEW k \in Keys, HDelete(k) PROVE Contract!Next
      <3>1. Contract!Forget(k)
        BY <2>3 DEF HDelete, Delete, Contract!Forget, Contract!None, None
      <3> QED BY <3>1 DEF Contract!Next
    <2>4. CASE UNCHANGED hvars
      BY <2>4 DEF hvars
    <2> QED BY <2>1, <2>2, <2>3, <2>4 DEF HNext
  <1> QED
    BY <1>1, <1>2, InitContractInv, StepKeepsContractInv, PTL
    DEF HSpec, KeepsContract, Contract!Spec
=============================================================================
