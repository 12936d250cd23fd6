--------------------------- MODULE HashTableProofs ---------------------------
(***************************************************************************)
(* The hash table of HashTable.tla implements a dictionary, for any keys,  *)
(* hash function and numbers of buckets.                                   *)
(*                                                                         *)
(* The invariant TableInv names the nodes of the list by their positions:  *)
(* c[0] is HEAD, c[1] .. c[n] are the pairs (Ring), and every bucket is    *)
(* empty or covers the pairs from c[lo] to c[hi] (Segment).  What an       *)
(* operation does to the links is then what With and Without do to c.      *)
(*                                                                         *)
(* The loops of the code are recursive functions in the model.  What they  *)
(* compute is shown by a smallest counterexample (Least), and Iterates     *)
(* says that such functions exist; both are in Recursion.                  *)
(***************************************************************************)
EXTENDS HashTable, Recursion, FiniteSetTheorems, TLAPS

-----------------------------------------------------------------------------
(* Tables *)

Buckets(t) == 0..(NumBuckets(t) - 1)

Edges == UNION {[0..(Primes[n] - 1) -> Nodes] : n \in 1..Len(Primes)}
Table == [next : [Nodes -> Nodes], prev : [Nodes -> Nodes], first : Edges, last : Edges,
          value : [Keys -> Values \cup {NULL}], size : Nat, num_buckets : 1..Len(Primes)]

IsTable(t) == /\ t \in Table
              /\ t.first \in [Buckets(t) -> Nodes] /\ t.last \in [Buckets(t) -> Nodes]

Hashing == hash \in [Keys -> Hashes]

LEMMA PrimesAre == /\ Len(Primes) \in Nat /\ Len(Primes) >= 1
                   /\ \A n \in 1..Len(Primes) : Primes[n] \in Nat /\ Primes[n] > 0
<1>1. Primes \in Seq(Nat \ {0}) /\ Primes # <<>>
  BY TableAssumption
<1>2. Len(Primes) \in Nat /\ Len(Primes) >= 1
  BY <1>1
<1>3. \A n \in 1..Len(Primes) : Primes[n] \in Nat \ {0}
  BY <1>1
<1> QED
  BY <1>2, <1>3

LEMMA IndexType ==
  ASSUME NEW t, IsTable(t), Hashing
  PROVE  \A k \in Keys : Index(t, k) \in Buckets(t)
<1>1. \A k \in Keys : hash[k] \in Nat
  BY TableAssumption DEF Hashing
<1>2. NumBuckets(t) \in Nat /\ NumBuckets(t) > 0
  BY PrimesAre DEF IsTable, Table, NumBuckets
<1>3. \A a, n \in Nat : n > 0 => a % n \in 0..(n - 1)
  OBVIOUS
<1> QED
  BY <1>1, <1>2, <1>3 DEF Index, Buckets

LEMMA EdgesAre ==
  ASSUME NEW t \in Table, NEW f \in [Buckets(t) -> Nodes]
  PROVE  f \in Edges
<1>1. t.num_buckets \in 1..Len(Primes)
  BY DEF Table
<1> QED
  BY <1>1 DEF Edges, Buckets, NumBuckets

(* What list_insert and insert_to_bucket do to each field. *)
LinkedIn(t, u, at, k) == /\ u.next = [t.next EXCEPT ![t.prev[at]] = k, ![k] = at]
                         /\ u.prev = [t.prev EXCEPT ![k] = t.prev[at], ![at] = k]

At(t, b) == IF BucketIsEmpty(t, b) THEN HEAD ELSE t.first[b]

LEMMA InsertFields ==
  ASSUME NEW t, IsTable(t), NEW b \in Buckets(t), NEW k \in Keys
  PROVE  /\ IsTable(InsertToBucket(t, b, k))
         /\ InsertToBucket(t, b, k).value = t.value
         /\ InsertToBucket(t, b, k).size = t.size
         /\ InsertToBucket(t, b, k).num_buckets = t.num_buckets
         /\ LinkedIn(t, InsertToBucket(t, b, k), At(t, b), k)
         /\ InsertToBucket(t, b, k).first = [t.first EXCEPT ![b] = k]
         /\ InsertToBucket(t, b, k).last =
              [t.last EXCEPT ![b] = IF BucketIsEmpty(t, b) THEN k ELSE t.last[b]]
<1> DEFINE empty == BucketIsEmpty(t, b)
           at == IF empty THEN HEAD ELSE t.first[b]
           v == ListInsert(t, at, k)
           u == InsertToBucket(t, b, k)
<1>1. at \in Nodes /\ k \in Nodes /\ t \in Table
      /\ t.first \in [Buckets(t) -> Nodes] /\ t.last \in [Buckets(t) -> Nodes]
      /\ t.next \in [Nodes -> Nodes] /\ t.prev \in [Nodes -> Nodes]
  BY DEF IsTable, Table, Nodes
<1> HIDE DEF empty, at
<1>3. /\ v \in Table
      /\ v.next = [t.next EXCEPT ![t.prev[at]] = k, ![k] = at]
      /\ v.prev = [t.prev EXCEPT ![k] = t.prev[at], ![at] = k]
      /\ v.first = t.first /\ v.last = t.last /\ v.value = t.value /\ v.size = t.size
      /\ v.num_buckets = t.num_buckets
  BY <1>1 DEF ListInsert, Table
<1> HIDE DEF v
<1> DEFINE f == [t.first EXCEPT ![b] = k]
           l == [t.last EXCEPT ![b] = IF empty THEN k ELSE t.last[b]]
<1>4. f \in [Buckets(t) -> Nodes] /\ l \in [Buckets(t) -> Nodes]
  BY <1>1
<1>5. f \in Edges /\ l \in Edges
  BY <1>1, <1>4, EdgesAre
<1>6. u = [v EXCEPT !.first[b] = k, !.last[b] = IF empty THEN k ELSE @]
  BY DEF InsertToBucket, v, at, empty
<1> HIDE DEF u
<1> HIDE DEF f, l
<1>7. /\ u \in Table
      /\ u.next = v.next /\ u.prev = v.prev /\ u.first = f /\ u.last = l
      /\ u.value = v.value /\ u.size = v.size /\ u.num_buckets = v.num_buckets
  BY <1>3, <1>5, <1>6 DEF Table, f, l
<1>8. Buckets(u) = Buckets(t)
  BY <1>3, <1>7 DEF Buckets, NumBuckets
<1>9. IsTable(u)
  BY <1>4, <1>7, <1>8 DEF IsTable
<1> QED
  BY <1>3, <1>7, <1>9 DEF f, l, at, empty, u, LinkedIn, At

-----------------------------------------------------------------------------
(* The list: c are its nodes in the order of next, beginning at HEAD, and  *)
(* n the number of pairs.                                                  *)

After(n, i) == IF i = n THEN 0 ELSE i + 1
Before(n, i) == IF i = 0 THEN n ELSE i - 1

Ring(t, c, n) ==
  /\ n \in Nat /\ c \in [0..n -> Nodes] /\ c[0] = HEAD
  /\ \A i, j \in 0..n : c[i] = c[j] => i = j
  /\ \A i \in 0..n : t.next[c[i]] = c[After(n, i)] /\ t.prev[c[i]] = c[Before(n, i)]

(* Bucket b is empty, or it is a segment of the list.                      *)
Covers(t, c, n, b, lo, hi) ==
  /\ lo \in 1..n /\ hi \in 1..n /\ lo <= hi
  /\ t.first[b] = c[lo] /\ t.last[b] = c[hi]
  /\ \A i \in 1..n : Index(t, c[i]) = b <=> lo <= i /\ i <= hi

Segment(t, c, n, b) ==
  \/ /\ t.first[b] = HEAD /\ t.last[b] = HEAD
     /\ \A i \in 1..n : Index(t, c[i]) # b
  \/ \E lo, hi \in 1..n : Covers(t, c, n, b, lo, hi)

Spread(t, c, n) == /\ IsTable(t) /\ Ring(t, c, n)
                   /\ \A b \in Buckets(t) : Segment(t, c, n, b)

LEMMA RingPairs ==
  ASSUME NEW t, NEW c, NEW n, Ring(t, c, n)
  PROVE  /\ \A i \in 1..n : c[i] \in Keys /\ c[i] # HEAD
         /\ HEAD \notin Keys
<1>1. HEAD \notin Keys
  BY TableAssumption
<1>2. \A i \in 1..n : i \in 0..n /\ i # 0 /\ 0 \in 0..n
  BY DEF Ring
<1>3. \A i \in 1..n : c[i] \in Nodes /\ c[i] # HEAD
  BY <1>2 DEF Ring
<1> QED
  BY <1>1, <1>3 DEF Nodes

With(c, n, p, k) ==
  [i \in 0..(n + 1) |-> IF i < p THEN c[i] ELSE IF i = p THEN k ELSE c[i - 1]]

(* list_insert in front of the p-th pair, or at the end. *)
LEMMA RingInsert ==
  ASSUME NEW t, NEW u, NEW c, NEW n, NEW k \in Keys, NEW p \in 1..(n + 1), NEW at,
         IsTable(t), Ring(t, c, n), \A i \in 1..n : c[i] # k,
         at = (IF p = n + 1 THEN HEAD ELSE c[p]), LinkedIn(t, u, at, k)
  PROVE  Ring(u, With(c, n, p, k), n + 1)
<1> DEFINE d == With(c, n, p, k)
<1>1. n \in Nat /\ p \in Nat /\ p >= 1 /\ p <= n + 1 /\ n + 1 \in Nat
  BY DEF Ring
<1>2. /\ c \in [0..n -> Nodes] /\ c[0] = HEAD
      /\ \A i, j \in 0..n : c[i] = c[j] => i = j
      /\ \A i \in 0..n : t.next[c[i]] = c[After(n, i)] /\ t.prev[c[i]] = c[Before(n, i)]
  BY DEF Ring
<1>3. k \in Nodes /\ HEAD \in Nodes /\ k # HEAD
  BY TableAssumption DEF Nodes
<1>4. \A i \in 0..n : c[i] # k
  BY <1>1, <1>2, <1>3
<1>5. t.next \in [Nodes -> Nodes] /\ t.prev \in [Nodes -> Nodes]
  BY DEF IsTable, Table
<1> DEFINE q == After(n, p - 1)
<1>6. p - 1 \in 0..n /\ q \in 0..n /\ Before(n, q) = p - 1
  BY <1>1 DEF After, Before
<1>7. at = c[q] /\ t.prev[at] = c[p - 1] /\ at \in Nodes
  <2>1. at = c[q]
    BY <1>1, <1>2 DEF After
  <2> QED
    BY <1>2, <1>6, <2>1
<1> HIDE DEF q
<1>8. /\ u.next[k] = at /\ u.next[c[p - 1]] = k
      /\ \A i \in 0..n : i # p - 1 => u.next[c[i]] = t.next[c[i]]
      /\ u.prev[k] = c[p - 1] /\ u.prev[at] = k
      /\ \A i \in 0..n : i # q => u.prev[c[i]] = t.prev[c[i]]
  <2>1. \A i \in 0..n : c[i] \in Nodes
    BY <1>2
  <2>2. \A i \in 0..n : i # p - 1 => c[i] # c[p - 1]
    BY <1>2, <1>6
  <2>3. \A i \in 0..n : i # q => c[i] # at
    BY <1>2, <1>6, <1>7
  <2>4. at # k /\ c[p - 1] # k
    BY <1>4, <1>6, <1>7
  <2>5. u.next = [t.next EXCEPT ![c[p - 1]] = k, ![k] = at] /\ c[p - 1] \in Nodes
    BY <1>6, <1>7, <2>1 DEF LinkedIn
  <2>6. u.prev = [t.prev EXCEPT ![k] = c[p - 1], ![at] = k]
    BY <1>7 DEF LinkedIn
  <2> QED
    BY <1>3, <1>4, <1>5, <1>7, <2>1, <2>2, <2>3, <2>4, <2>5, <2>6
<1>9. d \in [0..(n + 1) -> Nodes] /\ d[0] = HEAD /\ d[p] = k
  BY <1>1, <1>2, <1>3 DEF With
<1>10. \A i \in 0..(n + 1) : /\ i < p => i \in 0..n /\ d[i] = c[i]
                             /\ i > p => i - 1 \in 0..n /\ d[i] = c[i - 1]
  BY <1>1 DEF With
<1> HIDE DEF d
<1>11. \A i, j \in 0..(n + 1) : d[i] = d[j] => i = j
  <2> SUFFICES ASSUME NEW i \in 0..(n + 1), NEW j \in 0..(n + 1), i < j, d[i] = d[j]
               PROVE  FALSE
    BY <1>1
  <2>1. CASE i = p
    BY <1>1, <1>4, <1>9, <1>10, <2>1
  <2>2. CASE j = p
    BY <1>1, <1>4, <1>9, <1>10, <2>2
  <2>3. CASE i # p /\ j # p
    <3>1. CASE j < p
      BY <1>1, <1>2, <1>10, <3>1
    <3>2. CASE i > p
      BY <1>1, <1>2, <1>10, <3>2
    <3>3. CASE i < p /\ j > p
      <4>1. i \in 0..n /\ j - 1 \in 0..n /\ d[i] = c[i] /\ d[j] = c[j - 1] /\ i # j - 1
        BY <1>1, <1>10, <3>3
      <4> QED
        BY <1>2, <4>1
    <3> QED
      BY <1>1, <2>3, <3>1, <3>2, <3>3
  <2> QED
    BY <2>1, <2>2, <2>3
<1>12. ASSUME NEW i \in 0..(n + 1)
       PROVE  u.next[d[i]] = d[After(n + 1, i)] /\ u.prev[d[i]] = d[Before(n + 1, i)]
  <2>1. After(n + 1, i) \in 0..(n + 1) /\ Before(n + 1, i) \in 0..(n + 1)
    BY <1>1 DEF After, Before
  <2>2. u.next[d[i]] = d[After(n + 1, i)]
    <3>1. CASE i = p
      <4>1. at = d[After(n + 1, p)]
        BY <1>1, <1>2, <1>9, <1>10 DEF After
      <4> QED
        BY <1>8, <1>9, <3>1, <4>1
    <3>2. CASE i = p - 1
      <4>1. d[i] = c[p - 1] /\ After(n + 1, i) = p
        BY <1>1, <1>10, <3>2 DEF After
      <4> QED
        BY <1>8, <1>9, <4>1
    <3>3. CASE i < p - 1
      <4>1. i \in 0..n /\ d[i] = c[i] /\ After(n, i) = i + 1 /\ After(n + 1, i) = i + 1
            /\ d[i + 1] = c[i + 1]
        BY <1>1, <1>10, <3>3 DEF After
      <4> QED
        BY <1>2, <1>8, <3>3, <4>1
    <3>4. CASE i > p
      <4>1. i - 1 \in 0..n /\ d[i] = c[i - 1] /\ i - 1 # p - 1
        BY <1>1, <1>10, <3>4
      <4>2. u.next[d[i]] = c[After(n, i - 1)]
        BY <1>2, <1>8, <4>1
      <4>3. CASE i = n + 1
        BY <1>1, <1>2, <1>9, <4>2, <4>3 DEF After
      <4>4. CASE i # n + 1
        <5>1. After(n, i - 1) = i /\ After(n + 1, i) = i + 1 /\ d[i + 1] = c[i]
          BY <1>1, <1>10, <3>4, <4>4 DEF After
        <5> QED
          BY <4>2, <5>1
      <4> QED
        BY <4>3, <4>4
    <3> QED
      BY <1>1, <3>1, <3>2, <3>3, <3>4
  <2>3. u.prev[d[i]] = d[Before(n + 1, i)]
    <3>1. CASE i = p
      <4>1. Before(n + 1, p) = p - 1 /\ d[p - 1] = c[p - 1]
        BY <1>1, <1>10 DEF Before
      <4> QED
        BY <1>8, <1>9, <3>1, <4>1
    <3>2. CASE i = After(n + 1, p)
      <4>1. d[i] = at /\ Before(n + 1, i) = p
        BY <1>1, <1>2, <1>9, <1>10, <3>2 DEF After, Before
      <4> QED
        BY <1>8, <1>9, <4>1
    <3>3. CASE i < p /\ i # After(n + 1, p)
      <4>1. i \in 0..n /\ i # q /\ d[i] = c[i]
        BY <1>1, <1>10, <3>3 DEF After, q
      <4>2. u.prev[d[i]] = c[Before(n, i)]
        BY <1>2, <1>8, <4>1
      <4>3. CASE i = 0
        <5>1. Before(n, i) = n /\ Before(n + 1, i) = n + 1 /\ p < n + 1
          BY <1>1, <3>3, <4>3 DEF Before, After
        <5>2. d[n + 1] = c[n]
          BY <1>1, <1>10, <5>1
        <5> QED
          BY <4>2, <5>1, <5>2
      <4>4. CASE i # 0
        <5>1. Before(n, i) = i - 1 /\ Before(n + 1, i) = i - 1 /\ d[i - 1] = c[i - 1]
          BY <1>1, <1>10, <3>3, <4>4 DEF Before
        <5> QED
          BY <4>2, <5>1
      <4> QED
        BY <4>3, <4>4
    <3>4. CASE i > p /\ i # After(n + 1, p)
      <4>1. /\ i - 1 \in 0..n /\ i - 1 # q /\ d[i] = c[i - 1]
            /\ Before(n, i - 1) = i - 2 /\ Before(n + 1, i) = i - 1 /\ d[i - 1] = c[i - 2]
        BY <1>1, <1>10, <3>4 DEF After, Before, q
      <4> QED
        BY <1>2, <1>8, <4>1
    <3> QED
      BY <1>1, <3>1, <3>2, <3>3, <3>4
  <2> QED
    BY <2>2, <2>3
<1> HIDE DEF Ring
<1> QED
  BY <1>1, <1>9, <1>11, <1>12 DEF Ring, d

(* insert_to_bucket: the other segments move as a whole. *)
LEMMA SpreadInsert ==
  ASSUME NEW t, NEW c, NEW n, Spread(t, c, n), NEW k \in Keys, \A i \in 1..n : c[i] # k, Hashing
  PROVE  \E d : /\ Spread(InsertToBucket(t, Index(t, k), k), d, n + 1)
                /\ \A x : (\E i \in 1..(n + 1) : d[i] = x) <=> x = k \/ \E i \in 1..n : c[i] = x
<1> DEFINE b == Index(t, k)
           empty == BucketIsEmpty(t, b)
           at == At(t, b)
           u == InsertToBucket(t, b, k)
<1>1. IsTable(t) /\ Ring(t, c, n) /\ b \in Buckets(t) /\ n \in Nat
  BY IndexType DEF Spread, Ring
<1>2. /\ IsTable(u)
      /\ u.value = t.value /\ u.size = t.size /\ u.num_buckets = t.num_buckets
      /\ LinkedIn(t, u, at, k)
      /\ u.first = [t.first EXCEPT ![b] = k]
      /\ u.last = [t.last EXCEPT ![b] = IF empty THEN k ELSE t.last[b]]
  BY <1>1, InsertFields
<1>3. Buckets(u) = Buckets(t) /\ \A x : Index(u, x) = Index(t, x)
  BY <1>2 DEF Buckets, NumBuckets, Index
<1>4. /\ t.first \in [Buckets(t) -> Nodes] /\ t.last \in [Buckets(t) -> Nodes]
      /\ \A i \in 1..n : c[i] # HEAD
      /\ \A i, j \in 1..n : c[i] = c[j] => i = j
  BY <1>1, RingPairs DEF IsTable, Ring
<1>5. /\ u.first[b] = k /\ u.last[b] = IF empty THEN k ELSE t.last[b]
      /\ \A a \in Buckets(t) : a # b => u.first[a] = t.first[a] /\ u.last[a] = t.last[a]
  BY <1>1, <1>2, <1>4
<1> HIDE DEF u
<1>6. PICK p \in 1..(n + 1) :
        /\ at = IF p = n + 1 THEN HEAD ELSE c[p]
        /\ empty => p = n + 1 /\ \A i \in 1..n : Index(t, c[i]) # b
        /\ ~empty => \E hi \in 1..n : Covers(t, c, n, b, p, hi)
  <2>1. CASE /\ t.first[b] = HEAD /\ t.last[b] = HEAD
             /\ \A i \in 1..n : Index(t, c[i]) # b
    <3>1. empty /\ at = HEAD /\ n + 1 \in 1..(n + 1)
      BY <1>1, <2>1 DEF BucketIsEmpty, At
    <3> QED
      BY <2>1, <3>1
  <2>2. CASE \E lo, hi \in 1..n : Covers(t, c, n, b, lo, hi)
    <3>1. PICK lo \in 1..n, hi \in 1..n : Covers(t, c, n, b, lo, hi)
      BY <2>2
    <3>2. ~empty /\ at = c[lo]
      BY <1>4, <3>1 DEF Covers, BucketIsEmpty, At
    <3>3. lo \in 1..(n + 1) /\ lo # n + 1
      BY <1>1
    <3> QED
      BY <3>1, <3>2, <3>3
  <2> QED
    BY <1>1, <2>1, <2>2 DEF Spread, Segment
<1> HIDE DEF at, empty
<1> DEFINE d == With(c, n, p, k)
<1>7. Ring(u, d, n + 1)
  BY <1>1, <1>2, <1>6, RingInsert
<1>8. /\ d[p] = k
      /\ \A i \in 1..n : /\ i < p => i \in 1..(n + 1) /\ d[i] = c[i]
                         /\ i >= p => i + 1 \in 1..(n + 1) /\ d[i + 1] = c[i]
      /\ \A i \in 1..(n + 1) : /\ i < p => i \in 1..n /\ d[i] = c[i]
                               /\ i > p => i - 1 \in 1..n /\ d[i] = c[i - 1]
  BY <1>1 DEF With
<1> HIDE DEF d
<1>9. \A x : (\E i \in 1..(n + 1) : d[i] = x) <=> x = k \/ \E i \in 1..n : c[i] = x
  <2> SUFFICES ASSUME NEW x
               PROVE  (\E i \in 1..(n + 1) : d[i] = x) <=> x = k \/ \E i \in 1..n : c[i] = x
    OBVIOUS
  <2>1. ASSUME NEW i \in 1..(n + 1), d[i] = x PROVE x = k \/ \E j \in 1..n : c[j] = x
    BY <1>1, <1>8, <2>1
  <2>2. ASSUME NEW i \in 1..n, c[i] = x PROVE \E j \in 1..(n + 1) : d[j] = x
    BY <1>1, <1>8, <2>2
  <2> QED
    BY <1>8, <2>1, <2>2
<1>10. ASSUME NEW a \in Buckets(t) PROVE Segment(u, d, n + 1, a)
  <2>1. CASE a = b /\ empty
    <3>1. p = n + 1 /\ \A i \in 1..n : Index(t, c[i]) # b
      BY <1>6, <2>1
    <3>2. \A i \in 1..(n + 1) : Index(u, d[i]) = b <=> p <= i /\ i <= p
      <4> SUFFICES ASSUME NEW i \in 1..(n + 1) PROVE Index(u, d[i]) = b <=> p <= i /\ i <= p
        OBVIOUS
      <4>1. CASE i = p
        BY <1>1, <1>3, <1>8, <4>1 DEF b
      <4>2. CASE i # p
        <5>1. i < p /\ i \in 1..n /\ d[i] = c[i]
          BY <1>1, <1>8, <3>1, <4>2
        <5> QED
          BY <1>3, <3>1, <5>1
      <4> QED
        BY <4>1, <4>2
    <3>3. Covers(u, d, n + 1, a, p, p)
      BY <1>1, <1>5, <1>8, <2>1, <3>2 DEF Covers
    <3> QED
      BY <3>3 DEF Segment
  <2>2. CASE a = b /\ ~empty
    <3>1. PICK hi \in 1..n : Covers(t, c, n, b, p, hi)
      BY <1>6, <2>2
    <3>2. p \in 1..n /\ p <= hi /\ \A i \in 1..n : Index(t, c[i]) = b <=> p <= i /\ i <= hi
      BY <3>1 DEF Covers
    <3>3. \A i \in 1..(n + 1) : Index(u, d[i]) = b <=> p <= i /\ i <= hi + 1
      <4> SUFFICES ASSUME NEW i \in 1..(n + 1) PROVE Index(u, d[i]) = b <=> p <= i /\ i <= hi + 1
        OBVIOUS
      <4>1. CASE i = p
        BY <1>1, <1>3, <1>8, <3>2, <4>1 DEF b
      <4>2. CASE i < p
        <5>1. i \in 1..n /\ d[i] = c[i]
          BY <1>8, <4>2
        <5>2. Index(t, c[i]) = b <=> p <= i /\ i <= hi
          BY <3>2, <5>1
        <5> QED
          BY <1>1, <1>3, <4>2, <5>1, <5>2
      <4>3. CASE i > p
        <5>1. i - 1 \in 1..n /\ d[i] = c[i - 1]
          BY <1>8, <4>3
        <5>2. Index(t, c[i - 1]) = b <=> p <= i - 1 /\ i - 1 <= hi
          BY <3>2, <5>1
        <5> QED
          BY <1>1, <1>3, <3>2, <4>3, <5>1, <5>2
      <4> QED
        BY <1>1, <4>1, <4>2, <4>3
    <3>4. u.last[b] = c[hi] /\ hi + 1 \in 1..(n + 1) /\ d[hi + 1] = c[hi]
      BY <1>1, <1>5, <1>8, <2>2, <3>1, <3>2 DEF Covers
    <3>5. Covers(u, d, n + 1, a, p, hi + 1)
      BY <1>1, <1>5, <1>8, <2>2, <3>2, <3>3, <3>4 DEF Covers
    <3> QED
      BY <3>4, <3>5 DEF Segment
  <2>3. CASE a # b
    <3>1. u.first[a] = t.first[a] /\ u.last[a] = t.last[a] /\ Index(u, k) # a
      BY <1>3, <1>5, <2>3 DEF b
    <3>2. CASE /\ t.first[a] = HEAD /\ t.last[a] = HEAD
               /\ \A i \in 1..n : Index(t, c[i]) # a
      <4>1. \A i \in 1..(n + 1) : Index(u, d[i]) # a
        BY <1>1, <1>3, <1>8, <3>1, <3>2
      <4> QED
        BY <3>1, <3>2, <4>1 DEF Segment
    <3>3. CASE \E lo, hi \in 1..n : Covers(t, c, n, a, lo, hi)
      <4>1. PICK lo \in 1..n, hi \in 1..n : Covers(t, c, n, a, lo, hi)
        BY <3>3
      <4>2. /\ lo <= hi /\ t.first[a] = c[lo] /\ t.last[a] = c[hi]
            /\ \A i \in 1..n : Index(t, c[i]) = a <=> lo <= i /\ i <= hi
        BY <4>1 DEF Covers
      <4>3. p <= lo \/ p > hi
        <5>1. CASE empty
          BY <1>1, <1>6, <5>1
        <5>2. CASE ~empty
          <6>1. p \in 1..n /\ Index(t, c[p]) = b
            BY <1>6, <5>2 DEF Covers
          <6>2. ~(lo <= p /\ p <= hi)
            BY <2>3, <4>2, <6>1
          <6> QED
            BY <1>1, <6>1, <6>2
        <5> QED
          BY <5>1, <5>2
      <4>4. CASE p <= lo
        <5>1. /\ lo + 1 \in 1..(n + 1) /\ d[lo + 1] = c[lo]
              /\ hi + 1 \in 1..(n + 1) /\ d[hi + 1] = c[hi]
          BY <1>1, <1>8, <4>2, <4>4
        <5>2. ASSUME NEW i \in 1..(n + 1)
              PROVE  Index(u, d[i]) = a <=> lo + 1 <= i /\ i <= hi + 1
          <6>1. CASE i = p
            BY <1>1, <1>8, <3>1, <4>4, <6>1
          <6>2. CASE i < p
            <7>1. i \in 1..n /\ d[i] = c[i] /\ i < lo /\ ~(lo + 1 <= i)
              BY <1>1, <1>8, <4>4, <6>2
            <7> QED
              BY <1>1, <1>3, <4>2, <7>1
          <6>3. CASE i > p
            <7>1. i - 1 \in 1..n /\ d[i] = c[i - 1]
              BY <1>8, <6>3
            <7>2. Index(t, c[i - 1]) = a <=> lo <= i - 1 /\ i - 1 <= hi
              BY <4>2, <7>1
            <7> QED
              BY <1>1, <1>3, <7>1, <7>2
          <6> QED
            BY <1>1, <6>1, <6>2, <6>3
        <5>3. Covers(u, d, n + 1, a, lo + 1, hi + 1)
          BY <3>1, <4>2, <5>1, <5>2 DEF Covers
        <5> QED
          BY <5>1, <5>3 DEF Segment
      <4>5. CASE p > hi
        <5>1. /\ lo \in 1..(n + 1) /\ d[lo] = c[lo]
              /\ hi \in 1..(n + 1) /\ d[hi] = c[hi]
          BY <1>1, <1>8, <4>2, <4>5
        <5>2. ASSUME NEW i \in 1..(n + 1)
              PROVE  Index(u, d[i]) = a <=> lo <= i /\ i <= hi
          <6>1. CASE i = p
            BY <1>1, <1>8, <3>1, <4>5, <6>1
          <6>2. CASE i < p
            <7>1. i \in 1..n /\ d[i] = c[i]
              BY <1>8, <6>2
            <7> QED
              BY <1>3, <4>2, <7>1
          <6>3. CASE i > p
            <7>1. i - 1 \in 1..n /\ d[i] = c[i - 1]
              BY <1>8, <6>3
            <7>2. Index(t, c[i - 1]) = a <=> lo <= i - 1 /\ i - 1 <= hi
              BY <4>2, <7>1
            <7> QED
              BY <1>1, <1>3, <4>5, <6>3, <7>1, <7>2
          <6> QED
            BY <1>1, <6>1, <6>2, <6>3
        <5>3. Covers(u, d, n + 1, a, lo, hi)
          BY <3>1, <4>2, <5>1, <5>2 DEF Covers
        <5> QED
          BY <5>1, <5>3 DEF Segment
      <4> QED
        BY <4>3, <4>4, <4>5
    <3> QED
      BY <1>1, <3>2, <3>3 DEF Spread, Segment
  <2> QED
    BY <2>1, <2>2, <2>3
<1>11. Spread(u, d, n + 1)
  BY <1>2, <1>3, <1>7, <1>10 DEF Spread
<1> QED
  BY <1>9, <1>11 DEF u

-----------------------------------------------------------------------------
(* Deletion *)

Unlinked(t, u, k) == /\ u.next = [t.next EXCEPT ![t.prev[k]] = t.next[k], ![k] = k]
                     /\ u.prev = [t.prev EXCEPT ![t.next[k]] = t.prev[k], ![k] = k]

(* What hashtable_do_del does to each field. *)
LEMMA DeleteFields ==
  ASSUME NEW t, IsTable(t), NEW k \in Keys, Hashing, Find(t, k), t.size > 0
  PROVE  /\ IsTable(DoDel(t, k))
         /\ DoDel(t, k).value = [t.value EXCEPT ![k] = NULL]
         /\ DoDel(t, k).size = t.size - 1
         /\ DoDel(t, k).num_buckets = t.num_buckets
         /\ Unlinked(t, DoDel(t, k), k)
         /\ \A b \in Buckets(t) :
              IF b # Index(t, k)
                THEN DoDel(t, k).first[b] = t.first[b] /\ DoDel(t, k).last[b] = t.last[b]
                ELSE /\ DoDel(t, k).first[b] = IF k # t.first[b] THEN t.first[b]
                                               ELSE IF k = t.last[b] THEN HEAD ELSE t.next[k]
                     /\ DoDel(t, k).last[b] = IF k # t.last[b] THEN t.last[b]
                                              ELSE IF k = t.first[b] THEN HEAD ELSE t.prev[k]
<1> DEFINE b == Index(t, k)
           u == CASE k = t.first[b] /\ k = t.last[b] -> [t EXCEPT !.first[b] = HEAD, !.last[b] = HEAD]
                  [] k = t.first[b] /\ k # t.last[b] -> [t EXCEPT !.first[b] = t.next[k]]
                  [] k # t.first[b] /\ k = t.last[b] -> [t EXCEPT !.last[b] = t.prev[k]]
                  [] OTHER -> t
           v == ListRemove(u, k)
           w == Free(v, k)
           f == IF k # t.first[b] THEN t.first[b] ELSE IF k = t.last[b] THEN HEAD ELSE t.next[k]
           l == IF k # t.last[b] THEN t.last[b] ELSE IF k = t.first[b] THEN HEAD ELSE t.prev[k]
<1>1. DoDel(t, k) = [w EXCEPT !.size = @ - 1]
  BY DEF DoDel
<1>2. /\ t \in Table /\ b \in Buckets(t) /\ k \in Nodes /\ HEAD \in Nodes
      /\ t.first \in [Buckets(t) -> Nodes] /\ t.last \in [Buckets(t) -> Nodes]
      /\ t.next \in [Nodes -> Nodes] /\ t.prev \in [Nodes -> Nodes]
      /\ t.value \in [Keys -> Values \cup {NULL}] /\ t.size \in Nat
  BY IndexType DEF IsTable, Table, Nodes
<1> HIDE DEF b
<1>3. /\ f \in Nodes /\ l \in Nodes
  BY <1>2
<1>4. /\ [t.first EXCEPT ![b] = f] \in [Buckets(t) -> Nodes]
      /\ [t.last EXCEPT ![b] = l] \in [Buckets(t) -> Nodes]
  BY <1>2, <1>3
<1>5. /\ [t.first EXCEPT ![b] = f] \in Edges
      /\ [t.last EXCEPT ![b] = l] \in Edges
      /\ \A e \in [Buckets(t) -> Nodes] : e \in Edges
  BY <1>2, <1>4, EdgesAre
<1>6. /\ u \in Table /\ u.next = t.next /\ u.prev = t.prev
      /\ u.first = [t.first EXCEPT ![b] = f] /\ u.last = [t.last EXCEPT ![b] = l]
      /\ u.value = t.value /\ u.size = t.size /\ u.num_buckets = t.num_buckets
  <2>0. [t.first EXCEPT ![b] = t.first[b]] = t.first /\ [t.last EXCEPT ![b] = t.last[b]] = t.last
    BY <1>2
  <2>1. CASE k = t.first[b] /\ k = t.last[b]
    <3>1. u = [t EXCEPT !.first[b] = HEAD, !.last[b] = HEAD] /\ f = HEAD /\ l = HEAD
      BY <2>1
    <3> HIDE DEF u, f, l
    <3> QED
      BY <1>2, <1>5, <3>1 DEF Table
  <2>2. CASE k = t.first[b] /\ k # t.last[b]
    <3>1. u = [t EXCEPT !.first[b] = t.next[k]] /\ f = t.next[k] /\ l = t.last[b]
      BY <2>2
    <3> HIDE DEF u, f, l
    <3> QED
      BY <1>2, <1>5, <2>0, <3>1 DEF Table
  <2>3. CASE k # t.first[b] /\ k = t.last[b]
    <3>1. u = [t EXCEPT !.last[b] = t.prev[k]] /\ f = t.first[b] /\ l = t.prev[k]
      BY <2>3
    <3> HIDE DEF u, f, l
    <3> QED
      BY <1>2, <1>5, <2>0, <3>1 DEF Table
  <2>4. CASE k # t.first[b] /\ k # t.last[b]
    <3>1. u = t /\ f = t.first[b] /\ l = t.last[b]
      BY <2>4
    <3> HIDE DEF u, f, l
    <3> QED
      BY <1>2, <1>5, <2>0, <3>1 DEF Table
  <2> QED
    BY <2>1, <2>2, <2>3, <2>4
<1> HIDE DEF u, f, l
<1>7. /\ v \in Table
      /\ v.next = [t.next EXCEPT ![t.prev[k]] = t.next[k]]
      /\ v.prev = [t.prev EXCEPT ![t.next[k]] = t.prev[k]]
      /\ v.first = u.first /\ v.last = u.last
      /\ v.value = u.value /\ v.size = u.size /\ v.num_buckets = u.num_buckets
  BY <1>2, <1>6 DEF ListRemove, Table
<1> HIDE DEF v
<1>8. /\ w \in Table
      /\ w.next = [t.next EXCEPT ![t.prev[k]] = t.next[k], ![k] = k]
      /\ w.prev = [t.prev EXCEPT ![t.next[k]] = t.prev[k], ![k] = k]
      /\ w.first = v.first /\ w.last = v.last
      /\ w.value = [t.value EXCEPT ![k] = NULL] /\ w.size = v.size /\ w.num_buckets = v.num_buckets
  BY <1>2, <1>6, <1>7 DEF Free, Table
<1> DEFINE x == DoDel(t, k)
<1> HIDE DEF w
<1>9. t.size - 1 \in Nat
  BY <1>2
<1>10. /\ x \in Table /\ x.next = w.next /\ x.prev = w.prev
       /\ x.first = w.first /\ x.last = w.last /\ x.value = w.value
       /\ x.size = t.size - 1 /\ x.num_buckets = w.num_buckets
  <2> HIDE DEF x
  <2>1. x = [w EXCEPT !.size = @ - 1] /\ w.size = t.size
    BY <1>1, <1>6, <1>7, <1>8 DEF x
  <2> QED
    BY <1>8, <1>9, <2>1 DEF Table
<1> HIDE DEF x
<1>11. Buckets(x) = Buckets(t)
  BY <1>6, <1>7, <1>8, <1>10 DEF Buckets, NumBuckets
<1>12. x.first = [t.first EXCEPT ![b] = f] /\ x.last = [t.last EXCEPT ![b] = l]
  BY <1>6, <1>7, <1>8, <1>10
<1>13. IsTable(x)
  BY <1>4, <1>10, <1>11, <1>12 DEF IsTable
<1>14. \A a \in Buckets(t) : /\ x.first[a] = IF a = b THEN f ELSE t.first[a]
                             /\ x.last[a] = IF a = b THEN l ELSE t.last[a]
  BY <1>2, <1>12
<1>15. Unlinked(t, x, k)
  BY <1>8, <1>10 DEF Unlinked
<1>16. x.value = [t.value EXCEPT ![k] = NULL] /\ x.num_buckets = t.num_buckets
  BY <1>6, <1>7, <1>8, <1>10
<1> QED
  BY <1>10, <1>13, <1>14, <1>15, <1>16 DEF x, f, l, b

Without(c, n, p) == [i \in 0..(n - 1) |-> IF i < p THEN c[i] ELSE c[i + 1]]

(* list_remove of the p-th pair. *)
LEMMA RingRemove ==
  ASSUME NEW t, NEW u, NEW c, NEW n, NEW p \in 1..n,
         IsTable(t), Ring(t, c, n), Unlinked(t, u, c[p])
  PROVE  Ring(u, Without(c, n, p), n - 1)
<1> DEFINE k == c[p]
           q == After(n, p)
           d == Without(c, n, p)
<1>1. n \in Nat /\ p \in Nat /\ p >= 1 /\ p <= n /\ n - 1 \in Nat /\ p \in 0..n /\ p - 1 \in 0..n
      /\ q \in 0..n /\ q # p /\ Before(n, p) = p - 1
  BY DEF Ring, After, Before
<1>2. /\ c \in [0..n -> Nodes] /\ c[0] = HEAD
      /\ \A i, j \in 0..n : c[i] = c[j] => i = j
      /\ \A i \in 0..n : t.next[c[i]] = c[After(n, i)] /\ t.prev[c[i]] = c[Before(n, i)]
  BY DEF Ring
<1>3. t.next[k] = c[q] /\ t.prev[k] = c[p - 1] /\ k \in Nodes /\ c[q] \in Nodes /\ c[p - 1] \in Nodes
  BY <1>1, <1>2
<1>4. t.next \in [Nodes -> Nodes] /\ t.prev \in [Nodes -> Nodes]
  BY DEF IsTable, Table
<1> HIDE DEF k, q
<1>5. /\ u.next[c[p - 1]] = c[q] /\ u.prev[c[q]] = c[p - 1]
      /\ \A i \in 0..n : /\ i # p /\ i # p - 1 => u.next[c[i]] = t.next[c[i]]
                         /\ i # p /\ i # q => u.prev[c[i]] = t.prev[c[i]]
  <2>1. /\ u.next = [t.next EXCEPT ![c[p - 1]] = c[q], ![k] = k]
        /\ u.prev = [t.prev EXCEPT ![c[q]] = c[p - 1], ![k] = k]
    BY <1>3 DEF Unlinked, k
  <2>2. \A i \in 0..n : /\ c[i] \in Nodes
                        /\ i # p => c[i] # k
                        /\ i # p - 1 => c[i] # c[p - 1]
                        /\ i # q => c[i] # c[q]
    BY <1>1, <1>2 DEF k
  <2> QED
    BY <1>1, <1>3, <1>4, <2>1, <2>2
<1>6. d \in [0..(n - 1) -> Nodes] /\ d[0] = HEAD
  BY <1>1, <1>2 DEF Without
<1>7. \A i \in 0..(n - 1) : /\ i \in 0..n /\ i + 1 \in 0..n
                            /\ i < p => d[i] = c[i]
                            /\ i >= p => d[i] = c[i + 1]
  BY <1>1 DEF Without
<1> HIDE DEF d
<1>8. \A i, j \in 0..(n - 1) : d[i] = d[j] => i = j
  <2> SUFFICES ASSUME NEW i \in 0..(n - 1), NEW j \in 0..(n - 1), i < j PROVE d[i] # d[j]
    BY <1>1
  <2>1. CASE j < p
    BY <1>1, <1>2, <1>7, <2>1
  <2>2. CASE i >= p
    BY <1>1, <1>2, <1>7, <2>2
  <2>3. CASE i < p /\ j >= p
    <3>1. d[i] = c[i] /\ d[j] = c[j + 1] /\ i # j + 1
      BY <1>7, <2>3
    <3> QED
      BY <1>2, <1>7, <3>1
  <2> QED
    BY <1>1, <2>1, <2>2, <2>3
<1>9. ASSUME NEW i \in 0..(n - 1)
      PROVE  u.next[d[i]] = d[After(n - 1, i)] /\ u.prev[d[i]] = d[Before(n - 1, i)]
  <2>1. u.next[d[i]] = d[After(n - 1, i)]
    <3>1. CASE i = p - 1
      <4>1. d[i] = c[p - 1]
        BY <1>1, <1>7, <3>1
      <4>2. c[q] = d[After(n - 1, i)]
        BY <1>1, <1>2, <1>6, <1>7, <3>1 DEF After, q
      <4> QED
        BY <1>5, <4>1, <4>2
    <3>2. CASE i < p - 1
      <4>1. /\ d[i] = c[i] /\ i # p /\ i # p - 1 /\ After(n, i) = i + 1 /\ After(n - 1, i) = i + 1
            /\ d[i + 1] = c[i + 1]
        BY <1>1, <1>7, <3>2 DEF After
      <4> QED
        BY <1>2, <1>5, <1>7, <4>1
    <3>3. CASE i >= p
      <4>1. d[i] = c[i + 1] /\ i + 1 \in 0..n /\ i + 1 # p /\ i + 1 # p - 1
        BY <1>1, <1>7, <3>3
      <4>2. u.next[d[i]] = c[After(n, i + 1)]
        BY <1>2, <1>5, <4>1
      <4>3. CASE i = n - 1
        BY <1>1, <1>2, <1>6, <4>2, <4>3 DEF After
      <4>4. CASE i # n - 1
        <5>1. After(n, i + 1) = i + 2 /\ After(n - 1, i) = i + 1 /\ d[i + 1] = c[i + 2]
          BY <1>1, <1>7, <3>3, <4>4 DEF After
        <5> QED
          BY <4>2, <5>1
      <4> QED
        BY <4>3, <4>4
    <3> QED
      BY <1>1, <3>1, <3>2, <3>3
  <2>2. u.prev[d[i]] = d[Before(n - 1, i)]
    <3>1. CASE i = 0
      <4>1. CASE p = n
        <5>1. q = 0 /\ Before(n - 1, i) = p - 1 /\ d[p - 1] = c[p - 1]
          BY <1>1, <1>7, <3>1, <4>1 DEF q, After, Before
        <5> QED
          BY <1>2, <1>5, <1>6, <3>1, <5>1
      <4>2. CASE p # n
        <5>1. q # 0 /\ p # 0 /\ Before(n, 0) = n /\ Before(n - 1, i) = n - 1 /\ d[n - 1] = c[n]
          BY <1>1, <1>7, <3>1, <4>2 DEF q, After, Before
        <5>2. u.prev[c[0]] = t.prev[c[0]] /\ t.prev[c[0]] = c[n]
          BY <1>1, <1>2, <1>5, <5>1
        <5> QED
          BY <1>2, <1>6, <3>1, <5>1, <5>2
      <4> QED
        BY <4>1, <4>2
    <3>2. CASE 0 < i /\ i < p
      <4>1. /\ d[i] = c[i] /\ i # p /\ i # q /\ Before(n, i) = i - 1 /\ Before(n - 1, i) = i - 1
            /\ d[i - 1] = c[i - 1]
        BY <1>1, <1>7, <3>2 DEF q, After, Before
      <4> QED
        BY <1>2, <1>5, <1>7, <4>1
    <3>3. CASE i = p
      <4>1. d[i] = c[q] /\ Before(n - 1, i) = p - 1 /\ d[p - 1] = c[p - 1]
        BY <1>1, <1>7, <3>3 DEF q, After, Before
      <4> QED
        BY <1>5, <4>1
    <3>4. CASE i > p
      <4>1. /\ d[i] = c[i + 1] /\ i + 1 \in 0..n /\ i + 1 # p /\ i + 1 # q
            /\ Before(n, i + 1) = i /\ Before(n - 1, i) = i - 1 /\ d[i - 1] = c[i]
        BY <1>1, <1>7, <3>4 DEF q, After, Before
      <4> QED
        BY <1>2, <1>5, <4>1
    <3> QED
      BY <1>1, <3>1, <3>2, <3>3, <3>4
  <2> QED
    BY <2>1, <2>2
<1> HIDE DEF Ring
<1> QED
  BY <1>1, <1>6, <1>8, <1>9 DEF Ring, d

(* hashtable_do_del: the segment of the pair shrinks, at an edge if the    *)
(* pair was one, and becomes empty if it was the only one.                 *)
LEMMA SpreadDelete ==
  ASSUME NEW t, NEW c, NEW n, Spread(t, c, n), NEW p \in 1..n, Find(t, c[p]), t.size > 0, Hashing
  PROVE  /\ Spread(DoDel(t, c[p]), Without(c, n, p), n - 1)
         /\ \A x : (\E i \in 1..(n - 1) : Without(c, n, p)[i] = x)
                     <=> x # c[p] /\ \E i \in 1..n : c[i] = x
<1> DEFINE k == c[p]
           b == Index(t, k)
           u == DoDel(t, k)
           d == Without(c, n, p)
<1>1. IsTable(t) /\ Ring(t, c, n) /\ k \in Keys /\ b \in Buckets(t) /\ n \in Nat
  BY RingPairs, IndexType DEF Spread, Ring
<1>2. /\ \A i \in 1..n : c[i] # HEAD
      /\ \A i, j \in 1..n : c[i] = c[j] => i = j
      /\ t.next[k] = c[After(n, p)] /\ t.prev[k] = c[p - 1]
  BY <1>1, RingPairs DEF Ring, Before
<1>3. /\ IsTable(u) /\ u.num_buckets = t.num_buckets /\ Unlinked(t, u, k)
      /\ \A a \in Buckets(t) :
           IF a # b
             THEN u.first[a] = t.first[a] /\ u.last[a] = t.last[a]
             ELSE /\ u.first[a] = IF k # t.first[a] THEN t.first[a]
                                  ELSE IF k = t.last[a] THEN HEAD ELSE t.next[k]
                  /\ u.last[a] = IF k # t.last[a] THEN t.last[a]
                                 ELSE IF k = t.first[a] THEN HEAD ELSE t.prev[k]
  BY <1>1, DeleteFields, ZenonT(60)
<1>4. Buckets(u) = Buckets(t) /\ \A x : Index(u, x) = Index(t, x)
  BY <1>3 DEF Buckets, NumBuckets, Index
<1> HIDE DEF u
<1>5. Ring(u, d, n - 1)
  BY <1>1, <1>3, RingRemove
<1>6. /\ \A i \in 1..(n - 1) : /\ i \in 1..n /\ i + 1 \in 1..n
                               /\ i < p => d[i] = c[i]
                               /\ i >= p => d[i] = c[i + 1]
      /\ \A i \in 1..n : /\ i < p => i \in 1..(n - 1) /\ d[i] = c[i]
                         /\ i > p => i - 1 \in 1..(n - 1) /\ d[i - 1] = c[i]
  BY <1>1 DEF Without
<1>7. k = c[p]
  OBVIOUS
<1> HIDE DEF d, k
<1>8. ASSUME NEW x
      PROVE  (\E i \in 1..(n - 1) : d[i] = x) <=> x # k /\ \E i \in 1..n : c[i] = x
  <2>1. ASSUME NEW i \in 1..(n - 1), d[i] = x PROVE x # k /\ \E j \in 1..n : c[j] = x
    BY <1>1, <1>2, <1>6, <1>7, <2>1
  <2>2. ASSUME NEW i \in 1..n, c[i] = x, x # k PROVE \E j \in 1..(n - 1) : d[j] = x
    BY <1>1, <1>6, <1>7, <2>2
  <2> QED
    BY <2>1, <2>2
<1>9. ASSUME NEW a \in Buckets(t), NEW lo \in 1..n, NEW hi \in 1..n, Covers(t, c, n, a, lo, hi)
      PROVE  Segment(u, d, n - 1, a)
  <2>1. /\ lo <= hi /\ t.first[a] = c[lo] /\ t.last[a] = c[hi]
        /\ \A i \in 1..n : Index(t, c[i]) = a <=> lo <= i /\ i <= hi
    BY <1>9 DEF Covers
  <2>2. CASE a # b
    <3>1. u.first[a] = t.first[a] /\ u.last[a] = t.last[a]
      BY <1>3, <2>2
    <3>2. p < lo \/ p > hi
      BY <1>1, <1>7, <2>1, <2>2 DEF b
    <3>3. CASE p < lo
      <4>1. /\ lo - 1 \in 1..(n - 1) /\ d[lo - 1] = c[lo]
            /\ hi - 1 \in 1..(n - 1) /\ d[hi - 1] = c[hi]
        BY <1>1, <1>6, <2>1, <3>3
      <4>2. \A i \in 1..(n - 1) : Index(u, d[i]) = a <=> lo - 1 <= i /\ i <= hi - 1
        BY <1>1, <1>4, <1>6, <2>1, <3>3
      <4>3. Covers(u, d, n - 1, a, lo - 1, hi - 1)
        BY <2>1, <3>1, <4>1, <4>2 DEF Covers
      <4> QED
        BY <4>1, <4>3 DEF Segment
    <3>4. CASE p > hi
      <4>1. /\ lo \in 1..(n - 1) /\ d[lo] = c[lo]
            /\ hi \in 1..(n - 1) /\ d[hi] = c[hi]
        BY <1>1, <1>6, <2>1, <3>4
      <4>2. \A i \in 1..(n - 1) : Index(u, d[i]) = a <=> lo <= i /\ i <= hi
        BY <1>1, <1>4, <1>6, <2>1, <3>4
      <4>3. Covers(u, d, n - 1, a, lo, hi)
        BY <2>1, <3>1, <4>1, <4>2 DEF Covers
      <4> QED
        BY <4>1, <4>3 DEF Segment
    <3> QED
      BY <3>2, <3>3, <3>4
  <2>3. CASE a = b
    <3>1. lo <= p /\ p <= hi
      BY <1>7, <2>1, <2>3 DEF b
    <3>2. (k = t.first[a] <=> p = lo) /\ (k = t.last[a] <=> p = hi)
      BY <1>2, <1>7, <2>1
    <3>3. /\ u.first[a] = IF p # lo THEN c[lo] ELSE IF p = hi THEN HEAD ELSE c[After(n, p)]
          /\ u.last[a] = IF p # hi THEN c[hi] ELSE IF p = lo THEN HEAD ELSE c[p - 1]
      BY <1>2, <1>3, <2>1, <2>3, <3>2
    <3>4. CASE lo = hi
      <4>1. p = lo /\ p = hi
        BY <1>1, <3>1, <3>4
      <4>2. \A i \in 1..n : Index(t, c[i]) = a => i = p
        BY <1>1, <2>1, <4>1
      <4>3. \A i \in 1..(n - 1) : Index(u, d[i]) # a
        BY <1>1, <1>4, <1>6, <4>2
      <4> QED
        BY <3>3, <4>1, <4>3 DEF Segment
    <3>5. CASE lo # hi
      <4>1. lo \in 1..(n - 1) /\ hi - 1 \in 1..(n - 1) /\ lo <= hi - 1
        BY <1>1, <2>1, <3>5
      <4>2. u.first[a] = d[lo]
        <5>1. CASE p = lo
          BY <1>1, <1>6, <3>3, <3>5, <4>1, <5>1 DEF After
        <5>2. CASE p # lo
          BY <1>1, <1>6, <3>1, <3>3, <4>1, <5>2
        <5> QED
          BY <5>1, <5>2
      <4>3. u.last[a] = d[hi - 1]
        <5>1. CASE p = hi
          BY <1>1, <1>6, <3>3, <3>5, <4>1, <5>1
        <5>2. CASE p # hi
          BY <1>1, <1>6, <3>1, <3>3, <4>1, <5>2
        <5> QED
          BY <5>1, <5>2
      <4>4. \A i \in 1..(n - 1) : Index(u, d[i]) = a <=> lo <= i /\ i <= hi - 1
        BY <1>1, <1>4, <1>6, <2>1, <3>1
      <4>5. Covers(u, d, n - 1, a, lo, hi - 1)
        BY <4>1, <4>2, <4>3, <4>4 DEF Covers
      <4> QED
        BY <4>1, <4>5 DEF Segment
    <3> QED
      BY <3>4, <3>5
  <2> QED
    BY <2>2, <2>3
<1>10. ASSUME NEW a \in Buckets(t), t.first[a] = HEAD, t.last[a] = HEAD,
              \A i \in 1..n : Index(t, c[i]) # a
       PROVE  Segment(u, d, n - 1, a)
  <2>1. a # b
    BY <1>7, <1>10 DEF b
  <2>2. u.first[a] = HEAD /\ u.last[a] = HEAD
    BY <1>3, <1>10, <2>1
  <2>3. \A i \in 1..(n - 1) : Index(u, d[i]) # a
    BY <1>1, <1>4, <1>6, <1>10
  <2> QED
    BY <2>2, <2>3 DEF Segment
<1>11. \A a \in Buckets(u) : Segment(u, d, n - 1, a)
  BY <1>4, <1>9, <1>10 DEF Spread, Segment
<1> QED
  BY <1>3, <1>5, <1>8, <1>11 DEF Spread, u, d, k

-----------------------------------------------------------------------------
(* Walking: the recursive functions of the model are what they say they    *)
(* are.                                                                    *)

(* The nodes from a node on, as many as there may be. *)
LEMMA ChainIs ==
  ASSUME NEW t, IsTable(t), NEW from \in Nodes
  PROVE  /\ Cardinality(Keys) \in Nat
         /\ Chain(t, from) \in [0..Cardinality(Keys) -> Nodes]
         /\ Chain(t, from)[0] = from
         /\ \A i \in 1..Cardinality(Keys) : Chain(t, from)[i] = t.next[Chain(t, from)[i - 1]]
<1> DEFINE N == Cardinality(Keys)
           f == [i \in 1..N |-> t.next]
           F(c) == [i \in 0..N |-> IF i = 0 THEN from ELSE t.next[c[i - 1]]]
<1>1. N \in Nat
  BY TableAssumption, FS_CardinalityType
<1> HIDE DEF N
<1>2. t.next \in [Nodes -> Nodes]
  BY DEF IsTable, Table
<1>3. f \in [1..N -> [Nodes -> Nodes]] /\ \A i \in 1..N : f[i] = t.next
  BY <1>2
<1> HIDE DEF f
<1>4. PICK g \in [0..N -> Nodes] : g[0] = from /\ \A i \in 1..N : g[i] = f[i][g[i - 1]]
  <2>1. \E g \in [0..N -> Nodes] : g[0] = from /\ \A i \in 1..N : g[i] = f[i][g[i - 1]]
    <3>1. N \in Nat /\ f \in [1..N -> [Nodes -> Nodes]] /\ from \in Nodes
      BY <1>1, <1>3
    <3> HIDE DEF F
    <3> QED
      BY ONLY <3>1, Iterates
  <2> QED
    BY <2>1
<1>5. \A i \in 0..N : g[i] = IF i = 0 THEN from ELSE t.next[g[i - 1]]
  BY <1>1, <1>3, <1>4
<1>6. g = F(g)
  BY <1>5
<1>7. Chain(t, from) = CHOOSE c : c = F(c)
  BY DEF Chain, N
<1>8. Chain(t, from) = F(Chain(t, from))
  BY <1>6, <1>7
<1> DEFINE c == Chain(t, from)
<1> HIDE DEF c
<1>9. c = [i \in 0..N |-> IF i = 0 THEN from ELSE t.next[c[i - 1]]]
  BY <1>8 DEF c
<1>10. DOMAIN c = 0..N /\ c[0] = from /\ \A i \in 1..N : c[i] = t.next[c[i - 1]]
  <2>1. \A i \in 1..N : i \in 0..N /\ i # 0
    BY <1>1
  <2>2. \A i \in 0..N : c[i] = IF i = 0 THEN from ELSE t.next[c[i - 1]]
    BY <1>9, Zenon
  <2>3. DOMAIN c = 0..N
    BY <1>9, Zenon
  <2> QED
    BY <1>1, <2>1, <2>2, <2>3
<1>11. \A i \in 0..N : c[i] = g[i]
  <2> DEFINE T == {i \in 0..N : c[i] # g[i]}
  <2>1. ASSUME T # {} PROVE FALSE
    <3>a. T \in SUBSET Nat
      BY <1>1
    <3>1. PICK m \in T : \A i \in T : m <= i
      <4> HIDE DEF T
      <4> QED
        BY <2>1, <3>a, Least
    <3>2. m \in 0..N /\ c[m] # g[m]
      BY <3>1
    <3>3. m # 0
      BY <1>4, <1>10, <3>2
    <3>4. m \in 1..N /\ m - 1 \in 0..N /\ ~(m <= m - 1)
      BY <1>1, <3>2, <3>3
    <3>5. c[m - 1] = g[m - 1]
      BY <3>1, <3>4
    <3> QED
      BY <1>3, <1>4, <1>10, <3>2, <3>4, <3>5
  <2> QED
    BY <2>1
<1>12. c \in [0..N -> Nodes]
  BY <1>9, <1>10, <1>11
<1> QED
  BY <1>1, <1>10, <1>12 DEF c, N

LEMMA ChainAlong ==
  ASSUME NEW t, NEW c, NEW n, IsTable(t), Ring(t, c, n), NEW lo \in 0..n
  PROVE  \A i \in 0..Cardinality(Keys) :
           /\ lo + i <= n => Chain(t, c[lo])[i] = c[lo + i]
           /\ lo + i = n + 1 => Chain(t, c[lo])[i] = HEAD
<1> DEFINE N == Cardinality(Keys)
           ch == Chain(t, c[lo])
           T == {i \in 0..N : ~(/\ lo + i <= n => ch[i] = c[lo + i]
                                /\ lo + i = n + 1 => ch[i] = HEAD)}
<1>1. /\ n \in Nat /\ c \in [0..n -> Nodes] /\ c[0] = HEAD
      /\ \A i \in 0..n : t.next[c[i]] = c[After(n, i)]
  BY DEF Ring
<1>2. /\ N \in Nat /\ ch[0] = c[lo]
      /\ \A i \in 1..N : ch[i] = t.next[ch[i - 1]]
  <2>1. c[lo] \in Nodes
    BY <1>1
  <2> QED
    BY <2>1, ChainIs
<1> HIDE DEF N, ch
<1>3. ASSUME T # {} PROVE FALSE
  <2>1. T \in SUBSET Nat
    BY <1>2
  <2>2. PICK m \in T : \A i \in T : m <= i
    <3> HIDE DEF T
    <3> QED
      BY <1>3, <2>1, Least
  <2>3. m \in 0..N /\ ~(/\ lo + m <= n => ch[m] = c[lo + m]
                        /\ lo + m = n + 1 => ch[m] = HEAD)
    BY <2>2
  <2>4. m # 0
    BY <1>1, <1>2, <2>3
  <2>5. m \in 1..N /\ m - 1 \in 0..N /\ ~(m <= m - 1)
    BY <1>2, <2>3, <2>4
  <2>6. m - 1 \notin T
    BY <2>2, <2>5
  <2>7. lo + (m - 1) <= n => ch[m - 1] = c[lo + (m - 1)]
    BY <2>5, <2>6
  <2>8. CASE lo + m <= n
    <3>1. lo + (m - 1) \in 0..n /\ After(n, lo + (m - 1)) = lo + m
      BY <1>1, <2>5, <2>8 DEF After
    <3>2. ch[m] = t.next[c[lo + (m - 1)]]
      BY <1>2, <2>5, <2>7, <3>1
    <3> QED
      BY <1>1, <2>3, <2>8, <3>1, <3>2
  <2>9. CASE lo + m = n + 1
    <3>1. lo + (m - 1) \in 0..n /\ After(n, lo + (m - 1)) = 0
      BY <1>1, <2>5, <2>9 DEF After
    <3>2. ch[m] = t.next[c[lo + (m - 1)]]
      BY <1>2, <2>5, <2>7, <3>1
    <3> QED
      BY <1>1, <2>3, <2>9, <3>1, <3>2
  <2> QED
    BY <2>3, <2>8, <2>9
<1>4. \A i \in 0..N : /\ lo + i <= n => ch[i] = c[lo + i]
                      /\ lo + i = n + 1 => ch[i] = HEAD
  BY <1>3
<1> QED
  BY <1>4 DEF N, ch

(* A table holds no more pairs than there are keys, and fewer if one is    *)
(* without a pair.                                                         *)
LEMMA FewPairs ==
  ASSUME NEW t, NEW c, NEW n, Ring(t, c, n)
  PROVE  /\ n <= Cardinality(Keys)
         /\ \A k \in Keys : (\A i \in 1..n : c[i] # k) => n < Cardinality(Keys)
<1> DEFINE f == [i \in 1..n |-> c[i]]
<1>1. n \in Nat /\ \A i \in 1..n : c[i] \in Keys
  BY RingPairs DEF Ring
<1>2. \A i, j \in 1..n : c[i] = c[j] => i = j
  BY DEF Ring
<1>3. f \in Injection(1..n, Keys)
  BY <1>1, <1>2 DEF Injection, IsInjective
<1>4. /\ Cardinality(1..n) <= Cardinality(Keys)
      /\ Cardinality(1..n) = Cardinality(Keys) <=> f \in Surjection(1..n, Keys)
  BY <1>3, TableAssumption, FS_Injection
<1>5. Cardinality(1..n) = n /\ Cardinality(Keys) \in Nat
  BY <1>1, FS_Interval, TableAssumption, FS_CardinalityType
<1>6. ASSUME NEW k \in Keys, \A i \in 1..n : c[i] # k
      PROVE  f \notin Surjection(1..n, Keys)
  BY <1>6 DEF Surjection
<1> HIDE DEF f
<1> QED
  BY <1>1, <1>4, <1>5, <1>6

(* hashtable_find_pair finds the pairs of the list, and those only. *)
LEMMA FindCorrect ==
  ASSUME NEW t, NEW c, NEW n, Spread(t, c, n), NEW k \in Keys, Hashing
  PROVE  Find(t, k) <=> \E i \in 1..n : c[i] = k
<1> DEFINE b == Index(t, k)
           ch == Chain(t, t.first[b])
           N == Cardinality(Keys)
<1>1. IsTable(t) /\ Ring(t, c, n) /\ b \in Buckets(t) /\ n \in Nat
  BY IndexType DEF Spread, Ring
<1>2. /\ t.first \in [Buckets(t) -> Nodes]
      /\ \A i \in 1..n : c[i] # HEAD
      /\ \A i, j \in 0..n : c[i] = c[j] => i = j
      /\ n <= N
  <2>1. \A i \in 1..n : c[i] # HEAD
    BY <1>1, RingPairs
  <2>2. n <= N
    BY <1>1, FewPairs
  <2>3. t.first \in [Buckets(t) -> Nodes]
    BY <1>1 DEF IsTable
  <2>4. \A i, j \in 0..n : c[i] = c[j] => i = j
    BY <1>1 DEF Ring
  <2> QED
    BY <2>1, <2>2, <2>3, <2>4
<1>3. N \in Nat /\ DOMAIN ch = 0..N
  BY <1>1, <1>2, ChainIs
<1> HIDE DEF N
<1>4. Find(t, k) <=> /\ ~BucketIsEmpty(t, b)
                     /\ \E i \in 0..N : ch[i] = k /\ \A j \in 0..(i - 1) : ch[j] # t.last[b]
  BY <1>3 DEF Find
<1>5. CASE /\ t.first[b] = HEAD /\ t.last[b] = HEAD
           /\ \A i \in 1..n : Index(t, c[i]) # b
  <2>1. BucketIsEmpty(t, b)
    BY <1>5 DEF BucketIsEmpty
  <2> QED
    BY <1>4, <1>5, <2>1
<1>6. ASSUME NEW lo \in 1..n, NEW hi \in 1..n, Covers(t, c, n, b, lo, hi)
      PROVE  Find(t, k) <=> \E i \in 1..n : c[i] = k
  <2>1. /\ lo <= hi /\ t.first[b] = c[lo] /\ t.last[b] = c[hi]
        /\ \A i \in 1..n : Index(t, c[i]) = b <=> lo <= i /\ i <= hi
    BY <1>6 DEF Covers
  <2>2. ~BucketIsEmpty(t, b)
    BY <1>2, <2>1 DEF BucketIsEmpty
  <2>3. lo \in 0..n /\ hi \in 0..n
    BY <1>1
  <2>4. \A i \in 0..N : lo + i <= n => ch[i] = c[lo + i]
    BY <1>1, <2>1, <2>3, ChainAlong DEF N
  <2> HIDE DEF ch
  <2>5. ASSUME NEW i \in 0..N, ch[i] = k, \A j \in 0..(i - 1) : ch[j] # t.last[b]
        PROVE  \E m \in 1..n : c[m] = k
    <3>1. CASE lo + i <= hi
      <4>1. lo + i \in 1..n /\ lo + i <= n
        BY <1>1, <1>3, <3>1
      <4> QED
        BY <2>4, <2>5, <4>1
    <3>2. CASE ~(lo + i <= hi)
      <4>1. hi - lo \in 0..(i - 1) /\ hi - lo \in 0..N /\ lo + (hi - lo) = hi /\ hi <= n
        BY <1>3, <2>1, <3>2
      <4>2. ch[hi - lo] = c[hi]
        BY <2>4, <4>1
      <4> QED
        BY <2>1, <2>5, <4>1, <4>2
    <3> QED
      BY <3>1, <3>2
  <2>6. ASSUME NEW m \in 1..n, c[m] = k
        PROVE  \E i \in 0..N : ch[i] = k /\ \A j \in 0..(i - 1) : ch[j] # t.last[b]
    <3>1. lo <= m /\ m <= hi
      BY <2>1, <2>6 DEF b
    <3>2. m - lo \in 0..N /\ lo + (m - lo) = m /\ m <= n
      BY <1>1, <1>2, <1>3, <3>1
    <3>3. ch[m - lo] = k
      BY <2>4, <2>6, <3>2
    <3>4. ASSUME NEW j \in 0..((m - lo) - 1) PROVE ch[j] # t.last[b]
      <4>1. j \in 0..N /\ lo + j <= n /\ lo + j \in 0..n /\ lo + j # hi
        <5>1. j \in Nat /\ j < m - lo /\ N \in Nat /\ m - lo <= N
          BY <1>3, <3>2
        <5> QED
          BY <1>1, <3>1, <5>1
      <4> QED
        BY <1>2, <2>1, <2>3, <2>4, <4>1
    <3> QED
      BY <3>2, <3>3, <3>4
  <2> QED
    BY <1>4, <2>2, <2>5, <2>6
<1> QED
  BY <1>1, <1>5, <1>6 DEF Spread, Segment

(* hashtable_iter visits the pairs of the list, in its order. *)
LEMMA IterationIs ==
  ASSUME NEW t, NEW c, NEW n, IsTable(t), Ring(t, c, n)
  PROVE  Iteration(t) = [i \in 1..n |-> c[i]]
<1> DEFINE N == Cardinality(Keys)
           ch == Chain(t, t.next[HEAD])
           Ends(i) == /\ i \in DOMAIN ch => ch[i] = HEAD
                      /\ \A j \in 0..(i - 1) : ch[j] # HEAD
           m == CHOOSE i \in 0..(N + 1) : Ends(i)
<1>1. /\ n \in Nat /\ c \in [0..n -> Nodes] /\ c[0] = HEAD
      /\ t.next[c[0]] = c[After(n, 0)]
      /\ \A i \in 1..n : c[i] # HEAD
  <2>1. \A i \in 1..n : c[i] # HEAD
    BY RingPairs
  <2>2. n \in Nat => 0 \in 0..n
    OBVIOUS
  <2> QED
    BY <2>1, <2>2 DEF Ring
<1>2. n <= N
  BY FewPairs
<1>3. t.next[HEAD] = c[After(n, 0)] /\ After(n, 0) \in 0..n
  BY <1>1 DEF After
<1>4. N \in Nat /\ DOMAIN ch = 0..N /\ ch[0] = t.next[HEAD]
  <2>1. t.next[HEAD] \in Nodes
    BY <1>1, <1>3
  <2> QED
    BY <2>1, ChainIs
<1>5. \A i \in 0..N : (i < n => ch[i] = c[i + 1]) /\ (i = n => ch[i] = HEAD)
  <2>1. CASE n = 0
    BY <1>1, <1>3, <1>4, <2>1 DEF After
  <2>2. CASE n # 0
    <3>1. t.next[HEAD] = c[1] /\ 1 \in 0..n
      BY <1>1, <1>3, <2>2 DEF After
    <3>2. \A i \in 0..N : /\ 1 + i <= n => ch[i] = c[1 + i]
                          /\ 1 + i = n + 1 => ch[i] = HEAD
      BY <3>1, ChainAlong
    <3> HIDE DEF ch, N
    <3> QED
      BY <1>1, <1>4, <3>2
  <2> QED
    BY <2>1, <2>2
<1>6. Iteration(t) = [i \in 1..m |-> ch[i - 1]]
  BY DEF Iteration
<1> HIDE DEF ch, N
<1>7. n \in 0..(N + 1) /\ Ends(n)
  <2>1. n \in 0..N
    BY <1>1, <1>2, <1>4
  <2>2. \A j \in 0..(n - 1) : j \in 0..N /\ j < n /\ j + 1 \in 1..n
    BY <1>1, <1>2, <1>4
  <2> QED
    BY <1>1, <1>4, <1>5, <2>1, <2>2
<1>8. ASSUME NEW i \in 0..(N + 1), Ends(i) PROVE i = n
  <2>1. CASE i < n
    <3>1. i \in 0..N /\ i + 1 \in 1..n
      BY <1>1, <1>2, <1>4, <2>1
    <3> QED
      BY <1>1, <1>4, <1>5, <1>8, <2>1, <3>1
  <2>2. CASE i > n
    <3>1. n \in 0..N /\ n \in 0..(i - 1)
      BY <1>1, <1>2, <1>4, <2>2
    <3> QED
      BY <1>5, <1>8, <3>1
  <2> QED
    BY <1>1, <1>4, <2>1, <2>2
<1>9. m = n
  <2>1. m \in 0..(N + 1) /\ Ends(m)
    <3> HIDE DEF Ends
    <3> QED
      BY <1>7
  <2> HIDE DEF m, Ends
  <2> QED
    BY <1>8, <2>1
<1>10. \A i \in 1..n : ch[i - 1] = c[i]
  BY <1>1, <1>2, <1>4, <1>5
<1> HIDE DEF m
<1> QED
  BY <1>6, <1>9, <1>10

LEMMA IterationType ==
  ASSUME NEW n \in Nat, NEW c, \A i \in 1..n : c[i] \in Keys
  PROVE  /\ [i \in 1..n |-> c[i]] \in Seq(Keys)
         /\ Len([i \in 1..n |-> c[i]]) = n
<1> DEFINE s == [i \in 1..n |-> c[i]]
<1>1. s \in Seq(Keys)
  OBVIOUS
<1>2. DOMAIN s = 1..n
  OBVIOUS
<1> HIDE DEF s
<1>3. Len(s) = n
  BY <1>1, <1>2
<1> QED
  BY <1>1, <1>3 DEF s

-----------------------------------------------------------------------------
(* Rehashing *)

Tables == {t \in Table : IsTable(t)}

LEMMA MovedIs ==
  ASSUME NEW t, IsTable(t), NEW n \in Nat, NEW s \in [1..n -> Keys], Len(s) = n, Hashing
  PROVE  /\ Moved(t, s)[0] = t
         /\ \A i \in 1..n : Moved(t, s)[i] =
              InsertToBucket(Moved(t, s)[i - 1], Index(Moved(t, s)[i - 1], s[i]), s[i])
<1> DEFINE Put(u, k) == InsertToBucket(u, Index(u, k), k)
           f == [i \in 1..n |-> [u \in Tables |-> Put(u, s[i])]]
           F(m) == [i \in 0..n |-> IF i = 0 THEN t ELSE Put(m[i - 1], s[i])]
<1>1. \A u \in Tables, k \in Keys : Put(u, k) \in Tables
  <2> SUFFICES ASSUME NEW u \in Tables, NEW k \in Keys PROVE Put(u, k) \in Tables
    OBVIOUS
  <2>1. IsTable(u)
    BY DEF Tables
  <2>2. Index(u, k) \in Buckets(u)
    BY <2>1, IndexType
  <2>3. IsTable(Put(u, k))
    BY <2>1, <2>2, InsertFields
  <2> QED
    BY <2>3 DEF Tables, IsTable
<1>2. t \in Tables
  BY DEF Tables, IsTable
<1> HIDE DEF Put
<1>3. f \in [1..n -> [Tables -> Tables]]
  BY <1>1
<1>4. \A i \in 1..n, u \in Tables : f[i][u] = Put(u, s[i])
  OBVIOUS
<1>5. PICK g \in [0..n -> Tables] : g[0] = t /\ \A i \in 1..n : g[i] = f[i][g[i - 1]]
  <2> HIDE DEF f, F
  <2>1. t \in Tables /\ f \in [1..n -> [Tables -> Tables]] /\ n \in Nat
    BY <1>2, <1>3
  <2>2. \A h \in [1..n -> [Tables -> Tables]] :
          \E g \in [0..n -> Tables] : g[0] = t /\ \A i \in 1..n : g[i] = h[i][g[i - 1]]
    BY <2>1, Iterates, SMTT(30)
  <2> QED
    BY <2>1, <2>2
<1> HIDE DEF f
<1>6. \A i \in 1..n : i \in 0..n /\ i - 1 \in 0..n /\ i # 0
  OBVIOUS
<1>7. \A i \in 0..n : g[i] = IF i = 0 THEN t ELSE Put(g[i - 1], s[i])
  BY <1>4, <1>5, <1>6
<1>8. g = F(g)
  BY <1>7
<1>9. Moved(t, s) = CHOOSE m : m = F(m)
  BY DEF Moved, Put
<1>10. Moved(t, s) = F(Moved(t, s))
  BY <1>8, <1>9
<1> DEFINE m == Moved(t, s)
<1> HIDE DEF m
<1>11. m = [i \in 0..n |-> IF i = 0 THEN t ELSE Put(m[i - 1], s[i])]
  BY <1>10 DEF m
<1>12. \A i \in 0..n : m[i] = IF i = 0 THEN t ELSE Put(m[i - 1], s[i])
  BY <1>11, Zenon
<1>13. m[0] = t /\ \A i \in 1..n : m[i] = Put(m[i - 1], s[i])
  BY <1>6, <1>12
<1> QED
  BY <1>13 DEF m, Put

(* New buckets and an empty list. *)
LEMMA ClearedIs ==
  ASSUME NEW t, IsTable(t), t.num_buckets # Len(Primes)
  PROVE  /\ Spread(Cleared(t), [i \in 0..0 |-> HEAD], 0)
         /\ Cleared(t).value = t.value /\ Cleared(t).size = t.size
         /\ Cleared(t).num_buckets = t.num_buckets + 1
<1> DEFINE u == Cleared(t)
           m == Primes[t.num_buckets + 1]
           e == EmptyBuckets(m)
<1>1. t \in Table /\ t.num_buckets + 1 \in 1..Len(Primes) /\ t.num_buckets \in 1..Len(Primes)
  BY PrimesAre DEF IsTable, Table
<1>2. HEAD \in Nodes
  BY DEF Nodes
<1>3. m \in Nat
  BY <1>1, PrimesAre
<1>4. e \in [0..(m - 1) -> Nodes] /\ \A b \in 0..(m - 1) : e[b] = HEAD
  BY <1>2 DEF EmptyBuckets
<1>5. e \in Edges
  BY <1>1, <1>4 DEF Edges
<1> HIDE DEF e, m
<1>6. u = [t EXCEPT !.num_buckets = t.num_buckets + 1, !.first = e, !.last = e,
                    !.next[HEAD] = HEAD, !.prev[HEAD] = HEAD]
  BY <1>1 DEF Cleared, e, m, Table
<1> HIDE DEF u
<1>7. /\ u \in Table
      /\ u.num_buckets = t.num_buckets + 1 /\ u.first = e /\ u.last = e
      /\ u.next = [t.next EXCEPT ![HEAD] = HEAD] /\ u.prev = [t.prev EXCEPT ![HEAD] = HEAD]
      /\ u.value = t.value /\ u.size = t.size
  BY <1>1, <1>2, <1>5, <1>6 DEF Table
<1>8. u.next[HEAD] = HEAD /\ u.prev[HEAD] = HEAD
  BY <1>1, <1>2, <1>7 DEF Table
<1>9. Buckets(u) = 0..(m - 1)
  BY <1>7 DEF Buckets, NumBuckets, m
<1>10. IsTable(u)
  BY <1>4, <1>7, <1>9 DEF IsTable
<1>11. Ring(u, [i \in 0..0 |-> HEAD], 0)
  <2>1. \A i \in 0..0 : i = 0 /\ After(0, i) = 0 /\ Before(0, i) = 0
    BY DEF After, Before
  <2>2. 0 \in 0..0
    OBVIOUS
  <2> QED
    BY <1>2, <1>8, <2>1, <2>2 DEF Ring
<1>12. \A b \in Buckets(u) : Segment(u, [i \in 0..0 |-> HEAD], 0, b)
  BY <1>4, <1>7, <1>9 DEF Segment
<1> QED
  BY <1>7, <1>10, <1>11, <1>12 DEF Spread, u

LEMMA InsertKeeps ==
  ASSUME NEW t, IsTable(t), NEW k \in Keys, Hashing
  PROVE  /\ InsertToBucket(t, Index(t, k), k) \in Table
         /\ InsertToBucket(t, Index(t, k), k).value = t.value
         /\ InsertToBucket(t, Index(t, k), k).size = t.size
         /\ InsertToBucket(t, Index(t, k), k).num_buckets = t.num_buckets
<1> DEFINE b == Index(t, k)
           empty == BucketIsEmpty(t, b)
           at == At(t, b)
           u == InsertToBucket(t, b, k)
<1>1. b \in Buckets(t)
  BY IndexType
<1>2. /\ IsTable(u)
      /\ u.value = t.value /\ u.size = t.size /\ u.num_buckets = t.num_buckets
      /\ LinkedIn(t, u, at, k)
      /\ u.first = [t.first EXCEPT ![b] = k]
      /\ u.last = [t.last EXCEPT ![b] = IF empty THEN k ELSE t.last[b]]
  BY <1>1, InsertFields
<1> QED
  BY <1>2 DEF IsTable

(* hashtable_do_rehash: the same pairs are in the new buckets. *)
LEMMA SpreadRehash ==
  ASSUME NEW t, NEW c, NEW n, Spread(t, c, n), t.num_buckets # Len(Primes), Hashing
  PROVE  /\ DoRehash(t).value = t.value /\ DoRehash(t).size = t.size
         /\ DoRehash(t).num_buckets = t.num_buckets + 1
         /\ \E d : /\ Spread(DoRehash(t), d, n)
                   /\ \A x : (\E i \in 1..n : d[i] = x) <=> \E i \in 1..n : c[i] = x
<1> DEFINE s == [i \in 1..n |-> c[i]]
           m == Moved(Cleared(t), s)
           Done(i) == /\ m[i].value = t.value /\ m[i].size = t.size
                      /\ m[i].num_buckets = t.num_buckets + 1
                      /\ \E d : /\ Spread(m[i], d, i)
                                /\ \A x : (\E j \in 1..i : d[j] = x) <=> \E j \in 1..i : s[j] = x
           T == {i \in 0..n : ~Done(i)}
<1>1. IsTable(t) /\ Ring(t, c, n) /\ n \in Nat /\ \A i, j \in 1..n : c[i] = c[j] => i = j
  BY DEF Spread, Ring
<1>2. \A i \in 1..n : c[i] \in Keys
  BY <1>1, RingPairs
<1>3. Iteration(t) = s
  BY <1>1, IterationIs
<1>4. Len(s) = n
  BY <1>1, <1>2, IterationType
<1>5. s \in [1..n -> Keys] /\ \A i \in 1..n : s[i] = c[i]
  BY <1>2
<1> HIDE DEF s
<1>6. DoRehash(t) = m[n]
  BY <1>3, <1>4 DEF DoRehash
<1>7. /\ IsTable(Cleared(t))
      /\ Spread(Cleared(t), [i \in 0..0 |-> HEAD], 0)
      /\ Cleared(t).value = t.value /\ Cleared(t).size = t.size
      /\ Cleared(t).num_buckets = t.num_buckets + 1
  BY <1>1, ClearedIs DEF Spread
<1>8. /\ m[0] = Cleared(t)
      /\ \A i \in 1..n : m[i] = InsertToBucket(m[i - 1], Index(m[i - 1], s[i]), s[i])
  BY <1>1, <1>4, <1>5, <1>7, MovedIs
<1> HIDE DEF m
<1>9. Done(0)
  <2>1. \A x, d : ~(\E j \in 1..0 : d[j] = x) /\ ~(\E j \in 1..0 : s[j] = x)
    OBVIOUS
  <2> QED
    BY <1>7, <1>8, <2>1
<1>10. ASSUME T # {} PROVE FALSE
  <2>1. T \in SUBSET Nat
    OBVIOUS
  <2>2. PICK i \in T : \A j \in T : i <= j
    <3> HIDE DEF T
    <3> QED
      BY <1>10, <2>1, Least
  <2>3. i \in 0..n /\ ~Done(i)
    BY <2>2
  <2>4. i # 0
    <3> HIDE DEF Done
    <3> QED
      BY <1>9, <2>3
  <2>5. i \in 1..n /\ i - 1 \in 0..n /\ ~(i <= i - 1) /\ i - 1 \in Nat /\ (i - 1) + 1 = i
    BY <1>1, <2>3, <2>4
  <2>6. Done(i - 1)
    <3> HIDE DEF Done
    <3> QED
      BY <2>2, <2>5
  <2> DEFINE o == i - 1
             u == m[o]
  <2>7. /\ u.value = t.value /\ u.size = t.size /\ u.num_buckets = t.num_buckets + 1
        /\ m[i] = InsertToBucket(u, Index(u, s[i]), s[i])
    BY <1>8, <2>5, <2>6
  <2>8. PICK d : Spread(u, d, o) /\ \A x : (\E j \in 1..o : d[j] = x) <=> \E j \in 1..o : s[j] = x
    BY <2>6
  <2>9. \A j \in 1..o : d[j] # s[i]
    <3> SUFFICES ASSUME NEW j \in 1..o, d[j] = s[i] PROVE FALSE
      OBVIOUS
    <3>1. PICK a \in 1..o : s[a] = s[i]
      BY <2>8
    <3>2. a \in 1..n /\ a # i
      BY <1>1, <2>5
    <3> QED
      BY <1>1, <1>5, <2>5, <3>1, <3>2
  <2>10. s[i] \in Keys /\ IsTable(u)
    BY <1>5, <2>5, <2>8 DEF Spread
  <2> HIDE DEF o, u
  <2>11. PICK e : /\ Spread(m[i], e, o + 1)
                  /\ \A x : (\E j \in 1..(o + 1) : e[j] = x) <=> x = s[i] \/ \E j \in 1..o : d[j] = x
    BY <2>7, <2>8, <2>9, <2>10, SpreadInsert, SMTT(30)
  <2>12. o + 1 = i
    BY <2>5 DEF o
  <2>13. \A x : (\E j \in 1..i : s[j] = x) <=> x = s[i] \/ \E j \in 1..o : s[j] = x
    BY <2>5 DEF o
  <2>14. Index(u, s[i]) \in Buckets(u)
    BY <2>10, IndexType
  <2>15. m[i].value = u.value /\ m[i].size = u.size /\ m[i].num_buckets = u.num_buckets
    <3> DEFINE w == InsertToBucket(u, Index(u, s[i]), s[i])
    <3>2. w.value = u.value /\ w.size = u.size /\ w.num_buckets = u.num_buckets
      BY <2>10, InsertKeeps
    <3>3. m[i] = w
      BY <2>7
    <3> HIDE DEF w
    <3> QED
      BY <3>2, <3>3
  <2>16. \A x : (\E j \in 1..i : e[j] = x) <=> \E j \in 1..i : s[j] = x
    BY <2>8, <2>11, <2>12, <2>13
  <2>17. Done(i)
    BY <2>7, <2>11, <2>12, <2>15, <2>16
  <2> HIDE DEF Done
  <2> QED
    BY <2>3, <2>17
<1>11. Done(n)
  <2> HIDE DEF Done
  <2>1. n \in 0..n
    BY <1>1
  <2>2. T = {}
    <3> HIDE DEF T
    <3> QED
      BY <1>10
  <2> QED
    BY <2>1, <2>2
<1> DEFINE r == DoRehash(t)
<1>12. r = m[n]
  BY <1>6
<1> HIDE DEF r
<1>13. PICK d : /\ Spread(m[n], d, n)
                /\ \A x : (\E j \in 1..n : d[j] = x) <=> \E j \in 1..n : s[j] = x
  BY <1>11
<1>14. \A x : (\E j \in 1..n : s[j] = x) <=> \E j \in 1..n : c[j] = x
  BY <1>5
<1>15. Spread(r, d, n) /\ \A x : (\E j \in 1..n : d[j] = x) <=> \E j \in 1..n : c[j] = x
  BY <1>12, <1>13, <1>14
<1>16. r.value = t.value /\ r.size = t.size /\ r.num_buckets = t.num_buckets + 1
  BY <1>11, <1>12
<1> QED
  BY <1>15, <1>16 DEF r

-----------------------------------------------------------------------------
(* The invariant: the list is a ring of the pairs that have a value, every *)
(* bucket is a segment of it, and there are no more pairs than buckets.    *)

Holds(t, c, n) ==
  /\ Spread(t, c, n) /\ t.size = n /\ n <= NumBuckets(t)
  /\ \A k \in Keys : t.value[k] # NULL <=> \E i \in 1..n : c[i] = k

Sound(t) == \E c, n : Holds(t, c, n)

LEMMA FindSound ==
  ASSUME NEW t, Sound(t), NEW k \in Keys, Hashing
  PROVE  Find(t, k) <=> t.value[k] # NULL
<1>1. PICK c, n : Holds(t, c, n)
  BY DEF Sound
<1>2. Spread(t, c, n) /\ (t.value[k] # NULL <=> \E i \in 1..n : c[i] = k)
  BY <1>1 DEF Holds
<1>3. Find(t, k) <=> \E i \in 1..n : c[i] = k
  BY <1>2, FindCorrect
<1> QED
  BY <1>2, <1>3

(* hashtable_do_del. *)
LEMMA DeleteSound ==
  ASSUME NEW t, Sound(t), NEW k \in Keys, Hashing
  PROVE  /\ Sound(DoDel(t, k))
         /\ DoDel(t, k).value = [t.value EXCEPT ![k] = NULL]
<1>1. PICK c, n : Holds(t, c, n)
  BY DEF Sound
<1>2. /\ Spread(t, c, n) /\ t.size = n /\ n <= NumBuckets(t) /\ n \in Nat
      /\ \A x \in Keys : t.value[x] # NULL <=> \E i \in 1..n : c[i] = x
      /\ IsTable(t)
  BY <1>1 DEF Holds, Spread, Ring
<1>3. Find(t, k) <=> \E i \in 1..n : c[i] = k
  BY <1>2, FindCorrect
<1>4. t.value \in [Keys -> Values \cup {NULL}] /\ NumBuckets(t) \in Nat
  BY <1>2, PrimesAre DEF IsTable, Table, NumBuckets
<1>5. CASE ~Find(t, k)
  <2>1. DoDel(t, k) = t
    BY <1>5 DEF DoDel
  <2>2. t.value[k] = NULL
    BY <1>2, <1>3, <1>5
  <2>3. t.value = [t.value EXCEPT ![k] = NULL]
    BY <1>4, <2>2
  <2> QED
    BY <2>1, <2>3
<1>6. CASE Find(t, k)
  <2>1. PICK p \in 1..n : c[p] = k
    BY <1>3, <1>6
  <2>0. Spread(t, c, n) /\ IsTable(t)
    BY <1>2
  <2>2. t.size > 0 /\ Find(t, c[p])
    BY <1>2, <1>6, <2>1
  <2>3. /\ Spread(DoDel(t, c[p]), Without(c, n, p), n - 1)
        /\ \A x : (\E i \in 1..(n - 1) : Without(c, n, p)[i] = x)
                    <=> x # c[p] /\ \E i \in 1..n : c[i] = x
    BY <2>0, <2>2, SpreadDelete
  <2>5. /\ IsTable(DoDel(t, k))
        /\ DoDel(t, k).value = [t.value EXCEPT ![k] = NULL]
        /\ DoDel(t, k).size = t.size - 1
        /\ DoDel(t, k).num_buckets = t.num_buckets
        /\ Unlinked(t, DoDel(t, k), k)
        /\ \A b \in Buckets(t) :
             IF b # Index(t, k)
               THEN DoDel(t, k).first[b] = t.first[b] /\ DoDel(t, k).last[b] = t.last[b]
               ELSE /\ DoDel(t, k).first[b] = IF k # t.first[b] THEN t.first[b]
                                              ELSE IF k = t.last[b] THEN HEAD ELSE t.next[k]
                    /\ DoDel(t, k).last[b] = IF k # t.last[b] THEN t.last[b]
                                             ELSE IF k = t.first[b] THEN HEAD ELSE t.prev[k]
    BY <2>0, <1>6, <2>2, DeleteFields
  <2> DEFINE u == DoDel(t, k)
             d == Without(c, n, p)
  <2>4. /\ Spread(u, d, n - 1)
        /\ \A x : (\E i \in 1..(n - 1) : d[i] = x) <=> x # k /\ \E i \in 1..n : c[i] = x
    BY <2>1, <2>3
  <2>6. /\ u.value = [t.value EXCEPT ![k] = NULL] /\ u.size = n - 1
        /\ NumBuckets(u) = NumBuckets(t)
    BY <1>2, <2>5 DEF NumBuckets
  <2> HIDE DEF u, d
  <2>7. \A x \in Keys : u.value[x] # NULL <=> x # k /\ t.value[x] # NULL
    BY <1>4, <2>6
  <2>8. \A x \in Keys : u.value[x] # NULL <=> \E i \in 1..(n - 1) : d[i] = x
    BY <1>2, <2>4, <2>7
  <2>9. n - 1 <= NumBuckets(u)
    BY <1>2, <1>4, <2>6
  <2>10. Holds(u, d, n - 1)
    BY <2>4, <2>6, <2>8, <2>9 DEF Holds
  <2> QED
    BY <2>6, <2>10 DEF Sound, u
<1> QED
  BY <1>5, <1>6

(* hashtable_rehash is called only while there are larger numbers of       *)
(* buckets (hashtable.c:126-134, 250), and makes room for a pair.          *)
LEMMA RehashSound ==
  ASSUME NEW t, Sound(t), NEW k \in Keys, t.value[k] = NULL, ~(t.size < NumBuckets(t)), Hashing
  PROVE  /\ Sound(DoRehash(t)) /\ DoRehash(t).value = t.value
         /\ DoRehash(t).size < NumBuckets(DoRehash(t))
<1>1. PICK c, n : Holds(t, c, n)
  BY DEF Sound
<1>2. /\ Spread(t, c, n) /\ t.size = n /\ n <= NumBuckets(t)
      /\ \A x \in Keys : t.value[x] # NULL <=> \E i \in 1..n : c[i] = x
  BY <1>1 DEF Holds
<1>3. IsTable(t) /\ Ring(t, c, n) /\ n \in Nat
  BY <1>2 DEF Spread, Ring
<1>4. n < Cardinality(Keys)
  BY <1>2, <1>3, FewPairs
<1>5. /\ t.num_buckets \in 1..Len(Primes) /\ NumBuckets(t) = Primes[t.num_buckets]
      /\ NumBuckets(t) \in Nat /\ n = NumBuckets(t)
  BY <1>2, <1>3, PrimesAre DEF IsTable, Table, NumBuckets
<1>6. Cardinality(Keys) <= Primes[Len(Primes)] /\ Primes[Len(Primes)] \in Nat
      /\ Cardinality(Keys) \in Nat
  BY TableAssumption, PrimesAre, FS_CardinalityType
<1>7. t.num_buckets # Len(Primes)
  BY <1>4, <1>5, <1>6
<1>a. /\ DoRehash(t).value = t.value /\ DoRehash(t).size = t.size
      /\ DoRehash(t).num_buckets = t.num_buckets + 1
      /\ \E d : /\ Spread(DoRehash(t), d, n)
                /\ \A x : (\E i \in 1..n : d[i] = x) <=> \E i \in 1..n : c[i] = x
  <2>1. Spread(t, c, n) /\ Hashing
    BY <1>2
  <2> QED
    BY ONLY <1>7, <2>1, SpreadRehash
<1> DEFINE r == DoRehash(t)
<1>8. /\ r.value = t.value /\ r.size = t.size /\ r.num_buckets = t.num_buckets + 1
      /\ \E d : /\ Spread(r, d, n)
                /\ \A x : (\E i \in 1..n : d[i] = x) <=> \E i \in 1..n : c[i] = x
  BY <1>a
<1> HIDE DEF r
<1>9. n < NumBuckets(r) /\ NumBuckets(r) \in Nat
  <2>1. /\ t.num_buckets + 1 \in 1..Len(Primes) /\ t.num_buckets < t.num_buckets + 1
    BY <1>5, <1>7, PrimesAre
  <2>2. Primes[t.num_buckets] < Primes[t.num_buckets + 1] /\ Primes[t.num_buckets + 1] \in Nat
    BY <1>5, <2>1, TableAssumption, PrimesAre
  <2> QED
    BY <1>5, <1>8, <2>2 DEF NumBuckets
<1>10. PICK d : /\ Spread(r, d, n)
                /\ \A x : (\E i \in 1..n : d[i] = x) <=> \E i \in 1..n : c[i] = x
  BY <1>8
<1>11. Holds(r, d, n)
  BY <1>2, <1>3, <1>8, <1>9, <1>10 DEF Holds
<1> QED
  BY <1>2, <1>8, <1>9, <1>11 DEF Sound, r

(* hashtable_set's insertion, with the pair's value and the size. *)
Inserted(t, k, v) == [InsertToBucket(t, Index(t, k), k) EXCEPT !.value[k] = v, !.size = @ + 1]

LEMMA InsertSound ==
  ASSUME NEW t, Sound(t), NEW k \in Keys, NEW v \in Values, t.value[k] = NULL,
         t.size < NumBuckets(t), Hashing
  PROVE  /\ Sound(Inserted(t, k, v))
         /\ Inserted(t, k, v).value = [t.value EXCEPT ![k] = v]
<1>1. PICK c, n : Holds(t, c, n)
  BY DEF Sound
<1>2. /\ Spread(t, c, n) /\ t.size = n /\ n < NumBuckets(t)
      /\ \A x \in Keys : t.value[x] # NULL <=> \E i \in 1..n : c[i] = x
  BY <1>1 DEF Holds
<1>3. IsTable(t) /\ n \in Nat /\ v # NULL
  BY <1>2, TableAssumption DEF Spread, Ring
<1>4. /\ t.value \in [Keys -> Values \cup {NULL}] /\ NumBuckets(t) \in Nat
      /\ \A i \in 1..n : c[i] # k
  BY <1>2, <1>3, PrimesAre DEF IsTable, Table, NumBuckets
<1> DEFINE u == InsertToBucket(t, Index(t, k), k)
           w == Inserted(t, k, v)
<1>5. PICK d : /\ Spread(u, d, n + 1)
               /\ \A x : (\E i \in 1..(n + 1) : d[i] = x) <=> x = k \/ \E i \in 1..n : c[i] = x
  <2>1. Spread(t, c, n) /\ (\A i \in 1..n : c[i] # k) /\ Hashing /\ k \in Keys
    BY <1>2, <1>4
  <2>2. \E d : /\ Spread(InsertToBucket(t, Index(t, k), k), d, n + 1)
               /\ \A x : (\E i \in 1..(n + 1) : d[i] = x) <=> x = k \/ \E i \in 1..n : c[i] = x
    BY ONLY <2>1, SpreadInsert, SMTT(60)
  <2> QED
    BY <2>2
<1>6. u \in Table /\ u.value = t.value /\ u.size = n /\ u.num_buckets = t.num_buckets
  BY <1>2, <1>3, InsertKeeps
<1>7. w = [u EXCEPT !.value[k] = v, !.size = @ + 1]
  BY DEF Inserted
<1> HIDE DEF u, w
<1>8. /\ w \in Table /\ w.value = [t.value EXCEPT ![k] = v] /\ w.size = n + 1
      /\ w.next = u.next /\ w.prev = u.prev /\ w.first = u.first /\ w.last = u.last
      /\ w.num_buckets = u.num_buckets
  <2>1. [t.value EXCEPT ![k] = v] \in [Keys -> Values \cup {NULL}]
    BY <1>4
  <2> DEFINE x == [t.value EXCEPT ![k] = v]
  <2>2. w = [u EXCEPT !.value = x, !.size = n + 1]
    BY <1>6, <1>7 DEF Table
  <2> HIDE DEF x
  <2>3. x \in [Keys -> Values \cup {NULL}] /\ n + 1 \in Nat
    BY <1>3, <2>1 DEF x
  <2>4. /\ w \in Table /\ w.value = x /\ w.size = n + 1
        /\ w.next = u.next /\ w.prev = u.prev /\ w.first = u.first /\ w.last = u.last
        /\ w.num_buckets = u.num_buckets
    BY <1>6, <2>2, <2>3 DEF Table
  <2> QED
    BY <2>4 DEF x
<1>9. NumBuckets(w) = NumBuckets(u) /\ NumBuckets(u) = NumBuckets(t)
      /\ Buckets(w) = Buckets(u) /\ \A x : Index(w, x) = Index(u, x)
  BY <1>6, <1>8 DEF NumBuckets, Buckets, Index
<1>10. Spread(w, d, n + 1)
  <2>1. IsTable(u) /\ Ring(u, d, n + 1) /\ \A b \in Buckets(u) : Segment(u, d, n + 1, b)
    BY <1>5 DEF Spread
  <2>2. IsTable(w)
    BY <1>8, <1>9, <2>1 DEF IsTable
  <2>3. Ring(w, d, n + 1)
    BY <1>8, <2>1 DEF Ring
  <2>4. \A b \in Buckets(w) : Segment(w, d, n + 1, b)
    BY <1>8, <1>9, <2>1 DEF Segment, Covers
  <2> QED
    BY <2>2, <2>3, <2>4 DEF Spread
<1>11. \A x \in Keys : w.value[x] # NULL <=> \E i \in 1..(n + 1) : d[i] = x
  <2>1. \A x \in Keys : w.value[x] # NULL <=> x = k \/ t.value[x] # NULL
    BY <1>3, <1>4, <1>8
  <2> QED
    BY <1>2, <1>5, <2>1
<1>12. Holds(w, d, n + 1)
  BY <1>2, <1>3, <1>4, <1>8, <1>9, <1>10, <1>11 DEF Holds
<1> QED
  BY <1>8, <1>12 DEF Sound, w

TableInv == Hashing /\ usable \in BOOLEAN /\ Sound(table)

LEMMA InitSound == Init => TableInv
<1> SUFFICES ASSUME Init PROVE TableInv
  OBVIOUS
<1> DEFINE m == Primes[1]
           e == EmptyBuckets(m)
           c == [i \in 0..0 |-> HEAD]
<1>1. /\ 1 \in 1..Len(Primes) /\ m \in Nat /\ HEAD \in Nodes
  BY PrimesAre DEF Nodes
<1>2. e \in [0..(m - 1) -> Nodes] /\ \A b \in 0..(m - 1) : e[b] = HEAD
  BY <1>1 DEF EmptyBuckets
<1>3. e \in Edges
  BY <1>1, <1>2 DEF Edges
<1> HIDE DEF e
<1>4. /\ table.next = [n \in Nodes |-> n] /\ table.prev = [n \in Nodes |-> n]
      /\ table.first = e /\ table.last = e
      /\ table.value = [k \in Keys |-> NULL] /\ table.size = 0 /\ table.num_buckets = 1
  BY DEF Init, e, m
<1>5. table \in Table
  <2> DEFINE next == [n \in Nodes |-> n]
             value == [k \in Keys |-> NULL]
  <2>1. next \in [Nodes -> Nodes] /\ value \in [Keys -> Values \cup {NULL}]
    OBVIOUS
  <2>2. table = [next |-> next, prev |-> next, first |-> e, last |-> e,
                 value |-> value, size |-> 0, num_buckets |-> 1]
    BY DEF Init, e, m
  <2> HIDE DEF next, value
  <2> QED
    BY <1>1, <1>3, <2>1, <2>2 DEF Table
<1>6. Buckets(table) = 0..(m - 1) /\ NumBuckets(table) = m
  BY <1>4 DEF Buckets, NumBuckets
<1>7. IsTable(table)
  BY <1>2, <1>4, <1>5, <1>6 DEF IsTable
<1>8. Ring(table, c, 0)
  <2>1. \A i \in 0..0 : i = 0 /\ After(0, i) = 0 /\ Before(0, i) = 0
    BY DEF After, Before
  <2>2. 0 \in 0..0 /\ table.next[HEAD] = HEAD /\ table.prev[HEAD] = HEAD
    BY <1>1, <1>4
  <2> QED
    BY <1>1, <2>1, <2>2 DEF Ring
<1>9. \A b \in Buckets(table) : Segment(table, c, 0, b)
  BY <1>2, <1>4, <1>6 DEF Segment
<1>10. \A k \in Keys : table.value[k] # NULL <=> \E i \in 1..0 : c[i] = k
  BY <1>4
<1>11. 0 <= NumBuckets(table)
  BY <1>1, <1>6
<1>12. Holds(table, c, 0)
  BY <1>4, <1>7, <1>8, <1>9, <1>10, <1>11 DEF Holds, Spread
<1> QED
  BY <1>12 DEF TableInv, Sound, Init, Hashing

LEMMA SameHash ==
  ASSUME hash' = hash, Sound(table')
  PROVE  Sound(table)'
<1>1. PICK c, n : Holds(table', c, n)
  BY DEF Sound
<1>2. \A k : Index(table, k)' = Index(table', k)
  BY DEF Index, NumBuckets
<1>3. Holds(table, c, n)'
  BY <1>1, <1>2 DEF Holds, Spread, Segment, Covers, IsTable, Ring, NumBuckets, Buckets
<1> QED
  BY <1>3 DEF Sound

(* One call, as a step of the table and of the dictionary. *)
LEMMA SetStep ==
  ASSUME TableInv, NEW k \in Keys, NEW v \in Values, HashtableSet(k, v)
  PROVE  TableInv' /\ Dict!Set(k, v)
<1> DEFINE t == DoDel(table, k)
           r == DoRehash(t)
           Put(u) == \/ table' = Inserted(u, k, v) /\ result' = "ok"
                     \/ table' = u /\ result' = "error"
<1>1. Hashing /\ Sound(table) /\ usable \in BOOLEAN /\ hash' = hash
  BY DEF TableInv, HashtableSet
<1>2. Sound(t) /\ t.value = [table.value EXCEPT ![k] = NULL]
  BY <1>1, DeleteSound
<1>3. Hashing'
  BY <1>1 DEF Hashing
<1>4. table.value \in [Keys -> Values \cup {NULL}]
  BY <1>1 DEF Sound, Holds, Spread, IsTable, Table
<1>5. t.value[k] = NULL
  BY <1>2, <1>4
<1>6. \/ t.size < NumBuckets(t) /\ Put(t) /\ usable' = usable
      \/ ~(t.size < NumBuckets(t)) /\ Put(r) /\ usable' = usable
      \/ table' = t /\ result' = "error" /\ usable' = FALSE
  BY DEF HashtableSet, Insert, Inserted
<1> HIDE DEF t, r
<1>7. ASSUME NEW u, Sound(u), u.size < NumBuckets(u), u.value = t.value, Put(u)
      PROVE  Sound(table') /\ Dict!Set(k, v)
  <2>1. /\ Sound(Inserted(u, k, v))
        /\ Inserted(u, k, v).value = [u.value EXCEPT ![k] = v]
    BY <1>1, <1>5, <1>7, InsertSound
  <2>2. [u.value EXCEPT ![k] = v] = [table.value EXCEPT ![k] = v]
    BY <1>2, <1>4, <1>7
  <2>3. CASE table' = Inserted(u, k, v) /\ result' = "ok"
    BY <2>1, <2>2, <2>3 DEF Dict!Set
  <2>4. CASE table' = u /\ result' = "error"
    BY <1>2, <1>7, <2>4 DEF Dict!Set
  <2> QED
    BY <1>7, <2>3, <2>4
<1>8. CASE t.size < NumBuckets(t) /\ Put(t) /\ usable' = usable
  <2>1. Sound(table') /\ Dict!Set(k, v)
    <3> HIDE DEF Put
    <3> QED
      BY <1>2, <1>7, <1>8
  <2> QED
    BY <1>1, <1>3, <1>8, <2>1, SameHash DEF TableInv
<1>9. CASE ~(t.size < NumBuckets(t)) /\ Put(r) /\ usable' = usable
  <2>1. Sound(r) /\ r.value = t.value /\ r.size < NumBuckets(r)
    BY <1>1, <1>2, <1>5, <1>9, RehashSound DEF r
  <2>2. Sound(table') /\ Dict!Set(k, v)
    <3> HIDE DEF Put
    <3> QED
      BY <1>7, <1>9, <2>1
  <2> QED
    BY <1>1, <1>3, <1>9, <2>2, SameHash DEF TableInv
<1>10. CASE table' = t /\ result' = "error" /\ usable' = FALSE
  <2>1. Sound(table')
    BY <1>2, <1>10
  <2>2. Dict!Set(k, v)
    BY <1>2, <1>10 DEF Dict!Set
  <2> QED
    BY <1>1, <1>3, <1>10, <2>1, <2>2, SameHash DEF TableInv
<1> QED
  BY <1>6, <1>8, <1>9, <1>10

LEMMA DelStep ==
  ASSUME TableInv, NEW k \in Keys, HashtableDel(k)
  PROVE  TableInv' /\ Dict!Del(k)
<1>1. Hashing /\ Sound(table) /\ usable \in BOOLEAN /\ hash' = hash /\ usable' = usable
      /\ table' = DoDel(table, k) /\ result' = IF Find(table, k) THEN "ok" ELSE "error"
  BY DEF TableInv, HashtableDel
<1>2. Sound(DoDel(table, k)) /\ DoDel(table, k).value = [table.value EXCEPT ![k] = NULL]
  BY <1>1, DeleteSound
<1>3. Find(table, k) <=> table.value[k] # NULL
  BY <1>1, FindSound
<1>4. Sound(table') /\ table'.value = [table.value EXCEPT ![k] = NULL]
  BY <1>1, <1>2
<1>5. Hashing'
  BY <1>1 DEF Hashing
<1>6. TableInv'
  BY <1>1, <1>4, <1>5, SameHash DEF TableInv
<1>7. Dict!Del(k)
  BY <1>1, <1>3, <1>4 DEF Dict!Del
<1> QED
  BY <1>6, <1>7

LEMMA GetStep ==
  ASSUME TableInv, NEW k \in Keys, HashtableGet(k)
  PROVE  TableInv' /\ Dict!Get(k)
<1>1. Hashing /\ Sound(table) /\ usable \in BOOLEAN /\ hash' = hash /\ usable' = usable
      /\ table' = table /\ result' = IF Find(table, k) THEN table.value[k] ELSE NULL
  BY DEF TableInv, HashtableGet
<1>2. Find(table, k) <=> table.value[k] # NULL
  BY <1>1, FindSound
<1>3. Hashing' /\ Sound(table')
  BY <1>1 DEF Hashing
<1>4. TableInv'
  BY <1>1, <1>3, SameHash DEF TableInv
<1>5. Dict!Get(k)
  BY <1>1, <1>2 DEF Dict!Get
<1> QED
  BY <1>4, <1>5

LEMMA TableStep == TableInv /\ [Next]_vars => TableInv' /\ [Dict!Next]_(Dict!dictVars)
<1> SUFFICES ASSUME TableInv, [Next]_vars
             PROVE  TableInv' /\ [Dict!Next]_(Dict!dictVars)
  OBVIOUS
<1>1. ASSUME NEW k \in Keys, NEW v \in Values, HashtableSet(k, v)
      PROVE  TableInv' /\ Dict!Next
  BY <1>1, SetStep DEF Dict!Next
<1>2. ASSUME NEW k \in Keys, HashtableDel(k) PROVE TableInv' /\ Dict!Next
  BY <1>2, DelStep DEF Dict!Next
<1>3. ASSUME NEW k \in Keys, HashtableGet(k) PROVE TableInv' /\ Dict!Next
  BY <1>3, GetStep DEF Dict!Next
<1>4. CASE UNCHANGED vars
  <2>1. /\ hash' = hash /\ table' = table /\ usable' = usable /\ result' = result
        /\ Hashing /\ Sound(table) /\ usable \in BOOLEAN
    BY <1>4 DEF vars, TableInv
  <2>2. Hashing' /\ Sound(table')
    BY <2>1 DEF Hashing
  <2>3. TableInv'
    BY <2>1, <2>2, SameHash DEF TableInv
  <2> QED
    BY <2>1, <2>3 DEF Dict!dictVars
<1> QED
  BY <1>1, <1>2, <1>3, <1>4 DEF Next

(* The links and the buckets are as TableInv says after any calls of       *)
(* hashtable_set, hashtable_del and hashtable_get (hashtable.c:239-293).   *)
THEOREM TableInvariant == Spec => []TableInv
<1> QED
  BY InitSound, TableStep, PTL DEF Spec

-----------------------------------------------------------------------------
(* What follows from the invariant *)

LEMMA TypeFollows == TableInv => TypeOK
<1> SUFFICES ASSUME TableInv PROVE TypeOK
  OBVIOUS
<1>1. PICK c, n : Holds(table, c, n)
  BY DEF TableInv, Sound
<1>2. IsTable(table) /\ table.size = n /\ n \in Nat /\ n <= NumBuckets(table) /\ usable \in BOOLEAN
  BY <1>1 DEF Holds, Spread, Ring, TableInv
<1>3. NumBuckets(table) \in Nat /\ Buckets(table) = 0..(NumBuckets(table) - 1)
  BY <1>2, PrimesAre DEF IsTable, Table, NumBuckets, Buckets
<1>4. table \in Table
  BY <1>2 DEF IsTable
<1> QED
  BY <1>2, <1>3, <1>4 DEF TypeOK, IsTable, Table

LEMMA LinksFollow == TableInv => Linked
<1> SUFFICES ASSUME TableInv PROVE Linked
  OBVIOUS
<1>1. PICK c, n : Holds(table, c, n)
  BY DEF TableInv, Sound
<1>2. /\ Ring(table, c, n) /\ n \in Nat /\ c[0] = HEAD
      /\ \A i \in 0..n : table.next[c[i]] = c[After(n, i)] /\ table.prev[c[i]] = c[Before(n, i)]
      /\ \A k \in Keys : table.value[k] # NULL <=> \E i \in 1..n : c[i] = k
  BY <1>1 DEF Holds, Spread, Ring
<1>3. \A i \in 1..n : c[i] \in Keys
  BY <1>2, RingPairs
<1>4. \A x : x \in Pairs \cup {HEAD} <=> \E i \in 0..n : c[i] = x
  <2>1. \A i \in 0..n : i = 0 \/ i \in 1..n
    BY <1>2
  <2>2. 0 \in 0..n /\ \A i \in 1..n : i \in 0..n
    BY <1>2
  <2> QED
    BY <1>2, <1>3, <2>1, <2>2 DEF Pairs
<1>5. \A i \in 0..n : /\ After(n, i) \in 0..n /\ Before(n, After(n, i)) = i
                      /\ Before(n, i) \in 0..n /\ After(n, Before(n, i)) = i
  BY <1>2 DEF After, Before
<1>6. ASSUME NEW x \in Pairs \cup {HEAD}
      PROVE  /\ table.next[x] \in Pairs \cup {HEAD} /\ table.prev[table.next[x]] = x
             /\ table.prev[x] \in Pairs \cup {HEAD} /\ table.next[table.prev[x]] = x
  <2>1. PICK i \in 0..n : c[i] = x
    BY <1>4
  <2>2. table.next[x] = c[After(n, i)] /\ table.prev[x] = c[Before(n, i)]
    BY <1>2, <2>1
  <2>3. c[After(n, i)] \in Pairs \cup {HEAD} /\ c[Before(n, i)] \in Pairs \cup {HEAD}
    BY <1>4, <1>5
  <2>4. table.prev[c[After(n, i)]] = x /\ table.next[c[Before(n, i)]] = x
    BY <1>2, <1>5, <2>1
  <2> QED
    BY <2>2, <2>3, <2>4
<1> QED
  BY <1>6 DEF Linked

LEMMA BucketsFollow == TableInv => BucketsAreSegments
<1> SUFFICES ASSUME TableInv PROVE BucketsAreSegments
  OBVIOUS
<1> DEFINE Same(x, b) == x # HEAD /\ Index(table, x) = b
<1>1. PICK c, n : Holds(table, c, n)
  BY DEF TableInv, Sound
<1>2. /\ IsTable(table) /\ Ring(table, c, n) /\ n \in Nat /\ c[0] = HEAD
      /\ \A b \in Buckets(table) : Segment(table, c, n, b)
      /\ \A i, j \in 0..n : c[i] = c[j] => i = j
      /\ \A i \in 0..n : table.next[c[i]] = c[After(n, i)] /\ table.prev[c[i]] = c[Before(n, i)]
      /\ \A k \in Keys : table.value[k] # NULL <=> \E i \in 1..n : c[i] = k
  BY <1>1 DEF Holds, Spread, Ring
<1>3. \A i \in 1..n : i \in 0..n /\ c[i] \in Keys /\ c[i] # HEAD
  BY <1>2, RingPairs
<1>4. \A x : x \in Pairs <=> \E i \in 1..n : c[i] = x
  BY <1>2, <1>3 DEF Pairs
<1>5. DOMAIN table.first = Buckets(table) /\ \A k \in Keys : Index(table, k) \in Buckets(table)
  BY <1>2, IndexType DEF IsTable, TableInv
<1>6. ASSUME NEW b \in Buckets(table)
      PROVE  \/ BucketIsEmpty(table, b) /\ \A k \in Pairs : Index(table, k) # b
             \/ /\ {table.first[b], table.last[b]} \subseteq Pairs
                /\ Index(table, table.first[b]) = b /\ Index(table, table.last[b]) = b
  <2>1. CASE /\ table.first[b] = HEAD /\ table.last[b] = HEAD
             /\ \A i \in 1..n : Index(table, c[i]) # b
    BY <1>4, <2>1 DEF BucketIsEmpty
  <2>2. ASSUME NEW lo \in 1..n, NEW hi \in 1..n, Covers(table, c, n, b, lo, hi)
        PROVE  /\ {table.first[b], table.last[b]} \subseteq Pairs
               /\ Index(table, table.first[b]) = b /\ Index(table, table.last[b]) = b
    <3>1. /\ lo <= hi /\ table.first[b] = c[lo] /\ table.last[b] = c[hi]
          /\ \A i \in 1..n : Index(table, c[i]) = b <=> lo <= i /\ i <= hi
      BY <2>2 DEF Covers
    <3>2. Index(table, c[lo]) = b /\ Index(table, c[hi]) = b
      BY <3>1
    <3> QED
      BY <1>4, <3>1, <3>2
  <2> QED
    BY <1>2, <2>1, <2>2 DEF Segment
<1>7. ASSUME NEW k \in Pairs
      PROVE  /\ k = table.first[Index(table, k)] <=> ~Same(table.prev[k], Index(table, k))
             /\ k = table.last[Index(table, k)] <=> ~Same(table.next[k], Index(table, k))
  <2> DEFINE b == Index(table, k)
  <2>1. PICK i \in 1..n : c[i] = k
    BY <1>4
  <2>2. b \in Buckets(table)
    BY <1>5 DEF Pairs
  <2>3. ~(\A j \in 1..n : Index(table, c[j]) # b)
    BY <2>1
  <2>4. PICK lo \in 1..n, hi \in 1..n : Covers(table, c, n, b, lo, hi)
    BY <1>2, <2>2, <2>3 DEF Segment
  <2>5. /\ lo <= hi /\ table.first[b] = c[lo] /\ table.last[b] = c[hi]
        /\ \A j \in 1..n : Index(table, c[j]) = b <=> lo <= j /\ j <= hi
    BY <2>4 DEF Covers
  <2>6. lo <= i /\ i <= hi
    BY <2>1, <2>5
  <2>7. (k = table.first[b] <=> i = lo) /\ (k = table.last[b] <=> i = hi)
    BY <1>2, <1>3, <2>1, <2>5
  <2>8. table.prev[k] = c[Before(n, i)] /\ table.next[k] = c[After(n, i)]
    BY <1>2, <1>3, <2>1
  <2> HIDE DEF b
  <2>9. Same(table.prev[k], b) <=> i # lo
    <3>1. CASE i = 1
      <4>1. table.prev[k] = HEAD /\ i = lo
        BY <1>2, <2>6, <2>8, <3>1 DEF Before
      <4> QED
        BY <4>1
    <3>2. CASE i # 1
      <4>0. i - 1 \in 1..n /\ Before(n, i) = i - 1
        BY <1>2, <3>2 DEF Before
      <4>1. i - 1 \in 1..n /\ table.prev[k] = c[i - 1]
        BY <2>8, <4>0
      <4>2. Index(table, c[i - 1]) = b <=> i # lo
        BY <2>5, <2>6, <4>1
      <4> QED
        BY <1>3, <4>1, <4>2
    <3> QED
      BY <3>1, <3>2
  <2>10. Same(table.next[k], b) <=> i # hi
    <3>1. CASE i = n
      <4>1. table.next[k] = HEAD /\ i = hi
        BY <1>2, <2>6, <2>8, <3>1 DEF After
      <4> QED
        BY <4>1
    <3>2. CASE i # n
      <4>0. i + 1 \in 1..n /\ After(n, i) = i + 1
        BY <1>2, <3>2 DEF After
      <4>1. i + 1 \in 1..n /\ table.next[k] = c[i + 1]
        BY <2>8, <4>0
      <4>2. Index(table, c[i + 1]) = b <=> i # hi
        BY <2>5, <2>6, <4>1
      <4> QED
        BY <1>3, <4>1, <4>2
    <3> QED
      BY <3>1, <3>2
  <2> QED
    BY <2>7, <2>9, <2>10 DEF b
<1> QED
  BY <1>5, <1>6, <1>7 DEF BucketsAreSegments

LEMMA IterationFollows == TableInv => IterationIsComplete
<1> SUFFICES ASSUME TableInv PROVE IterationIsComplete
  OBVIOUS
<1>1. PICK c, n : Holds(table, c, n)
  BY DEF TableInv, Sound
<1>2. /\ IsTable(table) /\ Ring(table, c, n) /\ n \in Nat /\ table.size = n
      /\ \A i, j \in 1..n : c[i] = c[j] => i = j
      /\ \A k \in Keys : table.value[k] # NULL <=> \E i \in 1..n : c[i] = k
  BY <1>1 DEF Holds, Spread, Ring
<1>3. \A i \in 1..n : c[i] \in Keys
  BY <1>2, RingPairs
<1> DEFINE s == [i \in 1..n |-> c[i]]
<1>4. Iteration(table) = s
  BY <1>2, IterationIs
<1>5. Len(s) = n
  BY <1>2, <1>3, IterationType
<1>6. \A i \in 1..n : s[i] = c[i]
  OBVIOUS
<1> HIDE DEF s
<1>7. {s[i] : i \in 1..n} = Pairs
  BY <1>2, <1>3, <1>6 DEF Pairs
<1> QED
  BY <1>2, <1>4, <1>5, <1>6, <1>7 DEF IterationIsComplete

(* The fields keep their types, and there are never more pairs than        *)
(* buckets (hashtable.c:250-251).                                          *)
THEOREM TypeCorrect == Spec => []TypeOK
<1> QED
  BY TableInvariant, TypeFollows, PTL

(* The links back and forth agree (hashtable.c:26-38, 157-165).            *)
THEOREM LinksAgree == Spec => []Linked
<1> QED
  BY TableInvariant, LinksFollow, PTL

(* Every bucket is one segment of the list of all pairs (hashtable.c:45-58, *)
(* 114-121).                                                               *)
THEOREM BucketsCorrect == Spec => []BucketsAreSegments
<1> QED
  BY TableInvariant, BucketsFollow, PTL

(* Iterating visits each pair exactly once (hashtable.c:223-234, 295-306). *)
THEOREM IterationComplete == Spec => []IterationIsComplete
<1> QED
  BY TableInvariant, IterationFollows, PTL

(* The hash table implements the dictionary: whatever the hash function,   *)
(* the buckets and the links, a key has the value it was last given        *)
(* (hashtable.c:74-97, 239-293).                                           *)
THEOREM TableRefinesDictionary == Spec => IsDictionary
<1>1. Init => Dict!Init
  BY DEF Init, Dict!Init
<1> QED
  BY <1>1, TableInvariant, TableStep, PTL DEF Spec, IsDictionary, Dict!Spec
=============================================================================
