------------------------------ MODULE HashTable ------------------------------
(***************************************************************************)
(* hashtable.c, pointer by pointer.  All pairs of the table are in one     *)
(* circular, doubly linked list; HEAD is the list's own node,              *)
(* &hashtable->list.  A bucket is the segment of that list between two     *)
(* pairs, or, when it is empty, twice HEAD.  The table of the model is a   *)
(* record with the fields of hashtable_t; a pair is named by its key,      *)
(* since setting a key deletes the pair it had.                            *)
(***************************************************************************)
EXTENDS Naturals, SequencesExt

CONSTANTS Keys,
          Values,
          Hashes,       \* what hash_key may return
          Primes,       \* 5, 13, 23, 53, ... in the code
          MallocFails,  \* TRUE if malloc may return NULL
          HEAD, NULL

ASSUME TableAssumption ==
         /\ IsFiniteSet(Keys) /\ HEAD \notin Keys
         /\ Hashes \subseteq Nat
         /\ Primes \in Seq(Nat \ {0}) /\ Primes # <<>>
         /\ \A i, j \in 1..Len(Primes) : i < j => Primes[i] < Primes[j]
         /\ Cardinality(Keys) <= Primes[Len(Primes)]
         /\ MallocFails \in BOOLEAN
         /\ {NULL, "ok", "error"} \cap Values = {}

Nodes == Keys \cup {HEAD}

VARIABLES
  hash,    \* hash_key: any function of the keys
  table,   \* next, prev: list; first, last: buckets; value; size; num_buckets
  usable,  \* FALSE once a rehash has lost the buckets
  result   \* what the last call returned

vars == <<hash, table, usable, result>>

NumBuckets(t) == Primes[t.num_buckets]
Index(t, k) == hash[k] % NumBuckets(t)

-----------------------------------------------------------------------------
(* Functions of the code, each from a table to the table it leaves.        *)

EmptyBuckets(n) == [b \in 0..(n - 1) |-> HEAD]

(* list_insert: node goes before the node at. *)
ListInsert(t, at, node) ==
  [t EXCEPT !.next[t.prev[at]] = node, !.next[node] = at,
            !.prev[node] = t.prev[at], !.prev[at] = node]

ListRemoveNextOnly(t, node) ==   \* a bug: the links back are left as they were
  [t EXCEPT !.next[t.prev[node]] = t.next[node]]

ListRemove(t, node) == [t EXCEPT !.next[t.prev[node]] = t.next[node],
                                 !.prev[t.next[node]] = t.prev[node]]

BucketIsEmpty(t, b) == t.first[b] = HEAD /\ t.first[b] = t.last[b]

InsertToBucketAtHead(t, b, k) ==   \* a bug: always at the end of the list
  [ListInsert(t, HEAD, k) EXCEPT
     !.first[b] = IF BucketIsEmpty(t, b) THEN k ELSE @,
     !.last[b] = k]

(* In front of its bucket, or at the end of the list for an empty one.     *)
InsertToBucket(t, b, k) ==
  LET empty == BucketIsEmpty(t, b)
  IN [ListInsert(t, IF empty THEN HEAD ELSE t.first[b], k) EXCEPT
        !.first[b] = k,
        !.last[b] = IF empty THEN k ELSE @]

(* The pairs from `from' on, following next. *)
Chain(t, from) == LET c[i \in 0..Cardinality(Keys)] ==
                        IF i = 0 THEN from ELSE t.next[c[i - 1]]
                  IN c

(* hashtable_find_pair walks from the first to the last pair of a bucket.  *)
Find(t, k) ==
  LET b == Index(t, k)
      c == Chain(t, t.first[b])
  IN /\ ~BucketIsEmpty(t, b)
     /\ \E i \in DOMAIN c : /\ c[i] = k
                            /\ \A j \in 0..(i - 1) : c[j] # t.last[b]

(* The node of a key without a pair is as list_init makes it.              *)
Free(t, k) == [t EXCEPT !.value[k] = NULL, !.next[k] = k, !.prev[k] = k]

DoDelKeepingLast(t, k) ==   \* a bug: the bucket still ends at the old pair
  LET b == Index(t, k)
      u == IF k = t.first[b] /\ k = t.last[b]
             THEN [t EXCEPT !.first[b] = HEAD, !.last[b] = HEAD]
             ELSE IF k = t.first[b] THEN [t EXCEPT !.first[b] = t.next[k]] ELSE t
  IN IF Find(t, k) THEN [Free(ListRemove(u, k), k) EXCEPT !.size = @ - 1] ELSE t

DoDelNotCounting(t, k) ==   \* a bug: the size remains
  LET b == Index(t, k)
      u == CASE k = t.first[b] /\ k = t.last[b] -> [t EXCEPT !.first[b] = HEAD, !.last[b] = HEAD]
             [] k = t.first[b] /\ k # t.last[b] -> [t EXCEPT !.first[b] = t.next[k]]
             [] k # t.first[b] /\ k = t.last[b] -> [t EXCEPT !.last[b] = t.prev[k]]
             [] OTHER -> t
  IN IF Find(t, k) THEN Free(ListRemove(u, k), k) ELSE t

(* hashtable_do_del: move the edges of the bucket, unlink and free the     *)
(* pair.                                                                   *)
DoDel(t, k) ==
  LET b == Index(t, k)
      u == CASE k = t.first[b] /\ k = t.last[b] -> [t EXCEPT !.first[b] = HEAD, !.last[b] = HEAD]
             [] k = t.first[b] /\ k # t.last[b] -> [t EXCEPT !.first[b] = t.next[k]]
             [] k # t.first[b] /\ k = t.last[b] -> [t EXCEPT !.last[b] = t.prev[k]]
             [] OTHER -> t
  IN IF Find(t, k)
       THEN [Free(ListRemove(u, k), k) EXCEPT !.size = @ - 1]
       ELSE t

(* The pairs in the order of hashtable_iter and hashtable_iter_next.       *)
Iteration(t) == LET c == Chain(t, t.next[HEAD])
                    n == CHOOSE i \in 0..(Cardinality(Keys) + 1) :
                           /\ i \in DOMAIN c => c[i] = HEAD
                           /\ \A j \in 0..(i - 1) : c[j] # HEAD
                IN [i \in 1..n |-> c[i - 1]]

(* hashtable_do_rehash: new buckets and an empty list, into which the      *)
(* pairs are inserted in the order of the old list: the next one is read   *)
(* before a pair is moved.                                                 *)
Cleared(t) == LET n == Primes[t.num_buckets + 1]
              IN [t EXCEPT !.num_buckets = @ + 1,
                           !.first = EmptyBuckets(n), !.last = EmptyBuckets(n),
                           !.next[HEAD] = HEAD, !.prev[HEAD] = HEAD]

Moved(t, pairs) ==
  LET m[i \in 0..Len(pairs)] ==
        IF i = 0 THEN t
                 ELSE InsertToBucket(m[i - 1], Index(m[i - 1], pairs[i]), pairs[i])
  IN m

DoRehash(t) == LET pairs == Iteration(t)
               IN Moved(Cleared(t), pairs)[Len(pairs)]

-----------------------------------------------------------------------------
Init == /\ hash \in [Keys -> Hashes]
        /\ table = [next |-> [n \in Nodes |-> n], prev |-> [n \in Nodes |-> n],
                    first |-> EmptyBuckets(Primes[1]), last |-> EmptyBuckets(Primes[1]),
                    value |-> [k \in Keys |-> NULL], size |-> 0, num_buckets |-> 1]
        /\ usable = TRUE
        /\ result = NULL

(* The pair is made and put into its bucket, unless malloc fails.          *)
Insert(t, k, v) ==
  \/ /\ table' = [InsertToBucket(t, Index(t, k), k) EXCEPT !.value[k] = v, !.size = @ + 1]
     /\ result' = "ok"
  \/ /\ MallocFails
     /\ table' = t
     /\ result' = "error"

HashtableSetOverfull(k, v) ==   \* a bug: > for >=
  /\ usable
  /\ LET t == DoDel(table, k)
     IN Insert(IF t.size > NumBuckets(t) THEN DoRehash(t) ELSE t, k, v)
  /\ UNCHANGED <<hash, usable>>

(* The pair there was is deleted first, whatever happens then.  Without    *)
(* memory for new buckets the old ones are gone nevertheless.              *)
HashtableSet(k, v) ==
  /\ usable
  /\ LET t == DoDel(table, k)
     IN IF t.size < NumBuckets(t)
          THEN Insert(t, k, v) /\ UNCHANGED usable
          ELSE \/ Insert(DoRehash(t), k, v) /\ UNCHANGED usable
               \/ /\ MallocFails
                  /\ table' = t
                  /\ usable' = FALSE
                  /\ result' = "error"
  /\ UNCHANGED hash

HashtableDel(k) == /\ usable
                   /\ result' = IF Find(table, k) THEN "ok" ELSE "error"
                   /\ table' = DoDel(table, k)
                   /\ UNCHANGED <<hash, usable>>

HashtableGet(k) == /\ usable
                   /\ result' = IF Find(table, k) THEN table.value[k] ELSE NULL
                   /\ UNCHANGED <<hash, table, usable>>

Next == \/ \E k \in Keys, v \in Values : HashtableSet(k, v)
        \/ \E k \in Keys : HashtableDel(k)
        \/ \E k \in Keys : HashtableGet(k)

Spec == Init /\ [][Next]_vars

-----------------------------------------------------------------------------
Pairs == {k \in Keys : table.value[k] # NULL}

(* Type invariant, with the load ratio: there are never more pairs than    *)
(* buckets (hashtable.c:250-251).                                          *)
TypeOK ==
  /\ table.next \in [Nodes -> Nodes] /\ table.prev \in [Nodes -> Nodes]
  /\ table.num_buckets \in 1..Len(Primes)
  /\ table.first \in [0..(NumBuckets(table) - 1) -> Nodes]
  /\ table.last \in [0..(NumBuckets(table) - 1) -> Nodes]
  /\ table.value \in [Keys -> Values \cup {NULL}]
  /\ table.size \in 0..NumBuckets(table)
  /\ usable \in BOOLEAN

(* The links back and forth agree over the pairs of the table, through     *)
(* every deletion, insertion and rehash (hashtable.c:26-38, 157-165).      *)
Linked == \A n \in Pairs \cup {HEAD} :
            /\ table.next[n] \in Pairs \cup {HEAD} /\ table.prev[table.next[n]] = n
            /\ table.prev[n] \in Pairs \cup {HEAD} /\ table.next[table.prev[n]] = n

(* Every bucket is one segment of the list: it begins at its first pair,   *)
(* ends at its last, and a pair's neighbours are of its own bucket unless  *)
(* it is at that edge (hashtable.c:45-58, 114-121).                        *)
BucketsAreSegments ==
  /\ \A b \in DOMAIN table.first :
       \/ BucketIsEmpty(table, b) /\ \A k \in Pairs : Index(table, k) # b
       \/ /\ {table.first[b], table.last[b]} \subseteq Pairs
          /\ Index(table, table.first[b]) = b /\ Index(table, table.last[b]) = b
  /\ \A k \in Pairs :
       LET b == Index(table, k)
           Same(n) == n # HEAD /\ Index(table, n) = b
       IN /\ k = table.first[b] <=> ~Same(table.prev[k])
          /\ k = table.last[b] <=> ~Same(table.next[k])

(* Iterating, as listing transports, plugins and variables and destroying  *)
(* the table do, visits each pair exactly once (hashtable.c:223-234,       *)
(* 295-306).                                                               *)
IterationIsComplete ==
  LET s == Iteration(table)
  IN /\ Len(s) = table.size /\ {s[i] : i \in 1..Len(s)} = Pairs
     /\ \A i, j \in 1..Len(s) : s[i] = s[j] => i = j

(* The table is a dictionary: what find_pair sees through the buckets is   *)
(* what was set and not deleted since (hashtable.c:74-97, 239-293).        *)
Dict == INSTANCE Dictionary WITH map <- table.value
IsDictionary == Dict!Spec
=============================================================================
