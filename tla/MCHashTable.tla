----------------------------- MODULE MCHashTable -----------------------------
(* Four keys, every function into four hashes, and few enough buckets      *)
(* that the table is rehashed twice.                                       *)
EXTENDS HashTable, TLC

MCPrimes == <<2, 3, 5>>
MCHashes == {0, 1, 3, 4}
KeySymmetry == Permutations(Keys)
=============================================================================
