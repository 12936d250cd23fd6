\* All hash functions, collisions included; malloc may fail.
SPECIFICATION Spec
CONSTANTS
  k1 = k1
  k2 = k2
  k3 = k3
  k4 = k4
  HEAD = HEAD
  NULL = NULL
  Keys = {k1, k2, k3, k4}
  Values = {"v", "w"}
  Hashes <- MCHashes
  Primes <- MCPrimes
  MallocFails = TRUE
SYMMETRY KeySymmetry
INVARIANT TypeOK
INVARIANT Linked
INVARIANT BucketsAreSegments
INVARIANT IterationIsComplete
PROPERTY IsDictionary
\* No calls are possible once a rehash has lost the buckets.
CHECK_DEADLOCK FALSE
