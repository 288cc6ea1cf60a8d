---------------------------- MODULE MCHashTable -----------------------------
EXTENDS HashTable, TLC

CONSTANTS k1, k2, k3, k4, v1, v2

\* k1 and k2 have the same hash, k3 another one in the same bucket.
MCHash == (k1 :> 5) @@ (k2 :> 5) @@ (k3 :> 7) @@ (k4 :> 6)
=============================================================================
