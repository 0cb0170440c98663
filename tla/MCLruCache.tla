---------------------------- MODULE MCLruCache ----------------------------
EXTENDS LruCache, TLC

CONSTANTS k1, k2, k3, k4, s1, s2

\* Three keys compete for the two places of one shard, one has the other.
MCShardOf == k1 :> s1 @@ k2 :> s1 @@ k3 :> s1 @@ k4 :> s2
MCSymmetry == Permutations(Addrs) \cup Permutations(Values)
===========================================================================
