SPECIFICATION Spec
CONSTANTS
  k1 = k1
  k2 = k2
  k3 = k3
  k4 = k4
  s1 = s1
  s2 = s2
  Keys = {k1, k2, k3, k4}
  Values = {v1, v2}
  Shards = {s1, s2}
  ShardOf <- MCShardOf
  Cap = 4
  Addrs = {a1, a2, a3, a4}
  Null = Null
  Free = Free
  Error = Error
  MaxRefs = 1
SYMMETRY MCSymmetry
INVARIANTS ListMatchesMap ReferencesStable
PROPERTY ImplementsLru
