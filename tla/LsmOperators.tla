---------------------------- MODULE LsmOperators -----------------------------
(***************************************************************************)
(* What the operators of LsmTree and Version compute: picking, sorting and *)
(* inserting tables, applying edits, merging and sharding data, the tables *)
(* that meet a scope, and the binary search of query.                      *)
(***************************************************************************)
EXTENDS LsmTree, FiniteSetTheorems, WellFoundedInduction, TLAPS

(* A set of numbers has a least one. *)
LEMMA Least ==
  ASSUME NEW B \in SUBSET Nat, B # {}
  PROVE  \E m \in B : \A n \in B : m <= n
<1>1. PICK m \in B : \A n \in B : ~(<<n, m>> \in OpToRel(<, Nat))
  BY NatLessThanWellFounded, WFMin, Zenon
<1>2. \A n \in B : ~(n < m)
  BY <1>1, Zenon DEF OpToRel
<1> QED
  BY <1>2

(* If some number in 0..N is bad, there is one whose predecessors are not. *)
LEMMA LeastBad ==
  ASSUME NEW N \in Nat, NEW B \in SUBSET (0..N), 0 \notin B, B # {}
  PROVE  \E n \in 1..N : n \in B /\ n - 1 \notin B /\ n - 1 \in 0..N
<1>1. PICK m \in B : \A n \in B : m <= n
  BY Least, B \in SUBSET Nat
<1>2. m \in 1..N /\ m - 1 \in 0..N /\ ~(m <= m - 1)
  BY <1>1
<1> QED
  BY <1>1, <1>2, Zenon

LEMMA FiniteMax ==
  ASSUME NEW S \in SUBSET Int, IsFiniteSet(S), S # {}
  PROVE  Max(S) \in S /\ \A y \in S : y <= Max(S)
<1> DEFINE Has(T) == \E x \in T : \A y \in T : x >= y
           B == {n \in 0..Cardinality(S) : \E T \in SUBSET S : Cardinality(T) = n /\ T # {} /\ ~Has(T)}
<1> HIDE DEF Has
<1>1. Cardinality(S) \in Nat
  BY FS_CardinalityType
<1>2. \A T \in SUBSET S : IsFiniteSet(T) /\ Cardinality(T) \in 0..Cardinality(S)
  <2> SUFFICES ASSUME NEW T \in SUBSET S
               PROVE  IsFiniteSet(T) /\ Cardinality(T) \in 0..Cardinality(S)
    OBVIOUS
  <2>1. IsFiniteSet(T) /\ Cardinality(T) <= Cardinality(S)
    BY FS_Subset, Zenon
  <2>2. Cardinality(T) \in Nat
    BY <2>1, FS_CardinalityType, Zenon
  <2> QED
    BY ONLY <1>1, <2>1, <2>2
<1>3. 0 \notin B
  BY <1>2, FS_EmptySet
<1>4. ASSUME B # {} PROVE FALSE
  <2>1. B \in SUBSET (0..Cardinality(S))
    OBVIOUS
  <2> HIDE DEF B
  <2>2. PICK n \in 1..Cardinality(S) : n \in B /\ n - 1 \notin B /\ n - 1 \in 0..Cardinality(S)
    BY ONLY <1>1, <1>3, <1>4, <2>1, LeastBad, Zenon
  <2>3. PICK T \in SUBSET S : Cardinality(T) = n /\ T # {} /\ ~Has(T)
    BY <2>2, Zenon DEF B
  <2>4. PICK x \in T : TRUE
    BY <2>3, Zenon
  <2>5. IsFiniteSet(T) /\ Cardinality(T \ {x}) = n - 1
    BY <1>2, <2>3, <2>4, FS_RemoveElement
  <2>6. T \ {x} = {} \/ Has(T \ {x})
    BY <2>2, <2>5, Zenon DEF B
  <2>7. Has(T)
    <3>1. CASE T \ {x} = {}
      <4>1. \A y \in T : y = x /\ x >= x
        BY <3>1
      <4> QED
        BY <4>1, Zenon DEF Has
    <3>2. CASE Has(T \ {x})
      <4>1. PICK y \in T \ {x} : \A z \in T \ {x} : y >= z
        BY <3>2 DEF Has
      <4>2. x \in Int /\ y \in Int /\ \A z \in T : z \in Int
        OBVIOUS
      <4>3. CASE x >= y
        <5>1. \A z \in T : x >= z
          BY <4>1, <4>2, <4>3
        <5> QED
          BY <5>1 DEF Has
      <4>4. CASE ~(x >= y)
        <5>1. \A z \in T : y >= z
          BY <4>1, <4>2, <4>4
        <5> QED
          BY <5>1 DEF Has
      <4> QED
        BY <4>3, <4>4
    <3> QED
      BY <2>6, <3>1, <3>2
  <2> QED
    BY <2>3, <2>7
<1>5. Has(S)
  <2>1. S \in SUBSET S /\ Cardinality(S) \in 0..Cardinality(S)
    BY <1>1
  <2> QED
    BY <1>4, <2>1
<1>6. Max(S) \in S /\ \A y \in S : Max(S) >= y
  BY <1>5, Zenon DEF Has, Max
<1> QED
  BY <1>6

LEMMA FiniteMin ==
  ASSUME NEW S \in SUBSET Int, IsFiniteSet(S), S # {}
  PROVE  Min(S) \in S /\ \A y \in S : Min(S) <= y
<1> DEFINE N == {-x : x \in S}
           f == [x \in S |-> -x]
<1>1. f \in Surjection(S, N)
  BY DEF Surjection
<1>2. IsFiniteSet(N) /\ N \in SUBSET Int /\ N # {}
  BY <1>1, FS_Surjection
<1> HIDE DEF N
<1>3. Max(N) \in N /\ \A y \in N : y <= Max(N)
  BY <1>2, FiniteMax, Zenon
<1>4. PICK x \in S : Max(N) = -x
  BY <1>3, Zenon DEF N
<1>a. \A y \in S : -y \in N
  BY Zenon DEF N
<1>5. \A y \in S : -y <= -x
  BY <1>3, <1>4, <1>a, Zenon
<1>6. \A y \in S : x <= y
  BY <1>5
<1> QED
  BY <1>6, Zenon DEF Min
-----------------------------------------------------------------------------
(* up[i] has the elements up to i, in some order of D, which numbers them. *)
Nested(D, up) ==
  /\ up \in [D -> SUBSET D]
  /\ \A i \in D : i \in up[i]
  /\ \A i, j \in D : i # j => \/ up[i] \subseteq up[j] /\ j \notin up[i]
                              \/ up[j] \subseteq up[i] /\ i \notin up[j]

Ranked(D, up) ==
  /\ Cardinality(D) \in Nat
  /\ \A i \in D : Cardinality(up[i]) \in 1..Cardinality(D)
  /\ \A i, j \in D : i # j /\ up[i] \subseteq up[j] => Cardinality(up[i]) < Cardinality(up[j])
  /\ \A n \in 1..Cardinality(D) : \E i \in D : Cardinality(up[i]) = n

LEMMA Ranks ==
  ASSUME NEW D, IsFiniteSet(D), NEW up, Nested(D, up)
  PROVE  Ranked(D, up)
<1> DEFINE c == Cardinality(D)
           r == [i \in D |-> Cardinality(up[i])]
<1>0. /\ \A i \in D : i \in up[i] /\ up[i] \in SUBSET D
      /\ \A i, j \in D : i # j => \/ up[i] \subseteq up[j] /\ j \notin up[i]
                                  \/ up[j] \subseteq up[i] /\ i \notin up[j]
  BY Zenon DEF Nested
<1>1. c \in Nat
  BY FS_CardinalityType, Zenon
<1>2. ASSUME NEW i \in D PROVE IsFiniteSet(up[i]) /\ Cardinality(up[i]) \in 1..c
  <2>1. up[i] \in SUBSET D /\ up[i] # {}
    BY <1>0, Zenon
  <2>2. IsFiniteSet(up[i]) /\ Cardinality(up[i]) <= c
    BY <2>1, FS_Subset, Zenon
  <2>3. Cardinality(up[i]) \in Nat /\ Cardinality(up[i]) # 0
    BY <2>1, <2>2, FS_CardinalityType, FS_EmptySet, Zenon
  <2> QED
    BY ONLY <1>1, <2>2, <2>3
<1>3. ASSUME NEW i \in D, NEW j \in D, i # j, up[i] \subseteq up[j]
      PROVE  Cardinality(up[i]) < Cardinality(up[j])
  <2>1. j \in up[j] /\ j \notin up[i]
    BY <1>0, <1>3, Zenon
  <2>2. Cardinality(up[i]) <= Cardinality(up[j]) /\ Cardinality(up[j]) # Cardinality(up[i])
    <3>1. up[i] \in SUBSET up[j] /\ IsFiniteSet(up[j])
      BY <1>2, <1>3, Zenon
    <3> QED
      BY <2>1, <3>1, FS_Subset, Zenon
  <2>3. Cardinality(up[i]) \in 1..c /\ Cardinality(up[j]) \in 1..c
    BY <1>2, Zenon
  <2> QED
    BY ONLY <1>1, <2>2, <2>3
<1>4. \A i, j \in D : i # j => r[i] # r[j]
  <2> SUFFICES ASSUME NEW i \in D, NEW j \in D, i # j PROVE Cardinality(up[i]) # Cardinality(up[j])
    BY Zenon
  <2>1. Cardinality(up[i]) < Cardinality(up[j]) \/ Cardinality(up[j]) < Cardinality(up[i])
    BY <1>0, <1>3, Zenon
  <2>2. Cardinality(up[i]) \in 1..c /\ Cardinality(up[j]) \in 1..c
    BY <1>2, Zenon
  <2> QED
    BY ONLY <1>1, <2>1, <2>2
<1>5. r \in Injection(D, 1..c)
  <2>1. r \in [D -> 1..c]
    BY <1>2, Zenon
  <2> QED
    BY <1>4, <2>1, Zenon DEF Injection, IsInjective
<1>6. IsFiniteSet(1..c) /\ Cardinality(1..c) = c
  BY <1>1, FS_Interval
<1>7. r \in Surjection(D, 1..c)
  BY <1>5, <1>6, FS_Injection, Zenon
<1>8. \A n \in 1..c : \E i \in D : r[i] = n
  BY <1>7, Zenon DEF Surjection
<1>9. \A n \in 1..c : \E i \in D : Cardinality(up[i]) = n
  BY <1>8, Zenon
<1> QED
  BY <1>1, <1>2, <1>3, <1>9, Zenon DEF Ranked

LEMMA NthIs ==
  ASSUME NEW I \in SUBSET Int, IsFiniteSet(I)
  PROVE  /\ Cardinality(I) \in Nat
         /\ \A n \in 1..Cardinality(I) : Nth(I, n) \in I
         /\ \A m, n \in 1..Cardinality(I) : m < n => Nth(I, m) < Nth(I, n)
         /\ \A i \in I : \E n \in 1..Cardinality(I) : Nth(I, n) = i
<1> DEFINE c == Cardinality(I)
           rank(i) == Cardinality({j \in I : j <= i})
           up == [i \in I |-> {j \in I : j <= i}]
<1>1. up \in [I -> SUBSET I] /\ \A i \in I : i \in up[i]
  OBVIOUS
<1>2. \A i, j \in I : i <= j => up[i] \subseteq up[j]
  <2> SUFFICES ASSUME NEW i \in I, NEW j \in I, i <= j, NEW k \in I, k <= i PROVE k <= j
    BY Zenon
  <2> QED
    OBVIOUS
<1>a. \A i, j \in I : i < j => j \notin up[i]
  OBVIOUS
<1>b. \A i, j \in I : i # j => i < j \/ j < i
  OBVIOUS
<1>c. \A i, j \in I : i < j => i <= j
  OBVIOUS
<1>3. \A i \in I : Cardinality(up[i]) = rank(i)
  BY Zenon
<1> HIDE DEF up, rank
<1>4. \A i, j \in I : i # j => \/ up[i] \subseteq up[j] /\ j \notin up[i]
                               \/ up[j] \subseteq up[i] /\ i \notin up[j]
  BY <1>2, <1>a, <1>b, <1>c, Zenon
<1>5. Ranked(I, up) /\ c \in Nat
  BY <1>1, <1>4, Ranks, Zenon DEF Nested, Ranked
<1>6. /\ \A i \in I : rank(i) \in 1..c
      /\ \A i, j \in I : i # j /\ i <= j => rank(i) < rank(j)
      /\ \A n \in 1..c : \E i \in I : rank(i) = n
  BY <1>2, <1>3, <1>5, Zenon DEF Ranked
<1>7. \A n \in 1..c : Nth(I, n) \in I /\ rank(Nth(I, n)) = n
  BY <1>6, Zenon DEF Nth, rank
<1>8. \A i, j \in I : rank(i) < rank(j) => i < j
  <2> SUFFICES ASSUME NEW i \in I, NEW j \in I, rank(i) < rank(j), ~(i < j) PROVE FALSE
    OBVIOUS
  <2>1. j <= i
    OBVIOUS
  <2>2. i = j \/ rank(j) < rank(i)
    BY <1>6, <2>1, Zenon
  <2>3. rank(i) \in 1..c /\ rank(j) \in 1..c
    BY <1>6, Zenon
  <2> QED
    BY ONLY <1>5, <2>2, <2>3, rank(i) < rank(j)
<1>9. \A m, n \in 1..c : m < n => Nth(I, m) < Nth(I, n)
  <2> SUFFICES ASSUME NEW m \in 1..c, NEW n \in 1..c, m < n PROVE Nth(I, m) < Nth(I, n)
    BY Zenon
  <2>1. Nth(I, m) \in I /\ Nth(I, n) \in I /\ rank(Nth(I, m)) = m /\ rank(Nth(I, n)) = n
    BY <1>7, Zenon
  <2>2. rank(Nth(I, m)) < rank(Nth(I, n))
    BY ONLY <2>1, m < n
  <2> QED
    BY <1>8, <2>1, <2>2, Zenon
<1>10. ASSUME NEW i \in I PROVE \E n \in 1..c : Nth(I, n) = i
  <2>1. rank(i) \in 1..c
    BY <1>6, Zenon
  <2>2. Nth(I, rank(i)) \in I /\ rank(Nth(I, rank(i))) = rank(i)
    BY <1>7, <2>1, Zenon
  <2>3. ASSUME NEW j \in I, rank(j) = rank(i) PROVE j = i
    <3>1. ~(rank(i) < rank(j)) /\ ~(rank(j) < rank(i))
      BY ONLY <1>5, <2>1, <2>3
    <3>2. ~(i # j /\ i <= j) /\ ~(i # j /\ j <= i)
      BY <1>6, <3>1, Zenon
    <3> QED
      BY ONLY <3>2, I \in SUBSET Int, i \in I, j \in I
  <2> QED
    BY <2>1, <2>2, <2>3, Zenon
<1> QED
  BY <1>5, <1>7, <1>9, <1>10, Zenon
-----------------------------------------------------------------------------
(***************************************************************************)
(* Slices.                                                                 *)
(***************************************************************************)
Distinct(s) == \A i, j \in DOMAIN s : i < j => s[i].gen # s[j].gen

Rising(s) == \A i, j \in DOMAIN s : i < j => s[i].gen < s[j].gen

(* q has the elements of s with an index in I, in their order: the n-th is s[p[n]]. *)
Lists(q, s, I, p) ==
  /\ p \in [DOMAIN q -> I]
  /\ \A m, n \in DOMAIN q : m < n => p[m] < p[n]
  /\ \A n \in DOMAIN q : q[n] = s[p[n]]
  /\ \A i \in I : \E n \in DOMAIN q : p[n] = i

LEMMA PickIs ==
  ASSUME NEW S, NEW s \in Seq(S), NEW I \in SUBSET DOMAIN s
  PROVE  /\ Pick(s, I) \in Seq(S)
         /\ \E p : Lists(Pick(s, I), s, I, p)
<1> DEFINE c == Cardinality(I)
           p == [n \in 1..c |-> Nth(I, n)]
           q == [n \in 1..c |-> s[Nth(I, n)]]
<1>1. I \in SUBSET Int /\ IsFiniteSet(I)
  <2>1. DOMAIN s = 1..Len(s) /\ Len(s) \in Nat
    OBVIOUS
  <2>2. IsFiniteSet(DOMAIN s)
    BY <2>1, FS_Interval
  <2>3. IsFiniteSet(I)
    BY <2>2, FS_Subset, Zenon
  <2> QED
    BY <2>1, <2>3
<1>2. /\ c \in Nat
      /\ \A n \in 1..c : Nth(I, n) \in I
      /\ \A m, n \in 1..c : m < n => Nth(I, m) < Nth(I, n)
      /\ \A i \in I : \E n \in 1..c : Nth(I, n) = i
  BY <1>1, NthIs, Zenon
<1>3. Pick(s, I) = q /\ DOMAIN q = 1..c
  BY Zenon DEF Pick
<1>4. Lists(q, s, I, p)
  BY <1>2, Zenon DEF Lists
<1>5. q \in Seq(S)
  <2>1. \A i \in DOMAIN s : s[i] \in S
    OBVIOUS
  <2>2. q \in [1..c -> S]
    BY <1>2, <2>1, Zenon
  <2> HIDE DEF c, q
  <2> QED
    BY <1>2, <2>2
<1> HIDE DEF c, p, q
<1> QED
  BY <1>3, <1>4, <1>5, Zenon

OrderedAt(s, I) == \A i, j \in I : i < j => s[i].end < s[j].start

LEMMA PickKeeps ==
  ASSUME NEW S, NEW s \in Seq(S), NEW I \in SUBSET DOMAIN s
  PROVE  /\ Pick(s, I) \in Seq(S)
         /\ Tables(Pick(s, I)) = {s[i] : i \in I}
         /\ Distinct(s) => Distinct(Pick(s, I))
         /\ Rising(s) => Rising(Pick(s, I))
         /\ OrderedAt(s, I) => Ordered(Pick(s, I))
<1> DEFINE q == Pick(s, I)
<1>1. q \in Seq(S)
  BY PickIs, Zenon
<1>2. PICK p : Lists(q, s, I, p)
  BY PickIs, Zenon
<1> HIDE DEF q
<1>3. \A n \in DOMAIN q : p[n] \in I /\ p[n] \in DOMAIN s /\ q[n] = s[p[n]]
  BY <1>2, Zenon DEF Lists
<1>a. \A i \in I : \E n \in DOMAIN q : p[n] = i
  BY <1>2, Zenon DEF Lists
<1>b. \A m, n \in DOMAIN q : m < n => p[m] < p[n]
  BY <1>2, Zenon DEF Lists
<1>4. Tables(q) = {s[i] : i \in I}
  <2>1. ASSUME NEW n \in DOMAIN q PROVE q[n] \in {s[i] : i \in I}
    BY <1>3, Zenon
  <2>2. ASSUME NEW i \in I PROVE s[i] \in Tables(q)
    BY <1>3, <1>a, Zenon DEF Tables
  <2> QED
    BY <2>1, <2>2, Zenon DEF Tables
<1>c. ASSUME NEW m \in DOMAIN q, NEW n \in DOMAIN q, m < n
      PROVE  /\ Distinct(s) => q[m].gen # q[n].gen
             /\ Rising(s) => q[m].gen < q[n].gen
             /\ OrderedAt(s, I) => q[m].end < q[n].start
  <2>1. p[m] \in I /\ p[n] \in I /\ p[m] \in DOMAIN s /\ p[n] \in DOMAIN s /\ p[m] < p[n]
    BY <1>3, <1>b, <1>c, Zenon
  <2>2. q[m] = s[p[m]] /\ q[n] = s[p[n]]
    BY <1>3, Zenon
  <2>3. Distinct(s) => s[p[m]].gen # s[p[n]].gen
    BY <2>1, Zenon DEF Distinct
  <2>4. Rising(s) => s[p[m]].gen < s[p[n]].gen
    BY <2>1, Zenon DEF Rising
  <2>5. OrderedAt(s, I) => s[p[m]].end < s[p[n]].start
    BY <2>1, Zenon DEF OrderedAt
  <2> QED
    BY ONLY <2>2, <2>3, <2>4, <2>5
<1>5. (Distinct(s) => Distinct(q)) /\ (Rising(s) => Rising(q))
  BY <1>c, Zenon DEF Distinct, Rising
<1>6. OrderedAt(s, I) => Ordered(q)
  BY <1>c, Zenon DEF Ordered
<1> QED
  BY <1>1, <1>4, <1>5, <1>6, Zenon DEF q

Joined(q, s, t) ==
  /\ Len(q) = Len(s) + Len(t)
  /\ \A i \in 1..Len(s) : q[i] = s[i]
  /\ \A i \in 1..Len(t) : q[Len(s) + i] = t[i]

LEMMA ConcatIs ==
  ASSUME NEW S, NEW s \in Seq(S), NEW t \in Seq(S)
  PROVE  s \o t \in Seq(S) /\ Joined(s \o t, s, t)
BY DEF Joined

(* new put into s behind its first idx elements *)
Inserted(q, s, new, idx) ==
  /\ DOMAIN q = 1..(Len(s) + Len(new))
  /\ \A i \in 1..idx : q[i] = s[i]
  /\ \A i \in 1..Len(new) : q[idx + i] = new[i]
  /\ \A i \in (idx + 1)..Len(s) : q[i + Len(new)] = s[i]

LEMMA InsertIs ==
  ASSUME NEW S, NEW s \in Seq(S), NEW new \in Seq(S), NEW idx \in 0..Len(s)
  PROVE  /\ SubSeq(s, 1, idx) \o new \o SubSeq(s, idx + 1, Len(s)) \in Seq(S)
         /\ Inserted(SubSeq(s, 1, idx) \o new \o SubSeq(s, idx + 1, Len(s)), s, new, idx)
<1> DEFINE a == SubSeq(s, 1, idx)
           b == SubSeq(s, idx + 1, Len(s))
           an == a \o new
<1>1. a \in Seq(S) /\ Len(a) = idx /\ \A i \in 1..idx : a[i] = s[i]
  OBVIOUS
<1>2. b \in Seq(S) /\ Len(b) = Len(s) - idx /\ \A i \in 1..Len(b) : b[i] = s[idx + i]
  OBVIOUS
<1> HIDE DEF a, b
<1>3. /\ an \in Seq(S) /\ Len(an) = idx + Len(new)
      /\ \A i \in 1..idx : an[i] = s[i]
      /\ \A i \in 1..Len(new) : an[idx + i] = new[i]
  <2>1. an \in Seq(S) /\ Joined(an, a, new)
    BY <1>1, ConcatIs, Zenon
  <2> QED
    BY <1>1, <2>1, Zenon DEF Joined
<1> HIDE DEF an
<1>4. /\ an \o b \in Seq(S) /\ Len(an \o b) = Len(s) + Len(new)
      /\ \A i \in 1..Len(an) : (an \o b)[i] = an[i]
      /\ \A i \in 1..Len(b) : (an \o b)[Len(an) + i] = b[i]
  <2>1. an \o b \in Seq(S) /\ Joined(an \o b, an, b)
    BY <1>2, <1>3, ConcatIs, Zenon
  <2>3. Len(an) + Len(b) = Len(s) + Len(new)
    BY ONLY <1>2, <1>3, Len(s) \in Nat, Len(new) \in Nat, idx \in 0..Len(s)
  <2> QED
    BY <2>1, <2>3, Zenon DEF Joined
<1>5. \A i \in (idx + 1)..Len(s) : (an \o b)[i + Len(new)] = s[i]
  <2> SUFFICES ASSUME NEW i \in (idx + 1)..Len(s) PROVE (an \o b)[i + Len(new)] = s[i]
    BY Zenon
  <2>1. i - idx \in 1..Len(b) /\ i + Len(new) = Len(an) + (i - idx) /\ idx + (i - idx) = i
    BY ONLY <1>2, <1>3, Len(s) \in Nat, Len(new) \in Nat, idx \in 0..Len(s), i \in (idx + 1)..Len(s)
  <2>2. (an \o b)[Len(an) + (i - idx)] = b[i - idx] /\ b[i - idx] = s[idx + (i - idx)]
    BY <1>2, <1>4, <2>1, Zenon
  <2> QED
    BY ONLY <2>1, <2>2
<1>6. Inserted(an \o b, s, new, idx)
  <2>1. DOMAIN (an \o b) = 1..(Len(s) + Len(new))
    BY <1>4
  <2>2. \A i \in 1..idx : i \in 1..Len(an)
    BY <1>3, Len(new) \in Nat
  <2>3. \A i \in 1..Len(new) : idx + i \in 1..Len(an)
    BY <1>3, Len(new) \in Nat
  <2> QED
    BY <1>3, <1>4, <1>5, <2>1, <2>2, <2>3, Zenon DEF Inserted
<1> QED
  BY <1>4, <1>6, Zenon DEF a, b, an

(* q is s in the order of gen: the n-th is s[p[n]]. *)
Sorts(q, s, p) ==
  /\ p \in [DOMAIN s -> DOMAIN s]
  /\ DOMAIN q = DOMAIN s
  /\ \A n \in DOMAIN s : q[n] = s[p[n]]
  /\ \A m, n \in DOMAIN s : m < n => p[m] # p[n] /\ s[p[m]].gen <= s[p[n]].gen
  /\ \A i \in DOMAIN s : \E n \in DOMAIN s : p[n] = i

LEMMA SortIs ==
  ASSUME NEW S, NEW s \in Seq(S), \A t \in S : t.gen \in Nat
  PROVE  sorted_by_gen(s) \in Seq(S) /\ \E p : Sorts(sorted_by_gen(s), s, p)
<1> DEFINE D == DOMAIN s
           rank(i) == Cardinality({j \in D : \/ s[j].gen < s[i].gen
                                             \/ s[j].gen = s[i].gen /\ j <= i})
           up == [i \in D |-> {j \in D : \/ s[j].gen < s[i].gen
                                         \/ s[j].gen = s[i].gen /\ j <= i}]
           p == [n \in D |-> CHOOSE i \in D : rank(i) = n]
           q == [n \in D |-> s[CHOOSE i \in D : rank(i) = n]]
           Before(i, j) == s[i].gen < s[j].gen \/ (s[i].gen = s[j].gen /\ i <= j)
<1>1. D = 1..Len(s) /\ Len(s) \in Nat /\ D \in SUBSET Nat
  OBVIOUS
<1>2. \A i \in D : s[i] \in S /\ s[i].gen \in Nat
  OBVIOUS
<1>3. IsFiniteSet(D) /\ Cardinality(D) = Len(s)
  BY <1>1, FS_Interval
<1>4. sorted_by_gen(s) = q
  BY Zenon DEF sorted_by_gen
<1>5. /\ \A i \in D : Cardinality(up[i]) = rank(i)
      /\ \A i \in D : \A j : j \in up[i] <=> j \in D /\ Before(j, i)
      /\ up \in [D -> SUBSET D]
  BY Zenon
<1> HIDE DEF D, up, rank
<1>6. \A i, j, k \in D : Before(k, i) /\ Before(i, j) => Before(k, j)
  <2> SUFFICES ASSUME NEW i \in D, NEW j \in D, NEW k \in D, Before(k, i), Before(i, j)
               PROVE  Before(k, j)
    OBVIOUS
  <2>1. /\ i \in Nat /\ s[i].gen \in Nat /\ j \in Nat /\ s[j].gen \in Nat
        /\ k \in Nat /\ s[k].gen \in Nat
    BY <1>1, <1>2, Zenon
  <2> QED
    BY ONLY <2>1, Before(k, i), Before(i, j)
<1>7. \A i, j \in D : /\ Before(i, i) /\ (Before(i, j) \/ Before(j, i))
                      /\ (Before(i, j) /\ Before(j, i) => i = j)
                      /\ (Before(i, j) => s[i].gen <= s[j].gen)
  <2> SUFFICES ASSUME NEW i \in D, NEW j \in D
               PROVE  /\ Before(i, i) /\ (Before(i, j) \/ Before(j, i))
                      /\ (Before(i, j) /\ Before(j, i) => i = j)
                      /\ (Before(i, j) => s[i].gen <= s[j].gen)
    OBVIOUS
  <2>1. i \in Nat /\ s[i].gen \in Nat /\ j \in Nat /\ s[j].gen \in Nat
    BY <1>1, <1>2, Zenon
  <2> QED
    BY ONLY <2>1
<1> HIDE DEF Before
<1>8. \A i, j \in D : Before(i, j) => up[i] \subseteq up[j]
  BY <1>5, <1>6, Zenon
<1>9. Nested(D, up)
  BY <1>5, <1>7, <1>8, Zenon DEF Nested
<1>10. Ranked(D, up)
  BY <1>3, <1>9, Ranks, Zenon
<1>11. /\ \A i \in D : rank(i) \in D
       /\ \A i, j \in D : i # j /\ up[i] \subseteq up[j] => rank(i) < rank(j)
       /\ \A n \in D : \E i \in D : rank(i) = n
  <2>1. 1..Cardinality(D) = D
    BY <1>1, <1>3, Zenon
  <2> QED
    BY <1>5, <1>10, <2>1, Zenon DEF Ranked
<1>12. \A n \in D : p[n] \in D /\ rank(p[n]) = n
  BY <1>11, Zenon
<1>13. ASSUME NEW m \in D, NEW n \in D, m < n PROVE p[m] # p[n] /\ s[p[m]].gen <= s[p[n]].gen
  <2>1. p[m] \in D /\ p[n] \in D /\ rank(p[m]) = m /\ rank(p[n]) = n /\ m \in Nat /\ n \in Nat
    BY <1>1, <1>12, Zenon
  <2> HIDE DEF p
  <2>2. p[m] # p[n] /\ ~(rank(p[n]) < rank(p[m]))
    BY ONLY <1>13, <2>1
  <2>3. ~(up[p[n]] \subseteq up[p[m]])
    BY <1>11, <2>1, <2>2, Zenon
  <2>4. s[p[m]].gen <= s[p[n]].gen
    BY <1>7, <1>8, <2>1, <2>3, Zenon
  <2> QED
    BY <2>2, <2>4, Zenon
<1>14. ASSUME NEW i \in D PROVE \E n \in D : p[n] = i
  <2>1. rank(i) \in D
    BY <1>11, Zenon
  <2>2. p[rank(i)] \in D /\ rank(p[rank(i)]) = rank(i)
    BY <1>12, <2>1, Zenon
  <2>3. ASSUME NEW j \in D, rank(j) = rank(i) PROVE j = i
    <3>1. ~(rank(i) < rank(j)) /\ ~(rank(j) < rank(i))
      BY ONLY <1>1, <2>1, <2>3
    <3> QED
      BY <1>7, <1>8, <1>11, <3>1, Zenon
  <2> QED
    BY <2>1, <2>2, <2>3, Zenon
<1>15. p \in [D -> D] /\ DOMAIN q = D /\ \A n \in D : q[n] = s[p[n]]
  BY <1>12, Zenon
<1>16. q \in Seq(S)
  <2>1. \A n \in D : s[CHOOSE i \in D : rank(i) = n] \in S
    BY <1>2, <1>11, Zenon
  <2>2. q \in [D -> S]
    BY <2>1, Zenon
  <2> HIDE DEF q
  <2> QED
    BY ONLY <1>1, <2>2
<1> HIDE DEF p, q
<1>17. Sorts(q, s, p)
  BY <1>13, <1>14, <1>15, Zenon DEF Sorts, D
<1> QED
  BY <1>4, <1>16, <1>17, Zenon

LEMMA SortKeeps ==
  ASSUME NEW S, NEW s \in Seq(S), \A t \in S : t.gen \in Nat, Distinct(s)
  PROVE  /\ sorted_by_gen(s) \in Seq(S)
         /\ Tables(sorted_by_gen(s)) = Tables(s)
         /\ Distinct(sorted_by_gen(s))
         /\ Rising(s) /\ Ordered(s) => Ordered(sorted_by_gen(s))
<1> DEFINE q == sorted_by_gen(s)
<1>1. q \in Seq(S)
  BY SortIs, Zenon
<1>2. PICK p : Sorts(q, s, p)
  BY SortIs, Zenon
<1> HIDE DEF q
<1>3. DOMAIN q = DOMAIN s /\ \A n \in DOMAIN s : p[n] \in DOMAIN s /\ q[n] = s[p[n]]
  BY <1>2, Zenon DEF Sorts
<1>4. Tables(q) = Tables(s)
  <2>1. ASSUME NEW n \in DOMAIN q PROVE q[n] \in Tables(s)
    BY <1>3, Zenon DEF Tables
  <2>2. ASSUME NEW i \in DOMAIN s PROVE s[i] \in Tables(q)
    <3>1. PICK n \in DOMAIN s : p[n] = i
      BY <1>2, Zenon DEF Sorts
    <3>2. q[n] = s[i]
      BY <1>3, <3>1, Zenon
    <3> QED
      BY <1>3, <3>2, Zenon DEF Tables
  <2> QED
    BY <2>1, <2>2, Zenon DEF Tables
<1>5. ASSUME NEW m \in DOMAIN q, NEW n \in DOMAIN q, m < n
      PROVE  /\ q[m].gen # q[n].gen
             /\ Rising(s) /\ Ordered(s) => q[m].end < q[n].start
  <2>1. p[m] \in DOMAIN s /\ p[n] \in DOMAIN s /\ q[m] = s[p[m]] /\ q[n] = s[p[n]]
    BY <1>3, Zenon
  <2>2. p[m] # p[n] /\ s[p[m]].gen <= s[p[n]].gen
    BY <1>2, <1>3, <1>5, Zenon DEF Sorts
  <2>3. /\ p[m] \in Nat /\ p[n] \in Nat /\ s[p[m]] \in S /\ s[p[n]] \in S
        /\ s[p[m]].gen \in Nat /\ s[p[n]].gen \in Nat
    BY <2>1
  <2>4. p[m] < p[n] \/ p[n] < p[m]
    BY ONLY <2>2, <2>3
  <2>5. s[p[m]].gen # s[p[n]].gen
    BY <2>1, <2>4, Zenon DEF Distinct
  <2>6. ASSUME Rising(s), Ordered(s) PROVE s[p[m]].end < s[p[n]].start
    <3>1. ~(p[n] < p[m])
      <4>1. p[n] < p[m] => s[p[n]].gen < s[p[m]].gen
        BY <2>1, <2>6, Zenon DEF Rising
      <4> QED
        BY ONLY <2>2, <2>3, <4>1
    <3> QED
      BY <2>1, <2>4, <2>6, <3>1, Zenon DEF Ordered
  <2> QED
    BY ONLY <2>1, <2>5, <2>6
<1>6. Distinct(q) /\ (Rising(s) /\ Ordered(s) => Ordered(q))
  BY <1>5, Zenon DEF Distinct, Ordered
<1> QED
  BY <1>1, <1>4, <1>6, Zenon DEF q
-----------------------------------------------------------------------------
(***************************************************************************)
(* apply.                                                                  *)
(***************************************************************************)
(* The levels after n edits *)
IsAfter(f, x, es, N) ==
  f = [n \in 0..N |-> IF n = 0 THEN x ELSE apply_edit(f[n - 1], es[n])]

LEMMA AfterExists ==
  ASSUME NEW x, NEW es, NEW N \in Nat
  PROVE  \E f : IsAfter(f, x, es, N)
<1> DEFINE B == {n \in 0..N : ~\E f : IsAfter(f, x, es, n)}
<1>1. 0 \notin B
  <2> DEFINE f == [n \in 0..0 |-> x]
  <2>1. IsAfter(f, x, es, 0)
    BY DEF IsAfter
  <2> QED
    BY <2>1, Zenon
<1>2. ASSUME B # {} PROVE FALSE
  <2>1. B \in SUBSET (0..N)
    BY Zenon
  <2> HIDE DEF B
  <2>2. PICK m \in 1..N : m \in B /\ m - 1 \notin B /\ m - 1 \in 0..N
    BY ONLY <1>1, <1>2, <2>1, N \in Nat, LeastBad, Zenon
  <2>3. PICK f : IsAfter(f, x, es, m - 1)
    BY <2>2, Zenon DEF B
  <2> DEFINE g == [n \in 0..m |-> IF n = m THEN apply_edit(f[m - 1], es[m]) ELSE f[n]]
             body(h, n) == IF n = 0 THEN x ELSE apply_edit(h[n - 1], es[n])
  <2>4. \A n \in 0..(m - 1) : f[n] = body(f, n)
    BY <2>3, Zenon DEF IsAfter
  <2>5. ASSUME NEW n \in 0..m PROVE g[n] = body(g, n)
    <3>1. CASE n = m
      <4>1. m # 0 /\ m - 1 \in 0..m /\ m - 1 # m
        OBVIOUS
      <4> QED
        BY <3>1, <4>1, Zenon
    <3>2. CASE n # m
      <4>1. n \in 0..(m - 1) /\ (n = 0 \/ (n - 1 \in 0..m /\ n - 1 # m))
        BY <3>2
      <4>2. g[n] = body(f, n)
        BY <2>4, <3>2, <4>1, Zenon
      <4>3. n = 0 \/ g[n - 1] = f[n - 1]
        BY <4>1, Zenon
      <4> QED
        BY <4>2, <4>3, Zenon
    <3> QED
      BY <3>1, <3>2, Zenon
  <2>6. g = [n \in 0..m |-> g[n]]
    BY Zenon
  <2> HIDE DEF g
  <2>7. IsAfter(g, x, es, m)
    BY <2>5, <2>6, Zenon DEF IsAfter
  <2> QED
    BY <2>2, <2>7, Zenon DEF B
<1> QED
  BY <1>2, N \in 0..N

LEMMA ApplyIs ==
  ASSUME NEW x, NEW es, Len(es) \in Nat
  PROVE  \E f : IsAfter(f, x, es, Len(es)) /\ apply(x, es) = f[Len(es)]
<1> DEFINE f == CHOOSE f : f = [n \in 0..Len(es) |-> IF n = 0 THEN x ELSE apply_edit(f[n - 1], es[n])]
<1>0. PICK g : IsAfter(g, x, es, Len(es))
  BY AfterExists, Zenon
<1>1. g = [n \in 0..Len(es) |-> IF n = 0 THEN x ELSE apply_edit(g[n - 1], es[n])]
  BY <1>0, Zenon DEF IsAfter
<1>2. f = [n \in 0..Len(es) |-> IF n = 0 THEN x ELSE apply_edit(f[n - 1], es[n])]
  BY ONLY <1>1, Zenon
<1>3. IsAfter(f, x, es, Len(es))
  BY ONLY <1>2, Zenon DEF IsAfter
<1>4. apply(x, es) = f[Len(es)]
  BY Zenon DEF apply
<1> QED
  BY <1>3, <1>4, Zenon

LEMMA ApplySteps ==
  ASSUME NEW x, NEW a
  PROVE  apply(x, <<>>) = x /\ apply(x, <<a>>) = apply_edit(x, a)
<1>1. apply(x, <<>>) = x
  <2>1. PICK f : IsAfter(f, x, <<>>, 0) /\ apply(x, <<>>) = f[0]
    BY ApplyIs, Len(<<>>) = 0
  <2> QED
    BY <2>1 DEF IsAfter
<1>2. apply(x, <<a>>) = apply_edit(x, a)
  <2>1. PICK f : IsAfter(f, x, <<a>>, 1) /\ apply(x, <<a>>) = f[1]
    BY ApplyIs, Len(<<a>>) = 1
  <2>2. f[0] = x /\ f[1] = apply_edit(f[1 - 1], <<a>>[1])
    BY <2>1 DEF IsAfter
  <2> QED
    BY <2>1, <2>2
<1> QED
  BY <1>1, <1>2, Zenon

LEMMA ApplyThree ==
  ASSUME NEW x, NEW b, NEW c, NEW d
  PROVE  apply(x, <<b, c, d>>) = apply_edit(apply_edit(apply_edit(x, b), c), d)
<1> DEFINE es == <<b, c, d>>
<1>1. PICK f : IsAfter(f, x, es, 3) /\ apply(x, es) = f[3]
  BY ApplyIs, Len(es) = 3, Zenon
<1>2. f[0] = x /\ f[1] = apply_edit(f[1 - 1], es[1]) /\ f[2] = apply_edit(f[2 - 1], es[2])
      /\ f[3] = apply_edit(f[3 - 1], es[3])
  BY <1>1 DEF IsAfter
<1> QED
  BY <1>1, <1>2

LEMMA ApplyFour ==
  ASSUME NEW x, NEW a, NEW b, NEW c, NEW d
  PROVE  apply(x, <<a, b, c, d>>) = apply_edit(apply_edit(apply_edit(apply_edit(x, a), b), c), d)
<1> DEFINE es == <<a, b, c, d>>
<1>1. PICK f : IsAfter(f, x, es, 4) /\ apply(x, es) = f[4]
  BY ApplyIs, Len(es) = 4, Zenon
<1>2. f[0] = x /\ f[1] = apply_edit(f[1 - 1], es[1]) /\ f[2] = apply_edit(f[2 - 1], es[2])
      /\ f[3] = apply_edit(f[3 - 1], es[3]) /\ f[4] = apply_edit(f[4 - 1], es[4])
  BY <1>1 DEF IsAfter
<1> QED
  BY <1>1, <1>2
-----------------------------------------------------------------------------
(***************************************************************************)
(* data_merge_and_sharding: the sums behind part_size.                     *)
(***************************************************************************)
IsSum(f, K, size, N) ==
  f = [n \in 0..N |-> IF n = 0 THEN 0 ELSE f[n - 1] + size[Nth(K, n)]]

LEMMA SumExists ==
  ASSUME NEW K, NEW size, NEW N \in Nat
  PROVE  \E f : IsSum(f, K, size, N)
<1> DEFINE B == {n \in 0..N : ~\E f : IsSum(f, K, size, n)}
<1>1. 0 \notin B
  <2> DEFINE f == [n \in 0..0 |-> 0]
  <2>1. IsSum(f, K, size, 0)
    BY DEF IsSum
  <2> QED
    BY <2>1, Zenon
<1>2. ASSUME B # {} PROVE FALSE
  <2>1. B \in SUBSET (0..N)
    BY Zenon
  <2> HIDE DEF B
  <2>2. PICK m \in 1..N : m \in B /\ m - 1 \notin B /\ m - 1 \in 0..N
    BY ONLY <1>1, <1>2, <2>1, N \in Nat, LeastBad, Zenon
  <2>3. PICK f : IsSum(f, K, size, m - 1)
    BY <2>2, Zenon DEF B
  <2> DEFINE g == [n \in 0..m |-> IF n = m THEN f[m - 1] + size[Nth(K, m)] ELSE f[n]]
             body(h, n) == IF n = 0 THEN 0 ELSE h[n - 1] + size[Nth(K, n)]
  <2>4. \A n \in 0..(m - 1) : f[n] = body(f, n)
    BY <2>3, Zenon DEF IsSum
  <2>5. ASSUME NEW n \in 0..m PROVE g[n] = body(g, n)
    <3>1. CASE n = m
      <4>1. m # 0 /\ m - 1 \in 0..m /\ m - 1 # m
        OBVIOUS
      <4> QED
        BY <3>1, <4>1, Zenon
    <3>2. CASE n # m
      <4>1. n \in 0..(m - 1) /\ (n = 0 \/ (n - 1 \in 0..m /\ n - 1 # m))
        BY <3>2
      <4>2. g[n] = body(f, n)
        BY <2>4, <3>2, <4>1, Zenon
      <4>3. n = 0 \/ g[n - 1] = f[n - 1]
        BY <4>1, Zenon
      <4> QED
        BY <4>2, <4>3, Zenon
    <3> QED
      BY <3>1, <3>2, Zenon
  <2>6. g = [n \in 0..m |-> g[n]]
    BY Zenon
  <2> HIDE DEF g
  <2>7. IsSum(g, K, size, m)
    BY <2>5, <2>6, Zenon DEF IsSum
  <2> QED
    BY <2>2, <2>7, Zenon DEF B
<1> QED
  BY <1>2, N \in 0..N

LEMMA DivNat ==
  ASSUME NEW a \in Nat, NEW b \in Nat, b > 0
  PROVE  a \div b \in Nat
BY SMT

LEMMA PartSizeIs ==
  ASSUME NEW data, DOMAIN data \in SUBSET Keys, NEW size \in Sizes
  PROVE  part_size(data, size) \in Nat
<1> DEFINE K == DOMAIN data
           N == Cardinality(K)
           f == CHOOSE f : f = [n \in 0..N |-> IF n = 0 THEN 0 ELSE f[n - 1] + size[Nth(K, n)]]
<1>1. K \in SUBSET Int /\ IsFiniteSet(K)
  BY LsmConstants, FS_Subset, Zenon
<1>2. N \in Nat /\ \A n \in 1..N : Nth(K, n) \in K
  BY <1>1, NthIs, Zenon
<1>4. \A k \in K : size[k] \in Nat
  <2>1. size \in [Keys -> Nat] /\ K \subseteq Keys
    BY LsmConstants, Zenon
  <2> QED
    BY ONLY <2>1
<1>0. N \in Nat
  BY <1>2, Zenon
<1>5. \A n \in 0..N : f[n] = IF n = 0 THEN 0 ELSE f[n - 1] + size[Nth(K, n)]
  <2>1. PICK g : IsSum(g, K, size, N)
    BY <1>2, SumExists, Zenon
  <2>2. g = [n \in 0..N |-> IF n = 0 THEN 0 ELSE g[n - 1] + size[Nth(K, n)]]
    BY <2>1, Zenon DEF IsSum
  <2>3. f = [n \in 0..N |-> IF n = 0 THEN 0 ELSE f[n - 1] + size[Nth(K, n)]]
    BY ONLY <2>2, Zenon
  <2> QED
    BY ONLY <2>3, Zenon
<1>6. part_size(data, size) = (f[N] + FileSize - 1) \div FileSize
  BY Zenon DEF part_size
<1> HIDE DEF f, N
<1>7. \A n \in 0..N : f[n] \in Nat
  <2> DEFINE B == {n \in 0..N : f[n] \notin Nat}
  <2>1. 0 \notin B
    BY <1>2, <1>5
  <2>2. B \in SUBSET (0..N)
    BY Zenon
  <2>3. ASSUME B # {} PROVE FALSE
    <3>1. PICK m \in 1..N : m \in B /\ m - 1 \notin B /\ m - 1 \in 0..N
      <4> HIDE DEF B
      <4> QED
        BY ONLY <2>1, <2>2, <2>3, <1>2, LeastBad, Zenon
    <3>2. f[m] = f[m - 1] + size[Nth(K, m)] /\ f[m - 1] \in Nat
      BY <1>2, <1>5, <3>1
    <3>3. size[Nth(K, m)] \in Nat
      BY <1>2, <1>4, <3>1, Zenon
    <3>4. f[m] \in Nat
      BY ONLY <3>2, <3>3
    <3> QED
      BY <3>1, <3>4, Zenon
  <2> QED
    BY <2>3, Zenon
<1>8. f[N] \in Nat
  BY <1>2, <1>7
<1>9. FileSize \in Nat /\ FileSize >= 1
  BY LsmConstants
<1>10. f[N] + FileSize - 1 \in Nat /\ FileSize > 0
  BY ONLY <1>8, <1>9
<1> QED
  BY <1>6, <1>9, <1>10, DivNat, Zenon

(***************************************************************************)
(* data_sharding: the shards hold the keys, each of them once, in order.   *)
(***************************************************************************)
Sharded(sh, K, parts) ==
  /\ sh \in [1..parts -> SUBSET K]
  /\ \A k \in K : \E a \in 1..parts : k \in sh[a]
  /\ \A a, b \in 1..parts : a < b => \A x \in sh[a], y \in sh[b] : x < y

Filled(f, K, parts) ==
  /\ f \in [i : 1..parts, data_len : Nat, shards : [1..parts -> SUBSET K]]
  /\ \A a \in 1..parts : a > f.i => f.shards[a] = {}
  /\ Sharded(f.shards, K, parts)

Above(k, K) == \A x \in K : x < k

LEMMA FillStep ==
  ASSUME NEW parts \in Nat, NEW K \in SUBSET Int, NEW f, Filled(f, K, parts),
         NEW k \in Int, Above(k, K), NEW size, size[k] \in Nat
  PROVE  Filled(Fill(f, k, size, parts), K \cup {k}, parts)
<1> DEFINE g == Fill(f, k, size, parts)
           R == [i : 1..parts, data_len : Nat, shards : [1..parts -> SUBSET K]]
           S == [i : 1..parts, data_len : Nat, shards : [1..parts -> SUBSET (K \cup {k})]]
<1>1. f \in R
  BY Zenon DEF Filled
<1>2. /\ \A a \in 1..parts : a > f.i => f.shards[a] = {}
      /\ \A x \in K : \E a \in 1..parts : x \in f.shards[a]
      /\ \A a, b \in 1..parts : a < b => \A x \in f.shards[a], y \in f.shards[b] : x < y
  BY Zenon DEF Filled, Sharded
<1>3. PICK j \in 1..parts : /\ j = f.i \/ j = f.i + 1
                            /\ g.i = j /\ g.shards = [f.shards EXCEPT ![j] = @ \cup {k}]
                            /\ g \in S
  <2> DEFINE sh(j) == [f.shards EXCEPT ![j] = @ \cup {k}]
  <2>1. f.i \in 1..parts /\ f.data_len \in Nat /\ f.shards \in [1..parts -> SUBSET K]
    BY <1>1
  <2>2. \A j \in 1..parts : sh(j) \in [1..parts -> SUBSET (K \cup {k})]
    BY <2>1
  <2>3. CASE f.data_len + size[k] >= FileSize /\ f.i < parts
    <3>1. g = [i |-> f.i + 1, data_len |-> 0, shards |-> sh(f.i + 1)]
      BY <2>3, Zenon DEF Fill
    <3>2. f.i + 1 \in 1..parts /\ 0 \in Nat
      BY <2>1, <2>3
    <3>3. sh(f.i + 1) \in [1..parts -> SUBSET (K \cup {k})]
      BY <2>2, <3>2, Zenon
    <3> HIDE DEF g, sh
    <3>4. g.i = f.i + 1 /\ g.shards = sh(f.i + 1) /\ g \in S
      BY ONLY <3>1, <3>2, <3>3
    <3> QED
      BY <3>2, <3>4, Zenon DEF sh
  <2>4. CASE ~(f.data_len + size[k] >= FileSize /\ f.i < parts)
    <3>1. g = [f EXCEPT !.data_len = @ + size[k], !.shards[f.i] = @ \cup {k}]
      BY <2>4, Zenon DEF Fill
    <3>2. f.data_len + size[k] \in Nat
      BY <2>1
    <3>3. sh(f.i) \in [1..parts -> SUBSET (K \cup {k})]
      BY <2>1, <2>2, Zenon
    <3>4. g = [i |-> f.i, data_len |-> f.data_len + size[k], shards |-> sh(f.i)]
      BY ONLY <1>1, <3>1, Zenon
    <3> HIDE DEF g, sh
    <3>5. g.i = f.i /\ g.shards = sh(f.i) /\ g \in S
      BY ONLY <2>1, <3>2, <3>3, <3>4
    <3> QED
      BY <2>1, <3>5, Zenon DEF sh
  <2> QED
    BY <2>3, <2>4, Zenon
<1> HIDE DEF g
<1>4. f.i \in 1..parts /\ f.shards \in [1..parts -> SUBSET K]
  BY <1>1
<1>5. \A a \in 1..parts : g.shards[a] = IF a = j THEN f.shards[a] \cup {k} ELSE f.shards[a]
  BY ONLY <1>3, <1>4, Zenon
<1>6. \A a \in 1..parts : a > g.i => g.shards[a] = {}
  BY ONLY <1>2, <1>3, <1>4, <1>5, parts \in Nat
<1>7. \A x \in K \cup {k} : \E a \in 1..parts : x \in g.shards[a]
  BY ONLY <1>2, <1>3, <1>5, Zenon
<1>8. ASSUME NEW a \in 1..parts, NEW b \in 1..parts, a < b, NEW x \in g.shards[a], NEW y \in g.shards[b]
      PROVE  x < y
  <2>1. x \in f.shards[a] \/ (a = j /\ x = k)
    BY <1>5, Zenon
  <2>2. y \in f.shards[b] \/ (b = j /\ y = k)
    BY <1>5, Zenon
  <2>3. ASSUME x \in f.shards[a], y \in f.shards[b] PROVE x < y
    BY <1>2, <1>8, <2>3, Zenon
  <2>4. ASSUME x \in f.shards[a], y = k PROVE x < y
    <3>1. x \in K
      BY <1>4, <2>4, Zenon
    <3> QED
      BY <2>4, <3>1, Zenon DEF Above
  <2>5. ASSUME a = j PROVE y \notin f.shards[b] /\ b # j
    <3>1. b > f.i /\ b # j
      BY ONLY <1>3, <1>4, <1>8, <2>5, parts \in Nat
    <3> QED
      BY <1>2, <3>1, Zenon
  <2> QED
    BY <2>1, <2>2, <2>3, <2>4, <2>5, Zenon
<1>9. g \in S
  BY <1>3, Zenon
<1>10. g.shards \in [1..parts -> SUBSET (K \cup {k})]
  BY ONLY <1>9
<1> HIDE DEF S
<1>11. Sharded(g.shards, K \cup {k}, parts)
  BY ONLY <1>7, <1>8, <1>10, Zenon DEF Sharded
<1>12. Filled(g, K \cup {k}, parts)
  BY ONLY <1>6, <1>9, <1>11, Zenon DEF Filled, S
<1> QED
  BY ONLY <1>12, Zenon DEF g

IsFilled(f, K, size, parts, N) ==
  f = [n \in 0..N |-> IF n = 0 THEN [i |-> 1, data_len |-> 0, shards |-> [i \in 1..parts |-> {}]]
                      ELSE Fill(f[n - 1], Nth(K, n), size, parts)]

LEMMA FilledExists ==
  ASSUME NEW K, NEW size, NEW parts, NEW N \in Nat
  PROVE  \E f : IsFilled(f, K, size, parts, N)
<1> DEFINE B == {n \in 0..N : ~\E f : IsFilled(f, K, size, parts, n)}
           x == [i |-> 1, data_len |-> 0, shards |-> [i \in 1..parts |-> {}]]
<1> HIDE DEF x
<1>1. 0 \notin B
  <2> DEFINE f == [n \in 0..0 |-> x]
  <2>1. IsFilled(f, K, size, parts, 0)
    BY DEF IsFilled, x
  <2> QED
    BY <2>1, Zenon
<1>2. ASSUME B # {} PROVE FALSE
  <2>1. B \in SUBSET (0..N)
    BY Zenon
  <2> HIDE DEF B
  <2>2. PICK m \in 1..N : m \in B /\ m - 1 \notin B /\ m - 1 \in 0..N
    BY ONLY <1>1, <1>2, <2>1, N \in Nat, LeastBad, Zenon
  <2>3. PICK f : IsFilled(f, K, size, parts, m - 1)
    BY <2>2, Zenon DEF B
  <2> DEFINE g == [n \in 0..m |-> IF n = m THEN Fill(f[m - 1], Nth(K, m), size, parts) ELSE f[n]]
             body(h, n) == IF n = 0 THEN x ELSE Fill(h[n - 1], Nth(K, n), size, parts)
  <2>4. \A n \in 0..(m - 1) : f[n] = body(f, n)
    BY <2>3, Zenon DEF IsFilled, x
  <2>5. ASSUME NEW n \in 0..m PROVE g[n] = body(g, n)
    <3>1. CASE n = m
      <4>1. m # 0 /\ m - 1 \in 0..m /\ m - 1 # m
        OBVIOUS
      <4> QED
        BY <3>1, <4>1, Zenon
    <3>2. CASE n # m
      <4>1. n \in 0..(m - 1) /\ (n = 0 \/ (n - 1 \in 0..m /\ n - 1 # m))
        BY <3>2
      <4>2. g[n] = body(f, n)
        BY <2>4, <3>2, <4>1, Zenon
      <4>3. n = 0 \/ g[n - 1] = f[n - 1]
        BY <4>1, Zenon
      <4> QED
        BY <4>2, <4>3, Zenon
    <3> QED
      BY <3>1, <3>2, Zenon
  <2>6. g = [n \in 0..m |-> g[n]]
    BY Zenon
  <2> HIDE DEF g
  <2>7. IsFilled(g, K, size, parts, m)
    BY <2>5, <2>6, Zenon DEF IsFilled, x
  <2> QED
    BY <2>2, <2>7, Zenon DEF B
<1> QED
  BY <1>2, N \in 0..N

LEMMA ShardKeysAre ==
  ASSUME NEW data, DOMAIN data \in SUBSET Keys, NEW size \in Sizes, NEW parts \in Nat \ {0}
  PROVE  Sharded(ShardKeys(data, size, parts), DOMAIN data, parts)
<1> DEFINE K == DOMAIN data
           N == Cardinality(K)
           x == [i |-> 1, data_len |-> 0, shards |-> [i \in 1..parts |-> {}]]
           f == CHOOSE f : f = [n \in 0..N |-> IF n = 0 THEN x ELSE Fill(f[n - 1], Nth(K, n), size, parts)]
           first(n) == {Nth(K, m) : m \in 1..n}
<1>1. K \in SUBSET Int /\ IsFiniteSet(K)
  BY LsmConstants, FS_Subset, Zenon
<1>2. /\ N \in Nat
      /\ \A n \in 1..N : Nth(K, n) \in K
      /\ \A m, n \in 1..N : m < n => Nth(K, m) < Nth(K, n)
      /\ \A i \in K : \E n \in 1..N : Nth(K, n) = i
  BY <1>1, NthIs, Zenon
<1>3. \A k \in K : k \in Int /\ size[k] \in Nat
  <2>1. size \in [Keys -> Nat] /\ K \subseteq Keys /\ K \subseteq Int
    BY <1>1, LsmConstants, Zenon
  <2> QED
    BY ONLY <2>1
<1>4. \A n \in 0..N : f[n] = IF n = 0 THEN x ELSE Fill(f[n - 1], Nth(K, n), size, parts)
  <2>1. PICK g : IsFilled(g, K, size, parts, N)
    BY <1>2, FilledExists, Zenon
  <2>2. g = [n \in 0..N |-> IF n = 0 THEN x ELSE Fill(g[n - 1], Nth(K, n), size, parts)]
    BY <2>1, Zenon DEF IsFilled
  <2>3. f = [n \in 0..N |-> IF n = 0 THEN x ELSE Fill(f[n - 1], Nth(K, n), size, parts)]
    <3> HIDE DEF x
    <3> QED
      BY ONLY <2>2, Zenon
  <2> HIDE DEF x
  <2> QED
    BY ONLY <2>3, Zenon
<1>5. ShardKeys(data, size, parts) = f[N].shards
  BY Zenon DEF ShardKeys
<1> HIDE DEF f, N
<1>6. Filled(x, {}, parts)
  BY 1 \in 1..parts DEF Filled, Sharded
<1> HIDE DEF x
<1>7. \A n \in 0..N : Filled(f[n], first(n), parts)
  <2> DEFINE B == {n \in 0..N : ~Filled(f[n], first(n), parts)}
  <2>1. 0 \notin B
    <3>1. first(0) = {}
      OBVIOUS
    <3>2. N \in Nat => 0 \in 0..N
      OBVIOUS
    <3> HIDE DEF first
    <3> QED
      BY <1>2, <1>4, <1>6, <3>1, <3>2, Zenon
  <2>2. B \in SUBSET (0..N)
    BY Zenon
  <2>3. ASSUME B # {} PROVE FALSE
    <3>1. PICK m \in 1..N : m \in B /\ m - 1 \notin B /\ m - 1 \in 0..N
      <4> HIDE DEF B
      <4> QED
        BY ONLY <2>1, <2>2, <2>3, <1>2, LeastBad, Zenon
    <3> DEFINE k == Nth(K, m)
    <3>2. m \in 0..N /\ m # 0 /\ parts \in Nat
      BY <1>2
    <3>3. f[m] = Fill(f[m - 1], k, size, parts) /\ Filled(f[m - 1], first(m - 1), parts)
      BY <1>4, <3>1, <3>2, Zenon
    <3>4. k \in Int /\ size[k] \in Nat
      BY <1>2, <1>3, Zenon
    <3>5. ASSUME NEW n \in 1..(m - 1) PROVE n \in 1..N /\ n < m
      BY <1>2
    <3>6. ASSUME NEW y \in first(m - 1) PROVE y \in Int /\ y < k
      <4>1. PICK n \in 1..(m - 1) : y = Nth(K, n)
        BY Zenon
      <4>2. n \in 1..N /\ n < m
        BY <3>5, Zenon
      <4> QED
        BY <1>2, <1>3, <4>1, <4>2, Zenon
    <3>10. first(m - 1) \in SUBSET Int /\ Above(k, first(m - 1))
      BY <3>6, Zenon DEF Above
    <3>7. first(m) = first(m - 1) \cup {k}
      <4>1. \A n : n \in 1..m <=> n \in 1..(m - 1) \/ n = m
        BY <1>2
      <4> QED
        BY <4>1, Zenon
    <3> HIDE DEF k, first
    <3>9. Filled(Fill(f[m - 1], k, size, parts), first(m - 1) \cup {k}, parts)
      BY <3>2, <3>3, <3>4, <3>10, FillStep, Zenon
    <3>8. Filled(f[m], first(m), parts)
      BY <3>3, <3>7, <3>9, Zenon
    <3> QED
      BY <3>1, <3>8, Zenon
  <2> QED
    BY <2>3, Zenon
<1>8. first(N) = K
  BY <1>2, Zenon
<1>9. N \in 0..N
  BY <1>2
<1> HIDE DEF first
<1> QED
  BY <1>5, <1>7, <1>8, <1>9, Zenon DEF Filled
-----------------------------------------------------------------------------
(***************************************************************************)
(* The tables: what TableLoader::create makes of pairs that are not empty. *)
(***************************************************************************)
Data == UNION {[K -> Nat \ {0}] : K \in (SUBSET Keys) \ {{}}}

TableSet == {create(g, data) : g \in Nat, data \in Data}

IsTable(t) ==
  /\ t.gen \in Nat
  /\ t.data \in Data
  /\ t.start \in DOMAIN t.data /\ t.end \in DOMAIN t.data
  /\ \A k \in DOMAIN t.data : t.start <= k /\ k <= t.end

LEMMA FiniteKeys ==
  ASSUME NEW K \in SUBSET Keys
  PROVE  K \in SUBSET Int /\ IsFiniteSet(K)
<1>1. Keys \in SUBSET Int /\ IsFiniteSet(Keys)
  BY LsmConstants, Zenon
<1>2. IsFiniteSet(K)
  BY <1>1, FS_Subset, Zenon
<1> QED
  BY <1>1, <1>2

LEMMA DataIs ==
  ASSUME NEW data \in Data
  PROVE  /\ DOMAIN data \in SUBSET Keys /\ DOMAIN data # {}
         /\ DOMAIN data \in SUBSET Int /\ IsFiniteSet(DOMAIN data)
         /\ \A k \in DOMAIN data : data[k] \in Nat \ {0}
<1>1. PICK K \in (SUBSET Keys) \ {{}} : data \in [K -> Nat \ {0}]
  BY Zenon DEF Data
<1>2. DOMAIN data = K /\ \A k \in K : data[k] \in Nat \ {0}
  BY <1>1, Zenon
<1>3. K \in SUBSET Int /\ IsFiniteSet(K)
  <2>1. K \in SUBSET Keys
    BY <1>1, Zenon
  <2> QED
    BY <2>1, FiniteKeys, Zenon
<1> QED
  BY <1>1, <1>2, <1>3, Zenon

LEMMA CreateIs ==
  ASSUME NEW g, NEW data
  PROVE  /\ create(g, data).gen = g /\ create(g, data).data = data
         /\ create(g, data).start = Min(DOMAIN data) /\ create(g, data).end = Max(DOMAIN data)
BY DEF create

LEMMA CreateTable ==
  ASSUME NEW g \in Nat, NEW data \in Data
  PROVE  create(g, data) \in TableSet
BY SMT DEF TableSet

LEMMA TableIs ==
  ASSUME NEW t \in TableSet
  PROVE  IsTable(t)
<1>1. PICK g \in Nat, data \in Data : t = create(g, data)
  BY SMT DEF TableSet
<1>2. t.gen = g /\ t.data = data /\ t.start = Min(DOMAIN data) /\ t.end = Max(DOMAIN data)
  BY <1>1, CreateIs, Zenon
<1>3. DOMAIN data \in SUBSET Int /\ IsFiniteSet(DOMAIN data) /\ DOMAIN data # {}
  BY DataIs, Zenon
<1>4. Min(DOMAIN data) \in DOMAIN data /\ \A k \in DOMAIN data : Min(DOMAIN data) <= k
  BY <1>3, FiniteMin, Zenon
<1>5. Max(DOMAIN data) \in DOMAIN data /\ \A k \in DOMAIN data : k <= Max(DOMAIN data)
  BY <1>3, FiniteMax, Zenon
<1> QED
  BY <1>2, <1>4, <1>5, Zenon DEF IsTable

(* sh splits data over tables with gens from lo to hi - 1, if there are such gens. *)
Shards(sh, data, lo, hi) ==
  /\ Rising(sh) /\ Ordered(sh)
  /\ \A t \in Tables(sh) : lo <= t.gen /\ t.gen < hi /\ DOMAIN t.data \subseteq DOMAIN data
  /\ \A t \in Tables(sh) : \A k \in DOMAIN t.data : t.data[k] = data[k]
  /\ lo # hi => \A k \in DOMAIN data : \E t \in Tables(sh) : k \in DOMAIN t.data

LEMMA ShardingIs ==
  ASSUME NEW data \in Data, NEW size \in Sizes, gen \in Nat
  PROVE  /\ part_size(data, size) \in Nat
         /\ data_sharding(data, size) \in Seq(TableSet)
         /\ Shards(data_sharding(data, size), data, gen, gen + part_size(data, size))
<1> DEFINE parts == part_size(data, size)
           keys == IF parts = 0 THEN <<>> ELSE ShardKeys(data, size, parts)
           used == {i \in DOMAIN keys : keys[i] # {}}
           part(i) == [k \in keys[i] |-> data[k]]
           shard(i) == create(gen + i - 1, part(i))
           c == Cardinality(used)
           sh == [n \in 1..c |-> shard(Nth(used, n))]
<1>1. DOMAIN data \in SUBSET Keys /\ DOMAIN data # {} /\ \A k \in DOMAIN data : data[k] \in Nat \ {0}
  BY DataIs, Zenon
<1>2. parts \in Nat
  BY <1>1, PartSizeIs, Zenon
<1>3. data_sharding(data, size) = sh
  BY Zenon DEF data_sharding
<1>4. parts # 0 => Sharded(keys, DOMAIN data, parts)
  BY <1>1, <1>2, ShardKeysAre, parts # 0 => parts \in Nat \ {0}, Zenon
<1>15. parts = 0 => DOMAIN keys = {} /\ 1..parts = {}
  OBVIOUS
<1> HIDE DEF parts, keys
<1>5. /\ DOMAIN keys = 1..parts /\ \A i \in 1..parts : keys[i] \subseteq DOMAIN data
      /\ parts # 0 => \A k \in DOMAIN data : \E i \in 1..parts : k \in keys[i]
      /\ \A i, j \in 1..parts : i < j => \A x \in keys[i], y \in keys[j] : x < y
  <2>1. CASE parts # 0
    BY <1>4, <2>1, Zenon DEF Sharded
  <2>2. CASE parts = 0
    BY <1>15, <2>2, Zenon
  <2> QED
    BY <2>1, <2>2, Zenon
<1>6. used \in SUBSET (1..parts) /\ used \in SUBSET Int /\ IsFiniteSet(used)
  <2>1. used \in SUBSET (1..parts)
    BY <1>5, Zenon
  <2>2. IsFiniteSet(1..parts) /\ 1..parts \in SUBSET Int
    BY <1>2, FS_Interval
  <2> QED
    BY <2>1, <2>2, FS_Subset, Zenon
<1>7. /\ c \in Nat
      /\ \A n \in 1..c : Nth(used, n) \in used
      /\ \A m, n \in 1..c : m < n => Nth(used, m) < Nth(used, n)
      /\ \A i \in used : \E n \in 1..c : Nth(used, n) = i
  <2> HIDE DEF used
  <2> QED
    BY <1>6, NthIs, Zenon
<1> HIDE DEF c
<1>8. ASSUME NEW i \in used
      PROVE  /\ i \in 1..parts /\ keys[i] # {} /\ keys[i] \subseteq DOMAIN data
             /\ part(i) \in Data /\ shard(i) \in TableSet /\ IsTable(shard(i))
             /\ shard(i).gen = gen + i - 1 /\ DOMAIN shard(i).data = keys[i]
             /\ \A k \in keys[i] : shard(i).data[k] = data[k]
  <2>1. i \in 1..parts /\ keys[i] # {} /\ keys[i] \subseteq DOMAIN data
    BY <1>5, <1>6, Zenon
  <2>2. part(i) \in [keys[i] -> Nat \ {0}]
    BY <1>1, <2>1, Zenon
  <2>3. part(i) \in Data
    <3>1. keys[i] \in (SUBSET Keys) \ {{}}
      BY <1>1, <2>1, Zenon
    <3> HIDE DEF part
    <3> QED
      BY <2>2, <3>1, Zenon DEF Data
  <2>4. gen + i - 1 \in Nat
    BY <2>1, <1>2
  <2>5. shard(i) \in TableSet
    <3> HIDE DEF part
    <3> QED
      BY <2>3, <2>4, CreateTable, Zenon
  <2>6. shard(i).gen = gen + i - 1 /\ shard(i).data = part(i)
    <3> HIDE DEF part
    <3> QED
      BY CreateIs, Zenon
  <2>7. DOMAIN part(i) = keys[i] /\ \A k \in keys[i] : part(i)[k] = data[k]
    BY Zenon
  <2>8. IsTable(shard(i))
    <3> HIDE DEF shard
    <3> QED
      BY <2>5, TableIs, Zenon
  <2> HIDE DEF shard, part
  <2> QED
    BY <2>1, <2>3, <2>5, <2>6, <2>7, <2>8, Zenon
<1> HIDE DEF shard, used
<1>9. sh \in Seq(TableSet) /\ DOMAIN sh = 1..c /\ \A n \in 1..c : sh[n] = shard(Nth(used, n))
  <2>1. \A n \in 1..c : shard(Nth(used, n)) \in TableSet
    BY <1>7, <1>8, Zenon
  <2>2. c \in Nat
    BY <1>7, Zenon
  <2> QED
    BY ONLY <2>1, <2>2
<1>10. Tables(sh) = {shard(i) : i \in used}
  <2>1. Tables(sh) = {sh[n] : n \in DOMAIN sh}
    BY Zenon DEF Tables
  <2> HIDE DEF sh
  <2> QED
    BY <2>1, <1>7, <1>9, Zenon
<1> HIDE DEF sh
<1>11. ASSUME NEW m \in DOMAIN sh, NEW n \in DOMAIN sh, m < n
       PROVE  sh[m].gen < sh[n].gen /\ sh[m].end < sh[n].start
  <2> DEFINE i == Nth(used, m)
             j == Nth(used, n)
  <2>1. i \in used /\ j \in used /\ i < j /\ sh[m] = shard(i) /\ sh[n] = shard(j)
    BY <1>7, <1>9, <1>11, Zenon
  <2> HIDE DEF i, j
  <2>2. i \in 1..parts /\ j \in 1..parts
    BY <1>8, <2>1, Zenon
  <2>3. gen + i - 1 < gen + j - 1
    BY ONLY <1>2, <2>1, <2>2, gen \in Nat
  <2>4. shard(i).end \in keys[i] /\ shard(j).start \in keys[j]
    BY <1>8, <2>1, Zenon DEF IsTable
  <2>5. shard(i).end < shard(j).start
    BY <1>5, <2>1, <2>2, <2>4, Zenon
  <2>6. shard(i).gen < shard(j).gen
    BY <1>8, <2>1, <2>3, Zenon
  <2> QED
    BY <2>1, <2>5, <2>6, Zenon
<1>12. ASSUME NEW t \in Tables(sh)
       PROVE  /\ gen <= t.gen /\ t.gen < gen + parts /\ DOMAIN t.data \subseteq DOMAIN data
              /\ \A k \in DOMAIN t.data : t.data[k] = data[k]
  <2>1. PICK i \in used : t = shard(i)
    BY <1>10, Zenon
  <2>2. i \in 1..parts
    BY <1>8, Zenon
  <2>3. gen <= gen + i - 1 /\ gen + i - 1 < gen + parts
    BY ONLY <1>2, <2>2, gen \in Nat
  <2> QED
    BY <1>8, <2>1, <2>3, Zenon
<1>13. ASSUME gen # gen + parts, NEW k \in DOMAIN data PROVE \E t \in Tables(sh) : k \in DOMAIN t.data
  <2>0. parts # 0
    BY ONLY <1>13, gen \in Nat
  <2>1. PICK i \in 1..parts : k \in keys[i]
    BY <1>5, <2>0, Zenon
  <2>2. i \in used
    BY <1>5, <2>1, Zenon DEF used
  <2> QED
    BY <1>8, <1>10, <2>1, <2>2, Zenon
<1>14. Shards(sh, data, gen, gen + parts)
  BY ONLY <1>11, <1>12, <1>13, Zenon DEF Shards, Rising, Ordered
<1> QED
  BY <1>2, <1>3, <1>9, <1>14, Zenon DEF parts

(***************************************************************************)
(* data_merge: the pairs of all tables, those of tables_l first.           *)
(***************************************************************************)
Merged(data, tables_l, tables_ll) ==
  /\ DOMAIN data = KeysOf(tables_l) \cup KeysOf(tables_ll)
  /\ \A k \in KeysOf(tables_l) : \E t \in Tables(tables_l) :
       /\ k \in DOMAIN t.data /\ data[k] = t.data[k]
       /\ \A s \in Tables(tables_l) : k \in DOMAIN s.data => s.gen <= t.gen
  /\ \A k \in KeysOf(tables_ll) \ KeysOf(tables_l) : \E t \in Tables(tables_ll) :
       k \in DOMAIN t.data /\ data[k] = t.data[k]

LEMMA FiniteIndices ==
  ASSUME NEW S, NEW s \in Seq(S), NEW I \in SUBSET DOMAIN s
  PROVE  I \in SUBSET Int /\ IsFiniteSet(I)
<1>1. DOMAIN s = 1..Len(s) /\ Len(s) \in Nat
  OBVIOUS
<1>2. DOMAIN s \in SUBSET Int
  BY ONLY <1>1
<1>3. IsFiniteSet(DOMAIN s)
  <2>1. Len(s) \in Int /\ 1 \in Int
    BY <1>1
  <2> QED
    BY <1>1, <2>1, FS_Interval, Zenon
<1> QED
  BY <1>2, <1>3, FS_Subset, Zenon

(* One of the tables at the indices I is the youngest. *)
LEMMA Youngest ==
  ASSUME NEW s \in Seq(TableSet), NEW I \in SUBSET DOMAIN s, I # {}
  PROVE  \E i \in I : \A j \in I : s[j].gen <= s[i].gen
<1> DEFINE f == [i \in I |-> s[i].gen]
           G == {s[i].gen : i \in I}
<1>1. \A i \in I : s[i].gen \in Nat
  <2>1. \A i \in DOMAIN s : s[i] \in TableSet
    OBVIOUS
  <2> QED
    BY <2>1, TableIs, Zenon DEF IsTable
<1>2. f \in Surjection(I, G)
  BY Zenon DEF Surjection
<1>3. IsFiniteSet(I)
  BY FiniteIndices, Zenon
<1>4. IsFiniteSet(G)
  <2> HIDE DEF f, G
  <2> QED
    BY <1>2, <1>3, FS_Surjection, Zenon
<1>5. G \in SUBSET Int
  BY <1>1
<1>6. G # {}
  BY Zenon
<1>7. Max(G) \in G /\ \A y \in G : y <= Max(G)
  <2> HIDE DEF G
  <2> QED
    BY <1>4, <1>5, <1>6, FiniteMax, Zenon
<1>8. PICK i \in I : s[i].gen = Max(G)
  BY <1>7, Zenon
<1> QED
  BY <1>7, <1>8, Zenon

LEMMA MergeIs ==
  ASSUME NEW tables_l \in Seq(TableSet), NEW tables_ll \in Seq(TableSet), Tables(tables_l) # {}
  PROVE  /\ data_merge(tables_l, tables_ll) \in Data
         /\ Merged(data_merge(tables_l, tables_ll), tables_l, tables_ll)
<1> DEFINE data == data_merge(tables_l, tables_ll)
           has(slice, k) == {i \in DOMAIN slice : k \in DOMAIN slice[i].data}
           K == KeysOf(tables_l) \cup KeysOf(tables_ll)
           youngest(k) == CHOOSE i \in has(tables_l, k) :
                          \A j \in has(tables_l, k) : tables_l[j].gen <= tables_l[i].gen
<1>1. data = [k \in K |-> IF has(tables_l, k) # {} THEN tables_l[youngest(k)].data[k]
                          ELSE tables_ll[Max(has(tables_ll, k))].data[k]]
  BY Zenon DEF data_merge
<1>2. \A slice : Tables(slice) = {slice[i] : i \in DOMAIN slice}
  BY Zenon DEF Tables
<1>3. \A slice, k : k \in KeysOf(slice) <=> \E i \in DOMAIN slice : k \in DOMAIN slice[i].data
  BY <1>2, Zenon DEF KeysOf
<1>4. ASSUME NEW k \in KeysOf(tables_l)
      PROVE  /\ youngest(k) \in DOMAIN tables_l /\ k \in DOMAIN tables_l[youngest(k)].data
             /\ data[k] = tables_l[youngest(k)].data[k]
             /\ \A s \in Tables(tables_l) : k \in DOMAIN s.data => s.gen <= tables_l[youngest(k)].gen
  <2>1. has(tables_l, k) # {} /\ k \in K
    BY <1>3, Zenon
  <2>2. \E i \in has(tables_l, k) : \A j \in has(tables_l, k) : tables_l[j].gen <= tables_l[i].gen
    <3>1. has(tables_l, k) \in SUBSET DOMAIN tables_l
      BY Zenon
    <3> HIDE DEF has
    <3> QED
      BY <2>1, <3>1, Youngest, Zenon
  <2>3. youngest(k) \in has(tables_l, k)
        /\ \A j \in has(tables_l, k) : tables_l[j].gen <= tables_l[youngest(k)].gen
    <3> HIDE DEF has
    <3> QED
      BY ONLY <2>2, Zenon
  <2>4. data[k] = tables_l[youngest(k)].data[k]
    <3> HIDE DEF has, youngest, data, K
    <3> QED
      BY ONLY <1>1, <2>1, Zenon
  <2> HIDE DEF youngest, data
  <2> QED
    BY <1>2, <2>3, <2>4, Zenon
<1>5. ASSUME NEW k \in KeysOf(tables_ll) \ KeysOf(tables_l)
      PROVE  \E i \in DOMAIN tables_ll : k \in DOMAIN tables_ll[i].data /\ data[k] = tables_ll[i].data[k]
  <2>1. has(tables_l, k) = {} /\ has(tables_ll, k) # {} /\ k \in K
    BY <1>3, Zenon
  <2>2. data[k] = tables_ll[Max(has(tables_ll, k))].data[k]
    <3> HIDE DEF has, youngest, data, K
    <3> QED
      BY ONLY <1>1, <2>1, Zenon
  <2>3. Max(has(tables_ll, k)) \in has(tables_ll, k)
    <3>1. has(tables_ll, k) \in SUBSET DOMAIN tables_ll
      BY Zenon
    <3> HIDE DEF has
    <3>2. has(tables_ll, k) \in SUBSET Int /\ IsFiniteSet(has(tables_ll, k))
      BY <3>1, FiniteIndices, Zenon
    <3> QED
      BY <2>1, <3>2, FiniteMax, Zenon
  <2> HIDE DEF data
  <2> QED
    BY <2>2, <2>3, Zenon
<1>6. DOMAIN data = K /\ data = [k \in K |-> data[k]]
  <2> HIDE DEF has, youngest, K
  <2>1. DOMAIN data = K
    BY <1>1, Zenon
  <2> QED
    BY <1>1, <2>1, Zenon
<1> HIDE DEF data, youngest
<1>7. \A slice \in {tables_l, tables_ll} : \A i \in DOMAIN slice : slice[i] \in TableSet
  OBVIOUS
<1>8. ASSUME NEW slice \in {tables_l, tables_ll}, NEW i \in DOMAIN slice
      PROVE  /\ DOMAIN slice[i].data \in SUBSET Keys /\ DOMAIN slice[i].data # {}
             /\ \A k \in DOMAIN slice[i].data : slice[i].data[k] \in Nat \ {0}
  <2>1. slice[i].data \in Data
    BY <1>7, TableIs, Zenon DEF IsTable
  <2> QED
    BY <2>1, DataIs, Zenon
<1>9. data \in Data
  <2>1. K \in SUBSET Keys
    BY <1>3, <1>8, Zenon
  <2>2. K # {}
    <3>1. PICK i \in DOMAIN tables_l : TRUE
      BY <1>2, Zenon
    <3>2. PICK k \in DOMAIN tables_l[i].data : TRUE
      BY <1>8, Zenon
    <3> QED
      BY <1>3, <3>1, <3>2, Zenon
  <2>3. ASSUME NEW k \in K PROVE data[k] \in Nat \ {0}
    <3>1. CASE k \in KeysOf(tables_l)
      BY <1>4, <1>8, <3>1, Zenon
    <3>2. CASE k \notin KeysOf(tables_l)
      <4>1. k \in KeysOf(tables_ll) \ KeysOf(tables_l)
        BY <3>2, Zenon
      <4> QED
        BY <1>5, <1>8, <4>1, Zenon
    <3> QED
      BY <3>1, <3>2, Zenon
  <2>4. data \in [K -> Nat \ {0}]
    <3> HIDE DEF K
    <3> QED
      BY ONLY <1>6, <2>3, Zenon
  <2>5. K \in (SUBSET Keys) \ {{}}
    BY <2>1, <2>2, Zenon
  <2> HIDE DEF K
  <2> QED
    BY <2>4, <2>5, Zenon DEF Data
<1>10. ASSUME NEW k \in KeysOf(tables_l)
       PROVE  \E t \in Tables(tables_l) :
                /\ k \in DOMAIN t.data /\ data[k] = t.data[k]
                /\ \A s \in Tables(tables_l) : k \in DOMAIN s.data => s.gen <= t.gen
  <2>1. tables_l[youngest(k)] \in Tables(tables_l)
    BY <1>2, <1>4, Zenon
  <2> QED
    BY <1>4, <2>1, Zenon
<1>11. ASSUME NEW k \in KeysOf(tables_ll) \ KeysOf(tables_l)
       PROVE  \E t \in Tables(tables_ll) : k \in DOMAIN t.data /\ data[k] = t.data[k]
  BY <1>2, <1>5, Zenon
<1>12. Merged(data, tables_l, tables_ll)
  BY ONLY <1>6, <1>10, <1>11, Zenon DEF Merged
<1> QED
  BY <1>9, <1>12, Zenon DEF data
-----------------------------------------------------------------------------
(***************************************************************************)
(* Scopes: what meets, and the scope of all tables of the upper level.     *)
(***************************************************************************)
Interval(x) == x.start \in Int /\ x.end \in Int /\ x.start <= x.end

LEMMA MeetIs ==
  ASSUME NEW x, NEW y, Interval(x), Interval(y)
  PROVE  meet(x, y) <=> x.start <= y.end /\ y.start <= x.end
BY SMT DEF Interval, meet

LEMMA TableInterval ==
  ASSUME NEW t \in TableSet
  PROVE  /\ Interval(t)
         /\ \A k \in DOMAIN t.data : k \in Int /\ t.start <= k /\ k <= t.end
<1>1. /\ t.data \in Data /\ t.start \in DOMAIN t.data /\ t.end \in DOMAIN t.data
      /\ \A k \in DOMAIN t.data : t.start <= k /\ k <= t.end
  BY TableIs, Zenon DEF IsTable
<1>2. DOMAIN t.data \in SUBSET Int
  BY <1>1, DataIs, Zenon
<1> QED
  BY <1>1, <1>2, Zenon DEF Interval

(* f is the scope from the first start to the last end of the tables T. *)
Fused(f, T) ==
  /\ Interval(f)
  /\ \A t \in T : f.start <= t.start /\ t.end <= f.end

LEMMA FiniteImage ==
  ASSUME NEW S, IsFiniteSet(S), NEW f
  PROVE  IsFiniteSet({f[i] : i \in S})
<1> DEFINE g == [i \in S |-> f[i]]
           T == {f[i] : i \in S}
<1>1. g \in Surjection(S, T)
  BY Zenon DEF Surjection
<1> HIDE DEF g, T
<1> QED
  BY <1>1, FS_Surjection, Zenon DEF T

LEMMA FusionIs ==
  ASSUME NEW s \in Seq(TableSet), Tables(s) # {}
  PROVE  Fused(fusion(Tables(s)), Tables(s))
<1> DEFINE T == Tables(s)
           A == {t.start : t \in T}
           B == {t.end : t \in T}
           fa == [t \in T |-> t.start]
           fb == [t \in T |-> t.end]
<1>1. T = {s[i] : i \in DOMAIN s}
  BY Zenon DEF Tables
<1>2. \A i \in DOMAIN s : s[i] \in TableSet
  OBVIOUS
<1>3. \A t \in T : Interval(t)
  BY <1>1, <1>2, TableInterval, Zenon
<1>4. A = {fa[t] : t \in T} /\ B = {fb[t] : t \in T}
  <2> HIDE DEF T
  <2>1. \A t \in T : fa[t] = t.start /\ fb[t] = t.end
    BY Zenon
  <2> HIDE DEF fa, fb
  <2> QED
    BY ONLY <2>1, Zenon
<1> HIDE DEF fa, fb
<1>5. IsFiniteSet(T)
  <2>1. IsFiniteSet(DOMAIN s)
    BY FiniteIndices, Zenon
  <2> HIDE DEF T
  <2> QED
    BY <1>1, <2>1, FiniteImage, Zenon
<1>6. IsFiniteSet(A) /\ IsFiniteSet(B)
  <2> HIDE DEF A, B, T
  <2> QED
    BY <1>4, <1>5, FiniteImage, Zenon
<1>7. A \in SUBSET Int /\ B \in SUBSET Int /\ A # {} /\ B # {}
  BY <1>3, Zenon DEF Interval
<1>8. Min(A) \in A /\ (\A y \in A : Min(A) <= y) /\ Max(B) \in B /\ (\A y \in B : y <= Max(B))
  <2> HIDE DEF A, B
  <2> QED
    BY <1>6, <1>7, FiniteMin, FiniteMax, Zenon
<1>9. fusion(T) = [start |-> Min(A), end |-> Max(B)]
  BY Zenon DEF fusion
<1>10. fusion(T).start = Min(A) /\ fusion(T).end = Max(B)
  <2> HIDE DEF A, B, T
  <2> QED
    BY ONLY <1>9
<1>11. PICK t \in T : TRUE
  BY Zenon
<1>12. t.start \in Int /\ t.end \in Int /\ t.start <= t.end /\ Min(A) <= t.start /\ t.end <= Max(B)
  BY <1>3, <1>8, Zenon DEF Interval
<1>13. Min(A) \in Int /\ Max(B) \in Int
  <2> HIDE DEF A, B, T
  <2> QED
    BY <1>7, <1>8, Zenon
<1>14. Min(A) <= Max(B)
  <2> HIDE DEF A, B, T
  <2> QED
    BY ONLY <1>12, <1>13
<1>15. \A u \in T : Min(A) <= u.start /\ u.end <= Max(B)
  BY <1>8, Zenon
<1> HIDE DEF A, B, T
<1> QED
  BY <1>10, <1>13, <1>14, <1>15, Zenon DEF Fused, Interval, T

LEMMA MetIs ==
  ASSUME NEW slice \in Seq(TableSet), NEW target
  PROVE  /\ met_scopes(slice, target) \in Seq(TableSet)
         /\ Tables(met_scopes(slice, target)) = {t \in Tables(slice) : meet(t, target)}
         /\ Tables(met_scopes(slice, target)) = {} => met_scopes(slice, target) = <<>>
<1> DEFINE I == {i \in DOMAIN slice : meet(slice[i], target)}
           q == met_scopes(slice, target)
<1>1. q = Pick(slice, I)
  BY Zenon DEF met_scopes
<1>2. I \in SUBSET DOMAIN slice
  BY Zenon
<1>3. q \in Seq(TableSet) /\ Tables(q) = {slice[i] : i \in I}
  <2> HIDE DEF I, q
  <2> QED
    BY <1>1, <1>2, PickKeeps, Zenon
<1>4. {slice[i] : i \in I} = {t \in Tables(slice) : meet(t, target)}
  BY Zenon DEF Tables
<1>5. ASSUME Tables(q) = {} PROVE q = <<>>
  <2>1. \A i \in DOMAIN q : FALSE
    BY <1>5, Zenon DEF Tables
  <2> HIDE DEF q
  <2>2. q \in Seq(TableSet)
    BY <1>3, Zenon
  <2>3. Len(q) \in Nat /\ DOMAIN q = 1..Len(q)
    BY ONLY <2>2
  <2>4. Len(q) = 0
    <3>1. 1 \notin 1..Len(q)
      BY <2>1, <2>3, Zenon
    <3> QED
      BY ONLY <2>3, <3>1
  <2> QED
    BY ONLY <2>2, <2>4
<1> QED
  BY <1>3, <1>4, <1>5, Zenon

(* Both ends of c lie within tables of T. *)
Within(c, T) ==
  /\ \E t \in T : t.start <= c.start /\ c.start <= t.end
  /\ \E t \in T : t.start <= c.end /\ c.end <= t.end

(***************************************************************************)
(* A table of the next level that is not merged meets none of the new      *)
(* tables: neither the fused scope of the upper tables, nor the merged     *)
(* tables that stick out of it, reach it.                                  *)
(***************************************************************************)
LEMMA Untouched ==
  ASSUME NEW A, NEW f, Fused(f, A), \A t \in A : Interval(t),
         NEW L, \A t \in L : Interval(t), \A s, t \in L : s # t => ~meet(s, t),
         NEW u \in L, ~meet(u, f),
         NEW c, Interval(c), Within(c, A \cup {t \in L : meet(t, f)})
  PROVE  ~meet(u, c)
<1> DEFINE B == {t \in L : meet(t, f)}
<1>1. Interval(f) /\ Interval(u) /\ \A t \in A : f.start <= t.start /\ t.end <= f.end
  BY Zenon DEF Fused
<1>2. ~(u.start <= f.end /\ f.start <= u.end)
  BY <1>1, MeetIs, Zenon
<1>3. ASSUME NEW b \in B
      PROVE  /\ Interval(b) /\ b.start <= f.end /\ f.start <= b.end
             /\ ~(u.start <= b.end /\ b.start <= u.end)
  <2>1. Interval(b) /\ meet(b, f) /\ b # u
    BY Zenon
  <2>2. ~meet(u, b)
    BY <2>1, Zenon
  <2> QED
    BY <1>1, <2>1, <2>2, MeetIs, Zenon
<1> HIDE DEF B
<1>4. ASSUME meet(u, c) PROVE FALSE
  <2>1. u.start <= c.end /\ c.start <= u.end
    BY <1>1, <1>4, MeetIs, Zenon
  <2>2. PICK s \in A \cup B : s.start <= c.start /\ c.start <= s.end
    BY Zenon DEF Within, B
  <2>3. PICK e \in A \cup B : e.start <= c.end /\ c.end <= e.end
    BY Zenon DEF Within, B
  <2>4. \A t \in A \cup B : Interval(t)
    BY <1>3, Zenon
  <2>5. Interval(s) /\ Interval(e)
    BY <2>4, Zenon
  <2>6. CASE u.end < f.start
    <3>1. CASE s \in A
      <4>1. f.start <= s.start
        BY <1>1, <3>1, Zenon
      <4> QED
        BY ONLY <1>1, <2>1, <2>2, <2>5, <2>6, <4>1, Interval(c) DEF Interval
    <3>2. CASE s \in B
      <4>1. f.start <= s.end /\ ~(u.start <= s.end /\ s.start <= u.end)
        BY <1>3, <3>2, Zenon
      <4> QED
        BY ONLY <1>1, <2>1, <2>2, <2>5, <2>6, <4>1, Interval(c) DEF Interval
    <3> QED
      BY <2>2, <3>1, <3>2, Zenon
  <2>7. CASE f.end < u.start
    <3>1. CASE e \in A
      <4>1. e.end <= f.end
        BY <1>1, <3>1, Zenon
      <4> QED
        BY ONLY <1>1, <2>1, <2>3, <2>5, <2>7, <4>1, Interval(c) DEF Interval
    <3>2. CASE e \in B
      <4>1. e.start <= f.end /\ ~(u.start <= e.end /\ e.start <= u.end)
        BY <1>3, <3>2, Zenon
      <4> QED
        BY ONLY <1>1, <2>1, <2>3, <2>5, <2>7, <4>1, Interval(c) DEF Interval
    <3> QED
      BY <2>3, <3>1, <3>2, Zenon
  <2>8. u.end < f.start \/ f.end < u.start
    BY ONLY <1>1, <1>2 DEF Interval
  <2> QED
    BY <2>6, <2>7, <2>8, Zenon
<1> QED
  BY <1>4, Zenon
-----------------------------------------------------------------------------
(***************************************************************************)
(* What the edits make of a level.                                         *)
(***************************************************************************)
Deleted(s, G) == Pick(s, {i \in DOMAIN s : s[i].gen \notin G})

InsertedAt(s, new, idx) == SubSeq(s, 1, idx) \o new \o SubSeq(s, idx + 1, Len(s))

LEMMA DeletedIs ==
  ASSUME NEW s \in Seq(TableSet), NEW G
  PROVE  /\ Deleted(s, G) \in Seq(TableSet)
         /\ Tables(Deleted(s, G)) = {t \in Tables(s) : t.gen \notin G}
         /\ Distinct(s) => Distinct(Deleted(s, G))
         /\ Rising(s) => Rising(Deleted(s, G))
         /\ Ordered(s) => Ordered(Deleted(s, G))
<1> DEFINE I == {i \in DOMAIN s : s[i].gen \notin G}
<1>1. I \in SUBSET DOMAIN s
  BY Zenon
<1>2. {s[i] : i \in I} = {t \in Tables(s) : t.gen \notin G}
  BY Zenon DEF Tables
<1>3. Ordered(s) => OrderedAt(s, I)
  BY Zenon DEF Ordered, OrderedAt
<1>4. Deleted(s, G) = Pick(s, I)
  BY Zenon DEF Deleted
<1> HIDE DEF I
<1> DEFINE d == Pick(s, I)
<1>5. /\ d \in Seq(TableSet)
      /\ Tables(d) = {s[i] : i \in I}
      /\ Distinct(s) => Distinct(d)
      /\ Rising(s) => Rising(d)
      /\ OrderedAt(s, I) => Ordered(d)
  BY <1>1, PickKeeps, Zenon
<1>6. Deleted(s, G) = d
  BY <1>4, Zenon
<1> HIDE DEF d
<1>7. Tables(d) = {t \in Tables(s) : t.gen \notin G}
  BY <1>2, <1>5, Zenon
<1> QED
  BY <1>3, <1>5, <1>6, <1>7, Zenon

LEMMA SortOne ==
  ASSUME NEW p \in TableSet
  PROVE  sorted_by_gen(<<p>>) = <<p>>
<1> DEFINE s == <<p>>
           q == sorted_by_gen(s)
<1>1. s \in Seq(TableSet) /\ DOMAIN s = 1..1 /\ s[1] = p
  OBVIOUS
<1>2. \A t \in TableSet : t.gen \in Nat
  BY TableIs, Zenon DEF IsTable
<1> HIDE DEF s
<1>3. q \in Seq(TableSet) /\ \E f : Sorts(q, s, f)
  BY <1>1, <1>2, SortIs, Zenon
<1>4. PICK f : Sorts(q, s, f)
  BY <1>3, Zenon
<1>5. f \in [1..1 -> 1..1] /\ DOMAIN q = 1..1 /\ \A n \in 1..1 : q[n] = s[f[n]]
  BY <1>1, <1>4, Zenon DEF Sorts
<1> HIDE DEF q
<1>6. f[1] = 1 /\ q[1] = s[f[1]]
  BY ONLY <1>5
<1>7. q[1] = p
  BY <1>1, <1>6, Zenon
<1>8. q \in Seq(TableSet)
  BY <1>3, Zenon
<1>9. q = <<p>>
  BY ONLY <1>5, <1>7, <1>8
<1> QED
  BY <1>9, Zenon DEF q, s

LEMMA RisingDistinct ==
  ASSUME NEW s \in Seq(TableSet), Rising(s)
  PROVE  Distinct(s)
<1>1. \A i \in DOMAIN s : s[i] \in TableSet
  OBVIOUS
<1>2. \A i \in DOMAIN s : s[i].gen \in Nat
  BY <1>1, TableIs, Zenon DEF IsTable
<1>3. ASSUME NEW i \in DOMAIN s, NEW j \in DOMAIN s, i < j PROVE s[i].gen # s[j].gen
  <2>1. s[i].gen < s[j].gen /\ s[i].gen \in Nat /\ s[j].gen \in Nat
    BY <1>2, <1>3, Zenon DEF Rising
  <2> QED
    BY ONLY <2>1
<1> QED
  BY <1>3, Zenon DEF Distinct

LEMMA PushIs ==
  ASSUME NEW s \in Seq(TableSet), NEW p \in TableSet, \A t \in Tables(s) : t.gen < p.gen, Rising(s)
  PROVE  /\ s \o sorted_by_gen(<<p>>) \in Seq(TableSet)
         /\ Tables(s \o sorted_by_gen(<<p>>)) = Tables(s) \cup {p}
         /\ Rising(s \o sorted_by_gen(<<p>>))
<1> DEFINE q == s \o <<p>>
<1>1. s \o sorted_by_gen(<<p>>) = q
  BY SortOne, Zenon
<1>2. /\ q \in Seq(TableSet) /\ Len(s) \in Nat
      /\ DOMAIN s = 1..Len(s) /\ DOMAIN q = 1..(Len(s) + 1)
      /\ q[Len(s) + 1] = p /\ \A i \in 1..Len(s) : q[i] = s[i]
  OBVIOUS
<1> HIDE DEF q
<1>3. \A i : i \in DOMAIN q <=> i \in DOMAIN s \/ i = Len(s) + 1
  BY ONLY <1>2
<1>4. Tables(q) = Tables(s) \cup {p}
  <2>1. ASSUME NEW t \in Tables(q) PROVE t \in Tables(s) \cup {p}
    BY <1>2, <1>3, Zenon DEF Tables
  <2>2. ASSUME NEW t \in Tables(s) \cup {p} PROVE t \in Tables(q)
    BY <1>2, <1>3, Zenon DEF Tables
  <2> QED
    BY <2>1, <2>2, Zenon
<1>5. ASSUME NEW i \in DOMAIN q, NEW j \in DOMAIN q, i < j PROVE q[i].gen < q[j].gen
  <2>1. i \in DOMAIN s /\ (j \in DOMAIN s \/ j = Len(s) + 1)
    BY ONLY <1>2, <1>5
  <2>2. q[i] = s[i] /\ s[i] \in Tables(s)
    BY <1>2, <2>1, Zenon DEF Tables
  <2>3. CASE j \in DOMAIN s
    BY <1>2, <1>5, <2>1, <2>2, <2>3, Zenon DEF Rising
  <2>4. CASE j = Len(s) + 1
    BY <1>2, <2>2, <2>4, Zenon
  <2> QED
    BY <2>1, <2>3, <2>4, Zenon
<1> QED
  BY <1>1, <1>2, <1>4, <1>5, Zenon DEF Rising

OtherGens(S, N) == \A t \in S, u \in N : t.gen # u.gen

LEMMA InsertKeeps ==
  ASSUME NEW s \in Seq(TableSet), NEW new \in Seq(TableSet), NEW idx \in 0..Len(s),
         Distinct(s), Distinct(new), OtherGens(Tables(s), Tables(new)),
         NEW q, q = InsertedAt(s, new, idx)
  PROVE  q \in Seq(TableSet) /\ Tables(q) = Tables(s) \cup Tables(new) /\ Distinct(q)
<1> DEFINE n == Len(new)
<1>1. q \in Seq(TableSet) /\ Inserted(q, s, new, idx)
  BY InsertIs, Zenon DEF InsertedAt
<1>2. /\ DOMAIN q = 1..(Len(s) + n)
      /\ \A i \in 1..idx : q[i] = s[i]
      /\ \A i \in 1..n : q[idx + i] = new[i]
      /\ \A i \in (idx + 1)..Len(s) : q[i + n] = s[i]
  BY <1>1, Zenon DEF Inserted
<1>3. Len(s) \in Nat /\ n \in Nat /\ DOMAIN s = 1..Len(s) /\ DOMAIN new = 1..n
  OBVIOUS
<1>0. idx \in 0..Len(s)
  OBVIOUS
<1> HIDE DEF n
<1>4. ASSUME NEW j \in DOMAIN q
      PROVE  \/ j \in 1..idx /\ j \in DOMAIN s
             \/ j - idx \in 1..n /\ j = idx + (j - idx)
             \/ j - n \in (idx + 1)..Len(s) /\ j = (j - n) + n /\ j - n \in DOMAIN s
  BY ONLY <1>0, <1>2, <1>3, j \in DOMAIN q
<1>5. Tables(q) = Tables(s) \cup Tables(new)
  <2>1. ASSUME NEW t \in Tables(q) PROVE t \in Tables(s) \cup Tables(new)
    <3>1. PICK j \in DOMAIN q : t = q[j]
      BY Zenon DEF Tables
    <3>2. CASE j \in 1..idx /\ j \in DOMAIN s
      BY <1>2, <3>1, <3>2, Zenon DEF Tables
    <3>3. CASE j - idx \in 1..n /\ j = idx + (j - idx)
      <4>1. q[j] = new[j - idx] /\ j - idx \in DOMAIN new
        BY <1>2, <1>3, <3>3, Zenon
      <4> QED
        BY <3>1, <4>1, Zenon DEF Tables
    <3>4. CASE j - n \in (idx + 1)..Len(s) /\ j = (j - n) + n /\ j - n \in DOMAIN s
      <4>1. q[j] = s[j - n] /\ j - n \in DOMAIN s
        BY <1>2, <3>4, Zenon
      <4> QED
        BY <3>1, <4>1, Zenon DEF Tables
    <3> QED
      BY <1>4, <3>2, <3>3, <3>4, Zenon
  <2>2. ASSUME NEW i \in DOMAIN s PROVE s[i] \in Tables(q)
    <3>1. CASE i \in 1..idx
      <4>1. i \in DOMAIN q
        BY ONLY <1>0, <1>2, <1>3, <3>1
      <4> QED
        BY <1>2, <3>1, <4>1, Zenon DEF Tables
    <3>2. CASE i \in (idx + 1)..Len(s)
      <4>1. i + n \in DOMAIN q
        BY ONLY <1>0, <1>2, <1>3, <3>2
      <4> QED
        BY <1>2, <3>2, <4>1, Zenon DEF Tables
    <3>3. i \in 1..idx \/ i \in (idx + 1)..Len(s)
      BY ONLY <1>0, <1>3, <2>2
    <3> QED
      BY <3>1, <3>2, <3>3, Zenon
  <2>3. ASSUME NEW i \in DOMAIN new PROVE new[i] \in Tables(q)
    <3>1. i \in 1..n /\ idx + i \in DOMAIN q
      BY ONLY <1>0, <1>2, <1>3, <2>3
    <3> QED
      BY <1>2, <3>1, Zenon DEF Tables
  <2>4. Tables(s) \subseteq Tables(q) /\ Tables(new) \subseteq Tables(q)
    BY ONLY <2>2, <2>3, Zenon DEF Tables
  <2> QED
    BY <2>1, <2>4, Zenon
<1>6. ASSUME NEW i \in DOMAIN q, NEW j \in DOMAIN q, i < j PROVE q[i].gen # q[j].gen
  <2> DEFINE Old(a, x) == a \in DOMAIN s /\ q[x] = s[a]
             New(a, x) == a \in DOMAIN new /\ q[x] = new[a]
  <2>1. ASSUME NEW x \in DOMAIN q
        PROVE  \/ x \in 1..idx /\ Old(x, x)
               \/ x - idx \in 1..n /\ New(x - idx, x)
               \/ x - n \in (idx + 1)..Len(s) /\ Old(x - n, x)
    BY <1>2, <1>3, <1>4, Zenon
  <2>2. ASSUME NEW a, NEW b, Old(a, i), Old(b, j), a < b PROVE q[i].gen # q[j].gen
    BY <2>2, Zenon DEF Distinct
  <2>3. ASSUME NEW a, NEW b, New(a, i), New(b, j), a < b PROVE q[i].gen # q[j].gen
    BY <2>3, Zenon DEF Distinct
  <2>4. ASSUME NEW a, NEW b, Old(a, i), New(b, j) PROVE q[i].gen # q[j].gen
    BY <2>4, Zenon DEF Tables, OtherGens
  <2>5. ASSUME NEW a, NEW b, New(a, i), Old(b, j) PROVE q[i].gen # q[j].gen
    BY <2>5, Zenon DEF Tables, OtherGens
  <2> HIDE DEF Old, New
  <2>6. /\ i - idx < j - idx /\ i - n < j - n
        /\ i \in 1..idx /\ j - n \in (idx + 1)..Len(s) => i < j - n
        /\ ~(i - n \in (idx + 1)..Len(s) /\ j \in 1..idx)
    BY ONLY <1>0, <1>2, <1>3, <1>6, i \in DOMAIN q, j \in DOMAIN q
  <2> QED
    BY ONLY <1>6, <2>1, <2>2, <2>3, <2>4, <2>5, <2>6, i \in DOMAIN q, j \in DOMAIN q, Zenon
<1>7. Distinct(q)
  BY <1>6, Zenon DEF Distinct
<1> QED
  BY ONLY <1>1, <1>5, <1>7, Zenon

Lv == 0..(MAX_LEVEL - 1)

Slices == [Lv -> Seq(TableSet)]

(* The edits a compaction starts with: none, or the table of a minor compaction *)
Pending == {<<>>} \cup {<<NewFile(<<t>>, 0, 0)>> : t \in TableSet}

Pushed(s, es) == IF es = <<>> THEN s ELSE s \o sorted_by_gen(es[1].scopes)

(* M is L with s as level l. *)
SetAt(M, L, l, s) == M \in Slices /\ M[l] = s /\ \A m \in Lv : m # l => M[m] = L[m]

LEMMA SetLevel ==
  ASSUME NEW L \in Slices, NEW l \in Lv, NEW s \in Seq(TableSet)
  PROVE  SetAt([L EXCEPT ![l] = s], L, l, s)
BY Zenon DEF Slices, SetAt

LEMMA DeleteEdit ==
  ASSUME NEW L \in Slices, NEW l \in Lv, NEW G
  PROVE  SetAt(apply_edit(L, DeleteFile(G, l)), L, l, Deleted(L[l], G))
<1> DEFINE e == DeleteFile(G, l)
<1>1. e.edit = "DeleteFile" /\ e.gens = G /\ e.level = l
  BY DEF DeleteFile
<1> HIDE DEF e
<1>2. apply_edit(L, e) = [L EXCEPT ![l] = Deleted(L[l], G)]
  BY <1>1, Zenon DEF apply_edit, Deleted
<1>3. L[l] \in Seq(TableSet)
  BY Zenon DEF Slices
<1>4. Deleted(L[l], G) \in Seq(TableSet)
  BY <1>3, DeletedIs, Zenon
<1> QED
  BY <1>2, <1>4, SetLevel, Zenon DEF e

LEMMA PushEdit ==
  ASSUME NEW L \in Slices, NEW sc, L[0] \o sorted_by_gen(sc) \in Seq(TableSet)
  PROVE  SetAt(apply_edit(L, NewFile(sc, 0, 0)), L, 0, L[0] \o sorted_by_gen(sc))
<1> DEFINE e == NewFile(sc, 0, 0)
<1>1. e.edit # "DeleteFile" /\ e.scopes = sc /\ e.level = 0
  BY DEF NewFile
<1> HIDE DEF e
<1>2. apply_edit(L, e) = [L EXCEPT ![0] = L[0] \o sorted_by_gen(sc)]
  BY <1>1, Zenon DEF apply_edit
<1>3. 0 \in Lv
  BY DEF Lv, MAX_LEVEL
<1> QED
  BY <1>2, <1>3, SetLevel, Zenon DEF e

LEMMA InsertEdit ==
  ASSUME NEW L \in Slices, NEW l \in Lv, l # 0, NEW sc, NEW idx,
         InsertedAt(L[l], sorted_by_gen(sc), idx) \in Seq(TableSet)
  PROVE  SetAt(apply_edit(L, NewFile(sc, l, idx)), L, l, InsertedAt(L[l], sorted_by_gen(sc), idx))
<1> DEFINE e == NewFile(sc, l, idx)
<1>1. e.edit # "DeleteFile" /\ e.scopes = sc /\ e.level = l /\ e.index = idx
  BY DEF NewFile
<1> HIDE DEF e
<1>2. apply_edit(L, e) = [L EXCEPT ![l] = InsertedAt(L[l], sorted_by_gen(sc), idx)]
  BY <1>1, Zenon DEF apply_edit, InsertedAt
<1> QED
  BY <1>2, SetLevel, Zenon DEF e

LEMMA Prefixed ==
  ASSUME NEW a, NEW b, NEW c, NEW d
  PROVE  <<>> \o <<b, c, d>> = <<b, c, d>> /\ <<a>> \o <<b, c, d>> = <<a, b, c, d>>
<1> DEFINE q == <<a>> \o <<b, c, d>>
           S == {a, b, c, d}
<1>1. <<a>> \in Seq(S) /\ <<b, c, d>> \in Seq(S) /\ <<a, b, c, d>> \in Seq(S)
  OBVIOUS
<1>2. q \in Seq(S) /\ Len(q) = 4 /\ q[1] = a /\ q[2] = b /\ q[3] = c /\ q[4] = d
  <2>1. Joined(q, <<a>>, <<b, c, d>>) /\ q \in Seq(S)
    BY <1>1, ConcatIs, Zenon
  <2> HIDE DEF q
  <2> QED
    BY ONLY <2>1, 1 + 1 = 2, 1 + 2 = 3, 1 + 3 = 4 DEF Joined
<1>3. <<>> \o <<b, c, d>> = <<b, c, d>>
  OBVIOUS
<1> HIDE DEF q
<1>4. q = <<a, b, c, d>>
  BY ONLY <1>1, <1>2
<1> QED
  BY <1>3, <1>4, Zenon DEF q

LEMMA EditsOf ==
  ASSUME NEW es \in Pending, es # <<>>
  PROVE  \E t \in TableSet : es = <<NewFile(<<t>>, 0, 0)>> /\ es[1].scopes = <<t>> /\ es[1].scopes[1] = t
<1>1. PICK t \in TableSet : es = <<NewFile(<<t>>, 0, 0)>>
  BY Zenon DEF Pending
<1>2. es[1] = NewFile(<<t>>, 0, 0)
  BY <1>1
<1>3. NewFile(<<t>>, 0, 0).scopes = <<t>> /\ <<t>>[1] = t
  BY DEF NewFile
<1> QED
  BY <1>1, <1>2, <1>3, Zenon

LEMMA PushPending ==
  ASSUME NEW L \in Slices, NEW es \in Pending, Pushed(L[0], es) \in Seq(TableSet)
  PROVE  SetAt(apply(L, es), L, 0, Pushed(L[0], es))
<1>1. 0 \in Lv
  BY DEF Lv, MAX_LEVEL
<1>2. CASE es = <<>>
  <2>1. apply(L, es) = L /\ Pushed(L[0], es) = L[0]
    BY <1>2, ApplySteps, Zenon DEF Pushed
  <2> QED
    BY <2>1, Zenon DEF SetAt
<1>3. CASE es # <<>>
  <2>1. PICK t \in TableSet : es = <<NewFile(<<t>>, 0, 0)>> /\ es[1].scopes = <<t>>
    BY <1>3, EditsOf, Zenon
  <2>2. Pushed(L[0], es) = L[0] \o sorted_by_gen(<<t>>)
    BY <1>3, <2>1, Zenon DEF Pushed
  <2>3. apply(L, es) = apply_edit(L, NewFile(<<t>>, 0, 0))
    BY <2>1, ApplySteps, Zenon
  <2>4. SetAt(apply_edit(L, NewFile(<<t>>, 0, 0)), L, 0, L[0] \o sorted_by_gen(<<t>>))
    BY <2>2, PushEdit, Zenon
  <2> QED
    BY <2>2, <2>3, <2>4, Zenon
<1> QED
  BY <1>2, <1>3, Zenon

(***************************************************************************)
(* The levels after a round from level l to l + 1.                         *)
(***************************************************************************)
RoundMade(M, L, l, upper, lower) ==
  /\ M \in Slices /\ M[l] = upper /\ M[l + 1] = lower
  /\ \A m \in Lv : m # l /\ m # l + 1 => M[m] = L[m]

LEMMA RoundLevels ==
  ASSUME NEW L \in Slices, NEW l \in 0..(MAX_LEVEL - 2), NEW es \in Pending, es # <<>> => l = 0,
         NEW sc, NEW idx, NEW GA, NEW GB,
         Pushed(L[l], es) \in Seq(TableSet),
         InsertedAt(L[l + 1], sorted_by_gen(sc), idx) \in Seq(TableSet),
         NEW M, M = apply(L, es \o <<NewFile(sc, l + 1, idx), DeleteFile(GA, l), DeleteFile(GB, l + 1)>>)
  PROVE  RoundMade(M, L, l, Deleted(Pushed(L[l], es), GA),
                   Deleted(InsertedAt(L[l + 1], sorted_by_gen(sc), idx), GB))
<1> DEFINE ins == InsertedAt(L[l + 1], sorted_by_gen(sc), idx)
           b == NewFile(sc, l + 1, idx)
           c == DeleteFile(GA, l)
           d == DeleteFile(GB, l + 1)
           L1 == apply(L, es)
           L2 == apply_edit(L1, b)
           L3 == apply_edit(L2, c)
           L4 == apply_edit(L3, d)
<1>1. l \in Lv /\ l + 1 \in Lv /\ l + 1 # 0 /\ l # l + 1
  BY DEF MAX_LEVEL, Lv
<1>2. SetAt(L1, L, l, Pushed(L[l], es))
  <2>1. CASE es = <<>>
    <3>1. L1 = L /\ Pushed(L[l], es) = L[l]
      BY <2>1, ApplySteps, Zenon DEF Pushed
    <3> QED
      BY <3>1, Zenon DEF SetAt
  <2>2. CASE es # <<>>
    <3>1. l = 0
      BY <2>2, Zenon
    <3> HIDE DEF L1
    <3> QED
      BY <3>1, PushPending, Zenon DEF L1
  <2> QED
    BY <2>1, <2>2, Zenon
<1>12. M = L4
  <2>1. CASE es = <<>>
    <3>1. L1 = L
      BY <2>1, ApplySteps, Zenon
    <3> HIDE DEF b, c, d, L1
    <3>2. M = apply(L, <<b, c, d>>)
      BY <2>1, Prefixed, Zenon DEF b, c, d
    <3>3. apply(L, <<b, c, d>>) = apply_edit(apply_edit(apply_edit(L, b), c), d)
      BY ONLY ApplyThree, SMTT(30)
    <3> QED
      BY ONLY <3>1, <3>2, <3>3, Zenon
  <2>2. CASE es # <<>>
    <3>1. PICK t \in TableSet : es = <<NewFile(<<t>>, 0, 0)>>
      BY <2>2, EditsOf, Zenon
    <3> DEFINE a == NewFile(<<t>>, 0, 0)
    <3>2. L1 = apply_edit(L, a)
      BY <3>1, ApplySteps, Zenon
    <3> HIDE DEF a, b, c, d, L1
    <3>3. M = apply(L, <<a, b, c, d>>)
      BY <3>1, Prefixed, Zenon DEF a, b, c, d
    <3>4. apply(L, <<a, b, c, d>>) = apply_edit(apply_edit(apply_edit(apply_edit(L, a), b), c), d)
      BY ONLY ApplyFour, SMTT(30)
    <3> QED
      BY ONLY <3>2, <3>3, <3>4, Zenon
  <2> QED
    BY <2>1, <2>2, Zenon
<1> HIDE DEF L1
<1>3. L1 \in Slices /\ L1[l] = Pushed(L[l], es) /\ \A m \in Lv : m # l => L1[m] = L[m]
  BY <1>2, Zenon DEF SetAt
<1>4. L1[l + 1] = L[l + 1]
  BY <1>1, <1>3, Zenon
<1>5. SetAt(L2, L1, l + 1, ins)
  BY <1>1, <1>3, <1>4, InsertEdit, Zenon
<1> HIDE DEF L2, ins
<1>6. L2 \in Slices /\ L2[l + 1] = ins /\ \A m \in Lv : m # l + 1 => L2[m] = L1[m]
  BY <1>5, Zenon DEF SetAt
<1>7. SetAt(L3, L2, l, Deleted(L2[l], GA))
  BY <1>1, <1>6, DeleteEdit, Zenon
<1> HIDE DEF L3
<1>8. L3 \in Slices /\ L3[l] = Deleted(L2[l], GA) /\ \A m \in Lv : m # l => L3[m] = L2[m]
  BY <1>7, Zenon DEF SetAt
<1>9. SetAt(L4, L3, l + 1, Deleted(L3[l + 1], GB))
  BY <1>1, <1>8, DeleteEdit, Zenon
<1> HIDE DEF L4
<1>10. L4 \in Slices /\ L4[l + 1] = Deleted(L3[l + 1], GB) /\ \A m \in Lv : m # l + 1 => L4[m] = L3[m]
  BY <1>9, Zenon DEF SetAt
<1>11. L2[l] = Pushed(L[l], es) /\ L3[l + 1] = ins
  BY <1>1, <1>3, <1>6, <1>8, Zenon
<1>13. ASSUME NEW m \in Lv, m # l, m # l + 1 PROVE L4[m] = L[m]
  BY <1>3, <1>6, <1>8, <1>10, <1>13, Zenon
<1>14. L4[l] = Deleted(Pushed(L[l], es), GA) /\ L4[l + 1] = Deleted(ins, GB)
  BY <1>1, <1>8, <1>10, <1>11, Zenon
<1>15. RoundMade(L4, L, l, Deleted(Pushed(L[l], es), GA), Deleted(ins, GB))
  BY ONLY <1>10, <1>13, <1>14, Zenon DEF RoundMade
<1> QED
  BY ONLY <1>12, <1>15, Zenon DEF ins
-----------------------------------------------------------------------------
(***************************************************************************)
(* Sets of tables, and what the slices that list them have in common.      *)
(***************************************************************************)
Apart(S) == \A s, t \in S : s # t => ~meet(s, t)

Has(S, k) == {t \in S : k \in DOMAIN t.data}

KeysIn(S) == UNION {DOMAIN t.data : t \in S}

LEMMA SameGen ==
  ASSUME NEW s \in Seq(TableSet), Distinct(s), NEW t \in Tables(s), NEW u \in Tables(s), t.gen = u.gen
  PROVE  t = u
<1>1. PICK i \in DOMAIN s, j \in DOMAIN s : t = s[i] /\ u = s[j]
  BY Zenon DEF Tables
<1>2. DOMAIN s \in SUBSET Int
  BY FiniteIndices, Zenon
<1>3. i < j \/ j < i \/ i = j
  BY ONLY <1>1, <1>2
<1> QED
  BY <1>1, <1>3, Zenon DEF Distinct

LEMMA FirstIndex ==
  ASSUME NEW s \in Seq(TableSet), NEW f
  PROVE  /\ first_index(s, f) \in 0..Len(s)
         /\ \A j \in DOMAIN s : meet(s[j], f) => /\ first_index(s, f) + 1 \in DOMAIN s
                                                 /\ meet(s[first_index(s, f) + 1], f)
                                                 /\ first_index(s, f) < j
<1> DEFINE met == {i \in DOMAIN s : meet(s[i], f)}
           idx == first_index(s, f)
<1>1. met \in SUBSET Int /\ IsFiniteSet(met)
  <2>1. met \in SUBSET DOMAIN s
    BY Zenon
  <2> HIDE DEF met
  <2> QED
    BY <2>1, FiniteIndices, Zenon
<1>2. DOMAIN s = 1..Len(s) /\ Len(s) \in Nat
  OBVIOUS
<1>3. idx = IF met = {} THEN 0 ELSE Min(met) - 1
  BY Zenon DEF first_index
<1>4. CASE met = {}
  <2>1. idx = 0
    BY <1>3, <1>4, Zenon
  <2>2. 0 \in 0..Len(s)
    BY <1>2
  <2> QED
    BY <1>4, <2>1, <2>2, Zenon
<1>5. CASE met # {}
  <2>1. Min(met) \in met /\ \A j \in met : Min(met) <= j
    <3> HIDE DEF met
    <3> QED
      BY <1>1, <1>5, FiniteMin, Zenon
  <2>2. Min(met) \in DOMAIN s /\ meet(s[Min(met)], f)
    BY <2>1, Zenon
  <2>3. \A j \in DOMAIN s : meet(s[j], f) => Min(met) <= j
    BY <2>1, Zenon
  <2>4. idx = Min(met) - 1
    BY <1>3, <1>5, Zenon
  <2> HIDE DEF met, idx
  <2>5. idx \in 0..Len(s) /\ idx + 1 = Min(met)
    BY ONLY <1>2, <2>2, <2>4
  <2>6. \A j \in DOMAIN s : Min(met) <= j => idx < j
    BY ONLY <1>2, <2>2, <2>4
  <2> QED
    BY <2>2, <2>3, <2>5, <2>6, Zenon DEF idx
<1> QED
  BY <1>4, <1>5, Zenon

(* The tables whose gens are not those of A. *)
Rest(S, A) == {t \in S : t.gen \notin {u.gen : u \in A}}

IsRest(R, S, A, N) == R = (S \ A) \cup N

LEMMA Others ==
  ASSUME NEW s \in Seq(TableSet), Distinct(s), NEW A, A \subseteq Tables(s),
         NEW N, OtherGens(N, A)
  PROVE  IsRest(Rest(Tables(s) \cup N, A), Tables(s), A, N)
<1> DEFINE R == Rest(Tables(s) \cup N, A)
<1>1. ASSUME NEW t \in Tables(s), t.gen \in {u.gen : u \in A} PROVE t \in A
  <2>1. PICK u \in A : t.gen = u.gen
    BY <1>1, Zenon
  <2>2. t = u
    BY <2>1, SameGen, Zenon
  <2> QED
    BY <2>2, Zenon
<1>2. ASSUME NEW t \in N PROVE t.gen \notin {u.gen : u \in A}
  BY Zenon DEF OtherGens
<1>3. \A t : t \in R <=> (t \in Tables(s) \/ t \in N) /\ t.gen \notin {u.gen : u \in A}
  BY Zenon DEF Rest
<1> HIDE DEF R
<1>4. ASSUME NEW t PROVE t \in R <=> t \in (Tables(s) \ A) \cup N
  BY <1>1, <1>2, <1>3, Zenon
<1>5. R = (Tables(s) \ A) \cup N
  BY ONLY <1>4, SMT
<1> QED
  BY ONLY <1>5, Zenon DEF R, IsRest

LEMMA OrderedApart ==
  ASSUME NEW s \in Seq(TableSet), Ordered(s)
  PROVE  Apart(Tables(s))
<1>1. \A i \in DOMAIN s : s[i] \in TableSet
  OBVIOUS
<1>2. DOMAIN s \in SUBSET Int
  BY FiniteIndices, Zenon
<1>3. \A i \in DOMAIN s : Interval(s[i])
  BY <1>1, TableInterval, Zenon
<1>4. ASSUME NEW i \in DOMAIN s, NEW j \in DOMAIN s, i # j PROVE ~meet(s[i], s[j])
  <2>1. i < j \/ j < i
    BY ONLY <1>2, <1>4
  <2>2. s[i].end < s[j].start \/ s[j].end < s[i].start
    BY <2>1, Zenon DEF Ordered
  <2>3. Interval(s[i]) /\ Interval(s[j])
    BY <1>3, Zenon
  <2>4. ~(s[i].start <= s[j].end /\ s[j].start <= s[i].end)
    BY ONLY <2>2, <2>3 DEF Interval
  <2> QED
    BY <2>3, <2>4, MeetIs, Zenon
<1> QED
  BY <1>4, Zenon DEF Apart, Tables

(* Below level 0 a key is in one table of a level only. *)
LEMMA OneTable ==
  ASSUME NEW S, S \subseteq TableSet, Apart(S), NEW k, NEW s \in Has(S, k), NEW t \in Has(S, k)
  PROVE  s = t
<1>1. s \in TableSet /\ t \in TableSet /\ k \in DOMAIN s.data /\ k \in DOMAIN t.data
  BY Zenon DEF Has
<1>2. /\ Interval(s) /\ Interval(t) /\ k \in Int
      /\ s.start <= k /\ k <= s.end /\ t.start <= k /\ k <= t.end
  BY <1>1, TableInterval, Zenon
<1>3. s.start <= t.end /\ t.start <= s.end
  BY ONLY <1>2 DEF Interval
<1>4. meet(s, t)
  BY <1>2, <1>3, MeetIs, Zenon
<1> QED
  BY <1>4, Zenon DEF Apart, Has

(* The indices of a slice at which k is found *)
Indices(s, k) == {i \in DOMAIN s : k \in DOMAIN s[i].data}

LEMMA HasIndex ==
  ASSUME NEW s, NEW k
  PROVE  /\ Indices(s, k) = {} <=> Has(Tables(s), k) = {}
         /\ \A i \in Indices(s, k) : s[i] \in Has(Tables(s), k)
         /\ \A t \in Has(Tables(s), k) : \E i \in Indices(s, k) : t = s[i]
BY Zenon DEF Indices, Has, Tables

(***************************************************************************)
(* What query finds in a level that is ordered.                            *)
(***************************************************************************)
LEMMA StampIs ==
  ASSUME NEW t \in TableSet, NEW k
  PROVE  /\ k \in DOMAIN t.data => Stamp(t, k) = t.data[k] /\ Stamp(t, k) # 0
         /\ k \notin DOMAIN t.data => Stamp(t, k) = 0
<1>1. CASE k \in DOMAIN t.data
  <2>1. meet_by_key(t, k)
    <3>1. Interval(t) /\ k \in Int /\ t.start <= k /\ k <= t.end
      BY <1>1, TableInterval, Zenon
    <3> QED
      BY ONLY <3>1 DEF Interval, meet_by_key
  <2>2. t.data \in Data
    BY TableIs, Zenon DEF IsTable
  <2>3. t.data[k] # 0
    BY <1>1, <2>2, DataIs, Zenon
  <2> QED
    BY <1>1, <2>1, <2>3, Zenon DEF Stamp
<1>2. CASE k \notin DOMAIN t.data
  BY <1>2, Zenon DEF Stamp
<1> QED
  BY <1>1, <1>2, Zenon

(* The offset where the search ends *)
Offset(s, k) == Max({1, Cardinality({i \in DOMAIN s : s[i].start <= k})})

LEMMA MaxOne ==
  ASSUME NEW c \in Nat
  PROVE  Max({1, c}) = IF c = 0 THEN 1 ELSE c
<1> DEFINE S == {1, c}
<1>1. S \in SUBSET Int /\ S # {}
  OBVIOUS
<1>2. IsFiniteSet(S)
  <2>1. S = {1} \cup {c}
    BY Zenon
  <2>2. IsFiniteSet({1}) /\ IsFiniteSet({c})
    BY FS_Singleton, Zenon
  <2> QED
    BY <2>1, <2>2, FS_Union, Zenon
<1> HIDE DEF S
<1>3. Max(S) \in S /\ \A y \in S : y <= Max(S)
  BY <1>1, <1>2, FiniteMax, Zenon
<1> QED
  BY <1>3 DEF S

LEMMA OffsetIn ==
  ASSUME NEW s \in Seq(TableSet), s # <<>>, NEW k
  PROVE  Offset(s, k) \in DOMAIN s
<1> DEFINE I == {i \in DOMAIN s : s[i].start <= k}
<1>1. DOMAIN s = 1..Len(s) /\ Len(s) \in Nat /\ Len(s) # 0
  OBVIOUS
<1>2. I \in SUBSET DOMAIN s
  BY Zenon
<1>3. Offset(s, k) = Max({1, Cardinality(I)})
  BY Zenon DEF Offset
<1> HIDE DEF I
<1>4. IsFiniteSet(1..Len(s)) /\ Cardinality(1..Len(s)) = IF 1 > Len(s) THEN 0 ELSE Len(s) - 1 + 1
  <2>1. 1 \in Int /\ Len(s) \in Int
    BY <1>1
  <2> QED
    BY <2>1, FS_Interval, Zenon
<1>5. IsFiniteSet(I) /\ Cardinality(I) <= Cardinality(1..Len(s))
  BY <1>1, <1>2, <1>4, FS_Subset, Zenon
<1>6. Cardinality(I) \in Nat
  BY <1>5, FS_CardinalityType, Zenon
<1>7. Max({1, Cardinality(I)}) = IF Cardinality(I) = 0 THEN 1 ELSE Cardinality(I)
  BY <1>6, MaxOne, Zenon
<1> QED
  BY ONLY <1>1, <1>3, <1>4, <1>5, <1>6, <1>7

LEMMA OffsetHits ==
  ASSUME NEW s \in Seq(TableSet), Ordered(s), NEW k, NEW j \in DOMAIN s, k \in DOMAIN s[j].data
  PROVE  Offset(s, k) = j
<1> DEFINE I == {i \in DOMAIN s : s[i].start <= k}
<1>1. DOMAIN s = 1..Len(s) /\ Len(s) \in Nat /\ \A i \in DOMAIN s : s[i] \in TableSet
  OBVIOUS
<1>2. k \in Int /\ s[j].start <= k /\ k <= s[j].end
  BY <1>1, TableInterval, Zenon
<1>3. \A i \in DOMAIN s : Interval(s[i])
  BY <1>1, TableInterval, Zenon
<1>4. ASSUME NEW i \in DOMAIN s PROVE s[i].start <= k <=> i <= j
  <2>1. i \in Int /\ j \in Int
    BY <1>1
  <2>2. CASE i < j
    <3>1. s[i].end < s[j].start /\ Interval(s[i]) /\ Interval(s[j])
      BY <1>3, <2>2, Zenon DEF Ordered
    <3> QED
      BY ONLY <1>2, <2>1, <2>2, <3>1 DEF Interval
  <2>3. CASE j < i
    <3>1. s[j].end < s[i].start /\ Interval(s[i]) /\ Interval(s[j])
      BY <1>3, <2>3, Zenon DEF Ordered
    <3> QED
      BY ONLY <1>2, <2>1, <2>3, <3>1 DEF Interval
  <2>4. CASE i = j
    <3>1. s[i].start <= k
      BY <1>2, <2>4, Zenon
    <3> QED
      BY ONLY <2>1, <2>4, <3>1
  <2> QED
    BY ONLY <2>1, <2>2, <2>3, <2>4
<1>5. I = {i \in DOMAIN s : i <= j}
  BY <1>4, Zenon
<1>6. {i \in DOMAIN s : i <= j} = 1..j
  BY ONLY <1>1, j \in DOMAIN s
<1>7. Offset(s, k) = Max({1, Cardinality(I)})
  BY Zenon DEF Offset
<1> HIDE DEF I
<1>8. j \in Nat /\ j # 0 /\ j \in Int /\ 1 \in Int
  BY ONLY <1>1, j \in DOMAIN s
<1>9. Cardinality(1..j) = IF 1 > j THEN 0 ELSE j - 1 + 1
  BY <1>8, FS_Interval, Zenon
<1>10. Cardinality(1..j) = j
  BY ONLY <1>8, <1>9
<1>11. Max({1, j}) = IF j = 0 THEN 1 ELSE j
  BY <1>8, MaxOne, Zenon
<1>12. Cardinality(I) = j
  BY <1>5, <1>6, <1>10, Zenon
<1> QED
  BY <1>7, <1>8, <1>11, <1>12, Zenon

(* The stamps query may find in a level *)
Found(s, k) ==
  LET offsets == query_meet_index(s, k)
  IN  IF offsets = {} THEN {0} ELSE {Stamp(s[i], k) : i \in offsets}

LEMMA FoundIs ==
  ASSUME NEW s \in Seq(TableSet), Ordered(s), NEW k
  PROVE  /\ Has(Tables(s), k) = {} => Found(s, k) = {0}
         /\ \A t \in Has(Tables(s), k) : Found(s, k) = {t.data[k]} /\ t.data[k] # 0
<1>0. \A i \in DOMAIN s : s[i] \in TableSet
  OBVIOUS
<1>1. CASE s = <<>>
  <2>1. Found(s, k) = {0}
    BY <1>1, Zenon DEF Found, query_meet_index
  <2>2. DOMAIN s = {}
    BY <1>1
  <2>3. Has(Tables(s), k) = {}
    BY <2>2, Zenon DEF Has, Tables
  <2> QED
    BY <2>1, <2>3, Zenon
<1>2. CASE s # <<>>
  <2>1. query_meet_index(s, k) = {Offset(s, k)}
    BY <1>2, Zenon DEF query_meet_index, Offset
  <2>2. Found(s, k) = {Stamp(s[Offset(s, k)], k)}
    BY <2>1, Zenon DEF Found
  <2>3. Offset(s, k) \in DOMAIN s /\ s[Offset(s, k)] \in TableSet
    BY <1>0, <1>2, OffsetIn, Zenon
  <2>4. ASSUME Has(Tables(s), k) = {} PROVE Found(s, k) = {0}
    <3>1. k \notin DOMAIN s[Offset(s, k)].data
      BY <2>3, <2>4, Zenon DEF Has, Tables
    <3>2. Stamp(s[Offset(s, k)], k) = 0
      BY <2>3, <3>1, StampIs, Zenon
    <3> QED
      BY <2>2, <3>2, Zenon
  <2>5. ASSUME NEW t \in Has(Tables(s), k) PROVE Found(s, k) = {t.data[k]} /\ t.data[k] # 0
    <3>1. PICK j \in DOMAIN s : t = s[j] /\ k \in DOMAIN t.data
      BY Zenon DEF Has, Tables
    <3>2. Offset(s, k) = j
      BY <3>1, OffsetHits, Zenon
    <3>3. Stamp(t, k) = t.data[k] /\ t.data[k] # 0
      BY <1>0, <3>1, StampIs, Zenon
    <3> QED
      BY <2>2, <3>1, <3>2, <3>3, Zenon
  <2> QED
    BY <2>4, <2>5, Zenon
<1> QED
  BY <1>1, <1>2, Zenon

(***************************************************************************)
(* The order of the lower levels.  In an ordered level the tables that     *)
(* meet f are neighbours: a table before the first of them ends before     *)
(* everything that is merged, any other table that does not meet f and     *)
(* comes after the first one starts behind everything that is merged.      *)
(***************************************************************************)
Before(u, X) == \A t \in X : u.end < t.start

After(u, X) == \A t \in X : t.end < u.start

LEMMA BeforeMerged ==
  ASSUME NEW s \in Seq(TableSet), Ordered(s), NEW A, NEW f, Fused(f, A), \A t \in A : Interval(t),
         NEW i \in DOMAIN s, NEW m \in DOMAIN s, i < m, meet(s[m], f),
         \A j \in DOMAIN s : meet(s[j], f) => m <= j
  PROVE  Before(s[i], A \cup {t \in Tables(s) : meet(t, f)})
<1>1. \A j \in DOMAIN s : s[j] \in TableSet /\ j \in Int
  OBVIOUS
<1>2. \A j \in DOMAIN s : Interval(s[j]) /\ j \in Int
  BY <1>1, TableInterval, Zenon
<1>3. Interval(f) /\ \A t \in A : f.start <= t.start /\ t.end <= f.end
  BY Zenon DEF Fused
<1>4. Interval(s[i]) /\ Interval(s[m]) /\ i \in Int /\ m \in Int
  BY <1>2, Zenon
<1>5. s[i].end < s[m].start
  BY Zenon DEF Ordered
<1>6. s[m].start <= f.end /\ f.start <= s[m].end
  BY <1>3, <1>4, MeetIs, Zenon
<1>7. ~meet(s[i], f)
  <2>1. ~(m <= i)
    BY ONLY <1>4, i < m
  <2> QED
    BY <2>1, Zenon
<1>8. ~(s[i].start <= f.end /\ f.start <= s[i].end)
  BY <1>3, <1>4, <1>7, MeetIs, Zenon
<1>9. s[i].end < f.start
  BY ONLY <1>3, <1>4, <1>5, <1>6, <1>8 DEF Interval
<1>10. ASSUME NEW t \in A PROVE s[i].end < t.start
  <2>1. f.start <= t.start /\ Interval(t)
    BY <1>3, Zenon
  <2> QED
    BY ONLY <1>3, <1>4, <1>9, <2>1 DEF Interval
<1>11. ASSUME NEW t \in Tables(s), meet(t, f) PROVE s[i].end < t.start
  <2>1. PICK j \in DOMAIN s : t = s[j]
    BY Zenon DEF Tables
  <2>2. m <= j /\ j \in Int
    BY <1>2, <1>11, <2>1, Zenon
  <2>3. i < j
    BY ONLY <1>4, <2>2, i < m
  <2> QED
    BY <2>1, <2>3, Zenon DEF Ordered
<1> QED
  BY <1>10, <1>11, Zenon DEF Before

LEMMA AfterMerged ==
  ASSUME NEW s \in Seq(TableSet), Ordered(s), NEW A, NEW f, Fused(f, A), \A t \in A : Interval(t),
         NEW i \in DOMAIN s, NEW m \in DOMAIN s, m < i, meet(s[m], f), ~meet(s[i], f)
  PROVE  After(s[i], A \cup {t \in Tables(s) : meet(t, f)})
<1>1. \A j \in DOMAIN s : s[j] \in TableSet /\ j \in Int
  OBVIOUS
<1>2. \A j \in DOMAIN s : Interval(s[j]) /\ j \in Int
  BY <1>1, TableInterval, Zenon
<1>3. Interval(f) /\ \A t \in A : f.start <= t.start /\ t.end <= f.end
  BY Zenon DEF Fused
<1>4. Interval(s[i]) /\ Interval(s[m]) /\ i \in Int /\ m \in Int
  BY <1>2, Zenon
<1>5. s[m].end < s[i].start
  BY Zenon DEF Ordered
<1>6. s[m].start <= f.end /\ f.start <= s[m].end
  BY <1>3, <1>4, MeetIs, Zenon
<1>7. ~(s[i].start <= f.end /\ f.start <= s[i].end)
  BY <1>3, <1>4, MeetIs, Zenon
<1>8. f.end < s[i].start
  BY ONLY <1>3, <1>4, <1>5, <1>6, <1>7 DEF Interval
<1>9. ASSUME NEW t \in A PROVE t.end < s[i].start
  <2>1. t.end <= f.end /\ Interval(t)
    BY <1>3, Zenon
  <2> QED
    BY ONLY <1>3, <1>4, <1>8, <2>1 DEF Interval
<1>10. ASSUME NEW t \in Tables(s), meet(t, f) PROVE t.end < s[i].start
  <2>1. PICK j \in DOMAIN s : t = s[j]
    BY Zenon DEF Tables
  <2>2. Interval(t) /\ j \in Int
    BY <1>2, <2>1, Zenon
  <2>3. t.start <= f.end /\ f.start <= t.end
    BY <1>3, <1>10, <2>2, MeetIs, Zenon
  <2>4. i < j => s[i].end < t.start
    BY <2>1, Zenon DEF Ordered
  <2>5. ~(i < j)
    BY ONLY <1>3, <1>4, <1>8, <2>2, <2>3, <2>4 DEF Interval
  <2>6. i # j
    BY <1>10, <2>1, Zenon
  <2>7. j < i
    BY ONLY <1>4, <2>2, <2>5, <2>6
  <2> QED
    BY <2>1, <2>7, Zenon DEF Ordered
<1> QED
  BY <1>9, <1>10, Zenon DEF After

(* A new table lies between what lies before and after everything that is merged. *)
LEMMA Between ==
  ASSUME NEW X, X \subseteq TableSet, NEW c \in TableSet, DOMAIN c.data \subseteq KeysIn(X),
         NEW u \in TableSet
  PROVE  (Before(u, X) => u.end < c.start) /\ (After(u, X) => c.end < u.start)
<1>1. c.start \in DOMAIN c.data /\ c.end \in DOMAIN c.data
  BY TableIs, Zenon DEF IsTable
<1>2. PICK a \in X : c.start \in DOMAIN a.data
  BY <1>1, Zenon DEF KeysIn
<1>3. PICK b \in X : c.end \in DOMAIN b.data
  BY <1>1, Zenon DEF KeysIn
<1>4. Interval(a) /\ c.start \in Int /\ a.start <= c.start
  BY <1>2, TableInterval, Zenon
<1>5. Interval(b) /\ c.end \in Int /\ c.end <= b.end
  BY <1>3, TableInterval, Zenon
<1>6. Interval(u)
  BY TableInterval, Zenon
<1>7. (Before(u, X) => u.end < a.start) /\ (After(u, X) => b.end < u.start)
  BY Zenon DEF Before, After
<1> QED
  BY ONLY <1>4, <1>5, <1>6, <1>7 DEF Interval

LEMMA InsertOrdered ==
  ASSUME NEW s \in Seq(TableSet), NEW new \in Seq(TableSet), Ordered(s), Ordered(new),
         NEW A, A \subseteq TableSet, NEW f, Fused(f, A),
         NEW B, B = {t \in Tables(s) : meet(t, f)}, B # {},
         \A c \in Tables(new) : DOMAIN c.data \subseteq KeysIn(A \cup B),
         NEW q, q = InsertedAt(s, new, first_index(s, f))
  PROVE  Ordered(Deleted(q, {t.gen : t \in B}))
<1> DEFINE idx == first_index(s, f)
           n == Len(new)
           G == {t.gen : t \in B}
           I == {i \in DOMAIN q : q[i].gen \notin G}
<1>1. idx \in 0..Len(s)
  BY FirstIndex, Zenon
<1>2. PICK b \in DOMAIN s : meet(s[b], f)
  BY Zenon DEF Tables
<1>3. idx + 1 \in DOMAIN s /\ meet(s[idx + 1], f)
  BY <1>2, FirstIndex, Zenon
<1>4. \A j \in DOMAIN s : meet(s[j], f) => idx < j
  BY FirstIndex, Zenon
<1> HIDE DEF idx
<1>5. q \in Seq(TableSet) /\ Inserted(q, s, new, idx)
  BY <1>1, InsertIs, Zenon DEF InsertedAt, idx
<1>6. /\ DOMAIN q = 1..(Len(s) + n)
      /\ \A i \in 1..idx : q[i] = s[i]
      /\ \A i \in 1..n : q[idx + i] = new[i]
      /\ \A i \in (idx + 1)..Len(s) : q[i + n] = s[i]
  BY <1>5, Zenon DEF Inserted
<1>7. /\ Len(s) \in Nat /\ n \in Nat /\ DOMAIN s = 1..Len(s) /\ DOMAIN new = 1..n
      /\ (\A i \in DOMAIN s : s[i] \in TableSet) /\ (\A i \in DOMAIN new : new[i] \in TableSet)
  OBVIOUS
<1>8. \A j \in DOMAIN s : meet(s[j], f) => idx + 1 <= j
  <2>1. \A j \in DOMAIN s : idx < j => idx + 1 <= j
    BY ONLY <1>1, <1>7
  <2> QED
    BY <1>4, <2>1, Zenon
<1>9. (\A t \in A : Interval(t)) /\ A \cup B \subseteq TableSet
  BY <1>7, TableInterval, Zenon DEF Tables
<1>10. ASSUME NEW i \in 1..idx, NEW c \in DOMAIN new PROVE s[i].end < new[c].start
  <2>1. i \in DOMAIN s /\ i < idx + 1
    BY ONLY <1>1, <1>7, i \in 1..idx
  <2>2. Before(s[i], A \cup B)
    BY <1>3, <1>8, <1>9, <2>1, BeforeMerged, Zenon
  <2>3. s[i] \in TableSet /\ new[c] \in TableSet /\ DOMAIN new[c].data \subseteq KeysIn(A \cup B)
    BY <1>7, <2>1, Zenon DEF Tables
  <2> QED
    BY <1>9, <2>2, <2>3, Between, Zenon
<1>11. ASSUME NEW i \in (idx + 1)..Len(s), s[i].gen \notin G, NEW c \in DOMAIN new PROVE new[c].end < s[i].start
  <2>1. i \in DOMAIN s /\ i \in Int
    BY ONLY <1>1, <1>7, i \in (idx + 1)..Len(s)
  <2>2. s[i] \in Tables(s) /\ s[i] \notin B
    BY <1>11, <2>1, Zenon DEF Tables
  <2>3. ~meet(s[i], f)
    BY <2>2, Zenon
  <2>4. i # idx + 1
    BY <1>3, <2>3, Zenon
  <2>5. idx + 1 < i
    BY ONLY <1>1, <1>7, <2>4, i \in (idx + 1)..Len(s)
  <2>6. After(s[i], A \cup B)
    BY <1>3, <1>9, <2>1, <2>3, <2>5, AfterMerged, Zenon
  <2>7. s[i] \in TableSet /\ new[c] \in TableSet /\ DOMAIN new[c].data \subseteq KeysIn(A \cup B)
    BY <1>7, <2>1, Zenon DEF Tables
  <2> QED
    BY <1>9, <2>6, <2>7, Between, Zenon
<1> HIDE DEF n, G
<1>12. ASSUME NEW i \in I, NEW j \in I, i < j PROVE q[i].end < q[j].start
  <2>1. i \in 1..(Len(s) + n) /\ j \in 1..(Len(s) + n) /\ q[i].gen \notin G /\ q[j].gen \notin G
    BY <1>6, Zenon
  <2>2. \A x \in 1..(Len(s) + n) :
          x \in 1..idx \/ (x - idx \in 1..n /\ idx + (x - idx) = x)
          \/ (x - n \in (idx + 1)..Len(s) /\ x - n + n = x)
    BY ONLY <1>1, <1>7
  <2>3. ASSUME NEW x \in 1..(Len(s) + n)
        PROVE  \/ x \in 1..idx /\ q[x] = s[x]
               \/ x - idx \in 1..n /\ q[x] = new[x - idx]
               \/ x - n \in (idx + 1)..Len(s) /\ q[x] = s[x - n]
    <3>1. CASE x \in 1..idx
      BY <1>6, <3>1, Zenon
    <3>2. CASE x - idx \in 1..n /\ idx + (x - idx) = x
      <4>1. q[idx + (x - idx)] = new[x - idx]
        BY <1>6, <3>2, Zenon
      <4> QED
        BY <3>2, <4>1, Zenon
    <3>3. CASE x - n \in (idx + 1)..Len(s) /\ x - n + n = x
      <4>1. q[x - n + n] = s[x - n]
        BY <1>6, <3>3, Zenon
      <4> QED
        BY <3>3, <4>1, Zenon
    <3> QED
      BY <2>2, <3>1, <3>2, <3>3, Zenon
  <2>8. \/ i \in 1..idx /\ q[i] = s[i]
        \/ i - idx \in 1..n /\ q[i] = new[i - idx]
        \/ i - n \in (idx + 1)..Len(s) /\ q[i] = s[i - n]
    BY <2>1, <2>3, Zenon
  <2>9. \/ j \in 1..idx /\ q[j] = s[j]
        \/ j - idx \in 1..n /\ q[j] = new[j - idx]
        \/ j - n \in (idx + 1)..Len(s) /\ q[j] = s[j - n]
    BY <2>1, <2>3, Zenon
  <2>4. (1..idx) \cup ((idx + 1)..Len(s)) \subseteq DOMAIN s
    BY ONLY <1>1, <1>7
  <2>5. CASE i \in 1..idx /\ q[i] = s[i]
    <3>1. CASE j \in 1..idx /\ q[j] = s[j]
      BY <1>12, <2>4, <2>5, <3>1, Zenon DEF Ordered
    <3>2. CASE j - idx \in 1..n /\ q[j] = new[j - idx]
      BY <1>7, <1>10, <2>5, <3>2, Zenon
    <3>3. CASE j - n \in (idx + 1)..Len(s) /\ q[j] = s[j - n]
      <4>1. i < j - n
        BY ONLY <1>1, <1>7, <2>1, <2>5, <3>3
      <4> QED
        BY <2>4, <2>5, <3>3, <4>1, Zenon DEF Ordered
    <3> QED
      BY ONLY <2>9, <3>1, <3>2, <3>3, Zenon
  <2>6. CASE i - idx \in 1..n /\ q[i] = new[i - idx]
    <3>1. CASE j \in 1..idx /\ q[j] = s[j]
      BY ONLY <1>1, <1>7, <1>12, <2>1, <2>6, <3>1
    <3>2. CASE j - idx \in 1..n /\ q[j] = new[j - idx]
      <4>1. i - idx < j - idx
        BY ONLY <1>1, <1>7, <1>12, <2>1
      <4> QED
        BY <1>7, <2>6, <3>2, <4>1, Zenon DEF Ordered
    <3>3. CASE j - n \in (idx + 1)..Len(s) /\ q[j] = s[j - n]
      BY <1>7, <1>11, <2>1, <2>6, <3>3, Zenon
    <3> QED
      BY ONLY <2>9, <3>1, <3>2, <3>3, Zenon
  <2>7. CASE i - n \in (idx + 1)..Len(s) /\ q[i] = s[i - n]
    <3>1. CASE j \in 1..idx /\ q[j] = s[j]
      BY ONLY <1>1, <1>7, <1>12, <2>1, <2>7, <3>1
    <3>2. CASE j - idx \in 1..n /\ q[j] = new[j - idx]
      BY ONLY <1>1, <1>7, <1>12, <2>1, <2>7, <3>2
    <3>3. CASE j - n \in (idx + 1)..Len(s) /\ q[j] = s[j - n]
      <4>1. i - n < j - n
        BY ONLY <1>1, <1>7, <1>12, <2>1
      <4> QED
        BY <2>4, <2>7, <3>3, <4>1, Zenon DEF Ordered
    <3> QED
      BY ONLY <2>9, <3>1, <3>2, <3>3, Zenon
  <2> QED
    BY ONLY <2>5, <2>6, <2>7, <2>8, Zenon
<1>13. OrderedAt(q, I)
  BY <1>12, Zenon DEF OrderedAt
<1>14. I \in SUBSET DOMAIN q
  BY Zenon
<1>15. Deleted(q, G) = Pick(q, I)
  BY Zenon DEF Deleted
<1> HIDE DEF I
<1>16. Ordered(Pick(q, I))
  BY <1>5, <1>13, <1>14, PickKeeps, Zenon
<1> QED
  BY <1>15, <1>16, Zenon DEF G
=============================================================================
