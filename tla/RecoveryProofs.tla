---------------------------- MODULE RecoveryProofs ----------------------------
(***************************************************************************)
(* What a restart brings back, proved for any number of keys, writes,      *)
(* restarts and errors: the inductive invariant of Recovery, and its       *)
(* properties.                                                             *)
(***************************************************************************)
EXTENDS Recovery, WellFoundedInduction, TLAPS

Entry == [key : Keys, seq : Nat, val : Nat \ {0}]
Stamps == [key : Keys, seq : Nat]
TableData == [Keys -> Nat]
Sst == [ok : BOOLEAN, data : TableData]

(* The functions from some gens to S *)
ByGen(S) == UNION {[D -> S] : D \in SUBSET Nat}

Files == [sst : ByGen(Sst), wal : ByGen(Seq(Entry)), cache : ByGen(TableData)]

Types ==
  /\ table_type \in {"SortedString", "BTree"}
  /\ seq_count \in Nat /\ gen \in Nat /\ val \in Nat \ {0}
  /\ mem \in SUBSET Entry /\ immut \in SUBSET Entry /\ stamped \in SUBSET Stamps
  /\ files \in Files
  /\ log_writer \in [gen : Nat, pos : Nat]
  /\ level0 \in Seq(Nat) /\ level1 \in Seq(Nat)
  /\ flushing \in [gen : Nat, data : SUBSET Entry]
  /\ made \in ByGen(TableData)
  /\ installed \in BOOLEAN /\ dirty \in SUBSET Nat

(***************************************************************************)
(* Sequence ids order the entries of a key in _mem and in _immut, and the  *)
(* commit on its way has one of its own.                                   *)
(***************************************************************************)
Unique(M) == \A e, f \in M : e.key = f.key /\ e.seq = f.seq => e = f

SeqInv ==
  /\ \A e \in mem \cup immut \cup stamped : e.seq < seq_count
  /\ \A w \in stamped, e \in mem : e.seq # w.seq
  /\ Unique(mem) /\ Unique(immut)

(***************************************************************************)
(* The WAL in use is the newest, and no table has its gen.                 *)
(***************************************************************************)
GenInv ==
  /\ log_writer.gen \in DOMAIN files.wal /\ log_writer.gen < gen
  /\ log_writer.pos <= Len(wal)
  /\ \A g \in DOMAIN files.wal : g <= log_writer.gen
  /\ \A g \in Range(Tables) \cup DOMAIN files.sst \cup DOMAIN files.cache :
       g < gen /\ g # log_writer.gen

(* The newest value of every key in M, 0 if there is none *)
NewestData(M) == DataOf(unique_by_key(M))

(* A WAL that was only appended to, in the order of sequence ids, holds _mem. *)
WalInv == log_writer.gen \notin dirty => TableOf(wal) = NewestData(mem)

(***************************************************************************)
(* A minor compaction in progress: its gen is that of no table, and its    *)
(* WAL still holds what it writes.                                         *)
(***************************************************************************)
FlushInv ==
  flushing # NotFlushing =>
    /\ flushing.data = unique_by_key(immut)
    /\ flushing.gen \in DOMAIN files.wal /\ flushing.gen < log_writer.gen
    /\ flushing.gen \notin Range(Tables) \cup DOMAIN files.sst
    /\ flushing.gen \notin dirty => TableOf(files.wal[flushing.gen]) = DataOf(flushing.data)

(***************************************************************************)
(* A BTreeTable is in its WAL, an SSTable in its file; what is cached is   *)
(* the same.                                                               *)
(***************************************************************************)
Kept(g) ==
  /\ g \in DOMAIN made
  /\ InWal(g) => /\ g \in DOMAIN files.wal
                 /\ g \in DOMAIN files.sst => ~files.sst[g].ok
                 /\ g \notin dirty => TableOf(files.wal[g]) = made[g]
  /\ ~InWal(g) => g \in DOMAIN files.sst /\ files.sst[g].ok /\ files.sst[g].data = made[g]
  /\ g \in DOMAIN files.cache /\ ~(InWal(g) /\ g \in dirty) => files.cache[g] = made[g]

TableInv == \A g \in Range(Tables) : Kept(g)

(* What the tables hold together, as they were made *)
Holding(T, m, k) == {i \in DOMAIN T : m[T[i]][k] # 0}
Top(T, m, k) == IF Holding(T, m, k) = {} THEN 0 ELSE m[T[Max(Holding(T, m, k))]][k]

(* Once its table is in the Version, _immut hides nothing but itself. *)
ImmutInv ==
  installed => \A k \in Keys : (\E e \in immut : e.key = k) => NewestData(immut)[k] = Top(Tables, made, k)

RecoveryInv == SeqInv /\ GenInv /\ WalInv /\ FlushInv /\ TableInv /\ ImmutInv

Good == Types /\ RecoveryInv

(* Nothing is claimed once a table was misread. *)
Inv == misread \/ Good
-----------------------------------------------------------------------------
(***************************************************************************)
(* Functions on gens.                                                      *)
(***************************************************************************)
LEMMA ByGenFacts ==
  ASSUME NEW S, NEW f \in ByGen(S)
  PROVE  DOMAIN f \in SUBSET Nat /\ f \in [DOMAIN f -> S] /\ \A g \in DOMAIN f : f[g] \in S
<1>1. PICK D \in SUBSET Nat : f \in [D -> S]
  BY Zenon DEF ByGen
<1> QED
  BY <1>1, Zenon

LEMMA ByGenIntro ==
  ASSUME NEW S, NEW D \in SUBSET Nat, NEW f \in [D -> S]
  PROVE  f \in ByGen(S)
BY Zenon DEF ByGen

WithIs(S, f, g, v) ==
  /\ With(f, g, v) \in ByGen(S)
  /\ DOMAIN With(f, g, v) = DOMAIN f \cup {g}
  /\ With(f, g, v)[g] = v
  /\ \A h \in DOMAIN f : h # g => With(f, g, v)[h] = f[h]

WithoutIs(S, f, G) ==
  /\ Without(f, G) \in ByGen(S)
  /\ DOMAIN Without(f, G) = DOMAIN f \ G
  /\ \A h \in DOMAIN f \ G : Without(f, G)[h] = f[h]

LEMMA WithFacts ==
  ASSUME NEW S, NEW f \in ByGen(S), NEW g \in Nat, NEW v \in S
  PROVE  WithIs(S, f, g, v)
<1>1. DOMAIN f \in SUBSET Nat /\ \A h \in DOMAIN f : f[h] \in S
  BY ByGenFacts, Zenon
<1>2. DOMAIN f \cup {g} \in SUBSET Nat
  BY <1>1, Zenon
<1>3. With(f, g, v) \in [DOMAIN f \cup {g} -> S]
  BY <1>1, Zenon DEF With
<1>4. With(f, g, v) \in ByGen(S)
  BY <1>2, <1>3, ByGenIntro, Zenon
<1>5. /\ DOMAIN With(f, g, v) = DOMAIN f \cup {g}
      /\ With(f, g, v)[g] = v
      /\ \A h \in DOMAIN f : h # g => With(f, g, v)[h] = f[h]
  BY Zenon DEF With
<1> QED
  BY <1>4, <1>5, Zenon DEF WithIs

LEMMA WithoutFacts ==
  ASSUME NEW S, NEW f \in ByGen(S), NEW G
  PROVE  WithoutIs(S, f, G)
<1>1. DOMAIN f \in SUBSET Nat /\ \A h \in DOMAIN f : f[h] \in S
  BY ByGenFacts, Zenon
<1>2. DOMAIN f \ G \in SUBSET Nat
  BY <1>1, Zenon
<1>3. Without(f, G) \in [DOMAIN f \ G -> S]
  BY <1>1, Zenon DEF Without
<1>4. Without(f, G) \in ByGen(S)
  BY <1>2, <1>3, ByGenIntro, Zenon
<1>5. DOMAIN Without(f, G) = DOMAIN f \ G /\ \A h \in DOMAIN f \ G : Without(f, G)[h] = f[h]
  BY Zenon DEF Without
<1> QED
  BY <1>4, <1>5, Zenon DEF WithoutIs

LEMMA EmptyFacts == ASSUME NEW S PROVE <<>> \in ByGen(S) /\ DOMAIN <<>> = {}
<1>1. <<>> \in [{} -> S]
  OBVIOUS
<1> QED
  BY <1>1, ByGenIntro, Zenon

LEMMA FilesFacts ==
  ASSUME NEW d \in Files
  PROVE  /\ d.sst \in ByGen(Sst) /\ d.wal \in ByGen(Seq(Entry)) /\ d.cache \in ByGen(TableData)
         /\ d = [sst |-> d.sst, wal |-> d.wal, cache |-> d.cache]
BY DEF Files

LEMMA FilesIntro ==
  ASSUME NEW s \in ByGen(Sst), NEW w \in ByGen(Seq(Entry)), NEW c \in ByGen(TableData)
  PROVE  [sst |-> s, wal |-> w, cache |-> c] \in Files
BY Zenon DEF Files

LEMMA CacheOnly ==
  ASSUME NEW d \in Files, NEW c
  PROVE  [d EXCEPT !.cache = c] = [sst |-> d.sst, wal |-> d.wal, cache |-> c]
BY SMT DEF Files
-----------------------------------------------------------------------------
(***************************************************************************)
(* Newest entries.                                                         *)
(***************************************************************************)
(* A set of bounded numbers has a greatest one. *)
LEMMA Greatest ==
  ASSUME NEW S \in SUBSET Nat, NEW b \in Nat, \A n \in S : n <= b, S # {}
  PROVE  /\ Max(S) \in S /\ \A n \in S : n <= Max(S)
<1> DEFINE T == {b - n : n \in S}
<1>a. \A n \in S : b - n \in Nat
  BY SMT
<1>1. T \in SUBSET Nat /\ T # {}
  BY <1>a, Zenon
<1> HIDE DEF T
<1>2. PICK m \in T : \A n \in T : ~(<<n, m>> \in OpToRel(<, Nat))
  BY <1>1, NatLessThanWellFounded, WFMin, Zenon
<1>3. \A n \in T : ~(n < m)
  BY <1>1, <1>2, Zenon DEF OpToRel
<1>4. PICK x \in S : m = b - x
  BY Zenon DEF T
<1>5. \A n \in S : b - n \in T
  BY Zenon DEF T
<1>6. \A n \in S : x >= n
  BY <1>3, <1>4, <1>5
<1>7. \E y \in S : \A n \in S : y >= n
  BY <1>6
<1>8. Max(S) \in S /\ \A n \in S : Max(S) >= n
  BY <1>7, Zenon DEF Max
<1> QED
  BY <1>8

LEMMA MaxIs ==
  ASSUME NEW S \in SUBSET Nat, NEW m \in S, \A n \in S : n <= m
  PROVE  Max(S) = m
<1>1. Max(S) \in S /\ \A n \in S : n <= Max(S)
  BY Greatest, Zenon
<1>2. Max(S) \in Nat /\ m \in Nat /\ m <= Max(S) /\ Max(S) <= m
  BY <1>1, Zenon
<1> QED
  BY <1>2

(* e is the newest entry of k in M. *)
IsNewest(M, k, e) == e \in M /\ e.key = k /\ \A f \in M : f.key = k => f.seq <= e.seq

Bounded(M) == M \in SUBSET Entry /\ Unique(M) /\ \E b \in Nat : \A e \in M : e.seq <= b

LEMMA NewestExists ==
  ASSUME NEW M, Bounded(M), NEW k, \E e \in M : e.key = k
  PROVE  \E e : IsNewest(M, k, e)
<1> DEFINE S == {e.seq : e \in {f \in M : f.key = k}}
<1>1. PICK b \in Nat : \A e \in M : e.seq <= b
  BY DEF Bounded
<1>2. S \in SUBSET Nat /\ S # {} /\ \A n \in S : n <= b
  BY <1>1 DEF Bounded, Entry
<1>3. Max(S) \in S /\ \A n \in S : n <= Max(S)
  BY <1>2, Greatest, Zenon
<1>4. PICK e \in M : e.key = k /\ e.seq = Max(S)
  BY <1>3, Zenon
<1>5. \A f \in M : f.key = k => f.seq \in S
  OBVIOUS
<1> QED
  BY <1>3, <1>4, <1>5, Zenon DEF IsNewest

LEMMA NewestIs ==
  ASSUME NEW M, Bounded(M), NEW k \in Keys, NEW e, IsNewest(M, k, e)
  PROVE  /\ NewestData(M)[k] = e.val
         /\ Latest({f \in M : f.key = k}) = {e}
         /\ e.val # 0
<1>1. \A f : f \in unique_by_key(M) /\ f.key = k => f = e
  BY DEF Bounded, Unique, Entry, IsNewest, unique_by_key
<1>2. e \in unique_by_key(M) /\ e.key = k
  BY DEF IsNewest, unique_by_key
<1>3. (CHOOSE f \in unique_by_key(M) : f.key = k) = e
  BY <1>1, <1>2
<1>4. NewestData(M)[k] = e.val
  BY <1>2, <1>3, Zenon DEF NewestData, DataOf
<1>5. \A f : f \in Latest({g \in M : g.key = k}) <=> f = e
  BY DEF Bounded, Unique, Entry, IsNewest, Latest
<1> QED
  BY <1>4, <1>5 DEF Bounded, Entry, IsNewest

LEMMA NewestVal ==
  ASSUME NEW M, Bounded(M), NEW k \in Keys, \E e \in M : e.key = k
  PROVE  NewestData(M)[k] # 0
<1>1. PICK e : IsNewest(M, k, e)
  BY NewestExists, Zenon
<1>2. NewestData(M)[k] = e.val /\ e.val # 0
  BY <1>1, NewestIs
<1> QED
  BY <1>2, Zenon

LEMMA NoNewest ==
  ASSUME NEW M, NEW k \in Keys, \A e \in M : e.key # k
  PROVE  NewestData(M)[k] = 0 /\ Latest({f \in M : f.key = k}) = {}
BY DEF NewestData, DataOf, unique_by_key, Latest

(* NewestData maps every key to the value that a lookup finds. *)
LEMMA NewestType ==
  ASSUME NEW M, Bounded(M)
  PROVE  NewestData(M) \in TableData
<1>1. ASSUME NEW k \in Keys PROVE NewestData(M)[k] \in Nat
  <2>1. CASE \A e \in M : e.key # k
    BY <2>1, NoNewest
  <2>2. CASE \E e \in M : e.key = k
    <3>1. PICK e : IsNewest(M, k, e)
      BY <2>2, NewestExists
    <3> QED
      BY <3>1, NewestIs DEF IsNewest, Bounded, Entry
  <2> QED
    BY <2>1, <2>2
<1> QED
  BY <1>1 DEF NewestData, DataOf, TableData

(* An entry that is newer than those of its key takes its place. *)
LEMMA NewestAdd ==
  ASSUME NEW M, Bounded(M), NEW e \in Entry, \A f \in M : f.key = e.key => f.seq < e.seq
  PROVE  /\ Bounded(M \cup {e})
         /\ NewestData(M \cup {e}) = [NewestData(M) EXCEPT ![e.key] = e.val]
<1> DEFINE N == M \cup {e}
<1>1. Bounded(N)
  <2>1. PICK b \in Nat : \A f \in M : f.seq <= b
    BY DEF Bounded
  <2>2. b + e.seq \in Nat /\ \A f \in N : f.seq <= b + e.seq
    BY <2>1 DEF Bounded, Entry
  <2>3. N \in SUBSET Entry /\ Unique(N)
    BY DEF Bounded, Entry, Unique
  <2> QED
    BY <2>2, <2>3 DEF Bounded
<1>2. NewestData(N)[e.key] = e.val
  <2>1. IsNewest(N, e.key, e)
    BY DEF IsNewest, Bounded, Entry
  <2> QED
    BY <1>1, <2>1, NewestIs DEF Entry
<1>3. ASSUME NEW k \in Keys, k # e.key PROVE NewestData(N)[k] = NewestData(M)[k]
  <2>1. CASE \A f \in M : f.key # k
    BY <1>3, <2>1, NoNewest
  <2>2. CASE \E f \in M : f.key = k
    <3>1. PICK f : IsNewest(M, k, f)
      BY <2>2, NewestExists
    <3>2. IsNewest(N, k, f)
      BY <1>3, <3>1 DEF IsNewest
    <3> QED
      BY <1>1, <3>1, <3>2, NewestIs
  <2> QED
    BY <2>1, <2>2
<1>4. NewestData(N) \in TableData /\ NewestData(M) \in TableData
  BY <1>1, NewestType
<1> HIDE DEF N
<1> QED
  BY <1>1, <1>2, <1>3, <1>4, Zenon DEF TableData, Entry, N
-----------------------------------------------------------------------------
(***************************************************************************)
(* Records of a WAL.                                                       *)
(***************************************************************************)
Within(log, k) == {i \in DOMAIN log : log[i].key = k}

LEMMA ConcatFacts ==
  ASSUME NEW S, NEW s \in Seq(S), NEW t \in Seq(S)
  PROVE  s \o t \in Seq(S) /\ Len(s \o t) = Len(s) + Len(t)
OBVIOUS

LEMMA RangeAppend ==
  ASSUME NEW T \in Seq(Nat), NEW x \in Nat
  PROVE  Range(Append(T, x)) = Range(T) \cup {x}
<1> DEFINE U == Append(T, x)
           n == Len(T)
<1>1. n \in Nat /\ DOMAIN T = 1..n /\ DOMAIN U = 1..(n + 1)
  OBVIOUS
<1>2. U[n + 1] = x /\ \A i \in 1..n : U[i] = T[i]
  OBVIOUS
<1> HIDE DEF U, n
<1>3. \A i : i \in 1..(n + 1) <=> i \in 1..n \/ i = n + 1
  BY <1>1
<1>4. \A y : y \in Range(U) <=> y \in Range(T) \/ y = x
  BY <1>1, <1>2, <1>3, Zenon DEF Range
<1>5. Range(U) = Range(T) \cup {x}
  BY <1>4, Zenon
<1> QED
  BY <1>5 DEF U

LEMMA LastIs ==
  ASSUME NEW log \in Seq(Entry), NEW k \in Keys
  PROVE  /\ Within(log, k) = {} => LastOf(log, k) = {}
         /\ Within(log, k) # {} =>
              /\ LastOf(log, k) = {Max(Within(log, k))}
              /\ Max(Within(log, k)) \in DOMAIN log
<1>1. CASE Within(log, k) = {}
  BY <1>1 DEF Within, LastOf
<1>2. CASE Within(log, k) # {}
  <2> DEFINE S == Within(log, k)
             m == Max(S)
  <2>1. S \in SUBSET Nat /\ Len(log) \in Nat /\ \A n \in S : n <= Len(log)
    BY DEF Within
  <2>2. m \in S /\ \A n \in S : n <= m
    BY <1>2, <2>1, Greatest, Zenon
  <2> HIDE DEF m
  <2>3. \A i : i \in LastOf(log, k) <=> i = m
    BY <2>1, <2>2 DEF LastOf, Within
  <2> QED
    BY <1>2, <2>2, <2>3 DEF m, Within
<1> QED
  BY <1>1, <1>2

LEMMA TableIs ==
  ASSUME NEW log \in Seq(Entry), NEW k \in Keys
  PROVE  /\ Within(log, k) = {} => TableOf(log)[k] = 0
         /\ Within(log, k) # {} =>
              /\ TableOf(log)[k] = log[Max(Within(log, k))].val
              /\ TableOf(log)[k] \in Nat \ {0}
<1>1. CASE Within(log, k) = {}
  BY <1>1, LastIs DEF TableOf
<1>2. CASE Within(log, k) # {}
  <2> DEFINE m == Max(Within(log, k))
  <2>1. LastOf(log, k) = {m} /\ m \in DOMAIN log
    BY <1>2, LastIs
  <2> HIDE DEF m
  <2>2. (CHOOSE i \in LastOf(log, k) : TRUE) = m
    BY <2>1
  <2>3. TableOf(log)[k] = log[m].val
    BY <2>1, <2>2 DEF TableOf
  <2>4. log[m] \in Entry
    BY <2>1
  <2> QED
    BY <1>2, <2>3, <2>4 DEF m, Entry
<1> QED
  BY <1>1, <1>2

LEMMA TableType ==
  ASSUME NEW log \in Seq(Entry)
  PROVE  TableOf(log) \in TableData
<1>1. \A k \in Keys : TableOf(log)[k] \in Nat
  BY TableIs
<1> QED
  BY <1>1 DEF TableOf, TableData

LEMMA TableAppend ==
  ASSUME NEW log \in Seq(Entry), NEW e \in Entry
  PROVE  TableOf(Append(log, e)) = [TableOf(log) EXCEPT ![e.key] = e.val]
<1> DEFINE l == Append(log, e)
           n == Len(log) + 1
<1>1. l \in Seq(Entry) /\ Len(l) = n /\ l[n] = e /\ \A i \in 1..Len(log) : l[i] = log[i]
  OBVIOUS
<1> HIDE DEF l
<1>2. TableOf(l)[e.key] = e.val
  <2>1. e.key \in Keys
    BY DEF Entry
  <2>2. Within(l, e.key) \in SUBSET Nat /\ n \in Within(l, e.key) /\ \A i \in Within(l, e.key) : i <= n
    BY <1>1 DEF Within
  <2>3. Max(Within(l, e.key)) = n
    BY <2>2, MaxIs
  <2> QED
    BY <1>1, <2>1, <2>2, <2>3, TableIs
<1>3. ASSUME NEW k \in Keys, k # e.key PROVE TableOf(l)[k] = TableOf(log)[k]
  <2>1. Within(l, k) = Within(log, k)
    BY <1>1, <1>3 DEF Within
  <2>2. CASE Within(log, k) = {}
    BY <1>1, <2>1, <2>2, TableIs
  <2>3. CASE Within(log, k) # {}
    <3>1. Max(Within(log, k)) \in 1..Len(log)
      BY <2>3, LastIs
    <3> QED
      BY <1>1, <2>1, <2>3, <3>1, TableIs
  <2> QED
    BY <2>2, <2>3
<1>4. TableOf(l) \in TableData /\ TableOf(log) \in TableData
  BY <1>1, TableType
<1> QED
  BY <1>2, <1>3, <1>4 DEF TableData, l

(* MemTable::new finds in a WAL what a BTreeTable of it would hold. *)
LEMMA ReloadIs ==
  ASSUME NEW log \in Seq(Entry)
  PROVE  /\ Bounded(reload(log)) /\ \A e \in reload(log) : e.seq = 0
         /\ NewestData(reload(log)) = TableOf(log)
<1> DEFINE M == reload(log)
           K == {log[i].key : i \in DOMAIN log}
           rec(k) == [key |-> k, seq |-> 0, val |-> TableOf(log)[k]]
<1>1. ASSUME NEW k \in K PROVE k \in Keys /\ Within(log, k) # {}
  <2>1. PICK i \in DOMAIN log : k = log[i].key
    OBVIOUS
  <2>2. log[i] \in Entry
    OBVIOUS
  <2> QED
    BY <2>1, <2>2 DEF Within, Entry
<1>2. \A k \in K : rec(k) \in Entry
  BY <1>1, TableIs, Zenon DEF Entry
<1>3. \A e : e \in M <=> \E k \in K : e = rec(k)
  BY Zenon DEF reload
<1> HIDE DEF M
<1>4. M \in SUBSET Entry /\ \A e \in M : e.seq = 0
  BY <1>2, <1>3
<1>5. Bounded(M)
  <2>1. Unique(M)
    BY <1>3 DEF Unique
  <2> QED
    BY <1>4, <2>1 DEF Bounded
<1>6. ASSUME NEW k \in Keys PROVE NewestData(M)[k] = TableOf(log)[k]
  <2>1. CASE k \in K
    <3>1. rec(k) \in M
      BY <1>3, <2>1
    <3>2. IsNewest(M, k, rec(k))
      BY <1>4, <3>1 DEF IsNewest
    <3>3. NewestData(M)[k] = rec(k).val
      BY <1>5, <3>2, NewestIs
    <3> QED
      BY <3>3
  <2>2. CASE k \notin K
    <3>1. \A e \in M : e.key # k
      BY <1>3, <2>2
    <3>2. Within(log, k) = {}
      BY <2>2 DEF Within
    <3> QED
      BY <3>1, <3>2, NoNewest, TableIs
  <2> QED
    BY <2>1, <2>2
<1>7. NewestData(M) \in TableData /\ TableOf(log) \in TableData
  BY <1>5, NewestType, TableType
<1>8. NewestData(M) = TableOf(log)
  BY <1>6, <1>7 DEF TableData
<1> QED
  BY <1>4, <1>5, <1>8 DEF M

(* KipStorage::get: the newest value of _mem, else of _immut, else of the tables *)
LEMMA LookupIs ==
  ASSUME NEW M, Bounded(M), NEW I, Bounded(I), NEW d, NEW k \in Keys
  PROVE  ValOf(find(M, I, k), d, k) =
           IF NewestData(M)[k] # 0 THEN NewestData(M)[k]
           ELSE IF NewestData(I)[k] # 0 THEN NewestData(I)[k] ELSE Merged(d, k)
<1> DEFINE any(S) == Latest({f \in S : f.key = k})
<1>1. ASSUME NEW S, Bounded(S)
      PROVE  \/ NewestData(S)[k] = 0 /\ any(S) = {}
             \/ NewestData(S)[k] # 0 /\ any(S) # {} /\ (CHOOSE e \in any(S) : TRUE).val = NewestData(S)[k]
  <2>1. CASE \A e \in S : e.key # k
    BY <2>1, NoNewest
  <2>2. CASE \E e \in S : e.key = k
    <3>1. PICK e : IsNewest(S, k, e)
      BY <1>1, <2>2, NewestExists
    <3>2. any(S) = {e} /\ NewestData(S)[k] = e.val /\ e.val # 0
      BY <1>1, <3>1, NewestIs
    <3>3. (CHOOSE f \in any(S) : TRUE) = e
      BY <3>2
    <3> QED
      BY <3>2, <3>3
  <2> QED
    BY <2>1, <2>2
<1>2. find(M, I, k) = IF any(M) # {} THEN any(M) ELSE any(I)
  BY DEF find
<1> HIDE DEF any
<1> QED
  BY <1>1, <1>2 DEF ValOf
-----------------------------------------------------------------------------
(***************************************************************************)
(* The operations of TableLoader.                                          *)
(***************************************************************************)
(* The files of d are those of e at g, but for an empty .sst *)
Stays(d, e, g) ==
  /\ g \in DOMAIN d.wal => g \in DOMAIN e.wal /\ e.wal[g] = d.wal[g]
  /\ g \in DOMAIN d.sst => g \in DOMAIN e.sst /\ e.sst[g] = d.sst[g]
  /\ g \in DOMAIN e.sst \ DOMAIN d.sst => ~e.sst[g].ok

Readable(d, g) == g \in DOMAIN d.sst /\ d.sst[g].ok

CreateIs(e, d, g, data, type) ==
  /\ e \in Files /\ e.wal = d.wal
  /\ e.cache = With(d.cache, g, data)
  /\ e.sst = IF type = "SortedString" THEN With(d.sst, g, [ok |-> TRUE, data |-> data]) ELSE d.sst

LEMMA CreateFacts ==
  ASSUME NEW d \in Files, NEW g \in Nat, NEW data \in TableData, NEW type
  PROVE  CreateIs(create(d, g, data, type), d, g, data, type)
<1> DEFINE s == IF type = "SortedString" THEN With(d.sst, g, [ok |-> TRUE, data |-> data]) ELSE d.sst
           c == With(d.cache, g, data)
<1>1. d.sst \in ByGen(Sst) /\ d.wal \in ByGen(Seq(Entry)) /\ d.cache \in ByGen(TableData)
  BY FilesFacts
<1>2. create(d, g, data, type) = [sst |-> s, wal |-> d.wal, cache |-> c]
  BY FilesFacts DEF create, create_ss_table
<1>3. [ok |-> TRUE, data |-> data] \in Sst
  BY DEF Sst
<1>4. s \in ByGen(Sst) /\ c \in ByGen(TableData)
  <2>1. WithIs(Sst, d.sst, g, [ok |-> TRUE, data |-> data]) /\ WithIs(TableData, d.cache, g, data)
    BY <1>1, <1>3, WithFacts, Zenon
  <2> QED
    BY <1>1, <2>1 DEF WithIs
<1> HIDE DEF s, c
<1>5. [sst |-> s, wal |-> d.wal, cache |-> c] \in Files
  BY <1>1, <1>4, FilesIntro
<1> DEFINE e == [sst |-> s, wal |-> d.wal, cache |-> c]
<1>6. e.sst = s /\ e.wal = d.wal /\ e.cache = c
  OBVIOUS
<1> HIDE DEF e
<1>7. create(d, g, data, type) = e /\ e \in Files
  BY <1>2, <1>5, Zenon DEF e
<1> QED
  BY <1>6, <1>7, Zenon DEF CreateIs, s, c

LEMMA EmptyTable == Empty \in Sst /\ ~Empty.ok /\ <<>> \in Seq(Entry)
BY DEF Empty, Sst, NoData, TableData

(* What get does to the files of a table that is not cached *)
LEMMA GetIs ==
  ASSUME NEW d \in Files, NEW g \in Nat, g \notin DOMAIN d.cache
  PROVE  /\ Contents(d, g) \in TableData
         /\ Contents(d, g) = IF Readable(d, g) THEN d.sst[g].data
                             ELSE TableOf(IF g \in DOMAIN d.wal THEN d.wal[g] ELSE <<>>)
         /\ get(d, g) \in Files
         /\ get(d, g).cache = With(d.cache, g, Contents(d, g))
         /\ get(d, g).sst = IF g \in DOMAIN d.sst THEN d.sst ELSE With(d.sst, g, Empty)
         /\ get(d, g).wal = IF Readable(d, g) \/ g \in DOMAIN d.wal THEN d.wal
                            ELSE With(d.wal, g, <<>>)
<1> DEFINE s == IF g \in DOMAIN d.sst THEN d.sst ELSE With(d.sst, g, Empty)
           w == IF Readable(d, g) \/ g \in DOMAIN d.wal THEN d.wal ELSE With(d.wal, g, <<>>)
           v == IF Readable(d, g) THEN d.sst[g].data
                ELSE TableOf(IF g \in DOMAIN d.wal THEN d.wal[g] ELSE <<>>)
           c == With(d.cache, g, v)
<1>1. d.sst \in ByGen(Sst) /\ d.wal \in ByGen(Seq(Entry)) /\ d.cache \in ByGen(TableData)
  BY FilesFacts
<1>2. /\ With(d.sst, g, Empty) \in ByGen(Sst) /\ With(d.sst, g, Empty)[g] = Empty
      /\ With(d.wal, g, <<>>) \in ByGen(Seq(Entry)) /\ With(d.wal, g, <<>>)[g] = <<>>
  <2>1. WithIs(Sst, d.sst, g, Empty) /\ WithIs(Seq(Entry), d.wal, g, <<>>)
    BY <1>1, EmptyTable, WithFacts, Zenon
  <2> QED
    BY <2>1, Zenon DEF WithIs
<1>3. s \in ByGen(Sst) /\ w \in ByGen(Seq(Entry))
  BY <1>1, <1>2
<1>4. v \in TableData
  <2>1. Readable(d, g) => d.sst[g] \in Sst
    BY <1>1, ByGenFacts DEF Readable
  <2>2. (IF g \in DOMAIN d.wal THEN d.wal[g] ELSE <<>>) \in Seq(Entry)
    BY <1>1, ByGenFacts, EmptyTable
  <2> QED
    BY <2>1, <2>2, TableType, Zenon DEF Sst
<1>5. c \in ByGen(TableData) /\ c[g] = v
  <2> HIDE DEF v
  <2>1. WithIs(TableData, d.cache, g, v)
    BY <1>1, <1>4, WithFacts, Zenon
  <2> QED
    BY <2>1, Zenon DEF WithIs
<1>6. get(d, g) = [sst |-> s, wal |-> w, cache |-> c]
  <2>1. open_sst(d, g) = [sst |-> s, wal |-> d.wal, cache |-> d.cache]
    BY FilesFacts DEF open_sst
  <2>2. s[g].ok <=> Readable(d, g)
    BY <1>2, EmptyTable DEF Readable
  <2>3. CASE Readable(d, g)
    <3>1. s[g] = d.sst[g]
      BY <2>3 DEF Readable
    <3> HIDE DEF s
    <3> QED
      BY <2>1, <2>2, <2>3, <3>1 DEF get, load, Cached
  <2>4. CASE ~Readable(d, g)
    <3> HIDE DEF s
    <3> DEFINE o == [sst |-> s, wal |-> d.wal, cache |-> d.cache]
    <3>1. get(d, g) = reload_with_wal(o, g)
      BY <2>1, <2>2, <2>4 DEF get, load
    <3>2. open_wal(o, g) = [sst |-> s, wal |-> w, cache |-> d.cache]
      BY <2>4 DEF open_wal
    <3>3. w[g] = IF g \in DOMAIN d.wal THEN d.wal[g] ELSE <<>>
      BY <1>2, <2>4
    <3> HIDE DEF w
    <3> QED
      BY <2>4, <3>1, <3>2, <3>3 DEF reload_with_wal, Cached
  <2> QED
    BY <2>3, <2>4
<1>7. Contents(d, g) = v
  <2> HIDE DEF s, w, c, v
  <2> QED
    BY <1>5, <1>6 DEF Contents
<1>8. get(d, g) \in Files
  <2> HIDE DEF s, w, c
  <2> QED
    BY <1>3, <1>5, <1>6, FilesIntro
<1> HIDE DEF s, w, c, v
<1>9. Contents(d, g) \in TableData /\ get(d, g).cache = c /\ get(d, g).sst = s /\ get(d, g).wal = w
  BY <1>4, <1>6, <1>7
<1> QED
  BY <1>7, <1>8, <1>9 DEF s, w, c, v

LEMMA CachedIs ==
  ASSUME NEW d \in Files, NEW g \in DOMAIN d.cache
  PROVE  Contents(d, g) = d.cache[g] /\ Contents(d, g) \in TableData
<1>1. Contents(d, g) = d.cache[g]
  BY DEF Contents, get
<1> QED
  BY <1>1, FilesFacts, ByGenFacts

(* get of every table, create of the new one and clean of the others *)
MajorIs(e, d, G, n, data) ==
  /\ e \in Files
  /\ DOMAIN e.wal \subseteq DOMAIN d.wal
  /\ \A h \in DOMAIN d.wal \ G : h \in DOMAIN e.wal /\ e.wal[h] = d.wal[h]
  /\ DOMAIN e.sst = (DOMAIN d.sst \ G) \cup {n}
  /\ e.sst[n] = [ok |-> TRUE, data |-> data]
  /\ DOMAIN e.cache = (DOMAIN d.cache \ G) \cup {n}
  /\ e.cache[n] = data

LEMMA MajorFacts ==
  ASSUME NEW d \in Files, NEW G \in SUBSET Nat, NEW n \in Nat, n \notin G, NEW data \in TableData
  PROVE  MajorIs(clean(create(get_all(d, G), n, data, "SortedString"), G), d, G, n, data)
<1> DEFINE missing == G \ DOMAIN d.cache
           no_sst == {g \in missing : g \notin DOMAIN d.sst}
           reloaded == {g \in missing : g \in no_sst \/ ~d.sst[g].ok}
           s == [g \in DOMAIN d.sst \cup no_sst |-> IF g \in no_sst THEN Empty ELSE d.sst[g]]
           w == [g \in DOMAIN d.wal \cup reloaded |-> IF g \in DOMAIN d.wal THEN d.wal[g] ELSE <<>>]
           c == [g \in DOMAIN d.cache \cup G |-> Contents(d, g)]
           r == [sst |-> s, wal |-> w, cache |-> c]
           m == create(r, n, data, "SortedString")
           new == [ok |-> TRUE, data |-> data]
<1>1. get_all(d, G) = r
  BY DEF get_all
<1>2. /\ DOMAIN d.sst \in SUBSET Nat /\ \A g \in DOMAIN d.sst : d.sst[g] \in Sst
      /\ DOMAIN d.wal \in SUBSET Nat /\ \A g \in DOMAIN d.wal : d.wal[g] \in Seq(Entry)
      /\ DOMAIN d.cache \in SUBSET Nat
  BY FilesFacts, ByGenFacts, Zenon
<1>3. s \in ByGen(Sst)
  <2>1. DOMAIN d.sst \cup no_sst \in SUBSET Nat
    BY <1>2, Zenon
  <2>2. s \in [DOMAIN d.sst \cup no_sst -> Sst]
    BY <1>2, EmptyTable
  <2> QED
    BY <2>1, <2>2, ByGenIntro, Zenon
<1>4. w \in ByGen(Seq(Entry))
  <2>1. DOMAIN d.wal \cup reloaded \in SUBSET Nat
    BY <1>2, Zenon
  <2>2. w \in [DOMAIN d.wal \cup reloaded -> Seq(Entry)]
    BY <1>2, EmptyTable
  <2> QED
    BY <2>1, <2>2, ByGenIntro, Zenon
<1>5. c \in ByGen(TableData)
  <2>1. DOMAIN d.cache \cup G \in SUBSET Nat
    BY <1>2, Zenon
  <2>2. \A g \in DOMAIN d.cache \cup G : Contents(d, g) \in TableData
    BY <2>1, GetIs, CachedIs, Zenon
  <2>3. c \in [DOMAIN d.cache \cup G -> TableData]
    BY <2>2, Zenon
  <2> QED
    BY <2>1, <2>3, ByGenIntro, Zenon
<1>6. /\ DOMAIN s = DOMAIN d.sst \cup no_sst /\ DOMAIN c = DOMAIN d.cache \cup G
      /\ DOMAIN w = DOMAIN d.wal \cup reloaded /\ \A h \in DOMAIN d.wal : w[h] = d.wal[h]
      /\ no_sst \subseteq G /\ reloaded \subseteq G /\ reloaded \subseteq DOMAIN s
  BY Zenon
<1> HIDE DEF s, w, c, no_sst, reloaded, missing
<1>7. r \in Files
  BY <1>3, <1>4, <1>5, FilesIntro, Zenon
<1>8. /\ m \in Files /\ m.wal = w /\ m.cache = With(c, n, data) /\ m.sst = With(s, n, new)
  <2>1. r.sst = s /\ r.wal = w /\ r.cache = c
    OBVIOUS
  <2> HIDE DEF r
  <2> QED
    <3>1. CreateIs(m, r, n, data, "SortedString")
      BY <1>7, CreateFacts, Zenon
    <3> QED
      BY <2>1, <3>1, Zenon DEF CreateIs
<1> HIDE DEF m, r
<1>9. new \in Sst
  BY DEF Sst
<1>10. /\ With(s, n, new) \in ByGen(Sst) /\ DOMAIN With(s, n, new) = DOMAIN s \cup {n}
       /\ With(s, n, new)[n] = new
       /\ With(c, n, data) \in ByGen(TableData) /\ DOMAIN With(c, n, data) = DOMAIN c \cup {n}
       /\ With(c, n, data)[n] = data
  <2>1. WithIs(Sst, s, n, new) /\ WithIs(TableData, c, n, data)
    BY <1>3, <1>5, <1>9, WithFacts, Zenon
  <2> QED
    BY <2>1, Zenon DEF WithIs
<1> DEFINE s2 == Without(m.sst, G)
           c2 == Without(m.cache, G)
           w2 == Without(m.wal, G \cap DOMAIN m.sst)
<1>w. /\ WithoutIs(Sst, m.sst, G) /\ WithoutIs(TableData, m.cache, G)
      /\ WithoutIs(Seq(Entry), m.wal, G \cap DOMAIN m.sst)
  BY <1>4, <1>8, <1>10, WithoutFacts, Zenon
<1>11. /\ s2 \in ByGen(Sst) /\ DOMAIN s2 = (DOMAIN s \cup {n}) \ G /\ s2[n] = new
  BY <1>8, <1>10, <1>w, Zenon DEF WithoutIs
<1>12. /\ c2 \in ByGen(TableData) /\ DOMAIN c2 = (DOMAIN c \cup {n}) \ G /\ c2[n] = data
  BY <1>8, <1>10, <1>w DEF WithoutIs
<1>13. /\ w2 \in ByGen(Seq(Entry)) /\ DOMAIN w2 = DOMAIN w \ (G \cap (DOMAIN s \cup {n}))
       /\ \A h \in DOMAIN w2 : w2[h] = w[h]
  BY <1>8, <1>10, <1>w, Zenon DEF WithoutIs
<1> DEFINE e == clean(m, G)
<1>14. e = [sst |-> s2, wal |-> w2, cache |-> c2]
  BY DEF clean
<1> HIDE DEF s2, c2, w2, e
<1>15. e \in Files
  BY <1>11, <1>12, <1>13, <1>14, FilesIntro, Zenon
<1>16. e.sst = s2 /\ e.wal = w2 /\ e.cache = c2
  BY <1>14
<1>17. /\ DOMAIN w2 \subseteq DOMAIN d.wal
       /\ \A h \in DOMAIN d.wal \ G : h \in DOMAIN w2 /\ w2[h] = d.wal[h]
       /\ DOMAIN s2 = (DOMAIN d.sst \ G) \cup {n}
       /\ DOMAIN c2 = (DOMAIN d.cache \ G) \cup {n}
  <2>1. DOMAIN w2 \subseteq DOMAIN d.wal
    BY <1>6, <1>13, Zenon
  <2>2. \A h \in DOMAIN d.wal \ G : h \in DOMAIN w2 /\ w2[h] = d.wal[h]
    BY <1>6, <1>13, Zenon
  <2>3. DOMAIN s2 = (DOMAIN d.sst \ G) \cup {n}
    BY <1>6, <1>11, Zenon
  <2>4. DOMAIN c2 = (DOMAIN d.cache \ G) \cup {n}
    BY <1>6, <1>12
  <2> QED
    BY <2>1, <2>2, <2>3, <2>4
<1> QED
  <2>1. MajorIs(e, d, G, n, data)
    BY <1>11, <1>12, <1>15, <1>16, <1>17, Zenon DEF MajorIs
  <2> QED
    BY <1>1, <2>1, Zenon DEF e, m
-----------------------------------------------------------------------------
(***************************************************************************)
(* What the tables hold together.                                          *)
(***************************************************************************)
LEMMA MergedIsTop ==
  ASSUME Types, NEW d, \A g \in Range(Tables) : Contents(d, g) = made[g], NEW k \in Keys
  PROVE  Merged(d, k) = Top(Tables, made, k)
<1> DEFINE T == Tables
           H == Holding(T, made, k)
<1>1. T \in Seq(Nat)
  BY DEF Types, Tables
<1> HIDE DEF T
<1>2. \A i \in DOMAIN T : Contents(d, T[i]) = made[T[i]]
  BY DEF Range, T
<1>3. {i \in DOMAIN T : Contents(d, T[i])[k] # 0} = H
  BY <1>2 DEF Holding
<1>4. H # {} => Max(H) \in DOMAIN T
  <2>1. H \in SUBSET Nat /\ H \subseteq DOMAIN T /\ Len(T) \in Nat /\ \A i \in H : i <= Len(T)
    BY <1>1 DEF Holding
  <2> QED
    BY <2>1, Greatest, Zenon
<1> HIDE DEF H
<1>5. Merged(d, k) = IF H = {} THEN 0 ELSE Contents(d, T[Max(H)])[k]
  BY <1>3 DEF Merged, T
<1>6. Top(T, made, k) = IF H = {} THEN 0 ELSE made[T[Max(H)]][k]
  BY DEF Top, H
<1> QED
  BY <1>2, <1>4, <1>5, <1>6 DEF T

LEMMA TopOfLast ==
  ASSUME NEW T \in Seq(Nat), NEW g \in Nat, NEW m, NEW k, m[g][k] # 0
  PROVE  Top(Append(T, g), m, k) = m[g][k]
<1> DEFINE U == Append(T, g)
           n == Len(T) + 1
           H == Holding(U, m, k)
<1>1. H \in SUBSET Nat /\ n \in H /\ \A i \in H : i <= n
  BY DEF Holding
<1>2. Max(H) = n /\ H # {}
  <2> HIDE DEF H, n
  <2> QED
    BY <1>1, MaxIs, Zenon
<1>3. U[n] = g
  OBVIOUS
<1>4. Top(U, m, k) = IF H = {} THEN 0 ELSE m[U[Max(H)]][k]
  BY DEF Top
<1> HIDE DEF H, U, n
<1>5. Top(U, m, k) = m[g][k]
  BY <1>2, <1>3, <1>4
<1> QED
  BY <1>5 DEF U

LEMMA TopOfOne ==
  ASSUME NEW g \in Nat, NEW m, NEW k
  PROVE  Top(<<g>>, m, k) = m[g][k]
<1>1. CASE m[g][k] = 0
  <2>1. Holding(<<g>>, m, k) = {}
    BY <1>1 DEF Holding
  <2> QED
    BY <1>1, <2>1 DEF Top
<1>2. CASE m[g][k] # 0
  <2>1. Holding(<<g>>, m, k) = {1}
    BY <1>2 DEF Holding
  <2>2. Max({1}) = 1
    <3> DEFINE S == {1}
    <3>1. S \in SUBSET Nat /\ 1 \in S /\ \A n \in S : n <= 1
      OBVIOUS
    <3> HIDE DEF S
    <3>2. Max(S) = 1
      BY <3>1, MaxIs
    <3> QED
      BY <3>2 DEF S
  <2>3. {1} # {} /\ <<g>>[1] = g
    OBVIOUS
  <2> QED
    BY <2>1, <2>2, <2>3, Zenon DEF Top
<1> QED
  BY <1>1, <1>2

(* A table that is kept is read back, from the cache or after a restart. *)
LEMMA KeptContents ==
  ASSUME Types, NEW g \in Nat, Kept(g), ~(InWal(g) /\ g \in dirty)
  PROVE  /\ Contents(files, g) = made[g]
         /\ Contents([files EXCEPT !.cache = <<>>], g) = made[g]
<1>1. ASSUME NEW d \in Files, d.sst = files.sst, d.wal = files.wal, g \notin DOMAIN d.cache
      PROVE  Contents(d, g) = made[g]
  <2>1. CASE InWal(g)
    <3>1. g \in DOMAIN d.wal /\ ~Readable(d, g) /\ TableOf(d.wal[g]) = made[g]
      BY <1>1, <2>1 DEF Kept, Readable
    <3> QED
      BY <1>1, <3>1, GetIs
  <2>2. CASE ~InWal(g)
    <3>1. Readable(d, g) /\ d.sst[g].data = made[g]
      BY <1>1, <2>2 DEF Kept, Readable
    <3> QED
      BY <1>1, <3>1, GetIs
  <2> QED
    BY <2>1, <2>2
<1>2. files \in Files
  BY DEF Types
<1>3. Contents(files, g) = made[g]
  <2>1. CASE g \in DOMAIN files.cache
    BY <1>2, <2>1, CachedIs DEF Kept
  <2>2. CASE g \notin DOMAIN files.cache
    BY <1>1, <1>2, <2>2
  <2> QED
    BY <2>1, <2>2
<1> DEFINE d == [files EXCEPT !.cache = <<>>]
<1>4. d = [sst |-> files.sst, wal |-> files.wal, cache |-> <<>>]
  BY <1>2, FilesFacts
<1> HIDE DEF d
<1>5. d \in Files /\ d.sst = files.sst /\ d.wal = files.wal /\ g \notin DOMAIN d.cache
  BY <1>2, <1>4, FilesFacts, FilesIntro, EmptyFacts
<1>6. Contents(d, g) = made[g]
  BY <1>1, <1>5
<1> QED
  BY <1>3, <1>6 DEF d

LEMMA TableGens ==
  ASSUME Types
  PROVE  Range(Tables) \in SUBSET Nat /\ Range(level0) \subseteq Range(Tables)
<1>1. Tables \in Seq(Nat) /\ level0 \in Seq(Nat) /\ level1 \in Seq(Nat)
  BY DEF Types, Tables
<1>2. ASSUME NEW i \in DOMAIN level0 PROVE level0[i] \in Range(Tables)
  <2>1. /\ Len(level1) + i \in DOMAIN Tables
        /\ Tables[Len(level1) + i] = level0[i]
    BY <1>1 DEF Tables
  <2> QED
    BY <2>1 DEF Range
<1> QED
  BY <1>1, <1>2 DEF Range

(* Entries with sequence ids below SEQ_COUNT *)
LEMMA MemBounded ==
  ASSUME Types, SeqInv
  PROVE  Bounded(mem) /\ Bounded(immut)
<1>1. \A e \in mem \cup immut : e.seq <= seq_count
  BY DEF Types, SeqInv, Entry
<1> QED
  BY <1>1 DEF Types, SeqInv, Bounded

LEMMA WriteOver ==
  ASSUME NEW S, NEW q \in Seq(S), NEW i \in 1..Len(q), NEW e \in S
  PROVE  [q EXCEPT ![i] = e] \in Seq(S) /\ Len([q EXCEPT ![i] = e]) = Len(q)
BY SMT

LEMMA ExceptType ==
  ASSUME NEW D, NEW S, NEW f \in [D -> S], NEW i, NEW v \in S
  PROVE  [f EXCEPT ![i] = v] \in [D -> S]
BY Zenon

LEMMA UniqueAdd ==
  ASSUME NEW M, Unique(M), NEW e, \A f \in M : f.seq # e.seq
  PROVE  Unique(M \cup {e})
BY DEF Unique
-----------------------------------------------------------------------------
(***************************************************************************)
(* The parts of the invariant that a step may leave alone.                 *)
(***************************************************************************)
LEMMA Parts ==
  ASSUME Good
  PROVE  Types /\ SeqInv /\ GenInv /\ WalInv /\ FlushInv /\ TableInv /\ ImmutInv
BY Zenon DEF Good, RecoveryInv

LEMMA Whole ==
  ASSUME Types', SeqInv', GenInv', WalInv', FlushInv', TableInv', ImmutInv'
  PROVE  Good'
BY Zenon DEF Good, RecoveryInv

LEMMA TypesFrame ==
  ASSUME Types, UNCHANGED <<table_type, seq_count, gen, val, mem, immut, stamped, log_writer, level0,
                            level1, made, installed, dirty>>,
         files' \in Files, flushing' \in [gen : Nat, data : SUBSET Entry]
  PROVE  Types'
BY Zenon DEF Types

LEMMA SeqFrame ==
  ASSUME SeqInv, UNCHANGED <<seq_count, mem, immut, stamped>>
  PROVE  SeqInv'
BY Zenon DEF SeqInv

(* _mem becomes _immut. *)
LEMMA SwapSeq ==
  ASSUME SeqInv, mem' = {}, immut' = mem, UNCHANGED <<seq_count, stamped>>
  PROVE  SeqInv'
BY Zenon DEF SeqInv, Unique

LEMMA WalFrame ==
  ASSUME WalInv, wal' = wal, UNCHANGED <<mem, log_writer, dirty>>
  PROVE  WalInv'
BY Zenon DEF WalInv

(* Files of one gen may come, those of others may go. *)
LEMMA GenFrame ==
  ASSUME GenInv, wal' = wal, UNCHANGED <<gen, log_writer>>, DOMAIN files'.wal = DOMAIN files.wal,
         NEW F, F < gen, F # log_writer.gen, Range(Tables)' \subseteq Range(Tables) \cup {F},
         DOMAIN files'.sst \subseteq DOMAIN files.sst \cup {F},
         DOMAIN files'.cache \subseteq DOMAIN files.cache \cup {F}
  PROVE  GenInv'
<1>1. /\ log_writer.gen \in DOMAIN files.wal /\ log_writer.gen < gen /\ log_writer.pos <= Len(wal)
      /\ \A g \in DOMAIN files.wal : g <= log_writer.gen
  BY Zenon DEF GenInv
<1>2. \A g \in Range(Tables) \cup DOMAIN files.sst \cup DOMAIN files.cache \cup {F} :
        g < gen /\ g # log_writer.gen
  BY Zenon DEF GenInv
<1>3. \A g \in (Range(Tables) \cup DOMAIN files.sst \cup DOMAIN files.cache)' :
        g < gen' /\ g # log_writer'.gen
  BY <1>2, Zenon
<1> QED
  BY <1>1, <1>3, Zenon DEF GenInv

LEMMA NoFlush ==
  ASSUME flushing' = NotFlushing
  PROVE  FlushInv'
BY Zenon DEF FlushInv

LEMMA FlushFrame ==
  ASSUME FlushInv, UNCHANGED <<flushing, immut>>, log_writer'.gen = log_writer.gen,
         Range(Tables)' = Range(Tables), dirty \subseteq dirty',
         flushing # NotFlushing =>
           /\ flushing.gen \in DOMAIN files'.wal /\ flushing.gen \notin DOMAIN files'.sst
           /\ files'.wal[flushing.gen] = files.wal[flushing.gen]
  PROVE  FlushInv'
BY Zenon DEF FlushInv

LEMMA ImmutFrame ==
  ASSUME ImmutInv, UNCHANGED <<immut, level0, level1, made, installed>>
  PROVE  ImmutInv'
<1>1. Tables' = Tables
  BY Zenon DEF Tables
<1> QED
  BY <1>1, Zenon DEF ImmutInv

(* Steps that leave the Version alone leave its tables alone. *)
LEMMA TableFrame ==
  ASSUME TableInv, UNCHANGED <<table_type, level0, level1, made>>,
         \A g \in Range(Tables) :
           /\ Stays(files, files', g) /\ (g \in dirty => g \in dirty')
           /\ g \in DOMAIN files'.cache /\ ~(InWal(g) /\ g \in dirty) => files'.cache[g] = made[g]
  PROVE  TableInv'
<1>1. Range(Tables)' = Range(Tables) /\ \A g : InWal(g)' = InWal(g)
  BY Zenon DEF Tables, InWal
<1>2. ASSUME NEW g \in Range(Tables) PROVE Kept(g)'
  <2>1. Kept(g)
    BY Zenon DEF TableInv
  <2>2. /\ Stays(files, files', g) /\ (g \in dirty => g \in dirty')
        /\ g \in DOMAIN files'.cache /\ ~(InWal(g) /\ g \in dirty) => files'.cache[g] = made[g]
    OBVIOUS
  <2>3. InWal(g)' = InWal(g)
    BY <1>1, Zenon
  <2> QED
    BY ONLY <2>1, <2>2, <2>3, made' = made DEF Kept, Stays
<1> QED
  BY <1>1, <1>2, Zenon DEF TableInv

LEMMA SameTables ==
  ASSUME TableInv, UNCHANGED <<table_type, files, level0, level1, made, dirty>>
  PROVE  TableInv'
BY Zenon DEF TableInv, Kept, Tables, InWal
-----------------------------------------------------------------------------
(***************************************************************************)
(* The steps.                                                              *)
(***************************************************************************)
(***************************************************************************)
(* A write: its record replaces or follows others in the WAL, and only if  *)
(* it follows the last one, and no newer entry of its key is in _mem, is   *)
(* the WAL still in the order of the sequence ids.                         *)
(***************************************************************************)
LEMMA InsertStep ==
  ASSUME Good, NEW k \in Keys, NEW s \in Nat, NEW c \in BOOLEAN,
         Insert(k, s), Dirty(c), \A e \in mem : e.seq # s,
         ~c => \A e \in mem : e.key = k => e.seq < s,
         seq_count' \in Nat, seq_count <= seq_count', s < seq_count',
         stamped' \in SUBSET stamped, \A w \in stamped' : w.seq # s,
         UNCHANGED <<table_type, immut, gen, level0, level1, flushing, made, installed>>
  PROVE  Good'
<1> DEFINE e == [key |-> k, seq |-> s, val |-> val]
           W == log_writer.gen
           p == log_writer.pos
<1>0. Types /\ SeqInv /\ GenInv /\ WalInv /\ FlushInv /\ TableInv /\ ImmutInv
  BY Parts, Zenon
<1>a. /\ files \in Files /\ val \in Nat \ {0} /\ log_writer \in [gen : Nat, pos : Nat]
      /\ mem \in SUBSET Entry /\ immut \in SUBSET Entry /\ stamped \in SUBSET Stamps
      /\ dirty \in SUBSET Nat /\ seq_count \in Nat
  BY <1>0, Zenon DEF Types
<1>b. W \in DOMAIN files.wal /\ p <= Len(wal)
  BY <1>0, Zenon DEF GenInv
<1>1. W \in Nat /\ p \in Nat /\ log_writer = [gen |-> W, pos |-> p]
  BY <1>a
<1>2. wal \in Seq(Entry) /\ files.wal \in ByGen(Seq(Entry)) /\ DOMAIN files.wal \in SUBSET Nat
  BY <1>a, <1>b, FilesFacts, ByGenFacts, Zenon DEF wal
<1>3. e \in Entry /\ e.key = k /\ e.seq = s
  BY <1>a DEF Entry
<1>4. mem' = mem \cup {e} /\ val' = val + 1 /\ add_record(e)
  BY Zenon DEF Insert
<1>c. PICK log \in IF p = Len(wal) THEN {Append(wal, e)}
                   ELSE {[wal EXCEPT ![p + 1] = e], SubSeq(wal, 1, p) \o <<e>>} :
             files' = [files EXCEPT !.wal[W] = log]
  BY <1>4, Zenon DEF add_record
<1>6. log_writer' = [gen |-> W, pos |-> p + 1]
  <2>1. log_writer' = [log_writer EXCEPT !.pos = @ + 1]
    BY <1>4, Zenon DEF add_record
  <2> QED
    BY ONLY <1>1, <2>1
<1> HIDE DEF e, p, W
<1>5. /\ p = Len(wal) => log = Append(wal, e)
      /\ p # Len(wal) => log = [wal EXCEPT ![p + 1] = e] \/ log = SubSeq(wal, 1, p) \o <<e>>
  BY <1>c, Zenon
<1>7. log \in Seq(Entry) /\ p + 1 <= Len(log)
  <2>1. CASE p = Len(wal)
    <3>1. log = Append(wal, e)
      BY <1>5, <2>1, Zenon
    <3> QED
      BY ONLY <1>1, <1>2, <1>3, <2>1, <3>1
  <2>2. CASE p # Len(wal) /\ log = [wal EXCEPT ![p + 1] = e]
    <3>1. p + 1 \in 1..Len(wal)
      BY ONLY <1>1, <1>b, <1>2, <2>2
    <3>2. log \in Seq(Entry) /\ Len(log) = Len(wal)
      BY ONLY <1>2, <1>3, <2>2, <3>1, WriteOver
    <3> QED
      BY ONLY <3>1, <3>2, <1>1, <1>2
  <2>3. CASE p # Len(wal) /\ log = SubSeq(wal, 1, p) \o <<e>>
    <3> DEFINE pre == SubSeq(wal, 1, p)
               one == <<e>>
    <3>1. pre \in Seq(Entry) /\ Len(pre) = p
      BY ONLY <1>1, <1>b, <1>2
    <3>2. one \in Seq(Entry) /\ Len(one) = 1
      BY ONLY <1>3
    <3> HIDE DEF pre, one
    <3>3. pre \o one \in Seq(Entry) /\ Len(pre \o one) = Len(pre) + Len(one)
      BY <3>1, <3>2, ConcatFacts, Zenon
    <3>4. log = pre \o one
      BY <2>3, Zenon DEF pre, one
    <3> QED
      BY ONLY <1>1, <3>1, <3>2, <3>3, <3>4
  <2> QED
    BY <1>5, <2>1, <2>2, <2>3, Zenon
<1> DEFINE w2 == [files.wal EXCEPT ![W] = log]
<1>8. files' = [sst |-> files.sst, wal |-> w2, cache |-> files.cache]
  <2>1. files = [sst |-> files.sst, wal |-> files.wal, cache |-> files.cache]
    BY <1>a, FilesFacts, Zenon
  <2>2. files' = [files EXCEPT !.wal[W] = log]
    BY <1>c, Zenon
  <2> QED
    BY ONLY <2>1, <2>2
<1>9. /\ w2 \in ByGen(Seq(Entry)) /\ DOMAIN w2 = DOMAIN files.wal
      /\ w2[W] = log /\ \A g \in DOMAIN w2 : g # W => w2[g] = files.wal[g]
  <2>0. W \in DOMAIN files.wal
    BY <1>b, Zenon DEF W
  <2>1. files.wal \in [DOMAIN files.wal -> Seq(Entry)]
    BY <1>2, ByGenFacts, Zenon
  <2>2. w2 \in [DOMAIN files.wal -> Seq(Entry)]
    BY <1>7, <2>1, ExceptType, Zenon
  <2>3. w2 \in ByGen(Seq(Entry))
    BY <1>2, <2>2, ByGenIntro, Zenon
  <2> QED
    BY ONLY <2>0, <2>3
<1> HIDE DEF w2
<1>d. log_writer'.gen = W /\ log_writer'.pos = p + 1
  BY ONLY <1>6
<1>e. files'.sst = files.sst /\ files'.wal = w2 /\ files'.cache = files.cache
  BY ONLY <1>8
<1>10. files'.sst = files.sst /\ files'.wal = w2 /\ files'.cache = files.cache /\ wal' = log
  BY <1>d, <1>e, <1>9, Zenon DEF wal
<1>11. files' \in Files
  BY <1>a, <1>8, <1>9, FilesFacts, FilesIntro, Zenon
<1>12. dirty \subseteq dirty' /\ dirty' \subseteq dirty \cup {W}
  BY Zenon DEF Dirty, W
<1>13. Types'
  <2>1. dirty' \in SUBSET Nat
    BY <1>a, <1>1, <1>12, Zenon
  <2>2. log_writer' \in [gen : Nat, pos : Nat] /\ val' \in Nat \ {0}
    BY ONLY <1>a, <1>1, <1>4, <1>6
  <2>3. mem' \in SUBSET Entry /\ stamped' \in SUBSET Stamps
    BY <1>a, <1>3, <1>4, Zenon
  <2> QED
    BY <1>0, <1>11, <2>1, <2>2, <2>3, Zenon DEF Types
<1>14. SeqInv'
  <2>1. \A f \in mem \cup immut \cup stamped : f.seq \in Nat /\ f.seq < seq_count
    <3>1. \A f \in mem \cup immut \cup stamped : f.seq \in Nat
      BY ONLY <1>a DEF Entry, Stamps
    <3> QED
      BY <1>0, <3>1, Zenon DEF SeqInv
  <2>2. \A f \in (mem \cup immut \cup stamped)' : f.seq < seq_count'
    <3>1. \A f \in mem \cup immut \cup stamped \cup {e} : f.seq < seq_count'
      BY <1>a, <1>3, <2>1
    <3> QED
      BY <1>4, <3>1, Zenon
  <2>3. \A x \in stamped', f \in mem' : f.seq # x.seq
    BY <1>0, <1>3, <1>4, Zenon DEF SeqInv
  <2>4. Unique(mem)' /\ Unique(immut)'
    <3>1. Unique(mem) /\ Unique(immut) /\ \A f \in mem : f.seq # e.seq
      BY <1>0, <1>3, Zenon DEF SeqInv
    <3>2. Unique(mem \cup {e})
      BY ONLY <3>1, UniqueAdd, Zenon
    <3> QED
      BY <1>4, <3>1, <3>2, Zenon
  <2> QED
    BY <2>2, <2>3, <2>4, Zenon DEF SeqInv
<1>f. Range(Tables)' = Range(Tables)
  BY Zenon DEF Tables
<1>15. GenInv'
  <2>1. /\ W < gen /\ W \in DOMAIN files.wal /\ \A g \in DOMAIN files.wal : g <= W
        /\ \A g \in Range(Tables) \cup DOMAIN files.sst \cup DOMAIN files.cache : g < gen /\ g # W
    BY <1>0, Zenon DEF GenInv, W
  <2>2. log_writer'.pos <= Len(wal')
    BY <1>7, <1>d, <1>10, Zenon
  <2>3. DOMAIN files'.wal = DOMAIN files.wal
    BY <1>9, <1>10, Zenon
  <2> QED
    BY <1>d, <1>e, <1>f, <2>1, <2>2, <2>3, Zenon DEF GenInv
<1>16. WalInv'
  <2> SUFFICES ASSUME W \notin dirty' PROVE TableOf(log) = NewestData(mem')
    BY <1>d, <1>10, Zenon DEF WalInv
  <2>1. ~c /\ ~(p < Len(wal)) /\ W \notin dirty
    BY <1>12, Zenon DEF Dirty, W, p
  <2>2. p = Len(wal)
    <3>1. p <= Len(wal)
      BY <1>b, Zenon DEF p
    <3> QED
      BY ONLY <1>1, <1>2, <2>1, <3>1
  <2>3. log = Append(wal, e)
    BY <1>5, <2>2, Zenon
  <2>4. TableOf(wal) = NewestData(mem)
    BY <1>0, <2>1, Zenon DEF WalInv, W
  <2>5. Bounded(mem)
    BY <1>0, MemBounded, Zenon
  <2>6. \A f \in mem : f.key = e.key => f.seq < e.seq
    BY <1>3, <2>1, Zenon
  <2>7. TableOf(log) = [TableOf(wal) EXCEPT ![e.key] = e.val]
    BY <1>2, <1>3, <2>3, TableAppend, Zenon
  <2>8. NewestData(mem \cup {e}) = [NewestData(mem) EXCEPT ![e.key] = e.val]
    BY <1>3, <2>5, <2>6, NewestAdd, Zenon
  <2> QED
    BY <1>4, <2>4, <2>7, <2>8, Zenon
<1>17. FlushInv'
  <2>1. flushing # NotFlushing =>
          /\ flushing.gen < W /\ flushing.gen \in DOMAIN files.wal /\ flushing.gen \notin DOMAIN files.sst
    BY <1>0, Zenon DEF FlushInv, W
  <2>2. flushing # NotFlushing => flushing.gen # W
    BY ONLY <1>1, <1>2, <2>1
  <2>3. flushing # NotFlushing =>
          /\ flushing.gen \in DOMAIN files'.wal /\ flushing.gen \notin DOMAIN files'.sst
          /\ files'.wal[flushing.gen] = files.wal[flushing.gen]
    BY <1>9, <1>e, <2>1, <2>2, Zenon
  <2>4. log_writer'.gen = log_writer.gen
    BY <1>d, Zenon DEF W
  <2> QED
    BY <1>0, <1>f, <1>12, <2>3, <2>4, FlushFrame, Zenon
<1>18. TableInv'
  <2>1. \A g \in Range(Tables) : g # W /\ Kept(g)
    BY <1>0, Zenon DEF GenInv, TableInv, W
  <2>2. \A g \in Range(Tables) : Stays(files, files', g)
    BY <1>9, <1>e, <2>1, Zenon DEF Stays
  <2>3. \A g \in Range(Tables) : g \in DOMAIN files'.cache /\ ~(InWal(g) /\ g \in dirty)
          => files'.cache[g] = made[g]
    BY <1>e, <2>1, Zenon DEF Kept
  <2> QED
    BY <1>0, <1>12, <2>2, <2>3, TableFrame, Zenon
<1>19. ImmutInv'
  BY <1>0, ImmutFrame, Zenon
<1> QED
  BY <1>13, <1>14, <1>15, <1>16, <1>17, <1>18, <1>19, Whole, Zenon

LEMMA InsertDataStep ==
  ASSUME Good, NEW k \in Keys, insert_data(k)
  PROVE  Good'
<1>1. Insert(k, seq_count) /\ Dirty(FALSE) /\ seq_count' = seq_count + 1 /\ stamped' = stamped
  BY Zenon DEF insert_data
<1>2. UNCHANGED <<table_type, immut, gen, level0, level1, flushing, made, installed>>
  BY Zenon DEF insert_data
<1>3. Types /\ SeqInv
  BY Parts, Zenon
<1>4. seq_count \in Nat /\ mem \in SUBSET Entry /\ stamped \in SUBSET Stamps
  BY <1>3, Zenon DEF Types
<1>5. seq_count' \in Nat /\ seq_count <= seq_count' /\ seq_count < seq_count'
  BY ONLY <1>1, <1>4
<1>6. \A e \in mem \cup stamped : e.seq \in Nat
  BY ONLY <1>4 DEF Entry, Stamps
<1>7. \A e \in mem \cup stamped : e.seq < seq_count
  BY <1>3, Zenon DEF SeqInv
<1>8. \A e \in mem \cup stamped : e.seq # seq_count
  BY ONLY <1>4, <1>6, <1>7
<1>9. stamped' \in SUBSET stamped /\ FALSE \in BOOLEAN
  BY <1>1, Zenon
<1> QED
  BY <1>1, <1>2, <1>4, <1>5, <1>7, <1>8, <1>9, InsertStep, Zenon

LEMMA InsertBatchStep ==
  ASSUME Good, insert_batch_data
  PROVE  Good'
<1>1. PICK w \in stamped : Insert(w.key, w.seq) /\ Dirty(check_key_conflict(mem, {w.key}, w.seq))
  BY Zenon DEF insert_batch_data
<1>2. /\ seq_count' = seq_count /\ stamped' = {}
      /\ UNCHANGED <<table_type, immut, gen, level0, level1, flushing, made, installed>>
  BY Zenon DEF insert_batch_data
<1>3. Types /\ SeqInv
  BY Parts, Zenon
<1>4. seq_count \in Nat /\ mem \in SUBSET Entry /\ stamped \in SUBSET Stamps
  BY <1>3, Zenon DEF Types
<1>5. w.key \in Keys /\ w.seq \in Nat
  BY ONLY <1>4, w \in stamped DEF Stamps
<1>6. w.seq < seq_count /\ \A e \in mem : e.seq # w.seq
  BY <1>3, Zenon DEF SeqInv
<1>7. \A e \in mem : e.seq \in Nat
  BY ONLY <1>4 DEF Entry
<1> DEFINE c == check_key_conflict(mem, {w.key}, w.seq)
<1>8. c \in BOOLEAN /\ (~c => \A e \in mem : e.key = w.key => ~(e.seq > w.seq))
  BY Zenon DEF check_key_conflict
<1> HIDE DEF c
<1>9. ~c => \A e \in mem : e.key = w.key => e.seq < w.seq
  BY ONLY <1>5, <1>6, <1>7, <1>8
<1>10. seq_count' \in Nat /\ seq_count <= seq_count' /\ w.seq < seq_count'
  BY ONLY <1>2, <1>4, <1>6
<1>11. stamped' \in SUBSET stamped /\ \A x \in stamped' : x.seq # w.seq
  BY <1>2, Zenon
<1>12. Dirty(c)
  BY <1>1, Zenon DEF c
<1> QED
  BY <1>1, <1>2, <1>5, <1>6, <1>8, <1>9, <1>10, <1>11, <1>12, InsertStep, Zenon

LEMMA StampStep ==
  ASSUME Good, NEW k \in Keys, Stamp(k)
  PROVE  Good'
<1>0. Types /\ SeqInv /\ GenInv /\ WalInv /\ FlushInv /\ TableInv /\ ImmutInv
  BY Parts, Zenon
<1> DEFINE w == [key |-> k, seq |-> seq_count]
<1>1. /\ stamped' = {w} /\ seq_count' = seq_count + 1
      /\ UNCHANGED <<table_type, mem, immut, gen, files, log_writer, level0, level1, flushing, val,
                     made, installed, dirty>>
  BY Zenon DEF Stamp
<1>2. seq_count \in Nat /\ mem \in SUBSET Entry /\ immut \in SUBSET Entry
  BY <1>0, Zenon DEF Types
<1>3. w \in Stamps /\ w.seq = seq_count
  BY ONLY <1>2, k \in Keys DEF Stamps
<1> HIDE DEF w
<1>4. Range(Tables)' = Range(Tables) /\ wal' = wal
  BY <1>1, Zenon DEF Tables, wal
<1>5. Types'
  <2>1. seq_count' \in Nat
    BY ONLY <1>1, <1>2
  <2>2. stamped' \in SUBSET Stamps
    BY <1>1, <1>3, Zenon
  <2> QED
    BY <1>0, <1>1, <2>1, <2>2, Zenon DEF Types
<1>6. SeqInv'
  <2>1. \A e \in mem \cup immut : e.seq \in Nat
    BY ONLY <1>2 DEF Entry
  <2>2. \A e \in mem \cup immut : e.seq < seq_count
    BY <1>0, Zenon DEF SeqInv
  <2>3. \A e \in mem \cup immut \cup {w} : e.seq < seq_count'
    BY ONLY <1>1, <1>2, <1>3, <2>1, <2>2
  <2>4. \A e \in mem : e.seq # w.seq
    BY ONLY <1>2, <1>3, <2>1, <2>2
  <2>5. Unique(mem) /\ Unique(immut)
    BY <1>0, Zenon DEF SeqInv
  <2> QED
    BY <1>1, <2>3, <2>4, <2>5, Zenon DEF SeqInv
<1>7. GenInv' /\ WalInv'
  BY <1>0, <1>1, <1>4, Zenon DEF GenInv, WalInv
<1>8. FlushInv'
  BY <1>0, <1>1, <1>4, Zenon DEF FlushInv
<1>9. TableInv'
  BY <1>0, <1>1, SameTables, Zenon
<1>10. ImmutInv'
  BY <1>0, <1>1, ImmutFrame, Zenon
<1> QED
  BY <1>5, <1>6, <1>7, <1>8, <1>9, <1>10, Whole, Zenon

LEMMA NoEntries == TableOf(<<>>) = NewestData({})
BY DEF TableOf, LastOf, NewestData, DataOf, unique_by_key

LEMMA SwapStep ==
  ASSUME Good, swap
  PROVE  Good'
<1> DEFINE W == log_writer.gen
<1>0. Types /\ SeqInv /\ GenInv /\ WalInv /\ FlushInv /\ TableInv /\ ImmutInv
  BY Parts, Zenon
<1>a. /\ immut' = mem /\ mem' = {} /\ flushing' = [gen |-> W, data |-> unique_by_key(mem)]
      /\ files' = open_wal(files, gen) /\ log_writer' = [gen |-> gen, pos |-> 0]
      /\ gen' = gen + 1 /\ installed' = FALSE
      /\ UNCHANGED <<table_type, seq_count, level0, level1, stamped, val, made, dirty>>
  BY Zenon DEF swap
<1>b. files \in Files /\ gen \in Nat /\ log_writer \in [gen : Nat, pos : Nat] /\ mem \in SUBSET Entry
  BY <1>0, Zenon DEF Types
<1>c. /\ W < gen /\ W \in DOMAIN files.wal /\ \A g \in DOMAIN files.wal : g <= W
      /\ \A g \in Range(Tables) \cup DOMAIN files.sst \cup DOMAIN files.cache : g < gen /\ g # W
  BY <1>0, Zenon DEF GenInv
<1>1. W \in Nat
  BY ONLY <1>b
<1> HIDE DEF W
<1>2. /\ files.wal \in ByGen(Seq(Entry)) /\ DOMAIN files.wal \in SUBSET Nat
      /\ files.sst \in ByGen(Sst) /\ files.cache \in ByGen(TableData)
      /\ files = [sst |-> files.sst, wal |-> files.wal, cache |-> files.cache]
      /\ DOMAIN files.sst \in SUBSET Nat /\ DOMAIN files.cache \in SUBSET Nat
  BY <1>b, FilesFacts, ByGenFacts, Zenon
<1>3. gen \notin DOMAIN files.wal
  BY ONLY <1>1, <1>2, <1>b, <1>c
<1> DEFINE w2 == With(files.wal, gen, <<>>)
<1>4. files' = [sst |-> files.sst, wal |-> w2, cache |-> files.cache]
  <2>1. files' = [files EXCEPT !.wal = w2]
    BY <1>a, <1>3, Zenon DEF open_wal
  <2> HIDE DEF w2
  <2> QED
    BY ONLY <1>2, <2>1
<1>5. WithIs(Seq(Entry), files.wal, gen, <<>>)
  BY <1>b, <1>2, EmptyTable, WithFacts, Zenon
<1>6. /\ w2 \in ByGen(Seq(Entry)) /\ DOMAIN w2 = DOMAIN files.wal \cup {gen} /\ w2[gen] = <<>>
      /\ \A g \in DOMAIN files.wal : w2[g] = files.wal[g]
  BY <1>3, <1>5, Zenon DEF WithIs
<1> HIDE DEF w2
<1>7. files'.sst = files.sst /\ files'.wal = w2 /\ files'.cache = files.cache
  BY ONLY <1>4
<1>8. files' \in Files
  BY <1>2, <1>4, <1>6, FilesIntro, Zenon
<1>d. log_writer'.gen = gen /\ log_writer'.pos = 0
  BY ONLY <1>a
<1>9. wal' = <<>>
  BY <1>6, <1>7, <1>d, Zenon DEF wal
<1>10. Range(Tables)' = Range(Tables)
  BY <1>a, Zenon DEF Tables
<1>11. Types'
  <2>1. unique_by_key(mem) \in SUBSET Entry
    BY <1>b, Zenon DEF unique_by_key
  <2>2. flushing' \in [gen : Nat, data : SUBSET Entry]
    BY <1>a, <1>1, <2>1, Zenon
  <2>3. log_writer' \in [gen : Nat, pos : Nat] /\ gen' \in Nat
    BY ONLY <1>a, <1>b
  <2>4. mem' \in SUBSET Entry /\ immut' \in SUBSET Entry /\ installed' \in BOOLEAN
    BY <1>a, <1>b, Zenon
  <2> QED
    BY <1>0, <1>a, <1>8, <2>2, <2>3, <2>4, Zenon DEF Types
<1>12. SeqInv'
  BY <1>0, <1>a, SwapSeq, Zenon
<1>13. GenInv'
  <2> DEFINE G == Range(Tables) \cup DOMAIN files.sst \cup DOMAIN files.cache
  <2>1. G \in SUBSET Nat
    BY <1>0, <1>2, TableGens, Zenon
  <2>2. \A g \in G : g < gen
    BY <1>c, Zenon
  <2> HIDE DEF G
  <2>3. \A g \in G : g < gen' /\ g # gen
    BY ONLY <1>a, <1>b, <2>1, <2>2
  <2>4. \A g \in DOMAIN w2 : g <= gen
    BY ONLY <1>1, <1>2, <1>6, <1>b, <1>c
  <2>5. gen < gen' /\ 0 <= Len(<<>>)
    BY ONLY <1>a, <1>b
  <2>6. gen \in DOMAIN w2
    BY <1>6, Zenon
  <2>7. (Range(Tables) \cup DOMAIN files.sst \cup DOMAIN files.cache)' = G
    BY <1>7, <1>10, Zenon DEF G
  <2> QED
    BY <1>7, <1>d, <1>9, <2>3, <2>4, <2>5, <2>6, <2>7, Zenon DEF GenInv
<1>14. WalInv'
  BY <1>a, <1>9, NoEntries, Zenon DEF WalInv
<1>15. FlushInv'
  <2>1. flushing'.gen = W /\ flushing'.data = unique_by_key(immut')
    BY <1>a, Zenon
  <2>2. W \notin Range(Tables) \cup DOMAIN files.sst /\ W < log_writer'.gen /\ W \in DOMAIN files'.wal
    BY <1>c, <1>d, <1>6, <1>7, Zenon
  <2>3. W \notin dirty => TableOf(files.wal[W]) = DataOf(unique_by_key(mem))
    BY <1>0, Zenon DEF WalInv, wal, NewestData, W
  <2>4. files'.wal[W] = files.wal[W]
    BY <1>c, <1>6, <1>7, Zenon
  <2> QED
    BY <1>a, <1>7, <1>10, <2>1, <2>2, <2>3, <2>4, Zenon DEF FlushInv
<1>16. TableInv'
  <2>1. \A g \in Range(Tables) : Kept(g)
    BY <1>0, Zenon DEF TableInv
  <2>2. \A g \in Range(Tables) : Stays(files, files', g)
    BY <1>6, <1>7, Zenon DEF Stays
  <2>3. \A g \in Range(Tables) : g \in DOMAIN files'.cache /\ ~(InWal(g) /\ g \in dirty)
          => files'.cache[g] = made[g]
    BY <1>7, <2>1, Zenon DEF Kept
  <2> QED
    BY <1>0, <1>a, <2>2, <2>3, TableFrame, Zenon
<1>17. ImmutInv'
  BY <1>a, Zenon DEF ImmutInv
<1> QED
  BY <1>11, <1>12, <1>13, <1>14, <1>15, <1>16, <1>17, Whole, Zenon

LEMMA SwapFailsStep ==
  ASSUME Good, SwapFails
  PROVE  Good'
<1>0. Types /\ SeqInv /\ GenInv /\ WalInv /\ FlushInv /\ TableInv /\ ImmutInv
  BY Parts, Zenon
<1>1. /\ flushing = NotFlushing /\ immut' = mem /\ mem' = {} /\ gen' = gen + 1 /\ installed' = FALSE
      /\ dirty' = dirty \cup {log_writer.gen}
      /\ UNCHANGED <<table_type, seq_count, files, log_writer, level0, level1, flushing, stamped, val, made>>
  BY Zenon DEF SwapFails, CanSwap
<1>2. /\ files \in Files /\ gen \in Nat /\ log_writer \in [gen : Nat, pos : Nat] /\ mem \in SUBSET Entry
      /\ dirty \in SUBSET Nat
  BY <1>0, Zenon DEF Types
<1>3. log_writer.gen \in Nat /\ gen' \in Nat
  BY ONLY <1>1, <1>2
<1>4. Range(Tables)' = Range(Tables) /\ wal' = wal
  BY <1>1, Zenon DEF Tables, wal
<1>5. Types'
  <2>1. dirty' \in SUBSET Nat /\ mem' \in SUBSET Entry /\ immut' \in SUBSET Entry /\ installed' \in BOOLEAN
    BY <1>1, <1>2, <1>3, Zenon
  <2> QED
    BY <1>0, <1>1, <1>3, <2>1, Zenon DEF Types
<1>6. SeqInv'
  BY <1>0, <1>1, SwapSeq, Zenon
<1>7. GenInv'
  <2> DEFINE G == Range(Tables) \cup DOMAIN files.sst \cup DOMAIN files.cache
  <2>1. DOMAIN files.sst \in SUBSET Nat /\ DOMAIN files.cache \in SUBSET Nat
    BY <1>2, FilesFacts, ByGenFacts, Zenon
  <2>2. G \in SUBSET Nat
    BY <1>0, <2>1, TableGens, Zenon
  <2>3. log_writer.gen < gen /\ \A g \in G : g < gen /\ g # log_writer.gen
    BY <1>0, Zenon DEF GenInv
  <2> HIDE DEF G
  <2>4. log_writer.gen < gen' /\ \A g \in G : g < gen'
    BY ONLY <1>1, <1>2, <1>3, <2>2, <2>3
  <2>5. (Range(Tables) \cup DOMAIN files.sst \cup DOMAIN files.cache)' = G
    BY <1>1, <1>4, Zenon DEF G
  <2> QED
    BY <1>0, <1>1, <1>4, <2>3, <2>4, <2>5, Zenon DEF GenInv
<1>8. WalInv'
  BY <1>1, Zenon DEF WalInv
<1>9. FlushInv'
  BY <1>1, NoFlush, Zenon
<1>10. TableInv'
  <2>1. \A g \in Range(Tables) : Kept(g)
    BY <1>0, Zenon DEF TableInv
  <2>2. \A g \in Range(Tables) : Stays(files, files', g)
    BY <1>1, Zenon DEF Stays
  <2>3. \A g \in Range(Tables) : g \in DOMAIN files'.cache /\ ~(InWal(g) /\ g \in dirty)
          => files'.cache[g] = made[g]
    BY <1>1, <2>1, Zenon DEF Kept
  <2> QED
    BY <1>0, <1>1, <2>2, <2>3, TableFrame, Zenon
<1>11. ImmutInv'
  BY <1>1, Zenon DEF ImmutInv
<1> QED
  BY <1>5, <1>6, <1>7, <1>8, <1>9, <1>10, <1>11, Whole, Zenon

(* The table that a minor compaction writes *)
CreatedFacts(F, data) ==
  /\ F \in Nat /\ F < log_writer.gen /\ F # log_writer.gen /\ F < gen
  /\ data \in TableData /\ data = NewestData(immut)
  /\ F \notin Range(Tables) \cup DOMAIN files.sst
  /\ F \in DOMAIN files.wal /\ (F \notin dirty => TableOf(files.wal[F]) = data)
  /\ Created \in Files /\ Created.wal = files.wal
  /\ WithIs(TableData, files.cache, F, data)
  /\ Created.cache = With(files.cache, F, data)
  /\ WithIs(Sst, files.sst, F, [ok |-> TRUE, data |-> data])
  /\ Created.sst = IF table_type = "SortedString"
                   THEN With(files.sst, F, [ok |-> TRUE, data |-> data]) ELSE files.sst

LEMMA CreatedIs ==
  ASSUME Good, flushing # NotFlushing
  PROVE  CreatedFacts(flushing.gen, DataOf(flushing.data))
<1> DEFINE F == flushing.gen
           data == DataOf(flushing.data)
<1>0. Types /\ SeqInv /\ GenInv /\ FlushInv
  BY Parts, Zenon
<1>1. /\ files \in Files /\ gen \in Nat /\ log_writer \in [gen : Nat, pos : Nat]
      /\ flushing \in [gen : Nat, data : SUBSET Entry]
  BY <1>0, Zenon DEF Types
<1>2. /\ F < log_writer.gen /\ data = NewestData(immut)
      /\ F \notin Range(Tables) \cup DOMAIN files.sst
      /\ F \in DOMAIN files.wal /\ (F \notin dirty => TableOf(files.wal[F]) = data)
  BY <1>0, Zenon DEF FlushInv, NewestData
<1>3. log_writer.gen < gen
  BY <1>0, Zenon DEF GenInv
<1>4. data \in TableData
  BY <1>0, <1>2, MemBounded, NewestType, Zenon
<1>5. Created = create(files, F, data, table_type)
  BY Zenon DEF Created
<1>6. F \in Nat /\ log_writer.gen \in Nat
  BY ONLY <1>1
<1> HIDE DEF F, data
<1>7. F # log_writer.gen /\ F < gen
  BY ONLY <1>1, <1>2, <1>3, <1>6
<1>8. /\ Created \in Files /\ Created.wal = files.wal
      /\ Created.cache = With(files.cache, F, data)
      /\ Created.sst = IF table_type = "SortedString"
                       THEN With(files.sst, F, [ok |-> TRUE, data |-> data]) ELSE files.sst
  <2>1. CreateIs(create(files, F, data, table_type), files, F, data, table_type)
    <3>1. files \in Files /\ F \in Nat /\ data \in TableData
      BY <1>1, <1>4, <1>6, Zenon
    <3> QED
      BY ONLY <3>1, CreateFacts, Zenon
  <2> QED
    BY <1>5, <2>1, Zenon DEF CreateIs
<1>9. files.sst \in ByGen(Sst) /\ files.cache \in ByGen(TableData)
  BY <1>1, FilesFacts, Zenon
<1>10. [ok |-> TRUE, data |-> data] \in Sst
  BY ONLY <1>4 DEF Sst
<1>11. WithIs(TableData, files.cache, F, data) /\ WithIs(Sst, files.sst, F, [ok |-> TRUE, data |-> data])
  BY <1>4, <1>6, <1>9, <1>10, WithFacts, Zenon
<1>12. CreatedFacts(F, data)
  BY <1>2, <1>4, <1>6, <1>7, <1>8, <1>11, Zenon DEF CreatedFacts
<1> QED
  BY <1>12, Zenon DEF F, data

LEMMA NotFlushingType == NotFlushing \in [gen : Nat, data : SUBSET Entry]
BY DEF NotFlushing

LEMMA MinorStep ==
  ASSUME Good, minor_compaction
  PROVE  Good'
<1> DEFINE F == flushing.gen
           data == DataOf(flushing.data)
           new == [ok |-> TRUE, data |-> data]
<1>0. Types /\ SeqInv /\ GenInv /\ WalInv /\ FlushInv /\ TableInv /\ ImmutInv
  BY Parts, Zenon
<1>1. /\ flushing # NotFlushing /\ files' = Created /\ level0' = Append(level0, F)
      /\ made' = With(made, F, data) /\ flushing' = NotFlushing /\ installed' = TRUE
      /\ UNCHANGED <<table_type, seq_count, mem, immut, gen, log_writer, level1, stamped, val, dirty>>
  BY Zenon DEF minor_compaction
<1>a. CreatedFacts(F, data)
  BY <1>1, CreatedIs, Zenon
<1>b. new.ok = TRUE /\ new.data = data
  OBVIOUS
<1> HIDE DEF F, data, new
<1>2. /\ F \in Nat /\ F < gen /\ F # log_writer.gen /\ F \notin Range(Tables) \cup DOMAIN files.sst
      /\ data \in TableData /\ data = NewestData(immut)
      /\ F \in DOMAIN files.wal /\ (F \notin dirty => TableOf(files.wal[F]) = data)
      /\ files' \in Files /\ files'.wal = files.wal
  BY <1>1, <1>a, Zenon DEF CreatedFacts
<1>3. /\ DOMAIN files'.cache = DOMAIN files.cache \cup {F} /\ files'.cache[F] = data
      /\ \A h \in DOMAIN files.cache : h # F => files'.cache[h] = files.cache[h]
  <2>1. WithIs(TableData, files.cache, F, data) /\ Created.cache = With(files.cache, F, data)
    BY <1>a, Zenon DEF CreatedFacts
  <2>2. files' = Created
    BY <1>1, Zenon
  <2>3. files'.cache = With(files.cache, F, data)
    BY ONLY <2>1, <2>2, Zenon
  <2> QED
    BY ONLY <2>1, <2>3, Zenon DEF WithIs
<1>4. table_type # "SortedString" => files'.sst = files.sst
  BY <1>1, <1>a, Zenon DEF CreatedFacts
<1>5. table_type = "SortedString" =>
        /\ DOMAIN files'.sst = DOMAIN files.sst \cup {F} /\ files'.sst[F] = new
        /\ \A h \in DOMAIN files.sst : h # F => files'.sst[h] = files.sst[h]
  BY <1>1, <1>a, Zenon DEF CreatedFacts, WithIs, new
<1>6. /\ level0 \in Seq(Nat) /\ level1 \in Seq(Nat) /\ made \in ByGen(TableData)
      /\ table_type \in {"SortedString", "BTree"}
  BY <1>0, Zenon DEF Types
<1>7. WithIs(TableData, made, F, data)
  BY <1>2, <1>6, WithFacts, Zenon
<1>8. /\ made' \in ByGen(TableData) /\ DOMAIN made' = DOMAIN made \cup {F} /\ made'[F] = data
      /\ \A h \in DOMAIN made : h # F => made'[h] = made[h]
  BY <1>1, <1>7, Zenon DEF WithIs
<1>c. Tables \in Seq(Nat)
  BY ONLY <1>6 DEF Tables
<1>9. Tables' = Append(Tables, F)
  BY ONLY <1>1, <1>2, <1>6 DEF Tables
<1>10. Range(Tables)' = Range(Tables) \cup {F} /\ Range(level0)' = Range(level0) \cup {F}
  BY <1>1, <1>2, <1>6, <1>c, <1>9, RangeAppend, Zenon
<1>11. Types'
  <2>1. level0' \in Seq(Nat)
    BY ONLY <1>1, <1>2, <1>6
  <2>2. flushing' \in [gen : Nat, data : SUBSET Entry] /\ installed' \in BOOLEAN
    BY <1>1, NotFlushingType, Zenon
  <2> QED
    BY <1>0, <1>1, <1>2, <1>8, <2>1, <2>2, Zenon DEF Types
<1>d. wal' = wal
  BY <1>1, <1>2, Zenon DEF wal
<1>12. SeqInv' /\ WalInv'
  BY <1>0, <1>1, <1>d, SeqFrame, WalFrame, Zenon
<1>13. GenInv'
  <2>1. DOMAIN files'.sst \subseteq DOMAIN files.sst \cup {F}
    BY <1>4, <1>5, Zenon
  <2>2. /\ Range(Tables)' \subseteq Range(Tables) \cup {F} /\ DOMAIN files'.wal = DOMAIN files.wal
        /\ DOMAIN files'.cache \subseteq DOMAIN files.cache \cup {F}
    BY <1>2, <1>3, <1>10, Zenon
  <2> QED
    BY <1>0, <1>1, <1>2, <1>d, <2>1, <2>2, GenFrame, Zenon
<1>14. FlushInv'
  BY <1>1, NoFlush, Zenon
<1>15. TableInv'
  <2>1. ASSUME NEW g \in Range(Tables) PROVE Kept(g)'
    <3>1. Kept(g) /\ g # F
      BY <1>0, <1>2, Zenon DEF TableInv
    <3>2. InWal(g)' = InWal(g)
      BY <1>1, <1>10, <3>1, Zenon DEF InWal
    <3>3. /\ g \in DOMAIN files'.sst <=> g \in DOMAIN files.sst
          /\ g \in DOMAIN files.sst => files'.sst[g] = files.sst[g]
      BY <1>4, <1>5, <3>1, Zenon
    <3>4. /\ g \in DOMAIN files'.cache <=> g \in DOMAIN files.cache
          /\ g \in DOMAIN files.cache => files'.cache[g] = files.cache[g]
      BY <1>3, <3>1, Zenon
    <3>5. g \in DOMAIN made' /\ made'[g] = made[g]
      BY <1>8, <3>1, Zenon DEF Kept
    <3>6. files'.wal = files.wal /\ dirty' = dirty
      BY <1>1, <1>2, Zenon
    <3> QED
      BY ONLY <3>1, <3>2, <3>3, <3>4, <3>5, <3>6, Zenon DEF Kept
  <2>2. ASSUME NEW g, g = F PROVE Kept(g)'
    <3>1. g \in DOMAIN files'.wal /\ g \in DOMAIN made' /\ made'[g] = data
      BY <1>2, <1>8, <2>2, Zenon
    <3>2. g \notin dirty' => TableOf(files'.wal[g]) = data
      BY <1>1, <1>2, <2>2, Zenon
    <3>3. InWal(g)' <=> table_type = "BTree"
      BY <1>1, <1>10, <2>2, Zenon DEF InWal
    <3>4. InWal(g)' => g \notin DOMAIN files'.sst
      <4>1. table_type = "BTree" => table_type # "SortedString"
        OBVIOUS
      <4> QED
        BY <1>2, <1>4, <2>2, <3>3, <4>1, Zenon
    <3>5. ~InWal(g)' => g \in DOMAIN files'.sst /\ files'.sst[g].ok /\ files'.sst[g].data = data
      BY <1>b, <1>5, <1>6, <2>2, <3>3, Zenon
    <3>6. files'.cache[g] = data
      BY <1>3, <2>2, Zenon
    <3> QED
      BY ONLY <3>1, <3>2, <3>4, <3>5, <3>6, Zenon DEF Kept
  <2> QED
    BY <1>10, <2>1, <2>2, Zenon DEF TableInv
<1>16. ImmutInv'
  <2> SUFFICES ASSUME NEW k \in Keys, \E e \in immut : e.key = k
               PROVE  NewestData(immut)[k] = Top(Tables', made', k)
    BY <1>1, Zenon DEF ImmutInv
  <2>1. Bounded(immut)
    BY <1>0, MemBounded, Zenon
  <2>3. data[k] # 0
    <3>1. NewestData(immut)[k] # 0
      BY ONLY <2>1, k \in Keys, \E e \in immut : e.key = k, NewestVal, Zenon
    <3>2. data = NewestData(immut)
      BY <1>2, Zenon
    <3> QED
      BY ONLY <3>1, <3>2, Zenon
  <2>4. made'[F][k] = data[k]
    BY <1>8, Zenon
  <2>5. Top(Append(Tables, F), made', k) = made'[F][k]
    <3>1. \A T \in Seq(Nat), g \in Nat : made'[g][k] # 0 => Top(Append(T, g), made', k) = made'[g][k]
      BY TopOfLast
    <3> QED
      BY <1>2, <1>c, <2>3, <2>4, <3>1, Zenon
  <2> QED
    BY <1>2, <1>9, <2>4, <2>5, Zenon
<1> QED
  BY <1>11, <1>12, <1>13, <1>14, <1>15, <1>16, Whole, Zenon

LEMMA MinorFailsStep ==
  ASSUME Good, MinorFails
  PROVE  Good'
<1> DEFINE F == flushing.gen
           data == DataOf(flushing.data)
<1>0. Types /\ SeqInv /\ GenInv /\ WalInv /\ FlushInv /\ TableInv /\ ImmutInv
  BY Parts, Zenon
<1>1. /\ flushing # NotFlushing /\ files' \in {files, Created} /\ flushing' = NotFlushing
      /\ UNCHANGED <<table_type, seq_count, mem, immut, gen, log_writer, level0, level1, stamped, val,
                     made, installed, dirty>>
  BY Zenon DEF MinorFails
<1>a. CreatedFacts(F, data)
  BY <1>1, CreatedIs, Zenon
<1> HIDE DEF F, data
<1>b. files \in Files /\ (files' = files \/ files' = Created)
  BY <1>0, <1>1, Zenon DEF Types
<1>2. F < gen /\ F # log_writer.gen /\ F \notin Range(Tables)
  BY <1>a, Zenon DEF CreatedFacts
<1>3. files' \in Files /\ files'.wal = files.wal
  BY <1>0, <1>a, <1>b, Zenon DEF CreatedFacts, Types
<1>4. /\ DOMAIN files'.cache \subseteq DOMAIN files.cache \cup {F}
      /\ \A h \in DOMAIN files.cache : h # F => files'.cache[h] = files.cache[h]
  <2>1. CASE files' = files
    BY <2>1, Zenon
  <2>2. CASE files' = Created
    <3>1. WithIs(TableData, files.cache, F, data) /\ Created.cache = With(files.cache, F, data)
      BY <1>a, Zenon DEF CreatedFacts
    <3>2. files'.cache = With(files.cache, F, data)
      BY ONLY <2>2, <3>1, Zenon
    <3>3. DOMAIN files'.cache = DOMAIN files.cache \cup {F}
      BY ONLY <3>1, <3>2, Zenon DEF WithIs
    <3>4. \A h \in DOMAIN files.cache : h # F => files'.cache[h] = files.cache[h]
      BY ONLY <3>1, <3>2, Zenon DEF WithIs
    <3> QED
      BY ONLY <3>3, <3>4, Zenon
  <2> QED
    BY <1>b, <2>1, <2>2, Zenon
<1>5. /\ DOMAIN files'.sst \subseteq DOMAIN files.sst \cup {F} /\ DOMAIN files.sst \subseteq DOMAIN files'.sst
      /\ \A h \in DOMAIN files.sst : h # F => files'.sst[h] = files.sst[h]
  <2>1. CASE files' = files
    BY <2>1, Zenon
  <2>2. CASE files' = Created /\ table_type # "SortedString"
    <3>1. files'.sst = files.sst
      BY <1>a, <2>2, Zenon DEF CreatedFacts
    <3> QED
      BY <3>1, Zenon
  <2>3. CASE files' = Created /\ table_type = "SortedString"
    BY <1>a, <2>3, Zenon DEF CreatedFacts, WithIs
  <2> QED
    BY <1>b, <2>1, <2>2, <2>3, Zenon
<1>6. Range(Tables)' = Range(Tables) /\ wal' = wal
  BY <1>1, <1>3, Zenon DEF Tables, wal
<1>7. Types'
  <2>1. flushing' \in [gen : Nat, data : SUBSET Entry]
    BY <1>1, NotFlushingType, Zenon
  <2> QED
    BY <1>0, <1>1, <1>3, <2>1, TypesFrame, Zenon
<1>8. SeqInv' /\ WalInv'
  BY <1>0, <1>1, <1>6, SeqFrame, WalFrame, Zenon
<1>9. GenInv'
  <2>1. DOMAIN files'.wal = DOMAIN files.wal /\ Range(Tables)' \subseteq Range(Tables) \cup {F}
    BY <1>3, <1>6, Zenon
  <2> QED
    BY <1>0, <1>1, <1>2, <1>4, <1>5, <1>6, <2>1, GenFrame, Zenon
<1>10. FlushInv'
  BY <1>1, NoFlush, Zenon
<1>11. TableInv'
  <2>1. \A g \in Range(Tables) : Kept(g) /\ g # F
    BY <1>0, <1>2, Zenon DEF TableInv
  <2>2. \A g \in Range(Tables) : Stays(files, files', g)
    BY <1>3, <1>5, <2>1, Zenon DEF Stays
  <2>3. \A g \in Range(Tables) : g \in DOMAIN files'.cache /\ ~(InWal(g) /\ g \in dirty)
          => files'.cache[g] = made[g]
    BY <1>4, <2>1, Zenon DEF Kept
  <2> QED
    BY <1>0, <1>1, <2>2, <2>3, TableFrame, Zenon
<1>12. ImmutInv'
  BY <1>0, <1>1, ImmutFrame, Zenon
<1> QED
  BY <1>7, <1>8, <1>9, <1>10, <1>11, <1>12, Whole, Zenon

(***************************************************************************)
(* A compaction writes what the tables hold together, and no other file    *)
(* that a table of the new Version needs is removed.                       *)
(***************************************************************************)
LEMMA MergedType ==
  ASSUME Types, NEW k \in Keys
  PROVE  Merged(files, k) \in Nat
<1> DEFINE T == Tables
           H == {i \in DOMAIN T : Contents(files, T[i])[k] # 0}
<1>1. files \in Files /\ level0 \in Seq(Nat) /\ level1 \in Seq(Nat)
  BY Zenon DEF Types
<1>2. T \in Seq(Nat)
  BY ONLY <1>1 DEF Tables
<1>3. Merged(files, k) = IF H = {} THEN 0 ELSE Contents(files, T[Max(H)])[k]
  BY Zenon DEF Merged
<1> HIDE DEF T
<1>4. H \in SUBSET Nat /\ H \subseteq DOMAIN T /\ Len(T) \in Nat /\ \A i \in H : i <= Len(T)
  BY ONLY <1>2
<1>5. \A g \in Nat : Contents(files, g) \in TableData
  BY <1>1, GetIs, CachedIs, Zenon
<1> HIDE DEF H
<1>6. CASE H # {}
  <2>1. Max(H) \in DOMAIN T
    BY <1>4, <1>6, Greatest, Zenon
  <2>2. T[Max(H)] \in Nat
    BY ONLY <1>2, <2>1
  <2>3. Contents(files, T[Max(H)]) \in TableData
    BY <1>5, <2>2, Zenon
  <2>4. Contents(files, T[Max(H)])[k] \in Nat
    BY <2>3, Zenon DEF TableData
  <2> QED
    BY <1>3, <1>6, <2>4, Zenon
<1>7. CASE H = {}
  BY ONLY <1>3, <1>7
<1> QED
  BY <1>6, <1>7, Zenon

LEMMA MajorStep ==
  ASSUME Good, major_compaction, ~misread'
  PROVE  Good'
<1> DEFINE data == [k \in Keys |-> Merged(files, k)]
           G == Range(Tables)
           W == log_writer.gen
           new == [ok |-> TRUE, data |-> data]
<1>0. Types /\ SeqInv /\ GenInv /\ WalInv /\ FlushInv /\ TableInv /\ ImmutInv
  BY Parts, Zenon
<1>1. /\ flushing = NotFlushing
      /\ files' = clean(create(get_all(files, G), gen, data, "SortedString"), G)
      /\ made' = With(<<>>, gen, data)
      /\ level0' = <<>> /\ level1' = <<gen>> /\ gen' = gen + 1
      /\ UNCHANGED <<table_type, seq_count, mem, immut, log_writer, flushing, stamped, val, installed, dirty>>
  BY Zenon DEF major_compaction
<1>2. \A g \in dirty : ~InWal(g)
  BY Zenon DEF major_compaction
<1>3. files \in Files /\ gen \in Nat /\ log_writer \in [gen : Nat, pos : Nat]
  BY <1>0, Zenon DEF Types
<1>a. W \in Nat
  BY ONLY <1>3
<1>b. G \in SUBSET Nat
  BY <1>0, TableGens, Zenon
<1>c. /\ W < gen /\ W \in DOMAIN files.wal /\ log_writer.pos <= Len(wal)
      /\ \A g \in DOMAIN files.wal : g <= W
      /\ \A g \in G \cup DOMAIN files.sst \cup DOMAIN files.cache : g < gen /\ g # W
  BY <1>0, Zenon DEF GenInv
<1>d. \A g \in G : g < gen
  BY <1>c, Zenon
<1>5. gen \notin G
  BY ONLY <1>3, <1>b, <1>d
<1>6. ASSUME NEW k \in Keys
      PROVE  data[k] = Top(Tables, made, k) /\ data[k] \in Nat
  <2>1. \A g \in G : Contents(files, g) = made[g]
    BY <1>0, <1>2, <1>b, KeptContents, Zenon DEF TableInv
  <2>2. Merged(files, k) = Top(Tables, made, k)
    BY <1>0, <2>1, MergedIsTop, Zenon
  <2>3. Merged(files, k) \in Nat
    BY <1>0, MergedType, Zenon
  <2>4. data[k] = Merged(files, k)
    BY Zenon
  <2> QED
    BY <2>2, <2>3, <2>4, Zenon
<1>7. data \in TableData
  BY <1>6, Zenon DEF TableData
<1>e. new.ok = TRUE /\ new.data = data
  OBVIOUS
<1> HIDE DEF data, new, G, W
<1>8. MajorIs(files', files, G, gen, data)
  <2>1. MajorIs(clean(create(get_all(files, G), gen, data, "SortedString"), G), files, G, gen, data)
    BY <1>3, <1>5, <1>7, <1>b, MajorFacts, Zenon
  <2> QED
    BY <1>1, <2>1, Zenon
<1>f. /\ files' \in Files
      /\ DOMAIN files'.wal \subseteq DOMAIN files.wal
      /\ \A h \in DOMAIN files.wal \ G : h \in DOMAIN files'.wal /\ files'.wal[h] = files.wal[h]
      /\ DOMAIN files'.sst = (DOMAIN files.sst \ G) \cup {gen}
      /\ files'.sst[gen] = new
      /\ DOMAIN files'.cache = (DOMAIN files.cache \ G) \cup {gen}
      /\ files'.cache[gen] = data
  BY <1>8, Zenon DEF MajorIs, new
<1>9. made' \in ByGen(TableData) /\ gen \in DOMAIN made' /\ made'[gen] = data
  <2>1. WithIs(TableData, <<>>, gen, data)
    BY <1>3, <1>7, EmptyFacts, WithFacts, Zenon
  <2> QED
    BY <1>1, <2>1, Zenon DEF WithIs
<1>10. Tables' = <<gen>> /\ Range(Tables)' = {gen} /\ Range(level0)' = {}
  <2>1. level0' = <<>> /\ level1' = <<gen>>
    BY <1>1, Zenon
  <2> QED
    BY ONLY <1>3, <2>1 DEF Tables, Range
<1>11. W \in DOMAIN files.wal \ G /\ wal' = wal
  <2>1. W \in DOMAIN files.wal \ G
    BY <1>c, Zenon
  <2>2. files'.wal[W] = files.wal[W] /\ log_writer' = log_writer
    BY <1>1, <1>f, <2>1, Zenon
  <2> QED
    BY <2>1, <2>2, Zenon DEF wal, W
<1>12. Types'
  <2>1. level0' \in Seq(Nat) /\ level1' \in Seq(Nat) /\ gen' \in Nat
    BY ONLY <1>1, <1>3
  <2> QED
    BY <1>0, <1>1, <1>9, <1>f, <2>1, Zenon DEF Types
<1>13. SeqInv' /\ WalInv'
  BY <1>0, <1>1, <1>11, SeqFrame, WalFrame, Zenon
<1>14. GenInv'
  <2> DEFINE D == DOMAIN files.sst \cup DOMAIN files.cache
  <2>1. D \in SUBSET Nat
    BY <1>3, FilesFacts, ByGenFacts, Zenon
  <2>2. \A g \in D : g < gen /\ g # W
    BY <1>c, Zenon
  <2>3. (Range(Tables) \cup DOMAIN files.sst \cup DOMAIN files.cache)' \subseteq D \cup {gen}
    BY <1>f, <1>10, Zenon
  <2> HIDE DEF D
  <2>4. W < gen' /\ \A g \in D \cup {gen} : g < gen' /\ g # W
    <3>1. gen \in Nat /\ gen' = gen + 1 /\ W < gen
      BY ONLY <1>1, <1>3, <1>c, Zenon
    <3> QED
      BY ONLY <1>a, <2>1, <2>2, <3>1
  <2>5. log_writer'.gen = W /\ log_writer'.pos = log_writer.pos
    BY <1>1, Zenon DEF W
  <2>6. W \in DOMAIN files'.wal /\ \A g \in DOMAIN files'.wal : g <= W
    BY <1>c, <1>f, <1>11, Zenon
  <2> QED
    BY <1>c, <1>11, <2>3, <2>4, <2>5, <2>6, Zenon DEF GenInv
<1>15. FlushInv'
  BY <1>1, NoFlush, Zenon
<1>16. TableInv'
  <2>1. ASSUME NEW g, g = gen PROVE Kept(g)'
    <3>1. ~InWal(g)'
      BY <1>10, Zenon DEF InWal
    <3>2. g \in DOMAIN made' /\ made'[g] = data
      BY <1>9, <2>1, Zenon
    <3>3. g \in DOMAIN files'.sst /\ files'.sst[g] = new /\ files'.cache[g] = data
      BY <1>f, <2>1, Zenon
    <3> QED
      BY ONLY <1>e, <3>1, <3>2, <3>3, Zenon DEF Kept
  <2> QED
    BY <1>10, <2>1, Zenon DEF TableInv
<1>17. ImmutInv'
  <2> SUFFICES ASSUME installed, NEW k \in Keys, \E e \in immut : e.key = k
               PROVE  NewestData(immut)[k] = Top(Tables', made', k)
    BY <1>1, Zenon DEF ImmutInv
  <2>1. NewestData(immut)[k] = Top(Tables, made, k)
    BY <1>0, Zenon DEF ImmutInv
  <2>2. Top(<<gen>>, made', k) = made'[gen][k]
    BY <1>3, TopOfOne, Zenon
  <2>3. data[k] = Top(Tables, made, k)
    BY <1>6, Zenon
  <2>4. Top(Tables', made', k) = Top(<<gen>>, made', k) /\ made'[gen][k] = data[k]
    BY <1>9, <1>10, Zenon
  <2> QED
    BY ONLY <2>1, <2>2, <2>3, <2>4, Zenon
<1> QED
  BY <1>12, <1>13, <1>14, <1>15, <1>16, <1>17, Whole, Zenon

(* The cache only: g leaves it. *)
LEMMA EvictStep ==
  ASSUME Good, NEW g, Evict(g)
  PROVE  Good'
<1> DEFINE c2 == Without(files.cache, {g})
<1>0. Types /\ SeqInv /\ GenInv /\ WalInv /\ FlushInv /\ TableInv /\ ImmutInv
  BY Parts, Zenon
<1>1. /\ g \in DOMAIN files.cache /\ files' = [files EXCEPT !.cache = c2]
      /\ UNCHANGED <<table_type, seq_count, mem, immut, gen, log_writer, level0, level1, flushing,
                     stamped, val, made, installed, dirty>>
  BY Zenon DEF Evict
<1>2. files \in Files /\ flushing \in [gen : Nat, data : SUBSET Entry]
  BY <1>0, Zenon DEF Types
<1>3. files.sst \in ByGen(Sst) /\ files.wal \in ByGen(Seq(Entry)) /\ files.cache \in ByGen(TableData)
  BY <1>2, FilesFacts, Zenon
<1>4. /\ c2 \in ByGen(TableData) /\ DOMAIN c2 \subseteq DOMAIN files.cache
      /\ \A h \in DOMAIN c2 : c2[h] = files.cache[h]
  <2>1. WithoutIs(TableData, files.cache, {g})
    BY <1>3, WithoutFacts, Zenon
  <2> QED
    BY <2>1, Zenon DEF WithoutIs
<1> HIDE DEF c2
<1>5. files' = [sst |-> files.sst, wal |-> files.wal, cache |-> c2]
  BY <1>1, <1>2, CacheOnly, Zenon
<1>6. files'.sst = files.sst /\ files'.wal = files.wal /\ files'.cache = c2
  BY ONLY <1>5
<1>7. files' \in Files
  BY <1>3, <1>4, <1>5, FilesIntro, Zenon
<1>8. Range(Tables)' = Range(Tables) /\ wal' = wal
  BY <1>1, <1>6, Zenon DEF Tables, wal
<1>9. g < gen /\ g # log_writer.gen
  BY <1>0, <1>1, Zenon DEF GenInv
<1>10. Types' /\ SeqInv' /\ WalInv' /\ GenInv' /\ ImmutInv'
  BY <1>0, <1>1, <1>2, <1>4, <1>6, <1>7, <1>8, <1>9,
     TypesFrame, SeqFrame, WalFrame, GenFrame, ImmutFrame, Zenon
<1>11. FlushInv'
  <2>1. flushing # NotFlushing => flushing.gen \in DOMAIN files.wal /\ flushing.gen \notin DOMAIN files.sst
    BY <1>0, Zenon DEF FlushInv
  <2> QED
    BY <1>0, <1>1, <1>6, <1>8, <2>1, FlushFrame, Zenon
<1>12. TableInv'
  <2>1. \A h \in Range(Tables) : Stays(files, files', h)
    BY <1>6, Zenon DEF Stays
  <2>2. \A h \in Range(Tables) : h \in DOMAIN files'.cache /\ ~(InWal(h) /\ h \in dirty)
          => files'.cache[h] = made[h]
    BY <1>0, <1>4, <1>6, Zenon DEF TableInv, Kept
  <2> QED
    BY <1>0, <1>1, <2>1, <2>2, TableFrame, Zenon
<1> QED
  BY <1>10, <1>11, <1>12, Whole, Zenon

(***************************************************************************)
(* A table of the Version is loaded: from its .sst, which is there and can *)
(* be read, or, for a BTreeTable, from its WAL, which is there.            *)
(***************************************************************************)
LEMMA GetStep ==
  ASSUME Good, NEW g, Get(g)
  PROVE  Good'
<1> DEFINE v == Contents(files, g)
<1>0. Types /\ SeqInv /\ GenInv /\ WalInv /\ FlushInv /\ TableInv /\ ImmutInv
  BY Parts, Zenon
<1>1. /\ g \in Range(Tables) /\ g \notin DOMAIN files.cache /\ files' = get(files, g)
      /\ UNCHANGED <<table_type, seq_count, mem, immut, gen, log_writer, level0, level1, flushing,
                     stamped, val, made, installed, dirty>>
  BY Zenon DEF Get
<1>2. files \in Files /\ flushing \in [gen : Nat, data : SUBSET Entry]
  BY <1>0, Zenon DEF Types
<1>a. g \in Nat /\ Kept(g) /\ g < gen /\ g # log_writer.gen
  BY <1>0, <1>1, TableGens, Zenon DEF TableInv, GenInv
<1>3. /\ v \in TableData /\ files' \in Files /\ files'.cache = With(files.cache, g, v)
      /\ files'.sst = IF g \in DOMAIN files.sst THEN files.sst ELSE With(files.sst, g, Empty)
      /\ files'.wal = IF Readable(files, g) \/ g \in DOMAIN files.wal THEN files.wal
                      ELSE With(files.wal, g, <<>>)
  BY <1>1, <1>2, <1>a, GetIs, Zenon
<1>4. files'.wal = files.wal
  <2>1. Readable(files, g) \/ g \in DOMAIN files.wal
    BY <1>a, Zenon DEF Kept, Readable
  <2> QED
    BY <1>3, <2>1, Zenon
<1>5. ~(InWal(g) /\ g \in dirty) => v = made[g]
  BY <1>0, <1>a, KeptContents, Zenon
<1> HIDE DEF v
<1>6. files.sst \in ByGen(Sst) /\ files.cache \in ByGen(TableData)
  BY <1>2, FilesFacts, Zenon
<1>7. WithIs(TableData, files.cache, g, v) /\ WithIs(Sst, files.sst, g, Empty)
  BY <1>a, <1>3, <1>6, EmptyTable, WithFacts, Zenon
<1>8. /\ DOMAIN files'.cache = DOMAIN files.cache \cup {g} /\ files'.cache[g] = v
      /\ \A h \in DOMAIN files.cache : h # g => files'.cache[h] = files.cache[h]
  BY <1>3, <1>7, Zenon DEF WithIs
<1>9. /\ DOMAIN files'.sst \subseteq DOMAIN files.sst \cup {g}
      /\ g \notin DOMAIN files.sst => ~files'.sst[g].ok
      /\ \A h \in DOMAIN files.sst : h \in DOMAIN files'.sst /\ files'.sst[h] = files.sst[h]
  <2>1. CASE g \in DOMAIN files.sst
    BY <1>3, <2>1, Zenon
  <2>2. CASE g \notin DOMAIN files.sst
    <3>1. files'.sst = With(files.sst, g, Empty) /\ ~Empty.ok
      BY <1>3, <2>2, EmptyTable, Zenon
    <3> QED
      BY <1>7, <2>2, <3>1, Zenon DEF WithIs
  <2> QED
    BY <2>1, <2>2, Zenon
<1>10. Range(Tables)' = Range(Tables) /\ wal' = wal
  BY <1>1, <1>4, Zenon DEF Tables, wal
<1>11. Types' /\ SeqInv' /\ WalInv' /\ GenInv' /\ ImmutInv'
  BY <1>0, <1>1, <1>2, <1>3, <1>4, <1>8, <1>9, <1>10, <1>a,
     TypesFrame, SeqFrame, WalFrame, GenFrame, ImmutFrame, Zenon
<1>12. FlushInv'
  <2>1. flushing # NotFlushing => /\ flushing.gen \in DOMAIN files.wal
                                  /\ flushing.gen \notin DOMAIN files.sst
                                  /\ flushing.gen \notin Range(Tables)
    BY <1>0, Zenon DEF FlushInv
  <2>2. flushing # NotFlushing => flushing.gen \notin DOMAIN files'.sst
    BY <1>1, <1>9, <2>1, Zenon
  <2> QED
    BY <1>0, <1>1, <1>4, <1>10, <2>1, <2>2, FlushFrame, Zenon
<1>13. TableInv'
  <2>1. \A h \in Range(Tables) : Stays(files, files', h)
    BY <1>4, <1>9, Zenon DEF Stays
  <2>2. \A h \in Range(Tables) : h \in DOMAIN files'.cache /\ ~(InWal(h) /\ h \in dirty)
          => files'.cache[h] = made[h]
    BY <1>0, <1>5, <1>8, Zenon DEF TableInv, Kept
  <2> QED
    BY <1>0, <1>1, <2>1, <2>2, TableFrame, Zenon
<1> QED
  BY <1>11, <1>12, <1>13, Whole, Zenon

LEMMA NewestWal == ASSUME Good PROVE newest_wal(files) = log_writer.gen
<1> DEFINE D == DOMAIN files.wal
<1>0. Types /\ GenInv
  BY Parts, Zenon
<1>1. D \in SUBSET Nat
  BY <1>0, FilesFacts, ByGenFacts, Zenon DEF Types
<1>2. log_writer.gen \in D /\ \A g \in D : g <= log_writer.gen
  BY <1>0, Zenon DEF GenInv
<1> HIDE DEF D
<1>3. Max(D) = log_writer.gen
  BY <1>1, <1>2, MaxIs, Zenon
<1> QED
  BY <1>3, Zenon DEF newest_wal, D

LEMMA RestartStep ==
  ASSUME Good, Restart
  PROVE  Good'
<1> DEFINE W == log_writer.gen
<1>0. Types /\ SeqInv /\ GenInv /\ WalInv /\ FlushInv /\ TableInv /\ ImmutInv
  BY Parts, Zenon
<1>1. /\ mem' = reload(wal) /\ log_writer' = [gen |-> W, pos |-> 0]
      /\ files' = [files EXCEPT !.cache = <<>>]
      /\ immut' = {} /\ flushing' = NotFlushing /\ stamped' = {}
      /\ seq_count' = 1 /\ installed' = TRUE
      /\ UNCHANGED <<table_type, gen, level0, level1, val, made, dirty>>
  BY NewestWal, Zenon DEF Restart, wal
<1>2. files \in Files /\ log_writer \in [gen : Nat, pos : Nat]
  BY <1>0, Zenon DEF Types
<1>a. /\ W \in DOMAIN files.wal /\ W < gen /\ \A g \in DOMAIN files.wal : g <= W
      /\ \A g \in Range(Tables) \cup DOMAIN files.sst \cup DOMAIN files.cache : g < gen /\ g # W
  BY <1>0, Zenon DEF GenInv
<1>3. /\ files.sst \in ByGen(Sst) /\ files.wal \in ByGen(Seq(Entry))
      /\ files' = [sst |-> files.sst, wal |-> files.wal, cache |-> <<>>]
  BY <1>1, <1>2, FilesFacts, CacheOnly, Zenon
<1>4. files'.sst = files.sst /\ files'.wal = files.wal /\ files'.cache = <<>>
  BY ONLY <1>3
<1>b. DOMAIN files'.cache = {} /\ files' \in Files
  BY <1>3, <1>4, EmptyFacts, FilesIntro, Zenon
<1>5. wal \in Seq(Entry)
  BY <1>a, <1>3, ByGenFacts, Zenon DEF wal
<1>c. log_writer'.gen = W /\ log_writer'.pos = 0 /\ log_writer' \in [gen : Nat, pos : Nat]
  BY ONLY <1>1, <1>2
<1>6. Range(Tables)' = Range(Tables) /\ wal' = wal
  BY <1>1, <1>4, <1>c, Zenon DEF Tables, wal
<1>7. Bounded(mem') /\ (\A e \in mem' : e.seq = 0) /\ NewestData(mem') = TableOf(wal)
  BY <1>1, <1>5, ReloadIs, Zenon
<1>8. Types'
  <2>1. seq_count' \in Nat /\ stamped' = {} /\ immut' \in SUBSET Entry /\ installed' \in BOOLEAN
    BY ONLY <1>1
  <2>2. mem' \in SUBSET Entry /\ flushing' \in [gen : Nat, data : SUBSET Entry]
    BY <1>1, <1>7, NotFlushingType, Zenon DEF Bounded
  <2> QED
    BY <1>0, <1>1, <1>b, <1>c, <2>1, <2>2, Zenon DEF Types
<1>9. SeqInv'
  <2>1. \A e \in mem' : e.seq < seq_count'
    BY ONLY <1>1, <1>7
  <2> QED
    BY <1>1, <1>7, <2>1, Zenon DEF SeqInv, Bounded, Unique
<1>10. WalInv'
  BY <1>6, <1>7, Zenon DEF WalInv
<1>11. GenInv'
  <2>1. 0 <= Len(wal)
    BY ONLY <1>5
  <2> QED
    BY <1>1, <1>4, <1>6, <1>a, <1>b, <1>c, <2>1, Zenon DEF GenInv
<1>12. FlushInv' /\ ImmutInv'
  BY <1>1, NoFlush, Zenon DEF ImmutInv
<1>13. TableInv'
  <2>1. \A h \in Range(Tables) : Stays(files, files', h)
    BY <1>4, Zenon DEF Stays
  <2> QED
    BY <1>0, <1>1, <1>b, <2>1, TableFrame, Zenon
<1> QED
  BY <1>8, <1>9, <1>10, <1>11, <1>12, <1>13, Whole, Zenon
-----------------------------------------------------------------------------
LEMMA GoodInit == Init => Good
<1> DEFINE w == With(<<>>, 1, <<>>)
<1> SUFFICES ASSUME Init PROVE Good
  OBVIOUS
<1>1. WithIs(Seq(Entry), <<>>, 1, <<>>)
  <2>1. 1 \in Nat
    OBVIOUS
  <2> QED
    BY <2>1, EmptyFacts, EmptyTable, WithFacts, Zenon
<1>2. w \in ByGen(Seq(Entry)) /\ DOMAIN w = {1} /\ w[1] = <<>>
  BY <1>1, EmptyFacts, Zenon DEF WithIs
<1>3. files = [sst |-> <<>>, wal |-> w, cache |-> <<>>]
  BY DEF Init, NoFiles
<1> HIDE DEF w
<1>4. files \in Files
  BY <1>2, <1>3, EmptyFacts, FilesIntro, Zenon
<1>5. files.sst = <<>> /\ files.wal = w /\ files.cache = <<>>
  BY ONLY <1>3
<1>6. /\ log_writer = [gen |-> 1, pos |-> 0] /\ level0 = <<>> /\ level1 = <<>> /\ seq_count = 1
      /\ mem = {} /\ immut = {} /\ stamped = {} /\ flushing = NotFlushing /\ gen = 2 /\ val = 1
      /\ made = <<>> /\ installed = TRUE /\ dirty = {} /\ table_type \in {"SortedString", "BTree"}
  BY Zenon DEF Init
<1>a. log_writer.gen = 1 /\ log_writer.pos = 0 /\ log_writer \in [gen : Nat, pos : Nat]
  BY ONLY <1>6
<1>b. wal = <<>> /\ Tables = <<>>
  <2>1. wal = <<>>
    BY <1>2, <1>5, <1>a, Zenon DEF wal
  <2> QED
    BY ONLY <1>6, <2>1 DEF Tables
<1>7. Range(Tables) = {}
  BY ONLY <1>b DEF Range
<1>8. Types
  <2>1. made \in ByGen(TableData)
    BY <1>6, EmptyFacts, Zenon
  <2>2. flushing \in [gen : Nat, data : SUBSET Entry]
    BY <1>6, NotFlushingType, Zenon
  <2> QED
    BY <1>4, <1>6, <1>a, <2>1, <2>2 DEF Types
<1>9. SeqInv
  BY <1>6, Zenon DEF SeqInv, Unique
<1>10. GenInv
  <2>1. DOMAIN files.sst = {} /\ DOMAIN files.cache = {} /\ DOMAIN files.wal = {1}
    BY <1>2, <1>5, EmptyFacts, Zenon
  <2> QED
    BY ONLY <1>6, <1>7, <1>a, <1>b, <2>1 DEF GenInv
<1>11. WalInv
  BY <1>6, <1>b, NoEntries, Zenon DEF WalInv
<1>12. FlushInv /\ TableInv /\ ImmutInv
  BY <1>6, <1>7, Zenon DEF FlushInv, TableInv, ImmutInv
<1> QED
  BY <1>8, <1>9, <1>10, <1>11, <1>12, Zenon DEF Good, RecoveryInv

LEMMA GoodStutter ==
  ASSUME Good, UNCHANGED vars
  PROVE  Good'
<1>0. Types /\ SeqInv /\ GenInv /\ WalInv /\ FlushInv /\ TableInv /\ ImmutInv
  BY Parts, Zenon
<1>1. UNCHANGED <<table_type, seq_count, mem, immut, gen, files, log_writer, level0, level1, flushing,
                  stamped, val, made, installed, dirty>>
  BY Zenon DEF vars
<1>2. Range(Tables)' = Range(Tables) /\ wal' = wal
  BY <1>1, Zenon DEF Tables, wal
<1>3. Types'
  BY <1>0, <1>1, Zenon DEF Types
<1>4. GenInv'
  BY <1>0, <1>1, <1>2, Zenon DEF GenInv
<1>5. FlushInv'
  BY <1>0, <1>1, <1>2, Zenon DEF FlushInv
<1>6. SeqInv' /\ WalInv' /\ TableInv' /\ ImmutInv'
  BY <1>0, <1>1, <1>2, SeqFrame, WalFrame, SameTables, ImmutFrame, Zenon
<1> QED
  BY <1>3, <1>4, <1>5, <1>6, Whole, Zenon

(* A misread table stays known. *)
LEMMA StillMisread ==
  ASSUME Next, misread
  PROVE  misread'
<1>1. ASSUME NEW k \in Keys, insert_data(k) \/ Stamp(k) PROVE misread'
  BY <1>1, Zenon DEF insert_data, Stamp
<1>2. CASE insert_batch_data
  BY <1>2, Zenon DEF insert_batch_data
<1>3. CASE swap \/ SwapFails
  BY <1>3, Zenon DEF swap, SwapFails
<1>4. CASE minor_compaction \/ MinorFails
  BY <1>4, Zenon DEF minor_compaction, MinorFails
<1>5. CASE major_compaction
  BY <1>5, Zenon DEF major_compaction
<1>6. ASSUME NEW g \in 1..gen, Evict(g) \/ Get(g) \/ GetFails(g) PROVE misread'
  BY <1>6, Zenon DEF Evict, Get, GetFails
<1>7. CASE Restart
  BY <1>7, Zenon DEF Restart
<1> QED
  BY <1>1, <1>2, <1>3, <1>4, <1>5, <1>6, <1>7, Zenon DEF Next

LEMMA GoodNext == Inv /\ [Next]_vars => Inv'
<1> SUFFICES ASSUME Inv, [Next]_vars, ~misread' PROVE Good'
  BY Zenon DEF Inv
<1>1. CASE UNCHANGED vars
  <2>1. ~misread
    BY <1>1, Zenon DEF vars
  <2> QED
    BY <1>1, <2>1, GoodStutter, Zenon DEF Inv
<1>2. CASE Next
  <2>1. Good
    BY <1>2, StillMisread, Zenon DEF Inv
  <2>2. ASSUME NEW k \in Keys, insert_data(k) \/ Stamp(k) PROVE Good'
    BY <2>1, <2>2, InsertDataStep, StampStep, Zenon
  <2>3. ASSUME NEW g \in 1..gen, Evict(g) \/ Get(g) PROVE Good'
    BY <2>1, <2>3, EvictStep, GetStep, Zenon
  <2>4. ASSUME NEW g \in 1..gen, GetFails(g) PROVE Good'
    BY <2>4, Zenon DEF GetFails
  <2> QED
    BY <1>2, <2>1, <2>2, <2>3, <2>4, InsertBatchStep, SwapStep, SwapFailsStep, MinorStep,
       MinorFailsStep, MajorStep, RestartStep, Zenon DEF Next
<1> QED
  BY <1>1, <1>2, Zenon

(***************************************************************************)
(* As long as no table was misread: the WAL in use is the newest and holds *)
(* _mem, every table of the Version is in its file or its WAL and its copy *)
(* in the cache is the same, the WAL of a minor compaction in progress has *)
(* what it writes, and _immut, once on disk, hides nothing but itself.     *)
(***************************************************************************)
THEOREM RecoveryInvariant == Spec => []Inv
<1>1. Init => Inv
  BY GoodInit, Zenon DEF Inv
<1> QED
  BY <1>1, GoodNext, PTL DEF Spec

(***************************************************************************)
(* TableLoader::get gives the contents with which a table was created,     *)
(* whatever the cache pushed out and however often the store was reopened. *)
(***************************************************************************)
THEOREM TablesAreReadBack == Spec => []TablesReadBack
<1>1. Inv => TablesReadBack
  <2> SUFFICES ASSUME Good, NEW g \in Range(Tables), ~(InWal(g) /\ g \in dirty)
               PROVE  Contents(files, g) = made[g]
    BY Zenon DEF Inv, TablesReadBack
  <2>1. Types /\ TableInv
    BY Parts, Zenon
  <2>2. g \in Nat /\ Kept(g)
    BY <2>1, TableGens, Zenon DEF TableInv
  <2> QED
    BY <2>1, <2>2, KeptContents, Zenon
<1> QED
  BY <1>1, RecoveryInvariant, PTL

(***************************************************************************)
(* Dying now and reopening loses nothing that get finds now, under the     *)
(* conditions of Recoverable.                                              *)
(***************************************************************************)
THEOREM StoreIsRecoverable == Spec => []Recoverable
<1>1. Inv => Recoverable
  <2> DEFINE none == {}
             d == [files EXCEPT !.cache = <<>>]
             M == reload(files.wal[newest_wal(files)])
  <2> SUFFICES ASSUME Good, installed, log_writer.gen \notin dirty, \A g \in dirty : ~InWal(g),
                      NEW k \in Keys
               PROVE  ValOf(find(M, none, k), d, k) = ValOf(find(mem, immut, k), files, k)
    BY Zenon DEF Inv, Recoverable, Recovered, Current
  <2>1. Types /\ SeqInv /\ GenInv /\ WalInv /\ TableInv /\ ImmutInv
    BY Parts, Zenon
  <2>2. \A g \in Range(Tables) : Contents(files, g) = made[g] /\ Contents(d, g) = made[g]
    BY <2>1, TableGens, KeptContents, Zenon DEF TableInv
  <2> HIDE DEF d
  <2>3. Merged(files, k) = Top(Tables, made, k) /\ Merged(d, k) = Top(Tables, made, k)
    BY <2>1, <2>2, MergedIsTop, Zenon
  <2>4. M = reload(wal)
    BY NewestWal, Zenon DEF wal
  <2>5. wal \in Seq(Entry)
    BY <2>1, FilesFacts, ByGenFacts, Zenon DEF Types, GenInv, wal
  <2> HIDE DEF M
  <2>6. Bounded(M) /\ NewestData(M) = NewestData(mem)
    BY <2>1, <2>4, <2>5, ReloadIs, Zenon DEF WalInv
  <2>7. Bounded(none) /\ NewestData(none)[k] = 0
    BY NoNewest, Zenon DEF Bounded, Unique
  <2> HIDE DEF none
  <2>8. ValOf(find(M, none, k), d, k) =
          IF NewestData(M)[k] # 0 THEN NewestData(M)[k]
          ELSE IF NewestData(none)[k] # 0 THEN NewestData(none)[k] ELSE Merged(d, k)
    BY <2>6, <2>7, LookupIs, Zenon
  <2>9. Bounded(mem) /\ Bounded(immut)
    BY <2>1, MemBounded, Zenon
  <2>10. ValOf(find(mem, immut, k), files, k) =
           IF NewestData(mem)[k] # 0 THEN NewestData(mem)[k]
           ELSE IF NewestData(immut)[k] # 0 THEN NewestData(immut)[k] ELSE Merged(files, k)
    BY <2>9, LookupIs, Zenon
  <2>11. NewestData(immut)[k] # 0 => NewestData(immut)[k] = Top(Tables, made, k)
    BY <2>1, NoNewest, Zenon DEF ImmutInv
  <2> QED
    BY ONLY <2>3, <2>6, <2>7, <2>8, <2>10, <2>11
<1> QED
  BY <1>1, RecoveryInvariant, PTL
=============================================================================
