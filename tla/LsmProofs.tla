------------------------------ MODULE LsmProofs -------------------------------
(***************************************************************************)
(* The safety properties of LsmTree, for any keys, sizes, thresholds and   *)
(* any number of compactions.                                              *)
(***************************************************************************)
EXTENDS LsmOperators
(***************************************************************************)
(* The inductive invariant.                                                *)
(***************************************************************************)
T(l) == Tables(levels[l])

PendingTables == IF task.edits = <<>> THEN {} ELSE {task.edits[1].scopes[1]}

Types ==
  /\ levels \in Slices
  /\ task \in [level : 0..MAX_LEVEL, scope : [start : Int, end : Int], edits : Pending, skip : BOOLEAN]
  /\ task.edits # <<>> => task.level = 0
  /\ gen \in Nat /\ wal_gen \in Nat \ {0} /\ wal_gen < gen

(* Gens are given out once, and level 0 is in the order of its gens. *)
GenInv ==
  /\ \A l \in Lv : Distinct(levels[l]) /\ \A t \in T(l) : t.gen < gen /\ t.gen # wal_gen
  /\ \A l, m \in Lv : l # m => \A s \in T(l), t \in T(m) : s.gen # t.gen
  /\ Rising(levels[0]) /\ \A t \in T(0) : t.gen < wal_gen
  /\ \A p \in PendingTables : /\ p.gen < wal_gen
                              /\ \A t \in T(0) : t.gen < p.gen
                              /\ \A l \in Lv : \A t \in T(l) : t.gen # p.gen

DisjointInv == \A l \in Lv : l # 0 => Apart(T(l))

(* v is the value of k in the uppermost table that has it, in level 0 in the youngest. *)
TopIs(L, k, v) ==
  \/ v = 0 /\ \A l \in Lv : Has(Tables(L[l]), k) = {}
  \/ \E l \in Lv : \E t \in Has(Tables(L[l]), k) :
       /\ v = t.data[k]
       /\ \A m \in Lv : m < l => Has(Tables(L[m]), k) = {}
       /\ l = 0 => \A s \in Has(Tables(L[l]), k) : s.gen <= t.gen

TopInv == ~split /\ ~dropped => \A k \in Keys : TopIs(levels, k, newest[k])

LsmInv == Types /\ GenInv /\ DisjointInv /\ TopInv
-----------------------------------------------------------------------------
(***************************************************************************)
(* What one round does.  From level l it takes the tables A, whose scopes  *)
(* fuse to f, and the tables B of level l + 1 that meet f; it puts data    *)
(* into the new tables C.                                                  *)
(***************************************************************************)
Takes(l, A, f, B, data) ==
  /\ l \in 0..(MAX_LEVEL - 2) /\ l \in Lv /\ l + 1 \in Lv
  /\ A \subseteq T(l) /\ Fused(f, A)
  /\ B = {t \in T(l + 1) : meet(t, f)}
  /\ data \in Data /\ DOMAIN data = KeysIn(A) \cup KeysIn(B)
  /\ \A k \in KeysIn(A) : \E t \in Has(A, k) : data[k] = t.data[k] /\ \A s \in Has(A, k) : s.gen <= t.gen
  /\ \A k \in KeysIn(B) \ KeysIn(A) : \E t \in Has(B, k) : data[k] = t.data[k]

Makes(C, data) ==
  /\ C \subseteq TableSet /\ Apart(C)
  /\ \A t \in C : gen <= t.gen /\ t.gen < gen' /\ DOMAIN t.data \subseteq DOMAIN data
  /\ \A t \in C : \A k \in DOMAIN t.data : t.data[k] = data[k]
  /\ ~dropped' => \A k \in DOMAIN data : \E t \in C : k \in DOMAIN t.data

Moves(l, A, B, C) ==
  /\ levels' \in Slices /\ gen' \in Nat /\ gen <= gen'
  /\ Tables(levels'[l]) = (T(l) \ A) \cup PendingTables
  /\ Distinct(levels'[l]) /\ (l = 0 => Rising(levels'[l]))
  /\ Tables(levels'[l + 1]) = (T(l + 1) \ B) \cup C /\ Distinct(levels'[l + 1])
  /\ \A m \in Lv : m # l /\ m # l + 1 => levels'[m] = levels[m]

(* The sequences behind this, for the order of the levels. *)
Orders(l, f, A, B, C) ==
  /\ \E es \in Pending : (l # 0 => es = <<>>) /\ levels'[l] = Deleted(Pushed(levels[l], es), {t.gen : t \in A})
  /\ \E new \in Seq(TableSet) :
       /\ Tables(new) = C /\ Ordered(new)
       /\ levels'[l + 1] = Deleted(InsertedAt(levels[l + 1], new, first_index(levels[l + 1], f)),
                                   {t.gen : t \in B})

LEMMA LevelIs ==
  ASSUME Types, NEW l \in Lv
  PROVE  levels[l] \in Seq(TableSet) /\ T(l) \subseteq TableSet
<1>1. levels[l] \in Seq(TableSet)
  BY Zenon DEF Types, Slices
<1>2. \A i \in DOMAIN levels[l] : levels[l][i] \in TableSet
  BY <1>1
<1> QED
  BY <1>1, <1>2, Zenon DEF T, Tables

LEMMA PushedIs ==
  ASSUME Types, GenInv, NEW l \in Lv, task.edits # <<>> => l = 0
  PROVE  /\ Pushed(levels[l], task.edits) \in Seq(TableSet)
         /\ Tables(Pushed(levels[l], task.edits)) = T(l) \cup PendingTables
         /\ Distinct(Pushed(levels[l], task.edits))
         /\ l = 0 => Rising(Pushed(levels[l], task.edits))
<1> DEFINE q == Pushed(levels[l], task.edits)
<1>1. levels[l] \in Seq(TableSet) /\ task.edits \in Pending
  BY LevelIs DEF Types
<1>2. CASE task.edits = <<>>
  <2>1. q = levels[l] /\ PendingTables = {}
    BY <1>2, Zenon DEF Pushed, PendingTables
  <2>2. Distinct(levels[l]) /\ Rising(levels[0])
    BY Zenon DEF GenInv
  <2>3. T(l) \cup {} = Tables(levels[l])
    BY Zenon DEF T
  <2> QED
    BY <1>1, <2>1, <2>2, <2>3, Zenon
<1>3. CASE task.edits # <<>>
  <2>1. PICK p \in TableSet : task.edits[1].scopes = <<p>> /\ task.edits[1].scopes[1] = p
    BY <1>1, <1>3, EditsOf, Zenon
  <2>2. l = 0 /\ q = levels[0] \o sorted_by_gen(<<p>>) /\ PendingTables = {p}
    BY <1>3, <2>1, Zenon DEF Pushed, PendingTables
  <2>3. Rising(levels[0]) /\ \A t \in Tables(levels[0]) : t.gen < p.gen
    BY <2>2, Zenon DEF GenInv, T
  <2> DEFINE r == levels[0] \o sorted_by_gen(<<p>>)
  <2>4. r \in Seq(TableSet) /\ Tables(r) = Tables(levels[0]) \cup {p} /\ Rising(r)
    BY <1>1, <2>2, <2>3, PushIs, Zenon
  <2> HIDE DEF r
  <2>5. Distinct(r)
    BY <2>4, RisingDistinct, Zenon
  <2>6. q = r
    BY <2>2, Zenon DEF r
  <2> QED
    BY <2>2, <2>4, <2>5, <2>6, Zenon DEF T
<1> QED
  BY <1>2, <1>3, Zenon

LEMMA RoundStep ==
  ASSUME Types, GenInv, MajorRound
  PROVE  \E A, f, B, C, data :
           /\ Takes(task.level, A, f, B, data) /\ Makes(C, data)
           /\ Moves(task.level, A, B, C) /\ Orders(task.level, f, A, B, C)
           /\ A = Tables(met_scopes(levels[task.level], task.scope)) /\ f = fusion(A)
<1> DEFINE l == task.level
           tl == met_scopes(levels[l], task.scope)
           A == Tables(tl)
           f == fusion(A)
           tll == met_scopes(levels[l + 1], f)
           B == Tables(tll)
           data == data_merge(tl, tll)
<1>1. /\ l \in 0..MAX_LEVEL /\ ~(l > MAX_LEVEL - 2) /\ tl # <<>> /\ task.edits \in Pending
      /\ task.edits # <<>> => l = 0
      /\ gen \in Nat
  <2>1. task.level \in 0..MAX_LEVEL /\ task.edits \in Pending
    BY DEF Types
  <2>2. ~NothingToLoad
    BY Zenon DEF MajorRound
  <2> QED
    BY <2>1, <2>2, Zenon DEF Types, NothingToLoad
<1>2. l \in 0..(MAX_LEVEL - 2) /\ l \in Lv /\ l + 1 \in Lv
  <2> HIDE DEF l, tl
  <2> QED
    BY ONLY <1>1 DEF MAX_LEVEL, Lv
<1>3. levels[l] \in Seq(TableSet) /\ levels[l + 1] \in Seq(TableSet)
  BY <1>2, LevelIs, Zenon
<1>4. tl \in Seq(TableSet) /\ A \subseteq T(l) /\ A # {}
  <2>1. /\ tl \in Seq(TableSet) /\ A = {t \in T(l) : meet(t, task.scope)}
        /\ A = {} => tl = <<>>
    BY <1>3, MetIs, Zenon DEF T
  <2> HIDE DEF tl, A
  <2> QED
    BY <1>1, <2>1, Zenon
<1>5. Fused(f, A)
  <2> HIDE DEF tl
  <2> QED
    BY <1>4, FusionIs, Zenon
<1>6. tll \in Seq(TableSet) /\ B = {t \in T(l + 1) : meet(t, f)}
  BY <1>3, MetIs, Zenon DEF T
<1>7. data \in Data /\ Merged(data, tl, tll)
  <2> HIDE DEF tl, tll
  <2> QED
    BY <1>4, <1>6, MergeIs, Zenon
<1>8. PICK size \in Sizes :
        /\ gen' = gen + part_size(data, size)
        /\ dropped' = (dropped \/ part_size(data, size) = 0)
        /\ levels' = apply(levels, task.edits \o
             <<NewFile(data_sharding(data, size), l + 1, first_index(levels[l + 1], f)),
               DeleteFile(GensOf(tl), l), DeleteFile(GensOf(tll), l + 1)>>)
  BY Zenon DEF MajorRound
<1> DEFINE parts == part_size(data, size)
           sh == data_sharding(data, size)
           C == Tables(sh)
           idx == first_index(levels[l + 1], f)
           new == sorted_by_gen(sh)
           GA == {t.gen : t \in A}
           GB == {t.gen : t \in B}
<1>9. parts \in Nat /\ sh \in Seq(TableSet) /\ Shards(sh, data, gen, gen + parts)
  <2> HIDE DEF data
  <2> QED
    BY <1>1, <1>7, ShardingIs, Zenon
<1>10. GensOf(tl) = GA /\ GensOf(tll) = GB
  BY Zenon DEF GensOf
<1>11. levels' = apply(levels, task.edits \o
         <<NewFile(sh, l + 1, idx), DeleteFile(GA, l), DeleteFile(GB, l + 1)>>)
  BY <1>8, <1>10, Zenon
<1> HIDE DEF sh, parts, data, tl, tll, f, idx
<1>12. Takes(l, A, f, B, data)
  <2>1. KeysIn(A) = KeysOf(tl) /\ KeysIn(B) = KeysOf(tll)
    BY Zenon DEF KeysIn, KeysOf
  <2> HIDE DEF l, A, B
  <2>2. \A k \in KeysIn(A) : \E t \in Has(A, k) : data[k] = t.data[k] /\ \A s \in Has(A, k) : s.gen <= t.gen
    BY <1>7, <2>1, Zenon DEF Merged, Has, A
  <2>3. \A k \in KeysIn(B) \ KeysIn(A) : \E t \in Has(B, k) : data[k] = t.data[k]
    BY <1>7, <2>1, Zenon DEF Merged, Has, B
  <2>4. DOMAIN data = KeysIn(A) \cup KeysIn(B)
    BY <1>7, <2>1, Zenon DEF Merged
  <2> QED
    BY <1>2, <1>4, <1>5, <1>6, <1>7, <2>2, <2>3, <2>4, Zenon DEF Takes
<1>13. gen' = gen + parts /\ gen' \in Nat /\ gen <= gen'
  <2>1. gen' = gen + parts
    BY <1>8, Zenon DEF parts
  <2> QED
    BY ONLY <1>1, <1>9, <2>1
<1>14. Rising(sh) /\ Ordered(sh) /\ \A t \in C : gen <= t.gen /\ t.gen < gen'
  BY <1>9, <1>13, Zenon DEF Shards
<1>15. C \subseteq TableSet
  <2>1. \A i \in DOMAIN sh : sh[i] \in TableSet
    BY <1>9
  <2> QED
    BY <2>1, Zenon DEF Tables
<1>16. Makes(C, data)
  <2>1. Apart(C)
    BY <1>9, <1>14, OrderedApart, Zenon
  <2>2. ~dropped' => parts # 0
    BY <1>8, Zenon DEF parts
  <2>3. parts # 0 => gen # gen + parts
    BY ONLY <1>1, <1>9
  <2> QED
    BY <1>9, <1>13, <1>15, <2>1, <2>2, <2>3, Zenon DEF Makes, Shards
<1>17. new \in Seq(TableSet) /\ Tables(new) = C /\ Distinct(new) /\ Ordered(new)
  <2>1. \A t \in TableSet : t.gen \in Nat
    BY TableIs, Zenon DEF IsTable
  <2>2. Distinct(sh)
    BY <1>9, <1>14, RisingDistinct, Zenon
  <2> QED
    BY <1>9, <1>14, <2>1, <2>2, SortKeeps, Zenon
<1> HIDE DEF new
<1>18. \A t \in T(l + 1), c \in C : t.gen # c.gen
  <2> SUFFICES ASSUME NEW t \in T(l + 1), NEW c \in C PROVE t.gen # c.gen
    BY Zenon
  <2>1. t.gen < gen /\ gen <= c.gen
    BY <1>2, <1>14, Zenon DEF GenInv
  <2>2. t \in TableSet /\ c \in TableSet
    BY <1>2, <1>15, LevelIs, Zenon
  <2>3. t.gen \in Nat /\ c.gen \in Nat
    BY <2>2, TableIs, Zenon DEF IsTable
  <2> QED
    BY ONLY <1>1, <2>1, <2>3
<1>19. idx \in 0..Len(levels[l + 1])
  BY <1>3, FirstIndex, Zenon DEF idx
<1>20. Distinct(levels[l + 1]) /\ Distinct(levels[l])
  BY <1>2, Zenon DEF GenInv
<1> DEFINE ins == InsertedAt(levels[l + 1], new, idx)
           pus == Pushed(levels[l], task.edits)
<1>21. ins \in Seq(TableSet) /\ Tables(ins) = T(l + 1) \cup C /\ Distinct(ins)
  <2>1. OtherGens(Tables(levels[l + 1]), Tables(new))
    BY <1>17, <1>18, Zenon DEF T, OtherGens
  <2> HIDE DEF ins
  <2>2. ins \in Seq(TableSet) /\ Tables(ins) = Tables(levels[l + 1]) \cup Tables(new) /\ Distinct(ins)
    BY <1>3, <1>17, <1>19, <1>20, <2>1, InsertKeeps, Zenon DEF ins
  <2> QED
    BY <1>17, <2>2, Zenon DEF T
<1>22. pus \in Seq(TableSet) /\ Tables(pus) = T(l) \cup PendingTables /\ Distinct(pus) /\ (l = 0 => Rising(pus))
  BY <1>1, <1>2, PushedIs, Zenon
<1>23. /\ levels' \in Slices
       /\ levels'[l] = Deleted(pus, GA)
       /\ levels'[l + 1] = Deleted(ins, GB)
       /\ \A m \in Lv : m # l /\ m # l + 1 => levels'[m] = levels[m]
  <2>1. levels \in Slices
    BY Zenon DEF Types
  <2>2. pus \in Seq(TableSet) /\ InsertedAt(levels[l + 1], sorted_by_gen(sh), idx) \in Seq(TableSet)
    BY <1>21, <1>22, Zenon DEF new
  <2> HIDE DEF GA, GB, l
  <2>3. RoundMade(levels', levels, l, Deleted(pus, GA),
                  Deleted(InsertedAt(levels[l + 1], sorted_by_gen(sh), idx), GB))
    BY <1>1, <1>2, <1>11, <2>1, <2>2, RoundLevels, Zenon
  <2> QED
    BY <2>3, Zenon DEF new, RoundMade
<1> HIDE DEF ins, pus
<1>24. OtherGens(PendingTables, A)
  BY <1>2, <1>4, Zenon DEF GenInv, OtherGens
<1>25. OtherGens(C, B)
  BY <1>6, <1>18, Zenon DEF OtherGens
<1> HIDE DEF A, B, C, l
<1>26. {t \in T(l) \cup PendingTables : t.gen \notin GA} = (T(l) \ A) \cup PendingTables
  <2>1. A \subseteq Tables(levels[l])
    BY <1>4, Zenon DEF T
  <2>2. IsRest(Rest(Tables(levels[l]) \cup PendingTables, A), Tables(levels[l]), A, PendingTables)
    BY <1>3, <1>20, <1>24, <2>1, Others, Zenon
  <2> QED
    BY ONLY <2>2, Zenon DEF Rest, IsRest, T, GA
<1>27. {t \in T(l + 1) \cup C : t.gen \notin GB} = (T(l + 1) \ B) \cup C
  <2>1. B \subseteq Tables(levels[l + 1])
    BY <1>6, Zenon DEF T
  <2>2. IsRest(Rest(Tables(levels[l + 1]) \cup C, B), Tables(levels[l + 1]), B, C)
    BY <1>3, <1>20, <1>25, <2>1, Others, Zenon
  <2> QED
    BY ONLY <2>2, Zenon DEF Rest, IsRest, T, GB
<1> HIDE DEF GA, GB
<1>28. Tables(levels'[l]) = (T(l) \ A) \cup PendingTables /\ Distinct(levels'[l]) /\ (l = 0 => Rising(levels'[l]))
  <2>1. /\ Tables(Deleted(pus, GA)) = {t \in Tables(pus) : t.gen \notin GA}
        /\ Distinct(Deleted(pus, GA)) /\ (Rising(pus) => Rising(Deleted(pus, GA)))
    BY <1>22, DeletedIs, Zenon
  <2> QED
    BY <1>22, <1>23, <1>26, <2>1, Zenon
<1>29. Tables(levels'[l + 1]) = (T(l + 1) \ B) \cup C /\ Distinct(levels'[l + 1])
  <2>1. Tables(Deleted(ins, GB)) = {t \in Tables(ins) : t.gen \notin GB} /\ Distinct(Deleted(ins, GB))
    BY <1>21, DeletedIs, Zenon
  <2> QED
    BY <1>21, <1>23, <1>27, <2>1, Zenon
<1>30. Moves(l, A, B, C)
  BY <1>13, <1>23, <1>28, <1>29, Zenon DEF Moves, T
<1>31. Orders(l, f, A, B, C)
  <2>1. l # 0 => task.edits = <<>>
    BY <1>1, Zenon
  <2>2. levels'[l + 1] = Deleted(InsertedAt(levels[l + 1], new, first_index(levels[l + 1], f)), {t.gen : t \in B})
    BY <1>23, Zenon DEF ins, idx, GB
  <2>3. levels'[l] = Deleted(Pushed(levels[l], task.edits), {t.gen : t \in A})
    BY <1>23, Zenon DEF pus, GA
  <2> QED
    BY <1>1, <1>17, <2>1, <2>2, <2>3, Zenon DEF Orders
<1> QED
  BY <1>12, <1>16, <1>30, <1>31, Zenon DEF l, A, f, tl
-----------------------------------------------------------------------------
(***************************************************************************)
(* A round preserves the invariant.                                        *)
(***************************************************************************)
LEMMA Origin ==
  ASSUME NEW l, NEW A, NEW B, NEW C, Moves(l, A, B, C), NEW m \in Lv, NEW t \in Tables(levels'[m])
  PROVE  t \in T(m) \/ (m = l /\ t \in PendingTables) \/ (m = l + 1 /\ t \in C)
<1>1. CASE m = l
  BY <1>1, Zenon DEF Moves
<1>2. CASE m = l + 1
  BY <1>2, Zenon DEF Moves
<1>3. CASE m # l /\ m # l + 1
  BY <1>3, Zenon DEF Moves, T
<1> QED
  BY <1>1, <1>2, <1>3, Zenon

LEMMA PendingIs ==
  ASSUME Types, NEW p \in PendingTables
  PROVE  p \in TableSet /\ p.gen \in Nat /\ task.level = 0
<1>1. task.edits # <<>> /\ p = task.edits[1].scopes[1]
  BY Zenon DEF PendingTables
<1>2. task.edits \in Pending /\ task.level = 0
  BY <1>1 DEF Types
<1>3. p \in TableSet
  BY <1>1, <1>2, EditsOf, Zenon
<1>4. p.gen \in Nat
  BY <1>3, TableIs, Zenon DEF IsTable
<1> QED
  BY <1>2, <1>3, <1>4, Zenon

LEMMA RoundGen ==
  ASSUME Types, GenInv, NEW A, NEW f, NEW B, NEW C, NEW data,
         Takes(task.level, A, f, B, data), Makes(C, data), Moves(task.level, A, B, C),
         wal_gen' = wal_gen, PendingTables' = {}
  PROVE  GenInv'
<1> DEFINE l == task.level
<1>1. l \in 0..(MAX_LEVEL - 2) /\ l \in Lv /\ l + 1 \in Lv
  BY Zenon DEF Takes
<1>2. gen \in Nat /\ gen' \in Nat /\ gen <= gen' /\ wal_gen \in Nat /\ wal_gen < gen
  BY DEF Types, Moves
<1>3. \A t \in C : gen <= t.gen /\ t.gen < gen' /\ t.gen \in Nat
  BY TableIs, Zenon DEF Makes, IsTable
<1>4. \A p \in PendingTables : p.gen < wal_gen /\ p.gen \in Nat /\ l = 0
  BY PendingIs, Zenon DEF GenInv
<1>5. \A m \in Lv : \A t \in T(m) : t.gen < gen /\ t.gen # wal_gen /\ t.gen \in Nat
  <2> SUFFICES ASSUME NEW m \in Lv, NEW t \in T(m) PROVE t.gen < gen /\ t.gen # wal_gen /\ t.gen \in Nat
    BY Zenon
  <2>1. t \in TableSet
    BY LevelIs, Zenon
  <2>2. t.gen \in Nat
    BY <2>1, TableIs, Zenon DEF IsTable
  <2> QED
    BY <2>2, Zenon DEF GenInv
<1>6. \A m \in Lv : \A t \in Tables(levels'[m]) :
        t \in T(m) \/ (m = l /\ t \in PendingTables) \/ (m = l + 1 /\ t \in C)
  BY Origin, Zenon
<1>7. \A m \in Lv : Distinct(levels'[m])
  BY Zenon DEF Moves, GenInv
<1>8. ASSUME NEW m \in Lv, NEW t \in Tables(levels'[m]) PROVE t.gen < gen' /\ t.gen # wal_gen
  <2>1. CASE t \in T(m)
    <3>1. t.gen < gen /\ t.gen # wal_gen /\ t.gen \in Nat
      BY <1>5, <2>1, Zenon
    <3> QED
      BY ONLY <1>2, <3>1
  <2>2. CASE t \in PendingTables
    <3>1. t.gen < wal_gen /\ t.gen \in Nat
      BY <1>4, <2>2, Zenon
    <3> QED
      BY ONLY <1>2, <3>1
  <2>3. CASE t \in C
    <3>1. gen <= t.gen /\ t.gen < gen' /\ t.gen \in Nat
      BY <1>3, <2>3, Zenon
    <3> QED
      BY ONLY <1>2, <3>1
  <2> QED
    BY <1>6, <2>1, <2>2, <2>3, Zenon
<1>9. ASSUME NEW a \in Lv, NEW b \in Lv, a # b, NEW s \in Tables(levels'[a]), NEW t \in Tables(levels'[b])
      PROVE  s.gen # t.gen
  <2>1. ASSUME NEW x \in Lv, NEW y \in Lv, x # y, NEW u \in T(x), NEW v \in T(y) PROVE u.gen # v.gen
    BY <2>1, Zenon DEF GenInv
  <2>2. ASSUME NEW x \in Lv, NEW u \in T(x), NEW p \in PendingTables PROVE u.gen # p.gen
    BY Zenon DEF GenInv
  <2>3. ASSUME NEW u, NEW c \in C, (\E x \in Lv : u \in T(x)) \/ u \in PendingTables PROVE u.gen # c.gen
    <3>1. u.gen \in Nat /\ (u.gen < gen \/ u.gen < wal_gen)
      BY <1>4, <1>5, <2>3, Zenon
    <3>2. gen <= c.gen /\ c.gen \in Nat
      BY <1>3, Zenon
    <3> QED
      BY ONLY <1>2, <3>1, <3>2
  <2>4. s \in T(a) \/ (a = l /\ s \in PendingTables) \/ (a = l + 1 /\ s \in C)
    BY <1>6, Zenon
  <2>5. t \in T(b) \/ (b = l /\ t \in PendingTables) \/ (b = l + 1 /\ t \in C)
    BY <1>6, Zenon
  <2>6. CASE s \in T(a)
    BY <1>9, <2>1, <2>2, <2>3, <2>5, <2>6, Zenon
  <2>7. CASE a = l /\ s \in PendingTables
    BY <1>9, <2>2, <2>3, <2>5, <2>7, Zenon
  <2>8. CASE a = l + 1 /\ s \in C
    BY <1>9, <2>3, <2>5, <2>8, Zenon
  <2> QED
    BY <2>4, <2>6, <2>7, <2>8, Zenon
<1>10. Rising(levels'[0]) /\ \A t \in Tables(levels'[0]) : t.gen < wal_gen
  <2>1. 0 \in Lv /\ (l = 0 \/ (0 # l /\ 0 # l + 1))
    <3> HIDE DEF l
    <3> QED
      BY ONLY <1>1 DEF Lv, MAX_LEVEL
  <2>2. l + 1 # 0
    <3> HIDE DEF l
    <3> QED
      BY ONLY <1>1 DEF Lv, MAX_LEVEL
  <2>3. Rising(levels'[0])
    BY <2>1, Zenon DEF Moves, GenInv
  <2>4. ASSUME NEW t \in Tables(levels'[0]) PROVE t.gen < wal_gen
    <3>1. t \in T(0) \/ t \in PendingTables
      BY <1>6, <2>1, <2>2, Zenon
    <3> QED
      BY <1>4, <3>1, Zenon DEF GenInv
  <2> QED
    BY <2>3, <2>4, Zenon
<1> HIDE DEF l
<1>11. \A p \in PendingTables' : FALSE
  BY Zenon
<1> QED
  BY ONLY <1>7, <1>8, <1>9, <1>10, <1>11, wal_gen' = wal_gen, Zenon DEF GenInv, T

LEMMA RoundDisjoint ==
  ASSUME Types, DisjointInv, NEW A, NEW f, NEW B, NEW C, NEW data,
         Takes(task.level, A, f, B, data), Makes(C, data), Moves(task.level, A, B, C)
  PROVE  DisjointInv'
<1> DEFINE l == task.level
<1>1. l \in 0..(MAX_LEVEL - 2) /\ l \in Lv /\ l + 1 \in Lv
  BY Zenon DEF Takes
<1>2. l + 1 # 0 /\ l # l + 1
  <2> HIDE DEF l
  <2> QED
    BY ONLY <1>1 DEF MAX_LEVEL
<1>3. T(l + 1) \subseteq TableSet /\ T(l) \subseteq TableSet /\ Apart(T(l + 1))
  BY <1>1, <1>2, LevelIs, Zenon DEF DisjointInv
<1>4. /\ A \subseteq T(l) /\ Fused(f, A) /\ B = {t \in T(l + 1) : meet(t, f)}
      /\ DOMAIN data = KeysIn(A) \cup KeysIn(B)
  BY Zenon DEF Takes
<1>5. C \subseteq TableSet /\ Apart(C) /\ \A t \in C : DOMAIN t.data \subseteq DOMAIN data
  BY Zenon DEF Makes
<1>6. \A t \in TableSet : Interval(t)
  BY TableInterval, Zenon
<1>7. ASSUME NEW u \in T(l + 1), u \notin B, NEW c \in C PROVE ~meet(u, c) /\ ~meet(c, u)
  <2>1. ~meet(u, f)
    BY <1>4, <1>7, Zenon
  <2>2. Within(c, A \cup B)
    <3>1. IsTable(c)
      BY <1>5, TableIs, Zenon
    <3>2. c.start \in DOMAIN data /\ c.end \in DOMAIN data
      BY <1>5, <3>1, Zenon DEF IsTable
    <3>3. ASSUME NEW k \in DOMAIN data PROVE \E t \in A \cup B : t.start <= k /\ k <= t.end
      <4>1. PICK t \in A \cup B : k \in DOMAIN t.data
        BY <1>4, Zenon DEF KeysIn
      <4>2. t \in TableSet
        BY <1>3, <1>4, Zenon
      <4>3. t.start <= k /\ k <= t.end
        BY <4>1, <4>2, TableInterval, Zenon
      <4> QED
        BY <4>3, Zenon
    <3> QED
      BY <3>2, <3>3, Zenon DEF Within
  <2>3. (\A t \in A : Interval(t)) /\ (\A t \in T(l + 1) : Interval(t)) /\ Interval(c) /\ Interval(u)
    BY <1>3, <1>4, <1>5, <1>6, Zenon
  <2>4. \A s, t \in T(l + 1) : s # t => ~meet(s, t)
    BY <1>3, Zenon DEF Apart
  <2>5. Within(c, A \cup {t \in T(l + 1) : meet(t, f)})
    BY <1>4, <2>2, Zenon
  <2> HIDE DEF l
  <2>6. ~meet(u, c)
    BY <1>4, <2>1, <2>3, <2>4, <2>5, Untouched, Zenon
  <2>7. ~meet(c, u)
    BY <2>3, <2>6, MeetIs, Zenon
  <2> QED
    BY <2>6, <2>7, Zenon
<1>8. Tables(levels'[l + 1]) = (T(l + 1) \ B) \cup C
  BY Zenon DEF Moves
<1>9. Apart(Tables(levels'[l + 1]))
  <2> HIDE DEF l
  <2> QED
    BY ONLY <1>3, <1>5, <1>7, <1>8, Zenon DEF Apart
<1>10. ASSUME NEW m \in Lv, m # 0 PROVE Apart(Tables(levels'[m]))
  <2>1. CASE m = l + 1
    BY <1>9, <2>1, Zenon
  <2>2. CASE m = l
    <3>1. PendingTables = {}
      BY <1>10, <2>2, PendingIs, Zenon
    <3>2. Tables(levels'[m]) \subseteq T(m)
      BY <2>2, <3>1, Zenon DEF Moves
    <3>3. Apart(T(m))
      BY <1>10, Zenon DEF DisjointInv
    <3> QED
      BY ONLY <3>2, <3>3, Zenon DEF Apart
  <2>3. CASE m # l /\ m # l + 1
    BY <1>10, <2>3, Zenon DEF Moves, DisjointInv, T
  <2> QED
    BY <2>1, <2>2, <2>3, Zenon
<1> QED
  BY ONLY <1>10, Zenon DEF DisjointInv, T

(* No table that stays in level 0 is older than one that leaves and shares a key with it. *)
Unsplit(l, A) ==
  l = 0 => \A s \in T(0) \ A, t \in A : s.gen < t.gen => DOMAIN s.data \cap DOMAIN t.data = {}

LEMMA RoundTopKey ==
  ASSUME Types, GenInv, DisjointInv, NEW A, NEW f, NEW B, NEW C, NEW data,
         Takes(task.level, A, f, B, data), Makes(C, data), Moves(task.level, A, B, C),
         Unsplit(task.level, A), ~dropped',
         NEW k, NEW v, TopIs(levels, k, v), \A p \in PendingTables : k \notin DOMAIN p.data
  PROVE  TopIs(levels', k, v)
<1> DEFINE l == task.level
           H(m) == Has(T(m), k)
           N(m) == Has(Tables(levels'[m]), k)
<1>1. l \in Lv /\ l + 1 \in Lv /\ l + 1 # 0
  <2>1. l \in 0..(MAX_LEVEL - 2) /\ l \in Lv /\ l + 1 \in Lv
    BY Zenon DEF Takes
  <2> HIDE DEF l
  <2> QED
    BY ONLY <2>1 DEF MAX_LEVEL
<1>2. /\ A \subseteq T(l) /\ B \subseteq T(l + 1)
      /\ DOMAIN data = KeysIn(A) \cup KeysIn(B)
      /\ k \in KeysIn(A) => \E t \in Has(A, k) : data[k] = t.data[k] /\ \A s \in Has(A, k) : s.gen <= t.gen
      /\ k \in KeysIn(B) \ KeysIn(A) => \E t \in Has(B, k) : data[k] = t.data[k]
  BY Zenon DEF Takes
<1>3. /\ Tables(levels'[l]) = (T(l) \ A) \cup PendingTables
      /\ Tables(levels'[l + 1]) = (T(l + 1) \ B) \cup C
      /\ \A m \in Lv : m # l /\ m # l + 1 => levels'[m] = levels[m]
  BY Zenon DEF Moves
<1>4. \A m \in Lv : T(m) \subseteq TableSet
  BY LevelIs, Zenon
<1>5. \A m \in Lv : m # 0 => \A s, t \in H(m) : s = t
  <2> SUFFICES ASSUME NEW m \in Lv, m # 0, NEW s \in H(m), NEW t \in H(m) PROVE s = t
    BY Zenon
  <2>1. T(m) \subseteq TableSet /\ Apart(T(m))
    BY <1>4, Zenon DEF DisjointInv
  <2> QED
    BY <2>1, OneTable, Zenon
<1>6. \A s, t \in H(0) : s.gen <= t.gen /\ t.gen <= s.gen => s = t
  <2> SUFFICES ASSUME NEW s \in H(0), NEW t \in H(0), s.gen <= t.gen, t.gen <= s.gen PROVE s = t
    BY Zenon
  <2>1. 0 \in Lv
    BY DEF Lv, MAX_LEVEL
  <2>2. levels[0] \in Seq(TableSet) /\ Distinct(levels[0]) /\ s \in Tables(levels[0]) /\ t \in Tables(levels[0])
    BY <2>1, LevelIs, Zenon DEF GenInv, Has, T
  <2>3. s \in TableSet /\ t \in TableSet
    BY <1>4, <2>1, Zenon DEF Has
  <2>4. s.gen \in Nat /\ t.gen \in Nat
    BY <2>3, TableIs, Zenon DEF IsTable
  <2>5. s.gen = t.gen
    BY ONLY <2>4, s.gen <= t.gen, t.gen <= s.gen
  <2> QED
    BY <2>2, <2>5, SameGen, Zenon
<1>7. \A S : k \in KeysIn(S) <=> Has(S, k) # {}
  BY Zenon DEF KeysIn, Has
<1>8. \A m \in Lv : m # l /\ m # l + 1 => N(m) = H(m)
  BY <1>3, Zenon DEF T
<1>9. N(l) = H(l) \ A
  <2>1. \A t : t \in N(l) <=> (t \in (T(l) \ A) \cup PendingTables) /\ k \in DOMAIN t.data
    BY <1>3, Zenon DEF Has
  <2>2. \A t : t \in H(l) \ A <=> t \in T(l) \ A /\ k \in DOMAIN t.data
    BY Zenon DEF Has
  <2>3. \A t : t \in N(l) <=> t \in H(l) \ A
    BY ONLY <2>1, <2>2, \A p \in PendingTables : k \notin DOMAIN p.data, Zenon
  <2> HIDE DEF N, H
  <2> QED
    BY ONLY <2>3, SMT
<1>10. \A t : t \in N(l + 1) <=> (t \in H(l + 1) /\ t \notin B) \/ t \in Has(C, k)
  BY <1>3, Zenon DEF Has
<1>11. /\ Has(C, k) # {} => Has(A, k) # {} \/ Has(B, k) # {}
       /\ Has(A, k) # {} \/ Has(B, k) # {} => Has(C, k) # {}
       /\ \A c \in Has(C, k) : c.data[k] = data[k]
  <2>1. /\ \A c \in Has(C, k) : k \in DOMAIN data /\ c.data[k] = data[k]
        /\ k \in DOMAIN data => Has(C, k) # {}
    BY Zenon DEF Makes, Has
  <2> QED
    BY <1>2, <1>7, <2>1, Zenon
<1>12. Has(A, k) \subseteq H(l) /\ Has(B, k) \subseteq H(l + 1)
  BY <1>2, Zenon DEF Has
<1>13. ASSUME H(l) = {} PROVE Has(A, k) = {} /\ N(l) = {}
  BY <1>9, <1>12, <1>13, Zenon
<1>14. ASSUME Has(A, k) = {}, Has(B, k) = {}, H(l + 1) = {} PROVE N(l + 1) = {}
  BY <1>10, <1>11, <1>14, Zenon
<1>15. CASE v = 0 /\ \A m \in Lv : H(m) = {}
  <2>1. H(l) = {} /\ H(l + 1) = {}
    BY <1>1, <1>15, Zenon
  <2>2. N(l) = {} /\ N(l + 1) = {}
    BY <1>12, <1>13, <1>14, <2>1, Zenon
  <2>3. \A m \in Lv : N(m) = {}
    BY <1>8, <1>15, <2>2, Zenon
  <2> QED
    BY <1>15, <2>3, Zenon DEF TopIs
<1>16. ASSUME NEW m \in Lv, NEW t \in H(m), v = t.data[k], \A x \in Lv : x < m => H(x) = {},
              m = 0 => \A s \in H(m) : s.gen <= t.gen
       PROVE  TopIs(levels', k, v)
  <2>1. m \in Int /\ l \in Int /\ Lv \subseteq Int
    <3> HIDE DEF l
    <3> QED
      BY ONLY <1>1, m \in Lv DEF Lv, MAX_LEVEL
  <2>2. SUFFICES \E y \in Lv : \E u \in N(y) :
                   /\ v = u.data[k]
                   /\ \A x \in Lv : x < y => N(x) = {}
                   /\ y = 0 => \A s \in N(y) : s.gen <= u.gen
    BY <2>2, Zenon DEF TopIs
  <2>3. ASSUME m # l, m # l + 1, \A x \in Lv : x < m => N(x) = {}
        PROVE  \E y \in Lv : \E u \in N(y) :
                 /\ v = u.data[k]
                 /\ \A x \in Lv : x < y => N(x) = {}
                 /\ y = 0 => \A s \in N(y) : s.gen <= u.gen
    <3>1. N(m) = H(m)
      BY <1>8, <2>3, Zenon
    <3> HIDE DEF N, H
    <3> QED
      BY <1>16, <2>3, <3>1, Zenon
  <2>9. ASSUME NEW u \in N(l + 1), v = u.data[k], \A x \in Lv : x < l + 1 => N(x) = {}
        PROVE  \E y \in Lv : \E w \in N(y) :
                 /\ v = w.data[k]
                 /\ \A x \in Lv : x < y => N(x) = {}
                 /\ y = 0 => \A s \in N(y) : s.gen <= w.gen
    <3> HIDE DEF N, l
    <3> DEFINE y == l + 1
    <3>1. y \in Lv /\ y # 0 /\ u \in N(y) /\ \A x \in Lv : x < y => N(x) = {}
      BY <1>1, <2>9, Zenon
    <3> HIDE DEF y
    <3> QED
      BY ONLY <2>9, <3>1, Zenon
  <2>4. CASE m < l
    <3>1. m # l /\ m # l + 1 /\ \A x \in Lv : x < m => x # l /\ x # l + 1
      <4> HIDE DEF l
      <4> QED
        BY ONLY <2>1, <2>4
    <3>2. \A x \in Lv : x < m => N(x) = {}
      BY <1>8, <1>16, <3>1, Zenon
    <3> QED
      BY <2>3, <3>1, <3>2, Zenon
  <2>5. CASE m = l
    <3>1. \A x \in Lv : x < l => x # l /\ x # l + 1 /\ x < m
      <4> HIDE DEF l
      <4> QED
        BY ONLY <2>1, <2>5
    <3>2. \A x \in Lv : x < l => N(x) = {}
      BY <1>8, <1>16, <3>1, Zenon
    <3>3. CASE t \notin A
      <4>1. t \in N(l) /\ N(l) \subseteq H(l)
        BY <1>9, <2>5, <3>3, Zenon
      <4> HIDE DEF N, H, l
      <4> QED
        BY <1>1, <1>16, <2>5, <3>2, <4>1, Zenon
    <3>4. CASE t \in A
      <4>1. t \in Has(A, k)
        BY <3>4, Zenon DEF Has
      <4>2. ASSUME NEW s \in H(l), s \notin A PROVE FALSE
        <5>1. CASE l = 0
          <6>1. s.gen <= t.gen /\ s # t /\ s \in H(0) /\ t \in H(0)
            BY <1>16, <2>5, <3>4, <4>2, <5>1, Zenon
          <6>2. ~(t.gen <= s.gen)
            BY <1>6, <6>1, Zenon
          <6>3. s \in TableSet /\ t \in TableSet
            BY <1>1, <1>4, <5>1, <6>1, Zenon DEF Has
          <6>4. s.gen \in Nat /\ t.gen \in Nat
            BY <6>3, TableIs, Zenon DEF IsTable
          <6>5. s.gen < t.gen
            BY ONLY <6>2, <6>4
          <6>6. s \in T(0) \ A /\ k \in DOMAIN s.data \cap DOMAIN t.data
            BY <4>2, <6>1, Zenon DEF Has
          <6> QED
            BY <3>4, <5>1, <6>5, <6>6, Zenon DEF Unsplit
        <5>2. CASE l # 0
          BY <1>1, <1>5, <2>5, <3>4, <4>2, <5>2, Zenon
        <5> QED
          BY <5>1, <5>2, Zenon
      <4>3. N(l) = {}
        BY <1>9, <4>2, Zenon
      <4>4. PICK u \in Has(A, k) : data[k] = u.data[k] /\ \A s \in Has(A, k) : s.gen <= u.gen
        BY <1>2, <1>7, <4>1, Zenon
      <4>5. u = t
        <5>1. u \in H(l) /\ t.gen <= u.gen
          BY <1>12, <4>1, <4>4, Zenon
        <5>2. CASE l = 0
          BY <1>6, <1>16, <2>5, <5>1, <5>2, Zenon
        <5>3. CASE l # 0
          BY <1>1, <1>5, <2>5, <5>1, <5>3, Zenon
        <5> QED
          BY <5>2, <5>3, Zenon
      <4>6. PICK c \in Has(C, k) : TRUE
        BY <1>11, <4>1, Zenon
      <4>7. c \in N(l + 1) /\ v = c.data[k]
        BY <1>10, <1>11, <1>16, <4>4, <4>5, Zenon
      <4>8. \A x \in Lv : x < l + 1 => x < l \/ x = l
        <5> HIDE DEF l
        <5> QED
          BY ONLY <2>1
      <4>9. \A x \in Lv : x < l + 1 => N(x) = {}
        BY <3>2, <4>3, <4>8, Zenon
      <4> HIDE DEF N, l
      <4> QED
        BY ONLY <2>9, <4>7, <4>9, Zenon
    <3> QED
      BY <3>3, <3>4, Zenon
  <2>6. CASE m = l + 1
    <3>1. l < m /\ \A x \in Lv : x < l + 1 => x < m /\ x # l + 1
      <4> HIDE DEF l
      <4> QED
        BY ONLY <2>1, <2>6
    <3>2. H(l) = {}
      BY <1>1, <1>16, <3>1, Zenon
    <3>3. Has(A, k) = {} /\ N(l) = {}
      BY <1>13, <3>2, Zenon
    <3>4. \A x \in Lv : x < l + 1 => N(x) = {}
      BY <1>8, <1>16, <3>1, <3>3, Zenon
    <3>5. CASE t \notin B
      <4>1. t \in N(l + 1)
        BY <1>10, <2>6, <3>5, Zenon
      <4> HIDE DEF N, H, l
      <4> QED
        BY ONLY <1>16, <2>9, <3>4, <4>1, Zenon
    <3>6. CASE t \in B
      <4>1. t \in Has(B, k)
        BY <3>6, Zenon DEF Has
      <4>2. PICK u \in Has(B, k) : data[k] = u.data[k]
        BY <1>2, <1>7, <3>3, <4>1, Zenon
      <4>3. u = t
        BY <1>1, <1>5, <1>12, <2>6, <4>2, Zenon
      <4>4. PICK c \in Has(C, k) : TRUE
        BY <1>11, <4>1, Zenon
      <4>5. c \in N(l + 1) /\ v = c.data[k]
        BY <1>10, <1>11, <1>16, <4>2, <4>3, Zenon
      <4> HIDE DEF N, l
      <4> QED
        BY ONLY <2>9, <3>4, <4>5, Zenon
    <3> QED
      BY <3>5, <3>6, Zenon
  <2>7. CASE l + 1 < m
    <3>1. m # l /\ m # l + 1 /\ l < m
      <4> HIDE DEF l
      <4> QED
        BY ONLY <2>1, <2>7
    <3>2. H(l) = {} /\ H(l + 1) = {}
      BY <1>1, <1>16, <2>7, <3>1, Zenon
    <3>3. N(l) = {} /\ N(l + 1) = {}
      BY <1>12, <1>13, <1>14, <3>2, Zenon
    <3>4. \A x \in Lv : x < m => N(x) = {}
      BY <1>8, <1>16, <3>3, Zenon
    <3> QED
      BY <2>3, <3>1, <3>4, Zenon
  <2>8. m < l \/ m = l \/ m = l + 1 \/ l + 1 < m
    <3> HIDE DEF l
    <3> QED
      BY ONLY <2>1
  <2> QED
    BY <2>4, <2>5, <2>6, <2>7, <2>8, Zenon
<1>17. \/ v = 0 /\ \A m \in Lv : H(m) = {}
       \/ \E m \in Lv : \E t \in H(m) : /\ v = t.data[k]
                                        /\ \A x \in Lv : x < m => H(x) = {}
                                        /\ m = 0 => \A s \in H(m) : s.gen <= t.gen
  BY Zenon DEF TopIs, T
<1> QED
  BY <1>15, <1>16, <1>17, Zenon

LEMMA InstalledIs ==
  ASSUME Types, Installed(task.edits), NEW k \in Keys
  PROVE  \/ \E p \in PendingTables : k \in DOMAIN p.data /\ newest'[k] = p.data[k]
         \/ (\A p \in PendingTables : k \notin DOMAIN p.data) /\ newest'[k] = newest[k]
<1>1. CASE task.edits = <<>>
  <2>1. newest' = newest /\ PendingTables = {}
    BY <1>1, Zenon DEF Installed, PendingTables
  <2> QED
    BY <2>1, Zenon
<1>2. CASE task.edits # <<>>
  <2> DEFINE p == task.edits[1].scopes[1]
  <2>1. newest' = [x \in Keys |-> IF x \in DOMAIN p.data THEN p.data[x] ELSE newest[x]]
    BY <1>2, Zenon DEF Installed
  <2>2. PendingTables = {p}
    BY <1>2, Zenon DEF PendingTables
  <2> HIDE DEF p
  <2>3. newest'[k] = IF k \in DOMAIN p.data THEN p.data[k] ELSE newest[k]
    BY <2>1, Zenon
  <2> QED
    BY <2>2, <2>3, Zenon
<1> QED
  BY <1>1, <1>2, Zenon

(* The table of a minor compaction hides everything that was there before. *)
LEMMA PendingOnTop ==
  ASSUME Types, GenInv, NEW p \in PendingTables, p \in Tables(levels'[0]),
         Tables(levels'[0]) \subseteq T(0) \cup PendingTables, NEW k \in DOMAIN p.data
  PROVE  TopIs(levels', k, p.data[k])
<1>1. p.gen \in Nat
  BY PendingIs, Zenon
<1>2. ASSUME NEW s \in Has(Tables(levels'[0]), k) PROVE s.gen <= p.gen
  <2>1. CASE s \in T(0)
    <3>1. s.gen < p.gen
      BY <2>1, Zenon DEF GenInv
    <3>2. 0 \in Lv
      BY DEF Lv, MAX_LEVEL
    <3>3. s \in TableSet
      BY <2>1, <3>2, LevelIs, Zenon
    <3>4. s.gen \in Nat
      BY <3>3, TableIs, Zenon DEF IsTable
    <3> QED
      BY ONLY <1>1, <3>1, <3>4
  <2>2. CASE s \in PendingTables
    <3>1. s = p
      BY <2>2, Zenon DEF PendingTables
    <3> QED
      BY ONLY <1>1, <3>1
  <2> QED
    BY <2>1, <2>2, Zenon DEF Has
<1>3. p \in Has(Tables(levels'[0]), k)
  BY Zenon DEF Has
<1>4. 0 \in Lv /\ \A m \in Lv : ~(m < 0)
  BY DEF Lv, MAX_LEVEL
<1> QED
  BY <1>2, <1>3, <1>4, Zenon DEF TopIs

LEMMA UnsplitIs ==
  ASSUME Types, GenInv, ~Splits(levels[0], met_scopes(levels[0], task.scope)),
         NEW A, A = Tables(met_scopes(levels[0], task.scope)), A \subseteq T(0),
         NEW s \in T(0) \ A, NEW t \in A, s.gen < t.gen
  PROVE  DOMAIN s.data \cap DOMAIN t.data = {}
<1> DEFINE slice == levels[0]
<1>1. 0 \in Lv
  BY DEF Lv, MAX_LEVEL
<1>2. slice \in Seq(TableSet) /\ T(0) \subseteq TableSet /\ Distinct(slice) /\ Rising(slice)
  BY <1>1, LevelIs, Zenon DEF GenInv
<1>3. PICK i \in DOMAIN slice, j \in DOMAIN slice : s = slice[i] /\ t = slice[j]
  BY Zenon DEF T, Tables
<1>4. GensOf(met_scopes(levels[0], task.scope)) = {u.gen : u \in A}
  BY Zenon DEF GensOf
<1>5. t.gen \in {u.gen : u \in A}
  BY Zenon
<1>6. s.gen \notin {u.gen : u \in A}
  <2>1. ASSUME NEW u \in A, s.gen = u.gen PROVE FALSE
    <3>1. s \in Tables(slice) /\ u \in Tables(slice)
      BY Zenon DEF T
    <3>2. s = u
      BY <1>2, <2>1, <3>1, SameGen, Zenon
    <3> QED
      BY <3>2, Zenon
  <2> QED
    BY <2>1, Zenon
<1>7. i < j
  <2>1. s.gen \in Nat /\ t.gen \in Nat
    BY <1>2, TableIs, Zenon DEF IsTable
  <2>2. DOMAIN slice \in SUBSET Int
    BY <1>2, FiniteIndices, Zenon
  <2>3. j < i => t.gen < s.gen
    BY <1>2, <1>3, Zenon DEF Rising
  <2>4. i = j => s = t
    BY <1>3, Zenon
  <2>5. i \in Int /\ j \in Int
    BY <2>2, Zenon
  <2> QED
    BY ONLY <2>1, <2>3, <2>4, <2>5, s.gen < t.gen
<1> QED
  BY <1>3, <1>4, <1>5, <1>6, <1>7, Zenon DEF Splits

LEMMA RoundTop ==
  ASSUME LsmInv, MajorRound, NEW A, NEW f, NEW B, NEW C, NEW data,
         Takes(task.level, A, f, B, data), Makes(C, data), Moves(task.level, A, B, C),
         A = Tables(met_scopes(levels[task.level], task.scope))
  PROVE  TopInv'
<1>1. Types /\ GenInv /\ DisjointInv /\ TopInv
  BY Zenon DEF LsmInv
<1>2. SUFFICES ASSUME ~split', ~dropped', NEW k \in Keys PROVE TopIs(levels', k, newest'[k])
  BY Zenon DEF TopInv
<1>3. split' = (split \/ (task.level = 0 /\ Splits(levels[0], met_scopes(levels[task.level], task.scope))))
  BY Zenon DEF MajorRound
<1>10. ~dropped
  <2>1. PICK n : dropped' = (dropped \/ n = 0)
    BY Zenon DEF MajorRound
  <2> QED
    BY <1>2, <2>1, Zenon
<1>4. ~split /\ (task.level = 0 => ~Splits(levels[0], met_scopes(levels[0], task.scope)))
  BY <1>2, <1>3, Zenon
<1>5. Unsplit(task.level, A)
  <2> SUFFICES ASSUME task.level = 0, NEW s \in T(0) \ A, NEW t \in A, s.gen < t.gen
               PROVE  DOMAIN s.data \cap DOMAIN t.data = {}
    BY Zenon DEF Unsplit
  <2>1. A = Tables(met_scopes(levels[0], task.scope)) /\ A \subseteq T(0)
    BY Zenon DEF Takes
  <2> QED
    BY <1>1, <1>4, <2>1, UnsplitIs, Zenon
<1>6. TopIs(levels, k, newest[k])
  BY <1>1, <1>4, <1>10, Zenon DEF TopInv
<1>7. Installed(task.edits)
  BY Zenon DEF MajorRound
<1>8. CASE \E p \in PendingTables : k \in DOMAIN p.data /\ newest'[k] = p.data[k]
  <2>1. PICK p \in PendingTables : k \in DOMAIN p.data /\ newest'[k] = p.data[k]
    BY <1>8, Zenon
  <2>2. task.level = 0
    BY <1>1, PendingIs, Zenon
  <2>3. Tables(levels'[0]) = (T(0) \ A) \cup PendingTables
    BY <2>2, Zenon DEF Moves
  <2>4. p \in Tables(levels'[0]) /\ Tables(levels'[0]) \subseteq T(0) \cup PendingTables
    BY <2>3, Zenon
  <2>5. TopIs(levels', k, p.data[k])
    BY <1>1, <2>1, <2>4, PendingOnTop, Zenon
  <2> QED
    BY <2>1, <2>5, Zenon
<1>9. CASE (\A p \in PendingTables : k \notin DOMAIN p.data) /\ newest'[k] = newest[k]
  <2>1. TopIs(levels', k, newest[k])
    BY <1>1, <1>2, <1>5, <1>6, <1>9, RoundTopKey, Zenon
  <2> QED
    BY <1>9, <2>1, Zenon
<1> QED
  BY <1>1, <1>7, <1>8, <1>9, InstalledIs, Zenon
-----------------------------------------------------------------------------
(***************************************************************************)
(* The steps.                                                              *)
(***************************************************************************)
LEMMA NoPending ==
  ASSUME task.edits = <<>>
  PROVE  PendingTables = {}
BY Zenon DEF PendingTables

LEMMA RoundTask ==
  ASSUME Types, MajorRound, task.level \in 0..(MAX_LEVEL - 2)
  PROVE  /\ task' \in [level : 0..MAX_LEVEL, scope : [start : Int, end : Int], edits : Pending, skip : BOOLEAN]
         /\ task'.edits = <<>>
<1>1. task \in [level : 0..MAX_LEVEL, scope : [start : Int, end : Int], edits : Pending, skip : BOOLEAN]
  BY Zenon DEF Types
<1>2. task' = [task EXCEPT !.level = task.level + 1, !.edits = <<>>, !.skip = FALSE]
  BY Zenon DEF MajorRound
<1>3. <<>> \in Pending
  BY Zenon DEF Pending
<1>4. task.level + 1 \in 0..MAX_LEVEL
  BY ONLY task.level \in 0..(MAX_LEVEL - 2) DEF MAX_LEVEL
<1> QED
  BY ONLY <1>1, <1>2, <1>3, <1>4, Zenon

LEMMA RoundKeeps ==
  ASSUME LsmInv, MajorRound
  PROVE  LsmInv'
<1>1. Types /\ GenInv /\ DisjointInv /\ TopInv
  BY Zenon DEF LsmInv
<1>2. PICK A, f, B, C, data :
        /\ Takes(task.level, A, f, B, data) /\ Makes(C, data) /\ Moves(task.level, A, B, C)
        /\ A = Tables(met_scopes(levels[task.level], task.scope))
  BY <1>1, RoundStep, Zenon
<1>3. task.level \in 0..(MAX_LEVEL - 2)
  BY <1>2, Zenon DEF Takes
<1>4. /\ task' \in [level : 0..MAX_LEVEL, scope : [start : Int, end : Int], edits : Pending, skip : BOOLEAN]
      /\ task'.edits = <<>>
  BY <1>1, <1>3, RoundTask, Zenon
<1>5. PendingTables' = {}
  BY <1>4, Zenon DEF PendingTables
<1>6. wal_gen' = wal_gen
  BY Zenon DEF MajorRound
<1>7. levels' \in Slices /\ gen' \in Nat /\ gen <= gen'
  BY <1>2, Zenon DEF Moves
<1>8. gen \in Nat /\ wal_gen \in Nat \ {0} /\ wal_gen < gen
  BY <1>1, Zenon DEF Types
<1>9. gen' \in Nat /\ wal_gen' \in Nat \ {0} /\ wal_gen' < gen'
  BY ONLY <1>6, <1>7, <1>8
<1>10. Types'
  BY <1>4, <1>7, <1>9, Zenon DEF Types
<1>11. GenInv'
  BY <1>1, <1>2, <1>5, <1>6, RoundGen, Zenon
<1>12. DisjointInv'
  BY <1>1, <1>2, RoundDisjoint, Zenon
<1>13. TopInv'
  BY <1>2, RoundTop, Zenon
<1> QED
  BY <1>10, <1>11, <1>12, <1>13, Zenon DEF LsmInv

LEMMA IdleIs ==
  ASSUME task' = Idle
  PROVE  /\ task' \in [level : 0..MAX_LEVEL, scope : [start : Int, end : Int], edits : Pending, skip : BOOLEAN]
         /\ task'.edits = <<>> /\ PendingTables' = {}
<1>1. <<>> \in Pending
  BY Zenon DEF Pending
<1>2. /\ Idle \in [level : 0..MAX_LEVEL, scope : [start : Int, end : Int], edits : Pending, skip : BOOLEAN]
      /\ Idle.edits = <<>>
  BY <1>1 DEF Idle, MAX_LEVEL
<1> QED
  BY <1>2, Zenon DEF PendingTables

LEMMA OverKeeps ==
  ASSUME LsmInv, MajorOver
  PROVE  LsmInv'
<1>1. Types /\ GenInv /\ DisjointInv /\ TopInv
  BY Zenon DEF LsmInv
<1> DEFINE q == Pushed(levels[0], task.edits)
<1>2. 0 \in Lv
  BY DEF Lv, MAX_LEVEL
<1>3. q \in Seq(TableSet) /\ Tables(q) = T(0) \cup PendingTables /\ Distinct(q) /\ Rising(q)
  BY <1>1, <1>2, PushedIs, Zenon
<1>4. levels \in Slices /\ task.edits \in Pending
  BY <1>1 DEF Types
<1>5. levels' = apply(levels, task.edits) /\ Installed(task.edits) /\ task' = Idle
  BY Zenon DEF MajorOver
<1>6. gen' = gen /\ wal_gen' = wal_gen /\ split' = split /\ dropped' = dropped
  BY Zenon DEF MajorOver
<1>7. SetAt(levels', levels, 0, q)
  BY <1>3, <1>4, <1>5, PushPending, Zenon
<1> HIDE DEF q
<1>8. levels' \in Slices /\ levels'[0] = q /\ \A m \in Lv : m # 0 => levels'[m] = levels[m]
  BY <1>7, Zenon DEF SetAt
<1>9. /\ task' \in [level : 0..MAX_LEVEL, scope : [start : Int, end : Int], edits : Pending, skip : BOOLEAN]
      /\ task'.edits = <<>> /\ PendingTables' = {}
  BY <1>5, IdleIs, Zenon
<1>10. Types'
  BY <1>1, <1>6, <1>8, <1>9, Zenon DEF Types
<1>11. Tables(levels'[0]) = T(0) \cup PendingTables
  BY <1>3, <1>8, Zenon
<1>12. \A p \in PendingTables : p.gen < gen /\ p.gen # wal_gen
  <2> SUFFICES ASSUME NEW p \in PendingTables PROVE p.gen < gen /\ p.gen # wal_gen
    BY Zenon
  <2>1. p.gen < wal_gen
    BY <1>1, Zenon DEF GenInv
  <2>2. p.gen \in Nat
    BY <1>1, PendingIs, Zenon
  <2>3. gen \in Nat /\ wal_gen \in Nat /\ wal_gen < gen
    BY <1>1 DEF Types
  <2> QED
    BY ONLY <2>1, <2>2, <2>3
<1>13. GenInv'
  <2>1. \A m \in Lv : Distinct(levels'[m])
    BY <1>1, <1>3, <1>8, Zenon DEF GenInv
  <2>2. \A m \in Lv : \A t \in Tables(levels'[m]) : t.gen < gen /\ t.gen # wal_gen
    BY <1>1, <1>8, <1>11, <1>12, Zenon DEF GenInv, T
  <2>3. ASSUME NEW a \in Lv, NEW b \in Lv, a # b, NEW s \in Tables(levels'[a]), NEW t \in Tables(levels'[b])
        PROVE  s.gen # t.gen
    <3>1. s \in T(a) \/ (a = 0 /\ s \in PendingTables)
      BY <1>8, <1>11, Zenon DEF T
    <3>2. t \in T(b) \/ (b = 0 /\ t \in PendingTables)
      BY <1>8, <1>11, Zenon DEF T
    <3> QED
      BY <1>1, <2>3, <3>1, <3>2, Zenon DEF GenInv
  <2>4. Rising(levels'[0]) /\ \A t \in Tables(levels'[0]) : t.gen < wal_gen
    BY <1>1, <1>3, <1>8, <1>11, Zenon DEF GenInv
  <2>5. \A p \in PendingTables' : FALSE
    BY <1>9, Zenon
  <2> QED
    BY ONLY <1>6, <2>1, <2>2, <2>3, <2>4, <2>5, Zenon DEF GenInv, T
<1>14. DisjointInv'
  BY <1>1, <1>8, Zenon DEF DisjointInv, T
<1>15. ASSUME ~split, ~dropped, NEW k \in Keys PROVE TopIs(levels', k, newest'[k])
  <2>1. CASE \E p \in PendingTables : k \in DOMAIN p.data /\ newest'[k] = p.data[k]
    <3>1. PICK p \in PendingTables : k \in DOMAIN p.data /\ newest'[k] = p.data[k]
      BY <2>1, Zenon
    <3>2. p \in Tables(levels'[0]) /\ Tables(levels'[0]) \subseteq T(0) \cup PendingTables
      BY <1>11, Zenon
    <3>3. TopIs(levels', k, p.data[k])
      BY <1>1, <3>1, <3>2, PendingOnTop, Zenon
    <3> QED
      BY <3>1, <3>3, Zenon
  <2>2. CASE (\A p \in PendingTables : k \notin DOMAIN p.data) /\ newest'[k] = newest[k]
    <3>1. TopIs(levels, k, newest[k])
      BY <1>1, <1>15, Zenon DEF TopInv
    <3>2. Has(Tables(levels'[0]), k) = Has(Tables(levels[0]), k)
      BY <1>11, <2>2, Zenon DEF Has, T
    <3>3. \A m \in Lv : Has(Tables(levels'[m]), k) = Has(Tables(levels[m]), k)
      BY <1>8, <3>2, Zenon
    <3> QED
      BY <2>2, <3>1, <3>3, Zenon DEF TopIs
  <2> QED
    BY <1>1, <1>5, <2>1, <2>2, InstalledIs, Zenon
<1>16. TopInv'
  BY <1>6, <1>15, Zenon DEF TopInv
<1> QED
  BY <1>10, <1>13, <1>14, <1>16, Zenon DEF LsmInv

LEMMA SameLevels ==
  ASSUME DisjointInv, TopInv, UNCHANGED <<levels, newest, split, dropped>>
  PROVE  DisjointInv' /\ TopInv'
<1>1. levels' = levels /\ newest' = newest /\ split' = split /\ dropped' = dropped
  BY Zenon
<1>2. DisjointInv'
  BY <1>1, Zenon DEF DisjointInv, T
<1>3. TopInv'
  <2> SUFFICES ASSUME ~split', ~dropped', NEW k \in Keys PROVE TopIs(levels', k, newest'[k])
    BY Zenon DEF TopInv
  <2>1. ~split /\ ~dropped
    BY <1>1
  <2>2. TopIs(levels, k, newest[k])
    BY <2>1, Zenon DEF TopInv
  <2> QED
    BY <1>1, <2>2, Zenon
<1> QED
  BY <1>2, <1>3, Zenon

LEMMA DroppedKeeps ==
  ASSUME LsmInv, PendingTables' = {}, UNCHANGED <<levels, gen, wal_gen, newest, split, dropped>>,
         task' \in [level : 0..MAX_LEVEL, scope : [start : Int, end : Int], edits : Pending, skip : BOOLEAN],
         task'.edits = <<>>
  PROVE  LsmInv'
<1>1. Types /\ GenInv /\ DisjointInv /\ TopInv
  BY Zenon DEF LsmInv
<1>2. /\ levels' = levels /\ newest' = newest /\ split' = split /\ dropped' = dropped
      /\ gen' = gen /\ wal_gen' = wal_gen
  BY Zenon
<1>3. DisjointInv' /\ TopInv'
  BY <1>1, <1>2, SameLevels, Zenon
<1>4. Types'
  BY <1>1, <1>2, Zenon DEF Types
<1>5. GenInv'
  BY <1>1, <1>2, Zenon DEF GenInv, T
<1> QED
  BY <1>3, <1>4, <1>5, Zenon DEF LsmInv

LEMMA SeekKeeps ==
  ASSUME LsmInv, NEW level \in 0..(MAX_LEVEL - 1), NEW min \in Keys, NEW max \in Keys,
         SeekTask(level, min, max)
  PROVE  LsmInv'
<1>1. task' = [level |-> level, scope |-> [start |-> min, end |-> max], edits |-> <<>>, skip |-> TRUE]
  BY Zenon DEF SeekTask
<1>2. <<>> \in Pending
  BY Zenon DEF Pending
<1>3. min \in Int /\ max \in Int
  BY LsmConstants, Zenon
<1>4. level \in 0..MAX_LEVEL
  BY ONLY level \in 0..(MAX_LEVEL - 1) DEF MAX_LEVEL
<1>5. /\ task' \in [level : 0..MAX_LEVEL, scope : [start : Int, end : Int], edits : Pending, skip : BOOLEAN]
      /\ task'.edits = <<>>
  BY ONLY <1>1, <1>2, <1>3, <1>4
<1>6. PendingTables' = {}
  BY <1>5, Zenon DEF PendingTables
<1>7. UNCHANGED <<levels, gen, wal_gen, newest, split, dropped>>
  BY Zenon DEF SeekTask
<1> QED
  BY <1>5, <1>6, <1>7, DroppedKeeps, Zenon

LEMMA FailKeeps ==
  ASSUME LsmInv, MajorFails
  PROVE  LsmInv'
<1>1. task' = Idle /\ UNCHANGED <<levels, gen, wal_gen, newest, split, dropped>>
  BY Zenon DEF MajorFails
<1> QED
  BY <1>1, IdleIs, DroppedKeeps, Zenon

LEMMA MinorKeeps ==
  ASSUME LsmInv, NEW K \in (SUBSET Keys) \ {{}}, minor_compaction(K)
  PROVE  LsmInv'
<1> DEFINE data == [k \in K |-> wal_gen]
           t == create(wal_gen, data)
<1>1. Types /\ GenInv /\ DisjointInv /\ TopInv
  BY Zenon DEF LsmInv
<1>2. gen \in Nat /\ wal_gen \in Nat \ {0} /\ wal_gen < gen /\ levels \in Slices
  BY <1>1, Zenon DEF Types
<1>3. t \in TableSet /\ t.gen = wal_gen
  <2>1. data \in Data
    <3>1. data \in [K -> Nat \ {0}]
      BY <1>2, Zenon
    <3> QED
      BY <3>1, Zenon DEF Data
  <2> HIDE DEF data
  <2>2. wal_gen \in Nat
    BY <1>2
  <2> QED
    BY <2>1, <2>2, CreateIs, CreateTable, Zenon
<1>4. task' = [level |-> 0, scope |-> [start |-> t.start, end |-> t.end],
               edits |-> <<NewFile(<<t>>, 0, 0)>>, skip |-> FALSE]
  BY Zenon DEF minor_compaction
<1>5. /\ wal_gen' = gen /\ gen' = gen + 1
      /\ levels' = levels /\ newest' = newest /\ split' = split /\ dropped' = dropped
  BY Zenon DEF minor_compaction
<1> HIDE DEF t
<1>6. DisjointInv' /\ TopInv'
  BY <1>1, <1>5, SameLevels, Zenon
<1>7. t.start \in Int /\ t.end \in Int
  BY <1>3, TableInterval, Zenon DEF Interval
<1>8. <<NewFile(<<t>>, 0, 0)>> \in Pending
  BY <1>3, Zenon DEF Pending
<1>9. /\ task' \in [level : 0..MAX_LEVEL, scope : [start : Int, end : Int], edits : Pending, skip : BOOLEAN]
      /\ task'.level = 0 /\ task'.edits = <<NewFile(<<t>>, 0, 0)>>
  <2> DEFINE es == <<NewFile(<<t>>, 0, 0)>>
  <2>1. es \in Pending /\ task' = [level |-> 0, scope |-> [start |-> t.start, end |-> t.end],
                                   edits |-> es, skip |-> FALSE]
    BY <1>4, <1>8, Zenon
  <2> HIDE DEF es
  <2>2. 0 \in 0..MAX_LEVEL
    BY DEF MAX_LEVEL
  <2>3. /\ task' \in [level : 0..MAX_LEVEL, scope : [start : Int, end : Int], edits : Pending, skip : BOOLEAN]
        /\ task'.level = 0 /\ task'.edits = es
    BY ONLY <1>7, <2>1, <2>2
  <2> QED
    BY <2>3, Zenon DEF es
<1>10. gen' \in Nat /\ wal_gen' \in Nat \ {0} /\ wal_gen' < gen'
  BY ONLY <1>2, <1>5
<1>11. Types'
  BY <1>2, <1>5, <1>9, <1>10, Zenon DEF Types
<1>12. \A p \in PendingTables' : p = t
  <2>1. <<NewFile(<<t>>, 0, 0)>>[1].scopes[1] = t
    BY DEF NewFile
  <2> QED
    BY <1>9, <2>1, Zenon DEF PendingTables
<1>13. GenInv'
  <2>1. \A l \in Lv : \A s \in T(l) : s.gen < gen' /\ s.gen # wal_gen'
    <3> SUFFICES ASSUME NEW l \in Lv, NEW s \in T(l) PROVE s.gen < gen' /\ s.gen # wal_gen'
      BY Zenon
    <3>1. s \in TableSet
      BY <1>1, LevelIs, Zenon
    <3>2. s.gen \in Nat
      BY <3>1, TableIs, Zenon DEF IsTable
    <3>3. s.gen < gen
      BY <1>1, Zenon DEF GenInv
    <3> QED
      BY ONLY <1>2, <1>5, <3>2, <3>3
  <2>2. \A s \in T(0) : s.gen < wal_gen'
    <3> SUFFICES ASSUME NEW s \in T(0) PROVE s.gen < wal_gen'
      BY Zenon
    <3>1. 0 \in Lv
      BY DEF Lv, MAX_LEVEL
    <3>2. s.gen < gen
      BY <1>1, <3>1, Zenon DEF GenInv
    <3> QED
      BY <1>5, <3>2, Zenon
  <2>3. t.gen < wal_gen' /\ \A s \in T(0) : s.gen < t.gen
    BY <1>1, <1>2, <1>3, <1>5, Zenon DEF GenInv
  <2>4. \A l \in Lv : \A s \in T(l) : s.gen # t.gen
    BY <1>1, <1>3, Zenon DEF GenInv
  <2>5. \A l \in Lv : Distinct(levels[l])
    BY <1>1, Zenon DEF GenInv
  <2>6. \A l, m \in Lv : l # m => \A s \in T(l), u \in T(m) : s.gen # u.gen
    BY <1>1, Zenon DEF GenInv
  <2>7. Rising(levels[0])
    BY <1>1, Zenon DEF GenInv
  <2> QED
    BY ONLY <1>5, <1>12, <2>1, <2>2, <2>3, <2>4, <2>5, <2>6, <2>7, Zenon DEF GenInv, T
<1> QED
  BY <1>6, <1>11, <1>13, Zenon DEF LsmInv

LEMMA InitHolds ==
  ASSUME Init
  PROVE  LsmInv
<1>1. levels = [l \in Lv |-> <<>>]
  BY Zenon DEF Init, level_slice_new, Lv
<1>2. levels \in Slices /\ \A l \in Lv : levels[l] = <<>>
  BY <1>1 DEF Slices
<1>3. \A l \in Lv : T(l) = {} /\ DOMAIN levels[l] = {}
  BY <1>2 DEF T, Tables
<1>4. /\ task \in [level : 0..MAX_LEVEL, scope : [start : Int, end : Int], edits : Pending, skip : BOOLEAN]
      /\ task.edits = <<>>
  <2>1. <<>> \in Pending
    BY Zenon DEF Pending
  <2>2. task = Idle
    BY Zenon DEF Init
  <2> QED
    BY <2>1, <2>2 DEF Idle, MAX_LEVEL
<1>5. PendingTables = {}
  BY <1>4, NoPending, Zenon
<1>6. gen = 2 /\ wal_gen = 1 /\ newest = [k \in Keys |-> 0]
  BY Zenon DEF Init
<1>7. Types
  BY <1>2, <1>4, <1>6 DEF Types
<1>8. 0 \in Lv
  BY DEF Lv, MAX_LEVEL
<1>9. GenInv
  BY <1>3, <1>5, <1>8, Zenon DEF GenInv, Distinct, Rising
<1>10. DisjointInv
  BY <1>3, Zenon DEF DisjointInv, Apart
<1>11. TopInv
  BY <1>3, <1>6, Zenon DEF TopInv, TopIs, Has, T
<1> QED
  BY <1>7, <1>9, <1>10, <1>11, Zenon DEF LsmInv

(***************************************************************************)
(* The compactor keeps its inductive invariant: gens are given out once,   *)
(* level 0 is in the order of its gens and a minor compaction that waits   *)
(* is younger, the tables of a lower level do not meet, and while split    *)
(* and dropped are FALSE the newest value of a key is in the uppermost     *)
(* table that has it.                                                      *)
(***************************************************************************)
THEOREM LsmInvariant == Spec => []LsmInv
<1>1. Init => LsmInv
  BY InitHolds, Zenon
<1>2. LsmInv /\ [Next]_vars => LsmInv'
  <2> SUFFICES ASSUME LsmInv, [Next]_vars PROVE LsmInv'
    BY Zenon
  <2>1. CASE \E K \in (SUBSET Keys) \ {{}} : minor_compaction(K)
    BY <2>1, MinorKeeps, Zenon
  <2>2. CASE \E level \in 0..(MAX_LEVEL - 1), min, max \in Keys : SeekTask(level, min, max)
    BY <2>2, SeekKeeps, Zenon
  <2>3. CASE MajorRound
    BY <2>3, RoundKeeps, Zenon
  <2>4. CASE MajorOver
    BY <2>4, OverKeeps, Zenon
  <2>5. CASE MajorFails
    BY <2>5, FailKeeps, Zenon
  <2>6. CASE UNCHANGED vars
    <3>1. UNCHANGED <<levels, gen, wal_gen, newest, split, dropped, task>>
      BY <2>6, Zenon DEF vars
    <3> QED
      BY <3>1, Zenon DEF LsmInv, Types, GenInv, DisjointInv, TopInv, T, PendingTables
  <2> QED
    BY <2>1, <2>2, <2>3, <2>4, <2>5, <2>6, Zenon DEF Next
<1> QED
  BY <1>1, <1>2, PTL DEF Spec

LEMMA IntIndices ==
  ASSUME Types, NEW l \in Lv, NEW i \in DOMAIN levels[l]
  PROVE  i \in Int
<1>1. levels[l] \in Seq(TableSet)
  BY LevelIs, Zenon
<1> QED
  BY <1>1

(***************************************************************************)
(* No table is ever listed twice, in one level or in two.                  *)
(***************************************************************************)
THEOREM TablesListedOnce == Spec => []NoTableTwice
<1>1. LsmInv => NoTableTwice
  <2> SUFFICES ASSUME LsmInv, NEW l \in DOMAIN levels, NEW m \in DOMAIN levels,
                      NEW i \in DOMAIN levels[l], NEW j \in DOMAIN levels[m],
                      levels[l][i].gen = levels[m][j].gen
               PROVE  l = m /\ i = j
    BY Zenon DEF NoTableTwice
  <2>1. Types /\ GenInv
    BY Zenon DEF LsmInv
  <2>2. l \in Lv /\ m \in Lv
    BY <2>1, Zenon DEF Types, Slices
  <2>3. l = m
    <3>1. levels[l][i] \in T(l) /\ levels[m][j] \in T(m)
      BY Zenon DEF T, Tables
    <3> QED
      BY <2>1, <2>2, <3>1, Zenon DEF GenInv
  <2>5. j \in DOMAIN levels[l]
    BY <2>3, Zenon
  <2>6. i \in Int /\ j \in Int
    BY <2>1, <2>2, IntIndices, Zenon
  <2>7. ~(i < j) /\ ~(j < i)
    BY <2>1, <2>2, <2>3, <2>5, Zenon DEF GenInv, Distinct
  <2>8. i = j
    BY ONLY <2>6, <2>7
  <2> QED
    BY <2>3, <2>8, Zenon
<1> QED
  BY <1>1, LsmInvariant, PTL

(***************************************************************************)
(* Below level 0 the tables of a level never overlap, whatever ranges are  *)
(* compacted and wherever a compaction fails.                              *)
(***************************************************************************)
THEOREM LowerLevelsDisjoint == Spec => []LevelsDisjoint
<1>1. LsmInv => LevelsDisjoint
  <2> SUFFICES ASSUME LsmInv, NEW l \in 1..(MAX_LEVEL - 1),
                      NEW i \in DOMAIN levels[l], NEW j \in DOMAIN levels[l], i # j
               PROVE  ~meet(levels[l][i], levels[l][j])
    BY Zenon DEF LevelsDisjoint
  <2>1. Types /\ GenInv /\ DisjointInv
    BY Zenon DEF LsmInv
  <2>2. l \in Lv /\ l # 0
    BY ONLY l \in 1..(MAX_LEVEL - 1) DEF Lv, MAX_LEVEL
  <2>3. i \in Int /\ j \in Int
    BY <2>1, <2>2, IntIndices, Zenon
  <2>4. i < j \/ j < i
    BY ONLY <2>3, i # j
  <2>5. levels[l][i].gen # levels[l][j].gen
    BY <2>1, <2>2, <2>4, Zenon DEF GenInv, Distinct
  <2>6. levels[l][i] \in T(l) /\ levels[l][j] \in T(l) /\ levels[l][i] # levels[l][j]
    BY <2>5, Zenon DEF T, Tables
  <2> QED
    BY <2>1, <2>2, <2>6, Zenon DEF DisjointInv, Apart
<1> QED
  BY <1>1, LsmInvariant, PTL

(* The last table of level 0 that has k is the youngest. *)
LEMMA LastYoungest ==
  ASSUME LsmInv, NEW k, NEW t \in Has(T(0), k), \A s \in Has(T(0), k) : s.gen <= t.gen
  PROVE  Max(Indices(levels[0], k)) \in DOMAIN levels[0] /\ levels[0][Max(Indices(levels[0], k))] = t
<1> DEFINE I == Indices(levels[0], k)
<1>1. 0 \in Lv
  BY DEF Lv, MAX_LEVEL
<1>2. levels[0] \in Seq(TableSet) /\ Rising(levels[0])
  BY <1>1, LevelIs, Zenon DEF LsmInv, GenInv
<1>3. I \in SUBSET DOMAIN levels[0]
  BY Zenon DEF Indices
<1>4. PICK j \in I : t = levels[0][j]
  BY HasIndex, Zenon DEF T
<1>5. \A i \in I : levels[0][i] \in Has(T(0), k)
  BY HasIndex, Zenon DEF T
<1> HIDE DEF I
<1>6. I \in SUBSET Int /\ IsFiniteSet(I)
  BY <1>2, <1>3, FiniteIndices, Zenon
<1>7. Max(I) \in I /\ j <= Max(I)
  BY <1>4, <1>6, FiniteMax, Zenon
<1>8. levels[0][Max(I)].gen <= t.gen
  BY <1>5, <1>7, Zenon
<1>9. levels[0][Max(I)] \in TableSet /\ t \in TableSet
  BY <1>2, <1>3, <1>4, <1>7
<1>10. levels[0][Max(I)].gen \in Nat /\ t.gen \in Nat
  BY <1>9, TableIs, Zenon DEF IsTable
<1>11. ~(j < Max(I))
  <2>1. j < Max(I) => t.gen < levels[0][Max(I)].gen
    BY <1>2, <1>3, <1>4, <1>7, Zenon DEF Rising
  <2> QED
    BY ONLY <1>8, <1>10, <2>1
<1>12. j = Max(I)
  <2>1. j \in Int /\ Max(I) \in Int
    BY <1>6, <1>7, Zenon
  <2> QED
    BY ONLY <1>7, <1>11, <2>1
<1> QED
  BY <1>3, <1>4, <1>7, <1>12, Zenon DEF I

LEMMA TopOf ==
  ASSUME LsmInv, NEW k, NEW v, TopIs(levels, k, v)
  PROVE  Top(k) = v
<1> DEFINE L == {l \in DOMAIN levels : Indices(levels[l], k) # {}}
<1>1. Top(k) = IF L = {} THEN 0 ELSE levels[Min(L)][Max(Indices(levels[Min(L)], k))].data[k]
  BY Zenon DEF Top, Indices
<1>2. DOMAIN levels = Lv
  BY Zenon DEF LsmInv, Types, Slices
<1>3. \A l \in Lv : l \in L <=> Has(T(l), k) # {}
  BY <1>2, HasIndex, Zenon DEF T
<1>4. L \in SUBSET Lv
  BY <1>2, Zenon
<1> HIDE DEF L
<1>5. CASE v = 0 /\ \A l \in Lv : Has(Tables(levels[l]), k) = {}
  <2>1. L = {}
    BY <1>3, <1>4, <1>5, Zenon DEF T
  <2> QED
    BY <1>1, <1>5, <2>1, Zenon
<1>6. ASSUME NEW l \in Lv, NEW t \in Has(Tables(levels[l]), k), v = t.data[k],
             \A m \in Lv : m < l => Has(Tables(levels[m]), k) = {},
             l = 0 => \A s \in Has(Tables(levels[l]), k) : s.gen <= t.gen
      PROVE  Top(k) = v
  <2>1. l \in L
    BY <1>3, Zenon DEF T
  <2>2. Lv \in SUBSET Int /\ IsFiniteSet(Lv)
    <3>1. 0 \in Int /\ MAX_LEVEL - 1 \in Int
      BY DEF MAX_LEVEL
    <3>2. IsFiniteSet(Lv)
      BY <3>1, FS_Interval, Zenon DEF Lv
    <3>3. Lv \in SUBSET Int
      BY DEF Lv, MAX_LEVEL
    <3> QED
      BY <3>2, <3>3, Zenon
  <2>3. IsFiniteSet(L)
    BY <1>4, <2>2, FS_Subset, Zenon
  <2>4. L \in SUBSET Int
    BY <1>4, <2>2, Zenon
  <2>5. Min(L) \in L /\ Min(L) <= l
    BY <2>1, <2>3, <2>4, FiniteMin, Zenon
  <2>6. ~(Min(L) < l)
    BY <1>3, <1>4, <1>6, <2>5, Zenon DEF T
  <2>7. Min(L) = l
    <3>1. Min(L) \in Int /\ l \in Int
      BY <2>1, <2>4, <2>5, Zenon
    <3> QED
      BY ONLY <2>5, <2>6, <3>1
  <2>8. Top(k) = levels[l][Max(Indices(levels[l], k))].data[k]
    BY <1>1, <2>1, <2>7, Zenon
  <2>9. CASE l = 0
    <3>1. t \in Has(T(0), k) /\ \A s \in Has(T(0), k) : s.gen <= t.gen
      BY <1>6, <2>9, Zenon DEF T
    <3>2. levels[0][Max(Indices(levels[0], k))] = t
      BY <3>1, LastYoungest, Zenon
    <3> QED
      BY <1>6, <2>8, <2>9, <3>2, Zenon
  <2>10. CASE l # 0
    <3> DEFINE I == Indices(levels[l], k)
    <3>1. levels[l] \in Seq(TableSet) /\ T(l) \subseteq TableSet /\ Apart(T(l))
      BY <2>10, LevelIs, Zenon DEF LsmInv, DisjointInv
    <3>2. I \in SUBSET DOMAIN levels[l] /\ I # {}
      BY HasIndex, Zenon DEF Indices
    <3>3. \A i \in I : levels[l][i] \in Has(T(l), k)
      BY HasIndex, Zenon DEF T
    <3> HIDE DEF I
    <3>4. I \in SUBSET Int /\ IsFiniteSet(I)
      BY <3>1, <3>2, FiniteIndices, Zenon
    <3>5. Max(I) \in I
      BY <3>2, <3>4, FiniteMax, Zenon
    <3>6. levels[l][Max(I)] = t
      <4>1. levels[l][Max(I)] \in Has(T(l), k) /\ t \in Has(T(l), k)
        BY <3>3, <3>5, Zenon DEF T
      <4> QED
        BY <3>1, <4>1, OneTable, Zenon
    <3> QED
      BY <1>6, <2>8, <3>6, Zenon DEF I
  <2> QED
    BY <2>9, <2>10, Zenon
<1> QED
  BY <1>5, <1>6, Zenon DEF TopIs

(***************************************************************************)
(* While no compaction has moved a table away from under an older one, or  *)
(* merged pairs of length 0 only, the uppermost value of every key is the  *)
(* newest: rounds, sharding, failures and the order of the edits neither   *)
(* lose a value nor revive an old one.                                     *)
(***************************************************************************)
THEOREM NewestStaysOnTop == Spec => []NewestOnTop
<1>1. LsmInv => NewestOnTop
  BY TopOf, Zenon DEF LsmInv, TopInv, NewestOnTop
<1> QED
  BY <1>1, LsmInvariant, PTL
-----------------------------------------------------------------------------
(* What query may return below level 0, from level 1 on *)
Down(k) ==
  UNION {IF l = MAX_LEVEL THEN {0} ELSE Found(levels[l], k) \ {0} :
           l \in {l \in 1..MAX_LEVEL : \A m \in 1..(l - 1) : 0 \in Found(levels[m], k)}}

LEMMA QueryIs ==
  ASSUME LsmInv, NEW k
  PROVE  query(k) = IF Indices(levels[0], k) # {}
                    THEN {Stamp(levels[0][Max(Indices(levels[0], k))], k)} ELSE Down(k)
<1> DEFINE level0 == {i \in DOMAIN levels[0] : Stamp(levels[0][i], k) # 0}
<1>1. 0 \in Lv
  BY DEF Lv, MAX_LEVEL
<1>2. levels[0] \in Seq(TableSet)
  BY <1>1, LevelIs, Zenon DEF LsmInv
<1>3. \A i \in DOMAIN levels[0] : levels[0][i] \in TableSet
  BY <1>2
<1>4. level0 = Indices(levels[0], k)
  BY <1>3, StampIs, Zenon DEF Indices
<1>5. query(k) = IF level0 # {} THEN {Stamp(levels[0][Max(level0)], k)} ELSE Down(k)
  BY Zenon DEF query, Down, Found
<1> HIDE DEF level0
<1> QED
  BY <1>4, <1>5, Zenon

LEMMA DownNone ==
  ASSUME NEW k, \A m \in 1..(MAX_LEVEL - 1) : Found(levels[m], k) = {0}
  PROVE  Down(k) = {0}
<1> DEFINE B == {l \in 1..MAX_LEVEL : \A m \in 1..(l - 1) : 0 \in Found(levels[m], k)}
           R(l) == IF l = MAX_LEVEL THEN {0} ELSE Found(levels[l], k) \ {0}
<1>1. MAX_LEVEL \in B
  <2>1. MAX_LEVEL \in 1..MAX_LEVEL
    BY DEF MAX_LEVEL
  <2> QED
    BY <2>1, Zenon
<1>2. \A l \in B : l # MAX_LEVEL => R(l) = {}
  <2>1. \A l \in B : l # MAX_LEVEL => l \in 1..(MAX_LEVEL - 1)
    BY DEF MAX_LEVEL
  <2> QED
    BY <2>1, Zenon
<1>3. R(MAX_LEVEL) = {0}
  BY Zenon
<1>4. Down(k) = UNION {R(l) : l \in B}
  BY Zenon DEF Down
<1> HIDE DEF B, R
<1> QED
  BY <1>1, <1>2, <1>3, <1>4, Zenon

LEMMA DownFirst ==
  ASSUME NEW k, NEW d \in 1..(MAX_LEVEL - 1), NEW v, v # 0, Found(levels[d], k) = {v},
         \A m \in 1..(MAX_LEVEL - 1) : m < d => Found(levels[m], k) = {0}
  PROVE  Down(k) = {v}
<1> DEFINE B == {l \in 1..MAX_LEVEL : \A m \in 1..(l - 1) : 0 \in Found(levels[m], k)}
           R(l) == IF l = MAX_LEVEL THEN {0} ELSE Found(levels[l], k) \ {0}
<1>1. d \in 1..MAX_LEVEL /\ d # MAX_LEVEL
  BY DEF MAX_LEVEL
<1>2. d \in B
  <2>1. \A m \in 1..(d - 1) : m \in 1..(MAX_LEVEL - 1) /\ m < d
    BY DEF MAX_LEVEL
  <2> QED
    BY <1>1, <2>1, Zenon
<1>3. ASSUME NEW l \in B, l # d PROVE R(l) = {}
  <2>1. l \in 1..MAX_LEVEL
    BY Zenon
  <2>2. ~(d < l)
    <3>1. d < l => d \in 1..(l - 1)
      BY ONLY <2>1, d \in 1..(MAX_LEVEL - 1) DEF MAX_LEVEL
    <3> QED
      BY <3>1, Zenon
  <2>3. l \in 1..(MAX_LEVEL - 1) /\ l < d /\ l # MAX_LEVEL
    BY ONLY <1>3, <2>1, <2>2, d \in 1..(MAX_LEVEL - 1) DEF MAX_LEVEL
  <2> QED
    BY <2>3, Zenon
<1>4. R(d) = {v}
  BY <1>1, Zenon
<1>5. Down(k) = UNION {R(l) : l \in B}
  BY Zenon DEF Down
<1> HIDE DEF B, R
<1>6. v \in Down(k)
  <2>1. v \in R(d)
    BY <1>4, Zenon
  <2> QED
    BY <1>2, <1>5, <2>1, Zenon
<1>7. ASSUME NEW x \in Down(k) PROVE x = v
  <2>1. PICK l \in B : x \in R(l)
    BY <1>5, Zenon
  <2>2. l = d
    BY <1>3, <2>1, Zenon
  <2> QED
    BY <1>4, <2>1, <2>2, Zenon
<1> HIDE DEF Down
<1> QED
  BY <1>6, <1>7, Zenon

LEMMA QueryOf ==
  ASSUME LsmInv, \A l \in 1..(MAX_LEVEL - 1) : Ordered(levels[l]),
         NEW k, NEW v, TopIs(levels, k, v)
  PROVE  query(k) = {v}
<1>1. \A l \in 1..(MAX_LEVEL - 1) : l \in Lv /\ l # 0 /\ 0 < l
  BY DEF Lv, MAX_LEVEL
<1>2. 0 \in Lv /\ \A l \in Lv : l = 0 \/ (l \in 1..(MAX_LEVEL - 1) /\ 0 < l)
  BY DEF Lv, MAX_LEVEL
<1>3. \A l \in Lv : levels[l] \in Seq(TableSet)
  BY LevelIs, Zenon DEF LsmInv
<1>4. \A l \in 1..(MAX_LEVEL - 1) :
        /\ Has(T(l), k) = {} => Found(levels[l], k) = {0}
        /\ \A t \in Has(T(l), k) : Found(levels[l], k) = {t.data[k]} /\ t.data[k] # 0
  <2> SUFFICES ASSUME NEW l \in 1..(MAX_LEVEL - 1)
               PROVE  /\ Has(Tables(levels[l]), k) = {} => Found(levels[l], k) = {0}
                      /\ \A t \in Has(Tables(levels[l]), k) :
                           Found(levels[l], k) = {t.data[k]} /\ t.data[k] # 0
    BY Zenon DEF T
  <2>1. levels[l] \in Seq(TableSet) /\ Ordered(levels[l])
    BY <1>1, <1>3, Zenon
  <2> QED
    BY <2>1, FoundIs, Zenon
<1>5. Has(T(0), k) = {} => Indices(levels[0], k) = {}
  BY HasIndex, Zenon DEF T
<1>6. Has(T(0), k) = {} => query(k) = Down(k)
  BY <1>5, QueryIs, Zenon
<1>7. CASE v = 0 /\ \A l \in Lv : Has(Tables(levels[l]), k) = {}
  <2>1. \A l \in Lv : Has(T(l), k) = {}
    BY <1>7, Zenon DEF T
  <2>2. \A m \in 1..(MAX_LEVEL - 1) : Found(levels[m], k) = {0}
    BY <1>1, <1>4, <2>1, Zenon
  <2>3. Down(k) = {0}
    BY <2>2, DownNone, Zenon
  <2> QED
    BY <1>2, <1>6, <1>7, <2>1, <2>3, Zenon
<1>8. ASSUME NEW l \in Lv, NEW t \in Has(Tables(levels[l]), k), v = t.data[k],
             \A m \in Lv : m < l => Has(Tables(levels[m]), k) = {},
             l = 0 => \A s \in Has(Tables(levels[l]), k) : s.gen <= t.gen
      PROVE  query(k) = {v}
  <2>1. t \in Has(T(l), k) /\ \A m \in Lv : m < l => Has(T(m), k) = {}
    BY <1>8, Zenon DEF T
  <2>2. CASE l = 0
    <3>1. t \in Has(T(0), k) /\ \A s \in Has(T(0), k) : s.gen <= t.gen
      BY <1>8, <2>2, Zenon DEF T
    <3>2. levels[0][Max(Indices(levels[0], k))] = t
      BY <3>1, LastYoungest, Zenon
    <3>3. Indices(levels[0], k) # {}
      BY <3>1, HasIndex, Zenon DEF T
    <3>4. query(k) = {Stamp(t, k)}
      BY <3>2, <3>3, QueryIs, Zenon
    <3>5. t \in TableSet /\ k \in DOMAIN t.data
      BY <1>2, <3>1, LevelIs, Zenon DEF LsmInv, Has
    <3>6. Stamp(t, k) = t.data[k]
      BY <3>5, StampIs, Zenon
    <3> QED
      BY <1>8, <3>4, <3>6, Zenon
  <2>3. CASE l # 0
    <3>1. l \in 1..(MAX_LEVEL - 1) /\ 0 < l
      BY <1>2, <2>3, Zenon
    <3>2. Found(levels[l], k) = {v} /\ v # 0
      BY <1>4, <1>8, <2>1, <3>1, Zenon
    <3>3. \A m \in 1..(MAX_LEVEL - 1) : m < l => Found(levels[m], k) = {0}
      BY <1>1, <1>4, <2>1, Zenon
    <3>4. Down(k) = {v}
      BY <3>1, <3>2, <3>3, DownFirst, Zenon
    <3> QED
      BY <1>2, <1>6, <2>1, <3>1, <3>4, Zenon
  <2> QED
    BY <2>2, <2>3, Zenon
<1> QED
  BY <1>7, <1>8, Zenon DEF TopIs

(***************************************************************************)
(* As long as the lower levels are ordered and nothing was split or lost,  *)
(* Version::query has one answer for every key, its newest value.          *)
(***************************************************************************)
THEOREM QueryFindsNewest == Spec => []QueryNewest
<1>1. LsmInv => QueryNewest
  BY QueryOf, Zenon DEF LsmInv, TopInv, QueryNewest
<1> QED
  BY <1>1, LsmInvariant, PTL
-----------------------------------------------------------------------------
LEMMA RoundOrder ==
  ASSUME LsmInv, MajorRound, NEW l \in 1..(MAX_LEVEL - 1), Ordered(levels[l]), ~Ordered(levels'[l])
  PROVE  /\ task.level = l - 1
         /\ met_scopes(levels[l], fusion(Tables(met_scopes(levels[l - 1], task.scope)))) = <<>>
<1>1. Types /\ GenInv
  BY Zenon DEF LsmInv
<1>2. PICK A, f, B, C, data :
        /\ Takes(task.level, A, f, B, data) /\ Makes(C, data)
        /\ Moves(task.level, A, B, C) /\ Orders(task.level, f, A, B, C)
        /\ A = Tables(met_scopes(levels[task.level], task.scope)) /\ f = fusion(A)
  BY <1>1, RoundStep, Zenon
<1>3. task.level \in 0..(MAX_LEVEL - 2) /\ task.level \in Lv /\ task.level + 1 \in Lv
  BY <1>2, Zenon DEF Takes
<1>4. l \in Lv /\ l # 0
  BY ONLY l \in 1..(MAX_LEVEL - 1) DEF Lv, MAX_LEVEL
<1>5. levels[l] \in Seq(TableSet)
  BY <1>1, <1>4, LevelIs, Zenon
<1>6. l # task.level
  <2>1. ASSUME l = task.level PROVE FALSE
    <3>1. PICK es \in Pending : /\ task.level # 0 => es = <<>>
                                /\ levels'[l] = Deleted(Pushed(levels[l], es), {t.gen : t \in A})
      BY <1>2, <2>1, Zenon DEF Orders
    <3>2. Pushed(levels[l], es) = levels[l]
      BY <1>4, <2>1, <3>1, Zenon DEF Pushed
    <3>3. levels'[l] = Deleted(levels[l], {t.gen : t \in A})
      BY <3>1, <3>2, Zenon
    <3>4. Ordered(Deleted(levels[l], {t.gen : t \in A}))
      BY <1>5, DeletedIs, Zenon
    <3> QED
      BY <3>3, <3>4, Zenon
  <2> QED
    BY <2>1, Zenon
<1>7. l = task.level + 1
  <2>1. l # task.level + 1 => levels'[l] = levels[l]
    BY <1>2, <1>4, <1>6, Zenon DEF Moves
  <2> QED
    BY <2>1, Zenon
<1>8. task.level = l - 1
  BY ONLY <1>3, <1>7 DEF MAX_LEVEL
<1>9. B = {}
  <2>1. ASSUME B # {} PROVE FALSE
    <3>1. PICK new \in Seq(TableSet) :
            /\ Tables(new) = C /\ Ordered(new)
            /\ levels'[l] = Deleted(InsertedAt(levels[l], new, first_index(levels[l], f)), {t.gen : t \in B})
      BY <1>2, <1>7, Zenon DEF Orders
    <3>2. /\ A \subseteq T(task.level) /\ Fused(f, A)
          /\ B = {t \in Tables(levels[l]) : meet(t, f)}
          /\ DOMAIN data = KeysIn(A) \cup KeysIn(B)
      BY <1>2, <1>7, Zenon DEF Takes, T
    <3>3. A \subseteq TableSet
      BY <1>1, <1>3, <3>2, LevelIs, Zenon
    <3>4. \A c \in Tables(new) : DOMAIN c.data \subseteq KeysIn(A \cup B)
      <4>1. \A c \in C : DOMAIN c.data \subseteq DOMAIN data
        BY <1>2, Zenon DEF Makes
      <4>2. KeysIn(A) \cup KeysIn(B) \subseteq KeysIn(A \cup B)
        BY Zenon DEF KeysIn
      <4> QED
        BY <3>1, <3>2, <4>1, <4>2, Zenon
    <3> DEFINE q == InsertedAt(levels[l], new, first_index(levels[l], f))
    <3>5. q = InsertedAt(levels[l], new, first_index(levels[l], f))
      OBVIOUS
    <3>6. levels'[l] = Deleted(q, {t.gen : t \in B})
      BY <3>1, Zenon
    <3> HIDE DEF q
    <3>7. Ordered(Deleted(q, {t.gen : t \in B}))
      BY <1>5, <2>1, <3>1, <3>2, <3>3, <3>4, <3>5, InsertOrdered, Zenon
    <3> QED
      BY <3>6, <3>7, Zenon
  <2> QED
    BY <2>1, Zenon
<1>10. Tables(met_scopes(levels[l], f)) = {}
  <2>1. B = {t \in Tables(levels[l]) : meet(t, f)}
    BY <1>2, <1>7, Zenon DEF Takes, T
  <2> QED
    BY <1>5, <1>9, <2>1, MetIs, Zenon
<1>11. met_scopes(levels[l], f) = <<>>
  BY <1>5, <1>10, MetIs, Zenon
<1> QED
  BY <1>2, <1>8, <1>11, Zenon

(***************************************************************************)
(* Tables that meet a table of the level they enter never cost it its      *)
(* order: only an insertion at index 0 for want of a met table does.       *)
(***************************************************************************)
THEOREM OrderKeptWhereTablesMeet == Spec => OrderLostOnlyAtIndexZero
<1> DEFINE Act == \A l \in 1..(MAX_LEVEL - 1) :
             Ordered(levels[l]) /\ ~Ordered(levels'[l])
             => /\ task.level = l - 1
                /\ met_scopes(levels[l], fusion(Tables(met_scopes(levels[l - 1], task.scope)))) = <<>>
<1>1. LsmInv /\ [Next]_vars => [Act]_vars
  <2> SUFFICES ASSUME LsmInv, [Next]_vars,
                      NEW l \in 1..(MAX_LEVEL - 1), Ordered(levels[l]), ~Ordered(levels'[l])
               PROVE  /\ task.level = l - 1
                      /\ met_scopes(levels[l], fusion(Tables(met_scopes(levels[l - 1], task.scope)))) = <<>>
    BY Zenon
  <2>1. levels'[l] # levels[l]
    BY Zenon
  <2>2. ~MajorOver
    <3>1. ASSUME MajorOver PROVE FALSE
      <4>1. Types /\ GenInv
        BY Zenon DEF LsmInv
      <4>2. levels \in Slices /\ task.edits \in Pending
        BY <4>1 DEF Types
      <4>3. 0 \in Lv /\ l \in Lv /\ l # 0
        BY ONLY l \in 1..(MAX_LEVEL - 1) DEF Lv, MAX_LEVEL
      <4>4. Pushed(levels[0], task.edits) \in Seq(TableSet)
        BY <4>1, <4>3, PushedIs, Zenon
      <4>5. levels' = apply(levels, task.edits)
        BY <3>1, Zenon DEF MajorOver
      <4>6. SetAt(levels', levels, 0, Pushed(levels[0], task.edits))
        BY <4>2, <4>4, <4>5, PushPending, Zenon
      <4> QED
        BY <2>1, <4>3, <4>6, Zenon DEF SetAt
    <3> QED
      BY <3>1, Zenon
  <2>3. MajorRound
    BY <2>1, <2>2, Zenon DEF Next, vars, minor_compaction, SeekTask, MajorFails
  <2> QED
    BY <2>3, RoundOrder, Zenon
<1>2. Spec => [][Act]_vars
  BY <1>1, LsmInvariant, PTL DEF Spec
<1> QED
  BY <1>2 DEF OrderLostOnlyAtIndexZero
=============================================================================
