------------------------------- MODULE LsmTree --------------------------------
(***************************************************************************)
(* The levels of the tree and the compactor that reorganises them: minor   *)
(* compactions, the major compactions they start, and the manual or seek   *)
(* compactions of any range.  A scope carries the contents of its table:   *)
(* data[k] is the stamp of the value of k (of the flush that wrote it).    *)
(***************************************************************************)
EXTENDS Version

CONSTANTS
  Keys,        \* a set of integers
  Thresholds,  \* values of major_threshold_with_sst_size
  Magnify,     \* level_sst_magnification
  FileSize,    \* sst_file_size
  Sizes,       \* how long the pairs of the keys may be: functions from keys
  MaxTasks     \* MaxTasks[t]: bound on compaction tasks with threshold t

ASSUME LsmConstants ==
  /\ Keys \subseteq Int /\ IsFiniteSet(Keys) /\ Keys # {}
  /\ Thresholds \subseteq Nat \ {0} /\ Magnify \in Nat \ {0} /\ FileSize \in Nat \ {0}
  /\ Sizes \subseteq [Keys -> Nat]
  /\ MaxTasks \in [Thresholds -> Nat]

VARIABLES
  threshold, \* major_threshold_with_sst_size of this store
  levels,   \* Version::level_slice of the current Version
  task,     \* the locals of the major_compaction that runs, or Idle
  gen,      \* the next Gen::create()
  wal_gen,  \* gen of the WAL: the gen of the next level 0 table
  newest,   \* history: the stamp of the newest installed value of every key
  split,    \* history: a compaction moved a table away from under an older one
  dropped,  \* history: a merge had only pairs without length, and kept none
  tasks     \* number of compaction tasks so far

vars == <<threshold, levels, task, gen, wal_gen, newest, split, dropped, tasks>>

Idle == [level |-> MAX_LEVEL, scope |-> [start |-> 0, end |-> 0],
         edits |-> <<>>, skip |-> FALSE]

Init ==
  /\ threshold \in Thresholds
  /\ levels = level_slice_new
  /\ task = Idle
  /\ gen = 2 /\ wal_gen = 1
  /\ newest = [k \in Keys |-> 0]
  /\ split = FALSE /\ dropped = FALSE
  /\ tasks = 0

(* TableLoader::create *)
create(g, data) ==
  [gen |-> g, start |-> Min(DOMAIN data), end |-> Max(DOMAIN data), data |-> data]
-----------------------------------------------------------------------------
(***************************************************************************)
(* minor_compaction: the table of the swapped MemTable gets the gen of its *)
(* WAL, and its edit is handed to major_compaction.                        *)
(***************************************************************************)
minor_compaction(K) ==
  LET t == create(wal_gen, [k \in K |-> wal_gen])
  IN  /\ task = Idle /\ tasks < MaxTasks[threshold]
      /\ task' = [level |-> 0, scope |-> [start |-> t.start, end |-> t.end],
                  edits |-> <<NewFile(<<t>>, 0, 0)>>, skip |-> FALSE]
      /\ wal_gen' = gen
      /\ gen' = gen + 1
      /\ tasks' = tasks + 1
      /\ UNCHANGED <<threshold, levels, newest, split, dropped>>

(* CompactTask::Seek, from manual_compaction or from missed seeks *)
SeekTask(level, min, max) ==
  /\ task = Idle /\ tasks < MaxTasks[threshold]
  /\ min <= max
  /\ task' = [level |-> level, scope |-> [start |-> min, end |-> max],
              edits |-> <<>>, skip |-> TRUE]
  /\ tasks' = tasks + 1
  /\ UNCHANGED <<threshold, levels, gen, wal_gen, newest, split, dropped>>
-----------------------------------------------------------------------------
(***************************************************************************)
(* data_merge_and_sharding: the value of a key is the one of the youngest  *)
(* table of tables_l that has it, else of the last of tables_ll.           *)
(* data_sharding fills one shard after the other.  The pair that makes a   *)
(* shard too long goes into the next one, where it does not count; a first *)
(* pair that is too long leaves its shard empty, and that is dropped.  The *)
(* number of shards is the sum of the lengths, rounded up: the empty key   *)
(* with no value or an empty one has length 0, and alone it gets none.     *)
(***************************************************************************)
Tables(slice) == {slice[i] : i \in DOMAIN slice}
KeysOf(slice) == UNION {DOMAIN t.data : t \in Tables(slice)}

(* Faulty data_merge: the oldest table of tables_l wins *)
data_merge_OldestWins(tables_l, tables_ll) ==
  [k \in KeysOf(tables_l) \cup KeysOf(tables_ll) |->
     LET has(slice) == {i \in DOMAIN slice : k \in DOMAIN slice[i].data}
     IN  IF has(tables_l) # {} THEN tables_l[Min(has(tables_l))].data[k]
         ELSE tables_ll[Max(has(tables_ll))].data[k]]

data_merge(tables_l, tables_ll) ==
  [k \in KeysOf(tables_l) \cup KeysOf(tables_ll) |->
     LET has(slice) == {i \in DOMAIN slice : k \in DOMAIN slice[i].data}
     IN  IF has(tables_l) # {}
         THEN tables_l[CHOOSE i \in has(tables_l) :
                \A j \in has(tables_l) : tables_l[j].gen <= tables_l[i].gen].data[k]
         ELSE tables_ll[Max(has(tables_ll))].data[k]]

part_size(data, size) ==
  LET K == DOMAIN data
      sum[n \in 0..Cardinality(K)] == IF n = 0 THEN 0 ELSE sum[n - 1] + size[Nth(K, n)]
  IN  (sum[Cardinality(K)] + FileSize - 1) \div FileSize

(* f: the shard being filled, what counts of its length, the keys of the shards *)
Fill(f, k, size, parts) ==
  IF f.data_len + size[k] >= FileSize /\ f.i < parts
  THEN [i |-> f.i + 1, data_len |-> 0, shards |-> [f.shards EXCEPT ![f.i + 1] = @ \cup {k}]]
  ELSE [f EXCEPT !.data_len = @ + size[k], !.shards[f.i] = @ \cup {k}]

ShardKeys(data, size, parts) ==
  LET K == DOMAIN data
      filled[n \in 0..Cardinality(K)] ==
        IF n = 0 THEN [i |-> 1, data_len |-> 0, shards |-> [i \in 1..parts |-> {}]]
        ELSE Fill(filled[n - 1], Nth(K, n), size, parts)
  IN  filled[Cardinality(K)].shards

(* Faulty data_sharding: one gen for all shards *)
data_sharding_OneGen(data, size) ==
  LET parts == part_size(data, size)
      keys == IF parts = 0 THEN <<>> ELSE ShardKeys(data, size, parts)
      used == {i \in DOMAIN keys : keys[i] # {}}
  IN  [n \in 1..Cardinality(used) |-> create(gen, [k \in keys[Nth(used, n)] |-> data[k]])]

data_sharding(data, size) ==
  LET parts == part_size(data, size)
      keys == IF parts = 0 THEN <<>> ELSE ShardKeys(data, size, parts)
      used == {i \in DOMAIN keys : keys[i] # {}}
      shard(i) == create(gen + i - 1, [k \in keys[i] |-> data[k]])
  IN  [n \in 1..Cardinality(used) |-> shard(Nth(used, n))]

GensOf(slice) == {t.gen : t \in Tables(slice)}

(* data_loading_with_level returns None *)
NothingToLoad ==
  \/ task.level > MAX_LEVEL - 2
  \/ /\ ~task.skip
     /\ ~is_threshold_exceeded_major(levels, threshold, Magnify, task.level)
  \/ met_scopes(levels[task.level], task.scope) = <<>>

(* History: some older table stays in level 0 above a table that leaves. *)
Splits(slice, moved) ==
  \E i, j \in DOMAIN slice :
    /\ i < j /\ slice[i].gen \notin GensOf(moved) /\ slice[j].gen \in GensOf(moved)
    /\ DOMAIN slice[i].data \cap DOMAIN slice[j].data # {}

Installed(edits) ==
  newest' = IF edits = <<>> THEN newest
            ELSE LET data == edits[1].scopes[1].data
                 IN  [k \in Keys |-> IF k \in DOMAIN data THEN data[k] ELSE newest[k]]

(***************************************************************************)
(* One round of the loop of major_compaction, with log_and_apply.  The     *)
(* level 0 table of a minor compaction enters with the first round, and    *)
(* so is not among the tables that round merges.                           *)
(***************************************************************************)
MajorRound ==
  LET l         == task.level
      tables_l  == met_scopes(levels[l], task.scope)
      fused     == fusion(Tables(tables_l))
      tables_ll == met_scopes(levels[l + 1], fused)
      data      == data_merge(tables_l, tables_ll)
  IN  /\ task # Idle /\ ~NothingToLoad
      /\ \E size \in Sizes :
           /\ gen' = gen + part_size(data, size)
           /\ dropped' = (dropped \/ part_size(data, size) = 0)
           /\ \E shards \in {data_sharding(data, size)} :
                levels' = apply(levels, task.edits \o
                  <<NewFile(shards, l + 1, first_index(levels[l + 1], fused)),
                    DeleteFile(GensOf(tables_l), l),
                    DeleteFile(GensOf(tables_ll), l + 1)>>)
      /\ Installed(task.edits)
      /\ split' = (split \/ (l = 0 /\ Splits(levels[0], tables_l)))
      /\ task' = [task EXCEPT !.level = l + 1, !.edits = <<>>, !.skip = FALSE]
      /\ UNCHANGED <<threshold, wal_gen, tasks>>

(* The last round: only the edits of a minor compaction may be left. *)
MajorOver ==
  /\ task # Idle /\ NothingToLoad
  /\ levels' = apply(levels, task.edits)
  /\ Installed(task.edits)
  /\ task' = Idle
  /\ UNCHANGED <<threshold, gen, wal_gen, split, dropped, tasks>>

(* An I/O error ends the compaction; the edits not yet applied are lost. *)
MajorFails ==
  /\ task # Idle
  /\ task' = Idle
  /\ UNCHANGED <<threshold, levels, gen, wal_gen, newest, split, dropped, tasks>>

Next ==
  \/ \E K \in (SUBSET Keys) \ {{}} : minor_compaction(K)
  \/ \E level \in 0..(MAX_LEVEL - 1), min, max \in Keys : SeekTask(level, min, max)
  \/ MajorRound \/ MajorOver \/ MajorFails

Spec == Init /\ [][Next]_vars
-----------------------------------------------------------------------------
(***************************************************************************)
(* The stamps Version::query may find for key k, 0 standing for None: the  *)
(* youngest table of level 0 that has k, else level by level the table the *)
(* binary search leads to.                                                 *)
(***************************************************************************)
Stamp(t, k) == IF meet_by_key(t, k) /\ k \in DOMAIN t.data THEN t.data[k] ELSE 0

query(k) ==
  LET level0 == {i \in DOMAIN levels[0] : Stamp(levels[0][i], k) # 0}
      at(l)  == LET offsets == query_meet_index(levels[l], k)
                IN  IF offsets = {} THEN {0} ELSE {Stamp(levels[l][i], k) : i \in offsets}
      below  == {l \in 1..MAX_LEVEL : \A m \in 1..(l - 1) : 0 \in at(m)}
  IN  IF level0 # {} THEN {Stamp(levels[0][Max(level0)], k)}
      ELSE UNION {IF l = MAX_LEVEL THEN {0} ELSE at(l) \ {0} : l \in below}

(* The stamp of k in the uppermost, and there the last, table that has it *)
Top(k) ==
  LET has(l) == {i \in DOMAIN levels[l] : k \in DOMAIN levels[l][i].data}
      L == {l \in DOMAIN levels : has(l) # {}}
  IN  IF L = {} THEN 0 ELSE levels[Min(L)][Max(has(Min(L)))].data[k]

(***************************************************************************)
(* Below level 0 no two tables of a level overlap, whatever ranges are     *)
(* compacted: the tables merged in the next level include everything the   *)
(* new tables can touch (data_loading_with_level: "the next level's        *)
(* superset", then all of it is deleted).                                  *)
(***************************************************************************)
LevelsDisjoint ==
  \A l \in 1..(MAX_LEVEL - 1) : \A i, j \in DOMAIN levels[l] :
    i # j => ~meet(levels[l][i], levels[l][j])

(***************************************************************************)
(* No table is listed twice: the inserted gens are fresh, and what moves   *)
(* down is deleted above.  The Cleaner relies on it, since it removes a    *)
(* table by gen as soon as one Version has given it up.                    *)
(***************************************************************************)
NoTableTwice ==
  \A l, m \in DOMAIN levels : \A i \in DOMAIN levels[l], j \in DOMAIN levels[m] :
    levels[l][i].gen = levels[m][j].gen => l = m /\ i = j

(***************************************************************************)
(* As long as no compaction has left an older overlapping table in level 0 *)
(* above one it moved, and no merge of nothing but the empty key was left  *)
(* without a shard, the newest value of every key is the uppermost one:    *)
(* merging, sharding and the order of the edits lose and revive nothing.   *)
(***************************************************************************)
NewestOnTop == ~split /\ ~dropped => \A k \in Keys : Top(k) = newest[k]

(***************************************************************************)
(* And if the levels are ordered too, Version::query returns that value.   *)
(***************************************************************************)
QueryNewest ==
  ~split /\ ~dropped /\ (\A l \in 1..(MAX_LEVEL - 1) : Ordered(levels[l]))
  => \A k \in Keys : query(k) = {newest[k]}

(***************************************************************************)
(* A level loses its order only when tables enter it that meet none of its *)
(* tables: tables_by_scopes then answers with index 0.                     *)
(***************************************************************************)
OrderLostOnlyAtIndexZero ==
  [][\A l \in 1..(MAX_LEVEL - 1) :
       Ordered(levels[l]) /\ ~Ordered(levels'[l])
       => /\ task.level = l - 1
          /\ met_scopes(levels[l], fusion(Tables(met_scopes(levels[l - 1], task.scope)))) = <<>>]_vars
=============================================================================
