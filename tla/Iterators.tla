----------------------------- MODULE Iterators -----------------------------
(***************************************************************************)
(* The iterators a client sees: Transaction::iter over the transaction's   *)
(* own writes, the MemTable and the tables of its Version, and VersionIter *)
(* (disk_iter) over the tables alone, which can also seek.  Both merge the *)
(* iterators of several sources; an earlier source hides a later one.      *)
(* Besides, MemMapIter over one map of a MemTable.                         *)
(* mvcc.rs, mem_table.rs, iterator/, version/iter.rs, table/btree_table.   *)
(***************************************************************************)
EXTENDS SsTable

CONSTANTS Keys,      \* the keys
          Stores,    \* what a transaction may find: its writes, MemTable and Version
          Bounds     \* pairs of bounds a client may ask for

MAX_LEVEL == 4

VARIABLES store,     \* the transaction, the MemTable and the Version it reads
          min, max,  \* the bounds of the iteration, for a TransactionIter
          failed,    \* the levels whose first table could not be opened for the iterator
          iter,      \* the TransactionIter, the VersionIter or the MemMapIter
          from,      \* history: where the iterator was last made to seek to
          out,       \* history: the items answered since then
          over       \* the last answer was None

vars == <<store, min, max, failed, iter, from, out, over>>

(***************************************************************************)
(* Tables.  A table is an SSTable or, when it was recovered from the WAL,  *)
(* a BTreeTable; rest is what the range of a BTreeTableIter has left.      *)
(***************************************************************************)
IsBTree(t) == t.type = "BTree"
Start(t) == t.data[1][1]
End(t) == t.data[Len(t.data)][1]
NotBelow(data, key) == SelectSeq(data, LAMBDA kv : ~Less(kv[1], key))

table_iter(t) ==
  IF IsBTree(t) THEN [kind |-> "BTree", data |-> t.data, rest |-> t.data]
  ELSE [kind |-> "SSTable", inner |-> SSTableIter(t.table)]

table_seek(it, seek) ==
  IF it.kind = "SSTable" THEN [it EXCEPT !.inner = seek_(@, seek)]
  ELSE [it EXCEPT !.rest = CASE seek.to = "First" -> it.data
                             [] seek.to = "Last" -> <<>>
                             [] seek.to = "Backward" -> NotBelow(it.data, seek.key)]

\* BufIter, InnerIter and the range of a BTreeTable answer one after the other.
rest_next(it) ==
  IF it.rest = <<>> THEN [iter |-> it, item |-> None]
  ELSE [iter |-> [it EXCEPT !.rest = Tail(@)], item |-> Head(it.rest)]

FromInner(it, step) == [iter |-> [it EXCEPT !.inner = step.iter], item |-> step.item]

table_next(it) == IF it.kind = "SSTable" THEN FromInner(it, try_next(it.inner)) ELSE rest_next(it)

table_query(t, key) ==
  IF IsBTree(t)
  THEN LET found == SelectSeq(t.data, LAMBDA kv : kv[1] = key)
       IN  IF found = <<>> THEN None ELSE found[1]
  ELSE query(t.table, key)

(***************************************************************************)
(* LevelIter: the tables of a level one after another.                     *)
(***************************************************************************)
\* The last table that starts at or below key, or the first one.
query_meet_index(tables, key) ==
  LET n == Cardinality({i \in 1..Len(tables) : ~Less(key, Start(tables[i]))})
  IN  IF n = 0 THEN 0 ELSE n - 1

LevelIter(tables) ==
  [kind |-> "Level", tables |-> tables, offset |-> 0, child_iter |-> table_iter(tables[1])]

child_iter_seek(it, seek, offset) ==
  [it EXCEPT !.offset = offset,
             !.child_iter = IF offset < Len(it.tables)
                            THEN table_seek(table_iter(it.tables[offset + 1]), seek) ELSE @]

FromChild(it, step) == [iter |-> [it EXCEPT !.child_iter = step.iter], item |-> step.item]

level_next_OneTable(it) == FromChild(it, table_next(it.child_iter))

NextTable(it) == FromChild(it, table_next(it.child_iter))

LevelNextOf(it, step) ==
  IF step.item # None THEN FromChild(it, step)
  ELSE NextTable(child_iter_seek([it EXCEPT !.child_iter = step.iter], SeekFirst, it.offset + 1))

level_next(it) == LevelNextOf(it, table_next(it.child_iter))

level_seek(it, seek) ==
  child_iter_seek(it, seek, CASE seek.to = "First" -> 0
                              [] seek.to = "Last" -> Len(it.tables) - 1
                              [] seek.to = "Backward" -> query_meet_index(it.tables, seek.key))

\* A source of a merging iterator.
source_next(it) ==
  CASE it.kind = "Level" -> level_next(it)
    [] it.kind = "Buf" -> rest_next(it)
    [] OTHER -> table_next(it)

source_seek(it, seek) == IF it.kind = "Level" THEN level_seek(it, seek) ELSE table_seek(it, seek)

SeekAll(sources, seek) == [n \in 1..Len(sources) |-> source_seek(sources[n], seek)]

(***************************************************************************)
(* MergingIter and SeekMergingIter: map_buf holds the next item of every   *)
(* source, ordered by key and then by the number of the source; next_buf   *)
(* is the item that will be answered next.                                 *)
(***************************************************************************)
Before(a, b) == Less(a.key, b.key) \/ (a.key = b.key /\ a.num < b.num)
first_key_value(buf) == CHOOSE e \in buf : \A f \in buf \ {e} : Before(e, f)

Buffered(num, kv) == IF kv = None THEN {} ELSE {[num |-> num, key |-> kv[1], value |-> kv[2]]}

init_next_buf(m) ==
  [m EXCEPT !.next_buf =
     IF m.map_buf = {} THEN None
     ELSE LET e == first_key_value(m.map_buf) IN <<e.key, e.value>>]

\* Every source advanced once into map_buf.
Filled(steps) ==
  init_next_buf([vec_iter |-> [n \in 1..Len(steps) |-> steps[n].iter],
                 map_buf |-> UNION {Buffered(n, steps[n].item) : n \in 1..Len(steps)},
                 next_buf |-> None])

MergingIter(sources) == Filled([n \in 1..Len(sources) |-> source_next(sources[n])])

\* e left map_buf and its source made a step.
Popped(m, e, step) ==
  [m EXCEPT !.vec_iter[e.num] = step.iter,
            !.map_buf = (@ \ {e}) \cup Buffered(e.num, step.item)]

\* The loop of try_next: items with the key that is being answered are hidden.
RECURSIVE PopUntilOther(_, _)
PopUntilOther(m, key) ==
  IF m.map_buf = {} THEN m
  ELSE LET e == first_key_value(m.map_buf)
           popped == Popped(m, e, source_next(m.vec_iter[e.num]))
       IN  IF e.key = key THEN PopUntilOther(popped, key)
           ELSE [popped EXCEPT !.next_buf = <<e.key, e.value>>]

merging_next(m) ==
  IF m.next_buf = None THEN [iter |-> m, item |-> None]
  ELSE [iter |-> PopUntilOther([m EXCEPT !.next_buf = None], m.next_buf[1]), item |-> m.next_buf]

merging_seek(m, seek) ==
  IF seek.to = "Last" THEN init_next_buf([m EXCEPT !.map_buf = {}])
  ELSE MergingIter(SeekAll(m.vec_iter, seek))

\* VersionIter::merging_with_version: the newest level 0 table first, then one
\* iterator for each level of which LevelIter::new makes one.  A level without
\* tables is left out, but so is one whose first table cannot be loaded or read:
\* no error is reported.  The last level is not among them.
merging_with_version(version) ==
  [i \in 1..Len(version.level0) |-> table_iter(Reverse(version.level0)[i])]
  \o FoldLeft(LAMBDA s, l : IF version.level[l] = <<>> \/ l \in failed THEN s
                            ELSE Append(s, LevelIter(version.level[l])),
              <<>>, [l \in 1..(MAX_LEVEL - 2) |-> l])

VersionIter(version) == MergingIter(merging_with_version(version))

(***************************************************************************)
(* MemTable::range_scan.  An entry of the maps is [key, seq, value].       *)
(***************************************************************************)
AboveMin(key) ==
  CASE min.type = "Included" -> ~Less(key, min.key)
    [] min.type = "Excluded" -> Less(min.key, key)
    [] min.type = "Unbounded" -> TRUE

BelowMax(key) ==
  CASE max.type = "Included" -> ~Less(max.key, key)
    [] max.type = "Excluded" -> Less(key, max.key)
    [] max.type = "Unbounded" -> TRUE

InBounds(key) == AboveMin(key) /\ BelowMax(key)

\* The entries within the bounds that seq may see, from the last to the first.
range_iter(map, seq) ==
  SetToSortSeq({e \in map : InBounds(e.key) /\ e.seq <= seq},
               LAMBDA a, b : Less(b.key, a.key) \/ (a.key = b.key /\ a.seq > b.seq))

duplicates_push_Always(results, e) == Append(results, <<e.key, e.value>>)

duplicates_push(results, e) ==
  IF results # <<>> /\ results[Len(results)][1] = e.key THEN results
  ELSE Append(results, <<e.key, e.value>>)

RECURSIVE MergeScans(_, _, _)
MergeScans(mem, immut, merged) ==
  IF mem = <<>> \/ immut = <<>> THEN FoldLeft(duplicates_push, merged, mem \o immut)
  ELSE CASE Less(Head(immut).key, Head(mem).key) ->
              MergeScans(Tail(mem), immut, duplicates_push(merged, Head(mem)))
         [] Less(Head(mem).key, Head(immut).key) ->
              MergeScans(mem, Tail(immut), duplicates_push(merged, Head(immut)))
         [] OTHER -> MergeScans(Tail(mem), Tail(immut), duplicates_push(merged, Head(mem)))

range_scan(st) ==
  Reverse(MergeScans(range_iter(st.mem, st.seq), range_iter(st.immut, st.seq), <<>>))

(***************************************************************************)
(* MemMapIter: prev_item, if there is one, and what the map has behind it. *)
(* Of the entries of a key, which come oldest first, the last is answered. *)
(***************************************************************************)
MapItems(map) ==
  LET sorted == SetToSortSeq(map, LAMBDA a, b : Less(a.key, b.key) \/ (a.key = b.key /\ a.seq < b.seq))
  IN  [i \in DOMAIN sorted |-> <<sorted[i].key, sorted[i].value>>]

MemMapIter(map) == [all |-> MapItems(map), prev_item |-> <<>>, rest |-> MapItems(map)]

mem_next(it) ==
  LET kvs == it.prev_item \o it.rest
      last == Min({i \in DOMAIN kvs : i = Len(kvs) \/ kvs[i + 1][1] # kvs[i][1]})
  IN  IF kvs = <<>> THEN [iter |-> it, item |-> None]
      ELSE [iter |-> [it EXCEPT !.prev_item = SubSeq(kvs, last + 1, Lesser(last + 1, Len(kvs))),
                                !.rest = SubSeq(kvs, last + 2, Len(kvs))],
            item |-> kvs[last]]

mem_seek(it, seek) ==
  [it EXCEPT !.prev_item = <<>>,
             !.rest = CASE seek.to = "First" -> it.all
                        [] seek.to = "Last" -> <<>>
                        [] seek.to = "Backward" -> NotBelow(it.all, seek.key)]

(***************************************************************************)
(* Transaction::iter and TransactionIter.  Without a lower bound the       *)
(* iterators of the Version are made and dropped.                          *)
(***************************************************************************)
Buf(items) == [kind |-> "Buf", rest |-> items]

TransactionIter(st) ==
  LET writes == SelectSeq(st.write_buf, LAMBDA kv : InBounds(kv[1]))
  IN  [inner |-> MergingIter(
                   (IF st.write_buf = <<>> THEN <<>> ELSE <<Buf(writes)>>)
                   \o <<Buf(range_scan(st))>>
                   \o IF min.type = "Unbounded" THEN <<>>
                      ELSE SeekAll(merging_with_version(st.version), SeekBackward(min.key))),
       is_inited |-> FALSE, is_overed |-> FALSE]

\* The first answer skips what the sources hold below the lower bound.
RECURSIVE SkipToMin(_)
SkipToMin(step) ==
  IF step.item = None \/ AboveMin(step.item[1]) THEN step
  ELSE SkipToMin(merging_next(step.iter))

\* The answer ends the iteration when there is none or it is above the bound.
UpToMax(item_) == IF item_ # None /\ BelowMax(item_[1]) THEN item_ ELSE None

FromMerged(step) ==
  [iter |-> [inner |-> step.iter, is_inited |-> TRUE, is_overed |-> UpToMax(step.item) = None],
   item |-> UpToMax(step.item)]

Skipped(is_inited, step) == IF is_inited THEN step ELSE SkipToMin(step)

tx_next_NoSkip(it) ==
  IF it.is_overed THEN [iter |-> it, item |-> None] ELSE FromMerged(merging_next(it.inner))

tx_next(it) ==
  IF it.is_overed THEN [iter |-> it, item |-> None]
  ELSE FromMerged(Skipped(it.is_inited, merging_next(it.inner)))

(***************************************************************************)
(* A client iterates with one or the other.                                *)
(***************************************************************************)
Unbounded == [type |-> "Unbounded"]

\* The levels a LevelIter is tried for.
Tried(version) == {l \in 1..(MAX_LEVEL - 2) : version.level[l] # <<>>}

Init ==
  /\ from = SeekFirst
  /\ out = <<>>
  /\ over = FALSE
  /\ \/ /\ store \in Stores
        /\ \E b \in Bounds : min = b[1] /\ max = b[2]
        /\ failed \in SUBSET Tried(store.version)
        /\ iter = [type |-> "Tx", it |-> TransactionIter(store)]
     \/ /\ store \in {[version |-> st.version] : st \in Stores}
        /\ min = Unbounded /\ max = Unbounded
        /\ failed \in SUBSET Tried(store.version)
        /\ iter = [type |-> "Disk", it |-> VersionIter(store.version)]
     \/ /\ store \in {[mem |-> st.mem] : st \in Stores}
        /\ min = Unbounded /\ max = Unbounded
        /\ failed = {}
        /\ iter = [type |-> "Mem", it |-> MemMapIter(store.mem)]

Answered(step) ==
  /\ iter' = [iter EXCEPT !.it = step.iter]
  /\ out' = IF step.item = None THEN out ELSE Append(out, step.item)
  /\ over' = (step.item = None)
  /\ UNCHANGED <<store, min, max, failed, from>>

TxNext == iter.type = "Tx" /\ Answered(tx_next(iter.it))
DiskNext == iter.type = "Disk" /\ Answered(merging_next(iter.it))

MemNext == iter.type = "Mem" /\ Answered(mem_next(iter.it))

Seeked(seek, it) ==
  /\ iter' = [iter EXCEPT !.it = it]
  /\ from' = seek
  /\ out' = <<>>
  /\ over' = FALSE
  /\ UNCHANGED <<store, min, max, failed>>

DiskSeek(seek) == iter.type = "Disk" /\ Seeked(seek, merging_seek(iter.it, seek))
MemSeek(seek) == iter.type = "Mem" /\ Seeked(seek, mem_seek(iter.it, seek))

Next ==
  \/ TxNext
  \/ DiskNext
  \/ MemNext
  \/ \E seek \in {SeekFirst, SeekLast} \cup {SeekBackward(k) : k \in Keys} : DiskSeek(seek) \/ MemSeek(seek)

Spec == Init /\ [][Next]_vars

(***************************************************************************)
(* What a get of the same transaction answers.                             *)
(***************************************************************************)
query_by_scope(t, key) ==
  IF ~Less(key, Start(t)) /\ ~Less(End(t), key) THEN table_query(t, key) ELSE None

FirstAnswer(answers) ==
  LET hits == SelectSeq(answers, LAMBDA a : a # None) IN IF hits = <<>> THEN None ELSE hits[1]

\* Version::query: level 0 from the newest table on, then one table per level.
version_query(version, key) ==
  FirstAnswer(
    [i \in 1..Len(version.level0) |-> query_by_scope(Reverse(version.level0)[i], key)]
    \o [l \in 1..(MAX_LEVEL - 1) |->
          IF version.level[l] = <<>> THEN None
          ELSE query_by_scope(version.level[l][query_meet_index(version.level[l], key) + 1], key)])

\* MemTable::find_: the newest entry of a key.
newest_in(map, key) ==
  LET of == {e \in map : e.key = key}
  IN  IF of = {} THEN None ELSE <<key, (CHOOSE e \in of : \A f \in of : f.seq <= e.seq).value>>

\* MemTable::find_with_sequence_id: what seq may see, in the active map and then
\* in the immutable one.
find_with_sequence_id(st, key) ==
  LET seen(map) == newest_in({e \in map : e.seq <= st.seq}, key)
  IN  FirstAnswer(<<seen(st.mem), seen(st.immut)>>)

\* Transaction::get over the tables of version; the key comes with the value,
\* so that a deleted key can be told from an unknown one.
tx_get(st, version, key) ==
  FirstAnswer(SelectSeq(st.write_buf, LAMBDA kv : kv[1] = key)
              \o <<find_with_sequence_id(st, key), version_query(version, key)>>)

\* The known keys among keys in order, each with what Answer says of it.
Listing(keys, Answer(_)) ==
  LET known == SetToSortSeq({k \in keys : Answer(k) # None}, Less)
  IN  [i \in 1..Len(known) |-> Answer(known[i])]

NoTables == [level0 |-> <<>>, level |-> [l \in 1..(MAX_LEVEL - 1) |-> <<>>]]

\* What merging_with_version takes of a Version.
Merged(version) ==
  [version EXCEPT !.level = [l \in DOMAIN @ |-> IF l \in Tried(version) \ failed THEN @[l] ELSE <<>>]]

(***************************************************************************)
(* Properties.                                                             *)
(***************************************************************************)

\* Transaction::iter answers, in order and once each, the keys within the bounds
\* with exactly the values Transaction::get answers: own writes before the
\* MemTable, newer tables before older ones.  Out of its reach are the last level,
\* the levels that could not be opened, and without a lower bound every table.
IterAgreesWithGet ==
  iter.type = "Tx" =>
    LET reached == IF min = Unbounded THEN NoTables ELSE Merged(store.version)
        expected == Listing({k \in Keys : InBounds(k)}, LAMBDA k : tx_get(store, reached, k))
    IN  IsPrefix(out, expected) /\ (over => out = expected)

\* After a seek VersionIter answers every key of the tables it merges from the
\* key sought on, in order, once each and with the newest value; MemMapIter does
\* so with the keys of its map.  Seek::Backward stands for "an element equal to
\* key or slightly larger", but tables that end below the key sought may put
\* smaller keys in front (README), never behind.
SeekIterComplete ==
  iter.type \in {"Disk", "Mem"} =>
    LET answer(k) == IF iter.type = "Mem" THEN newest_in(store.mem, k)
                     ELSE version_query(Merged(store.version), k)
        all == Listing(Keys, answer)
        expected == CASE from.to = "First" -> all
                      [] from.to = "Last" -> <<>>
                      [] from.to = "Backward" -> NotBelow(all, from.key)
        kept == IF from.to = "Backward" /\ iter.type = "Disk" THEN NotBelow(out, from.key) ELSE out
    IN  /\ \A i \in 1..(Len(out) - 1) : Less(out[i][1], out[i + 1][1])
        /\ IsPrefix(kept, expected)
        /\ over => kept = expected

\* MemTable::range_scan merges the active and the immutable map into the newest
\* entry of each key that the transaction may see, in order: what its two
\* assertions ask for, and the same answers as find_with_sequence_id.
RangeScanExact ==
  iter.type = "Tx" =>
    range_scan(store) = Listing({k \in Keys : InBounds(k)},
                                LAMBDA k : find_with_sequence_id(store, k))
============================================================================
