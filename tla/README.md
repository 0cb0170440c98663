# A TLA+ verification of KipDB's storage kernel

KipDB is a log-structured merge tree: writes go to a write-ahead log (WAL) and a
MemTable; a background compactor turns MemTables into sorted tables on disk and
merges them down four levels; a `Version` lists the tables of every level and is
replaced as a whole at each change; optimistic transactions read a snapshot by
sequence id. This directory holds TLA+ models of that kernel, the TLC
configurations that check them, and TLAPS proofs of the properties that matter
most. `PROJECT.json` lists the components, the runs with their properties, the
source lines of every definition, the hazards, the findings and the theorems.

Source paths below are relative to `src/src/kernel/`.

## The system and its parts

**Writing.** `KipStorage::set` and `remove` call `MemTable::insert_data`, which
under one lock appends a record to the WAL, draws a sequence id and inserts into
the skip map `_mem`. `Transaction::commit` checks for conflicts, draws a sequence
id and inserts its whole buffer; the check and the insertion take the lock
separately. When the trigger has counted enough items a `Flush` task is sent to
the compactor, through a channel with room for one task.

**Flushing and compacting.** One background task receives `Flush` and `Seek`
tasks. A flush *swaps*: `_mem` becomes `_immut`, a new WAL is opened, and the
newest value of every key becomes a table of level 0 (`minor_compaction`). If the
level is then too full, `major_compaction` merges tables into the next level,
round by round. A swap waits until no transaction is counted in `tx_count`.

**Versions.** Each round ends in `VersionStatus::log_and_apply`: the edits are
appended to the version log (after a snapshot, if the log has become long),
applied to a clone of the current `Version`, and the clone is published. Readers
keep the `Version` they started with.

**Cleaning.** `Version::apply` sends the `Cleaner` task the tables that the new
version no longer lists, and dropping the last reference to a version sends its
number. The `Cleaner` alone removes files.

**Reading.** `get` looks into `_mem`, `_immut` and then the current `Version`:
all of level 0 from young to old, then one table per level found by binary search.
`Transaction::iter` merges the same sources in the same order. `TableLoader` opens
tables; open tables and blocks are kept in `ShardingLruCache`s. An SSTable is a
sequence of prefix compressed blocks with an index block and a Bloom filter; level
0 may consist of BTreeTables, which live in the cache and in their WAL.

**Opening and closing.** A lock file keeps other processes out. The newest WAL is
read back into `_mem`, the version log is replayed. Dropping the handle gives up
the lock and asks for a last flush.

| Part | Source | Module | State |
|---|---|---|---|
| Version switch and Cleaner | `lsm/version/{status,mod,cleaner}.rs` | `VersionCleaner`, abstractly `TableLifetime` | modelled, proved |
| MemTable lookups | `lsm/mem_table.rs` | `MemTable` | modelled |
| Plain operations, transactions, swap | `lsm/{mvcc,storage,mem_table}.rs` | `Mvcc` | modelled, proved |
| KipStorage: channel, trigger, flush, opening, closing | `mod.rs`, `lsm/{mod,storage,trigger,compactor}.rs` | `Storage` | modelled, safety proved |
| Scopes, edits, query | `lsm/version/mod.rs`, `lsm/table/scope.rs` | `Version` | modelled without the seek counter |
| Compactor | `lsm/compactor.rs`, `lsm/mod.rs` | `LsmTree` | modelled, proved |
| Version log | `lsm/version/{status,mod,meta}.rs`, `lsm/log.rs` | `VersionLog` | modelled |
| Blocks of the log files | `lsm/log.rs` | `LogFormat` | modelled |
| Recovery, TableLoader | `lsm/mem_table.rs`, `lsm/log.rs`, `lsm/table/loader.rs` | `Recovery`, `TableLoader` | modelled, proved |
| LRU cache | `utils/lru_cache.rs` | `LruCache`, abstractly `Lru` | modelled without teardown, safety proved |
| File of an SSTable, its search and iterators | `lsm/table/ss_table/*.rs` | `SsTable`, `SsTableFile`, `SsTableIter` | modelled |
| Bloom filter | `utils/bloom_filter.rs` | `BloomFilter` | modelled, proved |
| Iterators, BTreeTable, range scan | `lsm/iterator/*.rs`, `lsm/version/iter.rs`, `lsm/table/btree_table/*.rs`, `lsm/{mvcc,mem_table}.rs` | `Iterators` | modelled |
| Other engines, server, client, CLI | `sled_storage.rs`, `rocksdb_storage.rs`, `../server`, `../bin` | | out of scope: wrappers |

## The modules

Names are the source's where TLA+ allows. A definition ending in `_Something`
next to one of the code's is a *faulty variant*: the same definition with a
plausible mistake. Each property has one that breaks it (`mutants` in
`PROJECT.json`), which shows that the property depends on the code. A variable
called *history* in its comment is not state of the program; it records what a
property has to know of the past.

### VersionCleaner and TableLifetime

A version is its number and its set of tables. `held[r]` is the `Arc<Version>` of
reader `r`; an Arc count is not needed since a version is alive exactly while
`VersionInner` or a reader refers to it. `tags` is the channel, `del_gens` the
Cleaner's list. `log_and_apply` and `Publish` are two actions because the channel
sees the `Add` before the assignment to `inner.version` drops the old version;
the write lock (`applying # 0`) keeps `current()` out in between. `LogFails` is a
`log_and_apply` that returns an error. `ListenNone` is the drain at shutdown.

`TableLifetime` says what all this is for, with two variables: which versions are
in use with which tables, and which tables are removed. Tables of a version in use
are not removed. `VersionCleaner` implements it under the mapping
`pinned <- files of the versions alive`, `removed <- cleaned`, up to the first
write of the version log that fails.

### MemTable and Mvcc

`MemTable` holds the lookups as operators on sets of entries `(key, seq, live)`.
`Mvcc` has one action per stretch of code between two awaits or lock releases:
`GetMem`/`GetVersion`/`RemoveAppend` for the plain operations,
`TxCount`/`TxVersion`/`TxSeq` for `Transaction::new`,
`TxCheck`/`TxStamp`/`TxInsert` for `commit`, `swap`, `minor_compaction` and their
failures. The disk is the newest entry per key; `LsmTree` and `VersionLog` look
inside. The store starts with any keys on disk and any keys recovered from a WAL.
`written` records all insertions, so that "the newest write up to a sequence id"
can be said without reference to where the code keeps it.

### Storage

What `Mvcc` does not ask: who asks for a flush, when it happens, and which store
may write. A handle is a `KipStorage` in a process of its own; clients call its
methods and may own a transaction that outlives it. Data is counted, not looked
at: `written` items in all, of which `mem` are in `_mem`, `moving` are between
`swap` and the end of the minor compaction, and `flushed` are in a Version.
`try_send` drops a task when the channel is full; `FlushSend` waits for room.
`Cancel` is a future dropped at an await: a `Transaction::new` cancelled there
leaves its count behind, after which no swap ever happens, and a `flush` that was
sent is done without a receiver for its answer. A dropped handle still has its
background task, which works off the channel until the last sender, be it a
transaction, is gone. `OpenStart` reads the clock (`Gen::init`) before
`OpenLocked` takes the lock, as `open_with_config` does. `Budgets` bounds a
behaviour by how often each kind of call happens in it.

### Version and LsmTree

`Version` is the pure part: `meet`, `fusion`, `tables_by_scopes` (as `met_scopes`
and `first_index`), `apply` with its two edits, and the binary search. What filters a
level is `Pick`, and the stable sort places a scope by how many come before it. In
`LsmTree` a scope carries its table's contents, a value being the number of the
flush that wrote it. `MajorRound` is a whole round of the loop of
`major_compaction` including `log_and_apply`; the edit of a minor compaction is
applied with the first round, as in the code. `data_sharding` cuts by the sizes of
the pairs, of which several assignments are tried (`Sizes`). A merge of length 0,
which is the empty key alone, deleted or with an empty value, gets no shard at all
(`lsm/mod.rs:26`) and its pair is lost: `dropped` records it. What
`binary_search_by` returns on an unordered level is unspecified by Rust: any
offset is.

### VersionLog

`log_and_apply` in steps: a snapshot creates a file, writes the whole version,
removes the old file; then the record is appended and the version published. The
process may die between any two steps, or inside a record (`RestartTorn`), and
is reopened with `snapshot_gen`, `load` and `apply`. `Fails` is an I/O error at
any of the writes. The edits of compactions are arbitrary subsets of the tables of
levels 0 and 1. A table has two lengths: `len`, the entries it was created with, and
`records`, those of its WAL. They differ only for a `BTreeTable` of level 0
(`enable_level_0_memorization`) whose keys were overwritten: it has no file, and once
the loader's cache has dropped it (`evicted`), or after a restart, it is rebuilt from
the WAL with `len = data.len()`, duplicates included. `collect_gen` subtracts the length
that a table has then; `drift` adds up by how much that is more than what was added.
The version log is written directly, so what was written survives the process.
`Intact` says that the file opening will choose is the one that gets the records, and
that none stands behind a torn one; it can be lost by a fault and regained by a restart
or a snapshot, and the recovery properties are stated for every state in which it holds.

### LogFormat

The files under both logs, as a sequence of cells: three for a header, one for a
byte of data, each carrying the number of the record it was written for.
`add_record` cuts records at the ends of blocks; `AddFails` stops it behind any
cell, with the block offset the writer then has; with `Crash` only a prefix of what
was written since the opening has reached the file. `read` is one iteration of
the reader's loop, with its own idea of where a block ends. A WAL is written again
from its start, a version log at its end, by a writer whose block offset is 0 in
either case; `trusted` says which records can be read all the same. A checksum is
idealised: it fits the bytes it was computed of and no others. Zeros that pad a
block are a header whose checksum fits, with any type.

### Recovery and TableLoader

`TableLoader` is the loader over three maps: `.sst` files, WAL files, cached
tables. `get` falls back to the WAL of the same gen when a file cannot be read and
creates the files it opens; `clean` removes cache entry, table and WAL, and stops
at the first that is missing. A compaction calls both for several gens; as each gen
has files of its own, `get_all` and `clean` take the set of them.

`Recovery` puts it below the MemTable: writes enter the WAL and `_mem`, flushes
make SSTables or BTreeTables with the gen of their WAL, a compaction merges
everything into level 1 and cleans, tables are evicted and read again, reads fail,
and the process dies anywhere. `Restart` reads the newest WAL; every record gets
sequence id 0, so the last record of a key wins; the writer then starts at
position 0, and what a record written over an older one leaves readable behind it
depends on its length: either the rest or nothing. The WAL is taken to be
`IoType::Direct`; with the default `Buf` the tail of the file may be missing as
well, so every loss shown here exists there too.

### LruCache and Lru

`heap` is memory: a node or `Free` at every address, so that a dangling or
crossed pointer is visible as such. The operations are written on a shard opened
together with the memory (`detach`, `attach`, `expulsion` as in the code) and are
one step each, since each holds the mutex of its shard, also while the loading
function of `get_or_insert` runs. `refs` are the `&V` that clients hold after the
lock is released. A `put` or `remove` of a key frees its node; that nobody uses a
reference to it any more is the caller's obligation (for tables: the Cleaner's),
so such a step ends those references. An evicted node is never freed.
`ListMatchesMap` says that a shard's nodes can be arranged in a chain, each mapped
node once, with `next` and `prev` going along it between `head` and `tail`.
`order` is the list as an observer sees it, and `Lru`, with one sequence per shard,
says what every operation does to it.

### SsTable, SsTableFile, SsTableIter and BloomFilter

`SsTable` holds operators only: building blocks and their restart groups,
`binary_search` over compressed keys, the two-level `query`, and the moves of
`BlockIter` and `SSTableIter`, each yielding the iterator after the move and the
item. Keys and values are short sequences of bytes, because shared prefixes are
what the code is about. A value is stored with its length alone, so that an empty
one comes back as deleted (`Stored`). Rust leaves open which of several equal
entries a binary search finds; keys of a table are distinct.

`SsTableFile` is the file: entries, blocks with their checksums, index, meta block
with the encoded filter, footer, each written and read back by offset. Numbers take one
cell whatever their width is, since no property depends on it. `meta_len`
is too long by twice the length of the index block (`ss_table/mod.rs:83`), so the
filter that is read back has a longer bit vector than the one that was written;
`load_from_file` and the theorem `LongerVectorAgrees` show that it answers the
same. The block checksum is compared with one computed over data *and* stored
checksum, and a block is refused when they are equal (`block.rs:568`), which never
happens to a block that was written; that a damaged block is refused is not
claimed. CRC and LZ4 are functions without collisions. `BloomFilter` keeps the
arithmetic of the indexes with hashes that wrap; the hash functions are
parameters.

`SsTableIter` builds a table from any subset of the keys, uses it as written or as
loaded from its file, and lets a client query and move. `pos` is where in the data
an iterator of that history should be; it is `Lost` when the code gives no such
place (see below).

### Iterators

Every source is an iterator value with a `kind`: a buffer (`BufIter` for the
MemTable, `InnerIter` for the transaction's writes), a table (`SSTable` or
`BTree`), or a level. `MergingIter` and `SeekMergingIter` share their operators as
they share their macros. A store is what a transaction finds: its writes, both
maps of the MemTable, its sequence id and its `Version`. A transaction's MemTable
cannot be swapped while it lives, and `range_scan` copies what it needs under the
lock, so the store does not change during an iteration. `failed` is any set of levels
for which `LevelIter::new` returns an error other than that the level is empty.
`tx_get`, translated from `Transaction::get`, is the reference the iterators are
compared with.

## What is checked

| Run | Question | Bounds |
|---|---|---|
| `cleaner` | is every table kept while needed, accounted for, removed once, and removed in the end; is TableLifetime implemented? | 2 readers, 4 versions, 5 tables, 1 failure |
| `mvcc_tx` | are snapshots and the conflict check right? | 1 key, 2 transactions, 5 sequence ids, 1 failure |
| `mvcc_plain` | is a write ever hidden on its way to disk? | 2 keys, 1 transaction, 1 client, 3 sequence ids |
| `mvcc_race` | does the second of two conflicting commits fail? (it need not: see below) | 1 key, 2 transactions, 5 sequence ids |
| `storage` | does a flush bring to disk what it promises, is it answered, is the right WAL written? | 2 handles, 2 clients, threshold 2, three budgets of calls |
| `lsm_tree` | do compactions keep levels disjoint and the newest value on top? | 3 keys, threshold 1 with 3 tasks or 2 with 4 |
| `version_log` | does reopening find the tables after a crash anywhere? | snapshot every 2 edits, 9 gens, WALs of 2 records, tables of 1 or 2 entries, 2 restarts (each may tear a record) or I/O errors |
| `log_format` | does a log give back what was written to it, and does reading it end? | blocks of 8 cells, records of 2, 3 and 7, 3 records, 3 openings, 1 failure |
| `recovery` | does reopening find the values after a crash anywhere? | 2 keys, 3 writes, 2 restarts, 1 failure |
| `lru_cache` | does the pointer code implement an LRU cache, with references that survive evictions? | 4 keys, 2 shards of 2 entries, 4 nodes, 1 reference |
| `ss_table` | do table files answer queries and iterations with what was stored? | all tables over 6 keys, block sizes 1, 5 and 100, restart intervals 2 and 3, 2 pairs of hash seeds |
| `iterators` | does iterating answer what get answers? | 3 keys, 4 kinds of source, 8 pairs of bounds, any levels unreadable |

All but the last three set `CHECK_DEADLOCK FALSE`: the counters that bound the
models stop them, and a store nobody uses may stay idle. A cache and an iterator
always answer, so the last three check for deadlock.

**Why these bounds.** The Cleaner's hand-over needs three versions, of which the
middle one is dropped first; a fourth gives it something to do afterwards. Two
transactions are what each of the snapshot and conflict arguments is about, and a
third plain writer is always there; five sequence ids let both start, both commit
and one write come between. `mvcc_plain` has the second key because a flush must
leave some key of the disk alone. The budgets of `storage` are two writers and two
flushes with an error and a Seek in the channel; transactions that overlap a flush,
with cancelled calls; and handles dropped with something left behind and opened
again, with a clock that may be behind. Three keys are the least for which a table lies
strictly between, or spans, two others; the sizes in `lsm_tree` give one shard, cuts
in different places, an empty first shard, and none for the first key alone. A snapshot
of the version log every two edits happens in nine gens also right after a restart, of a
level out of the order of its gens, and with the statistics already off; two faults are
a torn record or a failed snapshot and the restart that has to cope with it; two records
are the least for which a rebuilt table counts more than it holds. In `log_format`
a record of 2 leaves exactly the room of a header, one of 3 less than that, and one of
7 needs two blocks. Three writes in `recovery` are one that is recovered and two
that go over it or to the next WAL. Three keys
compete for a shard of two entries, so evictions happen and a node can be head,
tail, both or neither; the fourth node is the last the allocator has, after
which only hits and frees are possible, since evicted nodes stay allocated. The six
keys of `ss_table` include prefixes and siblings of each other, and the block sizes
give one key per block, a few, and a single block; with the second pair of seeds all
keys share a bit of the filter. In `iterators` three keys are the
least with one below, at and above a bound; the stores have a table that ends below
it, a gap between two tables of a level, deleted keys, keys held by several sources
and entries newer than the transaction. Bounds with `min` above `max`, for which
`BTreeMap::range` panics, are not asked for. Transactions (`mvcc_tx`), keys
(`recovery`) and addresses and values (`lru_cache`) are declared symmetric, which
no property of these runs can tell; liveness is checked without symmetry.

**Fairness.** In `cleaner`, weak fairness of the Cleaner's receive loop: it is a
spawned task that does nothing but receive, and its actions are enabled until
taken. In `storage`, weak fairness of the background task, for the same reason, and
strong fairness of a sender waiting for room in the channel: Tokio's channel hands
out its permits in the order of waiting. In `log_format`, weak fairness of the
thread that reads. Nothing is assumed of readers, which may hold a version for
ever, of clients and their transactions, or of the clock.

### Where code and expectation disagree

`mvcc_race` checks what a test of the repository asserts, that the second of two
overlapping transactions which write the same key fails in `commit`. TLC shows two
commits that pass `check_key_conflict` together and both succeed, since the check and
the insertion lock the MemTable separately (`findings`).

The passing runs state what holds in spite of this and of the following; their
properties have the weakest provisos we found. Each proviso marks a behaviour that
TLC shows when the proviso is left out of the property:

| Property | Proviso | Without it |
|---|---|---|
| `SnapshotMovesOnlyByLateCommit` | the exception it names | a transaction started between a commit's sequence id and its insertion sees its snapshot change |
| `NoLostWrite`, `GetFresh`, `SnapshotCorrect` | `failures = 0` | the data of a failed swap or minor compaction is dropped by the next swap |
| `FlushDurable` | `~failed` | after a failed flush the data stays in `_immut`; the next `flush()` returns `Ok` without it |
| `OverfullExplained`, `ClosedFlushed` | `~missed` | `try_send` drops a Flush behind a Seek: the store stays above its threshold, or is closed with its last data in the WAL only |
| `FlushAnswered` | no transaction counted from some time on | `swap` spins while `tx_count` is not 0: for ever if a transaction is never ended, waits for the flush itself, or was cancelled in `Transaction::new` |
| `WalIsNewest` | `~setback` | `Gen::init` reads the clock before the lock is taken; if another process opened and closed the store in between, or the clock was set back, the WAL of the next swap is not the newest |
| `WalIsNewest` | `~late` | a dropped handle has given up the lock and may still swap |
| `NoHeldTableRemoved`, `ImplementsTableLifetime` | `failures = 0` | a failed `log_and_apply` drops a clone that carries the current version's number; tables of a held version are removed later (`version/cleaner.rs:66` says that the first entry has no earlier version in use) |
| `NewestOnTop` | `~split` | `data_loading_with_level` moves only the level 0 tables that meet the scope of the new one; a newer table moves below an older one and the overwritten value returns |
| `NewestOnTop`, `QueryNewest` | `~dropped` | a merge of the empty key alone, deleted or with an empty value, gets no table: the pair is gone, and with it what hides an older value in a level further down |
| `QueryNewest` | `Ordered` | tables that meet nothing in the next level are inserted at index 0 (`tables_by_scopes`), which takes the order that the binary search needs; `OrderLostOnlyAtIndexZero` says that nothing else does |
| `TablesRecovered`, `Level0OrderRecovered`, `LevelsRecovered` | `Intact` | edits appended behind a torn record are never read; after a failed snapshot, later edits go to a log file that opening removes |
| `LevelsRecovered` | `~unsorted` | a snapshot is read back in the order of gens, not of keys |
| `MetaAccurate` | `failures = 0`, `torn = 0` | the statistics of the edits that `Intact` is about are lost with them |
| `MetaAccurate` | `~forgotten` | a snapshot with an empty level 0 loses the statistics |
| `MetaAccurate` | `drift` | a level 0 table rebuilt from its WAL is subtracted with the number of its records, not of its entries. The sum may then go below 0, which the unsigned `len` cannot, although `statistical_process` adds first to avoid just that (the comment at `version/meta.rs:19`) |
| `TrustedRead` | `trusted` | a version log that is appended to is read up to the end of the block in which writer and reader disagree on where blocks end |
| `NothingElse` | the exception it names | whole fragments of a torn record come back as a record |
| `LoadEnds` | `TornHeader` | the loop of `read` never ends in a file that ends inside a header |
| `Recoverable` | `installed` | only the newest WAL is read, also while the table of the previous one is being written |
| `Recoverable`, `TablesReadBack` | `dirty` | after a recovery, new records go over recovered ones; and recovery orders by place in the WAL, memory by sequence id |
| `Recoverable`, `TablesReadBack` | `~misread` | a table whose file cannot be read is replaced by what the WAL of its gen holds, below level 0 by nothing; the empty WAL this creates may be the newest |
| `IterAgreesWithGet`, `SeekIterComplete` | `Merged` | `merging_with_version` stops before the last level (`1..MAX_LEVEL - 1`), which `query` reads; and a level whose first table cannot be loaded or read when the iterator is made (`failed`) is left out without an error, since `if let Ok` (`version/iter.rs:33`) takes every error for an empty level |
| `IterAgreesWithGet` | `min = Unbounded` | without a lower bound the iterators of the tables are dropped (`mvcc.rs:174`); `examples/scan_read.rs` iterates that way |
| `SeekIterComplete` | smaller keys in front | a seek above every key of a table leaves its iterator where it was, so smaller keys follow, whereas `iterator/mod.rs:13` says of `Seek::Backward`: "与key相等或稍大的元素" (an element equal to key or slightly larger); `TransactionIter` skips them |
| `IterReturnsData` | `pos # Lost` | `try_prev` after running off an end or after a seek repeats or skips items, since the index iterator is one place ahead; only tests call it |
| `QueryExact` | `Stored` | an empty value is read back as deleted |

A commit whose WAL record fails (`TxInsertFails`) returns an error although its
entries are visible.

## What is proved

The theorems hold for every value of the constants that meets the named
assumptions, which say that bounds are numbers, that there is a key, that the keys of
the tree are finitely many integers (`LsmConstants`, where only their order counts),
that the clients `tx_count` counts are finitely many and that special values are no
ordinary ones. No proof bounds the number of keys, clients, transactions, versions or nodes.
Every invariant below is a conjunct of, or follows from, an inductive one.

### VersionCleanerProofs (assumes `CleanerConstants`)

* `TypeCorrect`: `Spec => []TypeOK`.
* `NewestStaysIntact`: `Spec => []NewestIntact`. The strengthening `OrderInv` adds
  `Sorted` (the version numbers in `del_gens` followed by those of the `Add`s in
  the channel increase strictly up to the newest) and `Known` (all tables
  mentioned anywhere are below `gen`, so new tables are fresh).
* `HeldTablesSafe`: `Spec => []NoHeldTableRemoved`. This needs `SafeInv`, the heart
  of the matter: while no write of the version log has failed, a `Clean` in the
  channel names a dead version whose `Add` precedes it (`CleanTags`), a version
  alive has an entry (`HeldHasEntry`), and a table listed by a version `v` that has
  an entry is not removed and waits under no number below `v` (`Kept`). So when the
  `Clean` of the first entry `w` arrives, a table waiting there can be listed only
  by versions with an entry up to `w`; as `w` is first that is `w` itself, which is
  dead. And handing the tables of a later entry to the one before it keeps `Kept`,
  because no version with an entry lies between the two. The Cleaner may decide by
  position only because of this.
* `GarbageIsAccounted`, `TablesAreRemovedOnce`, `NoEntryIsOrphaned`:
  `GarbageAccounted`, `RemovedOnce` and `NoOrphanEntry`, after I/O errors too. They
  rest on `TidyInv`: a table that was given up is removed or waits under some version
  (`Accounted`), under one only and not once it is removed (`Once`), and no `Clean`
  overtakes the `Add` of its version (`CleanOrder`), without which an entry would come
  after the tag that takes it out.
* `CleanerRefinement`: `Spec => ImplementsTableLifetime`, initial state and every step
  up to the first failure; `CleanerRefinementForGood`: with `MaxFailures = 0`,
  `Spec => Lifetime!Spec`.

### MvccProofs (assumes `MvccConstants`)

* `WritesAreNotLost` (`NoLostWrite`), `GetIsFresh` (`GetFresh`), `SnapshotsAreCorrect`
  (`SnapshotCorrect`), `ConflictsAreInMem` (`ConflictComplete`), and the action
  property `SnapshotsMoveByLateCommits` (`SnapshotMovesOnlyByLateCommit`), all from
  `MvccInvariant`. The first three are stated while no I/O error has occurred, the
  other two hold after errors as well.
* The invariant is about layers. Sequence ids are used once (`UniqueInv`), and a
  commit that has its id but is not inserted is newer than everything that has left
  `_mem` (`StampInv`): this is what the wait of `swap` for `tx_count` achieves, and
  `CountInv`, the count is exactly the number of live transactions, is what the wait
  needs. `LayerInv` then says that `_immut` is older than `_mem`, that a Version, the
  current one or that of a transaction, holds one entry per key, which is in `_immut`
  or older than all of it, and that without errors it covers whatever is in neither
  map. `FlushInv` says the same of what a minor compaction is about to add. One
  lemma (`Fits` implies that `Read` is `NewestOf`) turns this into the answers of
  `get`, for the plain get and for the snapshot alike.
* `ClientInv` bridges the two lookups of a get: what it missed in the MemTable the
  current Version has, although swap and compaction may come between.

### StorageProofs (assumes the three `ASSUME`s of Storage)

* `FlushIsDurable`, `ClosedIsFlushed`, `OverfullIsExplained`, `WalIsAlwaysNewest`, from
  `StorageInvariant`. The conjuncts that need cardinalities come last.
* `BalanceInv` (`written = mem + moving + flushed`) and `DurableInv` (what is moving
  covers the need of the flush that is worked on) give `FlushDurable`; `AskInv` ties a
  Flush in channel or task to one client that waits for it. `ClosedInv`, a dropped
  store has a Flush to come or nothing left to flush, needs that transactions keep the
  background task waiting in `swap` (`CountInv`, by cardinality, with `<=` because a
  cancelled `Transaction::new` leaves its count). `OverInv` says that above the
  threshold a Flush is on its way or the client that saw it is about to send it.
  `WalInv` adds to `WalIsNewest` that the next gen is above every WAL, which is what a
  swap needs; `LockInv` keeps others from swapping meanwhile.

### LsmOperators, LsmProofs (assume `LsmConstants`)

* `TablesListedOnce` (`NoTableTwice`), `LowerLevelsDisjoint` (`LevelsDisjoint`),
  `NewestStaysOnTop` (`NewestOnTop`), `QueryFindsNewest` (`QueryNewest`) and the action
  property `OrderKeptWhereTablesMeet` (`OrderLostOnlyAtIndexZero`), from `LsmInvariant`,
  for any finite set of keys, any sizes (0 included), threshold, magnification and file
  size, and any number of compactions, whichever of them fail.
* `GenInv`: every table of the tree, and the table of a minor compaction that waits for
  its first round, has a gen of its own, below `gen` and different from `wal_gen`; level 0
  is in the order of its gens and the waiting table is younger than all of it.
  `DisjointInv`: no two tables of a lower level meet. `TopInv`: while `split` and `dropped`
  are FALSE the newest stamp of a key is in the uppermost table that has the key, in level 0 in the
  youngest. `NewestOnTop` alone is not inductive: it says nothing of the values that a
  round is about to uncover, and needs the other two to know which table those are in.
* One lemma, `RoundStep`, says what a round of `major_compaction` does in terms of sets of
  tables: it takes A from level l and B, all that meets the fused scope of A, from level
  l + 1, and puts in C, which holds the data of A over that of B. `RoundGen`,
  `RoundDisjoint` and `RoundTop` are then arguments about sets. The second rests on
  `Untouched`, a table that does not meet the fused scope meets no new table either, even
  where merged tables stick out of that scope; the third on `Unsplit`, no table that stays
  in level 0 is older than one that leaves and shares a key with it, which `~split` gives
  (`UnsplitIs`).
* `InsertOrdered` is the argument for the order: in an ordered level the tables that meet
  the fused scope are neighbours, everything before the first of them ends before the new
  tables and everything left behind it starts after them. It needs a first one, hence the
  exception for index 0. `FoundIs` says that in an ordered level the binary search ends at
  the one table that may hold the key.
* `LsmOperators` has what the operators compute for input of any length: `Pick`, the
  stable sort by gen (`SortIs`), `part_size` and `ShardKeys` (every key is in one shard, in
  order, and there is room for all of them), `data_merge`, `fusion`, `met_scopes`,
  `first_index`, `apply` of the edits of one round. Inductions are done by the least
  counterexample (`LeastBad`), which needs no theorem with an operator parameter.

### RecoveryProofs (needs no assumption)

* `TablesAreReadBack` (`TablesReadBack`) and `StoreIsRecoverable` (`Recoverable`), from
  `RecoveryInvariant`, for any number of keys, writes, restarts, errors and tables, with
  the provisos of the two properties (above). The invariant claims nothing once `misread`
  is set; no step resets it.
* Two conjuncts carry the result. `WalInv`: the last records of the WAL in use are the
  newest entries of `_mem`, key by key, unless the WAL is dirty; an insertion appends to
  one (`TableAppend`) what it adds to the other (`NewestAdd`), and a restart makes the
  second from the first (`ReloadIs`), its ids all 0. `ImmutInv`: once its table is in the
  Version, the newest entry of a key in `_immut` is what the tables hold together, so that
  it may vanish; a compaction may then merge those tables, since the merge holds the same.
* `TableInv` says where each table is: in its `.sst`, or, for a BTreeTable, in its WAL
  with no readable `.sst` of its gen beside it, and that a cached copy is the same.
  `GenInv` says that the WAL in use is the newest and that no table, file or cache entry
  has its gen: this is why `newest_wal` finds it, and why `clean` of a compaction leaves
  it alone. `FlushInv` carries both over a flush in progress: its WAL still holds what it
  is going to write.
* That the last record of a key and the newest entry exist is shown by well-founded
  descent (`Greatest`), once for sets of bounded numbers.

### LruCacheProofs (assumes the `ASSUME`s of LruCache)

* `ListsMatchMaps` (`ListMatchesMap`) and `ReferencesAreStable` (`ReferencesStable`),
  from `LruCacheInvariant`, for any number of keys, shards, addresses and any capacity.
* The first half reasons about the pointers: `detach` of a node in a list leaves the
  list without it, in the four cases of a neighbour being null or not, `attach` puts
  one in front, and neither touches a node outside. `Sound(s, c)` says that the map of
  an opened shard and its list have the same nodes and that a node is mapped under its
  own key, which belongs to the shard; every operation is a composition of lemmas that
  keep it (`TakeOut`, `PutInSound`, `Touch`, `ExpulsionSound`, `EnterSound`).
* The second half puts shards together. Because nodes are mapped under their own key,
  two shards share no node, so an operation on one frames the others (`SoundFrame`).
  `HeapInv` says that allocated nodes are those mapped or evicted and none is both.
  A reference to an evicted node survives since only mapped nodes are freed; one to a
  mapped node, since only its own key frees it.

### BloomFilterProofs (assumes `BloomConstants`)

* `NoFalseNegative`: after `insert(f, e)` the filter contains `e` and whatever it
  contained. It rests on `IndexInBits`: `get_index` is always a bit of the vector,
  wrapping included. This is what makes it right for `SSTable::query` to answer from
  the filter alone.
* `LongerVectorAgrees`: a filter read back with bytes behind its vector answers the same.

### What is only model-checked

* Liveness (`DroppedTablesReclaimed`, `FlushAnswered`, `LoadEnds`): the prover handles
  neither fairness nor ENABLED.
* `ImplementsLru`: its mapping reads the list off memory with a recursive function
  (`Chain`) and the abstract cache filters sequences; each would need its own argument
  by least counterexample, as in `LsmOperators`, which has not been made.
  `ListsMatchMaps` proves what the mapping rests on.
* `VersionLog`: the replay of a log is a recursive function of its length, as `apply` is
  of the number of its edits. `LsmOperators` has what one edit does; that a replay of any
  length gives the Version back is not proved.
* `LogFormat`, `SsTable*`, `Iterators`: what they state is about the results of recursive
  operators and folds over sequences of any length. The theorems on induction take an
  operator as a parameter, which the installed provers cannot instantiate, and their SMT
  backend is lost in a module that reaches a `RECURSIVE` operator, as `Iterators` does.
* `FirstCommitterWins` does not hold.

## What is not modelled

The counter of missed seeks in a `Scope` is replaced by "a Seek may be sent at any
time", and of the minor trigger the variant that counts items is modelled, not the one
that adds up sizes. Buffered WAL writes, memory reclamation of the skip map, `Drop` of
the caches, configuration and logging are left out. Checksums and compression are
idealised as described. I/O errors fail the whole call, with these exceptions: in
`LogFormat` a write may stop anywhere; a level that cannot be opened is missing from an
iterator (`Iterators`); and a table whose file cannot be read is rebuilt from its WAL
(`Recovery`). If that fails too, `TableLoader::get` gives no table and its callers pass
over it without an error: `query_by_scope`, `tables_by_level_0`, `tables_by_scopes` and
`LevelIter` on its way to a later table. Only the first table of a level is modelled so;
elsewhere, in compactions too, a table is loaded or rebuilt, or the call fails.
Integers are unbounded: sequence ids and gens are 64-bit counters that no run of the
program exhausts; the unsigned subtractions that can go wrong, of the statistics and of
the reader's block offset, show as a negative number and as the two outcomes of a build
with and without overflow checks. The other engines, the server, the client and the
command line wrap one call each.
