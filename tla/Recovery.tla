------------------------------- MODULE Recovery -------------------------------
(***************************************************************************)
(* What a restart brings back.  Writes enter the WAL and _mem, the         *)
(* compactor moves _mem to a table of level 0 with the gen of its WAL and  *)
(* starts a new WAL, a compaction merges the tables into one of level 1    *)
(* and removes their files, tables leave and enter the cache, and the      *)
(* process may die and be reopened at any moment.  Level 0 has SSTables,   *)
(* or BTreeTables that live in the cache and in their WAL                  *)
(* (Config::enable_level_0_memorization).                                  *)
(*                                                                         *)
(* The WAL is written with IoType::Direct here: what was written is in the *)
(* file when the process dies.  Its blocks are in LogFormat, the errors of *)
(* insertions in Mvcc, the steps of the version log in VersionLog.         *)
(*                                                                         *)
(* An entry carries its value val, a number that no other write has, since *)
(* recovery replaces its sequence id by 0.                                 *)
(***************************************************************************)
EXTENDS MemTable, TableLoader, FiniteSetsExt, Functions

CONSTANTS
  MaxVal,       \* bound on the writes
  MaxRestarts,  \* bound on restarts
  MaxFailures   \* bound on I/O errors

ASSUME RecoveryConstants == MaxVal \in Nat /\ MaxRestarts \in Nat /\ MaxFailures \in Nat

VARIABLES
  table_type,   \* of level 0
  seq_count,    \* SEQ_COUNT
  mem, immut,   \* TableInner
  gen,          \* GEN_BUF
  files,        \* what TableLoader and LogLoader have: see TableLoader
  log_writer,   \* gen of the WAL in use, and how many records its writer is behind the start
  level0,       \* the logged Version: gens of level 0, the newest last,
  level1,       \*   and of level 1, of which there is one at most
  flushing,     \* gen and values of the minor compaction in progress
  stamped,      \* the commit between its sequence id and its insertion, or {}
  val,          \* the next value
  made,         \* history: with what contents the tables of the Version were created
  installed,    \* history: _immut is on disk
  dirty,        \* history: WALs that were written over, have a commit behind a later
                \*   write, or whose swap failed
  misread,      \* history: a table could not be read, or a BTreeTable of a dirty WAL was
                \*   merged
  restarts, failures

vars == <<table_type, seq_count, mem, immut, gen, files, log_writer, level0, level1, flushing,
          stamped, val, made, installed, dirty, misread, restarts, failures>>

NotFlushing == [gen |-> 0, data |-> {}]

Init ==
  /\ table_type \in {"SortedString", "BTree"}
  /\ seq_count = 1
  /\ mem = {} /\ immut = {} /\ stamped = {} /\ flushing = NotFlushing
  /\ gen = 2
  /\ files = [NoFiles EXCEPT !.wal = With(<<>>, 1, <<>>)]
  /\ log_writer = [gen |-> 1, pos |-> 0]
  /\ level0 = <<>> /\ level1 = <<>>
  /\ val = 1
  /\ made = <<>> /\ installed = TRUE /\ dirty = {} /\ misread = FALSE
  /\ restarts = 0 /\ failures = 0
-----------------------------------------------------------------------------
wal == files.wal[log_writer.gen]

(***************************************************************************)
(* add_record.  After a restart the writer starts at offset 0 of a file    *)
(* that has records: a new one replaces the record there if it happens to  *)
(* be as long, else the reader cannot go past it.                          *)
(***************************************************************************)
add_record(e) ==
  /\ log_writer' = [log_writer EXCEPT !.pos = @ + 1]
  /\ \E log \in IF log_writer.pos = Len(wal) THEN {Append(wal, e)}
                ELSE {[wal EXCEPT ![log_writer.pos + 1] = e],
                      SubSeq(wal, 1, log_writer.pos) \o <<e>>} :
       files' = [files EXCEPT !.wal[log_writer.gen] = log]

Insert(k, s) ==
  LET e == [key |-> k, seq |-> s, val |-> val]
  IN  /\ val <= MaxVal
      /\ val' = val + 1
      /\ add_record(e)
      /\ mem' = mem \cup {e}

(* log_writer.gen becomes dirty if c holds, or if records are written over *)
Dirty(c) == dirty' = IF c \/ log_writer.pos < Len(wal) THEN dirty \cup {log_writer.gen} ELSE dirty

insert_data(k) ==
  /\ Insert(k, seq_count)
  /\ seq_count' = seq_count + 1
  /\ Dirty(FALSE)
  /\ UNCHANGED <<table_type, immut, gen, level0, level1, flushing, stamped, made, installed,
                 misread, restarts, failures>>

(* commit: the sequence id first, then, under the lock, WAL and _mem *)
Stamp(k) ==
  /\ stamped = {} /\ val <= MaxVal
  /\ stamped' = {[key |-> k, seq |-> seq_count]}
  /\ seq_count' = seq_count + 1
  /\ UNCHANGED <<table_type, mem, immut, gen, files, log_writer, level0, level1, flushing, val,
                 made, installed, dirty, misread, restarts, failures>>

insert_batch_data ==
  /\ \E w \in stamped :
       /\ Insert(w.key, w.seq)
       /\ Dirty(check_key_conflict(mem, {w.key}, w.seq))
  /\ stamped' = {}
  /\ UNCHANGED <<table_type, seq_count, immut, gen, level0, level1, flushing, made, installed,
                 misread, restarts, failures>>

CanSwap == flushing = NotFlushing /\ stamped = {} /\ mem # {}

(* swap also opens the next WAL.  It waits for transactions to end. *)
swap ==
  /\ CanSwap
  /\ immut' = mem /\ mem' = {}
  /\ flushing' = [gen |-> log_writer.gen, data |-> unique_by_key(mem)]
  /\ files' = open_wal(files, gen)
  /\ log_writer' = [gen |-> gen, pos |-> 0]
  /\ gen' = gen + 1
  /\ installed' = FALSE
  /\ UNCHANGED <<table_type, seq_count, level0, level1, stamped, val, made, dirty, misread,
                 restarts, failures>>

Fail == failures < MaxFailures /\ failures' = failures + 1

(* The new WAL cannot be opened: _mem has become _immut already. *)
SwapFails ==
  /\ CanSwap /\ Fail
  /\ immut' = mem /\ mem' = {}
  /\ gen' = gen + 1
  /\ installed' = FALSE
  /\ dirty' = dirty \cup {log_writer.gen}
  /\ UNCHANGED <<table_type, seq_count, files, log_writer, level0, level1, flushing, stamped, val,
                 made, misread, restarts>>

DataOf(entries) == [k \in Keys |-> IF \E e \in entries : e.key = k
                                   THEN (CHOOSE e \in entries : e.key = k).val ELSE 0]

Created == create(files, flushing.gen, DataOf(flushing.data), table_type)

minor_compaction ==
  /\ flushing # NotFlushing
  /\ files' = Created
  /\ level0' = Append(level0, flushing.gen)
  /\ made' = With(made, flushing.gen, DataOf(flushing.data))
  /\ flushing' = NotFlushing
  /\ installed' = TRUE
  /\ UNCHANGED <<table_type, seq_count, mem, immut, gen, log_writer, level1, stamped, val, dirty,
                 misread, restarts, failures>>

(* The table, or the record of the version log, cannot be written *)
MinorFails ==
  /\ flushing # NotFlushing /\ Fail
  /\ files' \in {files, Created}
  /\ flushing' = NotFlushing
  /\ UNCHANGED <<table_type, seq_count, mem, immut, gen, log_writer, level0, level1, stamped, val,
                 made, installed, dirty, misread, restarts>>
-----------------------------------------------------------------------------
(* The tables, those that hide others last *)
Tables == level1 \o level0

(* What the tables hold together *)
Merged(d, k) ==
  LET held == {i \in DOMAIN Tables : Contents(d, Tables[i])[k] # 0}
  IN  IF held = {} THEN 0 ELSE Contents(d, Tables[Max(held)])[k]

(* The contents of g exist in the cache and in its WAL only *)
InWal(g) == table_type = "BTree" /\ g \in Range(level0)

(* major_compaction of everything into one table of level 1; the Cleaner removes the rest *)
major_compaction ==
  /\ flushing = NotFlushing /\ level0 # <<>>
  /\ \E data \in {[k \in Keys |-> Merged(files, k)]}, read \in {get_all(files, Range(Tables))} :
       /\ files' = clean(create(read, gen, data, "SortedString"), Range(Tables))
       /\ made' = With(<<>>, gen, data)
  /\ level0' = <<>> /\ level1' = <<gen>>
  /\ gen' = gen + 1
  /\ misread' = (misread \/ \E g \in dirty : InWal(g))
  /\ UNCHANGED <<table_type, seq_count, mem, immut, log_writer, flushing, stamped, val, installed,
                 dirty, restarts, failures>>

(* The LRU cache pushes a table out *)
Evict(g) ==
  /\ g \in DOMAIN files.cache
  /\ files' = [files EXCEPT !.cache = Without(@, {g})]
  /\ UNCHANGED <<table_type, seq_count, mem, immut, gen, log_writer, level0, level1, flushing,
                 stamped, val, made, installed, dirty, misread, restarts, failures>>

(* A query or an iterator gets a table that is not cached, *)
Get(g) ==
  /\ g \in Range(Tables) \ DOMAIN files.cache
  /\ files' = get(files, g)
  /\ UNCHANGED <<table_type, seq_count, mem, immut, gen, log_writer, level0, level1, flushing,
                 stamped, val, made, installed, dirty, misread, restarts, failures>>

(* or cannot read it *)
GetFails(g) ==
  /\ g \in Range(Tables) \ DOMAIN files.cache /\ Fail
  /\ files' = get_fails(files, g)
  /\ misread' = TRUE
  /\ UNCHANGED <<table_type, seq_count, mem, immut, gen, log_writer, level0, level1, flushing,
                 stamped, val, made, installed, dirty, restarts>>
-----------------------------------------------------------------------------
(***************************************************************************)
(* MemTable::new reads the last WAL file only.  All its records get seq 0, *)
(* so that of the records of a key the last remains.                       *)
(***************************************************************************)
reload(log) == {[key |-> k, seq |-> 0, val |-> TableOf(log)[k]] : k \in {log[i].key : i \in DOMAIN log}}

(* Faulty: the oldest WAL *)
newest_wal_Oldest(d) == Min(DOMAIN d.wal)

newest_wal(d) == Max(DOMAIN d.wal)

Restart ==
  /\ restarts < MaxRestarts
  /\ restarts' = restarts + 1
  /\ mem' = reload(files.wal[newest_wal(files)])
  /\ log_writer' = [gen |-> newest_wal(files), pos |-> 0]
  /\ files' = [files EXCEPT !.cache = <<>>]
  /\ immut' = {} /\ flushing' = NotFlushing /\ stamped' = {}
  /\ seq_count' = 1
  /\ installed' = TRUE
  /\ UNCHANGED <<table_type, gen, level0, level1, val, made, dirty, misread, failures>>

Next ==
  \/ \E k \in Keys : insert_data(k) \/ Stamp(k)
  \/ insert_batch_data
  \/ swap \/ SwapFails \/ minor_compaction \/ MinorFails \/ major_compaction
  \/ \E g \in 1..gen : Evict(g) \/ Get(g) \/ GetFails(g)
  \/ Restart

Spec == Init /\ [][Next]_vars
-----------------------------------------------------------------------------
(***************************************************************************)
(* Whatever the cache and restarts did, TableLoader::get of a table of the *)
(* Version gives the contents with which it was created.  A BTreeTable is  *)
(* rebuilt from its WAL: this needs that the WAL was not written over      *)
(* after a restart and has no commit behind a later write of its key.      *)
(* And no table was ever unreadable: an SSTable that cannot be read is     *)
(* replaced by what a WAL of its gen holds, below level 0 by nothing.      *)
(***************************************************************************)
TablesReadBack ==
  ~misread => \A g \in Range(Tables) : (InWal(g) /\ g \in dirty) \/ Contents(files, g) = made[g]

ValOf(found, d, k) == IF found = {} THEN Merged(d, k) ELSE (CHOOSE e \in found : TRUE).val

(* What get returns now, and what it would return after dying now *)
Current(k)   == ValOf(find(mem, immut, k), files, k)
Recovered(k) == ValOf(find(reload(files.wal[newest_wal(files)]), {}, k),
                      [files EXCEPT !.cache = <<>>], k)

(***************************************************************************)
(* If the process dies now, reopening finds the current value of every     *)
(* key, provided that _immut is on disk, that neither the WAL nor that of  *)
(* a BTreeTable was written over (the writer starts at offset 0 of the WAL *)
(* that was recovered) or has a commit behind a later write of its key     *)
(* (_mem orders by sequence id, recovery by place in the file), and that   *)
(* no table was unreadable (which leaves an empty WAL of its gen, maybe    *)
(* the newest).                                                            *)
(***************************************************************************)
Recoverable ==
  /\ installed /\ ~misread /\ log_writer.gen \notin dirty
  /\ \A g \in dirty : ~InWal(g)
  => \A k \in Keys : Recovered(k) = Current(k)
=============================================================================
