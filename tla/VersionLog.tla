------------------------------ MODULE VersionLog ------------------------------
(***************************************************************************)
(* The persistence of Versions: log_and_apply step by step (snapshot,      *)
(* record, publication), and a process that may die and be reopened        *)
(* between any two of its writes.  A log file is the sequence of its       *)
(* records, a record the edits of one log_and_apply.  What a write of the  *)
(* DirectIoWriter has put into a file survives the process.                *)
(*                                                                         *)
(* A scope is the gen of its table: the log treats start and end as a      *)
(* payload.  It carries what Table::len says of the table, which the       *)
(* statistics sum: len when the loader made it, records when the loader    *)
(* has to read it again.  An SSTable has one count.  A BTreeTable has no   *)
(* file of its own and is rebuilt from its WAL, where a key that was       *)
(* overwritten has several records.                                        *)
(***************************************************************************)
EXTENDS Version, SequencesExt

CONSTANTS
  SnapshotThreshold,  \* ver_log_snapshot_threshold
  MaxGen,             \* bound on gens, of tables and of logs
  MaxLen,             \* records of a WAL, bound on the entries of a table
  MaxFaults           \* bound on restarts and I/O errors

ASSUME VersionLogConstants ==
  /\ SnapshotThreshold \in Nat /\ MaxGen \in Nat /\ MaxLen \in Nat /\ MaxFaults \in Nat

VARIABLES
  levels,     \* level_slice of the current Version
  meta,       \* meta_data.len of the current Version
  edits,      \* argument of the log_and_apply that runs
  pc,         \* its next step, "idle" if none runs
  logs,       \* the log files: gen -> sequence of records
  writer,     \* gen of ver_log_writer
  old,        \* old_gen during a snapshot, else 0
  count,      \* edit_approximate_count
  gen,        \* the next Gen::create()
  reloaded,   \* gens of level 0 whose tables count the records of their WAL
  unsorted,   \* history: a snapshot holds a level that is not in gen order
  forgotten,  \* history: a snapshot holds tables and no statistics
  drift,      \* history: what removals subtracted beyond what was added
  restarts, torn, failures

vars == <<levels, meta, edits, pc, logs, writer, old, count, gen, reloaded,
          unsorted, forgotten, drift, restarts, torn, failures>>
disk == <<logs, writer, old, count, gen>>
counted == <<reloaded, drift>>
history == <<unsorted, forgotten, restarts, torn, failures>>

Torn == <<[edit |-> "torn"]>>

Init ==
  /\ levels = level_slice_new /\ meta = 0
  /\ edits = <<>> /\ pc = "idle"
  /\ logs = [g \in {1} |-> <<>>] /\ writer = 1 /\ old = 0
  /\ count = 0 /\ gen = 2
  /\ reloaded = {} /\ drift = 0
  /\ unsorted = FALSE /\ forgotten = FALSE
  /\ restarts = 0 /\ torn = 0 /\ failures = 0
-----------------------------------------------------------------------------
(***************************************************************************)
(* Edits with their TableMeta.  All additions are counted before all       *)
(* removals; the sum is the same, since unbounded integers stand for usize *)
(* here (a negative meta is a subtraction that overflows).                 *)
(***************************************************************************)
WithMeta(edit, n) == edit @@ [meta |-> n]

statistical_process(m, es) ==
  FoldLeft(LAMBDA acc, e : IF e.edit = "NewFile" THEN acc + e.meta ELSE acc - e.meta, m, es)

(* Faulty: an edit for each table of level 0, the newest first. *)
to_vec_edit_NewestFirst ==
  LET level(l) == WithMeta(NewFile(levels[l], l, 0), IF l = 0 THEN meta ELSE 0)
      one(i) == WithMeta(NewFile(<<levels[0][i]>>, 0, 0), 0)
      n == Len(levels[0])
  IN  [i \in 1..n |-> one(n + 1 - i)]
      \o SelectSeq([l \in 1..(MAX_LEVEL - 1) |-> level(l)], LAMBDA e : e.scopes # <<>>)

(* Faulty: an edit for each table, all inserted at index 0. *)
to_vec_edit_OneByOne ==
  LET level(l) == [i \in DOMAIN levels[l] |->
                     WithMeta(NewFile(<<levels[l][i]>>, l, 0), IF l = 0 /\ i = 1 THEN meta ELSE 0)]
  IN  FlattenSeq([i \in 1..MAX_LEVEL |-> level(i - 1)])

(* Faulty: every level carries the statistics. *)
to_vec_edit_MetaEverywhere ==
  LET level(l) == WithMeta(NewFile(levels[l], l, 0), meta)
  IN  SelectSeq([i \in 1..MAX_LEVEL |-> level(i - 1)], LAMBDA e : e.scopes # <<>>)

to_vec_edit ==
  LET level(l) == WithMeta(NewFile(levels[l], l, 0), IF l = 0 THEN meta ELSE 0)
  IN  SelectSeq([i \in 1..MAX_LEVEL |-> level(i - 1)], LAMBDA e : e.scopes # <<>>)

GensAt(slice) == {slice[i].gen : i \in DOMAIN slice}

(***************************************************************************)
(* What the compactor passes: a flushed table, tables merged into level 1, *)
(* or both.  What is removed counts with the length it has when the merge  *)
(* loads it: evicted are the gens the loader's cache has dropped by then.  *)
(***************************************************************************)
Entries(tables) == MapThenSumSet(LAMBDA t : t.len, tables)

collect_gen(tables, l, again) ==
  WithMeta(DeleteFile({t.gen : t \in tables}, l),
           MapThenSumSet(LAMBDA t : IF t.gen \in again THEN t.records ELSE t.len, tables))

(* A flushed table: MaxLen records in the WAL, of as many keys or fewer *)
Counts == [len : 1..MaxLen, records : {MaxLen}]

(* Gens of tables that are longer when they are read again *)
Recounted(tables) == {t.gen : t \in {t \in tables : t.records # t.len}}

(* A merge keeps every key once.  (One that is left without tables is in LsmTree.) *)
Merges(lens, tables) ==
  LET sum == FoldLeft(+, 0, lens)
  IN  sum <= Entries(tables) /\ \A t \in tables : t.len <= sum

Minor(c) == <<WithMeta(NewFile(<<[gen |-> gen] @@ c>>, 0, 0), c.len)>>

Major(g, lens, T0, T1, evicted) ==
  LET new == [i \in DOMAIN lens |-> [gen |-> g + i - 1, len |-> lens[i], records |-> lens[i]]]
      met == {i \in DOMAIN levels[1] : levels[1][i] \in T1}
      index == IF met = {} THEN 0 ELSE Min(met) - 1
      again == reloaded \cup evicted
  IN  <<WithMeta(NewFile(new, 1, index), Entries(ToSet(new))),
        collect_gen(T0, 0, again), collect_gen(T1, 1, again)>>
-----------------------------------------------------------------------------
log_and_apply(es, n, evicted) ==
  /\ pc = "idle" /\ gen + n <= MaxGen
  /\ edits' = es
  /\ gen' = gen + n
  /\ IF count >= SnapshotThreshold
     THEN pc' = "snap_create" /\ UNCHANGED count
     ELSE pc' = "log" /\ count' = count + 1
  /\ reloaded' = reloaded \cup evicted
  /\ UNCHANGED <<levels, meta, logs, writer, old, drift, history>>

remove(files, g) == [f \in DOMAIN files \ {g} |-> files[f]]

(* Faulty: the old log is removed before the new one holds anything. *)
SnapCreate_CleansOld ==
  /\ pc = "snap_create" /\ gen < MaxGen
  /\ logs' = remove(logs, writer) @@ (gen :> <<>>)
  /\ writer' = gen /\ old' = writer
  /\ gen' = gen + 1
  /\ pc' = "snap_write"
  /\ UNCHANGED <<levels, meta, edits, count, counted, history>>

(* write_snap_shot: a new log file becomes the writer's ... *)
SnapCreate ==
  /\ pc = "snap_create" /\ gen < MaxGen
  /\ logs' = logs @@ (gen :> <<>>)
  /\ writer' = gen /\ old' = writer
  /\ gen' = gen + 1
  /\ pc' = "snap_write"
  /\ UNCHANGED <<levels, meta, edits, count, counted, history>>

(* ... gets the whole Version as its first record ... *)
SnapWrite ==
  /\ pc = "snap_write"
  /\ logs' = [logs EXCEPT ![writer] = Append(@, to_vec_edit)]
  /\ pc' = "snap_clean"
  /\ unsorted' = (unsorted \/ \E l \in DOMAIN levels : sorted_by_gen(levels[l]) # levels[l])
  /\ forgotten' = (forgotten \/ (levels[0] = <<>> /\ meta # 0))
  /\ UNCHANGED <<levels, meta, edits, writer, old, count, gen, counted, restarts, torn, failures>>

(* ... and the old file is removed.  The count is not reset. *)
SnapClean ==
  /\ pc = "snap_clean"
  /\ logs' = remove(logs, old)
  /\ pc' = "log" /\ old' = 0
  /\ UNCHANGED <<levels, meta, edits, writer, count, gen, counted, history>>

(* What the removals among es subtract beyond what their tables had added *)
Recount(es) ==
  LET listed(e) == {t \in ToSet(levels[e.level]) : t.gen \in e.gens}
  IN  FoldLeft(LAMBDA acc, e : IF e.edit = "DeleteFile" THEN acc + e.meta - Entries(listed(e)) ELSE acc,
               0, es)

AddRecord ==
  /\ pc = "log"
  /\ logs' = [logs EXCEPT ![writer] = Append(@, edits)]
  /\ pc' = "publish"
  /\ drift' = drift + Recount(edits)
  /\ UNCHANGED <<levels, meta, edits, writer, old, count, gen, reloaded, history>>

Publish ==
  /\ pc = "publish"
  /\ levels' = apply(levels, edits)
  /\ meta' = statistical_process(meta, edits)
  /\ pc' = "idle" /\ edits' = <<>>
  /\ reloaded' = reloaded \cap GensAt(levels'[0])
  /\ UNCHANGED <<disk, drift, history>>

(* An I/O error leaves log_and_apply with what was done so far. *)
Fails ==
  /\ pc \in {"snap_create", "snap_write", "snap_clean", "log"}
  /\ failures + restarts < MaxFaults
  /\ failures' = failures + 1
  /\ pc' = "idle" /\ edits' = <<>> /\ old' = 0
  /\ UNCHANGED <<levels, meta, logs, writer, count, gen, counted, unsorted, forgotten, restarts, torn>>
-----------------------------------------------------------------------------
(***************************************************************************)
(* Opening: snapshot_gen takes the one log file, or, if there are more,    *)
(* removes the newest and takes the one before it.                         *)
(***************************************************************************)
snapshot_gen(files) ==
  LET newest == Max(DOMAIN files)
  IN  IF Cardinality(DOMAIN files) = 1 THEN newest ELSE Max(DOMAIN files \ {newest})

kept_logs(files) ==
  IF Cardinality(DOMAIN files) = 1 THEN files
  ELSE remove(files, Max(DOMAIN files))

(* LogLoader::load reads up to the first record it cannot read. *)
load(file) ==
  LET bad == {i \in DOMAIN file : file[i] = Torn}
      good == IF bad = {} THEN file ELSE SubSeq(file, 1, Min(bad) - 1)
  IN  FlattenSeq(good)

load_with_path(files) == load(files[snapshot_gen(files)])

(***************************************************************************)
(* The process dies and the store is opened again.  If it dies between the *)
(* write of a record's header and that of its data, the record is torn;    *)
(* later records go behind it, since the writer seeks to the end.          *)
(***************************************************************************)
Reopen(files) ==
  LET replay == load_with_path(files)
  IN  /\ failures + restarts < MaxFaults
      /\ levels' = apply(level_slice_new, replay)
      /\ meta' = statistical_process(0, replay)
      /\ logs' = kept_logs(files)
      /\ writer' = snapshot_gen(files)
      /\ count' = Len(replay)
      /\ edits' = <<>> /\ pc' = "idle" /\ old' = 0
      /\ reloaded' = Recounted(ToSet(levels'[0]))
      /\ restarts' = restarts + 1
      /\ UNCHANGED <<gen, drift, unsorted, forgotten, failures>>

Restart == Reopen(logs) /\ UNCHANGED torn

RestartTorn ==
  /\ pc \in {"snap_write", "log"}
  /\ torn' = torn + 1
  /\ Reopen([logs EXCEPT ![writer] = Append(@, Torn)])

Compaction ==
  /\ pc = "idle"
  /\ \E flush \in {<<>>} \cup {Minor(c) : c \in Counts}, lens \in SeqOf(1..MaxLen, 2) \ {<<>>},
       T0 \in SUBSET ToSet(levels[0]), T1 \in SUBSET ToSet(levels[1]) :
       /\ T0 # {} /\ Merges(lens, T0 \cup T1)
       /\ \E evicted \in SUBSET Recounted(T0) :
            log_and_apply(flush \o Major(gen + Len(flush), lens, T0, T1, evicted),
                          Len(flush) + Len(lens), evicted)

Next ==
  \/ \E c \in Counts : log_and_apply(Minor(c), 1, {})
  \/ Compaction
  \/ SnapCreate \/ SnapWrite \/ SnapClean \/ AddRecord \/ Publish \/ Fails
  \/ Restart \/ RestartTorn

Spec == Init /\ [][Next]_vars
-----------------------------------------------------------------------------
(* The Version after the log_and_apply that runs, if its record is written *)
Durable == IF pc = "publish" THEN apply(levels, edits) ELSE levels

Recovered == apply(level_slice_new, load_with_path(logs))

(***************************************************************************)
(* The log that opening reads gets the records: a failed snapshot has left *)
(* no second file, and no record stands behind one that a crash cut short. *)
(***************************************************************************)
Intact ==
  LET file == logs[snapshot_gen(logs)]
  IN  /\ Cardinality(DOMAIN logs) <= IF pc \in {"snap_write", "snap_clean"} THEN 2 ELSE 1
      /\ \A i \in 1..(Len(file) - 1) : file[i] # Torn

(***************************************************************************)
(* Whenever the process dies, reopening finds every level with exactly the *)
(* tables of the last Version whose record was written: also between the   *)
(* steps of a snapshot, when two log files exist, and after a restart that *)
(* found a torn record or the files of a failed snapshot.                  *)
(***************************************************************************)
TablesRecovered ==
  LET found == Recovered
      expected == Durable
  IN  Intact => \A l \in DOMAIN levels : GensAt(found[l]) = GensAt(expected[l])

(***************************************************************************)
(* Level 0 is recovered in its order, on which the age of values depends,  *)
(* although to_vec_edit and apply sort it by gen.                          *)
(***************************************************************************)
Level0OrderRecovered == Intact => Recovered[0] = Durable[0]

(***************************************************************************)
(* All levels are recovered in their order, as test_version_apply_and_log  *)
(* asserts, unless a snapshot was taken while the order of a level was not *)
(* that of its gens, by which apply sorts what to_vec_edit has written.    *)
(***************************************************************************)
LevelsRecovered == Intact /\ ~unsorted => Recovered = Durable

(***************************************************************************)
(* VersionMeta counts the entries of the tables, across compactions,       *)
(* snapshots and restarts: it is off by exactly what was subtracted for    *)
(* tables that were rebuilt from their WAL (collect_gen asks them again    *)
(* how long they are), unless a snapshot found level 0 empty: to_vec_edit  *)
(* attaches the statistics to level 0, and skips empty levels.             *)
(***************************************************************************)
MetaAccurate ==
  LET expected == Durable
  IN  failures = 0 /\ torn = 0 /\ ~forgotten =>
        (IF pc = "publish" THEN statistical_process(meta, edits) ELSE meta) + drift
          = Entries(UNION {ToSet(expected[l]) : l \in DOMAIN levels})
=============================================================================
