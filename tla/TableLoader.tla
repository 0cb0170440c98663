------------------------------ MODULE TableLoader ------------------------------
(***************************************************************************)
(* TableLoader (lsm/table/loader.rs) over the files of the directory: d    *)
(* maps the gens of .sst files (d.sst), of WAL files (d.wal) and of cached *)
(* tables (d.cache) to what they hold.  The contents of a table map keys   *)
(* to values, 0 if there is none; a WAL is a sequence of entries.  How a   *)
(* table is laid out in its file is the subject of SsTable.                *)
(***************************************************************************)
EXTENDS Integers, Sequences

CONSTANT Keys

NoData == [k \in Keys |-> 0]

NoFiles == [sst |-> <<>>, wal |-> <<>>, cache |-> <<>>]

With(f, g, v) == [h \in DOMAIN f \cup {g} |-> IF h = g THEN v ELSE f[h]]
Without(f, S) == [h \in DOMAIN f \ S |-> f[h]]

(* The last record of every key: BTreeMap::from_iter *)
LastOf(log, k) == {i \in DOMAIN log : log[i].key = k /\ \A j \in DOMAIN log : j > i => log[j].key # k}

TableOf(log) == [k \in Keys |-> IF LastOf(log, k) = {} THEN 0
                                ELSE log[CHOOSE i \in LastOf(log, k) : TRUE].val]

create_ss_table(d, gen, data) == [d EXCEPT !.sst = With(@, gen, [ok |-> TRUE, data |-> data])]

(* create: an SSTable is written to its file, a BTreeTable is only cached *)
create(d, gen, data, table_type) ==
  LET made == IF table_type = "SortedString" THEN create_ss_table(d, gen, data) ELSE d
  IN  [made EXCEPT !.cache = With(@, gen, data)]

(* Opening a file that is missing creates an empty one, which is no SSTable *)
Empty == [ok |-> FALSE, data |-> NoData]

open_sst(d, gen) ==
  IF gen \in DOMAIN d.sst THEN d ELSE [d EXCEPT !.sst = With(@, gen, Empty)]

open_wal(d, gen) ==
  IF gen \in DOMAIN d.wal THEN d ELSE [d EXCEPT !.wal = With(@, gen, <<>>)]

Cached(d, gen, data) == [d EXCEPT !.cache = With(@, gen, data)]

(* The load of the file failed: a BTreeTable of what the WAL of this gen holds *)
reload_with_wal(d, gen) == Cached(open_wal(d, gen), gen, TableOf(open_wal(d, gen).wal[gen]))

(* Faulty: without the WAL *)
load_NoWal(d, gen) == Cached(d, gen, d.sst[gen].data)

load(d, gen) ==
  IF d.sst[gen].ok THEN Cached(d, gen, d.sst[gen].data) ELSE reload_with_wal(d, gen)

get(d, gen) == IF gen \in DOMAIN d.cache THEN d ELSE load(open_sst(d, gen), gen)

(* get with an error while the file is read *)
get_fails(d, gen) == reload_with_wal(open_sst(d, gen), gen)

(* What get answers *)
Contents(d, gen) == get(d, gen).cache[gen]

(***************************************************************************)
(* get for every gen of a set, in whatever order: each has its own files.  *)
(***************************************************************************)
get_all(d, gens) ==
  LET missing == gens \ DOMAIN d.cache
      no_sst == {g \in missing : g \notin DOMAIN d.sst}
      reloaded == {g \in missing : g \in no_sst \/ ~d.sst[g].ok}
  IN  [sst |-> [g \in DOMAIN d.sst \cup no_sst |-> IF g \in no_sst THEN Empty ELSE d.sst[g]],
       wal |-> [g \in DOMAIN d.wal \cup reloaded |-> IF g \in DOMAIN d.wal THEN d.wal[g] ELSE <<>>],
       cache |-> [g \in DOMAIN d.cache \cup gens |-> Contents(d, g)]]

(***************************************************************************)
(* clean for every gen of a set: the cache, the .sst and the WAL.  A file  *)
(* that is not there ends it with an error: a BTreeTable that was never    *)
(* read back has no .sst and leaves its WAL.                               *)
(***************************************************************************)
clean(d, gens) ==
  [sst |-> Without(d.sst, gens), wal |-> Without(d.wal, gens \cap DOMAIN d.sst),
   cache |-> Without(d.cache, gens)]
=============================================================================
