--------------------------------- MODULE Mvcc ---------------------------------
(***************************************************************************)
(* Concurrent use of one store: plain set / get / remove, optimistic       *)
(* transactions, and the compactor moving _mem to _immut and to disk.      *)
(*                                                                         *)
(* The disk is abstracted to the newest entry of every key, which is what  *)
(* Version::query is meant to return (LsmTree looks inside).  The seq of   *)
(* an entry on disk is a ghost: tables do not store it.                    *)
(***************************************************************************)
EXTENDS MemTable

CONSTANTS
  Keys, Txs, Clients,
  MaxSeq,        \* bound on the sequence ids created
  MaxFailures    \* bound on the I/O errors of commit, swap and minor compaction

ASSUME MvccConstants == Keys # {} /\ MaxSeq \in Nat /\ MaxFailures \in Nat

VARIABLES
  seq_count,   \* SEQ_COUNT
  mem, immut,  \* TableInner
  version,     \* contents of the current Version
  flushing,    \* values of the minor compaction in progress, {} if none
  tx_count,    \* MemTable::tx_count
  tx,          \* tx[t]: the Transaction of task t
  client,      \* client[c]: the plain get or remove of task c
  written,     \* history: every entry ever inserted
  failures     \* history: number of I/O errors

vars == <<seq_count, mem, immut, version, flushing, tx_count, tx, client,
          written, failures>>

NoTx     == [st |-> "none", version |-> {}, seq_id |-> 0, buf |-> {}, commit_seq |-> 0]
NoClient == [st |-> "idle", op |-> "get", key |-> CHOOSE k \in Keys : TRUE,
             newest |-> {}, found |-> {}]

(***************************************************************************)
(* A store that has just been opened: tables on disk, and the records of   *)
(* the last WAL recovered with seq 0.                                      *)
(***************************************************************************)
Init ==
  /\ seq_count = 1
  /\ version \in {{[key |-> k, seq |-> -1, live |-> TRUE] : k \in K} : K \in SUBSET Keys}
  /\ mem \in {{[key |-> k, seq |-> 0, live |-> TRUE] : k \in K} : K \in SUBSET Keys}
  /\ immut = {}
  /\ flushing = {}
  /\ tx_count = 0
  /\ tx = [t \in Txs |-> NoTx]
  /\ client = [c \in Clients |-> NoClient]
  /\ written = version \cup mem
  /\ failures = 0
-----------------------------------------------------------------------------
(***************************************************************************)
(* Plain operations.  insert_data creates the sequence id under the lock.  *)
(***************************************************************************)
insert_data(k, live) ==
  LET e == [key |-> k, seq |-> seq_count, live |-> live]
  IN  /\ seq_count <= MaxSeq
      /\ seq_count' = seq_count + 1
      /\ mem' = mem \cup {e}
      /\ written' = written \cup {e}

set(k) ==
  /\ insert_data(k, TRUE)
  /\ UNCHANGED <<immut, version, flushing, tx_count, tx, client, failures>>

(***************************************************************************)
(* get looks into the MemTable and, if that misses, into the Version that  *)
(* is current by then.  remove is a get followed by an append.             *)
(***************************************************************************)
Answer(op, found) ==
  IF op = "remove" /\ IsLive(found) THEN "append" ELSE "done"

GetMem(c, op, k) ==
  LET hit == find(mem, immut, k)
  IN  /\ client[c].st \in {"idle", "done"}
      /\ client' = [client EXCEPT ![c] =
           [st |-> IF hit = {} THEN "version" ELSE Answer(op, hit),
            op |-> op, key |-> k,
            newest |-> find(written, {}, k),
            found |-> hit]]
      /\ UNCHANGED <<seq_count, mem, immut, version, flushing, tx_count, tx,
                     written, failures>>

GetVersion(c) ==
  LET hit == find(version, {}, client[c].key)
  IN  /\ client[c].st = "version"
      /\ client' = [client EXCEPT ![c].st = Answer(client[c].op, hit),
                                  ![c].found = hit]
      /\ UNCHANGED <<seq_count, mem, immut, version, flushing, tx_count, tx,
                     written, failures>>

RemoveAppend(c) ==
  /\ client[c].st = "append"
  /\ insert_data(client[c].key, FALSE)
  /\ client' = [client EXCEPT ![c].st = "done"]
  /\ UNCHANGED <<immut, version, flushing, tx_count, tx, failures>>
-----------------------------------------------------------------------------
(***************************************************************************)
(* Transaction::new counts the transaction, awaits the current Version and *)
(* only then creates its sequence id.                                      *)
(***************************************************************************)
TxCount(t) ==
  /\ tx[t].st = "none"
  /\ tx_count' = tx_count + 1
  /\ tx' = [tx EXCEPT ![t].st = "counted"]
  /\ UNCHANGED <<seq_count, mem, immut, version, flushing, client, written, failures>>

TxVersion(t) ==
  /\ tx[t].st = "counted"
  /\ tx' = [tx EXCEPT ![t].st = "versioned", ![t].version = version]
  /\ UNCHANGED <<seq_count, mem, immut, version, flushing, tx_count, client,
                 written, failures>>

TxSeq(t) ==
  /\ tx[t].st = "versioned"
  /\ seq_count <= MaxSeq
  /\ seq_count' = seq_count + 1
  /\ tx' = [tx EXCEPT ![t].st = "active", ![t].seq_id = seq_count]
  /\ UNCHANGED <<mem, immut, version, flushing, tx_count, client, written, failures>>

(* Transaction::get below the write buffer *)
Snapshot(t, k) ==
  LET hit == find_with_sequence_id(mem, immut, k, tx[t].seq_id)
  IN  IF hit # {} THEN hit ELSE find(tx[t].version, {}, k)

TxGet(t, k) ==
  LET own == {w \in tx[t].buf : w.key = k}
  IN  IF own # {} THEN own ELSE Snapshot(t, k)

TxBuffer(t, k, live) ==
  tx' = [tx EXCEPT ![t].buf =
           {w \in @ : w.key # k} \cup {[key |-> k, live |-> live]}]

TxSet(t, k) ==
  /\ tx[t].st = "active"
  /\ TxBuffer(t, k, TRUE)
  /\ UNCHANGED <<seq_count, mem, immut, version, flushing, tx_count, client,
                 written, failures>>

TxRemove(t, k) ==
  /\ tx[t].st = "active"
  /\ IsLive(TxGet(t, k))
  /\ TxBuffer(t, k, FALSE)
  /\ UNCHANGED <<seq_count, mem, immut, version, flushing, tx_count, client,
                 written, failures>>

(***************************************************************************)
(* commit: the conflict check and the insertion take the lock separately,  *)
(* and the sequence id of the writes is created between the two.           *)
(***************************************************************************)
BufKeys(t) == {w.key : w \in tx[t].buf}

TxCheck(t) ==
  /\ tx[t].st = "active" /\ tx[t].buf # {}
  /\ ~check_key_conflict(mem, BufKeys(t), tx[t].seq_id)
  /\ tx' = [tx EXCEPT ![t].st = "checked"]
  /\ UNCHANGED <<seq_count, mem, immut, version, flushing, tx_count, client,
                 written, failures>>

TxStamp(t) ==
  /\ tx[t].st = "checked"
  /\ seq_count <= MaxSeq
  /\ seq_count' = seq_count + 1
  /\ tx' = [tx EXCEPT ![t].st = "stamped", ![t].commit_seq = seq_count]
  /\ UNCHANGED <<mem, immut, version, flushing, tx_count, client, written, failures>>

insert_batch_data(t) ==
  LET batch == {[key |-> w.key, seq |-> tx[t].commit_seq, live |-> w.live] :
                  w \in tx[t].buf}
  IN  /\ mem' = mem \cup batch
      /\ written' = written \cup batch

TxInsert(t) ==
  /\ tx[t].st = "stamped"
  /\ insert_batch_data(t)
  /\ tx' = [tx EXCEPT ![t].st = "inserted"]
  /\ UNCHANGED <<seq_count, immut, version, flushing, tx_count, client, failures>>

(* The WAL record is written last: if that fails the entries are in _mem. *)
TxInsertFails(t) ==
  /\ tx[t].st = "stamped" /\ failures < MaxFailures
  /\ insert_batch_data(t)
  /\ tx' = [tx EXCEPT ![t].st = "failed"]
  /\ failures' = failures + 1
  /\ UNCHANGED <<seq_count, immut, version, flushing, tx_count, client>>

(***************************************************************************)
(* Drop: the Transaction is abandoned, or commit returns (also because of  *)
(* a conflict, or with nothing to write).                                  *)
(***************************************************************************)
TxDrop(t) ==
  /\ tx[t].st \in {"active", "inserted", "failed"}
  /\ tx' = [tx EXCEPT ![t] = IF @.st = "inserted"
                              THEN [@ EXCEPT !.st = "committed", !.version = {}]
                              ELSE [NoTx EXCEPT !.st = "dropped"]]
  /\ tx_count' = tx_count - 1
  /\ UNCHANGED <<seq_count, mem, immut, version, flushing, client, written, failures>>
-----------------------------------------------------------------------------
(***************************************************************************)
(* The compactor.  swap waits until no transaction is counted.  _immut is  *)
(* not cleared when its table is installed, only replaced by the next      *)
(* swap.  A minor compaction that fails is logged and forgotten, and so is *)
(* a swap that cannot open the next WAL: _mem has moved by then.           *)
(***************************************************************************)
(* Faulty swap: does not wait for transactions *)
swap_IgnoresTx ==
  /\ flushing = {} /\ mem # {}
  /\ immut' = mem
  /\ flushing' = unique_by_key(mem)
  /\ mem' = {}
  /\ UNCHANGED <<seq_count, version, tx_count, tx, client, written, failures>>

(* Faulty swap: the data is with the compactor only *)
swap_NoImmut ==
  /\ flushing = {} /\ tx_count = 0 /\ mem # {}
  /\ immut' = {}
  /\ flushing' = unique_by_key(mem)
  /\ mem' = {}
  /\ UNCHANGED <<seq_count, version, tx_count, tx, client, written, failures>>

swap ==
  /\ flushing = {} /\ tx_count = 0 /\ mem # {}
  /\ immut' = mem
  /\ flushing' = unique_by_key(mem)
  /\ mem' = {}
  /\ UNCHANGED <<seq_count, version, tx_count, tx, client, written, failures>>

(* Faulty minor_compaction: the new table goes under the older ones *)
minor_compaction_Under ==
  /\ flushing # {}
  /\ version' = version \cup {e \in flushing : \A f \in version : f.key # e.key}
  /\ flushing' = {}
  /\ UNCHANGED <<seq_count, mem, immut, tx_count, tx, client, written, failures>>

minor_compaction ==
  /\ flushing # {}
  /\ version' = flushing \cup {e \in version : \A f \in flushing : f.key # e.key}
  /\ flushing' = {}
  /\ UNCHANGED <<seq_count, mem, immut, tx_count, tx, client, written, failures>>

SwapFails ==
  /\ flushing = {} /\ tx_count = 0 /\ mem # {} /\ failures < MaxFailures
  /\ immut' = mem
  /\ mem' = {}
  /\ failures' = failures + 1
  /\ UNCHANGED <<seq_count, version, flushing, tx_count, tx, client, written>>

MinorFails ==
  /\ flushing # {} /\ failures < MaxFailures
  /\ flushing' = {}
  /\ failures' = failures + 1
  /\ UNCHANGED <<seq_count, mem, immut, version, tx_count, tx, client, written>>

Next ==
  \/ \E k \in Keys : set(k)
  \/ \E c \in Clients :
       \/ \E op \in {"get", "remove"}, k \in Keys : GetMem(c, op, k)
       \/ GetVersion(c) \/ RemoveAppend(c)
  \/ \E t \in Txs :
       \/ TxCount(t) \/ TxVersion(t) \/ TxSeq(t)
       \/ \E k \in Keys : TxSet(t, k) \/ TxRemove(t, k)
       \/ TxCheck(t) \/ TxStamp(t) \/ TxInsert(t) \/ TxInsertFails(t) \/ TxDrop(t)
  \/ swap \/ SwapFails \/ minor_compaction \/ MinorFails

Spec == Init /\ [][Next]_vars
-----------------------------------------------------------------------------
(* The newest of the writes to k up to sequence id s *)
Newest(k, s) ==
  {e \in written : e.key = k /\ e.seq <= s /\
     \A f \in written : f.key = k /\ f.seq <= s => f.seq <= e.seq}

(***************************************************************************)
(* While no I/O error occurs, KipStorage::get (memory, then the current    *)
(* Version) finds the newest write of every key, whatever the compactor    *)
(* is doing between _mem, _immut and the disk.                             *)
(***************************************************************************)
NoLostWrite ==
  failures = 0 =>
    \A k \in Keys :
      LET hit == find(mem, immut, k)
      IN  (IF hit # {} THEN hit ELSE find(version, {}, k)) = Newest(k, seq_count)

(***************************************************************************)
(* A get that searches the MemTable before and the Version after a swap or *)
(* the end of a minor compaction still answers with a write at least as    *)
(* new as the newest one when it started.                                  *)
(***************************************************************************)
GetFresh ==
  failures = 0 =>
    \A c \in Clients : client[c].st \in {"append", "done"} =>
      \A e \in client[c].newest : \E f \in client[c].found : f.seq >= e.seq

(***************************************************************************)
(* What a Transaction reads below its write buffer is the newest write not *)
(* after its seq_id: the Version it took before its seq_id, the _immut     *)
(* that may or may not be part of that Version, and _mem fit together.     *)
(***************************************************************************)
SnapshotCorrect ==
  failures = 0 =>
    \A t \in Txs, k \in Keys :
      tx[t].st = "active" => Snapshot(t, k) = Newest(k, tx[t].seq_id)

(***************************************************************************)
(* check_key_conflict looks at _mem only.  That is enough: while a         *)
(* Transaction lives, no write after its seq_id leaves _mem.               *)
(***************************************************************************)
ConflictComplete ==
  \A t \in Txs : tx[t].st \in {"active", "checked", "stamped"} =>
    \A e \in written : e.seq > tx[t].seq_id => e \in mem

(***************************************************************************)
(* The only step that changes what a Transaction reads is the insertion of *)
(* a commit whose sequence id was created before the Transaction's own.    *)
(* (There is such a step: commit creates its sequence id before            *)
(* insert_batch_data takes the lock.)                                      *)
(***************************************************************************)
SnapshotMovesOnlyByLateCommit ==
  [][\A t \in Txs, k \in Keys :
       tx[t].st = "active" /\ tx'[t].st = "active" /\ Snapshot(t, k)' # Snapshot(t, k)
       => \E u \in Txs : /\ tx[u].st = "stamped" /\ tx'[u].st \in {"inserted", "failed"}
                         /\ tx[u].commit_seq < tx[t].seq_id
                         /\ k \in BufKeys(u)]_vars

(***************************************************************************)
(* test_transaction_check_optimistic: of two overlapping Transactions that *)
(* write the same key, the second to commit fails.  The code does not keep *)
(* this when both pass the check before either inserts.                    *)
(***************************************************************************)
FirstCommitterWins ==
  \A t, u \in Txs :
    /\ tx[t].st \in {"inserted", "committed"} /\ tx[u].st \in {"inserted", "committed"}
    /\ BufKeys(t) \cap BufKeys(u) # {}
    /\ tx[t].commit_seq < tx[u].commit_seq
    => tx[t].commit_seq < tx[u].seq_id
=============================================================================
