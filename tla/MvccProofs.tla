------------------------------ MODULE MvccProofs ------------------------------
(***************************************************************************)
(* Concurrent reads, writes, transactions and flushes, for any number of   *)
(* keys, clients and transactions: the inductive invariant of Mvcc and     *)
(* what follows from it.                                                   *)
(***************************************************************************)
EXTENDS Mvcc, FiniteSetTheorems, WellFoundedInduction, TLAPS

Entry == [key : Keys, seq : Int, live : BOOLEAN]
Buffered == [key : Keys, live : BOOLEAN]

States == {"none", "counted", "versioned", "active", "checked", "stamped",
           "inserted", "failed", "committed", "dropped"}

Tx == [st : States, version : SUBSET Entry, seq_id : Nat,
       buf : SUBSET Buffered, commit_seq : Nat]

Client == [st : {"idle", "version", "append", "done"}, op : {"get", "remove"}, key : Keys,
           newest : SUBSET Entry, found : SUBSET Entry]

TypeOK ==
  /\ seq_count \in Nat /\ tx_count \in Int /\ failures \in Nat
  /\ written \in SUBSET Entry /\ mem \in SUBSET Entry /\ immut \in SUBSET Entry
  /\ version \in SUBSET Entry /\ flushing \in SUBSET Entry
  /\ tx \in [Txs -> Tx]
  /\ client \in [Clients -> Client]

(* A Transaction is counted in tx_count from its new to its Drop. *)
Counted == {t \in Txs : tx[t].st \notin {"none", "committed", "dropped"}}

CountInv == IsFiniteSet(Counted) /\ tx_count = Cardinality(Counted)

(* Whatever is read was written. *)
KnownInv ==
  /\ mem \subseteq written /\ immut \subseteq written /\ version \subseteq written
  /\ flushing \subseteq immut
  /\ \A t \in Txs : tx[t].version \subseteq written

(***************************************************************************)
(* Every sequence id is used once: the ids of entries, of commits that are *)
(* not inserted yet and of Transactions were all handed out by SEQ_COUNT.  *)
(* A commit that is not inserted yet is newer than what has left _mem.     *)
(***************************************************************************)
UniqueInv ==
  /\ \A e \in written : e.seq < seq_count
  /\ \A e, f \in written : e.key = f.key /\ e.seq = f.seq => e = f
  /\ \A t \in Txs : \A v, w \in tx[t].buf : v.key = w.key => v = w

StampInv ==
  \A t \in Txs : tx[t].st = "stamped" =>
    /\ tx[t].commit_seq < seq_count
    /\ \A e \in written : e.seq # tx[t].commit_seq
    /\ \A e \in immut \cup version : e.seq < tx[t].commit_seq
    /\ \A u \in Txs :
         /\ tx[u].st = "stamped" /\ t # u => tx[t].commit_seq # tx[u].commit_seq
         /\ tx[u].st = "active" => tx[t].commit_seq # tx[u].seq_id
         /\ tx[u].st \in {"versioned", "active"} =>
              \A e \in tx[u].version : e.seq < tx[t].commit_seq

ActiveInv == \A t \in Txs : tx[t].st = "active" => tx[t].seq_id < seq_count

Below(S, T) == \A e \in S, f \in T : e.seq < f.seq

(* Every entry of S has one of its key in T that is not older. *)
Covers(T, S) == \A e \in S : \E f \in T : f.key = e.key /\ f.seq >= e.seq

(***************************************************************************)
(* The conditions under which _mem M, then _immut I, then a Version V      *)
(* answer as the set W of all writes up to sequence id s would.            *)
(***************************************************************************)
Fits(W, M, I, V, s) ==
  /\ W \subseteq Entry /\ M \subseteq W /\ I \subseteq W /\ V \subseteq W /\ s \in Int
  /\ \A e, f \in W : e.key = f.key /\ e.seq = f.seq => e = f
  /\ Below(I, M) /\ Below(V, M)
  /\ \A e \in V : e \in I \/ \A f \in I : e.seq < f.seq
  /\ Covers(V, W \ (M \cup I))
  /\ \A e \in I \cup V : e.seq <= s

Read(M, I, V, k, s) ==
  IF find_with_sequence_id(M, I, k, s) # {} THEN find_with_sequence_id(M, I, k, s)
  ELSE find(V, {}, k)

NewestOf(W, k, s) ==
  {e \in W : e.key = k /\ e.seq <= s /\
     \A f \in W : f.key = k /\ f.seq <= s => f.seq <= e.seq}

OnePerKey(S) == \A e, f \in S : e.key = f.key => e = f

(***************************************************************************)
(* A Version V under the MemTable: one entry per key, older than all of    *)
(* _mem, and part of _immut or older than all of it; without I/O errors    *)
(* the three hold the newest entry of every key.                           *)
(***************************************************************************)
Layered(V) ==
  /\ OnePerKey(V)
  /\ Below(V, mem)
  /\ \A e \in V : e \in immut \/ \A f \in immut : e.seq < f.seq
  /\ failures = 0 => Covers(V, written \ (mem \cup immut))

LayerInv ==
  /\ Below(immut, mem)
  /\ Layered(version)
  /\ \A t \in Txs : tx[t].st \in {"versioned", "active"} => Layered(tx[t].version)

(* What is being flushed, added to the Version, stands for all of _immut. *)
FlushInv ==
  /\ OnePerKey(flushing)
  /\ Below(version, flushing)
  /\ failures = 0 => Covers(flushing \cup version, immut)

(* A get that missed in the MemTable will find in the Version what it is to find. *)
ClientInv ==
  failures = 0 => \A c \in Clients :
    client[c].st = "version" =>
      \A e \in client[c].newest : \E f \in version : f.key = client[c].key /\ f.seq >= e.seq

Inv == /\ TypeOK /\ CountInv /\ KnownInv /\ UniqueInv /\ StampInv /\ ActiveInv
       /\ LayerInv /\ FlushInv /\ ClientInv /\ ConflictComplete /\ GetFresh
-----------------------------------------------------------------------------
(***************************************************************************)
(* The lookups of the MemTable.                                            *)
(***************************************************************************)
(* Entries whose sequence ids are bounded have a newest one. *)
LEMMA HasLatest ==
  ASSUME NEW S, NEW b \in Int, \A e \in S : e.seq \in Int /\ e.seq <= b, S # {}
  PROVE  \E e \in S : \A f \in S : f.seq <= e.seq
<1> DEFINE T == {b - e.seq : e \in S}
<1>1. T \subseteq Nat /\ T # {}
  OBVIOUS
<1> HIDE DEF T
<1>2. PICK m \in T : \A n \in T : ~(<<n, m>> \in OpToRel(<, Nat))
  BY <1>1, NatLessThanWellFounded, WFMin, Zenon
<1>3. \A n \in T : ~(n < m)
  BY <1>1, <1>2, Zenon DEF OpToRel
<1>4. PICK e \in S : m = b - e.seq
  BY Zenon DEF T
<1>5. \A f \in S : b - f.seq \in T
  BY Zenon DEF T
<1> QED
  BY <1>3, <1>4, <1>5

(* So a lookup finds something if there is something to find. *)
LEMMA LatestExists ==
  ASSUME NEW S, NEW b \in Int, \A e \in S : e.seq \in Int /\ e.seq <= b
  PROVE  (Latest(S) = {}) <=> (S = {})
<1>1. CASE S = {}
  BY <1>1, Zenon DEF Latest
<1>2. CASE S # {}
  <2>1. PICK e \in S : \A f \in S : f.seq <= e.seq
    BY <1>2, HasLatest, Zenon
  <2>2. e \in Latest(S)
    BY <2>1, Zenon DEF Latest
  <2> QED
    BY <1>2, <2>2, Zenon
<1> QED
  BY <1>1, <1>2, Zenon

(***************************************************************************)
(* Reading through three layers M, I and V of the entries W gives the      *)
(* newest entry of W up to s, if M is above I and V, and I, V have nothing *)
(* that is newer than s.                                                   *)
(***************************************************************************)
LEMMA ReadNewest ==
  ASSUME NEW W, NEW M, NEW I, NEW V, NEW k, NEW s, Fits(W, M, I, V, s)
  PROVE  Read(M, I, V, k, s) = NewestOf(W, k, s)
<1> USE DEF Fits, Read, NewestOf
<1> DEFINE At(S) == {e \in S : e.key = k /\ e.seq <= s}
           New == {e \in W : e.key = k /\ e.seq <= s /\
                     \A f \in W : f.key = k /\ f.seq <= s => f.seq <= e.seq}
<1>1. /\ find_(M, k, s) = Latest(At(M)) /\ find_(I, k, s) = Latest(At(I))
      /\ (Latest(At(M)) = {}) <=> (At(M) = {})
      /\ (Latest(At(I)) = {}) <=> (At(I) = {})
  <2>1. ASSUME NEW S \in SUBSET W PROVE (Latest(At(S)) = {}) <=> (At(S) = {})
    <3>1. \A e \in At(S) : e.seq \in Int /\ e.seq <= s
      BY Zenon DEF Entry
    <3> QED
      BY <3>1, LatestExists, Zenon
  <2> QED
    BY <2>1, Zenon DEF find_
<1>2. CASE At(M) # {}
  <2>1. find_with_sequence_id(M, I, k, s) = Latest(At(M)) /\ Latest(At(M)) # {}
    BY <1>1, <1>2, Zenon DEF find_with_sequence_id
  <2>2. Latest(At(M)) = New
    BY <1>2 DEF Latest, Below, Covers, Entry
  <2> QED
    BY <2>1, <2>2, Zenon
<1>3. CASE At(M) = {} /\ At(I) # {}
  <2>1. find_with_sequence_id(M, I, k, s) = Latest(At(I)) /\ Latest(At(I)) # {}
    BY <1>1, <1>3, Zenon DEF find_with_sequence_id
  <2>2. Latest(At(I)) = New
    BY <1>3 DEF Latest, Below, Covers, Entry
  <2> QED
    BY <2>1, <2>2, Zenon
<1>4. CASE At(M) = {} /\ At(I) = {}
  <2>1. find_with_sequence_id(M, I, k, s) = {}
    BY <1>1, <1>4, Zenon DEF find_with_sequence_id
  <2>2. find(V, {}, k) = Latest({e \in V : e.key = k})
    <3>1. Latest({e \in {} : e.key = k}) = {}
      BY Zenon DEF Latest
    <3> QED
      BY <3>1, Zenon DEF find
  <2>3. Latest({e \in V : e.key = k}) = New
    BY <1>4 DEF Latest, Below, Covers, Entry
  <2> QED
    BY <2>1, <2>2, <2>3, Zenon
<1> QED
  BY <1>2, <1>3, <1>4, Zenon
-----------------------------------------------------------------------------
(***************************************************************************)
(* What the steps of a Transaction do to its record.                       *)
(***************************************************************************)
Others(t) == \A u \in Txs : u # t => tx'[u] = tx[u]

Keeps(t) == tx'[t].version = tx[t].version /\ tx'[t].buf = tx[t].buf

LEMMA TxReplaced ==
  ASSUME tx \in [Txs -> Tx], NEW t \in Txs, NEW r \in Tx, tx' = [tx EXCEPT ![t] = r]
  PROVE  tx' \in [Txs -> Tx] /\ Others(t) /\ tx'[t] = r
BY Zenon DEF Others

LEMMA TxStarts ==
  ASSUME TypeOK, NEW t \in Txs
  PROVE  /\ TxCount(t) => /\ tx' \in [Txs -> Tx] /\ Others(t) /\ Keeps(t)
                          /\ tx'[t].st = "counted"
         /\ TxVersion(t) => /\ tx' \in [Txs -> Tx] /\ Others(t)
                            /\ tx'[t].st = "versioned" /\ tx'[t].version = version
                            /\ tx'[t].buf = tx[t].buf
         /\ TxSeq(t) => /\ tx' \in [Txs -> Tx] /\ Others(t) /\ Keeps(t)
                        /\ tx'[t].st = "active" /\ tx'[t].seq_id = seq_count
<1>0. tx \in [Txs -> Tx] /\ tx[t] \in Tx
  BY Zenon DEF TypeOK
<1>1. ASSUME TxCount(t)
      PROVE  tx' \in [Txs -> Tx] /\ Others(t) /\ Keeps(t) /\ tx'[t].st = "counted"
  <2> DEFINE r == [tx[t] EXCEPT !.st = "counted"]
  <2>1. r \in Tx /\ r.version = tx[t].version /\ r.buf = tx[t].buf /\ r.st = "counted"
    BY <1>0, Zenon DEF Tx, States
  <2>2. tx' = [tx EXCEPT ![t] = r]
    BY <1>1, Zenon DEF TxCount
  <2> HIDE DEF r
  <2> QED
    BY <1>0, <2>1, <2>2, TxReplaced, Zenon DEF Keeps
<1>2. ASSUME TxVersion(t)
      PROVE  /\ tx' \in [Txs -> Tx] /\ Others(t)
             /\ tx'[t].st = "versioned" /\ tx'[t].version = version /\ tx'[t].buf = tx[t].buf
  <2> DEFINE r == [tx[t] EXCEPT !.st = "versioned", !.version = version]
  <2>1. r \in Tx /\ r.version = version /\ r.buf = tx[t].buf /\ r.st = "versioned"
    BY <1>0, Zenon DEF Tx, States, TypeOK
  <2>2. tx' = [tx EXCEPT ![t] = r]
    BY <1>2, Zenon DEF TxVersion
  <2> HIDE DEF r
  <2> QED
    BY <1>0, <2>1, <2>2, TxReplaced, Zenon
<1>3. ASSUME TxSeq(t)
      PROVE  /\ tx' \in [Txs -> Tx] /\ Others(t) /\ Keeps(t)
             /\ tx'[t].st = "active" /\ tx'[t].seq_id = seq_count
  <2> DEFINE r == [tx[t] EXCEPT !.st = "active", !.seq_id = seq_count]
  <2>1. /\ r \in Tx /\ r.version = tx[t].version /\ r.buf = tx[t].buf /\ r.st = "active"
        /\ r.seq_id = seq_count
    BY <1>0, Zenon DEF Tx, States, TypeOK
  <2>2. tx' = [tx EXCEPT ![t] = r]
    BY <1>3, Zenon DEF TxSeq
  <2> HIDE DEF r
  <2> QED
    BY <1>0, <2>1, <2>2, TxReplaced, Zenon DEF Keeps
<1> QED
  BY <1>1, <1>2, <1>3, Zenon

LEMMA TxBuffers ==
  ASSUME TypeOK, NEW t \in Txs, NEW k \in Keys, NEW live \in BOOLEAN, TxBuffer(t, k, live)
  PROVE  /\ tx' \in [Txs -> Tx] /\ Others(t)
         /\ tx'[t].st = tx[t].st /\ tx'[t].seq_id = tx[t].seq_id
         /\ tx'[t].version = tx[t].version
         /\ tx'[t].buf = {w \in tx[t].buf : w.key # k} \cup {[key |-> k, live |-> live]}
<1>0. tx \in [Txs -> Tx] /\ tx[t] \in Tx
  BY Zenon DEF TypeOK
<1> DEFINE b == {w \in tx[t].buf : w.key # k} \cup {[key |-> k, live |-> live]}
           r == [tx[t] EXCEPT !.buf = b]
<1>1. b \in SUBSET Buffered
  BY <1>0 DEF Tx, Buffered
<1>2. tx' = [tx EXCEPT ![t] = r]
  BY Zenon DEF TxBuffer
<1> HIDE DEF b
<1>3. /\ r \in Tx /\ r.st = tx[t].st /\ r.seq_id = tx[t].seq_id
      /\ r.version = tx[t].version /\ r.buf = b
  BY <1>0, <1>1, Zenon DEF Tx
<1> HIDE DEF r
<1>4. tx' \in [Txs -> Tx] /\ Others(t) /\ tx'[t] = r
  BY <1>0, <1>2, <1>3, TxReplaced, Zenon
<1> QED
  BY <1>3, <1>4, Zenon DEF b

LEMMA TxCommits ==
  ASSUME TypeOK, NEW t \in Txs
  PROVE  /\ TxCheck(t) => /\ tx' \in [Txs -> Tx] /\ Others(t) /\ Keeps(t)
                          /\ tx'[t].st = "checked" /\ tx'[t].seq_id = tx[t].seq_id
         /\ TxStamp(t) => /\ tx' \in [Txs -> Tx] /\ Others(t) /\ Keeps(t)
                          /\ tx'[t].st = "stamped" /\ tx'[t].seq_id = tx[t].seq_id
                          /\ tx'[t].commit_seq = seq_count
         /\ TxInsert(t) \/ TxInsertFails(t) =>
              /\ tx' \in [Txs -> Tx] /\ Others(t) /\ Keeps(t)
              /\ tx'[t].st \in {"inserted", "failed"}
         /\ TxDrop(t) => /\ tx' \in [Txs -> Tx] /\ Others(t)
                         /\ tx'[t].st \in {"committed", "dropped"}
                         /\ tx'[t].version = {} /\ tx'[t].buf \subseteq tx[t].buf
<1>0. tx \in [Txs -> Tx] /\ tx[t] \in Tx
  BY Zenon DEF TypeOK
<1>1. ASSUME TxCheck(t)
      PROVE  /\ tx' \in [Txs -> Tx] /\ Others(t) /\ Keeps(t)
             /\ tx'[t].st = "checked" /\ tx'[t].seq_id = tx[t].seq_id
  <2> DEFINE r == [tx[t] EXCEPT !.st = "checked"]
  <2>1. /\ r \in Tx /\ r.version = tx[t].version /\ r.buf = tx[t].buf /\ r.st = "checked"
        /\ r.seq_id = tx[t].seq_id
    BY <1>0, Zenon DEF Tx, States
  <2>2. tx' = [tx EXCEPT ![t] = r]
    BY <1>1, Zenon DEF TxCheck
  <2> HIDE DEF r
  <2> QED
    BY <1>0, <2>1, <2>2, TxReplaced, Zenon DEF Keeps
<1>2. ASSUME TxStamp(t)
      PROVE  /\ tx' \in [Txs -> Tx] /\ Others(t) /\ Keeps(t)
             /\ tx'[t].st = "stamped" /\ tx'[t].seq_id = tx[t].seq_id
             /\ tx'[t].commit_seq = seq_count
  <2> DEFINE r == [tx[t] EXCEPT !.st = "stamped", !.commit_seq = seq_count]
  <2>1. /\ r \in Tx /\ r.version = tx[t].version /\ r.buf = tx[t].buf /\ r.st = "stamped"
        /\ r.seq_id = tx[t].seq_id /\ r.commit_seq = seq_count
    BY <1>0, Zenon DEF Tx, States, TypeOK
  <2>2. tx' = [tx EXCEPT ![t] = r]
    BY <1>2, Zenon DEF TxStamp
  <2> HIDE DEF r
  <2> QED
    BY <1>0, <2>1, <2>2, TxReplaced, Zenon DEF Keeps
<1>3. ASSUME TxInsert(t) \/ TxInsertFails(t)
      PROVE  /\ tx' \in [Txs -> Tx] /\ Others(t) /\ Keeps(t)
             /\ tx'[t].st \in {"inserted", "failed"}
  <2> DEFINE r(s) == [tx[t] EXCEPT !.st = s]
  <2>1. ASSUME NEW s \in {"inserted", "failed"}
        PROVE  r(s) \in Tx /\ r(s).version = tx[t].version /\ r(s).buf = tx[t].buf /\ r(s).st = s
    BY <1>0, Zenon DEF Tx, States
  <2>2. \E s \in {"inserted", "failed"} : tx' = [tx EXCEPT ![t] = r(s)]
    BY <1>3, Zenon DEF TxInsert, TxInsertFails
  <2> HIDE DEF r
  <2> QED
    BY <1>0, <2>1, <2>2, TxReplaced, Zenon DEF Keeps
<1>4. ASSUME TxDrop(t)
      PROVE  /\ tx' \in [Txs -> Tx] /\ Others(t)
             /\ tx'[t].st \in {"committed", "dropped"}
             /\ tx'[t].version = {} /\ tx'[t].buf \subseteq tx[t].buf
  <2> DEFINE r == IF tx[t].st = "inserted"
                  THEN [tx[t] EXCEPT !.st = "committed", !.version = {}]
                  ELSE [NoTx EXCEPT !.st = "dropped"]
  <2>1. /\ r \in Tx /\ r.version = {} /\ r.buf \subseteq tx[t].buf
        /\ r.st \in {"committed", "dropped"}
    BY <1>0, Zenon DEF Tx, States, NoTx
  <2>2. tx' = [tx EXCEPT ![t] = r]
    BY <1>4, Zenon DEF TxDrop
  <2> HIDE DEF r
  <2> QED
    BY <1>0, <2>1, <2>2, TxReplaced, Zenon
<1> QED
  BY <1>1, <1>2, <1>3, <1>4, Zenon
-----------------------------------------------------------------------------
(***************************************************************************)
(* What the steps of a client do to its record.                            *)
(***************************************************************************)
LEMMA LookupTypes ==
  /\ \A M, I, k : find(M, I, k) \subseteq M \cup I
  /\ \A M : unique_by_key(M) \subseteq M
BY Zenon DEF find, Latest, unique_by_key

LEMMA GetMemMoves ==
  ASSUME TypeOK, NEW c \in Clients, NEW op \in {"get", "remove"}, NEW k \in Keys, GetMem(c, op, k)
  PROVE  /\ client' \in [Clients -> Client]
         /\ \A d \in Clients : d # c => client'[d] = client[d]
         /\ client'[c].key = k /\ client'[c].found = find(mem, immut, k)
         /\ client'[c].newest = find(written, {}, k)
         /\ (client'[c].st = "version") <=> (find(mem, immut, k) = {})
<1>0. client \in [Clients -> Client] /\ client[c] \in Client
  BY Zenon DEF TypeOK
<1>1. ASSUME NEW r \in Client, client' = [client EXCEPT ![c] = r]
      PROVE  /\ client' \in [Clients -> Client] /\ client'[c] = r
             /\ \A d \in Clients : d # c => client'[d] = client[d]
  BY <1>0, <1>1, Zenon
<1>2. find(mem, immut, k) \in SUBSET Entry /\ find(written, {}, k) \in SUBSET Entry
  <2>1. mem \cup immut \subseteq Entry /\ written \cup {} \subseteq Entry
    BY Zenon DEF TypeOK
  <2> QED
    BY <2>1, LookupTypes, Zenon
<1> DEFINE hit == find(mem, immut, k)
           r == [st |-> IF hit = {} THEN "version" ELSE Answer(op, hit),
                 op |-> op, key |-> k, newest |-> find(written, {}, k), found |-> hit]
<1>3. client' = [client EXCEPT ![c] = r]
  BY Zenon DEF GetMem
<1>4. /\ r \in Client /\ r.key = k /\ r.found = hit /\ r.newest = find(written, {}, k)
      /\ (r.st = "version") <=> (hit = {})
  BY <1>2, Zenon DEF Client, Answer
<1> HIDE DEF r
<1> QED
  BY <1>1, <1>3, <1>4, Zenon

LEMMA ClientMoves ==
  ASSUME TypeOK, NEW c \in Clients
  PROVE  /\ GetVersion(c) =>
              /\ client' \in [Clients -> Client]
              /\ \A d \in Clients : d # c => client'[d] = client[d]
              /\ client'[c].newest = client[c].newest
              /\ client'[c].found = find(version, {}, client[c].key)
              /\ client'[c].st # "version"
         /\ RemoveAppend(c) =>
              /\ client' \in [Clients -> Client]
              /\ \A d \in Clients : d # c => client'[d] = client[d]
              /\ client'[c].newest = client[c].newest /\ client'[c].found = client[c].found
              /\ client'[c].st # "version"
<1>0. client \in [Clients -> Client] /\ client[c] \in Client
  BY Zenon DEF TypeOK
<1>1. ASSUME NEW r \in Client, client' = [client EXCEPT ![c] = r]
      PROVE  /\ client' \in [Clients -> Client] /\ client'[c] = r
             /\ \A d \in Clients : d # c => client'[d] = client[d]
  BY <1>0, <1>1, Zenon
<1>2. ASSUME GetVersion(c)
      PROVE  /\ client' \in [Clients -> Client]
             /\ \A d \in Clients : d # c => client'[d] = client[d]
             /\ client'[c].newest = client[c].newest
             /\ client'[c].found = find(version, {}, client[c].key)
             /\ client'[c].st # "version"
  <2>1. find(version, {}, client[c].key) \in SUBSET Entry
    <3>1. version \cup {} \subseteq Entry
      BY Zenon DEF TypeOK
    <3> QED
      BY <3>1, LookupTypes
  <2> DEFINE hit == find(version, {}, client[c].key)
             r == [client[c] EXCEPT !.st = Answer(client[c].op, hit), !.found = hit]
  <2>2. client' = [client EXCEPT ![c] = r]
    BY <1>2, Zenon DEF GetVersion
  <2>3. /\ r \in Client /\ r.found = hit /\ r.newest = client[c].newest
        /\ r.st # "version"
    BY <1>0, <2>1, Zenon DEF Client, Answer
  <2> HIDE DEF r
  <2> QED
    BY <1>1, <2>2, <2>3, Zenon
<1>3. ASSUME RemoveAppend(c)
      PROVE  /\ client' \in [Clients -> Client]
             /\ \A d \in Clients : d # c => client'[d] = client[d]
             /\ client'[c].newest = client[c].newest /\ client'[c].found = client[c].found
             /\ client'[c].st # "version"
  <2> DEFINE r == [client[c] EXCEPT !.st = "done"]
  <2>1. client' = [client EXCEPT ![c] = r]
    BY <1>3, Zenon DEF RemoveAppend
  <2>2. /\ r \in Client /\ r.found = client[c].found /\ r.newest = client[c].newest
        /\ r.st # "version"
    BY <1>0, Zenon DEF Client
  <2> HIDE DEF r
  <2> QED
    BY <1>1, <2>1, <2>2, Zenon
<1> QED
  BY <1>2, <1>3, Zenon
-----------------------------------------------------------------------------
(***************************************************************************)
(* Insertions.  Batch is what a step adds to _mem.                         *)
(***************************************************************************)
Adds(B) == /\ B \in SUBSET Entry /\ mem' = mem \cup B /\ written' = written \cup B
           /\ UNCHANGED <<immut, version, flushing>>

Same == UNCHANGED <<mem, written, immut, version, flushing>>

LEMMA Insertions ==
  ASSUME TypeOK
  PROVE  /\ \A k \in Keys : set(k) =>
              \E e \in Entry : /\ e.key = k /\ e.seq = seq_count /\ Adds({e})
                               /\ seq_count' = seq_count + 1
         /\ \A c \in Clients : RemoveAppend(c) =>
              \E e \in Entry : /\ e.key = client[c].key /\ e.seq = seq_count /\ Adds({e})
                               /\ seq_count' = seq_count + 1
         /\ \A t \in Txs : TxInsert(t) \/ TxInsertFails(t) =>
              \E B \in SUBSET Entry :
                /\ Adds(B) /\ UNCHANGED seq_count
                /\ \A e \in B : e.seq = tx[t].commit_seq /\ \E w \in tx[t].buf :
                                  e.key = w.key /\ e.live = w.live
<1>1. ASSUME NEW k \in Keys, NEW live \in BOOLEAN, insert_data(k, live),
             UNCHANGED <<immut, version, flushing>>
      PROVE  \E e \in Entry : /\ e.key = k /\ e.seq = seq_count /\ Adds({e})
                              /\ seq_count' = seq_count + 1
  <2> DEFINE e == [key |-> k, seq |-> seq_count, live |-> live]
  <2>1. e \in Entry /\ e.key = k /\ e.seq = seq_count
    BY DEF TypeOK, Entry
  <2>2. mem' = mem \cup {e} /\ written' = written \cup {e} /\ seq_count' = seq_count + 1
    BY <1>1, Zenon DEF insert_data
  <2> HIDE DEF e
  <2> QED
    BY <1>1, <2>1, <2>2, Zenon DEF Adds
<1>2. ASSUME NEW k \in Keys, set(k)
      PROVE  \E e \in Entry : /\ e.key = k /\ e.seq = seq_count /\ Adds({e})
                              /\ seq_count' = seq_count + 1
  BY <1>1, <1>2, Zenon DEF set
<1>3. ASSUME NEW c \in Clients, RemoveAppend(c)
      PROVE  \E e \in Entry : /\ e.key = client[c].key /\ e.seq = seq_count /\ Adds({e})
                              /\ seq_count' = seq_count + 1
  <2>1. client[c].key \in Keys
    BY Zenon DEF TypeOK, Client
  <2> QED
    BY <1>1, <1>3, <2>1, Zenon DEF RemoveAppend
<1>4. ASSUME NEW t \in Txs, TxInsert(t) \/ TxInsertFails(t)
      PROVE  \E B \in SUBSET Entry :
                /\ Adds(B) /\ UNCHANGED seq_count
                /\ \A e \in B : e.seq = tx[t].commit_seq /\ \E w \in tx[t].buf :
                                  e.key = w.key /\ e.live = w.live
  <2> DEFINE B == {[key |-> w.key, seq |-> tx[t].commit_seq, live |-> w.live] : w \in tx[t].buf}
  <2>1. tx[t].commit_seq \in Int /\ \A w \in tx[t].buf : w.key \in Keys /\ w.live \in BOOLEAN
    BY DEF TypeOK, Tx, Buffered
  <2>2. B \in SUBSET Entry
    BY <2>1 DEF Entry
  <2>3. \A e \in B : e.seq = tx[t].commit_seq /\ \E w \in tx[t].buf : e.key = w.key /\ e.live = w.live
    OBVIOUS
  <2>4. mem' = mem \cup B /\ written' = written \cup B
    BY <1>4, Zenon DEF TxInsert, TxInsertFails, insert_batch_data
  <2>5. UNCHANGED <<seq_count, immut, version, flushing>>
    BY <1>4, Zenon DEF TxInsert, TxInsertFails
  <2> HIDE DEF B
  <2> QED
    BY <2>2, <2>3, <2>4, <2>5, Zenon DEF Adds
<1> QED
  BY <1>2, <1>3, <1>4, Zenon
-----------------------------------------------------------------------------
(***************************************************************************)
(* What the other steps leave alone.                                       *)
(***************************************************************************)
LEMMA Quiet ==
  /\ \A c \in Clients :
       /\ \A op \in {"get", "remove"}, k \in Keys :
            GetMem(c, op, k) => Same /\ UNCHANGED <<seq_count, tx_count, tx, failures>>
       /\ GetVersion(c) => Same /\ UNCHANGED <<seq_count, tx_count, tx, failures>>
       /\ RemoveAppend(c) => UNCHANGED <<tx_count, tx, failures>>
  /\ \A t \in Txs :
       /\ TxCount(t) \/ TxDrop(t) => Same /\ UNCHANGED <<seq_count, client, failures>>
       /\ TxSeq(t) \/ TxStamp(t) => Same /\ UNCHANGED <<tx_count, client, failures>>
       /\ TxVersion(t) \/ TxCheck(t) => Same /\ UNCHANGED <<seq_count, tx_count, client, failures>>
       /\ \A k \in Keys : TxSet(t, k) \/ TxRemove(t, k) =>
            Same /\ UNCHANGED <<seq_count, tx_count, client, failures>>
       /\ TxInsert(t) => UNCHANGED <<tx_count, client, failures>>
       /\ TxInsertFails(t) => UNCHANGED <<tx_count, client>> /\ failures' = failures + 1
  /\ \A k \in Keys : set(k) => UNCHANGED <<tx_count, tx, client, failures>>
  /\ swap \/ SwapFails \/ minor_compaction \/ MinorFails =>
       UNCHANGED <<seq_count, tx_count, tx, client, written>>
  /\ swap \/ minor_compaction => UNCHANGED failures
  /\ SwapFails \/ MinorFails => failures' = failures + 1
<1>1. ASSUME NEW c \in Clients
      PROVE /\ \A op \in {"get", "remove"}, k \in Keys :
                 GetMem(c, op, k) => Same /\ UNCHANGED <<seq_count, tx_count, tx, failures>>
            /\ GetVersion(c) => Same /\ UNCHANGED <<seq_count, tx_count, tx, failures>>
            /\ RemoveAppend(c) => UNCHANGED <<tx_count, tx, failures>>
  BY Zenon DEF GetMem, GetVersion, RemoveAppend, Same
<1>2. ASSUME NEW t \in Txs
      PROVE  /\ TxCount(t) \/ TxDrop(t) => Same /\ UNCHANGED <<seq_count, client, failures>>
             /\ TxSeq(t) \/ TxStamp(t) => Same /\ UNCHANGED <<tx_count, client, failures>>
  BY Zenon DEF TxCount, TxDrop, TxSeq, TxStamp, Same
<1>3. ASSUME NEW t \in Txs
      PROVE  /\ TxVersion(t) \/ TxCheck(t) =>
                  Same /\ UNCHANGED <<seq_count, tx_count, client, failures>>
             /\ \A k \in Keys : TxSet(t, k) \/ TxRemove(t, k) =>
                  Same /\ UNCHANGED <<seq_count, tx_count, client, failures>>
  BY Zenon DEF TxVersion, TxCheck, TxSet, TxRemove, Same
<1>4. ASSUME NEW t \in Txs
      PROVE  /\ TxInsert(t) => UNCHANGED <<tx_count, client, failures>>
             /\ TxInsertFails(t) => UNCHANGED <<tx_count, client>> /\ failures' = failures + 1
  BY Zenon DEF TxInsert, TxInsertFails
<1>5. /\ swap \/ SwapFails \/ minor_compaction \/ MinorFails =>
           UNCHANGED <<seq_count, tx_count, tx, client, written>>
      /\ swap \/ minor_compaction => UNCHANGED failures
      /\ SwapFails \/ MinorFails => failures' = failures + 1
  BY Zenon DEF swap, SwapFails, minor_compaction, MinorFails
<1>6. \A k \in Keys : set(k) => UNCHANGED <<tx_count, tx, client, failures>>
  BY Zenon DEF set
<1> QED
  BY <1>1, <1>2, <1>3, <1>4, <1>5, <1>6, Zenon

(* A step is one of these. *)
LEMMA Cases ==
  ASSUME [Next]_vars
  PROVE  \/ \E k \in Keys : set(k)
         \/ \E c \in Clients : \/ \E op \in {"get", "remove"}, k \in Keys : GetMem(c, op, k)
                               \/ GetVersion(c) \/ RemoveAppend(c)
         \/ \E t \in Txs : \/ TxCount(t) \/ TxVersion(t) \/ TxSeq(t)
                           \/ \E k \in Keys, live \in BOOLEAN : 
                                /\ TxSet(t, k) \/ TxRemove(t, k)
                                /\ tx[t].st = "active" /\ TxBuffer(t, k, live)
                           \/ TxCheck(t) \/ TxStamp(t) \/ TxDrop(t)
                           \/ TxInsert(t) \/ TxInsertFails(t)
         \/ swap \/ SwapFails \/ minor_compaction \/ MinorFails
         \/ UNCHANGED vars
<1>1. ASSUME NEW t \in Txs, NEW k \in Keys, TxSet(t, k) \/ TxRemove(t, k)
      PROVE  \E live \in BOOLEAN : tx[t].st = "active" /\ TxBuffer(t, k, live)
  BY <1>1, Zenon DEF TxSet, TxRemove
<1> QED
  BY <1>1, Zenon DEF Next

LEMMA TypeStep == TypeOK /\ [Next]_vars => TypeOK'
<1> SUFFICES ASSUME TypeOK, [Next]_vars PROVE TypeOK'
  OBVIOUS
<1>1. ASSUME NEW k \in Keys, set(k) PROVE TypeOK'
  <2>1. PICK e \in Entry : Adds({e}) /\ seq_count' = seq_count + 1
    BY <1>1, Insertions, Zenon
  <2> QED
    BY <1>1, <2>1, Quiet DEF TypeOK, Adds
<1>2. ASSUME NEW c \in Clients, RemoveAppend(c) PROVE TypeOK'
  <2>1. PICK e \in Entry : Adds({e}) /\ seq_count' = seq_count + 1
    BY <1>2, Insertions, Zenon
  <2> QED
    BY <1>2, <2>1, Quiet, ClientMoves DEF TypeOK, Adds
<1>3. ASSUME NEW c \in Clients, GetVersion(c) PROVE TypeOK'
  BY <1>3, Quiet, ClientMoves, Zenon DEF TypeOK, Same
<1>4. ASSUME NEW c \in Clients, NEW op \in {"get", "remove"}, NEW k \in Keys, GetMem(c, op, k)
      PROVE  TypeOK'
  <2>1. client' \in [Clients -> Client]
    BY <1>4, GetMemMoves, Zenon
  <2>2. Same /\ UNCHANGED <<seq_count, tx_count, tx, failures>>
    BY <1>4, Quiet, Zenon
  <2> QED
    BY <2>1, <2>2, Zenon DEF TypeOK, Same
<1>5. ASSUME NEW t \in Txs, TxCount(t) PROVE TypeOK'
  <2>1. tx_count' \in Int
    BY <1>5 DEF TypeOK, TxCount
  <2> QED
    BY <1>5, <2>1, Quiet, TxStarts, Zenon DEF TypeOK, Same
<1>6. ASSUME NEW t \in Txs, TxVersion(t) PROVE TypeOK'
  BY <1>6, Quiet, TxStarts, Zenon DEF TypeOK, Same
<1>7. ASSUME NEW t \in Txs, TxSeq(t) PROVE TypeOK'
  <2>1. seq_count' \in Nat
    BY <1>7 DEF TypeOK, TxSeq
  <2> QED
    BY <1>7, <2>1, Quiet, TxStarts, Zenon DEF TypeOK, Same
<1>8. ASSUME NEW t \in Txs, NEW k \in Keys, NEW live \in BOOLEAN,
             TxSet(t, k) \/ TxRemove(t, k), TxBuffer(t, k, live)
      PROVE  TypeOK'
  BY <1>8, Quiet, TxBuffers, Zenon DEF TypeOK, Same
<1>9. ASSUME NEW t \in Txs, TxCheck(t) PROVE TypeOK'
  BY <1>9, Quiet, TxCommits, Zenon DEF TypeOK, Same
<1>10. ASSUME NEW t \in Txs, TxStamp(t) PROVE TypeOK'
  <2>1. seq_count' \in Nat
    BY <1>10 DEF TypeOK, TxStamp
  <2> QED
    BY <1>10, <2>1, Quiet, TxCommits, Zenon DEF TypeOK, Same
<1>11. ASSUME NEW t \in Txs, TxDrop(t) PROVE TypeOK'
  <2>1. tx_count' \in Int
    BY <1>11 DEF TypeOK, TxDrop
  <2> QED
    BY <1>11, <2>1, Quiet, TxCommits, Zenon DEF TypeOK, Same
<1>12. ASSUME NEW t \in Txs, TxInsert(t) \/ TxInsertFails(t) PROVE TypeOK'
  <2>1. PICK B \in SUBSET Entry : Adds(B) /\ UNCHANGED seq_count
    BY <1>12, Insertions, Zenon
  <2>2. failures' \in Nat
    BY <1>12, Quiet DEF TypeOK
  <2>3. mem' \in SUBSET Entry /\ written' \in SUBSET Entry
    BY <2>1, Zenon DEF TypeOK, Adds
  <2> QED
    BY <1>12, <2>1, <2>2, <2>3, Quiet, TxCommits, Zenon DEF TypeOK, Adds
<1>13. ASSUME swap \/ SwapFails \/ minor_compaction \/ MinorFails PROVE TypeOK'
  <2>1. failures' \in Nat
    BY <1>13, Quiet DEF TypeOK
  <2>2. /\ mem' \in SUBSET Entry /\ immut' \in SUBSET Entry
        /\ version' \in SUBSET Entry /\ flushing' \in SUBSET Entry
    BY <1>13, LookupTypes, Zenon DEF TypeOK, swap, SwapFails, minor_compaction, MinorFails
  <2> QED
    BY <1>13, <2>1, <2>2, Quiet, Zenon DEF TypeOK
<1>14. CASE UNCHANGED vars
  BY <1>14, Zenon DEF vars, TypeOK
<1> QED
  BY <1>1, <1>2, <1>3, <1>4, <1>5, <1>6, <1>7, <1>8, <1>9, <1>10, <1>11, <1>12, <1>13, <1>14,
     Cases, Zenon
-----------------------------------------------------------------------------
(* swap sees no Transaction when tx_count is 0. *)
LEMMA CountStep ==
  ASSUME TypeOK, CountInv, [Next]_vars PROVE CountInv'
<1>1. ASSUME UNCHANGED tx_count, \A u \in Txs : tx'[u].st = tx[u].st PROVE CountInv'
  BY <1>1, Zenon DEF CountInv, Counted
<1>2. ASSUME UNCHANGED <<tx_count, tx>> PROVE CountInv'
  BY <1>1, <1>2, Zenon
<1>3. ASSUME NEW t \in Txs, Others(t), UNCHANGED tx_count,
             tx[t].st \notin {"none", "committed", "dropped"},
             tx'[t].st \notin {"none", "committed", "dropped"}
      PROVE  CountInv'
  <2>1. Counted' = Counted
    BY <1>3, Zenon DEF Counted, Others
  <2> QED
    BY <1>3, <2>1, Zenon DEF CountInv
<1>4. ASSUME NEW t \in Txs, TxCount(t) PROVE CountInv'
  <2>1. Counted' = Counted \cup {t} /\ t \notin Counted
    BY <1>4, TxStarts, Zenon DEF Counted, Others, TxCount
  <2>2. IsFiniteSet(Counted) /\ tx_count = Cardinality(Counted) /\ tx_count' = tx_count + 1
    BY <1>4, Zenon DEF CountInv, TxCount
  <2>3. IsFiniteSet(Counted') /\ Cardinality(Counted') = Cardinality(Counted) + 1
    BY <2>1, <2>2, FS_AddElement, Zenon
  <2> QED
    BY <2>2, <2>3, Zenon DEF CountInv
<1>5. ASSUME NEW t \in Txs, TxDrop(t) PROVE CountInv'
  <2>1. Counted' = Counted \ {t} /\ t \in Counted
    <3>1. tx[t].st \in {"active", "inserted", "failed"}
      BY <1>5, Zenon DEF TxDrop
    <3>2. tx'[t].st \in {"committed", "dropped"} /\ Others(t)
      BY <1>5, TxCommits, Zenon
    <3> QED
      BY <3>1, <3>2, Zenon DEF Counted, Others
  <2>2. IsFiniteSet(Counted) /\ tx_count = Cardinality(Counted) /\ tx_count' = tx_count - 1
    BY <1>5, Zenon DEF CountInv, TxDrop
  <2>3. IsFiniteSet(Counted') /\ Cardinality(Counted') = Cardinality(Counted) - 1
    BY <2>1, <2>2, FS_RemoveElement, Zenon
  <2> QED
    BY <2>2, <2>3, Zenon DEF CountInv
<1>6. ASSUME NEW t \in Txs, TxVersion(t) \/ TxSeq(t) PROVE CountInv'
  <2>1. tx[t].st \in {"counted", "versioned"} /\ tx'[t].st \in {"versioned", "active"} /\ Others(t)
    BY <1>6, TxStarts, Zenon DEF TxVersion, TxSeq
  <2> QED
    BY <1>3, <1>6, <2>1, Quiet, Zenon
<1>7. ASSUME NEW t \in Txs, TxCheck(t) \/ TxStamp(t) \/ TxInsert(t) \/ TxInsertFails(t)
      PROVE  CountInv'
  <2>1. tx[t].st \in {"active", "checked", "stamped"}
    BY <1>7, Zenon DEF TxCheck, TxStamp, TxInsert, TxInsertFails
  <2>2. tx'[t].st \in {"checked", "stamped", "inserted", "failed"} /\ Others(t)
    BY <1>7, TxCommits, Zenon
  <2>3. UNCHANGED tx_count
    BY <1>7, Quiet, Zenon
  <2> QED
    BY <1>3, <2>1, <2>2, <2>3, Zenon
<1>8. ASSUME NEW t \in Txs, NEW k \in Keys, NEW live \in BOOLEAN,
             TxSet(t, k) \/ TxRemove(t, k), TxBuffer(t, k, live)
      PROVE  CountInv'
  <2>1. UNCHANGED tx_count /\ \A u \in Txs : tx'[u].st = tx[u].st
    BY <1>8, Quiet, TxBuffers, Zenon DEF Others
  <2> QED
    BY <1>1, <2>1, Zenon
<1>9. ASSUME NEW c \in Clients, NEW op \in {"get", "remove"}, NEW k \in Keys, GetMem(c, op, k)
      PROVE  CountInv'
  BY <1>2, <1>9, Quiet, Zenon
<1>10. CASE UNCHANGED vars
  BY <1>2, <1>10, Zenon DEF vars
<1> QED
  BY <1>2, <1>4, <1>5, <1>6, <1>7, <1>8, <1>9, <1>10, Cases, Quiet, Zenon

LEMMA NoneCounted ==
  ASSUME CountInv, tx_count = 0
  PROVE  \A t \in Txs : tx[t].st \in {"none", "committed", "dropped"}
<1>1. Counted = {}
  BY FS_EmptySet, Zenon DEF CountInv
<1> QED
  BY <1>1, Zenon DEF Counted

(* Whatever is read was written. *)
LEMMA KnownStep ==
  ASSUME TypeOK, KnownInv, [Next]_vars PROVE KnownInv'
<1>1. ASSUME Same, UNCHANGED tx PROVE KnownInv'
  BY <1>1, Zenon DEF KnownInv, Same
<1>2. ASSUME Same, NEW t \in Txs, Others(t),
             tx'[t].version \in {tx[t].version, version, {}}
      PROVE  KnownInv'
  BY <1>2, Zenon DEF KnownInv, Same, Others
<1>3. ASSUME NEW B, Adds(B), \A t \in Txs : tx'[t].version = tx[t].version PROVE KnownInv'
  BY <1>3, Zenon DEF KnownInv, Adds
<1>4. ASSUME NEW k \in Keys, set(k) PROVE KnownInv'
  BY <1>3, <1>4, Insertions, Quiet, Zenon
<1>5. ASSUME NEW c \in Clients, RemoveAppend(c) PROVE KnownInv'
  BY <1>3, <1>5, Insertions, Quiet, Zenon
<1>6. ASSUME NEW c \in Clients, NEW op \in {"get", "remove"}, NEW k \in Keys, GetMem(c, op, k)
      PROVE  KnownInv'
  BY <1>1, <1>6, Quiet, Zenon
<1>7. ASSUME NEW t \in Txs, TxCount(t) \/ TxVersion(t) \/ TxSeq(t) PROVE KnownInv'
  <2>1. Others(t) /\ tx'[t].version \in {tx[t].version, version, {}}
    BY <1>7, TxStarts, Zenon DEF Keeps
  <2>2. Same
    BY <1>7, Quiet, Zenon
  <2> QED
    BY <1>2, <2>1, <2>2, Zenon
<1>8. ASSUME NEW t \in Txs, TxCheck(t) \/ TxStamp(t) \/ TxDrop(t) PROVE KnownInv'
  <2>1. Others(t) /\ tx'[t].version \in {tx[t].version, version, {}}
    BY <1>8, TxCommits, Zenon DEF Keeps
  <2>2. Same
    BY <1>8, Quiet, Zenon
  <2> QED
    BY <1>2, <2>1, <2>2, Zenon
<1>9. ASSUME NEW t \in Txs, NEW k \in Keys, NEW live \in BOOLEAN,
             TxSet(t, k) \/ TxRemove(t, k), TxBuffer(t, k, live)
      PROVE  KnownInv'
  BY <1>2, <1>9, Quiet, TxBuffers, Zenon
<1>10. ASSUME NEW t \in Txs, TxInsert(t) \/ TxInsertFails(t) PROVE KnownInv'
  <2>1. \A u \in Txs : tx'[u].version = tx[u].version
    BY <1>10, TxCommits, Zenon DEF Others, Keeps
  <2> QED
    BY <1>3, <1>10, <2>1, Insertions, Zenon
<1>11. ASSUME swap \/ SwapFails PROVE KnownInv'
  BY <1>11, LookupTypes, Zenon DEF swap, SwapFails, KnownInv
<1>12. ASSUME minor_compaction \/ MinorFails PROVE KnownInv'
  BY <1>12, Zenon DEF minor_compaction, MinorFails, KnownInv
<1>13. CASE UNCHANGED vars
  BY <1>1, <1>13, Zenon DEF vars, Same
<1> QED
  BY <1>1, <1>4, <1>5, <1>6, <1>7, <1>8, <1>9, <1>10, <1>11, <1>12, <1>13, Cases, Quiet, Zenon
-----------------------------------------------------------------------------
(* Every sequence id is used once. *)
LEMMA UniqueStep ==
  ASSUME TypeOK, UniqueInv, StampInv, [Next]_vars PROVE UniqueInv'
<1>1. ASSUME UNCHANGED <<written, seq_count>>, \A t \in Txs : tx'[t].buf \subseteq tx[t].buf
      PROVE  UniqueInv'
  BY <1>1, Zenon DEF UniqueInv
<1>2. ASSUME UNCHANGED <<written, seq_count, tx>> PROVE UniqueInv'
  BY <1>2, Zenon DEF UniqueInv
<1>3. ASSUME NEW e \in Entry, e.seq = seq_count, Adds({e}), seq_count' = seq_count + 1,
             UNCHANGED tx
      PROVE  UniqueInv'
  <2>1. \A f \in written : f.seq \in Int /\ f.seq < seq_count
    BY Zenon DEF TypeOK, Entry, UniqueInv
  <2>2. seq_count \in Nat
    BY Zenon DEF TypeOK
  <2> QED
    BY <1>3, <2>1, <2>2 DEF UniqueInv, Adds
<1>4. ASSUME NEW k \in Keys, set(k) PROVE UniqueInv'
  BY <1>3, <1>4, Insertions, Quiet, Zenon
<1>5. ASSUME NEW c \in Clients, RemoveAppend(c) PROVE UniqueInv'
  BY <1>3, <1>5, Insertions, Quiet, Zenon
<1>6. ASSUME NEW c \in Clients, NEW op \in {"get", "remove"}, NEW k \in Keys, GetMem(c, op, k)
      PROVE  UniqueInv'
  BY <1>2, <1>6, Quiet, Zenon DEF Same
<1>7. ASSUME NEW t \in Txs, TxCount(t) \/ TxVersion(t) \/ TxCheck(t) \/ TxDrop(t)
      PROVE  UniqueInv'
  <2>1. \A u \in Txs : tx'[u].buf \subseteq tx[u].buf
    BY <1>7, TxStarts, TxCommits, Zenon DEF Others, Keeps
  <2>2. UNCHANGED <<written, seq_count>>
    BY <1>7, Quiet, Zenon DEF Same
  <2> QED
    BY <1>1, <2>1, <2>2, Zenon
<1>8. ASSUME NEW t \in Txs, TxSeq(t) \/ TxStamp(t) PROVE UniqueInv'
  <2>1. \A u \in Txs : tx'[u].buf = tx[u].buf
    BY <1>8, TxStarts, TxCommits, Zenon DEF Others, Keeps
  <2>2. UNCHANGED written /\ seq_count' = seq_count + 1
    BY <1>8, Zenon DEF TxSeq, TxStamp
  <2>3. \A f \in written : f.seq \in Int /\ f.seq < seq_count
    BY Zenon DEF TypeOK, Entry, UniqueInv
  <2>4. \A f \in written : f.seq < seq_count + 1
    BY <2>3 DEF TypeOK
  <2> QED
    BY <2>1, <2>2, <2>4, Zenon DEF UniqueInv
<1>9. ASSUME NEW t \in Txs, NEW k \in Keys, NEW live \in BOOLEAN,
             TxSet(t, k) \/ TxRemove(t, k), TxBuffer(t, k, live)
      PROVE  UniqueInv'
  <2>1. /\ tx'[t].buf = {w \in tx[t].buf : w.key # k} \cup {[key |-> k, live |-> live]}
        /\ Others(t)
    BY <1>9, TxBuffers
  <2>2. UNCHANGED <<written, seq_count>>
    BY <1>9, Quiet, Zenon DEF Same
  <2>3. \A v, w \in tx'[t].buf : v.key = w.key => v = w
    BY <2>1 DEF UniqueInv
  <2> QED
    BY <2>1, <2>2, <2>3, Zenon DEF UniqueInv, Others
<1>10. ASSUME NEW t \in Txs, TxInsert(t) \/ TxInsertFails(t) PROVE UniqueInv'
  <2>1. PICK B \in SUBSET Entry :
          /\ Adds(B) /\ UNCHANGED seq_count
          /\ \A e \in B : e.seq = tx[t].commit_seq /\ \E w \in tx[t].buf :
                            e.key = w.key /\ e.live = w.live
    BY <1>10, Insertions, Zenon
  <2>2. tx[t].st = "stamped"
    BY <1>10, Zenon DEF TxInsert, TxInsertFails
  <2>3. \A u \in Txs : tx'[u].buf = tx[u].buf
    BY <1>10, TxCommits, Zenon DEF Others, Keeps
  <2>4. \A e \in written : e.seq # tx[t].commit_seq
    BY <2>2, Zenon DEF StampInv
  <2>5. tx[t].commit_seq < seq_count
    BY <2>2, Zenon DEF StampInv
  <2>6. \A e, f \in B : e.key = f.key => e = f
    <3>1. ASSUME NEW e \in B, NEW f \in B, e.key = f.key PROVE e = f
      <4>1. e.live = f.live /\ e.seq = f.seq
        BY <2>1, <3>1 DEF UniqueInv
      <4> QED
        BY <3>1, <4>1 DEF Entry
    <3> QED
      BY <3>1, Zenon
  <2>7. written' = written \cup B
    BY <2>1, Zenon DEF Adds
  <2>8. \A e, f \in written' : e.key = f.key /\ e.seq = f.seq => e = f
    BY <2>1, <2>4, <2>6, <2>7, Zenon DEF UniqueInv
  <2>9. \A e \in written' : e.seq < seq_count
    BY <2>1, <2>5, <2>7, Zenon DEF UniqueInv
  <2> QED
    BY <2>1, <2>3, <2>8, <2>9, Zenon DEF UniqueInv
<1>11. CASE UNCHANGED vars
  BY <1>2, <1>11, Zenon DEF vars
<1> QED
  BY <1>2, <1>4, <1>5, <1>6, <1>7, <1>8, <1>9, <1>10, <1>11, Cases, Quiet, Zenon DEF Same

LEMMA ActiveStep ==
  ASSUME TypeOK, ActiveInv, [Next]_vars PROVE ActiveInv'
<1>1. ASSUME UNCHANGED seq_count,
             \A t \in Txs : tx'[t].st = "active" => tx[t].st = "active" /\ tx'[t].seq_id = tx[t].seq_id
      PROVE  ActiveInv'
  BY <1>1, Zenon DEF ActiveInv
<1>2. \A t \in Txs : tx[t].st = "active" => tx[t].seq_id < seq_count + 1
  BY DEF ActiveInv, TypeOK, Tx
<1>3. ASSUME seq_count' = seq_count + 1,
             \A t \in Txs : tx'[t].st = "active" => tx[t].st = "active" /\ tx'[t].seq_id = tx[t].seq_id
      PROVE  ActiveInv'
  BY <1>2, <1>3, Zenon DEF ActiveInv
<1>4. ASSUME NEW k \in Keys, set(k) PROVE ActiveInv'
  BY <1>3, <1>4, Insertions, Quiet, Zenon
<1>5. ASSUME NEW c \in Clients, RemoveAppend(c) PROVE ActiveInv'
  BY <1>3, <1>5, Insertions, Quiet, Zenon
<1>6. ASSUME NEW c \in Clients, NEW op \in {"get", "remove"}, NEW k \in Keys, GetMem(c, op, k)
      PROVE  ActiveInv'
  BY <1>1, <1>6, Quiet, Zenon
<1>7. ASSUME NEW t \in Txs, TxCount(t) \/ TxVersion(t) \/ TxCheck(t) \/ TxDrop(t)
      PROVE  ActiveInv'
  <2>1. tx'[t].st # "active" /\ Others(t)
    BY <1>7, TxStarts, TxCommits, Zenon
  <2>2. UNCHANGED seq_count
    BY <1>7, Quiet, Zenon
  <2> QED
    BY <1>1, <2>1, <2>2, Zenon DEF Others
<1>8. ASSUME NEW t \in Txs, TxSeq(t) PROVE ActiveInv'
  <2>1. tx'[t].seq_id = seq_count /\ Others(t) /\ seq_count' = seq_count + 1
    BY <1>8, TxStarts, Zenon DEF TxSeq
  <2>2. seq_count < seq_count'
    BY <2>1 DEF TypeOK
  <2> QED
    BY <1>2, <2>1, <2>2, Zenon DEF ActiveInv, Others
<1>9. ASSUME NEW t \in Txs, TxStamp(t) PROVE ActiveInv'
  <2>1. tx'[t].st = "stamped" /\ Others(t) /\ seq_count' = seq_count + 1
    BY <1>9, TxCommits, Zenon DEF TxStamp
  <2> QED
    BY <1>3, <2>1, Zenon DEF Others
<1>10. ASSUME NEW t \in Txs, NEW k \in Keys, NEW live \in BOOLEAN,
              TxSet(t, k) \/ TxRemove(t, k), TxBuffer(t, k, live)
       PROVE  ActiveInv'
  BY <1>1, <1>10, Quiet, TxBuffers, Zenon DEF Others
<1>11. ASSUME NEW t \in Txs, TxInsert(t) \/ TxInsertFails(t) PROVE ActiveInv'
  <2>1. tx'[t].st # "active" /\ Others(t)
    BY <1>11, TxCommits, Zenon
  <2>2. UNCHANGED seq_count
    BY <1>11, Zenon DEF TxInsert, TxInsertFails
  <2> QED
    BY <1>1, <2>1, <2>2, Zenon DEF Others
<1>12. CASE UNCHANGED vars
  BY <1>1, <1>12, Zenon DEF vars
<1> QED
  BY <1>1, <1>4, <1>5, <1>6, <1>7, <1>8, <1>9, <1>10, <1>11, <1>12, Cases, Quiet, Zenon

(* A commit that is not inserted yet is newer than what has left _mem. *)
LEMMA StampStep ==
  ASSUME TypeOK, CountInv, KnownInv, UniqueInv, ActiveInv, StampInv, [Next]_vars
  PROVE  StampInv'
<1>0. /\ seq_count \in Nat
      /\ \A e \in written : e.seq \in Int /\ e.seq < seq_count
      /\ \A t \in Txs : /\ tx[t].commit_seq \in Nat /\ tx[t].seq_id \in Nat
                        /\ tx[t].st = "stamped" => tx[t].commit_seq < seq_count
                        /\ tx[t].st = "active" => tx[t].seq_id < seq_count
  BY Zenon DEF TypeOK, Entry, Tx, UniqueInv, StampInv, ActiveInv
<1>1. ASSUME Same, UNCHANGED seq_count,
             \A t \in Txs :
               /\ tx'[t].st = "stamped" => tx[t].st = "stamped" /\ tx'[t].commit_seq = tx[t].commit_seq
               /\ tx'[t].st = "active" => tx[t].st = "active" /\ tx'[t].seq_id = tx[t].seq_id
               /\ tx'[t].st \in {"versioned", "active"} =>
                    \/ tx[t].st \in {"versioned", "active"} /\ tx'[t].version = tx[t].version
                    \/ tx'[t].version = version
      PROVE  StampInv'
  <2> SUFFICES ASSUME NEW t \in Txs, tx'[t].st = "stamped"
               PROVE  /\ tx'[t].commit_seq < seq_count
                      /\ \A e \in written : e.seq # tx'[t].commit_seq
                      /\ \A e \in immut \cup version : e.seq < tx'[t].commit_seq
                      /\ \A u \in Txs :
                           /\ tx'[u].st = "stamped" /\ t # u => tx'[t].commit_seq # tx'[u].commit_seq
                           /\ tx'[u].st = "active" => tx'[t].commit_seq # tx'[u].seq_id
                           /\ tx'[u].st \in {"versioned", "active"} =>
                                \A e \in tx'[u].version : e.seq < tx'[t].commit_seq
    BY <1>1, Zenon DEF StampInv, Same
  <2>1. tx[t].st = "stamped" /\ tx'[t].commit_seq = tx[t].commit_seq
    BY <1>1, Zenon
  <2>2. \A u \in Txs : tx'[u].st \in {"versioned", "active"} =>
          \A e \in tx'[u].version : e.seq < tx[t].commit_seq
    BY <1>1, <2>1, Zenon DEF StampInv
  <2>3. /\ tx[t].commit_seq < seq_count
        /\ \A e \in written : e.seq # tx[t].commit_seq
        /\ \A e \in immut \cup version : e.seq < tx[t].commit_seq
    BY <2>1, Zenon DEF StampInv
  <2>4. \A u \in Txs :
          /\ tx[u].st = "stamped" /\ t # u => tx[t].commit_seq # tx[u].commit_seq
          /\ tx[u].st = "active" => tx[t].commit_seq # tx[u].seq_id
    BY <2>1, Zenon DEF StampInv
  <2> QED
    BY <1>1, <2>1, <2>2, <2>3, <2>4, Zenon
<1>2. ASSUME NEW e \in Entry, e.seq = seq_count, Adds({e}), seq_count' = seq_count + 1,
             UNCHANGED tx
      PROVE  StampInv'
  <2>1. \A t \in Txs : tx[t].st = "stamped" =>
          tx[t].commit_seq < seq_count' /\ e.seq # tx[t].commit_seq
    BY <1>0, <1>2
  <2> QED
    BY <1>2, <2>1, Zenon DEF StampInv, Adds
<1>3. ASSUME NEW k \in Keys, set(k) PROVE StampInv'
  BY <1>2, <1>3, Insertions, Quiet, Zenon
<1>4. ASSUME NEW c \in Clients, RemoveAppend(c) PROVE StampInv'
  BY <1>2, <1>4, Insertions, Quiet, Zenon
<1>5. ASSUME NEW c \in Clients, NEW op \in {"get", "remove"}, NEW k \in Keys, GetMem(c, op, k)
      PROVE  StampInv'
  BY <1>1, <1>5, Quiet, Zenon
<1>6. ASSUME NEW t \in Txs, TxCount(t) \/ TxVersion(t) PROVE StampInv'
  <2>1. /\ Others(t) /\ tx'[t].st \in {"counted", "versioned"}
        /\ tx'[t].st = "versioned" => tx'[t].version = version
    BY <1>6, TxStarts, Zenon
  <2>2. Same /\ UNCHANGED seq_count
    BY <1>6, Quiet, Zenon
  <2> QED
    BY <1>1, <2>1, <2>2, Zenon DEF Others
<1>7. ASSUME NEW t \in Txs, TxCheck(t) \/ TxDrop(t) PROVE StampInv'
  <2>1. Others(t) /\ tx'[t].st \in {"checked", "committed", "dropped"}
    BY <1>7, TxCommits, Zenon
  <2>2. Same /\ UNCHANGED seq_count
    BY <1>7, Quiet, Zenon
  <2> QED
    BY <1>1, <2>1, <2>2, Zenon DEF Others
<1>8. ASSUME NEW t \in Txs, NEW k \in Keys, NEW live \in BOOLEAN, tx[t].st = "active",
             TxSet(t, k) \/ TxRemove(t, k), TxBuffer(t, k, live)
      PROVE  StampInv'
  <2>1. /\ Others(t) /\ tx'[t].st = tx[t].st /\ tx'[t].seq_id = tx[t].seq_id
        /\ tx'[t].version = tx[t].version
    BY <1>8, TxBuffers, Zenon
  <2>2. Same /\ UNCHANGED seq_count
    BY <1>8, Quiet, Zenon
  <2> QED
    BY <1>1, <1>8, <2>1, <2>2, Zenon DEF Others
<1>9. ASSUME NEW t \in Txs, TxSeq(t) PROVE StampInv'
  <2>1. /\ Others(t) /\ Keeps(t) /\ tx'[t].st = "active" /\ tx'[t].seq_id = seq_count
        /\ tx[t].st = "versioned" /\ seq_count' = seq_count + 1 /\ Same
    BY <1>9, TxStarts, Quiet, Zenon DEF TxSeq
  <2>2. \A u \in Txs : tx'[u].st = "stamped" => 
          /\ tx[u].st = "stamped" /\ tx'[u] = tx[u]
          /\ tx[u].commit_seq < seq_count' /\ tx[u].commit_seq # seq_count
    BY <1>0, <2>1 DEF Others
  <2> QED
    BY <2>1, <2>2 DEF StampInv, Others, Keeps, Same
<1>10. ASSUME NEW t \in Txs, TxStamp(t) PROVE StampInv'
  <2>1. /\ Others(t) /\ tx'[t].st = "stamped" /\ tx'[t].commit_seq = seq_count
        /\ seq_count' = seq_count + 1 /\ Same
    BY <1>10, TxCommits, Quiet, Zenon DEF TxStamp
  <2>2. \A e \in immut \cup version : e.seq < seq_count
    BY <1>0, Zenon DEF KnownInv
  <2>3. \A u \in Txs : \A e \in tx[u].version : e.seq < seq_count
    BY <1>0, Zenon DEF KnownInv
  <2>4. ASSUME NEW u \in Txs, u # t, tx'[u].st = "stamped"
        PROVE  /\ tx'[u] = tx[u] /\ tx[u].commit_seq < seq_count'
               /\ tx[u].commit_seq # seq_count
    BY <1>0, <2>1, <2>4 DEF Others
  <2>5. /\ seq_count < seq_count'
        /\ \A e \in written : e.seq # seq_count
        /\ \A u \in Txs : tx[u].st = "active" => seq_count # tx[u].seq_id
    BY <1>0, <2>1
  <2>6. ASSUME NEW u \in Txs, u # t, tx'[u].st = "stamped"
        PROVE  /\ \A e \in written : e.seq # tx'[u].commit_seq
               /\ \A e \in immut \cup version : e.seq < tx'[u].commit_seq
               /\ \A v \in Txs : 
                    /\ tx'[v].st = "stamped" /\ u # v => tx'[u].commit_seq # tx'[v].commit_seq
                    /\ tx'[v].st = "active" => tx'[u].commit_seq # tx'[v].seq_id
                    /\ tx'[v].st \in {"versioned", "active"} =>
                         \A e \in tx'[v].version : e.seq < tx'[u].commit_seq
    BY <2>1, <2>4, <2>6 DEF StampInv, Others
  <2>7. \A v \in Txs : 
          /\ tx'[v].st = "stamped" /\ t # v => tx'[t].commit_seq # tx'[v].commit_seq
          /\ tx'[v].st = "active" => tx'[t].commit_seq # tx'[v].seq_id
          /\ tx'[v].st \in {"versioned", "active"} =>
               \A e \in tx'[v].version : e.seq < tx'[t].commit_seq
    BY <2>1, <2>3, <2>4, <2>5, Zenon DEF Others
  <2> QED
    BY <2>1, <2>2, <2>4, <2>5, <2>6, <2>7, Zenon DEF StampInv, Same
<1>11. ASSUME NEW t \in Txs, TxInsert(t) \/ TxInsertFails(t) PROVE StampInv'
  <2>1. PICK B \in SUBSET Entry :
          Adds(B) /\ UNCHANGED seq_count /\ \A e \in B : e.seq = tx[t].commit_seq
    BY <1>11, Insertions, Zenon
  <2>2. tx[t].st = "stamped" /\ tx'[t].st \in {"inserted", "failed"} /\ Others(t)
    BY <1>11, TxCommits, Zenon DEF TxInsert, TxInsertFails
  <2>3. ASSUME NEW u \in Txs, tx'[u].st = "stamped"
        PROVE  u # t /\ tx'[u] = tx[u] /\ \A e \in B : e.seq # tx[u].commit_seq
    BY <2>1, <2>2, <2>3 DEF Others, StampInv
  <2>4. \A v \in Txs : tx'[v].st \in {"stamped", "versioned", "active"} => tx'[v] = tx[v]
    BY <2>2, Zenon DEF Others
  <2> QED
    BY <2>1, <2>3, <2>4 DEF StampInv, Adds
<1>12. ASSUME swap \/ SwapFails PROVE StampInv'
  <2>1. tx_count = 0 /\ UNCHANGED tx
    BY <1>12, Zenon DEF swap, SwapFails
  <2> QED
    BY <2>1, NoneCounted, Zenon DEF StampInv
<1>13. ASSUME minor_compaction \/ MinorFails PROVE StampInv'
  <2>1. immut' \cup version' \subseteq immut \cup version
    BY <1>13, Zenon DEF minor_compaction, MinorFails, KnownInv
  <2> QED
    BY <1>13, <2>1, Quiet, Zenon DEF StampInv
<1>14. CASE UNCHANGED vars
  BY <1>14, Zenon DEF vars, StampInv
<1> QED
  BY <1>1, <1>3, <1>4, <1>5, <1>6, <1>7, <1>8, <1>9, <1>10, <1>11, <1>12, <1>13, <1>14, Cases,
     Quiet, Zenon

(* While a Transaction lives, no write after its seq_id leaves _mem. *)
LEMMA ConflictStep ==
  ASSUME TypeOK, CountInv, UniqueInv, ConflictComplete, [Next]_vars PROVE ConflictComplete'
<1>1. ASSUME UNCHANGED <<mem, written>>,
             \A t \in Txs : tx'[t].st \in {"active", "checked", "stamped"} =>
               tx[t].st \in {"active", "checked", "stamped"} /\ tx'[t].seq_id = tx[t].seq_id
      PROVE  ConflictComplete'
  BY <1>1, Zenon DEF ConflictComplete
<1>2. ASSUME NEW B, Adds(B), 
             \A t \in Txs : tx'[t].st \in {"active", "checked", "stamped"} => tx'[t] = tx[t]
      PROVE  ConflictComplete'
  BY <1>2, Zenon DEF ConflictComplete, Adds
<1>3. ASSUME NEW k \in Keys, set(k) PROVE ConflictComplete'
  BY <1>2, <1>3, Insertions, Quiet, Zenon
<1>4. ASSUME NEW c \in Clients, RemoveAppend(c) PROVE ConflictComplete'
  BY <1>2, <1>4, Insertions, Quiet, Zenon
<1>5. ASSUME NEW c \in Clients, NEW op \in {"get", "remove"}, NEW k \in Keys, GetMem(c, op, k)
      PROVE  ConflictComplete'
  BY <1>1, <1>5, Quiet, Zenon DEF Same
<1>6. ASSUME NEW t \in Txs, TxCount(t) \/ TxVersion(t) \/ TxDrop(t) PROVE ConflictComplete'
  <2>1. Others(t) /\ tx'[t].st \in {"counted", "versioned", "committed", "dropped"}
    BY <1>6, TxStarts, TxCommits, Zenon
  <2>2. UNCHANGED <<mem, written>>
    BY <1>6, Quiet, Zenon DEF Same
  <2> QED
    BY <1>1, <2>1, <2>2, Zenon DEF Others
<1>7. ASSUME NEW t \in Txs, TxCheck(t) \/ TxStamp(t) PROVE ConflictComplete'
  <2>1. Others(t) /\ tx'[t].seq_id = tx[t].seq_id
    BY <1>7, TxCommits, Zenon
  <2>2. UNCHANGED <<mem, written>> /\ tx[t].st \in {"active", "checked"}
    BY <1>7, Zenon DEF TxCheck, TxStamp
  <2> QED
    BY <1>1, <2>1, <2>2, Zenon DEF Others
<1>8. ASSUME NEW t \in Txs, NEW k \in Keys, NEW live \in BOOLEAN, tx[t].st = "active",
             TxSet(t, k) \/ TxRemove(t, k), TxBuffer(t, k, live)
      PROVE  ConflictComplete'
  <2>1. Others(t) /\ tx'[t].st = tx[t].st /\ tx'[t].seq_id = tx[t].seq_id
    BY <1>8, TxBuffers, Zenon
  <2>2. UNCHANGED <<mem, written>>
    BY <1>8, Quiet, Zenon DEF Same
  <2> QED
    BY <1>1, <1>8, <2>1, <2>2, Zenon DEF Others
<1>9. ASSUME NEW t \in Txs, TxSeq(t) PROVE ConflictComplete'
  <2>1. Others(t) /\ tx'[t].seq_id = seq_count /\ UNCHANGED <<mem, written>>
    BY <1>9, TxStarts, Zenon DEF TxSeq
  <2>2. \A e \in written : ~(e.seq > tx'[t].seq_id)
    BY <2>1 DEF UniqueInv, TypeOK, Entry
  <2> QED
    BY <2>1, <2>2, Zenon DEF ConflictComplete, Others
<1>10. ASSUME NEW t \in Txs, TxInsert(t) \/ TxInsertFails(t) PROVE ConflictComplete'
  <2>1. \A u \in Txs : tx'[u].st \in {"active", "checked", "stamped"} => tx'[u] = tx[u]
    BY <1>10, TxCommits, Zenon DEF Others
  <2> QED
    BY <1>2, <1>10, <2>1, Insertions, Zenon
<1>11. ASSUME swap \/ SwapFails PROVE ConflictComplete'
  <2>1. tx_count = 0 /\ UNCHANGED tx
    BY <1>11, Zenon DEF swap, SwapFails
  <2> QED
    BY <2>1, NoneCounted, Zenon DEF ConflictComplete
<1>12. ASSUME minor_compaction \/ MinorFails PROVE ConflictComplete'
  <2>1. UNCHANGED <<mem, written, tx>>
    BY <1>12, Zenon DEF minor_compaction, MinorFails
  <2> QED
    BY <1>1, <2>1, Zenon
<1>13. CASE UNCHANGED vars
  BY <1>1, <1>13, Zenon DEF vars
<1> QED
  BY Zenon, <1>1, <1>3, <1>4, <1>5, <1>6, <1>7, <1>8, <1>9, <1>10, <1>11, <1>12, <1>13, Cases, Quiet,
     Zenon DEF Same

(* A Version stays below _mem and _immut when something is inserted. *)
LEMMA LayeredAdd ==
  ASSUME NEW B, Adds(B), NEW V, Layered(V), Below(V, B), failures' = 0 => failures = 0
  PROVE  Layered(V)'
BY Zenon DEF Layered, Below, Covers, Adds

LEMMA LayerStep ==
  ASSUME TypeOK, CountInv, KnownInv, UniqueInv, StampInv, LayerInv, FlushInv, [Next]_vars
  PROVE  LayerInv'
<1>0. /\ seq_count \in Nat /\ failures \in Nat
      /\ \A e \in written : e.seq \in Int /\ e.seq < seq_count
  BY Zenon DEF TypeOK, Entry, UniqueInv
<1>1. ASSUME Same, UNCHANGED failures,
             \A t \in Txs : tx'[t].st \in {"versioned", "active"} =>
               \/ tx[t].st \in {"versioned", "active"} /\ tx'[t].version = tx[t].version
               \/ tx'[t].version = version
      PROVE  LayerInv'
  BY <1>1, Zenon DEF LayerInv, Layered, Same
<1>2. ASSUME NEW B \in SUBSET Entry, Adds(B), failures' = 0 => failures = 0,
             \A e \in B : \A f \in immut \cup version : f.seq < e.seq,
             \A t \in Txs : tx[t].st \in {"versioned", "active"} => Below(tx[t].version, B),
             \A t \in Txs : tx'[t].st \in {"versioned", "active"} => tx'[t] = tx[t]
      PROVE  LayerInv'
  <2>1. Below(immut, mem)'
    BY <1>2, Zenon DEF LayerInv, Below, Adds
  <2>2. Layered(version)'
    <3>1. Layered(version) /\ Below(version, B) /\ version' = version
      BY <1>2, Zenon DEF LayerInv, Below, Adds
    <3>2. ASSUME NEW V, V = version PROVE Layered(V)'
      BY <1>2, <3>1, <3>2, LayeredAdd, Zenon
    <3> QED
      BY <3>1, <3>2, Zenon DEF Layered
  <2>3. ASSUME NEW t \in Txs, tx'[t].st \in {"versioned", "active"} PROVE Layered(tx[t].version)'
    <3>1. tx'[t] = tx[t] /\ Layered(tx[t].version) /\ Below(tx[t].version, B)
      BY <1>2, <2>3, Zenon DEF LayerInv
    <3>2. ASSUME NEW V, V = tx[t].version PROVE Layered(V)'
      BY <1>2, <3>1, <3>2, LayeredAdd, Zenon
    <3> QED
      BY <3>1, <3>2, Zenon DEF Layered
  <2> QED
    BY <2>1, <2>2, <2>3, Zenon DEF LayerInv
<1>3. ASSUME NEW e \in Entry, e.seq = seq_count, Adds({e}), UNCHANGED <<tx, failures>>
      PROVE  LayerInv'
  <2>1. \A f \in immut \cup version : f.seq < e.seq
    BY <1>0, <1>3, Zenon DEF KnownInv
  <2>2. \A t \in Txs : Below(tx[t].version, {e})
    BY <1>0, <1>3, Zenon DEF KnownInv, Below
  <2> QED
    BY <1>2, <1>3, <2>1, <2>2, Zenon
<1>4. ASSUME NEW k \in Keys, set(k) PROVE LayerInv'
  BY <1>3, <1>4, Insertions, Quiet, Zenon
<1>5. ASSUME NEW c \in Clients, RemoveAppend(c) PROVE LayerInv'
  BY <1>3, <1>5, Insertions, Quiet, Zenon
<1>6. ASSUME NEW t \in Txs, TxInsert(t) \/ TxInsertFails(t) PROVE LayerInv'
  <2>1. PICK B \in SUBSET Entry : Adds(B) /\ \A e \in B : e.seq = tx[t].commit_seq
    BY <1>6, Insertions, Zenon
  <2>2. tx[t].st = "stamped"
    BY <1>6, Zenon DEF TxInsert, TxInsertFails
  <2>3. \A u \in Txs : tx'[u].st \in {"versioned", "active"} => tx'[u] = tx[u]
    BY <1>6, TxCommits, Zenon DEF Others
  <2>4. failures' = 0 => failures = 0
    BY <1>0, <1>6, Quiet
  <2>5. \A e \in B : \A f \in immut \cup version : f.seq < e.seq
    BY <2>1, <2>2, Zenon DEF StampInv
  <2>6. \A u \in Txs : tx[u].st \in {"versioned", "active"} => Below(tx[u].version, B)
    BY <2>1, <2>2, Zenon DEF StampInv, Below
  <2> QED
    BY <1>2, <2>1, <2>3, <2>4, <2>5, <2>6, Zenon
<1>7. ASSUME NEW c \in Clients, NEW op \in {"get", "remove"}, NEW k \in Keys, GetMem(c, op, k)
      PROVE  LayerInv'
  BY <1>1, <1>7, Quiet, Zenon
<1>8. ASSUME NEW t \in Txs, TxCount(t) \/ TxVersion(t) \/ TxSeq(t) PROVE LayerInv'
  <2>1. /\ Others(t)
        /\ tx'[t].st \in {"versioned", "active"} =>
             \/ tx[t].st = "versioned" /\ tx'[t].version = tx[t].version
             \/ tx'[t].version = version
    BY <1>8, TxStarts, Zenon DEF Keeps, TxSeq
  <2>2. Same /\ UNCHANGED failures
    BY <1>8, Quiet, Zenon
  <2> QED
    BY <1>1, <2>1, <2>2, Zenon DEF Others
<1>9. ASSUME NEW t \in Txs, TxCheck(t) \/ TxStamp(t) \/ TxDrop(t) PROVE LayerInv'
  <2>1. Others(t) /\ tx'[t].st \in {"checked", "stamped", "committed", "dropped"}
    BY <1>9, TxCommits, Zenon
  <2>2. Same /\ UNCHANGED failures
    BY <1>9, Quiet, Zenon
  <2> QED
    BY <1>1, <2>1, <2>2, Zenon DEF Others
<1>10. ASSUME NEW t \in Txs, NEW k \in Keys, NEW live \in BOOLEAN,
             TxSet(t, k) \/ TxRemove(t, k), TxBuffer(t, k, live)
      PROVE  LayerInv'
  <2>1. Others(t) /\ tx'[t].st = tx[t].st /\ tx'[t].version = tx[t].version
    BY <1>10, TxBuffers
  <2>2. Same /\ UNCHANGED failures
    BY <1>10, Quiet, Zenon
  <2> QED
    BY <1>1, <2>1, <2>2, Zenon DEF Others
<1>11. ASSUME swap \/ SwapFails PROVE LayerInv'
  <2>1. /\ tx_count = 0 /\ UNCHANGED <<tx, version, written>> /\ mem' = {} /\ immut' = mem
        /\ swap => flushing = {} /\ failures' = failures
    BY <1>11, Zenon DEF swap, SwapFails
  <2>2. failures' = 0 => failures = 0 /\ flushing = {}
    BY <1>0, <1>11, <2>1, Quiet
  <2>3. Below(version, mem) /\ OnePerKey(version)
    BY Zenon DEF LayerInv, Layered
  <2>4. failures' = 0 => Covers(version, written \ mem)
    <3> SUFFICES ASSUME failures' = 0, NEW e \in written \ mem
                 PROVE  \E f \in version : f.key = e.key /\ f.seq >= e.seq
      BY Zenon DEF Covers
    <3>1. CASE e \in immut
      BY <2>2, <3>1, Zenon DEF FlushInv, Covers
    <3>2. CASE e \notin immut
      BY <2>2, <3>2, Zenon DEF LayerInv, Layered, Covers
    <3> QED
      BY <3>1, <3>2, Zenon
  <2>5. Layered(version)'
    BY <2>1, <2>3, <2>4, Zenon DEF Layered, Below, OnePerKey, Covers
  <2>6. \A t \in Txs : ~(tx'[t].st \in {"versioned", "active"})
    BY <2>1, NoneCounted, Zenon
  <2> QED
    BY <2>1, <2>5, <2>6, Zenon DEF LayerInv, Below
<1>12. ASSUME minor_compaction PROVE LayerInv'
  <2>1. /\ version' = flushing \cup {e \in version : \A f \in flushing : f.key # e.key}
        /\ UNCHANGED <<mem, immut, written, tx, failures>>
    BY <1>12, Zenon DEF minor_compaction
  <2>2. OnePerKey(version')
    BY <2>1, Zenon DEF LayerInv, Layered, FlushInv, OnePerKey
  <2>3. Below(version', mem)
    BY <2>1, Zenon DEF LayerInv, Layered, Below, KnownInv
  <2>4. \A e \in version' : e \in immut \/ \A f \in immut : e.seq < f.seq
    BY <2>1, Zenon DEF LayerInv, Layered, KnownInv
  <2>5. ASSUME failures = 0 PROVE Covers(version', written \ (mem \cup immut))
    <3> SUFFICES ASSUME NEW e \in written \ (mem \cup immut)
                 PROVE  \E f \in version' : f.key = e.key /\ f.seq >= e.seq
      BY Zenon DEF Covers
    <3>1. PICK f \in version : f.key = e.key /\ f.seq >= e.seq
      BY <2>5, Zenon DEF LayerInv, Layered, Covers
    <3>2. CASE \A g \in flushing : g.key # f.key
      BY <2>1, <3>1, <3>2, Zenon
    <3>3. ASSUME NEW g \in flushing, g.key = f.key PROVE g.seq >= e.seq
      <4>1. f.seq < g.seq
        BY Zenon DEF FlushInv, Below
      <4>2. e.seq \in Int /\ f.seq \in Int /\ g.seq \in Int
        BY <1>0, Zenon DEF KnownInv
      <4> QED
        BY <3>1, <4>1, <4>2
    <3> QED
      BY <2>1, <3>1, <3>2, <3>3, Zenon
  <2>6. Layered(version)'
    BY <2>1, <2>2, <2>3, <2>4, <2>5, Zenon DEF Layered
  <2>7. \A t \in Txs : Layered(tx[t].version) => Layered(tx[t].version)'
    BY <2>1, Zenon DEF Layered
  <2> QED
    BY <2>1, <2>6, <2>7, Zenon DEF LayerInv
<1>13. ASSUME MinorFails PROVE LayerInv'
  <2>1. UNCHANGED <<mem, immut, version, written, tx>> /\ ~(failures' = 0)
    BY <1>0, <1>13 DEF MinorFails
  <2>2. Layered(version)'
    BY <2>1, Zenon DEF Layered, LayerInv
  <2>3. \A t \in Txs : Layered(tx[t].version) => Layered(tx[t].version)'
    BY <2>1, Zenon DEF Layered
  <2> QED
    BY <2>1, <2>2, <2>3, Zenon DEF LayerInv
<1>14. CASE UNCHANGED vars
  BY <1>1, <1>14, Zenon DEF vars, Same
<1> QED
  BY Zenon, <1>1, <1>4, <1>5, <1>6, <1>7, <1>8, <1>9, <1>10, <1>11, <1>12, <1>13, <1>14, Cases, Quiet,
     Zenon

(* A Version only gets newer. *)
LEMMA VersionGrows ==
  ASSUME TypeOK, KnownInv, FlushInv, minor_compaction, NEW e \in version
  PROVE  \E f \in version' : f.key = e.key /\ f.seq >= e.seq
<1>1. version' = flushing \cup {f \in version : \A g \in flushing : g.key # f.key}
  BY Zenon DEF minor_compaction
<1>2. CASE \A g \in flushing : g.key # e.key
  <2>1. e.seq >= e.seq
    BY DEF TypeOK, Entry
  <2> QED
    BY <1>1, <1>2, <2>1, Zenon
<1>3. ASSUME NEW g \in flushing, g.key = e.key PROVE g.seq >= e.seq
  <2>1. e.seq < g.seq
    BY Zenon DEF FlushInv, Below
  <2>2. e.seq \in Int /\ g.seq \in Int
    BY Zenon DEF TypeOK, Entry
  <2> QED
    BY <2>1, <2>2
<1> QED
  BY <1>1, <1>2, <1>3, Zenon

LEMMA FlushStep ==
  ASSUME TypeOK, KnownInv, UniqueInv, LayerInv, FlushInv, [Next]_vars PROVE FlushInv'
<1>0. /\ seq_count \in Nat /\ failures \in Nat
      /\ \A e \in written : e.seq \in Int /\ e.seq < seq_count
  BY Zenon DEF TypeOK, Entry, UniqueInv
<1>1. ASSUME UNCHANGED <<immut, version, flushing>>, failures' = 0 => failures = 0
      PROVE  FlushInv'
  BY <1>1, Zenon DEF FlushInv
<1>2. ASSUME NEW k \in Keys, set(k) PROVE FlushInv'
  BY <1>1, <1>2, Insertions, Quiet, Zenon DEF Adds
<1>3. ASSUME NEW c \in Clients, RemoveAppend(c) PROVE FlushInv'
  BY <1>1, <1>3, Insertions, Quiet, Zenon DEF Adds
<1>4. ASSUME NEW t \in Txs, TxInsert(t) \/ TxInsertFails(t) PROVE FlushInv'
  <2>1. UNCHANGED <<immut, version, flushing>>
    BY <1>4, Zenon DEF TxInsert, TxInsertFails
  <2>2. failures' = 0 => failures = 0
    BY <1>0, <1>4, Quiet
  <2> QED
    BY <1>1, <2>1, <2>2, Zenon
<1>5. ASSUME NEW c \in Clients, NEW op \in {"get", "remove"}, NEW k \in Keys, GetMem(c, op, k)
      PROVE  FlushInv'
  BY <1>1, <1>5, Quiet, Zenon DEF Same
<1>6. ASSUME swap PROVE FlushInv'
  <2>1. immut' = mem /\ flushing' = unique_by_key(mem) /\ UNCHANGED <<version, failures>>
    BY <1>6, Zenon DEF swap
  <2>2. OnePerKey(flushing')
    <3>1. \A e \in mem : e.seq \in Int
      BY <1>0, Zenon DEF KnownInv
    <3>2. \A e, f \in mem : e.key = f.key /\ e.seq = f.seq => e = f
      BY Zenon DEF KnownInv, UniqueInv
    <3> QED
      BY <2>1, <3>1, <3>2 DEF OnePerKey, unique_by_key
  <2>3. Below(version, flushing')
    BY <2>1, LookupTypes, Zenon DEF LayerInv, Layered, Below
  <2>4. Covers(flushing', mem)
    <3> SUFFICES ASSUME NEW e \in mem
                 PROVE  \E f \in flushing' : f.key = e.key /\ f.seq >= e.seq
      BY Zenon DEF Covers
    <3> DEFINE S == {f \in mem : f.key = e.key}
    <3>1. \A f \in S : f.seq \in Int /\ f.seq <= seq_count
      BY <1>0 DEF KnownInv
    <3>2. e \in S
      OBVIOUS
    <3> HIDE DEF S
    <3>3. PICK f \in S : \A g \in S : g.seq <= f.seq
      BY <1>0, <3>1, <3>2, HasLatest
    <3>4. f.seq >= e.seq
      BY <3>1, <3>2, <3>3, Zenon
    <3>5. f \in flushing' /\ f.key = e.key
      BY <2>1, <3>3, Zenon DEF S, unique_by_key
    <3> QED
      BY <3>4, <3>5, Zenon
  <2> QED
    BY <2>1, <2>2, <2>3, <2>4, Zenon DEF FlushInv, Covers
<1>7. ASSUME SwapFails PROVE FlushInv'
  <2>1. flushing' = {} /\ ~(failures' = 0)
    BY <1>0, <1>7 DEF SwapFails
  <2> QED
    BY <2>1, Zenon DEF FlushInv, OnePerKey, Below
<1>8. ASSUME MinorFails PROVE FlushInv'
  <2>1. flushing' = {} /\ ~(failures' = 0)
    BY <1>0, <1>8 DEF MinorFails
  <2> QED
    BY <2>1, Zenon DEF FlushInv, OnePerKey, Below
<1>9. ASSUME minor_compaction PROVE FlushInv'
  <2>1. flushing' = {} /\ UNCHANGED <<immut, failures>> /\ flushing \subseteq version'
    BY <1>9, Zenon DEF minor_compaction
  <2>2. ASSUME failures = 0 PROVE Covers(version', immut)
    <3> SUFFICES ASSUME NEW e \in immut
                 PROVE  \E f \in version' : f.key = e.key /\ f.seq >= e.seq
      BY Zenon DEF Covers
    <3>1. PICK f \in flushing \cup version : f.key = e.key /\ f.seq >= e.seq
      BY <2>2, Zenon DEF FlushInv, Covers
    <3>2. CASE f \in flushing
      BY <2>1, <3>1, <3>2, Zenon
    <3>3. CASE f \in version
      <4>1. PICK g \in version' : g.key = f.key /\ g.seq >= f.seq
        BY <1>9, <3>3, VersionGrows, Zenon
      <4>2. g.seq >= e.seq
        <5>1. g \in Entry /\ f \in Entry /\ e \in Entry
          BY <1>9, <3>3, Zenon DEF TypeOK, minor_compaction
        <5> QED
          BY <3>1, <4>1, <5>1 DEF Entry
      <4> QED
        BY <3>1, <4>1, <4>2, Zenon
    <3> QED
      BY <3>1, <3>2, <3>3, Zenon
  <2> QED
    BY <2>1, <2>2, Zenon DEF FlushInv, OnePerKey, Below, Covers
<1>10. CASE UNCHANGED vars
  BY <1>1, <1>10, Zenon DEF vars
<1> QED
  BY <1>1, <1>2, <1>3, <1>4, <1>5, <1>6, <1>7, <1>8, <1>9, <1>10, Cases, Quiet, Zenon DEF Same
-----------------------------------------------------------------------------
(* What the invariant says of reads. *)
LEMMA FindIsBounded ==
  ASSUME NEW M, NEW I, NEW k, NEW s, \A e \in M \cup I : e.seq <= s
  PROVE  find(M, I, k) = find_with_sequence_id(M, I, k, s)
<1>1. /\ {e \in M : e.key = k} = {e \in M : e.key = k /\ e.seq <= s}
      /\ {e \in I : e.key = k} = {e \in I : e.key = k /\ e.seq <= s}
  BY Zenon
<1> QED
  BY <1>1, Zenon DEF find, find_with_sequence_id, find_

LEMMA NoWriteIsLost ==
  ASSUME TypeOK, KnownInv, UniqueInv, LayerInv PROVE NoLostWrite
<1> SUFFICES ASSUME failures = 0, NEW k \in Keys
             PROVE  (IF find(mem, immut, k) # {} THEN find(mem, immut, k)
                     ELSE find(version, {}, k)) = Newest(k, seq_count)
  BY Zenon DEF NoLostWrite
<1>1. \A e \in written : e.seq <= seq_count
  BY DEF TypeOK, Entry, UniqueInv
<1>2. /\ \A e \in mem \cup immut : e.seq <= seq_count
      /\ \A e \in immut \cup version : e.seq <= seq_count
  BY <1>1, Zenon DEF KnownInv
<1>3. find(mem, immut, k) = find_with_sequence_id(mem, immut, k, seq_count)
  BY <1>2, FindIsBounded, Zenon
<1>4. Fits(written, mem, immut, version, seq_count)
  <2>1. /\ written \subseteq Entry /\ mem \subseteq written /\ immut \subseteq written
        /\ version \subseteq written /\ seq_count \in Int
    BY DEF TypeOK, KnownInv
  <2> QED
    BY <1>2, <2>1, Zenon DEF Fits, UniqueInv, LayerInv, Layered
<1>5. Read(mem, immut, version, k, seq_count) = NewestOf(written, k, seq_count)
  BY ONLY <1>4, ReadNewest
<1> QED
  BY <1>3, <1>5, Zenon DEF Read, NewestOf, Newest

LEMMA SnapshotIsCorrect ==
  ASSUME TypeOK, KnownInv, UniqueInv, LayerInv, ConflictComplete PROVE SnapshotCorrect
<1> SUFFICES ASSUME failures = 0, NEW t \in Txs, NEW k \in Keys, tx[t].st = "active"
             PROVE  Snapshot(t, k) = Newest(k, tx[t].seq_id)
  BY Zenon DEF SnapshotCorrect
<1>1. /\ tx[t].seq_id \in Int /\ written \subseteq Entry
      /\ mem \subseteq written /\ immut \subseteq written /\ tx[t].version \subseteq written
  BY DEF TypeOK, Tx, KnownInv
<1>2. /\ \A e, f \in written : e.key = f.key /\ e.seq = f.seq => e = f
      /\ Below(immut, mem) /\ Below(tx[t].version, mem)
      /\ \A e \in tx[t].version : e \in immut \/ \A f \in immut : e.seq < f.seq
      /\ Covers(tx[t].version, written \ (mem \cup immut))
  BY Zenon DEF UniqueInv, LayerInv, Layered
<1>3. \A e \in immut \cup tx[t].version : e.seq <= tx[t].seq_id
  <2> SUFFICES ASSUME NEW e \in immut \cup tx[t].version PROVE e.seq <= tx[t].seq_id
    OBVIOUS
  <2>1. e \in written /\ e.seq \in Int
    BY <1>1, Zenon DEF Entry
  <2>2. e \notin mem
    BY <1>2, <2>1 DEF Below
  <2>3. ~(e.seq > tx[t].seq_id)
    BY <2>1, <2>2, Zenon DEF ConflictComplete
  <2> QED
    BY <1>1, <2>1, <2>3
<1>4. Fits(written, mem, immut, tx[t].version, tx[t].seq_id)
  BY <1>1, <1>2, <1>3, Zenon DEF Fits
<1>5. Read(mem, immut, tx[t].version, k, tx[t].seq_id) = NewestOf(written, k, tx[t].seq_id)
  BY ONLY <1>4, ReadNewest
<1> QED
  BY <1>5, Zenon DEF Read, NewestOf, Snapshot, Newest
-----------------------------------------------------------------------------
LEMMA NewestRead ==
  ASSUME TypeOK, UniqueInv, NEW k, NEW e \in find(written, {}, k)
  PROVE  e \in Newest(k, seq_count) /\ e.key = k /\ e.seq >= e.seq
<1>1. e \in written /\ e.key = k /\ \A f \in written : f.key = k => f.seq <= e.seq
  BY Zenon DEF find, Latest
<1>2. e.seq <= seq_count /\ e.seq >= e.seq
  BY <1>1 DEF TypeOK, Entry, UniqueInv
<1> QED
  BY <1>1, <1>2, Zenon DEF Newest

LEMMA ClientStep ==
  ASSUME TypeOK, KnownInv, UniqueInv, LayerInv, FlushInv, ClientInv, [Next]_vars
  PROVE  ClientInv'
<1>0. failures \in Nat
  BY Zenon DEF TypeOK
<1>1. ASSUME UNCHANGED <<client, version>>, failures' = 0 => failures = 0 PROVE ClientInv'
  BY <1>1, Zenon DEF ClientInv
<1>2. ASSUME NEW c \in Clients, UNCHANGED <<version, failures>>,
             \A d \in Clients : d # c => client'[d] = client[d],
             failures = 0 /\ client'[c].st = "version" => \A e \in client'[c].newest :
               \E f \in version : f.key = client'[c].key /\ f.seq >= e.seq
      PROVE  ClientInv'
  <2> SUFFICES ASSUME failures = 0, NEW d \in Clients, client'[d].st = "version",
                      NEW e \in client'[d].newest
               PROVE  \E f \in version : f.key = client'[d].key /\ f.seq >= e.seq
    BY <1>2, Zenon DEF ClientInv
  <2>1. CASE d = c
    BY <1>2, <2>1, Zenon
  <2>2. CASE d # c
    <3>1. client'[d] = client[d]
      BY <1>2, <2>2, Zenon
    <3> QED
      BY <3>1, Zenon DEF ClientInv
  <2> QED
    BY <2>1, <2>2, Zenon
<1>3. ASSUME NEW c \in Clients, NEW op \in {"get", "remove"}, NEW k \in Keys, GetMem(c, op, k)
      PROVE  ClientInv'
  <2>1. /\ \A d \in Clients : d # c => client'[d] = client[d]
        /\ client'[c].key = k /\ client'[c].newest = find(written, {}, k)
        /\ (client'[c].st = "version") <=> (find(mem, immut, k) = {})
    BY <1>3, GetMemMoves
  <2>2. ASSUME failures = 0, client'[c].st = "version", NEW e \in client'[c].newest
        PROVE  \E f \in version : f.key = client'[c].key /\ f.seq >= e.seq
    <3>1. e \in Newest(k, seq_count) /\ e.key = k /\ e.seq >= e.seq
      <4>1. e \in find(written, {}, k)
        BY <2>1, <2>2, Zenon
      <4> QED
        BY <4>1, NewestRead, Zenon
    <3>2. find(version, {}, k) = Newest(k, seq_count)
      BY <2>1, <2>2, NoWriteIsLost, Zenon DEF NoLostWrite
    <3>3. find(version, {}, k) \subseteq version \cup {}
      BY LookupTypes, Zenon
    <3> QED
      BY <2>1, <3>1, <3>2, <3>3, Zenon
  <2> QED
    BY <1>2, <1>3, <2>1, <2>2, Quiet, Zenon DEF Same
<1>4. ASSUME NEW c \in Clients, GetVersion(c) PROVE ClientInv'
  BY <1>2, <1>4, ClientMoves, Quiet, Zenon DEF Same
<1>5. ASSUME NEW c \in Clients, RemoveAppend(c) PROVE ClientInv'
  <2>1. UNCHANGED <<version, failures>>
    BY <1>5, Zenon DEF RemoveAppend
  <2> QED
    BY <1>2, <1>5, <2>1, ClientMoves, Zenon
<1>6. ASSUME minor_compaction PROVE ClientInv'
  <2>1. UNCHANGED <<client, failures>> /\ version' \subseteq Entry
    BY <1>6, Zenon DEF minor_compaction, TypeOK
  <2> SUFFICES ASSUME failures = 0, NEW c \in Clients, client[c].st = "version",
                      NEW e \in client[c].newest
               PROVE  \E f \in version' : f.key = client[c].key /\ f.seq >= e.seq
    BY <2>1, Zenon DEF ClientInv
  <2>2. PICK f \in version : f.key = client[c].key /\ f.seq >= e.seq
    BY Zenon DEF ClientInv
  <2>3. PICK g \in version' : g.key = f.key /\ g.seq >= f.seq
    BY <1>6, <2>2, VersionGrows, Zenon
  <2>4. e \in Entry /\ f \in Entry /\ g \in Entry
    <3>1. client[c] \in Client
      BY Zenon DEF TypeOK
    <3>2. client[c].newest \subseteq Entry
      BY <3>1, Zenon DEF Client
    <3> QED
      BY <2>1, <3>2, Zenon DEF TypeOK
  <2>5. g.seq >= e.seq
    BY <2>2, <2>3, <2>4 DEF Entry
  <2> QED
    BY <2>2, <2>3, <2>5, Zenon
<1>7. ASSUME swap PROVE ClientInv'
  BY <1>1, <1>7, Zenon DEF swap
<1>8. ASSUME SwapFails \/ MinorFails PROVE ClientInv'
  <2>1. failures' # 0
    BY <1>0, <1>8, Quiet
  <2> QED
    BY <2>1, Zenon DEF ClientInv
<1>9. ASSUME NEW t \in Txs, TxInsertFails(t) PROVE ClientInv'
  <2>1. failures' # 0
    BY <1>0, <1>9, Quiet
  <2> QED
    BY <2>1, Zenon DEF ClientInv
<1>10. ASSUME NEW t \in Txs, TxInsert(t) PROVE ClientInv'
  BY <1>1, <1>10, Zenon DEF TxInsert
<1>11. ASSUME NEW k \in Keys, set(k) PROVE ClientInv'
  BY <1>1, <1>11, Zenon DEF set
<1>12. CASE UNCHANGED vars
  BY <1>1, <1>12, Zenon DEF vars
<1> QED
  BY <1>1, <1>3, <1>4, <1>5, <1>6, <1>7, <1>8, <1>9, <1>10, <1>11, <1>12, Cases, Quiet, Zenon
  DEF Same

LEMMA FreshStep ==
  ASSUME TypeOK, KnownInv, UniqueInv, LayerInv, ClientInv, GetFresh, [Next]_vars
  PROVE  GetFresh'
<1>0. failures \in Nat
  BY Zenon DEF TypeOK
<1>1. ASSUME UNCHANGED client, failures' = 0 => failures = 0 PROVE GetFresh'
  BY <1>1, Zenon DEF GetFresh
<1>2. ASSUME NEW c \in Clients, UNCHANGED failures,
             \A d \in Clients : d # c => client'[d] = client[d],
             failures = 0 /\ client'[c].st # "version" => \A e \in client'[c].newest :
               \E f \in client'[c].found : f.seq >= e.seq
      PROVE  GetFresh'
  <2>1. ASSUME client'[c].st \in {"append", "done"} PROVE client'[c].st # "version"
    BY <2>1, Zenon
  <2> QED
    BY <1>2, <2>1, Zenon DEF GetFresh
<1>3. ASSUME NEW c \in Clients, NEW op \in {"get", "remove"}, NEW k \in Keys, GetMem(c, op, k)
      PROVE  GetFresh'
  <2>1. /\ \A d \in Clients : d # c => client'[d] = client[d]
        /\ client'[c].found = find(mem, immut, k) /\ client'[c].newest = find(written, {}, k)
        /\ (client'[c].st = "version") <=> (find(mem, immut, k) = {})
    BY <1>3, GetMemMoves
  <2>2. ASSUME failures = 0, client'[c].st # "version", NEW e \in client'[c].newest
        PROVE  \E f \in client'[c].found : f.seq >= e.seq
    <3>1. e \in Newest(k, seq_count) /\ e.seq >= e.seq
      <4>1. e \in find(written, {}, k)
        BY <2>1, <2>2, Zenon
      <4> QED
        BY <4>1, NewestRead, Zenon
    <3>2. find(mem, immut, k) = Newest(k, seq_count)
      BY <2>1, <2>2, NoWriteIsLost, Zenon DEF NoLostWrite
    <3> QED
      BY <2>1, <3>1, <3>2, Zenon
  <2> QED
    BY <1>2, <1>3, <2>1, <2>2, Quiet, Zenon
<1>4. ASSUME NEW c \in Clients, GetVersion(c) PROVE GetFresh'
  <2>1. /\ \A d \in Clients : d # c => client'[d] = client[d]
        /\ client'[c].newest = client[c].newest
        /\ client'[c].found = find(version, {}, client[c].key)
        /\ client[c].st = "version"
    BY <1>4, ClientMoves, Zenon DEF GetVersion
  <2>2. ASSUME failures = 0, NEW e \in client[c].newest
        PROVE  \E f \in find(version, {}, client[c].key) : f.seq >= e.seq
    <3>1. PICK f \in version : f.key = client[c].key /\ f.seq >= e.seq
      BY <2>1, <2>2, Zenon DEF ClientInv
    <3>2. f.seq <= f.seq
      BY DEF TypeOK, Entry
    <3>3. \A g \in version : g.key = client[c].key => g.seq <= f.seq
      BY <3>1, <3>2, Zenon DEF LayerInv, Layered, OnePerKey
    <3>4. f \in find(version, {}, client[c].key)
      BY <3>1, <3>3, Zenon DEF find, Latest
    <3> QED
      BY <3>1, <3>4, Zenon
  <2> QED
    BY <1>2, <1>4, <2>1, <2>2, Quiet, Zenon
<1>5. ASSUME NEW c \in Clients, RemoveAppend(c) PROVE GetFresh'
  <2>1. client[c].st = "append" /\ UNCHANGED failures
    BY <1>5, Zenon DEF RemoveAppend
  <2>2. failures = 0 => \A e \in client[c].newest : \E f \in client[c].found : f.seq >= e.seq
    BY <2>1, Zenon DEF GetFresh
  <2> QED
    BY <1>2, <1>5, <2>1, <2>2, ClientMoves, Zenon
<1>6. ASSUME SwapFails \/ MinorFails PROVE GetFresh'
  <2>1. failures' # 0
    BY <1>0, <1>6, Quiet
  <2> QED
    BY <2>1, Zenon DEF GetFresh
<1>7. ASSUME NEW t \in Txs, TxInsertFails(t) PROVE GetFresh'
  <2>1. failures' # 0
    BY <1>0, <1>7, Quiet
  <2> QED
    BY <2>1, Zenon DEF GetFresh
<1>8. CASE UNCHANGED vars
  BY <1>1, <1>8, Zenon DEF vars
<1> QED
  BY <1>1, <1>3, <1>4, <1>5, <1>6, <1>7, <1>8, Cases, Quiet, Zenon
-----------------------------------------------------------------------------
(***************************************************************************)
(* An insertion above seq_id, or of other keys, does not move a snapshot.  *)
(***************************************************************************)
LEMMA SnapshotKept ==
  ASSUME TypeOK, NEW t \in Txs, NEW k \in Keys, tx'[t].version = tx[t].version,
         tx'[t].seq_id = tx[t].seq_id, UNCHANGED immut, NEW B, mem' = mem \cup B,
         \A e \in B : ~(e.key = k /\ e.seq <= tx[t].seq_id)
  PROVE  Snapshot(t, k)' = Snapshot(t, k)
<1>1. {e \in mem' : e.key = k /\ e.seq <= tx'[t].seq_id}
      = {e \in mem : e.key = k /\ e.seq <= tx[t].seq_id}
  BY Zenon
<1>2. find_(mem', k, tx'[t].seq_id) = find_(mem, k, tx[t].seq_id)
  BY <1>1, Zenon DEF find_
<1>3. find_with_sequence_id(mem', immut', k, tx'[t].seq_id)
      = find_with_sequence_id(mem, immut, k, tx[t].seq_id)
  BY <1>2, Zenon DEF find_with_sequence_id
<1> QED
  BY <1>3, Zenon DEF Snapshot

LateCommit(t, k) ==
  \E u \in Txs : /\ tx[u].st = "stamped" /\ tx'[u].st \in {"inserted", "failed"}
                 /\ tx[u].commit_seq < tx[t].seq_id
                 /\ k \in BufKeys(u)

LEMMA SnapshotStep ==
  ASSUME TypeOK, CountInv, StampInv, ActiveInv, [Next]_vars,
         NEW t \in Txs, NEW k \in Keys, tx[t].st = "active", tx'[t].st = "active"
  PROVE  Snapshot(t, k)' = Snapshot(t, k) \/ LateCommit(t, k)
<1>0. tx[t].seq_id \in Int /\ seq_count \in Int /\ tx[t].seq_id < seq_count
  BY DEF TypeOK, Tx, ActiveInv
<1>1. ASSUME UNCHANGED <<mem, immut>>,
             tx'[t].version = tx[t].version, tx'[t].seq_id = tx[t].seq_id
      PROVE  Snapshot(t, k)' = Snapshot(t, k)
  BY <1>1, Zenon DEF Snapshot
<1>2. ASSUME NEW u \in Txs, Same, Others(u), u = t => FALSE PROVE Snapshot(t, k)' = Snapshot(t, k)
  <2>1. tx'[t] = tx[t]
    BY <1>2, Zenon DEF Others
  <2> QED
    BY <1>1, <1>2, <2>1, Zenon DEF Same
<1>3. ASSUME UNCHANGED tx, NEW e, e.seq = seq_count, Adds({e})
      PROVE  Snapshot(t, k)' = Snapshot(t, k)
  <2>1. ~(e.seq <= tx[t].seq_id)
    BY <1>0, <1>3
  <2> DEFINE B == {e}
  <2>2. mem' = mem \cup B /\ UNCHANGED immut
    BY <1>3, Zenon DEF Adds
  <2>3. \A f \in B : ~(f.key = k /\ f.seq <= tx[t].seq_id)
    BY <2>1, Zenon
  <2>4. tx'[t].version = tx[t].version /\ tx'[t].seq_id = tx[t].seq_id
    BY <1>3, Zenon
  <2> HIDE DEF B
  <2> QED
    BY <2>2, <2>3, <2>4, SnapshotKept, Zenon
<1>4. ASSUME NEW l \in Keys, set(l) PROVE Snapshot(t, k)' = Snapshot(t, k)
  BY <1>3, <1>4, Insertions, Quiet, Zenon
<1>5. ASSUME NEW c \in Clients, RemoveAppend(c) PROVE Snapshot(t, k)' = Snapshot(t, k)
  BY <1>3, <1>5, Insertions, Quiet, Zenon
<1>6. ASSUME Same, UNCHANGED tx PROVE Snapshot(t, k)' = Snapshot(t, k)
  BY <1>1, <1>6, Zenon DEF Same
<1>7. ASSUME NEW u \in Txs, TxCount(u) \/ TxVersion(u) \/ TxSeq(u)
      PROVE  Snapshot(t, k)' = Snapshot(t, k)
  <2>1. tx[u].st # "active"
    BY <1>7, Zenon DEF TxCount, TxVersion, TxSeq
  <2>2. Same /\ Others(u)
    BY <1>7, Quiet, TxStarts, Zenon
  <2> QED
    BY <1>2, <2>1, <2>2, Zenon
<1>8. ASSUME NEW u \in Txs, TxCheck(u) \/ TxStamp(u) \/ TxDrop(u)
      PROVE  Snapshot(t, k)' = Snapshot(t, k)
  <2>1. tx'[u].st \in {"checked", "stamped", "committed", "dropped"} /\ Others(u)
    BY <1>8, TxCommits, Zenon
  <2>2. tx'[u].st # "active"
    BY <2>1, Zenon
  <2>3. Same
    BY <1>8, Quiet, Zenon
  <2> QED
    BY <1>2, <2>1, <2>2, <2>3, Zenon
<1>9. ASSUME NEW u \in Txs, NEW l \in Keys, NEW live \in BOOLEAN,
             TxSet(u, l) \/ TxRemove(u, l), TxBuffer(u, l, live)
      PROVE  Snapshot(t, k)' = Snapshot(t, k)
  <2>1. Same
    BY <1>9, Quiet, Zenon
  <2>2. /\ Others(u) /\ tx'[u].seq_id = tx[u].seq_id /\ tx'[u].version = tx[u].version
    BY <1>9, TxBuffers
  <2> QED
    BY <1>1, <2>1, <2>2, Zenon DEF Same, Others
<1>10. ASSUME NEW u \in Txs, TxInsert(u) \/ TxInsertFails(u)
       PROVE  Snapshot(t, k)' = Snapshot(t, k) \/ LateCommit(t, k)
  <2>1. tx[u].st = "stamped" /\ u # t /\ tx'[u].st \in {"inserted", "failed"} /\ Others(u)
    BY <1>10, TxCommits, Zenon DEF TxInsert, TxInsertFails
  <2>2. PICK B : /\ Adds(B)
                 /\ \A e \in B : e.seq = tx[u].commit_seq /\ \E w \in tx[u].buf : e.key = w.key
    BY <1>10, Insertions
  <2>3. tx[u].commit_seq \in Int /\ tx[u].commit_seq # tx[t].seq_id
    BY <2>1 DEF TypeOK, Tx, StampInv
  <2>4. tx'[t] = tx[t] /\ UNCHANGED immut /\ mem' = mem \cup B
    BY <2>1, <2>2, Zenon DEF Others, Adds
  <2>5. CASE k \in BufKeys(u) /\ tx[u].commit_seq < tx[t].seq_id
    BY <2>1, <2>5, Zenon DEF LateCommit
  <2>6. CASE k \notin BufKeys(u)
    <3>1. \A e \in B : ~(e.key = k /\ e.seq <= tx[t].seq_id)
      BY <2>2, <2>6, Zenon DEF BufKeys
    <3> QED
      BY <2>4, <3>1, SnapshotKept, Zenon
  <2>7. CASE ~(tx[u].commit_seq < tx[t].seq_id)
    <3>1. ~(tx[u].commit_seq <= tx[t].seq_id)
      BY <1>0, <2>3, <2>7
    <3>2. \A e \in B : ~(e.key = k /\ e.seq <= tx[t].seq_id)
      BY <2>2, <3>1, Zenon
    <3> QED
      BY <2>4, <3>2, SnapshotKept, Zenon
  <2> QED
    BY <2>5, <2>6, <2>7, Zenon
<1>11. ~swap /\ ~SwapFails
  <2>1. tx_count # 0
    BY NoneCounted, Zenon
  <2> QED
    BY <2>1, Zenon DEF swap, SwapFails
<1>12. ASSUME minor_compaction \/ MinorFails PROVE Snapshot(t, k)' = Snapshot(t, k)
  <2>1. UNCHANGED <<mem, immut, tx>>
    BY <1>12, Zenon DEF minor_compaction, MinorFails
  <2> QED
    BY <1>1, <2>1, Zenon
<1>13. ASSUME UNCHANGED vars PROVE Snapshot(t, k)' = Snapshot(t, k)
  BY <1>1, <1>13, Zenon DEF vars
<1> QED
  BY <1>4, <1>5, <1>6, <1>7, <1>8, <1>9, <1>10, <1>11, <1>12, <1>13, Cases, Quiet, Zenon
-----------------------------------------------------------------------------
LEMMA InvInit == Init => Inv
<1> SUFFICES ASSUME Init PROVE Inv
  OBVIOUS
<1>0. /\ seq_count = 1 /\ immut = {} /\ flushing = {} /\ tx_count = 0 /\ failures = 0
      /\ tx = [t \in Txs |-> NoTx] /\ client = [c \in Clients |-> NoClient]
      /\ written = version \cup mem
  BY Zenon DEF Init
<1>1. /\ version \in SUBSET Entry /\ mem \in SUBSET Entry
      /\ \A e \in version : e.seq = -1 /\ e.live = TRUE
      /\ \A e \in mem : e.seq = 0 /\ e.live = TRUE
  <2>1. PICK K \in SUBSET Keys : version = {[key |-> k, seq |-> -1, live |-> TRUE] : k \in K}
    BY Zenon DEF Init
  <2>2. PICK L \in SUBSET Keys : mem = {[key |-> k, seq |-> 0, live |-> TRUE] : k \in L}
    BY Zenon DEF Init
  <2>3. version \in SUBSET Entry /\ \A e \in version : e.seq = -1 /\ e.live = TRUE
    <3>1. ASSUME NEW k \in Keys
          PROVE  /\ [key |-> k, seq |-> -1, live |-> TRUE] \in Entry
                 /\ [key |-> k, seq |-> -1, live |-> TRUE].seq = -1
                 /\ [key |-> k, seq |-> -1, live |-> TRUE].live = TRUE
      BY DEF Entry
    <3> QED
      BY <2>1, <3>1, Zenon
  <2>4. mem \in SUBSET Entry /\ \A e \in mem : e.seq = 0 /\ e.live = TRUE
    <3>1. ASSUME NEW k \in Keys
          PROVE  /\ [key |-> k, seq |-> 0, live |-> TRUE] \in Entry
                 /\ [key |-> k, seq |-> 0, live |-> TRUE].seq = 0
                 /\ [key |-> k, seq |-> 0, live |-> TRUE].live = TRUE
      BY DEF Entry
    <3> QED
      BY <2>2, <3>1, Zenon
  <2> QED
    BY <2>3, <2>4, Zenon
<1>2. \A e, f \in Entry : e.key = f.key /\ e.seq = f.seq /\ e.live = f.live => e = f
  BY DEF Entry
<1>3. NoTx \in Tx /\ NoTx.st = "none" /\ NoTx.buf = {} /\ NoTx.version = {}
  BY Zenon DEF NoTx, Tx, States
<1>4. NoClient \in Client /\ NoClient.st = "idle"
  <2>1. (CHOOSE k \in Keys : TRUE) \in Keys
    BY MvccConstants, Zenon
  <2> QED
    BY <2>1, Zenon DEF NoClient, Client
<1>5. /\ tx \in [Txs -> Tx] /\ client \in [Clients -> Client]
      /\ \A t \in Txs : tx[t].st = "none" /\ tx[t].buf = {} /\ tx[t].version = {}
      /\ \A c \in Clients : client[c].st = "idle"
  BY <1>0, <1>3, <1>4, Zenon
<1>6. TypeOK
  <2>1. seq_count \in Nat /\ tx_count \in Int /\ failures \in Nat
    BY <1>0
  <2> QED
    BY <1>0, <1>1, <1>5, <2>1, Zenon DEF TypeOK
<1>7. CountInv
  <2>1. Counted = {}
    BY <1>5, Zenon DEF Counted
  <2> QED
    BY <1>0, <2>1, FS_EmptySet, Zenon DEF CountInv
<1>8. KnownInv
  BY <1>0, <1>5, Zenon DEF KnownInv
<1>9. UniqueInv
  <2>1. \A e \in written : e.seq < seq_count
    BY <1>0, <1>1
  <2>2. \A e, f \in written : e.key = f.key /\ e.seq = f.seq => e = f
    <3>1. \A e \in written : e \in Entry /\ e.live = TRUE
      BY <1>0, <1>1, Zenon
    <3> QED
      BY <1>2, <3>1, Zenon
  <2> QED
    BY <1>5, <2>1, <2>2, Zenon DEF UniqueInv
<1>10. ~("none" = "stamped") /\ ~("none" = "active") /\ ~("none" = "versioned")
       /\ "none" \notin {"active", "checked", "stamped"} /\ "none" \notin {"versioned", "active"}
       /\ ~("idle" = "version") /\ "idle" \notin {"append", "done"}
  OBVIOUS
<1>11. StampInv /\ ActiveInv /\ ConflictComplete
  BY <1>5, <1>10, Zenon DEF StampInv, ActiveInv, ConflictComplete
<1>12. LayerInv
  <2>1. Below(version, mem)
    BY <1>1 DEF Below
  <2>2. OnePerKey(version)
    BY <1>1, <1>2, Zenon DEF OnePerKey
  <2>3. Layered(version)
    <3>1. \A e \in version : e.seq >= e.seq
      BY <1>1
    <3> QED
      BY <1>0, <2>1, <2>2, <3>1, Zenon DEF Layered, Covers
  <2> QED
    BY <1>0, <1>5, <1>10, <2>3, Zenon DEF LayerInv, Below
<1>13. FlushInv
  BY <1>0, Zenon DEF FlushInv, OnePerKey, Below, Covers
<1>14. ClientInv /\ GetFresh
  BY <1>5, <1>10, Zenon DEF ClientInv, GetFresh
<1> QED
  BY <1>6, <1>7, <1>8, <1>9, <1>11, <1>12, <1>13, <1>14, Zenon DEF Inv

LEMMA InvStep == Inv /\ [Next]_vars => Inv'
<1> SUFFICES ASSUME Inv, [Next]_vars PROVE Inv'
  OBVIOUS
<1>1. TypeOK' /\ CountInv' /\ KnownInv' /\ UniqueInv'
  BY TypeStep, CountStep, KnownStep, UniqueStep, Zenon DEF Inv
<1>2. StampInv' /\ ActiveInv' /\ ConflictComplete'
  BY StampStep, ActiveStep, ConflictStep, Zenon DEF Inv
<1>3. LayerInv' /\ FlushInv'
  BY LayerStep, FlushStep, Zenon DEF Inv
<1>4. ClientInv' /\ GetFresh'
  BY ClientStep, FreshStep, Zenon DEF Inv
<1> QED
  BY <1>1, <1>2, <1>3, <1>4, Zenon DEF Inv

(* Inv holds in every reachable state. *)
THEOREM MvccInvariant == Spec => []Inv
BY InvInit, InvStep, PTL DEF Spec

(***************************************************************************)
(* Without I/O errors no write is lost: at every moment KipStorage::get    *)
(* through _mem, _immut and the current Version finds the newest write of  *)
(* every key.                                                              *)
(***************************************************************************)
THEOREM WritesAreNotLost == Spec => []NoLostWrite
<1>1. Inv => NoLostWrite
  BY NoWriteIsLost, Zenon DEF Inv
<1> QED
  BY <1>1, MvccInvariant, PTL

(***************************************************************************)
(* Without I/O errors a get that is overtaken by swap or by the end of a   *)
(* minor compaction between its two lookups still returns a write not      *)
(* older than the newest one when it began.                                *)
(***************************************************************************)
THEOREM GetIsFresh == Spec => []GetFresh
<1>1. Inv => GetFresh
  BY Zenon DEF Inv
<1> QED
  BY <1>1, MvccInvariant, PTL

(***************************************************************************)
(* check_key_conflict misses nothing: no write that is newer than a live   *)
(* Transaction ever leaves _mem, with or without I/O errors.               *)
(***************************************************************************)
THEOREM ConflictsAreInMem == Spec => []ConflictComplete
<1>1. Inv => ConflictComplete
  BY Zenon DEF Inv
<1> QED
  BY <1>1, MvccInvariant, PTL

(***************************************************************************)
(* Without I/O errors Transaction::get reads, below its write buffer, the  *)
(* newest write up to its seq_id.                                          *)
(***************************************************************************)
THEOREM SnapshotsAreCorrect == Spec => []SnapshotCorrect
<1>1. Inv => SnapshotCorrect
  BY SnapshotIsCorrect, Zenon DEF Inv
<1> QED
  BY <1>1, MvccInvariant, PTL

(***************************************************************************)
(* What a Transaction reads changes only when a commit is inserted whose   *)
(* sequence id was created before that of the Transaction.                 *)
(***************************************************************************)
THEOREM SnapshotsMoveByLateCommits == Spec => SnapshotMovesOnlyByLateCommit
<1> DEFINE Moves == \A t \in Txs, k \in Keys :
             tx[t].st = "active" /\ tx'[t].st = "active" /\ Snapshot(t, k)' # Snapshot(t, k)
             => \E u \in Txs : /\ tx[u].st = "stamped" /\ tx'[u].st \in {"inserted", "failed"}
                               /\ tx[u].commit_seq < tx[t].seq_id
                               /\ k \in BufKeys(u)
<1>1. Inv /\ [Next]_vars => [Moves]_vars
  <2> SUFFICES ASSUME Inv, [Next]_vars PROVE Moves
    BY Zenon
  <2> QED
    BY SnapshotStep, Zenon DEF Inv, LateCommit
<1> QED
  BY <1>1, MvccInvariant, PTL DEF Spec, SnapshotMovesOnlyByLateCommit
=============================================================================
