----------------------------- MODULE StorageProofs -----------------------------
(***************************************************************************)
(* The safety properties of Storage, for any number of handles and clients *)
(* and any budget: the inductive invariant, the lemmas about the operators *)
(* that the proofs of its steps rest on, and that every step keeps it.     *)
(***************************************************************************)
EXTENDS Storage, FiniteSetTheorems, TLAPS

Tasks == {Seek} \cup {Flush(c) : c \in Clients \cup {None}}
Channels == {<<>>} \cup {<<t>> : t \in Tasks}
PCs == {"idle", "exceeded", "txnew", "commit", "commit_over", "sending", "awaiting", "ok", "err"}

HandleTypes ==
  /\ status \in [Handles -> {"closed", "opening", "open", "dropped"}]
  /\ lock \in Handles \cup {None}
  /\ buf \in [Handles -> Nat] /\ wals \subseteq Nat /\ wal \in [Handles -> Nat \cup {None}]
  /\ wals = {} \/ \E g \in wals : \A k \in wals : k <= g

MemTypes ==
  /\ mem \in [Handles -> Nat] /\ trig \in [Handles -> Nat]
  /\ written \in [Handles -> Nat] /\ flushed \in [Handles -> Nat]
  /\ tx_count \in [Handles -> Int]

TaskTypes ==
  /\ chan \in [Handles -> Channels]
  /\ task \in [Handles -> Tasks \cup {None, Ended}]
  /\ moving \in [Handles -> Nat \cup {None}]

ClientTypes ==
  /\ pc \in [Clients -> PCs] /\ need \in [Clients -> Nat]
  /\ at \in [Clients -> Handles \cup {None}] /\ own \in [Clients -> Handles \cup {None}]

HistoryTypes ==
  /\ missed \in [Handles -> BOOLEAN]
  /\ late \in BOOLEAN /\ setback \in BOOLEAN /\ failed \in BOOLEAN

TypeOK == HandleTypes /\ MemTypes /\ TaskTypes /\ ClientTypes /\ HistoryTypes

-----------------------------------------------------------------------------
(* Borrowing: a client that runs a method of a handle keeps it open. *)
Busy == {"exceeded", "txnew", "sending", "awaiting", "ok", "err"}

(* The background task exists while the handle, or a transaction of it, does. *)
RestInv ==
  \A h \in Handles :
    /\ status[h] \in {"closed", "opening"} <=> task[h] = Ended
    /\ task[h] = Ended => moving[h] = None /\ chan[h] = <<>>
    /\ moving[h] # None => IsFlush(h)

(* The lock file is held by the store that is open. *)
LockInv == \A h \in Handles : status[h] = "open" <=> lock = h

(* A method in progress borrows an open handle. *)
BorrowInv ==
  \A c \in Clients :
    IF pc[c] \in Busy THEN at[c] # None /\ status[at[c]] = "open" ELSE at[c] = None

(* A transaction belongs to a handle that is open or dropped, not to one that is closed. *)
OwnerInv ==
  \A c \in Clients :
    /\ own[c] # None => status[own[c]] \in {"open", "dropped"}
    /\ pc[c] \in {"commit", "commit_over"} => own[c] # None
    /\ pc[c] = "txnew" => own[c] = None

LifeInv == RestInv /\ LockInv /\ BorrowInv /\ OwnerInv

(* Whose flush is in the channel of h, or being worked on, waits for it. *)
AskInv ==
  \A h \in Handles, c \in Clients :
    /\ task[h] = Flush(c) \/ chan[h] = <<Flush(c)>> => pc[c] = "awaiting" /\ at[c] = h
    /\ ~(task[h] = Flush(c) /\ chan[h] = <<Flush(c)>>)

(* The items that a flush in progress has taken out of _mem *)
Moving(h) == IF moving[h] = None THEN 0 ELSE moving[h]

(* flush() waits for what had been written when it was called. *)
NeedInv == \A c \in Clients : pc[c] \in {"sending", "awaiting"} => need[c] <= written[at[c]]

(* Nothing gets lost between _mem and the Versions without an I/O error. *)
BalanceInv == ~failed => \A h \in Handles : written[h] = mem[h] + Moving(h) + flushed[h]

(* What is moving covers the caller of the flush; what is flushed covers who got Ok. *)
DurableInv ==
  ~failed =>
    /\ \A h \in Handles, c \in Clients :
         task[h] = Flush(c) /\ moving[h] # None => need[c] <= flushed[h] + moving[h]
    /\ \A c \in Clients : pc[c] = "ok" => need[c] <= flushed[at[c]]

(* The transactions that tx_count stands for *)
Counted(h) == {c \in Clients : own[c] = h \/ (pc[c] = "txnew" /\ at[c] = h)}

(* No live transaction is left out of the count that swap waits for. *)
CountInv == \A h \in Handles : Cardinality(Counted(h)) <= tx_count[h]

(* There is a Flush that has not taken _mem yet. *)
Asked(h) == (chan[h] # <<>> /\ chan[h][1] # Seek) \/ (IsFlush(h) /\ moving[h] = None)

(* After Drop there is a flush to come, or there is nothing left to flush. *)
ClosedInv ==
  \A h \in Handles : ~failed /\ ~missed[h] =>
    /\ status[h] = "dropped" => Asked(h) \/ (mem[h] = 0 /\ \A c \in Clients : own[c] # h)
    /\ status[h] \in {"closed", "opening"} => mem[h] = 0

(* Client c has found the threshold exceeded and is about to ask for a flush. *)
Owes(c, h) == (pc[c] = "exceeded" /\ at[c] = h) \/ (pc[c] = "commit_over" /\ own[c] = h)

(* Above the threshold a flush has been asked for, or will be by who saw it. *)
OverInv ==
  \A h \in Handles : status[h] = "open" /\ ~failed /\ ~missed[h] /\ trig[h] >= Threshold =>
    Asked(h) \/ \E c \in Clients : Owes(c, h)

(* The trigger counts items of _mem only. *)
TrigInv == \A h \in Handles : trig[h] <= mem[h]

(* The WAL of the open store is the newest, and its next gen will be newer. *)
WalInv ==
  ~late /\ ~setback =>
    \A h \in Handles : status[h] = "open" =>
      wal[h] \in wals /\ wal[h] < buf[h] /\ \A g \in wals : g <= wal[h]

Inv ==
  /\ TypeOK /\ LifeInv /\ AskInv
  /\ NeedInv /\ BalanceInv /\ DurableInv
  /\ CountInv /\ ClosedInv /\ TrigInv /\ OverInv /\ WalInv
-----------------------------------------------------------------------------
(* None, Ended and the tasks are all different. *)
LEMMA TaskFacts ==
  /\ Seek \in Tasks /\ Flush(None) \in Tasks /\ \A c \in Clients : Flush(c) \in Tasks
  /\ \A c \in Clients \cup {None} : Flush(c) # Seek /\ Flush(c) # Ended /\ Flush(c).tx = c
  /\ \A c, d \in Clients \cup {None} : Flush(c) = Flush(d) => c = d
  /\ Seek # Ended /\ None \notin Tasks /\ None # Ended /\ Ended \notin Tasks
<1>1. Seek \in Tasks /\ \A c \in Clients \cup {None} : Flush(c) \in Tasks
  BY Zenon DEF Tasks
<1>2. \A c \in Clients \cup {None} : Flush(c) # Seek /\ Flush(c) # Ended /\ Flush(c).tx = c
  BY Zenon DEF Flush, Seek, Ended
<1>3. \A c, d \in Clients \cup {None} : Flush(c) = Flush(d) => c = d
  BY <1>2, Zenon
<1>4. Seek # Ended
  BY Zenon DEF Seek, Ended
<1>5. None \notin Tasks /\ None # Ended
  BY NoneIsNoTask, Zenon DEF Tasks
<1>6. Ended \notin Tasks
  BY <1>2, <1>4, Zenon DEF Tasks
<1> QED
  BY <1>1, <1>2, <1>3, <1>4, <1>5, <1>6, Zenon

(* try_send keeps the channel a channel. *)
LEMMA TrySendTypes ==
  ASSUME chan \in [Handles -> Channels], missed \in [Handles -> BOOLEAN], NEW h, NEW t \in Tasks,
         try_send(h, t)
  PROVE  chan' \in [Handles -> Channels] /\ missed' \in [Handles -> BOOLEAN]
<1>1. ASSUME NEW k \in Handles PROVE chan'[k] \in Channels
  BY Zenon DEF try_send, Channels
<1>2. chan' = [k \in Handles |-> chan'[k]]
  BY Zenon DEF try_send
<1>3. missed' \in [Handles -> BOOLEAN]
  BY Zenon DEF try_send
<1> QED
  BY <1>1, <1>2, <1>3, Zenon

(* LogLoader::reload finds a WAL no older than any other. *)
LEMMA NewestIsNat ==
  ASSUME HandleTypes, NEW h \in Handles
  PROVE  /\ newest_wal(h) \in Nat
         /\ \A g \in wals : g <= newest_wal(h)
         /\ wals # {} => newest_wal(h) \in wals
<1>1. CASE wals = {}
  BY <1>1, Zenon DEF HandleTypes, newest_wal
<1>2. CASE wals # {}
  <2>1. PICK g \in wals : \A k \in wals : k <= g
    BY <1>2, Zenon DEF HandleTypes
  <2>2. Max(wals) \in wals /\ \A k \in wals : Max(wals) >= k
    BY <2>1, Zenon DEF Max, HandleTypes
  <2> QED
    BY <1>2, <2>2, Zenon DEF newest_wal, HandleTypes
<1> QED
  BY <1>1, <1>2, Zenon

(* A set of gens with a largest one still has one with another gen in it. *)
LEMMA LargestOf ==
  ASSUME NEW S \in SUBSET Nat, NEW n \in Nat, S = {} \/ \E g \in S : \A k \in S : k <= g
  PROVE  \E g \in S \cup {n} : \A k \in S \cup {n} : k <= g
<1>1. CASE S = {}
  BY <1>1
<1>2. CASE \E g \in S : \A k \in S : k <= g
  <2>1. PICK g \in S : \A k \in S : k <= g
    BY <1>2, Zenon
  <2>2. CASE n <= g
    BY <2>1, <2>2, Zenon
  <2>3. CASE g < n
    <3>1. \A k \in S \cup {n} : k <= n
      BY <2>1, <2>3
    <3> QED
      BY <3>1, Zenon
  <2> QED
    BY <2>2, <2>3
<1> QED
  BY <1>1, <1>2, Zenon

(* The tasks whose caller has gone are tasks. *)
LEMMA ForgetTypes ==
  ASSUME NEW c \in Clients
  PROVE  /\ \A q \in Channels : [i \in DOMAIN q |-> Forget(c, q[i])] \in Channels
         /\ \A t \in Tasks \cup {None, Ended} : Forget(c, t) \in Tasks \cup {None, Ended}
<1>1. \A t \in Tasks : Forget(c, t) \in Tasks
  BY TaskFacts, Zenon DEF Forget
<1>2. ASSUME NEW q \in Channels PROVE [i \in DOMAIN q |-> Forget(c, q[i])] \in Channels
  <2>1. CASE q = <<>>
    BY <2>1 DEF Channels
  <2>2. CASE q # <<>>
    <3>1. PICK t \in Tasks : q = <<t>>
      BY <2>2, Zenon DEF Channels
    <3>2. [i \in DOMAIN q |-> Forget(c, q[i])] = <<Forget(c, t)>>
      BY <3>1
    <3> QED
      BY <1>1, <3>1, <3>2, Zenon DEF Channels
  <2> QED
    BY <2>1, <2>2, Zenon
<1> QED
  BY <1>1, <1>2, TaskFacts, Zenon DEF Forget

(* Forget turns a Flush into a Flush, and leaves everything else as it is. *)
LEMMA ForgetKeeps ==
  ASSUME TaskTypes, NEW c \in Clients, Cancel(c), NEW h \in Handles
  PROVE  /\ chan[h] = <<>> => chan'[h] = <<>>
         /\ chan[h] # <<>> => chan'[h] = <<Forget(c, chan[h][1])>>
         /\ task'[h] = Forget(c, task[h])
         /\ \A t \in Tasks \cup {None, Ended} :
              t \in {None, Ended, Seek} \/ Forget(c, t) \in {None, Ended, Seek} => Forget(c, t) = t
<1>1. \A t \in Tasks \cup {None, Ended} :
        t \in {None, Ended, Seek} \/ Forget(c, t) \in {None, Ended, Seek} => Forget(c, t) = t
  BY TaskFacts, StorageConstants DEF Forget
<1>2. chan'[h] = [i \in DOMAIN chan[h] |-> Forget(c, chan[h][i])] /\ task'[h] = Forget(c, task[h])
  BY Zenon DEF Cancel, TaskTypes
<1>3. CASE chan[h] = <<>>
  BY <1>1, <1>2, <1>3
<1>4. CASE chan[h] # <<>>
  <2>1. PICK t \in Tasks : chan[h] = <<t>>
    BY <1>4, Zenon DEF TaskTypes, Channels
  <2> QED
    BY <1>1, <1>2, <2>1
<1> QED
  BY <1>3, <1>4, Zenon

(* An answer reaches the client that waits for it, and nobody else. *)
LEMMA AnswerReaches ==
  ASSUME TypeOK, AskInv, NEW h \in Handles, NEW r, IsFlush(h), Answer(h, r), NEW c \in Clients
  PROVE  \/ pc'[c] = pc[c] /\ task[h] # Flush(c)
         \/ pc'[c] = r /\ task[h] = Flush(c) /\ pc[c] = "awaiting" /\ at[c] = h
<1>1. PICK d \in Clients \cup {None} : task[h] = Flush(d)
  BY Zenon DEF TypeOK, TaskTypes, IsFlush, Tasks
<1>2. task[h].tx = d
  BY <1>1, TaskFacts, Zenon
<1>3. pc'[c] = IF d = c THEN r ELSE pc[c]
  BY <1>2, Zenon DEF Answer
<1>4. CASE d = c
  BY <1>1, <1>3, <1>4, Zenon DEF AskInv
<1>5. CASE d # c
  BY <1>1, <1>3, <1>5, TaskFacts, Zenon
<1> QED
  BY <1>4, <1>5, Zenon

(* A client that does not wait for an answer cannot touch what is durable. *)
LEMMA ClientMoves ==
  ASSUME AskInv, DurableInv, NEW c \in Clients, UNCHANGED <<moving, flushed, failed>>, pc'[c] # "ok",
         \A d \in Clients \ {c} : pc'[d] = pc[d] /\ at'[d] = at[d] /\ need'[d] = need[d],
         \A h \in Handles, d \in Clients : task'[h] = Flush(d) => task[h] = Flush(d) /\ d # c
  PROVE  DurableInv'
BY Zenon DEF DurableInv

(* A client that does not wait for a flush *)
LEMMA NotWaiting ==
  ASSUME NeedInv, NEW c \in Clients, UNCHANGED written, pc'[c] \notin {"sending", "awaiting"},
         \A d \in Clients \ {c} : pc'[d] = pc[d] /\ at'[d] = at[d] /\ need'[d] = need[d]
  PROVE  NeedInv'
BY Zenon DEF NeedInv

(* try_send of a Flush: there is one afterwards, or it is known that there is none. *)
LEMMA SendAsks ==
  ASSUME TypeOK, NEW h \in Handles, NEW t \in Tasks, try_send(h, t), UNCHANGED <<task, moving>>
  PROVE  /\ t # Seek => Asked(h)' \/ missed'[h]
         /\ \A k \in Handles : (Asked(k) => Asked(k)') /\ (missed[k] => missed'[k])
<1>1. \A k \in Handles : chan'[k] = IF k = h /\ chan[h] = <<>> THEN <<t>> ELSE chan[k]
  BY Zenon DEF try_send, TypeOK, TaskTypes
<1>2. missed'[h] = (missed[h] \/ (t # Seek /\ chan[h] # <<>> /\ chan[h][1] = Seek))
  BY Zenon DEF try_send, TypeOK, HistoryTypes
<1>3. \A k \in Handles : k # h => missed'[k] = missed[k]
  BY Zenon DEF try_send, TypeOK, HistoryTypes
<1>4. ASSUME NEW k \in Handles, Asked(k) PROVE Asked(k)'
  BY <1>1, <1>4, Zenon DEF Asked, IsFlush
<1>5. ASSUME NEW k \in Handles, missed[k] PROVE missed'[k]
  BY <1>2, <1>3, <1>5, Zenon
<1>6. ASSUME t # Seek PROVE Asked(h)' \/ missed'[h]
  <2>1. CASE chan[h] = <<>>
    BY <1>1, <1>6, <2>1 DEF Asked
  <2>2. CASE chan[h] # <<>> /\ chan[h][1] = Seek
    BY <1>2, <1>6, <2>2, Zenon
  <2>3. CASE chan[h] # <<>> /\ chan[h][1] # Seek
    BY <1>1, <2>3, Zenon DEF Asked
  <2> QED
    BY <2>1, <2>2, <2>3, Zenon
<1> QED
  BY <1>4, <1>5, <1>6, Zenon

(* The background task has a Flush in hand before it takes _mem. *)
LEMMA RecvAsks ==
  ASSUME TypeOK, RestInv, NEW h \in Handles, Recv(h), NEW k \in Handles, Asked(k)
  PROVE  Asked(k)'
<1>1. \A j \in Handles : j # h => chan'[j] = chan[j] /\ task'[j] = task[j]
  BY Zenon DEF Recv, TypeOK, TaskTypes
<1>2. UNCHANGED moving /\ task[h] = None /\ chan[h] # <<>> /\ task'[h] = chan[h][1]
  BY Zenon DEF Recv, TypeOK, TaskTypes
<1>3. chan[h][1] \in Tasks /\ moving[h] = None
  BY <1>2 DEF TypeOK, TaskTypes, Channels, RestInv, IsFlush
<1>4. CASE k = h
  BY <1>2, <1>3, <1>4, TaskFacts, Zenon DEF Asked, IsFlush
<1>5. CASE k # h
  BY <1>1, <1>2, <1>5, Zenon DEF Asked, IsFlush
<1> QED
  BY <1>4, <1>5, Zenon

(* A flush whose caller has gone is a flush. *)
LEMMA CancelAsks ==
  ASSUME TypeOK, NEW c \in Clients, Cancel(c), NEW k \in Handles, Asked(k)
  PROVE  Asked(k)'
<1>1. /\ UNCHANGED moving /\ task'[k] = Forget(c, task[k])
      /\ chan[k] # <<>> => chan'[k] = <<Forget(c, chan[k][1])>>
  <2>1. UNCHANGED moving /\ task'[k] = Forget(c, task[k])
    BY Zenon DEF Cancel
  <2>2. chan' = [h \in Handles |-> [i \in DOMAIN chan[h] |-> Forget(c, chan[h][i])]]
    BY Zenon DEF Cancel
  <2> QED
    BY <2>1, <2>2, ForgetKeeps, Zenon DEF TypeOK
<1>2. \A t \in Tasks \cup {None, Ended} : Forget(c, t) \in {None, Ended, Seek} => Forget(c, t) = t
  BY ForgetKeeps, Zenon DEF TypeOK
<1>3. CASE chan[k] # <<>> /\ chan[k][1] # Seek
  <2>1. chan[k][1] \in Tasks
    BY <1>3 DEF TypeOK, TaskTypes, Channels
  <2>2. Forget(c, chan[k][1]) # Seek
    BY <1>2, <1>3, <2>1, Zenon
  <2>3. chan'[k] = <<Forget(c, chan[k][1])>>
    BY <1>1, <1>3, Zenon
  <2> QED
    BY <2>2, <2>3 DEF Asked
<1>4. CASE IsFlush(k) /\ moving[k] = None
  <2>1. task[k] \in Tasks \cup {None, Ended}
    BY Zenon DEF TypeOK, TaskTypes
  <2> QED
    BY <1>1, <1>2, <1>4, <2>1, Zenon DEF Asked, IsFlush
<1> QED
  BY <1>3, <1>4, Zenon DEF Asked

(* What clients do leaves the files and the handles alone. *)
LEMMA ClientQuiet ==
  /\ \A c \in Clients : Client(c) => UNCHANGED <<handleVars, moving, flushed, late, setback>>
  /\ \A c \in Clients, h \in Handles :
       Calls(c, h) => UNCHANGED <<handleVars, moving, task, flushed, late, setback, failed>>
<1>1. ASSUME NEW c \in Clients,
             SetSend(c) \/ TxReady(c) \/ TxEnd(c) \/ FlushSend(c) \/ FlushReturn(c) \/ Cancel(c)
      PROVE  UNCHANGED <<handleVars, moving, flushed, late, setback>>
  BY <1>1, Zenon
     DEF SetSend, TxReady, TxEnd, FlushSend, FlushReturn, Cancel, memVars, taskVars, history
<1>2. ASSUME NEW c \in Clients, NEW n \in 1..2, TxCommit(c, n) \/ TxFails(c, n)
      PROVE  UNCHANGED <<handleVars, moving, flushed, late, setback>>
  BY <1>2, Zenon DEF TxCommit, TxFails, Insert, taskVars, history
<1>3. ASSUME NEW c \in Clients, NEW h \in Handles, Calls(c, h)
      PROVE  UNCHANGED <<handleVars, moving, task, flushed, late, setback, failed>>
  BY <1>3, Zenon DEF Calls, Set, GetSeek, TxNew, FlushCall, Insert, memVars, taskVars, history
<1> QED
  BY <1>1, <1>2, <1>3, Zenon DEF Client

(* Every action keeps the types, group by group of the variables. *)
LEMMA TypeStep == TypeOK /\ [Next]_vars => TypeOK'
<1> SUFFICES ASSUME TypeOK, [Next]_vars PROVE TypeOK'
  OBVIOUS
<1> USE DEF TypeOK
<1>1. ASSUME NEW h \in Handles, OpenStart(h) PROVE TypeOK'
  <2>1. HandleTypes'
    <3>1. UNCHANGED <<lock, wals, wal>>
      BY <1>1, Zenon DEF OpenStart
    <3>2. buf' \in [Handles -> Nat]
      BY <1>1, StorageConstants, Zenon DEF OpenStart, HandleTypes
    <3>3. status' \in [Handles -> {"closed", "opening", "open", "dropped"}]
      BY <1>1, Zenon DEF OpenStart, HandleTypes
    <3> QED
      BY <3>1, <3>2, <3>3, Zenon DEF HandleTypes
  <2>2. MemTypes' /\ TaskTypes' /\ ClientTypes' /\ HistoryTypes'
    BY <1>1, Zenon
       DEF OpenStart, MemTypes, memVars, TaskTypes, taskVars, ClientTypes, clientVars,
           HistoryTypes, history
  <2> QED
    BY <2>1, <2>2, Zenon
<1>2. ASSUME NEW h \in Handles, OpenLocked(h) PROVE TypeOK'
  <2>1. HandleTypes'
    <3>1. newest_wal(h) \in Nat
      BY NewestIsNat, Zenon
    <3>2. wals' = wals \cup {newest_wal(h)}
      BY <1>2, Zenon DEF OpenLocked
    <3>3. \E g \in wals' : \A k \in wals' : k <= g
      BY <3>1, <3>2, LargestOf DEF HandleTypes
    <3>4. wals' \subseteq Nat
      BY <3>1, <3>2, Zenon DEF HandleTypes
    <3>5. wal' \in [Handles -> Nat \cup {None}] /\ buf' \in [Handles -> Nat] /\ lock' \in Handles
      BY <1>2, <3>1 DEF OpenLocked, HandleTypes
    <3>6. status' \in [Handles -> {"closed", "opening", "open", "dropped"}]
      BY <1>2, Zenon DEF OpenLocked, HandleTypes
    <3> QED
      BY <3>3, <3>4, <3>5, <3>6, Zenon DEF HandleTypes
  <2>2. MemTypes'
    BY <1>2, StorageConstants DEF OpenLocked, MemTypes
  <2>3. TaskTypes'
    BY <1>2, TaskFacts, Zenon DEF OpenLocked, TaskTypes
  <2>4. HistoryTypes'
    BY <1>2, Zenon DEF OpenLocked, HistoryTypes
  <2>5. ClientTypes'
    BY <1>2, Zenon DEF OpenLocked, ClientTypes, clientVars
  <2> QED
    BY <2>1, <2>2, <2>3, <2>4, <2>5, Zenon
<1>3. ASSUME NEW h \in Handles, OpenBusy(h) PROVE TypeOK'
  <2>1. HandleTypes'
    BY <1>3, Zenon DEF OpenBusy, HandleTypes
  <2>2. MemTypes' /\ TaskTypes' /\ ClientTypes' /\ HistoryTypes'
    BY <1>3, Zenon
       DEF OpenBusy, MemTypes, memVars, TaskTypes, taskVars, ClientTypes, clientVars,
           HistoryTypes, history
  <2> QED
    BY <2>1, <2>2, Zenon
<1>4. ASSUME NEW h \in Handles, Drop(h) PROVE TypeOK'
  <2>1. HandleTypes'
    BY <1>4, Zenon DEF Drop, HandleTypes
  <2>2. TaskTypes'
    BY <1>4, TrySendTypes, TaskFacts, Zenon DEF Drop, TaskTypes, HistoryTypes
  <2>3. HistoryTypes'
    BY <1>4, TrySendTypes, TaskFacts, Zenon DEF Drop, HistoryTypes, TaskTypes
  <2>4. MemTypes' /\ ClientTypes'
    BY <1>4, Zenon DEF Drop, MemTypes, memVars, ClientTypes, clientVars
  <2> QED
    BY <2>1, <2>2, <2>3, <2>4, Zenon
<1>5. ASSUME NEW h \in Handles, Recv(h) PROVE TypeOK'
  <2>1. TaskTypes'
    BY <1>5, TaskFacts DEF Recv, TaskTypes, Channels
  <2>2. HandleTypes' /\ MemTypes' /\ ClientTypes' /\ HistoryTypes'
    BY <1>5, Zenon
       DEF Recv, HandleTypes, handleVars, MemTypes, memVars, ClientTypes, clientVars,
           HistoryTypes, history
  <2> QED
    BY <2>1, <2>2, Zenon
<1>6. ASSUME NEW h \in Handles, RecvNone(h) PROVE TypeOK'
  <2>1. HandleTypes'
    BY <1>6, Zenon DEF RecvNone, HandleTypes
  <2>2. TaskTypes'
    BY <1>6, TaskFacts, Zenon DEF RecvNone, TaskTypes
  <2>3. MemTypes' /\ ClientTypes' /\ HistoryTypes'
    BY <1>6, Zenon DEF RecvNone, MemTypes, memVars, ClientTypes, clientVars, HistoryTypes, history
  <2> QED
    BY <2>1, <2>2, <2>3, Zenon
<1>7. ASSUME NEW h \in Handles, RunSeek(h) PROVE TypeOK'
  <2>1. TaskTypes'
    BY <1>7, TaskFacts, Zenon DEF RunSeek, TaskTypes
  <2>2. HandleTypes' /\ MemTypes' /\ ClientTypes' /\ HistoryTypes'
    BY <1>7, Zenon
       DEF RunSeek, HandleTypes, handleVars, MemTypes, memVars, ClientTypes, clientVars,
           HistoryTypes, history
  <2> QED
    BY <2>1, <2>2, Zenon
<1>8. ASSUME NEW h \in Handles, SwapNone(h) PROVE TypeOK'
  <2>1. TaskTypes'
    BY <1>8, TaskFacts, Zenon DEF SwapNone, Answer, TaskTypes
  <2>2. ClientTypes'
    BY <1>8, Zenon DEF SwapNone, Answer, ClientTypes, PCs
  <2>3. HandleTypes' /\ MemTypes' /\ HistoryTypes'
    BY <1>8, Zenon DEF SwapNone, HandleTypes, handleVars, MemTypes, memVars, HistoryTypes, history
  <2> QED
    BY <2>1, <2>2, <2>3, Zenon
<1>9. ASSUME NEW h \in Handles, swap(h) PROVE TypeOK'
  <2>1. HandleTypes'
    <3>1. buf[h] \in Nat /\ wals' = wals \cup {buf[h]}
      BY <1>9, Zenon DEF swap, HandleTypes
    <3>2. \E g \in wals' : \A k \in wals' : k <= g
      BY <3>1, LargestOf DEF HandleTypes
    <3>3. wals' \subseteq Nat
      BY <3>1, Zenon DEF HandleTypes
    <3>4. wal' \in [Handles -> Nat \cup {None}] /\ buf' \in [Handles -> Nat]
          /\ UNCHANGED <<status, lock>>
      BY <1>9, <3>1 DEF swap, HandleTypes
    <3> QED
      BY <3>2, <3>3, <3>4, Zenon DEF HandleTypes
  <2>2. MemTypes'
    BY <1>9, Zenon DEF swap, SwapMem, MemTypes
  <2>3. TaskTypes'
    BY <1>9, TaskFacts, Zenon DEF swap, TaskTypes, MemTypes
  <2>4. HistoryTypes'
    BY <1>9, Zenon DEF swap, SwapMem, HistoryTypes
  <2>5. ClientTypes'
    BY <1>9, Zenon DEF swap, ClientTypes, clientVars
  <2> QED
    BY <2>1, <2>2, <2>3, <2>4, <2>5, Zenon
<1>10. ASSUME NEW h \in Handles, minor_compaction(h) PROVE TypeOK'
  <2>1. MemTypes'
    BY <1>10, SMTT(30) DEF minor_compaction, MemTypes, TaskTypes
  <2>2. TaskTypes'
    BY <1>10, TaskFacts, Zenon DEF minor_compaction, Answer, TaskTypes
  <2>3. ClientTypes'
    BY <1>10, Zenon DEF minor_compaction, Answer, ClientTypes, PCs
  <2>4. HandleTypes' /\ HistoryTypes'
    BY <1>10, Zenon DEF minor_compaction, HandleTypes, handleVars, HistoryTypes, history
  <2> QED
    BY <2>1, <2>2, <2>3, <2>4, Zenon
<1>11. ASSUME NEW h \in Handles, SwapFails(h) PROVE TypeOK'
  <2>1. HandleTypes'
    BY <1>11 DEF SwapFails, HandleTypes
  <2>2. MemTypes'
    BY <1>11, Zenon DEF SwapFails, SwapMem, MemTypes
  <2>3. TaskTypes'
    BY <1>11, TaskFacts, Zenon DEF SwapFails, Answer, TaskTypes
  <2>4. ClientTypes'
    BY <1>11, Zenon DEF SwapFails, Answer, ClientTypes, PCs
  <2>5. HistoryTypes'
    BY <1>11, Zenon DEF SwapFails, SwapMem, Fail, HistoryTypes
  <2> QED
    BY <2>1, <2>2, <2>3, <2>4, <2>5, Zenon
<1>12. ASSUME NEW h \in Handles, MinorFails(h) PROVE TypeOK'
  <2>1. TaskTypes'
    BY <1>12, TaskFacts, Zenon DEF MinorFails, Answer, TaskTypes
  <2>2. ClientTypes'
    BY <1>12, Zenon DEF MinorFails, Answer, ClientTypes, PCs
  <2>3. HistoryTypes'
    BY <1>12, Zenon DEF MinorFails, Fail, HistoryTypes
  <2>4. HandleTypes' /\ MemTypes'
    BY <1>12, Zenon DEF MinorFails, HandleTypes, handleVars, MemTypes, memVars
  <2> QED
    BY <2>1, <2>2, <2>3, <2>4, Zenon
<1>13. ASSUME NEW c \in Clients, SetSend(c) PROVE TypeOK'
  <2>1. TaskTypes'
    BY <1>13, TrySendTypes, TaskFacts, Zenon DEF SetSend, TaskTypes, HistoryTypes
  <2>2. ClientTypes'
    BY <1>13, Zenon DEF SetSend, Goto, ClientTypes, PCs
  <2>3. HistoryTypes'
    BY <1>13, TrySendTypes, TaskFacts, Zenon DEF SetSend, HistoryTypes, TaskTypes
  <2>4. HandleTypes' /\ MemTypes'
    BY <1>13, Zenon DEF SetSend, HandleTypes, handleVars, MemTypes, memVars
  <2> QED
    BY <2>1, <2>2, <2>3, <2>4, Zenon
<1>14. ASSUME NEW c \in Clients, TxReady(c) PROVE TypeOK'
  <2>1. ClientTypes'
    BY <1>14, Zenon DEF TxReady, Goto, ClientTypes, PCs
  <2>2. HandleTypes' /\ MemTypes' /\ TaskTypes' /\ HistoryTypes'
    BY <1>14, Zenon
       DEF TxReady, HandleTypes, handleVars, MemTypes, memVars, TaskTypes, taskVars,
           HistoryTypes, history
  <2> QED
    BY <2>1, <2>2, Zenon
<1>15. ASSUME NEW c \in Clients, TxEnd(c) PROVE TypeOK'
  <2>1. MemTypes'
    BY <1>15 DEF TxEnd, MemTypes, ClientTypes, memVars
  <2>2. TaskTypes'
    BY <1>15, TrySendTypes, TaskFacts, Zenon DEF TxEnd, TaskTypes, HistoryTypes
  <2>3. ClientTypes'
    BY <1>15, Zenon DEF TxEnd, ClientTypes, PCs
  <2>4. HistoryTypes'
    BY <1>15, TrySendTypes, TaskFacts, Zenon DEF TxEnd, HistoryTypes, TaskTypes
  <2>5. HandleTypes'
    BY <1>15, Zenon DEF TxEnd, HandleTypes, handleVars
  <2> QED
    BY <2>1, <2>2, <2>3, <2>4, <2>5, Zenon
<1>16. ASSUME NEW c \in Clients, FlushSend(c) PROVE TypeOK'
  <2>1. TaskTypes'
    BY <1>16, TaskFacts, Zenon DEF FlushSend, TaskTypes, Channels
  <2>2. ClientTypes'
    BY <1>16, Zenon DEF FlushSend, Goto, ClientTypes, PCs
  <2>3. HandleTypes' /\ MemTypes' /\ HistoryTypes'
    BY <1>16, Zenon DEF FlushSend, HandleTypes, handleVars, MemTypes, memVars, HistoryTypes, history
  <2> QED
    BY <2>1, <2>2, <2>3, Zenon
<1>17. ASSUME NEW c \in Clients, FlushReturn(c) PROVE TypeOK'
  <2>1. ClientTypes'
    BY <1>17, Zenon DEF FlushReturn, Goto, ClientTypes, PCs
  <2>2. HandleTypes' /\ MemTypes' /\ TaskTypes' /\ HistoryTypes'
    BY <1>17, Zenon
       DEF FlushReturn, HandleTypes, handleVars, MemTypes, memVars, TaskTypes, taskVars,
           HistoryTypes, history
  <2> QED
    BY <2>1, <2>2, Zenon
<1>18. ASSUME NEW c \in Clients, Cancel(c) PROVE TypeOK'
  <2>1. TaskTypes'
    BY <1>18, TaskFacts, ForgetTypes DEF Cancel, Forget, TaskTypes
  <2>2. ClientTypes'
    BY <1>18, Zenon DEF Cancel, Goto, ClientTypes, PCs
  <2>3. HandleTypes' /\ MemTypes' /\ HistoryTypes'
    BY <1>18, Zenon DEF Cancel, HandleTypes, handleVars, MemTypes, memVars, HistoryTypes, history
  <2> QED
    BY <2>1, <2>2, <2>3, Zenon
<1>19. ASSUME NEW c \in Clients, NEW n \in 1..2, TxCommit(c, n) PROVE TypeOK'
  <2>1. MemTypes'
    BY <1>19 DEF TxCommit, Insert, MemTypes, ClientTypes
  <2>2. ClientTypes'
    BY <1>19, Zenon DEF TxCommit, ClientTypes, PCs
  <2>3. HandleTypes' /\ TaskTypes' /\ HistoryTypes'
    BY <1>19, Zenon DEF TxCommit, HandleTypes, handleVars, TaskTypes, taskVars, HistoryTypes, history
  <2> QED
    BY <2>1, <2>2, <2>3, Zenon
<1>20. ASSUME NEW c \in Clients, NEW n \in 1..2, TxFails(c, n) PROVE TypeOK'
  <2>1. MemTypes'
    BY <1>20 DEF TxFails, Insert, MemTypes, ClientTypes
  <2>2. ClientTypes'
    BY <1>20, Zenon DEF TxFails, ClientTypes, PCs
  <2>3. HistoryTypes'
    BY <1>20, Zenon DEF TxFails, Fail, HistoryTypes
  <2>4. HandleTypes' /\ TaskTypes'
    BY <1>20, Zenon DEF TxFails, HandleTypes, handleVars, TaskTypes, taskVars
  <2> QED
    BY <2>1, <2>2, <2>3, <2>4, Zenon
<1>21. ASSUME NEW c \in Clients, NEW h \in Handles, Set(c, h) PROVE TypeOK'
  <2>1. MemTypes'
    BY <1>21 DEF Set, Insert, MemTypes
  <2>2. ClientTypes'
    BY <1>21, Zenon DEF Set, Goto, ClientTypes, PCs
  <2>3. HandleTypes' /\ TaskTypes' /\ HistoryTypes'
    BY <1>21, Zenon DEF Set, HandleTypes, handleVars, TaskTypes, taskVars, HistoryTypes, history
  <2> QED
    BY <2>1, <2>2, <2>3, Zenon
<1>22. ASSUME NEW c \in Clients, NEW h \in Handles, GetSeek(c, h) PROVE TypeOK'
  <2>1. TaskTypes'
    BY <1>22, TrySendTypes, TaskFacts, Zenon DEF GetSeek, TaskTypes, HistoryTypes
  <2>2. HistoryTypes'
    BY <1>22, TrySendTypes, TaskFacts, Zenon DEF GetSeek, HistoryTypes, TaskTypes
  <2>3. HandleTypes' /\ MemTypes' /\ ClientTypes'
    BY <1>22, Zenon DEF GetSeek, HandleTypes, handleVars, MemTypes, memVars, ClientTypes, clientVars
  <2> QED
    BY <2>1, <2>2, <2>3, Zenon
<1>23. ASSUME NEW c \in Clients, NEW h \in Handles, TxNew(c, h) PROVE TypeOK'
  <2>1. MemTypes'
    BY <1>23 DEF TxNew, MemTypes, memVars
  <2>2. ClientTypes'
    BY <1>23, Zenon DEF TxNew, Goto, ClientTypes, PCs
  <2>3. HandleTypes' /\ TaskTypes' /\ HistoryTypes'
    BY <1>23, Zenon DEF TxNew, HandleTypes, handleVars, TaskTypes, taskVars, HistoryTypes, history
  <2> QED
    BY <2>1, <2>2, <2>3, Zenon
<1>24. ASSUME NEW c \in Clients, NEW h \in Handles, FlushCall(c, h) PROVE TypeOK'
  <2>1. ClientTypes'
    BY <1>24, Zenon DEF FlushCall, Goto, ClientTypes, PCs, MemTypes
  <2>2. HandleTypes' /\ MemTypes' /\ TaskTypes' /\ HistoryTypes'
    BY <1>24, Zenon
       DEF FlushCall, HandleTypes, handleVars, MemTypes, memVars, TaskTypes, taskVars,
           HistoryTypes, history
  <2> QED
    BY <2>1, <2>2, Zenon
<1>25. ASSUME UNCHANGED vars PROVE TypeOK'
  BY <1>25, Zenon
     DEF vars, HandleTypes, handleVars, MemTypes, memVars, TaskTypes, taskVars, ClientTypes,
         clientVars, HistoryTypes, history
<1> QED
  BY Zenon, <1>1, <1>2, <1>3, <1>4, <1>5, <1>6, <1>7, <1>8, <1>9, <1>10, <1>11, <1>12, <1>13, <1>14,
      <1>15, <1>16, <1>17, <1>18, <1>19, <1>20, <1>21, <1>22, <1>23, <1>24, <1>25, Zenon
  DEF Next, Opening, Background, Fails, Calls, Client
-----------------------------------------------------------------------------
(***************************************************************************)
(* The steps.  For each conjunct of the invariant this is shown for the    *)
(* actions that can disturb it one by one, and for all others because they *)
(* leave its variables alone.                                              *)
(*                                                                         *)
(* First LifeInv and AskInv: handles, their background tasks,              *)
(* transactions and pending answers.                                       *)
(***************************************************************************)
(* A background task runs from the opening of a handle until its last sender is gone. *)
LEMMA RestStep == TypeOK /\ LifeInv /\ [Next]_vars => RestInv'
<1> SUFFICES ASSUME TypeOK, LifeInv, [Next]_vars PROVE RestInv'
  OBVIOUS
<1> USE DEF TypeOK
<1>1. ASSUME UNCHANGED <<status, task, moving, chan>> PROVE RestInv'
  BY <1>1, Zenon
     DEF LifeInv, RestInv, BorrowInv, OwnerInv, Busy, IsFlush, HandleTypes, TaskTypes,
         ClientTypes
<1>2. ASSUME NEW h \in Handles, OpenStart(h) PROVE RestInv'
  BY <1>2
     DEF OpenStart, IsFlush, LifeInv, RestInv, BorrowInv, OwnerInv, Busy, HandleTypes,
         TaskTypes, ClientTypes, taskVars
<1>3. ASSUME NEW h \in Handles, OpenLocked(h) PROVE RestInv'
  BY <1>3, TaskFacts
     DEF OpenLocked, try_lock, IsFlush, LifeInv, RestInv, BorrowInv, OwnerInv, Busy,
         HandleTypes, TaskTypes, ClientTypes
<1>4. ASSUME NEW h \in Handles, OpenBusy(h) PROVE RestInv'
  BY <1>4
     DEF OpenBusy, IsFlush, LifeInv, RestInv, BorrowInv, OwnerInv, Busy, HandleTypes,
         TaskTypes, ClientTypes, taskVars
<1>5. ASSUME NEW h \in Handles, Drop(h) PROVE RestInv'
  BY <1>5
     DEF Drop, try_send, IsFlush, LifeInv, RestInv, BorrowInv, OwnerInv, Busy, HandleTypes,
         TaskTypes, ClientTypes
<1>6. ASSUME NEW h \in Handles, Recv(h) PROVE RestInv'
  <2>1. UNCHANGED <<status, moving>> /\ task[h] = None /\ chan'[h] = <<>> /\ task'[h] \in Tasks
    BY <1>6 DEF Recv, TaskTypes, Channels, handleVars
  <2>2. \A k \in Handles : k # h => task'[k] = task[k] /\ chan'[k] = chan[k]
    BY <1>6, Zenon DEF Recv, TaskTypes
  <2>3. \A k \in Handles : (task'[k] = Ended <=> task[k] = Ended) /\ (IsFlush(k) => IsFlush(k)')
    BY <2>1, <2>2, TaskFacts, Zenon DEF IsFlush
  <2> QED
    BY <2>1, <2>2, <2>3, Zenon DEF LifeInv, RestInv, TaskTypes
<1>7. ASSUME NEW h \in Handles, RecvNone(h) PROVE RestInv'
  BY <1>7
     DEF RecvNone, IsFlush, LifeInv, RestInv, BorrowInv, OwnerInv, Busy, HandleTypes,
         TaskTypes, ClientTypes
<1>8. ASSUME NEW h \in Handles, RunSeek(h) PROVE RestInv'
  BY <1>8, TaskFacts
     DEF RunSeek, IsFlush, LifeInv, RestInv, BorrowInv, OwnerInv, Busy, HandleTypes,
         TaskTypes, ClientTypes, handleVars
<1>9. ASSUME NEW h \in Handles, SwapNone(h) PROVE RestInv'
  BY <1>9, TaskFacts
     DEF SwapNone, Answer, IsFlush, LifeInv, RestInv, BorrowInv, OwnerInv, Busy, HandleTypes,
         TaskTypes, ClientTypes, handleVars
<1>10. ASSUME NEW h \in Handles, swap(h) PROVE RestInv'
  BY <1>10, Zenon
     DEF swap, IsFlush, LifeInv, RestInv, BorrowInv, OwnerInv, Busy, HandleTypes, TaskTypes,
         ClientTypes
<1>11. ASSUME NEW h \in Handles, SwapFails(h) PROVE RestInv'
  BY <1>11, TaskFacts
     DEF SwapFails, Answer, IsFlush, LifeInv, RestInv, BorrowInv, OwnerInv, Busy,
         HandleTypes, TaskTypes, ClientTypes
<1>12. ASSUME NEW h \in Handles, minor_compaction(h) PROVE RestInv'
  BY <1>12, TaskFacts
     DEF minor_compaction, Answer, IsFlush, LifeInv, RestInv, BorrowInv, OwnerInv, Busy,
         HandleTypes, TaskTypes, ClientTypes, handleVars
<1>13. ASSUME NEW h \in Handles, MinorFails(h) PROVE RestInv'
  BY <1>13, TaskFacts
     DEF MinorFails, Answer, IsFlush, LifeInv, RestInv, BorrowInv, OwnerInv, Busy,
         HandleTypes, TaskTypes, ClientTypes, handleVars
<1>14. ASSUME NEW c \in Clients, SetSend(c) PROVE RestInv'
  BY <1>14
     DEF SetSend, try_send, IsFlush, LifeInv, RestInv, BorrowInv, OwnerInv, Busy,
         HandleTypes, TaskTypes, ClientTypes, handleVars
<1>15. ASSUME NEW c \in Clients, TxEnd(c) PROVE RestInv'
  <2>1. ASSUME NEW k \in Handles, chan'[k] # chan[k] PROVE k = own[c]
    BY <1>15, <2>1, Zenon DEF TxEnd, try_send, TaskTypes
  <2>2. UNCHANGED <<status, task, moving>> /\ own[c] # None
    BY <1>15, Zenon DEF TxEnd, handleVars
  <2> QED
    BY <2>1, <2>2, Zenon DEF LifeInv, RestInv, OwnerInv, IsFlush
<1>16. ASSUME NEW c \in Clients, NEW h \in Handles, GetSeek(c, h) PROVE RestInv'
  BY <1>16
     DEF GetSeek, try_send, IsFlush, LifeInv, RestInv, BorrowInv, OwnerInv, Busy,
         HandleTypes, TaskTypes, ClientTypes, handleVars
<1>17. ASSUME NEW c \in Clients, FlushSend(c) PROVE RestInv'
  BY <1>17
     DEF FlushSend, IsFlush, LifeInv, RestInv, BorrowInv, OwnerInv, Busy, HandleTypes,
         TaskTypes, ClientTypes, handleVars
<1>18. ASSUME NEW c \in Clients, Cancel(c) PROVE RestInv'
  <2>1. UNCHANGED <<status, moving>>
    BY <1>18, Zenon DEF Cancel, handleVars
  <2>2. ASSUME NEW k \in Handles
        PROVE  /\ task[k] = Ended <=> task'[k] = Ended
               /\ chan[k] = <<>> => chan'[k] = <<>>
               /\ IsFlush(k) => IsFlush(k)'
    BY <1>18, ForgetKeeps, TaskFacts DEF TaskTypes, IsFlush
  <2> QED
    BY <2>1, <2>2, Zenon DEF LifeInv, RestInv
<1>19. ASSUME NEW c \in Clients, TxReady(c) PROVE RestInv'
  BY <1>19, <1>1, Zenon DEF TxReady, handleVars, taskVars
<1>20. ASSUME NEW c \in Clients, FlushReturn(c) PROVE RestInv'
  BY <1>20, <1>1, Zenon DEF FlushReturn, handleVars, taskVars
<1>21. ASSUME NEW c \in Clients, NEW n \in 1..2, TxCommit(c, n) PROVE RestInv'
  BY <1>21, <1>1, Zenon DEF TxCommit, handleVars, taskVars
<1>22. ASSUME NEW c \in Clients, NEW n \in 1..2, TxFails(c, n) PROVE RestInv'
  BY <1>22, <1>1, Zenon DEF TxFails, handleVars, taskVars
<1>23. ASSUME NEW c \in Clients, NEW h \in Handles, Set(c, h) PROVE RestInv'
  BY <1>23, <1>1, Zenon DEF Set, handleVars, taskVars
<1>24. ASSUME NEW c \in Clients, NEW h \in Handles, TxNew(c, h) PROVE RestInv'
  BY <1>24, <1>1, Zenon DEF TxNew, handleVars, taskVars
<1>25. ASSUME NEW c \in Clients, NEW h \in Handles, FlushCall(c, h) PROVE RestInv'
  BY <1>25, <1>1, Zenon DEF FlushCall, handleVars, taskVars
<1>26. CASE UNCHANGED vars
  BY <1>1, <1>26, Zenon DEF vars, handleVars, taskVars
<1> QED
  BY <1>2, <1>3, <1>4, <1>5, <1>6, <1>7, <1>8, <1>9, <1>10, <1>11, <1>12, <1>13, <1>14,
      <1>15, <1>16, <1>17, <1>18, <1>19, <1>20, <1>21, <1>22, <1>23, <1>24, <1>25, <1>26
  DEF Next, Background, Fails, Opening, Client, Calls

(* lock_or_time_out and Drop: whoever holds the lock file is open. *)
LEMMA LockStep == TypeOK /\ LifeInv /\ [Next]_vars => LockInv'
<1> SUFFICES ASSUME TypeOK, LifeInv, [Next]_vars PROVE LockInv'
  OBVIOUS
<1> USE DEF TypeOK
<1>1. ASSUME UNCHANGED <<status, lock>> PROVE LockInv'
  BY <1>1, Zenon DEF LifeInv, LockInv, RestInv, Senders, HandleTypes
<1>2. ASSUME NEW h \in Handles, OpenStart(h) PROVE LockInv'
  BY <1>2, Zenon DEF OpenStart, Senders, LifeInv, LockInv, RestInv, HandleTypes
<1>3. ASSUME NEW h \in Handles, OpenLocked(h) PROVE LockInv'
  BY <1>3, StorageConstants, Zenon
     DEF OpenLocked, try_lock, Senders, LifeInv, LockInv, RestInv, HandleTypes
<1>4. ASSUME NEW h \in Handles, OpenBusy(h) PROVE LockInv'
  BY <1>4, Zenon DEF OpenBusy, Senders, LifeInv, LockInv, RestInv, HandleTypes
<1>5. ASSUME NEW h \in Handles, Drop(h) PROVE LockInv'
  BY <1>5, StorageConstants, Zenon DEF Drop, Senders, LifeInv, LockInv, RestInv, HandleTypes
<1>6. ASSUME NEW h \in Handles, RecvNone(h) PROVE LockInv'
  BY <1>6, Zenon DEF RecvNone, Senders, LifeInv, LockInv, RestInv, HandleTypes
<1>7. ASSUME NEW c \in Clients, Client(c) PROVE LockInv'
  BY <1>7, <1>1, ClientQuiet, Zenon DEF handleVars
<1>8. ASSUME NEW c \in Clients, NEW h \in Handles, Calls(c, h) PROVE LockInv'
  BY <1>8, <1>1, ClientQuiet, Zenon DEF handleVars
<1>9. ASSUME NEW h \in Handles, Recv(h) PROVE LockInv'
  BY <1>9, <1>1, Zenon DEF Recv, handleVars
<1>10. ASSUME NEW h \in Handles, RunSeek(h) PROVE LockInv'
  BY <1>10, <1>1, Zenon DEF RunSeek, handleVars
<1>11. ASSUME NEW h \in Handles, SwapNone(h) PROVE LockInv'
  BY <1>11, <1>1, Zenon DEF SwapNone, handleVars
<1>12. ASSUME NEW h \in Handles, swap(h) PROVE LockInv'
  BY <1>12, <1>1, Zenon DEF swap
<1>13. ASSUME NEW h \in Handles, minor_compaction(h) PROVE LockInv'
  BY <1>13, <1>1, Zenon DEF minor_compaction, handleVars
<1>14. ASSUME NEW h \in Handles, SwapFails(h) PROVE LockInv'
  BY <1>14, <1>1, Zenon DEF SwapFails
<1>15. ASSUME NEW h \in Handles, MinorFails(h) PROVE LockInv'
  BY <1>15, <1>1, Zenon DEF MinorFails, handleVars
<1>16. CASE UNCHANGED vars
  BY <1>1, <1>16, Zenon DEF vars, handleVars
<1> QED
  BY Zenon, <1>2, <1>3, <1>4, <1>5, <1>6, <1>7, <1>8, <1>9, <1>10, <1>11, <1>12, <1>13, <1>14,
      <1>15, <1>16
  DEF Next, Background, Fails, Opening

(* A handle is dropped only when no method of it is running. *)
LEMMA BorrowStep == TypeOK /\ LifeInv /\ AskInv /\ [Next]_vars => BorrowInv'
<1> SUFFICES ASSUME TypeOK, LifeInv, AskInv, [Next]_vars PROVE BorrowInv'
  OBVIOUS
<1> USE DEF TypeOK
<1>1. ASSUME UNCHANGED <<status, pc, at>> PROVE BorrowInv'
  BY <1>1, Zenon DEF LifeInv, BorrowInv, RestInv, Busy, Senders, Idle, HandleTypes, ClientTypes, PCs
<1>2. ASSUME NEW h \in Handles, OpenStart(h) PROVE BorrowInv'
  BY <1>2, Zenon
     DEF OpenStart, Senders, Idle, LifeInv, BorrowInv, RestInv, Busy, HandleTypes,
         ClientTypes, PCs, clientVars
<1>3. ASSUME NEW h \in Handles, OpenLocked(h) PROVE BorrowInv'
  BY <1>3, Zenon
     DEF OpenLocked, try_lock, Senders, Idle, LifeInv, BorrowInv, RestInv, Busy, HandleTypes,
         ClientTypes, PCs, clientVars
<1>4. ASSUME NEW h \in Handles, OpenBusy(h) PROVE BorrowInv'
  BY <1>4, Zenon
     DEF OpenBusy, Senders, Idle, LifeInv, BorrowInv, RestInv, Busy, HandleTypes,
         ClientTypes, PCs, clientVars
<1>5. ASSUME NEW h \in Handles, Drop(h) PROVE BorrowInv'
  BY <1>5, Zenon
     DEF Drop, Senders, Idle, LifeInv, BorrowInv, RestInv, Busy, HandleTypes, ClientTypes,
         PCs, clientVars
<1>6. ASSUME NEW h \in Handles, RecvNone(h) PROVE BorrowInv'
  BY <1>6, Zenon
     DEF RecvNone, Senders, Idle, LifeInv, BorrowInv, RestInv, Busy, HandleTypes,
         ClientTypes, PCs, clientVars
<1>7. ASSUME NEW h \in Handles, SwapNone(h) PROVE BorrowInv'
  <2>1. IsFlush(h) /\ Answer(h, "ok") /\ UNCHANGED <<status, at>>
    BY <1>7, Zenon DEF SwapNone, Answer, LifeInv, RestInv, handleVars
  <2> QED
    BY <2>1, AnswerReaches DEF LifeInv, BorrowInv, Busy
<1>8. ASSUME NEW h \in Handles, SwapFails(h) PROVE BorrowInv'
  <2>1. IsFlush(h) /\ Answer(h, "err") /\ UNCHANGED <<status, at>>
    BY <1>8, Zenon DEF SwapFails, Answer, LifeInv, RestInv, handleVars
  <2> QED
    BY <2>1, AnswerReaches, Zenon DEF LifeInv, BorrowInv, Busy
<1>9. ASSUME NEW h \in Handles, minor_compaction(h) PROVE BorrowInv'
  <2>1. IsFlush(h) /\ Answer(h, "ok") /\ UNCHANGED <<status, at>>
    BY <1>9, Zenon DEF minor_compaction, Answer, LifeInv, RestInv, handleVars
  <2> QED
    BY <2>1, AnswerReaches DEF LifeInv, BorrowInv, Busy
<1>10. ASSUME NEW h \in Handles, MinorFails(h) PROVE BorrowInv'
  <2>1. IsFlush(h) /\ Answer(h, "err") /\ UNCHANGED <<status, at>>
    BY <1>10, Zenon DEF MinorFails, Answer, LifeInv, RestInv, handleVars
  <2> QED
    BY <2>1, AnswerReaches, Zenon DEF LifeInv, BorrowInv, Busy
<1>11. ASSUME NEW c \in Clients, SetSend(c) PROVE BorrowInv'
  BY <1>11, Zenon
     DEF SetSend, Goto, Senders, Idle, LifeInv, BorrowInv, RestInv, Busy, HandleTypes,
         ClientTypes, PCs, handleVars
<1>12. ASSUME NEW c \in Clients, TxReady(c) PROVE BorrowInv'
  BY <1>12, Zenon
     DEF TxReady, Goto, Senders, Idle, LifeInv, BorrowInv, RestInv, Busy, HandleTypes,
         ClientTypes, PCs, handleVars
<1>13. ASSUME NEW c \in Clients, TxEnd(c) PROVE BorrowInv'
  BY <1>13, Zenon
     DEF TxEnd, Senders, Idle, LifeInv, BorrowInv, RestInv, Busy, HandleTypes, ClientTypes,
         PCs, handleVars
<1>14. ASSUME NEW c \in Clients, FlushSend(c) PROVE BorrowInv'
  BY <1>14, Zenon
     DEF FlushSend, Goto, Senders, Idle, LifeInv, BorrowInv, RestInv, Busy, HandleTypes,
         ClientTypes, PCs, handleVars
<1>15. ASSUME NEW c \in Clients, FlushReturn(c) PROVE BorrowInv'
  BY <1>15, Zenon
     DEF FlushReturn, Goto, Senders, Idle, LifeInv, BorrowInv, RestInv, Busy, HandleTypes,
         ClientTypes, PCs, handleVars
<1>16. ASSUME NEW c \in Clients, Cancel(c) PROVE BorrowInv'
  BY <1>16, Zenon
     DEF Cancel, Goto, Senders, Idle, LifeInv, BorrowInv, RestInv, Busy, HandleTypes,
         ClientTypes, PCs, handleVars
<1>17. ASSUME NEW c \in Clients, NEW n \in 1..2, TxCommit(c, n) PROVE BorrowInv'
  BY <1>17, Zenon
     DEF TxCommit, Senders, Idle, LifeInv, BorrowInv, RestInv, Busy, HandleTypes,
         ClientTypes, PCs, handleVars
<1>18. ASSUME NEW c \in Clients, NEW h \in Handles, Set(c, h) PROVE BorrowInv'
  <2>1. UNCHANGED status /\ status[h] = "open" /\ pc[c] = "idle"
    BY <1>18, Zenon DEF Set, Idle, handleVars
  <2>2. (UNCHANGED <<pc, at>>) \/ Goto(c, "exceeded", h)
    BY <1>18, Zenon DEF Set
  <2> QED
    BY <2>1, <2>2, StorageConstants DEF Goto, LifeInv, BorrowInv, Busy, ClientTypes
<1>19. ASSUME NEW c \in Clients, NEW h \in Handles, TxNew(c, h) PROVE BorrowInv'
  BY <1>19, StorageConstants, Zenon
     DEF TxNew, Goto, Senders, Idle, LifeInv, BorrowInv, RestInv, Busy, HandleTypes,
         ClientTypes, PCs, handleVars
<1>20. ASSUME NEW c \in Clients, NEW h \in Handles, FlushCall(c, h) PROVE BorrowInv'
  BY <1>20, StorageConstants, Zenon
     DEF FlushCall, Goto, Senders, Idle, LifeInv, BorrowInv, RestInv, Busy, HandleTypes,
         ClientTypes, PCs, handleVars
<1>21. ASSUME NEW h \in Handles, Recv(h) PROVE BorrowInv'
  BY <1>21, <1>1, Zenon DEF Recv, handleVars, clientVars
<1>22. ASSUME NEW h \in Handles, RunSeek(h) PROVE BorrowInv'
  BY <1>22, <1>1, Zenon DEF RunSeek, handleVars, clientVars
<1>23. ASSUME NEW h \in Handles, swap(h) PROVE BorrowInv'
  BY <1>23, <1>1, Zenon DEF swap, clientVars
<1>24. ASSUME NEW c \in Clients, NEW n \in 1..2, TxFails(c, n) PROVE BorrowInv'
  BY <1>24, <1>1, Zenon DEF TxFails, handleVars
<1>25. ASSUME NEW c \in Clients, NEW h \in Handles, GetSeek(c, h) PROVE BorrowInv'
  BY <1>25, <1>1, Zenon DEF GetSeek, handleVars, clientVars
<1>26. CASE UNCHANGED vars
  BY <1>1, <1>26, Zenon DEF vars, handleVars, clientVars
<1> QED
  BY Zenon, <1>2, <1>3, <1>4, <1>5, <1>6, <1>7, <1>8, <1>9, <1>10, <1>11, <1>12, <1>13, <1>14,
      <1>15, <1>16, <1>17, <1>18, <1>19, <1>20, <1>21, <1>22, <1>23, <1>24, <1>25, <1>26
  DEF Next, Background, Fails, Opening, Client, Calls

(* A transaction keeps the background task of its handle alive: it has a sender. *)
LEMMA OwnerStep == TypeOK /\ LifeInv /\ AskInv /\ [Next]_vars => OwnerInv'
<1> SUFFICES ASSUME TypeOK, LifeInv, AskInv, [Next]_vars PROVE OwnerInv'
  OBVIOUS
<1> USE DEF TypeOK
<1>1. ASSUME UNCHANGED <<status, pc, own>> PROVE OwnerInv'
  BY <1>1, Zenon
     DEF LifeInv, BorrowInv, OwnerInv, AskInv, Busy, IsFlush, Idle, Senders, HandleTypes,
         TaskTypes, ClientTypes, PCs
<1>2. ASSUME NEW h \in Handles, OpenStart(h) PROVE OwnerInv'
  BY <1>2
     DEF OpenStart, IsFlush, Idle, Senders, LifeInv, BorrowInv, OwnerInv, AskInv, Busy,
         HandleTypes, TaskTypes, ClientTypes, PCs, clientVars
<1>3. ASSUME NEW h \in Handles, OpenLocked(h) PROVE OwnerInv'
  BY <1>3
     DEF OpenLocked, try_lock, IsFlush, Idle, Senders, LifeInv, BorrowInv, OwnerInv, AskInv,
         Busy, HandleTypes, TaskTypes, ClientTypes, PCs, clientVars
<1>4. ASSUME NEW h \in Handles, OpenBusy(h) PROVE OwnerInv'
  BY <1>4
     DEF OpenBusy, IsFlush, Idle, Senders, LifeInv, BorrowInv, OwnerInv, AskInv, Busy,
         HandleTypes, TaskTypes, ClientTypes, PCs, clientVars
<1>5. ASSUME NEW h \in Handles, Drop(h) PROVE OwnerInv'
  BY <1>5
     DEF Drop, IsFlush, Idle, Senders, LifeInv, BorrowInv, OwnerInv, AskInv, Busy,
         HandleTypes, TaskTypes, ClientTypes, PCs, clientVars
<1>6. ASSUME NEW h \in Handles, RecvNone(h) PROVE OwnerInv'
  BY <1>6
     DEF RecvNone, IsFlush, Idle, Senders, LifeInv, BorrowInv, OwnerInv, AskInv, Busy,
         HandleTypes, TaskTypes, ClientTypes, PCs, clientVars
<1>7. ASSUME NEW h \in Handles, SwapNone(h) PROVE OwnerInv'
  BY <1>7, Zenon
     DEF SwapNone, Answer, IsFlush, Idle, Senders, LifeInv, BorrowInv, OwnerInv, AskInv,
         Busy, HandleTypes, TaskTypes, ClientTypes, PCs, handleVars
<1>8. ASSUME NEW h \in Handles, SwapFails(h) PROVE OwnerInv'
  BY <1>8, Zenon
     DEF SwapFails, Answer, IsFlush, Idle, Senders, LifeInv, BorrowInv, OwnerInv, AskInv,
         Busy, HandleTypes, TaskTypes, ClientTypes, PCs
<1>9. ASSUME NEW h \in Handles, minor_compaction(h) PROVE OwnerInv'
  BY <1>9, Zenon
     DEF minor_compaction, Answer, IsFlush, Idle, Senders, LifeInv, BorrowInv, OwnerInv,
         AskInv, Busy, HandleTypes, TaskTypes, ClientTypes, PCs, handleVars
<1>10. ASSUME NEW h \in Handles, MinorFails(h) PROVE OwnerInv'
  BY <1>10, Zenon
     DEF MinorFails, Answer, IsFlush, Idle, Senders, LifeInv, BorrowInv, OwnerInv, AskInv,
         Busy, HandleTypes, TaskTypes, ClientTypes, PCs, handleVars
<1>11. ASSUME NEW c \in Clients, SetSend(c) PROVE OwnerInv'
  BY <1>11
     DEF SetSend, Goto, IsFlush, Idle, Senders, LifeInv, BorrowInv, OwnerInv, AskInv, Busy,
         HandleTypes, TaskTypes, ClientTypes, PCs, handleVars
<1>12. ASSUME NEW c \in Clients, TxReady(c) PROVE OwnerInv'
  BY <1>12
     DEF TxReady, Goto, IsFlush, Idle, Senders, LifeInv, BorrowInv, OwnerInv, AskInv, Busy,
         HandleTypes, TaskTypes, ClientTypes, PCs, handleVars
<1>13. ASSUME NEW c \in Clients, TxEnd(c) PROVE OwnerInv'
  BY <1>13
     DEF TxEnd, IsFlush, Idle, Senders, LifeInv, BorrowInv, OwnerInv, AskInv, Busy,
         HandleTypes, TaskTypes, ClientTypes, PCs, handleVars
<1>14. ASSUME NEW c \in Clients, FlushSend(c) PROVE OwnerInv'
  BY <1>14
     DEF FlushSend, Goto, IsFlush, Idle, Senders, LifeInv, BorrowInv, OwnerInv, AskInv, Busy,
         HandleTypes, TaskTypes, ClientTypes, PCs, handleVars
<1>15. ASSUME NEW c \in Clients, FlushReturn(c) PROVE OwnerInv'
  BY <1>15
     DEF FlushReturn, Goto, IsFlush, Idle, Senders, LifeInv, BorrowInv, OwnerInv, AskInv,
         Busy, HandleTypes, TaskTypes, ClientTypes, PCs, handleVars
<1>16. ASSUME NEW c \in Clients, Cancel(c) PROVE OwnerInv'
  BY <1>16
     DEF Cancel, Goto, IsFlush, Idle, Senders, LifeInv, BorrowInv, OwnerInv, AskInv, Busy,
         HandleTypes, TaskTypes, ClientTypes, PCs, handleVars
<1>17. ASSUME NEW c \in Clients, NEW n \in 1..2, TxCommit(c, n) PROVE OwnerInv'
  BY <1>17
     DEF TxCommit, IsFlush, Idle, Senders, LifeInv, BorrowInv, OwnerInv, AskInv, Busy,
         HandleTypes, TaskTypes, ClientTypes, PCs, handleVars
<1>18. ASSUME NEW c \in Clients, NEW n \in 1..2, TxFails(c, n) PROVE OwnerInv'
  BY <1>18
     DEF TxFails, IsFlush, Idle, Senders, LifeInv, BorrowInv, OwnerInv, AskInv, Busy,
         HandleTypes, TaskTypes, ClientTypes, PCs, handleVars
<1>19. ASSUME NEW c \in Clients, NEW h \in Handles, Set(c, h) PROVE OwnerInv'
  BY <1>19
     DEF Set, Goto, IsFlush, Idle, Senders, LifeInv, BorrowInv, OwnerInv, AskInv, Busy,
         HandleTypes, TaskTypes, ClientTypes, PCs, handleVars
<1>20. ASSUME NEW c \in Clients, NEW h \in Handles, TxNew(c, h) PROVE OwnerInv'
  BY <1>20
     DEF TxNew, Goto, IsFlush, Idle, Senders, LifeInv, BorrowInv, OwnerInv, AskInv, Busy,
         HandleTypes, TaskTypes, ClientTypes, PCs, handleVars
<1>21. ASSUME NEW c \in Clients, NEW h \in Handles, FlushCall(c, h) PROVE OwnerInv'
  BY <1>21
     DEF FlushCall, Goto, IsFlush, Idle, Senders, LifeInv, BorrowInv, OwnerInv, AskInv, Busy,
         HandleTypes, TaskTypes, ClientTypes, PCs, handleVars
<1>22. ASSUME NEW h \in Handles, Recv(h) PROVE OwnerInv'
  BY <1>22, <1>1, Zenon DEF Recv, handleVars, clientVars
<1>23. ASSUME NEW h \in Handles, RunSeek(h) PROVE OwnerInv'
  BY <1>23, <1>1, Zenon DEF RunSeek, handleVars, clientVars
<1>24. ASSUME NEW h \in Handles, swap(h) PROVE OwnerInv'
  BY <1>24, <1>1, Zenon DEF swap, clientVars
<1>25. ASSUME NEW c \in Clients, NEW h \in Handles, GetSeek(c, h) PROVE OwnerInv'
  BY <1>25, <1>1, Zenon DEF GetSeek, handleVars, clientVars
<1>26. CASE UNCHANGED vars
  BY <1>1, <1>26, Zenon DEF vars, handleVars, clientVars
<1> QED
  BY Zenon, <1>2, <1>3, <1>4, <1>5, <1>6, <1>7, <1>8, <1>9, <1>10, <1>11, <1>12, <1>13, <1>14,
      <1>15, <1>16, <1>17, <1>18, <1>19, <1>20, <1>21, <1>22, <1>23, <1>24, <1>25, <1>26
  DEF Next, Background, Fails, Opening, Client, Calls

(* The sender of an answer is in the hands of one flush() that waits for it. *)
LEMMA AskStep == TypeOK /\ LifeInv /\ AskInv /\ [Next]_vars => AskInv'
<1> SUFFICES ASSUME TypeOK, LifeInv, AskInv, [Next]_vars PROVE AskInv'
  OBVIOUS
<1> USE DEF TypeOK
<1>1. ASSUME UNCHANGED <<task, chan, pc, at>> PROVE AskInv'
  BY <1>1 DEF AskInv, LifeInv, BorrowInv, Busy, Idle, Channels, TaskTypes, ClientTypes, PCs
<1>2. ASSUME NEW h \in Handles, OpenLocked(h) PROVE AskInv'
  BY <1>2, TaskFacts
     DEF OpenLocked, try_lock, Idle, Channels, AskInv, LifeInv, BorrowInv, Busy, TaskTypes,
         ClientTypes, PCs, clientVars
<1>3. ASSUME NEW h \in Handles, Drop(h) PROVE AskInv'
  <2>1. UNCHANGED <<task, pc, at>>
    BY <1>3, Zenon DEF Drop, clientVars
  <2>2. \A k \in Handles : chan'[k] = chan[k] \/ chan'[k] = <<Flush(None)>>
    BY <1>3, Zenon DEF Drop, try_send, TaskTypes
  <2>3. \A d \in Clients : Flush(None) # Flush(d)
    BY TaskFacts, StorageConstants, Zenon
  <2>4. \A k \in Handles, d \in Clients : chan'[k] = <<Flush(d)>> => chan[k] = <<Flush(d)>>
    BY <2>2, <2>3
  <2> QED
    BY <2>1, <2>4, Zenon DEF AskInv
<1>4. ASSUME NEW h \in Handles, Recv(h) PROVE AskInv'
  BY <1>4
     DEF Recv, Idle, Channels, AskInv, LifeInv, BorrowInv, Busy, TaskTypes, ClientTypes, PCs,
         clientVars
<1>5. ASSUME NEW h \in Handles, RecvNone(h) PROVE AskInv'
  BY <1>5, TaskFacts
     DEF RecvNone, Idle, Channels, AskInv, LifeInv, BorrowInv, Busy, TaskTypes, ClientTypes,
         PCs, clientVars
<1>6. ASSUME NEW h \in Handles, RunSeek(h) PROVE AskInv'
  BY <1>6, TaskFacts
     DEF RunSeek, Idle, Channels, AskInv, LifeInv, BorrowInv, Busy, TaskTypes, ClientTypes,
         PCs, clientVars
<1>7. ASSUME NEW h \in Handles, SwapNone(h) PROVE AskInv'
  <2>1. IsFlush(h) /\ Answer(h, "ok") /\ UNCHANGED <<chan, at>>
    BY <1>7, Zenon DEF SwapNone, Answer, LifeInv, RestInv
  <2>2. \A k \in Handles : task'[k] = IF k = h THEN None ELSE task[k]
    BY <2>1, Zenon DEF Answer, TaskTypes
  <2>3. ASSUME NEW k \in Handles, NEW c \in Clients, task'[k] = Flush(c) \/ chan'[k] = <<Flush(c)>>
        PROVE  pc'[c] = "awaiting" /\ at'[c] = k /\ ~(task'[k] = Flush(c) /\ chan'[k] = <<Flush(c)>>)
    <3>1. (task[k] = Flush(c) /\ k # h) \/ chan[k] = <<Flush(c)>>
      BY <2>1, <2>2, <2>3, TaskFacts, Zenon
    <3>2. task[h] # Flush(c)
      BY <3>1 DEF AskInv
    <3>3. pc'[c] = pc[c]
      BY <2>1, <3>2, AnswerReaches, Zenon
    <3>4. pc[c] = "awaiting" /\ at[c] = k /\ ~(task[k] = Flush(c) /\ chan[k] = <<Flush(c)>>)
      BY <3>1, Zenon DEF AskInv
    <3> QED
      BY <2>1, <2>2, <3>3, <3>4, TaskFacts
  <2> QED
    BY <2>3, Zenon DEF AskInv
<1>8. ASSUME NEW h \in Handles, SwapFails(h) PROVE AskInv'
  <2>1. IsFlush(h) /\ Answer(h, "err") /\ UNCHANGED <<chan, at>>
    BY <1>8, Zenon DEF SwapFails, Answer, LifeInv, RestInv
  <2>2. \A k \in Handles : task'[k] = IF k = h THEN None ELSE task[k]
    BY <2>1, Zenon DEF Answer, TaskTypes
  <2>3. ASSUME NEW k \in Handles, NEW c \in Clients, task'[k] = Flush(c) \/ chan'[k] = <<Flush(c)>>
        PROVE  pc'[c] = "awaiting" /\ at'[c] = k /\ ~(task'[k] = Flush(c) /\ chan'[k] = <<Flush(c)>>)
    <3>1. (task[k] = Flush(c) /\ k # h) \/ chan[k] = <<Flush(c)>>
      BY <2>1, <2>2, <2>3, TaskFacts, Zenon
    <3>2. task[h] # Flush(c)
      BY <3>1 DEF AskInv
    <3>3. pc'[c] = pc[c]
      BY <2>1, <3>2, AnswerReaches, Zenon
    <3>4. pc[c] = "awaiting" /\ at[c] = k /\ ~(task[k] = Flush(c) /\ chan[k] = <<Flush(c)>>)
      BY <3>1, Zenon DEF AskInv
    <3> QED
      BY <2>1, <2>2, <3>3, <3>4, TaskFacts
  <2> QED
    BY <2>3, Zenon DEF AskInv
<1>9. ASSUME NEW h \in Handles, minor_compaction(h) PROVE AskInv'
  <2>1. IsFlush(h) /\ Answer(h, "ok") /\ UNCHANGED <<chan, at>>
    BY <1>9, Zenon DEF minor_compaction, Answer, LifeInv, RestInv
  <2>2. \A k \in Handles : task'[k] = IF k = h THEN None ELSE task[k]
    BY <2>1, Zenon DEF Answer, TaskTypes
  <2>3. ASSUME NEW k \in Handles, NEW c \in Clients, task'[k] = Flush(c) \/ chan'[k] = <<Flush(c)>>
        PROVE  pc'[c] = "awaiting" /\ at'[c] = k /\ ~(task'[k] = Flush(c) /\ chan'[k] = <<Flush(c)>>)
    <3>1. (task[k] = Flush(c) /\ k # h) \/ chan[k] = <<Flush(c)>>
      BY <2>1, <2>2, <2>3, TaskFacts, Zenon
    <3>2. task[h] # Flush(c)
      BY <3>1 DEF AskInv
    <3>3. pc'[c] = pc[c]
      BY <2>1, <3>2, AnswerReaches, Zenon
    <3>4. pc[c] = "awaiting" /\ at[c] = k /\ ~(task[k] = Flush(c) /\ chan[k] = <<Flush(c)>>)
      BY <3>1, Zenon DEF AskInv
    <3> QED
      BY <2>1, <2>2, <3>3, <3>4, TaskFacts, Zenon
  <2> QED
    BY <2>3, Zenon DEF AskInv
<1>10. ASSUME NEW h \in Handles, MinorFails(h) PROVE AskInv'
  <2>1. IsFlush(h) /\ Answer(h, "err") /\ UNCHANGED <<chan, at>>
    BY <1>10, Zenon DEF MinorFails, Answer, LifeInv, RestInv
  <2>2. \A k \in Handles : task'[k] = IF k = h THEN None ELSE task[k]
    BY <2>1, Zenon DEF Answer, TaskTypes
  <2>3. ASSUME NEW k \in Handles, NEW c \in Clients, task'[k] = Flush(c) \/ chan'[k] = <<Flush(c)>>
        PROVE  pc'[c] = "awaiting" /\ at'[c] = k /\ ~(task'[k] = Flush(c) /\ chan'[k] = <<Flush(c)>>)
    <3>1. (task[k] = Flush(c) /\ k # h) \/ chan[k] = <<Flush(c)>>
      BY <2>1, <2>2, <2>3, TaskFacts, Zenon
    <3>2. task[h] # Flush(c)
      BY <3>1 DEF AskInv
    <3>3. pc'[c] = pc[c]
      BY <2>1, <3>2, AnswerReaches, Zenon
    <3>4. pc[c] = "awaiting" /\ at[c] = k /\ ~(task[k] = Flush(c) /\ chan[k] = <<Flush(c)>>)
      BY <3>1, Zenon DEF AskInv
    <3> QED
      BY <2>1, <2>2, <3>3, <3>4, TaskFacts, Zenon
  <2> QED
    BY <2>3, Zenon DEF AskInv
<1>11. ASSUME NEW c \in Clients, SetSend(c) PROVE AskInv'
  <2>1. ASSUME NEW k \in Handles PROVE chan'[k] = chan[k] \/ chan'[k] = <<Flush(None)>>
    BY <1>11, Zenon DEF SetSend, try_send, TaskTypes
  <2>2. UNCHANGED task /\ pc[c] = "exceeded" /\ \A d \in Clients \ {c} : pc'[d] = pc[d] /\ at'[d] = at[d]
    BY <1>11, Zenon DEF SetSend, Goto, ClientTypes
  <2> QED
    BY <2>1, <2>2, TaskFacts, StorageConstants DEF AskInv
<1>12. ASSUME NEW c \in Clients, TxReady(c) PROVE AskInv'
  BY <1>12
     DEF TxReady, Goto, Idle, Channels, AskInv, LifeInv, BorrowInv, Busy, TaskTypes,
         ClientTypes, PCs, taskVars
<1>13. ASSUME NEW c \in Clients, TxEnd(c) PROVE AskInv'
  <2>1. ASSUME NEW k \in Handles PROVE chan'[k] = chan[k] \/ chan'[k] = <<Flush(None)>>
    BY <1>13, Zenon DEF TxEnd, try_send, TaskTypes
  <2>2. UNCHANGED <<task, at>> /\ pc[c] # "awaiting" /\ \A d \in Clients \ {c} : pc'[d] = pc[d]
    BY <1>13, Zenon DEF TxEnd, ClientTypes
  <2> QED
    BY <2>1, <2>2, TaskFacts, StorageConstants DEF AskInv
<1>14. ASSUME NEW c \in Clients, FlushSend(c) PROVE AskInv'
  <2>1. at[c] \in Handles /\ pc[c] = "sending" /\ UNCHANGED task
    BY <1>14, Zenon DEF FlushSend, LifeInv, BorrowInv, Busy, ClientTypes
  <2>2. \A k \in Handles : chan'[k] = IF k = at[c] THEN <<Flush(c)>> ELSE chan[k]
    BY <1>14, Zenon DEF FlushSend, TaskTypes
  <2>3. \A d \in Clients : pc'[d] = (IF d = c THEN "awaiting" ELSE pc[d]) /\ at'[d] = at[d]
    BY <1>14, Zenon DEF FlushSend, Goto, ClientTypes
  <2> QED
    BY <2>1, <2>2, <2>3, TaskFacts DEF AskInv
<1>15. ASSUME NEW c \in Clients, FlushReturn(c) PROVE AskInv'
  BY <1>15
     DEF FlushReturn, Goto, Idle, Channels, AskInv, LifeInv, BorrowInv, Busy, TaskTypes,
         ClientTypes, PCs, taskVars
<1>16. ASSUME NEW c \in Clients, Cancel(c) PROVE AskInv'
  <2>1. \A d \in Clients \ {c} : pc'[d] = pc[d] /\ at'[d] = at[d]
    BY <1>16, Zenon DEF Cancel, Goto, ClientTypes
  <2>2. ASSUME NEW k \in Handles, NEW d \in Clients
        PROVE  /\ task'[k] = Flush(d) => d # c /\ task[k] = Flush(d)
               /\ chan'[k] = <<Flush(d)>> => d # c /\ chan[k] = <<Flush(d)>>
    <3>1. \A t : Forget(c, t) = Flush(d) => d # c /\ t = Flush(d)
      BY TaskFacts, StorageConstants, Zenon DEF Forget
    <3>2. task'[k] = Forget(c, task[k]) /\ (chan[k] # <<>> => chan'[k] = <<Forget(c, chan[k][1])>>)
          /\ (chan[k] = <<>> => chan'[k] = <<>>)
      BY <1>16, ForgetKeeps, Zenon
    <3>3. chan[k] = <<>> \/ chan[k] = <<chan[k][1]>>
      BY DEF TaskTypes, Channels
    <3> QED
      BY <3>1, <3>2, <3>3
  <2> QED
    BY <2>1, <2>2 DEF AskInv
<1>17. ASSUME NEW c \in Clients, NEW n \in 1..2, TxCommit(c, n) PROVE AskInv'
  BY <1>17
     DEF TxCommit, Idle, Channels, AskInv, LifeInv, BorrowInv, Busy, TaskTypes, ClientTypes,
         PCs, taskVars
<1>18. ASSUME NEW c \in Clients, NEW h \in Handles, Set(c, h) PROVE AskInv'
  <2>1. UNCHANGED <<chan, task>> /\ pc[c] = "idle"
    BY <1>18, Zenon DEF Set, Idle, taskVars
  <2>2. (UNCHANGED <<pc, at>>) \/ Goto(c, "exceeded", h)
    BY <1>18, Zenon DEF Set
  <2> QED
    BY <2>1, <2>2 DEF Goto, AskInv, ClientTypes
<1>19. ASSUME NEW c \in Clients, NEW h \in Handles, GetSeek(c, h) PROVE AskInv'
  <2>1. ASSUME NEW k \in Handles PROVE chan'[k] = chan[k] \/ chan'[k] = <<Seek>>
    BY <1>19, Zenon DEF GetSeek, try_send, TaskTypes
  <2>2. UNCHANGED <<task, at, pc>>
    BY <1>19, Zenon DEF GetSeek, clientVars
  <2>3. \A d \in Clients : <<Seek>> # <<Flush(d)>>
    BY TaskFacts
  <2>4. \A k \in Handles, d \in Clients : chan'[k] = <<Flush(d)>> => chan[k] = <<Flush(d)>>
    BY <2>1, <2>3, Zenon
  <2> QED
    BY <2>2, <2>4, Zenon DEF AskInv
<1>20. ASSUME NEW c \in Clients, NEW h \in Handles, TxNew(c, h) PROVE AskInv'
  BY <1>20
     DEF TxNew, Goto, Idle, Channels, AskInv, LifeInv, BorrowInv, Busy, TaskTypes,
         ClientTypes, PCs, taskVars
<1>21. ASSUME NEW c \in Clients, NEW h \in Handles, FlushCall(c, h) PROVE AskInv'
  BY <1>21
     DEF FlushCall, Goto, Idle, Channels, AskInv, LifeInv, BorrowInv, Busy, TaskTypes,
         ClientTypes, PCs, taskVars
<1>22. ASSUME NEW h \in Handles, OpenStart(h) PROVE AskInv'
  BY <1>22, <1>1, Zenon DEF OpenStart, taskVars, clientVars
<1>23. ASSUME NEW h \in Handles, OpenBusy(h) PROVE AskInv'
  BY <1>23, <1>1, Zenon DEF OpenBusy, taskVars, clientVars
<1>24. ASSUME NEW h \in Handles, swap(h) PROVE AskInv'
  BY <1>24, <1>1, Zenon DEF swap, clientVars
<1>25. ASSUME NEW c \in Clients, NEW n \in 1..2, TxFails(c, n) PROVE AskInv'
  BY <1>25, <1>1, Zenon DEF TxFails, taskVars
<1>26. CASE UNCHANGED vars
  BY <1>1, <1>26, Zenon DEF vars, taskVars, clientVars
<1> QED
  BY Zenon, <1>2, <1>3, <1>4, <1>5, <1>6, <1>7, <1>8, <1>9, <1>10, <1>11, <1>12, <1>13, <1>14,
      <1>15, <1>16, <1>17, <1>18, <1>19, <1>20, <1>21, <1>22, <1>23, <1>24, <1>25, <1>26
  DEF Next, Background, Fails, Opening, Client, Calls
-----------------------------------------------------------------------------
(***************************************************************************)
(* Data on its way to disk: NeedInv, BalanceInv, DurableInv and WalInv.    *)
(***************************************************************************)
(* What flush() has to bring to disk was written before. *)
LEMMA NeedStep == TypeOK /\ LifeInv /\ AskInv /\ NeedInv /\ [Next]_vars => NeedInv'
<1> SUFFICES ASSUME TypeOK, LifeInv, AskInv, NeedInv, [Next]_vars PROVE NeedInv'
  OBVIOUS
<1> USE DEF TypeOK
<1>1. ASSUME UNCHANGED <<pc, at, need, written>> PROVE NeedInv'
  BY <1>1, Zenon DEF NeedInv, LifeInv, BorrowInv, Busy, Idle, MemTypes, ClientTypes
<1>2. ASSUME NEW h \in Handles, OpenLocked(h) PROVE NeedInv'
  BY <1>2, Zenon
     DEF OpenLocked, try_lock, NeedInv, Idle, LifeInv, BorrowInv, Busy, MemTypes,
         ClientTypes, clientVars
<1>3. ASSUME NEW h \in Handles, SwapNone(h) PROVE NeedInv'
  <2>1. IsFlush(h) /\ Answer(h, "ok") /\ UNCHANGED <<at, need, written>>
    BY <1>3, Zenon DEF SwapNone, SwapMem, Answer, LifeInv, RestInv, memVars
  <2> QED
    BY <2>1, AnswerReaches, Zenon DEF NeedInv
<1>4. ASSUME NEW h \in Handles, SwapFails(h) PROVE NeedInv'
  <2>1. IsFlush(h) /\ Answer(h, "err") /\ UNCHANGED <<at, need, written>>
    BY <1>4, Zenon DEF SwapFails, SwapMem, Answer, LifeInv, RestInv, memVars
  <2> QED
    BY <2>1, AnswerReaches, Zenon DEF NeedInv
<1>5. ASSUME NEW h \in Handles, minor_compaction(h) PROVE NeedInv'
  <2>1. IsFlush(h) /\ Answer(h, "ok") /\ UNCHANGED <<at, need, written>>
    BY <1>5, Zenon DEF minor_compaction, SwapMem, Answer, LifeInv, RestInv, memVars
  <2> QED
    BY <2>1, AnswerReaches, Zenon DEF NeedInv
<1>6. ASSUME NEW h \in Handles, MinorFails(h) PROVE NeedInv'
  <2>1. IsFlush(h) /\ Answer(h, "err") /\ UNCHANGED <<at, need, written>>
    BY <1>6, Zenon DEF MinorFails, SwapMem, Answer, LifeInv, RestInv, memVars
  <2> QED
    BY <2>1, AnswerReaches, Zenon DEF NeedInv
<1>7. ASSUME NEW c \in Clients, SetSend(c) PROVE NeedInv'
  <2>1. UNCHANGED written /\ pc'[c] = "idle"
    BY <1>7, Zenon DEF SetSend, Goto, memVars, ClientTypes
  <2>2. \A d \in Clients \ {c} : pc'[d] = pc[d] /\ at'[d] = at[d] /\ need'[d] = need[d]
    BY <1>7, Zenon DEF SetSend, Goto, ClientTypes
  <2>3. pc'[c] \notin {"sending", "awaiting"}
    BY <2>1
  <2> QED
    BY <2>1, <2>2, <2>3, NotWaiting, Zenon
<1>8. ASSUME NEW c \in Clients, TxReady(c) PROVE NeedInv'
  <2>1. UNCHANGED written /\ pc'[c] = "idle"
    BY <1>8, Zenon DEF TxReady, Goto, memVars, ClientTypes
  <2>2. \A d \in Clients \ {c} : pc'[d] = pc[d] /\ at'[d] = at[d] /\ need'[d] = need[d]
    BY <1>8, Zenon DEF TxReady, Goto, ClientTypes
  <2>3. pc'[c] \notin {"sending", "awaiting"}
    BY <2>1
  <2> QED
    BY <2>1, <2>2, <2>3, NotWaiting, Zenon
<1>9. ASSUME NEW c \in Clients, TxEnd(c) PROVE NeedInv'
  <2>1. UNCHANGED written /\ pc'[c] = "idle"
    BY <1>9, Zenon DEF TxEnd, memVars, ClientTypes
  <2>2. \A d \in Clients \ {c} : pc'[d] = pc[d] /\ at'[d] = at[d] /\ need'[d] = need[d]
    BY <1>9, Zenon DEF TxEnd, ClientTypes
  <2>3. pc'[c] \notin {"sending", "awaiting"}
    BY <2>1
  <2> QED
    BY <2>1, <2>2, <2>3, NotWaiting, Zenon
<1>10. ASSUME NEW c \in Clients, FlushSend(c) PROVE NeedInv'
  BY <1>10 DEF FlushSend, Goto, NeedInv, Idle, memVars
<1>11. ASSUME NEW c \in Clients, FlushReturn(c) PROVE NeedInv'
  BY <1>11 DEF FlushReturn, Goto, NeedInv, Idle, memVars
<1>12. ASSUME NEW c \in Clients, Cancel(c) PROVE NeedInv'
  BY <1>12, Zenon DEF Cancel, Goto, NeedInv, Idle, MemTypes, ClientTypes, memVars
<1>13. ASSUME NEW c \in Clients, NEW n \in 1..2, TxCommit(c, n) PROVE NeedInv'
  BY <1>13 DEF TxCommit, Insert, NeedInv, Idle, MemTypes, ClientTypes
<1>14. ASSUME NEW c \in Clients, NEW n \in 1..2, TxFails(c, n) PROVE NeedInv'
  BY <1>14 DEF TxFails, Insert, NeedInv, Idle, MemTypes, ClientTypes
<1>15. ASSUME NEW c \in Clients, NEW h \in Handles, Set(c, h) PROVE NeedInv'
  BY <1>15, SMTT(30) DEF Set, Insert, Goto, NeedInv, Idle, MemTypes, ClientTypes
<1>16. ASSUME NEW c \in Clients, NEW h \in Handles, TxNew(c, h) PROVE NeedInv'
  <2>1. UNCHANGED written /\ pc'[c] = "txnew"
    BY <1>16, Zenon DEF TxNew, Goto, memVars, ClientTypes
  <2>2. \A d \in Clients \ {c} : pc'[d] = pc[d] /\ at'[d] = at[d] /\ need'[d] = need[d]
    BY <1>16, Zenon DEF TxNew, Goto, ClientTypes
  <2>3. pc'[c] \notin {"sending", "awaiting"}
    BY <2>1
  <2> QED
    BY <2>1, <2>2, <2>3, NotWaiting, Zenon
<1>17. ASSUME NEW c \in Clients, NEW h \in Handles, FlushCall(c, h) PROVE NeedInv'
  BY <1>17 DEF FlushCall, Goto, NeedInv, Idle, MemTypes, ClientTypes, memVars
<1>18. ASSUME NEW h \in Handles, OpenStart(h) PROVE NeedInv'
  BY <1>18, <1>1, Zenon DEF OpenStart, memVars, clientVars
<1>19. ASSUME NEW h \in Handles, OpenBusy(h) PROVE NeedInv'
  BY <1>19, <1>1, Zenon DEF OpenBusy, memVars, clientVars
<1>20. ASSUME NEW h \in Handles, Drop(h) PROVE NeedInv'
  BY <1>20, <1>1, Zenon DEF Drop, memVars, clientVars
<1>21. ASSUME NEW h \in Handles, Recv(h) PROVE NeedInv'
  BY <1>21, <1>1, Zenon DEF Recv, memVars, clientVars
<1>22. ASSUME NEW h \in Handles, RecvNone(h) PROVE NeedInv'
  BY <1>22, <1>1, Zenon DEF RecvNone, memVars, clientVars
<1>23. ASSUME NEW h \in Handles, RunSeek(h) PROVE NeedInv'
  BY <1>23, <1>1, Zenon DEF RunSeek, memVars, clientVars
<1>24. ASSUME NEW h \in Handles, swap(h) PROVE NeedInv'
  BY <1>24, <1>1, Zenon DEF swap, SwapMem, clientVars
<1>25. ASSUME NEW c \in Clients, NEW h \in Handles, GetSeek(c, h) PROVE NeedInv'
  BY <1>25, <1>1, Zenon DEF GetSeek, memVars, clientVars
<1>26. CASE UNCHANGED vars
  BY <1>1, <1>26, Zenon DEF vars, memVars, clientVars
<1> QED
  BY <1>2, <1>3, <1>4, <1>5, <1>6, <1>7, <1>8, <1>9, <1>10, <1>11, <1>12, <1>13, <1>14,
      <1>15, <1>16, <1>17, <1>18, <1>19, <1>20, <1>21, <1>22, <1>23, <1>24, <1>25, <1>26
  DEF Next, Background, Fails, Opening, Client, Calls

(* Without I/O errors every item is in _mem, on its way, or in a Version. *)
LEMMA BalanceStep == TypeOK /\ LifeInv /\ BalanceInv /\ [Next]_vars => BalanceInv'
<1> SUFFICES ASSUME TypeOK, LifeInv, BalanceInv, [Next]_vars PROVE BalanceInv'
  OBVIOUS
<1> USE DEF TypeOK
<1>1. ASSUME UNCHANGED <<written, mem, moving, flushed, failed>> PROVE BalanceInv'
  BY <1>1, Zenon
     DEF BalanceInv, Moving, LifeInv, RestInv, MemTypes, TaskTypes, ClientTypes,
         NothingToSwap
<1>2. ASSUME NEW h \in Handles, OpenLocked(h) PROVE BalanceInv'
  BY <1>2, StorageConstants
     DEF OpenLocked, try_lock, BalanceInv, Moving, NothingToSwap, LifeInv, RestInv, MemTypes,
         TaskTypes, ClientTypes
<1>3. ASSUME NEW h \in Handles, swap(h) PROVE BalanceInv'
  BY <1>3, StorageConstants
     DEF swap, SwapMem, BalanceInv, Moving, NothingToSwap, LifeInv, RestInv, MemTypes,
         TaskTypes, ClientTypes
<1>4. ASSUME NEW h \in Handles, SwapFails(h) PROVE BalanceInv'
  BY <1>4, Zenon DEF SwapFails, SwapMem, Fail, BalanceInv, Moving, NothingToSwap
<1>5. ASSUME NEW h \in Handles, minor_compaction(h) PROVE BalanceInv'
  BY <1>5
     DEF minor_compaction, BalanceInv, Moving, NothingToSwap, MemTypes, TaskTypes,
         ClientTypes, history
<1>6. ASSUME NEW h \in Handles, MinorFails(h) PROVE BalanceInv'
  BY <1>6, Zenon DEF MinorFails, Fail, BalanceInv, Moving, NothingToSwap, memVars
<1>7. ASSUME NEW c \in Clients, NEW n \in 1..2, TxCommit(c, n) PROVE BalanceInv'
  <2>1. UNCHANGED <<moving, flushed, failed>> /\ Insert(own[c], n)
    BY <1>7, Zenon DEF TxCommit, Insert, taskVars, history
  <2>2. \A k \in Handles : k # own[c] => mem'[k] = mem[k] /\ written'[k] = written[k]
    BY <2>1, Zenon DEF Insert, MemTypes
  <2>3. own[c] \in Handles => mem'[own[c]] = mem[own[c]] + n /\ written'[own[c]] = written[own[c]] + n
    BY <2>1, Zenon DEF Insert, MemTypes
  <2> QED
    BY <2>1, <2>2, <2>3, SMTT(30) DEF BalanceInv, Moving, MemTypes, TaskTypes
<1>8. ASSUME NEW c \in Clients, NEW n \in 1..2, TxFails(c, n) PROVE BalanceInv'
  BY <1>8, Zenon DEF TxFails, Insert, Fail, BalanceInv, Moving, NothingToSwap, taskVars
<1>9. ASSUME NEW c \in Clients, NEW h \in Handles, Set(c, h) PROVE BalanceInv'
  <2>1. UNCHANGED <<moving, flushed, failed>> /\ Insert(h, 1)
    BY <1>9, Zenon DEF Set, Insert, taskVars, history
  <2>2. \A k \in Handles : k # h => mem'[k] = mem[k] /\ written'[k] = written[k]
    BY <2>1, Zenon DEF Insert, MemTypes
  <2>3. h \in Handles => mem'[h] = mem[h] + 1 /\ written'[h] = written[h] + 1
    BY <2>1, Zenon DEF Insert, MemTypes
  <2> QED
    BY <2>1, <2>2, <2>3 DEF BalanceInv, Moving, MemTypes, TaskTypes
<1>10. ASSUME NEW h \in Handles, OpenStart(h) PROVE BalanceInv'
  BY <1>10, <1>1, Zenon DEF OpenStart, memVars, taskVars, history
<1>11. ASSUME NEW h \in Handles, OpenBusy(h) PROVE BalanceInv'
  BY <1>11, <1>1, Zenon DEF OpenBusy, memVars, taskVars, history
<1>12. ASSUME NEW h \in Handles, Drop(h) PROVE BalanceInv'
  BY <1>12, <1>1, Zenon DEF Drop, memVars
<1>13. ASSUME NEW h \in Handles, Recv(h) PROVE BalanceInv'
  BY <1>13, <1>1, Zenon DEF Recv, memVars, history
<1>14. ASSUME NEW h \in Handles, RecvNone(h) PROVE BalanceInv'
  BY <1>14, <1>1, Zenon DEF RecvNone, memVars, history
<1>15. ASSUME NEW h \in Handles, RunSeek(h) PROVE BalanceInv'
  BY <1>15, <1>1, Zenon DEF RunSeek, memVars, history
<1>16. ASSUME NEW h \in Handles, SwapNone(h) PROVE BalanceInv'
  BY <1>16, <1>1, Zenon DEF SwapNone, memVars, history
<1>17. ASSUME NEW c \in Clients, SetSend(c) PROVE BalanceInv'
  BY <1>17, <1>1, Zenon DEF SetSend, memVars
<1>18. ASSUME NEW c \in Clients, TxReady(c) PROVE BalanceInv'
  BY <1>18, <1>1, Zenon DEF TxReady, memVars, taskVars, history
<1>19. ASSUME NEW c \in Clients, TxEnd(c) PROVE BalanceInv'
  BY <1>19, <1>1, Zenon DEF TxEnd, memVars
<1>20. ASSUME NEW c \in Clients, FlushSend(c) PROVE BalanceInv'
  BY <1>20, <1>1, Zenon DEF FlushSend, memVars, history
<1>21. ASSUME NEW c \in Clients, FlushReturn(c) PROVE BalanceInv'
  BY <1>21, <1>1, Zenon DEF FlushReturn, memVars, taskVars, history
<1>22. ASSUME NEW c \in Clients, Cancel(c) PROVE BalanceInv'
  BY <1>22, <1>1, Zenon DEF Cancel, memVars, history
<1>23. ASSUME NEW c \in Clients, NEW h \in Handles, GetSeek(c, h) PROVE BalanceInv'
  BY <1>23, <1>1, Zenon DEF GetSeek, memVars
<1>24. ASSUME NEW c \in Clients, NEW h \in Handles, TxNew(c, h) PROVE BalanceInv'
  BY <1>24, <1>1, Zenon DEF TxNew, memVars, taskVars, history
<1>25. ASSUME NEW c \in Clients, NEW h \in Handles, FlushCall(c, h) PROVE BalanceInv'
  BY <1>25, <1>1, Zenon DEF FlushCall, memVars, taskVars, history
<1>26. CASE UNCHANGED vars
  BY <1>1, <1>26, Zenon DEF vars, memVars, taskVars, history
<1> QED
  BY <1>2, <1>3, <1>4, <1>5, <1>6, <1>7, <1>8, <1>9, <1>10, <1>11, <1>12, <1>13, <1>14,
      <1>15, <1>16, <1>17, <1>18, <1>19, <1>20, <1>21, <1>22, <1>23, <1>24, <1>25, <1>26
  DEF Next, Background, Fails, Opening, Client, Calls

(* A flush that took _mem carries all that its caller waits for. *)
LEMMA DurableStep == TypeOK /\ LifeInv /\ AskInv /\ NeedInv /\ BalanceInv /\ DurableInv /\ [Next]_vars => DurableInv'
<1> SUFFICES ASSUME TypeOK, LifeInv, AskInv, NeedInv, BalanceInv, DurableInv, [Next]_vars PROVE DurableInv'
  OBVIOUS
<1> USE DEF TypeOK
<1>1. ASSUME UNCHANGED <<task, moving, flushed, need, pc, at, failed>> PROVE DurableInv'
  BY <1>1, Zenon
     DEF DurableInv, LifeInv, BorrowInv, RestInv, AskInv, Busy, Idle, MemTypes, TaskTypes,
         ClientTypes
<1>2. ASSUME NEW h \in Handles, OpenLocked(h) PROVE DurableInv'
  <2>1. status[h] = "opening" /\ UNCHANGED <<moving, need, pc, at, failed>>
    BY <1>2, Zenon DEF OpenLocked, clientVars
  <2>2. \A k \in Handles : k # h => task'[k] = task[k] /\ flushed'[k] = flushed[k]
    BY <1>2, Zenon DEF OpenLocked, TaskTypes, MemTypes
  <2>3. moving[h] = None
    BY <2>1, Zenon DEF LifeInv, RestInv
  <2>4. "ok" \in Busy /\ "opening" # "open"
    BY DEF Busy
  <2>5. \A c \in Clients : pc[c] = "ok" => at[c] \in Handles /\ at[c] # h
    BY <2>1, <2>4, Zenon DEF LifeInv, BorrowInv, ClientTypes
  <2> QED
    BY <2>1, <2>2, <2>3, <2>5, Zenon DEF DurableInv
<1>3. ASSUME NEW h \in Handles, Recv(h) PROVE DurableInv'
  <2>1. moving[h] = None
    BY <1>3, Zenon DEF Recv, LifeInv, RestInv, IsFlush
  <2>2. \A k \in Handles : k # h => task'[k] = task[k]
    BY <1>3, Zenon DEF Recv, TaskTypes
  <2>3. UNCHANGED <<moving, flushed, need, pc, at, failed>>
    BY <1>3, Zenon DEF Recv, memVars, clientVars, history
  <2> QED
    BY <2>1, <2>2, <2>3, Zenon DEF DurableInv
<1>4. ASSUME NEW h \in Handles, RecvNone(h) PROVE DurableInv'
  BY <1>4, TaskFacts, Zenon
     DEF RecvNone, DurableInv, Idle, MemTypes, TaskTypes, ClientTypes, memVars, clientVars,
         history
<1>5. ASSUME NEW h \in Handles, RunSeek(h) PROVE DurableInv'
  <2>1. \A k \in Handles, c \in Clients : task'[k] = Flush(c) => task[k] = Flush(c)
    BY <1>5, TaskFacts, Zenon DEF RunSeek, TaskTypes
  <2>2. UNCHANGED <<moving, flushed, need, pc, at, failed>>
    BY <1>5, Zenon DEF RunSeek, memVars, clientVars, history
  <2> QED
    BY <2>1, <2>2, Zenon DEF DurableInv
<1>6. ASSUME NEW h \in Handles, SwapNone(h) PROVE DurableInv'
  <2>1. SUFFICES ASSUME ~failed' PROVE DurableInv'
    BY Zenon DEF DurableInv
  <2>2. IsFlush(h) /\ Answer(h, "ok") /\ UNCHANGED <<flushed, moving, at, need, failed>>
        /\ moving[h] = None /\ mem[h] = 0
    BY <1>6, Zenon DEF SwapNone, Answer, NothingToSwap, memVars, history
  <2>3. ~failed
    BY <2>1, <2>2, Zenon
  <2>4. written[h] = flushed[h]
    BY <2>2, <2>3 DEF BalanceInv, Moving, MemTypes
  <2>5. \A k \in Handles, c \in Clients : task'[k] = Flush(c) => task[k] = Flush(c)
    BY <2>2, TaskFacts, Zenon DEF Answer, TaskTypes
  <2>6. ASSUME NEW c \in Clients, pc'[c] = "ok" PROVE need'[c] <= flushed'[at'[c]]
    <3>1. CASE pc[c] = "ok"
      BY <2>2, <2>3, <3>1, Zenon DEF DurableInv
    <3>2. CASE pc[c] # "ok"
      <4>1. pc[c] = "awaiting" /\ at[c] = h
        BY <2>2, <2>6, <3>2, AnswerReaches, Zenon
      <4>2. need[c] <= written[h]
        BY <4>1, Zenon DEF NeedInv
      <4> QED
        BY <2>2, <2>4, <4>1, <4>2, Zenon
    <3> QED
      BY <3>1, <3>2
  <2> QED
    BY <2>2, <2>3, <2>5, <2>6, Zenon DEF DurableInv
<1>7. ASSUME NEW h \in Handles, swap(h) PROVE DurableInv'
  <2>1. SUFFICES ASSUME ~failed' PROVE DurableInv'
    BY Zenon DEF DurableInv
  <2>2. UNCHANGED <<flushed, task, pc, at, need, failed>> /\ moving[h] = None
    BY <1>7, Zenon DEF swap, SwapMem, clientVars
  <2>3. \A k \in Handles : moving'[k] = IF k = h THEN mem[h] ELSE moving[k]
    BY <1>7, Zenon DEF swap, TaskTypes
  <2>4. written[h] = mem[h] + flushed[h]
    BY <2>1, <2>2 DEF BalanceInv, Moving, MemTypes
  <2>5. ASSUME NEW c \in Clients, task[h] = Flush(c) PROVE need[c] <= flushed[h] + mem[h]
    BY <2>4, <2>5 DEF AskInv, NeedInv, MemTypes
  <2> QED
    BY <2>1, <2>2, <2>3, <2>5, Zenon DEF DurableInv
<1>8. ASSUME NEW h \in Handles, SwapFails(h) PROVE DurableInv'
  BY <1>8, Zenon DEF SwapFails, Answer, SwapMem, Fail, DurableInv, Idle
<1>9. ASSUME NEW h \in Handles, minor_compaction(h) PROVE DurableInv'
  <2>1. SUFFICES ASSUME ~failed' PROVE DurableInv'
    BY Zenon DEF DurableInv
  <2>2. IsFlush(h) /\ Answer(h, "ok") /\ UNCHANGED <<at, need, failed>> /\ moving[h] \in Nat
    BY <1>9, Zenon DEF minor_compaction, Answer, LifeInv, RestInv, history, TaskTypes
  <2>3. ~failed
    BY <2>1, <2>2, Zenon
  <2>4. \A k \in Handles : flushed'[k] = IF k = h THEN flushed[h] + moving[h] ELSE flushed[k]
    BY <1>9, Zenon DEF minor_compaction, MemTypes
  <2>5. \A k \in Handles : moving'[k] = IF k = h THEN None ELSE moving[k]
    BY <1>9, Zenon DEF minor_compaction, TaskTypes
  <2>6. \A k \in Handles : task'[k] = IF k = h THEN None ELSE task[k]
    BY <2>2, Zenon DEF Answer, TaskTypes
  <2>7. ASSUME NEW k \in Handles, NEW c \in Clients, task'[k] = Flush(c), moving'[k] # None
        PROVE  need'[c] <= flushed'[k] + moving'[k]
    BY <2>2, <2>3, <2>4, <2>5, <2>6, <2>7, Zenon DEF DurableInv
  <2>8. ASSUME NEW c \in Clients, pc'[c] = "ok" PROVE need'[c] <= flushed'[at'[c]]
    <3>1. CASE task[h] = Flush(c)
      <4>1. at[c] = h /\ need[c] <= flushed[h] + moving[h]
        BY <1>9, <2>3, <3>1, Zenon DEF minor_compaction, AskInv, DurableInv
      <4> QED
        BY <2>2, <2>4, <4>1, Zenon
    <3>2. CASE task[h] # Flush(c)
      <4>1. pc[c] = "ok"
        BY <2>2, <2>8, <3>2, AnswerReaches, Zenon
      <4>2. at[c] \in Handles /\ need[c] <= flushed[at[c]]
        BY <2>3, <4>1, Zenon DEF LifeInv, BorrowInv, Busy, DurableInv, ClientTypes
      <4> QED
        BY <2>2, <2>4, <4>2 DEF MemTypes, ClientTypes
    <3> QED
      BY <3>1, <3>2, Zenon
  <2> QED
    BY <2>7, <2>8, Zenon DEF DurableInv
<1>10. ASSUME NEW h \in Handles, MinorFails(h) PROVE DurableInv'
  BY <1>10, Zenon DEF MinorFails, Answer, Fail, DurableInv, Idle, memVars
<1>11. ASSUME NEW c \in Clients, SetSend(c) PROVE DurableInv'
  BY <1>11 DEF SetSend, Goto, DurableInv, Idle, memVars
<1>12. ASSUME NEW c \in Clients, TxReady(c) PROVE DurableInv'
  <2>1. UNCHANGED <<moving, flushed, failed, task>> /\ pc[c] # "awaiting"
    BY <1>12, Zenon DEF TxReady, Goto, memVars, taskVars, history
  <2>2. pc'[c] # "ok" /\ \A d \in Clients \ {c} : pc'[d] = pc[d] /\ at'[d] = at[d] /\ need'[d] = need[d]
    BY <1>12, Zenon DEF TxReady, Goto, Goto, ClientTypes
  <2>3. \A k \in Handles, d \in Clients : task'[k] = Flush(d) => task[k] = Flush(d) /\ d # c
    BY <2>1, Zenon DEF AskInv
  <2> QED
    BY <2>1, <2>2, <2>3, ClientMoves, Zenon
<1>13. ASSUME NEW c \in Clients, TxEnd(c) PROVE DurableInv'
  <2>1. UNCHANGED <<moving, flushed, failed, task>> /\ pc[c] # "awaiting"
    BY <1>13 DEF TxEnd, memVars, taskVars, history
  <2>2. pc'[c] \in {"idle"} /\ \A d \in Clients \ {c} : pc'[d] = pc[d] /\ at'[d] = at[d] /\ need'[d] = need[d]
    BY <1>13, Zenon DEF TxEnd, ClientTypes
  <2>3. pc'[c] # "ok"
    BY <2>2
  <2>4. \A k \in Handles, d \in Clients : task'[k] = Flush(d) => task[k] = Flush(d) /\ d # c
    BY <2>1, Zenon DEF AskInv
  <2> QED
    BY <2>1, <2>2, <2>3, <2>4, ClientMoves, Zenon
<1>14. ASSUME NEW c \in Clients, FlushSend(c) PROVE DurableInv'
  <2>1. UNCHANGED <<moving, flushed, failed, task>> /\ pc[c] # "awaiting"
    BY <1>14, Zenon DEF FlushSend, Goto, memVars, taskVars, history
  <2>2. pc'[c] # "ok" /\ \A d \in Clients \ {c} : pc'[d] = pc[d] /\ at'[d] = at[d] /\ need'[d] = need[d]
    BY <1>14, Zenon DEF FlushSend, Goto, Goto, ClientTypes
  <2>3. \A k \in Handles, d \in Clients : task'[k] = Flush(d) => task[k] = Flush(d) /\ d # c
    BY <2>1, Zenon DEF AskInv
  <2> QED
    BY <2>1, <2>2, <2>3, ClientMoves, Zenon
<1>15. ASSUME NEW c \in Clients, FlushReturn(c) PROVE DurableInv'
  <2>1. UNCHANGED <<moving, flushed, failed, task>> /\ pc[c] # "awaiting"
    BY <1>15, Zenon DEF FlushReturn, Goto, memVars, taskVars, history
  <2>2. pc'[c] # "ok" /\ \A d \in Clients \ {c} : pc'[d] = pc[d] /\ at'[d] = at[d] /\ need'[d] = need[d]
    BY <1>15, Zenon DEF FlushReturn, Goto, Goto, ClientTypes
  <2>3. \A k \in Handles, d \in Clients : task'[k] = Flush(d) => task[k] = Flush(d) /\ d # c
    BY <2>1, Zenon DEF AskInv
  <2> QED
    BY <2>1, <2>2, <2>3, ClientMoves, Zenon
<1>16. ASSUME NEW c \in Clients, Cancel(c) PROVE DurableInv'
  <2>1. UNCHANGED <<moving, flushed, failed>>
    BY <1>16, Zenon DEF Cancel, memVars, history
  <2>2. pc'[c] # "ok" /\ \A d \in Clients \ {c} : pc'[d] = pc[d] /\ at'[d] = at[d] /\ need'[d] = need[d]
    BY <1>16, Zenon DEF Cancel, Goto, ClientTypes
  <2>3. \A k \in Handles, d \in Clients : task'[k] = Flush(d) => task[k] = Flush(d) /\ d # c
    BY <1>16, ForgetKeeps, TaskFacts, StorageConstants DEF Forget
  <2> QED
    BY <2>1, <2>2, <2>3, ClientMoves, Zenon
<1>17. ASSUME NEW c \in Clients, NEW n \in 1..2, TxCommit(c, n) PROVE DurableInv'
  <2>1. UNCHANGED <<moving, flushed, failed, task>> /\ pc[c] # "awaiting"
    BY <1>17 DEF TxCommit, Insert, Idle, memVars, taskVars, history
  <2>2. pc'[c] \in {"commit", "commit_over"} /\ \A d \in Clients \ {c} : pc'[d] = pc[d] /\ at'[d] = at[d] /\ need'[d] = need[d]
    BY <1>17, Zenon DEF TxCommit, ClientTypes
  <2>3. pc'[c] # "ok"
    BY <2>2
  <2>4. \A k \in Handles, d \in Clients : task'[k] = Flush(d) => task[k] = Flush(d) /\ d # c
    BY <2>1, Zenon DEF AskInv
  <2> QED
    BY <2>1, <2>2, <2>3, <2>4, ClientMoves, Zenon
<1>18. ASSUME NEW c \in Clients, NEW n \in 1..2, TxFails(c, n) PROVE DurableInv'
  BY <1>18, Zenon DEF TxFails, Insert, Fail, DurableInv, Idle, taskVars
<1>19. ASSUME NEW c \in Clients, NEW h \in Handles, Set(c, h) PROVE DurableInv'
  <2>1. UNCHANGED <<moving, flushed, failed, task>> /\ pc[c] # "awaiting"
    BY <1>19, Zenon DEF Set, Insert, Idle, memVars, taskVars, history
  <2>2. pc'[c] # "ok" /\ \A d \in Clients \ {c} : pc'[d] = pc[d] /\ at'[d] = at[d] /\ need'[d] = need[d]
    BY <1>19, Zenon DEF Set, Insert, Idle, Goto, ClientTypes
  <2>3. \A k \in Handles, d \in Clients : task'[k] = Flush(d) => task[k] = Flush(d) /\ d # c
    BY <2>1, Zenon DEF AskInv
  <2> QED
    BY <2>1, <2>2, <2>3, ClientMoves, Zenon
<1>20. ASSUME NEW c \in Clients, NEW h \in Handles, TxNew(c, h) PROVE DurableInv'
  <2>1. UNCHANGED <<moving, flushed, failed, task>> /\ pc[c] # "awaiting"
    BY <1>20, Zenon DEF TxNew, Idle, memVars, taskVars, history
  <2>2. pc'[c] # "ok" /\ \A d \in Clients \ {c} : pc'[d] = pc[d] /\ at'[d] = at[d] /\ need'[d] = need[d]
    BY <1>20, Zenon DEF TxNew, Idle, Goto, ClientTypes
  <2>3. \A k \in Handles, d \in Clients : task'[k] = Flush(d) => task[k] = Flush(d) /\ d # c
    BY <2>1, Zenon DEF AskInv
  <2> QED
    BY <2>1, <2>2, <2>3, ClientMoves, Zenon
<1>21. ASSUME NEW c \in Clients, NEW h \in Handles, FlushCall(c, h) PROVE DurableInv'
  <2>1. UNCHANGED <<moving, flushed, failed, task>> /\ pc[c] # "awaiting"
    BY <1>21, Zenon DEF FlushCall, Idle, memVars, taskVars, history
  <2>2. pc'[c] # "ok" /\ \A d \in Clients \ {c} : pc'[d] = pc[d] /\ at'[d] = at[d] /\ need'[d] = need[d]
    BY <1>21, Zenon DEF FlushCall, Idle, Goto, ClientTypes
  <2>3. \A k \in Handles, d \in Clients : task'[k] = Flush(d) => task[k] = Flush(d) /\ d # c
    BY <2>1, Zenon DEF AskInv
  <2> QED
    BY <2>1, <2>2, <2>3, ClientMoves, Zenon
<1>22. ASSUME NEW h \in Handles, OpenStart(h) PROVE DurableInv'
  BY <1>22, <1>1, Zenon DEF OpenStart, memVars, taskVars, clientVars, history
<1>23. ASSUME NEW h \in Handles, OpenBusy(h) PROVE DurableInv'
  BY <1>23, <1>1, Zenon DEF OpenBusy, memVars, taskVars, clientVars, history
<1>24. ASSUME NEW h \in Handles, Drop(h) PROVE DurableInv'
  BY <1>24, <1>1, Zenon DEF Drop, memVars, clientVars
<1>25. ASSUME NEW c \in Clients, NEW h \in Handles, GetSeek(c, h) PROVE DurableInv'
  BY <1>25, <1>1, Zenon DEF GetSeek, memVars, clientVars
<1>26. CASE UNCHANGED vars
  BY <1>1, <1>26, Zenon DEF vars, memVars, taskVars, clientVars, history
<1> QED
  BY Zenon, <1>2, <1>3, <1>4, <1>5, <1>6, <1>7, <1>8, <1>9, <1>10, <1>11, <1>12, <1>13, <1>14,
      <1>15, <1>16, <1>17, <1>18, <1>19, <1>20, <1>21, <1>22, <1>23, <1>24, <1>25, <1>26
  DEF Next, Background, Fails, Opening, Client, Calls

(* Every new WAL of the store that holds the lock is newer than all others. *)
LEMMA WalStep == TypeOK /\ LifeInv /\ WalInv /\ [Next]_vars => WalInv'
<1> SUFFICES ASSUME TypeOK, LifeInv, WalInv, [Next]_vars PROVE WalInv'
  OBVIOUS
<1> USE DEF TypeOK
<1>1. ASSUME UNCHANGED <<status, lock, buf, wals, wal, late, setback>> PROVE WalInv'
  BY <1>1, Zenon DEF WalInv, LifeInv, LockInv, RestInv, HandleTypes, HistoryTypes, IsFlush
<1>2. ASSUME NEW h \in Handles, OpenStart(h) PROVE WalInv'
  BY <1>2 DEF OpenStart, WalInv, IsFlush, history
<1>3. ASSUME NEW h \in Handles, OpenLocked(h) PROVE WalInv'
  <2>1. SUFFICES ASSUME ~late', ~setback', NEW k \in Handles, status'[k] = "open"
        PROVE  wal'[k] \in wals' /\ wal'[k] < buf'[k] /\ \A g \in wals' : g <= wal'[k]
    BY Zenon DEF WalInv
  <2>2. k = h
    BY <1>3, <2>1, StorageConstants, Zenon DEF OpenLocked, try_lock, LifeInv, LockInv, HandleTypes
  <2>3. wal'[h] = newest_wal(h) /\ wals' = wals \cup {newest_wal(h)} /\ buf'[h] = buf[h] + 1
    BY <1>3, Zenon DEF OpenLocked, HandleTypes
  <2>4. \A g \in wals : g < buf[h]
    <3>1. setback' = (setback \/ \E g \in wals : buf[h] <= g)
      BY <1>3, Zenon DEF OpenLocked
    <3>2. \A g \in wals : ~(buf[h] <= g)
      BY <2>1, <3>1, Zenon
    <3> QED
      BY <3>2 DEF HandleTypes
  <2>5. newest_wal(h) <= buf[h]
    BY <2>4, NewestIsNat DEF newest_wal, HandleTypes
  <2> QED
    BY <2>2, <2>3, <2>5, NewestIsNat DEF HandleTypes
<1>4. ASSUME NEW h \in Handles, OpenBusy(h) PROVE WalInv'
  BY <1>4 DEF OpenBusy, WalInv, IsFlush, history
<1>5. ASSUME NEW h \in Handles, Drop(h) PROVE WalInv'
  BY <1>5 DEF Drop, WalInv, IsFlush
<1>6. ASSUME NEW h \in Handles, RecvNone(h) PROVE WalInv'
  BY <1>6, Zenon DEF RecvNone, WalInv, IsFlush, HandleTypes, HistoryTypes, history
<1>7. ASSUME NEW h \in Handles, swap(h) PROVE WalInv'
  <2>1. SUFFICES ASSUME ~late', ~setback', NEW k \in Handles, status'[k] = "open"
        PROVE  wal'[k] \in wals' /\ wal'[k] < buf'[k] /\ \A g \in wals' : g <= wal'[k]
    BY Zenon DEF WalInv
  <2>2. status[k] = "open" /\ lock = k /\ ~late /\ ~setback
    BY <1>7, <2>1, Zenon DEF swap, SwapMem, LifeInv, LockInv, HistoryTypes
  <2>3. status[h] \notin {"closed", "opening"}
    BY <1>7, Zenon DEF swap, IsFlush, LifeInv, RestInv
  <2>4. status[h] # "dropped"
    <3>1. late' = (late \/ (status[h] = "dropped" /\ lock # None))
      BY <1>7, Zenon DEF swap, SwapMem
    <3>2. ~(status[h] = "dropped" /\ lock # None)
      BY <2>1, <3>1, Zenon
    <3> QED
      BY <2>2, <3>2, StorageConstants, Zenon
  <2>5. k = h
    BY <2>2, <2>3, <2>4, Zenon DEF LifeInv, LockInv, HandleTypes
  <2>6. wal'[h] = buf[h] /\ wals' = wals \cup {buf[h]} /\ buf'[h] = buf[h] + 1
    BY <1>7, Zenon DEF swap, HandleTypes
  <2>7. wal[h] \in wals /\ wal[h] < buf[h] /\ \A g \in wals : g <= wal[h]
    BY <2>2, <2>5, Zenon DEF WalInv
  <2>8. buf[h] \in Nat /\ wal[h] \in Nat /\ \A g \in wals : g \in Nat
    <3>1. buf[h] \in Nat /\ \A g \in wals : g \in Nat
      BY Zenon DEF HandleTypes
    <3> QED
      BY <2>7, <3>1, Zenon
  <2>9. \A g \in wals : g <= buf[h]
    BY <2>7, <2>8
  <2> QED
    BY <2>5, <2>6, <2>8, <2>9
<1>8. ASSUME NEW h \in Handles, SwapFails(h) PROVE WalInv'
  <2>1. SUFFICES ASSUME ~late', ~setback' PROVE WalInv'
    BY Zenon DEF WalInv
  <2>2. UNCHANGED <<status, wals, wal>> /\ ~late /\ ~setback
    BY <1>8, <2>1, Zenon DEF SwapFails, SwapMem
  <2>3. \A k \in Handles : status[k] = "open" =>
          wal[k] \in wals /\ wal[k] < buf[k] /\ \A g \in wals : g <= wal[k]
    BY <2>2, Zenon DEF WalInv
  <2>4. \A k \in Handles : buf'[k] \in Nat /\ buf[k] <= buf'[k]
    BY <1>8 DEF SwapFails, HandleTypes
  <2> QED
    <3>1. ASSUME NEW k \in Handles, status'[k] = "open"
          PROVE  wal'[k] \in wals' /\ wal'[k] < buf'[k] /\ \A g \in wals' : g <= wal'[k]
      <4>1. wal[k] \in wals /\ wal[k] < buf[k] /\ \A g \in wals : g <= wal[k]
        BY <2>2, <2>3, <3>1, Zenon
      <4>2. wal[k] \in Nat /\ buf[k] \in Nat
        <5>1. buf[k] \in Nat /\ \A g \in wals : g \in Nat
          BY Zenon DEF HandleTypes
        <5> QED
          BY <4>1, <5>1, Zenon
      <4> QED
        BY <2>2, <2>4, <4>1, <4>2
    <3> QED
      BY <3>1, Zenon DEF WalInv
<1>9. ASSUME NEW c \in Clients, Client(c) PROVE WalInv'
  BY <1>9, <1>1, ClientQuiet, Zenon DEF handleVars
<1>10. ASSUME NEW c \in Clients, NEW h \in Handles, Calls(c, h) PROVE WalInv'
  BY <1>10, <1>1, ClientQuiet, Zenon DEF handleVars
<1>11. ASSUME NEW h \in Handles, Recv(h) PROVE WalInv'
  BY <1>11, <1>1, Zenon DEF Recv, handleVars, history
<1>12. ASSUME NEW h \in Handles, RunSeek(h) PROVE WalInv'
  BY <1>12, <1>1, Zenon DEF RunSeek, handleVars, history
<1>13. ASSUME NEW h \in Handles, SwapNone(h) PROVE WalInv'
  BY <1>13, <1>1, Zenon DEF SwapNone, handleVars, history
<1>14. ASSUME NEW h \in Handles, minor_compaction(h) PROVE WalInv'
  BY <1>14, <1>1, Zenon DEF minor_compaction, handleVars, history
<1>15. ASSUME NEW h \in Handles, MinorFails(h) PROVE WalInv'
  BY <1>15, <1>1, Zenon DEF MinorFails, handleVars
<1>16. CASE UNCHANGED vars
  BY <1>1, <1>16, Zenon DEF vars, handleVars, history
<1> QED
  BY Zenon, <1>2, <1>3, <1>4, <1>5, <1>6, <1>7, <1>8, <1>9, <1>10, <1>11, <1>12, <1>13, <1>14,
      <1>15, <1>16
  DEF Next, Background, Fails, Opening
-----------------------------------------------------------------------------
(***************************************************************************)
(* The trigger and the requests it makes: TrigInv and OverInv.             *)
(***************************************************************************)
(* The trigger never counts more than there is. *)
LEMMA TrigStep == TypeOK /\ TrigInv /\ [Next]_vars => TrigInv'
<1> SUFFICES ASSUME TypeOK, TrigInv, [Next]_vars PROVE TrigInv'
  OBVIOUS
<1> USE DEF TypeOK
<1>1. ASSUME UNCHANGED <<trig, mem>> PROVE TrigInv'
  BY <1>1, Zenon DEF TrigInv, MemTypes, ClientTypes
<1>2. ASSUME NEW h \in Handles, OpenLocked(h) PROVE TrigInv'
  <2>1. trig'[h] = 0 /\ \A k \in Handles : k # h => trig'[k] = trig[k] /\ mem'[k] = mem[k]
    BY <1>2, Zenon DEF OpenLocked, MemTypes
  <2>2. mem'[h] \in Nat
    BY <1>2, StorageConstants, Zenon DEF OpenLocked, MemTypes
  <2>3. trig'[h] <= mem'[h]
    BY <2>1, <2>2
  <2> QED
    BY <2>1, <2>3, Zenon DEF TrigInv
<1>3. ASSUME NEW h \in Handles, swap(h) PROVE TrigInv'
  <2>1. \A k \in Handles : IF k = h THEN trig'[k] = 0 /\ mem'[k] = 0 ELSE trig'[k] = trig[k] /\ mem'[k] = mem[k]
    BY <1>3, Zenon DEF swap, SwapMem, MemTypes
  <2>2. 0 <= 0
    OBVIOUS
  <2> QED
    BY <2>1, <2>2, Zenon DEF TrigInv
<1>4. ASSUME NEW h \in Handles, SwapFails(h) PROVE TrigInv'
  <2>1. \A k \in Handles : IF k = h THEN trig'[k] = 0 /\ mem'[k] = 0 ELSE trig'[k] = trig[k] /\ mem'[k] = mem[k]
    BY <1>4, Zenon DEF SwapFails, SwapMem, MemTypes
  <2>2. 0 <= 0
    OBVIOUS
  <2> QED
    BY <2>1, <2>2, Zenon DEF TrigInv
<1>5. ASSUME NEW c \in Clients, NEW n \in 1..2, TxCommit(c, n) PROVE TrigInv'
  BY <1>5 DEF TxCommit, Insert, TrigInv, MemTypes, ClientTypes
<1>6. ASSUME NEW c \in Clients, NEW n \in 1..2, TxFails(c, n) PROVE TrigInv'
  BY <1>6 DEF TxFails, Insert, TrigInv, MemTypes, ClientTypes
<1>7. ASSUME NEW c \in Clients, NEW h \in Handles, Set(c, h) PROVE TrigInv'
  BY <1>7 DEF Set, Insert, TrigInv, MemTypes, ClientTypes
<1>8. ASSUME NEW h \in Handles, OpenStart(h) PROVE TrigInv'
  BY <1>8, <1>1, Zenon DEF OpenStart, memVars
<1>9. ASSUME NEW h \in Handles, OpenBusy(h) PROVE TrigInv'
  BY <1>9, <1>1, Zenon DEF OpenBusy, memVars
<1>10. ASSUME NEW h \in Handles, Drop(h) PROVE TrigInv'
  BY <1>10, <1>1, Zenon DEF Drop, memVars
<1>11. ASSUME NEW h \in Handles, Recv(h) PROVE TrigInv'
  BY <1>11, <1>1, Zenon DEF Recv, memVars
<1>12. ASSUME NEW h \in Handles, RecvNone(h) PROVE TrigInv'
  BY <1>12, <1>1, Zenon DEF RecvNone, memVars
<1>13. ASSUME NEW h \in Handles, RunSeek(h) PROVE TrigInv'
  BY <1>13, <1>1, Zenon DEF RunSeek, memVars
<1>14. ASSUME NEW h \in Handles, SwapNone(h) PROVE TrigInv'
  BY <1>14, <1>1, Zenon DEF SwapNone, memVars
<1>15. ASSUME NEW h \in Handles, minor_compaction(h) PROVE TrigInv'
  BY <1>15, <1>1, Zenon DEF minor_compaction
<1>16. ASSUME NEW h \in Handles, MinorFails(h) PROVE TrigInv'
  BY <1>16, <1>1, Zenon DEF MinorFails, memVars
<1>17. ASSUME NEW c \in Clients, SetSend(c) PROVE TrigInv'
  BY <1>17, <1>1, Zenon DEF SetSend, memVars
<1>18. ASSUME NEW c \in Clients, TxReady(c) PROVE TrigInv'
  BY <1>18, <1>1, Zenon DEF TxReady, memVars
<1>19. ASSUME NEW c \in Clients, TxEnd(c) PROVE TrigInv'
  BY <1>19, <1>1, Zenon DEF TxEnd, memVars
<1>20. ASSUME NEW c \in Clients, FlushSend(c) PROVE TrigInv'
  BY <1>20, <1>1, Zenon DEF FlushSend, memVars
<1>21. ASSUME NEW c \in Clients, FlushReturn(c) PROVE TrigInv'
  BY <1>21, <1>1, Zenon DEF FlushReturn, memVars
<1>22. ASSUME NEW c \in Clients, Cancel(c) PROVE TrigInv'
  BY <1>22, <1>1, Zenon DEF Cancel, memVars
<1>23. ASSUME NEW c \in Clients, NEW h \in Handles, GetSeek(c, h) PROVE TrigInv'
  BY <1>23, <1>1, Zenon DEF GetSeek, memVars
<1>24. ASSUME NEW c \in Clients, NEW h \in Handles, TxNew(c, h) PROVE TrigInv'
  BY <1>24, <1>1, Zenon DEF TxNew, memVars
<1>25. ASSUME NEW c \in Clients, NEW h \in Handles, FlushCall(c, h) PROVE TrigInv'
  BY <1>25, <1>1, Zenon DEF FlushCall, memVars
<1>26. CASE UNCHANGED vars
  BY <1>1, <1>26, Zenon DEF vars, memVars
<1> QED
  BY <1>2, <1>3, <1>4, <1>5, <1>6, <1>7, <1>8, <1>9, <1>10, <1>11, <1>12, <1>13, <1>14,
      <1>15, <1>16, <1>17, <1>18, <1>19, <1>20, <1>21, <1>22, <1>23, <1>24, <1>25, <1>26
  DEF Next, Background, Fails, Opening, Client, Calls

(* Above the threshold a flush has been asked for, or is about to be. *)
LEMMA OverStep == TypeOK /\ LifeInv /\ AskInv /\ TrigInv /\ OverInv /\ [Next]_vars => OverInv'
<1> SUFFICES ASSUME TypeOK, LifeInv, AskInv, TrigInv, OverInv, [Next]_vars PROVE OverInv'
  OBVIOUS
<1> USE DEF TypeOK
<1>1. ASSUME UNCHANGED <<failed, missed, status, trig, chan, task, moving, pc, at, own>> PROVE OverInv'
  <2>1. \A h \in Handles : Asked(h) => Asked(h)'
    BY <1>1, Zenon DEF Asked, IsFlush
  <2>2. \A h \in Handles, c \in Clients : Owes(c, h) => Owes(c, h)'
    BY <1>1, Zenon DEF Owes
  <2> QED
    BY <1>1, <2>1, <2>2, Zenon DEF OverInv
<1>2. ASSUME NEW h \in Handles, OpenStart(h) PROVE OverInv'
  <2>1. UNCHANGED <<failed, missed, trig, pc, at, own, chan, task, moving>>
        /\ \A k \in Handles : status'[k] = IF k = h THEN "opening" ELSE status[k]
    BY <1>2, Zenon DEF OpenStart, HandleTypes, memVars, taskVars, clientVars, history
  <2> QED
    BY <2>1, Zenon DEF OverInv, Owes, Asked, IsFlush
<1>3. ASSUME NEW h \in Handles, OpenLocked(h) PROVE OverInv'
  <2>1. UNCHANGED <<failed, chan, moving, pc, at, own>>
    BY <1>3, Zenon DEF OpenLocked, clientVars
  <2>2. \A k \in Handles : k # h => status'[k] = status[k] /\ task'[k] = task[k]
    BY <1>3, Zenon DEF OpenLocked, HandleTypes, TaskTypes
  <2>3. \A k \in Handles : k # h => missed'[k] = missed[k] /\ trig'[k] = trig[k]
    BY <1>3, Zenon DEF OpenLocked, HistoryTypes, MemTypes
  <2>4. ~(trig'[h] >= Threshold)
    BY <1>3, StorageConstants DEF OpenLocked, MemTypes
  <2>5. \A k \in Handles : k # h /\ Asked(k) => Asked(k)'
    BY <2>1, <2>2, Zenon DEF Asked, IsFlush
  <2>6. \A k \in Handles, c \in Clients : Owes(c, k) => Owes(c, k)'
    BY <2>1, Zenon DEF Owes
  <2> QED
    BY <2>1, <2>2, <2>3, <2>4, <2>5, <2>6, Zenon DEF OverInv
<1>4. ASSUME NEW h \in Handles, OpenBusy(h) PROVE OverInv'
  <2>1. UNCHANGED <<failed, missed, trig, pc, at, own, chan, task, moving>>
        /\ status[h] = "opening" /\ \A k \in Handles : k # h => status'[k] = status[k]
    BY <1>4, Zenon DEF OpenBusy, HandleTypes, memVars, taskVars, clientVars, history
  <2>2. status'[h] \in {"opening", "closed"}
    BY <1>4 DEF OpenBusy, HandleTypes
  <2>3. status'[h] # "open"
    BY <2>2
  <2>4. \A k \in Handles : status'[k] = "open" => status[k] = "open"
    BY <2>1, <2>3, Zenon
  <2> QED
    <3>1. \A k \in Handles : Asked(k) => Asked(k)'
      BY <2>1, Zenon DEF Asked, IsFlush
    <3>2. \A k \in Handles, c \in Clients : Owes(c, k) => Owes(c, k)'
      BY <2>1, Zenon DEF Owes
    <3> QED
      BY <2>1, <2>4, <3>1, <3>2, Zenon DEF OverInv
<1>5. ASSUME NEW h \in Handles, Drop(h) PROVE OverInv'
  <2>1. UNCHANGED <<failed, trig, task, moving, pc, at, own>> /\ try_send(h, Flush(None))
        /\ \A k \in Handles : status'[k] = IF k = h THEN "dropped" ELSE status[k]
    BY <1>5, Zenon DEF Drop, HandleTypes, memVars, clientVars
  <2>2. \A k \in Handles : (Asked(k) => Asked(k)') /\ (missed[k] => missed'[k])
    BY <2>1, SendAsks, TaskFacts, Zenon
  <2> QED
    BY <2>1, <2>2, Zenon DEF OverInv, Owes
<1>6. ASSUME NEW h \in Handles, Recv(h) PROVE OverInv'
  <2>1. UNCHANGED <<failed, missed, status, trig>>
    BY <1>6, Zenon DEF Recv, handleVars, memVars, taskVars, clientVars, history
  <2>2. \A k \in Handles : Asked(k) => Asked(k)'
    BY <1>6, RecvAsks, Zenon DEF LifeInv
  <2>3. \A k \in Handles, d \in Clients : Owes(d, k) => Owes(d, k)'
    BY <1>6, Zenon DEF Recv, Owes, ClientTypes, handleVars, memVars, taskVars, clientVars, history
  <2> QED
    BY <2>1, <2>2, <2>3, Zenon DEF OverInv
<1>7. ASSUME NEW h \in Handles, RecvNone(h) PROVE OverInv'
  <2>1. UNCHANGED <<failed, missed, trig, pc, at, own, chan, moving>>
    BY <1>7, Zenon DEF RecvNone, memVars, clientVars, history
  <2>2. \A k \in Handles : status'[k] = (IF k = h THEN "closed" ELSE status[k])
                           /\ (k # h => task'[k] = task[k])
    BY <1>7, Zenon DEF RecvNone, HandleTypes, TaskTypes
  <2>3. \A k \in Handles : k # h => (Asked(k) => Asked(k)')
    BY <2>1, <2>2, Zenon DEF Asked, IsFlush
  <2> QED
    BY <2>1, <2>2, <2>3, Zenon DEF OverInv, Owes
<1>8. ASSUME NEW h \in Handles, RunSeek(h) PROVE OverInv'
  <2>1. UNCHANGED <<failed, missed, status, trig>>
    BY <1>8, Zenon DEF RunSeek, handleVars, memVars, taskVars, clientVars, history
  <2>2. \A k \in Handles : Asked(k) => Asked(k)'
    BY <1>8, Zenon
       DEF RunSeek, Asked, IsFlush, TaskTypes, handleVars, memVars, taskVars, clientVars,
           history
  <2>3. \A k \in Handles, d \in Clients : Owes(d, k) => Owes(d, k)'
    BY <1>8, Zenon DEF RunSeek, Owes, ClientTypes, handleVars, memVars, taskVars, clientVars, history
  <2> QED
    BY <2>1, <2>2, <2>3, Zenon DEF OverInv
<1>9. ASSUME NEW h \in Handles, SwapNone(h) PROVE OverInv'
  <2>1. UNCHANGED <<failed, missed, status, trig, chan, moving, at, own>> /\ IsFlush(h) /\ Answer(h, "ok")
    BY <1>9, Zenon DEF SwapNone, Answer, handleVars, memVars, history
  <2>2. \A k \in Handles : k # h => (Asked(k) => Asked(k)')
    BY <2>1, Zenon DEF Answer, Asked, IsFlush, TaskTypes
  <2>3. \A k \in Handles, d \in Clients : Owes(d, k) => Owes(d, k)'
    BY <2>1, AnswerReaches, Zenon DEF Owes
  <2>4. trig[h] < Threshold
    BY <1>9, StorageConstants DEF SwapNone, NothingToSwap, TrigInv, MemTypes
  <2> QED
    BY <2>1, <2>2, <2>3, <2>4, StorageConstants DEF OverInv, MemTypes
<1>10. ASSUME NEW h \in Handles, swap(h) PROVE OverInv'
  <2>1. UNCHANGED <<failed, status, chan, task, pc, at, own>> /\ trig'[h] = 0
    BY <1>10, Zenon DEF swap, SwapMem, MemTypes, clientVars
  <2>2. \A k \in Handles : k # h => trig'[k] = trig[k] /\ missed'[k] = missed[k] /\ moving'[k] = moving[k]
    BY <1>10, Zenon DEF swap, SwapMem, MemTypes, TaskTypes, HistoryTypes
  <2>3. \A k \in Handles : k # h => (Asked(k) => Asked(k)')
    BY <2>1, <2>2, Zenon DEF Asked, IsFlush
  <2> QED
    <3>1. ~(trig'[h] >= Threshold)
      BY <2>1, StorageConstants
    <3>2. \A k \in Handles, c \in Clients : Owes(c, k) => Owes(c, k)'
      BY <2>1, Zenon DEF Owes
    <3> QED
      BY <2>1, <2>2, <2>3, <3>1, <3>2, Zenon DEF OverInv
<1>11. ASSUME NEW h \in Handles, SwapFails(h) PROVE OverInv'
  BY <1>11, Zenon DEF SwapFails, Answer, SwapMem, Fail, OverInv, Asked, Owes, IsFlush
<1>12. ASSUME NEW h \in Handles, minor_compaction(h) PROVE OverInv'
  <2>1. UNCHANGED <<failed, missed, status, trig, chan, at, own>> /\ IsFlush(h) /\ Answer(h, "ok")
    BY <1>12, Zenon DEF minor_compaction, Answer, LifeInv, RestInv, handleVars, history
  <2>2. \A k \in Handles : Asked(k) => Asked(k)'
    BY <1>12, Zenon DEF minor_compaction, Answer, Asked, IsFlush, TaskTypes
  <2>3. \A k \in Handles, d \in Clients : Owes(d, k) => Owes(d, k)'
    BY <2>1, AnswerReaches, Zenon DEF Owes
  <2> QED
    BY <2>1, <2>2, <2>3, Zenon DEF OverInv
<1>13. ASSUME NEW h \in Handles, MinorFails(h) PROVE OverInv'
  BY <1>13, Zenon DEF MinorFails, Answer, Fail, OverInv, Asked, Owes, IsFlush, handleVars, memVars
<1>14. ASSUME NEW c \in Clients, SetSend(c) PROVE OverInv'
  <2>1. PICK h \in Handles : at[c] = h
    BY <1>14, Zenon DEF SetSend, LifeInv, BorrowInv, Busy, ClientTypes
  <2>2. UNCHANGED <<failed, status, trig, task, moving, own>> /\ try_send(h, Flush(None))
    BY <1>14, <2>1, Zenon DEF SetSend, handleVars, memVars
  <2>3. \A k \in Handles : (Asked(k) => Asked(k)') /\ (missed[k] => missed'[k])
    BY <2>2, SendAsks, TaskFacts, Zenon
  <2>4. Asked(h)' \/ missed'[h]
    BY <2>2, SendAsks, TaskFacts, Zenon
  <2>5. \A k \in Handles, d \in Clients : Owes(d, k) => Owes(d, k)' \/ k = h
    BY <1>14, <2>1, Zenon DEF SetSend, Goto, Owes, ClientTypes
  <2> QED
    BY <2>2, <2>3, <2>4, <2>5, Zenon DEF OverInv
<1>15. ASSUME NEW c \in Clients, TxReady(c) PROVE OverInv'
  <2>1. UNCHANGED <<failed, missed, status, trig>>
    BY <1>15, Zenon DEF TxReady, handleVars, memVars, taskVars, clientVars, history
  <2>2. \A k \in Handles : Asked(k) => Asked(k)'
    BY <1>15, Zenon
       DEF TxReady, Asked, IsFlush, TaskTypes, handleVars, memVars, taskVars, clientVars,
           history
  <2>3. \A k \in Handles, d \in Clients : Owes(d, k) => Owes(d, k)'
    BY <1>15, Zenon DEF TxReady, Goto, Owes, ClientTypes
  <2> QED
    BY <2>1, <2>2, <2>3, Zenon DEF OverInv
<1>16. ASSUME NEW c \in Clients, TxEnd(c) PROVE OverInv'
  <2>1. UNCHANGED <<failed, status, trig, task, moving>>
    BY <1>16, Zenon DEF TxEnd, handleVars, memVars
  <2>2. own[c] \in Handles /\ \A k \in Handles, d \in Clients :
          Owes(d, k) => Owes(d, k)' \/ (k = own[c] /\ pc[c] = "commit_over")
    BY <1>16, Zenon DEF TxEnd, LifeInv, BorrowInv, Busy, Owes, ClientTypes
  <2>3. CASE pc[c] = "commit_over"
    <3>1. try_send(own[c], Flush(None))
      BY <1>16, <2>3, Zenon DEF TxEnd
    <3>2. \A k \in Handles : (Asked(k) => Asked(k)') /\ (missed[k] => missed'[k])
      BY <2>1, <2>2, <3>1, SendAsks, TaskFacts, Zenon
    <3>3. \A k \in Handles : try_send(k, Flush(None)) => Asked(k)' \/ missed'[k]
      BY <2>1, SendAsks, TaskFacts, Zenon
    <3> QED
      BY <2>1, <2>2, <3>1, <3>2, <3>3, Zenon DEF OverInv
  <2>4. CASE pc[c] # "commit_over"
    <3>1. UNCHANGED <<chan, missed>>
      BY <1>16, <2>4, Zenon DEF TxEnd
    <3>2. \A k \in Handles : Asked(k)' = Asked(k)
      BY <2>1, <3>1, Zenon DEF Asked, IsFlush
    <3> QED
      BY <2>1, <2>2, <2>4, <3>1, <3>2, Zenon DEF OverInv
  <2> QED
    BY <2>3, <2>4, Zenon
<1>17. ASSUME NEW c \in Clients, FlushSend(c) PROVE OverInv'
  <2>1. UNCHANGED <<failed, missed, status, trig>>
    BY <1>17, Zenon DEF FlushSend, handleVars, memVars, taskVars, clientVars, history
  <2>2. \A k \in Handles : Asked(k) => Asked(k)'
    BY <1>17, Zenon DEF FlushSend, Asked, IsFlush, TaskTypes
  <2>3. \A k \in Handles, d \in Clients : Owes(d, k) => Owes(d, k)'
    BY <1>17, Zenon DEF FlushSend, Goto, Owes, ClientTypes
  <2> QED
    BY <2>1, <2>2, <2>3, Zenon DEF OverInv
<1>18. ASSUME NEW c \in Clients, FlushReturn(c) PROVE OverInv'
  <2>1. UNCHANGED <<failed, missed, status, trig>>
    BY <1>18, Zenon DEF FlushReturn, handleVars, memVars, taskVars, clientVars, history
  <2>2. \A k \in Handles : Asked(k) => Asked(k)'
    BY <1>18, Zenon
       DEF FlushReturn, Asked, IsFlush, TaskTypes, handleVars, memVars, taskVars, clientVars,
           history
  <2>3. \A k \in Handles, d \in Clients : Owes(d, k) => Owes(d, k)'
    BY <1>18, Zenon DEF FlushReturn, Goto, Owes, ClientTypes
  <2> QED
    BY <2>1, <2>2, <2>3, Zenon DEF OverInv
<1>19. ASSUME NEW c \in Clients, Cancel(c) PROVE OverInv'
  <2>1. UNCHANGED <<failed, missed, status, trig>>
    BY <1>19, Zenon DEF Cancel, handleVars, memVars, taskVars, clientVars, history
  <2>2. \A k \in Handles : Asked(k) => Asked(k)'
    BY <1>19, CancelAsks, Zenon DEF TypeOK
  <2>3. \A k \in Handles, d \in Clients : Owes(d, k) => Owes(d, k)'
    BY <1>19, Zenon DEF Cancel, Goto, Owes, ClientTypes
  <2> QED
    BY <2>1, <2>2, <2>3, Zenon DEF OverInv
<1>20. ASSUME NEW c \in Clients, NEW n \in 1..2, TxCommit(c, n) PROVE OverInv'
  <2>1. UNCHANGED <<failed, missed, status, chan, task, moving, own, at>> /\ pc[c] = "idle"
        /\ own[c] \in Handles
    BY <1>20, Zenon DEF TxCommit, Idle, handleVars, taskVars, history, ClientTypes
  <2>2. \A k \in Handles : Asked(k)' = Asked(k) /\ (k # own[c] => trig'[k] = trig[k])
    BY <1>20, <2>1, Zenon DEF TxCommit, Insert, Asked, IsFlush, MemTypes
  <2>3. \A k \in Handles, d \in Clients : Owes(d, k) => Owes(d, k)'
    BY <1>20, <2>1, Zenon DEF TxCommit, Owes, ClientTypes
  <2>4. trig'[own[c]] >= Threshold => Owes(c, own[c])'
    BY <1>20, <2>1, Zenon DEF TxCommit, is_exceeded, Owes, ClientTypes
  <2> QED
    BY <2>1, <2>2, <2>3, <2>4, Zenon DEF OverInv
<1>21. ASSUME NEW c \in Clients, NEW n \in 1..2, TxFails(c, n) PROVE OverInv'
  BY <1>21, Zenon DEF TxFails, Insert, Fail, OverInv, Asked, Owes, IsFlush, handleVars, taskVars
<1>22. ASSUME NEW c \in Clients, NEW h \in Handles, Set(c, h) PROVE OverInv'
  <2>1. UNCHANGED <<failed, missed, status, chan, task, moving, own>> /\ pc[c] = "idle"
    <3>1. UNCHANGED <<handleVars, taskVars, own, history>> /\ Idle(c)
      BY <1>22, Zenon DEF Set
    <3> QED
      BY <3>1, Zenon DEF Idle, handleVars, taskVars, history
  <2>2. \A k \in Handles : Asked(k)' = Asked(k) /\ (k # h => trig'[k] = trig[k])
    BY <1>22, <2>1, Zenon DEF Set, Insert, Asked, IsFlush, MemTypes
  <2>3. \A k \in Handles, d \in Clients : Owes(d, k) => Owes(d, k)'
    BY <1>22, <2>1, Zenon DEF Set, Goto, Owes, ClientTypes
  <2>4. trig'[h] >= Threshold => Owes(c, h)'
    BY <1>22, Zenon DEF Set, Goto, is_exceeded, Owes, ClientTypes
  <2> QED
    BY <2>1, <2>2, <2>3, <2>4, Zenon DEF OverInv
<1>23. ASSUME NEW c \in Clients, NEW h \in Handles, GetSeek(c, h) PROVE OverInv'
  <2>1. UNCHANGED <<failed, status, trig, task, moving, pc, at, own>> /\ try_send(h, Seek)
    BY <1>23, Zenon DEF GetSeek, handleVars, memVars, clientVars
  <2>2. \A k \in Handles : (Asked(k) => Asked(k)') /\ (missed[k] => missed'[k])
    BY <2>1, SendAsks, TaskFacts, Zenon
  <2> QED
    BY <2>1, <2>2, Zenon DEF OverInv, Owes
<1>24. ASSUME NEW c \in Clients, NEW h \in Handles, TxNew(c, h) PROVE OverInv'
  <2>1. UNCHANGED <<failed, missed, status, trig>>
    BY <1>24, Zenon DEF TxNew, handleVars, memVars, taskVars, clientVars, history
  <2>2. \A k \in Handles : Asked(k) => Asked(k)'
    BY <1>24, Zenon
       DEF TxNew, Asked, IsFlush, TaskTypes, handleVars, memVars, taskVars, clientVars,
           history
  <2>3. \A k \in Handles, d \in Clients : Owes(d, k) => Owes(d, k)'
    BY <1>24, Zenon DEF TxNew, Goto, Idle, Owes, ClientTypes
  <2> QED
    BY <2>1, <2>2, <2>3, Zenon DEF OverInv
<1>25. ASSUME NEW c \in Clients, NEW h \in Handles, FlushCall(c, h) PROVE OverInv'
  <2>1. UNCHANGED <<failed, missed, status, trig>>
    BY <1>25, Zenon DEF FlushCall, handleVars, memVars, taskVars, clientVars, history
  <2>2. \A k \in Handles : Asked(k) => Asked(k)'
    BY <1>25, Zenon
       DEF FlushCall, Asked, IsFlush, TaskTypes, handleVars, memVars, taskVars, clientVars,
           history
  <2>3. \A k \in Handles, d \in Clients : Owes(d, k) => Owes(d, k)'
    BY <1>25, Zenon DEF FlushCall, Goto, Idle, Owes, ClientTypes
  <2> QED
    BY <2>1, <2>2, <2>3, Zenon DEF OverInv
<1>26. CASE UNCHANGED vars
  BY <1>1, <1>26, Zenon DEF vars, handleVars, memVars, taskVars, clientVars, history
<1> QED
  BY <1>2, <1>3, <1>4, <1>5, <1>6, <1>7, <1>8, <1>9, <1>10, <1>11, <1>12, <1>13, <1>14,
      <1>15, <1>16, <1>17, <1>18, <1>19, <1>20, <1>21, <1>22, <1>23, <1>24, <1>25, <1>26
  DEF Next, Background, Fails, Opening, Client, Calls
-----------------------------------------------------------------------------
(***************************************************************************)
(* The conjuncts that need cardinalities: the count of transactions that   *)
(* swap waits for, and the end of the background task, which relies on it. *)
(***************************************************************************)
(* Fewer transactions, as many of them counted *)
LEMMA CountKept ==
  ASSUME MemTypes, CountInv, UNCHANGED tx_count, \A h \in Handles : Counted(h)' \subseteq Counted(h)
  PROVE  CountInv'
<1> SUFFICES ASSUME NEW h \in Handles PROVE Cardinality(Counted(h)') <= tx_count[h]
  BY Zenon DEF CountInv
<1>1. IsFiniteSet(Counted(h))
  BY StorageBounds, FS_Subset, Zenon DEF Counted
<1>2. Cardinality(Counted(h)') <= Cardinality(Counted(h)) /\ IsFiniteSet(Counted(h)')
  BY <1>1, FS_Subset, Zenon
<1>3. Cardinality(Counted(h)) <= tx_count[h] /\ tx_count[h] \in Int
  BY Zenon DEF CountInv, MemTypes
<1> QED
  BY <1>1, <1>2, <1>3, FS_CardinalityType

(* The end of a transaction takes it out of the count. *)
LEMMA OneLess ==
  ASSUME MemTypes, CountInv, NEW c \in Clients, NEW h \in Handles, c \in Counted(h),
         \A k \in Handles : Counted(k)' \subseteq Counted(k) \ {c},
         \A k \in Handles : tx_count'[k] = IF k = h THEN tx_count[k] - 1 ELSE tx_count[k]
  PROVE  CountInv'
<1> SUFFICES ASSUME NEW k \in Handles PROVE Cardinality(Counted(k)') <= tx_count'[k]
  BY Zenon DEF CountInv
<1>1. IsFiniteSet(Counted(k)) /\ Cardinality(Counted(k)) \in Nat
  BY StorageBounds, FS_Subset, FS_CardinalityType, Zenon DEF Counted
<1>2. Cardinality(Counted(k)) <= tx_count[k] /\ tx_count[k] \in Int
  BY Zenon DEF CountInv, MemTypes
<1>3. /\ IsFiniteSet(Counted(k) \ {c})
      /\ Cardinality(Counted(k) \ {c}) =
           IF c \in Counted(k) THEN Cardinality(Counted(k)) - 1 ELSE Cardinality(Counted(k))
  BY <1>1, FS_RemoveElement, Zenon
<1>4. Cardinality(Counted(k)') <= Cardinality(Counted(k) \ {c}) /\ IsFiniteSet(Counted(k)')
  BY <1>3, FS_Subset, Zenon
<1>5. Cardinality(Counted(k)') \in Nat
  BY <1>4, FS_CardinalityType, Zenon
<1> QED
  BY <1>1, <1>2, <1>3, <1>4, <1>5

(* The loop of swap ends only when there is no transaction. *)
LEMMA NoneCounted ==
  ASSUME CountInv, NEW h \in Handles, NoTransaction(h)
  PROVE  \A c \in Clients : own[c] # h
<1>1. IsFiniteSet(Counted(h))
  BY StorageBounds, FS_Subset, Zenon DEF Counted
<1>2. Cardinality(Counted(h)) \in Nat /\ Cardinality(Counted(h)) <= 0
  BY <1>1, FS_CardinalityType, Zenon DEF CountInv, NoTransaction
<1>3. Counted(h) = {}
  BY <1>1, <1>2, FS_EmptySet
<1> QED
  BY <1>3, Zenon DEF Counted

(* tx_count is never below the number of live transactions. *)
LEMMA CountStep == TypeOK /\ LifeInv /\ CountInv /\ [Next]_vars => CountInv'
<1> SUFFICES ASSUME TypeOK, LifeInv, CountInv, [Next]_vars PROVE CountInv'
  OBVIOUS
<1> USE DEF TypeOK
<1>1. ASSUME UNCHANGED <<pc, at, own, tx_count>> PROVE CountInv'
  BY <1>1, CountKept, Zenon DEF Counted
<1>2. ASSUME NEW h \in Handles, OpenLocked(h) PROVE CountInv'
  <2>1. UNCHANGED <<pc, at, own>> /\ status[h] = "opening"
    BY <1>2, Zenon DEF OpenLocked, clientVars
  <2>2. Counted(h)' = {}
    BY <2>1, StorageConstants, Zenon DEF Counted, LifeInv, BorrowInv, OwnerInv, Busy
  <2>3. \A k \in Handles : k # h => Counted(k)' = Counted(k)
    BY <2>1, Zenon DEF Counted
  <2>4. \A k \in Handles : tx_count'[k] = IF k = h THEN 0 ELSE tx_count[k]
    BY <1>2, Zenon DEF OpenLocked, MemTypes
  <2> QED
    BY <2>2, <2>3, <2>4, FS_EmptySet, SMTT(30) DEF CountInv
<1>3. ASSUME NEW h \in Handles, SwapNone(h) PROVE CountInv'
  <2>1. UNCHANGED <<own, tx_count>>
    BY <1>3, Zenon DEF SwapNone, Answer, clientVars
  <2>2. \A d \in Clients : pc'[d] = "txnew" => pc[d] = "txnew" /\ at'[d] = at[d]
    BY <1>3, Zenon DEF SwapNone, Answer, ClientTypes, clientVars
  <2> QED
    BY <2>1, <2>2, CountKept, Zenon DEF Counted
<1>4. ASSUME NEW h \in Handles, SwapFails(h) PROVE CountInv'
  <2>1. UNCHANGED <<own, tx_count>>
    BY <1>4, Zenon DEF SwapFails, Answer, clientVars
  <2>2. \A d \in Clients : pc'[d] = "txnew" => pc[d] = "txnew" /\ at'[d] = at[d]
    BY <1>4, Zenon DEF SwapFails, Answer, ClientTypes, clientVars
  <2> QED
    BY <2>1, <2>2, CountKept, Zenon DEF Counted
<1>5. ASSUME NEW h \in Handles, minor_compaction(h) PROVE CountInv'
  <2>1. UNCHANGED <<own, tx_count>>
    BY <1>5, Zenon DEF minor_compaction, Answer, clientVars
  <2>2. \A d \in Clients : pc'[d] = "txnew" => pc[d] = "txnew" /\ at'[d] = at[d]
    BY <1>5, Zenon DEF minor_compaction, Answer, ClientTypes, clientVars
  <2> QED
    BY <2>1, <2>2, CountKept, Zenon DEF Counted
<1>6. ASSUME NEW h \in Handles, MinorFails(h) PROVE CountInv'
  <2>1. UNCHANGED <<own, tx_count>>
    BY <1>6, Zenon DEF MinorFails, Answer, clientVars
  <2>2. \A d \in Clients : pc'[d] = "txnew" => pc[d] = "txnew" /\ at'[d] = at[d]
    BY <1>6, Zenon DEF MinorFails, Answer, ClientTypes, clientVars
  <2> QED
    BY <2>1, <2>2, CountKept, Zenon DEF Counted
<1>7. ASSUME NEW c \in Clients, SetSend(c) PROVE CountInv'
  <2>1. UNCHANGED <<own, tx_count>>
    BY <1>7, Zenon DEF SetSend, Goto, clientVars
  <2>2. \A d \in Clients : pc'[d] = "txnew" => pc[d] = "txnew" /\ at'[d] = at[d]
    BY <1>7, Zenon DEF SetSend, Goto, ClientTypes, clientVars
  <2> QED
    BY <2>1, <2>2, CountKept, Zenon DEF Counted
<1>8. ASSUME NEW c \in Clients, TxReady(c) PROVE CountInv'
  <2>1. UNCHANGED tx_count /\ pc[c] = "txnew"
    BY <1>8, Zenon DEF TxReady
  <2>2. \A d \in Clients : /\ own'[d] = IF d = c THEN at[c] ELSE own[d]
                           /\ pc'[d] = IF d = c THEN "idle" ELSE pc[d]
                           /\ at'[d] = IF d = c THEN None ELSE at[d]
    BY <1>8, Zenon DEF TxReady, Goto, ClientTypes
  <2> QED
    BY <2>1, <2>2, CountKept, Zenon DEF Counted
<1>9. ASSUME NEW c \in Clients, TxEnd(c) PROVE CountInv'
  <2>1. own[c] \in Handles
    BY <1>9, Zenon DEF TxEnd, ClientTypes
  <2>2. \A d \in Clients : own'[d] = (IF d = c THEN None ELSE own[d]) /\ at'[d] = at[d]
                           /\ (pc'[d] = "txnew" => pc[d] = "txnew" /\ d # c)
    BY <1>9, Zenon DEF TxEnd, Idle, ClientTypes
  <2>3. c \in Counted(own[c]) /\ \A k \in Handles : Counted(k)' \subseteq Counted(k) \ {c}
    BY <2>1, <2>2, StorageConstants, Zenon DEF Counted
  <2>4. \A k \in Handles : tx_count'[k] = IF k = own[c] THEN tx_count[k] - 1 ELSE tx_count[k]
    BY <1>9, Zenon DEF TxEnd, MemTypes
  <2> QED
    BY <2>1, <2>3, <2>4, OneLess, Zenon
<1>10. ASSUME NEW c \in Clients, FlushSend(c) PROVE CountInv'
  <2>1. UNCHANGED <<own, tx_count>>
    BY <1>10, Zenon DEF FlushSend, Goto, clientVars
  <2>2. \A d \in Clients : pc'[d] = "txnew" => pc[d] = "txnew" /\ at'[d] = at[d]
    BY <1>10, Zenon DEF FlushSend, Goto, ClientTypes, clientVars
  <2> QED
    BY <2>1, <2>2, CountKept, Zenon DEF Counted
<1>11. ASSUME NEW c \in Clients, FlushReturn(c) PROVE CountInv'
  <2>1. UNCHANGED <<own, tx_count>>
    BY <1>11, Zenon DEF FlushReturn, Goto, clientVars
  <2>2. \A d \in Clients : pc'[d] = "txnew" => pc[d] = "txnew" /\ at'[d] = at[d]
    BY <1>11, Zenon DEF FlushReturn, Goto, ClientTypes, clientVars
  <2> QED
    BY <2>1, <2>2, CountKept, Zenon DEF Counted
<1>12. ASSUME NEW c \in Clients, Cancel(c) PROVE CountInv'
  <2>1. UNCHANGED <<own, tx_count>>
    BY <1>12, Zenon DEF Cancel, Goto, clientVars
  <2>2. \A d \in Clients : pc'[d] = "txnew" => pc[d] = "txnew" /\ at'[d] = at[d]
    BY <1>12, Zenon DEF Cancel, Goto, ClientTypes, clientVars
  <2> QED
    BY <2>1, <2>2, CountKept, Zenon DEF Counted
<1>13. ASSUME NEW c \in Clients, NEW n \in 1..2, TxCommit(c, n) PROVE CountInv'
  <2>1. UNCHANGED <<own, tx_count>>
    BY <1>13, Zenon DEF TxCommit, Idle, clientVars
  <2>2. \A d \in Clients : pc'[d] = "txnew" => pc[d] = "txnew" /\ at'[d] = at[d]
    BY <1>13, Zenon DEF TxCommit, Idle, ClientTypes, clientVars
  <2> QED
    BY <2>1, <2>2, CountKept, Zenon DEF Counted
<1>14. ASSUME NEW c \in Clients, NEW n \in 1..2, TxFails(c, n) PROVE CountInv'
  <2>1. own[c] \in Handles
    BY <1>14, Zenon DEF TxFails, ClientTypes
  <2>2. \A d \in Clients : own'[d] = (IF d = c THEN None ELSE own[d]) /\ at'[d] = at[d]
                           /\ (pc'[d] = "txnew" => pc[d] = "txnew" /\ d # c)
    BY <1>14, Zenon DEF TxFails, Idle, ClientTypes
  <2>3. c \in Counted(own[c]) /\ \A k \in Handles : Counted(k)' \subseteq Counted(k) \ {c}
    BY <2>1, <2>2, StorageConstants, Zenon DEF Counted
  <2>4. \A k \in Handles : tx_count'[k] = IF k = own[c] THEN tx_count[k] - 1 ELSE tx_count[k]
    BY <1>14, Zenon DEF TxFails, MemTypes
  <2> QED
    BY <2>1, <2>3, <2>4, OneLess, Zenon
<1>15. ASSUME NEW c \in Clients, NEW h \in Handles, Set(c, h) PROVE CountInv'
  <2>1. UNCHANGED <<own, tx_count>>
    BY <1>15, Zenon DEF Set, Goto, Idle, clientVars
  <2>2. \A d \in Clients : pc'[d] = "txnew" => pc[d] = "txnew" /\ at'[d] = at[d]
    BY <1>15, Zenon DEF Set, Goto, Idle, ClientTypes, clientVars
  <2> QED
    BY <2>1, <2>2, CountKept, Zenon DEF Counted
<1>16. ASSUME NEW c \in Clients, NEW h \in Handles, TxNew(c, h) PROVE CountInv'
  <2>1. \A d \in Clients : /\ own'[d] = own[d]
                           /\ pc'[d] = IF d = c THEN "txnew" ELSE pc[d]
                           /\ at'[d] = IF d = c THEN h ELSE at[d]
    BY <1>16, Zenon DEF TxNew, Goto, ClientTypes
  <2>2. Counted(h)' \subseteq Counted(h) \cup {c} /\ \A k \in Handles : k # h => Counted(k)' \subseteq Counted(k)
    BY <1>16, <2>1, Zenon DEF Counted, TxNew
  <2>3. \A k \in Handles : tx_count'[k] = IF k = h THEN tx_count[h] + 1 ELSE tx_count[k]
    BY <1>16, Zenon DEF TxNew, MemTypes
  <2>4. ASSUME NEW k \in Handles PROVE Cardinality(Counted(k)') <= tx_count'[k]
    <3>1. IsFiniteSet(Counted(k)) /\ Cardinality(Counted(k)) \in Nat
      BY StorageBounds, FS_Subset, FS_CardinalityType, Zenon DEF Counted
    <3>2. Cardinality(Counted(k)) <= tx_count[k] /\ tx_count[k] \in Int
      BY Zenon DEF CountInv, MemTypes
    <3>3. CASE k = h
      <4>1. /\ IsFiniteSet(Counted(h) \cup {c})
            /\ Cardinality(Counted(h) \cup {c}) \in Nat
            /\ Cardinality(Counted(h) \cup {c}) <= Cardinality(Counted(h)) + 1
        <5>1. /\ IsFiniteSet(Counted(h) \cup {c})
              /\ Cardinality(Counted(h) \cup {c}) =
                   IF c \in Counted(h) THEN Cardinality(Counted(h)) ELSE Cardinality(Counted(h)) + 1
          BY <3>1, <3>3, FS_AddElement, Zenon
        <5> QED
          BY <3>1, <3>3, <5>1
      <4>2. Cardinality(Counted(h)') <= Cardinality(Counted(h) \cup {c}) /\ IsFiniteSet(Counted(h)')
        BY <2>2, <4>1, FS_Subset, Zenon
      <4>3. Cardinality(Counted(h)') \in Nat
        BY <4>2, FS_CardinalityType, Zenon
      <4> QED
        BY <2>3, <3>1, <3>2, <3>3, <4>1, <4>2, <4>3, SMTT(30)
    <3>4. CASE k # h
      <4>1. Cardinality(Counted(k)') <= Cardinality(Counted(k)) /\ IsFiniteSet(Counted(k)')
        BY <2>2, <3>1, <3>4, FS_Subset, Zenon
      <4>2. Cardinality(Counted(k)') \in Nat
        BY <4>1, FS_CardinalityType, Zenon
      <4> QED
        BY <2>3, <3>1, <3>2, <3>4, <4>1, <4>2
    <3> QED
      BY <3>3, <3>4, Zenon
  <2> QED
    BY <2>4, Zenon DEF CountInv
<1>17. ASSUME NEW c \in Clients, NEW h \in Handles, FlushCall(c, h) PROVE CountInv'
  <2>1. UNCHANGED <<own, tx_count>>
    BY <1>17, Zenon DEF FlushCall, Goto, Idle, clientVars
  <2>2. \A d \in Clients : pc'[d] = "txnew" => pc[d] = "txnew" /\ at'[d] = at[d]
    BY <1>17, Zenon DEF FlushCall, Goto, Idle, ClientTypes, clientVars
  <2> QED
    BY <2>1, <2>2, CountKept, Zenon DEF Counted
<1>18. ASSUME NEW h \in Handles, OpenStart(h) PROVE CountInv'
  BY <1>18, <1>1, Zenon DEF OpenStart, clientVars
<1>19. ASSUME NEW h \in Handles, OpenBusy(h) PROVE CountInv'
  BY <1>19, <1>1, Zenon DEF OpenBusy, clientVars
<1>20. ASSUME NEW h \in Handles, Drop(h) PROVE CountInv'
  BY <1>20, <1>1, Zenon DEF Drop, clientVars
<1>21. ASSUME NEW h \in Handles, Recv(h) PROVE CountInv'
  BY <1>21, <1>1, Zenon DEF Recv, clientVars
<1>22. ASSUME NEW h \in Handles, RecvNone(h) PROVE CountInv'
  BY <1>22, <1>1, Zenon DEF RecvNone, clientVars
<1>23. ASSUME NEW h \in Handles, RunSeek(h) PROVE CountInv'
  BY <1>23, <1>1, Zenon DEF RunSeek, clientVars
<1>24. ASSUME NEW h \in Handles, swap(h) PROVE CountInv'
  BY <1>24, <1>1, Zenon DEF swap, clientVars
<1>25. ASSUME NEW c \in Clients, NEW h \in Handles, GetSeek(c, h) PROVE CountInv'
  BY <1>25, <1>1, Zenon DEF GetSeek, clientVars
<1>26. CASE UNCHANGED vars
  BY <1>1, <1>26, Zenon DEF vars, clientVars
<1> QED
  BY Zenon, <1>2, <1>3, <1>4, <1>5, <1>6, <1>7, <1>8, <1>9, <1>10, <1>11, <1>12, <1>13, <1>14,
      <1>15, <1>16, <1>17, <1>18, <1>19, <1>20, <1>21, <1>22, <1>23, <1>24, <1>25, <1>26
  DEF Next, Background, Fails, Opening, Client, Calls

(* A dropped store has a flush to come, or nothing to flush and nobody who could write. *)
LEMMA ClosedStep == TypeOK /\ LifeInv /\ CountInv /\ ClosedInv /\ [Next]_vars => ClosedInv'
<1> SUFFICES ASSUME TypeOK, LifeInv, CountInv, ClosedInv, [Next]_vars PROVE ClosedInv'
  OBVIOUS
<1> USE DEF TypeOK
<1>1. ASSUME UNCHANGED <<failed, missed, status, chan, task, moving, mem, own>> PROVE ClosedInv'
  BY <1>1
     DEF ClosedInv, Asked, LifeInv, RestInv, BorrowInv, OwnerInv, Busy, IsFlush, Senders,
         HandleTypes, MemTypes, TaskTypes, ClientTypes, HistoryTypes
<1>2. ASSUME NEW h \in Handles, OpenStart(h) PROVE ClosedInv'
  <2>1. UNCHANGED <<failed, missed, mem, own, chan, task, moving>> /\ status[h] = "closed"
        /\ \A k \in Handles : status'[k] = IF k = h THEN "opening" ELSE status[k]
    BY <1>2, Zenon DEF OpenStart, HandleTypes, memVars, taskVars, clientVars, history
  <2> QED
    BY <2>1 DEF ClosedInv, Asked, IsFlush
<1>3. ASSUME NEW h \in Handles, OpenLocked(h) PROVE ClosedInv'
  BY <1>3
     DEF OpenLocked, try_lock, ClosedInv, Asked, IsFlush, Senders, HandleTypes, MemTypes,
         TaskTypes, ClientTypes, HistoryTypes, clientVars
<1>4. ASSUME NEW h \in Handles, OpenBusy(h) PROVE ClosedInv'
  <2>1. UNCHANGED <<failed, missed, mem, own, chan, task, moving>> /\ status[h] = "opening"
        /\ \A k \in Handles : status'[k] =
             IF k = h THEN IF tries[h] < 3 THEN "opening" ELSE "closed" ELSE status[k]
    BY <1>4, Zenon DEF OpenBusy, HandleTypes, memVars, taskVars, clientVars, history
  <2> QED
    BY <2>1 DEF ClosedInv, Asked, IsFlush
<1>5. ASSUME NEW h \in Handles, Drop(h) PROVE ClosedInv'
  <2>1. UNCHANGED <<failed, mem, task, moving, own>> /\ try_send(h, Flush(None))
        /\ \A k \in Handles : status'[k] = IF k = h THEN "dropped" ELSE status[k]
    BY <1>5, Zenon DEF Drop, HandleTypes, memVars, clientVars
  <2>2. \A k \in Handles : (Asked(k) => Asked(k)') /\ (missed[k] => missed'[k])
    BY <2>1, SendAsks, TaskFacts, Zenon
  <2>3. Asked(h)' \/ missed'[h]
    BY <2>1, SendAsks, TaskFacts, Zenon
  <2> QED
    BY <2>1, <2>2, <2>3 DEF ClosedInv
<1>6. ASSUME NEW h \in Handles, Recv(h) PROVE ClosedInv'
  <2>1. UNCHANGED <<failed, missed, status, mem, own>>
    BY <1>6, Zenon DEF Recv, handleVars, memVars, clientVars, history
  <2>2. \A k \in Handles : Asked(k) => Asked(k)'
    BY <1>6, RecvAsks, Zenon DEF LifeInv
  <2> QED
    BY <2>1, <2>2, Zenon DEF ClosedInv
<1>7. ASSUME NEW h \in Handles, RecvNone(h) PROVE ClosedInv'
  <2>1. UNCHANGED <<failed, missed, mem, own, chan, moving>>
    BY <1>7, Zenon DEF RecvNone, memVars, clientVars, history
  <2>2. \A k \in Handles : status'[k] = (IF k = h THEN "closed" ELSE status[k])
                           /\ (k # h => task'[k] = task[k])
    BY <1>7, Zenon DEF RecvNone, HandleTypes, TaskTypes
  <2>3. status[h] = "dropped" /\ ~Asked(h)
    BY <1>7, TaskFacts, Zenon DEF RecvNone, Senders, Asked, IsFlush, LifeInv, RestInv, HandleTypes
  <2>4. \A k \in Handles : k # h => Asked(k)' = Asked(k)
    BY <2>1, <2>2, Zenon DEF Asked, IsFlush
  <2> QED
    BY <2>1, <2>2, <2>3, <2>4, Zenon DEF ClosedInv
<1>8. ASSUME NEW h \in Handles, RunSeek(h) PROVE ClosedInv'
  <2>1. UNCHANGED <<failed, missed, status, mem, own, chan, moving>>
    BY <1>8, Zenon DEF RunSeek, handleVars, memVars, clientVars, history
  <2>2. \A k \in Handles : Asked(k) => Asked(k)'
    BY <1>8, Zenon DEF RunSeek, Asked, IsFlush, TaskTypes
  <2> QED
    BY <2>1, <2>2, Zenon DEF ClosedInv
<1>9. ASSUME NEW h \in Handles, SwapNone(h) PROVE ClosedInv'
  <2>1. \A k \in Handles : k # h => task'[k] = task[k] /\ moving'[k] = moving[k] /\ mem'[k] = mem[k] /\ missed'[k] = missed[k]
    BY <1>9, Zenon DEF SwapNone, Answer, TaskTypes, memVars, history
  <2>2. UNCHANGED <<failed, status, chan, own>> /\ mem'[h] = 0 /\ NoTransaction(h) /\ IsFlush(h)
    BY <1>9, Zenon DEF SwapNone, Answer, NothingToSwap, handleVars, memVars, history
  <2>3. \A k \in Handles : k # h => (Asked(k) => Asked(k)')
    BY <2>1, <2>2, Zenon DEF Asked, IsFlush
  <2>4. \A c \in Clients : own[c] # h
    BY <2>2, NoneCounted
  <2> QED
    BY <2>1, <2>2, <2>3, <2>4 DEF ClosedInv, LifeInv, RestInv, IsFlush
<1>10. ASSUME NEW h \in Handles, swap(h) PROVE ClosedInv'
  <2>1. \A k \in Handles : k # h => task'[k] = task[k] /\ moving'[k] = moving[k] /\ mem'[k] = mem[k] /\ missed'[k] = missed[k]
    BY <1>10, Zenon DEF swap, SwapMem, TaskTypes, MemTypes, HistoryTypes
  <2>2. UNCHANGED <<failed, status, chan, own>> /\ mem'[h] = 0 /\ NoTransaction(h) /\ IsFlush(h)
    BY <1>10 DEF swap, SwapMem, MemTypes, clientVars
  <2>3. \A k \in Handles : k # h => (Asked(k) => Asked(k)')
    BY <2>1, <2>2, Zenon DEF Asked, IsFlush
  <2>4. \A c \in Clients : own[c] # h
    BY <2>2, NoneCounted, Zenon
  <2> QED
    BY <2>1, <2>2, <2>3, <2>4, Zenon DEF ClosedInv, LifeInv, RestInv, IsFlush
<1>11. ASSUME NEW h \in Handles, SwapFails(h) PROVE ClosedInv'
  BY <1>11, Zenon DEF SwapFails, Answer, SwapMem, Fail, ClosedInv, Asked, IsFlush, Senders
<1>12. ASSUME NEW h \in Handles, minor_compaction(h) PROVE ClosedInv'
  <2>1. UNCHANGED <<failed, missed, status, mem, own, chan>>
    BY <1>12, Zenon DEF minor_compaction, Answer, handleVars, history
  <2>2. \A k \in Handles : Asked(k) => Asked(k)'
    BY <1>12, Zenon DEF minor_compaction, Answer, Asked, IsFlush, TaskTypes
  <2> QED
    BY <2>1, <2>2 DEF ClosedInv
<1>13. ASSUME NEW h \in Handles, MinorFails(h) PROVE ClosedInv'
  BY <1>13, Zenon DEF MinorFails, Answer, Fail, ClosedInv, Asked, IsFlush, Senders, handleVars, memVars
<1>14. ASSUME NEW c \in Clients, SetSend(c) PROVE ClosedInv'
  <2>1. UNCHANGED <<failed, status, mem, task, moving, own>> /\ at[c] \in Handles /\ try_send(at[c], Flush(None))
    BY <1>14, Zenon DEF SetSend, handleVars, memVars, clientVars, LifeInv, BorrowInv, Busy, ClientTypes
  <2>2. \A k \in Handles : (Asked(k) => Asked(k)') /\ (missed[k] => missed'[k])
    BY <2>1, SendAsks, TaskFacts, Zenon
  <2> QED
    BY <2>1, <2>2, Zenon DEF ClosedInv
<1>15. ASSUME NEW c \in Clients, TxReady(c) PROVE ClosedInv'
  <2>1. UNCHANGED <<failed, missed, status, mem, chan, task, moving>>
    BY <1>15, Zenon DEF TxReady, handleVars, memVars, taskVars, history
  <2>2. status[at[c]] = "open" /\ \A d \in Clients : own'[d] = own[d] \/ own'[d] = at[c]
    BY <1>15, Zenon DEF TxReady, LifeInv, BorrowInv, Busy, ClientTypes
  <2> QED
    BY <2>1, <2>2 DEF ClosedInv, Asked, IsFlush
<1>16. ASSUME NEW c \in Clients, TxEnd(c) PROVE ClosedInv'
  <2>1. UNCHANGED <<failed, status, mem, task, moving>> /\ own[c] \in Handles
        /\ \A d \in Clients : own'[d] = own[d] \/ own'[d] = None
    <3>1. UNCHANGED <<failed, status, mem, task, moving>>
      BY <1>16, Zenon DEF TxEnd, handleVars, memVars
    <3>2. own[c] \in Handles /\ \A d \in Clients : own'[d] = own[d] \/ own'[d] = None
      BY <1>16, Zenon DEF TxEnd, ClientTypes
    <3> QED
      BY <3>1, <3>2, Zenon
  <2>2. try_send(own[c], Flush(None)) \/ UNCHANGED <<chan, missed>>
    BY <1>16, Zenon DEF TxEnd
  <2>3. \A k \in Handles : (Asked(k) => Asked(k)') /\ (missed[k] => missed'[k])
    <3>1. CASE try_send(own[c], Flush(None))
      BY <2>1, <3>1, SendAsks, TaskFacts, Zenon
    <3>2. CASE UNCHANGED <<chan, missed>>
      BY <2>1, <3>2, Zenon DEF Asked, IsFlush
    <3> QED
      BY <2>2, <3>1, <3>2, Zenon
  <2> QED
    BY <2>1, <2>3, StorageConstants DEF ClosedInv
<1>17. ASSUME NEW c \in Clients, FlushSend(c) PROVE ClosedInv'
  <2>1. UNCHANGED <<failed, missed, status, mem, own>>
    BY <1>17, Zenon DEF FlushSend, handleVars, memVars, history
  <2>2. \A k \in Handles : Asked(k) => Asked(k)'
    BY <1>17, Zenon DEF FlushSend, Asked, IsFlush, TaskTypes
  <2> QED
    BY <2>1, <2>2, Zenon DEF ClosedInv
<1>18. ASSUME NEW c \in Clients, Cancel(c) PROVE ClosedInv'
  <2>1. UNCHANGED <<failed, missed, status, mem, own>>
    BY <1>18, Zenon DEF Cancel, handleVars, memVars, clientVars, history
  <2>2. \A k \in Handles : Asked(k) => Asked(k)'
    BY <1>18, CancelAsks, Zenon DEF TypeOK
  <2> QED
    BY <2>1, <2>2, Zenon DEF ClosedInv
<1>19. ASSUME NEW c \in Clients, NEW n \in 1..2, TxCommit(c, n) PROVE ClosedInv'
  <2>1. UNCHANGED <<failed, missed, status, own, chan, task, moving>> /\ own[c] \in Handles
    BY <1>19, Zenon DEF TxCommit, handleVars, taskVars, history, ClientTypes
  <2>2. \A k \in Handles : k # own[c] => mem'[k] = mem[k]
    BY <1>19, Zenon DEF TxCommit, Insert, MemTypes
  <2>3. status[own[c]] \in {"open", "dropped"}
    BY <2>1, StorageConstants, Zenon DEF LifeInv, OwnerInv
  <2>4. \A k \in Handles : Asked(k)' = Asked(k)
    BY <2>1, Zenon DEF Asked, IsFlush
  <2> QED
    BY <2>1, <2>2, <2>3, <2>4, Zenon DEF ClosedInv
<1>20. ASSUME NEW c \in Clients, NEW n \in 1..2, TxFails(c, n) PROVE ClosedInv'
  BY <1>20, Zenon DEF TxFails, Insert, Fail, ClosedInv, Asked, IsFlush, Senders, handleVars, taskVars
<1>21. ASSUME NEW c \in Clients, NEW h \in Handles, Set(c, h) PROVE ClosedInv'
  <2>1. UNCHANGED <<failed, missed, status, own, chan, task, moving>> /\ status[h] = "open"
    BY <1>21, Zenon DEF Set, handleVars, taskVars, history
  <2>2. \A k \in Handles : k # h => mem'[k] = mem[k]
    BY <1>21, Zenon DEF Set, Insert, MemTypes
  <2>3. \A k \in Handles : Asked(k)' = Asked(k)
    BY <2>1, Zenon DEF Asked, IsFlush
  <2>4. \A k \in Handles : status[k] # "open" => k # h
    BY <2>1, Zenon
  <2> QED
    BY <2>1, <2>2, <2>3, <2>4, Zenon DEF ClosedInv
<1>22. ASSUME NEW c \in Clients, NEW h \in Handles, GetSeek(c, h) PROVE ClosedInv'
  <2>1. UNCHANGED <<failed, status, mem, task, moving, own>> /\ try_send(h, Seek)
    BY <1>22, Zenon DEF GetSeek, handleVars, memVars, clientVars
  <2>2. \A k \in Handles : (Asked(k) => Asked(k)') /\ (missed[k] => missed'[k])
    BY <2>1, SendAsks, TaskFacts, Zenon
  <2> QED
    BY <2>1, <2>2, Zenon DEF ClosedInv
<1>23. ASSUME NEW c \in Clients, FlushReturn(c) PROVE ClosedInv'
  BY <1>23, <1>1, Zenon DEF FlushReturn, handleVars, memVars, taskVars, history
<1>24. ASSUME NEW c \in Clients, NEW h \in Handles, TxNew(c, h) PROVE ClosedInv'
  BY <1>24, <1>1, Zenon DEF TxNew, handleVars, memVars, taskVars, history
<1>25. ASSUME NEW c \in Clients, NEW h \in Handles, FlushCall(c, h) PROVE ClosedInv'
  BY <1>25, <1>1, Zenon DEF FlushCall, handleVars, memVars, taskVars, history
<1>26. CASE UNCHANGED vars
  BY <1>1, <1>26, Zenon DEF vars, handleVars, memVars, taskVars, clientVars, history
<1> QED
  BY <1>2, <1>3, <1>4, <1>5, <1>6, <1>7, <1>8, <1>9, <1>10, <1>11, <1>12, <1>13, <1>14,
      <1>15, <1>16, <1>17, <1>18, <1>19, <1>20, <1>21, <1>22, <1>23, <1>24, <1>25, <1>26
  DEF Next, Background, Fails, Opening, Client, Calls
-----------------------------------------------------------------------------
(* The initial states: nothing is open, nothing is written. *)
LEMMA InvInit == Init => Inv
<1> SUFFICES ASSUME Init PROVE Inv
  OBVIOUS
<1>1. TypeOK
  <2>1. HandleTypes
    <3>1. wals = {} /\ lock = None
      BY Zenon DEF Init
    <3>2. buf \in [Handles -> Nat] /\ wal \in [Handles -> Nat \cup {None}]
      BY Zenon DEF Init
    <3>3. status \in [Handles -> {"closed", "opening", "open", "dropped"}]
      BY Zenon DEF Init
    <3> QED
      BY <3>1, <3>2, <3>3, Zenon DEF HandleTypes
  <2>2. MemTypes
    BY DEF Init, MemTypes
  <2>3. TaskTypes
    BY Zenon DEF Init, TaskTypes, Channels
  <2>4. ClientTypes
    BY Zenon DEF Init, ClientTypes, PCs
  <2>5. HistoryTypes
    BY Zenon DEF Init, HistoryTypes
  <2> QED
    BY <2>1, <2>2, <2>3, <2>4, <2>5, Zenon DEF TypeOK
<1>2. LifeInv
  <2>1. RestInv /\ LockInv
    BY StorageConstants, Zenon DEF Init, RestInv, LockInv
  <2>2. BorrowInv /\ OwnerInv
    BY Zenon DEF Init, BorrowInv, OwnerInv, Busy
  <2> QED
    BY <2>1, <2>2, Zenon DEF LifeInv
<1>3. AskInv /\ NeedInv
  BY TaskFacts, Zenon DEF Init, AskInv, NeedInv
<1>4. BalanceInv /\ DurableInv
  BY DEF Init, BalanceInv, DurableInv, Moving
<1>5. CountInv
  <2>1. ASSUME NEW h \in Handles PROVE Counted(h) = {} /\ tx_count[h] = 0
    BY StorageConstants, Zenon DEF Init, Counted
  <2>2. Cardinality({}) = 0
    BY FS_EmptySet, Zenon
  <2> QED
    BY <2>1, <2>2 DEF CountInv
<1>6. ClosedInv
  BY Zenon DEF Init, ClosedInv
<1>7. TrigInv /\ OverInv
  BY StorageConstants DEF Init, TrigInv, OverInv
<1>8. WalInv
  BY Zenon DEF Init, WalInv
<1> QED
  BY <1>1, <1>2, <1>3, <1>4, <1>5, <1>6, <1>7, <1>8, Zenon DEF Inv

(* Every step keeps the invariant. *)
LEMMA InvStep == Inv /\ [Next]_vars => Inv'
<1> SUFFICES ASSUME Inv, [Next]_vars PROVE Inv'
  OBVIOUS
<1> USE DEF Inv
<1>1. TypeOK' /\ AskInv'
  BY TypeStep, AskStep, Zenon
<1>2. LifeInv'
  BY RestStep, LockStep, BorrowStep, OwnerStep, Zenon DEF LifeInv
<1>3. NeedInv' /\ BalanceInv' /\ DurableInv'
  BY NeedStep, BalanceStep, DurableStep, Zenon
<1>4. CountInv' /\ ClosedInv'
  BY CountStep, ClosedStep, Zenon
<1>5. TrigInv' /\ OverInv' /\ WalInv'
  BY TrigStep, OverStep, WalStep, Zenon
<1> QED
  BY <1>1, <1>2, <1>3, <1>4, <1>5, Zenon

(* The invariant holds in every reachable state. *)
THEOREM StorageInvariant == Spec => []Inv
BY InvInit, InvStep, PTL DEF Spec

(***************************************************************************)
(* KipStorage::flush that returns Ok without an I/O error having happened  *)
(* has brought to disk whatever was written before it was called, whoever  *)
(* else writes, flushes, commits or gives up a call.                       *)
(***************************************************************************)
THEOREM FlushIsDurable == Spec => []FlushDurable
<1>1. Inv => FlushDurable
  BY Zenon DEF Inv, DurableInv, FlushDurable, TypeOK, MemTypes, ClientTypes
<1> QED
  BY <1>1, StorageInvariant, PTL

(***************************************************************************)
(* The background task ends with an empty _mem: the Flush that Drop sends  *)
(* is worked on after the last transaction has ended, unless try_send      *)
(* found a Seek in the channel.                                            *)
(***************************************************************************)
THEOREM ClosedIsFlushed == Spec => []ClosedFlushed
<1>1. Inv => ClosedFlushed
  BY Zenon DEF Inv, LifeInv, RestInv, ClosedInv, ClosedFlushed
<1> QED
  BY <1>1, StorageInvariant, PTL

(***************************************************************************)
(* An idle store is below the threshold of the minor trigger: a request    *)
(* that try_send dropped without an error was covered by the Flush in      *)
(* front of it, except behind a Seek.                                      *)
(***************************************************************************)
THEOREM OverfullIsExplained == Spec => []OverfullExplained
<1>1. Inv => OverfullExplained
  <2> SUFFICES ASSUME Inv, NEW h \in Handles, status[h] = "open", task[h] = None, chan[h] = <<>>,
                      \A c \in Clients : ~Owes(c, h), ~missed[h], ~failed
               PROVE  trig[h] < Threshold
    BY Zenon DEF OverfullExplained, Owes
  <2>1. ~Asked(h)
    BY Zenon DEF Asked, IsFlush
  <2>2. ~(trig[h] >= Threshold)
    BY <2>1, Zenon DEF Inv, OverInv
  <2> QED
    BY <2>2, StorageConstants DEF Inv, TypeOK, MemTypes
<1> QED
  BY <1>1, StorageInvariant, PTL

(***************************************************************************)
(* The WAL an open store writes to is the newest of the directory, the one *)
(* that LogLoader::reload takes after a crash.                             *)
(***************************************************************************)
THEOREM WalIsAlwaysNewest == Spec => []WalIsNewest
<1>1. Inv => WalIsNewest
  BY Zenon DEF Inv, WalInv, WalIsNewest
<1> QED
  BY <1>1, StorageInvariant, PTL
===============================================================================
