-------------------------------- MODULE Storage --------------------------------
(***************************************************************************)
(* KipStorage (lsm/storage.rs) with the task that compacts in the          *)
(* background: the channel between them, which has room for one task, the  *)
(* trigger that asks for a flush, flush() and its answer, the swap that    *)
(* waits until no transaction is counted, and opening and closing under    *)
(* the lock file of the directory.                                         *)
(*                                                                         *)
(* A handle is one KipStorage in a process of its own.  Clients are tasks  *)
(* that call its methods; a client may own a transaction while it calls    *)
(* others.  Data is counted, not looked at: what reads return is the       *)
(* subject of Mvcc, and what a restart finds that of Recovery.             *)
(***************************************************************************)
EXTENDS Integers, FiniteSets, Sequences, FiniteSetsExt

CONSTANTS
  Handles, Clients, None,
  Threshold,    \* of the minor trigger (TriggerType::Count)
  Recovered,    \* how many items a WAL may hold when it is opened
  Clocks,       \* what Gen::init may read
  Budgets       \* bounds on what may happen in a behaviour, of which it has one

ASSUME StorageConstants ==
  /\ None \notin Handles \cup Clients \cup Nat
  /\ Threshold \in Nat \ {0} /\ Recovered \subseteq Nat /\ Clocks \subseteq Nat

ASSUME StorageBounds ==
  /\ IsFiniteSet(Clients)
  /\ Budgets \subseteq [{"opens", "writes", "tx", "flushes", "seeks", "cancels", "failures"} -> Nat]

VARIABLES
  status,    \* of a handle: "closed", "opening", "open", "dropped"
  tries,     \* failed attempts of lock_or_time_out
  lock,      \* who holds the lock file
  buf,       \* GEN_BUF of the process
  wals,      \* the WAL files of the directory, by gen
  wal,       \* the WAL a handle writes to
  mem,       \* items in _mem
  trig,      \* item_count of the trigger
  written,   \* items inserted or recovered since the handle was opened
  flushed,   \* those of them that are in a Version
  tx_count,  \* of the MemTable
  chan,      \* the task channel
  task,      \* what the background task is at: None, a task, or Ended
  moving,    \* items between swap and the end of its minor compaction, or None
  pc,        \* of a client: what it is at
  at,        \* the handle whose method it runs
  own,       \* the handle of the transaction it owns
  need,      \* written at the call of flush
  missed,    \* history: a flush was not sent because of a Seek in the channel
  late,      \* history: a dropped handle swapped while another was open
  setback,   \* history: the clock of an opening was behind the gens of the directory
  failed,    \* history: there was an I/O error
  left       \* what is left of the budget

handleVars == <<status, tries, lock, buf, wals, wal>>
memVars == <<mem, trig, written, flushed>>
taskVars == <<chan, task, moving>>
clientVars == <<pc, at, own, need>>
history == <<missed, late, setback, failed>>
vars == <<handleVars, memVars, tx_count, taskVars, clientVars, history, left>>

Seek == [kind |-> "Seek"]
Flush(tx) == [kind |-> "Flush", tx |-> tx]
Ended == [kind |-> "Ended"]

ASSUME NoneIsNoTask == None \notin {Seek, Ended} \cup {Flush(c) : c \in Clients \cup {None}}

Init ==
  /\ status = [h \in Handles |-> "closed"] /\ tries = [h \in Handles |-> 0] /\ lock = None
  /\ buf = [h \in Handles |-> 0] /\ wals = {} /\ wal = [h \in Handles |-> None]
  /\ mem = [h \in Handles |-> 0] /\ trig = [h \in Handles |-> 0]
  /\ written = [h \in Handles |-> 0] /\ flushed = [h \in Handles |-> 0]
  /\ tx_count = [h \in Handles |-> 0]
  /\ chan = [h \in Handles |-> <<>>] /\ task = [h \in Handles |-> Ended]
  /\ moving = [h \in Handles |-> None]
  /\ pc = [c \in Clients |-> "idle"] /\ at = [c \in Clients |-> None]
  /\ own = [c \in Clients |-> None] /\ need = [c \in Clients |-> 0]
  /\ missed = [h \in Handles |-> FALSE] /\ late = FALSE /\ setback = FALSE
  /\ failed = FALSE /\ left \in Budgets

Spend(what, n) == left[what] >= n /\ left' = [left EXCEPT ![what] = @ - n]

Use(what) == Spend(what, 1)

Fail == Use("failures") /\ failed' = TRUE
-----------------------------------------------------------------------------
(***************************************************************************)
(* open_with_config: Gen::init reads the clock, before the lock is taken.  *)
(***************************************************************************)
OpenStart(h) ==
  /\ status[h] = "closed" /\ Use("opens")
  /\ h = CHOOSE k \in Handles : status[k] = "closed"  \* handles are interchangeable
  /\ \E now \in Clocks : buf' = [buf EXCEPT ![h] = now]
  /\ status' = [status EXCEPT ![h] = "opening"] /\ tries' = [tries EXCEPT ![h] = 0]
  /\ UNCHANGED <<lock, wals, wal, memVars, tx_count, taskVars, clientVars, history>>

try_lock(h) == lock = None

(* Faulty: the oldest WAL is opened. *)
newest_wal_Oldest(h) == IF wals = {} THEN buf[h] ELSE Min(wals)

(* LogLoader::_reload: the newest WAL, or a new one *)
newest_wal(h) == IF wals = {} THEN buf[h] ELSE Max(wals)

(* lock_or_time_out succeeds; StoreInner::new; the background task starts *)
OpenLocked(h) ==
  /\ status[h] = "opening" /\ try_lock(h)
  /\ lock' = h
  /\ wal' = [wal EXCEPT ![h] = newest_wal(h)] /\ wals' = wals \cup {newest_wal(h)}
  /\ buf' = [buf EXCEPT ![h] = @ + 1]  \* unwrap_or(Gen::create()) calls it in both cases
  /\ \E n \in Recovered :
       mem' = [mem EXCEPT ![h] = n] /\ written' = [written EXCEPT ![h] = n]
  /\ trig' = [trig EXCEPT ![h] = 0] /\ flushed' = [flushed EXCEPT ![h] = 0]
  /\ tx_count' = [tx_count EXCEPT ![h] = 0]
  /\ task' = [task EXCEPT ![h] = None]
  /\ status' = [status EXCEPT ![h] = "open"]
  /\ missed' = [missed EXCEPT ![h] = FALSE]
  /\ setback' = (setback \/ \E g \in wals : buf[h] <= g)
  /\ UNCHANGED <<tries, chan, moving, clientVars, late, failed, left>>

(* backoff is 1, 2 and 4: three more attempts, then ProcessExists *)
OpenBusy(h) ==
  /\ status[h] = "opening" /\ ~try_lock(h)
  /\ tries' = [tries EXCEPT ![h] = @ + 1]
  /\ status' = [status EXCEPT ![h] = IF tries[h] < 3 THEN "opening" ELSE "closed"]
  /\ UNCHANGED <<lock, buf, wals, wal, memVars, tx_count, taskVars, clientVars, history, left>>

(***************************************************************************)
(* try_send: a full channel drops the task silently.  Behind a Flush this  *)
(* loses nothing, behind a Seek a Flush is lost.                           *)
(***************************************************************************)
try_send(h, t) ==
  /\ chan' = [chan EXCEPT ![h] = IF @ = <<>> THEN <<t>> ELSE @]
  /\ missed' = [missed EXCEPT ![h] = @ \/ (t # Seek /\ chan[h] # <<>> /\ chan[h][1] = Seek)]

(* Drop for KipStorage: nobody borrows it; transactions may live on *)
Drop(h) ==
  /\ status[h] = "open" /\ \A c \in Clients : at[c] # h
  /\ lock' = None
  /\ try_send(h, Flush(None))
  /\ status' = [status EXCEPT ![h] = "dropped"]
  /\ UNCHANGED <<tries, buf, wals, wal, memVars, tx_count, task, moving, clientVars,
                 late, setback, failed, left>>
-----------------------------------------------------------------------------
(* Clients.  A method that borrows the handle sets at[c]. *)
HasNothing(c) == pc[c] = "idle" /\ own[c] = None

(* c may call a method; clients without a transaction are interchangeable *)
Idle(c) ==
  pc[c] = "idle" /\ (own[c] = None => c = CHOOSE d \in Clients : HasNothing(d))

Goto(c, p, h) == pc' = [pc EXCEPT ![c] = p] /\ at' = [at EXCEPT ![c] = h]

(* insert_data and insert_batch_data count every item *)
Insert(h, n) ==
  /\ mem' = [mem EXCEPT ![h] = @ + n] /\ trig' = [trig EXCEPT ![h] = @ + n]
  /\ written' = [written EXCEPT ![h] = @ + n]
  /\ UNCHANGED flushed

(* Faulty: more than the threshold is needed. *)
is_exceeded_Above(h) == trig'[h] > Threshold

is_exceeded(h) == trig'[h] >= Threshold

(* set and remove: append_cmd_data up to the end of insert_data *)
Set(c, h) ==
  /\ Idle(c) /\ status[h] = "open" /\ Use("writes")
  /\ Insert(h, 1)
  /\ IF is_exceeded(h) THEN Goto(c, "exceeded", h) ELSE UNCHANGED <<pc, at>>
  /\ UNCHANGED <<handleVars, tx_count, taskVars, own, need, history>>

(* append_cmd_data, the rest *)
SetSend(c) ==
  /\ pc[c] = "exceeded"
  /\ try_send(at[c], Flush(None))
  /\ Goto(c, "idle", None)
  /\ UNCHANGED <<handleVars, memVars, tx_count, task, moving, own, need, late, setback, failed, left>>

(* get: query_and_compaction asks for a seek compaction *)
GetSeek(c, h) ==
  /\ Idle(c) /\ status[h] = "open" /\ Use("seeks")
  /\ try_send(h, Seek)
  /\ UNCHANGED <<handleVars, memVars, tx_count, task, moving, clientVars, late, setback, failed>>

(* Transaction::new up to its await *)
TxNew(c, h) ==
  /\ Idle(c) /\ status[h] = "open" /\ own[c] = None /\ Use("tx")
  /\ tx_count' = [tx_count EXCEPT ![h] = @ + 1]
  /\ Goto(c, "txnew", h)
  /\ UNCHANGED <<handleVars, memVars, taskVars, own, need, history>>

TxReady(c) ==
  /\ pc[c] = "txnew"
  /\ own' = [own EXCEPT ![c] = at[c]]
  /\ Goto(c, "idle", None)
  /\ UNCHANGED <<handleVars, memVars, tx_count, taskVars, need, history, left>>

(* commit up to the end of insert_batch_data *)
TxCommit(c, n) ==
  /\ Idle(c) /\ own[c] # None
  /\ Spend("writes", n)
  /\ Insert(own[c], n)
  /\ pc' = [pc EXCEPT ![c] = IF is_exceeded(own[c]) THEN "commit_over" ELSE "commit"]
  /\ UNCHANGED <<handleVars, tx_count, taskVars, at, own, need, history>>

(* The rest of commit, and Drop for Transaction; also a transaction that is given up *)
TxEnd(c) ==
  /\ own[c] # None /\ pc[c] \in {"idle", "commit", "commit_over"}
  /\ IF pc[c] = "commit_over" THEN try_send(own[c], Flush(None)) ELSE UNCHANGED <<chan, missed>>
  /\ tx_count' = [tx_count EXCEPT ![own[c]] = @ - 1]
  /\ own' = [own EXCEPT ![c] = None]
  /\ pc' = [pc EXCEPT ![c] = "idle"]
  /\ UNCHANGED <<handleVars, memVars, task, moving, at, need, late, setback, failed, left>>

(* commit with an I/O error of the WAL: _mem and trigger have the batch, no flush is asked for *)
TxFails(c, n) ==
  /\ Idle(c) /\ own[c] # None /\ Fail
  /\ Insert(own[c], n)
  /\ tx_count' = [tx_count EXCEPT ![own[c]] = @ - 1]
  /\ own' = [own EXCEPT ![c] = None]
  /\ UNCHANGED <<handleVars, taskVars, pc, at, need, missed, late, setback>>

(* flush: send waits until the channel has room *)
FlushCall(c, h) ==
  /\ Idle(c) /\ status[h] = "open" /\ Use("flushes")
  /\ Goto(c, "sending", h)
  /\ need' = [need EXCEPT ![c] = written[h]]
  /\ UNCHANGED <<handleVars, memVars, tx_count, taskVars, own, history>>

FlushSend(c) ==
  /\ pc[c] = "sending" /\ chan[at[c]] = <<>>
  /\ chan' = [chan EXCEPT ![at[c]] = <<Flush(c)>>]
  /\ Goto(c, "awaiting", at[c])
  /\ UNCHANGED <<handleVars, memVars, tx_count, task, moving, own, need, history, left>>

FlushReturn(c) ==
  /\ pc[c] \in {"ok", "err"}
  /\ Goto(c, "idle", None)
  /\ need' = [need EXCEPT ![c] = 0]
  /\ UNCHANGED <<handleVars, memVars, tx_count, taskVars, own, history, left>>

(***************************************************************************)
(* A future is dropped at an await.  The count of Transaction::new stays;  *)
(* a flush that was sent is done and its answer finds no receiver.         *)
(***************************************************************************)
Forget(c, t) == IF t = Flush(c) THEN Flush(None) ELSE t

Cancel(c) ==
  /\ pc[c] \in {"sending", "awaiting", "txnew"} /\ Use("cancels")
  /\ chan' = [h \in Handles |-> [i \in DOMAIN chan[h] |-> Forget(c, chan[h][i])]]
  /\ task' = [h \in Handles |-> Forget(c, task[h])]
  /\ Goto(c, "idle", None)
  /\ need' = [need EXCEPT ![c] = 0]
  /\ UNCHANGED <<handleVars, memVars, tx_count, moving, own, history>>
-----------------------------------------------------------------------------
(* The background task *)
Senders(h) == status[h] = "open" \/ \E c \in Clients : own[c] = h

Recv(h) ==
  /\ task[h] = None /\ chan[h] # <<>>
  /\ task' = [task EXCEPT ![h] = chan[h][1]] /\ chan' = [chan EXCEPT ![h] = <<>>]
  /\ UNCHANGED <<handleVars, memVars, tx_count, moving, clientVars, history, left>>

(* recv answers None: the last sender is gone.  The handle may be opened again. *)
RecvNone(h) ==
  /\ task[h] = None /\ chan[h] = <<>> /\ ~Senders(h)
  /\ task' = [task EXCEPT ![h] = Ended]
  /\ status' = [status EXCEPT ![h] = "closed"]
  /\ wal' = [wal EXCEPT ![h] = None] /\ buf' = [buf EXCEPT ![h] = 0]
  /\ UNCHANGED <<tries, lock, wals, memVars, tx_count, chan, moving, clientVars, history, left>>

(* major_compaction of a Seek, which leaves the MemTable alone, done or failed *)
RunSeek(h) ==
  /\ task[h] = Seek
  /\ task' = [task EXCEPT ![h] = None]
  /\ UNCHANGED <<handleVars, memVars, tx_count, chan, moving, clientVars, history, left>>

IsFlush(h) == task[h] \notin {None, Ended, Seek}

(* Faulty: the sender of the answer is kept after an error. *)
Answer_OnlyOk(h, result) ==
  /\ pc' = [c \in Clients |-> IF task[h].tx = c /\ result = "ok" THEN result ELSE pc[c]]
  /\ task' = [task EXCEPT ![h] = None]
  /\ UNCHANGED <<at, own, need>>

(* The sender of the answer is used, or dropped with an error *)
Answer(h, result) ==
  /\ pc' = [c \in Clients |-> IF task[h].tx = c THEN result ELSE pc[c]]
  /\ task' = [task EXCEPT ![h] = None]
  /\ UNCHANGED <<at, own, need>>

NothingToSwap(h) == mem[h] = 0

(* Faulty: swap does not wait for transactions. *)
NoTransaction_Ignored(h) == TRUE

(* The spin loop of swap ends *)
NoTransaction(h) == tx_count[h] = 0

(* check_then_compaction: swap finds _mem empty *)
SwapNone(h) ==
  /\ IsFlush(h) /\ moving[h] = None /\ NoTransaction(h) /\ NothingToSwap(h)
  /\ Answer(h, "ok")
  /\ UNCHANGED <<handleVars, memVars, tx_count, chan, moving, history, left>>

SwapMem(h) ==
  /\ mem' = [mem EXCEPT ![h] = 0] /\ trig' = [trig EXCEPT ![h] = 0]
  /\ missed' = [missed EXCEPT ![h] = FALSE]
  /\ late' = (late \/ (status[h] = "dropped" /\ lock # None))
  /\ UNCHANGED <<written, flushed>>

(* Faulty: the answer is sent before the compaction. *)
swap_Answers(h) ==
  /\ IsFlush(h) /\ moving[h] = None /\ NoTransaction(h) /\ ~NothingToSwap(h)
  /\ moving' = [moving EXCEPT ![h] = mem[h]]
  /\ SwapMem(h)
  /\ pc' = [c \in Clients |-> IF task[h].tx = c THEN "ok" ELSE pc[c]]
  /\ task' = [task EXCEPT ![h] = Flush(None)]
  /\ wal' = [wal EXCEPT ![h] = buf[h]] /\ wals' = wals \cup {buf[h]}
  /\ buf' = [buf EXCEPT ![h] = @ + 1]
  /\ UNCHANGED <<status, tries, lock, tx_count, chan, at, own, need, setback, failed, left>>

swap(h) ==
  /\ IsFlush(h) /\ moving[h] = None /\ NoTransaction(h) /\ ~NothingToSwap(h)
  /\ moving' = [moving EXCEPT ![h] = mem[h]]
  /\ SwapMem(h)
  /\ wal' = [wal EXCEPT ![h] = buf[h]] /\ wals' = wals \cup {buf[h]}
  /\ buf' = [buf EXCEPT ![h] = @ + 1]
  /\ UNCHANGED <<status, tries, lock, tx_count, chan, task, clientVars, setback, failed, left>>

(* The new writer cannot be made: _mem is moved, the WAL stays, no compaction *)
SwapFails(h) ==
  /\ IsFlush(h) /\ moving[h] = None /\ NoTransaction(h) /\ ~NothingToSwap(h)
  /\ Fail
  /\ SwapMem(h)
  /\ buf' = [buf EXCEPT ![h] = @ + 1]
  /\ Answer(h, "err")
  /\ UNCHANGED <<status, tries, lock, wals, wal, tx_count, chan, moving, setback>>

minor_compaction(h) ==
  /\ moving[h] # None
  /\ flushed' = [flushed EXCEPT ![h] = @ + moving[h]]
  /\ moving' = [moving EXCEPT ![h] = None]
  /\ Answer(h, "ok")
  /\ UNCHANGED <<handleVars, mem, trig, written, tx_count, chan, history, left>>

MinorFails(h) ==
  /\ moving[h] # None /\ Fail
  /\ moving' = [moving EXCEPT ![h] = None]
  /\ Answer(h, "err")
  /\ UNCHANGED <<handleVars, memVars, tx_count, chan, missed, late, setback>>
-----------------------------------------------------------------------------
Background(h) ==
  Recv(h) \/ RecvNone(h) \/ RunSeek(h) \/ SwapNone(h) \/ swap(h) \/ minor_compaction(h)

Fails(h) == SwapFails(h) \/ MinorFails(h)

Opening(h) == OpenStart(h) \/ OpenLocked(h) \/ OpenBusy(h)

Calls(c, h) == Set(c, h) \/ GetSeek(c, h) \/ TxNew(c, h) \/ FlushCall(c, h)

Client(c) ==
  \/ SetSend(c) \/ TxReady(c) \/ TxEnd(c) \/ FlushSend(c) \/ FlushReturn(c) \/ Cancel(c)
  \/ \E n \in 1..2 : TxCommit(c, n) \/ TxFails(c, n)

Next ==
  \/ \E h \in Handles : Opening(h) \/ Drop(h) \/ Background(h) \/ Fails(h)
  \/ \E c \in Clients : Client(c) \/ \E h \in Handles : Calls(c, h)

(***************************************************************************)
(* The runtime polls the background task, and a sender that waits for room *)
(* gets it in turn (the semaphore of the channel is fair).  Nothing is     *)
(* assumed of what clients do with their transactions.                     *)
(***************************************************************************)
Fairness ==
  /\ \A h \in Handles : WF_vars(Background(h))
  /\ \A c \in Clients : SF_vars(FlushSend(c))

Spec == Init /\ [][Next]_vars /\ Fairness
-----------------------------------------------------------------------------
(***************************************************************************)
(* flush() that returns Ok has brought everything into a Version that was  *)
(* written before the call, whatever transactions, other writers and other *)
(* tasks do meanwhile.  (After an I/O error the data it left in _immut is  *)
(* not flushed again, and the next flush() returns Ok all the same.)       *)
(***************************************************************************)
FlushDurable == \A c \in Clients : pc[c] = "ok" /\ ~failed => flushed[at[c]] >= need[c]

(***************************************************************************)
(* A store whose background task has ended has flushed all its data, the   *)
(* commits of transactions that outlived the handle included, unless the   *)
(* flush that Drop asks for found a Seek in the channel.                   *)
(***************************************************************************)
ClosedFlushed ==
  \A h \in Handles : task[h] = Ended /\ ~failed /\ ~missed[h] => mem[h] = 0

(***************************************************************************)
(* When the background task has nothing to do, _mem is below the threshold *)
(* of the trigger: a request that try_send dropped was covered by the      *)
(* Flush in front of it, unless that was a Seek.                           *)
(***************************************************************************)
OverfullExplained ==
  \A h \in Handles :
    /\ status[h] = "open" /\ task[h] = None /\ chan[h] = <<>>
    /\ \A c \in Clients : /\ ~(pc[c] = "exceeded" /\ at[c] = h)
                          /\ ~(pc[c] = "commit_over" /\ own[c] = h)
    => trig[h] < Threshold \/ missed[h] \/ failed

(***************************************************************************)
(* The WAL of an open store is the newest of the directory, so that the    *)
(* next opening reads it, unless the clock it had read was behind (set     *)
(* back, or read before another process opened and closed the store), or a *)
(* dropped handle swapped after it had given up the lock.                  *)
(***************************************************************************)
WalIsNewest ==
  ~late /\ ~setback =>
    \A h \in Handles : status[h] = "open" => wal[h] \in wals /\ \A g \in wals : g <= wal[h]

(***************************************************************************)
(* If no transaction is counted from some time on, every flush() returns:  *)
(* also with a full channel, after errors and after other calls were       *)
(* cancelled.                                                              *)
(***************************************************************************)
FlushAnswered ==
  <>[](\A h \in Handles : tx_count[h] = 0) =>
    \A c \in Clients : pc[c] \in {"sending", "awaiting"} ~> pc[c] \notin {"sending", "awaiting"}
=============================================================================
