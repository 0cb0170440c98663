------------------------------- MODULE LogFormat -------------------------------
(***************************************************************************)
(* The blocks of a log file (lsm/log.rs): LogWriter::add_record cuts a     *)
(* record into fragments that do not cross the end of a block, and         *)
(* LogReader::read puts them together again, over a file that lost its     *)
(* tail when the process died and that is written again afterwards: from   *)
(* its start if it is a WAL, at its end if it is a version log.            *)
(*                                                                         *)
(* A file is a sequence of cells.  A header has three of them for its 4 +  *)
(* 4 + 1 bytes (checksum, length, type), data one for each byte.  A cell   *)
(* carries the number rec of the record it was written for.  A checksum is *)
(* the place in the record from which its fragment was taken: that other   *)
(* bytes fit it by accident is excluded.                                   *)
(***************************************************************************)
EXTENDS Integers, SequencesExt

CONSTANTS
  BLOCK_SIZE,
  Lens,         \* lengths of the records to add
  MaxRecords,   \* bound on records
  MaxOpens,     \* bound on openings of the file
  MaxFailures   \* bound on I/O errors

HEADER_SIZE == 3

ASSUME LogConstants ==
  /\ BLOCK_SIZE \in Nat /\ BLOCK_SIZE > HEADER_SIZE
  /\ Lens \subseteq Nat \ {0}
  /\ MaxRecords \in Nat /\ MaxOpens \in Nat /\ MaxFailures \in Nat

VARIABLES
  kind,      \* "wal" or "version"
  file,      \* the cells of the file
  base,      \* the file as it was when this process opened it
  pos, off,  \* LogWriter: where dst is, and current_block_offset
  phase,     \* "loading", "ready" (just loaded), "writing", "failed", "panicked"
  rd,        \* LogReader: where src is, its offset, head_pos, and dst of read
  loaded,    \* what this opening has read
  added,     \* history: the lengths of the records
  trusted,   \* history: records at the head of the file that a load must return
  sound,     \* history: the next record will be one of them
  pure,      \* history: behind them there is nothing but part of one more record
  opens, failures

vars == <<kind, file, base, pos, off, phase, rd, loaded, added, trusted,
          sound, pure, opens, failures>>

Fresh == [pos |-> 0, off |-> 0, head |-> 0, dst |-> <<>>]

Init ==
  /\ kind \in {"wal", "version"}
  /\ file = <<>> /\ base = <<>> /\ pos = 0 /\ off = 0
  /\ phase = "loading" /\ rd = Fresh /\ loaded = <<>>
  /\ added = <<>> /\ trusted = <<>> /\ sound = TRUE /\ pure = TRUE
  /\ opens = 1 /\ failures = 0
-----------------------------------------------------------------------------
(* Cells *)
Cell(i, f, v) == [rec |-> i, field |-> f, val |-> v]

Data(i, from, n) == [j \in 1..n |-> Cell(i, "data", from + j)]

Zeros(i, n) == [j \in 1..n |-> Cell(i, "zero", 0)]

(* emit_record: the header and a fragment of n bytes *)
emit_record(i, t, from, n) ==
  <<Cell(i, "crc", from), Cell(i, "len", n), Cell(i, "type", t)>> \o Data(i, from, n)

(* What is left of a block that has no room for a header *)
PadLen(o) == IF BLOCK_SIZE - o < HEADER_SIZE THEN BLOCK_SIZE - o ELSE 0

(* The block offset at which the next header goes *)
HeaderAt(o) == IF BLOCK_SIZE - o < HEADER_SIZE THEN 0 ELSE o

(* Faulty: the last fragment of a record is not marked. *)
RecordType_NoLast(first, last) ==
  CASE first /\ last  -> "Full"
    [] first /\ ~last -> "First"
    [] OTHER          -> "Middle"

RecordType(first, last) ==
  CASE first /\ last   -> "Full"
    [] first /\ ~last  -> "First"
    [] ~first /\ last  -> "Last"
    [] ~first /\ ~last -> "Middle"

(***************************************************************************)
(* The loop of add_record for record i of n bytes, started at a block      *)
(* offset: the cells it writes, each with the block offset that is left if *)
(* the write behind it fails (a fragment is counted when it is complete).  *)
(* A block with just enough room for a header gets a fragment of length 0. *)
(***************************************************************************)
Counted(cells, before, after) ==
  [k \in DOMAIN cells |-> [cell |-> cells[k], off |-> IF k = Len(cells) THEN after ELSE before]]

Writes(i, n, start) ==
  LET rest[done \in 0..n, o \in 0..BLOCK_SIZE, first \in BOOLEAN] ==
        IF done = n THEN <<>>
        ELSE LET at == HeaderAt(o)
                 room == BLOCK_SIZE - at - HEADER_SIZE
                 frag == IF n - done < room THEN n - done ELSE room
             IN  Counted(Zeros(i, PadLen(o)), o, 0)
                 \o Counted(emit_record(i, RecordType(first, done + frag = n), done, frag),
                            at, at + HEADER_SIZE + frag)
                 \o rest[done + frag, at + HEADER_SIZE + frag, FALSE]
  IN  rest[0, start, TRUE]

Cells(w) == [k \in DOMAIN w |-> w[k].cell]

(* write_all at a position inside or at the end of the file *)
WriteAt(f, p, cells) == SubSeq(f, 1, p) \o cells \o SubSeq(f, p + Len(cells) + 1, Len(f))
-----------------------------------------------------------------------------
(***************************************************************************)
(* History.  A WAL is written from its start, so that all it held is lost. *)
(* A version log goes on behind what is there: what is added is readable   *)
(* if that ended with a record, and up to the end of the block in which    *)
(* the writer, who counts from 0, is out of step with the reader.          *)
(***************************************************************************)
End(t) == IF t = <<>> THEN 0 ELSE Last(t).end

Kept == IF kind = "wal" /\ phase = "ready" THEN <<>> ELSE trusted

InStep(p) ==
  kind = "version" /\ Len(base) % BLOCK_SIZE # 0
    => p <= (Len(base) \div BLOCK_SIZE + 1) * BLOCK_SIZE

Trustworthy ==
  IF phase # "ready" THEN sound
  ELSE kind = "wal" \/ (sound /\ End(trusted) = Len(file))

Purity == IF phase = "ready" /\ kind = "wal" THEN file = <<>> ELSE pure

(* Bound: what the last opening writes is not read again *)
CanAdd == phase \in {"ready", "writing"} /\ Len(added) < MaxRecords /\ opens < MaxOpens

Added(w) ==
  /\ file' = WriteAt(file, pos, Cells(w))
  /\ pos' = pos + Len(w)
  /\ off' = IF w = <<>> THEN off ELSE Last(w).off
  /\ phase' = "writing"

add_record(n) ==
  /\ CanAdd
  /\ Added(Writes(Len(added) + 1, n, off))
  /\ added' = Append(added, n)
  /\ sound' = (Trustworthy /\ InStep(pos'))
  /\ pure' = (Purity /\ sound')
  /\ trusted' = IF sound' THEN Append(Kept, [rec |-> Len(added) + 1, end |-> pos']) ELSE Kept
  /\ UNCHANGED <<kind, base, rd, loaded, opens, failures>>

(***************************************************************************)
(* A write fails behind the first m cells.  The block offset counts whole  *)
(* fragments only; the caller returns the error, and later calls go on.    *)
(***************************************************************************)
AddFails(n) ==
  /\ CanAdd /\ failures < MaxFailures
  /\ LET w == Writes(Len(added) + 1, n, off)
     IN  \E m \in 0..(Len(w) - 1) : Added(SubSeq(w, 1, m))
  /\ added' = Append(added, n)
  /\ failures' = failures + 1
  /\ sound' = FALSE /\ pure' = FALSE /\ trusted' = Kept
  /\ UNCHANGED <<kind, base, rd, loaded, opens>>
-----------------------------------------------------------------------------
(* Faulty: the reader never skips the end of a block. *)
Skip_Never(r) == r

(***************************************************************************)
(* The head of the loop of read.  If the offset is past the end of the     *)
(* block, block_size - offset overflows: a build that checks this panics,   *)
(* in another the result is large and nothing is skipped, then or later.   *)
(***************************************************************************)
Skip(r) ==
  IF r.off <= BLOCK_SIZE /\ BLOCK_SIZE - r.off < HEADER_SIZE
  THEN [r EXCEPT !.pos = @ + (BLOCK_SIZE - r.off), !.off = 0] ELSE r

Overflows == rd.off > BLOCK_SIZE

Available(r) == IF r.pos < Len(file) THEN Len(file) - r.pos ELSE 0
Got(r) == IF Available(r) < HEADER_SIZE - r.head THEN Available(r) ELSE HEADER_SIZE - r.head
AfterHead(r) == [r EXCEPT !.pos = @ + Got(r), !.head = @ + Got(r)]

(* The header in head_scratch, when r has just read all of it *)
HeadCell(r, k) == file[r.pos - HEADER_SIZE + k]

IsHeader(r) == /\ HeadCell(r, 1).field = "crc" /\ HeadCell(r, 2).field = "len"
               /\ HeadCell(r, 3).field = "type"
(* Zeros of a padding: length 0, and the checksum of nothing is 0 *)
IsZero(r) == HeadCell(r, 1).field = "zero" /\ HeadCell(r, 2).field = "zero"

Buf(r, n) == SubSeq(file, r.pos + 1, r.pos + n)

Fits(r) == /\ HeadCell(r, 2).val <= Available(r)
           /\ Buf(r, HeadCell(r, 2).val)
                = Data(HeadCell(r, 1).rec, HeadCell(r, 1).val, HeadCell(r, 2).val)

AfterData(r, n) ==
  [pos |-> r.pos + n, off |-> r.off + HEADER_SIZE + n, head |-> 0, dst |-> r.dst \o Buf(r, n)]

Records(t) == [k \in DOMAIN t |-> Data(t[k].rec, 0, added[t[k].rec])]

IsWhole(d) == \E i \in DOMAIN added : d = Data(i, 0, added[i])

(***************************************************************************)
(* read returns a record of at least a byte: load decodes it, and reads on *)
(* unless that fails, as it may if this is not what was given to           *)
(* add_record.                                                             *)
(***************************************************************************)
Return(r) ==
  /\ rd' = [r EXCEPT !.dst = <<>>]
  /\ \/ loaded' = Append(loaded, r.dst) /\ UNCHANGED phase
     \/ ~IsWhole(r.dst) /\ phase' = "failed" /\ UNCHANGED loaded

(* load ends: read has returned 0 or an error *)
Stop(r) == phase' = "ready" /\ rd' = r /\ UNCHANGED loaded

Ends(t) == t \in {"Full", "Last"}

Continue(r, t) ==
  IF ~Ends(t) THEN rd' = r /\ UNCHANGED <<phase, loaded>>
  ELSE IF r.dst = <<>> THEN Stop(r) ELSE Return(r)

(* Faulty: the end of the file is not the end of a record. *)
EndOfFile_Waits(r) == IF r.dst = <<>> THEN Stop(r) ELSE rd' = r /\ UNCHANGED <<phase, loaded>>

(* At the end of the file read returns what it has, be it an unfinished record *)
EndOfFile(r) == IF r.dst = <<>> THEN Stop(r) ELSE Return(r)

(* One iteration of the loop of read, r the reader after the header was read *)
Iteration(r) ==
  \/ r.head = 0 /\ EndOfFile(r)
  \/ r.head \in 1..(HEADER_SIZE - 1) /\ rd' = r /\ UNCHANGED <<phase, loaded>>
  \/ /\ r.head = HEADER_SIZE
     /\ \/ IsHeader(r) /\ Fits(r)
           /\ Continue(AfterData(r, HeadCell(r, 2).val), HeadCell(r, 3).val)
        \/ IsZero(r) /\ \E t \in {"Full", "First", "Middle", "Last"} :
             Continue(AfterData(r, 0), t)
        \/ IsZero(r) /\ phase' = "panicked" /\ UNCHANGED <<rd, loaded>>  \* Unknown value
        \/ ~IsZero(r) /\ ~(IsHeader(r) /\ Fits(r)) /\ Stop(r)

read ==
  /\ phase = "loading"
  /\ \/ Overflows /\ phase' = "panicked" /\ UNCHANGED <<rd, loaded>>
     \/ \E r \in {AfterHead(Skip(rd))} : Iteration(r)
  (* load is done: the writer is at the start of a WAL, at the end of a version log *)
  /\ pos' = IF kind = "wal" THEN 0 ELSE Len(file)
  /\ off' = 0
  /\ UNCHANGED <<kind, file, base, added, trusted, sound, pure, opens, failures>>
-----------------------------------------------------------------------------
(***************************************************************************)
(* The process or the machine dies: of the cells written since the opening *)
(* only the first m have reached the file, which is opened again.          *)
(***************************************************************************)
Start == IF kind = "wal" THEN 0 ELSE Len(base)

Crash ==
  /\ opens < MaxOpens /\ phase # "loading"
  /\ \E m \in 0..(IF phase = "writing" THEN pos - Start ELSE 0) :
       LET f == SubSeq(file, 1, Start + m) \o SubSeq(base, Start + m + 1, Len(base))
       IN  /\ file' = f /\ base' = f
           /\ trusted' = IF phase = "writing"
                         THEN SelectSeq(trusted, LAMBDA t : t.end <= Start + m) ELSE trusted
  /\ opens' = opens + 1
  /\ phase' = "loading" /\ rd' = Fresh /\ loaded' = <<>> /\ pos' = 0 /\ off' = 0
  /\ UNCHANGED <<kind, added, sound, pure, failures>>

Next ==
  \/ \E n \in Lens : add_record(n) \/ AddFails(n)
  \/ read
  \/ Crash

(* The thread that opens the store runs. *)
Spec == Init /\ [][Next]_vars /\ WF_vars(read)
-----------------------------------------------------------------------------
TornHeader == Len(file) - rd.pos = 0 /\ rd.head \in 1..(HEADER_SIZE - 1)

(***************************************************************************)
(* A load gives back, first and in their order, the records that were      *)
(* written before anything went wrong: whole records of a torn file, those *)
(* before a write that failed, those with which a WAL was overwritten, and *)
(* those appended to a version log by a writer whose blocks begin          *)
(* elsewhere than the reader's, up to the end of the reader's block.       *)
(***************************************************************************)
TrustedRead ==
  phase \in {"ready", "failed", "panicked"} \/ TornHeader =>
    IsPrefix(Records(trusted), loaded)

(***************************************************************************)
(* A file that was only appended to and then torn gives nothing else,      *)
(* except that the whole fragments of the torn record may come back as if  *)
(* they were a record (the loop of read ends so at the end of the file).   *)
(***************************************************************************)
NothingElse ==
  pure /\ phase \in {"ready", "failed", "panicked"} =>
    /\ phase # "panicked"
    /\ \/ loaded = Records(trusted)
       \/ /\ Front(loaded) = Records(trusted)
          /\ \E i \in DOMAIN added, n \in 1..(BLOCK_SIZE * MaxRecords) :
                n < added[i] /\ Last(loaded) = Data(i, 0, n)

(***************************************************************************)
(* Opening ends, whatever the file holds, unless the file ends inside a    *)
(* header: there the loop of read goes on for ever.                        *)
(***************************************************************************)
LoadEnds == phase = "loading" ~> (phase # "loading" \/ TornHeader)
=============================================================================
