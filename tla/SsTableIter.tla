---------------------------- MODULE SsTableIter ----------------------------
(***************************************************************************)
(* One SSTable and a client that reads it: queries, and an iterator moved  *)
(* forwards, backwards and by seeks.  The table is built from any sorted   *)
(* data with any of the given options and seeds, and is the one that was   *)
(* written or one loaded from its file.  Blocks come from the file always. *)
(***************************************************************************)
EXTENDS SsTableFile

CONSTANTS ValueOf,     \* the value written under a key
          Seeds,       \* of the hashers
          BlockSizes, RestartIntervals   \* the options of a table

ASSUME ValueAssumption == DOMAIN ValueOf = Keys

\* With an interval of 1 offset_move subtracts 1 from offset 0, which a build
\* with overflow checks refuses.
ASSUME IntervalAssumption == \A n \in RestartIntervals : n \in Nat /\ n >= 2

Lost == -1

VARIABLES data,     \* the sorted pairs the table was built from
          iter,     \* the iterator, which refers to its table
          answer,   \* what the last try_next or try_prev answered
          pos,      \* history: the place in data where the iterator should be
          seeked    \* history: the last call was a seek

vars == <<data, iter, answer, pos, seeked>>

table == iter.table

Sorted(keys) == SetToSortSeq(keys, Less)

Options == [block_size : BlockSizes, data_restart_interval : RestartIntervals,
            index_restart_interval : RestartIntervals]

Init ==
  \E keys \in SUBSET Keys \ {{}}, opt \in Options :
    /\ data = [i \in 1..Cardinality(keys) |-> <<Sorted(keys)[i], ValueOf[Sorted(keys)[i]]>>]
    /\ \E seeds \in Seeds :
         \E t \in {create_table(data, opt, seeds, 0)} :
           \E loaded \in {Opened(t), Opened(load_from_file(t.file))} : iter = SSTableIter(loaded)
    /\ answer = None
    /\ pos = 0
    /\ seeked = FALSE

\* The iterator turns back only from an item: after it ran off an end, and after
\* a seek, the next step back is not the neighbour (README).
Forth == IF pos = Lost THEN Lost ELSE Lesser(pos + 1, Len(data) + 1)
Back == IF pos \in 2..Len(data) /\ ~seeked THEN pos - 1 ELSE Lost

TryNext ==
  LET step == try_next(iter)
  IN  /\ iter' = step.iter
      /\ answer' = step.item
      /\ pos' = Forth
      /\ seeked' = FALSE
      /\ UNCHANGED data

TryPrev ==
  LET step == try_prev(iter)
  IN  /\ iter' = step.iter
      /\ answer' = step.item
      /\ pos' = Back
      /\ seeked' = FALSE
      /\ UNCHANGED data

\* The place before the first item that is not below the key.  A key above the
\* whole table leaves the iterator where it was, or on another block.
Place(seek) ==
  CASE seek.to = "First" -> 0
    [] seek.to = "Last" -> Len(data) + 1
    [] seek.to = "Backward" ->
         LET below == {i \in 1..Len(data) : Less(data[i][1], seek.key)}
         IN  IF Cardinality(below) = Len(data) THEN Lost ELSE Cardinality(below)

Seek(seek) ==
  /\ iter' = seek_(iter, seek)
  /\ answer' = None
  /\ pos' = Place(seek)
  /\ seeked' = TRUE
  /\ UNCHANGED data

Next ==
  \/ TryNext
  \/ TryPrev
  \/ \E seek \in {SeekFirst, SeekLast} \cup {SeekBackward(k) : k \in Keys} : Seek(seek)

Spec == Init /\ [][Next]_vars

(***************************************************************************)
(* Properties.                                                             *)
(***************************************************************************)

\* SSTable::query answers every key of the table with its value as stored, and
\* no other key, whatever the block size, the restart intervals and the false
\* positives of the filter: the index block names the right block, and the
\* search through shared prefixes finds the right entry.
QueryExact ==
  \A k \in Keys :
    query(table, k) =
      IF \E i \in 1..Len(data) : data[i][1] = k THEN <<k, Stored(ValueOf[k])>> ELSE None

\* SSTableIter answers the pairs of the table one after another, with their
\* whole keys, across the groups and blocks they are stored in, and a seek
\* continues at the first key that is not below the one sought.
IterReturnsData ==
  pos # Lost /\ ~seeked =>
    answer = IF pos \in 1..Len(data) THEN <<data[pos][1], Stored(data[pos][2])>> ELSE None
============================================================================
