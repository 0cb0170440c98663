------------------------------ MODULE SsTable ------------------------------
(***************************************************************************)
(* The layout of an SSTable and how it is searched and iterated            *)
(* (table/ss_table: block.rs, block_iter.rs, iter.rs, mod.rs).  Keys and   *)
(* values are sequences of bytes; None is the value of a deleted key.  A   *)
(* table is a sequence of data blocks and an index block that holds the    *)
(* last key of each.  Inside a block every restart_interval-th entry keeps *)
(* its whole key, the others what follows the prefix their group shares.   *)
(* An Index is the number of a block in place of its offset and length,    *)
(* which tell the blocks apart in the same way.  LZ4 and the disk return   *)
(* what they were given.                                                   *)
(***************************************************************************)
EXTENDS Integers, Sequences, FiniteSets, SequencesExt

CONSTANT None   \* no value, no item

Lesser(a, b) == IF a < b THEN a ELSE b

\* Bytes compare lexicographically.
Less(a, b) ==
  \/ IsStrictPrefix(a, b)
  \/ \E i \in 1..Lesser(Len(a), Len(b)) :
       a[i] < b[i] /\ SubSeq(a, 1, i - 1) = SubSeq(b, 1, i - 1)

Cmp(a, b) == IF a = b THEN "Equal" ELSE IF Less(a, b) THEN "Less" ELSE "Greater"

(***************************************************************************)
(* Building a block.  Positions are numbered from 0, as in the code;       *)
(* vec_entry[i + 1] is the entry at index i.                               *)
(***************************************************************************)
is_common_prefix(keys, len) ==
  \A i \in 2..Len(keys) : SubSeq(keys[1], 1, len) = SubSeq(keys[i], 1, len)

longest_shared_len(keys) ==
  LET min_len == Min({Len(keys[i]) : i \in 1..Len(keys)})
      bisect[low \in 0..min_len, high \in 0..min_len] ==
        IF low >= high THEN low
        ELSE LET mid == (high - low + 1) \div 2 + low
             IN  IF is_common_prefix(keys, mid) THEN bisect[mid, high] ELSE bisect[low, mid - 1]
  IN  bisect[0, min_len]

\* Group g of the keys, restart_interval of them or what is left.
Group(keys, g, interval) ==
  SubSeq(keys, g * interval + 1, Lesser((g + 1) * interval, Len(keys)))

\* Block::new for the pairs kvs = <<key, item>>.
Block(kvs, interval) ==
  LET keys == [i \in 1..Len(kvs) |-> kvs[i][1]]
      shared(i) == IF i % interval = 0 THEN 0
                   ELSE longest_shared_len(Group(keys, i \div interval, interval))
  IN  [restart_interval |-> interval,
       vec_entry |->
         [i \in 1..Len(kvs) |->
            [shared_len |-> shared(i - 1),
             key |-> SubSeq(keys[i], shared(i - 1) + 1, Len(keys[i])),
             item |-> kvs[i][2]]]]

entry_len(block) == Len(block.vec_entry)
get_entry(block, index) == block.vec_entry[index + 1]

shared_key_prefix(block, index, shared_len) ==
  SubSeq(get_entry(block, index - (index % block.restart_interval)).key, 1, shared_len)

restart_shared_len(block, index) ==
  IF index % block.restart_interval # 0 THEN get_entry(block, index).shared_len
  ELSE IF index + 1 < entry_len(block) THEN get_entry(block, index + 1).shared_len
  ELSE 0

(***************************************************************************)
(* Searching a block.  The standard library's binary search finds the      *)
(* entry that compares equal, Ok, or the place where it would be, Err.     *)
(***************************************************************************)
\* How the key of the entry at index compares with key.
CmpEntry(block, index, key) ==
  LET entry == get_entry(block, index)
      n == Lesser(entry.shared_len, Len(key))
      head == Cmp(shared_key_prefix(block, index, n), SubSeq(key, 1, n))
  IN  IF entry.shared_len = 0 THEN Cmp(entry.key, key)
      ELSE IF head # "Equal" THEN head
      ELSE Cmp(entry.key, SubSeq(key, n + 1, Len(key)))

binary_search(block, key) ==
  LET with(order) == {i \in 0..(entry_len(block) - 1) : CmpEntry(block, i, key) = order}
  IN  IF with("Equal") # {}
      THEN [ok |-> TRUE, index |-> Max(with("Equal"))]
      ELSE [ok |-> FALSE, index |-> Cardinality(with("Less"))]

find(block, key) ==
  LET found == binary_search(block, key)
  IN  IF found.ok THEN <<get_entry(block, found.index).item, TRUE>> ELSE <<None, FALSE>>

find_with_upper(block, key) ==
  LET found == binary_search(block, key)
  IN  get_entry(block, IF found.ok THEN found.index
                       ELSE Lesser(entry_len(block) - 1, found.index)).item

(***************************************************************************)
(* Building a table.                                                       *)
(***************************************************************************)
\* A value as it is read back: only its length says whether there is one, so an
\* empty value comes back as None.
Stored(value) == IF value = <<>> THEN None ELSE value

key_value_bytes_len(kv) == Len(kv[1]) + (IF kv[2] = None THEN 0 ELSE Len(kv[2]))

\* BlockBuilder::add: the buffer becomes a block once it has block_size bytes.
add(builder, kv, block_size) ==
  LET buf == Append(builder.buf, kv)
      size == builder.bytes_size + key_value_bytes_len(kv)
  IN  IF size >= block_size
      THEN [buf |-> <<>>, bytes_size |-> 0, vec_block |-> Append(builder.vec_block, buf)]
      ELSE [builder EXCEPT !.buf = buf, !.bytes_size = size]

\* BlockBuilder::build: what is left in the buffer is the last block.
build(data, block_size) ==
  LET b == FoldLeft(LAMBDA x, kv : add(x, kv, block_size),
                    [buf |-> <<>>, bytes_size |-> 0, vec_block |-> <<>>], data)
  IN  IF b.buf = <<>> THEN b.vec_block ELSE Append(b.vec_block, b.buf)

\* SSTable::new for sorted data; filter is the set of keys its Bloom filter
\* contains, which has every key of the data.
SSTable(data, opt, filter) ==
  LET blocks == build(data, opt.block_size)
  IN  [filter |-> filter,
       data_block |->
         [b \in 1..Len(blocks) |->
            Block([i \in 1..Len(blocks[b]) |-> <<blocks[b][i][1], Stored(blocks[b][i][2])>>],
                  opt.data_restart_interval)],
       index_block |->
         Block([b \in 1..Len(blocks) |-> <<blocks[b][Len(blocks[b])][1], b>>],
               opt.index_restart_interval)]

query(table, key) ==
  LET found == find(table.data_block[find_with_upper(table.index_block, key)], key)
  IN  IF key \in table.filter /\ found[2] THEN <<key, found[1]>> ELSE None

(***************************************************************************)
(* BlockIter.  offset 0 is before the first entry, offset i on entry i - 1; *)
(* buf_shared_key is the prefix of the group the iterator is in.  A moving *)
(* operator yields the iterator after the move and the item it answers.    *)
(***************************************************************************)
BlockIter(block) ==
  [block |-> block, offset |-> 0,
   buf_shared_key |-> shared_key_prefix(block, 0, restart_shared_len(block, 0))]

block_is_valid(it) == it.offset > 0 /\ it.offset <= entry_len(it.block)

item(it) ==
  LET index == it.offset - 1
      entry == get_entry(it.block, index)
  IN  <<IF index % it.block.restart_interval # 0 THEN it.buf_shared_key \o entry.key ELSE entry.key,
        entry.item>>

offset_move_KeepsPrefix(it, offset, is_seek) ==
  LET moved == [it EXCEPT !.offset = offset]
  IN  [iter |-> moved,
       item |-> IF block_is_valid(moved) /\ ~is_seek THEN item(moved) ELSE None]

\* The test for a new group divides 1, not old_offset - 1, by the interval.
offset_move(it, offset, is_seek) ==
  LET block == it.block
      real_offset == offset - 1
      inside == offset > 0 /\ offset < entry_len(block) + 1
      other_group == it.offset - (1 \div block.restart_interval) # real_offset \div block.restart_interval
      moved == [it EXCEPT !.offset = offset,
                          !.buf_shared_key =
                            IF inside /\ other_group
                            THEN shared_key_prefix(block, real_offset, restart_shared_len(block, real_offset))
                            ELSE @]
  IN  [iter |-> moved, item |-> IF inside /\ ~is_seek THEN item(moved) ELSE None]

block_try_next(it) ==
  IF block_is_valid(it) \/ it.offset = 0
  THEN offset_move(it, it.offset + 1, FALSE) ELSE [iter |-> it, item |-> None]

block_try_prev(it) ==
  IF block_is_valid(it) \/ it.offset = entry_len(it.block) + 1
  THEN offset_move(it, it.offset - 1, FALSE) ELSE [iter |-> it, item |-> None]

\* Where to seek: the first item, the last, or the first not below a key.
SeekFirst == [to |-> "First"]
SeekLast == [to |-> "Last"]
SeekBackward(key) == [to |-> "Backward", key |-> key]

\* The offset a seek moves to; Nowhere when every key is below the one sought.
Nowhere == -1

SeekOffset(block, seek, found) ==
  CASE seek.to = "First" -> 0
    [] seek.to = "Last" -> entry_len(block) + 1
    [] seek.to = "Backward" ->
         IF found.ok \/ found.index < entry_len(block) THEN found.index ELSE Nowhere

MoveTo(it, offset) == IF offset = Nowhere THEN it ELSE offset_move(it, offset, TRUE).iter

block_seek(it, seek) == MoveTo(it, SeekOffset(it.block, seek, binary_search(it.block, seek.key)))

(***************************************************************************)
(* SSTableIter: an iterator of the index block and one of a data block.    *)
(***************************************************************************)
data_iter_init(table, index) == BlockIter(table.data_block[index])

\* An answer of the data iterator as one of the SSTableIter.
FromData(it, step) == [iter |-> [it EXCEPT !.data_iter = step.iter], item |-> step.item]

SSTableIter_(table, first) ==
  [table |-> table, index_iter |-> first.iter, data_iter |-> data_iter_init(table, first.item[2])]

SSTableIter(table) == SSTableIter_(table, block_try_next(BlockIter(table.index_block)))

data_iter_seek(it, seek, index) ==
  [it EXCEPT !.data_iter = block_seek(data_iter_init(it.table, index), seek)]

\* The data block is at its end, index is the answer of the index iterator.
NextBlock(it, index) ==
  IF index.item = None THEN [iter |-> it, item |-> None]
  ELSE LET other == data_iter_seek(it, SeekFirst, index.item[2])
       IN  FromData(other, block_try_next(other.data_iter))

NextOf(it, step, index) ==
  IF step.item # None THEN FromData(it, step)
  ELSE NextBlock([it EXCEPT !.data_iter = step.iter, !.index_iter = index.iter], index)

try_next(it) == NextOf(it, block_try_next(it.data_iter), block_try_next(it.index_iter))

PrevBlock(it, index) ==
  IF index.item = None THEN [iter |-> it, item |-> None]
  ELSE LET other == data_iter_seek(it, SeekLast, index.item[2])
       IN  FromData(other, block_try_prev(other.data_iter))

PrevOf(it, step, index) ==
  IF step.item # None THEN FromData(it, step)
  ELSE PrevBlock([it EXCEPT !.data_iter = step.iter, !.index_iter = index.iter], index)

try_prev(it) == PrevOf(it, block_try_prev(it.data_iter), block_try_prev(it.index_iter))

\* index is where the index iterator was after its seek.
SeekBlock(it, seek, index) ==
  IF index.item # None
  THEN data_iter_seek([it EXCEPT !.index_iter = index.iter], seek, index.item[2])
  ELSE [it EXCEPT !.index_iter = index.iter]

SeekEnd(it, seek) ==
  IF seek.to = "Last" THEN [it EXCEPT !.data_iter = block_seek(@, SeekLast)] ELSE it

seek_(it, seek) ==
  SeekEnd(SeekBlock(it, seek, block_try_next(block_seek(it.index_iter, seek))), seek)
============================================================================
