---------------------------- MODULE SsTableFile ----------------------------
(***************************************************************************)
(* The file of an SSTable: data blocks, index block, meta block with the   *)
(* Bloom filter, footer (ss_table/mod.rs, block.rs, footer.rs).  A file is *)
(* a sequence of cells: a byte of a key, a value or the filter, a number   *)
(* of any width, or a checksum.  Offsets count cells, from 0.              *)
(***************************************************************************)
EXTENDS SsTable, BloomFilter

(* The numbers of a footer, 21 bytes in all *)
TABLE_FOOTER_SIZE == 6

Slice(cells, offset, len) == SubSeq(cells, offset + 1, offset + len)

(* Read::read into a buffer of len zeros *)
read(cells, offset, len) ==
  LET got == Slice(cells, offset, Lesser(len, Len(cells) - offset))
  IN  got \o [i \in 1..(len - Len(got)) |-> 0]

(***************************************************************************)
(* crc32fast::hash tells any two sequences apart, and the frame of LZ4 is  *)
(* a function with which a block is read back.                             *)
(***************************************************************************)
Crc(cells) == [crc |-> cells]
Lz4(cells) == <<4>> \o cells
UnLz4(cells) == SubSeq(cells, 2, Len(cells))

(***************************************************************************)
(* Items.  A Value keeps its length and its bytes; an Index is the offset  *)
(* and the length of a block.  A decoder gives the item and the cells that *)
(* it took.                                                                *)
(***************************************************************************)
encode_value(value) == IF value = None THEN <<0>> ELSE <<Len(value)>> \o value

decode_value(cells, offset) ==
  LET len == cells[offset + 1]
  IN  [item |-> IF len > 0 THEN Slice(cells, offset + 1, len) ELSE None, taken |-> 1 + len]

encode_index(index) == <<index.offset, index.len>>

decode_index(cells, offset) ==
  [item |-> [offset |-> cells[offset + 1], len |-> cells[offset + 2]], taken |-> 2]

(* BlockItem::encode and decode, for T = Value or Index *)
encode_item(T, i) == IF T = "Value" THEN encode_value(i) ELSE encode_index(i)

decode_item(T, cells, offset) ==
  IF T = "Value" THEN decode_value(cells, offset) ELSE decode_index(cells, offset)

encode_entry(T, entry) ==
  <<Len(entry.key), entry.shared_len>> \o entry.key \o encode_item(T, entry.item)

(* Entry::batch_decode from offset on *)
batch_decode(T, cells) ==
  LET entries[offset \in 0..Len(cells)] ==
        IF offset = Len(cells) THEN <<>>
        ELSE LET unshared_len == cells[offset + 1]
                 decoded == decode_item(T, cells, offset + 2 + unshared_len)
             IN  <<[shared_len |-> cells[offset + 2], key |-> Slice(cells, offset + 2, unshared_len),
                    item |-> decoded.item]>>
                 \o entries[offset + 2 + unshared_len + decoded.taken]
  IN  entries[0]

(* Block::to_raw and from_raw *)
block_to_raw(T, block) ==
  LET cells == FlattenSeq([i \in DOMAIN block.vec_entry |-> encode_entry(T, block.vec_entry[i])])
  IN  Append(cells, Crc(cells))

NoBlock == "CrcMisMatch"

(* The check refuses a block whose checksum, taken with the checksum, is that of its data. *)
block_from_raw(T, cells, interval) ==
  IF Crc(cells) = Last(cells) THEN NoBlock
  ELSE [restart_interval |-> interval, vec_entry |-> batch_decode(T, Front(cells))]

(* Block::encode and decode with CompressType::LZ4, which data blocks have *)
encode(block) == Lz4(block_to_raw("Value", block))

decode(cells, interval) == block_from_raw("Value", UnLz4(cells), interval)

(***************************************************************************)
(* BlockBuilder::build: data blocks one behind the other, and the index.   *)
(***************************************************************************)
EncodedBlocks(data, opt) ==
  LET blocks == build(data, opt.block_size)
  IN  [b \in DOMAIN blocks |->
         [last_key |-> Last(blocks[b])[1],
          cells |-> encode(Block(blocks[b], opt.data_restart_interval))]]

OffsetOf(blocks, b) == FoldLeft(LAMBDA n, block : n + Len(block.cells), 0, SubSeq(blocks, 1, b - 1))

IndexOf(blocks, opt) ==
  Block([b \in DOMAIN blocks |->
           <<blocks[b].last_key, [offset |-> OffsetOf(blocks, b), len |-> Len(blocks[b].cells)]>>],
        opt.index_restart_interval)

(***************************************************************************)
(* The Bloom filter and the meta block.                                    *)
(***************************************************************************)
bits_to_raw(bits) ==
  <<bits.len>> \o [i \in 1..Cardinality(DOMAIN bits.bit_groups) |-> bits.bit_groups[i - 1]]

(* Everything behind the length is taken for bytes of the vector *)
bits_from_raw(cells) ==
  [len |-> cells[1], bit_groups |-> [i \in 0..(Len(cells) - 2) |-> cells[i + 2]]]

filter_to_raw(filter) == <<filter.hash_fn_count>> \o filter.hashers \o bits_to_raw(filter.bits)

(* Faulty: the hashers change places *)
filter_from_raw_Swapped(cells) ==
  [hash_fn_count |-> cells[1], hashers |-> <<cells[3], cells[2]>>,
   bits |-> bits_from_raw(SubSeq(cells, 4, Len(cells)))]

filter_from_raw(cells) ==
  [hash_fn_count |-> cells[1], hashers |-> <<cells[2], cells[3]>>,
   bits |-> bits_from_raw(SubSeq(cells, 4, Len(cells)))]

meta_to_raw(meta) ==
  <<meta.len, meta.index_restart_interval, meta.data_restart_interval>> \o filter_to_raw(meta.filter)

meta_from_raw(cells) ==
  [len |-> cells[1], index_restart_interval |-> cells[2], data_restart_interval |-> cells[3],
   filter |-> filter_from_raw(SubSeq(cells, 4, Len(cells)))]

footer_to_raw(f) ==
  <<f.level, f.index_offset, f.index_len, f.meta_offset, f.meta_len, f.size_of_disk>>

read_to_file(file) ==
  LET f == Slice(file, Len(file) - TABLE_FOOTER_SIZE, TABLE_FOOTER_SIZE)
  IN  [level |-> f[1], index_offset |-> f[2], index_len |-> f[3], meta_offset |-> f[4],
       meta_len |-> f[5], size_of_disk |-> f[6]]

(***************************************************************************)
(* SSTable::new: the file with its in-memory footer and meta block.        *)
(* meta_len misses a pair of parentheses and is too long by twice the      *)
(* length of the index block.                                              *)
(***************************************************************************)
NewFilter(data, seeds) == FoldLeft(LAMBDA f, kv : insert(f, kv[1]), new(Len(data), seeds), data)

Assembled(data_cells, index_cells, meta, level) ==
  LET bytes == data_cells \o index_cells \o meta_to_raw(meta)
      footer == [level |-> level, index_offset |-> Len(data_cells), index_len |-> Len(index_cells),
                 meta_offset |-> Len(data_cells) + Len(index_cells),
                 meta_len |-> Len(bytes) - Len(data_cells) + Len(index_cells),
                 size_of_disk |-> Len(bytes) + TABLE_FOOTER_SIZE]
  IN  [file |-> bytes \o footer_to_raw(footer), footer |-> footer, meta |-> meta]

create_table(data, opt, seeds, level) ==
  LET blocks == EncodedBlocks(data, opt)
  IN  Assembled(FlattenSeq([b \in DOMAIN blocks |-> blocks[b].cells]),
                block_to_raw("Index", IndexOf(blocks, opt)),
                [filter |-> NewFilter(data, seeds), len |-> Len(data),
                 index_restart_interval |-> opt.index_restart_interval,
                 data_restart_interval |-> opt.data_restart_interval],
                level)

(* SSTable::load_from_file, after the table left the cache or the process was restarted *)
load_from_file(file) ==
  LET footer == read_to_file(file)
  IN  [file |-> file, footer |-> footer,
       meta |-> meta_from_raw(read(file, footer.meta_offset, footer.meta_len))]

index_block(t) ==
  block_from_raw("Index", Slice(t.file, t.footer.index_offset, t.footer.index_len),
                 t.meta.index_restart_interval)

data_block(t, index) ==
  decode(Slice(t.file, index.offset, index.len), t.meta.data_restart_interval)

(* The table as SsTable describes it: an Index is replaced by the number of its block. *)
Opened(t) ==
  LET index == index_block(t)
  IN  [filter |-> {k \in Keys : contains(t.meta.filter, k)},
       data_block |-> [b \in DOMAIN index.vec_entry |-> data_block(t, index.vec_entry[b].item)],
       index_block |-> [index EXCEPT !.vec_entry = [b \in DOMAIN @ |-> [@[b] EXCEPT !.item = b]]]]
============================================================================
