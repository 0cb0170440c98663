---------------------------- MODULE BloomFilter ----------------------------
(***************************************************************************)
(* utils/bloom_filter.rs.  A byte of the bit vector is the set of its bits *)
(* that are 1, so that bit_groups maps the places of bytes to such sets.   *)
(* Hashes are numbers below HashMod, 2^64 in the code.                     *)
(***************************************************************************)
EXTENDS Integers

CONSTANTS
  Keys,         \* the elements
  HashMod,      \* hashes wrap here
  Hash(_, _),   \* FixedHasher::write and finish: seed and element to hash
  Rate          \* desired_error_prob, as the bits for 1000 elements and the number of hashes

ASSUME BloomConstants ==
  /\ HashMod \in Nat \ {0}
  /\ Rate.bits \in Nat \ {0} /\ Rate.hashes \in Nat
  /\ \A seed \in 0..(HashMod - 1), elem \in Keys : Hash(seed, elem) \in 0..(HashMod - 1)

optimal_bits_count(len) == (len * Rate.bits + 999) \div 1000

NoBits(len) == [len |-> len, bit_groups |-> [b \in 0..((len + 7) \div 8 - 1) |-> {}]]

new(len, seeds) ==
  [bits |-> NoBits(optimal_bits_count(len)), hash_fn_count |-> Rate.hashes, hashers |-> seeds]

make_hash(hashers, elem) == <<Hash(hashers[1], elem), Hash(hashers[2], elem)>>

get_index(len, hashes, fn_i) == ((hashes[1] + ((fn_i * hashes[2]) % HashMod)) % HashMod) % len

(* The bits of an element *)
Indexes(filter, elem) ==
  {get_index(filter.bits.len, make_hash(filter.hashers, elem), i) : i \in 0..(filter.hash_fn_count - 1)}

(* set_bit for every index in S *)
set_bits(bits, S) ==
  [bits EXCEPT !.bit_groups = [b \in DOMAIN @ |-> @[b] \cup {i % 8 : i \in {j \in S : j \div 8 = b}}]]

get_bit(bits, index) == index % 8 \in bits.bit_groups[index \div 8]

insert(filter, elem) == [filter EXCEPT !.bits = set_bits(@, Indexes(filter, elem))]

contains(filter, elem) == \A i \in Indexes(filter, elem) : get_bit(filter.bits, i)
============================================================================
