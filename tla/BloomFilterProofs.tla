------------------------- MODULE BloomFilterProofs -------------------------
(***************************************************************************)
(* What a query may rely on: a Bloom filter never denies an element that   *)
(* was inserted, for any hash function, any number of bits and of hashes,  *)
(* and also when more bytes were read behind the filter than belong to it. *)
(***************************************************************************)
EXTENDS BloomFilter, TLAPS

Bits == {b \in [len : Nat \ {0}, bit_groups : UNION {[0..n -> SUBSET (0..7)] : n \in Nat}] :
           0..((b.len + 7) \div 8 - 1) \subseteq DOMAIN b.bit_groups}

Filter == [bits : Bits, hash_fn_count : Nat, hashers : (0..(HashMod - 1)) \X (0..(HashMod - 1))]

(* get_index always names a bit of the vector, and its byte exists. *)
LEMMA IndexInBits ==
  ASSUME NEW f \in Filter, NEW e \in Keys, NEW i \in Indexes(f, e)
  PROVE  i \in 0..(f.bits.len - 1) /\ i \div 8 \in DOMAIN f.bits.bit_groups /\ i % 8 \in 0..7
<1> DEFINE len == f.bits.len
           h == make_hash(f.hashers, e)
<1>1. f.bits \in Bits /\ len \in Nat \ {0} /\ f.hash_fn_count \in Nat
  BY DEF Filter, Bits
<1>2. h[1] \in Nat /\ h[2] \in Nat
  BY BloomConstants DEF Filter, make_hash
<1>3. PICK n \in 0..(f.hash_fn_count - 1) : i = get_index(len, h, n)
  BY DEF Indexes
<1>4. n \in Nat /\ n * h[2] \in Nat
  BY <1>1, <1>2
<1>5. (n * h[2]) % HashMod \in Nat
  BY <1>4, BloomConstants
<1>6. (h[1] + ((n * h[2]) % HashMod)) % HashMod \in Nat
  BY <1>2, <1>5, BloomConstants
<1>7. i \in 0..(len - 1)
  BY <1>1, <1>3, <1>6 DEF get_index
<1>8. i \div 8 \in 0..((len + 7) \div 8 - 1) /\ i % 8 \in 0..7
  BY <1>1, <1>7
<1>9. 0..((len + 7) \div 8 - 1) \subseteq DOMAIN f.bits.bit_groups
  BY <1>1 DEF Bits
<1> QED BY <1>7, <1>8, <1>9

(* insert changes nothing but bytes of the vector. *)
LEMMA InsertEffect ==
  ASSUME NEW f \in Filter, NEW e \in Keys
  PROVE  /\ insert(f, e).bits.len = f.bits.len
         /\ insert(f, e).hash_fn_count = f.hash_fn_count
         /\ insert(f, e).hashers = f.hashers
         /\ insert(f, e).bits.bit_groups =
              [b \in DOMAIN f.bits.bit_groups |->
                 f.bits.bit_groups[b] \cup {i % 8 : i \in {j \in Indexes(f, e) : j \div 8 = b}}]
         /\ \A k \in Keys : Indexes(insert(f, e), k) = Indexes(f, k)
<1>1. f.bits \in Bits
  BY DEF Filter
<1>2. /\ insert(f, e).bits = set_bits(f.bits, Indexes(f, e))
      /\ insert(f, e).hash_fn_count = f.hash_fn_count
      /\ insert(f, e).hashers = f.hashers
  BY DEF insert, Filter
<1>3. /\ set_bits(f.bits, Indexes(f, e)).len = f.bits.len
      /\ set_bits(f.bits, Indexes(f, e)).bit_groups =
              [b \in DOMAIN f.bits.bit_groups |->
                 f.bits.bit_groups[b] \cup {i % 8 : i \in {j \in Indexes(f, e) : j \div 8 = b}}]
  BY <1>1 DEF set_bits, Bits
<1>4. \A k \in Keys : Indexes(insert(f, e), k) = Indexes(f, k)
  BY <1>2, <1>3 DEF Indexes
<1> QED BY <1>2, <1>3, <1>4

(* BloomFilter::insert then BloomFilter::contains: the element just inserted is found, *)
(* and an element that was found is found still.                                       *)
THEOREM NoFalseNegative ==
  ASSUME NEW f \in Filter, NEW e \in Keys, NEW k \in Keys,
         k = e \/ contains(f, k)
  PROVE  contains(insert(f, e), k)
<1> DEFINE g == insert(f, e)
<1> SUFFICES ASSUME NEW i \in Indexes(f, k)
             PROVE  i % 8 \in g.bits.bit_groups[i \div 8]
  BY InsertEffect DEF contains, get_bit
<1>1. i \div 8 \in DOMAIN f.bits.bit_groups
  BY IndexInBits
<1>2. g.bits.bit_groups[i \div 8] =
        f.bits.bit_groups[i \div 8] \cup {j % 8 : j \in {j \in Indexes(f, e) : j \div 8 = i \div 8}}
  <2>1. g.bits.bit_groups =
          [b \in DOMAIN f.bits.bit_groups |->
             f.bits.bit_groups[b] \cup {j % 8 : j \in {j \in Indexes(f, e) : j \div 8 = b}}]
    BY InsertEffect
  <2> HIDE DEF g
  <2> QED BY <1>1, <2>1, Zenon
<1>3. CASE k = e
  BY <1>2, <1>3
<1>4. CASE contains(f, k)
  BY <1>2, <1>4 DEF contains, get_bit
<1> QED BY <1>3, <1>4

(* load_from_file reads more than the filter's bytes (meta_len is too long) and takes  *)
(* them for bytes of the vector: a filter whose vector continues behind the one that   *)
(* was stored answers every question as the stored one does.                           *)
THEOREM LongerVectorAgrees ==
  ASSUME NEW f \in Filter, NEW g, NEW k \in Keys,
         g.bits.len = f.bits.len, g.hash_fn_count = f.hash_fn_count, g.hashers = f.hashers,
         \A b \in DOMAIN f.bits.bit_groups : g.bits.bit_groups[b] = f.bits.bit_groups[b]
  PROVE  contains(g, k) <=> contains(f, k)
<1>1. Indexes(g, k) = Indexes(f, k)
  BY DEF Indexes
<1>2. \A i \in Indexes(f, k) : g.bits.bit_groups[i \div 8] = f.bits.bit_groups[i \div 8]
  BY IndexInBits
<1> QED BY <1>1, <1>2 DEF contains, get_bit
============================================================================
