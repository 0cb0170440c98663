---------------------------- MODULE MCIterators ----------------------------
EXTENDS Iterators

MCKeys == {<<1>>, <<2>>, <<3>>}
MCOpt == [block_size |-> 3, data_restart_interval |-> 2, index_restart_interval |-> 2]

\* A table with the given key bytes; value v, except that key 2 is deleted in
\* the tables with an even v.
Data(bytes, v) ==
  LET sorted == SetToSortSeq(bytes, <)
  IN  [i \in 1..Len(sorted) |->
         <<<<sorted[i]>>, IF sorted[i] = 2 /\ v % 2 = 0 THEN None ELSE <<v>>>>]

SST(bytes, v) ==
  [type |-> "SortedString", data |-> Data(bytes, v), table |-> SSTable(Data(bytes, v), MCOpt, MCKeys)]
BT(bytes, v) == [type |-> "BTree", data |-> Data(bytes, v)]

Level0s(sets) ==
  {<<>>} \cup {<<SST(a, 1)>> : a \in sets} \cup {<<SST(a, 1), SST(b, 2)>> : a, b \in sets}
         \cup {<<BT(a, 1), SST({2}, 2)>> : a \in sets}

Versions(sets) ==
  {[level0 |-> l0, level |-> <<l1, l2, l3>>] :
     l0 \in Level0s(sets),
     l1 \in {<<>>, <<SST({1, 2, 3}, 3)>>, <<SST({1}, 3), SST({3}, 4)>>},
     l2 \in {<<>>, <<SST({2}, 5), SST({3}, 5)>>},
     l3 \in {<<>>, <<SST({1, 3}, 7)>>}}

Entry(b, seq) == [key |-> <<b>>, seq |-> seq, value |-> IF b = 2 /\ seq = 3 THEN None ELSE <<10 + seq>>]

Versions3 == Versions({{1}, {1, 2, 3}, {2, 3}})

MCStores ==
  \* Every source at once, over many Versions.
  [write_buf : {<<<<<<2>>, <<20>>>>, <<<<3>>, None>>>>},
   mem : {{Entry(1, 3), Entry(2, 5)}}, immut : {{Entry(1, 2), Entry(3, 1)}}, seq : {4},
   version : Versions3]
  \cup [write_buf : {<<>>}, mem : {{}, {Entry(2, 3)}}, immut : {{}}, seq : {4}, version : Versions3]
  \* Many MemTables over an empty Version.
  \cup [write_buf : {<<>>},
        mem : SUBSET {Entry(b, seq) : b \in {1, 2}, seq \in {3, 4}},
        immut : SUBSET {Entry(b, seq) : b \in {1, 2}, seq \in {1, 2}},
        seq : {2, 3}, version : {NoTables}]

MCBounds ==
  LET at(type) == [type |-> type, key |-> <<2>>]
  IN  {<<Unbounded, Unbounded>>, <<Unbounded, at("Excluded")>>, <<Unbounded, at("Included")>>,
       <<at("Included"), Unbounded>>, <<at("Excluded"), Unbounded>>, <<at("Included"), at("Included")>>,
       <<[type |-> "Included", key |-> <<1>>], at("Excluded")>>,
       <<[type |-> "Excluded", key |-> <<1>>], [type |-> "Included", key |-> <<3>>]>>}
============================================================================
