--------------------------- MODULE MCSsTableIter ---------------------------
EXTENDS SsTableIter

\* Bytes 1 and 2: keys that are prefixes of each other, and keys that share one.
MCKeys == {<<1>>, <<1, 1>>, <<1, 1, 2>>, <<1, 2>>, <<1, 2, 1>>, <<2>>}
\* Empty, deleted and non-empty values.
MCValueOf ==
  [k \in MCKeys |-> IF Len(k) = 1 THEN <<1, 1>> ELSE IF Len(k) = 2 THEN None ELSE <<>>]

\* A hash of one byte; with the seeds of the second pair all keys share a bit.
MCHash(seed, key) == IF seed = 0 THEN 0 ELSE FoldLeft(LAMBDA h, b : (h * 37 + b) % 256, seed, key)
MCSeeds == {<<91, 200>>, <<0, 17>>}
\* One element in twenty
MCRate == [bits |-> 6236, hashes |-> 5]
============================================================================
