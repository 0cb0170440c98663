-------------------------------- MODULE Lru --------------------------------
(***************************************************************************)
(* What a sharded least-recently-used cache promises: per shard a sequence *)
(* of entries, the most recently used one first, of at most ShardCap.  An  *)
(* entry that comes into a full shard drops the one that was not used for  *)
(* longest; the other shards are not touched.                              *)
(***************************************************************************)
EXTENDS Naturals, Sequences

CONSTANTS Keys, Values, Shards, ShardOf, ShardCap, None, Error

VARIABLES order,   \* order[s]: the entries of shard s, most recently used first
          ret      \* ret[s]: what the last operation on shard s answered

Entries(k) == LET o == order[ShardOf[k]] IN {e \in {o[i] : i \in 1..Len(o)} : e.key = k}
Held(k) == Entries(k) # {}
ValueOf(k) == IF Held(k) THEN (CHOOSE e \in Entries(k) : TRUE).value ELSE None
Without(k) == SelectSeq(order[ShardOf[k]], LAMBDA e : e.key # k)

\* The shard of k with (k, v) in front, cut to its capacity.
InFront(k, v) ==
  LET all == <<[key |-> k, value |-> v]>> \o Without(k)
  IN  SubSeq(all, 1, IF Len(all) < ShardCap THEN Len(all) ELSE ShardCap)

Step(k, entries, answer) ==
  /\ order' = [order EXCEPT ![ShardOf[k]] = entries]
  /\ ret' = [ret EXCEPT ![ShardOf[k]] = answer]

Init ==
  /\ order = [s \in Shards |-> <<>>]
  /\ ret = [s \in Shards |-> None]

Touch(k) == Held(k) /\ Step(k, InFront(k, ValueOf(k)), ValueOf(k))
Miss(k) == ~Held(k) /\ Step(k, order[ShardOf[k]], None)
Put(k, v) == Step(k, InFront(k, v), ValueOf(k))
Remove(k) == Step(k, Without(k), ValueOf(k))
Insert(k, v) == ~Held(k) /\ Step(k, InFront(k, v), v)
InsertFails(k) == ~Held(k) /\ Step(k, order[ShardOf[k]], Error)

Next ==
  \E k \in Keys :
    \/ Touch(k) \/ Miss(k) \/ Remove(k) \/ InsertFails(k)
    \/ \E v \in Values : Put(k, v) \/ Insert(k, v)

Spec == Init /\ [][Next]_<<order, ret>>
============================================================================
