------------------------------- MODULE MemTable -------------------------------
(***************************************************************************)
(* The lookups of the MemTable, as operators on sets of entries.  An entry *)
(* is an InternalKey (key, seq) with its value, of which only one thing is *)
(* kept: live is FALSE for a tombstone.  The value itself needs no field,  *)
(* since no two writes share key and seq.  A lookup returns the set of its *)
(* results: empty for None, a singleton for Some.                          *)
(***************************************************************************)
EXTENDS Integers

Latest(S) == {e \in S : \A f \in S : f.seq <= e.seq}

(* Faulty find_: one sequence id too far *)
find_Later(map, key, seq) == Latest({e \in map : e.key = key /\ e.seq <= seq + 1})

(* upper_bound(Included((key, seq))), if it lands on the same key *)
find_(map, key, seq) == Latest({e \in map : e.key = key /\ e.seq <= seq})

(* Faulty find_with_sequence_id: a miss in _mem is final *)
find_with_sequence_id_MemOnly(mem, immut, key, seq) == find_(mem, key, seq)

find_with_sequence_id(mem, immut, key, seq) ==
  IF find_(mem, key, seq) # {} THEN find_(mem, key, seq) ELSE find_(immut, key, seq)

(* seq is filled in with SEQ_MAX *)
find(mem, immut, key) ==
  LET any(map) == Latest({e \in map : e.key = key})
  IN  IF any(mem) # {} THEN any(mem) ELSE any(immut)

(* lower_bound(Excluded((key, seq))) lands on the same key *)
check_key_conflict(mem, keys, seq) ==
  \E e \in mem : e.key \in keys /\ e.seq > seq

(* swap keeps the newest entry of each key, for the table to be written *)
unique_by_key(map) ==
  {e \in map : \A f \in map : f.key = e.key => f.seq <= e.seq}

IsLive(found) == \E e \in found : e.live
=============================================================================
