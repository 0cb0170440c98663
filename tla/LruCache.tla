----------------------------- MODULE LruCache -----------------------------
(***************************************************************************)
(* ShardingLruCache (utils/lru_cache.rs), the cache of open tables and of  *)
(* blocks: per shard a hash map from keys to nodes and a doubly linked     *)
(* list of the same nodes in order of use, built from raw pointers.  Every *)
(* operation holds the mutex of its shard, so it is one step; references   *)
(* to values outlive the lock.                                             *)
(***************************************************************************)
EXTENDS Naturals, Sequences, FiniteSets

CONSTANTS Keys, Values,
          Shards,    \* the shards
          ShardOf,   \* the shard a key hashes to
          Cap,       \* the capacity of the whole cache
          Addrs,     \* the addresses the allocator may hand out
          Null,      \* the null pointer, and the answer None
          Free,      \* the content of an address that is not allocated
          Error,     \* the answer when the loading function failed
          MaxRefs    \* bound on the references clients hold at a time

\* ShardingLruCache::new and LruCache::new refuse any other capacity.
ASSUME CapAssumption ==
  Cap \in Nat /\ Cap % Cardinality(Shards) = 0 /\ Cap \div Cardinality(Shards) >= 1

ASSUME ShardAssumption == ShardOf \in [Keys -> Shards]

Ptr  == Addrs \cup {Null}
Node == [key : Keys, value : Values, prev : Ptr, next : Ptr]

ASSUME PointerAssumption == Null \notin Addrs /\ Free \notin Node

VARIABLES heap,      \* heap[a]: the node at address a, or Free
          lru,       \* lru[s]: head, tail and hash map (inner) of shard s
          ret,       \* ret[s]: what the last operation on shard s answered
          order,     \* order[s]: the entries of shard s from the head of its list on
          refs,      \* the references to values that clients hold
          evicted    \* history: the nodes expulsion took out of a shard

vars == <<heap, lru, ret, order, refs, evicted>>

ShardCap == Cap \div Cardinality(Shards)

\* The nodes of a list from its head along next, at most one per address.
Chain(h, head) ==
  LET at[i \in 1..Cardinality(Addrs)] ==
        IF i = 1 THEN head
        ELSE LET a == at[i - 1] IN IF a = Null THEN Null ELSE h[a].next
  IN  SelectSeq(at, LAMBDA a : a # Null)

\* What an observer of the list sees.
Listed(h, head) ==
  LET chain == Chain(h, head)
  IN  [i \in 1..Len(chain) |-> [key |-> h[chain[i]].key, value |-> h[chain[i]].value]]

(***************************************************************************)
(* The operations work on a record [heap, head, tail, inner], the shard    *)
(* with the memory its pointers point into.                                *)
(***************************************************************************)
Opened(s) == [heap |-> heap, head |-> lru[s].head, tail |-> lru[s].tail, inner |-> lru[s].inner]

SetNext(h, a, x) == IF a = Null THEN h ELSE [h EXCEPT ![a].next = x]
SetPrev(h, a, x) == IF a = Null THEN h ELSE [h EXCEPT ![a].prev = x]

detach_KeepsTail(c, n) ==
  LET prev == c.heap[n].prev
      next == c.heap[n].next
      linked == SetPrev(SetNext(c.heap, prev, next), next, prev)
  IN  [c EXCEPT !.heap = SetNext(SetPrev(linked, n, Null), n, Null),
                !.head = IF prev = Null THEN next ELSE @]

detach(c, n) ==
  LET prev == c.heap[n].prev
      next == c.heap[n].next
      linked == SetPrev(SetNext(c.heap, prev, next), next, prev)
  IN  [c EXCEPT !.heap = SetNext(SetPrev(linked, n, Null), n, Null),
                !.head = IF prev = Null THEN next ELSE @,
                !.tail = IF next = Null THEN prev ELSE @]

attach(c, n) ==
  [c EXCEPT !.heap = SetPrev(SetNext(SetPrev(@, c.head, n), n, c.head), n, Null),
            !.head = n,
            !.tail = IF c.head = Null THEN n ELSE @]

Unmap(c, k) == [c EXCEPT !.inner = [x \in DOMAIN @ \ {k} |-> @[x]]]
Map(c, k, n) == [c EXCEPT !.inner = [x \in DOMAIN @ \cup {k} |-> IF x = k THEN n ELSE @[x]]]

IsFull(c) == c.tail # Null /\ Cardinality(DOMAIN c.inner) >= ShardCap

expulsion_Frees(c) ==
  IF IsFull(c)
  THEN LET d == Unmap(detach(c, c.tail), c.heap[c.tail].key)
       IN  [d EXCEPT !.heap[c.tail] = Free]
  ELSE c

\* The node that is driven out is neither freed nor kept anywhere.
expulsion(c) ==
  IF IsFull(c) THEN Unmap(detach(c, c.tail), c.heap[c.tail].key) ELSE c

\* The end of every operation: the lock is released with c in place.
Close(s, c, answer) ==
  /\ heap' = c.heap
  /\ lru' = [lru EXCEPT ![s] = [head |-> c.head, tail |-> c.tail, inner |-> c.inner]]
  /\ ret' = [ret EXCEPT ![s] = answer]
  /\ order' = [order EXCEPT ![s] = Listed(c.heap, c.head)]

Alloc(c, n, k, v) ==
  [c EXCEPT !.heap[n] = [key |-> k, value |-> v, prev |-> Null, next |-> Null]]

\* A new node n in front of c, after expulsion made room for it.
Enter(s, c, n, k, v, answer, freed) ==
  LET d == Map(attach(expulsion(c), n), k, n)
  IN  /\ Close(s, [d EXCEPT !.heap = [a \in Addrs |-> IF a \in freed THEN Free ELSE @[a]]], answer)
      /\ evicted' = evicted \cup (IF IsFull(c) THEN {c.tail} ELSE {})

Init ==
  /\ heap = [a \in Addrs |-> Free]
  /\ lru = [s \in Shards |-> [head |-> Null, tail |-> Null, inner |-> <<>>]]
  /\ ret = [s \in Shards |-> Null]
  /\ order = [s \in Shards |-> <<>>]
  /\ refs = {}
  /\ evicted = {}

\* A reference to the value that is replaced ends here: put frees its node.
put(k, v) ==
  LET s == ShardOf[k]
      c == Opened(s)
  IN  \E n \in {a \in Addrs : heap[a] = Free} :
        /\ IF k \in DOMAIN c.inner
           THEN LET old == c.inner[k]
                IN  Enter(s, detach(Unmap(Alloc(c, n, k, v), k), old), n, k, v, heap[old].value, {old})
           ELSE Enter(s, Alloc(c, n, k, v), n, k, v, Null, {})
        /\ refs' = {r \in refs : r.key # k}

\* The answer is a reference to node n; a client that wants it keeps it.
HandOut(n, k, v) ==
  \/ UNCHANGED refs
  \/ /\ Cardinality(refs) < MaxRefs
     /\ refs' = refs \cup {[addr |-> n, key |-> k, value |-> v]}

Hit_NotMoved(k, s, c) ==
  /\ Close(s, c, heap[c.inner[k]].value)
  /\ HandOut(c.inner[k], k, heap[c.inner[k]].value)
  /\ UNCHANGED evicted

\* A hit moves the node to the front and hands out a reference to its value.
Hit(k, s, c) ==
  /\ Close(s, attach(detach(c, c.inner[k]), c.inner[k]), heap[c.inner[k]].value)
  /\ HandOut(c.inner[k], k, heap[c.inner[k]].value)
  /\ UNCHANGED evicted

get(k) ==
  LET s == ShardOf[k]
      c == Opened(s)
  IN  \/ k \in DOMAIN c.inner /\ Hit(k, s, c)
      \/ /\ k \notin DOMAIN c.inner
         /\ Close(s, c, Null)
         /\ UNCHANGED <<refs, evicted>>

remove(k) ==
  LET s == ShardOf[k]
      c == Opened(s)
  IN  /\ IF k \in DOMAIN c.inner
         THEN LET d == detach(Unmap(c, k), c.inner[k])
              IN  Close(s, [d EXCEPT !.heap[c.inner[k]] = Free], heap[c.inner[k]].value)
         ELSE Close(s, c, Null)
      /\ refs' = {r \in refs : r.key # k}
      /\ UNCHANGED evicted

\* The loading function runs under the lock, before anything is changed; v is
\* what it returns, Error its failure.
get_or_insert(k, v) ==
  LET s == ShardOf[k]
      c == Opened(s)
  IN  \/ k \in DOMAIN c.inner /\ Hit(k, s, c)
      \/ /\ k \notin DOMAIN c.inner
         /\ v = Error
         /\ Close(s, c, Error)
         /\ UNCHANGED <<refs, evicted>>
      \/ /\ k \notin DOMAIN c.inner
         /\ v # Error
         /\ \E n \in {a \in Addrs : heap[a] = Free} :
              /\ Enter(s, Alloc(c, n, k, v), n, k, v, v, {})
              /\ HandOut(n, k, v)

\* A client lets go of a reference.
Release(r) ==
  /\ refs' = refs \ {r}
  /\ UNCHANGED <<heap, lru, ret, order, evicted>>

Next ==
  \/ \E k \in Keys : get(k) \/ remove(k)
  \/ \E k \in Keys, v \in Values : put(k, v)
  \/ \E k \in Keys, v \in Values \cup {Error} : get_or_insert(k, v)
  \/ \E r \in refs : Release(r)

Spec == Init /\ [][Next]_vars

(***************************************************************************)
(* Properties.                                                             *)
(***************************************************************************)

Mapped(inner) == {inner[k] : k \in DOMAIN inner}

\* The n nodes of the sequence chain, linked both ways from head to tail.
Linked(h, head, tail, n, chain) ==
  /\ head = IF n = 0 THEN Null ELSE chain[1]
  /\ tail = IF n = 0 THEN Null ELSE chain[n]
  /\ \A i \in 1..n : /\ h[chain[i]].prev = IF i = 1 THEN Null ELSE chain[i - 1]
                     /\ h[chain[i]].next = IF i = n THEN Null ELSE chain[i + 1]

\* The list and the hash map of a shard hold the same nodes: walking next from
\* head visits every mapped node once and ends at tail, prev is the inverse of
\* next, and each node is mapped under its own key (detach, attach, expulsion).
\* Every other allocated node was driven out by expulsion: put and remove give
\* back the nodes they take out.
ListMatchesMap ==
  /\ \A s \in Shards :
       LET inner == lru[s].inner
           n == Cardinality(DOMAIN inner)
       IN  /\ \A k \in DOMAIN inner : heap[inner[k]] # Free /\ heap[inner[k]].key = k
           /\ \E chain \in [1..n -> Mapped(inner)] :
                /\ {chain[i] : i \in 1..n} = Mapped(inner)
                /\ Linked(heap, lru[s].head, lru[s].tail, n, chain)
  /\ {a \in Addrs : heap[a] # Free} =
       evicted \cup UNION {Mapped(lru[s].inner) : s \in Shards}

\* A reference handed out by get or get_or_insert keeps pointing to the value it
\* was given for, whatever is evicted or loaded meanwhile: only a put or a
\* remove of its own key frees the node.
ReferencesStable ==
  \A r \in refs : heap[r.addr] # Free /\ heap[r.addr].key = r.key /\ heap[r.addr].value = r.value

Abstract == INSTANCE Lru WITH None <- Null

\* Every shard is a least-recently-used cache of its share of the capacity: the
\* pointer code answers, reorders and evicts as the sequences of Lru do, and an
\* operation on one shard leaves the others alone.
ImplementsLru == Abstract!Spec
===========================================================================
