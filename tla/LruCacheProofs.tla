--------------------------- MODULE LruCacheProofs ---------------------------
(***************************************************************************)
(* The linked list of a shard and its hash map agree, and a reference that *)
(* was handed out stays valid, for any keys, shards, capacity and memory.  *)
(* First the lemmas about one shard: what the pointer writes SetNext and   *)
(* SetPrev change, what detach and attach make of a list of n nodes, and   *)
(* how list and hash map stay together through detach, attach and          *)
(* expulsion.  Then what an operation does to the whole cache.             *)
(***************************************************************************)
EXTENDS LruCache, FiniteSetTheorems, TLAPS

Heaps  == [Addrs -> Node \cup {Free}]
Inners == UNION {[D -> Addrs] : D \in SUBSET Keys}
Recs   == [heap : Heaps, head : Ptr, tail : Ptr, inner : Inners]

\* The list from head to tail consists of the n nodes of N, in the order of chain.
IsList(h, head, tail, N, n, chain) ==
  /\ n \in Nat
  /\ chain \in [1..n -> N]
  /\ \A i \in 1..n, j \in 1..n : chain[i] = chain[j] => i = j
  /\ \A a \in N : \E i \in 1..n : chain[i] = a
  /\ Linked(h, head, tail, n, chain)

Listing(h, head, tail, N, n) == \E chain : IsList(h, head, tail, N, n, chain)

\* h2 differs from h in the pointers of the nodes of N only.
Relinked(h, h2, N) ==
  /\ h2 \in Heaps
  /\ \A a \in Addrs \ N : h2[a] = h[a]
  /\ \A a \in N : h2[a] # Free /\ h2[a].key = h[a].key /\ h2[a].value = h[a].value

(***************************************************************************)
(* Memory.                                                                 *)
(***************************************************************************)

\* A pointer to an allocated node, or the null pointer.
LEMMA SetNextEffect ==
  ASSUME NEW h \in Heaps, NEW a \in Addrs, h[a] # Free, NEW x \in Ptr
  PROVE  /\ SetNext(h, a, x) \in Heaps
         /\ \A b \in Addrs : b # a => SetNext(h, a, x)[b] = h[b]
         /\ SetNext(h, a, x)[a] # Free
         /\ SetNext(h, a, x)[a].key = h[a].key
         /\ SetNext(h, a, x)[a].value = h[a].value
         /\ SetNext(h, a, x)[a].prev = h[a].prev
         /\ SetNext(h, a, x)[a].next = x
<1> DEFINE d == [h[a] EXCEPT !.next = x]
<1>1. h[a] \in Node
  BY DEF Heaps
<1>2. d \in Node /\ d.key = h[a].key /\ d.value = h[a].value /\ d.prev = h[a].prev /\ d.next = x
  BY <1>1 DEF Node
<1>3. d # Free
  BY <1>2, PointerAssumption
<1>4. SetNext(h, a, x) = [h EXCEPT ![a] = d]
  BY PointerAssumption DEF SetNext
<1> HIDE DEF d
<1>5. [h EXCEPT ![a] = d] \in Heaps
  BY <1>2 DEF Heaps
<1> QED
  BY <1>2, <1>3, <1>4, <1>5 DEF Heaps

LEMMA SetPrevEffect ==
  ASSUME NEW h \in Heaps, NEW a \in Addrs, h[a] # Free, NEW x \in Ptr
  PROVE  /\ SetPrev(h, a, x) \in Heaps
         /\ \A b \in Addrs : b # a => SetPrev(h, a, x)[b] = h[b]
         /\ SetPrev(h, a, x)[a] # Free
         /\ SetPrev(h, a, x)[a].key = h[a].key
         /\ SetPrev(h, a, x)[a].value = h[a].value
         /\ SetPrev(h, a, x)[a].next = h[a].next
         /\ SetPrev(h, a, x)[a].prev = x
<1> DEFINE d == [h[a] EXCEPT !.prev = x]
<1>1. h[a] \in Node
  BY DEF Heaps
<1>2. d \in Node /\ d.key = h[a].key /\ d.value = h[a].value /\ d.next = h[a].next /\ d.prev = x
  BY <1>1 DEF Node
<1>3. d # Free
  BY <1>2, PointerAssumption
<1>4. SetPrev(h, a, x) = [h EXCEPT ![a] = d]
  BY PointerAssumption DEF SetPrev
<1> HIDE DEF d
<1>5. [h EXCEPT ![a] = d] \in Heaps
  BY <1>2 DEF Heaps
<1> QED
  BY <1>2, <1>3, <1>4, <1>5 DEF Heaps

\* Setting a pointer through null does nothing.
LEMMA SetNull ==
  ASSUME NEW h, NEW x
  PROVE  SetNext(h, Null, x) = h /\ SetPrev(h, Null, x) = h
BY DEF SetNext, SetPrev

\* A linked pointer is null or an allocated address.
Live(h, p) == p = Null \/ (p \in Addrs /\ h[p] # Free)

LEMMA SetNextLive ==
  ASSUME NEW h \in Heaps, NEW a, Live(h, a), NEW x \in Ptr
  PROVE  /\ SetNext(h, a, x) \in Heaps
         /\ \A b \in Addrs : b # a => SetNext(h, a, x)[b] = h[b]
         /\ \A b \in Addrs : /\ (SetNext(h, a, x)[b] = Free) <=> (h[b] = Free)
                             /\ SetNext(h, a, x)[b].key = h[b].key
                             /\ SetNext(h, a, x)[b].value = h[b].value
                             /\ SetNext(h, a, x)[b].prev = h[b].prev
         /\ a # Null => SetNext(h, a, x)[a].next = x
<1>1. CASE a = Null
  BY <1>1, SetNull, PointerAssumption, Zenon
<1>2. CASE a # Null
  <2>1. a \in Addrs /\ h[a] # Free
    BY <1>2 DEF Live
  <2> DEFINE g == SetNext(h, a, x)
  <2>2. /\ g \in Heaps /\ g[a] # Free /\ g[a].key = h[a].key /\ g[a].value = h[a].value
        /\ g[a].prev = h[a].prev /\ g[a].next = x
        /\ \A b \in Addrs : b # a => g[b] = h[b]
    BY <2>1, SetNextEffect
  <2> HIDE DEF g
  <2>3. \A b \in Addrs : /\ (g[b] = Free) <=> (h[b] = Free)
                         /\ g[b].key = h[b].key
                         /\ g[b].value = h[b].value
                         /\ g[b].prev = h[b].prev
    BY <2>1, <2>2
  <2> QED
    BY <2>2, <2>3 DEF g
<1> QED
  BY <1>1, <1>2

LEMMA SetPrevLive ==
  ASSUME NEW h \in Heaps, NEW a, Live(h, a), NEW x \in Ptr
  PROVE  /\ SetPrev(h, a, x) \in Heaps
         /\ \A b \in Addrs : b # a => SetPrev(h, a, x)[b] = h[b]
         /\ \A b \in Addrs : /\ (SetPrev(h, a, x)[b] = Free) <=> (h[b] = Free)
                             /\ SetPrev(h, a, x)[b].key = h[b].key
                             /\ SetPrev(h, a, x)[b].value = h[b].value
                             /\ SetPrev(h, a, x)[b].next = h[b].next
         /\ a # Null => SetPrev(h, a, x)[a].prev = x
<1>1. CASE a = Null
  BY <1>1, SetNull, PointerAssumption, Zenon
<1>2. CASE a # Null
  <2>1. a \in Addrs /\ h[a] # Free
    BY <1>2 DEF Live
  <2> DEFINE g == SetPrev(h, a, x)
  <2>2. /\ g \in Heaps /\ g[a] # Free /\ g[a].key = h[a].key /\ g[a].value = h[a].value
        /\ g[a].next = h[a].next /\ g[a].prev = x
        /\ \A b \in Addrs : b # a => g[b] = h[b]
    BY <2>1, SetPrevEffect
  <2> HIDE DEF g
  <2>3. \A b \in Addrs : /\ (g[b] = Free) <=> (h[b] = Free)
                         /\ g[b].key = h[b].key
                         /\ g[b].value = h[b].value
                         /\ g[b].next = h[b].next
    BY <2>1, <2>2
  <2> QED
    BY <2>2, <2>3 DEF g
<1> QED
  BY <1>1, <1>2

(***************************************************************************)
(* detach.                                                                 *)
(***************************************************************************)

\* What the four pointer writes of detach leave: P and Q, the neighbours of
\* x, point at each other, and x at nothing.
Unlink(h, x, P, Q) == SetNext(SetPrev(SetPrev(SetNext(h, P, Q), Q, P), x, Null), x, Null)

LEMMA UnlinkEffect ==
  ASSUME NEW h \in Heaps, NEW x \in Addrs, h[x] # Free,
         NEW P, NEW Q, Live(h, P), Live(h, Q), P # x, Q # x, P = Q => P = Null
  PROVE  /\ Unlink(h, x, P, Q) \in Heaps
         /\ \A b \in Addrs : /\ (Unlink(h, x, P, Q)[b] = Free) <=> (h[b] = Free)
                             /\ Unlink(h, x, P, Q)[b].key = h[b].key
                             /\ Unlink(h, x, P, Q)[b].value = h[b].value
         /\ \A b \in Addrs : b \notin {x, P, Q} => Unlink(h, x, P, Q)[b] = h[b]
         /\ \A b \in Addrs \ {x} : b # P => Unlink(h, x, P, Q)[b].next = h[b].next
         /\ \A b \in Addrs \ {x} : b # Q => Unlink(h, x, P, Q)[b].prev = h[b].prev
         /\ P # Null => Unlink(h, x, P, Q)[P].next = Q
         /\ Q # Null => Unlink(h, x, P, Q)[Q].prev = P
<1> DEFINE h1 == SetNext(h, P, Q)
           h2 == SetPrev(h1, Q, P)
           h3 == SetPrev(h2, x, Null)
           h4 == SetNext(h3, x, Null)
<1>0. P \in Ptr /\ Q \in Ptr /\ Null \in Ptr /\ Live(h, x)
  BY DEF Live, Ptr
<1>1. /\ h1 \in Heaps
      /\ \A b \in Addrs : b # P => h1[b] = h[b]
      /\ \A b \in Addrs : /\ (h1[b] = Free) <=> (h[b] = Free)
                          /\ h1[b].key = h[b].key /\ h1[b].value = h[b].value /\ h1[b].prev = h[b].prev
      /\ P # Null => h1[P].next = Q
  BY <1>0, SetNextLive
<1>2. Live(h1, Q) /\ Live(h1, x)
  BY <1>0, <1>1 DEF Live
<1> HIDE DEF h1
<1>3. /\ h2 \in Heaps
      /\ \A b \in Addrs : b # Q => h2[b] = h1[b]
      /\ \A b \in Addrs : /\ (h2[b] = Free) <=> (h1[b] = Free)
                          /\ h2[b].key = h1[b].key /\ h2[b].value = h1[b].value /\ h2[b].next = h1[b].next
      /\ Q # Null => h2[Q].prev = P
  BY <1>0, <1>1, <1>2, SetPrevLive
<1>4. Live(h2, x)
  BY <1>2, <1>3 DEF Live
<1> HIDE DEF h2
<1>5. /\ h3 \in Heaps
      /\ \A b \in Addrs : b # x => h3[b] = h2[b]
      /\ \A b \in Addrs : /\ (h3[b] = Free) <=> (h2[b] = Free)
                          /\ h3[b].key = h2[b].key /\ h3[b].value = h2[b].value
  BY <1>0, <1>3, <1>4, SetPrevLive
<1>6. Live(h3, x)
  BY <1>4, <1>5 DEF Live
<1> HIDE DEF h3
<1>7. /\ h4 \in Heaps
      /\ \A b \in Addrs : b # x => h4[b] = h3[b]
      /\ \A b \in Addrs : /\ (h4[b] = Free) <=> (h3[b] = Free)
                          /\ h4[b].key = h3[b].key /\ h4[b].value = h3[b].value
  BY <1>0, <1>5, <1>6, SetNextLive
<1> HIDE DEF h4
<1>8. /\ \A b \in Addrs : /\ (h4[b] = Free) <=> (h[b] = Free)
                          /\ h4[b].key = h[b].key /\ h4[b].value = h[b].value
      /\ \A b \in Addrs : b \notin {x, P, Q} => h4[b] = h[b]
  BY <1>1, <1>3, <1>5, <1>7
<1>9. \A b \in Addrs \ {x} : b # P => h4[b].next = h[b].next
  BY <1>1, <1>3, <1>5, <1>7
<1>10. \A b \in Addrs \ {x} : b # Q => h4[b].prev = h[b].prev
  BY <1>1, <1>3, <1>5, <1>7
<1>11. P # Null => h4[P].next = Q
  BY <1>1, <1>3, <1>5, <1>7 DEF Live
<1>12. Q # Null => h4[Q].prev = P
  BY <1>1, <1>3, <1>5, <1>7 DEF Live
<1>13. h4 = Unlink(h, x, P, Q)
  BY DEF h1, h2, h3, h4, Unlink
<1> QED
  BY <1>7, <1>8, <1>9, <1>10, <1>11, <1>12, <1>13

LEMMA RecordEdit ==
  ASSUME NEW A, NEW B, NEW C, NEW D, NEW c \in [heap : A, head : B, tail : C, inner : D],
         NEW h, NEW hd, NEW tl
  PROVE  [c EXCEPT !.heap = h, !.head = hd, !.tail = tl]
           = [heap |-> h, head |-> hd, tail |-> tl, inner |-> c.inner]
<1> DEFINE d == [heap |-> h, head |-> c.head, tail |-> c.tail, inner |-> c.inner]
           e == [heap |-> h, head |-> hd, tail |-> c.tail, inner |-> c.inner]
<1>1. [c EXCEPT !.heap = h] = d
  OBVIOUS
<1>2. [d EXCEPT !.head = hd] = e
  OBVIOUS
<1>3. [e EXCEPT !.tail = tl] = [heap |-> h, head |-> hd, tail |-> tl, inner |-> c.inner]
  OBVIOUS
<1>4. [c EXCEPT !.heap = h, !.head = hd, !.tail = tl]
        = [[[c EXCEPT !.heap = h] EXCEPT !.head = hd] EXCEPT !.tail = tl]
  OBVIOUS
<1> HIDE DEF d, e
<1> QED
  BY <1>1, <1>2, <1>3, <1>4, Zenon

LEMMA HeapEdit ==
  ASSUME NEW A, NEW B, NEW C, NEW D, NEW c \in [heap : A, head : B, tail : C, inner : D], NEW h
  PROVE  [c EXCEPT !.heap = h] = [heap |-> h, head |-> c.head, tail |-> c.tail, inner |-> c.inner]
OBVIOUS

LEMMA InnerEdit ==
  ASSUME NEW A, NEW B, NEW C, NEW D, NEW c \in [heap : A, head : B, tail : C, inner : D], NEW inn
  PROVE  [c EXCEPT !.inner = inn] = [heap |-> c.heap, head |-> c.head, tail |-> c.tail, inner |-> inn]
OBVIOUS

LEMMA DetachFields ==
  ASSUME NEW c \in Recs, NEW x
  PROVE  detach(c, x) =
           [heap  |-> Unlink(c.heap, x, c.heap[x].prev, c.heap[x].next),
            head  |-> IF c.heap[x].prev = Null THEN c.heap[x].next ELSE c.head,
            tail  |-> IF c.heap[x].next = Null THEN c.heap[x].prev ELSE c.tail,
            inner |-> c.inner]
<1> DEFINE h  == Unlink(c.heap, x, c.heap[x].prev, c.heap[x].next)
           hd == IF c.heap[x].prev = Null THEN c.heap[x].next ELSE c.head
           tl == IF c.heap[x].next = Null THEN c.heap[x].prev ELSE c.tail
<1>1. detach(c, x) = [c EXCEPT !.heap = h, !.head = hd, !.tail = tl]
  BY Zenon DEF detach, Unlink
<1> HIDE DEF h, hd, tl
<1>2. detach(c, x) = [heap |-> h, head |-> hd, tail |-> tl, inner |-> c.inner]
  BY <1>1, RecordEdit, Zenon DEF Recs
<1> QED
  BY <1>2, Zenon DEF h, hd, tl

\* detach takes one node out of a list and changes no other list.
LEMMA DetachList ==
  ASSUME NEW h \in Heaps, NEW head, NEW tail, NEW N, NEW n, NEW L,
         N \subseteq Addrs, \A a \in N : h[a] # Free,
         IsList(h, head, tail, N, n, L), NEW x \in N,
         NEW P, NEW Q, P = h[x].prev, Q = h[x].next
  PROVE  /\ Relinked(h, Unlink(h, x, P, Q), N)
         /\ n # 0 /\ n - 1 \in Nat
         /\ Listing(Unlink(h, x, P, Q), IF P = Null THEN Q ELSE head,
                    IF Q = Null THEN P ELSE tail, N \ {x}, n - 1)
<1> DEFINE g  == Unlink(h, x, P, Q)
           hd == IF P = Null THEN Q ELSE head
           tl == IF Q = Null THEN P ELSE tail
<1>1. /\ n \in Nat /\ L \in [1..n -> N]
      /\ \A i \in 1..n, j \in 1..n : L[i] = L[j] => i = j
      /\ \A a \in N : \E i \in 1..n : L[i] = a
  BY DEF IsList
<1>2. /\ head = IF n = 0 THEN Null ELSE L[1]
      /\ tail = IF n = 0 THEN Null ELSE L[n]
      /\ \A i \in 1..n : /\ h[L[i]].prev = IF i = 1 THEN Null ELSE L[i - 1]
                         /\ h[L[i]].next = IF i = n THEN Null ELSE L[i + 1]
  BY DEF IsList, Linked
<1>3. PICK p \in 1..n : L[p] = x
  BY <1>1
<1>4. /\ P = IF p = 1 THEN Null ELSE L[p - 1]
      /\ Q = IF p = n THEN Null ELSE L[p + 1]
  BY <1>2, <1>3
<1>5. n # 0 /\ n - 1 \in Nat
  BY <1>1, <1>3
<1>6. /\ p # 1 => (P = L[p - 1] /\ P \in N /\ P # x)
      /\ p # n => (Q = L[p + 1] /\ Q \in N /\ Q # x)
      /\ p # 1 /\ p # n => P # Q
      /\ p = 1 => P = Null
      /\ p = n => Q = Null
  BY <1>1, <1>3, <1>4
<1>7. Live(h, P) /\ Live(h, Q) /\ P # x /\ Q # x /\ (P = Q => P = Null)
  BY <1>6, PointerAssumption DEF Live
<1>8. /\ g \in Heaps
      /\ \A b \in Addrs : /\ (g[b] = Free) <=> (h[b] = Free)
                          /\ g[b].key = h[b].key
                          /\ g[b].value = h[b].value
      /\ \A b \in Addrs : b \notin {x, P, Q} => g[b] = h[b]
      /\ \A b \in Addrs \ {x} : b # P => g[b].next = h[b].next
      /\ \A b \in Addrs \ {x} : b # Q => g[b].prev = h[b].prev
      /\ P # Null => g[P].next = Q
      /\ Q # Null => g[Q].prev = P
  BY <1>7, UnlinkEffect, SMTT(30)
<1> HIDE DEF g
<1>9. Relinked(h, g, N)
  <2>1. \A a \in Addrs \ N : a \notin {x, P, Q}
    BY <1>6, PointerAssumption
  <2> QED
    BY <2>1, <1>8 DEF Relinked
<1> DEFINE M == [i \in 1..(n - 1) |-> IF i < p THEN L[i] ELSE L[i + 1]]
<1>10. \A i \in 1..(n - 1) : /\ i < p => M[i] = L[i] /\ i \in 1..n
                             /\ ~(i < p) => M[i] = L[i + 1] /\ i + 1 \in 1..n
                             /\ M[i] \in N \ {x}
  BY <1>1, <1>3
<1>11. M \in [1..(n - 1) -> N \ {x}]
  <2>1. M = [i \in 1..(n - 1) |-> M[i]]
    OBVIOUS
  <2> HIDE DEF M
  <2> QED
    BY <2>1, <1>10
<1> HIDE DEF M
<1>12. \A i \in 1..(n - 1), j \in 1..(n - 1) : M[i] = M[j] => i = j
  BY <1>1, <1>3, <1>10
<1>13. \A a \in N \ {x} : \E i \in 1..(n - 1) : M[i] = a
  <2> SUFFICES ASSUME NEW a \in N \ {x} PROVE \E i \in 1..(n - 1) : M[i] = a
    OBVIOUS
  <2>1. PICK i \in 1..n : L[i] = a
    BY <1>1
  <2>2. i # p
    BY <2>1, <1>3
  <2>3. CASE i < p
    BY <2>1, <2>3, <1>1, <1>3, <1>10
  <2>4. CASE p < i
    <3>1. i - 1 \in 1..(n - 1) /\ ~(i - 1 < p) /\ (i - 1) + 1 = i
      BY <2>4, <1>1, <1>3
    <3> QED
      BY <2>1, <3>1, <1>10
  <2> QED
    BY <2>2, <2>3, <2>4
<1>14. Linked(g, hd, tl, n - 1, M)
  <2>1. hd = IF n - 1 = 0 THEN Null ELSE M[1]
    <3>1. CASE p = 1
      BY <3>1, <1>1, <1>4, <1>5, <1>6, <1>10
    <3>2. CASE p # 1
      <4>0. P # Null
        BY <3>2, <1>6, PointerAssumption
      <4>1. head = L[1] /\ n - 1 # 0 /\ 1 \in 1..(n - 1) /\ 1 < p
        BY <3>2, <1>1, <1>2, <1>3
      <4> QED
        BY <4>0, <4>1, <1>10
    <3> QED
      BY <3>1, <3>2
  <2>2. tl = IF n - 1 = 0 THEN Null ELSE M[n - 1]
    <3>1. CASE p = n
      BY <3>1, <1>1, <1>4, <1>5, <1>6, <1>10
    <3>2. CASE p # n
      <4>0. Q # Null
        BY <3>2, <1>6, PointerAssumption
      <4>1. tail = L[n] /\ n - 1 # 0 /\ n - 1 \in 1..(n - 1) /\ ~(n - 1 < p) /\ (n - 1) + 1 = n
        BY <3>2, <1>1, <1>2, <1>3
      <4> QED
        BY <4>0, <4>1, <1>10
    <3> QED
      BY <3>1, <3>2
  <2>3. ASSUME NEW i \in 1..(n - 1)
        PROVE  g[M[i]].prev = IF i = 1 THEN Null ELSE M[i - 1]
    <3>1. CASE i < p
      <4>1. M[i] = L[i] /\ i \in 1..n /\ M[i] # Q /\ M[i] \in Addrs \ {x}
        BY <3>1, <1>1, <1>3, <1>6, <1>10, PointerAssumption
      <4>2. g[M[i]].prev = h[L[i]].prev
        BY <4>1, <1>8
      <4>3. i # 1 => M[i - 1] = L[i - 1]
        BY <3>1, <1>1, <1>10
      <4> QED
        BY <4>1, <4>2, <4>3, <1>2
    <3>2. CASE i = p
      <4>1. M[i] = L[p + 1] /\ p # n
        BY <3>2, <1>1, <1>3, <1>10
      <4>2. Q = M[i] /\ Q # Null
        BY <4>1, <1>6, PointerAssumption
      <4>3. g[M[i]].prev = P
        BY <4>2, <1>8
      <4>4. i # 1 => M[i - 1] = L[p - 1]
        BY <3>2, <1>1, <1>10
      <4> QED
        BY <3>2, <4>3, <4>4, <1>4
    <3>3. CASE p < i
      <4>1. M[i] = L[i + 1] /\ i + 1 \in 1..n /\ M[i] # Q /\ M[i] \in Addrs \ {x}
        BY <3>3, <1>1, <1>3, <1>6, <1>10, PointerAssumption
      <4>2. g[M[i]].prev = h[L[i + 1]].prev
        BY <4>1, <1>8
      <4>3. i # 1 /\ M[i - 1] = L[i] /\ i + 1 # 1 /\ (i + 1) - 1 = i
        BY <3>3, <1>1, <1>3, <1>10
      <4> QED
        BY <4>1, <4>2, <4>3, <1>2
    <3> QED
      BY <3>1, <3>2, <3>3
  <2>4. ASSUME NEW i \in 1..(n - 1)
        PROVE  g[M[i]].next = IF i = n - 1 THEN Null ELSE M[i + 1]
    <3>1. CASE i < p - 1
      <4>1. M[i] = L[i] /\ i \in 1..n /\ M[i] # P /\ M[i] \in Addrs \ {x}
        BY <3>1, <1>1, <1>3, <1>6, <1>10, PointerAssumption
      <4>2. g[M[i]].next = h[L[i]].next
        BY <4>1, <1>8
      <4>3. i # n - 1 /\ i # n /\ M[i + 1] = L[i + 1]
        BY <3>1, <1>1, <1>3, <1>10
      <4> QED
        BY <4>1, <4>2, <4>3, <1>2
    <3>2. CASE i = p - 1
      <4>1. M[i] = L[p - 1] /\ p # 1
        BY <3>2, <1>1, <1>3, <1>10
      <4>2. P = M[i] /\ P # Null
        BY <4>1, <1>6, PointerAssumption
      <4>3. g[M[i]].next = Q
        BY <4>2, <1>8
      <4>4. /\ i = n - 1 <=> p = n
            /\ i # n - 1 => M[i + 1] = L[p + 1]
        BY <3>2, <1>1, <1>3, <1>10
      <4> QED
        BY <4>3, <4>4, <1>4
    <3>3. CASE p - 1 < i
      <4>1. M[i] = L[i + 1] /\ i + 1 \in 1..n /\ M[i] # P /\ M[i] \in Addrs \ {x}
        BY <3>3, <1>1, <1>3, <1>6, <1>10, PointerAssumption
      <4>2. g[M[i]].next = h[L[i + 1]].next
        BY <4>1, <1>8
      <4>3. /\ i + 1 = n <=> i = n - 1
            /\ i # n - 1 => M[i + 1] = L[(i + 1) + 1]
        BY <3>3, <1>1, <1>3, <1>10
      <4> QED
        BY <4>1, <4>2, <4>3, <1>2
    <3> QED
      BY <3>1, <3>2, <3>3, <1>1, <1>3
  <2> QED
    BY <2>1, <2>2, <2>3, <2>4 DEF Linked
<1>15. IsList(g, hd, tl, N \ {x}, n - 1, M)
  BY <1>5, <1>11, <1>12, <1>13, <1>14 DEF IsList
<1>16. Listing(g, hd, tl, N \ {x}, n - 1)
  BY <1>15 DEF Listing
<1> QED
  BY <1>5, <1>9, <1>16 DEF g

(***************************************************************************)
(* attach.                                                                 *)
(***************************************************************************)

\* What the three pointer writes of attach leave.
Link(h, x, H) == SetPrev(SetNext(SetPrev(h, H, x), x, H), x, Null)

LEMMA LinkEffect ==
  ASSUME NEW h \in Heaps, NEW x \in Addrs, h[x] # Free, NEW H, Live(h, H), H # x
  PROVE  /\ Link(h, x, H) \in Heaps
         /\ \A b \in Addrs : /\ (Link(h, x, H)[b] = Free) <=> (h[b] = Free)
                             /\ Link(h, x, H)[b].key = h[b].key
                             /\ Link(h, x, H)[b].value = h[b].value
         /\ \A b \in Addrs : b \notin {x, H} => Link(h, x, H)[b] = h[b]
         /\ Link(h, x, H)[x].next = H
         /\ Link(h, x, H)[x].prev = Null
         /\ H # Null => Link(h, x, H)[H].next = h[H].next /\ Link(h, x, H)[H].prev = x
<1> DEFINE h1 == SetPrev(h, H, x)
           h2 == SetNext(h1, x, H)
           h3 == SetPrev(h2, x, Null)
<1>0. H \in Ptr /\ x \in Ptr /\ x # Null /\ Null \in Ptr /\ Live(h, x)
  BY PointerAssumption DEF Live, Ptr
<1>1. /\ h1 \in Heaps
      /\ \A b \in Addrs : b # H => h1[b] = h[b]
      /\ \A b \in Addrs : /\ (h1[b] = Free) <=> (h[b] = Free)
                          /\ h1[b].key = h[b].key /\ h1[b].value = h[b].value /\ h1[b].next = h[b].next
      /\ H # Null => h1[H].prev = x
  BY <1>0, SetPrevLive
<1>2. Live(h1, x)
  BY <1>0, <1>1 DEF Live
<1> HIDE DEF h1
<1>3. /\ h2 \in Heaps
      /\ \A b \in Addrs : b # x => h2[b] = h1[b]
      /\ \A b \in Addrs : /\ (h2[b] = Free) <=> (h1[b] = Free)
                          /\ h2[b].key = h1[b].key /\ h2[b].value = h1[b].value
      /\ h2[x].next = H
  BY <1>0, <1>1, <1>2, SetNextLive
<1>4. Live(h2, x)
  BY <1>2, <1>3 DEF Live
<1> HIDE DEF h2
<1>5. /\ h3 \in Heaps
      /\ \A b \in Addrs : b # x => h3[b] = h2[b]
      /\ \A b \in Addrs : /\ (h3[b] = Free) <=> (h2[b] = Free)
                          /\ h3[b].key = h2[b].key /\ h3[b].value = h2[b].value /\ h3[b].next = h2[b].next
      /\ h3[x].prev = Null
  BY <1>0, <1>3, <1>4, SetPrevLive
<1> HIDE DEF h3
<1>6. /\ \A b \in Addrs : /\ (h3[b] = Free) <=> (h[b] = Free)
                          /\ h3[b].key = h[b].key /\ h3[b].value = h[b].value
      /\ \A b \in Addrs : b \notin {x, H} => h3[b] = h[b]
  BY <1>1, <1>3, <1>5
<1>7. H # Null => h3[H].next = h[H].next /\ h3[H].prev = x
  BY <1>1, <1>3, <1>5 DEF Live
<1>8. h3 = Link(h, x, H)
  BY DEF h1, h2, h3, Link
<1> QED
  BY <1>3, <1>5, <1>6, <1>7, <1>8

\* attach puts a node that is in no list in front of one.
LEMMA AttachList ==
  ASSUME NEW h \in Heaps, NEW head, NEW tail, NEW N, NEW n, NEW L,
         N \subseteq Addrs, \A a \in N : h[a] # Free,
         IsList(h, head, tail, N, n, L), NEW x \in Addrs \ N, h[x] # Free
  PROVE  /\ Relinked(h, Link(h, x, head), N \cup {x})
         /\ Listing(Link(h, x, head), x, IF head = Null THEN x ELSE tail, N \cup {x}, n + 1)
<1> DEFINE g  == Link(h, x, head)
           tl == IF head = Null THEN x ELSE tail
<1>1. /\ n \in Nat /\ L \in [1..n -> N]
      /\ \A i \in 1..n, j \in 1..n : L[i] = L[j] => i = j
      /\ \A a \in N : \E i \in 1..n : L[i] = a
  BY DEF IsList
<1>2. /\ head = IF n = 0 THEN Null ELSE L[1]
      /\ tail = IF n = 0 THEN Null ELSE L[n]
      /\ \A i \in 1..n : /\ h[L[i]].prev = IF i = 1 THEN Null ELSE L[i - 1]
                         /\ h[L[i]].next = IF i = n THEN Null ELSE L[i + 1]
  BY DEF IsList, Linked
<1>3. /\ n = 0 => head = Null
      /\ n # 0 => head = L[1] /\ head \in N /\ head # Null /\ head # x
  BY <1>1, <1>2, PointerAssumption
<1>4. Live(h, head) /\ head # x
  BY <1>3, PointerAssumption DEF Live
<1>5. /\ g \in Heaps
      /\ \A b \in Addrs : /\ (g[b] = Free) <=> (h[b] = Free)
                          /\ g[b].key = h[b].key
                          /\ g[b].value = h[b].value
      /\ \A b \in Addrs : b \notin {x, head} => g[b] = h[b]
      /\ g[x].next = head
      /\ g[x].prev = Null
      /\ head # Null => g[head].next = h[head].next /\ g[head].prev = x
  BY <1>4, LinkEffect
<1> HIDE DEF g
<1>6. Relinked(h, g, N \cup {x})
  <2>1. \A a \in Addrs \ (N \cup {x}) : a \notin {x, head}
    BY <1>3, PointerAssumption
  <2> QED
    BY <2>1, <1>5 DEF Relinked
<1> DEFINE M == [i \in 1..(n + 1) |-> IF i = 1 THEN x ELSE L[i - 1]]
<1>7. /\ 1 \in 1..(n + 1) /\ M[1] = x
      /\ \A i \in 1..(n + 1) : i # 1 => M[i] = L[i - 1] /\ i - 1 \in 1..n /\ M[i] \in N
  BY <1>1
<1>8. M \in [1..(n + 1) -> N \cup {x}]
  <2>1. M = [i \in 1..(n + 1) |-> M[i]]
    OBVIOUS
  <2> HIDE DEF M
  <2> QED
    BY <2>1, <1>7
<1> HIDE DEF M
<1>9. \A i \in 1..(n + 1), j \in 1..(n + 1) : M[i] = M[j] => i = j
  BY <1>1, <1>7
<1>10. \A a \in N \cup {x} : \E i \in 1..(n + 1) : M[i] = a
  <2>1. ASSUME NEW a \in N PROVE \E i \in 1..(n + 1) : M[i] = a
    <3>1. PICK i \in 1..n : L[i] = a
      BY <1>1
    <3>2. i + 1 \in 1..(n + 1) /\ i + 1 # 1 /\ (i + 1) - 1 = i
      BY <1>1
    <3> QED
      BY <3>1, <3>2, <1>7
  <2> QED
    BY <2>1, <1>7
<1>11. Linked(g, x, tl, n + 1, M)
  <2>1. x = (IF n + 1 = 0 THEN Null ELSE M[1]) /\ n + 1 # 0
    BY <1>1, <1>7
  <2>2. tl = IF n + 1 = 0 THEN Null ELSE M[n + 1]
    <3>1. CASE n = 0
      BY <3>1, <1>3, <1>7
    <3>2. CASE n # 0
      <4>1. n + 1 \in 1..(n + 1) /\ n + 1 # 1 /\ (n + 1) - 1 = n /\ n + 1 # 0
        BY <3>2, <1>1
      <4>2. tl = L[n]
        BY <3>2, <1>2, <1>3
      <4> QED
        BY <4>1, <4>2, <1>7
    <3> QED
      BY <3>1, <3>2
  <2>3. ASSUME NEW i \in 1..(n + 1)
        PROVE  g[M[i]].prev = IF i = 1 THEN Null ELSE M[i - 1]
    <3>1. CASE i = 1
      BY <3>1, <1>5, <1>7
    <3>2. CASE i = 2
      <4>1. M[i] = head /\ head # Null /\ M[i - 1] = x /\ i # 1
        BY <3>2, <1>1, <1>3, <1>7
      <4> QED
        BY <4>1, <1>5
    <3>3. CASE i # 1 /\ i # 2
      <4>1. /\ i - 1 \in 1..n /\ M[i] = L[i - 1] /\ i - 1 # 1
            /\ i - 1 \in 1..(n + 1) /\ M[i - 1] = L[(i - 1) - 1]
            /\ n # 0 /\ 1 \in 1..n
        BY <3>3, <1>1, <1>7
      <4>2. M[i] \in Addrs /\ M[i] # x /\ M[i] # head
        BY <4>1, <1>1, <1>3
      <4>3. g[M[i]] = h[L[i - 1]]
        BY <4>1, <4>2, <1>5
      <4> QED
        BY <3>3, <4>1, <4>3, <1>2
    <3> QED
      BY <3>1, <3>2, <3>3
  <2>4. ASSUME NEW i \in 1..(n + 1)
        PROVE  g[M[i]].next = IF i = n + 1 THEN Null ELSE M[i + 1]
    <3>1. CASE i = 1
      <4>1. n # 0 => M[i + 1] = L[1] /\ i # n + 1
        BY <3>1, <1>1, <1>7
      <4>2. g[M[i]].next = head
        BY <3>1, <1>5, <1>7
      <4> QED
        BY <3>1, <4>1, <4>2, <1>1, <1>3
    <3>2. CASE i # 1
      <4>1. /\ i - 1 \in 1..n /\ M[i] = L[i - 1] /\ M[i] \in N
            /\ i = n + 1 <=> i - 1 = n
            /\ i # n + 1 => M[i + 1] = L[(i - 1) + 1]
        BY <3>2, <1>1, <1>7
      <4>2. g[M[i]].next = h[M[i]].next
        <5>1. M[i] # x /\ M[i] \in Addrs /\ M[i] # Null
          BY <4>1, PointerAssumption
        <5> QED
          BY <5>1, <1>5
      <4> QED
        BY <4>1, <4>2, <1>2
    <3> QED
      BY <3>1, <3>2
  <2> QED
    BY <2>1, <2>2, <2>3, <2>4 DEF Linked
<1>12. n + 1 \in Nat
  BY <1>1
<1>13. IsList(g, x, tl, N \cup {x}, n + 1, M)
  BY <1>8, <1>9, <1>10, <1>11, <1>12 DEF IsList
<1>14. Listing(g, x, tl, N \cup {x}, n + 1)
  BY <1>13 DEF Listing
<1> QED
  BY <1>6, <1>14 DEF g

LEMMA AttachFields ==
  ASSUME NEW c \in Recs, NEW x
  PROVE  attach(c, x) = [heap  |-> Link(c.heap, x, c.head), head |-> x,
                         tail  |-> IF c.head = Null THEN x ELSE c.tail,
                         inner |-> c.inner]
<1> DEFINE h  == Link(c.heap, x, c.head)
           tl == IF c.head = Null THEN x ELSE c.tail
<1>1. attach(c, x) = [c EXCEPT !.heap = h, !.head = x, !.tail = tl]
  BY Zenon DEF attach, Link
<1> HIDE DEF h, tl
<1>2. attach(c, x) = [heap |-> h, head |-> x, tail |-> tl, inner |-> c.inner]
  BY <1>1, RecordEdit, Zenon DEF Recs
<1> QED
  BY <1>2, Zenon DEF h, tl

(***************************************************************************)
(* The hash map.                                                           *)
(***************************************************************************)

Without(f, k) == [y \in DOMAIN f \ {k} |-> f[y]]
With(f, k, x) == [y \in DOMAIN f \cup {k} |-> IF y = k THEN x ELSE f[y]]

LEMMA InnersAre ==
  ASSUME NEW f
  PROVE  f \in Inners <=> (DOMAIN f \in SUBSET Keys /\ f \in [DOMAIN f -> Addrs])
<1>1. f \in Inners => DOMAIN f \in SUBSET Keys /\ f \in [DOMAIN f -> Addrs]
  <2> SUFFICES ASSUME f \in Inners PROVE DOMAIN f \in SUBSET Keys /\ f \in [DOMAIN f -> Addrs]
    OBVIOUS
  <2>1. PICK D \in SUBSET Keys : f \in [D -> Addrs]
    BY DEF Inners
  <2>2. DOMAIN f = D
    BY <2>1
  <2> QED
    BY <2>1, <2>2
<1>2. DOMAIN f \in SUBSET Keys /\ f \in [DOMAIN f -> Addrs] => f \in Inners
  BY Zenon DEF Inners
<1> QED
  BY <1>1, <1>2

LEMMA UnmapFields ==
  ASSUME NEW c \in Recs, NEW k
  PROVE  Unmap(c, k) = [heap |-> c.heap, head |-> c.head, tail |-> c.tail, inner |-> Without(c.inner, k)]
<1> DEFINE f == Without(c.inner, k)
<1>1. Unmap(c, k) = [c EXCEPT !.inner = f]
  BY Zenon DEF Unmap, Without
<1> HIDE DEF f
<1>2. Unmap(c, k) = [heap |-> c.heap, head |-> c.head, tail |-> c.tail, inner |-> f]
  BY <1>1, InnerEdit, Zenon DEF Recs
<1> QED
  BY <1>2, Zenon DEF f

LEMMA MapFields ==
  ASSUME NEW c \in Recs, NEW k, NEW x
  PROVE  Map(c, k, x) = [heap |-> c.heap, head |-> c.head, tail |-> c.tail, inner |-> With(c.inner, k, x)]
<1> DEFINE f == With(c.inner, k, x)
<1>1. Map(c, k, x) = [c EXCEPT !.inner = f]
  BY Zenon DEF Map, With
<1> HIDE DEF f
<1>2. Map(c, k, x) = [heap |-> c.heap, head |-> c.head, tail |-> c.tail, inner |-> f]
  BY <1>1, InnerEdit, Zenon DEF Recs
<1> QED
  BY <1>2, Zenon DEF f

\* Taking k out of an injective map takes out its node.
LEMMA WithoutKey ==
  ASSUME NEW f \in Inners, IsFiniteSet(DOMAIN f), NEW k \in DOMAIN f,
         \A y \in DOMAIN f : f[y] = f[k] => y = k
  PROVE  /\ Without(f, k) \in Inners
         /\ DOMAIN Without(f, k) = DOMAIN f \ {k}
         /\ \A y \in DOMAIN f \ {k} : Without(f, k)[y] = f[y]
         /\ Mapped(Without(f, k)) = Mapped(f) \ {f[k]}
         /\ IsFiniteSet(DOMAIN f \ {k})
         /\ Cardinality(DOMAIN f \ {k}) = Cardinality(DOMAIN f) - 1
<1> DEFINE g == Without(f, k)
<1>1. DOMAIN g = DOMAIN f \ {k} /\ \A y \in DOMAIN f \ {k} : g[y] = f[y]
  BY DEF Without
<1>2. DOMAIN f \in SUBSET Keys /\ f \in [DOMAIN f -> Addrs]
  BY InnersAre
<1>3. g \in [DOMAIN g -> Addrs]
  BY <1>2 DEF Without
<1> HIDE DEF g
<1>4. g \in Inners
  BY <1>1, <1>2, <1>3, InnersAre
<1>5. Mapped(g) = Mapped(f) \ {f[k]}
  <2>1. \A a \in Mapped(g) : a \in Mapped(f) \ {f[k]}
    BY <1>1 DEF Mapped
  <2>2. \A a \in Mapped(f) \ {f[k]} : a \in Mapped(g)
    BY <1>1 DEF Mapped
  <2> QED
    BY <2>1, <2>2
<1>6. IsFiniteSet(DOMAIN f \ {k}) /\ Cardinality(DOMAIN f \ {k}) = Cardinality(DOMAIN f) - 1
  BY FS_RemoveElement
<1> QED
  BY <1>1, <1>4, <1>5, <1>6 DEF g

Extended(f, k, x, g) ==
  /\ g \in Inners
  /\ DOMAIN g = DOMAIN f \cup {k}
  /\ g[k] = x
  /\ \A y \in DOMAIN f : g[y] = f[y]
  /\ Mapped(g) = Mapped(f) \cup {x}
  /\ IsFiniteSet(DOMAIN g)
  /\ Cardinality(DOMAIN g) = Cardinality(DOMAIN f) + 1

LEMMA WithKey ==
  ASSUME NEW f \in Inners, IsFiniteSet(DOMAIN f), NEW k \in Keys, k \notin DOMAIN f, NEW x \in Addrs
  PROVE  Extended(f, k, x, With(f, k, x))
<1> DEFINE g == With(f, k, x)
<1>1. /\ DOMAIN g = DOMAIN f \cup {k}
      /\ g[k] = x
      /\ \A y \in DOMAIN f : g[y] = f[y]
  BY DEF With
<1>2. DOMAIN f \in SUBSET Keys /\ f \in [DOMAIN f -> Addrs]
  BY InnersAre
<1>3. g \in [DOMAIN g -> Addrs]
  BY <1>2 DEF With
<1> HIDE DEF g
<1>4. g \in Inners
  BY <1>1, <1>2, <1>3, InnersAre
<1>5. Mapped(g) = Mapped(f) \cup {x}
  <2>1. \A a \in Mapped(g) : a \in Mapped(f) \cup {x}
    BY <1>1 DEF Mapped
  <2>2. \A a \in Mapped(f) \cup {x} : a \in Mapped(g)
    BY <1>1 DEF Mapped
  <2> QED
    BY <2>1, <2>2
<1>6. IsFiniteSet(DOMAIN f \cup {k}) /\ Cardinality(DOMAIN f \cup {k}) = Cardinality(DOMAIN f) + 1
  BY FS_AddElement
<1> QED
  BY <1>1, <1>4, <1>5, <1>6 DEF g, Extended

(***************************************************************************)
(* A shard: its list consists of the nodes its map holds.                  *)
(***************************************************************************)
Sound(s, c) ==
  /\ c \in Recs
  /\ \A k \in DOMAIN c.inner : ShardOf[k] = s
  /\ IsFiniteSet(DOMAIN c.inner)
  /\ \A k \in DOMAIN c.inner : c.heap[c.inner[k]] # Free /\ c.heap[c.inner[k]].key = k
  /\ Listing(c.heap, c.head, c.tail, Mapped(c.inner), Cardinality(DOMAIN c.inner))

\* The end of a list is null or one of its nodes.
LEMMA Ends ==
  ASSUME NEW h, NEW head, NEW tail, NEW N, NEW n, N \subseteq Addrs, Listing(h, head, tail, N, n)
  PROVE  /\ head \in N \cup {Null} /\ tail \in N \cup {Null}
         /\ head \in Ptr /\ tail \in Ptr
<1>1. PICK L : IsList(h, head, tail, N, n, L)
  BY DEF Listing
<1>2. head \in N \cup {Null} /\ tail \in N \cup {Null}
  BY <1>1 DEF IsList, Linked
<1> QED
  BY <1>2 DEF Ptr

LEMMA SoundFacts ==
  ASSUME NEW s, NEW c, Sound(s, c)
  PROVE  /\ c.heap \in Heaps /\ c.inner \in Inners
         /\ c = [heap |-> c.heap, head |-> c.head, tail |-> c.tail, inner |-> c.inner]
         /\ Mapped(c.inner) \subseteq Addrs
         /\ \A a \in Mapped(c.inner) : c.heap[a] # Free
         /\ \A k \in DOMAIN c.inner : c.inner[k] \in Mapped(c.inner) /\ k \in Keys
         /\ \A k \in DOMAIN c.inner, y \in DOMAIN c.inner : c.inner[y] = c.inner[k] => y = k
<1>1. c \in Recs
  BY DEF Sound
<1>2. c.heap \in Heaps /\ c.inner \in Inners
  BY <1>1 DEF Recs
<1>3. c = [heap |-> c.heap, head |-> c.head, tail |-> c.tail, inner |-> c.inner]
  BY <1>1 DEF Recs
<1>4. DOMAIN c.inner \in SUBSET Keys /\ c.inner \in [DOMAIN c.inner -> Addrs]
  BY <1>2, InnersAre
<1>5. Mapped(c.inner) \subseteq Addrs
  BY <1>4 DEF Mapped
<1>6. \A a \in Mapped(c.inner) : c.heap[a] # Free
  BY DEF Mapped, Sound
<1>7. \A k \in DOMAIN c.inner : c.inner[k] \in Mapped(c.inner) /\ k \in Keys
  BY <1>4 DEF Mapped
<1>8. \A k \in DOMAIN c.inner, y \in DOMAIN c.inner : c.inner[y] = c.inner[k] => y = k
  BY DEF Sound
<1> QED
  BY <1>2, <1>3, <1>5, <1>6, <1>7, <1>8

LEMMA RecsAre ==
  ASSUME NEW h \in Heaps, NEW hd \in Ptr, NEW tl \in Ptr, NEW f \in Inners, NEW d,
         d = [heap |-> h, head |-> hd, tail |-> tl, inner |-> f]
  PROVE  d \in Recs /\ d.heap = h /\ d.head = hd /\ d.tail = tl /\ d.inner = f
BY DEF Recs

\* A node of the map is taken out of list and map, in either order.
TakenOut(c, k) == Unmap(detach(c, c.inner[k]), k)

\* d is shard c without key k.
Shrunk(s, c, k, d) ==
  /\ Sound(s, d)
  /\ Relinked(c.heap, d.heap, Mapped(c.inner))
  /\ d.inner = Without(c.inner, k)
  /\ Mapped(d.inner) = Mapped(c.inner) \ {c.inner[k]}
  /\ DOMAIN d.inner = DOMAIN c.inner \ {k}

SameList(b, d) == b \in Recs /\ b.heap = d.heap /\ b.head = d.head /\ b.tail = d.tail

LEMMA TakeOut ==
  ASSUME NEW s, NEW c, Sound(s, c), NEW k \in DOMAIN c.inner
  PROVE  /\ detach(Unmap(c, k), c.inner[k]) = TakenOut(c, k)
         /\ Shrunk(s, c, k, TakenOut(c, k))
         /\ SameList(detach(c, c.inner[k]), TakenOut(c, k))
         /\ detach(c, c.inner[k]).inner = c.inner
<1> DEFINE x == c.inner[k]
           N == Mapped(c.inner)
           n == Cardinality(DOMAIN c.inner)
           P == c.heap[x].prev
           Q == c.heap[x].next
           g == Unlink(c.heap, x, P, Q)
           hd == IF P = Null THEN Q ELSE c.head
           tl == IF Q = Null THEN P ELSE c.tail
           f == Without(c.inner, k)
           d == TakenOut(c, k)
<1>1. /\ c \in Recs /\ c.heap \in Heaps /\ c.inner \in Inners /\ c.head \in Ptr /\ c.tail \in Ptr
      /\ N \subseteq Addrs /\ \A a \in N : c.heap[a] # Free
      /\ x \in N
      /\ IsFiniteSet(DOMAIN c.inner)
      /\ \A y \in DOMAIN c.inner : c.inner[y] = c.inner[k] => y = k
  BY SoundFacts DEF Sound, Recs
<1>2. PICK L : IsList(c.heap, c.head, c.tail, N, n, L)
  BY DEF Sound, Listing
<1>3. Relinked(c.heap, g, N) /\ Listing(g, hd, tl, N \ {x}, n - 1)
  <2> HIDE DEF N, n, x
  <2> QED
    BY <1>1, <1>2, DetachList, Zenon
<1>4. /\ f \in Inners /\ DOMAIN f = DOMAIN c.inner \ {k}
      /\ \A y \in DOMAIN c.inner \ {k} : f[y] = c.inner[y]
      /\ Mapped(f) = N \ {x}
      /\ IsFiniteSet(DOMAIN f) /\ Cardinality(DOMAIN f) = n - 1
  <2>1. /\ f \in Inners /\ DOMAIN f = DOMAIN c.inner \ {k}
        /\ \A y \in DOMAIN c.inner \ {k} : f[y] = c.inner[y]
        /\ Mapped(f) = N \ {x}
        /\ IsFiniteSet(DOMAIN c.inner \ {k}) /\ Cardinality(DOMAIN c.inner \ {k}) = n - 1
    BY <1>1, WithoutKey, Zenon
  <2> HIDE DEF f, n
  <2> QED
    BY <2>1
<1>5. detach(c, x) = [heap |-> g, head |-> hd, tail |-> tl, inner |-> c.inner]
  BY <1>1, DetachFields, Zenon
<1>6. detach([heap |-> c.heap, head |-> c.head, tail |-> c.tail, inner |-> f], x)
        = [heap |-> g, head |-> hd, tail |-> tl, inner |-> f]
  <2> DEFINE e == [heap |-> c.heap, head |-> c.head, tail |-> c.tail, inner |-> f]
  <2>1. e \in Recs /\ e.heap = c.heap /\ e.head = c.head /\ e.tail = c.tail /\ e.inner = f
    <3> HIDE DEF f
    <3> QED
      BY <1>1, <1>4, RecsAre
  <2> HIDE DEF e
  <2> QED
    BY <2>1, DetachFields, Zenon DEF e
<1>7. Unmap(c, k) = [heap |-> c.heap, head |-> c.head, tail |-> c.tail, inner |-> f]
  BY <1>1, UnmapFields, Zenon
<1>8. detach(Unmap(c, k), x) = [heap |-> g, head |-> hd, tail |-> tl, inner |-> f]
  BY <1>6, <1>7, Zenon
<1>9. N \ {x} \subseteq Addrs
  BY <1>1
<1>10. hd \in Ptr /\ tl \in Ptr /\ g \in Heaps
  <2> HIDE DEF g, hd, tl, N, x, n
  <2>1. hd \in Ptr /\ tl \in Ptr
    BY <1>3, <1>9, Ends, Zenon
  <2> QED
    BY <1>3, <2>1, Zenon DEF Relinked
<1> DEFINE b == detach(c, x)
<1> HIDE DEF g, hd, tl, f, x, N, n, P, Q, b
<1>11. b \in Recs /\ b.heap = g /\ b.head = hd /\ b.tail = tl /\ b.inner = c.inner
  BY <1>1, <1>5, <1>10, RecsAre DEF b
<1>12. Unmap(b, k) = [heap |-> b.heap, head |-> b.head, tail |-> b.tail, inner |-> Without(b.inner, k)]
  BY <1>11, UnmapFields, Zenon
<1>13. d = [heap |-> g, head |-> hd, tail |-> tl, inner |-> f]
  BY <1>11, <1>12, Zenon DEF TakenOut, b, f, x
<1> HIDE DEF d
<1>14. d \in Recs /\ d.heap = g /\ d.head = hd /\ d.tail = tl /\ d.inner = f
  BY <1>4, <1>10, <1>13, RecsAre
<1>15. Sound(s, d)
  <2>1. \A y \in DOMAIN d.inner : ShardOf[y] = s
    BY <1>4, <1>14 DEF Sound
  <2>2. \A y \in DOMAIN d.inner : d.heap[d.inner[y]] # Free /\ d.heap[d.inner[y]].key = y
    <3> SUFFICES ASSUME NEW y \in DOMAIN c.inner \ {k} PROVE g[f[y]] # Free /\ g[f[y]].key = y
      BY <1>4, <1>14
    <3>1. c.inner[y] \in N /\ c.heap[c.inner[y]].key = y
      BY DEF Sound, N, Mapped
    <3> QED
      BY <1>3, <1>4, <3>1 DEF Relinked
  <2>3. Listing(d.heap, d.head, d.tail, Mapped(d.inner), Cardinality(DOMAIN d.inner))
    BY <1>3, <1>4, <1>14, Zenon
  <2> QED
    BY <1>4, <1>14, <2>1, <2>2, <2>3, Zenon DEF Sound
<1>16. detach(Unmap(c, k), c.inner[k]) = TakenOut(c, k)
  BY <1>8, <1>13, Zenon DEF d, x
<1>17. /\ b \in Recs /\ b.heap = d.heap /\ b.head = d.head /\ b.tail = d.tail /\ b.inner = c.inner
  BY <1>11, <1>14
<1>18. Relinked(c.heap, d.heap, N) /\ d.inner = f /\ Mapped(d.inner) = N \ {x}
       /\ DOMAIN d.inner = DOMAIN c.inner \ {k}
  BY <1>3, <1>4, <1>14
<1>19. Shrunk(s, c, k, d)
  BY <1>15, <1>18, Zenon DEF Shrunk, f, N, x
<1>20. SameList(b, d)
  BY <1>17, Zenon DEF SameList
<1> QED
  BY <1>16, <1>17, <1>19, <1>20, Zenon DEF b, d, x

\* A node that is in no list is put in front of the list and into the map.
PutIn(c, k, x) == Map(attach(c, x), k, x)

LEMMA PutInFields ==
  ASSUME NEW s, NEW c, Sound(s, c), NEW x \in Addrs \ Mapped(c.inner), c.heap[x] # Free
  PROVE  /\ Relinked(c.heap, Link(c.heap, x, c.head), Mapped(c.inner) \cup {x})
         /\ Listing(Link(c.heap, x, c.head), x, IF c.head = Null THEN x ELSE c.tail,
                    Mapped(c.inner) \cup {x}, Cardinality(DOMAIN c.inner) + 1)
         /\ (IF c.head = Null THEN x ELSE c.tail) \in Ptr
         /\ \A k : PutIn(c, k, x) = [heap |-> Link(c.heap, x, c.head), head |-> x,
                                     tail |-> IF c.head = Null THEN x ELSE c.tail,
                                     inner |-> With(c.inner, k, x)]
<1> DEFINE N == Mapped(c.inner)
           n == Cardinality(DOMAIN c.inner)
           g == Link(c.heap, x, c.head)
           tl == IF c.head = Null THEN x ELSE c.tail
           b == attach(c, x)
<1>1. /\ c \in Recs /\ c.heap \in Heaps /\ c.inner \in Inners /\ c.head \in Ptr /\ c.tail \in Ptr
      /\ N \subseteq Addrs /\ \A a \in N : c.heap[a] # Free
  BY SoundFacts DEF Sound, Recs
<1>2. PICK L : IsList(c.heap, c.head, c.tail, N, n, L)
  BY DEF Sound, Listing
<1>3. Relinked(c.heap, g, N \cup {x}) /\ Listing(g, x, tl, N \cup {x}, n + 1)
  <2>1. x \in Addrs \ N /\ c.heap[x] # Free
    OBVIOUS
  <2> HIDE DEF N, n
  <2> QED
    BY <1>1, <1>2, <2>1, AttachList, Zenon
<1>4. tl \in Ptr /\ x \in Ptr /\ g \in Heaps
  <2>1. g \in Heaps
    BY <1>3, Zenon DEF Relinked
  <2> QED
    BY <1>1, <2>1 DEF Ptr
<1>5. b = [heap |-> g, head |-> x, tail |-> tl, inner |-> c.inner]
  BY <1>1, AttachFields, Zenon
<1> HIDE DEF N, n, g, tl, b
<1>6. b \in Recs /\ b.heap = g /\ b.head = x /\ b.tail = tl /\ b.inner = c.inner
  BY <1>1, <1>4, <1>5, RecsAre
<1>7. \A k : PutIn(c, k, x) = [heap |-> g, head |-> x, tail |-> tl, inner |-> With(c.inner, k, x)]
  <2> TAKE k
  <2>1. Map(b, k, x) = [heap |-> b.heap, head |-> b.head, tail |-> b.tail, inner |-> With(b.inner, k, x)]
    BY <1>6, MapFields, Zenon
  <2> QED
    BY <1>6, <2>1, Zenon DEF PutIn, b
<1> QED
  BY <1>3, <1>4, <1>7, Zenon DEF N, n, g, tl

\* d is shard c with the node x added.
Grown(s, c, x, d) ==
  /\ Sound(s, d)
  /\ Relinked(c.heap, d.heap, Mapped(c.inner) \cup {x})
  /\ Mapped(d.inner) = Mapped(c.inner) \cup {x}

LEMMA PutInSound ==
  ASSUME NEW s, NEW c, Sound(s, c), NEW k \in Keys, ShardOf[k] = s, k \notin DOMAIN c.inner,
         NEW x \in Addrs \ Mapped(c.inner), c.heap[x] # Free, c.heap[x].key = k
  PROVE  Grown(s, c, x, PutIn(c, k, x))
<1> DEFINE N == Mapped(c.inner)
           n == Cardinality(DOMAIN c.inner)
           g == Link(c.heap, x, c.head)
           tl == IF c.head = Null THEN x ELSE c.tail
           f == With(c.inner, k, x)
           d == PutIn(c, k, x)
<1>1. /\ Relinked(c.heap, g, N \cup {x}) /\ Listing(g, x, tl, N \cup {x}, n + 1) /\ tl \in Ptr
      /\ d = [heap |-> g, head |-> x, tail |-> tl, inner |-> f]
  BY PutInFields, Zenon
<1>2. c.inner \in Inners /\ IsFiniteSet(DOMAIN c.inner)
  BY SoundFacts DEF Sound
<1>3. /\ f \in Inners /\ DOMAIN f = DOMAIN c.inner \cup {k} /\ f[k] = x
      /\ \A y \in DOMAIN c.inner : f[y] = c.inner[y]
      /\ Mapped(f) = N \cup {x}
      /\ IsFiniteSet(DOMAIN f) /\ Cardinality(DOMAIN f) = n + 1
  <2>1. Extended(c.inner, k, x, f)
    BY <1>2, WithKey, Zenon
  <2> HIDE DEF f
  <2> QED
    BY <2>1 DEF Extended
<1>4. g \in Heaps /\ x \in Ptr
  BY <1>1, Zenon DEF Relinked, Ptr
<1>5. /\ \A y \in DOMAIN c.inner : c.heap[c.inner[y]].key = y /\ ShardOf[y] = s /\ c.inner[y] \in N
      /\ c.heap[x].key = k
  BY SoundFacts DEF Sound
<1> HIDE DEF N, n, g, tl, f, d
<1>6. d \in Recs /\ d.heap = g /\ d.head = x /\ d.tail = tl /\ d.inner = f
  BY <1>1, <1>3, <1>4, RecsAre, SMTT(30)
<1>7. \A y \in DOMAIN d.inner : ShardOf[y] = s
  BY <1>3, <1>5, <1>6
<1>8. \A y \in DOMAIN d.inner : d.heap[d.inner[y]] # Free /\ d.heap[d.inner[y]].key = y
  <2>0. \A a \in N \cup {x} : g[a] # Free /\ g[a].key = c.heap[a].key
    BY <1>1, Zenon DEF Relinked
  <2>1. \A y \in DOMAIN c.inner : g[f[y]] # Free /\ g[f[y]].key = y
    BY <1>3, <1>5, <2>0, Zenon
  <2>2. g[f[k]] # Free /\ g[f[k]].key = k
    BY <1>3, <1>5, <2>0, Zenon
  <2> QED
    BY <2>1, <2>2, <1>3, <1>6
<1>9. IsFiniteSet(DOMAIN d.inner)
      /\ Listing(d.heap, d.head, d.tail, Mapped(d.inner), Cardinality(DOMAIN d.inner))
  BY <1>1, <1>3, <1>6, Zenon
<1>10. Sound(s, d)
  BY <1>6, <1>7, <1>8, <1>9, Zenon DEF Sound
<1> QED
  BY <1>1, <1>3, <1>6, <1>10, Zenon DEF d, N, Grown

\* Two relinkings, one after the other.
LEMMA RelinkedTwice ==
  ASSUME NEW h \in Heaps, NEW h1, NEW h2, NEW N, NEW M, N \subseteq Addrs, M \subseteq Addrs,
         Relinked(h, h1, N), Relinked(h1, h2, M)
  PROVE  Relinked(h, h2, N \cup M)
<1>1. \A a \in Addrs \ (N \cup M) : h2[a] = h[a]
  BY DEF Relinked
<1>2. \A a \in M : h2[a] # Free /\ h2[a].key = h[a].key /\ h2[a].value = h[a].value
  BY DEF Relinked
<1>3. \A a \in N \ M : h2[a] # Free /\ h2[a].key = h[a].key /\ h2[a].value = h[a].value
  BY DEF Relinked
<1> QED
  BY <1>1, <1>2, <1>3 DEF Relinked

LEMMA RelinkedMore ==
  ASSUME NEW h, NEW h1, NEW N, NEW M, N \subseteq M, M \subseteq Addrs,
         \A a \in M \ N : h[a] # Free, Relinked(h, h1, N)
  PROVE  Relinked(h, h1, M)
BY DEF Relinked

\* A hit: detach, then attach, of a node of the map.
LEMMA Touch ==
  ASSUME NEW s, NEW c, Sound(s, c), NEW k \in DOMAIN c.inner
  PROVE  /\ Sound(s, attach(detach(c, c.inner[k]), c.inner[k]))
         /\ Relinked(c.heap, attach(detach(c, c.inner[k]), c.inner[k]).heap, Mapped(c.inner))
         /\ attach(detach(c, c.inner[k]), c.inner[k]).inner = c.inner
<1> DEFINE x == c.inner[k]
           d == TakenOut(c, k)
           b == detach(c, x)
           N == Mapped(c.inner)
           e == PutIn(d, k, x)
           g == Link(d.heap, x, d.head)
           tl == IF d.head = Null THEN x ELSE d.tail
<1>1. /\ c.heap \in Heaps /\ c.inner \in Inners /\ k \in Keys /\ ShardOf[k] = s
      /\ N \subseteq Addrs /\ x \in N /\ c.heap[x].key = k
  BY SoundFacts DEF Sound
<1>2. /\ Sound(s, d) /\ Relinked(c.heap, d.heap, N) /\ d.inner = Without(c.inner, k)
      /\ Mapped(d.inner) = N \ {x}
      /\ DOMAIN d.inner = DOMAIN c.inner \ {k}
      /\ b \in Recs /\ b.heap = d.heap /\ b.head = d.head /\ b.tail = d.tail /\ b.inner = c.inner
  <2>1. Shrunk(s, c, k, d) /\ SameList(b, d) /\ b.inner = c.inner
    BY TakeOut, Zenon
  <2> HIDE DEF d, b
  <2> QED
    BY <2>1, Zenon DEF Shrunk, SameList
<1> HIDE DEF x, d, b, N
<1>3. k \notin DOMAIN d.inner /\ x \in Addrs \ Mapped(d.inner) /\ d.heap[x] # Free /\ d.heap[x].key = k
  BY <1>1, <1>2 DEF Relinked
<1>4. Sound(s, e) /\ Relinked(d.heap, e.heap, Mapped(d.inner) \cup {x})
  <2>1. Grown(s, d, x, e)
    BY <1>1, <1>2, <1>3, PutInSound, Zenon
  <2> HIDE DEF e
  <2> QED
    BY <2>1, Zenon DEF Grown
<1>5. tl \in Ptr /\ e = [heap |-> g, head |-> x, tail |-> tl, inner |-> With(d.inner, k, x)]
  BY <1>2, <1>3, PutInFields, Zenon
<1>6. With(d.inner, k, x) = c.inner
  <2>1. c.inner = [y \in DOMAIN c.inner |-> c.inner[y]]
    BY <1>1, InnersAre
  <2> QED
    BY <1>2, <2>1, SMTT(30) DEF With, Without, x
<1>7. attach(b, x) = [heap |-> Link(b.heap, x, b.head), head |-> x,
                      tail |-> IF b.head = Null THEN x ELSE b.tail, inner |-> b.inner]
  BY <1>2, AttachFields, Zenon
<1>8. attach(b, x) = e
  <2>1. Link(b.heap, x, b.head) = g /\ (IF b.head = Null THEN x ELSE b.tail) = tl
    BY <1>2, Zenon
  <2> HIDE DEF g, tl, e
  <2> QED
    BY <2>1, <1>2, <1>5, <1>6, <1>7, Zenon
<1>9. Mapped(d.inner) \cup {x} = N
  BY <1>1, <1>2
<1>10. Relinked(c.heap, e.heap, N)
  <2>1. Relinked(c.heap, e.heap, N \cup N)
    BY <1>1, <1>2, <1>4, <1>9, RelinkedTwice
  <2>2. N \cup N = N
    OBVIOUS
  <2> QED
    BY <2>1, <2>2, Zenon
<1>11. e.inner = c.inner
  <2> HIDE DEF e, g, tl
  <2> QED
    BY <1>5, <1>6
<1> QED
  BY <1>4, <1>8, <1>10, <1>11, Zenon DEF b, x, N

\* Two memories that agree on the nodes of a shard.
LEMMA SoundFrame ==
  ASSUME NEW s, NEW c, Sound(s, c), NEW h \in Heaps, NEW d,
         \A a \in Mapped(c.inner) : h[a] = c.heap[a],
         d = [heap |-> h, head |-> c.head, tail |-> c.tail, inner |-> c.inner]
  PROVE  Sound(s, d) /\ d.heap = h /\ d.inner = c.inner
<1> DEFINE N == Mapped(c.inner)
           n == Cardinality(DOMAIN c.inner)
<1>1. c.head \in Ptr /\ c.tail \in Ptr /\ c.inner \in Inners
  BY DEF Sound, Recs
<1>2. d \in Recs /\ d.heap = h /\ d.head = c.head /\ d.tail = c.tail /\ d.inner = c.inner
  BY <1>1, RecsAre
<1>3. \A k \in DOMAIN c.inner : c.inner[k] \in N
  BY DEF Mapped
<1>4. \A k \in DOMAIN d.inner : d.heap[d.inner[k]] # Free /\ d.heap[d.inner[k]].key = k
  BY <1>2, <1>3 DEF Sound
<1>5. PICK L : IsList(c.heap, c.head, c.tail, N, n, L)
  BY DEF Sound, Listing
<1> HIDE DEF N, n
<1>6. \A i \in 1..n : h[L[i]] = c.heap[L[i]]
  BY <1>5 DEF IsList, N
<1>7. Linked(h, c.head, c.tail, n, L)
  BY <1>5, <1>6, ZenonT(30) DEF IsList, Linked
<1>8. IsList(h, c.head, c.tail, N, n, L)
  BY <1>5, <1>7, Zenon DEF IsList
<1>9. Listing(d.heap, d.head, d.tail, Mapped(d.inner), Cardinality(DOMAIN d.inner))
  BY <1>2, <1>8, Zenon DEF Listing, N, n
<1> QED
  BY <1>2, <1>4, <1>9, Zenon DEF Sound

(***************************************************************************)
(* expulsion and the entry of a new node.                                  *)
(***************************************************************************)
Expelled(c) == IF IsFull(c) THEN {c.tail} ELSE {}

\* d is c with the new node n of key k in front and the nodes of E driven out.
Entered(s, c, k, n, d) ==
  /\ Sound(s, d)
  /\ Relinked(c.heap, d.heap, Mapped(c.inner) \cup {n})
  /\ Expelled(c) \subseteq Mapped(c.inner)
  /\ Mapped(d.inner) = (Mapped(c.inner) \ Expelled(c)) \cup {n}

LEMMA ExpulsionSound ==
  ASSUME NEW s, NEW c, Sound(s, c)
  PROVE  /\ Sound(s, expulsion(c))
         /\ Relinked(c.heap, expulsion(c).heap, Mapped(c.inner))
         /\ Expelled(c) \subseteq Mapped(c.inner)
         /\ Mapped(expulsion(c).inner) = Mapped(c.inner) \ Expelled(c)
         /\ DOMAIN expulsion(c).inner \subseteq DOMAIN c.inner
<1>1. CASE IsFull(c)
  <2>1. c.tail # Null /\ Mapped(c.inner) \subseteq Addrs
    BY <1>1, SoundFacts, Zenon DEF IsFull
  <2>2. c.tail \in Mapped(c.inner)
    <3>1. c.tail \in Mapped(c.inner) \cup {Null}
      BY <2>1, Ends, Zenon DEF Sound
    <3> QED
      BY <2>1, <3>1
  <2>3. PICK y \in DOMAIN c.inner : c.tail = c.inner[y]
    BY <2>2, Zenon DEF Mapped
  <2>4. c.heap[c.tail].key = y
    BY <2>3, Zenon DEF Sound
  <2>5. expulsion(c) = TakenOut(c, y)
    BY <1>1, <2>3, <2>4, Zenon DEF expulsion, TakenOut
  <2>6. Expelled(c) = {c.inner[y]}
    BY <1>1, <2>3, Zenon DEF Expelled
  <2>7. Shrunk(s, c, y, TakenOut(c, y))
    BY TakeOut, Zenon
  <2> DEFINE d == TakenOut(c, y)
  <2> HIDE DEF d
  <2>8. Sound(s, d) /\ Relinked(c.heap, d.heap, Mapped(c.inner))
        /\ Mapped(d.inner) = Mapped(c.inner) \ {c.inner[y]}
        /\ DOMAIN d.inner \subseteq DOMAIN c.inner
    BY <2>7 DEF Shrunk, d
  <2>9. expulsion(c) = d /\ Expelled(c) \subseteq Mapped(c.inner)
    BY <2>2, <2>3, <2>5, <2>6 DEF d
  <2> QED
    BY <2>6, <2>8, <2>9, Zenon
<1>2. CASE ~IsFull(c)
  <2>1. expulsion(c) = c /\ Expelled(c) = {}
    BY <1>2, Zenon DEF expulsion, Expelled
  <2>2. Relinked(c.heap, c.heap, Mapped(c.inner))
    BY SoundFacts DEF Relinked
  <2>3. Mapped(c.inner) \ {} = Mapped(c.inner) /\ {} \subseteq Mapped(c.inner)
    OBVIOUS
  <2> QED
    BY <2>1, <2>2, <2>3, Zenon
<1> QED
  BY <1>1, <1>2

LEMMA EnterSound ==
  ASSUME NEW s, NEW c, Sound(s, c), NEW k \in Keys, ShardOf[k] = s, k \notin DOMAIN c.inner,
         NEW n \in Addrs \ Mapped(c.inner), c.heap[n] # Free, c.heap[n].key = k
  PROVE  Entered(s, c, k, n, PutIn(expulsion(c), k, n))
<1> DEFINE e == expulsion(c)
           d == PutIn(e, k, n)
           N == Mapped(c.inner)
           E == Expelled(c)
<1>1. /\ Sound(s, e) /\ Relinked(c.heap, e.heap, N) /\ E \subseteq N
      /\ Mapped(e.inner) = N \ E /\ DOMAIN e.inner \subseteq DOMAIN c.inner
  BY ExpulsionSound, Zenon
<1>2. N \subseteq Addrs /\ c.heap \in Heaps /\ \A a \in N : c.heap[a] # Free
  BY SoundFacts, Zenon
<1>3. n \in Addrs \ N /\ c.heap[n] # Free /\ c.heap[n].key = k
  OBVIOUS
<1> HIDE DEF e, d, N, E
<1>4. n \in Addrs \ Mapped(e.inner) /\ e.heap[n] # Free /\ e.heap[n].key = k /\ k \notin DOMAIN e.inner
  BY <1>1, <1>3 DEF Relinked
<1>5. /\ Sound(s, d) /\ Relinked(e.heap, d.heap, Mapped(e.inner) \cup {n})
      /\ Mapped(d.inner) = Mapped(e.inner) \cup {n}
  <2>1. Grown(s, e, n, d)
    BY <1>1, <1>4, PutInSound, Zenon DEF d
  <2> QED
    BY <2>1, Zenon DEF Grown
<1>6. Relinked(c.heap, d.heap, N \cup {n})
  <2>1. (N \ E) \cup {n} \subseteq Addrs
    BY <1>2, <1>3
  <2>2. Relinked(c.heap, d.heap, N \cup ((N \ E) \cup {n}))
    BY <1>1, <1>2, <1>5, <2>1, RelinkedTwice
  <2>3. N \cup ((N \ E) \cup {n}) = N \cup {n}
    OBVIOUS
  <2> QED
    BY <2>2, <2>3, Zenon
<1> QED
  BY <1>1, <1>5, <1>6, Zenon DEF Entered, d, e, N, E
-----------------------------------------------------------------------------
(***************************************************************************)
(* The inductive invariant.                                                *)
(***************************************************************************)
Refs == [addr : Addrs, key : Keys, value : Values]

LruTypeOK ==
  /\ heap \in Heaps
  /\ lru \in [Shards -> [head : Ptr, tail : Ptr, inner : Inners]]
  /\ evicted \subseteq Addrs
  /\ refs \subseteq Refs

\* The list and the map of each shard agree.
ShardsSound == \A s \in Shards : Sound(s, Opened(s))

\* The allocated nodes are the mapped ones and the evicted ones, and none is both:
\* a node that put or remove frees is in no shard and was not counted as evicted.
HeapInv ==
  /\ \A a \in Addrs : heap[a] # Free <=> (a \in evicted \/ \E s \in Shards : a \in Mapped(lru[s].inner))
  /\ \A s \in Shards : Mapped(lru[s].inner) \cap evicted = {}

Inv == LruTypeOK /\ ShardsSound /\ HeapInv /\ ReferencesStable

\* What one operation on shard s does: it ends with c, has freed F, allocated A and driven out E.
Moves(s, c, F, A, E) ==
  /\ Sound(s, c)
  /\ F \subseteq Mapped(lru[s].inner) /\ E \subseteq Mapped(lru[s].inner) /\ F \cap E = {}
  /\ A \subseteq Addrs /\ \A a \in A : heap[a] = Free
  /\ \A a \in Addrs \ (Mapped(lru[s].inner) \cup A) : c.heap[a] = heap[a]
  /\ \A a \in A : c.heap[a] # Free
  /\ \A a \in F : c.heap[a] = Free
  /\ \A a \in Mapped(lru[s].inner) \ F :
       c.heap[a] # Free /\ c.heap[a].key = heap[a].key /\ c.heap[a].value = heap[a].value
  /\ Mapped(c.inner) = (Mapped(lru[s].inner) \ (F \cup E)) \cup A

\* The references after it: the ones to freed nodes are gone, a new one is right.
Keeps(c, F) ==
  \A r \in refs' : \/ r \in refs /\ r.addr \notin F
                   \/ /\ r \in Refs /\ c.heap[r.addr] # Free
                      /\ c.heap[r.addr].key = r.key /\ c.heap[r.addr].value = r.value

LEMMA OpenedFields ==
  ASSUME NEW s
  PROVE  /\ Opened(s).heap = heap /\ Opened(s).head = lru[s].head
         /\ Opened(s).tail = lru[s].tail /\ Opened(s).inner = lru[s].inner
BY DEF Opened

LEMMA ShardFacts ==
  ASSUME ShardsSound, NEW s \in Shards
  PROVE  /\ Mapped(lru[s].inner) \subseteq Addrs
         /\ \A a \in Mapped(lru[s].inner) : heap[a] # Free
         /\ \A k \in DOMAIN lru[s].inner : /\ k \in Keys /\ ShardOf[k] = s
                                           /\ lru[s].inner[k] \in Mapped(lru[s].inner)
                                           /\ heap[lru[s].inner[k]].key = k
<1> DEFINE o == Opened(s)
<1>1. Sound(s, o)
  BY Zenon DEF ShardsSound
<1>2. o.heap = heap /\ o.inner = lru[s].inner
  BY OpenedFields, Zenon
<1> HIDE DEF o
<1>3. /\ Mapped(o.inner) \subseteq Addrs
      /\ \A a \in Mapped(o.inner) : o.heap[a] # Free
      /\ \A k \in DOMAIN o.inner : k \in Keys /\ o.inner[k] \in Mapped(o.inner)
  BY <1>1, SoundFacts, Zenon
<1>4. \A k \in DOMAIN o.inner : ShardOf[k] = s /\ o.heap[o.inner[k]].key = k
  BY <1>1, Zenon DEF Sound
<1> QED
  BY <1>2, <1>3, <1>4

\* No node is in two shards: it is mapped under its own key.
LEMMA ShardsDisjoint ==
  ASSUME ShardsSound, NEW s \in Shards, NEW t \in Shards, s # t
  PROVE  Mapped(lru[s].inner) \cap Mapped(lru[t].inner) = {}
<1> SUFFICES ASSUME NEW a \in Mapped(lru[s].inner), a \in Mapped(lru[t].inner) PROVE FALSE
  OBVIOUS
<1>1. PICK k \in DOMAIN lru[s].inner : a = lru[s].inner[k]
  BY DEF Mapped
<1>2. PICK y \in DOMAIN lru[t].inner : a = lru[t].inner[y]
  BY DEF Mapped
<1>3. heap[a].key = k /\ ShardOf[k] = s
  BY <1>1, ShardFacts
<1>4. heap[a].key = y /\ ShardOf[y] = t
  BY <1>2, ShardFacts
<1> QED
  BY <1>3, <1>4

LEMMA MovesKeepInv ==
  ASSUME Inv, NEW s \in Shards, NEW c, NEW F, NEW A, NEW E, Moves(s, c, F, A, E), Keeps(c, F),
         heap' = c.heap,
         lru' = [lru EXCEPT ![s] = [head |-> c.head, tail |-> c.tail, inner |-> c.inner]],
         evicted' = evicted \cup E
  PROVE  Inv'
<1> DEFINE N == Mapped(lru[s].inner)
<1>1. c.heap \in Heaps /\ c.head \in Ptr /\ c.tail \in Ptr /\ c.inner \in Inners
      /\ c = [heap |-> c.heap, head |-> c.head, tail |-> c.tail, inner |-> c.inner]
  BY SoundFacts DEF Moves, Sound, Recs
<1>2. /\ lru'[s].head = c.head /\ lru'[s].tail = c.tail /\ lru'[s].inner = c.inner
      /\ \A t \in Shards : t # s => lru'[t] = lru[t]
      /\ lru' \in [Shards -> [head : Ptr, tail : Ptr, inner : Inners]]
  BY <1>1 DEF Inv, LruTypeOK
<1>3. N \subseteq Addrs /\ \A a \in N : heap[a] # Free
  BY ShardFacts, Zenon DEF Inv
<1>4. LruTypeOK'
  <2>1. refs' \subseteq Refs
    BY DEF Inv, LruTypeOK, Keeps
  <2>2. evicted' \subseteq Addrs
    BY <1>3 DEF Inv, LruTypeOK, Moves
  <2> QED
    BY <1>1, <1>2, <2>1, <2>2 DEF LruTypeOK
<1>5. ShardsSound'
  <2> SUFFICES ASSUME NEW t \in Shards PROVE Sound(t, Opened(t)')
    BY DEF ShardsSound
  <2>1. CASE t = s
    <3>1. Opened(t)' = [heap |-> c.heap, head |-> c.head, tail |-> c.tail, inner |-> c.inner]
      BY <1>2, <2>1 DEF Opened
    <3>2. Opened(t)' = c
      BY <1>1, <3>1, Zenon
    <3> QED
      BY <2>1, <3>2, Zenon DEF Moves
  <2>2. CASE t # s
    <3> DEFINE o == Opened(t)
               q == [heap |-> c.heap, head |-> o.head, tail |-> o.tail, inner |-> o.inner]
    <3>1. Sound(t, o) /\ o.heap = heap /\ o.head = lru[t].head /\ o.tail = lru[t].tail /\ o.inner = lru[t].inner
      BY OpenedFields, Zenon DEF Inv, ShardsSound
    <3>2. Mapped(o.inner) \subseteq Addrs /\ \A a \in Mapped(o.inner) : heap[a] # Free
      BY <3>1, SoundFacts, Zenon
    <3>3. Mapped(o.inner) \cap N = {}
      BY <2>2, <3>1, ShardsDisjoint, Zenon DEF Inv
    <3> HIDE DEF o, N
    <3>4. \A a \in Mapped(o.inner) : c.heap[a] = o.heap[a]
      BY <3>1, <3>2, <3>3 DEF Moves, N
    <3>5. Sound(t, q)
      BY <1>1, <3>1, <3>4, SoundFrame
    <3>6. Opened(t)' = q
      BY <1>2, <2>2, <3>1, Zenon DEF Opened
    <3> QED
      BY <3>5, <3>6, Zenon
  <2> QED
    BY <2>1, <2>2
<1>6. HeapInv'
  <2>1. Mapped(lru'[s].inner) = (N \ (F \cup E)) \cup A
    BY <1>2, Zenon DEF Moves
  <2>2. \A t \in Shards : t # s => Mapped(lru'[t].inner) = Mapped(lru[t].inner) /\ Mapped(lru[t].inner) \cap N = {}
    BY <1>2, ShardsDisjoint, Zenon DEF Inv
  <2>3. \A a \in A : a \notin evicted /\ \A t \in Shards : a \notin Mapped(lru[t].inner)
    BY DEF Inv, HeapInv, Moves
  <2>4. N \cap evicted = {}
    BY Zenon DEF Inv, HeapInv
  <2>5. F \subseteq N /\ E \subseteq N /\ F \cap E = {} /\ A \subseteq Addrs
    BY Zenon DEF Moves
  <2> HIDE DEF N
  <2>6. \A t \in Shards : Mapped(lru'[t].inner) \cap evicted' = {}
    <3> SUFFICES ASSUME NEW t \in Shards PROVE Mapped(lru'[t].inner) \cap evicted' = {}
      OBVIOUS
    <3>1. CASE t = s
      BY <2>1, <2>3, <2>4, <2>5, <3>1 DEF N
    <3>2. CASE t # s
      <4>1. Mapped(lru[t].inner) \cap evicted = {}
        BY DEF Inv, HeapInv
      <4> QED
        BY <2>2, <2>5, <3>2, <4>1
    <3> QED
      BY <3>1, <3>2
  <2>7. ASSUME NEW a \in Addrs
        PROVE  heap'[a] # Free <=> (a \in evicted' \/ \E t \in Shards : a \in Mapped(lru'[t].inner))
    <3>0. heap[a] # Free <=> (a \in evicted \/ \E t \in Shards : a \in Mapped(lru[t].inner))
      BY Zenon DEF Inv, HeapInv
    <3>1. CASE a \in A
      BY <2>1, <3>1 DEF Moves
    <3>2. CASE a \in F
      <4>1. a \in N /\ a \notin A
        BY <1>3, <2>5, <3>2 DEF Moves
      <4>2. heap'[a] = Free
        BY <3>2 DEF Moves
      <4>3. a \notin evicted'
        BY <2>4, <2>5, <3>2, <4>1
      <4>4. \A t \in Shards : a \notin Mapped(lru'[t].inner)
        BY <2>1, <2>2, <3>2, <4>1
      <4> QED
        BY <4>2, <4>3, <4>4
    <3>3. CASE a \in N \ (F \cup A)
      <4>1. heap'[a] # Free
        BY <3>3 DEF Moves, N
      <4>2. CASE a \in E
        BY <4>1, <4>2
      <4>3. CASE a \notin E
        BY <2>1, <3>3, <4>1, <4>3
      <4> QED
        BY <4>2, <4>3
    <3>4. CASE a \notin N \cup A
      <4>1. heap'[a] = heap[a]
        BY <3>4 DEF Moves, N
      <4>2. a \in evicted' <=> a \in evicted
        BY <2>5, <3>4
      <4>3. \A t \in Shards : a \in Mapped(lru'[t].inner) <=> a \in Mapped(lru[t].inner)
        BY <2>1, <2>2, <3>4 DEF N
      <4> QED
        BY <3>0, <4>1, <4>2, <4>3
    <3> QED
      BY <2>5, <3>1, <3>2, <3>3, <3>4
  <2> QED
    BY <2>6, <2>7, Zenon DEF HeapInv
<1>7. ReferencesStable'
  <2> SUFFICES ASSUME NEW r \in refs'
               PROVE  c.heap[r.addr] # Free /\ c.heap[r.addr].key = r.key /\ c.heap[r.addr].value = r.value
    BY DEF ReferencesStable
  <2>1. CASE r \in refs /\ r.addr \notin F
    <3>1. heap[r.addr] # Free /\ heap[r.addr].key = r.key /\ heap[r.addr].value = r.value
      BY <2>1, Zenon DEF Inv, ReferencesStable
    <3>2. r.addr \in Addrs
      BY <2>1 DEF Inv, LruTypeOK, Refs
    <3>3. r.addr \notin A
      BY <3>1, Zenon DEF Moves
    <3>4. CASE r.addr \in N
      BY <2>1, <3>1, <3>4 DEF Moves
    <3>5. CASE r.addr \notin N
      BY <3>1, <3>2, <3>3, <3>5 DEF Moves
    <3> QED
      BY <3>4, <3>5
  <2> QED
    BY <2>1 DEF Keeps
<1> QED
  BY <1>4, <1>5, <1>6, <1>7, Zenon DEF Inv

(***************************************************************************)
(* The operations.                                                         *)
(***************************************************************************)
Edited(s, d, h, e) == Sound(s, e) /\ e.heap = h /\ e.inner = d.inner

LEMMA HeapEdited ==
  ASSUME NEW s, NEW d, Sound(s, d), NEW h \in Heaps, \A a \in Mapped(d.inner) : h[a] = d.heap[a]
  PROVE  Edited(s, d, h, [d EXCEPT !.heap = h])
<1> DEFINE e == [d EXCEPT !.heap = h]
<1>0. d \in Recs
  BY Zenon DEF Sound
<1>1. e = [heap |-> h, head |-> d.head, tail |-> d.tail, inner |-> d.inner]
  BY ONLY <1>0, HeapEdit DEF Recs
<1> HIDE DEF e
<1>2. Sound(s, e) /\ e.heap = h /\ e.inner = d.inner
  BY <1>1, SoundFrame
<1> QED
  BY <1>2, Zenon DEF e, Edited

\* c is shard d with the nodes of F given back.
FreedIn(s, d, F, c) ==
  /\ Sound(s, c) /\ c.inner = d.inner
  /\ \A a \in Addrs \ F : c.heap[a] = d.heap[a]
  /\ \A a \in F : c.heap[a] = Free

GiveBack(d, F) == [d EXCEPT !.heap = [a \in Addrs |-> IF a \in F THEN Free ELSE @[a]]]

LEMMA FreeSome ==
  ASSUME NEW s, NEW d, Sound(s, d), NEW F, F \subseteq Addrs, F \cap Mapped(d.inner) = {}
  PROVE  FreedIn(s, d, F, GiveBack(d, F))
<1> DEFINE h == [a \in Addrs |-> IF a \in F THEN Free ELSE d.heap[a]]
<1>1. d.heap \in Heaps /\ Mapped(d.inner) \subseteq Addrs
  BY SoundFacts, Zenon
<1>2. /\ h \in Heaps
      /\ \A a \in Addrs \ F : h[a] = d.heap[a]
      /\ \A a \in F : h[a] = Free
  BY <1>1 DEF Heaps
<1> HIDE DEF h
<1>3. \A a \in Mapped(d.inner) : h[a] = d.heap[a]
  BY <1>1, <1>2
<1>4. Edited(s, d, h, [d EXCEPT !.heap = h])
  BY <1>2, <1>3, HeapEdited, Zenon
<1>5. FreedIn(s, d, F, [d EXCEPT !.heap = h])
  BY <1>2, <1>4, Zenon DEF FreedIn, Edited
<1> QED
  BY <1>5, Zenon DEF h, GiveBack

LEMMA FreeOne ==
  ASSUME NEW s, NEW d, Sound(s, d), NEW x \in Addrs, x \notin Mapped(d.inner)
  PROVE  FreedIn(s, d, {x}, [d EXCEPT !.heap[x] = Free])
<1> DEFINE h == [d.heap EXCEPT ![x] = Free]
<1>1. d.heap \in Heaps /\ Mapped(d.inner) \subseteq Addrs
  BY SoundFacts, Zenon
<1>2. /\ h \in Heaps
      /\ \A a \in Addrs \ {x} : h[a] = d.heap[a]
      /\ \A a \in {x} : h[a] = Free
  BY <1>1 DEF Heaps
<1> HIDE DEF h
<1>3. \A a \in Mapped(d.inner) : h[a] = d.heap[a]
  BY <1>1, <1>2
<1>4. Edited(s, d, h, [d EXCEPT !.heap = h])
  BY <1>2, <1>3, HeapEdited, Zenon
<1>5. FreedIn(s, d, {x}, [d EXCEPT !.heap = h])
  BY <1>2, <1>4, Zenon DEF FreedIn, Edited
<1> QED
  BY <1>5, Zenon DEF h

\* A node is allocated: the shard c0 is Opened(s) with one more node in memory.
Allocated(s, n, k, v, c) ==
  /\ Sound(s, c) /\ c.inner = lru[s].inner
  /\ n \notin Mapped(lru[s].inner)
  /\ c.heap[n] # Free /\ c.heap[n].key = k /\ c.heap[n].value = v
  /\ \A a \in Addrs \ {n} : c.heap[a] = heap[a]

LEMMA AllocSound ==
  ASSUME Inv, NEW s \in Shards, NEW n \in Addrs, heap[n] = Free, NEW k \in Keys, NEW v \in Values
  PROVE  Allocated(s, n, k, v, Alloc(Opened(s), n, k, v))
<1> DEFINE o == Opened(s)
           x == [key |-> k, value |-> v, prev |-> Null, next |-> Null]
           h == [heap EXCEPT ![n] = x]
<1>1. Sound(s, o) /\ o.heap = heap /\ o.inner = lru[s].inner
  BY OpenedFields, Zenon DEF Inv, ShardsSound
<1>2. x \in Node /\ x # Free /\ x.key = k /\ x.value = v
  BY PointerAssumption DEF Node, Ptr
<1>3. n \notin Mapped(lru[s].inner) /\ Mapped(lru[s].inner) \subseteq Addrs
  BY ShardFacts, Zenon DEF Inv
<1> HIDE DEF x, o
<1>4. /\ h \in Heaps /\ h[n] = x
      /\ \A a \in Addrs \ {n} : h[a] = heap[a]
  BY <1>2 DEF Inv, LruTypeOK, Heaps
<1> HIDE DEF h
<1>5. \A a \in Mapped(o.inner) : h[a] = o.heap[a]
  BY <1>1, <1>3, <1>4
<1>6. Edited(s, o, h, [o EXCEPT !.heap = h])
  BY <1>1, <1>4, <1>5, HeapEdited, Zenon
<1>7. Alloc(o, n, k, v) = [o EXCEPT !.heap = h]
  BY <1>1, Zenon DEF Alloc, h, x
<1>8. Allocated(s, n, k, v, [o EXCEPT !.heap = h])
  BY <1>1, <1>2, <1>3, <1>4, <1>6, Zenon DEF Allocated, Edited
<1> QED
  BY <1>7, <1>8, Zenon DEF o

\* A reference that is handed out is right.
LEMMA HandOutKeeps ==
  ASSUME NEW n \in Addrs, NEW k \in Keys, NEW v \in Values, HandOut(n, k, v),
         NEW c, c.heap[n] # Free, c.heap[n].key = k, c.heap[n].value = v
  PROVE  Keeps(c, {})
<1> DEFINE r == [addr |-> n, key |-> k, value |-> v]
<1>1. r \in Refs /\ r.addr = n /\ r.key = k /\ r.value = v
  BY DEF Refs
<1>2. refs' \subseteq refs \cup {r}
  BY DEF HandOut
<1> HIDE DEF r
<1> QED
  BY <1>1, <1>2 DEF Keeps

\* Nothing happened to the shard: the key is not there.
LEMMA MissStep ==
  ASSUME Inv, NEW s \in Shards, NEW answer, Close(s, Opened(s), answer),
         evicted' = evicted, refs' \subseteq refs
  PROVE  Inv'
<1> DEFINE o == Opened(s)
           N == Mapped(lru[s].inner)
<1>1. Sound(s, o) /\ o.heap = heap /\ o.inner = lru[s].inner
  BY OpenedFields, Zenon DEF Inv, ShardsSound
<1>2. \A a \in N : heap[a] # Free
  BY ShardFacts, Zenon DEF Inv
<1>3. /\ heap' = o.heap
      /\ lru' = [lru EXCEPT ![s] = [head |-> o.head, tail |-> o.tail, inner |-> o.inner]]
  BY Zenon DEF Close
<1> HIDE DEF o
<1>4. Moves(s, o, {}, {}, {})
  BY <1>1, <1>2 DEF Moves
<1>5. Keeps(o, {}) /\ evicted' = evicted \cup {}
  BY DEF Keeps
<1> QED
  BY <1>3, <1>4, <1>5, MovesKeepInv, Zenon

LEMMA HitStep ==
  ASSUME Inv, NEW k \in Keys, NEW s \in Shards, k \in DOMAIN Opened(s).inner, Hit(k, s, Opened(s))
  PROVE  Inv'
<1> DEFINE o == Opened(s)
           N == Mapped(lru[s].inner)
           x == o.inner[k]
           c == attach(detach(o, x), x)
<1>1. Sound(s, o) /\ o.heap = heap /\ o.inner = lru[s].inner /\ k \in DOMAIN o.inner
  BY OpenedFields, Zenon DEF Inv, ShardsSound
<1>2. N \subseteq Addrs /\ (\A a \in N : heap[a] # Free) /\ x \in N /\ heap[x].key = k
  BY <1>1, ShardFacts, SMTT(30) DEF Inv
<1>3. /\ heap' = c.heap
      /\ lru' = [lru EXCEPT ![s] = [head |-> c.head, tail |-> c.tail, inner |-> c.inner]]
      /\ HandOut(x, k, heap[x].value)
      /\ evicted' = evicted
  BY Zenon DEF Hit, Close
<1> HIDE DEF o
<1>4. Sound(s, c) /\ Relinked(o.heap, c.heap, Mapped(o.inner)) /\ c.inner = o.inner
  BY <1>1, Touch, Zenon
<1> HIDE DEF c, x
<1>5. Moves(s, c, {}, {}, {})
  BY <1>1, <1>2, <1>4 DEF Moves, Relinked
<1>6. heap[x].value \in Values
  BY <1>2 DEF Inv, LruTypeOK, Heaps, Node
<1>7. c.heap[x] # Free /\ c.heap[x].key = k /\ c.heap[x].value = heap[x].value /\ x \in Addrs
  BY <1>1, <1>2, <1>4 DEF Relinked
<1>8. Keeps(c, {})
  BY <1>3, <1>6, <1>7, HandOutKeeps, Zenon
<1>9. evicted' = evicted \cup {}
  BY <1>3
<1> QED
  BY <1>3, <1>5, <1>8, <1>9, MovesKeepInv, Zenon

LEMMA RemoveStep ==
  ASSUME Inv, NEW k \in Keys, remove(k)
  PROVE  Inv'
<1> DEFINE s == ShardOf[k]
           o == Opened(s)
           N == Mapped(lru[s].inner)
           x == o.inner[k]
           d == TakenOut(o, k)
           c == [d EXCEPT !.heap[x] = Free]
<1>0. s \in Shards
  BY ShardAssumption
<1>1. refs' = {r \in refs : r.key # k} /\ evicted' = evicted
  BY Zenon DEF remove
<1>2. CASE k \notin DOMAIN o.inner
  <2>1. Close(s, o, Null)
    BY <1>2, Zenon DEF remove
  <2>2. refs' \subseteq refs
    BY <1>1
  <2> QED
    BY <1>0, <1>1, <2>1, <2>2, MissStep, Zenon
<1>3. CASE k \in DOMAIN o.inner
  <2>1. Sound(s, o) /\ o.heap = heap /\ o.inner = lru[s].inner
    BY <1>0, OpenedFields, Zenon DEF Inv, ShardsSound
  <2>2. N \subseteq Addrs /\ (\A a \in N : heap[a] # Free) /\ x \in N /\ heap[x].key = k
    BY <1>0, <1>3, <2>1, ShardFacts, SMTT(30) DEF Inv
  <2>3. detach(Unmap(o, k), x) = d /\ Shrunk(s, o, k, d)
    BY <1>3, <2>1, TakeOut, Zenon
  <2>4. \E answer : Close(s, [detach(Unmap(o, k), x) EXCEPT !.heap[x] = Free], answer)
    BY <1>3, Zenon DEF remove
  <2>5. \E answer : Close(s, c, answer)
    BY <2>3, <2>4, Zenon
  <2>6. /\ heap' = c.heap
        /\ lru' = [lru EXCEPT ![s] = [head |-> c.head, tail |-> c.tail, inner |-> c.inner]]
    BY <2>5, Zenon DEF Close
  <2> HIDE DEF o, d, x, N, s
  <2>7. /\ Sound(s, d) /\ Relinked(heap, d.heap, N) /\ Mapped(d.inner) = N \ {x}
    BY <2>1, <2>3, Zenon DEF Shrunk, N, x
  <2>8. FreedIn(s, d, {x}, c)
    <3>1. x \in Addrs /\ x \notin Mapped(d.inner)
      BY <2>2, <2>7
    <3> QED
      BY <2>7, <3>1, FreeOne, Zenon
  <2> HIDE DEF c
  <2>9. Moves(s, c, {x}, {}, {})
    <3>1. /\ Sound(s, c) /\ Mapped(c.inner) = N \ {x}
          /\ \A a \in Addrs \ {x} : c.heap[a] = d.heap[a]
          /\ c.heap[x] = Free
      BY <2>7, <2>8 DEF FreedIn
    <3>2. \A a \in Addrs \ N : c.heap[a] = heap[a]
      BY <2>2, <2>7, <3>1 DEF Relinked
    <3>3. \A a \in N \ {x} : c.heap[a] # Free /\ c.heap[a].key = heap[a].key /\ c.heap[a].value = heap[a].value
      BY <2>2, <2>7, <3>1 DEF Relinked
    <3> QED
      BY <2>2, <3>1, <3>2, <3>3 DEF Moves, N
  <2>10. Keeps(c, {x})
    <3> SUFFICES ASSUME NEW r \in refs' PROVE r \in refs /\ r.addr # x
      BY DEF Keeps
    <3>1. r \in refs /\ r.key # k
      BY <1>1
    <3>2. heap[r.addr].key = r.key
      BY <3>1, Zenon DEF Inv, ReferencesStable
    <3> QED
      BY <2>2, <3>1, <3>2
  <2>11. evicted' = evicted \cup {}
    BY <1>1
  <2> QED
    BY <1>0, <2>6, <2>9, <2>10, <2>11, MovesKeepInv, Zenon DEF s
<1> QED
  BY <1>2, <1>3

\* The shard that Enter closes with.
Final(c, k, n, F) == GiveBack(PutIn(expulsion(c), k, n), F)

\* c is shard s with the new node n in memory and the nodes of F out of list and map.
Prepared(s, n, k, v, F, c) ==
  /\ Sound(s, c)
  /\ Mapped(c.inner) = Mapped(lru[s].inner) \ F
  /\ k \notin DOMAIN c.inner
  /\ c.heap[n] # Free /\ c.heap[n].key = k /\ c.heap[n].value = v
  /\ \A a \in Addrs \ (Mapped(lru[s].inner) \cup {n}) : c.heap[a] = heap[a]
  /\ \A a \in Mapped(lru[s].inner) :
       c.heap[a] # Free /\ c.heap[a].key = heap[a].key /\ c.heap[a].value = heap[a].value

EndsWith(s, c, n, k, v, F, e) ==
  Moves(s, e, F, {n}, Expelled(c)) /\ e.heap[n] # Free /\ e.heap[n].key = k /\ e.heap[n].value = v

LEMMA EnterMoves ==
  ASSUME Inv, NEW s \in Shards, NEW k \in Keys, NEW v, ShardOf[k] = s,
         NEW n \in Addrs, heap[n] = Free, NEW F, F \subseteq Mapped(lru[s].inner),
         NEW c, Prepared(s, n, k, v, F, c)
  PROVE  EndsWith(s, c, n, k, v, F, Final(c, k, n, F))
<1> DEFINE N == Mapped(lru[s].inner)
           d == PutIn(expulsion(c), k, n)
           E == Expelled(c)
           e == Final(c, k, n, F)
<1>1. /\ Sound(s, c) /\ Mapped(c.inner) = N \ F /\ k \notin DOMAIN c.inner
      /\ c.heap[n] # Free /\ c.heap[n].key = k /\ c.heap[n].value = v
      /\ \A a \in Addrs \ (N \cup {n}) : c.heap[a] = heap[a]
      /\ \A a \in N : c.heap[a] # Free /\ c.heap[a].key = heap[a].key /\ c.heap[a].value = heap[a].value
  BY Zenon DEF Prepared
<1>2. N \subseteq Addrs /\ (\A a \in N : heap[a] # Free) /\ n \notin N /\ F \subseteq N
  BY ShardFacts, Zenon DEF Inv
<1> HIDE DEF N, d, E, e
<1>3. n \in Addrs \ Mapped(c.inner)
  BY <1>1, <1>2
<1>4. Entered(s, c, k, n, d)
  BY <1>1, <1>3, EnterSound, Zenon DEF d
<1>5. /\ Sound(s, d) /\ Relinked(c.heap, d.heap, (N \ F) \cup {n})
      /\ E \subseteq N \ F
      /\ Mapped(d.inner) = ((N \ F) \ E) \cup {n}
  BY <1>1, <1>4, Zenon DEF Entered, E
<1>6. FreedIn(s, d, F, e)
  <2>1. F \subseteq Addrs /\ F \cap Mapped(d.inner) = {}
    BY <1>2, <1>5
  <2> QED
    <3>1. FreedIn(s, d, F, GiveBack(d, F))
      BY <1>5, <2>1, FreeSome, Zenon
    <3> QED
      BY <3>1, Zenon DEF e, Final, d
<1>7. /\ Sound(s, e) /\ Mapped(e.inner) = ((N \ F) \ E) \cup {n}
      /\ \A a \in Addrs \ F : e.heap[a] = d.heap[a]
      /\ \A a \in F : e.heap[a] = Free
  BY <1>5, <1>6, Zenon DEF FreedIn
<1>8. e.heap[n] # Free /\ e.heap[n].key = k /\ e.heap[n].value = v
  BY <1>1, <1>2, <1>5, <1>7 DEF Relinked
<1>9. \A a \in Addrs \ (N \cup {n}) : e.heap[a] = heap[a]
  BY <1>1, <1>2, <1>5, <1>7 DEF Relinked
<1>10. \A a \in N \ F : e.heap[a] # Free /\ e.heap[a].key = heap[a].key /\ e.heap[a].value = heap[a].value
  BY <1>1, <1>2, <1>5, <1>7 DEF Relinked
<1>11. Mapped(e.inner) = (N \ (F \cup E)) \cup {n} /\ E \subseteq N /\ F \cap E = {}
       /\ {n} \subseteq Addrs /\ (\A a \in {n} : heap[a] = Free) /\ (\A a \in {n} : e.heap[a] # Free)
  BY <1>5, <1>7, <1>8
<1>12. Moves(s, e, F, {n}, E)
  BY <1>2, <1>7, <1>9, <1>10, <1>11, Zenon DEF Moves, N
<1> QED
  BY <1>8, <1>12, Zenon DEF e, E, EndsWith

\* Enter on a prepared shard, with references that avoid the freed nodes.
LEMMA EnterStep ==
  ASSUME Inv, NEW s \in Shards, NEW k \in Keys, NEW v \in Values, ShardOf[k] = s,
         NEW n \in Addrs, heap[n] = Free, NEW F, F \subseteq Mapped(lru[s].inner),
         NEW c, Prepared(s, n, k, v, F, c), NEW answer, Enter(s, c, n, k, v, answer, F),
         \/ refs' \subseteq refs /\ \A r \in refs' : r.addr \notin F
         \/ F = {} /\ HandOut(n, k, v)
  PROVE  Inv'
<1> DEFINE e == Final(c, k, n, F)
           E == Expelled(c)
<1>1. Moves(s, e, F, {n}, E) /\ e.heap[n] # Free /\ e.heap[n].key = k /\ e.heap[n].value = v
  <2>1. EndsWith(s, c, n, k, v, F, e)
    BY EnterMoves, Zenon
  <2> HIDE DEF e
  <2> QED
    BY <2>1, Zenon DEF EndsWith
<1>2. /\ heap' = e.heap
      /\ lru' = [lru EXCEPT ![s] = [head |-> e.head, tail |-> e.tail, inner |-> e.inner]]
      /\ evicted' = evicted \cup E
  BY Zenon DEF Enter, Close, Final, GiveBack, PutIn, Expelled
<1> HIDE DEF e, E
<1>3. Keeps(e, F)
  <2>1. CASE refs' \subseteq refs /\ \A r \in refs' : r.addr \notin F
    BY <2>1, Zenon DEF Keeps
  <2>2. CASE F = {} /\ HandOut(n, k, v)
    BY <1>1, <2>2, HandOutKeeps, Zenon
  <2> QED
    BY <2>1, <2>2
<1> QED
  BY <1>1, <1>2, <1>3, MovesKeepInv, Zenon

LEMMA PreparedNew ==
  ASSUME Inv, NEW s \in Shards, NEW k \in Keys, NEW v \in Values, k \notin DOMAIN lru[s].inner,
         NEW n \in Addrs, heap[n] = Free
  PROVE  Prepared(s, n, k, v, {}, Alloc(Opened(s), n, k, v))
<1> DEFINE c == Alloc(Opened(s), n, k, v)
           N == Mapped(lru[s].inner)
<1>1. Allocated(s, n, k, v, c)
  BY AllocSound, Zenon
<1>2. N \subseteq Addrs /\ (\A a \in N : heap[a] # Free)
  BY ShardFacts, Zenon DEF Inv
<1> HIDE DEF c
<1>3. /\ Sound(s, c) /\ c.inner = lru[s].inner /\ n \notin N
      /\ c.heap[n] # Free /\ c.heap[n].key = k /\ c.heap[n].value = v
      /\ \A a \in Addrs \ {n} : c.heap[a] = heap[a]
  BY <1>1, Zenon DEF Allocated
<1>4. /\ \A a \in Addrs \ (N \cup {n}) : c.heap[a] = heap[a]
      /\ \A a \in N : c.heap[a] # Free /\ c.heap[a].key = heap[a].key /\ c.heap[a].value = heap[a].value
      /\ Mapped(c.inner) = N \ {}
  BY <1>2, <1>3
<1>5. Prepared(s, n, k, v, {}, c)
  BY <1>3, <1>4, Zenon DEF Prepared
<1> QED
  BY <1>5, Zenon DEF c

LEMMA PreparedOld ==
  ASSUME Inv, NEW s \in Shards, NEW k \in Keys, NEW v \in Values, k \in DOMAIN lru[s].inner,
         NEW n \in Addrs, heap[n] = Free
  PROVE  Prepared(s, n, k, v, {lru[s].inner[k]},
                  detach(Unmap(Alloc(Opened(s), n, k, v), k), lru[s].inner[k]))
<1> DEFINE c == Alloc(Opened(s), n, k, v)
           N == Mapped(lru[s].inner)
           x == lru[s].inner[k]
           d == TakenOut(c, k)
<1>1. Allocated(s, n, k, v, c)
  BY AllocSound, Zenon
<1>2. N \subseteq Addrs /\ \A a \in N : heap[a] # Free
  BY ShardFacts, Zenon DEF Inv
<1> HIDE DEF c
<1>3. /\ Sound(s, c) /\ c.inner = lru[s].inner /\ n \notin N
      /\ c.heap[n] # Free /\ c.heap[n].key = k /\ c.heap[n].value = v
      /\ \A a \in Addrs \ {n} : c.heap[a] = heap[a]
  BY <1>1, Zenon DEF Allocated
<1>4. detach(Unmap(c, k), c.inner[k]) = d /\ Shrunk(s, c, k, d)
  <2>1. k \in DOMAIN c.inner /\ Sound(s, c)
    BY <1>3
  <2> QED
    BY ONLY <2>1, TakeOut, Zenon
<1> HIDE DEF d, N, x
<1>5. /\ Sound(s, d) /\ Relinked(c.heap, d.heap, N) /\ Mapped(d.inner) = N \ {x}
      /\ k \notin DOMAIN d.inner
  <2>1. /\ Sound(s, d) /\ Relinked(c.heap, d.heap, N) /\ Mapped(d.inner) = N \ {x}
        /\ DOMAIN d.inner = DOMAIN c.inner \ {k}
    BY <1>3, <1>4, Zenon DEF Shrunk, N, x
  <2> QED
    BY <2>1
<1>6. d.heap[n] # Free /\ d.heap[n].key = k /\ d.heap[n].value = v
  BY <1>3, <1>5 DEF Relinked
<1>7. /\ \A a \in Addrs \ (N \cup {n}) : d.heap[a] = heap[a]
      /\ \A a \in N : d.heap[a] # Free /\ d.heap[a].key = heap[a].key /\ d.heap[a].value = heap[a].value
  BY <1>2, <1>3, <1>5 DEF Relinked
<1>8. Prepared(s, n, k, v, {x}, d)
  BY <1>5, <1>6, <1>7, Zenon DEF Prepared, N
<1> QED
  BY <1>3, <1>4, <1>8, Zenon DEF c, x

LEMMA PutStep ==
  ASSUME Inv, NEW k \in Keys, NEW v \in Values, put(k, v)
  PROVE  Inv'
<1> DEFINE s == ShardOf[k]
           o == Opened(s)
           x == lru[s].inner[k]
<1>0. s \in Shards /\ o.inner = lru[s].inner
  BY ShardAssumption, OpenedFields
<1>1. refs' = {r \in refs : r.key # k}
  BY Zenon DEF put
<1>2. refs' \subseteq refs /\ \A r \in refs' : r \in refs /\ r.key # k
  BY <1>1
<1>3. CASE k \notin DOMAIN o.inner
  <2>1. PICK n \in {a \in Addrs : heap[a] = Free} :
          Enter(s, Alloc(o, n, k, v), n, k, v, Null, {})
    BY <1>3, Zenon DEF put
  <2>2. n \in Addrs /\ heap[n] = Free
    OBVIOUS
  <2>3. Prepared(s, n, k, v, {}, Alloc(o, n, k, v))
    BY <1>0, <1>3, <2>2, PreparedNew, Zenon
  <2> HIDE DEF s, o
  <2>4. {} \subseteq Mapped(lru[s].inner) /\ \A r \in refs' : r.addr \notin {}
    OBVIOUS
  <2>5. ShardOf[k] = s
    BY DEF s
  <2> QED
    BY <1>0, <1>2, <2>1, <2>2, <2>3, <2>4, <2>5, EnterStep, Zenon
<1>4. CASE k \in DOMAIN o.inner
  <2>1. PICK n \in {a \in Addrs : heap[a] = Free} :
          Enter(s, detach(Unmap(Alloc(o, n, k, v), k), x), n, k, v, heap[x].value, {x})
    BY <1>0, <1>4, Zenon DEF put
  <2>2. n \in Addrs /\ heap[n] = Free
    OBVIOUS
  <2>3. Prepared(s, n, k, v, {x}, detach(Unmap(Alloc(o, n, k, v), k), x))
    BY <1>0, <1>4, <2>2, PreparedOld, Zenon
  <2>4. heap[x].key = k /\ x \in Mapped(lru[s].inner)
    BY <1>0, <1>4, ShardFacts DEF Inv
  <2> HIDE DEF s, o, x
  <2>5. \A r \in refs' : r.addr \notin {x}
    <3> SUFFICES ASSUME NEW r \in refs' PROVE r.addr # x
      OBVIOUS
    <3>1. heap[r.addr].key = r.key
      BY <1>2, Zenon DEF Inv, ReferencesStable
    <3> QED
      BY <1>2, <2>4, <3>1
  <2>6. ShardOf[k] = s /\ {x} \subseteq Mapped(lru[s].inner)
    BY <2>4 DEF s
  <2> QED
    BY <1>0, <1>2, <2>1, <2>2, <2>3, <2>5, <2>6, EnterStep, Zenon
<1> QED
  BY <1>3, <1>4

LEMMA GetStep ==
  ASSUME Inv, NEW k \in Keys, get(k)
  PROVE  Inv'
<1> DEFINE s == ShardOf[k]
           o == Opened(s)
<1>0. s \in Shards
  BY ShardAssumption
<1>1. CASE k \in DOMAIN o.inner /\ Hit(k, s, o)
  BY <1>0, <1>1, HitStep, Zenon
<1>2. CASE Close(s, o, Null) /\ UNCHANGED <<refs, evicted>>
  <2>1. refs' \subseteq refs /\ evicted' = evicted
    BY <1>2
  <2> QED
    BY <1>0, <1>2, <2>1, MissStep, Zenon
<1> QED
  BY <1>1, <1>2, Zenon DEF get

LEMMA GetOrInsertStep ==
  ASSUME Inv, NEW k \in Keys, NEW v \in Values \cup {Error}, get_or_insert(k, v)
  PROVE  Inv'
<1> DEFINE s == ShardOf[k]
           o == Opened(s)
<1>0. s \in Shards /\ o.inner = lru[s].inner
  BY ShardAssumption, OpenedFields
<1>1. CASE k \in DOMAIN o.inner /\ Hit(k, s, o)
  BY <1>0, <1>1, HitStep, Zenon
<1>2. CASE Close(s, o, Error) /\ UNCHANGED <<refs, evicted>>
  <2>1. refs' \subseteq refs /\ evicted' = evicted
    BY <1>2
  <2> QED
    BY <1>0, <1>2, <2>1, MissStep, Zenon
<1>3. CASE /\ k \notin DOMAIN o.inner
           /\ v # Error
           /\ \E n \in {a \in Addrs : heap[a] = Free} :
                Enter(s, Alloc(o, n, k, v), n, k, v, v, {}) /\ HandOut(n, k, v)
  <2>1. PICK n \in {a \in Addrs : heap[a] = Free} :
          Enter(s, Alloc(o, n, k, v), n, k, v, v, {}) /\ HandOut(n, k, v)
    BY <1>3
  <2>2. n \in Addrs /\ heap[n] = Free /\ v \in Values
    BY <1>3
  <2>3. Prepared(s, n, k, v, {}, Alloc(o, n, k, v))
    BY <1>0, <1>3, <2>2, PreparedNew, Zenon
  <2> HIDE DEF s, o
  <2>4. {} \subseteq Mapped(lru[s].inner) /\ ShardOf[k] = s
    BY DEF s
  <2> QED
    BY <1>0, <2>1, <2>2, <2>3, <2>4, EnterStep, Zenon
<1> QED
  BY <1>1, <1>2, <1>3, Zenon DEF get_or_insert

LEMMA ReleaseStep ==
  ASSUME Inv, NEW r \in refs, Release(r)
  PROVE  Inv'
<1>1. heap' = heap /\ lru' = lru /\ evicted' = evicted /\ refs' \subseteq refs
  BY DEF Release
<1>2. LruTypeOK' /\ HeapInv' /\ ReferencesStable'
  BY <1>1 DEF Inv, LruTypeOK, HeapInv, ReferencesStable
<1>3. ShardsSound'
  BY <1>1, Zenon DEF Inv, ShardsSound, Opened
<1> QED
  BY <1>2, <1>3, Zenon DEF Inv

LEMMA StutterStep ==
  ASSUME Inv, UNCHANGED vars
  PROVE  Inv'
<1>1. heap' = heap /\ lru' = lru /\ evicted' = evicted /\ refs' = refs
  BY DEF vars
<1>2. LruTypeOK' /\ HeapInv' /\ ReferencesStable'
  BY <1>1, Zenon DEF Inv, LruTypeOK, HeapInv, ReferencesStable
<1>3. ShardsSound'
  BY <1>1, Zenon DEF Inv, ShardsSound, Opened
<1> QED
  BY <1>2, <1>3, Zenon DEF Inv

LEMMA InvInit == Init => Inv
<1> SUFFICES ASSUME Init PROVE Inv
  OBVIOUS
<1>1. /\ heap = [a \in Addrs |-> Free] /\ refs = {} /\ evicted = {}
      /\ lru = [s \in Shards |-> [head |-> Null, tail |-> Null, inner |-> <<>>]]
  BY Zenon DEF Init
<1>2. DOMAIN <<>> = {}
  OBVIOUS
<1> DEFINE f == <<>>
<1>3. f \in [{} -> Addrs] /\ DOMAIN f = {}
  BY <1>2
<1> HIDE DEF f
<1>4. f \in Inners /\ Mapped(f) = {}
  BY <1>3, InnersAre, Zenon DEF Mapped
<1>5. heap \in Heaps /\ \A a \in Addrs : heap[a] = Free
  BY <1>1 DEF Heaps
<1>6. lru \in [Shards -> [head : Ptr, tail : Ptr, inner : Inners]]
      /\ \A s \in Shards : lru[s].head = Null /\ lru[s].tail = Null /\ lru[s].inner = f
  BY <1>1, <1>4 DEF Ptr, f
<1>7. LruTypeOK
  BY <1>1, <1>5, <1>6 DEF LruTypeOK
<1>8. HeapInv
  BY <1>1, <1>4, <1>5, <1>6 DEF HeapInv
<1>9. ReferencesStable
  BY <1>1 DEF ReferencesStable
<1>10. ShardsSound
  <2> SUFFICES ASSUME NEW s \in Shards PROVE Sound(s, Opened(s))
    BY DEF ShardsSound
  <2> DEFINE o == Opened(s)
  <2>1. o = [heap |-> heap, head |-> Null, tail |-> Null, inner |-> f]
    BY <1>6, Zenon DEF Opened
  <2>2. Null \in Ptr
    BY DEF Ptr
  <2> HIDE DEF o
  <2>3. o \in Recs /\ o.heap = heap /\ o.head = Null /\ o.tail = Null /\ o.inner = f
    BY <1>4, <1>5, <2>1, <2>2, RecsAre
  <2>4. IsFiniteSet(DOMAIN o.inner) /\ Cardinality(DOMAIN o.inner) = 0
    BY <1>3, <2>3, FS_EmptySet
  <2>5. \E L : L \in [1..0 -> {}]
    <3>1. [i \in 1..0 |-> Null] \in [1..0 -> {}]
      OBVIOUS
    <3> QED
      BY <3>1, Zenon
  <2>6. PICK L : L \in [1..0 -> {}]
    BY <2>5, Zenon
  <2>7. IsList(heap, Null, Null, {}, 0, L)
    BY <2>6 DEF IsList, Linked
  <2>8. Listing(o.heap, o.head, o.tail, Mapped(o.inner), Cardinality(DOMAIN o.inner))
    BY <1>4, <2>3, <2>4, <2>7, Zenon DEF Listing
  <2>9. \A k \in DOMAIN o.inner : FALSE
    BY <1>3, <2>3
  <2>10. Sound(s, o)
    BY <2>3, <2>4, <2>8, <2>9, Zenon DEF Sound
  <2> QED
    BY <2>10, Zenon DEF o
<1> QED
  BY <1>7, <1>8, <1>9, <1>10, Zenon DEF Inv

\* The inductive invariant: for any keys, shards, capacity and addresses, every
\* operation of ShardingLruCache leaves each shard with a well-formed list of
\* exactly the nodes of its map.
THEOREM LruCacheInvariant == Spec => []Inv
<1>1. Init => Inv
  BY InvInit
<1>2. Inv /\ [Next]_vars => Inv'
  <2> SUFFICES ASSUME Inv, [Next]_vars PROVE Inv'
    OBVIOUS
  <2>1. ASSUME NEW k \in Keys, get(k) PROVE Inv'
    BY <2>1, GetStep, Zenon
  <2>2. ASSUME NEW k \in Keys, remove(k) PROVE Inv'
    BY <2>2, RemoveStep, Zenon
  <2>3. ASSUME NEW k \in Keys, NEW v \in Values, put(k, v) PROVE Inv'
    BY <2>3, PutStep, Zenon
  <2>4. ASSUME NEW k \in Keys, NEW v \in Values \cup {Error}, get_or_insert(k, v) PROVE Inv'
    BY <2>4, GetOrInsertStep, Zenon
  <2>5. ASSUME NEW r \in refs, Release(r) PROVE Inv'
    BY <2>5, ReleaseStep, Zenon
  <2>6. CASE UNCHANGED vars
    BY <2>6, StutterStep, Zenon
  <2> QED
    BY <2>1, <2>2, <2>3, <2>4, <2>5, <2>6, Zenon DEF Next
<1> QED
  BY <1>1, <1>2, PTL DEF Spec

\* No reference that get or get_or_insert handed out dangles or changes its value
\* while neither put nor remove is called with its key, however many other keys
\* are loaded and expelled.
THEOREM ReferencesAreStable == Spec => []ReferencesStable
<1>1. Inv => ReferencesStable
  BY Zenon DEF Inv
<1> QED
  BY <1>1, LruCacheInvariant, PTL

LEMMA InvLists == Inv => ListMatchesMap
<1> SUFFICES ASSUME Inv PROVE ListMatchesMap
  OBVIOUS
<1>1. ASSUME NEW s \in Shards
      PROVE  /\ \A k \in DOMAIN lru[s].inner : heap[lru[s].inner[k]] # Free /\ heap[lru[s].inner[k]].key = k
             /\ \E chain \in [1..Cardinality(DOMAIN lru[s].inner) -> Mapped(lru[s].inner)] :
                  /\ {chain[i] : i \in 1..Cardinality(DOMAIN lru[s].inner)} = Mapped(lru[s].inner)
                  /\ Linked(heap, lru[s].head, lru[s].tail, Cardinality(DOMAIN lru[s].inner), chain)
  <2> DEFINE o == Opened(s)
             N == Mapped(lru[s].inner)
             n == Cardinality(DOMAIN lru[s].inner)
  <2>1. Sound(s, o) /\ o.heap = heap /\ o.head = lru[s].head /\ o.tail = lru[s].tail /\ o.inner = lru[s].inner
    BY OpenedFields, Zenon DEF Inv, ShardsSound
  <2>2. \A k \in DOMAIN lru[s].inner : heap[lru[s].inner[k]] # Free /\ heap[lru[s].inner[k]].key = k
    BY ShardFacts DEF Inv
  <2> HIDE DEF o
  <2>3. Listing(heap, lru[s].head, lru[s].tail, N, n)
    BY <2>1, Zenon DEF Sound
  <2>4. PICK L : IsList(heap, lru[s].head, lru[s].tail, N, n, L)
    BY <2>3, Zenon DEF Listing
  <2> HIDE DEF N, n
  <2>5. L \in [1..n -> N] /\ Linked(heap, lru[s].head, lru[s].tail, n, L) /\ {L[i] : i \in 1..n} = N
    BY <2>4 DEF IsList
  <2> QED
    BY <2>2, <2>5, Zenon DEF N, n
<1>2. {a \in Addrs : heap[a] # Free} = evicted \cup UNION {Mapped(lru[s].inner) : s \in Shards}
  <2>1. \A s \in Shards : Mapped(lru[s].inner) \subseteq Addrs
    BY ShardFacts DEF Inv
  <2>2. evicted \subseteq Addrs
    BY DEF Inv, LruTypeOK
  <2>3. \A a \in Addrs : heap[a] # Free <=> (a \in evicted \/ \E s \in Shards : a \in Mapped(lru[s].inner))
    BY Zenon DEF Inv, HeapInv
  <2> QED
    BY <2>1, <2>2, <2>3
<1> QED
  BY <1>1, <1>2, Zenon DEF ListMatchesMap

\* In every reachable state the doubly linked list of a shard visits each node of
\* its map once from head to tail, backwards as forwards, and memory holds the
\* mapped and the expelled nodes and no others.
THEOREM ListsMatchMaps == Spec => []ListMatchesMap
BY InvLists, LruCacheInvariant, PTL
=============================================================================
