------------------------ MODULE VersionCleanerProofs ------------------------
(***************************************************************************)
(* Proofs about VersionCleaner, for any number of readers, versions and    *)
(* tables.                                                                 *)
(***************************************************************************)
EXTENDS VersionCleaner, TLAPS

LEMMA TagTypes ==
  /\ \A n \in Nat : Clean(n) \in CleanTag
  /\ \A n \in Nat, S \in SUBSET Nat : Add(n, S) \in CleanTag
BY Zenon DEF Clean, Add, CleanTag

LEMMA ElementTypes ==
  ASSUME TypeOK
  PROVE  /\ \A i \in 1..Len(del_gens) :
              del_gens[i] \in DelGens /\ del_gens[i].version \in Nat
              /\ del_gens[i].gens \subseteq Nat
         /\ \A i \in 1..Len(tags) :
              tags[i] \in CleanTag /\ tags[i].version \in Nat
              /\ tags[i].gens \subseteq Nat
<1>1. \A d \in DelGens : d.version \in Nat /\ d.gens \subseteq Nat
  BY Zenon DEF DelGens
<1>2. \A t \in CleanTag : t.version \in Nat /\ t.gens \subseteq Nat
  BY Zenon DEF CleanTag
<1> QED
  BY <1>1, <1>2 DEF TypeOK

(***************************************************************************)
(* Every step keeps the state well typed.                                  *)
(***************************************************************************)
LEMMA TypeStep == TypeOK /\ [Next]_vars => TypeOK'
<1> SUFFICES ASSUME TypeOK, [Next]_vars PROVE TypeOK'
  OBVIOUS
<1> USE CleanerConstants
<1>1. ASSUME NEW r \in Readers, Acquire(r) PROVE TypeOK'
  BY <1>1 DEF TypeOK, Newest, Acquire, statusVars, cleanerVars
<1>2. ASSUME NEW r \in Readers, Release(r) PROVE TypeOK'
  <2>1. tags' \in Seq(CleanTag)
    BY <1>2, TagTypes DEF TypeOK, Release, SendDrop
  <2> QED
    BY <1>2, <2>1 DEF TypeOK, Newest, Release, statusVars, cleanerVars
<1>3. CASE log_and_apply
  <2>1. PICK n \in 1..MaxNew, del \in SUBSET files[current] :
          /\ apply(gen..(gen + n - 1), del)
          /\ gen' = gen + n
    BY <1>3, Zenon DEF log_and_apply
  <2>2. del \in SUBSET Nat
    BY <1>3 DEF TypeOK, Newest, log_and_apply
  <2>3. files' \in [1..(current + 1) -> SUBSET Nat]
    <3>1. \A v \in 1..current : files[v] \in SUBSET Nat
      BY <1>3, Zenon DEF TypeOK, Newest, log_and_apply
    <3>2. gen..(gen + n - 1) \in SUBSET Nat
      BY DEF TypeOK
    <3>3. \A v \in 1..(current + 1) : files'[v] \in SUBSET Nat
      BY <2>1, <2>2, <3>1, <3>2 DEF TypeOK, apply
    <3> QED
      BY <2>1, <3>3, Zenon DEF apply
  <2>4. tags' \in Seq(CleanTag)
    BY <1>3, <2>1, <2>2, TagTypes DEF TypeOK, log_and_apply, apply
  <2> QED
    BY <1>3, <2>1, <2>3, <2>4 DEF TypeOK, Newest, log_and_apply, apply, cleanerVars
<1>4. CASE Publish
  <2>1. tags' \in Seq(CleanTag)
    BY <1>4, TagTypes DEF TypeOK, Publish, SendDrop
  <2> QED
    BY <1>4, <2>1 DEF TypeOK, Newest, Publish, cleanerVars
<1>5. CASE LogFails
  <2>1. tags' \in Seq(CleanTag)
    BY <1>5, TagTypes DEF TypeOK, LogFails, SendDrop
  <2>2. gen' \in Nat
    BY <1>5 DEF TypeOK, LogFails
  <2> QED
    BY <1>5, <2>1, <2>2 DEF TypeOK, Newest, LogFails, cleanerVars
<1>6. CASE Close
  <2>1. tags' \in Seq(CleanTag)
    BY <1>6, TagTypes DEF TypeOK, Close, SendDrop
  <2> QED
    BY <1>6, <2>1, Zenon DEF TypeOK, Newest, Close, cleanerVars
<1>7. CASE ListenAdd
  <2>1. Head(tags) = tags[1] /\ 1 \in 1..Len(tags)
    BY <1>7 DEF TypeOK, ListenAdd
  <2>2. [version |-> Head(tags).version, gens |-> Head(tags).gens] \in DelGens
    BY <2>1, ElementTypes, Zenon DEF DelGens
  <2>3. tags' \in Seq(CleanTag) /\ del_gens' \in Seq(DelGens)
    BY <1>7, <2>2 DEF TypeOK, ListenAdd
  <2> QED
    BY <1>7, <2>3, Zenon DEF TypeOK, Newest, ListenAdd, statusVars
<1>8. CASE ListenClean
  <2>1. tags' \in Seq(CleanTag)
    BY <1>8 DEF TypeOK, ListenClean
  <2>2. /\ del_gens' \in Seq(DelGens)
        /\ cleaned' \in SUBSET Nat
    <3>1. CASE UNCHANGED <<del_gens, cleaned>>
      BY <3>1, Zenon DEF TypeOK
    <3>2. ASSUME NEW i \in 1..Len(del_gens), i = 1,
                 del_gens' = Tail(del_gens),
                 cleaned' = cleaned \cup del_gens[1].gens
          PROVE  /\ del_gens' \in Seq(DelGens)
                 /\ cleaned' \in SUBSET Nat
      <4>1. del_gens # <<>> /\ del_gens[1].gens \subseteq Nat
        <5>1. del_gens \in Seq(DelGens)
          BY Zenon DEF TypeOK
        <5>2. Len(del_gens) # 0 /\ 1 \in 1..Len(del_gens)
          BY <3>2, <5>1
        <5>3. del_gens[1] \in DelGens
          BY <5>1, <5>2
        <5>4. del_gens[1].gens \subseteq Nat
          BY <5>3, Zenon DEF DelGens
        <5> QED BY <5>1, <5>2, <5>4
      <4>2. del_gens' \in Seq(DelGens)
        BY <3>2, <4>1 DEF TypeOK
      <4>3. cleaned' \in SUBSET Nat
        BY <3>2, <4>1, Zenon DEF TypeOK
      <4> QED
        BY <4>2, <4>3, Zenon
    <3>3. ASSUME NEW i \in 1..Len(del_gens), i > 1,
                 del_gens' = HandOver(i), UNCHANGED cleaned
          PROVE  /\ del_gens' \in Seq(DelGens)
                 /\ cleaned' \in SUBSET Nat
      <4>1. \A j \in 1..(Len(del_gens) - 1) :
              HandOver(i)[j] \in DelGens
        <5>1. \A d \in DelGens, S \in SUBSET Nat :
                [d EXCEPT !.gens = @ \cup S] \in DelGens
          BY Zenon DEF DelGens
        <5>2. \A j \in 1..(Len(del_gens) - 1) :
                j \in 1..Len(del_gens) /\ j + 1 \in 1..Len(del_gens)
          BY DEF TypeOK
        <5> QED
          BY <3>3, <5>1, <5>2, ElementTypes, Zenon DEF HandOver
      <4>2. /\ Len(del_gens) - 1 \in Nat
            /\ HandOver(i) = [j \in 1..(Len(del_gens) - 1) |-> HandOver(i)[j]]
        BY <3>3 DEF TypeOK, HandOver
      <4> QED
        BY <3>3, <4>1, <4>2 DEF TypeOK
    <3> QED
      BY <1>8, <3>1, <3>2, <3>3, Zenon DEF ListenClean, clean, find_index_with_ver_num
  <2> QED
    BY <1>8, <2>1, <2>2, Zenon DEF TypeOK, Newest, ListenClean, statusVars
<1>9. CASE ListenNone
  <2>1. UNION {del_gens[i].gens : i \in 1..Len(del_gens)} \in SUBSET Nat
    BY ElementTypes, Zenon
  <2>2. del_gens' \in Seq(DelGens)
    BY <1>9 DEF ListenNone
  <2>3. cleaned' \in SUBSET Nat
    BY <1>9, <2>1, Zenon DEF ListenNone, TypeOK
  <2> QED
    BY <1>9, <2>1, <2>2, <2>3, Zenon DEF TypeOK, Newest, ListenNone, statusVars
<1>10. CASE UNCHANGED vars
  BY <1>10, Zenon DEF TypeOK, Newest, vars
<1> QED
  BY <1>1, <1>2, <1>3, <1>4, <1>5, <1>6, <1>7, <1>8, <1>9, <1>10, Zenon
  DEF Next, Listen

LEMMA TypeInit == Init => TypeOK
<1> SUFFICES ASSUME Init PROVE TypeOK
  OBVIOUS
<1>1. PICK live \in SUBSET (1..InitGen) :
        /\ files = [n \in {1} |-> live]
        /\ tags = <<Add(1, (1..InitGen) \ live)>>
  BY Zenon DEF Init, load_from_log
<1>2. files \in [1..1 -> SUBSET Nat]
  <2>1. 1..1 = {1}
    OBVIOUS
  <2>2. live \in SUBSET Nat
    BY CleanerConstants
  <2> QED
    BY <1>1, <2>1, <2>2, Zenon
<1>3. tags \in Seq(CleanTag)
  BY <1>1, TagTypes, CleanerConstants
<1>4. del_gens \in Seq(DelGens)
  BY DEF Init
<1>5. held \in [Readers -> 0..current]
  BY DEF Init, load_from_log
<1>6. current = 1 /\ applying = 0 /\ gen \in Nat /\ failures = 0
  BY CleanerConstants DEF Init, load_from_log
<1>7. closed \in BOOLEAN /\ listening \in BOOLEAN /\ cleaned \in SUBSET Nat
  BY Zenon DEF Init
<1>8. files \in [1..Newest -> SUBSET Nat]
  BY <1>2, <1>6, Zenon DEF Newest
<1> QED
  BY <1>3, <1>4, <1>5, <1>6, <1>7, <1>8 DEF TypeOK

(***************************************************************************)
(* The state of Version, VersionStatus and Cleaner is always well typed.   *)
(***************************************************************************)
THEOREM TypeCorrect == Spec => []TypeOK
BY TypeInit, TypeStep, PTL DEF Spec
-----------------------------------------------------------------------------
(***************************************************************************)
(* The inductive invariant.  del_gens followed by the Adds of the channel  *)
(* is a list of version numbers in increasing order.                       *)
(***************************************************************************)
Sorted ==
  /\ \A i, j \in 1..Len(del_gens) :
       i < j => del_gens[i].version < del_gens[j].version
  /\ \A i, j \in 1..Len(tags) :
       i < j /\ tags[i].tag = "Add" /\ tags[j].tag = "Add"
         => tags[i].version < tags[j].version
  /\ \A i \in 1..Len(del_gens), j \in 1..Len(tags) :
       tags[j].tag = "Add" => del_gens[i].version < tags[j].version

Known ==
  /\ \A i \in 1..Len(del_gens) :
       /\ del_gens[i].version \in 1..Newest
       /\ \A g \in del_gens[i].gens : g < gen
  /\ \A i \in 1..Len(tags) :
       /\ tags[i].tag = "Add" => tags[i].version \in 1..Newest
       /\ \A g \in tags[i].gens : g < gen
  /\ \A v \in 1..Newest : \A g \in files[v] : g < gen
  /\ \A g \in cleaned : g < gen

OrderInv == Sorted /\ Known /\ NewestIntact /\ (closed => applying = 0)

(***************************************************************************)
(* Without failures a Clean tag is sent once per version, after its Add    *)
(* and after its last holder is gone; so a version that can be read has an *)
(* entry, and a table it needs waits no further to the front than there.   *)
(***************************************************************************)
CleanTags ==
  \A i \in 1..Len(tags) : tags[i].tag = "Clean" =>
    /\ tags[i].version \in 1..current
    /\ ~Alive(tags[i].version)
    /\ HasEntry(tags[i].version)
    /\ \A j \in 1..Len(tags) :
         tags[j].version = tags[i].version /\ j # i
           => tags[j].tag = "Add" /\ j < i

HeldHasEntry ==
  \A v \in 1..Newest : Alive(v) \/ v = applying => HasEntry(v)

Kept ==
  \A v \in 1..Newest : HasEntry(v) =>
    \A g \in files[v] :
      g \notin cleaned /\ \A w \in 1..Newest : Pending(w, g) => v <= w

SafeInv == failures = 0 => CleanTags /\ HeldHasEntry /\ Kept
-----------------------------------------------------------------------------
(***************************************************************************)
(* What a step does to the entries, seen through HasEntry and Pending.     *)
(***************************************************************************)
LEMMA SendEffect ==
  ASSUME TypeOK, NEW t \in CleanTag, tags' = Append(tags, t), del_gens' = del_gens
  PROVE  /\ Len(tags) \in Nat /\ Len(tags') = Len(tags) + 1
         /\ \A i \in 1..Len(tags) : tags'[i] = tags[i]
         /\ tags'[Len(tags) + 1] = t
         /\ \A w : HasEntry(w)' <=> HasEntry(w) \/ (t.tag = "Add" /\ t.version = w)
         /\ \A w, g : Pending(w, g)' <=>
              Pending(w, g) \/ (t.tag = "Add" /\ t.version = w /\ g \in t.gens)
<1>1. /\ Len(tags) \in Nat /\ Len(tags') = Len(tags) + 1
      /\ \A i \in 1..Len(tags) : tags'[i] = tags[i]
      /\ tags'[Len(tags) + 1] = t
  BY DEF TypeOK
<1>2. \A i \in 1..Len(tags') : i \in 1..Len(tags) \/ i = Len(tags) + 1
  BY <1>1
<1>3. \A i \in 1..Len(tags) : i \in 1..Len(tags')
  BY <1>1
<1>4. Len(tags) + 1 \in 1..Len(tags')
  BY <1>1
<1> QED
  BY <1>1, <1>2, <1>3, <1>4, Zenon DEF HasEntry, Pending

LEMMA AddEffect ==
  ASSUME TypeOK, NEW t, tags # <<>>, t = Head(tags), t.tag = "Add", tags' = Tail(tags),
         del_gens' = Append(del_gens, [version |-> t.version, gens |-> t.gens])
  PROVE  /\ Len(tags) \in Nat \ {0} /\ Len(tags') = Len(tags) - 1
         /\ t = tags[1]
         /\ \A i \in 1..Len(tags') : tags'[i] = tags[i + 1]
         /\ Len(del_gens) \in Nat /\ Len(del_gens') = Len(del_gens) + 1
         /\ \A i \in 1..Len(del_gens) : del_gens'[i] = del_gens[i]
         /\ del_gens'[Len(del_gens) + 1] = [version |-> t.version, gens |-> t.gens]
         /\ \A w : HasEntry(w)' <=> HasEntry(w)
         /\ \A w, g : Pending(w, g)' <=> Pending(w, g)
<1>1. /\ Len(tags) \in Nat \ {0} /\ Len(tags') = Len(tags) - 1
      /\ t = tags[1]
      /\ \A i \in 1..Len(tags') : tags'[i] = tags[i + 1]
  BY DEF TypeOK
<1>2. [version |-> t.version, gens |-> t.gens] \in DelGens
  BY <1>1, ElementTypes, SMTT(30) DEF DelGens
<1>3. /\ Len(del_gens) \in Nat /\ Len(del_gens') = Len(del_gens) + 1
      /\ \A i \in 1..Len(del_gens) : del_gens'[i] = del_gens[i]
      /\ del_gens'[Len(del_gens) + 1] = [version |-> t.version, gens |-> t.gens]
  BY <1>2 DEF TypeOK
<1>4. /\ \A i \in 1..Len(del_gens) : i \in 1..Len(del_gens')
      /\ \A i \in 1..Len(del_gens') : i \in 1..Len(del_gens) \/ i = Len(del_gens) + 1
      /\ Len(del_gens) + 1 \in 1..Len(del_gens')
  BY <1>3
<1>5. /\ 1 \in 1..Len(tags)
      /\ \A i \in 1..Len(tags') : i + 1 \in 1..Len(tags)
      /\ \A i \in 1..Len(tags) : i = 1 \/ (i - 1 \in 1..Len(tags') /\ tags[i] = tags'[i - 1])
  BY <1>1
<1>6. ASSUME NEW w PROVE HasEntry(w)' <=> HasEntry(w)
  <2>1. ASSUME HasEntry(w)' PROVE HasEntry(w)
    BY <1>1, <1>3, <1>4, <1>5, <2>1 DEF HasEntry
  <2>2. ASSUME HasEntry(w) PROVE HasEntry(w)'
    <3>1. CASE \E i \in 1..Len(del_gens) : del_gens[i].version = w
      BY <1>3, <1>4, <3>1, Zenon DEF HasEntry
    <3>2. CASE \E i \in 1..Len(tags) : tags[i].tag = "Add" /\ tags[i].version = w
      <4>1. PICK i \in 1..Len(tags) : tags[i].tag = "Add" /\ tags[i].version = w
        BY <3>2, Zenon
      <4>2. CASE i = 1
        BY <1>1, <1>3, <1>4, <4>1, <4>2 DEF HasEntry
      <4>3. CASE i # 1
        <5>1. i - 1 \in 1..Len(tags') /\ tags[i] = tags'[i - 1]
          BY <1>5, <4>3, Zenon
        <5>2. tags'[i - 1].tag = "Add" /\ tags'[i - 1].version = w
          BY <4>1, <5>1, Zenon
        <5> QED BY <5>1, <5>2, Zenon DEF HasEntry
      <4> QED BY <4>2, <4>3
    <3> QED BY <2>2, <3>1, <3>2 DEF HasEntry
  <2> QED BY <2>1, <2>2
<1>7. ASSUME NEW w, NEW g PROVE Pending(w, g)' <=> Pending(w, g)
  <2>1. ASSUME Pending(w, g)' PROVE Pending(w, g)
    BY <1>1, <1>3, <1>4, <1>5, <2>1 DEF Pending
  <2>2. ASSUME Pending(w, g) PROVE Pending(w, g)'
    <3>1. CASE \E i \in 1..Len(del_gens) :
                 del_gens[i].version = w /\ g \in del_gens[i].gens
      BY <1>3, <1>4, <3>1, Zenon DEF Pending
    <3>2. CASE \E i \in 1..Len(tags) :
                 tags[i].tag = "Add" /\ tags[i].version = w /\ g \in tags[i].gens
      <4>1. PICK i \in 1..Len(tags) :
              tags[i].tag = "Add" /\ tags[i].version = w /\ g \in tags[i].gens
        BY <3>2, Zenon
      <4>2. CASE i = 1
        BY <1>1, <1>3, <1>4, <4>1, <4>2 DEF Pending
      <4>3. CASE i # 1
        BY <1>5, <4>1, <4>3, Zenon DEF Pending
      <4> QED BY <4>2, <4>3
    <3> QED BY <2>2, <3>1, <3>2 DEF Pending
  <2> QED BY <2>1, <2>2
<1> QED
  BY <1>1, <1>3, <1>6, <1>7, Zenon

LEMMA TailEffect ==
  ASSUME TypeOK, tags # <<>>, tags' = Tail(tags)
  PROVE  /\ Len(tags) \in Nat \ {0} /\ Len(tags') = Len(tags) - 1
         /\ Head(tags) = tags[1] /\ 1 \in 1..Len(tags)
         /\ \A i \in 1..Len(tags') : i + 1 \in 1..Len(tags) /\ tags'[i] = tags[i + 1]
         /\ \A i \in 1..Len(tags) :
              i = 1 \/ (i - 1 \in 1..Len(tags') /\ tags[i] = tags'[i - 1])
BY DEF TypeOK

InChannel(w) ==
  \E i \in 1..Len(tags) : tags[i].tag = "Add" /\ tags[i].version = w

PendingInChannel(w, g) ==
  \E i \in 1..Len(tags) :
    tags[i].tag = "Add" /\ tags[i].version = w /\ g \in tags[i].gens

LEMMA TailAdds ==
  ASSUME TypeOK, tags # <<>>, tags' = Tail(tags), Head(tags).tag # "Add"
  PROVE  /\ \A w : InChannel(w)' <=> InChannel(w)
         /\ \A w, g : PendingInChannel(w, g)' <=> PendingInChannel(w, g)
<1>1. tags[1].tag # "Add"
  BY TailEffect, Zenon
<1>2. ASSUME NEW w PROVE InChannel(w)' <=> InChannel(w)
  <2>1. InChannel(w)' => InChannel(w)
    BY TailEffect, Zenon DEF InChannel
  <2>2. InChannel(w) => InChannel(w)'
    BY <1>1, TailEffect, Zenon DEF InChannel
  <2> QED BY <2>1, <2>2
<1>3. ASSUME NEW w, NEW g PROVE PendingInChannel(w, g)' <=> PendingInChannel(w, g)
  <2>1. PendingInChannel(w, g)' => PendingInChannel(w, g)
    BY TailEffect, ZenonT(30) DEF PendingInChannel
  <2>2. PendingInChannel(w, g) => PendingInChannel(w, g)'
    BY <1>1, TailEffect, Zenon DEF PendingInChannel
  <2> QED BY <2>1, <2>2
<1> QED BY <1>2, <1>3

LEMMA EntryInChannel ==
  /\ \A w : HasEntry(w) <=>
       (\E i \in 1..Len(del_gens) : del_gens[i].version = w) \/ InChannel(w)
  /\ \A w, g : Pending(w, g) <=>
       \/ \E i \in 1..Len(del_gens) : del_gens[i].version = w /\ g \in del_gens[i].gens
       \/ PendingInChannel(w, g)
BY Zenon DEF HasEntry, Pending, InChannel, PendingInChannel

(***************************************************************************)
(* The first entry leaves del_gens, or a later one, whose tables go to its *)
(* predecessor.                                                            *)
(***************************************************************************)
LEMMA RemoveFirst ==
  ASSUME TypeOK, 1 \in 1..Len(del_gens), del_gens' = Tail(del_gens)
  PROVE  /\ Len(del_gens) \in Nat /\ Len(del_gens') = Len(del_gens) - 1
         /\ \A j \in 1..Len(del_gens') :
              j + 1 \in 1..Len(del_gens) /\ del_gens'[j] = del_gens[j + 1]
         /\ \A j \in 1..Len(del_gens) :
              j = 1 \/ (j - 1 \in 1..Len(del_gens') /\ del_gens[j] = del_gens'[j - 1])
<1>1. del_gens # <<>>
  BY DEF TypeOK
<1> QED
  BY <1>1 DEF TypeOK

LEMMA RemoveLater ==
  ASSUME TypeOK, NEW i \in 1..Len(del_gens), i > 1, del_gens' = HandOver(i)
  PROVE  /\ Len(del_gens) \in Nat /\ Len(del_gens') = Len(del_gens) - 1
         /\ i - 1 \in 1..Len(del_gens')
         /\ del_gens'[i - 1] =
              [del_gens[i - 1] EXCEPT !.gens = @ \cup del_gens[i].gens]
         /\ \A j \in 1..Len(del_gens') :
              /\ j < i - 1 => j \in 1..Len(del_gens) /\ del_gens'[j] = del_gens[j]
              /\ j >= i => j + 1 \in 1..Len(del_gens) /\ del_gens'[j] = del_gens[j + 1]
<1>1. Len(del_gens) \in Nat
  BY DEF TypeOK
<1>2. Len(HandOver(i)) = Len(del_gens) - 1
  BY <1>1 DEF HandOver
<1> QED
  BY <1>1, <1>2 DEF HandOver

(***************************************************************************)
(* Cleaning version n removes its entry and no other.  A table that starts *)
(* to wait elsewhere waits under the last version before n; a table that   *)
(* is removed waited under n, and n was the oldest version with an entry.  *)
(* A table that waited goes on waiting or is removed.                      *)
(***************************************************************************)
CleanStep(n) ==
  /\ \A w : HasEntry(w)' => HasEntry(w)
  /\ \A w : HasEntry(w) /\ w # n => HasEntry(w)'
  /\ (\A j \in 1..Len(tags) : tags[j].tag = "Add" => tags[j].version # n)
       => ~HasEntry(n)'
  /\ \A w, g : Pending(w, g)' =>
       \/ Pending(w, g)
       \/ /\ w \in Nat /\ w < n /\ Pending(n, g) /\ ~HasEntry(n)'
          /\ \A u \in Nat : HasEntry(u) /\ u < n => u <= w
  /\ \A g \in cleaned' :
       \/ g \in cleaned
       \/ Pending(n, g) /\ ~HasEntry(n)' /\ \A u \in Nat : HasEntry(u) => n <= u
  /\ cleaned \subseteq cleaned'
  /\ \A w, g : Pending(w, g) => g \in cleaned' \/ \E u : Pending(u, g)'
  /\ Sorted'

LEMMA CleanNothing ==
  ASSUME TypeOK, Sorted, NEW n \in Nat, tags # <<>>, Head(tags).tag # "Add",
         tags' = Tail(tags), find_index_with_ver_num(n) = {},
         del_gens' = del_gens, cleaned' = cleaned
  PROVE  CleanStep(n)
<1>1. Head(tags).tag # "Add"
  OBVIOUS
<1>2. \A i \in 1..Len(del_gens) : del_gens[i].version # n
  <2> SUFFICES ASSUME NEW i \in 1..Len(del_gens), del_gens[i].version = n PROVE FALSE
    OBVIOUS
  <2>1. PICK j \in 1..(i - 1) : del_gens[j].version = n
    BY Zenon DEF find_index_with_ver_num
  <2>2. j \in 1..Len(del_gens) /\ j < i
    BY DEF TypeOK
  <2>3. n < n
    BY <2>1, <2>2, Zenon DEF Sorted
  <2> QED
    BY <2>3
<1>3. \A w : HasEntry(w)' <=> HasEntry(w)
  BY <1>1, TailAdds, Zenon DEF HasEntry, InChannel
<1>4. \A w, g : Pending(w, g)' <=> Pending(w, g)
  <2> SUFFICES ASSUME NEW w, NEW g PROVE Pending(w, g)' <=> Pending(w, g)
    OBVIOUS
  <2>1. PendingInChannel(w, g)' <=> PendingInChannel(w, g)
    BY <1>1, TailAdds, Zenon
  <2> QED
    BY <2>1, Zenon DEF Pending, PendingInChannel
<1>5. (\A j \in 1..Len(tags) : tags[j].tag = "Add" => tags[j].version # n)
        => ~HasEntry(n)'
  BY <1>2, <1>3, Zenon DEF HasEntry
<1>6. Sorted'
  BY TailEffect DEF Sorted
<1> QED
  BY <1>3, <1>4, <1>5, <1>6, Zenon DEF CleanStep

LEMMA CleanFirst ==
  ASSUME TypeOK, Sorted, NEW n \in Nat, tags # <<>>, Head(tags).tag # "Add",
         tags' = Tail(tags), 1 \in 1..Len(del_gens), del_gens[1].version = n,
         del_gens' = Tail(del_gens), cleaned' = cleaned \cup del_gens[1].gens
  PROVE  CleanStep(n)
<1>1. Head(tags).tag # "Add"
  OBVIOUS
<1>2. \A i \in 1..Len(del_gens) : i # 1 => n < del_gens[i].version
  BY DEF Sorted, TypeOK
<1>3. \A i \in 1..Len(tags) : tags[i].tag = "Add" => n < tags[i].version
  BY Zenon DEF Sorted
<1>4. \A w : HasEntry(w)' => HasEntry(w)
  BY TailEffect, RemoveFirst DEF HasEntry
<1>5. ASSUME NEW w, HasEntry(w), w # n PROVE HasEntry(w)'
  <2>1. CASE \E k \in 1..Len(del_gens) : del_gens[k].version = w
    BY <1>5, <2>1, RemoveFirst, Zenon DEF HasEntry
  <2>2. CASE InChannel(w)
    BY <1>1, <2>2, TailAdds, Zenon DEF HasEntry, InChannel
  <2> QED BY <1>5, <2>1, <2>2 DEF HasEntry, InChannel
<1>6. ~HasEntry(n)'
  <2>1. \A j \in 1..Len(del_gens') : del_gens'[j].version # n
    BY <1>2, RemoveFirst, ElementTypes
  <2>2. \A j \in 1..Len(tags') : tags'[j].tag = "Add" => tags'[j].version # n
    BY <1>3, TailEffect, ElementTypes
  <2> QED BY <2>1, <2>2 DEF HasEntry
<1>7. \A w, g : Pending(w, g)' => Pending(w, g)
  BY TailEffect, RemoveFirst DEF Pending
<1>8. \A u \in Nat : HasEntry(u) => n <= u
  BY <1>2, <1>3 DEF HasEntry
<1>9. \A g \in cleaned' : g \in cleaned \/ Pending(n, g)
  BY Zenon DEF Pending
<1>10. Sorted'
  BY TailEffect, RemoveFirst DEF Sorted
<1>11. ASSUME NEW w, NEW g, Pending(w, g) PROVE g \in cleaned' \/ \E u : Pending(u, g)'
  <2>1. CASE \E k \in 1..Len(del_gens) : del_gens[k].version = w /\ g \in del_gens[k].gens
    <3>1. PICK k \in 1..Len(del_gens) : g \in del_gens[k].gens
      BY <2>1, Zenon
    <3>2. CASE k = 1
      BY <3>1, <3>2, Zenon
    <3>3. CASE k # 1
      BY <3>1, <3>3, RemoveFirst, Zenon DEF Pending
    <3> QED BY <3>2, <3>3, Zenon
  <2>2. CASE PendingInChannel(w, g)
    <3>1. PendingInChannel(w, g)'
      BY <1>1, <2>2, TailAdds, Zenon
    <3> QED
      BY <3>1, Zenon DEF Pending, PendingInChannel
  <2> QED BY <1>11, <2>1, <2>2, EntryInChannel
<1> QED
  BY <1>4, <1>5, <1>6, <1>7, <1>8, <1>9, <1>10, <1>11, Zenon DEF CleanStep

LEMMA CleanLater ==
  ASSUME TypeOK, Sorted, NEW n \in Nat, tags # <<>>, Head(tags).tag # "Add",
         tags' = Tail(tags), NEW i \in 1..Len(del_gens), i > 1,
         del_gens[i].version = n, del_gens' = HandOver(i), cleaned' = cleaned
  PROVE  CleanStep(n)
<1>1. Head(tags).tag # "Add"
  OBVIOUS
<1>2. \A k \in 1..Len(del_gens) :
        /\ k < i => del_gens[k].version < n
        /\ k > i => n < del_gens[k].version
  BY Zenon DEF Sorted, TypeOK
<1>3. \A k \in 1..Len(tags) : tags[k].tag = "Add" => n < tags[k].version
  BY Zenon DEF Sorted
<1> DEFINE from(j) == IF j < i THEN j ELSE j + 1
<1>4. i - 1 \in 1..Len(del_gens) /\ Len(del_gens) \in Nat
  BY DEF TypeOK
<1>5. \A j \in 1..Len(del_gens') :
        /\ from(j) \in 1..Len(del_gens) /\ from(j) # i
        /\ del_gens'[j].version = del_gens[from(j)].version
        /\ j # i - 1 => del_gens'[j] = del_gens[from(j)]
  <2>1. del_gens'[i - 1].version = del_gens[i - 1].version
    BY <1>4, RemoveLater, ElementTypes, Zenon DEF DelGens
  <2> SUFFICES ASSUME NEW j \in 1..Len(del_gens')
               PROVE  /\ from(j) \in 1..Len(del_gens) /\ from(j) # i
                      /\ del_gens'[j].version = del_gens[from(j)].version
                      /\ j # i - 1 => del_gens'[j] = del_gens[from(j)]
    OBVIOUS
  <2>2. CASE j < i - 1
    <3>1. j \in 1..Len(del_gens) /\ del_gens'[j] = del_gens[j]
      BY <2>2, RemoveLater, Zenon
    <3>2. from(j) = j /\ j # i
      BY <2>2
    <3> QED BY <3>1, <3>2
  <2>3. CASE j = i - 1
    <3>1. from(j) = i - 1 /\ i - 1 # i
      BY <2>3
    <3> QED BY <1>4, <2>1, <2>3, <3>1
  <2>4. CASE j >= i
    <3>1. j + 1 \in 1..Len(del_gens) /\ del_gens'[j] = del_gens[j + 1]
      BY <2>4, RemoveLater, Zenon
    <3>2. from(j) = j + 1 /\ j + 1 # i
      BY <2>4
    <3> QED BY <3>1, <3>2
  <2> QED
    BY <1>4, <2>2, <2>3, <2>4, RemoveLater
<1>6. \A k \in 1..Len(del_gens) : k # i =>
        \E j \in 1..Len(del_gens') : from(j) = k
  <2> SUFFICES ASSUME NEW k \in 1..Len(del_gens), k # i
               PROVE  \E j \in 1..Len(del_gens') : from(j) = k
    OBVIOUS
  <2>1. CASE k < i
    <3>1. Len(del_gens') = Len(del_gens) - 1
      BY RemoveLater, Zenon
    <3>2. k \in 1..Len(del_gens') /\ from(k) = k
      BY <1>4, <2>1, <3>1
    <3> QED BY <3>2
  <2>2. CASE k > i
    <3>1. Len(del_gens') = Len(del_gens) - 1
      BY RemoveLater, Zenon
    <3>2. k - 1 \in 1..Len(del_gens') /\ from(k - 1) = k
      BY <1>4, <2>2, <3>1
    <3> QED BY <3>2
  <2> QED BY <1>4, <2>1, <2>2
<1> HIDE DEF from
<1>7. \A w : HasEntry(w)' => HasEntry(w)
  <2>1. \A w : (\E j \in 1..Len(del_gens') : del_gens'[j].version = w)
                 => \E k \in 1..Len(del_gens) : del_gens[k].version = w
    BY <1>5, Zenon
  <2> QED
    BY <1>1, <2>1, TailAdds, Zenon DEF HasEntry, InChannel
<1>8. ASSUME NEW w, HasEntry(w), w # n PROVE HasEntry(w)'
  <2>1. CASE \E k \in 1..Len(del_gens) : del_gens[k].version = w
    <3>1. PICK k \in 1..Len(del_gens) : del_gens[k].version = w
      BY <2>1, Zenon
    <3>2. k # i
      BY <1>8, <3>1, Zenon
    <3>3. PICK j \in 1..Len(del_gens') : from(j) = k
      BY <1>6, <3>2, Zenon
    <3>4. del_gens'[j].version = w
      BY <1>5, <3>1, <3>3, Zenon
    <3> QED BY <3>4 DEF HasEntry
  <2>2. CASE InChannel(w)
    BY <1>1, <2>2, TailAdds, Zenon DEF HasEntry, InChannel
  <2> QED BY <1>8, <2>1, <2>2 DEF HasEntry, InChannel
<1>9. ~HasEntry(n)'
  <2>1. \A j \in 1..Len(del_gens') : del_gens'[j].version # n
    <3>1. \A k \in 1..Len(del_gens) : k # i => del_gens[k].version # n
      BY <1>2, <1>4, ElementTypes
    <3> QED BY <1>5, <3>1, Zenon
  <2>2. \A j \in 1..Len(tags') : tags'[j].tag = "Add" => tags'[j].version # n
    BY <1>3, TailEffect, ElementTypes
  <2> QED BY <2>1, <2>2 DEF HasEntry
<1> DEFINE p == del_gens[i - 1].version
<1>10. \A u \in Nat : HasEntry(u) /\ u < n => u <= p
  <2> SUFFICES ASSUME NEW u \in Nat, HasEntry(u), u < n PROVE u <= p
    OBVIOUS
  <2>1. PICK k \in 1..Len(del_gens) : del_gens[k].version = u
    BY <1>3, ElementTypes DEF HasEntry
  <2>2. k <= i - 1
    BY <1>2, <2>1, ElementTypes
  <2>3. p \in Nat
    BY <1>4, ElementTypes, Zenon
  <2> QED
    BY <1>4, <2>1, <2>2, <2>3 DEF Sorted
<1>11. ASSUME NEW w, NEW g, Pending(w, g)'
       PROVE  \/ Pending(w, g)
              \/ w \in Nat /\ w < n /\ Pending(n, g) /\ w = p
  <2>1. CASE \E j \in 1..Len(tags') :
               tags'[j].tag = "Add" /\ tags'[j].version = w /\ g \in tags'[j].gens
    BY <2>1, TailEffect DEF Pending
  <2>2. CASE \E j \in 1..Len(del_gens') :
               del_gens'[j].version = w /\ g \in del_gens'[j].gens
    <3>1. PICK j \in 1..Len(del_gens') :
            del_gens'[j].version = w /\ g \in del_gens'[j].gens
      BY <2>2, Zenon
    <3>2. CASE j # i - 1
      BY <1>5, <3>1, <3>2, Zenon DEF Pending
    <3>3. CASE j = i - 1
      <4>1. w = p /\ w \in Nat /\ w < n
        <5>1. del_gens'[i - 1].version = del_gens[i - 1].version
          BY <1>4, RemoveLater, ElementTypes, Zenon DEF DelGens
        <5> QED
          BY <1>2, <1>4, <3>1, <3>3, <5>1, ElementTypes
      <4>2. g \in del_gens[i - 1].gens \/ g \in del_gens[i].gens
        <5>1. del_gens'[i - 1].gens = del_gens[i - 1].gens \cup del_gens[i].gens
          BY <1>4, RemoveLater, ElementTypes, Zenon DEF DelGens
        <5> QED
          BY <3>1, <3>3, <5>1, Zenon
      <4> QED
        BY <1>4, <4>1, <4>2, Zenon DEF Pending
    <3> QED BY <3>2, <3>3
  <2> QED BY <1>11, <2>1, <2>2 DEF Pending
<1>12. Sorted'
  <2>1. \A j, k \in 1..Len(del_gens') : j < k => from(j) < from(k)
    <3>1. ASSUME NEW j \in Nat, NEW k \in Nat, j < k PROVE from(j) < from(k)
      <4>1. i \in Nat
        BY <1>4
      <4> QED BY <3>1, <4>1 DEF from
    <3>2. \A j \in 1..Len(del_gens') : j \in Nat
      OBVIOUS
    <3> QED BY <3>1, <3>2
  <2>2. \A j, k \in 1..Len(del_gens') :
          j < k => del_gens'[j].version < del_gens'[k].version
    <3> SUFFICES ASSUME NEW j \in 1..Len(del_gens'), NEW k \in 1..Len(del_gens'), j < k
                 PROVE  del_gens'[j].version < del_gens'[k].version
      OBVIOUS
    <3>1. /\ from(j) \in 1..Len(del_gens) /\ del_gens'[j].version = del_gens[from(j)].version
          /\ from(k) \in 1..Len(del_gens) /\ del_gens'[k].version = del_gens[from(k)].version
      BY <1>5, Zenon
    <3>2. from(j) < from(k)
      BY <2>1, Zenon
    <3> QED BY <3>1, <3>2, Zenon DEF Sorted
  <2>3. \A j \in 1..Len(del_gens'), k \in 1..Len(tags') :
          tags'[k].tag = "Add" => del_gens'[j].version < tags'[k].version
    BY <1>5, TailEffect DEF Sorted
  <2>4. \A j, k \in 1..Len(tags') :
          j < k /\ tags'[j].tag = "Add" /\ tags'[k].tag = "Add"
            => tags'[j].version < tags'[k].version
    BY TailEffect DEF Sorted
  <2> QED BY <2>2, <2>3, <2>4, Zenon DEF Sorted
<1>13. ASSUME NEW w, NEW g, Pending(w, g) PROVE \E u : Pending(u, g)'
  <2>1. /\ i - 1 \in 1..Len(del_gens')
        /\ del_gens'[i - 1].gens = del_gens[i - 1].gens \cup del_gens[i].gens
    <3>1. del_gens[i - 1] \in DelGens
      BY <1>4, ElementTypes, Zenon
    <3> QED
      BY <3>1, RemoveLater, Zenon DEF DelGens
  <2>2. ASSUME NEW k \in 1..Len(del_gens), g \in del_gens[k].gens
        PROVE  \E j \in 1..Len(del_gens') : g \in del_gens'[j].gens
    <3>1. CASE k = i
      BY <2>1, <2>2, <3>1, Zenon
    <3>2. CASE k # i
      <4>1. PICK j \in 1..Len(del_gens') : from(j) = k
        BY <1>6, <3>2, Zenon
      <4>2. CASE j # i - 1
        BY <1>5, <2>2, <4>1, <4>2, Zenon
      <4>3. CASE j = i - 1
        <5>1. k = i - 1
          BY <4>1, <4>3 DEF from
        <5> QED
          BY <2>1, <2>2, <5>1, Zenon
      <4> QED BY <4>2, <4>3
    <3> QED BY <3>1, <3>2
  <2>3. CASE \E k \in 1..Len(del_gens) : del_gens[k].version = w /\ g \in del_gens[k].gens
    BY <2>2, <2>3, Zenon DEF Pending
  <2>4. CASE PendingInChannel(w, g)
    <3>1. PendingInChannel(w, g)'
      BY <1>1, <2>4, TailAdds, Zenon
    <3> QED
      BY <3>1, Zenon DEF Pending, PendingInChannel
  <2> QED BY <1>13, <2>3, <2>4, EntryInChannel, Zenon
<1> QED
  BY <1>7, <1>8, <1>9, <1>10, <1>11, <1>12, <1>13 DEF CleanStep
-----------------------------------------------------------------------------
LEMMA SendDropEffect ==
  ASSUME TypeOK, NEW n \in Nat, NEW b \in BOOLEAN, SendDrop(n, b),
         del_gens' = del_gens
  PROVE  /\ \A w : HasEntry(w)' <=> HasEntry(w)
         /\ \A w, g : Pending(w, g)' <=> Pending(w, g)
         /\ Len(tags) \in Nat
         /\ \A i \in 1..Len(tags) : i \in 1..Len(tags') /\ tags'[i] = tags[i]
         /\ \A i \in 1..Len(tags') :
              i \in 1..Len(tags) \/ (i = Len(tags) + 1 /\ tags'[i] = Clean(n) /\ ~b)
<1>1. CASE b
  <2>1. tags' = tags
    BY <1>1, Zenon DEF SendDrop
  <2> QED
    BY <2>1 DEF HasEntry, Pending, TypeOK
<1>2. CASE ~b
  <2>1. tags' = Append(tags, Clean(n)) /\ Clean(n) \in CleanTag
    BY <1>2, TagTypes, Zenon DEF SendDrop
  <2>2. Clean(n).tag # "Add"
    BY Zenon DEF Clean
  <2> QED
    BY <1>2, <2>1, <2>2, SendEffect
<1> QED
  BY <1>1, <1>2, Zenon

LEMMA OrderSend ==
  ASSUME TypeOK, OrderInv, NEW n \in Nat, NEW b \in BOOLEAN, SendDrop(n, b),
         UNCHANGED <<del_gens, files, cleaned>>, Newest' = Newest,
         gen' \in Nat, gen <= gen', closed' => applying' = 0
  PROVE  OrderInv'
<1>1. \A i \in 1..Len(tags') :
        i \in 1..Len(tags) \/ (tags'[i].tag # "Add" /\ tags'[i].gens = {})
  <2>1. Clean(n).tag # "Add" /\ Clean(n).gens = {}
    BY Zenon DEF Clean
  <2> QED
    BY <2>1, SendDropEffect, Zenon
<1>2. Sorted'
  BY <1>1, SendDropEffect, Zenon DEF OrderInv, Sorted
<1>3. Known'
  <2>1. \A g \in Nat : g < gen => g < gen'
    BY DEF TypeOK
  <2>2. \A i \in 1..Len(del_gens) : \A g \in del_gens[i].gens : g < gen'
    BY <2>1, ElementTypes, Zenon DEF OrderInv, Known
  <2>3. \A i \in 1..Len(tags') :
          /\ tags'[i].tag = "Add" => tags'[i].version \in 1..Newest
          /\ \A g \in tags'[i].gens : g < gen'
    BY <1>1, <2>1, SendDropEffect, ElementTypes, Zenon DEF OrderInv, Known
  <2>4. \A v \in 1..Newest : \A g \in files[v] : g < gen'
    BY <2>1, Zenon DEF OrderInv, Known, TypeOK
  <2>5. \A g \in cleaned : g < gen'
    BY <2>1, Zenon DEF OrderInv, Known, TypeOK
  <2> QED
    BY <2>2, <2>3, <2>4, <2>5, Zenon DEF OrderInv, Known
<1>4. NewestIntact'
  BY SendDropEffect, Zenon DEF OrderInv, NewestIntact
<1> QED
  BY <1>2, <1>3, <1>4, Zenon DEF OrderInv

LEMMA OrderApply ==
  ASSUME TypeOK, OrderInv, log_and_apply PROVE OrderInv'
<1>1. PICK n \in 1..MaxNew, del \in SUBSET files[current] :
        apply(gen..(gen + n - 1), del) /\ gen' = gen + n
  BY Zenon DEF log_and_apply
<1>2. /\ Newest = current /\ Newest' = current + 1 /\ current \in Nat \ {0}
      /\ applying = 0 /\ applying' = current + 1 /\ ~closed /\ closed' = closed
      /\ UNCHANGED <<current, del_gens, cleaned>>
  BY <1>1 DEF log_and_apply, apply, Newest, TypeOK, cleanerVars
<1>3. /\ files'[current + 1] = (files[current] \ del) \cup (gen..(gen + n - 1))
      /\ \A v \in 1..current : files'[v] = files[v] /\ files[v] \subseteq Nat
  BY <1>1, <1>2 DEF apply, TypeOK
<1>4. del \subseteq Nat /\ gen \in Nat /\ gen' \in Nat /\ gen < gen'
  <2>1. files[current] \subseteq Nat
    BY <1>2, <1>3
  <2>2. gen \in Nat /\ n \in Nat \ {0}
    BY CleanerConstants DEF TypeOK
  <2> QED
    BY <1>1, <2>1, <2>2
<1> DEFINE t == Add(current + 1, del)
<1>5. /\ t \in CleanTag /\ t.tag = "Add" /\ t.version = current + 1 /\ t.gens = del
      /\ tags' = Append(tags, t)
  BY <1>1, <1>2, <1>4 DEF apply, Add, CleanTag
<1> HIDE DEF t
<1>6. \A g \in Nat : g < gen => g < gen'
  BY <1>4
<1>7. \A i \in 1..Len(tags') : i \in 1..Len(tags) \/ (i = Len(tags) + 1 /\ tags'[i] = t)
  BY <1>2, <1>5, SendEffect
<1>8. \A i \in 1..Len(tags) : tags[i].tag = "Add" => tags[i].version < t.version
  BY <1>2, <1>5, ElementTypes DEF OrderInv, Known
<1>9. \A i \in 1..Len(del_gens) : del_gens[i].version < t.version
  BY <1>2, <1>5, ElementTypes DEF OrderInv, Known
<1>10. Sorted'
  <2>1. \A i, j \in 1..Len(tags') :
          i < j /\ tags'[i].tag = "Add" /\ tags'[j].tag = "Add"
            => tags'[i].version < tags'[j].version
    <3> SUFFICES ASSUME NEW i \in 1..Len(tags'), NEW j \in 1..Len(tags'), i < j,
                        tags'[i].tag = "Add", tags'[j].tag = "Add"
                 PROVE  tags'[i].version < tags'[j].version
      OBVIOUS
    <3>1. i \in 1..Len(tags) /\ tags'[i] = tags[i]
      BY <1>2, <1>5, SendEffect
    <3>2. CASE j \in 1..Len(tags)
      <4>1. tags'[j] = tags[j]
        BY <1>2, <1>5, <3>2, SendEffect, Zenon
      <4> QED BY <3>1, <3>2, <4>1 DEF OrderInv, Sorted
    <3>3. CASE tags'[j] = t
      BY <1>8, <3>1, <3>3, Zenon
    <3> QED BY <1>7, <3>2, <3>3
  <2>2. \A i \in 1..Len(del_gens), j \in 1..Len(tags') :
          tags'[j].tag = "Add" => del_gens[i].version < tags'[j].version
    BY <1>2, <1>5, <1>7, <1>9, SendEffect DEF OrderInv, Sorted
  <2> QED
    BY <1>2, <2>1, <2>2, Zenon DEF OrderInv, Sorted
<1>11. Known'
  <2>1. \A i \in 1..Len(del_gens) :
          del_gens[i].version \in 1..Newest' /\ \A g \in del_gens[i].gens : g < gen'
    BY <1>2, <1>6, ElementTypes DEF OrderInv, Known
  <2>2. \A g \in del : g < gen
    BY <1>2, <1>4 DEF OrderInv, Known
  <2>3. \A i \in 1..Len(tags') :
          /\ tags'[i].tag = "Add" => tags'[i].version \in 1..Newest'
          /\ \A g \in tags'[i].gens : g < gen'
    <3> SUFFICES ASSUME NEW i \in 1..Len(tags')
                 PROVE  /\ tags'[i].tag = "Add" => tags'[i].version \in 1..Newest'
                        /\ \A g \in tags'[i].gens : g < gen'
      OBVIOUS
    <3>1. CASE i \in 1..Len(tags)
      <4>1. tags'[i] = tags[i]
        BY <1>2, <1>5, <3>1, SendEffect, Zenon
      <4> QED
        BY <1>2, <1>6, <3>1, <4>1, ElementTypes DEF OrderInv, Known
    <3>2. CASE tags'[i] = t
      <4>1. \A g \in del : g < gen'
        BY <1>4, <1>6, <2>2, Zenon
      <4>2. tags'[i].version = Newest' /\ tags'[i].gens = del
        BY <1>2, <1>5, <3>2, Zenon
      <4> QED
        BY <1>2, <4>1, <4>2
    <3> QED BY <1>7, <3>1, <3>2
  <2>4. \A v \in 1..Newest' : \A g \in files'[v] : g < gen'
    <3>1. \A v \in 1..current : \A g \in files'[v] : g < gen'
      BY <1>2, <1>3, <1>6, Zenon DEF OrderInv, Known
    <3>2. \A g \in files'[current + 1] : g < gen'
      BY <1>1, <1>2, <1>3, <1>4, <1>6 DEF OrderInv, Known
    <3> QED BY <1>2, <3>1, <3>2
  <2>5. \A g \in cleaned' : g < gen'
    BY <1>2, <1>6, Zenon DEF OrderInv, Known, TypeOK
  <2> QED
    BY <1>2, <2>1, <2>3, <2>4, <2>5, Zenon DEF Known
<1>12. NewestIntact'
  <2> SUFFICES ASSUME NEW g \in files'[current + 1]
               PROVE  g \notin cleaned /\ \A w \in 1..(current + 1) : ~Pending(w, g)'
    BY <1>2, Zenon DEF NewestIntact
  <2>1. \A w : Pending(w, g)' => Pending(w, g) \/ g \in del
    BY <1>2, <1>5, SendEffect, Zenon
  <2>2. CASE g \in files[current] \ del
    <3>1. g \notin cleaned /\ \A w \in 1..current : ~Pending(w, g)
      BY <1>2, <2>2, Zenon DEF OrderInv, NewestIntact
    <3>2. ~Pending(current + 1, g)
      BY <1>2, ElementTypes DEF Pending, OrderInv, Known
    <3> QED
      BY <1>2, <2>1, <2>2, <3>1, <3>2
  <2>3. CASE g \in gen..(gen + n - 1)
    <3>1. g \in Nat /\ ~(g < gen)
      BY <1>4, <2>3
    <3>2. g \notin cleaned /\ g \notin files[current]
      BY <1>2, <3>1 DEF OrderInv, Known
    <3>3. \A w : ~Pending(w, g)
      BY <3>1, Zenon DEF OrderInv, Known, Pending
    <3> QED
      BY <2>1, <3>2, <3>3, Zenon
  <2> QED
    BY <1>3, <2>2, <2>3, Zenon
<1> QED
  BY <1>2, <1>10, <1>11, <1>12, Zenon DEF OrderInv

LEMMA OrderListenAdd ==
  ASSUME TypeOK, OrderInv, ListenAdd PROVE OrderInv'
<1> DEFINE t == Head(tags)
<1>1. /\ tags # <<>> /\ t.tag = "Add" /\ tags' = Tail(tags)
      /\ del_gens' = Append(del_gens, [version |-> t.version, gens |-> t.gens])
      /\ UNCHANGED <<cleaned, files, gen, closed, applying, current>>
  BY Zenon DEF ListenAdd, statusVars
<1> HIDE DEF t
<1>2. t = Head(tags)
  BY Zenon DEF t
<1>3. Newest' = Newest
  BY <1>1, Zenon DEF Newest
<1>4. /\ t = tags[1] /\ 1 \in 1..Len(tags)
      /\ \A i \in 1..Len(tags') : i + 1 \in 1..Len(tags) /\ tags'[i] = tags[i + 1]
  BY <1>1, <1>2, TailEffect, Zenon
<1>5. \A i \in 1..Len(del_gens') :
        \/ i \in 1..Len(del_gens) /\ del_gens'[i] = del_gens[i]
        \/ /\ i = Len(del_gens) + 1
           /\ del_gens'[i].version = t.version /\ del_gens'[i].gens = t.gens
  BY <1>1, <1>2, AddEffect
<1>6. Sorted'
  <2>1. \A i, j \in 1..Len(del_gens') :
          i < j => del_gens'[i].version < del_gens'[j].version
    <3> SUFFICES ASSUME NEW i \in 1..Len(del_gens'), NEW j \in 1..Len(del_gens'), i < j
                 PROVE  del_gens'[i].version < del_gens'[j].version
      OBVIOUS
    <3>1. i \in 1..Len(del_gens) /\ del_gens'[i] = del_gens[i]
      BY <1>1, <1>2, AddEffect
    <3>2. CASE j \in 1..Len(del_gens) /\ del_gens'[j] = del_gens[j]
      BY <3>1, <3>2, Zenon DEF OrderInv, Sorted
    <3>3. CASE del_gens'[j].version = t.version
      BY <1>1, <1>4, <3>1, <3>3, Zenon DEF OrderInv, Sorted
    <3> QED BY <1>5, <3>2, <3>3
  <2>2. \A i \in 1..Len(del_gens'), j \in 1..Len(tags') :
          tags'[j].tag = "Add" => del_gens'[i].version < tags'[j].version
    BY <1>1, <1>4, <1>5 DEF OrderInv, Sorted
  <2>3. \A i, j \in 1..Len(tags') :
          i < j /\ tags'[i].tag = "Add" /\ tags'[j].tag = "Add"
            => tags'[i].version < tags'[j].version
    <3>1. \A i, j \in 1..Len(tags') : i < j => i + 1 < j + 1
      OBVIOUS
    <3> QED
      BY <1>4, <3>1, Zenon DEF OrderInv, Sorted
  <2> QED BY <2>1, <2>2, <2>3 DEF Sorted
<1>7. Known'
  BY <1>1, <1>3, <1>4, <1>5 DEF OrderInv, Known
<1>8. NewestIntact'
  BY <1>1, <1>2, <1>3, AddEffect, Zenon DEF OrderInv, NewestIntact
<1> QED
  BY <1>1, <1>6, <1>7, <1>8, Zenon DEF OrderInv

LEMMA CleanEffect ==
  ASSUME TypeOK, Sorted, ListenClean
  PROVE  \E n \in Nat : n = Head(tags).version /\ CleanStep(n)
<1>1. tags # <<>> /\ tags' = Tail(tags) /\ Head(tags).tag = "Clean"
  BY Zenon DEF ListenClean
<1>2. PICK n \in Nat : n = Head(tags).version
  BY <1>1, TailEffect, ElementTypes, Zenon
<1>7. Head(tags).tag # "Add" /\ clean(n)
  BY <1>1, <1>2, Zenon DEF ListenClean
<1>3. ASSUME find_index_with_ver_num(n) = {}, del_gens' = del_gens, cleaned' = cleaned
      PROVE  CleanStep(n)
  BY <1>1, <1>7, <1>3, CleanNothing, Zenon
<1>4. ASSUME NEW i \in find_index_with_ver_num(n), i = 1,
             del_gens' = Tail(del_gens), cleaned' = cleaned \cup del_gens[1].gens
      PROVE  CleanStep(n)
  <2>1. 1 \in 1..Len(del_gens) /\ del_gens[1].version = n
    BY <1>4, Zenon DEF find_index_with_ver_num
  <2> QED
    BY <1>1, <1>7, <1>4, <2>1, CleanFirst, Zenon
<1>5. ASSUME NEW i \in find_index_with_ver_num(n), i > 1,
             del_gens' = HandOver(i), cleaned' = cleaned
      PROVE  CleanStep(n)
  <2>1. i \in 1..Len(del_gens) /\ del_gens[i].version = n
    BY Zenon DEF find_index_with_ver_num
  <2> QED
    BY <1>1, <1>7, <1>5, <2>1, CleanLater, Zenon
<1>6. CleanStep(n)
  BY <1>7, <1>3, <1>4, <1>5, Zenon DEF clean
<1> QED
  BY <1>2, <1>6, Zenon

LEMMA OrderListenClean ==
  ASSUME TypeOK, TypeOK', OrderInv, ListenClean PROVE OrderInv'
<1>1. /\ tags # <<>> /\ tags' = Tail(tags)
      /\ UNCHANGED <<files, gen, closed, applying, current>>
  BY Zenon DEF ListenClean, statusVars
<1>2. PICK n \in Nat : CleanStep(n)
  BY CleanEffect, Zenon DEF OrderInv
<1>3. Newest' = Newest
  BY <1>1, Zenon DEF Newest
<1>4. \A w : HasEntry(w) => w \in 1..Newest
  BY Zenon DEF HasEntry, OrderInv, Known
<1>5. \A w, g : Pending(w, g) => g < gen /\ w \in 1..Newest
  BY Zenon DEF Pending, OrderInv, Known
<1>6. ASSUME NEW w, NEW g, Pending(w, g)' PROVE g < gen /\ \E u : Pending(u, g)
  BY <1>2, <1>5, <1>6, Zenon DEF CleanStep
<1>7. Known'
  <2>1. ASSUME NEW i \in 1..Len(del_gens'), NEW w, w = del_gens'[i].version
        PROVE  w \in 1..Newest
    <3>1. HasEntry(w)'
      BY <2>1, Zenon DEF HasEntry
    <3> QED BY <1>2, <1>4, <3>1 DEF CleanStep
  <2>2. ASSUME NEW i \in 1..Len(del_gens'), NEW g \in del_gens'[i].gens,
               NEW w, w = del_gens'[i].version
        PROVE  g < gen
    <3>1. Pending(w, g)'
      BY <2>2, Zenon DEF Pending
    <3> QED BY <1>6, <3>1
  <2>3. \A i \in 1..Len(tags') :
          /\ tags'[i].tag = "Add" => tags'[i].version \in 1..Newest
          /\ \A g \in tags'[i].gens : g < gen
    BY <1>1, TailEffect DEF OrderInv, Known
  <2>4. \A g \in cleaned' : g < gen
    BY <1>2, <1>5, Zenon DEF CleanStep, OrderInv, Known
  <2> QED
    BY <1>1, <1>3, <2>1, <2>2, <2>3, <2>4, Zenon DEF OrderInv, Known
<1>8. NewestIntact'
  <2> SUFFICES ASSUME NEW g \in files[Newest]
               PROVE  g \notin cleaned' /\ \A w \in 1..Newest : ~Pending(w, g)'
    BY <1>1, <1>3, Zenon DEF NewestIntact
  <2>1. g \notin cleaned /\ \A w : ~Pending(w, g)
    BY <1>5, Zenon DEF OrderInv, NewestIntact
  <2> QED
    BY <1>2, <1>6, <2>1, Zenon DEF CleanStep
<1> QED
  BY <1>1, <1>2, <1>7, <1>8, Zenon DEF CleanStep, OrderInv

LEMMA OrderListenNone ==
  ASSUME TypeOK, OrderInv, ListenNone PROVE OrderInv'
<1>1. /\ tags = <<>> /\ tags' = <<>> /\ del_gens' = <<>>
      /\ UNCHANGED <<files, gen, closed, applying, current>>
  BY Zenon DEF ListenNone, statusVars
<1>2. \A g \in cleaned' :
        g \in cleaned \/ \E i \in 1..Len(del_gens) : g \in del_gens[i].gens
  BY Zenon DEF ListenNone
<1>3. Newest' = Newest
  BY <1>1, Zenon DEF Newest
<1>4. \A w, g : ~Pending(w, g)'
  BY <1>1 DEF Pending
<1>5. Sorted'
  BY <1>1 DEF Sorted
<1>6. Known'
  BY <1>1, <1>2, <1>3 DEF OrderInv, Known
<1>7. \A i \in 1..Len(del_gens) : \A g \in del_gens[i].gens : \E w \in 1..Newest : Pending(w, g)
  BY Zenon DEF Pending, OrderInv, Known
<1>8. NewestIntact'
  BY <1>1, <1>2, <1>3, <1>4, <1>7, Zenon DEF OrderInv, NewestIntact
<1> QED
  BY <1>1, <1>5, <1>6, <1>8, Zenon DEF OrderInv

LEMMA OrderStep ==
  ASSUME TypeOK, TypeOK', OrderInv, [Next]_vars PROVE OrderInv'
<1>1. ASSUME NEW r \in Readers, Acquire(r) PROVE OrderInv'
  <2>1. /\ SendDrop(0, TRUE) /\ UNCHANGED <<del_gens, files, cleaned>>
        /\ Newest' = Newest /\ gen' \in Nat /\ gen <= gen' /\ (closed' => applying' = 0)
    BY <1>1 DEF Acquire, SendDrop, statusVars, cleanerVars, Newest, OrderInv, TypeOK
  <2> QED BY <2>1, OrderSend, Zenon
<1>2. ASSUME NEW r \in Readers, Release(r) PROVE OrderInv'
  <2>1. /\ UNCHANGED <<del_gens, files, cleaned>>
        /\ Newest' = Newest /\ gen' \in Nat /\ gen <= gen' /\ (closed' => applying' = 0)
        /\ held[r] \in Nat
    BY <1>2 DEF Release, statusVars, cleanerVars, Newest, OrderInv, TypeOK
  <2>2. PICK n \in Nat, b \in BOOLEAN : SendDrop(n, b)
    BY <1>2, <2>1, Zenon DEF Release
  <2> QED BY <2>1, <2>2, OrderSend
<1>3. CASE log_and_apply
  BY <1>3, OrderApply, Zenon
<1>4. CASE Publish
  <2>1. /\ UNCHANGED <<del_gens, files, cleaned>>
        /\ Newest' = Newest /\ gen' \in Nat /\ gen <= gen' /\ applying' = 0
        /\ current \in Nat
    BY <1>4 DEF Publish, cleanerVars, Newest, TypeOK
  <2>2. PICK n \in Nat, b \in BOOLEAN : SendDrop(n, b)
    BY <1>4, <2>1, Zenon DEF Publish
  <2> QED BY <2>1, <2>2, OrderSend
<1>5. CASE LogFails
  <2>1. /\ UNCHANGED <<del_gens, files, cleaned>>
        /\ Newest' = Newest /\ (closed' => applying' = 0)
        /\ current \in Nat
    BY <1>5, Zenon DEF LogFails, cleanerVars, Newest, TypeOK
  <2>2. gen' \in Nat /\ gen <= gen'
    BY <1>5, CleanerConstants DEF LogFails, TypeOK
  <2>3. PICK n \in Nat, b \in BOOLEAN : SendDrop(n, b)
    BY <1>5, <2>1, Zenon DEF LogFails
  <2> QED BY <2>1, <2>2, <2>3, OrderSend
<1>6. CASE Close
  <2>1. /\ UNCHANGED <<del_gens, files, cleaned>>
        /\ Newest' = Newest /\ gen' \in Nat /\ gen <= gen' /\ applying' = 0
        /\ current \in Nat
    BY <1>6 DEF Close, cleanerVars, Newest, TypeOK
  <2>2. PICK n \in Nat, b \in BOOLEAN : SendDrop(n, b)
    BY <1>6, <2>1, Zenon DEF Close
  <2> QED BY <2>1, <2>2, OrderSend
<1>7. CASE Listen
  BY <1>7, OrderListenAdd, OrderListenClean, OrderListenNone, Zenon DEF Listen
<1>8. CASE UNCHANGED vars
  <2>1. /\ SendDrop(0, TRUE) /\ UNCHANGED <<del_gens, files, cleaned>>
        /\ Newest' = Newest /\ gen' \in Nat /\ gen <= gen' /\ (closed' => applying' = 0)
    BY <1>8 DEF vars, SendDrop, Newest, OrderInv, TypeOK
  <2> QED BY <2>1, OrderSend, Zenon
<1> QED
  BY <1>1, <1>2, <1>3, <1>4, <1>5, <1>6, <1>7, <1>8, Zenon DEF Next

LEMMA OrderInit == Init => OrderInv
<1> SUFFICES ASSUME Init PROVE OrderInv
  OBVIOUS
<1>1. PICK live \in SUBSET (1..InitGen) :
        /\ files = [n \in {1} |-> live]
        /\ tags = <<Add(1, (1..InitGen) \ live)>>
  BY Zenon DEF Init, load_from_log
<1>2. /\ del_gens = <<>> /\ cleaned = {} /\ closed = FALSE /\ Newest = 1
      /\ gen = InitGen + 1
  BY Zenon DEF Init, load_from_log, Newest
<1>3. /\ Len(tags) = 1 /\ tags[1].tag = "Add" /\ tags[1].version = 1
      /\ tags[1].gens = (1..InitGen) \ live
  BY <1>1, Zenon DEF Add
<1>4. Len(del_gens) = 0 /\ 1..0 = {} /\ 1..1 = {1}
  BY <1>2
<1>5. Sorted
  BY <1>3, <1>4, Zenon DEF Sorted
<1>6. \A g \in 1..InitGen : g < gen
  BY <1>2, CleanerConstants
<1>7. Known
  BY <1>1, <1>2, <1>3, <1>4, <1>6, Zenon DEF Known
<1>8. NewestIntact
  <2>1. files[Newest] = live
    BY <1>1, <1>2, Zenon
  <2>2. \A w : \A g \in live : ~Pending(w, g)
    BY <1>3, <1>4, Zenon DEF Pending
  <2> QED
    BY <1>2, <2>1, <2>2, Zenon DEF NewestIntact
<1> QED
  BY <1>2, <1>5, <1>7, <1>8, Zenon DEF OrderInv

(***************************************************************************)
(* No table of the newest version is ever removed or waiting to be         *)
(* removed, whatever fails: applying edits and cleaning cannot take away   *)
(* what the next reader is going to see.                                   *)
(***************************************************************************)
THEOREM NewestStaysIntact == Spec => []NewestIntact
<1>1. Init => TypeOK /\ OrderInv
  BY TypeInit, OrderInit, Zenon
<1>2. TypeOK /\ OrderInv /\ [Next]_vars => (TypeOK /\ OrderInv)'
  BY TypeStep, OrderStep, Zenon
<1>3. OrderInv => NewestIntact
  BY Zenon DEF OrderInv
<1> QED
  BY <1>1, <1>2, <1>3, PTL DEF Spec
-----------------------------------------------------------------------------
(***************************************************************************)
(* Preservation of SafeInv.  Acquiring, releasing, publishing and closing  *)
(* only change who holds what, and may send one Clean tag.                 *)
(***************************************************************************)
LEMMA SafeSend ==
  ASSUME TypeOK, TypeOK', CleanTags, HeldHasEntry, Kept,
         NEW n \in 1..Newest, NEW b \in BOOLEAN, SendDrop(n, b),
         ~b => Alive(n) /\ ~Alive(n)' /\ n <= current',
         UNCHANGED <<del_gens, files, cleaned>>, Newest' = Newest,
         current <= current',
         \A v \in 1..Newest :
           (Alive(v) \/ v = applying)' => Alive(v) \/ v = applying
  PROVE  CleanTags' /\ HeldHasEntry' /\ Kept'
<1>1. n \in Nat /\ Newest \in Nat /\ current \in Nat /\ current' \in Nat /\ current <= Newest
  BY DEF TypeOK, Newest
<1>2. HeldHasEntry'
  BY <1>1, SendDropEffect, Zenon DEF HeldHasEntry
<1>3. Kept'
  BY <1>1, SendDropEffect, Zenon DEF Kept
<1>4. Clean(n).tag = "Clean" /\ Clean(n).version = n
  BY Zenon DEF Clean
<1>5. ASSUME NEW v, NEW i \in 1..Len(tags'), tags'[i].tag = "Clean",
             v = tags'[i].version
      PROVE  /\ v \in 1..current' /\ ~Alive(v)' /\ HasEntry(v)'
             /\ \A j \in 1..Len(tags') :
                  tags'[j].version = v /\ j # i => tags'[j].tag = "Add" /\ j < i
  <2>1. CASE i \in 1..Len(tags)
    <3>1. tags'[i] = tags[i]
      BY <1>1, <2>1, SendDropEffect, Zenon
    <3>2. /\ v \in 1..current /\ ~Alive(v) /\ HasEntry(v)
          /\ \A j \in 1..Len(tags) :
               tags[j].version = v /\ j # i => tags[j].tag = "Add" /\ j < i
      BY <1>5, <2>1, <3>1, Zenon DEF CleanTags
    <3>3. v # applying /\ v \in 1..Newest
      BY <1>1, <3>2 DEF TypeOK
    <3>4. v \in 1..current' /\ ~Alive(v)' /\ HasEntry(v)'
      BY <1>1, <3>2, <3>3, SendDropEffect
    <3>5. ASSUME NEW j \in 1..Len(tags'), tags'[j].version = v, j # i
          PROVE  tags'[j].tag = "Add" /\ j < i
      <4>1. CASE j \in 1..Len(tags)
        BY <1>1, <3>2, <3>5, <4>1, SendDropEffect, Zenon
      <4>2. CASE tags'[j] = Clean(n) /\ ~b
        BY <1>4, <3>2, <3>5, <4>2, Zenon
      <4> QED BY <1>1, <4>1, <4>2, SendDropEffect
    <3> QED BY <3>4, <3>5
  <2>2. CASE i = Len(tags) + 1 /\ tags'[i] = Clean(n) /\ ~b
    <3>1. v = n /\ Alive(n) /\ ~Alive(n)' /\ n \in 1..current'
      BY <1>1, <1>4, <1>5, <2>2
    <3>2. HasEntry(v)'
      BY <1>1, <3>1, SendDropEffect, Zenon DEF HeldHasEntry
    <3>3. ASSUME NEW j \in 1..Len(tags'), tags'[j].version = v, j # i
          PROVE  tags'[j].tag = "Add" /\ j < i
      <4>1. j \in 1..Len(tags) /\ tags'[j] = tags[j] /\ j < i
        BY <1>1, <2>2, <3>3, SendDropEffect
      <4>2. tags[j].tag # "Clean"
        BY <3>1, <3>3, <4>1, Zenon DEF CleanTags
      <4>3. tags[j].tag \in {"Add", "Clean"}
        BY <4>1, ElementTypes, Zenon DEF CleanTag
      <4> QED BY <4>1, <4>2, <4>3
    <3> QED BY <3>1, <3>2, <3>3
  <2> QED BY <1>1, <2>1, <2>2, SendDropEffect
<1>6. CleanTags'
  BY <1>5, Zenon DEF CleanTags
<1> QED
  BY <1>2, <1>3, <1>6, Zenon

LEMMA SafeApply ==
  ASSUME TypeOK, OrderInv, OrderInv', CleanTags, HeldHasEntry, Kept, log_and_apply
  PROVE  CleanTags' /\ HeldHasEntry' /\ Kept'
<1>1. PICK n \in 1..MaxNew, del \in SUBSET files[current] :
        apply(gen..(gen + n - 1), del) /\ gen' = gen + n
  BY Zenon DEF log_and_apply
<1>2. /\ Newest = current /\ Newest' = current + 1 /\ current \in Nat \ {0}
      /\ applying = 0 /\ applying' = current + 1
      /\ UNCHANGED <<current, closed, held, del_gens, cleaned>>
  BY <1>1 DEF log_and_apply, apply, Newest, TypeOK, cleanerVars
<1>3. \A v \in 1..current : files'[v] = files[v] /\ files[v] \subseteq Nat
  BY <1>1, <1>2 DEF apply, TypeOK
<1>4. \A v : Alive(v)' <=> Alive(v)
  BY <1>2, Zenon DEF Alive
<1> DEFINE t == Add(current + 1, del)
<1>5. /\ t \in CleanTag /\ t.tag = "Add" /\ t.version = current + 1
      /\ tags' = Append(tags, t)
  <2>1. del \in SUBSET Nat
    BY <1>2, <1>3
  <2> QED
    BY <1>1, <1>2, <2>1 DEF apply, Add, CleanTag
<1> HIDE DEF t
<1>6. \A v : HasEntry(v)' <=> HasEntry(v) \/ v = current + 1
  BY <1>2, <1>5, SendEffect, Zenon
<1>7. \A w, g : Pending(w, g)' => Pending(w, g) \/ w = current + 1
  BY <1>2, <1>5, SendEffect, Zenon
<1>8. HeldHasEntry'
  BY <1>2, <1>4, <1>6 DEF HeldHasEntry
<1>9. Kept'
  <2> SUFFICES ASSUME NEW v \in 1..(current + 1), HasEntry(v)', NEW g \in files'[v],
                      NEW w \in 1..(current + 1), g \in cleaned \/ Pending(w, g)'
               PROVE  g \notin cleaned /\ v <= w
    BY <1>2, Zenon DEF Kept
  <2>1. CASE v = current + 1
    BY <1>2, <2>1, Zenon DEF OrderInv, NewestIntact
  <2>2. CASE v \in 1..current
    <3>1. HasEntry(v) /\ g \in files[v]
      BY <1>2, <1>3, <1>6, <2>2
    <3>2. g \notin cleaned /\ \A u \in 1..current : Pending(u, g) => v <= u
      BY <1>2, <2>2, <3>1, Zenon DEF Kept
    <3>3. CASE w = current + 1
      BY <1>2, <2>2, <3>2, <3>3
    <3>4. CASE w \in 1..current /\ w # current + 1
      BY <1>7, <3>2, <3>4, Zenon
    <3> QED BY <1>2, <3>3, <3>4
  <2> QED BY <1>2, <2>1, <2>2
<1>10. ASSUME NEW v, NEW i \in 1..Len(tags'), tags'[i].tag = "Clean",
              v = tags'[i].version
       PROVE  /\ v \in 1..current /\ ~Alive(v)' /\ HasEntry(v)'
              /\ \A j \in 1..Len(tags') :
                   tags'[j].version = v /\ j # i => tags'[j].tag = "Add" /\ j < i
  <2> DEFINE old(k) == k \in 1..Len(tags) /\ tags'[k] = tags[k]
  <2>0. \A k \in 1..Len(tags') : old(k) \/ tags'[k] = t
    <3>1. /\ Len(tags) \in Nat /\ Len(tags') = Len(tags) + 1
          /\ \A k \in 1..Len(tags) : tags'[k] = tags[k]
          /\ tags'[Len(tags) + 1] = t
      BY <1>2, <1>5, SendEffect, Zenon
    <3> QED BY <3>1
  <2>1. old(i)
    BY <1>5, <1>10, <2>0, Zenon
  <2>2. /\ v \in 1..current /\ ~Alive(v) /\ HasEntry(v)
        /\ \A j \in 1..Len(tags) :
             tags[j].version = v /\ j # i => tags[j].tag = "Add" /\ j < i
    BY <1>10, <2>1, Zenon DEF CleanTags
  <2>3. ASSUME NEW j \in 1..Len(tags'), tags'[j].version = v, j # i
        PROVE  tags'[j].tag = "Add" /\ j < i
    <3>1. old(j)
      <4>1. v # current + 1
        BY <1>2, <2>2
      <4> QED BY <1>5, <2>0, <2>3, <4>1
    <3> QED BY <2>2, <2>3, <3>1
  <2> QED
    BY <1>4, <1>6, <2>2, <2>3, Zenon
<1>11. CleanTags'
  BY <1>2, <1>10, Zenon DEF CleanTags
<1> QED
  BY <1>8, <1>9, <1>11, Zenon

LEMMA SafeListenAdd ==
  ASSUME TypeOK, CleanTags, HeldHasEntry, Kept, ListenAdd
  PROVE  CleanTags' /\ HeldHasEntry' /\ Kept'
<1> DEFINE t == Head(tags)
<1>1. /\ tags # <<>> /\ t.tag = "Add" /\ tags' = Tail(tags)
      /\ del_gens' = Append(del_gens, [version |-> t.version, gens |-> t.gens])
      /\ UNCHANGED <<cleaned, files, closed, applying, current, held>>
  BY Zenon DEF ListenAdd, statusVars
<1> HIDE DEF t
<1>2. t = Head(tags)
  BY Zenon DEF t
<1>3. Newest' = Newest /\ \A v : Alive(v)' <=> Alive(v)
  BY <1>1, Zenon DEF Newest, Alive
<1>4. /\ \A w : HasEntry(w)' <=> HasEntry(w)
      /\ \A w, g : Pending(w, g)' <=> Pending(w, g)
  BY <1>1, <1>2, AddEffect, Zenon
<1>5. HeldHasEntry' /\ Kept'
  BY <1>1, <1>3, <1>4, Zenon DEF HeldHasEntry, Kept
<1>6. ASSUME NEW v, NEW i \in 1..Len(tags'), tags'[i].tag = "Clean",
             v = tags'[i].version
      PROVE  /\ v \in 1..current /\ ~Alive(v)' /\ HasEntry(v)'
             /\ \A j \in 1..Len(tags') :
                  tags'[j].version = v /\ j # i => tags'[j].tag = "Add" /\ j < i
  <2>1. /\ i + 1 \in 1..Len(tags) /\ tags'[i] = tags[i + 1]
        /\ \A j \in 1..Len(tags') : j + 1 \in 1..Len(tags) /\ tags'[j] = tags[j + 1]
    BY <1>1, TailEffect, Zenon
  <2>2. /\ v \in 1..current /\ ~Alive(v) /\ HasEntry(v)
        /\ \A j \in 1..Len(tags) :
             tags[j].version = v /\ j # i + 1 => tags[j].tag = "Add" /\ j < i + 1
    BY <1>6, <2>1, Zenon DEF CleanTags
  <2>3. ASSUME NEW j \in 1..Len(tags'), tags'[j].version = v, j # i
        PROVE  tags'[j].tag = "Add" /\ j < i
    <3>1. j + 1 # i + 1 /\ (j + 1 < i + 1 => j < i)
      BY <2>3
    <3> QED BY <2>1, <2>2, <2>3, <3>1
  <2> QED
    BY <1>3, <1>4, <2>2, <2>3, Zenon
<1>7. CleanTags'
  BY <1>1, <1>6 DEF CleanTags
<1> QED
  BY <1>5, <1>7, Zenon

LEMMA SafeListenClean ==
  ASSUME TypeOK, OrderInv, CleanTags, HeldHasEntry, Kept, ListenClean
  PROVE  CleanTags' /\ HeldHasEntry' /\ Kept'
<1>1. /\ tags # <<>> /\ tags' = Tail(tags) /\ Head(tags).tag = "Clean"
      /\ UNCHANGED <<files, closed, applying, current, held>>
  BY Zenon DEF ListenClean, statusVars
<1>2. PICK n \in Nat : n = Head(tags).version /\ CleanStep(n)
  BY CleanEffect, Zenon DEF OrderInv
<1>3. Newest' = Newest /\ \A v : Alive(v)' <=> Alive(v)
  BY <1>1, Zenon DEF Newest, Alive
<1>4. /\ n \in 1..current /\ ~Alive(n) /\ HasEntry(n)
      /\ \A j \in 1..Len(tags) : tags[j].version = n /\ j # 1 => FALSE
  <2>1. tags[1] = Head(tags) /\ 1 \in 1..Len(tags)
    BY <1>1, TailEffect, Zenon
  <2>2. \A j \in 1..Len(tags) : ~(j < 1)
    OBVIOUS
  <2> QED
    BY <1>1, <1>2, <2>1, <2>2, Zenon DEF CleanTags
<1>5. ~HasEntry(n)'
  <2>1. tags[1].tag # "Add"
    BY <1>1, TailEffect, Zenon
  <2>2. \A j \in 1..Len(tags) : tags[j].tag = "Add" => tags[j].version # n
    BY <1>4, <2>1, Zenon
  <2> QED
    BY <1>2, <2>2, Zenon DEF CleanStep
<1>6. n # applying /\ n \in 1..Newest
  BY <1>4 DEF TypeOK, Newest
<1>7. HeldHasEntry'
  BY <1>1, <1>2, <1>3, <1>4, <1>6, Zenon DEF HeldHasEntry, CleanStep
<1>8. Kept'
  <2> SUFFICES ASSUME NEW v \in 1..Newest, HasEntry(v)', NEW g \in files[v]
               PROVE  g \notin cleaned' /\ \A w \in 1..Newest : Pending(w, g)' => v <= w
    BY <1>1, <1>3, Zenon DEF Kept
  <2>1. HasEntry(v) /\ v # n /\ v \in Nat
    BY <1>2, <1>5 DEF CleanStep, TypeOK, Newest
  <2>2. g \notin cleaned /\ \A w \in 1..Newest : Pending(w, g) => v <= w
    BY <2>1, Zenon DEF Kept
  <2>3. ASSUME Pending(n, g) PROVE v < n
    BY <1>2, <1>6, <2>1, <2>2, <2>3
  <2>4. g \notin cleaned'
    BY <1>2, <2>1, <2>2, <2>3 DEF CleanStep
  <2>5. ASSUME NEW w \in 1..Newest, Pending(w, g)' PROVE v <= w
    <3>1. CASE Pending(w, g)
      BY <2>2, <3>1, Zenon
    <3>2. CASE Pending(n, g) /\ \A u \in Nat : HasEntry(u) /\ u < n => u <= w
      BY <2>1, <2>3, <3>2, Zenon
    <3> QED BY <1>2, <2>5, <3>1, <3>2 DEF CleanStep
  <2> QED BY <2>4, <2>5
<1>9. ASSUME NEW v, NEW i \in 1..Len(tags'), tags'[i].tag = "Clean",
             v = tags'[i].version
      PROVE  /\ v \in 1..current /\ ~Alive(v)' /\ HasEntry(v)'
             /\ \A j \in 1..Len(tags') :
                  tags'[j].version = v /\ j # i => tags'[j].tag = "Add" /\ j < i
  <2>1. /\ i + 1 \in 1..Len(tags) /\ tags'[i] = tags[i + 1] /\ i + 1 # 1
        /\ \A j \in 1..Len(tags') : j + 1 \in 1..Len(tags) /\ tags'[j] = tags[j + 1]
    BY <1>1, TailEffect
  <2>2. /\ v \in 1..current /\ ~Alive(v) /\ HasEntry(v)
        /\ \A j \in 1..Len(tags) :
             tags[j].version = v /\ j # i + 1 => tags[j].tag = "Add" /\ j < i + 1
    BY <1>9, <2>1, Zenon DEF CleanTags
  <2>3. v # n
    BY <1>4, <1>9, <2>1, Zenon
  <2>4. HasEntry(v)'
    BY <1>2, <2>2, <2>3, Zenon DEF CleanStep
  <2>5. ASSUME NEW j \in 1..Len(tags'), tags'[j].version = v, j # i
        PROVE  tags'[j].tag = "Add" /\ j < i
    <3>1. j + 1 # i + 1 /\ (j + 1 < i + 1 => j < i)
      BY <2>5
    <3> QED BY <2>1, <2>2, <2>5, <3>1
  <2> QED
    BY <1>3, <2>2, <2>4, <2>5, Zenon
<1>10. CleanTags'
  BY <1>1, <1>9 DEF CleanTags
<1> QED
  BY <1>7, <1>8, <1>10, Zenon

LEMMA SafeListenNone ==
  ASSUME TypeOK, OrderInv, ListenNone
  PROVE  CleanTags' /\ HeldHasEntry' /\ Kept'
<1>1. /\ closed /\ closed' = closed /\ tags' = <<>> /\ del_gens' = <<>>
      /\ applying = 0 /\ applying' = 0 /\ held' = held /\ current' = current
      /\ \A r \in Readers : held[r] = 0
  BY Zenon DEF ListenNone, statusVars, OrderInv
<1>2. \A w : ~HasEntry(w)'
  BY <1>1 DEF HasEntry
<1>3. \A v : v # 0 => ~Alive(v)'
  BY <1>1, Zenon DEF Alive
<1> QED
  BY <1>1, <1>2, <1>3 DEF CleanTags, HeldHasEntry, Kept

LEMMA SafeStep ==
  ASSUME TypeOK, TypeOK', OrderInv, OrderInv', SafeInv, [Next]_vars
  PROVE  SafeInv'
<1> SUFFICES ASSUME failures' = 0 PROVE CleanTags' /\ HeldHasEntry' /\ Kept'
  BY Zenon DEF SafeInv
<1>1. failures = 0 /\ ~LogFails
  <2>1. ASSUME LogFails PROVE FALSE
    <3>1. failures' = failures + 1 /\ failures \in Nat
      BY <2>1, Zenon DEF LogFails, TypeOK
    <3> QED BY <3>1
  <2>2. ~LogFails /\ [Next]_vars => failures' = failures
    BY Zenon DEF Next, Listen, Acquire, Release, log_and_apply, Publish, Close,
       ListenAdd, ListenClean, ListenNone, statusVars, vars
  <2> QED BY <2>1, <2>2
<1>2. CleanTags /\ HeldHasEntry /\ Kept
  BY <1>1, Zenon DEF SafeInv
<1>3. /\ current \in Nat \ {0} /\ current \in 1..Newest /\ Newest \in Nat
      /\ 1 \in 1..Newest /\ current <= current
  BY DEF TypeOK, Newest
<1>4. ASSUME NEW r \in Readers, Acquire(r)
      PROVE  CleanTags' /\ HeldHasEntry' /\ Kept'
  <2>1. /\ UNCHANGED <<del_gens, files, cleaned, current, closed, applying>>
        /\ SendDrop(1, TRUE) /\ Newest' = Newest /\ ~closed
        /\ held' = [held EXCEPT ![r] = current]
    BY <1>4, Zenon DEF Acquire, SendDrop, statusVars, cleanerVars, Newest
  <2>2. \A v : Alive(v)' => Alive(v)
    BY <2>1, Zenon DEF Alive, TypeOK
  <2>3. /\ current <= current'
        /\ \A v \in 1..Newest :
             (Alive(v) \/ v = applying)' => Alive(v) \/ v = applying
    BY <1>3, <2>1, <2>2, Zenon
  <2> QED BY <1>2, <1>3, <2>1, <2>3, SafeSend, Zenon
<1>5. ASSUME NEW r \in Readers, Release(r)
      PROVE  CleanTags' /\ HeldHasEntry' /\ Kept'
  <2>1. /\ UNCHANGED <<del_gens, files, cleaned, current, closed, applying>>
        /\ Newest' = Newest /\ held' = [held EXCEPT ![r] = 0]
    BY <1>5, Zenon DEF Release, statusVars, cleanerVars, Newest
  <2>2. PICK n \in 1..Newest : n = held[r]
    BY <1>3, <1>5 DEF Release, TypeOK, Newest
  <2>3. PICK b \in BOOLEAN :
          /\ SendDrop(n, b)
          /\ b <=> (n = current /\ ~closed) \/ \E q \in Readers \ {r} : held[q] = n
    BY <1>5, <2>2, Zenon DEF Release
  <2>4. n <= current /\ n # 0
    BY <2>2 DEF TypeOK
  <2>5. Alive(n) /\ (~b => ~Alive(n)')
    BY <2>1, <2>2, <2>3, <2>4, Zenon DEF Alive, TypeOK
  <2>6. \A v \in 1..Newest : Alive(v)' => Alive(v)
    BY <1>3, <2>1 DEF Alive, TypeOK
  <2> QED BY <1>2, <1>3, <2>1, <2>3, <2>4, <2>5, <2>6, SafeSend
<1>6. CASE log_and_apply
  BY <1>2, <1>6, SafeApply, Zenon
<1>7. CASE Publish
  <2>1. /\ UNCHANGED <<del_gens, files, cleaned, held, closed>>
        /\ Newest' = Newest /\ applying' = 0 /\ applying = current + 1
        /\ current' = applying
    BY <1>7, Zenon DEF Publish, cleanerVars, Newest, TypeOK
  <2>2. PICK n \in 1..Newest : n = current
    BY <1>3, Zenon
  <2>3. PICK b \in BOOLEAN :
          SendDrop(n, b) /\ (b <=> \E r \in Readers : held[r] = n)
    BY <1>7, <2>2, Zenon DEF Publish
  <2>4. /\ Alive(n) /\ (~b => ~Alive(n)') /\ n <= current' /\ current <= current'
    BY <1>3, <2>1, <2>2, <2>3 DEF Alive, OrderInv
  <2>5. \A v \in 1..Newest : Alive(v)' \/ v = applying' => Alive(v) \/ v = applying
    BY <2>1 DEF Alive
  <2> QED BY <1>2, <1>3, <2>1, <2>3, <2>4, <2>5, SafeSend
<1>8. CASE Close
  <2>1. /\ UNCHANGED <<del_gens, files, cleaned, held, applying, current>>
        /\ Newest' = Newest /\ ~closed /\ closed' = TRUE
    BY <1>8, Zenon DEF Close, cleanerVars, Newest
  <2>2. PICK n \in 1..Newest : n = current
    BY <1>3, Zenon
  <2>3. PICK b \in BOOLEAN :
          SendDrop(n, b) /\ (b <=> \E r \in Readers : held[r] = n)
    BY <1>8, <2>2, Zenon DEF Close
  <2>4. /\ Alive(n) /\ (~b => ~Alive(n)') /\ n <= current'
    BY <1>3, <2>1, <2>2, <2>3, Zenon DEF Alive
  <2>5. \A v : Alive(v)' => Alive(v)
    BY <2>1, Zenon DEF Alive
  <2> QED BY <1>2, <1>3, <2>1, <2>3, <2>4, <2>5, SafeSend
<1>9. CASE Listen
  BY <1>2, <1>9, SafeListenAdd, SafeListenClean, SafeListenNone, Zenon DEF Listen
<1>10. CASE UNCHANGED vars
  <2>1. /\ UNCHANGED <<del_gens, files, cleaned, current, closed, applying, held>>
        /\ SendDrop(1, TRUE) /\ Newest' = Newest
    BY <1>10, Zenon DEF vars, SendDrop, Newest
  <2>2. \A v : Alive(v)' => Alive(v)
    BY <2>1, Zenon DEF Alive
  <2>3. /\ current <= current'
        /\ \A v \in 1..Newest :
             (Alive(v) \/ v = applying)' => Alive(v) \/ v = applying
    BY <1>3, <2>1, <2>2, Zenon
  <2> QED BY <1>2, <1>3, <2>1, <2>3, SafeSend, Zenon
<1> QED
  BY <1>1, <1>4, <1>5, <1>6, <1>7, <1>8, <1>9, <1>10, Zenon DEF Next

LEMMA SafeInit == Init => SafeInv
<1> SUFFICES ASSUME Init PROVE CleanTags /\ HeldHasEntry /\ Kept
  BY Zenon DEF SafeInv
<1>1. PICK S : tags = <<Add(1, S)>>
  BY Zenon DEF Init, load_from_log
<1>2. /\ del_gens = <<>> /\ cleaned = {} /\ Newest = 1 /\ current = 1
      /\ applying = 0 /\ held = [r \in Readers |-> 0]
  BY Zenon DEF Init, load_from_log, Newest
<1>3. /\ Len(tags) = 1 /\ tags[1].tag = "Add" /\ tags[1].version = 1
  BY <1>1, Zenon DEF Add
<1>4. Len(del_gens) = 0 /\ 1..0 = {} /\ 1..1 = {1}
  BY <1>2
<1>5. CleanTags
  BY <1>3, <1>4, Zenon DEF CleanTags
<1>6. HasEntry(1) /\ \A g : ~Pending(1, g) \/ 1 <= 1
  BY <1>3, <1>4 DEF HasEntry
<1>7. HeldHasEntry
  BY <1>2, <1>4, <1>6, Zenon DEF HeldHasEntry
<1>8. Kept
  BY <1>2, <1>4 DEF Kept
<1> QED
  BY <1>5, <1>7, <1>8, Zenon

LEMMA SafeImplies == TypeOK /\ SafeInv => NoHeldTableRemoved
<1> SUFFICES ASSUME TypeOK, HeldHasEntry, Kept, NEW n \in 1..current, Alive(n)
             PROVE  files[n] \cap cleaned = {}
  BY Zenon DEF SafeInv, NoHeldTableRemoved
<1>1. n \in 1..Newest
  BY DEF TypeOK, Newest
<1> QED
  BY <1>1, Zenon DEF HeldHasEntry, Kept

IInv == TypeOK /\ OrderInv /\ SafeInv

LEMMA IInvHolds == Spec => []IInv
<1>1. Init => IInv
  BY TypeInit, OrderInit, SafeInit, Zenon DEF IInv
<1>2. IInv /\ [Next]_vars => IInv'
  BY TypeStep, OrderStep, SafeStep, Zenon DEF IInv
<1> QED
  BY <1>1, <1>2, PTL DEF Spec

(***************************************************************************)
(* As long as no write of the version log has failed, no interleaving of   *)
(* readers, publications and the Cleaner removes a table of a version that *)
(* somebody still holds.                                                   *)
(***************************************************************************)
THEOREM HeldTablesSafe == Spec => []NoHeldTableRemoved
<1>1. IInv => NoHeldTableRemoved
  BY SafeImplies, Zenon DEF IInv
<1> QED
  BY <1>1, IInvHolds, PTL
-----------------------------------------------------------------------------
(***************************************************************************)
(* The step simulation behind ImplementsTableLifetime.                     *)
(***************************************************************************)
Held == {v \in 1..current : Alive(v)}

LEMMA LifetimeStep ==
  ASSUME IInv, IInv', failures' = 0, [Next]_vars
  PROVE  [Lifetime!Next]_(Lifetime!vars)
<1> DEFINE pinned == [n \in Held |-> files[n]]
<1>1. \A n \in Held' : files'[n] \cap cleaned' = {}
  <2>1. (TypeOK /\ SafeInv => NoHeldTableRemoved)'
    BY SafeImplies, PTL
  <2> QED
    BY <2>1, Zenon DEF IInv, NoHeldTableRemoved, Held
<1>2. ASSUME cleaned' = cleaned, \A n \in 1..current : files'[n] = files[n]
      PROVE  Lifetime!Switch
  <2>1. DOMAIN pinned' = Held' /\ \A n \in Held' : pinned'[n] = files'[n]
    OBVIOUS
  <2>2. DOMAIN pinned = Held /\ \A n \in Held : pinned[n] = files[n]
    OBVIOUS
  <2>3. Held' \subseteq Nat /\ \A n \in Held : n \in 1..current
    BY DEF Held, IInv, TypeOK
  <2> QED
    BY <1>1, <1>2, <2>1, <2>2, <2>3, Zenon DEF Lifetime!Switch, Held
<1>3. ASSUME cleaned \subseteq cleaned', UNCHANGED <<files, current, closed, held>>
      PROVE  Lifetime!Remove
  <2>1. Held' = Held /\ pinned' = pinned
    BY <1>3, Zenon DEF Held, Alive
  <2>2. \A n \in Held : files[n] \cap cleaned' = {}
    BY <1>1, <1>3, <2>1, Zenon
  <2> QED
    BY <1>3, <2>1, <2>2 DEF Lifetime!Remove, Lifetime!InUse, Held
<1>4. CASE \E r \in Readers : Acquire(r) \/ Release(r)
  BY <1>2, <1>4, Zenon DEF Acquire, Release, statusVars, cleanerVars, Lifetime!Next
<1>5. CASE log_and_apply
  <2>1. \A n \in 1..current : files'[n] = files[n]
    BY <1>5 DEF log_and_apply, apply, IInv, TypeOK
  <2> QED
    BY <1>2, <1>5, <2>1, Zenon DEF log_and_apply, cleanerVars, Lifetime!Next
<1>6. CASE Publish \/ LogFails \/ Close
  BY <1>2, <1>6, Zenon DEF Publish, LogFails, Close, cleanerVars, Lifetime!Next
<1>7. CASE Listen
  <2>1. cleaned \subseteq cleaned' /\ UNCHANGED <<files, current, closed, held>>
    BY <1>7, Zenon DEF Listen, ListenAdd, ListenClean, ListenNone, clean, statusVars
  <2> QED
    BY <1>3, <2>1, Zenon DEF Lifetime!Next
<1>8. CASE UNCHANGED vars
  BY <1>2, <1>8, Zenon DEF vars, Lifetime!Next
<1> QED
  BY <1>4, <1>5, <1>6, <1>7, <1>8, Zenon DEF Next

(***************************************************************************)
(* VersionStatus, the readers and the Cleaner implement TableLifetime      *)
(* until a write of the version log fails.                                 *)
(***************************************************************************)
THEOREM CleanerRefinement == Spec => ImplementsTableLifetime
<1>1. Init => Lifetime!Init
  <2> SUFFICES ASSUME Init PROVE Lifetime!Init
    OBVIOUS
  <2>1. /\ current = 1 /\ closed = FALSE /\ cleaned = {}
        /\ files \in [1..1 -> SUBSET Nat] /\ 1..1 = {1}
    BY TypeInit, Zenon DEF Init, load_from_log, TypeOK, Newest
  <2>2. {v \in 1..current : Alive(v)} = {1}
    BY <2>1, Zenon DEF Alive
  <2> QED
    BY <2>1, <2>2, Zenon DEF Lifetime!Init
<1>2. IInv /\ IInv' /\ [Next]_vars
      => [failures' = 0 => [Lifetime!Next]_(Lifetime!vars)]_vars
  BY LifetimeStep, Zenon
<1> QED
  BY <1>1, <1>2, IInvHolds, PTL DEF Spec, ImplementsTableLifetime

(***************************************************************************)
(* If the version log can always be written, they implement it for good.   *)
(***************************************************************************)
THEOREM CleanerRefinementForGood ==
  ASSUME MaxFailures = 0
  PROVE  Spec => Lifetime!Spec
<1>1. Init => failures = 0
  BY Zenon DEF Init
<1>2. failures = 0 /\ [Next]_vars => (failures = 0)'
  <2>1. failures = 0 => ~LogFails
    BY DEF LogFails
  <2>2. ~LogFails /\ [Next]_vars => failures' = failures
    BY Zenon DEF Next, Listen, Acquire, Release, log_and_apply, Publish, Close,
       ListenAdd, ListenClean, ListenNone, statusVars, vars
  <2> QED BY <2>1, <2>2
<1>3. (failures = 0)' /\ [failures' = 0 => [Lifetime!Next]_(Lifetime!vars)]_vars
      => [Lifetime!Next]_(Lifetime!vars)
  BY DEF vars, statusVars, cleanerVars, Lifetime!vars, Alive
<1> QED
  BY <1>1, <1>2, <1>3, CleanerRefinement, PTL DEF Spec, ImplementsTableLifetime, Lifetime!Spec
-----------------------------------------------------------------------------
(***************************************************************************)
(* Neither leaks nor double removal.  Accounted and Once are               *)
(* GarbageAccounted and RemovedOnce without the bounds on versions and     *)
(* gens, which Known gives.                                                *)
(***************************************************************************)
Accounted ==
  \A v \in 1..Newest : \A g \in files[v] \ files[Newest] :
    g \in cleaned \/ \E w : Pending(w, g)

Once ==
  \A w, g : Pending(w, g) => g \notin cleaned /\ \A u : Pending(u, g) => u = w

(***************************************************************************)
(* A Clean tag comes after the Add of its version: when it is handled, the *)
(* entry it is about is in del_gens.                                       *)
(***************************************************************************)
CleanOrder ==
  \A i \in 1..Len(tags) : tags[i].tag = "Clean" =>
    /\ tags[i].version <= current
    /\ \A j \in 1..Len(tags) : i < j /\ tags[j].tag = "Add" => tags[i].version < tags[j].version

TidyInv == Accounted /\ Once /\ CleanOrder /\ NoOrphanEntry

LEMMA PendingKnown ==
  ASSUME OrderInv
  PROVE  /\ \A w, g : Pending(w, g) => HasEntry(w) /\ w \in 1..Newest
         /\ \A w : HasEntry(w) => w \in 1..Newest
<1>1. \A w : HasEntry(w) => w \in 1..Newest
  BY Zenon DEF HasEntry, OrderInv, Known
<1>2. \A w, g : Pending(w, g) => HasEntry(w)
  BY Zenon DEF HasEntry, Pending
<1> QED
  BY <1>1, <1>2, Zenon

(* Acquire, Release, Publish, LogFails and Close send at most one Clean tag. *)
LEMMA TidySend ==
  ASSUME TypeOK, TypeOK', TidyInv, NEW n \in Nat, NEW b \in BOOLEAN, SendDrop(n, b),
         UNCHANGED <<del_gens, files, cleaned>>, Newest' = Newest, current <= current',
         ~b => n <= current',
         \A w \in 1..Newest : Alive(w) \/ w = applying =>
           (Alive(w) \/ w = applying)' \/ (w = n /\ ~b)
  PROVE  TidyInv'
<1>1. Accounted' /\ Once'
  BY SendDropEffect, Zenon DEF TidyInv, Accounted, Once
<1>2. Clean(n).tag = "Clean" /\ Clean(n).version = n /\ Clean(n).tag # "Add"
  BY Zenon DEF Clean
<1>3. current \in Nat /\ current' \in Nat
  BY Zenon DEF TypeOK
<1>4. CleanOrder'
  <2> SUFFICES ASSUME NEW i \in 1..Len(tags'), tags'[i].tag = "Clean"
               PROVE  /\ tags'[i].version <= current'
                      /\ \A j \in 1..Len(tags') :
                           i < j /\ tags'[j].tag = "Add" => tags'[i].version < tags'[j].version
    BY Zenon DEF CleanOrder
  <2>1. CASE i \in 1..Len(tags)
    <3>1. tags'[i] = tags[i] /\ tags[i].version \in Nat
      BY <2>1, SendDropEffect, ElementTypes, Zenon
    <3>2. tags[i].version <= current
      BY <2>1, <3>1, Zenon DEF TidyInv, CleanOrder
    <3>3. ASSUME NEW j \in 1..Len(tags'), i < j, tags'[j].tag = "Add"
          PROVE  tags[i].version < tags'[j].version
      <4>1. j \in 1..Len(tags) /\ tags'[j] = tags[j]
        BY <1>2, <3>3, SendDropEffect, Zenon
      <4> QED
        BY <2>1, <3>1, <3>3, <4>1, Zenon DEF TidyInv, CleanOrder
    <3>4. tags[i].version <= current'
      BY <1>3, <3>1, <3>2
    <3> QED
      BY <3>1, <3>3, <3>4, Zenon
  <2>2. CASE i = Len(tags) + 1 /\ tags'[i] = Clean(n) /\ ~b
    <3>1. \A j \in 1..Len(tags') : tags'[j].tag = "Add" => j \in 1..Len(tags)
      BY <1>2, SendDropEffect, Zenon
    <3>2. \A j \in 1..Len(tags) : ~(i < j)
      BY <2>2, SendDropEffect
    <3> QED
      BY <1>2, <2>2, <3>1, <3>2, Zenon
  <2> QED BY <2>1, <2>2, SendDropEffect, Zenon
<1>5. NoOrphanEntry'
  <2> SUFFICES ASSUME NEW w \in 1..Newest, HasEntry(w)'
               PROVE  (Alive(w) \/ w = applying)' \/ \E i \in 1..Len(tags') : tags'[i] = Clean(w)
    BY Zenon DEF NoOrphanEntry
  <2>1. Alive(w) \/ w = applying \/ \E i \in 1..Len(tags) : tags[i] = Clean(w)
    BY SendDropEffect, Zenon DEF TidyInv, NoOrphanEntry
  <2>2. CASE \E i \in 1..Len(tags) : tags[i] = Clean(w)
    BY <2>2, SendDropEffect, Zenon
  <2>3. CASE w = n /\ ~b
    <3>1. tags' = Append(tags, Clean(n)) /\ Clean(n) \in CleanTag
      BY <2>3, TagTypes, Zenon DEF SendDrop
    <3>2. Len(tags) + 1 \in 1..Len(tags') /\ tags'[Len(tags) + 1] = Clean(n)
      <4>1. Len(tags) \in Nat /\ Len(tags') = Len(tags) + 1 /\ tags'[Len(tags) + 1] = Clean(n)
        BY <3>1, SendEffect, Zenon
      <4> QED BY <4>1
    <3> QED
      BY <2>3, <3>2, Zenon
  <2> QED
    BY <2>1, <2>2, <2>3, Zenon
<1> QED
  BY <1>1, <1>4, <1>5, Zenon DEF TidyInv

LEMMA TidyApply ==
  ASSUME TypeOK, OrderInv, TidyInv, log_and_apply PROVE TidyInv'
<1>1. PICK n \in 1..MaxNew, del \in SUBSET files[current] :
        apply(gen..(gen + n - 1), del) /\ gen' = gen + n
  BY Zenon DEF log_and_apply
<1>2. /\ Newest = current /\ Newest' = current + 1 /\ current \in Nat \ {0}
      /\ applying = 0 /\ applying' = current + 1 /\ current + 1 # 0
      /\ UNCHANGED <<current, del_gens, cleaned, held, closed>>
  BY <1>1 DEF log_and_apply, apply, Newest, TypeOK, cleanerVars
<1>3. /\ files'[current + 1] = (files[current] \ del) \cup (gen..(gen + n - 1))
      /\ \A v \in 1..current : files'[v] = files[v] /\ files[v] \subseteq Nat
  BY <1>1, <1>2 DEF apply, TypeOK
<1> DEFINE t == Add(current + 1, del)
<1>4. /\ t \in CleanTag /\ t.tag = "Add" /\ t.version = current + 1 /\ t.gens = del
      /\ tags' = Append(tags, t) /\ t.tag # "Clean"
  <2>1. current \in 1..current
    BY <1>2
  <2>2. del \in SUBSET Nat /\ current + 1 \in Nat
    BY <1>2, <1>3, <2>1
  <2> QED
    BY <1>1, <2>2, Zenon DEF apply, Add, CleanTag
<1> HIDE DEF t
<1>5. /\ Len(tags) \in Nat /\ Len(tags') = Len(tags) + 1
      /\ \A i \in 1..Len(tags) : tags'[i] = tags[i]
      /\ tags'[Len(tags) + 1] = t
      /\ \A w : HasEntry(w)' <=> HasEntry(w) \/ w = current + 1
      /\ \A w, g : Pending(w, g)' <=> Pending(w, g) \/ (w = current + 1 /\ g \in del)
  BY <1>2, <1>4, SendEffect
<1>6. /\ \A i \in 1..Len(tags) : i \in 1..Len(tags')
      /\ \A i \in 1..Len(tags') : i \in 1..Len(tags) \/ i = Len(tags) + 1
      /\ \A i \in 1..Len(tags) : ~(Len(tags) + 1 < i)
  BY <1>5
<1>7. \A v \in 1..(current + 1) : v \in 1..current \/ v = current + 1
  BY <1>2
<1>8. \A g \in del : g \notin cleaned /\ \A w : ~Pending(w, g)
  BY <1>2, PendingKnown, Zenon DEF OrderInv, NewestIntact
<1>9. Accounted'
  <2> SUFFICES ASSUME NEW v \in 1..(current + 1), NEW g \in files'[v], g \notin files'[current + 1]
               PROVE  g \in cleaned \/ \E w : Pending(w, g)'
    BY <1>2, Zenon DEF Accounted
  <2>1. v \in 1..current /\ g \in files[v]
    BY <1>3, <1>7, Zenon
  <2>2. CASE g \in files[current]
    <3>1. g \in del
      BY <1>3, <2>2, Zenon
    <3> QED BY <1>5, <3>1, Zenon
  <2>3. CASE g \notin files[current]
    BY <1>2, <1>5, <2>1, <2>3, Zenon DEF TidyInv, Accounted
  <2> QED BY <2>2, <2>3, Zenon
<1>10. Once'
  <2> SUFFICES ASSUME NEW w, NEW g, Pending(w, g)'
               PROVE  g \notin cleaned /\ \A u : Pending(u, g)' => u = w
    BY <1>2, Zenon DEF Once
  <2>1. CASE g \in del
    BY <1>5, <1>8, <2>1
  <2>2. CASE g \notin del
    BY <1>5, <2>2, Zenon DEF TidyInv, Once
  <2> QED BY <2>1, <2>2, Zenon
<1>11. CleanOrder'
  <2> SUFFICES ASSUME NEW i \in 1..Len(tags'), tags'[i].tag = "Clean"
               PROVE  /\ tags'[i].version <= current'
                      /\ \A j \in 1..Len(tags') :
                           i < j /\ tags'[j].tag = "Add" => tags'[i].version < tags'[j].version
    BY Zenon DEF CleanOrder
  <2>1. i \in 1..Len(tags) /\ tags'[i] = tags[i]
    BY <1>4, <1>5, <1>6, Zenon
  <2>2. tags[i].version <= current /\ tags[i].version \in Nat
    BY <2>1, ElementTypes, Zenon DEF TidyInv, CleanOrder
  <2>3. ASSUME NEW j \in 1..Len(tags'), i < j, tags'[j].tag = "Add"
        PROVE  tags[i].version < tags'[j].version
    <3>1. CASE j \in 1..Len(tags)
      BY <1>5, <2>1, <2>3, <3>1, Zenon DEF TidyInv, CleanOrder
    <3>2. CASE j = Len(tags) + 1
      <4>1. tags'[j].version = current + 1
        BY <1>4, <1>5, <3>2, Zenon
      <4> QED BY <1>2, <2>2, <4>1
    <3> QED BY <1>6, <3>1, <3>2, Zenon
  <2> QED
    BY <1>2, <2>1, <2>2, <2>3, Zenon
<1>12. NoOrphanEntry'
  <2> SUFFICES ASSUME NEW w \in 1..(current + 1), HasEntry(w)'
               PROVE  Alive(w) \/ w = applying' \/ \E i \in 1..Len(tags') : tags'[i] = Clean(w)
    BY <1>2, Zenon DEF NoOrphanEntry, Alive
  <2>1. CASE w = current + 1
    BY <1>2, <2>1, Zenon
  <2>2. CASE w \in 1..current
    <3>1. w # 0 /\ w # current + 1
      BY <2>2, <1>2
    <3>2. Alive(w) \/ \E i \in 1..Len(tags) : tags[i] = Clean(w)
      BY <1>2, <1>5, <2>2, <3>1, Zenon DEF TidyInv, NoOrphanEntry
    <3> QED BY <1>5, <1>6, <3>2, Zenon
  <2> QED BY <1>7, <2>1, <2>2, Zenon
<1> QED
  BY <1>9, <1>10, <1>11, <1>12, Zenon DEF TidyInv

(* The head of the channel is taken out; no Clean tag but this one is lost. *)
LEMMA TidyTail ==
  ASSUME TypeOK, CleanOrder, tags # <<>>, tags' = Tail(tags), current' = current
  PROVE  /\ CleanOrder'
         /\ \A w : (\E i \in 1..Len(tags) : tags[i] = Clean(w)) /\ Clean(w) # Head(tags)
                   => \E i \in 1..Len(tags') : tags'[i] = Clean(w)
<1>1. \A w : (\E i \in 1..Len(tags) : tags[i] = Clean(w)) /\ Clean(w) # Head(tags)
             => \E i \in 1..Len(tags') : tags'[i] = Clean(w)
  BY TailEffect, Zenon
<1>2. CleanOrder'
  <2>1. \A i, j \in 1..Len(tags') : i < j => i + 1 < j + 1
    OBVIOUS
  <2>2. \A i \in 1..Len(tags') : i + 1 \in 1..Len(tags) /\ tags'[i] = tags[i + 1]
    BY TailEffect, Zenon
  <2> SUFFICES ASSUME NEW i \in 1..Len(tags'), tags'[i].tag = "Clean"
               PROVE  /\ tags'[i].version <= current
                      /\ \A j \in 1..Len(tags') :
                           i < j /\ tags'[j].tag = "Add" => tags'[i].version < tags'[j].version
    BY Zenon DEF CleanOrder
  <2>3. i + 1 \in 1..Len(tags) /\ tags[i + 1].tag = "Clean" /\ tags'[i] = tags[i + 1]
    BY <2>2, Zenon
  <2>4. /\ tags[i + 1].version <= current
        /\ \A j \in 1..Len(tags) :
             i + 1 < j /\ tags[j].tag = "Add" => tags[i + 1].version < tags[j].version
    BY <2>3, Zenon DEF CleanOrder
  <2> QED BY <2>1, <2>2, <2>3, <2>4, Zenon
<1> QED BY <1>1, <1>2, Zenon

LEMMA TidyListenAdd ==
  ASSUME TypeOK, OrderInv, TidyInv, ListenAdd PROVE TidyInv'
<1> DEFINE t == Head(tags)
<1>1. /\ tags # <<>> /\ t.tag = "Add" /\ tags' = Tail(tags)
      /\ del_gens' = Append(del_gens, [version |-> t.version, gens |-> t.gens])
      /\ UNCHANGED <<cleaned, files, gen, closed, applying, current, held>>
  BY Zenon DEF ListenAdd, statusVars
<1> HIDE DEF t
<1>2. t = Head(tags)
  BY Zenon DEF t
<1>3. /\ \A w : HasEntry(w)' <=> HasEntry(w)
      /\ \A w, g : Pending(w, g)' <=> Pending(w, g)
  BY <1>1, <1>2, AddEffect, Zenon
<1>4. Newest' = Newest
  BY <1>1, Zenon DEF Newest
<1>5. Accounted' /\ Once'
  <2>1. Accounted'
    BY <1>1, <1>3, <1>4, Zenon DEF TidyInv, Accounted
  <2>2. Once'
    BY <1>1, <1>3, Zenon DEF TidyInv, Once
  <2> QED BY <2>1, <2>2, Zenon
<1>6. \A w : Clean(w) # Head(tags)
  BY <1>1, <1>2 DEF Clean
<1>7. CleanOrder' /\ \A w : (\E i \in 1..Len(tags) : tags[i] = Clean(w))
                             => \E i \in 1..Len(tags') : tags'[i] = Clean(w)
  BY <1>1, <1>6, TidyTail, Zenon DEF TidyInv
<1>8. NoOrphanEntry'
  <2>1. \A w : Alive(w)' <=> Alive(w)
    BY <1>1, Zenon DEF Alive
  <2> QED
    BY <1>1, <1>3, <1>4, <1>7, <2>1, Zenon DEF TidyInv, NoOrphanEntry
<1> QED
  BY <1>5, <1>7, <1>8, Zenon DEF TidyInv

LEMMA TidyListenClean ==
  ASSUME TypeOK, OrderInv, TidyInv, ListenClean PROVE TidyInv'
<1>1. /\ tags # <<>> /\ tags' = Tail(tags) /\ Head(tags).tag = "Clean"
      /\ UNCHANGED <<files, gen, closed, applying, current, held>>
  BY Zenon DEF ListenClean, statusVars
<1>2. PICK n \in Nat : n = Head(tags).version /\ CleanStep(n)
  BY CleanEffect, Zenon DEF OrderInv
<1>3. Newest' = Newest /\ \A w : Alive(w)' <=> Alive(w)
  BY <1>1, Zenon DEF Newest, Alive
<1>4. /\ \A w : HasEntry(w)' => HasEntry(w)
      /\ \A w, g : Pending(w, g)' =>
           \/ Pending(w, g)
           \/ /\ w \in Nat /\ w < n /\ Pending(n, g) /\ ~HasEntry(n)'
              /\ \A u \in Nat : HasEntry(u) /\ u < n => u <= w
      /\ \A g \in cleaned' :
           \/ g \in cleaned
           \/ Pending(n, g) /\ ~HasEntry(n)' /\ \A u \in Nat : HasEntry(u) => n <= u
      /\ cleaned \subseteq cleaned'
      /\ \A w, g : Pending(w, g) => g \in cleaned' \/ \E u : Pending(u, g)'
  BY <1>2, Zenon DEF CleanStep
<1>5. \A w, g : Pending(w, g)' => HasEntry(w)'
  BY Zenon DEF Pending, HasEntry
<1>6. Accounted'
  <2> SUFFICES ASSUME NEW v \in 1..Newest, NEW g \in files[v] \ files[Newest]
               PROVE  g \in cleaned' \/ \E w : Pending(w, g)'
    BY <1>1, <1>3, Zenon DEF Accounted
  <2>1. g \in cleaned \/ \E w : Pending(w, g)
    BY Zenon DEF TidyInv, Accounted
  <2> QED
    BY <1>4, <2>1, Zenon
<1>7. Once'
  <2> SUFFICES ASSUME NEW w, NEW g, Pending(w, g)'
               PROVE  g \notin cleaned' /\ \A u : Pending(u, g)' => u = w
    BY Zenon DEF Once
  <2>1. \A v : Pending(v, g) => g \notin cleaned /\ \A u : Pending(u, g) => u = v
    BY Zenon DEF TidyInv, Once
  <2>2. ASSUME NEW u, Pending(u, g)', NEW v, Pending(v, g)', Pending(u, g) PROVE u = v
    <3>1. CASE Pending(v, g)
      BY <2>1, <2>2, <3>1, Zenon
    <3>2. CASE Pending(n, g) /\ ~HasEntry(n)'
      <4>1. u = n
        BY <2>1, <2>2, <3>2, Zenon
      <4> QED BY <1>5, <2>2, <3>2, <4>1, Zenon
    <3> QED BY <1>4, <2>2, <3>1, <3>2, Zenon
  <2>3. ASSUME NEW u, Pending(u, g)', NEW v, Pending(v, g)', ~Pending(u, g), ~Pending(v, g)
        PROVE  u = v
    <3>1. /\ u \in Nat /\ u < n /\ \A x \in Nat : HasEntry(x) /\ x < n => x <= u
          /\ v \in Nat /\ v < n /\ \A x \in Nat : HasEntry(x) /\ x < n => x <= v
      BY <1>4, <2>3, Zenon
    <3>2. HasEntry(u) /\ HasEntry(v)
      BY <1>4, <1>5, <2>3, Zenon
    <3>3. u <= v /\ v <= u
      BY <3>1, <3>2, Zenon
    <3> QED BY <3>1, <3>3
  <2>4. \A u : Pending(u, g)' => u = w
    BY <2>2, <2>3, Zenon
  <2>5. g \notin cleaned
    BY <1>4, <2>1, Zenon
  <2>6. ASSUME Pending(n, g), ~HasEntry(n)', \A u \in Nat : HasEntry(u) => n <= u PROVE FALSE
    <3>1. CASE Pending(w, g)
      <4>1. w = n
        BY <2>1, <2>6, <3>1, Zenon
      <4> QED BY <1>5, <2>6, <4>1, Zenon
    <3>2. CASE w \in Nat /\ w < n
      <4>1. n <= w
        BY <1>4, <1>5, <2>6, <3>2, Zenon
      <4> QED BY <3>2, <4>1
    <3> QED BY <1>4, <3>1, <3>2, Zenon
  <2> QED
    BY <1>4, <2>4, <2>5, <2>6, Zenon
<1>8. /\ CleanOrder'
      /\ \A w : (\E i \in 1..Len(tags) : tags[i] = Clean(w)) /\ Clean(w) # Head(tags)
                => \E i \in 1..Len(tags') : tags'[i] = Clean(w)
  BY <1>1, TidyTail, Zenon DEF TidyInv
<1>9. ~HasEntry(n)'
  <2> SUFFICES ASSUME NEW j \in 1..Len(tags), tags[j].tag = "Add" PROVE tags[j].version # n
    BY <1>2, Zenon DEF CleanStep
  <2>1. Head(tags) = tags[1] /\ 1 \in 1..Len(tags)
    BY <1>1, TailEffect, Zenon
  <2>2. 1 < j
    <3>1. j # 1
      BY <1>1, <2>1, Zenon
    <3> QED BY <3>1
  <2>3. n < tags[j].version
    BY <1>1, <1>2, <2>1, <2>2, Zenon DEF TidyInv, CleanOrder
  <2> QED BY <2>3
<1>10. NoOrphanEntry'
  <2> SUFFICES ASSUME NEW w \in 1..Newest, HasEntry(w)'
               PROVE  Alive(w) \/ w = applying \/ \E i \in 1..Len(tags') : tags'[i] = Clean(w)
    BY <1>1, <1>3, Zenon DEF NoOrphanEntry
  <2>1. w # n
    BY <1>9, Zenon
  <2>2. Clean(w) # Head(tags)
    <3>1. Clean(w).version = w
      BY Zenon DEF Clean
    <3> QED BY <1>2, <2>1, <3>1, Zenon
  <2>3. Alive(w) \/ w = applying \/ \E i \in 1..Len(tags) : tags[i] = Clean(w)
    BY <1>4, Zenon DEF TidyInv, NoOrphanEntry
  <2> QED
    BY <1>8, <2>2, <2>3, Zenon
<1> QED
  BY <1>6, <1>7, <1>8, <1>10, Zenon DEF TidyInv

LEMMA TidyListenNone ==
  ASSUME TypeOK, OrderInv, TidyInv, ListenNone PROVE TidyInv'
<1>1. /\ tags = <<>> /\ tags' = <<>> /\ del_gens' = <<>>
      /\ cleaned' = cleaned \cup UNION {del_gens[i].gens : i \in 1..Len(del_gens)}
      /\ UNCHANGED <<files, gen, closed, applying, current, held>>
  BY Zenon DEF ListenNone, statusVars
<1>2. Newest' = Newest
  BY <1>1, Zenon DEF Newest
<1>3. /\ \A w, g : ~Pending(w, g)'
      /\ \A w : ~HasEntry(w)'
      /\ CleanOrder'
  BY <1>1 DEF Pending, HasEntry, CleanOrder
<1>4. \A w, g : Pending(w, g) => g \in cleaned'
  <2>1. 1..Len(tags) = {}
    BY <1>1
  <2> QED BY <1>1, <2>1, Zenon DEF Pending
<1>5. Accounted'
  <2> SUFFICES ASSUME NEW v \in 1..Newest, NEW g \in files[v] \ files[Newest]
               PROVE  g \in cleaned'
    BY <1>1, <1>2, Zenon DEF Accounted
  <2>1. g \in cleaned \/ \E w : Pending(w, g)
    BY Zenon DEF TidyInv, Accounted
  <2> QED BY <1>1, <1>4, <2>1, Zenon
<1> QED
  BY <1>3, <1>5, Zenon DEF TidyInv, Once, NoOrphanEntry

LEMMA TidyStep ==
  ASSUME TypeOK, TypeOK', OrderInv, TidyInv, [Next]_vars PROVE TidyInv'
<1>0. current \in Nat /\ current <= current
  BY DEF TypeOK
<1>1. ASSUME SendDrop(0, TRUE), UNCHANGED <<del_gens, files, cleaned, current, applying, closed>>,
             \A r \in Readers : held[r] # 0 => held'[r] = held[r]
      PROVE  TidyInv'
  <2>1. \A w \in 1..Newest : Alive(w) => Alive(w)'
    <3>1. \A w \in 1..Newest : w # 0
      OBVIOUS
    <3> QED BY <1>1, <3>1, Zenon DEF Alive
  <2>2. Newest' = Newest
    BY <1>1, Zenon DEF Newest
  <2>3. 0 \in Nat /\ TRUE \in BOOLEAN
    OBVIOUS
  <2> QED BY <1>0, <1>1, <2>1, <2>2, <2>3, TidySend, Zenon
<1>2. ASSUME NEW r \in Readers, Acquire(r) PROVE TidyInv'
  <2>1. /\ SendDrop(0, TRUE)
        /\ UNCHANGED <<del_gens, files, cleaned, current, applying, closed>>
        /\ held[r] = 0 /\ held' = [held EXCEPT ![r] = current]
    BY <1>2, Zenon DEF Acquire, SendDrop, statusVars, cleanerVars
  <2>2. \A q \in Readers : held[q] # 0 => held'[q] = held[q]
    BY <2>1, Zenon DEF TypeOK
  <2> QED BY <1>1, <2>1, <2>2, Zenon
<1>3. ASSUME NEW r \in Readers, Release(r) PROVE TidyInv'
  <2> DEFINE n == held[r]
             b == \/ n = current /\ ~closed
                  \/ \E q \in Readers \ {r} : held[q] = n
  <2>1. /\ SendDrop(n, b) /\ held' = [held EXCEPT ![r] = 0]
        /\ UNCHANGED <<del_gens, files, cleaned, current, applying, closed>>
    BY <1>3, Zenon DEF Release, statusVars, cleanerVars
  <2>2. n \in Nat /\ n <= current /\ b \in BOOLEAN
    BY DEF TypeOK
  <2>3. \A q \in Readers : q # r => held'[q] = held[q]
    BY <2>1, Zenon DEF TypeOK
  <2>4. \A w : Alive(w) => Alive(w)' \/ (w = n /\ ~b)
    BY <2>1, <2>3, Zenon DEF Alive
  <2>5. Newest' = Newest
    BY <2>1, Zenon DEF Newest
  <2> HIDE DEF n, b
  <2> QED BY <1>0, <2>1, <2>2, <2>4, <2>5, TidySend
<1>4. CASE log_and_apply
  BY <1>4, TidyApply, Zenon
<1>5. CASE Publish
  <2> DEFINE b == \E r \in Readers : held[r] = current
  <2>1. /\ SendDrop(current, b) /\ current' = applying /\ applying' = 0 /\ applying # 0
        /\ UNCHANGED <<del_gens, files, cleaned, held, closed>>
    BY <1>5, Zenon DEF Publish, cleanerVars
  <2>2. current <= current' /\ b \in BOOLEAN /\ Newest' = Newest
    BY <2>1 DEF TypeOK, Newest
  <2>3. ~closed
    BY <2>1, Zenon DEF OrderInv
  <2>4. \A w : Alive(w) \/ w = applying => Alive(w)' \/ (w = current /\ ~b)
    BY <2>1, <2>3, Zenon DEF Alive
  <2> HIDE DEF b
  <2> QED BY <1>0, <2>1, <2>2, <2>4, TidySend
<1>6. CASE LogFails
  <2>1. /\ SendDrop(current, FALSE)
        /\ UNCHANGED <<del_gens, files, cleaned, held, closed, current, applying>>
    BY <1>6, Zenon DEF LogFails, cleanerVars
  <2>2. Newest' = Newest /\ \A w : Alive(w) => Alive(w)'
    BY <2>1, Zenon DEF Newest, Alive
  <2>3. FALSE \in BOOLEAN
    OBVIOUS
  <2> QED BY <1>0, <2>1, <2>2, <2>3, TidySend, Zenon
<1>7. CASE Close
  <2> DEFINE b == \E r \in Readers : held[r] = current
  <2>1. /\ SendDrop(current, b)
        /\ UNCHANGED <<del_gens, files, cleaned, held, current, applying>>
    BY <1>7, Zenon DEF Close, cleanerVars
  <2>2. b \in BOOLEAN /\ Newest' = Newest
    BY <2>1, Zenon DEF Newest
  <2>3. \A w : Alive(w) => Alive(w)' \/ (w = current /\ ~b)
    BY <2>1, Zenon DEF Alive
  <2> HIDE DEF b
  <2> QED BY <1>0, <2>1, <2>2, <2>3, TidySend
<1>8. CASE Listen
  BY <1>8, TidyListenAdd, TidyListenClean, TidyListenNone, Zenon DEF Listen
<1>9. CASE UNCHANGED vars
  <2>1. /\ SendDrop(0, TRUE)
        /\ UNCHANGED <<del_gens, files, cleaned, current, applying, closed, held>>
    BY <1>9, Zenon DEF vars, SendDrop
  <2> QED BY <1>1, <2>1, Zenon
<1> QED
  BY <1>2, <1>3, <1>4, <1>5, <1>6, <1>7, <1>8, <1>9, Zenon DEF Next

LEMMA TidyInit == Init => TidyInv
<1> SUFFICES ASSUME Init PROVE TidyInv
  OBVIOUS
<1>1. PICK S : tags = <<Add(1, S)>>
  BY Zenon DEF Init, load_from_log
<1>2. /\ del_gens = <<>> /\ cleaned = {} /\ closed = FALSE /\ Newest = 1 /\ current = 1
  BY Zenon DEF Init, load_from_log, Newest
<1>3. /\ Len(tags) = 1 /\ tags[1].tag = "Add" /\ tags[1].version = 1
  BY <1>1, Zenon DEF Add
<1>4. Len(del_gens) = 0 /\ 1..0 = {} /\ 1..1 = {1}
  BY <1>2
<1>5. Accounted /\ Once
  BY <1>2, <1>3, <1>4, SMTT(30) DEF Accounted, Once, Pending
<1>6. CleanOrder
  BY <1>3, <1>4, Zenon DEF CleanOrder
<1>7. NoOrphanEntry
  BY <1>2, <1>4, Zenon DEF NoOrphanEntry, Alive
<1> QED
  BY <1>5, <1>6, <1>7, Zenon DEF TidyInv

LEMMA TidyHolds == Spec => [](TypeOK /\ OrderInv /\ TidyInv)
<1>1. Init => TypeOK /\ OrderInv /\ TidyInv
  BY TypeInit, OrderInit, TidyInit, Zenon
<1>2. TypeOK /\ OrderInv /\ TidyInv /\ [Next]_vars => (TypeOK /\ OrderInv /\ TidyInv)'
  BY TypeStep, OrderStep, TidyStep, Zenon
<1> QED
  BY <1>1, <1>2, PTL DEF Spec

(***************************************************************************)
(* No table leaks, whatever fails: a table that an earlier version had and *)
(* the newest has given up is removed, or waits in the channel or in       *)
(* del_gens to be removed by the Cleaner.                                  *)
(***************************************************************************)
THEOREM GarbageIsAccounted == Spec => []GarbageAccounted
<1>1. OrderInv /\ TidyInv => GarbageAccounted
  BY PendingKnown, Zenon DEF TidyInv, Accounted, GarbageAccounted
<1> QED
  BY <1>1, TidyHolds, PTL

(***************************************************************************)
(* The Cleaner hands no table to TableLoader::clean twice: handing tables  *)
(* over to the version before never leaves them under two versions.        *)
(***************************************************************************)
THEOREM TablesAreRemovedOnce == Spec => []RemovedOnce
<1>1. TidyInv => RemovedOnce
  BY Zenon DEF TidyInv, Once, RemovedOnce
<1> QED
  BY <1>1, TidyHolds, PTL

(***************************************************************************)
(* No entry of del_gens is forgotten: its version is still held or about   *)
(* to be published, or the Clean tag that will take it out is under way.   *)
(***************************************************************************)
THEOREM NoEntryIsOrphaned == Spec => []NoOrphanEntry
<1>1. TidyInv => NoOrphanEntry
  BY Zenon DEF TidyInv
<1> QED
  BY <1>1, TidyHolds, PTL
=============================================================================
