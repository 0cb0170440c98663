---------------------------- MODULE VersionCleaner ----------------------------
(***************************************************************************)
(* Life of the table files of the LSM tree.                                *)
(*                                                                         *)
(* VersionStatus publishes one immutable Version after the other.  Readers *)
(* (gets, transactions, the compactor) hold an Arc of the version that was *)
(* current when they started.  Applying a group of VersionEdits sends the  *)
(* Cleaner the tables the new version no longer needs; dropping the last   *)
(* reference to a version sends the Cleaner that version's number.  The    *)
(* Cleaner alone removes files.                                            *)
(*                                                                         *)
(* A version is abstracted to its number and the set of gens in its        *)
(* level_slice.                                                            *)
(***************************************************************************)
EXTENDS Naturals, Sequences

CONSTANTS
  Readers,      \* tasks that hold an Arc<Version>
  InitGen,      \* gens 1..InitGen occur in the version log that is loaded
  MaxNew,       \* bound on the new tables of one group of edits
  MaxGen,       \* bound on the gens created
  MaxVersion,   \* bound on the versions published
  MaxFailures   \* bound on failing writes of the version log

ASSUME CleanerConstants ==
  /\ InitGen \in Nat /\ MaxNew \in Nat /\ MaxGen \in Nat
  /\ MaxVersion \in Nat /\ MaxFailures \in Nat

VARIABLES
  current,   \* version_num of VersionInner.version
  files,     \* files[n]: gens in the level_slice of version n
  gen,       \* next value of Gen::create
  applying,  \* version_num of the version log_and_apply is about to publish, or 0
  held,      \* held[r]: version_num of the Arc reader r holds, or 0
  closed,    \* VersionStatus has been dropped
  tags,      \* the unbounded channel of CleanTags
  del_gens,  \* Cleaner::del_gens
  cleaned,   \* gens TableLoader::clean has been called with
  listening, \* the Cleaner task has not returned
  failures   \* failing writes of the version log so far

vars == <<current, files, gen, applying, held, closed, tags, del_gens,
          cleaned, listening, failures>>

statusVars  == <<current, files, gen, applying, closed, failures>>
cleanerVars == <<del_gens, cleaned, listening>>

Add(n, gens) == [tag |-> "Add", version |-> n, gens |-> gens]
Clean(n)     == [tag |-> "Clean", version |-> n, gens |-> {}]

CleanTag == [tag : {"Add", "Clean"}, version : Nat, gens : SUBSET Nat]
DelGens  == [version : Nat, gens : SUBSET Nat]

Newest == IF applying = 0 THEN current ELSE applying

(***************************************************************************)
(* An Arc<Version> is alive while VersionInner or a reader refers to it.   *)
(***************************************************************************)
Alive(n) == (n = current /\ ~closed) \/ \E r \in Readers : held[r] = n

TypeOK ==
  /\ current \in Nat \ {0}
  /\ gen \in Nat
  /\ applying \in {0, current + 1}
  /\ files \in [1..Newest -> SUBSET Nat]
  /\ held \in [Readers -> 0..current]
  /\ closed \in BOOLEAN
  /\ tags \in Seq(CleanTag)
  /\ del_gens \in Seq(DelGens)
  /\ cleaned \in SUBSET Nat
  /\ listening \in BOOLEAN
  /\ failures \in Nat

(***************************************************************************)
(* load_from_log applies the whole log to an empty version 0.  The tables  *)
(* the log deletes (dead) are sent along with the number of version 1.     *)
(***************************************************************************)
load_from_log ==
  \E live \in SUBSET (1..InitGen) :
    /\ current = 1
    /\ files = [n \in {1} |-> live]
    /\ gen = InitGen + 1
    /\ tags = <<Add(1, (1..InitGen) \ live)>>

Init ==
  /\ load_from_log
  /\ applying = 0
  /\ held = [r \in Readers |-> 0]
  /\ closed = FALSE
  /\ del_gens = <<>>
  /\ cleaned = {}
  /\ listening = TRUE
  /\ failures = 0
-----------------------------------------------------------------------------
(***************************************************************************)
(* VersionStatus::current takes the read lock, so it waits for a publish   *)
(* in progress.                                                            *)
(***************************************************************************)
Acquire(r) ==
  /\ held[r] = 0 /\ ~closed /\ applying = 0
  /\ held' = [held EXCEPT ![r] = current]
  /\ UNCHANGED <<statusVars, tags, cleanerVars>>

(***************************************************************************)
(* Dropping the last Arc of version n runs Version::drop.                  *)
(***************************************************************************)
\* Faulty variant: Version has no Drop.
SendDrop_Never(n, stillAlive) ==
  tags' = tags

SendDrop(n, stillAlive) ==
  tags' = IF stillAlive THEN tags ELSE Append(tags, Clean(n))

Release(r) ==
  /\ held[r] # 0
  /\ held' = [held EXCEPT ![r] = 0]
  /\ SendDrop(held[r], \/ held[r] = current /\ ~closed
                       \/ \E q \in Readers \ {r} : held[q] = held[r])
  /\ UNCHANGED <<statusVars, cleanerVars>>

(***************************************************************************)
(* log_and_apply under the write lock, up to the end of Version::apply:    *)
(* the edits create fresh tables and delete tables of the current version. *)
(***************************************************************************)
\* Faulty variant: deleted tables stay in level_slice.
apply_NoRetain(new, del) ==
  /\ applying' = current + 1
  /\ files' = [n \in 1..(current + 1) |->
                 IF n = current + 1 THEN files[current] \cup new ELSE files[n]]
  /\ tags' = Append(tags, Add(current + 1, del))

apply(new, del) ==
  /\ applying' = current + 1
  /\ files' = [n \in 1..(current + 1) |->
                 IF n = current + 1 THEN (files[current] \ del) \cup new
                                    ELSE files[n]]
  /\ tags' = Append(tags, Add(current + 1, del))

log_and_apply ==
  /\ ~closed /\ applying = 0 /\ current < MaxVersion
  /\ \E n \in 1..MaxNew, del \in SUBSET files[current] :
       /\ gen + n <= MaxGen + 1
       /\ apply(gen..(gen + n - 1), del)
       /\ gen' = gen + n
  /\ UNCHANGED <<current, held, closed, cleanerVars, failures>>

(***************************************************************************)
(* The assignment to inner.version drops the Arc of the old version.       *)
(***************************************************************************)
\* Faulty variant: the write lock is not given back.
Publish_KeepsLock ==
  /\ applying # 0
  /\ current' = applying
  /\ applying' = applying
  /\ SendDrop(current, \E r \in Readers : held[r] = current)
  /\ UNCHANGED <<files, gen, held, closed, cleanerVars, failures>>

Publish ==
  /\ applying # 0
  /\ current' = applying
  /\ applying' = 0
  /\ SendDrop(current, \E r \in Readers : held[r] = current)
  /\ UNCHANGED <<files, gen, held, closed, cleanerVars, failures>>

(***************************************************************************)
(* The version log cannot be written: log_and_apply returns early, and the *)
(* clone it made of the current version, which still carries that          *)
(* version's number, is dropped.  Its new tables stay behind.              *)
(***************************************************************************)
LogFails ==
  /\ ~closed /\ applying = 0 /\ failures < MaxFailures
  /\ failures' = failures + 1
  /\ \E n \in 1..MaxNew : gen + n <= MaxGen + 1 /\ gen' = gen + n
  /\ SendDrop(current, FALSE)
  /\ UNCHANGED <<current, files, applying, held, closed, cleanerVars>>

Close ==
  /\ ~closed /\ applying = 0
  /\ closed' = TRUE
  /\ SendDrop(current, \E r \in Readers : held[r] = current)
  /\ UNCHANGED <<current, files, gen, applying, held, cleanerVars, failures>>
-----------------------------------------------------------------------------
find_index_with_ver_num(n) ==
  {i \in 1..Len(del_gens) :
     /\ del_gens[i].version = n
     /\ \A j \in 1..(i - 1) : del_gens[j].version # n}

(***************************************************************************)
(* Vec::remove(index), the gens of the removed entry appended to those of  *)
(* the entry before it.                                                    *)
(***************************************************************************)
\* Faulty variant: the gens of the removed entry are forgotten.
HandOver_Forgets(i) ==
  [j \in 1..(Len(del_gens) - 1) |->
     IF j < i THEN del_gens[j] ELSE del_gens[j + 1]]

HandOver(i) ==
  [j \in 1..(Len(del_gens) - 1) |->
     IF j = i - 1
     THEN [del_gens[j] EXCEPT !.gens = @ \cup del_gens[i].gens]
     ELSE IF j < i THEN del_gens[j] ELSE del_gens[j + 1]]

\* Faulty variants: tables are removed whatever the position of the version,
\* or the first entry is read but not taken out.
clean_Anywhere(n) ==
  \/ /\ find_index_with_ver_num(n) = {}
     /\ UNCHANGED <<del_gens, cleaned>>
  \/ \E i \in find_index_with_ver_num(n) :
       /\ del_gens' = IF i = 1 THEN Tail(del_gens) ELSE HandOver(i)
       /\ cleaned' = cleaned \cup del_gens[i].gens

clean_KeepsEntry(n) ==
  \/ /\ find_index_with_ver_num(n) = {}
     /\ UNCHANGED <<del_gens, cleaned>>
  \/ \E i \in find_index_with_ver_num(n) :
       /\ del_gens' = IF i = 1 THEN del_gens ELSE HandOver(i)
       /\ cleaned' = IF i = 1 THEN cleaned \cup del_gens[1].gens ELSE cleaned

clean(n) ==
  \/ /\ find_index_with_ver_num(n) = {}
     /\ UNCHANGED <<del_gens, cleaned>>
  \/ \E i \in find_index_with_ver_num(n) :
       \/ /\ i = 1
          /\ del_gens' = Tail(del_gens)
          /\ cleaned' = cleaned \cup del_gens[1].gens
       \/ /\ i > 1
          /\ del_gens' = HandOver(i)
          /\ UNCHANGED cleaned

ListenAdd ==
  /\ listening /\ tags # <<>> /\ Head(tags).tag = "Add"
  /\ tags' = Tail(tags)
  /\ del_gens' = Append(del_gens, [version |-> Head(tags).version,
                                   gens |-> Head(tags).gens])
  /\ UNCHANGED <<statusVars, held, cleaned, listening>>

ListenClean ==
  /\ listening /\ tags # <<>> /\ Head(tags).tag = "Clean"
  /\ tags' = Tail(tags)
  /\ clean(Head(tags).version)
  /\ UNCHANGED <<statusVars, held, listening>>

(***************************************************************************)
(* recv returns None once every sender (one per Version) is gone and the   *)
(* channel is drained: every entry is cleaned, first to last.              *)
(***************************************************************************)
ListenNone ==
  /\ listening /\ tags = <<>> /\ closed /\ \A r \in Readers : held[r] = 0
  /\ listening' = FALSE
  /\ del_gens' = <<>>
  /\ cleaned' = cleaned \cup UNION {del_gens[i].gens : i \in 1..Len(del_gens)}
  /\ UNCHANGED <<statusVars, held, tags>>

Listen == ListenAdd \/ ListenClean \/ ListenNone

Next ==
  \/ \E r \in Readers : Acquire(r) \/ Release(r)
  \/ log_and_apply \/ Publish \/ LogFails \/ Close
  \/ Listen

Spec == Init /\ [][Next]_vars

(***************************************************************************)
(* The Cleaner is a tokio task of its own that does nothing but receive.   *)
(* Nothing is assumed of readers: they may hold a version forever.         *)
(***************************************************************************)
FairSpec == Spec /\ WF_vars(Listen)
-----------------------------------------------------------------------------
(***************************************************************************)
(* Vocabulary of the properties.  The tables given up by version w are     *)
(* pending in an entry of del_gens, or in an Add that is still in the      *)
(* channel.                                                                *)
(***************************************************************************)
HasEntry(w) ==
  \/ \E i \in 1..Len(del_gens) : del_gens[i].version = w
  \/ \E i \in 1..Len(tags) : tags[i].tag = "Add" /\ tags[i].version = w

Pending(w, g) ==
  \/ \E i \in 1..Len(del_gens) : del_gens[i].version = w /\ g \in del_gens[i].gens
  \/ \E i \in 1..Len(tags) : /\ tags[i].tag = "Add"
                             /\ tags[i].version = w
                             /\ g \in tags[i].gens

(***************************************************************************)
(* Whatever the order in which versions are published, read and dropped,   *)
(* the Cleaner never removes a table of a version somebody still holds     *)
(* (Cleaner::clean hands the tables of a version that is not the oldest to *)
(* its predecessor "so as not to affect the reads of earlier versions").   *)
(* It relies on every write of the version log having succeeded.           *)
(***************************************************************************)
NoHeldTableRemoved ==
  failures = 0 => \A n \in 1..current : Alive(n) => files[n] \cap cleaned = {}

(***************************************************************************)
(* The newest version is intact: none of its tables is removed or waiting  *)
(* to be removed, even after failing writes of the version log.            *)
(***************************************************************************)
NewestIntact ==
  \A g \in files[Newest] : g \notin cleaned /\ \A w \in 1..Newest : ~Pending(w, g)

(***************************************************************************)
(* No table leaks: a table of some version that the newest version has     *)
(* given up is removed, or waits under the number of a version.            *)
(***************************************************************************)
GarbageAccounted ==
  \A v \in 1..Newest : \A g \in files[v] \ files[Newest] :
    g \in cleaned \/ \E w \in 1..Newest : Pending(w, g)

(***************************************************************************)
(* A table is handed to TableLoader::clean at most once: it never waits    *)
(* under two version numbers, nor after it has been removed.               *)
(***************************************************************************)
RemovedOnce ==
  \A w \in 1..Newest : \A g \in 1..gen : Pending(w, g) =>
    /\ g \notin cleaned
    /\ \A u \in 1..Newest : Pending(u, g) => u = w

(***************************************************************************)
(* No entry is orphaned: tables wait under the number of a version that is *)
(* still held or about to be published, or whose Clean tag is under way.   *)
(***************************************************************************)
NoOrphanEntry ==
  \A w \in 1..Newest : HasEntry(w) =>
    \/ Alive(w) \/ w = applying
    \/ \E i \in 1..Len(tags) : tags[i] = Clean(w)

GivenUpBy(w) ==
  IF w \in 2..Newest THEN files[w - 1] \ files[w] ELSE {}

(***************************************************************************)
(* Once the versions up to w are all dropped, the tables version w had no  *)
(* use for any more are eventually removed, also after failures.           *)
(***************************************************************************)
DroppedTablesReclaimed ==
  \A w \in 2..MaxVersion :
    (w < current \/ (w = current /\ closed)) /\ (\A v \in 1..w : ~Alive(v))
      ~> GivenUpBy(w) \subseteq cleaned

Lifetime == INSTANCE TableLifetime WITH
  pinned <- [n \in {v \in 1..current : Alive(v)} |-> files[n]],
  removed <- cleaned

(***************************************************************************)
(* Until a write of the version log fails, Version and Cleaner together    *)
(* implement TableLifetime: every step of theirs is one of its steps, or   *)
(* changes nothing it knows of.                                            *)
(***************************************************************************)
ImplementsTableLifetime ==
  Lifetime!Init /\ [][failures' = 0 => [Lifetime!Next]_(Lifetime!vars)]_vars
=============================================================================
