------------------------------- MODULE Version --------------------------------
(***************************************************************************)
(* Scopes, levels and the edits that change them: the pure part of Version *)
(* and Scope.  A level is a sequence of scopes; keys are integers.  The    *)
(* operators use the fields start, end and gen of a scope only, so that a  *)
(* model may let its scopes carry the contents of their tables.            *)
(***************************************************************************)
EXTENDS Integers, Sequences, FiniteSetsExt

MAX_LEVEL == 4

(* The n-th number of the set I, and the elements of s with an index in I, in their order *)
Nth(I, n) == CHOOSE i \in I : Cardinality({j \in I : j <= i}) = n

Pick(s, I) == [n \in 1..Cardinality(I) |-> s[Nth(I, n)]]

meet(self, target) ==
  \/ self.start <= target.start /\ self.end >= target.start
  \/ self.start <= target.end /\ self.end >= target.end
  \/ self.start <= target.start /\ self.end >= target.end
  \/ self.start >= target.start /\ self.end <= target.end

meet_by_key(self, key) == self.start <= key /\ self.end >= key

(* Faulty fusion: ends where the last scope starts *)
fusion_Short(scopes) ==
  [start |-> Min({s.start : s \in scopes}), end |-> Max({s.start : s \in scopes})]

fusion(scopes) ==
  [start |-> Min({s.start : s \in scopes}), end |-> Max({s.end : s \in scopes})]

(***************************************************************************)
(* tables_by_scopes returns the scopes of a level that meet target and the *)
(* 0-based index of the first, or 0 if there is none.                      *)
(***************************************************************************)
met_scopes(slice, target) == Pick(slice, {i \in DOMAIN slice : meet(slice[i], target)})

first_index(slice, target) ==
  LET met == {i \in DOMAIN slice : meet(slice[i], target)}
  IN  IF met = {} THEN 0 ELSE Min(met) - 1
-----------------------------------------------------------------------------
(***************************************************************************)
(* VersionEdit.  A NewFile at level 0 is pushed to the end, at the other   *)
(* levels it is inserted at its index, in both cases in the order of gen.  *)
(***************************************************************************)
NewFile(scopes, level, index) ==
  [edit |-> "NewFile", scopes |-> scopes, level |-> level, index |-> index]

DeleteFile(gens, level) ==
  [edit |-> "DeleteFile", gens |-> gens, level |-> level]

(* Faulty order: scopes inserted one by one at the same index, not reversed *)
sorted_by_gen_NotReversed(scopes) ==
  LET rank(i) == Cardinality({j \in DOMAIN scopes : \/ scopes[j].gen > scopes[i].gen
                                                    \/ scopes[j].gen = scopes[i].gen /\ j <= i})
  IN  [n \in DOMAIN scopes |-> scopes[CHOOSE i \in DOMAIN scopes : rank(i) = n]]

(* Stable: the n-th is the one that has n - 1 before it *)
sorted_by_gen(scopes) ==
  LET rank(i) == Cardinality({j \in DOMAIN scopes : \/ scopes[j].gen < scopes[i].gen
                                                    \/ scopes[j].gen = scopes[i].gen /\ j <= i})
  IN  [n \in DOMAIN scopes |-> scopes[CHOOSE i \in DOMAIN scopes : rank(i) = n]]

apply_edit(levels, e) ==
  [levels EXCEPT ![e.level] =
     IF e.edit = "DeleteFile"
     THEN Pick(@, {i \in DOMAIN @ : @[i].gen \notin e.gens})
     ELSE LET new == sorted_by_gen(e.scopes)
          IN  IF e.level = 0
              THEN @ \o new
              ELSE SubSeq(@, 1, e.index) \o new \o SubSeq(@, e.index + 1, Len(@))]

apply(levels, edits) ==
  LET after[n \in 0..Len(edits)] == IF n = 0 THEN levels ELSE apply_edit(after[n - 1], edits[n])
  IN  after[Len(edits)]

level_slice_new == [l \in 0..(MAX_LEVEL - 1) |-> <<>>]

is_threshold_exceeded_major(levels, threshold, magnification, level) ==
  Len(levels[level]) >= threshold * magnification ^ level
-----------------------------------------------------------------------------
Ordered(slice) ==
  \A i, j \in DOMAIN slice : i < j => slice[i].end < slice[j].start

(* Faulty search: looks at the place to insert, not at the one before it *)
query_meet_index_After(slice, key) ==
  {i \in DOMAIN slice : i = Cardinality({j \in DOMAIN slice : slice[j].start < key}) + 1}

(***************************************************************************)
(* The offsets (1-based) at which query may look for key: where            *)
(* binary_search_by on start finds it, or one before the place to insert   *)
(* it.  The result of searching an unordered slice is unspecified.         *)
(***************************************************************************)
query_meet_index(slice, key) ==
  LET below == {i \in DOMAIN slice : slice[i].start <= key}
  IN  IF ~Ordered(slice) THEN DOMAIN slice
      ELSE IF slice = <<>> THEN {}
      ELSE {Max({1, Cardinality(below)})}
=============================================================================
