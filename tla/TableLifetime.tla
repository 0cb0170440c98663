---------------------------- MODULE TableLifetime ----------------------------
(***************************************************************************)
(* What the pair Version / Cleaner promises to the readers of the store:   *)
(* a table is removed only when no version that somebody still holds       *)
(* refers to it.  How the decision is taken (numbers, channel, hand-over   *)
(* of pending tables) is the business of VersionCleaner.                   *)
(***************************************************************************)
EXTENDS Naturals

VARIABLES
  pinned,   \* pinned[n]: tables of version n, for every version n in use
  removed   \* tables whose files have been removed

vars == <<pinned, removed>>

InUse(p) == UNION {p[n] : n \in DOMAIN p}

Init ==
  /\ pinned \in [{1} -> SUBSET Nat]
  /\ removed = {}

(***************************************************************************)
(* Versions come and go.  A version that appears refers to no removed      *)
(* table, and a version in use never changes.                              *)
(***************************************************************************)
Switch ==
  /\ UNCHANGED removed
  /\ DOMAIN pinned' \subseteq Nat
  /\ \A n \in DOMAIN pinned' :
       IF n \in DOMAIN pinned THEN pinned'[n] = pinned[n]
                              ELSE pinned'[n] \cap removed = {}

Remove ==
  /\ UNCHANGED pinned
  /\ removed \subseteq removed'
  /\ (removed' \ removed) \cap InUse(pinned) = {}

Next == Switch \/ Remove

Spec == Init /\ [][Next]_vars
=============================================================================
