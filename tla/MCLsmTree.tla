------------------------------ MODULE MCLsmTree -------------------------------
EXTENDS LsmTree, TLC

MCKeys == 1..3

(* With a file size of 3: one shard (none for key 1 alone), a cut behind 2,      *)
(* behind both, and a first pair too long for its shard, which stays empty, with *)
(* a cut behind 1.                                                                *)
MCSizes == {<<0, 1, 1>>, <<1, 1, 2>>, <<1, 3, 3>>, <<3, 3, 3>>}

(* With a threshold of 1 every flush starts a cascade of rounds. *)
MCMaxTasks == [t \in Thresholds |-> IF t = 1 THEN 3 ELSE 4]
=============================================================================
