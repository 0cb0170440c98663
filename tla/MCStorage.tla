------------------------------ MODULE MCStorage ------------------------------
EXTENDS Storage

Budget(opens, writes, tx, flushes, seeks, cancels, failures) ==
  [opens |-> opens, writes |-> writes, tx |-> tx, flushes |-> flushes, seeks |-> seeks,
   cancels |-> cancels, failures |-> failures]

(* Two writers and flushes of one handle, with an I/O error *)
Writers == Budget(1, 3, 0, 2, 1, 0, 1)

(* A transaction that overlaps a flush, and cancelled calls *)
Transactions == Budget(1, 2, 2, 1, 0, 1, 1)

(* Handles dropped, with a transaction or a Seek left behind, and opened again *)
Reopened == Budget(2, 1, 1, 0, 1, 0, 0)

MCBudgets == {Writers, Transactions, Reopened}
=============================================================================
