--------------------------- MODULE MCVersionCleaner ---------------------------
(* Small instances of VersionCleaner. *)
EXTENDS VersionCleaner
=============================================================================
