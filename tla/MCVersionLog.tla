----------------------------- MODULE MCVersionLog -----------------------------
EXTENDS VersionLog
=============================================================================
