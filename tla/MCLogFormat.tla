----------------------------- MODULE MCLogFormat -----------------------------
EXTENDS LogFormat
=============================================================================
