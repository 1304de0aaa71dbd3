------------------------------ MODULE MCCsrss ------------------------------
\* Small instances of the application table for TLC.
EXTENDS Csrss
=============================================================================
