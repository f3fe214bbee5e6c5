-------------------------- MODULE MCLocEngSession --------------------------
EXTENDS LocEngSession
=============================================================================
