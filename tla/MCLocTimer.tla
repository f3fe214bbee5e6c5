----------------------------- MODULE MCLocTimer -----------------------------
EXTENDS LocTimer
\* Three clients of one container.
CONSTANTS l1, l2, l3, timers, d1, d2, d3
=============================================================================
