----------------------------- MODULE MCLocEngNi -----------------------------
(* LocEngNi with few requests and restarts.                                *)
EXTENDS LocEngNi

=============================================================================
