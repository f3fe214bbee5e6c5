------------------------- MODULE MCAgpsStateMachine -------------------------
(* A small instance of AgpsStateMachine: two clients that ask twice. *)
EXTENDS AgpsStateMachine

=============================================================================
