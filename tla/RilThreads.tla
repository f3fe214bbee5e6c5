----------------------------- MODULE RilThreads -----------------------------
(***************************************************************************)
(* The threads of libril that share its locks: those of the vendor RIL,    *)
(* which deliver messages through RIL_onRequestComplete and                *)
(* RIL_onUnsolicitedResponse, and the one HIDL thread, which registerRadio *)
(* allows the framework to call on (configureRpcThreadpool(1, true)).      *)
(***************************************************************************)
EXTENDS FiniteSets

CONSTANTS
  Vendors,      \* threads of the vendor RIL
  Binder,       \* the HIDL thread
  NoThread      \* a lock has no owner, or no writer

Threads == Vendors \cup {Binder}

ASSUME ThreadsDiffer ==
  IsFiniteSet(Vendors) /\ Binder \notin Vendors /\ NoThread \notin Threads

=============================================================================
