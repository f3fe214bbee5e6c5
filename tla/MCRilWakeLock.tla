--------------------------- MODULE MCRilWakeLock ---------------------------
(* RilWakeLock with two vendor threads, three heap blocks, three messages. *)
EXTENDS RilWakeLock

CONSTANTS v1, v2, hidl, p1, p2, p3

MCVendors == {v1, v2}
MCInfos == {p1, p2, p3}
=============================================================================
