---------------------------- MODULE MCRilService ----------------------------
(* RilService with two vendor threads, two clients and one NITZ message.   *)
EXTENDS RilService

CONSTANTS hidl, v1, v2

MCVendors == {v1, v2}
=============================================================================
