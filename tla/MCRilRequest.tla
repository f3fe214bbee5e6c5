---------------------------- MODULE MCRilRequest ----------------------------
(* RilRequest with three framework requests: a GET_SIM_STATUS, a manual    *)
(* network selection and a plain one; two vendor threads and two blocks.   *)
EXTENDS RilRequest

CONSTANTS hidl, act1, v1, v2, k1, k2

MCRequests == 1..3
MCOneActivator == {act1}
MCVendors == {v1, v2}
MCManual == {2}
MCOneCardStatus == {1}
MCTokens == {k1, k2}
=============================================================================
