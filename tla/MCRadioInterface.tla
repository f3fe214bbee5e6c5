--------------------------- MODULE MCRadioInterface ---------------------------
(* The whole table of methods, answers and indications on a 64-bit build. *)
EXTENDS RadioInterface

LibraryVersions == {12, 15}
=============================================================================
