---------------------------- MODULE MCContactBook ----------------------------
(* Small instances of ContactBook for TLC. *)
EXTENDS ContactBook

CONSTANTS k1, k2

MCContacts == {k1, k2}
==============================================================================
