---------------------------- MODULE MCLDAPObject ----------------------------
(* LDAPObject with a few operations, for TLC. *)
EXTENDS LDAPObject, TLC
=============================================================================
