---------------------------- MODULE MCLDAPClient ----------------------------
(* LDAPClient with a few calls of each kind, for TLC. *)
EXTENDS LDAPClient, TLC
=============================================================================
