----------------------------- MODULE MCLDAPEntry ----------------------------
(* LDAPEntry with a name and one attribute, the password, for TLC. *)
EXTENDS LDAPEntry, TLC

\* No value is told from another.
Symmetry == Permutations(Values)
=============================================================================
