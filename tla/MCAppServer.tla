----------------------------- MODULE MCAppServer ----------------------------
(* AppServer with a few requests of each kind, for TLC. *)
EXTENDS AppServer, TLC
=============================================================================
