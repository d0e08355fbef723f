----------------------------- MODULE MCReconnect ----------------------------
(* Reconnect for TLC. *)
EXTENDS Reconnect
=============================================================================
