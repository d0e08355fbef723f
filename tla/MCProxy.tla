------------------------------ MODULE MCProxy -------------------------------
(* Proxy with each class and a few requests, for TLC. *)
EXTENDS Proxy, TLC
=============================================================================
