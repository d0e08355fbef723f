----------------------------- MODULE MCSyncRepl -----------------------------
(* SyncRepl with a few entries, for TLC. *)
EXTENDS SyncRepl, TLC

\* No entry is told from another.
Symmetry == Permutations(Uuids)
=============================================================================
