--------------------------- MODULE MCInMemoryTree ---------------------------
\* The in-memory tree on the small sets its configurations give.
EXTENDS InMemoryTree, TLC

Names == Permutations(RDNs)
=============================================================================
