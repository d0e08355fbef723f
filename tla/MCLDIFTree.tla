----------------------------- MODULE MCLDIFTree -----------------------------
(* LDIFTree with an entry a and below it an entry b; one writer makes      *)
(* entries named a and c, the other entries named b.                       *)
EXTENDS LDIFTree, TLC

CONSTANTS r1, w1, w2, a, b, c

MCNamesOf == [w \in Writers |-> IF w = w1 THEN {a, c} ELSE {b}]
MCStart == <<a>> :> 1 @@ <<b, a>> :> 2
=============================================================================
