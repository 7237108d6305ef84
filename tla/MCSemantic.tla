----------------------------- MODULE MCSemantic -----------------------------
(***************************************************************************)
(* Semantic with two names and three types: a byte, an eight-byte pointer  *)
(* and a struct without a body.                                            *)
(***************************************************************************)
EXTENDS Semantic, TLC

CONSTANTS x, y, char, ptr, incomplete

MCNames == {x, y}
MCTypes == {char, ptr, incomplete}
MCIncomplete == {incomplete}
MCSize == [t \in {char, ptr} |-> IF t = char THEN 1 ELSE 8]
Symmetry == Permutations(MCNames)
=============================================================================
