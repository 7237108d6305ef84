--------------------------- MODULE MCStructLayout ---------------------------
(***************************************************************************)
(* StructLayout with sncc's scalar types and short arrays.                 *)
(***************************************************************************)
EXTENDS StructLayout

char == [size |-> 1, align |-> 1]
int == [size |-> 4, align |-> 4]
ptr == [size |-> 8, align |-> 8]

MCBase == {char, int, ptr}
=============================================================================
