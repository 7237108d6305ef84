---------------------------- MODULE MCTypeTable -----------------------------
(***************************************************************************)
(* The tables of the parser and the maps they are made of: TypeTable with  *)
(* two tags and two typedef names, and beside it VectorMap with four names *)
(* and two values.  TypeTable takes maps as partial functions, so the two  *)
(* share no state, and a behaviour is one of either.                       *)
(***************************************************************************)
EXTENDS TypeTable, VectorMap

CONSTANTS tag1, tag2, name1, name2

MCTags == {tag1, tag2}
MCAliases == {name1, name2}

TablesInit == Init /\ MapInit

TablesNext ==
  \/ call = <<>> /\ Next /\ UNCHANGED mapvars
  \/ tops = 0 /\ MapNext /\ UNCHANGED vars

TablesSpec == TablesInit /\ [][TablesNext]_<<vars, mapvars>>
=============================================================================
