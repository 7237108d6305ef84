--------------------------------- MODULE Types ---------------------------------
(***************************************************************************)
(* Type nodes, and the type semantic.c gives an operation.                 *)
(*                                                                         *)
(* A tree is a record with the fields of an astree that its kind uses; an  *)
(* analysed tree has the field typ as well.  Null is a part that is not    *)
(* there.                                                                  *)
(***************************************************************************)
EXTENDS Integers, Sequences, SequencesExt, TLC

CONSTANT SizeOf(_)   \* typesize(), which calls itself: Typing defines it

\* Types.  An array is a pointer whose truetype has the size (new_arraynode).
INT  == [kind |-> "int"]
UINT == [kind |-> "uint"]
CHAR == [kind |-> "char"]
PtrTo(typ)        == [kind |-> "ptr", ptrof |-> typ]
ArrayOf(typ, n)   == [kind |-> "ptr", ptrof |-> typ, arraysize |-> n]
Struct(fields, n) == [kind |-> "struct", fields |-> fields, structsize |-> n]

Unset   == [kind |-> "unset"]     \* typ is still NULL
Stopped == [kind |-> "stopped"]   \* error(), or a NULL typ is dereferenced

Null == [kind |-> "null"]

IsArray(typ) == "arraysize" \in DOMAIN typ

\* A type node whose kind is read: there has to be one.
is_implicit_int(typ) == typ.kind \in {"int", "uint", "char", "ptr"}

ScaledBy(left, right) == left.kind = "ptr" /\ right.kind = "int"

-----------------------------------------------------------------------------
Summed   == {"add", "sub"}
Numbered == {"mul", "div", "mod", "lesser", "lessereq"}
Assigned == {"assign", "addassign", "mulassign"}
Untyped  == {"eq", "land", "lor", "band"}
InfixKinds == Summed \cup Numbered \cup Assigned \cup Untyped

\* Mutant: the sum of a pointer and a number is a number.
InfixTypeNumber(kind, left, right) ==
  IF kind \in Untyped THEN Unset ELSE INT

InfixType(kind, left, right) ==
  CASE kind \in Assigned -> INT
    [] kind \in Untyped  -> Unset
    [] kind \in Summed /\ ScaledBy(left, right) -> left
    [] kind \in Summed /\ left = UINT /\ is_implicit_int(right) -> left
    [] OTHER -> IF is_implicit_int(left) /\ is_implicit_int(right) THEN INT ELSE Stopped

FieldOf(typ, name) == CHOOSE f \in ToSet(typ.fields) : f.name = name
HasField(typ, name) == typ.kind = "struct" /\ \E f \in ToSet(typ.fields) : f.name = name

\* The analysis ends at the first part it stops in.
Typed(node, parts, typ) ==
  [typ |-> IF \E p \in ToSet(parts) : p.typ = Stopped THEN Stopped ELSE typ] @@ node

\* A pointer with a string for its initial value becomes the array of the string.
GlobalType(var) ==
  IF var.init.kind = "strlit" THEN ArrayOf(CHAR, Len(var.init.strval) + 1) ELSE var.typ

-----------------------------------------------------------------------------
\* s[1] + ... + s[n].
PartialSum(s, n) ==
  LET sum[i \in 0 .. n] == IF i = 0 THEN 0 ELSE sum[i - 1] + s[i] IN sum[n]

\* Variables get their slots in the order they are declared, parameters first.
Offset(vars, i) == PartialSum([j \in DOMAIN vars |-> SizeOf(vars[j].typ)], i)
Slots(vars) ==
  [x \in {v.name : v \in ToSet(vars)} |->
    LET i == CHOOSE j \in DOMAIN vars : vars[j].name = x
    IN [typ |-> vars[i].typ, offset |-> Offset(vars, i)]]

\* Functions, variables and string literals have a name each.
IndexOf(s, x) == CHOOSE i \in DOMAIN s : s[i].name = x
NamesIn(s) == {x.name : x \in ToSet(s)}
===============================================================================
