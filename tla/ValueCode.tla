------------------------------ MODULE ValueCode ------------------------------
(***************************************************************************)
(* The instructions codegen.c emits for an analysed tree.                  *)
(*                                                                         *)
(* An expression leaves its value in the word it pushes; operands are      *)
(* popped into rax and rcx.  An instruction is a tuple of the operation    *)
(* and its operands.  A jump has the number of instructions it skips (or   *)
(* goes back) for a label: that labels are unique and in place is shown    *)
(* in Codegen.  <<"stop">> stands where the compiler itself ends, in       *)
(* error() or in a failed assertion.                                       *)
(*                                                                         *)
(* The trees are given by their height, so that codegen() of a tree is     *)
(* defined from codegen() of its parts, and is proved about in that order. *)
(***************************************************************************)
EXTENDS Types

CONSTANT Trees   \* Trees[n]: the analysed trees of height n or less

Stop == <<<<"stop">>>>

emit_push_int(n) == <<<<"push_int", n>>>>
emit_push(reg)   == <<<<"push", reg>>>>
emit_pop(reg)    == <<<<"pop", reg>>>>

Operands         == emit_pop("rcx") \o emit_pop("rax")
emit_div         == <<<<"mov_int", 0, "rdx">>, <<"idiv", "rcx">>>>
emit_prologue(localsize) ==
  <<<<"push", "rbp">>, <<"mov", "rsp", "rbp">>, <<"add_int", -localsize, "rsp">>>>

\* Mutants: what is left on the stack is not given up, the caller's frame
\* pointer is left there.
EpilogueNoReset == <<<<"pop", "rbp">>>>
EpilogueNoPop   == <<<<"mov", "rbp", "rsp">>>>

emit_epilogue == <<<<"mov", "rbp", "rsp">>, <<"pop", "rbp">>>>

codegen_movevalue(typ) ==
  CASE IsArray(typ) -> <<>>
    [] typ.kind = "char" /\ ~ IsArray(typ) ->
         emit_pop("rax") \o <<<<"movsbl">>>> \o emit_push("rax")
    [] typ.kind \in {"int", "uint"} -> emit_pop("rax") \o <<<<"movl">>>> \o emit_push("rax")
    [] typ.kind = "ptr" /\ ~ IsArray(typ) ->
         emit_pop("rax") \o <<<<"movq">>>> \o emit_push("rax")
    [] OTHER -> Stop

codegen_movereg(typ, reg) ==
  CASE typ.kind = "char"            -> <<<<"store", 1, reg>>>>
    [] typ.kind \in {"int", "uint"} -> <<<<"store", 4, reg>>>>
    [] typ.kind = "ptr"             -> <<<<"store", 8, reg>>>>
    [] OTHER -> Stop

\* The right operand on the stack is made a number of bytes.
Scale(left, right) ==
  CASE left.kind = "ptr" /\ right = Unset -> Stop
    [] ScaledBy(left, right) ->
         emit_pop("rax") \o <<<<"mov_int", SizeOf(left.ptrof), "rcx">>, <<"imul", "rcx">>>>
         \o emit_push("rax")
    [] OTHER -> <<>>

codegen_add(left, right) ==
  Scale(left, right) \o Operands \o <<<<"add", "rcx", "rax">>>> \o emit_push("rax")

Compare(cond) ==
  Operands \o <<<<"cmp", "rcx", "rax">>, <<"set", cond>>, <<"movzbl">>>> \o emit_push("rax")

Test == emit_pop("rax") \o <<<<"cmp_int", 0, "rax">>>>

\* The left operand of && (leave = "e") or || ("ne") decides, or the right one does.
Logic(left, right, leave, otherwise) ==
  LET rest == right \o Test \o <<<<"set", "ne">>>> \o emit_push("rax") \o <<<<"jmp", 1>>>>
  IN left \o Test \o <<<<"jcc", leave, Len(rest)>>>> \o rest \o emit_push_int(otherwise)

ArgRegs == <<"rdi", "rsi", "rdx", "rcx", "r8", "r9">>

\* Mutant: the registers are popped in the order they were pushed.
RestoreInOrder == FlattenSeq([i \in 1 .. 6 |-> emit_pop(ArgRegs[i])])

Restore == FlattenSeq([i \in 1 .. 6 |-> emit_pop(ArgRegs[7 - i])])

Pass(i) == IF i <= 6 THEN <<<<"mov", "rax", ArgRegs[i]>>>>
           ELSE <<<<"spill", (i - 7) * 8>>>>

\* Every argument is passed as soon as it has its value.
CallCode(fn, args) ==
  LET n == Len(args)
      Passed(i) == args[i] \o emit_pop("rax") \o Pass(i)
      room(k)   == IF n > 6 THEN <<<<"add_int", k * (n - 6) * 8, "rsp">>>> ELSE <<>>
      Args(s)   == FlattenSeq([i \in 1 .. Len(s) |-> Passed(s[i])])
      first     == [i \in 1 .. (IF n < 6 THEN n ELSE 6) |-> i]
      others    == [i \in 1 .. n - Len(first) |-> i + 6]
  IN FlattenSeq([i \in 1 .. 6 |-> emit_push(ArgRegs[i])])
     \o Args(first) \o room(-1) \o Args(others)
     \o <<<<"mov_int", 0, "rax">>, <<"call", fn>>>> \o room(1) \o Restore \o emit_push("rax")

-----------------------------------------------------------------------------
\* The address on the stack once more, then the value it has.
OldValue(place, typ) ==
  place \o emit_pop("rax") \o emit_push("rax") \o emit_push("rax") \o codegen_movevalue(typ)

StoreTop(typ) == Operands \o codegen_movereg(typ, "rcx")
Updated(typ)  == StoreTop(typ) \o emit_push("rcx")

\* Mutant: the value is stored before it is computed.
AssignCodeSwapped(place, value, typ) == value \o place \o StoreTop(typ)

AssignCode(place, value, typ) == place \o value \o StoreTop(typ)

InfixCode(kind, left, right, ltyp, rtyp) ==
  CASE kind = "add" -> left \o right \o codegen_add(ltyp, rtyp)
    [] kind = "sub" -> left \o right \o Scale(ltyp, rtyp) \o Operands
                       \o <<<<"sub", "rcx", "rax">>>> \o emit_push("rax")
    [] kind = "mul" -> left \o right \o Operands \o <<<<"imul", "rcx">>>> \o emit_push("rax")
    [] kind = "div" -> left \o right \o Operands \o emit_div \o emit_push("rax")
    [] kind = "mod" -> left \o right \o Operands \o emit_div \o emit_push("rdx")
    [] kind = "lesser"   -> left \o right \o Compare("l")
    [] kind = "lessereq" -> left \o right \o Compare("le")
    [] kind = "eq"       -> left \o right \o Compare("e")
    [] kind = "band" -> left \o right \o Operands \o <<<<"and", "rcx", "rax">>>>
                        \o emit_push("rax")
    [] kind = "land" -> Logic(left, right, "e", 0)
    [] kind = "lor"  -> Logic(left, right, "ne", 1)

\* breaklabel or contlabel stands behind the first n instructions: what jumps there
\* does so, if no inner loop has taken it.
Labelled(code, jump, n) ==
  [i \in DOMAIN code |-> IF code[i] = <<jump>> THEN <<"jmp", n - i>> ELSE code[i]]

\* Mutant: the loop goes back to its body.
WhileCodeNoTest(cond, body) ==
  LET enter == cond \o Test
  IN enter \o <<<<"jcc", "e", Len(body) + 1>>>> \o body \o <<<<"jmp", -(Len(body) + 1)>>>>

WhileCode(cond, body) ==
  LET enter == cond \o Test \o <<<<"jcc", "e", Len(body) + 1>>>>
      loop  == enter \o body \o <<<<"jmp", -(Len(enter) + Len(body) + 1)>>>>
  IN Labelled(Labelled(loop, "continue", 0), "break", Len(loop))

ForCode(first, cond, next, body) ==
  first \o WhileCode(cond, Labelled(body, "continue", Len(body)) \o next)

IfCode(cond, body, other) ==
  cond \o Test \o <<<<"jcc", "e", Len(body) + 1>>>> \o body
  \o <<<<"jmp", Len(other)>>>> \o other

\* The conditions of a chain of else ifs, and the last else.
ElifCode(conds, bodies, last) ==
  LET n == Len(conds)
      chain[k \in 0 .. n] ==
        IF k = 0 THEN last ELSE IfCode(conds[n - k + 1], bodies[n - k + 1], chain[k - 1])
  IN chain[n]

-----------------------------------------------------------------------------
\* The two functions of codegen.c for one tree, given the code of its parts.
codegen_lvalue(ast, code) ==
  CASE ast.kind = "ident"     -> <<<<"lea", -ast.offset>>>> \o emit_push("rax")
    [] ast.kind = "globalref" -> <<<<"lea_rip", ast.ident>>>> \o emit_push("rax")
    [] ast.kind = "deref"     -> code[<<"value", ast.value>>]
    [] ast.kind = "dot" ->
         code[<<"place", ast.structvalue>>] \o emit_pop("rax")
         \o <<<<"add_int", FieldOf(ast.structvalue.typ, ast.fieldname).offset, "rax">>>>
         \o emit_push("rax")
    [] OTHER -> Stop

codegen(ast, code) ==
  LET Value(a)   == code[<<"value", a>>]
      Place(a)   == code[<<"place", a>>]
      Values(as) == [i \in DOMAIN as |-> Value(as[i])]
  IN
  CASE ast.kind \in {"ident", "globalref", "dot"} ->
         codegen_lvalue(ast, code) \o codegen_movevalue(ast.typ)
    [] ast.kind = "intlit" -> emit_push_int(ast.intval)
    [] ast.kind \in InfixKinds \ Assigned ->
         InfixCode(ast.kind, Value(ast.left), Value(ast.right), ast.left.typ, ast.right.typ)
    [] ast.kind = "minus" ->
         Value(ast.value) \o emit_pop("rax") \o <<<<"neg">>>> \o emit_push("rax")
    [] ast.kind = "assign" ->
         AssignCode(Place(ast.left), Value(ast.right), ast.left.typ)
    [] ast.kind = "addassign" ->
         OldValue(Place(ast.left), ast.left.typ) \o Value(ast.right)
         \o codegen_add(ast.left.typ, ast.right.typ) \o Updated(ast.left.typ)
    [] ast.kind = "mulassign" ->
         OldValue(Place(ast.left), ast.left.typ) \o Value(ast.right)
         \o Operands \o <<<<"imul", "rcx">>>> \o emit_push("rax") \o Updated(ast.left.typ)
    [] ast.kind = "preinc" ->
         OldValue(Place(ast.value), ast.value.typ) \o emit_push_int(1)
         \o codegen_add(ast.value.typ, INT) \o Updated(ast.value.typ)
    [] ast.kind = "addr"  -> Place(ast.value)
    [] ast.kind = "deref" -> Value(ast.value) \o codegen_movevalue(ast.typ)
    [] ast.kind = "call"  -> CallCode(ast.call, Values(ast.arguments))
    [] ast.kind = "statements" -> FlattenSeq(Values(ast.stmts))
    [] ast.kind = "return" ->
         Value(ast.value) \o (IF ast.value.kind = "null" THEN <<>> ELSE emit_pop("rax"))
         \o emit_epilogue \o <<<<"ret">>>>
    [] ast.kind = "null" -> <<>>
    [] ast.kind \in {"break", "continue"} -> <<<<ast.kind>>>>
    [] ast.kind = "if" ->
         IfCode(Value(ast.ifcond), Value(ast.ifbody),
                ElifCode(Values(ast.elifconds), Values(ast.elifbodies), Value(ast.elsebody)))
    [] ast.kind = "while" -> WhileCode(Value(ast.whilecond), Value(ast.whilebody))
    [] ast.kind = "for"   ->
         ForCode(Value(ast.forinit), Value(ast.forcond), Value(ast.fornext), Value(ast.forbody))

-----------------------------------------------------------------------------
AllTrees == Trees[Len(Trees)]

\* The trees whose code pushes a value; an assignment is none of them (codegen.c:277).
ValueKinds ==
  (InfixKinds \ {"assign"})
  \cup {"ident", "globalref", "intlit", "minus", "preinc", "addr", "deref", "dot", "call"}

\* What the parser and the analysis let codegen() have, without the programs whose
\* operand, argument or condition is an assignment or is not there.
Scalable(typ) == typ.kind = "ptr" => SizeOf(typ.ptrof) \in Nat
WellFormed(ast, parts) ==
  LET values == {a \in parts : a.kind \in ValueKinds} IN
  \/ ast.kind \in {"null", "globalref", "break", "continue"}
  \/ ast.kind = "ident"  /\ ast.offset \in Nat
  \/ ast.kind = "intlit" /\ ast.intval \in Int
  \/ /\ ast.kind \in InfixKinds
     /\ ast.right \in values
     /\ ast.left \in IF ast.kind \in Assigned THEN parts ELSE values
     /\ Scalable(ast.left.typ)
  \/ ast.kind \in {"minus", "deref"} /\ ast.value \in values
  \/ ast.kind = "addr"   /\ ast.value \in parts
  \/ ast.kind = "preinc" /\ ast.value \in parts /\ Scalable(ast.value.typ)
  \/ ast.kind = "return" /\ ast.value \in parts /\ ast.value.kind \in ValueKinds \cup {"null"}
  \/ /\ ast.kind = "dot"
     /\ ast.structvalue \in parts
     /\ FieldOf(ast.structvalue.typ, ast.fieldname).offset \in Nat
  \/ ast.kind = "call"       /\ ast.arguments \in Seq(values)
  \/ ast.kind = "statements" /\ ast.stmts \in Seq(parts)
  \/ /\ ast.kind = "if"
     /\ ast.ifcond \in values /\ {ast.ifbody, ast.elsebody} \subseteq parts
     /\ ast.elifconds \in Seq(values) /\ ast.elifbodies \in Seq(parts)
     /\ Len(ast.elifconds) = Len(ast.elifbodies)
  \/ ast.kind = "while" /\ ast.whilecond \in values /\ ast.whilebody \in parts
  \/ /\ ast.kind = "for"
     /\ ast.forcond \in values /\ {ast.forinit, ast.fornext, ast.forbody} \subseteq parts

ASSUME TreesAssumption ==
  /\ Trees # <<>> /\ Trees \in Seq(SUBSET AllTrees)
  /\ \A ast \in Trees[1] : WellFormed(ast, {})
  /\ \A n \in 2 .. Len(Trees) :
       Trees[n - 1] \subseteq Trees[n] /\ \A ast \in Trees[n] : WellFormed(ast, Trees[n - 1])

\* The code of every tree, as a value and as a place.
Code[x \in {"value", "place"} \X AllTrees] ==
  IF x[1] = "value" THEN codegen(x[2], Code) ELSE codegen_lvalue(x[2], Code)

-----------------------------------------------------------------------------
StackSize(fn) == Offset(fn.params \o fn.vars, Len(fn.params \o fn.vars))

\* Where the callee finds its i-th parameter; from the seventh on it looks
\* below its own frame pointer.
StoreParam(fn, i) ==
  <<<<"lea", -Offset(fn.params, i)>>>>
  \o IF i <= 6 THEN codegen_movereg(fn.params[i].typ, ArgRegs[i])
     ELSE <<<<"reload", -(i - 6) * 8>>>> \o codegen_movereg(fn.params[i].typ, "rcx")

\* Mutant: the locals get no room.
PrologueShort(fn) == emit_prologue(0)

Prologue(fn) == emit_prologue(StackSize(fn))

\* fn.tree is the analysed body; the compiler may have stopped in the analysis.
codegen_funcdecl(fn) ==
  IF fn.tree.typ = Stopped THEN Stop
  ELSE Prologue(fn) \o FlattenSeq([i \in DOMAIN fn.params |-> StoreParam(fn, i)])
       \o Code[<<"value", fn.tree>>] \o emit_epilogue \o <<<<"ret">>>>

\* The compiler accepts no other initial values.
codegen_globalvar(var) ==
  CASE var.init.kind = "null"   -> <<"zero", SizeOf(var.typ)>>
    [] var.init.kind = "intlit" -> <<"int", var.init.intval>>
    [] var.init.kind = "minus" /\ var.init.value.kind = "intlit" ->
         <<"int", -var.init.value.intval>>
    [] var.init.kind = "strlit" -> <<"ascii", Append(var.init.strval, 0)>>
    [] OTHER -> <<"stop">>

codegen_strlit(info) == <<"ascii", Append(info.strval, 0)>>
===============================================================================
