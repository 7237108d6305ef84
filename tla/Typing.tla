-------------------------------- MODULE Typing --------------------------------
(***************************************************************************)
(* The types semantic.c writes into the nodes of a function's tree, and    *)
(* the nodes it replaces: a++ by ++a - 1, sizeof by its value.             *)
(*                                                                         *)
(* The variables a tree may name are given as `env': locals with type and  *)
(* slot (how slots are given out is Semantic's), globals, and the return   *)
(* types of functions.  A string literal comes with the label that         *)
(* gen_label() will give it.                                               *)
(***************************************************************************)
EXTENDS Types

RECURSIVE typesize(_)
typesize(typ) ==
  CASE IsArray(typ)                     -> typ.arraysize * typesize(typ.ptrof)
    [] typ.kind = "ptr" /\ ~ IsArray(typ) -> 8
    [] typ.kind \in {"int", "uint"}      -> 4
    [] typ.kind = "char"                 -> 1
    [] typ.kind = "struct"               -> typ.structsize

RECURSIVE semantic_analysis(_, _)
semantic_analysis(ast, env) ==
  LET Of(a)      == semantic_analysis(a, env)
      All(s)     == [i \in DOMAIN s |-> Of(s[i])]
      Unary(typ(_)) ==
        LET v == Of(ast.value) IN
        Typed([ast EXCEPT !.value = v], <<v>>, typ(v.typ))
      Number(v, n) == IF v = Stopped THEN [kind |-> "intlit", intval |-> 0, typ |-> Stopped]
                      ELSE [kind |-> "intlit", intval |-> n, typ |-> INT]
  IN
  CASE ast.kind = "ident" ->
         IF ast.ident \in DOMAIN env.locals THEN env.locals[ast.ident] @@ ast
         ELSE IF ast.ident \in DOMAIN env.globals
         THEN [kind |-> "globalref", typ |-> env.globals[ast.ident]] @@ ast
         ELSE Typed(ast, <<>>, Stopped)
    [] ast.kind = "intlit" -> Typed(ast, <<>>, INT)
    [] ast.kind = "strlit" ->
         [kind |-> "globalref", ident |-> ast.label,
          typ |-> ArrayOf(CHAR, Len(ast.strval) + 1)] @@ ast
    [] ast.kind \in {"null", "break", "continue"} -> Typed(ast, <<>>, Unset)
    [] ast.kind \in InfixKinds ->
         LET l == Of(ast.left)
             r == Of(ast.right)
         IN Typed([ast EXCEPT !.left = l, !.right = r], <<l, r>>,
                  InfixType(ast.kind, l.typ, r.typ))
    [] ast.kind \in {"minus", "preinc"} -> Unary(LAMBDA t : t)
    [] ast.kind = "postinc" ->
         Of([kind  |-> "sub", left |-> [kind |-> "preinc", value |-> ast.value],
             right |-> [kind |-> "intlit", intval |-> 1]])
    [] ast.kind = "addr"  -> Unary(PtrTo)
    [] ast.kind = "deref" -> Unary(LAMBDA t : IF t.kind = "ptr" THEN t.ptrof ELSE Stopped)
    [] ast.kind = "dot" ->
         LET s == Of(ast.structvalue) IN
         Typed([ast EXCEPT !.structvalue = s], <<s>>,
               IF HasField(s.typ, ast.fieldname) THEN FieldOf(s.typ, ast.fieldname).typ
               ELSE Stopped)
    [] ast.kind = "call" ->
         LET args == All(ast.arguments) IN
         Typed([ast EXCEPT !.arguments = args], args,
               IF ast.call \in DOMAIN env.fns THEN env.fns[ast.call] ELSE INT)
    [] ast.kind = "sizeof_expr" ->
         LET t == Of(ast.value).typ IN
         IF t \in {Unset, Stopped} THEN Number(Stopped, 0) ELSE Number(t, typesize(t))
    [] ast.kind = "sizeof_type" -> Number(INT, typesize(ast.typedesc))
    [] ast.kind = "statements" ->
         LET s == All(ast.stmts) IN Typed([ast EXCEPT !.stmts = s], s, Unset)
    [] ast.kind = "return" -> Unary(LAMBDA t : Unset)
    [] ast.kind = "if" ->
         LET c == Of(ast.ifcond)
             b == Of(ast.ifbody)
             cs == All(ast.elifconds)
             bs == All(ast.elifbodies)
             e == Of(ast.elsebody)
         IN Typed([ast EXCEPT !.ifcond = c, !.ifbody = b, !.elifconds = cs,
                              !.elifbodies = bs, !.elsebody = e],
                  <<c, b, e>> \o cs \o bs, Unset)
    [] ast.kind = "while" ->
         LET c == Of(ast.whilecond)
             b == Of(ast.whilebody)
         IN Typed([ast EXCEPT !.whilecond = c, !.whilebody = b], <<c, b>>, Unset)
    [] ast.kind = "for" ->
         LET i == Of(ast.forinit)
             c == Of(ast.forcond)
             n == Of(ast.fornext)
             b == Of(ast.forbody)
         IN Typed([ast EXCEPT !.forinit = i, !.forcond = c, !.fornext = n, !.forbody = b],
                  <<i, c, n, b>>, Unset)
-----------------------------------------------------------------------------
Env(p) ==
  [globals |-> [x \in NamesIn(p.globals) |-> GlobalType(p.globals[IndexOf(p.globals, x)])],
   fns     |-> [f \in NamesIn(p.fns) |-> INT]]

\* The program with the analysed tree of every function.
Analysed(p) ==
  LET Tree(fn) == semantic_analysis([kind |-> "statements", stmts |-> fn.body],
                    [locals |-> Slots(fn.params \o fn.vars)] @@ Env(p))
  IN [p EXCEPT !.fns = [i \in DOMAIN p.fns |-> [tree |-> Tree(p.fns[i])] @@ p.fns[i]]]
===============================================================================
