------------------------------- MODULE MCValues -------------------------------
(***************************************************************************)
(* Small programs for Machine, and the comparison of what they do with     *)
(* what they mean in C.                                                    *)
(***************************************************************************)
EXTENDS Machine, Typing

C == INSTANCE CMeaning

MCExternals == [ext2 |-> 2, ext5 |-> 5, ext8 |-> 8]

\* Trees.
N(n)       == [kind |-> "intlit", intval |-> n]
Id(x)      == [kind |-> "ident", ident |-> x]
Bin(k, l, r) == [kind |-> k, left |-> l, right |-> r]
Un(k, v)   == [kind |-> k, value |-> v]
At(a, i)   == Un("deref", Bin("add", a, i))
Dot(s, f)  == [kind |-> "dot", structvalue |-> s, fieldname |-> f]
Fn(f, as)  == [kind |-> "call", call |-> f, arguments |-> as]
Ret(v)     == Un("return", v)
Block(s)    == [kind |-> "statements", stmts |-> s]
\* if with the else branches after it, and the last of them.
Choice(c, s, conds, bodies, t) ==
  [kind |-> "if", ifcond |-> c, ifbody |-> s, elifconds |-> conds, elifbodies |-> bodies,
   elsebody |-> t]
IfElse(c, s, t) == Choice(c, s, <<>>, <<>>, t)
If(c, s)    == IfElse(c, s, Null)
Break       == [kind |-> "break"]
Continue    == [kind |-> "continue"]
While(c, s) == [kind |-> "while", whilecond |-> c, whilebody |-> s]
For(i, c, n, s) == [kind |-> "for", forinit |-> i, forcond |-> c, fornext |-> n, forbody |-> s]
Let(x, e)   == Bin("assign", x, e)

Pair == Struct(<<[name |-> "x", typ |-> INT, offset |-> 0],
                 [name |-> "q", typ |-> PtrTo(INT), offset |-> 8]>>, 16)
Var(x, typ)     == [name |-> x, typ |-> typ]
Global(x, typ, init) == [name |-> x, typ |-> typ, init |-> init]
Func(f, params, locals, body) == [name |-> f, params |-> params, vars |-> locals, body |-> body]
MainOf(locals, body) == Func("main", <<>>, locals, body)
Text == [L1 |-> <<1, 1, 1>>, L2 |-> <<>>]
Str(l) == [kind |-> "strlit", strval |-> Text[l], label |-> l]
Literals == <<[name |-> "L1", strval |-> Text.L1], [name |-> "L2", strval |-> Text.L2]>>
ProgWith(init, fns) ==
  [globals |-> <<Global("g", INT, N(2)), Global("z", PtrTo(INT), Null), Global("h", INT, Null),
                 Global("m", PtrTo(CHAR), Str("L1")), Global("n", INT, init)>>,
   strlits |-> Literals, fns |-> fns]
Prog(fns) == ProgWith(Un("minus", N(3)), fns)

-----------------------------------------------------------------------------
\* Variables of main with the statement that gives each its first value.
Locals ==
  <<Var("a", INT), Var("c", CHAR), Var("p", PtrTo(INT)), Var("r", ArrayOf(INT, 3)),
    Var("s", Pair), Var("t", PtrTo(Pair)), Var("k", PtrTo(CHAR)), Var("w", ArrayOf(CHAR, 2)),
    Var("u", UINT)>>
Starts ==
  [a |-> Let(Id("a"), N(3)), c |-> Let(Id("c"), N(1)), p |-> Let(Id("p"), Id("r")),
   r |-> Block(<<Let(At(Id("r"), N(0)), N(7)), Let(At(Id("r"), N(1)), N(5))>>),
   s |-> Block(<<Let(Dot(Id("s"), "x"), N(4)), Let(Dot(Id("s"), "q"), Un("addr", Dot(Id("s"), "x")))>>),
   t |-> Let(Id("t"), Un("addr", Id("s"))), k |-> Let(Id("k"), Id("w")),
   w |-> Let(At(Id("w"), N(1)), N(1)), u |-> Let(Id("u"), N(2))]

\* The variables a tree names, and those they point to.
RECURSIVE Names(_)
Names(e) ==
  CASE e.kind = "ident"  -> {e.ident}
    [] e.kind \in {"intlit", "sizeof_type", "strlit"} -> {}
    [] e.kind \in InfixKinds -> Names(e.left) \cup Names(e.right)
    [] e.kind = "dot"    -> Names(e.structvalue)
    [] e.kind = "call"   -> UNION {Names(a) : a \in ToSet(e.arguments)}
    [] OTHER -> Names(e.value)
Reached(names) == names \cup (IF "p" \in names THEN {"r"} ELSE {})
                        \cup (IF "t" \in names THEN {"s"} ELSE {})
                        \cup (IF "k" \in names THEN {"w"} ELSE {})

\* main gives the variables of e their first values and returns e.
Returning(e) ==
  LET used(v) == v.name \in Reached(Names(e))
      decls == SelectSeq(Locals, used)
  IN Prog(<<MainOf(decls, [i \in DOMAIN decls |-> Starts[decls[i].name]] \o <<Ret(e)>>)>>)

Operand1 == {N(0), N(2), Id("a"), Id("g"), At(Id("p"), N(1)), Id("c"), Dot(Id("s"), "x"), Id("u")}
Binary == <<"add", "sub", "mul", "div", "mod", "lesser", "lessereq", "eq", "band", "land", "lor">>

Single(k) == {Bin(k, l, r) : l \in Operand1, r \in Operand1}
Few == {N(1), Id("a")}
Double(k) == {Bin(k, Bin(j, l, N(2)), r) : j \in ToSet(Binary), l \in Few, r \in Few}
        \cup {Bin(k, l, Bin(j, N(3), r)) : j \in ToSet(Binary), l \in Few, r \in Few}

\* Places: pointers to ints, to characters and to structures, fields, sizes.
Pointers ==
  {Bin("add", Id("p"), N(1)), Bin("sub", Bin("add", Id("r"), N(2)), N(1)), Un("addr", At(Id("r"), N(1))),
   Un("addr", Id("a")), Un("addr", Dot(Id("s"), "x")), Un("postinc", Id("p")), Un("preinc", Id("p")),
   Bin("addassign", Id("p"), N(1)), Bin("add", Id("k"), N(1)), Bin("add", Id("w"), N(1)),
   Un("addr", Dot(Un("deref", Id("t")), "x")), Bin("add", Id("p"), Id("c")),
   Bin("add", N(1), Id("p")), Un("addr", N(1)), Id("a"), Dot(Id("s"), "q"), Un("addr", Id("s"))}
Throughs ==
  {Un("deref", e) : e \in Pointers} \cup {Un("sizeof_expr", e) : e \in Pointers}
  \cup {Un("sizeof_expr", Un("deref", e)) : e \in Pointers}
  \cup {Un(k, e) : k \in {"preinc", "postinc", "minus", "sizeof_expr"},
                   e \in Operand1 \cup {Bin("eq", Id("a"), N(3)), Un("addr", Id("a")), Id("r"), Id("s")}}
  \cup {Bin(k, l, N(2)) : k \in {"addassign", "mulassign"}, l \in Operand1}
  \cup {Bin("eq", Un("addr", Dot(Un("deref", Id("t")), "x")), Un("addr", Dot(Id("s"), "x"))),
        Bin("addassign", Id("p"), Bin("eq", Id("a"), N(3))),
        Dot(Id("a"), "x"), Dot(Id("s"), "y"), Id("undeclared"),
        Dot(Un("deref", Id("t")), "x"), Dot(Un("preinc", Id("a")), "x"),
        Un("sizeof_expr", Un("minus", Id("c"))), Un("sizeof_expr", Bin("add", Id("c"), Id("c"))),
        [kind |-> "sizeof_type", typedesc |-> ArrayOf(PtrTo(CHAR), 3)]}

\* Calls: arguments by register and on the stack, calls within arguments, and
\* functions that compute with their parameters.
Params(n) == [i \in 1 .. n |-> Var(<<"p1", "p2", "p3", "p4", "p5", "p6", "p7">>[i], INT)]
Sub(n) == Func("sub", Params(n), <<Var("l", INT)>>,
  <<Let(Id("l"), N(1)),
    Ret(Bin("sub", Bin("add", Id("p1"), Id("l")), Id(Params(n)[n].name)))>>)
Swap == Func("swap", <<Var("x", PtrTo(INT)), Var("y", PtrTo(INT)), Var("c", CHAR)>>,
  <<Var("l", INT)>>,
  <<Let(Id("l"), Un("deref", Id("x"))),
    Let(Un("deref", Id("x")), Bin("add", Un("deref", Id("y")), Id("c"))),
    Let(Un("deref", Id("y")), Id("l")), Ret(Id("l"))>>)

Args == {N(1), Id("a"), Bin("add", Id("a"), N(1)), Bin("mul", N(2), N(2)),
         Bin("land", Id("a"), N(1)), Fn("ext2", <<N(1), Bin("div", Id("a"), N(2))>>)}
\* f(1, ..., e, ..., 1) with e the i-th argument.
CallWith(f, n, i, e) == Fn(f, [j \in 1 .. n |-> IF j = i THEN e ELSE N(1)])
Calls ==
  {Returning(Bin("sub", N(90), CallWith(f, MCExternals[f], i, e))) :
      f \in {"ext5", "ext8"}, i \in 1 .. 5, e \in Args}
  \cup {Returning(Bin("sub", Id("a"), CallWith("ext8", 8, i, e))) : i \in 6 .. 8, e \in Args}
  \cup {Prog(<<Sub(n), MainOf(<<>>, <<Ret(Bin("add", N(8), Fn("sub", [j \in 1 .. n |-> N(j + 3)])))>>)>>) :
          n \in 1 .. 7}
  \cup {Prog(<<Sub(3), MainOf(<<>>, <<Ret(Fn("sub", [j \in 1 .. 3 |->
          IF j = i THEN Fn("sub", <<N(7), N(8), e>>) ELSE N(j)]))>>)>>) :
          i \in 1 .. 3, e \in {N(2), Fn("ext2", <<N(1), N(2)>>)}}
  \cup {Prog(<<Swap, MainOf(<<Var("a", INT), Var("b", INT)>>,
          <<Let(Id("a"), N(9)), Let(Id("b"), N(4)), Let(Id("g"), N(7)),
            Fn("swap", <<Un("addr", Id("a")), Un("addr", y), N(1)>>),
            Ret(Bin("sub", Bin("mul", Id("a"), N(3)), y))>>)>>) : y \in {Id("a"), Id("b"), Id("g"), Id("h")}}

\* Recursion, and loops that leave the values of their statements on the stack.
Fact == Func("fact", <<Var("n", INT)>>, <<>>,
  <<If(Bin("lessereq", Id("n"), N(1)), Ret(N(1))),
    Ret(Bin("mul", Id("n"), Fn("fact", <<Bin("sub", Id("n"), N(1))>>)))>>)
Fib == Func("fib", <<Var("n", INT)>>, <<>>,
  <<If(Bin("lesser", Id("n"), N(2)), Ret(Id("n"))),
    Ret(Bin("add", Fn("fib", <<Bin("sub", Id("n"), N(1))>>), Fn("fib", <<Bin("sub", Id("n"), N(2))>>)))>>)
Count(body) == Func("count", <<Var("n", INT)>>, <<Var("i", INT), Var("l", INT)>>,
  <<Let(Id("i"), N(0)), Let(Id("l"), N(1)),
    While(Bin("lesser", Id("i"), Id("n")), Block(body)), Ret(Id("l"))>>)
Bodies ==
  {<<Let(Id("i"), Bin("add", Id("i"), N(1)))>>,
   <<Un("preinc", Id("i")), Bin("mulassign", Id("l"), N(2))>>,
   <<If(Bin("lesser", Id("l"), Un("preinc", Id("i"))), Bin("addassign", Id("l"), Id("n"))),
     Un("postinc", Id("g"))>>,
   <<For(Let(Id("g"), N(0)), Bin("lesser", Id("g"), Id("i")), Un("postinc", Id("g")),
         IfElse(Bin("mod", Id("g"), N(2)), Bin("addassign", Id("l"), Id("i")), Un("preinc", Id("l")))),
     Un("preinc", Id("i"))>>,
   <<If(Bin("eq", Id("i"), N(1)), Ret(Id("g"))), Un("postinc", Id("i"))>>}
\* break and continue in and behind inner loops, all branches of an if.
Sum(body) == Func("count", <<Var("n", INT)>>, <<Var("i", INT), Var("l", INT)>>,
  <<Let(Id("l"), N(0)),
    For(Let(Id("i"), N(0)), Bin("lesser", Id("i"), Id("n")), Un("preinc", Id("i")), Block(body)),
    Ret(Bin("add", Bin("mul", Id("l"), N(5)), Id("i")))>>)
Add(n) == Bin("addassign", Id("l"), n)
I(n)   == Bin("eq", Id("i"), N(n))
Inner(jump) == For(Let(Id("g"), N(0)), Bin("lesser", Id("g"), N(3)), Un("postinc", Id("g")),
                   Block(<<If(Bin("eq", Id("g"), Id("i")), jump), Add(N(1))>>))
Jumps ==
  {<<If(I(1), j), Add(N(2))>> : j \in {Break, Continue, Ret(Id("i"))}}
  \cup {<<Add(N(1)), Choice(I(0), Continue, <<I(1), I(2)>>, <<Add(N(2)), Break>>, e), Add(N(3))>> :
          e \in {Null, Add(N(4)), Continue}}
  \cup {<<Inner(j), k, Add(N(2))>> : j \in {Break, Continue}, k \in {If(I(1), Break), If(I(1), Continue)}}
  \cup {<<Let(Id("h"), N(0)),
          While(Bin("lesser", Un("preinc", Id("h")), N(3)), If(I(1), j)), Add(Id("h")), Break>> :
          j \in {Break, Continue}}
Branches(n, e) == Choice(Bin("eq", Id("a"), N(0)), Let(Id("g"), N(5)),
  [i \in 1 .. n |-> Bin("eq", Id("a"), N(i))], [i \in 1 .. n |-> Let(Id("g"), N(5 + i))], e)
Length == Func("length", <<Var("k", PtrTo(CHAR))>>, <<Var("l", INT)>>,
  <<Let(Id("l"), N(0)), While(Un("deref", Un("postinc", Id("k"))), Un("preinc", Id("l"))),
    Ret(Id("l"))>>)
Set3(body) == Func("set", <<Var("x", PtrTo(INT))>>, <<>>, body)
Steps ==
  {Prog(<<Sum(b), MainOf(<<>>, <<Ret(Fn("count", <<N(n)>>))>>)>>) : b \in Jumps, n \in {1, 3}}
  \cup {Prog(<<MainOf(<<Var("a", INT)>>, <<Let(Id("a"), N(i)), Branches(n, e), Ret(Id("g"))>>)>>) :
          i \in 0 .. 3, n \in 0 .. 2, e \in {Null, Let(Id("g"), N(9))}}
  \cup {Prog(<<Length, MainOf(<<>>, <<Ret(Fn("length", <<k>>))>>)>>) :
          k \in {Str("L1"), Str("L2"), Bin("add", Str("L1"), N(1)), Id("m")}}
  \cup {Prog(<<MainOf(<<>>, <<Ret(e)>>)>>) :
          e \in {Un("sizeof_expr", Str("L1")), At(Str("L1"), N(2)), At(Str("L1"), N(3)),
                 Un("deref", Str("L2")), Un("preinc", Id("n"))}}
  \cup {Prog(<<Set3(b), MainOf(<<Var("a", INT)>>,
          <<Let(Id("a"), N(3)), Fn("set", <<Un("addr", Id("a"))>>), Ret(Id("a"))>>)>>) :
          b \in {<<Let(Un("deref", Id("x")), N(4))>>,
                 <<If(Un("deref", Id("x")), Ret(Null)), Let(Un("deref", Id("x")), N(4))>>}}
  \cup {ProgWith(init, <<MainOf(<<>>, <<Ret(Bin("add", Id("n"), N(1)))>>)>>) :
          init \in {N(4), Null, Bin("add", N(1), N(1))}}

Flows ==
  {Prog(<<MainOf(<<>>, <<Let(Id("z"), Un("addr", x)), Let(Un("deref", Id("z")), N(5)),
                        Ret(Bin("sub", Bin("mul", Id("g"), N(3)), Id("h")))>>)>>) : x \in {Id("g"), Id("h")}}
  \cup
  {Prog(<<Fact, MainOf(<<>>, <<Ret(Fn("fact", <<N(n)>>))>>)>>) : n \in {0, 3}}
  \cup {Prog(<<Fib, MainOf(<<>>, <<Ret(Bin("sub", N(9), Fn("fib", <<N(3)>>)))>>)>>)}
  \cup {Prog(<<Count(b), MainOf(<<>>, <<Ret(Bin("add", Fn("count", <<N(n)>>), Id("g")))>>)>>) :
          b \in Bodies, n \in {0, 3}}

Programs ==
  {Returning(e) : e \in Throughs \cup UNION {Single(k) \cup Double(k) : k \in ToSet(Binary)}}
  \cup Calls \cup Flows \cup Steps

\* The compiler's input, analysed, and the trees that codegen() walks.
AnalysedPrograms == {Analysed(p) : p \in Programs}

PartsOf(e) ==
  CASE e.kind \in InfixKinds -> {e.left, e.right}
    [] e.kind \in {"minus", "preinc", "addr", "deref", "return"} -> {e.value}
    [] e.kind = "dot" -> {e.structvalue}
    [] e.kind = "call" -> ToSet(e.arguments)
    [] e.kind = "statements" -> ToSet(e.stmts)
    [] e.kind = "if" -> {e.ifcond, e.ifbody, e.elsebody} \cup ToSet(e.elifconds \o e.elifbodies)
    [] e.kind = "while" -> {e.whilecond, e.whilebody}
    [] e.kind = "for" -> {e.forinit, e.forcond, e.fornext, e.forbody}
    [] OTHER -> {}

RECURSIVE Height(_), Closure(_)
Height(e) == IF PartsOf(e) = {} THEN 1 ELSE 1 + Max({Height(p) : p \in PartsOf(e)})
Closure(S) == LET parts == UNION {PartsOf(e) : e \in S} \ S
              IN IF parts = {} THEN S ELSE Closure(S \cup parts)

Levels ==
  LET trees   == {f.tree : f \in UNION {ToSet(p.fns) : p \in AnalysedPrograms}}
      walked  == Closure({e \in trees : e.typ # Stopped})
      heights == [e \in walked |-> Height(e)]
  IN [n \in 1 .. Max({heights[e] : e \in walked}) |-> {e \in walked : heights[e] <= n}]

MCSources == AnalysedPrograms
MCTrees   == Levels

-----------------------------------------------------------------------------
Source == prog.source

\* main returns what it returns in C: operands and arguments find their
\* registers and stack words, sub-expressions and calls do not disturb each
\* other's, addresses are computed with the sizes of what they point to.
ResultAsInC ==
  ~ Running /\ pc # REFUSED /\ C!WellTyped(Source) =>
    LET m == C!Meaning(Source)
    IN m.tame => /\ pc = EXIT
                 /\ ~ C!IsPlace(m.val)
                 /\ Signed(regs.rax % Int32, Int32) = m.val.int

\* What C has and sncc refuses: calculating with the value of ==, && or || (it
\* gets no type), adding a pointer to a number or a character to a pointer,
\* following a pointer that is the value of an assignment (its type is int), and
\* a global variable whose initial value has to be calculated.
RECURSIVE Beyond(_, _)
Beyond(e, locals) ==
  LET env == [locals |-> locals] @@ Env(Source)
      Parts(s) == \E x \in ToSet(s) : Beyond(x, locals)
      untyped(x) == semantic_analysis(x, env).typ = Unset
      ptr(x)     == semantic_analysis(x, env).typ.kind = "ptr"
  IN CASE e.kind \in InfixKinds ->
            \/ Parts(<<e.left, e.right>>)
            \/ e.kind \in Summed \cup Numbered /\ (untyped(e.left) \/ untyped(e.right))
            \/ e.kind = "add" /\ ptr(e.right)
            \/ e.kind = "addassign" /\ ptr(e.left) /\ untyped(e.right)
            \/ e.kind \in Summed /\ ptr(e.left) /\ semantic_analysis(e.right, env).typ # INT
       [] e.kind \in {"minus", "sizeof_expr"} -> untyped(e.value) \/ Parts(<<e.value>>)
       [] e.kind = "deref" -> e.value.kind \in Assigned \/ Parts(<<e.value>>)
       [] e.kind = "dot"  -> Parts(<<e.structvalue>>)
       [] e.kind = "call" -> Parts(e.arguments)
       [] e.kind = "statements" -> Parts(e.stmts)
       [] e.kind = "if"    ->
            Parts(<<e.ifcond, e.ifbody, e.elsebody>> \o e.elifconds \o e.elifbodies)
       [] e.kind = "for"   -> Parts(<<e.forinit, e.forcond, e.fornext, e.forbody>>)
       [] e.kind = "while" -> Parts(<<e.whilecond, e.whilebody>>)
       [] e.kind \in {"ident", "intlit", "strlit", "sizeof_type", "null", "break", "continue"} ->
            FALSE
       [] OTHER -> Parts(<<e.value>>)

\* The compiler gives up on no program of C's but those.
StopsJustified ==
  pc = REFUSED =>
    \/ ~ C!WellTyped(Source)
    \/ \E g \in ToSet(Source.globals) : g.init.kind \in InfixKinds
    \/ \E f \in ToSet(Source.fns) : Beyond(Block(f.body), Slots(f.params \o f.vars))
===============================================================================
