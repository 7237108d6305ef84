------------------------------- MODULE CMeaning -------------------------------
(***************************************************************************)
(* What the programs of Machine mean in C: values are numbers and places,  *)
(* variables are objects, without addresses, registers or a stack.         *)
(*                                                                         *)
(* `tame' becomes FALSE where C leaves a program without a meaning, and    *)
(* where sncc is known to differ from C; the README lists these places     *)
(* with the lines of codegen.c.                                            *)
(***************************************************************************)
EXTENDS Integers, Sequences, SequencesExt, TLC

CONSTANTS Byte, Externals

IsPlace(v) == "obj" \in DOMAIN v
Num(n)     == [int |-> n]
\* A place: the idx-th element, or the field, of an object.
Place(obj) == [obj |-> obj, field |-> "", idx |-> 0]

IntMax == (Byte * Byte * Byte * Byte) \div 2
InInt(n) == n \in -IntMax .. IntMax - 1

\* A value, and whether the operation has one and sncc computes it.
Ok(v, ok) == [val |-> v, ok |-> ok]
IntValue(n)    == Ok(Num(n), InInt(n))
Truth(b, ok) == Ok(Num(IF b THEN 1 ELSE 0), ok)

RECURSIVE And(_, _)
And(v, w) == IF v = 0 THEN 0 ELSE (v % 2) * (w % 2) + 2 * And(v \div 2, w \div 2)

\* Divisions take their dividend for a non-negative one (codegen.c:60).
Apply(kind, v, w) ==
  CASE IsPlace(v) /\ ~ IsPlace(w) /\ kind \in {"add", "sub"} ->
         Ok([v EXCEPT !.idx = IF kind = "add" THEN @ + w.int ELSE @ - w.int], TRUE)
    [] IsPlace(v) /\ IsPlace(w) /\ kind = "eq" -> Truth(v = w, TRUE)
    [] ~ IsPlace(v) /\ ~ IsPlace(w) ->
         LET m == v.int
             n == w.int
         IN CASE kind \in {"add", "addassign"} -> IntValue(m + n)
              [] kind = "sub" -> IntValue(m - n)
              [] kind \in {"mul", "mulassign"} -> IntValue(m * n)
              [] kind \in {"div", "mod"} ->
                   IF m < 0 \/ n <= 0 THEN Ok(Num(0), FALSE)
                   ELSE IntValue(IF kind = "div" THEN m \div n ELSE m % n)
              [] kind = "lesser"   -> Truth(m < n, TRUE)
              [] kind = "lessereq" -> Truth(m <= n, TRUE)
              [] kind = "eq"       -> Truth(m = n, TRUE)
              [] kind = "band" ->
                   IF m < 0 \/ n < 0 THEN Ok(Num(0), FALSE) ELSE IntValue(And(m, n))
    [] OTHER -> Ok(Num(0), FALSE)

\* The argument registers that sncc's code for the operation writes.
Written(kind, v) ==
  IF kind \in {"mul", "div", "mod", "mulassign"} \/ IsPlace(v) THEN {"rcx", "rdx"} ELSE {"rcx"}

-----------------------------------------------------------------------------
\* A state: objs, the variables with their types and what is stored in them;
\* fns, the functions; next, the number of the next call; wrote, the argument
\* registers written since the argument began that is being computed; tame.
Is(st, ok) == [st EXCEPT !.tame = @ /\ ok]
With(r, st) == [val |-> r.val, st |-> Is(st, r.ok)]

IsArray(typ) == "arraysize" \in DOMAIN typ
Objects(id, vars) ==
  [o \in {<<id, v.name>> : v \in ToSet(vars)} |->
     [typ |-> (CHOOSE v \in ToSet(vars) : v.name = o[2]).typ, cells |-> <<>>]]
ObjectOf(x, id, st) == IF <<id, x>> \in DOMAIN st.objs THEN <<id, x>> ELSE <<0, x>>

FieldType(typ, name) == (CHOOSE f \in ToSet(typ.fields) : f.name = name).typ
TypeAt(p, st) ==
  LET t    == st.objs[p.obj].typ
      elem == IF IsArray(t) THEN t.ptrof ELSE t
  IN IF p.field = "" THEN elem ELSE FieldType(elem, p.field)
Within(p, st) ==
  LET t == st.objs[p.obj].typ
  IN p.idx \in 0 .. (IF IsArray(t) THEN t.arraysize - 1 ELSE 0)

Cell(p) == <<p.field, p.idx>>

\* A negative number in memory is read as a large one (codegen.c:119).
Read(p, st) ==
  IF IsPlace(p) /\ Within(p, st) /\ Cell(p) \in DOMAIN st.objs[p.obj].cells
  THEN LET v == st.objs[p.obj].cells[Cell(p)]
       IN With(Ok(v, IsPlace(v) \/ v.int >= 0), st)
  ELSE With(Ok(Num(0), FALSE), st)

AsChar(n) == ((n + Byte \div 2) % Byte) - Byte \div 2

Store(p, v, st) ==
  IF IsPlace(p) /\ Within(p, st)
  THEN LET w == IF TypeAt(p, st).kind = "char" THEN Num(AsChar(v.int)) ELSE v
       IN [st EXCEPT !.objs[p.obj].cells = (Cell(p) :> w) @@ @]
  ELSE Is(st, FALSE)

-----------------------------------------------------------------------------
\* Types of expressions; Illegal when C has none.
INT     == [kind |-> "int"]
Illegal == [kind |-> "illegal"]
IsPtr(typ)    == typ.kind = "ptr"
IsNumber(typ) == typ.kind \in {"int", "uint", "char"}
Decayed(typ)  == IF IsArray(typ) THEN [kind |-> "ptr", ptrof |-> typ.ptrof] ELSE typ

RECURSIVE SizeInC(_)
SizeInC(typ) ==
  CASE IsArray(typ) -> typ.arraysize * SizeInC(typ.ptrof)
    [] typ.kind = "ptr" /\ ~ IsArray(typ) -> 8
    [] IsNumber(typ) -> IF typ.kind = "char" THEN 1 ELSE 4
    [] typ.kind = "struct" -> typ.structsize

Comparing == {"lesser", "lessereq", "eq", "land", "lor"}

InfixCType(kind, l, r) ==
  CASE "illegal" \in {l.kind, r.kind} -> Illegal
    [] kind \in Comparing -> IF "struct" \in {l.kind, r.kind} THEN Illegal ELSE INT
    [] kind \in {"add", "sub", "addassign"} /\ IsPtr(l) /\ IsNumber(r) -> Decayed(l)
    [] kind = "add" /\ IsNumber(l) /\ IsPtr(r) -> Decayed(r)
    [] kind = "sub" /\ IsPtr(l) /\ IsPtr(r)    -> INT
    [] kind \in {"add", "sub", "mul", "div", "mod", "band"} /\ IsNumber(l) /\ IsNumber(r)
         -> IF l.kind = "uint" \/ r.kind = "uint" THEN [kind |-> "uint"] ELSE INT
    [] kind \in {"addassign", "mulassign"} /\ IsNumber(l) /\ IsNumber(r) -> l
    [] kind = "assign" -> IF ~ IsArray(l) /\ (l.kind = r.kind \/ (IsNumber(l) /\ IsNumber(r)))
                          THEN l ELSE Illegal
    [] OTHER -> Illegal

StringType(s) ==
  [kind |-> "ptr", ptrof |-> [kind |-> "char"], arraysize |-> Len(s.strval) + 1]

RECURSIVE CType(_, _), IsLvalue(_, _)
\* An expression with a place of its own.
IsLvalue(e, types) ==
  CASE e.kind = "ident" -> e.ident \in DOMAIN types
    [] e.kind = "deref" -> TRUE
    [] e.kind = "dot"   -> IsLvalue(e.structvalue, types)
    [] OTHER -> e.kind = "strlit"

CType(e, types) ==
  LET Of(a) == CType(a, types) IN
  CASE e.kind = "ident"  -> IF e.ident \in DOMAIN types THEN types[e.ident] ELSE Illegal
    [] e.kind \in {"intlit", "null", "break", "continue"} -> INT
    [] e.kind = "strlit" -> StringType(e)
    [] e.kind \in {"assign", "addassign", "mulassign"} ->
         IF IsLvalue(e.left, types) THEN InfixCType(e.kind, Of(e.left), Of(e.right)) ELSE Illegal
    [] e.kind \in Comparing \cup {"add", "sub", "mul", "div", "mod", "band"} ->
         InfixCType(e.kind, Of(e.left), Of(e.right))
    [] e.kind = "minus" -> IF IsNumber(Of(e.value)) THEN INT ELSE Illegal
    [] e.kind \in {"preinc", "postinc"} ->
         LET t == Of(e.value) IN
         IF IsLvalue(e.value, types) /\ t.kind \notin {"illegal", "struct"} /\ ~ IsArray(t)
         THEN t ELSE Illegal
    [] e.kind = "addr" ->
         IF IsLvalue(e.value, types) /\ Of(e.value) # Illegal
         THEN [kind |-> "ptr", ptrof |-> Of(e.value)] ELSE Illegal
    [] e.kind = "deref" -> IF IsPtr(Of(e.value)) THEN Of(e.value).ptrof ELSE Illegal
    [] e.kind = "dot" ->
         LET t == Of(e.structvalue) IN
         IF t.kind = "struct" /\ e.fieldname \in {f.name : f \in ToSet(t.fields)}
         THEN FieldType(t, e.fieldname) ELSE Illegal
    [] e.kind = "call" -> IF \E a \in ToSet(e.arguments) : Of(a) = Illegal THEN Illegal ELSE INT
    [] e.kind = "sizeof_expr" -> IF Of(e.value) = Illegal THEN Illegal ELSE INT
    [] e.kind = "sizeof_type" -> INT
    [] e.kind = "return" -> IF Of(e.value).kind = "struct" THEN Illegal ELSE Of(e.value)
    [] e.kind = "statements" -> IF \E s \in ToSet(e.stmts) : Of(s) = Illegal THEN Illegal ELSE INT
    [] e.kind = "if"    ->
         IF \E s \in {e.ifcond, e.ifbody, e.elsebody} \cup ToSet(e.elifconds \o e.elifbodies) :
              Of(s) = Illegal
         THEN Illegal ELSE INT
    [] e.kind = "while" -> IF Illegal \in {Of(e.whilecond), Of(e.whilebody)} THEN Illegal ELSE INT
    [] e.kind = "for"   ->
         IF Illegal \in {Of(e.forinit), Of(e.forcond), Of(e.fornext), Of(e.forbody)}
         THEN Illegal ELSE INT

\* sncc gives an assignment the type int, the sum of an array and a number the
\* array's and the negation of a char its own (semantic.c:136-160).
RECURSIVE SizeKnown(_, _)
SizeKnown(e, types) ==
  /\ e.kind \in {"assign", "addassign", "mulassign"} => SizeInC(CType(e, types)) = 4
  /\ e.kind = "minus" => SizeInC(CType(e.value, types)) = 4
  /\ e.kind \in {"add", "sub"} /\ IsPtr(CType(e, types)) =>
       ~ IsArray(CType(e.left, types)) /\ IsPtr(CType(e.left, types))
         /\ CType(e.right, types) = INT /\ SizeKnown(e.left, types)

Types(id, st) ==
  [x \in {o[2] : o \in {o \in DOMAIN st.objs : o[1] \in {0, id}}} |->
     st.objs[ObjectOf(x, id, st)].typ]

-----------------------------------------------------------------------------
\* What an external function returns: a number that every argument has a part in.
Answer(args) == FoldLeft(+, 0, [i \in DOMAIN args |-> i * args[i]])

RECURSIVE Value(_, _, _), PlaceOf(_, _, _), Exec(_, _, _), Loop(_, _, _, _, _)

\* The fourth argument is computed after rdx has been loaded with the third,
\* the fifth after rcx (codegen.c:343-360).
Kept(i, wrote) == CASE i <= 3 -> {} [] i = 4 -> {"rdx"} \cap wrote [] OTHER -> wrote

Arguments(args, id, st) ==
  LET One(acc, i) ==
        LET r == Value(args[i], id, [acc.st EXCEPT !.wrote = {}])
        IN [vals |-> Append(acc.vals, r.val), st |-> Is(r.st, Kept(i, r.st.wrote) = {})]
  IN FoldLeft(One, [vals |-> <<>>, st |-> st], [i \in DOMAIN args |-> i])

\* What a function returns that does not say what.
Nothing == [nothing |-> TRUE]

\* The call of a function: a new object for every variable, parameters with values.
\* The seventh parameter is not found where it is passed (codegen.c:498).
Entered(fn, id, vals, st) ==
  LET Param(s, i) == Store(Place(<<id, fn.params[i].name>>), vals[i], s)
  IN FoldLeft(Param, [Is(st, Len(fn.params) <= 6) EXCEPT
                        !.next = @ + 1, !.objs = Objects(id, fn.params \o fn.vars) @@ @],
              [i \in DOMAIN fn.params |-> i])

Left(r) == [val |-> IF r.how = "return" THEN r.val ELSE Nothing, st |-> r.st]
Run(fn, vals, st) ==
  Left(Exec([kind |-> "statements", stmts |-> fn.body], st.next, Entered(fn, st.next, vals, st)))

Answered(n, st) == With(Ok(Num(n), n >= 0 /\ InInt(n)), st)

Back(r, st) == [r EXCEPT !.st.wrote = st.wrote]
Perform(f, a) ==
  IF f \in DOMAIN Externals
  THEN Answered(Answer([i \in DOMAIN a.vals |-> a.vals[i].int]), a.st)
  ELSE Run(a.st.fns[f], a.vals, a.st)
Called(e, id, st) == Back(Perform(e.call, Arguments(e.arguments, id, st)), st)

Infix(kind, v, w, st) ==
  With(Apply(kind, v, w), [st EXCEPT !.wrote = @ \cup Written(kind, v)])

\* The value becomes that of the place, and of the expression: sncc leaves the
\* one in rcx, wider than a char (codegen.c:300).
Fits(p, v, st) == IsPlace(v) \/ TypeAt(p, st).kind # "char" \/ v.int = AsChar(v.int)
Update(p, kind, w, st) ==
  LET old == Read(p, st)
      new == Infix(kind, old.val, w, old.st)
  IN IF old.st.tame
     THEN [val |-> new.val, st |-> Store(p, new.val, Is(new.st, Fits(p, new.val, st)))]
     ELSE old

PlaceOf(e, id, st) ==
  CASE e.kind = "ident" -> [val |-> Place(ObjectOf(e.ident, id, st)), st |-> st]
    [] e.kind = "strlit" -> [val |-> Place(<<0, e.label>>), st |-> st]
    [] e.kind = "deref" -> Value(e.value, id, st)
    [] e.kind = "dot"   ->
         LET s == PlaceOf(e.structvalue, id, st)
         IN IF IsPlace(s.val) THEN [s EXCEPT !.val.field = e.fieldname]
            ELSE With(Ok(s.val, FALSE), s.st)

Value(e, id, st) ==
  CASE e.kind = "intlit" -> [val |-> Num(e.intval), st |-> st]
    [] e.kind \in {"ident", "dot", "deref", "strlit"} ->
         LET p == PlaceOf(e, id, st)
         IN IF IsArray(CType(e, Types(id, st))) THEN p ELSE Read(p.val, p.st)
    [] e.kind = "addr" -> PlaceOf(e.value, id, st)
    [] e.kind \in {"add", "sub", "mul", "div", "mod", "lesser", "lessereq", "eq", "band"} ->
         LET l == Value(e.left, id, st)
             r == Value(e.right, id, l.st)
         IN Infix(e.kind, l.val, r.val, r.st)
    \* A right operand of more than a byte keeps its upper bytes (codegen.c:236).
    [] e.kind \in {"land", "lor"} ->
         LET l == Value(e.left, id, st)
             decided == ~ IsPlace(l.val) /\ (l.val.int = 0) = (e.kind = "land")
             r == Value(e.right, id, l.st)
         IN IF decided THEN With(Truth(e.kind = "lor", TRUE), l.st)
            ELSE IF IsPlace(l.val) \/ IsPlace(r.val) THEN With(Ok(Num(1), FALSE), st)
            ELSE With(Truth(r.val.int # 0, r.val.int \in 0 .. Byte - 1), r.st)
    [] e.kind = "minus" ->
         LET v == Value(e.value, id, st)
         IN With(IF IsPlace(v.val) THEN Ok(Num(0), FALSE) ELSE IntValue(-v.val.int), v.st)
    [] e.kind \in {"addassign", "mulassign"} ->
         LET p == PlaceOf(e.left, id, st)
             r == Value(e.right, id, p.st)
         IN Update(p.val, IF e.kind = "addassign" THEN "add" ELSE "mul", r.val, r.st)
    [] e.kind = "preinc" ->
         LET p == PlaceOf(e.value, id, st) IN Update(p.val, "add", Num(1), p.st)
    [] e.kind = "postinc" ->
         LET p == PlaceOf(e.value, id, st)
             old == Read(p.val, p.st)
         IN [val |-> old.val, st |-> Update(p.val, "add", Num(1), p.st).st]
    [] e.kind \in {"call", "void"} ->
         LET c == Called(e, id, st)
         IN IF c.val = Nothing THEN With(Ok(Num(0), e.kind = "void"), c.st) ELSE c
    [] e.kind = "sizeof_expr" ->
         LET types == Types(id, st)
         IN With(Ok(Num(SizeInC(CType(e.value, types))), SizeKnown(e.value, types)), st)
    [] e.kind = "sizeof_type" -> [val |-> Num(SizeInC(e.typedesc)), st |-> st]
    \* As an operand, an assignment leaves no value (codegen.c:278).
    [] e.kind = "assign" -> With(Ok(Num(0), FALSE), st)

\* Statements, and how they end: with the "next" one, or a break, continue or return.
Then(st) == [how |-> "next", val |-> Nothing, st |-> st]

Loop(cond, body, next, id, st) ==
  LET v  == Value(cond, id, st)
      go == ~ IsPlace(v.val) /\ v.val.int # 0 /\ v.st.tame
      r  == Exec(body, id, v.st)
  IN CASE ~ go -> Then(Is(v.st, ~ IsPlace(v.val)))
       [] go /\ r.how = "return" -> r
       [] go /\ r.how = "break"  -> Then(r.st)
       [] OTHER -> Loop(cond, body, next, id, Exec(next, id, r.st).st)

Exec(s, id, st) ==
  CASE s.kind = "statements" ->
         LET One(acc, t) == IF acc.how = "next" THEN Exec(t, id, acc.st) ELSE acc
         IN FoldLeft(One, Then(st), s.stmts)
    [] s.kind = "null" -> Then(st)
    [] s.kind \in {"break", "continue"} -> [Then(st) EXCEPT !.how = s.kind]
    [] s.kind = "return" ->
         IF s.value.kind = "null" THEN [Then(st) EXCEPT !.how = "return"]
         ELSE LET v == Value(s.value, id, st) IN [how |-> "return", val |-> v.val, st |-> v.st]
    [] s.kind = "if" ->
         LET v == Value(s.ifcond, id, st)
             other == IF s.elifconds = <<>> THEN s.elsebody
                      ELSE [s EXCEPT !.ifcond = Head(s.elifconds), !.ifbody = Head(s.elifbodies),
                                     !.elifconds = Tail(@), !.elifbodies = Tail(@)]
         IN IF IsPlace(v.val) THEN Then(Is(v.st, FALSE))
            ELSE Exec(IF v.val.int # 0 THEN s.ifbody ELSE other, id, v.st)
    [] s.kind = "while" -> Loop(s.whilecond, s.whilebody, [kind |-> "null"], id, st)
    [] s.kind = "for" ->
         Loop(s.forcond, s.forbody, s.fornext, id, Exec(s.forinit, id, st).st)
    [] s.kind = "assign" ->
         LET p == PlaceOf(s.left, id, st)
             r == Value(s.right, id, p.st)
         IN Then(Store(p.val, r.val, r.st))
    \* As a statement, a call has no need of a value.
    [] s.kind = "call" -> Then(Value([s EXCEPT !.kind = "void"], id, st).st)
    [] OTHER -> Then(Value(s, id, st).st)

-----------------------------------------------------------------------------
\* The initial values that sncc accepts.
Initial(e) ==
  CASE e.kind = "null"   -> Num(0)
    [] e.kind = "intlit" -> Num(e.intval)
    [] e.kind = "minus"  -> Num(-e.value.intval)
    [] e.kind = "strlit" -> Place(<<0, e.label>>)

Globals(prog) ==
  LET Given(st, g) == Store(Place(<<0, g.name>>), Initial(g.init), st)
      Chars(s) == [c \in {Cell([Place(<<>>) EXCEPT !.idx = i]) : i \in 0 .. Len(s)} |->
                     Num(IF c[2] = Len(s) THEN 0 ELSE s[c[2] + 1])]
      Literals == [o \in {<<0, l.name>> : l \in ToSet(prog.strlits)} |->
                     LET l == CHOOSE l \in ToSet(prog.strlits) : l.name = o[2]
                     IN [typ |-> StringType(l), cells |-> Chars(l.strval)]]
  IN FoldLeft(Given,
       [objs |-> Objects(0, prog.globals) @@ Literals, next |-> 1, wrote |-> {}, tame |-> TRUE,
        fns |-> [f \in {f.name : f \in ToSet(prog.fns)} |->
                   CHOOSE g \in ToSet(prog.fns) : g.name = f]],
       prog.globals)

\* What main returns, if all of it is within C and within what sncc computes.
Meaning(prog) ==
  LET r == Value([kind |-> "call", call |-> "main", arguments |-> <<>>], 0, Globals(prog))
  IN [val |-> r.val, tame |-> r.st.tame]

WellTyped(prog) ==
  \A f \in ToSet(prog.fns) :
    CType([kind |-> "statements", stmts |-> f.body],
          [x \in {v.name : v \in ToSet(f.params \o f.vars)} |->
             (CHOOSE v \in ToSet(f.params \o f.vars) : v.name = x).typ]
          @@ [x \in {v.name : v \in ToSet(prog.globals)} |->
             (CHOOSE v \in ToSet(prog.globals) : v.name = x).typ]) # Illegal
===============================================================================
