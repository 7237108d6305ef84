------------------------------ MODULE MCParser ------------------------------
(***************************************************************************)
(* The parser over small texts.  The reference is a printer: Spell gives   *)
(* every way to write a tree in C with no parentheses but those that C's   *)
(* grammar demands.  That grammar gives a text one tree, so a parser that  *)
(* agrees with it makes of a text a tree that can be spelt like this.      *)
(***************************************************************************)
EXTENDS Parser, FiniteSets

MCNames    == {"a", "b", "f", "x"}
MCTypes    == {"int", "char"}
MCLiterals == {"0", "1"}
MCConsts   == "EOF" :> "1"

-----------------------------------------------------------------------------
(* Expressions.  Levels are those of the C grammar, the lowest binds least. *)
CInfix ==
  "ASSIGN" :> <<1, "=">> @@ "LOR" :> <<2, "||">> @@ "LAND" :> <<3, "&&">>
  @@ "BAND" :> <<4, "&">> @@ "EQ" :> <<5, "==">> @@ "LESSER" :> <<6, "<">>
  @@ "SUB" :> <<7, "-">> @@ "ADD" :> <<7, "+">> @@ "DIV" :> <<8, "/">>

CPrefix == "MINUS" :> "-" @@ "DEREF" :> "*" @@ "PREINC" :> "++" @@ "ADDR" :> "&"

UNARY == 9
POSTFIX == 10
ZERO == <<"0">>

\* How a tree can be written: a level and the tokens of an expression of it.
RECURSIVE Forms(_), Arguments(_)

Spell(level, t) ==
  {IF f[1] >= level THEN f[2] ELSE <<"(">> \o f[2] \o <<")">> : f \in Forms(t)}

\* Left associative but for assignments, whose left operand is a unary expression.
Binary(level, op, l, r) ==
  LET right == level = 1
  IN  {<<level, x \o <<op>> \o y>> : x \in Spell(IF right THEN UNARY ELSE level, l),
                                     y \in Spell(IF right THEN level ELSE level + 1, r)}

Forms(t) ==
  UNION {
    IF Len(t) = 1 THEN {<<POSTFIX, t>>} ELSE {},
    IF Len(t) = 1 THEN {<<POSTFIX, <<k>>>> : k \in {k \in DOMAIN Consts : Consts[k] = t[1]}} ELSE {},
    IF t[1] \in DOMAIN CInfix THEN Binary(CInfix[t[1]][1], CInfix[t[1]][2], t[2], t[3]) ELSE {},
    IF t[1] = "LESSER" THEN Binary(6, ">", t[3], t[2]) ELSE {},
    IF t[1] = "EQ" /\ t[3] = ZERO THEN {<<UNARY, <<"!">> \o x>> : x \in Spell(UNARY, t[2])} ELSE {},
    IF t[1] = "EQ" /\ t[3] = ZERO /\ t[2][1] = "EQ" THEN Binary(5, "!=", t[2][2], t[2][3]) ELSE {},
    IF t[1] \in DOMAIN CPrefix
    THEN {<<UNARY, <<CPrefix[t[1]]>> \o x>> : x \in Spell(UNARY, t[2])} ELSE {},
    IF t[1] = "SIZEOF_EXPR"
    THEN {<<UNARY, <<"sizeof", "(">> \o x \o <<")">>>> : x \in Spell(1, t[2])} ELSE {},
    IF t[1] = "POSTINC" THEN {<<POSTFIX, x \o <<"++">>>> : x \in Spell(POSTFIX, t[2])} ELSE {},
    IF t[1] = "DOT" THEN {<<POSTFIX, x \o <<".">> \o t[3]>> : x \in Spell(POSTFIX, t[2])} ELSE {},
    IF t[1] = "DOT" /\ t[2][1] = "DEREF"
    THEN {<<POSTFIX, x \o <<"->">> \o t[3]>> : x \in Spell(POSTFIX, t[2][2])} ELSE {},
    IF t[1] = "DEREF" /\ t[2][1] = "ADD"
    THEN {<<POSTFIX, x \o <<"[">> \o y \o <<"]">>>> :
            x \in Spell(POSTFIX, t[2][2]), y \in Spell(1, t[2][3])} ELSE {},
    IF t[1] = "CALL"
    THEN {<<POSTFIX, x \o <<"(">> \o y \o <<")">>>> :
            x \in Spell(POSTFIX, t[2]), y \in Arguments(SubSeq(t, 3, Len(t)))} ELSE {} }

Arguments(ts) ==
  IF ts = <<>> THEN {<<>>}
  ELSE {x \o (IF Len(ts) = 1 THEN <<>> ELSE <<",">>) \o y :
          x \in Spell(1, ts[1]), y \in Arguments(Tail(ts))}

-----------------------------------------------------------------------------
(* Statements.                                                             *)
RECURSIVE Stmt(_), Stmts(_)

\* An "else" after the statement would belong to an "if" within it.
RECURSIVE Open(_)
Open(t) ==
  \/ t[1] = "IF" /\ (t[2] = NULL \/ Open(t[2]))
  \/ t[1] \in {"WHILE", "FOR"} /\ Open(t[Len(t)])

Decl(t) == t[1] = "STATEMENTS" /\ Len(t) = 2 /\ t[2][1] = "VARDECL"

\* The type and the name of a variable, of a parameter that may have none.
Declaring(v) ==
  LET name == IF v[2] = NULL THEN <<>> ELSE v[2]
  IN  CASE v[3][1] = "PTR" -> v[3][2] \o <<"*">> \o name
        [] v[3][1] = "ARRAY" -> v[3][2] \o name \o <<"[">> \o v[3][3] \o <<"]">>
        [] OTHER -> v[3] \o name

\* A body is a block or a single statement.
BodyOf(t) ==
  IF t[1] = "STATEMENTS" /\ ~Decl(t)
  THEN {<<"{">> \o x \o <<"}">> : x \in Stmts(Tail(t))}
  ELSE Stmt(t)

Paren(t) == {<<"(">> \o x \o <<")">> : x \in Spell(1, t)}

RECURSIVE Chain(_, _)
\* "if", "else if" ... of the conditions and bodies bs, then the last else.
Chain(bs, e) ==
  IF Len(bs) = 2 /\ e = NULL THEN {<<"if">> \o x \o y : x \in Paren(bs[1]), y \in BodyOf(bs[2])}
  ELSE IF Open(bs[2]) THEN {}
  ELSE {<<"if">> \o x \o y \o <<"else">> \o z :
          x \in Paren(bs[1]), y \in BodyOf(bs[2]),
          z \in IF Len(bs) = 2 THEN BodyOf(e) ELSE Chain(SubSeq(bs, 3, Len(bs)), e)}

Stmt(t) ==
  CASE t[1] \in {"BREAK", "CONTINUE"} ->
         {<<IF t[1] = "BREAK" THEN "break" ELSE "continue", ";">>}
    [] t[1] = "RETURN" ->
         IF Len(t) = 1 THEN {<<"return", ";">>}
         ELSE {<<"return">> \o x \o <<";">> : x \in Spell(1, t[2])}
    [] t[1] = "WHILE" -> {<<"while">> \o x \o y : x \in Paren(t[2]), y \in BodyOf(t[3])}
    [] t[1] = "FOR" ->
         {<<"for", "(">> \o x \o y \o <<";">> \o z \o <<")">> \o b :
            x \in Stmt(t[2]), y \in Spell(1, t[3]), z \in Spell(1, t[4]), b \in BodyOf(t[5])}
    [] t[1] = "IF" -> Chain(SubSeq(t, 3, Len(t)), t[2])
    [] Decl(t) -> {Declaring(t[2]) \o x \o <<";">> :
                     x \in IF Len(t[2]) = 3 THEN {<<>>} ELSE {<<"=">> \o y : y \in Spell(1, t[2][4])}}
    [] OTHER -> {x \o <<";">> : x \in Spell(1, t)}

Stmts(ts) ==
  IF ts = <<>> THEN {<<>>} ELSE {x \o y : x \in Stmt(ts[1]), y \in Stmts(Tail(ts))}

RECURSIVE Params(_)
Params(ps) ==
  IF ps = <<>> THEN <<>>
  ELSE Declaring(ps[1]) \o (IF Len(ps) = 1 THEN <<>> ELSE <<",">>) \o Params(Tail(ps))

Top(t) ==
  LET declaring == Declaring(t[2])
  IN  CASE t[1] = "EXTERN" -> {<<"extern">> \o declaring \o <<";">>}
        [] t[1] = "GLOBALVAR" ->
             {declaring \o x \o <<";">> :
                x \in IF Len(t) = 2 THEN {<<>>} ELSE {<<"=">> \o y : y \in Spell(1, t[3])}}
        [] t[1] = "FUNCDECL" ->
             {declaring \o <<"(">> \o Params(Tail(t[3])) \o <<")">> \o x :
                x \in IF t[4] = NULL THEN {<<";">>} ELSE BodyOf(t[4])}

RECURSIVE Program(_)
Program(ts) ==
  IF ts = <<>> THEN {<<>>} ELSE {x \o y : x \in Top(ts[1]), y \in Program(Tail(ts))}

-----------------------------------------------------------------------------
(* The texts.                                                              *)
Simple == {<<"a">>, <<"0">>}

Small ==
  Simple \cup {<<"1">>}
  \cup {<<k, <<"a">>, <<"b">>>> : k \in DOMAIN CInfix}
  \cup {<<"EQ", <<"a">>, ZERO>>, <<"CALL", <<"f">>>>, <<"CALL", <<"f">>, <<"a">>, <<"b">>>>,
        <<"DOT", <<"a">>, <<"x">>>>, <<"DOT", <<"DEREF", <<"a">>>>, <<"x">>>>,
        <<"DEREF", <<"ADD", <<"a">>, <<"b">>>>>>, <<"SIZEOF_EXPR", <<"a">>>>}
  \cup {<<k, <<"a">>>> : k \in DOMAIN CPrefix \cup {"POSTINC"}}

Medium ==
  {<<k, l, r>> : k \in DOMAIN CInfix, l \in Small, r \in Simple}
  \cup {<<k, l, r>> : k \in DOMAIN CInfix, l \in Simple, r \in Small}
  \cup {<<k, l, l>> : k \in DOMAIN CInfix, l \in Small}
  \cup {<<"SUB", <<"a">>, <<"EQ", <<"EQ", <<"a">>, <<"b">>>>, ZERO>>>>}
  \cup {<<k, l>> : k \in DOMAIN CPrefix \cup {"POSTINC", "SIZEOF_EXPR"}, l \in Small}
  \cup {<<"DOT", l, <<"x">>>> : l \in Small}
  \cup {<<"CALL", <<"f">>, l, r>> : l \in Small, r \in Simple}

\* Where parser.c binds otherwise than C: == and != more tightly than < and >,
\* and && more tightly than & on its right.
Relational(t) == t[1] = "LESSER"
Equality(t)   == t[1] = "EQ"
Differs(t) ==
  \/ Equality(t) /\ (Relational(t[2]) \/ Relational(t[3]))
  \/ Relational(t) /\ (Equality(t[2]) \/ Equality(t[3]))
  \/ t[1] = "LAND" /\ t[3][1] = "BAND"

Spellings(T) == UNION {Spell(1, t) : t \in T}

\* sizeof takes a "*" for a type, though no type stands before it.
StarAfterSizeof(s) ==
  \E i \in DOMAIN s : s[i] = "sizeof" /\ i + 2 <= Len(s) /\ s[i + 1] = "(" /\ s[i + 2] = "*"

AllExpressions == Spellings(Small \cup Medium)
Agreed         == Spellings({t \in Small \cup Medium : ~Differs(t)})
CExpressions   == {s \in Agreed : ~StarAfterSizeof(s)}
SizeofPointers == {s \in Agreed : StarAfterSizeof(s)}

\* Token by token, whatever it may be.
Tokens == {"a", "0", "(", ")", "[", "]", "*", "++", "-", "=", ",", "sizeof", "int", ".", "->"}

AnyTexts == UNION {[1 .. n -> Tokens] : n \in 0 .. 3}

\* Declarations with and without a type, pointers to nothing among them.
Declarators ==
  {s \o <<";">> : s \in UNION {[1 .. n -> {"*", "a", "int", "extern", "(", ")", "=", ","}] : n \in 0 .. 4}}

ExpressionTexts == CExpressions \cup AnyTexts

A == <<"a">>
S0 == {A, <<"BREAK">>, <<"RETURN", A>>}
Pieces ==
  {<<"RETURN">>, <<"CONTINUE">>, <<"ASSIGN", A, <<"1">>>>}
  \cup {<<"STATEMENTS", Var("b", t)>> : t \in {<<"int">>, <<"PTR", <<"char">>>>, <<"ARRAY", <<"int">>, <<"1">>>>}}
  \cup {<<"STATEMENTS", Append(Var("b", <<"int">>), A)>>}
Blocks == {<<"STATEMENTS">>, <<"STATEMENTS", A, <<"BREAK">>>>, <<"STATEMENTS", <<"IF", NULL, A, A>>, A>>}

Nest(B, C) ==
  {<<"IF", e, A, b>> : e \in C \cup {NULL}, b \in B}
  \cup {<<"WHILE", A, b>> : b \in B}
  \cup {<<"FOR", A, A, <<"POSTINC", A>>, b>> : b \in B}

S1 == Nest(S0 \cup Blocks, S0 \cup Blocks)
       \cup {<<"IF", e, A, A, <<"b">>, b>> : e \in S0 \cup {NULL}, b \in S0 \cup Blocks}
S2 == Nest(S1, S0)

\* An else branch that is an "if" is an "else if" of the same tree.
Bodies == {<<"STATEMENTS", s>> : s \in S0 \cup Pieces \cup S2}
          \cup {<<"STATEMENTS", s, t>> : s \in S1 \cup Pieces, t \in {A, <<"RETURN">>}}

TypesOfA == {Var("a", t) : t \in {<<"int">>, <<"PTR", <<"char">>>>, <<"ARRAY", <<"int">>, <<"1">>>>}}
Tops ==
  {<<"EXTERN", v>> : v \in TypesOfA}
  \cup {<<"GLOBALVAR", v>> : v \in TypesOfA}
  \cup {<<"GLOBALVAR", Var("a", <<"int">>), e>> : e \in {<<"0">>, <<"ADD", A, A>>}}
  \cup {<<"FUNCDECL", Var("f", <<"int">>), <<"PARAMS">> \o ps, b>> :
          ps \in {<<>>, <<Var("a", <<"int">>)>>, <<<<"VARDECL", NULL, <<"PTR", <<"char">>>>>>, Var("b", <<"int">>)>>},
          b \in {NULL, <<"STATEMENTS">>, <<"STATEMENTS", A>>}}

FunctionsOf(B) == UNION {Program(<<<<"FUNCDECL", Var("f", <<"int">>), <<"PARAMS">>, b>>>>) : b \in B}

\* An if with an else ends t: parse_if() would take the next else for it, too.
RECURSIVE EndsWithElse(_)
EndsWithElse(t) ==
  \/ t[1] = "IF" /\ t[2] # NULL
  \/ t[1] \in {"WHILE", "FOR"} /\ EndsWithElse(t[Len(t)])

TwoElses(t) == t[1] = "IF" /\ t[2] # NULL /\ \E i \in 3 .. Len(t) : EndsWithElse(t[i])

\* parse_statement() leaves the semicolon of break and continue to its caller,
\* so that an else after it is not seen.
JumpBeforeElse(s) ==
  \E i \in DOMAIN s : s[i] \in {"break", "continue"} /\ i + 2 <= Len(s) /\ s[i + 2] = "else"

FewElses == FunctionsOf({b \in Bodies : ~TwoElses(b[2])})

CPrograms == {s \in FewElses : ~JumpBeforeElse(s)} \cup UNION {Program(<<t, u>>) : t, u \in Tops}

NestedElses == {s \in FunctionsOf({b \in Bodies : TwoElses(b[2])}) : ~JumpBeforeElse(s)}

\* Declarations and statements cut short or out of place.
Broken ==
  {<<"int", "f", "(", "int", "a", ")", "{">> \o s :
     s \in UNION {[1 .. n -> {"a", ";", "if", "(", "}", "else", "for", "int", ","}] : n \in 0 .. 3}}

ParserTexts == ExpressionTexts \cup CPrograms \cup Broken \cup Declarators

\* An expression is given to expression(), as the tests do; a program to main().
MCEntry(s) == IF \E i \in DOMAIN s : s[i] \in {";", "{"} THEN "main" ELSE "expression"

-----------------------------------------------------------------------------
Ended == phase # "parsing"

\* Of a text that is a C expression, the whole is read, and the tree is the one
\* that C's precedence and associativity give it.
ExpressionsAsInC ==
  Ended /\ tokens \in CExpressions =>
    phase = "done" /\ pos = Len(tokens) /\ tokens \in Spell(1, tree)

\* The same of sizeof with a pointer that is followed.
SizeofAsInC ==
  Ended /\ tokens \in SizeofPointers =>
    phase = "done" /\ pos = Len(tokens) /\ tokens \in Spell(1, tree)


\* A C program of functions, prototypes and variables gets C's tree: every else
\* belongs to the nearest if, bodies end where they do in C.
ProgramsAsInC ==
  Ended /\ tokens \in CPrograms => phase = "done" /\ tokens \in Program(Tail(tree))

RECURSIVE Occurrences(_, _)
Occurrences(n, t) ==
  IF Len(t) = 1 THEN IF t[1] = n THEN 1 ELSE 0
  ELSE LET sum[i \in 1 .. Len(t)] == IF i = 1 THEN 0 ELSE sum[i - 1] + Occurrences(n, t[i])
       IN  sum[Len(t)]

\* No code is dropped on the way: whatever is accepted, C or not, each name is
\* as often in the tree as it is in the text that was read.
NamesKept ==
  phase = "done" =>
    \A n \in Names :
      Occurrences(n, tree) = Cardinality({i \in 1 .. pos : tokens[i] = n})
=============================================================================
