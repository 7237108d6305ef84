-------------------------------- MODULE Parser --------------------------------
(***************************************************************************)
(* parser.c: recursive descent from tokens to the syntax tree.             *)
(*                                                                         *)
(* The activations of the parser's functions are in `calls'.  Each knows   *)
(* which function it is of, where the token stream stood when it was       *)
(* called, what it has recognised (op), the trees it has got from the      *)
(* functions it called (kids), and what it is to read next without looking *)
(* further (todo): a token it expects or a function it calls.  With an     *)
(* empty todo the function looks at the next token and decides.            *)
(*                                                                         *)
(* A tree is a kind followed by subtrees; a leaf is a name or a literal    *)
(* alone.  A type specifier is one token; how struct, enum and typedef     *)
(* give it a meaning is the subject of TypeTable.                          *)
(***************************************************************************)
EXTENDS Integers, Sequences, TLC

CONSTANTS
  Texts,     \* sequences of tokens to be parsed
  Entry(_),  \* the function that the program at hand calls on a text
  Names,     \* identifiers that are neither keywords nor types
  Types,     \* identifiers that parse_typespec() accepts
  Literals,  \* integer and string literals
  Numbers,   \* the integer literals among them
  Consts,    \* constmap: the literal an enumerator stands for
  MaxDepth   \* activations the stack of the process has room for

VARIABLES
  tokens,    \* the tokens
  pos,       \* how many of them have been read
  calls,     \* the activations, the one at work last
  phase,     \* "parsing", or how the program has ended
  tree       \* what the first function called has returned

vars == <<tokens, pos, calls, phase, tree>>

Keywords == {"sizeof", "return", "if", "else", "while", "break", "continue", "for",
             "extern"}

\* What the lexer makes a TOKEN_IDENT.
Idents == Names \cup Types \cup Keywords \cup DOMAIN Consts

EOT  == "end_of_tokens"    \* get_token() returns NULL
NULL == <<"NULL">>
NONE == "none"

COMMA     == ","
SEMICOLON == ";"
LBRACE    == "{"
RBRACE    == "}"

\* What the tests and main() parse is finite, its tokens are none of them the end.
ASSUME TextsAssumption ==
  \A t \in Texts : Len(t) \in Nat /\ Entry(t) \in {"expression", "main"}
ASSUME TokensAssumption == EOT \notin Idents \cup Literals /\ Numbers \subseteq Literals
ASSUME DepthAssumption == MaxDepth \in Nat \ {0}

\* Mutant: the operand on the right takes the rest of the sum.
infix_addsub_right == [first |-> "infix_muldiv", next |-> "infix_addsub", ops |-> {"+", "-"}]

\* Mutant: left recursion.
infix_assign_left == [first |-> "expression", next |-> "expression", ops |-> {"=", "+=", "*="}]

\* The infix levels: the function called for the first operand, the one for
\* the operand after an operator, the operators.
infix_muldiv    == [first |-> "prefix_op", next |-> "prefix_op", ops |-> {"*", "/", "%"}]
infix_addsub    == [first |-> "infix_muldiv", next |-> "infix_muldiv", ops |-> {"+", "-"}]
infix_eq        == [first |-> "infix_addsub", next |-> "infix_addsub", ops |-> {"==", "!="}]
infix_lge       == [first |-> "infix_eq", next |-> "infix_eq", ops |-> {"<", ">", "<=", ">="}]
infix_bit_and   == [first |-> "infix_lge", next |-> "infix_lge", ops |-> {"&"}]
infix_logic_and == [first |-> "infix_bit_and", next |-> "infix_lge", ops |-> {"&&"}]
infix_logic_or  == [first |-> "infix_logic_and", next |-> "infix_logic_and", ops |-> {"||"}]
infix_assign    == [first |-> "infix_logic_or", next |-> "expression", ops |-> {"=", "+=", "*="}]

Infix ==
  [fn \in {"infix_muldiv", "infix_addsub", "infix_eq", "infix_lge", "infix_bit_and",
           "infix_logic_and", "infix_logic_or", "expression"} |->
     CASE fn = "infix_muldiv" -> infix_muldiv
       [] fn = "infix_addsub" -> infix_addsub
       [] fn = "infix_eq" -> infix_eq
       [] fn = "infix_lge" -> infix_lge
       [] fn = "infix_bit_and" -> infix_bit_and
       [] fn = "infix_logic_and" -> infix_logic_and
       [] fn = "infix_logic_or" -> infix_logic_or
       [] fn = "expression" -> infix_assign]

Functions ==
  DOMAIN Infix \cup
  {"prefix_op", "postfix_op", "callexpr", "factor", "statement", "compound",
   "statements", "vardecl", "paramtype", "paramtype_list", "toplevel", "main"}

InfixKind ==
  "*" :> "MUL" @@ "/" :> "DIV" @@ "%" :> "MOD" @@ "+" :> "ADD" @@ "-" :> "SUB"
  @@ "==" :> "EQ" @@ "<" :> "LESSER" @@ "<=" :> "LESSEREQ" @@ "&" :> "BAND"
  @@ "&&" :> "LAND" @@ "||" :> "LOR" @@ "=" :> "ASSIGN" @@ "+=" :> "ADDASSIGN"
  @@ "*=" :> "MULASSIGN"

PrefixKind ==
  [op \in {"-", "*", "++", "&"} |->
     CASE op = "-" -> "MINUS" [] op = "*" -> "DEREF" [] op = "++" -> "PREINC" [] op = "&" -> "ADDR"]

\* The tree for an operator that the code generator need not know.
NotOf(t) == <<"EQ", t, <<"0">>>>

InfixTree(op, l, r) ==
  IF op = "!=" THEN NotOf(<<"EQ", l, r>>)
  ELSE IF op = ">" THEN <<"LESSER", r, l>>
  ELSE IF op = ">=" THEN <<"LESSEREQ", r, l>>
  ELSE <<InfixKind[op], l, r>>

PrefixTree(op, t) == IF op = "!" THEN NotOf(t) ELSE <<PrefixKind[op], t>>

gen_ptrderef(t, index) == <<"DEREF", <<"ADD", t, index>>>>

-----------------------------------------------------------------------------
Peek(n) == IF pos + n <= Len(tokens) THEN tokens[pos + n] ELSE EOT

get_token == Peek(1)

top  == calls[Len(calls)]
rest == SubSeq(calls, 1, Len(calls) - 1)

\* The function named fn is called; an infix level begins with an operand.
Call(fn) == [fn |-> fn, start |-> pos, op |-> NONE, kids |-> <<>>,
             todo |-> IF fn \in DOMAIN Infix THEN <<Infix[fn].first>>
                      ELSE IF fn = "postfix_op" THEN <<"callexpr">>
                      ELSE IF fn = "callexpr" THEN <<"factor">>
                      ELSE <<>>]

\* The function at work reads n tokens and goes on as f.
Go(n, f) ==
  /\ pos' = pos + n
  /\ calls' = Append(rest, f)
  /\ UNCHANGED <<tokens, phase, tree>>

\* ... having recognised op, with kids so far and todo to come.
Then(n, op, kids, todo) == Go(n, [top EXCEPT !.op = op, !.kids = kids, !.todo = todo])

\* It returns t after reading n more tokens.
Return(n, t) ==
  /\ pos' = pos + n
  /\ UNCHANGED tokens
  /\ IF rest = <<>>
     THEN calls' = rest /\ phase' = "done" /\ tree' = t
     ELSE /\ calls' = [rest EXCEPT ![Len(rest)].kids = Append(@, t)]
          /\ UNCHANGED <<phase, tree>>

\* error(); the stack overflows; a NULL is followed.
End(how) == phase' = how /\ UNCHANGED <<tokens, pos, calls, tree>>

Parsing == phase = "parsing"

\* expect_token() and next_token()
Expect ==
  /\ Parsing
  /\ top.todo # <<>> /\ Head(top.todo) \notin Functions
  /\ IF get_token = Head(top.todo)
     THEN Go(1, [top EXCEPT !.todo = Tail(@)])
     ELSE End("error")

Invoke ==
  /\ Parsing
  /\ top.todo # <<>> /\ Head(top.todo) \in Functions
  /\ IF Len(calls) = MaxDepth THEN End("overflow")
     ELSE /\ calls' = rest \o <<[top EXCEPT !.todo = Tail(@)], Call(Head(top.todo))>>
          /\ UNCHANGED <<tokens, pos, phase, tree>>

\* The function fn decides on the next token.
In(fn) == Parsing /\ top.fn = fn /\ top.todo = <<>>

-----------------------------------------------------------------------------
\* infix_muldiv() to infix_assign()
LeftOperand == IF Len(top.kids) = 1 THEN top.kids[1]
               ELSE InfixTree(top.op, top.kids[1], top.kids[2])

InfixLevel ==
  /\ \E fn \in DOMAIN Infix : In(fn)
  /\ IF get_token \in Infix[top.fn].ops
     THEN Then(1, get_token, <<LeftOperand>>, <<Infix[top.fn].next>>)
     ELSE Return(0, LeftOperand)

Prefixes == DOMAIN PrefixKind \cup {"!"}

\* What parse_typeexpr() reads first: a type, or a "*" that follows none, which
\* parse_pointer() takes all the same and makes a pointer to NULL.
TypeStarts == Types \cup {"*"}

BaseType(t) == IF t = "*" THEN <<"PTR", NULL>> ELSE <<t>>

prefix_op ==
  /\ In("prefix_op")
  /\ top.op = NONE /\ top.kids = <<>>
  /\ IF get_token \in Prefixes THEN Then(1, get_token, <<>>, <<"prefix_op">>)
     ELSE IF get_token # "sizeof" THEN Then(0, NONE, <<>>, <<"postfix_op">>)
     ELSE LET n == IF Peek(2) = "(" THEN 2 ELSE 1
          IN  IF Peek(n + 1) \in TypeStarts
              THEN Then(n + 1, "pointer", <<BaseType(Peek(n + 1))>>, <<>>)
              ELSE Then(n, "SIZEOF_EXPR", <<>>, <<"expression">>)

\* Mutant: whatever follows is read.
ClosingAny == 1

\* sizeof takes a closing parenthesis whether it has opened one or not.
Closing == IF get_token = ")" THEN 1 ELSE 0

PrefixDone ==
  /\ In("prefix_op")
  /\ top.kids # <<>>
  /\ \/ top.op = NONE /\ Return(0, top.kids[1])
     \/ top.op \in Prefixes /\ Return(0, PrefixTree(top.op, top.kids[1]))
     \/ top.op = "SIZEOF_EXPR" /\ Return(Closing, <<"SIZEOF_EXPR", top.kids[1]>>)
     \/ /\ top.op = "pointer" /\ get_token # "*"
        /\ Return(Closing, <<"SIZEOF_TYPE", top.kids[1]>>)

\* callexpr(); its tests of the token's kind do not ask whether there is one.
callexpr ==
  /\ In("callexpr")
  /\ \/ /\ top.op = NONE
        /\ IF get_token = "(" THEN Go(1, [top EXCEPT !.op = "("]) ELSE Return(0, top.kids[1])
     \/ top.op # NONE /\ get_token = EOT /\ End("null")
     \/ top.op # NONE /\ get_token = ")" /\ Return(1, <<"CALL">> \o top.kids)
     \/ /\ top.op = "(" /\ get_token \notin {EOT, ")"}
        /\ Then(0, COMMA, top.kids, <<"expression">>)
     \/ /\ top.op = COMMA /\ get_token \notin {EOT, ")"}
        /\ IF get_token = COMMA THEN Then(1, COMMA, top.kids, <<"expression">>)
           ELSE End("error")

Primary == IF top.op = "[" THEN gen_ptrderef(top.kids[1], top.kids[2]) ELSE top.kids[1]

\* The field named after "." or "->".
Field(t) == IF Peek(2) \in Idents THEN Then(2, NONE, <<<<"DOT", t, <<Peek(2)>>>>>>, <<>>)
            ELSE End("error")

postfix_op ==
  /\ In("postfix_op")
  /\ CASE get_token = "["  -> Then(1, "[", <<Primary>>, <<"expression", "]">>)
       [] get_token = "++" -> Then(1, NONE, <<<<"POSTINC", Primary>>>>, <<>>)
       [] get_token = "."  -> Field(Primary)
       [] get_token = "->" -> Field(<<"DEREF", Primary>>)
       [] OTHER -> Return(0, Primary)

\* The tree for a name or a literal.
Leaf(t) == IF t \in DOMAIN Consts THEN <<Consts[t]>> ELSE <<t>>

factor ==
  /\ In("factor")
  /\ IF top.kids # <<>> THEN Return(0, top.kids[1])
     ELSE CASE get_token = EOT -> End("error")
            [] get_token = "(" -> Then(1, "(", <<>>, <<"expression", ")">>)
            [] get_token \in Literals \cup Idents -> Return(1, Leaf(get_token))
            [] OTHER -> Then(0, NONE, <<>>, <<"expression">>)

-----------------------------------------------------------------------------
\* parse_statement() with parse_return(), parse_if(), parse_while(), parse_for()
Header == <<"(", "expression", ")", "compound">>

statement ==
  /\ In("statement")
  /\ top.kids = <<>>
  /\ CASE get_token = "return" ->
            IF Peek(2) = SEMICOLON THEN Return(2, <<"RETURN">>)
            ELSE Then(1, "RETURN", <<>>, <<"expression", SEMICOLON>>)
       [] get_token = "if" -> Then(1, "if", <<NULL>>, Header)
       [] get_token = "while" -> Then(1, "WHILE", <<>>, Header)
       [] get_token = "for" ->
            Then(1, "FOR", <<>>,
                 <<"(", "statement", "statement", "statement", ")", "compound">>)
       [] get_token = "break" -> Return(1, <<"BREAK">>)
       [] get_token = "continue" -> Return(1, <<"CONTINUE">>)
       [] get_token \in Types -> Then(0, SEMICOLON, <<>>, <<"vardecl">>)
       [] OTHER -> Then(0, SEMICOLON, <<>>, <<"expression">>)

Semicolon == IF get_token = SEMICOLON THEN 1 ELSE 0

\* Mutant: the semicolon is left to the caller.
StatementKeepsSemicolon ==
  /\ In("statement")
  /\ top.kids # <<>>
  /\ \/ top.op \in {"RETURN", "WHILE", "FOR"} /\ Return(0, <<top.op>> \o top.kids)
     \/ top.op = SEMICOLON /\ Return(0, top.kids[1])

StatementDone ==
  /\ In("statement")
  /\ top.kids # <<>>
  /\ \/ top.op \in {"RETURN", "WHILE", "FOR"} /\ Return(0, <<top.op>> \o top.kids)
     \/ top.op = SEMICOLON /\ Return(Semicolon, top.kids[1])

\* Mutant: an else drops the branches of the "else if"s.
BranchesFirstOnly == IF top.op = "if" THEN top.kids
                     ELSE <<top.kids[Len(top.kids)]>> \o SubSeq(top.kids, 2, 3)

\* parse_if() after a body.  The first of kids is the body of the last else,
\* the others are conditions and bodies in turn.
Branches == IF top.op = "if" THEN top.kids
            ELSE <<top.kids[Len(top.kids)]>> \o SubSeq(top.kids, 2, Len(top.kids) - 1)

parse_if ==
  /\ In("statement")
  /\ top.op \in {"if", "else"}
  /\ IF get_token # "else" THEN Return(0, <<"IF">> \o Branches)
     ELSE IF Peek(2) = "if" THEN Then(2, "if", Branches, Header)
     ELSE Then(1, "else", Branches, <<"compound">>)

compound ==
  /\ In("compound")
  /\ IF top.kids # <<>> THEN Return(0, top.kids[1])
     ELSE CASE get_token = EOT -> Return(0, NULL)
            [] get_token = LBRACE -> Then(1, LBRACE, <<>>, <<"statements", RBRACE>>)
            [] OTHER -> Then(0, NONE, <<>>, <<"statement">>)

\* Mutant: a semicolon is seen but not read.
StatementsKeepSemicolon ==
  /\ In("statements")
  /\ CASE get_token \in {EOT, RBRACE} -> Return(0, <<"STATEMENTS">> \o top.kids)
       [] get_token = SEMICOLON -> Go(0, top)
       [] OTHER -> Then(0, NONE, top.kids, <<"statement">>)

statements ==
  /\ In("statements")
  /\ CASE get_token \in {EOT, RBRACE} -> Return(0, <<"STATEMENTS">> \o top.kids)
       [] get_token = SEMICOLON -> Go(1, top)
       [] OTHER -> Then(0, NONE, top.kids, <<"statement">>)

-----------------------------------------------------------------------------
\* Declarations.  While a declarator is read, the last of kids is its type,
\* then the variable itself.
Last(s)       == s[Len(s)]
SetLast(s, e) == [s EXCEPT ![Len(s)] = e]

Var(name, type) == <<"VARDECL", <<name>>, type>>

\* parse_pointer() after the first token of a type, for all who call it
Pointer ==
  /\ Parsing
  /\ top.todo = <<>> /\ top.op = "pointer" /\ get_token = "*"
  /\ Then(1, "pointer", SetLast(top.kids, <<"PTR", Last(top.kids)>>), <<>>)

\* parse_arraydecl(), for all who call it
ArrayDecl ==
  /\ Parsing
  /\ top.todo = <<>> /\ top.op = "array" /\ get_token = "["
  /\ IF Peek(2) \in Numbers /\ Peek(3) = "]"
     THEN LET v == Last(top.kids)
          IN  Then(3, "array", SetLast(top.kids, Var(v[2][1], <<"ARRAY", v[3], <<Peek(2)>>>>)), <<>>)
     ELSE End("error")

\* parse_vardecl() with parse_declarator().  The first of kids is the base type.
vardecl ==
  /\ In("vardecl")
  /\ \/ top.op = NONE /\ Then(1, "pointer", <<<<get_token>>, <<get_token>>>>, <<>>)
     \/ /\ top.op = "pointer" /\ get_token # "*"
        /\ IF get_token \in Idents
           THEN Then(1, "array", SetLast(top.kids, Var(get_token, Last(top.kids))), <<>>)
           ELSE End("error")

Decls == SelectSeq(top.kids, LAMBDA t : t[1] = "VARDECL")

\* The variables with their initialisers, which are given to them in turn.
Initialised ==
  LET inits == SubSeq(top.kids, Len(Decls) + 2, Len(top.kids))
  IN  [i \in DOMAIN Decls |-> IF i \in DOMAIN inits THEN Append(Decls[i], inits[i]) ELSE Decls[i]]

\* After a declarator: the next one, or the initialisers, or the end.
Declared ==
  /\ In("vardecl")
  /\ top.op = "array"
  /\ get_token # "["
  /\ CASE get_token = COMMA -> Then(1, "pointer", Append(top.kids, Head(top.kids)), <<>>)
       [] get_token = "=" -> Then(1, "init", top.kids, <<"expression">>)
       [] OTHER -> Return(0, <<"STATEMENTS">> \o Decls)

\* A comma after the last initialiser that there is a variable for is read, too.
Initialiser ==
  /\ In("vardecl")
  /\ top.op = "init"
  /\ IF get_token # COMMA THEN Return(0, <<"STATEMENTS">> \o Initialised)
     ELSE IF Len(top.kids) - 1 < 2 * Len(Decls) THEN Then(1, "init", top.kids, <<"expression">>)
     ELSE Return(1, <<"STATEMENTS">> \o Initialised)

\* parse_paramtype(): a type with or without a name, NULL if there is no type and
\* no "*" either
paramtype ==
  /\ In("paramtype")
  /\ \/ /\ top.op = NONE
        /\ IF get_token \in TypeStarts
           THEN Then(1, "pointer", <<BaseType(get_token)>>, <<>>)
           ELSE Return(0, NULL)
     \/ /\ top.op = "pointer" /\ get_token # "*"
        /\ IF get_token \in Idents
           THEN Then(1, "array", <<Var(get_token, top.kids[1])>>, <<>>)
           ELSE Return(0, <<"VARDECL", NULL, top.kids[1]>>)
     \/ top.op = "array" /\ get_token # "[" /\ Return(0, top.kids[1])

paramtype_list ==
  /\ In("paramtype_list")
  /\ \/ /\ top.op = NONE
        /\ IF get_token \in Idents THEN Then(0, "param", top.kids, <<"paramtype">>)
           ELSE Return(0, <<"PARAMS">> \o top.kids)
     \/ /\ top.op = "param"
        /\ IF Last(top.kids) = NULL \/ get_token = EOT THEN End("error")
           ELSE IF get_token = COMMA THEN Then(1, NONE, top.kids, <<>>)
           ELSE Return(0, <<"PARAMS">> \o top.kids)

\* parse_toplevel(), but for typedef, struct and enum
toplevel ==
  /\ In("toplevel")
  /\ top.kids = <<>>
  /\ IF get_token = "extern" THEN Then(1, "EXTERN", <<>>, <<"paramtype">>)
     ELSE Then(0, NONE, <<>>, <<"paramtype">>)

\* A function, a variable, or a type alone; a declaration without a type is
\* asked for its name all the same.
Declaration ==
  /\ In("toplevel")
  /\ top.op = NONE /\ top.kids # <<>>
  /\ IF get_token = "(" THEN Then(1, "(", top.kids, <<"paramtype_list", ")">>)
     ELSE IF top.kids[1] = NULL THEN End("null")
     ELSE IF top.kids[1][2] = NULL THEN Return(Semicolon, <<"TYPE">>)
     ELSE IF get_token = "=" THEN Then(1, "GLOBALVAR", top.kids, <<"expression">>)
     ELSE Return(Semicolon, <<"GLOBALVAR", top.kids[1]>>)

Body ==
  /\ In("toplevel")
  /\ top.op = "("
  /\ IF get_token = SEMICOLON THEN Return(1, <<"FUNCDECL">> \o Append(top.kids, NULL))
     ELSE Then(0, "FUNCDECL", top.kids, <<LBRACE, "statements", RBRACE>>)

ToplevelDone ==
  /\ In("toplevel")
  /\ top.op \in {"EXTERN", "GLOBALVAR", "FUNCDECL"} /\ top.kids # <<>>
  /\ Return(Semicolon, <<top.op>> \o top.kids)

\* The loop of main()
main ==
  /\ In("main")
  /\ IF get_token = EOT THEN Return(0, <<"PROGRAM">> \o top.kids)
     ELSE Then(0, NONE, top.kids, <<"toplevel">>)

-----------------------------------------------------------------------------
Init ==
  /\ tokens \in Texts
  /\ pos = 0
  /\ calls = <<Call(Entry(tokens))>>
  /\ phase = "parsing"
  /\ tree = NULL

Next ==
  \/ Expect \/ Invoke
  \/ InfixLevel \/ prefix_op \/ PrefixDone \/ callexpr \/ postfix_op \/ factor
  \/ statement \/ StatementDone \/ parse_if \/ compound \/ statements
  \/ Pointer \/ ArrayDecl \/ vardecl \/ Declared \/ Initialiser
  \/ paramtype \/ paramtype_list
  \/ toplevel \/ Declaration \/ Body \/ ToplevelDone \/ main

Spec == Init /\ [][Next]_vars

\* The program is sequential: while it can take a step, it does.
FairSpec == Spec /\ WF_vars(Next)

-----------------------------------------------------------------------------
Phases == {"parsing", "done", "error", "overflow", "null"}

\* Where the activations and the token stream may stand.
TypeOK ==
  /\ tokens \in Texts
  /\ pos \in 0 .. Len(tokens)
  /\ phase \in Phases
  /\ \A i \in DOMAIN calls : calls[i].fn \in Functions /\ calls[i].start \in 0 .. pos
  /\ Len(calls) <= MaxDepth
  /\ phase = "parsing" => calls # <<>>

\* What an operand or a statement can begin with.
Beginnings == Literals \cup Idents \cup Prefixes \cup {"("}

\* A function calls itself again, directly or through others, only after it has
\* read a token: the recursion is as deep as the text is nested.  There is one way
\* round without a token, factor() calling expression() where no operand begins,
\* and it is never left: nothing more is read, no function returns and no error is
\* reported until the stack is full.
RecursionConsumes ==
  \A i, j \in DOMAIN calls :
    i < j /\ calls[i].fn = calls[j].fn /\ calls[i].start = calls[j].start =>
      /\ pos < Len(tokens) /\ tokens[pos + 1] \notin Beginnings
      /\ calls[i].start = pos
      /\ phase \in {"parsing", "overflow"}

\* Every text is parsed, refused, or ends the process.
Terminates == <>(phase # "parsing")
=============================================================================
