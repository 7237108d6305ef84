----------------------------- MODULE ParserProofs -----------------------------
(***************************************************************************)
(* The parser's recursion consumes tokens.  Between two tokens read, calls *)
(* only lead from a function of a lower rank to one of a higher rank; the  *)
(* exception is a factor() that finds no operand.  Three lemmas say this   *)
(* of the three ways in which an activation goes on: it reads and          *)
(* continues, it calls, it returns.                                        *)
(*                                                                         *)
(* The second part is about what the parser has to have read when it       *)
(* returns, and with it about a measure that each of its steps lowers: a   *)
(* function that got something has read a token, so that no loop goes      *)
(* round on nothing.                                                       *)
(*                                                                         *)
(* The third follows the exception to its end: once a factor() has found   *)
(* no operand, each activation after it is one that has read nothing and   *)
(* got nothing, and calls another such one.                                *)
(***************************************************************************)
EXTENDS Parser, SequenceTheorems, WellFoundedInduction, TLAPS

\* A function calls without having read anything only what stands further down.
Rank ==
  [fn \in Functions |->
     CASE fn = "main" -> 1
       [] fn = "toplevel" -> 2
       [] fn \in {"compound", "statements"} -> 3
       [] fn = "statement" -> 4
       [] fn \in {"vardecl", "paramtype_list"} -> 5
       [] fn = "paramtype" -> 6
       [] fn = "expression" -> 7
       [] fn = "infix_logic_or" -> 8
       [] fn = "infix_logic_and" -> 9
       [] fn = "infix_bit_and" -> 10
       [] fn = "infix_lge" -> 11
       [] fn = "infix_eq" -> 12
       [] fn = "infix_addsub" -> 13
       [] fn = "infix_muldiv" -> 14
       [] fn = "prefix_op" -> 15
       [] fn = "postfix_op" -> 16
       [] fn = "callexpr" -> 17
       [] fn = "factor" -> 18]

\* The token after the first p.
Token(p) == IF p + 1 <= Len(tokens) THEN tokens[p + 1] ELSE EOT

\* No operand and no statement begins there.
Stuck(p) == p < Len(tokens) /\ tokens[p + 1] \notin Beginnings

\* A factor() that has read nothing and got nothing.  If it calls, it has found no
\* operand and calls expression().
Turned(f) == f.fn = "factor" /\ f.op = NONE /\ f.kids = <<>>

\* f may call fn when p tokens have been read: fn is further down, or f has read some.
Descends(f, fn, p) == f.start = p => Rank[f.fn] < Rank[fn] \/ (Turned(f) /\ Stuck(p))

\* Functions that rely on what the caller has seen of the next token.
Operand == {"postfix_op", "callexpr", "factor"}

Seen(fn, p) ==
  /\ fn \in Operand => Token(p) \notin Prefixes
  /\ fn = "vardecl" => Token(p) \in Types

\* What can be left to read: a function to call or a token to expect.
Items == Functions \cup {"(", ")", "[", "]", LBRACE, RBRACE, SEMICOLON}

Activation(f) ==
  /\ DOMAIN f = {"fn", "start", "op", "kids", "todo"}
  /\ f.fn \in Functions
  /\ f.start \in Nat
  /\ f.todo \in Seq(Items)

Shape ==
  /\ calls \in Seq({calls[i] : i \in DOMAIN calls})
  /\ \A i \in DOMAIN calls : Activation(calls[i])
  /\ tokens \in Texts
  /\ pos \in Nat /\ pos <= Len(tokens)
  /\ Len(calls) <= MaxDepth
  /\ phase \in Phases
  /\ phase = "parsing" => calls # <<>>

\* How far the activation's own tokens reach: to the next one, if it has called it.
Reach(i) == IF i = Len(calls) THEN pos ELSE calls[i + 1].start

Ordered ==
  /\ \A i \in DOMAIN calls : calls[i].start <= pos
  /\ \A i, j \in DOMAIN calls : i < j => calls[i].start <= calls[j].start

Ascending ==
  \A i, j \in DOMAIN calls :
    i < j /\ calls[i].start = calls[j].start =>
      Rank[calls[i].fn] < Rank[calls[j].fn] \/ \E k \in i .. j - 1 : Turned(calls[k])

\* What is to be read after a call, or after a first item, follows a token read;
\* and so does what follows a "(".
Pending ==
  \A i \in DOMAIN calls :
    \/ (calls[i].todo # <<>> /\ (i < Len(calls) \/ Len(calls[i].todo) > 1))
    \/ (calls[i].fn \in {"callexpr", "toplevel"} /\ calls[i].op = "(")
    => calls[i].start < Reach(i)

\* The functions that rely on the next token are called at once.
AtOnce ==
  \A i \in DOMAIN calls : \A m \in DOMAIN calls[i].todo :
    m > 1 \/ i < Len(calls) => calls[i].todo[m] \notin Operand \cup {"vardecl"}

Informed ==
  \A i \in DOMAIN calls :
    /\ Seen(calls[i].fn, calls[i].start)
    /\ calls[i].fn = "vardecl" /\ calls[i].op = NONE =>
         i = Len(calls) /\ calls[i].start = pos /\ calls[i].todo = <<>>

Upcoming ==
  calls # <<>> /\ top.todo # <<>> /\ Head(top.todo) \in Functions =>
    Descends(top, Head(top.todo), pos) /\ Seen(Head(top.todo), pos)

Inv == Shape /\ Ordered /\ Ascending /\ Pending /\ AtOnce /\ Informed /\ Upcoming

-----------------------------------------------------------------------------
LEMMA FunctionSet ==
  Functions = {"infix_muldiv", "infix_addsub", "infix_eq", "infix_lge", "infix_bit_and",
               "infix_logic_and", "infix_logic_or", "expression",
               "prefix_op", "postfix_op", "callexpr", "factor", "statement", "compound",
               "statements", "vardecl", "paramtype", "paramtype_list", "toplevel", "main"}
BY DEF Functions, Infix

LEMMA Distinct ==
  /\ EOT \notin {"(", ")", "[", "]", LBRACE, RBRACE, SEMICOLON, COMMA}
  /\ "(" \notin {LBRACE, RBRACE, SEMICOLON, COMMA}
  /\ NONE \notin {LBRACE, RBRACE, SEMICOLON, COMMA}
  /\ "[" # "(" /\ NONE # EOT
  /\ LBRACE \notin {"postfix_op", "callexpr", "factor", "vardecl"}
  /\ RBRACE \notin {"postfix_op", "callexpr", "factor", "vardecl"}
  /\ SEMICOLON \notin {"postfix_op", "callexpr", "factor", "vardecl"}
BY Zenon DEF EOT, NONE, LBRACE, RBRACE, SEMICOLON, COMMA

LEMMA ItemsAreTokens == EOT \notin Items
BY FunctionSet, Distinct DEF Items, EOT

LEMMA Ranks ==
  /\ Rank["main"] = 1 /\ Rank["toplevel"] = 2
  /\ Rank["compound"] = 3 /\ Rank["statements"] = 3 /\ Rank["statement"] = 4
  /\ Rank["vardecl"] = 5 /\ Rank["paramtype_list"] = 5 /\ Rank["paramtype"] = 6
  /\ Rank["expression"] = 7 /\ Rank["infix_logic_or"] = 8 /\ Rank["infix_logic_and"] = 9
  /\ Rank["infix_bit_and"] = 10 /\ Rank["infix_lge"] = 11 /\ Rank["infix_eq"] = 12
  /\ Rank["infix_addsub"] = 13 /\ Rank["infix_muldiv"] = 14 /\ Rank["prefix_op"] = 15
  /\ Rank["postfix_op"] = 16 /\ Rank["callexpr"] = 17 /\ Rank["factor"] = 18
BY FunctionSet DEF Rank

LEMMA RankType == \A fn \in Functions : Rank[fn] \in Nat
BY FunctionSet, Ranks

\* An infix level asks for an operand that binds more tightly, or for an expression.
LEMMA Levels ==
  ASSUME NEW fn \in DOMAIN Infix
  PROVE  /\ Infix[fn].first \in Functions /\ Infix[fn].next \in Functions
         /\ Infix[fn].first \in Items /\ Infix[fn].next \in Items
         /\ Rank[fn] < Rank[Infix[fn].first]
         /\ Infix[fn].first \notin Operand \cup {"vardecl"}
         /\ Infix[fn].next \notin Operand \cup {"vardecl"}
         /\ fn \notin Operand \cup {"vardecl", "callexpr", "toplevel"}
         /\ EOT \notin Infix[fn].ops
<1>1. fn \in {"infix_muldiv", "infix_addsub", "infix_eq", "infix_lge", "infix_bit_and",
              "infix_logic_and", "infix_logic_or", "expression"}
  BY DEF Infix
<1>2. CASE fn = "infix_muldiv"
  BY <1>2, FunctionSet, Ranks DEF Infix, infix_muldiv, Items, Operand, EOT
<1>3. CASE fn = "infix_addsub"
  BY <1>3, FunctionSet, Ranks DEF Infix, infix_addsub, Items, Operand, EOT
<1>4. CASE fn = "infix_eq"
  BY <1>4, FunctionSet, Ranks DEF Infix, infix_eq, Items, Operand, EOT
<1>5. CASE fn = "infix_lge"
  BY <1>5, FunctionSet, Ranks DEF Infix, infix_lge, Items, Operand, EOT
<1>6. CASE fn = "infix_bit_and"
  BY <1>6, FunctionSet, Ranks DEF Infix, infix_bit_and, Items, Operand, EOT
<1>7. CASE fn = "infix_logic_and"
  BY <1>7, FunctionSet, Ranks DEF Infix, infix_logic_and, Items, Operand, EOT
<1>8. CASE fn = "infix_logic_or"
  BY <1>8, FunctionSet, Ranks DEF Infix, infix_logic_or, Items, Operand, EOT
<1>9. CASE fn = "expression"
  BY <1>9, FunctionSet, Ranks DEF Infix, infix_assign, Items, Operand, EOT
<1> QED BY <1>1, <1>2, <1>3, <1>4, <1>5, <1>6, <1>7, <1>8, <1>9

\* What a call begins with.
LEMMA Calls ==
  ASSUME NEW fn \in Functions, pos \in Nat
  PROVE  /\ Activation(Call(fn))
         /\ Call(fn).fn = fn /\ Call(fn).start = pos /\ Call(fn).op = NONE
         /\ Len(Call(fn).todo) <= 1
         /\ Call(fn).todo # <<>> =>
              /\ Call(fn).todo = <<Call(fn).todo[1]>>
              /\ Call(fn).todo[1] \in Functions
              /\ Rank[fn] < Rank[Call(fn).todo[1]]
              /\ Call(fn).todo[1] # "vardecl"
              /\ Call(fn).todo[1] \in Operand => fn \in Operand
         /\ fn = "vardecl" => Call(fn).todo = <<>>
<1>1. CASE fn \in DOMAIN Infix
  <2>1. Call(fn).todo = <<Infix[fn].first>>
    BY <1>1 DEF Call
  <2>2. /\ Infix[fn].first \in Functions /\ Rank[fn] < Rank[Infix[fn].first]
        /\ Infix[fn].first \notin Operand \cup {"vardecl"} /\ fn # "vardecl"
        /\ Infix[fn].first \in Items
    BY <1>1, Levels
  <2>3. <<Infix[fn].first>> \in Seq(Items)
    BY <2>2
  <2>4. Activation(Call(fn))
    BY <2>1, <2>3 DEF Call, Activation
  <2> QED BY <2>1, <2>2, <2>4 DEF Call
<1>2. CASE fn = "postfix_op"
  <2>1. fn \notin DOMAIN Infix
    BY <1>2 DEF Infix
  <2>2. Call(fn).todo = <<"callexpr">>
    BY <1>2, <2>1 DEF Call
  <2>3. <<"callexpr">> \in Seq(Items)
    BY FunctionSet DEF Items
  <2> QED BY <1>2, <2>2, <2>3, Ranks, FunctionSet DEF Call, Activation, Operand
<1>3. CASE fn = "callexpr"
  <2>1. fn \notin DOMAIN Infix
    BY <1>3 DEF Infix
  <2>2. Call(fn).todo = <<"factor">>
    BY <1>3, <2>1 DEF Call
  <2>3. <<"factor">> \in Seq(Items)
    BY FunctionSet DEF Items
  <2> QED BY <1>3, <2>2, <2>3, Ranks, FunctionSet DEF Call, Activation, Operand
<1>4. CASE fn \notin DOMAIN Infix \cup {"postfix_op", "callexpr"}
  <2>1. Call(fn).todo = <<>>
    BY <1>4 DEF Call
  <2>2. <<>> \in Seq(Items)
    OBVIOUS
  <2> QED BY <2>1, <2>2 DEF Call, Activation
<1> QED BY <1>1, <1>2, <1>3, <1>4

LEMMA Stack ==
  ASSUME Shape, calls # <<>>
  PROVE  /\ DOMAIN calls = 1 .. Len(calls) /\ Len(calls) \in Nat \ {0}
         /\ top = calls[Len(calls)] /\ Activation(top)
         /\ rest \in Seq({calls[i] : i \in DOMAIN calls})
         /\ Len(rest) = Len(calls) - 1
         /\ \A i \in 1 .. Len(calls) - 1 : rest[i] = calls[i]
<1> DEFINE S == {calls[i] : i \in DOMAIN calls}
<1>1. calls \in Seq(S)
  BY DEF Shape
<1> HIDE DEF S
<1>2. DOMAIN calls = 1 .. Len(calls) /\ Len(calls) \in Nat \ {0}
  BY <1>1
<1>3. /\ rest \in Seq(S)
      /\ Len(rest) = Len(calls) - 1
      /\ \A i \in 1 .. Len(calls) - 1 : rest[i] = calls[i]
  BY <1>1, <1>2 DEF rest
<1>4. Activation(top) /\ top = calls[Len(calls)]
  BY <1>2 DEF Shape, top
<1> QED BY <1>2, <1>3, <1>4 DEF S

\* A sequence is one of its own elements.
LEMMA OfItsElements ==
  ASSUME NEW S, NEW s \in Seq(S)
  PROVE  s \in Seq({s[i] : i \in DOMAIN s})
OBVIOUS

LEMMA Appended ==
  ASSUME NEW S, NEW s \in Seq(S), NEW e
  PROVE  /\ Append(s, e) \in Seq(S \cup {e}) /\ Len(Append(s, e)) = Len(s) + 1
         /\ \A i \in 1 .. Len(s) + 1 :
              Append(s, e)[i] = IF i = Len(s) + 1 THEN e ELSE s[i]
<1>1. s \in Seq(S \cup {e})
  OBVIOUS
<1> QED BY <1>1

LEMMA Peeks ==
  ASSUME Shape, NEW n \in Nat, Peek(n) # EOT
  PROVE  pos + n <= Len(tokens)
BY DEF Peek

LEMMA LenTokens ==
  ASSUME Shape
  PROVE  Len(tokens) \in Nat
BY TextsAssumption DEF Shape

-----------------------------------------------------------------------------
\* Reading n tokens and going on as f, which is the same activation.
LEMMA Goes ==
  ASSUME Inv, Parsing, NEW n \in Nat, pos + n <= Len(tokens), NEW f, Go(n, f),
         Activation(f), f.fn = top.fn, f.start = top.start,
         (f.todo # <<>> /\ Len(f.todo) > 1) \/ (f.fn \in {"callexpr", "toplevel"} /\ f.op = "(")
           => f.start < pos + n,
         \A m \in DOMAIN f.todo : m > 1 => f.todo[m] \notin Operand \cup {"vardecl"},
         f.fn = "vardecl" => f.op # NONE,
         f.todo # <<>> /\ Head(f.todo) \in Functions =>
           Descends(f, Head(f.todo), pos + n) /\ Seen(Head(f.todo), pos + n)
  PROVE  Inv'
<1> DEFINE N == Len(calls)
<1>1. calls # <<>> /\ Shape /\ N \in Nat \ {0} /\ DOMAIN calls = 1 .. N /\ top = calls[N]
  BY Stack DEF Inv, Shape, Parsing
<1>2. /\ calls' \in Seq({calls[i] : i \in DOMAIN calls} \cup {f})
      /\ Len(calls') = N /\ DOMAIN calls' = 1 .. N
      /\ \A i \in 1 .. N : calls'[i] = IF i = N THEN f ELSE calls[i]
  <2> DEFINE S == {calls[i] : i \in DOMAIN calls}
  <2>1. rest \in Seq(S) /\ Len(rest) = N - 1 /\ \A i \in 1 .. N - 1 : rest[i] = calls[i]
    BY <1>1, Stack
  <2>2. calls' = Append(rest, f)
    BY DEF Go
  <2> HIDE DEF S, N
  <2>3. /\ calls' \in Seq(S \cup {f}) /\ Len(calls') = Len(rest) + 1
        /\ \A i \in 1 .. Len(rest) + 1 : calls'[i] = IF i = Len(rest) + 1 THEN f ELSE rest[i]
    BY <2>1, <2>2, Appended
  <2>4. Len(calls') = N /\ N \in Nat
    BY <1>1, <2>1, <2>3
  <2>5. \A i \in 1 .. N : calls'[i] = IF i = N THEN f ELSE calls[i]
    BY <1>1, <2>1, <2>3
  <2>6. DOMAIN calls' = 1 .. N
    BY <2>3, <2>4
  <2> QED BY <2>3, <2>4, <2>5, <2>6 DEF S
<1>3. /\ pos' = pos + n /\ tokens' = tokens /\ phase' = phase
      /\ pos \in Nat /\ pos' \in Nat /\ pos <= pos' /\ calls' # <<>>
  <2>1. pos' = pos + n /\ tokens' = tokens /\ phase' = phase /\ pos \in Nat
    BY <1>1 DEF Go, Shape
  <2>2. pos' \in Nat /\ pos <= pos'
    BY <2>1
  <2>3. calls' # <<>>
    <3>1. Len(calls') # 0
      BY <1>1, <1>2
    <3> QED BY <3>1
  <2> QED BY <2>1, <2>2, <2>3
<1> HIDE DEF N
<1>4. \A i \in 1 .. N : /\ calls'[i].fn = calls[i].fn /\ calls'[i].start = calls[i].start
                        /\ Activation(calls'[i]) /\ calls[i].start \in Nat
  BY <1>1, <1>2 DEF Shape, Activation
<1>5. Shape'
  <2>1. calls' \in Seq({calls'[i] : i \in DOMAIN calls'})
    BY <1>2, OfItsElements
  <2>2. \A i \in DOMAIN calls' : Activation(calls'[i])
    BY <1>2, <1>4
  <2>3. N <= MaxDepth
    BY <1>1 DEF Shape, N
  <2> QED BY <1>1, <1>2, <1>3, <2>1, <2>2, <2>3 DEF Shape, Activation
<1>6. Ordered'
  BY <1>1, <1>2, <1>3, <1>4 DEF Inv, Ordered
<1>7. Ascending'
  <2>1. \A i, j \in 1 .. N : i < j => \A k \in i .. j - 1 : calls'[k] = calls[k]
    BY <1>1, <1>2
  <2>2. \A i, j \in 1 .. N : i < j /\ calls[i].start = calls[j].start =>
          Rank[calls[i].fn] < Rank[calls[j].fn] \/ \E k \in i .. j - 1 : Turned(calls[k])
    BY <1>1 DEF Inv, Ascending
  <2>3. \A i, j \in 1 .. N : i < j /\ calls'[i].start = calls'[j].start =>
          Rank[calls'[i].fn] < Rank[calls'[j].fn] \/ \E k \in i .. j - 1 : Turned(calls'[k])
    BY <2>1, <2>2, <1>4
  <2> QED BY <2>3, <1>2 DEF Ascending
<1>8. Pending'
  <2> SUFFICES ASSUME NEW i \in 1 .. N,
                      \/ (calls'[i].todo # <<>> /\ (i < N \/ Len(calls'[i].todo) > 1))
                      \/ (calls'[i].fn \in {"callexpr", "toplevel"} /\ calls'[i].op = "(")
               PROVE  calls'[i].start < Reach(i)'
    BY <1>2 DEF Pending
  <2>1. CASE i = N
    BY <2>1, <1>1, <1>2, <1>3 DEF Reach
  <2>2. CASE i < N
    <3>1. i + 1 \in 1 .. N /\ i # N
      BY <2>2, <1>1
    <3>2. Reach(i)' = calls'[i + 1].start /\ Reach(i) = calls[i + 1].start
      BY <3>1, <1>2 DEF Reach, N
    <3>3. calls'[i] = calls[i] /\ i \in DOMAIN calls /\ i < Len(calls)
      BY <3>1, <2>2, <1>1, <1>2 DEF N
    <3>4. calls[i].start < Reach(i)
      BY <3>3 DEF Inv, Pending
    <3> QED BY <3>1, <3>2, <3>3, <3>4, <1>4
  <2> QED BY <1>1, <2>1, <2>2
<1>9. AtOnce'
  <2> SUFFICES ASSUME NEW i \in 1 .. N, NEW m \in DOMAIN calls'[i].todo, m > 1 \/ i < N
               PROVE  calls'[i].todo[m] \notin Operand \cup {"vardecl"}
    BY <1>2 DEF AtOnce
  <2>1. CASE i = N
    BY <2>1, <1>1, <1>2
  <2>2. CASE i # N
    <3>1. calls'[i] = calls[i]
      BY <2>2, <1>2
    <3>2. i \in DOMAIN calls /\ i < N
      BY <2>2, <1>1
    <3> QED BY <3>1, <3>2 DEF Inv, AtOnce, N
  <2> QED BY <2>1, <2>2
<1>10. Informed'
  <2>1. \A i \in 1 .. N : (Seen(calls[i].fn, calls[i].start))'
    BY <1>1, <1>3, <1>4 DEF Inv, Informed, Seen, Token
  <2>2. \A i \in 1 .. N : ~(calls'[i].fn = "vardecl" /\ calls'[i].op = NONE)
    BY <1>1, <1>2 DEF Inv, Informed, N
  <2> QED BY <1>2, <2>1, <2>2 DEF Informed
<1>11. Upcoming'
  <2>1. top' = f
    BY <1>1, <1>2 DEF top
  <2> QED BY <2>1, <1>3 DEF Upcoming, Descends, Turned, Seen, Stuck, Token
<1> QED BY <1>5, <1>6, <1>7, <1>8, <1>9, <1>10, <1>11 DEF Inv

LEMMA Returns ==
  ASSUME Inv, Parsing, NEW n \in Nat, pos + n <= Len(tokens), NEW t, Return(n, t)
  PROVE  Inv'
<1> DEFINE N == Len(calls)
<1>1. calls # <<>> /\ Shape /\ N \in Nat \ {0} /\ DOMAIN calls = 1 .. N /\ top = calls[N]
  BY Stack DEF Inv, Shape, Parsing
<1>2. /\ rest \in Seq({calls[i] : i \in DOMAIN calls}) /\ Len(rest) = N - 1
      /\ \A i \in 1 .. N - 1 : rest[i] = calls[i]
  BY <1>1, Stack
<1>3. /\ pos' = pos + n /\ tokens' = tokens
      /\ pos \in Nat /\ pos' \in Nat /\ pos <= pos'
  BY <1>1 DEF Return, Shape
<1> HIDE DEF N
<1>4. CASE rest = <<>>
  <2>1. calls' = <<>> /\ phase' = "done"
    BY <1>4 DEF Return
  <2>2. DOMAIN calls' = {} /\ Len(calls') = 0 /\ calls' \in Seq({calls'[i] : i \in DOMAIN calls'})
    BY <2>1
  <2> QED BY <2>1, <2>2, <1>1, <1>3, DepthAssumption
       DEF Inv, Shape, Ordered, Ascending, Pending, AtOnce, Informed, Upcoming, Phases
<1>5. CASE rest # <<>>
  <2>0. PICK M \in Nat : M = N - 1
    BY <1>1
  <2> DEFINE g == [rest[M] EXCEPT !.kids = Append(@, t)]
  <2>1. M \in Nat \ {0} /\ M < N /\ M \in DOMAIN rest /\ DOMAIN rest = 1 .. M
    BY <2>0, <1>1, <1>2, <1>5
  <2>2. phase' = phase /\ calls' = [rest EXCEPT ![M] = g]
    BY <2>0, <1>2, <1>5 DEF Return
  <2>3. /\ Activation(g) /\ g.fn = calls[M].fn /\ g.start = calls[M].start
        /\ g.op = calls[M].op /\ g.todo = calls[M].todo
    <3>1. rest[M] = calls[M] /\ Activation(calls[M])
      BY <2>1, <1>1, <1>2 DEF Shape
    <3> QED BY <3>1 DEF Activation
  <2> HIDE DEF g
  <2>4. /\ Len(calls') = M /\ DOMAIN calls' = 1 .. M
        /\ calls' \in Seq({calls[i] : i \in DOMAIN calls} \cup {g})
        /\ \A i \in 1 .. M : calls'[i] = IF i = M THEN g ELSE calls[i]
    <3> DEFINE S == {calls[i] : i \in DOMAIN calls}
    <3>1. rest \in Seq(S) /\ Len(rest) = M /\ \A i \in 1 .. M : rest[i] = calls[i]
      BY <2>0, <1>2
    <3> HIDE DEF S
    <3>2. calls' \in Seq(S \cup {g}) /\ Len(calls') = M
      BY <2>1, <2>2, <3>1
    <3>3. \A i \in 1 .. M : calls'[i] = IF i = M THEN g ELSE calls[i]
      BY <2>1, <2>2, <3>1
    <3> QED BY <2>1, <2>2, <3>2, <3>3 DEF S
  <2>5. \A i \in 1 .. M :
          /\ calls'[i].fn = calls[i].fn /\ calls'[i].start = calls[i].start
          /\ calls'[i].op = calls[i].op /\ calls'[i].todo = calls[i].todo
          /\ Activation(calls'[i]) /\ calls[i].start \in Nat
          /\ i \in DOMAIN calls /\ i < Len(calls) /\ i + 1 \in DOMAIN calls
          /\ Reach(i) = calls[i + 1].start
    <3> SUFFICES ASSUME NEW i \in 1 .. M
                 PROVE  /\ calls'[i].fn = calls[i].fn /\ calls'[i].start = calls[i].start
                        /\ calls'[i].op = calls[i].op /\ calls'[i].todo = calls[i].todo
                        /\ Activation(calls'[i]) /\ calls[i].start \in Nat
                        /\ i \in DOMAIN calls /\ i < Len(calls) /\ i + 1 \in DOMAIN calls
                        /\ Reach(i) = calls[i + 1].start
      OBVIOUS
    <3>1. i \in 1 .. N /\ i + 1 \in 1 .. N /\ i < N
      BY <1>1, <2>0, <2>1
    <3>2. Activation(calls[i])
      BY <1>1, <3>1 DEF Shape
    <3>3. /\ calls'[i].fn = calls[i].fn /\ calls'[i].start = calls[i].start
          /\ calls'[i].op = calls[i].op /\ calls'[i].todo = calls[i].todo
      BY <2>3, <2>4
    <3>4. Activation(calls'[i])
      BY <2>3, <2>4, <3>2
    <3>5. Reach(i) = calls[i + 1].start
      BY <3>1 DEF Reach, N
    <3> QED BY <1>1, <3>1, <3>2, <3>3, <3>4, <3>5 DEF Activation, N
  <2>6. M \in 1 .. M /\ calls' # <<>> /\ top' = calls'[M]
    BY <2>1, <2>4 DEF top
  <2>7. Shape'
    <3>1. calls' \in Seq({calls'[i] : i \in DOMAIN calls'})
      BY <2>4, OfItsElements
    <3>2. \A i \in DOMAIN calls' : Activation(calls'[i])
      BY <2>4, <2>5
    <3>3. M <= MaxDepth
      BY <1>1, <2>1, DepthAssumption DEF Shape, N
    <3> QED BY <1>1, <1>3, <2>2, <2>4, <2>6, <3>1, <3>2, <3>3 DEF Shape, Activation
  <2>8. Ordered'
    <3>1. \A i \in 1 .. M : calls'[i].start <= pos'
      <4>1. \A i \in 1 .. M : calls[i].start <= pos /\ calls[i].start \in Nat
        BY <2>5 DEF Inv, Ordered
      <4> QED BY <4>1, <1>3, <2>5
    <3>2. \A i, j \in 1 .. M : i < j => calls'[i].start <= calls'[j].start
      BY <2>5 DEF Inv, Ordered
    <3> QED BY <2>4, <3>1, <3>2 DEF Ordered
  <2>9. Ascending'
    <3>1. \A i, j \in 1 .. M : i < j => \A k \in i .. j - 1 : calls'[k] = calls[k]
      BY <2>1, <2>4
    <3>2. \A i, j \in 1 .. M : i < j /\ calls[i].start = calls[j].start =>
            Rank[calls[i].fn] < Rank[calls[j].fn] \/ \E k \in i .. j - 1 : Turned(calls[k])
      BY <2>5 DEF Inv, Ascending
    <3>3. \A i, j \in 1 .. M : i < j /\ calls'[i].start = calls'[j].start =>
            Rank[calls'[i].fn] < Rank[calls'[j].fn] \/ \E k \in i .. j - 1 : Turned(calls'[k])
      BY <3>1, <3>2, <2>5
    <3> QED BY <3>3, <2>4 DEF Ascending
  <2>10. \A i \in 1 .. M : Reach(i) <= Reach(i)' /\ Reach(i) \in Nat /\ Reach(i)' \in Nat
    <3> SUFFICES ASSUME NEW i \in 1 .. M
                 PROVE  Reach(i) <= Reach(i)' /\ Reach(i) \in Nat /\ Reach(i)' \in Nat
      OBVIOUS
    <3>1. Reach(i) = calls[i + 1].start /\ calls[i + 1].start \in Nat /\ calls[i + 1].start <= pos
      BY <1>1, <2>5 DEF Inv, Ordered, Shape, Activation
    <3>2. CASE i = M
      BY <3>1, <3>2, <1>3, <2>4 DEF Reach
    <3>3. CASE i < M
      <4>1. i + 1 \in 1 .. M
        BY <3>3, <2>1
      <4> QED BY <4>1, <3>1, <3>3, <2>4, <2>5 DEF Reach
    <3> QED BY <3>2, <3>3, <2>1
  <2>11. Pending'
    <3> SUFFICES ASSUME NEW i \in 1 .. M,
                        \/ calls'[i].todo # <<>>
                        \/ (calls'[i].fn \in {"callexpr", "toplevel"} /\ calls'[i].op = "(")
                 PROVE  calls'[i].start < Reach(i)'
      BY <2>4 DEF Pending
    <3>1. calls[i].start < Reach(i)
      BY <2>5 DEF Inv, Pending
    <3> QED BY <3>1, <2>5, <2>10
  <2>12. AtOnce'
    BY <2>4, <2>5 DEF Inv, AtOnce
  <2>13. Informed'
    <3>1. \A i \in 1 .. M : (Seen(calls[i].fn, calls[i].start))'
      BY <1>3, <2>5 DEF Inv, Informed, Seen, Token
    <3>2. \A i \in 1 .. M : ~(calls'[i].fn = "vardecl" /\ calls'[i].op = NONE)
      BY <2>5 DEF Inv, Informed
    <3> QED BY <2>4, <3>1, <3>2 DEF Informed
  <2>14. Upcoming'
    <3> SUFFICES ASSUME top'.todo # <<>>
                 PROVE  (Descends(top, Head(top.todo), pos) /\ Seen(Head(top.todo), pos))'
      BY DEF Upcoming
    <3>1. calls[M].start < Reach(M)
      BY <2>5, <2>6 DEF Inv, Pending
    <3>2. top'.start < pos'
      <4>1. Reach(M)' = pos'
        BY <2>4 DEF Reach
      <4>2. Reach(M) <= pos' /\ Reach(M) \in Nat
        BY <4>1, <2>6, <2>10
      <4>3. top'.start = calls[M].start /\ calls[M].start \in Nat
        BY <2>5, <2>6
      <4> QED BY <3>1, <4>2, <4>3, <1>3
    <3>3. 1 \in DOMAIN calls[M].todo /\ Head(top'.todo) = calls[M].todo[1]
      BY <2>5, <2>6 DEF Activation
    <3>4. Head(top'.todo) \notin Operand \cup {"vardecl"}
      BY <3>3, <2>5, <2>6 DEF Inv, AtOnce
    <3>5. Seen(Head(top.todo), pos)'
      BY <3>4 DEF Seen
    <3>6. Descends(top, Head(top.todo), pos)'
      BY <3>2, <2>5, <2>6, <1>3 DEF Descends
    <3> QED BY <3>5, <3>6
  <2> QED BY <2>7, <2>8, <2>9, <2>11, <2>12, <2>13, <2>14 DEF Inv
<1> QED BY <1>4, <1>5

LEMMA Ends ==
  ASSUME Inv, Parsing, NEW how \in Phases, End(how)
  PROVE  Inv'
<1>1. Shape'
  BY DEF Inv, Shape, End, Activation, Parsing
<1>2. (Ordered /\ Ascending /\ Pending /\ AtOnce /\ Informed /\ Upcoming)'
  BY DEF Inv, End, Ordered, Ascending, Pending, AtOnce, Informed, Upcoming, Reach, Stuck,
         Seen, Token, Descends, Turned, top
<1> QED BY <1>1, <1>2 DEF Inv

LEMMA ExpectStep ==
  ASSUME Inv, Expect
  PROVE  Inv'
<1>1. Shape /\ calls # <<>> /\ Parsing
  BY DEF Inv, Shape, Expect, Parsing
<1>2. /\ Activation(top) /\ top.todo # <<>> /\ Head(top.todo) \in Items
      /\ Len(calls) \in DOMAIN calls /\ top = calls[Len(calls)]
  BY <1>1, Stack DEF Expect, Activation
<1>3. CASE End("error")
  BY <1>1, <1>3, Ends DEF Phases
<1>4. CASE get_token = Head(top.todo) /\ Go(1, [top EXCEPT !.todo = Tail(@)])
  <2> DEFINE f == [top EXCEPT !.todo = Tail(@)]
  <2>1. /\ Activation(f) /\ f.fn = top.fn /\ f.start = top.start /\ f.op = top.op
        /\ f.todo = Tail(top.todo)
    BY <1>2 DEF Activation
  <2>2. Go(1, f)
    BY <1>4
  <2> HIDE DEF f
  <2>3. pos + 1 <= Len(tokens)
    BY <1>1, <1>2, <1>4, ItemsAreTokens, Peeks DEF get_token
  <2>4. top.start < pos + 1
    BY <1>1, <1>2 DEF Inv, Ordered, Shape, Activation
  <2>5. \A m \in DOMAIN f.todo : f.todo[m] \notin Operand \cup {"vardecl"}
    <3> SUFFICES ASSUME NEW m \in DOMAIN f.todo
                 PROVE  f.todo[m] \notin Operand \cup {"vardecl"}
      OBVIOUS
    <3>1. m + 1 \in DOMAIN top.todo /\ m + 1 > 1 /\ f.todo[m] = top.todo[m + 1]
      BY <1>2, <2>1 DEF Activation
    <3> QED BY <3>1, <1>2 DEF Inv, AtOnce
  <2>6. f.fn = "vardecl" => f.op # NONE
    BY <1>2, <2>1 DEF Inv, Informed
  <2>7. f.todo # <<>> =>
          Descends(f, Head(f.todo), pos + 1) /\ Seen(Head(f.todo), pos + 1)
    <3> SUFFICES ASSUME f.todo # <<>>
                 PROVE  Descends(f, Head(f.todo), pos + 1) /\ Seen(Head(f.todo), pos + 1)
      OBVIOUS
    <3>1. Head(f.todo) = f.todo[1] /\ 1 \in DOMAIN f.todo
      BY <2>1 DEF Activation
    <3>2. Descends(f, Head(f.todo), pos + 1)
      <4>1. f.start \in Nat /\ f.start < pos + 1 /\ pos + 1 \in Nat
        BY <1>1, <2>1, <2>4 DEF Shape, Activation
      <4> QED BY <4>1 DEF Descends
    <3>3. Seen(Head(f.todo), pos + 1)
      BY <3>1, <2>5 DEF Seen
    <3> QED BY <3>2, <3>3
  <2> QED BY <1>1, <2>1, <2>2, <2>3, <2>4, <2>5, <2>6, <2>7, Goes
<1> QED BY <1>3, <1>4 DEF Expect

LEMMA InvokeStep ==
  ASSUME Inv, Invoke
  PROVE  Inv'
<1> DEFINE N == Len(calls)
           f == [top EXCEPT !.todo = Tail(@)]
           fn == Head(top.todo)
           g == Call(fn)
<1>1. Shape /\ calls # <<>> /\ Parsing
  BY DEF Inv, Shape, Invoke, Parsing
<1>2. /\ Activation(top) /\ top.todo # <<>> /\ fn \in Functions
      /\ N \in DOMAIN calls /\ top = calls[N] /\ N \in Nat \ {0} /\ DOMAIN calls = 1 .. N
      /\ pos \in Nat
  BY <1>1, Stack DEF Invoke, Shape
<1>3. CASE End("overflow")
  BY <1>1, <1>3, Ends DEF Phases
<1>4. CASE /\ N # MaxDepth
           /\ calls' = rest \o <<f, g>>
           /\ UNCHANGED <<tokens, pos, phase, tree>>
  <2>1. /\ Activation(f) /\ f.fn = top.fn /\ f.start = top.start /\ f.op = top.op
        /\ f.todo = Tail(top.todo)
    BY <1>2 DEF Activation
  <2>2. /\ Activation(g) /\ g.fn = fn /\ g.start = pos /\ g.op = NONE
        /\ Len(g.todo) <= 1
        /\ g.todo # <<>> => /\ g.todo = <<g.todo[1]>>
                            /\ g.todo[1] \in Functions /\ Rank[fn] < Rank[g.todo[1]]
                            /\ g.todo[1] # "vardecl"
                            /\ g.todo[1] \in Operand => fn \in Operand
        /\ fn = "vardecl" => g.todo = <<>>
    BY <1>2, Calls
  <2>3. Descends(top, fn, pos) /\ Seen(fn, pos)
    BY <1>1, <1>2 DEF Inv, Upcoming
  <2>4. /\ rest \in Seq({calls[i] : i \in DOMAIN calls}) /\ Len(rest) = N - 1
        /\ \A i \in 1 .. N - 1 : rest[i] = calls[i]
    BY <1>1, Stack
  <2> HIDE DEF f, g, fn
  <2>5. /\ calls' \in Seq({calls[i] : i \in DOMAIN calls} \cup {f} \cup {g})
        /\ Len(calls') = N + 1 /\ DOMAIN calls' = 1 .. N + 1
        /\ \A i \in 1 .. N + 1 :
             calls'[i] = IF i = N + 1 THEN g ELSE IF i = N THEN f ELSE calls[i]
    <3> DEFINE S == {calls[i] : i \in DOMAIN calls}
               r == Append(rest, f)
    <3>1. rest \in Seq(S) /\ Len(rest) = N - 1 /\ \A i \in 1 .. N - 1 : rest[i] = calls[i]
      BY <2>4
    <3> HIDE DEF S, N
    <3>2. calls' = Append(r, g)
      BY <1>4, <3>1
    <3>3. /\ r \in Seq(S \cup {f}) /\ Len(r) = Len(rest) + 1
          /\ \A i \in 1 .. Len(rest) + 1 : r[i] = IF i = Len(rest) + 1 THEN f ELSE rest[i]
      BY <3>1, Appended
    <3> HIDE DEF r
    <3>4. /\ calls' \in Seq(S \cup {f} \cup {g}) /\ Len(calls') = Len(r) + 1
          /\ \A i \in 1 .. Len(r) + 1 : calls'[i] = IF i = Len(r) + 1 THEN g ELSE r[i]
      BY <3>2, <3>3, Appended
    <3>5. Len(r) = N /\ Len(calls') = N + 1 /\ N \in Nat \ {0}
      BY <1>2, <3>1, <3>3, <3>4
    <3>6. DOMAIN calls' = 1 .. N + 1
      BY <3>4, <3>5
    <3>7. \A i \in 1 .. N + 1 :
            calls'[i] = IF i = N + 1 THEN g ELSE IF i = N THEN f ELSE calls[i]
      BY <3>1, <3>3, <3>4, <3>5
    <3> QED BY <3>4, <3>5, <3>6, <3>7 DEF S
  <2>6. tokens' = tokens /\ pos' = pos /\ phase' = phase
    BY <1>4
  <2> HIDE DEF N
  <2>7. /\ calls'[N + 1] = g /\ N + 1 \in 1 .. N + 1
        /\ \A i \in 1 .. N :
             /\ i \in 1 .. N + 1 /\ i # N + 1 /\ i \in DOMAIN calls
             /\ calls'[i].fn = calls[i].fn /\ calls'[i].start = calls[i].start
             /\ calls'[i].op = calls[i].op /\ Activation(calls'[i])
             /\ calls[i].start \in Nat /\ calls[i].start <= pos
             /\ calls[i].fn \in Functions /\ i <= N
    <3>1. calls'[N + 1] = g /\ N + 1 \in 1 .. N + 1
      BY <1>2, <2>5
    <3> SUFFICES ASSUME NEW i \in 1 .. N
                 PROVE  /\ i \in 1 .. N + 1 /\ i # N + 1 /\ i \in DOMAIN calls
                        /\ calls'[i].fn = calls[i].fn /\ calls'[i].start = calls[i].start
                        /\ calls'[i].op = calls[i].op /\ Activation(calls'[i])
                        /\ calls[i].start \in Nat /\ calls[i].start <= pos
                        /\ calls[i].fn \in Functions /\ i <= N
      BY <3>1
    <3>2. i \in 1 .. N + 1 /\ i # N + 1 /\ i \in DOMAIN calls /\ i <= N
      BY <1>2
    <3>3. Activation(calls[i]) /\ calls[i].start <= pos
      BY <1>1, <3>2 DEF Shape, Inv, Ordered
    <3>4. calls'[i] = IF i = N THEN f ELSE calls[i]
      BY <3>2, <2>5
    <3>5. calls'[i].fn = calls[i].fn /\ calls'[i].start = calls[i].start
          /\ calls'[i].op = calls[i].op /\ Activation(calls'[i])
      BY <3>4, <3>3, <2>1, <1>2
    <3> QED BY <3>2, <3>3, <3>5 DEF Activation
  <2>8. Shape'
    <3>1. calls' \in Seq({calls'[i] : i \in DOMAIN calls'})
      BY <2>5, OfItsElements
    <3>2. \A i \in DOMAIN calls' : Activation(calls'[i])
      <4>1. \A i \in 1 .. N + 1 : i \in 1 .. N \/ i = N + 1
        BY <1>2
      <4> QED BY <4>1, <2>2, <2>5, <2>7
    <3>3. Len(calls') <= MaxDepth
      <4>1. N <= MaxDepth /\ N # MaxDepth /\ N \in Nat /\ Len(calls') = N + 1
        BY <1>1, <1>2, <1>4, <2>5 DEF Shape, N
      <4> QED BY <4>1, DepthAssumption
    <3>4. calls' # <<>>
      BY <1>2, <2>5
    <3> QED BY <1>1, <2>6, <3>1, <3>2, <3>3, <3>4 DEF Shape, Activation
  <2>9. \A i \in 1 .. N + 1 : i \in 1 .. N \/ i = N + 1
    BY <1>2
  <2>10. Ordered'
    <3>1. \A i \in 1 .. N + 1 : calls'[i].start <= pos'
      BY <1>2, <2>2, <2>6, <2>7, <2>9
    <3>2. \A i, j \in 1 .. N + 1 : i < j => calls'[i].start <= calls'[j].start
      <4> SUFFICES ASSUME NEW i \in 1 .. N + 1, NEW j \in 1 .. N + 1, i < j
                   PROVE  calls'[i].start <= calls'[j].start
        OBVIOUS
      <4>1. i \in 1 .. N
        BY <1>2
      <4>2. CASE j \in 1 .. N
        BY <4>1, <4>2, <2>7 DEF Inv, Ordered
      <4>3. CASE j = N + 1
        BY <4>1, <4>3, <2>2, <2>7
      <4> QED BY <4>2, <4>3, <2>9
    <3> QED BY <2>5, <3>1, <3>2 DEF Ordered
  <2>11. Ascending'
    <3> SUFFICES ASSUME NEW i \in 1 .. N + 1, NEW j \in 1 .. N + 1, i < j,
                        calls'[i].start = calls'[j].start,
                        \A k \in i .. j - 1 : ~Turned(calls'[k])
                 PROVE  Rank[calls'[i].fn] < Rank[calls'[j].fn]
      BY <2>5 DEF Ascending
    <3>1. i \in 1 .. N
      BY <1>2
    <3>0. \A k \in 1 .. N : Turned(calls'[k]) <=> Turned(calls[k])
      <4>1. Turned(f) <=> Turned(top)
        BY <1>2 DEF f, Turned, Activation
      <4> QED BY <4>1, <1>2, <2>5, <2>7
    <3>2. CASE j \in 1 .. N
      <4>1. \A k \in i .. j - 1 : k \in 1 .. N
        BY <3>1, <3>2, <1>2
      <4>2. \A k \in i .. j - 1 : ~Turned(calls[k])
        BY <4>1, <3>0
      <4> QED BY <3>1, <3>2, <4>2, <2>7 DEF Inv, Ascending
    <3>3. CASE j = N + 1
      <4>1. calls[i].start = pos /\ calls'[j].fn = fn /\ N \in 1 .. N
        BY <3>1, <3>3, <2>2, <2>7, <1>2
      <4>2. calls[N].start = pos
        <5>1. i = N \/ i < N
          BY <3>1, <1>2
        <5>2. i < N => calls[i].start <= calls[N].start
          BY <3>1, <4>1, <1>2 DEF Inv, Ordered
        <5> QED BY <5>1, <5>2, <4>1, <2>7, <1>2
      <4>6. N \in i .. j - 1 /\ \A k \in i .. N - 1 : k \in i .. j - 1 /\ k \in 1 .. N
        BY <3>1, <3>3, <1>2
      <4>7. ~Turned(calls[N]) /\ \A k \in i .. N - 1 : ~Turned(calls[k])
        BY <4>1, <4>6, <3>0
      <4>3. Rank[calls[N].fn] < Rank[fn]
        BY <4>1, <4>2, <4>7, <3>1, <2>3, <1>2 DEF Descends
      <4>4. i < N => Rank[calls[i].fn] < Rank[calls[N].fn]
        BY <4>1, <4>2, <4>7, <3>1, <2>7, <1>2 DEF Inv, Ascending
      <4>5. calls[i].fn \in Functions /\ calls[N].fn \in Functions /\ (i < N \/ i = N)
        BY <3>1, <4>1, <2>7, <1>2
      <4> QED BY <4>1, <4>3, <4>4, <4>5, <3>1, <2>7, <1>2, RankType
    <3> QED BY <3>2, <3>3, <2>9
  <2>12. Pending'
    <3> SUFFICES ASSUME NEW i \in 1 .. N + 1,
                        \/ (calls'[i].todo # <<>> /\ (i < N + 1 \/ Len(calls'[i].todo) > 1))
                        \/ (calls'[i].fn \in {"callexpr", "toplevel"} /\ calls'[i].op = "(")
                 PROVE  calls'[i].start < Reach(i)'
      BY <2>5 DEF Pending
    <3>1. CASE i = N + 1
      BY <3>1, <1>2, <2>2, <2>7, Distinct DEF NONE, Activation
    <3>2. CASE i = N
      <4>1. Reach(i)' = pos /\ Reach(i) = pos
        <5>1. i + 1 = N + 1 /\ i # N + 1
          BY <3>2, <1>2
        <5> QED BY <5>1, <3>2, <2>2, <2>5, <2>6, <2>7 DEF Reach, N
      <4>2. calls'[i] = f
        BY <3>2, <2>5, <1>2
      <4>3. \/ Len(top.todo) > 1
            \/ (calls[i].fn \in {"callexpr", "toplevel"} /\ calls[i].op = "(")
        BY <4>2, <3>2, <2>1, <1>2 DEF Activation
      <4>4. calls[i].start < Reach(i)
        BY <4>3, <3>2, <1>2 DEF Inv, Pending
      <4> QED BY <4>1, <4>2, <4>4, <2>1, <1>2, <3>2
    <3>3. CASE i < N
      <4>1. i \in 1 .. N /\ i + 1 \in 1 .. N /\ i # N /\ i # N + 1
        BY <3>3, <1>2
      <4>2. calls'[i] = calls[i]
        BY <4>1, <2>5
      <4>3. Reach(i)' = calls[i + 1].start /\ Reach(i) = calls[i + 1].start
        BY <4>1, <2>5, <2>7 DEF Reach, N
      <4>4. calls[i].start < Reach(i)
        BY <4>1, <4>2, <3>3, <1>2 DEF Inv, Pending, N
      <4> QED BY <4>2, <4>3, <4>4
    <3> QED BY <3>1, <3>2, <3>3, <1>2
  <2>13. AtOnce'
    <3> SUFFICES ASSUME NEW i \in 1 .. N + 1, NEW m \in DOMAIN calls'[i].todo,
                        m > 1 \/ i < N + 1
                 PROVE  calls'[i].todo[m] \notin Operand \cup {"vardecl"}
      BY <2>5 DEF AtOnce
    <3>1. CASE i = N + 1
      BY <3>1, <1>2, <2>2, <2>7 DEF Activation
    <3>2. CASE i = N
      <4>1. calls'[i] = f
        BY <3>2, <2>5, <1>2
      <4>2. m + 1 \in DOMAIN top.todo /\ m + 1 > 1 /\ f.todo[m] = top.todo[m + 1]
        BY <4>1, <1>2, <2>1 DEF Activation
      <4> QED BY <4>1, <4>2, <1>2 DEF Inv, AtOnce
    <3>3. CASE i < N
      <4>1. i \in 1 .. N /\ i # N /\ i # N + 1
        BY <3>3, <1>2
      <4>2. calls'[i] = calls[i]
        BY <4>1, <2>5
      <4> QED BY <4>1, <4>2, <3>3, <1>2 DEF Inv, AtOnce, N
    <3> QED BY <3>1, <3>2, <3>3, <1>2
  <2>14. Informed'
    <3>1. \A i \in 1 .. N : Seen(calls[i].fn, calls[i].start)
      BY <1>2 DEF Inv, Informed
    <3>2. \A i \in 1 .. N + 1 : (Seen(calls[i].fn, calls[i].start))'
      BY <3>1, <2>2, <2>3, <2>6, <2>7, <2>9 DEF Seen, Token
    <3>3. \A i \in 1 .. N : ~(calls'[i].fn = "vardecl" /\ calls'[i].op = NONE)
      <4>1. \A i \in 1 .. N : calls[i].fn = "vardecl" /\ calls[i].op = NONE =>
              i = N /\ calls[i].todo = <<>>
        BY <1>2 DEF Inv, Informed, N
      <4> QED BY <4>1, <1>2, <2>7
    <3>4. g.fn = "vardecl" => g.start = pos /\ g.todo = <<>>
      BY <2>2
    <3> QED BY <3>2, <3>3, <3>4, <2>5, <2>6, <2>7, <2>9 DEF Informed
  <2>15. Upcoming'
    <3>1. top' = g
      BY <2>5, <2>7 DEF top
    <3> SUFFICES ASSUME g.todo # <<>>
                 PROVE  (Descends(top, Head(top.todo), pos) /\ Seen(Head(top.todo), pos))'
      BY <3>1 DEF Upcoming
    <3>2. Head(g.todo) = g.todo[1]
      OBVIOUS
    <3>3. (Descends(top, Head(top.todo), pos))'
      BY <3>1, <3>2, <2>2 DEF Descends
    <3>4. (Seen(Head(top.todo), pos))'
      BY <3>1, <3>2, <2>2, <2>3, <2>6 DEF Seen, Token
    <3> QED BY <3>3, <3>4
  <2> QED BY <2>8, <2>10, <2>11, <2>12, <2>13, <2>14, <2>15 DEF Inv
<1> QED BY <1>3, <1>4 DEF Invoke

-----------------------------------------------------------------------------
\* What a function leaves to be read after it has read something itself.
ToRead(todo) ==
  /\ todo \in Seq(Items)
  /\ \A m \in DOMAIN todo : todo[m] \notin Operand \cup {"vardecl"}

LEMMA ToReads ==
  /\ ToRead(<<>>) /\ ToRead(<<"prefix_op">>) /\ ToRead(<<"expression">>)
  /\ ToRead(<<"compound">>) /\ ToRead(<<"paramtype">>)
  /\ ToRead(<<"expression", "]">>) /\ ToRead(<<"expression", ")">>)
  /\ ToRead(<<"expression", SEMICOLON>>) /\ ToRead(<<"statements", RBRACE>>)
  /\ ToRead(<<LBRACE, "statements", RBRACE>>) /\ ToRead(<<"paramtype_list", ")">>)
  /\ ToRead(Header)
  /\ ToRead(<<"(", "statement", "statement", "statement", ")", "compound">>)
<1> DEFINE Fit == {x \in Items : x \notin Operand \cup {"vardecl"}}
<1>1. /\ "prefix_op" \in Fit /\ "expression" \in Fit /\ "compound" \in Fit
      /\ "paramtype" \in Fit /\ "statement" \in Fit /\ "statements" \in Fit
      /\ "paramtype_list" \in Fit
      /\ "(" \in Fit /\ ")" \in Fit /\ "]" \in Fit
  BY FunctionSet DEF Items, Operand
<1>2. SEMICOLON \in Fit /\ LBRACE \in Fit /\ RBRACE \in Fit
  BY Distinct DEF Items, Operand
<1>3. \A todo \in Seq(Fit) : ToRead(todo)
  BY DEF ToRead
<1> HIDE DEF Fit
<1>4. /\ <<>> \in Seq(Fit) /\ <<"prefix_op">> \in Seq(Fit) /\ <<"expression">> \in Seq(Fit)
      /\ <<"compound">> \in Seq(Fit) /\ <<"paramtype">> \in Seq(Fit)
  BY <1>1
<1>5. /\ <<"expression", "]">> \in Seq(Fit) /\ <<"expression", ")">> \in Seq(Fit)
      /\ <<"paramtype_list", ")">> \in Seq(Fit)
  BY <1>1
<1>6. /\ <<"expression", SEMICOLON>> \in Seq(Fit) /\ <<"statements", RBRACE>> \in Seq(Fit)
      /\ <<LBRACE, "statements", RBRACE>> \in Seq(Fit)
  BY <1>1, <1>2
<1>7. Header \in Seq(Fit)
  BY <1>1 DEF Header
<1>8. <<"(", "statement", "statement", "statement", ")", "compound">> \in Seq(Fit)
  BY <1>1
<1> QED BY <1>3, <1>4, <1>5, <1>6, <1>7, <1>8

\* Going on after tokens have been read, now or before.
LEMMA Reads ==
  ASSUME Inv, Parsing, NEW n \in Nat, pos + n <= Len(tokens), n # 0 \/ top.start < pos,
         NEW op, NEW kids, NEW todo, ToRead(todo), Then(n, op, kids, todo),
         top.fn = "vardecl" => op # NONE
  PROVE  Inv'
<1> DEFINE f == [top EXCEPT !.op = op, !.kids = kids, !.todo = todo]
<1>1. Shape /\ calls # <<>> /\ Activation(top) /\ Len(calls) \in DOMAIN calls
      /\ top = calls[Len(calls)] /\ pos \in Nat
  BY Stack DEF Inv, Shape, Parsing
<1>2. /\ Activation(f) /\ f.fn = top.fn /\ f.start = top.start /\ f.op = op /\ f.todo = todo
  BY <1>1 DEF Activation, ToRead
<1>3. Go(n, f)
  BY DEF Then
<1> HIDE DEF f
<1>4. top.start < pos + n /\ top.start \in Nat /\ pos + n \in Nat
  BY <1>1 DEF Inv, Ordered, Activation
<1>5. f.todo # <<>> => Descends(f, Head(f.todo), pos + n) /\ Seen(Head(f.todo), pos + n)
  <2> SUFFICES ASSUME f.todo # <<>>
               PROVE  Descends(f, Head(f.todo), pos + n) /\ Seen(Head(f.todo), pos + n)
    OBVIOUS
  <2>1. 1 \in DOMAIN todo /\ Head(f.todo) = todo[1]
    BY <1>2 DEF ToRead
  <2>2. Descends(f, Head(f.todo), pos + n)
    BY <1>2, <1>4 DEF Descends
  <2>3. Seen(Head(f.todo), pos + n)
    BY <2>1 DEF Seen, ToRead
  <2> QED BY <2>2, <2>3
<1>6. \A m \in DOMAIN f.todo : f.todo[m] \notin Operand \cup {"vardecl"}
  BY <1>2 DEF ToRead
<1> QED BY <1>2, <1>3, <1>4, <1>5, <1>6, Goes

\* Calling fn at once, without having read anything.
LEMMA CallsOn ==
  ASSUME Inv, Parsing, NEW op, op # "(", NEW kids, NEW fn \in Functions,
         Then(0, op, kids, <<fn>>), Seen(fn, pos), top.fn # "vardecl",
         \/ Rank[top.fn] < Rank[fn]
         \/ top.fn = "factor" /\ op = NONE /\ kids = <<>> /\ (top.start = pos => Stuck(pos))
  PROVE  Inv'
<1> DEFINE f == [top EXCEPT !.op = op, !.kids = kids, !.todo = <<fn>>]
<1>1. Shape /\ calls # <<>> /\ Activation(top) /\ pos \in Nat /\ pos + 0 = pos
  BY Stack DEF Inv, Shape, Parsing
<1>2. <<fn>> \in Seq(Items)
  BY DEF Items
<1>3. /\ Activation(f) /\ f.fn = top.fn /\ f.start = top.start /\ f.op = op
      /\ f.kids = kids /\ f.todo = <<fn>>
  BY <1>1, <1>2 DEF Activation
<1>4. Go(0, f)
  BY DEF Then
<1> HIDE DEF f
<1>5. Descends(f, fn, pos + 0) /\ Seen(fn, pos + 0) /\ pos + 0 <= Len(tokens)
  BY <1>1, <1>3 DEF Descends, Turned, Shape
<1>6. /\ ~(Len(f.todo) > 1) /\ Head(f.todo) = fn
      /\ \A m \in DOMAIN f.todo : ~(m > 1)
  BY <1>3
<1>7. f.op # "(" /\ f.fn # "vardecl"
  BY <1>3
<1> QED BY <1>1, <1>3, <1>4, <1>5, <1>6, <1>7, Goes

\* At a decision: the function at work is fn and has read nothing more than its
\* callees have.
LEMMA Decides ==
  ASSUME Inv, Parsing
  PROVE  /\ Shape /\ pos \in Nat /\ pos <= Len(tokens) /\ Len(tokens) \in Nat
         /\ Activation(top) /\ top.start \in Nat /\ top.start <= pos
         /\ Seen(top.fn, top.start)
         /\ top.fn \in {"callexpr", "toplevel"} /\ top.op = "(" => top.start < pos
         /\ top.fn = "vardecl" /\ top.op = NONE => top.start = pos
         /\ get_token = Token(pos)
         /\ \A n \in {1, 2, 3} : Peek(n) # EOT => pos + n <= Len(tokens)
         /\ get_token # EOT => pos + 1 <= Len(tokens)
<1>1. Shape /\ calls # <<>>
  BY DEF Inv, Shape, Parsing
<1>2. /\ pos \in Nat /\ pos <= Len(tokens) /\ Len(tokens) \in Nat
      /\ Activation(top) /\ Len(calls) \in DOMAIN calls /\ top = calls[Len(calls)]
  BY <1>1, Stack, LenTokens DEF Shape
<1>3. top.start \in Nat /\ top.start <= pos /\ Seen(top.fn, top.start)
  BY <1>2 DEF Inv, Ordered, Informed, Activation
<1>4. top.fn \in {"callexpr", "toplevel"} /\ top.op = "(" => top.start < pos
  BY <1>2 DEF Inv, Pending, Reach
<1>5. top.fn = "vardecl" /\ top.op = NONE => top.start = pos
  BY <1>2 DEF Inv, Informed
<1>6. get_token = Token(pos)
  BY DEF get_token, Peek, Token
<1>7. \A n \in {1, 2, 3} : Peek(n) # EOT => pos + n <= Len(tokens)
  BY <1>1, Peeks
<1> QED BY <1>1, <1>2, <1>3, <1>4, <1>5, <1>6, <1>7 DEF get_token

LEMMA NoEOT ==
  /\ EOT \notin Types /\ EOT \notin TypeStarts /\ EOT \notin Literals /\ EOT \notin Idents
  /\ EOT \notin Numbers /\ EOT \notin Prefixes
  /\ EOT \notin {"sizeof", "return", "if", "else", "while", "for", "break", "continue",
                 "extern", "=", ".", "->", "++", "*"}
<1>1. EOT \notin Prefixes
  BY DEF EOT, Prefixes, PrefixKind
<1>2. EOT \notin {"sizeof", "return", "if", "else", "while", "for", "break", "continue",
                  "extern", "=", ".", "->", "++", "*"}
  BY DEF EOT
<1> QED BY <1>1, <1>2, TokensAssumption DEF Idents, TypeStarts

LEMMA InfixLevelStep ==
  ASSUME Inv, InfixLevel
  PROVE  Inv'
<1>1. Parsing /\ top.fn \in DOMAIN Infix /\ top.todo = <<>>
  BY DEF InfixLevel, In
<1>2. CASE Return(0, LeftOperand)
  BY <1>1, <1>2, Decides, Returns
<1>3. CASE get_token \in Infix[top.fn].ops
           /\ Then(1, get_token, <<LeftOperand>>, <<Infix[top.fn].next>>)
  <2>1. pos + 1 <= Len(tokens)
    BY <1>1, <1>3, Levels, Decides
  <2> DEFINE todo == <<Infix[top.fn].next>>
  <2>2. ToRead(todo)
    BY <1>1, Levels DEF ToRead
  <2>3. top.fn # "vardecl"
    BY <1>1, Levels
  <2> HIDE DEF todo
  <2>4. Then(1, get_token, <<LeftOperand>>, todo)
    BY <1>3 DEF todo
  <2> QED BY <1>1, <2>1, <2>2, <2>3, <2>4, Reads
<1> QED BY <1>2, <1>3 DEF InfixLevel

LEMMA prefix_opStep ==
  ASSUME Inv, prefix_op
  PROVE  Inv'
<1>1. Parsing /\ top.fn = "prefix_op" /\ top.op = NONE
  BY DEF prefix_op, In
<1>2. CASE get_token \in Prefixes /\ Then(1, get_token, <<>>, <<"prefix_op">>)
  <2>1. pos + 1 <= Len(tokens)
    BY <1>1, <1>2, Decides, NoEOT
  <2> QED BY <1>1, <1>2, <2>1, ToReads, Reads
<1>3. CASE get_token \notin Prefixes /\ Then(0, NONE, <<>>, <<"postfix_op">>)
  <2>1. Seen("postfix_op", pos)
    BY <1>1, <1>3, Decides DEF Seen
  <2>2. Rank[top.fn] < Rank["postfix_op"] /\ "postfix_op" \in Functions
    BY <1>1, Ranks, FunctionSet
  <2>3. NONE # "("
    BY DEF NONE
  <2> QED BY <1>1, <1>3, <2>1, <2>2, <2>3, CallsOn
<1>4. ASSUME NEW n \in {1, 2}, get_token = "sizeof", n = 2 => Peek(2) = "(",
             \/ /\ Peek(n + 1) \in TypeStarts
                /\ Then(n + 1, "pointer", <<BaseType(Peek(n + 1))>>, <<>>)
             \/ Then(n, "SIZEOF_EXPR", <<>>, <<"expression">>)
      PROVE  Inv'
  <2>1. pos + n <= Len(tokens) /\ n \in Nat /\ n + 1 \in {1, 2, 3} /\ n + 1 \in Nat
        /\ n # 0 /\ n + 1 # 0
    BY <1>1, <1>4, Decides, NoEOT, Distinct
  <2>2. CASE Peek(n + 1) \in TypeStarts /\ Then(n + 1, "pointer", <<BaseType(Peek(n + 1))>>, <<>>)
    <3>1. pos + (n + 1) <= Len(tokens)
      BY <1>1, <2>1, <2>2, Decides, NoEOT
    <3> QED BY <1>1, <2>1, <2>2, <3>1, ToReads, Reads
  <2>3. CASE Then(n, "SIZEOF_EXPR", <<>>, <<"expression">>)
    BY <1>1, <2>1, <2>3, ToReads, Reads
  <2> QED BY <1>4, <2>2, <2>3
<1> QED BY <1>2, <1>3, <1>4 DEF prefix_op

LEMMA Optional ==
  ASSUME Inv, Parsing
  PROVE  /\ Closing \in Nat /\ pos + Closing <= Len(tokens)
         /\ Semicolon \in Nat /\ pos + Semicolon <= Len(tokens)
<1>1. /\ pos \in Nat /\ pos <= Len(tokens) /\ Len(tokens) \in Nat
      /\ get_token # EOT => pos + 1 <= Len(tokens)
  BY Decides
<1>2. ")" # EOT /\ SEMICOLON # EOT
  BY Distinct
<1> QED BY <1>1, <1>2 DEF Closing, Semicolon

LEMMA PrefixDoneStep ==
  ASSUME Inv, PrefixDone
  PROVE  Inv'
<1>1. Parsing
  BY DEF PrefixDone, In
<1>2. PICK n, t : n \in {0, Closing} /\ Return(n, t)
  BY DEF PrefixDone
<1> QED BY <1>1, <1>2, Decides, Optional, Returns

LEMMA callexprStep ==
  ASSUME Inv, callexpr
  PROVE  Inv'
<1>1. Parsing /\ top.fn = "callexpr" /\ top.todo = <<>>
  BY DEF callexpr, In
<1>2. CASE get_token = "(" /\ Go(1, [top EXCEPT !.op = "("])
  <2> DEFINE f == [top EXCEPT !.op = "("]
  <2>1. Activation(f) /\ f.fn = top.fn /\ f.start = top.start /\ f.todo = <<>>
    BY <1>1, Decides DEF Activation
  <2>2. Go(1, f)
    BY <1>2
  <2> HIDE DEF f
  <2>3. pos + 1 <= Len(tokens) /\ f.start < pos + 1
    BY <1>1, <1>2, <2>1, Decides, Distinct
  <2> QED BY <1>1, <2>1, <2>2, <2>3, Goes
<1>3. CASE Return(0, top.kids[1])
  BY <1>1, <1>3, Decides, Returns
<1>4. CASE End("null") \/ End("error")
  BY <1>1, <1>4, Ends DEF Phases
<1>5. CASE get_token = ")" /\ Return(1, <<"CALL">> \o top.kids)
  BY <1>1, <1>5, Decides, Distinct, Returns
<1>6. CASE top.op = "(" /\ Then(0, COMMA, top.kids, <<"expression">>)
  <2>1. top.start < pos /\ pos + 0 <= Len(tokens)
    BY <1>1, <1>6, Decides
  <2> QED BY <1>1, <1>6, <2>1, ToReads, Reads
<1>7. CASE get_token = COMMA /\ Then(1, COMMA, top.kids, <<"expression">>)
  <2>1. pos + 1 <= Len(tokens)
    BY <1>1, <1>7, Decides, Distinct
  <2> QED BY <1>1, <1>7, <2>1, ToReads, Reads
<1> QED BY <1>2, <1>3, <1>4, <1>5, <1>6, <1>7, Distinct DEF callexpr

LEMMA FieldStep ==
  ASSUME Inv, Parsing, top.fn = "postfix_op", NEW t, Field(t)
  PROVE  Inv'
<1>1. CASE End("error")
  BY <1>1, Ends DEF Phases
<1>2. CASE Peek(2) \in Idents /\ Then(2, NONE, <<<<"DOT", t, <<Peek(2)>>>>>>, <<>>)
  <2>1. pos + 2 <= Len(tokens)
    BY <1>2, Decides, NoEOT
  <2> QED BY <1>2, <2>1, ToReads, Reads
<1> QED BY <1>1, <1>2 DEF Field

LEMMA postfix_opStep ==
  ASSUME Inv, postfix_op
  PROVE  Inv'
<1>1. Parsing /\ top.fn = "postfix_op"
  BY DEF postfix_op, In
<1>2. CASE get_token = "[" /\ Then(1, "[", <<Primary>>, <<"expression", "]">>)
  <2>1. pos + 1 <= Len(tokens)
    BY <1>1, <1>2, Decides, Distinct
  <2> QED BY <1>1, <1>2, <2>1, ToReads, Reads
<1>3. CASE get_token = "++" /\ Then(1, NONE, <<<<"POSTINC", Primary>>>>, <<>>)
  <2>1. pos + 1 <= Len(tokens)
    BY <1>1, <1>3, Decides, NoEOT
  <2> QED BY <1>1, <1>3, <2>1, ToReads, Reads
<1>4. CASE \E t : Field(t)
  BY <1>1, <1>4, FieldStep
<1>5. CASE Return(0, Primary)
  BY <1>1, <1>5, Decides, Returns
<1> QED BY <1>2, <1>3, <1>4, <1>5 DEF postfix_op

LEMMA factorStep ==
  ASSUME Inv, factor
  PROVE  Inv'
<1>1. Parsing /\ top.fn = "factor"
  BY DEF factor, In
<1>2. CASE \E t : Return(0, t)
  BY <1>1, <1>2, Decides, Returns
<1>3. CASE End("error")
  BY <1>1, <1>3, Ends DEF Phases
<1>4. CASE get_token = "(" /\ Then(1, "(", <<>>, <<"expression", ")">>)
  <2>1. pos + 1 <= Len(tokens)
    BY <1>1, <1>4, Decides, Distinct
  <2> QED BY <1>1, <1>4, <2>1, ToReads, Reads
<1>5. CASE get_token \in Literals \cup Idents /\ Return(1, Leaf(get_token))
  BY <1>1, <1>5, Decides, NoEOT, Returns
<1>6. CASE /\ get_token \notin Literals \cup Idents \cup {EOT, "("}
           /\ Then(0, NONE, <<>>, <<"expression">>)
  <2>1. top.start = pos => Stuck(pos)
    <3>1. top.start = pos => Token(pos) \notin Prefixes
      BY <1>1, Decides DEF Seen, Operand
    <3>2. pos < Len(tokens) /\ Token(pos) = tokens[pos + 1] /\ get_token = Token(pos)
      BY <1>1, <1>6, Decides DEF Token
    <3> QED BY <3>1, <3>2, <1>6 DEF Stuck, Beginnings
  <2>2. Seen("expression", pos)
    BY DEF Seen, Operand
  <2>3. NONE # "(" /\ "expression" \in Functions
    BY FunctionSet DEF NONE
  <2> QED BY <1>1, <1>6, <2>1, <2>2, <2>3, CallsOn
<1> QED BY <1>2, <1>3, <1>4, <1>5, <1>6 DEF factor

LEMMA statementStep ==
  ASSUME Inv, statement
  PROVE  Inv'
<1>1. Parsing /\ top.fn = "statement"
  BY DEF statement, In
<1>2. CASE get_token = "return" /\ Peek(2) = SEMICOLON /\ Return(2, <<"RETURN">>)
  <2>1. pos + 2 <= Len(tokens)
    BY <1>1, <1>2, Decides, Distinct
  <2> QED BY <1>1, <1>2, <2>1, Returns
<1>3. CASE /\ get_token \in {"return", "if", "while", "for"}
           /\ \E op, kids : \E todo \in {<<"expression", SEMICOLON>>, Header,
                <<"(", "statement", "statement", "statement", ")", "compound">>} :
                Then(1, op, kids, todo)
  <2>1. pos + 1 <= Len(tokens)
    BY <1>1, <1>3, Decides, NoEOT
  <2>2. PICK op, kids, todo : ToRead(todo) /\ Then(1, op, kids, todo)
    BY <1>3, ToReads
  <2> QED BY <1>1, <2>1, <2>2, Reads
<1>4. CASE get_token \in {"break", "continue"} /\ \E t : Return(1, t)
  <2>1. pos + 1 <= Len(tokens)
    BY <1>1, <1>4, Decides, NoEOT
  <2> QED BY <1>1, <1>4, <2>1, Returns
<1>5. CASE /\ get_token \in Types
           /\ Then(0, SEMICOLON, <<>>, <<"vardecl">>)
  <2>1. Rank[top.fn] < Rank["vardecl"] /\ "vardecl" \in Functions
    BY <1>1, Ranks, FunctionSet
  <2>2. Seen("vardecl", pos)
    BY <1>1, <1>5, Decides DEF Seen, Operand
  <2> QED BY <1>1, <1>5, <2>1, <2>2, Distinct, CallsOn
<1>6. CASE Then(0, SEMICOLON, <<>>, <<"expression">>)
  <2>1. Rank[top.fn] < Rank["expression"] /\ "expression" \in Functions
    BY <1>1, Ranks, FunctionSet
  <2>2. Seen("expression", pos)
    BY DEF Seen, Operand
  <2> QED BY <1>1, <1>6, <2>1, <2>2, Distinct, CallsOn
<1> QED BY <1>2, <1>3, <1>4, <1>5, <1>6 DEF statement

LEMMA StatementDoneStep ==
  ASSUME Inv, StatementDone
  PROVE  Inv'
<1>1. Parsing
  BY DEF StatementDone, In
<1>2. PICK n, t : n \in {0, Semicolon} /\ Return(n, t)
  BY DEF StatementDone
<1> QED BY <1>1, <1>2, Decides, Optional, Returns

LEMMA parse_ifStep ==
  ASSUME Inv, parse_if
  PROVE  Inv'
<1>1. Parsing /\ top.fn = "statement"
  BY DEF parse_if, In
<1>2. CASE \E t : Return(0, t)
  BY <1>1, <1>2, Decides, Returns
<1>3. CASE Peek(2) = "if" /\ Then(2, "if", Branches, Header)
  <2>1. pos + 2 <= Len(tokens)
    BY <1>1, <1>3, Decides, NoEOT
  <2> QED BY <1>1, <1>3, <2>1, ToReads, Reads
<1>4. CASE get_token = "else" /\ Then(1, "else", Branches, <<"compound">>)
  <2>1. pos + 1 <= Len(tokens)
    BY <1>1, <1>4, Decides, NoEOT
  <2> QED BY <1>1, <1>4, <2>1, ToReads, Reads
<1> QED BY <1>2, <1>3, <1>4 DEF parse_if

LEMMA compoundStep ==
  ASSUME Inv, compound
  PROVE  Inv'
<1>1. Parsing /\ top.fn = "compound"
  BY DEF compound, In
<1>2. CASE \E t : Return(0, t)
  BY <1>1, <1>2, Decides, Returns
<1>3. CASE get_token = LBRACE /\ Then(1, LBRACE, <<>>, <<"statements", RBRACE>>)
  <2>1. pos + 1 <= Len(tokens)
    BY <1>1, <1>3, Decides, Distinct
  <2> QED BY <1>1, <1>3, <2>1, ToReads, Reads
<1>4. CASE Then(0, NONE, <<>>, <<"statement">>)
  <2>1. Rank[top.fn] < Rank["statement"] /\ "statement" \in Functions
    BY <1>1, Ranks, FunctionSet
  <2>2. Seen("statement", pos) /\ NONE # "("
    BY DEF Seen, Operand, NONE
  <2> QED BY <1>1, <1>4, <2>1, <2>2, CallsOn
<1> QED BY <1>2, <1>3, <1>4 DEF compound

LEMMA statementsStep ==
  ASSUME Inv, statements
  PROVE  Inv'
<1>1. Parsing /\ top.fn = "statements" /\ top.todo = <<>>
  BY DEF statements, In
<1>2. CASE \E t : Return(0, t)
  BY <1>1, <1>2, Decides, Returns
<1>3. CASE get_token = SEMICOLON /\ Go(1, top)
  <2>1. pos + 1 <= Len(tokens) /\ Activation(top)
    BY <1>1, <1>3, Decides, Distinct
  <2> QED BY <1>1, <1>3, <2>1, Goes
<1>4. CASE Then(0, NONE, top.kids, <<"statement">>)
  <2>1. Rank[top.fn] < Rank["statement"] /\ "statement" \in Functions
    BY <1>1, Ranks, FunctionSet
  <2>2. Seen("statement", pos) /\ NONE # "("
    BY DEF Seen, Operand, NONE
  <2> QED BY <1>1, <1>4, <2>1, <2>2, CallsOn
<1> QED BY <1>2, <1>3, <1>4 DEF statements

LEMMA DeclaratorStep ==
  ASSUME Inv, Pointer \/ ArrayDecl
  PROVE  Inv'
<1>1. Parsing
  BY DEF Pointer, ArrayDecl
<1>2. CASE End("error")
  BY <1>1, <1>2, Ends DEF Phases
<1>3. CASE get_token = "*" /\ \E kids : Then(1, "pointer", kids, <<>>)
  <2>1. pos + 1 <= Len(tokens)
    BY <1>1, <1>3, Decides, NoEOT
  <2>2. "pointer" # NONE
    BY DEF NONE
  <2> QED BY <1>1, <1>3, <2>1, <2>2, ToReads, Reads
<1>4. CASE Peek(3) = "]" /\ \E kids : Then(3, "array", kids, <<>>)
  <2>1. pos + 3 <= Len(tokens)
    BY <1>1, <1>4, Decides, Distinct
  <2>2. "array" # NONE
    BY DEF NONE
  <2> QED BY <1>1, <1>4, <2>1, <2>2, ToReads, Reads
<1> QED BY <1>2, <1>3, <1>4 DEF Pointer, ArrayDecl

LEMMA vardeclStep ==
  ASSUME Inv, vardecl
  PROVE  Inv'
<1>1. Parsing /\ top.fn = "vardecl"
  BY DEF vardecl, In
<1>2. CASE End("error")
  BY <1>1, <1>2, Ends DEF Phases
<1>3. CASE top.op = NONE /\ \E kids : Then(1, "pointer", kids, <<>>)
  <2>1. pos + 1 <= Len(tokens)
    BY <1>1, <1>3, Decides, NoEOT DEF Seen
  <2>2. "pointer" # NONE
    BY DEF NONE
  <2> QED BY <1>1, <1>3, <2>1, <2>2, ToReads, Reads
<1>4. CASE get_token \in Idents /\ \E kids : Then(1, "array", kids, <<>>)
  <2>1. pos + 1 <= Len(tokens)
    BY <1>1, <1>4, Decides, NoEOT
  <2>2. "array" # NONE
    BY DEF NONE
  <2> QED BY <1>1, <1>4, <2>1, <2>2, ToReads, Reads
<1> QED BY <1>2, <1>3, <1>4 DEF vardecl

LEMMA DeclaredStep ==
  ASSUME Inv, Declared
  PROVE  Inv'
<1>1. Parsing /\ top.fn = "vardecl"
  BY DEF Declared, In
<1>2. CASE \E t : Return(0, t)
  BY <1>1, <1>2, Decides, Returns
<1>3. CASE get_token = COMMA /\ \E kids : Then(1, "pointer", kids, <<>>)
  <2>1. pos + 1 <= Len(tokens)
    BY <1>1, <1>3, Decides, Distinct
  <2>2. "pointer" # NONE
    BY DEF NONE
  <2> QED BY <1>1, <1>3, <2>1, <2>2, ToReads, Reads
<1>4. CASE get_token = "=" /\ Then(1, "init", top.kids, <<"expression">>)
  <2>1. pos + 1 <= Len(tokens)
    BY <1>1, <1>4, Decides, NoEOT
  <2>2. "init" # NONE
    BY DEF NONE
  <2> QED BY <1>1, <1>4, <2>1, <2>2, ToReads, Reads
<1> QED BY <1>2, <1>3, <1>4 DEF Declared

LEMMA InitialiserStep ==
  ASSUME Inv, Initialiser
  PROVE  Inv'
<1>1. Parsing /\ top.fn = "vardecl"
  BY DEF Initialiser, In
<1>2. CASE \E t : Return(0, t)
  BY <1>1, <1>2, Decides, Returns
<1>3. CASE get_token = COMMA /\ Then(1, "init", top.kids, <<"expression">>)
  <2>1. pos + 1 <= Len(tokens)
    BY <1>1, <1>3, Decides, Distinct
  <2>2. "init" # NONE
    BY DEF NONE
  <2> QED BY <1>1, <1>3, <2>1, <2>2, ToReads, Reads
<1>4. CASE get_token = COMMA /\ \E t : Return(1, t)
  <2>1. pos + 1 <= Len(tokens)
    BY <1>1, <1>4, Decides, Distinct
  <2> QED BY <1>1, <1>4, <2>1, Returns
<1> QED BY <1>2, <1>3, <1>4 DEF Initialiser

LEMMA paramtypeStep ==
  ASSUME Inv, paramtype
  PROVE  Inv'
<1>1. Parsing /\ top.fn = "paramtype"
  BY DEF paramtype, In
<1>2. CASE \E t : Return(0, t)
  BY <1>1, <1>2, Decides, Returns
<1>3. CASE get_token \in TypeStarts \cup Idents /\ \E op, kids : Then(1, op, kids, <<>>)
  <2>1. pos + 1 <= Len(tokens)
    BY <1>1, <1>3, Decides, NoEOT
  <2> QED BY <1>1, <1>3, <2>1, ToReads, Reads
<1> QED BY <1>2, <1>3 DEF paramtype

LEMMA paramtype_listStep ==
  ASSUME Inv, paramtype_list
  PROVE  Inv'
<1>1. Parsing /\ top.fn = "paramtype_list"
  BY DEF paramtype_list, In
<1>2. CASE \E t : Return(0, t)
  BY <1>1, <1>2, Decides, Returns
<1>3. CASE End("error")
  BY <1>1, <1>3, Ends DEF Phases
<1>4. CASE Then(0, "param", top.kids, <<"paramtype">>)
  <2>1. Rank[top.fn] < Rank["paramtype"] /\ "paramtype" \in Functions
    BY <1>1, Ranks, FunctionSet
  <2>2. Seen("paramtype", pos) /\ "param" # "("
    BY DEF Seen, Operand
  <2> QED BY <1>1, <1>4, <2>1, <2>2, CallsOn
<1>5. CASE get_token = COMMA /\ Then(1, NONE, top.kids, <<>>)
  <2>1. pos + 1 <= Len(tokens)
    BY <1>1, <1>5, Decides, Distinct
  <2> QED BY <1>1, <1>5, <2>1, ToReads, Reads
<1> QED BY <1>2, <1>3, <1>4, <1>5 DEF paramtype_list

LEMMA toplevelStep ==
  ASSUME Inv, toplevel
  PROVE  Inv'
<1>1. Parsing /\ top.fn = "toplevel"
  BY DEF toplevel, In
<1>2. CASE get_token = "extern" /\ Then(1, "EXTERN", <<>>, <<"paramtype">>)
  <2>1. pos + 1 <= Len(tokens)
    BY <1>1, <1>2, Decides, NoEOT
  <2> QED BY <1>1, <1>2, <2>1, ToReads, Reads
<1>3. CASE Then(0, NONE, <<>>, <<"paramtype">>)
  <2>1. Rank[top.fn] < Rank["paramtype"] /\ "paramtype" \in Functions
    BY <1>1, Ranks, FunctionSet
  <2>2. Seen("paramtype", pos) /\ NONE # "("
    BY DEF Seen, Operand, NONE
  <2> QED BY <1>1, <1>3, <2>1, <2>2, CallsOn
<1> QED BY <1>2, <1>3 DEF toplevel

LEMMA DeclarationStep ==
  ASSUME Inv, Declaration
  PROVE  Inv'
<1>1. Parsing /\ top.fn = "toplevel"
  BY DEF Declaration, In
<1>2. CASE End("null")
  BY <1>1, <1>2, Ends DEF Phases
<1>3. CASE \E t : Return(Semicolon, t)
  BY <1>1, <1>3, Optional, Returns
<1>4. CASE get_token = "(" /\ Then(1, "(", top.kids, <<"paramtype_list", ")">>)
  <2>1. pos + 1 <= Len(tokens)
    BY <1>1, <1>4, Decides, Distinct
  <2> QED BY <1>1, <1>4, <2>1, ToReads, Reads
<1>5. CASE get_token = "=" /\ Then(1, "GLOBALVAR", top.kids, <<"expression">>)
  <2>1. pos + 1 <= Len(tokens)
    BY <1>1, <1>5, Decides, NoEOT
  <2> QED BY <1>1, <1>5, <2>1, ToReads, Reads
<1> QED BY <1>2, <1>3, <1>4, <1>5 DEF Declaration

LEMMA BodyStep ==
  ASSUME Inv, Body
  PROVE  Inv'
<1>1. Parsing /\ top.fn = "toplevel" /\ top.op = "("
  BY DEF Body, In
<1>2. CASE get_token = SEMICOLON /\ \E t : Return(1, t)
  <2>1. pos + 1 <= Len(tokens)
    BY <1>1, <1>2, Decides, Distinct
  <2> QED BY <1>1, <1>2, <2>1, Returns
<1>3. CASE Then(0, "FUNCDECL", top.kids, <<LBRACE, "statements", RBRACE>>)
  <2>1. top.start < pos /\ pos + 0 <= Len(tokens)
    BY <1>1, Decides
  <2> QED BY <1>1, <1>3, <2>1, ToReads, Reads
<1> QED BY <1>2, <1>3 DEF Body

LEMMA ToplevelDoneStep ==
  ASSUME Inv, ToplevelDone
  PROVE  Inv'
<1>1. Parsing /\ \E t : Return(Semicolon, t)
  BY DEF ToplevelDone, In
<1> QED BY <1>1, Optional, Returns

LEMMA mainStep ==
  ASSUME Inv, main
  PROVE  Inv'
<1>1. Parsing /\ top.fn = "main"
  BY DEF main, In
<1>2. CASE \E t : Return(0, t)
  BY <1>1, <1>2, Decides, Returns
<1>3. CASE Then(0, NONE, top.kids, <<"toplevel">>)
  <2>1. Rank[top.fn] < Rank["toplevel"] /\ "toplevel" \in Functions
    BY <1>1, Ranks, FunctionSet
  <2>2. Seen("toplevel", pos) /\ NONE # "("
    BY DEF Seen, Operand, NONE
  <2> QED BY <1>1, <1>3, <2>1, <2>2, CallsOn
<1> QED BY <1>2, <1>3 DEF main

-----------------------------------------------------------------------------
LEMMA Initially ==
  ASSUME Init
  PROVE  Inv
<1> DEFINE fn == Entry(tokens)
           f == Call(fn)
<1>1. /\ tokens \in Texts /\ fn \in {"expression", "main"} /\ pos = 0
      /\ Len(tokens) \in Nat /\ phase \in Phases
  BY TextsAssumption DEF Init, Phases
<1>2. fn \in Functions /\ fn \notin Operand \cup {"vardecl", "callexpr", "toplevel"}
  BY <1>1, FunctionSet DEF Operand
<1>3. /\ Activation(f) /\ f.fn = fn /\ f.start = pos /\ f.op = NONE
      /\ Len(f.todo) <= 1
      /\ f.todo # <<>> => /\ f.todo = <<f.todo[1]>>
                          /\ f.todo[1] \in Functions /\ Rank[fn] < Rank[f.todo[1]]
                          /\ f.todo[1] # "vardecl"
                          /\ f.todo[1] \in Operand => fn \in Operand
  BY <1>1, <1>2, Calls
<1>4. calls = <<f>>
  BY DEF Init
<1> HIDE DEF f, fn
<1>5. /\ calls \in Seq({f}) /\ Len(calls) = 1 /\ DOMAIN calls = {1} /\ calls[1] = f
      /\ calls # <<>>
  BY <1>4
<1>6. Shape
  <2>1. calls \in Seq({calls[i] : i \in DOMAIN calls})
    BY <1>5, OfItsElements
  <2> QED BY <1>1, <1>3, <1>5, <2>1, DepthAssumption DEF Shape
<1>7. Ordered /\ Ascending
  BY <1>1, <1>3, <1>5 DEF Ordered, Ascending, Activation
<1>8. Pending
  BY <1>2, <1>3, <1>5, Distinct DEF Pending, Activation
<1>9. AtOnce
  <2>1. \A m \in DOMAIN f.todo : m = 1
    BY <1>3 DEF Activation
  <2> QED BY <1>5, <2>1 DEF AtOnce
<1>10. Informed
  BY <1>2, <1>3, <1>5 DEF Informed, Seen
<1>11. Upcoming
  <2>1. top = f
    BY <1>5 DEF top
  <2>2. f.todo # <<>> => Head(f.todo) = f.todo[1]
    OBVIOUS
  <2>3. f.todo # <<>> => Descends(f, Head(f.todo), pos) /\ Seen(Head(f.todo), pos)
    BY <1>2, <1>3, <2>2 DEF Descends, Seen
  <2> QED BY <2>1, <2>3 DEF Upcoming
<1> QED BY <1>6, <1>7, <1>8, <1>9, <1>10, <1>11 DEF Inv

LEMMA Invariance ==
  Inv /\ [Next]_vars => Inv'
<1> SUFFICES ASSUME Inv, [Next]_vars
             PROVE  Inv'
  OBVIOUS
<1>1. CASE Expect \/ Invoke
  BY <1>1, ExpectStep, InvokeStep
<1>2. CASE InfixLevel \/ prefix_op \/ PrefixDone \/ callexpr \/ postfix_op \/ factor
  BY <1>2, InfixLevelStep, prefix_opStep, PrefixDoneStep, callexprStep, postfix_opStep,
     factorStep
<1>3. CASE statement \/ StatementDone \/ parse_if \/ compound \/ statements
  BY <1>3, statementStep, StatementDoneStep, parse_ifStep, compoundStep, statementsStep
<1>4. CASE Pointer \/ ArrayDecl \/ vardecl \/ Declared \/ Initialiser
  BY <1>4, DeclaratorStep, vardeclStep, DeclaredStep, InitialiserStep
<1>5. CASE paramtype \/ paramtype_list \/ toplevel \/ Declaration \/ Body \/ ToplevelDone \/ main
  BY <1>5, paramtypeStep, paramtype_listStep, toplevelStep, DeclarationStep, BodyStep,
     ToplevelDoneStep, mainStep
<1>6. CASE UNCHANGED vars
  <2>1. Shape'
    BY <1>6 DEF vars, Inv, Shape, Activation
  <2>2. (Ordered /\ Ascending /\ Pending /\ AtOnce /\ Informed /\ Upcoming)'
    BY <1>6 DEF vars, Inv, Ordered, Ascending, Pending, AtOnce, Informed, Upcoming, Reach,
                Stuck, Seen, Token, Descends, Turned, top
  <2> QED BY <2>1, <2>2 DEF Inv
<1> QED BY <1>1, <1>2, <1>3, <1>4, <1>5, <1>6 DEF Next

\* The parser (parser.c) never reads past the last token, and its activations are
\* within the room there is.
THEOREM TypeCorrect == Spec => []TypeOK
<1>1. Init => Inv
  BY Initially
<1>2. Inv /\ [Next]_vars => Inv'
  BY Invariance
<1>3. Inv => TypeOK
  BY DEF Inv, Shape, Ordered, TypeOK, Activation
<1> QED BY <1>1, <1>2, <1>3, PTL DEF Spec

-----------------------------------------------------------------------------
\* What the parser has begun to read it gets to the end of.  A function that has
\* got an operand, a name or a keyword has read a token; the few functions that
\* may return without one are called where the caller does not wait for one.
Operators == DOMAIN Infix \cup {"callexpr", "postfix_op"}

\* These may return without having read a token.
Optionals == {"main", "paramtype", "paramtype_list", "compound", "statements"}

\* The function has read a token, itself or by what it has called.
Fed(fn, op, kids) ==
  \/ fn \in Operators \cup {"prefix_op", "factor"} /\ kids # <<>>
  \/ fn = "statement" /\ (kids # <<>> \/ op \notin {NONE, SEMICOLON})
  \/ fn \in {"vardecl", "paramtype"} /\ op # NONE
  \/ fn = "toplevel" /\ (op # NONE \/ kids \notin {<<>>, <<NULL>>})

\* What an optional function leaves out does not keep the function from going on.
Lenient(fn, op) ==
  \/ fn = "statement" /\ op \notin {NONE, SEMICOLON}
  \/ fn = "toplevel" /\ op # "("
  \/ fn = "paramtype_list" /\ op # NONE

Row(s) == s \in Seq({s[m] : m \in DOMAIN s})

\* The longest list of what is to be read is that of parse_for().
MaxTodo == 6

\* An activation when p tokens have been read.
Sound(f, p) ==
  /\ Row(f.kids)
  /\ Fed(f.fn, f.op, f.kids) => f.start < p
  /\ Len(f.todo) <= MaxTodo
  /\ f.todo # <<>> /\ f.todo[Len(f.todo)] \in Optionals => Lenient(f.fn, f.op)
  /\ f.fn = "toplevel" /\ f.op = NONE /\ f.todo # <<>> =>
       f.todo = <<"paramtype">> /\ f.kids = <<>>

\* The activation f, which waits for g, can go on with what g returns.
Serves(g, f) ==
  /\ g.fn \in Optionals /\ f.todo = <<>> => Lenient(f.fn, f.op)
  /\ f.fn = "toplevel" /\ f.op = NONE =>
       f.todo = <<>> /\ f.kids = <<>> /\ g.fn = "paramtype"

\* The function at work has its operand when it looks at a token.
Supplied(f) ==
  f.fn \in Operators /\ (f.todo = <<>> \/ Head(f.todo) \notin Functions) => f.kids # <<>>

Progress ==
  /\ \A i \in DOMAIN calls : Sound(calls[i], pos)
  /\ \A i \in 1 .. Len(calls) - 1 : Serves(calls[i + 1], calls[i])
  /\ calls # <<>> => Supplied(top)

\* The function at work may call another one on the token it looks at.
Eager(f) ==
  \/ f.fn \in {"main", "statements"}
  \/ f.fn \in {"factor", "statement", "compound", "toplevel"} /\ f.kids = <<>>
  \/ f.fn = "prefix_op" /\ f.op = NONE /\ f.kids = <<>>
  \/ f.fn \in {"callexpr", "toplevel"} /\ f.op = "("
  \/ f.fn = "paramtype_list" /\ f.op = NONE

\* What the i-th activation may still do before a token is read: as yet uncalled,
\* waiting for one that has read something, about to decide, with so much to be read.
Stage(i) ==
  IF i > Len(calls) THEN 2 * MaxTodo + 4
  ELSE IF i < Len(calls)
       THEN IF calls[i + 1].start < pos THEN 2 * MaxTodo + 3 ELSE 2 * Len(calls[i].todo) + 1
  ELSE IF calls[i].todo # <<>> THEN 2 * Len(calls[i].todo)
  ELSE IF Eager(calls[i]) THEN 2 * MaxTodo + 2 ELSE 0

Left == Len(tokens) - pos

Stops == phase = "parsing" /\ phase' # "parsing"
Takes == phase' = phase /\ Left' < Left
Settles ==
  /\ phase' = phase /\ Left' = Left
  /\ \E i \in 1 .. MaxDepth :
       Stage(i)' < Stage(i) /\ \A j \in 1 .. i - 1 : Stage(j)' = Stage(j)

Decreases == Stops \/ Takes \/ Settles

\* A function that returns has read a token, but for the optional ones.
ReturnsAfterReading ==
  Len(calls') < Len(calls) => top.fn \in Optionals \/ top.start < pos'

Advances == Decreases /\ ReturnsAfterReading

-----------------------------------------------------------------------------
LEMMA WentOn ==
  ASSUME Shape, Parsing, NEW n, NEW f, Go(n, f)
  PROVE  LET N == Len(calls)
         IN  /\ N \in Nat /\ 0 < N /\ N <= MaxDepth /\ MaxDepth \in Nat
             /\ DOMAIN calls = 1 .. N /\ top = calls[N]
             /\ Len(calls') = N /\ DOMAIN calls' = 1 .. N /\ top' = f
             /\ \A i \in 1 .. N : calls'[i] = IF i = N THEN f ELSE calls[i]
             /\ pos' = pos + n /\ tokens' = tokens /\ phase' = phase
<1> DEFINE N == Len(calls)
           S == {calls[i] : i \in DOMAIN calls}
<1>1. /\ calls # <<>> /\ N \in Nat /\ 0 < N /\ N <= MaxDepth /\ MaxDepth \in Nat
      /\ DOMAIN calls = 1 .. N /\ top = calls[N]
  BY Stack, DepthAssumption DEF Shape, Parsing
<1>2. rest \in Seq(S) /\ Len(rest) = N - 1 /\ \A i \in 1 .. N - 1 : rest[i] = calls[i]
  BY <1>1, Stack
<1>3. calls' = Append(rest, f) /\ pos' = pos + n /\ tokens' = tokens /\ phase' = phase
  BY DEF Go
<1> HIDE DEF S, N
<1>4. /\ calls' \in Seq(S \cup {f}) /\ Len(calls') = Len(rest) + 1
      /\ \A i \in 1 .. Len(rest) + 1 : calls'[i] = IF i = Len(rest) + 1 THEN f ELSE rest[i]
  BY <1>2, <1>3, Appended
<1>5. Len(calls') = N
  BY <1>1, <1>2, <1>4
<1>6. \A i \in 1 .. N : calls'[i] = IF i = N THEN f ELSE calls[i]
  BY <1>1, <1>2, <1>4
<1>7. DOMAIN calls' = 1 .. N
  BY <1>4, <1>5
<1>8. top' = f
  <2>1. top' = calls'[N] /\ N \in 1 .. N
    BY <1>1, <1>5 DEF top
  <2> QED BY <2>1, <1>6
<1> QED BY <1>1, <1>3, <1>5, <1>6, <1>7, <1>8 DEF N

LEMMA CalledOn ==
  ASSUME Shape, Invoke, Len(calls) # MaxDepth
  PROVE  LET N == Len(calls)
             f == [top EXCEPT !.todo = Tail(@)]
             g == Call(Head(top.todo))
         IN  /\ N \in Nat /\ 0 < N /\ N + 1 <= MaxDepth /\ MaxDepth \in Nat
             /\ DOMAIN calls = 1 .. N /\ top = calls[N]
             /\ Len(calls') = N + 1 /\ DOMAIN calls' = 1 .. N + 1 /\ top' = g
             /\ \A i \in 1 .. N + 1 :
                  calls'[i] = IF i = N + 1 THEN g ELSE IF i = N THEN f ELSE calls[i]
             /\ pos' = pos /\ tokens' = tokens /\ phase' = phase
<1> DEFINE N == Len(calls)
           S == {calls[i] : i \in DOMAIN calls}
<1>1. /\ calls # <<>> /\ N \in Nat /\ 0 < N /\ N + 1 <= MaxDepth /\ MaxDepth \in Nat
      /\ DOMAIN calls = 1 .. N /\ top = calls[N]
  <2>1. calls # <<>> /\ N <= MaxDepth /\ N # MaxDepth /\ MaxDepth \in Nat
    BY DepthAssumption DEF Shape, Invoke, Parsing
  <2>2. DOMAIN calls = 1 .. N /\ N \in Nat \ {0} /\ top = calls[N]
    BY <2>1, Stack
  <2> HIDE DEF N
  <2> QED BY <2>1, <2>2
<1>2. rest \in Seq(S) /\ Len(rest) = N - 1 /\ \A i \in 1 .. N - 1 : rest[i] = calls[i]
  BY <1>1, Stack
<1> DEFINE f == [top EXCEPT !.todo = Tail(@)]
           g == Call(Head(top.todo))
           r == Append(rest, f)
<1>3. calls' = rest \o <<f, g>> /\ pos' = pos /\ tokens' = tokens /\ phase' = phase
  BY DEF Invoke
<1> HIDE DEF S, N, f, g
<1>4. /\ r \in Seq(S \cup {f}) /\ Len(r) = Len(rest) + 1
      /\ \A i \in 1 .. Len(rest) + 1 : r[i] = IF i = Len(rest) + 1 THEN f ELSE rest[i]
  BY <1>2, Appended
<1>5. calls' = Append(r, g)
  BY <1>2, <1>3
<1> HIDE DEF r
<1>6. /\ calls' \in Seq(S \cup {f} \cup {g}) /\ Len(calls') = Len(r) + 1
      /\ \A i \in 1 .. Len(r) + 1 : calls'[i] = IF i = Len(r) + 1 THEN g ELSE r[i]
  BY <1>4, <1>5, Appended
<1>7. Len(calls') = N + 1 /\ Len(r) = N
  BY <1>1, <1>2, <1>4, <1>6
<1>8. \A i \in 1 .. N + 1 : calls'[i] = IF i = N + 1 THEN g ELSE IF i = N THEN f ELSE calls[i]
  BY <1>1, <1>2, <1>4, <1>6, <1>7
<1>9. DOMAIN calls' = 1 .. N + 1
  BY <1>6, <1>7
<1>10. top' = g
  <2>1. top' = calls'[N + 1] /\ N + 1 \in 1 .. N + 1
    BY <1>1, <1>7 DEF top
  <2> QED BY <2>1, <1>8
<1> QED BY <1>1, <1>3, <1>7, <1>8, <1>9, <1>10 DEF N, f, g

LEMMA CameBack ==
  ASSUME Shape, Parsing, NEW n, NEW t, Return(n, t), Len(calls) > 1
  PROVE  LET M == Len(calls) - 1
             g == [calls[M] EXCEPT !.kids = Append(@, t)]
         IN  /\ M \in Nat /\ 0 < M /\ M < MaxDepth /\ MaxDepth \in Nat
             /\ DOMAIN calls = 1 .. M + 1 /\ top = calls[M + 1]
             /\ Len(calls') = M /\ DOMAIN calls' = 1 .. M /\ top' = g
             /\ \A i \in 1 .. M : calls'[i] = IF i = M THEN g ELSE calls[i]
             /\ pos' = pos + n /\ tokens' = tokens /\ phase' = phase
<1> DEFINE M == Len(calls) - 1
           S == {calls[i] : i \in DOMAIN calls}
           g == [calls[M] EXCEPT !.kids = Append(@, t)]
<1>1. /\ calls # <<>> /\ M \in Nat /\ 0 < M /\ M < MaxDepth /\ MaxDepth \in Nat
      /\ M + 1 = Len(calls)
  <2>1. Len(calls) <= MaxDepth /\ MaxDepth \in Nat /\ calls # <<>>
    BY DepthAssumption DEF Shape, Parsing
  <2>2. Len(calls) \in Nat \ {0}
    BY <2>1, Stack
  <2> QED BY <2>1, <2>2
<1>2. /\ DOMAIN calls = 1 .. M + 1 /\ top = calls[M + 1]
      /\ rest \in Seq(S) /\ Len(rest) = M /\ \A i \in 1 .. M : rest[i] = calls[i]
  BY <1>1, Stack
<1> HIDE DEF M, S
<1>3. rest[M] = calls[M] /\ M \in DOMAIN rest /\ rest # <<>> /\ DOMAIN rest = 1 .. M
  BY <1>1, <1>2
<1>4. /\ calls' = [rest EXCEPT ![M] = g]
      /\ pos' = pos + n /\ tokens' = tokens /\ phase' = phase
  BY <1>2, <1>3 DEF Return
<1> HIDE DEF g
<1>5. calls' \in Seq(S \cup {g}) /\ Len(calls') = M
  BY <1>2, <1>3, <1>4
<1>6. \A i \in 1 .. M : calls'[i] = IF i = M THEN g ELSE calls[i]
  BY <1>2, <1>3, <1>4
<1>7. DOMAIN calls' = 1 .. M
  BY <1>5
<1>8. top' = g
  <2>1. top' = calls'[M] /\ M \in 1 .. M
    BY <1>1, <1>5 DEF top
  <2> QED BY <2>1, <1>6
<1> QED BY <1>1, <1>2, <1>4, <1>5, <1>6, <1>7, <1>8 DEF M, g

\* What was so before more tokens were read is so afterwards.
LEMMA StaysSound ==
  ASSUME NEW f, NEW p \in Nat, NEW q \in Nat, p <= q, f.start \in Nat, Sound(f, p)
  PROVE  Sound(f, q)
BY DEF Sound

\* Reading n tokens and going on as f, which is the same activation.
LEMMA GoesOn ==
  ASSUME Inv, Parsing, Progress, NEW n \in Nat, NEW f, Go(n, f),
         Activation(f), f.fn = top.fn, f.start = top.start,
         Sound(f, pos + n), Supplied(f),
         n # 0 \/ (top.todo = <<>> /\ Eager(top) /\ f.todo # <<>>)
  PROVE  Progress' /\ Advances
<1>0. PICK N \in Nat : N = Len(calls)
  BY Stack DEF Inv, Shape, Parsing
<1>1. /\ N \in Nat /\ 0 < N /\ N <= MaxDepth /\ MaxDepth \in Nat
      /\ DOMAIN calls = 1 .. N /\ top = calls[N]
      /\ Len(calls') = N /\ DOMAIN calls' = 1 .. N /\ top' = f
      /\ \A i \in 1 .. N : calls'[i] = IF i = N THEN f ELSE calls[i]
      /\ pos' = pos + n /\ tokens' = tokens /\ phase' = phase
  <2>1. Shape
    BY DEF Inv
  <2> QED BY <1>0, <2>1, WentOn
<1>2. /\ pos \in Nat /\ pos' \in Nat /\ pos <= pos' /\ Len(tokens) \in Nat
      /\ Len(f.todo) \in Nat
  <2>1. pos \in Nat /\ Len(tokens) \in Nat
    BY LenTokens DEF Inv, Shape
  <2>2. Len(f.todo) \in Nat
    BY DEF Activation
  <2> QED BY <1>1, <2>1, <2>2
<1>3. \A i \in 1 .. N : calls'[i].fn = calls[i].fn /\ calls'[i].start = calls[i].start
                        /\ calls[i].start \in Nat
  BY <1>1 DEF Inv, Shape, Activation
<1>4. \A i \in DOMAIN calls' : Sound(calls'[i], pos')
  <2> SUFFICES ASSUME NEW i \in 1 .. N
               PROVE  Sound(calls'[i], pos')
    BY <1>1
  <2>1. CASE i = N
    BY <2>1, <1>1
  <2>2. CASE i # N
    <3>1. calls'[i] = calls[i] /\ Sound(calls[i], pos)
      BY <2>2, <1>1 DEF Progress
    <3> QED BY <3>1, <1>2, <1>3, StaysSound
  <2> QED BY <2>1, <2>2
<1>5. \A i \in 1 .. Len(calls') - 1 : Serves(calls'[i + 1], calls'[i])
  <2> SUFFICES ASSUME NEW i \in 1 .. N - 1
               PROVE  Serves(calls'[i + 1], calls'[i])
    BY <1>1
  <2>1. i \in 1 .. N /\ i + 1 \in 1 .. N /\ i # N
    BY <1>1
  <2>2. calls'[i] = calls[i] /\ calls'[i + 1].fn = calls[i + 1].fn
    BY <2>1, <1>1, <1>3
  <2>3. Serves(calls[i + 1], calls[i])
    BY <1>0 DEF Progress
  <2> QED BY <2>2, <2>3 DEF Serves
<1>6. Progress'
  BY <1>1, <1>4, <1>5 DEF Progress
<1>7. CASE n # 0
  <2>1. Len(tokens) - pos' < Len(tokens) - pos
    BY <1>1, <1>2, <1>7
  <2>2. Takes
    BY <1>1, <2>1 DEF Takes, Left
  <2> QED BY <1>0, <1>1, <1>6, <2>2 DEF Advances, Decreases, ReturnsAfterReading
<1>8. CASE n = 0
  <2>1. pos' = pos
    BY <1>1, <1>2, <1>8
  <2>2. Stage(N)' < Stage(N)
    <3>0. /\ calls[N].todo = <<>> /\ Eager(calls[N]) /\ calls'[N] = f /\ f.todo # <<>>
          /\ Len(calls) = N /\ Len(calls') = N /\ ~(N > N) /\ ~(N < N)
      BY <1>0, <1>1, <1>8
    <3>1. Stage(N) = 2 * MaxTodo + 2
      BY <3>0 DEF Stage
    <3>2. Stage(N)' = 2 * Len(f.todo)
      BY <3>0 DEF Stage
    <3>3. Len(f.todo) <= MaxTodo
      BY DEF Sound
    <3> QED BY <3>1, <3>2, <3>3, <1>2 DEF MaxTodo
  <2>3. \A j \in 1 .. N - 1 : Stage(j)' = Stage(j)
    <3> SUFFICES ASSUME NEW j \in 1 .. N - 1
                 PROVE  Stage(j)' = Stage(j)
      OBVIOUS
    <3>1. j \in 1 .. N /\ j + 1 \in 1 .. N /\ j # N /\ j < N /\ ~(j > N)
      BY <1>1
    <3>2. calls'[j] = calls[j] /\ calls'[j + 1].start = calls[j + 1].start
      BY <3>1, <1>1, <1>3
    <3> QED BY <3>1, <3>2, <2>1, <1>0, <1>1 DEF Stage
  <2>4. N \in 1 .. MaxDepth
    BY <1>1
  <2>5. Settles
    BY <2>1, <2>2, <2>3, <2>4, <1>1 DEF Settles, Left
  <2> QED BY <1>0, <1>1, <1>6, <2>5 DEF Advances, Decreases, ReturnsAfterReading
<1> QED BY <1>6, <1>7, <1>8

LEMMA ReturnsOn ==
  ASSUME Inv, Parsing, Progress, NEW n \in Nat, NEW t, Return(n, t),
         \/ n # 0
         \/ top.start < pos
         \/ top.fn \in Optionals /\ (top.fn = "paramtype" => t = NULL)
  PROVE  Progress' /\ Advances
<1>0. Shape /\ calls # <<>> /\ Len(calls) \in Nat \ {0}
  BY Stack DEF Inv, Shape, Parsing
<1>R. ReturnsAfterReading
  <2>1. pos \in Nat /\ pos' = pos + n /\ top.start \in Nat /\ top.start <= pos
    BY <1>0, Stack DEF Inv, Ordered, Shape, Activation, Return
  <2>2. n # 0 \/ top.start < pos => top.start < pos'
    BY <2>1
  <2> QED BY <2>2 DEF ReturnsAfterReading
<1>1. CASE Len(calls) = 1
  <2>1. Len(rest) = 0 /\ rest \in Seq({calls[i] : i \in DOMAIN calls})
    BY <1>0, <1>1, Stack
  <2>2. rest = <<>>
    BY <2>1
  <2>3. calls' = <<>> /\ phase' = "done"
    BY <2>2 DEF Return
  <2>4. Len(calls') = 0 /\ DOMAIN calls' = {}
    BY <2>3
  <2>5. Progress'
    BY <2>3, <2>4 DEF Progress
  <2>6. Stops
    BY <2>3 DEF Stops, Parsing
  <2> QED BY <2>5, <2>6, <1>R DEF Advances, Decreases
<1>2. CASE Len(calls) # 1
  <2>0. PICK K \in Nat : K = Len(calls)
    BY <1>0
  <2>K. Len(calls) > 1 /\ K > 1
    BY <2>0, <1>0, <1>2
  <2>M. PICK M \in Nat : M = K - 1
    BY <2>K
  <2> DEFINE f == calls[M]
             h == calls[M + 1]
             g == [f EXCEPT !.kids = Append(@, t)]
  <2>1. /\ M \in Nat /\ 0 < M /\ M < MaxDepth /\ MaxDepth \in Nat
        /\ DOMAIN calls = 1 .. M + 1 /\ top = h
        /\ Len(calls') = M /\ DOMAIN calls' = 1 .. M /\ top' = g
        /\ \A i \in 1 .. M : calls'[i] = IF i = M THEN g ELSE calls[i]
        /\ pos' = pos + n /\ tokens' = tokens /\ phase' = phase
    BY <1>0, <2>0, <2>K, <2>M, CameBack
  <2>2. /\ pos \in Nat /\ pos' \in Nat /\ pos <= pos' /\ Len(tokens) \in Nat
    BY <2>1, <1>0, LenTokens DEF Shape
  <2>3. M + 1 = Len(calls)
    BY <2>0, <2>M
  <2>4. M \in 1 .. M + 1 /\ M + 1 \in 1 .. M + 1
    BY <2>1
  <2>5. /\ Activation(f) /\ f.start \in Nat /\ h.start \in Nat
        /\ f.start <= h.start /\ h.start <= pos
        /\ f.todo \in Seq(Items) /\ Len(f.todo) \in Nat
    <3>1. Activation(f) /\ Activation(h)
      BY <2>1, <2>4, <1>0 DEF Shape
    <3>2. f.start <= h.start /\ h.start <= pos
      BY <2>1, <2>4 DEF Inv, Ordered
    <3> QED BY <3>1, <3>2 DEF Activation
  <2>6. /\ g.fn = f.fn /\ g.start = f.start /\ g.op = f.op /\ g.todo = f.todo
        /\ g.kids = Append(f.kids, t)
    BY <2>5 DEF Activation
  <2>7. Sound(f, pos) /\ Serves(h, f)
    <3>1. M \in 1 .. Len(calls) - 1
      BY <2>1, <2>3
    <3> QED BY <3>1, <2>1, <2>4 DEF Progress
  <2>8. Row(g.kids) /\ g.kids # <<>> /\ (f.kids = <<>> => g.kids = <<t>>)
    <3>0. Row(f.kids)
      BY <2>7 DEF Sound
    <3> DEFINE k == f.kids
               S == {k[m] : m \in DOMAIN k}
    <3>1. k \in Seq(S)
      BY <3>0 DEF Row
    <3> HIDE DEF k, S
    <3>2. Append(k, t) \in Seq(S \cup {t}) /\ Len(Append(k, t)) = Len(k) + 1 /\ Len(k) \in Nat
      BY <3>1, Appended
    <3>3. Append(k, t) # <<>>
      <4>1. Len(Append(k, t)) # 0
        BY <3>2
      <4> QED BY <4>1
    <3>4. Row(Append(k, t))
      BY <3>2, OfItsElements DEF Row
    <3>5. k = <<>> => Append(k, t) = <<t>>
      OBVIOUS
    <3> QED BY <3>3, <3>4, <3>5, <2>6 DEF k
  <2>9. f.todo # <<>> => f.start < h.start
    BY <2>1, <2>3, <2>4 DEF Inv, Pending, Reach
  <2> HIDE DEF f, g, h
  <2>10. Sound(g, pos')
    <3>1. CASE n # 0 \/ h.start < pos
      <4>1. g.start < pos'
        BY <2>1, <2>2, <2>5, <2>6, <3>1
      <4>2. g.fn = "toplevel" /\ g.op = NONE => g.todo = <<>>
        BY <2>6, <2>7 DEF Serves
      <4> QED BY <4>1, <4>2, <2>6, <2>7, <2>8 DEF Sound
    <3>2. CASE ~(n # 0 \/ h.start < pos)
      <4>1. h.fn \in Optionals /\ (h.fn = "paramtype" => t = NULL)
        BY <2>1, <3>2
      <4>2. pos' = pos
        BY <2>1, <2>2, <3>2
      <4>3. Fed(g.fn, g.op, g.kids) => f.start < pos
        <5>1. CASE f.todo # <<>>
          BY <5>1, <2>2, <2>5, <2>9
        <5>2. CASE f.todo = <<>>
          <6>1. Lenient(f.fn, f.op)
            BY <4>1, <5>2, <2>7 DEF Serves
          <6>2. f.fn = "toplevel" /\ f.op = NONE => g.kids = <<NULL>>
            BY <4>1, <2>7, <2>8 DEF Serves
          <6>3. Fed(g.fn, g.op, g.kids) => Fed(f.fn, f.op, f.kids)
            <7>1. CASE f.fn = "statement"
              BY <6>1, <7>1, <2>6 DEF Lenient, Fed
            <7>2. CASE f.fn = "toplevel"
              BY <6>1, <6>2, <7>2, <2>6, FunctionSet DEF Lenient, Fed, Operators, Infix
            <7>3. CASE f.fn = "paramtype_list"
              BY <7>3, <2>6 DEF Fed, Operators, Infix
            <7> QED BY <6>1, <7>1, <7>2, <7>3 DEF Lenient
          <6> QED BY <6>3, <2>7 DEF Sound
        <5> QED BY <5>1, <5>2
      <4>4. g.fn = "toplevel" /\ g.op = NONE => g.todo = <<>>
        BY <2>6, <2>7 DEF Serves
      <4> QED BY <4>2, <4>3, <4>4, <2>6, <2>7, <2>8 DEF Sound
    <3> QED BY <3>1, <3>2
  <2>11. Progress'
    <3>1. \A i \in 1 .. M : i # M => calls'[i] = calls[i]
      BY <2>1
    <3>2. \A i \in DOMAIN calls' : Sound(calls'[i], pos')
      <4> SUFFICES ASSUME NEW i \in 1 .. M, i # M
                   PROVE  Sound(calls'[i], pos')
        BY <2>1, <2>4, <2>10
      <4>1. i \in DOMAIN calls /\ calls'[i] = calls[i]
        BY <3>1, <2>1
      <4>2. Sound(calls[i], pos) /\ calls[i].start \in Nat
        BY <4>1, <1>0 DEF Progress, Shape, Activation
      <4> QED BY <4>1, <4>2, <2>2, StaysSound
    <3>3. \A i \in 1 .. Len(calls') - 1 : Serves(calls'[i + 1], calls'[i])
      <4> SUFFICES ASSUME NEW i \in 1 .. M - 1
                   PROVE  Serves(calls'[i + 1], calls'[i])
        BY <2>1
      <4>1. i \in 1 .. M /\ i # M /\ i + 1 \in 1 .. M /\ i \in 1 .. Len(calls) - 1
        BY <2>1, <2>3
      <4>2. calls'[i] = calls[i] /\ calls'[i + 1].fn = calls[i + 1].fn
        BY <4>1, <2>1, <2>6 DEF f
      <4>3. Serves(calls[i + 1], calls[i])
        BY <4>1 DEF Progress
      <4> QED BY <4>2, <4>3 DEF Serves
    <3>4. Supplied(g)
      BY <2>8 DEF Supplied
    <3> QED BY <3>2, <3>3, <3>4, <2>1 DEF Progress
  <2>12. CASE n # 0
    <3>1. Len(tokens) - pos' < Len(tokens) - pos
      BY <2>1, <2>2, <2>12
    <3>2. Takes
      BY <2>1, <3>1 DEF Takes, Left
    <3> QED BY <2>11, <3>2, <1>R DEF Advances, Decreases
  <2>13. CASE n = 0
    <3>1. pos' = pos
      BY <2>1, <2>2, <2>13
    <3>2. /\ calls[M] = f /\ calls[M + 1] = h /\ calls'[M] = g
          /\ Len(calls) = M + 1 /\ Len(calls') = M
          /\ M < M + 1 /\ ~(M > M + 1) /\ ~(M > M) /\ ~(M < M)
      BY <2>1, <2>3, <2>4 DEF f, h
    <3>3. Stage(M) = IF h.start < pos THEN 2 * MaxTodo + 3 ELSE 2 * Len(f.todo) + 1
      BY <3>2 DEF Stage
    <3>4. Stage(M)' = IF f.todo # <<>> THEN 2 * Len(f.todo)
                      ELSE IF Eager(g) THEN 2 * MaxTodo + 2 ELSE 0
      BY <3>2, <2>6 DEF Stage
    <3>5. Len(f.todo) <= MaxTodo
      BY <2>7 DEF Sound
    <3>6. ~(h.start < pos) /\ f.todo = <<>> => ~Eager(g)
      <4> SUFFICES ASSUME ~(h.start < pos), f.todo = <<>>
                   PROVE  ~Eager(g)
        OBVIOUS
      <4>1. Lenient(g.fn, g.op)
        BY <2>1, <2>6, <2>7, <2>13 DEF Serves
      <4> QED BY <4>1, <2>8 DEF Lenient, Eager
    <3>7. Stage(M)' < Stage(M)
      BY <3>3, <3>4, <3>5, <3>6, <2>5 DEF MaxTodo
    <3>8. \A j \in 1 .. M - 1 : Stage(j)' = Stage(j)
      <4> SUFFICES ASSUME NEW j \in 1 .. M - 1
                   PROVE  Stage(j)' = Stage(j)
        OBVIOUS
      <4>1. /\ j \in 1 .. M /\ j # M /\ j + 1 \in 1 .. M
            /\ j < M /\ ~(j > M) /\ j < M + 1 /\ ~(j > M + 1)
        BY <2>1
      <4>2. calls'[j] = calls[j] /\ calls'[j + 1].start = calls[j + 1].start
        BY <4>1, <2>1, <2>6 DEF f
      <4> QED BY <4>1, <4>2, <3>1, <3>2 DEF Stage
    <3>9. M \in 1 .. MaxDepth
      BY <2>1
    <3>10. Settles
      BY <3>1, <3>7, <3>8, <3>9, <2>1 DEF Settles, Left
    <3> QED BY <2>11, <3>10, <1>R DEF Advances, Decreases
  <2> QED BY <2>12, <2>13
<1> QED BY <1>1, <1>2

LEMMA EndsOn ==
  ASSUME Inv, Parsing, Progress, NEW how, how # "parsing", End(how)
  PROVE  Progress' /\ Advances
<1>1. Progress'
  BY DEF Progress, End, top
<1>2. Stops
  BY DEF Stops, End, Parsing
<1>3. Len(calls') = Len(calls)
  BY DEF End
<1>4. ReturnsAfterReading
  BY <1>3, Stack DEF Inv, Shape, Parsing, ReturnsAfterReading
<1> QED BY <1>1, <1>2, <1>4 DEF Advances, Decreases

\* What is left after the first item ends with the same item.
LEMMA Tails ==
  ASSUME NEW S, NEW s \in Seq(S), s # <<>>
  PROVE  /\ Len(Tail(s)) = Len(s) - 1 /\ Len(s) \in Nat /\ Len(s) # 0
         /\ Tail(s) # <<>> => Tail(s)[Len(Tail(s))] = s[Len(s)]
         /\ Tail(s) = <<>> => Head(s) = s[Len(s)]
<1>1. /\ Len(Tail(s)) = Len(s) - 1 /\ Len(s) \in Nat /\ Len(s) # 0
      /\ Tail(s) \in Seq(S)
  OBVIOUS
<1>2. Tail(s) # <<>> => Tail(s)[Len(Tail(s))] = s[Len(s)]
  BY <1>1
<1>3. Tail(s) = <<>> => Head(s) = s[Len(s)]
  <2> SUFFICES ASSUME Tail(s) = <<>>
               PROVE  Head(s) = s[Len(s)]
    OBVIOUS
  <2>1. Len(Tail(s)) = 0
    <3> DEFINE r == Tail(s)
    <3>1. r = <<>> /\ Len(<<>>) = 0
      OBVIOUS
    <3> HIDE DEF r
    <3>2. Len(r) = 0
      BY <3>1
    <3> QED BY <3>2 DEF r
  <2>2. Len(s) = 1
    BY <2>1, <1>1
  <2> QED BY <2>2
<1> QED BY <1>1, <1>2, <1>3

\* The activation at work.
LEMMA AtWork ==
  ASSUME Inv, Parsing, Progress
  PROVE  /\ Shape /\ Activation(top) /\ Sound(top, pos) /\ Supplied(top)
         /\ pos \in Nat /\ top.start \in Nat /\ top.start <= pos
<1>1. calls # <<>> /\ Shape
  BY DEF Inv, Shape, Parsing
<1>2. Activation(top) /\ Len(calls) \in DOMAIN calls /\ top = calls[Len(calls)]
  BY <1>1, Stack
<1> QED BY <1>1, <1>2 DEF Progress, Inv, Ordered, Shape, Activation

LEMMA ExpectOn ==
  ASSUME Inv, Progress, Expect
  PROVE  Progress' /\ Advances
<1>1. Parsing /\ top.todo # <<>> /\ Head(top.todo) \notin Functions
  BY DEF Expect
<1>2. CASE End("error")
  BY <1>1, <1>2, EndsOn
<1>3. CASE Go(1, [top EXCEPT !.todo = Tail(@)])
  <2> DEFINE f == [top EXCEPT !.todo = Tail(@)]
  <2>1. /\ Activation(top) /\ Sound(top, pos) /\ Supplied(top)
        /\ pos \in Nat /\ top.start \in Nat /\ top.start <= pos
    BY <1>1, AtWork
  <2>2. /\ Activation(f) /\ f.fn = top.fn /\ f.start = top.start /\ f.op = top.op
        /\ f.kids = top.kids /\ f.todo = Tail(top.todo)
    BY <1>1, <2>1 DEF Activation
  <2>3. Go(1, f)
    BY <1>3
  <2> HIDE DEF f
  <2>4. /\ Len(f.todo) = Len(top.todo) - 1 /\ Len(top.todo) \in Nat
        /\ f.todo # <<>> => f.todo[Len(f.todo)] = top.todo[Len(top.todo)]
    BY <1>1, <2>1, <2>2 DEF Activation
  <2>5. ~(top.fn = "toplevel" /\ top.op = NONE)
    <3>1. "paramtype" \in Functions
      BY FunctionSet
    <3>2. Head(<<"paramtype">>) = "paramtype"
      OBVIOUS
    <3> QED BY <1>1, <2>1, <3>1, <3>2 DEF Sound
  <2>6. Len(f.todo) <= MaxTodo
    BY <2>1, <2>4 DEF Sound, MaxTodo
  <2>7. top.start < pos + 1 /\ pos + 1 \in Nat
    BY <2>1
  <2>8. Sound(f, pos + 1)
    BY <1>1, <2>1, <2>2, <2>4, <2>5, <2>6, <2>7 DEF Sound
  <2>9. Supplied(f)
    BY <1>1, <2>1, <2>2 DEF Supplied
  <2> QED BY <1>1, <2>2, <2>3, <2>8, <2>9, GoesOn
<1> QED BY <1>2, <1>3 DEF Expect

\* What is called has not read anything, and looks at a token only to get an operand.
LEMMA CallsSound ==
  ASSUME NEW fn \in Functions, pos \in Nat
  PROVE  Sound(Call(fn), pos) /\ Supplied(Call(fn)) /\ Call(fn).fn = fn
<1> DEFINE g == Call(fn)
<1>1. g.fn = fn /\ g.start = pos /\ g.op = NONE /\ g.kids = <<>>
  BY DEF Call
<1>2. /\ g.todo \in Seq(Items) /\ Len(g.todo) <= 1
      /\ g.todo # <<>> => g.todo = <<g.todo[1]>> /\ g.todo[1] \in Functions
  BY Calls DEF Activation
<1>3. fn \in Operators => g.todo # <<>>
  BY DEF Operators, Call
<1>4. fn \notin Operators => g.todo = <<>>
  BY DEF Operators, Call
<1>5. fn \in DOMAIN Infix => g.todo = <<Infix[fn].first>>
  BY DEF Call
<1> HIDE DEF g
<1>6. Row(<<>>)
  BY DEF Row
<1>7. ~Fed(g.fn, g.op, g.kids)
  BY <1>1 DEF Fed
<1>8. Len(g.todo) <= MaxTodo
  BY <1>2 DEF MaxTodo
<1>9. g.todo # <<>> => g.todo[Len(g.todo)] \notin Optionals /\ g.fn # "toplevel"
  <2> SUFFICES ASSUME g.todo # <<>>
               PROVE  g.todo[Len(g.todo)] \notin Optionals /\ g.fn # "toplevel"
    OBVIOUS
  <2>1. fn \in Operators
    BY <1>4
  <2>2. Rank[fn] < Rank[g.todo[1]]
    BY Calls DEF g
  <2>3. Rank[fn] >= 7 /\ fn # "toplevel"
    BY <2>1, Ranks DEF Operators, Infix
  <2>4. g.todo[1] \notin Optionals
    <3>1. g.todo[1] \in Functions /\ Rank[fn] \in Nat /\ Rank[g.todo[1]] \in Nat
      BY <1>2, RankType
    <3>2. Rank[g.todo[1]] > 7
      BY <2>2, <2>3, <3>1
    <3> QED BY <3>2, Ranks DEF Optionals
  <2>5. Len(g.todo) = 1
    <3>1. g.todo = <<g.todo[1]>> /\ Len(<<g.todo[1]>>) = 1
      BY <1>2
    <3> QED BY <3>1
  <2> QED BY <2>3, <2>4, <2>5, <1>1
<1>10. g.todo # <<>> => Head(g.todo) \in Functions
  BY <1>2
<1>11. Sound(g, pos)
  BY <1>1, <1>6, <1>7, <1>8, <1>9 DEF Sound
<1>12. Supplied(g)
  BY <1>1, <1>3, <1>10 DEF Supplied
<1> QED BY <1>1, <1>11, <1>12 DEF g

LEMMA InvokeOn ==
  ASSUME Inv, Progress, Invoke
  PROVE  Progress' /\ Advances
<1>1. /\ Parsing /\ top.todo # <<>> /\ Head(top.todo) \in Functions
      /\ Activation(top) /\ Sound(top, pos)
      /\ pos \in Nat /\ top.start \in Nat /\ top.start <= pos /\ Shape
  BY AtWork DEF Invoke
<1>2. CASE Len(calls) = MaxDepth
  BY <1>1, <1>2, EndsOn DEF Invoke
<1>3. CASE Len(calls) # MaxDepth
  <2>0. PICK N \in Nat : N = Len(calls)
    BY <1>1, Stack DEF Shape, Parsing
  <2> DEFINE f == [top EXCEPT !.todo = Tail(@)]
             g == Call(Head(top.todo))
  <2>1. /\ 0 < N /\ N + 1 <= MaxDepth /\ MaxDepth \in Nat
        /\ DOMAIN calls = 1 .. N /\ top = calls[N]
        /\ Len(calls') = N + 1 /\ DOMAIN calls' = 1 .. N + 1 /\ top' = g
        /\ \A i \in 1 .. N + 1 :
             calls'[i] = IF i = N + 1 THEN g ELSE IF i = N THEN f ELSE calls[i]
        /\ pos' = pos /\ tokens' = tokens /\ phase' = phase
    BY <1>1, <1>3, <2>0, CalledOn
  <2>2. /\ f.fn = top.fn /\ f.start = top.start /\ f.op = top.op
        /\ f.kids = top.kids /\ f.todo = Tail(top.todo)
    BY <1>1 DEF Activation
  <2>3. Sound(g, pos) /\ Supplied(g) /\ g.fn = Head(top.todo) /\ g.start = pos
    BY <1>1, CallsSound DEF Call
  <2> HIDE DEF f, g
  <2>4. /\ Len(f.todo) = Len(top.todo) - 1 /\ Len(top.todo) \in Nat
        /\ f.todo # <<>> => f.todo[Len(f.todo)] = top.todo[Len(top.todo)]
        /\ f.todo = <<>> => Head(top.todo) = top.todo[Len(top.todo)]
    <3>1. top.todo \in Seq(Items)
      BY <1>1 DEF Activation
    <3> QED BY <1>1, <3>1, <2>2, Tails
  <2>5. top.fn = "toplevel" /\ top.op = NONE =>
          f.todo = <<>> /\ f.kids = <<>> /\ Head(top.todo) = "paramtype"
    <3>1. Tail(<<"paramtype">>) = <<>> /\ Head(<<"paramtype">>) = "paramtype"
      OBVIOUS
    <3> QED BY <1>1, <2>2, <3>1 DEF Sound
  <2>6. Len(f.todo) <= MaxTodo
    BY <1>1, <2>4 DEF Sound, MaxTodo
  <2>7. Sound(f, pos)
    BY <1>1, <2>2, <2>4, <2>5, <2>6 DEF Sound
  <2>8. Serves(g, f)
    BY <1>1, <2>2, <2>3, <2>4, <2>5 DEF Serves, Sound
  <2>9. /\ calls'[N + 1] = g /\ calls'[N] = f
        /\ \A i \in 1 .. N : calls'[i].fn = calls[i].fn /\ calls'[i].start = calls[i].start
        /\ \A i \in 1 .. N - 1 : calls'[i] = calls[i]
    BY <2>1, <2>2
  <2>10. Progress'
    <3>1. \A i \in DOMAIN calls' : Sound(calls'[i], pos')
      <4> SUFFICES ASSUME NEW i \in 1 .. N + 1
                   PROVE  Sound(calls'[i], pos)
        BY <2>1
      <4>1. CASE i \in 1 .. N - 1
        BY <4>1, <2>1, <2>9 DEF Progress
      <4>2. CASE i \in {N, N + 1}
        BY <4>2, <2>3, <2>7, <2>9
      <4> QED BY <4>1, <4>2
    <3>2. \A i \in 1 .. Len(calls') - 1 : Serves(calls'[i + 1], calls'[i])
      <4> SUFFICES ASSUME NEW i \in 1 .. N
                   PROVE  Serves(calls'[i + 1], calls'[i])
        BY <2>1
      <4>1. CASE i = N
        BY <4>1, <2>8, <2>9
      <4>2. CASE i # N
        <5>1. i \in 1 .. N - 1 /\ i + 1 \in 1 .. N
          BY <4>2
        <5>2. Serves(calls[i + 1], calls[i])
          BY <5>1, <2>0 DEF Progress
        <5> QED BY <5>1, <5>2, <2>9 DEF Serves
      <4> QED BY <4>1, <4>2
    <3> QED BY <3>1, <3>2, <2>1, <2>3 DEF Progress
  <2>11. /\ Len(calls) = N /\ Len(calls') = N + 1 /\ calls[N].todo # <<>>
         /\ ~(N > N) /\ ~(N < N) /\ ~(N > N + 1) /\ N < N + 1 /\ ~(pos < pos)
    BY <1>1, <2>0, <2>1
  <2>12. Stage(N)' < Stage(N)
    <3>1. Stage(N) = 2 * Len(top.todo)
      BY <2>1, <2>11 DEF Stage
    <3>2. Stage(N)' = 2 * Len(f.todo) + 1
      BY <2>1, <2>3, <2>9, <2>11 DEF Stage
    <3> QED BY <3>1, <3>2, <2>4
  <2>13. \A j \in 1 .. N - 1 : Stage(j)' = Stage(j)
    <3> SUFFICES ASSUME NEW j \in 1 .. N - 1
                 PROVE  Stage(j)' = Stage(j)
      OBVIOUS
    <3>1. /\ j \in 1 .. N /\ j + 1 \in 1 .. N
          /\ ~(j > N) /\ j < N /\ ~(j > N + 1) /\ j < N + 1
      BY <2>1
    <3>2. calls'[j] = calls[j] /\ calls'[j + 1].start = calls[j + 1].start
      BY <3>1, <2>9
    <3> QED BY <3>1, <3>2, <2>1, <2>11 DEF Stage
  <2>14. N \in 1 .. MaxDepth
    BY <2>1
  <2>15. Settles
    BY <2>1, <2>12, <2>13, <2>14 DEF Settles, Left
  <2>16. ~(N + 1 < N)
    OBVIOUS
  <2>17. ReturnsAfterReading
    BY <2>11, <2>16 DEF ReturnsAfterReading
  <2> QED BY <2>10, <2>15, <2>17 DEF Advances, Decreases
<1> QED BY <1>2, <1>3

-----------------------------------------------------------------------------
\* What a function leaves to be read, having recognised op.
Ready(fn, op, todo) ==
  /\ todo \in Seq(Items) /\ Len(todo) <= MaxTodo
  /\ todo # <<>> /\ todo[Len(todo)] \in Optionals => Lenient(fn, op)

LEMMA ReadyToRead ==
  /\ \A fn, op :
       /\ Ready(fn, op, <<>>)
       /\ \A a \in Items \ Optionals :
            /\ Ready(fn, op, <<a>>)
            /\ \A b \in Items : Ready(fn, op, <<b, a>>)
            /\ \A b, c \in Items : Ready(fn, op, <<c, b, a>>)
  /\ \A fn, op : Lenient(fn, op) =>
       /\ \A a \in Items : Ready(fn, op, <<a>>)
       /\ Ready(fn, op, Header)
       /\ Ready(fn, op, <<"(", "statement", "statement", "statement", ")", "compound">>)
<1>1. \A a, b, c \in Items :
        /\ <<>> \in Seq(Items) /\ <<a>> \in Seq(Items) /\ <<b, a>> \in Seq(Items)
        /\ <<c, b, a>> \in Seq(Items)
  OBVIOUS
<1>2. \A a, b, c :
        /\ Len(<<>>) = 0 /\ Len(<<a>>) = 1 /\ Len(<<b, a>>) = 2 /\ Len(<<c, b, a>>) = 3
        /\ <<a>>[1] = a /\ <<b, a>>[2] = a /\ <<c, b, a>>[3] = a
  OBVIOUS
<1>3. Header \in Seq(Items) /\ Len(Header) = 4
  BY ToReads DEF ToRead, Header
<1>4. LET all == <<"(", "statement", "statement", "statement", ")", "compound">>
      IN  all \in Seq(Items) /\ Len(all) = 6
  BY ToReads DEF ToRead
<1> QED BY <1>1, <1>2, <1>3, <1>4 DEF Ready, MaxTodo

LEMMA ItemSet ==
  /\ {"prefix_op", "postfix_op", "expression", "statement", "vardecl", "toplevel",
      "]", ")", SEMICOLON, RBRACE} \subseteq Items \ Optionals
  /\ {"compound", "paramtype", "statements", "paramtype_list", LBRACE, "("} \subseteq Items
<1>1. SEMICOLON \notin Optionals /\ RBRACE \notin Optionals
  BY DEF SEMICOLON, RBRACE, Optionals
<1> QED BY <1>1, FunctionSet DEF Items, Optionals

LEMMA Rows ==
  /\ Row(<<>>) /\ (\A a : Row(<<a>>)) /\ (\A a, b : Row(<<a, b>>))
  /\ \A s, e : Row(s) => Row(Append(s, e)) /\ Row(SetLast(s, e))
<1>1. Row(<<>>) /\ (\A a : Row(<<a>>)) /\ (\A a, b : Row(<<a, b>>))
  BY DEF Row
<1>2. ASSUME NEW s, NEW e, Row(s) PROVE Row(Append(s, e)) /\ Row(SetLast(s, e))
  <2> DEFINE S == {s[m] : m \in DOMAIN s}
  <2>1. s \in Seq(S)
    BY <1>2 DEF Row
  <2> HIDE DEF S
  <2>2. Append(s, e) \in Seq(S \cup {e})
    BY <2>1
  <2>3. SetLast(s, e) \in Seq(S \cup {e})
    <3>1. s \in [1 .. Len(s) -> S \cup {e}] /\ Len(s) \in Nat
      BY <2>1
    <3>2. SetLast(s, e) \in [1 .. Len(s) -> S \cup {e}]
      BY <3>1 DEF SetLast
    <3> QED BY <3>1, <3>2
  <2>4. ASSUME NEW r \in Seq(S \cup {e}) PROVE Row(r)
    BY OfItsElements DEF Row
  <2> QED BY <2>2, <2>3, <2>4
<1> QED BY <1>1, <1>2

LEMMA BranchesRow ==
  ASSUME Row(top.kids)
  PROVE  Row(Branches)
<1> DEFINE k == top.kids
           S == {k[m] : m \in DOMAIN k} \cup {k[m] : m \in Nat}
<1>1. k \in Seq(S)
  BY DEF Row
<1>2. Len(k) \in Nat
  BY <1>1
<1> DEFINE s == SubSeq(k, 2, Len(k) - 1)
<1>3. \A m \in 2 .. Len(k) - 1 : k[m] \in S
  BY <1>2
<1>4. k[Len(k)] \in S
  BY <1>2
<1>5. 2 \in Int /\ Len(k) - 1 \in Int
  BY <1>2
<1> HIDE DEF S, k
<1>6. s \in Seq(S)
  BY <1>3, <1>5, SubSeqProperties
<1> HIDE DEF s
<1>7. <<k[Len(k)]>> \o s \in Seq(S)
  BY <1>4, <1>6
<1>8. Row(<<k[Len(k)]>> \o s)
  BY <1>7, OfItsElements DEF Row
<1> QED BY <1>8 DEF Branches, s, k

\* Going on after tokens have been read.
LEMMA ReadsOn ==
  ASSUME Inv, Parsing, Progress, NEW n \in Nat, n # 0,
         NEW op, NEW kids, NEW todo, Then(n, op, kids, todo),
         Row(kids), Ready(top.fn, op, todo),
         top.fn = "toplevel" => op # NONE,
         top.fn \in Operators => kids # <<>>
  PROVE  Progress' /\ Advances
<1> DEFINE f == [top EXCEPT !.op = op, !.kids = kids, !.todo = todo]
<1>1. Activation(top) /\ pos \in Nat /\ top.start \in Nat /\ top.start <= pos
  BY AtWork
<1>2. /\ Activation(f) /\ f.fn = top.fn /\ f.start = top.start
      /\ f.op = op /\ f.kids = kids /\ f.todo = todo
  BY <1>1 DEF Activation, Ready
<1>3. Go(n, f)
  BY DEF Then
<1> HIDE DEF f
<1>4. f.start < pos + n
  BY <1>1, <1>2
<1>5. Sound(f, pos + n)
  BY <1>2, <1>4 DEF Sound, Ready
<1>6. Supplied(f)
  BY <1>2 DEF Supplied
<1> QED BY <1>2, <1>3, <1>5, <1>6, GoesOn

\* Calling another function, or beginning to, on the token that is looked at.
LEMMA TurnsOn ==
  ASSUME Inv, Parsing, Progress, top.todo = <<>>, Eager(top),
         NEW op, NEW kids, NEW todo, Then(0, op, kids, todo),
         Row(kids), Ready(top.fn, op, todo), todo # <<>>,
         Fed(top.fn, op, kids) => top.start < pos,
         top.fn = "toplevel" /\ op = NONE => todo = <<"paramtype">> /\ kids = <<>>,
         top.fn \in Operators => kids # <<>>
  PROVE  Progress' /\ Advances
<1> DEFINE f == [top EXCEPT !.op = op, !.kids = kids, !.todo = todo]
<1>1. Activation(top) /\ pos \in Nat /\ top.start \in Nat /\ pos + 0 = pos
  BY AtWork
<1>2. /\ Activation(f) /\ f.fn = top.fn /\ f.start = top.start
      /\ f.op = op /\ f.kids = kids /\ f.todo = todo
  BY <1>1 DEF Activation, Ready
<1>3. Go(0, f)
  BY DEF Then
<1> HIDE DEF f
<1>4. Sound(f, pos + 0)
  BY <1>1, <1>2 DEF Sound, Ready
<1>5. Supplied(f)
  BY <1>2 DEF Supplied
<1> QED BY <1>2, <1>3, <1>4, <1>5, GoesOn

LEMMA GivesBack ==
  ASSUME Inv, Parsing, Progress, NEW n \in Nat, NEW t, Return(n, t),
         \/ n # 0
         \/ Fed(top.fn, top.op, top.kids)
         \/ top.fn \in Optionals /\ (top.fn = "paramtype" => t = NULL)
  PROVE  Progress' /\ Advances
<1>1. Fed(top.fn, top.op, top.kids) => top.start < pos
  BY AtWork DEF Sound
<1> QED BY <1>1, ReturnsOn

LEMMA RightOperand ==
  ASSUME NEW fn \in DOMAIN Infix
  PROVE  Infix[fn].next \in Items \ Optionals /\ fn \in Operators /\ fn # "toplevel"
<1>1. fn \in {"infix_muldiv", "infix_addsub", "infix_eq", "infix_lge", "infix_bit_and",
              "infix_logic_and", "infix_logic_or", "expression"}
  BY DEF Infix
<1>2. Infix[fn].next \in {"prefix_op", "infix_muldiv", "infix_addsub", "infix_eq", "infix_lge",
                          "infix_logic_and", "expression"}
  BY <1>1 DEF Infix, infix_muldiv, infix_addsub, infix_eq, infix_lge, infix_bit_and,
              infix_logic_and, infix_logic_or, infix_assign
<1> QED BY <1>1, <1>2, FunctionSet DEF Items, Optionals, Operators

LEMMA InfixLevelOn ==
  ASSUME Inv, Progress, InfixLevel
  PROVE  Progress' /\ Advances
<1>1. Parsing /\ top.fn \in DOMAIN Infix /\ top.todo = <<>>
  BY DEF InfixLevel, In
<1>2. top.kids # <<>> /\ top.fn \in Operators /\ top.fn # "toplevel"
  BY <1>1, AtWork, RightOperand DEF Supplied
<1>3. CASE Return(0, LeftOperand)
  BY <1>1, <1>2, <1>3, GivesBack DEF Fed
<1>4. CASE Then(1, get_token, <<LeftOperand>>, <<Infix[top.fn].next>>)
  <2> DEFINE kids == <<LeftOperand>>
             todo == <<Infix[top.fn].next>>
  <2>1. Ready(top.fn, get_token, todo) /\ Row(kids) /\ kids # <<>>
    BY <1>1, RightOperand, ReadyToRead, Rows
  <2>2. Then(1, get_token, kids, todo)
    BY <1>4
  <2> HIDE DEF kids, todo
  <2> QED BY <1>1, <1>2, <2>1, <2>2, ReadsOn
<1> QED BY <1>3, <1>4 DEF InfixLevel

LEMMA prefix_opOn ==
  ASSUME Inv, Progress, prefix_op
  PROVE  Progress' /\ Advances
<1>1. /\ Parsing /\ top.fn = "prefix_op" /\ top.op = NONE /\ top.kids = <<>> /\ top.todo = <<>>
      /\ top.fn \notin Operators /\ top.fn # "toplevel"
  BY DEF prefix_op, In, Operators, Infix
<1>2. /\ \A op : /\ Ready(top.fn, op, <<>>) /\ Ready(top.fn, op, <<"prefix_op">>)
                 /\ Ready(top.fn, op, <<"postfix_op">>) /\ Ready(top.fn, op, <<"expression">>)
      /\ Row(<<>>) /\ \A a : Row(<<a>>)
  BY ReadyToRead, ItemSet, Rows
<1>3. CASE Then(1, get_token, <<>>, <<"prefix_op">>)
  BY <1>1, <1>2, <1>3, ReadsOn
<1>4. CASE Then(0, NONE, <<>>, <<"postfix_op">>)
  <2>1. Eager(top) /\ ~Fed(top.fn, NONE, <<>>)
    BY <1>1 DEF Eager, Fed
  <2> QED BY <1>1, <1>2, <1>4, <2>1, TurnsOn
<1>5. ASSUME NEW n \in {1, 2},
             \/ Then(n + 1, "pointer", <<BaseType(Peek(n + 1))>>, <<>>)
             \/ Then(n, "SIZEOF_EXPR", <<>>, <<"expression">>)
      PROVE  Progress' /\ Advances
  <2>1. n \in Nat /\ n # 0 /\ n + 1 \in Nat /\ n + 1 # 0
    OBVIOUS
  <2> QED BY <1>1, <1>2, <1>5, <2>1, ReadsOn
<1> QED BY <1>3, <1>4, <1>5 DEF prefix_op

LEMMA PrefixDoneOn ==
  ASSUME Inv, Progress, PrefixDone
  PROVE  Progress' /\ Advances
<1>1. Parsing /\ top.fn = "prefix_op" /\ top.kids # <<>>
  BY DEF PrefixDone, In
<1>2. PICK n, t : n \in {0, Closing} /\ Return(n, t)
  BY DEF PrefixDone
<1>3. n \in Nat
  BY <1>2 DEF Closing
<1> QED BY <1>1, <1>2, <1>3, GivesBack DEF Fed

LEMMA callexprOn ==
  ASSUME Inv, Progress, callexpr
  PROVE  Progress' /\ Advances
<1>1. /\ Parsing /\ top.fn = "callexpr" /\ top.todo = <<>>
      /\ top.fn \in Operators /\ top.fn # "toplevel"
  BY DEF callexpr, In, Operators
<1>2. /\ Activation(top) /\ Sound(top, pos) /\ Supplied(top) /\ top.kids # <<>>
      /\ pos \in Nat /\ top.start \in Nat /\ top.start < pos
  BY <1>1, AtWork DEF Supplied, Sound, Fed
<1>3. Row(top.kids) /\ \A op : Ready(top.fn, op, <<"expression">>)
  BY <1>2, ReadyToRead, ItemSet DEF Sound
<1>4. CASE Go(1, [top EXCEPT !.op = "("])
  <2> DEFINE f == [top EXCEPT !.op = "("]
  <2>1. /\ Activation(f) /\ f.fn = top.fn /\ f.start = top.start /\ f.todo = <<>>
        /\ f.kids = top.kids
    BY <1>1, <1>2 DEF Activation
  <2>2. Go(1, f)
    BY <1>4
  <2> HIDE DEF f
  <2>3. f.start < pos + 1
    BY <1>2, <2>1
  <2>4. Len(f.todo) <= MaxTodo
    BY <1>1, <1>2, <2>1 DEF Sound
  <2>5. Sound(f, pos + 1) /\ Supplied(f)
    BY <1>1, <1>2, <1>3, <2>1, <2>3, <2>4 DEF Sound, Supplied
  <2> QED BY <1>1, <2>1, <2>2, <2>5, GoesOn
<1>5. CASE Return(0, top.kids[1]) \/ Return(1, <<"CALL">> \o top.kids)
  BY <1>1, <1>2, <1>5, GivesBack DEF Fed
<1>6. CASE End("null") \/ End("error")
  BY <1>1, <1>6, EndsOn
<1>7. CASE top.op = "(" /\ Then(0, COMMA, top.kids, <<"expression">>)
  <2>1. Eager(top)
    BY <1>1, <1>7 DEF Eager
  <2>2. <<"expression">> # <<>>
    OBVIOUS
  <2> QED BY <1>1, <1>2, <1>3, <1>7, <2>1, <2>2, TurnsOn
<1>8. CASE Then(1, COMMA, top.kids, <<"expression">>)
  BY <1>1, <1>2, <1>3, <1>8, ReadsOn
<1> QED BY <1>4, <1>5, <1>6, <1>7, <1>8 DEF callexpr

LEMMA postfix_opOn ==
  ASSUME Inv, Progress, postfix_op
  PROVE  Progress' /\ Advances
<1>1. /\ Parsing /\ top.fn = "postfix_op" /\ top.todo = <<>>
      /\ top.fn \in Operators /\ top.fn # "toplevel"
  BY DEF postfix_op, In, Operators
<1>2. top.kids # <<>>
  BY <1>1, AtWork DEF Supplied
<1>3. /\ \A op : Ready(top.fn, op, <<>>) /\ Ready(top.fn, op, <<"expression", "]">>)
      /\ \A a : Row(<<a>>)
  BY ReadyToRead, ItemSet, Rows
<1>4. CASE Then(1, "[", <<Primary>>, <<"expression", "]">>)
  BY <1>1, <1>3, <1>4, ReadsOn
<1>5. CASE Then(1, NONE, <<<<"POSTINC", Primary>>>>, <<>>)
  BY <1>1, <1>3, <1>5, ReadsOn
<1>6. CASE \E t : Field(t)
  <2>1. CASE End("error")
    BY <1>1, <2>1, EndsOn
  <2>2. CASE \E t : Then(2, NONE, <<t>>, <<>>)
    BY <1>1, <1>3, <2>2, ReadsOn
  <2> QED BY <1>6, <2>1, <2>2 DEF Field
<1>7. CASE Return(0, Primary)
  BY <1>1, <1>2, <1>7, GivesBack DEF Fed
<1> QED BY <1>4, <1>5, <1>6, <1>7 DEF postfix_op

LEMMA factorOn ==
  ASSUME Inv, Progress, factor
  PROVE  Progress' /\ Advances
<1>1. /\ Parsing /\ top.fn = "factor" /\ top.todo = <<>>
      /\ top.fn \notin Operators /\ top.fn # "toplevel"
  BY DEF factor, In, Operators, Infix
<1>2. /\ \A op : Ready(top.fn, op, <<"expression", ")">>) /\ Ready(top.fn, op, <<"expression">>)
      /\ Row(<<>>)
  BY ReadyToRead, ItemSet, Rows
<1>3. CASE top.kids # <<>> /\ Return(0, top.kids[1])
  BY <1>1, <1>3, GivesBack DEF Fed
<1>4. CASE End("error")
  BY <1>1, <1>4, EndsOn
<1>5. CASE Then(1, "(", <<>>, <<"expression", ")">>)
  BY <1>1, <1>2, <1>5, ReadsOn
<1>6. CASE Return(1, Leaf(get_token))
  BY <1>1, <1>6, GivesBack
<1>7. CASE top.kids = <<>> /\ Then(0, NONE, <<>>, <<"expression">>)
  <2>1. Eager(top) /\ ~Fed(top.fn, NONE, <<>>)
    BY <1>1, <1>7 DEF Eager, Fed
  <2> QED BY <1>1, <1>2, <1>7, <2>1, TurnsOn
<1> QED BY <1>3, <1>4, <1>5, <1>6, <1>7 DEF factor

LEMMA statementOn ==
  ASSUME Inv, Progress, statement
  PROVE  Progress' /\ Advances
<1> DEFINE for == <<"(", "statement", "statement", "statement", ")", "compound">>
<1>1. /\ Parsing /\ top.fn = "statement" /\ top.todo = <<>> /\ top.kids = <<>>
      /\ top.fn \notin Operators /\ top.fn # "toplevel"
  BY DEF statement, In, Operators, Infix
<1>2. /\ \A op : /\ Ready(top.fn, op, <<"expression", SEMICOLON>>)
                 /\ Ready(top.fn, op, <<"expression">>) /\ Ready(top.fn, op, <<"vardecl">>)
      /\ Row(<<>>) /\ Row(<<NULL>>)
  BY ReadyToRead, ItemSet, Rows
<1>3. \A op \in {"if", "WHILE", "FOR"} : Ready(top.fn, op, Header) /\ Ready(top.fn, op, for)
  <2>1. \A op \in {"if", "WHILE", "FOR"} : Lenient(top.fn, op)
    BY <1>1 DEF Lenient, NONE, SEMICOLON
  <2> QED BY <2>1, ReadyToRead
<1>4. CASE \E t : Return(2, t) \/ Return(1, t)
  BY <1>1, <1>4, GivesBack
<1>5. CASE Then(1, "RETURN", <<>>, <<"expression", SEMICOLON>>)
  BY <1>1, <1>2, <1>5, ReadsOn
<1>6. CASE Then(1, "if", <<NULL>>, Header)
  BY <1>1, <1>2, <1>3, <1>6, ReadsOn
<1>7. CASE Then(1, "WHILE", <<>>, Header) \/ Then(1, "FOR", <<>>, for)
  <2> HIDE DEF for
  <2> QED BY <1>1, <1>2, <1>3, <1>7, ReadsOn
<1>8. ASSUME NEW fn \in {"vardecl", "expression"}, Then(0, SEMICOLON, <<>>, <<fn>>)
      PROVE  Progress' /\ Advances
  <2>1. Eager(top) /\ ~Fed(top.fn, SEMICOLON, <<>>)
    BY <1>1 DEF Eager, Fed, Operators, Infix
  <2>2. <<fn>> # <<>> /\ Ready(top.fn, SEMICOLON, <<fn>>)
    BY <1>2, <1>8
  <2> QED BY <1>1, <1>2, <1>8, <2>1, <2>2, TurnsOn
<1> QED BY <1>4, <1>5, <1>6, <1>7, <1>8 DEF statement

LEMMA StatementDoneOn ==
  ASSUME Inv, Progress, StatementDone
  PROVE  Progress' /\ Advances
<1>1. Parsing /\ top.fn = "statement" /\ top.kids # <<>>
  BY DEF StatementDone, In
<1>2. PICK n, t : n \in {0, Semicolon} /\ Return(n, t)
  BY DEF StatementDone
<1>3. n \in Nat
  BY <1>2 DEF Semicolon
<1> QED BY <1>1, <1>2, <1>3, GivesBack DEF Fed

LEMMA parse_ifOn ==
  ASSUME Inv, Progress, parse_if
  PROVE  Progress' /\ Advances
<1>1. /\ Parsing /\ top.fn = "statement" /\ top.op \in {"if", "else"}
      /\ top.fn \notin Operators /\ top.fn # "toplevel"
  BY DEF parse_if, In, Operators, Infix
<1>2. Row(Branches)
  BY <1>1, AtWork, BranchesRow DEF Sound
<1>3. Ready(top.fn, "if", Header) /\ Ready(top.fn, "else", <<"compound">>)
  <2>1. Lenient(top.fn, "if") /\ Lenient(top.fn, "else")
    BY <1>1 DEF Lenient, NONE, SEMICOLON
  <2> QED BY <2>1, ReadyToRead, ItemSet
<1>4. CASE \E t : Return(0, t)
  <2>1. Fed(top.fn, top.op, top.kids)
    BY <1>1 DEF Fed, NONE, SEMICOLON
  <2> QED BY <1>1, <1>4, <2>1, GivesBack
<1>5. CASE Then(2, "if", Branches, Header)
  BY <1>1, <1>2, <1>3, <1>5, ReadsOn
<1>6. CASE Then(1, "else", Branches, <<"compound">>)
  BY <1>1, <1>2, <1>3, <1>6, ReadsOn
<1> QED BY <1>4, <1>5, <1>6 DEF parse_if

LEMMA compoundOn ==
  ASSUME Inv, Progress, compound
  PROVE  Progress' /\ Advances
<1>1. /\ Parsing /\ top.fn = "compound" /\ top.todo = <<>>
      /\ top.fn \notin Operators /\ top.fn # "toplevel"
  BY DEF compound, In, Operators, Infix
<1>2. /\ \A op : Ready(top.fn, op, <<"statements", RBRACE>>) /\ Ready(top.fn, op, <<"statement">>)
      /\ Row(<<>>)
  BY ReadyToRead, ItemSet, Rows
<1>3. CASE \E t : Return(0, t)
  BY <1>1, <1>3, GivesBack DEF Optionals
<1>4. CASE Then(1, LBRACE, <<>>, <<"statements", RBRACE>>)
  BY <1>1, <1>2, <1>4, ReadsOn
<1>5. CASE top.kids = <<>> /\ Then(0, NONE, <<>>, <<"statement">>)
  <2>1. Eager(top) /\ ~Fed(top.fn, NONE, <<>>) /\ <<"statement">> # <<>>
    BY <1>1, <1>5 DEF Eager, Fed
  <2> QED BY <1>1, <1>2, <1>5, <2>1, TurnsOn
<1> QED BY <1>3, <1>4, <1>5 DEF compound

LEMMA statementsOn ==
  ASSUME Inv, Progress, statements
  PROVE  Progress' /\ Advances
<1>1. /\ Parsing /\ top.fn = "statements" /\ top.todo = <<>>
      /\ top.fn \notin Operators /\ top.fn # "toplevel"
  BY DEF statements, In, Operators, Infix
<1>2. /\ Activation(top) /\ Sound(top, pos) /\ Supplied(top) /\ Row(top.kids)
      /\ pos \in Nat /\ top.start \in Nat
  BY <1>1, AtWork DEF Sound
<1>3. CASE \E t : Return(0, t)
  BY <1>1, <1>3, GivesBack DEF Optionals
<1>4. CASE Go(1, top)
  <2>1. Sound(top, pos + 1)
    BY <1>2, StaysSound
  <2> QED BY <1>1, <1>2, <1>4, <2>1, GoesOn
<1>5. CASE Then(0, NONE, top.kids, <<"statement">>)
  <2>1. Eager(top) /\ ~Fed(top.fn, NONE, top.kids) /\ <<"statement">> # <<>>
    BY <1>1 DEF Eager, Fed
  <2>2. Ready(top.fn, NONE, <<"statement">>)
    BY ReadyToRead, ItemSet
  <2> QED BY <1>1, <1>2, <1>5, <2>1, <2>2, TurnsOn
<1> QED BY <1>3, <1>4, <1>5 DEF statements

-----------------------------------------------------------------------------
\* A declarator is read token by token.
LEMMA DeclaratorOn ==
  ASSUME Inv, Progress, Parsing,
         NEW n \in Nat, n # 0, NEW op, NEW kids, Then(n, op, kids, <<>>), Row(kids),
         \/ top.fn \in {"vardecl", "paramtype"}
         \/ top.todo = <<>> /\ op # NONE /\ (top.fn \in Operators => kids # <<>>)
  PROVE  Progress' /\ Advances
<1>1. top.fn \in {"vardecl", "paramtype"} => top.fn \notin Operators /\ top.fn # "toplevel"
  BY DEF Operators, Infix
<1>2. Ready(top.fn, op, <<>>)
  BY ReadyToRead
<1> QED BY <1>1, <1>2, ReadsOn

LEMMA PointerOn ==
  ASSUME Inv, Progress, Pointer \/ ArrayDecl
  PROVE  Progress' /\ Advances
<1>1. Parsing /\ top.todo = <<>>
  BY DEF Pointer, ArrayDecl
<1>2. /\ Row(top.kids) /\ \A e : Row(SetLast(top.kids, e))
      /\ top.fn \in Operators => top.kids # <<>>
  BY <1>1, AtWork, Rows DEF Sound, Supplied
<1>3. ASSUME top.kids # <<>>, NEW e PROVE SetLast(top.kids, e) # <<>>
  <2> DEFINE k == top.kids
             S == {k[m] : m \in DOMAIN k}
  <2>1. k \in Seq(S)
    BY <1>2 DEF Row
  <2>2. k # <<>>
    BY <1>3
  <2> HIDE DEF S, k
  <2>3. Len(k) # 0 /\ Len(k) \in Nat /\ DOMAIN k = 1 .. Len(k)
    BY <2>1, <2>2
  <2>4. 1 \in DOMAIN [k EXCEPT ![Len(k)] = e]
    BY <2>3
  <2> QED BY <2>4 DEF SetLast, k
<1>4. CASE End("error")
  BY <1>1, <1>4, EndsOn
<1>5. ASSUME NEW n \in {1, 3}, NEW op \in {"pointer", "array"}, NEW e,
             Then(n, op, SetLast(top.kids, e), <<>>)
      PROVE  Progress' /\ Advances
  <2>1. n \in Nat /\ n # 0 /\ op # NONE
    BY <1>5 DEF NONE
  <2> QED BY <1>1, <1>2, <1>3, <1>5, <2>1, DeclaratorOn
<1> QED BY <1>4, <1>5 DEF Pointer, ArrayDecl

LEMMA vardeclOn ==
  ASSUME Inv, Progress, vardecl
  PROVE  Progress' /\ Advances
<1>1. Parsing /\ top.fn = "vardecl" /\ top.todo = <<>>
  BY DEF vardecl, In
<1>2. (\A e : Row(SetLast(top.kids, e))) /\ \A a, b : Row(<<a, b>>)
  BY <1>1, AtWork, Rows DEF Sound
<1>3. CASE End("error")
  BY <1>1, <1>3, EndsOn
<1>4. CASE \E kids : Row(kids) /\ (Then(1, "pointer", kids, <<>>) \/ Then(1, "array", kids, <<>>))
  BY <1>1, <1>4, DeclaratorOn
<1> QED BY <1>2, <1>3, <1>4 DEF vardecl

LEMMA DeclaredOn ==
  ASSUME Inv, Progress, Declared \/ Initialiser
  PROVE  Progress' /\ Advances
<1>1. /\ Parsing /\ top.fn = "vardecl" /\ top.todo = <<>> /\ top.op \in {"array", "init"}
      /\ top.fn \notin Operators /\ top.fn # "toplevel"
  BY DEF Declared, Initialiser, In, Operators, Infix
<1>2. Row(top.kids) /\ Row(Append(top.kids, Head(top.kids)))
  BY <1>1, AtWork, Rows DEF Sound
<1>3. CASE \E t : Return(0, t) \/ Return(1, t)
  <2>1. Fed(top.fn, top.op, top.kids)
    BY <1>1 DEF Fed, NONE
  <2> QED BY <1>1, <1>3, <2>1, GivesBack
<1>4. CASE Then(1, "pointer", Append(top.kids, Head(top.kids)), <<>>)
  BY <1>1, <1>2, <1>4, DeclaratorOn
<1>5. CASE Then(1, "init", top.kids, <<"expression">>)
  <2>1. Ready(top.fn, "init", <<"expression">>)
    BY ReadyToRead, ItemSet
  <2> QED BY <1>1, <1>2, <1>5, <2>1, ReadsOn
<1> QED BY <1>3, <1>4, <1>5 DEF Declared, Initialiser

LEMMA paramtypeOn ==
  ASSUME Inv, Progress, paramtype
  PROVE  Progress' /\ Advances
<1>1. Parsing /\ top.fn = "paramtype" /\ top.todo = <<>>
  BY DEF paramtype, In
<1>2. \A a : Row(<<a>>)
  BY Rows
<1>3. CASE \E a : Then(1, "pointer", <<a>>, <<>>) \/ Then(1, "array", <<a>>, <<>>)
  BY <1>1, <1>2, <1>3, DeclaratorOn
<1>4. CASE Return(0, NULL)
  BY <1>1, <1>4, GivesBack DEF Optionals
<1>5. CASE top.op \in {"pointer", "array"} /\ \E t : Return(0, t)
  <2>1. Fed(top.fn, top.op, top.kids)
    BY <1>1, <1>5 DEF Fed, NONE
  <2> QED BY <1>1, <1>5, <2>1, GivesBack
<1> QED BY <1>3, <1>4, <1>5 DEF paramtype

LEMMA paramtype_listOn ==
  ASSUME Inv, Progress, paramtype_list
  PROVE  Progress' /\ Advances
<1>1. /\ Parsing /\ top.fn = "paramtype_list" /\ top.todo = <<>>
      /\ top.fn \notin Operators /\ top.fn # "toplevel"
  BY DEF paramtype_list, In, Operators, Infix
<1>2. Row(top.kids) /\ Ready(top.fn, NONE, <<>>) /\ Ready(top.fn, "param", <<"paramtype">>)
  <2>1. Lenient(top.fn, "param")
    BY <1>1 DEF Lenient, NONE
  <2> QED BY <1>1, <2>1, AtWork, ReadyToRead, ItemSet DEF Sound
<1>3. CASE \E t : Return(0, t)
  BY <1>1, <1>3, GivesBack DEF Optionals
<1>4. CASE End("error")
  BY <1>1, <1>4, EndsOn
<1>5. CASE top.op = NONE /\ Then(0, "param", top.kids, <<"paramtype">>)
  <2>1. Eager(top) /\ ~Fed(top.fn, "param", top.kids) /\ <<"paramtype">> # <<>>
    BY <1>1, <1>5 DEF Eager, Fed
  <2> QED BY <1>1, <1>2, <1>5, <2>1, TurnsOn
<1>6. CASE Then(1, NONE, top.kids, <<>>)
  BY <1>1, <1>2, <1>6, ReadsOn
<1> QED BY <1>3, <1>4, <1>5, <1>6 DEF paramtype_list

LEMMA toplevelOn ==
  ASSUME Inv, Progress, toplevel
  PROVE  Progress' /\ Advances
<1>1. /\ Parsing /\ top.fn = "toplevel" /\ top.todo = <<>> /\ top.kids = <<>>
      /\ top.fn \notin Operators
  BY DEF toplevel, In, Operators, Infix
<1>2. /\ Ready(top.fn, "EXTERN", <<"paramtype">>) /\ Ready(top.fn, NONE, <<"paramtype">>)
      /\ Row(<<>>) /\ "EXTERN" # NONE
  <2>1. Lenient(top.fn, "EXTERN") /\ Lenient(top.fn, NONE)
    BY <1>1 DEF Lenient, NONE
  <2> QED BY <2>1, ReadyToRead, ItemSet, Rows DEF NONE
<1>3. CASE Then(1, "EXTERN", <<>>, <<"paramtype">>)
  BY <1>1, <1>2, <1>3, ReadsOn
<1>4. CASE Then(0, NONE, <<>>, <<"paramtype">>)
  <2>1. Eager(top) /\ ~Fed(top.fn, NONE, <<>>) /\ <<"paramtype">> # <<>>
    BY <1>1 DEF Eager, Fed, Operators, Infix
  <2> QED BY <1>1, <1>2, <1>4, <2>1, TurnsOn
<1> QED BY <1>3, <1>4 DEF toplevel

LEMMA DeclarationOn ==
  ASSUME Inv, Progress, Declaration
  PROVE  Progress' /\ Advances
<1>1. /\ Parsing /\ top.fn = "toplevel" /\ top.todo = <<>> /\ top.kids # <<>>
      /\ top.fn \notin Operators
  BY DEF Declaration, In, Operators, Infix
<1>2. /\ Row(top.kids) /\ \A op : Ready(top.fn, op, <<"paramtype_list", ")">>)
      /\ \A op : Ready(top.fn, op, <<"expression">>)
  BY <1>1, AtWork, ReadyToRead, ItemSet DEF Sound
<1>3. CASE Then(1, "(", top.kids, <<"paramtype_list", ")">>)
  <2>1. "(" # NONE
    BY DEF NONE
  <2> QED BY <1>1, <1>2, <1>3, <2>1, ReadsOn
<1>4. CASE End("null")
  BY <1>1, <1>4, EndsOn
<1>5. CASE top.kids[1] # NULL /\ \E t : Return(Semicolon, t)
  <2>1. top.kids # <<NULL>>
    BY <1>5
  <2>2. Fed(top.fn, top.op, top.kids) /\ Semicolon \in Nat
    BY <1>1, <2>1 DEF Fed, Semicolon
  <2> QED BY <1>1, <1>5, <2>2, GivesBack
<1>6. CASE Then(1, "GLOBALVAR", top.kids, <<"expression">>)
  <2>1. "GLOBALVAR" # NONE
    BY DEF NONE
  <2> QED BY <1>1, <1>2, <1>6, <2>1, ReadsOn
<1> QED BY <1>3, <1>4, <1>5, <1>6 DEF Declaration

LEMMA BodyOn ==
  ASSUME Inv, Progress, Body
  PROVE  Progress' /\ Advances
<1>1. /\ Parsing /\ top.fn = "toplevel" /\ top.todo = <<>> /\ top.op = "("
      /\ top.fn \notin Operators
  BY DEF Body, In, Operators, Infix
<1>2. CASE \E t : Return(1, t)
  BY <1>1, <1>2, GivesBack
<1>3. CASE Then(0, "FUNCDECL", top.kids, <<LBRACE, "statements", RBRACE>>)
  <2> DEFINE todo == <<LBRACE, "statements", RBRACE>>
  <2>1. Eager(top) /\ todo # <<>> /\ "FUNCDECL" # NONE
    BY <1>1 DEF Eager, NONE
  <2>2. Ready(top.fn, "FUNCDECL", todo)
    BY ReadyToRead, ItemSet
  <2>3. Row(top.kids) /\ top.start < pos
    BY <1>1, AtWork, Decides DEF Sound
  <2>4. Then(0, "FUNCDECL", top.kids, todo)
    BY <1>3
  <2> HIDE DEF todo
  <2> QED BY <1>1, <2>1, <2>2, <2>3, <2>4, TurnsOn
<1> QED BY <1>2, <1>3 DEF Body

LEMMA ToplevelDoneOn ==
  ASSUME Inv, Progress, ToplevelDone
  PROVE  Progress' /\ Advances
<1>1. Parsing /\ top.fn = "toplevel" /\ top.op \in {"EXTERN", "GLOBALVAR", "FUNCDECL"}
      /\ \E t : Return(Semicolon, t)
  BY DEF ToplevelDone, In
<1>2. Fed(top.fn, top.op, top.kids) /\ Semicolon \in Nat
  BY <1>1 DEF Fed, NONE, Semicolon
<1> QED BY <1>1, <1>2, GivesBack

LEMMA mainOn ==
  ASSUME Inv, Progress, main
  PROVE  Progress' /\ Advances
<1>1. /\ Parsing /\ top.fn = "main" /\ top.todo = <<>>
      /\ top.fn \notin Operators /\ top.fn # "toplevel"
  BY DEF main, In, Operators, Infix
<1>2. CASE \E t : Return(0, t)
  BY <1>1, <1>2, GivesBack DEF Optionals
<1>3. CASE Then(0, NONE, top.kids, <<"toplevel">>)
  <2>1. Eager(top) /\ ~Fed(top.fn, NONE, top.kids) /\ <<"toplevel">> # <<>>
    BY <1>1 DEF Eager, Fed
  <2>2. Row(top.kids) /\ Ready(top.fn, NONE, <<"toplevel">>)
    BY <1>1, AtWork, ReadyToRead, ItemSet DEF Sound
  <2> QED BY <1>1, <1>3, <2>1, <2>2, TurnsOn
<1> QED BY <1>2, <1>3 DEF main

-----------------------------------------------------------------------------
LEMMA ProgressInitially ==
  ASSUME Init
  PROVE  Progress
<1>1. pos = 0 /\ pos \in Nat /\ Entry(tokens) \in Functions /\ calls = <<Call(Entry(tokens))>>
  BY TextsAssumption, FunctionSet DEF Init
<1>2. Sound(Call(Entry(tokens)), pos) /\ Supplied(Call(Entry(tokens)))
  BY <1>1, CallsSound
<1> DEFINE g == Call(Entry(tokens))
<1> HIDE DEF g
<1>3. calls = <<g>> /\ Len(calls) = 1 /\ DOMAIN calls = {1} /\ calls[1] = g
  BY <1>1 DEF g
<1>4. top = g /\ 1 .. Len(calls) - 1 = {}
  BY <1>3 DEF top
<1> QED BY <1>2, <1>3, <1>4 DEF Progress, g

LEMMA NextDecreases ==
  ASSUME Inv, Progress, Next
  PROVE  Progress' /\ Advances
<1>1. CASE Expect \/ Invoke
  BY <1>1, ExpectOn, InvokeOn
<1>2. CASE InfixLevel \/ prefix_op \/ PrefixDone \/ callexpr \/ postfix_op \/ factor
  BY <1>2, InfixLevelOn, prefix_opOn, PrefixDoneOn, callexprOn, postfix_opOn, factorOn
<1>3. CASE statement \/ StatementDone \/ parse_if \/ compound \/ statements
  BY <1>3, statementOn, StatementDoneOn, parse_ifOn, compoundOn, statementsOn
<1>4. CASE Pointer \/ ArrayDecl \/ vardecl \/ Declared \/ Initialiser
  BY <1>4, PointerOn, vardeclOn, DeclaredOn
<1>5. CASE paramtype \/ paramtype_list \/ toplevel \/ Declaration \/ Body \/ ToplevelDone \/ main
  BY <1>5, paramtypeOn, paramtype_listOn, toplevelOn, DeclarationOn, BodyOn,
     ToplevelDoneOn, mainOn
<1> QED BY <1>1, <1>2, <1>3, <1>4, <1>5 DEF Next

LEMMA ProgressHolds ==
  /\ Init => Inv /\ Progress
  /\ Inv /\ Progress /\ [Next]_vars => (Inv /\ Progress)' /\ (Advances \/ UNCHANGED vars)
<1>1. Init => Inv /\ Progress
  BY Initially, ProgressInitially
<1>2. ASSUME Inv, Progress, Next PROVE (Inv /\ Progress)' /\ Advances
  BY <1>2, Invariance, NextDecreases
<1>3. ASSUME Inv, Progress, UNCHANGED vars PROVE (Inv /\ Progress)'
  <2>1. Inv'
    BY <1>3, Invariance
  <2>2. Progress'
    BY <1>3 DEF Progress, vars, top
  <2> QED BY <2>1, <2>2
<1> QED BY <1>1, <1>2, <1>3

\* The measure of a state, and its order: whether the parser is at work, the tokens
\* that it has not read, and what the activations may still do without reading one,
\* the outermost first.
AtIt    == IF Parsing THEN 1 ELSE 0
Stages  == [i \in 1 .. MaxDepth |-> Stage(i)]
Measure == <<AtIt, <<Left, Stages>>>>

Less    == OpToRel(<, Nat)
Inner   == LexPairOrdering(Less, LexProductOrdering(Less, Nat, MaxDepth),
                           Nat, [1 .. MaxDepth -> Nat])
Lower   == LexPairOrdering(Less, Inner, Nat, Nat \X [1 .. MaxDepth -> Nat])

Lowers  == <<Measure', Measure>> \in Lower

LEMMA MeasureTypes ==
  ASSUME Shape
  PROVE  Left \in Nat /\ \A i \in 1 .. MaxDepth : Stage(i) \in Nat
<1>1. Left \in Nat
  BY LenTokens DEF Shape, Left
<1>2. ASSUME NEW i \in 1 .. MaxDepth PROVE Stage(i) \in Nat
  <2>1. i \in DOMAIN calls \/ i > Len(calls)
    <3>1. calls \in Seq({calls[j] : j \in DOMAIN calls}) /\ i \in Nat \ {0}
      BY DepthAssumption DEF Shape
    <3> QED BY <3>1
  <2>2. i \in DOMAIN calls => Len(calls[i].todo) \in Nat
    BY DEF Shape, Activation
  <2> QED BY <2>1, <2>2 DEF Stage, MaxTodo
<1> QED BY <1>1, <1>2

LEMMA MeasureTypesAfter ==
  ASSUME Shape'
  PROVE  Left' \in Nat /\ \A i \in 1 .. MaxDepth : Stage(i)' \in Nat
<1>1. Left' \in Nat
  BY TextsAssumption DEF Shape, Left
<1>2. ASSUME NEW i \in 1 .. MaxDepth PROVE Stage(i)' \in Nat
  <2>1. i \in DOMAIN calls' \/ i > Len(calls')
    <3>1. calls' \in Seq({calls'[j] : j \in DOMAIN calls'}) /\ i \in Nat \ {0}
      BY DepthAssumption DEF Shape
    <3> QED BY <3>1
  <2>2. i \in DOMAIN calls' => Len(calls'[i].todo) \in Nat
    BY DEF Shape, Activation
  <2> QED BY <2>1, <2>2 DEF Stage, MaxTodo
<1> QED BY <1>1, <1>2

LEMMA MeasureLowers ==
  ASSUME Shape, Shape', Decreases
  PROVE  Lowers
<1> DEFINE f == Stages
           g == Stages'
           a == AtIt
           b == AtIt'
           l == Left
           m == Left'
<1>1. Measure = <<a, <<l, f>>>> /\ Measure' = <<b, <<m, g>>>>
  BY DEF Measure
<1>2. l \in Nat /\ m \in Nat /\ a \in Nat /\ b \in Nat
  BY MeasureTypes, MeasureTypesAfter DEF AtIt
<1>3. /\ \A i \in 1 .. MaxDepth : f[i] = Stage(i) /\ g[i] = Stage(i)'
      /\ f \in [1 .. MaxDepth -> Nat] /\ g \in [1 .. MaxDepth -> Nat]
  BY MeasureTypes, MeasureTypesAfter DEF Stages
<1>4. \A x, y \in Nat : x < y => <<x, y>> \in Less
  BY DEF Less, OpToRel
<1>5. /\ phase' = phase => b = a
      /\ Stops => b < a
      /\ Takes => m < l
      /\ Settles => m = l /\ phase' = phase
      /\ Takes => phase' = phase
  BY DEF AtIt, Parsing, Stops, Takes, Settles
<1>6. Settles => \E i \in 1 .. MaxDepth :
                   g[i] < f[i] /\ \A j \in 1 .. i - 1 : g[j] = f[j]
  <2> SUFFICES ASSUME Settles
               PROVE  \E i \in 1 .. MaxDepth : g[i] < f[i] /\ \A j \in 1 .. i - 1 : g[j] = f[j]
    OBVIOUS
  <2>1. PICK i \in 1 .. MaxDepth :
               Stage(i)' < Stage(i) /\ \A j \in 1 .. i - 1 : Stage(j)' = Stage(j)
    BY DEF Settles
  <2>2. \A j \in 1 .. i - 1 : j \in 1 .. MaxDepth
    BY DepthAssumption
  <2>3. g[i] < f[i] /\ \A j \in 1 .. i - 1 : g[j] = f[j]
    BY <2>1, <2>2, <1>3
  <2> QED BY <2>3
<1> HIDE DEF f, g, a, b, l, m
<1>7. CASE Stops
  BY <1>1, <1>2, <1>3, <1>4, <1>5, <1>7 DEF Lower, LexPairOrdering, Lowers
<1>8. CASE Takes
  <2>1. <<<<m, g>>, <<l, f>>>> \in Inner
    BY <1>2, <1>3, <1>4, <1>5, <1>8 DEF Inner, LexPairOrdering
  <2> QED BY <1>1, <1>2, <1>3, <1>5, <1>8, <2>1 DEF Lower, LexPairOrdering, Lowers
<1>9. CASE Settles
  <2>1. PICK i \in 1 .. MaxDepth : g[i] < f[i] /\ \A j \in 1 .. i - 1 : g[j] = f[j]
    BY <1>6, <1>9
  <2>2. <<g[i], f[i]>> \in Less
    BY <2>1, <1>3, <1>4
  <2>3. <<g, f>> \in LexProductOrdering(Less, Nat, MaxDepth)
    BY <2>1, <2>2, <1>3 DEF LexProductOrdering
  <2>4. <<<<m, g>>, <<l, f>>>> \in Inner
    BY <2>3, <1>2, <1>3, <1>5, <1>9 DEF Inner, LexPairOrdering
  <2> QED BY <1>1, <1>2, <1>3, <1>5, <1>9, <2>4 DEF Lower, LexPairOrdering, Lowers
<1> QED BY <1>7, <1>8, <1>9 DEF Decreases

\* The order has no infinite descent.
THEOREM LowerIsWellFounded ==
  IsWellFoundedOn(Lower, Nat \X (Nat \X [1 .. MaxDepth -> Nat]))
<1>1. IsWellFoundedOn(Less, Nat)
  BY NatLessThanWellFounded DEF Less
<1>2. MaxDepth \in Nat
  BY DepthAssumption
<1>3. IsWellFoundedOn(LexProductOrdering(Less, Nat, MaxDepth), [1 .. MaxDepth -> Nat])
  BY <1>1, <1>2, WFLexProductOrdering
<1>4. IsWellFoundedOn(Inner, Nat \X [1 .. MaxDepth -> Nat])
  BY <1>1, <1>3, WFLexPairOrdering DEF Inner
<1> QED BY <1>1, <1>4, WFLexPairOrdering DEF Lower

\* Every step of the parser lowers the measure, whatever the text: no loop of
\* parser.c goes round without a token read, and no function calls its way round
\* without one but into the end of the stack.
THEOREM StepsLower == Spec => [][Lowers]_vars
<1>1. Init => Inv /\ Progress
  BY ProgressHolds
<1>2. Inv /\ Progress /\ [Next]_vars => (Inv /\ Progress)'
  BY ProgressHolds
<1>3. Inv /\ Progress /\ [Next]_vars => [Lowers]_vars
  BY <1>2, ProgressHolds, MeasureLowers DEF Inv, Advances
<1> QED BY <1>1, <1>2, <1>3, PTL DEF Spec

\* For all texts: a function of parser.c that returns has read a token, by itself or by
\* what it has called: no operand, no statement and no declaration is made of nothing.
\* A parameter, a parameter list, a body, a list of statements may be.
THEOREM OperandsAreRead == Spec => [][ReturnsAfterReading]_vars
<1>1. Init => Inv /\ Progress
  BY ProgressHolds
<1>2. Inv /\ Progress /\ [Next]_vars => (Inv /\ Progress)'
  BY ProgressHolds
<1>3. Inv /\ Progress /\ [Next]_vars => [ReturnsAfterReading]_vars
  BY ProgressHolds DEF Advances
<1> QED BY <1>1, <1>2, <1>3, PTL DEF Spec

-----------------------------------------------------------------------------
\* Where no operand begins, factor() calls expression(), which comes down to
\* factor() again.  The functions on the way have read nothing, and have nothing
\* but each other to call, so that none of them ever reads or returns.
Endless == DOMAIN Infix \cup {"prefix_op", "postfix_op", "callexpr", "factor"}

\* The i-th activation is as it was when it was called, but for what it calls next.
Fresh(i) ==
  /\ calls[i].fn \in Endless
  /\ calls[i].start = pos /\ calls[i].op = NONE /\ calls[i].kids = <<>>
  /\ i = Len(calls) =>
       IF calls[i].todo = <<>> THEN calls[i].fn \in {"prefix_op", "factor"}
       ELSE Head(calls[i].todo) \in Endless

\* The i-th activation is a factor() that found no operand.
Waiting(i) == Turned(calls[i]) /\ (i < Len(calls) \/ calls[i].todo # <<>>)

Spinning ==
  \A i \in DOMAIN calls : Waiting(i) =>
    /\ phase \in {"parsing", "overflow"}
    /\ Stuck(pos) /\ Token(pos) # EOT
    /\ \A m \in i .. Len(calls) : Fresh(m)

\* A factor() has just been called, or has found no operand, or a "(".
Factors ==
  \A i \in DOMAIN calls : calls[i].fn = "factor" =>
    /\ calls[i].op \in {NONE, "("}
    /\ i = Len(calls) /\ calls[i].kids = <<>> =>
         \/ calls[i].op = NONE /\ calls[i].todo = <<>> /\ calls[i].start = pos
         \/ calls[i].op = NONE /\ calls[i].todo = <<"expression">>
         \/ calls[i].op = "(" /\ calls[i].todo # <<>> /\ Head(calls[i].todo) = "expression"

Spin == Spinning /\ Factors

Quiet == \A i \in DOMAIN calls : ~Waiting(i)

\* A step of a function that is not factor(): it returns, it ends the process, or it
\* goes on.
Moves ==
  \/ \E n, t : Return(n, t)
  \/ \E how : End(how)
  \/ \E n, f : Go(n, f) /\ f.fn = top.fn /\ top.fn # "factor"

\* The functions on the way have only each other to call.
LEMMA EndlessCalls ==
  ASSUME NEW fn \in Endless
  PROVE  /\ fn \in Functions
         /\ Call(fn).fn = fn /\ Call(fn).start = pos /\ Call(fn).op = NONE
         /\ Call(fn).kids = <<>>
         /\ fn = "factor" => Call(fn).todo = <<>>
         /\ IF Call(fn).todo = <<>> THEN fn \in {"prefix_op", "factor"}
            ELSE Head(Call(fn).todo) \in Endless
<1>1. fn \in Functions
  BY DEF Endless, Functions
<1>2. Call(fn).fn = fn /\ Call(fn).start = pos /\ Call(fn).op = NONE /\ Call(fn).kids = <<>>
  BY DEF Call
<1>3. CASE fn \in DOMAIN Infix
  <2>1. Call(fn).todo = <<Infix[fn].first>> /\ fn # "factor"
    BY <1>3 DEF Call, Infix
  <2>2. Infix[fn].first \in Endless
    BY <1>3 DEF Endless, Infix, infix_muldiv, infix_addsub, infix_eq, infix_lge,
       infix_bit_and, infix_logic_and, infix_logic_or, infix_assign
  <2>3. Call(fn).todo # <<>> /\ Head(Call(fn).todo) = Infix[fn].first
    BY <2>1
  <2> QED BY <1>1, <1>2, <2>1, <2>2, <2>3
<1>4. CASE fn \in {"prefix_op", "factor"}
  <2>1. Call(fn).todo = <<>>
    BY <1>4 DEF Call, Infix
  <2> QED BY <1>1, <1>2, <1>4, <2>1
<1>5. CASE fn \in {"postfix_op", "callexpr"}
  <2>1. \E g \in {"callexpr", "factor"} : Call(fn).todo = <<g>>
    BY <1>5 DEF Call, Infix
  <2>2. Call(fn).todo # <<>> /\ Head(Call(fn).todo) \in Endless
    BY <2>1 DEF Endless
  <2> QED BY <1>1, <1>2, <1>5, <2>2
<1> QED BY <1>3, <1>4, <1>5 DEF Endless

LEMMA SpinsInitially ==
  ASSUME Init
  PROVE  Spin
<1> DEFINE f == Call(Entry(tokens))
<1>1. f.fn # "factor"
  BY TextsAssumption DEF Init, Call
<1>2. calls = <<f>>
  BY DEF Init
<1> HIDE DEF f
<1>3. DOMAIN calls = {1} /\ calls[1] = f
  BY <1>2
<1> QED BY <1>1, <1>3 DEF Spin, Spinning, Factors, Waiting, Turned

\* A call on the way stays on it; any other call is not on it yet.
LEMMA InvokeSpins ==
  ASSUME Inv, Spin, Invoke
  PROVE  Spin'
<1>1. CASE Len(calls) = MaxDepth
  <2>1. phase' = "overflow" /\ UNCHANGED <<tokens, pos, calls, tree>>
    BY <1>1 DEF Invoke, End
  <2> QED BY <2>1 DEF Spin, Spinning, Factors, Waiting, Turned, Fresh, Stuck, Token
<1>2. CASE Len(calls) # MaxDepth
  <2>0. PICK N \in Nat : N = Len(calls)
    BY Stack DEF Inv, Shape, Invoke, Parsing
  <2> DEFINE f == [top EXCEPT !.todo = Tail(@)]
             fn == Head(top.todo)
             g == Call(fn)
  <2>1. /\ 0 < N /\ DOMAIN calls = 1 .. N /\ top = calls[N]
        /\ Len(calls') = N + 1 /\ DOMAIN calls' = 1 .. N + 1
        /\ \A i \in 1 .. N + 1 :
             calls'[i] = IF i = N + 1 THEN g ELSE IF i = N THEN f ELSE calls[i]
        /\ pos' = pos /\ tokens' = tokens /\ phase' = phase
    BY <1>2, <2>0, CalledOn DEF Inv
  <2>2. /\ f.fn = top.fn /\ f.start = top.start /\ f.op = top.op /\ f.kids = top.kids
        /\ top.todo # <<>> /\ phase = "parsing" /\ fn \in Functions
    BY <2>1, <2>0 DEF Inv, Shape, Activation, Invoke, Parsing
  <2>3. /\ g.fn = fn /\ g.start = pos /\ g.op = NONE /\ g.kids = <<>>
        /\ fn = "factor" => g.todo = <<>>
    BY EndlessCalls DEF Call, Endless
  <2>4. fn \in Endless =>
          IF g.todo = <<>> THEN fn \in {"prefix_op", "factor"} ELSE Head(g.todo) \in Endless
    BY EndlessCalls
  <2> HIDE DEF f, g, fn
  <2>5. \A i \in 1 .. N : /\ calls'[i].fn = calls[i].fn /\ calls'[i].start = calls[i].start
                          /\ calls'[i].op = calls[i].op /\ calls'[i].kids = calls[i].kids
    BY <2>1, <2>2
  <2>6. \A i \in 1 .. N + 1 : Waiting(i)' => i \in 1 .. N /\ Waiting(i)
    <3>1. ~Waiting(N + 1)'
      BY <2>0, <2>1, <2>3 DEF Waiting, Turned
    <3>2. ASSUME NEW i \in 1 .. N, Waiting(i)' PROVE Waiting(i)
      <4>1. Turned(calls[i])
        BY <3>2, <2>5 DEF Waiting, Turned
      <4>2. i < N \/ calls[i].todo # <<>>
        BY <2>1, <2>2
      <4> QED BY <4>1, <4>2, <2>0 DEF Waiting
    <3> QED BY <3>1, <3>2, <2>0
  <2>7. Spinning'
    <3> SUFFICES ASSUME NEW i \in 1 .. N + 1, Waiting(i)'
                 PROVE  /\ phase' \in {"parsing", "overflow"}
                        /\ Stuck(pos)' /\ Token(pos)' # EOT
                        /\ \A m \in i .. N + 1 : Fresh(m)'
      BY <2>1, <2>0 DEF Spinning
    <3>1. i \in 1 .. N /\ Waiting(i)
      BY <2>6
    <3>2. /\ phase \in {"parsing", "overflow"} /\ Stuck(pos) /\ Token(pos) # EOT
          /\ \A j \in i .. N : Fresh(j)
      BY <3>1, <2>0, <2>1 DEF Spin, Spinning
    <3>3. Stuck(pos)' /\ Token(pos)' # EOT /\ phase' \in {"parsing", "overflow"}
      BY <3>2, <2>1 DEF Stuck, Token
    <3>4. Fresh(N + 1)'
      <4>1. Fresh(N) /\ N \in i .. N
        BY <3>1, <3>2
      <4>2. fn \in Endless
        BY <4>1, <2>0, <2>1, <2>2 DEF Fresh, fn
      <4>3. calls'[N + 1] = g
        <5>1. N + 1 \in 1 .. N + 1
          BY <2>0
        <5> QED BY <5>1, <2>1
      <4> QED BY <4>2, <4>3, <2>1, <2>3, <2>4 DEF Fresh
    <3>5. ASSUME NEW m \in i .. N PROVE Fresh(m)'
      <4>1. m \in 1 .. N /\ m # N + 1
        BY <3>1
      <4>2. Fresh(m)
        BY <3>2
      <4> QED BY <4>1, <4>2, <2>1, <2>5 DEF Fresh
    <3>6. \A m \in i .. N + 1 : m = N + 1 \/ m \in i .. N
      BY <3>1
    <3> QED BY <3>3, <3>4, <3>5, <3>6
  <2>8. Factors'
    <3> SUFFICES ASSUME NEW i \in 1 .. N + 1, calls'[i].fn = "factor"
                 PROVE  /\ calls'[i].op \in {NONE, "("}
                        /\ i = N + 1 => /\ calls'[i].op = NONE /\ calls'[i].todo = <<>>
                                        /\ calls'[i].start = pos'
      BY <2>1 DEF Factors
    <3>1. CASE i = N + 1
      BY <3>1, <2>1, <2>3
    <3>2. CASE i # N + 1
      <4>1. i \in 1 .. N
        BY <3>2, <2>0
      <4> QED BY <4>1, <3>2, <2>1, <2>5 DEF Spin, Factors
    <3> QED BY <3>1, <3>2
  <2> QED BY <2>7, <2>8 DEF Spin
<1> QED BY <1>1, <1>2

\* One more activation on the way, where one is.
LEMMA GoSpins ==
  ASSUME Inv, Parsing, Spin, Stuck(pos), Token(pos) # EOT,
         NEW f, Go(0, f), f.fn = top.fn, f.start = pos, f.op = NONE, f.kids = <<>>,
         f.fn \in Endless, NEW g \in Endless, f.todo = <<g>>,
         f.fn = "factor" => g = "expression"
  PROVE  Spin'
<1>0. PICK N \in Nat : N = Len(calls)
  BY Stack DEF Inv, Shape, Parsing
<1>1. /\ 0 < N /\ DOMAIN calls = 1 .. N /\ top = calls[N]
      /\ Len(calls') = N /\ DOMAIN calls' = 1 .. N
      /\ \A i \in 1 .. N : calls'[i] = IF i = N THEN f ELSE calls[i]
      /\ pos' = pos + 0 /\ tokens' = tokens /\ phase' = phase
  BY <1>0, WentOn DEF Inv
<1>2. pos' = pos
  BY <1>1 DEF Inv, Shape
<1>3. Fresh(N)'
  <2>1. f.todo # <<>> /\ Head(f.todo) = g
    OBVIOUS
  <2> QED BY <2>1, <1>0, <1>1, <1>2 DEF Fresh
<1>4. \A i \in 1 .. N : i # N /\ Waiting(i)' => Waiting(i)
  BY <1>0, <1>1 DEF Waiting
<1>5. Spinning'
  <2> SUFFICES ASSUME NEW i \in 1 .. N, Waiting(i)'
               PROVE  /\ phase' \in {"parsing", "overflow"}
                      /\ Stuck(pos)' /\ Token(pos)' # EOT
                      /\ \A m \in i .. N : Fresh(m)'
    BY <1>1, <1>0 DEF Spinning
  <2>1. Stuck(pos)' /\ Token(pos)' # EOT /\ phase' = "parsing"
    BY <1>1, <1>2 DEF Stuck, Token, Parsing
  <2>2. ASSUME NEW m \in i .. N, m # N PROVE Fresh(m)'
    <3>1. m \in 1 .. N /\ i # N /\ m < N
      BY <2>2
    <3>2. Fresh(m)
      BY <3>1, <1>0, <1>1, <1>4 DEF Spin, Spinning
    <3>3. calls'[m] = calls[m] /\ m # Len(calls) /\ m # Len(calls')
      BY <3>1, <1>0, <1>1
    <3> QED BY <3>2, <3>3, <1>2, <2>1 DEF Fresh
  <2> QED BY <2>1, <2>2, <1>3
<1>6. Factors'
  <2> SUFFICES ASSUME NEW i \in 1 .. N, calls'[i].fn = "factor"
               PROVE  /\ calls'[i].op \in {NONE, "("}
                      /\ i = N => calls'[i].op = NONE /\ calls'[i].todo = <<"expression">>
    BY <1>1 DEF Factors
  <2>1. i = N \/ calls'[i] = calls[i]
    BY <1>1
  <2> QED BY <2>1, <1>0, <1>1 DEF Spin, Factors
<1> QED BY <1>5, <1>6 DEF Spin

\* Where no factor() waits in vain, one that has got something does not begin to.
LEMMA StaysQuiet ==
  ASSUME Inv, Parsing, Factors, Quiet, NEW n, NEW f, Go(n, f), f.fn = top.fn,
         f.fn = "factor" =>
           /\ f.op \in {NONE, "("}
           /\ f.kids # <<>> \/ (f.op = "(" /\ f.todo # <<>> /\ Head(f.todo) = "expression")
  PROVE  Spin'
<1>0. PICK N \in Nat : N = Len(calls)
  BY Stack DEF Inv, Shape, Parsing
<1>1. /\ 0 < N /\ DOMAIN calls = 1 .. N /\ top = calls[N]
      /\ Len(calls') = N /\ DOMAIN calls' = 1 .. N
      /\ \A i \in 1 .. N : calls'[i] = IF i = N THEN f ELSE calls[i]
  BY <1>0, WentOn DEF Inv
<1>2. "(" # NONE
  BY DEF NONE
<1>3. \A i \in 1 .. N : ~Waiting(i)'
  <2>1. ~Turned(f)
    BY <1>2 DEF Turned
  <2> QED BY <2>1, <1>0, <1>1 DEF Waiting, Quiet
<1>4. Factors'
  <2> SUFFICES ASSUME NEW i \in 1 .. N, calls'[i].fn = "factor"
               PROVE  /\ calls'[i].op \in {NONE, "("}
                      /\ i = N /\ calls'[i].kids = <<>> =>
                           /\ calls'[i].op = "(" /\ calls'[i].todo # <<>>
                           /\ Head(calls'[i].todo) = "expression"
    BY <1>1 DEF Factors
  <2>1. i = N \/ calls'[i] = calls[i]
    BY <1>1
  <2> QED BY <2>1, <1>0, <1>1 DEF Factors
<1> QED BY <1>1, <1>3, <1>4 DEF Spin, Spinning

LEMMA ReturnSpins ==
  ASSUME Inv, Progress, Parsing, Factors, Quiet, NEW n, NEW t, Return(n, t)
  PROVE  Spin'
<1>1. CASE Len(calls) > 1
  <2>0. PICK M \in Nat : M = Len(calls) - 1
    BY <1>1, Stack DEF Inv, Shape, Parsing
  <2> DEFINE g == [calls[M] EXCEPT !.kids = Append(@, t)]
  <2>1. /\ 0 < M /\ DOMAIN calls = 1 .. M + 1
        /\ Len(calls') = M /\ DOMAIN calls' = 1 .. M
        /\ \A i \in 1 .. M : calls'[i] = IF i = M THEN g ELSE calls[i]
    BY <1>1, <2>0, CameBack DEF Inv
  <2>2. /\ M \in DOMAIN calls /\ Activation(calls[M]) /\ Row(calls[M].kids)
    BY <2>0, <2>1 DEF Inv, Shape, Progress, Sound
  <2>3. g.fn = calls[M].fn /\ g.op = calls[M].op /\ g.kids = Append(calls[M].kids, t)
    BY <2>2 DEF Activation
  <2>4. g.kids # <<>>
    BY <2>2, <2>3 DEF Row
  <2> HIDE DEF g
  <2>5. \A i \in 1 .. M : i \in DOMAIN calls /\ i < Len(calls)
    BY <2>0, <2>1
  <2>6. \A i \in 1 .. M : ~Waiting(i)'
    <3> SUFFICES ASSUME NEW i \in 1 .. M, i # M
                 PROVE  ~Turned(calls[i])
      BY <2>1, <2>4 DEF Waiting, Turned
    <3> QED BY <2>5 DEF Waiting, Quiet
  <2>7. Factors'
    <3> SUFFICES ASSUME NEW i \in 1 .. M, calls'[i].fn = "factor"
                 PROVE  calls'[i].op \in {NONE, "("} /\ (i = M => calls'[i].kids # <<>>)
      BY <2>1 DEF Factors
    <3> QED BY <2>1, <2>3, <2>4, <2>5 DEF Factors
  <2> QED BY <2>1, <2>6, <2>7 DEF Spin, Spinning
<1>2. CASE ~(Len(calls) > 1)
  <2>1. rest = <<>>
    <3>1. calls # <<>> /\ Len(calls) \in Nat \ {0} /\ Len(rest) = Len(calls) - 1
          /\ rest \in Seq({calls[i] : i \in DOMAIN calls})
      BY Stack DEF Inv, Shape, Parsing
    <3> QED BY <3>1, <1>2
  <2>2. calls' = <<>>
    BY <2>1 DEF Return
  <2> QED BY <2>2 DEF Spin, Spinning, Factors
<1> QED BY <1>1, <1>2

LEMMA EndSpins ==
  ASSUME Factors, Quiet, NEW how, End(how)
  PROVE  Spin'
BY DEF End, Spin, Spinning, Factors, Quiet, Waiting, Turned

LEMMA MovesSpin ==
  ASSUME Inv, Progress, Parsing, Factors, Quiet, Moves
  PROVE  Spin'
BY ReturnSpins, EndSpins, StaysQuiet DEF Moves

\* The steps of the functions but factor().
LEMMA OthersMove ==
  ASSUME Inv, Progress, Factors,
         \/ InfixLevel \/ prefix_op \/ PrefixDone \/ callexpr \/ postfix_op
         \/ statement \/ StatementDone \/ parse_if \/ compound \/ statements
         \/ Pointer \/ ArrayDecl \/ vardecl \/ Declared \/ Initialiser
         \/ paramtype \/ paramtype_list
         \/ toplevel \/ Declaration \/ Body \/ ToplevelDone \/ main
  PROVE  Moves
<1>1. Parsing
  BY DEF InfixLevel, prefix_op, PrefixDone, callexpr, postfix_op, statement, StatementDone,
     parse_if, compound, statements, Pointer, ArrayDecl, vardecl, Declared, Initialiser,
     paramtype, paramtype_list, toplevel, Declaration, Body, ToplevelDone, main, In
<1>2. /\ Activation(top) /\ Len(calls) \in DOMAIN calls /\ top = calls[Len(calls)]
  <2>1. calls # <<>> /\ Shape
    BY <1>1 DEF Inv, Shape, Parsing
  <2> QED BY <2>1, Stack
<1>3. \A op, kids, todo : [top EXCEPT !.op = op, !.kids = kids, !.todo = todo].fn = top.fn
  BY <1>2 DEF Activation
<1>4. ASSUME top.fn # "factor", NEW n, NEW op, NEW kids, NEW todo, Then(n, op, kids, todo)
      PROVE  Moves
  BY <1>3, <1>4 DEF Then, Moves
<1>5. ASSUME NEW n, NEW t, Return(n, t) PROVE Moves
  BY <1>5 DEF Moves
<1>6. ASSUME NEW how, End(how) PROVE Moves
  BY <1>6 DEF Moves
<1>7. top.op \in {"pointer", "array"} => top.fn # "factor"
  BY <1>2 DEF Factors, NONE
<1>8. CASE InfixLevel
  <2>1. top.fn # "factor"
    BY <1>8 DEF InfixLevel, In, Infix
  <2> QED BY <1>4, <1>5, <1>8, <2>1 DEF InfixLevel
<1>9. CASE prefix_op \/ PrefixDone
  <2>1. top.fn # "factor"
    BY <1>9 DEF prefix_op, PrefixDone, In
  <2> QED BY <1>4, <1>5, <1>9, <2>1 DEF prefix_op, PrefixDone
<1>10. CASE callexpr
  <2>1. top.fn # "factor"
    BY <1>10 DEF callexpr, In
  <2>2. [top EXCEPT !.op = "("].fn = top.fn
    BY <1>2 DEF Activation
  <2>3. ASSUME Go(1, [top EXCEPT !.op = "("]) PROVE Moves
    BY <2>1, <2>2, <2>3 DEF Moves
  <2> QED BY <1>4, <1>5, <1>6, <1>10, <2>1, <2>3 DEF callexpr
<1>11. CASE postfix_op
  <2>1. top.fn # "factor"
    BY <1>11 DEF postfix_op, In
  <2> QED BY <1>4, <1>5, <1>6, <1>11, <2>1 DEF postfix_op, Field
<1>12. CASE statement \/ StatementDone \/ parse_if
  <2>1. top.fn # "factor"
    BY <1>12 DEF statement, StatementDone, parse_if, In
  <2> QED BY <1>4, <1>5, <1>12, <2>1 DEF statement, StatementDone, parse_if
<1>13. CASE compound \/ statements
  <2>1. top.fn # "factor"
    BY <1>13 DEF compound, statements, In
  <2>2. ASSUME Go(1, top) PROVE Moves
    BY <2>1, <2>2 DEF Moves
  <2> QED BY <1>4, <1>5, <1>13, <2>1, <2>2 DEF compound, statements
<1>14. CASE Pointer \/ ArrayDecl
  <2>1. top.fn # "factor"
    BY <1>7, <1>14 DEF Pointer, ArrayDecl
  <2> QED BY <1>4, <1>6, <1>14, <2>1 DEF Pointer, ArrayDecl
<1>15. CASE vardecl \/ Declared \/ Initialiser
  <2>1. top.fn # "factor"
    BY <1>15 DEF vardecl, Declared, Initialiser, In
  <2> QED BY <1>4, <1>5, <1>6, <1>15, <2>1 DEF vardecl, Declared, Initialiser
<1>16. CASE paramtype \/ paramtype_list
  <2>1. top.fn # "factor"
    BY <1>16 DEF paramtype, paramtype_list, In
  <2> QED BY <1>4, <1>5, <1>6, <1>16, <2>1 DEF paramtype, paramtype_list
<1>17. CASE toplevel \/ Declaration \/ Body \/ ToplevelDone \/ main
  <2>1. top.fn # "factor"
    BY <1>17 DEF toplevel, Declaration, Body, ToplevelDone, main, In
  <2> QED BY <1>4, <1>5, <1>6, <1>17, <2>1
       DEF toplevel, Declaration, Body, ToplevelDone, main
<1> QED BY <1>8, <1>9, <1>10, <1>11, <1>12, <1>13, <1>14, <1>15, <1>16, <1>17

\* Where no factor() waits in vain: it may begin to, where no operand begins.
LEMMA factorSpins ==
  ASSUME Inv, Progress, Spin, factor
  PROVE  Spin'
<1>1. /\ Parsing /\ top.fn = "factor" /\ top.todo = <<>>
      /\ Activation(top) /\ Len(calls) \in DOMAIN calls /\ top = calls[Len(calls)]
      /\ get_token = Token(pos) /\ Shape
  <2>1. Parsing /\ top.fn = "factor" /\ top.todo = <<>>
    BY DEF factor, In
  <2>2. calls # <<>> /\ Shape
    BY <2>1 DEF Inv, Shape, Parsing
  <2> QED BY <2>1, <2>2, Stack, Decides
<1>2. top.kids # <<>> \/ top.start = pos
  BY <1>1 DEF Spin, Factors
<1>3. (\E i \in DOMAIN calls : Waiting(i)) => Fresh(Len(calls)) /\ Stuck(pos) /\ Token(pos) # EOT
  <2> SUFFICES ASSUME NEW i \in DOMAIN calls, Waiting(i)
               PROVE  Fresh(Len(calls)) /\ Stuck(pos) /\ Token(pos) # EOT
    OBVIOUS
  <2>1. Len(calls) \in i .. Len(calls)
    <3>1. DOMAIN calls = 1 .. Len(calls) /\ Len(calls) \in Nat
      BY <1>1, Stack DEF Shape, Parsing
    <3> QED BY <3>1
  <2> QED BY <2>1 DEF Spin, Spinning
<1>4. CASE Quiet /\ \E n, t : Return(n, t)
  BY <1>1, <1>4, ReturnSpins DEF Spin
<1>5. CASE Quiet /\ End("error")
  BY <1>5, EndSpins DEF Spin
<1> DEFINE up == [top EXCEPT !.op = "(", !.kids = <<>>, !.todo = <<"expression", ")">>]
           on == [top EXCEPT !.op = NONE, !.kids = <<>>, !.todo = <<"expression">>]
<1>6. CASE Quiet /\ Then(1, "(", <<>>, <<"expression", ")">>)
  <2>1. up.fn = top.fn /\ up.op = "(" /\ up.todo # <<>> /\ Head(up.todo) = "expression"
    BY <1>1 DEF Activation
  <2>2. Go(1, up)
    BY <1>6 DEF Then
  <2> HIDE DEF up
  <2> QED BY <1>1, <1>6, <2>1, <2>2, StaysQuiet DEF Spin
<1>7. CASE /\ top.kids = <<>> /\ get_token \notin {EOT, "("} \cup Literals \cup Idents
           /\ Then(0, NONE, <<>>, <<"expression">>)
  <2>1. /\ on.fn = top.fn /\ on.op = NONE /\ on.kids = <<>> /\ on.todo = <<"expression">>
        /\ on.start = top.start
    BY <1>1 DEF Activation
  <2>2. Go(0, on)
    BY <1>7 DEF Then
  <2> HIDE DEF on
  <2>3. Token(pos) \notin Prefixes
    <3>1. Seen(top.fn, top.start) /\ top.start = pos
      BY <1>1, <1>2, <1>7, Decides
    <3> QED BY <3>1, <1>1 DEF Seen, Operand
  <2>4. Token(pos) # EOT /\ Stuck(pos)
    <3>1. pos \in Nat /\ Len(tokens) \in Nat
      BY <1>1, LenTokens DEF Shape
    <3> QED BY <3>1, <1>1, <1>7, <2>3 DEF Token, Stuck, Beginnings
  <2>5. "factor" \in Endless /\ "expression" \in Endless
    BY DEF Endless, Infix
  <2> QED BY <1>1, <1>2, <1>7, <2>1, <2>2, <2>4, <2>5, GoSpins
<1>8. CASE Quiet
  BY <1>1, <1>4, <1>5, <1>6, <1>7, <1>8 DEF factor
<1>9. CASE ~Quiet
  <2>1. top.kids = <<>> /\ Stuck(pos) /\ Token(pos) # EOT
    BY <1>1, <1>3, <1>9 DEF Quiet, Fresh
  <2>2. get_token \notin {EOT, "("} \cup Literals \cup Idents
    BY <1>1, <2>1 DEF Stuck, Token, Beginnings
  <2> QED BY <1>7, <2>1, <2>2 DEF factor
<1> QED BY <1>8, <1>9

\* Where one waits, there are calls to be made, and prefix_op() and factor() to
\* look for an operand.
LEMMA WaitingSteps ==
  ASSUME Inv, Spin, ~Quiet, Next
  PROVE  Invoke \/ factor \/ (prefix_op /\ Spin')
<1>1. PICK k \in DOMAIN calls : Waiting(k)
  BY DEF Quiet
<1>2. /\ calls # <<>> /\ Shape /\ DOMAIN calls = 1 .. Len(calls) /\ Len(calls) \in Nat
      /\ top = calls[Len(calls)] /\ Activation(top)
  <2>1. calls # <<>> /\ Shape
    BY <1>1 DEF Inv
  <2> QED BY <2>1, Stack
<1>3. Len(calls) \in k .. Len(calls)
  BY <1>1, <1>2
<1>4. /\ top.fn \in Endless /\ top.start = pos /\ top.op = NONE /\ top.kids = <<>>
      /\ IF top.todo = <<>> THEN top.fn \in {"prefix_op", "factor"}
         ELSE Head(top.todo) \in Endless
      /\ Stuck(pos) /\ Token(pos) # EOT
  BY <1>1, <1>2, <1>3 DEF Spin, Spinning, Fresh
<1>5. CASE top.todo # <<>>
  <2>1. Head(top.todo) \in Functions
    BY <1>4, <1>5, EndlessCalls
  <2> QED BY <1>5, <2>1
       DEF Next, Expect, InfixLevel, prefix_op, PrefixDone, callexpr, postfix_op, factor,
           statement, StatementDone, parse_if, compound, statements, Pointer, ArrayDecl,
           vardecl, Declared, Initialiser, paramtype, paramtype_list, toplevel, Declaration,
           Body, ToplevelDone, main, In
<1>6. CASE top.todo = <<>> /\ top.fn = "factor"
  <2>1. "factor" \notin DOMAIN Infix /\ top.op \notin {"pointer", "array"}
    BY <1>4 DEF Infix, NONE
  <2> QED BY <1>6, <2>1
       DEF Next, Expect, InfixLevel, prefix_op, PrefixDone, callexpr, postfix_op,
           statement, StatementDone, parse_if, compound, statements, Pointer, ArrayDecl,
           vardecl, Declared, Initialiser, paramtype, paramtype_list, toplevel, Declaration,
           Body, ToplevelDone, main, In, Invoke
<1>7. CASE top.todo = <<>> /\ top.fn = "prefix_op"
  <2>1. "prefix_op" \notin DOMAIN Infix /\ top.op \notin {"pointer", "array"}
    BY <1>4 DEF Infix, NONE
  <2>2. prefix_op
    BY <1>4, <1>7, <2>1
       DEF Next, Expect, InfixLevel, PrefixDone, callexpr, postfix_op, factor,
           statement, StatementDone, parse_if, compound, statements, Pointer, ArrayDecl,
           vardecl, Declared, Initialiser, paramtype, paramtype_list, toplevel, Declaration,
           Body, ToplevelDone, main, In, Invoke
  <2>3. get_token \notin Prefixes /\ get_token # "sizeof"
    <3>1. get_token \notin Beginnings
      <4>1. pos \in Nat /\ Len(tokens) \in Nat
        BY <1>2, LenTokens DEF Shape
      <4> QED BY <4>1, <1>4 DEF get_token, Peek, Stuck
    <3> QED BY <3>1 DEF Beginnings, Idents, Keywords
  <2> DEFINE on == [top EXCEPT !.op = NONE, !.kids = <<>>, !.todo = <<"postfix_op">>]
  <2>4. /\ on.fn = top.fn /\ on.op = NONE /\ on.kids = <<>> /\ on.todo = <<"postfix_op">>
        /\ on.start = top.start
    BY <1>2 DEF Activation
  <2>5. Go(0, on) /\ Parsing
    BY <2>2, <2>3 DEF prefix_op, Then, In
  <2> HIDE DEF on
  <2>6. "prefix_op" \in Endless /\ "postfix_op" \in Endless
    BY DEF Endless
  <2> QED BY <1>4, <1>7, <2>2, <2>4, <2>5, <2>6, GoSpins
<1> QED BY <1>4, <1>5, <1>6, <1>7

LEMMA ExpectSpins ==
  ASSUME Inv, Progress, Factors, Quiet, Expect
  PROVE  Spin'
<1>1. /\ Parsing /\ top.todo # <<>> /\ Head(top.todo) \notin Functions
      /\ Activation(top) /\ Len(calls) \in DOMAIN calls /\ top = calls[Len(calls)]
  <2>1. Parsing /\ top.todo # <<>> /\ Head(top.todo) \notin Functions
    BY DEF Expect
  <2>2. calls # <<>> /\ Shape
    BY <2>1 DEF Inv, Shape, Parsing
  <2> QED BY <2>1, <2>2, Stack
<1>2. CASE End("error")
  BY <1>2, EndSpins
<1>3. CASE Go(1, [top EXCEPT !.todo = Tail(@)])
  <2> DEFINE f == [top EXCEPT !.todo = Tail(@)]
  <2>1. f.fn = top.fn /\ f.op = top.op /\ f.kids = top.kids
    BY <1>1 DEF Activation
  <2>2. top.fn = "factor" => top.op \in {NONE, "("} /\ top.kids # <<>>
    <3> SUFFICES ASSUME top.fn = "factor"
                 PROVE  top.op \in {NONE, "("} /\ top.kids # <<>>
      OBVIOUS
    <3>1. "expression" \in Functions
      BY FunctionSet
    <3>2. Head(top.todo) # "expression" /\ top.todo # <<"expression">>
      BY <1>1, <3>1
    <3> QED BY <1>1, <3>2 DEF Factors
  <2>3. Go(1, f)
    BY <1>3
  <2> HIDE DEF f
  <2> QED BY <1>1, <2>1, <2>2, <2>3, StaysQuiet
<1> QED BY <1>2, <1>3 DEF Expect

LEMMA SpinHolds ==
  ASSUME Inv, Progress, Spin, [Next]_vars
  PROVE  Spin'
<1>1. CASE UNCHANGED vars
  BY <1>1 DEF vars, Spin, Spinning, Factors, Waiting, Turned, Fresh, Stuck, Token
<1>2. CASE Invoke \/ factor
  BY <1>2, InvokeSpins, factorSpins
<1>3. CASE ~Quiet /\ Next
  BY <1>2, <1>3, WaitingSteps
<1>4. CASE Quiet /\ Expect
  BY <1>4, ExpectSpins DEF Spin
<1>5. CASE Quiet /\ Next /\ ~(Invoke \/ factor \/ Expect)
  <2>1. Moves
    BY <1>5, OthersMove DEF Spin, Next
  <2>2. Parsing
    BY <1>5 DEF Next, InfixLevel, prefix_op, PrefixDone, callexpr, postfix_op, statement,
       StatementDone, parse_if, compound, statements, Pointer, ArrayDecl, vardecl, Declared,
       Initialiser, paramtype, paramtype_list, toplevel, Declaration, Body, ToplevelDone,
       main, In
  <2> QED BY <1>5, <2>1, <2>2, MovesSpin DEF Spin
<1> QED BY <1>1, <1>2, <1>3, <1>4, <1>5

\* For all texts: a function of parser.c is called again, directly or through others,
\* only after a token has been read.  There is one way round without one, from factor()
\* to expression() where no operand begins (parser.c:321), and then the parser is still
\* on it: no function has returned and nothing has been read since.
THEOREM RecursionIsBounded == Spec => []RecursionConsumes
<1>1. Init => Inv /\ Progress /\ Spin
  BY ProgressHolds, SpinsInitially
<1>2. Inv /\ Progress /\ Spin /\ [Next]_vars => (Inv /\ Progress /\ Spin)'
  BY ProgressHolds, SpinHolds
<1>3. Inv /\ Progress /\ Spin => RecursionConsumes
  <2> SUFFICES ASSUME Inv, Spin, NEW i \in DOMAIN calls, NEW j \in DOMAIN calls, i < j,
                      calls[i].fn = calls[j].fn, calls[i].start = calls[j].start
               PROVE  /\ pos < Len(tokens) /\ tokens[pos + 1] \notin Beginnings
                      /\ calls[i].start = pos
                      /\ phase \in {"parsing", "overflow"}
    BY DEF RecursionConsumes
  <2>1. DOMAIN calls = 1 .. Len(calls) /\ Len(calls) \in Nat
    BY DEF Inv, Shape
  <2>2. calls[i].fn \in Functions /\ calls[i].start \in Nat
    BY DEF Inv, Shape, Activation
  <2>3. PICK k \in i .. j - 1 : Turned(calls[k])
    <3>1. Rank[calls[i].fn] < Rank[calls[j].fn] \/ \E k \in i .. j - 1 : Turned(calls[k])
      BY DEF Inv, Ascending
    <3> QED BY <3>1, <2>2, RankType
  <2>4. k \in DOMAIN calls /\ k < Len(calls) /\ k \in k .. Len(calls) /\ (i = k \/ i < k)
        /\ (k = j \/ k < j) /\ j \in k .. Len(calls)
    BY <2>1, <2>3
  <2>5. Waiting(k)
    BY <2>3, <2>4 DEF Waiting
  <2>6. Stuck(pos) /\ phase \in {"parsing", "overflow"} /\ calls[j].start = pos
    BY <2>4, <2>5 DEF Spin, Spinning, Fresh
  <2> QED BY <2>6 DEF Stuck
<1> QED BY <1>1, <1>2, <1>3, PTL DEF Spec
=============================================================================
