------------------------------- MODULE MCLexer -------------------------------
(***************************************************************************)
(* The lexer over small texts, against tokens as the C standard defines    *)
(* them: a text is cut into the longest lexemes, comments become blanks,   *)
(* lines that begin with # are directives.  The reference speaks only of   *)
(* texts that C accepts and that use what this compiler implements.        *)
(***************************************************************************)
EXTENDS Lexer, FiniteSets

MCLetters == {"a", "n", "A", "include", "define"}

MCCode == "a" :> 97 @@ "n" :> 110 @@ "\"" :> 34 @@ "'" :> 39 @@ "\\" :> 92
          @@ "0" :> 48 @@ "1" :> 49 @@ "A" :> 65 @@ "+" :> 43 @@ "/" :> 47
          @@ " " :> 32 @@ NL :> 10 @@ NUL :> 0 @@ EOF :> -1
          @@ "=" :> 61 @@ "*" :> 42 @@ "#" :> 35 @@ "<" :> 60 @@ ">" :> 62

MCChars == MCLetters \cup DOMAIN MCCode \cup DOMAIN Plain \cup DOMAIN Lone \cup {"|", XFF}

TextsOver(S, n) == UNION {[1 .. k -> S] : k \in 0 .. n}

\* Texts where operators and comments meet.
OperatorTexts == TextsOver({"a", "1", "+", "=", "/", "*", " ", NL}, 5)
                 \cup TextsOver({"a", "/", "*"}, 6)
                 \cup TextsOver({"a", "-", ">", "&", "|", "!", "<", ".", XFF}, 3)

\* Texts where literals and escapes meet.
LiteralTexts == TextsOver({"\"", "'", "\\", "n", "/", "0"}, 5)

NoDefs == [n \in {} |-> <<>>]

\* Lines of a source file and the headers they include.
Lines ==
  { <<"#", "define", " ", "A", NL>>,
    <<"#", "define", " ", "A", " ", "1", "+", NL>>,
    <<"#", "define", " ", "A", " ", "1", "/", "*", NL, "*", "/", " ", "a">>,
    <<"#", "include", " ", "\"", "a", "\"", NL>>,
    <<"#", " ", "include", "<", "a", ">">>,
    <<"#", "include", "\"", "n", "\"", NL>>,
    <<"A", " ", "a", NL>>,
    <<"a", "/", "/", "A", NL>>,
    <<"A">>,
    <<"+">>,
    <<"#", "a">>,
    <<"/", "*">>,
    <<NL>> }

Directives == {a \o b \o d : a, b, d \in Lines \cup {<<>>}}

LexerTexts == OperatorTexts \cup LiteralTexts \cup Directives

\* "a" uses A and defines it, include/a includes "a", "n" includes itself.
Headers ==
  <<"a">> :> <<"A", NL, "#", "define", " ", "A", " ", "n">>
  @@ <<"include", "/", "a">> :> <<"#", "include", "\"", "a", "\"", NL, "A">>
  @@ <<"n">> :> <<"1", NL, "#", "include", "\"", "n", "\"", NL>>

-----------------------------------------------------------------------------
(* The reference.                                                          *)

Blank(w) == w = <<" ">>

\* C's operators of several characters; not all of them are implemented.
CPairs == DOMAIN Pair \cup {<<"-", "-">>, <<"-", "=">>, <<"/", "=">>, <<"%", "=">>,
            <<"&", "=">>, <<"|", "=">>, <<"<", "<">>, <<">", ">">>}

CTriples == {<<"<", "<", "=">>, <<">", ">", "=">>, <<".", ".", ".">>}

Punctuator(w) ==
  \/ Len(w) = 1 /\ w[1] \in DOMAIN Plain \cup DOMAIN Lone \cup {"|"}
  \/ w \in CPairs \cup CTriples

Identifier(w) == w[1] \in Letters /\ \A i \in DOMAIN w : w[i] \in Letters \cup Digits

\* A preprocessing number: only those that are plain integers are implemented.
Number(w) ==
  /\ w[1] \in Digits \/ (Len(w) > 1 /\ w[1] = "." /\ w[2] \in Digits)
  /\ \A i \in DOMAIN w : w[i] \in Letters \cup Digits \cup {"."}

\* Position i of w is the second character of an escape that begins after `from'.
RECURSIVE Escaped(_, _, _)
Escaped(w, from, i) == i - 1 > from /\ w[i - 1] = "\\" /\ ~Escaped(w, from, i - 1)

Delimited(w, q) ==
  /\ Len(w) > 1 /\ w[1] = q /\ w[Len(w)] = q
  /\ ~Escaped(w, 1, Len(w))
  /\ \A i \in 2 .. Len(w) - 1 : w[i] # NL /\ (w[i] = q => Escaped(w, 1, i))

LineNote(w) == Len(w) > 1 /\ w[1] = "/" /\ w[2] = "/" /\ \A i \in DOMAIN w : w[i] # NL

BlockNote(w) ==
  /\ Len(w) > 3 /\ w[1] = "/" /\ w[2] = "*"
  /\ \A i \in 3 .. Len(w) - 1 : w[i] = "*" /\ w[i + 1] = "/" <=> i = Len(w) - 1

Lexeme(w) ==
  \/ Punctuator(w) \/ Identifier(w) \/ Number(w)
  \/ Delimited(w, "\"") \/ Delimited(w, "'")
  \/ LineNote(w) \/ BlockNote(w)
  \/ w \in {<<" ">>, <<NL>>, <<"#">>}

\* The text cut into the longest lexemes; <<>> among them: it cannot be cut.
RECURSIVE Cut(_)
Cut(s) ==
  IF s = <<>> THEN <<>>
  ELSE LET ends == {i \in DOMAIN s : Lexeme(SubSeq(s, 1, i))}
           end  == CHOOSE i \in ends : \A j \in ends : j <= i
       IN  IF ends = {} THEN <<<<>>>>
           ELSE <<SubSeq(s, 1, end)>> \o Cut(SubSeq(s, end + 1, Len(s)))

\* An open block comment is an error in C, whatever it could be cut into.
WellCut(ws) ==
  /\ \A i \in DOMAIN ws : ws[i] # <<>>
  /\ \A i \in 2 .. Len(ws) : ~(ws[i - 1] = <<"/">> /\ ws[i][1] = "*")

Note(w) == Len(w) > 1 /\ (LineNote(w) \/ BlockNote(w))

Visible(ws) == SelectSeq(ws, LAMBDA w : ~Blank(w) /\ ~Note(w))

EscapeValue == "0" :> 0 @@ "n" :> 10 @@ "\\" :> 92 @@ "'" :> 39 @@ "\"" :> 34

Supported(w) ==
  \/ Identifier(w)
  \/ Number(w) /\ (\A i \in DOMAIN w : w[i] \in Digits) /\ (w[1] = "0" => Len(w) = 1)
  \/ Delimited(w, "\"")
  \/ Delimited(w, "'") /\ Len(w) = 3
  \/ Delimited(w, "'") /\ Len(w) = 4 /\ w[2] = "\\" /\ w[3] \in DOMAIN EscapeValue
  \/ Len(w) = 1 /\ w[1] \in DOMAIN Plain \cup DOMAIN Lone
  \/ w \in DOMAIN Pair

TokenOf(w) ==
  IF Identifier(w) THEN Spelt("IDENT", w)
  ELSE IF Number(w) THEN IntLit(atoi(w))
  ELSE IF Delimited(w, "\"") THEN Spelt("STRLIT", SubSeq(w, 2, Len(w) - 1))
  ELSE IF Delimited(w, "'")
       THEN IntLit(IF Len(w) = 3 THEN Code[w[2]] ELSE EscapeValue[w[3]])
  ELSE IF Len(w) = 1 THEN Token((Plain @@ Lone)[w[1]])
  ELSE Token(Pair[w])

RECURSIVE Expand(_, _)
Expand(ws, defs) ==
  IF ws = <<>> THEN <<>>
  ELSE (IF Head(ws) \in DOMAIN defs THEN defs[Head(ws)] ELSE <<TokenOf(Head(ws))>>)
       \o Expand(Tail(ws), defs)

Bad == [ok |-> FALSE, toks |-> <<>>, defs |-> NoDefs]

\* The name that an include line gives, <<>> if there is none.  A path in angle
\* brackets is cut into lexemes here like anything else.
Included(ws) ==
  IF Len(ws) = 1 /\ Delimited(ws[1], "\"") THEN SubSeq(ws[1], 2, Len(ws[1]) - 1)
  ELSE IF Len(ws) = 3 /\ ws[1] = <<"<">> /\ ws[3] = <<">">>
       THEN <<"include", "/">> \o ws[2]
  ELSE <<>>

\* The lexemes of a text, line by line: r is what the lines before have given,
\* depth the number of files open.
RECURSIVE Read(_, _, _)
Read(ws, r, depth) ==
  LET ends == {i \in DOMAIN ws : ws[i] = <<NL>>}
      last == IF ends = {} THEN Len(ws) + 1
              ELSE CHOOSE i \in ends : \A j \in ends : i <= j
      line == SubSeq(ws, 1, last - 1)
      rest == SubSeq(ws, last + 1, Len(ws))
      v    == Visible(line)
      plain == \A i \in DOMAIN v : Supported(v[i])
      args == SubSeq(v, 3, Len(v))
  IN  IF ws = <<>> \/ ~r.ok THEN r
      ELSE IF v = <<>> \/ v[1] # <<"#">>
      THEN IF plain THEN Read(rest, [r EXCEPT !.toks = @ \o Expand(v, r.defs)], depth)
           ELSE Bad
      ELSE IF Len(v) > 1 /\ v[2] = <<"include">> /\ Included(args) \in DOMAIN Files
              /\ depth < MaxOpen
      THEN LET in == Cut(Files[Included(args)])
           IN  IF WellCut(in) THEN Read(rest, Read(in, r, depth + 1), depth) ELSE Bad
      ELSE IF /\ Len(v) > 2 /\ v[2] = <<"define">> /\ Identifier(v[3])
              /\ v[3] \notin DOMAIN r.defs
              /\ \A i \in 4 .. Len(v) : Supported(v[i]) /\ v[i] # v[3]
              /\ ~\E i \in DOMAIN line : Note(line[i]) /\ LineNote(line[i])
      THEN Read(rest, [r EXCEPT !.defs = v[3] :> Expand(SubSeq(v, 4, Len(v)), r.defs) @@ @],
                depth)
      ELSE Bad

Reference(s) ==
  LET ws == Cut(s)
  IN  IF WellCut(ws) THEN Read(ws, [ok |-> TRUE, toks |-> <<>>, defs |-> NoDefs], 1)
      ELSE Bad

\* Some name, number or literal does not fit its buffer.
TooLong(ws) == \E i \in DOMAIN ws : ~Note(ws[i]) /\ Len(ws[i]) >= NameBuf

-----------------------------------------------------------------------------
\* The tokens of a text that C accepts are the C standard's: longest match,
\* comments, escapes, includes and definitions whatever they are next to.
TokensAsInC ==
  at = "done" => LET r == Reference(stdin) IN r.ok => out[1] = r.toks

\* The lexer gives up only on what C does not accept, on what is not
\* implemented, and on what is too long for its buffers.
ErrorsJustified == at = "error" => ~Reference(stdin).ok \/ TooLong(Cut(stdin))
=============================================================================
