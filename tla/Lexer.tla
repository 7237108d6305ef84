-------------------------------- MODULE Lexer --------------------------------
(***************************************************************************)
(* lexer.c: from characters to tokens, with #include and #define.          *)
(*                                                                         *)
(* An action is one character: a call of getc() with what the code does    *)
(* about it, the ungetc() included.  Three functions call each other:      *)
(* lexer() calls single_token_lexer() until a file ends, a #define calls   *)
(* it until the line ends, and an #include calls lexer() on another file.  *)
(* Their activations are in `loops', each with a history of the file that  *)
(* was in `input' at the call; the files that are open are in `open', the  *)
(* one in `input' last.  What the function at work is about to read is in  *)
(* `at', what it has read so far in `buf'.                                 *)
(*                                                                         *)
(* A member of Letters may stand for a run of letters, so that "include"   *)
(* is one character of a model.                                            *)
(***************************************************************************)
EXTENDS Integers, Sequences, TLC

EOF  == "EOF"    \* what getc() returns at the end of a file
XFF  == "xff"    \* the character 0xFF, -1 in a char as EOF is
NL   == "newline"
NUL  == "nul"

CONSTANTS
  Chars,     \* the characters of a text
  Sources,   \* texts that may be on standard input
  Files,     \* the text fopen() finds under a name
  Letters,   \* what isident() accepts
  Code,      \* the value of a character
  NameBuf,   \* size of identbuf and digitbuf
  StrBuf,    \* size of strbuf
  MaxOpen    \* files the system lets the process have open

ASSUME SizesAssumption == {NameBuf, StrBuf, MaxOpen} \subseteq Nat \ {0}

ASSUME TextsAssumption == /\ \A s \in Sources : s \in Seq(Chars)
                          /\ \A n \in DOMAIN Files : Files[n] \in Seq(Chars)

\* isident() accepts letters and the underscore.
ASSUME LettersAssumption == Letters \cap {EOF, " "} = {}

VARIABLES
  stdin,      \* the text on standard input
  open,       \* the files being read: name and number of characters read
  loops,      \* activations of lexer() ("file") and of a #define ("define")
  out,        \* the vector of tokens that each of them fills
  definemap,  \* what the #defined names stand for
  at, buf,    \* what is read next, and the characters read for it
  flag        \* inesc of read_strlit(), inasterisk of a block comment, or that
              \* skip_spaces() has returned

vars == <<stdin, open, loops, out, definemap, at, buf, flag>>

Digits  == {"0", "1", "2", "3", "4", "5", "6", "7", "8", "9"}
DigitOf == [d \in Digits |-> CHOOSE n \in 0 .. 9 : ToString(n) = d]

\* Tokens of one character whatever follows.
Plain ==
  [x \in {"%", ".", ",", ";", "(", ")", "[", "]", "{", "}"} |->
    CASE x = "%" -> "MOD"      [] x = "." -> "DOT"    [] x = "," -> "COMMA"
      [] x = ";" -> "SEMICOLON"
      [] x = "(" -> "LPAREN"   [] x = ")" -> "RPAREN"
      [] x = "[" -> "LBRACKET" [] x = "]" -> "RBRACKET"
      [] x = "{" -> "LBRACE"   [] x = "}" -> "RBRACE"]

\* Tokens of one character unless the next one makes a pair with it.
Lone ==
  [x \in {"+", "-", "*", "/", "<", ">", "&", "=", "!"} |->
    CASE x = "+" -> "ADD"    [] x = "-" -> "SUB"     [] x = "*" -> "MUL" [] x = "/" -> "DIV"
      [] x = "<" -> "LESSER" [] x = ">" -> "GREATER" [] x = "&" -> "AND"
      [] x = "=" -> "ASSIGN" [] x = "!" -> "NOT"]

Pair ==
  <<"+", "+">> :> "INC" @@ <<"+", "=">> :> "ADDASSIGN" @@ <<"-", ">">> :> "ALLOW"
  @@ <<"*", "=">> :> "MULASSIGN" @@ <<"<", "=">> :> "LESSEREQ"
  @@ <<">", "=">> :> "GREATEREQ" @@ <<"|", "|">> :> "LOR"
  @@ <<"&", "&">> :> "LAND" @@ <<"=", "=">> :> "EQ" @@ <<"!", "=">> :> "NOTEQ"

Comments == {<<"/", "/">>, <<"/", "*">>}

Token(kind)  == [kind |-> kind, intval |-> 0, text |-> <<>>]
IntLit(n)    == [kind |-> "INTLIT", intval |-> n, text |-> <<>>]
Spelt(kind, s) == [kind |-> kind, intval |-> 0, text |-> s]

\* The number that a sequence of digits denotes.
atoi(s) ==
  LET n[i \in 0 .. Len(s)] == IF i = 0 THEN 0 ELSE 10 * n[i - 1] + DigitOf[s[i]]
  IN  n[Len(s)]

-----------------------------------------------------------------------------
input == open[Len(open)]
loop  == loops[Len(loops)]

Text(name) == IF name = <<"stdin">> THEN stdin ELSE Files[name]

AtEnd == input.pos = Len(Text(input.name))

raw == Text(input.name)[input.pos + 1]

\* What `char c = getc(input)' leaves in c.
c == IF AtEnd \/ raw = XFF THEN EOF ELSE raw

Advanced == [open EXCEPT ![Len(open)].pos = @ + 1]

\* The character has been read for good; at the end there is none.
Consume == open' = IF AtEnd THEN open ELSE Advanced

\* The character is pushed back; ungetc() ignores one that equals EOF.
Unread == open' = IF ~AtEnd /\ raw = XFF THEN Advanced ELSE open

\* Where the loop that single_token_lexer() returns to reads on.
Resume(l) == IF l.kind = "define" THEN "body" ELSE "token"

Keep == UNCHANGED <<stdin, definemap>>

\* The function at work goes on with `where', having collected s.
Reading(where, s, f) ==
  /\ at' = where
  /\ buf' = s
  /\ flag' = f
  /\ UNCHANGED <<loops, out>>
  /\ Keep

Goto(where, s) == Reading(where, s, FALSE)

\* single_token_lexer() returns after pushing the tokens ts.
Push(ts) ==
  /\ out' = [out EXCEPT ![Len(out)] = @ \o ts]
  /\ UNCHANGED loops
  /\ at' = Resume(loop)
  /\ buf' = <<>>
  /\ flag' = FALSE
  /\ Keep

\* error(), a failed assertion, exit(1)
Fail == Goto("error", <<>>) /\ UNCHANGED open

-----------------------------------------------------------------------------
\* single_token_lexer() on the first character of what may be a token.

Skip == at = "token" /\ c \in {" ", NL} /\ Consume /\ Push(<<>>)

PlainToken == at = "token" /\ c \in DOMAIN Plain /\ Consume /\ Push(<<Token(Plain[c])>>)

Start ==
  /\ at = "token"
  /\ Consume
  /\ \/ c \in Digits /\ Goto("digits", <<c>>)
     \/ c = "#" /\ Goto("prename", <<>>)
     \/ c = "\"" /\ Goto("strlit", <<>>)
     \/ c = "'" /\ Goto("char", <<>>)
     \/ c \in DOMAIN Lone \cup {"|"} /\ Goto("op", <<c>>)

StartIdent == at = "token" /\ c \in Letters /\ Unread /\ Goto("ident", <<>>)

Unexpected ==
  /\ at = "token"
  /\ c \notin Digits \cup Letters \cup DOMAIN Plain \cup DOMAIN Lone
              \cup {" ", NL, EOF, "#", "\"", "'", "|"}
  /\ Fail

\* A token that a second character decides.
PairToken ==
  /\ at = "op"
  /\ <<buf[1], c>> \in DOMAIN Pair
  /\ Consume
  /\ Push(<<Token(Pair[<<buf[1], c>>])>>)

LoneToken ==
  /\ at = "op"
  /\ <<buf[1], c>> \notin DOMAIN Pair \cup Comments
  /\ buf[1] \in DOMAIN Lone
  /\ Unread
  /\ Push(<<Token(Lone[buf[1]])>>)

LoneBar == at = "op" /\ buf[1] = "|" /\ c # "|" /\ Fail

StartComment ==
  /\ at = "op"
  /\ <<buf[1], c>> \in Comments
  /\ Consume
  /\ Goto(IF c = "/" THEN "line" ELSE "block", <<>>)

LineComment ==
  /\ at = "line"
  /\ Consume
  /\ IF c \in {EOF, NL} THEN Push(<<>>) ELSE Goto("line", <<>>)

\* Mutant: the end of the file does not end the comment.
BlockCommentNoEof ==
  /\ at = "block"
  /\ Consume
  /\ IF flag /\ c = "/"
     THEN Push(<<>>)
     ELSE Reading("block", <<>>, c = "*")

\* Mutant: an asterisk after an asterisk is not taken for the end's.
BlockCommentTwoStars ==
  /\ at = "block"
  /\ Consume
  /\ IF c = EOF \/ (flag /\ c = "/")
     THEN Push(<<>>)
     ELSE Reading("block", <<>>, c = "*" /\ ~flag)

BlockComment ==
  /\ at = "block"
  /\ Consume
  /\ IF c = EOF \/ (flag /\ c = "/")
     THEN Push(<<>>)
     ELSE Reading("block", <<>>, c = "*")

-----------------------------------------------------------------------------
IntLiteral ==
  /\ at = "digits"
  /\ IF Len(buf) >= NameBuf THEN Fail
     ELSE IF c \in Digits THEN Consume /\ Goto("digits", Append(buf, c))
     ELSE Unread /\ Push(<<IntLit(atoi(buf))>>)

\* A character literal: '\0' and '\n' have a value of their own, any other
\* escaped character stands for itself.
CharStart ==
  /\ at = "char"
  /\ Consume
  /\ IF c = "\\" THEN Goto("charesc", <<>>) ELSE Goto("charend", <<c>>)

CharEscape ==
  /\ at = "charesc"
  /\ Consume
  /\ Goto("charend", <<IF c = "0" THEN NUL ELSE IF c = "n" THEN NL ELSE c>>)

CharEnd ==
  /\ at = "charend"
  /\ IF c = "'" THEN Consume /\ Push(<<IntLit(Code[buf[1]])>>) ELSE Fail

\* read_strlit() and read_strlit_angled(), up to the character that ends the
\* literal.  An escape is kept as it is written.
Angled  == at = "angled" /\ flag
Quoted  == at \in {"strlit", "inclstr"}
InBytes == Len(buf) < StrBuf

\* Mutant: a backslash is not remembered.
ReadStringNoEscape ==
  /\ Quoted
  /\ InBytes
  /\ c \notin {"\"", EOF}
  /\ Consume
  /\ Goto(at, Append(buf, c))

ReadString ==
  /\ Quoted
  /\ InBytes
  /\ flag \/ c \notin {"\"", EOF}
  /\ Consume
  /\ \/ flag /\ Reading(at, buf \o <<"\\", c>>, FALSE)
     \/ ~flag /\ c = "\\" /\ Reading(at, buf, TRUE)
     \/ ~flag /\ c # "\\" /\ Reading(at, Append(buf, c), FALSE)

ReadAngled ==
  /\ Angled
  /\ InBytes
  /\ c \notin {">", EOF}
  /\ Consume
  /\ Reading(at, Append(buf, c), TRUE)

StringFails ==
  /\ Quoted \/ Angled
  /\ ~InBytes \/ (c = EOF /\ ~(Quoted /\ flag))
  /\ Fail

StrLit ==
  /\ at = "strlit"
  /\ InBytes
  /\ c = "\"" /\ ~flag
  /\ Consume
  /\ Push(<<Spelt("STRLIT", buf)>>)

-----------------------------------------------------------------------------
\* skip_spaces(), before a name and before each token of a definition.
SkipSpaces ==
  /\ at \in {"ident", "prename", "definename", "include", "angled", "body"}
  /\ ~flag
  /\ IF c = " " THEN Consume /\ Goto(at, buf) ELSE Unread /\ Reading(at, buf, TRUE)

\* The rest of read_ident(), for three callers.
Naming == at \in {"ident", "prename", "definename"} /\ flag

\* Mutant: the size of the buffer is not looked at.
ReadIdentNoLimit ==
  /\ Naming
  /\ c \in Letters \cup Digits
  /\ Consume
  /\ Reading(at, Append(buf, c), TRUE)

ReadIdent ==
  /\ Naming
  /\ Len(buf) < NameBuf
  /\ c \in Letters \cup Digits
  /\ Consume
  /\ Reading(at, Append(buf, c), TRUE)

IdentTooLong == Naming /\ Len(buf) >= NameBuf /\ Fail

NameRead == Naming /\ Len(buf) < NameBuf /\ c \notin Letters \cup Digits

Ident ==
  /\ at = "ident"
  /\ NameRead
  /\ Unread
  /\ Push(IF buf \in DOMAIN definemap THEN definemap[buf] ELSE <<Spelt("IDENT", buf)>>)

Preprocessor ==
  /\ at = "prename"
  /\ NameRead
  /\ \/ buf = <<"include">> /\ Unread /\ Goto("include", <<>>)
     \/ buf = <<"define">> /\ Unread /\ Goto("definename", <<>>)
     \/ buf \notin {<<"include">>, <<"define">>} /\ Fail

IncludeName ==
  /\ at = "include" /\ flag
  /\ \/ c = "\"" /\ Consume /\ Goto("inclstr", <<>>)
     \/ c = "<" /\ Consume /\ Goto("angled", <<>>)
     \/ c \notin {"\"", "<"} /\ Fail

\* Mutant: the file that is included is read from, but not made the input
\* of a lexer() of its own.
IncludeInPlace(name) ==
  IF name \in DOMAIN Files /\ Len(open) < MaxOpen
  THEN /\ open' = Append(SubSeq(Advanced, 1, Len(open) - 1), [name |-> name, pos |-> 0])
       /\ Goto("token", <<>>)
  ELSE Fail

\* The rest of #include: lexer() is called on the file, if it can be opened.
Include(name) ==
  IF name \in DOMAIN Files /\ Len(open) < MaxOpen
  THEN /\ open' = Append(Advanced, [name |-> name, pos |-> 0])
       /\ loops' = Append(loops, [kind |-> "file", name |-> name,
                                  input |-> name, depth |-> Len(open) + 1])
       /\ out' = Append(out, <<>>)
       /\ at' = "token"
       /\ buf' = <<>>
       /\ flag' = FALSE
       /\ Keep
  ELSE Fail

IncludeQuoted == at = "inclstr" /\ InBytes /\ c = "\"" /\ ~flag /\ Include(buf)

IncludeAngled ==
  /\ Angled
  /\ InBytes
  /\ c = ">"
  /\ Include(<<"include", "/">> \o buf)

StartDefine ==
  /\ at = "definename"
  /\ NameRead
  /\ Unread
  /\ loops' = Append(loops, [kind |-> "define", name |-> buf,
                             input |-> input.name, depth |-> Len(open)])
  /\ out' = Append(out, <<>>)
  /\ at' = "body"
  /\ buf' = <<>>
  /\ flag' = FALSE
  /\ Keep

\* A token of a definition begins, unless a newline ends the definition.
Body == at = "body" /\ flag /\ c # NL /\ Unread /\ Goto("token", <<>>)

Front(s) == SubSeq(s, 1, Len(s) - 1)

tokens == out[Len(out)]

\* The activation at work ends and the one around it goes on.
ReturnTo(outer) ==
  /\ loops' = outer
  /\ at' = Resume(outer[Len(outer)])
  /\ flag' = FALSE
  /\ UNCHANGED <<stdin, buf>>

EndDefine ==
  /\ loop.kind = "define"
  /\ \/ at = "body" /\ flag /\ c = NL
     \/ at = "token" /\ c = EOF
  /\ Consume
  /\ definemap' = loop.name :> tokens @@ definemap
  /\ out' = Front(out)
  /\ ReturnTo(Front(loops))

\* lexer() returns to the #include: its tokens are copied, and input is again
\* the file that was read before.
EndInclude ==
  /\ at = "token" /\ c = EOF
  /\ loop.kind = "file"
  /\ Len(open) > 1
  /\ open' = Front(open)
  /\ out' = [Front(out) EXCEPT ![Len(out) - 1] = @ \o tokens]
  /\ ReturnTo(Front(loops))
  /\ UNCHANGED definemap

\* lexer() returns to main().
EndInput ==
  /\ at = "token" /\ c = EOF
  /\ loop.kind = "file"
  /\ Len(open) = 1
  /\ at' = "done"
  /\ UNCHANGED <<stdin, open, loops, out, definemap, buf, flag>>

-----------------------------------------------------------------------------
Init ==
  /\ stdin \in Sources
  /\ open = <<[name |-> <<"stdin">>, pos |-> 0]>>
  /\ loops = <<[kind |-> "file", name |-> <<"stdin">>,
               input |-> <<"stdin">>, depth |-> 1]>>
  /\ out = <<<<>>>>
  /\ definemap = [n \in {} |-> <<>>]
  /\ at = "token"
  /\ buf = <<>>
  /\ flag = FALSE

SingleToken == Skip \/ PlainToken \/ Start \/ StartIdent \/ Unexpected
               \/ PairToken \/ LoneToken \/ LoneBar
Comment     == StartComment \/ LineComment \/ BlockComment
Literal     == IntLiteral \/ CharStart \/ CharEscape \/ CharEnd
               \/ ReadString \/ ReadAngled \/ StringFails \/ StrLit
Name        == SkipSpaces \/ ReadIdent \/ IdentTooLong \/ Ident
Directive   == Preprocessor \/ IncludeName \/ IncludeQuoted \/ IncludeAngled
               \/ StartDefine \/ Body \/ EndDefine
Return      == EndInclude \/ EndInput

Next == SingleToken \/ Comment \/ Literal \/ Name \/ Directive \/ Return

Spec == Init /\ [][Next]_vars

\* The program is sequential: while it can take a step, it does.
FairSpec == Spec /\ WF_vars(Next)

-----------------------------------------------------------------------------
States == {"token", "op", "line", "block", "digits", "char", "charesc", "charend",
           "strlit", "ident", "prename", "include", "inclstr", "angled",
           "definename", "body", "done", "error"}

FileNames == {<<"stdin">>} \cup DOMAIN Files

\* What the buffers hold.
Spelling == Seq(Chars \cup {EOF, NL, NUL, "\\"})

Opened == [name : FileNames, pos : Nat]

Loop == [kind : {"file", "define"}, name : Spelling \cup FileNames,
         input : FileNames, depth : Nat]

\* The bytes of the buffer that the function at work fills.
Room(where) == IF where \in {"strlit", "inclstr", "angled"} THEN StrBuf ELSE NameBuf

\* What is read does not outgrow the buffer, the quoted literals left aside.
Fits(s, where) == where \in {"strlit", "inclstr"} \/ Len(s) <= Room(where)

\* The types of the variables.  Names, numbers and angled paths stay within
\* their buffers; of quoted literals LiteralsFit speaks.
TypeOK ==
  /\ stdin \in Sources
  /\ open \in Seq(Opened)
  /\ open # <<>> /\ Len(open) <= MaxOpen
  /\ \A i \in DOMAIN open : open[i].pos <= Len(Text(open[i].name))
  /\ loops \in Seq(Loop) /\ loops # <<>>
  /\ at \in States
  /\ buf \in Spelling /\ Fits(buf, at)
  /\ flag \in BOOLEAN

\* A quoted literal does not outgrow its buffer, as `assert(i < 1024)' is there
\* to see to.  An escape is stored as two characters after that one check, and
\* where the first of them takes the last byte, the second is written past it.
LiteralsFit == at \in {"strlit", "inclstr"} => Len(buf) <= Room(at)

\* `input' is a global that #include changes and restores by hand.  Whatever is
\* included in a file, a definition or an included file: the activation at work
\* reads the file that was in `input' when it was called, and so will all
\* others when it is their turn again.
InputRestored ==
  /\ loop.depth = Len(open)
  /\ \A k \in DOMAIN loops : open[loops[k].depth].name = loops[k].input

\* Every text is lexed in finitely many steps: no loop waits for a character
\* that the end of a file withholds, and a file that includes itself is
\* stopped by the number of files a process can open.
Terminates == <>(at \in {"done", "error"})
=============================================================================
