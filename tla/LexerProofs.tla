----------------------------- MODULE LexerProofs -----------------------------
(***************************************************************************)
(* The lexer's types, and that #include gives the input back.  Every step  *)
(* either moves within the files that are open (Moved), or opens or closes *)
(* one together with the activation that reads it.  And that the lexer     *)
(* cannot run for ever: every step lowers a measure, the characters that   *)
(* are left in the open files, the outermost first, and where none is read *)
(* what has been begun and the place in the step's loop.                   *)
(***************************************************************************)
EXTENDS Lexer, WellFoundedInduction, TLAPS

\* The step leaves all files open, and their names and limits as they are.
Moved ==
  /\ open' \in Seq(Opened)
  /\ Len(open') = Len(open)
  /\ \A i \in DOMAIN open : /\ open'[i].name = open[i].name
                            /\ open'[i].pos <= Len(Text(open[i].name))

LEMMA InputTypes ==
  ASSUME TypeOK
  PROVE  /\ Len(open) \in DOMAIN open /\ Len(loops) \in DOMAIN loops
         /\ DOMAIN open = 1 .. Len(open) /\ Len(open) \in Nat
         /\ DOMAIN loops = 1 .. Len(loops) /\ Len(loops) \in Nat
         /\ input \in Opened
         /\ Text(input.name) \in Seq(Chars)
         /\ input.pos <= Len(Text(input.name))
         /\ loop \in Loop
         /\ Resume(loop) \in {"body", "token"}
<1>1. /\ Len(open) \in DOMAIN open /\ Len(loops) \in DOMAIN loops
      /\ DOMAIN open = 1 .. Len(open) /\ Len(open) \in Nat
      /\ DOMAIN loops = 1 .. Len(loops) /\ Len(loops) \in Nat
  BY DEF TypeOK
<1>2. input \in Opened /\ loop \in Loop
  BY <1>1 DEF TypeOK, input, loop
<1>3. Text(input.name) \in Seq(Chars)
  BY <1>2, TextsAssumption DEF TypeOK, Opened, FileNames, Text
<1>4. input.pos <= Len(Text(input.name))
  BY <1>1 DEF TypeOK, input
<1> QED BY <1>1, <1>2, <1>3, <1>4 DEF Resume

LEMMA CharType ==
  ASSUME TypeOK
  PROVE  c \in Chars \cup {EOF}
<1>1. CASE AtEnd \/ raw = XFF
  BY <1>1 DEF c
<1>2. CASE ~AtEnd /\ raw # XFF
  <2>1. input.pos + 1 \in 1 .. Len(Text(input.name))
    BY <1>2, InputTypes DEF AtEnd, Opened
  <2> QED BY <2>1, <1>2, InputTypes DEF c, raw
<1> QED BY <1>1, <1>2

LEMMA Moves ==
  ASSUME TypeOK, Consume \/ Unread \/ UNCHANGED open
  PROVE  Moved
<1>1. CASE open' = open
  BY <1>1 DEF Moved, TypeOK
<1>2. CASE open' = Advanced /\ ~AtEnd
  <2>1. input.pos + 1 \in Nat /\ input.pos + 1 <= Len(Text(input.name))
    BY <1>2, InputTypes DEF AtEnd, Opened
  <2>2. /\ [input EXCEPT !.pos = @ + 1] \in Opened
        /\ [input EXCEPT !.pos = @ + 1].name = input.name
        /\ [input EXCEPT !.pos = @ + 1].pos = input.pos + 1
    BY <2>1, InputTypes DEF Opened
  <2>3. open' = [open EXCEPT ![Len(open)] = [input EXCEPT !.pos = @ + 1]]
    BY <1>2 DEF Advanced, input
  <2> QED BY <2>1, <2>2, <2>3, InputTypes DEF Moved, TypeOK, input
<1> QED BY <1>1, <1>2 DEF Consume, Unread

\* What a step that neither calls nor returns must show for TypeOK.
LEMMA Stays ==
  ASSUME TypeOK, Moved, UNCHANGED <<stdin, loops>>,
         at' \in States, buf' \in Spelling, Fits(buf', at'), flag' \in BOOLEAN
  PROVE  TypeOK'
<1>1. DOMAIN open' = DOMAIN open /\ open' # <<>>
  BY DEF TypeOK, Moved
<1> QED BY <1>1 DEF TypeOK, Moved, Text

LEMMA Buffers ==
  /\ <<>> \in Spelling /\ Len(<<>>) = 0
  /\ \A x \in Chars \cup {EOF, NL, NUL, "\\"} : <<x>> \in Spelling /\ Len(<<x>>) = 1
  /\ \A s \in Spelling : \A x \in Chars \cup {EOF} :
       /\ Append(s, x) \in Spelling /\ Len(Append(s, x)) = Len(s) + 1
       /\ s \o <<"\\", x>> \in Spelling /\ Len(s \o <<"\\", x>>) = Len(s) + 2
  /\ \A w \in States : /\ Room(w) \in Nat /\ Room(w) >= 1
                       /\ Fits(<<>>, w)
                       /\ \A x : Fits(<<x>>, w)
BY SizesAssumption DEF Spelling, Room, Fits

LEMMA PushStays ==
  ASSUME TypeOK, NEW ts, Push(ts), Consume \/ Unread \/ UNCHANGED open
  PROVE  TypeOK' /\ Moved /\ UNCHANGED loops
<1>1. Moved
  BY Moves
<1>2. /\ at' \in States /\ buf' = <<>> /\ flag' \in BOOLEAN
      /\ UNCHANGED <<stdin, loops>>
  BY InputTypes DEF Push, Keep, States
<1> QED BY <1>1, <1>2, Stays, Buffers

LEMMA FailStays == TypeOK /\ Fail => TypeOK' /\ Moved /\ UNCHANGED loops
<1> SUFFICES ASSUME TypeOK, Fail PROVE TypeOK' /\ Moved /\ UNCHANGED loops
  OBVIOUS
<1>1. Moved
  BY Moves DEF Fail
<1>2. /\ at' \in States /\ buf' = <<>> /\ flag' \in BOOLEAN
      /\ UNCHANGED <<stdin, loops>>
  BY DEF Fail, Goto, Reading, Keep, States
<1> QED BY <1>1, <1>2, Stays, Buffers

LEMMA ReadingStays ==
  ASSUME TypeOK, NEW w \in States, NEW s \in Spelling, NEW f \in BOOLEAN,
         Fits(s, w), Reading(w, s, f), Consume \/ Unread \/ UNCHANGED open
  PROVE  TypeOK' /\ Moved /\ UNCHANGED loops
<1>1. Moved
  BY Moves
<1>2. at' = w /\ buf' = s /\ flag' = f /\ UNCHANGED <<stdin, loops>>
  BY DEF Reading, Keep
<1> QED BY <1>1, <1>2, Stays

-----------------------------------------------------------------------------
\* The actions that neither call nor return.
PlainStep == SingleToken \/ Comment \/ Literal \/ Name \/ Preprocessor \/ IncludeName
             \/ Body \/ EndInput

LEMMA PlainStepStays ==
  ASSUME TypeOK, PlainStep
  PROVE  TypeOK' /\ Moved /\ UNCHANGED loops
<1> USE CharType, Buffers
<1>a. ASSUME Fail PROVE TypeOK' /\ Moved /\ UNCHANGED loops
  BY <1>a, FailStays
<1>b. ASSUME NEW ts, Push(ts), Consume \/ Unread
      PROVE  TypeOK' /\ Moved /\ UNCHANGED loops
  BY <1>b, PushStays
<1>c. ASSUME NEW w \in States, NEW s \in Spelling, NEW f \in BOOLEAN,
             Reading(w, s, f), Fits(s, w), Consume \/ Unread
      PROVE  TypeOK' /\ Moved /\ UNCHANGED loops
  BY <1>c, ReadingStays
<1>d. ASSUME NEW w \in States, Goto(w, <<>>), Consume \/ Unread
      PROVE  TypeOK' /\ Moved /\ UNCHANGED loops
  <2>1. <<>> \in Spelling /\ Fits(<<>>, w)
    BY Buffers
  <2>2. Reading(w, <<>>, FALSE)
    BY <1>d DEF Goto
  <2> QED BY <1>d, <2>1, <2>2, <1>c
<1>1. CASE Skip \/ PlainToken \/ PairToken \/ LoneToken \/ LineComment \/ StrLit \/ Ident
  <2>1. CASE LineComment
    BY <2>1, <1>b, <1>d DEF LineComment, States
  <2>2. CASE Skip \/ PlainToken \/ PairToken
    BY <2>2, <1>b DEF Skip, PlainToken, PairToken
  <2>3. CASE LoneToken \/ StrLit \/ Ident
    BY <2>3, <1>b DEF LoneToken, StrLit, Ident
  <2> QED BY <1>1, <2>1, <2>2, <2>3
<1>2. CASE Start
  <2>1. <<c>> \in Spelling /\ Fits(<<c>>, "digits") /\ Fits(<<c>>, "op")
    BY DEF States
  <2> QED BY <1>2, <2>1, <1>c, <1>d DEF Start, Goto, States
<1>3. CASE StartIdent \/ StartComment \/ Body \/ Preprocessor \/ IncludeName
  BY <1>3, <1>a, <1>d DEF StartIdent, StartComment, Body, Preprocessor, IncludeName, States
<1>4. CASE Unexpected \/ LoneBar \/ StringFails \/ IdentTooLong
  BY <1>4, <1>a DEF Unexpected, LoneBar, StringFails, IdentTooLong
<1>5. CASE BlockComment
  <2>1. Push(<<>>) \/ Reading("block", <<>>, c = "*")
    BY <1>5 DEF BlockComment
  <2>2. Consume /\ <<>> \in Spelling /\ Fits(<<>>, "block") /\ "block" \in States
    BY <1>5 DEF BlockComment, States
  <2>3. (c = "*") \in BOOLEAN
    OBVIOUS
  <2> QED BY <2>1, <2>2, <2>3, <1>b, <1>c
<1>6. CASE IntLiteral
  <2>1. CASE Len(buf) < NameBuf /\ c \in Digits
    <3>1. Append(buf, c) \in Spelling /\ Fits(Append(buf, c), "digits")
      BY <2>1, SizesAssumption DEF TypeOK, Spelling, Room, Fits
    <3>2. Goto("digits", Append(buf, c)) /\ Consume
      BY <1>6, <2>1, SizesAssumption DEF IntLiteral, TypeOK, Spelling
    <3> QED BY <3>1, <3>2, <1>c DEF Goto, States
  <2>2. CASE ~(Len(buf) < NameBuf /\ c \in Digits)
    <3>1. Fail \/ (Unread /\ Push(<<IntLit(atoi(buf))>>))
      BY <1>6, <2>2, SizesAssumption DEF IntLiteral, TypeOK, Spelling
    <3> QED BY <3>1, <1>a, <1>b
  <2> QED BY <2>1, <2>2
<1>7. CASE CharStart \/ CharEscape \/ CharEnd
  <2>1. \A x \in Chars \cup {EOF, NL, NUL, "\\"} :
          <<x>> \in Spelling /\ Fits(<<x>>, "charend")
    BY DEF States
  <2>2. CASE CharStart
    BY <2>1, <2>2, <1>c, <1>d DEF CharStart, Goto, States
  <2>3. CASE CharEscape
    <3> DEFINE x == IF c = "0" THEN NUL ELSE IF c = "n" THEN NL ELSE c
    <3>1. x \in Chars \cup {EOF, NL, NUL, "\\"}
      OBVIOUS
    <3>2. Goto("charend", <<x>>) /\ Consume
      BY <2>3 DEF CharEscape
    <3> HIDE DEF x
    <3> QED BY <3>1, <3>2, <2>1, <1>c DEF Goto, States
  <2>4. CASE CharEnd
    BY <2>4, <1>a, <1>b DEF CharEnd
  <2> QED BY <1>7, <2>2, <2>3, <2>4
<1>8. CASE ReadString
  <2>1. at \in States /\ (\A s : Fits(s, at)) /\ buf \in Spelling
    BY <1>8 DEF ReadString, Quoted, Fits, TypeOK
  <2>2. /\ Append(buf, c) \in Spelling /\ Fits(Append(buf, c), at)
        /\ buf \o <<"\\", c>> \in Spelling /\ Fits(buf \o <<"\\", c>>, at)
        /\ Fits(buf, at)
    BY <2>1 DEF Spelling
  <2> QED BY <1>8, <2>1, <2>2, <1>c DEF ReadString
<1>9. CASE ReadAngled
  <2>1. at = "angled" /\ Len(buf) < StrBuf /\ buf \in Spelling
    BY <1>9 DEF ReadAngled, Angled, InBytes, TypeOK
  <2>2. Append(buf, c) \in Spelling /\ Fits(Append(buf, c), "angled")
    BY <2>1, SizesAssumption DEF Spelling, Room, Fits
  <2> QED BY <1>9, <2>1, <2>2, <1>c DEF ReadAngled, States
<1>10. CASE SkipSpaces
  BY <1>10, <1>c DEF SkipSpaces, TypeOK, Goto
<1>11. CASE ReadIdent
  <2>1. /\ at \in States /\ Room(at) = NameBuf /\ Len(buf) < NameBuf
        /\ buf \in Spelling
    BY <1>11 DEF ReadIdent, Naming, Room, TypeOK
  <2>2. Append(buf, c) \in Spelling /\ Fits(Append(buf, c), at)
    BY <2>1, SizesAssumption DEF Spelling, Fits
  <2> QED BY <1>11, <2>1, <2>2, <1>c DEF ReadIdent
<1>12. CASE EndInput
  <2>1. Moved
    BY <1>12, Moves DEF EndInput
  <2>2. at' \in States /\ flag' \in BOOLEAN /\ buf' = buf /\ UNCHANGED <<stdin, loops>>
    BY <1>12 DEF EndInput, States, TypeOK
  <2>3. Fits(buf, at')
    BY <1>12 DEF EndInput, TypeOK, Room, Fits
  <2> QED BY <2>1, <2>2, <2>3, Stays DEF TypeOK
<1> QED BY <1>1, <1>2, <1>3, <1>4, <1>5, <1>6, <1>7, <1>8, <1>9, <1>10, <1>11, <1>12
        DEF PlainStep, SingleToken, Comment, Literal, Name

-----------------------------------------------------------------------------
Opens(l) == IF l.kind = "file" THEN 1 ELSE 0

\* How the activations and the open files are nested in each other.
Nested ==
  /\ loops[1].kind = "file" /\ loops[1].depth = 1
  /\ loops[Len(loops)].depth = Len(open)
  /\ \A k \in DOMAIN loops : /\ loops[k].depth \in 1 .. Len(open)
                            /\ open[loops[k].depth].name = loops[k].input
  /\ \A k \in 2 .. Len(loops) : loops[k].depth = loops[k - 1].depth + Opens(loops[k])
  /\ \A j, k \in DOMAIN loops : j < k => loops[j].depth + Opens(loops[k]) <= loops[k].depth

LEMMA NestedImplies == TypeOK /\ Nested => InputRestored
BY DEF Nested, InputRestored, loop

LEMMA MovedNested ==
  ASSUME TypeOK, Nested, Moved, UNCHANGED loops
  PROVE  Nested'
<1>1. \A k \in DOMAIN loops : open'[loops[k].depth].name = open[loops[k].depth].name
  BY DEF Nested, Moved, TypeOK
<1> QED BY <1>1 DEF Nested, Moved, Opens

\* A call: an activation with history e is added; the files below are as before.
LEMMA CallNested ==
  ASSUME TypeOK, Nested, open' \in Seq(Opened), NEW e \in Loop, loops' = Append(loops, e),
         Len(open') = Len(open) + Opens(e), e.depth = Len(open'),
         e.input = open'[Len(open')].name,
         \A i \in DOMAIN open : open'[i].name = open[i].name
  PROVE  Nested'
<1> DEFINE n == Len(loops)
<1>1. /\ n \in Nat /\ n >= 1 /\ Len(open) \in Nat /\ Opens(e) \in {0, 1}
      /\ \A k \in 1 .. n : loops[k] \in Loop /\ Opens(loops[k]) \in {0, 1}
  BY DEF TypeOK, Opens
<1>2. /\ Len(loops') = n + 1 /\ DOMAIN loops' = 1 .. n + 1 /\ DOMAIN loops = 1 .. n
      /\ loops'[n + 1] = e
      /\ \A k \in 1 .. n : loops'[k] = loops[k]
  BY DEF TypeOK
<1>3. loops'[1].kind = "file" /\ loops'[1].depth = 1 /\ loops'[Len(loops')].depth = Len(open')
  BY <1>1, <1>2 DEF Nested
<1>4. \A k \in 1 .. n + 1 : /\ loops'[k].depth \in 1 .. Len(open')
                            /\ open'[loops'[k].depth].name = loops'[k].input
  <2> TAKE k \in 1 .. n + 1
  <2>1. CASE k = n + 1
    BY <2>1, <1>1, <1>2 DEF TypeOK, Loop
  <2>2. CASE k \in 1 .. n
    <3>1. loops[k].depth \in 1 .. Len(open) /\ open[loops[k].depth].name = loops[k].input
      BY <2>2, <1>2 DEF Nested
    <3>2. open'[loops[k].depth].name = open[loops[k].depth].name
      BY <3>1 DEF TypeOK
    <3> QED BY <2>2, <3>1, <3>2, <1>1, <1>2
  <2> QED BY <2>1, <2>2, <1>1
<1>5. \A k \in 2 .. n + 1 : loops'[k].depth = loops'[k - 1].depth + Opens(loops'[k])
  BY <1>1, <1>2 DEF Nested
<1>6. \A j, k \in 1 .. n + 1 : j < k => loops'[j].depth + Opens(loops'[k]) <= loops'[k].depth
  BY <1>1, <1>2 DEF Nested
<1> HIDE DEF n
<1> QED BY <1>2, <1>3, <1>4, <1>5, <1>6 DEF Nested, Opens

\* A return: the last activation is gone, and its file if it had one.
LEMMA ReturnNested ==
  ASSUME TypeOK, Nested, Len(loops) > 1, loops' = Front(loops), open' \in Seq(Opened),
         Len(open') + Opens(loop) = Len(open),
         \A i \in DOMAIN open' : open'[i].name = open[i].name
  PROVE  Nested'
<1> DEFINE n == Len(loops)
<1>1. /\ n \in Nat /\ n > 1 /\ Len(open) \in Nat /\ Len(open') \in Nat
      /\ \A k \in 1 .. n : loops[k] \in Loop /\ Opens(loops[k]) \in {0, 1}
  BY DEF TypeOK, Opens
<1>2. /\ Len(loops') = n - 1 /\ DOMAIN loops' = 1 .. n - 1 /\ DOMAIN loops = 1 .. n
      /\ \A k \in 1 .. n - 1 : loops'[k] = loops[k]
  BY <1>1 DEF TypeOK, Front
<1>3. loops[n - 1].depth = Len(open')
  BY <1>1 DEF Nested, loop, Loop
<1>4. \A k \in 1 .. n - 1 : /\ loops[k].depth \in 1 .. Len(open')
                            /\ open'[loops[k].depth].name = loops[k].input
  <2> TAKE k \in 1 .. n - 1
  <2>1. k \in DOMAIN loops /\ n \in DOMAIN loops /\ k < n
    BY <1>1, <1>2
  <2>2. loops[k].depth \in 1 .. Len(open) /\ open[loops[k].depth].name = loops[k].input
    BY <2>1 DEF Nested
  <2>3. loops[k].depth + Opens(loops[n]) <= loops[n].depth
    BY <2>1 DEF Nested
  <2>4. loops[n].depth = Len(open) /\ loop = loops[n]
    BY DEF Nested, loop
  <2>5. loops[k].depth \in 1 .. Len(open')
    BY <2>1, <2>2, <2>3, <2>4, <1>1
  <2>6. open'[loops[k].depth].name = open[loops[k].depth].name
    BY <2>5
  <2> QED BY <2>2, <2>5, <2>6
<1> HIDE DEF n
<1>5. \A k \in 1 .. n - 1 : loops'[k].depth \in 1 .. Len(open')
                            /\ open'[loops'[k].depth].name = loops'[k].input
  BY <1>2, <1>4
<1>6. loops'[1] = loops[1] /\ loops'[Len(loops')] = loops[n - 1]
  BY <1>1, <1>2
<1>7. \A k \in 2 .. n - 1 : loops'[k].depth = loops'[k - 1].depth + Opens(loops'[k])
  BY <1>1, <1>2 DEF Nested, n
<1>8. ASSUME NEW j \in 1 .. n - 1, NEW k \in 1 .. n - 1, j < k
      PROVE  loops'[j].depth + Opens(loops'[k]) <= loops'[k].depth
  <2>1. loops[j].depth + Opens(loops[k]) <= loops[k].depth
    <3>1. j \in DOMAIN loops /\ k \in DOMAIN loops
      BY <1>1, <1>2
    <3> QED BY <3>1, <1>8 DEF Nested
  <2>2. loops'[j] = loops[j] /\ loops'[k] = loops[k]
    BY <1>2
  <2> QED BY <2>1, <2>2 DEF Opens
<1>9. loops'[1].kind = "file" /\ loops'[1].depth = 1 /\ loops'[Len(loops')].depth = Len(open')
  BY <1>3, <1>6 DEF Nested
<1> QED BY <1>2, <1>5, <1>7, <1>8, <1>9 DEF Nested, Opens

-----------------------------------------------------------------------------
CallStep   == IncludeQuoted \/ IncludeAngled \/ StartDefine
ReturnStep == EndDefine \/ EndInclude

LEMMA IncludeCalls ==
  ASSUME TypeOK, Nested, NEW name, Include(name), ~AtEnd
  PROVE  TypeOK' /\ Nested'
<1>1. CASE ~(name \in DOMAIN Files /\ Len(open) < MaxOpen)
  BY <1>1, FailStays, MovedNested DEF Include
<1>2. CASE name \in DOMAIN Files /\ Len(open) < MaxOpen
  <2> DEFINE n == Len(open)
             o == [name |-> name, pos |-> 0]
             e == [kind |-> "file", name |-> name, input |-> name, depth |-> n + 1]
  <2>1. PICK a : a = Advanced
    OBVIOUS
  <2>2. /\ a \in Seq(Opened) /\ Len(a) = n /\ n \in Nat
        /\ \A i \in 1 .. n : a[i].name = open[i].name /\ a[i].pos <= Len(Text(a[i].name))
    <3>1. input.pos + 1 \in Nat /\ input.pos + 1 <= Len(Text(input.name))
      BY InputTypes DEF AtEnd, Opened
    <3>2. /\ [input EXCEPT !.pos = @ + 1] \in Opened
          /\ [input EXCEPT !.pos = @ + 1].name = input.name
          /\ [input EXCEPT !.pos = @ + 1].pos = input.pos + 1
      BY <3>1, InputTypes DEF Opened
    <3>3. a = [open EXCEPT ![Len(open)] = [input EXCEPT !.pos = @ + 1]]
      BY <2>1 DEF Advanced, input
    <3> QED BY <3>1, <3>2, <3>3, InputTypes DEF TypeOK, input
  <2>3. /\ open' = Append(a, o) /\ loops' = Append(loops, e)
        /\ at' = "token" /\ buf' = <<>> /\ flag' = FALSE /\ stdin' = stdin
    BY <1>2, <2>1 DEF Include, Keep
  <2>4. name \in FileNames /\ o \in Opened /\ e \in Loop
    BY <1>2, <2>2 DEF FileNames, Opened, Loop
  <2>5. /\ o.name = name /\ o.pos = 0
        /\ e.depth = n + 1 /\ e.input = name /\ Opens(e) = 1
    BY DEF Opens
  <2> HIDE DEF o, e
  <2>6. /\ open' \in Seq(Opened) /\ Len(open') = n + 1 /\ DOMAIN open' = 1 .. n + 1
        /\ open'[n + 1] = o
        /\ \A i \in 1 .. n : open'[i] = a[i]
    BY <2>2, <2>3, <2>4
  <2>7. Text(name) \in Seq(Chars)
    BY <1>2, TextsAssumption DEF Text, TypeOK
  <2>8. \A i \in 1 .. n + 1 : open'[i].pos <= Len(Text(open'[i].name))
    BY <2>2, <2>5, <2>6, <2>7
  <2>9. TypeOK'
    <3>1. loops' \in Seq(Loop) /\ loops' # <<>>
      BY <2>3, <2>4 DEF TypeOK
    <3>2. open' # <<>> /\ Len(open') <= MaxOpen
      BY <1>2, <2>2, <2>6, SizesAssumption
    <3>3. (\A i \in DOMAIN open : open[i].pos <= Len(Text(open[i].name)))'
      BY <2>3, <2>6, <2>8 DEF Text
    <3>4. at' \in States /\ buf' \in Spelling /\ Fits(buf', at')
      BY <2>3, Buffers DEF States
    <3> QED BY <2>3, <2>6, <3>1, <3>2, <3>3, <3>4 DEF TypeOK, Text
  <2>10. Nested'
    BY <2>2, <2>3, <2>4, <2>5, <2>6, CallNested
  <2> QED BY <2>9, <2>10
<1> QED BY <1>1, <1>2

LEMMA CallStepStays == TypeOK /\ Nested /\ CallStep => TypeOK' /\ Nested'
<1> SUFFICES ASSUME TypeOK, Nested, CallStep PROVE TypeOK' /\ Nested'
  OBVIOUS
<1>1. CASE IncludeQuoted \/ IncludeAngled
  <2>1. ~AtEnd
    BY <1>1 DEF IncludeQuoted, IncludeAngled, c, EOF
  <2> QED BY <1>1, <2>1, IncludeCalls DEF IncludeQuoted, IncludeAngled
<1>2. CASE StartDefine
  <2> DEFINE e == [kind |-> "define", name |-> buf, input |-> input.name, depth |-> Len(open)]
  <2>1. Moved
    BY <1>2, Moves DEF StartDefine
  <2>2. /\ loops' = Append(loops, e) /\ at' = "body" /\ buf' = <<>> /\ flag' = FALSE
        /\ stdin' = stdin
    BY <1>2 DEF StartDefine, Keep
  <2>3. e \in Loop /\ e.depth = Len(open) /\ e.input = input.name /\ Opens(e) = 0
    BY InputTypes DEF TypeOK, Loop, Opened, Opens
  <2> HIDE DEF e
  <2>4. open'[Len(open)].name = input.name
    BY <2>1, InputTypes DEF Moved, input
  <2>5. Nested'
    BY <2>1, <2>2, <2>3, <2>4, CallNested, InputTypes DEF Moved
  <2>6. DOMAIN open' = DOMAIN open /\ open' # <<>>
    BY <2>1 DEF Moved, TypeOK
  <2>7. loops' \in Seq(Loop) /\ loops' # <<>>
    BY <2>2, <2>3 DEF TypeOK
  <2>8. at' \in States /\ buf' \in Spelling /\ Fits(buf', at')
    BY <2>2, Buffers DEF States
  <2>9. TypeOK'
    BY <2>1, <2>2, <2>6, <2>7, <2>8 DEF TypeOK, Moved, Text
  <2> QED BY <2>5, <2>9
<1> QED BY <1>1, <1>2 DEF CallStep

LEMMA ReturnStepStays == TypeOK /\ Nested /\ ReturnStep => TypeOK' /\ Nested'
<1> SUFFICES ASSUME TypeOK, Nested, ReturnStep PROVE TypeOK' /\ Nested'
  OBVIOUS
<1>1. Len(loops) > 1
  <2> SUFFICES ASSUME Len(loops) <= 1 PROVE FALSE
    BY DEF TypeOK
  <2>1. Len(loops) = 1
    BY InputTypes
  <2>2. loop.kind = "file" /\ Len(open) = 1
    BY <2>1 DEF Nested, loop
  <2> QED BY <2>2 DEF ReturnStep, EndDefine, EndInclude
<1>2. loops' = Front(loops) /\ flag' = FALSE /\ UNCHANGED <<stdin, buf>>
  BY DEF ReturnStep, EndDefine, EndInclude, ReturnTo
<1>3. loops' \in Seq(Loop) /\ loops' # <<>>
  <2>1. loops \in Seq(Loop)
    BY DEF TypeOK
  <2>2. loops' \in Seq(Loop) /\ Len(loops') = Len(loops) - 1
    BY <1>1, <1>2, <2>1, InputTypes DEF Front
  <2>3. Len(loops') > 0
    BY <1>1, <2>2, InputTypes
  <2> QED BY <2>2, <2>3
<1>4. at' \in {"body", "token"}
  BY DEF ReturnStep, EndDefine, EndInclude, ReturnTo, Resume
<1>5. at' \in States /\ buf' \in Spelling /\ Fits(buf', at')
  BY <1>2, <1>4 DEF TypeOK, States, Room, Fits, ReturnStep, EndDefine, EndInclude
<1>6. CASE EndDefine
  <2>1. Moved
    BY <1>6, Moves DEF EndDefine
  <2>2. Opens(loop) = 0
    BY <1>6 DEF EndDefine, Opens
  <2>3. Nested'
    BY <1>1, <1>2, <2>1, <2>2, ReturnNested, InputTypes DEF Moved
  <2>4. DOMAIN open' = DOMAIN open /\ open' # <<>>
    BY <2>1 DEF Moved, TypeOK
  <2> QED BY <1>2, <1>3, <1>5, <2>1, <2>3, <2>4 DEF TypeOK, Moved, Text
<1>7. CASE EndInclude
  <2>1. open' = Front(open) /\ Len(open) > 1 /\ Opens(loop) = 1
    BY <1>7 DEF EndInclude, Opens
  <2>2. /\ open' \in Seq(Opened) /\ open' # <<>> /\ Len(open') + 1 = Len(open)
        /\ \A i \in DOMAIN open' : i \in DOMAIN open /\ open'[i] = open[i]
    <3>1. open \in Seq(Opened)
      BY DEF TypeOK
    <3>2. /\ open' \in Seq(Opened) /\ Len(open') = Len(open) - 1
          /\ \A i \in 1 .. Len(open) - 1 : open'[i] = open[i]
      BY <2>1, <3>1, InputTypes DEF Front
    <3>3. Len(open') > 0 /\ DOMAIN open' = 1 .. Len(open) - 1
      BY <2>1, <3>2, InputTypes
    <3> QED BY <3>2, <3>3, InputTypes
  <2>3. Nested'
    BY <1>1, <1>2, <2>1, <2>2, ReturnNested
  <2>4. Len(open') <= MaxOpen
    BY <2>2, SizesAssumption DEF TypeOK
  <2> QED BY <1>2, <1>3, <1>5, <2>2, <2>3, <2>4 DEF TypeOK, Text
<1> QED BY <1>6, <1>7 DEF ReturnStep

LEMMA InitHolds == Init => TypeOK /\ Nested
<1> SUFFICES ASSUME Init PROVE TypeOK /\ Nested
  OBVIOUS
<1>1. /\ open = <<[name |-> <<"stdin">>, pos |-> 0]>>
      /\ [name |-> <<"stdin">>, pos |-> 0] \in Opened
  BY DEF Init, Opened, FileNames
<1>2. /\ loops = <<[kind |-> "file", name |-> <<"stdin">>, input |-> <<"stdin">>, depth |-> 1]>>
      /\ [kind |-> "file", name |-> <<"stdin">>, input |-> <<"stdin">>, depth |-> 1] \in Loop
  BY DEF Init, Loop, FileNames
<1>3. stdin \in Seq(Chars) /\ Text(<<"stdin">>) = stdin
  BY TextsAssumption DEF Init, Text
<1>4. /\ open \in Seq(Opened) /\ Len(open) = 1 /\ open[1].name = <<"stdin">>
      /\ open[1].pos = 0
  BY <1>1
<1>5. /\ loops \in Seq(Loop) /\ Len(loops) = 1 /\ loops[1].kind = "file"
      /\ loops[1].depth = 1 /\ loops[1].input = <<"stdin">>
  BY <1>2
<1>6. TypeOK
  <2>1. /\ stdin \in Sources /\ buf = <<>> /\ at = "token" /\ flag = FALSE
        /\ at \in States
    BY DEF Init, States
  <2>2. buf \in Spelling /\ Fits(buf, at)
    BY <2>1, Buffers
  <2>3. open # <<>> /\ Len(open) <= MaxOpen /\ loops # <<>>
    <3>1. MaxOpen \in Nat /\ MaxOpen >= 1 /\ Len(<<>>) = 0
      BY SizesAssumption
    <3>2. Len(open) <= MaxOpen
      BY <3>1, <1>4
    <3>3. open # <<>>
      BY <1>1
    <3>4. loops # <<>>
      BY <1>2
    <3> QED BY <3>2, <3>3, <3>4
  <2>4. \A i \in DOMAIN open : open[i].pos <= Len(Text(open[i].name))
    <3>1. Len(stdin) \in Nat /\ DOMAIN open = {1}
      BY <1>3, <1>4
    <3> QED BY <3>1, <1>3, <1>4
  <2> QED BY <1>4, <1>5, <2>1, <2>2, <2>3, <2>4 DEF TypeOK
<1>7. Nested
  BY <1>4, <1>5 DEF Nested
<1> QED BY <1>6, <1>7

LEMMA NextHolds == TypeOK /\ Nested /\ [Next]_vars => TypeOK' /\ Nested'
<1> SUFFICES ASSUME TypeOK, Nested, [Next]_vars PROVE TypeOK' /\ Nested'
  OBVIOUS
<1>1. CASE PlainStep
  BY <1>1, PlainStepStays, MovedNested
<1>2. CASE CallStep
  BY <1>2, CallStepStays
<1>3. CASE ReturnStep
  BY <1>3, ReturnStepStays
<1>4. CASE UNCHANGED vars
  BY <1>4 DEF vars, TypeOK, Nested, Text, Opens
<1> QED BY <1>1, <1>2, <1>3, <1>4
        DEF Next, PlainStep, CallStep, ReturnStep, Directive, Return

\* The variables of the lexer have their types; in particular no name, no number
\* and no path in angle brackets outgrows its buffer (lexer.c:198, 249, 314).
\* Nothing is said of quoted literals, which do outgrow theirs (LiteralsFit).
THEOREM TypeCorrect == Spec => []TypeOK
BY InitHolds, NextHolds, PTL DEF Spec

\* An activation always reads the file that was the input when it was called,
\* however #include and #define are nested (lexer.c:275-302).
THEOREM InputIsRestored == Spec => []InputRestored
<1>1. TypeOK /\ Nested => InputRestored
  BY NestedImplies
<1> QED BY <1>1, InitHolds, NextHolds, PTL DEF Spec

-----------------------------------------------------------------------------
\* How much of each file is left to read; a file that is not open has nothing left.
Left(d) == IF d <= Len(open) THEN 1 + Len(Text(open[d].name)) - open[d].pos ELSE 0

\* The activations that have still to end, and the token, comment or directive that
\* was begun.
Begun ==
  \/ at \in {"op", "line", "block", "digits", "char", "charesc", "charend", "strlit",
             "prename", "include", "inclstr", "angled", "definename"}
  \/ at = "ident" /\ buf # <<>>

Pending == Len(loops) + (IF Begun THEN 1 ELSE 0)

\* How far the function at work may go without reading a character.
Rank ==
  LET waits == IF flag THEN 0 ELSE 1 IN
  CASE at = "prename"                  -> 10 + waits
    [] at \in {"include", "definename"} -> 8 + waits
    [] at = "body"                     -> 6 + waits
    [] at = "token"                    -> 5
    [] at \in {"ident", "angled"}       -> 3 + waits
    [] at \in {"strlit", "inclstr"}     -> 4 - waits
    [] at \in {"char", "charesc"}       -> 2
    [] at \in {"op", "line", "block", "digits", "charend"} -> 1
    [] OTHER                           -> 0

\* A name that was begun has a letter to begin with.
LettersWait == at = "ident" /\ buf = <<>> => c \in Letters

LexInv == TypeOK /\ Nested /\ LettersWait

\* The step reads from an open file, whatever is opened on top of it.
Reads ==
  \E d \in 1 .. MaxOpen :
    /\ Left(d)' < Left(d)
    /\ \A e \in 1 .. d - 1 : Left(e)' = Left(e)

\* Or it does what can be done a limited number of times without reading.
Settles ==
  /\ \A d \in 1 .. MaxOpen : Left(d)' = Left(d)
  /\ Pending' < Pending \/ (Pending' = Pending /\ Rank' < Rank)

Decreases == Reads \/ Settles

LEMMA Kinds ==
  /\ EOF \notin Digits /\ EOF \notin DOMAIN Plain /\ EOF \notin DOMAIN Lone
  /\ EOF \notin {" ", NL, "#", "\"", "'", "|", "\\", "*", "/", ">", "<", "0", "n"}
<1>1. EOF \notin Digits
  BY DEF EOF, Digits
<1>2. EOF \notin DOMAIN Plain /\ EOF \notin DOMAIN Lone
  BY Zenon DEF EOF, Plain, Lone
<1>3. EOF \notin {" ", NL, "#", "\"", "'", "|", "\\", "*", "/", ">", "<", "0", "n"}
  BY Zenon DEF EOF, NL
<1> QED BY <1>1, <1>2, <1>3, Zenon

LEMMA RankValues ==
  ASSUME at \in States, flag \in BOOLEAN
  PROVE  /\ Rank \in Nat
         /\ at = "prename" => Rank = IF flag THEN 10 ELSE 11
         /\ at \in {"include", "definename"} => Rank = IF flag THEN 8 ELSE 9
         /\ at = "body" => Rank = IF flag THEN 6 ELSE 7
         /\ at = "token" => Rank = 5
         /\ at \in {"ident", "angled"} => Rank = IF flag THEN 3 ELSE 4
         /\ at \in {"strlit", "inclstr"} => Rank = IF flag THEN 4 ELSE 3
         /\ at \in {"char", "charesc"} => Rank = 2
         /\ at \in {"op", "line", "block", "digits", "charend"} => Rank = 1
         /\ at \in {"done", "error"} => Rank = 0
BY DEF Rank, States

\* The same of the values after a step.
LEMMA RankValuesAfter ==
  ASSUME at' \in States, flag' \in BOOLEAN
  PROVE  /\ Rank' \in Nat
         /\ at' = "prename" => Rank' = IF flag' THEN 10 ELSE 11
         /\ at' \in {"include", "definename"} => Rank' = IF flag' THEN 8 ELSE 9
         /\ at' = "body" => Rank' = IF flag' THEN 6 ELSE 7
         /\ at' = "token" => Rank' = 5
         /\ at' \in {"ident", "angled"} => Rank' = IF flag' THEN 3 ELSE 4
         /\ at' \in {"strlit", "inclstr"} => Rank' = IF flag' THEN 4 ELSE 3
         /\ at' \in {"char", "charesc"} => Rank' = 2
         /\ at' \in {"op", "line", "block", "digits", "charend"} => Rank' = 1
         /\ at' \in {"done", "error"} => Rank' = 0
BY DEF Rank, States

LEMMA LeftTypes ==
  ASSUME TypeOK
  PROVE  /\ \A d \in 1 .. MaxOpen : Left(d) \in Nat
         /\ \A d \in 1 .. Len(open) : Left(d) = 1 + Len(Text(open[d].name)) - open[d].pos
                                      /\ Left(d) >= 1 /\ d \in 1 .. MaxOpen
         /\ \A d \in 1 .. MaxOpen : d > Len(open) => Left(d) = 0
<1>1. Len(open) \in Nat /\ MaxOpen \in Nat /\ Len(open) <= MaxOpen
  BY InputTypes, SizesAssumption DEF TypeOK
<1>2. ASSUME NEW d \in 1 .. Len(open)
      PROVE  /\ Len(Text(open[d].name)) \in Nat /\ open[d].pos \in Nat
             /\ open[d].pos <= Len(Text(open[d].name))
  <2>1. open[d] \in Opened /\ open[d].pos <= Len(Text(open[d].name))
    BY DEF TypeOK
  <2>2. Text(open[d].name) \in Seq(Chars)
    BY <2>1, TextsAssumption DEF TypeOK, Opened, FileNames, Text
  <2> QED BY <2>1, <2>2 DEF Opened
<1> QED BY <1>1, <1>2 DEF Left

\* A character is read, and all else that is open stays.
LEMMA ReadingReads ==
  ASSUME TypeOK, stdin' = stdin, ~AtEnd, open' \in Seq(Opened), Len(open') >= Len(open),
         \A d \in 1 .. Len(open) : open'[d] = Advanced[d]
  PROVE  Reads
<1>1. Len(open) \in 1 .. MaxOpen
  BY InputTypes, SizesAssumption DEF TypeOK
<1>2. PICK n \in 1 .. MaxOpen : n = Len(open)
  BY <1>1
<1>3. /\ Advanced[n].name = open[n].name /\ Advanced[n].pos = open[n].pos + 1
      /\ \A d \in 1 .. n - 1 : Advanced[d] = open[d]
  BY <1>2, InputTypes DEF Advanced, input, Opened, TypeOK
<1>4. /\ n \in Nat /\ \A d \in 1 .. n : d <= Len(open')
      /\ open'[n] = Advanced[n] /\ \A d \in 1 .. n - 1 : open'[d] = open[d]
  <2>1. n \in Nat /\ \A d \in 1 .. n : d <= n
    BY <1>2, SizesAssumption
  <2>2. Len(open') \in Nat /\ Len(open') >= n
    BY <1>2
  <2> QED BY <1>2, <1>3, <2>1, <2>2
<1>5. Left(n)' = 1 + Len(Text(open[n].name)) - (open[n].pos + 1)
  BY <1>3, <1>4 DEF Left, Text
<1>6. Left(n) = 1 + Len(Text(open[n].name)) - open[n].pos
  BY <1>2, LeftTypes
<1>7. \A e \in 1 .. n - 1 : Left(e)' = Left(e)
  BY <1>2, <1>4 DEF Left, Text
<1>8. open[n].pos \in Nat /\ Len(Text(open[n].name)) \in Nat
  BY <1>2, InputTypes DEF input, Opened
<1>9. Left(n)' < Left(n)
  BY <1>5, <1>6, <1>8
<1> QED BY <1>7, <1>9 DEF Reads

LEMMA Still ==
  ASSUME stdin' = stdin, open' = open
  PROVE  \A d \in 1 .. MaxOpen : Left(d)' = Left(d)
BY DEF Left, Text

\* A step that goes on in the same file reads a character or leaves all in place.
LEMMA ReadsOrStays ==
  ASSUME TypeOK, stdin' = stdin, Consume \/ Unread \/ open' = open
  PROVE  /\ Reads \/ open' = open
         /\ Consume /\ c # EOF => Reads
<1>1. CASE open' = Advanced /\ ~AtEnd
  <2>1. open' \in Seq(Opened) /\ Len(open') = Len(open) /\ Len(open) \in Nat
    BY <1>1, Moves, InputTypes DEF Moved, Consume
  <2> QED BY <1>1, <2>1, ReadingReads
<1>2. CASE open' = open /\ ~(open' = Advanced /\ ~AtEnd)
  BY <1>2 DEF Consume, c
<1> QED BY <1>1, <1>2 DEF Consume, Unread

LEMMA Settling ==
  ASSUME TypeOK, stdin' = stdin, Consume \/ Unread \/ open' = open,
         Pending' < Pending \/ (Pending' = Pending /\ Rank' < Rank)
  PROVE  Decreases
BY ReadsOrStays, Still DEF Decreases, Settles

LEMMA PendingTypes ==
  ASSUME TypeOK
  PROVE  Pending \in Nat /\ Len(loops) \in Nat /\ Pending = IF Begun THEN Len(loops) + 1 ELSE Len(loops)
BY InputTypes DEF Pending

LEMMA PushDecreases ==
  ASSUME TypeOK, NEW ts, Push(ts), Consume \/ Unread, Begun \/ (Consume /\ c # EOF)
  PROVE  Decreases
<1>1. stdin' = stdin /\ loops' = loops /\ at' \in {"body", "token"}
  BY InputTypes DEF Push, Keep
<1>2. ~ Begun'
  BY <1>1 DEF Begun
<1>3. CASE Begun
  <2>1. Pending' = Len(loops) /\ Pending = Len(loops) + 1 /\ Len(loops) \in Nat
    BY <1>1, <1>2, <1>3, PendingTypes DEF Pending
  <2>2. Pending' < Pending
    BY <2>1
  <2> QED BY <1>1, <2>2, Settling
<1>4. CASE Consume /\ c # EOF
  BY <1>1, <1>4, ReadsOrStays DEF Decreases
<1> QED BY <1>3, <1>4

LEMMA FailDecreases ==
  ASSUME TypeOK, Fail, at \notin {"done", "error"}
  PROVE  Decreases
<1>1. stdin' = stdin /\ loops' = loops /\ open' = open /\ at' = "error" /\ flag' = FALSE
  BY DEF Fail, Goto, Reading, Keep
<1>2. ~ Begun'
  BY <1>1 DEF Begun
<1>3. at' \in States /\ flag' \in BOOLEAN /\ at \in States /\ flag \in BOOLEAN
  BY <1>1 DEF States, TypeOK
<1>4. Rank' = 0 /\ Rank \in Nat /\ Rank >= 1
  <2>1. Rank' = 0
    BY <1>1, <1>3, RankValuesAfter
  <2>2. Rank \in Nat /\ Rank >= 1
    BY <1>3, RankValues DEF States
  <2> QED BY <2>1, <2>2
<1>5. Pending' = Len(loops) /\ Pending \in {Len(loops), Len(loops) + 1} /\ Len(loops) \in Nat
  BY <1>1, <1>2, PendingTypes DEF Pending
<1>6. Pending' < Pending \/ (Pending' = Pending /\ Rank' < Rank)
  BY <1>4, <1>5
<1> QED BY <1>1, <1>6, Settling

\* The function at work goes on with what is lower in rank.
LEMMA RankDecreases ==
  ASSUME TypeOK, stdin' = stdin, loops' = loops, Consume \/ Unread \/ open' = open,
         Begun' = Begun, Rank' < Rank
  PROVE  Decreases
<1>1. Pending' = Pending
  BY DEF Pending
<1> QED BY <1>1, Settling

LEMMA PlainStepDecreases ==
  ASSUME TypeOK, TypeOK', LettersWait, PlainStep
  PROVE  Decreases
<1>t. at \in States /\ flag \in BOOLEAN /\ at' \in States /\ flag' \in BOOLEAN
  BY DEF TypeOK
<1>r. ASSUME Consume, c # EOF, stdin' = stdin PROVE Decreases
  BY <1>r, ReadsOrStays DEF Decreases
<1>1. CASE Skip \/ PlainToken \/ StrLit
  <2>1. PICK ts : Push(ts) /\ Consume /\ c # EOF
    BY <1>1, Kinds, Zenon DEF Skip, PlainToken, StrLit
  <2> QED BY <2>1, PushDecreases
<1>2. CASE PairToken \/ LoneToken
  <2>1. PICK ts : Push(ts) /\ (Consume \/ Unread)
    BY <1>2, Zenon DEF PairToken, LoneToken
  <2>2. Begun
    BY <1>2 DEF PairToken, LoneToken, Begun
  <2> QED BY <2>1, <2>2, PushDecreases
<1>3. CASE Ident
  <2>1. PICK ts : Push(ts) /\ Unread
    BY <1>3 DEF Ident
  <2>2. Begun
    BY <1>3 DEF Ident, NameRead, LettersWait, Begun
  <2> QED BY <2>1, <2>2, PushDecreases
<1>4. CASE Start
  BY <1>4, <1>r, Kinds, Zenon DEF Start, Goto, Reading, Keep
<1>5. CASE StartIdent
  <2>1. /\ at = "token" /\ at' = "ident" /\ buf' = <<>> /\ flag' = FALSE
        /\ stdin' = stdin /\ loops' = loops /\ Unread
    BY <1>5 DEF StartIdent, Goto, Reading, Keep
  <2>2. Begun' = Begun
    BY <2>1 DEF Begun
  <2>3. Rank = 5 /\ Rank' = 4
    BY <2>1, <1>t, RankValues, RankValuesAfter
  <2> QED BY <2>1, <2>2, <2>3, RankDecreases
<1>6. CASE Unexpected \/ LoneBar \/ StringFails \/ IdentTooLong
  BY <1>6, FailDecreases
     DEF Unexpected, LoneBar, StringFails, IdentTooLong, Quoted, Angled, Naming
<1>7. CASE StartComment
  <2>1. c # EOF
    BY <1>7, Kinds, Zenon DEF StartComment, Comments
  <2> QED BY <1>7, <2>1, <1>r DEF StartComment, Goto, Reading, Keep
<1>8. CASE LineComment
  <2>1. CASE c \in {EOF, NL}
    BY <1>8, <2>1, PushDecreases DEF LineComment, Begun
  <2>2. CASE c \notin {EOF, NL}
    BY <1>8, <2>2, <1>r DEF LineComment, Goto, Reading, Keep
  <2> QED BY <2>1, <2>2
<1>9. CASE BlockComment
  <2>1. CASE Push(<<>>)
    BY <1>9, <2>1, PushDecreases DEF BlockComment, Begun
  <2>2. CASE c # EOF /\ Reading("block", <<>>, c = "*")
    BY <1>9, <2>2, <1>r DEF BlockComment, Reading, Keep
  <2> QED BY <1>9, <2>1, <2>2 DEF BlockComment
<1>10. CASE IntLiteral
  <2>1. CASE Fail
    BY <1>10, <2>1, FailDecreases DEF IntLiteral
  <2>2. CASE c \in Digits /\ Consume /\ Goto("digits", Append(buf, c))
    BY <2>2, <1>r, Kinds, Zenon DEF Goto, Reading, Keep
  <2>3. CASE Unread /\ Push(<<IntLit(atoi(buf))>>)
    <3>1. Begun
      BY <1>10 DEF IntLiteral, Begun
    <3> QED BY <2>3, <3>1, PushDecreases
  <2> QED BY <1>10, <2>1, <2>2, <2>3 DEF IntLiteral
<1>11. CASE CharStart
  <2>1. /\ at = "char" /\ at' \in {"charesc", "charend"} /\ Consume
        /\ stdin' = stdin /\ loops' = loops
    BY <1>11 DEF CharStart, Goto, Reading, Keep
  <2>2. CASE c # EOF
    BY <2>1, <2>2, <1>r
  <2>3. CASE c = EOF
    <3>1. at' = "charend"
      BY <1>11, <2>3, Kinds, Zenon DEF CharStart, Goto, Reading
    <3>2. Begun' = Begun
      BY <2>1 DEF Begun
    <3>3. Rank = 2 /\ Rank' = 1
      BY <2>1, <3>1, <1>t, RankValues, RankValuesAfter
    <3> QED BY <2>1, <3>2, <3>3, RankDecreases
  <2> QED BY <2>2, <2>3
<1>12. CASE CharEscape
  <2>1. /\ at = "charesc" /\ at' = "charend" /\ Consume
        /\ stdin' = stdin /\ loops' = loops
    BY <1>12 DEF CharEscape, Goto, Reading, Keep
  <2>2. Begun' = Begun
    BY <2>1 DEF Begun
  <2>3. Rank = 2 /\ Rank' = 1
    BY <2>1, <1>t, RankValues, RankValuesAfter
  <2> QED BY <2>1, <2>2, <2>3, RankDecreases
<1>13. CASE CharEnd
  <2>1. CASE Fail
    BY <1>13, <2>1, FailDecreases DEF CharEnd
  <2>2. CASE Consume /\ Push(<<IntLit(Code[buf[1]])>>)
    <3>1. Begun
      BY <1>13 DEF CharEnd, Begun
    <3> QED BY <2>2, <3>1, PushDecreases
  <2> QED BY <1>13, <2>1, <2>2 DEF CharEnd
<1>14. CASE ReadString
  <2>1. /\ at \in {"strlit", "inclstr"} /\ at' = at /\ Consume
        /\ stdin' = stdin /\ loops' = loops
    BY <1>14 DEF ReadString, Quoted, Reading, Keep
  <2>2. CASE c # EOF
    BY <2>1, <2>2, <1>r
  <2>3. CASE c = EOF
    <3>1. flag = TRUE /\ flag' = FALSE
      BY <1>14, <2>3, <1>t, Kinds, Zenon DEF ReadString, Reading
    <3>2. Begun' = Begun
      BY <2>1 DEF Begun
    <3>3. Rank = 4 /\ Rank' = 3
      BY <2>1, <3>1, <1>t, RankValues, RankValuesAfter
    <3> QED BY <2>1, <3>2, <3>3, RankDecreases
  <2> QED BY <2>2, <2>3
<1>15. CASE ReadAngled
  BY <1>15, <1>r DEF ReadAngled, Reading, Keep
<1>16. CASE SkipSpaces
  <2>1. CASE c = " "
    <3>1. c # EOF
      BY <2>1, Kinds, Zenon
    <3> QED BY <1>16, <2>1, <3>1, <1>r DEF SkipSpaces, Goto, Reading, Keep
  <2>2. CASE c # " "
    <3>1. /\ at \in {"ident", "prename", "definename", "include", "angled", "body"}
          /\ at' = at /\ buf' = buf /\ flag = FALSE /\ flag' = TRUE /\ Unread
          /\ stdin' = stdin /\ loops' = loops
      BY <1>16, <2>2, <1>t DEF SkipSpaces, Reading, Keep
    <3>2. Begun' = Begun
      BY <3>1 DEF Begun
    <3>3. Rank' < Rank
      BY <3>1, <1>t, RankValues, RankValuesAfter
    <3> QED BY <3>1, <3>2, <3>3, RankDecreases
  <2> QED BY <2>1, <2>2
<1>17. CASE ReadIdent
  <2>1. c # EOF
    BY <1>17, Kinds, LettersAssumption, Zenon DEF ReadIdent
  <2> QED BY <1>17, <2>1, <1>r DEF ReadIdent, Reading, Keep
<1>18. CASE Preprocessor
  <2>1. CASE Fail
    BY <1>18, <2>1, FailDecreases DEF Preprocessor, NameRead, Naming
  <2>2. CASE Unread /\ (Goto("include", <<>>) \/ Goto("definename", <<>>))
    <3>1. /\ at = "prename" /\ flag = TRUE /\ at' \in {"include", "definename"}
          /\ flag' = FALSE /\ stdin' = stdin /\ loops' = loops /\ Unread
      BY <1>18, <2>2, <1>t DEF Preprocessor, NameRead, Naming, Goto, Reading, Keep
    <3>2. Begun' = Begun
      BY <3>1 DEF Begun
    <3>3. Rank = 10 /\ Rank' = 9
      BY <3>1, <1>t, RankValues, RankValuesAfter
    <3> QED BY <3>1, <3>2, <3>3, RankDecreases
  <2> QED BY <1>18, <2>1, <2>2 DEF Preprocessor
<1>19. CASE IncludeName
  <2>1. CASE Fail
    BY <1>19, <2>1, FailDecreases DEF IncludeName
  <2>2. CASE ~ Fail
    <3>1. c \in {"\"", "<"} /\ Consume /\ stdin' = stdin
      BY <1>19, <2>2, Zenon DEF IncludeName, Goto, Reading, Keep
    <3>2. c # EOF
      BY <3>1, Kinds, Zenon
    <3> QED BY <3>1, <3>2, <1>r
  <2> QED BY <2>1, <2>2
<1>20. CASE Body
  <2>1. /\ at = "body" /\ at' = "token" /\ flag = TRUE /\ stdin' = stdin /\ loops' = loops
        /\ Unread
    BY <1>20, <1>t DEF Body, Goto, Reading, Keep
  <2>2. Begun' = Begun
    BY <2>1 DEF Begun
  <2>3. Rank = 6 /\ Rank' = 5
    BY <2>1, <1>t, RankValues, RankValuesAfter
  <2> QED BY <2>1, <2>2, <2>3, RankDecreases
<1>21. CASE EndInput
  <2>1. /\ at = "token" /\ at' = "done" /\ UNCHANGED <<stdin, loops, open>>
    BY <1>21 DEF EndInput
  <2>2. Begun' = Begun
    BY <2>1 DEF Begun
  <2>3. Rank = 5 /\ Rank' = 0
    BY <2>1, <1>t, RankValues, RankValuesAfter
  <2> QED BY <2>1, <2>2, <2>3, RankDecreases
<1> QED BY <1>1, <1>2, <1>3, <1>4, <1>5, <1>6, <1>7, <1>8, <1>9, <1>10, <1>11, <1>12,
           <1>13, <1>14, <1>15, <1>16, <1>17, <1>18, <1>19, <1>20, <1>21
        DEF PlainStep, SingleToken, Comment, Literal, Name

LEMMA IncludeDecreases ==
  ASSUME TypeOK, NEW name, Include(name), ~AtEnd, at \notin {"done", "error"}
  PROVE  Decreases
<1>1. CASE Fail
  BY <1>1, FailDecreases
<1>2. CASE ~ Fail
  <2>1. open' = Append(Advanced, [name |-> name, pos |-> 0]) /\ stdin' = stdin
        /\ name \in DOMAIN Files
    BY <1>2 DEF Include, Keep
  <2>2. [name |-> name, pos |-> 0] \in Opened
    BY <2>1 DEF Opened, FileNames
  <2>3. Advanced \in Seq(Opened) /\ Len(Advanced) = Len(open)
    <3>1. [input EXCEPT !.pos = @ + 1] \in Opened
      BY InputTypes DEF Opened
    <3>2. Advanced = [open EXCEPT ![Len(open)] = [input EXCEPT !.pos = @ + 1]]
      BY DEF Advanced, input
    <3> QED BY <3>1, <3>2, InputTypes DEF TypeOK
  <2>4. /\ open' \in Seq(Opened) /\ Len(open') = Len(open) + 1
        /\ \A d \in 1 .. Len(open) : open'[d] = Advanced[d]
    BY <2>1, <2>2, <2>3
  <2>5. Len(open') >= Len(open)
    BY <2>4, InputTypes
  <2> QED BY <2>1, <2>4, <2>5, ReadingReads DEF Decreases
<1> QED BY <1>1, <1>2

LEMMA CallStepDecreases ==
  ASSUME TypeOK, TypeOK', CallStep
  PROVE  Decreases
<1>t. at \in States /\ flag \in BOOLEAN /\ at' \in States /\ flag' \in BOOLEAN
  BY DEF TypeOK
<1>1. CASE IncludeQuoted \/ IncludeAngled
  <2>1. c # EOF
    BY <1>1, Kinds, Zenon DEF IncludeQuoted, IncludeAngled
  <2>2. ~AtEnd
    BY <2>1 DEF c
  <2>3. at \notin {"done", "error"}
    BY <1>1 DEF IncludeQuoted, IncludeAngled, Angled
  <2> QED BY <1>1, <2>2, <2>3, IncludeDecreases DEF IncludeQuoted, IncludeAngled
<1>2. CASE StartDefine
  <2>1. /\ at = "definename" /\ flag = TRUE /\ at' = "body" /\ flag' = FALSE
        /\ stdin' = stdin /\ Unread
    BY <1>2, <1>t DEF StartDefine, NameRead, Naming, Keep
  <2>2. Len(loops') = Len(loops) + 1 /\ Len(loops) \in Nat
    BY <1>2, InputTypes DEF StartDefine, TypeOK
  <2>3. Begun /\ ~ Begun'
    BY <2>1 DEF Begun
  <2>4. Pending' = Pending
    BY <2>2, <2>3 DEF Pending
  <2>5. Rank = 8 /\ Rank' = 7
    BY <2>1, <1>t, RankValues, RankValuesAfter
  <2>6. Rank' < Rank
    BY <2>5
  <2> QED BY <2>1, <2>4, <2>6, Settling
<1> QED BY <1>1, <1>2 DEF CallStep

LEMMA ReturnStepDecreases ==
  ASSUME TypeOK, TypeOK', ReturnStep
  PROVE  Decreases
<1>1. CASE EndDefine
  <2>1. /\ at \in {"body", "token"} /\ loops' = Front(loops) /\ stdin' = stdin /\ Consume
        /\ at' \in {"body", "token"}
    BY <1>1 DEF EndDefine, ReturnTo, Resume
  <2>2. ~ Begun /\ ~ Begun'
    BY <2>1 DEF Begun
  <2>3. Len(loops') = Len(loops) - 1 /\ Len(loops) \in Nat
    BY <2>1, InputTypes DEF Front, TypeOK
  <2>4. Pending' < Pending
    BY <2>2, <2>3 DEF Pending
  <2> QED BY <2>1, <2>4, Settling
<1>2. CASE EndInclude
  <2>1. open' = Front(open) /\ stdin' = stdin /\ Len(open) > 1
    BY <1>2 DEF EndInclude, ReturnTo
  <2>2. PICK n \in 1 .. MaxOpen : n = Len(open)
    BY InputTypes, SizesAssumption DEF TypeOK
  <2>3. /\ n \in Nat /\ n > 1 /\ Len(open') = n - 1
        /\ \A d \in 1 .. n - 1 : open'[d] = open[d]
    BY <2>1, <2>2, InputTypes DEF Front, TypeOK
  <2>4. Left(n)' = 0
    BY <2>3 DEF Left
  <2>5. Left(n) >= 1 /\ Left(n) \in Nat
    BY <2>2, LeftTypes
  <2>6. \A e \in 1 .. n - 1 : Left(e)' = Left(e)
    BY <2>1, <2>2, <2>3 DEF Left, Text
  <2>7. Left(n)' < Left(n)
    BY <2>4, <2>5
  <2> QED BY <2>6, <2>7 DEF Decreases, Reads
<1> QED BY <1>1, <1>2 DEF ReturnStep

\* The first letter of a name is still there when the name is read.
LEMMA LettersWaitHolds ==
  ASSUME TypeOK, LettersWait, Next
  PROVE  LettersWait'
<1> SUFFICES ASSUME at' = "ident", buf' = <<>> PROVE (c \in Letters)'
  BY DEF LettersWait
<1>1. StartIdent \/ SkipSpaces \/ ReadIdent
  <2>1. ~ Fail /\ \A ts : ~ Push(ts)
    BY InputTypes DEF Fail, Goto, Reading, Push
  <2> QED
    BY <2>1, Zenon DEF Next, SingleToken, Comment, Literal, Name, Directive, Return,
       Skip, PlainToken, Start, Unexpected, PairToken, LoneToken, LoneBar, StartComment, LineComment,
       BlockComment, IntLiteral, CharStart, CharEscape, CharEnd, ReadString, Quoted, ReadAngled,
       Angled, StringFails, StrLit, IdentTooLong, Ident, Preprocessor, IncludeName, IncludeQuoted,
       IncludeAngled, Include, StartDefine, Body, EndDefine, EndInclude, EndInput, ReturnTo, Resume,
       Goto, Reading
<1>2. CASE StartIdent
  <2>1. c \in Letters /\ stdin' = stdin /\ Unread
    BY <1>2 DEF StartIdent, Goto, Reading, Keep
  <2>2. open' = open
    BY <2>1, LettersAssumption DEF Unread, c
  <2> QED BY <2>1, <2>2 DEF c, AtEnd, raw, input, Text
<1>3. CASE SkipSpaces
  <2>1. at = "ident" /\ buf = <<>> /\ stdin' = stdin
    BY <1>3 DEF SkipSpaces, Goto, Reading, Keep
  <2>2. c \in Letters
    BY <2>1 DEF LettersWait
  <2>3. open' = open
    BY <1>3, <2>2, LettersAssumption DEF SkipSpaces, Unread, c
  <2> QED BY <2>1, <2>2, <2>3 DEF c, AtEnd, raw, input, Text
<1>4. CASE ReadIdent
  <2>1. buf' = Append(buf, c) /\ buf \in Seq(Chars \cup {EOF, NL, NUL, "\\"})
    BY <1>4 DEF ReadIdent, Reading, TypeOK, Spelling
  <2>2. Len(buf') = Len(buf) + 1 /\ Len(buf) \in Nat
    BY <2>1, CharType
  <2> QED BY <2>2
<1> QED BY <1>1, <1>2, <1>3, <1>4

LEMMA LexInvHolds ==
  /\ Init => LexInv
  /\ LexInv /\ [Next]_vars => LexInv' /\ (Decreases \/ UNCHANGED vars)
<1>1. Init => LexInv
  BY InitHolds DEF LexInv, LettersWait, Init
<1>2. ASSUME LexInv, Next PROVE LexInv' /\ Decreases
  <2>1. TypeOK' /\ Nested' /\ LettersWait'
    BY <1>2, NextHolds, LettersWaitHolds DEF LexInv
  <2>2. PlainStep \/ CallStep \/ ReturnStep
    BY <1>2 DEF Next, PlainStep, CallStep, ReturnStep, Directive, Return
  <2>3. Decreases
    BY <1>2, <2>1, <2>2, PlainStepDecreases, CallStepDecreases, ReturnStepDecreases DEF LexInv
  <2> QED BY <2>1, <2>3 DEF LexInv
<1>3. ASSUME LexInv, UNCHANGED vars PROVE LexInv'
  BY <1>3 DEF LexInv, vars, TypeOK, Nested, LettersWait, Text, Opens, c, AtEnd, raw, input
<1> QED BY <1>1, <1>2, <1>3

\* The measure of a state, and its order: the characters left in the files that are
\* open, the outermost first; then what was begun and not ended; then the rank of the
\* place in the code.
Less    == OpToRel(<, Nat)
Measure == << [d \in 1 .. MaxOpen |-> Left(d)], <<Pending, Rank>> >>
Lower   == LexPairOrdering(LexProductOrdering(Less, Nat, MaxOpen),
                           LexPairOrdering(Less, Less, Nat, Nat),
                           [1 .. MaxOpen -> Nat], Nat \X Nat)

Lowers  == <<Measure', Measure>> \in Lower

\* What is left after a step is a number, too.
LEMMA LeftTypesAfter ==
  ASSUME TypeOK'
  PROVE  \A d \in 1 .. MaxOpen : Left(d)' \in Nat
<1> TAKE d \in 1 .. MaxOpen
<1>1. CASE d <= Len(open')
  <2>1. d \in DOMAIN open'
    BY <1>1, SizesAssumption DEF TypeOK
  <2>2. open'[d] \in Opened /\ open'[d].pos <= Len(Text(open[d].name)')
    BY <2>1 DEF TypeOK
  <2>3. Text(open[d].name)' \in Seq(Chars)
    BY <2>2, TextsAssumption DEF TypeOK, Opened, FileNames, Text
  <2> QED BY <1>1, <2>2, <2>3 DEF Left, Opened
<1>2. CASE ~(d <= Len(open'))
  BY <1>2 DEF Left
<1> QED BY <1>1, <1>2

LEMMA MeasureLowers ==
  ASSUME TypeOK, TypeOK', Decreases
  PROVE  Lowers
<1> DEFINE f == [d \in 1 .. MaxOpen |-> Left(d)]
           g == [d \in 1 .. MaxOpen |-> Left(d)']
           p == <<Pending, Rank>>
           q == <<Pending', Rank'>>
<1>1. Measure = <<f, p>> /\ Measure' = <<g, q>>
  BY DEF Measure
<1>2. /\ \A d \in 1 .. MaxOpen : f[d] = Left(d) /\ g[d] = Left(d)'
      /\ f \in [1 .. MaxOpen -> Nat] /\ g \in [1 .. MaxOpen -> Nat]
  <2>1. \A d \in 1 .. MaxOpen : Left(d) \in Nat
    BY LeftTypes
  <2>2. \A d \in 1 .. MaxOpen : Left(d)' \in Nat
    BY LeftTypesAfter
  <2> QED BY <2>1, <2>2
<1>3. p \in Nat \X Nat /\ q \in Nat \X Nat
  <2>1. Pending \in Nat /\ Rank \in Nat
    BY PendingTypes, RankValues DEF TypeOK
  <2>2. Pending' \in Nat /\ Rank' \in Nat
    <3>1. at' \in States /\ flag' \in BOOLEAN /\ Len(loops') \in Nat
      BY DEF TypeOK
    <3> QED BY <3>1, RankValuesAfter DEF Pending
  <2> QED BY <2>1, <2>2
<1>4. \A x, y \in Nat : x < y => <<x, y>> \in Less
  BY DEF Less, OpToRel
<1> HIDE DEF f, g
<1>5. CASE Reads
  <2>1. PICK j \in 1 .. MaxOpen : Left(j)' < Left(j) /\ \A e \in 1 .. j - 1 : Left(e)' = Left(e)
    BY <1>5 DEF Reads
  <2>2. j \in Nat /\ \A e \in 1 .. j - 1 : e \in 1 .. MaxOpen
    BY SizesAssumption
  <2>3. g[j] < f[j] /\ f[j] \in Nat /\ g[j] \in Nat
    BY <2>1, <1>2
  <2>4. \A e \in 1 .. j - 1 : g[e] = f[e]
    BY <2>1, <2>2, <1>2
  <2>5. <<g, f>> \in LexProductOrdering(Less, Nat, MaxOpen)
    BY <2>3, <2>4, <1>2, <1>4 DEF LexProductOrdering
  <2> QED BY <1>1, <1>2, <1>3, <2>5 DEF Lower, LexPairOrdering, Lowers
<1>6. CASE Settles
  <2>0. \A d \in 1 .. MaxOpen : Left(d)' = Left(d)
    BY <1>6 DEF Settles
  <2>1. g = f
    BY <2>0, Zenon DEF f, g
  <2>2. <<q, p>> \in LexPairOrdering(Less, Less, Nat, Nat)
    BY <1>3, <1>4, <1>6 DEF Settles, LexPairOrdering
  <2> QED BY <1>1, <1>2, <1>3, <2>1, <2>2 DEF Lower, LexPairOrdering, Lowers
<1> QED BY <1>5, <1>6 DEF Decreases

\* The order has no infinite descent.
THEOREM LowerIsWellFounded ==
  IsWellFoundedOn(Lower, [1 .. MaxOpen -> Nat] \X (Nat \X Nat))
<1>1. IsWellFoundedOn(Less, Nat)
  BY NatLessThanWellFounded DEF Less
<1>2. MaxOpen \in Nat
  BY SizesAssumption
<1>3. IsWellFoundedOn(LexProductOrdering(Less, Nat, MaxOpen), [1 .. MaxOpen -> Nat])
  BY <1>1, <1>2, WFLexProductOrdering
<1>4. IsWellFoundedOn(LexPairOrdering(Less, Less, Nat, Nat), Nat \X Nat)
  BY <1>1, WFLexPairOrdering
<1> QED BY <1>3, <1>4, WFLexPairOrdering DEF Lower

\* Every step of the lexer lowers the measure, whatever the text, the files it
\* includes, itself among them, and the definitions it has: no loop of lexer.c waits
\* for a character that the end of a file withholds.
THEOREM StepsLower == Spec => [][Lowers]_vars
<1>1. LexInv /\ [Next]_vars => LexInv'
  BY LexInvHolds
<1>2. LexInv /\ [Next]_vars => [Lowers]_vars
  BY <1>1, LexInvHolds, MeasureLowers DEF LexInv
<1> QED BY <1>1, <1>2, LexInvHolds, PTL DEF Spec
=============================================================================
