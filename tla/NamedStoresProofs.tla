------------------------- MODULE NamedStoresProofs --------------------------
(***************************************************************************)
(* MachineProofs assumes that every store hits a variable.  For programs   *)
(* that store through the names of variables and fields only, of any size, *)
(* this is proved here: StoresInVariables holds, and with it what          *)
(* MachineProofs concludes.                                                *)
(*                                                                         *)
(* codegen_lvalue() pushes the address of a variable, the code of the      *)
(* right operand leaves one word above it, and codegen_movereg() stores    *)
(* through what it then pops.  So one has to know which word of the stack  *)
(* is an address while any code runs above it, loops that leave words and  *)
(* functions that call each other included.  A Shape says it for an        *)
(* instruction; the code of every tree has Shapes (Above, Points, Closed), *)
(* the text has them (TextShapes), and the words of the running machine,   *)
(* those of every caller too, are what they say (Shaped).                  *)
(***************************************************************************)
EXTENDS MachineProofs

-----------------------------------------------------------------------------
\* Addresses on the operand stack.

\* What is known of rax and of the words of the operand stack: S[0] = n says that
\* rax is the address of n bytes or more within one variable, S[k] the same of the
\* k-th word from the top.
Shape == [Nat -> Nat]
Le(S, T) == \A k \in Nat : S[k] <= T[k]

\* Nothing is known; n words on top of which nothing is known; an address in rax;
\* one in rax that is pushed.
Blank      == [k \in Nat |-> 0]
Lift(n, S) == [k \in Nat |-> IF k <= n THEN 0 ELSE S[k - n]]
At(n, S)   == [k \in Nat |-> IF k = 0 THEN n ELSE S[k]]
Onto(n, S) == [k \in Nat |-> IF k = 0 THEN 0 ELSE IF k = 1 THEN n ELSE S[k - 1]]

\* The k-th word after an instruction, from what is known before it.
WordAfter(ins, S, k) ==
  CASE ins[1] = "push"     -> IF k = 1 THEN (IF ins[2] = "rax" THEN S[0] ELSE 0) ELSE S[k - 1]
    [] ins[1] = "push_int" -> IF k = 1 THEN 0 ELSE S[k - 1]
    [] ins[1] = "pop"      -> IF ins[2] = "rbp" THEN 0 ELSE S[k + 1]
    [] ins[1] = "add_int" /\ ins[3] = "rsp" ->
         IF \E w \in Int : ins[2] = 8 * w /\ k + w >= 1 THEN S[k + ins[2] \div 8] ELSE 0
    [] ins[1] = "mov" /\ ins[3] \in {"rsp", "rbp"} -> 0
    [] ins[1] = "spill" -> IF ins[2] \in Int /\ (8 * k <= ins[2] \/ ins[2] + 16 <= 8 * k)
                           THEN S[k] ELSE 0
    [] OTHER -> S[k]

\* rax after an instruction has the address of n bytes of a variable; E has the
\* function's slots and the global variables.
Rax(E, ins, S, n) ==
  \/ n = 0
  \/ /\ ins[1] \in {"push", "push_int", "store", "spill", "reload", "cmp", "cmp_int", "jmp", "jcc"}
     /\ n <= S[0]
  \/ ins[1] \in {"mov", "mov_int"} /\ ins[3] \notin {"rax", "rbp"} /\ n <= S[0]
  \/ ins[1] = "pop" /\ ins[2] # "rbp" /\ n <= IF ins[2] = "rax" THEN S[1] ELSE S[0]
  \/ ins[1] = "add_int" /\ ins[3] = "rsp" /\ n <= S[0]
  \/ ins[1] = "add_int" /\ ins[2] \in Nat /\ ins[3] = "rax" /\ n + ins[2] <= S[0]
  \/ /\ ins[1] = "lea"
     /\ \E x \in DOMAIN E.slots : /\ ins[2] = -E.slots[x].offset
                                  /\ SizeOf(E.slots[x].typ) \in Nat
                                  /\ n <= SizeOf(E.slots[x].typ)
  \/ /\ ins[1] = "lea_rip"
     /\ \E g \in E.globals : /\ ins[2] = g.name
                             /\ SizeOf(GlobalType(g)) \in Nat /\ n <= SizeOf(GlobalType(g))

Yields(E, ins, S, T) ==
  Rax(E, ins, S, T[0]) /\ \A k \in Nat \ {0} : T[k] <= WordAfter(ins, S, k)

\* Where an instruction leads to, counted from where it is.
Leaps(ins) ==
  CASE ins[1] = "jmp" -> {1 + ins[2]}
    [] ins[1] = "jcc" -> {1, 1 + ins[3]}
    [] ins[1] \in {"ret", "break", "continue", "stop"} -> {}
    [] OTHER -> {1}

\* What is stored is stored at an address with room for it.
Fits(ins, S) == ins[1] = "store" => ins[2] <= S[0]

\* e has what is known right before each instruction of c and, last, behind c.
Tracks(E, c, e, i) ==
  /\ Fits(c[i], e[i])
  /\ \A o \in Leaps(c[i]) :
       o \in Int /\ i + o \in 1 .. Len(c) + 1 /\ Yields(E, c[i], e[i], e[i + o])

\* From S the code c leads to T.
Knows(E, c, S, T, e) ==
  /\ e \in [Int -> Shape] /\ Le(e[1], S) /\ e[Len(c) + 1] = T
  /\ \A i \in 1 .. Len(c) : Tracks(E, c, e, i)
Keeps(E, c, S, T) == IsSeq(c) /\ S \in Shape /\ T \in Shape /\ \E e : Knows(E, c, S, T, e)

\* c takes k words from the operand stack, leaves j in their place, and what is below
\* keeps what is known of it.
Above(E, c, k, j) == k \in Nat /\ j \in Nat /\ \A S \in Shape : Keeps(E, c, Lift(k, S), Lift(j, S))

LEMMA LeTrans ==
  ASSUME NEW S \in Shape, NEW T \in Shape, NEW U \in Shape, Le(S, T), Le(T, U)
  PROVE  Le(S, U)
<1> SUFFICES ASSUME NEW k \in Nat PROVE S[k] <= U[k]
  BY DEF Le
<1>1. S[k] \in Nat /\ T[k] \in Nat /\ U[k] \in Nat
  BY DEF Shape
<1>2. S[k] <= T[k] /\ T[k] <= U[k]
  BY DEF Le
<1> QED
  BY <1>1, <1>2

LEMMA LeSame ==
  ASSUME NEW S \in Shape
  PROVE  Le(S, S)
BY DEF Le, Shape

\* The shapes that the code has.
LEMMA Shapes ==
  /\ Blank \in Shape
  /\ \A S \in Shape : \A n \in Nat : Lift(n, S) \in Shape /\ At(n, S) \in Shape /\ Onto(n, S) \in Shape
<1>1. Blank \in Shape
  BY DEF Blank, Shape
<1>2. ASSUME NEW S \in Shape, NEW n \in Nat
      PROVE  Lift(n, S) \in Shape /\ At(n, S) \in Shape /\ Onto(n, S) \in Shape
  <2>1. \A k \in Nat : S[k] \in Nat
    BY DEF Shape
  <2>2. Lift(n, S) \in Shape
    <3>1. \A k \in Nat : ~ (k <= n) => k - n \in Nat
      OBVIOUS
    <3> QED
      BY <2>1, <3>1 DEF Lift, Shape
  <2>3. At(n, S) \in Shape
    BY <2>1 DEF At, Shape
  <2>4. Onto(n, S) \in Shape
    <3>1. \A k \in Nat : k # 0 => k - 1 \in Nat
      OBVIOUS
    <3> QED
      BY <2>1, <3>1 DEF Onto, Shape
  <2> QED
    BY <2>2, <2>3, <2>4
<1> QED
  BY <1>1, <1>2

\* What is known of a word is a number.
LEMMA WordAfterNat ==
  ASSUME NEW ins, NEW S \in Shape, NEW k \in Nat \ {0}
  PROVE  WordAfter(ins, S, k) \in Nat
<1>1. \A j \in Nat : S[j] \in Nat
  BY DEF Shape
<1>2. k - 1 \in Nat /\ k + 1 \in Nat /\ 0 \in Nat /\ k \in Nat
  OBVIOUS
<1>3. ASSUME NEW w \in Int, ins[2] = 8 * w, k + w >= 1 PROVE k + ins[2] \div 8 \in Nat
  <2>1. (8 * w) \div 8 = w
    OBVIOUS
  <2> QED
    BY <1>3, <2>1
<1> QED
  BY <1>1, <1>2, <1>3 DEF WordAfter

\* Less may be known than an instruction gives.
LEMMA YieldsLess ==
  ASSUME NEW E, NEW ins, NEW S \in Shape, NEW T \in Shape, NEW U \in Shape,
         Yields(E, ins, S, T), Le(U, T)
  PROVE  Yields(E, ins, S, U)
<1>1. \A k \in Nat : U[k] \in Nat /\ T[k] \in Nat /\ S[k] \in Nat /\ U[k] <= T[k]
  BY DEF Shape, Le
<1>2. ASSUME NEW k \in Nat \ {0} PROVE U[k] <= WordAfter(ins, S, k)
  <2>1. T[k] <= WordAfter(ins, S, k) /\ U[k] <= T[k] /\ U[k] \in Nat /\ T[k] \in Nat
    BY <1>1 DEF Yields
  <2> QED
    BY <2>1, WordAfterNat
<1>3. Rax(E, ins, S, U[0])
  <2>1. Rax(E, ins, S, T[0]) /\ U[0] \in Nat /\ T[0] \in Nat /\ U[0] <= T[0]
        /\ S[0] \in Nat /\ S[1] \in Nat
    BY <1>1 DEF Yields
  <2>2. CASE T[0] = 0
    <3>1. U[0] = 0
      BY <2>1, <2>2
    <3> QED
      BY <3>1 DEF Rax
  <2>3. CASE ins[1] = "add_int" /\ ins[2] \in Nat /\ ins[3] = "rax" /\ T[0] + ins[2] <= S[0]
    <3>1. U[0] + ins[2] <= S[0]
      BY <2>1, <2>3
    <3> QED
      BY <2>3, <3>1 DEF Rax
  <2>4. CASE /\ ins[1] = "lea"
             /\ \E x \in DOMAIN E.slots : /\ ins[2] = -E.slots[x].offset
                                          /\ SizeOf(E.slots[x].typ) \in Nat
                                          /\ T[0] <= SizeOf(E.slots[x].typ)
    <3>1. PICK x \in DOMAIN E.slots : /\ ins[2] = -E.slots[x].offset
                                     /\ SizeOf(E.slots[x].typ) \in Nat
                                     /\ T[0] <= SizeOf(E.slots[x].typ)
      BY <2>4
    <3>2. U[0] <= SizeOf(E.slots[x].typ)
      BY <2>1, <3>1
    <3> QED
      BY <2>4, <3>1, <3>2, Zenon DEF Rax
  <2>5. CASE /\ ins[1] = "lea_rip"
             /\ \E g \in E.globals : /\ ins[2] = g.name
                                     /\ SizeOf(GlobalType(g)) \in Nat
                                     /\ T[0] <= SizeOf(GlobalType(g))
    <3>1. PICK g \in E.globals : /\ ins[2] = g.name
                                /\ SizeOf(GlobalType(g)) \in Nat
                                /\ T[0] <= SizeOf(GlobalType(g))
      BY <2>5
    <3>2. U[0] <= SizeOf(GlobalType(g))
      BY <2>1, <3>1
    <3> QED
      BY <2>5, <3>1, <3>2, Zenon DEF Rax
  <2>6. \A n \in Nat : T[0] <= n => U[0] <= n
    BY <2>1
  <2>7. CASE ins[1] = "pop" /\ ins[2] # "rbp" /\ T[0] <= IF ins[2] = "rax" THEN S[1] ELSE S[0]
    BY <2>1, <2>6, <2>7 DEF Rax
  <2>8. CASE \/ /\ ins[1] \in {"push", "push_int", "store", "spill", "reload", "cmp",
                                "cmp_int", "jmp", "jcc"}
                /\ T[0] <= S[0]
             \/ ins[1] \in {"mov", "mov_int"} /\ ins[3] \notin {"rax", "rbp"} /\ T[0] <= S[0]
             \/ ins[1] = "add_int" /\ ins[3] = "rsp" /\ T[0] <= S[0]
    <3>1. U[0] <= S[0]
      BY <2>1, <2>8
    <3> QED
      BY <2>8, <3>1 DEF Rax
  <2> QED
    BY <2>1, <2>2, <2>3, <2>4, <2>5, <2>7, <2>8 DEF Rax
<1> QED
  BY <1>2, <1>3 DEF Yields

-----------------------------------------------------------------------------
\* Inside of longer code the instructions of c do what they do in c.
LEMMA TracksInside ==
  ASSUME NEW E, NEW c, NEW d \in [Int -> Shape], NEW whole, NEW e \in [Int -> Shape],
         NEW k \in Nat, Len(c) \in Nat, Len(whole) \in Nat,
         k + Len(c) <= Len(whole), NEW i \in 1 .. Len(c),
         whole[k + i] = c[i], Tracks(E, c, d, i),
         \A j \in 1 .. Len(c) : e[k + j] = d[j],
         Le(e[k + (Len(c) + 1)], d[Len(c) + 1])
  PROVE  Tracks(E, whole, e, k + i)
<1>1. e[k + i] = d[i] /\ c[i] = whole[k + i]
  OBVIOUS
<1>2. ASSUME NEW o \in Leaps(c[i])
      PROVE  o \in Int /\ (k + i) + o \in 1 .. Len(whole) + 1
             /\ Yields(E, c[i], d[i], e[(k + i) + o])
  <2>1. o \in Int /\ i + o \in 1 .. Len(c) + 1 /\ Yields(E, c[i], d[i], d[i + o])
    BY DEF Tracks
  <2>2. (k + i) + o = k + (i + o) /\ k + (i + o) \in 1 .. Len(whole) + 1
        /\ k + (i + o) \in Int /\ i + o \in Int /\ i \in Int
    BY <2>1
  <2>3. e[k + (i + o)] \in Shape /\ d[i + o] \in Shape /\ d[i] \in Shape
    BY <2>2
  <2>4. Le(e[k + (i + o)], d[i + o])
    <3>1. CASE i + o = Len(c) + 1
      BY <3>1
    <3>2. CASE i + o \in 1 .. Len(c)
      BY <2>3, <3>2, LeSame
    <3>3. \A x \in Int : \A n \in Nat : x \in 1 .. n + 1 => x = n + 1 \/ x \in 1 .. n
      OBVIOUS
    <3>4. i + o = Len(c) + 1 \/ i + o \in 1 .. Len(c)
      BY <2>1, <2>2, <3>3
    <3> QED
      BY <3>1, <3>2, <3>4
  <2>5. Yields(E, c[i], d[i], e[k + (i + o)])
    BY <2>1, <2>3, <2>4, YieldsLess
  <2> QED
    BY <2>1, <2>2, <2>5
<1>3. Fits(c[i], d[i])
  BY DEF Tracks
<1> QED
  BY <1>1, <1>2, <1>3 DEF Tracks

\* No code: less may be known than is.
LEMMA KeepsNothing ==
  ASSUME NEW E, NEW S \in Shape, NEW T \in Shape, Le(T, S)
  PROVE  Keeps(E, <<>>, S, T)
<1> DEFINE e == [i \in Int |-> T]
<1>1. IsSeq(<<>>) /\ Len(<<>>) = 0
  <2>1. <<>> \in Seq({})
    OBVIOUS
  <2> QED
    BY <2>1, SeqHasRange
<1>2. e \in [Int -> Shape] /\ e[1] = T
  OBVIOUS
<1> HIDE DEF e
<1>3. Knows(E, <<>>, S, T, e)
  BY <1>1, <1>2 DEF Knows
<1> QED
  BY <1>1, <1>3 DEF Keeps

\* The code of a single instruction.
LEMMA KeepsOne ==
  ASSUME NEW E, NEW ins, NEW S \in Shape, NEW T \in Shape, Fits(ins, S),
         Leaps(ins) = {} \/ (Leaps(ins) = {1} /\ Yields(E, ins, S, T))
  PROVE  Keeps(E, <<ins>>, S, T)
<1> DEFINE c == <<ins>>
           e == [i \in Int |-> IF i = 1 THEN S ELSE T]
<1>1. IsSeq(c) /\ Len(c) = 1 /\ c[1] = ins
  BY One
<1>2. e \in [Int -> Shape] /\ e[1] = S /\ e[1 + 1] = T
  OBVIOUS
<1> HIDE DEF c, e
<1>3. Tracks(E, c, e, 1)
  BY <1>1, <1>2 DEF Tracks
<1>4. Knows(E, c, S, T, e)
  BY <1>1, <1>2, <1>3, LeSame DEF Knows
<1> QED
  BY <1>1, <1>4 DEF Keeps, c

\* Where one piece of code ends with what another one starts with, it may stand
\* before it.
LEMMA KeepsSequence ==
  ASSUME NEW E, NEW s, NEW t, NEW S, NEW M, NEW T, Keeps(E, s, S, M), Keeps(E, t, M, T)
  PROVE  Keeps(E, s \o t, S, T)
<1>1. PICK d : Knows(E, s, S, M, d)
  BY DEF Keeps
<1>2. PICK f : Knows(E, t, M, T, f)
  BY DEF Keeps
<1>3. IsSeq(s) /\ IsSeq(t) /\ Len(s) \in Nat /\ Len(t) \in Nat
      /\ S \in Shape /\ M \in Shape /\ T \in Shape
  BY SeqFacts DEF Keeps
<1> DEFINE c == s \o t
           n == Len(s)
           e == [i \in Int |-> IF i <= n THEN d[i] ELSE f[i - n]]
<1>4. IsSeq(c) /\ Len(c) = n + Len(t) /\ (\A i \in 1 .. n : c[i] = s[i])
      /\ \A i \in 1 .. Len(t) : c[n + i] = t[i]
  BY <1>3, Concat
<1>5. d \in [Int -> Shape] /\ Le(d[1], S) /\ d[n + 1] = M /\ \A i \in 1 .. n : Tracks(E, s, d, i)
  BY <1>1 DEF Knows
<1>6. f \in [Int -> Shape] /\ Le(f[1], M) /\ f[Len(t) + 1] = T
      /\ \A i \in 1 .. Len(t) : Tracks(E, t, f, i)
  BY <1>2 DEF Knows
<1>n. n \in Nat
  BY <1>3
<1> HIDE DEF c, n
<1>7. e \in [Int -> Shape] /\ (\A i \in 1 .. n : e[0 + i] = d[i])
      /\ \A i \in 1 .. Len(t) + 1 : e[n + i] = f[i]
  BY <1>3, <1>5, <1>6, <1>n
<1> HIDE DEF e
<1>8. Le(e[1], S)
  <2>1. CASE n = 0
    <3>1. e[n + 1] = f[1] /\ e[n + 1] = e[1] /\ d[n + 1] = d[1]
      BY <1>3, <1>7, <2>1
    <3>2. f[1] \in Shape /\ d[1] \in Shape
      BY <1>5, <1>6
    <3> QED
      BY <1>3, <1>5, <1>6, <3>1, <3>2, LeTrans
  <2>2. CASE n > 0
    <3>1. e[0 + 1] = d[1]
      BY <1>7, <1>n, <2>2
    <3> QED
      BY <1>5, <3>1
  <2> QED
    BY <1>n, <2>1, <2>2
<1>9. e[Len(c) + 1] = T
  <2>1. e[n + (Len(t) + 1)] = f[Len(t) + 1]
    BY <1>3, <1>7
  <2>2. n + (Len(t) + 1) = Len(c) + 1
    BY <1>3, <1>4, <1>n
  <2> QED
    BY <1>6, <2>1, <2>2
<1>10. ASSUME NEW i \in 1 .. n PROVE Tracks(E, c, e, i)
  <2>1. c[0 + i] = s[i] /\ Tracks(E, s, d, i) /\ 0 + Len(s) <= Len(c) /\ Len(c) \in Nat
    BY <1>3, <1>4, <1>5, <1>n DEF n
  <2>2. i \in 1 .. Len(s) /\ \A j \in 1 .. Len(s) : e[0 + j] = d[j]
    BY <1>7 DEF n
  <2>3. Le(e[0 + (Len(s) + 1)], d[Len(s) + 1])
    <3>1. e[n + 1] = f[1] /\ 0 + (n + 1) = n + 1
      BY <1>3, <1>7, <1>n
    <3> QED
      BY <1>5, <1>6, <3>1 DEF n
  <2>4. Tracks(E, c, e, 0 + i)
    BY <1>3, <1>5, <1>7, <2>1, <2>2, <2>3, TracksInside
  <2> QED
    BY <1>n, <2>4
<1>11. ASSUME NEW i \in 1 .. Len(t) PROVE Tracks(E, c, e, n + i)
  <2>1. n + Len(t) <= Len(c) /\ Len(c) \in Nat
    BY <1>3, <1>4, <1>n
  <2>2. c[n + i] = t[i] /\ Tracks(E, t, f, i)
    BY <1>4, <1>6
  <2>3. e[n + (Len(t) + 1)] = f[Len(t) + 1] /\ f[Len(t) + 1] \in Shape
    BY <1>3, <1>6, <1>7
  <2>4. Le(e[n + (Len(t) + 1)], f[Len(t) + 1])
    BY <2>3, LeSame
  <2>5. \A j \in 1 .. Len(t) : e[n + j] = f[j]
    BY <1>3, <1>7
  <2>6. Len(t) \in Nat /\ e \in [Int -> Shape] /\ f \in [Int -> Shape]
    BY <1>3, <1>6, <1>7
  <2> QED
    BY <1>n, <2>1, <2>2, <2>4, <2>5, <2>6, TracksInside
<1>12. ASSUME NEW i \in 1 .. Len(c) PROVE Tracks(E, c, e, i)
  <2>1. CASE i <= n
    BY <1>10, <1>n, <2>1
  <2>2. CASE i > n
    <3>1. i - n \in 1 .. Len(t) /\ i = n + (i - n)
      BY <1>3, <1>4, <1>n, <2>2
    <3> QED
      BY <1>11, <3>1
  <2> QED
    BY <1>n, <2>1, <2>2
<1>13. Knows(E, c, S, T, e)
  BY <1>7, <1>8, <1>9, <1>12 DEF Knows
<1> QED
  BY <1>3, <1>4, <1>13 DEF Keeps, c

\* More may be known before, less behind.
LEMMA KeepsLess ==
  ASSUME NEW E, NEW c, NEW S, NEW T, Keeps(E, c, S, T),
         NEW U \in Shape, Le(S, U), NEW V \in Shape, Le(V, T)
  PROVE  Keeps(E, c, U, V)
<1>1. S \in Shape /\ T \in Shape /\ IsSeq(c)
  BY DEF Keeps
<1>2. Keeps(E, <<>>, U, S) /\ Keeps(E, <<>>, T, V)
  BY <1>1, KeepsNothing
<1>3. Keeps(E, <<>> \o c, U, T)
  BY <1>2, KeepsSequence
<1>4. Keeps(E, (<<>> \o c) \o <<>>, U, V)
  BY <1>2, <1>3, KeepsSequence
<1>5. (<<>> \o c) \o <<>> = c
  <2>1. \A s : IsSeq(s) => <<>> \o s = s /\ s \o <<>> = s
    <3> SUFFICES ASSUME NEW s, IsSeq(s) PROVE <<>> \o s = s /\ s \o <<>> = s
      OBVIOUS
    <3>1. IsSeq(<<>>) /\ Len(<<>>) = 0 /\ Len(s) \in Nat
      BY Empty, SeqFacts DEF Balanced
    <3>2. /\ IsSeq(<<>> \o s) /\ Len(<<>> \o s) = 0 + Len(s)
          /\ \A i \in 1 .. Len(s) : (<<>> \o s)[0 + i] = s[i]
      BY <3>1, Concat
    <3>3. /\ IsSeq(s \o <<>>) /\ Len(s \o <<>>) = Len(s) + 0
          /\ \A i \in 1 .. Len(s) : (s \o <<>>)[i] = s[i]
      BY <3>1, Concat
    <3>4. Len(<<>> \o s) = Len(s) /\ Len(s \o <<>>) = Len(s)
      BY <3>1, <3>2, <3>3
    <3>5. \A i \in 1 .. Len(s) : (<<>> \o s)[i] = s[i]
      BY <3>1, <3>2
    <3> QED
      BY <3>2, <3>3, <3>4, <3>5, SameSeq
  <2> QED
    BY <1>1, <2>1
<1> QED
  BY <1>4, <1>5

\* A jump keeps what is known.
LEMMA JumpsKeep ==
  ASSUME NEW E, NEW ins, ins[1] \in {"jmp", "jcc"}, NEW S \in Shape
  PROVE  Yields(E, ins, S, S) /\ Fits(ins, S)
<1>1. \A k \in Nat : S[k] \in Nat
  BY DEF Shape
<1>2. Rax(E, ins, S, S[0])
  BY <1>1 DEF Rax
<1>3. ASSUME NEW k \in Nat \ {0} PROVE S[k] <= WordAfter(ins, S, k)
  BY <1>1 DEF WordAfter
<1> QED
  BY <1>2, <1>3 DEF Yields, Fits

\* One of two pieces of code.
LEMMA KeepsEither ==
  ASSUME NEW E, NEW x, NEW s, NEW t, NEW S, NEW T, Keeps(E, s, S, T), Keeps(E, t, S, T)
  PROVE  Keeps(E, ((<<<<"jcc", x, Len(s) + 1>>>> \o s) \o <<<<"jmp", Len(t)>>>>) \o t, S, T)
<1> DEFINE J == <<"jcc", x, Len(s) + 1>>
           M == <<"jmp", Len(t)>>
           p == Len(s)
           q == Len(t)
           c1 == <<J>> \o s
           c2 == c1 \o <<M>>
           c == c2 \o t
<1>1. PICK d : Knows(E, s, S, T, d)
  BY DEF Keeps
<1>2. PICK f : Knows(E, t, S, T, f)
  BY DEF Keeps
<1>3. IsSeq(s) /\ IsSeq(t) /\ p \in Nat /\ q \in Nat /\ S \in Shape /\ T \in Shape
  BY SeqFacts DEF Keeps
<1>4. d \in [Int -> Shape] /\ Le(d[1], S) /\ d[p + 1] = T /\ \A i \in 1 .. p : Tracks(E, s, d, i)
  BY <1>1 DEF Knows
<1>5. f \in [Int -> Shape] /\ Le(f[1], S) /\ f[q + 1] = T /\ \A i \in 1 .. q : Tracks(E, t, f, i)
  BY <1>2 DEF Knows
<1> HIDE DEF J, M
<1>6. IsSeq(c1) /\ Len(c1) = p + 1 /\ c1[1] = J /\ \A i \in 1 .. p : c1[1 + i] = s[i]
  BY <1>3, OneConcat
<1> HIDE DEF c1
<1>7. IsSeq(c2) /\ Len(c2) = p + 2 /\ c2[p + 2] = M /\ \A i \in 1 .. p + 1 : c2[i] = c1[i]
  <2>1. /\ IsSeq(c1 \o <<M>>) /\ Len(c1 \o <<M>>) = Len(c1) + 1
        /\ (c1 \o <<M>>)[Len(c1) + 1] = M
        /\ \A i \in 1 .. Len(c1) : (c1 \o <<M>>)[i] = c1[i]
    BY <1>6, ConcatOne
  <2>2. (p + 1) + 1 = p + 2
    BY <1>3
  <2>3. c2 = c1 \o <<M>>
    BY DEF c2
  <2> HIDE DEF p, c2
  <2>4. /\ IsSeq(c2) /\ Len(c2) = Len(c1) + 1 /\ c2[Len(c1) + 1] = M
        /\ \A i \in 1 .. Len(c1) : c2[i] = c1[i]
    BY <2>1, <2>3, Zenon
  <2> QED
    BY <1>6, <2>2, <2>4
<1> HIDE DEF c2
<1>8. /\ IsSeq(c) /\ Len(c) = p + 2 + q
      /\ \A i \in 1 .. p + 2 : c[i] = c2[i]
      /\ \A i \in 1 .. q : c[p + 2 + i] = t[i]
  <2>1. /\ IsSeq(c2 \o t) /\ Len(c2 \o t) = Len(c2) + Len(t)
        /\ \A i \in 1 .. Len(c2) : (c2 \o t)[i] = c2[i]
        /\ \A i \in 1 .. Len(t) : (c2 \o t)[Len(c2) + i] = t[i]
    <3>1. IsSeq(c2) /\ IsSeq(t)
      BY <1>3, <1>7
    <3> QED
      BY <3>1, Concat
  <2>2. c = c2 \o t
    BY DEF c
  <2> HIDE DEF p, c
  <2>3. /\ IsSeq(c) /\ Len(c) = Len(c2) + Len(t)
        /\ \A i \in 1 .. Len(c2) : c[i] = c2[i]
        /\ \A i \in 1 .. Len(t) : c[Len(c2) + i] = t[i]
    BY <2>1, <2>2, Zenon
  <2> QED
    BY <1>7, <2>3 DEF q
<1> HIDE DEF c
<1>9. /\ c[1] = J /\ c[p + 2] = M
      /\ \A i \in 1 .. p : c[1 + i] = s[i]
  <2>1. p \in Nat
    BY <1>3
  <2> HIDE DEF p
  <2>2. 1 \in 1 .. p + 2 /\ 1 \in 1 .. p + 1 /\ p + 2 \in 1 .. p + 2
    BY <2>1
  <2>3. c[1] = J /\ c[p + 2] = M
    BY <1>6, <1>7, <1>8, <2>2
  <2>4. ASSUME NEW i \in 1 .. p PROVE c[1 + i] = s[i]
    <3>1. 1 + i \in 1 .. p + 2 /\ 1 + i \in 1 .. p + 1
      BY <2>1
    <3>2. c[1 + i] = c2[1 + i] /\ c2[1 + i] = c1[1 + i] /\ c1[1 + i] = s[i]
      BY <1>6, <1>7, <1>8, <3>1
    <3> QED
      BY <3>2
  <2> QED
    BY <2>3, <2>4
<1>10. J[1] = "jcc" /\ J[3] = p + 1 /\ M[1] = "jmp" /\ M[2] = q
  BY DEF J, M
<1> DEFINE e == [i \in Int |-> IF i <= 1 THEN S ELSE IF i <= p + 1 THEN d[i - 1] ELSE
                               IF i = p + 2 THEN T ELSE f[i - (p + 2)]]
<1>n. p \in Nat /\ q \in Nat
  BY <1>3
<1> HIDE DEF p, q
<1>11. e \in [Int -> Shape] /\ e[1] = S /\ e[p + 2] = T
  BY <1>3, <1>4, <1>5, <1>n
<1>12. \A i \in 1 .. p : e[1 + i] = d[i]
  BY <1>n
<1>13. \A i \in 1 .. q + 1 : e[p + 2 + i] = f[i]
  <2>1. ASSUME NEW i \in 1 .. q + 1 PROVE e[p + 2 + i] = f[i]
    <3>1. p + 2 + i \in Int /\ ~ (p + 2 + i <= 1) /\ ~ (p + 2 + i <= p + 1)
          /\ p + 2 + i # p + 2 /\ (p + 2 + i) - (p + 2) = i
      BY <1>n
    <3> QED
      BY <3>1
  <2> QED
    BY <2>1
<1> HIDE DEF e
<1>14. e[p + 3] = f[1] /\ e[Len(c) + 1] = T
  <2>1. e[(p + 2) + 1] = f[1] /\ e[(p + 2) + (q + 1)] = f[q + 1]
    BY <1>n, <1>13
  <2>2. (p + 2) + 1 = p + 3 /\ (p + 2) + (q + 1) = Len(c) + 1
    BY <1>n, <1>8
  <2> QED
    BY <1>5, <2>1, <2>2
<1>15. Tracks(E, c, e, 1)
  <2>1. Yields(E, J, S, S) /\ Fits(J, S)
    BY <1>3, <1>10, JumpsKeep
  <2>2. Le(e[2], S) /\ e[2] \in Shape
    <3>1. CASE p = 0
      <4>1. p + 2 = 2 /\ p + 1 = 1
        BY <3>1
      <4>2. e[2] = T /\ d[1] = T
        BY <1>4, <1>11, <4>1
      <4> QED
        BY <1>3, <1>4, <4>2
    <3>2. CASE p > 0
      <4>1. 1 \in 1 .. p
        BY <1>n, <3>2
      <4>2. e[1 + 1] = d[1] /\ 1 + 1 = 2
        BY <1>12, <4>1
      <4>3. e[2] = d[1]
        BY <4>2
      <4> QED
        BY <1>4, <4>3
    <3> QED
      BY <1>n, <3>1, <3>2
  <2>3. Yields(E, J, S, e[2]) /\ Yields(E, J, S, e[p + 3])
    <3>1. Le(e[p + 3], S) /\ e[p + 3] \in Shape
      BY <1>5, <1>14
    <3> QED
      BY <1>3, <2>1, <2>2, <3>1, YieldsLess
  <2>4. ASSUME NEW o \in Leaps(J)
        PROVE  o \in Int /\ 1 + o \in 1 .. Len(c) + 1 /\ Yields(E, J, S, e[1 + o])
    <3>1. o = 1 \/ o = 1 + (p + 1)
      BY <1>10 DEF Leaps
    <3>2. 1 + 1 = 2 /\ 1 + (1 + (p + 1)) = p + 3 /\ 2 \in 1 .. Len(c) + 1 /\ p + 3 \in 1 .. Len(c) + 1
      BY <1>8, <1>n
    <3> QED
      BY <1>n, <2>3, <3>1, <3>2
  <2> QED
    BY <1>9, <1>11, <2>1, <2>4 DEF Tracks
<1>16. Tracks(E, c, e, p + 2)
  <2>1. Yields(E, M, T, T) /\ Fits(M, T)
    BY <1>3, <1>10, JumpsKeep
  <2>2. (p + 2) + (1 + q) = Len(c) + 1 /\ Len(c) + 1 \in 1 .. Len(c) + 1 /\ 1 + q \in Int
    BY <1>n, <1>8
  <2>3. Leaps(M) = {1 + q}
    BY <1>10 DEF Leaps
  <2> QED
    BY <1>9, <1>11, <1>14, <2>1, <2>2, <2>3 DEF Tracks
<1>17. ASSUME NEW i \in 1 .. p PROVE Tracks(E, c, e, 1 + i)
  <2>1. 1 + Len(s) <= Len(c) /\ Len(c) \in Nat /\ Len(s) \in Nat
    BY <1>n, <1>8 DEF p
  <2>2. i \in 1 .. Len(s) /\ c[1 + i] = s[i] /\ Tracks(E, s, d, i)
        /\ \A j \in 1 .. Len(s) : e[1 + j] = d[j]
    BY <1>4, <1>9, <1>12 DEF p
  <2>3. Le(e[1 + (Len(s) + 1)], d[Len(s) + 1])
    <3>1. 1 + (p + 1) = p + 2
      BY <1>n
    <3> QED
      BY <1>3, <1>4, <1>11, <3>1, LeSame DEF p
  <2> QED
    BY <1>4, <1>11, <2>1, <2>2, <2>3, TracksInside
<1>18. ASSUME NEW i \in 1 .. q PROVE Tracks(E, c, e, p + 2 + i)
  <2>1. p + 2 + Len(t) <= Len(c) /\ Len(c) \in Nat /\ Len(t) \in Nat /\ p + 2 \in Nat
    BY <1>n, <1>8 DEF q
  <2>2. i \in 1 .. Len(t) /\ c[p + 2 + i] = t[i] /\ Tracks(E, t, f, i)
        /\ \A j \in 1 .. Len(t) : e[p + 2 + j] = f[j]
    BY <1>5, <1>8, <1>13, <1>n DEF q
  <2>3. Le(e[p + 2 + (Len(t) + 1)], f[Len(t) + 1])
    <3>1. e[p + 2 + (q + 1)] = f[q + 1] /\ f[q + 1] \in Shape
      BY <1>5, <1>13, <1>n
    <3> QED
      BY <3>1, LeSame DEF q
  <2> QED
    BY <1>5, <1>11, <2>1, <2>2, <2>3, TracksInside
<1>19. ASSUME NEW i \in 1 .. Len(c) PROVE Tracks(E, c, e, i)
  <2>1. CASE i = 1 \/ i = p + 2
    BY <1>15, <1>16, <2>1
  <2>2. CASE i \in 2 .. p + 1
    <3>1. i - 1 \in 1 .. p /\ i = 1 + (i - 1)
      BY <1>n, <2>2
    <3> QED
      BY <1>17, <3>1
  <2>3. CASE i > p + 2
    <3>1. i - (p + 2) \in 1 .. q /\ i = (p + 2) + (i - (p + 2))
      BY <1>n, <1>8, <2>3
    <3> QED
      BY <1>18, <3>1
  <2> QED
    BY <1>n, <2>1, <2>2, <2>3
<1>20. Knows(E, c, S, T, e)
  BY <1>3, <1>11, <1>14, <1>19, LeSame DEF Knows
<1>21. Keeps(E, c, S, T)
  BY <1>3, <1>8, <1>20 DEF Keeps
<1> QED
  BY <1>21 DEF c, c2, c1, J, M, p, q

\* A loop: the test, the body, and back to the test.
LEMMA KeepsLoop ==
  ASSUME NEW E, NEW s, NEW t, Keeps(E, s, Blank, Blank), Keeps(E, t, Blank, Blank)
  PROVE  LET enter == s \o <<<<"jcc", "e", Len(t) + 1>>>>
         IN Keeps(E, (enter \o t) \o <<<<"jmp", -(Len(enter) + Len(t) + 1)>>>>, Blank, Blank)
<1> DEFINE J == <<"jcc", "e", Len(t) + 1>>
           p == Len(s)
           q == Len(t)
           c1 == s \o <<J>>
           M == <<"jmp", -(Len(c1) + q + 1)>>
           c2 == c1 \o t
           c == c2 \o <<M>>
           B == Blank
<1> HIDE DEF B
<1>1. PICK d : Knows(E, s, B, B, d)
  BY DEF Keeps, B
<1>2. PICK f : Knows(E, t, B, B, f)
  BY DEF Keeps, B
<1>3. IsSeq(s) /\ IsSeq(t) /\ p \in Nat /\ q \in Nat /\ B \in Shape
  BY SeqFacts, Shapes DEF Keeps, B
<1>s. IsSeq(s) /\ IsSeq(t)
  BY <1>3
<1>4. d \in [Int -> Shape] /\ Le(d[1], B) /\ d[p + 1] = B /\ \A i \in 1 .. p : Tracks(E, s, d, i)
  BY <1>1 DEF Knows
<1>5. f \in [Int -> Shape] /\ Le(f[1], B) /\ f[q + 1] = B /\ \A i \in 1 .. q : Tracks(E, t, f, i)
  BY <1>2 DEF Knows
<1>6. IsSeq(c1) /\ Len(c1) = p + 1 /\ c1[p + 1] = J /\ \A i \in 1 .. p : c1[i] = s[i]
  <2> HIDE DEF J
  <2> QED
    BY <1>s, ConcatOne
<1>t. IsSeq(c1)
  BY <1>6
<1>7. /\ IsSeq(c2) /\ Len(c2) = p + 1 + q
      /\ \A i \in 1 .. p + 1 : c2[i] = c1[i]
      /\ \A i \in 1 .. q : c2[p + 1 + i] = t[i]
  <2> HIDE DEF c1, J, p, q
  <2>1. /\ IsSeq(c2) /\ Len(c2) = Len(c1) + Len(t)
        /\ \A i \in 1 .. Len(c1) : c2[i] = c1[i]
        /\ \A i \in 1 .. Len(t) : c2[Len(c1) + i] = t[i]
    BY <1>s, <1>t, Concat
  <2> HIDE DEF c2
  <2> QED
    BY <1>6, <2>1 DEF q
<1>u. IsSeq(c2)
  BY <1>7
<1>8. IsSeq(c) /\ Len(c) = p + q + 2 /\ c[p + q + 2] = M /\ \A i \in 1 .. p + 1 + q : c[i] = c2[i]
  <2> HIDE DEF c2, M, p, q
  <2>1. /\ IsSeq(c) /\ Len(c) = Len(c2) + 1 /\ c[Len(c2) + 1] = M
        /\ \A i \in 1 .. Len(c2) : c[i] = c2[i]
    BY <1>u, ConcatOne
  <2>2. (p + 1 + q) + 1 = p + q + 2
    BY <1>3
  <2> HIDE DEF c
  <2> QED
    BY <1>7, <2>1, <2>2
<1>9. J[1] = "jcc" /\ J[3] = q + 1 /\ M[1] = "jmp" /\ M[2] = -(p + 1 + q + 1)
  <2>1. M[1] = "jmp" /\ M[2] = -(Len(c1) + q + 1)
    <3> HIDE DEF c1, q
    <3> QED
      OBVIOUS
  <2>2. J[1] = "jcc" /\ J[3] = q + 1
    OBVIOUS
  <2> QED
    BY <1>6, <2>1, <2>2
<1> HIDE DEF J, M, c1, c2, c
<1>n. p \in Nat /\ q \in Nat
  BY <1>3
<1> HIDE DEF p, q
<1>10. /\ \A i \in 1 .. p : c[i] = s[i]
       /\ c[p + 1] = J
       /\ \A i \in 1 .. q : c[p + 1 + i] = t[i]
  <2>1. ASSUME NEW i \in 1 .. p PROVE c[i] = s[i]
    <3>1. i \in 1 .. p + 1 /\ i \in 1 .. p + 1 + q
      BY <1>n
    <3> QED
      BY <1>6, <1>7, <1>8, <3>1
  <2>2. c[p + 1] = J
    <3>1. p + 1 \in 1 .. p + 1 /\ p + 1 \in 1 .. p + 1 + q
      BY <1>n
    <3> QED
      BY <1>6, <1>7, <1>8, <3>1
  <2>3. ASSUME NEW i \in 1 .. q PROVE c[p + 1 + i] = t[i]
    <3>1. p + 1 + i \in 1 .. p + 1 + q
      BY <1>n
    <3> QED
      BY <1>7, <1>8, <3>1
  <2> QED
    BY <2>1, <2>2, <2>3
<1> DEFINE e == [i \in Int |-> IF i <= p THEN d[i] ELSE IF i = p + 1 THEN B ELSE
                               IF i <= p + q + 2 THEN f[i - (p + 1)] ELSE B]
<1>11. /\ e \in [Int -> Shape] /\ e[p + 1] = B /\ e[Len(c) + 1] = B
       /\ \A i \in 1 .. p : e[0 + i] = d[i]
  BY <1>3, <1>4, <1>5, <1>8, <1>n
<1>12. ASSUME NEW i \in 1 .. q + 1 PROVE e[p + 1 + i] = f[i]
  <2>1. p + 1 + i \in Int /\ ~ (p + 1 + i <= p) /\ p + 1 + i # p + 1
        /\ p + 1 + i <= p + q + 2 /\ (p + 1 + i) - (p + 1) = i
    BY <1>n
  <2> QED
    BY <2>1
<1>13. Le(e[1], B)
  <2>1. CASE p = 0
    <3>1. e[1] = B
      BY <2>1
    <3> QED
      BY <1>3, <3>1, LeSame
  <2>2. CASE p > 0
    <3>1. e[1] = d[1]
      BY <1>n, <2>2
    <3> QED
      BY <1>4, <3>1
  <2> QED
    BY <1>n, <2>1, <2>2
<1> HIDE DEF e
<1>14. e[p + q + 2] = B /\ e[p + 2] = f[1]
  <2>1. e[p + 1 + 1] = f[1] /\ e[p + 1 + (q + 1)] = f[q + 1]
    BY <1>n, <1>12
  <2>2. p + 1 + (q + 1) = p + q + 2 /\ p + 1 + 1 = p + 2
    BY <1>n
  <2> QED
    BY <1>5, <2>1, <2>2
<1>15. Tracks(E, c, e, p + 1)
  <2>1. Yields(E, J, B, B) /\ Fits(J, B)
    BY <1>3, <1>9, JumpsKeep
  <2>2. Yields(E, J, B, e[p + 2])
    <3>1. Le(e[p + 2], B) /\ e[p + 2] \in Shape
      BY <1>5, <1>14
    <3> QED
      BY <1>3, <2>1, <3>1, YieldsLess
  <2>3. ASSUME NEW o \in Leaps(J)
        PROVE  o \in Int /\ (p + 1) + o \in 1 .. Len(c) + 1 /\ Yields(E, J, B, e[(p + 1) + o])
    <3>1. o = 1 \/ o = 1 + (q + 1)
      BY <1>9 DEF Leaps
    <3>2. (p + 1) + 1 = p + 2 /\ (p + 1) + (1 + (q + 1)) = Len(c) + 1
          /\ p + 2 \in 1 .. Len(c) + 1 /\ Len(c) + 1 \in 1 .. Len(c) + 1
      BY <1>8, <1>n
    <3> QED
      BY <1>11, <1>n, <2>1, <2>2, <3>1, <3>2
  <2> QED
    BY <1>10, <1>11, <2>1, <2>3 DEF Tracks
<1>16. Tracks(E, c, e, p + q + 2)
  <2>1. Yields(E, M, B, B) /\ Fits(M, B)
    BY <1>3, <1>9, JumpsKeep
  <2>2. Yields(E, M, B, e[1])
    <3>1. e[1] \in Shape
      BY <1>11
    <3> QED
      BY <1>3, <1>13, <2>1, <3>1, YieldsLess
  <2>3. Leaps(M) = {1 + (-(p + 1 + q + 1))}
    BY <1>9 DEF Leaps
  <2>4. (p + q + 2) + (1 + (-(p + 1 + q + 1))) = 1 /\ 1 \in 1 .. Len(c) + 1
        /\ 1 + (-(p + 1 + q + 1)) \in Int
    BY <1>8, <1>n
  <2> QED
    BY <1>8, <1>14, <2>1, <2>2, <2>3, <2>4 DEF Tracks
<1>17. ASSUME NEW i \in 1 .. p PROVE Tracks(E, c, e, 0 + i)
  <2>1. 0 + Len(s) <= Len(c) /\ Len(c) \in Nat /\ Len(s) \in Nat /\ 0 + i = i
    BY <1>n, <1>8 DEF p
  <2>2. i \in 1 .. Len(s) /\ c[0 + i] = s[i] /\ Tracks(E, s, d, i)
        /\ \A j \in 1 .. Len(s) : e[0 + j] = d[j]
    BY <1>4, <1>10, <1>11, <2>1 DEF p
  <2>3. Le(e[0 + (Len(s) + 1)], d[Len(s) + 1])
    <3>1. 0 + (p + 1) = p + 1
      BY <1>n
    <3> QED
      BY <1>3, <1>4, <1>11, <3>1, LeSame DEF p
  <2> QED
    BY <1>4, <1>11, <2>1, <2>2, <2>3, TracksInside
<1>18. ASSUME NEW i \in 1 .. q PROVE Tracks(E, c, e, p + 1 + i)
  <2>1. p + 1 + Len(t) <= Len(c) /\ Len(c) \in Nat /\ Len(t) \in Nat /\ p + 1 \in Nat
    BY <1>n, <1>8 DEF q
  <2>2. i \in 1 .. Len(t) /\ c[p + 1 + i] = t[i] /\ Tracks(E, t, f, i)
        /\ \A j \in 1 .. Len(t) : e[p + 1 + j] = f[j]
    <3>1. \A j \in 1 .. q : e[p + 1 + j] = f[j]
      <4>1. \A j \in 1 .. q : j \in 1 .. q + 1
        BY <1>n
      <4> QED
        BY <1>12, <4>1
    <3>2. c[p + 1 + i] = t[i] /\ Tracks(E, t, f, i)
      BY <1>5, <1>10
    <3> QED
      BY <3>1, <3>2 DEF q
  <2>3. Le(e[p + 1 + (Len(t) + 1)], f[Len(t) + 1])
    <3>1. e[p + 1 + (q + 1)] = f[q + 1] /\ f[q + 1] \in Shape
      BY <1>5, <1>12, <1>n
    <3> QED
      BY <3>1, LeSame DEF q
  <2>4. e \in [Int -> Shape] /\ f \in [Int -> Shape]
    BY <1>5, <1>11
  <2> QED
    BY <2>1, <2>2, <2>3, <2>4, TracksInside
<1>19. ASSUME NEW i \in 1 .. Len(c) PROVE Tracks(E, c, e, i)
  <2>1. CASE i = p + 1 \/ i = p + q + 2
    BY <1>15, <1>16, <2>1
  <2>2. CASE i <= p
    <3>1. i \in 1 .. p /\ 0 + i = i
      BY <1>n, <2>2
    <3>2. Tracks(E, c, e, 0 + i)
      BY <1>17, <3>1
    <3> QED
      BY <3>1, <3>2
  <2>3. CASE i \in p + 2 .. p + q + 1
    <3>1. i - (p + 1) \in 1 .. q /\ i = (p + 1) + (i - (p + 1))
      BY <1>n, <2>3
    <3> QED
      BY <1>18, <3>1
  <2>4. i <= p \/ i = p + 1 \/ i \in p + 2 .. p + q + 1 \/ i = p + q + 2
    BY <1>n, <1>8
  <2> QED
    BY <2>1, <2>2, <2>3, <2>4
<1>20. Knows(E, c, B, B, e)
  BY <1>11, <1>13, <1>19 DEF Knows
<1>21. Keeps(E, c, B, B)
  BY <1>3, <1>8, <1>20 DEF Keeps
<1> QED
  BY <1>21 DEF c, c2, c1, J, M, p, q, B

\* Nothing is known: that is right behind any instruction.
LEMMA YieldsNothing ==
  ASSUME NEW E, NEW ins, NEW S \in Shape, NEW T \in Shape, Le(T, Blank)
  PROVE  Yields(E, ins, S, T)
<1>1. ASSUME NEW k \in Nat PROVE T[k] = 0
  <2>1. T[k] \in Nat /\ T[k] <= 0
    BY DEF Shape, Le, Blank
  <2> QED
    BY <2>1
<1>2. Rax(E, ins, S, T[0])
  BY <1>1 DEF Rax
<1>3. ASSUME NEW k \in Nat \ {0} PROVE T[k] <= WordAfter(ins, S, k)
  <2>1. WordAfter(ins, S, k) \in Nat /\ T[k] = 0
    BY <1>1, WordAfterNat
  <2> QED
    BY <2>1
<1> QED
  BY <1>2, <1>3 DEF Yields

\* The label a break or continue jumps to.
LEMMA KeepsLabelled ==
  ASSUME NEW E, NEW s, Keeps(E, s, Blank, Blank), NEW jump \in {"break", "continue"},
         NEW n \in {0, Len(s)}
  PROVE  Keeps(E, Labelled(s, jump, n), Blank, Blank)
<1> DEFINE c == Labelled(s, jump, n)
           B == Blank
<1> HIDE DEF B
<1>1. PICK e : Knows(E, s, B, B, e)
  BY DEF Keeps, B
<1>2. IsSeq(s) /\ Len(s) \in Nat /\ DOMAIN s = 1 .. Len(s) /\ n \in 0 .. Len(s) /\ B \in Shape
  BY SeqFacts DEF Keeps, B
<1>3. e \in [Int -> Shape] /\ Le(e[1], B) /\ e[Len(s) + 1] = B
      /\ \A i \in 1 .. Len(s) : Tracks(E, s, e, i)
  BY <1>1 DEF Knows
<1>4. c = [i \in 1 .. Len(s) |-> c[i]]
      /\ \A i \in 1 .. Len(s) : c[i] = IF s[i] = <<jump>> THEN <<"jmp", n - i>> ELSE s[i]
  <2>1. c = [i \in 1 .. Len(s) |-> IF s[i] = <<jump>> THEN <<"jmp", n - i>> ELSE s[i]]
    BY <1>2 DEF Labelled
  <2> HIDE DEF c
  <2> QED
    BY <2>1
<1> HIDE DEF c
<1>5. IsSeq(c) /\ Len(c) = Len(s)
  BY <1>2, <1>4, FunctionIsSeq
<1> DEFINE m == Len(s)
<1>m. m \in Nat /\ n \in 0 .. m /\ Len(c) = m /\ (n = 0 \/ n = m)
  BY <1>2, <1>5
<1> HIDE DEF m
<1>6. Le(e[n + 1], B) /\ e[n + 1] \in Shape
  <2>1. Le(e[1], B) /\ e[m + 1] = B
    BY <1>3 DEF m
  <2>2. n + 1 \in Int /\ (n + 1 = 1 \/ n + 1 = m + 1)
    BY <1>m
  <2>b. Le(B, B)
    BY <1>2, LeSame
  <2>3. e[n + 1] \in Shape
    BY <1>3, <2>2
  <2>4. CASE n + 1 = 1
    BY <2>1, <2>3, <2>4
  <2>5. CASE n + 1 = m + 1
    BY <2>1, <2>b, <2>3, <2>5
  <2> QED
    BY <2>2, <2>3, <2>4, <2>5
<1>7. ASSUME NEW i \in 1 .. Len(s) PROVE Tracks(E, c, e, i)
  <2>1. CASE s[i] # <<jump>>
    <3>1. c[i] = s[i] /\ Tracks(E, s, e, i)
      BY <1>3, <1>4, <2>1
    <3> QED
      BY <1>5, <3>1 DEF Tracks
  <2>2. CASE s[i] = <<jump>>
    <3>1. c[i] = <<"jmp", n - i>>
      BY <1>4, <2>2
    <3>2. c[i][1] = "jmp" /\ c[i][2] = n - i
      BY <3>1
    <3>3. Leaps(c[i]) = {1 + (n - i)} /\ Fits(c[i], e[i])
      BY <3>2 DEF Leaps, Fits
    <3>4. i + (1 + (n - i)) = n + 1 /\ 1 + (n - i) \in Int /\ n + 1 \in 1 .. Len(c) + 1 /\ i \in Int
      <4>1. i \in 1 .. m
        BY DEF m
      <4> QED
        BY <1>m, <4>1
    <3>5. Yields(E, c[i], e[i], e[n + 1])
      <4>1. e[i] \in Shape
        BY <1>3, <3>4
      <4> QED
        BY <1>6, <4>1, YieldsNothing DEF B
    <3> QED
      BY <3>3, <3>4, <3>5 DEF Tracks
  <2> QED
    BY <2>1, <2>2
<1>8. Knows(E, c, B, B, e)
  BY <1>3, <1>5, <1>7 DEF Knows
<1> QED
  BY <1>2, <1>5, <1>8 DEF Keeps, c, B

\* Pieces of code that follow each other: h says what is known between them.
LEMMA KeepsFlatten ==
  ASSUME NEW E, NEW s, IsSeq(s), NEW n \in Nat, n = Len(s),
         NEW h, \A i \in 0 .. n : h[i] \in Shape,
         \A i \in 1 .. n : Keeps(E, s[i], h[i - 1], h[i])
  PROVE  Keeps(E, FlattenSeq(s), h[0], h[n])
<1>1. \A i \in 1 .. Len(s) : IsSeq(s[i])
  BY DEF Keeps
<1>2. PICK l : /\ l = [i \in 0 .. n |-> l[i]]
               /\ \A i \in 0 .. n : IsSeq(l[i])
               /\ l[0] = <<>> /\ FlattenSeq(s) = l[n]
               /\ \A i \in 1 .. n : l[i] = l[i - 1] \o s[i]
  BY <1>1, FlattenLevels
<1> DEFINE V == {i \in Nat : i <= n => Keeps(E, l[i], h[0], h[i])}
<1>3. 0 \in V
  <2>1. h[0] \in Shape
    OBVIOUS
  <2>2. Keeps(E, <<>>, h[0], h[0])
    BY <2>1, KeepsNothing, LeSame
  <2> QED
    BY <1>2, <2>2
<1>4. ASSUME NEW i \in V PROVE i + 1 \in V
  <2> SUFFICES ASSUME i + 1 <= n PROVE Keeps(E, l[i + 1], h[0], h[i + 1])
    OBVIOUS
  <2>1. i + 1 \in 1 .. n /\ (i + 1) - 1 = i /\ i \in 0 .. n
    OBVIOUS
  <2>2. Keeps(E, l[i], h[0], h[i])
    BY <2>1
  <2>3. Keeps(E, s[i + 1], h[i], h[i + 1])
    BY <2>1
  <2>4. l[i + 1] = l[i] \o s[i + 1]
    BY <1>2, <2>1
  <2> QED
    BY <2>2, <2>3, <2>4, KeepsSequence
<1>5. V = Nat
  <2>1. V \subseteq Nat
    OBVIOUS
  <2> HIDE DEF V
  <2> QED
    BY <1>3, <1>4, <2>1, SetInduction
<1> QED
  BY <1>2, <1>5

-----------------------------------------------------------------------------
\* What is known below the words of a piece of code.

LEMMA Lifts ==
  ASSUME NEW S \in Shape
  PROVE  /\ \A k, m \in Nat : Lift(k, Lift(m, S)) = Lift(k + m, S)
         /\ \A n \in Nat : Lift(0, Onto(n, S)) = Onto(n, S)
         /\ Onto(0, S) = Lift(1, S)
         /\ \A n \in Nat : Lift(n, Blank) = Blank
<1>0. \A k \in Nat : S[k] \in Nat
  BY DEF Shape
<1>1. ASSUME NEW k \in Nat, NEW m \in Nat PROVE Lift(k, Lift(m, S)) = Lift(k + m, S)
  <2>1. ASSUME NEW j \in Nat
        PROVE  (IF j <= k THEN 0 ELSE Lift(m, S)[j - k]) = (IF j <= k + m THEN 0 ELSE S[j - (k + m)])
    <3>1. CASE j <= k
      BY <3>1
    <3>2. CASE j > k
      <4>1. j - k \in Nat /\ (j - k <= m <=> j <= k + m) /\ (j - k) - m = j - (k + m)
        BY <3>2
      <4>2. Lift(m, S)[j - k] = IF j - k <= m THEN 0 ELSE S[(j - k) - m]
        BY <4>1 DEF Lift
      <4> QED
        BY <3>2, <4>1, <4>2
    <3> QED
      BY <3>1, <3>2
  <2>2. Lift(k, Lift(m, S)) = [j \in Nat |-> IF j <= k THEN 0 ELSE Lift(m, S)[j - k]]
    BY DEF Lift
  <2>3. Lift(k + m, S) = [j \in Nat |-> IF j <= k + m THEN 0 ELSE S[j - (k + m)]]
    BY DEF Lift
  <2> QED
    BY <2>1, <2>2, <2>3
<1>2. ASSUME NEW n \in Nat PROVE Lift(0, Onto(n, S)) = Onto(n, S)
  <2>1. ASSUME NEW j \in Nat
        PROVE  (IF j <= 0 THEN 0 ELSE Onto(n, S)[j - 0])
               = (IF j = 0 THEN 0 ELSE IF j = 1 THEN n ELSE S[j - 1])
    BY DEF Onto
  <2> QED
    BY <2>1 DEF Lift, Onto
<1>3. Onto(0, S) = Lift(1, S)
  <2>1. ASSUME NEW j \in Nat
        PROVE  (IF j = 0 THEN 0 ELSE IF j = 1 THEN 0 ELSE S[j - 1]) = (IF j <= 1 THEN 0 ELSE S[j - 1])
    OBVIOUS
  <2> QED
    BY <2>1 DEF Lift, Onto
<1>4. ASSUME NEW n \in Nat PROVE Lift(n, Blank) = Blank
  <2>1. ASSUME NEW j \in Nat PROVE (IF j <= n THEN 0 ELSE Blank[j - n]) = 0
    BY DEF Blank
  <2> QED
    BY <2>1 DEF Lift, Blank
<1> QED
  BY <1>1, <1>2, <1>3, <1>4

\* What is known on top of and below unknown words.
LEMMA LiftAt ==
  ASSUME NEW S \in Shape, NEW n \in Nat
  PROVE  /\ Lift(n, S)[0] = 0 /\ Lift(n, S)[n] = 0
         /\ \A k \in Nat : k <= n => Lift(n, S)[k] = 0
         /\ \A k \in Nat : k > n => k - n \in Nat /\ Lift(n, S)[k] = S[k - n]
BY DEF Lift

\* One piece of code behind the other, on whatever the stack has.
LEMMA AboveThen ==
  ASSUME NEW E, NEW s, NEW t, NEW k, NEW j, NEW l, Above(E, s, k, j), Above(E, t, j, l)
  PROVE  Above(E, s \o t, k, l)
<1>1. ASSUME NEW S \in Shape PROVE Keeps(E, s \o t, Lift(k, S), Lift(l, S))
  <2>1. Keeps(E, s, Lift(k, S), Lift(j, S)) /\ Keeps(E, t, Lift(j, S), Lift(l, S))
    BY DEF Above
  <2> QED
    BY <2>1, KeepsSequence
<1> QED
  BY <1>1 DEF Above

\* Code works the same way above words it does not touch.
LEMMA AboveOver ==
  ASSUME NEW E, NEW s, NEW k, NEW j, Above(E, s, k, j), NEW m \in Nat
  PROVE  Above(E, s, k + m, j + m)
<1>1. k \in Nat /\ j \in Nat
  BY DEF Above
<1>2. ASSUME NEW S \in Shape PROVE Keeps(E, s, Lift(k + m, S), Lift(j + m, S))
  <2>1. Keeps(E, s, Lift(k, Lift(m, S)), Lift(j, Lift(m, S)))
    BY Shapes DEF Above
  <2> QED
    BY <1>1, <2>1, Lifts
<1> QED
  BY <1>1, <1>2 DEF Above

\* An instruction alone.
LEMMA AboveOne ==
  ASSUME NEW E, NEW ins, NEW k \in Nat, NEW j \in Nat, ins[1] # "store",
         Leaps(ins) = {} \/ (Leaps(ins) = {1}
                             /\ \A S \in Shape : Yields(E, ins, Lift(k, S), Lift(j, S)))
  PROVE  Above(E, <<ins>>, k, j)
<1>1. ASSUME NEW S \in Shape PROVE Keeps(E, <<ins>>, Lift(k, S), Lift(j, S))
  <2>1. Lift(k, S) \in Shape /\ Lift(j, S) \in Shape /\ Fits(ins, Lift(k, S))
    BY Shapes DEF Fits
  <2> QED
    BY <2>1, KeepsOne
<1> QED
  BY <1>1 DEF Above

\* No code, and code behind which the compiler has stopped.
LEMMA AboveNothing ==
  /\ \A E : \A k \in Nat : Above(E, <<>>, k, k)
  /\ \A E : \A k, j \in Nat : Above(E, Stop, k, j)
<1>1. ASSUME NEW E, NEW k \in Nat PROVE Above(E, <<>>, k, k)
  <2>1. ASSUME NEW S \in Shape PROVE Keeps(E, <<>>, Lift(k, S), Lift(k, S))
    <3>1. Lift(k, S) \in Shape
      BY Shapes
    <3> QED
      BY <3>1, KeepsNothing, LeSame
  <2> QED
    BY <2>1 DEF Above
<1>2. ASSUME NEW E, NEW k \in Nat, NEW j \in Nat PROVE Above(E, Stop, k, j)
  <2>1. <<"stop">>[1] = "stop"
    OBVIOUS
  <2>2. Leaps(<<"stop">>) = {} /\ <<"stop">>[1] # "store"
    BY <2>1 DEF Leaps
  <2> QED
    BY <2>2, AboveOne DEF Stop
<1> QED
  BY <1>1, <1>2

\* An instruction that leaves the stack alone and stores nothing.
LEMMA AbovePlain ==
  ASSUME NEW E, NEW ins, Plain(ins), ins[1] # "store", NEW k \in Nat
  PROVE  Above(E, <<ins>>, k, k)
<1>1. Leaps(ins) = {1}
  BY DEF Leaps, Plain
<1>2. ASSUME NEW S \in Shape PROVE Yields(E, ins, Lift(k, S), Lift(k, S))
  <2>1. Lift(k, S)[0] = 0 /\ Lift(k, S) \in Shape
    BY LiftAt, Shapes
  <2>2. Rax(E, ins, Lift(k, S), Lift(k, S)[0])
    BY <2>1 DEF Rax
  <2>3. ASSUME NEW j \in Nat \ {0} PROVE Lift(k, S)[j] <= WordAfter(ins, Lift(k, S), j)
    <3>1. PICK T : T = Lift(k, S)
      OBVIOUS
    <3>2. WordAfter(ins, T, j) = T[j]
      BY DEF WordAfter, Plain, Data, Registers
    <3>3. T[j] \in Nat
      BY <2>1, <3>1 DEF Shape
    <3> QED
      BY <3>1, <3>2, <3>3
  <2> QED
    BY <2>2, <2>3 DEF Yields
<1> QED
  BY <1>1, <1>2, AboveOne

\* A pushed word is unknown, a popped one was.
LEMMA AbovePush ==
  ASSUME NEW E, NEW k \in Nat
  PROVE  /\ \A r : Above(E, emit_push(r), k, k + 1)
         /\ \A n : Above(E, emit_push_int(n), k, k + 1)
<1>1. ASSUME NEW ins, ins[1] \in {"push", "push_int"} PROVE Above(E, <<ins>>, k, k + 1)
  <2>1. Leaps(ins) = {1} /\ ins[1] # "store"
    BY <1>1 DEF Leaps
  <2>2. ASSUME NEW S \in Shape PROVE Yields(E, ins, Lift(k, S), Lift(k + 1, S))
    <3>1. Lift(k + 1, S)[0] = 0 /\ Lift(k, S)[0] = 0 /\ k + 1 \in Nat /\ Lift(k, S) \in Shape
      BY LiftAt, Shapes
    <3>2. Rax(E, ins, Lift(k, S), Lift(k + 1, S)[0])
      BY <3>1 DEF Rax
    <3>3. ASSUME NEW j \in Nat \ {0} PROVE Lift(k + 1, S)[j] <= WordAfter(ins, Lift(k, S), j)
      <4>1. CASE j = 1
        <5>1. Lift(k + 1, S)[j] = 0
          BY <3>1, <4>1, LiftAt
        <5> QED
          BY <3>1, <5>1, WordAfterNat
      <4>2. CASE j > 1
        <5>1. j - 1 \in Nat /\ (j <= k + 1 <=> j - 1 <= k) /\ j - (k + 1) = (j - 1) - k
          BY <4>2
        <5>2. Lift(k + 1, S)[j] = Lift(k, S)[j - 1]
          BY <5>1 DEF Lift
        <5>3. PICK T : T = Lift(k, S)
          OBVIOUS
        <5>4. WordAfter(ins, T, j) = T[j - 1]
          BY <1>1, <4>2 DEF WordAfter
        <5>5. T[j - 1] \in Nat
          BY <3>1, <5>1, <5>3 DEF Shape
        <5> QED
          BY <5>2, <5>3, <5>4, <5>5
      <4> QED
        BY <4>1, <4>2
    <3> QED
      BY <3>2, <3>3 DEF Yields
  <2> QED
    BY <2>1, <2>2, AboveOne
<1>2. \A r : <<"push", r>>[1] = "push" /\ <<"push_int", r>>[1] = "push_int"
  OBVIOUS
<1> QED
  BY <1>1, <1>2 DEF emit_push, emit_push_int

LEMMA AbovePop ==
  ASSUME NEW E, NEW k \in Nat, NEW r, r # "rbp"
  PROVE  Above(E, emit_pop(r), k + 1, k)
<1> DEFINE ins == <<"pop", r>>
<1>1. ins[1] = "pop" /\ ins[2] = r
  OBVIOUS
<1> HIDE DEF ins
<1>2. Leaps(ins) = {1} /\ ins[1] # "store"
  BY <1>1 DEF Leaps
<1>3. ASSUME NEW S \in Shape PROVE Yields(E, ins, Lift(k + 1, S), Lift(k, S))
  <2>1. Lift(k, S)[0] = 0 /\ k + 1 \in Nat /\ Lift(k, S) \in Shape
    BY LiftAt, Shapes
  <2>2. Rax(E, ins, Lift(k + 1, S), Lift(k, S)[0])
    BY <2>1 DEF Rax
  <2>3. ASSUME NEW j \in Nat \ {0} PROVE Lift(k, S)[j] <= WordAfter(ins, Lift(k + 1, S), j)
    <3>1. j + 1 \in Nat /\ (j + 1 <= k + 1 <=> j <= k) /\ (j + 1) - (k + 1) = j - k
      OBVIOUS
    <3>2. Lift(k + 1, S)[j + 1] = Lift(k, S)[j]
      BY <3>1 DEF Lift
    <3>3. PICK T : T = Lift(k + 1, S)
      OBVIOUS
    <3>4. WordAfter(ins, T, j) = T[j + 1]
      BY <1>1 DEF WordAfter
    <3>5. Lift(k, S)[j] \in Nat
      BY <2>1 DEF Shape
    <3> QED
      BY <3>2, <3>3, <3>4, <3>5
  <2> QED
    BY <2>2, <2>3 DEF Yields
<1>4. Above(E, <<ins>>, k + 1, k)
  BY <1>2, <1>3, AboveOne
<1> QED
  BY <1>4 DEF emit_pop, ins

\* Two and three instructions are one behind the other.
LEMMA Tuples ==
  /\ \A x, y : <<x>> \o <<y>> = <<x, y>>
  /\ \A x, y, z : <<x, y>> \o <<z>> = <<x, y, z>>
<1>1. ASSUME NEW x, NEW y PROVE IsSeq(<<x, y>>) /\ <<x>> \o <<y>> = <<x, y>>
  <2> DEFINE s == <<x, y>>
             u == <<x>>
  <2>1. s \in Seq({x, y}) /\ Len(s) = 2 /\ s[1] = x /\ s[2] = y
    OBVIOUS
  <2>2. IsSeq(u) /\ Len(u) = 1 /\ u[1] = x
    BY One
  <2>u. IsSeq(u)
    BY <2>2
  <2> HIDE DEF s, u
  <2>3. IsSeq(s)
    BY <2>1, SeqHasRange
  <2> DEFINE w == u \o <<y>>
  <2>4. IsSeq(w) /\ Len(w) = Len(u) + 1 /\ w[Len(u) + 1] = y /\ \A i \in 1 .. Len(u) : w[i] = u[i]
    BY <2>u, ConcatOne
  <2> HIDE DEF w
  <2>5. Len(w) = 2 /\ w[1] = x /\ w[2] = y
    BY <2>2, <2>4
  <2>6. ASSUME NEW i \in 1 .. Len(s) PROVE s[i] = w[i]
    <3>1. i = 1 \/ i = 2
      BY <2>1
    <3> QED
      BY <2>1, <2>5, <3>1
  <2>7. s = w
    BY <2>1, <2>3, <2>4, <2>5, <2>6, SameSeq
  <2> QED
    BY <2>3, <2>7 DEF s, u, w
<1>2. ASSUME NEW x, NEW y, NEW z PROVE <<x, y>> \o <<z>> = <<x, y, z>>
  <2> DEFINE s == <<x, y, z>>
             u == <<x, y>>
  <2>1. s \in Seq({x, y, z}) /\ Len(s) = 3 /\ s[1] = x /\ s[2] = y /\ s[3] = z
    OBVIOUS
  <2>2. Len(u) = 2 /\ u[1] = x /\ u[2] = y
    OBVIOUS
  <2>u. IsSeq(u)
    BY <1>1
  <2> HIDE DEF s, u
  <2>3. IsSeq(s)
    BY <2>1, SeqHasRange
  <2> DEFINE w == u \o <<z>>
  <2>4. IsSeq(w) /\ Len(w) = Len(u) + 1 /\ w[Len(u) + 1] = z /\ \A i \in 1 .. Len(u) : w[i] = u[i]
    BY <2>u, ConcatOne
  <2> HIDE DEF w
  <2>5. Len(w) = 3 /\ w[1] = x /\ w[2] = y /\ w[3] = z
    BY <2>2, <2>4
  <2>6. ASSUME NEW i \in 1 .. Len(s) PROVE s[i] = w[i]
    <3>1. i = 1 \/ i = 2 \/ i = 3
      BY <2>1
    <3> QED
      BY <2>1, <2>5, <3>1
  <2>7. s = w
    BY <2>1, <2>3, <2>4, <2>5, <2>6, SameSeq
  <2> QED
    BY <2>7 DEF s, u, w
<1> QED
  BY <1>1, <1>2

\* Two and three instructions that leave the stack alone.
LEMMA AboveTwo ==
  ASSUME NEW E, NEW x, NEW y, Plain(x), Plain(y), x[1] # "store", y[1] # "store", NEW k \in Nat
  PROVE  Above(E, <<x, y>>, k, k)
<1>1. Above(E, <<x>>, k, k) /\ Above(E, <<y>>, k, k)
  BY AbovePlain
<1>2. Above(E, <<x>> \o <<y>>, k, k)
  BY <1>1, AboveThen
<1>3. <<x>> \o <<y>> = <<x, y>>
  BY Tuples
<1> QED
  BY <1>2, <1>3

LEMMA AboveThree ==
  ASSUME NEW E, NEW x, NEW y, NEW z, Plain(x), Plain(y), Plain(z),
         x[1] # "store", y[1] # "store", z[1] # "store", NEW k \in Nat
  PROVE  Above(E, <<x, y, z>>, k, k)
<1>1. Above(E, <<x, y>>, k, k) /\ Above(E, <<z>>, k, k)
  BY AbovePlain, AboveTwo
<1>2. Above(E, <<x, y>> \o <<z>>, k, k)
  BY <1>1, AboveThen
<1>3. <<x, y>> \o <<z>> = <<x, y, z>>
  BY Tuples
<1> QED
  BY <1>2, <1>3

\* The pieces of code that most emissions have.
LEMMA AbovePieces ==
  ASSUME NEW E
  PROVE  /\ Above(E, Operands, 2, 0) /\ Above(E, Test, 1, 0)
         /\ \A s : Above(E, s, 0, 0) => Above(E, (emit_pop("rax") \o s) \o emit_push("rax"), 1, 1)
         /\ \A s, r : Above(E, s, 0, 0) => Above(E, (Operands \o s) \o emit_push(r), 2, 1)
<1>1. /\ Above(E, emit_pop("rcx"), 1 + 1, 1) /\ Above(E, emit_pop("rax"), 0 + 1, 0)
  BY AbovePop
<1>2. Above(E, emit_pop("rcx"), 2, 1) /\ Above(E, emit_pop("rax"), 1, 0)
  BY <1>1
<1>3. \A r : Above(E, emit_push(r), 0, 1)
  <2>1. \A r : Above(E, emit_push(r), 0, 0 + 1)
    BY AbovePush
  <2> QED
    BY <2>1
<1>4. Above(E, Operands, 2, 0)
  BY <1>2, AboveThen DEF Operands
<1>5. Above(E, Test, 1, 0)
  <2>1. Plain(<<"cmp_int", 0, "rax">>) /\ <<"cmp_int", 0, "rax">>[1] # "store"
    BY DEF Plain
  <2>2. Above(E, <<<<"cmp_int", 0, "rax">>>>, 0, 0)
    BY <2>1, AbovePlain
  <2> QED
    BY <1>2, <2>2, AboveThen DEF Test
<1>6. ASSUME NEW s, Above(E, s, 0, 0)
      PROVE  Above(E, (emit_pop("rax") \o s) \o emit_push("rax"), 1, 1)
  <2>1. Above(E, emit_pop("rax") \o s, 1, 0)
    BY <1>2, <1>6, AboveThen
  <2> QED
    BY <1>3, <2>1, AboveThen
<1>7. ASSUME NEW s, NEW r, Above(E, s, 0, 0)
      PROVE  Above(E, (Operands \o s) \o emit_push(r), 2, 1)
  <2>1. Above(E, Operands \o s, 2, 0)
    BY <1>4, <1>7, AboveThen
  <2> QED
    BY <1>3, <2>1, AboveThen
<1> QED
  BY <1>4, <1>5, <1>6, <1>7

\* The instructions that PlainInstructions is about store nothing.
LEMMA NoStores ==
  /\ <<"movsbl">>[1] # "store" /\ <<"movl">>[1] # "store" /\ <<"movq">>[1] # "store"
  /\ <<"neg">>[1] # "store" /\ <<"movzbl">>[1] # "store" /\ <<"imul", "rcx">>[1] # "store"
  /\ <<"idiv", "rcx">>[1] # "store" /\ <<"add", "rcx", "rax">>[1] # "store"
  /\ <<"sub", "rcx", "rax">>[1] # "store" /\ <<"and", "rcx", "rax">>[1] # "store"
  /\ <<"cmp", "rcx", "rax">>[1] # "store"
  /\ \A c : <<"set", c>>[1] # "store" /\ <<"call", c>>[1] # "store"
  /\ \A n, r : <<"mov_int", n, r>>[1] # "store" /\ <<"mov", n, r>>[1] # "store"
OBVIOUS

\* The address on the stack is replaced by what lies there.
LEMMA AboveMoveValue == \A E, typ : Above(E, codegen_movevalue(typ), 1, 1)
<1> SUFFICES ASSUME NEW E, NEW typ PROVE Above(E, codegen_movevalue(typ), 1, 1)
  OBVIOUS
<1>1. \A ins \in {<<"movsbl">>, <<"movl">>, <<"movq">>} :
        Above(E, emit_pop("rax") \o <<ins>> \o emit_push("rax"), 1, 1)
  <2> SUFFICES ASSUME NEW ins \in {<<"movsbl">>, <<"movl">>, <<"movq">>}
               PROVE  Above(E, emit_pop("rax") \o <<ins>> \o emit_push("rax"), 1, 1)
    OBVIOUS
  <2>1. Plain(ins) /\ ins[1] # "store"
    BY PlainInstructions, NoStores
  <2>2. Above(E, <<ins>>, 0, 0)
    BY <2>1, AbovePlain
  <2> QED
    BY <2>2, AbovePieces
<1>2. Above(E, <<>>, 1, 1) /\ Above(E, Stop, 1, 1)
  BY AboveNothing
<1>3. \/ codegen_movevalue(typ) = <<>> \/ codegen_movevalue(typ) = Stop
      \/ \E ins \in {<<"movsbl">>, <<"movl">>, <<"movq">>} :
           codegen_movevalue(typ) = emit_pop("rax") \o <<ins>> \o emit_push("rax")
  BY DEF codegen_movevalue
<1> QED
  BY <1>1, <1>2, <1>3

\* The index on the stack is multiplied by the size of what the pointer points to.
LEMMA AboveScale ==
  ASSUME NEW E, NEW left, NEW right, Scalable(left)
  PROVE  Above(E, Scale(left, right), 1, 1)
<1>1. Above(E, Stop, 1, 1) /\ Above(E, <<>>, 1, 1)
  BY AboveNothing
<1>2. CASE ScaledBy(left, right)
  <2> DEFINE x == <<"mov_int", SizeOf(left.ptrof), "rcx">>
             y == <<"imul", "rcx">>
  <2>1. Plain(x) /\ Plain(y)
    <3>1. SizeOf(left.ptrof) \in Int
      BY <1>2 DEF Scalable, ScaledBy
    <3> QED
      BY <3>1, PlainInstructions
  <2>2. x[1] # "store" /\ y[1] # "store"
    BY NoStores
  <2>3. \/ Scale(left, right) = Stop
        \/ Scale(left, right) = (emit_pop("rax") \o <<x, y>>) \o emit_push("rax")
    BY <1>2 DEF Scale
  <2> HIDE DEF x, y
  <2>4. Above(E, <<x, y>>, 0, 0)
    BY <2>1, <2>2, AboveTwo
  <2>5. Above(E, (emit_pop("rax") \o <<x, y>>) \o emit_push("rax"), 1, 1)
    BY <2>4, AbovePieces
  <2> QED
    BY <1>1, <2>3, <2>5
<1>3. CASE ~ ScaledBy(left, right)
  <2>1. Scale(left, right) = Stop \/ Scale(left, right) = <<>>
    BY <1>3 DEF Scale
  <2> QED
    BY <1>1, <2>1
<1> QED
  BY <1>2, <1>3

\* An addition takes two operands and leaves one, of a pointer, too.
LEMMA AboveAdd ==
  ASSUME NEW E, NEW left, NEW right, Scalable(left)
  PROVE  /\ Above(E, Scale(left, right), 2, 2)
         /\ Above(E, codegen_add(left, right), 2, 1)
<1>1. Above(E, Scale(left, right), 1 + 1, 1 + 1)
  BY AboveScale, AboveOver
<1>2. Above(E, Scale(left, right), 2, 2)
  BY <1>1
<1>3. Above(E, <<<<"add", "rcx", "rax">>>>, 0, 0)
  BY PlainInstructions, NoStores, AbovePlain
<1>4. Above(E, Scale(left, right) \o Operands, 2, 0)
  BY <1>2, AbovePieces, AboveThen
<1>5. Above(E, (Scale(left, right) \o Operands) \o <<<<"add", "rcx", "rax">>>>, 2, 0)
  BY <1>3, <1>4, AboveThen
<1>6. Above(E, emit_push("rax"), 0, 0 + 1)
  BY AbovePush
<1>7. Above(E, emit_push("rax"), 0, 1)
  BY <1>6
<1> QED
  BY <1>2, <1>5, <1>7, AboveThen DEF codegen_add

\* A comparison takes two operands and leaves one.
LEMMA AboveCompare == \A E, cond : Above(E, Compare(cond), 2, 1)
<1> SUFFICES ASSUME NEW E, NEW cond PROVE Above(E, Compare(cond), 2, 1)
  OBVIOUS
<1>1. Above(E, <<<<"cmp", "rcx", "rax">>, <<"set", cond>>, <<"movzbl">>>>, 0, 0)
  BY PlainInstructions, NoStores, AboveThree
<1> QED
  BY <1>1, AbovePieces DEF Compare

\* The code that KeepsEither is about, after the test.
LEMMA KeepsTested ==
  ASSUME NEW E, NEW r, NEW s, NEW t, NEW x, NEW K, NEW S, NEW T,
         Keeps(E, r, K, S), Keeps(E, s, S, T), Keeps(E, t, S, T)
  PROVE  Keeps(E, (((r \o <<<<"jcc", x, Len(s) + 1>>>>) \o s) \o <<<<"jmp", Len(t)>>>>) \o t, K, T)
<1> DEFINE J == <<<<"jcc", x, Len(s) + 1>>>>
           M == <<<<"jmp", Len(t)>>>>
<1>1. IsSeq(J) /\ IsSeq(M)
  BY One
<1>2. Keeps(E, ((J \o s) \o M) \o t, S, T)
  BY KeepsEither
<1> HIDE DEF J, M
<1>3. Keeps(E, r \o (((J \o s) \o M) \o t), K, T)
  BY <1>2, KeepsSequence
<1>4. IsSeq(r) /\ IsSeq(s) /\ IsSeq(t)
  BY DEF Keeps
<1>5. (r \o J) \o s = r \o (J \o s) /\ IsSeq(J \o s)
  <2>1. IsSeq(r) /\ IsSeq(J) /\ IsSeq(s)
    BY <1>1, <1>4
  <2>2. (r \o J) \o s = r \o (J \o s)
    BY <2>1, ConcatAssoc
  <2>3. IsSeq(J \o s)
    BY <2>1, Concat
  <2> QED
    BY <2>2, <2>3
<1>6. (r \o (J \o s)) \o M = r \o ((J \o s) \o M) /\ IsSeq((J \o s) \o M)
  <2>1. PICK u : u = J \o s
    OBVIOUS
  <2>2. IsSeq(u)
    BY <1>5, <2>1
  <2>3. (r \o u) \o M = r \o (u \o M) /\ IsSeq(u \o M)
    <3>1. IsSeq(r) /\ IsSeq(u) /\ IsSeq(M)
      BY <1>1, <1>4, <2>2
    <3>2. (r \o u) \o M = r \o (u \o M)
      BY <3>1, ConcatAssoc
    <3>3. IsSeq(u \o M)
      BY <3>1, Concat
    <3> QED
      BY <3>2, <3>3
  <2> QED
    BY <2>1, <2>3
<1>7. (r \o ((J \o s) \o M)) \o t = r \o (((J \o s) \o M) \o t)
  <2>1. PICK u : u = (J \o s) \o M
    OBVIOUS
  <2>2. IsSeq(u)
    BY <1>6, <2>1
  <2>3. (r \o u) \o t = r \o (u \o t)
    BY <1>4, <2>2, ConcatAssoc
  <2> QED
    BY <2>1, <2>3
<1> QED
  BY <1>3, <1>5, <1>6, <1>7 DEF J, M

\* Whether && and || leave early or not, they leave one value.
LEMMA AboveLogic ==
  ASSUME NEW E, NEW left, NEW right, Above(E, left, 0, 1), Above(E, right, 0, 1), NEW leave,
         NEW otherwise
  PROVE  Above(E, Logic(left, right, leave, otherwise), 0, 1)
<1> DEFINE s == (((right \o Test) \o <<<<"set", "ne">>>>) \o emit_push("rax"))
           t == emit_push_int(otherwise)
           r == left \o Test
           rest == s \o <<<<"jmp", 1>>>>
<1>1. Above(E, r, 0, 0) /\ Above(E, right \o Test, 0, 0)
  BY AbovePieces, AboveThen
<1>2. Above(E, <<<<"set", "ne">>>>, 0, 0) /\ Above(E, emit_push("rax"), 0, 1) /\ Above(E, t, 0, 1)
  <2>1. Above(E, emit_push("rax"), 0, 0 + 1) /\ Above(E, t, 0, 0 + 1)
    BY AbovePush
  <2>2. Above(E, <<<<"set", "ne">>>>, 0, 0)
    BY PlainInstructions, NoStores, AbovePlain
  <2> QED
    BY <2>1, <2>2
<1>3. Above(E, (right \o Test) \o <<<<"set", "ne">>>>, 0, 0)
  BY <1>1, <1>2, AboveThen
<1>4. Above(E, s, 0, 1)
  BY <1>2, <1>3, AboveThen
<1>5. Len(t) = 1
  BY DEF emit_push_int
<1>6. Logic(left, right, leave, otherwise) = ((r \o <<<<"jcc", leave, Len(rest)>>>>) \o rest) \o t
  BY DEF Logic
<1> HIDE DEF s, t, r
<1>7. IsSeq(s) /\ Len(s) \in Nat /\ IsSeq(r) /\ Len(rest) = Len(s) + 1
  <2>1. IsSeq(s) /\ IsSeq(r)
    BY <1>1, <1>4, Shapes DEF Above, Keeps
  <2>2. Len(s) \in Nat
    BY <2>1, SeqFacts
  <2> QED
    BY <2>1, <2>2, ConcatOne
<1>8. ASSUME NEW S \in Shape
      PROVE  Keeps(E, (((r \o <<<<"jcc", leave, Len(s) + 1>>>>) \o s) \o <<<<"jmp", Len(t)>>>>) \o t,
                   Lift(0, S), Lift(1, S))
  <2>1. /\ Keeps(E, r, Lift(0, S), Lift(0, S)) /\ Keeps(E, s, Lift(0, S), Lift(1, S))
        /\ Keeps(E, t, Lift(0, S), Lift(1, S))
    BY <1>1, <1>2, <1>4 DEF Above
  <2> QED
    BY <2>1, KeepsTested
<1>9. (r \o <<<<"jcc", leave, Len(s) + 1>>>>) \o rest
      = ((r \o <<<<"jcc", leave, Len(s) + 1>>>>) \o s) \o <<<<"jmp", 1>>>>
  <2> DEFINE J == <<<<"jcc", leave, Len(s) + 1>>>>
             M == <<<<"jmp", 1>>>>
  <2>1. IsSeq(J) /\ IsSeq(M)
    BY One
  <2> HIDE DEF J, M
  <2>2. PICK u : u = r \o J
    OBVIOUS
  <2>3. IsSeq(u)
    BY <1>7, <2>1, <2>2, Concat
  <2>4. u \o (s \o M) = (u \o s) \o M
    BY <1>7, <2>1, <2>3, ConcatAssoc
  <2> QED
    BY <2>2, <2>4 DEF J, M
<1> QED
  BY <1>5, <1>6, <1>7, <1>8, <1>9 DEF Above

\* Every infix operation without an assignment leaves one value.
LEMMA AboveInfix ==
  ASSUME NEW E, NEW kind \in InfixKinds \ Assigned, NEW left, NEW right, NEW ltyp, NEW rtyp,
         Above(E, left, 0, 1), Above(E, right, 0, 1), Scalable(ltyp)
  PROVE  Above(E, InfixCode(kind, left, right, ltyp, rtyp), 0, 1)
<1>1. Above(E, left \o right, 0, 2)
  <2>1. Above(E, right, 0 + 1, 1 + 1)
    BY AboveOver
  <2>2. Above(E, right, 1, 2)
    BY <2>1
  <2> QED
    BY <2>2, AboveThen
<1>p. \A r : Above(E, emit_push(r), 0, 1)
  <2>1. \A r : Above(E, emit_push(r), 0, 0 + 1)
    BY AbovePush
  <2> QED
    BY <2>1
<1>o. Above(E, (left \o right) \o Operands, 0, 0)
  BY <1>1, AbovePieces, AboveThen
<1>a. \A s, r : Above(E, s, 0, 0) =>
        Above(E, (((left \o right) \o Operands) \o s) \o emit_push(r), 0, 1)
  <2> SUFFICES ASSUME NEW s, NEW r, Above(E, s, 0, 0)
               PROVE  Above(E, (((left \o right) \o Operands) \o s) \o emit_push(r), 0, 1)
    OBVIOUS
  <2>1. Above(E, ((left \o right) \o Operands) \o s, 0, 0)
    BY <1>o, AboveThen
  <2> QED
    BY <1>p, <2>1, AboveThen
<1>2. CASE kind = "add"
  <2>1. Above(E, codegen_add(ltyp, rtyp), 2, 1)
    BY AboveAdd
  <2>2. InfixCode(kind, left, right, ltyp, rtyp) = (left \o right) \o codegen_add(ltyp, rtyp)
    BY <1>2 DEF InfixCode
  <2> QED
    BY <1>1, <2>1, <2>2, AboveThen
<1>3. CASE kind = "sub"
  <2>1. Above(E, Scale(ltyp, rtyp), 2, 2)
    BY AboveAdd
  <2>2. Above(E, (left \o right) \o Scale(ltyp, rtyp), 0, 2)
    BY <1>1, <2>1, AboveThen
  <2>3. Above(E, ((left \o right) \o Scale(ltyp, rtyp)) \o Operands, 0, 0)
    BY <2>2, AbovePieces, AboveThen
  <2>4. Above(E, <<<<"sub", "rcx", "rax">>>>, 0, 0)
    BY PlainInstructions, NoStores, AbovePlain
  <2>5. Above(E, (((left \o right) \o Scale(ltyp, rtyp)) \o Operands) \o <<<<"sub", "rcx", "rax">>>>, 0, 0)
    BY <2>3, <2>4, AboveThen
  <2>6. InfixCode(kind, left, right, ltyp, rtyp)
        = ((((left \o right) \o Scale(ltyp, rtyp)) \o Operands) \o <<<<"sub", "rcx", "rax">>>>)
          \o emit_push("rax")
    BY <1>3 DEF InfixCode
  <2> QED
    BY <1>p, <2>5, <2>6, AboveThen
<1>4. CASE kind \in {"mul", "band"}
  <2>1. \A ins \in {<<"imul", "rcx">>, <<"and", "rcx", "rax">>} : Above(E, <<ins>>, 0, 0)
    BY PlainInstructions, NoStores, AbovePlain
  <2>2. \E ins \in {<<"imul", "rcx">>, <<"and", "rcx", "rax">>} :
          InfixCode(kind, left, right, ltyp, rtyp)
          = (((left \o right) \o Operands) \o <<ins>>) \o emit_push("rax")
    BY <1>4 DEF InfixCode
  <2> QED
    BY <1>a, <2>1, <2>2
<1>5. CASE kind \in {"div", "mod"}
  <2>1. Above(E, emit_div, 0, 0)
    BY PlainInstructions, NoStores, AboveTwo DEF emit_div
  <2>2. \E r \in {"rax", "rdx"} :
          InfixCode(kind, left, right, ltyp, rtyp)
          = (((left \o right) \o Operands) \o emit_div) \o emit_push(r)
    BY <1>5 DEF InfixCode
  <2> QED
    BY <1>a, <2>1, <2>2
<1>6. CASE kind \in {"lesser", "lessereq", "eq"}
  <2>1. \E cond : InfixCode(kind, left, right, ltyp, rtyp) = (left \o right) \o Compare(cond)
    BY <1>6 DEF InfixCode
  <2> QED
    BY <1>1, <2>1, AboveCompare, AboveThen
<1>7. CASE kind \in {"land", "lor"}
  <2>1. \E leave, n : InfixCode(kind, left, right, ltyp, rtyp) = Logic(left, right, leave, n)
    BY <1>7 DEF InfixCode
  <2> QED
    BY <2>1, AboveLogic
<1> QED
  BY <1>2, <1>3, <1>4, <1>5, <1>6, <1>7 DEF InfixKinds, Summed, Numbered, Assigned, Untyped

-----------------------------------------------------------------------------
\* Addresses and what is stored there.

\* c pushes the address of n bytes of a variable.
Points(E, c, n) == n \in Nat /\ \A S \in Shape : Keeps(E, c, Lift(0, S), Onto(n, S))

\* A store writes as many bytes as the type of its place says (codegen.c:157).
StoreSize(typ) ==
  CASE typ.kind = "char" -> 1
    [] typ.kind \in {"int", "uint"} -> 4
    [] typ.kind = "ptr" -> 8
    [] OTHER -> 0

\* An address is a value.
LEMMA PointsAbove ==
  ASSUME NEW E, NEW c
  PROVE  /\ \A n : Points(E, c, n) => Above(E, c, 0, 1)
         /\ Above(E, c, 0, 1) => Points(E, c, 0)
<1>1. ASSUME NEW n, Points(E, c, n) PROVE Above(E, c, 0, 1)
  <2>1. ASSUME NEW S \in Shape PROVE Keeps(E, c, Lift(0, S), Lift(1, S))
    <3>1. Keeps(E, c, Lift(0, S), Onto(n, S)) /\ n \in Nat
      BY <1>1 DEF Points
    <3>2. Le(Lift(1, S), Onto(n, S))
      <4>1. ASSUME NEW k \in Nat PROVE Lift(1, S)[k] <= Onto(n, S)[k]
        <5>1. \A j \in Nat : S[j] \in Nat
          BY DEF Shape
        <5>2. CASE k <= 1
          <6>1. Lift(1, S)[k] = 0 /\ Onto(n, S)[k] \in Nat
            BY <3>1, <5>2 DEF Lift, Onto
          <6> QED
            BY <6>1
        <5>3. CASE k > 1
          <6>1. Lift(1, S)[k] = S[k - 1] /\ Onto(n, S)[k] = S[k - 1] /\ k - 1 \in Nat
            BY <5>3 DEF Lift, Onto
          <6> QED
            BY <5>1, <6>1
        <5> QED
          BY <5>2, <5>3
      <4> QED
        BY <4>1 DEF Le
    <3>3. Lift(1, S) \in Shape /\ Lift(0, S) \in Shape
      BY Shapes
    <3>4. Le(Lift(0, S), Lift(0, S))
      BY <3>3, LeSame
    <3> QED
      BY <3>1, <3>2, <3>3, <3>4, KeepsLess
  <2> QED
    BY <2>1 DEF Above
<1>2. ASSUME Above(E, c, 0, 1) PROVE Points(E, c, 0)
  <2>1. \A S \in Shape : Keeps(E, c, Lift(0, S), Onto(0, S))
    BY <1>2, Lifts DEF Above
  <2> QED
    BY <2>1 DEF Points
<1> QED
  BY <1>1, <1>2

\* The instructions around an address in rax: it is pushed and stays there, it is
\* popped, a number is added to it.
LEMMA AddressSteps ==
  ASSUME NEW E, NEW S \in Shape, NEW n \in Nat
  PROVE  /\ Keeps(E, emit_push("rax"), At(n, S), At(n, Onto(n, S)))
         /\ Keeps(E, emit_push("rax"), At(n, S), Onto(n, S))
         /\ Keeps(E, emit_pop("rax"), Onto(n, S), At(n, S))
         /\ \A k, m \in Nat : k + m <= n =>
              Keeps(E, <<<<"add_int", k, "rax">>>>, At(n, S), At(m, S))
<1>s. /\ At(n, S) \in Shape /\ Onto(n, S) \in Shape /\ At(n, Onto(n, S)) \in Shape
      /\ \A k \in Nat : S[k] \in Nat
  BY Shapes DEF Shape
<1>a. /\ At(n, S)[0] = n /\ \A k \in Nat \ {0} : At(n, S)[k] = S[k]
  BY DEF At
<1>o. /\ Onto(n, S)[0] = 0 /\ Onto(n, S)[1] = n
      /\ \A k \in Nat : k > 1 => Onto(n, S)[k] = S[k - 1] /\ k - 1 \in Nat
  BY DEF Onto
<1>1. Keeps(E, emit_push("rax"), At(n, S), At(n, Onto(n, S)))
  <2> DEFINE ins == <<"push", "rax">>
             T == At(n, Onto(n, S))
  <2>1. ins[1] = "push" /\ ins[2] = "rax"
    OBVIOUS
  <2>2. T[0] = n /\ \A k \in Nat \ {0} : T[k] = Onto(n, S)[k]
    BY DEF At
  <2> HIDE DEF ins, T
  <2>3. Leaps(ins) = {1} /\ Fits(ins, At(n, S))
    BY <2>1 DEF Leaps, Fits
  <2>4. Rax(E, ins, At(n, S), T[0])
    BY <1>a, <2>1, <2>2 DEF Rax
  <2>5. ASSUME NEW k \in Nat \ {0} PROVE T[k] <= WordAfter(ins, At(n, S), k)
    <3>1. CASE k = 1
      BY <1>a, <1>o, <2>1, <2>2, <3>1 DEF WordAfter
    <3>2. CASE k > 1
      <4>1. WordAfter(ins, At(n, S), k) = At(n, S)[k - 1] /\ k - 1 \in Nat \ {0}
        BY <2>1, <3>2 DEF WordAfter
      <4>2. T[k] = S[k - 1] /\ At(n, S)[k - 1] = S[k - 1] /\ S[k - 1] \in Nat
        BY <1>a, <1>o, <1>s, <2>2, <3>2, <4>1
      <4> QED
        BY <4>1, <4>2
    <3> QED
      BY <3>1, <3>2
  <2>6. Yields(E, ins, At(n, S), T)
    BY <2>4, <2>5 DEF Yields
  <2>7. Keeps(E, <<ins>>, At(n, S), T)
    BY <1>s, <2>3, <2>6, KeepsOne DEF T
  <2> QED
    BY <2>7 DEF emit_push, ins, T
<1>2. Keeps(E, emit_push("rax"), At(n, S), Onto(n, S))
  <2>1. Le(Onto(n, S), At(n, Onto(n, S)))
    <3>1. ASSUME NEW k \in Nat PROVE Onto(n, S)[k] <= At(n, Onto(n, S))[k]
      <4>1. CASE k = 0
        BY <1>o, <4>1 DEF At
      <4>2. CASE k # 0
        <5>1. At(n, Onto(n, S))[k] = Onto(n, S)[k]
          BY <4>2 DEF At
        <5>2. Onto(n, S)[k] \in Nat
          BY <1>s DEF Shape
        <5> QED
          BY <5>1, <5>2
      <4> QED
        BY <4>1, <4>2
    <3> QED
      BY <3>1 DEF Le
  <2>2. Le(At(n, S), At(n, S))
    BY <1>s, LeSame
  <2> QED
    BY <1>1, <1>s, <2>1, <2>2, KeepsLess
<1>3. Keeps(E, emit_pop("rax"), Onto(n, S), At(n, S))
  <2> DEFINE ins == <<"pop", "rax">>
  <2>1. ins[1] = "pop" /\ ins[2] = "rax"
    OBVIOUS
  <2> HIDE DEF ins
  <2>2. Leaps(ins) = {1} /\ Fits(ins, Onto(n, S))
    BY <2>1 DEF Leaps, Fits
  <2>3. Rax(E, ins, Onto(n, S), At(n, S)[0])
    BY <1>a, <1>o, <2>1 DEF Rax
  <2>4. ASSUME NEW k \in Nat \ {0} PROVE At(n, S)[k] <= WordAfter(ins, Onto(n, S), k)
    <3>1. WordAfter(ins, Onto(n, S), k) = Onto(n, S)[k + 1]
      BY <2>1 DEF WordAfter
    <3>2. k + 1 \in Nat /\ k + 1 > 1 /\ (k + 1) - 1 = k
      OBVIOUS
    <3>3. Onto(n, S)[k + 1] = S[k] /\ S[k] \in Nat
      BY <1>o, <1>s, <3>2
    <3> QED
      BY <1>a, <3>1, <3>3
  <2>5. Yields(E, ins, Onto(n, S), At(n, S))
    BY <2>3, <2>4 DEF Yields
  <2>6. Keeps(E, <<ins>>, Onto(n, S), At(n, S))
    BY <1>s, <2>2, <2>5, KeepsOne
  <2> QED
    BY <2>6 DEF emit_pop, ins
<1>4. ASSUME NEW k \in Nat, NEW m \in Nat, k + m <= n
      PROVE  Keeps(E, <<<<"add_int", k, "rax">>>>, At(n, S), At(m, S))
  <2> DEFINE ins == <<"add_int", k, "rax">>
  <2>1. ins[1] = "add_int" /\ ins[2] = k /\ ins[3] = "rax"
    OBVIOUS
  <2> HIDE DEF ins
  <2>2. Leaps(ins) = {1} /\ Fits(ins, At(n, S))
    BY <2>1 DEF Leaps, Fits
  <2>3. At(m, S) \in Shape /\ At(m, S)[0] = m /\ \A j \in Nat \ {0} : At(m, S)[j] = S[j]
    BY Shapes DEF At
  <2>4. Rax(E, ins, At(n, S), At(m, S)[0])
    <3>1. m + ins[2] <= At(n, S)[0] /\ ins[2] \in Nat
      BY <1>4, <1>a, <2>1
    <3> QED
      BY <2>1, <2>3, <3>1 DEF Rax
  <2>5. ASSUME NEW j \in Nat \ {0} PROVE At(m, S)[j] <= WordAfter(ins, At(n, S), j)
    <3>1. WordAfter(ins, At(n, S), j) = At(n, S)[j]
      BY <2>1 DEF WordAfter
    <3> QED
      BY <1>a, <1>s, <2>3, <3>1
  <2>6. Yields(E, ins, At(n, S), At(m, S))
    BY <2>4, <2>5 DEF Yields
  <2>7. Keeps(E, <<ins>>, At(n, S), At(m, S))
    BY <1>s, <2>2, <2>3, <2>6, KeepsOne
  <2> QED
    BY <2>7 DEF ins
<1> QED
  BY <1>1, <1>2, <1>3, <1>4

\* The address of a variable of n bytes or more is put into rax.
SlotOf(E, n, k) ==
  \E x \in DOMAIN E.slots : /\ k = -E.slots[x].offset
                            /\ SizeOf(E.slots[x].typ) \in Nat /\ n <= SizeOf(E.slots[x].typ)
GlobalOf(E, n, name) ==
  \E g \in E.globals : /\ name = g.name
                       /\ SizeOf(GlobalType(g)) \in Nat /\ n <= SizeOf(GlobalType(g))

LEMMA Addressed ==
  ASSUME NEW E, NEW S \in Shape, NEW n \in Nat
  PROVE  /\ \A k : n = 0 \/ SlotOf(E, n, k) => Keeps(E, <<<<"lea", k>>>>, Lift(0, S), At(n, S))
         /\ \A g : n = 0 \/ GlobalOf(E, n, g) => Keeps(E, <<<<"lea_rip", g>>>>, Lift(0, S), At(n, S))
<1>s. /\ At(n, S) \in Shape /\ Lift(0, S) \in Shape /\ \A k \in Nat : S[k] \in Nat
  BY Shapes DEF Shape
<1>a. At(n, S)[0] = n /\ \A k \in Nat \ {0} : At(n, S)[k] = S[k] /\ Lift(0, S)[k] = S[k]
  BY DEF At, Lift
<1>1. ASSUME NEW ins, ins[1] \in {"lea", "lea_rip"}, Rax(E, ins, Lift(0, S), n)
      PROVE  Keeps(E, <<ins>>, Lift(0, S), At(n, S))
  <2>1. Leaps(ins) = {1} /\ Fits(ins, Lift(0, S))
    BY <1>1 DEF Leaps, Fits
  <2>2. ASSUME NEW j \in Nat \ {0} PROVE At(n, S)[j] <= WordAfter(ins, Lift(0, S), j)
    <3>1. WordAfter(ins, Lift(0, S), j) = Lift(0, S)[j]
      BY <1>1 DEF WordAfter
    <3> QED
      BY <1>a, <1>s, <3>1
  <2>3. Yields(E, ins, Lift(0, S), At(n, S))
    BY <1>1, <1>a, <2>2 DEF Yields
  <2> QED
    BY <1>s, <2>1, <2>3, KeepsOne
<1>2. ASSUME NEW k, n = 0 \/ SlotOf(E, n, k)
      PROVE  Keeps(E, <<<<"lea", k>>>>, Lift(0, S), At(n, S))
  <2>1. <<"lea", k>>[1] = "lea" /\ <<"lea", k>>[2] = k
    OBVIOUS
  <2>2. Rax(E, <<"lea", k>>, Lift(0, S), n)
    BY <1>2, <2>1, Zenon DEF Rax, SlotOf
  <2> QED
    BY <1>1, <2>1, <2>2
<1>3. ASSUME NEW g, n = 0 \/ GlobalOf(E, n, g)
      PROVE  Keeps(E, <<<<"lea_rip", g>>>>, Lift(0, S), At(n, S))
  <2>1. <<"lea_rip", g>>[1] = "lea_rip" /\ <<"lea_rip", g>>[2] = g
    OBVIOUS
  <2>2. Rax(E, <<"lea_rip", g>>, Lift(0, S), n)
    BY <1>3, <2>1, Zenon DEF Rax, GlobalOf
  <2> QED
    BY <1>1, <2>1, <2>2
<1> QED
  BY <1>2, <1>3

\* Nothing but the address needs to be known.
LEMMA AtLess ==
  ASSUME NEW S \in Shape, NEW n \in Nat
  PROVE  Le(Lift(0, S), At(n, S))
<1>1. ASSUME NEW k \in Nat PROVE Lift(0, S)[k] <= At(n, S)[k]
  <2>1. S[k] \in Nat
    BY DEF Shape
  <2>2. k = 0 \/ (k > 0 /\ k - 0 = k)
    OBVIOUS
  <2> QED
    BY <2>1, <2>2 DEF Lift, At
<1> QED
  BY <1>1 DEF Le

\* A store at the address of enough bytes.
LEMMA KeepsStore ==
  ASSUME NEW E, NEW S \in Shape, NEW n \in Nat, NEW typ, StoreSize(typ) <= n, NEW r
  PROVE  Keeps(E, codegen_movereg(typ, r), At(n, S), Lift(0, S))
<1>1. At(n, S) \in Shape /\ Lift(0, S) \in Shape /\ At(n, S)[0] = n
  BY Shapes DEF At
<1>2. ASSUME NEW k \in Nat, k <= n PROVE Keeps(E, <<<<"store", k, r>>>>, At(n, S), Lift(0, S))
  <2> DEFINE ins == <<"store", k, r>>
  <2>1. ins[1] = "store" /\ ins[2] = k
    OBVIOUS
  <2> HIDE DEF ins
  <2>2. Leaps(ins) = {1} /\ Fits(ins, At(n, S))
    BY <1>1, <1>2, <2>1 DEF Leaps, Fits
  <2>3. Yields(E, ins, At(n, S), At(n, S))
    <3>1. \A j \in Nat : At(n, S)[j] \in Nat
      BY <1>1 DEF Shape
    <3>2. Rax(E, ins, At(n, S), At(n, S)[0])
      BY <2>1, <3>1 DEF Rax
    <3>3. \A j \in Nat \ {0} : At(n, S)[j] <= WordAfter(ins, At(n, S), j)
      BY <2>1, <3>1 DEF WordAfter
    <3> QED
      BY <3>2, <3>3 DEF Yields
  <2>4. Yields(E, ins, At(n, S), Lift(0, S))
    BY <1>1, <2>3, AtLess, YieldsLess
  <2>5. Keeps(E, <<ins>>, At(n, S), Lift(0, S))
    BY <1>1, <2>2, <2>4, KeepsOne
  <2> QED
    BY <2>5 DEF ins
<1>3. Keeps(E, Stop, At(n, S), Lift(0, S))
  <2>1. <<"stop">>[1] = "stop"
    OBVIOUS
  <2>2. Leaps(<<"stop">>) = {} /\ Fits(<<"stop">>, At(n, S))
    BY <2>1 DEF Leaps, Fits
  <2> QED
    BY <1>1, <2>2, KeepsOne DEF Stop
<1>4. CASE typ.kind = "char"
  <2>1. StoreSize(typ) = 1 /\ codegen_movereg(typ, r) = <<<<"store", 1, r>>>>
    BY <1>4 DEF StoreSize, codegen_movereg
  <2> QED
    BY <1>2, <2>1
<1>5. CASE typ.kind \in {"int", "uint"}
  <2>1. StoreSize(typ) = 4 /\ codegen_movereg(typ, r) = <<<<"store", 4, r>>>>
    BY <1>5 DEF StoreSize, codegen_movereg
  <2> QED
    BY <1>2, <2>1
<1>6. CASE typ.kind = "ptr"
  <2>1. StoreSize(typ) = 8 /\ codegen_movereg(typ, r) = <<<<"store", 8, r>>>>
    BY <1>6 DEF StoreSize, codegen_movereg
  <2> QED
    BY <1>2, <2>1
<1>7. CASE typ.kind \notin {"char", "int", "uint", "ptr"}
  <2>1. codegen_movereg(typ, r) = Stop
    BY <1>7 DEF codegen_movereg
  <2> QED
    BY <1>3, <2>1
<1> QED
  BY <1>4, <1>5, <1>6, <1>7

\* The old value over the address of a variable, the store that takes both, and the
\* store that leaves the new value.
LEMMA KeepsAssign ==
  ASSUME NEW E, NEW place, NEW n, Points(E, place, n), NEW typ, NEW S \in Shape
  PROVE  /\ Keeps(E, OldValue(place, typ), Lift(0, S), Lift(1, Onto(n, S)))
         /\ StoreSize(typ) <= n => /\ Keeps(E, StoreTop(typ), Lift(1, Onto(n, S)), Lift(0, S))
                                   /\ Keeps(E, Updated(typ), Lift(1, Onto(n, S)), Lift(1, S))
<1>1. n \in Nat /\ Keeps(E, place, Lift(0, S), Onto(n, S))
  BY DEF Points
<1>2. Onto(n, S) \in Shape /\ At(n, S) \in Shape
  BY <1>1, Shapes
<1> DEFINE X == Onto(n, S)
<1>x. X \in Shape /\ Onto(n, S) = X
  BY <1>2
<1> HIDE DEF X
<1>3. Keeps(E, OldValue(place, typ), Lift(0, S), Lift(1, X))
  <2>1. /\ Keeps(E, emit_pop("rax"), X, At(n, S))
        /\ Keeps(E, emit_push("rax"), At(n, S), At(n, X))
    BY <1>1, <1>x, AddressSteps
  <2>2. Keeps(E, place \o emit_pop("rax"), Lift(0, S), At(n, S))
    BY <1>1, <1>x, <2>1, KeepsSequence
  <2>3. Keeps(E, (place \o emit_pop("rax")) \o emit_push("rax"), Lift(0, S), At(n, X))
    BY <2>1, <2>2, KeepsSequence
  <2>4. Keeps(E, emit_push("rax"), At(n, X), Lift(1, X))
    <3>1. Above(E, emit_push("rax"), 0, 0 + 1)
      BY AbovePush
    <3>2. Keeps(E, emit_push("rax"), Lift(0, X), Lift(1, X))
      BY <1>x, <3>1 DEF Above
    <3>3. Le(Lift(0, X), At(n, X)) /\ At(n, X) \in Shape /\ Lift(1, X) \in Shape
      BY <1>1, <1>x, AtLess, Shapes
    <3>4. Le(Lift(1, X), Lift(1, X))
      BY <3>3, LeSame
    <3> QED
      BY <3>2, <3>3, <3>4, KeepsLess
  <2>5. Keeps(E, ((place \o emit_pop("rax")) \o emit_push("rax")) \o emit_push("rax"),
              Lift(0, S), Lift(1, X))
    BY <2>3, <2>4, KeepsSequence
  <2>6. Keeps(E, codegen_movevalue(typ), Lift(1, X), Lift(1, X))
    BY <1>x, AboveMoveValue DEF Above
  <2> QED
    BY <2>5, <2>6, KeepsSequence DEF OldValue
<1>4. ASSUME StoreSize(typ) <= n
      PROVE  /\ Keeps(E, StoreTop(typ), Lift(1, X), Lift(0, S))
             /\ Keeps(E, Updated(typ), Lift(1, X), Lift(1, S))
  <2>1. Keeps(E, emit_pop("rcx"), Lift(1, X), X)
    <3>1. Above(E, emit_pop("rcx"), 0 + 1, 0)
      BY AbovePop
    <3>2. Keeps(E, emit_pop("rcx"), Lift(1, X), Lift(0, X))
      BY <1>x, <3>1 DEF Above
    <3>3. Lift(0, X) = X
      BY <1>1, Lifts DEF X
    <3> QED
      BY <3>2, <3>3
  <2>2. Keeps(E, emit_pop("rax"), X, At(n, S))
    BY <1>1, <1>x, AddressSteps
  <2>3. Keeps(E, Operands, Lift(1, X), At(n, S))
    BY <2>1, <2>2, KeepsSequence DEF Operands
  <2>4. Keeps(E, codegen_movereg(typ, "rcx"), At(n, S), Lift(0, S))
    BY <1>1, <1>4, KeepsStore
  <2>5. Keeps(E, StoreTop(typ), Lift(1, X), Lift(0, S))
    BY <2>3, <2>4, KeepsSequence DEF StoreTop
  <2>6. Keeps(E, emit_push("rcx"), Lift(0, S), Lift(1, S))
    <3>1. Above(E, emit_push("rcx"), 0, 0 + 1)
      BY AbovePush
    <3> QED
      BY <3>1 DEF Above
  <2>7. Keeps(E, Updated(typ), Lift(1, X), Lift(1, S))
    BY <2>5, <2>6, KeepsSequence DEF Updated
  <2> QED
    BY <2>5, <2>7
<1> QED
  BY <1>3, <1>4, <1>x

-----------------------------------------------------------------------------
\* Statements.

\* Code that knows nothing and of which nothing is known.
Closed(E, c) == Keeps(E, c, Blank, Blank)

\* An expression whose value is left behind.
LEMMA AboveClosed ==
  ASSUME NEW E, NEW s, NEW k, NEW j, Above(E, s, k, j)
  PROVE  Closed(E, s)
<1>1. Keeps(E, s, Lift(k, Blank), Lift(j, Blank)) /\ k \in Nat /\ j \in Nat
  BY Shapes DEF Above
<1>2. Lift(k, Blank) = Blank /\ Lift(j, Blank) = Blank
  BY <1>1, Shapes, Lifts
<1> QED
  BY <1>1, <1>2 DEF Closed

\* One statement behind the other, and a branch.
LEMMA ClosedThen ==
  ASSUME NEW E, NEW s, NEW t, Closed(E, s), Closed(E, t)
  PROVE  Closed(E, s \o t)
BY KeepsSequence DEF Closed

LEMMA IfCodeClosed ==
  ASSUME NEW E, NEW cond, Above(E, cond, 0, 1), NEW body, Closed(E, body), NEW other,
         Closed(E, other)
  PROVE  Closed(E, IfCode(cond, body, other))
<1>1. Above(E, cond \o Test, 0, 0)
  BY AbovePieces, AboveThen
<1>2. Closed(E, cond \o Test)
  BY <1>1, AboveClosed
<1> QED
  BY <1>2, KeepsTested DEF IfCode, Closed

\* Loops: their labels are where the code begins and ends.
LEMMA LabelledClosed ==
  ASSUME NEW E, NEW s, Closed(E, s), NEW jump \in {"break", "continue"}
  PROVE  /\ Closed(E, Labelled(s, jump, 0)) /\ Closed(E, Labelled(s, jump, Len(s)))
         /\ Len(Labelled(s, jump, 0)) = Len(s)
<1>1. Closed(E, Labelled(s, jump, 0)) /\ Closed(E, Labelled(s, jump, Len(s)))
  BY KeepsLabelled DEF Closed
<1>2. Len(s) \in Nat /\ DOMAIN s = 1 .. Len(s)
  BY SeqFacts DEF Closed, Keeps
<1>3. Len(Labelled(s, jump, 0)) = Len(s)
  BY <1>2, FunctionIsSeq DEF Labelled
<1> QED
  BY <1>1, <1>3

LEMMA WhileCodeClosed ==
  ASSUME NEW E, NEW cond, Above(E, cond, 0, 1), NEW body, Closed(E, body)
  PROVE  Closed(E, WhileCode(cond, body))
<1> DEFINE s == cond \o Test
           enter == s \o <<<<"jcc", "e", Len(body) + 1>>>>
           loop == (enter \o body) \o <<<<"jmp", -(Len(enter) + Len(body) + 1)>>>>
           inner == Labelled(loop, "continue", 0)
<1>1. Closed(E, s)
  <2>1. Above(E, s, 0, 0)
    BY AbovePieces, AboveThen
  <2> QED
    BY <2>1, AboveClosed
<1>2. Closed(E, loop)
  <2> HIDE DEF s
  <2> QED
    BY <1>1, KeepsLoop DEF Closed
<1>3. WhileCode(cond, body) = Labelled(inner, "break", Len(loop))
  BY DEF WhileCode
<1> HIDE DEF loop
<1>4. Closed(E, inner) /\ Len(inner) = Len(loop)
  BY <1>2, LabelledClosed
<1> HIDE DEF inner
<1>5. Closed(E, Labelled(inner, "break", Len(inner)))
  BY <1>4, LabelledClosed
<1> QED
  BY <1>3, <1>4, <1>5

LEMMA ForCodeClosed ==
  ASSUME NEW E, NEW first, Closed(E, first), NEW cond, Above(E, cond, 0, 1),
         NEW next, Closed(E, next), NEW body, Closed(E, body)
  PROVE  Closed(E, ForCode(first, cond, next, body))
<1> DEFINE s == Labelled(body, "continue", Len(body))
<1>1. Closed(E, s)
  BY LabelledClosed
<1>2. ForCode(first, cond, next, body) = first \o WhileCode(cond, s \o next)
  BY DEF ForCode
<1> HIDE DEF s
<1>3. Closed(E, WhileCode(cond, s \o next))
  BY <1>1, ClosedThen, WhileCodeClosed
<1> QED
  BY <1>2, <1>3, ClosedThen

LEMMA ElifCodeClosed ==
  ASSUME NEW E, NEW conds, NEW bodies, NEW last, Len(conds) \in Nat, Closed(E, last),
         \A i \in 1 .. Len(conds) : Above(E, conds[i], 0, 1) /\ Closed(E, bodies[i])
  PROVE  Closed(E, ElifCode(conds, bodies, last))
<1> DEFINE n == Len(conds)
<1>n. n \in Nat /\ \A i \in 1 .. n : Above(E, conds[i], 0, 1) /\ Closed(E, bodies[i])
  OBVIOUS
<1> DEFINE chain == CHOOSE c : IsChain(c, conds, bodies, last, n)
<1>1. ElifCode(conds, bodies, last) = chain[n]
  BY DEF ElifCode, IsChain
<1> HIDE DEF n
<1>c. IsChain(chain, conds, bodies, last, n)
  BY <1>n, ChainExists
<1>2. chain = [k \in 0 .. n |-> IF k = 0 THEN last ELSE
                 IfCode(conds[n - k + 1], bodies[n - k + 1], chain[k - 1])]
  BY <1>c DEF IsChain
<1> HIDE DEF chain
<1> DEFINE S == {k \in Nat : k <= n => Closed(E, chain[k])}
<1>3. 0 \in S
  BY <1>2, <1>n
<1>4. ASSUME NEW k \in S PROVE k + 1 \in S
  <2> SUFFICES ASSUME k + 1 <= n PROVE Closed(E, chain[k + 1])
    OBVIOUS
  <2>1. k + 1 \in 0 .. n /\ k + 1 # 0 /\ (k + 1) - 1 = k /\ n - (k + 1) + 1 \in 1 .. n
        /\ Closed(E, chain[k])
    BY <1>n
  <2>2. chain[k + 1] = IfCode(conds[n - (k + 1) + 1], bodies[n - (k + 1) + 1], chain[k])
    BY <1>2, <2>1
  <2> QED
    BY <1>n, <2>1, <2>2, IfCodeClosed
<1>5. S = Nat
  BY <1>3, <1>4, SetInduction
<1> QED
  BY <1>1, <1>5, <1>n

\* Pieces of code that each keep what is known.
LEMMA KeepsEach ==
  ASSUME NEW E, NEW s, IsSeq(s), NEW S \in Shape, \A i \in 1 .. Len(s) : Keeps(E, s[i], S, S)
  PROVE  Keeps(E, FlattenSeq(s), S, S)
<1> DEFINE n == Len(s)
           h == [i \in 0 .. n |-> S]
<1>1. n \in Nat
  BY SeqFacts
<1> HIDE DEF n
<1>2. \A i \in 0 .. n : h[i] = S /\ h[i] \in Shape
  OBVIOUS
<1> HIDE DEF h
<1>3. \A i \in 1 .. n : i \in 0 .. n /\ i - 1 \in 0 .. n
  BY <1>1
<1>4. \A i \in 1 .. n : Keeps(E, s[i], h[i - 1], h[i])
  BY <1>2, <1>3 DEF n
<1>5. Keeps(E, FlattenSeq(s), h[0], h[n])
  BY <1>1, <1>2, <1>4, KeepsFlatten DEF n
<1>6. h[0] = S /\ h[n] = S
  BY <1>1, <1>2
<1> QED
  BY <1>5, <1>6

-----------------------------------------------------------------------------
\* Calls.

\* The registers are pushed and popped around a call.
LEMMA AboveSave ==
  ASSUME NEW E
  PROVE  /\ Above(E, FlattenSeq([i \in 1 .. 6 |-> emit_push(ArgRegs[i])]), 0, 6)
         /\ Above(E, Restore, 6, 0)
<1>1. ASSUME NEW S \in Shape
      PROVE  Keeps(E, FlattenSeq([i \in 1 .. 6 |-> emit_push(ArgRegs[i])]), Lift(0, S), Lift(6, S))
  <2> DEFINE s == [i \in 1 .. 6 |-> emit_push(ArgRegs[i])]
             h == [i \in 0 .. 6 |-> Lift(i, S)]
  <2>1. IsSeq(s) /\ Len(s) = 6
    BY FunctionIsSeq
  <2>2. \A i \in 0 .. 6 : h[i] \in Shape /\ h[i] = Lift(i, S)
    <3>1. \A i \in Nat : Lift(i, S) \in Shape
      BY Shapes
    <3> QED
      BY <3>1
  <2>3. ASSUME NEW i \in 1 .. 6 PROVE Keeps(E, s[i], h[i - 1], h[i])
    <3>1. i - 1 \in Nat /\ i - 1 \in 0 .. 6 /\ i \in 0 .. 6 /\ (i - 1) + 1 = i
      OBVIOUS
    <3>2. Above(E, emit_push(ArgRegs[i]), i - 1, (i - 1) + 1)
      BY <3>1, AbovePush
    <3>3. Keeps(E, emit_push(ArgRegs[i]), Lift(i - 1, S), Lift(i, S))
      BY <3>1, <3>2 DEF Above
    <3> QED
      BY <2>2, <3>1, <3>3
  <2>4. h[0] = Lift(0, S) /\ h[6] = Lift(6, S)
    OBVIOUS
  <2> HIDE DEF s, h
  <2>5. Keeps(E, FlattenSeq(s), h[0], h[6])
    BY <2>1, <2>2, <2>3, KeepsFlatten
  <2> QED
    BY <2>4, <2>5 DEF s
<1>2. ASSUME NEW S \in Shape PROVE Keeps(E, Restore, Lift(6, S), Lift(0, S))
  <2> DEFINE s == [i \in 1 .. 6 |-> emit_pop(ArgRegs[7 - i])]
             h == [i \in 0 .. 6 |-> Lift(6 - i, S)]
  <2>1. IsSeq(s) /\ Len(s) = 6
    BY FunctionIsSeq
  <2>2. \A i \in 0 .. 6 : h[i] \in Shape /\ h[i] = Lift(6 - i, S)
    BY Shapes
  <2>3. ASSUME NEW i \in 1 .. 6 PROVE Keeps(E, s[i], h[i - 1], h[i])
    <3>1. 7 - i \in 1 .. 6 /\ i - 1 \in 0 .. 6 /\ i \in 0 .. 6 /\ 6 - i \in Nat
          /\ 6 - (i - 1) = (6 - i) + 1
      OBVIOUS
    <3>r. ArgRegs[7 - i] # "rbp"
      BY <3>1 DEF ArgRegs
    <3>2. Above(E, emit_pop(ArgRegs[7 - i]), (6 - i) + 1, 6 - i)
      BY <3>1, <3>r, AbovePop
    <3>3. Keeps(E, emit_pop(ArgRegs[7 - i]), Lift((6 - i) + 1, S), Lift(6 - i, S))
      BY <3>2 DEF Above
    <3>4. h[i - 1] = Lift((6 - i) + 1, S) /\ h[i] = Lift(6 - i, S)
      BY <2>2, <3>1
    <3> QED
      BY <3>3, <3>4
  <2>4. h[0] = Lift(6, S) /\ h[6] = Lift(0, S)
    OBVIOUS
  <2>6. Restore = FlattenSeq(s)
    BY DEF Restore
  <2> HIDE DEF s, h
  <2>5. Keeps(E, FlattenSeq(s), h[0], h[6])
    BY <2>1, <2>2, <2>3, KeepsFlatten
  <2> QED
    BY <2>4, <2>5, <2>6
<1> QED
  BY <1>1, <1>2 DEF Above

\* An argument beyond the sixth is put into the room there is for it.
LEMMA AboveSpill ==
  ASSUME NEW E, NEW m \in Nat, NEW off \in Nat, off + 8 <= 8 * m
  PROVE  Above(E, <<<<"spill", off>>>>, m, m)
<1> DEFINE ins == <<"spill", off>>
<1>1. ins[1] = "spill" /\ ins[2] = off
  OBVIOUS
<1> HIDE DEF ins
<1>2. Leaps(ins) = {1} /\ ins[1] # "store"
  BY <1>1 DEF Leaps
<1>3. ASSUME NEW S \in Shape PROVE Yields(E, ins, Lift(m, S), Lift(m, S))
  <2>1. PICK T : T = Lift(m, S)
    OBVIOUS
  <2>2. T \in Shape /\ T[0] = 0 /\ \A k \in Nat : k <= m => T[k] = 0
    BY <2>1, Shapes, LiftAt
  <2>3. Rax(E, ins, T, T[0])
    BY <2>2 DEF Rax
  <2>4. ASSUME NEW k \in Nat \ {0} PROVE T[k] <= WordAfter(ins, T, k)
    <3>1. CASE k <= m
      <4>1. WordAfter(ins, T, k) \in Nat
        BY <2>2, WordAfterNat
      <4> QED
        BY <2>2, <3>1, <4>1
    <3>2. CASE k > m
      <4>1. off + 16 <= 8 * k /\ off \in Int
        BY <3>2
      <4>2. WordAfter(ins, T, k) = T[k]
        BY <1>1, <4>1 DEF WordAfter
      <4>3. T[k] \in Nat
        BY <2>2 DEF Shape
      <4> QED
        BY <4>2, <4>3
    <3> QED
      BY <3>1, <3>2
  <2> QED
    BY <2>1, <2>3, <2>4 DEF Yields
<1> QED
  BY <1>2, <1>3, AboveOne DEF ins

\* The room for them is made and given up.
LEMMA AboveRoom ==
  ASSUME NEW E, NEW m \in Nat, NEW k \in Nat
  PROVE  /\ Above(E, <<<<"add_int", -(8 * m), "rsp">>>>, k, k + m)
         /\ Above(E, <<<<"add_int", 8 * m, "rsp">>>>, k + m, k)
<1>1. ASSUME NEW off, NEW a \in Nat, NEW b \in Nat, NEW w \in Int, off = 8 * w, w = a - b
      PROVE  Above(E, <<<<"add_int", off, "rsp">>>>, a, b)
  <2> DEFINE ins == <<"add_int", off, "rsp">>
  <2>1. ins[1] = "add_int" /\ ins[2] = off /\ ins[3] = "rsp"
    OBVIOUS
  <2> HIDE DEF ins
  <2>2. Leaps(ins) = {1} /\ ins[1] # "store"
    BY <2>1 DEF Leaps
  <2>3. ASSUME NEW S \in Shape PROVE Yields(E, ins, Lift(a, S), Lift(b, S))
    <3>1. PICK T, U : T = Lift(a, S) /\ U = Lift(b, S)
      OBVIOUS
    <3>2. T \in Shape /\ T[0] = 0 /\ U \in Shape /\ U[0] = 0
      BY <3>1, Shapes, LiftAt
    <3>3. Rax(E, ins, T, U[0])
      BY <3>2 DEF Rax
    <3>4. ASSUME NEW j \in Nat \ {0} PROVE U[j] <= WordAfter(ins, T, j)
      <4>1. CASE j <= b
        <5>1. U[j] = 0 /\ WordAfter(ins, T, j) \in Nat
          BY <3>1, <3>2, <4>1, LiftAt, WordAfterNat
        <5> QED
          BY <5>1
      <4>2. CASE j > b
        <5>1. j + w \in Nat /\ j + w > a /\ j + w >= 1 /\ (j + w) - a = j - b /\ off \div 8 = w
          BY <1>1, <4>2
        <5>2. WordAfter(ins, T, j) = T[j + w]
          BY <1>1, <2>1, <5>1 DEF WordAfter
        <5>3. T[j + w] = S[(j + w) - a] /\ U[j] = S[j - b]
          BY <3>1, <4>2, <5>1, LiftAt
        <5>4. U[j] \in Nat
          BY <3>2 DEF Shape
        <5> QED
          BY <5>1, <5>2, <5>3, <5>4
      <4> QED
        BY <4>1, <4>2
    <3> QED
      BY <3>1, <3>3, <3>4 DEF Yields
  <2> QED
    BY <2>2, <2>3, AboveOne DEF ins
<1>2. -(8 * m) = 8 * (-m) /\ -m = k - (k + m) /\ m = (k + m) - k /\ -m \in Int /\ k + m \in Nat
  OBVIOUS
<1> QED
  BY <1>1, <1>2

\* Pieces of code that each leave the stack as it was.
LEMMA AboveEach ==
  ASSUME NEW E, NEW s, IsSeq(s), NEW k \in Nat, \A i \in 1 .. Len(s) : Above(E, s[i], k, k)
  PROVE  Above(E, FlattenSeq(s), k, k)
<1>1. ASSUME NEW S \in Shape PROVE Keeps(E, FlattenSeq(s), Lift(k, S), Lift(k, S))
  <2>1. Lift(k, S) \in Shape
    BY Shapes
  <2>2. \A i \in 1 .. Len(s) : Keeps(E, s[i], Lift(k, S), Lift(k, S))
    BY DEF Above
  <2> QED
    BY <2>1, <2>2, KeepsEach
<1> QED
  BY <1>1 DEF Above

\* A call takes its arguments from the stack, in registers and on the stack, and
\* leaves one value.
LEMMA AboveCall ==
  ASSUME NEW E, NEW fn, NEW args, IsSeq(args), \A i \in 1 .. Len(args) : Above(E, args[i], 0, 1)
  PROVE  Above(E, CallCode(fn, args), 0, 1)
<1> DEFINE n == Len(args)
           m == IF n > 6 THEN n - 6 ELSE 0
           Passed(i) == (args[i] \o emit_pop("rax")) \o Pass(i)
           room(k)   == IF n > 6 THEN <<<<"add_int", k * (n - 6) * 8, "rsp">>>> ELSE <<>>
           Args(s)   == FlattenSeq([i \in 1 .. Len(s) |-> Passed(s[i])])
           first     == [i \in 1 .. (IF n < 6 THEN n ELSE 6) |-> i]
           others    == [i \in 1 .. n - Len(first) |-> i + 6]
           save      == FlattenSeq([i \in 1 .. 6 |-> emit_push(ArgRegs[i])])
           call      == <<<<"mov_int", 0, "rax">>, <<"call", fn>>>>
<1>1. CallCode(fn, args)
      = ((((((save \o Args(first)) \o room(-1)) \o Args(others)) \o call) \o room(1)) \o Restore)
        \o emit_push("rax")
  BY DEF CallCode
<1>n. n \in Nat /\ m \in Nat /\ \A i \in 1 .. n : Above(E, args[i], 0, 1)
  <2>1. n \in Nat
    BY SeqFacts
  <2> HIDE DEF n
  <2> QED
    BY <2>1 DEF n
<1> HIDE DEF n
<1>2. ASSUME NEW i \in 1 .. n, NEW k \in Nat, i > 6 => k >= m
      PROVE  Above(E, Passed(i), k, k)
  <2> DEFINE s == args[i] \o emit_pop("rax")
  <2>1. Above(E, s, 0, 0)
    <3>1. Above(E, args[i], 0, 1) /\ Above(E, emit_pop("rax"), 0 + 1, 0)
      BY <1>n, AbovePop
    <3> QED
      BY <3>1, AboveThen
  <2> HIDE DEF s
  <2>2. Above(E, s, k, k)
    <3>1. Above(E, s, 0 + k, 0 + k) /\ 0 + k = k
      BY <2>1, AboveOver
    <3> QED
      BY <3>1
  <2>3. Above(E, Pass(i), k, k)
    <3>1. CASE i <= 6
      <4>1. Plain(<<"mov", "rax", ArgRegs[i]>>)
        <5>1. i \in 1 .. 6
          BY <1>n, <3>1
        <5>2. ArgRegs[i] \in Data
          BY <5>1, SomeRegisters
        <5> QED
          BY <5>2, PlainInstructions
      <4>2. Pass(i) = <<<<"mov", "rax", ArgRegs[i]>>>>
        BY <3>1 DEF Pass
      <4> QED
        BY <4>1, <4>2, NoStores, AbovePlain
    <3>2. CASE i > 6
      <4> DEFINE off == (i - 7) * 8
      <4>1. Pass(i) = <<<<"spill", off>>>>
        BY <3>2 DEF Pass
      <4>2. off \in Nat /\ off + 8 <= 8 * k
        BY <1>n, <1>2, <3>2
      <4> HIDE DEF off
      <4> QED
        BY <4>1, <4>2, AboveSpill
    <3> QED
      BY <1>n, <3>1, <3>2
  <2> QED
    BY <2>2, <2>3, AboveThen DEF s
<1> HIDE DEF Passed
<1>3. IsSeq(first) /\ Len(first) \in 0 .. 6 /\ \A i \in 1 .. Len(first) : first[i] \in 1 .. n /\ first[i] <= 6
  <2>1. IsSeq(first) /\ Len(first) = (IF n < 6 THEN n ELSE 6)
    BY <1>n, FunctionIsSeq
  <2> QED
    BY <1>n, <2>1
<1>4. IsSeq(others) /\ \A i \in 1 .. Len(others) : others[i] \in 1 .. n
  <2>1. n - Len(first) = m
    <3>1. Len(first) = (IF n < 6 THEN n ELSE 6)
      BY <1>n, FunctionIsSeq
    <3> QED
      BY <1>n, <3>1
  <2> HIDE DEF first, m
  <2>2. IsSeq(others) /\ Len(others) = m
    BY <1>n, <2>1, FunctionIsSeq
  <2>3. ASSUME NEW i \in 1 .. m PROVE others[i] \in 1 .. n
    <3>1. others[i] = i + 6
      BY <2>1
    <3> QED
      BY <1>n, <3>1 DEF m
  <2> QED
    BY <2>2, <2>3
<1> HIDE DEF first, others
<1>5. ASSUME NEW s, IsSeq(s), NEW k \in Nat,
             \A i \in 1 .. Len(s) : s[i] \in 1 .. n /\ (s[i] > 6 => k >= m)
      PROVE  Above(E, Args(s), k, k)
  <2> DEFINE codes == [i \in 1 .. Len(s) |-> Passed(s[i])]
  <2>1. Len(s) \in Nat
    BY <1>5, SeqFacts
  <2>2. IsSeq(codes) /\ Len(codes) = Len(s)
    BY <2>1, FunctionIsSeq
  <2>3. \A i \in 1 .. Len(s) : Above(E, codes[i], k, k)
    BY <1>2, <1>5
  <2> HIDE DEF codes
  <2>4. Above(E, FlattenSeq(codes), k, k)
    BY <2>2, <2>3, AboveEach
  <2> QED
    BY <2>4 DEF codes
<1>6. Above(E, room(-1), 6, 6 + m) /\ Above(E, room(1), 6 + m, 6)
  <2>1. CASE n > 6
    <3>1. (-1) * (n - 6) * 8 = -(8 * m) /\ 1 * (n - 6) * 8 = 8 * m
      BY <1>n, <2>1
    <3>2. room(-1) = <<<<"add_int", -(8 * m), "rsp">>>> /\ room(1) = <<<<"add_int", 8 * m, "rsp">>>>
      BY <2>1, <3>1
    <3> HIDE DEF m, room
    <3> QED
      BY <1>n, <3>2, AboveRoom
  <2>2. CASE ~ (n > 6)
    <3>1. room(-1) = <<>> /\ room(1) = <<>> /\ m = 0 /\ 6 + m = 6
      BY <2>2
    <3> QED
      BY <3>1, AboveNothing
  <2> QED
    BY <2>1, <2>2
<1>7. Above(E, Args(first), 6, 6)
  <2>1. \A i \in 1 .. Len(first) : first[i] \in 1 .. n /\ (first[i] > 6 => 6 >= m)
    BY <1>3
  <2> HIDE DEF Args
  <2> QED
    BY <1>3, <1>5, <2>1
<1>8. Above(E, Args(others), 6 + m, 6 + m)
  <2>1. 6 + m \in Nat /\ 6 + m >= m
    BY <1>n
  <2> HIDE DEF Args, m
  <2> QED
    BY <1>4, <1>5, <2>1
<1>9. Above(E, call, 6 + m, 6 + m)
  <2>1. Plain(<<"mov_int", 0, "rax">>) /\ Plain(<<"call", fn>>)
    BY DEF Plain, Data, Registers
  <2>2. 6 + m \in Nat
    BY <1>n
  <2> HIDE DEF m
  <2> QED
    BY <2>1, <2>2, NoStores, AboveTwo
<1>10. Above(E, emit_push("rax"), 0, 0 + 1)
  BY AbovePush
<1>11. Above(E, save, 0, 6) /\ Above(E, Restore, 6, 0) /\ Above(E, emit_push("rax"), 0, 1)
  BY <1>10, AboveSave
<1> HIDE DEF Args, save, call, room, m
<1>12. Above(E, (save \o Args(first)) \o room(-1), 0, 6 + m)
  BY <1>6, <1>7, <1>11, AboveThen
<1>13. Above(E, (((save \o Args(first)) \o room(-1)) \o Args(others)) \o call, 0, 6 + m)
  BY <1>8, <1>9, <1>12, AboveThen
<1>14. Above(E, ((((((save \o Args(first)) \o room(-1)) \o Args(others)) \o call) \o room(1)) \o Restore)
                \o emit_push("rax"), 0, 1)
  BY <1>6, <1>11, <1>13, AboveThen
<1> QED
  BY <1>1, <1>14

-----------------------------------------------------------------------------
\* Programs that store through names.

\* The trees codegen() goes on to, and those it stores to.
Parts(ast) ==
  CASE ast.kind \in InfixKinds -> {ast.left, ast.right}
    [] ast.kind \in {"minus", "deref", "addr", "preinc", "return"} -> {ast.value}
    [] ast.kind = "dot"        -> {ast.structvalue}
    [] ast.kind = "call"       -> ToSet(ast.arguments)
    [] ast.kind = "statements" -> ToSet(ast.stmts)
    [] ast.kind = "if"         -> {ast.ifcond, ast.ifbody, ast.elsebody}
                                  \cup ToSet(ast.elifconds) \cup ToSet(ast.elifbodies)
    [] ast.kind = "while"      -> {ast.whilecond, ast.whilebody}
    [] ast.kind = "for"        -> {ast.forinit, ast.forcond, ast.fornext, ast.forbody}
    [] OTHER -> {}
Stored(ast) ==
  CASE ast.kind \in Assigned -> {ast.left}
    [] ast.kind = "preinc"   -> {ast.value}
    [] OTHER -> {}

\* A variable by its name, or a field of one in P that lies within it.
Named(E, P, ast) ==
  /\ SizeOf(ast.typ) \in Nat
  /\ \/ ast.kind = "ident" /\ SlotOf(E, SizeOf(ast.typ), -ast.offset)
     \/ ast.kind = "globalref" /\ GlobalOf(E, SizeOf(ast.typ), ast.ident)
     \/ /\ ast.kind = "dot" /\ ast.structvalue \in P /\ SizeOf(ast.structvalue.typ) \in Nat
        /\ FieldOf(ast.structvalue.typ, ast.fieldname).offset + SizeOf(ast.typ)
             <= SizeOf(ast.structvalue.typ)

\* N has a tree with everything below it, and what it stores goes to variables of P.
InNames(E, P, ast) == ast \in P => Named(E, P, ast)
StoresIn(P, ast)   == \A a \in Stored(ast) : a \in P /\ StoreSize(a.typ) <= SizeOf(a.typ)
ByName(E, N, P) ==
  \A ast \in N : Parts(ast) \subseteq N /\ InNames(E, P, ast) /\ StoresIn(P, ast)

\* What holds of the code of such a tree.
KeepsShape(E, P, ast) ==
  /\ ast.kind \in ValueKinds => Above(E, Code[<<"value", ast>>], 0, 1)
  /\ Above(E, Code[<<"place", ast>>], 0, 1)
  /\ ast \in P => Points(E, Code[<<"place", ast>>], SizeOf(ast.typ))
  /\ Closed(E, Code[<<"value", ast>>])

\* An address is put into rax and pushed.
LEMMA AboveAddress ==
  ASSUME NEW E
  PROVE  /\ Above(E, emit_push("rax"), 0, 1) /\ Above(E, emit_pop("rax"), 1, 0)
         /\ \A k \in Int : /\ Above(E, <<<<"lea", k>>>>, 0, 0) /\ Above(E, <<<<"reload", k>>>>, 0, 0)
                           /\ Above(E, <<<<"add_int", k, "rax">>>>, 0, 0)
         /\ \A g : Above(E, <<<<"lea_rip", g>>>>, 0, 0)
<1>1. Above(E, emit_push("rax"), 0, 0 + 1) /\ Above(E, emit_pop("rax"), 0 + 1, 0)
  BY AbovePush, AbovePop
<1>2. ASSUME NEW k \in Int
      PROVE  /\ Above(E, <<<<"lea", k>>>>, 0, 0) /\ Above(E, <<<<"reload", k>>>>, 0, 0)
             /\ Above(E, <<<<"add_int", k, "rax">>>>, 0, 0)
  <2>1. Plain(<<"lea", k>>) /\ Plain(<<"reload", k>>) /\ Plain(<<"add_int", k, "rax">>)
    BY PlainInstructions
  <2>2. <<"lea", k>>[1] # "store" /\ <<"reload", k>>[1] # "store" /\ <<"add_int", k, "rax">>[1] # "store"
    OBVIOUS
  <2> QED
    BY <2>1, <2>2, AbovePlain
<1>3. ASSUME NEW g PROVE Above(E, <<<<"lea_rip", g>>>>, 0, 0)
  <2>1. Plain(<<"lea_rip", g>>) /\ <<"lea_rip", g>>[1] # "store"
    BY PlainInstructions
  <2> QED
    BY <2>1, AbovePlain
<1> QED
  BY <1>1, <1>2, <1>3

\* A place has an address, and one of P that of the variable it names.
LEMMA PlaceShape ==
  ASSUME NEW E, NEW P, NEW ast \in AllTrees, NEW parts, WellFormed(ast, parts),
         \A p \in parts : KeepsShape(E, P, p), InNames(E, P, ast)
  PROVE  /\ Above(E, codegen_lvalue(ast, Code), 0, 1)
         /\ ast \in P => Points(E, codegen_lvalue(ast, Code), SizeOf(ast.typ))
<1> DEFINE size == SizeOf(ast.typ)
<1>a. ASSUME NEW c, \A S \in Shape : Keeps(E, c, Lift(0, S), At(size, S)), size \in Nat
      PROVE  Points(E, c \o emit_push("rax"), size)
  <2>1. ASSUME NEW S \in Shape PROVE Keeps(E, c \o emit_push("rax"), Lift(0, S), Onto(size, S))
    <3>1. Keeps(E, c, Lift(0, S), At(size, S)) /\ Keeps(E, emit_push("rax"), At(size, S), Onto(size, S))
      BY <1>a, AddressSteps
    <3> QED
      BY <3>1, KeepsSequence
  <2> QED
    BY <1>a, <2>1 DEF Points
<1>1. CASE ast.kind = "ident"
  <2> DEFINE c == <<<<"lea", -ast.offset>>>>
  <2>1. codegen_lvalue(ast, Code) = c \o emit_push("rax")
    BY <1>1 DEF codegen_lvalue
  <2>2. Above(E, c, 0, 0)
    <3>1. ast.offset \in Nat
      BY <1>1 DEF WellFormed, InfixKinds, Summed, Numbered, Assigned, Untyped
    <3>2. -ast.offset \in Int
      BY <3>1
    <3> QED
      BY <3>2, AboveAddress
  <2>3. ASSUME ast \in P PROVE Points(E, c \o emit_push("rax"), size)
    <3>1. size \in Nat /\ SlotOf(E, size, -ast.offset)
      BY <1>1, <2>3 DEF InNames, Named
    <3>2. \A S \in Shape : Keeps(E, c, Lift(0, S), At(size, S))
      BY <3>1, Addressed
    <3> HIDE DEF c, size
    <3> QED
      BY <1>a, <3>1, <3>2
  <2> HIDE DEF c
  <2> QED
    BY <2>1, <2>2, <2>3, AboveAddress, AboveThen
<1>2. CASE ast.kind = "globalref"
  <2> DEFINE c == <<<<"lea_rip", ast.ident>>>>
  <2>1. codegen_lvalue(ast, Code) = c \o emit_push("rax")
    BY <1>2 DEF codegen_lvalue
  <2>2. Above(E, c, 0, 0)
    BY AboveAddress
  <2>3. ASSUME ast \in P PROVE Points(E, c \o emit_push("rax"), size)
    <3>1. size \in Nat /\ GlobalOf(E, size, ast.ident)
      BY <1>2, <2>3 DEF InNames, Named
    <3>2. \A S \in Shape : Keeps(E, c, Lift(0, S), At(size, S))
      BY <3>1, Addressed
    <3> HIDE DEF c, size
    <3> QED
      BY <1>a, <3>1, <3>2
  <2> HIDE DEF c
  <2> QED
    BY <2>1, <2>2, <2>3, AboveAddress, AboveThen
<1>3. CASE ast.kind = "deref"
  <2>1. ast.value \in parts /\ ast.value.kind \in ValueKinds
    BY <1>3 DEF WellFormed, InfixKinds, Summed, Numbered, Assigned, Untyped
  <2>2. Above(E, Code[<<"value", ast.value>>], 0, 1)
    BY <2>1 DEF KeepsShape
  <2>3. codegen_lvalue(ast, Code) = Code[<<"value", ast.value>>]
    BY <1>3 DEF codegen_lvalue
  <2>4. ast \notin P
    BY <1>3 DEF InNames, Named
  <2> QED
    BY <2>2, <2>3, <2>4
<1>4. CASE ast.kind = "dot"
  <2> DEFINE off == FieldOf(ast.structvalue.typ, ast.fieldname).offset
             place == Code[<<"place", ast.structvalue>>]
             whole == SizeOf(ast.structvalue.typ)
             c == (place \o emit_pop("rax")) \o <<<<"add_int", off, "rax">>>>
  <2>1. ast.structvalue \in parts /\ off \in Nat
    BY <1>4 DEF WellFormed, InfixKinds, Summed, Numbered, Assigned, Untyped
  <2>2. codegen_lvalue(ast, Code) = c \o emit_push("rax")
    BY <1>4 DEF codegen_lvalue
  <2>3. Above(E, place, 0, 1) /\ (ast.structvalue \in P => Points(E, place, whole))
    BY <2>1 DEF KeepsShape
  <2>4. ast \in P => /\ ast.structvalue \in P /\ whole \in Nat /\ size \in Nat /\ off + size <= whole
    BY <1>4 DEF InNames, Named
  <2> HIDE DEF off, place, whole, size
  <2>5. Above(E, c, 0, 0)
    <3>1. off \in Int
      BY <2>1
    <3> QED
      BY <2>3, <3>1, AboveAddress, AboveThen
  <2>6. ASSUME ast \in P PROVE Points(E, c \o emit_push("rax"), size)
    <3>1. ASSUME NEW S \in Shape PROVE Keeps(E, c, Lift(0, S), At(size, S))
      <4>1. Keeps(E, place, Lift(0, S), Onto(whole, S))
        BY <2>3, <2>4, <2>6 DEF Points
      <4>2. /\ Keeps(E, emit_pop("rax"), Onto(whole, S), At(whole, S))
            /\ Keeps(E, <<<<"add_int", off, "rax">>>>, At(whole, S), At(size, S))
        BY <2>1, <2>4, <2>6, AddressSteps
      <4> QED
        BY <4>1, <4>2, KeepsSequence
    <3> HIDE DEF c
    <3> QED
      BY <1>a, <2>4, <2>6, <3>1 DEF size
  <2> HIDE DEF c
  <2> QED
    BY <2>2, <2>5, <2>6, AboveAddress, AboveThen DEF size
<1>5. CASE ast.kind \notin {"ident", "globalref", "deref", "dot"}
  <2>1. codegen_lvalue(ast, Code) = Stop
    BY <1>5 DEF codegen_lvalue
  <2>2. ast \notin P
    BY <1>5 DEF InNames, Named
  <2> QED
    BY <2>1, <2>2, AboveNothing
<1> QED
  BY <1>1, <1>2, <1>3, <1>4, <1>5

\* c leaves k words on the address of n bytes of a variable.
Aims(E, c, n, k) ==
  n \in Nat /\ k \in Nat /\ \A S \in Shape : Keeps(E, c, Lift(0, S), Lift(k, Onto(n, S)))

\* What is computed on an address, and what is then stored there.
LEMMA Holding ==
  ASSUME NEW E, NEW c, NEW n
  PROVE  /\ Points(E, c, n) => Aims(E, c, n, 0)
         /\ \A d, k, j : Aims(E, c, n, k) /\ Above(E, d, k, j) => Aims(E, c \o d, n, j)
         /\ \A typ : Points(E, c, n) => Aims(E, OldValue(c, typ), n, 1)
         /\ \A place, typ : Points(E, place, n) /\ Aims(E, c, n, 1) /\ StoreSize(typ) <= n =>
              Above(E, c \o StoreTop(typ), 0, 0) /\ Above(E, c \o Updated(typ), 0, 1)
<1>1. ASSUME Points(E, c, n) PROVE Aims(E, c, n, 0)
  <2>1. n \in Nat /\ \A S \in Shape : Keeps(E, c, Lift(0, S), Onto(n, S))
    BY <1>1 DEF Points
  <2>2. \A S \in Shape : Lift(0, Onto(n, S)) = Onto(n, S)
    BY <2>1, Lifts
  <2> QED
    BY <2>1, <2>2 DEF Aims
<1>2. ASSUME NEW d, NEW k, NEW j, Aims(E, c, n, k), Above(E, d, k, j)
      PROVE  Aims(E, c \o d, n, j)
  <2>1. n \in Nat /\ j \in Nat
    BY <1>2 DEF Aims, Above
  <2>2. ASSUME NEW S \in Shape PROVE Keeps(E, c \o d, Lift(0, S), Lift(j, Onto(n, S)))
    <3>1. Keeps(E, c, Lift(0, S), Lift(k, Onto(n, S)))
      BY <1>2 DEF Aims
    <3>2. Keeps(E, d, Lift(k, Onto(n, S)), Lift(j, Onto(n, S)))
      BY <1>2, <2>1, Shapes DEF Above
    <3> QED
      BY <3>1, <3>2, KeepsSequence
  <2> QED
    BY <2>1, <2>2 DEF Aims
<1>3. ASSUME NEW typ, Points(E, c, n) PROVE Aims(E, OldValue(c, typ), n, 1)
  <2>1. n \in Nat
    BY <1>3 DEF Points
  <2> QED
    BY <1>3, <2>1, KeepsAssign DEF Aims
<1>4. ASSUME NEW place, NEW typ, Points(E, place, n), Aims(E, c, n, 1), StoreSize(typ) <= n
      PROVE  Above(E, c \o StoreTop(typ), 0, 0) /\ Above(E, c \o Updated(typ), 0, 1)
  <2>1. ASSUME NEW S \in Shape
        PROVE  /\ Keeps(E, c \o StoreTop(typ), Lift(0, S), Lift(0, S))
               /\ Keeps(E, c \o Updated(typ), Lift(0, S), Lift(1, S))
    <3>1. /\ Keeps(E, StoreTop(typ), Lift(1, Onto(n, S)), Lift(0, S))
          /\ Keeps(E, Updated(typ), Lift(1, Onto(n, S)), Lift(1, S))
      BY <1>4, KeepsAssign
    <3>2. Keeps(E, c, Lift(0, S), Lift(1, Onto(n, S)))
      BY <1>4 DEF Aims
    <3> QED
      BY <3>1, <3>2, KeepsSequence
  <2> QED
    BY <2>1 DEF Above
<1> QED
  BY <1>1, <1>2, <1>3, <1>4

\* An expression's code leaves its value.
LEMMA ValueShape ==
  ASSUME NEW E, NEW P, NEW ast \in AllTrees, NEW parts, WellFormed(ast, parts),
         \A p \in parts : KeepsShape(E, P, p), InNames(E, P, ast), StoresIn(P, ast),
         ast.kind \in ValueKinds
  PROVE  Above(E, codegen(ast, Code), 0, 1)
<1>p. /\ Above(E, emit_push("rax"), 0, 1) /\ Above(E, emit_pop("rax"), 1, 0)
      /\ Above(E, codegen_lvalue(ast, Code), 0, 1)
  BY AboveAddress, PlaceShape
<1> DEFINE Value(a) == Code[<<"value", a>>]
           Place(a) == Code[<<"place", a>>]
<1>v. \A a : a \in parts /\ a.kind \in ValueKinds => Above(E, Value(a), 0, 1)
  BY DEF KeepsShape
<1>w. \A a \in parts : /\ Above(E, Place(a), 0, 1)
                       /\ a \in P => Points(E, Place(a), SizeOf(a.typ))
  BY DEF KeepsShape
<1>o. \A s, k : Above(E, s, 0, 1) /\ k = 1 => Above(E, s, k, 2)
  <2>1. \A s : Above(E, s, 0, 1) => Above(E, s, 0 + 1, 1 + 1)
    BY AboveOver
  <2>2. 0 + 1 = 1 /\ 1 + 1 = 2
    OBVIOUS
  <2> QED
    BY <2>1, <2>2
<1>1. CASE ast.kind \in {"ident", "globalref", "dot"}
  <2>1. codegen(ast, Code) = codegen_lvalue(ast, Code) \o codegen_movevalue(ast.typ)
    BY <1>1 DEF codegen, InfixKinds, Summed, Numbered, Assigned, Untyped
  <2> QED
    BY <1>p, <2>1, AboveMoveValue, AboveThen
<1>2. CASE ast.kind = "intlit"
  <2>2. codegen(ast, Code) = emit_push_int(ast.intval)
    BY <1>2 DEF codegen, InfixKinds, Summed, Numbered, Assigned, Untyped
  <2>3. Above(E, emit_push_int(ast.intval), 0, 0 + 1)
    BY AbovePush
  <2> QED
    BY <2>2, <2>3
<1>3. CASE ast.kind \in InfixKinds \ Assigned
  <2>1. /\ ast.left \in parts /\ ast.left.kind \in ValueKinds
        /\ ast.right \in parts /\ ast.right.kind \in ValueKinds /\ Scalable(ast.left.typ)
    BY <1>3 DEF WellFormed, InfixKinds, Summed, Numbered, Assigned, Untyped
  <2>2. codegen(ast, Code)
        = InfixCode(ast.kind, Value(ast.left), Value(ast.right), ast.left.typ, ast.right.typ)
    BY <1>3 DEF codegen, InfixKinds, Summed, Numbered, Assigned, Untyped
  <2>3. Above(E, Value(ast.left), 0, 1) /\ Above(E, Value(ast.right), 0, 1)
    BY <1>v, <2>1
  <2> HIDE DEF Value
  <2> QED
    BY <1>3, <2>1, <2>2, <2>3, AboveInfix
<1>4. CASE ast.kind = "minus"
  <2>1. ast.value \in parts /\ ast.value.kind \in ValueKinds
    BY <1>4 DEF WellFormed, InfixKinds, Summed, Numbered, Assigned, Untyped
  <2>2. codegen(ast, Code)
        = ((Value(ast.value) \o emit_pop("rax")) \o <<<<"neg">>>>) \o emit_push("rax")
    BY <1>4 DEF codegen, InfixKinds, Summed, Numbered, Assigned, Untyped
  <2>3. Above(E, Value(ast.value), 0, 1)
    BY <1>v, <2>1
  <2> HIDE DEF Value
  <2>4. Above(E, <<<<"neg">>>>, 0, 0)
    BY PlainInstructions, NoStores, AbovePlain
  <2> QED
    BY <1>p, <2>2, <2>3, <2>4, AboveThen
<1>5. CASE ast.kind = "addassign"
  <2>1. ast.left \in parts /\ ast.right \in parts /\ ast.right.kind \in ValueKinds
        /\ Scalable(ast.left.typ) /\ ast.left \in P /\ StoreSize(ast.left.typ) <= SizeOf(ast.left.typ)
    BY <1>5 DEF WellFormed, StoresIn, Stored, InfixKinds, Summed, Numbered, Assigned, Untyped
  <2> DEFINE typ == ast.left.typ
             n == SizeOf(ast.left.typ)
  <2>2. codegen(ast, Code)
        = ((OldValue(Place(ast.left), typ) \o Value(ast.right))
           \o codegen_add(typ, ast.right.typ)) \o Updated(typ)
    BY <1>5 DEF codegen, InfixKinds, Summed, Numbered, Assigned, Untyped
  <2>3. Points(E, Place(ast.left), n) /\ Above(E, Value(ast.right), 1, 2)
    BY <1>o, <1>v, <1>w, <2>1
  <2>4. Above(E, codegen_add(typ, ast.right.typ), 2, 1) /\ StoreSize(typ) <= n
    BY <2>1, AboveAdd DEF typ
  <2> HIDE DEF Value, Place, typ, n
  <2>5. Aims(E, OldValue(Place(ast.left), typ) \o Value(ast.right), n, 2)
    BY <2>3, Holding
  <2>6. Aims(E, (OldValue(Place(ast.left), typ) \o Value(ast.right)) \o codegen_add(typ, ast.right.typ),
               n, 1)
    BY <2>4, <2>5, Holding
  <2> QED
    BY <2>2, <2>3, <2>4, <2>6, Holding
<1>6. CASE ast.kind = "mulassign"
  <2>1. ast.left \in parts /\ ast.right \in parts /\ ast.right.kind \in ValueKinds
        /\ ast.left \in P /\ StoreSize(ast.left.typ) <= SizeOf(ast.left.typ)
    BY <1>6 DEF WellFormed, StoresIn, Stored, InfixKinds, Summed, Numbered, Assigned, Untyped
  <2> DEFINE typ == ast.left.typ
             n == SizeOf(ast.left.typ)
             old == OldValue(Place(ast.left), typ)
             new == Value(ast.right)
  <2>2. codegen(ast, Code)
        = ((((old \o new) \o Operands) \o <<<<"imul", "rcx">>>>) \o emit_push("rax")) \o Updated(typ)
    BY <1>6 DEF codegen, InfixKinds, Summed, Numbered, Assigned, Untyped
  <2>3. Points(E, Place(ast.left), n) /\ Above(E, new, 1, 2) /\ StoreSize(typ) <= n
    BY <1>o, <1>v, <1>w, <2>1
  <2>4. Above(E, Operands, 2, 0) /\ Above(E, <<<<"imul", "rcx">>>>, 0, 0)
    BY AbovePieces, PlainInstructions, NoStores, AbovePlain
  <2> HIDE DEF Place, typ, n, new
  <2>5. Aims(E, old \o new, n, 2)
    BY <2>3, Holding
  <2> HIDE DEF old
  <2>6. Aims(E, (old \o new) \o Operands, n, 0)
    BY <2>4, <2>5, Holding
  <2>7. Aims(E, ((old \o new) \o Operands) \o <<<<"imul", "rcx">>>>, n, 0)
    BY <2>4, <2>6, Holding
  <2>8. Aims(E, (((old \o new) \o Operands) \o <<<<"imul", "rcx">>>>) \o emit_push("rax"), n, 1)
    BY <1>p, <2>7, Holding
  <2> QED
    BY <2>2, <2>3, <2>8, Holding
<1>7. CASE ast.kind = "preinc"
  <2>1. ast.value \in parts /\ Scalable(ast.value.typ)
        /\ ast.value \in P /\ StoreSize(ast.value.typ) <= SizeOf(ast.value.typ)
    BY <1>7 DEF WellFormed, StoresIn, Stored, InfixKinds, Summed, Numbered, Assigned, Untyped
  <2> DEFINE typ == ast.value.typ
             n == SizeOf(ast.value.typ)
             old == OldValue(Place(ast.value), typ)
  <2>2. codegen(ast, Code)
        = ((old \o emit_push_int(1)) \o codegen_add(typ, INT)) \o Updated(typ)
    BY <1>7 DEF codegen, InfixKinds, Summed, Numbered, Assigned, Untyped
  <2>3. Points(E, Place(ast.value), n) /\ StoreSize(typ) <= n
    BY <1>w, <2>1
  <2>4. Above(E, codegen_add(typ, INT), 2, 1)
    BY <2>1, AboveAdd DEF typ
  <2>5. Above(E, emit_push_int(1), 1, 2)
    <3>1. Above(E, emit_push_int(1), 1, 1 + 1)
      BY AbovePush
    <3> QED
      BY <3>1
  <2> HIDE DEF Place, typ, n
  <2>6. Aims(E, old \o emit_push_int(1), n, 2)
    BY <2>3, <2>5, Holding
  <2> HIDE DEF old
  <2>7. Aims(E, (old \o emit_push_int(1)) \o codegen_add(typ, INT), n, 1)
    BY <2>4, <2>6, Holding
  <2> QED
    BY <2>2, <2>3, <2>7, Holding
<1>8. CASE ast.kind = "addr"
  <2>1. ast.value \in parts
    BY <1>8 DEF WellFormed, InfixKinds, Summed, Numbered, Assigned, Untyped
  <2>2. codegen(ast, Code) = Place(ast.value)
    BY <1>8 DEF codegen, InfixKinds, Summed, Numbered, Assigned, Untyped
  <2> QED
    BY <1>w, <2>1, <2>2
<1>9. CASE ast.kind = "deref"
  <2>1. ast.value \in parts /\ ast.value.kind \in ValueKinds
    BY <1>9 DEF WellFormed, InfixKinds, Summed, Numbered, Assigned, Untyped
  <2>2. codegen(ast, Code) = Value(ast.value) \o codegen_movevalue(ast.typ)
    BY <1>9 DEF codegen, InfixKinds, Summed, Numbered, Assigned, Untyped
  <2>3. Above(E, Value(ast.value), 0, 1)
    BY <1>v, <2>1
  <2> HIDE DEF Value
  <2> QED
    BY <2>2, <2>3, AboveMoveValue, AboveThen
<1>10. CASE ast.kind = "call"
  <2> DEFINE values == {a \in parts : a.kind \in ValueKinds}
             args == [i \in DOMAIN ast.arguments |-> Value(ast.arguments[i])]
  <2>1. ast.arguments \in Seq(values)
    BY <1>10 DEF WellFormed, InfixKinds, Summed, Numbered, Assigned, Untyped
  <2>2. codegen(ast, Code) = CallCode(ast.call, args)
    BY <1>10 DEF codegen, InfixKinds, Summed, Numbered, Assigned, Untyped
  <2>3. PICK n \in Nat : ast.arguments \in [1 .. n -> values]
    <3> HIDE DEF values
    <3> QED
      BY <2>1
  <2>4. IsSeq(args) /\ Len(args) = n
    BY <2>3, FunctionIsSeq
  <2>5. ASSUME NEW i \in 1 .. n PROVE Above(E, args[i], 0, 1)
    <3>1. ast.arguments[i] \in parts /\ ast.arguments[i].kind \in ValueKinds
      BY <2>3
    <3>2. args[i] = Value(ast.arguments[i])
      BY <2>3
    <3> QED
      BY <1>v, <3>1, <3>2
  <2> HIDE DEF args
  <2>6. Above(E, CallCode(ast.call, args), 0, 1)
    BY <2>4, <2>5, AboveCall
  <2> QED
    BY <2>2, <2>6
<1> QED
  BY <1>1, <1>2, <1>3, <1>4, <1>5, <1>6, <1>7, <1>8, <1>9, <1>10
  DEF ValueKinds, InfixKinds, Summed, Numbered, Assigned, Untyped

\* Nothing is known of instructions whose words do not matter.
LEMMA ClosedOne ==
  ASSUME NEW E, NEW ins, ins[1] # "store", Leaps(ins) \in {{}, {1}}
  PROVE  Closed(E, <<ins>>)
<1>1. Fits(ins, Blank) /\ Blank \in Shape
  BY Shapes DEF Fits
<1>2. Yields(E, ins, Blank, Blank)
  BY <1>1, LeSame, YieldsNothing
<1> QED
  BY <1>1, <1>2, KeepsOne DEF Closed

LEMMA FrameClosed ==
  ASSUME NEW E
  PROVE  /\ Closed(E, emit_epilogue) /\ Closed(E, <<<<"ret">>>>) /\ Closed(E, Stop)
         /\ Closed(E, <<<<"break">>>>) /\ Closed(E, <<<<"continue">>>>) /\ Closed(E, <<>>)
         /\ \A n : Closed(E, emit_prologue(n))
<1>1. ASSUME NEW ins, ins[1] \in {"mov", "pop", "push", "add_int", "ret", "break", "continue", "stop"}
      PROVE  Closed(E, <<ins>>)
  <2>1. ins[1] # "store" /\ Leaps(ins) \in {{}, {1}}
    BY <1>1 DEF Leaps
  <2> QED
    BY <2>1, ClosedOne
<1>2. Closed(E, emit_epilogue)
  <2>1. Closed(E, <<<<"mov", "rbp", "rsp">>>>) /\ Closed(E, <<<<"pop", "rbp">>>>)
    BY <1>1
  <2>2. Closed(E, <<<<"mov", "rbp", "rsp">>>> \o <<<<"pop", "rbp">>>>)
    BY <2>1, ClosedThen
  <2> QED
    BY <2>2, Tuples DEF emit_epilogue
<1>3. ASSUME NEW n PROVE Closed(E, emit_prologue(n))
  <2>1. /\ Closed(E, <<<<"push", "rbp">>>>) /\ Closed(E, <<<<"mov", "rsp", "rbp">>>>)
        /\ Closed(E, <<<<"add_int", -n, "rsp">>>>)
    BY <1>1
  <2>2. Closed(E, (<<<<"push", "rbp">>>> \o <<<<"mov", "rsp", "rbp">>>>) \o <<<<"add_int", -n, "rsp">>>>)
    BY <2>1, ClosedThen
  <2>3. \A x, y, z : (<<x>> \o <<y>>) \o <<z>> = <<x, y, z>>
    <3> TAKE x, y, z
    <3>1. <<x>> \o <<y>> = <<x, y>> /\ <<x, y>> \o <<z>> = <<x, y, z>>
      BY Tuples
    <3> QED
      BY <3>1, Zenon
  <2>4. emit_prologue(n) = (<<<<"push", "rbp">>>> \o <<<<"mov", "rsp", "rbp">>>>)
                           \o <<<<"add_int", -n, "rsp">>>>
    BY <2>3, Zenon DEF emit_prologue
  <2> QED
    BY <2>2, <2>4
<1>4. Closed(E, <<>>)
  BY KeepsNothing, LeSame, Shapes DEF Closed
<1> QED
  BY <1>1, <1>2, <1>3, <1>4 DEF Stop

\* A statement keeps nothing.
LEMMA StatementShape ==
  ASSUME NEW E, NEW P, NEW ast \in AllTrees, NEW parts, WellFormed(ast, parts),
         \A p \in parts : KeepsShape(E, P, p), StoresIn(P, ast), ast.kind \notin ValueKinds
  PROVE  Closed(E, codegen(ast, Code))
<1> DEFINE Value(a) == Code[<<"value", a>>]
           Place(a) == Code[<<"place", a>>]
<1>v. \A a : a \in parts /\ a.kind \in ValueKinds => Above(E, Value(a), 0, 1)
  BY DEF KeepsShape
<1>w. \A a \in parts : /\ a \in P => Points(E, Place(a), SizeOf(a.typ))
                       /\ Closed(E, Value(a))
  BY DEF KeepsShape
<1> HIDE DEF Value, Place
<1>1. CASE ast.kind \in {"break", "continue", "null"}
  <2>1. codegen(ast, Code) = IF ast.kind = "null" THEN <<>> ELSE <<<<ast.kind>>>>
    BY <1>1 DEF codegen, InfixKinds, Summed, Numbered, Assigned, Untyped
  <2> QED
    BY <1>1, <2>1, FrameClosed
<1>2. CASE ast.kind = "assign"
  <2>1. ast.left \in parts /\ ast.right \in parts /\ ast.right.kind \in ValueKinds
        /\ ast.left \in P /\ StoreSize(ast.left.typ) <= SizeOf(ast.left.typ)
    BY <1>2 DEF WellFormed, StoresIn, Stored, InfixKinds, Summed, Numbered, Assigned, Untyped
  <2>2. codegen(ast, Code)
        = (Place(ast.left) \o Value(ast.right)) \o StoreTop(ast.left.typ)
    BY <1>2 DEF codegen, AssignCode, Value, Place, InfixKinds, Summed, Numbered, Assigned, Untyped
  <2>3. Points(E, Place(ast.left), SizeOf(ast.left.typ)) /\ Above(E, Value(ast.right), 0, 1)
    BY <1>v, <1>w, <2>1
  <2>4. Aims(E, Place(ast.left) \o Value(ast.right), SizeOf(ast.left.typ), 1)
    BY <2>3, Holding
  <2>5. Above(E, (Place(ast.left) \o Value(ast.right)) \o StoreTop(ast.left.typ), 0, 0)
    BY <2>1, <2>3, <2>4, Holding
  <2> QED
    BY <2>2, <2>5, AboveClosed
<1>3. CASE ast.kind = "return"
  <2> DEFINE drop == IF ast.value.kind = "null" THEN <<>> ELSE emit_pop("rax")
  <2>1. ast.value \in parts /\ ast.value.kind \in ValueKinds \cup {"null"}
    BY <1>3 DEF WellFormed, InfixKinds, Summed, Numbered, Assigned, Untyped
  <2>2. codegen(ast, Code) = ((Value(ast.value) \o drop) \o emit_epilogue) \o <<<<"ret">>>>
    BY <1>3 DEF codegen, Value, Place, InfixKinds, Summed, Numbered, Assigned, Untyped
  <2>3. Closed(E, drop)
    BY AboveAddress, AboveClosed, FrameClosed
  <2> HIDE DEF drop
  <2> QED
    BY <1>w, <2>1, <2>2, <2>3, FrameClosed, ClosedThen
<1>4. CASE ast.kind = "statements"
  <2> DEFINE s == [i \in DOMAIN ast.stmts |-> Value(ast.stmts[i])]
  <2>1. ast.stmts \in Seq(parts)
    BY <1>4 DEF WellFormed, InfixKinds, Summed, Numbered, Assigned, Untyped
  <2>2. codegen(ast, Code) = FlattenSeq(s)
    BY <1>4 DEF codegen, Value, Place, InfixKinds, Summed, Numbered, Assigned, Untyped
  <2>3. PICK n \in Nat : ast.stmts \in [1 .. n -> parts]
    BY <2>1
  <2>4. IsSeq(s) /\ Len(s) = n
    BY <2>3, FunctionIsSeq
  <2>5. \A i \in 1 .. n : Keeps(E, s[i], Blank, Blank)
    BY <1>w, <2>3 DEF Closed
  <2> HIDE DEF s
  <2> QED
    BY <2>2, <2>4, <2>5, KeepsEach, Shapes DEF Closed
<1>5. CASE ast.kind = "if"
  <2> DEFINE conds == [i \in DOMAIN ast.elifconds |-> Value(ast.elifconds[i])]
             bodies == [i \in DOMAIN ast.elifbodies |-> Value(ast.elifbodies[i])]
             values == {a \in parts : a.kind \in ValueKinds}
  <2>1. /\ ast.ifcond \in parts /\ ast.ifcond.kind \in ValueKinds
        /\ ast.ifbody \in parts /\ ast.elsebody \in parts
        /\ ast.elifconds \in Seq(values) /\ ast.elifbodies \in Seq(parts)
        /\ Len(ast.elifconds) = Len(ast.elifbodies)
    BY <1>5 DEF WellFormed, InfixKinds, Summed, Numbered, Assigned, Untyped
  <2>2. codegen(ast, Code)
        = IfCode(Value(ast.ifcond), Value(ast.ifbody),
                 ElifCode(conds, bodies, Value(ast.elsebody)))
    BY <1>5 DEF codegen, Value, Place, InfixKinds, Summed, Numbered, Assigned, Untyped
  <2>3. PICK n \in Nat : ast.elifconds \in [1 .. n -> values]
    <3> HIDE DEF values
    <3> QED
      BY <2>1
  <2>4. PICK m \in Nat : ast.elifbodies \in [1 .. m -> parts]
    BY <2>1
  <2>5. n = m
    <3>1. Len(ast.elifconds) = n /\ Len(ast.elifbodies) = m
      <4> HIDE DEF values
      <4> QED
        BY <2>3, <2>4
    <3> QED
      BY <2>1, <3>1
  <2>6. Len(conds) = n
    BY <2>3, FunctionIsSeq
  <2>7. ASSUME NEW i \in 1 .. n PROVE Above(E, conds[i], 0, 1) /\ Closed(E, bodies[i])
    <3>1. /\ ast.elifconds[i] \in parts /\ ast.elifconds[i].kind \in ValueKinds
          /\ ast.elifbodies[i] \in parts
      BY <2>3, <2>4, <2>5
    <3>2. conds[i] = Value(ast.elifconds[i]) /\ bodies[i] = Value(ast.elifbodies[i])
      BY <2>3, <2>4, <2>5
    <3> HIDE DEF conds, bodies
    <3> QED
      BY <1>v, <1>w, <3>1, <3>2
  <2> HIDE DEF conds, bodies
  <2>8. Closed(E, ElifCode(conds, bodies, Value(ast.elsebody)))
    BY <1>w, <2>1, <2>6, <2>7, ElifCodeClosed
  <2> QED
    BY <1>v, <1>w, <2>1, <2>2, <2>8, IfCodeClosed
<1>6. CASE ast.kind = "while"
  <2>1. /\ ast.whilecond \in parts /\ ast.whilecond.kind \in ValueKinds
        /\ ast.whilebody \in parts
    BY <1>6 DEF WellFormed, InfixKinds, Summed, Numbered, Assigned, Untyped
  <2>2. codegen(ast, Code) = WhileCode(Value(ast.whilecond), Value(ast.whilebody))
    BY <1>6 DEF codegen, Value, Place, InfixKinds, Summed, Numbered, Assigned, Untyped
  <2> QED
    BY <1>v, <1>w, <2>1, <2>2, WhileCodeClosed
<1>7. CASE ast.kind = "for"
  <2>1. /\ ast.forcond \in parts /\ ast.forcond.kind \in ValueKinds
        /\ ast.forinit \in parts /\ ast.fornext \in parts /\ ast.forbody \in parts
    BY <1>7 DEF WellFormed, InfixKinds, Summed, Numbered, Assigned, Untyped
  <2>2. codegen(ast, Code)
        = ForCode(Value(ast.forinit), Value(ast.forcond), Value(ast.fornext), Value(ast.forbody))
    BY <1>7 DEF codegen, Value, Place, InfixKinds, Summed, Numbered, Assigned, Untyped
  <2> QED
    BY <1>v, <1>w, <2>1, <2>2, ForCodeClosed
<1>8. ast.kind \in {"break", "continue", "null", "assign", "return", "statements", "if",
                    "while", "for"}
  BY DEF WellFormed, ValueKinds, InfixKinds, Summed, Numbered, Assigned, Untyped
<1> QED
  BY <1>1, <1>2, <1>3, <1>4, <1>5, <1>6, <1>7, <1>8

\* The parts that codegen() goes on to are those that WellFormed is about.
LEMMA WellFormedWithin ==
  ASSUME NEW ast, NEW parts, WellFormed(ast, parts), NEW N, Parts(ast) \subseteq N
  PROVE  WellFormed(ast, parts \cap N)
<1> DEFINE values == {a \in parts : a.kind \in ValueKinds}
           within == {a \in parts \cap N : a.kind \in ValueKinds}
<1>s. \A U, s : s \in Seq(U) /\ ToSet(s) \subseteq N => s \in Seq(U \cap N)
  <2> SUFFICES ASSUME NEW U, NEW s \in Seq(U), ToSet(s) \subseteq N PROVE s \in Seq(U \cap N)
    OBVIOUS
  <2>1. PICK n \in Nat : s \in [1 .. n -> U]
    OBVIOUS
  <2>2. \A i \in 1 .. n : s[i] \in U \cap N
    BY <2>1 DEF ToSet
  <2>3. s \in [1 .. n -> U \cap N]
    BY <2>1, <2>2
  <2> QED
    BY <2>3
<1>v. values \cap N = within
  OBVIOUS
<1>1. CASE ast.kind \in {"null", "globalref", "break", "continue", "ident", "intlit"}
  BY <1>1 DEF WellFormed, InfixKinds, Summed, Numbered, Assigned, Untyped
<1>2. CASE ast.kind \in InfixKinds
  <2>1. ast.left \in N /\ ast.right \in N
    <3>1. Parts(ast) = {ast.left, ast.right}
      BY <1>2 DEF Parts, InfixKinds, Summed, Numbered, Assigned, Untyped
    <3> QED
      BY <3>1
  <2>2. /\ ast.right \in values /\ Scalable(ast.left.typ)
        /\ ast.left \in IF ast.kind \in Assigned THEN parts ELSE values
    BY <1>2 DEF WellFormed, InfixKinds, Summed, Numbered, Assigned, Untyped
  <2>3. /\ ast.right \in within
        /\ ast.left \in IF ast.kind \in Assigned THEN parts \cap N ELSE within
    BY <2>1, <2>2
  <2> QED
    BY <1>2, <2>2, <2>3 DEF WellFormed
<1>3. CASE ast.kind \in {"minus", "deref", "addr", "preinc", "return"}
  <2>1. ast.value \in N
    BY <1>3 DEF Parts, InfixKinds, Summed, Numbered, Assigned, Untyped
  <2> QED
    BY <1>3, <2>1 DEF WellFormed, InfixKinds, Summed, Numbered, Assigned, Untyped
<1>4. CASE ast.kind = "dot"
  <2>1. ast.structvalue \in N
    BY <1>4 DEF Parts, InfixKinds, Summed, Numbered, Assigned, Untyped
  <2> QED
    BY <1>4, <2>1 DEF WellFormed, InfixKinds, Summed, Numbered, Assigned, Untyped
<1>5. CASE ast.kind = "call"
  <2>1. ToSet(ast.arguments) \subseteq N
    BY <1>5 DEF Parts, InfixKinds, Summed, Numbered, Assigned, Untyped
  <2>2. ast.arguments \in Seq(values)
    BY <1>5 DEF WellFormed, InfixKinds, Summed, Numbered, Assigned, Untyped
  <2>3. ast.arguments \in Seq(within)
    <3> HIDE DEF values, within
    <3> QED
      BY <1>s, <1>v, <2>1, <2>2
  <2> QED
    BY <1>5, <2>3 DEF WellFormed
<1>6. CASE ast.kind = "statements"
  <2>1. ToSet(ast.stmts) \subseteq N
    BY <1>6 DEF Parts, InfixKinds, Summed, Numbered, Assigned, Untyped
  <2>2. ast.stmts \in Seq(parts)
    BY <1>6 DEF WellFormed, InfixKinds, Summed, Numbered, Assigned, Untyped
  <2>3. ast.stmts \in Seq(parts \cap N)
    BY <1>s, <2>1, <2>2
  <2> QED
    BY <1>6, <2>3 DEF WellFormed
<1>7. CASE ast.kind = "if"
  <2>1. /\ {ast.ifcond, ast.ifbody, ast.elsebody} \subseteq N
        /\ ToSet(ast.elifconds) \subseteq N /\ ToSet(ast.elifbodies) \subseteq N
    BY <1>7 DEF Parts, InfixKinds, Summed, Numbered, Assigned, Untyped
  <2>2. /\ ast.ifcond \in values /\ {ast.ifbody, ast.elsebody} \subseteq parts
        /\ ast.elifconds \in Seq(values) /\ ast.elifbodies \in Seq(parts)
        /\ Len(ast.elifconds) = Len(ast.elifbodies)
    BY <1>7 DEF WellFormed, InfixKinds, Summed, Numbered, Assigned, Untyped
  <2>3. ast.elifconds \in Seq(within) /\ ast.elifbodies \in Seq(parts \cap N)
    <3> HIDE DEF values, within
    <3> QED
      BY <1>s, <1>v, <2>1, <2>2
  <2>4. ast.ifcond \in within /\ {ast.ifbody, ast.elsebody} \subseteq parts \cap N
    BY <2>1, <2>2
  <2> QED
    BY <1>7, <2>2, <2>3, <2>4 DEF WellFormed
<1>8. CASE ast.kind = "while"
  <2>1. {ast.whilecond, ast.whilebody} \subseteq N
    BY <1>8 DEF Parts, InfixKinds, Summed, Numbered, Assigned, Untyped
  <2> QED
    BY <1>8, <2>1 DEF WellFormed, InfixKinds, Summed, Numbered, Assigned, Untyped
<1>9. CASE ast.kind = "for"
  <2>1. {ast.forinit, ast.forcond, ast.fornext, ast.forbody} \subseteq N
    BY <1>9 DEF Parts, InfixKinds, Summed, Numbered, Assigned, Untyped
  <2> QED
    BY <1>9, <2>1 DEF WellFormed, InfixKinds, Summed, Numbered, Assigned, Untyped
<1> QED
  BY <1>1, <1>2, <1>3, <1>4, <1>5, <1>6, <1>7, <1>8, <1>9 DEF WellFormed

\* The code of every tree that stores through names.
LEMMA TreeShape ==
  ASSUME NEW E, NEW P, NEW ast \in AllTrees, NEW parts, WellFormed(ast, parts),
         \A p \in parts : KeepsShape(E, P, p), InNames(E, P, ast), StoresIn(P, ast)
  PROVE  KeepsShape(E, P, ast)
<1>1. Code[<<"value", ast>>] = codegen(ast, Code) /\ Code[<<"place", ast>>] = codegen_lvalue(ast, Code)
  BY CodeOfTree
<1>2. /\ Above(E, Code[<<"place", ast>>], 0, 1)
      /\ ast \in P => Points(E, Code[<<"place", ast>>], SizeOf(ast.typ))
  BY <1>1, PlaceShape
<1>3. CASE ast.kind \in ValueKinds
  <2>1. Above(E, Code[<<"value", ast>>], 0, 1)
    BY <1>1, <1>3, ValueShape
  <2> QED
    BY <1>2, <2>1, AboveClosed DEF KeepsShape
<1>4. CASE ast.kind \notin ValueKinds
  BY <1>1, <1>2, <1>4, StatementShape DEF KeepsShape
<1> QED
  BY <1>3, <1>4

LEMMA CodeShape ==
  ASSUME NEW E, NEW N, NEW P, ByName(E, N, P)
  PROVE  \A ast \in AllTrees \cap N : KeepsShape(E, P, ast)
<1> DEFINE S == {n \in Nat : n + 1 \in 1 .. Len(Trees) =>
                               \A ast \in Trees[n + 1] \cap N : KeepsShape(E, P, ast)}
<1>0. \A n \in 1 .. Len(Trees) : Trees[n] \subseteq AllTrees
  <2>1. Trees \in Seq(SUBSET AllTrees)
    BY TreesAssumption DEF TreesAssumption
  <2> HIDE DEF AllTrees
  <2>2. PICK U : U = SUBSET AllTrees
    OBVIOUS
  <2>3. PICK n \in Nat : Trees \in [1 .. n -> U]
    BY <2>1, <2>2
  <2>4. Len(Trees) = n
    BY <2>3
  <2> QED
    BY <2>2, <2>3, <2>4
<1>a. ASSUME NEW ast \in AllTrees \cap N, NEW parts, WellFormed(ast, parts),
             \A p \in parts \cap N : KeepsShape(E, P, p)
      PROVE  KeepsShape(E, P, ast)
  <2>1. WellFormed(ast, parts \cap N)
    BY <1>a, WellFormedWithin DEF ByName
  <2>2. InNames(E, P, ast) /\ StoresIn(P, ast) /\ ast \in AllTrees
    BY DEF ByName
  <2> QED
    BY <1>a, <2>1, <2>2, TreeShape
<1>1. 0 \in S
  <2> SUFFICES ASSUME 1 \in 1 .. Len(Trees), NEW ast \in Trees[1] \cap N
               PROVE  KeepsShape(E, P, ast)
    OBVIOUS
  <2>1. ast \in AllTrees \cap N /\ WellFormed(ast, {})
    BY <1>0, Heights
  <2> QED
    BY <1>a, <2>1
<1>2. ASSUME NEW n \in S PROVE n + 1 \in S
  <2> SUFFICES ASSUME (n + 1) + 1 \in 1 .. Len(Trees), NEW ast \in Trees[(n + 1) + 1] \cap N
               PROVE  KeepsShape(E, P, ast)
    OBVIOUS
  <2>1. (n + 1) + 1 \in 2 .. Len(Trees) /\ ((n + 1) + 1) - 1 = n + 1 /\ n + 1 \in 1 .. Len(Trees)
    BY Heights
  <2>2. ast \in AllTrees \cap N /\ WellFormed(ast, Trees[n + 1])
    BY <1>0, <2>1, Heights
  <2>3. \A p \in Trees[n + 1] \cap N : KeepsShape(E, P, p)
    BY <2>1
  <2> QED
    BY <1>a, <2>2, <2>3
<1>3. S = Nat
  BY <1>1, <1>2, SetInduction
<1>4. Len(Trees) - 1 \in Nat /\ (Len(Trees) - 1) + 1 = Len(Trees) /\ Len(Trees) \in 1 .. Len(Trees)
  BY Heights
<1>5. Len(Trees) - 1 \in S
  BY <1>3, <1>4
<1> QED
  BY <1>4, <1>5 DEF AllTrees

-----------------------------------------------------------------------------
\* Functions that store through names.

\* The variables a function can name.
Env(p, fn) == [slots |-> Slots(fn.params \o fn.vars), globals |-> ToSet(p.globals)]

\* The parameters are stored, too (codegen.c:485); that of an array may be larger
\* than its slot.
FunctionByName(p, fn) ==
  \/ fn.tree.typ = Stopped
  \/ /\ HasOneName(fn.params \o fn.vars)
     /\ \A v \in ToSet(fn.params) : StoreSize(v.typ) <= SizeOf(v.typ)
     /\ \E N, P : fn.tree \in N /\ ByName(Env(p, fn), N, P)
StoresByName(p) == \A fn \in ToSet(p.fns) : FunctionByName(p, fn)

\* The first variables have the offsets they have without the others.
LEMMA OffsetOfFirst ==
  ASSUME NEW s, Sized(s), NEW t, Sized(t), NEW i \in 0 .. Len(s)
  PROVE  Offset(s \o t, i) = Offset(s, i)
<1> DEFINE u == [j \in DOMAIN s |-> SizeOf(s[j].typ)]
           v == [j \in DOMAIN (s \o t) |-> SizeOf((s \o t)[j].typ)]
           n == Len(s)
           S == {k \in Nat : k <= n => PartialSum(v, k) = PartialSum(u, k)}
<1>1. /\ IsSeq(s) /\ IsSeq(t) /\ n \in Nat /\ DOMAIN s = 1 .. n /\ Len(t) \in Nat
      /\ IsSeq(s \o t) /\ Len(s \o t) = n + Len(t) /\ \A j \in 1 .. n : (s \o t)[j] = s[j]
  BY SeqFacts, Concat DEF Sized
<1>2. DOMAIN (s \o t) = 1 .. n + Len(t)
  BY <1>1, SeqFacts
<1>3. \A j \in 1 .. n : u[j] = v[j]
  <2> SUFFICES ASSUME NEW j \in 1 .. n PROVE u[j] = v[j]
    OBVIOUS
  <2>1. j \in DOMAIN s /\ j \in DOMAIN (s \o t) /\ (s \o t)[j] = s[j]
    BY <1>1, <1>2
  <2> QED
    BY <2>1
<1>4. Offset(s, i) = PartialSum(u, i) /\ Offset(s \o t, i) = PartialSum(v, i)
  BY DEF Offset
<1> HIDE DEF u, v, n
<1>5. 0 \in S
  BY PartialSumStep
<1>6. ASSUME NEW k \in S PROVE k + 1 \in S
  <2> SUFFICES ASSUME k + 1 <= n PROVE PartialSum(v, k + 1) = PartialSum(u, k + 1)
    OBVIOUS
  <2>1. k \in Nat /\ PartialSum(v, k) = PartialSum(u, k) /\ k + 1 \in 1 .. n
    BY <1>1
  <2>2. PartialSum(v, k + 1) = PartialSum(v, k) + v[k + 1]
        /\ PartialSum(u, k + 1) = PartialSum(u, k) + u[k + 1]
    BY <2>1, PartialSumStep
  <2> QED
    BY <1>3, <2>1, <2>2
<1>7. S = Nat
  BY <1>5, <1>6, SetInduction
<1>8. i \in Nat /\ i <= n
  BY <1>1 DEF n
<1> QED
  BY <1>4, <1>7, <1>8

\* The slot a parameter is stored in is the one its name stands for.
LEMMA ParamSlot ==
  ASSUME NEW p, NEW fn, IsFunction(fn), HasOneName(fn.params \o fn.vars),
         NEW i \in 1 .. Len(fn.params)
  PROVE  /\ SizeOf(fn.params[i].typ) \in Nat
         /\ SlotOf(Env(p, fn), SizeOf(fn.params[i].typ), -Offset(fn.params, i))
<1> DEFINE vs == fn.params \o fn.vars
           x == fn.params[i].name
           j == CHOOSE k \in DOMAIN vs : vs[k].name = x
<1>1. Sized(fn.params) /\ Sized(fn.vars) /\ Sized(vs)
  BY LocalsSized, SizedSeq DEF IsFunction
<1>2. /\ IsSeq(fn.params) /\ IsSeq(fn.vars) /\ Len(fn.params) \in Nat /\ Len(fn.vars) \in Nat
      /\ IsSeq(vs) /\ Len(vs) = Len(fn.params) + Len(fn.vars) /\ vs[i] = fn.params[i]
  BY <1>1, SeqFacts, Concat DEF Sized
<1>3. DOMAIN vs = 1 .. Len(fn.params) + Len(fn.vars) /\ i \in DOMAIN vs
  <2>1. DOMAIN vs = 1 .. Len(vs)
    BY <1>2, SeqFacts
  <2> HIDE DEF vs
  <2>2. \A a, b \in Nat : \A c \in 1 .. a : c \in 1 .. a + b
    OBVIOUS
  <2>3. i \in 1 .. Len(fn.params) + Len(fn.vars)
    BY <1>2, <2>2
  <2> QED
    BY <1>2, <2>1, <2>3
<1>4. \A k \in DOMAIN vs : vs[k].name = x => k = i
  BY <1>2, <1>3 DEF HasOneName
<1>5. j = i
  BY <1>2, <1>3, <1>4
<1>6. x \in {v.name : v \in ToSet(vs)}
  BY <1>2, <1>3 DEF ToSet
<1>7. DOMAIN Slots(vs) = {v.name : v \in ToSet(vs)}
      /\ Slots(vs)[x] = [typ |-> vs[i].typ, offset |-> Offset(vs, i)]
  BY <1>5, <1>6 DEF Slots
<1>8. Offset(vs, i) = Offset(fn.params, i)
  <2>1. i \in 0 .. Len(fn.params)
    BY <1>2
  <2> QED
    BY <1>1, <2>1, OffsetOfFirst
<1>9. SizeOf(fn.params[i].typ) \in Nat
  BY <1>1 DEF Sized
<1>10. Env(p, fn).slots = Slots(vs)
  BY DEF Env
<1>11. /\ x \in DOMAIN Env(p, fn).slots
       /\ Env(p, fn).slots[x].offset = Offset(fn.params, i)
       /\ Env(p, fn).slots[x].typ = fn.params[i].typ
  BY <1>2, <1>6, <1>7, <1>8, <1>10
<1> HIDE DEF vs, x, j
<1>12. SizeOf(fn.params[i].typ) <= SizeOf(fn.params[i].typ)
  BY <1>9
<1> QED
  BY <1>9, <1>11, <1>12 DEF SlotOf

\* A parameter is stored in its slot.
LEMMA ParamShape ==
  ASSUME NEW p, NEW fn, IsFunction(fn), HasOneName(fn.params \o fn.vars),
         NEW i \in 1 .. Len(fn.params),
         StoreSize(fn.params[i].typ) <= SizeOf(fn.params[i].typ)
  PROVE  Closed(Env(p, fn), StoreParam(fn, i))
<1> DEFINE E == Env(p, fn)
           o == -Offset(fn.params, i)
           k == -(i - 6) * 8
           typ == fn.params[i].typ
           n == SizeOf(typ)
<1>1. n \in Nat /\ SlotOf(E, n, o) /\ StoreSize(typ) <= n
  BY ParamSlot
<1>2. /\ i <= 6 => StoreParam(fn, i) = <<<<"lea", o>>>> \o codegen_movereg(typ, ArgRegs[i])
      /\ ~ (i <= 6) => StoreParam(fn, i)
                       = <<<<"lea", o>>>> \o (<<<<"reload", k>>>> \o codegen_movereg(typ, "rcx"))
  BY DEF StoreParam
<1> HIDE DEF E, o, k, typ, n
<1>3. Blank \in Shape /\ At(n, Blank) \in Shape /\ Lift(0, Blank) = Blank
  BY <1>1, Shapes, Lifts
<1>4. Keeps(E, <<<<"lea", o>>>>, Blank, At(n, Blank))
  <2>1. Keeps(E, <<<<"lea", o>>>>, Lift(0, Blank), At(n, Blank))
    BY <1>1, <1>3, Addressed
  <2> QED
    BY <1>3, <2>1
<1>5. \A r : Keeps(E, codegen_movereg(typ, r), At(n, Blank), Blank)
  <2>1. \A r : Keeps(E, codegen_movereg(typ, r), At(n, Blank), Lift(0, Blank))
    BY <1>1, <1>3, KeepsStore
  <2> QED
    BY <1>3, <2>1
<1>6. Keeps(E, <<<<"reload", k>>>>, At(n, Blank), At(n, Blank))
  <2> DEFINE ins == <<"reload", k>>
             S == At(n, Blank)
  <2>1. ins[1] = "reload"
    OBVIOUS
  <2>2. S \in Shape /\ \A m \in Nat : S[m] \in Nat
    BY <1>3 DEF Shape
  <2> HIDE DEF ins, S
  <2>3. Leaps(ins) = {1} /\ Fits(ins, S)
    BY <2>1 DEF Leaps, Fits
  <2>4. Rax(E, ins, S, S[0])
    BY <2>1, <2>2 DEF Rax
  <2>5. \A m \in Nat \ {0} : S[m] <= WordAfter(ins, S, m)
    BY <2>1, <2>2 DEF WordAfter
  <2>6. Keeps(E, <<ins>>, S, S)
    BY <2>2, <2>3, <2>4, <2>5, KeepsOne DEF Yields
  <2> QED
    BY <2>6 DEF ins, S
<1>7. CASE i <= 6
  BY <1>2, <1>4, <1>5, <1>7, KeepsSequence DEF Closed, E
<1>8. CASE ~ (i <= 6)
  <2>1. Keeps(E, <<<<"reload", k>>>> \o codegen_movereg(typ, "rcx"), At(n, Blank), Blank)
    BY <1>5, <1>6, KeepsSequence
  <2>2. Keeps(E, <<<<"lea", o>>>> \o (<<<<"reload", k>>>> \o codegen_movereg(typ, "rcx")), Blank, Blank)
    BY <1>4, <2>1, KeepsSequence
  <2> QED
    BY <1>2, <1>8, <2>2 DEF Closed, E
<1> QED
  BY <1>7, <1>8

\* What a function that stores through names stores, it stores in variables.
LEMMA FunctionShape ==
  ASSUME NEW p, NEW fn, IsFunction(fn), FunctionByName(p, fn)
  PROVE  Closed(Env(p, fn), codegen_funcdecl(fn))
<1> DEFINE E == Env(p, fn)
<1>1. CASE fn.tree.typ = Stopped
  BY <1>1, FrameClosed DEF codegen_funcdecl
<1>2. CASE fn.tree.typ # Stopped
  <2> DEFINE start == emit_prologue(StackSize(fn))
             params == [i \in DOMAIN fn.params |-> StoreParam(fn, i)]
             store == FlattenSeq(params)
             body == Code[<<"value", fn.tree>>]
  <2>1. /\ HasOneName(fn.params \o fn.vars)
        /\ \A v \in ToSet(fn.params) : StoreSize(v.typ) <= SizeOf(v.typ)
        /\ \E N, P : fn.tree \in N /\ ByName(E, N, P)
    BY <1>2 DEF FunctionByName
  <2>2. DOMAIN fn.params = 1 .. Len(fn.params) /\ Len(fn.params) \in Nat
    BY LocalsSized, SeqFacts DEF Sized
  <2>3. Closed(E, store)
    <3>1. params = [i \in 1 .. Len(fn.params) |-> params[i]]
      BY <2>2
    <3>2. \A i \in 1 .. Len(fn.params) : params[i] = StoreParam(fn, i)
      BY <2>2
    <3> HIDE DEF params, E
    <3>3. IsSeq(params) /\ Len(params) = Len(fn.params)
      BY <2>2, <3>1, FunctionIsSeq
    <3>4. \A i \in 1 .. Len(fn.params) : StoreSize(fn.params[i].typ) <= SizeOf(fn.params[i].typ)
      BY <2>1, <2>2 DEF ToSet
    <3>5. \A i \in 1 .. Len(fn.params) : Closed(E, StoreParam(fn, i))
      BY <2>1, <3>4, ParamShape DEF E
    <3>6. \A i \in 1 .. Len(params) : Keeps(E, params[i], Blank, Blank)
      BY <3>2, <3>3, <3>5 DEF Closed
    <3> QED
      BY <3>3, <3>6, KeepsEach, Shapes DEF Closed
  <2>4. Closed(E, body)
    <3>1. PICK N, P : fn.tree \in N /\ ByName(E, N, P)
      BY <2>1
    <3>2. fn.tree \in AllTrees \cap N
      BY <1>2, <3>1 DEF IsFunction
    <3> HIDE DEF E
    <3> QED
      BY <3>1, <3>2, CodeShape DEF KeepsShape
  <2>5. Closed(E, start) /\ Closed(E, emit_epilogue) /\ Closed(E, <<<<"ret">>>>)
    BY FrameClosed
  <2>6. codegen_funcdecl(fn) = (((start \o store) \o body) \o emit_epilogue) \o <<<<"ret">>>>
    BY <1>2 DEF codegen_funcdecl, Prologue
  <2> HIDE DEF start, store, body, params, E
  <2>7. Closed(E, (start \o store) \o body)
    BY <2>3, <2>4, <2>5, ClosedThen
  <2> QED
    BY <2>5, <2>6, <2>7, ClosedThen DEF E
<1> QED
  BY <1>1, <1>2

-----------------------------------------------------------------------------
\* Programs that store through names.

\* Every position of joined code belongs to one of the pieces, and to one only.
LEMMA Pieces ==
  ASSUME NEW s, IsSeq(s), \A i \in 1 .. Len(s) : IsSeq(s[i])
  PROVE  /\ \A q \in 1 .. Len(FlattenSeq(s)) : \E i \in 1 .. Len(s) : \E k \in 1 .. Len(s[i]) :
              q = End(s, i - 1) + k
         /\ \A i, j \in 1 .. Len(s) : \A k \in 1 .. Len(s[i]) : \A l \in 1 .. Len(s[j]) :
              End(s, i - 1) + k = End(s, j - 1) + l => i = j /\ k = l
<1> DEFINE n == Len(s)
           Ends(i) == End(s, i)
           Has(q, m) == \E i \in 1 .. m : \E k \in 1 .. Len(s[i]) : q = Ends(i - 1) + k
           S == {m \in Nat : m <= n => \A q \in 1 .. Ends(m) : Has(q, m)}
<1>1. /\ n \in Nat /\ Ends(0) = 0
      /\ \A i \in 0 .. n : Ends(i) \in Nat
      /\ \A i \in 1 .. n : Ends(i) = Ends(i - 1) + Len(s[i])
      /\ \A i \in 0 .. n : \A j \in 0 .. i : Ends(j) <= Ends(i)
      /\ Len(FlattenSeq(s)) = Ends(n)
  BY FlattenAt, SeqFacts
<1>2. \A i \in 1 .. n : Len(s[i]) \in Nat
  BY SeqFacts
<1> HIDE DEF n, Ends
<1>3. 0 \in S
  BY <1>1
<1>4. ASSUME NEW m \in S PROVE m + 1 \in S
  <2> SUFFICES ASSUME m + 1 <= n, NEW q \in 1 .. Ends(m + 1) PROVE Has(q, m + 1)
    OBVIOUS
  <2>1. m \in Nat /\ m + 1 \in 1 .. n /\ m \in 0 .. n /\ m + 1 \in 0 .. n /\ (m + 1) - 1 = m /\ m <= n
    BY <1>1
  <2>2. Ends(m + 1) = Ends(m) + Len(s[m + 1]) /\ Ends(m) \in Nat /\ Ends(m + 1) \in Nat
        /\ Len(s[m + 1]) \in Nat
    BY <1>1, <1>2, <2>1
  <2>3. CASE q <= Ends(m)
    <3>1. q \in 1 .. Ends(m)
      BY <2>2, <2>3
    <3>2. Has(q, m)
      BY <2>1, <3>1
    <3>3. \A i \in 1 .. m : i \in 1 .. m + 1
      BY <2>1
    <3> QED
      BY <3>2, <3>3
  <2>4. CASE ~ (q <= Ends(m))
    <3>1. q - Ends(m) \in 1 .. Len(s[m + 1]) /\ q = Ends(m) + (q - Ends(m))
      BY <2>2, <2>4
    <3>2. m + 1 \in 1 .. m + 1
      BY <2>1
    <3> QED
      BY <2>1, <3>1, <3>2
  <2> QED
    BY <2>3, <2>4
<1>5. S = Nat
  <2> HIDE DEF Has
  <2> QED
    BY <1>3, <1>4, SetInduction
<1>6. \A q \in 1 .. Len(FlattenSeq(s)) : Has(q, n)
  <2> HIDE DEF Has
  <2> DEFINE All(m) == \A q \in 1 .. Ends(m) : Has(q, m)
  <2>0. S = {m \in Nat : m <= n => All(m)}
    OBVIOUS
  <2> HIDE DEF All, S
  <2>1. n <= n => All(n)
    BY <1>1, <1>5, <2>0
  <2>2. \A q \in 1 .. Ends(n) : Has(q, n)
    BY <1>1, <2>1 DEF All
  <2> QED
    BY <1>1, <2>2
<1>7. ASSUME NEW i \in 1 .. n, NEW j \in 1 .. n, NEW k \in 1 .. Len(s[i]), NEW l \in 1 .. Len(s[j]),
             Ends(i - 1) + k = Ends(j - 1) + l
      PROVE  i <= j
  <2> SUFFICES ASSUME j < i PROVE FALSE
    BY <1>1
  <2>1. j \in 0 .. i - 1 /\ i - 1 \in 0 .. n /\ j - 1 \in 0 .. n /\ j \in 0 .. n
    BY <1>1
  <2>2. Ends(j) <= Ends(i - 1) /\ Ends(j) = Ends(j - 1) + Len(s[j]) /\ Ends(j) \in Nat
        /\ Ends(i - 1) \in Nat /\ Ends(j - 1) \in Nat /\ Len(s[j]) \in Nat /\ Len(s[i]) \in Nat
    BY <1>1, <1>2, <2>1
  <2> QED
    BY <1>7, <2>2
<1>8. ASSUME NEW i \in 1 .. n, NEW j \in 1 .. n, NEW k \in 1 .. Len(s[i]), NEW l \in 1 .. Len(s[j]),
             Ends(i - 1) + k = Ends(j - 1) + l
      PROVE  i = j /\ k = l
  <2>1. i <= j /\ j <= i
    BY <1>7, <1>8
  <2>2. i = j
    BY <1>1, <2>1
  <2>3. Ends(i - 1) \in Nat /\ Len(s[i]) \in Nat /\ Ends(i - 1) + k = Ends(i - 1) + l
    <3>1. i - 1 \in 0 .. n
      BY <1>1
    <3> QED
      BY <1>1, <1>2, <1>8, <2>2, <3>1
  <2>4. k \in Nat /\ l \in Nat
    BY <1>2
  <2>5. k = l
    BY <2>3, <2>4
  <2> QED
    BY <2>2, <2>5
<1> QED
  BY <1>6, <1>8 DEF n, Ends

\* own has the function an instruction belongs to, s what is known where it is
\* executed.  No jump leads to where another function starts.
Names(A, f) == [slots |-> A.slots[f], globals |-> ToSet(A.source.globals)]
TextShapes(A, d, s, own) ==
  /\ \A q \in 1 .. Len(A.text) :
       /\ own[q] \in DOMAIN A.entry /\ s[q] \in Shape /\ Fits(A.text[q], s[q])
       /\ \A o \in Leaps(A.text[q]) : d[q + o] # -3 =>
            own[q + o] = own[q] /\ Yields(Names(A, own[q]), A.text[q], s[q], s[q + o])
  /\ \A f \in DOMAIN A.entry : own[A.entry[f]] = f /\ Le(s[A.entry[f]], Blank)

\* A function is found by its name, and knows the names it was compiled with.
LEMMA FunctionNames ==
  ASSUME NEW p \in Sources, NEW i \in 1 .. Len(p.fns)
  PROVE  LET A == Assembled(p)
             f == p.fns[i].name
         IN /\ f \in DOMAIN A.entry /\ A.entry[f] = End(Emitted(p), i - 1) + 1
            /\ Names(A, f) = Env(p, p.fns[i])
<1> DEFINE f == p.fns[i].name
           A == Assembled(p)
<1>1. IsSeq(p.fns) /\ DOMAIN p.fns = 1 .. Len(p.fns)
  BY Functions, SeqFacts
<1>2. f \in NamesIn(p.fns)
  BY <1>1 DEF NamesIn, ToSet
<1>3. IndexOf(p.fns, f) \in 1 .. Len(p.fns) /\ p.fns[IndexOf(p.fns, f)].name = f
  BY <1>1, <1>2, IndexFound
<1>4. IndexOf(p.fns, f) = i
  <2>1. HasOneName(p.fns)
    BY SourcesAssumption
  <2> QED
    BY <1>1, <1>3, <2>1 DEF HasOneName
<1>5. /\ A.source = p /\ DOMAIN A.entry = NamesIn(p.fns)
      /\ A.entry[f] = End(Emitted(p), i - 1) + 1
      /\ A.slots[f] = Slots(p.fns[i].params \o p.fns[i].vars)
  BY <1>2, <1>4, Fields
<1> HIDE DEF f, A
<1>6. Names(A, f) = Env(p, p.fns[i])
  BY <1>5 DEF Names, Env
<1> QED
  BY <1>2, <1>5, <1>6 DEF f, A

\* What is known at each instruction of a program that stores through names.
LEMMA TextHasShapes ==
  ASSUME NEW p \in Sources, StoresByName(p), NEW d, Ready(Assembled(p), d)
  PROVE  \E s, own : TextShapes(Assembled(p), d, s, own)
<1> DEFINE A == Assembled(p)
           n == Len(p.fns)
           code == Emitted(p)
           text == FlattenSeq(code)
           Ends(i) == End(code, i)
           E(i) == Env(p, p.fns[i])
           Found(q, i) == \E k \in 1 .. Len(code[i]) : q = Ends(i - 1) + k
           at == [q \in Int |-> CHOOSE i \in 1 .. n : Found(q, i)]
           e == [i \in 1 .. n |-> CHOOSE e : Knows(E(i), code[i], Blank, Blank, e)]
           own == [q \in Int |-> p.fns[at[q]].name]
           s == [q \in Int |-> e[at[q]][q - Ends(at[q] - 1)]]
<1>1. /\ IsSeq(p.fns) /\ n \in Nat /\ DOMAIN p.fns = 1 .. n /\ \A i \in 1 .. n : IsFunction(p.fns[i])
  BY Functions, SeqFacts
<1>2. code = [i \in 1 .. n |-> code[i]] /\ \A i \in 1 .. n : code[i] = codegen_funcdecl(p.fns[i])
  BY <1>1 DEF Emitted
<1>3. \A i \in 1 .. n : FunctionByName(p, p.fns[i])
  BY <1>1 DEF StoresByName, ToSet
<1>4. A.text = text /\ DOMAIN A.entry = NamesIn(p.fns)
  BY Fields
<1> HIDE DEF code
<1>5. IsSeq(code) /\ Len(code) = n
  BY <1>1, <1>2, FunctionIsSeq
<1>6. ASSUME NEW i \in 1 .. n
      PROVE  IsSeq(code[i]) /\ Len(code[i]) \in Nat /\ Knows(E(i), code[i], Blank, Blank, e[i])
  <2>1. Keeps(E(i), code[i], Blank, Blank)
    BY <1>1, <1>2, <1>3, FunctionShape DEF Closed
  <2>2. IsSeq(code[i]) /\ \E x : Knows(E(i), code[i], Blank, Blank, x)
    BY <2>1 DEF Keeps
  <2> QED
    BY <2>2, SeqFacts
<1>7. /\ \A i \in 0 .. n : Ends(i) \in Nat
      /\ \A i \in 1 .. n : Ends(i) = Ends(i - 1) + Len(code[i])
      /\ Len(text) = Ends(n)
      /\ \A i \in 1 .. n : \A k \in 1 .. Len(code[i]) : text[Ends(i - 1) + k] = code[i][k]
  <2>1. n = Len(code) /\ \A i \in 1 .. Len(code) : IsSeq(code[i])
    BY <1>5, <1>6
  <2> HIDE DEF n
  <2> QED
    BY <1>5, <2>1, FlattenAt
<1>8. /\ \A q \in 1 .. Len(text) : \E i \in 1 .. n : Found(q, i)
      /\ \A i, j \in 1 .. n : \A k \in 1 .. Len(code[i]) : Found(Ends(i - 1) + k, j) => i = j
  <2>1. /\ \A q \in 1 .. Len(text) : \E i \in 1 .. n : \E k \in 1 .. Len(code[i]) : q = Ends(i - 1) + k
        /\ \A i, j \in 1 .. n : \A k \in 1 .. Len(code[i]) : \A l \in 1 .. Len(code[j]) :
             Ends(i - 1) + k = Ends(j - 1) + l => i = j /\ k = l
    BY <1>5, <1>6, Pieces
  <2> QED
    BY <2>1
<1>9. ASSUME NEW i \in 1 .. n
      PROVE  /\ p.fns[i].name \in DOMAIN A.entry /\ A.entry[p.fns[i].name] = Ends(i - 1) + 1
             /\ Names(A, p.fns[i].name) = E(i)
  BY FunctionNames DEF code
<1> HIDE DEF text, A, Ends, E
<1>10. ASSUME NEW i \in 1 .. n, NEW k \in 1 .. Len(code[i])
       PROVE  /\ own[Ends(i - 1) + k] = p.fns[i].name
              /\ s[Ends(i - 1) + k] = e[i][k]
  <2> DEFINE q == Ends(i - 1) + k
  <2>1. Ends(i - 1) \in Nat /\ k \in Int
    BY <1>1, <1>6, <1>7
  <2>2. q \in Int /\ q - Ends(i - 1) = k
    BY <2>1
  <2>3. Found(q, i)
    OBVIOUS
  <2>4. at[q] = i
    <3>1. at[q] \in 1 .. n /\ Found(q, at[q])
      <4> HIDE DEF Found, q
      <4> QED
        BY <2>2, <2>3
    <3> HIDE DEF at, Found
    <3> QED
      BY <1>8, <3>1
  <2> HIDE DEF q, at, e
  <2>5. own[q] = p.fns[i].name /\ s[q] = e[i][k]
    BY <2>2, <2>4
  <2> QED
    BY <2>5 DEF q
<1>11. ASSUME NEW i \in 0 .. n PROVE d[Ends(i) + 1] = -3
  <2>1. TextDepths(A, d)
    BY DEF Ready, A
  <2>2. CASE i = n
    BY <1>4, <1>7, <2>1, <2>2 DEF TextDepths, Depths
  <2>3. CASE i # n
    <3>1. i + 1 \in 1 .. n /\ (i + 1) - 1 = i
      BY <1>1, <2>3
    <3>2. p.fns[i + 1].name \in DOMAIN A.entry /\ A.entry[p.fns[i + 1].name] = Ends(i) + 1
      BY <1>9, <3>1
    <3> QED
      BY <2>1, <3>2 DEF TextDepths
  <2> QED
    BY <2>2, <2>3
<1> HIDE DEF own, s, at, e, Found
<1>12. ASSUME NEW i \in 1 .. n, NEW k \in 1 .. Len(code[i]), NEW q, q = Ends(i - 1) + k
       PROVE  /\ own[q] \in DOMAIN A.entry /\ s[q] \in Shape /\ Fits(A.text[q], s[q])
              /\ \A o \in Leaps(A.text[q]) : d[q + o] # -3 =>
                   own[q + o] = own[q] /\ Yields(Names(A, own[q]), A.text[q], s[q], s[q + o])
  <2>1. own[q] = p.fns[i].name /\ s[q] = e[i][k] /\ A.text[q] = code[i][k]
        /\ Names(A, own[q]) = E(i) /\ own[q] \in DOMAIN A.entry
    BY <1>4, <1>7, <1>9, <1>10, <1>12
  <2>2. e[i] \in [Int -> Shape] /\ Tracks(E(i), code[i], e[i], k)
    BY <1>6 DEF Knows
  <2>3. s[q] \in Shape /\ Fits(A.text[q], s[q])
    <3>1. k \in Int
      OBVIOUS
    <3> QED
      BY <2>1, <2>2, <3>1 DEF Tracks
  <2>4. ASSUME NEW o \in Leaps(A.text[q]), d[q + o] # -3
        PROVE  own[q + o] = own[q] /\ Yields(Names(A, own[q]), A.text[q], s[q], s[q + o])
    <3>1. o \in Int /\ k + o \in 1 .. Len(code[i]) + 1 /\ Yields(E(i), code[i][k], e[i][k], e[i][k + o])
      BY <2>1, <2>2, <2>4 DEF Tracks
    <3>2. Ends(i - 1) \in Nat /\ Ends(i) \in Nat /\ Ends(i) = Ends(i - 1) + Len(code[i])
          /\ i \in 0 .. n /\ Len(code[i]) \in Nat /\ k \in Int
      <4>1. i - 1 \in 0 .. n /\ i \in 0 .. n
        BY <1>1
      <4> QED
        BY <1>6, <1>7, <4>1
    <3>3. q + o = Ends(i - 1) + (k + o)
      BY <1>12, <3>1, <3>2
    <3>4. k + o # Len(code[i]) + 1
      <4> SUFFICES ASSUME k + o = Len(code[i]) + 1 PROVE FALSE
        OBVIOUS
      <4>1. q + o = Ends(i) + 1
        BY <3>2, <3>3
      <4> QED
        BY <1>11, <2>4, <3>2, <4>1
    <3>5. k + o \in 1 .. Len(code[i])
      BY <3>1, <3>2, <3>4
    <3>6. own[q + o] = p.fns[i].name /\ s[q + o] = e[i][k + o]
      BY <1>10, <3>3, <3>5
    <3> QED
      BY <2>1, <3>1, <3>6
  <2> QED
    BY <2>1, <2>3, <2>4
<1>13. ASSUME NEW f \in DOMAIN A.entry PROVE own[A.entry[f]] = f /\ Le(s[A.entry[f]], Blank)
  <2>1. PICK i \in 1 .. n : p.fns[i].name = f
    BY <1>1, <1>4 DEF NamesIn, ToSet
  <2>2. A.entry[f] = Ends(i - 1) + 1 /\ Len(code[i]) \in Nat
    BY <1>6, <1>9, <2>1
  <2>3. TextDepths(A, d) /\ Len(A.text) = Len(text) /\ Ends(i - 1) \in Nat
    <3>1. i - 1 \in 0 .. n
      BY <1>1
    <3> QED
      BY <1>4, <1>7, <3>1 DEF Ready, A
  <2>4. A.entry[f] \in 1 .. Len(text)
    <3>1. A.entry[f] + 2 \in 1 .. Len(text) /\ A.entry[f] \in Nat /\ 1 <= A.entry[f]
      BY <2>3 DEF TextDepths
    <3> QED
      BY <1>1, <1>7, <3>1
  <2>5. Len(code[i]) # 0
    <3> SUFFICES ASSUME Len(code[i]) = 0 PROVE FALSE
      OBVIOUS
    <3>0. code[i] = codegen_funcdecl(p.fns[i]) /\ IsFunction(p.fns[i])
          /\ Len(codegen_funcdecl(p.fns[i])) = 0
      BY <1>1, <1>2
    <3>1. codegen_funcdecl(p.fns[i]) = Stop \/ 3 \in 1 .. Len(codegen_funcdecl(p.fns[i]))
      BY <3>0, FunctionCode
    <3>2. Len(codegen_funcdecl(p.fns[i])) = 1 \/ 3 \in 1 .. Len(codegen_funcdecl(p.fns[i]))
      BY <3>1, One DEF Stop
    <3>3. \A m : m = 0 => m # 1 /\ 3 \notin 1 .. m
      OBVIOUS
    <3> DEFINE m == Len(codegen_funcdecl(p.fns[i]))
    <3>4. m = 0 /\ (m = 1 \/ 3 \in 1 .. m)
      BY <3>0, <3>2
    <3> QED
      BY <3>3, <3>4
  <2>6. 1 \in 1 .. Len(code[i])
    BY <2>2, <2>5
  <2>7. own[A.entry[f]] = f /\ s[A.entry[f]] = e[i][1]
    BY <1>10, <2>1, <2>2, <2>6
  <2>8. Le(e[i][1], Blank)
    BY <1>6 DEF Knows
  <2> QED
    BY <2>7, <2>8
<1>14. TextShapes(A, d, s, own)
  <2>1. ASSUME NEW q \in 1 .. Len(A.text)
        PROVE  /\ own[q] \in DOMAIN A.entry /\ s[q] \in Shape /\ Fits(A.text[q], s[q])
               /\ \A o \in Leaps(A.text[q]) : d[q + o] # -3 =>
                    own[q + o] = own[q] /\ Yields(Names(A, own[q]), A.text[q], s[q], s[q + o])
    <3>1. PICK i \in 1 .. n : \E k \in 1 .. Len(code[i]) : q = Ends(i - 1) + k
      BY <1>4, <1>8 DEF Found
    <3> QED
      BY <1>12, <3>1
  <2> QED
    BY <1>13, <2>1 DEF TextShapes
<1> QED
  BY <1>14 DEF A

-----------------------------------------------------------------------------
\* The addresses a running program has.

\* The variables the i-th active function can name, an address with room for n bytes
\* in one of them, and one that lies in the memory, among the function's operands.
InReach(A, f, i) ==
  LET slots == A.slots[f[i].fn]
  IN A.extents
     \cup {<<FrameAt(f, i) - slots[x].offset, SizeOf(slots[x].typ)>> : x \in DOMAIN slots}
Room(A, f, i, w, n) ==
  n > 0 => \E v \in InReach(A, f, i) : v[1] <= w /\ w + n <= v[1] + v[2]
WordAt(A, f, i, m, a, n) ==
  n > 0 => /\ A.limit <= a /\ a + 8 <= Floor(A, f, i)
           /\ \E w \in 0 .. Word - 1 : HasWord(m, a, w) /\ Room(A, f, i, w, n)

\* The words from t on are what S says, of each function that waits for another one
\* to return, and of the one that runs.
Pointed(A, f, i, S, m, t) == \A k \in Nat \ {0} : WordAt(A, f, i, m, t + 8 * (k - 1), S[k])
Callers(A, s, own, m, f) ==
  \A i \in 1 .. Len(f) - 1 :
    LET q == f[i + 1].ret
    IN own[q] = f[i].fn /\ s[q][0] = 0 /\ Pointed(A, f, i, s[q], m, f[i + 1].rsp)
Shaped(A, s, own, p, r, m, f) ==
  LET n == Len(f) IN
  /\ own[p] = f[n].fn
  /\ Room(A, f, n, r.rax, s[p][0])
  /\ Pointed(A, f, n, s[p], m, r.rsp)
  /\ Callers(A, s, own, m, f)

\* Variables lie in the data or between a function's operands and its frame pointer.
LEMMA ReachFacts ==
  ASSUME NEW A, NEW d, Ready(A, d), NEW f, Calls(A, d, f), NEW i \in 1 .. Len(f),
         NEW v \in InReach(A, f, i)
  PROVE  /\ v[1] \in Int /\ v[2] \in Nat /\ v[1] + v[2] <= Memory
         /\ \/ v[1] + v[2] <= A.limit
            \/ Floor(A, f, i) <= v[1] /\ v[1] + v[2] <= FrameAt(f, i)
<1>1. /\ A.limit \in Nat /\ A.limit + 8 <= Memory /\ Memory \in Int
      /\ f[i].rsp \in Int /\ f[i].rsp <= Memory /\ f[i].fn \in DOMAIN A.entry
      /\ FrameAt(f, i) \in Int /\ FrameAt(f, i) = f[i].rsp - 16
      /\ Floor(A, f, i) = FrameAt(f, i) - A.frame[f[i].fn]
  <2>1. A.limit + 8 <= Memory
    BY DEF Ready
  <2> QED
    BY <2>1, CallFacts, MemoryAssumption, ByteCases DEF Floor
<1>2. CASE v \in A.extents
  <2>1. v[1] \in Nat /\ v[2] \in Nat /\ v[1] + v[2] <= A.limit
    BY <1>2 DEF Ready
  <2> QED
    BY <1>1, <2>1
<1>3. CASE v \notin A.extents
  <2>1. PICK x \in DOMAIN A.slots[f[i].fn] :
          v = <<FrameAt(f, i) - A.slots[f[i].fn][x].offset, SizeOf(A.slots[f[i].fn][x].typ)>>
    BY <1>3 DEF InReach
  <2> DEFINE o == A.slots[f[i].fn][x].offset
             k == SizeOf(A.slots[f[i].fn][x].typ)
             b == A.frame[f[i].fn]
  <2>2. o \in Nat /\ k \in Nat /\ k <= o /\ o <= b /\ b \in Nat
    BY <1>1 DEF Ready
  <2> DEFINE F == FrameAt(f, i)
             L == Floor(A, f, i)
  <2>3. v[1] = F - o /\ v[2] = k
    BY <2>1
  <2>4. L = F - b
    BY <1>1
  <2>5. F \in Int
    BY <1>1
  <2> HIDE DEF o, k, b, F, L
  <2>6. v[1] \in Int /\ v[2] \in Nat /\ v[1] + v[2] <= F /\ L <= v[1]
    <3>1. F - o \in Int /\ (F - o) + k <= F /\ L <= F - o
      BY <2>2, <2>4, <2>5
    <3> QED
      BY <2>2, <2>3, <3>1
  <2>7. FrameAt(f, i) <= Memory
    BY <1>1
  <2>8. F = FrameAt(f, i) /\ L = Floor(A, f, i)
    BY DEF F, L
  <2>9. F + 0 <= Memory /\ Memory \in Int
    BY <1>1, <2>5, <2>7, <2>8
  <2>10. v[1] + v[2] <= Memory
    BY <2>5, <2>6, <2>9
  <2> QED
    BY <2>6, <2>8, <2>10
<1> QED
  BY <1>2, <1>3

\* Less room is room, too.
LEMMA RoomLess ==
  ASSUME NEW A, NEW d, Ready(A, d), NEW f, Calls(A, d, f), NEW i \in 1 .. Len(f),
         NEW w \in Int, NEW n \in Nat, NEW k \in Nat, k <= n, Room(A, f, i, w, n)
  PROVE  Room(A, f, i, w, k)
<1> SUFFICES ASSUME k > 0
             PROVE  \E v \in InReach(A, f, i) : v[1] <= w /\ w + k <= v[1] + v[2]
  BY DEF Room
<1>1. PICK v \in InReach(A, f, i) : v[1] <= w /\ w + n <= v[1] + v[2]
  BY DEF Room
<1>2. v[1] \in Int /\ v[2] \in Nat
  BY ReachFacts
<1>3. w + k <= v[1] + v[2]
  BY <1>1, <1>2
<1> QED
  BY <1>1, <1>3

\* A word among the operands stays, if nothing is written there.
LEMMA WordStays ==
  ASSUME NEW A, NEW d, Ready(A, d), NEW f, Calls(A, d, f), NEW i \in 1 .. Len(f),
         NEW b \in Int, NEW n \in Nat, NEW k \in Nat, k <= n, NEW m, WordAt(A, f, i, m, b, n),
         NEW a \in Int, NEW l \in Nat, NEW w, KeptBut(m, w, a, l),
         k > 0 => a + l <= b \/ b + 8 <= a
  PROVE  WordAt(A, f, i, w, b, k)
<1> SUFFICES ASSUME k > 0
             PROVE  /\ A.limit <= b /\ b + 8 <= Floor(A, f, i)
                    /\ \E x \in 0 .. Word - 1 : HasWord(w, b, x) /\ Room(A, f, i, x, k)
  BY DEF WordAt
<1>1. A.limit <= b /\ b + 8 <= Floor(A, f, i)
  BY DEF WordAt
<1>2. PICK x \in 0 .. Word - 1 : HasWord(m, b, x) /\ Room(A, f, i, x, n)
  BY DEF WordAt
<1>3. b \in Nat /\ b + 8 <= Memory
  <2>1. /\ A.limit \in Nat /\ Floor(A, f, i) \in Int /\ Floor(A, f, i) <= FrameAt(f, i)
        /\ FrameAt(f, i) = f[i].rsp - 16 /\ f[i].rsp \in Int /\ f[i].rsp <= Memory
    BY CallFacts
  <2>2. Memory \in Int
    BY MemoryAssumption, ByteCases
  <2> QED
    BY <1>1, <2>1, <2>2
<1>4. HasWord(w, b, x)
  BY <1>2, <1>3, WordKept
<1>5. Room(A, f, i, x, k)
  BY <1>2, RoomLess, ByteCases
<1> QED
  BY <1>1, <1>4, <1>5

\* Words of T, from u on, that are words of S, from t on, where nothing is written.
Carries(A, f, i, S, t, m, T, u, w, a, l) ==
  \A k \in Nat \ {0} :
    \/ T[k] = 0 \/ WordAt(A, f, i, w, u + 8 * (k - 1), T[k])
    \/ \E j \in Nat \ {0} : /\ T[k] <= S[j] /\ u + 8 * k = t + 8 * j
                            /\ w = m \/ a + l <= t + 8 * (j - 1) \/ t + 8 * j <= a

\* They stay.
LEMMA PointedFrom ==
  ASSUME NEW A, NEW d, Ready(A, d), NEW f, Calls(A, d, f), NEW i \in 1 .. Len(f),
         NEW S \in Shape, NEW T \in Shape, NEW m, NEW t \in Int, Pointed(A, f, i, S, m, t),
         NEW a \in Int, NEW l \in Nat, NEW w, KeptBut(m, w, a, l), NEW u \in Int,
         Carries(A, f, i, S, t, m, T, u, w, a, l)
  PROVE  Pointed(A, f, i, T, w, u)
<1> SUFFICES ASSUME NEW k \in Nat \ {0} PROVE WordAt(A, f, i, w, u + 8 * (k - 1), T[k])
  BY DEF Pointed
<1>1. CASE T[k] = 0
  BY <1>1 DEF WordAt
<1>2. ASSUME NEW j \in Nat \ {0}, T[k] <= S[j], u + 8 * k = t + 8 * j,
             w = m \/ a + l <= t + 8 * (j - 1) \/ t + 8 * j <= a
      PROVE  WordAt(A, f, i, w, u + 8 * (k - 1), T[k])
  <2>1. PICK b : b = u + 8 * (k - 1)
    OBVIOUS
  <2>2. b \in Int /\ b = t + 8 * (j - 1) /\ (w = m \/ a + l <= b \/ b + 8 <= a)
    BY <1>2, <2>1
  <2>3. WordAt(A, f, i, m, b, S[j])
    BY <2>2 DEF Pointed
  <2>4. S[j] \in Nat /\ T[k] \in Nat
    BY DEF Shape
  <2>5. WordAt(A, f, i, w, b, T[k])
    <3>1. CASE w = m
      <4>1. KeptBut(m, w, b + 8, 0) /\ b + 8 \in Int /\ 0 \in Nat /\ b + 8 <= b + 8
        BY <2>2, <3>1 DEF KeptBut
      <4> QED
        BY <1>2, <2>2, <2>3, <2>4, <4>1, WordStays
    <3>2. CASE a + l <= b \/ b + 8 <= a
      BY <1>2, <2>2, <2>3, <2>4, <3>2, WordStays
    <3> QED
      BY <2>2, <3>1, <3>2
  <2> QED
    BY <2>1, <2>5
<1> QED
  BY <1>1, <1>2 DEF Carries

\* What the callers find again stays, if nothing is written above the running
\* function's frame.
LEMMA CallersKept ==
  ASSUME NEW A, NEW d, Ready(A, d), NEW f, Calls(A, d, f), NEW s, NEW own,
         TextShapes(A, d, s, own), NEW m, Callers(A, s, own, m, f),
         NEW a \in Int, NEW l \in Nat, a + l <= f[Len(f)].rsp, NEW w, KeptBut(m, w, a, l)
  PROVE  Callers(A, s, own, w, f)
<1> DEFINE n == Len(f)
<1>1. n \in Nat /\ n \in 1 .. n /\ (\A i \in 1 .. n : f[i].rsp \in Int) /\ a + l <= f[n].rsp
  BY CallFacts
<1> SUFFICES ASSUME NEW i \in 1 .. n - 1
             PROVE  Pointed(A, f, i, s[f[i + 1].ret], w, f[i + 1].rsp)
  BY DEF Callers
<1>2. i \in 1 .. n /\ i + 1 \in 1 .. n /\ i + 1 > 1
  BY <1>1
<1> DEFINE S == s[f[i + 1].ret]
           t == f[i + 1].rsp
<1>3. S \in Shape
  <2>1. f[i + 1].ret \in 1 .. Len(A.text)
    BY <1>2 DEF Calls
  <2> QED
    BY <2>1 DEF TextShapes
<1>4. t \in Int /\ f[n].rsp <= t
  <2>1. CASE i + 1 = n
    BY <1>1, <1>2, <2>1
  <2>2. CASE i + 1 < n
    <3>1. i + 1 \in 1 .. n - 1
      BY <1>1, <1>2, <2>2
    <3>2. /\ f[n].rsp <= Floor(A, f, i + 1) /\ Floor(A, f, i + 1) <= FrameAt(f, i + 1)
          /\ FrameAt(f, i + 1) = t - 16 /\ t \in Int /\ f[n].rsp \in Int
          /\ Floor(A, f, i + 1) \in Int
      BY <1>1, <1>2, <3>1, CallFacts
    <3> HIDE DEF t, n
    <3> QED
      BY <3>2
  <2> QED
    BY <1>1, <1>2, <2>1, <2>2
<1>5. Pointed(A, f, i, S, m, t)
  BY DEF Callers
<1>6. ASSUME NEW k \in Nat \ {0}
      PROVE  \E j \in Nat \ {0} : /\ S[k] <= S[j] /\ t + 8 * k = t + 8 * j
                                  /\ a + l <= t + 8 * (j - 1)
  <2>1. S[k] \in Nat
    BY <1>3 DEF Shape
  <2>2. f[n].rsp \in Int /\ a + l <= f[n].rsp
    BY <1>1
  <2> HIDE DEF S, t, n
  <2>3. a + l <= t + 8 * (k - 1)
    BY <1>4, <2>2
  <2> QED
    BY <2>1, <2>3
<1> HIDE DEF S, t
<1>7. \A k \in Nat \ {0} :
        \/ S[k] = 0 \/ WordAt(A, f, i, w, t + 8 * (k - 1), S[k])
        \/ \E j \in Nat \ {0} : /\ S[k] <= S[j] /\ t + 8 * k = t + 8 * j
                                /\ w = m \/ a + l <= t + 8 * (j - 1) \/ t + 8 * j <= a
  BY <1>6
<1>8. Carries(A, f, i, S, t, m, S, t, w, a, l)
  BY <1>7 DEF Carries
<1>9. Pointed(A, f, i, S, w, t)
  BY <1>2, <1>3, <1>4, <1>5, <1>8, PointedFrom
<1> QED
  BY <1>9 DEF S, t

\* A running program, with what is known of its addresses.
Knowing(s, own) ==
  /\ MachineInv /\ Running
  /\ TextShapes(prog, D, s, own)
  /\ Shaped(prog, s, own, pc, regs, mem, frames)

\* What is known where an instruction leads to.
LEMMA Ahead ==
  ASSUME NEW s, NEW own, Knowing(s, own), NEW q \in 1 .. Len(prog.text) + 1,
         q - pc \in Leaps(instr), D[q] # -3
  PROVE  /\ s[pc] \in Shape /\ s[q] \in Shape
         /\ own[q] = frames[Len(frames)].fn
         /\ Yields(Names(prog, frames[Len(frames)].fn), instr, s[pc], s[q])
<1>1. /\ Ready(prog, D) /\ pc \in 1 .. Len(prog.text) /\ Len(prog.text) \in Nat
  BY WhileRunning DEF Knowing
<1>2. q \in 1 .. Len(prog.text) /\ pc + (q - pc) = q
  BY <1>1, DepthFacts
<1>3. own[pc] = frames[Len(frames)].fn /\ instr = prog.text[pc]
  BY DEF Knowing, Shaped, instr
<1>4. TextShapes(prog, D, s, own)
  BY DEF Knowing
<1> QED
  BY <1>1, <1>2, <1>3, <1>4 DEF TextShapes

\* A step inside of a function.
LEMMA ShapedStep ==
  ASSUME NEW s, NEW own, Knowing(s, own), prog' = prog, frames' = frames,
         pc' \in 1 .. Len(prog.text) + 1, pc' - pc \in Leaps(instr), D[pc'] # -3,
         NEW a \in Int, NEW l \in Nat, KeptBut(mem, mem', a, l),
         a + l <= frames[Len(frames)].rsp,
         Room(prog, frames, Len(frames), regs'.rax, s[pc'][0]),
         Pointed(prog, frames, Len(frames), s[pc'], mem', regs'.rsp)
  PROVE  Shaped(prog', s, own, pc', regs', mem', frames')
<1>1. Ready(prog, D) /\ Calls(prog, D, frames)
  BY WhileRunning DEF Knowing
<1>2. TextShapes(prog, D, s, own) /\ Callers(prog, s, own, mem, frames)
  BY DEF Knowing, Shaped
<1>3. Callers(prog, s, own, mem', frames)
  BY <1>1, <1>2, CallersKept
<1>4. own[pc'] = frames[Len(frames)].fn
  BY Ahead
<1> QED
  BY <1>3, <1>4 DEF Shaped

\* ... in which no operand is touched.
LEMMA ShapedHere ==
  ASSUME NEW s, NEW own, Knowing(s, own), prog' = prog, frames' = frames,
         pc' \in 1 .. Len(prog.text) + 1, pc' - pc \in Leaps(instr), D[pc'] # -3,
         mem' = mem, regs'.rsp = regs.rsp,
         \A k \in Nat \ {0} : WordAfter(instr, s[pc], k) = s[pc][k],
         Room(prog, frames, Len(frames), regs'.rax, s[pc'][0])
  PROVE  Shaped(prog', s, own, pc', regs', mem', frames')
<1> DEFINE n == Len(frames)
           S == s[pc]
           T == s[pc']
           t == regs.rsp
           a == frames[n].rsp
<1>1. Ready(prog, D) /\ Calls(prog, D, frames)
  BY WhileRunning DEF Knowing
<1>2. n \in 1 .. n /\ a \in Int
  BY <1>1, CallFacts
<1>3. S \in Shape /\ T \in Shape /\ \A k \in Nat \ {0} : T[k] <= S[k]
  <2>1. S \in Shape /\ T \in Shape /\ Yields(Names(prog, frames[n].fn), instr, S, T)
    BY Ahead
  <2> QED
    BY <2>1 DEF Yields
<1>4. t \in Int
  BY Ranges DEF Knowing
<1>5. Pointed(prog, frames, n, S, mem, t)
  BY DEF Knowing, Shaped
<1>6. KeptBut(mem, mem', a, 0) /\ 0 \in Nat /\ a + 0 <= a
  BY <1>2 DEF KeptBut
<1>7. \A k \in Nat \ {0} :
        \/ T[k] = 0 \/ WordAt(prog, frames, n, mem', t + 8 * (k - 1), T[k])
        \/ \E j \in Nat \ {0} : /\ T[k] <= S[j] /\ t + 8 * k = t + 8 * j
                                /\ mem' = mem \/ a + 0 <= t + 8 * (j - 1) \/ t + 8 * j <= a
  BY <1>3
<1>8. Carries(prog, frames, n, S, t, mem, T, t, mem', a, 0)
  BY <1>7 DEF Carries
<1> HIDE DEF S, T, t, a
<1>9. Pointed(prog, frames, n, T, mem', t)
  BY <1>1, <1>2, <1>3, <1>4, <1>5, <1>6, <1>8, PointedFrom
<1>10. Pointed(prog, frames, Len(frames), s[pc'], mem', regs'.rsp)
  BY <1>9 DEF T, t
<1>11. a + 0 <= frames[Len(frames)].rsp
  BY <1>6 DEF a
<1> QED
  BY <1>2, <1>6, <1>10, <1>11, ShapedStep

\* What is known of rax after an instruction, by its operation.
LEMMA RaxAfter ==
  ASSUME NEW E, NEW ins, NEW S \in Shape, NEW n \in Nat, Rax(E, ins, S, n)
  PROVE  /\ ins[1] \in {"movsbl", "movl", "movq", "add", "sub", "and", "neg", "imul", "idiv",
                        "set", "movzbl", "call", "ret"} => n = 0
         /\ ins[1] \in {"push", "push_int", "store", "spill", "reload", "cmp", "cmp_int",
                        "jmp", "jcc"} => n <= S[0]
         /\ ins[1] \in {"mov", "mov_int"} =>
              n = 0 \/ (ins[3] \notin {"rax", "rbp"} /\ n <= S[0])
         /\ ins[1] = "pop" =>
              n = 0 \/ (ins[2] = "rax" /\ n <= S[1]) \/ (ins[2] \notin {"rax", "rbp"} /\ n <= S[0])
         /\ ins[1] = "add_int" =>
              \/ n = 0
              \/ ins[3] = "rsp" /\ n <= S[0]
              \/ ins[2] \in Nat /\ ins[3] = "rax" /\ n + ins[2] <= S[0]
<1>1. S[0] \in Nat /\ S[1] \in Nat
  BY DEF Shape
<1>2. CASE n = 0
  <2>1. n <= S[0]
    BY <1>1, <1>2
  <2> QED
    BY <1>2, <2>1
<1>3. CASE n # 0
  BY <1>1, <1>3 DEF Rax
<1> QED
  BY <1>2, <1>3

\* The words after an instruction that leaves the stack alone.
LEMMA SameWords ==
  ASSUME NEW ins, NEW S, NEW k,
         \/ ins[1] \in {"movsbl", "movl", "movq", "reload", "add", "sub", "and", "neg", "imul", "idiv",
                        "cmp", "cmp_int", "set", "movzbl", "jmp", "jcc", "lea", "lea_rip", "store",
                        "call", "mov_int"}
         \/ ins[1] \in {"mov", "add_int"} /\ ins[3] \notin {"rsp", "rbp"}
  PROVE  WordAfter(ins, S, k) = S[k]
<1>1. /\ ins[1] \notin {"push", "push_int", "pop", "spill"}
      /\ ~ (ins[1] = "add_int" /\ ins[3] = "rsp")
      /\ ~ (ins[1] = "mov" /\ ins[3] \in {"rsp", "rbp"})
  OBVIOUS
<1> QED
  BY <1>1 DEF WordAfter

\* The instruction that follows.
LEMMA Follows ==
  ASSUME NEW s, NEW own, Knowing(s, own),
         instr[1] \notin {"jmp", "jcc", "ret", "break", "continue", "stop"}
  PROVE  /\ pc + 1 \in 1 .. Len(prog.text) + 1 /\ (pc + 1) - pc \in Leaps(instr)
         /\ D[pc + 1] # -3
<1>1. /\ Flows(prog.text, D, pc) /\ instr = prog.text[pc] /\ instr # <<"stop">>
      /\ D[pc] \in Int /\ D[pc + 1] \in Int
      /\ pc + 1 \in 1 .. Len(prog.text) + 1 /\ pc \in 1 .. Len(prog.text)
  BY WhileRunning DEF Knowing, instr
<1>2. Leaps(instr) = {1}
  BY DEF Leaps
<1>3. Straight(instr, D[pc], D[pc + 1])
  <2>1. <<"break">>[1] = "break" /\ <<"continue">>[1] = "continue" /\ <<"ret">>[1] = "ret"
    OBVIOUS
  <2>2. /\ instr # <<"ret">> /\ instr # <<"break">> /\ instr # <<"continue">>
        /\ instr[1] # "jmp" /\ instr[1] # "jcc"
    BY <2>1
  <2> QED
    BY <1>1, <2>2 DEF Flows
<1> DEFINE x == D[pc]
           y == D[pc + 1]
<1>4. y # -3
  <2> HIDE DEF x, y
  <2>1. x \in Int /\ y \in Int /\ Straight(instr, x, y)
    BY <1>1, <1>3 DEF x, y
  <2>2. CASE Plain(instr) /\ x >= 0 /\ y \in 0 .. x
    BY <2>2
  <2>3. CASE Moves(instr, x, y)
    BY <2>1, <2>3 DEF Moves
  <2>4. CASE Prologues(instr, x, y) \/ Epilogues(instr, x, y)
    BY <2>1, <2>4 DEF Prologues, Epilogues
  <2> QED
    BY <2>1, <2>2, <2>3, <2>4 DEF Straight
<1>5. (pc + 1) - pc = 1
  BY <1>1
<1> QED
  BY <1>1, <1>2, <1>4, <1>5

\* rax has the address it had.
LEMMA RaxKept ==
  ASSUME NEW s, NEW own, Knowing(s, own), s[pc] \in Shape, NEW n \in Nat, n <= s[pc][0],
         regs'.rax = regs.rax
  PROVE  Room(prog, frames, Len(frames), regs'.rax, n)
<1>1. Ready(prog, D) /\ Calls(prog, D, frames)
  BY WhileRunning DEF Knowing
<1>2. Len(frames) \in 1 .. Len(frames)
  BY <1>1, CallFacts
<1>3. regs.rax \in Int
  BY Ranges DEF Knowing
<1>4. Room(prog, frames, Len(frames), regs.rax, s[pc][0])
  BY DEF Knowing, Shaped
<1>5. s[pc][0] \in Nat
  BY DEF Shape
<1> QED
  BY <1>1, <1>2, <1>3, <1>4, <1>5, RoomLess

\* Instructions that leave the stack alone and no address in rax, or the one it had.
LEMMA ShapedData ==
  ASSUME NEW s, NEW own, Knowing(s, own), prog' = prog, frames' = frames, pc' = pc + 1,
         mem' = mem, regs'.rsp = regs.rsp,
         \/ instr[1] \in {"movsbl", "movl", "movq", "add", "sub", "and", "neg", "imul", "idiv",
                          "set", "movzbl"}
         \/ instr[1] \in {"reload", "cmp", "cmp_int"} /\ regs'.rax = regs.rax
  PROVE  Shaped(prog', s, own, pc', regs', mem', frames')
<1> DEFINE n == Len(frames)
           S == s[pc]
           T == s[pc']
<1>1. /\ pc' \in 1 .. Len(prog.text) + 1 /\ pc' - pc \in Leaps(instr) /\ D[pc'] # -3
  BY Follows
<1>2. S \in Shape /\ T \in Shape /\ Yields(Names(prog, frames[n].fn), instr, S, T)
  BY <1>1, Ahead
<1>3. T[0] \in Nat /\ S[0] \in Nat /\ Rax(Names(prog, frames[n].fn), instr, S, T[0])
  BY <1>2 DEF Yields, Shape
<1>4. \A k \in Nat \ {0} : WordAfter(instr, S, k) = S[k]
  BY SameWords
<1>5. Room(prog, frames, n, regs'.rax, T[0])
  <2>1. CASE T[0] = 0
    BY <2>1 DEF Room
  <2>2. CASE instr[1] \in {"reload", "cmp", "cmp_int"} /\ regs'.rax = regs.rax
    <3>1. T[0] <= S[0]
      BY <1>2, <1>3, <2>2, RaxAfter
    <3> QED
      BY <1>2, <1>3, <2>2, <3>1, RaxKept
  <2>3. CASE instr[1] \notin {"reload", "cmp", "cmp_int"}
    <3>1. T[0] = 0
      BY <1>2, <1>3, <2>3, RaxAfter
    <3> QED
      BY <2>1, <3>1
  <2> QED
    BY <2>2, <2>3
<1> HIDE DEF n, S, T
<1>6. Room(prog, frames, Len(frames), regs'.rax, s[pc'][0])
  BY <1>5 DEF n, T
<1>7. \A k \in Nat \ {0} : WordAfter(instr, s[pc], k) = s[pc][k]
  BY <1>4 DEF S
<1> QED
  BY <1>1, <1>6, <1>7, ShapedHere

\* A number is read into rax, or an argument into rcx.
LEMMA ShapedLoad ==
  ASSUME NEW s, NEW own, Knowing(s, own), Load
  PROVE  Shaped(prog', s, own, pc', regs', mem', frames')
<1>1. /\ instr[1] \in {"movsbl", "movl", "movq", "reload"}
      /\ pc' = pc + 1 /\ prog' = prog /\ frames' = frames /\ mem' = mem
  BY DEF Load, In, Skip
<1>2. RegsOK(regs)
  BY Ranges DEF Knowing
<1>3. CASE instr[1] = "reload"
  <2>1. PICK w : Set("rcx", w)
    BY <1>3 DEF Load
  <2>2. regs'.rax = regs.rax /\ regs'.rsp = regs.rsp
    BY <1>2, <2>1 DEF Set, RegsOK, Registers
  <2> QED
    BY <1>1, <1>3, <2>2, ShapedData
<1>4. CASE instr[1] # "reload"
  <2>1. PICK w : Set("rax", w)
    BY <1>1, <1>4 DEF Load
  <2>2. regs'.rsp = regs.rsp
    BY <1>2, <2>1 DEF Set, RegsOK, Registers
  <2> QED
    BY <1>1, <1>4, <2>2, ShapedData
<1> QED
  BY <1>3, <1>4

\* A product or a quotient is no address.
LEMMA ShapedProduct ==
  ASSUME NEW s, NEW own, Knowing(s, own), Multiply \/ Divide
  PROVE  Shaped(prog', s, own, pc', regs', mem', frames')
<1>1. /\ instr[1] \in {"imul", "idiv"}
      /\ pc' = pc + 1 /\ prog' = prog /\ frames' = frames /\ mem' = mem
  BY DEF Multiply, Divide, In, Skip
<1>2. RegsOK(regs)
  BY Ranges DEF Knowing
<1>3. PICK v, w : regs' = [regs EXCEPT !.rax = v, !.rdx = w]
  BY DEF Multiply, Divide
<1>4. regs'.rsp = regs.rsp
  BY <1>2, <1>3 DEF RegsOK, Registers
<1> QED
  BY <1>1, <1>4, ShapedData

\* A comparison leaves an address in rax.
LEMMA ShapedCmp ==
  ASSUME NEW s, NEW own, Knowing(s, own), Cmp
  PROVE  Shaped(prog', s, own, pc', regs', mem', frames')
<1>1. /\ instr[1] \in {"cmp", "cmp_int"} /\ regs' = regs
      /\ pc' = pc + 1 /\ prog' = prog /\ frames' = frames /\ mem' = mem
  BY DEF Cmp, In, Skip
<1> QED
  BY <1>1, ShapedData

\* What a comparison gives is no address.
LEMMA ShapedSetByte ==
  ASSUME NEW s, NEW own, Knowing(s, own), SetByte
  PROVE  Shaped(prog', s, own, pc', regs', mem', frames')
<1>1. /\ instr[1] \in {"set", "movzbl"}
      /\ pc' = pc + 1 /\ prog' = prog /\ frames' = frames /\ mem' = mem
  BY DEF SetByte, In, Skip
<1>2. RegsOK(regs)
  BY Ranges DEF Knowing
<1>3. PICK w : Set("rax", w)
  BY DEF SetByte
<1>4. regs'.rsp = regs.rsp
  BY <1>2, <1>3 DEF Set, RegsOK, Registers
<1> QED
  BY <1>1, <1>4, ShapedData

\* A jump leads to where no more is known.
LEMMA ShapedJump ==
  ASSUME NEW s, NEW own, Knowing(s, own), Jump
  PROVE  Shaped(prog', s, own, pc', regs', mem', frames')
<1>1. /\ Running /\ instr[1] \in {"jmp", "jcc"}
      /\ prog' = prog /\ frames' = frames /\ mem' = mem /\ regs' = regs
  BY DEF Jump, In
<1>2. /\ Flows(prog.text, D, pc) /\ instr = prog.text[pc] /\ D[pc] \in Int
      /\ pc \in 1 .. Len(prog.text) /\ Len(prog.text) \in Nat
      /\ pc + 1 \in 1 .. Len(prog.text) + 1 /\ D[pc + 1] \in Int
  BY WhileRunning DEF instr, Knowing
<1>3. pc' \in 1 .. Len(prog.text) + 1 /\ pc' - pc \in Leaps(instr) /\ D[pc'] # -3
  <2>1. CASE instr[1] = "jmp"
    <3>1. Leads(prog.text, D, pc, instr[2])
      BY <1>2, <2>1, PlainFlows
    <3>2. pc' = pc + 1 + instr[2]
      BY <2>1 DEF Jump
    <3>3. Leaps(instr) = {1 + instr[2]}
      BY <2>1 DEF Leaps
    <3>4. instr[2] \in Int /\ pc' \in 1 .. Len(prog.text) + 1 /\ D[pc'] \in 0 .. D[pc]
      BY <3>1, <3>2 DEF Leads
    <3>5. pc' - pc = 1 + instr[2]
      BY <1>2, <3>2, <3>4
    <3> QED
      BY <1>2, <3>3, <3>4, <3>5
  <2>2. CASE instr[1] = "jcc"
    <3>1. Leads(prog.text, D, pc, instr[3]) /\ D[pc + 1] \in 0 .. D[pc]
      BY <1>2, <2>2, PlainFlows
    <3>2. pc' = IF Holds(instr[2]) THEN pc + 1 + instr[3] ELSE pc + 1
      BY <2>2 DEF Jump
    <3>3. Leaps(instr) = {1, 1 + instr[3]}
      BY <2>2 DEF Leaps
    <3>4. CASE Holds(instr[2])
      <4>1. /\ instr[3] \in Int /\ pc' \in 1 .. Len(prog.text) + 1 /\ D[pc'] \in 0 .. D[pc]
            /\ pc' = pc + 1 + instr[3]
        BY <3>1, <3>2, <3>4 DEF Leads
      <4>2. pc' - pc = 1 + instr[3]
        BY <1>2, <4>1
      <4> QED
        BY <1>2, <3>3, <4>1, <4>2
    <3>5. CASE ~ Holds(instr[2])
      <4>1. pc' = pc + 1 /\ D[pc'] \in 0 .. D[pc]
        BY <3>1, <3>2, <3>5
      <4>2. pc' - pc = 1
        BY <1>2, <4>1
      <4> QED
        BY <1>2, <3>3, <4>1, <4>2
    <3> QED
      BY <3>4, <3>5
  <2> QED
    BY <1>1, <2>1, <2>2
<1>4. /\ s[pc] \in Shape /\ s[pc'] \in Shape
      /\ Rax(Names(prog, frames[Len(frames)].fn), instr, s[pc], s[pc'][0])
  BY <1>3, Ahead DEF Yields
<1>5. s[pc'][0] \in Nat /\ s[pc'][0] <= s[pc][0]
  <2>1. s[pc'][0] \in Nat
    BY <1>4 DEF Shape
  <2> QED
    BY <1>1, <1>4, <2>1, RaxAfter
<1>6. Room(prog, frames, Len(frames), regs'.rax, s[pc'][0])
  BY <1>1, <1>4, <1>5, RaxKept
<1>7. \A k \in Nat \ {0} : WordAfter(instr, s[pc], k) = s[pc][k]
  BY <1>1, SameWords
<1> QED
  BY <1>1, <1>3, <1>6, <1>7, ShapedHere

\* Instructions that give the operand stack up.
LEMMA ShapedBare ==
  ASSUME NEW s, NEW own, Knowing(s, own), prog' = prog, frames' = frames, pc' = pc + 1,
         instr[1] \notin {"jmp", "jcc", "ret", "break", "continue", "stop"},
         mem' = mem, \A k \in Nat \ {0} : WordAfter(instr, s[pc], k) = 0,
         Room(prog, frames, Len(frames), regs'.rax, s[pc'][0])
  PROVE  Shaped(prog', s, own, pc', regs', mem', frames')
<1>1. /\ pc' \in 1 .. Len(prog.text) + 1 /\ pc' - pc \in Leaps(instr) /\ D[pc'] # -3
  BY Follows
<1>2. /\ s[pc'] \in Shape /\ \A k \in Nat \ {0} : s[pc'][k] <= WordAfter(instr, s[pc], k)
  BY <1>1, Ahead DEF Yields
<1>3. Pointed(prog, frames, Len(frames), s[pc'], mem', regs'.rsp)
  <2>1. ASSUME NEW k \in Nat \ {0} PROVE ~ (s[pc'][k] > 0)
    <3>1. s[pc'][k] \in Nat /\ s[pc'][k] <= 0
      BY <1>2 DEF Shape
    <3> QED
      BY <3>1
  <2> QED
    BY <2>1 DEF Pointed, WordAt
<1>4. PICK a : a = frames[Len(frames)].rsp
  OBVIOUS
<1>5. a \in Int
  <2>1. Ready(prog, D) /\ Calls(prog, D, frames)
    BY WhileRunning DEF Knowing
  <2> QED
    BY <1>4, <2>1, CallFacts
<1>6. KeptBut(mem, mem', a, 0) /\ 0 \in Nat /\ a + 0 <= frames[Len(frames)].rsp
  BY <1>4, <1>5 DEF KeptBut
<1> QED
  BY <1>1, <1>3, <1>5, <1>6, ShapedStep

\* The address of a variable has the room of the variable.
LEMMA VariableRoom ==
  ASSUME NEW s, NEW own, Knowing(s, own), Move, NEW n \in Nat,
         instr[1] \in {"lea", "lea_rip"},
         Rax(Names(prog, frames[Len(frames)].fn), instr, s[pc], n)
  PROVE  Room(prog, frames, Len(frames), regs'.rax, n)
<1> DEFINE j == Len(frames)
<1> SUFFICES ASSUME n > 0
             PROVE  \E v \in InReach(prog, frames, j) : v[1] <= regs'.rax /\ regs'.rax + n <= v[1] + v[2]
  BY DEF Room
<1>1. /\ MachineInv /\ Running /\ Ready(prog, D) /\ Calls(prog, D, frames)
      /\ Flows(prog.text, D, pc) /\ instr = prog.text[pc] /\ RegsOK(regs)
  BY WhileRunning, Ranges DEF instr, Knowing
<1>2. Plain(instr) /\ D[pc] >= 0
  BY <1>1, PlainFlows DEF PlainOps
<1>3. /\ j \in 1 .. j /\ prog.limit \in Nat /\ regs.rsp \in Int /\ Floor(prog, frames, j) \in Int
      /\ regs.rbp = FrameAt(frames, j) /\ prog.limit <= regs.rsp
      /\ regs.rsp <= Floor(prog, frames, j)
  BY <1>1, <1>2, WhileInside
<1>4. CASE instr[1] = "lea"
  <2> DEFINE slots == prog.slots[frames[j].fn]
  <2>1. PICK x \in DOMAIN slots : /\ instr[2] = -slots[x].offset
                                  /\ SizeOf(slots[x].typ) \in Nat /\ n <= SizeOf(slots[x].typ)
    BY <1>4 DEF Rax, Names
  <2>2. PICK v : v = <<FrameAt(frames, j) - slots[x].offset, SizeOf(slots[x].typ)>>
    OBVIOUS
  <2>3. v \in InReach(prog, frames, j)
    BY <2>2 DEF InReach
  <2>4. /\ v[1] \in Int /\ v[2] \in Nat /\ v[1] + v[2] <= Memory
        /\ v[1] = FrameAt(frames, j) - slots[x].offset /\ v[2] = SizeOf(slots[x].typ)
    BY <1>1, <1>3, <2>2, <2>3, ReachFacts
  <2>5. /\ slots[x].offset \in Nat /\ slots[x].offset <= prog.frame[frames[j].fn]
        /\ prog.frame[frames[j].fn] \in Nat /\ FrameAt(frames, j) \in Int
        /\ Floor(prog, frames, j) = FrameAt(frames, j) - prog.frame[frames[j].fn]
    <3>1. frames[j].fn \in DOMAIN prog.entry /\ FrameAt(frames, j) \in Int
      BY <1>1, <1>3, CallFacts
    <3> QED
      BY <1>1, <3>1 DEF Ready, Floor
  <2>6. regs'.rax = Wrap(regs.rbp + instr[2])
    <3>1. Set("rax", Wrap(regs.rbp + instr[2]))
      BY <1>4 DEF Move
    <3> QED
      BY <1>1, <3>1 DEF Set, RegsOK, Registers
  <2>7. regs.rbp + instr[2] = v[1] /\ 0 <= v[1]
    <3> DEFINE o == slots[x].offset
               b == FrameAt(frames, j)
    <3>1. o \in Nat /\ b \in Int /\ v[1] = b - o /\ regs.rbp = b /\ instr[2] = -o
      BY <1>3, <2>1, <2>4, <2>5
    <3> HIDE DEF o, b
    <3>2. regs.rbp + instr[2] = v[1]
      BY <3>1
    <3>3. o <= prog.frame[frames[j].fn] /\ Floor(prog, frames, j) = b - prog.frame[frames[j].fn]
      BY <2>5 DEF o, b
    <3>4. 0 <= v[1]
      <4>1. prog.frame[frames[j].fn] \in Nat /\ 0 <= Floor(prog, frames, j)
        BY <1>3, <2>5
      <4> QED
        BY <3>1, <3>3, <4>1
    <3> QED
      BY <3>2, <3>4
  <2> HIDE DEF slots, j
  <2>8. v[1] \in 0 .. Word - 1
    BY <2>4, <2>7, Ranges, <1>1
  <2>9. regs'.rax = v[1]
    BY <2>6, <2>7, <2>8, WrapSame
  <2>10. v[1] <= regs'.rax /\ regs'.rax + n <= v[1] + v[2]
    BY <2>1, <2>4, <2>9
  <2> QED
    BY <2>3, <2>10
<1>5. CASE instr[1] = "lea_rip"
  <2>1. PICK g \in ToSet(prog.source.globals) :
          instr[2] = g.name /\ SizeOf(GlobalType(g)) \in Nat /\ n <= SizeOf(GlobalType(g))
    BY <1>5 DEF Rax, Names
  <2>2. PICK v : v = <<prog.symbol[g.name], SizeOf(GlobalType(g))>>
    OBVIOUS
  <2>3. v \in prog.extents
    <3>1. PICK p \in Sources : prog = Assembled(p)
      BY <1>1 DEF MachineInv
    <3>2. prog.source = p
      BY <3>1, Fields
    <3> DEFINE A == Assembled(p)
    <3>3. A.extents = {<<A.symbol[x.name], SizeOf(GlobalType(x))>> : x \in ToSet(p.globals)}
      BY DataFields DEF A
    <3> HIDE DEF A
    <3>4. prog = A
      BY <3>1 DEF A
    <3> QED
      BY <2>1, <2>2, <3>2, <3>3, <3>4
  <2>4. regs'.rax = v[1]
    <3>1. Set("rax", prog.symbol[instr[2]])
      BY <1>5 DEF Move
    <3>2. regs'.rax = prog.symbol[instr[2]]
      BY <1>1, <3>1 DEF Set, RegsOK, Registers
    <3> QED
      BY <2>1, <2>2, <3>2
  <2>5. v[1] \in Nat /\ v[2] \in Nat /\ v[2] = SizeOf(GlobalType(g))
    BY <1>1, <2>2, <2>3 DEF Ready
  <2>6. v[1] <= regs'.rax /\ regs'.rax + n <= v[1] + v[2]
    BY <2>1, <2>4, <2>5
  <2> QED
    BY <2>3, <2>6 DEF InReach
<1> QED
  BY <1>4, <1>5

\* A register is moved or set, or the address of a variable is taken.
LEMMA ShapedMove ==
  ASSUME NEW s, NEW own, Knowing(s, own), Move
  PROVE  Shaped(prog', s, own, pc', regs', mem', frames')
<1> DEFINE S == s[pc]
           T == s[pc']
           E == Names(prog, frames[Len(frames)].fn)
<1>1. /\ instr[1] \in {"mov", "mov_int", "lea", "lea_rip"}
      /\ pc' = pc + 1 /\ prog' = prog /\ frames' = frames /\ mem' = mem
  BY DEF Move, In, Skip
<1>2. /\ Flows(prog.text, D, pc) /\ instr = prog.text[pc] /\ RegsOK(regs) /\ MachineInv
  BY WhileRunning, Ranges DEF instr, Knowing
<1>3. /\ pc' \in 1 .. Len(prog.text) + 1 /\ pc' - pc \in Leaps(instr) /\ D[pc'] # -3
  BY <1>1, Follows
<1>4. S \in Shape /\ T \in Shape /\ Rax(E, instr, S, T[0]) /\ T[0] \in Nat
  <2>1. S \in Shape /\ T \in Shape /\ Rax(E, instr, S, T[0])
    BY <1>3, Ahead DEF Yields
  <2> QED
    BY <2>1 DEF Shape
<1> HIDE DEF E
<1>5. ASSUME instr[1] \in {"mov", "mov_int"}
      PROVE  Room(prog, frames, Len(frames), regs'.rax, T[0])
  <2>1. CASE T[0] = 0
    BY <2>1 DEF Room
  <2>2. CASE T[0] # 0
    <3>1. instr[3] # "rax" /\ T[0] <= S[0]
      BY <1>4, <1>5, <2>2, RaxAfter
    <3>2. PICK w : Set(instr[3], w)
      BY <1>5 DEF Move
    <3>3. regs'.rax = regs.rax
      BY <1>2, <3>1, <3>2 DEF Set, RegsOK, Registers
    <3> QED
      BY <1>4, <3>1, <3>3, RaxKept
  <2> QED
    BY <2>1, <2>2
<1>6. CASE instr[1] \in {"mov", "mov_int"} /\ instr[3] \in Data
  <2>1. regs'.rsp = regs.rsp /\ instr[3] \notin {"rsp", "rbp"}
    <3>1. PICK w : Set(instr[3], w)
      BY <1>6 DEF Move
    <3> QED
      BY <1>2, <1>6, <3>1 DEF Set, RegsOK, Registers, Data
  <2>2. \A k \in Nat \ {0} : WordAfter(instr, S, k) = S[k]
    BY <1>6, <2>1, SameWords
  <2> QED
    BY <1>1, <1>3, <1>5, <1>6, <2>1, <2>2, ShapedHere
<1>7. CASE instr[1] = "mov" /\ instr[3] \in {"rsp", "rbp"}
  <2>1. \A k \in Nat \ {0} : WordAfter(instr, S, k) = 0
    BY <1>7 DEF WordAfter
  <2> QED
    BY <1>1, <1>5, <1>7, <2>1, ShapedBare
<1>8. CASE instr[1] \in {"lea", "lea_rip"}
  <2>1. Room(prog, frames, Len(frames), regs'.rax, T[0])
    BY <1>4, <1>8, VariableRoom DEF E
  <2>2. \A k \in Nat \ {0} : WordAfter(instr, S, k) = S[k]
    BY <1>8, SameWords
  <2>3. regs'.rsp = regs.rsp
    <3>1. PICK w : Set("rax", w)
      BY <1>8 DEF Move
    <3> QED
      BY <1>2, <3>1 DEF Set, RegsOK, Registers
  <2> QED
    BY <1>1, <1>3, <2>1, <2>2, <2>3, ShapedHere
<1>9. \/ instr[1] \in {"mov", "mov_int"} /\ instr[3] \in Data
      \/ instr[1] = "mov" /\ instr[3] \in {"rsp", "rbp"}
      \/ instr[1] \in {"lea", "lea_rip"}
  <2>1. CASE instr[1] = "mov"
    BY <1>2, <2>1, StackFlows
  <2>2. CASE instr[1] = "mov_int"
    <3>1. Plain(instr)
      BY <1>2, <2>2, PlainFlows DEF PlainOps
    <3> QED
      BY <2>2, <3>1 DEF Plain
  <2> QED
    BY <1>1, <2>1, <2>2
<1> QED
  BY <1>6, <1>7, <1>8, <1>9

\* The numbers of a running function's stack.
LEMMA Numbers ==
  ASSUME NEW s, NEW own, Knowing(s, own)
  PROVE  LET n == Len(frames)
         IN /\ MachineInv /\ Running /\ Ready(prog, D) /\ Calls(prog, D, frames)
            /\ Flows(prog.text, D, pc) /\ instr = prog.text[pc] /\ RegsOK(regs) /\ MemOK(mem)
            /\ n \in 1 .. n /\ prog.limit \in Nat /\ frames[n].rsp \in Int
            /\ FrameAt(frames, n) \in Int /\ FrameAt(frames, n) = frames[n].rsp - 16
            /\ Floor(prog, frames, n) \in Int /\ Floor(prog, frames, n) <= FrameAt(frames, n)
            /\ prog.limit + 8 <= frames[n].rsp
            /\ regs.rsp \in Int /\ regs.rax \in Int /\ regs.rsp <= frames[n].rsp
            /\ D[pc] \in Int
<1> DEFINE n == Len(frames)
<1>1. /\ MachineInv /\ Running /\ Ready(prog, D) /\ Calls(prog, D, frames)
      /\ Flows(prog.text, D, pc) /\ instr = prog.text[pc] /\ RegsOK(regs) /\ MemOK(mem)
      /\ regs.rsp \in Int /\ regs.rax \in Int /\ D[pc] \in Int
      /\ Stack(prog, D, pc, regs, mem, frames)
  BY WhileRunning, Ranges DEF instr, Knowing
<1>2. /\ n \in 1 .. n /\ prog.limit \in Nat /\ frames[n].rsp \in Int
      /\ FrameAt(frames, n) \in Int /\ FrameAt(frames, n) = frames[n].rsp - 16
      /\ Floor(prog, frames, n) \in Int /\ Floor(prog, frames, n) <= FrameAt(frames, n)
      /\ prog.limit + 8 <= frames[n].rsp
  BY <1>1, CallFacts
<1>3. regs.rsp <= frames[n].rsp
  <2> DEFINE x == D[pc]
             b == FrameAt(frames, n)
             j == Floor(prog, frames, n)
             t == frames[n].rsp
  <2>1. x \in Int /\ b \in Int /\ j \in Int /\ t \in Int /\ b = t - 16 /\ j <= b
    BY <1>1, <1>2
  <2>2. \/ x >= 0 /\ regs.rsp + 8 * x <= j
        \/ regs.rsp = b \/ regs.rsp = t - 8
    BY <1>1 DEF Stack, Phase
  <2> HIDE DEF x, b, j, t
  <2>3. regs.rsp <= t
    BY <1>1, <2>1, <2>2
  <2> QED
    BY <2>3 DEF t
<1> QED
  BY <1>1, <1>2, <1>3

\* An address in rax is pushed as the address it is.
LEMMA ShapedPush ==
  ASSUME NEW s, NEW own, Knowing(s, own), Push
  PROVE  Shaped(prog', s, own, pc', regs', mem', frames')
<1> DEFINE n == Len(frames)
           S == s[pc]
           T == s[pc']
           t == regs.rsp
           u == regs.rsp - 8
           w == IF instr[1] = "push" THEN regs[instr[2]] ELSE Wrap(instr[2])
<1>1. /\ instr[1] \in {"push", "push_int"} /\ Reaches
      /\ pc' = pc + 1 /\ prog' = prog /\ frames' = frames
      /\ mem' = Put(mem, u, 8, w) /\ Set("rsp", u)
  BY DEF Push, In, Skip
<1>2. /\ MachineInv /\ Running /\ Ready(prog, D) /\ Calls(prog, D, frames)
      /\ Flows(prog.text, D, pc) /\ instr = prog.text[pc] /\ RegsOK(regs) /\ MemOK(mem)
      /\ n \in 1 .. n /\ t \in Int /\ regs.rax \in Int /\ t <= frames[n].rsp /\ D[pc] \in Int
      /\ frames[n].rsp \in Int /\ Memory \in Int
  BY Numbers, MemoryAssumption, ByteCases
<1>3. \/ instr[1] = "push" /\ instr[2] \in Registers /\ D[pc] >= 0
      \/ instr[1] = "push" /\ instr[2] = "rbp"
      \/ instr[1] = "push_int" /\ instr[2] \in Int
  BY <1>1, <1>2, StackFlows
<1>4. w \in 0 .. Word - 1
  <2>1. CASE instr[1] = "push"
    <3>1. instr[2] \in Registers
      BY <1>3, <2>1 DEF Registers
    <3> QED
      BY <1>2, <2>1, <3>1, Ranges
  <2>2. CASE instr[1] = "push_int"
    BY <1>3, <2>2, WrapInRange
  <2> QED
    BY <1>1, <2>1, <2>2
<1>5. u \in Int /\ u + 8 = t /\ 0 <= u /\ prog.limit <= u /\ u + 8 <= Memory
  <2>1. 0 <= u /\ prog.limit <= u
    BY <1>1, ReachesFacts
  <2>2. frames[n].rsp <= Memory
    BY <1>2, CallFacts
  <2> HIDE DEF n
  <2> QED
    BY <1>2, <2>1, <2>2
<1>6. KeptBut(mem, mem', u, 8) /\ HasWord(mem', u, w)
  <2>1. 8 \in 0 .. 8 /\ w \in Int /\ 8 = 8
    BY <1>2, <1>4, Ranges
  <2> HIDE DEF w
  <2> QED
    BY <1>1, <1>2, <1>5, <2>1, PutFacts
<1>7. regs'.rsp = u /\ regs'.rax = regs.rax
  BY <1>1, <1>2 DEF Set, RegsOK, Registers
<1>8. /\ pc' \in 1 .. Len(prog.text) + 1 /\ pc' - pc \in Leaps(instr) /\ D[pc'] # -3
  BY <1>1, Follows
<1>9. /\ S \in Shape /\ T \in Shape /\ Rax(Names(prog, frames[n].fn), instr, S, T[0])
      /\ \A k \in Nat \ {0} : T[k] <= WordAfter(instr, S, k)
  BY <1>8, Ahead DEF Yields
<1>10. \A k \in Nat : S[k] \in Nat /\ T[k] \in Nat
  BY <1>9 DEF Shape
<1>11. Room(prog, frames, n, regs'.rax, T[0])
  <2>1. T[0] <= S[0]
    BY <1>1, <1>9, <1>10, RaxAfter
  <2> QED
    BY <1>7, <1>9, <1>10, <2>1, RaxKept
<1>12. Room(prog, frames, n, regs.rax, S[0])
  BY DEF Knowing, Shaped
<1>13. WordAt(prog, frames, n, mem', u, T[1])
  <2>1. T[1] <= IF instr[1] = "push" /\ instr[2] = "rax" THEN S[0] ELSE 0
    BY <1>1, <1>9 DEF WordAfter
  <2>2. CASE instr[1] = "push" /\ instr[2] = "rax"
    <3>1. D[pc] >= 0
      BY <1>3, <2>2
    <3>2. t <= Floor(prog, frames, n)
      BY <1>2, <3>1, WhileInside
    <3>3. w = regs.rax
      BY <2>2
    <3>4. Room(prog, frames, n, w, T[1])
      BY <1>2, <1>10, <1>12, <2>1, <2>2, <3>3, RoomLess
    <3> HIDE DEF u, w, n
    <3> QED
      BY <1>4, <1>5, <1>6, <3>2, <3>4 DEF WordAt
  <2>3. CASE ~ (instr[1] = "push" /\ instr[2] = "rax")
    <3>1. ~ (T[1] > 0)
      BY <1>10, <2>1, <2>3
    <3> QED
      BY <3>1 DEF WordAt
  <2> QED
    BY <2>2, <2>3
<1>14. Pointed(prog, frames, n, S, mem, t)
  BY DEF Knowing, Shaped
<1> HIDE DEF S, T, w
<1>15. ASSUME NEW k \in Nat \ {0}
       PROVE  \/ T[k] = 0 \/ WordAt(prog, frames, n, mem', u + 8 * (k - 1), T[k])
              \/ \E j \in Nat \ {0} : /\ T[k] <= S[j] /\ u + 8 * k = t + 8 * j
                                      /\ mem' = mem \/ u + 8 <= t + 8 * (j - 1) \/ t + 8 * j <= u
  <2>1. CASE k = 1
    <3>1. u + 8 * (k - 1) = u
      BY <1>5, <2>1
    <3> QED
      BY <1>13, <2>1, <3>1
  <2>2. CASE k # 1
    <3>1. T[k] <= S[k - 1] /\ k - 1 \in Nat \ {0}
      BY <1>1, <1>9, <2>2 DEF WordAfter
    <3> HIDE DEF u, t
    <3>2. u + 8 * k = t + 8 * (k - 1) /\ u + 8 <= t + 8 * ((k - 1) - 1)
      BY <1>2, <1>5, <2>2
    <3> QED
      BY <3>1, <3>2
  <2> QED
    BY <2>1, <2>2
<1>16. Pointed(prog, frames, n, T, mem', u)
  <2> HIDE DEF u, t
  <2>1. 8 \in Nat /\ Ready(prog, D) /\ Calls(prog, D, frames) /\ n \in 1 .. n
        /\ S \in Shape /\ T \in Shape /\ t \in Int /\ u \in Int /\ KeptBut(mem, mem', u, 8)
    BY <1>2, <1>5, <1>6, <1>9
  <2>2. Carries(prog, frames, n, S, t, mem, T, u, mem', u, 8)
    BY <1>15 DEF Carries
  <2> QED
    BY <1>14, <2>1, <2>2, PointedFrom
<1>17. Room(prog, frames, Len(frames), regs'.rax, s[pc'][0])
  BY <1>11 DEF T
<1>18. Pointed(prog, frames, Len(frames), s[pc'], mem', regs'.rsp)
  BY <1>7, <1>16 DEF T
<1>19. u + 8 <= frames[Len(frames)].rsp /\ 8 \in Nat
  BY <1>2, <1>5
<1> HIDE DEF u, n
<1> QED
  BY <1>1, <1>5, <1>6, <1>8, <1>17, <1>18, <1>19, ShapedStep

\* A word that is popped is the address it was pushed as.
LEMMA ShapedPop ==
  ASSUME NEW s, NEW own, Knowing(s, own), Pop
  PROVE  Shaped(prog', s, own, pc', regs', mem', frames')
<1> DEFINE n == Len(frames)
           S == s[pc]
           T == s[pc']
           t == regs.rsp
           u == regs.rsp + 8
           a == frames[n].rsp
<1>1. /\ instr[1] = "pop" /\ Reaches
      /\ pc' = pc + 1 /\ prog' = prog /\ frames' = frames /\ mem' = mem
      /\ regs' = [regs EXCEPT !.rsp = u, ![instr[2]] = Bytes(t, 8)]
  BY DEF Pop, In, Skip
<1>2. /\ MachineInv /\ Running /\ Ready(prog, D) /\ Calls(prog, D, frames)
      /\ Flows(prog.text, D, pc) /\ instr = prog.text[pc] /\ RegsOK(regs) /\ MemOK(mem)
      /\ n \in 1 .. n /\ t \in Int /\ regs.rax \in Int /\ a \in Int
  BY Numbers
<1>3. /\ pc' \in 1 .. Len(prog.text) + 1 /\ pc' - pc \in Leaps(instr) /\ D[pc'] # -3
  BY <1>1, Follows
<1>4. /\ S \in Shape /\ T \in Shape /\ Rax(Names(prog, frames[n].fn), instr, S, T[0])
      /\ \A k \in Nat \ {0} : T[k] <= WordAfter(instr, S, k)
  BY <1>3, Ahead DEF Yields
<1>5. \A k \in Nat : S[k] \in Nat /\ T[k] \in Nat
  BY <1>4 DEF Shape
<1>6. \/ T[0] = 0 \/ (instr[2] = "rax" /\ T[0] <= S[1])
      \/ (instr[2] \notin {"rax", "rbp"} /\ T[0] <= S[0])
  BY <1>1, <1>4, <1>5, RaxAfter
<1>7. instr[2] \in Data \/ instr[2] = "rbp"
  BY <1>1, <1>2, StackFlows
<1>8. Pointed(prog, frames, n, S, mem, t)
  BY DEF Knowing, Shaped
<1>9. Room(prog, frames, n, regs'.rax, T[0])
  <2>1. CASE T[0] = 0
    BY <2>1 DEF Room
  <2>2. CASE instr[2] \notin {"rax", "rbp"} /\ T[0] <= S[0]
    <3>1. regs'.rax = regs.rax
      BY <1>1, <1>2, <2>2 DEF RegsOK, Registers
    <3> QED
      BY <1>4, <1>5, <2>2, <3>1, RaxKept
  <2>3. CASE instr[2] = "rax" /\ T[0] <= S[1] /\ T[0] # 0
    <3>1. S[1] > 0 /\ S[1] \in Nat /\ T[0] \in Nat
      BY <1>5, <2>3
    <3>2. WordAt(prog, frames, n, mem, t, S[1])
      <4>1. t + 8 * (1 - 1) = t /\ 1 \in Nat \ {0}
        BY <1>2
      <4>2. WordAt(prog, frames, n, mem, t + 8 * (1 - 1), S[1])
        BY <1>8, <4>1 DEF Pointed
      <4> QED
        BY <4>1, <4>2
    <3>3. PICK w \in 0 .. Word - 1 : HasWord(mem, t, w) /\ Room(prog, frames, n, w, S[1])
      BY <3>1, <3>2 DEF WordAt
    <3>4. Bytes(t, 8) = w
      <4>1. 0 <= t /\ t + 8 <= Memory
        BY <1>1, ReachesFacts
      <4>2. 8 \in 0 .. 8 /\ 8 = 8
        OBVIOUS
      <4> QED
        BY <1>2, <3>3, <4>1, <4>2, BytesFacts
    <3>5. regs'.rax = w
      BY <1>1, <1>2, <2>3, <3>4 DEF RegsOK, Registers
    <3>6. w \in Int
      BY ByteCases
    <3> QED
      BY <1>2, <2>3, <3>1, <3>3, <3>5, <3>6, RoomLess
  <2> QED
    BY <1>6, <2>1, <2>2, <2>3
<1> HIDE DEF S, T
<1>10. CASE instr[2] = "rbp"
  <2>1. \A k \in Nat \ {0} : WordAfter(instr, s[pc], k) = 0
    BY <1>1, <1>10 DEF WordAfter
  <2>2. Room(prog, frames, Len(frames), regs'.rax, s[pc'][0])
    BY <1>9 DEF T
  <2> QED
    BY <1>1, <2>1, <2>2, ShapedBare
<1>11. CASE instr[2] \in Data
  <2>1. regs'.rsp = u
    BY <1>1, <1>2, <1>11 DEF RegsOK, Registers, Data
  <2>2. ASSUME NEW k \in Nat \ {0}
        PROVE  \E j \in Nat \ {0} : T[k] <= S[j] /\ u + 8 * k = t + 8 * j /\ mem' = mem
    <3>1. WordAfter(instr, S, k) = S[k + 1]
      BY <1>1, <1>11 DEF WordAfter, Data
    <3>2. T[k] <= S[k + 1] /\ k + 1 \in Nat \ {0}
      BY <1>4, <3>1
    <3>3. u + 8 * k = t + 8 * (k + 1)
      BY <1>2
    <3> QED
      BY <1>1, <3>2, <3>3
  <2>3. KeptBut(mem, mem', a, 0) /\ 0 \in Nat /\ a + 0 <= a /\ u \in Int
    BY <1>1, <1>2 DEF KeptBut
  <2> HIDE DEF u, t, a
  <2>4. Carries(prog, frames, n, S, t, mem, T, u, mem', a, 0)
    BY <2>2 DEF Carries
  <2>5. Pointed(prog, frames, n, T, mem', u)
    BY <1>2, <1>4, <1>8, <2>3, <2>4, PointedFrom
  <2>6. Room(prog, frames, Len(frames), regs'.rax, s[pc'][0])
    BY <1>9 DEF T
  <2>7. Pointed(prog, frames, Len(frames), s[pc'], mem', regs'.rsp)
    BY <2>1, <2>5 DEF T
  <2>8. a + 0 <= frames[Len(frames)].rsp
    BY <2>3 DEF a
  <2> HIDE DEF n
  <2> QED
    BY <1>1, <1>2, <1>3, <2>3, <2>6, <2>7, <2>8, ShapedStep
<1> QED
  BY <1>7, <1>10, <1>11

\* The stack is moved by whole words, or not at all.
LEMMA ShapedArith ==
  ASSUME NEW s, NEW own, Knowing(s, own), Arith
  PROVE  Shaped(prog', s, own, pc', regs', mem', frames')
<1> DEFINE n == Len(frames)
           S == s[pc]
           T == s[pc']
           t == regs.rsp
           u == regs.rsp + instr[2]
           a == frames[n].rsp
<1>1. /\ instr[1] \in {"add", "add_int", "sub", "and", "neg"} /\ Reaches
      /\ pc' = pc + 1 /\ prog' = prog /\ frames' = frames /\ mem' = mem
  BY DEF Arith, In, Skip
<1>2. /\ MachineInv /\ Running /\ Ready(prog, D) /\ Calls(prog, D, frames)
      /\ Flows(prog.text, D, pc) /\ instr = prog.text[pc] /\ RegsOK(regs) /\ MemOK(mem)
      /\ n \in 1 .. n /\ t \in Int /\ regs.rax \in Int /\ a \in Int
  BY Numbers
<1>3. /\ pc' \in 1 .. Len(prog.text) + 1 /\ pc' - pc \in Leaps(instr) /\ D[pc'] # -3
  BY <1>1, Follows
<1>4. /\ S \in Shape /\ T \in Shape /\ Rax(Names(prog, frames[n].fn), instr, S, T[0])
      /\ \A k \in Nat \ {0} : T[k] <= WordAfter(instr, S, k)
  BY <1>3, Ahead DEF Yields
<1>5. \A k \in Nat : S[k] \in Nat /\ T[k] \in Nat
  BY <1>4 DEF Shape
<1>6. CASE instr[1] # "add_int"
  <2>1. PICK w : Set("rax", w)
    BY <1>1, <1>6 DEF Arith
  <2>2. regs'.rsp = regs.rsp
    BY <1>2, <2>1 DEF Set, RegsOK, Registers
  <2> QED
    BY <1>1, <1>6, <2>2, ShapedData
<1>7. ASSUME instr[1] = "add_int"
      PROVE  /\ Set(instr[3], Wrap(regs[instr[3]] + instr[2])) /\ instr[2] \in Int
             /\ instr[3] \in Data \/ instr[3] = "rsp"
             /\ \/ T[0] = 0 \/ (instr[3] = "rsp" /\ T[0] <= S[0])
                \/ instr[2] \in Nat /\ instr[3] = "rax" /\ T[0] + instr[2] <= S[0]
  <2>1. Set(instr[3], Wrap(regs[instr[3]] + instr[2]))
    BY <1>7 DEF Arith
  <2>2. instr[2] \in Int /\ (instr[3] \in Data \/ instr[3] = "rsp")
    BY <1>2, <1>7, StackFlows
  <2>3. \/ T[0] = 0 \/ (instr[3] = "rsp" /\ T[0] <= S[0])
        \/ instr[2] \in Nat /\ instr[3] = "rax" /\ T[0] + instr[2] <= S[0]
    BY <1>4, <1>5, <1>7, RaxAfter
  <2> QED
    BY <2>1, <2>2, <2>3
<1>8. CASE instr[1] = "add_int" /\ instr[3] \in Data
  <2>1. regs'.rsp = regs.rsp /\ instr[3] \notin {"rsp", "rbp"}
    BY <1>2, <1>7, <1>8 DEF Set, RegsOK, Registers, Data
  <2>2. \A k \in Nat \ {0} : WordAfter(instr, S, k) = S[k]
    BY <1>8, <2>1, SameWords
  <2>3. Room(prog, frames, n, regs'.rax, T[0])
    <3>1. CASE T[0] = 0
      BY <3>1 DEF Room
    <3>2. CASE instr[2] \in Nat /\ instr[3] = "rax" /\ T[0] + instr[2] <= S[0] /\ T[0] # 0
      <4>1. S[0] > 0 /\ T[0] > 0
        BY <1>5, <3>2
      <4>2. PICK v \in InReach(prog, frames, n) : v[1] <= regs.rax /\ regs.rax + S[0] <= v[1] + v[2]
        BY <4>1 DEF Knowing, Shaped, Room
      <4>3. v[1] \in Int /\ v[2] \in Nat /\ v[1] + v[2] <= Memory
        BY <1>2, ReachFacts
      <4>4. regs'.rax = Wrap(regs.rax + instr[2])
        BY <1>2, <1>7, <1>8, <3>2 DEF Set, RegsOK, Registers
      <4> DEFINE x == regs.rax
                 k == instr[2]
                 y == T[0]
                 z == S[0]
      <4>5. /\ x \in 0 .. Word - 1 /\ x \in Int /\ k \in Nat /\ y \in Nat /\ z \in Nat /\ y > 0
            /\ y + k <= z /\ x + z <= v[1] + v[2] /\ v[1] <= x /\ Memory < Word /\ Memory \in Nat
            /\ Word \in Nat
        BY <1>2, <1>5, <3>2, <4>1, <4>2, Ranges DEF Registers
      <4> HIDE DEF x, k, y, z
      <4>6. x + k \in 0 .. Word - 1 /\ v[1] <= x + k /\ (x + k) + y <= v[1] + v[2]
        BY <4>3, <4>5
      <4>7. regs'.rax = x + k
        BY <4>4, <4>6, WrapSame DEF x, k
      <4> QED
        BY <4>6, <4>7 DEF Room, y
    <3> QED
      BY <1>7, <1>8, <2>1, <3>1, <3>2
  <2> QED
    BY <1>1, <1>3, <2>1, <2>2, <2>3, ShapedHere
<1>9. CASE instr[1] = "add_int" /\ instr[3] = "rsp"
  <2>1. /\ regs'.rsp = Wrap(u) /\ regs'.rax = regs.rax
        /\ instr[2] \in Int /\ u \in Int
    <3>1. instr[2] \in Int /\ Set("rsp", Wrap(u))
      BY <1>7, <1>9
    <3>2. u \in Int
      BY <1>2, <3>1
    <3> HIDE DEF u
    <3>3. regs'.rsp = Wrap(u) /\ regs'.rax = regs.rax
      BY <1>2, <3>1 DEF Set, RegsOK, Registers
    <3> QED
      BY <3>1, <3>2, <3>3
  <2>2. u \in 0 .. Word - 1
    <3>1. prog.limit <= u /\ u <= Memory
      BY <1>1, <1>9, ReachesFacts
    <3>2. prog.limit \in Nat
      BY Numbers
    <3> HIDE DEF u
    <3> QED
      BY <1>2, <2>1, <3>1, <3>2, Ranges
  <2>3. regs'.rsp = u
    BY <2>1, <2>2, WrapSame
  <2>4. Room(prog, frames, n, regs'.rax, T[0])
    <3>1. CASE T[0] = 0
      BY <3>1 DEF Room
    <3>2. CASE T[0] <= S[0]
      BY <1>4, <1>5, <2>1, <3>2, RaxKept
    <3> QED
      BY <1>7, <1>9, <3>1, <3>2
  <2>5. ASSUME NEW k \in Nat \ {0}, T[k] # 0
        PROVE  \E j \in Nat \ {0} : T[k] <= S[j] /\ u + 8 * k = t + 8 * j /\ mem' = mem
    <3>1. T[k] <= IF \E w \in Int : instr[2] = 8 * w /\ k + w >= 1
                  THEN S[k + instr[2] \div 8] ELSE 0
      BY <1>4, <1>9 DEF WordAfter
    <3>2. PICK w \in Int : instr[2] = 8 * w /\ k + w >= 1
      BY <1>5, <2>5, <3>1
    <3>3. (8 * w) \div 8 = w
      BY Z3
    <3>4. T[k] <= S[k + w] /\ k + w \in Nat \ {0}
      BY <3>1, <3>2, <3>3
    <3>5. u + 8 * k = t + 8 * (k + w)
      BY <1>2, <3>2
    <3> QED
      BY <1>1, <3>4, <3>5
  <2>6. KeptBut(mem, mem', a, 0) /\ 0 \in Nat /\ a + 0 <= a
    BY <1>1, <1>2 DEF KeptBut
  <2> HIDE DEF u, t, a, S, T
  <2>7. Carries(prog, frames, n, S, t, mem, T, u, mem', a, 0)
    BY <2>5 DEF Carries
  <2>8. Pointed(prog, frames, n, S, mem, t)
    BY DEF Knowing, Shaped, S, t
  <2>9. Pointed(prog, frames, n, T, mem', u)
    BY <1>2, <1>4, <2>1, <2>6, <2>7, <2>8, PointedFrom
  <2>10. Room(prog, frames, Len(frames), regs'.rax, s[pc'][0])
    BY <2>4 DEF T
  <2>11. Pointed(prog, frames, Len(frames), s[pc'], mem', regs'.rsp)
    BY <2>3, <2>9 DEF T
  <2>12. a + 0 <= frames[Len(frames)].rsp
    BY <2>6 DEF a
  <2> HIDE DEF n
  <2> QED
    BY <1>1, <1>2, <1>3, <2>6, <2>10, <2>11, <2>12, ShapedStep
<1> QED
  BY <1>1, <1>6, <1>7, <1>8, <1>9

\* The address of a store is that of a variable, with room for what is stored.
LEMMA StoreHasRoom ==
  ASSUME NEW s, NEW own, Knowing(s, own), instr[1] = "store"
  PROVE  /\ instr[2] \in {1, 4, 8} /\ instr[3] \in Registers /\ D[pc] >= 0
         /\ instr[2] <= s[pc][0]
         /\ \E v \in InReach(prog, frames, Len(frames)) :
              v[1] <= regs.rax /\ regs.rax + instr[2] <= v[1] + v[2]
<1> DEFINE n == Len(frames)
<1>1. /\ MachineInv /\ Running /\ Ready(prog, D) /\ Calls(prog, D, frames)
      /\ Flows(prog.text, D, pc) /\ instr = prog.text[pc]
      /\ n \in 1 .. n /\ regs.rax \in Int
  BY Numbers
<1>2. instr[2] \in {1, 4, 8} /\ instr[3] \in Registers /\ D[pc] >= 0
  <2>1. Plain(instr) /\ D[pc] >= 0
    BY <1>1, PlainFlows DEF PlainOps
  <2> QED
    BY <2>1 DEF Plain
<1>3. instr[2] <= s[pc][0] /\ s[pc][0] \in Nat
  <2>1. Fits(prog.text[pc], s[pc]) /\ s[pc] \in Shape
    BY <1>1, WhileRunning DEF Knowing, TextShapes
  <2> QED
    BY <1>1, <2>1 DEF Fits, Shape
<1>4. instr[2] \in Nat /\ instr[2] > 0
  BY <1>2
<1>5. Room(prog, frames, n, regs.rax, instr[2])
  <2>1. Room(prog, frames, n, regs.rax, s[pc][0])
    BY DEF Knowing, Shaped
  <2> QED
    BY <1>1, <1>3, <1>4, <2>1, RoomLess
<1> QED
  BY <1>2, <1>3, <1>4, <1>5 DEF Room

\* What is stored in a variable meets no operand, and an argument that is put in
\* its place those only that it replaces.
LEMMA ShapedStore ==
  ASSUME NEW s, NEW own, Knowing(s, own), Store
  PROVE  Shaped(prog', s, own, pc', regs', mem', frames')
<1> DEFINE n == Len(frames)
           S == s[pc]
           T == s[pc']
           t == regs.rsp
           top == frames[n].rsp
           low == Floor(prog, frames, n)
<1>1. /\ instr[1] \in {"store", "spill"} /\ Reaches
      /\ mem' = Put(mem, Access[1], Access[2],
                    IF instr[1] = "store" THEN regs[instr[3]] ELSE regs.rax)
      /\ pc' = pc + 1 /\ prog' = prog /\ frames' = frames /\ regs' = regs
  BY DEF Store, In, Skip
<1>2. /\ MachineInv /\ Running /\ Ready(prog, D) /\ Calls(prog, D, frames)
      /\ Flows(prog.text, D, pc) /\ instr = prog.text[pc] /\ RegsOK(regs) /\ MemOK(mem)
      /\ n \in 1 .. n /\ t \in Int /\ regs.rax \in Int /\ top \in Int /\ low \in Int
      /\ FrameAt(frames, n) = top - 16 /\ low <= FrameAt(frames, n)
      /\ prog.limit + 8 <= top /\ prog.limit \in Nat /\ D[pc] \in Int
  BY Numbers
<1>3. /\ pc' \in 1 .. Len(prog.text) + 1 /\ pc' - pc \in Leaps(instr) /\ D[pc'] # -3
  BY <1>1, Follows
<1>4. /\ S \in Shape /\ T \in Shape /\ Rax(Names(prog, frames[n].fn), instr, S, T[0])
      /\ \A k \in Nat \ {0} : T[k] <= WordAfter(instr, S, k)
  BY <1>3, Ahead DEF Yields
<1>5. \A k \in Nat : S[k] \in Nat /\ T[k] \in Nat
  BY <1>4 DEF Shape
<1>6. Room(prog, frames, Len(frames), regs'.rax, s[pc'][0])
  <2>1. T[0] <= S[0]
    BY <1>1, <1>4, <1>5, RaxAfter
  <2> QED
    BY <1>1, <1>4, <1>5, <2>1, RaxKept
<1>7. Pointed(prog, frames, n, S, mem, t)
  BY DEF Knowing, Shaped
<1>8. ASSUME NEW a \in Int, NEW l \in 0 .. 8, NEW x \in Int, mem' = Put(mem, a, l, x), a + l <= top,
             \A k \in Nat \ {0} : T[k] # 0 =>
               T[k] <= S[k] /\ (a + l <= t + 8 * (k - 1) \/ t + 8 * k <= a)
      PROVE  Shaped(prog', s, own, pc', regs', mem', frames')
  <2>1. KeptBut(mem, mem', a, l)
    BY <1>2, <1>8, PutFacts
  <2> HIDE DEF S, T, t
  <2>2. ASSUME NEW k \in Nat \ {0}
        PROVE  \/ T[k] = 0 \/ WordAt(prog, frames, n, mem', t + 8 * (k - 1), T[k])
               \/ \E j \in Nat \ {0} : /\ T[k] <= S[j] /\ t + 8 * k = t + 8 * j
                                       /\ mem' = mem \/ a + l <= t + 8 * (j - 1) \/ t + 8 * j <= a
    BY <1>8
  <2>3. Carries(prog, frames, n, S, t, mem, T, t, mem', a, l)
    BY <2>2 DEF Carries
  <2>4. l \in Nat
    BY <1>8
  <2>5. Pointed(prog, frames, n, T, mem', t)
    BY <1>2, <1>4, <1>7, <2>1, <2>3, <2>4, PointedFrom
  <2>6. Pointed(prog, frames, Len(frames), s[pc'], mem', regs'.rsp)
    BY <1>1, <2>5 DEF T, t
  <2>7. a + l <= frames[Len(frames)].rsp
    BY <1>8
  <2> QED
    BY <1>1, <1>3, <1>6, <2>1, <2>4, <2>6, <2>7, ShapedStep
<1>9. CASE instr[1] = "store"
  <2> DEFINE a == regs.rax
             l == instr[2]
  <2>1. l \in {1, 4, 8} /\ instr[3] \in Registers
    BY <1>9, StoreHasRoom
  <2>2. PICK v \in InReach(prog, frames, n) : v[1] <= a /\ a + l <= v[1] + v[2]
    BY <1>9, StoreHasRoom
  <2>3. /\ v[1] \in Int /\ v[2] \in Nat
        /\ v[1] + v[2] <= prog.limit \/ (low <= v[1] /\ v[1] + v[2] <= FrameAt(frames, n))
    BY <1>2, ReachFacts
  <2>4. mem' = Put(mem, a, l, regs[instr[3]])
    BY <1>1, <1>9 DEF Access
  <2>5. regs[instr[3]] \in Int
    <3>1. regs[instr[3]] \in 0 .. Word - 1
      BY <1>2, <2>1, Ranges
    <3> QED
      BY <3>1, ByteCases
  <2>6. a \in Int /\ l \in 0 .. 8 /\ l \in Nat
    BY <1>2, <2>1
  <2>7. ASSUME NEW k \in Nat \ {0}, T[k] # 0
        PROVE  T[k] <= S[k] /\ (a + l <= t + 8 * (k - 1) \/ t + 8 * k <= a)
    <3>1. T[k] <= S[k]
      BY <1>4, <1>9, SameWords
    <3>2. S[k] > 0
      BY <1>5, <2>7, <3>1
    <3> DEFINE b == t + 8 * (k - 1)
    <3>3. prog.limit <= b /\ b + 8 <= low
      BY <1>7, <3>2 DEF Pointed, WordAt
    <3>4. b \in Int /\ t + 8 * k = b + 8
      BY <1>2
    <3> HIDE DEF b, a, l, low, t, n
    <3>5. a + l <= b \/ b + 8 <= a
      BY <1>2, <2>2, <2>3, <2>6, <3>3, <3>4
    <3> QED
      BY <3>1, <3>4, <3>5 DEF b
  <2>8. a + l <= top
    <3> HIDE DEF a, l, low, top
    <3>1. FrameAt(frames, n) \in Int
      BY <1>2
    <3> QED
      BY <1>2, <2>2, <2>3, <2>6, <3>1
  <2> HIDE DEF a, l, S, T, t
  <2> QED
    BY <1>8, <2>4, <2>5, <2>6, <2>7, <2>8
<1>10. CASE instr[1] = "spill"
  <2> DEFINE a == t + instr[2]
  <2>1. instr[2] \in Nat /\ instr[2] + 8 <= 8 * D[pc]
    BY <1>2, <1>10, StackFlows
  <2>2. D[pc] >= 0
    BY <1>2, <2>1
  <2>3. t + 8 * D[pc] <= low
    BY <1>2, <2>2, WhileInside
  <2>4. a \in Int /\ a + 8 <= top
    <3> DEFINE y == 8 * D[pc]
               o == instr[2]
    <3>1. y \in Int /\ o \in Nat /\ o + 8 <= y /\ t + y <= low /\ a = t + o
      BY <1>2, <2>1, <2>3
    <3> HIDE DEF y, o, a, low, top, t
    <3>2. low <= top - 16
      BY <1>2
    <3> QED
      BY <1>2, <3>1, <3>2
  <2>5. mem' = Put(mem, a, 8, regs.rax)
    BY <1>1, <1>10 DEF Access
  <2>6. ASSUME NEW k \in Nat \ {0}, T[k] # 0
        PROVE  T[k] <= S[k] /\ (a + 8 <= t + 8 * (k - 1) \/ t + 8 * k <= a)
    <3>1. T[k] <= IF instr[2] \in Int /\ (8 * k <= instr[2] \/ instr[2] + 16 <= 8 * k)
                  THEN S[k] ELSE 0
      BY <1>4, <1>10 DEF WordAfter
    <3>2. T[k] <= S[k] /\ (8 * k <= instr[2] \/ instr[2] + 16 <= 8 * k)
      BY <1>5, <2>6, <3>1
    <3> DEFINE o == instr[2]
    <3>3. o \in Nat /\ a = t + o
      BY <2>1
    <3> HIDE DEF o, a, t
    <3>4. a + 8 <= t + 8 * (k - 1) \/ t + 8 * k <= a
      <4>1. 8 * k <= o \/ o + 16 <= 8 * k
        BY <3>2 DEF o
      <4> QED
        BY <1>2, <3>3, <4>1
    <3> QED
      BY <3>2, <3>4
  <2>7. 8 \in 0 .. 8
    OBVIOUS
  <2> HIDE DEF a, S, T, t
  <2> QED
    BY <1>2, <1>8, <2>4, <2>5, <2>6, <2>7
<1> QED
  BY <1>1, <1>9, <1>10

\* What a function can reach depends on its own frame only.
LEMMA SameFrame ==
  ASSUME NEW A, NEW f, NEW g, NEW i, f[i] = g[i], NEW S, NEW m, NEW t, Pointed(A, f, i, S, m, t)
  PROVE  Pointed(A, g, i, S, m, t)
<1>1. FrameAt(f, i) = FrameAt(g, i)
  BY DEF FrameAt
<1>2. Floor(A, f, i) = Floor(A, g, i)
  BY <1>1 DEF Floor
<1>3. InReach(A, f, i) = InReach(A, g, i)
  BY <1>1 DEF InReach
<1>4. ASSUME NEW w, NEW n, Room(A, f, i, w, n) PROVE Room(A, g, i, w, n)
  BY <1>3, <1>4 DEF Room
<1>5. ASSUME NEW a, NEW n, WordAt(A, f, i, m, a, n) PROVE WordAt(A, g, i, m, a, n)
  BY <1>2, <1>4, <1>5 DEF WordAt
<1> QED
  BY <1>5 DEF Pointed

\* Where nothing is known nothing has to be so.
LEMMA NothingPointed ==
  ASSUME NEW S \in Shape, Le(S, Blank)
  PROVE  \A A, f, i, m, t, w : Room(A, f, i, w, S[0]) /\ Pointed(A, f, i, S, m, t)
<1>1. \A k \in Nat : ~ (S[k] > 0)
  BY DEF Le, Blank, Shape
<1> QED
  BY <1>1 DEF Room, Pointed, WordAt

\* Whoever is called, the operands stay, and nothing is known of what is returned.
LEMMA CallPointed ==
  ASSUME NEW s, NEW own, Knowing(s, own), instr[1] = "call", Reaches,
         mem' = Put(mem, regs.rsp - 8, 8, pc + 1)
  PROVE  LET n == Len(frames)
         IN /\ pc + 1 \in 1 .. Len(prog.text) + 1 /\ (pc + 1) - pc \in Leaps(instr) /\ D[pc + 1] # -3
            /\ own[pc + 1] = frames[n].fn /\ s[pc + 1] \in Shape /\ s[pc + 1][0] = 0
            /\ Pointed(prog, frames, n, s[pc + 1], mem', regs.rsp)
            /\ Callers(prog, s, own, mem', frames)
            /\ regs.rsp - 8 \in Int /\ KeptBut(mem, mem', regs.rsp - 8, 8)
            /\ (regs.rsp - 8) + 8 <= frames[n].rsp
<1> DEFINE n == Len(frames)
           S == s[pc]
           T == s[pc + 1]
           t == regs.rsp
           a == regs.rsp - 8
<1>1. /\ MachineInv /\ Running /\ Ready(prog, D) /\ Calls(prog, D, frames)
      /\ n \in 1 .. n /\ t \in Int /\ t <= frames[n].rsp
  BY Numbers
<1>2. KeptBut(mem, mem', a, 8)
  BY <1>1, CallWrites
<1>3. /\ pc + 1 \in 1 .. Len(prog.text) + 1 /\ (pc + 1) - pc \in Leaps(instr) /\ D[pc + 1] # -3
  BY Follows
<1>4. /\ S \in Shape /\ T \in Shape /\ Rax(Names(prog, frames[n].fn), instr, S, T[0])
      /\ own[pc + 1] = frames[n].fn
      /\ \A k \in Nat \ {0} : T[k] <= WordAfter(instr, S, k)
  BY <1>3, Ahead DEF Yields
<1>5. T[0] = 0
  <2>1. T[0] \in Nat
    BY <1>4 DEF Shape
  <2> QED
    BY <1>4, <2>1, RaxAfter
<1>6. a \in Int /\ a + 8 = t /\ 8 \in Nat /\ a + 8 <= frames[n].rsp
  BY <1>1
<1>7. ASSUME NEW k \in Nat \ {0}
      PROVE  \E j \in Nat \ {0} : T[k] <= S[j] /\ t + 8 * k = t + 8 * j /\ a + 8 <= t + 8 * (j - 1)
  <2>1. T[k] <= S[k]
    BY <1>4, SameWords
  <2> HIDE DEF a, t
  <2>2. a + 8 <= t + 8 * (k - 1)
    BY <1>1, <1>6
  <2> QED
    BY <2>1, <2>2
<1>8. Pointed(prog, frames, n, S, mem, t)
  BY DEF Knowing, Shaped
<1>9. TextShapes(prog, D, s, own) /\ Callers(prog, s, own, mem, frames)
  BY DEF Knowing, Shaped
<1> HIDE DEF S, T, t, a
<1>10. Carries(prog, frames, n, S, t, mem, T, t, mem', a, 8)
  BY <1>7 DEF Carries
<1>11. Pointed(prog, frames, n, T, mem', t)
  BY <1>1, <1>2, <1>4, <1>6, <1>8, <1>10, PointedFrom
<1>12. Callers(prog, s, own, mem', frames)
  BY <1>1, <1>2, <1>6, <1>9, CallersKept
<1> QED
  BY <1>2, <1>3, <1>4, <1>5, <1>6, <1>11, <1>12 DEF T, t, a

\* An external function gives nothing that is known.
LEMMA ShapedExternal ==
  ASSUME NEW s, NEW own, Knowing(s, own), CallExternal
  PROVE  Shaped(prog', s, own, pc', regs', mem', frames')
<1>1. /\ instr[1] = "call" /\ Reaches /\ mem' = Put(mem, regs.rsp - 8, 8, pc + 1)
      /\ pc' = pc + 1 /\ prog' = prog /\ frames' = frames
  BY DEF CallExternal, In, Skip
<1>2. regs'.rsp = regs.rsp
  <2>1. RegsOK(regs)
    BY Ranges DEF Knowing
  <2>2. PICK v : regs' = [r \in DOMAIN regs |-> CASE r = "rax" -> v
                                                  [] r \in {"rsp", "rbp"} -> regs[r] [] OTHER -> Junk]
    BY DEF CallExternal
  <2> QED
    BY <2>1, <2>2 DEF RegsOK, Registers
<1>3. /\ pc' \in 1 .. Len(prog.text) + 1 /\ pc' - pc \in Leaps(instr) /\ D[pc'] # -3
      /\ s[pc'][0] = 0
      /\ Pointed(prog, frames, Len(frames), s[pc'], mem', regs'.rsp)
      /\ regs.rsp - 8 \in Int /\ KeptBut(mem, mem', regs.rsp - 8, 8)
      /\ (regs.rsp - 8) + 8 <= frames[Len(frames)].rsp
  BY <1>1, <1>2, CallPointed
<1>4. Room(prog, frames, Len(frames), regs'.rax, s[pc'][0])
  BY <1>3 DEF Room
<1>5. 8 \in Nat
  OBVIOUS
<1> QED
  BY <1>1, <1>3, <1>4, <1>5, ShapedStep

\* A function starts with nothing known; its caller will find its operands again.
LEMMA ShapedCall ==
  ASSUME NEW s, NEW own, Knowing(s, own), Call
  PROVE  Shaped(prog', s, own, pc', regs', mem', frames')
<1> DEFINE n == Len(frames)
           h == instr[2]
           x == [ret |-> pc + 1, rsp |-> regs.rsp, rbp |-> regs.rbp, fn |-> h]
           g == frames'
<1>1. /\ instr[1] = "call" /\ Reaches /\ mem' = Put(mem, regs.rsp - 8, 8, pc + 1)
      /\ h \in DOMAIN prog.entry /\ g = Append(frames, x)
      /\ pc' = prog.entry[h] /\ prog' = prog
  BY DEF Call, In
<1>2. /\ Ready(prog, D) /\ Calls(prog, D, frames) /\ n \in 1 .. n /\ n \in Nat /\ IsSeq(frames)
  <2>1. Ready(prog, D) /\ Calls(prog, D, frames) /\ n \in 1 .. n
    BY Numbers
  <2> QED
    BY <2>1 DEF Calls
<1>3. /\ x.ret = pc + 1 /\ x.rsp = regs.rsp /\ x.fn = h
  OBVIOUS
<1> HIDE DEF x, g
<1>4. Len(g) = n + 1 /\ g[n + 1] = x /\ \A i \in 1 .. n : g[i] = frames[i]
  BY <1>1, <1>2, Appended
<1>5. /\ own[pc + 1] = frames[n].fn /\ s[pc + 1][0] = 0
      /\ Pointed(prog, frames, n, s[pc + 1], mem', regs.rsp)
      /\ Callers(prog, s, own, mem', frames)
  BY <1>1, CallPointed
<1>6. own[pc'] = h /\ Le(s[pc'], Blank) /\ s[pc'] \in Shape
  <2>1. TextShapes(prog, D, s, own)
    BY DEF Knowing
  <2>2. TextDepths(prog, D) /\ Len(prog.text) \in Nat
    BY <1>2, DepthFacts DEF Ready
  <2>3. pc' \in 1 .. Len(prog.text)
    <3>1. pc' + 2 \in 1 .. Len(prog.text) /\ pc' \in Nat /\ 1 <= pc'
      BY <1>1, <2>2 DEF TextDepths
    <3> QED
      BY <2>2, <3>1
  <2> QED
    BY <1>1, <2>1, <2>3 DEF TextShapes
<1>7. Callers(prog, s, own, mem', g)
  <2> SUFFICES ASSUME NEW i \in 1 .. (n + 1) - 1
               PROVE  LET q == g[i + 1].ret
                      IN /\ own[q] = g[i].fn /\ s[q][0] = 0
                         /\ Pointed(prog, g, i, s[q], mem', g[i + 1].rsp)
    BY <1>4 DEF Callers
  <2> HIDE DEF n
  <2>1. i \in 1 .. n /\ g[i] = frames[i]
    BY <1>2, <1>4
  <2>2. CASE i = n
    <3>1. g[i + 1].ret = pc + 1 /\ g[i + 1].rsp = regs.rsp
      BY <1>3, <1>4, <2>2
    <3>2. Pointed(prog, g, i, s[pc + 1], mem', regs.rsp)
      BY <1>5, <2>1, <2>2, SameFrame DEF n
    <3> QED
      BY <1>5, <2>1, <2>2, <3>1, <3>2 DEF n
  <2>3. CASE i # n
    <3>1. i \in 1 .. n - 1 /\ i + 1 \in 1 .. n
      BY <1>2, <2>1, <2>3
    <3>2. g[i + 1] = frames[i + 1]
      BY <1>4, <3>1
    <3> DEFINE q == frames[i + 1].ret
    <3>3. /\ own[q] = frames[i].fn /\ s[q][0] = 0
          /\ Pointed(prog, frames, i, s[q], mem', frames[i + 1].rsp)
      BY <1>5, <3>1 DEF Callers, n
    <3> HIDE DEF q
    <3>4. Pointed(prog, g, i, s[q], mem', frames[i + 1].rsp)
      BY <2>1, <3>3, SameFrame
    <3> QED
      BY <2>1, <3>2, <3>3, <3>4 DEF q
  <2> QED
    BY <2>2, <2>3
<1>8. Room(prog, g, n + 1, regs'.rax, s[pc'][0]) /\ Pointed(prog, g, n + 1, s[pc'], mem', regs'.rsp)
  BY <1>6, NothingPointed
<1> HIDE DEF n
<1>9. Shaped(prog, s, own, pc', regs', mem', g)
  BY <1>3, <1>4, <1>6, <1>7, <1>8 DEF Shaped
<1> QED
  BY <1>1, <1>9 DEF g

\* The caller finds its operands again.
LEMMA ShapedReturn ==
  ASSUME NEW s, NEW own, Knowing(s, own), Return, Running'
  PROVE  Shaped(prog', s, own, pc', regs', mem', frames')
<1> DEFINE n == Len(frames)
           g == frames'
           q == frames[n].ret
<1>1. prog' = prog /\ mem' = mem /\ g = Front(frames)
  BY DEF Return
<1>2. Ready(prog, D) /\ Calls(prog, D, frames) /\ IsSeq(frames)
  <2>1. Ready(prog, D) /\ Calls(prog, D, frames)
    BY Numbers
  <2> QED
    BY <2>1 DEF Calls
<1>3. n \in Nat /\ n \in 1 .. n /\ pc' = q /\ regs'.rsp = frames[n].rsp
  BY ReturnsRight DEF Knowing
<1> HIDE DEF g
<1>4. n > 1
  <2>1. pc' \in DOMAIN prog.text
    BY <1>1 DEF Running
  <2>2. DOMAIN prog.text = 1 .. Len(prog.text)
    BY <1>2, DepthFacts
  <2>3. pc' # EXIT
    BY <2>1, <2>2 DEF EXIT
  <2>4. n # 1
    BY <1>2, <1>3, <2>3 DEF Calls
  <2> HIDE DEF n
  <2> QED
    BY <1>3, <2>4
<1>5. Len(g) = n - 1 /\ \A i \in 1 .. n - 1 : g[i] = frames[i]
  BY <1>1, <1>2, <1>4, Fronted
<1>6. Callers(prog, s, own, mem, frames)
  BY DEF Knowing, Shaped
<1>7. n - 1 \in 1 .. n - 1 /\ (n - 1) + 1 = n
  BY <1>3, <1>4
<1>8. /\ own[q] = frames[n - 1].fn /\ s[q][0] = 0
      /\ Pointed(prog, frames, n - 1, s[q], mem, frames[n].rsp)
  BY <1>6, <1>7 DEF Callers
<1> HIDE DEF q
<1>9. Pointed(prog, g, n - 1, s[q], mem, frames[n].rsp) /\ g[n - 1] = frames[n - 1]
  BY <1>5, <1>7, <1>8, SameFrame
<1>10. Room(prog, g, n - 1, regs'.rax, s[q][0])
  BY <1>8 DEF Room
<1>11. Callers(prog, s, own, mem, g)
  <2> SUFFICES ASSUME NEW i \in 1 .. (n - 1) - 1
               PROVE  LET r == g[i + 1].ret
                      IN /\ own[r] = g[i].fn /\ s[r][0] = 0
                         /\ Pointed(prog, g, i, s[r], mem, g[i + 1].rsp)
    BY <1>5 DEF Callers
  <2> DEFINE r == frames[i + 1].ret
  <2>1. i \in 1 .. n - 1 /\ i + 1 \in 1 .. n - 1
    BY <1>3
  <2>2. g[i] = frames[i] /\ g[i + 1] = frames[i + 1]
    BY <1>5, <2>1
  <2>3. own[r] = frames[i].fn /\ s[r][0] = 0 /\ Pointed(prog, frames, i, s[r], mem, frames[i + 1].rsp)
    BY <1>6, <2>1 DEF Callers
  <2> HIDE DEF r
  <2>4. Pointed(prog, g, i, s[r], mem, frames[i + 1].rsp)
    BY <2>2, <2>3, SameFrame
  <2> QED
    BY <2>2, <2>3, <2>4 DEF r
<1> HIDE DEF n
<1>12. Shaped(prog, s, own, q, regs', mem, g)
  BY <1>3, <1>5, <1>8, <1>9, <1>10, <1>11 DEF Shaped, n
<1> QED
  BY <1>1, <1>3, <1>12 DEF g

-----------------------------------------------------------------------------
\* The inductive invariant of programs that store through names.
NamedInv == MachineInv /\ (Running => \E s, own : Knowing(s, own))

\* Every instruction keeps what is known.
LEMMA ShapedNext ==
  ASSUME NEW s, NEW own, Knowing(s, own), Next, Running'
  PROVE  Shaped(prog', s, own, pc', regs', mem', frames')
<1>1. ~ Fault
  <2> SUFFICES ASSUME Fault PROVE FALSE
    OBVIOUS
  <2>1. prog' = prog /\ pc' = FAULT
    BY DEF Fault
  <2>2. DOMAIN prog.text = 1 .. Len(prog.text)
    BY DepthFacts, Numbers
  <2> QED
    BY <2>1, <2>2 DEF Running, FAULT
<1> QED
  BY <1>1, ShapedPush, ShapedPop, ShapedMove, ShapedLoad, ShapedStore, ShapedArith, ShapedProduct,
     ShapedCmp, ShapedSetByte, ShapedJump, ShapedCall, ShapedExternal, ShapedReturn DEF Next

\* main starts with nothing known.
LEMMA NamedInit ==
  ASSUME Init, StoresByName(prog.source)
  PROVE  NamedInv
<1>1. MachineInv
  BY InitInv
<1>2. ASSUME Running PROVE \E s, own : Knowing(s, own)
  <2>1. Ready(prog, D) /\ ~ Refused /\ pc \in 1 .. Len(prog.text)
    BY <1>1, <1>2, WhileRunning
  <2>2. PICK p \in Sources : prog = Assembled(p)
    BY <1>1 DEF MachineInv
  <2>3. prog.source = p
    BY <2>2, Fields
  <2>4. StoresByName(p) /\ Ready(Assembled(p), D)
    BY <2>1, <2>2, <2>3
  <2>5. PICK s, own : TextShapes(Assembled(p), D, s, own)
    BY <2>4, TextHasShapes
  <2>6. TextShapes(prog, D, s, own)
    BY <2>2, <2>5
  <2>7. /\ pc = prog.entry["main"] /\ "main" \in DOMAIN prog.entry
        /\ frames = <<[ret |-> EXIT, rsp |-> Memory, rbp |-> 0, fn |-> "main"]>>
    BY <2>1 DEF Init, Ready
  <2>8. own[pc] = "main" /\ Le(s[pc], Blank) /\ s[pc] \in Shape
    BY <2>1, <2>6, <2>7 DEF TextShapes
  <2>9. Len(frames) = 1 /\ frames[1].fn = "main"
    <3> DEFINE x == [ret |-> EXIT, rsp |-> Memory, rbp |-> 0, fn |-> "main"]
    <3>1. x.fn = "main"
      OBVIOUS
    <3> HIDE DEF x
    <3> QED
      BY <2>7, <3>1, One DEF x
  <2>10. /\ Room(prog, frames, 1, regs.rax, s[pc][0])
         /\ Pointed(prog, frames, 1, s[pc], mem, regs.rsp)
    BY <2>8, NothingPointed
  <2>11. Callers(prog, s, own, mem, frames)
    <3>1. \A i \in 1 .. 1 - 1 : FALSE
      OBVIOUS
    <3> QED
      BY <2>9, <3>1 DEF Callers
  <2>12. Shaped(prog, s, own, pc, regs, mem, frames)
    BY <2>8, <2>9, <2>10, <2>11 DEF Shaped
  <2> QED
    BY <1>1, <1>2, <2>6, <2>12 DEF Knowing
<1> QED
  BY <1>1, <1>2 DEF NamedInv

\* What is stored is stored in a variable.
LEMMA NamedStore ==
  ASSUME NamedInv
  PROVE  StoresInVariables
<1> SUFFICES ASSUME Running, instr[1] = "store"
             PROVE  \E v \in Variables : v[1] <= regs.rax /\ regs.rax + instr[2] <= v[1] + v[2]
  BY DEF StoresInVariables, In
<1> DEFINE n == Len(frames)
<1>1. PICK s, own : Knowing(s, own)
  BY DEF NamedInv
<1>2. PICK v \in InReach(prog, frames, n) : v[1] <= regs.rax /\ regs.rax + instr[2] <= v[1] + v[2]
  BY <1>1, StoreHasRoom
<1>3. MachineInv /\ D[pc] >= 0
  BY <1>1, StoreHasRoom, Numbers
<1>4. n \in 1 .. n /\ regs.rbp = FrameAt(frames, n) /\ IsSeq(frames)
  <2>1. Calls(prog, D, frames)
    BY <1>3, WhileRunning
  <2> QED
    BY <1>3, <2>1, WhileInside DEF Calls
<1>5. Base(n) = FrameAt(frames, n) /\ n \in DOMAIN frames
  BY <1>4, SeqFacts DEF Base
<1>6. v \in Variables
  <2> DEFINE slots(i) == prog.slots[frames[i].fn]
             Of(i) == {<<Base(i) - slots(i)[x].offset, SizeOf(slots(i)[x].typ)>> : x \in DOMAIN slots(i)}
  <2>1. Variables = prog.extents \cup UNION {Of(i) : i \in DOMAIN frames}
    BY DEF Variables
  <2>2. InReach(prog, frames, n) = prog.extents \cup Of(n)
    BY <1>5 DEF InReach
  <2> HIDE DEF Of
  <2> QED
    BY <1>2, <1>5, <2>1, <2>2
<1> QED
  BY <1>2, <1>6

\* The invariant is kept: what is stored in a variable harms no address.
LEMMA NamedNext ==
  ASSUME NamedInv, [Next]_vars
  PROVE  NamedInv'
<1>1. MachineInv'
  BY NamedStore, NextInv DEF NamedInv
<1>2. CASE Next
  <2> SUFFICES ASSUME Running' PROVE \E s, own : Knowing(s, own)'
    BY <1>1 DEF NamedInv
  <2>1. Running /\ prog' = prog
    BY <1>2 DEF Next, Push, Pop, Move, Load, Store, Arith, Multiply, Divide, Cmp, SetByte,
                Jump, Call, CallExternal, Return, Fault, In, Skip
  <2>2. PICK s, own : Knowing(s, own)
    BY <2>1 DEF NamedInv
  <2>3. Shaped(prog', s, own, pc', regs', mem', frames')
    BY <1>2, <2>2, ShapedNext
  <2>4. D' = D
    BY <2>1 DEF D
  <2>5. TextShapes(prog', D', s, own)
    BY <2>1, <2>2, <2>4 DEF Knowing
  <2>6. Knowing(s, own)'
    BY <1>1, <2>3, <2>5 DEF Knowing
  <2> QED
    BY <2>6
<1>3. CASE UNCHANGED vars
  <2>1. /\ prog' = prog /\ pc' = pc /\ regs' = regs /\ mem' = mem /\ frames' = frames
    BY <1>3 DEF vars
  <2>2. D' = D /\ Running' = Running
    BY <2>1 DEF D, Running
  <2> SUFFICES ASSUME Running PROVE \E s, own : Knowing(s, own)'
    BY <1>1, <2>2 DEF NamedInv
  <2>3. PICK s, own : Knowing(s, own)
    BY DEF NamedInv
  <2>4. Knowing(s, own)'
    BY <1>1, <2>1, <2>2, <2>3 DEF Knowing
  <2> QED
    BY <2>4
<1> QED
  BY <1>2, <1>3

\* In a program that stores through the names of variables only, nothing is ever
\* stored on an operand, a saved register or a return address.
THEOREM NamedStores == Spec /\ StoresByName(prog.source) => []StoresInVariables
<1>1. Init /\ StoresByName(prog.source) => NamedInv
  BY NamedInit
<1>2. NamedInv /\ [Next]_vars => NamedInv'
  BY NamedNext
<1>3. NamedInv => StoresInVariables
  BY NamedStore
<1> QED
  BY <1>1, <1>2, <1>3, PTL DEF Spec

\* Of such a program nothing need be assumed: its state keeps its types, a pop takes
\* what was pushed, and every function returns behind its call, with the stack and
\* the frame pointer its caller had.
THEOREM NamedProgramsRunRight ==
  Spec /\ StoresByName(prog.source) => []TypeOK /\ []PopsOperands /\ ReturnsToCaller
BY NamedStores, TypeCorrect, OperandsArePopped, FunctionsReturn, PTL
=============================================================================
