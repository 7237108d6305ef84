---------------------------- MODULE MachineProofs ----------------------------
(***************************************************************************)
(* For every program: the code of ValueCode keeps the stack of Machine in  *)
(* order.                                                                  *)
(*                                                                         *)
(* Each instruction of a function has a depth, the number of operands it   *)
(* finds on the stack at least.  The depths of a tree's code follow from   *)
(* those of its parts (CodeKeepsStack: an expression leaves one word, a    *)
(* statement none), those of a function from those of its tree, and those  *)
(* of the text from those of its functions (TextHasDepths).  What a depth  *)
(* says of the registers and the memory is an invariant of the machine     *)
(* (MachineInv): return addresses and frame pointers lie where the active  *)
(* functions put them, and the operands between them and the stack         *)
(* pointer.  It needs one thing of the program itself: what it stores      *)
(* through a pointer it stores in a variable (StoresInVariables).          *)
(***************************************************************************)
EXTENDS Machine, WellFoundedInduction, TLAPS

-----------------------------------------------------------------------------
\* Induction and recursion over the numbers.

\* A set of numbers with 0 and the successors of its members has them all.
LEMMA SetInduction ==
  ASSUME NEW S, S \subseteq Nat, 0 \in S, \A n \in S : n + 1 \in S
  PROVE  S = Nat
<1> DEFINE R == OpToRel(<, Nat)
<1> DEFINE T == Nat \ S
<1>1. SUFFICES ASSUME T # {} PROVE FALSE
  OBVIOUS
<1>2. IsWellFoundedOn(R, Nat)
  BY NatLessThanWellFounded, Zenon
<1>3. T \subseteq Nat
  OBVIOUS
<1> HIDE DEF R, T
<1>4. PICK x \in T : \A y \in T : ~ (<<y, x>> \in R)
  BY <1>1, <1>2, <1>3, WFMin, Zenon
<1>5. \A y, z \in Nat : y < z => <<y, z>> \in R
  BY DEF R, OpToRel
<1>6. x \in Nat /\ x \notin S
  BY <1>4 DEF T
<1>7. x - 1 \in Nat /\ x - 1 < x
  BY <1>6
<1>8. <<x - 1, x>> \in R
  BY <1>5, <1>6, <1>7
<1>9. x - 1 \notin T
  BY <1>4, <1>8
<1>10. x - 1 \in S
  BY <1>7, <1>9 DEF T
<1>11. (x - 1) + 1 = x
  BY <1>6
<1>12. x \in S
  BY <1>10, <1>11
<1> QED
  BY <1>6, <1>12

\* The sums of a sequence of numbers exist.
LEMMA SumsExist ==
  ASSUME NEW s, NEW n \in Nat
  PROVE  \E f : f = [i \in 0 .. n |-> IF i = 0 THEN 0 ELSE f[i - 1] + s[i]]
<1> DEFINE Sums(f, m) == f = [i \in 0 .. m |-> IF i = 0 THEN 0 ELSE f[i - 1] + s[i]]
<1> DEFINE S == {m \in Nat : \E f : Sums(f, m)}
<1>1. 0 \in S
  <2> DEFINE g == [i \in 0 .. 0 |-> 0]
  <2>1. Sums(g, 0)
    OBVIOUS
  <2> QED
    BY <2>1
<1>2. ASSUME NEW m \in S PROVE m + 1 \in S
  <2>1. PICK f : Sums(f, m)
    OBVIOUS
  <2> DEFINE g == [i \in 0 .. m + 1 |-> IF i = m + 1 THEN f[m] + s[m + 1] ELSE f[i]]
  <2>2. ASSUME NEW i \in 0 .. m + 1
        PROVE  g[i] = IF i = 0 THEN 0 ELSE g[i - 1] + s[i]
    <3>1. CASE i = m + 1
      <4>1. i - 1 = m /\ m \in 0 .. m + 1 /\ m # m + 1 /\ i # 0
        BY <3>1
      <4> QED
        BY <3>1, <4>1
    <3>2. CASE i # m + 1 /\ i # 0
      <4>1. i \in 0 .. m /\ i - 1 \in 0 .. m + 1 /\ i - 1 # m + 1
        BY <3>2
      <4>2. f[i] = f[i - 1] + s[i]
        BY <2>1, <3>2, <4>1
      <4> QED
        BY <3>2, <4>1, <4>2
    <3>3. CASE i = 0
      <4>1. i \in 0 .. m /\ i # m + 1
        BY <3>3
      <4>2. f[0] = 0
        BY <2>1, <3>3, <4>1
      <4> QED
        BY <3>3, <4>1, <4>2
    <3> QED
      BY <3>1, <3>2, <3>3
  <2>3. Sums(g, m + 1)
    <3> HIDE DEF g
    <3>1. g = [i \in 0 .. m + 1 |-> g[i]]
      BY DEF g
    <3> QED
      BY <2>2, <3>1
  <2> HIDE DEF Sums, g
  <2> QED
    BY <2>3
<1> HIDE DEF Sums
<1>3. S = Nat
  BY <1>1, <1>2, SetInduction
<1> QED
  BY <1>3 DEF Sums

\* PartialSum adds one element after the other.
LEMMA PartialSumStep ==
  ASSUME NEW s
  PROVE  /\ PartialSum(s, 0) = 0
         /\ \A n \in Nat : PartialSum(s, n + 1) = PartialSum(s, n) + s[n + 1]
<1> DEFINE F(n) == CHOOSE f : f = [i \in 0 .. n |-> IF i = 0 THEN 0 ELSE f[i - 1] + s[i]]
<1>1. \A n \in Nat : PartialSum(s, n) = F(n)[n]
  BY DEF PartialSum
<1>2. \A n \in Nat : F(n) = [i \in 0 .. n |-> IF i = 0 THEN 0 ELSE F(n)[i - 1] + s[i]]
  BY SumsExist
<1> HIDE DEF F
<1>3. \A n \in Nat : F(n)[0] = 0 /\ \A i \in 1 .. n : F(n)[i] = F(n)[i - 1] + s[i]
  <2> SUFFICES ASSUME NEW n \in Nat
               PROVE  F(n)[0] = 0 /\ \A i \in 1 .. n : F(n)[i] = F(n)[i - 1] + s[i]
    OBVIOUS
  <2>1. \A i \in 0 .. n : F(n)[i] = IF i = 0 THEN 0 ELSE F(n)[i - 1] + s[i]
    BY <1>2
  <2> QED
    BY <2>1
<1>4. \A n \in Nat : \A i \in 0 .. n : F(n)[i] = F(n + 1)[i]
  <2> SUFFICES ASSUME NEW n \in Nat PROVE \A i \in 0 .. n : F(n)[i] = F(n + 1)[i]
    OBVIOUS
  <2> DEFINE S == {i \in Nat : i <= n => F(n)[i] = F(n + 1)[i]}
  <2>1. 0 \in S
    BY <1>3
  <2>2. ASSUME NEW i \in S PROVE i + 1 \in S
    <3> SUFFICES ASSUME i + 1 <= n PROVE F(n)[i + 1] = F(n + 1)[i + 1]
      OBVIOUS
    <3>1. i + 1 \in 1 .. n /\ i + 1 \in 1 .. n + 1 /\ (i + 1) - 1 = i /\ n + 1 \in Nat
      OBVIOUS
    <3>2. F(n)[i + 1] = F(n)[i] + s[i + 1] /\ F(n + 1)[i + 1] = F(n + 1)[i] + s[i + 1]
      BY <1>3, <3>1
    <3> QED
      BY <3>2
  <2>3. S = Nat
    BY <2>1, <2>2, SetInduction
  <2> QED
    BY <2>3
<1>5. ASSUME NEW n \in Nat
      PROVE  PartialSum(s, n + 1) = PartialSum(s, n) + s[n + 1]
  <2>1. F(n + 1)[n + 1] = F(n + 1)[n] + s[n + 1]
    <3>1. n + 1 \in 1 .. n + 1 /\ (n + 1) - 1 = n /\ n + 1 \in Nat
      OBVIOUS
    <3> QED
      BY <1>3, <3>1
  <2> QED
    BY <1>1, <1>4, <2>1
<1> QED
  BY <1>1, <1>3, <1>5

-----------------------------------------------------------------------------
\* Sequences.

IsSeq(s) == s \in Seq(Range(s))

\* A sequence over some set is one over its own values.
LEMMA SeqHasRange ==
  ASSUME NEW U, NEW s \in Seq(U)
  PROVE  IsSeq(s)
<1>1. PICK n \in Nat : s \in [1 .. n -> U]
  OBVIOUS
<1>2. DOMAIN s = 1 .. n /\ s = [i \in 1 .. n |-> s[i]]
  BY <1>1
<1>3. s \in [1 .. n -> Range(s)]
  BY <1>2 DEF Range
<1> QED
  BY <1>3 DEF IsSeq

\* A sequence is a function on the numbers up to its length.
LEMMA SeqFacts ==
  ASSUME NEW s, IsSeq(s)
  PROVE  /\ Len(s) \in Nat /\ DOMAIN s = 1 .. Len(s)
         /\ s = [i \in 1 .. Len(s) |-> s[i]]
<1>1. s \in Seq(Range(s))
  BY DEF IsSeq
<1> HIDE DEF Range
<1> QED
  BY <1>1

\* ... and such a function is a sequence.
LEMMA FunctionIsSeq ==
  ASSUME NEW n \in Nat, NEW f, f = [i \in 1 .. n |-> f[i]]
  PROVE  IsSeq(f) /\ Len(f) = n
<1>1. DOMAIN f = 1 .. n
  OBVIOUS
<1>2. f \in [1 .. n -> Range(f)]
  BY <1>1 DEF Range
<1> QED
  BY <1>2 DEF IsSeq

\* Where the items of s \o t come from.
LEMMA Concat ==
  ASSUME NEW s, IsSeq(s), NEW t, IsSeq(t)
  PROVE  /\ IsSeq(s \o t) /\ Len(s \o t) = Len(s) + Len(t)
         /\ \A i \in 1 .. Len(s) : (s \o t)[i] = s[i]
         /\ \A i \in 1 .. Len(t) : (s \o t)[Len(s) + i] = t[i]
<1> DEFINE U == Range(s) \cup Range(t)
<1>1. s \in Seq(Range(s)) /\ t \in Seq(Range(t))
  BY DEF IsSeq
<1>2. Range(s) \subseteq U /\ Range(t) \subseteq U
  OBVIOUS
<1> HIDE DEF U
<1>3. s \in Seq(U) /\ t \in Seq(U)
  <2>1. \A V : V \subseteq U => Seq(V) \subseteq Seq(U)
    OBVIOUS
  <2> QED
    BY <1>1, <1>2, <2>1
<1>4. s \o t \in Seq(U)
  BY <1>3
<1>5. IsSeq(s \o t)
  BY <1>4, SeqHasRange
<1> QED
  BY <1>3, <1>5

\* Sequences with the same items are the same.
LEMMA SameSeq ==
  ASSUME NEW s, IsSeq(s), NEW t, IsSeq(t), Len(s) = Len(t),
         \A i \in 1 .. Len(s) : s[i] = t[i]
  PROVE  s = t
<1>1. s = [i \in 1 .. Len(s) |-> s[i]] /\ t = [i \in 1 .. Len(s) |-> t[i]]
  BY SeqFacts
<1> QED
  BY <1>1

\* \o is associative.
LEMMA ConcatAssoc ==
  ASSUME NEW s, IsSeq(s), NEW t, IsSeq(t), NEW u, IsSeq(u)
  PROVE  (s \o t) \o u = s \o (t \o u)
<1> DEFINE l == (s \o t) \o u
           r == s \o (t \o u)
<1>1. Len(s) \in Nat /\ Len(t) \in Nat /\ Len(u) \in Nat
  BY SeqFacts
<1>2. IsSeq(s \o t) /\ IsSeq(t \o u) /\ Len(s \o t) = Len(s) + Len(t)
      /\ Len(t \o u) = Len(t) + Len(u)
  BY Concat
<1>3. IsSeq(l) /\ IsSeq(r) /\ Len(l) = Len(s) + Len(t) + Len(u) /\ Len(r) = Len(l)
  BY <1>1, <1>2, Concat
<1>4. ASSUME NEW i \in 1 .. Len(l) PROVE l[i] = r[i]
  <2>1. CASE i \in 1 .. Len(s)
    <3>1. i \in 1 .. Len(s \o t)
      BY <1>1, <1>2, <2>1
    <3>2. l[i] = (s \o t)[i]
      BY <1>2, <3>1, Concat
    <3>3. r[i] = s[i]
      BY <1>2, <2>1, Concat
    <3> QED
      BY <2>1, <3>2, <3>3, Concat
  <2>2. CASE i \in Len(s) + 1 .. Len(s) + Len(t)
    <3>1. i \in 1 .. Len(s \o t) /\ i - Len(s) \in 1 .. Len(t) /\ i = Len(s) + (i - Len(s))
          /\ i - Len(s) \in 1 .. Len(t \o u)
      BY <1>1, <1>2, <2>2
    <3>2. l[i] = (s \o t)[i]
      BY <1>2, <3>1, Concat
    <3>3. r[i] = (t \o u)[i - Len(s)]
      BY <1>2, <3>1, Concat
    <3>4. (t \o u)[i - Len(s)] = t[i - Len(s)]
      BY <3>1, Concat
    <3>5. (s \o t)[i] = t[i - Len(s)]
      BY <3>1, Concat
    <3> QED
      BY <3>2, <3>3, <3>4, <3>5
  <2>3. CASE i \in Len(s) + Len(t) + 1 .. Len(l)
    <3> DEFINE k == i - Len(s) - Len(t)
    <3>1. k \in 1 .. Len(u) /\ i = Len(s \o t) + k /\ Len(t) + k \in 1 .. Len(t \o u)
          /\ i = Len(s) + (Len(t) + k)
      BY <1>1, <1>2, <1>3, <2>3
    <3> HIDE DEF k
    <3>2. l[i] = u[k]
      BY <1>2, <3>1, Concat
    <3>3. r[i] = (t \o u)[Len(t) + k]
      BY <1>2, <3>1, Concat
    <3>4. (t \o u)[Len(t) + k] = u[k]
      BY <3>1, Concat
    <3> QED
      BY <3>2, <3>3, <3>4
  <2>4. Len(l) \in Nat
    BY <1>1, <1>3
  <2> QED
    BY <1>1, <1>3, <2>1, <2>2, <2>3, <2>4
<1> HIDE DEF l, r
<1>5. l = r
  BY <1>3, <1>4, SameSeq
<1> QED
  BY <1>5 DEF l, r

\* The function FlattenSeq chooses exists.
LEMMA FlattenSteps ==
  ASSUME NEW s, NEW n \in Nat, n > 0
  PROVE  \E f : f = [i \in 1 .. n |-> IF i = 1 THEN s[i] ELSE f[i - 1] \o s[i]]
<1> DEFINE Levels(f, m) == f = [i \in 1 .. m |-> IF i = 1 THEN s[i] ELSE f[i - 1] \o s[i]]
<1> DEFINE S == {m \in Nat : \E f : Levels(f, m + 1)}
<1>1. 0 \in S
  <2> DEFINE g == [i \in 1 .. 1 |-> s[i]]
  <2>1. Levels(g, 0 + 1)
    OBVIOUS
  <2> QED
    BY <2>1
<1>2. ASSUME NEW m \in S PROVE m + 1 \in S
  <2>1. PICK f : Levels(f, m + 1)
    OBVIOUS
  <2> DEFINE g == [i \in 1 .. m + 2 |-> IF i = m + 2 THEN f[m + 1] \o s[m + 2] ELSE f[i]]
  <2>2. ASSUME NEW i \in 1 .. m + 2
        PROVE  g[i] = IF i = 1 THEN s[i] ELSE g[i - 1] \o s[i]
    <3>1. CASE i = m + 2
      <4>1. i - 1 = m + 1 /\ m + 1 \in 1 .. m + 2 /\ m + 1 # m + 2 /\ i # 1
        BY <3>1
      <4> QED
        BY <3>1, <4>1
    <3>2. CASE i # m + 2 /\ i # 1
      <4>1. i \in 1 .. m + 1 /\ i - 1 \in 1 .. m + 2 /\ i - 1 # m + 2
        BY <3>2
      <4>2. f[i] = f[i - 1] \o s[i]
        BY <2>1, <3>2, <4>1
      <4> QED
        BY <3>2, <4>1, <4>2
    <3>3. CASE i = 1
      <4>1. i \in 1 .. m + 1 /\ i # m + 2
        BY <3>3
      <4>2. f[1] = s[1]
        BY <2>1, <3>3, <4>1
      <4> QED
        BY <3>3, <4>1, <4>2
    <3> QED
      BY <3>1, <3>2, <3>3
  <2>3. Levels(g, (m + 1) + 1)
    <3>1. g = [i \in 1 .. m + 2 |-> g[i]]
      OBVIOUS
    <3> HIDE DEF g
    <3>2. (m + 1) + 1 = m + 2
      OBVIOUS
    <3> QED
      BY <2>2, <3>1, <3>2
  <2> HIDE DEF Levels, g
  <2> QED
    BY <2>3
<1> HIDE DEF Levels
<1>3. S = Nat
  BY <1>1, <1>2, SetInduction
<1>4. \E f : Levels(f, n)
  <2> HIDE DEF S
  <2>1. n - 1 \in S /\ (n - 1) + 1 = n
    BY <1>3
  <2> QED
    BY <2>1 DEF S
<1> QED
  BY <1>4 DEF Levels

\* FlattenSeq appends one sequence after the other.
LEMMA FlattenLevels ==
  ASSUME NEW s, IsSeq(s), \A i \in 1 .. Len(s) : IsSeq(s[i])
  PROVE  \E l : /\ l = [i \in 0 .. Len(s) |-> l[i]]
                /\ \A i \in 0 .. Len(s) : IsSeq(l[i])
                /\ l[0] = <<>> /\ FlattenSeq(s) = l[Len(s)]
                /\ \A i \in 1 .. Len(s) : l[i] = l[i - 1] \o s[i]
<1> DEFINE n == Len(s)
<1>1. n \in Nat
  BY SeqFacts
<1>2. IsSeq(<<>>) /\ Len(<<>>) = 0
  <2>1. <<>> \in Seq({})
    OBVIOUS
  <2> QED
    BY <2>1, SeqHasRange
<1>3. CASE n = 0
  <2>1. s = <<>>
    <3>1. s = [i \in 1 .. 0 |-> s[i]]
      BY <1>3, SeqFacts
    <3>2. s \in Seq(Range(s))
      BY DEF IsSeq
    <3> QED
      BY <1>2, <1>3, SameSeq
  <2>2. FlattenSeq(s) = <<>>
    BY <1>3, <2>1 DEF FlattenSeq
  <2> DEFINE l == [i \in 0 .. 0 |-> <<>>]
  <2>3. /\ l = [i \in 0 .. n |-> l[i]]
        /\ \A i \in 0 .. n : IsSeq(l[i])
        /\ l[0] = <<>> /\ FlattenSeq(s) = l[n]
        /\ \A i \in 1 .. n : l[i] = l[i - 1] \o s[i]
    BY <1>2, <1>3, <2>2
  <2> QED
    BY <2>3
<1>4. CASE n > 0
  <2> DEFINE F == CHOOSE f : f = [i \in 1 .. n |-> IF i = 1 THEN s[i] ELSE f[i - 1] \o s[i]]
  <2>1. FlattenSeq(s) = F[n]
    BY <1>4 DEF FlattenSeq
  <2>2. F = [i \in 1 .. n |-> IF i = 1 THEN s[i] ELSE F[i - 1] \o s[i]]
    BY <1>1, <1>4, FlattenSteps
  <2> HIDE DEF F
  <2>3. F[1] = s[1] /\ \A i \in 2 .. n : F[i] = F[i - 1] \o s[i]
    <3>1. \A i \in 1 .. n : F[i] = IF i = 1 THEN s[i] ELSE F[i - 1] \o s[i]
      BY <2>2
    <3>2. 1 \in 1 .. n /\ \A i \in 2 .. n : i \in 1 .. n /\ i # 1
      BY <1>1, <1>4
    <3> QED
      BY <3>1, <3>2
  <2> DEFINE l == [i \in 0 .. n |-> IF i = 0 THEN <<>> ELSE F[i]]
  <2>4. l[0] = <<>> /\ l = [i \in 0 .. n |-> l[i]] /\ FlattenSeq(s) = l[n]
    BY <1>1, <1>4, <2>1
  <2>5. ASSUME NEW i \in 1 .. n PROVE l[i] = l[i - 1] \o s[i]
    <3>1. CASE i = 1
      <4>1. <<>> \o s[1] = s[1]
        <5>1. IsSeq(s[1])
          BY <3>1
        <5>2. Len(s[1]) \in Nat
          BY <5>1, SeqFacts
        <5>3. IsSeq(<<>> \o s[1]) /\ Len(<<>> \o s[1]) = 0 + Len(s[1])
          BY <1>2, <5>1, Concat
        <5>4. \A k \in 1 .. Len(s[1]) : (<<>> \o s[1])[0 + k] = s[1][k]
          BY <1>2, <5>1, Concat
        <5>5. \A k \in 1 .. Len(s[1]) : (<<>> \o s[1])[k] = s[1][k]
          BY <5>2, <5>4
        <5> QED
          BY <5>1, <5>2, <5>3, <5>5, SameSeq
      <4>2. l[1] = F[1] /\ l[0] = <<>> /\ i - 1 = 0
        BY <1>1, <1>4, <3>1
      <4> QED
        BY <2>3, <3>1, <4>1, <4>2
    <3>2. CASE i # 1
      <4>1. i \in 2 .. n /\ i - 1 \in 0 .. n /\ i - 1 # 0 /\ i \in 0 .. n /\ i # 0
        BY <1>1, <3>2
      <4>2. l[i] = F[i] /\ l[i - 1] = F[i - 1]
        BY <4>1
      <4> QED
        BY <2>3, <4>1, <4>2
    <3> QED
      BY <3>1, <3>2
  <2> HIDE DEF l
  <2>6. \A i \in 0 .. n : IsSeq(l[i])
    <3> DEFINE S == {i \in Nat : i <= n => IsSeq(l[i])}
    <3>1. 0 \in S
      BY <1>2, <2>4
    <3>2. ASSUME NEW i \in S PROVE i + 1 \in S
      <4> SUFFICES ASSUME i + 1 <= n PROVE IsSeq(l[i + 1])
        OBVIOUS
      <4>1. i + 1 \in 1 .. n /\ (i + 1) - 1 = i /\ IsSeq(l[i])
        BY <1>1
      <4>2. l[i + 1] = l[i] \o s[i + 1] /\ IsSeq(s[i + 1])
        BY <2>5, <4>1
      <4> QED
        BY <4>1, <4>2, Concat
    <3>3. S = Nat
      BY <3>1, <3>2, SetInduction
    <3> QED
      BY <1>1, <3>3
  <2> QED
    BY <2>4, <2>5, <2>6
<1>5. n = 0 \/ n > 0
  BY <1>1
<1> QED
  BY <1>3, <1>4, <1>5, Zenon

-----------------------------------------------------------------------------
\* The code of a tree.

\* codegen() of a tree takes from code what belongs to the tree's parts.
Agree(parts, f, g) ==
  \A p \in parts : f[<<"value", p>>] = g[<<"value", p>>] /\ f[<<"place", p>>] = g[<<"place", p>>]

\* ... for the operands of a call or the statements of a block, too.
LEMMA SameValues ==
  ASSUME NEW parts, NEW f, NEW g, Agree(parts, f, g), NEW s \in Seq(parts)
  PROVE  [i \in DOMAIN s |-> f[<<"value", s[i]>>]] = [i \in DOMAIN s |-> g[<<"value", s[i]>>]]
<1>1. \A i \in DOMAIN s : s[i] \in parts
  <2>1. PICK n \in Nat : s \in [1 .. n -> parts]
    OBVIOUS
  <2> QED
    BY <2>1
<1>2. \A i \in DOMAIN s : f[<<"value", s[i]>>] = g[<<"value", s[i]>>]
  BY <1>1 DEF Agree
<1> QED
  BY <1>2

\* The code of a tree is a function of the code of its parts.
LEMMA SameCode ==
  ASSUME NEW parts, NEW f, NEW g, Agree(parts, f, g), NEW ast, WellFormed(ast, parts)
  PROVE  codegen(ast, f) = codegen(ast, g) /\ codegen_lvalue(ast, f) = codegen_lvalue(ast, g)
<1> DEFINE values == {a \in parts : a.kind \in ValueKinds}
<1>0. \A p \in values : p \in parts
  OBVIOUS
<1> HIDE DEF values
<1>a. \A s : s \in Seq(values) => s \in Seq(parts)
  <2>1. \A S, T : S \subseteq T => Seq(S) \subseteq Seq(T)
    OBVIOUS
  <2> QED
    BY <1>0, <2>1
<1>1. CASE ast.kind \in {"null", "globalref", "break", "continue", "ident", "intlit"}
  BY <1>1 DEF codegen, codegen_lvalue, InfixKinds, Summed, Numbered, Assigned, Untyped
<1>2. CASE ast.kind \in InfixKinds /\ ast.left \in parts /\ ast.right \in parts
  <2>1. /\ f[<<"value", ast.left>>] = g[<<"value", ast.left>>]
        /\ f[<<"place", ast.left>>] = g[<<"place", ast.left>>]
        /\ f[<<"value", ast.right>>] = g[<<"value", ast.right>>]
    BY <1>2 DEF Agree
  <2>2. codegen_lvalue(ast, f) = codegen_lvalue(ast, g)
    BY <1>2 DEF codegen_lvalue, InfixKinds, Summed, Numbered, Assigned, Untyped
  <2> QED
    BY <1>2, <2>1, <2>2 DEF codegen, InfixKinds, Summed, Numbered, Assigned, Untyped
<1>3. CASE ast.kind \in {"minus", "deref", "addr", "preinc", "return"} /\ ast.value \in parts
  <2>1. /\ f[<<"value", ast.value>>] = g[<<"value", ast.value>>]
        /\ f[<<"place", ast.value>>] = g[<<"place", ast.value>>]
    BY <1>3 DEF Agree
  <2> QED
    BY <1>3, <2>1 DEF codegen, codegen_lvalue, InfixKinds, Summed, Numbered, Assigned, Untyped
<1>4. CASE ast.kind = "dot" /\ ast.structvalue \in parts
  <2>1. f[<<"place", ast.structvalue>>] = g[<<"place", ast.structvalue>>]
    BY <1>4 DEF Agree
  <2> QED
    BY <1>4, <2>1 DEF codegen, codegen_lvalue
<1>5. CASE ast.kind = "call" /\ ast.arguments \in Seq(parts)
  <2>1. [i \in DOMAIN ast.arguments |-> f[<<"value", ast.arguments[i]>>]]
        = [i \in DOMAIN ast.arguments |-> g[<<"value", ast.arguments[i]>>]]
    BY <1>5, SameValues
  <2> QED
    BY <1>5, <2>1 DEF codegen, codegen_lvalue, InfixKinds, Summed, Numbered, Assigned, Untyped
<1>6. CASE ast.kind = "statements" /\ ast.stmts \in Seq(parts)
  <2>1. [i \in DOMAIN ast.stmts |-> f[<<"value", ast.stmts[i]>>]]
        = [i \in DOMAIN ast.stmts |-> g[<<"value", ast.stmts[i]>>]]
    BY <1>6, SameValues
  <2> QED
    BY <1>6, <2>1 DEF codegen, codegen_lvalue, InfixKinds, Summed, Numbered, Assigned, Untyped
<1>7. CASE /\ ast.kind = "if" /\ {ast.ifcond, ast.ifbody, ast.elsebody} \subseteq parts
           /\ ast.elifconds \in Seq(parts) /\ ast.elifbodies \in Seq(parts)
  <2>1. [i \in DOMAIN ast.elifconds |-> f[<<"value", ast.elifconds[i]>>]]
        = [i \in DOMAIN ast.elifconds |-> g[<<"value", ast.elifconds[i]>>]]
    BY <1>7, SameValues
  <2>2. [i \in DOMAIN ast.elifbodies |-> f[<<"value", ast.elifbodies[i]>>]]
        = [i \in DOMAIN ast.elifbodies |-> g[<<"value", ast.elifbodies[i]>>]]
    BY <1>7, SameValues
  <2>3. /\ f[<<"value", ast.ifcond>>] = g[<<"value", ast.ifcond>>]
        /\ f[<<"value", ast.ifbody>>] = g[<<"value", ast.ifbody>>]
        /\ f[<<"value", ast.elsebody>>] = g[<<"value", ast.elsebody>>]
    BY <1>7 DEF Agree
  <2> QED
    BY <1>7, <2>1, <2>2, <2>3
    DEF codegen, codegen_lvalue, InfixKinds, Summed, Numbered, Assigned, Untyped
<1>8. CASE ast.kind = "while" /\ {ast.whilecond, ast.whilebody} \subseteq parts
  <2>1. /\ f[<<"value", ast.whilecond>>] = g[<<"value", ast.whilecond>>]
        /\ f[<<"value", ast.whilebody>>] = g[<<"value", ast.whilebody>>]
    BY <1>8 DEF Agree
  <2> QED
    BY <1>8, <2>1 DEF codegen, codegen_lvalue, InfixKinds, Summed, Numbered, Assigned, Untyped
<1>9. CASE ast.kind = "for" /\ {ast.forinit, ast.forcond, ast.fornext, ast.forbody} \subseteq parts
  <2>1. /\ f[<<"value", ast.forinit>>] = g[<<"value", ast.forinit>>]
        /\ f[<<"value", ast.forcond>>] = g[<<"value", ast.forcond>>]
        /\ f[<<"value", ast.fornext>>] = g[<<"value", ast.fornext>>]
        /\ f[<<"value", ast.forbody>>] = g[<<"value", ast.forbody>>]
    BY <1>9 DEF Agree
  <2> QED
    BY <1>9, <2>1 DEF codegen, codegen_lvalue, InfixKinds, Summed, Numbered, Assigned, Untyped
<1>10. \/ ast.kind \in {"null", "globalref", "break", "continue", "ident", "intlit"}
       \/ ast.kind \in InfixKinds /\ ast.left \in parts /\ ast.right \in parts
       \/ ast.kind \in {"minus", "deref", "addr", "preinc", "return"} /\ ast.value \in parts
       \/ ast.kind = "dot" /\ ast.structvalue \in parts
       \/ ast.kind = "call" /\ ast.arguments \in Seq(parts)
       \/ ast.kind = "statements" /\ ast.stmts \in Seq(parts)
       \/ /\ ast.kind = "if" /\ {ast.ifcond, ast.ifbody, ast.elsebody} \subseteq parts
          /\ ast.elifconds \in Seq(parts) /\ ast.elifbodies \in Seq(parts)
       \/ ast.kind = "while" /\ {ast.whilecond, ast.whilebody} \subseteq parts
       \/ ast.kind = "for"
          /\ {ast.forinit, ast.forcond, ast.fornext, ast.forbody} \subseteq parts
  <2>1. WellFormed(ast, parts)
    OBVIOUS
  <2>2. values = {a \in parts : a.kind \in ValueKinds}
    BY DEF values
  <2> QED
    BY <1>0, <1>a, <2>1, <2>2 DEF WellFormed
<1> QED
  BY <1>1, <1>2, <1>3, <1>4, <1>5, <1>6, <1>7, <1>8, <1>9, <1>10

\* Code has the code of every tree: it is defined from one height to the next.
Equation(x, code) == IF x[1] = "value" THEN codegen(x[2], code) ELSE codegen_lvalue(x[2], code)
CodeUpTo(n, code) ==
  code = [x \in {"value", "place"} \X Trees[n] |-> Equation(x, code)]

\* What TreesAssumption says of the trees, level by level.
LEMMA Heights ==
  /\ Trees # <<>> /\ Len(Trees) \in Nat /\ Len(Trees) > 0
  /\ \A ast \in Trees[1] : WellFormed(ast, {})
  /\ \A n \in 2 .. Len(Trees) :
       Trees[n - 1] \subseteq Trees[n] /\ \A ast \in Trees[n] : WellFormed(ast, Trees[n - 1])
<1>1. PICK U : Trees \in Seq(U)
  BY TreesAssumption DEF TreesAssumption
<1>2. Trees # <<>> => Len(Trees) \in Nat /\ Len(Trees) > 0
  BY <1>1
<1> QED
  BY <1>2, TreesAssumption DEF TreesAssumption

\* The code of the trees up to a height exists.
LEMMA CodeOnHeight ==
  ASSUME NEW n \in 1 .. Len(Trees)
  PROVE  \E code : CodeUpTo(n, code)
<1> DEFINE S == {m \in Nat : m + 1 \in 1 .. Len(Trees) => \E code : CodeUpTo(m + 1, code)}
<1>1. 0 \in S
  <2> DEFINE g == [x \in {"value", "place"} \X Trees[1] |-> Equation(x, <<>>)]
  <2>1. ASSUME NEW x \in {"value", "place"} \X Trees[1]
        PROVE  Equation(x, g) = Equation(x, <<>>)
    <3>1. WellFormed(x[2], {}) /\ Agree({}, g, <<>>)
      BY Heights DEF Agree
    <3> HIDE DEF g
    <3> QED
      BY <3>1, SameCode DEF Equation
  <2>2. CodeUpTo(1, g)
    <3>1. g = [x \in {"value", "place"} \X Trees[1] |-> Equation(x, g)]
      BY <2>1
    <3> QED
      BY <3>1 DEF CodeUpTo
  <2> HIDE DEF g
  <2>3. \E code : CodeUpTo(0 + 1, code)
    BY <2>2
  <2> QED
    BY <2>3
<1>2. ASSUME NEW m \in S PROVE m + 1 \in S
  <2> SUFFICES ASSUME (m + 1) + 1 \in 1 .. Len(Trees)
               PROVE  \E code : CodeUpTo((m + 1) + 1, code)
    OBVIOUS
  <2> DEFINE k == m + 1
  <2>1. k \in 1 .. Len(Trees) /\ k + 1 \in 2 .. Len(Trees) /\ (k + 1) - 1 = k
    BY Heights
  <2>2. PICK f : CodeUpTo(k, f)
    BY <2>1
  <2> HIDE DEF k
  <2> DEFINE g == [x \in {"value", "place"} \X Trees[k + 1] |-> Equation(x, f)]
  <2>3. Trees[k] \subseteq Trees[k + 1] /\ \A ast \in Trees[k + 1] : WellFormed(ast, Trees[k])
    BY <2>1, Heights
  <2>4. Agree(Trees[k], f, g)
    <3>1. ASSUME NEW p \in Trees[k], NEW w \in {"value", "place"}
          PROVE  f[<<w, p>>] = g[<<w, p>>]
      <4>1. <<w, p>> \in {"value", "place"} \X Trees[k] /\ <<w, p>> \in {"value", "place"} \X Trees[k + 1]
        BY <2>3
      <4>2. f[<<w, p>>] = Equation(<<w, p>>, f)
        BY <2>2, <4>1 DEF CodeUpTo
      <4> QED
        BY <4>1, <4>2
    <3> HIDE DEF g
    <3> QED
      BY <3>1 DEF Agree
  <2>5. ASSUME NEW x \in {"value", "place"} \X Trees[k + 1]
        PROVE  Equation(x, g) = Equation(x, f)
    <3> HIDE DEF g
    <3>1. WellFormed(x[2], Trees[k])
      BY <2>3
    <3> QED
      BY <2>4, <3>1, SameCode DEF Equation
  <2>6. g = [x \in {"value", "place"} \X Trees[k + 1] |-> Equation(x, g)]
    BY <2>5
  <2> HIDE DEF g
  <2>7. CodeUpTo(k + 1, g)
    BY <2>6 DEF CodeUpTo
  <2> QED
    BY <2>7 DEF k
<1> HIDE DEF S
<1>3. S = Nat
  <2>1. S \subseteq Nat
    BY DEF S
  <2> QED
    BY <1>1, <1>2, <2>1, SetInduction
<1>4. n - 1 \in S /\ (n - 1) + 1 = n
  BY <1>3
<1> QED
  BY <1>4 DEF S

\* The code of a tree is what codegen() makes of the code of its parts.
THEOREM CodeOfTree ==
  ASSUME NEW ast \in AllTrees
  PROVE  /\ Code[<<"value", ast>>] = codegen(ast, Code)
         /\ Code[<<"place", ast>>] = codegen_lvalue(ast, Code)
<1>1. Len(Trees) \in 1 .. Len(Trees)
  BY Heights
<1>2. \E code : CodeUpTo(Len(Trees), code)
  BY <1>1, CodeOnHeight
<1>3. \E code : code = [x \in {"value", "place"} \X AllTrees |->
                          IF x[1] = "value" THEN codegen(x[2], code) ELSE codegen_lvalue(x[2], code)]
  BY <1>2 DEF CodeUpTo, Equation, AllTrees
<1>4. Code = [x \in {"value", "place"} \X AllTrees |->
                IF x[1] = "value" THEN codegen(x[2], Code) ELSE codegen_lvalue(x[2], Code)]
  BY <1>3 DEF Code
<1>5. <<"value", ast>> \in {"value", "place"} \X AllTrees /\ <<"place", ast>> \in {"value", "place"} \X AllTrees
  OBVIOUS
<1> HIDE DEF Code
<1> QED
  BY <1>4, <1>5

-----------------------------------------------------------------------------
\* The depth of the operand stack at each instruction.

\* A depth below 0 is a phase of the function: -3, -4, -5 before the prologue's three
\* instructions, -1 and -2 before the epilogue's last two.
Data == Registers \ {"rsp", "rbp"}

\* Instructions that leave the stack and the frame pointer alone.
Plain(ins) ==
  \/ ins[1] \in {"lea_rip", "movsbl", "movl", "movq", "add", "sub", "and", "neg", "imul",
                 "idiv", "cmp", "cmp_int", "set", "movzbl", "call"}
  \/ ins[1] = "mov" /\ ins[2] \in Registers /\ ins[3] \in Data
  \/ ins[1] \in {"mov_int", "add_int"} /\ ins[2] \in Int /\ ins[3] \in Data
  \/ ins[1] \in {"lea", "reload"} /\ ins[2] \in Int
  \/ ins[1] = "store" /\ ins[2] \in {1, 4, 8} /\ ins[3] \in Registers

\* The instruction is executed with x words or more on the operand stack, the one
\* behind it with y or more.
Moves(ins, x, y) ==
  \/ ins[1] = "push" /\ ins[2] \in Registers /\ x >= 0 /\ y \in 0 .. x + 1
  \/ ins[1] = "push_int" /\ ins[2] \in Int /\ x >= 0 /\ y \in 0 .. x + 1
  \/ ins[1] = "pop" /\ ins[2] \in Data /\ x >= 1 /\ y \in 0 .. x - 1
  \/ /\ ins[1] = "add_int" /\ ins[2] \in Int /\ ins[3] = "rsp"
     /\ x >= 0 /\ y >= 0 /\ 8 * y <= 8 * x - ins[2]
  \/ ins[1] = "spill" /\ ins[2] \in Nat /\ ins[2] + 8 <= 8 * x /\ y \in 0 .. x

Prologues(ins, x, y) ==
  \/ ins = <<"push", "rbp">> /\ x = -3 /\ y = -4
  \/ ins = <<"mov", "rsp", "rbp">> /\ x = -4 /\ y = -5
  \/ ins[1] = "add_int" /\ ins[2] \in Int /\ ins[3] = "rsp" /\ x = -5 /\ y = 0

Epilogues(ins, x, y) ==
  \/ ins = <<"mov", "rbp", "rsp">> /\ x >= 0 /\ y = -1
  \/ ins = <<"pop", "rbp">> /\ x = -1 /\ y = -2

Straight(ins, x, y) ==
  \/ Plain(ins) /\ x >= 0 /\ y \in 0 .. x
  \/ Moves(ins, x, y) \/ Prologues(ins, x, y) \/ Epilogues(ins, x, y)

\* A jump over k instructions stays inside of the code c.
Leads(c, d, i, k) ==
  k \in Int /\ i + 1 + k \in 1 .. Len(c) + 1 /\ d[i + 1 + k] \in 0 .. d[i]

Flows(c, d, i) ==
  \/ Straight(c[i], d[i], d[i + 1])
  \/ c[i][1] = "jmp" /\ Leads(c, d, i, c[i][2])
  \/ c[i][1] = "jcc" /\ Leads(c, d, i, c[i][3]) /\ d[i + 1] \in 0 .. d[i]
  \/ c[i] \in {<<"break">>, <<"continue">>} /\ d[i] >= 0
  \/ c[i] = <<"ret">> /\ d[i] = -2
  \/ c[i] = <<"stop">>

\* d has the depth before each instruction of c and, last, behind c.
Depths(c, a, b, d) ==
  /\ d \in [1 .. Len(c) + 1 -> Int]
  /\ d[1] = a /\ d[Len(c) + 1] = b
  /\ \A i \in 1 .. Len(c) : Flows(c, d, i)

Balanced(c, a, b) == IsSeq(c) /\ a \in Int /\ b \in Int /\ \E d : Depths(c, a, b, d)

\* c takes k words from the operand stack and leaves j in their place.
Turns(c, k, j) == k \in Nat /\ j \in Nat /\ \A a \in Nat : Balanced(c, a + k, a + j)

\* Inside of longer code the instructions of c do what they do in c.
LEMMA FlowsInside ==
  ASSUME NEW c, NEW d, NEW whole, NEW e, NEW k \in Nat, Len(c) \in Nat, Len(whole) \in Nat,
         k + Len(c) <= Len(whole), NEW i \in 1 .. Len(c),
         whole[k + i] = c[i], Flows(c, d, i),
         \A j \in 1 .. Len(c) + 1 : e[k + j] = d[j]
  PROVE  Flows(whole, e, k + i)
<1>1. e[k + i] = d[i] /\ e[(k + i) + 1] = d[i + 1]
  <2>1. i \in 1 .. Len(c) + 1 /\ i + 1 \in 1 .. Len(c) + 1 /\ (k + i) + 1 = k + (i + 1)
    OBVIOUS
  <2> QED
    BY <2>1
<1>2. ASSUME NEW n, Leads(c, d, i, n) PROVE Leads(whole, e, k + i, n)
  <2>1. n \in Int /\ i + 1 + n \in 1 .. Len(c) + 1 /\ d[i + 1 + n] \in 0 .. d[i]
    BY <1>2 DEF Leads
  <2>2. (k + i) + 1 + n = k + (i + 1 + n) /\ (k + i) + 1 + n \in 1 .. Len(whole) + 1
    BY <2>1
  <2>3. e[(k + i) + 1 + n] = d[i + 1 + n]
    BY <2>1, <2>2
  <2> QED
    BY <1>1, <2>1, <2>2, <2>3 DEF Leads
<1> QED
  BY <1>1, <1>2 DEF Flows

\* No code leaves the stack as it is.
LEMMA Empty ==
  ASSUME NEW a \in Int
  PROVE  Balanced(<<>>, a, a)
<1>1. IsSeq(<<>>) /\ Len(<<>>) = 0
  <2>1. <<>> \in Seq({})
    OBVIOUS
  <2> QED
    BY <2>1, SeqHasRange
<1>2. Depths(<<>>, a, a, [i \in 1 .. 1 |-> a])
  BY <1>1 DEF Depths
<1> QED
  BY <1>1, <1>2 DEF Balanced

\* A single instruction is a sequence.
LEMMA One ==
  ASSUME NEW ins
  PROVE  IsSeq(<<ins>>) /\ Len(<<ins>>) = 1 /\ <<ins>>[1] = ins
<1>1. <<ins>> \in Seq({ins})
  OBVIOUS
<1> QED
  BY <1>1, SeqHasRange

\* The code of a single instruction has the depths of the instruction.
LEMMA OneStep ==
  ASSUME NEW ins, NEW a \in Int, NEW b \in Int,
         Straight(ins, a, b) \/ ins = <<"stop">> \/ (ins = <<"ret">> /\ a = -2)
         \/ (ins \in {<<"break">>, <<"continue">>} /\ a >= 0)
  PROVE  Balanced(<<ins>>, a, b)
<1> DEFINE c == <<ins>>
           d == [i \in 1 .. 2 |-> IF i = 1 THEN a ELSE b]
<1>1. IsSeq(c) /\ Len(c) = 1 /\ c[1] = ins
  BY One
<1>2. d \in [1 .. 2 -> Int] /\ d[1] = a /\ d[2] = b
  OBVIOUS
<1> HIDE DEF c, d
<1>3. Flows(c, d, 1)
  BY <1>1, <1>2 DEF Flows
<1>4. Depths(c, a, b, d)
  BY <1>1, <1>2, <1>3 DEF Depths
<1> QED
  BY <1>1, <1>4 DEF Balanced, c

\* The end may be thought of with fewer words.
LEMMA LowerEnd ==
  ASSUME NEW c, NEW a, NEW b, Balanced(c, a, b), NEW z \in Nat, z <= b
  PROVE  Balanced(c, a, z) \/ (c = <<>> /\ a = b)
<1>1. PICK d : Depths(c, a, b, d)
  BY DEF Balanced
<1>2. IsSeq(c) /\ a \in Int /\ b \in Int /\ Len(c) \in Nat
  BY SeqFacts DEF Balanced
<1>3. CASE Len(c) = 0
  <2>1. IsSeq(<<>>) /\ Len(<<>>) = 0
    BY Empty DEF Balanced
  <2>2. c = <<>>
    BY <1>2, <1>3, <2>1, SameSeq
  <2> QED
    BY <1>1, <1>3, <2>2 DEF Depths
<1>4. CASE Len(c) > 0
  <2> DEFINE n == Len(c)
             e == [i \in 1 .. n + 1 |-> IF i = n + 1 THEN z ELSE d[i]]
  <2>1. d \in [1 .. n + 1 -> Int] /\ d[1] = a /\ d[n + 1] = b /\ \A i \in 1 .. n : Flows(c, d, i)
    BY <1>1 DEF Depths
  <2>2. n \in Nat /\ n > 0
    BY <1>2, <1>4
  <2> HIDE DEF n
  <2>3. e \in [1 .. n + 1 -> Int] /\ e[1] = a /\ e[n + 1] = z
    BY <2>1, <2>2
  <2>4. \A i \in 1 .. n : e[i] = d[i]
    BY <2>2
  <2>5. \A i \in 1 .. n + 1 : e[i] = d[i] \/ (i = n + 1 /\ e[i] = z /\ d[i] = b)
    BY <2>1, <2>2
  <2> HIDE DEF e
  <2>6. ASSUME NEW i \in 1 .. n PROVE Flows(c, e, i)
    <3>1. Flows(c, d, i) /\ e[i] = d[i] /\ d[i] \in Int /\ d[i + 1] \in Int
      BY <2>1, <2>2, <2>4
    <3>2. e[i + 1] = d[i + 1] \/ (e[i + 1] = z /\ d[i + 1] = b)
      BY <2>2, <2>5
    <3>3. ASSUME NEW x \in Int, NEW ins, Straight(ins, x, b) PROVE Straight(ins, x, z)
      <4>1. CASE Plain(ins) /\ x >= 0 /\ b \in 0 .. x
        BY <1>2, <4>1 DEF Straight
      <4>2. CASE Moves(ins, x, b)
        BY <1>2, <4>2 DEF Straight, Moves
      <4>3. CASE Prologues(ins, x, b)
        BY <1>2, <4>3 DEF Straight, Prologues
      <4>4. ~ Epilogues(ins, x, b)
        BY <1>2 DEF Epilogues
      <4> QED
        BY <3>3, <4>1, <4>2, <4>3, <4>4 DEF Straight
    <3>4. ASSUME NEW k, Leads(c, d, i, k) PROVE Leads(c, e, i, k)
      <4>1. k \in Int /\ i + 1 + k \in 1 .. n + 1 /\ d[i + 1 + k] \in 0 .. d[i]
        BY <3>4 DEF Leads, n
      <4>2. e[i + 1 + k] = d[i + 1 + k] \/ (e[i + 1 + k] = z /\ d[i + 1 + k] = b)
        BY <2>5, <4>1
      <4>3. e[i + 1 + k] \in 0 .. e[i]
        BY <1>2, <3>1, <4>1, <4>2
      <4> QED
        BY <4>1, <4>3 DEF Leads, n
    <3>5. d[i + 1] \in 0 .. d[i] => e[i + 1] \in 0 .. e[i]
      BY <1>2, <3>1, <3>2
    <3>6. Straight(c[i], d[i], d[i + 1]) => Straight(c[i], e[i], e[i + 1])
      BY <3>1, <3>2, <3>3
    <3> QED
      BY <3>1, <3>4, <3>5, <3>6 DEF Flows
  <2>7. Depths(c, a, z, e)
    BY <2>3, <2>6 DEF Depths, n
  <2> QED
    BY <1>2, <2>7 DEF Balanced
<1> QED
  BY <1>2, <1>3, <1>4

-----------------------------------------------------------------------------
\* Code that follows other code.

\* An instruction behind a sequence.
LEMMA ConcatOne ==
  ASSUME NEW s, IsSeq(s), NEW x
  PROVE  /\ IsSeq(s \o <<x>>) /\ Len(s \o <<x>>) = Len(s) + 1
         /\ (s \o <<x>>)[Len(s) + 1] = x
         /\ \A i \in 1 .. Len(s) : (s \o <<x>>)[i] = s[i]
<1> DEFINE u == <<x>>
           w == s \o u
<1>1. IsSeq(u) /\ Len(u) = 1 /\ u[1] = x
  BY One
<1>u. IsSeq(u)
  BY <1>1
<1> HIDE DEF u
<1>2. /\ IsSeq(w) /\ Len(w) = Len(s) + Len(u)
      /\ \A i \in 1 .. Len(s) : w[i] = s[i]
      /\ \A i \in 1 .. Len(u) : w[Len(s) + i] = u[i]
  BY <1>u, Concat
<1> HIDE DEF w
<1>3. w[Len(s) + 1] = x /\ Len(w) = Len(s) + 1
  BY <1>1, <1>2
<1> QED
  BY <1>2, <1>3 DEF u, w

\* An instruction before a sequence.
LEMMA OneConcat ==
  ASSUME NEW s, IsSeq(s), NEW x
  PROVE  /\ IsSeq(<<x>> \o s) /\ Len(<<x>> \o s) = Len(s) + 1
         /\ (<<x>> \o s)[1] = x
         /\ \A i \in 1 .. Len(s) : (<<x>> \o s)[1 + i] = s[i]
<1> DEFINE u == <<x>>
           w == u \o s
<1>1. IsSeq(u) /\ Len(u) = 1 /\ u[1] = x
  BY One
<1>u. IsSeq(u)
  BY <1>1
<1> HIDE DEF u
<1>2. /\ IsSeq(w) /\ Len(w) = Len(u) + Len(s)
      /\ \A i \in 1 .. Len(u) : w[i] = u[i]
      /\ \A i \in 1 .. Len(s) : w[Len(u) + i] = s[i]
  BY <1>u, Concat
<1> HIDE DEF w
<1>3. Len(s) \in Nat
  BY SeqFacts
<1>4. Len(w) = Len(s) + 1 /\ w[1] = x /\ \A i \in 1 .. Len(s) : w[1 + i] = s[i]
  BY <1>1, <1>2, <1>3
<1> QED
  BY <1>2, <1>4 DEF u, w

\* Where one piece of code ends with the depth another one starts with, they have
\* depths together that begin with the depths of the first.
LEMMA DepthsJoin ==
  ASSUME NEW s, NEW t, NEW a, NEW b, NEW m, NEW d, Balanced(s, a, m), Balanced(t, m, b),
         Depths(s, a, m, d)
  PROVE  \E h : Depths(s \o t, a, b, h) /\ \A i \in 1 .. Len(s) + 1 : h[i] = d[i]
<1>1. Depths(s, a, m, d)
  OBVIOUS
<1>2. PICK e : Depths(t, m, b, e)
  BY DEF Balanced
<1>3. IsSeq(s) /\ IsSeq(t) /\ Len(s) \in Nat /\ Len(t) \in Nat /\ a \in Int /\ b \in Int
  BY SeqFacts DEF Balanced
<1> DEFINE c == s \o t
           n == Len(s)
           h == [i \in 1 .. n + Len(t) + 1 |-> IF i <= n THEN d[i] ELSE e[i - n]]
<1>4. IsSeq(c) /\ Len(c) = n + Len(t) /\ (\A i \in 1 .. n : c[i] = s[i])
      /\ \A i \in 1 .. Len(t) : c[n + i] = t[i]
  BY <1>3, Concat
<1>5. d \in [1 .. n + 1 -> Int] /\ d[1] = a /\ d[n + 1] = m /\ \A i \in 1 .. n : Flows(s, d, i)
  BY <1>1 DEF Depths
<1>6. e \in [1 .. Len(t) + 1 -> Int] /\ e[1] = m /\ e[Len(t) + 1] = b
      /\ \A i \in 1 .. Len(t) : Flows(t, e, i)
  BY <1>2 DEF Depths
<1>n. n \in Nat
  BY <1>3
<1> HIDE DEF c, n
<1>7. \A i \in 1 .. n + 1 : h[0 + i] = d[i]
  <2>1. ASSUME NEW i \in 1 .. n + 1 PROVE h[0 + i] = d[i]
    <3>1. CASE i <= n
      BY <1>3, <1>n, <3>1
    <3>2. CASE i = n + 1
      <4>1. h[n + 1] = e[1]
        BY <1>3, <1>n
      <4> QED
        BY <1>5, <1>6, <1>n, <3>2, <4>1
    <3> QED
      BY <1>n, <3>1, <3>2
  <2> QED
    BY <2>1
<1>8. \A i \in 1 .. Len(t) + 1 : h[n + i] = e[i]
  BY <1>3, <1>n
<1>9. h \in [1 .. Len(c) + 1 -> Int]
  BY <1>3, <1>4, <1>5, <1>6, <1>n
<1>10. h[1] = a /\ h[Len(c) + 1] = b
  <2>1. h[1] = d[1]
    BY <1>7, <1>n
  <2>2. h[n + (Len(t) + 1)] = e[Len(t) + 1]
    BY <1>3, <1>8
  <2>3. n + (Len(t) + 1) = Len(c) + 1
    BY <1>3, <1>4, <1>n
  <2> HIDE DEF h
  <2> QED
    BY <1>5, <1>6, <2>1, <2>2, <2>3
<1> HIDE DEF h
<1>11. ASSUME NEW i \in 1 .. n PROVE Flows(c, h, i)
  <2>1. Flows(c, h, 0 + i)
    <3>1. c[0 + i] = s[i] /\ Flows(s, d, i) /\ 0 + Len(s) <= Len(c) /\ Len(c) \in Nat
      BY <1>3, <1>4, <1>5, <1>n DEF n
    <3>2. i \in 1 .. Len(s) /\ \A j \in 1 .. Len(s) + 1 : h[0 + j] = d[j]
      BY <1>7 DEF n
    <3> QED
      BY <1>3, <3>1, <3>2, FlowsInside
  <2> QED
    BY <1>n, <2>1
<1>12. ASSUME NEW i \in 1 .. Len(t) PROVE Flows(c, h, n + i)
  <2>1. n + Len(t) <= Len(c) /\ Len(c) \in Nat
    BY <1>3, <1>4, <1>n
  <2>2. c[n + i] = t[i] /\ Flows(t, e, i)
    BY <1>4, <1>6
  <2> QED
    BY <1>3, <1>8, <1>n, <2>1, <2>2, FlowsInside
<1>13. ASSUME NEW i \in 1 .. Len(c) PROVE Flows(c, h, i)
  <2>1. CASE i <= n
    BY <1>11, <1>n, <2>1
  <2>2. CASE i > n
    <3>1. i - n \in 1 .. Len(t) /\ i = n + (i - n)
      BY <1>3, <1>4, <1>n, <2>2
    <3> QED
      BY <1>12, <3>1
  <2> QED
    BY <1>n, <2>1, <2>2
<1>14. Depths(c, a, b, h)
  BY <1>9, <1>10, <1>13 DEF Depths
<1>15. \A i \in 1 .. n + 1 : h[i] = d[i]
  <2>1. \A i \in 1 .. n + 1 : 0 + i = i
    BY <1>n
  <2> QED
    BY <1>7, <2>1
<1> QED
  BY <1>14, <1>15 DEF c, n

\* ... so one may stand behind the other.
LEMMA Sequence ==
  ASSUME NEW s, NEW t, NEW a, NEW b, NEW m, Balanced(s, a, m), Balanced(t, m, b)
  PROVE  Balanced(s \o t, a, b)
<1>1. PICK d : Depths(s, a, m, d)
  BY DEF Balanced
<1>2. PICK h : Depths(s \o t, a, b, h)
  BY <1>1, DepthsJoin
<1>3. IsSeq(s) /\ IsSeq(t) /\ a \in Int /\ b \in Int
  BY DEF Balanced
<1>4. IsSeq(s \o t)
  BY <1>3, Concat
<1> QED
  BY <1>2, <1>3, <1>4 DEF Balanced

\* One piece of code behind the other, on whatever the stack has.
LEMMA Then ==
  ASSUME NEW s, NEW t, NEW k, NEW j, NEW l, Turns(s, k, j), Turns(t, j, l)
  PROVE  Turns(s \o t, k, l)
<1>1. k \in Nat /\ l \in Nat
  BY DEF Turns
<1>2. ASSUME NEW a \in Nat PROVE Balanced(s \o t, a + k, a + l)
  <2>1. Balanced(s, a + k, a + j) /\ Balanced(t, a + j, a + l)
    BY DEF Turns
  <2> QED
    BY <2>1, Sequence
<1> QED
  BY <1>1, <1>2 DEF Turns

\* Code works the same way above operands it does not touch.
LEMMA Over ==
  ASSUME NEW s, NEW k, NEW j, Turns(s, k, j), NEW m \in Nat
  PROVE  Turns(s, m + k, m + j)
<1>1. k \in Nat /\ j \in Nat /\ \A a \in Nat : Balanced(s, a + k, a + j)
  BY DEF Turns
<1>2. ASSUME NEW a \in Nat PROVE Balanced(s, a + (m + k), a + (m + j))
  <2>1. a + m \in Nat /\ (a + m) + k = a + (m + k) /\ (a + m) + j = a + (m + j)
    BY <1>1
  <2>2. Balanced(s, (a + m) + k, (a + m) + j)
    BY <1>1, <2>1
  <2> QED
    BY <2>1, <2>2
<1> QED
  BY <1>1, <1>2 DEF Turns

\* Code on a stack that has its operands only.
LEMMA AtDepth ==
  ASSUME NEW s, NEW k, NEW j, Turns(s, k, j)
  PROVE  IsSeq(s) /\ Len(s) \in Nat /\ Balanced(s, k, j)
<1>1. k \in Nat /\ j \in Nat /\ Balanced(s, 0 + k, 0 + j)
  BY DEF Turns
<1>2. Balanced(s, k, j)
  BY <1>1
<1> QED
  BY <1>2, SeqFacts DEF Balanced

\* No code takes nothing.
LEMMA Nothing == \A k \in Nat : Turns(<<>>, k, k)
BY Empty DEF Turns

\* An instruction alone.
LEMMA Step ==
  ASSUME NEW ins, NEW k \in Nat, NEW j \in Nat,
         ins = <<"stop">> \/ \A a \in Nat : Straight(ins, a + k, a + j)
  PROVE  Turns(<<ins>>, k, j)
<1>1. ASSUME NEW a \in Nat PROVE Balanced(<<ins>>, a + k, a + j)
  <2>1. a + k \in Int /\ a + j \in Int
    OBVIOUS
  <2> QED
    BY <2>1, OneStep
<1> QED
  BY <1>1 DEF Turns

\* An instruction that leaves the stack alone leaves every operand there.
LEMMA PlainStep ==
  ASSUME NEW ins, Plain(ins), NEW k \in Nat
  PROVE  Turns(<<ins>>, k, k)
<1>1. \A a \in Nat : Straight(ins, a + k, a + k)
  BY DEF Straight
<1> QED
  BY <1>1, Step

\* Several instructions that leave the stack alone.
LEMMA PlainCode ==
  ASSUME NEW s, IsSeq(s), \A i \in 1 .. Len(s) : Plain(s[i]), NEW k \in Nat
  PROVE  Turns(s, k, k)
<1>1. Len(s) \in Nat
  BY SeqFacts
<1>2. ASSUME NEW a \in Nat PROVE Balanced(s, a + k, a + k)
  <2> DEFINE x == a + k
             d == [i \in 1 .. Len(s) + 1 |-> x]
  <2>1. d \in [1 .. Len(s) + 1 -> Int] /\ d[1] = x /\ d[Len(s) + 1] = x
    BY <1>1
  <2>2. ASSUME NEW i \in 1 .. Len(s) PROVE Flows(s, d, i)
    <3>1. d[i] = x /\ d[i + 1] = x /\ x >= 0 /\ x \in 0 .. x
      BY <1>1
    <3> HIDE DEF d, x
    <3> QED
      BY <3>1 DEF Flows, Straight
  <2>3. x \in Int
    OBVIOUS
  <2> HIDE DEF d, x
  <2>4. Depths(s, x, x, d)
    BY <2>1, <2>2 DEF Depths
  <2>5. Balanced(s, x, x)
    BY <2>3, <2>4 DEF Balanced
  <2> QED
    BY <2>5 DEF x
<1> QED
  BY <1>2 DEF Turns

-----------------------------------------------------------------------------
\* Jumps.

\* One of two pieces of code.
LEMMA Either ==
  ASSUME NEW x, NEW s, NEW t, NEW a \in Nat, NEW b \in Nat, Balanced(s, a, b), Balanced(t, a, b)
  PROVE  Balanced(((<<<<"jcc", x, Len(s) + 1>>>> \o s) \o <<<<"jmp", Len(t)>>>>) \o t, a, b)
<1> DEFINE J == <<"jcc", x, Len(s) + 1>>
           M == <<"jmp", Len(t)>>
           p == Len(s)
           q == Len(t)
           c1 == <<J>> \o s
           c2 == c1 \o <<M>>
           c == c2 \o t
<1>1. PICK d : Depths(s, a, b, d)
  BY DEF Balanced
<1>2. PICK e : Depths(t, a, b, e)
  BY DEF Balanced
<1>3. IsSeq(s) /\ IsSeq(t) /\ p \in Nat /\ q \in Nat
  BY SeqFacts DEF Balanced
<1> USE DEF Balanced
<1>4. d \in [1 .. p + 1 -> Int] /\ d[1] = a /\ d[p + 1] = b /\ \A i \in 1 .. p : Flows(s, d, i)
  BY <1>1 DEF Depths
<1>5. e \in [1 .. q + 1 -> Int] /\ e[1] = a /\ e[q + 1] = b /\ \A i \in 1 .. q : Flows(t, e, i)
  BY <1>2 DEF Depths
<1> HIDE DEF J, M
<1>6. IsSeq(c1) /\ Len(c1) = p + 1 /\ c1[1] = J /\ \A i \in 1 .. p : c1[1 + i] = s[i]
  BY <1>3, OneConcat
<1> HIDE DEF c1
<1>7. IsSeq(c2) /\ Len(c2) = p + 2 /\ c2[p + 2] = M /\ \A i \in 1 .. p + 1 : c2[i] = c1[i]
  <2>1. /\ IsSeq(c1 \o <<M>>) /\ Len(c1 \o <<M>>) = Len(c1) + 1
        /\ (c1 \o <<M>>)[Len(c1) + 1] = M
        /\ \A i \in 1 .. Len(c1) : (c1 \o <<M>>)[i] = c1[i]
    BY <1>6, ConcatOne
  <2>2. (p + 1) + 1 = p + 2
    BY <1>3
  <2>3. c2 = c1 \o <<M>>
    BY DEF c2
  <2> HIDE DEF p, c2
  <2>4. /\ IsSeq(c2) /\ Len(c2) = Len(c1) + 1 /\ c2[Len(c1) + 1] = M
        /\ \A i \in 1 .. Len(c1) : c2[i] = c1[i]
    BY <2>1, <2>3, Zenon
  <2> QED
    BY <1>6, <2>2, <2>4
<1> HIDE DEF c2
<1>8. /\ IsSeq(c) /\ Len(c) = p + 2 + q
      /\ \A i \in 1 .. p + 2 : c[i] = c2[i]
      /\ \A i \in 1 .. q : c[p + 2 + i] = t[i]
  <2>1. /\ IsSeq(c2 \o t) /\ Len(c2 \o t) = Len(c2) + Len(t)
        /\ \A i \in 1 .. Len(c2) : (c2 \o t)[i] = c2[i]
        /\ \A i \in 1 .. Len(t) : (c2 \o t)[Len(c2) + i] = t[i]
    <3>1. IsSeq(c2) /\ IsSeq(t)
      BY <1>3, <1>7
    <3> QED
      BY <3>1, Concat
  <2>2. c = c2 \o t
    BY DEF c
  <2> HIDE DEF p, c
  <2>3. /\ IsSeq(c) /\ Len(c) = Len(c2) + Len(t)
        /\ \A i \in 1 .. Len(c2) : c[i] = c2[i]
        /\ \A i \in 1 .. Len(t) : c[Len(c2) + i] = t[i]
    BY <2>1, <2>2, Zenon
  <2> QED
    BY <1>7, <2>3 DEF q
<1> HIDE DEF c
<1>9. /\ c[1] = J /\ c[p + 2] = M
      /\ \A i \in 1 .. p : c[1 + i] = s[i]
  <2>1. p \in Nat
    BY <1>3
  <2> HIDE DEF p
  <2>2. 1 \in 1 .. p + 2 /\ 1 \in 1 .. p + 1 /\ p + 2 \in 1 .. p + 2
    BY <2>1
  <2>3. c[1] = J /\ c[p + 2] = M
    BY <1>6, <1>7, <1>8, <2>2
  <2>4. ASSUME NEW i \in 1 .. p PROVE c[1 + i] = s[i]
    <3>1. 1 + i \in 1 .. p + 2 /\ 1 + i \in 1 .. p + 1
      BY <2>1
    <3>2. c[1 + i] = c2[1 + i] /\ c2[1 + i] = c1[1 + i] /\ c1[1 + i] = s[i]
      BY <1>6, <1>7, <1>8, <3>1
    <3> QED
      BY <3>2
  <2> QED
    BY <2>3, <2>4
<1>10. J[1] = "jcc" /\ J[3] = p + 1 /\ M[1] = "jmp" /\ M[2] = q
  BY DEF J, M
<1> DEFINE h == [i \in 1 .. p + q + 3 |-> IF i = 1 THEN a ELSE
                                          IF i <= p + 2 THEN d[i - 1] ELSE e[i - (p + 2)]]
<1>n. p \in Nat /\ q \in Nat
  BY <1>3
<1> HIDE DEF p, q
<1>11. h \in [1 .. Len(c) + 1 -> Int] /\ h[1] = a /\ h[2] = a
  BY <1>4, <1>5, <1>8, <1>n
<1>12. \A i \in 1 .. p + 1 : h[1 + i] = d[i]
  BY <1>4, <1>n
<1>13. \A i \in 1 .. q + 1 : h[p + 2 + i] = e[i]
  <2>1. ASSUME NEW i \in 1 .. q + 1 PROVE h[p + 2 + i] = e[i]
    <3>1. p + 2 + i \in 1 .. p + q + 3 /\ p + 2 + i # 1 /\ ~ (p + 2 + i <= p + 2)
          /\ (p + 2 + i) - (p + 2) = i
      BY <1>n
    <3> QED
      BY <3>1
  <2> QED
    BY <2>1
<1> HIDE DEF h
<1>14. h[p + 2] = b /\ h[p + 3] = a /\ h[Len(c) + 1] = b
  <2>1. h[1 + (p + 1)] = d[p + 1] /\ h[(p + 2) + 1] = e[1] /\ h[(p + 2) + (q + 1)] = e[q + 1]
    BY <1>n, <1>12, <1>13
  <2>2. 1 + (p + 1) = p + 2 /\ (p + 2) + 1 = p + 3 /\ (p + 2) + (q + 1) = Len(c) + 1
    BY <1>n, <1>8
  <2> QED
    BY <1>4, <1>5, <2>1, <2>2
<1>15. Flows(c, h, 1)
  <2>1. 1 + 1 + (p + 1) = p + 3 /\ p + 3 \in 1 .. Len(c) + 1 /\ a \in 0 .. a
    BY <1>n, <1>8
  <2>2. Leads(c, h, 1, p + 1)
    BY <1>11, <1>14, <1>n, <2>1 DEF Leads
  <2> QED
    BY <1>9, <1>10, <1>11, <2>1, <2>2 DEF Flows
<1>16. Flows(c, h, p + 2)
  <2>1. (p + 2) + 1 + q = Len(c) + 1 /\ Len(c) + 1 \in 1 .. Len(c) + 1 /\ b \in 0 .. b
    BY <1>n, <1>8
  <2>2. Leads(c, h, p + 2, q)
    BY <1>14, <1>n, <2>1 DEF Leads
  <2> QED
    BY <1>9, <1>10, <2>2 DEF Flows
<1>17. ASSUME NEW i \in 1 .. p PROVE Flows(c, h, 1 + i)
  <2>1. 1 + Len(s) <= Len(c) /\ Len(c) \in Nat /\ Len(s) \in Nat
    BY <1>n, <1>8 DEF p
  <2>2. i \in 1 .. Len(s) /\ c[1 + i] = s[i] /\ Flows(s, d, i)
        /\ \A j \in 1 .. Len(s) + 1 : h[1 + j] = d[j]
    BY <1>4, <1>9, <1>12 DEF p
  <2> QED
    BY <2>1, <2>2, FlowsInside
<1>18. ASSUME NEW i \in 1 .. q PROVE Flows(c, h, p + 2 + i)
  <2>1. p + 2 + Len(t) <= Len(c) /\ Len(c) \in Nat /\ Len(t) \in Nat /\ p + 2 \in Nat
    BY <1>n, <1>8 DEF q
  <2>2. i \in 1 .. Len(t) /\ c[p + 2 + i] = t[i] /\ Flows(t, e, i)
        /\ \A j \in 1 .. Len(t) + 1 : h[p + 2 + j] = e[j]
    BY <1>5, <1>8, <1>13 DEF q
  <2> QED
    BY <2>1, <2>2, FlowsInside
<1>19. ASSUME NEW i \in 1 .. Len(c) PROVE Flows(c, h, i)
  <2>1. CASE i = 1 \/ i = p + 2
    BY <1>15, <1>16, <2>1
  <2>2. CASE i \in 2 .. p + 1
    <3>1. i - 1 \in 1 .. p /\ i = 1 + (i - 1)
      BY <1>n, <2>2
    <3> QED
      BY <1>17, <3>1
  <2>3. CASE i > p + 2
    <3>1. i - (p + 2) \in 1 .. q /\ i = (p + 2) + (i - (p + 2))
      BY <1>n, <1>8, <2>3
    <3> QED
      BY <1>18, <3>1
  <2> QED
    BY <1>n, <2>1, <2>2, <2>3
<1>20. Depths(c, a, b, h)
  BY <1>11, <1>14, <1>19 DEF Depths
<1>21. Balanced(c, a, b)
  BY <1>8, <1>20
<1> QED
  BY <1>21 DEF c, c2, c1, J, M, p, q

-----------------------------------------------------------------------------
\* A loop: the test, the body, and back to the test.
LEMMA Loop ==
  ASSUME NEW s, NEW t, Balanced(s, 0, 0), Balanced(t, 0, 0)
  PROVE  LET enter == s \o <<<<"jcc", "e", Len(t) + 1>>>>
         IN Balanced((enter \o t) \o <<<<"jmp", -(Len(enter) + Len(t) + 1)>>>>, 0, 0)
<1> DEFINE J == <<"jcc", "e", Len(t) + 1>>
           p == Len(s)
           q == Len(t)
           c1 == s \o <<J>>
           M == <<"jmp", -(Len(c1) + q + 1)>>
           c2 == c1 \o t
           c == c2 \o <<M>>
<1>1. PICK d : Depths(s, 0, 0, d)
  BY DEF Balanced
<1>2. PICK e : Depths(t, 0, 0, e)
  BY DEF Balanced
<1>3. IsSeq(s) /\ IsSeq(t) /\ p \in Nat /\ q \in Nat
  BY SeqFacts DEF Balanced
<1>s. IsSeq(s) /\ IsSeq(t)
  BY <1>3
<1>4. d \in [1 .. p + 1 -> Int] /\ d[1] = 0 /\ d[p + 1] = 0 /\ \A i \in 1 .. p : Flows(s, d, i)
  BY <1>1 DEF Depths
<1>5. e \in [1 .. q + 1 -> Int] /\ e[1] = 0 /\ e[q + 1] = 0 /\ \A i \in 1 .. q : Flows(t, e, i)
  BY <1>2 DEF Depths
<1>6. IsSeq(c1) /\ Len(c1) = p + 1 /\ c1[p + 1] = J /\ \A i \in 1 .. p : c1[i] = s[i]
  <2> HIDE DEF J
  <2> QED
    BY <1>s, ConcatOne
<1>t. IsSeq(c1)
  BY <1>6
<1>7. /\ IsSeq(c2) /\ Len(c2) = p + 1 + q
      /\ \A i \in 1 .. p + 1 : c2[i] = c1[i]
      /\ \A i \in 1 .. q : c2[p + 1 + i] = t[i]
  <2> HIDE DEF c1, J, p, q
  <2>1. /\ IsSeq(c2) /\ Len(c2) = Len(c1) + Len(t)
        /\ \A i \in 1 .. Len(c1) : c2[i] = c1[i]
        /\ \A i \in 1 .. Len(t) : c2[Len(c1) + i] = t[i]
    BY <1>s, <1>t, Concat
  <2> HIDE DEF c2
  <2> QED
    BY <1>6, <2>1 DEF q
<1>u. IsSeq(c2)
  BY <1>7
<1>8. IsSeq(c) /\ Len(c) = p + q + 2 /\ c[p + q + 2] = M /\ \A i \in 1 .. p + 1 + q : c[i] = c2[i]
  <2> HIDE DEF c2, M, p, q
  <2>1. /\ IsSeq(c) /\ Len(c) = Len(c2) + 1 /\ c[Len(c2) + 1] = M
        /\ \A i \in 1 .. Len(c2) : c[i] = c2[i]
    BY <1>u, ConcatOne
  <2>2. (p + 1 + q) + 1 = p + q + 2
    BY <1>3
  <2> HIDE DEF c
  <2> QED
    BY <1>7, <2>1, <2>2
<1>9. J[1] = "jcc" /\ J[3] = q + 1 /\ M[1] = "jmp" /\ M[2] = -(p + 1 + q + 1)
  <2>1. M[1] = "jmp" /\ M[2] = -(Len(c1) + q + 1)
    <3> HIDE DEF c1, q
    <3> QED
      OBVIOUS
  <2>2. J[1] = "jcc" /\ J[3] = q + 1
    OBVIOUS
  <2> QED
    BY <1>6, <2>1, <2>2
<1> HIDE DEF J, M, c1, c2, c
<1>n. p \in Nat /\ q \in Nat
  BY <1>3
<1> HIDE DEF p, q
<1>10. /\ \A i \in 1 .. p : c[i] = s[i]
       /\ c[p + 1] = J
       /\ \A i \in 1 .. q : c[p + 1 + i] = t[i]
  <2>1. ASSUME NEW i \in 1 .. p PROVE c[i] = s[i]
    <3>1. i \in 1 .. p + 1 /\ i \in 1 .. p + 1 + q
      BY <1>n
    <3> QED
      BY <1>6, <1>7, <1>8, <3>1
  <2>2. c[p + 1] = J
    <3>1. p + 1 \in 1 .. p + 1 /\ p + 1 \in 1 .. p + 1 + q
      BY <1>n
    <3> QED
      BY <1>6, <1>7, <1>8, <3>1
  <2>3. ASSUME NEW i \in 1 .. q PROVE c[p + 1 + i] = t[i]
    <3>1. p + 1 + i \in 1 .. p + 1 + q
      BY <1>n
    <3> QED
      BY <1>7, <1>8, <3>1
  <2> QED
    BY <2>1, <2>2, <2>3
<1> DEFINE h == [i \in 1 .. p + q + 3 |-> IF i <= p + 1 THEN d[i] ELSE
                                          IF i <= p + q + 2 THEN e[i - (p + 1)] ELSE 0]
<1>11. h \in [1 .. Len(c) + 1 -> Int] /\ h[1] = 0 /\ h[p + 1] = 0 /\ h[Len(c) + 1] = 0
       /\ \A i \in 1 .. p + 1 : h[0 + i] = d[i]
  BY <1>4, <1>5, <1>8, <1>n
<1>12. ASSUME NEW i \in 1 .. q + 1 PROVE h[p + 1 + i] = e[i]
  <2>1. p + 1 + i \in 1 .. p + q + 3 /\ ~ (p + 1 + i <= p + 1)
        /\ p + 1 + i <= p + q + 2 /\ (p + 1 + i) - (p + 1) = i
    BY <1>n
  <2> QED
    BY <2>1
<1> HIDE DEF h
<1>13. h[(p + 1) + 1] = 0 /\ h[p + q + 2] = 0
  <2>1. h[p + 1 + 1] = e[1] /\ h[p + 1 + (q + 1)] = e[q + 1]
    BY <1>n, <1>12
  <2>2. p + 1 + (q + 1) = p + q + 2
    BY <1>n
  <2> QED
    BY <1>5, <2>1, <2>2
<1>14. Flows(c, h, p + 1)
  <2>1. (p + 1) + 1 + (q + 1) = Len(c) + 1 /\ Len(c) + 1 \in 1 .. Len(c) + 1 /\ 0 \in 0 .. 0
    BY <1>n, <1>8
  <2>2. Leads(c, h, p + 1, q + 1)
    BY <1>11, <1>n, <2>1 DEF Leads
  <2> QED
    BY <1>9, <1>10, <1>11, <1>13, <2>1, <2>2 DEF Flows
<1>15. Flows(c, h, p + q + 2)
  <2>1. (p + q + 2) + 1 + (-(p + 1 + q + 1)) = 1 /\ 1 \in 1 .. Len(c) + 1 /\ 0 \in 0 .. 0
        /\ -(p + 1 + q + 1) \in Int
    BY <1>n, <1>8
  <2>2. Leads(c, h, p + q + 2, -(p + 1 + q + 1))
    BY <1>11, <1>13, <2>1 DEF Leads
  <2> QED
    BY <1>8, <1>9, <2>2 DEF Flows
<1>16. ASSUME NEW i \in 1 .. p PROVE Flows(c, h, 0 + i)
  <2>1. 0 + Len(s) <= Len(c) /\ Len(c) \in Nat /\ Len(s) \in Nat /\ 0 + i = i
    BY <1>n, <1>8 DEF p
  <2>2. i \in 1 .. Len(s) /\ c[0 + i] = s[i] /\ Flows(s, d, i)
        /\ \A j \in 1 .. Len(s) + 1 : h[0 + j] = d[j]
    BY <1>4, <1>10, <1>11, <2>1 DEF p
  <2> QED
    BY <2>1, <2>2, FlowsInside
<1>17. ASSUME NEW i \in 1 .. q PROVE Flows(c, h, p + 1 + i)
  <2>1. p + 1 + Len(t) <= Len(c) /\ Len(c) \in Nat /\ Len(t) \in Nat /\ p + 1 \in Nat
    BY <1>n, <1>8 DEF q
  <2>2. i \in 1 .. Len(t) /\ c[p + 1 + i] = t[i] /\ Flows(t, e, i)
        /\ \A j \in 1 .. Len(t) + 1 : h[p + 1 + j] = e[j]
    BY <1>5, <1>10, <1>12 DEF q
  <2> QED
    BY <2>1, <2>2, FlowsInside
<1>18. ASSUME NEW i \in 1 .. Len(c) PROVE Flows(c, h, i)
  <2>1. CASE i = p + 1 \/ i = p + q + 2
    BY <1>14, <1>15, <2>1
  <2>2. CASE i <= p
    <3>1. i \in 1 .. p /\ 0 + i = i
      BY <1>n, <2>2
    <3>2. Flows(c, h, 0 + i)
      BY <1>16, <3>1
    <3> QED
      BY <3>1, <3>2
  <2>3. CASE i \in p + 2 .. p + q + 1
    <3>1. i - (p + 1) \in 1 .. q /\ i = (p + 1) + (i - (p + 1))
      BY <1>n, <2>3
    <3> QED
      BY <1>17, <3>1
  <2>4. i <= p \/ i = p + 1 \/ i \in p + 2 .. p + q + 1 \/ i = p + q + 2
    BY <1>n, <1>8
  <2> QED
    BY <2>1, <2>2, <2>3, <2>4
<1>19. Depths(c, 0, 0, h)
  BY <1>11, <1>18 DEF Depths
<1>20. Balanced(c, 0, 0)
  BY <1>8, <1>19 DEF Balanced
<1> QED
  BY <1>20 DEF c, c2, c1, J, M, p, q

\* The label a break or continue jumps to.
LEMMA LabelledCode ==
  ASSUME NEW s, Balanced(s, 0, 0), NEW jump \in {"break", "continue"}, NEW n \in {0, Len(s)}
  PROVE  Balanced(Labelled(s, jump, n), 0, 0) /\ Len(Labelled(s, jump, n)) = Len(s)
<1> DEFINE c == Labelled(s, jump, n)
<1>1. PICK d : Depths(s, 0, 0, d)
  BY DEF Balanced
<1>2. IsSeq(s) /\ Len(s) \in Nat /\ DOMAIN s = 1 .. Len(s) /\ n \in 0 .. Len(s)
  BY SeqFacts DEF Balanced
<1>3. d \in [1 .. Len(s) + 1 -> Int] /\ d[1] = 0 /\ d[Len(s) + 1] = 0
      /\ \A i \in 1 .. Len(s) : Flows(s, d, i)
  BY <1>1 DEF Depths
<1>4. c = [i \in 1 .. Len(s) |-> c[i]]
      /\ \A i \in 1 .. Len(s) : c[i] = IF s[i] = <<jump>> THEN <<"jmp", n - i>> ELSE s[i]
  <2>1. c = [i \in 1 .. Len(s) |-> IF s[i] = <<jump>> THEN <<"jmp", n - i>> ELSE s[i]]
    BY <1>2 DEF Labelled
  <2> HIDE DEF c
  <2> QED
    BY <2>1
<1> HIDE DEF c
<1>5. IsSeq(c) /\ Len(c) = Len(s)
  BY <1>2, <1>4, FunctionIsSeq
<1> DEFINE m == Len(s)
<1>m. m \in Nat /\ n \in 0 .. m /\ Len(c) = m /\ (n = 0 \/ n = m)
  BY <1>2, <1>5
<1> HIDE DEF m
<1>6. d[n + 1] = 0
  <2>1. d[1] = 0 /\ d[m + 1] = 0 /\ 0 + 1 = 1
    BY <1>3 DEF m
  <2> QED
    BY <1>m, <2>1
<1>7. ASSUME NEW i \in 1 .. Len(s) PROVE Flows(c, d, i)
  <2>1. \A k : Leads(s, d, i, k) => Leads(c, d, i, k)
    BY <1>5 DEF Leads
  <2>2. Flows(s, d, i)
    BY <1>3
  <2>3. CASE s[i] # <<jump>>
    <3>1. c[i] = s[i]
      BY <1>4, <2>3
    <3> QED
      BY <2>1, <2>2, <3>1 DEF Flows
  <2>4. CASE s[i] = <<jump>>
    <3>1. s[i][1] \in {"break", "continue"}
      BY <2>4
    <3>2. s[i][1] = "break" \/ s[i][1] = "continue"
      BY <3>1
    <3>3. ~ Straight(s[i], d[i], d[i + 1])
      <4>1. <<"push", "rbp">>[1] = "push" /\ <<"mov", "rsp", "rbp">>[1] = "mov"
            /\ <<"mov", "rbp", "rsp">>[1] = "mov" /\ <<"pop", "rbp">>[1] = "pop"
        OBVIOUS
      <4> QED
        BY <3>2, <4>1 DEF Straight, Plain, Moves, Prologues, Epilogues
    <3>4. d[i] >= 0 /\ d[i] \in Int
      <4>1. <<"ret">>[1] = "ret" /\ <<"stop">>[1] = "stop"
        OBVIOUS
      <4>2. s[i][1] \notin {"jmp", "jcc", "ret", "stop"}
        BY <3>2
      <4>3. s[i] # <<"ret">> /\ s[i] # <<"stop">>
        BY <4>1, <4>2
      <4>4. d[i] >= 0
        BY <2>2, <3>3, <4>2, <4>3 DEF Flows
      <4>5. i \in 1 .. m + 1 /\ d \in [1 .. m + 1 -> Int]
        BY <1>3, <1>m DEF m
      <4> QED
        BY <4>4, <4>5
    <3>5. c[i] = <<"jmp", n - i>>
      BY <1>4, <2>4
    <3>6. c[i][1] = "jmp" /\ c[i][2] = n - i
      BY <3>5
    <3>7. i + 1 + (n - i) = n + 1 /\ n - i \in Int /\ n + 1 \in 1 .. Len(c) + 1
      <4>1. i \in 1 .. m
        BY DEF m
      <4> QED
        BY <1>m, <4>1
    <3>8. Leads(c, d, i, n - i)
      BY <1>6, <3>4, <3>7 DEF Leads
    <3> QED
      BY <3>6, <3>8 DEF Flows
  <2> QED
    BY <2>3, <2>4
<1>8. Depths(c, 0, 0, d)
  BY <1>3, <1>5, <1>7 DEF Depths
<1> QED
  BY <1>5, <1>8 DEF Balanced, c

\* How long the first i sequences of s are together.
Lens(s) == [i \in DOMAIN s |-> Len(s[i])]
End(s, i) == PartialSum(Lens(s), i)

\* The sequences that FlattenSeq joins, and where each of them begins.
LEMMA FlattenAt ==
  ASSUME NEW s, IsSeq(s), \A i \in 1 .. Len(s) : IsSeq(s[i])
  PROVE  /\ End(s, 0) = 0
         /\ \A i \in 0 .. Len(s) : End(s, i) \in Nat
         /\ \A i \in 1 .. Len(s) : End(s, i) = End(s, i - 1) + Len(s[i])
         /\ \A i \in 0 .. Len(s) : \A j \in 0 .. i : End(s, j) <= End(s, i)
         /\ IsSeq(FlattenSeq(s)) /\ Len(FlattenSeq(s)) = End(s, Len(s))
         /\ \A i \in 1 .. Len(s) : \A k \in 1 .. Len(s[i]) :
              FlattenSeq(s)[End(s, i - 1) + k] = s[i][k]
<1> DEFINE n == Len(s)
           lens == Lens(s)
<1>0. n \in Nat /\ DOMAIN s = 1 .. n
  BY SeqFacts
<1>1. DOMAIN s = 1 .. n /\ \A i \in 1 .. n : lens[i] = Len(s[i]) /\ Len(s[i]) \in Nat
  <2>1. \A i \in 1 .. n : Len(s[i]) \in Nat
    BY SeqFacts
  <2> HIDE DEF n
  <2> QED
    BY <1>0, <2>1 DEF Lens
<1> HIDE DEF lens
<1>2. PICK l : /\ l = [i \in 0 .. n |-> l[i]]
               /\ \A i \in 0 .. n : IsSeq(l[i])
               /\ l[0] = <<>> /\ FlattenSeq(s) = l[n]
               /\ \A i \in 1 .. n : l[i] = l[i - 1] \o s[i]
  BY FlattenLevels
<1>3. /\ PartialSum(lens, 0) = 0
      /\ \A i \in Nat : PartialSum(lens, i + 1) = PartialSum(lens, i) + lens[i + 1]
  BY PartialSumStep
<1>n. n \in Nat /\ \A i \in 1 .. n : IsSeq(s[i])
  BY <1>0
<1> DEFINE At(i) == PartialSum(lens, i)
<1> HIDE DEF At, n
<1> USE <1>n
<1>4. At(0) = 0 /\ \A i \in 1 .. n : At(i) = At(i - 1) + Len(s[i])
  <2>1. ASSUME NEW i \in 1 .. n PROVE At(i) = At(i - 1) + Len(s[i])
    <3>1. i - 1 \in Nat /\ (i - 1) + 1 = i
      OBVIOUS
    <3>2. At((i - 1) + 1) = At(i - 1) + lens[(i - 1) + 1]
      BY <1>3, <3>1 DEF At
    <3> QED
      BY <1>1, <1>n, <3>1, <3>2
  <2> QED
    BY <1>3, <2>1 DEF At
<1>N. \A i \in 0 .. n : At(i) \in Nat
  <2> DEFINE V == {i \in Nat : i <= n => At(i) \in Nat}
  <2>1. 0 \in V
    BY <1>4
  <2>2. ASSUME NEW i \in V PROVE i + 1 \in V
    <3> SUFFICES ASSUME i + 1 <= n PROVE At(i + 1) \in Nat
      OBVIOUS
    <3>1. i + 1 \in 1 .. n /\ (i + 1) - 1 = i /\ At(i) \in Nat
      OBVIOUS
    <3> QED
      BY <1>1, <1>n, <1>4, <3>1
  <2>3. V = Nat
    BY <2>1, <2>2, SetInduction
  <2> QED
    BY <1>n, <2>3
<1> DEFINE Joined(i) ==
             /\ At(i) \in Nat /\ Len(l[i]) = At(i)
             /\ \A j \in 0 .. i : At(j) <= At(i)
             /\ \A j \in 1 .. i : \A k \in 1 .. Len(s[j]) : l[i][At(j - 1) + k] = s[j][k]
           S == {i \in Nat : i <= n => Joined(i)}
<1>5. 0 \in S
  <2>1. Len(<<>>) = 0
    BY Empty DEF Balanced
  <2> QED
    BY <1>2, <1>4, <2>1
<1>6. ASSUME NEW i \in S PROVE i + 1 \in S
  <2> SUFFICES ASSUME i + 1 <= n PROVE Joined(i + 1)
    OBVIOUS
  <2>1. i + 1 \in 1 .. n /\ (i + 1) - 1 = i /\ i \in 0 .. n /\ Joined(i) /\ i \in Nat
    OBVIOUS
  <2>2. l[i + 1] = l[i] \o s[i + 1] /\ IsSeq(l[i]) /\ IsSeq(s[i + 1])
        /\ At(i + 1) = At(i) + Len(s[i + 1]) /\ Len(s[i + 1]) \in Nat
    BY <1>1, <1>n, <1>2, <1>4, <2>1
  <2>a. IsSeq(l[i]) /\ IsSeq(s[i + 1])
    BY <2>2
  <2> DEFINE c == l[i] \o s[i + 1]
  <2>3. /\ Len(c) = Len(l[i]) + Len(s[i + 1])
        /\ \A k \in 1 .. Len(l[i]) : c[k] = l[i][k]
        /\ \A k \in 1 .. Len(s[i + 1]) : c[Len(l[i]) + k] = s[i + 1][k]
    <3>1. PICK u, v : u = l[i] /\ v = s[i + 1]
      OBVIOUS
    <3>2. IsSeq(u) /\ IsSeq(v)
      BY <2>a, <3>1
    <3>3. /\ Len(u \o v) = Len(u) + Len(v)
          /\ \A k \in 1 .. Len(u) : (u \o v)[k] = u[k]
          /\ \A k \in 1 .. Len(v) : (u \o v)[Len(u) + k] = v[k]
      BY <3>2, Concat
    <3>4. c = u \o v
      BY <3>1
    <3> HIDE DEF c
    <3> QED
      BY <3>1, <3>3, <3>4
  <2>4. l[i + 1] = c
    BY <2>2
  <2> HIDE DEF c
  <2>5. At(i + 1) \in Nat /\ Len(c) = At(i + 1)
    BY <2>1, <2>2, <2>3
  <2>6. \A j \in 0 .. i + 1 : At(j) <= At(i + 1)
    <3>1. \A j \in 0 .. i : At(j) <= At(i) /\ At(j) \in Int
      BY <1>N, <2>1
    <3>2. At(i) <= At(i + 1) /\ At(i) \in Nat /\ At(i + 1) \in Nat
      BY <2>1, <2>2, <2>5
    <3>3. ASSUME NEW j \in 0 .. i + 1 PROVE At(j) <= At(i + 1)
      <4>1. CASE j = i + 1
        BY <3>2, <4>1
      <4>2. CASE j # i + 1
        <5>1. j \in 0 .. i
          BY <2>1, <4>2
        <5> QED
          BY <3>1, <3>2, <5>1
      <4> QED
        BY <4>1, <4>2
    <3> QED
      BY <3>3
  <2>7. ASSUME NEW j \in 1 .. i + 1, NEW k \in 1 .. Len(s[j])
        PROVE  c[At(j - 1) + k] = s[j][k]
    <3>1. CASE j = i + 1
      <4>1. j - 1 = i /\ Len(l[i]) = At(i)
        BY <2>1, <3>1
      <4> QED
        BY <2>3, <3>1, <4>1
    <3>2. CASE j # i + 1
      <4>1. j \in 1 .. i /\ j \in 1 .. n /\ j \in 0 .. i /\ j - 1 \in 0 .. i
        BY <2>1, <3>2
      <4>2. At(j) = At(j - 1) + Len(s[j]) /\ At(j) <= At(i) /\ Len(s[j]) \in Nat
            /\ l[i][At(j - 1) + k] = s[j][k] /\ At(i) \in Nat
        BY <1>1, <1>n, <1>4, <2>1, <4>1
      <4>3. At(j - 1) \in Nat
        BY <1>N, <2>1, <4>1
      <4>4. At(j - 1) + k \in 1 .. Len(l[i])
        BY <2>1, <4>2, <4>3
      <4> QED
        BY <2>3, <4>2, <4>4
    <3> QED
      BY <3>1, <3>2
  <2> QED
    BY <2>4, <2>5, <2>6, <2>7
<1>7. S = Nat
  <2> HIDE DEF Joined
  <2> QED
    BY <1>5, <1>6, SetInduction
<1>8. \A i \in 0 .. n : Joined(i)
  <2> HIDE DEF Joined
  <2> QED
    BY <1>7, <1>n
<1>9. Joined(n) /\ n \in 0 .. n
  <2> HIDE DEF Joined
  <2> QED
    BY <1>8, <1>n
<1> QED
  BY <1>2, <1>4, <1>8, <1>9 DEF At, End, n, lens

-----------------------------------------------------------------------------
\* The depths of joined pieces of code.
LEMMA FlattenDepths ==
  ASSUME NEW s, IsSeq(s), NEW n \in Nat, n = Len(s),
         NEW h, \A i \in 0 .. n : h[i] \in Int,
         \A i \in 1 .. n : Balanced(s[i], h[i - 1], h[i])
  PROVE  /\ IsSeq(FlattenSeq(s))
         /\ \E d : /\ Depths(FlattenSeq(s), h[0], h[n], d)
                   /\ \A i \in 0 .. n : d[End(s, i) + 1] = h[i]
<1>1. \A i \in 1 .. Len(s) : IsSeq(s[i])
  BY DEF Balanced
<1> DEFINE At(i) == End(s, i)
<1>2. /\ At(0) = 0
      /\ \A i \in 0 .. n : At(i) \in Nat
      /\ \A i \in 1 .. n : At(i) = At(i - 1) + Len(s[i])
      /\ \A i \in 0 .. n : \A j \in 0 .. i : At(j) <= At(i)
      /\ IsSeq(FlattenSeq(s))
  BY <1>1, FlattenAt
<1>3. PICK l : /\ l = [i \in 0 .. n |-> l[i]]
               /\ \A i \in 0 .. n : IsSeq(l[i])
               /\ l[0] = <<>> /\ FlattenSeq(s) = l[n]
               /\ \A i \in 1 .. n : l[i] = l[i - 1] \o s[i]
  BY <1>1, FlattenLevels
<1>4. At(0) = 0
  BY <1>2
<1> HIDE DEF At
<1> DEFINE Joined(i, d) == Depths(l[i], h[0], h[i], d) /\ \A j \in 0 .. i : d[At(j) + 1] = h[j]
           S == {i \in Nat : i <= n => Len(l[i]) = At(i) /\ \E d : Joined(i, d)}
<1>5. 0 \in S
  <2>1. Len(<<>>) = 0 /\ h[0] \in Int
    BY Empty DEF Balanced
  <2>2. PICK d : Depths(<<>>, h[0], h[0], d)
    BY <2>1, Empty DEF Balanced
  <2>3. d[0 + 1] = h[0]
    BY <2>1, <2>2 DEF Depths
  <2>4. Joined(0, d)
    BY <1>3, <1>4, <2>2, <2>3
  <2> HIDE DEF Joined
  <2> QED
    BY <1>3, <1>4, <2>1, <2>4
<1>6. ASSUME NEW i \in S PROVE i + 1 \in S
  <2> SUFFICES ASSUME i + 1 <= n PROVE Len(l[i + 1]) = At(i + 1) /\ \E d : Joined(i + 1, d)
    OBVIOUS
  <2>1. i + 1 \in 1 .. n /\ (i + 1) - 1 = i /\ i \in 0 .. n /\ i + 1 \in 0 .. n /\ i \in Nat
    OBVIOUS
  <2>2. PICK d : Len(l[i]) = At(i) /\ Joined(i, d)
    <3> HIDE DEF Joined
    <3> QED
      BY <2>1
  <2>3. PICK u, v : u = l[i] /\ v = s[i + 1]
    OBVIOUS
  <2>4. /\ l[i + 1] = u \o v /\ IsSeq(u) /\ At(i + 1) = At(i) + Len(v)
        /\ Balanced(v, h[i], h[i + 1]) /\ h[0] \in Int /\ h[i] \in Int /\ h[i + 1] \in Int
        /\ At(i) \in Nat /\ At(i + 1) \in Nat /\ Len(u) = At(i)
    <3>1. Len(l[i]) = At(i)
      BY <2>2
    <3>2. l[i + 1] = l[i] \o s[i + 1] /\ IsSeq(l[i])
      BY <1>3, <2>1
    <3>3. At(i + 1) = At(i) + Len(s[i + 1]) /\ At(i) \in Nat /\ At(i + 1) \in Nat
      BY <1>2, <2>1
    <3>4. h[0] \in Int /\ h[i] \in Int /\ h[i + 1] \in Int
      BY <2>1
    <3>5. Balanced(s[i + 1], h[i], h[i + 1])
      BY <2>1
    <3> QED
      BY <2>3, <3>1, <3>2, <3>3, <3>4, <3>5
  <2>5. Depths(u, h[0], h[i], d) /\ \A j \in 0 .. i : d[At(j) + 1] = h[j]
    BY <2>2, <2>3
  <2>6. Balanced(u, h[0], h[i])
    BY <2>4, <2>5 DEF Balanced
  <2>7. PICK e : Depths(u \o v, h[0], h[i + 1], e) /\ \A k \in 1 .. Len(u) + 1 : e[k] = d[k]
    BY <2>4, <2>5, <2>6, DepthsJoin
  <2>8. Len(u \o v) = At(i + 1)
    <3>1. IsSeq(u) /\ IsSeq(v)
      BY <2>4 DEF Balanced
    <3>2. Len(u \o v) = Len(u) + Len(v)
      BY <3>1, Concat
    <3> QED
      BY <2>4, <3>2
  <2>9. ASSUME NEW j \in 0 .. i + 1 PROVE e[At(j) + 1] = h[j]
    <3>1. CASE j = i + 1
      BY <2>7, <2>8, <3>1 DEF Depths
    <3>2. CASE j # i + 1
      <4>1. j \in 0 .. i /\ j \in 0 .. n
        BY <2>1, <3>2
      <4>2. At(j) \in Nat /\ At(j) <= At(i)
        BY <1>2, <2>1, <4>1
      <4>3. At(j) + 1 \in 1 .. Len(u) + 1
        BY <2>4, <4>2
      <4> QED
        BY <2>5, <2>7, <4>1, <4>3
    <3> QED
      BY <3>1, <3>2
  <2>10. Joined(i + 1, e)
    BY <2>4, <2>7, <2>9
  <2> HIDE DEF Joined
  <2> QED
    BY <2>4, <2>8, <2>10
<1>7. S = Nat
  <2> HIDE DEF Joined
  <2> QED
    BY <1>5, <1>6, SetInduction
<1>8. PICK d : Joined(n, d)
  <2> HIDE DEF Joined
  <2> QED
    BY <1>7
<1>9. Depths(FlattenSeq(s), h[0], h[n], d) /\ \A i \in 0 .. n : d[At(i) + 1] = h[i]
  BY <1>3, <1>8
<1> QED
  BY <1>2, <1>9 DEF At

\* Pieces of code that follow each other: h says how many words each leaves.
LEMMA FlattenTurns ==
  ASSUME NEW s, IsSeq(s), NEW n \in Nat, n = Len(s), NEW h, \A i \in 0 .. n : h[i] \in Nat,
         \A i \in 1 .. n : Turns(s[i], h[i - 1], h[i])
  PROVE  Turns(FlattenSeq(s), h[0], h[n])
<1>1. ASSUME NEW a \in Nat PROVE Balanced(FlattenSeq(s), a + h[0], a + h[n])
  <2> DEFINE g == [i \in 0 .. n |-> a + h[i]]
  <2>1. \A i \in 0 .. n : g[i] \in Int /\ g[i] = a + h[i]
    OBVIOUS
  <2>2. ASSUME NEW i \in 1 .. n PROVE Balanced(s[i], g[i - 1], g[i])
    <3>1. i \in 0 .. n /\ i - 1 \in 0 .. n
      OBVIOUS
    <3>2. g[i] = a + h[i] /\ g[i - 1] = a + h[i - 1]
      BY <2>1, <3>1
    <3>3. Balanced(s[i], a + h[i - 1], a + h[i])
      BY DEF Turns
    <3> HIDE DEF g
    <3> QED
      BY <3>2, <3>3
  <2>3. 0 \in 0 .. n /\ n \in 0 .. n
    OBVIOUS
  <2> HIDE DEF g
  <2>5. IsSeq(FlattenSeq(s)) /\ \E d : Depths(FlattenSeq(s), g[0], g[n], d)
    BY <2>1, <2>2, FlattenDepths
  <2>6. Balanced(FlattenSeq(s), g[0], g[n])
    BY <2>1, <2>3, <2>5 DEF Balanced
  <2> QED
    BY <2>1, <2>3, <2>6
<1>2. h[0] \in Nat /\ h[n] \in Nat
  OBVIOUS
<1> QED
  BY <1>1, <1>2 DEF Turns

-----------------------------------------------------------------------------
\* The stack of each emission.

\* The emitters of codegen.c:24-60: a push leaves one operand more.
LEMMA PushCode ==
  /\ \A r \in Registers : Turns(emit_push(r), 0, 1)
  /\ \A n \in Int : Turns(emit_push_int(n), 0, 1)
<1>1. ASSUME NEW r \in Registers PROVE Turns(emit_push(r), 0, 1)
  <2>1. \A a \in Nat : Straight(<<"push", r>>, a + 0, a + 1)
    BY DEF Straight, Moves
  <2> QED
    BY <2>1, Step DEF emit_push
<1>2. ASSUME NEW n \in Int PROVE Turns(emit_push_int(n), 0, 1)
  <2>1. \A a \in Nat : Straight(<<"push_int", n>>, a + 0, a + 1)
    BY DEF Straight, Moves
  <2> QED
    BY <2>1, Step DEF emit_push_int
<1> QED
  BY <1>1, <1>2

\* A pop leaves one operand less.
LEMMA PopCode == \A r \in Data : Turns(emit_pop(r), 1, 0)
<1>1. ASSUME NEW r \in Data PROVE Turns(emit_pop(r), 1, 0)
  <2>1. \A a \in Nat : Straight(<<"pop", r>>, a + 1, a + 0)
    BY DEF Straight, Moves
  <2> QED
    BY <2>1, Step DEF emit_pop
<1> QED
  BY <1>1

\* The registers that hold data are neither the stack nor the frame pointer.
LEMMA SomeRegisters ==
  /\ {"rax", "rcx", "rdx"} \subseteq Data
  /\ Data \subseteq Registers
  /\ \A i \in 1 .. 6 : ArgRegs[i] \in Data
BY DEF Data, Registers, ArgRegs

\* Where the compiler stops no depth is wrong.
LEMMA StopCode == \A k, j \in Nat : Turns(Stop, k, j)
<1>1. ASSUME NEW k \in Nat, NEW j \in Nat PROVE Turns(Stop, k, j)
  BY Step DEF Stop
<1> QED
  BY <1>1

\* The two operands of an infix operation are popped.
LEMMA OperandsCode == Turns(Operands, 2, 0)
<1>1. Turns(emit_pop("rcx"), 1, 0) /\ Turns(emit_pop("rax"), 1, 0)
  BY PopCode, SomeRegisters
<1>2. Turns(emit_pop("rcx"), 1 + 1, 1 + 0)
  BY <1>1, Over
<1>3. Turns(emit_pop("rcx"), 2, 1)
  BY <1>2
<1> QED
  BY <1>1, <1>3, Then DEF Operands

\* A condition is popped and compared.
LEMMA TestCode == Turns(Test, 1, 0)
<1>1. Turns(emit_pop("rax"), 1, 0)
  BY PopCode, SomeRegisters
<1>2. Turns(<<<<"cmp_int", 0, "rax">>>>, 0, 0)
  <2>1. Plain(<<"cmp_int", 0, "rax">>)
    BY DEF Plain
  <2> QED
    BY <2>1, PlainStep
<1> QED
  BY <1>1, <1>2, Then DEF Test

\* Two instructions that leave the stack alone.
LEMMA TwoPlain ==
  ASSUME NEW x, NEW y, Plain(x), Plain(y), NEW k \in Nat
  PROVE  Turns(<<x, y>>, k, k)
<1> DEFINE s == <<x, y>>
<1>1. s \in Seq({x, y}) /\ Len(s) = 2 /\ s[1] = x /\ s[2] = y
  OBVIOUS
<1> HIDE DEF s
<1>2. IsSeq(s)
  BY <1>1, SeqHasRange
<1>3. \A i \in 1 .. Len(s) : Plain(s[i])
  <2>1. ASSUME NEW i \in 1 .. Len(s) PROVE Plain(s[i])
    <3>1. i = 1 \/ i = 2
      BY <1>1
    <3> QED
      BY <1>1, <3>1
  <2> QED
    BY <2>1
<1> QED
  BY <1>2, <1>3, PlainCode DEF s

\* Three of them.
LEMMA ThreePlain ==
  ASSUME NEW x, NEW y, NEW z, Plain(x), Plain(y), Plain(z), NEW k \in Nat
  PROVE  Turns(<<x, y, z>>, k, k)
<1> DEFINE s == <<x, y, z>>
<1>1. s \in Seq({x, y, z}) /\ Len(s) = 3 /\ s[1] = x /\ s[2] = y /\ s[3] = z
  OBVIOUS
<1> HIDE DEF s
<1>2. IsSeq(s)
  BY <1>1, SeqHasRange
<1>3. \A i \in 1 .. Len(s) : Plain(s[i])
  <2>1. ASSUME NEW i \in 1 .. Len(s) PROVE Plain(s[i])
    <3>1. i = 1 \/ i = 2 \/ i = 3
      BY <1>1
    <3> QED
      BY <1>1, <3>1
  <2> QED
    BY <2>1
<1> QED
  BY <1>2, <1>3, PlainCode DEF s

\* The instructions between two pops and pushes.
LEMMA PlainInstructions ==
  /\ Plain(<<"movsbl">>) /\ Plain(<<"movl">>) /\ Plain(<<"movq">>) /\ Plain(<<"neg">>)
  /\ Plain(<<"movzbl">>) /\ Plain(<<"imul", "rcx">>) /\ Plain(<<"idiv", "rcx">>)
  /\ Plain(<<"add", "rcx", "rax">>) /\ Plain(<<"sub", "rcx", "rax">>)
  /\ Plain(<<"and", "rcx", "rax">>) /\ Plain(<<"cmp", "rcx", "rax">>)
  /\ Plain(<<"mov_int", 0, "rdx">>) /\ Plain(<<"mov_int", 0, "rax">>)
  /\ \A c : Plain(<<"set", c>>) /\ Plain(<<"call", c>>) /\ Plain(<<"lea_rip", c>>)
  /\ \A n \in Int : /\ Plain(<<"mov_int", n, "rcx">>) /\ Plain(<<"add_int", n, "rax">>)
                    /\ Plain(<<"lea", n>>) /\ Plain(<<"reload", n>>)
  /\ \A r \in Registers : \A n \in {1, 4, 8} : Plain(<<"store", n, r>>)
  /\ \A r \in Data : Plain(<<"mov", "rax", r>>)
BY DEF Plain, Data, Registers

\* A value on the stack is made another one.
LEMMA Replaced ==
  ASSUME NEW s, Turns(s, 0, 0)
  PROVE  Turns((emit_pop("rax") \o s) \o emit_push("rax"), 1, 1)
<1>1. Turns(emit_pop("rax"), 1, 0) /\ Turns(emit_push("rax"), 0, 1)
  BY PopCode, PushCode, SomeRegisters
<1>2. Turns(emit_pop("rax") \o s, 1, 0)
  BY <1>1, Then
<1> QED
  BY <1>1, <1>2, Then

\* Two operands are made a value.
LEMMA Computed ==
  ASSUME NEW s, Turns(s, 0, 0), NEW r \in Data
  PROVE  Turns((Operands \o s) \o emit_push(r), 2, 1)
<1>1. Turns(emit_push(r), 0, 1)
  BY PushCode, SomeRegisters
<1>2. Turns(Operands \o s, 2, 0)
  BY OperandsCode, Then
<1> QED
  BY <1>1, <1>2, Then

\* The address on the stack is replaced by what lies there.
LEMMA MoveValueCode == \A typ : Turns(codegen_movevalue(typ), 1, 1)
<1> SUFFICES ASSUME NEW typ PROVE Turns(codegen_movevalue(typ), 1, 1)
  OBVIOUS
<1>1. \A ins \in {<<"movsbl">>, <<"movl">>, <<"movq">>} :
        Turns(emit_pop("rax") \o <<ins>> \o emit_push("rax"), 1, 1)
  <2> SUFFICES ASSUME NEW ins \in {<<"movsbl">>, <<"movl">>, <<"movq">>}
               PROVE  Turns(emit_pop("rax") \o <<ins>> \o emit_push("rax"), 1, 1)
    OBVIOUS
  <2>1. Plain(ins)
    BY PlainInstructions
  <2>2. Turns(<<ins>>, 0, 0)
    BY <2>1, PlainStep
  <2> QED
    BY <2>2, Replaced
<1>2. Turns(<<>>, 1, 1) /\ Turns(Stop, 1, 1)
  BY Nothing, StopCode
<1>3. \/ codegen_movevalue(typ) = <<>> \/ codegen_movevalue(typ) = Stop
      \/ \E ins \in {<<"movsbl">>, <<"movl">>, <<"movq">>} :
           codegen_movevalue(typ) = emit_pop("rax") \o <<ins>> \o emit_push("rax")
  BY DEF codegen_movevalue
<1> QED
  BY <1>1, <1>2, <1>3

\* A register is stored, the stack left alone.
LEMMA MoveRegCode == \A typ : \A r \in Registers : Turns(codegen_movereg(typ, r), 0, 0)
<1> SUFFICES ASSUME NEW typ, NEW r \in Registers PROVE Turns(codegen_movereg(typ, r), 0, 0)
  OBVIOUS
<1>1. \A n \in {1, 4, 8} : Turns(<<<<"store", n, r>>>>, 0, 0)
  BY PlainInstructions, PlainStep
<1>2. Turns(Stop, 0, 0)
  BY StopCode
<1>3. \/ codegen_movereg(typ, r) = Stop
      \/ \E n \in {1, 4, 8} : codegen_movereg(typ, r) = <<<<"store", n, r>>>>
  BY DEF codegen_movereg
<1> QED
  BY <1>1, <1>2, <1>3

\* The index on the stack is multiplied by the size of what the pointer points to.
LEMMA ScaleCode ==
  ASSUME NEW left, NEW right, Scalable(left)
  PROVE  Turns(Scale(left, right), 1, 1)
<1>1. Turns(Stop, 1, 1) /\ Turns(<<>>, 1, 1)
  BY Nothing, StopCode
<1>2. CASE ScaledBy(left, right)
  <2>1. Plain(<<"mov_int", SizeOf(left.ptrof), "rcx">>) /\ Plain(<<"imul", "rcx">>)
    <3>1. SizeOf(left.ptrof) \in Int
      BY <1>2 DEF Scalable, ScaledBy
    <3> QED
      BY <3>1, PlainInstructions
  <2>2. Turns(<<<<"mov_int", SizeOf(left.ptrof), "rcx">>, <<"imul", "rcx">>>>, 0, 0)
    BY <2>1, TwoPlain
  <2>3. Turns((emit_pop("rax") \o <<<<"mov_int", SizeOf(left.ptrof), "rcx">>, <<"imul", "rcx">>>>)
              \o emit_push("rax"), 1, 1)
    BY <2>2, Replaced
  <2>4. \/ Scale(left, right) = Stop
        \/ Scale(left, right) =
             (emit_pop("rax") \o <<<<"mov_int", SizeOf(left.ptrof), "rcx">>, <<"imul", "rcx">>>>)
             \o emit_push("rax")
    BY <1>2 DEF Scale
  <2> QED
    BY <1>1, <2>3, <2>4
<1>3. CASE ~ ScaledBy(left, right)
  <2>1. Scale(left, right) = Stop \/ Scale(left, right) = <<>>
    BY <1>3 DEF Scale
  <2> QED
    BY <1>1, <2>1
<1> QED
  BY <1>2, <1>3

\* An addition takes two operands and leaves one, of a pointer, too.
LEMMA AddCode ==
  ASSUME NEW left, NEW right, Scalable(left)
  PROVE  Turns(codegen_add(left, right), 2, 1)
<1>1. Turns(Scale(left, right), 1 + 1, 1 + 1)
  BY ScaleCode, Over
<1>2. Turns(Scale(left, right), 2, 2)
  BY <1>1
<1>3. Turns(<<<<"add", "rcx", "rax">>>>, 0, 0)
  BY PlainInstructions, PlainStep
<1>4. Turns(Scale(left, right) \o Operands, 2, 0)
  BY <1>2, OperandsCode, Then
<1>5. Turns((Scale(left, right) \o Operands) \o <<<<"add", "rcx", "rax">>>>, 2, 0)
  BY <1>3, <1>4, Then
<1>6. Turns(emit_push("rax"), 0, 1)
  BY PushCode, SomeRegisters
<1> QED
  BY <1>5, <1>6, Then DEF codegen_add

\* A comparison takes two operands and leaves one.
LEMMA CompareCode == \A cond : Turns(Compare(cond), 2, 1)
<1> SUFFICES ASSUME NEW cond PROVE Turns(Compare(cond), 2, 1)
  OBVIOUS
<1>1. Turns(<<<<"cmp", "rcx", "rax">>, <<"set", cond>>, <<"movzbl">>>>, 0, 0)
  BY PlainInstructions, ThreePlain
<1>2. "rax" \in Data
  BY SomeRegisters
<1> QED
  BY <1>1, <1>2, Computed DEF Compare

\* The code that Either is about, after the test.
LEMMA Tested ==
  ASSUME NEW r, NEW s, NEW t, NEW x, NEW k \in Nat, NEW a \in Nat, NEW b \in Nat,
         Balanced(r, k, a), Balanced(s, a, b), Balanced(t, a, b)
  PROVE  Balanced((((r \o <<<<"jcc", x, Len(s) + 1>>>>) \o s) \o <<<<"jmp", Len(t)>>>>) \o t, k, b)
<1> DEFINE J == <<<<"jcc", x, Len(s) + 1>>>>
           M == <<<<"jmp", Len(t)>>>>
<1>1. IsSeq(J) /\ IsSeq(M)
  BY One
<1>2. Balanced(((J \o s) \o M) \o t, a, b)
  BY Either
<1> HIDE DEF J, M
<1>3. Balanced(r \o (((J \o s) \o M) \o t), k, b)
  BY <1>2, Sequence
<1>4. IsSeq(r) /\ IsSeq(s) /\ IsSeq(t)
  BY DEF Balanced
<1>5. (r \o J) \o s = r \o (J \o s) /\ IsSeq(J \o s)
  <2>1. IsSeq(r) /\ IsSeq(J) /\ IsSeq(s)
    BY <1>1, <1>4
  <2>2. (r \o J) \o s = r \o (J \o s)
    BY <2>1, ConcatAssoc
  <2>3. IsSeq(J \o s)
    BY <2>1, Concat
  <2> QED
    BY <2>2, <2>3
<1>6. (r \o (J \o s)) \o M = r \o ((J \o s) \o M) /\ IsSeq((J \o s) \o M)
  <2>1. PICK u : u = J \o s
    OBVIOUS
  <2>2. IsSeq(u)
    BY <1>5, <2>1
  <2>3. (r \o u) \o M = r \o (u \o M) /\ IsSeq(u \o M)
    <3>1. IsSeq(r) /\ IsSeq(u) /\ IsSeq(M)
      BY <1>1, <1>4, <2>2
    <3>2. (r \o u) \o M = r \o (u \o M)
      BY <3>1, ConcatAssoc
    <3>3. IsSeq(u \o M)
      BY <3>1, Concat
    <3> QED
      BY <3>2, <3>3
  <2> QED
    BY <2>1, <2>3
<1>7. (r \o ((J \o s) \o M)) \o t = r \o (((J \o s) \o M) \o t)
  <2>1. PICK u : u = (J \o s) \o M
    OBVIOUS
  <2>2. IsSeq(u)
    BY <1>6, <2>1
  <2>3. (r \o u) \o t = r \o (u \o t)
    BY <1>4, <2>2, ConcatAssoc
  <2> QED
    BY <2>1, <2>3
<1> QED
  BY <1>3, <1>5, <1>6, <1>7 DEF J, M

\* Whether && and || leave early or not, they leave one value.
LEMMA LogicCode ==
  ASSUME NEW left, NEW right, Turns(left, 0, 1), Turns(right, 0, 1), NEW leave,
         NEW otherwise \in Int
  PROVE  Turns(Logic(left, right, leave, otherwise), 0, 1)
<1> DEFINE s == (((right \o Test) \o <<<<"set", "ne">>>>) \o emit_push("rax"))
           t == emit_push_int(otherwise)
           r == left \o Test
           rest == s \o <<<<"jmp", 1>>>>
<1>1. Turns(r, 0, 0) /\ Turns(right \o Test, 0, 0)
  BY TestCode, Then
<1>2. Turns(<<<<"set", "ne">>>>, 0, 0) /\ Turns(emit_push("rax"), 0, 1) /\ Turns(t, 0, 1)
  BY PlainInstructions, PlainStep, PushCode, SomeRegisters
<1>3. Turns((right \o Test) \o <<<<"set", "ne">>>>, 0, 0)
  BY <1>1, <1>2, Then
<1>4. Turns(s, 0, 1)
  BY <1>2, <1>3, Then
<1>5. Len(t) = 1
  BY DEF emit_push_int
<1>6. Logic(left, right, leave, otherwise) = ((r \o <<<<"jcc", leave, Len(rest)>>>>) \o rest) \o t
  BY DEF Logic
<1> HIDE DEF s, t, r
<1>7. IsSeq(s) /\ Len(s) \in Nat /\ IsSeq(r) /\ Len(rest) = Len(s) + 1
  <2>1. IsSeq(s) /\ Len(s) \in Nat /\ IsSeq(r)
    BY <1>1, <1>4, AtDepth
  <2> QED
    BY <2>1, ConcatOne
<1>8. ASSUME NEW a \in Nat
      PROVE  Balanced((((r \o <<<<"jcc", leave, Len(s) + 1>>>>) \o s) \o <<<<"jmp", Len(t)>>>>) \o t,
                      a + 0, a + 1)
  <2>1. Balanced(r, a + 0, a + 0) /\ Balanced(s, a + 0, a + 1) /\ Balanced(t, a + 0, a + 1)
    BY <1>1, <1>2, <1>4 DEF Turns
  <2>2. a + 0 \in Nat /\ a + 1 \in Nat
    OBVIOUS
  <2> QED
    BY <2>1, <2>2, Tested
<1>9. (r \o <<<<"jcc", leave, Len(s) + 1>>>>) \o rest
      = ((r \o <<<<"jcc", leave, Len(s) + 1>>>>) \o s) \o <<<<"jmp", 1>>>>
  <2> DEFINE J == <<<<"jcc", leave, Len(s) + 1>>>>
             M == <<<<"jmp", 1>>>>
  <2>1. IsSeq(J) /\ IsSeq(M)
    BY One
  <2> HIDE DEF J, M
  <2>2. PICK u : u = r \o J
    OBVIOUS
  <2>3. IsSeq(u)
    BY <1>7, <2>1, <2>2, Concat
  <2>4. u \o (s \o M) = (u \o s) \o M
    BY <1>7, <2>1, <2>3, ConcatAssoc
  <2> QED
    BY <2>2, <2>4 DEF J, M
<1> QED
  BY <1>5, <1>6, <1>7, <1>8, <1>9 DEF Turns

\* Every infix operation without an assignment leaves one value.
LEMMA InfixCodeTurns ==
  ASSUME NEW kind \in InfixKinds \ Assigned, NEW left, NEW right, NEW ltyp, NEW rtyp,
         Turns(left, 0, 1), Turns(right, 0, 1), Scalable(ltyp)
  PROVE  Turns(InfixCode(kind, left, right, ltyp, rtyp), 0, 1)
<1>1. Turns(left \o right, 0, 2)
  <2>1. Turns(right, 1 + 0, 1 + 1)
    BY Over
  <2>2. Turns(right, 1, 2)
    BY <2>1
  <2> QED
    BY <2>2, Then
<1>p. \A r \in {"rax", "rdx"} : Turns(emit_push(r), 0, 1)
  BY PushCode, SomeRegisters
<1>o. Turns((left \o right) \o Operands, 0, 0)
  BY <1>1, OperandsCode, Then
<1>a. \A s, r : Turns(s, 0, 0) /\ r \in {"rax", "rdx"} =>
        Turns((((left \o right) \o Operands) \o s) \o emit_push(r), 0, 1)
  <2> SUFFICES ASSUME NEW s, NEW r, Turns(s, 0, 0), r \in {"rax", "rdx"}
               PROVE  Turns((((left \o right) \o Operands) \o s) \o emit_push(r), 0, 1)
    OBVIOUS
  <2>1. Turns(((left \o right) \o Operands) \o s, 0, 0)
    BY <1>o, Then
  <2> QED
    BY <1>p, <2>1, Then
<1>2. CASE kind = "add"
  <2>1. Turns(codegen_add(ltyp, rtyp), 2, 1)
    BY AddCode
  <2>2. InfixCode(kind, left, right, ltyp, rtyp) = (left \o right) \o codegen_add(ltyp, rtyp)
    BY <1>2 DEF InfixCode
  <2> QED
    BY <1>1, <2>1, <2>2, Then
<1>3. CASE kind = "sub"
  <2>1. Turns(Scale(ltyp, rtyp), 1 + 1, 1 + 1)
    BY ScaleCode, Over
  <2>2. Turns((left \o right) \o Scale(ltyp, rtyp), 0, 2)
    BY <1>1, <2>1, Then
  <2>3. Turns(((left \o right) \o Scale(ltyp, rtyp)) \o Operands, 0, 0)
    BY <2>2, OperandsCode, Then
  <2>4. Turns(<<<<"sub", "rcx", "rax">>>>, 0, 0)
    BY PlainInstructions, PlainStep
  <2>5. Turns((((left \o right) \o Scale(ltyp, rtyp)) \o Operands) \o <<<<"sub", "rcx", "rax">>>>, 0, 0)
    BY <2>3, <2>4, Then
  <2>6. InfixCode(kind, left, right, ltyp, rtyp)
        = ((((left \o right) \o Scale(ltyp, rtyp)) \o Operands) \o <<<<"sub", "rcx", "rax">>>>)
          \o emit_push("rax")
    BY <1>3 DEF InfixCode
  <2> QED
    BY <1>p, <2>5, <2>6, Then
<1>4. CASE kind \in {"mul", "band"}
  <2>1. \A ins \in {<<"imul", "rcx">>, <<"and", "rcx", "rax">>} : Turns(<<ins>>, 0, 0)
    BY PlainInstructions, PlainStep
  <2>2. \E ins \in {<<"imul", "rcx">>, <<"and", "rcx", "rax">>} :
          InfixCode(kind, left, right, ltyp, rtyp)
          = (((left \o right) \o Operands) \o <<ins>>) \o emit_push("rax")
    BY <1>4 DEF InfixCode
  <2> QED
    BY <1>a, <2>1, <2>2
<1>5. CASE kind \in {"div", "mod"}
  <2>1. Turns(emit_div, 0, 0)
    BY PlainInstructions, TwoPlain DEF emit_div
  <2>2. \E r \in {"rax", "rdx"} :
          InfixCode(kind, left, right, ltyp, rtyp)
          = (((left \o right) \o Operands) \o emit_div) \o emit_push(r)
    BY <1>5 DEF InfixCode
  <2> QED
    BY <1>a, <2>1, <2>2
<1>6. CASE kind \in {"lesser", "lessereq", "eq"}
  <2>1. \E cond : InfixCode(kind, left, right, ltyp, rtyp) = (left \o right) \o Compare(cond)
    BY <1>6 DEF InfixCode
  <2> QED
    BY <1>1, <2>1, CompareCode, Then
<1>7. CASE kind \in {"land", "lor"}
  <2>1. \E leave : \E n \in Int :
          InfixCode(kind, left, right, ltyp, rtyp) = Logic(left, right, leave, n)
    BY <1>7 DEF InfixCode
  <2> QED
    BY <2>1, LogicCode
<1> QED
  BY <1>2, <1>3, <1>4, <1>5, <1>6, <1>7 DEF InfixKinds, Summed, Numbered, Assigned, Untyped

\* The pieces of an assignment: the old value over the address, the store that
\* takes both, and the store that leaves the new value.
LEMMA AssignCodes ==
  ASSUME NEW place, Turns(place, 0, 1), NEW typ
  PROVE  /\ Turns(OldValue(place, typ), 0, 2)
         /\ Turns(StoreTop(typ), 2, 0) /\ Turns(Updated(typ), 2, 1)
<1>1. Turns(OldValue(place, typ), 0, 2)
  <2>1. Turns(emit_pop("rax"), 1, 0) /\ Turns(emit_push("rax"), 0, 1)
    BY PopCode, PushCode, SomeRegisters
  <2>2. Turns(emit_push("rax"), 1 + 0, 1 + 1) /\ Turns(codegen_movevalue(typ), 1 + 1, 1 + 1)
    BY <2>1, MoveValueCode, Over
  <2>3. Turns(emit_push("rax"), 1, 2) /\ Turns(codegen_movevalue(typ), 2, 2)
    BY <2>2
  <2>4. Turns(place \o emit_pop("rax"), 0, 0)
    BY <2>1, Then
  <2>5. Turns((place \o emit_pop("rax")) \o emit_push("rax"), 0, 1)
    BY <2>1, <2>4, Then
  <2>6. Turns(((place \o emit_pop("rax")) \o emit_push("rax")) \o emit_push("rax"), 0, 2)
    BY <2>3, <2>5, Then
  <2> QED
    BY <2>3, <2>6, Then DEF OldValue
<1>2. Turns(StoreTop(typ), 2, 0)
  <2>1. Turns(codegen_movereg(typ, "rcx"), 0, 0)
    BY MoveRegCode, SomeRegisters
  <2> QED
    BY <2>1, OperandsCode, Then DEF StoreTop
<1>3. Turns(Updated(typ), 2, 1)
  <2>1. Turns(emit_push("rcx"), 0, 1)
    BY PushCode, SomeRegisters
  <2> QED
    BY <1>2, <2>1, Then DEF Updated
<1> QED
  BY <1>1, <1>2, <1>3

\* An expression whose value is left behind leaves the stack no lower.
LEMMA Dropped ==
  ASSUME NEW s, Turns(s, 0, 1)
  PROVE  Balanced(s, 0, 0)
<1>1. Balanced(s, 0, 1)
  BY AtDepth
<1> QED
  BY <1>1, LowerEnd

\* An if statement leaves the stack as it was, whichever branch is taken.
LEMMA IfCodeBalanced ==
  ASSUME NEW cond, Turns(cond, 0, 1), NEW body, Balanced(body, 0, 0), NEW other,
         Balanced(other, 0, 0)
  PROVE  Balanced(IfCode(cond, body, other), 0, 0)
<1>1. Turns(cond \o Test, 0, 0)
  BY TestCode, Then
<1>2. Balanced(cond \o Test, 0, 0)
  BY <1>1, AtDepth
<1> QED
  BY <1>2, Tested DEF IfCode

\* A while loop leaves the stack as it was, however often it turns.
LEMMA WhileCodeBalanced ==
  ASSUME NEW cond, Turns(cond, 0, 1), NEW body, Balanced(body, 0, 0)
  PROVE  Balanced(WhileCode(cond, body), 0, 0)
<1> DEFINE s == cond \o Test
           enter == s \o <<<<"jcc", "e", Len(body) + 1>>>>
           loop == (enter \o body) \o <<<<"jmp", -(Len(enter) + Len(body) + 1)>>>>
           inner == Labelled(loop, "continue", 0)
<1>1. Balanced(s, 0, 0)
  <2>1. Turns(s, 0, 0)
    BY TestCode, Then
  <2> QED
    BY <2>1, AtDepth
<1>2. Balanced(loop, 0, 0)
  <2> HIDE DEF s
  <2> QED
    BY <1>1, Loop
<1>3. WhileCode(cond, body) = Labelled(inner, "break", Len(loop))
  BY DEF WhileCode
<1> HIDE DEF loop
<1>4. Balanced(inner, 0, 0) /\ Len(inner) = Len(loop)
  BY <1>2, LabelledCode
<1> HIDE DEF inner
<1>5. Balanced(Labelled(inner, "break", Len(inner)), 0, 0)
  BY <1>4, LabelledCode
<1> QED
  BY <1>3, <1>4, <1>5

\* So does a for loop.
LEMMA ForCodeBalanced ==
  ASSUME NEW first, Balanced(first, 0, 0), NEW cond, Turns(cond, 0, 1),
         NEW next, Balanced(next, 0, 0), NEW body, Balanced(body, 0, 0)
  PROVE  Balanced(ForCode(first, cond, next, body), 0, 0)
<1> DEFINE s == Labelled(body, "continue", Len(body))
<1>1. Balanced(s, 0, 0)
  BY LabelledCode
<1>2. ForCode(first, cond, next, body) = first \o WhileCode(cond, s \o next)
  BY DEF ForCode
<1> HIDE DEF s
<1>3. Balanced(s \o next, 0, 0)
  BY <1>1, Sequence
<1>4. Balanced(WhileCode(cond, s \o next), 0, 0)
  BY <1>3, WhileCodeBalanced
<1> QED
  BY <1>2, <1>4, Sequence

\* The chain of else ifs is defined for every number of them.
IsChain(chain, conds, bodies, last, n) ==
  chain = [k \in 0 .. n |-> IF k = 0 THEN last ELSE
             IfCode(conds[n - k + 1], bodies[n - k + 1], chain[k - 1])]

\* The chain of branches of if ... else if exists.
LEMMA ChainExists ==
  ASSUME NEW conds, NEW bodies, NEW last, NEW n \in Nat
  PROVE  \E chain : IsChain(chain, conds, bodies, last, n)
<1> DEFINE Next1(i, c) == IfCode(conds[n - i + 1], bodies[n - i + 1], c)
<1> DEFINE Chain(f, m) == f = [i \in 0 .. m |-> IF i = 0 THEN last ELSE Next1(i, f[i - 1])]
<1> DEFINE S == {m \in Nat : \E f : Chain(f, m)}
<1> SUFFICES n \in S
  BY DEF IsChain
<1> HIDE DEF Next1
<1>1. 0 \in S
  <2> DEFINE g == [i \in 0 .. 0 |-> last]
  <2>1. Chain(g, 0)
    OBVIOUS
  <2> QED
    BY <2>1
<1>2. ASSUME NEW m \in S PROVE m + 1 \in S
  <2>1. PICK f : Chain(f, m)
    OBVIOUS
  <2> DEFINE g == [i \in 0 .. m + 1 |-> IF i = m + 1 THEN Next1(m + 1, f[m]) ELSE f[i]]
  <2>2. ASSUME NEW i \in 0 .. m + 1
        PROVE  g[i] = IF i = 0 THEN last ELSE Next1(i, g[i - 1])
    <3>1. CASE i = m + 1
      <4>1. i - 1 = m /\ m \in 0 .. m + 1 /\ m # m + 1 /\ i # 0
        BY <3>1
      <4> QED
        BY <3>1, <4>1
    <3>2. CASE i # m + 1 /\ i # 0
      <4>1. i \in 0 .. m /\ i - 1 \in 0 .. m + 1 /\ i - 1 # m + 1
        BY <3>2
      <4>2. f[i] = Next1(i, f[i - 1])
        BY <2>1, <3>2, <4>1
      <4> QED
        BY <3>2, <4>1, <4>2
    <3>3. CASE i = 0
      <4>1. i \in 0 .. m /\ i # m + 1
        BY <3>3
      <4>2. f[0] = last
        BY <2>1, <3>3, <4>1
      <4> QED
        BY <3>3, <4>1, <4>2
    <3> QED
      BY <3>1, <3>2, <3>3
  <2>3. Chain(g, m + 1)
    <3> HIDE DEF g
    <3>1. g = [i \in 0 .. m + 1 |-> g[i]]
      BY DEF g
    <3> QED
      BY <2>2, <3>1
  <2> HIDE DEF Chain, g
  <2> QED
    BY <2>3
<1> HIDE DEF Chain
<1>3. S = Nat
  BY <1>1, <1>2, SetInduction
<1> QED
  BY <1>3

\* A chain of branches leaves the stack as it was, whichever is taken.
LEMMA ElifCodeBalanced ==
  ASSUME NEW conds, NEW bodies, NEW last, Len(conds) \in Nat, Balanced(last, 0, 0),
         \A i \in 1 .. Len(conds) : Turns(conds[i], 0, 1) /\ Balanced(bodies[i], 0, 0)
  PROVE  Balanced(ElifCode(conds, bodies, last), 0, 0)
<1> DEFINE n == Len(conds)
<1>n. n \in Nat /\ \A i \in 1 .. n : Turns(conds[i], 0, 1) /\ Balanced(bodies[i], 0, 0)
  OBVIOUS
<1> DEFINE chain == CHOOSE c : IsChain(c, conds, bodies, last, n)
<1>1. ElifCode(conds, bodies, last) = chain[n]
  BY DEF ElifCode, IsChain
<1> HIDE DEF n
<1>c. IsChain(chain, conds, bodies, last, n)
  BY <1>n, ChainExists
<1>2. chain = [k \in 0 .. n |-> IF k = 0 THEN last ELSE
                 IfCode(conds[n - k + 1], bodies[n - k + 1], chain[k - 1])]
  BY <1>c DEF IsChain
<1> HIDE DEF chain
<1> DEFINE S == {k \in Nat : k <= n => Balanced(chain[k], 0, 0)}
<1>3. 0 \in S
  <2>1. chain[0] = last
    BY <1>2, <1>n
  <2> QED
    BY <2>1
<1>4. ASSUME NEW k \in S PROVE k + 1 \in S
  <2> SUFFICES ASSUME k + 1 <= n PROVE Balanced(chain[k + 1], 0, 0)
    OBVIOUS
  <2>1. k + 1 \in 0 .. n /\ k + 1 # 0 /\ (k + 1) - 1 = k /\ n - (k + 1) + 1 \in 1 .. n
        /\ Balanced(chain[k], 0, 0)
    BY <1>n
  <2>2. chain[k + 1] = IfCode(conds[n - (k + 1) + 1], bodies[n - (k + 1) + 1], chain[k])
    BY <1>2, <2>1
  <2>3. Turns(conds[n - (k + 1) + 1], 0, 1) /\ Balanced(bodies[n - (k + 1) + 1], 0, 0)
    BY <1>n, <2>1
  <2> QED
    BY <2>1, <2>2, <2>3, IfCodeBalanced
<1>5. S = Nat
  BY <1>3, <1>4, SetInduction
<1> QED
  BY <1>1, <1>5, <1>n

\* The registers are pushed and popped around a call.
LEMMA SaveCode ==
  Turns(FlattenSeq([i \in 1 .. 6 |-> emit_push(ArgRegs[i])]), 0, 6) /\ Turns(Restore, 6, 0)
<1>1. Turns(FlattenSeq([i \in 1 .. 6 |-> emit_push(ArgRegs[i])]), 0, 6)
  <2> DEFINE s == [i \in 1 .. 6 |-> emit_push(ArgRegs[i])]
             h == [i \in 0 .. 6 |-> i]
  <2>1. IsSeq(s) /\ Len(s) = 6
    BY FunctionIsSeq
  <2>2. \A i \in 0 .. 6 : h[i] \in Nat
    OBVIOUS
  <2>3. ASSUME NEW i \in 1 .. 6 PROVE Turns(s[i], h[i - 1], h[i])
    <3>1. Turns(emit_push(ArgRegs[i]), 0, 1)
      BY PushCode, SomeRegisters
    <3>2. i - 1 \in Nat /\ i - 1 \in 0 .. 6 /\ i \in 0 .. 6
      OBVIOUS
    <3>3. Turns(emit_push(ArgRegs[i]), (i - 1) + 0, (i - 1) + 1)
      BY <3>1, <3>2, Over
    <3>4. (i - 1) + 0 = i - 1 /\ (i - 1) + 1 = i
      OBVIOUS
    <3>5. s[i] = emit_push(ArgRegs[i]) /\ h[i - 1] = i - 1 /\ h[i] = i
      BY <3>2
    <3> QED
      BY <3>3, <3>4, <3>5
  <2>4. h[0] = 0 /\ h[6] = 6
    OBVIOUS
  <2> HIDE DEF s, h
  <2>5. Turns(FlattenSeq(s), h[0], h[6])
    BY <2>1, <2>2, <2>3, FlattenTurns
  <2> QED
    BY <2>4, <2>5 DEF s
<1>2. Turns(Restore, 6, 0)
  <2> DEFINE s == [i \in 1 .. 6 |-> emit_pop(ArgRegs[7 - i])]
             h == [i \in 0 .. 6 |-> 6 - i]
  <2>1. IsSeq(s) /\ Len(s) = 6
    BY FunctionIsSeq
  <2>2. \A i \in 0 .. 6 : h[i] \in Nat
    OBVIOUS
  <2>3. ASSUME NEW i \in 1 .. 6 PROVE Turns(s[i], h[i - 1], h[i])
    <3>1. 7 - i \in 1 .. 6 /\ i - 1 \in 0 .. 6 /\ i \in 0 .. 6 /\ 6 - i \in Nat
      OBVIOUS
    <3>2. Turns(emit_pop(ArgRegs[7 - i]), 1, 0)
      BY <3>1, PopCode, SomeRegisters
    <3>3. Turns(emit_pop(ArgRegs[7 - i]), (6 - i) + 1, (6 - i) + 0)
      BY <3>1, <3>2, Over
    <3>4. (6 - i) + 0 = 6 - i /\ (6 - i) + 1 = 6 - (i - 1)
      OBVIOUS
    <3>5. s[i] = emit_pop(ArgRegs[7 - i]) /\ h[i - 1] = 6 - (i - 1) /\ h[i] = 6 - i
      BY <3>1
    <3> QED
      BY <3>3, <3>4, <3>5
  <2>4. h[0] = 6 /\ h[6] = 0
    OBVIOUS
  <2>6. Restore = FlattenSeq(s)
    BY DEF Restore
  <2> HIDE DEF s, h
  <2>5. Turns(FlattenSeq(s), h[0], h[6])
    BY <2>1, <2>2, <2>3, FlattenTurns
  <2> QED
    BY <2>4, <2>5, <2>6
<1> QED
  BY <1>1, <1>2

\* Code pieces that each leave the stack as it was do so together.
LEMMA FlattenSame ==
  ASSUME NEW s, IsSeq(s), NEW k \in Nat, \A i \in 1 .. Len(s) : Turns(s[i], k, k)
  PROVE  Turns(FlattenSeq(s), k, k)
<1> DEFINE n == Len(s)
           h == [i \in 0 .. n |-> k]
<1>1. n \in Nat
  BY SeqFacts
<1>2. \A i \in 0 .. n : h[i] \in Nat
  OBVIOUS
<1>3. \A i \in 1 .. n : h[i - 1] = k /\ h[i] = k
  <2> HIDE DEF n
  <2> QED
    BY <1>1
<1>4. h[0] = k /\ h[n] = k
  <2> HIDE DEF n
  <2> QED
    BY <1>1
<1> HIDE DEF h
<1>5. \A i \in 1 .. n : Turns(s[i], h[i - 1], h[i])
  BY <1>3
<1>6. Turns(FlattenSeq(s), h[0], h[n])
  BY <1>1, <1>2, <1>5, FlattenTurns
<1> QED
  BY <1>4, <1>6

\* A call takes its arguments from the stack, in registers and on the stack, and
\* leaves one value.
LEMMA CallCodeTurns ==
  ASSUME NEW fn, NEW args, IsSeq(args), \A i \in 1 .. Len(args) : Turns(args[i], 0, 1)
  PROVE  Turns(CallCode(fn, args), 0, 1)
<1> DEFINE n == Len(args)
           m == IF n > 6 THEN n - 6 ELSE 0
           Passed(i) == (args[i] \o emit_pop("rax")) \o Pass(i)
           room(k)   == IF n > 6 THEN <<<<"add_int", k * (n - 6) * 8, "rsp">>>> ELSE <<>>
           Args(s)   == FlattenSeq([i \in 1 .. Len(s) |-> Passed(s[i])])
           first     == [i \in 1 .. (IF n < 6 THEN n ELSE 6) |-> i]
           others    == [i \in 1 .. n - Len(first) |-> i + 6]
           save      == FlattenSeq([i \in 1 .. 6 |-> emit_push(ArgRegs[i])])
           call      == <<<<"mov_int", 0, "rax">>, <<"call", fn>>>>
<1>1. CallCode(fn, args)
      = ((((((save \o Args(first)) \o room(-1)) \o Args(others)) \o call) \o room(1)) \o Restore)
        \o emit_push("rax")
  BY DEF CallCode
<1>n. n \in Nat /\ m \in Nat /\ \A i \in 1 .. n : Turns(args[i], 0, 1)
  <2>1. n \in Nat
    BY SeqFacts
  <2> HIDE DEF n
  <2> QED
    BY <2>1 DEF n
<1> HIDE DEF n
<1>2. ASSUME NEW i \in 1 .. n PROVE Turns(Passed(i), m, m)
  <2> DEFINE s == args[i] \o emit_pop("rax")
  <2>1. Turns(s, 0, 0)
    <3>1. Turns(args[i], 0, 1) /\ Turns(emit_pop("rax"), 1, 0)
      BY <1>n, PopCode, SomeRegisters
    <3> QED
      BY <3>1, Then
  <2> HIDE DEF s
  <2>2. Turns(s, m, m)
    <3>1. Turns(s, m + 0, m + 0) /\ m + 0 = m
      BY <1>n, <2>1, Over
    <3> QED
      BY <3>1
  <2>3. Turns(Pass(i), m, m)
    <3>1. CASE i <= 6
      <4>1. Plain(<<"mov", "rax", ArgRegs[i]>>)
        <5>1. i \in 1 .. 6
          BY <1>n, <3>1
        <5>2. ArgRegs[i] \in Data
          BY <5>1, SomeRegisters
        <5> QED
          BY <5>2, PlainInstructions
      <4>2. Pass(i) = <<<<"mov", "rax", ArgRegs[i]>>>>
        BY <3>1 DEF Pass
      <4> QED
        BY <1>n, <4>1, <4>2, PlainStep
    <3>2. CASE i > 6
      <4> DEFINE off == (i - 7) * 8
      <4>1. Pass(i) = <<<<"spill", off>>>>
        BY <3>2 DEF Pass
      <4>2. off \in Nat /\ off + 8 <= 8 * m
        BY <1>n, <3>2
      <4> HIDE DEF off, m
      <4>3. ASSUME NEW a \in Nat PROVE Straight(<<"spill", off>>, a + m, a + m)
        <5>1. off + 8 <= 8 * (a + m) /\ a + m \in 0 .. a + m
          BY <1>n, <4>2
        <5> QED
          BY <4>2, <5>1 DEF Straight, Moves
      <4> QED
        BY <1>n, <4>1, <4>3, Step
    <3> QED
      BY <1>n, <3>1, <3>2
  <2> QED
    BY <2>2, <2>3, Then DEF s
<1> HIDE DEF Passed
<1>3. /\ IsSeq(first) /\ Len(first) = (IF n < 6 THEN n ELSE 6)
      /\ \A i \in 1 .. Len(first) : first[i] \in 1 .. n
  <2>1. IsSeq(first) /\ Len(first) = (IF n < 6 THEN n ELSE 6)
    BY <1>n, FunctionIsSeq
  <2> QED
    BY <1>n, <2>1
<1>4. /\ IsSeq(others) /\ Len(others) = m
      /\ \A i \in 1 .. Len(others) : others[i] \in 1 .. n
  <2>1. n - Len(first) = m
    BY <1>n, <1>3
  <2> HIDE DEF first, m
  <2>2. IsSeq(others) /\ Len(others) = m
    BY <1>n, <2>1, FunctionIsSeq
  <2>3. ASSUME NEW i \in 1 .. m PROVE others[i] \in 1 .. n
    <3>1. others[i] = i + 6
      BY <2>1
    <3> QED
      BY <1>n, <3>1 DEF m
  <2> QED
    BY <2>2, <2>3
<1> HIDE DEF first, others
<1>5. \A s : IsSeq(s) /\ (\A i \in 1 .. Len(s) : s[i] \in 1 .. n) => Turns(Args(s), m, m)
  <2> SUFFICES ASSUME NEW s, IsSeq(s), \A i \in 1 .. Len(s) : s[i] \in 1 .. n
               PROVE  Turns(Args(s), m, m)
    OBVIOUS
  <2> DEFINE codes == [i \in 1 .. Len(s) |-> Passed(s[i])]
  <2>1. Len(s) \in Nat
    BY SeqFacts
  <2>2. IsSeq(codes) /\ Len(codes) = Len(s)
    BY <2>1, FunctionIsSeq
  <2>3. \A i \in 1 .. Len(s) : Turns(codes[i], m, m)
    BY <1>2
  <2> HIDE DEF codes
  <2>4. Turns(FlattenSeq(codes), m, m)
    BY <1>n, <2>2, <2>3, FlattenSame
  <2> QED
    BY <2>4 DEF codes
<1>6. ASSUME NEW k \in {-1, 1}
      PROVE  Turns(room(k), IF k = 1 THEN 6 + m ELSE 6, IF k = 1 THEN 6 ELSE 6 + m)
  <2>1. CASE n > 6
    <3> DEFINE off == k * (n - 6) * 8
    <3>1. off \in Int /\ off = 8 * k * m
      BY <1>n, <2>1
    <3>2. (k = 1 => off = 8 * m) /\ (k = -1 => off = -(8 * m))
      BY <1>n, <3>1
    <3>3. room(k) = <<<<"add_int", off, "rsp">>>>
      BY <2>1
    <3> HIDE DEF off, m
    <3>4. ASSUME NEW a \in Nat
          PROVE  Straight(<<"add_int", off, "rsp">>, a + (IF k = 1 THEN 6 + m ELSE 6),
                          a + (IF k = 1 THEN 6 ELSE 6 + m))
      <4>1. CASE k = 1
        <5>1. off = 8 * m /\ 8 * (a + 6) <= 8 * (a + (6 + m)) - off
          BY <1>n, <3>1, <3>2, <4>1
        <5>2. Straight(<<"add_int", off, "rsp">>, a + (6 + m), a + 6)
          BY <1>n, <3>1, <5>1 DEF Straight, Moves
        <5> QED
          BY <4>1, <5>2
      <4>2. CASE k = -1
        <5>1. off = -(8 * m) /\ 8 * (a + (6 + m)) <= 8 * (a + 6) - off
          BY <1>n, <3>1, <3>2, <4>2
        <5>2. Straight(<<"add_int", off, "rsp">>, a + 6, a + (6 + m))
          BY <1>n, <3>1, <5>1 DEF Straight, Moves
        <5> QED
          BY <4>2, <5>2
      <4> QED
        BY <4>1, <4>2
    <3> DEFINE x == IF k = 1 THEN 6 + m ELSE 6
               y == IF k = 1 THEN 6 ELSE 6 + m
    <3>5. x \in Nat /\ y \in Nat /\ \A a \in Nat : Straight(<<"add_int", off, "rsp">>, a + x, a + y)
      BY <1>n, <3>4
    <3> HIDE DEF x, y, room
    <3>6. Turns(room(k), x, y)
      BY <3>3, <3>5, Step
    <3> QED
      BY <3>6 DEF x, y
  <2>2. CASE ~ (n > 6)
    <3>1. room(k) = <<>> /\ m = 0
      BY <2>2
    <3> QED
      BY <3>1, Nothing
  <2> QED
    BY <2>1, <2>2
<1>7. Turns(room(-1), 6, 6 + m) /\ Turns(room(1), 6 + m, 6)
  <2> HIDE DEF room, m
  <2>1. Turns(room(-1), IF -1 = 1 THEN 6 + m ELSE 6, IF -1 = 1 THEN 6 ELSE 6 + m)
        /\ Turns(room(1), IF 1 = 1 THEN 6 + m ELSE 6, IF 1 = 1 THEN 6 ELSE 6 + m)
    BY <1>6
  <2> QED
    BY <2>1
<1>8. Turns(Args(first), 6, 6)
  <2> DEFINE codes == [i \in 1 .. Len(first) |-> Passed(first[i])]
  <2>1. Len(first) \in Nat
    BY <1>3, SeqFacts
  <2>2. IsSeq(codes) /\ Len(codes) = Len(first)
    BY <2>1, FunctionIsSeq
  <2>3. ASSUME NEW i \in 1 .. Len(first) PROVE Turns(codes[i], 6, 6)
    <3> DEFINE j == first[i]
    <3>1. j \in 1 .. n /\ j <= 6
      BY <1>n, <1>3 DEF first
    <3> HIDE DEF j
    <3>2. Turns(args[j], 0, 1) /\ Turns(emit_pop("rax"), 1, 0)
      BY <1>n, <3>1, PopCode, SomeRegisters
    <3>3. Turns(args[j] \o emit_pop("rax"), 0, 0)
      BY <3>2, Then
    <3>4. Turns(Pass(j), 0, 0)
      <4>1. Plain(<<"mov", "rax", ArgRegs[j]>>)
        BY <3>1, PlainInstructions, SomeRegisters
      <4>2. Pass(j) = <<<<"mov", "rax", ArgRegs[j]>>>>
        BY <3>1 DEF Pass
      <4> QED
        BY <4>1, <4>2, PlainStep
    <3>5. Turns(Passed(j), 0, 0)
      BY <3>3, <3>4, Then DEF Passed
    <3>6. Turns(Passed(j), 6 + 0, 6 + 0)
      BY <3>5, Over
    <3> QED
      BY <3>6 DEF j
  <2> HIDE DEF codes
  <2>4. Turns(FlattenSeq(codes), 6, 6)
    BY <2>2, <2>3, FlattenSame
  <2> QED
    BY <2>4 DEF codes
<1>9. Turns(Args(others), 6 + m, 6 + m)
  <2>1. Turns(Args(others), m, m)
    BY <1>4, <1>5
  <2> HIDE DEF Args
  <2> QED
    BY <2>1, Over
<1>10. Turns(call, 6 + m, 6 + m)
  <2> HIDE DEF m
  <2> QED
    <3>1. Plain(<<"mov_int", 0, "rax">>) /\ Plain(<<"call", fn>>)
      BY DEF Plain, Data, Registers
    <3>2. 6 + m \in Nat
      BY <1>n
    <3> QED
      BY <3>1, <3>2, TwoPlain
<1>11. Turns(emit_push("rax"), 0, 1)
  BY PushCode, SomeRegisters
<1>12. Turns(save, 0, 6) /\ Turns(Restore, 6, 0)
  BY SaveCode
<1> HIDE DEF Args, save, call, room, m
<1>13. Turns(save \o Args(first), 0, 6)
  BY <1>8, <1>12, Then
<1>14. Turns((save \o Args(first)) \o room(-1), 0, 6 + m)
  BY <1>7, <1>13, Then
<1>15. Turns(((save \o Args(first)) \o room(-1)) \o Args(others), 0, 6 + m)
  BY <1>9, <1>14, Then
<1>16. Turns((((save \o Args(first)) \o room(-1)) \o Args(others)) \o call, 0, 6 + m)
  BY <1>10, <1>15, Then
<1>17. Turns(((((save \o Args(first)) \o room(-1)) \o Args(others)) \o call) \o room(1), 0, 6)
  BY <1>7, <1>16, Then
<1>18. Turns((((((save \o Args(first)) \o room(-1)) \o Args(others)) \o call) \o room(1)) \o Restore,
             0, 0)
  BY <1>12, <1>17, Then
<1> QED
  BY <1>1, <1>11, <1>18, Then

\* Two instructions in the depths they need.
LEMMA TwoSteps ==
  ASSUME NEW x, NEW y, NEW a \in Int, NEW m \in Int, NEW b \in Int,
         Straight(x, a, m), Straight(y, m, b)
  PROVE  Balanced(<<x, y>>, a, b)
<1>1. Balanced(<<x>>, a, m) /\ Balanced(<<y>>, m, b)
  BY OneStep
<1>2. Balanced(<<x>> \o <<y>>, a, b)
  BY <1>1, Sequence
<1>3. <<x>> \o <<y>> = <<x, y>>
  <2> DEFINE s == <<x>>
             t == s \o <<y>>
             u == <<x, y>>
  <2>1. IsSeq(s) /\ Len(s) = 1 /\ s[1] = x
    BY One
  <2>2. u \in Seq({x, y}) /\ Len(u) = 2 /\ u[1] = x /\ u[2] = y
    OBVIOUS
  <2>s. IsSeq(s)
    BY <2>1
  <2> HIDE DEF s, u
  <2>3. IsSeq(t) /\ Len(t) = Len(s) + 1 /\ t[Len(s) + 1] = y /\ \A i \in 1 .. Len(s) : t[i] = s[i]
    BY <2>s, ConcatOne
  <2> HIDE DEF t
  <2>4. Len(t) = 2 /\ t[1] = x /\ t[2] = y
    BY <2>1, <2>3
  <2>5. IsSeq(u) /\ \A i \in 1 .. Len(t) : i = 1 \/ i = 2
    BY <2>2, <2>4, SeqHasRange
  <2>6. \A i \in 1 .. Len(t) : t[i] = u[i]
    BY <2>2, <2>4, <2>5
  <2>7. t = u
    BY <2>2, <2>3, <2>4, <2>5, <2>6, SameSeq
  <2> QED
    BY <2>7 DEF t, s, u
<1> QED
  BY <1>2, <1>3

\* The epilogue gives up what is on the stack and ends with the return.
LEMMA EpilogueCode == Balanced(emit_epilogue, 0, -2) /\ Balanced(<<<<"ret">>>>, -2, 0)
<1>1. Straight(<<"mov", "rbp", "rsp">>, 0, -1) /\ Straight(<<"pop", "rbp">>, -1, -2)
  BY DEF Straight, Epilogues
<1>2. Balanced(emit_epilogue, 0, -2)
  BY <1>1, TwoSteps DEF emit_epilogue
<1>3. Balanced(<<<<"ret">>>>, -2, 0)
  BY OneStep
<1> QED
  BY <1>2, <1>3

\* What holds of the code of every tree.
KeepsStack(ast) ==
  /\ ast.kind \in ValueKinds => Turns(Code[<<"value", ast>>], 0, 1)
  /\ Turns(Code[<<"place", ast>>], 0, 1)
  /\ Balanced(Code[<<"value", ast>>], 0, 0)

\* The code of an lvalue leaves its address, if the code of the parts is right.
LEMMA PlaceKeepsStack ==
  ASSUME NEW ast \in AllTrees, NEW parts, WellFormed(ast, parts), \A p \in parts : KeepsStack(p)
  PROVE  Turns(codegen_lvalue(ast, Code), 0, 1)
<1>p. Turns(emit_push("rax"), 0, 1) /\ Turns(emit_pop("rax"), 1, 0)
  BY PushCode, PopCode, SomeRegisters
<1>1. CASE ast.kind = "ident"
  <2>1. ast.offset \in Nat
    BY <1>1 DEF WellFormed, InfixKinds, Summed, Numbered, Assigned, Untyped
  <2>2. -ast.offset \in Int
    BY <2>1
  <2>3. Plain(<<"lea", -ast.offset>>)
    BY <2>2, PlainInstructions
  <2>4. Turns(<<<<"lea", -ast.offset>>>>, 0, 0)
    BY <2>3, PlainStep
  <2>5. codegen_lvalue(ast, Code) = <<<<"lea", -ast.offset>>>> \o emit_push("rax")
    BY <1>1 DEF codegen_lvalue
  <2> QED
    BY <1>p, <2>4, <2>5, Then
<1>2. CASE ast.kind = "globalref"
  <2>3. Plain(<<"lea_rip", ast.ident>>)
    BY DEF Plain, Data, Registers
  <2>4. Turns(<<<<"lea_rip", ast.ident>>>>, 0, 0)
    BY <2>3, PlainStep
  <2>5. codegen_lvalue(ast, Code) = <<<<"lea_rip", ast.ident>>>> \o emit_push("rax")
    BY <1>2 DEF codegen_lvalue
  <2> QED
    BY <1>p, <2>4, <2>5, Then
<1>3. CASE ast.kind = "deref"
  <2>1. ast.value \in parts /\ ast.value.kind \in ValueKinds
    BY <1>3 DEF WellFormed, InfixKinds, Summed, Numbered, Assigned, Untyped
  <2>2. Turns(Code[<<"value", ast.value>>], 0, 1)
    BY <2>1 DEF KeepsStack
  <2>3. codegen_lvalue(ast, Code) = Code[<<"value", ast.value>>]
    BY <1>3 DEF codegen_lvalue
  <2> QED
    BY <2>2, <2>3
<1>4. CASE ast.kind = "dot"
  <2> DEFINE off == FieldOf(ast.structvalue.typ, ast.fieldname).offset
             place == Code[<<"place", ast.structvalue>>]
  <2>1. ast.structvalue \in parts /\ off \in Nat
    BY <1>4 DEF WellFormed, InfixKinds, Summed, Numbered, Assigned, Untyped
  <2>2. codegen_lvalue(ast, Code)
        = ((place \o emit_pop("rax")) \o <<<<"add_int", off, "rax">>>>) \o emit_push("rax")
    BY <1>4 DEF codegen_lvalue
  <2>3. Turns(place, 0, 1)
    BY <2>1 DEF KeepsStack
  <2> HIDE DEF off, place
  <2>4. Plain(<<"add_int", off, "rax">>)
    <3>1. off \in Int
      BY <2>1
    <3> QED
      BY <3>1, PlainInstructions
  <2>5. Turns(<<<<"add_int", off, "rax">>>>, 0, 0)
    BY <2>4, PlainStep
  <2>6. Turns(place \o emit_pop("rax"), 0, 0)
    BY <1>p, <2>3, Then
  <2>7. Turns((place \o emit_pop("rax")) \o <<<<"add_int", off, "rax">>>>, 0, 0)
    BY <2>5, <2>6, Then
  <2> QED
    BY <1>p, <2>2, <2>7, Then
<1>5. CASE ast.kind \notin {"ident", "globalref", "deref", "dot"}
  <2>1. codegen_lvalue(ast, Code) = Stop
    BY <1>5 DEF codegen_lvalue
  <2> QED
    BY <2>1, StopCode
<1> QED
  BY <1>1, <1>2, <1>3, <1>4, <1>5

\* The code of an expression leaves its value, if the code of the parts is right.
LEMMA ValueKeepsStack ==
  ASSUME NEW ast \in AllTrees, NEW parts, WellFormed(ast, parts), \A p \in parts : KeepsStack(p),
         ast.kind \in ValueKinds
  PROVE  Turns(codegen(ast, Code), 0, 1)
<1>p. Turns(emit_push("rax"), 0, 1) /\ Turns(emit_pop("rax"), 1, 0)
  BY PushCode, PopCode, SomeRegisters
<1>q. Turns(codegen_lvalue(ast, Code), 0, 1)
  BY PlaceKeepsStack
<1>m. \A typ : Turns(codegen_movevalue(typ), 1, 1)
  BY MoveValueCode
<1> DEFINE Value(a) == Code[<<"value", a>>]
           Place(a) == Code[<<"place", a>>]
<1>v. \A a : a \in parts /\ a.kind \in ValueKinds => Turns(Value(a), 0, 1)
  BY DEF KeepsStack
<1>w. \A a \in parts : Turns(Place(a), 0, 1)
  BY DEF KeepsStack
<1>1. CASE ast.kind \in {"ident", "globalref", "dot"}
  <2>1. codegen(ast, Code) = codegen_lvalue(ast, Code) \o codegen_movevalue(ast.typ)
    BY <1>1 DEF codegen, InfixKinds, Summed, Numbered, Assigned, Untyped
  <2> QED
    BY <1>q, <1>m, <2>1, Then
<1>2. CASE ast.kind = "intlit"
  <2>1. ast.intval \in Int
    BY <1>2 DEF WellFormed, InfixKinds, Summed, Numbered, Assigned, Untyped
  <2>2. codegen(ast, Code) = emit_push_int(ast.intval)
    BY <1>2 DEF codegen, InfixKinds, Summed, Numbered, Assigned, Untyped
  <2> QED
    BY <2>1, <2>2, PushCode
<1>3. CASE ast.kind \in InfixKinds \ Assigned
  <2>1. /\ ast.left \in parts /\ ast.left.kind \in ValueKinds
        /\ ast.right \in parts /\ ast.right.kind \in ValueKinds /\ Scalable(ast.left.typ)
    BY <1>3 DEF WellFormed, InfixKinds, Summed, Numbered, Assigned, Untyped
  <2>2. codegen(ast, Code)
        = InfixCode(ast.kind, Value(ast.left), Value(ast.right), ast.left.typ, ast.right.typ)
    BY <1>3 DEF codegen, InfixKinds, Summed, Numbered, Assigned, Untyped
  <2>3. Turns(Value(ast.left), 0, 1) /\ Turns(Value(ast.right), 0, 1)
    BY <1>v, <2>1
  <2> HIDE DEF Value
  <2> QED
    BY <1>3, <2>1, <2>2, <2>3, InfixCodeTurns
<1>4. CASE ast.kind = "minus"
  <2>1. ast.value \in parts /\ ast.value.kind \in ValueKinds
    BY <1>4 DEF WellFormed, InfixKinds, Summed, Numbered, Assigned, Untyped
  <2>2. codegen(ast, Code)
        = ((Value(ast.value) \o emit_pop("rax")) \o <<<<"neg">>>>) \o emit_push("rax")
    BY <1>4 DEF codegen, InfixKinds, Summed, Numbered, Assigned, Untyped
  <2>3. Turns(Value(ast.value), 0, 1)
    BY <1>v, <2>1
  <2> HIDE DEF Value
  <2>4. Turns(Value(ast.value) \o emit_pop("rax"), 0, 0)
    BY <1>p, <2>3, Then
  <2>5. Turns(<<<<"neg">>>>, 0, 0)
    BY PlainInstructions, PlainStep
  <2>6. Turns((Value(ast.value) \o emit_pop("rax")) \o <<<<"neg">>>>, 0, 0)
    BY <2>4, <2>5, Then
  <2> QED
    BY <1>p, <2>2, <2>6, Then
<1>5. CASE ast.kind = "addassign"
  <2>1. ast.left \in parts /\ ast.right \in parts /\ ast.right.kind \in ValueKinds
        /\ Scalable(ast.left.typ)
    BY <1>5 DEF WellFormed, InfixKinds, Summed, Numbered, Assigned, Untyped
  <2> DEFINE typ == ast.left.typ
  <2>2. codegen(ast, Code)
        = ((OldValue(Place(ast.left), typ) \o Value(ast.right))
           \o codegen_add(typ, ast.right.typ)) \o Updated(typ)
    BY <1>5 DEF codegen, InfixKinds, Summed, Numbered, Assigned, Untyped
  <2>3. Turns(Place(ast.left), 0, 1) /\ Turns(Value(ast.right), 0, 1)
    BY <1>v, <1>w, <2>1
  <2> HIDE DEF Value, Place, typ
  <2>4. Turns(OldValue(Place(ast.left), typ), 0, 2) /\ Turns(Updated(typ), 2, 1)
    BY <2>3, AssignCodes
  <2>5. Turns(Value(ast.right), 2 + 0, 2 + 1)
    BY <2>3, Over
  <2>6. Turns(OldValue(Place(ast.left), typ) \o Value(ast.right), 0, 3)
    BY <2>4, <2>5, Then
  <2>7. Turns(codegen_add(typ, ast.right.typ), 1 + 2, 1 + 1)
    <3>1. Turns(codegen_add(typ, ast.right.typ), 2, 1)
      BY <2>1, AddCode DEF typ
    <3> QED
      BY <3>1, Over
  <2>8. Turns((OldValue(Place(ast.left), typ) \o Value(ast.right)) \o codegen_add(typ, ast.right.typ),
              0, 2)
    BY <2>6, <2>7, Then
  <2> QED
    BY <2>2, <2>4, <2>8, Then
<1>6. CASE ast.kind = "mulassign"
  <2>1. ast.left \in parts /\ ast.right \in parts /\ ast.right.kind \in ValueKinds
    BY <1>6 DEF WellFormed, InfixKinds, Summed, Numbered, Assigned, Untyped
  <2> DEFINE typ == ast.left.typ
  <2>2. codegen(ast, Code)
        = ((((OldValue(Place(ast.left), typ) \o Value(ast.right)) \o Operands)
            \o <<<<"imul", "rcx">>>>) \o emit_push("rax")) \o Updated(typ)
    BY <1>6 DEF codegen, InfixKinds, Summed, Numbered, Assigned, Untyped
  <2>3. Turns(Place(ast.left), 0, 1) /\ Turns(Value(ast.right), 0, 1)
    BY <1>v, <1>w, <2>1
  <2> HIDE DEF Value, Place, typ
  <2> DEFINE old == OldValue(Place(ast.left), typ)
             new == Value(ast.right)
  <2>4. Turns(old, 0, 2) /\ Turns(Updated(typ), 2, 1)
    BY <2>3, AssignCodes
  <2>5. Turns(new, 2 + 0, 2 + 1) /\ Turns(Operands, 1 + 2, 1 + 0)
    BY <2>3, OperandsCode, Over
  <2>6. Turns(<<<<"imul", "rcx">>>>, 1, 1) /\ Turns(emit_push("rax"), 1 + 0, 1 + 1)
    BY <1>p, PlainInstructions, PlainStep, Over
  <2> HIDE DEF old, new
  <2>7. Turns(old \o new, 0, 3)
    BY <2>4, <2>5, Then
  <2>8. Turns((old \o new) \o Operands, 0, 1)
    BY <2>5, <2>7, Then
  <2>9. Turns(((old \o new) \o Operands) \o <<<<"imul", "rcx">>>>, 0, 1)
    BY <2>6, <2>8, Then
  <2>10. Turns((((old \o new) \o Operands) \o <<<<"imul", "rcx">>>>) \o emit_push("rax"), 0, 2)
    BY <2>6, <2>9, Then
  <2>11. Turns(((((old \o new) \o Operands) \o <<<<"imul", "rcx">>>>) \o emit_push("rax"))
               \o Updated(typ), 0, 1)
    BY <2>4, <2>10, Then
  <2> QED
    BY <2>2, <2>11 DEF old, new
<1>7. CASE ast.kind = "preinc"
  <2>1. ast.value \in parts /\ Scalable(ast.value.typ)
    BY <1>7 DEF WellFormed, InfixKinds, Summed, Numbered, Assigned, Untyped
  <2> DEFINE typ == ast.value.typ
             old == OldValue(Place(ast.value), typ)
  <2>2. codegen(ast, Code)
        = ((old \o emit_push_int(1)) \o codegen_add(typ, INT)) \o Updated(typ)
    BY <1>7 DEF codegen, InfixKinds, Summed, Numbered, Assigned, Untyped
  <2>3. Turns(Place(ast.value), 0, 1)
    BY <1>w, <2>1
  <2> HIDE DEF Place, typ
  <2>4. Turns(old, 0, 2) /\ Turns(Updated(typ), 2, 1)
    BY <2>3, AssignCodes
  <2>5. Turns(emit_push_int(1), 2 + 0, 2 + 1)
    BY PushCode, Over
  <2>6. Turns(codegen_add(typ, INT), 1 + 2, 1 + 1)
    <3>1. Turns(codegen_add(typ, INT), 2, 1)
      BY <2>1, AddCode DEF typ
    <3> QED
      BY <3>1, Over
  <2> HIDE DEF old
  <2>7. Turns(old \o emit_push_int(1), 0, 3)
    BY <2>4, <2>5, Then
  <2>8. Turns((old \o emit_push_int(1)) \o codegen_add(typ, INT), 0, 2)
    BY <2>6, <2>7, Then
  <2> QED
    BY <2>2, <2>4, <2>8, Then
<1>8. CASE ast.kind = "addr"
  <2>1. ast.value \in parts
    BY <1>8 DEF WellFormed, InfixKinds, Summed, Numbered, Assigned, Untyped
  <2>2. codegen(ast, Code) = Place(ast.value)
    BY <1>8 DEF codegen, InfixKinds, Summed, Numbered, Assigned, Untyped
  <2> QED
    BY <1>w, <2>1, <2>2
<1>9. CASE ast.kind = "deref"
  <2>1. ast.value \in parts /\ ast.value.kind \in ValueKinds
    BY <1>9 DEF WellFormed, InfixKinds, Summed, Numbered, Assigned, Untyped
  <2>2. codegen(ast, Code) = Value(ast.value) \o codegen_movevalue(ast.typ)
    BY <1>9 DEF codegen, InfixKinds, Summed, Numbered, Assigned, Untyped
  <2>3. Turns(Value(ast.value), 0, 1)
    BY <1>v, <2>1
  <2> HIDE DEF Value
  <2> QED
    BY <1>m, <2>2, <2>3, Then
<1>10. CASE ast.kind = "call"
  <2> DEFINE values == {a \in parts : a.kind \in ValueKinds}
             args == [i \in DOMAIN ast.arguments |-> Value(ast.arguments[i])]
  <2>1. ast.arguments \in Seq(values)
    BY <1>10 DEF WellFormed, InfixKinds, Summed, Numbered, Assigned, Untyped
  <2>2. codegen(ast, Code) = CallCode(ast.call, args)
    BY <1>10 DEF codegen, InfixKinds, Summed, Numbered, Assigned, Untyped
  <2>3. PICK n \in Nat : ast.arguments \in [1 .. n -> values]
    <3> HIDE DEF values
    <3> QED
      BY <2>1
  <2>4. IsSeq(args) /\ Len(args) = n
    BY <2>3, FunctionIsSeq
  <2>5. ASSUME NEW i \in 1 .. n PROVE Turns(args[i], 0, 1)
    <3>1. ast.arguments[i] \in parts /\ ast.arguments[i].kind \in ValueKinds
      BY <2>3
    <3>2. args[i] = Value(ast.arguments[i])
      BY <2>3
    <3> QED
      BY <1>v, <3>1, <3>2
  <2> HIDE DEF args
  <2>6. Turns(CallCode(ast.call, args), 0, 1)
    BY <2>4, <2>5, CallCodeTurns
  <2> QED
    BY <2>2, <2>6
<1> QED
  BY <1>1, <1>2, <1>3, <1>4, <1>5, <1>6, <1>7, <1>8, <1>9, <1>10
  DEF ValueKinds, InfixKinds, Summed, Numbered, Assigned, Untyped

\* The code of a statement leaves the stack as it was, if the code of the parts is
\* right.
LEMMA StatementKeepsStack ==
  ASSUME NEW ast \in AllTrees, NEW parts, WellFormed(ast, parts), \A p \in parts : KeepsStack(p),
         ast.kind \notin ValueKinds
  PROVE  Balanced(codegen(ast, Code), 0, 0)
<1> DEFINE Value(a) == Code[<<"value", a>>]
           Place(a) == Code[<<"place", a>>]
<1>v. \A a : a \in parts /\ a.kind \in ValueKinds => Turns(Value(a), 0, 1)
  BY DEF KeepsStack
<1>w. \A a \in parts : Turns(Place(a), 0, 1) /\ Balanced(Value(a), 0, 0)
  BY DEF KeepsStack
<1> HIDE DEF Value, Place
<1>1. CASE ast.kind \in {"break", "continue", "null"}
  <2>1. CASE ast.kind = "null"
    <3>1. codegen(ast, Code) = <<>>
      BY <2>1 DEF codegen, InfixKinds, Summed, Numbered, Assigned, Untyped
    <3> QED
      BY <3>1, Empty
  <2>2. CASE ast.kind \in {"break", "continue"}
    <3>1. codegen(ast, Code) = <<<<ast.kind>>>>
      BY <2>2 DEF codegen, InfixKinds, Summed, Numbered, Assigned, Untyped
    <3>2. <<ast.kind>> \in {<<"break">>, <<"continue">>}
      BY <2>2
    <3> QED
      BY <3>1, <3>2, OneStep
  <2> QED
    BY <1>1, <2>1, <2>2
<1>2. CASE ast.kind = "assign"
  <2>1. ast.left \in parts /\ ast.right \in parts /\ ast.right.kind \in ValueKinds
    BY <1>2 DEF WellFormed, InfixKinds, Summed, Numbered, Assigned, Untyped
  <2>2. codegen(ast, Code)
        = (Place(ast.left) \o Value(ast.right)) \o StoreTop(ast.left.typ)
    BY <1>2 DEF codegen, AssignCode, Value, Place, InfixKinds, Summed, Numbered, Assigned, Untyped
  <2>3. Turns(Place(ast.left), 0, 1) /\ Turns(Value(ast.right), 0, 1)
    BY <1>v, <1>w, <2>1
  <2>4. Turns(Value(ast.right), 1 + 0, 1 + 1)
    BY <2>3, Over
  <2>5. Turns(Place(ast.left) \o Value(ast.right), 0, 2)
    BY <2>3, <2>4, Then
  <2>6. Turns(StoreTop(ast.left.typ), 2, 0)
    BY <2>3, AssignCodes
  <2>7. Turns((Place(ast.left) \o Value(ast.right)) \o StoreTop(ast.left.typ), 0, 0)
    BY <2>5, <2>6, Then
  <2> QED
    BY <2>2, <2>7, AtDepth
<1>3. CASE ast.kind = "return"
  <2> DEFINE drop == IF ast.value.kind = "null" THEN <<>> ELSE emit_pop("rax")
  <2>1. ast.value \in parts /\ ast.value.kind \in ValueKinds \cup {"null"}
    BY <1>3 DEF WellFormed, InfixKinds, Summed, Numbered, Assigned, Untyped
  <2>2. codegen(ast, Code) = ((Value(ast.value) \o drop) \o emit_epilogue) \o <<<<"ret">>>>
    BY <1>3 DEF codegen, Value, Place, InfixKinds, Summed, Numbered, Assigned, Untyped
  <2>3. Balanced(Value(ast.value) \o drop, 0, 0)
    <3>1. CASE ast.value.kind = "null"
      <4>1. Balanced(<<>>, 0, 0) /\ Balanced(Value(ast.value), 0, 0)
        BY <1>w, <2>1, Empty
      <4> QED
        BY <3>1, <4>1, Sequence
    <3>2. CASE ast.value.kind # "null"
      <4>1. Turns(Value(ast.value), 0, 1) /\ Turns(emit_pop("rax"), 1, 0)
        BY <1>v, <2>1, <3>2, PopCode, SomeRegisters
      <4>2. Turns(Value(ast.value) \o emit_pop("rax"), 0, 0)
        BY <4>1, Then
      <4> QED
        BY <3>2, <4>2, AtDepth
    <3> QED
      BY <3>1, <3>2
  <2> HIDE DEF drop
  <2>4. Balanced((Value(ast.value) \o drop) \o emit_epilogue, 0, -2)
    BY <2>3, EpilogueCode, Sequence
  <2> QED
    BY <2>2, <2>4, EpilogueCode, Sequence
<1>4. CASE ast.kind = "statements"
  <2> DEFINE s == [i \in DOMAIN ast.stmts |-> Value(ast.stmts[i])]
  <2>1. ast.stmts \in Seq(parts)
    BY <1>4 DEF WellFormed, InfixKinds, Summed, Numbered, Assigned, Untyped
  <2>2. codegen(ast, Code) = FlattenSeq(s)
    BY <1>4 DEF codegen, Value, Place, InfixKinds, Summed, Numbered, Assigned, Untyped
  <2>3. PICK n \in Nat : ast.stmts \in [1 .. n -> parts]
    BY <2>1
  <2>4. IsSeq(s) /\ Len(s) = n
    BY <2>3, FunctionIsSeq
  <2>5. \A i \in 1 .. n : Balanced(s[i], 0, 0)
    BY <1>w, <2>3
  <2> HIDE DEF s
  <2> DEFINE h == [i \in 0 .. n |-> 0]
  <2>6. \A i \in 0 .. n : h[i] = 0
    OBVIOUS
  <2>7. \A i \in 1 .. n : Balanced(s[i], h[i - 1], h[i])
    <3>1. \A i \in 1 .. n : i \in 0 .. n /\ i - 1 \in 0 .. n
      OBVIOUS
    <3> HIDE DEF h
    <3> QED
      BY <2>5, <2>6, <3>1
  <2> HIDE DEF h
  <2>8. IsSeq(FlattenSeq(s)) /\ \E d : Depths(FlattenSeq(s), h[0], h[n], d)
    <3>1. \A i \in 0 .. n : h[i] \in Int
      BY <2>6
    <3> QED
      BY <2>4, <2>7, <3>1, FlattenDepths
  <2>9. h[0] = 0 /\ h[n] = 0
    BY <2>6
  <2> QED
    BY <2>2, <2>8, <2>9 DEF Balanced
<1>5. CASE ast.kind = "if"
  <2> DEFINE conds == [i \in DOMAIN ast.elifconds |-> Value(ast.elifconds[i])]
             bodies == [i \in DOMAIN ast.elifbodies |-> Value(ast.elifbodies[i])]
             values == {a \in parts : a.kind \in ValueKinds}
  <2>1. /\ ast.ifcond \in parts /\ ast.ifcond.kind \in ValueKinds
        /\ ast.ifbody \in parts /\ ast.elsebody \in parts
        /\ ast.elifconds \in Seq(values) /\ ast.elifbodies \in Seq(parts)
        /\ Len(ast.elifconds) = Len(ast.elifbodies)
    BY <1>5 DEF WellFormed, InfixKinds, Summed, Numbered, Assigned, Untyped
  <2>2. codegen(ast, Code)
        = IfCode(Value(ast.ifcond), Value(ast.ifbody),
                 ElifCode(conds, bodies, Value(ast.elsebody)))
    BY <1>5 DEF codegen, Value, Place, InfixKinds, Summed, Numbered, Assigned, Untyped
  <2>3. PICK n \in Nat : ast.elifconds \in [1 .. n -> values]
    <3> HIDE DEF values
    <3> QED
      BY <2>1
  <2>4. PICK m \in Nat : ast.elifbodies \in [1 .. m -> parts]
    BY <2>1
  <2>5. n = m
    <3>1. Len(ast.elifconds) = n /\ Len(ast.elifbodies) = m
      <4> HIDE DEF values
      <4> QED
        BY <2>3, <2>4
    <3> QED
      BY <2>1, <3>1
  <2>6. Len(conds) = n
    BY <2>3, FunctionIsSeq
  <2>7. ASSUME NEW i \in 1 .. n PROVE Turns(conds[i], 0, 1) /\ Balanced(bodies[i], 0, 0)
    <3>1. /\ ast.elifconds[i] \in parts /\ ast.elifconds[i].kind \in ValueKinds
          /\ ast.elifbodies[i] \in parts
      BY <2>3, <2>4, <2>5
    <3>2. conds[i] = Value(ast.elifconds[i]) /\ bodies[i] = Value(ast.elifbodies[i])
      BY <2>3, <2>4, <2>5
    <3> HIDE DEF conds, bodies
    <3> QED
      BY <1>v, <1>w, <3>1, <3>2
  <2> HIDE DEF conds, bodies
  <2>8. Balanced(ElifCode(conds, bodies, Value(ast.elsebody)), 0, 0)
    BY <1>w, <2>1, <2>6, <2>7, ElifCodeBalanced
  <2>9. Turns(Value(ast.ifcond), 0, 1) /\ Balanced(Value(ast.ifbody), 0, 0)
    BY <1>v, <1>w, <2>1
  <2> QED
    BY <2>2, <2>8, <2>9, IfCodeBalanced
<1>6. CASE ast.kind = "while"
  <2>1. /\ ast.whilecond \in parts /\ ast.whilecond.kind \in ValueKinds
        /\ ast.whilebody \in parts
    BY <1>6 DEF WellFormed, InfixKinds, Summed, Numbered, Assigned, Untyped
  <2>2. codegen(ast, Code) = WhileCode(Value(ast.whilecond), Value(ast.whilebody))
    BY <1>6 DEF codegen, Value, Place, InfixKinds, Summed, Numbered, Assigned, Untyped
  <2> QED
    BY <1>v, <1>w, <2>1, <2>2, WhileCodeBalanced
<1>7. CASE ast.kind = "for"
  <2>1. /\ ast.forcond \in parts /\ ast.forcond.kind \in ValueKinds
        /\ ast.forinit \in parts /\ ast.fornext \in parts /\ ast.forbody \in parts
    BY <1>7 DEF WellFormed, InfixKinds, Summed, Numbered, Assigned, Untyped
  <2>2. codegen(ast, Code)
        = ForCode(Value(ast.forinit), Value(ast.forcond), Value(ast.fornext), Value(ast.forbody))
    BY <1>7 DEF codegen, Value, Place, InfixKinds, Summed, Numbered, Assigned, Untyped
  <2> QED
    BY <1>v, <1>w, <2>1, <2>2, ForCodeBalanced
<1>8. ast.kind \in {"break", "continue", "null", "assign", "return", "statements", "if",
                    "while", "for"}
  BY DEF WellFormed, ValueKinds, InfixKinds, Summed, Numbered, Assigned, Untyped
<1> QED
  BY <1>1, <1>2, <1>3, <1>4, <1>5, <1>6, <1>7, <1>8

\* A tree's code is right if the code of its parts is.
LEMMA TreeKeepsStack ==
  ASSUME NEW ast \in AllTrees, NEW parts, WellFormed(ast, parts), \A p \in parts : KeepsStack(p)
  PROVE  KeepsStack(ast)
<1>1. Code[<<"value", ast>>] = codegen(ast, Code) /\ Code[<<"place", ast>>] = codegen_lvalue(ast, Code)
  BY CodeOfTree
<1>2. Turns(Code[<<"place", ast>>], 0, 1)
  BY <1>1, PlaceKeepsStack
<1>3. CASE ast.kind \in ValueKinds
  <2>1. Turns(Code[<<"value", ast>>], 0, 1)
    BY <1>1, <1>3, ValueKeepsStack
  <2> QED
    BY <1>2, <2>1, Dropped DEF KeepsStack
<1>4. CASE ast.kind \notin ValueKinds
  BY <1>1, <1>2, <1>4, StatementKeepsStack DEF KeepsStack
<1> QED
  BY <1>3, <1>4

\* An expression leaves one word more on the operand stack, an lvalue too, and a
\* statement takes nothing that was there before it.
THEOREM CodeKeepsStack == \A ast \in AllTrees : KeepsStack(ast)
<1> DEFINE S == {n \in Nat : n + 1 \in 1 .. Len(Trees) => \A ast \in Trees[n + 1] : KeepsStack(ast)}
<1>0. \A n \in 1 .. Len(Trees) : Trees[n] \subseteq AllTrees
  <2>1. Trees \in Seq(SUBSET AllTrees)
    BY TreesAssumption DEF TreesAssumption
  <2> HIDE DEF AllTrees
  <2>2. PICK U : U = SUBSET AllTrees
    OBVIOUS
  <2>3. PICK n \in Nat : Trees \in [1 .. n -> U]
    BY <2>1, <2>2
  <2>4. Len(Trees) = n
    BY <2>3
  <2> QED
    BY <2>2, <2>3, <2>4
<1>1. 0 \in S
  <2> SUFFICES ASSUME 1 \in 1 .. Len(Trees), NEW ast \in Trees[1] PROVE KeepsStack(ast)
    OBVIOUS
  <2>1. ast \in AllTrees /\ WellFormed(ast, {})
    BY <1>0, Heights
  <2> QED
    BY <2>1, TreeKeepsStack
<1>2. ASSUME NEW n \in S PROVE n + 1 \in S
  <2> SUFFICES ASSUME (n + 1) + 1 \in 1 .. Len(Trees), NEW ast \in Trees[(n + 1) + 1]
               PROVE  KeepsStack(ast)
    OBVIOUS
  <2>1. (n + 1) + 1 \in 2 .. Len(Trees) /\ ((n + 1) + 1) - 1 = n + 1 /\ n + 1 \in 1 .. Len(Trees)
    BY Heights
  <2>2. ast \in AllTrees /\ WellFormed(ast, Trees[n + 1])
    BY <1>0, <2>1, Heights
  <2>3. \A p \in Trees[n + 1] : KeepsStack(p)
    BY <2>1
  <2> QED
    BY <2>2, <2>3, TreeKeepsStack
<1>3. S = Nat
  BY <1>1, <1>2, SetInduction
<1>4. Len(Trees) - 1 \in Nat /\ (Len(Trees) - 1) + 1 = Len(Trees) /\ Len(Trees) \in 1 .. Len(Trees)
  BY Heights
<1>5. Len(Trees) - 1 \in S
  BY <1>3, <1>4
<1> QED
  BY <1>4, <1>5 DEF AllTrees

-----------------------------------------------------------------------------
\* The code of a function.

\* The sums of natural numbers are natural numbers, one larger than the other.
LEMMA SumsGrow ==
  ASSUME NEW s, NEW n \in Nat, \A i \in 1 .. n : s[i] \in Nat
  PROVE  /\ PartialSum(s, 0) = 0
         /\ \A i \in 0 .. n : PartialSum(s, i) \in Nat
         /\ \A i \in 1 .. n : PartialSum(s, i) = PartialSum(s, i - 1) + s[i]
         /\ \A i \in 0 .. n : \A j \in 0 .. i : PartialSum(s, j) <= PartialSum(s, i)
<1> DEFINE At(i) == PartialSum(s, i)
<1>1. At(0) = 0 /\ \A i \in Nat : At(i + 1) = At(i) + s[i + 1]
  BY PartialSumStep
<1> HIDE DEF At
<1> DEFINE Good(i) == At(i) \in Nat /\ \A j \in 0 .. i : At(j) \in Nat /\ At(j) <= At(i)
           S == {i \in Nat : i <= n => Good(i)}
<1>2. 0 \in S
  BY <1>1
<1>3. ASSUME NEW i \in S PROVE i + 1 \in S
  <2> SUFFICES ASSUME i + 1 <= n PROVE Good(i + 1)
    OBVIOUS
  <2>1. i \in Nat /\ Good(i) /\ i + 1 \in 1 .. n
    OBVIOUS
  <2>2. At(i + 1) = At(i) + s[i + 1] /\ s[i + 1] \in Nat
    BY <1>1, <2>1
  <2>3. At(i + 1) \in Nat /\ At(i) <= At(i + 1)
    BY <2>1, <2>2
  <2>4. ASSUME NEW j \in 0 .. i + 1 PROVE At(j) \in Nat /\ At(j) <= At(i + 1)
    <3>1. CASE j = i + 1
      BY <2>3, <3>1
    <3>2. CASE j # i + 1
      <4>1. j \in 0 .. i
        BY <2>1, <3>2
      <4> QED
        BY <2>1, <2>3, <4>1
    <3> QED
      BY <3>1, <3>2
  <2> QED
    BY <2>3, <2>4
<1>4. S = Nat
  <2> HIDE DEF Good
  <2> QED
    BY <1>2, <1>3, SetInduction
<1>5. \A i \in 0 .. n : Good(i)
  <2> HIDE DEF Good
  <2> QED
    BY <1>4
<1>6. ASSUME NEW i \in 1 .. n PROVE At(i) = At(i - 1) + s[i]
  <2>1. i - 1 \in Nat /\ (i - 1) + 1 = i
    OBVIOUS
  <2>2. At((i - 1) + 1) = At(i - 1) + s[(i - 1) + 1]
    BY <1>1, <2>1
  <2> QED
    BY <2>1, <2>2
<1> QED
  BY <1>1, <1>5, <1>6 DEF At

\* Variables of which each has a size.
Sized(vs) == IsSeq(vs) /\ \A i \in 1 .. Len(vs) : SizeOf(vs[i].typ) \in Nat

\* The offset of a variable lies behind the variable, inside of the frame.
LEMMA OffsetFacts ==
  ASSUME NEW vs, Sized(vs)
  PROVE  /\ \A i \in 0 .. Len(vs) : Offset(vs, i) \in Nat /\ Offset(vs, i) <= Offset(vs, Len(vs))
         /\ \A i \in 1 .. Len(vs) : SizeOf(vs[i].typ) <= Offset(vs, i)
<1> DEFINE n == Len(vs)
           s == [j \in DOMAIN vs |-> SizeOf(vs[j].typ)]
<1>1. n \in Nat /\ DOMAIN vs = 1 .. n
  BY SeqFacts DEF Sized
<1>2. \A i \in 1 .. n : s[i] = SizeOf(vs[i].typ) /\ s[i] \in Nat
  BY <1>1 DEF Sized
<1>3. \A i : Offset(vs, i) = PartialSum(s, i)
  BY DEF Offset
<1> HIDE DEF s, n
<1>4. /\ PartialSum(s, 0) = 0
      /\ \A i \in 0 .. n : PartialSum(s, i) \in Nat
      /\ \A i \in 1 .. n : PartialSum(s, i) = PartialSum(s, i - 1) + s[i]
      /\ \A i \in 0 .. n : \A j \in 0 .. i : PartialSum(s, j) <= PartialSum(s, i)
  BY <1>1, <1>2, SumsGrow
<1>5. \A i \in 0 .. n : Offset(vs, i) \in Nat /\ Offset(vs, i) <= Offset(vs, n)
  <2>1. n \in 0 .. n
    BY <1>1
  <2> QED
    BY <1>3, <1>4, <2>1
<1>6. ASSUME NEW i \in 1 .. n PROVE SizeOf(vs[i].typ) <= Offset(vs, i)
  <2>1. i - 1 \in 0 .. n /\ PartialSum(s, i - 1) \in Nat /\ i \in 0 .. n /\ PartialSum(s, i) \in Nat
    BY <1>1, <1>4
  <2>2. PartialSum(s, i) = PartialSum(s, i - 1) + s[i] /\ s[i] \in Nat
    BY <1>2, <1>4
  <2> QED
    BY <1>2, <1>3, <2>1, <2>2
<1> QED
  BY <1>5, <1>6 DEF n

\* What a sequence of sized variables is a sequence of.
LEMMA SizedSeq ==
  ASSUME NEW U, NEW s \in Seq({v \in U : SizeOf(v.typ) \in Nat})
  PROVE  Sized(s)
<1> DEFINE V == {v \in U : SizeOf(v.typ) \in Nat}
<1>1. \A v \in V : SizeOf(v.typ) \in Nat
  OBVIOUS
<1>2. s \in Seq(V)
  OBVIOUS
<1> HIDE DEF V
<1>3. IsSeq(s) /\ \A i \in 1 .. Len(s) : s[i] \in V
  BY <1>2, SeqHasRange
<1> QED
  BY <1>1, <1>3 DEF Sized

\* Two lists of sized variables, one behind the other.
LEMMA SizedConcat ==
  ASSUME NEW s, Sized(s), NEW t, Sized(t)
  PROVE  Sized(s \o t)
<1>1. IsSeq(s) /\ IsSeq(t)
  BY DEF Sized
<1> DEFINE u == s \o t
<1>2. /\ IsSeq(u) /\ Len(u) = Len(s) + Len(t)
      /\ \A i \in 1 .. Len(s) : u[i] = s[i]
      /\ \A i \in 1 .. Len(t) : u[Len(s) + i] = t[i]
  BY <1>1, Concat
<1> HIDE DEF u
<1>3. Len(s) \in Nat /\ Len(t) \in Nat
  BY <1>1, SeqFacts
<1>4. ASSUME NEW i \in 1 .. Len(u) PROVE SizeOf(u[i].typ) \in Nat
  <2>1. CASE i <= Len(s)
    BY <1>2, <1>3, <2>1 DEF Sized
  <2>2. CASE i > Len(s)
    <3>1. i - Len(s) \in 1 .. Len(t) /\ Len(s) + (i - Len(s)) = i
      BY <1>2, <1>3, <2>2
    <3> QED
      BY <1>2, <3>1 DEF Sized
  <2> QED
    BY <1>2, <1>3, <2>1, <2>2
<1> QED
  BY <1>2, <1>4 DEF Sized, u

\* The parameters and the variables of a function.
LEMMA LocalsSized ==
  ASSUME NEW fn, IsFunction(fn)
  PROVE  Sized(fn.params) /\ Sized(fn.params \o fn.vars)
<1>1. PICK U : fn.params \in Seq({v \in U : SizeOf(v.typ) \in Nat})
               /\ fn.vars \in Seq({v \in U : SizeOf(v.typ) \in Nat})
  BY DEF IsFunction
<1>2. Sized(fn.params) /\ Sized(fn.vars)
  BY <1>1, SizedSeq
<1> QED
  BY <1>2, SizedConcat

\* The room a function takes for its parameters and variables.
LEMMA StackSizeNat ==
  ASSUME NEW fn, IsFunction(fn)
  PROVE  StackSize(fn) \in Nat
<1> DEFINE l == fn.params \o fn.vars
<1>1. Sized(l)
  BY LocalsSized
<1>2. StackSize(fn) = Offset(l, Len(l))
  BY DEF StackSize
<1> HIDE DEF l
<1>3. Len(l) \in 0 .. Len(l)
  BY <1>1, SeqFacts DEF Sized
<1>4. Offset(l, Len(l)) \in Nat
  BY <1>1, <1>3, OffsetFacts
<1> QED
  BY <1>2, <1>4

\* Every parameter is stored with the operand stack empty.
LEMMA StoreParamCode ==
  ASSUME NEW fn, IsFunction(fn), NEW i \in 1 .. Len(fn.params)
  PROVE  Turns(StoreParam(fn, i), 0, 0)
<1>1. Offset(fn.params, i) \in Nat /\ Len(fn.params) \in Nat
  <2>1. Sized(fn.params) /\ Len(fn.params) \in Nat
    BY LocalsSized, SeqFacts DEF Sized
  <2>2. i \in 0 .. Len(fn.params)
    BY <2>1
  <2> QED
    BY <2>1, <2>2, OffsetFacts
<1> DEFINE o == -Offset(fn.params, i)
           typ == fn.params[i].typ
           k == -(i - 6) * 8
<1>2. o \in Int /\ k \in Int
  BY <1>1
<1> HIDE DEF o, typ, k
<1>3. Turns(<<<<"lea", o>>>>, 0, 0) /\ Turns(<<<<"reload", k>>>>, 0, 0)
  BY <1>2, PlainInstructions, PlainStep
<1>4. CASE i <= 6
  <2>1. ArgRegs[i] \in Registers
    BY <1>4, SomeRegisters
  <2>2. Turns(codegen_movereg(typ, ArgRegs[i]), 0, 0)
    BY <2>1, MoveRegCode
  <2>3. StoreParam(fn, i) = <<<<"lea", o>>>> \o codegen_movereg(typ, ArgRegs[i])
    BY <1>4 DEF StoreParam, o, typ
  <2> QED
    BY <1>3, <2>2, <2>3, Then
<1>5. CASE ~ (i <= 6)
  <2>1. Turns(codegen_movereg(typ, "rcx"), 0, 0)
    BY MoveRegCode, SomeRegisters
  <2>2. Turns(<<<<"reload", k>>>> \o codegen_movereg(typ, "rcx"), 0, 0)
    BY <1>3, <2>1, Then
  <2>3. StoreParam(fn, i)
        = <<<<"lea", o>>>> \o (<<<<"reload", k>>>> \o codegen_movereg(typ, "rcx"))
    BY <1>5 DEF StoreParam, o, typ, k
  <2> QED
    BY <1>3, <2>2, <2>3, Then
<1> QED
  BY <1>4, <1>5

\* The prologue: its three instructions, and the phase before each.
LEMMA PrologueCode ==
  ASSUME NEW n \in Int
  PROVE  /\ Balanced(emit_prologue(n), -3, 0)
         /\ Len(emit_prologue(n)) = 3 /\ emit_prologue(n)[3] = <<"add_int", -n, "rsp">>
<1> DEFINE x == <<"push", "rbp">>
           y == <<"mov", "rsp", "rbp">>
           z == <<"add_int", -n, "rsp">>
           c == <<x, y, z>>
           d == [i \in 1 .. 4 |-> IF i = 1 THEN -3 ELSE IF i = 2 THEN -4 ELSE IF i = 3 THEN -5 ELSE 0]
<1>1. Straight(x, -3, -4) /\ Straight(y, -4, -5) /\ Straight(z, -5, 0)
  <2>1. -n \in Int
    OBVIOUS
  <2>2. Prologues(x, -3, -4) /\ Prologues(y, -4, -5) /\ Prologues(z, -5, 0)
    BY <2>1 DEF Prologues
  <2> QED
    BY <2>2 DEF Straight
<1>2. emit_prologue(n) = c
  BY DEF emit_prologue
<1> HIDE DEF x, y, z
<1>3. c \in Seq({x, y, z}) /\ Len(c) = 3 /\ c[1] = x /\ c[2] = y /\ c[3] = z
  OBVIOUS
<1>4. IsSeq(c)
  BY <1>3, SeqHasRange
<1> HIDE DEF c
<1>5. d \in [1 .. 4 -> Int] /\ d[1] = -3 /\ d[2] = -4 /\ d[3] = -5 /\ d[4] = 0
  OBVIOUS
<1> HIDE DEF d
<1>6. Flows(c, d, 1) /\ Flows(c, d, 2) /\ Flows(c, d, 3)
  <2>1. Straight(c[1], d[1], d[1 + 1]) /\ Straight(c[2], d[2], d[2 + 1])
        /\ Straight(c[3], d[3], d[3 + 1])
    BY <1>1, <1>3, <1>5
  <2> QED
    BY <2>1 DEF Flows
<1>7. \A i \in 1 .. 3 : i = 1 \/ i = 2 \/ i = 3
  OBVIOUS
<1>8. \A i \in 1 .. Len(c) : Flows(c, d, i)
  BY <1>3, <1>6, <1>7
<1>9. Depths(c, -3, 0, d)
  BY <1>3, <1>5, <1>8 DEF Depths
<1>10. Balanced(c, -3, 0)
  BY <1>4, <1>9 DEF Balanced
<1> QED
  BY <1>2, <1>3, <1>10 DEF z

\* What is at the start of the first of two sequences is at the start of both.
LEMMA StaysFirst ==
  ASSUME NEW s, IsSeq(s), NEW t, IsSeq(t), NEW k \in 1 .. Len(s)
  PROVE  IsSeq(s \o t) /\ k \in 1 .. Len(s \o t) /\ (s \o t)[k] = s[k]
<1> DEFINE u == s \o t
<1>1. /\ IsSeq(u) /\ Len(u) = Len(s) + Len(t)
      /\ \A i \in 1 .. Len(s) : u[i] = s[i]
  BY Concat
<1> HIDE DEF u
<1>2. Len(s) \in Nat /\ Len(t) \in Nat
  BY SeqFacts
<1> QED
  BY <1>1, <1>2 DEF u

\* A function starts and ends between two functions, and its third instruction
\* makes room for its variables.
LEMMA FunctionCode ==
  ASSUME NEW fn, IsFunction(fn)
  PROVE  /\ Balanced(codegen_funcdecl(fn), -3, -3)
         /\ \/ codegen_funcdecl(fn) = Stop
            \/ /\ 3 \in 1 .. Len(codegen_funcdecl(fn))
               /\ codegen_funcdecl(fn)[3] = <<"add_int", -StackSize(fn), "rsp">>
<1>1. CASE fn.tree.typ = Stopped
  <2>1. codegen_funcdecl(fn) = Stop
    BY <1>1 DEF codegen_funcdecl
  <2>2. Balanced(Stop, -3, -3)
    BY OneStep DEF Stop
  <2> QED
    BY <2>1, <2>2
<1>2. CASE fn.tree.typ # Stopped
  <2> DEFINE size == StackSize(fn)
             start == emit_prologue(size)
             params == [i \in DOMAIN fn.params |-> StoreParam(fn, i)]
             store == FlattenSeq(params)
             body == Code[<<"value", fn.tree>>]
             last == <<<<"ret">>>>
  <2>1. size \in Int
    <3>1. size \in Nat
      BY StackSizeNat
    <3> QED
      BY <3>1
  <2>2. Turns(store, 0, 0)
    <3>1. DOMAIN fn.params = 1 .. Len(fn.params) /\ Len(fn.params) \in Nat
      BY LocalsSized, SeqFacts DEF Sized
    <3>2. params = [i \in 1 .. Len(fn.params) |-> params[i]]
      BY <3>1
    <3>3. \A i \in 1 .. Len(fn.params) : params[i] = StoreParam(fn, i)
      BY <3>1
    <3> HIDE DEF params
    <3>4. IsSeq(params) /\ Len(params) = Len(fn.params)
      BY <3>1, <3>2, FunctionIsSeq
    <3>5. \A i \in 1 .. Len(params) : Turns(params[i], 0, 0)
      BY <3>3, <3>4, StoreParamCode
    <3> QED
      BY <3>4, <3>5, FlattenSame
  <2>3. Balanced(body, 0, 0)
    <3>1. fn.tree \in AllTrees
      BY <1>2 DEF IsFunction
    <3> QED
      BY <3>1, CodeKeepsStack DEF KeepsStack
  <2>4. Balanced(start, -3, 0) /\ Len(start) = 3 /\ start[3] = <<"add_int", -size, "rsp">>
    BY <2>1, PrologueCode
  <2>5. Balanced(last, -2, -3)
    BY OneStep
  <2>6. Balanced(emit_epilogue, 0, -2)
    BY EpilogueCode
  <2>7. codegen_funcdecl(fn) = (((start \o store) \o body) \o emit_epilogue) \o last
    BY <1>2 DEF codegen_funcdecl, Prologue
  <2>8. size = StackSize(fn)
    OBVIOUS
  <2> HIDE DEF size, start, store, body, last, params
  <2>9. Balanced(store, 0, 0)
    BY <2>2, AtDepth
  <2>10. Balanced(start \o store, -3, 0)
    BY <2>4, <2>9, Sequence
  <2>11. Balanced((start \o store) \o body, -3, 0)
    BY <2>3, <2>10, Sequence
  <2>12. Balanced(((start \o store) \o body) \o emit_epilogue, -3, -2)
    BY <2>6, <2>11, Sequence
  <2>13. Balanced((((start \o store) \o body) \o emit_epilogue) \o last, -3, -3)
    BY <2>5, <2>12, Sequence
  <2>14. /\ IsSeq(start) /\ IsSeq(store) /\ IsSeq(body) /\ IsSeq(emit_epilogue) /\ IsSeq(last)
         /\ 3 \in 1 .. Len(start)
    BY <2>3, <2>4, <2>5, <2>6, <2>9 DEF Balanced
  <2> DEFINE c1 == start \o store
             c2 == c1 \o body
             c3 == c2 \o emit_epilogue
             c4 == c3 \o last
  <2>15. IsSeq(c1) /\ 3 \in 1 .. Len(c1) /\ c1[3] = start[3]
    BY <2>14, StaysFirst
  <2> HIDE DEF c1
  <2>16. IsSeq(c2) /\ 3 \in 1 .. Len(c2) /\ c2[3] = c1[3]
    BY <2>14, <2>15, StaysFirst
  <2> HIDE DEF c2
  <2>17. IsSeq(c3) /\ 3 \in 1 .. Len(c3) /\ c3[3] = c2[3]
    BY <2>14, <2>16, StaysFirst
  <2> HIDE DEF c3
  <2>18. 3 \in 1 .. Len(c4) /\ c4[3] = c3[3]
    BY <2>14, <2>17, StaysFirst
  <2>19. codegen_funcdecl(fn) = c4
    BY <2>7 DEF c1, c2, c3
  <2> HIDE DEF c4
  <2>20. Balanced(c4, -3, -3)
    BY <2>13 DEF c1, c2, c3, c4
  <2> QED
    BY <2>4, <2>8, <2>15, <2>16, <2>17, <2>18, <2>19, <2>20
<1> QED
  BY <1>1, <1>2

-----------------------------------------------------------------------------
\* The text and the data of a program.

\* A name is found where IndexOf() looks for it.
LEMMA IndexFound ==
  ASSUME NEW s, IsSeq(s), NEW x \in NamesIn(s)
  PROVE  IndexOf(s, x) \in 1 .. Len(s) /\ s[IndexOf(s, x)].name = x
<1>1. DOMAIN s = 1 .. Len(s)
  BY SeqFacts
<1>2. \E i \in DOMAIN s : s[i].name = x
  <2>1. PICK y \in ToSet(s) : y.name = x
    BY DEF NamesIn
  <2>2. PICK i \in DOMAIN s : s[i] = y
    BY <2>1 DEF ToSet
  <2> QED
    BY <2>1, <2>2
<1>3. IndexOf(s, x) \in DOMAIN s /\ s[IndexOf(s, x)].name = x
  BY <1>2 DEF IndexOf
<1> QED
  BY <1>1, <1>3

\* The functions of a program of the model.
LEMMA Functions ==
  ASSUME NEW p \in Sources
  PROVE  /\ IsSeq(p.fns) /\ \A i \in 1 .. Len(p.fns) : IsFunction(p.fns[i])
         /\ "main" \in NamesIn(p.fns)
<1>1. p.fns \in Seq(ToSet(p.fns)) /\ \A fn \in ToSet(p.fns) : IsFunction(fn)
  BY SourcesAssumption
<1>2. IsSeq(p.fns) /\ \A i \in 1 .. Len(p.fns) : p.fns[i] \in ToSet(p.fns)
  BY <1>1, SeqHasRange
<1> QED
  BY <1>1, <1>2, SourcesAssumption

\* The fields of an assembled program.
LEMMA Fields ==
  ASSUME NEW p
  PROVE  /\ Assembled(p).source = p
         /\ Assembled(p).text = FlattenSeq(Emitted(p))
         /\ <<"stop">> \in ToSet(Assembled(p).text) => Assembled(p).stops
         /\ DOMAIN Assembled(p).entry = NamesIn(p.fns)
         /\ DOMAIN Assembled(p).frame = NamesIn(p.fns)
         /\ DOMAIN Assembled(p).slots = NamesIn(p.fns)
         /\ \A f \in NamesIn(p.fns) :
              LET fn == p.fns[IndexOf(p.fns, f)]
              IN /\ Assembled(p).entry[f] = End(Emitted(p), IndexOf(p.fns, f) - 1) + 1
                 /\ Assembled(p).frame[f] = StackSize(fn)
                 /\ Assembled(p).slots[f] = Slots(fn.params \o fn.vars)
  BY DEF Assembled, End, Lens, StackSize

\* A depth for every instruction of the text: each function starts in the phase of
\* its prologue, whose third instruction makes room for its variables.
TextDepths(p, d) ==
  /\ Depths(p.text, -3, -3, d)
  /\ \A f \in DOMAIN p.entry :
       /\ p.entry[f] \in Nat /\ p.entry[f] + 2 \in 1 .. Len(p.text) /\ 1 <= p.entry[f]
       /\ d[p.entry[f]] = -3
       /\ p.text[p.entry[f] + 2] = <<"add_int", -p.frame[f], "rsp">>

\* The instructions of a program have depths: each function starts with the depth of
\* a function's start, wherever the text has it.
LEMMA TextHasDepths ==
  ASSUME NEW p \in Sources, ~ Assembled(p).stops
  PROVE  /\ IsSeq(Assembled(p).text)
         /\ \A i \in 1 .. Len(Assembled(p).text) : Assembled(p).text[i] # <<"stop">>
         /\ \E d : TextDepths(Assembled(p), d)
<1> DEFINE fns == p.fns
           code == Emitted(p)
           n == Len(fns)
           A == Assembled(p)
           text == FlattenSeq(code)
<1>1. IsSeq(fns) /\ n \in Nat /\ DOMAIN fns = 1 .. n /\ \A i \in 1 .. n : IsFunction(fns[i])
  BY Functions, SeqFacts
<1>2. code = [i \in 1 .. n |-> code[i]] /\ \A i \in 1 .. n : code[i] = codegen_funcdecl(fns[i])
  BY <1>1 DEF Emitted
<1>3. /\ A.text = text /\ (<<"stop">> \in ToSet(text) => A.stops)
      /\ DOMAIN A.entry = NamesIn(fns)
      /\ \A f \in NamesIn(fns) : /\ A.entry[f] = End(code, IndexOf(fns, f) - 1) + 1
                                 /\ A.frame[f] = StackSize(fns[IndexOf(fns, f)])
  BY Fields
<1>s. ~ A.stops
  OBVIOUS
<1> HIDE DEF code, fns, n, A
<1>4. IsSeq(code) /\ Len(code) = n
  BY <1>1, <1>2, FunctionIsSeq
<1>5. \A i \in 1 .. n : /\ Balanced(code[i], -3, -3)
                        /\ \/ code[i] = Stop
                           \/ /\ 3 \in 1 .. Len(code[i])
                              /\ code[i][3] = <<"add_int", -StackSize(fns[i]), "rsp">>
  BY <1>1, <1>2, FunctionCode
<1> DEFINE h == [i \in 0 .. n |-> -3]
<1>6. \A i \in 0 .. n : h[i] = -3 /\ h[i] \in Int
  OBVIOUS
<1> HIDE DEF h
<1>7. \A i \in 1 .. n : h[i - 1] = -3 /\ h[i] = -3
  BY <1>1, <1>6
<1>8. \A i \in 1 .. n : Balanced(code[i], h[i - 1], h[i])
  BY <1>5, <1>7
<1>9. n = Len(code)
  BY <1>4
<1>10. IsSeq(text) /\ \E d : /\ Depths(text, h[0], h[n], d)
                             /\ \A i \in 0 .. n : d[End(code, i) + 1] = h[i]
  BY <1>1, <1>4, <1>6, <1>8, <1>9, FlattenDepths
<1>11. PICK d : Depths(text, h[0], h[n], d) /\ \A i \in 0 .. n : d[End(code, i) + 1] = h[i]
  BY <1>10
<1>12. /\ \A i \in 0 .. Len(code) : End(code, i) \in Nat
       /\ \A i \in 1 .. Len(code) : End(code, i) = End(code, i - 1) + Len(code[i])
       /\ \A i \in 0 .. Len(code) : \A j \in 0 .. i : End(code, j) <= End(code, i)
       /\ Len(text) = End(code, Len(code))
       /\ \A i \in 1 .. Len(code) : \A k \in 1 .. Len(code[i]) :
              text[End(code, i - 1) + k] = code[i][k]
  <2>1. \A i \in 1 .. Len(code) : IsSeq(code[i])
    BY <1>4, <1>5 DEF Balanced
  <2> HIDE DEF text
  <2> QED
    BY <2>1, <1>4, FlattenAt DEF text
<1> HIDE DEF text
<1>13. Depths(text, -3, -3, d)
  <2>1. h[0] = -3 /\ h[n] = -3
    BY <1>1, <1>6
  <2> QED
    BY <1>11, <2>1
<1>14. \A i \in 1 .. Len(text) : text[i] # <<"stop">>
  <2>1. <<"stop">> \notin ToSet(text)
    BY <1>3, <1>s
  <2>2. DOMAIN text = 1 .. Len(text)
    BY <1>10, SeqFacts
  <2> QED
    BY <2>1, <2>2 DEF ToSet
<1>15. ASSUME NEW f \in DOMAIN A.entry
       PROVE  /\ A.entry[f] \in Nat /\ A.entry[f] + 2 \in 1 .. Len(text) /\ 1 <= A.entry[f]
              /\ d[A.entry[f]] = -3
              /\ text[A.entry[f] + 2] = <<"add_int", -A.frame[f], "rsp">>
  <2> DEFINE i == IndexOf(fns, f)
  <2>1. f \in NamesIn(fns)
    BY <1>3
  <2>2. i \in 1 .. n
    BY <1>1, <2>1, IndexFound DEF n
  <2>3. A.entry[f] = End(code, i - 1) + 1 /\ A.frame[f] = StackSize(fns[i])
    BY <1>3, <2>1
  <2> HIDE DEF i
  <2>4. i - 1 \in 0 .. n /\ i \in 0 .. n /\ n \in 0 .. n
    BY <1>1, <2>2
  <2>5. /\ End(code, i - 1) \in Nat /\ End(code, i) = End(code, i - 1) + Len(code[i])
        /\ End(code, i) <= Len(text) /\ Len(text) \in Nat /\ End(code, i) \in Nat
    BY <1>9, <1>12, <2>2, <2>4
  <2>6. IsSeq(code[i]) /\ Len(code[i]) \in Nat
    BY <1>5, <2>2, SeqFacts DEF Balanced
  <2>7. code[i] # Stop
    <3>1. SUFFICES ASSUME code[i] = Stop PROVE FALSE
      OBVIOUS
    <3>2. Len(code[i]) = 1 /\ code[i][1] = <<"stop">>
      BY <3>1, One DEF Stop
    <3>a. 1 \in 1 .. Len(code[i])
      BY <3>2
    <3>3. text[End(code, i - 1) + 1] = code[i][1]
      BY <1>9, <1>12, <2>2, <3>a
    <3>4. End(code, i - 1) + 1 \in 1 .. Len(text)
      BY <2>5, <3>2
    <3> QED
      BY <1>14, <3>2, <3>3, <3>4
  <2>8. 3 \in 1 .. Len(code[i]) /\ code[i][3] = <<"add_int", -StackSize(fns[i]), "rsp">>
    BY <1>5, <2>2, <2>7
  <2>9. text[End(code, i - 1) + 3] = code[i][3]
    BY <1>9, <1>12, <2>2, <2>8
  <2>10. A.entry[f] + 2 = End(code, i - 1) + 3
    BY <2>3, <2>5
  <2>11. d[A.entry[f]] = -3
    <3>1. d[End(code, i - 1) + 1] = h[i - 1]
      BY <1>11, <2>4
    <3> QED
      BY <1>7, <2>2, <2>3, <3>1
  <2>12. A.entry[f] + 2 \in 1 .. Len(text) /\ A.entry[f] \in Nat /\ 1 <= A.entry[f]
    BY <2>3, <2>5, <2>6, <2>8, <2>10
  <2> QED
    BY <2>3, <2>8, <2>9, <2>10, <2>11, <2>12
<1>16. TextDepths(A, d)
  BY <1>3, <1>13, <1>15 DEF TextDepths
<1> QED
  BY <1>3, <1>10, <1>14, <1>16 DEF A

-----------------------------------------------------------------------------
\* Words and bytes.

\* A byte has one of eight numbers of values: facts the provers find case by case.
LEMMA ByteCases ==
  /\ Byte \in {2, 4, 8, 16, 32, 64, 128, 256}
  /\ Byte \in Nat /\ Byte > 1 /\ Int32 \in Nat /\ Int32 > 1 /\ Word \in Nat /\ Word > 255
  /\ Word = Byte * (Byte * (Byte * (Byte * (Byte * (Byte * (Byte * Byte))))))
<1>1. Byte \in {2, 4, 8, 16, 32, 64, 128, 256}
  BY ByteAssumption
<1>2. CASE Byte = 2
  BY <1>1, <1>2 DEF Int32, Word
<1>3. CASE Byte = 4
  BY <1>1, <1>3 DEF Int32, Word
<1>4. CASE Byte = 8
  BY <1>1, <1>4 DEF Int32, Word
<1>5. CASE Byte = 16
  BY <1>1, <1>5 DEF Int32, Word
<1>6. CASE Byte = 32
  BY <1>1, <1>6 DEF Int32, Word
<1>7. CASE Byte = 64
  BY <1>1, <1>7 DEF Int32, Word
<1>8. CASE Byte = 128
  BY <1>1, <1>8 DEF Int32, Word
<1>9. CASE Byte = 256
  <2> DEFINE b == 65536
  <2>1. Int32 = (Byte * Byte) * (Byte * Byte)
    BY <1>9 DEF Int32
  <2>2. Byte * Byte = b /\ b \in Nat /\ b > 255
    BY <1>9
  <2> HIDE DEF b
  <2>3. Int32 = b * b /\ Word = (b * b) * (b * b)
    BY <2>1, <2>2 DEF Word
  <2>4. b * b \in Nat /\ b * b > 255
    BY <2>2
  <2>5. (b * b) * (b * b) \in Nat /\ (b * b) * (b * b) > 255
    BY <2>4
  <2>6. \A n \in Nat : Byte * (Byte * n) = b * n
    BY <1>9 DEF b
  <2>7. Byte * (Byte * b) = b * b
    BY <2>2, <2>6
  <2>8. Byte * (Byte * (b * b)) = b * (b * b)
    BY <2>4, <2>6
  <2>9. b * (b * b) \in Nat /\ b * (b * (b * b)) = (b * b) * (b * b)
    BY <2>2, <2>4
  <2>10. Byte * (Byte * (b * (b * b))) = b * (b * (b * b))
    BY <2>6, <2>9
  <2>11. Byte * (Byte * (Byte * (Byte * (Byte * (Byte * (Byte * Byte)))))) = (b * b) * (b * b)
    BY <2>2, <2>7, <2>8, <2>9, <2>10, Zenon
  <2>12. Byte \in Nat /\ Byte > 1 /\ Int32 > 1 /\ Word > 255 /\ Int32 \in Nat /\ Word \in Nat
    BY <1>9, <2>3, <2>4, <2>5
  <2> QED
    BY <1>1, <2>3, <2>11, <2>12, Zenon
<1>c. \/ Byte = 2 \/ Byte = 4 \/ Byte = 8 \/ Byte = 16 \/ Byte = 32 \/ Byte = 64
      \/ Byte = 128 \/ Byte = 256
  BY <1>1
<1>d. /\ Byte \in Nat /\ Byte > 1 /\ Int32 \in Nat /\ Int32 > 1 /\ Word \in Nat /\ Word > 255
      /\ Word = Byte * (Byte * (Byte * (Byte * (Byte * (Byte * (Byte * Byte))))))
  BY <1>c, <1>2, <1>3, <1>4, <1>5, <1>6, <1>7, <1>8, <1>9, Zenon
<1> QED
  BY <1>1, <1>d

\* A sequence of eight digits.
IsDigits(s) == \A k \in 1 .. 8 : s[k] \in 0 .. Byte - 1

\* The digits of a number are digits.
LEMMA DigitsInRange ==
  ASSUME NEW w \in Int
  PROVE  IsDigits(Digits(w))
<1> DEFINE d == Digits(w)
<1>1. \A n \in Int : n % Byte \in 0 .. Byte - 1 /\ n \div Byte \in Int
  BY ByteCases
<1>2. /\ d[1] \in 0 .. Byte - 1 /\ d[2] \in 0 .. Byte - 1 /\ d[3] \in 0 .. Byte - 1
      /\ d[4] \in 0 .. Byte - 1 /\ d[5] \in 0 .. Byte - 1 /\ d[6] \in 0 .. Byte - 1
      /\ d[7] \in 0 .. Byte - 1 /\ d[8] \in 0 .. Byte - 1
  BY <1>1 DEF Digits
<1> HIDE DEF d
<1>3. \A k \in 1 .. 8 : k = 1 \/ k = 2 \/ k = 3 \/ k = 4 \/ k = 5 \/ k = 6 \/ k = 7 \/ k = 8
  OBVIOUS
<1> QED
  BY <1>2, <1>3 DEF IsDigits, d

\* One digit more.
LEMMA MoreDigits ==
  ASSUME NEW n \in Nat, NEW b \in 0 .. Byte - 1, NEW x \in 0 .. n - 1
  PROVE  b + Byte * x \in 0 .. Byte * n - 1 /\ Byte * n \in Nat
<1> USE ByteAssumption
<1>2. CASE Byte = 2
  BY <1>2
<1>3. CASE Byte = 4
  BY <1>3
<1>4. CASE Byte = 8
  BY <1>4
<1>5. CASE Byte = 16
  BY <1>5
<1>6. CASE Byte = 32
  BY <1>6
<1>7. CASE Byte = 64
  BY <1>7
<1>8. CASE Byte = 128
  BY <1>8
<1>9. CASE Byte = 256
  BY <1>9
<1> QED
  BY <1>2, <1>3, <1>4, <1>5, <1>6, <1>7, <1>8, <1>9

\* Eight digits are a word.
LEMMA NumberInRange ==
  ASSUME NEW s, IsDigits(s)
  PROVE  Number(s) \in 0 .. Word - 1
<1> DEFINE w1 == Byte * 1
           w2 == Byte * w1
           w3 == Byte * w2
           w4 == Byte * w3
           w5 == Byte * w4
           w6 == Byte * w5
           w7 == Byte * w6
           x8 == s[8] + Byte * 0
           x7 == s[7] + Byte * x8
           x6 == s[6] + Byte * x7
           x5 == s[5] + Byte * x6
           x4 == s[4] + Byte * x5
           x3 == s[3] + Byte * x4
           x2 == s[2] + Byte * x3
           x1 == s[1] + Byte * x2
<1>1. \A k \in 1 .. 8 : s[k] \in 0 .. Byte - 1
  BY DEF IsDigits
<1>2. \A n \in Nat : \A b \in 0 .. Byte - 1 : \A x \in 0 .. n - 1 :
        b + Byte * x \in 0 .. Byte * n - 1 /\ Byte * n \in Nat
  BY MoreDigits
<1>3. /\ s[1] \in 0 .. Byte - 1 /\ s[2] \in 0 .. Byte - 1 /\ s[3] \in 0 .. Byte - 1
      /\ s[4] \in 0 .. Byte - 1 /\ s[5] \in 0 .. Byte - 1 /\ s[6] \in 0 .. Byte - 1
      /\ s[7] \in 0 .. Byte - 1 /\ s[8] \in 0 .. Byte - 1
  BY <1>1
<1>4. x8 \in 0 .. w1 - 1 /\ w1 \in Nat /\ x8 = s[8] /\ w1 = Byte
  BY <1>3, ByteCases
<1>e. Number(s) = x1 /\ Word = Byte * w7
  BY <1>4, ByteCases DEF Number
<1> HIDE DEF w1, x8
<1>5. x7 \in 0 .. w2 - 1 /\ w2 \in Nat
  BY <1>2, <1>3, <1>4
<1> HIDE DEF w2, x7
<1>6. x6 \in 0 .. w3 - 1 /\ w3 \in Nat
  BY <1>2, <1>3, <1>5
<1> HIDE DEF w3, x6
<1>7. x5 \in 0 .. w4 - 1 /\ w4 \in Nat
  BY <1>2, <1>3, <1>6
<1> HIDE DEF w4, x5
<1>8. x4 \in 0 .. w5 - 1 /\ w5 \in Nat
  BY <1>2, <1>3, <1>7
<1> HIDE DEF w5, x4
<1>9. x3 \in 0 .. w6 - 1 /\ w6 \in Nat
  BY <1>2, <1>3, <1>8
<1> HIDE DEF w6, x3
<1>10. x2 \in 0 .. w7 - 1 /\ w7 \in Nat
  BY <1>2, <1>3, <1>9
<1> HIDE DEF w7, x2
<1>11. x1 \in 0 .. Byte * w7 - 1
  BY <1>2, <1>3, <1>10
<1> QED
  BY <1>11, <1>e

\* A word is the number of its digits.
LEMMA DigitsOfWord ==
  ASSUME NEW w \in 0 .. Word - 1, NEW s, \A k \in 1 .. 8 : s[k] = Digits(w)[k]
  PROVE  Number(s) = w
<1> DEFINE w1 == w \div Byte
           w2 == w1 \div Byte
           w3 == w2 \div Byte
           w4 == w3 \div Byte
           w5 == w4 \div Byte
           w6 == w5 \div Byte
           w7 == w6 \div Byte
<1>1. \A n \in Int : n = (n % Byte) + Byte * (n \div Byte) /\ n \div Byte \in Int /\ n % Byte \in Int
  BY ByteCases
<1>2. /\ s[1] = w % Byte /\ s[2] = w1 % Byte /\ s[3] = w2 % Byte /\ s[4] = w3 % Byte
      /\ s[5] = w4 % Byte /\ s[6] = w5 % Byte /\ s[7] = w6 % Byte /\ s[8] = w7 % Byte
  BY DEF Digits
<1>3. w \in Int /\ w1 \in Int /\ w2 \in Int /\ w3 \in Int /\ w4 \in Int /\ w5 \in Int
      /\ w6 \in Int /\ w7 \in Int
  BY <1>1, ByteCases
<1>4. w7 % Byte = w7
  <2> DEFINE v1 == Byte * 1
             v2 == Byte * v1
             v3 == Byte * v2
             v4 == Byte * v3
             v5 == Byte * v4
             v6 == Byte * v5
             v7 == Byte * v6
  <2>1. \A m \in Nat : \A n \in 0 .. Byte * m - 1 : n \div Byte \in 0 .. m - 1 /\ Byte * m \in Nat
    <3> USE ByteAssumption
    <3> TAKE m \in Nat
    <3> TAKE n \in 0 .. Byte * m - 1
    <3>2. CASE Byte = 2
      BY <3>2
    <3>3. CASE Byte = 4
      BY <3>3
    <3>4. CASE Byte = 8
      BY <3>4
    <3>5. CASE Byte = 16
      BY <3>5
    <3>6. CASE Byte = 32
      BY <3>6
    <3>7. CASE Byte = 64
      BY <3>7
    <3>8. CASE Byte = 128
      BY <3>8
    <3>9. CASE Byte = 256
      BY <3>9
    <3> QED
      BY <3>2, <3>3, <3>4, <3>5, <3>6, <3>7, <3>8, <3>9
  <2>2. \A m \in Nat : Byte * m \in Nat
    BY ByteCases
  <2>3. v1 \in Nat /\ v1 = Byte
    BY ByteCases
  <2>4. Word = Byte * v7
    BY ByteCases, <2>3
  <2> HIDE DEF v1
  <2>5. v2 \in Nat
    BY <2>2, <2>3
  <2> HIDE DEF v2
  <2>6. v3 \in Nat
    BY <2>2, <2>5
  <2> HIDE DEF v3
  <2>7. v4 \in Nat
    BY <2>2, <2>6
  <2> HIDE DEF v4
  <2>8. v5 \in Nat
    BY <2>2, <2>7
  <2> HIDE DEF v5
  <2>9. v6 \in Nat
    BY <2>2, <2>8
  <2> HIDE DEF v6
  <2>10. v7 \in Nat
    BY <2>2, <2>9
  <2> HIDE DEF w1, w2, w3, w4, w5, w6, w7
  <2>11. w1 \in 0 .. v7 - 1
    BY <2>1, <2>4, <2>10 DEF w1
  <2>12. w2 \in 0 .. v6 - 1
    BY <2>1, <2>9, <2>11 DEF w2, v7
  <2>13. w3 \in 0 .. v5 - 1
    BY <2>1, <2>8, <2>12 DEF w3, v6
  <2>14. w4 \in 0 .. v4 - 1
    BY <2>1, <2>7, <2>13 DEF w4, v5
  <2>15. w5 \in 0 .. v3 - 1
    BY <2>1, <2>6, <2>14 DEF w5, v4
  <2>16. w6 \in 0 .. v2 - 1
    BY <2>1, <2>5, <2>15 DEF w6, v3
  <2>17. w7 \in 0 .. v1 - 1
    BY <2>1, <2>3, <2>16 DEF w7, v2
  <2>18. w7 \in 0 .. Byte - 1
    BY <2>3, <2>17
  <2> QED
    BY <2>18, ByteCases
<1>5. /\ w = (w % Byte) + Byte * w1 /\ w1 = (w1 % Byte) + Byte * w2 /\ w2 = (w2 % Byte) + Byte * w3
      /\ w3 = (w3 % Byte) + Byte * w4 /\ w4 = (w4 % Byte) + Byte * w5 /\ w5 = (w5 % Byte) + Byte * w6
      /\ w6 = (w6 % Byte) + Byte * w7
  BY <1>1, <1>3
<1> HIDE DEF w1, w2, w3, w4, w5, w6, w7
<1> QED
  BY <1>2, <1>4, <1>5 DEF Number

\* What an instruction leaves in a register is a word.
LEMMA WrapInRange == \A n \in Int : Wrap(n) \in 0 .. Word - 1
  BY ByteCases DEF Wrap

\* A word is not changed by the width of a register.
LEMMA WrapSame == \A n \in 0 .. Word - 1 : Wrap(n) = n
  BY ByteCases DEF Wrap

\* A signed number is a number.
LEMMA SignedInt == \A w \in Int : \A b \in Int : Signed(w, b) \in Int
  BY DEF Signed

\* A bit of both is a bit of the first.
LEMMA AndBitInRange ==
  ASSUME NEW v \in Nat, NEW w \in Nat, NEW bit \in Nat, bit > 0
  PROVE  AndBit(v, w, bit) \in 0 .. bit * ((v \div bit) % 2)
<1> DEFINE x == (v \div bit) % 2
           y == (w \div bit) % 2
<1>1. x \in 0 .. 1 /\ y \in 0 .. 1
  <2>1. v \div bit \in Int /\ w \div bit \in Int
    OBVIOUS
  <2> QED
    BY <2>1
<1>2. AndBit(v, w, bit) = bit * x * y
  BY DEF AndBit
<1> HIDE DEF x, y
<1>3. (x = 0 \/ x = 1) /\ (y = 0 \/ y = 1)
  BY <1>1
<1>4. bit * x * y \in 0 .. bit * x
  BY <1>3
<1> QED
  BY <1>2, <1>4 DEF x

\* A number of eight bits is the sum of its bits.
LEMMA SumOfBits ==
  ASSUME NEW v \in 0 .. 255
  PROVE  v = 1 * ((v \div 1) % 2) + 2 * ((v \div 2) % 2) + 4 * ((v \div 4) % 2)
             + 8 * ((v \div 8) % 2) + 16 * ((v \div 16) % 2) + 32 * ((v \div 32) % 2)
             + 64 * ((v \div 64) % 2) + 128 * ((v \div 128) % 2)
<1>1. /\ v \div 4 = (v \div 2) \div 2 /\ v \div 8 = (v \div 4) \div 2
      /\ v \div 16 = (v \div 8) \div 2 /\ v \div 32 = (v \div 16) \div 2
      /\ v \div 64 = (v \div 32) \div 2 /\ v \div 128 = (v \div 64) \div 2
  OBVIOUS
<1>2. \A n \in Int : n = (n % 2) + 2 * (n \div 2)
  OBVIOUS
<1>3. /\ v \div 1 = v /\ v \div 2 \in Int /\ v \div 4 \in Int /\ v \div 8 \in Int
      /\ v \div 16 \in Int /\ v \div 32 \in Int /\ v \div 64 \in Int
      /\ (v \div 128) % 2 = v \div 128
  OBVIOUS
<1> QED
  BY <1>1, <1>2, <1>3

\* Byte by byte, & gives a byte.
LEMMA AndByteInRange ==
  ASSUME NEW v \in 0 .. Byte - 1, NEW w \in 0 .. Byte - 1
  PROVE  AndByte(v, w) \in 0 .. Byte - 1
<1>1. v \in 0 .. 255 /\ w \in Nat /\ v \in Nat /\ Byte \in Nat
  BY ByteAssumption
<1> DEFINE part(bit) == bit * ((v \div bit) % 2)
           both(bit) == AndBit(v, w, bit)
<1>a. \A bit \in Nat : bit > 0 => both(bit) \in 0 .. part(bit)
  BY <1>1, AndBitInRange
<1>b. \A bit \in Nat : bit > 0 => part(bit) \in Int
  <2> TAKE bit \in Nat
  <2> HAVE bit > 0
  <2>1. v \div bit \in Int
    BY <1>1
  <2>2. (v \div bit) % 2 \in Int
    BY <2>1
  <2> QED
    BY <2>2
<1> HIDE DEF part, both
<1>2. /\ both(1) \in 0 .. part(1) /\ both(2) \in 0 .. part(2) /\ both(4) \in 0 .. part(4)
      /\ both(8) \in 0 .. part(8) /\ both(16) \in 0 .. part(16) /\ both(32) \in 0 .. part(32)
      /\ both(64) \in 0 .. part(64) /\ both(128) \in 0 .. part(128)
  BY <1>a
<1>3. /\ part(1) \in Int /\ part(2) \in Int /\ part(4) \in Int /\ part(8) \in Int
      /\ part(16) \in Int /\ part(32) \in Int /\ part(64) \in Int /\ part(128) \in Int
  BY <1>b
<1>4. v = part(1) + part(2) + part(4) + part(8) + part(16) + part(32) + part(64) + part(128)
  BY <1>1, SumOfBits DEF part
<1>5. AndByte(v, w) = both(1) + both(2) + both(4) + both(8) + both(16) + both(32) + both(64)
                      + both(128)
  BY DEF AndByte, both
<1>6. AndByte(v, w) \in 0 .. v
  BY <1>2, <1>3, <1>4, <1>5
<1> QED
  BY <1>1, <1>6

\* & gives a word.
LEMMA AndInRange ==
  ASSUME NEW v \in Int, NEW w \in Int
  PROVE  And(v, w) \in 0 .. Word - 1
<1> DEFINE s == [i \in 1 .. 8 |-> AndByte(Digits(v)[i], Digits(w)[i])]
<1>1. IsDigits(Digits(v)) /\ IsDigits(Digits(w))
  BY DigitsInRange
<1>2. \A i \in 1 .. 8 : s[i] \in 0 .. Byte - 1
  BY <1>1, AndByteInRange DEF IsDigits
<1>3. And(v, w) = Number(s)
  BY DEF And
<1> HIDE DEF s
<1> QED
  BY <1>2, <1>3, NumberInRange DEF IsDigits

\* A byte is replaced by 0 or 1.
LEMMA ByteReplaced ==
  ASSUME NEW w \in 0 .. Word - 1, NEW b \in {0, 1}
  PROVE  w - (w % Byte) + b \in 0 .. Word - 1 /\ w % Byte \in 0 .. Word - 1
<1> DEFINE n == Byte * (Byte * (Byte * (Byte * (Byte * (Byte * Byte)))))
<1>1. Word = Byte * n /\ n \in Nat
  <2>1. \A m \in Nat : Byte * m \in Nat
    BY ByteCases
  <2>2. Byte \in Nat
    BY ByteCases
  <2>3. n \in Nat
    BY <2>1, <2>2, Zenon
  <2> QED
    BY <2>3, ByteCases
<1> HIDE DEF n
<1>2. w \in Int /\ w % Byte \in 0 .. Byte - 1
  BY ByteCases
<1>3. w - (w % Byte) <= Word - Byte /\ w - (w % Byte) >= 0
  <2> USE ByteAssumption, <1>1
  <2>2. CASE Byte = 2
    BY <2>2
  <2>3. CASE Byte = 4
    BY <2>3
  <2>4. CASE Byte = 8
    BY <2>4
  <2>5. CASE Byte = 16
    BY <2>5
  <2>6. CASE Byte = 32
    BY <2>6
  <2>7. CASE Byte = 64
    BY <2>7
  <2>8. CASE Byte = 128
    BY <2>8
  <2>9. CASE Byte = 256
    BY <2>9
  <2> QED
    BY <2>2, <2>3, <2>4, <2>5, <2>6, <2>7, <2>8, <2>9
<1> QED
  BY <1>2, <1>3, ByteCases

-----------------------------------------------------------------------------
\* The data of a program.

DataOf(p) == [i \in DOMAIN p.globals |-> codegen_globalvar(p.globals[i])]
             \o [i \in DOMAIN p.strlits |-> codegen_strlit(p.strlits[i])]
CellsOf(p) == [i \in DOMAIN DataOf(p) |-> Cells(DataOf(p)[i])]
NamesOf(p) == p.globals \o p.strlits

\* The data of an assembled program.
LEMMA DataFields ==
  ASSUME NEW p
  PROVE  LET A == Assembled(p)
         IN /\ <<"stop">> \in ToSet(DataOf(p)) => A.stops
            /\ DOMAIN A.symbol = NamesIn(NamesOf(p))
            /\ \A x \in NamesIn(NamesOf(p)) :
                 A.symbol[x] = End(CellsOf(p), IndexOf(NamesOf(p), x) - 1)
            /\ A.limit = Len(FlattenSeq(CellsOf(p)))
            /\ A.data = [a \in 0 .. Memory - 1 |->
                           IF a < A.limit THEN FlattenSeq(CellsOf(p))[a + 1] ELSE 0]
            /\ A.extents = {<<A.symbol[g.name], SizeOf(GlobalType(g))>> : g \in ToSet(p.globals)}
<1> DEFINE data == [i \in DOMAIN p.globals |-> codegen_globalvar(p.globals[i])]
                   \o [i \in DOMAIN p.strlits |-> codegen_strlit(p.strlits[i])]
           cells == [i \in DOMAIN data |-> Cells(data[i])]
<1>1. DataOf(p) = data /\ CellsOf(p) = cells
  BY DEF DataOf, CellsOf
<1>2. \A i : End(cells, i) = PartialSum([j \in DOMAIN cells |-> Len(cells[j])], i)
  BY DEF End, Lens
<1> QED
  BY <1>1, <1>2 DEF Assembled, NamesOf

\* A sequence of bytes.
IsBytes(s) == IsSeq(s) /\ \A i \in 1 .. Len(s) : s[i] \in 0 .. Byte - 1

\* 0 is a byte.
LEMMA ZeroByte == 0 \in 0 .. Byte - 1
  BY ByteCases

\* The bytes of a string with the byte 0 behind it.
LEMMA AsciiBytes ==
  ASSUME NEW s, IsString(s)
  PROVE  IsBytes(Append(s, 0))
<1> DEFINE U == 0 .. Byte - 1
<1>1. s \in Seq(U) /\ 0 \in U
  BY ZeroByte DEF IsString
<1> HIDE DEF U
<1>z. PICK z : z = 0
  OBVIOUS
<1>2. Append(s, 0) \in Seq(U)
  <2>1. Append(s, z) \in Seq(U)
    BY <1>1, <1>z
  <2> QED
    BY <1>z, <2>1
<1>3. PICK t : t = Append(s, 0)
  OBVIOUS
<1>4. t \in Seq(U)
  BY <1>2, <1>3
<1>5. IsSeq(t) /\ \A i \in 1 .. Len(t) : t[i] \in U
  BY <1>4, SeqHasRange
<1>6. IsBytes(t)
  BY <1>5 DEF IsBytes, U
<1> QED
  BY <1>3, <1>6

\* A number of equal bytes.
LEMMA ZeroBytes ==
  ASSUME NEW n \in Nat
  PROVE  IsBytes([i \in 1 .. n |-> 0])
<1> DEFINE s == [i \in 1 .. n |-> 0]
<1>1. s = [i \in 1 .. n |-> s[i]] /\ \A i \in 1 .. n : s[i] = 0
  OBVIOUS
<1> HIDE DEF s
<1>2. IsSeq(s) /\ Len(s) = n
  BY <1>1, FunctionIsSeq
<1>3. IsBytes(s)
  BY <1>1, <1>2, ZeroByte DEF IsBytes
<1> QED
  BY <1>3 DEF s

\* The bytes of an initial value.
LEMMA IntBytes ==
  ASSUME NEW n \in Int
  PROVE  IsBytes([i \in 1 .. 4 |-> Digits(n % Int32)[i]])
<1> DEFINE s == [i \in 1 .. 4 |-> Digits(n % Int32)[i]]
<1>1. n % Int32 \in Int
  BY ByteCases
<1>2. IsDigits(Digits(n % Int32))
  BY <1>1, DigitsInRange
<1>3. s = [i \in 1 .. 4 |-> s[i]] /\ \A i \in 1 .. 4 : s[i] \in 0 .. Byte - 1
  BY <1>2 DEF IsDigits
<1> HIDE DEF s
<1>4. IsSeq(s) /\ Len(s) = 4
  BY <1>3, FunctionIsSeq
<1>5. IsBytes(s)
  BY <1>3, <1>4 DEF IsBytes
<1> QED
  BY <1>5 DEF s

\* Every directive stands for bytes.
LEMMA StringCells ==
  ASSUME NEW info, IsString(info.strval)
  PROVE  IsBytes(Cells(codegen_strlit(info)))
<1>1. Cells(codegen_strlit(info)) = Append(info.strval, 0)
  BY DEF Cells, codegen_strlit
<1> QED
  BY <1>1, AsciiBytes

\* A global variable's directive stands for bytes.
LEMMA GlobalCells ==
  ASSUME NEW g, IsGlobal(g)
  PROVE  IsBytes(Cells(codegen_globalvar(g)))
<1> DEFINE dir == codegen_globalvar(g)
<1>1. CASE g.init.kind = "null"
  <2>1. dir = <<"zero", SizeOf(g.typ)>>
    BY <1>1 DEF codegen_globalvar
  <2>2. Cells(dir) = [i \in 1 .. SizeOf(g.typ) |-> 0]
    BY <2>1 DEF Cells
  <2>3. SizeOf(g.typ) \in Nat
    BY DEF IsGlobal
  <2> QED
    BY <2>2, <2>3, ZeroBytes
<1>2. ASSUME NEW n \in Int, dir = <<"int", n>> PROVE IsBytes(Cells(dir))
  <2>1. Cells(dir) = [i \in 1 .. 4 |-> Digits(n % Int32)[i]]
    BY <1>2 DEF Cells
  <2> QED
    BY <2>1, IntBytes
<1>3. CASE g.init.kind = "intlit"
  <2>1. dir = <<"int", g.init.intval>> /\ g.init.intval \in Int
    BY <1>3 DEF codegen_globalvar, IsGlobal, IsInit
  <2> QED
    BY <1>2, <2>1
<1>4. CASE g.init.kind = "minus" /\ g.init.value.kind = "intlit"
  <2>1. dir = <<"int", -g.init.value.intval>>
    BY <1>4 DEF codegen_globalvar
  <2>2. g.init.value.intval \in Int
    BY <1>4 DEF IsGlobal, IsInit
  <2>3. -g.init.value.intval \in Int
    BY <2>2
  <2> QED
    BY <1>2, <2>1, <2>3
<1>5. CASE g.init.kind = "strlit"
  <2>1. dir = <<"ascii", Append(g.init.strval, 0)>> /\ IsString(g.init.strval)
    BY <1>5 DEF codegen_globalvar, IsGlobal, IsInit
  <2>2. Cells(dir) = Append(g.init.strval, 0)
    BY <2>1 DEF Cells
  <2> QED
    BY <2>1, <2>2, AsciiBytes
<1>6. CASE /\ g.init.kind \notin {"null", "intlit", "strlit"}
           /\ ~ (g.init.kind = "minus" /\ g.init.value.kind = "intlit")
  <2>1. dir = <<"stop">>
    BY <1>6 DEF codegen_globalvar
  <2>2. Cells(dir) = <<>>
    BY <2>1 DEF Cells
  <2>3. IsSeq(<<>>) /\ Len(<<>>) = 0
    BY Empty DEF Balanced
  <2>4. IsBytes(<<>>)
    BY <2>3 DEF IsBytes
  <2> QED
    BY <2>2, <2>4
<1> QED
  BY <1>1, <1>3, <1>4, <1>5, <1>6

\* The variables come first in the data, and every directive stands for bytes.
LEMMA DataOfProgram ==
  ASSUME NEW p \in Sources
  PROVE  /\ IsSeq(p.globals) /\ IsSeq(NamesOf(p)) /\ IsSeq(CellsOf(p))
         /\ Len(NamesOf(p)) = Len(CellsOf(p)) /\ Len(p.globals) <= Len(CellsOf(p))
         /\ \A i \in 1 .. Len(CellsOf(p)) : IsBytes(CellsOf(p)[i])
         /\ \A i \in 1 .. Len(p.globals) :
              /\ IsGlobal(p.globals[i]) /\ NamesOf(p)[i] = p.globals[i]
              /\ DataOf(p)[i] = codegen_globalvar(p.globals[i])
              /\ i \in DOMAIN DataOf(p)
              /\ CellsOf(p)[i] = Cells(codegen_globalvar(p.globals[i]))
<1> DEFINE gs == p.globals
           ss == p.strlits
           u == [i \in DOMAIN gs |-> codegen_globalvar(gs[i])]
           v == [i \in DOMAIN ss |-> codegen_strlit(ss[i])]
           D == DataOf(p)
           N == NamesOf(p)
           C == CellsOf(p)
<1>1. /\ gs \in Seq(ToSet(gs)) /\ \A g \in ToSet(gs) : IsGlobal(g)
      /\ ss \in Seq(ToSet(ss)) /\ \A s \in ToSet(ss) : IsString(s.strval)
  BY SourcesAssumption
<1>2. D = u \o v /\ N = gs \o ss /\ C = [i \in DOMAIN D |-> Cells(D[i])]
  BY DEF DataOf, NamesOf, CellsOf
<1> HIDE DEF gs, ss, D, N, C
<1>3. IsSeq(gs) /\ \A i \in 1 .. Len(gs) : IsGlobal(gs[i])
  BY <1>1, SeqHasRange
<1>4. IsSeq(ss) /\ \A i \in 1 .. Len(ss) : IsString(ss[i].strval)
  BY <1>1, SeqHasRange
<1>5. /\ Len(gs) \in Nat /\ DOMAIN gs = 1 .. Len(gs)
      /\ Len(ss) \in Nat /\ DOMAIN ss = 1 .. Len(ss)
  BY <1>3, <1>4, SeqFacts
<1>6. /\ u = [i \in 1 .. Len(gs) |-> u[i]] /\ \A i \in 1 .. Len(gs) : u[i] = codegen_globalvar(gs[i])
      /\ v = [i \in 1 .. Len(ss) |-> v[i]] /\ \A i \in 1 .. Len(ss) : v[i] = codegen_strlit(ss[i])
  BY <1>5
<1> HIDE DEF u, v
<1>7. IsSeq(u) /\ Len(u) = Len(gs) /\ IsSeq(v) /\ Len(v) = Len(ss)
  BY <1>5, <1>6, FunctionIsSeq
<1>8. IsSeq(u) /\ IsSeq(v)
  BY <1>7
<1>9. IsSeq(gs) /\ IsSeq(ss)
  BY <1>3, <1>4
<1>10. /\ IsSeq(D) /\ Len(D) = Len(u) + Len(v)
       /\ \A i \in 1 .. Len(u) : D[i] = u[i]
       /\ \A i \in 1 .. Len(v) : D[Len(u) + i] = v[i]
  BY <1>2, <1>8, Concat
<1>11. /\ IsSeq(N) /\ Len(N) = Len(gs) + Len(ss)
       /\ \A i \in 1 .. Len(gs) : N[i] = gs[i]
  BY <1>2, <1>9, Concat
<1>12. Len(D) \in Nat /\ DOMAIN D = 1 .. Len(D)
  BY <1>10, SeqFacts
<1>13. C = [i \in 1 .. Len(D) |-> C[i]] /\ \A i \in 1 .. Len(D) : C[i] = Cells(D[i])
  BY <1>2, <1>12
<1>14. IsSeq(C) /\ Len(C) = Len(D)
  BY <1>12, <1>13, FunctionIsSeq
<1>15. ASSUME NEW i \in 1 .. Len(D) PROVE IsBytes(C[i])
  <2>1. CASE i <= Len(gs)
    <3>1. i \in 1 .. Len(gs) /\ D[i] = codegen_globalvar(gs[i])
      BY <1>5, <1>6, <1>7, <1>10, <2>1
    <3> QED
      BY <1>3, <1>13, <3>1, GlobalCells
  <2>2. CASE i > Len(gs)
    <3> DEFINE j == i - Len(gs)
    <3>1. j \in 1 .. Len(ss) /\ Len(u) + j = i
      BY <1>5, <1>7, <1>10, <2>2
    <3> HIDE DEF j
    <3>2. D[i] = codegen_strlit(ss[j])
      BY <1>6, <1>7, <1>10, <3>1
    <3> QED
      BY <1>4, <1>13, <3>1, <3>2, StringCells
  <2> QED
    BY <1>5, <1>12, <2>1, <2>2
<1>16. Len(N) = Len(C) /\ Len(gs) <= Len(C)
  BY <1>5, <1>7, <1>10, <1>11, <1>14
<1>17. ASSUME NEW i \in 1 .. Len(gs)
       PROVE  /\ D[i] = codegen_globalvar(gs[i]) /\ i \in DOMAIN D
              /\ C[i] = Cells(codegen_globalvar(gs[i]))
  <2>1. i \in 1 .. Len(D)
    BY <1>5, <1>7, <1>10
  <2> QED
    BY <1>6, <1>7, <1>10, <1>12, <1>13, <2>1
<1> QED
  BY <1>3, <1>11, <1>14, <1>15, <1>16, <1>17 DEF gs, D, N, C

\* The data lies below the stack, and the variables in the data.
LEMMA DataOfText ==
  ASSUME NEW p \in Sources
  PROVE  LET A == Assembled(p)
         IN /\ A.limit \in Nat /\ A.limit + 8 <= Memory /\ Len(A.text) < Word
            /\ A.data \in [0 .. Memory - 1 -> 0 .. Byte - 1]
            /\ \A x \in DOMAIN A.symbol : A.symbol[x] \in 0 .. Word - 1
            /\ ~ A.stops =>
                 \A v \in A.extents : v[1] \in Nat /\ v[2] \in Nat /\ v[1] + v[2] <= A.limit
<1> DEFINE A == Assembled(p)
           C == CellsOf(p)
           N == NamesOf(p)
           bytes == FlattenSeq(C)
           n == Len(C)
           gs == p.globals
<1>1. /\ IsSeq(gs) /\ IsSeq(N) /\ IsSeq(C) /\ Len(N) = n /\ Len(gs) <= n
      /\ \A i \in 1 .. n : IsBytes(C[i])
      /\ \A i \in 1 .. Len(gs) :
           /\ IsGlobal(gs[i]) /\ N[i] = gs[i]
           /\ DataOf(p)[i] = codegen_globalvar(gs[i]) /\ i \in DOMAIN DataOf(p)
           /\ C[i] = Cells(codegen_globalvar(gs[i]))
  BY DataOfProgram
<1>2. /\ <<"stop">> \in ToSet(DataOf(p)) => A.stops
      /\ DOMAIN A.symbol = NamesIn(N)
      /\ \A x \in NamesIn(N) : A.symbol[x] = End(C, IndexOf(N, x) - 1)
      /\ A.limit = Len(bytes)
      /\ A.data = [a \in 0 .. Memory - 1 |-> IF a < A.limit THEN bytes[a + 1] ELSE 0]
      /\ A.extents = {<<A.symbol[g.name], SizeOf(GlobalType(g))>> : g \in ToSet(gs)}
  BY DataFields
<1>3. Len(A.text) < Word /\ A.limit + 8 <= Memory /\ HasOneName(N)
  BY SourcesAssumption DEF NamesOf
<1> HIDE DEF A, C, N, gs
<1>4. \A i \in 1 .. Len(C) : IsSeq(C[i])
  BY <1>1 DEF IsBytes
<1>5. /\ \A i \in 0 .. n : End(C, i) \in Nat
      /\ \A i \in 1 .. n : End(C, i) = End(C, i - 1) + Len(C[i])
      /\ \A i \in 0 .. n : \A j \in 0 .. i : End(C, j) <= End(C, i)
      /\ IsSeq(bytes) /\ Len(bytes) = End(C, n)
      /\ \A i \in 1 .. n : \A k \in 1 .. Len(C[i]) : bytes[End(C, i - 1) + k] = C[i][k]
  <2> HIDE DEF bytes
  <2> QED
    BY <1>1, <1>4, FlattenAt DEF bytes
<1>6. n \in Nat /\ \A i \in 1 .. n : Len(C[i]) \in Nat
  <2>1. n \in Nat
    BY <1>1, SeqFacts
  <2>2. \A i \in 1 .. n : Len(C[i]) \in Nat
    BY <1>4, SeqFacts
  <2> QED
    BY <2>1, <2>2
<1> HIDE DEF bytes, n
<1>7. A.limit \in Nat /\ Memory \in Nat /\ Memory <= Word - 1
  <2>1. n \in 0 .. n
    BY <1>6
  <2> QED
    BY <1>2, <1>5, <2>1, MemoryAssumption, ByteCases
<1>8. \A a \in 1 .. Len(bytes) : bytes[a] \in 0 .. Byte - 1
  <2> DEFINE S == {i \in Nat : i <= n => \A a \in 1 .. End(C, i) : bytes[a] \in 0 .. Byte - 1}
  <2>0. End(C, 0) = 0
    BY <1>1, <1>4, FlattenAt
  <2>1. 0 \in S
    BY <2>0
  <2>2. ASSUME NEW i \in S PROVE i + 1 \in S
    <3> SUFFICES ASSUME i + 1 <= n, NEW a \in 1 .. End(C, i + 1) PROVE bytes[a] \in 0 .. Byte - 1
      OBVIOUS
    <3>1. i \in Nat /\ i \in 0 .. n /\ i + 1 \in 1 .. n /\ (i + 1) - 1 = i /\ i + 1 \in 0 .. n
      BY <1>6
    <3>2. /\ End(C, i) \in Nat /\ End(C, i + 1) = End(C, i) + Len(C[i + 1])
          /\ Len(C[i + 1]) \in Nat /\ End(C, i + 1) \in Nat
      BY <1>5, <1>6, <3>1
    <3>3. CASE a <= End(C, i)
      <4>1. a \in 1 .. End(C, i)
        BY <3>2, <3>3
      <4> QED
        BY <3>1, <4>1
    <3>4. CASE a > End(C, i)
      <4> DEFINE k == a - End(C, i)
      <4>1. k \in 1 .. Len(C[i + 1]) /\ End(C, i) + k = a
        BY <3>2, <3>4
      <4> HIDE DEF k
      <4>2. bytes[a] = C[i + 1][k]
        BY <1>5, <3>1, <4>1
      <4>3. C[i + 1][k] \in 0 .. Byte - 1
        BY <1>1, <3>1, <4>1 DEF IsBytes, n
      <4> QED
        BY <4>2, <4>3
    <3> QED
      BY <3>2, <3>3, <3>4
  <2>3. S = Nat
    <3> HIDE DEF S
    <3>1. S \subseteq Nat
      BY DEF S
    <3> QED
      BY <2>1, <2>2, <3>1, SetInduction
  <2> QED
    BY <1>5, <1>6, <2>3
<1>9. A.data \in [0 .. Memory - 1 -> 0 .. Byte - 1]
  <2>1. ASSUME NEW a \in 0 .. Memory - 1
        PROVE  (IF a < A.limit THEN bytes[a + 1] ELSE 0) \in 0 .. Byte - 1
    <3>1. CASE a < A.limit
      <4>1. a + 1 \in 1 .. Len(bytes)
        BY <1>2, <1>7, <3>1
      <4> QED
        BY <1>8, <3>1, <4>1
    <3>2. CASE ~ (a < A.limit)
      BY <3>2, ZeroByte
    <3> QED
      BY <3>1, <3>2
  <2> QED
    BY <1>2, <2>1
<1>10. ASSUME NEW x \in NamesIn(N)
       PROVE  /\ IndexOf(N, x) \in 1 .. n /\ N[IndexOf(N, x)].name = x
              /\ A.symbol[x] = End(C, IndexOf(N, x) - 1)
              /\ A.symbol[x] \in 0 .. A.limit
  <2> DEFINE i == IndexOf(N, x)
  <2>1. i \in 1 .. n /\ N[i].name = x
    BY <1>1, IndexFound
  <2>2. A.symbol[x] = End(C, i - 1)
    BY <1>2
  <2> HIDE DEF i
  <2>3. i - 1 \in 0 .. n /\ n \in 0 .. n
    BY <1>6, <2>1
  <2>4. End(C, i - 1) \in Nat /\ End(C, i - 1) <= End(C, n)
    BY <1>5, <2>3
  <2> QED
    BY <1>2, <1>5, <1>7, <2>1, <2>2, <2>4 DEF i
<1>11. \A x \in DOMAIN A.symbol : A.symbol[x] \in 0 .. Word - 1
  BY <1>2, <1>3, <1>7, <1>10, ByteCases
<1>12. ASSUME ~ A.stops, NEW v \in A.extents
       PROVE  v[1] \in Nat /\ v[2] \in Nat /\ v[1] + v[2] <= A.limit
  <2>1. PICK g \in ToSet(gs) : v = <<A.symbol[g.name], SizeOf(GlobalType(g))>>
    BY <1>2, <1>12
  <2>2. DOMAIN gs = 1 .. Len(gs) /\ Len(gs) \in Nat /\ DOMAIN N = 1 .. n
    BY <1>1, SeqFacts
  <2>3. PICK j \in 1 .. Len(gs) : gs[j] = g
    BY <2>2 DEF ToSet
  <2>4. j \in 1 .. n /\ N[j] = g
    BY <1>1, <1>6, <2>2, <2>3
  <2>5. g.name \in NamesIn(N)
    BY <2>2, <2>4 DEF NamesIn, ToSet
  <2> DEFINE i == IndexOf(N, g.name)
  <2>6. /\ i \in 1 .. n /\ N[i].name = g.name /\ A.symbol[g.name] = End(C, i - 1)
        /\ A.symbol[g.name] \in 0 .. A.limit
    BY <1>10, <2>5
  <2>7. i = j
    BY <1>3, <2>2, <2>4, <2>6 DEF HasOneName
  <2>8. codegen_globalvar(g) # <<"stop">>
    <3>1. DataOf(p)[j] \in ToSet(DataOf(p))
      BY <1>1, <2>3 DEF ToSet
    <3>2. DataOf(p)[j] = codegen_globalvar(g)
      BY <1>1, <2>3
    <3> QED
      BY <1>2, <1>12, <3>1, <3>2
  <2>9. /\ SizeOf(GlobalType(g)) \in Nat
        /\ SizeOf(GlobalType(g)) <= Len(Cells(codegen_globalvar(g)))
    BY <1>1, <2>3, <2>8 DEF IsGlobal
  <2>10. C[j] = Cells(codegen_globalvar(g))
    BY <1>1, <2>3
  <2> HIDE DEF i
  <2>11. /\ A.symbol[g.name] = End(C, j - 1) /\ SizeOf(GlobalType(g)) <= Len(C[j])
         /\ A.symbol[g.name] \in Nat
    BY <1>7, <2>6, <2>7, <2>9, <2>10
  <2>12. j \in 0 .. n /\ n \in 0 .. n
    BY <1>6, <2>4
  <2>13. /\ End(C, j) = End(C, j - 1) + Len(C[j]) /\ Len(C[j]) \in Nat
         /\ End(C, j) <= A.limit /\ End(C, j) \in Nat
    BY <1>2, <1>5, <1>6, <2>4, <2>12
  <2>14. A.symbol[g.name] + SizeOf(GlobalType(g)) <= A.limit
    BY <1>7, <2>9, <2>11, <2>13
  <2> QED
    BY <2>1, <2>9, <2>11, <2>14
<1> QED
  BY <1>3, <1>7, <1>9, <1>11, <1>12 DEF A

\* A variable lies in the frame of its function: it ends where the variable
\* before it starts, or at the frame pointer.
LEMMA SlotsInFrame ==
  ASSUME NEW p \in Sources, NEW f \in NamesIn(p.fns)
  PROVE  LET A == Assembled(p)
         IN /\ A.frame[f] \in Nat
            /\ \A x \in DOMAIN A.slots[f] :
                 LET slot == A.slots[f][x]
                 IN /\ slot.offset \in Nat /\ SizeOf(slot.typ) \in Nat
                    /\ SizeOf(slot.typ) <= slot.offset /\ slot.offset <= A.frame[f]
<1> DEFINE A == Assembled(p)
           fn == p.fns[IndexOf(p.fns, f)]
           l == fn.params \o fn.vars
<1>1. IsFunction(fn)
  BY Functions, IndexFound
<1>2. A.frame[f] = StackSize(fn) /\ A.slots[f] = Slots(l)
  BY Fields
<1>3. StackSize(fn) = Offset(l, Len(l))
  BY DEF StackSize
<1>4. Sized(l)
  BY <1>1, LocalsSized
<1>5. StackSize(fn) \in Nat
  BY <1>1, StackSizeNat
<1> HIDE DEF A, fn, l
<1>6. /\ \A i \in 0 .. Len(l) : Offset(l, i) \in Nat /\ Offset(l, i) <= Offset(l, Len(l))
      /\ \A i \in 1 .. Len(l) : SizeOf(l[i].typ) <= Offset(l, i)
  BY <1>4, OffsetFacts
<1>7. DOMAIN l = 1 .. Len(l) /\ Len(l) \in Nat
  BY <1>4, SeqFacts DEF Sized
<1>8. ASSUME NEW x \in DOMAIN Slots(l)
      PROVE  /\ Slots(l)[x].offset \in Nat /\ SizeOf(Slots(l)[x].typ) \in Nat
             /\ SizeOf(Slots(l)[x].typ) <= Slots(l)[x].offset
             /\ Slots(l)[x].offset <= Offset(l, Len(l))
  <2> DEFINE i == CHOOSE j \in DOMAIN l : l[j].name = x
  <2>1. x \in {v.name : v \in ToSet(l)}
    BY DEF Slots
  <2>2. \E j \in DOMAIN l : l[j].name = x
    BY <2>1 DEF ToSet
  <2>3. i \in DOMAIN l
    BY <2>2
  <2>4. Slots(l)[x] = [typ |-> l[i].typ, offset |-> Offset(l, i)]
    BY <2>1 DEF Slots
  <2> HIDE DEF i
  <2>5. Slots(l)[x].typ = l[i].typ /\ Slots(l)[x].offset = Offset(l, i)
    BY <2>4
  <2>6. i \in 1 .. Len(l) /\ i \in 0 .. Len(l)
    BY <1>7, <2>3
  <2>7. SizeOf(l[i].typ) \in Nat
    BY <1>4, <2>6 DEF Sized
  <2> QED
    BY <1>6, <2>5, <2>6, <2>7
<1> QED
  BY <1>2, <1>3, <1>5, <1>8 DEF A

\* What the machine relies on, of a program that was assembled.
Ready(A, d) ==
  /\ IsSeq(A.text) /\ Len(A.text) < Word /\ \A i \in 1 .. Len(A.text) : A.text[i] # <<"stop">>
  /\ TextDepths(A, d)
  /\ A.limit \in Nat /\ A.limit + 8 <= Memory
  /\ \A v \in A.extents : v[1] \in Nat /\ v[2] \in Nat /\ v[1] + v[2] <= A.limit
  /\ DOMAIN A.frame = DOMAIN A.entry /\ DOMAIN A.slots = DOMAIN A.entry
  /\ "main" \in DOMAIN A.entry
  /\ \A f \in DOMAIN A.entry :
       /\ A.frame[f] \in Nat
       /\ \A x \in DOMAIN A.slots[f] :
            /\ A.slots[f][x].offset \in Nat /\ SizeOf(A.slots[f][x].typ) \in Nat
            /\ SizeOf(A.slots[f][x].typ) <= A.slots[f][x].offset
            /\ A.slots[f][x].offset <= A.frame[f]

DepthOf(A) == CHOOSE d : Ready(A, d)

\* A program the compiler did not stop at has all of this.
LEMMA ProgramReady ==
  ASSUME NEW p \in Sources, ~ Assembled(p).stops
  PROVE  Ready(Assembled(p), DepthOf(Assembled(p)))
<1> DEFINE A == Assembled(p)
<1>1. PICK d : TextDepths(A, d)
  BY TextHasDepths
<1>2. IsSeq(A.text) /\ \A i \in 1 .. Len(A.text) : A.text[i] # <<"stop">>
  BY TextHasDepths
<1>3. /\ A.limit \in Nat /\ A.limit + 8 <= Memory /\ Len(A.text) < Word
      /\ \A v \in A.extents : v[1] \in Nat /\ v[2] \in Nat /\ v[1] + v[2] <= A.limit
  BY DataOfText
<1>4. /\ DOMAIN A.frame = NamesIn(p.fns) /\ DOMAIN A.slots = NamesIn(p.fns)
      /\ DOMAIN A.entry = NamesIn(p.fns)
  BY Fields
<1>5. "main" \in NamesIn(p.fns)
  BY Functions
<1>6. \A f \in NamesIn(p.fns) :
        /\ A.frame[f] \in Nat
        /\ \A x \in DOMAIN A.slots[f] :
             /\ A.slots[f][x].offset \in Nat /\ SizeOf(A.slots[f][x].typ) \in Nat
             /\ SizeOf(A.slots[f][x].typ) <= A.slots[f][x].offset
             /\ A.slots[f][x].offset <= A.frame[f]
  BY SlotsInFrame
<1> HIDE DEF A
<1>7. Ready(A, d)
  BY <1>1, <1>2, <1>3, <1>4, <1>5, <1>6 DEF Ready
<1>8. Ready(A, DepthOf(A))
  BY <1>7 DEF DepthOf
<1> QED
  BY <1>8 DEF A

-----------------------------------------------------------------------------
\* The stack of a running program.  The operators have the state as parameters:
\* A the assembled program, d the depth of every instruction, p the pc, r the
\* registers, m the memory, f the active functions.

\* Where the frame pointer of the i-th active function points: its caller's is
\* saved there, the return address above it, its variables below it.
FrameAt(f, i)  == f[i].rsp - 16
Floor(A, f, i) == FrameAt(f, i) - A.frame[f[i].fn]

\* Each active function was called by the one before it, below its variables and
\* the operands it will find again.
Calls(A, d, f) ==
  /\ IsSeq(f) /\ Len(f) >= 1
  /\ f[1].ret = EXIT
  /\ \A i \in 1 .. Len(f) :
       /\ f[i].fn \in DOMAIN A.entry
       /\ f[i].rsp \in Int /\ A.limit + 8 <= f[i].rsp /\ f[i].rsp <= Memory
       /\ f[i].rbp \in 0 .. Word - 1 /\ f[i].ret \in 0 .. Word - 1
       /\ \A j \in 1 .. i - 1 : f[i].rsp <= Floor(A, f, j)
       /\ i > 1 => /\ f[i].ret \in 1 .. Len(A.text) /\ d[f[i].ret] >= 0
                   /\ f[i].rbp = FrameAt(f, i - 1)
                   /\ f[i].rsp + 8 * d[f[i].ret] <= Floor(A, f, i - 1)

\* What they saved is in the memory; the last one has saved nothing before its
\* first instruction, and needs it no more before its last one.
HasWord(m, a, w) == \A k \in 1 .. 8 : m[a + k - 1] = Digits(w)[k]
Saved(x, m, f) ==
  \A i \in 1 .. Len(f) :
    /\ HasWord(m, f[i].rsp - 8, f[i].ret)
    /\ i < Len(f) \/ x \notin {-2, -3} => HasWord(m, FrameAt(f, i), f[i].rbp)

\* Where the stack and the frame pointer of the last one are.
Phase(A, x, p, r, f) ==
  LET n == Len(f) IN
  \/ /\ x >= 0 /\ r.rbp = FrameAt(f, n)
     /\ A.limit <= r.rsp /\ r.rsp + 8 * x <= Floor(A, f, n)
  \/ x \in {-1, -5} /\ r.rbp = FrameAt(f, n) /\ r.rsp = FrameAt(f, n)
  \/ x = -4 /\ r.rbp = f[n].rbp /\ r.rsp = FrameAt(f, n)
  \/ x \in {-2, -3} /\ r.rbp = f[n].rbp /\ r.rsp = f[n].rsp - 8

\* In the prologue the program is where the function starts.
Entering(A, x, p, f) ==
  LET entry == A.entry[f[Len(f)].fn]
  IN (x = -3 => p = entry) /\ (x = -4 => p = entry + 1) /\ (x = -5 => p = entry + 2)

Stack(A, d, p, r, m, f) ==
  /\ p \in 1 .. Len(A.text)
  /\ r.rsp \in Int
  /\ Calls(A, d, f)
  /\ Saved(d[p], m, f)
  /\ Phase(A, d[p], p, r, f) /\ Entering(A, d[p], p, f)

\* The depths of a program are numbers, and none is a function's own behind its
\* last instruction.
LEMMA DepthFacts ==
  ASSUME NEW A, NEW d, Ready(A, d)
  PROVE  /\ Len(A.text) \in Nat /\ DOMAIN A.text = 1 .. Len(A.text)
         /\ \A p \in 1 .. Len(A.text) : d[p] \in Int /\ d[p + 1] \in Int /\ Flows(A.text, d, p)
         /\ \A q \in 1 .. Len(A.text) + 1 : d[q] # -3 => q \in 1 .. Len(A.text)
         /\ \A q \in 1 .. Len(A.text) + 1 : d[q] \in Int
<1>1. IsSeq(A.text) /\ TextDepths(A, d)
  BY DEF Ready
<1>2. Len(A.text) \in Nat /\ DOMAIN A.text = 1 .. Len(A.text)
  BY <1>1, SeqFacts
<1>3. Depths(A.text, -3, -3, d)
  BY <1>1 DEF TextDepths
<1>4. /\ d \in [1 .. Len(A.text) + 1 -> Int] /\ d[Len(A.text) + 1] = -3
      /\ \A p \in 1 .. Len(A.text) : Flows(A.text, d, p)
  BY <1>3 DEF Depths
<1>5. \A p \in 1 .. Len(A.text) : d[p] \in Int /\ d[p + 1] \in Int
  BY <1>2, <1>4
<1>6. \A q \in 1 .. Len(A.text) + 1 : d[q] # -3 => q \in 1 .. Len(A.text)
  BY <1>2, <1>4
<1>7. \A q \in 1 .. Len(A.text) + 1 : d[q] \in Int
  BY <1>2, <1>4
<1> QED
  BY <1>2, <1>4, <1>5, <1>6, <1>7

\* The numbers the stack consists of.
LEMMA CallFacts ==
  ASSUME NEW A, NEW d, Ready(A, d), NEW f, Calls(A, d, f)
  PROVE  /\ Len(f) \in Nat /\ Len(f) \in 1 .. Len(f) /\ A.limit \in Nat
         /\ \A i \in 1 .. Len(f) :
              /\ f[i].rsp \in Int /\ A.limit + 8 <= f[i].rsp /\ f[i].rsp <= Memory
              /\ FrameAt(f, i) \in Int /\ Floor(A, f, i) \in Int
              /\ FrameAt(f, i) = f[i].rsp - 16 /\ Floor(A, f, i) <= FrameAt(f, i)
              /\ f[i].fn \in DOMAIN A.entry
              /\ \A j \in 1 .. i - 1 : f[i].rsp <= Floor(A, f, j)
<1>1. Len(f) \in Nat
  BY SeqFacts DEF Calls
<1>2. ASSUME NEW i \in 1 .. Len(f)
      PROVE  /\ f[i].rsp \in Int /\ A.limit + 8 <= f[i].rsp /\ f[i].rsp <= Memory
             /\ FrameAt(f, i) \in Int /\ Floor(A, f, i) \in Int
             /\ FrameAt(f, i) = f[i].rsp - 16 /\ Floor(A, f, i) <= FrameAt(f, i)
             /\ f[i].fn \in DOMAIN A.entry
             /\ \A j \in 1 .. i - 1 : f[i].rsp <= Floor(A, f, j)
  <2>1. /\ f[i].rsp \in Int /\ f[i].fn \in DOMAIN A.entry
        /\ A.limit + 8 <= f[i].rsp /\ f[i].rsp <= Memory
        /\ \A j \in 1 .. i - 1 : f[i].rsp <= Floor(A, f, j)
    BY DEF Calls
  <2>2. A.frame[f[i].fn] \in Nat
    BY <2>1 DEF Ready
  <2> QED
    BY <2>1, <2>2 DEF FrameAt, Floor
<1>3. Len(f) \in 1 .. Len(f)
  BY <1>1 DEF Calls
<1>4. A.limit \in Nat
  BY DEF Ready
<1> QED
  BY <1>1, <1>2, <1>3, <1>4

\* No function saved anything below the variables of the last one.
LEMMA FloorLowest ==
  ASSUME NEW A, NEW d, Ready(A, d), NEW f, Calls(A, d, f), NEW i \in 1 .. Len(f)
  PROVE  Floor(A, f, Len(f)) <= FrameAt(f, i)
<1> DEFINE n == Len(f)
<1>1. /\ n \in Nat /\ n \in 1 .. n
      /\ \A j \in 1 .. n :
              /\ f[j].rsp \in Int
              /\ FrameAt(f, j) \in Int /\ Floor(A, f, j) \in Int
              /\ FrameAt(f, j) = f[j].rsp - 16 /\ Floor(A, f, j) <= FrameAt(f, j)
              /\ \A k \in 1 .. j - 1 : f[j].rsp <= Floor(A, f, k)
  BY CallFacts
<1> HIDE DEF n
<1>2. i \in 1 .. n
  BY DEF n
<1>3. CASE i = n
  BY <1>1, <1>3 DEF n
<1>4. CASE i # n
  <2>1. i \in 1 .. n - 1
    BY <1>1, <1>2, <1>4
  <2>2. f[n].rsp <= Floor(A, f, i)
    BY <1>1, <2>1
  <2> QED
    BY <1>1, <1>2, <2>2 DEF n
<1> QED
  BY <1>3, <1>4

\* The bytes outside of a .. a + k - 1 stay.
KeptBut(m, w, a, k) == \A b \in 0 .. Memory - 1 : b \notin a .. a + k - 1 => w[b] = m[b]

\* A write that meets no saved word.
Harmless(f, a, k) ==
  /\ a \in Int /\ k \in Nat
  /\ \A i \in 1 .. Len(f) : a + k <= FrameAt(f, i) \/ FrameAt(f, i) + 16 <= a

\* A harmless write keeps the saved words of each active function.
LEMMA SavedKept ==
  ASSUME NEW A, NEW d, Ready(A, d), NEW f, Calls(A, d, f), NEW m, NEW w, NEW a, NEW k,
         Harmless(f, a, k), KeptBut(m, w, a, k), NEW i \in 1 .. Len(f), NEW v
  PROVE  /\ HasWord(m, f[i].rsp - 8, v) => HasWord(w, f[i].rsp - 8, v)
         /\ 0 <= FrameAt(f, i) /\ HasWord(m, FrameAt(f, i), v) => HasWord(w, FrameAt(f, i), v)
<1> DEFINE s == f[i].rsp
<1>1. /\ s \in Int /\ A.limit \in Nat /\ A.limit + 8 <= s /\ s <= Memory
      /\ FrameAt(f, i) = s - 16 /\ Memory \in Nat
  BY CallFacts, MemoryAssumption, ByteCases
<1>2. a \in Int /\ k \in Nat /\ (a + k <= s - 16 \/ (s - 16) + 16 <= a)
  BY <1>1 DEF Harmless
<1> HIDE DEF s
<1>3. \A b \in Int : b >= s - 16 /\ b >= 0 /\ b < s => w[b] = m[b]
  <2> TAKE b \in Int
  <2> HAVE b >= s - 16 /\ b >= 0 /\ b < s
  <2>1. b \in 0 .. Memory - 1 /\ b \notin a .. a + k - 1
    BY <1>1, <1>2
  <2> QED
    BY <2>1 DEF KeptBut
<1>4. \A j \in 1 .. 8 : w[s - 8 + j - 1] = m[s - 8 + j - 1]
  <2> TAKE j \in 1 .. 8
  <2>1. s - 8 + j - 1 \in Int /\ s - 8 + j - 1 >= s - 16 /\ s - 8 + j - 1 >= 0 /\ s - 8 + j - 1 < s
    BY <1>1
  <2> QED
    BY <1>3, <2>1
<1>5. 0 <= s - 16 => \A j \in 1 .. 8 : w[s - 16 + j - 1] = m[s - 16 + j - 1]
  <2> HAVE 0 <= s - 16
  <2> TAKE j \in 1 .. 8
  <2>1. s - 16 + j - 1 \in Int /\ s - 16 + j - 1 >= s - 16 /\ s - 16 + j - 1 >= 0 /\ s - 16 + j - 1 < s
    BY <1>1
  <2> QED
    BY <1>3, <2>1
<1> QED
  BY <1>1, <1>4, <1>5 DEF HasWord, s

\* Inside of a function: it goes on somewhere with no more operands than it has.
LEMMA StackInside ==
  ASSUME NEW A, NEW d, Ready(A, d), NEW p, NEW r, NEW m, NEW f, Stack(A, d, p, r, m, f),
         d[p] >= 0, NEW q \in 1 .. Len(A.text) + 1, d[q] >= 0,
         NEW s, s.rbp = r.rbp, s.rsp \in Int, A.limit <= s.rsp,
         s.rsp + 8 * d[q] <= r.rsp + 8 * d[p],
         NEW w, NEW a, NEW k, Harmless(f, a, k), KeptBut(m, w, a, k)
  PROVE  Stack(A, d, q, s, w, f)
<1> DEFINE n == Len(f)
<1>1. /\ p \in 1 .. Len(A.text) /\ Calls(A, d, f) /\ Saved(d[p], m, f) /\ r.rsp \in Int
      /\ Phase(A, d[p], p, r, f)
  BY DEF Stack
<1>2. d[p] \in Int /\ d[q] \in Int /\ q \in 1 .. Len(A.text)
  <2>1. d[p] \in Int /\ d[q] \in Int
    BY <1>1, DepthFacts
  <2>2. d[q] # -3
    BY <2>1
  <2> QED
    BY <2>1, <2>2, DepthFacts
<1>3. r.rbp = FrameAt(f, n) /\ A.limit <= r.rsp /\ r.rsp + 8 * d[p] <= Floor(A, f, n)
  BY <1>1, <1>2 DEF Phase
<1>4. n \in 1 .. n /\ Floor(A, f, n) \in Int /\ A.limit \in Nat
  BY <1>1, CallFacts
<1>5. Phase(A, d[q], q, s, f)
  <2>1. s.rsp + 8 * d[q] <= Floor(A, f, n)
    BY <1>1, <1>2, <1>3, <1>4
  <2> QED
    BY <1>3, <2>1 DEF Phase
<1>6. Saved(d[q], w, f)
  <2> SUFFICES ASSUME NEW i \in 1 .. Len(f)
               PROVE  HasWord(w, f[i].rsp - 8, f[i].ret) /\ HasWord(w, FrameAt(f, i), f[i].rbp)
    BY DEF Saved
  <2>1. HasWord(m, f[i].rsp - 8, f[i].ret) /\ HasWord(m, FrameAt(f, i), f[i].rbp)
    <3>1. d[p] \notin {-2, -3}
      BY <1>2
    <3> QED
      BY <1>1, <3>1 DEF Saved
  <2>2. 0 <= FrameAt(f, i)
    <3>1. Floor(A, f, n) <= FrameAt(f, i) /\ FrameAt(f, i) \in Int
      BY <1>1, FloorLowest, CallFacts
    <3> QED
      BY <1>1, <1>2, <1>3, <1>4, <3>1
  <2> QED
    BY <1>1, <2>1, <2>2, SavedKept
<1>7. Entering(A, d[q], q, f)
  BY <1>2 DEF Entering
<1> QED
  BY <1>1, <1>2, <1>5, <1>6, <1>7 DEF Stack

\* A word outside of what is written stays.
LEMMA WordKept ==
  ASSUME NEW m, NEW w, NEW a \in Int, NEW k \in Nat, KeptBut(m, w, a, k), NEW v,
         NEW b \in Nat, b + 8 <= Memory, a + k <= b \/ b + 8 <= a, HasWord(m, b, v)
  PROVE  HasWord(w, b, v)
<1>1. Memory \in Nat
  BY MemoryAssumption, ByteCases
<1> SUFFICES ASSUME NEW j \in 1 .. 8 PROVE w[b + j - 1] = Digits(v)[j]
  BY DEF HasWord
<1>2. b + j - 1 \in 0 .. Memory - 1 /\ b + j - 1 \notin a .. a + k - 1
  BY <1>1
<1>3. w[b + j - 1] = m[b + j - 1]
  BY <1>2 DEF KeptBut
<1> QED
  BY <1>3 DEF HasWord

\* What is written below the variables of the last function.
LEMMA BelowHarmless ==
  ASSUME NEW A, NEW d, Ready(A, d), NEW f, Calls(A, d, f), NEW a \in Int, NEW k \in Nat,
         a + k <= Floor(A, f, Len(f))
  PROVE  Harmless(f, a, k)
<1>1. \A i \in 1 .. Len(f) : Floor(A, f, Len(f)) <= FrameAt(f, i) /\ FrameAt(f, i) \in Int
  BY FloorLowest, CallFacts
<1>2. Floor(A, f, Len(f)) \in Int
  BY CallFacts
<1> QED
  BY <1>1, <1>2 DEF Harmless

\* What is written between the frame pointer of a function and its lowest variable.
LEMMA InFrameHarmless ==
  ASSUME NEW A, NEW d, Ready(A, d), NEW f, Calls(A, d, f), NEW a \in Int, NEW k \in Nat,
         NEW i \in 1 .. Len(f), Floor(A, f, i) <= a, a + k <= FrameAt(f, i)
  PROVE  Harmless(f, a, k)
<1>1. /\ Len(f) \in Nat
      /\ \A j \in 1 .. Len(f) :
           /\ f[j].rsp \in Int
           /\ FrameAt(f, j) \in Int /\ Floor(A, f, j) \in Int
           /\ FrameAt(f, j) = f[j].rsp - 16 /\ Floor(A, f, j) <= FrameAt(f, j)
           /\ \A l \in 1 .. j - 1 : f[j].rsp <= Floor(A, f, l)
  BY CallFacts
<1>2. ASSUME NEW j \in 1 .. Len(f)
      PROVE  a + k <= FrameAt(f, j) \/ FrameAt(f, j) + 16 <= a
  <2>1. CASE j = i
    BY <2>1
  <2>2. CASE j < i
    <3>1. j \in 1 .. i - 1
      BY <1>1, <2>2
    <3>2. f[i].rsp <= Floor(A, f, j)
      BY <1>1, <3>1
    <3> QED
      BY <1>1, <3>2
  <2>3. CASE j > i
    <3>1. i \in 1 .. j - 1
      BY <1>1, <2>3
    <3>2. f[j].rsp <= Floor(A, f, i)
      BY <1>1, <3>1
    <3> QED
      BY <1>1, <3>2
  <2> QED
    BY <1>1, <2>1, <2>2, <2>3
<1> QED
  BY <1>2 DEF Harmless

\* The function's frame pointer is saved where its new one will point.
LEMMA StackPushed ==
  ASSUME NEW A, NEW d, Ready(A, d), NEW p, NEW r, NEW m, NEW f, Stack(A, d, p, r, m, f),
         d[p] = -3, d[p + 1] = -4,
         NEW s, s.rbp = r.rbp, s.rsp = r.rsp - 8, A.limit <= s.rsp,
         NEW w, KeptBut(m, w, s.rsp, 8), HasWord(w, s.rsp, r.rbp)
  PROVE  Stack(A, d, p + 1, s, w, f)
<1> DEFINE n == Len(f)
<1>1. /\ p \in 1 .. Len(A.text) /\ Calls(A, d, f) /\ Saved(-3, m, f) /\ r.rsp \in Int
      /\ Phase(A, -3, p, r, f) /\ Entering(A, -3, p, f)
  BY DEF Stack
<1>2. r.rbp = f[n].rbp /\ r.rsp = f[n].rsp - 8
  BY <1>1 DEF Phase
<1>3. p + 1 \in 1 .. Len(A.text)
  <2>1. p + 1 \in 1 .. Len(A.text) + 1 /\ d[p + 1] # -3
    BY <1>1, DepthFacts
  <2> QED
    BY <2>1, DepthFacts
<1>4. /\ n \in Nat /\ n \in 1 .. n /\ A.limit \in Nat
      /\ \A i \in 1 .. n :
           /\ f[i].rsp \in Int /\ A.limit + 8 <= f[i].rsp /\ f[i].rsp <= Memory
           /\ FrameAt(f, i) \in Int /\ Floor(A, f, i) \in Int
           /\ FrameAt(f, i) = f[i].rsp - 16 /\ Floor(A, f, i) <= FrameAt(f, i)
           /\ \A j \in 1 .. i - 1 : f[i].rsp <= Floor(A, f, j)
  BY <1>1, CallFacts
<1>5. s.rsp = FrameAt(f, n) /\ s.rsp \in Int
  BY <1>1, <1>2, <1>4
<1>6. Phase(A, -4, p + 1, s, f)
  BY <1>2, <1>5 DEF Phase
<1>7. Saved(-4, w, f)
  <2> SUFFICES ASSUME NEW i \in 1 .. n
               PROVE  HasWord(w, f[i].rsp - 8, f[i].ret) /\ HasWord(w, FrameAt(f, i), f[i].rbp)
    BY DEF Saved
  <2>1. HasWord(m, f[i].rsp - 8, f[i].ret) /\ (i < n => HasWord(m, FrameAt(f, i), f[i].rbp))
    BY <1>1 DEF Saved
  <2>m. Memory \in Nat
    BY MemoryAssumption, ByteCases
  <2>a. /\ f[i].rsp \in Int /\ A.limit + 8 <= f[i].rsp /\ f[i].rsp <= Memory
        /\ FrameAt(f, i) \in Int /\ Floor(A, f, i) \in Int
        /\ FrameAt(f, i) = f[i].rsp - 16 /\ Floor(A, f, i) <= FrameAt(f, i)
    BY <1>4
  <2>b. s.rsp = f[n].rsp - 16 /\ f[n].rsp \in Int /\ A.limit \in Nat /\ A.limit <= s.rsp
    BY <1>4, <1>5
  <2>2. CASE i = n
    <3>1. f[i].rsp - 8 \in Nat /\ (f[i].rsp - 8) + 8 <= Memory /\ s.rsp + 8 <= f[i].rsp - 8
      BY <2>2, <2>a, <2>b, <2>m
    <3>2. HasWord(w, f[i].rsp - 8, f[i].ret)
      BY <1>5, <2>1, <3>1, WordKept
    <3> QED
      BY <1>2, <1>5, <2>2, <3>2
  <2>3. CASE i # n
    <3> DEFINE b == f[i].rsp - 8
               c == FrameAt(f, i)
    <3>1. i \in 1 .. n - 1
      BY <1>4, <2>3
    <3>2. f[n].rsp <= Floor(A, f, i)
      BY <1>4, <3>1
    <3>g. f[n].rsp <= f[i].rsp - 16
      BY <2>a, <2>b, <3>2
    <3>h. b = f[i].rsp - 8 /\ c = f[i].rsp - 16
      BY <2>a
    <3> HIDE DEF b, c
    <3>3. /\ b \in Nat /\ b + 8 <= Memory /\ s.rsp + 8 <= b
          /\ c \in Nat /\ c + 8 <= Memory /\ s.rsp + 8 <= c
      <4> DEFINE x == f[i].rsp
                 y == f[n].rsp
                 z == s.rsp
      <4>1. /\ x \in Int /\ y \in Int /\ x <= Memory /\ z = y - 16 /\ y <= x - 16
            /\ b = x - 8 /\ c = x - 16 /\ A.limit \in Nat /\ A.limit <= z
        BY <2>a, <2>b, <3>g, <3>h
      <4> HIDE DEF x, y, z
      <4>2. z \in Int /\ 0 <= z
        BY <4>1
      <4>3. b \in Nat /\ c \in Nat /\ b + 8 <= Memory /\ c + 8 <= Memory /\ z + 8 <= b /\ z + 8 <= c
        BY <4>1, <4>2, <2>m
      <4> QED
        BY <4>3 DEF z
    <3>4. HasWord(m, b, f[i].ret) /\ HasWord(m, c, f[i].rbp)
      BY <1>4, <2>1, <2>3 DEF b, c
    <3>5. HasWord(w, b, f[i].ret) /\ HasWord(w, c, f[i].rbp)
      BY <1>5, <3>3, <3>4, WordKept
    <3> QED
      BY <3>5 DEF b, c
  <2> QED
    BY <2>2, <2>3
<1>8. Entering(A, -4, p + 1, f)
  BY <1>1 DEF Entering
<1> QED
  BY <1>1, <1>3, <1>5, <1>6, <1>7, <1>8 DEF Stack

\* The frame pointer is set.
LEMMA StackFramed ==
  ASSUME NEW A, NEW d, Ready(A, d), NEW p, NEW r, NEW m, NEW f, Stack(A, d, p, r, m, f),
         d[p] = -4, d[p + 1] = -5, NEW s, s.rbp = r.rsp, s.rsp = r.rsp
  PROVE  Stack(A, d, p + 1, s, m, f)
<1>1. /\ p \in 1 .. Len(A.text) /\ Calls(A, d, f) /\ Saved(-4, m, f) /\ r.rsp \in Int
      /\ Phase(A, -4, p, r, f) /\ Entering(A, -4, p, f)
  BY DEF Stack
<1>2. p + 1 \in 1 .. Len(A.text)
  <2>1. p + 1 \in 1 .. Len(A.text) + 1 /\ d[p + 1] # -3
    BY <1>1, DepthFacts
  <2> QED
    BY <2>1, DepthFacts
<1>3. Phase(A, -5, p + 1, s, f)
  BY <1>1 DEF Phase
<1>4. Saved(-5, m, f)
  BY <1>1 DEF Saved
<1>5. Entering(A, -5, p + 1, f)
  <2>1. f[Len(f)].fn \in DOMAIN A.entry
    BY <1>1, CallFacts
  <2>2. A.entry[f[Len(f)].fn] \in Nat
    BY <2>1 DEF Ready, TextDepths
  <2> QED
    BY <1>1, <2>2 DEF Entering
<1> QED
  BY <1>1, <1>2, <1>3, <1>4, <1>5 DEF Stack

\* There is room for the variables: the operand stack is empty.
LEMMA StackReserved ==
  ASSUME NEW A, NEW d, Ready(A, d), NEW p, NEW r, NEW m, NEW f, Stack(A, d, p, r, m, f),
         d[p] = -5, d[p + 1] = 0, NEW k, k = A.text[p][2],
         NEW s, s.rbp = r.rbp, s.rsp = r.rsp + k, A.limit <= s.rsp
  PROVE  Stack(A, d, p + 1, s, m, f)
<1> DEFINE n == Len(f)
           h == f[n].fn
<1>1. /\ p \in 1 .. Len(A.text) /\ Calls(A, d, f) /\ Saved(-5, m, f) /\ r.rsp \in Int
      /\ Phase(A, -5, p, r, f) /\ Entering(A, -5, p, f)
  BY DEF Stack
<1>2. p + 1 \in 1 .. Len(A.text)
  <2>1. p + 1 \in 1 .. Len(A.text) + 1 /\ d[p + 1] # -3
    BY <1>1, DepthFacts
  <2> QED
    BY <2>1, DepthFacts
<1>3. h \in DOMAIN A.entry /\ n \in 1 .. n
  BY <1>1, CallFacts
<1>4. p = A.entry[h] + 2
  BY <1>1 DEF Entering
<1>5. A.text[p] = <<"add_int", -A.frame[h], "rsp">>
  BY <1>3, <1>4 DEF Ready, TextDepths
<1>6. k = -A.frame[h] /\ A.frame[h] \in Nat
  BY <1>3, <1>5 DEF Ready
<1>7. r.rbp = FrameAt(f, n) /\ r.rsp = FrameAt(f, n)
  BY <1>1 DEF Phase
<1>8. s.rsp = Floor(A, f, n) /\ s.rsp \in Int
  BY <1>1, <1>6, <1>7 DEF Floor
<1>9. Phase(A, 0, p + 1, s, f)
  BY <1>7, <1>8 DEF Phase
<1>10. Saved(0, m, f)
  BY <1>1 DEF Saved
<1>11. Entering(A, 0, p + 1, f)
  BY DEF Entering
<1> QED
  BY <1>1, <1>2, <1>8, <1>9, <1>10, <1>11 DEF Stack

\* What is left on the operand stack is given up.
LEMMA StackReset ==
  ASSUME NEW A, NEW d, Ready(A, d), NEW p, NEW r, NEW m, NEW f, Stack(A, d, p, r, m, f),
         d[p] >= 0, d[p + 1] = -1, NEW s, s.rbp = r.rbp, s.rsp = r.rbp
  PROVE  Stack(A, d, p + 1, s, m, f)
<1>1. /\ p \in 1 .. Len(A.text) /\ Calls(A, d, f) /\ Saved(d[p], m, f) /\ r.rsp \in Int
      /\ Phase(A, d[p], p, r, f)
  BY DEF Stack
<1>2. p + 1 \in 1 .. Len(A.text) /\ d[p] \in Int
  <2>1. p + 1 \in 1 .. Len(A.text) + 1 /\ d[p + 1] # -3
    BY <1>1, DepthFacts
  <2> QED
    BY <1>1, <2>1, DepthFacts
<1>3. s.rbp = FrameAt(f, Len(f)) /\ s.rsp = FrameAt(f, Len(f))
  BY <1>1, <1>2 DEF Phase
<1>4. Phase(A, -1, p + 1, s, f)
  BY <1>3 DEF Phase
<1>5. s.rsp \in Int
  BY <1>1, <1>3, CallFacts
<1>6. Saved(-1, m, f)
  BY <1>1, <1>2 DEF Saved
<1>7. Entering(A, -1, p + 1, f)
  BY DEF Entering
<1> QED
  BY <1>1, <1>2, <1>4, <1>5, <1>6, <1>7 DEF Stack

\* The caller's frame pointer is back.
LEMMA StackPopped ==
  ASSUME NEW A, NEW d, Ready(A, d), NEW p, NEW r, NEW m, NEW f, Stack(A, d, p, r, m, f),
         d[p] = -1, d[p + 1] = -2, NEW s, s.rbp = f[Len(f)].rbp, s.rsp = r.rsp + 8
  PROVE  Stack(A, d, p + 1, s, m, f)
<1>1. /\ p \in 1 .. Len(A.text) /\ Calls(A, d, f) /\ Saved(-1, m, f) /\ r.rsp \in Int
      /\ Phase(A, -1, p, r, f)
  BY DEF Stack
<1>2. p + 1 \in 1 .. Len(A.text)
  <2>1. p + 1 \in 1 .. Len(A.text) + 1 /\ d[p + 1] # -3
    BY <1>1, DepthFacts
  <2> QED
    BY <2>1, DepthFacts
<1>3. r.rsp = FrameAt(f, Len(f))
  BY <1>1 DEF Phase
<1>4. s.rsp = f[Len(f)].rsp - 8 /\ s.rsp \in Int
  <2>1. Len(f) \in 1 .. Len(f)
    BY <1>1, CallFacts
  <2>2. f[Len(f)].rsp \in Int /\ FrameAt(f, Len(f)) = f[Len(f)].rsp - 16
    BY <1>1, <2>1, CallFacts
  <2> QED
    BY <1>3, <2>2
<1>5. Phase(A, -2, p + 1, s, f)
  BY <1>4 DEF Phase
<1>6. Saved(-2, m, f)
  BY <1>1 DEF Saved
<1>7. Entering(A, -2, p + 1, f)
  BY DEF Entering
<1> QED
  BY <1>1, <1>2, <1>4, <1>5, <1>6, <1>7 DEF Stack

\* The sequence with an item more.
LEMMA Appended ==
  ASSUME NEW f, IsSeq(f), NEW x
  PROVE  /\ IsSeq(Append(f, x)) /\ Len(Append(f, x)) = Len(f) + 1
         /\ Append(f, x)[Len(f) + 1] = x
         /\ \A i \in 1 .. Len(f) : Append(f, x)[i] = f[i]
<1> DEFINE U == {f[i] : i \in 1 .. Len(f)} \cup {x}
<1>1. /\ Len(f) \in Nat /\ DOMAIN f = 1 .. Len(f)
      /\ f = [i \in 1 .. Len(f) |-> f[i]]
  BY SeqFacts
<1>2. f \in Seq(U) /\ x \in U
  <2>1. \A i \in 1 .. Len(f) : f[i] \in U
    OBVIOUS
  <2> HIDE DEF U
  <2>2. f \in [1 .. Len(f) -> U]
    BY <1>1, <2>1
  <2>3. x \in U
    BY DEF U
  <2>4. \A n \in Nat : [1 .. n -> U] \subseteq Seq(U)
    OBVIOUS
  <2> QED
    BY <1>1, <2>2, <2>3, <2>4
<1> HIDE DEF U
<1>3. PICK g : g = Append(f, x)
  OBVIOUS
<1>4. /\ g \in Seq(U) /\ Len(g) = Len(f) + 1 /\ g[Len(f) + 1] = x
      /\ \A i \in 1 .. Len(f) : g[i] = f[i]
  BY <1>2, <1>3
<1>5. IsSeq(g)
  BY <1>4, SeqHasRange
<1> QED
  BY <1>3, <1>4, <1>5

\* The sequence without its last item.
LEMMA Fronted ==
  ASSUME NEW f, IsSeq(f), Len(f) > 0
  PROVE  /\ IsSeq(Front(f)) /\ Len(Front(f)) = Len(f) - 1
         /\ \A i \in 1 .. Len(f) - 1 : Front(f)[i] = f[i]
<1>1. /\ Len(f) \in Nat /\ DOMAIN f = 1 .. Len(f)
      /\ f = [i \in 1 .. Len(f) |-> f[i]]
  BY SeqFacts
<1> DEFINE n == Len(f) - 1
<1>2. Front(f) = SubSeq(f, 1, n)
  BY DEF Front
<1>3. SubSeq(f, 1, n) = [i \in 1 .. n |-> f[i]]
  BY <1>1
<1>4. n \in Nat
  BY <1>1
<1>5. PICK g : g = Front(f)
  OBVIOUS
<1> HIDE DEF n
<1>6. g = [i \in 1 .. n |-> g[i]] /\ \A i \in 1 .. n : g[i] = f[i]
  BY <1>2, <1>3, <1>5
<1>7. IsSeq(g) /\ Len(g) = n
  BY <1>4, <1>6, FunctionIsSeq
<1> QED
  BY <1>5, <1>6, <1>7 DEF n

\* A function is called: it is the last one now, and has its return address.
LEMMA StackCalled ==
  ASSUME NEW A, NEW d, Ready(A, d), NEW p, NEW r, NEW m, NEW f, Stack(A, d, p, r, m, f),
         d[p] >= 0, d[p + 1] \in 0 .. d[p], NEW h \in DOMAIN A.entry,
         r.rbp \in 0 .. Word - 1,
         NEW s, s.rbp = r.rbp, s.rsp = r.rsp - 8, A.limit <= s.rsp,
         NEW w, KeptBut(m, w, s.rsp, 8), HasWord(w, s.rsp, p + 1)
  PROVE  Stack(A, d, A.entry[h], s, w,
               Append(f, [ret |-> p + 1, rsp |-> r.rsp, rbp |-> r.rbp, fn |-> h]))
<1> DEFINE n == Len(f)
           x == [ret |-> p + 1, rsp |-> r.rsp, rbp |-> r.rbp, fn |-> h]
<1>1. /\ p \in 1 .. Len(A.text) /\ Calls(A, d, f) /\ Saved(d[p], m, f) /\ r.rsp \in Int
      /\ Phase(A, d[p], p, r, f)
  BY DEF Stack
<1>2. /\ d[p] \in Int /\ p + 1 \in 1 .. Len(A.text) /\ p + 1 \in 0 .. Word - 1
      /\ Len(A.text) \in Nat
  <2>1. Len(A.text) \in Nat /\ d[p] \in Int /\ p + 1 \in 1 .. Len(A.text) + 1 /\ d[p + 1] # -3
    BY <1>1, DepthFacts
  <2>2. p + 1 \in 1 .. Len(A.text)
    BY <2>1, DepthFacts
  <2>3. Len(A.text) < Word /\ Word \in Nat
    BY ByteCases DEF Ready
  <2> QED
    BY <2>1, <2>2, <2>3
<1>3. x.ret = p + 1 /\ x.rsp = r.rsp /\ x.rbp = r.rbp /\ x.fn = h
  OBVIOUS
<1> HIDE DEF x, n
<1>4. /\ n \in Nat /\ n \in 1 .. n /\ A.limit \in Nat /\ n = Len(f)
      /\ \A i \in 1 .. n :
           /\ f[i].rsp \in Int /\ A.limit + 8 <= f[i].rsp /\ f[i].rsp <= Memory
           /\ FrameAt(f, i) \in Int /\ Floor(A, f, i) \in Int
           /\ FrameAt(f, i) = f[i].rsp - 16 /\ Floor(A, f, i) <= FrameAt(f, i)
           /\ \A j \in 1 .. i - 1 : f[i].rsp <= Floor(A, f, j)
  BY <1>1, CallFacts DEF n
<1>5. r.rbp = FrameAt(f, n) /\ A.limit <= r.rsp /\ r.rsp + 8 * d[p] <= Floor(A, f, n)
  BY <1>1, <1>2 DEF Phase, n
<1>f. Floor(A, f, n) \in Int /\ A.limit \in Nat /\ r.rsp \in Int
  BY <1>1, <1>4
<1>6. r.rsp <= Floor(A, f, n) /\ r.rsp + 8 * d[p + 1] <= Floor(A, f, n)
  <2>1. 0 <= 8 * d[p + 1] /\ 8 * d[p + 1] <= 8 * d[p] /\ 8 * d[p + 1] \in Int /\ 8 * d[p] \in Int
    BY <1>2
  <2>2. r.rsp + 8 * d[p] <= Floor(A, f, n)
    BY <1>5
  <2> HIDE DEF n
  <2> QED
    BY <1>f, <2>1, <2>2
<1>m. Memory \in Nat
  BY MemoryAssumption, ByteCases
<1>7. r.rsp <= Memory /\ A.limit + 8 <= r.rsp
  <2>1. f[n].rsp \in Int /\ f[n].rsp <= Memory /\ Floor(A, f, n) <= f[n].rsp - 16
        /\ Floor(A, f, n) \in Int
    BY <1>4
  <2>2. r.rsp <= Floor(A, f, n) /\ A.limit <= r.rsp - 8
    BY <1>6
  <2> QED
    BY <1>f, <1>m, <2>1, <2>2
<1>8. ASSUME NEW i \in 1 .. n PROVE r.rsp <= Floor(A, f, i)
  <2>1. CASE i = n
    BY <1>6, <2>1
  <2>2. CASE i # n
    <3>1. i \in 1 .. n - 1
      BY <1>4, <2>2
    <3>2. /\ f[n].rsp <= Floor(A, f, i) /\ f[n].rsp \in Int /\ Floor(A, f, i) \in Int
          /\ Floor(A, f, n) <= f[n].rsp - 16 /\ Floor(A, f, n) \in Int
      BY <1>4, <3>1
    <3> QED
      BY <1>1, <1>6, <3>2
  <2> QED
    BY <2>1, <2>2
<1>9. PICK g : g = Append(f, x)
  OBVIOUS
<1>10. IsSeq(f)
  BY <1>1 DEF Calls
<1>11. /\ IsSeq(g) /\ Len(g) = n + 1 /\ g[n + 1] = x
       /\ \A i \in 1 .. n : g[i] = f[i]
  BY <1>9, <1>10, Appended DEF n
<1>12. /\ \A i \in 1 .. n : FrameAt(g, i) = FrameAt(f, i) /\ Floor(A, g, i) = Floor(A, f, i)
       /\ FrameAt(g, n + 1) = r.rsp - 16
  BY <1>3, <1>11 DEF FrameAt, Floor
<1>13. Calls(A, d, g)
  <2>1. IsSeq(g) /\ Len(g) >= 1 /\ g[1].ret = EXIT
    <3>1. 1 \in 1 .. n /\ f[1].ret = EXIT
      BY <1>1, <1>4 DEF Calls
    <3> QED
      BY <1>4, <1>11, <3>1
  <2>2. ASSUME NEW i \in 1 .. Len(g)
        PROVE  /\ g[i].fn \in DOMAIN A.entry
               /\ g[i].rsp \in Int /\ A.limit + 8 <= g[i].rsp /\ g[i].rsp <= Memory
               /\ g[i].rbp \in 0 .. Word - 1 /\ g[i].ret \in 0 .. Word - 1
               /\ \A j \in 1 .. i - 1 : g[i].rsp <= Floor(A, g, j)
               /\ i > 1 => /\ g[i].ret \in 1 .. Len(A.text) /\ d[g[i].ret] >= 0
                           /\ g[i].rbp = FrameAt(g, i - 1)
                           /\ g[i].rsp + 8 * d[g[i].ret] <= Floor(A, g, i - 1)
    <3>1. CASE i = n + 1
      <4>1. \A j \in 1 .. i - 1 : j \in 1 .. n
        BY <1>4, <3>1
      <4>2. \A j \in 1 .. i - 1 : r.rsp <= Floor(A, g, j)
        BY <1>8, <1>12, <4>1
      <4>3. i - 1 = n /\ g[i] = x
        BY <1>4, <1>11, <3>1
      <4>4. d[p + 1] >= 0
        BY <1>2
      <4> QED
        BY <1>1, <1>2, <1>3, <1>4, <1>5, <1>6, <1>7, <1>12, <4>2, <4>3, <4>4
    <3>2. CASE i # n + 1
      <4>1. i \in 1 .. n /\ g[i] = f[i] /\ i \in 1 .. Len(f)
        BY <1>4, <1>11, <3>2
      <4>2. /\ f[i].fn \in DOMAIN A.entry
            /\ f[i].rsp \in Int /\ A.limit + 8 <= f[i].rsp /\ f[i].rsp <= Memory
            /\ f[i].rbp \in 0 .. Word - 1 /\ f[i].ret \in 0 .. Word - 1
            /\ \A j \in 1 .. i - 1 : f[i].rsp <= Floor(A, f, j)
            /\ i > 1 => /\ f[i].ret \in 1 .. Len(A.text) /\ d[f[i].ret] >= 0
                        /\ f[i].rbp = FrameAt(f, i - 1)
                        /\ f[i].rsp + 8 * d[f[i].ret] <= Floor(A, f, i - 1)
        BY <1>1, <4>1 DEF Calls
      <4>3. \A j \in 1 .. i - 1 : Floor(A, g, j) = Floor(A, f, j) /\ FrameAt(g, j) = FrameAt(f, j)
        <5>1. \A j \in 1 .. i - 1 : j \in 1 .. n
          BY <1>4, <4>1
        <5> QED
          BY <1>12, <5>1
      <4>4. i > 1 => i - 1 \in 1 .. i - 1
        BY <1>4, <4>1
      <4> QED
        BY <4>1, <4>2, <4>3, <4>4
    <3> QED
      BY <3>1, <3>2
  <2> QED
    BY <2>1, <2>2 DEF Calls
<1> DEFINE q == A.entry[h]
<1>14. q \in 1 .. Len(A.text) /\ d[q] = -3
  <2>1. /\ q \in Nat /\ q + 2 \in 1 .. Len(A.text) /\ 1 <= q /\ d[q] = -3
    BY DEF Ready, TextDepths
  <2> QED
    BY <1>2, <2>1
<1>15. Phase(A, -3, q, s, g) /\ Entering(A, -3, q, g) /\ s.rsp \in Int
  BY <1>1, <1>3, <1>11 DEF Phase, Entering
<1>16. Harmless(f, s.rsp, 8)
  <2>1. s.rsp + 8 <= Floor(A, f, Len(f)) /\ s.rsp \in Int /\ 8 \in Nat
    BY <1>1, <1>4, <1>6
  <2> QED
    BY <1>1, <2>1, BelowHarmless
<1>17. Saved(-3, w, g)
  <2> SUFFICES ASSUME NEW i \in 1 .. n + 1
               PROVE  /\ HasWord(w, g[i].rsp - 8, g[i].ret)
                      /\ i < n + 1 => HasWord(w, FrameAt(g, i), g[i].rbp)
    BY <1>4, <1>11 DEF Saved
  <2>1. CASE i = n + 1
    BY <1>3, <1>4, <1>11, <2>1
  <2>2. CASE i # n + 1
    <3>1. i \in 1 .. n /\ g[i] = f[i] /\ i \in 1 .. Len(f) /\ FrameAt(g, i) = FrameAt(f, i)
      BY <1>4, <1>11, <1>12, <2>2
    <3>2. HasWord(m, f[i].rsp - 8, f[i].ret) /\ HasWord(m, FrameAt(f, i), f[i].rbp)
      <4>1. d[p] \notin {-2, -3}
        BY <1>2
      <4> QED
        BY <1>1, <3>1, <4>1 DEF Saved
    <3>3. 0 <= FrameAt(f, i)
      <4>1. r.rsp <= Floor(A, f, i) /\ Floor(A, f, i) <= FrameAt(f, i) /\ FrameAt(f, i) \in Int
            /\ Floor(A, f, i) \in Int
        BY <1>4, <1>8, <3>1
      <4> QED
        BY <1>1, <1>4, <1>7, <4>1
    <3> QED
      BY <1>1, <1>16, <3>1, <3>2, <3>3, SavedKept
  <2> QED
    BY <2>1, <2>2
<1>18. Stack(A, d, q, s, w, g)
  BY <1>13, <1>14, <1>15, <1>17 DEF Stack
<1> QED
  BY <1>9, <1>18 DEF x

\* A function returns: its caller is the last one again, with the operands it
\* had, and goes on behind the call.  The return address on the stack is right.
LEMMA StackReturned ==
  ASSUME NEW A, NEW d, Ready(A, d), NEW p, NEW r, NEW m, NEW f, Stack(A, d, p, r, m, f),
         d[p] = -2, Len(f) > 1, NEW s, s.rbp = r.rbp, s.rsp = r.rsp + 8
  PROVE  Stack(A, d, f[Len(f)].ret, s, m, Front(f))
<1> DEFINE n == Len(f)
           q == f[n].ret
<1>1. /\ p \in 1 .. Len(A.text) /\ Calls(A, d, f) /\ Saved(-2, m, f) /\ r.rsp \in Int
      /\ Phase(A, -2, p, r, f)
  BY DEF Stack
<1>2. r.rbp = f[n].rbp /\ r.rsp = f[n].rsp - 8
  BY <1>1 DEF Phase
<1>3. n \in Nat /\ n \in 1 .. n /\ n > 1 /\ f[n].rsp \in Int /\ A.limit + 8 <= f[n].rsp
      /\ A.limit \in Nat
  BY <1>1, CallFacts
<1>4. /\ q \in 1 .. Len(A.text) /\ d[q] >= 0
      /\ f[n].rbp = FrameAt(f, n - 1) /\ f[n].rsp + 8 * d[q] <= Floor(A, f, n - 1)
  BY <1>1, <1>3 DEF Calls
<1>5. PICK g : g = Front(f)
  OBVIOUS
<1>6. IsSeq(f)
  BY <1>1 DEF Calls
<1>7. IsSeq(g) /\ Len(g) = n - 1 /\ \A i \in 1 .. n - 1 : g[i] = f[i]
  <2>1. n > 0
    BY <1>3
  <2> QED
    BY <1>5, <1>6, <2>1, Fronted
<1> HIDE DEF n, q
<1>8. \A i \in 1 .. n - 1 : /\ FrameAt(g, i) = FrameAt(f, i) /\ Floor(A, g, i) = Floor(A, f, i)
                            /\ i \in 1 .. Len(f) /\ i < Len(f) /\ g[i] = f[i]
  <2>1. \A i \in 1 .. n - 1 : g[i] = f[i]
    BY <1>7
  <2>2. \A i \in 1 .. n - 1 : i \in 1 .. Len(f) /\ i < Len(f)
    BY <1>3 DEF n
  <2> QED
    BY <2>1, <2>2 DEF FrameAt, Floor
<1>9. Calls(A, d, g)
  <2>1. IsSeq(g) /\ Len(g) >= 1 /\ g[1].ret = EXIT
    <3>1. 1 \in 1 .. n - 1 /\ f[1].ret = EXIT
      BY <1>1, <1>3 DEF Calls
    <3> QED
      BY <1>3, <1>7, <3>1
  <2>2. ASSUME NEW i \in 1 .. Len(g)
        PROVE  /\ g[i].fn \in DOMAIN A.entry
               /\ g[i].rsp \in Int /\ A.limit + 8 <= g[i].rsp /\ g[i].rsp <= Memory
               /\ g[i].rbp \in 0 .. Word - 1 /\ g[i].ret \in 0 .. Word - 1
               /\ \A j \in 1 .. i - 1 : g[i].rsp <= Floor(A, g, j)
               /\ i > 1 => /\ g[i].ret \in 1 .. Len(A.text) /\ d[g[i].ret] >= 0
                           /\ g[i].rbp = FrameAt(g, i - 1)
                           /\ g[i].rsp + 8 * d[g[i].ret] <= Floor(A, g, i - 1)
    <3>1. i \in 1 .. n - 1
      BY <1>7
    <3>2. g[i] = f[i] /\ i \in 1 .. Len(f)
      BY <1>8, <3>1
    <3>3. /\ f[i].fn \in DOMAIN A.entry
          /\ f[i].rsp \in Int /\ A.limit + 8 <= f[i].rsp /\ f[i].rsp <= Memory
          /\ f[i].rbp \in 0 .. Word - 1 /\ f[i].ret \in 0 .. Word - 1
          /\ \A j \in 1 .. i - 1 : f[i].rsp <= Floor(A, f, j)
          /\ i > 1 => /\ f[i].ret \in 1 .. Len(A.text) /\ d[f[i].ret] >= 0
                      /\ f[i].rbp = FrameAt(f, i - 1)
                      /\ f[i].rsp + 8 * d[f[i].ret] <= Floor(A, f, i - 1)
      BY <1>1, <3>2 DEF Calls
    <3>4. \A j \in 1 .. i - 1 : Floor(A, g, j) = Floor(A, f, j) /\ FrameAt(g, j) = FrameAt(f, j)
      <4>1. \A j \in 1 .. i - 1 : j \in 1 .. n - 1
        BY <1>3, <3>1
      <4> QED
        BY <1>8, <4>1
    <3>5. i > 1 => i - 1 \in 1 .. i - 1
      BY <1>3, <3>1
    <3> QED
      BY <3>2, <3>3, <3>4, <3>5
  <2> QED
    BY <2>1, <2>2 DEF Calls
<1>10. n - 1 \in 1 .. n - 1 /\ Len(g) = n - 1
  BY <1>3, <1>7
<1>11. s.rbp = FrameAt(g, n - 1) /\ s.rsp = f[n].rsp /\ s.rsp + 8 * d[q] <= Floor(A, g, n - 1)
       /\ s.rsp \in Int /\ A.limit <= s.rsp
  BY <1>2, <1>3, <1>4, <1>8, <1>10
<1>12. Phase(A, d[q], q, s, g)
  BY <1>4, <1>10, <1>11 DEF Phase
<1>13. Saved(d[q], m, g)
  <2> SUFFICES ASSUME NEW i \in 1 .. n - 1
               PROVE  HasWord(m, g[i].rsp - 8, g[i].ret) /\ HasWord(m, FrameAt(g, i), g[i].rbp)
    BY <1>10 DEF Saved
  <2> QED
    BY <1>1, <1>8 DEF Saved
<1>14. Entering(A, d[q], q, g)
  <2>1. d[q] \in Int
    BY <1>4, DepthFacts
  <2> QED
    BY <1>4, <2>1 DEF Entering
<1>15. Stack(A, d, q, s, m, g)
  BY <1>4, <1>9, <1>11, <1>12, <1>13, <1>14 DEF Stack
<1> QED
  BY <1>5, <1>15 DEF q, n

-----------------------------------------------------------------------------
\* The steps of the machine.

\* The text of a program is a sequence, whether the compiler stopped or not.
LEMMA TextIsSeq ==
  ASSUME NEW p \in Sources
  PROVE  IsSeq(Assembled(p).text)
<1> DEFINE fns == p.fns
           code == Emitted(p)
           n == Len(fns)
<1>1. IsSeq(fns) /\ n \in Nat /\ DOMAIN fns = 1 .. n /\ \A i \in 1 .. n : IsFunction(fns[i])
  BY Functions, SeqFacts
<1>2. code = [i \in 1 .. n |-> code[i]] /\ \A i \in 1 .. n : code[i] = codegen_funcdecl(fns[i])
  BY <1>1 DEF Emitted
<1>3. Assembled(p).text = FlattenSeq(code)
  BY Fields
<1> HIDE DEF code, fns, n
<1>4. IsSeq(code) /\ Len(code) = n
  BY <1>1, <1>2, FunctionIsSeq
<1>5. \A i \in 1 .. Len(code) : IsSeq(code[i])
  BY <1>1, <1>2, <1>4, FunctionCode DEF Balanced
<1> QED
  BY <1>3, <1>4, <1>5, FlattenAt

\* The depths around an instruction, by its operation.
LEMMA StackFlows ==
  ASSUME NEW c, NEW d, NEW i, Flows(c, d, i)
  PROVE  /\ c[i][1] = "push" =>
              \/ c[i][2] \in Registers /\ d[i] >= 0 /\ d[i + 1] \in 0 .. d[i] + 1
              \/ c[i][2] = "rbp" /\ d[i] = -3 /\ d[i + 1] = -4
         /\ c[i][1] = "push_int" => c[i][2] \in Int /\ d[i] >= 0 /\ d[i + 1] \in 0 .. d[i] + 1
         /\ c[i][1] = "pop" =>
              \/ c[i][2] \in Data /\ d[i] >= 1 /\ d[i + 1] \in 0 .. d[i] - 1
              \/ c[i][2] = "rbp" /\ d[i] = -1 /\ d[i + 1] = -2
         /\ c[i][1] = "mov" =>
              \/ /\ c[i][2] \in Registers /\ c[i][3] \in Data
                 /\ d[i] >= 0 /\ d[i + 1] \in 0 .. d[i]
              \/ c[i][2] = "rsp" /\ c[i][3] = "rbp" /\ d[i] = -4 /\ d[i + 1] = -5
              \/ c[i][2] = "rbp" /\ c[i][3] = "rsp" /\ d[i] >= 0 /\ d[i + 1] = -1
         /\ c[i][1] = "add_int" =>
              /\ c[i][2] \in Int
              /\ \/ c[i][3] \in Data /\ d[i] >= 0 /\ d[i + 1] \in 0 .. d[i]
                 \/ /\ c[i][3] = "rsp" /\ d[i] >= 0 /\ d[i + 1] >= 0
                    /\ 8 * d[i + 1] <= 8 * d[i] - c[i][2]
                 \/ c[i][3] = "rsp" /\ d[i] = -5 /\ d[i + 1] = 0
         /\ c[i][1] = "spill" =>
              /\ c[i][2] \in Nat /\ c[i][2] + 8 <= 8 * d[i] /\ d[i + 1] \in 0 .. d[i]
         /\ c[i][1] = "ret" => c[i] = <<"stop">> \/ d[i] = -2
<1> DEFINE ins == c[i]
           x == d[i]
           y == d[i + 1]
<1>1. \/ Plain(ins) /\ x >= 0 /\ y \in 0 .. x
      \/ Moves(ins, x, y) \/ Prologues(ins, x, y) \/ Epilogues(ins, x, y)
      \/ ins[1] \in {"jmp", "jcc"}
      \/ ins = <<"break">> \/ ins = <<"continue">>
      \/ ins = <<"ret">> /\ x = -2
      \/ ins = <<"stop">>
  BY DEF Flows, Straight
<1> HIDE DEF ins, x, y
<1>o. /\ <<"break">>[1] = "break" /\ <<"continue">>[1] = "continue"
      /\ <<"stop">>[1] = "stop" /\ <<"ret">>[1] = "ret"
  OBVIOUS
<1>2. ASSUME ins[1] = "push"
      PROVE  \/ ins[2] \in Registers /\ x >= 0 /\ y \in 0 .. x + 1
             \/ ins[2] = "rbp" /\ x = -3 /\ y = -4
  BY <1>1, <1>2, <1>o DEF Plain, Moves, Prologues, Epilogues
<1>3. ASSUME ins[1] = "push_int"
      PROVE  ins[2] \in Int /\ x >= 0 /\ y \in 0 .. x + 1
  BY <1>1, <1>3, <1>o DEF Plain, Moves, Prologues, Epilogues
<1>4. ASSUME ins[1] = "pop"
      PROVE  \/ ins[2] \in Data /\ x >= 1 /\ y \in 0 .. x - 1
             \/ ins[2] = "rbp" /\ x = -1 /\ y = -2
  BY <1>1, <1>4, <1>o DEF Plain, Moves, Prologues, Epilogues
<1>5. ASSUME ins[1] = "mov"
      PROVE  \/ ins[2] \in Registers /\ ins[3] \in Data /\ x >= 0 /\ y \in 0 .. x
             \/ ins[2] = "rsp" /\ ins[3] = "rbp" /\ x = -4 /\ y = -5
             \/ ins[2] = "rbp" /\ ins[3] = "rsp" /\ x >= 0 /\ y = -1
  BY <1>1, <1>5, <1>o DEF Plain, Moves, Prologues, Epilogues
<1>6. ASSUME ins[1] = "add_int"
      PROVE  /\ ins[2] \in Int
             /\ \/ ins[3] \in Data /\ x >= 0 /\ y \in 0 .. x
                \/ ins[3] = "rsp" /\ x >= 0 /\ y >= 0 /\ 8 * y <= 8 * x - ins[2]
                \/ ins[3] = "rsp" /\ x = -5 /\ y = 0
  BY <1>1, <1>6, <1>o DEF Plain, Moves, Prologues, Epilogues
<1>7. ASSUME ins[1] = "spill"
      PROVE  ins[2] \in Nat /\ ins[2] + 8 <= 8 * x /\ y \in 0 .. x
  BY <1>1, <1>7, <1>o DEF Plain, Moves, Prologues, Epilogues
<1>8. ASSUME ins[1] = "ret" PROVE ins = <<"stop">> \/ x = -2
  BY <1>1, <1>8, <1>o DEF Plain, Moves, Prologues, Epilogues
<1> QED
  BY <1>2, <1>3, <1>4, <1>5, <1>6, <1>7, <1>8 DEF ins, x, y

PlainOps == {"lea_rip", "movsbl", "movl", "movq", "add", "sub", "and", "neg", "imul", "idiv",
             "cmp", "cmp_int", "set", "movzbl", "call", "mov_int", "lea", "reload", "store"}

\* The depths around an instruction that leaves the stack alone, and around a jump.
LEMMA PlainFlows ==
  ASSUME NEW c, NEW d, NEW i, Flows(c, d, i)
  PROVE  /\ c[i][1] \in PlainOps => Plain(c[i]) /\ d[i] >= 0 /\ d[i + 1] \in 0 .. d[i]
         /\ c[i][1] = "jmp" => Leads(c, d, i, c[i][2])
         /\ c[i][1] = "jcc" => Leads(c, d, i, c[i][3]) /\ d[i + 1] \in 0 .. d[i]
<1> DEFINE ins == c[i]
           x == d[i]
           y == d[i + 1]
<1>1. \/ Plain(ins) /\ x >= 0 /\ y \in 0 .. x
      \/ Moves(ins, x, y) \/ Prologues(ins, x, y) \/ Epilogues(ins, x, y)
      \/ ins[1] = "jmp" /\ Leads(c, d, i, ins[2])
      \/ ins[1] = "jcc" /\ Leads(c, d, i, ins[3]) /\ y \in 0 .. x
      \/ ins = <<"break">> \/ ins = <<"continue">>
      \/ ins = <<"ret">> \/ ins = <<"stop">>
  BY DEF Flows, Straight
<1> HIDE DEF ins, x, y
<1>o. /\ <<"break">>[1] = "break" /\ <<"continue">>[1] = "continue"
      /\ <<"stop">>[1] = "stop" /\ <<"ret">>[1] = "ret"
  OBVIOUS
<1>2. ASSUME ins[1] \in PlainOps PROVE Plain(ins) /\ x >= 0 /\ y \in 0 .. x
  BY <1>1, <1>2, <1>o DEF PlainOps, Moves, Prologues, Epilogues
<1>3. ASSUME ins[1] = "jmp" PROVE Leads(c, d, i, ins[2])
  BY <1>1, <1>3, <1>o DEF Plain, Moves, Prologues, Epilogues
<1>4. ASSUME ins[1] = "jcc" PROVE Leads(c, d, i, ins[3]) /\ y \in 0 .. x
  BY <1>1, <1>4, <1>o DEF Plain, Moves, Prologues, Epilogues
<1> QED
  BY <1>2, <1>3, <1>4 DEF ins, x, y

\* Registers and memory.
RegsOK(r) == r \in [Registers -> 0 .. Word - 1]
MemOK(m)  == m \in [0 .. Memory - 1 -> 0 .. Byte - 1]

\* A number that is written is found again, and nothing else is changed.
LEMMA PutFacts ==
  ASSUME NEW m, MemOK(m), NEW a \in Int, NEW n \in 0 .. 8, NEW w \in Int
  PROVE  /\ MemOK(Put(m, a, n, w)) /\ KeptBut(m, Put(m, a, n, w), a, n)
         /\ n = 8 /\ 0 <= a /\ a + 8 <= Memory => HasWord(Put(m, a, n, w), a, w)
<1> DEFINE digits == Digits(w)
           M == 0 .. Memory - 1
           v == [b \in M |-> IF b \in a .. a + n - 1 THEN digits[b - a + 1] ELSE m[b]]
<1>1. DOMAIN m = M /\ \A b \in M : m[b] \in 0 .. Byte - 1
  BY DEF MemOK
<1>2. Put(m, a, n, w) = v
  BY <1>1 DEF Put
<1>3. \A k \in 1 .. 8 : digits[k] \in 0 .. Byte - 1
  BY DigitsInRange DEF IsDigits
<1>4. Memory \in Nat
  BY MemoryAssumption, ByteCases
<1>5. \A k \in 1 .. 8 : digits[k] = Digits(w)[k]
  OBVIOUS
<1> HIDE DEF digits
<1>6. ASSUME NEW b \in M
      PROVE  (IF b \in a .. a + n - 1 THEN digits[b - a + 1] ELSE m[b]) \in 0 .. Byte - 1
  <2>1. CASE b \in a .. a + n - 1
    <3>1. b - a + 1 \in 1 .. 8
      BY <1>4, <2>1
    <3> QED
      BY <1>3, <2>1, <3>1
  <2>2. CASE b \notin a .. a + n - 1
    BY <1>1, <2>2
  <2> QED
    BY <2>1, <2>2
<1>7. MemOK(v)
  BY <1>6 DEF MemOK
<1>8. KeptBut(m, v, a, n)
  BY DEF KeptBut
<1>9. ASSUME n = 8, 0 <= a, a + 8 <= Memory PROVE HasWord(v, a, w)
  <2> SUFFICES ASSUME NEW k \in 1 .. 8 PROVE v[a + k - 1] = Digits(w)[k]
    BY DEF HasWord
  <2>1. /\ a + k - 1 \in M /\ a + k - 1 \in a .. a + n - 1
        /\ (a + k - 1) - a + 1 = k
    BY <1>4, <1>9
  <2> QED
    BY <1>5, <2>1
<1> QED
  BY <1>2, <1>7, <1>8, <1>9

\* What is read is a word.
LEMMA BytesFacts ==
  ASSUME MemOK(mem), NEW a \in Int, NEW n \in 0 .. 8, 0 <= a, a + n <= Memory
  PROVE  /\ Bytes(a, n) \in 0 .. Word - 1
         /\ \A w \in 0 .. Word - 1 : n = 8 /\ HasWord(mem, a, w) => Bytes(a, n) = w
<1> DEFINE s == [i \in 1 .. 8 |-> IF i <= n THEN mem[a + i - 1] ELSE 0]
<1>1. Bytes(a, n) = Number(s)
  BY DEF Bytes
<1>2. Memory \in Nat
  BY MemoryAssumption, ByteCases
<1>3. ASSUME NEW i \in 1 .. 8 PROVE s[i] \in 0 .. Byte - 1
  <2>1. CASE i <= n
    <3>1. a + i - 1 \in 0 .. Memory - 1
      BY <1>2, <2>1
    <3> QED
      BY <2>1, <3>1 DEF MemOK
  <2>2. CASE ~ (i <= n)
    BY <2>2, ZeroByte
  <2> QED
    BY <2>1, <2>2
<1>4. ASSUME NEW w \in 0 .. Word - 1, n = 8, HasWord(mem, a, w)
      PROVE  \A k \in 1 .. 8 : s[k] = Digits(w)[k]
  BY <1>4 DEF HasWord
<1> HIDE DEF s
<1>5. Number(s) \in 0 .. Word - 1
  BY <1>3, NumberInRange DEF IsDigits
<1>6. \A w \in 0 .. Word - 1 : n = 8 /\ HasWord(mem, a, w) => Number(s) = w
  BY <1>4, DigitsOfWord
<1> QED
  BY <1>1, <1>5, <1>6

\* The machine's inductive invariant: the stack is as the depth of the next
\* instruction says.
D == DepthOf(prog)
MachineInv ==
  /\ \E p \in Sources : prog = Assembled(p)
  /\ RegsOK(regs) /\ MemOK(mem)
  /\ IF Refused THEN pc = REFUSED
     ELSE pc \in {EXIT, FAULT} \/ Stack(prog, D, pc, regs, mem, frames)

\* What is known where an instruction is executed.
LEMMA WhileRunning ==
  ASSUME MachineInv, Running
  PROVE  /\ Ready(prog, D) /\ ~ Refused
         /\ Stack(prog, D, pc, regs, mem, frames)
         /\ pc \in 1 .. Len(prog.text) /\ Flows(prog.text, D, pc) /\ instr # <<"stop">>
         /\ D[pc] \in Int /\ D[pc + 1] \in Int /\ pc + 1 \in 1 .. Len(prog.text) + 1
         /\ Len(prog.text) \in Nat /\ Len(prog.text) < Word
         /\ Calls(prog, D, frames)
<1>1. PICK p \in Sources : prog = Assembled(p)
  BY DEF MachineInv
<1>2. IsSeq(prog.text)
  BY <1>1, TextIsSeq
<1>3. DOMAIN prog.text = 1 .. Len(prog.text) /\ Len(prog.text) \in Nat
  BY <1>2, SeqFacts
<1>4. pc \in 1 .. Len(prog.text)
  BY <1>3 DEF Running
<1>5. pc \notin {EXIT, FAULT, REFUSED}
  BY <1>3, <1>4 DEF EXIT, FAULT, REFUSED
<1>6. ~ Refused /\ Stack(prog, D, pc, regs, mem, frames)
  BY <1>5 DEF MachineInv
<1>7. Ready(prog, D)
  BY <1>1, <1>6, ProgramReady DEF Refused, D
<1>8. /\ Flows(prog.text, D, pc) /\ D[pc] \in Int /\ D[pc + 1] \in Int
  BY <1>4, <1>7, DepthFacts
<1>9. instr # <<"stop">> /\ Len(prog.text) < Word
  BY <1>4, <1>7 DEF Ready, instr
<1>10. Calls(prog, D, frames)
  BY <1>6 DEF Stack
<1> QED
  BY <1>3, <1>4, <1>6, <1>7, <1>8, <1>9, <1>10

\* With 0 or more operands on the stack.
LEMMA WhileInside ==
  ASSUME MachineInv, Running, D[pc] >= 0
  PROVE  LET n == Len(frames)
         IN /\ n \in 1 .. n /\ prog.limit \in Nat /\ regs.rsp \in Int /\ Floor(prog, frames, n) \in Int
            /\ regs.rbp = FrameAt(frames, n) /\ prog.limit <= regs.rsp
            /\ regs.rsp + 8 * D[pc] <= Floor(prog, frames, n)
            /\ regs.rsp <= Floor(prog, frames, n)
<1>1. /\ Ready(prog, D) /\ Stack(prog, D, pc, regs, mem, frames) /\ D[pc] \in Int
      /\ Calls(prog, D, frames)
  BY WhileRunning
<1> DEFINE n == Len(frames)
<1>2. regs.rsp \in Int /\ Phase(prog, D[pc], pc, regs, frames)
  BY <1>1 DEF Stack
<1>3. /\ regs.rbp = FrameAt(frames, n) /\ prog.limit <= regs.rsp
      /\ regs.rsp + 8 * D[pc] <= Floor(prog, frames, n)
  BY <1>1, <1>2 DEF Phase
<1>4. n \in 1 .. n /\ prog.limit \in Nat /\ Floor(prog, frames, n) \in Int
  BY <1>1, CallFacts
<1> HIDE DEF n
<1>5. regs.rsp <= Floor(prog, frames, n)
  <2>1. 8 * D[pc] >= 0 /\ 8 * D[pc] \in Int
    BY <1>1
  <2> QED
    BY <1>2, <1>3, <1>4, <2>1
<1> QED
  BY <1>2, <1>3, <1>4, <1>5 DEF n

\* A step inside of a function.
LEMMA InsideStep ==
  ASSUME MachineInv, Running, D[pc] >= 0, prog' = prog, frames' = frames,
         pc' \in 1 .. Len(prog.text) + 1, D[pc'] >= 0,
         RegsOK(regs'), regs'.rbp = regs.rbp, prog.limit <= regs'.rsp,
         regs'.rsp + 8 * D[pc'] <= regs.rsp + 8 * D[pc],
         MemOK(mem'), NEW a, NEW k, Harmless(frames, a, k), KeptBut(mem, mem', a, k)
  PROVE  MachineInv'
<1>1. /\ Ready(prog, D) /\ ~ Refused /\ Stack(prog, D, pc, regs, mem, frames)
  BY WhileRunning
<1>2. regs'.rsp \in Int
  BY ByteCases DEF RegsOK, Registers
<1>3. Stack(prog, D, pc', regs', mem', frames)
  BY <1>1, <1>2, StackInside
<1>4. /\ (\E p \in Sources : prog = Assembled(p))
  BY DEF MachineInv
<1>5. Refused' = Refused /\ D' = D
  BY DEF Refused, D
<1>6. Stack(prog, D, pc, regs, mem, frames)'
  BY <1>3, <1>5
<1> QED
  BY <1>1, <1>4, <1>5, <1>6 DEF MachineInv

\* Nothing is written.
LEMMA NothingWritten ==
  ASSUME MachineInv, Running, mem' = mem
  PROVE  \E a, k : Harmless(frames, a, k) /\ KeptBut(mem, mem', a, k)
<1> DEFINE a == Floor(prog, frames, Len(frames))
<1>1. Ready(prog, D) /\ Calls(prog, D, frames)
  BY WhileRunning
<1>2. a \in Int
  BY <1>1, CallFacts
<1>3. a + 0 <= Floor(prog, frames, Len(frames)) /\ 0 \in Nat
  BY <1>2
<1>4. Harmless(frames, a, 0)
  BY <1>1, <1>2, <1>3, BelowHarmless
<1>5. KeptBut(mem, mem', a, 0)
  BY DEF KeptBut
<1> QED
  BY <1>4, <1>5

\* Only data registers are changed, and the next instruction follows.
LEMMA DataStep ==
  ASSUME MachineInv, Running, D[pc] >= 0, D[pc + 1] \in 0 .. D[pc],
         pc' = pc + 1, prog' = prog, frames' = frames, mem' = mem,
         RegsOK(regs'), regs'.rbp = regs.rbp, regs'.rsp = regs.rsp
  PROVE  MachineInv'
<1>1. /\ pc + 1 \in 1 .. Len(prog.text) + 1 /\ D[pc] \in Int
  BY WhileRunning
<1>2. prog.limit <= regs.rsp /\ regs.rsp \in Int
  BY WhileInside
<1>3. PICK a, k : Harmless(frames, a, k) /\ KeptBut(mem, mem', a, k)
  BY NothingWritten
<1>4. regs'.rsp + 8 * D[pc'] <= regs.rsp + 8 * D[pc] /\ D[pc'] >= 0
  BY <1>1, <1>2
<1>5. MemOK(mem')
  BY DEF MachineInv
<1> QED
  BY <1>1, <1>2, <1>3, <1>4, <1>5, InsideStep

\* A register is set.
LEMMA SetRegister ==
  ASSUME RegsOK(regs), NEW r \in Registers, NEW w \in 0 .. Word - 1, Set(r, w)
  PROVE  /\ RegsOK(regs') /\ regs'[r] = w /\ \A q \in Registers \ {r} : regs'[q] = regs[q]
         /\ r \in Data => regs'.rbp = regs.rbp /\ regs'.rsp = regs.rsp
  BY DEF RegsOK, Set, Registers, Data

\* What an instruction may have of the memory.
LEMMA ReachesFacts ==
  ASSUME Reaches
  PROVE  /\ instr[1] \in {"push", "push_int", "call"} =>
              0 <= regs.rsp - 8 /\ prog.limit <= regs.rsp - 8
         /\ instr[1] \in {"pop", "ret"} => 0 <= regs.rsp /\ regs.rsp + 8 <= Memory
         /\ instr[1] = "spill" =>
              0 <= regs.rsp + instr[2] /\ regs.rsp + instr[2] + 8 <= Memory
         /\ instr[1] = "reload" =>
              0 <= regs.rbp + instr[2] /\ regs.rbp + instr[2] + 8 <= Memory
         /\ instr[1] = "store" => 0 <= regs.rax /\ regs.rax + instr[2] <= Memory
         /\ instr[1] \in {"movsbl", "movl", "movq"} =>
              /\ 0 <= Access[1] /\ Access[1] + Access[2] <= Memory
              /\ Access[1] = regs.rax /\ Access[2] \in {1, 4, 8}
         /\ instr[1] = "add_int" /\ instr[3] = "rsp" =>
              prog.limit <= regs.rsp + instr[2] /\ regs.rsp + instr[2] <= Memory
<1>1. /\ Access[1] >= 0 /\ Access[1] + Access[2] <= Memory
      /\ prog.limit <= Top /\ Top <= Memory
  BY DEF Reaches
<1>2. ASSUME instr[1] \in {"push", "push_int", "call"}
      PROVE  0 <= regs.rsp - 8 /\ prog.limit <= regs.rsp - 8
  <2>1. Access[1] = regs.rsp - 8 /\ Top = regs.rsp - 8
    BY <1>2 DEF Access, Top
  <2> QED
    BY <1>1, <2>1
<1>3. ASSUME instr[1] \in {"pop", "ret"} PROVE 0 <= regs.rsp /\ regs.rsp + 8 <= Memory
  BY <1>1, <1>3 DEF Access
<1>4. ASSUME instr[1] = "spill"
      PROVE  0 <= regs.rsp + instr[2] /\ regs.rsp + instr[2] + 8 <= Memory
  BY <1>1, <1>4 DEF Access
<1>5. ASSUME instr[1] = "reload"
      PROVE  0 <= regs.rbp + instr[2] /\ regs.rbp + instr[2] + 8 <= Memory
  BY <1>1, <1>5 DEF Access
<1>6. ASSUME instr[1] = "store" PROVE 0 <= regs.rax /\ regs.rax + instr[2] <= Memory
  BY <1>1, <1>6 DEF Access
<1>7. ASSUME instr[1] \in {"movsbl", "movl", "movq"}
      PROVE  Access[1] = regs.rax /\ Access[2] \in {1, 4, 8}
  BY <1>7 DEF Access
<1>8. ASSUME instr[1] = "add_int", instr[3] = "rsp"
      PROVE  prog.limit <= regs.rsp + instr[2] /\ regs.rsp + instr[2] <= Memory
  <2>1. Top = regs.rsp + instr[2]
    BY <1>8 DEF Top
  <2> QED
    BY <1>1, <2>1
<1> QED
  BY <1>1, <1>2, <1>3, <1>4, <1>5, <1>6, <1>7, <1>8

\* The values of the registers, and the numbers they are compared with.
LEMMA Ranges ==
  ASSUME MachineInv
  PROVE  /\ RegsOK(regs) /\ MemOK(mem) /\ \A r \in Registers : regs[r] \in 0 .. Word - 1
         /\ regs.rsp \in Int /\ regs.rbp \in Int /\ regs.rax \in Int /\ regs.rcx \in Int
         /\ regs.rdx \in Int
         /\ Memory \in Nat /\ Memory < Word /\ Word \in Nat
<1>1. RegsOK(regs) /\ MemOK(mem)
  BY DEF MachineInv
<1>2. Word \in Nat
  BY ByteCases
<1>3. \A r \in Registers : regs[r] \in 0 .. Word - 1 /\ regs[r] \in Int
  BY <1>1, <1>2 DEF RegsOK
<1>4. Memory \in Nat /\ Memory < Word
  BY <1>2, MemoryAssumption
<1> QED
  BY <1>1, <1>2, <1>3, <1>4 DEF Registers

\* An operand is pushed, or the frame pointer of the caller.
LEMMA PushStep ==
  ASSUME MachineInv, Push
  PROVE  MachineInv'
<1> DEFINE w == IF instr[1] = "push" THEN regs[instr[2]] ELSE Wrap(instr[2])
           a == regs.rsp - 8
           n == Len(frames)
<1>1. /\ Running /\ instr[1] \in {"push", "push_int"} /\ Reaches
      /\ mem' = Put(mem, a, 8, w) /\ Set("rsp", a)
      /\ pc' = pc + 1 /\ prog' = prog /\ frames' = frames
  BY DEF Push, In, Skip
<1>2. /\ Ready(prog, D) /\ ~ Refused /\ Stack(prog, D, pc, regs, mem, frames)
      /\ Flows(prog.text, D, pc) /\ instr = prog.text[pc] /\ D[pc] \in Int /\ D[pc + 1] \in Int
      /\ pc + 1 \in 1 .. Len(prog.text) + 1 /\ Calls(prog, D, frames)
  BY <1>1, WhileRunning DEF instr
<1>3. \/ /\ (instr[1] = "push" /\ instr[2] \in Registers)
            \/ (instr[1] = "push_int" /\ instr[2] \in Int)
         /\ D[pc] >= 0 /\ D[pc + 1] \in 0 .. D[pc] + 1
      \/ instr[1] = "push" /\ instr[2] = "rbp" /\ D[pc] = -3 /\ D[pc + 1] = -4
  <2>1. CASE instr[1] = "push"
    BY <1>2, <2>1, StackFlows
  <2>2. CASE instr[1] = "push_int"
    BY <1>2, <2>2, StackFlows
  <2> QED
    BY <1>1, <2>1, <2>2
<1>4. w \in 0 .. Word - 1
  <2>1. CASE instr[1] = "push"
    <3>1. "rbp" \in Registers
      BY DEF Registers
    <3>2. instr[2] \in Registers
      BY <1>3, <2>1, <3>1
    <3>3. w = regs[instr[2]]
      BY <2>1
    <3> QED
      BY <3>2, <3>3, Ranges
  <2>2. CASE instr[1] # "push"
    <3>1. instr[2] \in Int /\ w = Wrap(instr[2])
      BY <1>3, <2>2
    <3> QED
      BY <3>1, WrapInRange
  <2> QED
    BY <2>1, <2>2
<1>5. 0 <= a /\ prog.limit <= a /\ a \in Int
  BY <1>1, ReachesFacts, Ranges
<1>w. w \in Int
  BY <1>4, Ranges
<1> HIDE DEF w
<1>6. MemOK(mem') /\ KeptBut(mem, mem', a, 8)
  <2>1. 8 \in 0 .. 8
    OBVIOUS
  <2> QED
    BY <1>1, <1>5, <1>w, <2>1, Ranges, PutFacts
<1>7. a + 8 = regs.rsp
  BY Ranges
<1>8. CASE D[pc] >= 0
  <2>1. /\ n \in 1 .. n /\ regs.rsp <= Floor(prog, frames, n) /\ prog.limit <= regs.rsp
        /\ Floor(prog, frames, n) \in Int
    BY <1>1, <1>8, WhileInside
  <2>2. a \in 0 .. Word - 1
    <3>1. frames[n].rsp <= Memory /\ Floor(prog, frames, n) <= frames[n].rsp - 16
          /\ frames[n].rsp \in Int
      BY <1>2, <2>1, CallFacts
    <3> HIDE DEF n
    <3> QED
      BY <1>5, <2>1, <3>1, Ranges
  <2>3. RegsOK(regs') /\ regs'.rsp = a /\ regs'.rbp = regs.rbp
    BY <1>1, <2>2, Ranges, SetRegister DEF Registers
  <2>4. Harmless(frames, a, 8)
    <3>1. a + 8 <= Floor(prog, frames, Len(frames)) /\ 8 \in Nat
      BY <1>7, <2>1
    <3> QED
      BY <1>2, <1>5, <3>1, BelowHarmless
  <2>5. D[pc'] >= 0 /\ regs'.rsp + 8 * D[pc'] <= regs.rsp + 8 * D[pc]
    <3> DEFINE x == D[pc]
               y == D[pc + 1]
               q == regs.rsp
    <3>1. x \in Int /\ y \in Int /\ q \in Int
      BY <1>2, Ranges
    <3>2. y \in 0 .. x + 1 /\ D[pc'] = y /\ regs'.rsp = q - 8
      BY <1>1, <1>3, <1>8, <2>3
    <3> HIDE DEF x, y, q
    <3>3. (q - 8) + 8 * y <= q + 8 * x /\ y >= 0
      BY <3>1, <3>2
    <3> QED
      BY <3>2, <3>3 DEF x, q
  <2> HIDE DEF a
  <2> QED
    BY <1>1, <1>2, <1>5, <1>6, <1>8, <2>3, <2>4, <2>5, InsideStep
<1>9. CASE D[pc] = -3
  <2>1. instr[1] = "push" /\ instr[2] = "rbp" /\ D[pc + 1] = -4
    BY <1>3, <1>9
  <2>2. w = regs.rbp
    BY <2>1 DEF w
  <2>3. a \in 0 .. Word - 1
    <3>1. regs.rsp \in 0 .. Word - 1
      BY Ranges DEF Registers
    <3> QED
      BY <1>5, <3>1, Ranges
  <2>4. RegsOK(regs') /\ regs'.rsp = a /\ regs'.rbp = regs.rbp
    BY <1>1, <2>3, Ranges, SetRegister DEF Registers
  <2>5. HasWord(mem', a, regs.rbp)
    <3>1. regs.rsp <= Memory
      <4>1. Phase(prog, -3, pc, regs, frames)
        BY <1>2, <1>9 DEF Stack
      <4>2. regs.rsp = frames[n].rsp - 8
        BY <4>1 DEF Phase
      <4>3. frames[n].rsp <= Memory /\ frames[n].rsp \in Int
        BY <1>2, CallFacts
      <4> HIDE DEF n
      <4> QED
        BY <4>2, <4>3, Ranges
    <3>2. a + 8 <= Memory /\ 8 \in 0 .. 8 /\ 8 = 8
      BY <1>7, <3>1
    <3> QED
      BY <1>1, <1>5, <1>w, <2>2, <3>2, Ranges, PutFacts
  <2>6. Stack(prog, D, pc + 1, regs', mem', frames)
    <3> HIDE DEF a
    <3>1. regs'.rbp = regs.rbp /\ regs'.rsp = regs.rsp - 8 /\ prog.limit <= regs'.rsp
          /\ KeptBut(mem, mem', regs'.rsp, 8) /\ HasWord(mem', regs'.rsp, regs.rbp)
      BY <1>5, <1>6, <2>4, <2>5 DEF a
    <3> QED
      BY <1>2, <1>9, <2>1, <3>1, StackPushed
  <2>7. Refused' = Refused /\ D' = D
    BY <1>1 DEF Refused, D
  <2>8. Stack(prog, D, pc, regs, mem, frames)'
    BY <1>1, <2>6, <2>7
  <2>9. \E p \in Sources : prog' = Assembled(p)
    BY <1>1 DEF MachineInv
  <2> QED
    BY <1>2, <1>6, <2>4, <2>7, <2>8, <2>9 DEF MachineInv
<1> QED
  BY <1>3, <1>8, <1>9

\* A step whose stack is as it should be.
LEMMA StackStep ==
  ASSUME MachineInv, ~ Refused, prog' = prog, RegsOK(regs'), MemOK(mem'),
         Stack(prog, D, pc', regs', mem', frames')
  PROVE  MachineInv'
<1>1. Refused' = Refused /\ D' = D
  BY DEF Refused, D
<1>2. Stack(prog, D, pc, regs, mem, frames)'
  BY <1>1
<1>3. \E p \in Sources : prog' = Assembled(p)
  BY DEF MachineInv
<1> QED
  BY <1>1, <1>2, <1>3 DEF MachineInv

\* The word that was pushed is popped, or the frame pointer of the caller.
LEMMA PopStep ==
  ASSUME MachineInv, Pop
  PROVE  MachineInv'
<1> DEFINE w == Bytes(regs.rsp, 8)
           a == regs.rsp + 8
           n == Len(frames)
<1>1. /\ Running /\ instr[1] = "pop" /\ Reaches
      /\ regs' = [regs EXCEPT !.rsp = @ + 8, ![instr[2]] = w]
      /\ pc' = pc + 1 /\ prog' = prog /\ frames' = frames /\ mem' = mem
  BY DEF Pop, In, Skip
<1>2. /\ Ready(prog, D) /\ ~ Refused /\ Stack(prog, D, pc, regs, mem, frames)
      /\ Flows(prog.text, D, pc) /\ instr = prog.text[pc] /\ D[pc] \in Int /\ D[pc + 1] \in Int
      /\ pc + 1 \in 1 .. Len(prog.text) + 1 /\ Calls(prog, D, frames)
  BY <1>1, WhileRunning DEF instr
<1>3. \/ instr[2] \in Data /\ D[pc] >= 1 /\ D[pc + 1] \in 0 .. D[pc] - 1
      \/ instr[2] = "rbp" /\ D[pc] = -1 /\ D[pc + 1] = -2
  BY <1>1, <1>2, StackFlows
<1>4. 0 <= regs.rsp /\ a <= Memory /\ regs.rsp \in Int
  BY <1>1, ReachesFacts, Ranges
<1>5. w \in 0 .. Word - 1 /\ a \in 0 .. Word - 1
  <2>1. 8 \in 0 .. 8
    OBVIOUS
  <2>2. w \in 0 .. Word - 1
    BY <1>4, <2>1, Ranges, BytesFacts
  <2> QED
    BY <1>4, <2>2, Ranges
<1>6. RegsOK(regs') /\ regs'[instr[2]] = w /\ regs'.rsp = a
      /\ (instr[2] \in Data => regs'.rbp = regs.rbp)
  <2>1. instr[2] \in Registers \ {"rsp"}
    BY <1>3 DEF Registers, Data
  <2> HIDE DEF w
  <2> QED
    BY <1>1, <1>5, <2>1, Ranges DEF RegsOK, Registers, Data
<1>m. MemOK(mem')
  BY <1>1, Ranges
<1>7. CASE D[pc] >= 1
  <2>1. D[pc + 1] \in 0 .. D[pc] - 1 /\ regs'.rbp = regs.rbp
    BY <1>3, <1>6, <1>7
  <2>2. prog.limit <= regs.rsp /\ D[pc] >= 0 /\ prog.limit \in Nat
    BY <1>1, <1>2, <1>7, WhileInside
  <2>3. prog.limit <= regs'.rsp
    BY <1>4, <1>6, <2>2
  <2>4. D[pc'] >= 0 /\ regs'.rsp + 8 * D[pc'] <= regs.rsp + 8 * D[pc]
    BY <1>1, <1>2, <1>4, <1>6, <2>1
  <2>5. PICK b, k : Harmless(frames, b, k) /\ KeptBut(mem, mem', b, k)
    BY <1>1, NothingWritten
  <2> QED
    BY <1>1, <1>2, <1>6, <1>m, <2>1, <2>2, <2>3, <2>4, <2>5, InsideStep
<1>8. CASE D[pc] = -1
  <2>1. instr[2] = "rbp" /\ D[pc + 1] = -2
    BY <1>3, <1>8
  <2>2. regs.rsp = FrameAt(frames, n) /\ HasWord(mem, FrameAt(frames, n), frames[n].rbp)
        /\ frames[n].rbp \in 0 .. Word - 1
    <3>1. Phase(prog, -1, pc, regs, frames) /\ Saved(-1, mem, frames)
      BY <1>2, <1>8 DEF Stack
    <3>2. n \in 1 .. n
      BY <1>2, CallFacts
    <3>3. frames[n].rbp \in 0 .. Word - 1
      BY <1>2, <3>2 DEF Calls
    <3>4. HasWord(mem, FrameAt(frames, n), frames[n].rbp)
      BY <3>1, <3>2 DEF Saved
    <3> QED
      BY <3>1, <3>3, <3>4 DEF Phase
  <2>3. w = frames[n].rbp
    <3>1. 8 \in 0 .. 8 /\ 8 = 8
      OBVIOUS
    <3> QED
      BY <1>4, <2>2, <3>1, Ranges, BytesFacts
  <2>4. regs'.rbp = frames[n].rbp
    BY <1>6, <2>1, <2>3
  <2>5. Stack(prog, D, pc + 1, regs', mem, frames)
    BY <1>2, <1>6, <1>8, <2>1, <2>4, StackPopped
  <2> QED
    BY <1>1, <1>2, <1>6, <1>m, <2>5, StackStep
<1> QED
  BY <1>3, <1>7, <1>8

\* A data register is set, the frame pointer in the prologue, or the stack is
\* given up in the epilogue.
LEMMA MoveStep ==
  ASSUME MachineInv, Move
  PROVE  MachineInv'
<1>1. /\ Running /\ instr[1] \in {"mov", "mov_int", "lea", "lea_rip"}
      /\ instr[1] = "lea_rip" => instr[2] \in DOMAIN prog.symbol
      /\ pc' = pc + 1 /\ prog' = prog /\ frames' = frames /\ mem' = mem
  BY DEF Move, In, Skip
<1>2. /\ Ready(prog, D) /\ ~ Refused /\ Stack(prog, D, pc, regs, mem, frames)
      /\ Flows(prog.text, D, pc) /\ instr = prog.text[pc] /\ D[pc] \in Int /\ D[pc + 1] \in Int
      /\ pc + 1 \in 1 .. Len(prog.text) + 1 /\ Calls(prog, D, frames)
  BY <1>1, WhileRunning DEF instr
<1>m. MemOK(mem') /\ mem' = mem
  BY <1>1, Ranges
<1>3. ASSUME NEW r \in Data, NEW w \in 0 .. Word - 1, Set(r, w),
             D[pc] >= 0, D[pc + 1] \in 0 .. D[pc]
      PROVE  MachineInv'
  <2>1. r \in Registers
    BY DEF Data
  <2>2. RegsOK(regs') /\ regs'.rbp = regs.rbp /\ regs'.rsp = regs.rsp
    BY <1>3, <2>1, Ranges, SetRegister
  <2> QED
    BY <1>1, <1>3, <2>2, DataStep
<1>4. CASE instr[1] = "mov"
  <2>1. Set(instr[3], regs[instr[2]])
    BY <1>4 DEF Move
  <2>2. \/ /\ instr[2] \in Registers /\ instr[3] \in Data
           /\ D[pc] >= 0 /\ D[pc + 1] \in 0 .. D[pc]
        \/ instr[2] = "rsp" /\ instr[3] = "rbp" /\ D[pc] = -4 /\ D[pc + 1] = -5
        \/ instr[2] = "rbp" /\ instr[3] = "rsp" /\ D[pc] >= 0 /\ D[pc + 1] = -1
    BY <1>2, <1>4, StackFlows
  <2>3. CASE instr[2] \in Registers /\ instr[3] \in Data /\ D[pc] >= 0 /\ D[pc + 1] \in 0 .. D[pc]
    BY <1>3, <2>1, <2>3, Ranges
  <2>4. CASE instr[2] = "rsp" /\ instr[3] = "rbp" /\ D[pc] = -4 /\ D[pc + 1] = -5
    <3>1. RegsOK(regs') /\ regs'.rbp = regs.rsp /\ regs'.rsp = regs.rsp
      BY <2>1, <2>4, Ranges, SetRegister DEF Registers
    <3>2. Stack(prog, D, pc + 1, regs', mem, frames)
      BY <1>2, <2>4, <3>1, StackFramed
    <3> QED
      BY <1>1, <1>2, <1>m, <3>1, <3>2, StackStep
  <2>5. CASE instr[2] = "rbp" /\ instr[3] = "rsp" /\ D[pc] >= 0 /\ D[pc + 1] = -1
    <3>1. RegsOK(regs') /\ regs'.rbp = regs.rbp /\ regs'.rsp = regs.rbp
      BY <2>1, <2>5, Ranges, SetRegister DEF Registers
    <3>2. Stack(prog, D, pc + 1, regs', mem, frames)
      BY <1>2, <2>5, <3>1, StackReset
    <3> QED
      BY <1>1, <1>2, <1>m, <3>1, <3>2, StackStep
  <2> QED
    BY <2>2, <2>3, <2>4, <2>5
<1>5. CASE instr[1] \in {"mov_int", "lea", "lea_rip"}
  <2>1. Plain(instr) /\ D[pc] >= 0 /\ D[pc + 1] \in 0 .. D[pc]
    BY <1>2, <1>5, PlainFlows DEF PlainOps
  <2>2. CASE instr[1] = "mov_int"
    <3>1. instr[2] \in Int /\ instr[3] \in Data
      BY <2>1, <2>2 DEF Plain
    <3>2. Set(instr[3], Wrap(instr[2])) /\ Wrap(instr[2]) \in 0 .. Word - 1
      BY <2>2, <3>1, WrapInRange DEF Move
    <3> QED
      BY <1>3, <2>1, <3>1, <3>2
  <2>3. CASE instr[1] = "lea"
    <3>1. instr[2] \in Int
      BY <2>1, <2>3 DEF Plain
    <3>2. regs.rbp + instr[2] \in Int
      BY <3>1, Ranges
    <3>3. Set("rax", Wrap(regs.rbp + instr[2])) /\ Wrap(regs.rbp + instr[2]) \in 0 .. Word - 1
      BY <2>3, <3>2, WrapInRange DEF Move
    <3> QED
      BY <1>3, <2>1, <3>3, SomeRegisters
  <2>4. CASE instr[1] = "lea_rip"
    <3>1. instr[2] \in DOMAIN prog.symbol
      BY <1>1, <2>4
    <3>2. prog.symbol[instr[2]] \in 0 .. Word - 1
      <4>1. PICK p \in Sources : prog = Assembled(p)
        BY DEF MachineInv
      <4> QED
        BY <3>1, <4>1, DataOfText
    <3>3. Set("rax", prog.symbol[instr[2]])
      BY <2>4 DEF Move
    <3> QED
      BY <1>3, <2>1, <3>2, <3>3, SomeRegisters
  <2> QED
    BY <1>5, <2>2, <2>3, <2>4
<1> QED
  BY <1>1, <1>4, <1>5

\* A number is read into a data register.
LEMMA LoadStep ==
  ASSUME MachineInv, Load
  PROVE  MachineInv'
<1>1. /\ Running /\ instr[1] \in {"movsbl", "movl", "movq", "reload"} /\ Reaches
      /\ pc' = pc + 1 /\ prog' = prog /\ frames' = frames /\ mem' = mem
  BY DEF Load, In, Skip
<1>2. Plain(instr) /\ D[pc] >= 0 /\ D[pc + 1] \in 0 .. D[pc]
  BY <1>1, WhileRunning, PlainFlows DEF instr, PlainOps
<1>3. ASSUME NEW r \in Data, NEW w \in 0 .. Word - 1, Set(r, w)
      PROVE  MachineInv'
  <2>1. r \in Registers
    BY DEF Data
  <2>2. RegsOK(regs') /\ regs'.rbp = regs.rbp /\ regs'.rsp = regs.rsp
    BY <1>3, <2>1, Ranges, SetRegister
  <2> QED
    BY <1>1, <1>2, <2>2, DataStep
<1>4. 0 <= Access[1] /\ Access[1] + Access[2] <= Memory /\ Access[1] \in Int /\ Access[2] \in 0 .. 8
  <2>1. CASE instr[1] = "reload"
    <3>1. Access = <<regs.rbp + instr[2], 8>>
      BY <2>1 DEF Access
    <3>2. instr[2] \in Int
      BY <1>2, <2>1 DEF Plain
    <3>3. 0 <= regs.rbp + instr[2] /\ regs.rbp + instr[2] + 8 <= Memory
      BY <1>1, <2>1, ReachesFacts
    <3> QED
      BY <3>1, <3>2, <3>3, Ranges
  <2>2. CASE instr[1] # "reload"
    <3>1. /\ 0 <= Access[1] /\ Access[1] + Access[2] <= Memory
          /\ Access[1] = regs.rax /\ Access[2] \in {1, 4, 8}
      BY <1>1, <2>2, ReachesFacts
    <3> QED
      BY <3>1, Ranges
  <2> QED
    BY <2>1, <2>2
<1>5. Bytes(Access[1], Access[2]) \in 0 .. Word - 1
  BY <1>4, Ranges, BytesFacts
<1> DEFINE w == Bytes(Access[1], Access[2])
<1>6. CASE instr[1] = "movsbl"
  <2>1. Set("rax", Signed(w, Byte) % Int32)
    BY <1>6 DEF Load
  <2>2. Signed(w, Byte) \in Int
    BY <1>5, SignedInt, ByteCases
  <2>3. Signed(w, Byte) % Int32 \in 0 .. Word - 1
    <3>1. Int32 \in Nat /\ Int32 > 1 /\ Int32 <= Word
      BY ByteCases DEF Word
    <3> QED
      BY <2>2, <3>1, ByteCases
  <2> QED
    BY <1>3, <2>1, <2>3, SomeRegisters
<1>7. CASE instr[1] \in {"movl", "movq"}
  <2>1. Set("rax", w)
    BY <1>7 DEF Load
  <2> QED
    BY <1>3, <1>5, <2>1, SomeRegisters
<1>8. CASE instr[1] = "reload"
  <2>1. Set("rcx", w)
    BY <1>8 DEF Load
  <2> QED
    BY <1>3, <1>5, <2>1, SomeRegisters
<1> QED
  BY <1>1, <1>6, <1>7, <1>8

\* A variable lies in the data of the program or in the frame of an active
\* function: what is stored in it meets no saved word.
LEMMA VariablesHarmless ==
  ASSUME MachineInv, Running, D[pc] >= 0, NEW v \in Variables, NEW a \in Int, NEW k \in Nat,
         v[1] <= a, a + k <= v[1] + v[2]
  PROVE  Harmless(frames, a, k)
<1> DEFINE n == Len(frames)
<1>1. /\ Ready(prog, D) /\ Calls(prog, D, frames) /\ D[pc] \in Int
  BY WhileRunning
<1>2. /\ n \in 1 .. n /\ prog.limit \in Nat /\ regs.rsp \in Int /\ Floor(prog, frames, n) \in Int
      /\ regs.rbp = FrameAt(frames, n) /\ prog.limit <= regs.rsp
      /\ regs.rsp <= Floor(prog, frames, n)
  BY WhileInside
<1>3. CASE v \in prog.extents
  <2>1. v[1] \in Nat /\ v[2] \in Nat /\ v[1] + v[2] <= prog.limit
    BY <1>1, <1>3 DEF Ready
  <2>2. a + k <= Floor(prog, frames, n)
    <3> HIDE DEF n
    <3> QED
      BY <1>2, <2>1
  <2> QED
    BY <1>1, <2>2, BelowHarmless
<1>4. CASE v \notin prog.extents
  <2>1. PICK i \in DOMAIN frames :
          \E x \in DOMAIN prog.slots[frames[i].fn] :
            v = <<Base(i) - prog.slots[frames[i].fn][x].offset,
                  SizeOf(prog.slots[frames[i].fn][x].typ)>>
    BY <1>4 DEF Variables
  <2>2. PICK x \in DOMAIN prog.slots[frames[i].fn] :
          v = <<Base(i) - prog.slots[frames[i].fn][x].offset,
                SizeOf(prog.slots[frames[i].fn][x].typ)>>
    BY <2>1
  <2> DEFINE h == frames[i].fn
             off == prog.slots[h][x].offset
             sz == SizeOf(prog.slots[h][x].typ)
  <2>3. i \in 1 .. n /\ n \in Nat
    BY <1>1, SeqFacts DEF Calls
  <2>4. h \in DOMAIN prog.entry /\ FrameAt(frames, i) \in Int /\ Floor(prog, frames, i) \in Int
    BY <1>1, <2>3, CallFacts
  <2>5. off \in Nat /\ sz \in Nat /\ sz <= off /\ off <= prog.frame[h] /\ prog.frame[h] \in Nat
    BY <1>1, <2>2, <2>4 DEF Ready
  <2>6. Base(i) = FrameAt(frames, i)
    <3>1. CASE i = n
      BY <1>2, <3>1 DEF Base
    <3>2. CASE i # n
      <4>1. i + 1 \in 1 .. n /\ i + 1 > 1 /\ (i + 1) - 1 = i
        BY <2>3, <3>2
      <4>2. frames[i + 1].rbp = FrameAt(frames, (i + 1) - 1)
        BY <1>1, <4>1 DEF Calls
      <4> QED
        BY <3>2, <4>1, <4>2 DEF Base
    <3> QED
      BY <3>1, <3>2
  <2>7. v[1] = FrameAt(frames, i) - off /\ v[2] = sz
    BY <2>2, <2>6
  <2>8. Floor(prog, frames, i) = FrameAt(frames, i) - prog.frame[h]
    BY DEF Floor
  <2>9. Floor(prog, frames, i) <= a /\ a + k <= FrameAt(frames, i)
    <3> HIDE DEF off, sz, h
    <3> QED
      BY <2>4, <2>5, <2>7, <2>8
  <2> QED
    BY <1>1, <2>3, <2>9, InFrameHarmless
<1> QED
  BY <1>3, <1>4

\* A value is stored in a variable, an argument in its place on the operand stack.
LEMMA StoreStep ==
  ASSUME MachineInv, Store, StoresInVariables
  PROVE  MachineInv'
<1> DEFINE a == Access[1]
           k == Access[2]
           w == IF instr[1] = "store" THEN regs[instr[3]] ELSE regs.rax
           n == Len(frames)
<1>1. /\ Running /\ instr[1] \in {"store", "spill"} /\ Reaches
      /\ mem' = Put(mem, a, k, w)
      /\ pc' = pc + 1 /\ prog' = prog /\ frames' = frames /\ regs' = regs
  BY DEF Store, In, Skip
<1>2. /\ Ready(prog, D) /\ Flows(prog.text, D, pc) /\ instr = prog.text[pc] /\ D[pc] \in Int
      /\ D[pc + 1] \in Int /\ pc + 1 \in 1 .. Len(prog.text) + 1 /\ Calls(prog, D, frames)
  BY <1>1, WhileRunning DEF instr
<1>3. ASSUME NEW b \in Int, NEW j \in 0 .. 8, NEW x \in Int, mem' = Put(mem, b, j, x),
             D[pc] >= 0, D[pc + 1] \in 0 .. D[pc], Harmless(frames, b, j)
      PROVE  MachineInv'
  <2>1. MemOK(mem') /\ KeptBut(mem, mem', b, j)
    BY <1>3, Ranges, PutFacts
  <2>2. prog.limit <= regs.rsp /\ regs.rsp \in Int
    BY <1>1, <1>3, WhileInside
  <2>3. RegsOK(regs') /\ regs'.rbp = regs.rbp /\ regs'.rsp = regs.rsp
    BY <1>1, Ranges
  <2>4. D[pc'] >= 0 /\ regs'.rsp + 8 * D[pc'] <= regs.rsp + 8 * D[pc]
    BY <1>1, <1>2, <1>3, <2>2, <2>3
  <2> QED
    BY <1>1, <1>2, <1>3, <2>1, <2>2, <2>3, <2>4, InsideStep
<1>4. CASE instr[1] = "store"
  <2>1. Plain(instr) /\ D[pc] >= 0 /\ D[pc + 1] \in 0 .. D[pc]
    BY <1>2, <1>4, PlainFlows DEF PlainOps
  <2>2. instr[2] \in {1, 4, 8} /\ instr[3] \in Registers
    BY <1>4, <2>1 DEF Plain
  <2>3. a = regs.rax /\ k = instr[2] /\ w = regs[instr[3]]
    BY <1>4 DEF Access
  <2>4. PICK v \in Variables : v[1] <= regs.rax /\ regs.rax + instr[2] <= v[1] + v[2]
    BY <1>1, <1>4 DEF StoresInVariables, In
  <2>5. regs.rax \in Int /\ instr[2] \in Nat /\ instr[2] \in 0 .. 8 /\ regs[instr[3]] \in Int
    <3>1. regs[instr[3]] \in 0 .. Word - 1
      BY <2>2, Ranges
    <3> QED
      BY <2>2, <3>1, Ranges
  <2>6. Harmless(frames, regs.rax, instr[2])
    BY <1>1, <2>1, <2>4, <2>5, VariablesHarmless
  <2>7. mem' = Put(mem, regs.rax, instr[2], regs[instr[3]])
    BY <1>1, <2>3
  <2> QED
    BY <1>3, <2>1, <2>5, <2>6, <2>7
<1>5. CASE instr[1] = "spill"
  <2>1. instr[2] \in Nat /\ instr[2] + 8 <= 8 * D[pc] /\ D[pc + 1] \in 0 .. D[pc]
    BY <1>2, <1>5, StackFlows
  <2>2. a = regs.rsp + instr[2] /\ k = 8 /\ w = regs.rax
    BY <1>5 DEF Access
  <2>3. D[pc] >= 0
    BY <1>2, <2>1
  <2>4. /\ n \in 1 .. n /\ Floor(prog, frames, n) \in Int /\ regs.rsp \in Int
        /\ regs.rsp + 8 * D[pc] <= Floor(prog, frames, n)
    BY <1>1, <2>3, WhileInside
  <2>5. (regs.rsp + instr[2]) + 8 <= Floor(prog, frames, n) /\ regs.rsp + instr[2] \in Int
    <3> HIDE DEF n
    <3>1. 8 * D[pc] \in Int
      BY <1>2
    <3> QED
      BY <2>1, <2>4, <3>1
  <2>6. Harmless(frames, regs.rsp + instr[2], 8)
    <3>1. 8 \in Nat
      OBVIOUS
    <3> QED
      BY <1>2, <2>5, <3>1, BelowHarmless
  <2>7. mem' = Put(mem, regs.rsp + instr[2], 8, regs.rax)
    BY <1>1, <2>2
  <2>8. 8 \in 0 .. 8 /\ regs.rax \in Int
    BY Ranges
  <2> QED
    BY <1>3, <2>1, <2>3, <2>5, <2>6, <2>7, <2>8
<1> QED
  BY <1>1, <1>4, <1>5

\* Arithmetic changes a data register, or takes room on the stack or gives it back.
LEMMA ArithStep ==
  ASSUME MachineInv, Arith
  PROVE  MachineInv'
<1>1. /\ Running /\ instr[1] \in {"add", "add_int", "sub", "and", "neg"} /\ Reaches
      /\ pc' = pc + 1 /\ prog' = prog /\ frames' = frames /\ mem' = mem
  BY DEF Arith, In, Skip
<1>2. /\ Ready(prog, D) /\ ~ Refused /\ Stack(prog, D, pc, regs, mem, frames)
      /\ Flows(prog.text, D, pc) /\ instr = prog.text[pc] /\ D[pc] \in Int /\ D[pc + 1] \in Int
      /\ pc + 1 \in 1 .. Len(prog.text) + 1 /\ Calls(prog, D, frames)
  BY <1>1, WhileRunning DEF instr
<1>m. MemOK(mem') /\ mem' = mem
  BY <1>1, Ranges
<1>3. ASSUME NEW r \in Data, NEW x \in Int, Set(r, Wrap(x)) \/ (Set(r, x) /\ x \in 0 .. Word - 1),
             D[pc] >= 0, D[pc + 1] \in 0 .. D[pc]
      PROVE  MachineInv'
  <2>1. r \in Registers
    BY DEF Data
  <2>2. PICK w \in 0 .. Word - 1 : Set(r, w)
    BY <1>3, WrapInRange
  <2>3. RegsOK(regs') /\ regs'.rbp = regs.rbp /\ regs'.rsp = regs.rsp
    BY <1>3, <2>1, <2>2, Ranges, SetRegister
  <2> QED
    BY <1>1, <1>3, <2>3, DataStep
<1>4. CASE instr[1] # "add_int"
  <2>1. Plain(instr) /\ D[pc] >= 0 /\ D[pc + 1] \in 0 .. D[pc]
    BY <1>1, <1>2, <1>4, PlainFlows DEF PlainOps
  <2>2. CASE instr[1] = "add"
    <3>1. Set("rax", Wrap(regs.rax + regs.rcx)) /\ regs.rax + regs.rcx \in Int
      BY <2>2, Ranges DEF Arith
    <3> QED
      BY <1>3, <2>1, <3>1, SomeRegisters
  <2>3. CASE instr[1] = "sub"
    <3>1. Set("rax", Wrap(regs.rax - regs.rcx)) /\ regs.rax - regs.rcx \in Int
      BY <2>3, Ranges DEF Arith
    <3> QED
      BY <1>3, <2>1, <3>1, SomeRegisters
  <2>4. CASE instr[1] = "neg"
    <3>1. Set("rax", Wrap(-regs.rax)) /\ -regs.rax \in Int
      BY <2>4, Ranges DEF Arith
    <3> QED
      BY <1>3, <2>1, <3>1, SomeRegisters
  <2>5. CASE instr[1] = "and"
    <3>1. And(regs.rax, regs.rcx) \in 0 .. Word - 1
      BY Ranges, AndInRange
    <3>2. Set("rax", And(regs.rax, regs.rcx))
      BY <2>5 DEF Arith
    <3>3. And(regs.rax, regs.rcx) \in Int
      BY <3>1, Ranges
    <3> QED
      BY <1>3, <2>1, <3>1, <3>2, <3>3, SomeRegisters
  <2> QED
    BY <1>1, <1>4, <2>2, <2>3, <2>4, <2>5
<1>5. CASE instr[1] = "add_int"
  <2>1. Set(instr[3], Wrap(regs[instr[3]] + instr[2]))
    BY <1>5 DEF Arith
  <2>2. /\ instr[2] \in Int
        /\ \/ instr[3] \in Data /\ D[pc] >= 0 /\ D[pc + 1] \in 0 .. D[pc]
           \/ /\ instr[3] = "rsp" /\ D[pc] >= 0 /\ D[pc + 1] >= 0
              /\ 8 * D[pc + 1] <= 8 * D[pc] - instr[2]
           \/ instr[3] = "rsp" /\ D[pc] = -5 /\ D[pc + 1] = 0
    BY <1>2, <1>5, StackFlows
  <2>3. CASE instr[3] \in Data /\ D[pc] >= 0 /\ D[pc + 1] \in 0 .. D[pc]
    <3>1. instr[3] \in Registers
      BY <2>3 DEF Data
    <3>2. regs[instr[3]] \in Int
      <4>1. regs[instr[3]] \in 0 .. Word - 1
        BY <3>1, Ranges
      <4> QED
        BY <4>1, Ranges
    <3>3. regs[instr[3]] + instr[2] \in Int
      BY <2>2, <3>2
    <3> QED
      BY <1>3, <2>1, <2>3, <3>3
  <2>4. ASSUME instr[3] = "rsp"
        PROVE  /\ RegsOK(regs') /\ regs'.rbp = regs.rbp /\ regs'.rsp = regs.rsp + instr[2]
               /\ prog.limit <= regs'.rsp /\ regs'.rsp \in Int
    <3> DEFINE w == regs.rsp + instr[2]
    <3>1. prog.limit <= w /\ w <= Memory
      BY <1>1, <1>5, <2>4, ReachesFacts
    <3>2. w \in Int /\ prog.limit \in Nat
      <4>1. prog.limit \in Nat
        BY <1>2 DEF Ready
      <4>2. instr[2] \in Int /\ regs.rsp \in Int
        BY <2>2, Ranges
      <4> QED
        BY <4>1, <4>2
    <3> HIDE DEF w
    <3>3. w \in 0 .. Word - 1
      BY <3>1, <3>2, Ranges
    <3>4. Set("rsp", w)
      <4>1. Wrap(w) = w
        BY <3>3, WrapSame
      <4> QED
        BY <2>1, <2>4, <4>1 DEF w
    <3>5. RegsOK(regs') /\ regs'.rbp = regs.rbp /\ regs'.rsp = w
      BY <3>3, <3>4, Ranges, SetRegister DEF Registers
    <3> QED
      BY <3>1, <3>2, <3>5 DEF w
  <2>5. CASE /\ instr[3] = "rsp" /\ D[pc] >= 0 /\ D[pc + 1] >= 0
             /\ 8 * D[pc + 1] <= 8 * D[pc] - instr[2]
    <3>1. D[pc'] >= 0 /\ regs'.rsp + 8 * D[pc'] <= regs.rsp + 8 * D[pc]
      <4> DEFINE x == D[pc]
                 y == D[pc + 1]
                 j == instr[2]
                 q == regs.rsp
      <4>1. x \in Int /\ y \in Int /\ j \in Int /\ q \in Int
        BY <1>2, <2>2, Ranges
      <4>2. 8 * y <= 8 * x - j /\ y >= 0 /\ D[pc'] = y /\ regs'.rsp = q + j
        BY <1>1, <2>4, <2>5
      <4> HIDE DEF x, y, j, q
      <4>3. (q + j) + 8 * y <= q + 8 * x
        BY <4>1, <4>2
      <4> QED
        BY <4>2, <4>3 DEF x, q
    <3>2. PICK b, k : Harmless(frames, b, k) /\ KeptBut(mem, mem', b, k)
      BY <1>1, NothingWritten
    <3> QED
      BY <1>1, <1>2, <1>m, <2>4, <2>5, <3>1, <3>2, InsideStep
  <2>6. CASE instr[3] = "rsp" /\ D[pc] = -5 /\ D[pc + 1] = 0
    <3>1. instr[2] = prog.text[pc][2]
      BY <1>2
    <3>2. Stack(prog, D, pc + 1, regs', mem, frames)
      BY <1>2, <2>4, <2>6, <3>1, StackReserved
    <3> QED
      BY <1>1, <1>2, <1>m, <2>4, <2>6, <3>2, StackStep
  <2> QED
    BY <2>2, <2>3, <2>5, <2>6
<1> QED
  BY <1>1, <1>4, <1>5

\* A product of integers is one.
LEMMA Products == \A i, j \in Int : i * j \in Int
  OBVIOUS

\* A word as a signed number.
LEMMA NumInt == \A w \in Int : Num(w) \in Int
<1>1. Word \in Int
  BY ByteCases
<1> TAKE w \in Int
<1>2. Signed(w, Word) \in Int
  BY <1>1 DEF Signed
<1> QED
  BY <1>2 DEF Num

\* The product has two words.
LEMMA MultiplyStep ==
  ASSUME MachineInv, Multiply
  PROVE  MachineInv'
<1> DEFINE x == Num(regs.rax) * Num(regs.rcx)
<1>1. /\ Running /\ instr[1] = "imul"
      /\ regs' = [regs EXCEPT !.rax = Wrap(x), !.rdx = Wrap(x \div Word)]
      /\ pc' = pc + 1 /\ prog' = prog /\ frames' = frames /\ mem' = mem
  BY DEF Multiply, In, Skip
<1>2. D[pc] >= 0 /\ D[pc + 1] \in 0 .. D[pc]
  BY <1>1, WhileRunning, PlainFlows DEF instr, PlainOps
<1>3. Num(regs.rax) \in Int /\ Num(regs.rcx) \in Int
  BY Ranges, NumInt
<1>4. x \in Int
  <2>1. \A i, j \in Int : i * j \in Int
    BY Products
  <2> QED
    BY <1>3, <2>1
<1> HIDE DEF x
<1>5. Wrap(x) \in 0 .. Word - 1 /\ Wrap(x \div Word) \in 0 .. Word - 1
  <2>1. x \div Word \in Int
    <3>1. Word \in Nat /\ Word > 0
      BY ByteCases
    <3> QED
      BY <1>4, <3>1
  <2> QED
    BY <1>4, <2>1, WrapInRange
<1>6. RegsOK(regs') /\ regs'.rbp = regs.rbp /\ regs'.rsp = regs.rsp
  BY <1>1, <1>5, Ranges DEF RegsOK, Registers
<1> QED
  BY <1>1, <1>2, <1>6, DataStep

\* Where there is a quotient it is a number.
LEMMA QuotientInt ==
  ASSUME MachineInv, Divides
  PROVE  Dividend \in Int /\ Quotient \in Int
<1> DEFINE d == Num(regs.rcx)
           x == Dividend
<1>1. Num(regs.rdx) \in Int /\ d \in Int
  BY Ranges, NumInt
<1>2. regs.rcx \in 0 .. Word - 1 /\ regs.rcx # 0 /\ Word \in Nat
  BY Ranges DEF Divides, Registers
<1>3. d # 0
  BY <1>2 DEF Num, Signed
<1>4. x \in Int
  <2>1. \A i, j \in Int : i * j \in Int
    BY Products
  <2>2. Num(regs.rdx) * Word \in Int
    BY <1>1, <1>2, <2>1
  <2> QED
    BY <2>2, Ranges DEF Dividend
<1>5. Quotient = LET q == (IF x < 0 THEN -x ELSE x) \div (IF d < 0 THEN -d ELSE d)
                 IN IF (x < 0) = (d < 0) THEN q ELSE -q
  BY DEF Quotient
<1> HIDE DEF d, x
<1> DEFINE i == IF x < 0 THEN -x ELSE x
           j == IF d < 0 THEN -d ELSE d
<1>6. i \in Int /\ j \in Int /\ j > 0
  BY <1>1, <1>3, <1>4
<1> HIDE DEF i, j
<1>7. i \div j \in Int
  BY <1>6
<1>8. Quotient \in Int
  BY <1>5, <1>7 DEF i, j
<1> QED
  BY <1>4, <1>8 DEF x

\* The quotient and the remainder.
LEMMA DivideStep ==
  ASSUME MachineInv, Divide
  PROVE  MachineInv'
<1> DEFINE x == Dividend - Quotient * Num(regs.rcx)
           q == Quotient
<1>1. /\ Running /\ instr[1] = "idiv" /\ Divides
      /\ regs' = [regs EXCEPT !.rax = Wrap(q), !.rdx = Wrap(x)]
      /\ pc' = pc + 1 /\ prog' = prog /\ frames' = frames /\ mem' = mem
  BY DEF Divide, In, Skip
<1>2. D[pc] >= 0 /\ D[pc + 1] \in 0 .. D[pc]
  BY <1>1, WhileRunning, PlainFlows DEF instr, PlainOps
<1>3. q \in Int /\ Dividend \in Int
  BY <1>1, QuotientInt
<1>4. x \in Int
  <2>1. \A i, j \in Int : i * j \in Int
    BY Products
  <2>2. Num(regs.rcx) \in Int
    BY Ranges, NumInt
  <2>3. q * Num(regs.rcx) \in Int
    BY <1>3, <2>1, <2>2
  <2> QED
    BY <1>3, <2>3
<1> HIDE DEF x, q
<1>5. Wrap(x) \in 0 .. Word - 1 /\ Wrap(q) \in 0 .. Word - 1
  BY <1>3, <1>4, WrapInRange
<1>6. RegsOK(regs') /\ regs'.rbp = regs.rbp /\ regs'.rsp = regs.rsp
  BY <1>1, <1>5, Ranges DEF RegsOK, Registers
<1> QED
  BY <1>1, <1>2, <1>6, DataStep

\* Two numbers are compared.
LEMMA CmpStep ==
  ASSUME MachineInv, Cmp
  PROVE  MachineInv'
<1>1. /\ Running /\ instr[1] \in {"cmp", "cmp_int"}
      /\ pc' = pc + 1 /\ prog' = prog /\ frames' = frames /\ mem' = mem /\ regs' = regs
  BY DEF Cmp, In, Skip
<1>2. D[pc] >= 0 /\ D[pc + 1] \in 0 .. D[pc]
  BY <1>1, WhileRunning, PlainFlows DEF instr, PlainOps
<1>3. RegsOK(regs') /\ regs'.rbp = regs.rbp /\ regs'.rsp = regs.rsp
  BY <1>1, Ranges
<1> QED
  BY <1>1, <1>2, <1>3, DataStep

\* The lowest byte is written, or the others are cleared.
LEMMA SetByteStep ==
  ASSUME MachineInv, SetByte
  PROVE  MachineInv'
<1> DEFINE byte == regs.rax % Byte
           bit == IF Holds(instr[2]) THEN 1 ELSE 0
<1>1. /\ Running /\ instr[1] \in {"set", "movzbl"}
      /\ Set("rax", regs.rax - byte + bit) \/ Set("rax", byte)
      /\ pc' = pc + 1 /\ prog' = prog /\ frames' = frames /\ mem' = mem
  BY DEF SetByte, In, Skip
<1>2. D[pc] >= 0 /\ D[pc + 1] \in 0 .. D[pc]
  BY <1>1, WhileRunning, PlainFlows DEF instr, PlainOps
<1>3. bit \in {0, 1} /\ regs.rax \in 0 .. Word - 1
  BY Ranges DEF Registers
<1> HIDE DEF bit
<1>4. regs.rax - byte + bit \in 0 .. Word - 1 /\ byte \in 0 .. Word - 1
  <2>1. \A v \in 0 .. Word - 1 : /\ v - (v % Byte) + bit \in 0 .. Word - 1
                                /\ v % Byte \in 0 .. Word - 1
    BY <1>3, ByteReplaced
  <2> QED
    BY <1>3, <2>1
<1> HIDE DEF byte
<1>5. PICK w \in 0 .. Word - 1 : Set("rax", w)
  BY <1>1, <1>4
<1>6. RegsOK(regs') /\ regs'.rbp = regs.rbp /\ regs'.rsp = regs.rsp
  BY <1>5, Ranges, SetRegister DEF Registers, Data
<1> QED
  BY <1>1, <1>2, <1>6, DataStep

\* A jump leads to an instruction that needs no more operands.
LEMMA JumpStep ==
  ASSUME MachineInv, Jump
  PROVE  MachineInv'
<1>1. /\ Running /\ instr[1] \in {"jmp", "jcc"}
      /\ prog' = prog /\ frames' = frames /\ mem' = mem /\ regs' = regs
  BY DEF Jump, In
<1>2. /\ Ready(prog, D) /\ Flows(prog.text, D, pc) /\ instr = prog.text[pc] /\ D[pc] \in Int
      /\ pc \in 1 .. Len(prog.text) /\ Len(prog.text) \in Nat
      /\ pc + 1 \in 1 .. Len(prog.text) + 1 /\ D[pc + 1] \in Int
  BY <1>1, WhileRunning DEF instr
<1>3. pc' \in 1 .. Len(prog.text) + 1 /\ D[pc'] \in 0 .. D[pc]
  <2>1. CASE instr[1] = "jmp"
    <3>1. Leads(prog.text, D, pc, instr[2])
      BY <1>2, <2>1, PlainFlows
    <3>2. pc' = pc + 1 + instr[2]
      BY <2>1 DEF Jump
    <3> QED
      BY <3>1, <3>2 DEF Leads
  <2>2. CASE instr[1] = "jcc"
    <3>1. Leads(prog.text, D, pc, instr[3]) /\ D[pc + 1] \in 0 .. D[pc]
      BY <1>2, <2>2, PlainFlows
    <3>2. pc' = IF Holds(instr[2]) THEN pc + 1 + instr[3] ELSE pc + 1
      BY <2>2 DEF Jump
    <3>3. CASE Holds(instr[2])
      BY <3>1, <3>2, <3>3 DEF Leads
    <3>4. CASE ~ Holds(instr[2])
      BY <1>2, <3>1, <3>2, <3>4
    <3> QED
      BY <3>3, <3>4
  <2> QED
    BY <1>1, <2>1, <2>2
<1>4. D[pc] >= 0 /\ D[pc'] \in Int /\ D[pc'] <= D[pc]
  BY <1>2, <1>3
<1>5. prog.limit <= regs.rsp /\ regs.rsp \in Int
  BY <1>1, <1>4, WhileInside
<1>6. RegsOK(regs') /\ regs'.rbp = regs.rbp /\ regs'.rsp = regs.rsp /\ MemOK(mem')
  BY <1>1, Ranges
<1>7. PICK b, k : Harmless(frames, b, k) /\ KeptBut(mem, mem', b, k)
  BY <1>1, NothingWritten
<1>8. D[pc'] >= 0 /\ regs'.rsp + 8 * D[pc'] <= regs.rsp + 8 * D[pc]
  BY <1>2, <1>3, <1>4, <1>5, <1>6
<1> QED
  BY <1>1, <1>2, <1>3, <1>4, <1>5, <1>6, <1>7, <1>8, InsideStep

\* The processor stops.
LEMMA FaultStep ==
  ASSUME MachineInv, Fault
  PROVE  MachineInv'
<1>1. /\ Running /\ pc' = FAULT
      /\ prog' = prog /\ regs' = regs /\ mem' = mem
  BY DEF Fault
<1>2. ~ Refused
  BY <1>1, WhileRunning
<1>3. Refused' = Refused
  BY <1>1 DEF Refused
<1>4. RegsOK(regs') /\ MemOK(mem')
  BY <1>1, Ranges
<1>5. \E p \in Sources : prog' = Assembled(p)
  BY <1>1 DEF MachineInv
<1> QED
  BY <1>1, <1>2, <1>3, <1>4, <1>5 DEF MachineInv

\* What a call finds, whether the function is the program's own or not.
LEMMA CallWrites ==
  ASSUME MachineInv, Running, instr[1] = "call", Reaches,
         mem' = Put(mem, regs.rsp - 8, 8, pc + 1)
  PROVE  LET a == regs.rsp - 8
         IN /\ D[pc] >= 0 /\ D[pc + 1] \in 0 .. D[pc]
            /\ a \in Nat /\ a \in 0 .. Word - 1 /\ prog.limit <= a /\ a + 8 <= Memory
            /\ MemOK(mem') /\ KeptBut(mem, mem', a, 8) /\ HasWord(mem', a, pc + 1)
            /\ Harmless(frames, a, 8)
<1> DEFINE a == regs.rsp - 8
           n == Len(frames)
<1>1. /\ Ready(prog, D) /\ D[pc] \in Int /\ Calls(prog, D, frames) /\ pc + 1 \in Int
      /\ D[pc] >= 0 /\ D[pc + 1] \in 0 .. D[pc]
  BY WhileRunning, PlainFlows DEF instr, PlainOps
<1>2. 0 <= a /\ prog.limit <= a /\ a \in Int /\ a + 8 = regs.rsp /\ regs.rsp \in Int
  BY ReachesFacts, Ranges
<1>3. /\ n \in 1 .. n /\ regs.rsp <= Floor(prog, frames, n) /\ Floor(prog, frames, n) \in Int
  BY <1>1, WhileInside
<1>4. frames[n].rsp <= Memory /\ Floor(prog, frames, n) <= frames[n].rsp - 16
      /\ frames[n].rsp \in Int
  BY <1>1, <1>3, CallFacts
<1> HIDE DEF n, a
<1>5. a + 8 <= Memory /\ a \in Nat /\ a \in 0 .. Word - 1
  BY <1>2, <1>3, <1>4, Ranges
<1>6. a + 8 <= Floor(prog, frames, Len(frames)) /\ 8 \in Nat
  BY <1>2, <1>3 DEF n
<1>7. Harmless(frames, a, 8)
  BY <1>1, <1>2, <1>6, BelowHarmless
<1>8. 8 \in 0 .. 8 /\ 8 = 8 /\ mem' = Put(mem, a, 8, pc + 1)
  BY DEF a
<1>9. MemOK(mem') /\ KeptBut(mem, mem', a, 8) /\ HasWord(mem', a, pc + 1)
  BY <1>1, <1>2, <1>5, <1>8, Ranges, PutFacts
<1> QED
  BY <1>1, <1>2, <1>5, <1>7, <1>9 DEF a

\* A function of the program is called.
LEMMA CallStep ==
  ASSUME MachineInv, Call
  PROVE  MachineInv'
<1> DEFINE a == regs.rsp - 8
<1>1. /\ Running /\ instr[1] = "call" /\ Reaches /\ instr[2] \in DOMAIN prog.entry
      /\ mem' = Put(mem, regs.rsp - 8, 8, pc + 1) /\ Set("rsp", a)
      /\ frames' = Append(frames, [ret |-> pc + 1, rsp |-> regs.rsp, rbp |-> regs.rbp,
                                   fn |-> instr[2]])
      /\ pc' = prog.entry[instr[2]] /\ prog' = prog
  BY DEF Call, In
<1>2. /\ D[pc] >= 0 /\ D[pc + 1] \in 0 .. D[pc] /\ a \in 0 .. Word - 1 /\ prog.limit <= a
      /\ MemOK(mem') /\ KeptBut(mem, mem', a, 8) /\ HasWord(mem', a, pc + 1)
  BY <1>1, CallWrites
<1>3. /\ Ready(prog, D) /\ ~ Refused /\ Stack(prog, D, pc, regs, mem, frames)
  BY <1>1, WhileRunning
<1>4. /\ RegsOK(regs') /\ regs'.rbp = regs.rbp /\ regs'.rsp = a /\ regs.rbp \in 0 .. Word - 1
  BY <1>1, <1>2, Ranges, SetRegister DEF Registers
<1>5. Stack(prog, D, pc', regs', mem', frames')
  <2>1. /\ regs'.rsp = regs.rsp - 8 /\ prog.limit <= regs'.rsp
        /\ KeptBut(mem, mem', regs'.rsp, 8) /\ HasWord(mem', regs'.rsp, pc + 1)
    BY <1>2, <1>4
  <2> QED
    BY <1>1, <1>2, <1>3, <1>4, <2>1, StackCalled
<1> QED
  BY <1>1, <1>2, <1>3, <1>4, <1>5, StackStep

\* The sums of integers are integers.
LEMMA SumsInt ==
  ASSUME NEW s, NEW n \in Nat, \A i \in 1 .. n : s[i] \in Int
  PROVE  PartialSum(s, n) \in Int
<1> DEFINE At(i) == PartialSum(s, i)
<1>1. At(0) = 0 /\ \A i \in Nat : At(i + 1) = At(i) + s[i + 1]
  BY PartialSumStep
<1> HIDE DEF At
<1> DEFINE S == {i \in Nat : i <= n => At(i) \in Int}
<1>2. 0 \in S
  BY <1>1
<1>3. ASSUME NEW i \in S PROVE i + 1 \in S
  <2> SUFFICES ASSUME i + 1 <= n PROVE At(i + 1) \in Int
    OBVIOUS
  <2>1. i \in Nat /\ At(i) \in Int /\ i + 1 \in 1 .. n
    OBVIOUS
  <2> QED
    BY <1>1, <2>1
<1>4. S = Nat
  BY <1>2, <1>3, SetInduction
<1>5. At(n) \in Int
  BY <1>4
<1> QED
  BY <1>5 DEF At

\* What an external function returns is a number, if it was called with numbers.
LEMMA AnswerInt ==
  ASSUME NEW n \in Nat, NEW args, args = [i \in 1 .. n |-> args[i]],
         \A i \in 1 .. n : args[i] \in Int
  PROVE  Answer(args) \in Int
<1> DEFINE s == [i \in DOMAIN args |-> i * args[i]]
<1>1. DOMAIN args = 1 .. n /\ Len(args) = n
  BY FunctionIsSeq
<1>2. ASSUME NEW i \in 1 .. n PROVE s[i] \in Int
  <2>1. s[i] = i * args[i] /\ i \in Int /\ args[i] \in Int
    BY <1>1
  <2> HIDE DEF s
  <2>2. i * args[i] \in Int
    BY <2>1, Products
  <2> QED
    BY <2>1, <2>2
<1>3. Answer(args) = PartialSum(s, n)
  BY <1>1 DEF Answer
<1> HIDE DEF s
<1> QED
  BY <1>2, <1>3, SumsInt

\* An external function is called: the registers it may use have other values
\* behind it, the stack and the frame pointer the same.
LEMMA CallExternalStep ==
  ASSUME MachineInv, CallExternal
  PROVE  MachineInv'
<1> DEFINE a == regs.rsp - 8
           h == instr[2]
           n == Externals[h]
           arg(i) == IF i <= 6 THEN regs[ArgRegs[i]] ELSE Bytes(regs.rsp + (i - 7) * 8, 4)
           args == [i \in 1 .. n |-> Signed(arg(i) % Int32, Int32)]
           v == Answer(args) % Int32
<1>1. /\ Running /\ instr[1] = "call" /\ Reaches /\ h \in DOMAIN Externals
      /\ mem' = Put(mem, regs.rsp - 8, 8, pc + 1)
      /\ regs' = [r \in DOMAIN regs |->
                    CASE r = "rax" -> v [] r \in {"rsp", "rbp"} -> regs[r] [] OTHER -> Junk]
      /\ frames' = frames /\ pc' = pc + 1 /\ prog' = prog
  BY DEF CallExternal, In, Skip
<1>2. /\ D[pc] >= 0 /\ D[pc + 1] \in 0 .. D[pc] /\ a \in Nat /\ prog.limit <= a
      /\ MemOK(mem') /\ KeptBut(mem, mem', a, 8) /\ Harmless(frames, a, 8)
  BY <1>1, CallWrites
<1>3. n \in Nat
  BY <1>1, ExternalsAssumption
<1>4. ASSUME NEW i \in 1 .. n PROVE arg(i) \in Int
  <2>1. CASE i <= 6
    <3>1. i \in 1 .. 6
      BY <1>3, <2>1
    <3>2. ArgRegs[i] \in Registers
      BY <3>1 DEF ArgRegs, Registers
    <3>3. regs[ArgRegs[i]] \in 0 .. Word - 1
      BY <3>2, Ranges
    <3> QED
      BY <2>1, <3>3, Ranges
  <2>2. CASE i > 6
    <3>1. n > 6
      BY <1>3, <2>2
    <3>2. OnStack(h) = 8 * (n - 6)
      BY <1>1, <3>1 DEF OnStack
    <3>3. Access = <<regs.rsp - 8, 8 + OnStack(h)>>
      BY <1>1 DEF Access
    <3>4. (regs.rsp - 8) + (8 + OnStack(h)) <= Memory
      BY <1>1, <3>3 DEF Reaches
    <3> DEFINE b == regs.rsp + (i - 7) * 8
               q == regs.rsp
    <3>5. q - 8 >= 0 /\ q \in Int
      BY <1>2, Ranges
    <3>6. i \in Int /\ (q - 8) + (8 + 8 * (n - 6)) <= Memory /\ b = q + (i - 7) * 8
          /\ i <= n
      BY <1>3, <3>2, <3>4
    <3> HIDE DEF b, q, n
    <3>7. 0 <= b /\ b + 4 <= Memory /\ b \in Int /\ 4 \in 0 .. 8
      BY <1>3, <2>2, <3>5, <3>6, Ranges
    <3>8. Bytes(b, 4) \in 0 .. Word - 1
      BY <3>7, Ranges, BytesFacts
    <3> QED
      BY <2>2, <3>8, Ranges DEF b
  <2> QED
    BY <1>3, <2>1, <2>2
<1> HIDE DEF arg, n
<1>5. /\ args = [i \in 1 .. n |-> args[i]] /\ \A i \in 1 .. n : args[i] \in Int
  <2>1. \A i \in 1 .. n : args[i] = Signed(arg(i) % Int32, Int32)
    OBVIOUS
  <2>2. \A i \in 1 .. n : arg(i) % Int32 \in Int
    BY <1>4, ByteCases
  <2>3. \A i \in 1 .. n : Signed(arg(i) % Int32, Int32) \in Int
    BY <2>2, SignedInt, ByteCases
  <2> HIDE DEF arg
  <2> QED
    BY <2>1, <2>3
<1> HIDE DEF args
<1>6. Answer(args) \in Int
  BY <1>3, <1>5, AnswerInt
<1>7. v \in 0 .. Word - 1 /\ Junk \in 0 .. Word - 1
  <2>1. Int32 \in Nat /\ Int32 > 1 /\ Int32 <= Word /\ Word \in Nat /\ Word > 255
    BY ByteCases DEF Word
  <2> QED
    BY <1>6, <2>1 DEF Junk
<1> HIDE DEF v
<1>8. /\ RegsOK(regs') /\ regs'.rbp = regs.rbp /\ regs'.rsp = regs.rsp
  <2>1. regs \in [Registers -> 0 .. Word - 1]
    BY Ranges DEF RegsOK
  <2> QED
    BY <1>1, <1>7, <2>1 DEF RegsOK, Registers
<1>9. /\ D[pc] \in Int /\ D[pc + 1] \in Int /\ pc + 1 \in 1 .. Len(prog.text) + 1
  BY <1>1, WhileRunning
<1>10. prog.limit <= regs.rsp /\ regs.rsp \in Int
  BY <1>1, <1>2, WhileInside
<1>11. D[pc'] >= 0 /\ regs'.rsp + 8 * D[pc'] <= regs.rsp + 8 * D[pc]
  BY <1>1, <1>2, <1>8, <1>9, <1>10
<1> HIDE DEF a
<1> QED
  BY <1>1, <1>2, <1>8, <1>9, <1>10, <1>11, InsideStep

\* The return address is on top of the stack, and the caller's frame is back.
LEMMA ReturnsRight ==
  ASSUME MachineInv, Return
  PROVE  LET n == Len(frames)
         IN /\ n \in Nat /\ n \in 1 .. n /\ frames[n].rsp \in 0 .. Word - 1
            /\ pc' = frames[n].ret /\ regs'.rsp = frames[n].rsp /\ regs'.rbp = frames[n].rbp
            /\ RegsOK(regs') /\ regs'.rsp = regs.rsp + 8 /\ regs'.rbp = regs.rbp /\ D[pc] = -2
<1> DEFINE n == Len(frames)
<1>1. /\ Running /\ instr[1] = "ret" /\ Reaches
      /\ pc' = Bytes(regs.rsp, 8) /\ Set("rsp", regs.rsp + 8)
  BY DEF Return, In
<1>2. /\ Ready(prog, D) /\ Stack(prog, D, pc, regs, mem, frames)
      /\ Flows(prog.text, D, pc) /\ instr = prog.text[pc] /\ instr # <<"stop">>
      /\ Calls(prog, D, frames)
  BY <1>1, WhileRunning DEF instr
<1>3. D[pc] = -2
  BY <1>1, <1>2, StackFlows
<1>4. /\ n \in Nat /\ n \in 1 .. n /\ prog.limit \in Nat
      /\ frames[n].rsp \in Int /\ prog.limit + 8 <= frames[n].rsp /\ frames[n].rsp <= Memory
  BY <1>2, CallFacts
<1>5. frames[n].ret \in 0 .. Word - 1
  BY <1>2, <1>4 DEF Calls
<1>6. regs.rbp = frames[n].rbp /\ regs.rsp = frames[n].rsp - 8
  BY <1>2, <1>3 DEF Stack, Phase
<1>7. HasWord(mem, regs.rsp, frames[n].ret)
  <2>1. Saved(-2, mem, frames)
    BY <1>2, <1>3 DEF Stack
  <2> QED
    BY <1>4, <1>6, <2>1 DEF Saved
<1> DEFINE s == frames[n].rsp
<1>8. s \in 0 .. Word - 1 /\ regs.rsp + 8 = s
  <2> HIDE DEF n, s
  <2>1. s \in Int /\ prog.limit + 8 <= s /\ s <= Memory /\ regs.rsp = s - 8
    BY <1>4, <1>6 DEF s
  <2> QED
    BY <1>4, <2>1, Ranges
<1>9. pc' = frames[n].ret
  <2>1. 0 <= regs.rsp /\ regs.rsp + 8 <= Memory /\ 8 \in 0 .. 8 /\ 8 = 8
    BY <1>1, ReachesFacts
  <2> QED
    BY <1>1, <1>5, <1>7, <2>1, Ranges, BytesFacts
<1>10. RegsOK(regs') /\ regs'.rsp = s /\ regs'.rbp = regs.rbp
  <2>1. Set("rsp", s)
    BY <1>1, <1>8
  <2> HIDE DEF s
  <2> QED
    BY <1>8, <2>1, Ranges, SetRegister DEF Registers
<1> QED
  BY <1>3, <1>4, <1>6, <1>8, <1>9, <1>10

\* A function returns: to its caller, or main to the end of the program.
LEMMA ReturnStep ==
  ASSUME MachineInv, Return
  PROVE  MachineInv'
<1> DEFINE n == Len(frames)
<1>1. /\ Running /\ prog' = prog /\ mem' = mem /\ frames' = Front(frames)
  BY DEF Return, In
<1>2. /\ n \in Nat /\ n \in 1 .. n /\ pc' = frames[n].ret
      /\ RegsOK(regs') /\ regs'.rsp = regs.rsp + 8 /\ regs'.rbp = regs.rbp /\ D[pc] = -2
  BY ReturnsRight
<1>3. /\ Ready(prog, D) /\ ~ Refused /\ Stack(prog, D, pc, regs, mem, frames)
      /\ Calls(prog, D, frames)
  BY <1>1, WhileRunning
<1>m. MemOK(mem')
  BY <1>1, Ranges
<1>4. CASE n = 1
  <2>1. pc' = EXIT
    BY <1>2, <1>3, <1>4 DEF Calls
  <2>2. Refused' = Refused
    BY <1>1 DEF Refused
  <2>3. \E p \in Sources : prog' = Assembled(p)
    BY <1>1 DEF MachineInv
  <2> QED
    BY <1>2, <1>3, <1>m, <2>1, <2>2, <2>3 DEF MachineInv
<1>5. CASE n > 1
  <2>1. Stack(prog, D, frames[n].ret, regs', mem, Front(frames))
    BY <1>2, <1>3, <1>5, StackReturned
  <2>2. Stack(prog, D, pc', regs', mem', frames')
    BY <1>1, <1>2, <2>1
  <2> QED
    BY <1>1, <1>2, <1>3, <1>m, <2>2, StackStep
<1>6. n = 1 \/ n > 1
  <2> HIDE DEF n
  <2> QED
    BY <1>2
<1> QED
  BY <1>4, <1>5, <1>6

\* Before the first instruction main was called, and has saved nothing.
LEMMA InitInv ==
  ASSUME Init
  PROVE  MachineInv
<1>1. PICK p \in Sources : prog = Assembled(p)
  BY DEF Init
<1>2. /\ pc = IF Refused THEN REFUSED ELSE prog.entry["main"]
      /\ regs = [r \in Registers |-> IF r = "rsp" THEN Memory - 8 ELSE 0]
      /\ mem = prog.data
      /\ frames = <<[ret |-> EXIT, rsp |-> Memory, rbp |-> 0, fn |-> "main"]>>
  BY DEF Init
<1>3. prog.limit \in Nat /\ prog.limit + 8 <= Memory /\ prog.data \in [0 .. Memory - 1 -> 0 .. Byte - 1]
  BY <1>1, DataOfText
<1>4. Memory \in Nat /\ Memory < Word /\ Word \in Nat /\ Word > 255
  BY MemoryAssumption, ByteCases
<1>5. RegsOK(regs) /\ MemOK(mem) /\ regs.rsp = Memory - 8 /\ regs.rbp = 0
  <2>1. Memory - 8 \in 0 .. Word - 1 /\ 0 \in 0 .. Word - 1
    BY <1>3, <1>4
  <2>2. RegsOK(regs)
    BY <1>2, <2>1 DEF RegsOK
  <2>3. regs.rsp = Memory - 8 /\ regs.rbp = 0
    BY <1>2 DEF Registers
  <2> QED
    BY <1>2, <1>3, <2>2, <2>3 DEF MemOK
<1>6. CASE Refused
  BY <1>1, <1>2, <1>5, <1>6 DEF MachineInv
<1>7. CASE ~ Refused
  <2> DEFINE f == frames
             q == pc
             d == D
  <2>1. Ready(prog, d)
    BY <1>1, <1>7, ProgramReady DEF Refused, D
  <2>2. "main" \in DOMAIN prog.entry /\ q = prog.entry["main"]
    BY <1>2, <1>7, <2>1 DEF Ready
  <2> HIDE DEF d, q
  <2>3. q \in 1 .. Len(prog.text) /\ d[q] = -3
    <3>1. /\ q \in Nat /\ q + 2 \in 1 .. Len(prog.text) /\ 1 <= q /\ d[q] = -3
      BY <2>1, <2>2 DEF Ready, TextDepths
    <3>2. Len(prog.text) \in Nat
      BY <2>1, DepthFacts
    <3> QED
      BY <3>1, <3>2
  <2>4. /\ IsSeq(f) /\ Len(f) = 1
        /\ f[1].ret = EXIT /\ f[1].rsp = Memory /\ f[1].rbp = 0 /\ f[1].fn = "main"
    <3> DEFINE x == [ret |-> EXIT, rsp |-> Memory, rbp |-> 0, fn |-> "main"]
    <3>1. x.ret = EXIT /\ x.rsp = Memory /\ x.rbp = 0 /\ x.fn = "main"
      OBVIOUS
    <3> HIDE DEF x
    <3>2. f = <<x>>
      BY <1>2 DEF x
    <3>3. IsSeq(<<x>>) /\ Len(<<x>>) = 1 /\ <<x>>[1] = x
      BY One
    <3> QED
      BY <3>1, <3>2, <3>3
  <2> HIDE DEF f
  <2>5. Calls(prog, d, f)
    <3> SUFFICES ASSUME NEW i \in 1 .. Len(f)
                 PROVE  /\ f[i].fn \in DOMAIN prog.entry
                        /\ f[i].rsp \in Int /\ prog.limit + 8 <= f[i].rsp /\ f[i].rsp <= Memory
                        /\ f[i].rbp \in 0 .. Word - 1 /\ f[i].ret \in 0 .. Word - 1
                        /\ \A j \in 1 .. i - 1 : f[i].rsp <= Floor(prog, f, j)
                        /\ i > 1 => /\ f[i].ret \in 1 .. Len(prog.text) /\ d[f[i].ret] >= 0
                                    /\ f[i].rbp = FrameAt(f, i - 1)
                                    /\ f[i].rsp + 8 * d[f[i].ret] <= Floor(prog, f, i - 1)
      BY <2>4 DEF Calls
    <3>1. i = 1
      BY <2>4
    <3>2. \A j \in 1 .. i - 1 : FALSE
      BY <3>1
    <3>3. 0 \in 0 .. Word - 1 /\ EXIT = 0
      BY <1>4 DEF EXIT
    <3> QED
      BY <1>3, <1>4, <2>2, <2>4, <3>1, <3>2, <3>3
  <2>6. Saved(d[q], mem, f)
    <3> SUFFICES ASSUME NEW i \in 1 .. Len(f) PROVE i = 1 /\ HasWord(mem, f[1].rsp - 8, 0)
      BY <2>3, <2>4 DEF Saved, EXIT
    <3>1. i = 1
      BY <2>4
    <3>2. ASSUME NEW k \in 1 .. 8 PROVE mem[(Memory - 8) + k - 1] = Digits(0)[k]
      <4> DEFINE b == (Memory - 8) + k - 1
      <4>1. b \in 0 .. Memory - 1 /\ ~ (b < prog.limit)
        BY <1>3, <1>4
      <4>2. prog.data = [c \in 0 .. Memory - 1 |->
                           IF c < prog.limit THEN FlattenSeq(CellsOf(p))[c + 1] ELSE 0]
        BY <1>1, DataFields
      <4>3. mem[b] = 0
        BY <1>2, <4>1, <4>2
      <4>4. Digits(0)[k] = 0
        <5>1. 0 % Byte = 0 /\ 0 \div Byte = 0
          BY ByteCases
        <5> QED
          BY <5>1 DEF Digits
      <4> QED
        BY <4>3, <4>4
    <3> QED
      BY <2>4, <3>1, <3>2 DEF HasWord
  <2>7. Phase(prog, d[q], q, regs, f)
    BY <1>5, <2>3, <2>4 DEF Phase
  <2>8. Entering(prog, d[q], q, f)
    BY <2>2, <2>3, <2>4 DEF Entering
  <2>9. regs.rsp \in Int
    BY <1>4, <1>5
  <2>10. Stack(prog, d, q, regs, mem, f)
    BY <2>3, <2>5, <2>6, <2>7, <2>8, <2>9 DEF Stack
  <2>11. Stack(prog, D, pc, regs, mem, frames)
    BY <2>10 DEF d, q, f
  <2> QED
    BY <1>1, <1>5, <1>7, <2>11 DEF MachineInv
<1> QED
  BY <1>6, <1>7

\* Every instruction keeps the invariant, if what is stored through an lvalue is
\* stored in a variable.
LEMMA NextInv ==
  ASSUME MachineInv, StoresInVariables, [Next]_vars
  PROVE  MachineInv'
<1>1. CASE Push
  BY <1>1, PushStep
<1>2. CASE Pop
  BY <1>2, PopStep
<1>3. CASE Move
  BY <1>3, MoveStep
<1>4. CASE Load
  BY <1>4, LoadStep
<1>5. CASE Store
  BY <1>5, StoreStep
<1>6. CASE Arith
  BY <1>6, ArithStep
<1>7. CASE Multiply
  BY <1>7, MultiplyStep
<1>8. CASE Divide
  BY <1>8, DivideStep
<1>9. CASE Cmp
  BY <1>9, CmpStep
<1>10. CASE SetByte
  BY <1>10, SetByteStep
<1>11. CASE Jump
  BY <1>11, JumpStep
<1>12. CASE Call
  BY <1>12, CallStep
<1>13. CASE CallExternal
  BY <1>13, CallExternalStep
<1>14. CASE Return
  BY <1>14, ReturnStep
<1>15. CASE Fault
  BY <1>15, FaultStep
<1>16. CASE UNCHANGED vars
  <2>1. /\ prog' = prog /\ pc' = pc /\ regs' = regs /\ mem' = mem /\ frames' = frames
    BY <1>16 DEF vars
  <2>2. Refused' = Refused /\ D' = D
    BY <2>1 DEF Refused, D
  <2>3. Stack(prog, D, pc, regs, mem, frames)' = Stack(prog, D, pc, regs, mem, frames)
    BY <2>1, <2>2
  <2>4. (\E p \in Sources : prog' = Assembled(p))
    BY <2>1 DEF MachineInv
  <2>5. RegsOK(regs') /\ MemOK(mem')
    BY <2>1 DEF MachineInv
  <2> QED
    BY <2>1, <2>2, <2>3, <2>4, <2>5 DEF MachineInv
<1> QED
  BY <1>1, <1>2, <1>3, <1>4, <1>5, <1>6, <1>7, <1>8, <1>9, <1>10, <1>11, <1>12, <1>13, <1>14,
     <1>15, <1>16 DEF Next

\* The invariant holds as long as the program stores in its variables only.
LEMMA MachineInvariant == Spec /\ []StoresInVariables => []MachineInv
<1>1. Init => MachineInv
  BY InitInv
<1>2. MachineInv /\ StoresInVariables /\ [Next]_vars => MachineInv'
  BY NextInv
<1> QED
  BY <1>1, <1>2, PTL DEF Spec

\* In every state the pc is at an instruction, at main's return address or where
\* the processor stopped, and registers and memory hold numbers of their width:
\* no return address and no jump leads out of the text.
THEOREM TypeCorrect == Spec /\ []StoresInVariables => []TypeOK
<1>1. MachineInv => TypeOK
  <2> SUFFICES ASSUME MachineInv PROVE TypeOK
    OBVIOUS
  <2>1. RegsOK(regs) /\ MemOK(mem)
    BY DEF MachineInv
  <2>2. \A r \in DOMAIN regs : regs[r] \in 0 .. Word - 1
    BY <2>1 DEF RegsOK
  <2>3. DOMAIN mem = 0 .. Memory - 1 /\ \A a \in DOMAIN mem : mem[a] \in 0 .. Byte - 1
    BY <2>1 DEF MemOK
  <2>4. \/ pc \in {EXIT, FAULT}
        \/ pc = REFUSED /\ Refused
        \/ pc \in DOMAIN prog.text
    <3>1. CASE Refused
      BY <3>1 DEF MachineInv
    <3>2. CASE ~ Refused /\ pc \notin {EXIT, FAULT}
      <4>1. pc \in 1 .. Len(prog.text)
        BY <3>2 DEF MachineInv, Stack
      <4>2. DOMAIN prog.text = 1 .. Len(prog.text)
        BY TextIsSeq, SeqFacts DEF MachineInv
      <4> QED
        BY <4>1, <4>2
    <3> QED
      BY <3>1, <3>2
  <2> QED
    BY <2>2, <2>3, <2>4 DEF TypeOK
<1> QED
  BY <1>1, MachineInvariant, PTL

\* A pop never takes a word that was not pushed in the same call of the function:
\* what it reads lies below the function's variables.
THEOREM OperandsArePopped == Spec /\ []StoresInVariables => []PopsOperands
<1>1. MachineInv => PopsOperands
  <2> SUFFICES ASSUME MachineInv, Running, instr[1] = "pop", instr[2] # "rbp"
               PROVE  regs.rsp + 8 <= regs.rbp - prog.frame[Last(frames).fn]
    BY DEF PopsOperands, In
  <2> DEFINE n == Len(frames)
  <2>1. Flows(prog.text, D, pc) /\ instr = prog.text[pc] /\ D[pc] \in Int
    BY WhileRunning DEF instr
  <2>2. D[pc] >= 1 /\ D[pc] >= 0
    BY <2>1, StackFlows
  <2>3. /\ regs.rsp \in Int /\ Floor(prog, frames, n) \in Int
        /\ regs.rbp = FrameAt(frames, n)
        /\ regs.rsp + 8 * D[pc] <= Floor(prog, frames, n)
    BY <2>2, WhileInside
  <2>4. Floor(prog, frames, n) = regs.rbp - prog.frame[Last(frames).fn]
    BY <2>3 DEF Floor, Last
  <2> HIDE DEF n
  <2>5. regs.rsp + 8 <= Floor(prog, frames, n)
    BY <2>1, <2>2, <2>3
  <2> QED
    BY <2>4, <2>5
<1> QED
  BY <1>1, MachineInvariant, PTL

\* A function returns behind its call, with the stack and the frame pointer its
\* caller had, whatever it left on the operand stack and whoever it called.
THEOREM FunctionsReturn == Spec /\ []StoresInVariables => ReturnsToCaller
<1> DEFINE Returns == Len(frames') < Len(frames) =>
                        /\ pc' = Last(frames).ret
                        /\ regs'.rsp = Last(frames).rsp
                        /\ regs'.rbp = Last(frames).rbp
<1>1. MachineInv /\ [Next]_vars => [Returns]_vars
  <2> SUFFICES ASSUME MachineInv, Next PROVE Returns
    OBVIOUS
  <2>1. ASSUME Running PROVE IsSeq(frames) /\ Len(frames) \in Nat
    BY <2>1, WhileRunning, SeqFacts DEF Calls
  <2>2. ASSUME Running, frames' = frames PROVE Returns
    BY <2>1, <2>2
  <2>3. CASE Call
    <3>1. Running
      BY <2>3 DEF Call, In
    <3>2. PICK x : frames' = Append(frames, x)
      BY <2>3 DEF Call
    <3>3. Len(frames') = Len(frames) + 1
      BY <2>1, <3>1, <3>2, Appended
    <3> QED
      BY <2>1, <3>1, <3>3
  <2>4. CASE Return
    BY <2>4, ReturnsRight DEF Last
  <2>5. CASE Push \/ Pop \/ Move \/ Load \/ Store \/ Arith \/ Multiply \/ Divide \/ Cmp \/ SetByte
             \/ Jump \/ CallExternal \/ Fault
    <3>1. Running /\ frames' = frames
      BY <2>5 DEF Push, Pop, Move, Load, Store, Arith, Multiply, Divide, Cmp, SetByte, Jump,
                  CallExternal, Fault, In, Skip
    <3> QED
      BY <2>2, <3>1
  <2> QED
    BY <2>3, <2>4, <2>5 DEF Next
<1> QED
  BY <1>1, MachineInvariant, PTL DEF ReturnsToCaller, Spec
===============================================================================
