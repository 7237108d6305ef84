---------------------------- MODULE CodegenProofs ----------------------------
(***************************************************************************)
(* For every bound and every AST: no label is defined twice, every jump is *)
(* resolved when its function ends, and break and continue go to the       *)
(* innermost loop.  The argument is a ledger: the labels an activation has *)
(* drawn and not yet defined are owed by that activation alone (Owed), and *)
(* each step only moves labels from the counter to Owed, and from Owed to  *)
(* the text.                                                               *)
(*                                                                         *)
(* No jump leaves its function: to the ledger is added where in the text   *)
(* the labels stand (StayInv).                                             *)
(***************************************************************************)
EXTENDS Codegen, TLAPS, SequenceTheorems

Typed ==
  /\ labelcnt \in Nat
  /\ breaklabel \in Label
  /\ contlabel \in Label
  /\ strlits \subseteq Label
  /\ acts \in Seq(Activation)
  /\ text \in Seq(Item)
  /\ nodes \in Nat
  /\ tops \in Nat

\* The labels that activation a has still to define.
Owed(a) ==
  {l \in {a.startl} : a.kind = "for" /\ a.pc = "init"}
  \cup
  {l \in {a.nextl} : \/ a.kind = "logic" /\ a.pc \in {"left", "right"}
                     \/ a.kind = "if" /\ a.pc = "body"
                     \/ a.kind = "for" /\ a.pc \notin {"enter", "next"}}
  \cup
  {l \in {a.endl} : a.pc # "enter" /\ ~(a.kind = "if" /\ a.pc = "cond")}

\* The labels that activation a has defined and jumps to later.
Emitted(a) ==
  {l \in {a.startl} : \/ a.kind = "while" /\ a.pc # "enter"
                      \/ a.kind = "for" /\ a.pc \in {"cond", "body", "next"}}
  \cup
  {l \in {a.nextl} : a.kind = "for" /\ a.pc = "next"}

OwnDistinct(a) ==
  /\ (a.kind = "logic" /\ a.pc # "enter") => a.nextl # a.endl
  /\ (a.kind = "if" /\ a.pc = "body") => a.nextl # a.endl
  /\ (a.kind = "for" /\ a.pc # "enter") =>
       a.startl # a.nextl /\ a.startl # a.endl /\ a.nextl # a.endl

OwedAll == UNION {Owed(acts[i]) : i \in 1 .. Len(acts)}

\* The ledger of labels.
Ledger ==
  /\ \A i \in 1 .. Len(acts) :
       /\ Owed(acts[i]) \subseteq 1 .. labelcnt
       /\ Owed(acts[i]) \cap Defined(text) = {}
       /\ Emitted(acts[i]) \subseteq Defined(text)
       /\ OwnDistinct(acts[i])
  /\ \A i, j \in 1 .. Len(acts) : i # j => Owed(acts[i]) \cap Owed(acts[j]) = {}
  /\ Defined(text) \subseteq 1 .. labelcnt
  /\ UniqueDefs(text)
  /\ Targets(text) \subseteq Defined(text) \cup OwedAll \cup {NULL}
  /\ strlits \subseteq Defined(text)

\* The saved break and continue labels of every active loop are those of the
\* loop around it.
Loops ==
  /\ LoopLabels(acts, breaklabel, contlabel, Len(acts))
  /\ \A i \in 1 .. Len(acts) :
       IsLoop(acts[i]) => LoopLabels(acts, acts[i].prevbreak, acts[i].prevcont, i - 1)

IInv == Typed /\ Ledger /\ Loops

-----------------------------------------------------------------------------
\* Lemmas on the emitted text.

LEMMA DefinedConcat ==
  ASSUME NEW s \in Seq(Item), NEW t \in Seq(Item)
  PROVE  /\ s \o t \in Seq(Item)
         /\ Defined(s \o t) = Defined(s) \cup Defined(t)
         /\ Targets(s \o t) = Targets(s) \cup Targets(t)
<1>1. /\ s \o t \in Seq(Item)
      /\ Len(s \o t) = Len(s) + Len(t)
      /\ Len(s) \in Nat /\ Len(t) \in Nat
      /\ \A i \in 1 .. Len(s) + Len(t) :
           (s \o t)[i] = IF i <= Len(s) THEN s[i] ELSE t[i - Len(s)]
  BY ConcatProperties, LenProperties
<1>2. \A i \in 1 .. Len(s) : i \in 1 .. Len(s \o t) /\ (s \o t)[i] = s[i]
  BY <1>1
<1>3. \A i \in 1 .. Len(t) :
        Len(s) + i \in 1 .. Len(s \o t) /\ (s \o t)[Len(s) + i] = t[i]
  BY <1>1
<1>4. \A i \in 1 .. Len(s \o t) :
        \/ i \in 1 .. Len(s) /\ (s \o t)[i] = s[i]
        \/ i - Len(s) \in 1 .. Len(t) /\ (s \o t)[i] = t[i - Len(s)]
  BY <1>1
<1>5. Defined(s \o t) = Defined(s) \cup Defined(t)
  BY <1>2, <1>3, <1>4 DEF Defined
<1>6. Targets(s \o t) = Targets(s) \cup Targets(t)
  BY <1>2, <1>3, <1>4 DEF Targets
<1>7. QED
  BY <1>1, <1>5, <1>6

LEMMA UniqueConcat ==
  ASSUME NEW s \in Seq(Item), NEW t \in Seq(Item),
         UniqueDefs(s), UniqueDefs(t), Defined(s) \cap Defined(t) = {}
  PROVE  UniqueDefs(s \o t)
<1>1. /\ Len(s \o t) = Len(s) + Len(t)
      /\ Len(s) \in Nat /\ Len(t) \in Nat
      /\ \A i \in 1 .. Len(s) + Len(t) :
           (s \o t)[i] = IF i <= Len(s) THEN s[i] ELSE t[i - Len(s)]
  BY ConcatProperties, LenProperties
<1> SUFFICES ASSUME NEW i \in 1 .. Len(s \o t), NEW j \in 1 .. Len(s \o t),
                    (s \o t)[i].op = "label", (s \o t)[j].op = "label",
                    (s \o t)[i].label = (s \o t)[j].label
             PROVE  i = j
  BY DEF UniqueDefs
<1>2. CASE i <= Len(s) /\ j <= Len(s)
  BY <1>1, <1>2 DEF UniqueDefs
<1>3. CASE i > Len(s) /\ j > Len(s)
  <2>1. i - Len(s) \in 1 .. Len(t) /\ j - Len(s) \in 1 .. Len(t)
    BY <1>1, <1>3
  <2>2. (s \o t)[i] = t[i - Len(s)] /\ (s \o t)[j] = t[j - Len(s)]
    BY <1>1, <1>3
  <2>3. i - Len(s) = j - Len(s)
    BY <2>1, <2>2 DEF UniqueDefs
  <2>4. QED
    BY <1>1, <2>3
<1>4. CASE i <= Len(s) /\ j > Len(s)
  <2>1. i \in 1 .. Len(s) /\ j - Len(s) \in 1 .. Len(t)
    BY <1>1, <1>4
  <2>2. (s \o t)[i] = s[i] /\ (s \o t)[j] = t[j - Len(s)]
    BY <1>1, <1>4
  <2>3. s[i].label \in Defined(s) /\ s[i].label \in Defined(t)
    BY <2>1, <2>2 DEF Defined
  <2>4. QED
    BY <2>3
<1>5. CASE i > Len(s) /\ j <= Len(s)
  <2>1. j \in 1 .. Len(s) /\ i - Len(s) \in 1 .. Len(t)
    BY <1>1, <1>5
  <2>2. (s \o t)[j] = s[j] /\ (s \o t)[i] = t[i - Len(s)]
    BY <1>1, <1>5
  <2>3. s[j].label \in Defined(s) /\ s[j].label \in Defined(t)
    BY <2>1, <2>2 DEF Defined
  <2>4. QED
    BY <2>3
<1>6. QED
  BY <1>1, <1>2, <1>3, <1>4, <1>5

\* What the items of one step define and use.
DefinedBy(x) == {l \in {x.label} : x.op = "label"}
TargetsOf(x) == {l \in {x.label} : x.op \in {"jump", "ref"}}

LEMMA NoItem ==
  /\ <<>> \in Seq(Item)
  /\ Defined(<<>>) = {}
  /\ Targets(<<>>) = {}
  /\ UniqueDefs(<<>>)
BY DEF Defined, Targets, UniqueDefs

LEMMA OneItem ==
  ASSUME NEW t \in Seq(Item), Len(t) = 1
  PROVE  /\ Defined(t) = DefinedBy(t[1])
         /\ Targets(t) = TargetsOf(t[1])
         /\ UniqueDefs(t)
<1>1. 1 .. Len(t) = {1}
  OBVIOUS
<1>2. QED
  BY <1>1 DEF Defined, Targets, UniqueDefs, DefinedBy, TargetsOf

LEMMA TwoItems ==
  ASSUME NEW t \in Seq(Item), Len(t) = 2
  PROVE  /\ Defined(t) = DefinedBy(t[1]) \cup DefinedBy(t[2])
         /\ Targets(t) = TargetsOf(t[1]) \cup TargetsOf(t[2])
         /\ DefinedBy(t[1]) \cap DefinedBy(t[2]) = {} => UniqueDefs(t)
<1>1. 1 .. Len(t) = {1, 2}
  OBVIOUS
<1>2. Defined(t) = DefinedBy(t[1]) \cup DefinedBy(t[2])
  BY <1>1 DEF Defined, DefinedBy
<1>3. Targets(t) = TargetsOf(t[1]) \cup TargetsOf(t[2])
  BY <1>1 DEF Targets, TargetsOf
<1>4. DefinedBy(t[1]) \cap DefinedBy(t[2]) = {} => UniqueDefs(t)
  BY <1>1 DEF UniqueDefs, DefinedBy
<1>5. QED
  BY <1>2, <1>3, <1>4

LEMMA ThreeItems ==
  ASSUME NEW t \in Seq(Item), Len(t) = 3
  PROVE  /\ Defined(t) = DefinedBy(t[1]) \cup DefinedBy(t[2]) \cup DefinedBy(t[3])
         /\ Targets(t) = TargetsOf(t[1]) \cup TargetsOf(t[2]) \cup TargetsOf(t[3])
         /\ /\ DefinedBy(t[1]) \cap DefinedBy(t[2]) = {}
            /\ DefinedBy(t[1]) \cap DefinedBy(t[3]) = {}
            /\ DefinedBy(t[2]) \cap DefinedBy(t[3]) = {}
            => UniqueDefs(t)
<1>1. 1 .. Len(t) = {1, 2, 3}
  OBVIOUS
<1>2. Defined(t) = DefinedBy(t[1]) \cup DefinedBy(t[2]) \cup DefinedBy(t[3])
  BY <1>1 DEF Defined, DefinedBy
<1>3. Targets(t) = TargetsOf(t[1]) \cup TargetsOf(t[2]) \cup TargetsOf(t[3])
  BY <1>1 DEF Targets, TargetsOf
<1>4. /\ DefinedBy(t[1]) \cap DefinedBy(t[2]) = {}
      /\ DefinedBy(t[1]) \cap DefinedBy(t[3]) = {}
      /\ DefinedBy(t[2]) \cap DefinedBy(t[3]) = {}
      => UniqueDefs(t)
  BY <1>1 DEF UniqueDefs, DefinedBy
<1>5. QED
  BY <1>2, <1>3, <1>4

\* The lists of items the arms emit.
LEMMA Items ==
  ASSUME NEW a \in Label, NEW b \in Label
  PROVE  /\ /\ <<LabelDef(a)>> \in Seq(Item)
            /\ Defined(<<LabelDef(a)>>) = {a}
            /\ Targets(<<LabelDef(a)>>) = {}
            /\ UniqueDefs(<<LabelDef(a)>>)
         /\ /\ <<Jump(a)>> \in Seq(Item)
            /\ Defined(<<Jump(a)>>) = {}
            /\ Targets(<<Jump(a)>>) = {a}
            /\ UniqueDefs(<<Jump(a)>>)
         /\ /\ <<Ref(a)>> \in Seq(Item)
            /\ Defined(<<Ref(a)>>) = {}
            /\ Targets(<<Ref(a)>>) = {a}
            /\ UniqueDefs(<<Ref(a)>>)
         /\ /\ <<Jump(a), LabelDef(b)>> \in Seq(Item)
            /\ Defined(<<Jump(a), LabelDef(b)>>) = {b}
            /\ Targets(<<Jump(a), LabelDef(b)>>) = {a}
            /\ UniqueDefs(<<Jump(a), LabelDef(b)>>)
<1>1. \A l \in Label : /\ LabelDef(l) \in Item /\ Jump(l) \in Item /\ Ref(l) \in Item
                       /\ DefinedBy(LabelDef(l)) = {l} /\ TargetsOf(LabelDef(l)) = {}
                       /\ DefinedBy(Jump(l)) = {} /\ TargetsOf(Jump(l)) = {l}
                       /\ DefinedBy(Ref(l)) = {} /\ TargetsOf(Ref(l)) = {l}
  BY DEF LabelDef, Jump, Ref, Item, DefinedBy, TargetsOf
<1>2. \A x \in Item : <<x>> \in Seq(Item) /\ Len(<<x>>) = 1 /\ <<x>>[1] = x
  OBVIOUS
<1>3. \A x, y \in Item : /\ <<x, y>> \in Seq(Item) /\ Len(<<x, y>>) = 2
                         /\ <<x, y>>[1] = x /\ <<x, y>>[2] = y
  OBVIOUS
<1>5. /\ <<LabelDef(a)>> \in Seq(Item)
      /\ Defined(<<LabelDef(a)>>) = {a}
      /\ Targets(<<LabelDef(a)>>) = {}
      /\ UniqueDefs(<<LabelDef(a)>>)
  <2> DEFINE t == <<LabelDef(a)>>
  <2>1. t \in Seq(Item) /\ Len(t) = 1 /\ t[1] = LabelDef(a)
    BY <1>1, <1>2, Zenon
  <2> HIDE DEF t
  <2>2. Defined(t) = {a} /\ Targets(t) = {} /\ UniqueDefs(t)
    BY <1>1, <2>1, OneItem
  <2>3. QED
    BY <2>1, <2>2, Zenon DEF t
<1>6. /\ <<Jump(a)>> \in Seq(Item)
      /\ Defined(<<Jump(a)>>) = {}
      /\ Targets(<<Jump(a)>>) = {a}
      /\ UniqueDefs(<<Jump(a)>>)
  <2> DEFINE t == <<Jump(a)>>
  <2>1. t \in Seq(Item) /\ Len(t) = 1 /\ t[1] = Jump(a)
    BY <1>1, <1>2, Zenon
  <2> HIDE DEF t
  <2>2. Defined(t) = {} /\ Targets(t) = {a} /\ UniqueDefs(t)
    BY <1>1, <2>1, OneItem
  <2>3. QED
    BY <2>1, <2>2, Zenon DEF t
<1>7. /\ <<Ref(a)>> \in Seq(Item)
      /\ Defined(<<Ref(a)>>) = {}
      /\ Targets(<<Ref(a)>>) = {a}
      /\ UniqueDefs(<<Ref(a)>>)
  <2> DEFINE t == <<Ref(a)>>
  <2>1. t \in Seq(Item) /\ Len(t) = 1 /\ t[1] = Ref(a)
    BY <1>1, <1>2, Zenon
  <2> HIDE DEF t
  <2>2. Defined(t) = {} /\ Targets(t) = {a} /\ UniqueDefs(t)
    BY <1>1, <2>1, OneItem
  <2>3. QED
    BY <2>1, <2>2, Zenon DEF t
<1>8. /\ <<Jump(a), LabelDef(b)>> \in Seq(Item)
      /\ Defined(<<Jump(a), LabelDef(b)>>) = {b}
      /\ Targets(<<Jump(a), LabelDef(b)>>) = {a}
      /\ UniqueDefs(<<Jump(a), LabelDef(b)>>)
  <2> DEFINE t == <<Jump(a), LabelDef(b)>>
  <2>1. t \in Seq(Item) /\ Len(t) = 2 /\ t[1] = Jump(a) /\ t[2] = LabelDef(b)
    BY <1>1, <1>3, Zenon
  <2> HIDE DEF t
  <2>2. /\ Defined(t) = {} \cup {b} /\ Targets(t) = {a} \cup {}
        /\ {} \cap {b} = {} => UniqueDefs(t)
    BY <1>1, <2>1, TwoItems, Zenon
  <2>3. t \in Seq(Item) /\ Defined(t) = {b} /\ Targets(t) = {a} /\ UniqueDefs(t)
    BY <2>1, <2>2
  <2>4. QED
    BY <2>3 DEF t
<1>9. QED
  BY <1>5, <1>6, <1>7, <1>8, Zenon

LEMMA JumpTwoLabels ==
  ASSUME NEW a \in Label, NEW b \in Label, NEW c \in Label, b # c
  PROVE  /\ <<Jump(a), LabelDef(b), LabelDef(c)>> \in Seq(Item)
         /\ Defined(<<Jump(a), LabelDef(b), LabelDef(c)>>) = {b, c}
         /\ Targets(<<Jump(a), LabelDef(b), LabelDef(c)>>) = {a}
         /\ UniqueDefs(<<Jump(a), LabelDef(b), LabelDef(c)>>)
<1> DEFINE t == <<Jump(a), LabelDef(b), LabelDef(c)>>
<1>1. \A l \in Label : /\ LabelDef(l) \in Item /\ Jump(l) \in Item
                       /\ DefinedBy(LabelDef(l)) = {l} /\ TargetsOf(LabelDef(l)) = {}
                       /\ DefinedBy(Jump(l)) = {} /\ TargetsOf(Jump(l)) = {l}
  BY DEF LabelDef, Jump, Item, DefinedBy, TargetsOf
<1>2. \A x, y, z \in Item :
        /\ <<x, y, z>> \in Seq(Item) /\ Len(<<x, y, z>>) = 3
        /\ <<x, y, z>>[1] = x /\ <<x, y, z>>[2] = y /\ <<x, y, z>>[3] = z
  OBVIOUS
<1>3. /\ t \in Seq(Item) /\ Len(t) = 3
      /\ t[1] = Jump(a) /\ t[2] = LabelDef(b) /\ t[3] = LabelDef(c)
  BY <1>1, <1>2, Zenon
<1> HIDE DEF t
<1>4. /\ Defined(t) = {} \cup {b} \cup {c} /\ Targets(t) = {a} \cup {} \cup {}
      /\ {} \cap {b} = {} /\ {} \cap {c} = {} /\ {b} \cap {c} = {} => UniqueDefs(t)
  BY <1>1, <1>3, ThreeItems, Zenon
<1>5. t \in Seq(Item) /\ Defined(t) = {b, c} /\ Targets(t) = {a} /\ UniqueDefs(t)
  BY <1>3, <1>4
<1>6. QED
  BY <1>5, Zenon DEF t

-----------------------------------------------------------------------------
\* Lemmas on the stack of activations.

LEMMA EnterActivation ==
  ASSUME NEW kind \in StmtKinds
  PROVE  /\ Enter(kind) \in Activation
         /\ Owed(Enter(kind)) = {}
         /\ Emitted(Enter(kind)) = {}
         /\ OwnDistinct(Enter(kind))
         /\ ~IsLoop(Enter(kind))
<1>1. Enter(kind) \in Activation /\ Enter(kind).pc = "enter"
  BY DEF Enter, Activation, Label, NULL
<1>2. QED
  BY <1>1 DEF Owed, Emitted, OwnDistinct, IsLoop

LEMMA CallActs ==
  ASSUME acts \in Seq(Activation), acts # <<>>,
         NEW b \in Activation, NEW kinds \in {ExprKinds, StmtKinds}, NEW items, NEW n,
         Call(b, kinds, items, n)
  PROVE  /\ Len(acts) \in Nat \ {0}
         /\ acts' \in Seq(Activation)
         /\ Len(acts') = Len(acts) + 1
         /\ \A i \in 1 .. Len(acts) - 1 : acts'[i] = acts[i]
         /\ acts'[Len(acts)] = b
         /\ \E kind \in kinds : acts'[Len(acts) + 1] = Enter(kind)
<1>1. PICK kind \in kinds :
        acts' = Append([acts EXCEPT ![Len(acts)] = b], Enter(kind))
  BY DEF Call, ExprKinds, StmtKinds
<1>2. Len(acts) \in Nat \ {0}
  BY EmptySeq
<1>3. Enter(kind) \in Activation
  BY EnterActivation DEF ExprKinds, StmtKinds
<1>4. QED
  BY <1>1, <1>2, <1>3

LEMMA ReturnActs ==
  ASSUME acts \in Seq(Activation), acts # <<>>, NEW items, Return(items)
  PROVE  /\ Len(acts) \in Nat \ {0}
         /\ acts' \in Seq(Activation)
         /\ Len(acts') = Len(acts) - 1
         /\ \A i \in 1 .. Len(acts) - 1 : acts'[i] = acts[i]
<1>1. Len(acts) \in Nat \ {0}
  BY EmptySeq
<1>2. acts' = SubSeq(acts, 1, Len(acts) - 1)
  BY DEF Return
<1>3. 1 \in 1 .. Len(acts) + 1 /\ Len(acts) - 1 \in 0 .. Len(acts)
      /\ Len(acts) - 1 + 1 - 1 = Len(acts) - 1
  BY <1>1
<1>4. QED
  BY <1>1, <1>2, <1>3, SubSeqProperties

-----------------------------------------------------------------------------
\* The ledger survives a step that leaves the activations below the innermost
\* one alone.  A call moves labels from the counter to the caller's debt b and
\* from the debt to the text; nothing else happens to any label.
LEMMA CallLedger ==
  ASSUME Typed, Ledger, acts # <<>>,
         NEW b \in Activation, NEW kinds \in {ExprKinds, StmtKinds},
         NEW items \in Seq(Item), NEW n \in Nat,
         Call(b, kinds, items, n),
         Owed(b) \subseteq Owed(top) \cup (labelcnt + 1 .. labelcnt + n),
         Defined(items) \subseteq Owed(top) \cup (labelcnt + 1 .. labelcnt + n),
         Owed(b) \cap Defined(items) = {},
         Owed(top) \subseteq Owed(b) \cup Defined(items),
         Targets(items) \subseteq Defined(items) \cup Owed(b) \cup {NULL},
         Emitted(b) \subseteq Defined(text) \cup Defined(items),
         OwnDistinct(b), UniqueDefs(items)
  PROVE  Ledger'
<1> DEFINE m == Len(acts)
           new == labelcnt + 1 .. labelcnt + n
<1>1. /\ labelcnt \in Nat /\ text \in Seq(Item) /\ acts \in Seq(Activation)
      /\ labelcnt' = labelcnt + n /\ text' = text \o items /\ strlits' = strlits
  BY DEF Typed, Call
<1>2. /\ m \in Nat \ {0}
      /\ Len(acts') = m + 1
      /\ \A i \in 1 .. m - 1 : acts'[i] = acts[i]
      /\ acts'[m] = b
      /\ Owed(acts'[m + 1]) = {} /\ Emitted(acts'[m + 1]) = {}
      /\ OwnDistinct(acts'[m + 1])
  BY <1>1, CallActs, EnterActivation DEF ExprKinds, StmtKinds
<1>3. /\ Defined(text') = Defined(text) \cup Defined(items)
      /\ Targets(text') = Targets(text) \cup Targets(items)
  BY <1>1, DefinedConcat
<1>4. /\ \A i \in 1 .. m : /\ Owed(acts[i]) \subseteq 1 .. labelcnt
                           /\ Owed(acts[i]) \cap Defined(text) = {}
                           /\ Emitted(acts[i]) \subseteq Defined(text)
                           /\ OwnDistinct(acts[i])
      /\ \A i, j \in 1 .. m : i # j => Owed(acts[i]) \cap Owed(acts[j]) = {}
      /\ Defined(text) \subseteq 1 .. labelcnt
      /\ UniqueDefs(text)
      /\ Targets(text) \subseteq Defined(text) \cup OwedAll \cup {NULL}
      /\ strlits \subseteq Defined(text)
  BY DEF Ledger
<1>5. top = acts[m] /\ m \in 1 .. m
  BY <1>2 DEF top
<1>6. /\ new \cap (1 .. labelcnt) = {}
      /\ new \cup (1 .. labelcnt) = 1 .. labelcnt + n
  BY <1>1
<1>7. Owed(top) \subseteq 1 .. labelcnt /\ Owed(top) \cap Defined(text) = {}
  BY <1>4, <1>5
<1>8. \A i \in 1 .. m - 1 :
        /\ i \in 1 .. m /\ Owed(acts[i]) \cap Owed(top) = {}
        /\ Owed(acts[i]) \cap new = {}
  <2>1. \A i \in 1 .. m - 1 : i \in 1 .. m /\ i # m
    BY <1>2
  <2>2. \A i \in 1 .. m - 1 : Owed(acts[i]) \cap Owed(top) = {}
    BY <1>4, <1>5, <2>1
  <2>3. \A i \in 1 .. m - 1 : Owed(acts[i]) \cap new = {}
    BY <1>4, <1>6, <2>1
  <2>4. QED
    BY <2>1, <2>2, <2>3
<1> HIDE DEF m, new
<1>9. \A i \in 1 .. m + 1 : i \in 1 .. m - 1 \/ i = m \/ i = m + 1
  BY <1>2
<1>10. /\ Owed(b) \subseteq Owed(top) \cup new
       /\ Defined(items) \subseteq Owed(top) \cup new
  BY DEF new
<1>11. \A i \in 1 .. m + 1 : /\ Owed(acts'[i]) \subseteq 1 .. labelcnt'
                             /\ Owed(acts'[i]) \cap Defined(text') = {}
                             /\ Emitted(acts'[i]) \subseteq Defined(text')
                             /\ OwnDistinct(acts'[i])
  <2>1. \A i \in 1 .. m - 1 : /\ Owed(acts'[i]) \subseteq 1 .. labelcnt'
                              /\ Owed(acts'[i]) \cap Defined(text') = {}
                              /\ Emitted(acts'[i]) \subseteq Defined(text')
                              /\ OwnDistinct(acts'[i])
    BY <1>1, <1>2, <1>3, <1>4, <1>6, <1>8, <1>10
  <2>2. /\ Owed(b) \subseteq 1 .. labelcnt'
        /\ Owed(b) \cap Defined(text') = {}
        /\ Emitted(b) \subseteq Defined(text')
    BY <1>1, <1>3, <1>4, <1>6, <1>7, <1>10
  <2>3. QED
    BY <1>2, <1>9, <2>1, <2>2
<1>12. \A i, j \in 1 .. m + 1 : i # j => Owed(acts'[i]) \cap Owed(acts'[j]) = {}
  <2>1. \A i \in 1 .. m - 1 : Owed(acts'[i]) \cap Owed(b) = {}
    BY <1>2, <1>8, <1>10
  <2>2. \A i, j \in 1 .. m - 1 : i # j => Owed(acts'[i]) \cap Owed(acts'[j]) = {}
    BY <1>2, <1>4, <1>8
  <2>3. QED
    BY <1>2, <1>9, <2>1, <2>2
<1>13. Defined(text') \subseteq 1 .. labelcnt'
  BY <1>1, <1>3, <1>4, <1>6, <1>7, <1>10
<1>14. UniqueDefs(text')
  <2>1. Defined(text) \cap Defined(items) = {}
    BY <1>4, <1>6, <1>7, <1>10
  <2>2. QED
    BY <1>1, <1>4, <2>1, UniqueConcat
<1>15. Targets(text') \subseteq Defined(text') \cup OwedAll' \cup {NULL}
  <2>1. OwedAll' = UNION {Owed(acts'[i]) : i \in 1 .. m + 1}
    BY <1>2 DEF OwedAll
  <2>2. OwedAll \subseteq OwedAll' \cup Defined(text')
    <3>1. SUFFICES ASSUME NEW i \in 1 .. m
                   PROVE  Owed(acts[i]) \subseteq OwedAll' \cup Defined(text')
      BY DEF OwedAll, m
    <3>2. CASE i = m
      BY <1>2, <1>3, <1>5, <2>1, <3>2
    <3>3. CASE i \in 1 .. m - 1
      BY <1>2, <2>1, <3>3
    <3>4. QED
      BY <1>2, <3>2, <3>3
  <2>3. Owed(b) \subseteq OwedAll'
    BY <1>2, <2>1
  <2>4. QED
    BY <1>3, <1>4, <2>2, <2>3
<1>16. strlits' \subseteq Defined(text')
  BY <1>1, <1>3, <1>4
<1>17. QED
  BY <1>2, <1>11, <1>12, <1>13, <1>14, <1>15, <1>16 DEF Ledger

\* A return pays the whole debt of the innermost activation.
LEMMA ReturnLedger ==
  ASSUME Typed, Ledger, acts # <<>>,
         NEW items \in Seq(Item), Return(items),
         Defined(items) = Owed(top), UniqueDefs(items),
         Targets(items) \subseteq
           Defined(items) \cup Defined(text) \cup OwedAll \cup {NULL}
  PROVE  Ledger'
<1> DEFINE m == Len(acts)
<1>1. /\ labelcnt \in Nat /\ text \in Seq(Item) /\ acts \in Seq(Activation)
      /\ labelcnt' = labelcnt /\ text' = text \o items /\ strlits' = strlits
  BY DEF Typed, Return
<1>2. /\ m \in Nat \ {0}
      /\ Len(acts') = m - 1
      /\ \A i \in 1 .. m - 1 : acts'[i] = acts[i] /\ i \in 1 .. m
      /\ \A i \in 1 .. m : i \in 1 .. m - 1 \/ i = m
      /\ m \in 1 .. m /\ top = acts[m]
  BY <1>1, ReturnActs DEF top
<1>3. /\ Defined(text') = Defined(text) \cup Defined(items)
      /\ Targets(text') = Targets(text) \cup Targets(items)
  BY <1>1, DefinedConcat
<1>4. /\ \A i \in 1 .. m : /\ Owed(acts[i]) \subseteq 1 .. labelcnt
                           /\ Owed(acts[i]) \cap Defined(text) = {}
                           /\ Emitted(acts[i]) \subseteq Defined(text)
                           /\ OwnDistinct(acts[i])
      /\ \A i, j \in 1 .. m : i # j => Owed(acts[i]) \cap Owed(acts[j]) = {}
      /\ Defined(text) \subseteq 1 .. labelcnt
      /\ UniqueDefs(text)
      /\ Targets(text) \subseteq Defined(text) \cup OwedAll \cup {NULL}
      /\ strlits \subseteq Defined(text)
  BY DEF Ledger
<1>5. \A i \in 1 .. m - 1 : m # i
  BY <1>2
<1>6. OwedAll = UNION {Owed(acts[i]) : i \in 1 .. m}
  BY DEF OwedAll
<1> HIDE DEF m
<1>7. \A i \in 1 .. m - 1 : /\ Owed(acts'[i]) \subseteq 1 .. labelcnt'
                            /\ Owed(acts'[i]) \cap Defined(text') = {}
                            /\ Emitted(acts'[i]) \subseteq Defined(text')
                            /\ OwnDistinct(acts'[i])
  <2>1. \A i \in 1 .. m - 1 : Owed(acts[i]) \cap Defined(items) = {}
    BY <1>2, <1>4, <1>5
  <2>2. QED
    BY <1>1, <1>2, <1>3, <1>4, <2>1
<1>8. \A i, j \in 1 .. m - 1 : i # j => Owed(acts'[i]) \cap Owed(acts'[j]) = {}
  BY <1>2, <1>4
<1>9. Defined(text') \subseteq 1 .. labelcnt'
  BY <1>1, <1>2, <1>3, <1>4
<1>10. UniqueDefs(text')
  <2>1. Defined(text) \cap Defined(items) = {}
    BY <1>2, <1>4
  <2>2. QED
    BY <1>1, <1>4, <2>1, UniqueConcat
<1>11. Targets(text') \subseteq Defined(text') \cup OwedAll' \cup {NULL}
  <2>1. OwedAll' = UNION {Owed(acts'[i]) : i \in 1 .. m - 1}
    BY <1>2 DEF OwedAll
  <2>2. OwedAll \subseteq OwedAll' \cup Defined(text')
    <3>1. SUFFICES ASSUME NEW i \in 1 .. m
                   PROVE  Owed(acts[i]) \subseteq OwedAll' \cup Defined(text')
      BY <1>6
    <3>2. CASE i = m
      BY <1>2, <1>3, <3>2
    <3>3. CASE i \in 1 .. m - 1
      BY <1>2, <2>1, <3>3
    <3>4. QED
      BY <1>2, <3>2, <3>3
  <2>3. QED
    BY <1>3, <1>4, <2>2
<1>12. strlits' \subseteq Defined(text')
  BY <1>1, <1>3, <1>4
<1>13. QED
  BY <1>2, <1>7, <1>8, <1>9, <1>10, <1>11, <1>12 DEF Ledger

-----------------------------------------------------------------------------
\* Lemmas on LoopLabels: it looks at active loops only.

SameLoop(x, y) ==
  /\ IsLoop(x) <=> IsLoop(y)
  /\ IsLoop(x) => /\ x.kind = y.kind /\ x.startl = y.startl
                  /\ x.nextl = y.nextl /\ x.endl = y.endl

LEMMA LoopLabelsAgree ==
  ASSUME NEW as, NEW bs, NEW n \in Nat, NEW b, NEW c,
         \A i \in 1 .. n : SameLoop(as[i], bs[i]),
         LoopLabels(as, b, c, n)
  PROVE  LoopLabels(bs, b, c, n)
<1>1. \A i \in 1 .. n : IsLoop(as[i]) <=> IsLoop(bs[i])
  BY DEF SameLoop
<1>2. CASE \A i \in 1 .. n : ~IsLoop(as[i])
  BY <1>1, <1>2 DEF LoopLabels, Innermost
<1>3. CASE \E j \in 1 .. n : IsLoop(as[j])
  <2>1. PICK j \in 1 .. n :
          /\ Innermost(as, j, n)
          /\ b = as[j].endl
          /\ c = IF as[j].kind = "while" THEN as[j].startl ELSE as[j].nextl
    BY <1>3 DEF LoopLabels
  <2>2. Innermost(bs, j, n)
    <3>1. \A i \in j + 1 .. n : i \in 1 .. n
      OBVIOUS
    <3>2. QED
      BY <1>1, <2>1, <3>1 DEF Innermost
  <2>3. /\ as[j].kind = bs[j].kind /\ as[j].startl = bs[j].startl
        /\ as[j].nextl = bs[j].nextl /\ as[j].endl = bs[j].endl
    BY <2>1 DEF Innermost, SameLoop
  <2>4. QED
    BY <2>1, <2>2, <2>3 DEF LoopLabels
<1>4. QED
  BY <1>2, <1>3

LEMMA LoopLabelsSkip ==
  ASSUME NEW as, NEW n \in Nat, NEW b, NEW c, ~IsLoop(as[n + 1])
  PROVE  LoopLabels(as, b, c, n) <=> LoopLabels(as, b, c, n + 1)
<1>1. /\ \A i \in 1 .. n : i \in 1 .. n + 1
      /\ \A i \in 1 .. n + 1 : i \in 1 .. n \/ i = n + 1
  OBVIOUS
<1>2. \A j \in 1 .. n : Innermost(as, j, n) <=> Innermost(as, j, n + 1)
  <2>1. SUFFICES ASSUME NEW j \in 1 .. n
                 PROVE  Innermost(as, j, n) <=> Innermost(as, j, n + 1)
    OBVIOUS
  <2>2. /\ \A i \in j + 1 .. n : i \in j + 1 .. n + 1
        /\ \A i \in j + 1 .. n + 1 : i \in j + 1 .. n \/ i = n + 1
    OBVIOUS
  <2>3. QED
    BY <1>1, <2>2 DEF Innermost
<1>3. ~Innermost(as, n + 1, n + 1)
  BY DEF Innermost
<1>4. QED
  BY <1>1, <1>2, <1>3 DEF LoopLabels

LEMMA LoopLabelsTop ==
  ASSUME NEW as, NEW n \in Nat \ {0}, IsLoop(as[n])
  PROVE  \A b, c : LoopLabels(as, b, c, n) <=>
           /\ b = as[n].endl
           /\ c = IF as[n].kind = "while" THEN as[n].startl ELSE as[n].nextl
<1>1. n \in 1 .. n /\ \A i \in n + 1 .. n : FALSE
  OBVIOUS
<1>2. Innermost(as, n, n)
  BY <1>1 DEF Innermost
<1>3. \A j \in 1 .. n : Innermost(as, j, n) => j = n
  <2>1. SUFFICES ASSUME NEW j \in 1 .. n, j # n
                 PROVE  ~Innermost(as, j, n)
    OBVIOUS
  <2>2. n \in j + 1 .. n
    BY <2>1
  <2>3. QED
    BY <2>2 DEF Innermost
<1>4. QED
  BY <1>1, <1>2, <1>3 DEF LoopLabels

\* A call that leaves the loop of its own activation, if it has one, as it was.
LEMMA CallLoops ==
  ASSUME Typed, Loops, acts # <<>>,
         NEW b \in Activation, NEW kinds \in {ExprKinds, StmtKinds},
         NEW items, NEW n, Call(b, kinds, items, n), KeepLoop,
         SameLoop(top, b),
         IsLoop(b) => b.prevbreak = top.prevbreak /\ b.prevcont = top.prevcont
  PROVE  Loops'
<1> DEFINE m == Len(acts)
<1>1. /\ m \in Nat \ {0}
      /\ Len(acts') = m + 1
      /\ \A i \in 1 .. m - 1 : acts'[i] = acts[i]
      /\ acts'[m] = b
      /\ ~IsLoop(acts'[m + 1])
  BY CallActs, EnterActivation DEF Typed, ExprKinds, StmtKinds
<1>2. /\ LoopLabels(acts, breaklabel, contlabel, m)
      /\ \A i \in 1 .. m :
           IsLoop(acts[i]) => LoopLabels(acts, acts[i].prevbreak, acts[i].prevcont, i - 1)
      /\ breaklabel' = breaklabel /\ contlabel' = contlabel /\ top = acts[m]
  BY DEF Loops, KeepLoop, top
<1> HIDE DEF m
<1>3. \A i \in 1 .. m + 1 : i \in 1 .. m - 1 \/ i = m \/ i = m + 1
  BY <1>1
<1>4. \A i \in 1 .. m : SameLoop(acts[i], acts'[i])
  <2>1. \A x : SameLoop(x, x)
    BY DEF SameLoop
  <2>2. QED
    BY <1>1, <1>2, <1>3, <2>1
<1>5. LoopLabels(acts', breaklabel', contlabel', m + 1)
  BY <1>1, <1>2, <1>4, LoopLabelsAgree, LoopLabelsSkip
<1>6. \A i \in 1 .. m + 1 :
        IsLoop(acts'[i]) => LoopLabels(acts', acts'[i].prevbreak, acts'[i].prevcont, i - 1)
  <2>1. SUFFICES ASSUME NEW i \in 1 .. m, IsLoop(acts'[i])
                 PROVE  LoopLabels(acts', acts'[i].prevbreak, acts'[i].prevcont, i - 1)
    BY <1>1, <1>3
  <2>2. IsLoop(acts[i]) /\ acts'[i].prevbreak = acts[i].prevbreak
        /\ acts'[i].prevcont = acts[i].prevcont
    BY <1>1, <1>2, <1>3, <1>4, <2>1 DEF SameLoop
  <2>3. i - 1 \in Nat /\ \A k \in 1 .. i - 1 : k \in 1 .. m
    BY <1>1
  <2>4. \A k \in 1 .. i - 1 : SameLoop(acts[k], acts'[k])
    BY <1>4, <2>3
  <2>5. LoopLabels(acts, acts[i].prevbreak, acts[i].prevcont, i - 1)
    BY <1>2, <2>2
  <2>6. QED
    BY <2>2, <2>3, <2>4, <2>5, LoopLabelsAgree
<1>7. QED
  BY <1>1, <1>5, <1>6 DEF Loops

\* The first call of a loop, which makes it the innermost one.
LEMMA EnterLoops ==
  ASSUME Typed, Loops, acts # <<>>, ~IsLoop(top),
         NEW b \in Activation, NEW kinds \in {ExprKinds, StmtKinds},
         NEW items, NEW n, Call(b, kinds, items, n),
         IsLoop(b), b.prevbreak = breaklabel, b.prevcont = contlabel,
         breaklabel' = b.endl,
         contlabel' = IF b.kind = "while" THEN b.startl ELSE b.nextl
  PROVE  Loops'
<1> DEFINE m == Len(acts)
<1>1. /\ m \in Nat \ {0}
      /\ Len(acts') = m + 1
      /\ \A i \in 1 .. m - 1 : acts'[i] = acts[i]
      /\ acts'[m] = b
      /\ ~IsLoop(acts'[m + 1])
  BY CallActs, EnterActivation DEF Typed, ExprKinds, StmtKinds
<1>2. /\ LoopLabels(acts, breaklabel, contlabel, m)
      /\ \A i \in 1 .. m :
           IsLoop(acts[i]) => LoopLabels(acts, acts[i].prevbreak, acts[i].prevcont, i - 1)
      /\ ~IsLoop(acts[m])
  BY DEF Loops, top
<1> HIDE DEF m
<1>3. \A i \in 1 .. m + 1 : i \in 1 .. m - 1 \/ i = m \/ i = m + 1
  BY <1>1
<1>4. LoopLabels(acts', breaklabel', contlabel', m + 1)
  <2>1. LoopLabels(acts', breaklabel', contlabel', m)
    BY <1>1, LoopLabelsTop
  <2>2. QED
    BY <1>1, <2>1, LoopLabelsSkip
<1>5. ASSUME NEW k \in 0 .. m - 1, NEW x, NEW y, LoopLabels(acts, x, y, k)
      PROVE  LoopLabels(acts', x, y, k)
  <2>1. \A i \in 1 .. k : i \in 1 .. m - 1
    BY <1>1
  <2>2. k \in Nat /\ \A i \in 1 .. k : SameLoop(acts[i], acts'[i])
    BY <1>1, <2>1 DEF SameLoop
  <2>3. QED
    BY <1>5, <2>2, LoopLabelsAgree
<1>6. LoopLabels(acts, breaklabel, contlabel, m - 1)
  <2>1. m - 1 \in Nat /\ m - 1 + 1 = m
    BY <1>1
  <2>2. QED
    BY <1>2, <2>1, LoopLabelsSkip
<1>7. \A i \in 1 .. m + 1 :
        IsLoop(acts'[i]) => LoopLabels(acts', acts'[i].prevbreak, acts'[i].prevcont, i - 1)
  <2>1. \A i \in 1 .. m - 1 : i \in 1 .. m /\ i - 1 \in 0 .. m - 1
    BY <1>1
  <2>2. \A i \in 1 .. m - 1 : IsLoop(acts'[i]) =>
          LoopLabels(acts', acts'[i].prevbreak, acts'[i].prevcont, i - 1)
    BY <1>1, <1>2, <1>5, <2>1
  <2>3. m - 1 \in 0 .. m - 1
    BY <1>1
  <2>4. LoopLabels(acts', b.prevbreak, b.prevcont, m - 1)
    BY <1>5, <1>6, <2>3
  <2>5. QED
    BY <1>1, <1>3, <2>2, <2>4
<1>8. QED
  BY <1>1, <1>4, <1>7 DEF Loops

\* A return, which makes the loop around the innermost one current again.
LEMMA ReturnLoops ==
  ASSUME Typed, Loops, acts # <<>>,
         NEW items, Return(items),
         IF IsLoop(top) THEN RestoreLoop ELSE KeepLoop
  PROVE  Loops'
<1> DEFINE m == Len(acts)
<1>1. /\ m \in Nat \ {0}
      /\ Len(acts') = m - 1
      /\ \A i \in 1 .. m - 1 : acts'[i] = acts[i]
  BY ReturnActs DEF Typed
<1>2. /\ LoopLabels(acts, breaklabel, contlabel, m)
      /\ \A i \in 1 .. m :
           IsLoop(acts[i]) => LoopLabels(acts, acts[i].prevbreak, acts[i].prevcont, i - 1)
      /\ top = acts[m]
  BY DEF Loops, top
<1> HIDE DEF m
<1>3. ASSUME NEW k \in 0 .. m - 1, NEW x, NEW y, LoopLabels(acts, x, y, k)
      PROVE  LoopLabels(acts', x, y, k)
  <2>1. \A i \in 1 .. k : i \in 1 .. m - 1
    BY <1>1
  <2>2. k \in Nat /\ \A i \in 1 .. k : SameLoop(acts[i], acts'[i])
    BY <1>1, <2>1 DEF SameLoop
  <2>3. QED
    BY <1>3, <2>2, LoopLabelsAgree
<1>4. m - 1 \in Nat /\ m - 1 + 1 = m /\ m \in 1 .. m /\ m - 1 \in 0 .. m - 1
  BY <1>1
<1>5. LoopLabels(acts, breaklabel', contlabel', m - 1)
  <2>1. CASE IsLoop(top)
    BY <1>2, <1>4, <2>1 DEF RestoreLoop
  <2>2. CASE ~IsLoop(top)
    <3>1. breaklabel' = breaklabel /\ contlabel' = contlabel
      BY <2>2 DEF KeepLoop
    <3>2. QED
      BY <1>2, <1>4, <2>2, <3>1, LoopLabelsSkip
  <2>3. QED
    BY <2>1, <2>2
<1>6. LoopLabels(acts', breaklabel', contlabel', m - 1)
  BY <1>3, <1>4, <1>5
<1>7. \A i \in 1 .. m - 1 :
        IsLoop(acts'[i]) => LoopLabels(acts', acts'[i].prevbreak, acts'[i].prevcont, i - 1)
  <2>1. \A i \in 1 .. m - 1 : i \in 1 .. m /\ i - 1 \in 0 .. m - 1
    BY <1>1
  <2>2. QED
    BY <1>1, <1>2, <1>3, <2>1
<1>8. QED
  BY <1>1, <1>6, <1>7 DEF Loops

-----------------------------------------------------------------------------
\* The two ways a step of an arm ends, with everything they preserve.

LEMMA TopActivation ==
  ASSUME Typed, acts # <<>>
  PROVE  top \in Activation
<1>1. acts \in Seq(Activation) /\ Len(acts) \in 1 .. Len(acts)
  BY EmptySeq DEF Typed
<1>2. QED
  BY <1>1 DEF top

LEMMA CallInv ==
  ASSUME IInv, acts # <<>>,
         NEW b \in Activation, NEW kinds \in {ExprKinds, StmtKinds},
         NEW items \in Seq(Item), NEW n \in Nat,
         Call(b, kinds, items, n), KeepLoop,
         Owed(b) \subseteq Owed(top) \cup (labelcnt + 1 .. labelcnt + n),
         Defined(items) \subseteq Owed(top) \cup (labelcnt + 1 .. labelcnt + n),
         Owed(b) \cap Defined(items) = {},
         Owed(top) \subseteq Owed(b) \cup Defined(items),
         Targets(items) \subseteq Defined(items) \cup Owed(b) \cup {NULL},
         Emitted(b) \subseteq Defined(text) \cup Defined(items),
         OwnDistinct(b), UniqueDefs(items), SameLoop(top, b),
         IsLoop(b) => b.prevbreak = top.prevbreak /\ b.prevcont = top.prevcont
  PROVE  IInv'
<1>1. Typed'
  <2>1. acts' \in Seq(Activation)
    BY CallActs DEF IInv, Typed
  <2>2. text' \in Seq(Item)
    BY DefinedConcat DEF IInv, Typed, Call
  <2>3. QED
    BY <2>1, <2>2 DEF IInv, Typed, Call, KeepLoop
<1>2. Ledger'
  BY CallLedger DEF IInv
<1>3. Loops'
  BY CallLoops DEF IInv
<1>4. QED
  BY <1>1, <1>2, <1>3 DEF IInv

LEMMA EnterInv ==
  ASSUME IInv, acts # <<>>, top.pc = "enter",
         NEW b \in Activation, NEW kinds \in {ExprKinds, StmtKinds},
         NEW items \in Seq(Item), NEW n \in Nat,
         Call(b, kinds, items, n),
         IsLoop(b), b.prevbreak = breaklabel, b.prevcont = contlabel,
         breaklabel' = b.endl,
         contlabel' = IF b.kind = "while" THEN b.startl ELSE b.nextl,
         Owed(b) \subseteq labelcnt + 1 .. labelcnt + n,
         Defined(items) \subseteq labelcnt + 1 .. labelcnt + n,
         Owed(b) \cap Defined(items) = {},
         Targets(items) = {},
         Emitted(b) \subseteq Defined(items),
         OwnDistinct(b), UniqueDefs(items)
  PROVE  IInv'
<1>1. Typed'
  <2>1. acts' \in Seq(Activation)
    BY CallActs DEF IInv, Typed
  <2>2. text' \in Seq(Item)
    BY DefinedConcat DEF IInv, Typed, Call
  <2>3. breaklabel' \in Label /\ contlabel' \in Label
    BY DEF Activation
  <2>4. QED
    BY <2>1, <2>2, <2>3 DEF IInv, Typed, Call
<1>2. Owed(top) = {} /\ ~IsLoop(top)
  BY DEF Owed, IsLoop
<1>3. Ledger'
  BY <1>2, CallLedger DEF IInv
<1>4. Loops'
  BY <1>2, EnterLoops DEF IInv
<1>5. QED
  BY <1>1, <1>3, <1>4 DEF IInv

LEMMA ReturnInv ==
  ASSUME IInv, acts # <<>>,
         NEW items \in Seq(Item), Return(items),
         IF IsLoop(top) THEN RestoreLoop ELSE KeepLoop,
         Defined(items) = Owed(top), UniqueDefs(items),
         Targets(items) \subseteq
           Defined(items) \cup Defined(text) \cup OwedAll \cup {NULL}
  PROVE  IInv'
<1>1. Typed'
  <2>1. acts' \in Seq(Activation)
    BY ReturnActs DEF IInv, Typed
  <2>2. text' \in Seq(Item)
    BY DefinedConcat DEF IInv, Typed, Return
  <2>3. top \in Activation
    BY TopActivation DEF IInv
  <2>4. breaklabel' \in Label /\ contlabel' \in Label
    BY <2>3 DEF RestoreLoop, KeepLoop, Activation, IInv, Typed
  <2>5. QED
    BY <2>1, <2>2, <2>4 DEF IInv, Typed, Return
<1>2. Ledger'
  BY ReturnLedger DEF IInv
<1>3. Loops'
  BY ReturnLoops DEF IInv
<1>4. QED
  BY <1>1, <1>2, <1>3 DEF IInv

\* Outside of the loops there is nothing to go to; inside, the label is owed
\* or already defined.
LEMMA LoopTargets ==
  ASSUME IInv
  PROVE  {breaklabel, contlabel} \subseteq Defined(text) \cup OwedAll \cup {NULL}
<1>1. CASE \A i \in 1 .. Len(acts) : ~IsLoop(acts[i])
  BY <1>1 DEF IInv, Loops, LoopLabels, Innermost
<1>2. CASE \E j \in 1 .. Len(acts) :
             /\ Innermost(acts, j, Len(acts))
             /\ breaklabel = acts[j].endl
             /\ contlabel = IF acts[j].kind = "while" THEN acts[j].startl
                                                      ELSE acts[j].nextl
  <2>1. PICK j \in 1 .. Len(acts) :
          /\ IsLoop(acts[j])
          /\ breaklabel = acts[j].endl
          /\ contlabel = IF acts[j].kind = "while" THEN acts[j].startl
                                                   ELSE acts[j].nextl
    BY <1>2 DEF Innermost
  <2>2. Owed(acts[j]) \subseteq OwedAll /\ Emitted(acts[j]) \subseteq Defined(text)
    BY DEF OwedAll, IInv, Ledger
  <2>3. breaklabel \in Owed(acts[j])
    BY <2>1 DEF IsLoop, Owed
  <2>4. contlabel \in Owed(acts[j]) \cup Emitted(acts[j])
    BY <2>1 DEF IsLoop, Owed, Emitted
  <2>5. QED
    BY <2>2, <2>3, <2>4
<1>3. QED
  BY <1>1, <1>2 DEF IInv, Loops, LoopLabels

-----------------------------------------------------------------------------
\* What an arm knows of its own activation and of fresh labels.
LEMMA TopLedger ==
  ASSUME IInv, acts # <<>>
  PROVE  /\ top \in Activation
         /\ top.startl \in Label /\ top.nextl \in Label /\ top.endl \in Label
         /\ breaklabel \in Label /\ contlabel \in Label
         /\ labelcnt \in Nat
         /\ labelcnt + 1 \in Label /\ labelcnt + 2 \in Label /\ labelcnt + 3 \in Label
         /\ Owed(top) \subseteq 1 .. labelcnt
         /\ Emitted(top) \subseteq Defined(text)
         /\ OwnDistinct(top)
<1>1. Len(acts) \in 1 .. Len(acts)
  BY EmptySeq DEF IInv, Typed
<1>2. /\ Owed(top) \subseteq 1 .. labelcnt /\ Emitted(top) \subseteq Defined(text)
      /\ OwnDistinct(top)
  BY <1>1 DEF IInv, Ledger, top
<1>3. top \in Activation
  BY TopActivation DEF IInv
<1>4. top.startl \in Label /\ top.nextl \in Label /\ top.endl \in Label
  BY <1>3 DEF Activation
<1>5. /\ breaklabel \in Label /\ contlabel \in Label /\ labelcnt \in Nat
      /\ labelcnt + 1 \in Label /\ labelcnt + 2 \in Label /\ labelcnt + 3 \in Label
  BY DEF IInv, Typed, Label
<1>6. QED
  BY <1>2, <1>3, <1>4, <1>5

-----------------------------------------------------------------------------
\* One lemma per arm.

LEMMA PlainArmsInv ==
  ASSUME IInv, PlainArms
  PROVE  IInv'
<1> USE DEF NULL
<1>1. ASSUME acts # <<>>, ~IsLoop(top), Owed(top) = {}, KeepLoop,
             NEW items \in Seq(Item), Return(items), Defined(items) = {},
             UniqueDefs(items),
             Targets(items) \subseteq Defined(text) \cup OwedAll \cup {NULL}
      PROVE  IInv'
  BY <1>1, ReturnInv
<1>2. ASSUME acts # <<>>,
             top.kind \in {"leaf", "expr", "block", "break", "continue"},
             top.pc = "enter"
      PROVE  ~IsLoop(top) /\ Owed(top) = {} /\ Emitted(top) = {} /\ OwnDistinct(top)
  BY <1>2 DEF IsLoop, Owed, Emitted, OwnDistinct
<1>3. breaklabel \in Label /\ contlabel \in Label /\ \A l \in strlits : l \in Label
  BY DEF IInv, Typed
<1>4. CASE Leaf
  BY <1>1, <1>2, <1>4, NoItem DEF Leaf, At
<1>5. CASE StrRef
  <2>1. PICK l \in strlits : Return(<<Ref(l)>>)
    BY <1>5 DEF StrRef
  <2>2. /\ <<Ref(l)>> \in Seq(Item) /\ Defined(<<Ref(l)>>) = {}
        /\ Targets(<<Ref(l)>>) = {l} /\ UniqueDefs(<<Ref(l)>>)
    BY <1>3, Items
  <2>3. l \in Defined(text)
    BY DEF IInv, Ledger
  <2>4. acts # <<>> /\ ~IsLoop(top) /\ Owed(top) = {} /\ KeepLoop
    BY <1>2, <1>5 DEF StrRef, At
  <2>5. QED
    BY <1>1, <2>1, <2>2, <2>3, <2>4
<1>6. ASSUME NEW kinds \in {ExprKinds, StmtKinds},
             acts # <<>>, top.kind \in {"expr", "block"}, top.pc = "enter",
             Call(top, kinds, <<>>, 0), KeepLoop
      PROVE  IInv'
  <2>1. top \in Activation
    BY <1>6, TopActivation DEF IInv
  <2>2. ~IsLoop(top) /\ Owed(top) = {} /\ Emitted(top) = {} /\ OwnDistinct(top)
    BY <1>2, <1>6
  <2>3. SameLoop(top, top)
    BY DEF SameLoop
  <2>4. QED
    BY <1>6, <2>1, <2>2, <2>3, NoItem, CallInv
<1>7. CASE VisitExpr
  BY <1>6, <1>7 DEF VisitExpr, At
<1>8. CASE VisitStmt
  BY <1>6, <1>8 DEF VisitStmt, At
<1>9. CASE VisitDone
  BY <1>1, <1>2, <1>9, NoItem DEF VisitDone, At
<1>10. CASE Break
  <2>1. acts # <<>> /\ ~IsLoop(top) /\ Owed(top) = {} /\ KeepLoop
        /\ Return(<<Jump(breaklabel)>>)
    BY <1>2, <1>10 DEF Break, At
  <2>2. /\ <<Jump(breaklabel)>> \in Seq(Item) /\ Defined(<<Jump(breaklabel)>>) = {}
        /\ Targets(<<Jump(breaklabel)>>) = {breaklabel}
        /\ UniqueDefs(<<Jump(breaklabel)>>)
    BY <1>3, Items
  <2>3. QED
    BY <1>1, <2>1, <2>2, LoopTargets
<1>11. CASE Continue
  <2>1. acts # <<>> /\ ~IsLoop(top) /\ Owed(top) = {} /\ KeepLoop
        /\ Return(<<Jump(contlabel)>>)
    BY <1>2, <1>11 DEF Continue, At
  <2>2. /\ <<Jump(contlabel)>> \in Seq(Item) /\ Defined(<<Jump(contlabel)>>) = {}
        /\ Targets(<<Jump(contlabel)>>) = {contlabel}
        /\ UniqueDefs(<<Jump(contlabel)>>)
    BY <1>3, Items
  <2>3. QED
    BY <1>1, <2>1, <2>2, LoopTargets
<1>12. QED
  BY <1>4, <1>5, <1>7, <1>8, <1>9, <1>10, <1>11 DEF PlainArms

LEMMA LogicArmInv ==
  ASSUME IInv, LogicArm
  PROVE  IInv'
<1>1. CASE LogicLeft
  <2> DEFINE b == [top EXCEPT !.pc = "left", !.nextl = labelcnt + 1,
                        !.endl = labelcnt + 2]
             items == <<>>
  <2>1. /\ acts # <<>> /\ top.kind = "logic" /\ top.pc = "enter"
        /\ Call(b, ExprKinds, items, 2)
        /\ KeepLoop
    BY <1>1 DEF LogicLeft, At
  <2>2. /\ b \in Activation /\ b.kind = "logic" /\ b.pc = "left"
        /\ b.startl = top.startl /\ b.nextl = labelcnt + 1 /\ b.endl = labelcnt + 2
        /\ b.prevbreak = top.prevbreak /\ b.prevcont = top.prevcont
    BY <2>1, TopLedger DEF Activation
  <2>3. /\ items \in Seq(Item) /\ UniqueDefs(items)
        /\ Defined(items) = {} /\ Targets(items) = {}
    BY <2>1, NoItem
  <2> HIDE DEF b, items
  <2>4. /\ Owed(top) = {} /\ Owed(b) = {labelcnt + 1, labelcnt + 2}
        /\ Emitted(b) = {}
    BY <2>1, <2>2 DEF Owed, Emitted
  <2>5. OwnDistinct(b)
    BY <2>1, <2>2, TopLedger DEF OwnDistinct, Owed
  <2>6. SameLoop(top, b)
    BY <2>1, <2>2 DEF SameLoop, IsLoop
  <2>7. Emitted(b) \subseteq Defined(text) \cup Defined(items)
    BY <2>1, <2>2, <2>3, TopLedger DEF Emitted
  <2>8. Owed(top) \subseteq 1 .. labelcnt /\ OwnDistinct(top) /\ labelcnt \in Nat
    BY <2>1, TopLedger
  <2>9. /\ Owed(b) \subseteq Owed(top) \cup (labelcnt + 1 .. labelcnt + 2)
        /\ Owed(b) \cap Defined(items) = {}
    BY <2>1, <2>3, <2>4, <2>8 DEF OwnDistinct
  <2>10. QED
    BY <2>1, <2>2, <2>3, <2>4, <2>5, <2>6, <2>7, <2>9, CallInv
<1>2. CASE LogicRight
  <2> DEFINE b == [top EXCEPT !.pc = "right"]
             items == <<Jump(top.nextl)>>
  <2>1. /\ acts # <<>> /\ top.kind = "logic" /\ top.pc = "left"
        /\ Call(b, ExprKinds, items, 0)
        /\ KeepLoop
    BY <1>2 DEF LogicRight, At
  <2>2. /\ b \in Activation /\ b.kind = "logic" /\ b.pc = "right"
        /\ b.startl = top.startl /\ b.nextl = top.nextl /\ b.endl = top.endl
        /\ b.prevbreak = top.prevbreak /\ b.prevcont = top.prevcont
    BY <2>1, TopLedger DEF Activation
  <2>3. /\ items \in Seq(Item) /\ UniqueDefs(items)
        /\ Defined(items) = {} /\ Targets(items) = {top.nextl}
    BY <2>1, TopLedger, Items
  <2> HIDE DEF b, items
  <2>4. /\ Owed(top) = {top.nextl, top.endl}
        /\ Owed(b) = {top.nextl, top.endl} /\ Emitted(b) = {}
    BY <2>1, <2>2 DEF Owed, Emitted
  <2>5. OwnDistinct(b)
    BY <2>1, <2>2, TopLedger DEF OwnDistinct, Owed
  <2>6. SameLoop(top, b)
    BY <2>1, <2>2 DEF SameLoop, IsLoop
  <2>7. Emitted(b) \subseteq Defined(text) \cup Defined(items)
    BY <2>1, <2>2, <2>3, TopLedger DEF Emitted
  <2>8. Owed(top) \subseteq 1 .. labelcnt /\ OwnDistinct(top) /\ labelcnt \in Nat
    BY <2>1, TopLedger
  <2>9. /\ Owed(b) \subseteq Owed(top) \cup (labelcnt + 1 .. labelcnt + 0)
        /\ Owed(b) \cap Defined(items) = {}
    BY <2>1, <2>3, <2>4, <2>8 DEF OwnDistinct
  <2>10. QED
    BY <2>1, <2>2, <2>3, <2>4, <2>5, <2>6, <2>7, <2>9, CallInv
<1>3. CASE LogicDone
  <2> DEFINE items == <<Jump(top.endl), LabelDef(top.nextl), LabelDef(top.endl)>>
  <2>1. /\ acts # <<>> /\ top.kind = "logic" /\ top.pc = "right"
        /\ Return(items) /\ KeepLoop
    BY <1>3 DEF LogicDone, At
  <2>2. /\ Owed(top) = {top.nextl, top.endl}
        /\ ~IsLoop(top)
    BY <2>1 DEF Owed, IsLoop
  <2>3. top.nextl # top.endl
    BY <2>1, TopLedger DEF OwnDistinct
  <2>4. /\ items \in Seq(Item) /\ UniqueDefs(items)
        /\ Defined(items) = {top.nextl, top.endl} /\ Targets(items) = {top.endl}
    <3>1. top.startl \in Label /\ top.nextl \in Label /\ top.endl \in Label
      BY <2>1, TopLedger
    <3>2. QED
      BY <2>3, <3>1, JumpTwoLabels, Zenon
  <2> HIDE DEF items
  <2>5. Targets(items) \subseteq Defined(text) \cup Owed(top)
    BY <2>1, <2>2, <2>4, TopLedger DEF Emitted
  <2>6. QED
    BY <2>1, <2>2, <2>4, <2>5, ReturnInv
<1>4. QED
  BY <1>1, <1>2, <1>3 DEF LogicArm

LEMMA IfArmInv ==
  ASSUME IInv, IfArm
  PROVE  IInv'
<1>1. CASE IfCond
  <2> DEFINE b == [top EXCEPT !.pc = "cond"]
             items == <<>>
  <2>1. /\ acts # <<>> /\ top.kind = "if" /\ top.pc = "enter"
        /\ Call(b, ExprKinds, items, 0)
        /\ KeepLoop
    BY <1>1 DEF IfCond, At
  <2>2. /\ b \in Activation /\ b.kind = "if" /\ b.pc = "cond"
        /\ b.startl = top.startl /\ b.nextl = top.nextl /\ b.endl = top.endl
        /\ b.prevbreak = top.prevbreak /\ b.prevcont = top.prevcont
    BY <2>1, TopLedger DEF Activation
  <2>3. /\ items \in Seq(Item) /\ UniqueDefs(items)
        /\ Defined(items) = {} /\ Targets(items) = {}
    BY <2>1, NoItem
  <2> HIDE DEF b, items
  <2>4. /\ Owed(top) = {} /\ Owed(b) = {}
        /\ Emitted(b) = {}
    BY <2>1, <2>2 DEF Owed, Emitted
  <2>5. OwnDistinct(b)
    BY <2>1, <2>2, TopLedger DEF OwnDistinct, Owed
  <2>6. SameLoop(top, b)
    BY <2>1, <2>2 DEF SameLoop, IsLoop
  <2>7. Emitted(b) \subseteq Defined(text) \cup Defined(items)
    BY <2>1, <2>2, <2>3, TopLedger DEF Emitted
  <2>8. Owed(top) \subseteq 1 .. labelcnt /\ OwnDistinct(top) /\ labelcnt \in Nat
    BY <2>1, TopLedger
  <2>9. /\ Owed(b) \subseteq Owed(top) \cup (labelcnt + 1 .. labelcnt + 0)
        /\ Owed(b) \cap Defined(items) = {}
    BY <2>1, <2>3, <2>4, <2>8 DEF OwnDistinct
  <2>10. QED
    BY <2>1, <2>2, <2>3, <2>4, <2>5, <2>6, <2>7, <2>9, CallInv
<1>2. CASE IfBody
  <2> DEFINE b == [top EXCEPT !.pc = "body", !.endl = labelcnt + 1,
                        !.nextl = labelcnt + 2]
             items == <<Jump(labelcnt + 2)>>
  <2>1. /\ acts # <<>> /\ top.kind = "if" /\ top.pc = "cond"
        /\ Call(b, StmtKinds, items, 2)
        /\ KeepLoop
    BY <1>2 DEF IfBody, At
  <2>2. /\ b \in Activation /\ b.kind = "if" /\ b.pc = "body"
        /\ b.startl = top.startl /\ b.nextl = labelcnt + 2 /\ b.endl = labelcnt + 1
        /\ b.prevbreak = top.prevbreak /\ b.prevcont = top.prevcont
    BY <2>1, TopLedger DEF Activation
  <2>3. /\ items \in Seq(Item) /\ UniqueDefs(items)
        /\ Defined(items) = {} /\ Targets(items) = {labelcnt + 2}
    BY <2>1, TopLedger, Items
  <2> HIDE DEF b, items
  <2>4. /\ Owed(top) = {} /\ Owed(b) = {labelcnt + 1, labelcnt + 2}
        /\ Emitted(b) = {}
    BY <2>1, <2>2 DEF Owed, Emitted
  <2>5. OwnDistinct(b)
    BY <2>1, <2>2, TopLedger DEF OwnDistinct, Owed
  <2>6. SameLoop(top, b)
    BY <2>1, <2>2 DEF SameLoop, IsLoop
  <2>7. Emitted(b) \subseteq Defined(text) \cup Defined(items)
    BY <2>1, <2>2, <2>3, TopLedger DEF Emitted
  <2>8. Owed(top) \subseteq 1 .. labelcnt /\ OwnDistinct(top) /\ labelcnt \in Nat
    BY <2>1, TopLedger
  <2>9. /\ Owed(b) \subseteq Owed(top) \cup (labelcnt + 1 .. labelcnt + 2)
        /\ Owed(b) \cap Defined(items) = {}
    BY <2>1, <2>3, <2>4, <2>8 DEF OwnDistinct
  <2>10. QED
    BY <2>1, <2>2, <2>3, <2>4, <2>5, <2>6, <2>7, <2>9, CallInv
<1>3. CASE IfElifCond
  <2> DEFINE b == [top EXCEPT !.pc = "elif"]
             items == <<Jump(top.endl), LabelDef(top.nextl)>>
  <2>1. /\ acts # <<>> /\ top.kind = "if" /\ top.pc = "body"
        /\ Call(b, ExprKinds, items, 0)
        /\ KeepLoop
    BY <1>3 DEF IfElifCond, At
  <2>2. /\ b \in Activation /\ b.kind = "if" /\ b.pc = "elif"
        /\ b.startl = top.startl /\ b.nextl = top.nextl /\ b.endl = top.endl
        /\ b.prevbreak = top.prevbreak /\ b.prevcont = top.prevcont
    BY <2>1, TopLedger DEF Activation
  <2>3. /\ items \in Seq(Item) /\ UniqueDefs(items)
        /\ Defined(items) = {top.nextl} /\ Targets(items) = {top.endl}
    <3>1. top.nextl \in Label /\ top.endl \in Label
      BY <2>1, TopLedger
    <3>2. QED
      BY <3>1, Items, Zenon
  <2> HIDE DEF b, items
  <2>4. /\ Owed(top) = {top.nextl, top.endl}
        /\ Owed(b) = {top.endl} /\ Emitted(b) = {}
    BY <2>1, <2>2 DEF Owed, Emitted
  <2>5. OwnDistinct(b)
    BY <2>1, <2>2, TopLedger DEF OwnDistinct, Owed
  <2>6. SameLoop(top, b)
    BY <2>1, <2>2 DEF SameLoop, IsLoop
  <2>7. Emitted(b) \subseteq Defined(text) \cup Defined(items)
    BY <2>1, <2>2, <2>3, TopLedger DEF Emitted
  <2>8. Owed(top) \subseteq 1 .. labelcnt /\ OwnDistinct(top) /\ labelcnt \in Nat
    BY <2>1, TopLedger
  <2>9. /\ Owed(b) \subseteq Owed(top) \cup (labelcnt + 1 .. labelcnt + 0)
        /\ Owed(b) \cap Defined(items) = {}
    BY <2>1, <2>3, <2>4, <2>8 DEF OwnDistinct
  <2>10. QED
    BY <2>1, <2>2, <2>3, <2>4, <2>5, <2>6, <2>7, <2>9, CallInv
<1>4. CASE IfElifBody
  <2> DEFINE b == [top EXCEPT !.pc = "body", !.nextl = labelcnt + 1]
             items == <<Jump(labelcnt + 1)>>
  <2>1. /\ acts # <<>> /\ top.kind = "if" /\ top.pc = "elif"
        /\ Call(b, StmtKinds, items, 1)
        /\ KeepLoop
    BY <1>4 DEF IfElifBody, At
  <2>2. /\ b \in Activation /\ b.kind = "if" /\ b.pc = "body"
        /\ b.startl = top.startl /\ b.nextl = labelcnt + 1 /\ b.endl = top.endl
        /\ b.prevbreak = top.prevbreak /\ b.prevcont = top.prevcont
    BY <2>1, TopLedger DEF Activation
  <2>3. /\ items \in Seq(Item) /\ UniqueDefs(items)
        /\ Defined(items) = {} /\ Targets(items) = {labelcnt + 1}
    BY <2>1, TopLedger, Items
  <2> HIDE DEF b, items
  <2>4. /\ Owed(top) = {top.endl}
        /\ Owed(b) = {labelcnt + 1, top.endl} /\ Emitted(b) = {}
    BY <2>1, <2>2 DEF Owed, Emitted
  <2>5. OwnDistinct(b)
    BY <2>1, <2>2, TopLedger DEF OwnDistinct, Owed
  <2>6. SameLoop(top, b)
    BY <2>1, <2>2 DEF SameLoop, IsLoop
  <2>7. Emitted(b) \subseteq Defined(text) \cup Defined(items)
    BY <2>1, <2>2, <2>3, TopLedger DEF Emitted
  <2>8. Owed(top) \subseteq 1 .. labelcnt /\ OwnDistinct(top) /\ labelcnt \in Nat
    BY <2>1, TopLedger
  <2>9. /\ Owed(b) \subseteq Owed(top) \cup (labelcnt + 1 .. labelcnt + 1)
        /\ Owed(b) \cap Defined(items) = {}
    BY <2>1, <2>3, <2>4, <2>8 DEF OwnDistinct
  <2>10. QED
    BY <2>1, <2>2, <2>3, <2>4, <2>5, <2>6, <2>7, <2>9, CallInv
<1>5. CASE IfElse
  <2> DEFINE b == [top EXCEPT !.pc = "else"]
             items == <<Jump(top.endl), LabelDef(top.nextl)>>
  <2>1. /\ acts # <<>> /\ top.kind = "if" /\ top.pc = "body"
        /\ Call(b, StmtKinds, items, 0)
        /\ KeepLoop
    BY <1>5 DEF IfElse, At
  <2>2. /\ b \in Activation /\ b.kind = "if" /\ b.pc = "else"
        /\ b.startl = top.startl /\ b.nextl = top.nextl /\ b.endl = top.endl
        /\ b.prevbreak = top.prevbreak /\ b.prevcont = top.prevcont
    BY <2>1, TopLedger DEF Activation
  <2>3. /\ items \in Seq(Item) /\ UniqueDefs(items)
        /\ Defined(items) = {top.nextl} /\ Targets(items) = {top.endl}
    <3>1. top.nextl \in Label /\ top.endl \in Label
      BY <2>1, TopLedger
    <3>2. QED
      BY <3>1, Items, Zenon
  <2> HIDE DEF b, items
  <2>4. /\ Owed(top) = {top.nextl, top.endl}
        /\ Owed(b) = {top.endl} /\ Emitted(b) = {}
    BY <2>1, <2>2 DEF Owed, Emitted
  <2>5. OwnDistinct(b)
    BY <2>1, <2>2, TopLedger DEF OwnDistinct, Owed
  <2>6. SameLoop(top, b)
    BY <2>1, <2>2 DEF SameLoop, IsLoop
  <2>7. Emitted(b) \subseteq Defined(text) \cup Defined(items)
    BY <2>1, <2>2, <2>3, TopLedger DEF Emitted
  <2>8. Owed(top) \subseteq 1 .. labelcnt /\ OwnDistinct(top) /\ labelcnt \in Nat
    BY <2>1, TopLedger
  <2>9. /\ Owed(b) \subseteq Owed(top) \cup (labelcnt + 1 .. labelcnt + 0)
        /\ Owed(b) \cap Defined(items) = {}
    BY <2>1, <2>3, <2>4, <2>8 DEF OwnDistinct
  <2>10. QED
    BY <2>1, <2>2, <2>3, <2>4, <2>5, <2>6, <2>7, <2>9, CallInv
<1>6. CASE IfElseDone
  <2> DEFINE items == <<LabelDef(top.endl)>>
  <2>1. /\ acts # <<>> /\ top.kind = "if" /\ top.pc = "else"
        /\ Return(items) /\ KeepLoop
    BY <1>6 DEF IfElseDone, At
  <2>2. /\ Owed(top) = {top.endl}
        /\ ~IsLoop(top)
    BY <2>1 DEF Owed, IsLoop
  <2>3. /\ items \in Seq(Item) /\ UniqueDefs(items)
        /\ Defined(items) = {top.endl} /\ Targets(items) = {}
    BY <2>1, TopLedger, Items
  <2> HIDE DEF items
  <2>4. Targets(items) \subseteq Defined(text) \cup Owed(top)
    BY <2>1, <2>2, <2>3, TopLedger DEF Emitted
  <2>5. QED
    BY <2>1, <2>2, <2>3, <2>4, ReturnInv
<1>7. CASE IfDone
  <2> DEFINE items == <<Jump(top.endl), LabelDef(top.nextl), LabelDef(top.endl)>>
  <2>1. /\ acts # <<>> /\ top.kind = "if" /\ top.pc = "body"
        /\ Return(items) /\ KeepLoop
    BY <1>7 DEF IfDone, At
  <2>2. /\ Owed(top) = {top.nextl, top.endl}
        /\ ~IsLoop(top)
    BY <2>1 DEF Owed, IsLoop
  <2>3. top.nextl # top.endl
    BY <2>1, TopLedger DEF OwnDistinct
  <2>4. /\ items \in Seq(Item) /\ UniqueDefs(items)
        /\ Defined(items) = {top.nextl, top.endl} /\ Targets(items) = {top.endl}
    <3>1. top.startl \in Label /\ top.nextl \in Label /\ top.endl \in Label
      BY <2>1, TopLedger
    <3>2. QED
      BY <2>3, <3>1, JumpTwoLabels, Zenon
  <2> HIDE DEF items
  <2>5. Targets(items) \subseteq Defined(text) \cup Owed(top)
    BY <2>1, <2>2, <2>4, TopLedger DEF Emitted
  <2>6. QED
    BY <2>1, <2>2, <2>4, <2>5, ReturnInv
<1>8. QED
  BY <1>1, <1>2, <1>3, <1>4, <1>5, <1>6, <1>7 DEF IfArm

LEMMA WhileArmInv ==
  ASSUME IInv, WhileArm
  PROVE  IInv'
<1>1. CASE WhileCond
  <2> DEFINE b == [top EXCEPT !.pc = "cond", !.startl = labelcnt + 1,
                        !.endl = labelcnt + 2,
                        !.prevcont = contlabel,
                        !.prevbreak = breaklabel]
             items == <<LabelDef(labelcnt + 1)>>
  <2>1. /\ acts # <<>> /\ top.kind = "while" /\ top.pc = "enter"
        /\ Call(b, ExprKinds, items, 2)
        /\ breaklabel' = labelcnt + 2 /\ contlabel' = labelcnt + 1
    BY <1>1 DEF WhileCond, At
  <2>2. /\ b \in Activation /\ b.kind = "while" /\ b.pc = "cond"
        /\ b.startl = labelcnt + 1 /\ b.nextl = top.nextl /\ b.endl = labelcnt + 2
        /\ b.prevbreak = breaklabel /\ b.prevcont = contlabel
    BY <2>1, TopLedger DEF Activation
  <2>3. /\ items \in Seq(Item) /\ UniqueDefs(items)
        /\ Defined(items) = {labelcnt + 1} /\ Targets(items) = {}
    BY <2>1, TopLedger, Items
  <2> HIDE DEF b, items
  <2>4. /\ Owed(top) = {} /\ Owed(b) = {labelcnt + 2}
        /\ Emitted(b) = {labelcnt + 1}
    BY <2>1, <2>2 DEF Owed, Emitted
  <2>5. OwnDistinct(b)
    BY <2>1, <2>2, TopLedger DEF OwnDistinct, Owed
  <2>6. /\ labelcnt \in Nat /\ top.pc = "enter" /\ IsLoop(b)
        /\ breaklabel' = b.endl
        /\ contlabel' = IF b.kind = "while" THEN b.startl ELSE b.nextl
        /\ ExprKinds \in {ExprKinds, StmtKinds}
    BY <2>1, <2>2, TopLedger DEF IsLoop
  <2>7. /\ Owed(b) \subseteq labelcnt + 1 .. labelcnt + 2
        /\ Defined(items) \subseteq labelcnt + 1 .. labelcnt + 2
        /\ Owed(b) \cap Defined(items) = {}
        /\ Emitted(b) \subseteq Defined(items)
    BY <2>3, <2>4, <2>6
  <2>8. QED
    BY <2>1, <2>2, <2>3, <2>5, <2>6, <2>7, EnterInv
<1>2. CASE WhileBody
  <2> DEFINE b == [top EXCEPT !.pc = "body"]
             items == <<Jump(top.endl)>>
  <2>1. /\ acts # <<>> /\ top.kind = "while" /\ top.pc = "cond"
        /\ Call(b, StmtKinds, items, 0)
        /\ KeepLoop
    BY <1>2 DEF WhileBody, At
  <2>2. /\ b \in Activation /\ b.kind = "while" /\ b.pc = "body"
        /\ b.startl = top.startl /\ b.nextl = top.nextl /\ b.endl = top.endl
        /\ b.prevbreak = top.prevbreak /\ b.prevcont = top.prevcont
    BY <2>1, TopLedger DEF Activation
  <2>3. /\ items \in Seq(Item) /\ UniqueDefs(items)
        /\ Defined(items) = {} /\ Targets(items) = {top.endl}
    BY <2>1, TopLedger, Items
  <2> HIDE DEF b, items
  <2>4. /\ Owed(top) = {top.endl}
        /\ Owed(b) = {top.endl} /\ Emitted(b) = {top.startl}
    BY <2>1, <2>2 DEF Owed, Emitted
  <2>5. OwnDistinct(b)
    BY <2>1, <2>2, TopLedger DEF OwnDistinct, Owed
  <2>6. SameLoop(top, b)
    BY <2>1, <2>2 DEF SameLoop, IsLoop
  <2>7. Emitted(b) \subseteq Defined(text) \cup Defined(items)
    BY <2>1, <2>2, <2>3, TopLedger DEF Emitted
  <2>8. Owed(top) \subseteq 1 .. labelcnt /\ OwnDistinct(top) /\ labelcnt \in Nat
    BY <2>1, TopLedger
  <2>9. /\ Owed(b) \subseteq Owed(top) \cup (labelcnt + 1 .. labelcnt + 0)
        /\ Owed(b) \cap Defined(items) = {}
    BY <2>1, <2>3, <2>4, <2>8 DEF OwnDistinct
  <2>10. QED
    BY <2>1, <2>2, <2>3, <2>4, <2>5, <2>6, <2>7, <2>9, CallInv
<1>3. CASE WhileDone
  <2> DEFINE items == <<Jump(top.startl), LabelDef(top.endl)>>
  <2>1. /\ acts # <<>> /\ top.kind = "while" /\ top.pc = "body"
        /\ Return(items) /\ RestoreLoop
    BY <1>3 DEF WhileDone, At
  <2>2. /\ Owed(top) = {top.endl}
        /\ IsLoop(top)
    BY <2>1 DEF Owed, IsLoop
  <2>3. /\ items \in Seq(Item) /\ UniqueDefs(items)
        /\ Defined(items) = {top.endl} /\ Targets(items) = {top.startl}
    <3>1. top.startl \in Label /\ top.nextl \in Label /\ top.endl \in Label
      BY <2>1, TopLedger
    <3>2. QED
      BY <3>1, Items, Zenon
  <2> HIDE DEF items
  <2>4. Targets(items) \subseteq Defined(text) \cup Owed(top)
    BY <2>1, <2>2, <2>3, TopLedger DEF Emitted
  <2>5. QED
    BY <2>1, <2>2, <2>3, <2>4, ReturnInv
<1>4. QED
  BY <1>1, <1>2, <1>3 DEF WhileArm

LEMMA ForArmInv ==
  ASSUME IInv, ForArm
  PROVE  IInv'
<1>1. CASE ForInit
  <2> DEFINE b == [top EXCEPT !.pc = "init", !.startl = labelcnt + 1,
                        !.nextl = labelcnt + 2,
                        !.endl = labelcnt + 3,
                        !.prevcont = contlabel,
                        !.prevbreak = breaklabel]
             items == <<>>
  <2>1. /\ acts # <<>> /\ top.kind = "for" /\ top.pc = "enter"
        /\ Call(b, StmtKinds, items, 3)
        /\ breaklabel' = labelcnt + 3 /\ contlabel' = labelcnt + 2
    BY <1>1 DEF ForInit, At
  <2>2. /\ b \in Activation /\ b.kind = "for" /\ b.pc = "init"
        /\ b.startl = labelcnt + 1 /\ b.nextl = labelcnt + 2 /\ b.endl = labelcnt + 3
        /\ b.prevbreak = breaklabel /\ b.prevcont = contlabel
    BY <2>1, TopLedger DEF Activation
  <2>3. /\ items \in Seq(Item) /\ UniqueDefs(items)
        /\ Defined(items) = {} /\ Targets(items) = {}
    BY <2>1, NoItem
  <2> HIDE DEF b, items
  <2>4. /\ Owed(top) = {} /\ Owed(b) = {labelcnt + 1, labelcnt + 2, labelcnt + 3}
        /\ Emitted(b) = {}
    BY <2>1, <2>2 DEF Owed, Emitted
  <2>5. OwnDistinct(b)
    BY <2>1, <2>2, TopLedger DEF OwnDistinct, Owed
  <2>6. /\ labelcnt \in Nat /\ top.pc = "enter" /\ IsLoop(b)
        /\ breaklabel' = b.endl
        /\ contlabel' = IF b.kind = "while" THEN b.startl ELSE b.nextl
        /\ StmtKinds \in {ExprKinds, StmtKinds}
    BY <2>1, <2>2, TopLedger DEF IsLoop
  <2>7. /\ Owed(b) \subseteq labelcnt + 1 .. labelcnt + 3
        /\ Defined(items) \subseteq labelcnt + 1 .. labelcnt + 3
        /\ Owed(b) \cap Defined(items) = {}
        /\ Emitted(b) \subseteq Defined(items)
    BY <2>3, <2>4, <2>6
  <2>8. QED
    BY <2>1, <2>2, <2>3, <2>5, <2>6, <2>7, EnterInv
<1>2. CASE ForCond
  <2> DEFINE b == [top EXCEPT !.pc = "cond"]
             items == <<LabelDef(top.startl)>>
  <2>1. /\ acts # <<>> /\ top.kind = "for" /\ top.pc = "init"
        /\ Call(b, StmtKinds, items, 0)
        /\ KeepLoop
    BY <1>2 DEF ForCond, At
  <2>2. /\ b \in Activation /\ b.kind = "for" /\ b.pc = "cond"
        /\ b.startl = top.startl /\ b.nextl = top.nextl /\ b.endl = top.endl
        /\ b.prevbreak = top.prevbreak /\ b.prevcont = top.prevcont
    BY <2>1, TopLedger DEF Activation
  <2>3. /\ items \in Seq(Item) /\ UniqueDefs(items)
        /\ Defined(items) = {top.startl} /\ Targets(items) = {}
    BY <2>1, TopLedger, Items
  <2> HIDE DEF b, items
  <2>4. /\ Owed(top) = {top.startl, top.nextl, top.endl}
        /\ Owed(b) = {top.nextl, top.endl} /\ Emitted(b) = {top.startl}
    BY <2>1, <2>2 DEF Owed, Emitted
  <2>5. OwnDistinct(b)
    BY <2>1, <2>2, TopLedger DEF OwnDistinct, Owed
  <2>6. SameLoop(top, b)
    BY <2>1, <2>2 DEF SameLoop, IsLoop
  <2>7. Emitted(b) \subseteq Defined(text) \cup Defined(items)
    BY <2>1, <2>2, <2>3, TopLedger DEF Emitted
  <2>8. Owed(top) \subseteq 1 .. labelcnt /\ OwnDistinct(top) /\ labelcnt \in Nat
    BY <2>1, TopLedger
  <2>9. /\ Owed(b) \subseteq Owed(top) \cup (labelcnt + 1 .. labelcnt + 0)
        /\ Owed(b) \cap Defined(items) = {}
    BY <2>1, <2>3, <2>4, <2>8 DEF OwnDistinct
  <2>10. QED
    BY <2>1, <2>2, <2>3, <2>4, <2>5, <2>6, <2>7, <2>9, CallInv
<1>3. CASE ForBody
  <2> DEFINE b == [top EXCEPT !.pc = "body"]
             items == <<Jump(top.endl)>>
  <2>1. /\ acts # <<>> /\ top.kind = "for" /\ top.pc = "cond"
        /\ Call(b, StmtKinds, items, 0)
        /\ KeepLoop
    BY <1>3 DEF ForBody, At
  <2>2. /\ b \in Activation /\ b.kind = "for" /\ b.pc = "body"
        /\ b.startl = top.startl /\ b.nextl = top.nextl /\ b.endl = top.endl
        /\ b.prevbreak = top.prevbreak /\ b.prevcont = top.prevcont
    BY <2>1, TopLedger DEF Activation
  <2>3. /\ items \in Seq(Item) /\ UniqueDefs(items)
        /\ Defined(items) = {} /\ Targets(items) = {top.endl}
    BY <2>1, TopLedger, Items
  <2> HIDE DEF b, items
  <2>4. /\ Owed(top) = {top.nextl, top.endl}
        /\ Owed(b) = {top.nextl, top.endl} /\ Emitted(b) = {top.startl}
    BY <2>1, <2>2 DEF Owed, Emitted
  <2>5. OwnDistinct(b)
    BY <2>1, <2>2, TopLedger DEF OwnDistinct, Owed
  <2>6. SameLoop(top, b)
    BY <2>1, <2>2 DEF SameLoop, IsLoop
  <2>7. Emitted(b) \subseteq Defined(text) \cup Defined(items)
    BY <2>1, <2>2, <2>3, TopLedger DEF Emitted
  <2>8. Owed(top) \subseteq 1 .. labelcnt /\ OwnDistinct(top) /\ labelcnt \in Nat
    BY <2>1, TopLedger
  <2>9. /\ Owed(b) \subseteq Owed(top) \cup (labelcnt + 1 .. labelcnt + 0)
        /\ Owed(b) \cap Defined(items) = {}
    BY <2>1, <2>3, <2>4, <2>8 DEF OwnDistinct
  <2>10. QED
    BY <2>1, <2>2, <2>3, <2>4, <2>5, <2>6, <2>7, <2>9, CallInv
<1>4. CASE ForNext
  <2> DEFINE b == [top EXCEPT !.pc = "next"]
             items == <<LabelDef(top.nextl)>>
  <2>1. /\ acts # <<>> /\ top.kind = "for" /\ top.pc = "body"
        /\ Call(b, StmtKinds, items, 0)
        /\ KeepLoop
    BY <1>4 DEF ForNext, At
  <2>2. /\ b \in Activation /\ b.kind = "for" /\ b.pc = "next"
        /\ b.startl = top.startl /\ b.nextl = top.nextl /\ b.endl = top.endl
        /\ b.prevbreak = top.prevbreak /\ b.prevcont = top.prevcont
    BY <2>1, TopLedger DEF Activation
  <2>3. /\ items \in Seq(Item) /\ UniqueDefs(items)
        /\ Defined(items) = {top.nextl} /\ Targets(items) = {}
    BY <2>1, TopLedger, Items
  <2> HIDE DEF b, items
  <2>4. /\ Owed(top) = {top.nextl, top.endl}
        /\ Owed(b) = {top.endl} /\ Emitted(b) = {top.startl, top.nextl}
    BY <2>1, <2>2 DEF Owed, Emitted
  <2>5. OwnDistinct(b)
    BY <2>1, <2>2, TopLedger DEF OwnDistinct, Owed
  <2>6. SameLoop(top, b)
    BY <2>1, <2>2 DEF SameLoop, IsLoop
  <2>7. Emitted(b) \subseteq Defined(text) \cup Defined(items)
    BY <2>1, <2>2, <2>3, TopLedger DEF Emitted
  <2>8. Owed(top) \subseteq 1 .. labelcnt /\ OwnDistinct(top) /\ labelcnt \in Nat
    BY <2>1, TopLedger
  <2>9. /\ Owed(b) \subseteq Owed(top) \cup (labelcnt + 1 .. labelcnt + 0)
        /\ Owed(b) \cap Defined(items) = {}
    BY <2>1, <2>3, <2>4, <2>8 DEF OwnDistinct
  <2>10. QED
    BY <2>1, <2>2, <2>3, <2>4, <2>5, <2>6, <2>7, <2>9, CallInv
<1>5. CASE ForDone
  <2> DEFINE items == <<Jump(top.startl), LabelDef(top.endl)>>
  <2>1. /\ acts # <<>> /\ top.kind = "for" /\ top.pc = "next"
        /\ Return(items) /\ RestoreLoop
    BY <1>5 DEF ForDone, At
  <2>2. /\ Owed(top) = {top.endl}
        /\ IsLoop(top)
    BY <2>1 DEF Owed, IsLoop
  <2>3. /\ items \in Seq(Item) /\ UniqueDefs(items)
        /\ Defined(items) = {top.endl} /\ Targets(items) = {top.startl}
    <3>1. top.startl \in Label /\ top.nextl \in Label /\ top.endl \in Label
      BY <2>1, TopLedger
    <3>2. QED
      BY <3>1, Items, Zenon
  <2> HIDE DEF items
  <2>4. Targets(items) \subseteq Defined(text) \cup Owed(top)
    BY <2>1, <2>2, <2>3, TopLedger DEF Emitted
  <2>5. QED
    BY <2>1, <2>2, <2>3, <2>4, ReturnInv
<1>6. QED
  BY <1>1, <1>2, <1>3, <1>4, <1>5 DEF ForArm

\* The labels of a function's string literals are fresh and all defined.
LEMMA StringLabels ==
  ASSUME NEW k \in Nat, NEW n \in Nat,
         NEW t, t = [i \in 1 .. n |-> LabelDef(k + i)]
  PROVE  /\ t \in Seq(Item) /\ Targets(t) = {} /\ UniqueDefs(t)
         /\ Defined(t) = k + 1 .. k + n
<1>1. \A i \in 1 .. n : /\ LabelDef(k + i) \in Item
                        /\ LabelDef(k + i).op = "label"
                        /\ LabelDef(k + i).label = k + i
  BY DEF LabelDef, Item, Label
<1>2. t \in Seq(Item) /\ Len(t) = n
      /\ \A i \in 1 .. n : t[i].op = "label" /\ t[i].label = k + i
  <2>1. \A i \in 1 .. n : t[i] = LabelDef(k + i)
    OBVIOUS
  <2>2. t \in Seq(Item)
    <3>1. t \in [1 .. n -> Item]
      BY <1>1
    <3>2. QED
      BY <3>1, SeqDef
  <2>3. Len(t) = n
    OBVIOUS
  <2>4. QED
    BY <1>1, <2>1, <2>2, <2>3
<1>3. Targets(t) = {} /\ UniqueDefs(t)
  <2>1. \A j \in 1 .. Len(t) : t[j].op \notin {"jump", "ref"}
    BY <1>2
  <2>2. Targets(t) = {}
    BY <2>1, Zenon DEF Targets
  <2>3. \A i, j \in 1 .. Len(t) : t[i].label = t[j].label => i = j
    <3>1. \A i, j \in 1 .. n : k + i = k + j => i = j
      OBVIOUS
    <3>2. QED
      BY <1>2, <3>1
  <2>4. UniqueDefs(t)
    BY <2>3 DEF UniqueDefs
  <2>5. QED
    BY <2>2, <2>4
<1>4. Defined(t) = k + 1 .. k + n
  <2>1. \A l \in k + 1 .. k + n : l - k \in 1 .. n /\ k + (l - k) = l
    OBVIOUS
  <2>2. \A i \in 1 .. n : k + i \in k + 1 .. k + n
    OBVIOUS
  <2>3. k + 1 .. k + n \subseteq Defined(t)
    <3>1. SUFFICES ASSUME NEW l \in k + 1 .. k + n
                   PROVE  l \in Defined(t)
      OBVIOUS
    <3>2. l - k \in 1 .. Len(t) /\ t[l - k].op = "label" /\ t[l - k].label = l
      BY <1>2, <2>1
    <3>3. QED
      BY <3>2 DEF Defined
  <2>4. Defined(t) \subseteq k + 1 .. k + n
    BY <1>2, <2>2 DEF Defined
  <2>5. QED
    BY <2>3, <2>4
<1>5. QED
  BY <1>2, <1>3, <1>4

LEMMA ToplevelInv ==
  ASSUME IInv, Toplevel
  PROVE  IInv'
<1>1. PICK n \in 0 .. MaxStrs :
        /\ strlits' = labelcnt + 1 .. labelcnt + n
        /\ labelcnt' = labelcnt + n
        /\ text' = Append(text \o [i \in 1 .. n |-> LabelDef(labelcnt + i)], Fn)
  BY DEF Toplevel
<1>2. /\ acts = <<>> /\ tops' = tops + 1
      /\ breaklabel' = NULL /\ contlabel' = NULL /\ acts' = <<Enter("block")>>
  BY DEF Toplevel
<1>3. /\ labelcnt \in Nat /\ text \in Seq(Item) /\ n \in Nat
      /\ nodes \in Nat /\ nodes' \in Nat /\ tops \in Nat
  <2>1. \E k \in 0 .. MaxStrs : nodes' = nodes + k * StrNodes
    BY DEF Toplevel
  <2>2. \A k \in 0 .. MaxStrs : k * StrNodes \in Nat
    BY BoundsAssumption
  <2>3. QED
    BY <2>1, <2>2, BoundsAssumption DEF IInv, Typed
<1> DEFINE t == [i \in 1 .. n |-> LabelDef(labelcnt + i)]
<1>4. /\ t \in Seq(Item) /\ Targets(t) = {} /\ UniqueDefs(t)
      /\ Defined(t) = labelcnt + 1 .. labelcnt + n
  BY <1>3, StringLabels
<1> HIDE DEF t
<1>5. /\ <<Fn>> \in Seq(Item) /\ Defined(<<Fn>>) = {} /\ Targets(<<Fn>>) = {}
      /\ UniqueDefs(<<Fn>>)
  <2> DEFINE f == <<Fn>>
  <2>1. f \in Seq(Item) /\ Len(f) = 1 /\ f[1].op = "fn"
    BY DEF Fn, Item, NULL, Label
  <2> HIDE DEF f
  <2>2. Defined(f) = {} /\ Targets(f) = {} /\ UniqueDefs(f)
    BY <2>1, OneItem DEF DefinedBy, TargetsOf
  <2>3. QED
    BY <2>1, <2>2, Zenon DEF f
<1>6. text' = (text \o t) \o <<Fn>>
  <2>1. text' = Append(text \o t, Fn)
    BY <1>1, Zenon DEF t
  <2>2. text \o t \in Seq(Item) /\ Fn \in Item
    BY <1>3, <1>4, DefinedConcat DEF Fn, Item, NULL, Label
  <2>3. QED
    BY <2>1, <2>2, AppendIsConcat
<1>7. /\ text \o t \in Seq(Item)
      /\ Defined(text \o t) = Defined(text) \cup (labelcnt + 1 .. labelcnt + n)
      /\ Targets(text \o t) = Targets(text)
  <2>1. /\ text \o t \in Seq(Item)
        /\ Defined(text \o t) = Defined(text) \cup Defined(t)
        /\ Targets(text \o t) = Targets(text) \cup Targets(t)
    BY <1>3, <1>4, DefinedConcat
  <2>2. QED
    BY <1>4, <2>1
<1>8. /\ text' \in Seq(Item)
      /\ Defined(text') = Defined(text) \cup (labelcnt + 1 .. labelcnt + n)
      /\ Targets(text') = Targets(text)
  <2>1. /\ (text \o t) \o <<Fn>> \in Seq(Item)
        /\ Defined((text \o t) \o <<Fn>>) = Defined(text \o t) \cup Defined(<<Fn>>)
        /\ Targets((text \o t) \o <<Fn>>) = Targets(text \o t) \cup Targets(<<Fn>>)
    BY <1>5, <1>7, DefinedConcat
  <2>2. QED
    BY <1>5, <1>6, <1>7, <2>1
<1>9. /\ Defined(text) \subseteq 1 .. labelcnt /\ UniqueDefs(text)
      /\ Targets(text) \subseteq Defined(text) \cup {NULL}
  BY <1>2 DEF IInv, Ledger, OwedAll
<1>10. UniqueDefs(text')
  <2>1. Defined(text) \cap Defined(t) = {}
    BY <1>3, <1>4, <1>9
  <2>2. UniqueDefs(text \o t)
    BY <1>3, <1>4, <1>9, <2>1, UniqueConcat
  <2>3. QED
    BY <1>5, <1>6, <1>7, <2>2, UniqueConcat
<1>11. /\ acts' \in Seq(Activation) /\ Len(acts') = 1 /\ 1 .. 1 = {1}
       /\ Owed(acts'[1]) = {} /\ Emitted(acts'[1]) = {} /\ OwnDistinct(acts'[1])
       /\ ~IsLoop(acts'[1])
  <2>1. Enter("block") \in Activation
    BY EnterActivation DEF StmtKinds
  <2>2. acts' \in Seq(Activation) /\ Len(acts') = 1 /\ acts'[1] = Enter("block")
    BY <1>2, <2>1
  <2>3. QED
    BY <2>2, EnterActivation DEF StmtKinds
<1>12. Typed'
  BY <1>1, <1>2, <1>3, <1>8, <1>11 DEF Typed, Label, NULL
<1>13. Ledger'
  <2>1. Defined(text') \subseteq 1 .. labelcnt'
    BY <1>1, <1>3, <1>8, <1>9
  <2>2. Targets(text') \subseteq Defined(text') \cup OwedAll' \cup {NULL}
    BY <1>8, <1>9
  <2>3. strlits' \subseteq Defined(text')
    BY <1>1, <1>8
  <2>4. \A i \in 1 .. Len(acts') : /\ Owed(acts'[i]) = {} /\ Emitted(acts'[i]) = {}
                                   /\ OwnDistinct(acts'[i])
    BY <1>11
  <2>5. QED
    BY <1>10, <2>1, <2>2, <2>3, <2>4 DEF Ledger
<1>14. Loops'
  BY <1>2, <1>11 DEF Loops, LoopLabels
<1>15. QED
  BY <1>12, <1>13, <1>14 DEF IInv

-----------------------------------------------------------------------------
LEMMA InitInv == Init => IInv
<1>1. SUFFICES ASSUME Init PROVE IInv
  OBVIOUS
<1>2. Typed
  BY <1>1 DEF Init, Typed, Label, NULL
<1>3. Ledger
  BY <1>1, NoItem DEF Init, Ledger
<1>4. Loops
  BY <1>1 DEF Init, Loops, LoopLabels
<1>5. QED
  BY <1>2, <1>3, <1>4 DEF IInv

LEMMA NextInv == IInv /\ [Next]_vars => IInv'
<1>1. SUFFICES ASSUME IInv, [Next]_vars PROVE IInv'
  OBVIOUS
<1>2. CASE Next
  BY <1>1, <1>2, ToplevelInv, PlainArmsInv, LogicArmInv, IfArmInv, WhileArmInv,
     ForArmInv DEF Next
<1>3. CASE UNCHANGED vars
  BY <1>1, <1>3 DEF vars, IInv, Typed, Ledger, Loops, LoopLabels, Innermost, OwedAll
<1>4. QED
  BY <1>1, <1>2, <1>3

LEMMA Inductive == Spec => []IInv
<1>1. QED
  BY InitInv, NextInv, PTL DEF Spec

\* No label is used that gen_label() (semantic.c:14) has not drawn, by whichever
\* pass: not by break and continue, not for a literal, not in the text.
THEOREM TypeCorrect == Spec => []TypeOK
<1>1. IInv => TypeOK
  <2> SUFFICES ASSUME IInv
               PROVE  TypeOK
    OBVIOUS
  <2>1. /\ acts \in Seq(Activation) /\ Len(acts) \in Nat
        /\ text \in Seq(Item) /\ labelcnt \in Nat /\ nodes \in Nat /\ tops \in Nat
    BY DEF IInv, Typed
  <2>2. Defined(text) \subseteq Drawn /\ strlits \subseteq Drawn
    BY <2>1 DEF IInv, Ledger, Drawn, NULL
  <2>3. \A i \in 1 .. Len(acts) : Owed(acts[i]) \subseteq Drawn
    BY <2>1 DEF IInv, Ledger, Drawn, NULL
  <2>4. Targets(text) \subseteq Drawn
    <3>1. OwedAll \subseteq Drawn /\ NULL \in Drawn
      BY <2>1, <2>3 DEF OwedAll, Drawn, NULL
    <3> QED BY <3>1, <2>2 DEF IInv, Ledger
  <2>5. breaklabel \in Drawn /\ contlabel \in Drawn
    <3>1. CASE breaklabel = NULL /\ contlabel = NULL
      BY <3>1, <2>1 DEF Drawn, NULL
    <3>2. ASSUME NEW j \in 1 .. Len(acts), IsLoop(acts[j]), breaklabel = acts[j].endl,
                 contlabel = IF acts[j].kind = "while" THEN acts[j].startl ELSE acts[j].nextl
          PROVE  breaklabel \in Drawn /\ contlabel \in Drawn
      <4>1. acts[j].endl \in Owed(acts[j])
        BY <3>2 DEF IsLoop, Owed
      <4>2. contlabel \in Owed(acts[j]) \cup Emitted(acts[j])
        BY <3>2 DEF IsLoop, Owed, Emitted
      <4>3. Emitted(acts[j]) \subseteq Defined(text)
        BY DEF IInv, Ledger
      <4> QED BY <4>1, <4>2, <4>3, <3>2, <2>2, <2>3
    <3> QED BY <3>1, <3>2 DEF IInv, Loops, LoopLabels, Innermost
  <2> QED BY <2>1, <2>2, <2>4, <2>5 DEF TypeOK
<1>2. QED
  BY <1>1, Inductive, PTL

\* No two lines of the output define the same label, whatever the functions,
\* their string literals and their nesting: gen_label() serves them all.
THEOREM LabelsAreUnique == Spec => []LabelsUnique
<1>1. IInv => LabelsUnique
  BY DEF IInv, Ledger, LabelsUnique
<1>2. QED
  BY <1>1, Inductive, PTL

\* Every jump and every reference to a string literal of a finished function
\* has its label in the output, unless it is a break outside of all loops.
THEOREM JumpsAreResolved == Spec => []JumpsResolved
<1>1. IInv => JumpsResolved
  <2>1. ASSUME acts = <<>> PROVE OwedAll = {}
    BY <2>1 DEF OwedAll
  <2>2. QED
    BY <2>1 DEF IInv, Ledger, JumpsResolved
<1>2. QED
  BY <1>1, Inductive, PTL

\* breaklabel and contlabel, saved and restored by hand around every loop,
\* always are the labels of the innermost loop being emitted.
THEOREM BreakGoesToInnermost == Spec => []BreakInnermost
<1>1. IInv => BreakInnermost
  BY DEF IInv, Loops, BreakInnermost
<1>2. QED
  BY <1>1, Inductive, PTL

-----------------------------------------------------------------------------
(***************************************************************************)
(* Jumps stay in their function.  No function starts after the first jump  *)
(* to an owed label, nor after the definition of a label some activation   *)
(* jumps back to.                                                          *)
(***************************************************************************)

\* No function starts after the i-th item of t.
InLastFunction(t, i) == \A k \in 1 .. Len(t) : t[k].op = "fn" => k < i

EmittedAll == UNION {Emitted(acts[i]) : i \in 1 .. Len(acts)}

StayInv ==
  /\ JumpsStayInFunction
  /\ \A i \in 1 .. Len(text) :
       text[i].op = "jump" /\ text[i].label \in OwedAll => InLastFunction(text, i)
  /\ \A i \in 1 .. Len(text) :
       text[i].op = "label" /\ text[i].label \in EmittedAll => InLastFunction(text, i)

NoFn(t) == \A i \in 1 .. Len(t) : t[i].op # "fn"
JumpTargets(t) == {t[i].label : i \in {j \in 1 .. Len(t) : t[j].op = "jump"}}

-----------------------------------------------------------------------------
\* The lists of items the arms emit.
LEMMA StayItems ==
  ASSUME NEW a \in Label, NEW b \in Label, NEW c \in Label
  PROVE  /\ NoFn(<<>>) /\ JumpTargets(<<>>) = {}
         /\ NoFn(<<LabelDef(a)>>) /\ JumpTargets(<<LabelDef(a)>>) = {}
         /\ NoFn(<<Ref(a)>>) /\ JumpTargets(<<Ref(a)>>) = {}
         /\ NoFn(<<Jump(a)>>) /\ JumpTargets(<<Jump(a)>>) = {a}
         /\ NoFn(<<Jump(a), LabelDef(b)>>)
         /\ JumpTargets(<<Jump(a), LabelDef(b)>>) = {a}
         /\ NoFn(<<Jump(a), LabelDef(b), LabelDef(c)>>)
         /\ JumpTargets(<<Jump(a), LabelDef(b), LabelDef(c)>>) = {a}
<1>1. 1 .. 0 = {} /\ 1 .. 1 = {1} /\ 1 .. 2 = {1, 2} /\ 1 .. 3 = {1, 2, 3}
  OBVIOUS
<1>2. NoFn(<<>>) /\ JumpTargets(<<>>) = {}
  BY DEF NoFn, JumpTargets
<1>3. /\ NoFn(<<LabelDef(a)>>) /\ JumpTargets(<<LabelDef(a)>>) = {}
      /\ NoFn(<<Ref(a)>>) /\ JumpTargets(<<Ref(a)>>) = {}
      /\ NoFn(<<Jump(a)>>) /\ JumpTargets(<<Jump(a)>>) = {a}
  BY <1>1 DEF NoFn, JumpTargets, LabelDef, Ref, Jump
<1>4. NoFn(<<Jump(a), LabelDef(b)>>) /\ JumpTargets(<<Jump(a), LabelDef(b)>>) = {a}
  BY <1>1 DEF NoFn, JumpTargets, LabelDef, Jump
<1>5. /\ NoFn(<<Jump(a), LabelDef(b), LabelDef(c)>>)
      /\ JumpTargets(<<Jump(a), LabelDef(b), LabelDef(c)>>) = {a}
  BY <1>1 DEF NoFn, JumpTargets, LabelDef, Jump
<1>6. QED
  BY <1>2, <1>3, <1>4, <1>5

LEMMA NoItemStays ==
  <<>> \in Seq(Item) /\ NoFn(<<>>) /\ JumpTargets(<<>>) = {}
<1>1. NoFn(<<>>) /\ JumpTargets(<<>>) = {}
  BY DEF NoFn, JumpTargets
<1>2. QED
  BY <1>1, NoItem

LEMMA JumpStays ==
  ASSUME NEW a \in Label
  PROVE  /\ <<Jump(a)>> \in Seq(Item) /\ NoFn(<<Jump(a)>>)
         /\ JumpTargets(<<Jump(a)>>) = {a}
<1>1. QED
  BY Items, StayItems, Zenon

LEMMA LabelStays ==
  ASSUME NEW a \in Label
  PROVE  /\ <<LabelDef(a)>> \in Seq(Item) /\ NoFn(<<LabelDef(a)>>)
         /\ JumpTargets(<<LabelDef(a)>>) = {}
<1>1. QED
  BY Items, StayItems, Zenon

LEMMA JumpLabelStays ==
  ASSUME NEW a \in Label, NEW b \in Label
  PROVE  /\ <<Jump(a), LabelDef(b)>> \in Seq(Item)
         /\ NoFn(<<Jump(a), LabelDef(b)>>)
         /\ JumpTargets(<<Jump(a), LabelDef(b)>>) = {a}
<1>1. QED
  BY Items, StayItems, Zenon

LEMMA JumpLabelsStay ==
  ASSUME NEW a \in Label, NEW b \in Label, NEW c \in Label, b # c
  PROVE  /\ <<Jump(a), LabelDef(b), LabelDef(c)>> \in Seq(Item)
         /\ NoFn(<<Jump(a), LabelDef(b), LabelDef(c)>>)
         /\ JumpTargets(<<Jump(a), LabelDef(b), LabelDef(c)>>) = {a}
<1>1. QED
  BY JumpTwoLabels, StayItems, Zenon

\* A step that starts no function keeps the jumps in theirs, if it jumps back only
\* to labels some activation answers for.
LEMMA AppendedStay ==
  ASSUME IInv, IInv', StayInv, NEW items \in Seq(Item), text' = text \o items,
         NoFn(items), JumpTargets(items) \cap Defined(text) \subseteq EmittedAll,
         EmittedAll' \subseteq EmittedAll \cup Defined(items)
  PROVE  StayInv'
<1> DEFINE m == Len(text)
<1>1. /\ m \in Nat /\ Len(items) \in Nat /\ Len(text') = m + Len(items)
      /\ \A i \in 1 .. m + Len(items) :
           text'[i] = IF i <= m THEN text[i] ELSE items[i - m]
  BY ConcatProperties, LenProperties DEF IInv, Typed
<1>2. \A i \in 1 .. Len(text') :
        \/ i \in 1 .. m /\ text'[i] = text[i]
        \/ i > m /\ i - m \in 1 .. Len(items) /\ text'[i] = items[i - m]
  BY <1>1
<1>3. \A i \in 1 .. m : i \in 1 .. Len(text') /\ text'[i] = text[i]
  BY <1>1
<1>4. \A k \in 1 .. Len(text') : text'[k].op = "fn" => k \in 1 .. m /\ text[k].op = "fn"
  BY <1>2 DEF NoFn
<1>5. \A i \in 1 .. Len(text') : i > m => InLastFunction(text', i)
  BY <1>1, <1>4 DEF InLastFunction
<1>6. \A i \in 1 .. m : InLastFunction(text, i) => InLastFunction(text', i)
  BY <1>4 DEF InLastFunction
<1>7. \A i \in 1 .. m : /\ text[i].op = "label" => text[i].label \in Defined(text)
                        /\ text[i].op = "jump" => text[i].label \in Targets(text)
  BY DEF Defined, Targets
<1>8. \A i \in 1 .. Len(items) :
        /\ items[i].op = "label" => items[i].label \in Defined(items)
        /\ items[i].op = "jump" => items[i].label \in JumpTargets(items)
  BY DEF Defined, JumpTargets
<1>9. Defined(items) \cap Defined(text) = {}
  <2>1. ASSUME NEW l \in Defined(items), l \in Defined(text) PROVE FALSE
    <3>1. PICK i \in 1 .. m : text[i].op = "label" /\ text[i].label = l
      BY <2>1 DEF Defined
    <3>2. PICK j \in 1 .. Len(items) : items[j].op = "label" /\ items[j].label = l
      BY <2>1 DEF Defined
    <3>3. m + j \in 1 .. Len(text') /\ text'[m + j] = items[j] /\ i # m + j
      BY <1>1
    <3>4. UniqueDefs(text')
      BY DEF IInv, Ledger
    <3>5. QED
      BY <1>3, <3>1, <3>2, <3>3, <3>4 DEF UniqueDefs
  <2>2. QED
    BY <2>1
<1>10. Targets(text) \subseteq Defined(text) \cup OwedAll \cup {NULL}
  BY DEF IInv, Ledger
<1>11. /\ Defined(text') = Defined(text) \cup Defined(items)
       /\ Defined(text') \subseteq 1 .. labelcnt'
       /\ \A i \in 1 .. Len(acts') : /\ Owed(acts'[i]) \subseteq 1 .. labelcnt'
                                     /\ Owed(acts'[i]) \cap Defined(text') = {}
  BY DefinedConcat DEF IInv, Ledger, Typed
<1>12. /\ NULL \notin Defined(text') /\ NULL \notin OwedAll'
       /\ OwedAll' \cap Defined(text') = {}
  BY <1>11 DEF OwedAll, NULL
<1> HIDE DEF m
<1>13. ASSUME NEW i \in 1 .. m, text[i].op = "jump",
              text[i].label \in OwedAll' \cup Defined(items)
       PROVE  InLastFunction(text', i)
  <2>1. text[i].label \in OwedAll
    BY <1>7, <1>9, <1>10, <1>11, <1>12, <1>13
  <2>2. QED
    BY <1>6, <1>13, <2>1 DEF StayInv, m
<1>14. ASSUME NEW i \in 1 .. m, text[i].op = "label", text[i].label \in EmittedAll
       PROVE  InLastFunction(text', i)
  BY <1>6, <1>14 DEF StayInv, m
<1>15. \A i \in 1 .. Len(text') :
         text'[i].op = "jump" /\ text'[i].label \in OwedAll' => InLastFunction(text', i)
  BY <1>2, <1>5, <1>13
<1>16. \A i \in 1 .. Len(text') :
         text'[i].op = "label" /\ text'[i].label \in EmittedAll' =>
           InLastFunction(text', i)
  <2>1. SUFFICES ASSUME NEW i \in 1 .. Len(text'), text'[i].op = "label",
                        text'[i].label \in EmittedAll'
                 PROVE  InLastFunction(text', i)
    OBVIOUS
  <2>2. CASE i \in 1 .. m /\ text'[i] = text[i]
    <3>1. text[i].label \in EmittedAll
      BY <1>7, <1>9, <2>1, <2>2
    <3>2. QED
      BY <1>14, <2>1, <2>2, <3>1
  <2>3. QED
    BY <1>2, <1>5, <2>2
<1>17. JumpsStayInFunction'
  <2>1. SUFFICES ASSUME NEW i \in 1 .. Len(text'), NEW j \in 1 .. Len(text'),
                        text'[i].op = "jump", text'[j].op = "label",
                        text'[i].label = text'[j].label,
                        NEW k \in 1 .. Len(text'), text'[k].op = "fn"
                 PROVE  k < i <=> k < j
    BY DEF JumpsStayInFunction
  <2>2. CASE i \in 1 .. m /\ j \in 1 .. m
    BY <1>3, <1>4, <2>1, <2>2 DEF StayInv, JumpsStayInFunction, m
  <2>3. CASE i \in 1 .. m /\ j > m
    <3>1. text[i].label \in Defined(items)
      BY <1>2, <1>3, <1>8, <2>1, <2>3, <1>1 DEF m
    <3>2. InLastFunction(text', i) /\ InLastFunction(text', j)
      BY <1>3, <1>5, <1>13, <2>1, <2>3, <3>1
    <3>3. QED
      BY <2>1, <3>2 DEF InLastFunction
  <2>4. CASE i > m /\ j \in 1 .. m
    <3>1. text'[i].label \in JumpTargets(items)
      BY <1>2, <1>8, <2>1, <2>4, <1>1 DEF m
    <3>2. text[j].op = "label" /\ text[j].label \in EmittedAll
      BY <1>3, <1>7, <2>1, <2>4, <3>1
    <3>3. InLastFunction(text', i) /\ InLastFunction(text', j)
      BY <1>5, <1>14, <2>4, <3>2
    <3>4. QED
      BY <2>1, <3>3 DEF InLastFunction
  <2>5. CASE i > m /\ j > m
    BY <1>5, <2>1, <2>5 DEF InLastFunction
  <2>6. QED
    BY <1>2, <2>2, <2>3, <2>4, <2>5
<1>18. QED
  BY <1>15, <1>16, <1>17 DEF StayInv

-----------------------------------------------------------------------------
\* A call jumps only to labels the caller will still define.
LEMMA CallStay ==
  ASSUME IInv, IInv', StayInv, acts # <<>>,
         NEW b \in Activation, NEW kinds \in {ExprKinds, StmtKinds},
         NEW items \in Seq(Item), NEW n, Call(b, kinds, items, n),
         NoFn(items), JumpTargets(items) \subseteq Owed(b),
         Emitted(b) \subseteq Emitted(top) \cup Defined(items)
  PROVE  StayInv'
<1> DEFINE m == Len(acts)
<1>1. text \in Seq(Item) /\ acts \in Seq(Activation) /\ text' = text \o items
  BY DEF IInv, Typed, Call
<1>2. /\ m \in Nat \ {0} /\ Len(acts') = m + 1
      /\ \A i \in 1 .. m - 1 : acts'[i] = acts[i]
      /\ acts'[m] = b /\ Emitted(acts'[m + 1]) = {}
  BY <1>1, CallActs, EnterActivation DEF ExprKinds, StmtKinds
<1>3. top = acts[m] /\ m \in 1 .. m /\ m \in 1 .. Len(acts')
  BY <1>2 DEF top
<1>4. \A i \in 1 .. m + 1 : (i \in 1 .. m - 1 /\ i \in 1 .. m) \/ i = m \/ i = m + 1
  BY <1>2
<1>5. EmittedAll' \subseteq EmittedAll \cup Defined(items)
  <2>1. SUFFICES ASSUME NEW i \in 1 .. m + 1
                 PROVE  Emitted(acts'[i]) \subseteq EmittedAll \cup Defined(items)
    BY <1>2 DEF EmittedAll
  <2>2. \A j \in 1 .. m : Emitted(acts[j]) \subseteq EmittedAll
    BY DEF EmittedAll
  <2> HIDE DEF m
  <2>3. QED
    BY <1>2, <1>3, <1>4, <2>2
<1>6. JumpTargets(items) \cap Defined(text) = {}
  <2>1. Defined(text) \subseteq Defined(text')
    BY <1>1, DefinedConcat
  <2>2. Owed(b) \cap Defined(text') = {}
    BY <1>2, <1>3 DEF IInv, Ledger
  <2>3. QED
    BY <2>1, <2>2
<1>7. QED
  BY <1>1, <1>5, <1>6, AppendedStay

\* A return jumps back only to what some activation has emitted.
LEMMA ReturnStay ==
  ASSUME IInv, IInv', StayInv, acts # <<>>,
         NEW items \in Seq(Item), Return(items), NoFn(items),
         JumpTargets(items) \cap Defined(text) \subseteq EmittedAll
  PROVE  StayInv'
<1>1. acts \in Seq(Activation) /\ text' = text \o items
  BY DEF IInv, Typed, Return
<1>2. /\ Len(acts) \in Nat \ {0} /\ Len(acts') = Len(acts) - 1
      /\ \A i \in 1 .. Len(acts) - 1 : acts'[i] = acts[i]
  BY <1>1, ReturnActs
<1>3. \A i \in 1 .. Len(acts') : i \in 1 .. Len(acts) /\ acts'[i] = acts[i]
  BY <1>2
<1>4. EmittedAll' \subseteq EmittedAll
  BY <1>3 DEF EmittedAll
<1>5. QED
  BY <1>1, <1>4, AppendedStay

\* break and continue jump to what a loop around them owes or has emitted.
LEMMA LoopJumps ==
  ASSUME IInv, NEW l \in {breaklabel, contlabel}, l \in Defined(text)
  PROVE  l \in EmittedAll
<1>1. NULL \notin Defined(text)
  BY DEF IInv, Ledger, NULL
<1>2. PICK j \in 1 .. Len(acts) :
        /\ IsLoop(acts[j])
        /\ breaklabel = acts[j].endl
        /\ contlabel = IF acts[j].kind = "while" THEN acts[j].startl ELSE acts[j].nextl
  BY <1>1 DEF IInv, Loops, LoopLabels, Innermost
<1>3. acts[j] \in Activation
  BY DEF IInv, Typed
<1>4. l \in Owed(acts[j]) \cup Emitted(acts[j])
  BY <1>2, <1>3 DEF IsLoop, Owed, Emitted, Activation
<1>5. Owed(acts[j]) \cap Defined(text) = {}
  BY DEF IInv, Ledger
<1>6. QED
  BY <1>4, <1>5 DEF EmittedAll

LEMMA TopEmitted ==
  ASSUME IInv, acts # <<>>
  PROVE  Emitted(top) \subseteq EmittedAll /\ Owed(top) \cap Defined(text) = {}
<1>1. Len(acts) \in 1 .. Len(acts)
  BY EmptySeq DEF IInv, Typed
<1>2. QED
  BY <1>1 DEF top, EmittedAll, IInv, Ledger
-----------------------------------------------------------------------------
\* One lemma per group of arms.

LEMMA LogicArmStay ==
  ASSUME IInv, IInv', StayInv, LogicArm
  PROVE  StayInv'
<1>1. CASE LogicLeft
  <2> DEFINE b == [top EXCEPT !.pc = "left", !.nextl = labelcnt + 1, !.endl = labelcnt + 2]
  <2>1. /\ acts # <<>> /\ top.kind = "logic" /\ top.pc = "enter"
        /\ Call(b, ExprKinds, <<>>, 2)
    BY <1>1 DEF LogicLeft, At
  <2>2. /\ b \in Activation /\ b.kind = "logic" /\ b.pc = "left"
        /\ b.startl = top.startl /\ b.nextl = labelcnt + 1 /\ b.endl = labelcnt + 2
    BY <2>1, TopLedger DEF Activation
  <2> HIDE DEF b
  <2>3. {} \subseteq Owed(b)
    OBVIOUS
  <2>4. Emitted(b) = {}
    BY <2>1, <2>2 DEF Emitted
  <2>5. /\ <<>> \in Seq(Item) /\ NoFn(<<>>)
        /\ JumpTargets(<<>>) \subseteq Owed(b)
    BY <2>3, NoItemStays
  <2>6. QED
    BY <2>1, <2>2, <2>4, <2>5, CallStay
<1>2. CASE LogicRight
  <2> DEFINE b == [top EXCEPT !.pc = "right"]
  <2>1. /\ acts # <<>> /\ top.kind = "logic" /\ top.pc = "left"
        /\ Call(b, ExprKinds, <<Jump(top.nextl)>>, 0)
    BY <1>2 DEF LogicRight, At
  <2>2. /\ b \in Activation /\ b.kind = "logic" /\ b.pc = "right"
        /\ b.startl = top.startl /\ b.nextl = top.nextl /\ b.endl = top.endl
    BY <2>1, TopLedger DEF Activation
  <2> HIDE DEF b
  <2>3. top.nextl \in Owed(b)
    BY <2>1, <2>2 DEF Owed
  <2>4. Emitted(b) = {}
    BY <2>1, <2>2 DEF Emitted
  <2>5. /\ <<Jump(top.nextl)>> \in Seq(Item) /\ NoFn(<<Jump(top.nextl)>>)
        /\ JumpTargets(<<Jump(top.nextl)>>) \subseteq Owed(b)
    <3>1. /\ top.startl \in Label /\ top.nextl \in Label /\ top.endl \in Label
          /\ labelcnt + 1 \in Label /\ labelcnt + 2 \in Label
      BY <2>1, TopLedger
    <3>2. QED
      BY <2>3, <3>1, JumpStays
  <2>6. QED
    BY <2>1, <2>2, <2>4, <2>5, CallStay
<1>3. CASE LogicDone
  <2>1. /\ acts # <<>> /\ top.kind = "logic" /\ top.pc = "right"
        /\ Return(<<Jump(top.endl), LabelDef(top.nextl), LabelDef(top.endl)>>)
    BY <1>3 DEF LogicDone, At
  <2>2. top.endl \in Owed(top) /\ top.nextl # top.endl
    BY <2>1, TopLedger DEF Owed, OwnDistinct
  <2>3. top.nextl \in Label /\ top.endl \in Label
    BY <2>1, TopLedger
  <2>4. /\ <<Jump(top.endl), LabelDef(top.nextl), LabelDef(top.endl)>> \in Seq(Item)
        /\ NoFn(<<Jump(top.endl), LabelDef(top.nextl), LabelDef(top.endl)>>)
        /\ JumpTargets(<<Jump(top.endl), LabelDef(top.nextl), LabelDef(top.endl)>>) = {top.endl}
    BY <2>2, <2>3, JumpLabelsStay
  <2>5. top.endl \notin Defined(text)
    BY <2>1, <2>2, TopEmitted
  <2>6. QED
    BY <2>1, <2>4, <2>5, ReturnStay
<1>4. QED
  BY <1>1, <1>2, <1>3 DEF LogicArm

LEMMA IfArmStay ==
  ASSUME IInv, IInv', StayInv, IfArm
  PROVE  StayInv'
<1>1. CASE IfCond
  <2> DEFINE b == [top EXCEPT !.pc = "cond"]
  <2>1. /\ acts # <<>> /\ top.kind = "if" /\ top.pc = "enter"
        /\ Call(b, ExprKinds, <<>>, 0)
    BY <1>1 DEF IfCond, At
  <2>2. /\ b \in Activation /\ b.kind = "if" /\ b.pc = "cond"
        /\ b.startl = top.startl /\ b.nextl = top.nextl /\ b.endl = top.endl
    BY <2>1, TopLedger DEF Activation
  <2> HIDE DEF b
  <2>3. {} \subseteq Owed(b)
    OBVIOUS
  <2>4. Emitted(b) = {}
    BY <2>1, <2>2 DEF Emitted
  <2>5. /\ <<>> \in Seq(Item) /\ NoFn(<<>>)
        /\ JumpTargets(<<>>) \subseteq Owed(b)
    BY <2>3, NoItemStays
  <2>6. QED
    BY <2>1, <2>2, <2>4, <2>5, CallStay
<1>2. CASE IfBody
  <2> DEFINE b == [top EXCEPT !.pc = "body", !.endl = labelcnt + 1, !.nextl = labelcnt + 2]
  <2>1. /\ acts # <<>> /\ top.kind = "if" /\ top.pc = "cond"
        /\ Call(b, StmtKinds, <<Jump(labelcnt + 2)>>, 2)
    BY <1>2 DEF IfBody, At
  <2>2. /\ b \in Activation /\ b.kind = "if" /\ b.pc = "body"
        /\ b.startl = top.startl /\ b.nextl = labelcnt + 2 /\ b.endl = labelcnt + 1
    BY <2>1, TopLedger DEF Activation
  <2> HIDE DEF b
  <2>3. labelcnt + 2 \in Owed(b)
    BY <2>1, <2>2 DEF Owed
  <2>4. Emitted(b) = {}
    BY <2>1, <2>2 DEF Emitted
  <2>5. /\ <<Jump(labelcnt + 2)>> \in Seq(Item) /\ NoFn(<<Jump(labelcnt + 2)>>)
        /\ JumpTargets(<<Jump(labelcnt + 2)>>) \subseteq Owed(b)
    <3>1. /\ top.startl \in Label /\ top.nextl \in Label /\ top.endl \in Label
          /\ labelcnt + 1 \in Label /\ labelcnt + 2 \in Label
      BY <2>1, TopLedger
    <3>2. QED
      BY <2>3, <3>1, JumpStays
  <2>6. QED
    BY <2>1, <2>2, <2>4, <2>5, CallStay
<1>3. CASE IfElifCond
  <2> DEFINE b == [top EXCEPT !.pc = "elif"]
  <2>1. /\ acts # <<>> /\ top.kind = "if" /\ top.pc = "body"
        /\ Call(b, ExprKinds, <<Jump(top.endl), LabelDef(top.nextl)>>, 0)
    BY <1>3 DEF IfElifCond, At
  <2>2. /\ b \in Activation /\ b.kind = "if" /\ b.pc = "elif"
        /\ b.startl = top.startl /\ b.nextl = top.nextl /\ b.endl = top.endl
    BY <2>1, TopLedger DEF Activation
  <2> HIDE DEF b
  <2>3. top.endl \in Owed(b)
    BY <2>1, <2>2 DEF Owed
  <2>4. Emitted(b) = {}
    BY <2>1, <2>2 DEF Emitted
  <2>5. /\ <<Jump(top.endl), LabelDef(top.nextl)>> \in Seq(Item) /\ NoFn(<<Jump(top.endl), LabelDef(top.nextl)>>)
        /\ JumpTargets(<<Jump(top.endl), LabelDef(top.nextl)>>) \subseteq Owed(b)
    <3>1. /\ top.startl \in Label /\ top.nextl \in Label /\ top.endl \in Label
          /\ labelcnt + 1 \in Label /\ labelcnt + 2 \in Label
      BY <2>1, TopLedger
    <3>2. QED
      BY <2>3, <3>1, JumpLabelStays
  <2>6. QED
    BY <2>1, <2>2, <2>4, <2>5, CallStay
<1>4. CASE IfElifBody
  <2> DEFINE b == [top EXCEPT !.pc = "body", !.nextl = labelcnt + 1]
  <2>1. /\ acts # <<>> /\ top.kind = "if" /\ top.pc = "elif"
        /\ Call(b, StmtKinds, <<Jump(labelcnt + 1)>>, 1)
    BY <1>4 DEF IfElifBody, At
  <2>2. /\ b \in Activation /\ b.kind = "if" /\ b.pc = "body"
        /\ b.startl = top.startl /\ b.nextl = labelcnt + 1 /\ b.endl = top.endl
    BY <2>1, TopLedger DEF Activation
  <2> HIDE DEF b
  <2>3. labelcnt + 1 \in Owed(b)
    BY <2>1, <2>2 DEF Owed
  <2>4. Emitted(b) = {}
    BY <2>1, <2>2 DEF Emitted
  <2>5. /\ <<Jump(labelcnt + 1)>> \in Seq(Item) /\ NoFn(<<Jump(labelcnt + 1)>>)
        /\ JumpTargets(<<Jump(labelcnt + 1)>>) \subseteq Owed(b)
    <3>1. /\ top.startl \in Label /\ top.nextl \in Label /\ top.endl \in Label
          /\ labelcnt + 1 \in Label /\ labelcnt + 2 \in Label
      BY <2>1, TopLedger
    <3>2. QED
      BY <2>3, <3>1, JumpStays
  <2>6. QED
    BY <2>1, <2>2, <2>4, <2>5, CallStay
<1>5. CASE IfElse
  <2> DEFINE b == [top EXCEPT !.pc = "else"]
  <2>1. /\ acts # <<>> /\ top.kind = "if" /\ top.pc = "body"
        /\ Call(b, StmtKinds, <<Jump(top.endl), LabelDef(top.nextl)>>, 0)
    BY <1>5 DEF IfElse, At
  <2>2. /\ b \in Activation /\ b.kind = "if" /\ b.pc = "else"
        /\ b.startl = top.startl /\ b.nextl = top.nextl /\ b.endl = top.endl
    BY <2>1, TopLedger DEF Activation
  <2> HIDE DEF b
  <2>3. top.endl \in Owed(b)
    BY <2>1, <2>2 DEF Owed
  <2>4. Emitted(b) = {}
    BY <2>1, <2>2 DEF Emitted
  <2>5. /\ <<Jump(top.endl), LabelDef(top.nextl)>> \in Seq(Item) /\ NoFn(<<Jump(top.endl), LabelDef(top.nextl)>>)
        /\ JumpTargets(<<Jump(top.endl), LabelDef(top.nextl)>>) \subseteq Owed(b)
    <3>1. /\ top.startl \in Label /\ top.nextl \in Label /\ top.endl \in Label
          /\ labelcnt + 1 \in Label /\ labelcnt + 2 \in Label
      BY <2>1, TopLedger
    <3>2. QED
      BY <2>3, <3>1, JumpLabelStays
  <2>6. QED
    BY <2>1, <2>2, <2>4, <2>5, CallStay
<1>6. CASE IfElseDone
  <2>1. /\ acts # <<>> /\ top.kind = "if" /\ top.pc = "else"
        /\ Return(<<LabelDef(top.endl)>>)
    BY <1>6 DEF IfElseDone, At
  <2>2. /\ <<LabelDef(top.endl)>> \in Seq(Item) /\ NoFn(<<LabelDef(top.endl)>>)
        /\ JumpTargets(<<LabelDef(top.endl)>>) = {}
    BY <2>1, TopLedger, LabelStays
  <2>3. QED
    BY <2>1, <2>2, ReturnStay
<1>7. CASE IfDone
  <2>1. /\ acts # <<>> /\ top.kind = "if" /\ top.pc = "body"
        /\ Return(<<Jump(top.endl), LabelDef(top.nextl), LabelDef(top.endl)>>)
    BY <1>7 DEF IfDone, At
  <2>2. top.endl \in Owed(top) /\ top.nextl # top.endl
    BY <2>1, TopLedger DEF Owed, OwnDistinct
  <2>3. top.nextl \in Label /\ top.endl \in Label
    BY <2>1, TopLedger
  <2>4. /\ <<Jump(top.endl), LabelDef(top.nextl), LabelDef(top.endl)>> \in Seq(Item)
        /\ NoFn(<<Jump(top.endl), LabelDef(top.nextl), LabelDef(top.endl)>>)
        /\ JumpTargets(<<Jump(top.endl), LabelDef(top.nextl), LabelDef(top.endl)>>) = {top.endl}
    BY <2>2, <2>3, JumpLabelsStay
  <2>5. top.endl \notin Defined(text)
    BY <2>1, <2>2, TopEmitted
  <2>6. QED
    BY <2>1, <2>4, <2>5, ReturnStay
<1>8. QED
  BY <1>1, <1>2, <1>3, <1>4, <1>5, <1>6, <1>7 DEF IfArm

LEMMA WhileArmStay ==
  ASSUME IInv, IInv', StayInv, WhileArm
  PROVE  StayInv'
<1>1. CASE WhileCond
  <2> DEFINE b == [top EXCEPT !.pc = "cond", !.startl = labelcnt + 1, !.endl = labelcnt + 2, !.prevcont = contlabel, !.prevbreak = breaklabel]
  <2>1. /\ acts # <<>> /\ top.kind = "while" /\ top.pc = "enter"
        /\ Call(b, ExprKinds, <<LabelDef(labelcnt + 1)>>, 2)
    BY <1>1 DEF WhileCond, At
  <2>2. /\ b \in Activation /\ b.kind = "while" /\ b.pc = "cond"
        /\ b.startl = labelcnt + 1 /\ b.nextl = top.nextl /\ b.endl = labelcnt + 2
    BY <2>1, TopLedger DEF Activation
  <2> HIDE DEF b
  <2>3. {} \subseteq Owed(b)
    OBVIOUS
  <2>4. Emitted(b) \subseteq Emitted(top) \cup Defined(<<LabelDef(labelcnt + 1)>>)
    BY <2>1, <2>2, TopLedger, Items DEF Emitted
  <2>5. /\ <<LabelDef(labelcnt + 1)>> \in Seq(Item) /\ NoFn(<<LabelDef(labelcnt + 1)>>)
        /\ JumpTargets(<<LabelDef(labelcnt + 1)>>) \subseteq Owed(b)
    <3>1. /\ top.startl \in Label /\ top.nextl \in Label /\ top.endl \in Label
          /\ labelcnt + 1 \in Label /\ labelcnt + 2 \in Label
      BY <2>1, TopLedger
    <3>2. QED
      BY <2>3, <3>1, LabelStays
  <2>6. QED
    BY <2>1, <2>2, <2>4, <2>5, CallStay
<1>2. CASE WhileBody
  <2> DEFINE b == [top EXCEPT !.pc = "body"]
  <2>1. /\ acts # <<>> /\ top.kind = "while" /\ top.pc = "cond"
        /\ Call(b, StmtKinds, <<Jump(top.endl)>>, 0)
    BY <1>2 DEF WhileBody, At
  <2>2. /\ b \in Activation /\ b.kind = "while" /\ b.pc = "body"
        /\ b.startl = top.startl /\ b.nextl = top.nextl /\ b.endl = top.endl
    BY <2>1, TopLedger DEF Activation
  <2> HIDE DEF b
  <2>3. top.endl \in Owed(b)
    BY <2>1, <2>2 DEF Owed
  <2>4. Emitted(b) \subseteq Emitted(top) \cup Defined(<<Jump(top.endl)>>)
    BY <2>1, <2>2, TopLedger, Items DEF Emitted
  <2>5. /\ <<Jump(top.endl)>> \in Seq(Item) /\ NoFn(<<Jump(top.endl)>>)
        /\ JumpTargets(<<Jump(top.endl)>>) \subseteq Owed(b)
    <3>1. /\ top.startl \in Label /\ top.nextl \in Label /\ top.endl \in Label
          /\ labelcnt + 1 \in Label /\ labelcnt + 2 \in Label
      BY <2>1, TopLedger
    <3>2. QED
      BY <2>3, <3>1, JumpStays
  <2>6. QED
    BY <2>1, <2>2, <2>4, <2>5, CallStay
<1>3. CASE WhileDone
  <2>1. /\ acts # <<>> /\ top.kind = "while" /\ top.pc = "body"
        /\ Return(<<Jump(top.startl), LabelDef(top.endl)>>)
    BY <1>3 DEF WhileDone, At
  <2>2. top.startl \in Emitted(top)
    BY <2>1, TopLedger DEF Emitted
  <2>3. top.startl \in Label /\ top.endl \in Label
    BY <2>1, TopLedger
  <2>4. /\ <<Jump(top.startl), LabelDef(top.endl)>> \in Seq(Item)
        /\ NoFn(<<Jump(top.startl), LabelDef(top.endl)>>)
        /\ JumpTargets(<<Jump(top.startl), LabelDef(top.endl)>>) = {top.startl}
    BY <2>3, JumpLabelStays
  <2>5. QED
    BY <2>1, <2>2, <2>4, TopEmitted, ReturnStay
<1>4. QED
  BY <1>1, <1>2, <1>3 DEF WhileArm

LEMMA ForArmStay ==
  ASSUME IInv, IInv', StayInv, ForArm
  PROVE  StayInv'
<1>1. CASE ForInit
  <2> DEFINE b == [top EXCEPT !.pc = "init", !.startl = labelcnt + 1, !.nextl = labelcnt + 2, !.endl = labelcnt + 3, !.prevcont = contlabel, !.prevbreak = breaklabel]
  <2>1. /\ acts # <<>> /\ top.kind = "for" /\ top.pc = "enter"
        /\ Call(b, StmtKinds, <<>>, 3)
    BY <1>1 DEF ForInit, At
  <2>2. /\ b \in Activation /\ b.kind = "for" /\ b.pc = "init"
        /\ b.startl = labelcnt + 1 /\ b.nextl = labelcnt + 2 /\ b.endl = labelcnt + 3
    BY <2>1, TopLedger DEF Activation
  <2> HIDE DEF b
  <2>3. {} \subseteq Owed(b)
    OBVIOUS
  <2>4. Emitted(b) = {}
    BY <2>1, <2>2 DEF Emitted
  <2>5. /\ <<>> \in Seq(Item) /\ NoFn(<<>>)
        /\ JumpTargets(<<>>) \subseteq Owed(b)
    BY <2>3, NoItemStays
  <2>6. QED
    BY <2>1, <2>2, <2>4, <2>5, CallStay
<1>2. CASE ForCond
  <2> DEFINE b == [top EXCEPT !.pc = "cond"]
  <2>1. /\ acts # <<>> /\ top.kind = "for" /\ top.pc = "init"
        /\ Call(b, StmtKinds, <<LabelDef(top.startl)>>, 0)
    BY <1>2 DEF ForCond, At
  <2>2. /\ b \in Activation /\ b.kind = "for" /\ b.pc = "cond"
        /\ b.startl = top.startl /\ b.nextl = top.nextl /\ b.endl = top.endl
    BY <2>1, TopLedger DEF Activation
  <2> HIDE DEF b
  <2>3. {} \subseteq Owed(b)
    OBVIOUS
  <2>4. Emitted(b) \subseteq Emitted(top) \cup Defined(<<LabelDef(top.startl)>>)
    BY <2>1, <2>2, TopLedger, Items DEF Emitted
  <2>5. /\ <<LabelDef(top.startl)>> \in Seq(Item) /\ NoFn(<<LabelDef(top.startl)>>)
        /\ JumpTargets(<<LabelDef(top.startl)>>) \subseteq Owed(b)
    <3>1. /\ top.startl \in Label /\ top.nextl \in Label /\ top.endl \in Label
          /\ labelcnt + 1 \in Label /\ labelcnt + 2 \in Label
      BY <2>1, TopLedger
    <3>2. QED
      BY <2>3, <3>1, LabelStays
  <2>6. QED
    BY <2>1, <2>2, <2>4, <2>5, CallStay
<1>3. CASE ForBody
  <2> DEFINE b == [top EXCEPT !.pc = "body"]
  <2>1. /\ acts # <<>> /\ top.kind = "for" /\ top.pc = "cond"
        /\ Call(b, StmtKinds, <<Jump(top.endl)>>, 0)
    BY <1>3 DEF ForBody, At
  <2>2. /\ b \in Activation /\ b.kind = "for" /\ b.pc = "body"
        /\ b.startl = top.startl /\ b.nextl = top.nextl /\ b.endl = top.endl
    BY <2>1, TopLedger DEF Activation
  <2> HIDE DEF b
  <2>3. top.endl \in Owed(b)
    BY <2>1, <2>2 DEF Owed
  <2>4. Emitted(b) \subseteq Emitted(top) \cup Defined(<<Jump(top.endl)>>)
    BY <2>1, <2>2, TopLedger, Items DEF Emitted
  <2>5. /\ <<Jump(top.endl)>> \in Seq(Item) /\ NoFn(<<Jump(top.endl)>>)
        /\ JumpTargets(<<Jump(top.endl)>>) \subseteq Owed(b)
    <3>1. /\ top.startl \in Label /\ top.nextl \in Label /\ top.endl \in Label
          /\ labelcnt + 1 \in Label /\ labelcnt + 2 \in Label
      BY <2>1, TopLedger
    <3>2. QED
      BY <2>3, <3>1, JumpStays
  <2>6. QED
    BY <2>1, <2>2, <2>4, <2>5, CallStay
<1>4. CASE ForNext
  <2> DEFINE b == [top EXCEPT !.pc = "next"]
  <2>1. /\ acts # <<>> /\ top.kind = "for" /\ top.pc = "body"
        /\ Call(b, StmtKinds, <<LabelDef(top.nextl)>>, 0)
    BY <1>4 DEF ForNext, At
  <2>2. /\ b \in Activation /\ b.kind = "for" /\ b.pc = "next"
        /\ b.startl = top.startl /\ b.nextl = top.nextl /\ b.endl = top.endl
    BY <2>1, TopLedger DEF Activation
  <2> HIDE DEF b
  <2>3. {} \subseteq Owed(b)
    OBVIOUS
  <2>4. Emitted(b) \subseteq Emitted(top) \cup Defined(<<LabelDef(top.nextl)>>)
    BY <2>1, <2>2, TopLedger, Items DEF Emitted
  <2>5. /\ <<LabelDef(top.nextl)>> \in Seq(Item) /\ NoFn(<<LabelDef(top.nextl)>>)
        /\ JumpTargets(<<LabelDef(top.nextl)>>) \subseteq Owed(b)
    <3>1. /\ top.startl \in Label /\ top.nextl \in Label /\ top.endl \in Label
          /\ labelcnt + 1 \in Label /\ labelcnt + 2 \in Label
      BY <2>1, TopLedger
    <3>2. QED
      BY <2>3, <3>1, LabelStays
  <2>6. QED
    BY <2>1, <2>2, <2>4, <2>5, CallStay
<1>5. CASE ForDone
  <2>1. /\ acts # <<>> /\ top.kind = "for" /\ top.pc = "next"
        /\ Return(<<Jump(top.startl), LabelDef(top.endl)>>)
    BY <1>5 DEF ForDone, At
  <2>2. top.startl \in Emitted(top)
    BY <2>1, TopLedger DEF Emitted
  <2>3. top.startl \in Label /\ top.endl \in Label
    BY <2>1, TopLedger
  <2>4. /\ <<Jump(top.startl), LabelDef(top.endl)>> \in Seq(Item)
        /\ NoFn(<<Jump(top.startl), LabelDef(top.endl)>>)
        /\ JumpTargets(<<Jump(top.startl), LabelDef(top.endl)>>) = {top.startl}
    BY <2>3, JumpLabelStays
  <2>5. QED
    BY <2>1, <2>2, <2>4, TopEmitted, ReturnStay
<1>6. QED
  BY <1>1, <1>2, <1>3, <1>4, <1>5 DEF ForArm

LEMMA PlainArmsStay ==
  ASSUME IInv, IInv', StayInv, PlainArms
  PROVE  StayInv'
<1>1. /\ breaklabel \in Label /\ contlabel \in Label /\ \A l \in strlits : l \in Label
      /\ acts # <<>> => top \in Activation
  BY TopLedger DEF IInv, Typed
<1>2. NoFn(<<>>) /\ JumpTargets(<<>>) = {} /\ <<>> \in Seq(Item)
  BY NoItemStays
<1>3. ASSUME NEW l \in {breaklabel, contlabel}, acts # <<>>, Return(<<Jump(l)>>)
      PROVE  StayInv'
  <2>1. /\ <<Jump(l)>> \in Seq(Item) /\ NoFn(<<Jump(l)>>)
        /\ JumpTargets(<<Jump(l)>>) = {l}
    BY <1>1, <1>3, JumpStays
  <2>2. JumpTargets(<<Jump(l)>>) \cap Defined(text) \subseteq EmittedAll
    BY <2>1, LoopJumps
  <2>3. QED
    BY <1>3, <2>1, <2>2, ReturnStay
<1>4. CASE Leaf \/ VisitDone
  <2>1. acts # <<>> /\ Return(<<>>)
    BY <1>4 DEF Leaf, VisitDone, At
  <2>2. QED
    BY <1>2, <2>1, ReturnStay
<1>5. CASE StrRef
  <2>1. PICK l \in strlits : Return(<<Ref(l)>>)
    BY <1>5 DEF StrRef
  <2>2. /\ <<Ref(l)>> \in Seq(Item) /\ NoFn(<<Ref(l)>>)
        /\ JumpTargets(<<Ref(l)>>) = {}
    BY <1>1, Items, StayItems
  <2>3. acts # <<>>
    BY <1>5 DEF StrRef, At
  <2>4. QED
    BY <2>1, <2>2, <2>3, ReturnStay
<1>6. CASE VisitExpr \/ VisitStmt
  <2>1. PICK kinds \in {ExprKinds, StmtKinds} : Call(top, kinds, <<>>, 0)
    BY <1>6 DEF VisitExpr, VisitStmt
  <2>2. acts # <<>>
    BY <1>6 DEF VisitExpr, VisitStmt, At
  <2>3. QED
    BY <1>1, <1>2, <2>1, <2>2, CallStay
<1>7. CASE Break
  BY <1>3, <1>7 DEF Break, At
<1>8. CASE Continue
  BY <1>3, <1>8 DEF Continue, At
<1>9. QED
  BY <1>4, <1>5, <1>6, <1>7, <1>8 DEF PlainArms

\* A function starts when no label is owed and no jump is open.
LEMMA ToplevelStay ==
  ASSUME IInv, IInv', StayInv, Toplevel
  PROVE  StayInv'
<1>1. PICK n \in 0 .. MaxStrs :
        text' = Append(text \o [i \in 1 .. n |-> LabelDef(labelcnt + i)], Fn)
  BY DEF Toplevel
<1>2. acts = <<>> /\ acts' = <<Enter("block")>>
  BY DEF Toplevel
<1> DEFINE m == Len(text)
           t == [i \in 1 .. n |-> LabelDef(labelcnt + i)]
<1>3. labelcnt \in Nat /\ n \in Nat /\ m \in Nat /\ text \in Seq(Item)
  BY BoundsAssumption, LenProperties DEF IInv, Typed
<1>4. t \in Seq(Item) /\ Defined(t) = labelcnt + 1 .. labelcnt + n
  BY <1>3, StringLabels
<1>5. Len(t) = n /\ \A i \in 1 .. n : t[i].op = "label" /\ t[i].label = labelcnt + i
  BY <1>3 DEF LabelDef
<1> HIDE DEF t
<1>6. /\ text \o t \in Seq(Item) /\ Len(text \o t) = m + n
      /\ \A i \in 1 .. m + n : (text \o t)[i] = IF i <= m THEN text[i] ELSE t[i - m]
  BY <1>3, <1>4, <1>5, ConcatProperties
<1>7. /\ Len(text') = m + n + 1
      /\ \A i \in 1 .. m + n : text'[i] = (text \o t)[i]
      /\ text'[m + n + 1] = Fn
  <2>1. text' = Append(text \o t, Fn) /\ Fn \in Item
    BY <1>1, Zenon DEF t, Fn, Item, Label, NULL
  <2> DEFINE s == text \o t
  <2>2. s \in Seq(Item) /\ Len(s) = m + n /\ text' = Append(s, Fn)
    BY <1>6, <2>1
  <2> HIDE DEF s
  <2>3. /\ Len(text') = m + n + 1
        /\ \A i \in 1 .. m + n : text'[i] = s[i]
        /\ text'[m + n + 1] = Fn
    BY <2>1, <2>2, AppendProperties
  <2>4. QED
    BY <2>3 DEF s
<1> HIDE DEF m
<1>8. \A i \in 1 .. Len(text') :
        \/ i \in 1 .. m /\ text'[i] = text[i]
        \/ i > m /\ text'[i].op = "label" /\ text'[i].label > labelcnt
        \/ i = m + n + 1 /\ text'[i].op = "fn"
  <2>1. SUFFICES ASSUME NEW i \in 1 .. m + n + 1
                 PROVE  \/ i \in 1 .. m /\ text'[i] = text[i]
                        \/ i > m /\ text'[i].op = "label" /\ text'[i].label > labelcnt
                        \/ i = m + n + 1 /\ text'[i].op = "fn"
    BY <1>7
  <2>2. CASE i \in 1 .. m
    BY <1>3, <1>6, <1>7, <2>2
  <2>3. CASE i > m /\ i <= m + n
    <3>1. i - m \in 1 .. n /\ i \in 1 .. m + n /\ ~(i <= m)
      BY <1>3, <2>1, <2>3
    <3>2. text'[i] = t[i - m]
      BY <1>6, <1>7, <3>1
    <3>3. QED
      BY <1>3, <1>5, <2>3, <3>1, <3>2
  <2>4. CASE i = m + n + 1
    BY <1>7, <2>4 DEF Fn
  <2>5. QED
    BY <1>3, <2>1, <2>2, <2>3, <2>4
<1>9. \A i \in 1 .. m : text[i].op = "jump" => text[i].label <= labelcnt
  <2>1. Targets(text) \subseteq 0 .. labelcnt
    BY <1>2, <1>3 DEF IInv, Ledger, OwedAll, NULL
  <2>2. \A i \in 1 .. m : text[i].op = "jump" => text[i].label \in Targets(text)
    BY DEF Targets, m
  <2>3. QED
    BY <1>3, <2>1, <2>2
<1>10. JumpsStayInFunction'
  <2>1. SUFFICES ASSUME NEW i \in 1 .. Len(text'), NEW j \in 1 .. Len(text'),
                        text'[i].op = "jump", text'[j].op = "label",
                        text'[i].label = text'[j].label,
                        NEW k \in 1 .. Len(text'), text'[k].op = "fn"
                 PROVE  k < i <=> k < j
    BY DEF JumpsStayInFunction
  <2>2. i \in 1 .. m /\ text'[i] = text[i]
    BY <1>8, <2>1
  <2>3. j \in 1 .. m /\ text'[j] = text[j]
    <3>1. text'[j].label <= labelcnt
      BY <1>9, <2>1, <2>2
    <3>2. ~(text'[j].label > labelcnt)
      <4>1. text'[i].label \in Nat
        <5>1. text[i] \in Item
          BY <1>3, <2>2 DEF m
        <5>2. QED
          BY <2>2, <5>1 DEF Item, Label
      <4>2. QED
        BY <1>3, <2>1, <3>1, <4>1
    <3>3. QED
      BY <1>8, <2>1, <3>2
  <2>4. CASE k \in 1 .. m /\ text'[k] = text[k]
    BY <2>1, <2>2, <2>3, <2>4 DEF StayInv, JumpsStayInFunction, m
  <2>5. CASE k = m + n + 1
    BY <1>3, <2>2, <2>3, <2>5
  <2>6. QED
    BY <1>8, <2>1, <2>4, <2>5
<1>11. OwedAll' = {} /\ EmittedAll' = {}
  <2>1. /\ Len(acts') = 1 /\ acts'[1] = Enter("block") /\ 1 .. 1 = {1}
        /\ Owed(Enter("block")) = {} /\ Emitted(Enter("block")) = {}
    BY <1>2, EnterActivation DEF StmtKinds
  <2>2. QED
    BY <2>1 DEF OwedAll, EmittedAll
<1>12. QED
  BY <1>10, <1>11 DEF StayInv

-----------------------------------------------------------------------------
LEMMA InitStay == Init => StayInv
<1>1. ASSUME Init PROVE Len(text) = 0
  BY <1>1 DEF Init
<1>2. QED
  BY <1>1 DEF StayInv, JumpsStayInFunction

LEMMA NextStay == IInv /\ StayInv /\ [Next]_vars => StayInv'
<1>1. SUFFICES ASSUME IInv, StayInv, [Next]_vars PROVE StayInv'
  OBVIOUS
<1>2. IInv'
  BY <1>1, NextInv
<1>3. CASE Next
  BY <1>1, <1>2, <1>3, ToplevelStay, PlainArmsStay, LogicArmStay, IfArmStay,
     WhileArmStay, ForArmStay DEF Next
<1>4. CASE UNCHANGED vars
  BY <1>1, <1>4 DEF vars, StayInv, JumpsStayInFunction, InLastFunction, OwedAll,
     EmittedAll
<1>5. QED
  BY <1>1, <1>3, <1>4

\* Whatever is nested in what, and however many functions a file has, codegen()
\* never emits a jump whose label stands in another function.
THEOREM JumpsStay == Spec => []JumpsStayInFunction
<1>1. Init => StayInv
  BY InitStay
<1>2. IInv /\ StayInv /\ [Next]_vars => StayInv'
  BY NextStay
<1>3. StayInv => JumpsStayInFunction
  BY DEF StayInv
<1>4. Spec => []IInv
  BY Inductive
<1>5. QED
  BY <1>1, <1>2, <1>3, <1>4, PTL DEF Spec
=============================================================================
