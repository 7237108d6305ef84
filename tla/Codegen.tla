------------------------------- MODULE Codegen -------------------------------
(***************************************************************************)
(* The emission of labels and jumps: codegen.c's recursive walk over the   *)
(* AST of one function after the other, inside the driver loop of sncc.c.  *)
(*                                                                         *)
(* codegen() calls itself, so an action is the stretch of one arm between  *)
(* two recursive calls; what the arm still needs after a call (its C       *)
(* locals startl, nextl, endl, prevcont, prevbreak) lives in the arm's     *)
(* activation on the stack `acts'.  The AST is not given in advance: each  *)
(* call picks the kind of the child it descends into, so that a behaviour  *)
(* is a walk over some AST and all ASTs within the bounds are walked.      *)
(* Arms that emit no label are told apart only by the role of their        *)
(* children: "leaf" has none, "expr" any number of expressions, "block"    *)
(* any number of statements.                                               *)
(***************************************************************************)
EXTENDS Naturals, Sequences

CONSTANTS
  MaxNodes,   \* bound: AST nodes of one compilation, after which all are leaves
  MaxTops,    \* bound: functions of one compilation
  MaxStrs,    \* bound: string literals of one function
  StrNodes    \* bound: by how many nodes less where a function has a literal

ASSUME BoundsAssumption == /\ MaxNodes \in Nat
                           /\ MaxTops \in Nat
                           /\ MaxStrs \in Nat
                           /\ StrNodes \in Nat

VARIABLES
  labelcnt,    \* the counter behind gen_label(), shared with semantic.c
  breaklabel,  \* global: where a break jumps
  contlabel,   \* global: where a continue jumps
  strlits,     \* labels of the string literals of the current function
  acts,        \* the activations of codegen(), innermost last
  text,        \* the labels, jumps and label references emitted so far
  nodes, tops  \* counters that enforce the bounds

vars == <<labelcnt, breaklabel, contlabel, strlits, acts, text, nodes, tops>>

NULL == 0      \* labels are .L1, .L2, ...; no label is numbered 0

Label == Nat

ExprKinds == {"leaf", "expr", "logic"}
StmtKinds == ExprKinds \cup {"block", "if", "while", "for", "break", "continue"}

Activation ==
  [kind : StmtKinds,
   pc : {"enter", "left", "right", "cond", "body", "elif", "else", "init", "next"},
   startl : Label, nextl : Label, endl : Label,
   prevbreak : Label, prevcont : Label]

Item == [op : {"fn", "label", "jump", "ref"}, label : Label]

Fn          == [op |-> "fn", label |-> NULL]
LabelDef(l) == [op |-> "label", label |-> l]
Jump(l)     == [op |-> "jump", label |-> l]
Ref(l)      == [op |-> "ref", label |-> l]

-----------------------------------------------------------------------------
Enter(kind) ==
  [kind |-> kind, pc |-> "enter", startl |-> NULL, nextl |-> NULL,
   endl |-> NULL, prevbreak |-> NULL, prevcont |-> NULL]

top == acts[Len(acts)]

At(kind, pc) == acts # <<>> /\ top.kind = kind /\ top.pc = pc

\* The arm emits `items', having drawn n labels, and calls codegen() on a
\* child of one of the given kinds; it resumes later as activation `act'.
Call(act, kinds, items, n) ==
  /\ text' = text \o items
  /\ labelcnt' = labelcnt + n
  /\ nodes' = nodes + 1
  /\ \E kind \in IF nodes < MaxNodes THEN kinds ELSE {"leaf"} :
       acts' = Append([acts EXCEPT ![Len(acts)] = act], Enter(kind))
  /\ UNCHANGED <<strlits, tops>>

\* The arm emits `items' and returns to its caller.
Return(items) ==
  /\ text' = text \o items
  /\ acts' = SubSeq(acts, 1, Len(acts) - 1)
  /\ UNCHANGED <<labelcnt, strlits, nodes, tops>>

KeepLoop == UNCHANGED <<breaklabel, contlabel>>

RestoreLoop ==
  /\ breaklabel' = top.prevbreak
  /\ contlabel' = top.prevcont

-----------------------------------------------------------------------------
\* Mutant: the label counter starts afresh with every function.
ToplevelRestartsLabels ==
  /\ acts = <<>>
  /\ tops < MaxTops
  /\ \E n \in 0 .. MaxStrs :
       /\ strlits' = 1 .. n
       /\ labelcnt' = n
       /\ text' = Append(text \o [i \in 1 .. n |-> LabelDef(i)], Fn)
       /\ nodes' = nodes + n * StrNodes
  /\ breaklabel' = NULL /\ contlabel' = NULL
  /\ acts' = <<Enter("block")>>
  /\ tops' = tops + 1

\* Mutant: the semantic pass numbers the literals by a counter of its own.
ToplevelOwnCounter ==
  /\ acts = <<>>
  /\ tops < MaxTops
  /\ \E n \in 0 .. MaxStrs :
       /\ strlits' = labelcnt + 1 .. labelcnt + n
       /\ text' = Append(text \o [i \in 1 .. n |-> LabelDef(labelcnt + i)], Fn)
       /\ nodes' = nodes + n * StrNodes
  /\ breaklabel' = NULL /\ contlabel' = NULL
  /\ acts' = <<Enter("block")>>
  /\ tops' = tops + 1
  /\ UNCHANGED labelcnt

\* One turn of main's loop up to the walk over the body: the semantic pass
\* has drawn a label for each of the n string literals of the function,
\* codegen_strlits defines them, codegen_funcdecl starts the function.
Toplevel ==
  /\ acts = <<>>
  /\ tops < MaxTops
  /\ \E n \in 0 .. MaxStrs :
       /\ strlits' = labelcnt + 1 .. labelcnt + n
       /\ labelcnt' = labelcnt + n
       /\ text' = Append(text \o [i \in 1 .. n |-> LabelDef(labelcnt + i)], Fn)
       /\ nodes' = nodes + n * StrNodes
  /\ breaklabel' = NULL
  /\ contlabel' = NULL
  /\ acts' = <<Enter("block")>>
  /\ tops' = tops + 1

\* An arm without children that emits no label: literals, variables, VARDECL.
Leaf ==
  /\ At("leaf", "enter")
  /\ Return(<<>>)
  /\ KeepLoop

\* An AST_GLOBALREF that the semantic pass made of a string literal.
StrRef ==
  /\ At("leaf", "enter")
  /\ \E l \in strlits : Return(<<Ref(l)>>)
  /\ KeepLoop

\* The arms that only walk their children, one after the other.
VisitExpr ==
  /\ At("expr", "enter")
  /\ nodes < MaxNodes
  /\ Call(top, ExprKinds, <<>>, 0)
  /\ KeepLoop

VisitStmt ==
  /\ At("block", "enter")
  /\ nodes < MaxNodes
  /\ Call(top, StmtKinds, <<>>, 0)
  /\ KeepLoop

VisitDone ==
  /\ At("expr", "enter") \/ At("block", "enter")
  /\ Return(<<>>)
  /\ KeepLoop

-----------------------------------------------------------------------------
\* AST_LAND and AST_LOR: nextl is the arm's falsel or truel.
LogicLeft ==
  /\ At("logic", "enter")
  /\ Call([top EXCEPT !.pc = "left", !.nextl = labelcnt + 1, !.endl = labelcnt + 2],
          ExprKinds, <<>>, 2)
  /\ KeepLoop

LogicRight ==
  /\ At("logic", "left")
  /\ Call([top EXCEPT !.pc = "right"], ExprKinds, <<Jump(top.nextl)>>, 0)
  /\ KeepLoop

LogicDone ==
  /\ At("logic", "right")
  /\ Return(<<Jump(top.endl), LabelDef(top.nextl), LabelDef(top.endl)>>)
  /\ KeepLoop

-----------------------------------------------------------------------------
\* AST_IF: the two labels are drawn only after the condition was emitted, and
\* every else-if draws a new nextl.
IfCond ==
  /\ At("if", "enter")
  /\ Call([top EXCEPT !.pc = "cond"], ExprKinds, <<>>, 0)
  /\ KeepLoop

IfBody ==
  /\ At("if", "cond")
  /\ Call([top EXCEPT !.pc = "body", !.endl = labelcnt + 1, !.nextl = labelcnt + 2],
          StmtKinds, <<Jump(labelcnt + 2)>>, 2)
  /\ KeepLoop

IfElifCond ==
  /\ At("if", "body")
  /\ nodes < MaxNodes
  /\ Call([top EXCEPT !.pc = "elif"], ExprKinds,
          <<Jump(top.endl), LabelDef(top.nextl)>>, 0)
  /\ KeepLoop

\* Mutant: an else-if keeps the label of the one before.
IfElifBodyKeepsLabel ==
  /\ At("if", "elif")
  /\ Call([top EXCEPT !.pc = "body"], StmtKinds, <<Jump(top.nextl)>>, 0)
  /\ KeepLoop

IfElifBody ==
  /\ At("if", "elif")
  /\ Call([top EXCEPT !.pc = "body", !.nextl = labelcnt + 1], StmtKinds,
          <<Jump(labelcnt + 1)>>, 1)
  /\ KeepLoop

IfElse ==
  /\ At("if", "body")
  /\ nodes < MaxNodes
  /\ Call([top EXCEPT !.pc = "else"], StmtKinds,
          <<Jump(top.endl), LabelDef(top.nextl)>>, 0)
  /\ KeepLoop

IfElseDone ==
  /\ At("if", "else")
  /\ Return(<<LabelDef(top.endl)>>)
  /\ KeepLoop

\* Mutant: without an else the label for it is not emitted.
IfDoneNoLabel ==
  /\ At("if", "body")
  /\ Return(<<Jump(top.endl), LabelDef(top.endl)>>)
  /\ KeepLoop

IfDone ==      \* elsebody is NULL
  /\ At("if", "body")
  /\ Return(<<Jump(top.endl), LabelDef(top.nextl), LabelDef(top.endl)>>)
  /\ KeepLoop

-----------------------------------------------------------------------------
WhileCond ==
  /\ At("while", "enter")
  /\ contlabel' = labelcnt + 1
  /\ breaklabel' = labelcnt + 2
  /\ Call([top EXCEPT !.pc = "cond", !.startl = labelcnt + 1, !.endl = labelcnt + 2,
                      !.prevcont = contlabel, !.prevbreak = breaklabel],
          ExprKinds, <<LabelDef(labelcnt + 1)>>, 2)

WhileBody ==
  /\ At("while", "cond")
  /\ Call([top EXCEPT !.pc = "body"], StmtKinds, <<Jump(top.endl)>>, 0)
  /\ KeepLoop

\* Mutant: the labels of the loop around are not restored.
WhileDoneNoRestore ==
  /\ At("while", "body")
  /\ Return(<<Jump(top.startl), LabelDef(top.endl)>>)
  /\ KeepLoop

WhileDone ==
  /\ At("while", "body")
  /\ Return(<<Jump(top.startl), LabelDef(top.endl)>>)
  /\ RestoreLoop

-----------------------------------------------------------------------------
\* AST_FOR: parse_for() reads the three parts of the header as statements.
ForInit ==
  /\ At("for", "enter")
  /\ contlabel' = labelcnt + 2
  /\ breaklabel' = labelcnt + 3
  /\ Call([top EXCEPT !.pc = "init", !.startl = labelcnt + 1,
                      !.nextl = labelcnt + 2, !.endl = labelcnt + 3,
                      !.prevcont = contlabel, !.prevbreak = breaklabel],
          StmtKinds, <<>>, 3)

ForCond ==
  /\ At("for", "init")
  /\ Call([top EXCEPT !.pc = "cond"], StmtKinds, <<LabelDef(top.startl)>>, 0)
  /\ KeepLoop

ForBody ==
  /\ At("for", "cond")
  /\ Call([top EXCEPT !.pc = "body"], StmtKinds, <<Jump(top.endl)>>, 0)
  /\ KeepLoop

ForNext ==
  /\ At("for", "body")
  /\ Call([top EXCEPT !.pc = "next"], StmtKinds, <<LabelDef(top.nextl)>>, 0)
  /\ KeepLoop

ForDone ==
  /\ At("for", "next")
  /\ Return(<<Jump(top.startl), LabelDef(top.endl)>>)
  /\ RestoreLoop

-----------------------------------------------------------------------------
\* No check that there is a loop: outside of one the target is NULL.
Break ==
  /\ At("break", "enter")
  /\ Return(<<Jump(breaklabel)>>)
  /\ KeepLoop

Continue ==
  /\ At("continue", "enter")
  /\ Return(<<Jump(contlabel)>>)
  /\ KeepLoop

-----------------------------------------------------------------------------
Init ==
  /\ labelcnt = 0
  /\ breaklabel = NULL
  /\ contlabel = NULL
  /\ strlits = {}
  /\ acts = <<>>
  /\ text = <<>>
  /\ nodes = 0
  /\ tops = 0

LogicArm == LogicLeft \/ LogicRight \/ LogicDone
IfArm     == IfCond \/ IfBody \/ IfElifCond \/ IfElifBody \/ IfElse
             \/ IfElseDone \/ IfDone
WhileArm == WhileCond \/ WhileBody \/ WhileDone
ForArm   == ForInit \/ ForCond \/ ForBody \/ ForNext \/ ForDone
PlainArms == Leaf \/ StrRef \/ VisitExpr \/ VisitStmt \/ VisitDone
             \/ Break \/ Continue

Next == Toplevel \/ PlainArms \/ LogicArm \/ IfArm \/ WhileArm \/ ForArm

Spec == Init /\ [][Next]_vars

-----------------------------------------------------------------------------
Defined(t) == {t[i].label : i \in {j \in 1 .. Len(t) : t[j].op = "label"}}

\* Every use of a label: jumps, and the references to string literals.
Targets(t) == {t[i].label : i \in {j \in 1 .. Len(t) : t[j].op \in {"jump", "ref"}}}

\* The labels drawn so far, and the one that is none.
Drawn == NULL .. labelcnt

\* gen_label() has drawn every label in use: those that break and continue jump to,
\* the literals', and whatever the text defines, jumps to or refers to.
TypeOK ==
  /\ acts \in Seq(Activation)
  /\ text \in Seq(Item)
  /\ labelcnt \in Nat /\ nodes \in Nat /\ tops \in Nat
  /\ breaklabel \in Drawn /\ contlabel \in Drawn /\ strlits \subseteq Drawn
  /\ Defined(text) \cup Targets(text) \subseteq Drawn

UniqueDefs(t) ==
  \A i \in 1 .. Len(t) : t[i].op = "label" =>
    \A j \in 1 .. Len(t) : t[j].op = "label" /\ t[i].label = t[j].label => i = j

\* gen_label() serves the semantic pass (string literals) and codegen alike,
\* function after function: no label is defined twice in the output file.
LabelsUnique == UniqueDefs(text)

\* When a function has been emitted, every label it jumps to or refers to is
\* defined; the one exception is the NULL of a break outside of all loops.
JumpsResolved == acts = <<>> => Targets(text) \subseteq Defined(text) \cup {NULL}

IsLoop(a) == a.kind \in {"while", "for"} /\ a.pc # "enter"

\* Among the first n of the activations as, loop j is the innermost one.
Innermost(as, j, n) ==
  /\ j \in 1 .. n
  /\ IsLoop(as[j])
  /\ \A i \in j + 1 .. n : ~IsLoop(as[i])

\* b and c are where break and continue must go when the first n of the
\* activations as are the active ones.
LoopLabels(as, b, c, n) ==
  \/ /\ \A i \in 1 .. n : ~IsLoop(as[i])
     /\ b = NULL
     /\ c = NULL
  \/ \E j \in 1 .. n :
       /\ Innermost(as, j, n)
       /\ b = as[j].endl
       /\ c = IF as[j].kind = "while" THEN as[j].startl ELSE as[j].nextl

\* At every point of the walk, also after nested loops have come and gone, the
\* two globals name the end and the next round of the innermost loop around it.
BreakInnermost == LoopLabels(acts, breaklabel, contlabel, Len(acts))

\* A jump never leaves its function: between the jump and the definition of
\* its target no other function starts.
JumpsStayInFunction ==
  \A i \in 1 .. Len(text) : text[i].op = "jump" =>
    \A j \in 1 .. Len(text) : text[j].op = "label" /\ text[i].label = text[j].label =>
      \A k \in 1 .. Len(text) : text[k].op = "fn" => (k < i <=> k < j)
=============================================================================
