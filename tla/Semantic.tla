------------------------------ MODULE Semantic ------------------------------
(***************************************************************************)
(* Names, stack slots and string literals: semantic.c's walk over one      *)
(* toplevel after the other, inside the driver loop of sncc.c.             *)
(*                                                                         *)
(* Everything lives in globals: varmap, varpos and strlits start afresh    *)
(* with every toplevel, fnmap and globalvarmap last for the compilation,   *)
(* and labelcnt is shared with codegen.  What a reference is resolved to   *)
(* is written into its AST node and read much later, by codegen, when the  *)
(* maps have moved on.                                                     *)
(*                                                                         *)
(* decls, globals, fns, refs, strs and data are histories: the declarations*)
(* in the order they were analysed, the annotated AST nodes, the strings   *)
(* referred to and those emitted.  Only the bounds depend on them.         *)
(***************************************************************************)
EXTENDS Integers, Sequences, FiniteSets

CONSTANTS
  Names,        \* identifiers
  Types,        \* types a declaration may have
  Incomplete,   \* those typesize() refuses: void, structs without a body
  Size,         \* what typesize() says of the others
  IntType,      \* the type of a call of an unknown function
  MaxTops,      \* bound: toplevels of one compilation
  MaxDecls,     \* bound: local declarations of one compilation
  MaxRefs,      \* bound: references of one compilation
  MaxStrs,      \* bound: string literals of one compilation
  MaxJumps      \* bound: labels codegen draws for one function

ASSUME TypesAssumption == /\ Incomplete \subseteq Types
                          /\ IntType \in Types
                          /\ Size \in [Types \ Incomplete -> Nat]

ASSUME BoundsAssumption == /\ MaxTops \in Nat
                           /\ MaxDecls \in Nat
                           /\ MaxRefs \in Nat
                           /\ MaxStrs \in Nat
                           /\ MaxJumps \in Nat

VARIABLES
  phase,         \* where main's loop is; "exit" after a call of error()
  fnmap, globalvarmap, varmap,
  varpos,        \* bytes of the frame given away so far
  strlits,       \* labels of the string literals of this toplevel
  labelcnt,
  tops,          \* toplevels begun; the last one is being compiled
  stacksize,     \* top->stacksize of every function analysed
  decls, globals, fns, refs, strs, data

vars == <<phase, fnmap, globalvarmap, varmap, varpos, strlits, labelcnt, tops,
          stacksize, decls, globals, fns, refs, strs, data>>

Phases == {"top", "params", "body", "exit"}

Empty == [n \in {} |-> 0]

\* Mutant: a known name keeps its value.
InsertKeeps(map, name, value) ==
  [n \in DOMAIN map \cup {name} |-> IF n \in DOMAIN map THEN map[n] ELSE value]

\* map_insert(): the value of a known name is replaced.
Insert(map, name, value) ==
  [n \in DOMAIN map \cup {name} |-> IF n = name THEN value ELSE map[n]]

-----------------------------------------------------------------------------
\* error() leaves the process at once.
Exit ==
  /\ phase' = "exit"
  /\ UNCHANGED <<fnmap, globalvarmap, varmap, varpos, strlits, labelcnt, tops,
                 stacksize, decls, globals, fns, refs, strs, data>>

\* Mutant: varmap keeps the locals of the function before.
StartTopKeepsLocals ==
  /\ phase = "top"
  /\ tops < MaxTops
  /\ tops' = tops + 1
  /\ varpos' = 0
  /\ strlits' = <<>>
  /\ UNCHANGED varmap

\* Mutant: strlits keeps the strings of the toplevel before.
StartTopKeepsStrings ==
  /\ phase = "top"
  /\ tops < MaxTops
  /\ tops' = tops + 1
  /\ varmap' = Empty
  /\ varpos' = 0
  /\ UNCHANGED strlits

\* main's next turn: init_fn_semantic(), whatever kind the toplevel has.
StartTop ==
  /\ phase = "top"
  /\ tops < MaxTops
  /\ tops' = tops + 1
  /\ varmap' = Empty
  /\ varpos' = 0
  /\ strlits' = <<>>

\* codegen_strlits(), after the analysis of every toplevel.
EmitStrlits == data' = data \o strlits'

\* Mutant: the offset is taken before varpos has grown.
DeclareTooEarly(n, t) ==
  /\ varpos' = varpos + Size[t]
  /\ varmap' = Insert(varmap, n, [typ |-> t, offset |-> varpos])
  /\ decls' = Append(decls, [fn |-> tops, name |-> n, typ |-> t, offset |-> varpos])

\* A slot for a parameter or a local variable.
Declare(n, t) ==
  /\ varpos' = varpos + Size[t]
  /\ varmap' = Insert(varmap, n, [typ |-> t, offset |-> varpos'])
  /\ decls' = Append(decls, [fn |-> tops, name |-> n, typ |-> t, offset |-> varpos'])

\* The AST node of a reference is annotated.  The last three fields say when:
\* after how many declarations of each sort.
Refer(name, kind, typ, offset, nlocals) ==
  refs' = Append(refs, [fn |-> tops, name |-> name, kind |-> kind, typ |-> typ,
                        offset |-> offset, locals |-> nlocals,
                        globals |-> Len(globals), fns |-> Len(fns)])

-----------------------------------------------------------------------------
\* TOP_NONE and TOP_STRUCT touch no name.
TopOther ==
  /\ StartTop
  /\ EmitStrlits
  /\ UNCHANGED <<phase, fnmap, globalvarmap, labelcnt, stacksize, decls, globals,
                 fns, refs, strs>>

\* TOP_EXTERN and TOP_GLOBALVAR.
GlobalVar(n, t) ==
  /\ StartTop
  /\ globalvarmap' = Insert(globalvarmap, n, t)
  /\ globals' = Append(globals, [name |-> n, typ |-> t])
  /\ EmitStrlits
  /\ UNCHANGED <<phase, fnmap, labelcnt, stacksize, decls, fns, refs, strs>>

\* The name of a function is known before its parameters and its body.
FuncDecl(f, t) ==
  /\ StartTop
  /\ phase' = "params"
  /\ fnmap' = Insert(fnmap, f, t)
  /\ fns' = Append(fns, [name |-> f, typ |-> t])
  /\ UNCHANGED <<globalvarmap, labelcnt, stacksize, decls, globals, refs, strs, data>>

Param(n, t) ==
  /\ phase = "params"
  /\ Len(decls) < MaxDecls
  /\ IF t \in Incomplete
       THEN Exit
       ELSE /\ Declare(n, t)
            /\ UNCHANGED <<phase, fnmap, globalvarmap, strlits, labelcnt, tops,
                           stacksize, globals, fns, refs, strs, data>>

\* A prototype: body is NULL, stacksize stays unset.
Prototype ==
  /\ phase = "params"
  /\ phase' = "top"
  /\ UNCHANGED strlits
  /\ EmitStrlits
  /\ UNCHANGED <<fnmap, globalvarmap, varmap, varpos, labelcnt, tops, stacksize,
                 decls, globals, fns, refs, strs>>

BeginBody ==
  /\ phase = "params"
  /\ phase' = "body"
  /\ UNCHANGED <<fnmap, globalvarmap, varmap, varpos, strlits, labelcnt, tops,
                 stacksize, decls, globals, fns, refs, strs, data>>

-----------------------------------------------------------------------------
\* AST_VARDECL without initialiser, anywhere in the body: blocks open no scope.
VarDecl(n, t) ==
  /\ phase = "body"
  /\ Len(decls) < MaxDecls
  /\ IF t \in Incomplete
       THEN Exit
       ELSE /\ Declare(n, t)
            /\ UNCHANGED <<phase, fnmap, globalvarmap, strlits, labelcnt, tops,
                           stacksize, globals, fns, refs, strs, data>>

\* With an initialiser the node becomes an AST_ASSIGN to the new variable; its
\* right side is analysed next.
VarDeclInit(n, t) ==
  /\ phase = "body"
  /\ Len(decls) < MaxDecls
  /\ Len(refs) < MaxRefs
  /\ IF t \in Incomplete
       THEN Exit
       ELSE /\ Declare(n, t)
            /\ Refer(n, "local", varmap'[n].typ, varmap'[n].offset, Len(decls) + 1)
            /\ UNCHANGED <<phase, fnmap, globalvarmap, strlits, labelcnt, tops,
                           stacksize, globals, fns, strs, data>>

\* AST_IDENT.
Ident(n) ==
  /\ phase = "body"
  /\ Len(refs) < MaxRefs
  /\ \/ /\ n \in DOMAIN varmap
        /\ Refer(n, "local", varmap[n].typ, varmap[n].offset, Len(decls))
     \/ /\ n \notin DOMAIN varmap
        /\ n \in DOMAIN globalvarmap
        /\ Refer(n, "global", globalvarmap[n], 0, Len(decls))
  /\ UNCHANGED <<phase, fnmap, globalvarmap, varmap, varpos, strlits, labelcnt,
                 tops, stacksize, decls, globals, fns, strs, data>>

Undeclared(n) ==
  /\ phase = "body"
  /\ n \notin DOMAIN varmap
  /\ n \notin DOMAIN globalvarmap
  /\ Exit

\* The other calls of error(): ill-typed operands, fields that do not exist, the size
\* of a type without one (for codegen, too, that of a global or of a pointer's target),
\* an initialiser of a global that is no constant.
Refused ==
  /\ \/ phase = "body"
     \/ phase = "top" /\ tops < MaxTops
  /\ Exit

\* AST_CALL: a function nobody declared is one that returns int.
CallFn(f) ==
  /\ phase = "body"
  /\ Len(refs) < MaxRefs
  /\ Refer(f, "fn", IF f \in DOMAIN fnmap THEN fnmap[f] ELSE IntType, 0, Len(decls))
  /\ UNCHANGED <<phase, fnmap, globalvarmap, varmap, varpos, strlits, labelcnt,
                 tops, stacksize, decls, globals, fns, strs, data>>

\* Mutant: the label is the counter before it is increased.
StrLitOldLabel ==
  /\ phase = "body"
  /\ Cardinality(strs) < MaxStrs
  /\ labelcnt' = labelcnt + 1
  /\ strlits' = Append(strlits, labelcnt)
  /\ strs' = strs \cup {labelcnt}
  /\ UNCHANGED <<phase, fnmap, globalvarmap, varmap, varpos, tops, stacksize,
                 decls, globals, fns, refs, data>>

\* AST_STRLIT becomes a reference to a fresh label.
StrLit ==
  /\ phase = "body"
  /\ Cardinality(strs) < MaxStrs
  /\ labelcnt' = labelcnt + 1
  /\ strlits' = Append(strlits, labelcnt')
  /\ strs' = strs \cup {labelcnt'}
  /\ UNCHANGED <<phase, fnmap, globalvarmap, varmap, varpos, tops, stacksize,
                 decls, globals, fns, refs, data>>

\* The body is done; codegen emits its strings and draws labels for its jumps.
EndBody ==
  /\ phase = "body"
  /\ phase' = "top"
  /\ stacksize' = Insert(stacksize, tops, varpos)
  /\ UNCHANGED strlits
  /\ EmitStrlits
  /\ \E k \in 0 .. MaxJumps : labelcnt' = labelcnt + k
  /\ UNCHANGED <<fnmap, globalvarmap, varmap, varpos, tops, decls, globals, fns, refs, strs>>

-----------------------------------------------------------------------------
Init ==
  /\ phase = "top"
  /\ fnmap = Empty /\ globalvarmap = Empty /\ varmap = Empty
  /\ varpos = 0
  /\ strlits = <<>>
  /\ labelcnt = 0
  /\ tops = 0
  /\ stacksize = Empty
  /\ decls = <<>> /\ globals = <<>> /\ fns = <<>> /\ refs = <<>>
  /\ strs = {} /\ data = <<>>

Next ==
  \/ TopOther \/ Prototype \/ BeginBody \/ StrLit \/ EndBody \/ Refused
  \/ \E n \in Names : Ident(n) \/ Undeclared(n) \/ CallFn(n)
  \/ \E n \in Names, t \in Types :
       \/ GlobalVar(n, t) \/ FuncDecl(n, t)
       \/ Param(n, t) \/ VarDecl(n, t) \/ VarDeclInit(n, t)

Spec == Init /\ [][Next]_vars

-----------------------------------------------------------------------------
Slot == [fn : Nat, name : Names, typ : Types \ Incomplete, offset : Nat]
Decl == [name : Names, typ : Types]
Reference ==
  [fn : Nat, name : Names, kind : {"local", "global", "fn"}, typ : Types,
   offset : Nat, locals : Nat, globals : Nat, fns : Nat]

TypeOK ==
  /\ phase \in Phases
  /\ DOMAIN fnmap \subseteq Names /\ \A n \in DOMAIN fnmap : fnmap[n] \in Types
  /\ DOMAIN globalvarmap \subseteq Names
  /\ \A n \in DOMAIN globalvarmap : globalvarmap[n] \in Types
  /\ DOMAIN varmap \subseteq Names
  /\ \A n \in DOMAIN varmap : /\ varmap[n].typ \in Types \ Incomplete
                              /\ varmap[n].offset \in Nat
  /\ varpos \in Nat /\ labelcnt \in Nat /\ tops \in Nat
  /\ strlits \in Seq(Nat) /\ data \in Seq(Nat)
  /\ DOMAIN stacksize \subseteq Nat /\ \A k \in DOMAIN stacksize : stacksize[k] \in Nat
  /\ decls \in Seq(Slot)
  /\ globals \in Seq(Decl) /\ fns \in Seq(Decl)
  /\ refs \in Seq(Reference)
  /\ strs \subseteq 1 .. labelcnt

\* Two slots of one frame never share a byte: slot i is the Size bytes from
\* -offset(%rbp) upwards, so a later slot ends where the earlier one begins.
SlotsDisjoint ==
  \A i, j \in 1 .. Len(decls) :
    i < j /\ decls[i].fn = decls[j].fn =>
      decls[j].offset - Size[decls[j].typ] >= decls[i].offset

\* codegen loads and stores Size bytes at -offset(%rbp) of a frame of stacksize
\* bytes, long after the offset was handed out: every slot and every local
\* reference of a finished function is inside of its frame.
FrameHolds ==
  /\ \A i \in 1 .. Len(decls) :
       decls[i].fn \in DOMAIN stacksize =>
         decls[i].offset \in Size[decls[i].typ] .. stacksize[decls[i].fn]
  /\ \A i \in 1 .. Len(refs) :
       refs[i].kind = "local" /\ refs[i].fn \in DOMAIN stacksize =>
         refs[i].offset \in Size[refs[i].typ] .. stacksize[refs[i].fn]

\* The positions among the first n of the declarations ds that declare name.
Declaring(ds, n, name) == {i \in 1 .. n : ds[i].name = name}

IsLatest(i, S) == i \in S /\ \A j \in S : j <= i

LocalsOf(r) == {i \in Declaring(decls, r.locals, r.name) : decls[i].fn = r.fn}

\* What every annotated node must say, defined from the order of declarations
\* alone: the latest local of this very function, else the latest global; for a
\* call the latest declaration of the function, else int.
Resolved(r) ==
  CASE r.kind = "local" ->
         \E i \in LocalsOf(r) : /\ IsLatest(i, LocalsOf(r))
                                /\ r.typ = decls[i].typ
                                /\ r.offset = decls[i].offset
    [] r.kind = "global" ->
         /\ LocalsOf(r) = {}
         /\ \E i \in Declaring(globals, r.globals, r.name) :
              /\ IsLatest(i, Declaring(globals, r.globals, r.name))
              /\ r.typ = globals[i].typ
    [] r.kind = "fn" ->
         \/ /\ Declaring(fns, r.fns, r.name) = {}
            /\ r.typ = IntType
         \/ \E i \in Declaring(fns, r.fns, r.name) :
              /\ IsLatest(i, Declaring(fns, r.fns, r.name))
              /\ r.typ = fns[i].typ

\* No local leaks into the next function, no redeclaration changes a node that
\* was annotated before it, no global hides a local.
RefsResolve == \A i \in 1 .. Len(refs) : Resolved(refs[i])

\* Between two toplevels every string referred to has been emitted, and emitted
\* once: codegen_strlits() runs for every toplevel, also for those that are no
\* function and analysed no string.
StringsOnce ==
  /\ \A i, j \in 1 .. Len(data) : data[i] = data[j] => i = j
  /\ phase = "top" => strs \subseteq {data[i] : i \in 1 .. Len(data)}
=============================================================================
