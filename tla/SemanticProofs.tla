--------------------------- MODULE SemanticProofs ---------------------------
(***************************************************************************)
(* For all names, types and sizes: the slots of a frame are disjoint, and  *)
(* every slot and every local reference lies inside of the frame codegen   *)
(* later makes for its function.  varpos is the highest offset handed out  *)
(* in the current function, so that each new slot starts where the others  *)
(* end; a reference carries the type and offset of some slot of its own    *)
(* function because varmap holds nothing else.                             *)
(*                                                                         *)
(* Then, on top of that invariant: every node is annotated with the latest *)
(* declaration of its name (NamesInv: the maps are the histories of        *)
(* declarations read from the end), and no string literal is emitted twice *)
(* or forgotten (StringsInv).                                              *)
(***************************************************************************)
EXTENDS Semantic, TLAPS, SequenceTheorems

\* One of the declarations ds, of function k, gave out a slot of this type and offset.
IsSlot(ds, k, t, o) ==
  \E i \in 1 .. Len(ds) : ds[i].fn = k /\ ds[i].typ = t /\ ds[i].offset = o

FrameInv ==
  /\ DOMAIN stacksize \subseteq 1 .. tops
  /\ phase \in {"params", "body"} => tops \in 1 .. tops \ DOMAIN stacksize
  /\ \A i \in 1 .. Len(decls) :
       /\ decls[i].fn \in 1 .. tops
       /\ decls[i].offset >= Size[decls[i].typ]
       /\ decls[i].fn = tops => decls[i].offset <= varpos
       /\ decls[i].fn \in DOMAIN stacksize => decls[i].offset <= stacksize[decls[i].fn]
  /\ SlotsDisjoint
  /\ \A n \in DOMAIN varmap : IsSlot(decls, tops, varmap[n].typ, varmap[n].offset)
  /\ \A i \in 1 .. Len(refs) :
       refs[i].kind = "local" => IsSlot(decls, refs[i].fn, refs[i].typ, refs[i].offset)

IInv == TypeOK /\ FrameInv

-----------------------------------------------------------------------------
\* What a slot adds to the declarations.
LEMMA DeclareProperties ==
  ASSUME TypeOK, NEW n \in Names, NEW t \in Types \ Incomplete, Declare(n, t)
  PROVE  /\ Size[t] \in Nat
         /\ varpos' = varpos + Size[t] /\ varpos' \in Nat
         /\ decls' \in Seq(Slot)
         /\ Len(decls) \in Nat /\ Len(decls') = Len(decls) + 1
         /\ \A i \in 1 .. Len(decls) : decls'[i] = decls[i]
         /\ decls'[Len(decls) + 1].fn = tops
         /\ decls'[Len(decls) + 1].typ = t
         /\ decls'[Len(decls) + 1].offset = varpos'
         /\ varmap'[n].typ = t /\ varmap'[n].offset = varpos'
         /\ DOMAIN varmap' = DOMAIN varmap \cup {n}
         /\ \A m \in DOMAIN varmap : m # n => varmap'[m] = varmap[m]
<1> DEFINE slot == [fn |-> tops, name |-> n, typ |-> t, offset |-> varpos']
<1>1. /\ Size[t] \in Nat /\ varpos' = varpos + Size[t] /\ varpos' \in Nat
  BY TypesAssumption DEF TypeOK, Declare
<1>2. slot \in Slot
  BY <1>1 DEF Slot, TypeOK
<1>3. decls \in Seq(Slot) /\ decls' = Append(decls, slot)
  BY DEF Declare, TypeOK
<1>4. /\ decls' \in Seq(Slot)
      /\ Len(decls) \in Nat /\ Len(decls') = Len(decls) + 1
      /\ \A i \in 1 .. Len(decls) : decls'[i] = decls[i]
      /\ decls'[Len(decls) + 1] = slot
  BY <1>2, <1>3, AppendProperties
<1>5. /\ slot.fn = tops /\ slot.typ = t /\ slot.offset = varpos'
  OBVIOUS
<1> DEFINE info == [typ |-> t, offset |-> varpos']
<1>6. /\ varmap' = Insert(varmap, n, info)
      /\ info.typ = t /\ info.offset = varpos'
  BY DEF Declare
<1> HIDE DEF info
<1>7. /\ varmap'[n] = info
      /\ DOMAIN varmap' = DOMAIN varmap \cup {n}
      /\ \A m \in DOMAIN varmap : m # n => varmap'[m] = varmap[m]
  <2>1. /\ Insert(varmap, n, info)[n] = info
        /\ DOMAIN Insert(varmap, n, info) = DOMAIN varmap \cup {n}
        /\ \A m \in DOMAIN varmap : m # n => Insert(varmap, n, info)[m] = varmap[m]
    BY DEF Insert
  <2>2. QED
    BY <1>6, <2>1
<1> HIDE DEF slot
<1>8. QED
  BY <1>1, <1>4, <1>5, <1>6, <1>7

LEMMA ReferProperties ==
  ASSUME TypeOK, NEW n \in Names, NEW kind \in {"local", "global", "fn"},
         NEW t \in Types, NEW o \in Nat, NEW k \in Nat, Refer(n, kind, t, o, k)
  PROVE  /\ refs' \in Seq(Reference)
         /\ Len(refs) \in Nat /\ Len(refs') = Len(refs) + 1
         /\ \A i \in 1 .. Len(refs) : refs'[i] = refs[i]
         /\ refs'[Len(refs) + 1].fn = tops /\ refs'[Len(refs) + 1].kind = kind
         /\ refs'[Len(refs) + 1].typ = t /\ refs'[Len(refs) + 1].offset = o
<1> DEFINE ref == [fn |-> tops, name |-> n, kind |-> kind, typ |-> t, offset |-> o,
                   locals |-> k, globals |-> Len(globals), fns |-> Len(fns)]
<1>1. ref \in Reference
  BY LenProperties DEF Reference, TypeOK
<1>2. refs \in Seq(Reference) /\ refs' = Append(refs, ref)
  BY DEF Refer, TypeOK
<1>3. /\ refs' \in Seq(Reference)
      /\ Len(refs) \in Nat /\ Len(refs') = Len(refs) + 1
      /\ \A i \in 1 .. Len(refs) : refs'[i] = refs[i]
      /\ refs'[Len(refs) + 1] = ref
  BY <1>1, <1>2, AppendProperties
<1>4. ref.fn = tops /\ ref.kind = kind /\ ref.typ = t /\ ref.offset = o
  OBVIOUS
<1> HIDE DEF ref
<1>5. QED
  BY <1>3, <1>4

-----------------------------------------------------------------------------
\* Steps that touch neither slots nor references.
LEMMA SameFrames ==
  ASSUME FrameInv,
         UNCHANGED <<varmap, varpos, tops, stacksize, decls, refs>>,
         phase' \in {"params", "body"} => phase \in {"params", "body"}
  PROVE  FrameInv'
<1>1. \A k, t, o : IsSlot(decls, k, t, o) => IsSlot(decls', k, t, o)
  BY DEF IsSlot
<1>2. SlotsDisjoint'
  BY DEF FrameInv, SlotsDisjoint
<1>3. QED
  BY <1>1, <1>2 DEF FrameInv

\* A new toplevel: no declaration belongs to it, and no name is known.
LEMMA StartTopFrames ==
  ASSUME TypeOK, FrameInv, StartTop, UNCHANGED <<stacksize, decls, refs>>
  PROVE  FrameInv'
<1>1. tops \in Nat /\ tops' = tops + 1 /\ varmap' = Empty /\ DOMAIN Empty = {}
  BY DEF TypeOK, StartTop, Empty
<1>2. \A k, t, o : IsSlot(decls, k, t, o) => IsSlot(decls', k, t, o)
  BY DEF IsSlot
<1>3. SlotsDisjoint'
  BY DEF FrameInv, SlotsDisjoint
<1>4. tops' \notin 1 .. tops /\ 1 .. tops \subseteq 1 .. tops'
  BY <1>1
<1>5. QED
  BY <1>1, <1>2, <1>3, <1>4 DEF FrameInv

\* A new slot starts where the others end.
LEMMA DeclareFrames ==
  ASSUME TypeOK, FrameInv, phase \in {"params", "body"}, phase' = phase,
         NEW n \in Names, NEW t \in Types \ Incomplete, Declare(n, t),
         UNCHANGED <<tops, stacksize>>,
         \A i \in 1 .. Len(refs') : refs'[i].kind = "local" =>
           \/ i \in 1 .. Len(refs) /\ refs'[i] = refs[i]
           \/ refs'[i].fn = tops /\ refs'[i].typ = t /\ refs'[i].offset = varpos'
  PROVE  FrameInv'
<1> DEFINE m == Len(decls)
<1>1. /\ Size[t] \in Nat
      /\ varpos' = varpos + Size[t] /\ varpos' \in Nat /\ varpos \in Nat
      /\ m \in Nat /\ Len(decls') = m + 1
      /\ \A i \in 1 .. m : decls'[i] = decls[i]
      /\ decls'[m + 1].fn = tops
      /\ decls'[m + 1].typ = t
      /\ decls'[m + 1].offset = varpos'
      /\ varmap'[n].typ = t /\ varmap'[n].offset = varpos'
      /\ DOMAIN varmap' = DOMAIN varmap \cup {n}
      /\ \A x \in DOMAIN varmap : x # n => varmap'[x] = varmap[x]
  BY DeclareProperties DEF TypeOK
<1>2. /\ \A i \in 1 .. m : decls[i].fn \in 1 .. tops /\ decls[i].offset \in Nat
      /\ \A i \in 1 .. m : decls[i].fn = tops => decls[i].offset <= varpos
  <2>1. \A i \in 1 .. m : decls[i] \in Slot
    BY DEF TypeOK
  <2>2. QED
    BY <2>1 DEF FrameInv, Slot
<1> HIDE DEF m
<1>3. \A i \in 1 .. m + 1 : i \in 1 .. m \/ i = m + 1
  BY <1>1
<1>4. IsSlot(decls', tops, t, varpos')
  BY <1>1 DEF IsSlot
<1>5. ASSUME NEW k, NEW u, NEW o, IsSlot(decls, k, u, o) PROVE IsSlot(decls', k, u, o)
  <2>1. PICK i \in 1 .. m : decls[i].fn = k /\ decls[i].typ = u /\ decls[i].offset = o
    BY <1>5 DEF IsSlot, m
  <2>2. i \in 1 .. m + 1 /\ decls'[i] = decls[i]
    BY <1>1
  <2>3. QED
    BY <1>1, <2>1, <2>2 DEF IsSlot
<1>6. \A i \in 1 .. m + 1 :
        /\ decls'[i].fn \in 1 .. tops
        /\ decls'[i].offset >= Size[decls'[i].typ]
        /\ decls'[i].fn = tops => decls'[i].offset <= varpos'
        /\ decls'[i].fn \in DOMAIN stacksize => decls'[i].offset <= stacksize[decls'[i].fn]
  <2>1. \A i \in 1 .. m :
          /\ decls'[i].fn \in 1 .. tops
          /\ decls'[i].offset >= Size[decls'[i].typ]
          /\ decls'[i].fn = tops => decls'[i].offset <= varpos'
          /\ decls'[i].fn \in DOMAIN stacksize =>
               decls'[i].offset <= stacksize[decls'[i].fn]
    <3>1. \A i \in 1 .. m :
            /\ decls[i].offset >= Size[decls[i].typ]
            /\ decls[i].fn \in DOMAIN stacksize =>
                 decls[i].offset <= stacksize[decls[i].fn]
      BY DEF FrameInv, m
    <3>2. SUFFICES ASSUME NEW i \in 1 .. m
                   PROVE  /\ decls[i].fn \in 1 .. tops
                          /\ decls[i].offset >= Size[decls[i].typ]
                          /\ decls[i].fn = tops => decls[i].offset <= varpos'
                          /\ decls[i].fn \in DOMAIN stacksize =>
                               decls[i].offset <= stacksize[decls[i].fn]
      BY <1>1
    <3>3. decls[i].fn = tops => decls[i].offset <= varpos'
      BY <1>1, <1>2
    <3>4. QED
      BY <1>2, <3>1, <3>3
  <2>2. tops \in 1 .. tops /\ tops \notin DOMAIN stacksize
    BY DEF FrameInv
  <2>3. varpos' >= Size[t] /\ varpos' <= varpos'
    BY <1>1
  <2>4. /\ decls'[m + 1].fn \in 1 .. tops
        /\ decls'[m + 1].offset >= Size[decls'[m + 1].typ]
        /\ decls'[m + 1].fn = tops => decls'[m + 1].offset <= varpos'
        /\ decls'[m + 1].fn \in DOMAIN stacksize =>
             decls'[m + 1].offset <= stacksize[decls'[m + 1].fn]
    BY <1>1, <2>2, <2>3
  <2>5. QED
    BY <1>3, <2>1, <2>4
<1>7. SlotsDisjoint'
  <2>1. SUFFICES ASSUME NEW i \in 1 .. m + 1, NEW j \in 1 .. m + 1,
                        i < j, decls'[i].fn = decls'[j].fn
                 PROVE  decls'[j].offset - Size[decls'[j].typ] >= decls'[i].offset
    BY <1>1 DEF SlotsDisjoint
  <2>2. CASE j \in 1 .. m
    <3>1. i \in 1 .. m
      BY <1>1, <2>1, <2>2
    <3>2. QED
      BY <1>1, <2>1, <2>2, <3>1 DEF FrameInv, SlotsDisjoint, m
  <2>3. CASE j = m + 1
    <3>1. i \in 1 .. m
      BY <1>1, <2>1, <2>3
    <3>2. decls[i].offset <= varpos /\ decls[i].offset \in Nat
      BY <1>1, <1>2, <2>1, <2>3, <3>1
    <3>3. QED
      BY <1>1, <2>3, <3>1, <3>2
  <2>4. QED
    BY <1>3, <2>2, <2>3
<1>8. \A x \in DOMAIN varmap' : IsSlot(decls', tops, varmap'[x].typ, varmap'[x].offset)
  <2>1. \A x \in DOMAIN varmap : IsSlot(decls, tops, varmap[x].typ, varmap[x].offset)
    BY DEF FrameInv
  <2>2. ASSUME NEW x \in DOMAIN varmap'
        PROVE  IsSlot(decls', tops, varmap'[x].typ, varmap'[x].offset)
    <3>1. CASE x = n
      BY <1>1, <1>4, <3>1
    <3>2. CASE x # n
      <4>1. x \in DOMAIN varmap /\ varmap'[x] = varmap[x]
        BY <1>1, <3>2
      <4>2. QED
        BY <1>5, <2>1, <4>1
    <3>3. QED
      BY <3>1, <3>2
  <2>3. QED
    BY <2>2
<1>9. \A i \in 1 .. Len(refs') :
        refs'[i].kind = "local" => IsSlot(decls', refs'[i].fn, refs'[i].typ, refs'[i].offset)
  <2>1. ASSUME NEW i \in 1 .. Len(refs'), refs'[i].kind = "local"
        PROVE  IsSlot(decls', refs'[i].fn, refs'[i].typ, refs'[i].offset)
    <3>1. CASE i \in 1 .. Len(refs) /\ refs'[i] = refs[i]
      <4>1. IsSlot(decls, refs[i].fn, refs[i].typ, refs[i].offset)
        BY <2>1, <3>1 DEF FrameInv
      <4>2. QED
        BY <1>5, <3>1, <4>1
    <3>2. CASE refs'[i].fn = tops /\ refs'[i].typ = t /\ refs'[i].offset = varpos'
      BY <1>4, <3>2
    <3>3. QED
      BY <2>1, <3>1, <3>2
  <2>2. QED
    BY <2>1
<1>10. QED
  BY <1>1, <1>6, <1>7, <1>8, <1>9 DEF FrameInv


\* An annotated node: a local one names a slot of its function.
LEMMA ReferFrames ==
  ASSUME TypeOK, FrameInv,
         UNCHANGED <<phase, varmap, varpos, tops, stacksize, decls>>,
         NEW n \in Names, NEW kind \in {"local", "global", "fn"},
         NEW t \in Types, NEW o \in Nat, NEW k \in Nat, Refer(n, kind, t, o, k),
         kind = "local" => IsSlot(decls, tops, t, o)
  PROVE  FrameInv'
<1>1. /\ Len(refs) \in Nat /\ Len(refs') = Len(refs) + 1
      /\ \A i \in 1 .. Len(refs) : refs'[i] = refs[i]
      /\ refs'[Len(refs) + 1].fn = tops /\ refs'[Len(refs) + 1].kind = kind
      /\ refs'[Len(refs) + 1].typ = t /\ refs'[Len(refs) + 1].offset = o
  BY ReferProperties
<1>2. \A i \in 1 .. Len(refs) + 1 : i \in 1 .. Len(refs) \/ i = Len(refs) + 1
  BY <1>1
<1>3. \A i \in 1 .. Len(refs') : refs'[i].kind = "local" =>
        IsSlot(decls, refs'[i].fn, refs'[i].typ, refs'[i].offset)
  BY <1>1, <1>2 DEF FrameInv
<1>4. SlotsDisjoint'
  BY DEF FrameInv, SlotsDisjoint
<1>5. QED
  BY <1>3, <1>4 DEF FrameInv

\* The frame is made as large as the highest offset of the function.
LEMMA EndBodyFrames ==
  ASSUME TypeOK, FrameInv, EndBody
  PROVE  FrameInv'
<1>1. /\ stacksize' = Insert(stacksize, tops, varpos)
      /\ phase = "body" /\ phase' = "top"
      /\ UNCHANGED <<varmap, varpos, tops, decls, refs>>
  BY DEF EndBody
<1>2. /\ DOMAIN stacksize' = DOMAIN stacksize \cup {tops}
      /\ stacksize'[tops] = varpos
      /\ \A k \in DOMAIN stacksize : k # tops => stacksize'[k] = stacksize[k]
  BY <1>1 DEF Insert
<1>3. \A i \in 1 .. Len(decls) :
        decls[i].fn \in DOMAIN stacksize' => decls[i].offset <= stacksize'[decls[i].fn]
  <2>1. SUFFICES ASSUME NEW i \in 1 .. Len(decls), decls[i].fn \in DOMAIN stacksize'
                 PROVE  decls[i].offset <= stacksize'[decls[i].fn]
    OBVIOUS
  <2>2. CASE decls[i].fn = tops
    BY <1>2, <2>2 DEF FrameInv
  <2>3. CASE decls[i].fn # tops
    BY <1>2, <2>1, <2>3 DEF FrameInv
  <2>4. QED
    BY <2>2, <2>3
<1>4. SlotsDisjoint'
  BY <1>1 DEF FrameInv, SlotsDisjoint
<1>5. QED
  BY <1>1, <1>2, <1>3, <1>4 DEF FrameInv

-----------------------------------------------------------------------------
\* The types, action by action.

LEMMA TopTypes ==
  ASSUME TypeOK,
         TopOther \/ (\E n \in Names, t \in Types : GlobalVar(n, t) \/ FuncDecl(n, t))
  PROVE  TypeOK'
<1>1. /\ tops' \in Nat /\ varpos' \in Nat /\ strlits' \in Seq(Nat) /\ strlits' = <<>>
      /\ DOMAIN varmap' = {}
  <2>1. CASE StartTop
    <3>1. tops' = tops + 1 /\ tops \in Nat /\ varpos' = 0 /\ strlits' = <<>> /\ varmap' = Empty
      BY <2>1 DEF TypeOK, StartTop
    <3>2. DOMAIN Empty = {}
      BY DEF Empty
    <3>3. <<>> \in Seq(Nat)
      BY EmptySeq
    <3>4. QED
      BY <3>1, <3>2, <3>3
  <2>2. QED
    BY <2>1 DEF TopOther, GlobalVar, FuncDecl
<1>2. data \o <<>> = data
  BY ConcatEmptySeq DEF TypeOK
<1>3. CASE TopOther
  BY <1>1, <1>2, <1>3 DEF TypeOK, TopOther, EmitStrlits
<1>4. ASSUME NEW n \in Names, NEW t \in Types, GlobalVar(n, t)
      PROVE  TypeOK'
  <2>1. [name |-> n, typ |-> t] \in Decl
    BY DEF Decl
  <2>2. globals' \in Seq(Decl)
    BY <1>4, <2>1 DEF GlobalVar, TypeOK
  <2>3. /\ DOMAIN globalvarmap' \subseteq Names
        /\ \A m \in DOMAIN globalvarmap' : globalvarmap'[m] \in Types
    BY <1>4 DEF GlobalVar, Insert, TypeOK
  <2>4. QED
    BY <1>1, <1>2, <1>4, <2>2, <2>3 DEF TypeOK, GlobalVar, EmitStrlits
<1>5. ASSUME NEW n \in Names, NEW t \in Types, FuncDecl(n, t)
      PROVE  TypeOK'
  <2>1. [name |-> n, typ |-> t] \in Decl
    BY DEF Decl
  <2>2. fns' \in Seq(Decl)
    BY <1>5, <2>1 DEF FuncDecl, TypeOK
  <2>3. /\ DOMAIN fnmap' \subseteq Names
        /\ \A m \in DOMAIN fnmap' : fnmap'[m] \in Types
    BY <1>5 DEF FuncDecl, Insert, TypeOK
  <2>4. phase' \in Phases
    BY <1>5 DEF FuncDecl, Phases
  <2>5. QED
    BY <1>1, <1>5, <2>2, <2>3, <2>4 DEF TypeOK, FuncDecl
<1>6. QED
  BY <1>3, <1>4, <1>5

LEMMA DeclareTypes ==
  ASSUME TypeOK, NEW n \in Names, NEW t \in Types \ Incomplete, Declare(n, t),
         refs' \in Seq(Reference),
         UNCHANGED <<phase, fnmap, globalvarmap, strlits, labelcnt, tops, stacksize,
                     globals, fns, strs, data>>
  PROVE  TypeOK'
<1>1. /\ varpos' \in Nat /\ decls' \in Seq(Slot)
      /\ varmap'[n].typ = t /\ varmap'[n].offset = varpos'
      /\ DOMAIN varmap' = DOMAIN varmap \cup {n}
      /\ \A m \in DOMAIN varmap : m # n => varmap'[m] = varmap[m]
  BY DeclareProperties
<1>2. \A m \in DOMAIN varmap' : /\ varmap'[m].typ \in Types \ Incomplete
                                /\ varmap'[m].offset \in Nat
  BY <1>1 DEF TypeOK
<1>3. QED
  BY <1>1, <1>2 DEF TypeOK

LEMMA BodyTypes ==
  ASSUME TypeOK, Prototype \/ BeginBody \/ StrLit \/ EndBody \/ Exit
  PROVE  TypeOK'
<1>1. phase' \in Phases
  BY DEF TypeOK, Prototype, BeginBody, StrLit, EndBody, Exit, Phases
<1>2. data \in Seq(Nat) /\ strlits \in Seq(Nat) /\ data \o strlits \in Seq(Nat)
  BY ConcatProperties DEF TypeOK
<1>3. CASE Prototype
  BY <1>1, <1>2, <1>3 DEF Prototype, EmitStrlits, TypeOK
<1>4. CASE BeginBody
  BY <1>1, <1>4 DEF BeginBody, TypeOK
<1>5. CASE StrLit
  <2>1. labelcnt' = labelcnt + 1 /\ labelcnt \in Nat /\ strlits' = Append(strlits, labelcnt')
        /\ strs' = strs \cup {labelcnt'} /\ strs \subseteq 1 .. labelcnt
    BY <1>5 DEF StrLit, TypeOK
  <2>2. labelcnt' \in Nat /\ strlits' \in Seq(Nat) /\ strs' \subseteq 1 .. labelcnt'
    BY <1>2, <2>1
  <2>3. QED
    BY <1>1, <1>5, <2>2 DEF StrLit, TypeOK
<1>6. CASE EndBody
  <2>1. /\ DOMAIN stacksize' \subseteq Nat
        /\ \A k \in DOMAIN stacksize' : stacksize'[k] \in Nat
    BY <1>6 DEF EndBody, Insert, TypeOK
  <2>2. labelcnt' \in Nat /\ strs' \subseteq 1 .. labelcnt'
    <3>1. PICK k \in 0 .. MaxJumps : labelcnt' = labelcnt + k
      BY <1>6 DEF EndBody
    <3>2. k \in Nat /\ labelcnt \in Nat /\ strs' \subseteq 1 .. labelcnt
      BY <1>6, BoundsAssumption DEF EndBody, TypeOK
    <3>3. QED
      BY <3>1, <3>2
  <2>3. QED
    BY <1>1, <1>2, <1>6, <2>1, <2>2 DEF EndBody, EmitStrlits, TypeOK
<1>7. CASE Exit
  BY <1>1, <1>7 DEF Exit, TypeOK
<1>8. QED
  BY <1>3, <1>4, <1>5, <1>6, <1>7

LEMMA RefTypes ==
  ASSUME TypeOK, NEW n \in Names, Ident(n) \/ CallFn(n)
  PROVE  TypeOK'
<1>1. refs' \in Seq(Reference)
  <2>1. Len(decls) \in Nat
    BY LenProperties DEF TypeOK
  <2>2. CASE n \in DOMAIN varmap /\ Refer(n, "local", varmap[n].typ, varmap[n].offset, Len(decls))
    <3>1. varmap[n].typ \in Types /\ varmap[n].offset \in Nat
      BY <2>2 DEF TypeOK
    <3>2. QED
      BY <2>1, <2>2, <3>1, ReferProperties
  <2>3. CASE n \in DOMAIN globalvarmap /\ Refer(n, "global", globalvarmap[n], 0, Len(decls))
    <3>1. globalvarmap[n] \in Types
      BY <2>3 DEF TypeOK
    <3>2. QED
      BY <2>1, <2>3, <3>1, ReferProperties
  <2>4. CASE CallFn(n)
    <3> DEFINE t == IF n \in DOMAIN fnmap THEN fnmap[n] ELSE IntType
    <3>1. t \in Types
      BY TypesAssumption DEF TypeOK
    <3>2. Refer(n, "fn", t, 0, Len(decls))
      BY <2>4 DEF CallFn
    <3> HIDE DEF t
    <3>3. QED
      BY <2>1, <3>1, <3>2, ReferProperties
  <2>5. QED
    BY <2>2, <2>3, <2>4 DEF Ident
<1>2. UNCHANGED <<phase, fnmap, globalvarmap, varmap, varpos, strlits, labelcnt,
                  tops, stacksize, decls, globals, fns, strs, data>>
  BY DEF Ident, CallFn
<1>3. QED
  BY <1>1, <1>2 DEF TypeOK

-----------------------------------------------------------------------------
LEMMA InitInv == Init => IInv
<1>1. SUFFICES ASSUME Init PROVE IInv
  OBVIOUS
<1>2. DOMAIN Empty = {}
  BY DEF Empty
<1>3. /\ <<>> \in Seq(Nat) /\ <<>> \in Seq(Slot) /\ <<>> \in Seq(Decl)
      /\ <<>> \in Seq(Reference)
  BY EmptySeq
<1>4. TypeOK
  BY <1>1, <1>2, <1>3 DEF Init, TypeOK, Phases
<1>5. Len(decls) = 0 /\ Len(refs) = 0 /\ tops = 0 /\ phase = "top"
  BY <1>1 DEF Init
<1>6. FrameInv
  BY <1>1, <1>2, <1>5 DEF Init, FrameInv, SlotsDisjoint
<1>7. QED
  BY <1>4, <1>6 DEF IInv

\* Parameters and local variables.
LEMMA DeclarationInv ==
  ASSUME IInv, NEW n \in Names, NEW t \in Types,
         Param(n, t) \/ VarDecl(n, t) \/ VarDeclInit(n, t)
  PROVE  IInv'
<1>1. CASE Exit
  <2>1. phase' \notin {"params", "body"}
    BY <1>1 DEF Exit
  <2>2. QED
    BY <1>1, <2>1, BodyTypes, SameFrames DEF Exit, IInv
<1>2. CASE t \notin Incomplete /\ (Param(n, t) \/ VarDecl(n, t))
  <2>1. /\ Declare(n, t)
        /\ phase \in {"params", "body"}
        /\ UNCHANGED <<phase, fnmap, globalvarmap, strlits, labelcnt, tops,
                       stacksize, globals, fns, refs, strs, data>>
    BY <1>2 DEF Param, VarDecl
  <2>2. TypeOK /\ FrameInv /\ refs \in Seq(Reference)
    BY DEF IInv, TypeOK
  <2>3. TypeOK'
    BY <1>2, <2>1, <2>2, DeclareTypes
  <2>4. FrameInv'
    BY <1>2, <2>1, <2>2, DeclareFrames
  <2>5. QED
    BY <2>3, <2>4 DEF IInv
<1>3. CASE t \notin Incomplete /\ VarDeclInit(n, t)
  <2>1. /\ Declare(n, t)
        /\ Refer(n, "local", varmap'[n].typ, varmap'[n].offset, Len(decls) + 1)
        /\ phase \in {"params", "body"}
        /\ UNCHANGED <<phase, fnmap, globalvarmap, strlits, labelcnt, tops,
                       stacksize, globals, fns, strs, data>>
    BY <1>3 DEF VarDeclInit
  <2>2. TypeOK /\ FrameInv
    BY DEF IInv
  <2>3. /\ varmap'[n].typ = t /\ varmap'[n].offset = varpos' /\ varpos' \in Nat
        /\ Len(decls) \in Nat
    BY <1>3, <2>1, <2>2, DeclareProperties
  <2>4. Refer(n, "local", t, varpos', Len(decls) + 1)
    BY <2>1, <2>3
  <2>5. /\ refs' \in Seq(Reference)
        /\ Len(refs) \in Nat /\ Len(refs') = Len(refs) + 1
        /\ \A i \in 1 .. Len(refs) : refs'[i] = refs[i]
        /\ refs'[Len(refs) + 1].fn = tops
        /\ refs'[Len(refs) + 1].typ = t /\ refs'[Len(refs) + 1].offset = varpos'
    BY <2>2, <2>3, <2>4, ReferProperties
  <2>6. \A i \in 1 .. Len(refs') :
          \/ i \in 1 .. Len(refs) /\ refs'[i] = refs[i]
          \/ refs'[i].fn = tops /\ refs'[i].typ = t /\ refs'[i].offset = varpos'
    <3>1. \A i \in 1 .. Len(refs) + 1 : i \in 1 .. Len(refs) \/ i = Len(refs) + 1
      BY <2>5
    <3>2. QED
      BY <2>5, <3>1
  <2>7. TypeOK'
    BY <1>3, <2>1, <2>2, <2>5, DeclareTypes
  <2>8. FrameInv'
    BY <1>3, <2>1, <2>2, <2>6, DeclareFrames
  <2>9. QED
    BY <2>7, <2>8 DEF IInv
<1>4. QED
  BY <1>1, <1>2, <1>3 DEF Param, VarDecl, VarDeclInit

\* Identifiers and calls.
LEMMA ReferenceInv ==
  ASSUME IInv, NEW n \in Names, Ident(n) \/ CallFn(n)
  PROVE  IInv'
<1>1. TypeOK /\ FrameInv
  BY DEF IInv
<1>2. TypeOK'
  BY <1>1, RefTypes
<1>3. /\ UNCHANGED <<phase, varmap, varpos, tops, stacksize, decls>>
      /\ Len(decls) \in Nat
  BY <1>1, LenProperties DEF Ident, CallFn, TypeOK
<1>4. CASE n \in DOMAIN varmap /\ Refer(n, "local", varmap[n].typ, varmap[n].offset, Len(decls))
  <2>1. /\ varmap[n].typ \in Types /\ varmap[n].offset \in Nat
        /\ IsSlot(decls, tops, varmap[n].typ, varmap[n].offset)
    BY <1>1, <1>4 DEF TypeOK, FrameInv
  <2>2. FrameInv'
    BY <1>1, <1>3, <1>4, <2>1, ReferFrames
  <2>3. QED
    BY <1>2, <2>2 DEF IInv
<1>5. CASE n \in DOMAIN globalvarmap /\ Refer(n, "global", globalvarmap[n], 0, Len(decls))
  <2>1. globalvarmap[n] \in Types
    BY <1>1, <1>5 DEF TypeOK
  <2>2. FrameInv'
    BY <1>1, <1>3, <1>5, <2>1, ReferFrames
  <2>3. QED
    BY <1>2, <2>2 DEF IInv
<1>6. CASE CallFn(n)
  <2> DEFINE t == IF n \in DOMAIN fnmap THEN fnmap[n] ELSE IntType
  <2>1. t \in Types
    BY <1>1, TypesAssumption DEF TypeOK
  <2>2. Refer(n, "fn", t, 0, Len(decls))
    BY <1>6 DEF CallFn
  <2> HIDE DEF t
  <2>3. FrameInv'
    BY <1>1, <1>3, <2>1, <2>2, ReferFrames
  <2>4. QED
    BY <1>2, <2>3 DEF IInv
<1>7. QED
  BY <1>4, <1>5, <1>6 DEF Ident

LEMMA NextInv == IInv /\ [Next]_vars => IInv'
<1>1. SUFFICES ASSUME IInv, [Next]_vars PROVE IInv'
  OBVIOUS
<1>2. TypeOK /\ FrameInv
  BY <1>1 DEF IInv
<1>3. CASE TopOther \/ (\E n \in Names, t \in Types : GlobalVar(n, t) \/ FuncDecl(n, t))
  <2>1. TypeOK'
    BY <1>2, <1>3, TopTypes
  <2>2. StartTop /\ UNCHANGED <<stacksize, decls, refs>>
    BY <1>3 DEF TopOther, GlobalVar, FuncDecl
  <2>3. FrameInv'
    BY <1>2, <2>2, StartTopFrames
  <2>4. QED
    BY <2>1, <2>3 DEF IInv
<1>4. CASE Prototype \/ BeginBody \/ StrLit \/ Exit
  <2>1. TypeOK'
    BY <1>2, <1>4, BodyTypes
  <2>2. UNCHANGED <<varmap, varpos, tops, stacksize, decls, refs>>
    BY <1>4 DEF Prototype, BeginBody, StrLit, Exit
  <2>3. phase' \in {"params", "body"} => phase \in {"params", "body"}
    BY <1>4 DEF Prototype, BeginBody, StrLit, Exit
  <2>4. FrameInv'
    BY <1>2, <2>2, <2>3, SameFrames
  <2>5. QED
    BY <2>1, <2>4 DEF IInv
<1>5. CASE EndBody
  BY <1>2, <1>5, BodyTypes, EndBodyFrames DEF IInv
<1>6. CASE \E n \in Names : Ident(n) \/ CallFn(n)
  BY <1>1, <1>6, ReferenceInv
<1>7. CASE \E n \in Names, t \in Types : Param(n, t) \/ VarDecl(n, t) \/ VarDeclInit(n, t)
  BY <1>1, <1>7, DeclarationInv
<1>8. CASE UNCHANGED vars
  <2>1. TypeOK'
    BY <1>2, <1>8 DEF vars, TypeOK
  <2>2. FrameInv'
    BY <1>2, <1>8, SameFrames DEF vars
  <2>3. QED
    BY <2>1, <2>2 DEF IInv
<1>9. (\E n \in Names : Undeclared(n)) \/ Refused => Exit
  BY DEF Undeclared, Refused
<1>10. QED
  BY <1>1, <1>3, <1>4, <1>5, <1>6, <1>7, <1>8, <1>9 DEF Next

THEOREM Inductive == Spec => []IInv
<1>1. QED
  BY InitInv, NextInv, PTL DEF Spec

-----------------------------------------------------------------------------
\* The variables keep their types: semantic.c's maps only ever hold declared
\* names with complete types, and string labels stay below the label counter.
THEOREM TypeCorrect == Spec => []TypeOK
<1>1. IInv => TypeOK
  BY DEF IInv
<1>2. QED
  BY <1>1, Inductive, PTL

\* No two slots that init_fn_semantic's varpos gave out in one function overlap.
THEOREM SlotsAreDisjoint == Spec => []SlotsDisjoint
<1>1. IInv => SlotsDisjoint
  BY DEF IInv, FrameInv
<1>2. QED
  BY <1>1, Inductive, PTL

\* What codegen reads and writes at an annotated offset is inside of the frame
\* it makes from stacksize.
THEOREM FramesHold == Spec => []FrameHolds
<1>1. IInv => FrameHolds
  <2>1. SUFFICES ASSUME IInv PROVE FrameHolds
    OBVIOUS
  <2>2. \A i \in 1 .. Len(decls) : decls[i] \in Slot
    BY <2>1 DEF IInv, TypeOK
  <2>3. \A i \in 1 .. Len(decls) :
          decls[i].fn \in DOMAIN stacksize =>
            decls[i].offset \in Size[decls[i].typ] .. stacksize[decls[i].fn]
    <3>1. ASSUME NEW i \in 1 .. Len(decls), decls[i].fn \in DOMAIN stacksize
          PROVE  decls[i].offset \in Size[decls[i].typ] .. stacksize[decls[i].fn]
      <4>1. /\ decls[i].offset \in Nat
            /\ Size[decls[i].typ] \in Nat
            /\ stacksize[decls[i].fn] \in Nat
        BY <2>1, <2>2, <3>1, TypesAssumption DEF Slot, IInv, TypeOK
      <4>2. /\ decls[i].offset >= Size[decls[i].typ]
            /\ decls[i].offset <= stacksize[decls[i].fn]
        BY <2>1, <3>1 DEF IInv, FrameInv
      <4>3. QED
        BY <4>1, <4>2
    <3>2. QED
      BY <3>1
  <2>4. \A i \in 1 .. Len(refs) :
          refs[i].kind = "local" /\ refs[i].fn \in DOMAIN stacksize =>
            refs[i].offset \in Size[refs[i].typ] .. stacksize[refs[i].fn]
    <3>1. ASSUME NEW i \in 1 .. Len(refs),
                 refs[i].kind = "local", refs[i].fn \in DOMAIN stacksize
          PROVE  refs[i].offset \in Size[refs[i].typ] .. stacksize[refs[i].fn]
      <4>1. PICK j \in 1 .. Len(decls) : /\ decls[j].fn = refs[i].fn
                                         /\ decls[j].typ = refs[i].typ
                                         /\ decls[j].offset = refs[i].offset
        BY <2>1, <3>1 DEF IInv, FrameInv, IsSlot
      <4>2. QED
        BY <2>3, <3>1, <4>1
    <3>2. QED
      BY <3>1
  <2>5. QED
    BY <2>3, <2>4 DEF FrameHolds
<1>2. QED
  BY <1>1, Inductive, PTL

-----------------------------------------------------------------------------
\* What the nodes are annotated with.  The maps are the histories read from the
\* end: a name is mapped to its latest declaration, and an older node counts only
\* the declarations made before it, which later ones cannot change.

\* The positions of the declarations of name in function k among the first n of ds.
LocalDeclaring(ds, n, name, k) == {i \in Declaring(ds, n, name) : ds[i].fn = k}

\* varmap holds the latest declaration of every name in function k, and no other.
LocalsLatest(map, ds, k) ==
  \A n \in Names :
    LET D == LocalDeclaring(ds, Len(ds), n, k)
    IN  \/ n \notin DOMAIN map /\ D = {}
        \/ /\ n \in DOMAIN map
           /\ \E i \in D : /\ IsLatest(i, D)
                           /\ map[n].typ = ds[i].typ
                           /\ map[n].offset = ds[i].offset

\* The same of the maps that last for the compilation.
MapLatest(map, ds) ==
  \A n \in Names :
    LET D == Declaring(ds, Len(ds), n)
    IN  \/ n \notin DOMAIN map /\ D = {}
        \/ n \in DOMAIN map /\ \E i \in D : IsLatest(i, D) /\ map[n] = ds[i].typ

ResolvedIn(r, ds, gs, fs) ==
  LET L == LocalDeclaring(ds, r.locals, r.name, r.fn)
      G == Declaring(gs, r.globals, r.name)
      F == Declaring(fs, r.fns, r.name)
  IN  /\ r.kind = "local" =>
           \E i \in L : IsLatest(i, L) /\ r.typ = ds[i].typ /\ r.offset = ds[i].offset
      /\ r.kind = "global" =>
           L = {} /\ \E i \in G : IsLatest(i, G) /\ r.typ = gs[i].typ
      /\ r.kind = "fn" =>
           \/ F = {} /\ r.typ = IntType
           \/ \E i \in F : IsLatest(i, F) /\ r.typ = fs[i].typ

RefsIn(rs, ds, gs, fs) ==
  \A i \in 1 .. Len(rs) :
    /\ rs[i].locals <= Len(ds) /\ rs[i].globals <= Len(gs) /\ rs[i].fns <= Len(fs)
    /\ ResolvedIn(rs[i], ds, gs, fs)

NamesInv ==
  /\ LocalsLatest(varmap, decls, tops)
  /\ MapLatest(globalvarmap, globals)
  /\ MapLatest(fnmap, fns)
  /\ RefsIn(refs, decls, globals, fns)

Extends(s, t) ==
  /\ Len(s) \in Nat /\ Len(t) \in Nat /\ Len(s) <= Len(t)
  /\ \A i \in 1 .. Len(s) : t[i] = s[i]

LEMMA ExtendsDeclaring ==
  ASSUME NEW s, NEW t, Extends(s, t), NEW k \in Nat, k <= Len(s), NEW n
  PROVE  /\ Declaring(t, k, n) = Declaring(s, k, n)
         /\ \A i \in Declaring(s, k, n) : t[i] = s[i]
         /\ \A f : LocalDeclaring(t, k, n, f) = LocalDeclaring(s, k, n, f)
<1>1. \A i \in 1 .. k : t[i] = s[i]
  BY DEF Extends
<1>2. Declaring(t, k, n) = Declaring(s, k, n) /\ \A i \in Declaring(s, k, n) : t[i] = s[i]
  BY <1>1 DEF Declaring
<1>3. QED
  BY <1>2 DEF LocalDeclaring

\* Later declarations leave an annotated node as right as it was.
LEMMA ExtendsRefs ==
  ASSUME NEW rs \in Seq(Reference),
         NEW d1, NEW d2, NEW g1, NEW g2, NEW f1, NEW f2,
         Extends(d1, d2), Extends(g1, g2), Extends(f1, f2), RefsIn(rs, d1, g1, f1)
  PROVE  RefsIn(rs, d2, g2, f2)
<1> SUFFICES ASSUME NEW i \in 1 .. Len(rs)
             PROVE  /\ rs[i].locals <= Len(d2) /\ rs[i].globals <= Len(g2)
                    /\ rs[i].fns <= Len(f2) /\ ResolvedIn(rs[i], d2, g2, f2)
  BY DEF RefsIn
<1> DEFINE r == rs[i]
<1>1. r \in Reference
  OBVIOUS
<1>2. /\ r.locals \in Nat /\ r.globals \in Nat /\ r.fns \in Nat
      /\ r.locals <= Len(d1) /\ r.globals <= Len(g1) /\ r.fns <= Len(f1)
      /\ ResolvedIn(r, d1, g1, f1)
  BY <1>1 DEF RefsIn, Reference
<1> HIDE DEF r
<1>3. r.locals <= Len(d2) /\ r.globals <= Len(g2) /\ r.fns <= Len(f2)
  BY <1>2 DEF Extends
<1>4. /\ LocalDeclaring(d2, r.locals, r.name, r.fn) = LocalDeclaring(d1, r.locals, r.name, r.fn)
      /\ \A j \in LocalDeclaring(d1, r.locals, r.name, r.fn) : d2[j] = d1[j]
  BY <1>2, ExtendsDeclaring DEF LocalDeclaring
<1>5. /\ Declaring(g2, r.globals, r.name) = Declaring(g1, r.globals, r.name)
      /\ \A j \in Declaring(g1, r.globals, r.name) : g2[j] = g1[j]
  BY <1>2, ExtendsDeclaring
<1>6. /\ Declaring(f2, r.fns, r.name) = Declaring(f1, r.fns, r.name)
      /\ \A j \in Declaring(f1, r.fns, r.name) : f2[j] = f1[j]
  BY <1>2, ExtendsDeclaring
<1>7. ResolvedIn(r, d2, g2, f2)
  BY <1>2, <1>4, <1>5, <1>6 DEF ResolvedIn
<1>8. QED
  BY <1>3, <1>7 DEF r

\* One more declaration of n.
LEMMA MapGrows ==
  ASSUME NEW map, NEW ds \in Seq(Decl), MapLatest(map, ds), NEW n \in Names, NEW t \in Types
  PROVE  LET ds2 == Append(ds, [name |-> n, typ |-> t])
         IN  MapLatest(Insert(map, n, t), ds2) /\ Extends(ds, ds2)
<1> DEFINE d == [name |-> n, typ |-> t]
           ds2 == Append(ds, d)
           m == Len(ds)
           new == Insert(map, n, t)
<1>1. d \in Decl /\ d.name = n /\ d.typ = t
  BY DEF Decl
<1> HIDE DEF d
<1>2. /\ m \in Nat /\ Len(ds2) = m + 1
      /\ \A i \in 1 .. m : ds2[i] = ds[i]
      /\ ds2[m + 1] = d
  BY <1>1, AppendProperties, LenProperties
<1>3. /\ DOMAIN new = DOMAIN map \cup {n} /\ new[n] = t
      /\ \A x \in DOMAIN map : x # n => new[x] = map[x]
  BY DEF Insert
<1> HIDE DEF ds2, new, m
<1>4. Extends(ds, ds2)
  BY <1>2 DEF Extends, m
<1>5. \A i \in 1 .. m + 1 : i \in 1 .. m \/ i = m + 1
  BY <1>2
<1>6. MapLatest(new, ds2)
  <2> SUFFICES ASSUME NEW x \in Names
               PROVE  LET D == Declaring(ds2, Len(ds2), x)
                      IN  \/ x \notin DOMAIN new /\ D = {}
                          \/ /\ x \in DOMAIN new
                             /\ \E i \in D : IsLatest(i, D) /\ new[x] = ds2[i].typ
    BY DEF MapLatest
  <2> DEFINE D == Declaring(ds2, m + 1, x)
  <2>1. CASE x = n
    <3>1. m + 1 \in D /\ ds2[m + 1].typ = t
      BY <1>1, <1>2, <2>1 DEF Declaring
    <3>2. IsLatest(m + 1, D)
      BY <1>2, <3>1 DEF IsLatest, Declaring
    <3>3. QED
      BY <1>2, <1>3, <2>1, <3>1, <3>2
  <2>2. CASE x # n
    <3>1. D = Declaring(ds, m, x)
      BY <1>1, <1>2, <1>5, <2>2 DEF Declaring
    <3>2. \A i \in D : ds2[i] = ds[i]
      BY <1>2, <3>1 DEF Declaring
    <3>3. \/ x \notin DOMAIN map /\ D = {}
          \/ x \in DOMAIN map /\ \E i \in D : IsLatest(i, D) /\ map[x] = ds[i].typ
      BY <3>1 DEF MapLatest, m
    <3>4. QED
      BY <1>2, <1>3, <2>2, <3>2, <3>3
  <2>3. QED
    BY <2>1, <2>2
<1>7. QED
  BY <1>4, <1>6 DEF d, ds2, new

\* A slot is the latest declaration of its name.
LEMMA DeclareLatest ==
  ASSUME TypeOK, LocalsLatest(varmap, decls, tops), tops' = tops,
         NEW n \in Names, NEW t \in Types \ Incomplete, Declare(n, t)
  PROVE  LocalsLatest(varmap', decls', tops) /\ Extends(decls, decls')
<1> DEFINE m == Len(decls)
<1>1. /\ m \in Nat /\ Len(decls') = m + 1
      /\ \A i \in 1 .. m : decls'[i] = decls[i]
      /\ decls'[m + 1].fn = tops /\ decls'[m + 1].typ = t
      /\ decls'[m + 1].offset = varpos'
      /\ varmap'[n].typ = t /\ varmap'[n].offset = varpos'
      /\ DOMAIN varmap' = DOMAIN varmap \cup {n}
      /\ \A x \in DOMAIN varmap : x # n => varmap'[x] = varmap[x]
  BY DeclareProperties
<1>2. decls'[m + 1].name = n
  BY AppendProperties DEF Declare, TypeOK
<1> HIDE DEF m
<1>3. Extends(decls, decls')
  BY <1>1 DEF Extends, m
<1>4. \A i \in 1 .. m + 1 : i \in 1 .. m \/ i = m + 1
  BY <1>1
<1>5. LocalsLatest(varmap', decls', tops)
  <2> SUFFICES ASSUME NEW x \in Names
               PROVE  LET D == LocalDeclaring(decls', Len(decls'), x, tops)
                      IN  \/ x \notin DOMAIN varmap' /\ D = {}
                          \/ /\ x \in DOMAIN varmap'
                             /\ \E i \in D : /\ IsLatest(i, D)
                                             /\ varmap'[x].typ = decls'[i].typ
                                             /\ varmap'[x].offset = decls'[i].offset
    BY DEF LocalsLatest
  <2> DEFINE D == LocalDeclaring(decls', m + 1, x, tops)
  <2>1. CASE x = n
    <3>1. m + 1 \in D
      BY <1>1, <1>2, <2>1 DEF LocalDeclaring, Declaring
    <3>2. IsLatest(m + 1, D)
      BY <1>1, <3>1 DEF IsLatest, LocalDeclaring, Declaring
    <3>3. QED
      BY <1>1, <2>1, <3>1, <3>2
  <2>2. CASE x # n
    <3>1. D = LocalDeclaring(decls, m, x, tops)
      BY <1>1, <1>2, <1>4, <2>2 DEF LocalDeclaring, Declaring
    <3>2. \A i \in D : decls'[i] = decls[i]
      BY <1>1, <3>1 DEF LocalDeclaring, Declaring
    <3>3. \/ x \notin DOMAIN varmap /\ D = {}
          \/ /\ x \in DOMAIN varmap
             /\ \E i \in D : /\ IsLatest(i, D)
                             /\ varmap[x].typ = decls[i].typ
                             /\ varmap[x].offset = decls[i].offset
      BY <3>1 DEF LocalsLatest, m
    <3>4. QED
      BY <1>1, <2>2, <3>2, <3>3
  <2>3. QED
    BY <2>1, <2>2
<1>6. QED
  BY <1>3, <1>5

LEMMA ExtendsSame == \A S : \A s \in Seq(S) : Extends(s, s)
<1>1. QED
  BY LenProperties DEF Extends

\* A node annotated with what the maps say now is resolved.
LEMMA ReferResolved ==
  ASSUME TypeOK, NEW n \in Names, NEW kind \in {"local", "global", "fn"},
         NEW t \in Types, NEW o \in Nat, NEW ds, Len(ds) \in Nat,
         Refer(n, kind, t, o, Len(ds)), RefsIn(refs, ds, globals, fns),
         LET L == LocalDeclaring(ds, Len(ds), n, tops)
             G == Declaring(globals, Len(globals), n)
             F == Declaring(fns, Len(fns), n)
         IN  /\ kind = "local" =>
                  \E i \in L : IsLatest(i, L) /\ t = ds[i].typ /\ o = ds[i].offset
             /\ kind = "global" =>
                  L = {} /\ \E i \in G : IsLatest(i, G) /\ t = globals[i].typ
             /\ kind = "fn" =>
                  \/ F = {} /\ t = IntType
                  \/ \E i \in F : IsLatest(i, F) /\ t = fns[i].typ
  PROVE  RefsIn(refs', ds, globals, fns)
<1> DEFINE r == [fn |-> tops, name |-> n, kind |-> kind, typ |-> t, offset |-> o,
                 locals |-> Len(ds), globals |-> Len(globals), fns |-> Len(fns)]
<1>1. /\ r \in Reference /\ refs \in Seq(Reference)
      /\ Len(globals) \in Nat /\ Len(fns) \in Nat
  BY LenProperties DEF Reference, TypeOK
<1>2. refs' = Append(refs, r)
  BY DEF Refer
<1>3. /\ Len(refs) \in Nat /\ Len(refs') = Len(refs) + 1
      /\ \A i \in 1 .. Len(refs) : refs'[i] = refs[i]
      /\ refs'[Len(refs) + 1] = r
  BY <1>1, <1>2, AppendProperties
<1>4. /\ r.fn = tops /\ r.name = n /\ r.kind = kind /\ r.typ = t /\ r.offset = o
      /\ r.locals = Len(ds) /\ r.globals = Len(globals) /\ r.fns = Len(fns)
  OBVIOUS
<1> HIDE DEF r
<1>5. /\ r.locals <= Len(ds) /\ r.globals <= Len(globals) /\ r.fns <= Len(fns)
      /\ ResolvedIn(r, ds, globals, fns)
  BY <1>1, <1>4 DEF ResolvedIn
<1>6. \A i \in 1 .. Len(refs) + 1 : i \in 1 .. Len(refs) \/ i = Len(refs) + 1
  BY <1>3
<1>7. QED
  BY <1>3, <1>5, <1>6 DEF RefsIn

\* A new toplevel, with at most one global or one function more.
LEMMA TopNames ==
  ASSUME TypeOK, FrameInv, NamesInv, StartTop, UNCHANGED <<decls, refs>>,
         \/ UNCHANGED <<globals, globalvarmap>>
         \/ \E n \in Names, t \in Types :
              /\ globalvarmap' = Insert(globalvarmap, n, t)
              /\ globals' = Append(globals, [name |-> n, typ |-> t]),
         \/ UNCHANGED <<fns, fnmap>>
         \/ \E n \in Names, t \in Types :
              /\ fnmap' = Insert(fnmap, n, t)
              /\ fns' = Append(fns, [name |-> n, typ |-> t])
  PROVE  NamesInv'
<1>1. /\ decls \in Seq(Slot) /\ globals \in Seq(Decl) /\ fns \in Seq(Decl)
      /\ refs \in Seq(Reference)
  BY DEF TypeOK
<1>2. MapLatest(globalvarmap', globals') /\ Extends(globals, globals')
  <2>1. CASE UNCHANGED <<globals, globalvarmap>>
    BY <1>1, <2>1, ExtendsSame DEF NamesInv
  <2>2. CASE \E n \in Names, t \in Types :
               /\ globalvarmap' = Insert(globalvarmap, n, t)
               /\ globals' = Append(globals, [name |-> n, typ |-> t])
    BY <1>1, <2>2, MapGrows DEF NamesInv
  <2>3. QED
    BY <2>1, <2>2
<1>3. MapLatest(fnmap', fns') /\ Extends(fns, fns')
  <2>1. CASE UNCHANGED <<fns, fnmap>>
    BY <1>1, <2>1, ExtendsSame DEF NamesInv
  <2>2. CASE \E n \in Names, t \in Types :
               /\ fnmap' = Insert(fnmap, n, t)
               /\ fns' = Append(fns, [name |-> n, typ |-> t])
    BY <1>1, <2>2, MapGrows DEF NamesInv
  <2>3. QED
    BY <2>1, <2>2
<1>4. LocalsLatest(varmap', decls', tops')
  <2>1. tops \in Nat /\ tops' = tops + 1 /\ DOMAIN varmap' = {}
    BY DEF StartTop, Empty, TypeOK
  <2>2. \A i \in 1 .. Len(decls) : decls[i].fn # tops'
    BY <2>1 DEF FrameInv
  <2>3. \A n : LocalDeclaring(decls, Len(decls), n, tops') = {}
    BY <2>2 DEF LocalDeclaring, Declaring
  <2>4. QED
    BY <2>1, <2>3 DEF LocalsLatest
<1>5. RefsIn(refs, decls, globals', fns')
  BY <1>1, <1>2, <1>3, ExtendsSame, ExtendsRefs DEF NamesInv
<1>6. QED
  BY <1>2, <1>3, <1>4, <1>5 DEF NamesInv

\* A parameter or a variable, and the node of its initialiser.
LEMMA DeclareNames ==
  ASSUME TypeOK, NamesInv, NEW n \in Names, NEW t \in Types \ Incomplete, Declare(n, t),
         UNCHANGED <<tops, globals, globalvarmap, fns, fnmap>>,
         \/ refs' = refs
         \/ Refer(n, "local", varmap'[n].typ, varmap'[n].offset, Len(decls) + 1)
  PROVE  NamesInv'
<1>1. /\ decls \in Seq(Slot) /\ globals \in Seq(Decl) /\ fns \in Seq(Decl)
      /\ refs \in Seq(Reference)
  BY DEF TypeOK
<1>2. LocalsLatest(varmap', decls', tops) /\ Extends(decls, decls')
  BY DeclareLatest DEF NamesInv
<1>3. RefsIn(refs, decls', globals, fns)
  BY <1>1, <1>2, ExtendsSame, ExtendsRefs DEF NamesInv
<1>4. ASSUME Refer(n, "local", varmap'[n].typ, varmap'[n].offset, Len(decls) + 1)
      PROVE  RefsIn(refs', decls', globals, fns)
  <2>1. /\ varmap'[n].typ \in Types /\ varmap'[n].offset \in Nat
        /\ Len(decls') = Len(decls) + 1 /\ Len(decls') \in Nat /\ n \in DOMAIN varmap'
    <3>1. /\ varpos' \in Nat /\ Len(decls) \in Nat /\ Len(decls') = Len(decls) + 1
          /\ varmap'[n].typ = t /\ varmap'[n].offset = varpos'
          /\ DOMAIN varmap' = DOMAIN varmap \cup {n}
      BY DeclareProperties
    <3>2. QED
      BY <3>1
  <2> DEFINE L == LocalDeclaring(decls', Len(decls'), n, tops)
  <2>2. \E i \in L : /\ IsLatest(i, L)
                     /\ varmap'[n].typ = decls'[i].typ
                     /\ varmap'[n].offset = decls'[i].offset
    BY <1>2, <2>1 DEF LocalsLatest
  <2> DEFINE u == varmap'[n].typ
             o == varmap'[n].offset
  <2>3. Refer(n, "local", u, o, Len(decls'))
    BY <1>4, <2>1
  <2> HIDE DEF u, o
  <2>4. /\ u \in Types /\ o \in Nat
        /\ \E i \in L : IsLatest(i, L) /\ u = decls'[i].typ /\ o = decls'[i].offset
    BY <2>1, <2>2 DEF u, o
  <2>5. QED
    BY <1>3, <2>1, <2>3, <2>4, ReferResolved
<1>5. RefsIn(refs', decls', globals, fns)
  BY <1>3, <1>4
<1>6. QED
  BY <1>2, <1>5 DEF NamesInv

\* An identifier and a call: what the maps hold is what must be found.
LEMMA ReferenceNames ==
  ASSUME TypeOK, NamesInv, NEW n \in Names, Ident(n) \/ CallFn(n)
  PROVE  NamesInv'
<1>1. /\ UNCHANGED <<tops, decls, globals, fns, varmap, globalvarmap, fnmap>>
      /\ Len(decls) \in Nat /\ RefsIn(refs, decls, globals, fns)
  BY LenProperties DEF Ident, CallFn, TypeOK, NamesInv
<1> DEFINE L == LocalDeclaring(decls, Len(decls), n, tops)
           G == Declaring(globals, Len(globals), n)
           F == Declaring(fns, Len(fns), n)
<1>2. /\ \/ n \notin DOMAIN varmap /\ L = {}
         \/ /\ n \in DOMAIN varmap
            /\ \E i \in L : /\ IsLatest(i, L)
                            /\ varmap[n].typ = decls[i].typ
                            /\ varmap[n].offset = decls[i].offset
      /\ \/ n \notin DOMAIN globalvarmap /\ G = {}
         \/ /\ n \in DOMAIN globalvarmap
            /\ \E i \in G : IsLatest(i, G) /\ globalvarmap[n] = globals[i].typ
      /\ \/ n \notin DOMAIN fnmap /\ F = {}
         \/ n \in DOMAIN fnmap /\ \E i \in F : IsLatest(i, F) /\ fnmap[n] = fns[i].typ
  BY DEF NamesInv, LocalsLatest, MapLatest
<1>3. CASE /\ n \in DOMAIN varmap
           /\ Refer(n, "local", varmap[n].typ, varmap[n].offset, Len(decls))
  <2>1. varmap[n].typ \in Types /\ varmap[n].offset \in Nat
    BY <1>3 DEF TypeOK
  <2>2. RefsIn(refs', decls, globals, fns)
    BY <1>1, <1>2, <1>3, <2>1, ReferResolved
  <2>3. QED
    BY <1>1, <2>2 DEF NamesInv
<1>4. CASE /\ n \notin DOMAIN varmap /\ n \in DOMAIN globalvarmap
           /\ Refer(n, "global", globalvarmap[n], 0, Len(decls))
  <2>1. globalvarmap[n] \in Types
    BY <1>4 DEF TypeOK
  <2>2. RefsIn(refs', decls, globals, fns)
    BY <1>1, <1>2, <1>4, <2>1, ReferResolved
  <2>3. QED
    BY <1>1, <2>2 DEF NamesInv
<1>5. CASE CallFn(n)
  <2> DEFINE t == IF n \in DOMAIN fnmap THEN fnmap[n] ELSE IntType
  <2>1. t \in Types
    BY TypesAssumption DEF TypeOK
  <2>2. Refer(n, "fn", t, 0, Len(decls))
    BY <1>5 DEF CallFn
  <2>3. \/ F = {} /\ t = IntType
        \/ \E i \in F : IsLatest(i, F) /\ t = fns[i].typ
    BY <1>2
  <2> HIDE DEF t
  <2>4. RefsIn(refs', decls, globals, fns)
    BY <1>1, <2>1, <2>2, <2>3, ReferResolved
  <2>5. QED
    BY <1>1, <2>4 DEF NamesInv
<1>6. QED
  BY <1>3, <1>4, <1>5 DEF Ident

-----------------------------------------------------------------------------
\* String literals: those of the toplevel being compiled wait in strlits, the
\* others are in the output.
Elements(s) == {s[i] : i \in 1 .. Len(s)}
NoneTwice(s) == \A i, j \in 1 .. Len(s) : s[i] = s[j] => i = j

StringsInv ==
  /\ NoneTwice(data) /\ Elements(data) \subseteq 1 .. labelcnt
  /\ NoneTwice(strlits) /\ Elements(strlits) \subseteq 1 .. labelcnt
  /\ phase = "params" => strlits = <<>>
  /\ phase = "body" => /\ Elements(data) \cap Elements(strlits) = {}
                       /\ strs \subseteq Elements(data) \cup Elements(strlits)
  /\ phase \in {"top", "params"} => strs \subseteq Elements(data)

LEMMA ElementsConcat ==
  ASSUME NEW s \in Seq(Nat), NEW t \in Seq(Nat), NoneTwice(s), NoneTwice(t),
         Elements(s) \cap Elements(t) = {}
  PROVE  Elements(s \o t) = Elements(s) \cup Elements(t) /\ NoneTwice(s \o t)
<1>1. /\ Len(s \o t) = Len(s) + Len(t) /\ Len(s) \in Nat /\ Len(t) \in Nat
      /\ \A i \in 1 .. Len(s) + Len(t) :
           (s \o t)[i] = IF i <= Len(s) THEN s[i] ELSE t[i - Len(s)]
  BY ConcatProperties, LenProperties
<1>2. \A i \in 1 .. Len(s) : i \in 1 .. Len(s \o t) /\ (s \o t)[i] = s[i]
  BY <1>1
<1>3. \A i \in 1 .. Len(t) :
        Len(s) + i \in 1 .. Len(s \o t) /\ (s \o t)[Len(s) + i] = t[i]
  BY <1>1
<1>4. \A i \in 1 .. Len(s \o t) :
        \/ i \in 1 .. Len(s) /\ (s \o t)[i] = s[i]
        \/ i - Len(s) \in 1 .. Len(t) /\ (s \o t)[i] = t[i - Len(s)]
  BY <1>1
<1>5. Elements(s \o t) = Elements(s) \cup Elements(t)
  <2> DEFINE u == s \o t
  <2>1. /\ \A i \in 1 .. Len(s) : i \in 1 .. Len(u) /\ u[i] = s[i]
        /\ \A i \in 1 .. Len(t) : Len(s) + i \in 1 .. Len(u) /\ u[Len(s) + i] = t[i]
        /\ \A i \in 1 .. Len(u) : \/ i \in 1 .. Len(s) /\ u[i] = s[i]
                                  \/ i - Len(s) \in 1 .. Len(t) /\ u[i] = t[i - Len(s)]
    BY <1>2, <1>3, <1>4
  <2> HIDE DEF u
  <2>2. Elements(s) \subseteq Elements(u)
    BY <2>1 DEF Elements
  <2>3. Elements(t) \subseteq Elements(u)
    <3>1. SUFFICES ASSUME NEW i \in 1 .. Len(t) PROVE t[i] \in Elements(u)
      BY DEF Elements
    <3>2. Len(s) + i \in 1 .. Len(u) /\ u[Len(s) + i] = t[i]
      BY <2>1
    <3>3. \A j \in 1 .. Len(u) : u[j] \in Elements(u)
      BY DEF Elements
    <3>4. QED
      BY <3>2, <3>3
  <2>4. Elements(u) \subseteq Elements(s) \cup Elements(t)
    BY <2>1 DEF Elements
  <2>5. QED
    BY <2>2, <2>3, <2>4 DEF u
<1>6. NoneTwice(s \o t)
  <2> SUFFICES ASSUME NEW i \in 1 .. Len(s \o t), NEW j \in 1 .. Len(s \o t),
                      (s \o t)[i] = (s \o t)[j]
               PROVE  i = j
    BY DEF NoneTwice
  <2>1. CASE i \in 1 .. Len(s) /\ j \in 1 .. Len(s)
    BY <1>2, <2>1 DEF NoneTwice
  <2>2. CASE i - Len(s) \in 1 .. Len(t) /\ j - Len(s) \in 1 .. Len(t)
    <3>1. t[i - Len(s)] = t[j - Len(s)]
      BY <1>1, <2>2
    <3>2. i - Len(s) = j - Len(s)
      BY <2>2, <3>1 DEF NoneTwice
    <3>3. QED
      BY <1>1, <3>2
  <2>3. CASE i \in 1 .. Len(s) /\ j - Len(s) \in 1 .. Len(t)
    <3>1. (s \o t)[i] \in Elements(s) /\ (s \o t)[j] \in Elements(t)
      BY <1>1, <2>3 DEF Elements
    <3>2. QED
      BY <3>1
  <2>4. CASE i - Len(s) \in 1 .. Len(t) /\ j \in 1 .. Len(s)
    <3>1. (s \o t)[i] \in Elements(t) /\ (s \o t)[j] \in Elements(s)
      BY <1>1, <2>4 DEF Elements
    <3>2. QED
      BY <3>1
  <2>5. QED
    BY <1>4, <2>1, <2>2, <2>3, <2>4
<1>7. QED
  BY <1>5, <1>6

LEMMA NoStrings == Elements(<<>>) = {} /\ NoneTwice(<<>>) /\ <<>> \in Seq(Nat)
<1>1. QED
  BY EmptySeq DEF Elements, NoneTwice

LEMMA TopStrings ==
  ASSUME TypeOK, StringsInv, StartTop, strs' = strs, labelcnt' = labelcnt,
         \/ EmitStrlits /\ phase' = phase
         \/ data' = data /\ phase' = "params"
  PROVE  StringsInv'
<1>1. strlits' = <<>> /\ phase = "top"
  BY DEF StartTop
<1>2. data' = data
  <2>1. data \o <<>> = data
    BY ConcatEmptySeq DEF TypeOK
  <2>2. QED
    BY <1>1, <2>1 DEF EmitStrlits
<1>3. QED
  BY <1>1, <1>2, NoStrings DEF StringsInv

LEMMA BodyStrings ==
  ASSUME TypeOK, StringsInv, Prototype \/ BeginBody \/ StrLit \/ EndBody \/ Exit
  PROVE  StringsInv'
<1>1. /\ data \in Seq(Nat) /\ strlits \in Seq(Nat) /\ labelcnt \in Nat
      /\ data \o <<>> = data
  BY ConcatEmptySeq DEF TypeOK
<1>2. CASE Prototype
  <2>1. data' = data /\ phase = "params" /\ phase' = "top"
        /\ UNCHANGED <<strlits, strs, labelcnt>>
    BY <1>1, <1>2 DEF Prototype, EmitStrlits, StringsInv
  <2>2. QED
    BY <2>1 DEF StringsInv
<1>3. CASE BeginBody
  <2>1. /\ phase = "params" /\ phase' = "body" /\ strlits = <<>>
        /\ UNCHANGED <<strlits, strs, labelcnt, data>>
    BY <1>3 DEF BeginBody, StringsInv
  <2>2. QED
    BY <2>1, NoStrings DEF StringsInv
<1>4. CASE StrLit
  <2>1. /\ labelcnt' = labelcnt + 1 /\ phase = "body" /\ phase' = phase
        /\ strlits' = Append(strlits, labelcnt') /\ strs' = strs \cup {labelcnt'}
        /\ data' = data
    BY <1>4 DEF StrLit
  <2> DEFINE t == <<labelcnt'>>
  <2>2. t \in Seq(Nat) /\ Len(t) = 1 /\ t[1] = labelcnt'
    BY <1>1, <2>1
  <2>3. strlits' = strlits \o t
    BY <1>1, <2>1, AppendIsConcat
  <2> HIDE DEF t
  <2>4. Elements(t) = {labelcnt'} /\ NoneTwice(t)
    <3>1. 1 .. Len(t) = {1}
      BY <2>2
    <3>2. QED
      BY <2>2, <3>1 DEF Elements, NoneTwice
  <2>5. labelcnt' \notin 1 .. labelcnt /\ 1 .. labelcnt' = 1 .. labelcnt \cup {labelcnt'}
    BY <1>1, <2>1
  <2>6. /\ NoneTwice(data) /\ Elements(data) \subseteq 1 .. labelcnt
        /\ NoneTwice(strlits) /\ Elements(strlits) \subseteq 1 .. labelcnt
        /\ Elements(data) \cap Elements(strlits) = {}
        /\ strs \subseteq Elements(data) \cup Elements(strlits)
    BY <2>1 DEF StringsInv
  <2>7. Elements(strlits \o t) = Elements(strlits) \cup {labelcnt'} /\ NoneTwice(strlits \o t)
    <3>1. Elements(strlits) \cap Elements(t) = {}
      BY <2>4, <2>5, <2>6
    <3>2. QED
      BY <1>1, <2>2, <2>4, <2>6, <3>1, ElementsConcat
  <2>8. /\ NoneTwice(strlits') /\ Elements(strlits') = Elements(strlits) \cup {labelcnt'}
    BY <2>3, <2>7
  <2>9. QED
    BY <2>1, <2>5, <2>6, <2>8 DEF StringsInv
<1>5. CASE EndBody
  <2>1. /\ phase = "body" /\ phase' = "top" /\ strlits' = strlits /\ strs' = strs
        /\ data' = data \o strlits
    BY <1>5 DEF EndBody, EmitStrlits
  <2>2. 1 .. labelcnt \subseteq 1 .. labelcnt'
    <3>1. PICK k \in 0 .. MaxJumps : labelcnt' = labelcnt + k
      BY <1>5 DEF EndBody
    <3>2. k \in Nat
      BY BoundsAssumption
    <3>3. QED
      BY <1>1, <3>1, <3>2
  <2>3. /\ NoneTwice(data) /\ Elements(data) \subseteq 1 .. labelcnt
        /\ NoneTwice(strlits) /\ Elements(strlits) \subseteq 1 .. labelcnt
        /\ Elements(data) \cap Elements(strlits) = {}
        /\ strs \subseteq Elements(data) \cup Elements(strlits)
    BY <2>1 DEF StringsInv
  <2>4. Elements(data') = Elements(data) \cup Elements(strlits) /\ NoneTwice(data')
    BY <1>1, <2>1, <2>3, ElementsConcat
  <2>5. QED
    BY <2>1, <2>2, <2>3, <2>4 DEF StringsInv
<1>6. CASE Exit
  <2>1. phase' = "exit" /\ UNCHANGED <<strlits, strs, labelcnt, data>>
    BY <1>6 DEF Exit
  <2>2. QED
    BY <2>1 DEF StringsInv
<1>7. QED
  BY <1>2, <1>3, <1>4, <1>5, <1>6

-----------------------------------------------------------------------------
LEMMA InitNames == Init => NamesInv /\ StringsInv
<1>1. SUFFICES ASSUME Init PROVE NamesInv /\ StringsInv
  OBVIOUS
<1>2. /\ Len(decls) = 0 /\ Len(globals) = 0 /\ Len(fns) = 0 /\ Len(refs) = 0
      /\ DOMAIN varmap = {} /\ DOMAIN globalvarmap = {} /\ DOMAIN fnmap = {}
  BY <1>1 DEF Init, Empty
<1>3. NamesInv
  BY <1>2 DEF NamesInv, LocalsLatest, MapLatest, RefsIn, LocalDeclaring, Declaring
<1>4. StringsInv
  BY <1>1, NoStrings DEF Init, StringsInv
<1>5. QED
  BY <1>3, <1>4

LEMMA SameNames ==
  ASSUME NamesInv, UNCHANGED <<varmap, decls, tops, globalvarmap, globals, fnmap, fns, refs>>
  PROVE  NamesInv'
BY DEF NamesInv

LEMMA SameStrings ==
  ASSUME StringsInv, UNCHANGED <<phase, data, strlits, strs, labelcnt>>
  PROVE  StringsInv'
BY DEF StringsInv

LEMMA NextNames == IInv /\ NamesInv /\ StringsInv /\ [Next]_vars => NamesInv' /\ StringsInv'
<1>1. SUFFICES ASSUME IInv, NamesInv, StringsInv, [Next]_vars
               PROVE  NamesInv' /\ StringsInv'
  OBVIOUS
<1>2. TypeOK /\ FrameInv
  BY <1>1 DEF IInv
<1>3. CASE TopOther
  <2>1. StartTop /\ EmitStrlits
        /\ UNCHANGED <<phase, fnmap, globalvarmap, labelcnt, decls, globals, fns, refs, strs>>
    BY <1>3 DEF TopOther
  <2>2. QED
    BY <1>1, <1>2, <2>1, TopNames, TopStrings
<1>4. ASSUME NEW n \in Names, NEW t \in Types, GlobalVar(n, t)
      PROVE  NamesInv' /\ StringsInv'
  <2>1. /\ StartTop /\ EmitStrlits
        /\ globalvarmap' = Insert(globalvarmap, n, t)
        /\ globals' = Append(globals, [name |-> n, typ |-> t])
        /\ UNCHANGED <<phase, fnmap, labelcnt, decls, fns, refs, strs>>
    BY <1>4 DEF GlobalVar
  <2>2. QED
    BY <1>1, <1>2, <2>1, TopNames, TopStrings
<1>5. ASSUME NEW n \in Names, NEW t \in Types, FuncDecl(n, t)
      PROVE  NamesInv' /\ StringsInv'
  <2>1. /\ StartTop /\ phase' = "params"
        /\ fnmap' = Insert(fnmap, n, t)
        /\ fns' = Append(fns, [name |-> n, typ |-> t])
        /\ UNCHANGED <<globalvarmap, labelcnt, decls, globals, refs, strs, data>>
    BY <1>5 DEF FuncDecl
  <2>2. QED
    BY <1>1, <1>2, <2>1, TopNames, TopStrings
<1>6. CASE Prototype \/ BeginBody \/ StrLit \/ EndBody \/ Exit
  <2>1. UNCHANGED <<varmap, decls, tops, globalvarmap, globals, fnmap, fns, refs>>
    BY <1>6 DEF Prototype, BeginBody, StrLit, EndBody, Exit
  <2>2. QED
    BY <1>1, <1>2, <1>6, <2>1, SameNames, BodyStrings
<1>7. ASSUME NEW n \in Names, Ident(n) \/ CallFn(n) PROVE NamesInv' /\ StringsInv'
  <2>1. UNCHANGED <<phase, data, strlits, strs, labelcnt>>
    BY <1>7 DEF Ident, CallFn
  <2>2. QED
    BY <1>1, <1>2, <1>7, <2>1, SameStrings, ReferenceNames
<1>8. ASSUME NEW n \in Names, NEW t \in Types \ Incomplete,
             Param(n, t) \/ VarDecl(n, t) \/ VarDeclInit(n, t)
      PROVE  NamesInv' /\ StringsInv'
  <2>1. /\ Declare(n, t)
        /\ UNCHANGED <<tops, globals, globalvarmap, fns, fnmap>>
        /\ UNCHANGED <<phase, data, strlits, strs, labelcnt>>
        /\ \/ refs' = refs
           \/ Refer(n, "local", varmap'[n].typ, varmap'[n].offset, Len(decls) + 1)
    BY <1>8 DEF Param, VarDecl, VarDeclInit
  <2>2. QED
    BY <1>1, <1>2, <2>1, SameStrings, DeclareNames
<1>9. \A n \in Names, t \in Types :
        (Param(n, t) \/ VarDecl(n, t) \/ VarDeclInit(n, t)) => t \notin Incomplete \/ Exit
  BY DEF Param, VarDecl, VarDeclInit
<1>10. (\E n \in Names : Undeclared(n)) \/ Refused => Exit
  BY DEF Undeclared, Refused
<1>11. CASE UNCHANGED vars
  BY <1>1, <1>11, SameNames, SameStrings DEF vars
<1>12. QED
  BY <1>1, <1>3, <1>4, <1>5, <1>6, <1>7, <1>8, <1>9, <1>10, <1>11 DEF Next

LEMMA NamesAlways == Spec => [](IInv /\ NamesInv /\ StringsInv)
<1>1. Spec => []IInv
  BY Inductive
<1>2. QED
  BY <1>1, InitNames, NextNames, PTL DEF Spec

\* Every node is annotated with the latest declaration of its name that was made
\* before it, in its own function or else globally; nothing later changes that.
THEOREM RefsAreResolved == Spec => []RefsResolve
<1>1. IInv /\ NamesInv => RefsResolve
  <2>1. SUFFICES ASSUME IInv, NamesInv, NEW i \in 1 .. Len(refs)
                 PROVE  Resolved(refs[i])
    BY DEF RefsResolve
  <2>2. refs[i].kind \in {"local", "global", "fn"}
    <3>1. refs[i] \in Reference
      BY <2>1 DEF IInv, TypeOK
    <3>2. QED
      BY <3>1 DEF Reference
  <2>3. ResolvedIn(refs[i], decls, globals, fns)
    BY <2>1 DEF NamesInv, RefsIn
  <2>4. CASE refs[i].kind = "local"
    BY <2>3, <2>4 DEF ResolvedIn, Resolved, LocalsOf, LocalDeclaring
  <2>5. CASE refs[i].kind = "global"
    BY <2>3, <2>5 DEF ResolvedIn, Resolved, LocalsOf, LocalDeclaring
  <2>6. CASE refs[i].kind = "fn"
    BY <2>3, <2>6 DEF ResolvedIn, Resolved
  <2>7. QED
    BY <2>2, <2>4, <2>5, <2>6
<1>2. QED
  BY <1>1, NamesAlways, PTL

\* No string literal is emitted twice, and none that was referred to is forgotten.
THEOREM StringsAreOnce == Spec => []StringsOnce
<1>1. StringsInv => StringsOnce
  BY DEF StringsInv, StringsOnce, NoneTwice, Elements
<1>2. QED
  BY <1>1, NamesAlways, PTL
=============================================================================
