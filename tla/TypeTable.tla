----------------------------- MODULE TypeTable ------------------------------
(***************************************************************************)
(* Struct types and their names: parse_typespec() and parse_toplevel() of  *)
(* parser.c, and what semantic.c makes of the structs they leave behind.   *)
(*                                                                         *)
(* A `struct t' met before its body is an incomplete node in structmap.    *)
(* The body completes that node in place, so that pointers to it taken     *)
(* earlier see the fields, and semantic.c then decides its size.  A node's *)
(* structsize and maxalign are what malloc() returned until then.          *)
(*                                                                         *)
(* A type is [ptr, node]; node 0 stands for int, char and the like.  The   *)
(* programs compiled give a tag one body and a typedef name one type, as C *)
(* demands.  sized and given are histories.                                *)
(***************************************************************************)
EXTENDS Integers, Sequences, FiniteSets

CONSTANTS
  Tags,         \* struct tags
  Aliases,      \* typedef names
  None,         \* no tag, no alias
  MaxTops,      \* bound: toplevels of one compilation
  MaxFields     \* bound: fields of all structs

ASSUME NoneAssumption == None \notin Tags \cup Aliases

ASSUME BoundsAssumption == MaxTops \in Nat /\ MaxFields \in Nat

VARIABLES
  phase,        \* "top", in a struct "body", before its "layout", or "exit"
  tops,         \* toplevels begun
  nodes,        \* the heap of struct typenodes: [kind, tag, body, decided]
  bodies,       \* the field vectors: [fields, placed]
  structmap, typedefmap,
  cur,          \* the struct whose body is parsed: [tag, alias, fields]
  laying,       \* top->structtype
  given,        \* tag |-> the body it was given at toplevel; 0 if only for a pointer
  unset         \* [reader, node]: undecided sizes that were read

vars == <<phase, tops, nodes, bodies, structmap, typedefmap, cur, laying, given, unset>>

Empty == [n \in {} |-> 0]

Insert(map, name, value) ==
  [n \in DOMAIN map \cup {name} |-> IF n = name THEN value ELSE map[n]]

Scalar == [ptr |-> FALSE, node |-> 0]
Type(ptr, node) == [ptr |-> ptr, node |-> node]
Idle == [tag |-> None, alias |-> None, fields |-> <<>>]

IsStruct(t) == ~t.ptr /\ t.node # 0 /\ nodes[t.node].kind = "struct"
IsIncomplete(t) == ~t.ptr /\ t.node # 0 /\ nodes[t.node].kind = "incomplete"
IsUnset(t) == IsStruct(t) /\ ~nodes[t.node].decided

FieldCount == Cardinality(UNION {{<<b, i>> : i \in 1 .. Len(bodies[b].fields)} :
                                   b \in 1 .. Len(bodies)}) + Len(cur.fields)

-----------------------------------------------------------------------------
\* Mutant: every mention makes a new node.
RefAfresh(t) ==
  /\ nodes' = Append(nodes, [kind |-> "incomplete", tag |-> t, body |-> 0,
                             decided |-> FALSE])
  /\ structmap' = Insert(structmap, t, Len(nodes) + 1)

\* `struct t' without a body: the node the tag is known by, or a new incomplete one.
Ref(t) ==
  \/ /\ t \in DOMAIN structmap
     /\ UNCHANGED <<nodes, structmap>>
  \/ /\ t \notin DOMAIN structmap
     /\ nodes' = Append(nodes, [kind |-> "incomplete", tag |-> t, body |-> 0,
                                decided |-> FALSE])
     /\ structmap' = Insert(structmap, t, Len(nodes) + 1)

NextTop ==
  /\ phase = "top"
  /\ tops < MaxTops
  /\ tops' = tops + 1

\* `struct t {', also after typedef.
OpenStruct(t, a) ==
  /\ NextTop
  /\ t \notin DOMAIN given
  /\ phase' = "body"
  /\ cur' = [tag |-> t, alias |-> a, fields |-> <<>>]
  /\ UNCHANGED <<nodes, bodies, structmap, typedefmap, laying, given, unset>>

AddField(type) ==
  /\ phase = "body"
  /\ FieldCount < MaxFields
  /\ cur' = [cur EXCEPT !.fields = Append(@, type)]
  /\ UNCHANGED <<phase, tops, typedefmap, laying, given, unset>>

FieldScalar == AddField(Scalar) /\ UNCHANGED <<nodes, bodies, structmap>>

FieldByTag(t, ptr) ==
  /\ Ref(t)
  /\ AddField(Type(ptr, structmap'[t]))
  /\ UNCHANGED bodies

FieldByAlias(a, ptr) ==
  /\ a \in DOMAIN typedefmap
  /\ AddField([typedefmap[a] EXCEPT !.ptr = @ \/ ptr])
  /\ UNCHANGED <<nodes, bodies, structmap>>

\* A struct body within a body: a node of its own, in no map.
FieldNested ==
  /\ AddField(Type(FALSE, Len(nodes) + 1))
  /\ bodies' = Append(bodies, [fields |-> <<Scalar>>, placed |-> FALSE])
  /\ nodes' = Append(nodes, [kind |-> "struct", tag |-> None,
                             body |-> Len(bodies) + 1, decided |-> FALSE])
  /\ UNCHANGED structmap

\* Mutant: a known tag is given the new node.
CompleteAnew(heap, n) ==
  /\ nodes' = heap
  /\ laying' = n
  /\ structmap' = Insert(structmap, heap[n].tag, n)

\* Mutant: the new node, not the completed one, is laid out.
CompleteLaysNew(heap, n) ==
  LET t == heap[n].tag
  IN  /\ laying' = n
      /\ IF t \in DOMAIN structmap
           THEN /\ nodes' = [heap EXCEPT ![structmap[t]] = heap[n]]
                /\ UNCHANGED structmap
           ELSE /\ nodes' = heap
                /\ structmap' = Insert(structmap, t, n)

\* Mutant: the field vector is not copied to the node the tag is known by.
CompleteKeepsFields(heap, n) ==
  LET t == heap[n].tag
  IN  IF t \in DOMAIN structmap
        THEN /\ nodes' = [heap EXCEPT ![structmap[t]] =
                            [heap[n] EXCEPT !.body = heap[structmap[t]].body]]
             /\ laying' = structmap[t]
             /\ UNCHANGED structmap
        ELSE /\ nodes' = heap
             /\ laying' = n
             /\ structmap' = Insert(structmap, t, n)

\* The struct at node n, whose tag may be known already: then that node takes its
\* kind, fields and sizes over, and is the one semantic.c lays out.
Complete(heap, n) ==
  LET t == heap[n].tag
  IN  IF t \in DOMAIN structmap
        THEN /\ nodes' = [heap EXCEPT ![structmap[t]] = heap[n]]
             /\ laying' = structmap[t]
             /\ UNCHANGED structmap
        ELSE /\ nodes' = heap
             /\ laying' = n
             /\ structmap' = Insert(structmap, t, n)

\* `}': the typedef name is given the node just parsed.
CloseStruct ==
  /\ phase = "body"
  /\ phase' = "layout"
  /\ bodies' = Append(bodies, [fields |-> cur.fields, placed |-> FALSE])
  /\ Complete(Append(nodes, [kind |-> "struct", tag |-> cur.tag,
                             body |-> Len(bodies) + 1, decided |-> FALSE]),
              Len(nodes) + 1)
  /\ typedefmap' = IF cur.alias = None THEN typedefmap
                   ELSE Insert(typedefmap, cur.alias, Type(FALSE, Len(nodes) + 1))
  /\ given' = Insert(given, cur.tag, Len(bodies) + 1)
  /\ cur' = Idle
  /\ UNCHANGED <<tops, unset>>

\* `} *a;' after typedef: the toplevel is no struct, and no map hears of the body.
CloseStructPtr ==
  /\ phase = "body"
  /\ cur.alias # None
  /\ phase' = "top"
  /\ bodies' = Append(bodies, [fields |-> cur.fields, placed |-> FALSE])
  /\ nodes' = Append(nodes, [kind |-> "struct", tag |-> cur.tag,
                             body |-> Len(bodies) + 1, decided |-> FALSE])
  /\ typedefmap' = Insert(typedefmap, cur.alias, Type(TRUE, Len(nodes) + 1))
  /\ given' = Insert(given, cur.tag, 0)
  /\ cur' = Idle
  /\ UNCHANGED <<tops, structmap, laying, unset>>

\* `struct t;': a struct that is complete is laid out once more.  While it is not,
\* this is also what any mention of a pointer to it does.
BareTag(t) ==
  /\ NextTop
  /\ Ref(t)
  /\ IF nodes'[structmap'[t]].kind = "struct"
       THEN phase' = "layout" /\ laying' = structmap'[t]
       ELSE UNCHANGED <<phase, laying>>
  /\ UNCHANGED <<bodies, typedefmap, cur, given, unset>>

\* `typedef struct t a;' and `typedef struct t *a;'.
AliasTag(a, t, ptr) ==
  /\ NextTop
  /\ a \notin DOMAIN typedefmap
  /\ Ref(t)
  /\ typedefmap' = Insert(typedefmap, a, Type(ptr, structmap'[t]))
  /\ IF ~ptr /\ nodes'[structmap'[t]].kind = "struct"
       THEN phase' = "layout" /\ laying' = structmap'[t]
       ELSE UNCHANGED <<phase, laying>>
  /\ UNCHANGED <<bodies, cur, given, unset>>

\* `typedef b a;'
AliasAlias(a, b) ==
  /\ NextTop
  /\ a \notin DOMAIN typedefmap
  /\ b \in DOMAIN typedefmap
  /\ typedefmap' = Insert(typedefmap, a, typedefmap[b])
  /\ IF IsStruct(typedefmap[b])
       THEN phase' = "layout" /\ Complete(nodes, typedefmap[b].node)
       ELSE UNCHANGED <<phase, nodes, structmap, laying>>
  /\ UNCHANGED <<bodies, cur, given, unset>>

-----------------------------------------------------------------------------
Abort ==
  /\ phase' = "exit"
  /\ UNCHANGED <<tops, nodes, bodies, structmap, typedefmap, cur, laying, given>>

\* The TOP_STRUCT arm of the analysis.  The size of every field that is no pointer
\* is asked for, up to one that is incomplete, which ends the compilation; one that
\* nobody decided reads as anything, -1 included.
Fields(n) == bodies[nodes[n].body].fields
AskedFor == {i \in DOMAIN Fields(laying) :
               \A j \in 1 .. i - 1 : ~IsIncomplete(Fields(laying)[j])}
UnsetFields == {Fields(laying)[i].node : i \in {i \in AskedFor : IsUnset(Fields(laying)[i])}}
SeeUnset == unset' = unset \cup [reader : {"field"}, node : UnsetFields]

LayoutIncomplete ==
  /\ phase = "layout"
  /\ \/ \E i \in DOMAIN Fields(laying) : IsIncomplete(Fields(laying)[i])
     \/ UnsetFields # {}
  /\ SeeUnset
  /\ Abort

Layout ==
  /\ phase = "layout"
  /\ \A i \in DOMAIN Fields(laying) : ~IsIncomplete(Fields(laying)[i])
  /\ SeeUnset
  /\ phase' = "top"
  /\ nodes' = [nodes EXCEPT ![laying].decided = TRUE]
  /\ bodies' = [bodies EXCEPT ![nodes[laying].body].placed = TRUE]
  /\ UNCHANGED <<tops, structmap, typedefmap, cur, laying, given>>

\* typesize() of a type a function mentions: a local variable, sizeof, an index.
SizeOf(type, reader) ==
  \/ /\ IsIncomplete(type)
     /\ phase' = "exit"
     /\ UNCHANGED unset
  \/ /\ IsUnset(type)
     /\ unset' = unset \cup {[reader |-> reader, node |-> type.node]}
     /\ phase' \in {"top", "exit"}
  \/ /\ ~IsIncomplete(type) /\ ~IsUnset(type)
     /\ UNCHANGED <<phase, unset>>

SizeOfTag(t) ==
  /\ NextTop
  /\ t \in DOMAIN structmap
  /\ SizeOf(Type(FALSE, structmap[t]), "tag")
  /\ UNCHANGED <<nodes, bodies, structmap, typedefmap, cur, laying, given>>

SizeOfAlias(a) ==
  /\ NextTop
  /\ a \in DOMAIN typedefmap
  /\ SizeOf(typedefmap[a], "alias")
  /\ UNCHANGED <<nodes, bodies, structmap, typedefmap, cur, laying, given>>

\* A variable declared with a body of its own: `struct t { int x; } v;' leaves the
\* maps alone, and nobody decides what typesize() is asked for.
VariableWithBody ==
  /\ NextTop
  /\ bodies' = Append(bodies, [fields |-> <<Scalar>>, placed |-> FALSE])
  /\ nodes' = Append(nodes, [kind |-> "struct", tag |-> None,
                             body |-> Len(bodies) + 1, decided |-> FALSE])
  /\ unset' = unset \cup {[reader |-> "variable", node |-> Len(nodes) + 1]}
  /\ phase' \in {"top", "exit"}
  /\ UNCHANGED <<structmap, typedefmap, cur, laying, given>>

-----------------------------------------------------------------------------
Init ==
  /\ phase = "top" /\ tops = 0
  /\ nodes = <<>> /\ bodies = <<>>
  /\ structmap = Empty /\ typedefmap = Empty
  /\ cur = Idle /\ laying = 0
  /\ given = Empty /\ unset = {}

Next ==
  \/ FieldScalar \/ FieldNested \/ CloseStruct \/ CloseStructPtr
  \/ Layout \/ LayoutIncomplete \/ VariableWithBody
  \/ \E t \in Tags : BareTag(t) \/ SizeOfTag(t)
  \/ \E t \in Tags, a \in Aliases \cup {None} :
       (a = None \/ a \notin DOMAIN typedefmap) /\ OpenStruct(t, a)
  \/ \E t \in Tags, ptr \in BOOLEAN : FieldByTag(t, ptr)
  \/ \E a \in Aliases, ptr \in BOOLEAN : FieldByAlias(a, ptr)
  \/ \E t \in Tags, a \in Aliases, ptr \in BOOLEAN : AliasTag(a, t, ptr)
  \/ \E a, b \in Aliases : AliasAlias(a, b)
  \/ \E a \in Aliases : SizeOfAlias(a)

Spec == Init /\ [][Next]_vars

-----------------------------------------------------------------------------
NodeIds == 1 .. Len(nodes)
TypeSet == [ptr : BOOLEAN, node : 0 .. Len(nodes)]

\* Nodes, bodies and maps refer to what exists; a node that calls itself a struct has
\* a field vector, which the analysis and every member access read unasked.
TypeOK ==
  /\ phase \in {"top", "body", "layout", "exit"}
  /\ tops \in 0 .. MaxTops
  /\ \A n \in NodeIds :
       nodes[n] \in [kind : {"struct", "incomplete"}, tag : Tags \cup {None},
                     body : 0 .. Len(bodies), decided : BOOLEAN]
  /\ \A n \in NodeIds : nodes[n].kind = "struct" => nodes[n].body # 0
  /\ \A b \in 1 .. Len(bodies) :
       bodies[b].fields \in Seq(TypeSet) /\ bodies[b].placed \in BOOLEAN
  /\ structmap \in [DOMAIN structmap -> NodeIds] /\ DOMAIN structmap \subseteq Tags
  /\ typedefmap \in [DOMAIN typedefmap -> TypeSet] /\ DOMAIN typedefmap \subseteq Aliases
  /\ cur.tag \in Tags \cup {None} /\ cur.alias \in Aliases \cup {None}
  /\ cur.fields \in Seq(TypeSet)
  /\ laying \in 0 .. Len(nodes)
  /\ given \in [DOMAIN given -> 0 .. Len(bodies)]
  /\ unset \subseteq [reader : {"field", "tag", "alias", "variable"}, node : NodeIds]

\* A tag keeps the node it was first given: what a forward reference pointed to
\* is what the body later completes.
TagKeepsNode ==
  [][\A t \in DOMAIN structmap : t \in DOMAIN structmap' /\ structmap'[t] = structmap[t]]_vars

\* Once a toplevel that gave a tag its body has been analysed, the tag's node has
\* those fields, with their offsets, and its size, whichever references, aliases
\* and repeated declarations came before or after.
GivenIsComplete ==
  \A t \in {u \in DOMAIN given : given[u] # 0} :
    LET n == nodes[structmap[t]]
    IN  /\ n.kind = "struct" /\ n.body = given[t]
        /\ phase = "top" => n.decided /\ bodies[n.body].placed

\* Member accesses through a typedef and through the tag agree: they find the very
\* same field vector, though the nodes may be two.
FieldsShared ==
  \A a \in DOMAIN typedefmap :
    typedefmap[a].node # 0 =>
      LET n == nodes[typedefmap[a].node]
      IN  n.tag \in DOMAIN given /\ given[n.tag] # 0 => n.body = given[n.tag]

\* "imcomplete type": the size of a typedef name, or of a field, is decided when it
\* is asked for, or its lack is reported.
SizesDecided == \A u \in unset : u.reader \notin {"alias", "field"}
=============================================================================
