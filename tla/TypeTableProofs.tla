-------------------------- MODULE TypeTableProofs --------------------------
(***************************************************************************)
(* For any tags, typedef names and bounds: a tag keeps its node, a struct  *)
(* that was given its body has it and its size from the end of its         *)
(* toplevel on, and a typedef name and a tag share the fields.  Every step *)
(* either lets the heap of nodes grow (Grown), completes one node          *)
(* (Complete) or lays one out; what every tag's and every typedef name's   *)
(* node looks like is kept by all three.                                   *)
(***************************************************************************)
EXTENDS TypeTable, VectorMap, TLAPS, SequenceTheorems

NodeSet(b) == [kind : {"struct", "incomplete"}, tag : Tags \cup {None},
               body : 0 .. b, decided : BOOLEAN]
TypesTo(n) == [ptr : BOOLEAN, node : 0 .. n]
BodySet(n) == [fields : Seq(TypesTo(n)), placed : BOOLEAN]
CurSet(n)  == [tag : Tags \cup {None}, alias : Aliases \cup {None}, fields : Seq(TypesTo(n))]
UnsetSet(n) == [reader : {"field", "tag", "alias", "variable"}, node : 1 .. n]

Shapes ==
  /\ phase \in {"top", "body", "layout", "exit"}
  /\ tops \in 0 .. MaxTops
  /\ nodes \in Seq(NodeSet(Len(bodies)))
  /\ bodies \in Seq(BodySet(Len(nodes)))
  /\ structmap \in [DOMAIN structmap -> 1 .. Len(nodes)] /\ DOMAIN structmap \subseteq Tags
  /\ typedefmap \in [DOMAIN typedefmap -> TypesTo(Len(nodes))]
  /\ DOMAIN typedefmap \subseteq Aliases
  /\ cur \in CurSet(Len(nodes))
  /\ laying \in 0 .. Len(nodes)
  /\ given \in [DOMAIN given -> 0 .. Len(bodies)] /\ DOMAIN given \subseteq Tags
  /\ unset \subseteq UnsetSet(Len(nodes))

\* What the parser is in the middle of.
Pending ==
  /\ \A n \in 1 .. Len(nodes) : nodes[n].kind = "struct" => nodes[n].body # 0
  /\ phase = "body" => cur.tag \in Tags /\ cur.tag \notin DOMAIN given
  /\ phase = "layout" => laying # 0 /\ nodes[laying].kind = "struct"

\* While a toplevel is parsed every struct in the table is decided, but for the one
\* about to be laid out.
Settled(n, ph, l) == ph \in {"top", "body"} \/ (ph = "layout" /\ n # l)

TagsInv ==
  \A t \in DOMAIN structmap :
    LET n == nodes[structmap[t]]
    IN  /\ n.tag = t
        /\ n.kind = "struct" /\ Settled(structmap[t], phase, laying) => n.decided

GivenInv ==
  \A t \in DOMAIN given :
    given[t] # 0 =>
      /\ t \in DOMAIN structmap
      /\ nodes[structmap[t]].kind = "struct" /\ nodes[structmap[t]].body = given[t]
      /\ Settled(structmap[t], phase, laying) => bodies[given[t]].placed

\* The node of a typedef name: the tag's own, or one whose body is the tag's.
AliasOK(type, ns, sm, gv) ==
  LET n == ns[type.node]
  IN  /\ n.tag \in Tags
      /\ n.tag \in DOMAIN gv \/ (n.tag \in DOMAIN sm /\ sm[n.tag] = type.node)
      /\ n.tag \in DOMAIN gv /\ gv[n.tag] # 0 => n.body = gv[n.tag]
      /\ ~type.ptr => n.tag \in DOMAIN sm

AliasesInv ==
  \A a \in DOMAIN typedefmap :
    typedefmap[a].node # 0 => AliasOK(typedefmap[a], nodes, structmap, given)

\* typesize() of a struct asked for by its tag is decided, or its lack reported.
TagSizesDecided == \A u \in unset : u.reader # "tag"

IInv == Shapes /\ Pending /\ TagsInv /\ GivenInv /\ AliasesInv /\ TagSizesDecided

-----------------------------------------------------------------------------
LEMMA SeqWiden ==
  ASSUME NEW S, NEW T, S \subseteq T
  PROVE  Seq(S) \subseteq Seq(T)
<1> SUFFICES ASSUME NEW s \in Seq(S) PROVE s \in Seq(T)
  OBVIOUS
<1>1. Len(s) \in Nat /\ s \in [1 .. Len(s) -> S]
  BY LenProperties
<1>2. s \in [1 .. Len(s) -> T]
  BY <1>1
<1>3. QED
  BY <1>1, <1>2, SeqDef

\* More nodes or bodies leave what was well formed well formed.
LEMMA Widen ==
  ASSUME NEW m \in Nat, NEW n \in Nat, m <= n
  PROVE  /\ NodeSet(m) \subseteq NodeSet(n) /\ Seq(NodeSet(m)) \subseteq Seq(NodeSet(n))
         /\ TypesTo(m) \subseteq TypesTo(n) /\ Seq(TypesTo(m)) \subseteq Seq(TypesTo(n))
         /\ BodySet(m) \subseteq BodySet(n) /\ Seq(BodySet(m)) \subseteq Seq(BodySet(n))
         /\ CurSet(m) \subseteq CurSet(n)
         /\ UnsetSet(m) \subseteq UnsetSet(n)
<1>1. 0 .. m \subseteq 0 .. n /\ 1 .. m \subseteq 1 .. n
  OBVIOUS
<1>2. NodeSet(m) \subseteq NodeSet(n) /\ TypesTo(m) \subseteq TypesTo(n)
      /\ UnsetSet(m) \subseteq UnsetSet(n)
  BY <1>1 DEF NodeSet, TypesTo, UnsetSet
<1>3. Seq(TypesTo(m)) \subseteq Seq(TypesTo(n)) /\ Seq(NodeSet(m)) \subseteq Seq(NodeSet(n))
  BY <1>2, SeqWiden
<1>4. BodySet(m) \subseteq BodySet(n) /\ CurSet(m) \subseteq CurSet(n)
  BY <1>3 DEF BodySet, CurSet
<1>5. Seq(BodySet(m)) \subseteq Seq(BodySet(n))
  BY <1>4, SeqWiden
<1>6. QED
  BY <1>2, <1>3, <1>4, <1>5

\* The heap and the table only grow: what is new in the table is incomplete.
Grown ==
  /\ Len(nodes') \in Nat /\ Len(bodies') \in Nat
  /\ Len(nodes) <= Len(nodes') /\ Len(bodies) <= Len(bodies')
  /\ nodes' \in Seq(NodeSet(Len(bodies'))) /\ bodies' \in Seq(BodySet(Len(nodes')))
  /\ \A n \in 1 .. Len(nodes) : nodes'[n] = nodes[n]
  /\ \A b \in 1 .. Len(bodies) : bodies'[b] = bodies[b]
  /\ \A n \in 1 .. Len(nodes') : nodes'[n].kind = "struct" => nodes'[n].body # 0
  /\ structmap' \in [DOMAIN structmap' -> 1 .. Len(nodes')]
  /\ DOMAIN structmap \subseteq DOMAIN structmap' /\ DOMAIN structmap' \subseteq Tags
  /\ \A t \in DOMAIN structmap : structmap'[t] = structmap[t]
  /\ \A t \in DOMAIN structmap' \ DOMAIN structmap :
       LET n == nodes'[structmap'[t]] IN n.tag = t /\ n.kind = "incomplete"

LEMMA SameGrown ==
  ASSUME IInv, UNCHANGED <<nodes, bodies, structmap>>
  PROVE  Grown
<1>1. Len(nodes) \in Nat /\ Len(bodies) \in Nat
  BY LenProperties DEF IInv, Shapes
<1>2. QED
  BY <1>1 DEF Grown, IInv, Shapes, Pending

LEMMA RefGrown ==
  ASSUME IInv, NEW t \in Tags, Ref(t), bodies' = bodies
  PROVE  /\ Grown
         /\ t \in DOMAIN structmap' /\ structmap'[t] \in 1 .. Len(nodes')
         /\ nodes'[structmap'[t]].tag = t
<1>1. /\ Len(nodes) \in Nat /\ Len(bodies) \in Nat
      /\ nodes \in Seq(NodeSet(Len(bodies))) /\ bodies \in Seq(BodySet(Len(nodes)))
      /\ structmap \in [DOMAIN structmap -> 1 .. Len(nodes)] /\ DOMAIN structmap \subseteq Tags
  BY LenProperties DEF IInv, Shapes
<1>2. CASE t \in DOMAIN structmap /\ UNCHANGED <<nodes, structmap>>
  <2>1. Grown
    BY <1>2, SameGrown
  <2>2. QED
    BY <1>1, <1>2, <2>1 DEF IInv, TagsInv
<1>3. CASE /\ t \notin DOMAIN structmap
           /\ nodes' = Append(nodes, [kind |-> "incomplete", tag |-> t, body |-> 0,
                                      decided |-> FALSE])
           /\ structmap' = Insert(structmap, t, Len(nodes) + 1)
  <2> DEFINE new == [kind |-> "incomplete", tag |-> t, body |-> 0, decided |-> FALSE]
  <2>1. new \in NodeSet(Len(bodies)) /\ new.tag = t /\ new.kind = "incomplete"
    BY <1>1 DEF NodeSet
  <2>2. nodes' = Append(nodes, new)
    BY <1>3
  <2> HIDE DEF new
  <2>3. /\ nodes' \in Seq(NodeSet(Len(bodies))) /\ Len(nodes') = Len(nodes) + 1
        /\ \A n \in 1 .. Len(nodes) : nodes'[n] = nodes[n]
        /\ nodes'[Len(nodes) + 1] = new
    BY <1>1, <2>1, <2>2, AppendProperties
  <2>4. /\ DOMAIN structmap' = DOMAIN structmap \cup {t}
        /\ structmap'[t] = Len(nodes) + 1
        /\ \A u \in DOMAIN structmap : structmap'[u] = structmap[u]
    BY <1>3 DEF Insert
  <2>5. structmap' \in [DOMAIN structmap' -> 1 .. Len(nodes')]
    <3>1. \A u \in DOMAIN structmap' : structmap'[u] \in 1 .. Len(nodes')
      BY <1>1, <2>3, <2>4
    <3>2. structmap' = [u \in DOMAIN structmap' |-> structmap'[u]]
      BY <1>3 DEF Insert
    <3>3. QED
      BY <3>1, <3>2
  <2>6. bodies' \in Seq(BodySet(Len(nodes')))
    BY <1>1, <2>3, Widen
  <2>7. \A n \in 1 .. Len(nodes') : nodes'[n].kind = "struct" => nodes'[n].body # 0
    <3>1. \A n \in 1 .. Len(nodes') : n \in 1 .. Len(nodes) \/ n = Len(nodes) + 1
      BY <1>1, <2>3
    <3>2. QED
      BY <2>1, <2>3, <3>1 DEF IInv, Pending
  <2>8. QED
    BY <1>1, <2>1, <2>3, <2>4, <2>5, <2>6, <2>7 DEF Grown
<1>4. QED
  BY <1>2, <1>3 DEF Ref

\* A struct node with a body of its own joins the heap; no table hears of it.
LEMMA BodyGrown ==
  ASSUME IInv, NEW tag \in Tags \cup {None}, NEW fields \in Seq(TypesTo(Len(nodes))),
         bodies' = Append(bodies, [fields |-> fields, placed |-> FALSE]),
         nodes' = Append(nodes, [kind |-> "struct", tag |-> tag,
                                 body |-> Len(bodies) + 1, decided |-> FALSE])
  PROVE  /\ Len(nodes) \in Nat /\ Len(bodies) \in Nat
         /\ Len(nodes') = Len(nodes) + 1 /\ Len(bodies') = Len(bodies) + 1
         /\ nodes' \in Seq(NodeSet(Len(bodies'))) /\ bodies' \in Seq(BodySet(Len(nodes')))
         /\ \A n \in 1 .. Len(nodes) : nodes'[n] = nodes[n]
         /\ \A b \in 1 .. Len(bodies) : bodies'[b] = bodies[b]
         /\ LET n == nodes'[Len(nodes) + 1]
            IN  n.tag = tag /\ n.kind = "struct" /\ n.body = Len(bodies) + 1
         /\ structmap' = structmap => Grown
<1> DEFINE new == [kind |-> "struct", tag |-> tag, body |-> Len(bodies) + 1,
                   decided |-> FALSE]
           body == [fields |-> fields, placed |-> FALSE]
           m == Len(nodes)
           k == Len(bodies)
<1>1. /\ m \in Nat /\ k \in Nat
      /\ nodes \in Seq(NodeSet(k)) /\ bodies \in Seq(BodySet(m))
      /\ structmap \in [DOMAIN structmap -> 1 .. m] /\ DOMAIN structmap \subseteq Tags
  BY LenProperties DEF IInv, Shapes
<1>2. /\ new \in NodeSet(k + 1) /\ body \in BodySet(m)
      /\ new.tag = tag /\ new.kind = "struct" /\ new.body = k + 1
  <2>1. body \in BodySet(m)
    BY DEF BodySet
  <2>2. k + 1 \in 0 .. k + 1
    BY <1>1
  <2>3. new \in NodeSet(k + 1)
    BY <2>2 DEF NodeSet
  <2>4. QED
    BY <2>1, <2>3
<1>3. nodes' = Append(nodes, new) /\ bodies' = Append(bodies, body)
  OBVIOUS
<1> HIDE DEF new, body
<1>4. nodes \in Seq(NodeSet(k + 1))
  <2>1. k + 1 \in Nat /\ k <= k + 1
    BY <1>1
  <2>2. Seq(NodeSet(k)) \subseteq Seq(NodeSet(k + 1))
    BY <1>1, <2>1, Widen
  <2>3. QED
    BY <1>1, <2>2
<1>5. /\ nodes' \in Seq(NodeSet(k + 1)) /\ Len(nodes') = m + 1
      /\ \A n \in 1 .. m : nodes'[n] = nodes[n]
      /\ nodes'[m + 1] = new
  BY <1>2, <1>3, <1>4, AppendProperties
<1>6. /\ bodies' \in Seq(BodySet(m)) /\ Len(bodies') = k + 1
      /\ \A b \in 1 .. k : bodies'[b] = bodies[b]
  BY <1>1, <1>2, <1>3, AppendProperties
<1>7. bodies' \in Seq(BodySet(m + 1))
  <2>1. m + 1 \in Nat /\ m <= m + 1
    BY <1>1
  <2>2. Seq(BodySet(m)) \subseteq Seq(BodySet(m + 1))
    BY <1>1, <2>1, Widen
  <2>3. QED
    BY <1>6, <2>2
<1>8. ASSUME structmap' = structmap PROVE Grown
  <2>1. \A n \in 1 .. m + 1 : n \in 1 .. m \/ n = m + 1
    BY <1>1
  <2>2. \A n \in 1 .. m + 1 : nodes'[n].kind = "struct" => nodes'[n].body # 0
    BY <1>1, <1>2, <1>5, <2>1 DEF IInv, Pending
  <2>3. structmap' \in [DOMAIN structmap' -> 1 .. m + 1]
    BY <1>1, <1>8
  <2>4. QED
    BY <1>1, <1>5, <1>6, <1>7, <1>8, <2>2, <2>3 DEF Grown
<1>9. QED
  BY <1>1, <1>2, <1>5, <1>6, <1>7, <1>8

LEMMA StillShaped ==
  ASSUME IInv, Len(nodes') \in Nat, Len(bodies') \in Nat,
         Len(nodes) <= Len(nodes'), Len(bodies) <= Len(bodies')
  PROVE  /\ Len(nodes) \in Nat /\ Len(bodies) \in Nat
         /\ typedefmap \in [DOMAIN typedefmap -> TypesTo(Len(nodes'))]
         /\ cur \in CurSet(Len(nodes')) /\ laying \in 0 .. Len(nodes')
         /\ given \in [DOMAIN given -> 0 .. Len(bodies')]
         /\ unset \subseteq UnsetSet(Len(nodes'))
         /\ TypesTo(Len(nodes)) \subseteq TypesTo(Len(nodes'))
<1>1. Len(nodes) \in Nat /\ Len(bodies) \in Nat
  BY LenProperties DEF IInv, Shapes
<1> DEFINE m == Len(nodes)
           n == Len(nodes')
<1>2. /\ TypesTo(m) \subseteq TypesTo(n) /\ CurSet(m) \subseteq CurSet(n)
      /\ UnsetSet(m) \subseteq UnsetSet(n)
  BY <1>1, Widen
<1>3. /\ typedefmap \in [DOMAIN typedefmap -> TypesTo(m)] /\ cur \in CurSet(m)
      /\ laying \in 0 .. m /\ given \in [DOMAIN given -> 0 .. Len(bodies)]
      /\ unset \subseteq UnsetSet(m)
  BY DEF IInv, Shapes
<1>4. laying \in 0 .. n
  BY <1>1, <1>3
<1>5. given \in [DOMAIN given -> 0 .. Len(bodies')]
  <2>1. 0 .. Len(bodies) \subseteq 0 .. Len(bodies')
    BY <1>1
  <2>2. QED
    BY <1>3, <2>1
<1> HIDE DEF m, n
<1>6. /\ typedefmap \in [DOMAIN typedefmap -> TypesTo(n)] /\ cur \in CurSet(n)
      /\ unset \subseteq UnsetSet(n)
  BY <1>2, <1>3
<1>7. QED
  BY <1>1, <1>2, <1>4, <1>5, <1>6 DEF m, n

\* A step that lets the heap grow keeps the invariant, if what it adds to the maps
\* and to the histories is in order.
LEMMA GrownInv ==
  ASSUME IInv, Grown,
         phase \in {"top", "body"} \/ phase' = "exit",
         phase' \in {"top", "body", "layout", "exit"}, tops' \in 0 .. MaxTops,
         phase' = "body" => cur'.tag \in Tags /\ cur'.tag \notin DOMAIN given',
         phase' = "layout" => laying' # 0 /\ nodes'[laying'].kind = "struct",
         laying' \in 0 .. Len(nodes'), cur' \in CurSet(Len(nodes')),
         given' \in [DOMAIN given' -> 0 .. Len(bodies')],
         DOMAIN given \subseteq DOMAIN given', DOMAIN given' \subseteq Tags,
         \A t \in DOMAIN given : given'[t] = given[t],
         \A t \in DOMAIN given' \ DOMAIN given : given'[t] = 0,
         typedefmap' \in [DOMAIN typedefmap' -> TypesTo(Len(nodes'))],
         DOMAIN typedefmap' \subseteq Aliases,
         \A a \in DOMAIN typedefmap' :
           \/ a \in DOMAIN typedefmap /\ typedefmap'[a] = typedefmap[a]
           \/ typedefmap'[a].node # 0 =>
                AliasOK(typedefmap'[a], nodes', structmap', given'),
         unset' \subseteq UnsetSet(Len(nodes')), \A u \in unset' : u.reader # "tag"
  PROVE  IInv'
<1>1. Shapes'
  BY DEF Shapes, Grown
<1>2. Pending'
  BY DEF Pending, Grown
<1>3. /\ structmap \in [DOMAIN structmap -> 1 .. Len(nodes)]
      /\ given \in [DOMAIN given -> 0 .. Len(bodies)]
      /\ typedefmap \in [DOMAIN typedefmap -> TypesTo(Len(nodes))]
      /\ Len(nodes) \in Nat /\ Len(bodies) \in Nat
  BY LenProperties DEF IInv, Shapes
<1>4. \A n : Settled(n, phase', laying') => Settled(n, phase, laying)
  BY DEF Settled
<1>5. TagsInv'
  <2> SUFFICES ASSUME NEW t \in DOMAIN structmap'
               PROVE  LET n == nodes'[structmap'[t]]
                      IN  /\ n.tag = t
                          /\ n.kind = "struct" /\ Settled(structmap'[t], phase', laying')
                               => n.decided
    BY DEF TagsInv
  <2>1. CASE t \in DOMAIN structmap
    <3>1. structmap'[t] = structmap[t] /\ nodes'[structmap[t]] = nodes[structmap[t]]
      BY <1>3, <2>1 DEF Grown
    <3>2. QED
      BY <1>4, <2>1, <3>1 DEF IInv, TagsInv
  <2>2. CASE t \notin DOMAIN structmap
    BY <2>2 DEF Grown
  <2>3. QED
    BY <2>1, <2>2
<1>6. GivenInv'
  <2> SUFFICES ASSUME NEW t \in DOMAIN given', given'[t] # 0
               PROVE  /\ t \in DOMAIN structmap'
                      /\ nodes'[structmap'[t]].kind = "struct"
                      /\ nodes'[structmap'[t]].body = given'[t]
                      /\ Settled(structmap'[t], phase', laying') =>
                           bodies'[given'[t]].placed
    BY DEF GivenInv
  <2>1. t \in DOMAIN given /\ given'[t] = given[t] /\ given[t] \in 1 .. Len(bodies)
    BY <1>3
  <2>2. /\ t \in DOMAIN structmap
        /\ nodes[structmap[t]].kind = "struct" /\ nodes[structmap[t]].body = given[t]
        /\ Settled(structmap[t], phase, laying) => bodies[given[t]].placed
    BY <2>1 DEF IInv, GivenInv
  <2>3. /\ t \in DOMAIN structmap' /\ structmap'[t] = structmap[t]
        /\ nodes'[structmap[t]] = nodes[structmap[t]]
        /\ bodies'[given[t]] = bodies[given[t]]
    BY <1>3, <2>1, <2>2 DEF Grown
  <2>4. QED
    BY <1>4, <2>1, <2>2, <2>3
<1>7. AliasesInv'
  <2> SUFFICES ASSUME NEW a \in DOMAIN typedefmap', typedefmap'[a].node # 0,
                      a \in DOMAIN typedefmap, typedefmap'[a] = typedefmap[a]
               PROVE  AliasOK(typedefmap'[a], nodes', structmap', given')
    BY DEF AliasesInv
  <2> DEFINE ty == typedefmap[a]
             k == ty.node
  <2>1. ty \in TypesTo(Len(nodes)) /\ AliasOK(ty, nodes, structmap, given)
    BY <1>3 DEF IInv, AliasesInv
  <2>2. k \in 1 .. Len(nodes)
    BY <1>3, <2>1 DEF TypesTo
  <2>3. nodes'[k] = nodes[k]
    BY <2>2 DEF Grown
  <2>4. QED
    BY <2>1, <2>3 DEF AliasOK, Grown
<1>8. TagSizesDecided'
  BY DEF TagSizesDecided
<1>9. QED
  BY <1>1, <1>2, <1>5, <1>6, <1>7, <1>8 DEF IInv

\* A node takes its body over: the tag's own, if the table knows it.
LEMMA CompleteTable ==
  ASSUME IInv, NEW heap \in Seq(NodeSet(Len(bodies'))), NEW n \in 1 .. Len(heap),
         Len(nodes) <= Len(heap), heap[n].tag \in Tags, Complete(heap, n)
  PROVE  LET t == heap[n].tag
         IN  /\ Len(nodes') = Len(heap) /\ Len(heap) \in Nat
             /\ nodes' \in Seq(NodeSet(Len(bodies')))
             /\ structmap' \in [DOMAIN structmap' -> 1 .. Len(nodes')]
             /\ DOMAIN structmap' = DOMAIN structmap \cup {t}
             /\ structmap'[t] = laying' /\ laying' \in 1 .. Len(nodes')
             /\ t \in DOMAIN structmap => laying' = structmap[t]
             /\ t \notin DOMAIN structmap => laying' = n
             /\ \A u \in DOMAIN structmap : u # t => structmap'[u] = structmap[u]
             /\ nodes'[laying'] = heap[n]
             /\ nodes'[n] = heap[n]
             /\ \A k \in 1 .. Len(heap) : k # laying' => nodes'[k] = heap[k]
<1> DEFINE t == heap[n].tag
<1>1. /\ Len(heap) \in Nat /\ Len(nodes) \in Nat
      /\ structmap \in [DOMAIN structmap -> 1 .. Len(nodes)]
      /\ heap[n] \in NodeSet(Len(bodies'))
  BY LenProperties DEF IInv, Shapes
<1>2. CASE t \in DOMAIN structmap
  <2>1. /\ nodes' = [heap EXCEPT ![structmap[t]] = heap[n]]
        /\ laying' = structmap[t] /\ structmap' = structmap
    BY <1>2 DEF Complete
  <2>2. structmap[t] \in 1 .. Len(heap)
    BY <1>1, <1>2
  <2>3. /\ nodes' \in Seq(NodeSet(Len(bodies'))) /\ Len(nodes') = Len(heap)
        /\ nodes'[structmap[t]] = heap[n]
        /\ \A k \in 1 .. Len(heap) : k # structmap[t] => nodes'[k] = heap[k]
    BY <1>1, <2>1, <2>2, ExceptSeq
  <2>4. structmap' \in [DOMAIN structmap' -> 1 .. Len(nodes')]
    <3>1. 1 .. Len(nodes) \subseteq 1 .. Len(heap)
      BY <1>1
    <3>2. QED
      BY <1>1, <2>1, <2>3, <3>1
  <2>5. nodes'[n] = heap[n]
    BY <2>3
  <2>6. QED
    BY <1>1, <1>2, <2>1, <2>2, <2>3, <2>4, <2>5
<1>3. CASE t \notin DOMAIN structmap
  <2>1. nodes' = heap /\ laying' = n /\ structmap' = Insert(structmap, t, n)
    BY <1>3 DEF Complete
  <2>2. /\ DOMAIN structmap' = DOMAIN structmap \cup {t} /\ structmap'[t] = n
        /\ \A u \in DOMAIN structmap : u # t => structmap'[u] = structmap[u]
    BY <2>1 DEF Insert
  <2>3. structmap' \in [DOMAIN structmap' -> 1 .. Len(nodes')]
    <3>1. \A u \in DOMAIN structmap' : structmap'[u] \in 1 .. Len(nodes')
      BY <1>1, <2>1, <2>2
    <3>2. structmap' = [u \in DOMAIN structmap' |-> structmap'[u]]
      BY <2>1 DEF Insert
    <3>3. QED
      BY <3>1, <3>2
  <2>4. QED
    BY <1>1, <1>3, <2>1, <2>2, <2>3
<1>4. QED
  BY <1>2, <1>3

\* Completing a node keeps the invariant: the tag's node is the one to be laid out.
LEMMA CompleteInv ==
  ASSUME IInv, phase \in {"top", "body"}, phase' = "layout", tops' \in 0 .. MaxTops,
         NEW heap \in Seq(NodeSet(Len(bodies'))), NEW n \in 1 .. Len(heap),
         Len(nodes) <= Len(heap), \A k \in 1 .. Len(nodes) : heap[k] = nodes[k],
         \A k \in 1 .. Len(heap) : heap[k].kind = "struct" => heap[k].body # 0,
         heap[n].kind = "struct", heap[n].tag \in Tags, Complete(heap, n),
         Len(bodies') \in Nat, Len(bodies) <= Len(bodies'),
         bodies' \in Seq(BodySet(Len(heap))),
         \A b \in 1 .. Len(bodies) : bodies'[b] = bodies[b],
         cur' \in CurSet(Len(heap)), unset' = unset,
         LET t == heap[n].tag
         IN  \/ /\ given' = given
                /\ t \in DOMAIN given /\ given[t] # 0 => heap[n].body = given[t]
             \/ t \notin DOMAIN given /\ given' = Insert(given, t, heap[n].body),
         typedefmap' \in [DOMAIN typedefmap' -> TypesTo(Len(heap))],
         DOMAIN typedefmap' \subseteq Aliases,
         \A a \in DOMAIN typedefmap' :
           \/ a \in DOMAIN typedefmap /\ typedefmap'[a] = typedefmap[a]
           \/ typedefmap'[a].node # 0 =>
                AliasOK(typedefmap'[a], nodes', structmap', given')
  PROVE  IInv'
<1> DEFINE t == heap[n].tag
<1>1. /\ Len(nodes') = Len(heap) /\ Len(heap) \in Nat
      /\ nodes' \in Seq(NodeSet(Len(bodies')))
      /\ structmap' \in [DOMAIN structmap' -> 1 .. Len(nodes')]
      /\ DOMAIN structmap' = DOMAIN structmap \cup {t}
      /\ structmap'[t] = laying' /\ laying' \in 1 .. Len(nodes')
      /\ t \in DOMAIN structmap => laying' = structmap[t]
      /\ t \notin DOMAIN structmap => laying' = n
      /\ \A u \in DOMAIN structmap : u # t => structmap'[u] = structmap[u]
      /\ nodes'[laying'] = heap[n]
      /\ \A k \in 1 .. Len(heap) : k # laying' => nodes'[k] = heap[k]
  BY CompleteTable
<1>2. /\ structmap \in [DOMAIN structmap -> 1 .. Len(nodes)] /\ DOMAIN structmap \subseteq Tags
      /\ given \in [DOMAIN given -> 0 .. Len(bodies)] /\ DOMAIN given \subseteq Tags
      /\ typedefmap \in [DOMAIN typedefmap -> TypesTo(Len(nodes))]
      /\ Len(nodes) \in Nat /\ Len(bodies) \in Nat
  BY LenProperties DEF IInv, Shapes
<1>3. /\ heap[n] \in NodeSet(Len(bodies')) /\ heap[n].body \in 1 .. Len(bodies')
  <2>1. heap[n] \in NodeSet(Len(bodies')) /\ heap[n].body # 0
    OBVIOUS
  <2>2. QED
    BY <2>1 DEF NodeSet
<1>4. /\ given' \in [DOMAIN given' -> 0 .. Len(bodies')]
      /\ DOMAIN given' = DOMAIN given \/ DOMAIN given' = DOMAIN given \cup {t}
      /\ DOMAIN given' \subseteq Tags
      /\ \A u \in DOMAIN given : given'[u] = given[u]
      /\ t \in DOMAIN given' /\ given'[t] # 0 => given'[t] = heap[n].body
      /\ \A u \in DOMAIN given' : u # t => u \in DOMAIN given
  <2>1. given \in [DOMAIN given -> 0 .. Len(bodies')]
    <3>1. 0 .. Len(bodies) \subseteq 0 .. Len(bodies')
      BY <1>2
    <3>2. QED
      BY <1>2, <3>1
  <2>2. CASE given' = given /\ (t \in DOMAIN given /\ given[t] # 0 => heap[n].body = given[t])
    BY <1>2, <2>1, <2>2
  <2>3. CASE t \notin DOMAIN given /\ given' = Insert(given, t, heap[n].body)
    <3>1. /\ DOMAIN given' = DOMAIN given \cup {t} /\ given'[t] = heap[n].body
          /\ \A u \in DOMAIN given : given'[u] = given[u]
          /\ given' = [u \in DOMAIN given' |-> given'[u]]
      BY <2>3 DEF Insert
    <3>2. \A u \in DOMAIN given' : given'[u] \in 0 .. Len(bodies')
      BY <1>3, <2>1, <3>1
    <3>3. given' \in [DOMAIN given' -> 0 .. Len(bodies')]
      BY <3>1, <3>2
    <3>4. QED
      BY <1>2, <3>1, <3>3
  <2>4. QED
    BY <2>2, <2>3
<1>5. \A k \in 1 .. Len(nodes) : k # laying' => nodes'[k] = nodes[k]
  BY <1>1, <1>2
<1>6. \A u \in DOMAIN structmap : u # t => structmap[u] # laying'
  <2>1. \A u \in DOMAIN structmap :
          heap[structmap[u]] = nodes[structmap[u]] /\ nodes[structmap[u]].tag = u
    BY <1>2 DEF IInv, TagsInv
  <2>2. QED
    BY <1>1, <2>1
<1> HIDE DEF t
<1>7. Shapes'
  <2>1. laying' \in 0 .. Len(nodes') /\ unset' \subseteq UnsetSet(Len(nodes'))
    BY <1>1, StillShaped
  <2>2. DOMAIN structmap' \subseteq Tags
    BY <1>1, <1>2 DEF t
  <2>3. QED
    BY <1>1, <1>4, <2>1, <2>2 DEF Shapes
<1>8. Pending'
  <2>1. \A k \in 1 .. Len(nodes') : nodes'[k].kind = "struct" => nodes'[k].body # 0
    BY <1>1
  <2>2. laying' # 0 /\ nodes'[laying'].kind = "struct"
    BY <1>1
  <2>3. QED
    BY <2>1, <2>2 DEF Pending
<1>9. TagsInv'
  <2> SUFFICES ASSUME NEW u \in DOMAIN structmap'
               PROVE  LET k == nodes'[structmap'[u]]
                      IN  /\ k.tag = u
                          /\ k.kind = "struct" /\ Settled(structmap'[u], phase', laying')
                               => k.decided
    BY DEF TagsInv
  <2>1. CASE u = t
    BY <1>1, <2>1 DEF Settled, t
  <2>2. CASE u # t
    <3>1. /\ u \in DOMAIN structmap /\ structmap'[u] = structmap[u]
          /\ nodes'[structmap[u]] = nodes[structmap[u]]
      BY <1>1, <1>2, <1>5, <1>6, <2>2
    <3>2. Settled(structmap[u], phase, laying)
      BY DEF Settled
    <3>3. QED
      BY <3>1, <3>2 DEF IInv, TagsInv
  <2>3. QED
    BY <2>1, <2>2
<1>10. GivenInv'
  <2> SUFFICES ASSUME NEW u \in DOMAIN given', given'[u] # 0
               PROVE  /\ u \in DOMAIN structmap'
                      /\ nodes'[structmap'[u]].kind = "struct"
                      /\ nodes'[structmap'[u]].body = given'[u]
                      /\ Settled(structmap'[u], phase', laying') =>
                           bodies'[given'[u]].placed
    BY DEF GivenInv
  <2>1. CASE u = t
    BY <1>1, <1>4, <2>1 DEF Settled
  <2>2. CASE u # t
    <3>1. /\ u \in DOMAIN given /\ given'[u] = given[u] /\ given[u] \in 1 .. Len(bodies)
      BY <1>2, <1>4, <2>2
    <3>2. /\ u \in DOMAIN structmap
          /\ nodes[structmap[u]].kind = "struct" /\ nodes[structmap[u]].body = given[u]
          /\ bodies[given[u]].placed
      BY <3>1 DEF IInv, GivenInv, Settled
    <3>3. /\ u \in DOMAIN structmap' /\ structmap'[u] = structmap[u]
          /\ nodes'[structmap[u]] = nodes[structmap[u]]
          /\ bodies'[given[u]] = bodies[given[u]]
      BY <1>1, <1>2, <1>5, <1>6, <2>2, <3>1, <3>2
    <3>4. QED
      BY <3>1, <3>2, <3>3
  <2>3. QED
    BY <2>1, <2>2
<1>11. AliasesInv'
  <2> SUFFICES ASSUME NEW a \in DOMAIN typedefmap', typedefmap'[a].node # 0,
                      a \in DOMAIN typedefmap, typedefmap'[a] = typedefmap[a]
               PROVE  AliasOK(typedefmap'[a], nodes', structmap', given')
    BY DEF AliasesInv
  <2> DEFINE ty == typedefmap[a]
             k == ty.node
  <2>1. ty \in TypesTo(Len(nodes)) /\ AliasOK(ty, nodes, structmap, given)
    BY <1>2 DEF IInv, AliasesInv
  <2>2. k \in 1 .. Len(nodes)
    BY <1>2, <2>1 DEF TypesTo
  <2>3. CASE k = laying'
    <3>1. /\ nodes'[k].tag = t /\ nodes'[k].body = heap[n].body
          /\ t \in Tags /\ t \in DOMAIN structmap' /\ structmap'[t] = k
      BY <1>1, <2>3 DEF t
    <3>2. QED
      BY <1>4, <3>1 DEF AliasOK
  <2>4. CASE k # laying'
    <3> DEFINE u == nodes[k].tag
    <3>1. nodes'[k] = nodes[k]
      BY <1>5, <2>2, <2>4
    <3>2. /\ u \in Tags
          /\ u \in DOMAIN given \/ (u \in DOMAIN structmap /\ structmap[u] = k)
          /\ u \in DOMAIN given /\ given[u] # 0 => nodes[k].body = given[u]
          /\ ~ty.ptr => u \in DOMAIN structmap
      BY <2>1 DEF AliasOK
    <3> HIDE DEF u
    <3>3. u \in DOMAIN given' \/ (u \in DOMAIN structmap' /\ structmap'[u] = k)
      BY <1>1, <1>4, <2>4, <3>2
    <3>4. u \in DOMAIN given' /\ given'[u] # 0 => nodes[k].body = given'[u]
      BY <1>1, <1>4, <2>4, <3>2
    <3>5. QED
      BY <1>1, <3>1, <3>2, <3>3, <3>4 DEF AliasOK, u
  <2>5. QED
    BY <2>3, <2>4
<1>12. TagSizesDecided'
  BY DEF IInv, TagSizesDecided
<1>13. QED
  BY <1>7, <1>8, <1>9, <1>10, <1>11, <1>12 DEF IInv

-----------------------------------------------------------------------------
\* The fields whose size is read undecided are structs of the heap.
LEMMA SeeUnsetShaped ==
  ASSUME IInv, phase = "layout", SeeUnset
  PROVE  /\ laying \in 1 .. Len(nodes) /\ nodes[laying].body \in 1 .. Len(bodies)
         /\ unset' \subseteq UnsetSet(Len(nodes)) /\ \A u \in unset' : u.reader # "tag"
<1>1. laying \in 1 .. Len(nodes) /\ nodes[laying].kind = "struct"
  BY DEF IInv, Pending, Shapes
<1>2. nodes[laying] \in NodeSet(Len(bodies)) /\ nodes[laying].body # 0
  BY <1>1 DEF IInv, Shapes, Pending
<1>3. nodes[laying].body \in 1 .. Len(bodies)
  <2>1. Len(bodies) \in Nat
    BY LenProperties DEF IInv, Shapes
  <2>2. QED
    BY <1>2, <2>1 DEF NodeSet
<1>4. bodies[nodes[laying].body] \in BodySet(Len(nodes))
  BY <1>3 DEF IInv, Shapes
<1>5. Fields(laying) \in Seq(TypesTo(Len(nodes)))
  BY <1>4 DEF Fields, BodySet
<1>6. UnsetFields \subseteq 1 .. Len(nodes)
  <2>1. SUFFICES ASSUME NEW i \in AskedFor, IsUnset(Fields(laying)[i])
                 PROVE  Fields(laying)[i].node \in 1 .. Len(nodes)
    BY DEF UnsetFields
  <2>2. i \in 1 .. Len(Fields(laying))
    BY <1>5 DEF AskedFor
  <2>3. Fields(laying)[i] \in TypesTo(Len(nodes)) /\ Fields(laying)[i].node # 0
    BY <1>5, <2>1, <2>2 DEF IsUnset, IsStruct
  <2>4. Len(nodes) \in Nat
    BY LenProperties DEF IInv, Shapes
  <2>5. QED
    BY <2>3, <2>4 DEF TypesTo
<1>7. unset' = unset \cup [reader : {"field"}, node : UnsetFields]
  BY DEF SeeUnset
<1>8. \A u \in [reader : {"field"}, node : UnsetFields] :
        u \in UnsetSet(Len(nodes)) /\ u.reader # "tag"
  BY <1>6 DEF UnsetSet
<1>9. unset \subseteq UnsetSet(Len(nodes)) /\ \A u \in unset : u.reader # "tag"
  BY DEF IInv, Shapes, TagSizesDecided
<1>10. QED
  BY <1>1, <1>3, <1>7, <1>8, <1>9

\* The layout decides the one struct of the table that was not.
LEMMA LayoutInv ==
  ASSUME IInv, Layout
  PROVE  IInv'
<1> DEFINE b == nodes[laying].body
           m == Len(nodes)
           k == Len(bodies)
<1>1. /\ phase = "layout" /\ phase' = "top" /\ SeeUnset
      /\ nodes' = [nodes EXCEPT ![laying].decided = TRUE]
      /\ bodies' = [bodies EXCEPT ![b].placed = TRUE]
      /\ UNCHANGED <<tops, structmap, typedefmap, cur, laying, given>>
  BY DEF Layout
<1>2. /\ laying \in 1 .. m /\ b \in 1 .. k
      /\ unset' \subseteq UnsetSet(m) /\ \A u \in unset' : u.reader # "tag"
  BY <1>1, SeeUnsetShaped
<1>3. /\ nodes \in Seq(NodeSet(k)) /\ bodies \in Seq(BodySet(m)) /\ m \in Nat /\ k \in Nat
      /\ nodes[laying] \in NodeSet(k) /\ bodies[b] \in BodySet(m)
  BY <1>2, LenProperties DEF IInv, Shapes
<1> DEFINE node == [nodes[laying] EXCEPT !.decided = TRUE]
           body == [bodies[b] EXCEPT !.placed = TRUE]
<1>4. /\ node \in NodeSet(k) /\ node.tag = nodes[laying].tag
      /\ node.kind = nodes[laying].kind /\ node.body = b /\ node.decided = TRUE
  BY <1>3 DEF NodeSet
<1>5. body \in BodySet(m) /\ body.placed = TRUE
  BY <1>3 DEF BodySet
<1>6. nodes' = [nodes EXCEPT ![laying] = node] /\ bodies' = [bodies EXCEPT ![b] = body]
  BY <1>1
<1> HIDE DEF node, body
<1>7. /\ nodes' \in Seq(NodeSet(k)) /\ Len(nodes') = m
      /\ nodes'[laying] = node /\ \A i \in 1 .. m : i # laying => nodes'[i] = nodes[i]
  BY <1>2, <1>3, <1>4, <1>6, ExceptSeq
<1>8. /\ bodies' \in Seq(BodySet(m)) /\ Len(bodies') = k
      /\ bodies'[b] = body /\ \A i \in 1 .. k : i # b => bodies'[i] = bodies[i]
  BY <1>2, <1>3, <1>5, <1>6, ExceptSeq
<1>9. \A i \in 1 .. m : /\ nodes'[i].tag = nodes[i].tag /\ nodes'[i].kind = nodes[i].kind
                        /\ nodes'[i].body = nodes[i].body
                        /\ nodes[i].decided => nodes'[i].decided
  BY <1>4, <1>7
<1>10. nodes'[laying].decided /\ bodies'[b].placed
  BY <1>4, <1>5, <1>7, <1>8
<1>11. \A i \in 1 .. k : bodies[i].placed => bodies'[i].placed
  BY <1>8, <1>10
<1>12. /\ structmap \in [DOMAIN structmap -> 1 .. m]
       /\ given \in [DOMAIN given -> 0 .. k]
       /\ typedefmap \in [DOMAIN typedefmap -> TypesTo(m)]
  BY DEF IInv, Shapes
<1>13. Shapes'
  BY <1>1, <1>2, <1>7, <1>8 DEF IInv, Shapes
<1> HIDE DEF b, m, k
<1>14. Pending'
  BY <1>1, <1>7, <1>9 DEF IInv, Pending, m
<1>15. TagsInv'
  BY <1>1, <1>9, <1>10, <1>12 DEF IInv, TagsInv, Settled
<1>16. GivenInv'
  <2> SUFFICES ASSUME NEW t \in DOMAIN given, given[t] # 0
               PROVE  /\ t \in DOMAIN structmap
                      /\ nodes'[structmap[t]].kind = "struct"
                      /\ nodes'[structmap[t]].body = given[t]
                      /\ bodies'[given[t]].placed
    BY <1>1 DEF GivenInv
  <2>1. /\ t \in DOMAIN structmap
        /\ nodes[structmap[t]].kind = "struct" /\ nodes[structmap[t]].body = given[t]
        /\ structmap[t] # laying => bodies[given[t]].placed
    BY <1>1 DEF IInv, GivenInv, Settled
  <2>2. structmap[t] \in 1 .. m /\ given[t] \in 1 .. k
    BY <1>3, <1>12, <2>1
  <2>3. CASE structmap[t] = laying
    BY <1>9, <1>10, <2>1, <2>2, <2>3 DEF b
  <2>4. CASE structmap[t] # laying
    BY <1>9, <1>11, <2>1, <2>2, <2>4
  <2>5. QED
    BY <2>3, <2>4
<1>17. AliasesInv'
  <2> SUFFICES ASSUME NEW a \in DOMAIN typedefmap, typedefmap[a].node # 0
               PROVE  AliasOK(typedefmap[a], nodes', structmap, given)
    BY <1>1 DEF AliasesInv
  <2>1. typedefmap[a].node \in 1 .. m
    BY <1>3, <1>12 DEF TypesTo
  <2>2. AliasOK(typedefmap[a], nodes, structmap, given)
    BY DEF IInv, AliasesInv
  <2>3. QED
    BY <1>9, <2>1, <2>2 DEF AliasOK
<1>18. TagSizesDecided'
  BY <1>2 DEF TagSizesDecided
<1>19. QED
  BY <1>13, <1>14, <1>15, <1>16, <1>17, <1>18 DEF IInv

-----------------------------------------------------------------------------
\* Steps that name no type and give no body.
LEMMA GrownSame ==
  ASSUME IInv, Grown, UNCHANGED <<typedefmap, given>>,
         phase \in {"top", "body"} \/ phase' = "exit",
         phase' \in {"top", "body", "layout", "exit"}, tops' \in 0 .. MaxTops,
         phase' = "body" => cur'.tag \in Tags /\ cur'.tag \notin DOMAIN given,
         phase' = "layout" => laying' # 0 /\ nodes'[laying'].kind = "struct",
         laying' \in 0 .. Len(nodes'), cur' \in CurSet(Len(nodes')),
         unset' \subseteq UnsetSet(Len(nodes')), \A u \in unset' : u.reader # "tag"
  PROVE  IInv'
<1>1. /\ typedefmap \in [DOMAIN typedefmap -> TypesTo(Len(nodes'))]
      /\ given \in [DOMAIN given -> 0 .. Len(bodies')]
  BY StillShaped DEF Grown
<1>2. DOMAIN given \subseteq Tags /\ DOMAIN typedefmap \subseteq Aliases
  BY DEF IInv, Shapes
<1>3. QED
  BY <1>1, <1>2, GrownInv

LEMMA NextTopBound ==
  ASSUME IInv, NextTop
  PROVE  phase = "top" /\ tops' \in 0 .. MaxTops
<1>1. tops \in 0 .. MaxTops /\ tops < MaxTops /\ tops' = tops + 1 /\ MaxTops \in Nat
  BY BoundsAssumption DEF IInv, Shapes, NextTop
<1>2. QED
  BY <1>1 DEF NextTop

LEMMA OpenStructInv ==
  ASSUME IInv, NEW t \in Tags, NEW a \in Aliases \cup {None}, OpenStruct(t, a)
  PROVE  IInv'
<1>1. /\ phase = "top" /\ tops' \in 0 .. MaxTops /\ t \notin DOMAIN given /\ phase' = "body"
      /\ cur' = [tag |-> t, alias |-> a, fields |-> <<>>]
      /\ UNCHANGED <<nodes, bodies, structmap, typedefmap, laying, given, unset>>
  BY NextTopBound DEF OpenStruct
<1>2. Grown
  BY <1>1, SameGrown
<1>3. /\ laying' \in 0 .. Len(nodes') /\ unset' \subseteq UnsetSet(Len(nodes'))
      /\ \A u \in unset' : u.reader # "tag"
  BY <1>1 DEF IInv, Shapes, TagSizesDecided
<1>4. cur' \in CurSet(Len(nodes')) /\ cur'.tag = t
  <2>1. <<>> \in Seq(TypesTo(Len(nodes')))
    BY EmptySeq
  <2>2. QED
    BY <1>1, <2>1 DEF CurSet
<1>5. QED
  BY <1>1, <1>2, <1>3, <1>4, GrownSame

LEMMA AddFieldInv ==
  ASSUME IInv, Grown, NEW type \in TypesTo(Len(nodes')), AddField(type)
  PROVE  IInv'
<1>1. /\ phase = "body" /\ UNCHANGED <<phase, tops, typedefmap, laying, given, unset>>
      /\ cur' = [cur EXCEPT !.fields = Append(@, type)]
  BY DEF AddField
<1>2. /\ cur \in CurSet(Len(nodes')) /\ laying' \in 0 .. Len(nodes')
      /\ unset' \subseteq UnsetSet(Len(nodes'))
  BY <1>1, StillShaped DEF Grown
<1>3. cur' \in CurSet(Len(nodes')) /\ cur'.tag = cur.tag
  <2>1. Append(cur.fields, type) \in Seq(TypesTo(Len(nodes')))
    BY <1>2, AppendProperties DEF CurSet
  <2>2. QED
    BY <1>1, <1>2, <2>1 DEF CurSet
<1>4. /\ tops' \in 0 .. MaxTops /\ cur.tag \in Tags /\ cur.tag \notin DOMAIN given
      /\ \A u \in unset' : u.reader # "tag"
  BY <1>1 DEF IInv, Shapes, Pending, TagSizesDecided
<1>5. QED
  BY <1>1, <1>2, <1>3, <1>4, GrownSame

LEMMA FieldInv ==
  ASSUME IInv,
         \/ FieldScalar \/ FieldNested
         \/ \E t \in Tags, ptr \in BOOLEAN : FieldByTag(t, ptr)
         \/ \E a \in Aliases, ptr \in BOOLEAN : FieldByAlias(a, ptr)
  PROVE  IInv'
<1>1. Len(nodes) \in Nat
  BY LenProperties DEF IInv, Shapes
<1>2. CASE FieldScalar
  <2>1. Grown /\ Len(nodes') \in Nat /\ AddField(Scalar)
    BY <1>2, SameGrown DEF FieldScalar, Grown
  <2>2. Scalar \in TypesTo(Len(nodes'))
    BY <2>1 DEF Scalar, TypesTo
  <2>3. QED
    BY <2>1, <2>2, AddFieldInv
<1>3. CASE FieldNested
  <2>1. /\ AddField(Type(FALSE, Len(nodes) + 1)) /\ structmap' = structmap
        /\ bodies' = Append(bodies, [fields |-> <<Scalar>>, placed |-> FALSE])
        /\ nodes' = Append(nodes, [kind |-> "struct", tag |-> None,
                                   body |-> Len(bodies) + 1, decided |-> FALSE])
    BY <1>3 DEF FieldNested
  <2>2. <<Scalar>> \in Seq(TypesTo(Len(nodes)))
    <3>1. Scalar \in TypesTo(Len(nodes))
      BY <1>1 DEF Scalar, TypesTo
    <3>2. QED
      BY <3>1
  <2>3. Grown /\ Len(nodes') = Len(nodes) + 1
    BY <2>1, <2>2, BodyGrown
  <2>4. Type(FALSE, Len(nodes) + 1) \in TypesTo(Len(nodes'))
    BY <1>1, <2>3 DEF Type, TypesTo
  <2>5. QED
    BY <2>1, <2>3, <2>4, AddFieldInv
<1>4. ASSUME NEW t \in Tags, NEW ptr \in BOOLEAN, FieldByTag(t, ptr) PROVE IInv'
  <2>1. Ref(t) /\ AddField(Type(ptr, structmap'[t])) /\ bodies' = bodies
    BY <1>4 DEF FieldByTag
  <2>2. Grown /\ structmap'[t] \in 1 .. Len(nodes')
    BY <2>1, RefGrown
  <2>3. structmap'[t] \in 0 .. Len(nodes')
    BY <2>2
  <2>4. Type(ptr, structmap'[t]) \in TypesTo(Len(nodes'))
    BY <2>3 DEF Type, TypesTo
  <2>5. QED
    BY <2>1, <2>2, <2>4, AddFieldInv
<1>5. ASSUME NEW a \in Aliases, NEW ptr \in BOOLEAN, FieldByAlias(a, ptr) PROVE IInv'
  <2>1. /\ a \in DOMAIN typedefmap /\ UNCHANGED <<nodes, bodies, structmap>>
        /\ AddField([typedefmap[a] EXCEPT !.ptr = @ \/ ptr])
    BY <1>5 DEF FieldByAlias
  <2>2. Grown
    BY <2>1, SameGrown
  <2>3. typedefmap[a] \in TypesTo(Len(nodes'))
    BY <2>1 DEF IInv, Shapes
  <2>4. (typedefmap[a].ptr \/ ptr) \in BOOLEAN
    OBVIOUS
  <2>5. [typedefmap[a] EXCEPT !.ptr = typedefmap[a].ptr \/ ptr] \in TypesTo(Len(nodes'))
    BY <2>3, <2>4 DEF TypesTo
  <2>6. QED
    BY <2>1, <2>2, <2>5, AddFieldInv
<1>6. QED
  BY <1>2, <1>3, <1>4, <1>5

\* One more typedef name.
LEMMA AliasInsert ==
  ASSUME IInv, NEW a \in Aliases, NEW m, NEW ty \in TypesTo(m),
         typedefmap \in [DOMAIN typedefmap -> TypesTo(m)],
         typedefmap' = Insert(typedefmap, a, ty)
  PROVE  /\ typedefmap'[a] = ty
         /\ DOMAIN typedefmap' \subseteq Aliases
         /\ typedefmap' \in [DOMAIN typedefmap' -> TypesTo(m)]
         /\ \A b \in DOMAIN typedefmap' :
              b = a \/ (b \in DOMAIN typedefmap /\ typedefmap'[b] = typedefmap[b])
<1>1. /\ DOMAIN typedefmap' = DOMAIN typedefmap \cup {a} /\ typedefmap'[a] = ty
      /\ \A b \in DOMAIN typedefmap : b # a => typedefmap'[b] = typedefmap[b]
      /\ typedefmap' = [b \in DOMAIN typedefmap' |-> typedefmap'[b]]
  BY DEF Insert
<1>2. DOMAIN typedefmap \subseteq Aliases
  BY DEF IInv, Shapes
<1>3. \A b \in DOMAIN typedefmap' : typedefmap'[b] \in TypesTo(m)
  BY <1>1
<1>4. QED
  BY <1>1, <1>2, <1>3

\* A name for a pointer to a struct given on the spot: the tag is used up.
LEMMA CloseStructPtrInv ==
  ASSUME IInv, CloseStructPtr
  PROVE  IInv'
<1>1. /\ phase = "body" /\ phase' = "top" /\ cur.alias # None
      /\ bodies' = Append(bodies, [fields |-> cur.fields, placed |-> FALSE])
      /\ nodes' = Append(nodes, [kind |-> "struct", tag |-> cur.tag,
                                 body |-> Len(bodies) + 1, decided |-> FALSE])
      /\ typedefmap' = Insert(typedefmap, cur.alias, Type(TRUE, Len(nodes) + 1))
      /\ given' = Insert(given, cur.tag, 0)
      /\ cur' = Idle
      /\ UNCHANGED <<tops, structmap, laying, unset>>
  BY DEF CloseStructPtr
<1>2. /\ cur.tag \in Tags /\ cur.tag \notin DOMAIN given /\ cur.alias \in Aliases
      /\ cur.fields \in Seq(TypesTo(Len(nodes))) /\ cur.tag \in Tags \cup {None}
  BY <1>1 DEF IInv, Pending, Shapes, CurSet
<1>3. /\ Grown /\ Len(nodes') = Len(nodes) + 1 /\ Len(nodes) \in Nat
      /\ nodes'[Len(nodes) + 1].tag = cur.tag
  BY <1>1, <1>2, BodyGrown
<1>4. /\ typedefmap \in [DOMAIN typedefmap -> TypesTo(Len(nodes'))]
      /\ laying \in 0 .. Len(nodes')
      /\ given \in [DOMAIN given -> 0 .. Len(bodies')]
      /\ unset \subseteq UnsetSet(Len(nodes'))
  BY <1>3, StillShaped DEF Grown
<1>5. cur' \in CurSet(Len(nodes'))
  <2>1. <<>> \in Seq(TypesTo(Len(nodes')))
    BY EmptySeq
  <2>2. QED
    BY <1>1, <2>1 DEF Idle, CurSet
<1>6. /\ DOMAIN given' = DOMAIN given \cup {cur.tag} /\ given'[cur.tag] = 0
      /\ \A t \in DOMAIN given : given'[t] = given[t]
      /\ given' \in [DOMAIN given' -> 0 .. Len(bodies')]
  <2>1. /\ DOMAIN given' = DOMAIN given \cup {cur.tag} /\ given'[cur.tag] = 0
        /\ \A t \in DOMAIN given : given'[t] = given[t]
        /\ given' = [t \in DOMAIN given' |-> given'[t]]
    BY <1>1, <1>2 DEF Insert
  <2>2. 0 \in 0 .. Len(bodies')
    BY <1>3 DEF Grown
  <2>3. \A t \in DOMAIN given' : given'[t] \in 0 .. Len(bodies')
    BY <1>4, <2>1, <2>2
  <2>4. QED
    BY <2>1, <2>3
<1> DEFINE ty == Type(TRUE, Len(nodes) + 1)
<1>7. ty \in TypesTo(Len(nodes')) /\ ty.ptr = TRUE /\ ty.node = Len(nodes) + 1
  BY <1>3 DEF Type, TypesTo
<1>8. typedefmap' = Insert(typedefmap, cur.alias, ty)
  BY <1>1
<1> HIDE DEF ty
<1>9. /\ typedefmap'[cur.alias] = ty
      /\ DOMAIN typedefmap' \subseteq Aliases
      /\ typedefmap' \in [DOMAIN typedefmap' -> TypesTo(Len(nodes'))]
      /\ \A b \in DOMAIN typedefmap' :
           b = cur.alias \/ (b \in DOMAIN typedefmap /\ typedefmap'[b] = typedefmap[b])
  BY <1>2, <1>4, <1>7, <1>8, AliasInsert
<1>10. AliasOK(ty, nodes', structmap', given')
  BY <1>2, <1>3, <1>6, <1>7 DEF AliasOK
<1>11. /\ tops' \in 0 .. MaxTops /\ DOMAIN given' \subseteq Tags
       /\ DOMAIN typedefmap' \subseteq Aliases /\ \A u \in unset' : u.reader # "tag"
  BY <1>1, <1>2, <1>6, <1>9 DEF IInv, Shapes, TagSizesDecided
<1>12. /\ \A a \in DOMAIN typedefmap' :
            \/ a \in DOMAIN typedefmap /\ typedefmap'[a] = typedefmap[a]
            \/ typedefmap'[a].node # 0 =>
                 AliasOK(typedefmap'[a], nodes', structmap', given')
       /\ \A t \in DOMAIN given' \ DOMAIN given : given'[t] = 0
       /\ DOMAIN given \subseteq DOMAIN given'
  BY <1>6, <1>9, <1>10
<1>13. QED
  BY <1>1, <1>3, <1>4, <1>5, <1>6, <1>9, <1>11, <1>12, GrownInv

\* `}': the struct is in the table and the typedef name's node has its body.
LEMMA CloseStructInv ==
  ASSUME IInv, CloseStruct
  PROVE  IInv'
<1> DEFINE m == Len(nodes)
           t == cur.tag
           new == [kind |-> "struct", tag |-> t, body |-> Len(bodies) + 1,
                   decided |-> FALSE]
           body == [fields |-> cur.fields, placed |-> FALSE]
           heap == Append(nodes, new)
           ty == Type(FALSE, m + 1)
<1>1. /\ phase = "body" /\ phase' = "layout"
      /\ bodies' = Append(bodies, body) /\ Complete(heap, m + 1)
      /\ typedefmap' = IF cur.alias = None THEN typedefmap
                       ELSE Insert(typedefmap, cur.alias, ty)
      /\ given' = Insert(given, t, Len(bodies) + 1)
      /\ cur' = Idle /\ UNCHANGED <<tops, unset>>
  BY DEF CloseStruct
<1>2. /\ t \in Tags /\ t \notin DOMAIN given /\ cur.alias \in Aliases \cup {None}
      /\ cur.fields \in Seq(TypesTo(m))
      /\ nodes \in Seq(NodeSet(Len(bodies))) /\ bodies \in Seq(BodySet(m))
      /\ m \in Nat /\ Len(bodies) \in Nat /\ tops' \in 0 .. MaxTops
  BY <1>1, LenProperties DEF IInv, Pending, Shapes, CurSet
<1>3. /\ new \in NodeSet(Len(bodies) + 1) /\ body \in BodySet(m)
      /\ new.tag = t /\ new.kind = "struct" /\ new.body = Len(bodies) + 1
  <2>1. Len(bodies) + 1 \in 0 .. Len(bodies) + 1
    BY <1>2
  <2>2. new \in NodeSet(Len(bodies) + 1)
    BY <1>2, <2>1 DEF NodeSet
  <2>3. body \in BodySet(m)
    BY <1>2 DEF BodySet
  <2>4. QED
    BY <2>2, <2>3
<1> HIDE DEF new, body
<1>4. /\ Seq(NodeSet(Len(bodies))) \subseteq Seq(NodeSet(Len(bodies) + 1))
      /\ Seq(BodySet(m)) \subseteq Seq(BodySet(m + 1))
      /\ TypesTo(m) \subseteq TypesTo(m + 1) /\ BodySet(m) \subseteq BodySet(m + 1)
  <2>1. /\ Len(bodies) + 1 \in Nat /\ Len(bodies) <= Len(bodies) + 1
        /\ m + 1 \in Nat /\ m <= m + 1
    BY <1>2
  <2>2. QED
    BY <1>2, <2>1, Widen
<1>5. /\ heap \in Seq(NodeSet(Len(bodies) + 1)) /\ Len(heap) = m + 1
      /\ \A k \in 1 .. m : heap[k] = nodes[k]
      /\ heap[m + 1] = new
  <2>1. nodes \in Seq(NodeSet(Len(bodies) + 1))
    BY <1>2, <1>4
  <2>2. QED
    BY <1>3, <2>1, AppendProperties
<1>6. /\ bodies' \in Seq(BodySet(m + 1)) /\ Len(bodies') = Len(bodies) + 1
      /\ \A b \in 1 .. Len(bodies) : bodies'[b] = bodies[b]
  <2>1. bodies \in Seq(BodySet(m + 1)) /\ body \in BodySet(m + 1)
    BY <1>2, <1>3, <1>4
  <2>2. QED
    BY <1>1, <2>1, AppendProperties
<1> HIDE DEF heap, m
<1>7. \A k \in 1 .. Len(heap) : heap[k].kind = "struct" => heap[k].body # 0
  <2>1. \A k \in 1 .. m + 1 : k \in 1 .. m \/ k = m + 1
    BY <1>2
  <2>2. \A k \in 1 .. m : nodes[k].kind = "struct" => nodes[k].body # 0
    BY DEF IInv, Pending, m
  <2>3. QED
    BY <1>2, <1>3, <1>5, <2>1, <2>2
<1>8. /\ m + 1 \in 1 .. Len(heap) /\ m <= Len(heap)
      /\ heap \in Seq(NodeSet(Len(bodies')))
      /\ heap[m + 1].tag = t /\ heap[m + 1].kind = "struct"
      /\ heap[m + 1].body = Len(bodies) + 1
  BY <1>2, <1>3, <1>5, <1>6
<1>9. /\ nodes'[m + 1] = heap[m + 1]
      /\ DOMAIN structmap' = DOMAIN structmap \cup {t}
  BY <1>1, <1>2, <1>8, CompleteTable DEF m
<1>10. /\ typedefmap \in [DOMAIN typedefmap -> TypesTo(m + 1)]
       /\ ty \in TypesTo(m + 1) /\ ty.ptr = FALSE /\ ty.node = m + 1
  <2>1. typedefmap \in [DOMAIN typedefmap -> TypesTo(m)]
    BY DEF IInv, Shapes, m
  <2>2. ty \in TypesTo(m + 1)
    BY <1>2 DEF Type, TypesTo
  <2>3. QED
    BY <1>4, <2>1, <2>2 DEF Type
<1> HIDE DEF ty
<1>11. AliasOK(ty, nodes', structmap', given')
  <2>1. t \in DOMAIN given' /\ given'[t] = Len(bodies) + 1
    BY <1>1 DEF Insert
  <2>2. QED
    BY <1>2, <1>8, <1>9, <1>10, <2>1 DEF AliasOK
<1>12. /\ DOMAIN typedefmap' \subseteq Aliases
       /\ typedefmap' \in [DOMAIN typedefmap' -> TypesTo(Len(heap))]
       /\ \A a \in DOMAIN typedefmap' :
            \/ a \in DOMAIN typedefmap /\ typedefmap'[a] = typedefmap[a]
            \/ typedefmap'[a].node # 0 =>
                 AliasOK(typedefmap'[a], nodes', structmap', given')
  <2>1. CASE cur.alias = None
    <3>1. typedefmap' = typedefmap /\ DOMAIN typedefmap \subseteq Aliases
      BY <1>1, <2>1 DEF IInv, Shapes
    <3>2. QED
      BY <1>5, <1>10, <3>1
  <2>2. CASE cur.alias # None
    <3>1. typedefmap' = Insert(typedefmap, cur.alias, ty) /\ cur.alias \in Aliases
      BY <1>1, <1>2, <2>2
    <3>2. QED
      BY <1>5, <1>10, <1>11, <3>1, AliasInsert
  <2>3. QED
    BY <2>1, <2>2
<1>13. cur' \in CurSet(Len(heap))
  <2>1. <<>> \in Seq(TypesTo(Len(heap)))
    BY EmptySeq
  <2>2. QED
    BY <1>1, <2>1 DEF Idle, CurSet
<1>14. given' = Insert(given, heap[m + 1].tag, heap[m + 1].body)
  BY <1>1, <1>8
<1>15. Len(bodies') \in Nat /\ Len(bodies) <= Len(bodies') /\ bodies' \in Seq(BodySet(Len(heap)))
  BY <1>2, <1>5, <1>6
<1>16. \A k \in 1 .. Len(nodes) : heap[k] = nodes[k]
  BY <1>5 DEF m
<1>17. QED
  BY <1>1, <1>2, <1>6, <1>7, <1>8, <1>12, <1>13, <1>14, <1>15, <1>16, CompleteInv DEF m

\* `struct t;': nothing is completed, at most what is complete is laid out again.
LEMMA BareTagInv ==
  ASSUME IInv, NEW t \in Tags, BareTag(t)
  PROVE  IInv'
<1>1. /\ Ref(t) /\ UNCHANGED <<bodies, typedefmap, cur, given, unset>>
      /\ \/ /\ nodes'[structmap'[t]].kind = "struct"
            /\ phase' = "layout" /\ laying' = structmap'[t]
         \/ UNCHANGED <<phase, laying>>
  BY DEF BareTag
<1>2. phase = "top" /\ tops' \in 0 .. MaxTops
  BY NextTopBound DEF BareTag
<1>3. Grown /\ structmap'[t] \in 1 .. Len(nodes')
  BY <1>1, RefGrown
<1>4. /\ cur' \in CurSet(Len(nodes')) /\ laying \in 0 .. Len(nodes')
      /\ unset' \subseteq UnsetSet(Len(nodes'))
  BY <1>1, <1>3, StillShaped DEF Grown
<1>5. \A u \in unset' : u.reader # "tag"
  BY <1>1 DEF IInv, TagSizesDecided
<1>6. CASE UNCHANGED <<phase, laying>>
  BY <1>1, <1>2, <1>3, <1>4, <1>5, <1>6, GrownSame
<1>7. CASE /\ nodes'[structmap'[t]].kind = "struct"
           /\ phase' = "layout" /\ laying' = structmap'[t]
  <2>1. laying' \in 0 .. Len(nodes') /\ laying' # 0
    BY <1>3, <1>7
  <2>2. QED
    BY <1>1, <1>2, <1>3, <1>4, <1>5, <1>7, <2>1, GrownSame
<1>8. QED
  BY <1>1, <1>6, <1>7

\* `typedef struct t a;' and `typedef struct t *a;': the name takes the tag's node.
LEMMA AliasTagInv ==
  ASSUME IInv, NEW t \in Tags, NEW a \in Aliases, NEW ptr \in BOOLEAN, AliasTag(a, t, ptr)
  PROVE  IInv'
<1> DEFINE ty == Type(ptr, structmap'[t])
<1>1. /\ Ref(t) /\ UNCHANGED <<bodies, cur, given, unset>>
      /\ typedefmap' = Insert(typedefmap, a, ty)
      /\ \/ /\ nodes'[structmap'[t]].kind = "struct"
            /\ phase' = "layout" /\ laying' = structmap'[t]
         \/ UNCHANGED <<phase, laying>>
  BY DEF AliasTag
<1>2. phase = "top" /\ tops' \in 0 .. MaxTops
  BY NextTopBound DEF AliasTag
<1>3. /\ Grown /\ t \in DOMAIN structmap' /\ structmap'[t] \in 1 .. Len(nodes')
      /\ nodes'[structmap'[t]].tag = t
  BY <1>1, RefGrown
<1>4. /\ cur' \in CurSet(Len(nodes')) /\ laying \in 0 .. Len(nodes')
      /\ typedefmap \in [DOMAIN typedefmap -> TypesTo(Len(nodes'))]
      /\ given' \in [DOMAIN given' -> 0 .. Len(bodies')]
      /\ unset' \subseteq UnsetSet(Len(nodes'))
  BY <1>1, <1>3, StillShaped DEF Grown
<1>5. /\ \A u \in unset' : u.reader # "tag"
      /\ DOMAIN given' \subseteq Tags
  BY <1>1 DEF IInv, Shapes, TagSizesDecided
<1>6. ty \in TypesTo(Len(nodes')) /\ ty.node = structmap'[t]
  <2>1. structmap'[t] \in 0 .. Len(nodes')
    BY <1>3
  <2>2. QED
    BY <2>1 DEF Type, TypesTo
<1> HIDE DEF ty
<1>7. AliasOK(ty, nodes', structmap', given')
  <2>1. ASSUME t \in DOMAIN given, given[t] # 0
        PROVE  nodes'[structmap'[t]].body = given[t]
    <3>1. /\ t \in DOMAIN structmap /\ nodes[structmap[t]].body = given[t]
          /\ structmap[t] \in 1 .. Len(nodes)
      BY <2>1 DEF IInv, GivenInv, Shapes
    <3>2. QED
      BY <1>3, <3>1 DEF Grown
  <2>2. QED
    BY <1>1, <1>3, <1>6, <2>1 DEF AliasOK
<1>8. /\ DOMAIN typedefmap' \subseteq Aliases
      /\ typedefmap' \in [DOMAIN typedefmap' -> TypesTo(Len(nodes'))]
      /\ \A b \in DOMAIN typedefmap' :
           \/ b \in DOMAIN typedefmap /\ typedefmap'[b] = typedefmap[b]
           \/ typedefmap'[b].node # 0 =>
                AliasOK(typedefmap'[b], nodes', structmap', given')
  BY <1>1, <1>4, <1>6, <1>7, AliasInsert
<1>9. \A u \in DOMAIN given' \ DOMAIN given : given'[u] = 0
  BY <1>1
<1>10. CASE UNCHANGED <<phase, laying>>
  BY <1>1, <1>2, <1>3, <1>4, <1>5, <1>8, <1>9, <1>10, GrownInv
<1>11. CASE /\ nodes'[structmap'[t]].kind = "struct"
            /\ phase' = "layout" /\ laying' = structmap'[t]
  <2>1. laying' \in 0 .. Len(nodes') /\ laying' # 0
    BY <1>3, <1>11
  <2>2. QED
    BY <1>1, <1>2, <1>3, <1>4, <1>5, <1>8, <1>9, <1>11, <2>1, GrownInv
<1>12. QED
  BY <1>1, <1>10, <1>11

\* `typedef b a;': a struct is completed once more, with the body it has.
LEMMA AliasAliasInv ==
  ASSUME IInv, NEW a \in Aliases, NEW b \in Aliases, AliasAlias(a, b)
  PROVE  IInv'
<1> DEFINE ty == typedefmap[b]
           m == Len(nodes)
<1>1. /\ b \in DOMAIN typedefmap /\ UNCHANGED <<bodies, cur, given, unset>>
      /\ typedefmap' = Insert(typedefmap, a, ty)
      /\ IF IsStruct(ty) THEN phase' = "layout" /\ Complete(nodes, ty.node)
         ELSE UNCHANGED <<phase, nodes, structmap, laying>>
  BY DEF AliasAlias
<1>2. phase = "top" /\ tops' \in 0 .. MaxTops
  BY NextTopBound DEF AliasAlias
<1>3. /\ typedefmap \in [DOMAIN typedefmap -> TypesTo(m)] /\ ty \in TypesTo(m)
      /\ m \in Nat /\ Len(bodies) \in Nat
      /\ nodes \in Seq(NodeSet(Len(bodies))) /\ bodies \in Seq(BodySet(m))
      /\ cur \in CurSet(m) /\ laying \in 0 .. m /\ unset \subseteq UnsetSet(m)
      /\ given \in [DOMAIN given -> 0 .. Len(bodies)] /\ DOMAIN given \subseteq Tags
      /\ \A u \in unset : u.reader # "tag"
  BY <1>1, LenProperties DEF IInv, Shapes, TagSizesDecided
<1>4. ty.node # 0 => AliasOK(ty, nodes, structmap, given)
  BY <1>1 DEF IInv, AliasesInv
<1> HIDE DEF ty
<1>5. /\ typedefmap'[a] = ty /\ DOMAIN typedefmap' \subseteq Aliases
      /\ typedefmap' \in [DOMAIN typedefmap' -> TypesTo(m)]
      /\ \A c \in DOMAIN typedefmap' :
           c = a \/ (c \in DOMAIN typedefmap /\ typedefmap'[c] = typedefmap[c])
  BY <1>1, <1>3, AliasInsert
<1>6. CASE ~IsStruct(ty)
  <2>1. UNCHANGED <<phase, nodes, bodies, structmap, laying, cur, given, unset>>
    BY <1>1, <1>6
  <2>2. Grown
    BY <2>1, SameGrown
  <2>3. \A c \in DOMAIN typedefmap' :
           \/ c \in DOMAIN typedefmap /\ typedefmap'[c] = typedefmap[c]
           \/ typedefmap'[c].node # 0 =>
                AliasOK(typedefmap'[c], nodes', structmap', given')
    BY <1>4, <1>5, <2>1
  <2>4. QED
    BY <1>2, <1>3, <1>5, <2>1, <2>2, <2>3, GrownInv
<1>7. CASE IsStruct(ty)
  <2> DEFINE n == ty.node
             t == nodes[n].tag
  <2>1. /\ phase' = "layout" /\ Complete(nodes, n)
        /\ ty.ptr = FALSE /\ n # 0 /\ nodes[n].kind = "struct"
    BY <1>1, <1>3, <1>7 DEF IsStruct, TypesTo
  <2>2. n \in 1 .. m
    BY <1>3, <2>1 DEF TypesTo
  <2>3. /\ t \in Tags /\ t \in DOMAIN structmap
        /\ t \in DOMAIN given /\ given[t] # 0 => nodes[n].body = given[t]
        /\ t \in DOMAIN given \/ structmap[t] = n
    BY <1>4, <2>1 DEF AliasOK
  <2>4. /\ nodes'[n] = nodes[n] /\ DOMAIN structmap' = DOMAIN structmap \cup {t}
        /\ structmap'[t] = structmap[t]
    <3>1. /\ nodes \in Seq(NodeSet(Len(bodies'))) /\ n \in 1 .. Len(nodes)
          /\ Len(nodes) <= Len(nodes) /\ nodes[n].tag \in Tags /\ Complete(nodes, n)
      BY <1>1, <1>3, <2>1, <2>2, <2>3
    <3> HIDE DEF n, m
    <3>2. /\ nodes'[n] = nodes[n] /\ DOMAIN structmap' = DOMAIN structmap \cup {t}
          /\ structmap'[t] = laying' /\ (t \in DOMAIN structmap => laying' = structmap[t])
      BY <3>1, CompleteTable
    <3>3. QED
      BY <2>3, <3>2
  <2>5. AliasOK(ty, nodes', structmap', given')
    BY <1>1, <2>3, <2>4 DEF AliasOK
  <2>6. \A c \in DOMAIN typedefmap' :
           \/ c \in DOMAIN typedefmap /\ typedefmap'[c] = typedefmap[c]
           \/ typedefmap'[c].node # 0 =>
                AliasOK(typedefmap'[c], nodes', structmap', given')
    BY <1>5, <2>5
  <2>7. \A k \in 1 .. Len(nodes) : nodes[k].kind = "struct" => nodes[k].body # 0
    BY DEF IInv, Pending
  <2> HIDE DEF n
  <2>8. QED
    BY <1>1, <1>2, <1>3, <1>5, <2>1, <2>2, <2>3, <2>6, <2>7, CompleteInv
<1>8. QED
  BY <1>6, <1>7

-----------------------------------------------------------------------------
LEMMA LayoutIncompleteInv ==
  ASSUME IInv, LayoutIncomplete
  PROVE  IInv'
<1>1. /\ phase = "layout" /\ phase' = "exit" /\ SeeUnset
      /\ UNCHANGED <<tops, nodes, bodies, structmap, typedefmap, cur, laying, given>>
  BY DEF LayoutIncomplete, Abort
<1>2. Grown
  BY <1>1, SameGrown
<1>3. /\ unset' \subseteq UnsetSet(Len(nodes')) /\ \A u \in unset' : u.reader # "tag"
  BY <1>1, SeeUnsetShaped
<1>4. /\ tops' \in 0 .. MaxTops /\ laying' \in 0 .. Len(nodes')
      /\ cur' \in CurSet(Len(nodes'))
  BY <1>1 DEF IInv, Shapes
<1>5. QED
  BY <1>1, <1>2, <1>3, <1>4, GrownSame

\* A function asks for a size: of a tag's node it is decided or reported missing.
LEMMA SizeOfInv ==
  ASSUME IInv, (\E t \in Tags : SizeOfTag(t)) \/ (\E a \in Aliases : SizeOfAlias(a))
  PROVE  IInv'
<1>1. /\ phase = "top" /\ tops' \in 0 .. MaxTops
      /\ UNCHANGED <<nodes, bodies, structmap, typedefmap, cur, laying, given>>
  BY NextTopBound DEF SizeOfTag, SizeOfAlias
<1>2. Grown
  BY <1>1, SameGrown
<1>3. /\ laying' \in 0 .. Len(nodes') /\ cur' \in CurSet(Len(nodes'))
      /\ unset \subseteq UnsetSet(Len(nodes')) /\ \A u \in unset : u.reader # "tag"
      /\ Len(nodes) \in Nat
  BY <1>1, LenProperties DEF IInv, Shapes, TagSizesDecided
<1>4. ASSUME NEW t \in Tags, SizeOfTag(t)
      PROVE  phase' \in {"top", "exit"} /\ unset' = unset
  <2>1. t \in DOMAIN structmap /\ SizeOf(Type(FALSE, structmap[t]), "tag")
    BY <1>4 DEF SizeOfTag
  <2>2. nodes[structmap[t]].kind = "struct" => nodes[structmap[t]].decided
    BY <1>1, <2>1 DEF IInv, TagsInv, Settled
  <2>3. ~IsUnset(Type(FALSE, structmap[t]))
    BY <2>2 DEF IsUnset, IsStruct, Type
  <2>4. QED
    BY <1>1, <2>1, <2>3 DEF SizeOf
<1>5. ASSUME NEW a \in Aliases, SizeOfAlias(a)
      PROVE  /\ phase' \in {"top", "exit"}
             /\ unset' \subseteq UnsetSet(Len(nodes')) /\ \A u \in unset' : u.reader # "tag"
  <2> DEFINE ty == typedefmap[a]
  <2>1. a \in DOMAIN typedefmap /\ SizeOf(ty, "alias") /\ ty \in TypesTo(Len(nodes))
    BY <1>5 DEF SizeOfAlias, IInv, Shapes
  <2> HIDE DEF ty
  <2>2. CASE IsUnset(ty)
    <3>1. /\ phase' \in {"top", "exit"}
          /\ unset' = unset \/ unset' = unset \cup {[reader |-> "alias", node |-> ty.node]}
      BY <1>1, <2>1, <2>2 DEF SizeOf
    <3>2. ty.node \in 1 .. Len(nodes)
      BY <1>3, <2>1, <2>2 DEF IsUnset, IsStruct, TypesTo
    <3>3. /\ [reader |-> "alias", node |-> ty.node] \in UnsetSet(Len(nodes'))
          /\ [reader |-> "alias", node |-> ty.node].reader # "tag"
      BY <1>1, <3>2 DEF UnsetSet
    <3>4. QED
      BY <1>3, <3>1, <3>3
  <2>3. CASE ~IsUnset(ty)
    BY <1>1, <1>3, <2>1, <2>3 DEF SizeOf
  <2>4. QED
    BY <2>2, <2>3
<1>6. /\ phase' \in {"top", "exit"}
      /\ unset' \subseteq UnsetSet(Len(nodes')) /\ \A u \in unset' : u.reader # "tag"
  BY <1>3, <1>4, <1>5
<1>7. QED
  BY <1>1, <1>2, <1>3, <1>6, GrownSame

LEMMA VariableWithBodyInv ==
  ASSUME IInv, VariableWithBody
  PROVE  IInv'
<1> DEFINE u == [reader |-> "variable", node |-> Len(nodes) + 1]
<1>1. /\ phase = "top" /\ tops' \in 0 .. MaxTops /\ phase' \in {"top", "exit"}
      /\ bodies' = Append(bodies, [fields |-> <<Scalar>>, placed |-> FALSE])
      /\ nodes' = Append(nodes, [kind |-> "struct", tag |-> None,
                                 body |-> Len(bodies) + 1, decided |-> FALSE])
      /\ unset' = unset \cup {u}
      /\ UNCHANGED <<structmap, typedefmap, cur, laying, given>>
  BY NextTopBound DEF VariableWithBody
<1>2. <<Scalar>> \in Seq(TypesTo(Len(nodes)))
  <2>1. Len(nodes) \in Nat
    BY LenProperties DEF IInv, Shapes
  <2>2. Scalar \in TypesTo(Len(nodes))
    BY <2>1 DEF Scalar, TypesTo
  <2>3. QED
    BY <2>2
<1>3. Grown /\ Len(nodes') = Len(nodes) + 1 /\ Len(nodes) \in Nat
  BY <1>1, <1>2, BodyGrown
<1>4. /\ laying' \in 0 .. Len(nodes') /\ cur' \in CurSet(Len(nodes'))
      /\ unset \subseteq UnsetSet(Len(nodes'))
  BY <1>1, <1>3, StillShaped DEF Grown
<1>5. u \in UnsetSet(Len(nodes')) /\ u.reader # "tag"
  BY <1>3 DEF UnsetSet
<1>6. \A v \in unset' : v.reader # "tag"
  BY <1>1, <1>5 DEF IInv, TagSizesDecided
<1>7. unset' \subseteq UnsetSet(Len(nodes'))
  BY <1>1, <1>4, <1>5
<1>8. QED
  BY <1>1, <1>3, <1>4, <1>6, <1>7, GrownSame

-----------------------------------------------------------------------------
LEMMA InitInv == Init => IInv
<1> SUFFICES ASSUME Init PROVE IInv
  OBVIOUS
<1>1. /\ phase = "top" /\ tops = 0 /\ nodes = <<>> /\ bodies = <<>>
      /\ structmap = Empty /\ typedefmap = Empty /\ cur = Idle
      /\ laying = 0 /\ given = Empty /\ unset = {}
  BY DEF Init
<1>2. /\ DOMAIN Empty = {} /\ Empty \in [{} -> 1 .. 0] /\ Empty \in [{} -> 0 .. 0]
      /\ Empty \in [{} -> TypesTo(0)]
  BY DEF Empty
<1>3. /\ <<>> \in Seq(NodeSet(0)) /\ <<>> \in Seq(BodySet(0)) /\ <<>> \in Seq(TypesTo(0))
      /\ Len(nodes) = 0 /\ Len(bodies) = 0
  BY <1>1, EmptySeq
<1>4. Idle \in CurSet(0)
  BY <1>3 DEF Idle, CurSet
<1>5. Shapes
  BY <1>1, <1>2, <1>3, <1>4, BoundsAssumption DEF Shapes
<1>6. Pending /\ TagsInv /\ GivenInv /\ AliasesInv /\ TagSizesDecided
  BY <1>1, <1>2, <1>3 DEF Pending, TagsInv, GivenInv, AliasesInv, TagSizesDecided
<1>7. QED
  BY <1>5, <1>6 DEF IInv

LEMMA NextInv == IInv /\ [Next]_vars => IInv'
<1> SUFFICES ASSUME IInv, [Next]_vars PROVE IInv'
  OBVIOUS
<1>1. CASE FieldScalar \/ FieldNested
  BY <1>1, FieldInv
<1>2. CASE CloseStruct
  BY <1>2, CloseStructInv
<1>3. CASE CloseStructPtr
  BY <1>3, CloseStructPtrInv
<1>4. CASE Layout
  BY <1>4, LayoutInv
<1>5. CASE LayoutIncomplete
  BY <1>5, LayoutIncompleteInv
<1>6. CASE VariableWithBody
  BY <1>6, VariableWithBodyInv
<1>7. CASE \E t \in Tags : BareTag(t) \/ SizeOfTag(t)
  BY <1>7, BareTagInv, SizeOfInv
<1>8. CASE \E t \in Tags, a \in Aliases \cup {None} :
             (a = None \/ a \notin DOMAIN typedefmap) /\ OpenStruct(t, a)
  BY <1>8, OpenStructInv
<1>9. CASE \/ \E t \in Tags, ptr \in BOOLEAN : FieldByTag(t, ptr)
           \/ \E a \in Aliases, ptr \in BOOLEAN : FieldByAlias(a, ptr)
  BY <1>9, FieldInv
<1>10. CASE \E t \in Tags, a \in Aliases, ptr \in BOOLEAN : AliasTag(a, t, ptr)
  BY <1>10, AliasTagInv
<1>11. CASE \E a, b \in Aliases : AliasAlias(a, b)
  BY <1>11, AliasAliasInv
<1>12. CASE \E a \in Aliases : SizeOfAlias(a)
  BY <1>12, SizeOfInv
<1>13. CASE UNCHANGED vars
  BY <1>13 DEF vars, IInv, Shapes, Pending, TagsInv, Settled, GivenInv, AliasesInv,
               AliasOK, TagSizesDecided
<1>14. QED
  BY <1>1, <1>2, <1>3, <1>4, <1>5, <1>6, <1>7, <1>8, <1>9, <1>10, <1>11, <1>12, <1>13
  DEF Next

LEMMA Inductive == Spec => []IInv
BY InitInv, NextInv, PTL DEF Spec

-----------------------------------------------------------------------------
\* Nodes, bodies and maps refer to what exists and every struct has its field vector,
\* whatever is declared in what order.
THEOREM TypeCorrect == Spec => []TypeOK
<1>1. IInv => TypeOK
  <2> SUFFICES ASSUME IInv PROVE TypeOK
    OBVIOUS
  <2>1. TypeSet = TypesTo(Len(nodes))
    BY DEF TypeSet, TypesTo
  <2>2. \A n \in NodeIds :
          nodes[n] \in [kind : {"struct", "incomplete"}, tag : Tags \cup {None},
                       body : 0 .. Len(bodies), decided : BOOLEAN]
    <3>1. \A n \in 1 .. Len(nodes) : nodes[n] \in NodeSet(Len(bodies))
      BY DEF IInv, Shapes
    <3>2. QED
      BY <3>1 DEF NodeIds, NodeSet
  <2>3. \A b \in 1 .. Len(bodies) :
          bodies[b].fields \in Seq(TypeSet) /\ bodies[b].placed \in BOOLEAN
    <3>1. \A b \in 1 .. Len(bodies) : bodies[b] \in BodySet(Len(nodes))
      BY DEF IInv, Shapes
    <3>2. QED
      BY <2>1, <3>1 DEF BodySet
  <2>4. /\ cur.tag \in Tags \cup {None} /\ cur.alias \in Aliases \cup {None}
        /\ cur.fields \in Seq(TypeSet)
    BY <2>1 DEF IInv, Shapes, CurSet
  <2>5. unset \subseteq [reader : {"field", "tag", "alias", "variable"}, node : NodeIds]
    BY DEF IInv, Shapes, UnsetSet, NodeIds
  <2>6. QED
    BY <2>1, <2>2, <2>3, <2>4, <2>5 DEF TypeOK, IInv, Shapes, Pending, NodeIds
<1>2. QED
  BY <1>1, Inductive, PTL

\* However often and wherever a struct is referred to, once it was given its body
\* the table's node has these fields, and from the end of that toplevel on their
\* offsets and its size.
THEOREM StructsComplete == Spec => []GivenIsComplete
<1>1. IInv => GivenIsComplete
  <2> SUFFICES ASSUME IInv, NEW t \in DOMAIN given, given[t] # 0
               PROVE  LET n == nodes[structmap[t]]
                      IN  /\ n.kind = "struct" /\ n.body = given[t]
                          /\ phase = "top" => n.decided /\ bodies[n.body].placed
    BY DEF GivenIsComplete
  <2>1. /\ t \in DOMAIN structmap /\ nodes[structmap[t]].kind = "struct"
        /\ nodes[structmap[t]].body = given[t]
        /\ phase = "top" => bodies[given[t]].placed
    BY DEF IInv, GivenInv, Settled
  <2>2. phase = "top" => nodes[structmap[t]].decided
    BY <2>1 DEF IInv, TagsInv, Settled
  <2>3. QED
    BY <2>1, <2>2
<1>2. QED
  BY <1>1, Inductive, PTL

\* A member found through a typedef name is the one found through the tag, though
\* the name may have a node of its own.
THEOREM FieldsAreShared == Spec => []FieldsShared
<1>1. IInv => FieldsShared
  BY DEF IInv, AliasesInv, AliasOK, FieldsShared
<1>2. QED
  BY <1>1, Inductive, PTL

\* What was declared with a tag first stays the tag's node: references taken before
\* the body see what the body completes.
THEOREM TagsKeepTheirNode == Spec => TagKeepsNode
<1> DEFINE Keeps == \A t \in DOMAIN structmap :
                      t \in DOMAIN structmap' /\ structmap'[t] = structmap[t]
<1>1. ASSUME NEW t \in Tags, Ref(t) PROVE Keeps
  BY <1>1 DEF Ref, Insert
<1>2. ASSUME NEW heap, NEW n, Complete(heap, n) PROVE Keeps
  BY <1>2 DEF Complete, Insert
<1>3. ASSUME [Next]_vars PROVE Keeps
  <2>1. CASE CloseStruct
    BY <1>2, <2>1 DEF CloseStruct
  <2>2. CASE \E t \in Tags : BareTag(t)
    BY <1>1, <2>2 DEF BareTag
  <2>3. CASE \E t \in Tags, ptr \in BOOLEAN : FieldByTag(t, ptr)
    BY <1>1, <2>3 DEF FieldByTag
  <2>4. CASE \E t \in Tags, a \in Aliases, ptr \in BOOLEAN : AliasTag(a, t, ptr)
    BY <1>1, <2>4 DEF AliasTag
  <2>5. CASE \E a, b \in Aliases : AliasAlias(a, b)
    <3>1. PICK a \in Aliases, b \in Aliases : AliasAlias(a, b)
      BY <2>5
    <3>2. Complete(nodes, typedefmap[b].node) \/ structmap' = structmap
      BY <3>1 DEF AliasAlias
    <3>3. QED
      BY <1>2, <3>2
  <2>6. CASE structmap' = structmap
    BY <2>6
  <2>7. QED
    BY <1>3, <2>1, <2>2, <2>3, <2>4, <2>5, <2>6
    DEF Next, vars, FieldScalar, FieldNested, CloseStructPtr, Layout, LayoutIncomplete, Abort,
        VariableWithBody, SizeOfTag, SizeOfAlias, OpenStruct, FieldByAlias
<1>4. QED
  BY <1>3, PTL DEF Spec, TagKeepsNode

-----------------------------------------------------------------------------
(***************************************************************************)
(* structmap and typedefmap are maps of map.c, on the vectors of vector.c. *)
(* For all names, values and capacities such a map never writes outside of *)
(* its memory, holds a name once, and implements NameTable: the tables are *)
(* the partial functions that TypeTable takes them for.                    *)
(***************************************************************************)
MapInv == MapTypeOK /\ NamesDistinct

\* Where a known name is.
LEMMA TableProperties ==
  ASSUME MapInv
  PROVE  /\ \A n : n \in DOMAIN Table <=> Known(n)
         /\ \A i \in Used : Table[data[i].name] = data[i].value
<1>1. \A n : n \in DOMAIN Table <=> Known(n)
  BY DEF Table, Known
<1>2. ASSUME NEW i \in Used
      PROVE  Table[data[i].name] = data[i].value
  <2> DEFINE k == CHOOSE j \in Used : data[j].name = data[i].name
  <2>1. k \in Used /\ data[k].name = data[i].name
    BY <1>2
  <2>2. k = i
    BY <1>2, <2>1 DEF MapInv, NamesDistinct
  <2>3. Table[data[i].name] = data[k].value
    BY <1>2 DEF Table
  <2>4. QED
    BY <2>2, <2>3
<1>3. QED
  BY <1>1, <1>2

\* A push keeps what was in the vector and stays inside of its memory.
LEMMA PushProperties ==
  ASSUME MapTypeOK, NEW pair, Push(pair)
  PROVE  /\ cap' \in Nat \ {0} /\ len' = len + 1 /\ len' \in 0 .. cap'
         /\ DOMAIN data' = 0 .. cap' - 1
         /\ \A i \in Used : data'[i] = data[i]
         /\ data'[len] = pair
<1>1. /\ cap \in Nat \ {0} /\ len \in 0 .. cap
      /\ cap' = Extended /\ len' = len + 1
      /\ data' = [i \in 0 .. Extended - 1 |->
                    IF i = len THEN pair ELSE IF i < cap THEN data[i] ELSE Uninit]
  BY DEF MapTypeOK, Push
<1>2. /\ Extended \in Nat \ {0} /\ len + 1 \in 0 .. Extended
      /\ cap <= Extended
  BY <1>1 DEF Extended
<1>3. DOMAIN data' = 0 .. cap' - 1
  BY <1>1
<1>4. \A i \in Used : data'[i] = data[i]
  BY <1>1, <1>2 DEF Used
<1>5. data'[len] = pair
  BY <1>1, <1>2
<1>6. QED
  BY <1>1, <1>2, <1>3, <1>4, <1>5

-----------------------------------------------------------------------------
LEMMA MapInitInv == MapInit => MapInv
<1>1. SUFFICES ASSUME MapInit PROVE MapInv
  OBVIOUS
<1>2. InitCap \in Nat \ {0}
  BY CapAssumption
<1>3. Used = {}
  BY <1>1 DEF MapInit, Used
<1>4. MapTypeOK
  BY <1>1, <1>2, <1>3 DEF MapInit, MapTypeOK
<1>5. NamesDistinct
  BY <1>3 DEF NamesDistinct
<1>6. QED
  BY <1>4, <1>5 DEF MapInv

\* The step overwrites the value at i, and nothing else.
LEMMA ReplaceProperties ==
  ASSUME MapInv, NEW n \in Names, NEW v \in Values, Replace(n, v)
  PROVE  \E i \in Used :
           /\ data[i].name = n
           /\ data'[i].name = n /\ data'[i].value = v /\ data'[i] \in Pair
           /\ \A j \in Used : j # i => data'[j] = data[j]
           /\ DOMAIN data' = DOMAIN data
           /\ UNCHANGED <<cap, len, Used>> /\ call' = <<"insert", n, v>>
<1>1. PICK i \in Used : IsFirst(i, n) /\ data' = [data EXCEPT ![i].value = v]
  BY DEF Replace
<1>2. /\ data[i].name = n /\ data[i] \in Pair
      /\ Used \subseteq DOMAIN data
  BY <1>1 DEF IsFirst, MapInv, MapTypeOK, Used
<1>3. data'[i] = [data[i] EXCEPT !.value = v]
  BY <1>1, <1>2
<1>4. data'[i].name = n /\ data'[i].value = v /\ data'[i] \in Pair
  BY <1>2, <1>3 DEF Pair
<1>5. \A j \in Used : j # i => data'[j] = data[j]
  BY <1>1, <1>2
<1>6. DOMAIN data' = DOMAIN data
  BY <1>1
<1>7. UNCHANGED <<cap, len, Used>> /\ call' = <<"insert", n, v>>
  BY DEF Replace, Used
<1>8. QED
  BY <1>2, <1>4, <1>5, <1>6, <1>7

LEMMA MapNextInv == MapInv /\ [MapNext]_mapvars => MapInv'
<1>1. SUFFICES ASSUME MapInv, [MapNext]_mapvars PROVE MapInv'
  OBVIOUS
<1>2. MapTypeOK /\ NamesDistinct
  BY <1>1 DEF MapInv
<1>3. ASSUME NEW n \in Names, NEW v \in Values, Replace(n, v)
      PROVE  MapInv'
  <2>1. PICK i \in Used :
           /\ data[i].name = n
           /\ data'[i].name = n /\ data'[i].value = v /\ data'[i] \in Pair
           /\ \A j \in Used : j # i => data'[j] = data[j]
           /\ DOMAIN data' = DOMAIN data
           /\ UNCHANGED <<cap, len, Used>> /\ call' = <<"insert", n, v>>
    BY <1>1, <1>3, ReplaceProperties
  <2>2. \A j \in Used : data'[j].name = data[j].name /\ data'[j] \in Pair
    BY <1>2, <2>1 DEF MapTypeOK
  <2>3. MapTypeOK'
    BY <1>2, <2>1, <2>2 DEF MapTypeOK, Call
  <2>4. NamesDistinct'
    BY <1>2, <2>1, <2>2 DEF NamesDistinct
  <2>5. QED
    BY <2>3, <2>4 DEF MapInv
<1>4. ASSUME NEW n \in Names, NEW v \in Values, Add(n, v)
      PROVE  MapInv'
  <2> DEFINE pair == [name |-> n, value |-> v]
  <2>1. pair \in Pair /\ pair.name = n
    BY DEF Pair
  <2>2. Push(pair) /\ ~Known(n) /\ call' = <<"insert", n, v>>
    BY <1>4 DEF Add
  <2> HIDE DEF pair
  <2>3. /\ cap' \in Nat \ {0} /\ len' = len + 1 /\ len' \in 0 .. cap'
        /\ DOMAIN data' = 0 .. cap' - 1
        /\ \A i \in Used : data'[i] = data[i]
        /\ data'[len] = pair
    BY <1>2, <2>2, PushProperties
  <2>4. len \in Nat /\ Used' = Used \cup {len} /\ len \notin Used
    BY <1>2, <2>3 DEF MapTypeOK, Used
  <2>5. \A i \in Used' : data'[i] \in Pair
    BY <1>2, <2>1, <2>3, <2>4 DEF MapTypeOK
  <2>6. MapTypeOK'
    BY <1>2, <2>2, <2>3, <2>5 DEF MapTypeOK, Call
  <2>7. NamesDistinct'
    <3>1. \A i \in Used : data'[i].name # n
      BY <2>2, <2>3 DEF Known
    <3>2. data'[len].name = n
      BY <2>1, <2>3
    <3>3. \A i, j \in Used : data'[i].name = data'[j].name => i = j
      BY <1>2, <2>3 DEF NamesDistinct
    <3>4. QED
      BY <2>4, <3>1, <3>2, <3>3 DEF NamesDistinct
  <2>8. QED
    BY <2>6, <2>7 DEF MapInv
<1>5. ASSUME NEW n \in Names, Get(n)
      PROVE  MapInv'
  <2>1. UNCHANGED <<data, cap, len, Used>>
    BY <1>5 DEF Get, Used
  <2>2. call' \in Call
    <3>1. ASSUME NEW i \in Used
          PROVE  data[i].value \in Values
      BY <1>2 DEF MapTypeOK, Pair
    <3>2. PICK v \in Values \cup {Null} : call' = <<"get", n, v>>
      BY <1>5, <3>1 DEF Get
    <3>3. QED
      BY <3>2 DEF Call
  <2>3. QED
    BY <1>2, <2>1, <2>2 DEF MapInv, MapTypeOK, NamesDistinct
<1>6. CASE UNCHANGED mapvars
  BY <1>2, <1>6 DEF mapvars, MapInv, MapTypeOK, NamesDistinct, Used
<1>7. QED
  BY <1>1, <1>3, <1>4, <1>5, <1>6 DEF MapNext

LEMMA MapInductive == MapSpec => []MapInv
<1>1. QED
  BY MapInitInv, MapNextInv, PTL DEF MapSpec

\* No push ever writes behind the memory of the vector, and every cell below its
\* length holds a pair that was pushed.
THEOREM MapTypeCorrect == MapSpec => []MapTypeOK
<1>1. MapInv => MapTypeOK
  BY DEF MapInv
<1>2. QED
  BY <1>1, MapInductive, PTL

\* map_insert() never enters a name twice.
THEOREM NamesAreDistinct == MapSpec => []NamesDistinct
<1>1. MapInv => NamesDistinct
  BY DEF MapInv
<1>2. QED
  BY <1>1, MapInductive, PTL

-----------------------------------------------------------------------------
\* Every step of the vector of pairs is a step of the partial function.
LEMMA MapStepSimulation == MapInv /\ MapInv' /\ [MapNext]_mapvars => [Abstract!Next]_<<Table, call>>
<1>1. SUFFICES ASSUME MapInv, MapInv', [MapNext]_mapvars
               PROVE  [Abstract!Next]_<<Table, call>>
  OBVIOUS
<1>2. /\ \A n : n \in DOMAIN Table <=> Known(n)
      /\ \A i \in Used : Table[data[i].name] = data[i].value
  BY <1>1, TableProperties
<1>3. /\ \A n : n \in DOMAIN Table' <=> \E i \in Used' : data'[i].name = n
      /\ \A i \in Used' : Table'[data'[i].name] = data'[i].value
  <2>1. \A n : n \in DOMAIN Table' <=> \E i \in Used' : data'[i].name = n
    BY DEF Table
  <2>2. ASSUME NEW i \in Used'
        PROVE  Table'[data'[i].name] = data'[i].value
    <3> DEFINE k == CHOOSE j \in Used' : data'[j].name = data'[i].name
    <3>1. k \in Used' /\ data'[k].name = data'[i].name
      BY <2>2
    <3>2. k = i
      BY <1>1, <2>2, <3>1 DEF MapInv, NamesDistinct
    <3>3. Table'[data'[i].name] = data'[k].value
      BY <2>2 DEF Table
    <3>4. QED
      BY <3>2, <3>3
  <2>3. QED
    BY <2>1, <2>2
<1>4. ASSUME NEW n \in Names, NEW v \in Values, Replace(n, v)
      PROVE  Abstract!Insert(n, v)
  <2>1. PICK i \in Used :
           /\ data[i].name = n
           /\ data'[i].name = n /\ data'[i].value = v /\ data'[i] \in Pair
           /\ \A j \in Used : j # i => data'[j] = data[j]
           /\ DOMAIN data' = DOMAIN data
           /\ UNCHANGED <<cap, len, Used>> /\ call' = <<"insert", n, v>>
    BY <1>1, <1>4, ReplaceProperties
  <2>2. \A j \in Used : data'[j].name = data[j].name
    BY <2>1
  <2>3. DOMAIN Table' = DOMAIN Table \cup {n}
    <3>1. \A m : (\E j \in Used : data'[j].name = m) <=> (\E j \in Used : data[j].name = m)
      BY <2>2
    <3>2. \A m : m \in DOMAIN Table' <=> m \in DOMAIN Table
      BY <1>2, <1>3, <2>1, <3>1 DEF Known
    <3>3. n \in DOMAIN Table
      BY <1>2, <2>1 DEF Known
    <3>4. QED
      BY <3>2, <3>3
  <2>4. \A m \in DOMAIN Table' : Table'[m] = IF m = n THEN v ELSE Table[m]
    <3>1. SUFFICES ASSUME NEW m \in DOMAIN Table'
                   PROVE  Table'[m] = IF m = n THEN v ELSE Table[m]
      OBVIOUS
    <3>2. PICK j \in Used : data'[j].name = m
      BY <1>3, <2>1
    <3>3. Table'[m] = data'[j].value /\ Table[m] = data[j].value
      BY <1>2, <1>3, <2>1, <2>2, <3>2
    <3>4. CASE j = i
      BY <2>1, <3>2, <3>3, <3>4
    <3>5. CASE j # i
      <4>1. m # n
        BY <1>1, <2>1, <2>2, <3>2, <3>5 DEF MapInv, NamesDistinct
      <4>2. QED
        BY <2>1, <3>3, <3>5, <4>1
    <3>6. QED
      BY <3>4, <3>5
  <2>5. Table' = [m \in DOMAIN Table \cup {n} |-> IF m = n THEN v ELSE Table[m]]
    <3>1. Table' = [m \in DOMAIN Table' |-> Table'[m]]
      BY DEF Table
    <3>2. QED
      BY <2>3, <2>4, <3>1
  <2>6. QED
    BY <2>1, <2>5 DEF Abstract!Insert
<1>5. ASSUME NEW n \in Names, NEW v \in Values, Add(n, v)
      PROVE  Abstract!Insert(n, v)
  <2> DEFINE pair == [name |-> n, value |-> v]
  <2>1. pair.name = n /\ pair.value = v
    OBVIOUS
  <2>2. Push(pair) /\ ~Known(n) /\ call' = <<"insert", n, v>>
    BY <1>5 DEF Add
  <2> HIDE DEF pair
  <2>3. /\ len' = len + 1
        /\ \A i \in Used : data'[i] = data[i]
        /\ data'[len] = pair
    BY <1>1, <2>2, PushProperties DEF MapInv
  <2>4. len \in Nat /\ Used' = Used \cup {len}
    BY <1>1, <2>3 DEF MapInv, MapTypeOK, Used
  <2>5. DOMAIN Table' = DOMAIN Table \cup {n}
    <3>1. \A m : (\E j \in Used' : data'[j].name = m) <=> Known(m) \/ m = n
      BY <2>1, <2>3, <2>4 DEF Known
    <3>2. \A m : m \in DOMAIN Table' <=> m \in DOMAIN Table \/ m = n
      BY <1>2, <1>3, <3>1
    <3>3. QED
      BY <3>2
  <2>6. Table'[n] = v
    BY <1>3, <2>1, <2>3, <2>4
  <2>7. \A m \in DOMAIN Table : Table'[m] = Table[m]
    BY <1>2, <1>3, <2>3, <2>4 DEF Known
  <2>8. \A m \in DOMAIN Table' : Table'[m] = IF m = n THEN v ELSE Table[m]
    BY <2>5, <2>6, <2>7
  <2>9. Table' = [m \in DOMAIN Table \cup {n} |-> IF m = n THEN v ELSE Table[m]]
    <3>1. Table' = [m \in DOMAIN Table' |-> Table'[m]]
      BY DEF Table
    <3>2. QED
      BY <2>5, <2>8, <3>1
  <2>10. QED
    BY <2>2, <2>9 DEF Abstract!Insert
<1>6. ASSUME NEW n \in Names, Get(n)
      PROVE  Abstract!Get(n)
  <2>1. UNCHANGED Table
    BY <1>6 DEF Get, Table, Used
  <2>2. call' = <<"get", n, IF n \in DOMAIN Table THEN Table[n] ELSE Null>>
    <3>1. ASSUME NEW i \in Used, IsFirst(i, n)
          PROVE  n \in DOMAIN Table /\ data[i].value = Table[n]
      BY <1>2, <3>1 DEF IsFirst, Known
    <3>2. QED
      BY <1>2, <1>6, <3>1 DEF Get
  <2>3. QED
    BY <2>1, <2>2 DEF Abstract!Get
<1>7. CASE UNCHANGED mapvars
  BY <1>7 DEF mapvars, Table, Used
<1>8. QED
  BY <1>1, <1>4, <1>5, <1>6, <1>7 DEF MapNext, Abstract!Next

LEMMA MapInitSimulation == MapInit => Abstract!Init
<1>1. SUFFICES ASSUME MapInit PROVE Abstract!Init
  OBVIOUS
<1>2. Used = {} /\ call = <<>>
  BY <1>1 DEF MapInit, Used
<1>3. Table = [n \in {} |-> Null]
  BY <1>2 DEF Table
<1>4. QED
  BY <1>2, <1>3 DEF Abstract!Init

\* map.c implements the partial function NameTable: growth of the vector is not
\* seen, and replacing one name's value leaves every other lookup as it was.
THEOREM MapRefinement == MapSpec => IsNameTable
<1>1. QED
  BY MapInitInv, MapNextInv, MapInitSimulation, MapStepSimulation, PTL
  DEF MapSpec, IsNameTable, Abstract!Spec
=============================================================================
