---------------------------- MODULE StructLayout ----------------------------
(***************************************************************************)
(* How semantic.c lays a struct out: the TOP_STRUCT arm of                 *)
(* semantic_analysis_toplevel(), one struct after the other.               *)
(*                                                                         *)
(* The fields are put into chunks of maxalign bytes.  alignsize says how   *)
(* much of the current chunk is used; a field that does not fit any more   *)
(* opens a new one.  A type is what getalign() and typesize() say of it.   *)
(***************************************************************************)
EXTENDS Integers, Sequences, FiniteSets

CONSTANTS
  Base,         \* the types that are no structs, as [size, align]
  Lengths,      \* sizes of arrays
  MaxStructs,   \* bound: structs of one compilation
  MaxFields     \* bound: fields of one struct

ASSUME BaseAssumption == Base \subseteq [size : Nat \ {0}, align : Nat \ {0}]
ASSUME LengthsAssumption == Lengths \subseteq Nat
ASSUME LayoutBounds == MaxStructs \in Nat /\ MaxFields \in Nat

VARIABLES
  phase,        \* "parse" the fields, or "place" them
  fields,       \* the types of the fields of this struct
  offsets,      \* field->offset of those placed so far
  maxalign, alignsize, structsize,
  structs       \* the structs laid out: fields, offsets, structsize, maxalign

vars == <<phase, fields, offsets, maxalign, alignsize, structsize, structs>>

\* Types a field may be declared with.
Known == Base \cup {[size |-> structs[k].size, align |-> structs[k].align] :
                      k \in 1 .. Len(structs)}

\* TYPE_ARRAY: size and alignment both grow with the number of elements.
Array(t, n) == [size |-> t.size * n, align |-> t.align * n]

\* Mutant: only the first field is looked at.
IsFirstAlign(m) ==
  IF fields = <<>> THEN m = 0 ELSE m = fields[1].align

\* The first loop: the largest alignment of the fields, 0 when there are none.
IsMaxAlign(m) ==
  /\ \A k \in 1 .. Len(fields) : fields[k].align <= m
  /\ m = 0 \/ \E k \in 1 .. Len(fields) : fields[k].align = m

\* Mutant: the operands are swapped.
RestSwapped == (alignsize % maxalign) - maxalign

\* What is left of a chunk, a whole one when it is empty or just full.
Rest == maxalign - (alignsize % maxalign)

-----------------------------------------------------------------------------
\* parse_struct_body(), one field.
AddField(t) ==
  /\ phase = "parse"
  /\ Len(fields) < MaxFields
  /\ Len(structs) < MaxStructs
  /\ \/ fields' = Append(fields, t)
     \/ \E n \in Lengths : fields' = Append(fields, Array(t, n))
  /\ UNCHANGED <<phase, offsets, maxalign, alignsize, structsize, structs>>

StartLayout ==
  /\ phase = "parse"
  /\ Len(structs) < MaxStructs
  /\ phase' = "place"
  /\ \E m \in {0} \cup {fields[k].align : k \in 1 .. Len(fields)} :
       IsMaxAlign(m) /\ maxalign' = m
  /\ alignsize' = 0 /\ structsize' = 0
  /\ offsets' = <<>>
  /\ UNCHANGED <<fields, structs>>

\* Mutant: the padding is not added to the size.
PlaceAtUnpadded(offset, used) ==
  LET size == fields[Len(offsets) + 1].size
  IN  /\ offsets' = Append(offsets, offset)
      /\ structsize' = structsize + size
      /\ alignsize' = used + size
      /\ UNCHANGED <<phase, fields, maxalign, structs>>

\* One turn of the second loop puts the next field at `offset' with `used' bytes
\* of its chunk before it.
PlaceAt(offset, used) ==
  LET size == fields[Len(offsets) + 1].size
  IN  /\ offsets' = Append(offsets, offset)
      /\ structsize' = offset + size
      /\ alignsize' = used + size
      /\ UNCHANGED <<phase, fields, maxalign, structs>>

Placing == phase = "place" /\ Len(offsets) < Len(fields)

NextSize == fields[Len(offsets) + 1].size

\* The chunk is exactly full: the next one begins here.
PlaceInNext ==
  /\ Placing
  /\ alignsize = maxalign
  /\ PlaceAt(structsize, 0)

\* Mutant: a new chunk is counted but no padding made.
PlaceWithoutPadding ==
  /\ Placing
  /\ alignsize # maxalign
  /\ alignsize + NextSize > maxalign
  /\ PlaceAt(structsize, 0)

\* The field does not fit: the rest of the chunk is padding.
PlaceAfterPadding ==
  /\ Placing
  /\ alignsize # maxalign
  /\ alignsize + NextSize > maxalign
  /\ PlaceAt(structsize + Rest, 0)

\* Mutant: a field goes into any chunk that is not full.
PlaceInAnyRest ==
  /\ Placing
  /\ alignsize < maxalign
  /\ PlaceAt(structsize, alignsize)

PlaceInThis ==
  /\ Placing
  /\ alignsize # maxalign
  /\ alignsize + NextSize <= maxalign
  /\ PlaceAt(structsize, alignsize)

\* Mutant: no padding after the last field.
DecideUnpadded ==
  /\ phase = "place"
  /\ Len(offsets) = Len(fields)
  /\ structs' = Append(structs, [fields |-> fields, offsets |-> offsets,
                                 size |-> structsize, align |-> maxalign])
  /\ phase' = "parse"
  /\ fields' = <<>>
  /\ UNCHANGED <<offsets, maxalign, alignsize, structsize>>

\* After the loop: the last chunk is padded and the type node filled in.
Decide ==
  /\ phase = "place"
  /\ Len(offsets) = Len(fields)
  /\ structsize' = IF alignsize # maxalign THEN structsize + Rest ELSE structsize
  /\ structs' = Append(structs, [fields |-> fields, offsets |-> offsets,
                                 size |-> structsize', align |-> maxalign])
  /\ phase' = "parse"
  /\ fields' = <<>>
  /\ UNCHANGED <<offsets, maxalign, alignsize>>

-----------------------------------------------------------------------------
Init ==
  /\ phase = "parse"
  /\ fields = <<>> /\ offsets = <<>> /\ structs = <<>>
  /\ maxalign = 0 /\ alignsize = 0 /\ structsize = 0

Next ==
  \/ \E t \in Known : AddField(t)
  \/ StartLayout \/ PlaceInNext \/ PlaceAfterPadding \/ PlaceInThis \/ Decide

Spec == Init /\ [][Next]_vars

-----------------------------------------------------------------------------
Type == [size : Nat, align : Nat]
Layout == [fields : Seq(Type), offsets : Seq(Nat), size : Nat, align : Nat]

TypeOK ==
  /\ phase \in {"parse", "place"}
  /\ fields \in Seq(Type)
  /\ offsets \in Seq(Nat)
  /\ maxalign \in Nat /\ alignsize \in Nat /\ structsize \in Nat
  /\ structs \in Seq(Layout)

\* The fields of a struct share no byte, come in the order they are declared in,
\* and lie within its size: an assignment to one changes no other, nor what
\* follows the struct in a frame or an array.
FieldsApart ==
  \A k \in 1 .. Len(structs) :
    LET s == structs[k]
    IN  /\ Len(s.offsets) = Len(s.fields)
        /\ \A i, j \in 1 .. Len(s.fields) :
             i < j => s.offsets[i] + s.fields[i].size <= s.offsets[j]
        /\ \A i \in 1 .. Len(s.fields) : s.offsets[i] + s.fields[i].size <= s.size

\* The remainder by maxalign is never taken with maxalign 0, though a struct of
\* empty arrays and empty structs has that alignment.
DivisorPositive ==
  phase = "place" /\ maxalign = 0 =>
    /\ alignsize = 0
    /\ \A k \in 1 .. Len(fields) : fields[k].size = 0

\* The size is a multiple of the alignment, so that the elements of an array of
\* structs begin a chunk each.
SizeRounded ==
  \A k \in 1 .. Len(structs) :
    structs[k].align > 0 => structs[k].size % structs[k].align = 0

\* A field that fits into a chunk never straddles two; a longer one begins a chunk.
NoStraddle ==
  \A k \in 1 .. Len(structs) :
    LET s == structs[k]
    IN  s.align > 0 =>
          \A i \in 1 .. Len(s.fields) :
            LET used == s.offsets[i] % s.align
            IN  used = 0 \/ used + s.fields[i].size <= s.align

\* The first multiple of m from n on.
RoundUp(n, m) == CHOOSE k \in n .. n + m - 1 : k % m = 0

\* A struct of scalars, each no larger than the one before it or as large as any.
Regular(s) ==
  /\ s.fields # <<>>
  /\ \A i \in 1 .. Len(s.fields) :
       /\ s.fields[i] \in Base /\ s.fields[i].size = s.fields[i].align
       /\ i = 1 \/ s.fields[i].size <= s.fields[i - 1].size \/ s.fields[i].size = s.align

\* sncc and gcc agree on such a struct, as test.c and the gcc-compiled sncclib.c need of
\* those they share (ptrint, incom): each field is at the first offset after the one
\* before that its alignment allows, and so is the end.  They do not agree on all
\* structs: after a char, an int is at offset 1 if a pointer follows.
AgreesWithAbi ==
  \A k \in 1 .. Len(structs) :
    LET s == structs[k]
        end(i) == IF i = 0 THEN 0 ELSE s.offsets[i] + s.fields[i].size
    IN  Regular(s) =>
          /\ \A i \in 1 .. Len(s.fields) : s.offsets[i] = RoundUp(end(i - 1), s.fields[i].align)
          /\ s.size = RoundUp(end(Len(s.fields)), s.align)
=============================================================================
