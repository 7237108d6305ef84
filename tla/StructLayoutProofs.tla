------------------------- MODULE StructLayoutProofs -------------------------
(***************************************************************************)
(* For all scalar types, array lengths and numbers of fields: the fields   *)
(* of a struct are disjoint and inside of it, no field that fits into a    *)
(* chunk straddles two, the size is a multiple of the alignment, and the   *)
(* remainder is never taken by zero.                                       *)
(*                                                                         *)
(* The argument is that structsize and alignsize always differ by whole    *)
(* chunks, and that only empty fields have alignment 0.                    *)
(***************************************************************************)
EXTENDS StructLayout, TLAPS, SequenceTheorems

\* The size s ends a bytes into a chunk of m.
Congruent(s, a, m) == \E q \in Nat : s = q * m + a

\* A field of size s at offset o straddles no two chunks of m that it could avoid.
Chunked(o, s, m) ==
  \E q \in Nat, u \in Nat : o = q * m + u /\ (u = 0 \/ u + s <= m)

\* The first fields of fs are placed at os, within s bytes and chunks of m.
Placed(fs, os, s, m) ==
  /\ Len(os) <= Len(fs)
  /\ \A i \in 1 .. Len(os) : os[i] + fs[i].size <= s
  /\ \A i, j \in 1 .. Len(os) : i < j => os[i] + fs[i].size <= os[j]
  /\ \A i \in 1 .. Len(os) : Chunked(os[i], fs[i].size, m)

\* Only an empty type has alignment 0.
EmptyUnaligned(t) == t.align = 0 => t.size = 0

Whole(s) ==
  /\ Len(s.offsets) = Len(s.fields)
  /\ Placed(s.fields, s.offsets, s.size, s.align)
  /\ Congruent(s.size, 0, s.align)
  /\ EmptyUnaligned(s)

LayoutInv ==
  /\ \A k \in 1 .. Len(fields) : EmptyUnaligned(fields[k])
  /\ phase = "place" =>
       /\ \A k \in 1 .. Len(fields) : fields[k].align <= maxalign
       /\ Placed(fields, offsets, structsize, maxalign)
       /\ Congruent(structsize, alignsize, maxalign)
       /\ maxalign = 0 => alignsize = 0 /\ structsize = 0
  /\ \A k \in 1 .. Len(structs) : Whole(structs[k])

IInv == TypeOK /\ LayoutInv

-----------------------------------------------------------------------------
\* Arithmetic.

\* What is left of a chunk is positive and fills it up.
LEMMA Padding ==
  ASSUME NEW m \in Nat \ {0}, NEW a \in Nat
  PROVE  /\ m - (a % m) \in 1 .. m
         /\ \E q \in Nat : a + (m - (a % m)) = q * m
<1>1. a % m \in 0 .. m - 1 /\ a \div m \in Nat
  OBVIOUS
<1>2. a = m * (a \div m) + (a % m)
  OBVIOUS
<1>3. \A d \in Nat : m * d + m = (d + 1) * m
  OBVIOUS
<1>4. m * (a \div m) \in Nat
  BY <1>1
<1>5. a + (m - (a % m)) = ((a \div m) + 1) * m
  BY <1>1, <1>2, <1>3, <1>4
<1>6. (a \div m) + 1 \in Nat
  BY <1>1
<1>7. \E q \in Nat : a + (m - (a % m)) = q * m
  BY <1>5, <1>6
<1>8. m - (a % m) \in 1 .. m
  BY <1>1
<1>9. QED
  BY <1>7, <1>8

LEMMA Distributes ==
  ASSUME NEW m \in Nat, NEW q \in Nat, NEW p \in Nat
  PROVE  q * m + p * m = (q + p) * m /\ q * m \in Nat
  OBVIOUS

LEMMA Remainder ==
  ASSUME NEW m \in Nat \ {0}, NEW q \in Nat, NEW u \in 0 .. m - 1
  PROVE  (q * m + u) % m = u
  OBVIOUS

\* Padding by the rest of the chunk makes the size a multiple of the chunk.
LEMMA PaddedSize ==
  ASSUME NEW m \in Nat \ {0}, NEW a \in Nat, NEW s \in Nat, Congruent(s, a, m)
  PROVE  /\ s + (m - (a % m)) \in Nat
         /\ s < s + (m - (a % m))
         /\ Congruent(s + (m - (a % m)), 0, m)
<1>1. PICK q \in Nat : s = q * m + a
  BY DEF Congruent
<1> DEFINE r == m - (a % m)
<1>2. r \in 1 .. m
  BY Padding
<1>3. PICK p \in Nat : a + r = p * m
  BY Padding
<1> HIDE DEF r
<1>4. q * m \in Nat /\ q * m + p * m = (q + p) * m /\ q + p \in Nat
  BY Distributes
<1>5. s + r = (q + p) * m + 0
  BY <1>1, <1>2, <1>3, <1>4
<1>6. s + r \in Nat /\ s < s + r /\ Congruent(s + r, 0, m)
  BY <1>2, <1>4, <1>5 DEF Congruent
<1>7. QED
  BY <1>6 DEF r

-----------------------------------------------------------------------------
\* One more field at offset o, which lies `used' bytes into a chunk.
LEMMA OneMorePlaced ==
  ASSUME NEW fs \in Seq(Type), NEW os \in Seq(Nat), NEW s \in Nat, NEW m \in Nat,
         NEW o \in Nat, NEW used \in Nat,
         Placed(fs, os, s, m), Len(os) < Len(fs), o >= s, Congruent(o, used, m),
         used = 0 \/ used + fs[Len(os) + 1].size <= m
  PROVE  /\ Placed(fs, Append(os, o), o + fs[Len(os) + 1].size, m)
         /\ Congruent(o + fs[Len(os) + 1].size, used + fs[Len(os) + 1].size, m)
<1> DEFINE n == Len(os)
           size == fs[n + 1].size
           os2 == Append(os, o)
<1>1. n \in Nat /\ Len(fs) \in Nat /\ n + 1 \in 1 .. Len(fs)
  BY LenProperties
<1>2. fs[n + 1] \in Type
  BY <1>1
<1>3. size \in Nat /\ \A i \in 1 .. n : fs[i].size \in Nat
  <2>1. \A i \in 1 .. n : fs[i] \in Type
    BY <1>1
  <2>2. QED
    BY <1>2, <2>1 DEF Type
<1>4. /\ Len(os2) = n + 1
      /\ \A i \in 1 .. n : os2[i] = os[i] /\ os[i] \in Nat
      /\ os2[n + 1] = o
  BY AppendProperties
<1>5. PICK q \in Nat : o = q * m + used
  BY DEF Congruent
<1>6. q * m \in Nat
  BY Distributes
<1>7. Chunked(o, size, m)
  BY <1>5 DEF Chunked
<1> HIDE DEF n, size, os2
<1>8. \A i \in 1 .. n + 1 : i \in 1 .. n \/ i = n + 1
  BY <1>1
<1>9. \A i \in 1 .. n : /\ os[i] + fs[i].size <= o
                        /\ Chunked(os[i], fs[i].size, m)
  BY <1>1, <1>3, <1>4 DEF Placed, n
<1>10. \A i \in 1 .. n + 1 : os2[i] + fs[i].size <= o + size
  <2>1. \A i \in 1 .. n : os2[i] + fs[i].size <= o + size
    BY <1>3, <1>4, <1>9
  <2>2. os2[n + 1] + fs[n + 1].size <= o + size
    BY <1>3, <1>4 DEF size
  <2>3. QED
    BY <1>8, <2>1, <2>2
<1>11. \A i, j \in 1 .. n + 1 : i < j => os2[i] + fs[i].size <= os2[j]
  <2>1. SUFFICES ASSUME NEW i \in 1 .. n + 1, NEW j \in 1 .. n + 1, i < j
                 PROVE  os2[i] + fs[i].size <= os2[j]
    OBVIOUS
  <2>2. i \in 1 .. n
    BY <1>1, <2>1
  <2>3. CASE j = n + 1
    BY <1>4, <1>9, <2>2, <2>3
  <2>4. CASE j \in 1 .. n
    BY <1>4, <2>1, <2>2, <2>4 DEF Placed, n
  <2>5. QED
    BY <1>8, <2>3, <2>4
<1>12. \A i \in 1 .. n + 1 : Chunked(os2[i], fs[i].size, m)
  BY <1>4, <1>7, <1>8, <1>9 DEF size
<1>13. Congruent(o + size, used + size, m)
  <2>1. o + size = q * m + (used + size)
    BY <1>3, <1>5, <1>6
  <2>2. QED
    BY <2>1 DEF Congruent
<1>14. Placed(fs, os2, o + size, m)
  BY <1>1, <1>4, <1>10, <1>11, <1>12 DEF Placed
<1>15. QED
  BY <1>13, <1>14 DEF n, size, os2

\* The padding at the end.
LEMMA MoreSpace ==
  ASSUME NEW fs \in Seq(Type), NEW os \in Seq(Nat), NEW m \in Nat,
         NEW s \in Nat, NEW s2 \in Nat, s <= s2, Placed(fs, os, s, m)
  PROVE  Placed(fs, os, s2, m)
<1>1. \A i \in 1 .. Len(os) : os[i] \in Nat /\ fs[i].size \in Nat
  <2>1. Len(os) \in Nat /\ Len(fs) \in Nat /\ Len(os) <= Len(fs)
    BY LenProperties DEF Placed
  <2>2. \A i \in 1 .. Len(os) : fs[i] \in Type /\ os[i] \in Nat
    BY <2>1
  <2>3. QED
    BY <2>2 DEF Type
<1>2. \A i \in 1 .. Len(os) : os[i] + fs[i].size <= s2
  BY <1>1 DEF Placed
<1>3. QED
  BY <1>2 DEF Placed

-----------------------------------------------------------------------------
\* A type a field can have.
LEMMA KnownTypes ==
  ASSUME IInv, NEW t \in Known
  PROVE  t \in Type /\ EmptyUnaligned(t)
<1>1. CASE t \in Base
  <2>1. t \in [size : Nat \ {0}, align : Nat \ {0}]
    BY <1>1, BaseAssumption
  <2>2. QED
    BY <2>1 DEF Type, EmptyUnaligned
<1>2. ASSUME NEW k \in 1 .. Len(structs),
             t = [size |-> structs[k].size, align |-> structs[k].align]
      PROVE  t \in Type /\ EmptyUnaligned(t)
  <2>1. structs[k] \in Layout /\ Whole(structs[k])
    BY DEF IInv, TypeOK, LayoutInv
  <2>2. structs[k].size \in Nat /\ structs[k].align \in Nat
    BY <2>1 DEF Layout
  <2>3. t.size = structs[k].size /\ t.align = structs[k].align
    BY <1>2
  <2>4. QED
    BY <1>2, <2>1, <2>2, <2>3 DEF Type, Whole, EmptyUnaligned
<1>3. QED
  BY <1>1, <1>2 DEF Known

\* An array is no larger an exception than its elements.
LEMMA ArrayTypes ==
  ASSUME NEW t \in Type, EmptyUnaligned(t), NEW n \in Nat
  PROVE  Array(t, n) \in Type /\ EmptyUnaligned(Array(t, n))
<1> DEFINE a == Array(t, n)
<1>1. t.size \in Nat /\ t.align \in Nat
  BY DEF Type
<1>2. a.size = t.size * n /\ a.align = t.align * n
  BY DEF Array
<1>3. t.size * n \in Nat /\ t.align * n \in Nat
  BY <1>1, Distributes
<1>4. a \in Type
  BY <1>3 DEF Array, Type
<1>5. t.align * n = 0 => t.size * n = 0
  <2>1. t.align * n = 0 => t.align = 0 \/ n = 0
    BY <1>1
  <2>2. 0 * n = 0 /\ t.size * 0 = 0
    BY <1>1
  <2>3. QED
    BY <2>1, <2>2 DEF EmptyUnaligned
<1>6. QED
  BY <1>2, <1>4, <1>5 DEF EmptyUnaligned

LEMMA AddFieldInv ==
  ASSUME IInv, NEW t \in Known, AddField(t)
  PROVE  IInv'
<1>1. TypeOK /\ LayoutInv
  BY DEF IInv
<1>2. PICK f \in Type : EmptyUnaligned(f) /\ fields' = Append(fields, f)
  <2>1. t \in Type /\ EmptyUnaligned(t)
    BY KnownTypes
  <2>2. CASE fields' = Append(fields, t)
    BY <2>1, <2>2
  <2>3. ASSUME NEW n \in Lengths, fields' = Append(fields, Array(t, n))
        PROVE  \E f \in Type : EmptyUnaligned(f) /\ fields' = Append(fields, f)
    <3>1. n \in Nat
      BY LengthsAssumption
    <3>2. Array(t, n) \in Type /\ EmptyUnaligned(Array(t, n))
      BY <2>1, <3>1, ArrayTypes
    <3>3. QED
      BY <2>3, <3>2
  <2>4. QED
    BY <2>2, <2>3 DEF AddField
<1>3. /\ fields' \in Seq(Type) /\ Len(fields) \in Nat /\ Len(fields') = Len(fields) + 1
      /\ \A k \in 1 .. Len(fields) : fields'[k] = fields[k]
      /\ fields'[Len(fields) + 1] = f
  BY <1>1, <1>2, AppendProperties DEF TypeOK
<1>4. phase' = "parse" /\ UNCHANGED <<offsets, maxalign, alignsize, structsize, structs>>
  BY DEF AddField
<1>5. \A k \in 1 .. Len(fields') : EmptyUnaligned(fields'[k])
  <2>1. \A k \in 1 .. Len(fields) + 1 : k \in 1 .. Len(fields) \/ k = Len(fields) + 1
    BY <1>3
  <2>2. QED
    BY <1>1, <1>2, <1>3, <2>1 DEF LayoutInv
<1>6. TypeOK'
  BY <1>1, <1>3, <1>4 DEF TypeOK
<1>7. LayoutInv'
  BY <1>1, <1>4, <1>5 DEF LayoutInv
<1>8. QED
  BY <1>6, <1>7 DEF IInv

LEMMA StartLayoutInv ==
  ASSUME IInv, StartLayout
  PROVE  IInv'
<1>1. TypeOK /\ LayoutInv
  BY DEF IInv
<1>2. /\ phase' = "place" /\ alignsize' = 0 /\ structsize' = 0 /\ offsets' = <<>>
      /\ UNCHANGED <<fields, structs>>
  BY DEF StartLayout
<1>3. PICK m \in {0} \cup {fields[k].align : k \in 1 .. Len(fields)} :
        IsMaxAlign(m) /\ maxalign' = m
  BY DEF StartLayout
<1>4. m \in Nat
  <2>1. \A k \in 1 .. Len(fields) : fields[k] \in Type
    BY <1>1 DEF TypeOK
  <2>2. QED
    BY <1>3, <2>1 DEF Type
<1>5. <<>> \in Seq(Nat) /\ Len(<<>>) = 0 /\ Len(fields) \in Nat
  BY <1>1, EmptySeq, LenProperties DEF TypeOK
<1>6. TypeOK'
  BY <1>1, <1>2, <1>3, <1>4, <1>5 DEF TypeOK
<1>7. Placed(fields, <<>>, 0, m)
  BY <1>5 DEF Placed
<1>8. Congruent(0, 0, m)
  <2>1. 0 = 0 * m + 0
    BY <1>4
  <2>2. QED
    BY <2>1 DEF Congruent
<1>9. \A k \in 1 .. Len(fields) : fields[k].align <= m
  BY <1>3 DEF IsMaxAlign
<1>10. LayoutInv'
  BY <1>1, <1>2, <1>3, <1>7, <1>8, <1>9 DEF LayoutInv
<1>11. QED
  BY <1>6, <1>10 DEF IInv

\* What the three branches of the loop have in common.
LEMMA PlaceAtInv ==
  ASSUME IInv, Placing, NEW o \in Nat, NEW used \in Nat, PlaceAt(o, used),
         o >= structsize, Congruent(o, used, maxalign),
         used = 0 \/ used + NextSize <= maxalign,
         maxalign = 0 => o = 0 /\ used = 0
  PROVE  IInv'
<1>1. TypeOK /\ LayoutInv
  BY DEF IInv
<1>2. /\ fields \in Seq(Type) /\ offsets \in Seq(Nat) /\ structsize \in Nat
      /\ maxalign \in Nat
      /\ Placed(fields, offsets, structsize, maxalign) /\ Len(offsets) < Len(fields)
  BY <1>1 DEF TypeOK, LayoutInv, Placing
<1>3. /\ offsets' = Append(offsets, o)
      /\ structsize' = o + NextSize /\ alignsize' = used + NextSize
      /\ UNCHANGED <<phase, fields, maxalign, structs>>
  BY DEF PlaceAt, NextSize
<1>4. /\ Placed(fields, offsets', structsize', maxalign)
      /\ Congruent(structsize', alignsize', maxalign)
  BY <1>2, <1>3, OneMorePlaced DEF NextSize
<1>5. /\ Len(offsets) + 1 \in 1 .. Len(fields)
      /\ fields[Len(offsets) + 1] \in Type
  <2>1. Len(offsets) \in Nat /\ Len(fields) \in Nat
    BY <1>2, LenProperties
  <2>2. Len(offsets) + 1 \in 1 .. Len(fields)
    BY <1>2, <2>1
  <2>3. QED
    BY <1>2, <2>2
<1>6. NextSize \in Nat
  BY <1>5 DEF NextSize, Type
<1>7. maxalign = 0 => NextSize = 0
  <2>1. ASSUME maxalign = 0 PROVE NextSize = 0
    <3>1. fields[Len(offsets) + 1].align <= 0 /\ fields[Len(offsets) + 1].align \in Nat
      BY <1>1, <1>5, <2>1 DEF LayoutInv, Placing, Type
    <3>2. EmptyUnaligned(fields[Len(offsets) + 1])
      BY <1>1, <1>5 DEF LayoutInv
    <3>3. QED
      BY <3>1, <3>2 DEF NextSize, EmptyUnaligned
  <2>2. QED
    BY <2>1
<1>8. TypeOK'
  <2>1. offsets' \in Seq(Nat)
    BY <1>2, <1>3, AppendProperties
  <2>2. QED
    BY <1>1, <1>3, <1>6, <2>1 DEF TypeOK
<1>9. LayoutInv'
  BY <1>1, <1>3, <1>4, <1>6, <1>7 DEF LayoutInv
<1>10. QED
  BY <1>8, <1>9 DEF IInv

LEMMA PlaceInv ==
  ASSUME IInv, PlaceInNext \/ PlaceAfterPadding \/ PlaceInThis
  PROVE  IInv'
<1>1. Placing /\ phase = "place" /\ TypeOK /\ LayoutInv
  BY DEF IInv, PlaceInNext, PlaceAfterPadding, PlaceInThis, Placing
<1>2. /\ maxalign \in Nat /\ alignsize \in Nat /\ structsize \in Nat
      /\ Congruent(structsize, alignsize, maxalign)
      /\ maxalign = 0 => alignsize = 0 /\ structsize = 0
  BY <1>1 DEF TypeOK, LayoutInv
<1>3. CASE PlaceInNext
  <2>1. PICK q \in Nat : structsize = q * maxalign + alignsize
    BY <1>2 DEF Congruent
  <2>2. alignsize = maxalign /\ PlaceAt(structsize, 0)
    BY <1>3 DEF PlaceInNext
  <2>3. q * maxalign + maxalign = (q + 1) * maxalign
    BY <1>2, Distributes
  <2>4. structsize = (q + 1) * maxalign + 0 /\ q + 1 \in Nat
    BY <1>2, <2>1, <2>2, <2>3
  <2>5. Congruent(structsize, 0, maxalign)
    BY <2>4 DEF Congruent
  <2>6. QED
    BY <1>1, <1>2, <2>2, <2>5, PlaceAtInv
<1>4. CASE PlaceAfterPadding
  <2>1. alignsize # maxalign /\ PlaceAt(structsize + Rest, 0)
    BY <1>4 DEF PlaceAfterPadding
  <2>2. maxalign \in Nat \ {0}
    BY <1>2, <2>1
  <2>3. /\ structsize + Rest \in Nat
        /\ structsize < structsize + Rest
        /\ Congruent(structsize + Rest, 0, maxalign)
    BY <1>2, <2>2, PaddedSize DEF Rest
  <2>4. structsize + Rest >= structsize
    BY <1>2, <2>3
  <2>5. QED
    BY <1>1, <1>2, <2>1, <2>2, <2>3, <2>4, PlaceAtInv
<1>5. CASE PlaceInThis
  <2>1. alignsize + NextSize <= maxalign /\ PlaceAt(structsize, alignsize)
    BY <1>5 DEF PlaceInThis
  <2>2. structsize >= structsize
    BY <1>2
  <2>3. QED
    BY <1>1, <1>2, <2>1, <2>2, PlaceAtInv
<1>6. QED
  BY <1>3, <1>4, <1>5

LEMMA DecideInv ==
  ASSUME IInv, Decide
  PROVE  IInv'
<1> DEFINE s == [fields |-> fields, offsets |-> offsets,
                 size |-> structsize', align |-> maxalign]
<1>1. TypeOK /\ LayoutInv
  BY DEF IInv
<1>2. /\ phase = "place" /\ phase' = "parse" /\ fields' = <<>>
      /\ Len(offsets) = Len(fields)
      /\ structsize' = IF alignsize # maxalign THEN structsize + Rest ELSE structsize
      /\ structs' = Append(structs, s)
      /\ UNCHANGED <<offsets, maxalign, alignsize>>
  BY DEF Decide
<1>3. /\ fields \in Seq(Type) /\ offsets \in Seq(Nat)
      /\ maxalign \in Nat /\ alignsize \in Nat /\ structsize \in Nat
      /\ Placed(fields, offsets, structsize, maxalign)
      /\ Congruent(structsize, alignsize, maxalign)
      /\ maxalign = 0 => alignsize = 0 /\ structsize = 0
  BY <1>1, <1>2 DEF TypeOK, LayoutInv
<1>4. /\ structsize' \in Nat /\ structsize <= structsize'
      /\ Congruent(structsize', 0, maxalign)
      /\ maxalign = 0 => structsize' = 0
  <2>1. CASE alignsize # maxalign
    <3>1. maxalign \in Nat \ {0} /\ structsize' = structsize + Rest
      BY <1>2, <1>3, <2>1
    <3>2. /\ structsize + Rest \in Nat
          /\ structsize < structsize + Rest
          /\ Congruent(structsize + Rest, 0, maxalign)
      BY <1>3, <3>1, PaddedSize DEF Rest
    <3>3. QED
      BY <1>3, <3>1, <3>2
  <2>2. CASE alignsize = maxalign
    <3>1. structsize' = structsize
      BY <1>2, <2>2
    <3>2. PICK q \in Nat : structsize = q * maxalign + maxalign
      BY <1>3, <2>2 DEF Congruent
    <3>3. q * maxalign + maxalign = (q + 1) * maxalign
      BY <1>3, Distributes
    <3>4. structsize = (q + 1) * maxalign + 0 /\ q + 1 \in Nat
      BY <1>3, <3>2, <3>3
    <3>5. Congruent(structsize, 0, maxalign)
      BY <3>4 DEF Congruent
    <3>6. QED
      BY <1>3, <3>1, <3>5
  <2>3. QED
    BY <2>1, <2>2
<1>5. Placed(fields, offsets, structsize', maxalign)
  BY <1>3, <1>4, MoreSpace
<1>6. s \in Layout
  BY <1>3, <1>4 DEF Layout
<1>7. Whole(s)
  <2>1. /\ s.fields = fields /\ s.offsets = offsets
        /\ s.size = structsize' /\ s.align = maxalign
    OBVIOUS
  <2> HIDE DEF s
  <2>2. QED
    BY <1>2, <1>4, <1>5, <2>1 DEF Whole, EmptyUnaligned
<1> HIDE DEF s
<1>8. /\ structs' \in Seq(Layout) /\ Len(structs) \in Nat
      /\ Len(structs') = Len(structs) + 1
      /\ \A k \in 1 .. Len(structs) : structs'[k] = structs[k]
      /\ structs'[Len(structs) + 1] = s
  BY <1>1, <1>2, <1>6, AppendProperties DEF TypeOK
<1>9. \A k \in 1 .. Len(structs') : Whole(structs'[k])
  <2>1. \A k \in 1 .. Len(structs) + 1 : k \in 1 .. Len(structs) \/ k = Len(structs) + 1
    BY <1>8
  <2>2. QED
    BY <1>1, <1>7, <1>8, <2>1 DEF LayoutInv
<1>10. fields' \in Seq(Type) /\ Len(fields') = 0
  BY <1>2, EmptySeq
<1>11. TypeOK'
  BY <1>1, <1>2, <1>4, <1>8, <1>10 DEF TypeOK
<1>12. LayoutInv'
  BY <1>2, <1>9, <1>10 DEF LayoutInv
<1>13. QED
  BY <1>11, <1>12 DEF IInv

LEMMA InitInv == Init => IInv
<1>1. SUFFICES ASSUME Init PROVE IInv
  OBVIOUS
<1>2. <<>> \in Seq(Type) /\ <<>> \in Seq(Nat) /\ <<>> \in Seq(Layout) /\ Len(<<>>) = 0
  BY EmptySeq
<1>3. QED
  BY <1>1, <1>2 DEF Init, IInv, TypeOK, LayoutInv

LEMMA NextInv == IInv /\ [Next]_vars => IInv'
<1>1. SUFFICES ASSUME IInv, [Next]_vars PROVE IInv'
  OBVIOUS
<1>2. CASE UNCHANGED vars
  BY <1>1, <1>2 DEF vars, IInv, TypeOK, LayoutInv
<1>3. QED
  BY <1>1, <1>2, AddFieldInv, StartLayoutInv, PlaceInv, DecideInv DEF Next

THEOREM Inductive == Spec => []IInv
<1>1. QED
  BY InitInv, NextInv, PTL DEF Spec

-----------------------------------------------------------------------------
\* The layout loop keeps its numbers natural: no offset or size is ever negative.
THEOREM TypeCorrect == Spec => []TypeOK
<1>1. IInv => TypeOK
  BY DEF IInv
<1>2. QED
  BY <1>1, Inductive, PTL

\* The offsets the layout loop gives the fields of a struct never overlap and
\* stay below its size.
THEOREM FieldsAreApart == Spec => []FieldsApart
<1>1. IInv => FieldsApart
  BY DEF IInv, LayoutInv, Whole, Placed, FieldsApart
<1>2. QED
  BY <1>1, Inductive, PTL

\* alignsize % maxalign in the layout loop never divides by zero.
THEOREM DivisorIsPositive == Spec => []DivisorPositive
<1>1. IInv => DivisorPositive
  <2>1. SUFFICES ASSUME IInv, phase = "place", maxalign = 0
                 PROVE  /\ alignsize = 0
                        /\ \A k \in 1 .. Len(fields) : fields[k].size = 0
    BY DEF DivisorPositive
  <2>2. \A k \in 1 .. Len(fields) : fields[k].align \in Nat
    <3>1. \A k \in 1 .. Len(fields) : fields[k] \in Type
      BY <2>1 DEF IInv, TypeOK
    <3>2. QED
      BY <3>1 DEF Type
  <2>3. \A k \in 1 .. Len(fields) : fields[k].align <= 0
    BY <2>1 DEF IInv, LayoutInv
  <2>4. \A k \in 1 .. Len(fields) : fields[k].align = 0
    BY <2>2, <2>3
  <2>5. QED
    BY <2>1, <2>4 DEF IInv, LayoutInv, EmptyUnaligned
<1>2. QED
  BY <1>1, Inductive, PTL

\* The size the layout loop decides is a multiple of the alignment it decides.
THEOREM SizesAreRounded == Spec => []SizeRounded
<1>1. IInv => SizeRounded
  <2>1. SUFFICES ASSUME IInv, NEW k \in 1 .. Len(structs), structs[k].align > 0
                 PROVE  structs[k].size % structs[k].align = 0
    BY DEF SizeRounded
  <2>2. structs[k].align \in Nat \ {0}
    <3>1. structs[k] \in Layout
      BY <2>1 DEF IInv, TypeOK
    <3>2. QED
      BY <2>1, <3>1 DEF Layout
  <2>3. PICK q \in Nat : structs[k].size = q * structs[k].align + 0
    BY <2>1 DEF IInv, LayoutInv, Whole, Congruent
  <2>4. QED
    BY <2>2, <2>3, Remainder
<1>2. QED
  BY <1>1, Inductive, PTL

\* A field that fits into maxalign bytes never crosses a multiple of maxalign.
THEOREM NoFieldStraddles == Spec => []NoStraddle
<1>1. IInv => NoStraddle
  <2>1. SUFFICES ASSUME IInv, NEW k \in 1 .. Len(structs), structs[k].align > 0,
                        NEW i \in 1 .. Len(structs[k].fields)
                 PROVE  LET used == structs[k].offsets[i] % structs[k].align
                        IN  \/ used = 0
                            \/ used + structs[k].fields[i].size <= structs[k].align
    BY DEF NoStraddle
  <2> DEFINE m == structs[k].align
             o == structs[k].offsets[i]
             z == structs[k].fields[i].size
  <2>2. structs[k] \in Layout /\ Whole(structs[k])
    BY <2>1 DEF IInv, TypeOK, LayoutInv
  <2>3. m \in Nat \ {0} /\ structs[k].fields \in Seq(Type)
    BY <2>1, <2>2 DEF Layout
  <2>4. structs[k].fields[i] \in Type
    BY <2>1, <2>3
  <2>5. z \in Nat
    BY <2>4 DEF Type
  <2>6. Chunked(o, z, m)
    BY <2>2 DEF Whole, Placed
  <2> HIDE DEF m, o, z
  <2>7. PICK q \in Nat, u \in Nat : o = q * m + u /\ (u = 0 \/ u + z <= m)
    BY <2>6 DEF Chunked
  <2>8. CASE u < m
    <3>1. o % m = u
      BY <2>3, <2>7, <2>8, Remainder
    <3>2. QED
      BY <2>7, <3>1 DEF m, o, z
  <2>9. CASE u >= m
    <3>1. u = m
      BY <2>3, <2>5, <2>7, <2>9
    <3>2. o = (q + 1) * m + 0 /\ q + 1 \in Nat
      <4>1. q * m + m = (q + 1) * m
        BY <2>3
      <4>2. q * m \in Nat /\ (q + 1) * m \in Nat
        BY <2>3, Distributes
      <4>3. QED
        BY <2>7, <3>1, <4>1, <4>2
    <3>3. o % m = 0
      BY <2>3, <3>2, Remainder
    <3>4. QED
      BY <3>3 DEF m, o, z
  <2>10. QED
    BY <2>3, <2>8, <2>9
<1>2. QED
  BY <1>1, Inductive, PTL
=============================================================================
