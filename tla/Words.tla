--------------------------------- MODULE Words ---------------------------------
(***************************************************************************)
(* Numbers of eight digits: a word of the processor with its bytes.  The   *)
(* real one has Byte = 256; a smaller power of two has the same bit        *)
(* operations.                                                             *)
(***************************************************************************)
EXTENDS Integers

CONSTANT Byte       \* how many values a byte has

ASSUME ByteAssumption == Byte \in {2, 4, 8, 16, 32, 64, 128, 256}

Int32 == Byte * Byte * Byte * Byte
Word  == Int32 * Int32

Wrap(n)      == n % Word
Signed(w, b) == IF 2 * w >= b THEN w - b ELSE w     \* w as a number of b values
Num(w)       == Signed(w, Word)

\* The bytes of w, the lowest first, and back.
Digits(w) ==
  LET w1 == w \div Byte
      w2 == w1 \div Byte
      w3 == w2 \div Byte
      w4 == w3 \div Byte
      w5 == w4 \div Byte
      w6 == w5 \div Byte
      w7 == w6 \div Byte
  IN <<w % Byte, w1 % Byte, w2 % Byte, w3 % Byte, w4 % Byte, w5 % Byte, w6 % Byte, w7 % Byte>>

Number(s) ==
  s[1] + Byte * (s[2] + Byte * (s[3] + Byte * (s[4] + Byte *
    (s[5] + Byte * (s[6] + Byte * (s[7] + Byte * s[8]))))))

\* Bit by bit.
AndBit(v, w, bit) == bit * ((v \div bit) % 2) * ((w \div bit) % 2)
AndByte(v, w) ==
  AndBit(v, w, 1) + AndBit(v, w, 2) + AndBit(v, w, 4) + AndBit(v, w, 8)
  + AndBit(v, w, 16) + AndBit(v, w, 32) + AndBit(v, w, 64) + AndBit(v, w, 128)

And(v, w) == Number([i \in 1 .. 8 |-> AndByte(Digits(v)[i], Digits(w)[i])])
===============================================================================
