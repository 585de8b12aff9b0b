---------------------------- MODULE Crc32_proofs ----------------------------
(***************************************************************************)
(* The CRC unit of the HC32F460 and the software of the STM32F4 port give  *)
(* the same CRC for every message.  A step of the one is the mirror image  *)
(* of a step of the other; and the software may take the bytes of a word   *)
(* one after the other, because a byte that has not yet reached the low    *)
(* end of the register passes through the steps as it is.                  *)
(*                                                                         *)
(*   CrcPortsAgree          CrcSpec => []PortsAgree                        *)
(*   CrcIsTheReference      CrcSpec => []CrcIsReference                    *)
(*   MetaCrcIsTheReference  CrcSpec => []MetaCrcCoversRecord               *)
(*   ChangedWordShows       one changed word changes the CRC               *)
(*                                                                         *)
(* The reference is a loop over the bits of the message, the software one  *)
(* over its words.  Overlaid relates the two at each bit: what is left of  *)
(* the dividend is the rest of the message, with the register laid over    *)
(* its first 32 bits.                                                      *)
(***************************************************************************)
EXTENDS Crc32, Arithmetic

-----------------------------------------------------------------------------
(* Registers.                                                               *)

LEMMA PolynomialsAreRegisters == Polynomial \subseteq Bits /\ PolynomialR \subseteq Bits
BY DEF Polynomial, PolynomialR, Bits

\* Two registers with the same bits are the same.
LEMMA SameBits ==
    ASSUME NEW a \in SUBSET Bits, NEW b \in SUBSET Bits, \A i \in Bits : i \in a <=> i \in b
    PROVE  a = b
OBVIOUS

\* Exclusive or is bit by bit.
LEMMA XorBits ==
    ASSUME NEW a \in SUBSET Bits, NEW b \in SUBSET Bits
    PROVE  /\ Xor(a, b) \in SUBSET Bits
           /\ \A i \in Bits : i \in Xor(a, b) <=> ~(i \in a <=> i \in b)
BY DEF Xor

LEMMA XorAssociative ==
    ASSUME NEW a \in SUBSET Bits, NEW b \in SUBSET Bits, NEW c \in SUBSET Bits
    PROVE  Xor(Xor(a, b), c) = Xor(a, Xor(b, c))
BY DEF Xor

LEMMA ShiftRightBits ==
    ASSUME NEW a \in SUBSET Bits
    PROVE  /\ ShiftRight(a) \in SUBSET Bits
           /\ \A i \in Bits : i \in ShiftRight(a) <=> i + 1 \in a
BY DEF ShiftRight, Bits

LEMMA ShiftLeftBits ==
    ASSUME NEW a \in SUBSET Bits
    PROVE  /\ ShiftLeft(a) \in SUBSET Bits
           /\ \A i \in Bits : i \in ShiftLeft(a) <=> i - 1 \in a
BY DEF ShiftLeft, Bits

LEMMA ReflectedBits ==
    ASSUME NEW a \in SUBSET Bits
    PROVE  /\ Reflected(a) \in SUBSET Bits
           /\ \A i \in Bits : i \in Reflected(a) <=> 31 - i \in a
BY DEF Reflected, Bits

LEMMA NotBits ==
    ASSUME NEW a \in SUBSET Bits
    PROVE  Not(a) \in SUBSET Bits /\ \A i \in Bits : i \in Not(a) <=> i \notin a
BY DEF Not

-----------------------------------------------------------------------------
(* One bit.                                                                 *)

\* The two constants are the same polynomial, from either end.
LEMMA PolynomialReflected ==
    ASSUME NEW i \in Bits
    PROVE  i \in Polynomial <=> 31 - i \in PolynomialR
BY DEF Polynomial, PolynomialR, Bits

LEMMA SoftBitRegister ==
    ASSUME NEW a \in SUBSET Bits
    PROVE  SoftBit(a) \in SUBSET Bits
BY ShiftRightBits, XorBits, PolynomialsAreRegisters DEF SoftBit

\* What has not reached the low end passes through a step as it is.
LEMMA SoftBitPasses ==
    ASSUME NEW a \in SUBSET Bits, NEW b \in SUBSET Bits, 0 \notin b
    PROVE  SoftBit(Xor(a, b)) = Xor(SoftBit(a), ShiftRight(b))
<1> DEFINE x == Xor(a, b)
<1>1. x \in SUBSET Bits /\ (0 \in x <=> 0 \in a)
  BY XorBits DEF Bits
<1>2. /\ ShiftRight(x) \in SUBSET Bits /\ ShiftRight(a) \in SUBSET Bits
      /\ ShiftRight(b) \in SUBSET Bits
  BY <1>1, ShiftRightBits
<1>3. ShiftRight(x) = Xor(ShiftRight(a), ShiftRight(b))
  <2>1. ASSUME NEW i \in Bits
        PROVE  i \in ShiftRight(x) <=> i \in Xor(ShiftRight(a), ShiftRight(b))
    <3>1. i \in ShiftRight(x) <=> i + 1 \in x
      BY <1>1, ShiftRightBits
    <3>2. i + 1 \in x <=> ~(i + 1 \in a <=> i + 1 \in b)
      BY DEF Xor
    <3>3. i \in Xor(ShiftRight(a), ShiftRight(b)) <=> ~(i + 1 \in a <=> i + 1 \in b)
      BY <1>2, XorBits, ShiftRightBits
    <3>4. QED BY <3>1, <3>2, <3>3
  <2>2. Xor(ShiftRight(a), ShiftRight(b)) \in SUBSET Bits
    BY <1>2, XorBits
  <2>3. QED BY <1>2, <2>1, <2>2, SameBits
<1>4. Xor(Xor(ShiftRight(a), ShiftRight(b)), PolynomialR)
        = Xor(Xor(ShiftRight(a), PolynomialR), ShiftRight(b))
  BY DEF Xor
<1>5. QED BY <1>1, <1>3, <1>4 DEF SoftBit

\* A step of the unit is a step of the software in the mirror.
LEMMA UnitBitMirrors ==
    ASSUME NEW a \in SUBSET Bits
    PROVE  UnitBit(Reflected(a)) = Reflected(SoftBit(a))
<1> DEFINE r == Reflected(a)
<1>1. r \in SUBSET Bits /\ (31 \in r <=> 0 \in a)
  BY ReflectedBits DEF Bits
<1>2. ShiftLeft(r) \in SUBSET Bits /\ ShiftRight(a) \in SUBSET Bits
  BY <1>1, ShiftLeftBits, ShiftRightBits
<1>3. ASSUME NEW i \in Bits
      PROVE  i \in ShiftLeft(r) <=> 31 - i \in ShiftRight(a)
  <2>1. i \in ShiftLeft(r) <=> i - 1 \in r
    BY <1>1, ShiftLeftBits
  <2>2. i - 1 \in r <=> 32 - i \in a
    BY DEF Reflected, Bits
  <2>3. 31 - i \in Bits /\ 31 - i + 1 = 32 - i
    BY DEF Bits
  <2>4. 31 - i \in ShiftRight(a) <=> 32 - i \in a
    BY <2>3, ShiftRightBits
  <2>5. QED BY <2>1, <2>2, <2>4
<1>4. UnitBit(r) \in SUBSET Bits /\ SoftBit(a) \in SUBSET Bits
  BY <1>1, <1>2, XorBits, PolynomialsAreRegisters, SoftBitRegister DEF UnitBit
<1>5. ASSUME NEW i \in Bits
      PROVE  i \in UnitBit(r) <=> i \in Reflected(SoftBit(a))
  <2>1. 31 - i \in Bits
    BY DEF Bits
  <2>2. i \in Reflected(SoftBit(a)) <=> 31 - i \in SoftBit(a)
    BY <1>4, ReflectedBits
  <2>3. CASE 0 \in a
    <3>1. i \in UnitBit(r) <=> ~(i \in ShiftLeft(r) <=> i \in Polynomial)
      BY <2>3, <1>1, <1>2, XorBits, PolynomialsAreRegisters DEF UnitBit
    <3>2. 31 - i \in SoftBit(a) <=> ~(31 - i \in ShiftRight(a) <=> 31 - i \in PolynomialR)
      BY <2>1, <2>3, <1>2, XorBits, PolynomialsAreRegisters DEF SoftBit
    <3>3. QED BY <2>2, <3>1, <3>2, <1>3, PolynomialReflected
  <2>4. CASE 0 \notin a
    BY <2>2, <2>4, <1>1, <1>3 DEF UnitBit, SoftBit
  <2>5. QED BY <2>3, <2>4
<1>6. QED BY <1>4, <1>5, ReflectedBits, SameBits

-----------------------------------------------------------------------------
(* Eight bits, and a word.                                                  *)

SoftEight(a) == Eight(SoftBit, a)

LEMMA SoftEightRegister ==
    ASSUME NEW a \in SUBSET Bits
    PROVE  SoftEight(a) \in SUBSET Bits
BY SoftBitRegister DEF SoftEight, Eight

LEMMA UnitByteMirrors ==
    ASSUME NEW a \in SUBSET Bits
    PROVE  UnitByte(Reflected(a)) = Reflected(SoftEight(a))
BY UnitBitMirrors, SoftBitRegister DEF UnitByte, SoftEight, Eight

-----------------------------------------------------------------------------
(* The bytes of a word.                                                     *)

\* What is left of a register above its low n bits, moved down to the low end.
Rest(a, n) == {i - n : i \in {j \in a : j >= n}}

LEMMA RestBits ==
    ASSUME NEW a \in SUBSET Bits, NEW n \in Nat
    PROVE  /\ Rest(a, n) \in SUBSET Bits
           /\ \A i \in Bits : i \in Rest(a, n) <=> i + n \in a
BY DEF Rest, Bits

LEMMA RestShifts ==
    ASSUME NEW a \in SUBSET Bits, NEW n \in Nat
    PROVE  ShiftRight(Rest(a, n)) = Rest(a, n + 1)
<1>1. ASSUME NEW i \in Bits
      PROVE  i \in ShiftRight(Rest(a, n)) <=> i \in Rest(a, n + 1)
  <2>1. i \in ShiftRight(Rest(a, n)) <=> i + 1 \in Rest(a, n)
    BY RestBits, ShiftRightBits
  <2>2. i + 1 \in Rest(a, n) <=> i + (n + 1) \in a
    BY DEF Rest, Bits
  <2>3. n + 1 \in Nat
    OBVIOUS
  <2>4. QED BY <2>1, <2>2, <2>3, RestBits
<1>2. Rest(a, n) \in SUBSET Bits /\ Rest(a, n + 1) \in SUBSET Bits
  BY RestBits
<1>3. QED BY <1>1, <1>2, ShiftRightBits, SameBits

\* Bits above the low byte pass through eight steps as they are.
LEMMA SoftEightPasses ==
    ASSUME NEW a \in SUBSET Bits, NEW b \in SUBSET Bits, \A i \in 0 .. 7 : i \notin b
    PROVE  SoftEight(Xor(a, b)) = Xor(SoftEight(a), Rest(b, 8))
<1>1. ASSUME NEW n \in 0 .. 7, NEW c \in SUBSET Bits
      PROVE  SoftBit(Xor(c, Rest(b, n))) = Xor(SoftBit(c), Rest(b, n + 1))
  <2>1. n \in Nat /\ 0 + n = n /\ n \notin b
    OBVIOUS
  <2>2. 0 \notin Rest(b, n)
    BY <2>1 DEF Rest, Bits
  <2>3. QED BY <2>1, <2>2, RestBits, RestShifts, SoftBitPasses
<1>2. Rest(b, 0) = b
  <2>1. \A i \in b : i >= 0 /\ i - 0 = i
    BY DEF Bits
  <2>2. QED BY <2>1 DEF Rest
<1> DEFINE c1 == SoftBit(a)   c2 == SoftBit(c1)  c3 == SoftBit(c2)  c4 == SoftBit(c3)
           c5 == SoftBit(c4)  c6 == SoftBit(c5)  c7 == SoftBit(c6)  c8 == SoftBit(c7)
<1>3. /\ c1 \in SUBSET Bits /\ c2 \in SUBSET Bits /\ c3 \in SUBSET Bits
      /\ c4 \in SUBSET Bits /\ c5 \in SUBSET Bits /\ c6 \in SUBSET Bits
      /\ c7 \in SUBSET Bits
  BY SoftBitRegister
<1>4. SoftBit(Xor(a, b)) = Xor(c1, Rest(b, 1))
  BY <1>1, <1>2
<1> HIDE DEF c1
<1>5. SoftBit(Xor(c1, Rest(b, 1))) = Xor(c2, Rest(b, 2))
  BY <1>1, <1>3
<1> HIDE DEF c2
<1>6. SoftBit(Xor(c2, Rest(b, 2))) = Xor(c3, Rest(b, 3))
  BY <1>1, <1>3
<1> HIDE DEF c3
<1>7. SoftBit(Xor(c3, Rest(b, 3))) = Xor(c4, Rest(b, 4))
  BY <1>1, <1>3
<1> HIDE DEF c4
<1>8. SoftBit(Xor(c4, Rest(b, 4))) = Xor(c5, Rest(b, 5))
  BY <1>1, <1>3
<1> HIDE DEF c5
<1>9. SoftBit(Xor(c5, Rest(b, 5))) = Xor(c6, Rest(b, 6))
  BY <1>1, <1>3
<1> HIDE DEF c6
<1>10. SoftBit(Xor(c6, Rest(b, 6))) = Xor(c7, Rest(b, 7))
  BY <1>1, <1>3
<1> HIDE DEF c7
<1>11. SoftBit(Xor(c7, Rest(b, 7))) = Xor(c8, Rest(b, 8))
  BY <1>1, <1>3
<1>12. QED
  BY <1>4, <1>5, <1>6, <1>7, <1>8, <1>9, <1>10, <1>11
  DEF SoftEight, Eight, c1, c2, c3, c4, c5, c6, c7

\* One byte after the other, or the word at once: after byte k, what remains of
\* the word has come down to the low end.
LEMMA ByteOfWord ==
    ASSUME NEW a \in SUBSET Bits, NEW w \in SUBSET Bits, NEW k \in 0 .. 3
    PROVE  /\ SoftByte(a, ByteOf(w, k)) \in SUBSET Bits
           /\ SoftEight(Xor(a, Rest(w, 8 * k)))
                = Xor(SoftByte(a, ByteOf(w, k)), Rest(w, 8 * (k + 1)))
<1> DEFINE r == Rest(w, 8 * k)
           b == ByteOf(w, k)
           h == r \ (0 .. 7)
<1>1. 8 * k \in Nat /\ 8 * (k + 1) \in Nat
  OBVIOUS
<1>2. r \in SUBSET Bits /\ \A i \in Bits : i \in r <=> i + 8 * k \in w
  BY <1>1, RestBits
<1>3. b \in SUBSET Bits /\ \A i \in Bits : i \in b <=> i \in r /\ i <= 7
  <2>1. \A i \in Bits : i \in b <=> i + 8 * k \in w /\ i <= 7
    BY DEF ByteOf, Bits
  <2>2. b \in SUBSET Bits
    BY DEF ByteOf, Bits
  <2>3. QED BY <1>2, <2>1, <2>2 DEF Bits
<1>4. h \in SUBSET Bits /\ \A i \in Bits : i \in h <=> i \in r /\ i > 7
  BY <1>2 DEF Bits
<1>5. Xor(a, r) = Xor(Xor(a, b), h)
  <2>1. Xor(b, h) = r
    <3>1. \A i \in Bits : i \in Xor(b, h) <=> i \in r
      BY <1>3, <1>4, XorBits DEF Bits
    <3>2. Xor(b, h) \in SUBSET Bits
      BY <1>3, <1>4, XorBits
    <3>3. QED
      <4> HIDE DEF b, h, r
      <4>1. QED BY <3>1, <3>2, <1>2, SameBits
  <2>2. QED BY <2>1, <1>3, <1>4, XorAssociative
<1>6. Rest(h, 8) = Rest(w, 8 * (k + 1))
  <2>1. \A i \in Bits : i \in Rest(h, 8) <=> i + 8 \in h
    BY <1>4, RestBits
  <2>2. \A i \in Bits : i + 8 \in h <=> i + 8 \in r
    BY DEF Bits
  <2>3. \A i \in Bits : i + 8 \in r <=> i + 8 * (k + 1) \in w
    BY DEF Rest, Bits
  <2>4. \A i \in Bits : i \in Rest(w, 8 * (k + 1)) <=> i + 8 * (k + 1) \in w
    BY <1>1, RestBits
  <2>5. Rest(h, 8) \in SUBSET Bits /\ Rest(w, 8 * (k + 1)) \in SUBSET Bits
    BY <1>1, <1>4, RestBits
  <2>6. \A i \in Bits : i \in Rest(h, 8) <=> i \in Rest(w, 8 * (k + 1))
    BY <2>1, <2>2, <2>3, <2>4
  <2>7. QED
    <3> HIDE DEF h
    <3>1. QED BY <2>5, <2>6, SameBits
<1>7. Xor(a, b) \in SUBSET Bits
  BY <1>3, XorBits
<1>8. SoftByte(a, b) = SoftEight(Xor(a, b)) /\ SoftByte(a, b) \in SUBSET Bits
  BY <1>7, SoftEightRegister DEF SoftByte, SoftEight
<1>9. SoftEight(Xor(Xor(a, b), h)) = Xor(SoftEight(Xor(a, b)), Rest(h, 8))
  BY <1>4, <1>7, SoftEightPasses
<1>10. QED BY <1>5, <1>6, <1>8, <1>9

\* The software's word is 32 steps on the exclusive or with the whole word.
LEMMA SoftWordAtOnce ==
    ASSUME NEW a \in SUBSET Bits, NEW w \in SUBSET Bits
    PROVE  /\ SoftWord(a, w) = SoftEight(SoftEight(SoftEight(SoftEight(Xor(a, w)))))
           /\ SoftWord(a, w) \in SUBSET Bits
<1> DEFINE a1 == SoftByte(a, ByteOf(w, 0))
           a2 == SoftByte(a1, ByteOf(w, 1))
           a3 == SoftByte(a2, ByteOf(w, 2))
           a4 == SoftByte(a3, ByteOf(w, 3))
<1>1. a1 \in SUBSET Bits /\ SoftEight(Xor(a, Rest(w, 0))) = Xor(a1, Rest(w, 8))
  <2>1. 0 \in 0 .. 3 /\ 8 * 0 = 0 /\ 8 * (0 + 1) = 8
    OBVIOUS
  <2>2. SoftEight(Xor(a, Rest(w, 8 * 0))) = Xor(a1, Rest(w, 8 * (0 + 1)))
    BY <2>1, ByteOfWord
  <2>3. a1 \in SUBSET Bits
    BY <2>1, ByteOfWord
  <2>4. QED BY <2>1, <2>2, <2>3
<1> HIDE DEF a1
<1>2. a2 \in SUBSET Bits /\ SoftEight(Xor(a1, Rest(w, 8))) = Xor(a2, Rest(w, 16))
  <2>1. 1 \in 0 .. 3 /\ 8 * 1 = 8 /\ 8 * (1 + 1) = 16
    OBVIOUS
  <2>2. QED BY <1>1, <2>1, ByteOfWord
<1> HIDE DEF a2
<1>3. a3 \in SUBSET Bits /\ SoftEight(Xor(a2, Rest(w, 16))) = Xor(a3, Rest(w, 24))
  <2>1. 2 \in 0 .. 3 /\ 8 * 2 = 16 /\ 8 * (2 + 1) = 24
    OBVIOUS
  <2>2. QED BY <1>2, <2>1, ByteOfWord
<1> HIDE DEF a3
<1>4. a4 \in SUBSET Bits /\ SoftEight(Xor(a3, Rest(w, 24))) = Xor(a4, Rest(w, 32))
  <2>1. 3 \in 0 .. 3 /\ 8 * 3 = 24 /\ 8 * (3 + 1) = 32
    OBVIOUS
  <2>2. QED BY <1>3, <2>1, ByteOfWord
<1> HIDE DEF a4
<1>5. Rest(w, 0) = w /\ Rest(w, 32) = {}
  <2>1. \A i \in w : i >= 0 /\ ~(i >= 32) /\ i - 0 = i
    BY DEF Bits
  <2>2. QED BY <2>1 DEF Rest
<1>6. Xor(a4, {}) = a4
  BY DEF Xor
<1>7. SoftWord(a, w) = a4
  BY DEF SoftWord, a1, a2, a3, a4
<1>8. QED BY <1>1, <1>2, <1>3, <1>4, <1>5, <1>6, <1>7

\* A word leaves the two registers mirror images of one another.
LEMMA UnitWordMirrors ==
    ASSUME NEW a \in SUBSET Bits, NEW w \in SUBSET Bits
    PROVE  UnitWord(Reflected(a), w) = Reflected(SoftWord(a, w))
<1> DEFINE x == Xor(a, w)
<1>1. x \in SUBSET Bits /\ Reflected(a) \in SUBSET Bits /\ Reflected(w) \in SUBSET Bits
  BY XorBits, ReflectedBits
<1>2. Xor(Reflected(a), Reflected(w)) = Reflected(x)
  <2>1. ASSUME NEW i \in Bits
        PROVE  i \in Xor(Reflected(a), Reflected(w)) <=> i \in Reflected(x)
    <3>1. 31 - i \in Bits
      BY DEF Bits
    <3>2. i \in Xor(Reflected(a), Reflected(w)) <=> ~(31 - i \in a <=> 31 - i \in w)
      BY <1>1, XorBits, ReflectedBits
    <3>3. i \in Reflected(x) <=> ~(31 - i \in a <=> 31 - i \in w)
      BY <1>1, <3>1, XorBits, ReflectedBits
    <3>4. QED BY <3>2, <3>3
  <2>2. QED BY <2>1, <1>1, XorBits, ReflectedBits, SameBits
<1> HIDE DEF x
<1> DEFINE x1 == SoftEight(x)  x2 == SoftEight(x1)  x3 == SoftEight(x2)
<1>3. x1 \in SUBSET Bits /\ x2 \in SUBSET Bits /\ x3 \in SUBSET Bits
  BY <1>1, SoftEightRegister
<1>4. UnitByte(UnitByte(UnitByte(UnitByte(Reflected(x))))) = Reflected(SoftEight(x3))
  BY <1>1, <1>3, UnitByteMirrors
<1>5. QED BY <1>2, <1>4, SoftWordAtOnce DEF UnitWord, x

-----------------------------------------------------------------------------
(* A changed word shows.                                                    *)

\* A step forgets nothing: the high bit it leaves tells which bit it dropped.
LEMMA SoftBitKeepsApart ==
    ASSUME NEW a \in SUBSET Bits, NEW b \in SUBSET Bits, SoftBit(a) = SoftBit(b)
    PROVE  a = b
<1>1. /\ ShiftRight(a) \in SUBSET Bits /\ ShiftRight(b) \in SUBSET Bits
      /\ 31 \notin ShiftRight(a) /\ 31 \notin ShiftRight(b)
  BY ShiftRightBits DEF ShiftRight, Bits
<1>2. 31 \in PolynomialR /\ PolynomialR \in SUBSET Bits
  BY PolynomialsAreRegisters DEF PolynomialR
<1>3. (31 \in SoftBit(a) <=> 0 \in a) /\ (31 \in SoftBit(b) <=> 0 \in b)
  BY <1>1, <1>2 DEF SoftBit, Xor
<1>4. ShiftRight(a) = ShiftRight(b)
  <2>1. CASE 0 \in a
    <3>1. Xor(ShiftRight(a), PolynomialR) = Xor(ShiftRight(b), PolynomialR)
      BY <1>3, <2>1 DEF SoftBit
    <3>2. QED BY <3>1 DEF Xor
  <2>2. CASE 0 \notin a
    BY <1>3, <2>2 DEF SoftBit
  <2>3. QED BY <2>1, <2>2
<1>5. ASSUME NEW i \in Bits
      PROVE  i \in a <=> i \in b
  <2>1. CASE i = 0
    BY <1>3, <2>1
  <2>2. CASE i # 0
    <3>1. i - 1 \in Bits /\ (i - 1) + 1 = i
      BY <2>2 DEF Bits
    <3>2. QED BY <3>1, <1>4, ShiftRightBits
  <2>3. QED BY <2>1, <2>2
<1>6. QED BY <1>5, SameBits

LEMMA SoftEightKeepsApart ==
    ASSUME NEW a \in SUBSET Bits, NEW b \in SUBSET Bits, SoftEight(a) = SoftEight(b)
    PROVE  a = b
BY SoftBitKeepsApart, SoftBitRegister DEF SoftEight, Eight

\* The same register, with different bits put in or coming from different
\* registers with the same bits, is told apart.
LEMMA XorKeepsApart ==
    ASSUME NEW a \in SUBSET Bits, NEW b \in SUBSET Bits, NEW c \in SUBSET Bits
    PROVE  /\ Xor(a, c) = Xor(b, c) => a = b
           /\ Xor(c, a) = Xor(c, b) => a = b
BY DEF Xor

\* A different word leaves the registers different, and words that are equal keep
\* them so.
LEMMA WordKeepsApart ==
    ASSUME NEW a \in SUBSET Bits, NEW b \in SUBSET Bits,
           NEW v \in SUBSET Bits, NEW w \in SUBSET Bits
    PROVE  /\ v # w => SoftWord(a, v) # SoftWord(a, w)
           /\ a # b => SoftWord(a, w) # SoftWord(b, w)
<1> DEFINE All(x) == SoftEight(SoftEight(SoftEight(SoftEight(x))))
<1>1. ASSUME NEW x \in SUBSET Bits, NEW y \in SUBSET Bits, All(x) = All(y)
      PROVE  x = y
  BY <1>1, SoftEightRegister, SoftEightKeepsApart
<1>2. /\ Xor(a, v) \in SUBSET Bits /\ Xor(a, w) \in SUBSET Bits
      /\ Xor(b, w) \in SUBSET Bits
  BY XorBits
<1>3. ASSUME SoftWord(a, v) = SoftWord(a, w)
      PROVE  v = w
  <2>1. All(Xor(a, v)) = All(Xor(a, w))
    <3>1. SoftWord(a, v) = All(Xor(a, v)) /\ SoftWord(a, w) = All(Xor(a, w))
      BY SoftWordAtOnce
    <3>2. QED BY <3>1, <1>3
  <2>2. Xor(a, v) = Xor(a, w)
    <3> HIDE DEF All
    <3>1. QED BY <1>1, <1>2, <2>1
  <2>3. QED BY <2>2, XorKeepsApart
<1>4. ASSUME SoftWord(a, w) = SoftWord(b, w)
      PROVE  a = b
  <2>1. All(Xor(a, w)) = All(Xor(b, w))
    <3>1. SoftWord(a, w) = All(Xor(a, w)) /\ SoftWord(b, w) = All(Xor(b, w))
      BY SoftWordAtOnce
    <3>2. QED BY <3>1, <1>4
  <2>2. Xor(a, w) = Xor(b, w)
    <3> HIDE DEF All
    <3>1. QED BY <1>1, <1>2, <2>1
  <2>3. QED BY <2>2, XorKeepsApart
<1>5. QED BY <1>3, <1>4

-----------------------------------------------------------------------------
(* The two ports.                                                           *)

\* The software's register is a register, and the unit's is its mirror image.
Mirrored == soft \in SUBSET Bits /\ unit = Reflected(soft)

THEOREM AllOnesMirrored == CrcInit => Mirrored
<1>1. \A i \in Bits : 31 - i \in Bits
  BY DEF Bits
<1>2. Reflected(Bits) = Bits
  BY <1>1, SameBits, ReflectedBits
<1>3. QED BY <1>2 DEF CrcInit, Mirrored, UnitInit

THEOREM WordsKeepMirror == Mirrored /\ [CrcNext]_crcVars => Mirrored'
<1> SUFFICES ASSUME Mirrored, [CrcNext]_crcVars
             PROVE  Mirrored'
  OBVIOUS
<1>1. ASSUME NEW word \in WordValues, Accumulate(word)
      PROVE  Mirrored'
  <2>1. word \in SUBSET Bits
    BY CrcAssumption
  <2>2. QED BY <1>1, <2>1, UnitWordMirrors, SoftWordAtOnce DEF Accumulate, Mirrored
<1>2. CASE UNCHANGED crcVars
  BY <1>2 DEF crcVars, Mirrored
<1>3. QED BY <1>1, <1>2 DEF CrcNext

\* What the two ports return is then the same.
LEMMA MirroredAgree == Mirrored => PortsAgree
<1> SUFFICES ASSUME Mirrored
             PROVE  UnitGet(unit) = SoftGet(soft)
  BY DEF PortsAgree
<1>1. Reflected(Reflected(soft)) = soft
  <2>1. ASSUME NEW i \in Bits
        PROVE  i \in Reflected(Reflected(soft)) <=> i \in soft
    <3>1. 31 - i \in Bits /\ 31 - (31 - i) = i
      BY DEF Bits
    <3>2. QED BY <3>1, ReflectedBits DEF Mirrored
  <2>2. QED BY <2>1, ReflectedBits, SameBits DEF Mirrored
<1>2. Xor(soft, Bits) = Not(soft)
  BY DEF Mirrored, Xor, Not
<1>3. QED BY <1>1, <1>2 DEF Mirrored, UnitGet, UnitResult, SoftGet

\* For every message, the CRC unit of the HC32F460 and the loop of the STM32F4
\* port return the same value (boot_port_crc_get).
THEOREM CrcPortsAgree == CrcSpec => []PortsAgree
BY AllOnesMirrored, WordsKeepMirror, MirroredAgree, PTL DEF CrcSpec
-----------------------------------------------------------------------------
(* The reference.                                                           *)

\* The bits of a message, the first one being number 0.
MessageBits(words) == UNION {{32 * (i - 1) + j : j \in words[i]} : i \in DOMAIN words}

LEMMA PlaceUnique ==
    ASSUME NEW i \in Int, NEW k \in Int, NEW j \in 0 .. 31, NEW b \in 0 .. 31,
           32 * (k - 1) + b = 32 * (i - 1) + j
    PROVE  k = i /\ b = j
<1>1. k <= i /\ i <= k
  OBVIOUS
<1>2. QED BY <1>1

LEMMA MessageBit ==
    ASSUME NEW words \in Seq(SUBSET Bits), NEW i \in 1 .. Len(words), NEW j \in Bits
    PROVE  32 * (i - 1) + j \in MessageBits(words) <=> j \in words[i]
<1>1. ASSUME NEW k \in 1 .. Len(words), NEW b \in words[k],
             32 * (k - 1) + b = 32 * (i - 1) + j
      PROVE  k = i /\ b = j
  <2>1. words[k] \in SUBSET Bits /\ Len(words) \in Nat
    OBVIOUS
  <2>2. b \in 0 .. 31 /\ j \in 0 .. 31
    BY <2>1 DEF Bits
  <2>3. k \in Int /\ i \in Int
    BY <2>1
  <2>4. QED BY <1>1, <2>2, <2>3, PlaceUnique
<1>2. DOMAIN words = 1 .. Len(words)
  OBVIOUS
<1>3. QED BY <1>1, <1>2 DEF MessageBits

LEMMA MessageLength ==
    ASSUME NEW words \in Seq(SUBSET Bits), NEW x \in MessageBits(words)
    PROVE  x \in 0 .. 32 * Len(words) - 1
<1>1. PICK i \in 1 .. Len(words) : \E j \in words[i] : x = 32 * (i - 1) + j
  BY DEF MessageBits
<1>2. PICK j \in words[i] : x = 32 * (i - 1) + j
  BY <1>1
<1>3. i \in Nat /\ Len(words) \in Nat /\ j \in 0 .. 31 /\ i <= Len(words) /\ i >= 1
  <2>1. words[i] \in SUBSET Bits
    OBVIOUS
  <2>2. QED BY <2>1 DEF Bits
<1>4. QED BY <1>2, <1>3

\* What is left of the dividend when its first c bits are gone is the message from
\* there on, future, with the software's register laid over its first 32 bits.
Overlaid(rest, c, future, crc) ==
    /\ rest \subseteq Int
    /\ \A x \in Int : x \in rest <=> x >= c /\ ~(x \in future <=> x - c \in crc)

\* The divisor, moved to bit i, is a set of numbers.
LEMMA DivisorIsNumbers ==
    ASSUME NEW i \in Int
    PROVE  Divisor(i) \subseteq Int
<1>1. \A j \in Polynomial : i + 32 - j \in Int
  <2>1. \A j \in Polynomial : j \in Int
    BY DEF Polynomial
  <2> HIDE DEF Polynomial
  <2>2. QED BY <2>1
<1>2. \A x \in Divisor(i) : x = i \/ \E j \in Polynomial : x = i + 32 - j
  BY DEF Divisor
<1>3. QED BY <1>1, <1>2

\* A step of the division is a step of the software.
LEMMA DivisionBit ==
    ASSUME NEW rest, NEW c \in Nat, NEW future, c \notin future,
           NEW crc \in SUBSET Bits, Overlaid(rest, c, future, crc)
    PROVE  Overlaid(TakeAway(rest, c), c + 1, future, SoftBit(crc))
<1> DEFINE next == TakeAway(rest, c)
<1>1. c \in rest <=> 0 \in crc
  BY DEF Overlaid
<1>2. ASSUME NEW x \in Int
      PROVE  x - c - 1 \in ShiftRight(crc) <=> x > c /\ x - c \in crc
  <2>1. CASE x - c - 1 \in Bits
    <3>1. x - c - 1 \in ShiftRight(crc) <=> (x - c - 1) + 1 \in crc
      BY <2>1, ShiftRightBits
    <3>2. (x - c - 1) + 1 = x - c /\ x > c
      BY <2>1 DEF Bits
    <3>3. QED BY <3>1, <3>2
  <2>2. CASE x - c - 1 \notin Bits
    <3>1. ~(x > c /\ x - c \in crc)
      BY <2>2 DEF Bits
    <3>2. QED BY <2>2, <3>1, ShiftRightBits
  <2>3. QED BY <2>1, <2>2
<1>3. CASE 0 \notin crc
  <2>1. next = rest /\ SoftBit(crc) = ShiftRight(crc)
    BY <1>1, <1>3 DEF TakeAway, SoftBit
  <2>2. ASSUME NEW x \in Int
        PROVE  x \in rest <=> x >= c + 1 /\ ~(x \in future <=> x - (c + 1) \in ShiftRight(crc))
    <3>1. x \in rest <=> x >= c /\ ~(x \in future <=> x - c \in crc)
      BY DEF Overlaid
    <3>2. x - (c + 1) = x - c - 1
      OBVIOUS
    <3>3. CASE x = c
      BY <1>1, <1>3, <3>3
    <3>4. CASE x # c
      BY <3>1, <3>2, <3>4, <1>2
    <3>5. QED BY <3>3, <3>4
  <2>3. QED BY <2>1, <2>2 DEF Overlaid
<1>4. CASE 0 \in crc
  <2>1. next = Xor(rest, Divisor(c)) /\ SoftBit(crc) = Xor(ShiftRight(crc), PolynomialR)
    BY <1>1, <1>4 DEF TakeAway, SoftBit
  <2>2. ASSUME NEW x \in Int, x # c
        PROVE  x \in Divisor(c) <=> x - c - 1 \in PolynomialR
    <3>1. x \in Divisor(c) <=> c + 32 - x \in Polynomial
      <4>1. x \in Divisor(c) <=> \E j \in Polynomial : x = c + 32 - j
        BY <2>2 DEF Divisor
      <4>2. \A j \in Polynomial : j \in Int
        BY DEF Polynomial
      <4>3. QED BY <4>1, <4>2
    <3>2. CASE c + 32 - x \in Bits
      <4>1. 31 - (c + 32 - x) = x - c - 1
        OBVIOUS
      <4>2. QED BY <3>1, <3>2, <4>1, PolynomialReflected
    <3>3. CASE c + 32 - x \notin Bits
      <4>1. x - c - 1 \notin Bits
        BY <3>3 DEF Bits
      <4>2. QED BY <3>1, <3>3, <4>1, PolynomialsAreRegisters
    <3>4. QED BY <3>2, <3>3
  <2>3. c \in Divisor(c)
    BY DEF Divisor
  <2>4. ASSUME NEW x \in Int
        PROVE  x \in next <=> x >= c + 1 /\ ~(x \in future <=> x - (c + 1) \in SoftBit(crc))
    <3>1. x \in rest <=> x >= c /\ ~(x \in future <=> x - c \in crc)
      BY DEF Overlaid
    <3>2. x \in next <=> ~(x \in rest <=> x \in Divisor(c))
      BY <2>1 DEF Xor
    <3>3. x - (c + 1) = x - c - 1
      OBVIOUS
    <3>4. x - c - 1 \in SoftBit(crc)
            <=> ~(x - c - 1 \in ShiftRight(crc) <=> x - c - 1 \in PolynomialR)
      BY <2>1 DEF Xor
    <3>5. CASE x = c
      BY <3>2, <3>5, <2>3, <1>1, <1>4
    <3>6. CASE x > c
      BY <3>1, <3>2, <3>3, <3>4, <3>6, <2>2, <1>2
    <3>7. CASE x < c
      <4>1. x - c - 1 \notin Bits
        BY <3>7 DEF Bits
      <4>2. x \notin Divisor(c)
        BY <4>1, <3>7, <2>2, PolynomialsAreRegisters
      <4>3. QED BY <3>1, <3>2, <3>7, <4>2
    <3>8. QED BY <3>5, <3>6, <3>7
  <2>5. next \subseteq Int
    <3>1. rest \subseteq Int
      BY DEF Overlaid
    <3>2. Divisor(c) \subseteq Int
      BY DivisorIsNumbers
    <3>3. QED BY <2>1, <3>1, <3>2 DEF Xor
  <2>6. QED BY <2>4, <2>5 DEF Overlaid
<1>5. QED BY <1>3, <1>4

\* The division of n bits: what is left after each of them.
LongDivision(words, rest) ==
    /\ rest[0] = Dividend(words)
    /\ \A i \in 1 .. 32 * Len(words) : rest[i] = TakeAway(rest[i - 1], i - 1)

LEMMA DivisionExists ==
    ASSUME NEW words \in Seq(SUBSET Bits)
    PROVE  \E rest : /\ LongDivision(words, rest)
                     /\ Remainder(words)
                          = {i - 32 * Len(words) : i \in rest[32 * Len(words)]}
<1> DEFINE n == 32 * Len(words)
           S == SUBSET Int
           Good(rest) == rest = [i \in 0 .. n |-> IF i = 0 THEN Dividend(words)
                                                  ELSE TakeAway(rest[i - 1], i - 1)]
           step == [i \in 1 .. n |-> [r \in S |-> TakeAway(r, i - 1)]]
<1>1. n \in Nat
  OBVIOUS
<1>2. Dividend(words) \in S
  <2>1. Dividend(words) = Xor(MessageBits(words), Bits)
    BY DEF Dividend, MessageBits
  <2>2. MessageBits(words) \subseteq Int
    BY MessageLength
  <2>3. Bits \subseteq Int
    BY DEF Bits
  <2>4. QED BY <2>1, <2>2, <2>3 DEF Xor
<1>3. step \in StepFunctions(n, S)
  <2>1. ASSUME NEW i \in Int, NEW r \in S
        PROVE  TakeAway(r, i) \in S
    <3>1. Divisor(i) \in S
      BY DivisorIsNumbers
    <3>2. QED BY <3>1 DEF TakeAway, Xor
  <2>2. QED BY <2>1 DEF StepFunctions
<1>4. \E r : Good(r)
  <2> HIDE DEF n
  <2>1. PICK r : Computes(r, n, S, Dividend(words), step)
    <3> HIDE DEF step, S
    <3>1. QED BY <1>1, <1>2, <1>3, Recursion
  <2>2. ASSUME NEW i \in 0 .. n, i # 0
        PROVE  r[i] = TakeAway(r[i - 1], i - 1)
    <3>1. i \in 1 .. n /\ i - 1 \in 0 .. n
      BY <1>1, <2>2
    <3>2. r[i - 1] \in S
      BY <2>1, <3>1 DEF Computes
    <3>3. QED BY <2>1, <3>1, <3>2 DEF Computes
  <2>3. QED BY <2>1, <2>2 DEF Computes
<1> DEFINE rest == CHOOSE r : Good(r)
<1>5. Good(rest)
  BY <1>4
<1>6. Remainder(words) = {i - n : i \in rest[n]}
  BY DEF Remainder
<1>7. LongDivision(words, rest)
  <2> HIDE DEF rest, n
  <2>1. QED BY <1>1, <1>5 DEF LongDivision, n
<1>8. QED BY <1>6, <1>7

\* 32 steps of the division are the software's steps for one word.
LEMMA DivisionWord ==
    ASSUME NEW words \in Seq(SUBSET Bits), NEW rest, LongDivision(words, rest),
           NEW c \in Nat, c + 32 <= 32 * Len(words),
           NEW future, \A x \in future : x >= c + 32,
           NEW crc \in SUBSET Bits, Overlaid(rest[c], c, future, crc)
    PROVE  Overlaid(rest[c + 32], c + 32, future,
                    SoftEight(SoftEight(SoftEight(SoftEight(crc)))))
<1> DEFINE S == SUBSET Bits
           step == [t \in 1 .. 32 |-> [a \in S |-> SoftBit(a)]]
<1>1. step \in StepFunctions(32, S)
  BY SoftBitRegister DEF StepFunctions
<1>2. PICK q : Computes(q, 32, S, crc, step)
  <2> HIDE DEF step
  <2>1. 32 \in Nat /\ crc \in S
    OBVIOUS
  <2>2. QED BY <1>1, <2>1, Recursion
<1>3. q[0] = crc /\ \A t \in 0 .. 31 : q[t] \in SUBSET Bits /\ q[t + 1] = SoftBit(q[t])
  <2>1. ASSUME NEW t \in 0 .. 31
        PROVE  q[t] \in SUBSET Bits /\ q[t + 1] = SoftBit(q[t])
    <3>1. t \in 0 .. 32 /\ t + 1 \in 1 .. 32 /\ (t + 1) - 1 = t
      OBVIOUS
    <3>2. q[t] \in S
      BY <1>2, <3>1 DEF Computes
    <3>3. q[t + 1] = step[t + 1][q[t]]
      <4> HIDE DEF step
      <4>1. QED BY <1>2, <3>1 DEF Computes
    <3>4. step[t + 1][q[t]] = SoftBit(q[t])
      BY <3>1, <3>2
    <3>5. QED BY <3>2, <3>3, <3>4
  <2>2. QED BY <1>2, <2>1 DEF Computes
<1> DEFINE D == {t \in 0 .. 32 : Overlaid(rest[c + t], c + t, future, q[t])}
<1>4. 0 \in D
  <2>1. c + 0 = c /\ 0 \in 0 .. 32
    OBVIOUS
  <2>2. QED BY <1>3, <2>1
<1>5. ASSUME NEW t \in 0 .. 31, t \in D
      PROVE  t + 1 \in D
  <2>1. /\ c + t \in Nat /\ c + t + 1 \in 1 .. 32 * Len(words)
        /\ (c + t + 1) - 1 = c + t /\ c + (t + 1) = c + t + 1
    OBVIOUS
  <2>2. rest[c + t + 1] = TakeAway(rest[c + t], c + t)
    BY <2>1 DEF LongDivision
  <2>3. c + t \notin future
    OBVIOUS
  <2>4. Overlaid(TakeAway(rest[c + t], c + t), c + t + 1, future, SoftBit(q[t]))
    BY <1>3, <1>5, <2>1, <2>3, DivisionBit
  <2>5. Overlaid(rest[c + (t + 1)], c + (t + 1), future, q[t + 1])
    <3>1. q[t + 1] = SoftBit(q[t])
      BY <1>3
    <3>2. QED BY <2>1, <2>2, <2>4, <3>1
  <2>6. t + 1 \in 0 .. 32
    OBVIOUS
  <2>7. QED BY <2>5, <2>6
<1>6. 32 \in D
  <2> HIDE DEF D
  <2>1. \A t \in 0 .. 32 - 1 : t \in D => t + 1 \in D
    BY <1>5
  <2>2. \A t \in 0 .. 32 : t \in D
    BY <1>4, <2>1, Induction
  <2>3. QED BY <2>2
<1>7. \A t \in {0, 8, 16, 24} : q[t + 8] = SoftEight(q[t])
  <2>1. ASSUME NEW t \in {0, 8, 16, 24}
        PROVE  q[t + 8] = SoftEight(q[t])
    <3>1. /\ q[t + 1] = SoftBit(q[t]) /\ q[t + 2] = SoftBit(q[t + 1])
          /\ q[t + 3] = SoftBit(q[t + 2]) /\ q[t + 4] = SoftBit(q[t + 3])
          /\ q[t + 5] = SoftBit(q[t + 4]) /\ q[t + 6] = SoftBit(q[t + 5])
          /\ q[t + 7] = SoftBit(q[t + 6]) /\ q[t + 8] = SoftBit(q[t + 7])
      <4>1. ASSUME NEW u \in 0 .. 7
            PROVE  q[t + (u + 1)] = SoftBit(q[t + u])
        <5>1. t + u \in 0 .. 31 /\ (t + u) + 1 = t + (u + 1)
          OBVIOUS
        <5>2. QED BY <1>3, <5>1
      <4>2. t + 0 = t
        OBVIOUS
      <4>3. QED BY <4>1, <4>2
    <3>2. QED BY <3>1 DEF SoftEight, Eight
  <2>2. QED BY <2>1
<1>8. q[32] = SoftEight(SoftEight(SoftEight(SoftEight(q[0]))))
  <2>1. /\ q[8] = SoftEight(q[0]) /\ q[16] = SoftEight(q[8])
        /\ q[24] = SoftEight(q[16]) /\ q[32] = SoftEight(q[24])
    BY <1>7
  <2>2. QED BY <2>1
<1>9. QED BY <1>3, <1>6, <1>8

\* What the software's register is after each word of a message.
History(words, h) ==
    /\ h \in [0 .. Len(words) -> SUBSET Bits]
    /\ h[0] = Bits
    /\ \A k \in 1 .. Len(words) : h[k] = SoftWord(h[k - 1], words[k])

From(words, c) == {x \in MessageBits(words) : x >= c}

\* Word by word, the division and the software stay together.
LEMMA DivisionIsSoftware ==
    ASSUME NEW words \in Seq(SUBSET Bits), NEW rest, LongDivision(words, rest),
           NEW h, History(words, h)
    PROVE  \A k \in 0 .. Len(words) :
              Overlaid(rest[32 * k], 32 * k, From(words, 32 * k), h[k])
<1> DEFINE N == Len(words)
           D == {k \in 0 .. N :
                   Overlaid(rest[32 * k], 32 * k, From(words, 32 * k), h[k])}
<1>1. N \in Nat
  OBVIOUS
<1>2. 0 \in D
  <2>1. rest[0] = Xor(MessageBits(words), Bits) /\ h[0] = Bits
    BY DEF LongDivision, Dividend, MessageBits, History
  <2>2. \A x \in MessageBits(words) : x \in Int /\ x >= 0
    BY MessageLength
  <2>3. From(words, 0) = MessageBits(words)
    BY <2>2 DEF From
  <2>4. ASSUME NEW x \in Int
        PROVE  x \in rest[0] <=> x >= 0 /\ ~(x \in MessageBits(words) <=> x \in Bits)
    <3>1. x \in rest[0] <=> ~(x \in MessageBits(words) <=> x \in Bits)
      BY <2>1 DEF Xor
    <3>2. x \in Bits => x >= 0
      BY DEF Bits
    <3>3. QED BY <2>2, <3>1, <3>2
  <2>5. \A x \in Int : x - 0 = x
    OBVIOUS
  <2>6. Overlaid(rest[0], 0, From(words, 0), h[0])
    <3>1. MessageBits(words) \subseteq Int /\ Bits \subseteq Int
      BY <2>2 DEF Bits
    <3>2. rest[0] \subseteq Int
      BY <2>1, <3>1 DEF Xor
    <3>3. \A x \in Int :
             x \in rest[0] <=> x >= 0 /\ ~(x \in From(words, 0) <=> x - 0 \in h[0])
      BY <2>1, <2>3, <2>4, <2>5
    <3>4. QED BY <3>2, <3>3 DEF Overlaid
  <2>7. 32 * 0 = 0 /\ 0 \in 0 .. N
    BY <1>1
  <2>8. QED BY <2>6, <2>7
<1>3. ASSUME NEW k \in 0 .. N - 1, k \in D
      PROVE  k + 1 \in D
  <2> DEFINE c == 32 * k
             w == words[k + 1]
             later == From(words, c + 32)
  <2>1. /\ c \in Nat /\ c + 32 <= 32 * N /\ 32 * (k + 1) = c + 32 /\ k \in 0 .. N
        /\ k + 1 \in 1 .. N /\ (k + 1) - 1 = k /\ k + 1 \in 0 .. N
    BY <1>1
  <2>2. h[k] \in SUBSET Bits /\ w \in SUBSET Bits
    BY <2>1 DEF History
  <2>3. Overlaid(rest[c], c, later, Xor(h[k], w))
    <3>1. Overlaid(rest[c], c, From(words, c), h[k])
      BY <1>3
    <3>2. ASSUME NEW x \in Int, x >= c
          PROVE  ~(x \in From(words, c) <=> x - c \in h[k])
                   <=> ~(x \in later <=> x - c \in Xor(h[k], w))
      <4>1. x \in From(words, c) <=> x \in MessageBits(words)
        BY <3>2 DEF From
      <4>2. x - c \in Xor(h[k], w) <=> ~(x - c \in h[k] <=> x - c \in w)
        BY DEF Xor
      <4>3. CASE x >= c + 32
        <5>1. x - c \notin w
          <6>1. x - c \notin Bits
            BY <4>3, <2>1 DEF Bits
          <6>2. QED BY <2>2, <6>1
        <5>2. x \in later <=> x \in MessageBits(words)
          BY <4>3 DEF From
        <5>3. QED BY <4>1, <4>2, <5>1, <5>2
      <4>4. CASE x < c + 32
        <5>1. x \notin later
          BY <4>4, <2>1 DEF From
        <5>2. x - c \in Bits /\ 32 * ((k + 1) - 1) + (x - c) = x
          BY <3>2, <4>4, <2>1 DEF Bits
        <5>3. x \in MessageBits(words) <=> x - c \in w
          BY <2>1, <5>2, MessageBit
        <5>4. QED BY <4>1, <4>2, <5>1, <5>3
      <4>5. QED BY <4>3, <4>4, <2>1
    <3>3. QED BY <3>1, <3>2, <2>1 DEF Overlaid
  <2>4. Overlaid(rest[c + 32], c + 32, later,
                 SoftEight(SoftEight(SoftEight(SoftEight(Xor(h[k], w))))))
    <3>1. \A x \in later : x >= c + 32
      BY DEF From
    <3>2. Xor(h[k], w) \in SUBSET Bits
      BY <2>2, XorBits
    <3> HIDE DEF c, later, w
    <3>3. QED BY <2>1, <2>3, <3>1, <3>2, DivisionWord
  <2>5. h[k + 1] = SoftWord(h[k], w)
    BY <2>1 DEF History
  <2>6. Overlaid(rest[c + 32], c + 32, later, h[k + 1])
    BY <2>2, <2>4, <2>5, SoftWordAtOnce
  <2>7. QED BY <2>1, <2>6
<1>4. QED
  <2> HIDE DEF D, N
  <2>1. \A k \in 0 .. N - 1 : k \in D => k + 1 \in D
    BY <1>3
  <2>2. \A k \in 0 .. N : k \in D
    BY <1>1, <1>2, <2>1, Induction
  <2>3. QED BY <2>2 DEF D, N

\* The register that a message leaves is the remainder of the division.
LEMMA HistoryEndsInReference ==
    ASSUME NEW words \in Seq(SUBSET Bits), NEW h, History(words, h)
    PROVE  Not(h[Len(words)]) = Reference(words)
<1> DEFINE n == 32 * Len(words)
<1>1. PICK rest : /\ LongDivision(words, rest)
                  /\ Remainder(words) = {i - n : i \in rest[n]}
  BY DivisionExists
<1>2. n \in Nat /\ Len(words) \in 0 .. Len(words)
  OBVIOUS
<1>3. Overlaid(rest[n], n, From(words, n), h[Len(words)])
  BY <1>1, <1>2, DivisionIsSoftware
<1>4. From(words, n) = {}
  BY <1>2, MessageLength DEF From
<1>5. h[Len(words)] \in SUBSET Bits
  BY <1>2 DEF History
<1>6. \A x \in Int : x \in rest[n] <=> x >= n /\ x - n \in h[Len(words)]
  BY <1>3, <1>4 DEF Overlaid
<1>7. rest[n] \subseteq Int
  BY <1>3 DEF Overlaid
<1>8. Remainder(words) = h[Len(words)]
  <2> HIDE DEF n
  <2>1. \A b \in Bits : b + n \in Int /\ (b + n) - n = b /\ b + n >= n
    BY <1>2 DEF Bits
  <2>2. \A x \in rest[n] : x - n \in h[Len(words)]
    BY <1>6, <1>7
  <2>3. \A b \in h[Len(words)] : b + n \in rest[n] /\ (b + n) - n = b
    BY <1>5, <1>6, <2>1
  <2>4. QED BY <1>1, <2>2, <2>3
<1>9. QED BY <1>8 DEF Reference

-----------------------------------------------------------------------------
(* The CRC of a message is the reference.                                   *)

\* The register of the port is where its history has brought it.
Recorded ==
    /\ message \in Seq(SUBSET Bits)
    /\ \E h : History(message, h) /\ soft = h[Len(message)]

THEOREM NothingRecorded == CrcInit => Recorded
<1> SUFFICES ASSUME CrcInit PROVE Recorded
  OBVIOUS
<1> DEFINE h == [k \in 0 .. 0 |-> Bits]
<1>1. message = <<>> /\ Len(message) = 0 /\ soft = Bits
  BY DEF CrcInit
<1>2. History(message, h) /\ h[0] = soft
  BY <1>1 DEF History
<1> HIDE DEF h
<1>3. message \in Seq(SUBSET Bits)
  BY <1>1
<1>4. QED BY <1>1, <1>2, <1>3 DEF Recorded

THEOREM WordsAreRecorded == Recorded /\ [CrcNext]_crcVars => Recorded'
<1> SUFFICES ASSUME Recorded, [CrcNext]_crcVars PROVE Recorded'
  OBVIOUS
<1>1. ASSUME NEW word \in WordValues, Accumulate(word)
      PROVE  Recorded'
  <2>1. word \in SUBSET Bits
    BY CrcAssumption
  <2>2. PICK h : History(message, h) /\ soft = h[Len(message)]
    BY DEF Recorded
  <2> DEFINE L == Len(message)
             g == [k \in 0 .. L + 1 |-> IF k = L + 1 THEN SoftWord(soft, word) ELSE h[k]]
  <2>3. /\ message \in Seq(SUBSET Bits) /\ message' = Append(message, word)
        /\ message' \in Seq(SUBSET Bits) /\ Len(message') = L + 1 /\ L \in Nat
        /\ soft' = SoftWord(soft, word) /\ message'[L + 1] = word
        /\ \A k \in 1 .. L : message'[k] = message[k]
    BY <1>1, <2>1 DEF Recorded, Accumulate
  <2>4. soft \in SUBSET Bits /\ \A k \in 0 .. L : h[k] \in SUBSET Bits
    <3>1. \A k \in 0 .. L : h[k] \in SUBSET Bits
      BY <2>2 DEF History
    <3>2. L \in 0 .. L
      BY <2>3
    <3>3. QED BY <2>2, <3>1, <3>2
  <2>5. g \in [0 .. L + 1 -> SUBSET Bits] /\ g[0] = Bits /\ g[L + 1] = SoftWord(soft, word)
    BY <2>1, <2>2, <2>3, <2>4, SoftWordAtOnce DEF History
  <2>6. ASSUME NEW k \in 1 .. L + 1
        PROVE  g[k] = SoftWord(g[k - 1], message'[k])
    <3>1. CASE k = L + 1
      BY <2>2, <2>3, <3>1
    <3>2. CASE k # L + 1
      <4>1. k \in 1 .. L /\ k - 1 \in 0 .. L + 1 /\ k - 1 # L + 1 /\ k \in 0 .. L + 1
        BY <2>3, <3>2
      <4>2. g[k] = h[k] /\ g[k - 1] = h[k - 1]
        BY <3>2, <4>1
      <4>3. h[k] = SoftWord(h[k - 1], message[k])
        BY <2>2, <4>1 DEF History
      <4> HIDE DEF g
      <4>4. QED BY <2>3, <4>1, <4>2, <4>3
    <3>3. QED BY <3>1, <3>2
  <2> HIDE DEF g
  <2>7. History(message', g) /\ soft' = g[Len(message')]
    BY <2>3, <2>5, <2>6 DEF History
  <2>8. QED BY <2>3, <2>7 DEF Recorded
<1>2. CASE UNCHANGED crcVars
  BY <1>2 DEF crcVars, Recorded
<1>3. QED BY <1>1, <1>2 DEF CrcNext

\* For every message, what boot_port_crc_get returns on the STM32F4 (and, by
\* CrcPortsAgree, on the HC32F460) is the CRC-32 of polynomial division, the one
\* that the maker of an image file computes.
THEOREM CrcIsTheReference == CrcSpec => []CrcIsReference
<1>1. Recorded => CrcIsReference
  BY HistoryEndsInReference DEF Recorded, CrcIsReference, SoftGet
<1>2. QED BY <1>1, NothingRecorded, WordsAreRecorded, PTL DEF CrcSpec

-----------------------------------------------------------------------------
(* The CRC of the meta record.                                              *)

BytesOf(words, n) == [i \in 1 .. 4 * n |-> ByteOf(words[(i - 1) \div 4 + 1], (i - 1) % 4)]

\* The loop of boot_meta_crc32_soft has been at the register of the word loop
\* after every fourth byte.
LEMMA BytesMakeHistory ==
    ASSUME NEW words \in Seq(SUBSET Bits)
    PROVE  \E h : /\ History(words, h)
                  /\ MetaCrc(BytesOf(words, Len(words))) = Not(h[Len(words)])
<1> DEFINE L == Len(words)
           N == 4 * L
           b == BytesOf(words, L)
           S == SUBSET Bits
           Good(f) == f = [n \in 0 .. N |-> IF n = 0 THEN Bits ELSE SoftByte(f[n - 1], b[n])]
           step == [n \in 1 .. N |-> [a \in S |-> SoftByte(a, b[n])]]
<1>1. L \in Nat /\ N \in Nat /\ Bits \in S
  OBVIOUS
<1>2. ASSUME NEW k \in 1 .. L, NEW j \in 0 .. 3
      PROVE  4 * (k - 1) + j + 1 \in 1 .. N /\ b[4 * (k - 1) + j + 1] = ByteOf(words[k], j)
  <2> DEFINE i == 4 * (k - 1) + j + 1
  <2>1. i \in 1 .. 4 * L /\ (i - 1) \div 4 + 1 = k /\ (i - 1) % 4 = j
    BY <1>1
  <2> HIDE DEF i
  <2>2. b[i] = ByteOf(words[k], j)
    BY <2>1 DEF BytesOf
  <2>3. QED BY <2>1, <2>2 DEF i
<1>3. ASSUME NEW n \in 1 .. N
      PROVE  \E k \in 1 .. L : \E j \in 0 .. 3 : n = 4 * (k - 1) + j + 1
  <2>1. /\ (n - 1) \div 4 + 1 \in 1 .. L /\ (n - 1) % 4 \in 0 .. 3
        /\ n = 4 * (((n - 1) \div 4 + 1) - 1) + ((n - 1) % 4) + 1
    BY <1>1
  <2>2. QED BY <2>1
<1>4. ASSUME NEW n \in 1 .. N, NEW a \in S
      PROVE  SoftByte(a, b[n]) \in S
  <2>1. PICK k \in 1 .. L : \E j \in 0 .. 3 : n = 4 * (k - 1) + j + 1
    BY <1>3
  <2>2. PICK j \in 0 .. 3 : n = 4 * (k - 1) + j + 1
    BY <2>1
  <2>3. b[n] = ByteOf(words[k], j)
    <3> HIDE DEF b
    <3>1. b[4 * (k - 1) + j + 1] = ByteOf(words[k], j)
      BY <1>2
    <3>2. QED BY <2>2, <3>1
  <2>4. words[k] \in SUBSET Bits
    OBVIOUS
  <2>5. QED BY <2>3, <2>4, ByteOfWord
<1>5. step \in StepFunctions(N, S)
  <2> HIDE DEF N, b
  <2>1. QED BY <1>4 DEF StepFunctions
<1>6. PICK f : Computes(f, N, S, Bits, step)
  <2> HIDE DEF N, S, step
  <2>1. QED BY <1>1, <1>5, Recursion
<1>7. ASSUME NEW n \in 1 .. N
      PROVE  f[n] = SoftByte(f[n - 1], b[n]) /\ f[n - 1] \in S
  <2>1. n - 1 \in 0 .. N
    BY <1>1
  <2>2. f[n - 1] \in S /\ f[n] = step[n][f[n - 1]]
    <3> HIDE DEF N, step
    <3>1. QED BY <1>6, <2>1 DEF Computes
  <2>3. QED
    <3> HIDE DEF N, b
    <3>1. QED BY <2>2
<1>8. \E g : Good(g)
  <2>1. f \in [0 .. N -> S] /\ f[0] = Bits
    <3> HIDE DEF N, step
    <3>1. QED BY <1>6 DEF Computes
  <2>2. \A n \in 0 .. N : n # 0 => n \in 1 .. N
    BY <1>1
  <2> HIDE DEF N, b, step
  <2>3. Good(f)
    BY <1>7, <2>1, <2>2
  <2> HIDE DEF Good
  <2>4. QED BY <2>3
<1> DEFINE c == CHOOSE g : Good(g)
<1>9. Good(c)
  <2> HIDE DEF Good
  <2>1. QED BY <1>8
<1>10. Len(b) = N
  BY <1>1 DEF BytesOf
<1>11. MetaCrc(b) = Not(c[N])
  <2> HIDE DEF b, N
  <2>1. MetaCrc(b) = Not((CHOOSE g : g = [n \in 0 .. Len(b) |->
                              IF n = 0 THEN Bits ELSE SoftByte(g[n - 1], b[n])])[Len(b)])
    BY DEF MetaCrc
  <2>2. QED BY <2>1, <1>10
<1>12. c[0] = Bits /\ \A n \in 1 .. N : c[n] = SoftByte(c[n - 1], b[n])
  <2>1. \A n \in 1 .. N : n \in 0 .. N /\ n # 0
    BY <1>1
  <2>2. 0 \in 0 .. N
    BY <1>1
  <2> HIDE DEF c, b, N
  <2>3. QED BY <1>9, <2>1, <2>2
<1> HIDE DEF c
<1> DEFINE h == [k \in 0 .. L |-> c[4 * k]]
<1>13. ASSUME NEW k \in 1 .. L
       PROVE  c[4 * k] = SoftWord(c[4 * (k - 1)], words[k])
  <2> DEFINE m == 4 * (k - 1)
  <2>1. /\ m + 1 \in 1 .. N /\ m + 2 \in 1 .. N /\ m + 3 \in 1 .. N /\ m + 4 \in 1 .. N
        /\ (m + 1) - 1 = m /\ (m + 2) - 1 = m + 1 /\ (m + 3) - 1 = m + 2
        /\ (m + 4) - 1 = m + 3 /\ 4 * k = m + 4
    BY <1>1
  <2>2. /\ b[m + 1] = ByteOf(words[k], 0) /\ b[m + 2] = ByteOf(words[k], 1)
        /\ b[m + 3] = ByteOf(words[k], 2) /\ b[m + 4] = ByteOf(words[k], 3)
    <3>1. /\ m + 0 + 1 = m + 1 /\ m + 1 + 1 = m + 2
          /\ m + 2 + 1 = m + 3 /\ m + 3 + 1 = m + 4
      OBVIOUS
    <3>2. \A j \in 0 .. 3 : b[m + j + 1] = ByteOf(words[k], j)
      BY <1>2
    <3> HIDE DEF b
    <3>3. 0 \in 0 .. 3 /\ 1 \in 0 .. 3 /\ 2 \in 0 .. 3 /\ 3 \in 0 .. 3
      OBVIOUS
    <3>4. QED BY <3>1, <3>2, <3>3
  <2> HIDE DEF m, b, N
  <2>3. /\ c[m + 1] = SoftByte(c[m], b[m + 1]) /\ c[m + 2] = SoftByte(c[m + 1], b[m + 2])
        /\ c[m + 3] = SoftByte(c[m + 2], b[m + 3]) /\ c[m + 4] = SoftByte(c[m + 3], b[m + 4])
    <3>1. \A n \in 1 .. N : c[n] = SoftByte(c[n - 1], b[n])
      BY <1>12
    <3>2. QED BY <2>1, <3>1
  <2>4. c[m + 4] = SoftWord(c[m], words[k])
    BY <2>2, <2>3 DEF SoftWord
  <2>5. QED BY <2>1, <2>4 DEF m
<1>14. \A k \in 0 .. L : h[k] \in SUBSET Bits
  <2> DEFINE D == {k \in 0 .. L : c[4 * k] \in SUBSET Bits}
  <2>1. 0 \in D
    BY <1>1, <1>12
  <2>2. ASSUME NEW k \in 0 .. L - 1, k \in D
        PROVE  k + 1 \in D
    <3>1. k + 1 \in 1 .. L /\ k + 1 \in 0 .. L /\ (k + 1) - 1 = k
      BY <1>1
    <3>2. c[4 * (k + 1)] = SoftWord(c[4 * k], words[k + 1])
      BY <1>13, <3>1
    <3>3. c[4 * k] \in SUBSET Bits /\ words[k + 1] \in SUBSET Bits
      BY <2>2, <3>1
    <3>4. QED BY <3>1, <3>2, <3>3, SoftWordAtOnce
  <2>3. \A k \in 0 .. L : k \in D
    <3> HIDE DEF D, L
    <3>1. \A k \in 0 .. L - 1 : k \in D => k + 1 \in D
      BY <2>2
    <3>2. QED BY <1>1, <2>1, <3>1, Induction
  <2>4. QED BY <2>3
<1>15. History(words, h)
  <2>1. h \in [0 .. L -> SUBSET Bits]
    BY <1>14
  <2>2. h[0] = Bits
    BY <1>1, <1>12
  <2>3. ASSUME NEW k \in 1 .. L
        PROVE  h[k] = SoftWord(h[k - 1], words[k])
    <3>1. k \in 0 .. L /\ k - 1 \in 0 .. L
      BY <1>1
    <3>2. QED BY <3>1, <1>13
  <2> HIDE DEF h
  <2>4. QED BY <2>1, <2>2, <2>3 DEF History
<1>16. h[L] = c[N]
  BY <1>1
<1> HIDE DEF h
<1>17. QED BY <1>11, <1>15, <1>16

\* The CRC in the meta record is the same CRC-32, over each word before meta_crc
\* and over nothing else, whatever the record holds and however long it is.
THEOREM MetaCrcIsTheReference == CrcSpec => []MetaCrcCoversRecord
<1>1. Recorded => MetaCrcCoversRecord
  <2> SUFFICES ASSUME Recorded, message # <<>>
               PROVE  MetaCalcCrc(message)
                        = Reference(SubSeq(message, 1, Len(message) - 1))
    BY DEF MetaCrcCoversRecord
  <2> DEFINE n == Len(message) - 1
             words == SubSeq(message, 1, n)
  <2>1. message \in Seq(SUBSET Bits) /\ n \in Nat
    BY DEF Recorded
  <2>2. words \in Seq(SUBSET Bits) /\ Len(words) = n /\ \A i \in 1 .. n : words[i] = message[i]
    <3>1. \A i \in 1 .. n : message[i] \in SUBSET Bits
      BY <2>1
    <3>2. words = [i \in 1 .. n |-> message[i]]
      BY <2>1
    <3> HIDE DEF words
    <3>3. QED BY <2>1, <3>1, <3>2
  <2>3. ASSUME NEW i \in 1 .. 4 * n
        PROVE  words[(i - 1) \div 4 + 1] = message[(i - 1) \div 4 + 1]
    <3>1. (i - 1) \div 4 + 1 \in 1 .. n
      BY <2>1
    <3> HIDE DEF words
    <3>2. QED BY <2>2, <3>1
  <2>4. MetaCalcCrc(message) = MetaCrc(BytesOf(words, n))
    <3> HIDE DEF words
    <3>1. [i \in 1 .. 4 * n |-> ByteOf(message[(i - 1) \div 4 + 1], (i - 1) % 4)]
            = BytesOf(words, n)
      BY <2>3 DEF BytesOf
    <3>2. QED BY <3>1 DEF MetaCalcCrc
  <2> HIDE DEF words
  <2>5. PICK h : History(words, h) /\ MetaCrc(BytesOf(words, n)) = Not(h[n])
    BY <2>2, BytesMakeHistory
  <2>6. QED BY <2>2, <2>4, <2>5, HistoryEndsInReference DEF words
<1>2. QED BY <1>1, NothingRecorded, WordsAreRecorded, PTL DEF CrcSpec

-----------------------------------------------------------------------------
(* A changed image.                                                         *)

\* Two images that differ in a single word, in whichever of its bits, have
\* different CRCs: what the CRC comparison of boot_core_firmware_update is for.
THEOREM ChangedWordShows ==
    ASSUME NEW words \in Seq(SUBSET Bits), NEW other \in Seq(SUBSET Bits),
           Len(words) = Len(other), NEW p \in 1 .. Len(words), words[p] # other[p],
           \A i \in 1 .. Len(words) : i # p => words[i] = other[i]
    PROVE  Reference(words) # Reference(other)
<1> DEFINE L == Len(words)
<1>1. PICK h : History(words, h)
  BY BytesMakeHistory
<1>2. PICK g : History(other, g)
  BY BytesMakeHistory
<1>3. /\ L \in Nat
      /\ \A k \in 0 .. L : h[k] \in SUBSET Bits /\ g[k] \in SUBSET Bits
      /\ h[0] = Bits /\ g[0] = Bits
  <2>1. L \in Nat
    OBVIOUS
  <2>2. h \in [0 .. L -> SUBSET Bits] /\ h[0] = Bits
    BY <1>1 DEF History
  <2>3. g \in [0 .. L -> SUBSET Bits] /\ g[0] = Bits
    BY <1>2 DEF History
  <2> HIDE DEF L
  <2>4. QED BY <2>1, <2>2, <2>3
<1>4. ASSUME NEW k \in 0 .. L - 1
      PROVE  /\ k \in 0 .. L /\ k + 1 \in 0 .. L /\ k + 1 \in 1 .. L
             /\ words[k + 1] \in SUBSET Bits /\ other[k + 1] \in SUBSET Bits
             /\ h[k + 1] = SoftWord(h[k], words[k + 1])
             /\ g[k + 1] = SoftWord(g[k], other[k + 1])
  <2>1. k + 1 \in 1 .. L /\ (k + 1) - 1 = k /\ k \in 0 .. L /\ k + 1 \in 0 .. L
    BY <1>3
  <2>2. QED BY <1>1, <1>2, <2>1 DEF History
<1> DEFINE D == {k \in 0 .. L : h[k] = g[k] <=> k < p}
<1>5. 0 \in D
  BY <1>3
<1>6. ASSUME NEW k \in 0 .. L - 1, k \in D
      PROVE  k + 1 \in D
  <2>1. h[k] \in SUBSET Bits /\ g[k] \in SUBSET Bits
    BY <1>3, <1>4
  <2>2. CASE k + 1 < p
    <3>1. words[k + 1] = other[k + 1] /\ h[k] = g[k]
      BY <1>4, <1>6, <2>2
    <3>2. QED BY <1>4, <2>2, <3>1
  <2>3. CASE k + 1 = p
    <3>1. words[k + 1] # other[k + 1] /\ h[k] = g[k]
      BY <1>6, <2>3
    <3>2. /\ words[k + 1] \in SUBSET Bits /\ other[k + 1] \in SUBSET Bits
          /\ h[k + 1] = SoftWord(h[k], words[k + 1])
          /\ g[k + 1] = SoftWord(h[k], other[k + 1])
      BY <1>4, <3>1
    <3>3. SoftWord(h[k], words[k + 1]) # SoftWord(h[k], other[k + 1])
      BY <2>1, <3>1, <3>2, WordKeepsApart
    <3>4. h[k + 1] # g[k + 1]
      BY <3>2, <3>3
    <3>5. QED BY <1>4, <2>3, <3>4
  <2>4. CASE k + 1 > p
    <3>1. words[k + 1] = other[k + 1] /\ h[k] # g[k]
      BY <1>4, <1>6, <2>4
    <3>2. /\ words[k + 1] \in SUBSET Bits
          /\ h[k + 1] = SoftWord(h[k], words[k + 1])
          /\ g[k + 1] = SoftWord(g[k], words[k + 1])
      BY <1>4, <3>1
    <3>3. SoftWord(h[k], words[k + 1]) # SoftWord(g[k], words[k + 1])
      BY <2>1, <3>1, <3>2, WordKeepsApart
    <3>4. h[k + 1] # g[k + 1]
      BY <3>2, <3>3
    <3>5. QED BY <1>4, <2>4, <3>4
  <2>5. QED BY <2>2, <2>3, <2>4
<1>7. L \in D
  <2> HIDE DEF D, L
  <2>1. \A k \in 0 .. L - 1 : k \in D => k + 1 \in D
    BY <1>6
  <2>2. \A k \in 0 .. L : k \in D
    BY <1>3, <1>5, <2>1, Induction
  <2>3. QED BY <1>3, <2>2
<1>8. h[L] # g[L] /\ h[L] \in SUBSET Bits /\ g[L] \in SUBSET Bits
  BY <1>3, <1>7
<1>9. Not(h[L]) # Not(g[L])
  BY <1>8 DEF Not
<1>10. QED BY <1>1, <1>2, <1>9, HistoryEndsInReference
=============================================================================
