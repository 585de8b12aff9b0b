-------------------------------- MODULE Crc32 --------------------------------
(***************************************************************************)
(* The CRC of an image is computed by whatever the port has: the CRC unit  *)
(* of the HC32F460 (boot_hc32f460_ram_driver.c) or a loop over words       *)
(* (boot_port_stm32f4_generic_impl.c); boot_meta.c has a loop over bytes   *)
(* for the meta page.  The expected value is made elsewhere, so all three  *)
(* must be the one CRC-32, however boot_core.c cuts the image into calls.  *)
(*                                                                         *)
(* A 32-bit register is the set of its one bits: exclusive or is the       *)
(* symmetric difference.  A message is a sequence of words.                *)
(***************************************************************************)
EXTENDS Integers, Sequences

CONSTANTS
    WordValues, \* the words that messages are made of
    MaxWords    \* the length of a message at which the run stops

Bits == 0 .. 31

Xor(a, b) == (a \ b) \union (b \ a)
Not(a)    == Bits \ a
ShiftRight(a) == {i - 1 : i \in a \ {0}}
ShiftLeft(a)  == {i + 1 : i \in a \ {31}}
Reflected(a)  == {31 - i : i \in a}

\* 0x04C11DB7, and 0xEDB88320, which is the same polynomial from the other end.
Polynomial == {26, 23, 22, 16, 12, 11, 10, 8, 7, 5, 4, 2, 1, 0}
PolynomialR == {31, 30, 29, 27, 26, 24, 23, 21, 20, 19, 15, 9, 8, 5}

\* The byte number k of a word, in a register of its own.
ByteOf(word, k) == {i - 8 * k : i \in {j \in word : j \div 8 = k}}

ASSUME CrcAssumption == WordValues \subseteq SUBSET Bits /\ MaxWords \in Nat

VARIABLES
    message,    \* the words that have been accumulated
    unit,       \* RESLT of the CRC unit
    soft        \* g_boot_crc32 of the STM32F4 port

crcVars == <<message, unit, soft>>

-----------------------------------------------------------------------------
Eight(F(_), a) == F(F(F(F(F(F(F(F(a))))))))

\* One bit of the loops of the STM32F4 port and of boot_meta_crc32_soft.
SoftBit(crc) ==
    IF 0 \in crc THEN Xor(ShiftRight(crc), PolynomialR) ELSE ShiftRight(crc)

SoftByte(crc, byte) == Eight(SoftBit, Xor(crc, byte))

SoftWord_Three(crc, word) ==
    SoftByte(SoftByte(SoftByte(crc, ByteOf(word, 0)), ByteOf(word, 1)), ByteOf(word, 2))

\* boot_port_crc_accumulate32 of the STM32F4 port, for one word.
SoftWord(crc, word) ==
    SoftByte(SoftByte(SoftByte(SoftByte(crc, ByteOf(word, 0)), ByteOf(word, 1)),
                      ByteOf(word, 2)), ByteOf(word, 3))

SoftGet(crc) == Not(crc)

MetaCrc_NoFinalXor(bytes) ==
    LET crc[n \in 0 .. Len(bytes)] ==
          IF n = 0 THEN Bits ELSE SoftByte(crc[n - 1], bytes[n])
    IN  crc[Len(bytes)]

\* boot_meta_crc32_soft over a sequence of bytes.
MetaCrc(bytes) ==
    LET crc[n \in 0 .. Len(bytes)] ==
          IF n = 0 THEN Bits ELSE SoftByte(crc[n - 1], bytes[n])
    IN  Not(crc[Len(bytes)])

\* boot_meta_calc_crc: the record without its last word, meta_crc.
MetaCalcCrc(words) ==
    MetaCrc([i \in 1 .. 4 * (Len(words) - 1) |->
                ByteOf(words[(i - 1) \div 4 + 1], (i - 1) % 4)])

\* The CRC unit works from the high bit, on words whose bits it reflects first.
UnitBit(crc) ==
    IF 31 \in crc THEN Xor(ShiftLeft(crc), Polynomial) ELSE ShiftLeft(crc)

UnitByte(crc) == Eight(UnitBit, crc)

UnitWord(crc, word) == UnitByte(UnitByte(UnitByte(UnitByte(Xor(crc, Reflected(word))))))

\* RAM_Crc_Config: both reflections on, no final exclusive or, all ones.
UnitInit == Bits

UnitResult_Raw(crc) == crc

UnitResult(crc) == Reflected(crc)

\* RAM_CalcCRC32Get; the flag of the unit that makes it return 0 is taken as clear.
UnitGet(crc) == Xor(UnitResult(crc), Bits)

-----------------------------------------------------------------------------
CrcInit == message = <<>> /\ unit = UnitInit /\ soft = Bits

\* One turn of the loop of boot_port_crc_accumulate32.  Nothing else happens
\* between two calls of it, so the turns of several calls are one sequence.
Accumulate(word) ==
    /\ Len(message) < MaxWords
    /\ message' = Append(message, word)
    /\ unit' = UnitWord(unit, word)
    /\ soft' = SoftWord(soft, word)

CrcNext == \E word \in WordValues : Accumulate(word)

CrcSpec == CrcInit /\ [][CrcNext]_crcVars

-----------------------------------------------------------------------------
\* The reference: division of polynomials.  The message, its first bit first,
\* with the first 32 bits inverted and 32 zeros behind; as long as a bit of the
\* message is left, the polynomial is taken away from under it.
Dividend(words) ==
    Xor(UNION {{32 * (i - 1) + j : j \in words[i]} : i \in DOMAIN words}, Bits)

Divisor(i) == {i} \union {i + 32 - j : j \in Polynomial}

TakeAway(rest, i) == IF i \in rest THEN Xor(rest, Divisor(i)) ELSE rest

Remainder(words) ==
    LET n == 32 * Len(words)
        rest[i \in 0 .. n] ==
          IF i = 0 THEN Dividend(words) ELSE TakeAway(rest[i - 1], i - 1)
    IN  {i - n : i \in rest[n]}

Reference(words) == Not(Remainder(words))

\* An image has one CRC on both ports, the hardware's and the software's.
PortsAgree == UnitGet(unit) = SoftGet(soft)

\* And it is the CRC-32 that the maker of an image file computes.
CrcIsReference == SoftGet(soft) = Reference(message)

\* The CRC of the meta record covers every word before meta_crc, and that one not.
MetaCrcCoversRecord ==
    message # <<>> =>
       MetaCalcCrc(message) = Reference(SubSeq(message, 1, Len(message) - 1))
=============================================================================
