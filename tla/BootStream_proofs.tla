-------------------------- MODULE BootStream_proofs --------------------------
(***************************************************************************)
(* Theorems about BootStream, for every geometry that satisfies            *)
(* GeometryAssumption, every file that fits the application area and both  *)
(* storage modes.                                                          *)
(*                                                                         *)
(*   StreamTypeCorrect       Spec => []TypeOK                              *)
(*   BufferNeverOverruns     Spec => []BufferFits                          *)
(*   NeverProgramsOutside    Spec => []ProgramsInsideApp                   *)
(*   CrcIsOfTheFlash         Spec => []CrcCoversFlash                      *)
(*   StreamIsTheFile         Spec => []FixedStreamIsFile                   *)
(*   PassEnds                Spec => PassAdvances                          *)
(*                                                                         *)
(* The argument.  Account says where each byte of the file is: taken by    *)
(* the CRC unit, in the buffer, or still to be read; and that the CRC unit *)
(* has taken whole transfers.  Copied says that flash holds what the CRC   *)
(* unit took.  InOrder says which bytes these are: the buffer continues    *)
(* what was taken, and the next sector continues the buffer.               *)
(***************************************************************************)
EXTENDS BootStream, Arithmetic

Account ==
    /\ crcSize <= fileSize
    /\ pc = "first" => remain = fileSize /\ bufferSize = 0 /\ crcSize = 0
    /\ pc \in {"next", "drain", "last"} =>
          /\ crcSize + bufferSize + remain = fileSize
          /\ bufferSize > 0
    /\ pc \in {"next", "drain"} => node \in 1 .. Last
    /\ pc = "next" => bufferSize <= TransferSize /\ remain > 0
    /\ pc = "drain" => bufferSize <= SectorSize + TransferSize
    /\ pc = "last" => bufferSize <= TransferSize /\ remain = 0
    /\ pc \notin {"done", "fail"} =>
          /\ \E n \in Nat : crcSize = n * TransferSize
          /\ pass = 1 => flashAddress = crcSize

Copied ==
    pass = 1 => \A a \in AppIndex : flash[a] = IF a < crcSize THEN crc[a] ELSE Filler

\* The address of byte i of a MODE2 file.
FileAddress(i) == PayloadAddress(FirstNode, start + i)

InOrder ==
    mode = "FIXED" =>
        /\ \A i \in 0 .. crcSize - 1 : crc[i] = FileAddress(i)
        /\ pc \in {"next", "drain", "last"} =>
              \A i \in 0 .. bufferSize - 1 : buffer[i] = FileAddress(crcSize + i)
        /\ pc \in {"next", "drain"} /\ remain > 0 =>
              PayloadAddress(node + 1, 0) = FileAddress(crcSize + bufferSize)

Whole ==
    pc = "done" => crcSize = fileSize - (fileSize % WordSize)

SafeInv == TypeOK /\ Account

StreamInv == SafeInv /\ Copied /\ InOrder /\ Whole

-----------------------------------------------------------------------------
(* Arithmetic.                                                              *)

\* The whole words of the last transfer, and what they leave over.
LEMMA WholeWordsBounds ==
    ASSUME bufferSize \in Nat
    PROVE  /\ WholeWords \in 0 .. bufferSize
           /\ bufferSize - WholeWords \in 0 .. WordSize - 1
           /\ \E q \in Nat : WholeWords = q * WordSize
<1>0. /\ bufferSize = (bufferSize \div WordSize) * WordSize + (bufferSize % WordSize)
      /\ bufferSize \div WordSize \in Nat
      /\ bufferSize % WordSize \in 0 .. WordSize - 1
  BY GeometryAssumption
<1>1. PICK p \in Nat : p = bufferSize \div WordSize
  BY <1>0
<1>2. bufferSize = p * WordSize + (bufferSize % WordSize)
      /\ bufferSize % WordSize \in 0 .. WordSize - 1
  BY <1>0, <1>1
<1>3. WholeWords = p * WordSize /\ p * WordSize \in Nat
  BY <1>1, GeometryAssumption DEF WholeWords
<1>4. WholeWords \in 0 .. bufferSize /\ bufferSize - WholeWords \in 0 .. WordSize - 1
  BY <1>2, <1>3, GeometryAssumption
<1>5. QED BY <1>3, <1>4

\* After the last piece, the CRC unit has taken the whole words of the file.
LEMMA WholeWordsOfFile ==
    ASSUME NEW n \in Nat, bufferSize \in Nat, fileSize \in Nat,
           n * TransferSize + bufferSize = fileSize
    PROVE  n * TransferSize + WholeWords = fileSize - (fileSize % WordSize)
<1>1. PICK m \in Nat : TransferSize = m * WordSize
  BY GeometryAssumption
<1>2. PICK q \in Nat : WholeWords = q * WordSize
  BY WholeWordsBounds
<1>3. PICK r \in 0 .. WordSize - 1 : r = bufferSize - WholeWords
  BY WholeWordsBounds
<1>4. n * TransferSize + WholeWords = (n * m + q) * WordSize
  <2>1. n * TransferSize = (n * m) * WordSize
    BY <1>1, GeometryAssumption
  <2>2. n * m \in Nat
    OBVIOUS
  <2>3. QED BY <1>2, <2>1, <2>2, GeometryAssumption
<1>5. PICK u \in Nat : u = n * m + q
  <2>1. n * m + q \in Nat
    OBVIOUS
  <2>2. QED BY <2>1
<1>6. fileSize = u * WordSize + r
  <2>1. WholeWords + r = bufferSize
    BY <1>3, WholeWordsBounds
  <2>2. n * TransferSize \in Nat /\ WholeWords \in Nat
    BY WholeWordsBounds, GeometryAssumption
  <2>3. QED BY <1>3, <1>4, <1>5, <2>1, <2>2
<1>7. fileSize % WordSize = r
  BY <1>5, <1>6, DivisionUnique, GeometryAssumption
<1>8. n * TransferSize \in Nat /\ WholeWords \in Nat /\ bufferSize = WholeWords + r
  BY <1>3, WholeWordsBounds, GeometryAssumption
<1>9. QED BY <1>7, <1>8

-----------------------------------------------------------------------------
(* Types and sizes.                                                         *)

\* A read leaves bytes in the buffer.
LEMMA ReadType ==
    ASSUME TypeOK, NEW at \in Nat, NEW address \in Nat, NEW size \in Nat,
           ReadInto(at, address, size)
    PROVE  buffer' \in [BufferIndex -> Bytes]
<1>1. \A i \in BufferIndex : i \in at .. at + size - 1 => address + (i - at) \in Nat
  BY GeometryAssumption DEF BufferIndex
<1>2. QED BY <1>1 DEF ReadInto, TypeOK, Bytes

\* What goes to the CRC unit and to flash are bytes.
LEMMA TransferType ==
    ASSUME TypeOK, NEW n \in 0 .. TransferSize, NEW data,
           \A i \in 0 .. TransferSize - 1 : data[i] \in Bytes,
           Accumulate(data, n), ProgramPage(data)
    PROVE  /\ crc' \in [AppIndex -> Bytes]
           /\ crcSize' = crcSize + n /\ crcSize' \in Nat
           /\ flash' \in [AppIndex -> Bytes]
<1>1. \A i \in AppIndex : i \in crcSize .. crcSize + n - 1
         => i - crcSize \in 0 .. TransferSize - 1
  BY GeometryAssumption DEF AppIndex, TypeOK
<1>2. crc' \in [AppIndex -> Bytes]
  BY <1>1 DEF Accumulate, TypeOK
<1>3. \A a \in AppIndex : a \in flashAddress .. flashAddress + TransferSize - 1
         => a - flashAddress \in 0 .. TransferSize - 1
  BY GeometryAssumption DEF AppIndex, TypeOK
<1>4. flash' \in [AppIndex -> Bytes]
  BY <1>3 DEF ProgramPage, TypeOK
<1>5. QED BY <1>2, <1>4, GeometryAssumption DEF Accumulate, TypeOK

\* The payload of a sector has an address on the chip.
LEMMA AddressType ==
    ASSUME NEW n \in 1 .. Last, NEW offset \in Nat
    PROVE  PayloadAddress(n, offset) \in Nat
<1>1. n - 1 \in Nat /\ SectorSize * (n - 1) \in Nat
  BY GeometryAssumption
<1>2. HeaderLength \in Nat
  BY GeometryAssumption DEF HeaderLength
<1>3. QED BY <1>1, <1>2 DEF PayloadAddress

LEMMA NodeType ==
    ASSUME TypeOK
    PROVE  /\ FirstNode \in 0 .. Last
           /\ \A n \in 1 .. Last : NextNode(n) \in 0 .. Last
BY GeometryAssumption DEF TypeOK, FirstNode, NextNode

LEMMA InitSafe == Init => SafeInv
<1> SUFFICES ASSUME Init PROVE SafeInv
  OBVIOUS
<1>1. TypeOK
  BY GeometryAssumption DEF Init, TypeOK, BufferIndex, AppIndex, Bytes
<1>2. crcSize = 0 * TransferSize
  BY GeometryAssumption DEF Init
<1>3. Account
  BY <1>2, GeometryAssumption DEF Init, Account
<1>4. QED BY <1>1, <1>3 DEF SafeInv

LEMMA NextSafe == SafeInv /\ [Next]_vars => SafeInv'
<1> SUFFICES ASSUME SafeInv, [Next]_vars PROVE SafeInv'
  OBVIOUS
<1> USE GeometryAssumption
<1>0. TypeOK /\ Account
  BY DEF SafeInv
<1>1. CASE ReadFirst
  <2>1. /\ FirstReadSize \in 1 .. SectorSize
        /\ fileSize - FirstReadSize \in Nat
        /\ FirstNode \in 1 .. Last
    BY <1>0, <1>1, NodeType DEF ReadFirst, FirstReadSize, Least, TypeOK
  <2>2. buffer' \in [BufferIndex -> Bytes]
    <3>1. PayloadAddress(FirstNode, start) \in Nat
      BY <1>0, <2>1, AddressType DEF TypeOK
    <3>2. QED BY <1>0, <1>1, <2>1, <3>1, ReadType DEF ReadFirst
  <2>3. TypeOK'
    BY <1>0, <1>1, <2>1, <2>2 DEF ReadFirst, TypeOK, input
  <2>4. Account'
    BY <1>0, <1>1, <2>1 DEF ReadFirst, TypeOK, Account, input
  <2>5. QED BY <2>3, <2>4 DEF SafeInv
<1>2. CASE ReadNext
  <2>1. /\ pc = "next"
        /\ NextNode(node) \in 1 .. Last
        /\ NextReadSize \in 1 .. SectorSize
        /\ remain - NextReadSize \in Nat
    BY <1>0, <1>2, NodeType DEF ReadNext, NextReadSize, Least, TypeOK, Account
  <2>2. buffer' \in [BufferIndex -> Bytes]
    <3>1. PayloadAddress(NextNode(node), 0) \in Nat
      BY <2>1, AddressType
    <3>2. QED BY <1>0, <1>2, <2>1, <3>1, ReadType DEF ReadNext, TypeOK
  <2>3. TypeOK'
    BY <1>0, <1>2, <2>1, <2>2 DEF ReadNext, TypeOK, input
  <2>4. Account'
    BY <1>0, <1>2, <2>1 DEF ReadNext, TypeOK, Account, input
  <2>5. QED BY <2>3, <2>4 DEF SafeInv
<1>3. CASE FirstMissing \/ NextMissing
  BY <1>0, <1>3 DEF FirstMissing, NextMissing, SafeInv, TypeOK, Account, input
<1>4. CASE Drain
  <2>1. /\ pc = "drain" /\ pc' = pc
        /\ bufferSize - TransferSize \in 1 .. SectorSize
    BY <1>0, <1>4 DEF Drain, MustDrain, TypeOK, Account
  <2>2. \A i \in 0 .. TransferSize - 1 : i \in BufferIndex /\ buffer[i] \in Bytes
    BY <1>0 DEF BufferIndex, TypeOK
  <2>3. /\ crc' \in [AppIndex -> Bytes]
        /\ crcSize' = crcSize + TransferSize /\ crcSize' \in Nat
        /\ flash' \in [AppIndex -> Bytes]
    <3>1. TransferSize \in 0 .. TransferSize
      OBVIOUS
    <3>2. Accumulate(buffer, TransferSize) /\ ProgramPage(buffer)
      BY <1>4 DEF Drain
    <3>3. QED BY <1>0, <2>2, <3>1, <3>2, TransferType
  <2>4. buffer' \in [BufferIndex -> Bytes]
    <3>1. \A i \in BufferIndex : i < bufferSize - TransferSize
             => i + TransferSize \in BufferIndex
      BY <1>0, <2>1 DEF BufferIndex, TypeOK, Account
    <3>2. QED BY <1>0, <1>4, <3>1 DEF Drain, TypeOK
  <2>5. flashAddress' \in Nat /\ (pass = 1 => flashAddress' = flashAddress + TransferSize)
    BY <1>0, <1>4 DEF Drain, NextPage, TypeOK
  <2>6. TypeOK'
    BY <1>0, <1>4, <2>1, <2>3, <2>4, <2>5 DEF Drain, TypeOK, input
  <2>7. \E n \in Nat : crcSize' = n * TransferSize
    <3>1. PICK n \in Nat : crcSize = n * TransferSize
      BY <1>0, <2>1 DEF Account
    <3>2. crcSize' = (n + 1) * TransferSize /\ n + 1 \in Nat
      BY <2>3, <3>1
    <3>3. QED BY <3>2
  <2>8. /\ crcSize' + bufferSize' + remain' = fileSize' /\ crcSize' <= fileSize'
        /\ bufferSize' > 0 /\ bufferSize' <= SectorSize + TransferSize
        /\ node' \in 1 .. Last /\ pass' = pass /\ pc' = "drain"
    BY <1>0, <1>4, <2>1, <2>3 DEF Drain, TypeOK, Account, input
  <2>9. pass = 1 => flashAddress' = crcSize'
    BY <1>0, <2>1, <2>3, <2>5 DEF Account
  <2>10. Account'
    BY <2>7, <2>8, <2>9 DEF Account
  <2>11. QED BY <2>6, <2>10 DEF SafeInv
<1>5. CASE EndDrain
  <2>1. TypeOK'
    BY <1>0, <1>5 DEF EndDrain, TypeOK, input
  <2>2. Account'
    BY <1>0, <1>5 DEF EndDrain, MustDrain, TypeOK, Account, input
  <2>3. QED BY <2>1, <2>2 DEF SafeInv
<1>6. CASE FinishPass
  <2>1. bufferSize \in 0 .. TransferSize /\ bufferSize \in Nat /\ pc = "last"
    BY <1>0, <1>6 DEF FinishPass, TypeOK, Account
  <2>2. WholeWords \in 0 .. bufferSize
    BY <2>1, WholeWordsBounds
  <2>3. \A i \in 0 .. TransferSize - 1 : LastTransfer[i] \in Bytes
    BY <1>0 DEF LastTransfer, BufferIndex, TypeOK, Bytes
  <2>4. /\ crc' \in [AppIndex -> Bytes]
        /\ crcSize' = crcSize + WholeWords /\ crcSize' \in Nat
        /\ flash' \in [AppIndex -> Bytes]
    <3>1. WholeWords \in 0 .. TransferSize
      BY <2>1, <2>2
    <3>2. Accumulate(LastTransfer, WholeWords) /\ ProgramPage(LastTransfer)
      BY <1>6 DEF FinishPass
    <3>3. QED BY <1>0, <2>3, <3>1, <3>2, TransferType
  <2>5. TypeOK'
    BY <1>0, <1>6, <2>4 DEF FinishPass, TypeOK, input
  <2>6. Account'
    BY <1>0, <1>6, <2>1, <2>2, <2>4 DEF FinishPass, TypeOK, Account, input
  <2>7. QED BY <2>5, <2>6 DEF SafeInv
<1>7. CASE UNCHANGED vars
  BY <1>0, <1>7 DEF vars, input, SafeInv, TypeOK, Account
<1>8. QED
  BY <1>1, <1>2, <1>3, <1>4, <1>5, <1>6, <1>7 DEF Next

-----------------------------------------------------------------------------

\* Every size and index of a pass stays in its range.
THEOREM StreamTypeCorrect == Spec => []TypeOK
<1>1. SafeInv => TypeOK
  BY DEF SafeInv
<1>2. QED BY <1>1, InitSafe, NextSafe, PTL DEF Spec

\* If a sector is no larger than a transfer and both fit the buffer together,
\* no read overruns buffer_stream, no memcpy overlaps, and the last piece fits
\* transfer_data, for every file and start offset (boot_core.c).
THEOREM BufferNeverOverruns == Spec => []BufferFits
<1>1. SafeInv => BufferFits
  <2> SUFFICES ASSUME SafeInv PROVE BufferFits
    OBVIOUS
  <2>1. FirstReadSize <= BufferSize /\ NextReadSize <= SectorSize
    BY GeometryAssumption DEF SafeInv, TypeOK, FirstReadSize, NextReadSize, Least
  <2>2. NextReadSize \in Int
    BY GeometryAssumption DEF SafeInv, TypeOK, NextReadSize, Least
  <2>3. QED
    BY <2>1, <2>2, GeometryAssumption DEF SafeInv, TypeOK, Account, BufferFits
<1>2. QED BY <1>1, InitSafe, NextSafe, PTL DEF Spec

\* Every page programmed lies below BOOT_APP_FLASH_END, the padded last one too.
THEOREM NeverProgramsOutside == Spec => []ProgramsInsideApp
<1>1. SafeInv => ProgramsInsideApp
  <2> SUFFICES ASSUME SafeInv, pass = 1,
                      pc = "last" \/ (pc = "drain" /\ MustDrain(bufferSize))
               PROVE  flashAddress + TransferSize <= AppSize
    BY DEF ProgramsInsideApp
  <2>1. /\ flashAddress = crcSize
        /\ crcSize + bufferSize + remain = fileSize /\ bufferSize > 0
        /\ crcSize \in Nat /\ bufferSize \in Nat /\ remain \in Nat
        /\ fileSize \in 0 .. AppSize
    BY DEF SafeInv, TypeOK, Account
  <2>2. PICK n \in Nat : crcSize = n * TransferSize
    BY DEF SafeInv, Account
  <2>3. PICK q \in 1 .. AppSize : AppSize = q * TransferSize
    BY GeometryAssumption
  <2>4. n * TransferSize < q * TransferSize
    BY <2>1, <2>2, <2>3, GeometryAssumption
  <2>5. q \in Nat
    BY <2>3, GeometryAssumption
  <2>6. n * TransferSize + TransferSize <= q * TransferSize
    BY <2>4, <2>5, RoomForOneMore, GeometryAssumption
  <2>7. QED BY <2>1, <2>2, <2>3, <2>6
<1>2. QED BY <1>1, InitSafe, NextSafe, PTL DEF Spec

-----------------------------------------------------------------------------
(* What is programmed is what the CRC was taken over.                       *)

\* Bytes taken and bytes programmed go to the same places.
LEMMA SamePlaces ==
    ASSUME SafeInv, Copied, pc \notin {"done", "fail"}, pass' = pass,
           NEW n \in 0 .. TransferSize, NEW data,
           \A i \in n .. TransferSize - 1 : data[i] = Filler,
           Accumulate(data, n), ProgramPage(data)
    PROVE  Copied'
<1> SUFFICES ASSUME pass = 1, NEW a \in AppIndex
             PROVE  flash'[a] = IF a < crcSize' THEN crc'[a] ELSE Filler
  BY DEF Copied
<1>1. /\ flashAddress = crcSize /\ crcSize \in Nat /\ a \in Nat
      /\ crcSize' = crcSize + n
  BY DEF SafeInv, TypeOK, Account, AppIndex, Accumulate
<1>2. /\ crc'[a] = IF a \in crcSize .. crcSize + n - 1 THEN data[a - crcSize] ELSE crc[a]
      /\ flash'[a] = IF a \in crcSize .. crcSize + TransferSize - 1
                     THEN data[a - crcSize] ELSE flash[a]
  BY <1>1 DEF Accumulate, ProgramPage
<1>3. flash[a] = IF a < crcSize THEN crc[a] ELSE Filler
  BY DEF Copied
<1>4. CASE a < crcSize
  BY <1>1, <1>2, <1>3, <1>4, GeometryAssumption
<1>5. CASE a \in crcSize .. crcSize + n - 1
  BY <1>1, <1>2, <1>5, GeometryAssumption
<1>6. CASE a \in crcSize + n .. crcSize + TransferSize - 1
  <2>1. a - crcSize \in n .. TransferSize - 1
    BY <1>1, <1>6, GeometryAssumption
  <2>2. QED BY <1>1, <1>2, <1>6, <2>1, GeometryAssumption
<1>7. CASE a >= crcSize + TransferSize
  BY <1>1, <1>2, <1>3, <1>7, GeometryAssumption
<1>8. QED BY <1>1, <1>4, <1>5, <1>6, <1>7, GeometryAssumption

LEMMA NextCopied == SafeInv /\ Copied /\ [Next]_vars => Copied'
<1> SUFFICES ASSUME SafeInv, Copied, [Next]_vars PROVE Copied'
  OBVIOUS
<1>1. CASE Drain
  <2>1. /\ pc = "drain" /\ pass' = pass
        /\ Accumulate(buffer, TransferSize) /\ ProgramPage(buffer)
    BY <1>1 DEF Drain, input
  <2>2. /\ TransferSize \in 0 .. TransferSize
        /\ \A i \in TransferSize .. TransferSize - 1 : buffer[i] = Filler
    BY GeometryAssumption
  <2>3. QED BY <2>1, <2>2, SamePlaces
<1>2. CASE FinishPass
  <2>1. /\ pc = "last" /\ pass' = pass
        /\ Accumulate(LastTransfer, WholeWords) /\ ProgramPage(LastTransfer)
    BY <1>2 DEF FinishPass, input
  <2>2. WholeWords \in 0 .. TransferSize
    <3>1. bufferSize \in Nat /\ bufferSize <= TransferSize
      BY <2>1 DEF SafeInv, TypeOK, Account
    <3>2. QED BY <3>1, WholeWordsBounds, GeometryAssumption
  <2>3. \A i \in WholeWords .. TransferSize - 1 : LastTransfer[i] = Filler
    BY <2>2, GeometryAssumption DEF LastTransfer
  <2>4. QED BY <2>1, <2>2, <2>3, SamePlaces
<1>3. CASE UNCHANGED <<pass, crc, crcSize, flash>>
  BY <1>3 DEF Copied
<1>4. QED
  BY <1>1, <1>2, <1>3 DEF Next, ReadFirst, FirstMissing, ReadNext, NextMissing,
     EndDrain, vars, input

\* The CRC that decides about success covers exactly what was programmed, in
\* both storage modes and wherever the bytes came from (boot_core.c:22-27, 138-142).
THEOREM CrcIsOfTheFlash == Spec => []CrcCoversFlash
<1>1. Init => SafeInv /\ Copied
  <2>1. Init => Copied
    BY GeometryAssumption DEF Init, Copied, AppIndex
  <2>2. QED BY <2>1, InitSafe
<1>2. (SafeInv /\ Copied) /\ [Next]_vars => (SafeInv /\ Copied)'
  BY NextSafe, NextCopied
<1>3. SafeInv /\ Copied => CrcCoversFlash
  BY DEF Copied, CrcCoversFlash
<1>4. QED BY <1>1, <1>2, <1>3, PTL DEF Spec

-----------------------------------------------------------------------------
(* In MODE2 these bytes are the file.                                       *)

\* The sector behind a sector starts where it ends.
LEMMA SectorBehind ==
    ASSUME NEW n \in Nat, mode = "FIXED"
    PROVE  PayloadAddress(n + 1, 0) = PayloadAddress(n, SectorSize)
<1>1. (n + 1) - 1 = (n - 1) + 1 /\ n - 1 \in Int
  OBVIOUS
<1>2. SectorSize * ((n - 1) + 1) = SectorSize * (n - 1) + SectorSize
  BY GeometryAssumption
<1>3. SectorSize * ((n + 1) - 1) = SectorSize * (n - 1) + SectorSize
  BY <1>1, <1>2
<1>4. SectorSize * (n - 1) \in Int
  BY <1>1, GeometryAssumption
<1>5. QED BY <1>3, <1>4, GeometryAssumption DEF PayloadAddress, HeaderLength

LEMMA InitInOrder == Init => InOrder
BY GeometryAssumption DEF Init, InOrder

LEMMA NextInOrder == SafeInv /\ InOrder /\ [Next]_vars => InOrder'
<1> SUFFICES ASSUME SafeInv, InOrder, [Next]_vars, mode' = "FIXED" PROVE InOrder'
  BY DEF InOrder
<1> USE GeometryAssumption
<1>0. /\ TypeOK /\ Account /\ mode = "FIXED" /\ mode' = mode
      /\ start' = start /\ start \in Nat /\ hookNode' = hookNode
  <2>1. input' = input
    BY DEF Next, ReadFirst, FirstMissing, ReadNext, NextMissing, Drain, EndDrain,
           FinishPass, vars
  <2>2. mode' = mode /\ start' = start /\ hookNode' = hookNode
    BY <2>1 DEF input
  <2>3. TypeOK /\ Account
    BY DEF SafeInv
  <2>4. start \in Nat
    BY <2>3 DEF TypeOK
  <2>5. QED BY <2>2, <2>3, <2>4
<1>1. /\ FirstNode' = FirstNode /\ FirstNode \in Nat
      /\ SectorSize * (FirstNode - 1) \in Int
      /\ \A i : FileAddress(i)' = FileAddress(i)
  <2>1. FirstNode' = FirstNode /\ FirstNode \in Nat
    BY <1>0, NodeType DEF FirstNode
  <2>2. SectorSize * (FirstNode - 1) \in Int
    BY <2>1
  <2>3. QED
    BY <1>0, <2>1, <2>2 DEF FileAddress, PayloadAddress, HeaderLength
<1>2. CASE ReadFirst
  <2>1. /\ FirstReadSize \in 1 .. SectorSize - start /\ crcSize = 0 /\ pc = "first"
        /\ fileSize - FirstReadSize > 0 => FirstReadSize = SectorSize - start
    BY <1>0, <1>2 DEF ReadFirst, FirstReadSize, Least, TypeOK, Account
  <2>2. \A i \in 0 .. FirstReadSize - 1 : buffer'[i] = FileAddress(i)
    <3> SUFFICES ASSUME NEW i \in 0 .. FirstReadSize - 1
                 PROVE  buffer'[i] = FileAddress(i)
      OBVIOUS
    <3>1. i \in BufferIndex /\ i \in 0 .. 0 + FirstReadSize - 1 /\ i - 0 = i /\ i \in Int
      BY <1>0, <2>1 DEF BufferIndex
    <3>2. buffer'[i] = PayloadAddress(FirstNode, start) + i
      BY <1>2, <3>1 DEF ReadFirst, ReadInto
    <3>3. QED BY <1>0, <1>1, <3>1, <3>2 DEF FileAddress, PayloadAddress, HeaderLength
  <2>3. fileSize - FirstReadSize > 0
           => PayloadAddress(FirstNode + 1, 0) = FileAddress(FirstReadSize)
    <3>1. PayloadAddress(FirstNode + 1, 0) = PayloadAddress(FirstNode, SectorSize)
      BY <1>0, <1>1, SectorBehind
    <3>2. FirstReadSize = SectorSize - start => start + FirstReadSize = SectorSize
      BY <1>0
    <3>3. QED BY <2>1, <3>1, <3>2 DEF FileAddress
  <2>4. /\ crcSize' = 0 /\ bufferSize' = FirstReadSize
        /\ remain' = fileSize - FirstReadSize /\ node' = FirstNode
        /\ \A i \in 0 .. FirstReadSize : 0 + i = i
    BY <1>2, <2>1 DEF ReadFirst
  <2>5. \A i \in 0 .. bufferSize' - 1 : buffer'[i] = FileAddress(crcSize' + i)
    BY <2>1, <2>2, <2>4
  <2>6. remain' > 0 => PayloadAddress(node' + 1, 0) = FileAddress(crcSize' + bufferSize')
    BY <2>1, <2>3, <2>4
  <2>7. \A i \in 0 .. crcSize' - 1 : crc'[i] = FileAddress(i)
    BY <2>4
  <2>8. QED
    BY <1>0, <1>1, <2>5, <2>6, <2>7 DEF InOrder, PayloadAddress, HeaderLength
<1>3. CASE ReadNext
  <2>1. /\ pc = "next" /\ remain > 0 /\ node' = node + 1 /\ node \in Nat
        /\ NextReadSize \in 1 .. SectorSize
        /\ remain - NextReadSize > 0 => NextReadSize = SectorSize
        /\ crcSize' = crcSize /\ crc' = crc /\ crcSize \in Nat /\ bufferSize \in Nat
        /\ bufferSize' = bufferSize + NextReadSize
        /\ remain' = remain - NextReadSize
        /\ bufferSize + NextReadSize <= BufferSize
    BY <1>0, <1>3 DEF ReadNext, NextNode, NextReadSize, Least, TypeOK, Account
  <2>2. PayloadAddress(node + 1, 0) = FileAddress(crcSize + bufferSize)
    BY <1>0, <2>1 DEF InOrder
  <2>3. \A i \in 0 .. bufferSize' - 1 : buffer'[i] = FileAddress(crcSize' + i)
    <3> SUFFICES ASSUME NEW i \in 0 .. bufferSize' - 1
                 PROVE  buffer'[i] = FileAddress(crcSize + i)
      BY <2>1
    <3>1. i \in BufferIndex /\ i \in Int
      BY <2>1 DEF BufferIndex
    <3>2. CASE i < bufferSize
      <4>1. buffer'[i] = buffer[i]
        BY <1>3, <2>1, <3>1, <3>2 DEF ReadNext, ReadInto
      <4>2. QED BY <1>0, <2>1, <3>1, <3>2, <4>1 DEF InOrder
    <3>3. CASE i >= bufferSize
      <4>1. i \in bufferSize .. bufferSize + NextReadSize - 1
        BY <2>1, <3>1, <3>3
      <4>2. buffer'[i] = PayloadAddress(node + 1, 0) + (i - bufferSize)
        BY <1>3, <2>1, <3>1, <4>1 DEF ReadNext, ReadInto
      <4>3. FileAddress(crcSize + bufferSize) + (i - bufferSize)
              = PayloadAddress(FirstNode, (start + (crcSize + bufferSize)) + (i - bufferSize))
        BY <1>0, <1>1, <2>1, <3>1 DEF FileAddress, PayloadAddress, HeaderLength
      <4>4. (start + (crcSize + bufferSize)) + (i - bufferSize) = start + (crcSize + i)
        BY <1>0, <2>1, <3>1
      <4>5. QED BY <2>2, <4>2, <4>3, <4>4 DEF FileAddress
    <3>4. QED BY <2>1, <3>1, <3>2, <3>3
  <2>4. remain' > 0 => PayloadAddress(node' + 1, 0) = FileAddress(crcSize' + bufferSize')
    <3> SUFFICES ASSUME remain' > 0
                 PROVE  PayloadAddress(node' + 1, 0) = FileAddress(crcSize' + bufferSize')
      OBVIOUS
    <3>1. bufferSize' = bufferSize + SectorSize
      BY <2>1
    <3>2. PayloadAddress(node' + 1, 0) = PayloadAddress(node + 1, SectorSize)
      BY <1>0, <2>1, SectorBehind
    <3>3. PayloadAddress(node + 1, 0 + SectorSize) = PayloadAddress(node + 1, 0) + SectorSize
      <4>1. SectorSize * ((node + 1) - 1) \in Int
        BY <2>1
      <4>2. QED BY <1>0, <2>1, <4>1 DEF PayloadAddress, HeaderLength
    <3>4. FileAddress(crcSize + bufferSize) + SectorSize
            = PayloadAddress(FirstNode, (start + (crcSize + bufferSize)) + SectorSize)
      BY <1>0, <1>1, <2>1 DEF FileAddress, PayloadAddress, HeaderLength
    <3>5. /\ (start + (crcSize + bufferSize)) + SectorSize
               = start + (crcSize' + bufferSize')
          /\ 0 + SectorSize = SectorSize
      BY <1>0, <2>1, <3>1
    <3>6. QED BY <2>2, <3>2, <3>3, <3>4, <3>5 DEF FileAddress
  <2>5. \A i \in 0 .. crcSize' - 1 : crc'[i] = FileAddress(i)
    BY <1>0, <2>1 DEF InOrder
  <2>6. QED
    BY <1>0, <1>1, <2>3, <2>4, <2>5 DEF InOrder, PayloadAddress, HeaderLength
<1>4. CASE Drain
  <2>1. /\ pc = "drain" /\ crcSize \in Nat /\ bufferSize \in Nat /\ remain \in Nat
        /\ bufferSize > TransferSize /\ bufferSize <= BufferSize
        /\ bufferSize' = bufferSize - TransferSize
        /\ crcSize' = crcSize + TransferSize
        /\ crcSize + bufferSize <= AppSize
        /\ node' = node /\ remain' = remain
    BY <1>0, <1>4 DEF Drain, MustDrain, Accumulate, TypeOK, Account
  <2>2. \A i \in 0 .. crcSize' - 1 : crc'[i] = FileAddress(i)
    <3> SUFFICES ASSUME NEW i \in 0 .. crcSize' - 1 PROVE crc'[i] = FileAddress(i)
      OBVIOUS
    <3>1. i \in AppIndex /\ i \in Int
      BY <2>1 DEF AppIndex
    <3>2. crc'[i] = IF i \in crcSize .. crcSize + TransferSize - 1
                    THEN buffer[i - crcSize] ELSE crc[i]
      BY <1>4, <3>1 DEF Drain, Accumulate
    <3>3. CASE i < crcSize
      <4>1. i \in 0 .. crcSize - 1 /\ i \notin crcSize .. crcSize + TransferSize - 1
        BY <2>1, <3>1, <3>3
      <4>2. QED BY <1>0, <3>2, <4>1 DEF InOrder
    <3>4. CASE i >= crcSize
      <4>1. /\ i \in crcSize .. crcSize + TransferSize - 1
            /\ i - crcSize \in 0 .. bufferSize - 1
            /\ crcSize + (i - crcSize) = i
        BY <2>1, <3>1, <3>4
      <4>2. buffer[i - crcSize] = FileAddress(crcSize + (i - crcSize))
        BY <1>0, <2>1, <4>1 DEF InOrder
      <4>3. QED BY <3>2, <4>1, <4>2
    <3>5. QED BY <2>1, <3>1, <3>3, <3>4
  <2>3. \A i \in 0 .. bufferSize' - 1 : buffer'[i] = FileAddress(crcSize' + i)
    <3> SUFFICES ASSUME NEW i \in 0 .. bufferSize' - 1
                 PROVE  buffer'[i] = FileAddress(crcSize' + i)
      OBVIOUS
    <3>1. /\ i \in BufferIndex /\ i < bufferSize - TransferSize
          /\ i + TransferSize \in 0 .. bufferSize - 1
          /\ crcSize + (i + TransferSize) = crcSize' + i
      BY <2>1 DEF BufferIndex
    <3>2. buffer'[i] = buffer[i + TransferSize]
      BY <1>4, <3>1 DEF Drain
    <3>3. buffer[i + TransferSize] = FileAddress(crcSize + (i + TransferSize))
      BY <1>0, <2>1, <3>1 DEF InOrder
    <3>4. QED BY <3>1, <3>2, <3>3
  <2>4. remain' > 0 => PayloadAddress(node' + 1, 0) = FileAddress(crcSize' + bufferSize')
    <3>1. crcSize' + bufferSize' = crcSize + bufferSize
      BY <2>1
    <3>2. QED BY <1>0, <2>1, <3>1 DEF InOrder
  <2>5. QED
    BY <1>0, <1>1, <2>2, <2>3, <2>4 DEF InOrder, PayloadAddress, HeaderLength
<1>5. CASE FinishPass
  <2>1. /\ pc = "last" /\ pc' = "done" /\ crcSize \in Nat /\ bufferSize \in Nat
        /\ bufferSize <= TransferSize
        /\ crcSize' = crcSize + WholeWords
        /\ crcSize + bufferSize <= AppSize
    BY <1>0, <1>5 DEF FinishPass, Accumulate, TypeOK, Account
  <2>2. WholeWords \in 0 .. bufferSize
    BY <2>1, WholeWordsBounds
  <2>3. \A i \in 0 .. crcSize' - 1 : crc'[i] = FileAddress(i)
    <3> SUFFICES ASSUME NEW i \in 0 .. crcSize' - 1 PROVE crc'[i] = FileAddress(i)
      OBVIOUS
    <3>1. i \in AppIndex /\ i \in Int
      BY <2>1, <2>2 DEF AppIndex
    <3>2. crc'[i] = IF i \in crcSize .. crcSize + WholeWords - 1
                    THEN LastTransfer[i - crcSize] ELSE crc[i]
      BY <1>5, <3>1 DEF FinishPass, Accumulate
    <3>3. CASE i < crcSize
      BY <1>0, <2>1, <2>2, <3>1, <3>2, <3>3 DEF InOrder
    <3>4. CASE i >= crcSize
      <4>1. /\ i \in crcSize .. crcSize + WholeWords - 1
            /\ i - crcSize \in 0 .. bufferSize - 1
            /\ i - crcSize \in 0 .. TransferSize - 1
            /\ i - crcSize < WholeWords
            /\ crcSize + (i - crcSize) = i
        BY <2>1, <2>2, <3>1, <3>4
      <4>2. LastTransfer[i - crcSize] = buffer[i - crcSize]
        BY <4>1 DEF LastTransfer
      <4>3. buffer[i - crcSize] = FileAddress(crcSize + (i - crcSize))
        BY <1>0, <2>1, <4>1 DEF InOrder
      <4>4. QED BY <3>2, <4>1, <4>2, <4>3
    <3>5. QED BY <2>1, <3>1, <3>3, <3>4
  <2>4. QED
    BY <1>0, <1>1, <2>1, <2>3 DEF InOrder
<1>6. CASE UNCHANGED <<node, remain, buffer, bufferSize, crc, crcSize>> /\
           (pc' \in {"next", "drain"} => pc \in {"next", "drain"}) /\
           (pc' = "last" => pc \in {"drain", "last"})
  BY <1>0, <1>1, <1>6 DEF InOrder, PayloadAddress, HeaderLength
<1>7. QED
  BY <1>2, <1>3, <1>4, <1>5, <1>6 DEF Next, FirstMissing, NextMissing, EndDrain, vars, input

\* The number of bytes taken is known at the end of a pass.
LEMMA NextWhole == SafeInv /\ Whole /\ [Next]_vars => Whole'
<1> SUFFICES ASSUME SafeInv, Whole, [Next]_vars PROVE Whole'
  OBVIOUS
<1>1. CASE FinishPass
  <2>1. /\ pc = "last" /\ fileSize' = fileSize /\ crcSize' = crcSize + WholeWords
        /\ bufferSize \in Nat /\ fileSize \in Nat /\ crcSize + bufferSize = fileSize
    BY <1>1 DEF FinishPass, Accumulate, SafeInv, TypeOK, Account, input
  <2>2. PICK n \in Nat : crcSize = n * TransferSize
    BY <2>1 DEF SafeInv, Account
  <2>3. n * TransferSize + WholeWords = fileSize - (fileSize % WordSize)
    BY <2>1, <2>2, WholeWordsOfFile
  <2>4. QED BY <2>1, <2>2, <2>3 DEF Whole
<1>2. CASE pc' # "done"
  BY <1>2 DEF Whole
<1>3. CASE UNCHANGED vars
  BY <1>3 DEF Whole, vars, input
<1>4. QED
  BY <1>1, <1>2, <1>3 DEF Next, ReadFirst, FirstMissing, ReadNext, NextMissing, Drain,
     EndDrain

\* In MODE2 a pass hands over the whole words of the file, in order, each once,
\* for every size, start offset and window (boot_core.c:79-142, boot_storage.c).
THEOREM StreamIsTheFile == Spec => []FixedStreamIsFile
<1>1. Init => SafeInv /\ InOrder /\ Whole
  BY InitSafe, InitInOrder DEF Init, Whole
<1>2. (SafeInv /\ InOrder /\ Whole) /\ [Next]_vars => (SafeInv /\ InOrder /\ Whole)'
  BY NextSafe, NextInOrder, NextWhole
<1>3. SafeInv /\ InOrder /\ Whole => FixedStreamIsFile
  BY DEF InOrder, Whole, FixedStreamIsFile, FileAddress
<1>4. QED BY <1>1, <1>2, <1>3, PTL DEF Spec

-----------------------------------------------------------------------------
(* The end of a pass.                                                       *)

\* Reading takes something off what remains, draining off the buffer, and the
\* stages in between lead to one or the other.
LEMMA StepAdvances ==
    ASSUME SafeInv, Next
    PROVE  /\ remain' \in Nat /\ bufferSize' \in Nat
           /\ \/ remain' < remain
              \/ /\ remain' = remain
                 /\ \/ bufferSize' < bufferSize
                    \/ bufferSize' = bufferSize /\ StageLeft' < StageLeft
<1> USE GeometryAssumption
<1>0. TypeOK /\ Account
  BY DEF SafeInv
<1>1. remain' \in Nat /\ bufferSize' \in Nat
  BY NextSafe DEF SafeInv, TypeOK
<1>2. CASE ReadFirst
  <2>1. FirstReadSize > 0 /\ FirstReadSize \in Int /\ remain = fileSize
    BY <1>0, <1>2 DEF ReadFirst, FirstReadSize, Least, TypeOK, Account
  <2>2. remain' < remain
    BY <1>0, <1>2, <2>1 DEF ReadFirst, TypeOK
  <2>3. QED BY <1>1, <2>2
<1>3. CASE ReadNext
  <2>1. NextReadSize \in 1 .. remain
    BY <1>0, <1>3 DEF ReadNext, NextReadSize, Least, TypeOK, Account
  <2>2. remain' < remain
    BY <1>0, <1>3, <2>1 DEF ReadNext, TypeOK
  <2>3. QED BY <1>1, <2>2
<1>4. CASE FirstMissing \/ NextMissing \/ EndDrain \/ FinishPass
  <2>1. /\ remain' = remain /\ bufferSize' = bufferSize
        /\ \/ pc \in {"first", "next"} /\ pc' = "fail"
           \/ pc = "drain" /\ pc' \in {"next", "last"}
           \/ pc = "last" /\ pc' = "done"
    BY <1>4 DEF FirstMissing, NextMissing, EndDrain, FinishPass
  <2>2. StageLeft' < StageLeft
    BY <2>1 DEF StageLeft
  <2>3. QED BY <1>1, <2>1, <2>2
<1>5. CASE Drain
  <2>1. remain' = remain /\ bufferSize' = bufferSize - TransferSize
    BY <1>5 DEF Drain
  <2>2. bufferSize' < bufferSize
    BY <1>0, <2>1 DEF TypeOK
  <2>3. QED BY <1>1, <2>1, <2>2
<1>6. QED BY <1>2, <1>3, <1>4, <1>5 DEF Next

\* No pass goes round for ever, whatever chain of sectors the SPI chip holds: its
\* steps are bounded by the size of the file, and that never wraps below zero.
THEOREM PassEnds == Spec => PassAdvances
<1> DEFINE Step == /\ remain' \in Nat /\ bufferSize' \in Nat
                   /\ \/ remain' < remain
                      \/ /\ remain' = remain
                         /\ \/ bufferSize' < bufferSize
                            \/ bufferSize' = bufferSize /\ StageLeft' < StageLeft
<1>1. SafeInv /\ [Next]_vars => [Step]_vars
  BY StepAdvances
<1>2. QED BY <1>1, InitSafe, NextSafe, PTL DEF Spec, PassAdvances
=============================================================================
