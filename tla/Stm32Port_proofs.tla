-------------------------- MODULE Stm32Port_proofs --------------------------
(***************************************************************************)
(* Theorems about Stm32Port, for every device, application area, transfer  *)
(* size and image that Stm32Assumption allows, whichever HAL calls fail.   *)
(*                                                                         *)
(*   PortTypeCorrect      PortSpec => []PortTypeOK                         *)
(*   RestsLocked          PortSpec => []LockedAtRest                       *)
(*   StaysInAppArea       PortSpec => OnlyAppAreaChanges                   *)
(*   SuccessIsTheImage    PortSpec => []SuccessMeansImage                  *)
(*   UpdatesEnd           PortSpec => UpdateAdvances                       *)
(***************************************************************************)
EXTENDS Stm32Port, Arithmetic

-----------------------------------------------------------------------------
(* The sectors.                                                             *)

Begins == 0 .. 12

LEMMA SectorValues ==
    /\ SectorBegin(0) = 0          /\ SectorBegin(1) = Unit
    /\ SectorBegin(2) = 2 * Unit   /\ SectorBegin(3) = 3 * Unit
    /\ SectorBegin(4) = 4 * Unit   /\ SectorBegin(5) = 8 * Unit
    /\ SectorBegin(6) = 16 * Unit  /\ SectorBegin(7) = 24 * Unit
    /\ SectorBegin(8) = 32 * Unit  /\ SectorBegin(9) = 40 * Unit
    /\ SectorBegin(10) = 48 * Unit /\ SectorBegin(11) = 56 * Unit
    /\ SectorBegin(12) = 64 * Unit
BY Stm32Assumption DEF SectorBegin

LEMMA BeginsInOrder ==
    /\ \A k \in Begins : SectorBegin(k) \in Nat
    /\ \A j, k \in Begins : j < k => SectorBegin(j) < SectorBegin(k)
<1>1. Unit \in Nat \ {0}
  BY Stm32Assumption
<1>2. \A k \in Begins : SectorBegin(k) \in Nat
  BY <1>1, SectorValues DEF Begins
<1>3. \A k \in 0 .. 11 : SectorBegin(k) < SectorBegin(k + 1)
  BY <1>1, SectorValues
<1>4. ASSUME NEW j \in Begins, NEW k \in Begins, j < k
      PROVE  SectorBegin(j) < SectorBegin(k)
  BY <1>2, <1>3, <1>4 DEF Begins
<1>5. QED BY <1>2, <1>4

LEMMA LimitIsNextBegin == \A k \in 0 .. 11 : SectorLimit(k) = SectorBegin(k + 1)
<1>1. Unit \in Nat \ {0}
  BY Stm32Assumption
<1>2. /\ SectorLimit(0) = Unit /\ SectorLimit(1) = 2 * Unit /\ SectorLimit(2) = 3 * Unit
      /\ SectorLimit(3) = 4 * Unit /\ SectorLimit(4) = 8 * Unit
      /\ SectorLimit(5) = 16 * Unit /\ SectorLimit(6) = 24 * Unit
      /\ SectorLimit(7) = 32 * Unit /\ SectorLimit(8) = 40 * Unit
      /\ SectorLimit(9) = 48 * Unit /\ SectorLimit(10) = 56 * Unit
      /\ SectorLimit(11) = 64 * Unit
  BY <1>1 DEF SectorLimit
<1>3. QED BY <1>2, SectorValues

\* The table finds the sector that an address of the device is in.
LEMMA TableIsRight ==
    ASSUME NEW k \in Sectors, NEW a \in Nat, SectorBegin(k) <= a, a < SectorBegin(k + 1)
    PROVE  AddressToSector(a) = k
<1> DEFINE Found(n) == /\ n = TableLast \/ a < SectorLimit(n)
                       /\ \A j \in Listed : j < n => a >= SectorLimit(j)
<1>1. /\ Listed \subseteq 0 .. 11 /\ k \in Listed /\ TableLast \in 0 .. 11
      /\ \A n \in Listed : n \in Begins /\ n + 1 \in Begins
  BY Stm32Assumption DEF Listed, Sectors, Begins
<1>2. \A n \in Listed : SectorLimit(n) = SectorBegin(n + 1) /\ SectorLimit(n) \in Nat
  BY <1>1, LimitIsNextBegin, BeginsInOrder
<1>3. Found(k)
  <2>1. a < SectorLimit(k)
    BY <1>1, <1>2
  <2>2. ASSUME NEW j \in Listed, j < k PROVE a >= SectorLimit(j)
    <3>1. SectorBegin(j + 1) <= SectorBegin(k)
      <4>1. j + 1 = k \/ j + 1 < k
        BY <1>1, <2>2
      <4>2. j + 1 \in Begins /\ k \in Begins
        BY <1>1
      <4>3. QED BY <4>1, <4>2, BeginsInOrder
    <3>2. QED BY <3>1, <1>1, <1>2, BeginsInOrder
  <2>3. QED BY <2>1, <2>2
<1>4. ASSUME NEW n \in Listed, Found(n) PROVE n = k
  <2>1. CASE n < k
    <3>1. n # TableLast
      BY <2>1, <1>1 DEF Listed
    <3>2. a < SectorLimit(n) /\ a >= SectorLimit(n)
      BY <3>1, <2>1, <1>3, <1>4
    <3>3. QED BY <3>2, <1>2
  <2>2. CASE n > k
    <3>1. a >= SectorLimit(k)
      BY <1>4, <1>1, <2>2
    <3>2. QED BY <3>1, <1>1, <1>2
  <2>3. QED BY <2>1, <2>2, <1>1
<1>5. QED
  <2>1. AddressToSector(a) = CHOOSE n \in Listed : Found(n)
    BY DEF AddressToSector
  <2>2. QED BY <2>1, <1>1, <1>3, <1>4

\* The erase covers the application area and nothing else.
LEMMA ErasedSectors ==
    /\ FirstErased \in Sectors /\ LastErased \in Sectors
    /\ SectorBegin(FirstErased) = Stm32Start
    /\ SectorBegin(LastErased + 1) = Stm32End
<1>0. /\ Stm32Start \in Nat /\ Stm32End \in Nat /\ Stm32Start < Stm32End
      /\ LastSector \in 4 .. 11 /\ Unit \in Nat \ {0}
      /\ Stm32End <= DeviceEnd
      /\ \A k \in Sectors : k \in Begins /\ k + 1 \in Begins
  BY Stm32Assumption DEF PortChecks, Sectors, Begins
<1>1. DeviceEnd = SectorBegin(LastSector + 1)
  <2>1. DeviceEnd = 8 * (LastSector - 3) * Unit
    BY Stm32Assumption
  <2>2. QED BY <2>1, <1>0, SectorValues
<1>2. \E k \in Sectors : Stm32Start = SectorBegin(k)
  BY Stm32Assumption
<1>3. PICK b \in Sectors : Stm32Start = SectorBegin(b)
  BY <1>2
<1>4. \E k \in Sectors : Stm32End = SectorBegin(k + 1)
  <2>1. CASE Stm32End = DeviceEnd
    BY <2>1, <1>0, <1>1 DEF Sectors
  <2>2. CASE \E k \in Sectors : Stm32End = SectorBegin(k)
    <3>1. PICK k \in Sectors : Stm32End = SectorBegin(k)
      BY <2>2
    <3>2. k # 0
      BY <3>1, <1>0, SectorValues
    <3>3. k - 1 \in Sectors /\ (k - 1) + 1 = k
      BY <3>2, <1>0 DEF Sectors
    <3>4. QED BY <3>1, <3>3
  <2>3. QED BY <2>1, <2>2, Stm32Assumption
<1>5. PICK e \in Sectors : Stm32End = SectorBegin(e + 1)
  BY <1>4
<1>6. FirstErased = b
  <2>1. SectorBegin(b) <= Stm32Start /\ Stm32Start < SectorBegin(b + 1)
    BY <1>0, <1>3, BeginsInOrder DEF Begins
  <2>2. QED BY <2>1, <1>0, TableIsRight DEF FirstErased
<1>7. LastErased = e
  <2>1. SectorBegin(e) < SectorBegin(e + 1) /\ SectorBegin(e) \in Nat
    BY <1>0, BeginsInOrder DEF Begins
  <2>2. /\ SectorBegin(e) <= Stm32End - 1 /\ Stm32End - 1 < SectorBegin(e + 1)
        /\ Stm32End - 1 \in Nat
    BY <2>1, <1>0, <1>5
  <2>3. QED BY <2>2, TableIsRight DEF LastErased
<1>8. QED BY <1>3, <1>5, <1>6, <1>7

-----------------------------------------------------------------------------
(* Types, and where the two loops over flash may be.                        *)

WordContents == Nat \union {Blank, Old, Mixed, Wrong}

Inside ==
    /\ f4pc = "eraseSector" => FirstErased <= step
    /\ f4pc = "programWord" => Stm32Start <= flashAddress /\ flashAddress + Transfer <= Stm32End
    /\ f4pc # "failed" => chance <= 1

SafeInv == PortTypeOK /\ Inside

LEMMA Constants ==
    /\ Stm32Start \in Nat /\ Stm32End \in Nat /\ DeviceEnd \in Nat /\ Stm32End <= DeviceEnd
    /\ Transfer \in Nat \ {0} /\ MaxFaults \in Nat /\ ImageSizes \subseteq Nat \ {0}
    /\ FirstErased \in Nat /\ LastErased \in Nat
<1>1. Sectors \subseteq Nat
  BY DEF Sectors
<1>2. QED BY <1>1, ErasedSectors, Stm32Assumption DEF PortChecks

\* Whatever HAL_FLASH_Program does to a word, it stays a word.
LEMMA WordsStayWords ==
    ASSUME PortTypeOK, ProgramOneWord
    PROVE  f4flash' \in [FlashWords -> WordContents]
<1> USE DEF PortTypeOK, WordContents
<1>1. Word \in WordContents
  BY Constants DEF Word
<1>2. \A a \in FlashWords : Programmed(f4flash[a], Word) \in WordContents
  BY <1>1 DEF Programmed
<1>3. \A a \in FlashWords, c \in WordContents :
         [f4flash EXCEPT ![a] = c] \in [FlashWords -> WordContents]
  OBVIOUS
<1>4. \/ f4flash' = f4flash
      \/ f4flash' = [f4flash EXCEPT ![flashAddress + step] =
                        Programmed(f4flash[flashAddress + step], Word)]
      \/ \E left \in {f4flash[flashAddress + step], Wrong} :
            f4flash' = [f4flash EXCEPT ![flashAddress + step] = left]
  BY DEF ProgramOneWord
<1>5. CASE flashAddress + step \in FlashWords
  BY <1>2, <1>3, <1>4, <1>5
<1>6. CASE flashAddress + step \notin FlashWords
  BY <1>4, <1>6
<1>7. QED BY <1>5, <1>6

\* A HAL call fails or succeeds.
LEMMA FaultsAreCounted ==
    ASSUME PortTypeOK, NEW b \in BOOLEAN, Succeeds \/ Fails(b)
    PROVE  faults' \in 0 .. MaxFaults /\ broken' \in BOOLEAN
<1>1. faults' \in 0 .. MaxFaults
  BY Constants DEF PortTypeOK, Succeeds, Fails
<1>2. broken' \in BOOLEAN
  <2>1. CASE Succeeds
    BY <2>1 DEF PortTypeOK, Succeeds
  <2>2. CASE Fails(b)
    <3>1. broken' = (broken \/ b)
      BY <2>2 DEF Fails
    <3>2. CASE broken \/ b
      BY <3>1, <3>2, Zenon
    <3>3. CASE ~(broken \/ b)
      BY <3>1, <3>3, Zenon
    <3>4. QED BY <3>2, <3>3
  <2>3. QED BY <2>1, <2>2
<1>3. QED BY <1>1, <1>2

LEMMA InitSafe == PortInit => SafeInv
<1> SUFFICES ASSUME PortInit PROVE SafeInv
  OBVIOUS
<1>1. f4flash \in [FlashWords -> Nat \union {Blank, Old, Mixed, Wrong}]
  BY DEF PortInit
<1>2. imageSize \in ImageSizes /\ remain \in 1 .. imageSize
  BY Constants DEF PortInit
<1>3. locked \in BOOLEAN /\ clean \in BOOLEAN /\ broken \in BOOLEAN
  BY DEF PortInit
<1>4. QED
  BY <1>1, <1>2, <1>3, Constants DEF PortInit, SafeInv, PortTypeOK, Inside, PortPcs

LEMMA NextSafe == SafeInv /\ [PortNext]_f4vars => SafeInv'
<1> SUFFICES ASSUME SafeInv, [PortNext]_f4vars PROVE SafeInv'
  OBVIOUS
<1> USE Constants DEF SafeInv, PortTypeOK, Inside, PortPcs, f4core, f4data
<1>1. CASE SpiSetup
  BY <1>1 DEF SpiSetup
<1>2. CASE StartPass
  BY <1>2 DEF StartPass, CrcAtStart
<1>3. CASE EraseAppArea
  <2>1. locked' \in BOOLEAN /\ (Succeeds \/ Fails(TRUE))
    BY <1>3 DEF EraseAppArea, Unlock
  <2>2. faults' \in 0 .. MaxFaults /\ broken' \in BOOLEAN
    BY <2>1, FaultsAreCounted
  <2>3. QED BY <1>3, <2>1, <2>2 DEF EraseAppArea
<1>4. CASE EraseSector
  BY <1>4 DEF EraseSector
<1>5. CASE EraseReturns
  <2>1. faults' \in 0 .. MaxFaults /\ broken' \in BOOLEAN
    BY <1>5, FaultsAreCounted DEF EraseReturns
  <2>2. QED BY <1>5, <2>1 DEF EraseReturns
<1>6. CASE EraseEnd
  BY <1>6 DEF EraseEnd, LockAfterErase
<1>7. CASE CsLow
  BY <1>7 DEF CsLow
<1>8. CASE Transmit
  BY <1>8 DEF Transmit, Succeeds
<1>9. CASE ReadFails
  <2>1. faults' \in 0 .. MaxFaults /\ broken' \in BOOLEAN
    BY <1>9, FaultsAreCounted DEF ReadFails
  <2>2. QED BY <1>9, <2>1 DEF ReadFails
<1>10. CASE ReadSucceeds
  BY <1>10 DEF ReadSucceeds, Succeeds
<1>11. CASE AccumulateTransfer
  BY <1>11 DEF AccumulateTransfer
<1>12. CASE ProgramPage
  <2>1. locked' \in BOOLEAN /\ (Succeeds \/ Fails(TRUE))
    BY <1>12 DEF ProgramPage, Unlock
  <2>2. faults' \in 0 .. MaxFaults /\ broken' \in BOOLEAN
    BY <2>1, FaultsAreCounted
  <2>3. QED BY <1>12, <2>1, <2>2 DEF ProgramPage, IsRangeValid
<1>13. CASE SkipPage
  BY <1>13 DEF SkipPage
<1>14. CASE ProgramOneWord
  <2>1. f4flash' \in [FlashWords -> WordContents]
    BY <1>14, WordsStayWords
  <2>2. /\ UNCHANGED <<locked, cs, f4pc, f4core, f4data>> /\ step' = step + 1
        /\ (Succeeds \/ Fails(TRUE))
    BY <1>14 DEF ProgramOneWord
  <2>3. faults' \in 0 .. MaxFaults /\ broken' \in BOOLEAN
    BY <2>2, FaultsAreCounted
  <2>4. QED BY <2>1, <2>2, <2>3 DEF WordContents
<1>15. CASE ProgramReturns
  BY <1>15 DEF ProgramReturns
<1>16. CASE NextTransfer
  BY <1>16 DEF NextTransfer, MoreTransfers
<1>17. CASE LastTransfer
  BY <1>17 DEF LastTransfer
<1>18. CASE EndPass
  BY <1>18 DEF EndPass
<1>19. CASE UNCHANGED f4vars
  BY <1>19 DEF f4vars
<1>20. QED
  BY <1>1, <1>2, <1>3, <1>4, <1>5, <1>6, <1>7, <1>8, <1>9, <1>10, <1>11, <1>12, <1>13,
     <1>14, <1>15, <1>16, <1>17, <1>18, <1>19 DEF PortNext

\* Every variable keeps its type: no address wraps, no loop counter leaves its range.
THEOREM PortTypeCorrect == PortSpec => []PortTypeOK
<1>1. SafeInv => PortTypeOK
  BY DEF SafeInv
<1>2. QED BY <1>1, InitSafe, NextSafe, PTL DEF PortSpec

-----------------------------------------------------------------------------
(* Locked and deselected.                                                   *)

LEMMA NextRests == LockedAtRest /\ [PortNext]_f4vars => LockedAtRest'
<1> SUFFICES ASSUME LockedAtRest, [PortNext]_f4vars PROVE LockedAtRest'
  OBVIOUS
<1> USE DEF LockedAtRest
<1>1. CASE SpiSetup \/ StartPass \/ EraseAppArea \/ EraseSector \/ EraseReturns \/ EraseEnd
  BY <1>1 DEF SpiSetup, StartPass, EraseAppArea, EraseSector, EraseReturns, EraseEnd,
              LockAfterErase
<1>2. CASE CsLow \/ Transmit \/ ReadFails \/ ReadSucceeds \/ AccumulateTransfer
  BY <1>2 DEF CsLow, Transmit, ReadFails, ReadSucceeds, AccumulateTransfer
<1>3. CASE ProgramPage \/ SkipPage \/ ProgramOneWord \/ ProgramReturns
  BY <1>3 DEF ProgramPage, SkipPage, ProgramOneWord, ProgramReturns
<1>4. CASE NextTransfer \/ LastTransfer \/ EndPass
  BY <1>4 DEF NextTransfer, LastTransfer, EndPass
<1>5. CASE UNCHANGED f4vars
  BY <1>5 DEF f4vars
<1>6. QED BY <1>1, <1>2, <1>3, <1>4, <1>5 DEF PortNext

\* Whichever HAL calls fail, the flash is locked and the SPI chip deselected
\* whenever the port is not using them.
THEOREM RestsLocked == PortSpec => []LockedAtRest
<1>1. PortInit => LockedAtRest
  BY DEF PortInit, LockedAtRest
<1>2. QED BY <1>1, NextRests, PTL DEF PortSpec

-----------------------------------------------------------------------------
(* Only the application area.                                               *)

LEMMA ErasedInside ==
    ASSUME NEW k \in Nat, FirstErased <= k, k <= LastErased, NEW w \in ChipSector(k)
    PROVE  w \in Nat /\ Stm32Start <= w /\ w < Stm32End
<1>1. /\ k \in Sectors /\ k \in Begins /\ k + 1 \in Begins
      /\ FirstErased \in Begins /\ LastErased + 1 \in Begins /\ LastErased \in Int
      /\ LastErased <= LastSector /\ LastSector \in Int /\ FirstErased \in Int
  BY ErasedSectors, Stm32Assumption DEF Sectors, Begins
<1>2. w \in Nat /\ w < DeviceEnd /\ SectorBegin(k) <= w
  BY Constants DEF ChipSector, FlashWords
<1>3. Stm32Start <= w
  <2>1. Stm32Start <= SectorBegin(k)
    <3>1. FirstErased = k \/ FirstErased < k
      BY <1>1
    <3>2. SectorBegin(FirstErased) = Stm32Start
      BY ErasedSectors
    <3>3. QED BY <1>1, <3>1, <3>2, BeginsInOrder, Constants
  <2>2. QED BY <1>1, <1>2, <2>1, BeginsInOrder, Constants
<1>4. w < Stm32End
  <2>1. SectorBegin(k + 1) <= Stm32End
    <3>1. k + 1 = LastErased + 1 \/ k + 1 < LastErased + 1
      BY <1>1
    <3>2. SectorBegin(LastErased + 1) = Stm32End
      BY ErasedSectors
    <3>3. QED BY <1>1, <3>1, <3>2, BeginsInOrder, Constants
  <2>2. CASE k < LastSector
    <3>1. w < SectorBegin(k + 1)
      BY <2>2 DEF ChipSector
    <3>2. QED BY <1>1, <1>2, <2>1, <3>1, BeginsInOrder, Constants
  <2>3. CASE k = LastSector
    <3>1. SectorBegin(k + 1) = DeviceEnd
      BY <2>3, SectorValues, Stm32Assumption
    <3>2. QED BY <1>2, <2>1, <3>1, Constants
  <2>4. QED BY <1>1, <2>2, <2>3
<1>5. QED BY <1>2, <1>3, <1>4

LEMMA StepStaysInside ==
    ASSUME SafeInv, [PortNext]_f4vars, NEW w \in FlashWords, f4flash'[w] # f4flash[w]
    PROVE  Stm32Start <= w /\ w < Stm32End
<1> USE DEF SafeInv, Inside
<1>1. CASE EraseSector
  <2>1. /\ w \in ChipSector(step) /\ step \in Nat
        /\ FirstErased <= step /\ step <= LastErased
    BY <1>1 DEF EraseSector, PortTypeOK
  <2>2. QED BY <2>1, ErasedInside
<1>2. CASE ProgramOneWord
  <2>1. w = flashAddress + step
    BY <1>2 DEF ProgramOneWord, PortTypeOK
  <2>2. /\ step \in Nat /\ step < Transfer /\ flashAddress \in Nat
        /\ Stm32Start <= flashAddress /\ flashAddress + Transfer <= Stm32End
    BY <1>2 DEF ProgramOneWord, PortTypeOK, WordsOfTransfer
  <2>3. QED BY <2>1, <2>2, Constants
<1>3. CASE SpiSetup \/ StartPass \/ EraseAppArea \/ EraseReturns \/ EraseEnd
  BY <1>3 DEF SpiSetup, StartPass, EraseAppArea, EraseReturns, EraseEnd
<1>4. CASE CsLow \/ Transmit \/ ReadFails \/ ReadSucceeds \/ AccumulateTransfer
  BY <1>4 DEF CsLow, Transmit, ReadFails, ReadSucceeds, AccumulateTransfer
<1>5. CASE ProgramPage \/ SkipPage \/ ProgramReturns
  BY <1>5 DEF ProgramPage, SkipPage, ProgramReturns
<1>6. CASE NextTransfer \/ LastTransfer \/ EndPass \/ UNCHANGED f4vars
  BY <1>6 DEF NextTransfer, LastTransfer, EndPass, f4vars
<1>7. QED BY <1>1, <1>2, <1>3, <1>4, <1>5, <1>6 DEF PortNext

\* No word outside the application area changes: the sector table is right for
\* every area of whole sectors, and a page that does not fit is refused.
THEOREM StaysInAppArea == PortSpec => OnlyAppAreaChanges
<1> DEFINE Stays == \A w \in FlashWords :
                       f4flash'[w] # f4flash[w] => Stm32Start <= w /\ w < Stm32End
<1>1. SafeInv /\ [PortNext]_f4vars => [Stays]_f4vars
  BY StepStaysInside
<1>2. QED BY <1>1, InitSafe, NextSafe, PTL DEF PortSpec, OnlyAppAreaChanges

-----------------------------------------------------------------------------
(* Success means the image.                                                 *)

AppWords == Stm32Start .. Stm32End - 1

Fits == Stm32Start + imageSize <= Stm32End

\* What a word of the application area is to hold.
ImageWord(w) == IF w - Stm32Start < imageSize THEN w - Stm32Start ELSE Blank

\* The image has been programmed up to an address, and the rest is blank.
ProgrammedUpTo(address) ==
    \A w \in AppWords : f4flash[w] = IF w < address THEN ImageWord(w) ELSE Blank

\* As long as HAL does what it is asked in flash.
Opened ==
    f4pc \in {"eraseSector", "programWord"} /\ ~broken => ~locked

Erasing ==
    /\ f4pc \in {"erase", "eraseSector", "eraseEnd"} =>
          pass = 1 /\ flashAddress = Stm32Start /\ remain = imageSize
    /\ f4pc = "eraseSector" =>
          /\ step <= LastErased + 1
          /\ ~broken => \A w \in AppWords : w < SectorBegin(step) => f4flash[w] = Blank
    /\ f4pc = "eraseEnd" /\ ~broken => ProgrammedUpTo(Stm32Start)

\* flash_address and the words still to be handled move together.
Together ==
    pass = 1 /\ f4pc \in {"select", "transmit", "receive", "accumulate", "program",
                          "programWord", "next", "end"} =>
       /\ flashAddress - Stm32Start = imageSize - remain
       /\ \E m \in Nat : flashAddress - Stm32Start = m * Transfer

Programming ==
    /\ f4pc = "programWord" => step <= Transfer
    /\ f4pc = "end" => remain <= Transfer
    /\ (pass = 1 /\ clean /\ ~broken /\ Fits) =>
          /\ f4pc \in {"select", "transmit", "receive", "accumulate", "program"} =>
                ProgrammedUpTo(flashAddress)
          /\ f4pc = "programWord" => ProgrammedUpTo(flashAddress + step)
          /\ f4pc \in {"next", "end"} => ProgrammedUpTo(flashAddress + Transfer)
          /\ f4pc \in {"program", "programWord"} => read = "data"

ImageInv == SafeInv /\ Opened /\ Erasing /\ Together /\ Programming /\ SuccessMeansImage

\* A transfer that begins inside the area ends inside it.
LEMMA TransferFits ==
    ASSUME NEW m \in Nat, NEW a \in Nat, a - Stm32Start = m * Transfer, a < Stm32End
    PROVE  a + Transfer <= Stm32End
<1>1. PICK q \in 1 .. Stm32End : Stm32End - Stm32Start = q * Transfer
  BY Stm32Assumption
<1>2. q \in Nat
  BY <1>1, Constants
<1>3. m * Transfer < q * Transfer
  BY <1>1, Constants
<1>4. m * Transfer + Transfer <= q * Transfer
  BY <1>2, <1>3, Constants, RoomForOneMore
<1>5. QED BY <1>1, <1>2, <1>4, Constants

LEMMA FlashFailureBreaks == Fails(TRUE) => broken'
<1> SUFFICES ASSUME Fails(TRUE) PROVE broken'
  OBVIOUS
<1>1. broken' = (broken \/ TRUE)
  BY DEF Fails
<1>2. QED BY <1>1, Zenon

LEMMA NextOpened == ImageInv /\ [PortNext]_f4vars => Opened'
<1> SUFFICES ASSUME ImageInv, [PortNext]_f4vars PROVE Opened'
  OBVIOUS
<1> USE DEF ImageInv, Opened
<1>1. CASE EraseAppArea
  BY <1>1 DEF EraseAppArea, Unlock, Fails
<1>2. CASE ProgramPage
  BY <1>2 DEF ProgramPage, Unlock, Fails
<1>3. CASE ProgramOneWord
  <2>1. UNCHANGED <<f4pc, locked>> /\ (Fails(TRUE) \/ Succeeds)
    BY <1>3 DEF ProgramOneWord
  <2>2. broken' \/ UNCHANGED broken
    BY <2>1, FlashFailureBreaks DEF Succeeds
  <2>3. QED BY <2>1, <2>2
<1>4. CASE SpiSetup \/ StartPass \/ EraseSector \/ EraseReturns \/ EraseEnd
  BY <1>4 DEF SpiSetup, StartPass, EraseSector, EraseReturns, EraseEnd
<1>5. CASE CsLow \/ Transmit \/ ReadFails \/ ReadSucceeds \/ AccumulateTransfer
  BY <1>5 DEF CsLow, Transmit, ReadFails, ReadSucceeds, AccumulateTransfer
<1>6. CASE SkipPage \/ ProgramReturns \/ NextTransfer \/ LastTransfer \/ EndPass
  BY <1>6 DEF SkipPage, ProgramReturns, NextTransfer, LastTransfer, EndPass
<1>7. CASE UNCHANGED f4vars
  BY <1>7 DEF f4vars
<1>8. QED BY <1>1, <1>2, <1>3, <1>4, <1>5, <1>6, <1>7 DEF PortNext

LEMMA NextErasing == ImageInv /\ [PortNext]_f4vars => Erasing'
<1> SUFFICES ASSUME ImageInv, [PortNext]_f4vars PROVE Erasing'
  OBVIOUS
<1> USE Constants DEF ImageInv, Erasing, SafeInv, PortTypeOK, f4core, f4data
<1>0. /\ \A w \in AppWords : w \in FlashWords /\ w \in Nat /\ w >= Stm32Start /\ w < Stm32End
      /\ FirstErased <= LastErased
  <2>1. \A w \in AppWords : w \in FlashWords /\ w \in Nat /\ w >= Stm32Start /\ w < Stm32End
    BY DEF AppWords, FlashWords
  <2>2. FirstErased <= LastErased
    <3> SUFFICES ASSUME LastErased + 1 <= FirstErased PROVE FALSE
      OBVIOUS
    <3>1. LastErased + 1 \in Begins /\ FirstErased \in Begins
      BY ErasedSectors, Stm32Assumption DEF Sectors, Begins
    <3>2. SectorBegin(LastErased + 1) <= SectorBegin(FirstErased)
      <4>1. LastErased + 1 = FirstErased \/ LastErased + 1 < FirstErased
        OBVIOUS
      <4>2. QED BY <3>1, <4>1, BeginsInOrder
    <3>3. Stm32Start < Stm32End
      BY Stm32Assumption DEF PortChecks
    <3>4. QED BY <3>2, <3>3, ErasedSectors
  <2>3. QED BY <2>1, <2>2
<1>1. CASE StartPass
  BY <1>1 DEF StartPass
<1>2. CASE EraseAppArea
  <2>1. /\ f4pc' = "eraseSector" /\ step' = FirstErased /\ f4pc = "erase"
        /\ UNCHANGED <<pass, flashAddress, remain, imageSize>>
    BY <1>2 DEF EraseAppArea
  <2>2. step' <= LastErased + 1
    BY <2>1, <1>0
  <2>3. \A w \in AppWords : ~(w < SectorBegin(step'))
    BY <2>1, <1>0, ErasedSectors
  <2>4. QED BY <2>1, <2>2, <2>3
<1>3. CASE EraseSector
  <2>1. /\ f4pc = "eraseSector" /\ f4pc' = "eraseSector" /\ step' = step + 1
        /\ step <= LastErased /\ step \in Nat
        /\ UNCHANGED <<pass, flashAddress, remain, imageSize, broken>>
    BY <1>3 DEF EraseSector
  <2>2. ASSUME ~broken, NEW w \in AppWords, w < SectorBegin(step + 1)
        PROVE  f4flash'[w] = Blank
    <3>1. f4flash'[w] = IF w \in ChipSector(step) THEN Blank ELSE f4flash[w]
      BY <1>0, <1>3 DEF EraseSector
    <3>2. CASE w < SectorBegin(step)
      BY <3>1, <3>2, <2>1, <2>2
    <3>3. CASE ~(w < SectorBegin(step))
      <4>1. step \in Begins
        BY <2>1, ErasedSectors, Stm32Assumption DEF Sectors, Begins
      <4>2. w \in ChipSector(step)
        BY <4>1, <3>3, <2>2, <1>0, BeginsInOrder DEF ChipSector
      <4>3. QED BY <3>1, <4>2
    <3>4. QED BY <3>2, <3>3
  <2>3. step' <= LastErased + 1
    BY <2>1
  <2>4. QED BY <2>1, <2>2, <2>3
<1>4. CASE EraseReturns
  <2>1. /\ f4pc = "eraseSector" /\ f4pc' = "eraseEnd"
        /\ UNCHANGED <<f4flash, pass, flashAddress, remain, imageSize>>
    BY <1>4 DEF EraseReturns
  <2>2. ASSUME ~broken' PROVE \A w \in AppWords : f4flash[w] = Blank
    <3>1. ~broken /\ step = LastErased + 1
      <4>1. (step > LastErased \/ locked) /\ Succeeds
        BY <1>4, <2>2, FlashFailureBreaks DEF EraseReturns
      <4>2. ~broken /\ ~locked
        BY <4>1, <2>1, <2>2 DEF Succeeds, Opened
      <4>3. QED BY <2>1, <4>1, <4>2
    <3>2. \A w \in AppWords : w < SectorBegin(step)
      BY <3>1, <1>0, ErasedSectors
    <3>3. QED BY <2>1, <3>1, <3>2
  <2>3. ASSUME ~broken' PROVE ProgrammedUpTo(Stm32Start)'
    BY <1>0, <2>1, <2>2, <2>3 DEF ProgrammedUpTo
  <2>4. QED BY <2>1, <2>3
<1>5. CASE SpiSetup \/ EraseEnd \/ CsLow \/ Transmit \/ ReadFails \/ ReadSucceeds
  BY <1>5 DEF SpiSetup, EraseEnd, CsLow, Transmit, ReadFails, ReadSucceeds
<1>6. CASE AccumulateTransfer \/ ProgramPage \/ SkipPage \/ ProgramOneWord \/ ProgramReturns
  BY <1>6 DEF AccumulateTransfer, ProgramPage, SkipPage, ProgramOneWord, ProgramReturns
<1>7. CASE NextTransfer \/ LastTransfer \/ EndPass
  BY <1>7 DEF NextTransfer, LastTransfer, EndPass
<1>8. CASE UNCHANGED f4vars
  BY <1>8 DEF f4vars, ProgrammedUpTo, ImageWord
<1>9. QED BY <1>1, <1>2, <1>3, <1>4, <1>5, <1>6, <1>7, <1>8 DEF PortNext

LEMMA NextTogether == ImageInv /\ [PortNext]_f4vars => Together'
<1> SUFFICES ASSUME ImageInv, [PortNext]_f4vars PROVE Together'
  OBVIOUS
<1> USE Constants DEF ImageInv, Together, SafeInv, PortTypeOK, f4core, f4data
<1>0. Stm32Start - Stm32Start = 0 * Transfer /\ 0 \in Nat
  OBVIOUS
<1>1. CASE EraseEnd
  <2>1. /\ pass = 1 /\ flashAddress = Stm32Start /\ remain = imageSize
        /\ UNCHANGED <<pass, flashAddress, remain, imageSize>>
    BY <1>1 DEF EraseEnd, Erasing
  <2>2. QED BY <2>1, <1>0
<1>2. CASE NextTransfer
  <2> SUFFICES ASSUME pass' = 1
               PROVE  /\ flashAddress' - Stm32Start = imageSize' - remain'
                      /\ \E m \in Nat : flashAddress' - Stm32Start = m * Transfer
    OBVIOUS
  <2>1. /\ remain' = remain - Transfer /\ flashAddress' = flashAddress + Transfer
        /\ imageSize' = imageSize /\ f4pc = "next" /\ pass = 1
    BY <1>2 DEF NextTransfer, MoreTransfers
  <2>2. PICK m \in Nat : flashAddress - Stm32Start = m * Transfer
    BY <2>1
  <2>3. m + 1 \in Nat /\ (m + 1) * Transfer = m * Transfer + Transfer
    OBVIOUS
  <2>4. flashAddress' - Stm32Start = (m + 1) * Transfer
    BY <2>1, <2>2, <2>3
  <2>5. flashAddress - Stm32Start = imageSize - remain
    BY <2>1
  <2>6. \E n \in Nat : flashAddress' - Stm32Start = n * Transfer
    BY <2>3, <2>4
  <2>7. flashAddress' - Stm32Start = imageSize' - remain'
    BY <2>1, <2>5
  <2>8. QED BY <2>6, <2>7
<1>3. CASE SpiSetup \/ StartPass \/ EraseAppArea \/ EraseSector \/ EraseReturns
  BY <1>3 DEF SpiSetup, StartPass, EraseAppArea, EraseSector, EraseReturns
<1>4. CASE CsLow \/ Transmit \/ ReadFails \/ ReadSucceeds \/ AccumulateTransfer
  BY <1>4 DEF CsLow, Transmit, ReadFails, ReadSucceeds, AccumulateTransfer
<1>5. CASE ProgramPage \/ SkipPage \/ ProgramOneWord \/ ProgramReturns
  BY <1>5 DEF ProgramPage, SkipPage, ProgramOneWord, ProgramReturns
<1>6. CASE LastTransfer \/ EndPass
  BY <1>6 DEF LastTransfer, EndPass
<1>7. CASE UNCHANGED f4vars
  BY <1>7 DEF f4vars
<1>8. QED BY <1>1, <1>2, <1>3, <1>4, <1>5, <1>6, <1>7 DEF PortNext

\* A page that the image needs is never refused.
LEMMA NeededPageIsValid ==
    ASSUME ImageInv, pass = 1, f4pc = "program", Fits
    PROVE  IsRangeValid(flashAddress, flashAddress + Transfer)
<1> USE Constants DEF ImageInv, SafeInv, PortTypeOK
<1>1. /\ flashAddress - Stm32Start = imageSize - remain
      /\ \E m \in Nat : flashAddress - Stm32Start = m * Transfer
  BY DEF Together
<1>2. flashAddress < Stm32End /\ flashAddress >= Stm32Start
  BY <1>1 DEF Fits
<1>3. flashAddress + Transfer <= Stm32End
  BY <1>1, <1>2, TransferFits
<1>4. QED BY <1>2, <1>3 DEF IsRangeValid

\* One word more of the image.
LEMMA OneWordMore ==
    ASSUME ImageInv, ProgramOneWord, Succeeds, pass = 1, clean, ~broken, Fits
    PROVE  ProgrammedUpTo(flashAddress + step)'
<1> USE Constants DEF ImageInv, SafeInv, PortTypeOK
<1> DEFINE a == flashAddress + step
<1>1. /\ f4pc = "programWord" /\ step < Transfer /\ step \in Nat
      /\ Stm32Start <= a /\ a < Stm32End /\ a \in AppWords /\ a \in FlashWords
      /\ ~locked /\ read = "data" /\ ProgrammedUpTo(a)
      /\ flashAddress - Stm32Start = imageSize - remain
  <2>1. f4pc = "programWord" /\ step < Transfer /\ step \in Nat
    BY DEF ProgramOneWord, WordsOfTransfer
  <2>2. Stm32Start <= a /\ a < Stm32End /\ a \in AppWords /\ a \in FlashWords
    BY <2>1 DEF Inside, AppWords, FlashWords
  <2>3. ~locked /\ read = "data" /\ ProgrammedUpTo(a)
    BY <2>1 DEF Opened, Programming
  <2>4. flashAddress - Stm32Start = imageSize - remain
    BY <2>1 DEF Together
  <2>5. QED BY <2>1, <2>2, <2>3, <2>4
<1>2. Word = ImageWord(a)
  BY <1>1 DEF Word, ImageWord
<1>3. f4flash[a] = Blank
  BY <1>1 DEF ProgrammedUpTo
<1>4. f4flash' = [f4flash EXCEPT ![a] = Word]
  <2>1. \/ f4flash' = [f4flash EXCEPT ![a] = Programmed(f4flash[a], Word)]
        \/ Fails(TRUE)
    BY <1>1 DEF ProgramOneWord
  <2>2. ~Fails(TRUE)
    BY FlashFailureBreaks DEF Succeeds
  <2>3. QED BY <2>1, <2>2, <1>3 DEF Programmed
<1>5. UNCHANGED <<imageSize, flashAddress>> /\ step' = step + 1
  BY DEF ProgramOneWord, f4core
<1>6. \A w \in AppWords : w \in Nat /\ w \in FlashWords
  BY DEF AppWords, FlashWords
<1>7. ASSUME NEW w \in AppWords
      PROVE  f4flash'[w] = IF w < a + 1 THEN ImageWord(w) ELSE Blank
  <2>1. f4flash[w] = IF w < a THEN ImageWord(w) ELSE Blank
    BY <1>1 DEF ProgrammedUpTo
  <2>2. CASE w = a
    BY <1>1, <1>2, <1>4, <2>2
  <2>3. CASE w # a
    <3>1. f4flash'[w] = f4flash[w]
      BY <1>4, <1>6, <2>3
    <3>2. w < a + 1 <=> w < a
      BY <1>1, <1>6, <2>3
    <3>3. QED BY <2>1, <3>1, <3>2
  <2>4. QED BY <2>2, <2>3
<1>8. (flashAddress + step)' = a + 1
  BY <1>1, <1>5
<1>9. \A w : ImageWord(w)' = ImageWord(w)
  BY <1>5 DEF ImageWord
<1>10. QED BY <1>7, <1>8, <1>9 DEF ProgrammedUpTo

LEMMA NextProgramming == ImageInv /\ [PortNext]_f4vars => Programming'
<1> SUFFICES ASSUME ImageInv, [PortNext]_f4vars PROVE Programming'
  OBVIOUS
<1> USE Constants DEF ImageInv, SafeInv, PortTypeOK, f4core, f4data, Fits
<1>0. ASSUME UNCHANGED <<f4flash, imageSize>>, NEW x
      PROVE  ProgrammedUpTo(x) => \A w \in AppWords :
                f4flash'[w] = IF w < x THEN ImageWord(w)' ELSE Blank
  BY <1>0 DEF ProgrammedUpTo, ImageWord
<1>1. CASE EraseEnd
  <2>1. /\ f4pc = "eraseEnd" /\ f4pc' = "select" /\ flashAddress = Stm32Start
        /\ UNCHANGED <<f4flash, imageSize, flashAddress, broken>>
    BY <1>1 DEF EraseEnd, Erasing
  <2>2. ~broken => ProgrammedUpTo(flashAddress)
    BY <2>1 DEF Erasing
  <2>3. ~broken' => ProgrammedUpTo(flashAddress)'
    BY <1>0, <2>1, <2>2 DEF ProgrammedUpTo
  <2>4. QED BY <2>1, <2>3 DEF Programming
<1>2. CASE CsLow \/ Transmit \/ ReadFails \/ ReadSucceeds
  <2>1. /\ UNCHANGED <<f4flash, imageSize, pass, flashAddress, clean>>
        /\ f4pc \in {"select", "transmit", "receive"}
        /\ f4pc' \in {"transmit", "receive", "accumulate"}
    BY <1>2 DEF CsLow, Transmit, ReadFails, ReadSucceeds
  <2>2. broken' = broken
    <3>1. CASE ReadFails
      <4>1. broken' = (broken \/ FALSE)
        BY <3>1 DEF ReadFails, Fails
      <4>2. broken' \in BOOLEAN
        BY <3>1, FaultsAreCounted DEF ReadFails
      <4>3. broken' <=> broken
        BY <4>1, Zenon
      <4>4. QED BY <4>2, <4>3
    <3>2. QED BY <1>2, <3>1 DEF CsLow, Transmit, ReadSucceeds, Succeeds
  <2>3. (pass' = 1 /\ clean' /\ ~broken' /\ Fits') => ProgrammedUpTo(flashAddress)
    BY <2>1, <2>2 DEF Programming
  <2>4. ProgrammedUpTo(flashAddress) => ProgrammedUpTo(flashAddress)'
    BY <1>0, <2>1 DEF ProgrammedUpTo
  <2>5. QED BY <2>1, <2>3, <2>4 DEF Programming
<1>3. CASE AccumulateTransfer
  <2>1. /\ UNCHANGED <<f4flash, imageSize, pass, flashAddress, broken, read>>
        /\ f4pc = "accumulate" /\ f4pc' = IF pass = 1 THEN "program" ELSE "next"
        /\ clean' => clean /\ read = "data"
    BY <1>3 DEF AccumulateTransfer
  <2>2. (pass' = 1 /\ clean' /\ ~broken' /\ Fits') => ProgrammedUpTo(flashAddress)
    BY <2>1 DEF Programming
  <2>3. ProgrammedUpTo(flashAddress) => ProgrammedUpTo(flashAddress)'
    BY <1>0, <2>1 DEF ProgrammedUpTo
  <2>4. QED BY <2>1, <2>2, <2>3 DEF Programming
<1>4. CASE ProgramPage
  <2>1. /\ UNCHANGED <<f4flash, imageSize, pass, flashAddress, read, clean>>
        /\ f4pc = "program" /\ f4pc' = "programWord" /\ step' = 0
        /\ Succeeds \/ Fails(TRUE)
    BY <1>4 DEF ProgramPage, Unlock
  <2>2. ~broken' => ~broken
    BY <2>1, FlashFailureBreaks DEF Succeeds
  <2>3. (pass' = 1 /\ clean' /\ ~broken' /\ Fits') =>
           ProgrammedUpTo(flashAddress) /\ read' = "data"
    BY <2>1, <2>2 DEF Programming
  <2>4. (flashAddress + step)' = flashAddress
    BY <2>1
  <2>5. ProgrammedUpTo(flashAddress) => ProgrammedUpTo(flashAddress + step)'
    BY <1>0, <2>1, <2>4 DEF ProgrammedUpTo
  <2>6. QED BY <2>1, <2>3, <2>5 DEF Programming
<1>5. CASE SkipPage
  <2>1. /\ f4pc = "program" /\ f4pc' = "next"
        /\ UNCHANGED <<imageSize, pass>>
        /\ ~IsRangeValid(flashAddress, flashAddress + Transfer)
    BY <1>5 DEF SkipPage
  <2>2. ~(pass' = 1 /\ Fits')
    BY <2>1, NeededPageIsValid
  <2>3. QED BY <2>1, <2>2 DEF Programming
<1>6. CASE ProgramOneWord
  <2>1. /\ f4pc = "programWord" /\ f4pc' = "programWord" /\ step' = step + 1
        /\ step < Transfer /\ UNCHANGED <<imageSize, pass, clean, read>>
        /\ Succeeds \/ Fails(TRUE)
    BY <1>6 DEF ProgramOneWord, WordsOfTransfer
  <2>2. ASSUME pass' = 1, clean', ~broken', Fits'
        PROVE  ProgrammedUpTo(flashAddress + step)' /\ read' = "data"
    <3>0. Succeeds
      BY <2>1, <2>2, FlashFailureBreaks
    <3>1. Succeeds /\ ~broken /\ pass = 1 /\ clean /\ Fits
      BY <3>0, <2>1, <2>2 DEF Succeeds
    <3>2. read = "data"
      BY <2>1, <3>1 DEF Programming
    <3>3. QED BY <1>6, <2>1, <3>1, <3>2, OneWordMore
  <2>3. QED BY <2>1, <2>2 DEF Programming
<1>7. CASE ProgramReturns
  <2>1. /\ f4pc = "programWord" /\ f4pc' = "next" /\ step = Transfer
        /\ UNCHANGED <<f4flash, imageSize, pass, flashAddress, clean, broken>>
    BY <1>7 DEF ProgramReturns, WordsOfTransfer, Programming
  <2>2. (pass' = 1 /\ clean' /\ ~broken' /\ Fits') =>
           ProgrammedUpTo(flashAddress + Transfer)
    BY <2>1 DEF Programming
  <2>3. ProgrammedUpTo(flashAddress + Transfer) => ProgrammedUpTo(flashAddress + Transfer)'
    BY <1>0, <2>1 DEF ProgrammedUpTo
  <2>4. QED BY <2>1, <2>2, <2>3 DEF Programming
<1>8. CASE NextTransfer
  <2>1. /\ f4pc = "next" /\ f4pc' = "select" /\ UNCHANGED <<f4flash, imageSize, pass>>
        /\ UNCHANGED <<clean, broken>>
        /\ pass = 1 => flashAddress' = flashAddress + Transfer
    BY <1>8 DEF NextTransfer, MoreTransfers
  <2>2. (pass' = 1 /\ clean' /\ ~broken' /\ Fits') =>
           ProgrammedUpTo(flashAddress + Transfer)
    BY <2>1 DEF Programming
  <2>3. pass = 1 =>
           (ProgrammedUpTo(flashAddress + Transfer) => ProgrammedUpTo(flashAddress)')
    BY <1>0, <2>1 DEF ProgrammedUpTo
  <2>4. QED BY <2>1, <2>2, <2>3 DEF Programming
<1>9. CASE LastTransfer
  <2>1. /\ f4pc = "next" /\ f4pc' = "end" /\ remain' <= Transfer
        /\ UNCHANGED <<f4flash, imageSize, pass, clean, broken, flashAddress>>
    BY <1>9 DEF LastTransfer, MoreTransfers
  <2>2. (pass' = 1 /\ clean' /\ ~broken' /\ Fits') =>
           ProgrammedUpTo(flashAddress + Transfer)
    BY <2>1 DEF Programming
  <2>3. ProgrammedUpTo(flashAddress + Transfer) => ProgrammedUpTo(flashAddress + Transfer)'
    BY <1>0, <2>1 DEF ProgrammedUpTo
  <2>4. QED BY <2>1, <2>2, <2>3 DEF Programming
<1>10. CASE StartPass
  <2>1. /\ f4pc' = IF pass = 1 THEN "erase" ELSE "select"
        /\ UNCHANGED pass
    BY <1>10 DEF StartPass
  <2>2. QED BY <2>1 DEF Programming
<1>11. CASE SpiSetup \/ EraseAppArea \/ EraseSector \/ EraseReturns \/ EndPass
  <2>1. f4pc' \in {"pass", "eraseSector", "eraseEnd", "success", "failed"}
    BY <1>11 DEF SpiSetup, EraseAppArea, EraseSector, EraseReturns, EndPass
  <2>2. QED BY <2>1 DEF Programming
<1>12. CASE UNCHANGED f4vars
  BY <1>12 DEF f4vars, Programming, ProgrammedUpTo, ImageWord
<1>13. QED
  BY <1>1, <1>2, <1>3, <1>4, <1>5, <1>6, <1>7, <1>8, <1>9, <1>10, <1>11, <1>12
     DEF PortNext

LEMMA NextSuccess == ImageInv /\ [PortNext]_f4vars => SuccessMeansImage'
<1> SUFFICES ASSUME ImageInv, [PortNext]_f4vars PROVE SuccessMeansImage'
  OBVIOUS
<1> USE Constants DEF ImageInv, SafeInv, PortTypeOK, f4core, f4data, Fits
<1>1. CASE EndPass
  <2> SUFFICES ASSUME f4pc' = "success", ~broken', Fits', NEW w \in AppWords
               PROVE  f4flash'[w] = ImageWord(w)'
    BY DEF SuccessMeansImage, AppWords, ImageWord
  <2>1. /\ f4pc = "end" /\ pass = 1 /\ clean
        /\ UNCHANGED <<f4flash, imageSize, broken>>
    BY <1>1 DEF EndPass
  <2>2. /\ ProgrammedUpTo(flashAddress + Transfer) /\ remain <= Transfer
        /\ flashAddress - Stm32Start = imageSize - remain
    BY <2>1 DEF Programming, Together
  <2>3. w \in Nat
    BY DEF AppWords
  <2>4. f4flash[w] = ImageWord(w)
    BY <2>2, <2>3 DEF ProgrammedUpTo, ImageWord
  <2>5. QED BY <2>1, <2>4 DEF ImageWord
<1>2. CASE UNCHANGED f4vars
  BY <1>2 DEF f4vars, SuccessMeansImage
<1>3. CASE SpiSetup \/ StartPass \/ EraseAppArea \/ EraseSector \/ EraseReturns \/ EraseEnd
  <2>1. f4pc' # "success"
    BY <1>3 DEF SpiSetup, StartPass, EraseAppArea, EraseSector, EraseReturns, EraseEnd
  <2>2. QED BY <2>1 DEF SuccessMeansImage
<1>4. CASE CsLow \/ Transmit \/ ReadFails \/ ReadSucceeds \/ AccumulateTransfer
  <2>1. f4pc' # "success"
    BY <1>4 DEF CsLow, Transmit, ReadFails, ReadSucceeds, AccumulateTransfer
  <2>2. QED BY <2>1 DEF SuccessMeansImage
<1>5. CASE ProgramPage \/ SkipPage \/ ProgramOneWord \/ ProgramReturns
  <2>1. f4pc' # "success"
    BY <1>5 DEF ProgramPage, SkipPage, ProgramOneWord, ProgramReturns
  <2>2. QED BY <2>1 DEF SuccessMeansImage
<1>6. CASE NextTransfer \/ LastTransfer
  <2>1. f4pc' # "success"
    BY <1>6 DEF NextTransfer, LastTransfer
  <2>2. QED BY <2>1 DEF SuccessMeansImage
<1>7. QED BY <1>1, <1>2, <1>3, <1>4, <1>5, <1>6 DEF PortNext

LEMMA InitImage == PortInit => ImageInv
<1>1. ASSUME PortInit
      PROVE  Opened /\ Erasing /\ Together /\ Programming /\ SuccessMeansImage
  BY <1>1 DEF PortInit, Opened, Erasing, Together, Programming, SuccessMeansImage
<1>2. QED BY <1>1, InitSafe DEF ImageInv

LEMMA NextImage == ImageInv /\ [PortNext]_f4vars => ImageInv'
BY NextSafe, NextOpened, NextErasing, NextTogether, NextProgramming, NextSuccess DEF ImageInv

\* If HAL does what it is asked in flash, an update that ends as a success has left
\* exactly the image in the application area, although a failed read is programmed
\* as 0xFF and the port reports nothing.
THEOREM SuccessIsTheImage == PortSpec => []SuccessMeansImage
<1>1. ImageInv => SuccessMeansImage
  BY DEF ImageInv
<1>2. QED BY <1>1, InitImage, NextImage, PTL DEF PortSpec

-----------------------------------------------------------------------------
(* The end of an update.                                                    *)

\* The counts are natural numbers, and so cannot go down for ever.
LEMMA CountsAreNaturals ==
    ASSUME ImageInv
    PROVE  UpdateFaultsLeft \in Nat /\ UpdateWordsLeft \in Nat /\ UpdateTurnsLeft \in Nat
<1> USE Constants DEF ImageInv, SafeInv, PortTypeOK
<1>1. UpdateFaultsLeft \in Nat
  BY DEF UpdateFaultsLeft
<1>2. UpdateWordsLeft \in Nat
  BY DEF UpdateWordsLeft
<1>3. UpdateTurnsLeft \in Nat
  BY DEF UpdateTurnsLeft, Erasing, Programming
<1>4. QED BY <1>1, <1>2, <1>3

LEMMA CountsStayNaturals ==
    ASSUME ImageInv'
    PROVE  UpdateFaultsLeft' \in Nat /\ UpdateWordsLeft' \in Nat /\ UpdateTurnsLeft' \in Nat
<1>0. faults' \in 0 .. MaxFaults
  BY DEF ImageInv, SafeInv, PortTypeOK
<1>1. UpdateFaultsLeft' \in Nat
  <2>1. \A n \in Nat : \A f \in 0 .. n : n - f \in Nat
    OBVIOUS
  <2>2. UpdateFaultsLeft' = MaxFaults - faults'
    BY DEF UpdateFaultsLeft
  <2>3. QED BY <1>0, <2>1, <2>2, Constants
<1> USE Constants DEF ImageInv, SafeInv, PortTypeOK
<1>2. UpdateWordsLeft' \in Nat
  BY DEF UpdateWordsLeft
<1>3. UpdateTurnsLeft' \in Nat
  BY DEF UpdateTurnsLeft, Erasing, Programming
<1>4. QED BY <1>1, <1>2, <1>3

\* A call that fails uses up one of the failures, and any other leaves them.
LEMMA FaultsLeft ==
    ASSUME ImageInv
    PROVE  /\ \A b \in BOOLEAN : Fails(b) => UpdateFaultsLeft' < UpdateFaultsLeft
           /\ Succeeds => UpdateFaultsLeft' = UpdateFaultsLeft
BY Constants DEF ImageInv, SafeInv, PortTypeOK, Fails, Succeeds, UpdateFaultsLeft

\* A step inside a pass leaves the number of passes as it is: the transfer in hand is
\* accounted for before it is accumulated.
LEMMA SamePass ==
    ASSUME f4pc \notin {"success", "failed", "config", "pass"},
           f4pc' \notin {"success", "failed", "config", "pass"},
           pass' = pass, chance' = chance,
           Tainted' <=> Tainted
    PROVE  UpdatePassesLeft' = UpdatePassesLeft
BY DEF UpdatePassesLeft

LEMMA StepGetsCloser ==
    ASSUME ImageInv, ImageInv', PortNext
    PROVE  UpdateCloser
<1> USE DEF f4core, f4data
<1>0. /\ UpdateFaultsLeft \in Nat /\ UpdateWordsLeft \in Nat /\ UpdateTurnsLeft \in Nat
      /\ UpdateFaultsLeft' \in Nat /\ UpdateWordsLeft' \in Nat /\ UpdateTurnsLeft' \in Nat
  BY CountsAreNaturals, CountsStayNaturals
<1>1. CASE \E b \in BOOLEAN : Fails(b)
  BY <1>0, <1>1, FaultsLeft DEF UpdateCloser
<1> SUFFICES ASSUME Succeeds PROVE UpdateCloser
  BY <1>1 DEF PortNext, SpiSetup, StartPass, EraseAppArea, Unlock, EraseSector, EraseReturns,
     EraseEnd, CsLow, Transmit, ReadFails, ReadSucceeds, AccumulateTransfer, ProgramPage,
     SkipPage, ProgramOneWord, ProgramReturns, NextTransfer, LastTransfer, EndPass, Succeeds
<1>2. UpdateFaultsLeft' = UpdateFaultsLeft /\ faults' = faults
  BY FaultsLeft DEF Succeeds
<1>3. ~ReadFails
  BY <1>2 DEF ReadFails, Fails, ImageInv, SafeInv, PortTypeOK
<1>4. CASE SpiSetup \/ StartPass
  <2>1. /\ pass' = pass /\ chance' = chance
        /\ \/ f4pc = "config" /\ f4pc' = "pass"
           \/ f4pc = "pass" /\ f4pc' \in {"erase", "select"} /\ clean'
    BY <1>4 DEF SpiSetup, StartPass, CrcAtStart
  <2>2. ~Tainted /\ ~Tainted'
    BY <2>1 DEF Tainted
  <2>3. UpdatePassesLeft' = UpdatePassesLeft
    BY <2>1, <2>2 DEF UpdatePassesLeft
  <2>4. UpdateStageLeft' < UpdateStageLeft
    BY <2>1 DEF UpdateStageLeft, TransferPcs
  <2>5. QED BY <1>0, <1>2, <2>3, <2>4 DEF UpdateCloser
<1>5. CASE EraseAppArea \/ EraseReturns \/ EraseEnd
  <2>1. /\ pass' = pass /\ chance' = chance /\ clean' = clean
        /\ \/ f4pc = "erase" /\ f4pc' = "eraseSector"
           \/ f4pc = "eraseSector" /\ f4pc' = "eraseEnd"
           \/ f4pc = "eraseEnd" /\ f4pc' = "select"
    BY <1>5 DEF EraseAppArea, EraseReturns, EraseEnd
  <2>2. UpdatePassesLeft' = UpdatePassesLeft
    BY <2>1, SamePass DEF Tainted
  <2>3. \/ UpdateStageLeft' < UpdateStageLeft
        \/ /\ UpdateStageLeft' = UpdateStageLeft /\ UpdateWordsLeft' = UpdateWordsLeft
           /\ UpdateStepsLeft' < UpdateStepsLeft
    BY <2>1 DEF UpdateStageLeft, UpdateWordsLeft, UpdateStepsLeft, TransferPcs
  <2>4. QED BY <1>0, <1>2, <2>2, <2>3 DEF UpdateCloser
<1>6. CASE EraseSector \/ ProgramOneWord
  <2>1. /\ pass' = pass /\ chance' = chance /\ clean' = clean /\ remain' = remain
        /\ f4pc \in {"eraseSector", "programWord"} /\ f4pc' = f4pc /\ step' = step + 1
    BY <1>6 DEF EraseSector, ProgramOneWord
  <2>2. UpdatePassesLeft' = UpdatePassesLeft
    BY <2>1, SamePass DEF Tainted
  <2>3. /\ UpdateStageLeft' = UpdateStageLeft /\ UpdateWordsLeft' = UpdateWordsLeft
        /\ UpdateStepsLeft' = UpdateStepsLeft
    BY <2>1 DEF UpdateStageLeft, UpdateWordsLeft, UpdateStepsLeft
  <2>4. UpdateTurnsLeft' < UpdateTurnsLeft
    BY <2>1, Constants DEF UpdateTurnsLeft, ImageInv, SafeInv, PortTypeOK
  <2>5. QED BY <1>0, <1>2, <2>2, <2>3, <2>4 DEF UpdateCloser
<1>7. CASE \/ CsLow \/ Transmit \/ ReadSucceeds \/ AccumulateTransfer
           \/ ProgramPage \/ SkipPage \/ ProgramReturns
  <2>1. /\ pass' = pass /\ chance' = chance /\ remain' = remain
        /\ \/ f4pc = "select" /\ f4pc' = "transmit" /\ clean' = clean
           \/ f4pc = "transmit" /\ f4pc' = "receive" /\ clean' = clean
           \/ f4pc = "receive" /\ f4pc' = "accumulate" /\ clean' = clean /\ read' = "data"
           \/ /\ f4pc = "accumulate" /\ f4pc' \in {"program", "next"}
              /\ clean' = (clean /\ read = "data")
           \/ f4pc = "program" /\ f4pc' \in {"programWord", "next"} /\ clean' = clean
           \/ f4pc = "programWord" /\ f4pc' = "next" /\ clean' = clean
    BY <1>7 DEF CsLow, Transmit, ReadSucceeds, AccumulateTransfer, ProgramPage, SkipPage,
                ProgramReturns
  <2>2. Tainted' <=> Tainted
    BY <2>1 DEF Tainted, ImageInv, SafeInv, PortTypeOK
  <2>3. UpdatePassesLeft' = UpdatePassesLeft
    BY <2>1, <2>2, SamePass
  <2>4. /\ UpdateStageLeft' = UpdateStageLeft /\ UpdateWordsLeft' = UpdateWordsLeft
        /\ UpdateStepsLeft' < UpdateStepsLeft
    BY <2>1 DEF UpdateStageLeft, UpdateWordsLeft, UpdateStepsLeft, TransferPcs
  <2>5. QED BY <1>0, <1>2, <2>3, <2>4 DEF UpdateCloser
<1>8. CASE NextTransfer
  <2>1. /\ pass' = pass /\ chance' = chance /\ clean' = clean
        /\ f4pc = "next" /\ f4pc' = "select" /\ remain' = remain - Transfer
    BY <1>8 DEF NextTransfer
  <2>2. UpdatePassesLeft' = UpdatePassesLeft
    BY <2>1, SamePass DEF Tainted
  <2>3. UpdateStageLeft' = UpdateStageLeft
    BY <2>1 DEF UpdateStageLeft, TransferPcs
  <2>4. UpdateWordsLeft' < UpdateWordsLeft
    BY <2>1, Constants DEF UpdateWordsLeft, TransferPcs, ImageInv, SafeInv, PortTypeOK
  <2>5. QED BY <1>0, <1>2, <2>2, <2>3, <2>4 DEF UpdateCloser
<1>9. CASE LastTransfer
  <2>1. /\ pass' = pass /\ chance' = chance /\ clean' = clean
        /\ f4pc = "next" /\ f4pc' = "end"
    BY <1>9 DEF LastTransfer
  <2>2. UpdatePassesLeft' = UpdatePassesLeft
    BY <2>1, SamePass DEF Tainted
  <2>3. UpdateStageLeft' < UpdateStageLeft
    BY <2>1 DEF UpdateStageLeft, TransferPcs
  <2>4. QED BY <1>0, <1>2, <2>2, <2>3 DEF UpdateCloser
<1>10. CASE EndPass
  <2>1. f4pc = "end" /\ pass \in {0, 1} /\ chance \in 0 .. 1
    BY <1>10 DEF EndPass, ImageInv, SafeInv, PortTypeOK, Inside
  <2>2. \/ pass = 0 /\ clean /\ pass' = 1 /\ f4pc' = "pass"
        \/ pass' = 0 /\ pass = 0 /\ ~clean /\ chance' = chance + 1 /\ f4pc' = "pass"
        \/ pass = 1 /\ ~clean /\ pass' = 1 /\ f4pc' = "pass"
        \/ f4pc' \in {"success", "failed"}
    BY <1>10 DEF EndPass
  <2>3. f4pc' = "pass" => ~Tainted'
    BY DEF Tainted
  <2>4. Tainted <=> ~clean
    BY <2>1 DEF Tainted
  <2>5. UpdatePassesLeft' < UpdatePassesLeft
    BY <2>1, <2>2, <2>3, <2>4 DEF UpdatePassesLeft
  <2>6. QED BY <1>0, <1>2, <2>5 DEF UpdateCloser
<1>11. QED
  BY <1>3, <1>4, <1>5, <1>6, <1>7, <1>8, <1>9, <1>10 DEF PortNext

\* An update ends or fails another HAL call: whatever the reads return, the passes and
\* the loops of the port are finitely many between two failures.
THEOREM UpdatesEnd == PortSpec => UpdateAdvances
<1>1. ImageInv /\ [PortNext]_f4vars => [UpdateCloser]_f4vars
  BY StepGetsCloser, NextImage
<1>2. QED BY <1>1, InitImage, NextImage, PTL DEF PortSpec, UpdateAdvances
=============================================================================
