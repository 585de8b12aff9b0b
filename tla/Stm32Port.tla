------------------------------ MODULE Stm32Port ------------------------------
(***************************************************************************)
(* An update on the STM32F4 port (boot_port_stm32f4_generic_impl.c): the   *)
(* port calls that boot_core_firmware_update makes, the board example that *)
(* reads the SPI chip, and the ST library (HAL) under them, any call of    *)
(* which may fail.  The port ignores most of what HAL returns.             *)
(*                                                                         *)
(* Abstractions.                                                           *)
(*  - A word of flash or of a buffer is the number of the image word that  *)
(*    it holds, or one of the values below 0.                              *)
(*  - boot_core.c reads a transfer at once; BootStream has its buffers.    *)
(*  - The CRC matches if every transfer was read as it is: the hook in     *)
(*    boot_storage_stm32f4_generic_impl.c leaves the expected value to the *)
(*    product ("mirror hc32f460 storage hooks"), and returns 0 until then. *)
(*  - HAL_FLASHEx_Erase stops at the first sector that fails.              *)
(***************************************************************************)
EXTENDS Stm32Map

Blank == -1     \* erased
Old   == -2     \* as it was before the update
Mixed == -3     \* programmed without having been erased
Wrong == -4     \* a word that HAL failed to program

FlashWords == 0 .. DeviceEnd - 1

VARIABLES
    f4flash,    \* each word of the flash
    locked,     \* FLASH_CR.LOCK
    cs,         \* the level of the chip select pin
    f4pc,
    imageSize,  \* binary_file_size, in words
    pass,       \* spi_data_crc_check_pass
    chance,     \* spi_data_crc_second_chance
    flashAddress, remain,   \* flash_address, and the words still to be handled
    read,       \* what transfer_data holds: "data", or "blank" after a failed read
    clean,      \* every transfer of the pass was read as it is
    step,       \* the sector being erased, or the word being programmed
    faults,     \* HAL calls that have failed
    broken      \* a HAL call for the flash was among them

f4core == <<imageSize, pass, chance, flashAddress, remain>>
f4data == <<read, clean>>
f4vars == <<f4flash, locked, cs, f4pc, f4core, f4data, step, faults, broken>>

PortPcs == {"config", "pass", "erase", "eraseSector", "eraseEnd", "select", "transmit",
            "receive", "accumulate", "program", "programWord", "next", "end",
            "success", "failed"}

PortTypeOK ==
    /\ f4flash \in [FlashWords -> Nat \union {Blank, Old, Mixed, Wrong}]
    /\ locked \in BOOLEAN /\ cs \in {"low", "high"} /\ f4pc \in PortPcs
    /\ imageSize \in ImageSizes /\ flashAddress \in Nat /\ remain \in 1 .. imageSize
    /\ pass \in {0, 1} /\ chance \in 0 .. 2
    /\ read \in {"data", "blank"} /\ clean \in BOOLEAN
    /\ step \in Nat /\ faults \in 0 .. MaxFaults /\ broken \in BOOLEAN

-----------------------------------------------------------------------------
\* boot_stm32f4_is_range_valid.
IsRangeValid(start, endExclusive) ==
    /\ start < endExclusive
    /\ start >= Stm32Start
    /\ endExclusive <= Stm32End

\* The table of boot_stm32f4_address_to_sector: where sector k ends.
SectorLimit(k) == IF k < 4 THEN (k + 1) * Unit ELSE 8 * (k - 3) * Unit

AddressToSector_AtMost(a) ==
    CHOOSE k \in Listed : /\ k = TableLast \/ a <= SectorLimit(k)
                          /\ \A j \in Listed : j < k => a > SectorLimit(j)

AddressToSector(a) ==
    CHOOSE k \in Listed : /\ k = TableLast \/ a < SectorLimit(k)
                          /\ \A j \in Listed : j < k => a >= SectorLimit(j)

FirstErased == AddressToSector(Stm32Start)
LastErased  == AddressToSector(Stm32End - 1)

-----------------------------------------------------------------------------
(* A HAL call may fail, at most MaxFaults times.  Operators with an          *)
(* underscore in their name are plausible mistakes in the one that follows.  *)

Fails(forFlash) ==
    /\ faults < MaxFaults
    /\ faults' = faults + 1
    /\ broken' = (broken \/ forFlash)

Succeeds == UNCHANGED <<faults, broken>>

\* HAL_FLASH_Unlock, whose result is ignored.
Unlock ==
    \/ locked' = FALSE /\ Succeeds
    \/ UNCHANGED locked /\ Fails(TRUE)

\* boot_port_spi_config of the board example.
SpiSetup ==
    /\ f4pc = "config"
    /\ cs' = "high"
    /\ f4pc' = "pass"
    /\ UNCHANGED <<f4flash, locked, f4core, f4data, step, faults, broken>>

CrcAtStart_KeepsLast == clean

\* boot_port_crc_init, at the start of every pass.
CrcAtStart == TRUE

\* One turn of the while loop of boot_core_firmware_update begins.
StartPass ==
    /\ f4pc = "pass"
    /\ flashAddress' = Stm32Start
    /\ remain' = imageSize
    /\ clean' = CrcAtStart
    /\ f4pc' = IF pass = 1 THEN "erase" ELSE "select"
    /\ UNCHANGED <<f4flash, locked, cs, imageSize, pass, chance, read, step, faults, broken>>

\* boot_port_flash_erase_app_area; with PortChecks its range check never fails.
EraseAppArea ==
    /\ f4pc = "erase"
    /\ Unlock
    /\ step' = FirstErased
    /\ f4pc' = "eraseSector"
    /\ UNCHANGED <<f4flash, cs, f4core, f4data>>

ChipSector(k) == {w \in FlashWords : /\ SectorBegin(k) <= w
                                     /\ k < LastSector => w < SectorBegin(k + 1)}

EraseSector ==
    /\ f4pc = "eraseSector"
    /\ step <= LastErased /\ ~locked
    /\ f4flash' = [w \in FlashWords |-> IF w \in ChipSector(step) THEN Blank ELSE f4flash[w]]
    /\ step' = step + 1
    /\ UNCHANGED <<locked, cs, f4pc, f4core, f4data, faults, broken>>

\* HAL_FLASHEx_Erase returns; a sector may be left as it was.
EraseReturns ==
    /\ f4pc = "eraseSector"
    /\ \/ (step > LastErased \/ locked) /\ Succeeds
       \/ step <= LastErased /\ Fails(TRUE)
    /\ f4pc' = "eraseEnd"
    /\ UNCHANGED <<f4flash, locked, cs, f4core, f4data, step>>

LockAfterErase_OnSuccess == IF step > LastErased THEN TRUE ELSE locked

LockAfterErase == TRUE

EraseEnd ==
    /\ f4pc = "eraseEnd"
    /\ locked' = LockAfterErase
    /\ f4pc' = "select"
    /\ UNCHANGED <<f4flash, cs, f4core, f4data, step, faults, broken>>

-----------------------------------------------------------------------------
(* boot_port_spi_read over the read of the board example.                   *)

CsLow ==
    /\ f4pc = "select"
    /\ cs' = "low"
    /\ f4pc' = "transmit"
    /\ UNCHANGED <<f4flash, locked, f4core, f4data, step, faults, broken>>

Transmit ==
    /\ f4pc = "transmit"
    /\ Succeeds
    /\ f4pc' = "receive"
    /\ UNCHANGED <<f4flash, locked, cs, f4core, f4data, step>>

\* boot_port_spi_read then fills the whole buffer with 0xFF.
ReadFails ==
    /\ f4pc \in {"transmit", "receive"}
    /\ Fails(FALSE)
    /\ cs' = "high"
    /\ read' = "blank"
    /\ f4pc' = "accumulate"
    /\ UNCHANGED <<f4flash, locked, f4core, clean, step>>

ReadSucceeds ==
    /\ f4pc = "receive"
    /\ Succeeds
    /\ cs' = "high"
    /\ read' = "data"
    /\ f4pc' = "accumulate"
    /\ UNCHANGED <<f4flash, locked, f4core, clean, step>>

\* boot_port_crc_accumulate32.
AccumulateTransfer ==
    /\ f4pc = "accumulate"
    /\ clean' = (clean /\ read = "data")
    /\ f4pc' = IF pass = 1 THEN "program" ELSE "next"
    /\ UNCHANGED <<f4flash, locked, cs, f4core, read, step, faults, broken>>

-----------------------------------------------------------------------------
(* boot_port_flash_program_page.                                            *)

ProgramPage ==
    /\ f4pc = "program"
    /\ IsRangeValid(flashAddress, flashAddress + Transfer)
    /\ Unlock
    /\ step' = 0
    /\ f4pc' = "programWord"
    /\ UNCHANGED <<f4flash, cs, f4core, f4data>>

\* Whoever calls does not learn that the page was skipped.
SkipPage ==
    /\ f4pc = "program"
    /\ ~IsRangeValid(flashAddress, flashAddress + Transfer)
    /\ f4pc' = "next"
    /\ UNCHANGED <<f4flash, locked, cs, f4core, f4data, step, faults, broken>>

\* Word number step of transfer_data, and what flash holds once it has been
\* programmed.  The last transfer is filled up with 0xFFFFFFFF.
Word == IF read = "data" /\ step < remain THEN imageSize - remain + step ELSE Blank

Programmed(old, new) ==
    IF old = Blank THEN new ELSE IF new \in {Blank, old} THEN old ELSE Mixed

WordsOfTransfer_OneLess == Transfer - 1

WordsOfTransfer == Transfer

\* HAL_FLASH_Program, whose result is ignored: a locked flash keeps its word, and
\* a word that fails may be left in any state.
ProgramOneWord ==
    /\ f4pc = "programWord"
    /\ step < WordsOfTransfer
    /\ LET a == flashAddress + step
       IN  \/ /\ f4flash' = IF locked THEN f4flash
                            ELSE [f4flash EXCEPT ![a] = Programmed(@, Word)]
              /\ Succeeds
           \/ /\ \E left \in {f4flash[a], Wrong} :
                    f4flash' = IF locked THEN f4flash ELSE [f4flash EXCEPT ![a] = left]
              /\ Fails(TRUE)
    /\ step' = step + 1
    /\ UNCHANGED <<locked, cs, f4pc, f4core, f4data>>

ProgramReturns ==
    /\ f4pc = "programWord"
    /\ step >= WordsOfTransfer
    /\ locked' = TRUE
    /\ f4pc' = "next"
    /\ UNCHANGED <<f4flash, cs, f4core, f4data, step, faults, broken>>

-----------------------------------------------------------------------------
(* boot_core_firmware_update between the port calls.                        *)

MoreTransfers_AtLeast == remain >= Transfer

MoreTransfers == remain > Transfer

NextTransfer ==
    /\ f4pc = "next"
    /\ MoreTransfers
    /\ remain' = remain - Transfer
    /\ flashAddress' = IF pass = 1 THEN flashAddress + Transfer ELSE flashAddress
    /\ f4pc' = "select"
    /\ UNCHANGED <<f4flash, locked, cs, imageSize, pass, chance, f4data, step, faults, broken>>

LastTransfer ==
    /\ f4pc = "next"
    /\ ~MoreTransfers
    /\ f4pc' = "end"
    /\ UNCHANGED <<f4flash, locked, cs, f4core, f4data, step, faults, broken>>

\* The CRC comparison; boot_port_finish_and_reset does nothing but reset.
EndPass ==
    /\ f4pc = "end"
    /\ \/ pass = 0 /\ clean /\ pass' = 1 /\ f4pc' = "pass" /\ UNCHANGED chance
       \/ /\ pass = 0 /\ ~clean
          /\ chance' = chance + 1
          /\ f4pc' = IF chance + 1 > 1 THEN "failed" ELSE "pass"
          /\ UNCHANGED pass
       \/ /\ pass = 1
          /\ f4pc' = IF clean THEN "success" ELSE "pass"
          /\ UNCHANGED <<pass, chance>>
    /\ UNCHANGED <<f4flash, locked, cs, imageSize, flashAddress, remain, f4data, step,
                   faults, broken>>

-----------------------------------------------------------------------------
\* The flash is locked, as after a reset; the pin is as the product left it.
PortInit ==
    /\ f4flash = [w \in FlashWords |-> Old]
    /\ locked = TRUE
    /\ cs \in {"low", "high"}
    /\ f4pc = "config"
    /\ imageSize \in ImageSizes
    /\ pass = 0 /\ chance = 0
    /\ flashAddress = Stm32Start /\ remain = imageSize
    /\ read = "blank" /\ clean = TRUE
    /\ step = 0 /\ faults = 0 /\ broken = FALSE

PortNext ==
    \/ SpiSetup \/ StartPass
    \/ EraseAppArea \/ EraseSector \/ EraseReturns \/ EraseEnd
    \/ CsLow \/ Transmit \/ ReadFails \/ ReadSucceeds \/ AccumulateTransfer
    \/ ProgramPage \/ SkipPage \/ ProgramOneWord \/ ProgramReturns
    \/ NextTransfer \/ LastTransfer \/ EndPass

PortSpec == PortInit /\ [][PortNext]_f4vars

-----------------------------------------------------------------------------
\* Whatever fails, nothing outside [APP_START, APP_END) is erased or programmed:
\* the sectors that the table finds are the device's, and a page of an image that
\* is too large is refused (boot_port_stm32f4_generic_impl.c:126-223).
OnlyAppAreaChanges ==
    [][\A w \in FlashWords :
          f4flash'[w] # f4flash[w] => Stm32Start <= w /\ w < Stm32End]_f4vars

\* Outside the two flash calls the flash is locked, and outside a read the SPI
\* chip is deselected, on every path that a failing HAL call opens.
LockedAtRest ==
    /\ f4pc \notin {"eraseSector", "eraseEnd", "programWord"} => locked
    /\ f4pc \notin {"config", "transmit", "receive"} => cs = "high"

\* If HAL does what it is asked in flash, an update that ends as a success has put
\* the image there and left the rest blank, although failed reads are replaced
\* by 0xFF and go on to be programmed.
SuccessMeansImage ==
    (f4pc = "success" /\ ~broken /\ Stm32Start + imageSize <= Stm32End) =>
       \A w \in Stm32Start .. Stm32End - 1 :
          f4flash[w] = IF w - Stm32Start < imageSize THEN w - Stm32Start ELSE Blank

-----------------------------------------------------------------------------
(* How far an update has come; the first count that differs tells.           *)

UpdateFaultsLeft == MaxFaults - faults

\* This pass has put something else than the image into the CRC.
Tainted ==
    /\ f4pc \notin {"config", "pass"}
    /\ ~clean \/ (f4pc = "accumulate" /\ read = "blank")

\* Pass 0 is made once or twice, pass 1 again after each failed read.
UpdatePassesLeft ==
    IF f4pc \in {"success", "failed"} THEN 0
    ELSE (IF pass = 0 THEN 5 - chance ELSE 1) + (IF Tainted THEN 1 ELSE 0)

TransferPcs == {"select", "transmit", "receive", "accumulate", "program", "programWord", "next"}

UpdateStageLeft ==
    CASE f4pc = "config" -> 6
      [] f4pc = "pass" -> 5
      [] f4pc \in {"erase", "eraseSector", "eraseEnd"} -> 4
      [] f4pc \in TransferPcs -> 3
      [] OTHER -> 0

\* Words of the file still to be handled, while the transfers go through.
UpdateWordsLeft == IF f4pc \in TransferPcs THEN remain ELSE 0

UpdateStepsLeft ==
    CASE f4pc = "select" -> 6
      [] f4pc = "transmit" -> 5
      [] f4pc = "receive" -> 4
      [] f4pc = "accumulate" -> 3
      [] f4pc \in {"program", "erase"} -> 2
      [] f4pc \in {"programWord", "eraseSector"} -> 1
      [] OTHER -> 0

\* The turns of the two loops of HAL calls.
UpdateTurnsLeft ==
    CASE f4pc = "eraseSector" -> LastErased + 1 - step
      [] f4pc = "programWord" -> Transfer - step
      [] OTHER -> 0

UpdateCloser ==
    /\ {UpdateFaultsLeft', UpdateWordsLeft', UpdateTurnsLeft'} \subseteq Nat
    /\ \/ UpdateFaultsLeft' < UpdateFaultsLeft
       \/ /\ UpdateFaultsLeft' = UpdateFaultsLeft
          /\ \/ UpdatePassesLeft' < UpdatePassesLeft
             \/ /\ UpdatePassesLeft' = UpdatePassesLeft
                /\ \/ UpdateStageLeft' < UpdateStageLeft
                   \/ /\ UpdateStageLeft' = UpdateStageLeft
                      /\ \/ UpdateWordsLeft' < UpdateWordsLeft
                         \/ /\ UpdateWordsLeft' = UpdateWordsLeft
                            /\ \/ UpdateStepsLeft' < UpdateStepsLeft
                               \/ /\ UpdateStepsLeft' = UpdateStepsLeft
                                  /\ UpdateTurnsLeft' < UpdateTurnsLeft

\* An update on this port ends.  Pass 1 is repeated without limit (boot_core.c:165),
\* erasing the application each time; but each repetition costs a failed HAL read
\* of its own, as long as the CRC starts anew, and no loop of the port adds one.
UpdateAdvances == [][UpdateCloser]_f4vars

\* boot_meta.h:5, "Survives APP erase": no update ever changes the meta page.
MetaSurvivesErase ==
    [][\A w \in MetaBegin .. MetaEnd - 1 : f4flash'[w] = f4flash[w]]_f4vars
=============================================================================
