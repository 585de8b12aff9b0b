# A verification project for the Cortex-M SPI bootloader

TLA+ models of the bootloader in this repository, the TLC configurations that
check them on small instances, and theorems about them that TLAPS has proved.
`PROJECT.json` lists the runs, the mutants, the source lines behind every
definition, the hazards, the findings and the theorems.

    tlc -config MCBootloader.cfg MCBootloader      # check a run
    tlapm Bootloader_proofs.tla                    # check the proofs

## 1. The system

A device holds a small permanent **boot stub** and an **application** in internal
flash, and one or two **windows** of an external SPI NOR chip with firmware images
(CANDIDATE and GOOD). The **IAP core** programs the application area from a
window. The three talk across resets through one page of internal flash, the
**meta page**. Everything runs on one thread with interrupts masked during an
update. What makes it hard is that power can go away between any two flash
operations, and what survives is only the flash.

    application --RAM_ApplySpiFirmware--> meta: UPDATING --> IAP core --reset-->
    boot stub --meta, first two words of the application--> jump | restore GOOD | hang
    application --boot_fw_on_app_healthy--> meta: IDLE, promote, copy CANDIDATE to GOOD

| component | source (under `src/`) | state it keeps | operations |
|---|---|---|---|
| boot_meta | `BootRAM/boot_meta.c/.h` | the meta page: state, active slot, BOOT_OK, attempts, two image descriptors | read, is_valid, write, begin_update, set_programmed, set_fail, confirm_boot_ok, promote |
| boot stub | `BootStub/boot_stub.c` | none; counts attempts in the page | on_reset: count the trial, restore GOOD, jump, or loop forever |
| IAP core | `BootRAM/boot_core.c` | pass, second chance, buffers, addresses (RAM) | firmware_update: verify pass, program pass |
| SPI storage | `BootRAM/boot_storage.c`, `boot_config.h` | none | first node, next node, payload: MODE1 chain of sectors, MODE2 fixed windows |
| application API | `BootRAM/BootRAM.c` | none | RAM_ApplySpiFirmware |
| BOOT_OK and commit | `boot_fw_zone_hc32f460.c` | GOOD and CANDIDATE windows | on_app_healthy, commit_candidate_as_good |
| HC32 storage hooks | `boot_storage_hc32f460_impl.c` | `s_hc32_fw_slot` | expected CRC, start node |
| HC32 port | `boot_port_hc32f460_impl.c`, `_driver_adapter.c` | none | erase and program of internal flash, SPI read, CRC, reset |
| HC32 RAM driver | `boot_hc32f460_ram_driver.c` | peripheral registers | internal flash, SPI NOR, CRC unit, wipe, reset; also clocks and GPIO |
| link stubs | `boot_hc32f460_link_stubs.c` | none | refusing stand-ins for the product's functions |
| STM32F4 port | `platforms/stm32f4` | none | erase by sector table, program, SPI read of the board example, CRC by software |
| build configuration | `boot_config.h`, `boot_target_config.h` | none | values, memory maps, `#error` checks |
| templates, start-up code | `stm32_template`, `user_template`, `boot_stub_startup.s` | none | empty bodies, vector table |

What makes each correct:

* **boot_meta**: a valid page never lies about the application area, whatever was
  interrupted; begin_update keeps what a rollback needs.
* **boot stub**: never starts a half written program when it can restore GOOD;
  ends a series of unconfirmed trials; gives up only when nothing is left.
* **IAP core**: touches the application area only after a pass that found the
  described image; the CRC is that of what was programmed; stays in its buffers.
* **SPI storage**: the reads of a pass are the file, each byte once and in order.
* **commit**: GOOD is a confirmed image and is really in its window.
* **ports, flash driver**: erase and program touch exactly the pages asked for,
  flash is locked between calls, and a success means that the image is there.
* **SPI driver**: addresses reach one chip, no byte is lost, every call returns.
* **CRC**: the CRC unit, the STM32F4 loop and the meta page's loop are one CRC-32.

The hard behaviours: a power loss at any step and a second one during the recovery
from it; the unreadable page between the erase and the program of a meta write;
wrong SPI reads; descriptors, slot and expected CRC that are read at different
times; the trial count across resets; the 1-based sector arithmetic; buffers that
are filled by sectors and emptied by transfers; a flash controller, an SPI unit
and SPI chips that work on by themselves while the driver does not wait; HAL calls
that fail unnoticed; and local copies of the meta record that are not what is in
flash. `PROJECT.json` has each at its line under "hazards".

## 2. The modules

| module | what it is |
|---|---|
| `BootMeta` | values of the meta page, the record each writer programs, the stub's decisions |
| `Bootloader` | the device through any number of resets: stub, IAP core, MODE2 windows, apply, BOOT_OK and commit, power losses |
| `UpdateProtocol` | the abstract specification: phase, installed image, fallback, trials |
| `BootStream` | the bytes of one pass of the IAP core, both storage modes |
| `Hc32Flash` | internal flash under the HC32F460 port: driver, lock and mode registers, controller |
| `NorGeometry`, `SpiNor` | the SPI chips of the board; the SPI NOR driver register access by register access, beside the SPI unit and the chips |
| `Crc32` | the three CRC implementations, over 32-bit registers |
| `Stm32Map`, `Stm32Port` | the sectors of an STM32F4; an update on its port, over a HAL that may fail |
| `BootConfig` | the values of the build configuration and its `#error` checks |
| `PortDrivers` | the composition of everything below `boot_port.h` on the two MCUs |
| `MCBootloader`, `MCBootStream`, `MCPortDrivers` | the instances that TLC checks |
| `Bootloader_proofs`, `BootStream_proofs`, `Hc32Flash_proofs`, `SpiNor_proofs`, `Stm32Port_proofs`, `Crc32_proofs` | the theorems about one module each; the first also has the refinement of `UpdateProtocol` |
| `PortDrivers_proofs` | the theorems of the four parts, carried over to their composition |
| `Arithmetic` | lemmas on multiples and remainders, induction and recursion over numbers |

### BootMeta and Bootloader

| code | variable |
|---|---|
| the page at `BOOT_META_FLASH_ADDR` | `meta`, a record or `Torn` |
| application area, SPI chip | `app`, `nor`: a sequence of blocks each |
| where execution is | `pc`; `buf` and `ret` while a meta write is half done |
| `s_hc32_fw_slot`, arguments and locals of `boot_core_firmware_update` | `slot`, `image`, `pass`, `chance`, `stream`, `k` |

Each step up to the next flash operation, and each iteration of a loop that writes
flash, is one action; a power loss can fall between any two. `boot_meta_write` is
two actions (the page is `Torn` in between); all its callers use `StartMetaWrite`,
and `MetaProgram` continues where the caller left off. `PowerLoss` drops the RAM
and may leave the block in progress half written; `Reboot` resets an idle
application or a dead device. `AppStage` and `AppApply` are the product: any
image, or a window that does not hold what is applied.

Abstractions, and why they do not hide what the properties are about:

* An image is a sequence of blocks `<<v, k>>` and its CRC is collision free: the
  code compares one CRC, the model compares the streamed blocks.
* The stub decides on its own copy of the record. `LocalRecord` is what
  `boot_meta_is_valid` makes of that copy. After a count it is invalid, because
  `boot_meta_write` puts the new CRC into a copy of its own; `pc = "counted"` is
  that boot.
* `Torn` is every page that `boot_meta_is_valid` rejects. A descriptor is the
  image it describes; size, CRC and start always travel together.
* `Blank` is any block whose first words are no plausible vector table, `Garbage`
  any wrong block whose first words are. Both are outcomes of a wrong read.
* **The port contract is assumed for internal flash**: an erase of the application
  area blanks it, a program writes the page. The HC32F460 port does not keep the
  first half of it, which `Hc32Flash` shows (section 5); what `Bootloader` says of
  the stub and of the IAP core holds on a port that does. The second half is
  `CallsDeliver`, which also shows that the driver below that port blanks what it is
  asked for when it is asked by page number.
* The factory state has a blank page, or a page that names a GOOD image.

### BootStream

A byte is named by its SPI address, so a byte that is lost, repeated or moved
shows. The actions follow the three loops of the pass: the first sector, the outer
loop over sectors, the inner loop that drains whole transfers, and the last
transfer with its padding. `GeometryAssumption` says which sizes are supported:
those of the default configuration. The code's own `#if` checks are weaker.

### Hc32Flash

The flash controller works on by itself after a store, beside the processor. The
actions are the stretches of `HAL_FLASHEx_Erase2`, `FLASH_PageErase2`,
`RAM_EFM_SectorErase`, `HAL_FLASH_Program2` and `FLASH_Program_Fast2` between two
places where the driver looks at RDY or OPTEND; `EfmFinish` is the controller. A
timeout may strike at any time. The registers FAPRT, FWMC and FRMC are a variable
each. A store outside flash is ignored or ends in the assertion handler or a
fault. The callers are the port's four functions and, external, the product's
EEPROM emulation, which calls the same driver with page numbers: without it no
erase would ever reach the flash, and the timeout race would not occur.

### SpiNor

The driver is straight-line code with waits and three loops (address bytes, status
polls, data bytes) under the loop over sectors of a wipe. A step is one access to
a register; `norPc` names the access that comes next, and `Following` which one
comes after it (`After` where there is no choice). `sent`, `polls` and `stored`
are the counters of the three loops, `again` is the second write of a sector.
`SpiFinish` is the SPI unit that shifts a byte out and one in, `ChipFinish` a chip
that ends a write, and both may come between any two accesses.
`RAM_SpiFlash_WriteReadByte` has its wait for the receive buffer commented out, so
the byte it takes may be an earlier one; `RAM_sFLASH_SendByte` waits for nothing.
A byte of a chip is named by its place.

`low` is what the driver makes of the chip select pins, `Listening` the chips that
are selected by it. The two differ after `RAM_Spi_Config`, which initialises the
pins from a structure that nobody has set, so that they may come up inverted or
dead (`pins`). `Drive` is every change of a pin: it ends the command of a chip that
is no longer selected and begins one where a chip is selected anew. With inverted
pins `RAM_sFLASH_CS_HIGH` selects both chips between the calls, `RAM_sFLASH_CS_LOW`
deselects the chip that it means, and the command goes to the other one; with dead
pins it goes nowhere. In both cases the driver does not store the place it
asked for, and the model does not say which byte comes instead (`Void`).

### Crc32

A register is the set of its one bits, so shift, reflection and exclusive or are
what they are in the code, at their width of 32. The CRC unit takes words from the
high bit, the software takes bytes from the low one; each action feeds both the
same word, one turn of the loop of `boot_port_crc_accumulate32`. How the core cuts
an image into calls does not matter, as a call keeps nothing but the register.
The reference is a division of polynomials. `RAM_CalcCRC32Get` returns 0 when a
flag of the unit is set; the model takes it as clear.

### Stm32Map and Stm32Port

The port calls that `boot_core_firmware_update` makes, in their order, with the
passes of the core around them, and the HAL calls under them. Each HAL call may
fail (`Fails`); what the port ignores, the model ignores. Addresses count words.
The CRC comparison is "every transfer was read as it is", as the hook for the
expected CRC returns 0 until a product replaces it. Its flash functions for the
meta page are weak defaults that refuse, so the device of `Bootloader` is the
HC32F460 one.

### BootConfig and PortDrivers

`BootConfig` holds the numbers of the headers; TLC evaluates the `#error` checks
on them. `PortDrivers` extends `Hc32Flash`, `Stm32Port`, `SpiNor` and `Crc32`, and
so puts them side by side. They have no register or variable in common and never
call one another, so in a behaviour one of them moves (`part`) and the others stay
where they begin.

### UpdateProtocol

What a user of the bootloader may rely on: the installed image changes only in
phase UPDATING; it is never started in UPDATING or FAIL, and at most three times
unconfirmed, while there is a fallback; only a healthy image confirms; the
fallback changes only by a confirmed program or by loss of the page. `Bootloader`
implements it under the mapping at its end: a meta write counts from its start,
`fallback` is `good`, and `trials` is the ghost `starts`.

Names with an underscore (`BeginUpdate_NoLatch`) are mistakes that a programmer
could make in the operator that follows. `PROJECT.json` pairs each with the
property it breaks; they are used nowhere else.

## 3. The runs

| run | question | result |
|---|---|---|
| `update_safety` | is the page truthful, is one crash safe, are there at most three trials, is only a verified image programmed, is `UpdateProtocol` implemented? | holds, 4.6 million states |
| `update_liveness` | does a boot recover, is a bad update rolled back, does every boot end? | holds, 470 thousand states |
| `stream` | do buffers, pages and CRC agree, byte by byte? | holds, 66 thousand states |
| `port_drivers` | do the flash drivers keep to what they are asked and to the lock, does the SPI driver reach one chip and return, is there one CRC? | holds, 186 thousand states |
| `erase_address`, `stm32_app_start`, `unhealthy_good`, `good_unbacked`, `hang_beside_good`, `commit_address`, `flash_fault`, `zone_stream` | does the code do what a document or comment says? | violated (section 5) |

**Bounds of Bootloader.** Five images: two healthy ones of two blocks and of one;
one of one block that passes its CRC but never reports BOOT_OK; one that is a
block longer than a window, without a vector table; one of one block without a
vector table. Windows of two sectors, an application area of three blocks. So a
loop runs at least twice, a shorter image overwrites a longer one, a window ends
before an image, and a CRC may fail on either block. Two power losses
(`MaxCrashes`): the second can hit the recovery from the first; one wrong SPI read
(`MaxGlitches`) can fall in either pass. `MaxFaults`, pages that program wrongly,
is 0 except in `flash_fault`. Resets by the operator and updates are not bounded.
`StartsBound` saturates the ghost at 4, one above the limit it is compared with.
The liveness run has three images and one power loss.

**Bounds of BootStream.** Sectors of 4 bytes, header 1, transfers and pages of 8,
words of 2, buffer 13 (one more than needed), application area 24. Every file size
from 0 to 24, every offset in the first sector, every start node inside and
outside the window, three chains for MODE1: files of zero to three transfers, with
every remainder. Deadlock is not checked there, because a pass ends.

**Bounds of Hc32Flash.** Pages of 8 bytes (two words), 8 of them: one for the
stub, one for the meta page, four for the application, two for EEPROM. So every
loop of the driver has at least two turns. As on the device, an address multiplied
by the page size lies outside flash (0x2000 * 0x2000 and 0x4000 * 0x2000 against
0x80000) and below the end of the address space. Deadlock is not checked: after a
fault the device stops.

**Bounds of the other parts of port_drivers.** SPI: sectors of 4 bytes, a first
chip of two sectors and a second of none, one or two, addresses of three bytes that
reach 4, so both address lengths and both chips occur; a window of two sectors,
the second of which is on the second chip or, on the board without one, nowhere; clocks
slowed down so that a status poll ends after one or two turns, from the PLL and
from an oscillator. STM32F4: a unit of two words and six sectors, an application
area that covers sectors of one and of four units, images of one word, with a
partial last transfer, and larger than the area, and two failing HAL calls
anywhere. CRC: five words with bits at the borders of bytes and words, messages of
up to three words.

**Fairness.** `WF(Execute)`: the processor goes on. `WF(Reboot /\ pc = "app")`: a
program that was started and does nothing is reset some day. This is an assumption
about the environment, an operator or a watchdog: in this repository `IWDG_ENABLE`
is not defined, and the attempt count of the stub has no effect without resets. In
`Hc32Flash`, `WF(Driver)` and `WF(EfmFinish)`: the processor runs, and the
controller ends what it begins; the driver relies on it wherever it polls RDY
without a timeout. No fairness is assumed of staging, applying, errors, a reset of
a dead device, or power losses. `PortDrivers` takes the fairness of `Hc32Flash`
for the part that moves, and the same for SPI: the driver runs and the SPI unit
ends a transfer. Nothing is assumed of the SPI chips: a chip that stays busy for
ever must not hold up a wipe (`NorCallsEnd`). `BootRecovers` and
`BadUpdateIsRolledBack` speak of the time after the last power loss, because a
device that loses power again and again never finishes anything; and wrong SPI
reads are finitely many, because pass 1 repeats without limit.

**What the properties mean.**

* `MetaTellsTruth`: IDLE means that the application area holds a complete image,
  PROGRAMMED that it holds the image of the active descriptor.
* `OneCrashIsSafe`: after at most one power loss every boot finds a complete
  application or a valid page, and the stub neither gives up nor starts a half
  written program. It does not say that the restore succeeds: where the GOOD window
  does not hold the image that the page names (as after `commit_address`), a power
  loss in pass 1 leaves a stub that tries GOOD and resets for ever. `BootRecovers`
  says what happens when the window holds it. Two premises: no valid page says that there is no GOOD
  image, and the installed image has a vector table. Without the second one the
  property fails: an image with the right CRC that
  `boot_stub_app_image_looks_valid` refuses leaves the page as the only way back
  to GOOD, and the restore begins by erasing that page. With two power losses the
  stub can hang anyway (`hang_beside_good`).
* `AtMostThreeTrials`: the stub counts a trial before it starts the program, and
  restores GOOD when it finds a count of 3. The boot that raises the count to 3
  does not restore: its copy of the record has the CRC of before the count, is
  taken for invalid, and a plausible program is started. So there are three trials
  and the fourth boot restores.
* `EraseOnlyForVerifiedImage`: any step that changes the application area finds
  the page UPDATING for the slot in use and the described image in its window.
* `StoresAreInOrder`, `ProtectedAtRest`: a store never meets a controller that is
  busy, locked or in the wrong mode, and between calls flash is locked, although a
  wait may time out and clearing OPTEND locks the registers in mid-call.
* `EveryBootEnds`: each step of the processor, other than the reset at `finish`,
  lowers a measure: wrong reads that may still come, passes still to be made,
  stage of the pass, turns of its loop, compared in this order. Pass 1 is repeated
  without limit (`boot_core.c:165`), but only a pass that read something wrong is
  repeated, because pass 0 has found the image and nothing has written to the
  window since. Whatever rolls `pass` or `chance` back breaks this.
* `OnlyRequestedPages`, `CallsDeliver`, `CallsEnd`: no other page changes, every call
  returns, and one that returns has done all of its work: every word of the page is
  programmed, every page that was asked for by number is blank, although a wait
  inside the call may time out while the controller works on. Every word is
  programmed, not necessarily with the new value: over a page that an erase by
  address has missed it comes out mixed.
* `Progress`, `NorProgress`: the same kind of measure for one call of the flash
  driver and of the SPI driver. Hardware never raises it, and it goes down with
  every step of the driver whatever the hardware answers, so a call that does not
  end stands still at a wait.
* `BufferFits`, `ProgramsInsideApp`, `CrcCoversFlash`, `FixedStreamIsFile`: no
  overrun, no page behind the application area, the CRC is that of what was
  programmed, and that is the file without the bytes of an incomplete last word.
* `PassAdvances`: every step brings the end of a pass closer, on a MODE1 chain that
  returns to itself too (one of the chains of the run does). It hangs on the unsigned
  `remain_file_size` never being less than what is taken from it.
* `OneChipAtATime`: while the pins do as they are told, two chips never listen at
  once, and none between calls. With inverted pins it is not so (see `SpiNor` above),
  which is why the property has that premise.
* `NoByteIsLost`: the driver never sends into a busy unit, although
  `RAM_sFLASH_SendByte` does not wait. It does not say that the byte arrives: the
  select may rise while it is being shifted, the chip then drops the command, and a
  wipe may leave the sector as it was. `OnlyWipedBytesChange` holds all the same.
* `ReadsAreRecent`: the byte that a read stores is at most two places late; this
  is what the missing wait can do, and what the CRC over the stream must catch.
* `OnlyWipedBytesChange`: a wipe changes the first byte of each sector of its
  window, on either chip, and nothing else.
* `OnlyAppAreaChanges`, `LockedAtRest`, `SuccessMeansImage`: on the STM32F4 no
  word outside the area changes whatever HAL fails to do; the lock and the chip
  select are restored on every path; and a success means that the image is in
  flash, if no HAL call for the flash failed. A failed read only costs another
  pass, and `UpdateAdvances` says that it costs no more than that: each repetition of
  pass 1, which erases the application again, has used up a failing call of its own.
* `PortsAgree`, `CrcIsReference`, `MetaCrcCoversRecord`: the CRC unit and the
  software give one CRC, it is the CRC-32 that the maker of an image computes (a
  division of polynomials, bit by bit over the whole message), and the CRC of the
  record covers each word but its own.
* The type invariants say more than types: `TypeOK` of `BootStream` that no index
  leaves its buffer, `NorTypeOK` that the caller's buffer is never overrun, that a
  command has at most five bytes and that the poll limit does not wrap below zero,
  `PortTypeOK` that the loop over transfers stays in its bounds.

## 4. The proofs

For every value of the constants that satisfies the named assumptions
(`NoImageAssumption`, `TornAssumption`, `ImageAssumption`, `WindowAssumption`,
`BoundAssumption` for the device; `GeometryAssumption` for the stream;
`MapAssumption` and `MissAssumption`, that an address times the page size misses
the flash, for the HC32F460; `NorAssumption`, the boards, the window of a wipe and
the clocks, for SPI; `Stm32Assumption` for the STM32F4; `CrcAssumption`), and so
for any number of power losses and of wrong reads, any images, windows and boards:

| theorem | property | argument |
|---|---|---|
| `TypeCorrect` | `TypeOK` | inductive together with `Shape`: which values the variables of IAP, writes and loops have at each `pc` |
| `MetaIsTruthful` | `MetaTellsTruth`, assuming `MaxFaults = 0` | `Truth`: at each point of pass 1 the programmed blocks are the streamed ones, and a pending meta write only claims what the area already shows |
| `EraseIsVerified` | `EraseOnlyForVerifiedImage` | `Verified`: in pass 1 the page says UPDATING for the slot and the window holds its image |
| `ThreeTrialsOnly` | `AtMostThreeTrials` | `Trials`: the page, or the record about to be written, has counted every start of the program it awaits, and on a boot that counts also the next one |
| `OneCrashSurvived` | `OneCrashIsSafe`, assuming `MaxFaults = 0` | `OneCrash`: without a power loss the area is complete or pass 1 is at work; after the first one the area is complete or the page is valid or being written |
| `BootsEnd` | `EveryBootEnds` | `MismatchIsGlitch`: by `Verified`, a pass 1 that mismatches has read a block wrong, so `GlitchesLeft` has gone down where `PassesLeft` went up; `CommitLoops`: the loop index of the commit stays in its window |
| `DeviceImplementsProtocol` | `ImplementsProtocol`, assuming `MaxFaults = 0` | step simulation on the invariants above and `Handover`: the page is invalid while it is written, PROGRAMMED never says BOOT_OK, only a healthy program promotes |
| `StreamTypeCorrect`, `BufferNeverOverruns`, `NeverProgramsOutside` | `TypeOK`, `BufferFits`, `ProgramsInsideApp` | `Account`: bytes taken + bytes buffered + bytes remaining = file size; whole transfers have been taken |
| `CrcIsOfTheFlash` | `CrcCoversFlash` | `Copied`: flash below `crcSize` is what the CRC unit got, blank above |
| `StreamIsTheFile` | `FixedStreamIsFile` | `InOrder`: taken and buffered bytes are consecutive bytes of the file, and the next sector starts where they end |
| `PassEnds` | `PassAdvances` | the invariants of the types and of `Account`: a turn takes at least one byte, and no more than remain |
| `StoresAreSafe`, `FlashIsProtected` | `StoresAreInOrder`, `ProtectedAtRest` | `Registers`: the registers at each `pc`; needs no assumption on the memory map |
| `CallsKeepContract` | `CallsDeliver` | `Delivering`: which words of the page are programmed and which pages are blank at each point of the loops, and that a wait which timed out left a controller whose work is already in flash or is waited for before the call returns |
| `FlashTypeCorrect`, `OnlyRequestedChange` | `TypeOK`, `OnlyRequestedPages` | `RequestInv`: inside a loop the next address lies in a requested page, or misses the flash altogether |
| `CallsAdvance` | `Progress` | one case per action; `RequestInv` keeps the count of items left in `Nat` |
| `NorTypeCorrect` | `NorTypeOK` | `CallFits`: what the counters, the opcode on the wire and the kind of call are at each `norPc` |
| `ChipsTakeTurns` | `OneChipAtATime` | `Selection`: at each `norPc` either no pin is low or the target's alone; pins that follow make these the chips that listen |
| `EveryByteGoesOut` | `NoByteIsLost` | `Wire`: where the driver cannot meet a busy unit, and that the unit runs except during its configuration |
| `ReadsLagByTwo` | `ReadsAreRecent` | `Heard`: how much of the command the chip has taken, counting the byte on the wire; `Stream`: how far the receive buffer may be behind the byte that is clocked, and that OVRERF keeps it from falling further |
| `WipesStayInWindow` | `OnlyWipedBytesChange` | `Heard` again: a chip that will program has the address of this sector |
| `NorCallsAdvance` | `NorProgress` | the order of the accesses; `SecondWrite`: a sector is written again only in a wipe, within its window |
| `CrcPortsAgree` | `PortsAgree` | the two registers are mirror images of each other, and a bit, a byte and a word keep them so |
| `CrcIsTheReference` | `CrcIsReference` | `Overlaid`: at each bit, what is left of the dividend is the rest of the message with the register laid over its first 32 bits; `Recorded`: the register is where the words of the message have brought it |
| `MetaCrcIsTheReference` | `MetaCrcCoversRecord` | the same relation, for the loop of `boot_meta_crc32_soft` over the record's words but the last |
| `ChangedWordShows` | | two images of one length, however long, that differ in one word have different CRCs: every step of the register is injective, and so is any number of them |
| `PortTypeCorrect` | `PortTypeOK` | the loop bounds of the pass, which `AtLeast` one transfer would break |
| `RestsLocked`, `StaysInAppArea` | `LockedAtRest`, `OnlyAppAreaChanges` | `SafeInv`, and `TableIsRight`: the sector table of the port is the layout of the device, so the sectors from that of the first to that of the last word are the area |
| `SuccessIsTheImage` | `SuccessMeansImage` | `ImageInv`: what is blank during the erase, what is programmed during the pass, transfer by transfer and word by word |
| `UpdatesEnd` | `UpdateAdvances` | the counts of loops and passes, compared in order; `ImageInv` has the loop bounds; `Tainted`: a CRC that mismatches has met a failed read in this pass |
| `PortsRunTheirParts`, `PortsAreSafe`, `PortsOnlyDoAsAsked` | all invariants and action properties of `port_drivers` | a step of the composition is a step of one part and leaves the others alone (`OneMoves`), so the theorems above hold of the specification that the run checks |

The properties alone are not inductive: `MetaTellsTruth` says nothing about the
record that is about to be programmed, and `CrcCoversFlash` only speaks of the end
of a pass.

Every invariant and every action property of the passing runs is a theorem. The CRC
is computed by loops, so what is said of it for messages of any length needs
induction over their words and bits. `Arithmetic` has the lemmas for that, stated
over sets and functions: `LeastElement`, `Induction` (a set of numbers that has 0 and
the successor of each member has them all) and `Recursion` (the function that a
first value and the steps define exists). The loops are
recursive functions in `Crc32`, to which these apply.

Only model-checked: the four liveness properties in leads-to form (`BootRecovers`,
`BadUpdateIsRolledBack`, `CallsEnd`, `NorCallsEnd`). The measures (`EveryBootEnds`,
`PassAdvances`, `Progress`, `NorProgress`, `UpdateAdvances`) are the part of them that
is proved; that the processor goes on and a wait ends is fairness and ENABLED, which
TLAPS does not reason about.

## 5. What the documents say and the code does not do

1. `unhealthy_good`: an image that the IAP core refused stays in `cand_*`, and the
   next BOOT_OK of the old application makes it GOOD (`README.md:145`).
2. `good_unbacked`: promotion comes before the copy, and a failed copy goes
   unnoticed, so GOOD names an image that is nowhere (`BootStub/README.md:34`).
   The repository's own `sFLASH_EraseSector` stub always fails.
3. `hang_beside_good`: the rollback begins by rewriting the only meta page. A power
   loss there, after one that cut into an update, leaves a device that loops beside
   an intact GOOD window (`BootStub/README.md:34`).
4. `commit_address`: the copy to GOOD computes `sector * size` where the IAP
   core reads `(sector - 1) * size`, against the comment at
   `boot_fw_zone_hc32f460.c:52`.
5. `flash_fault`: "Verify programmed image" (`README.md:112`) is a CRC over the SPI
   data; internal flash is never read back.
6. `zone_stream`: MODE1 reads a whole sector's length behind each header and runs
   into the next sector (`BootRAM/README.md:42-43`).
7. `erase_address`: the HC32F460 port puts the address 0x4000 (0x2000 for the meta
   page) where its driver takes a page number, so the erase goes to 0x08000000
   and the pages keep their content (`README.md:110`, "Erase application").
8. `stm32_app_start`: the STM32F4 port has a default application start of its own,
   0x08000000, where `boot_config.h:17` derives it from the stub. An update then erases
   the sector of the stub and of the meta page (`boot_meta.h:5`, "Survives APP erase").

`AtMostThreeTrials` and the liveness run hold beside these: they speak of states
in which GOOD is named, or is in its window.

## 6. Not modelled, and the plan

Not modelled: start-up code and build files, LEDs, watchdog registers that this
build never enables, pins other than the chip selects (no effect on an update);
templates (empty bodies, to be filled in by a port); the product's download,
beyond its result. `boot_port.h` describes "wipe that slot, then reset" on a
failure; the wipe in `RAM_FinishAndReset` is commented out, and the model follows
the code.

What could follow: a MODE1 instance of the device (the stub without GOOD, the
commit that MODE1 leaves out), and the meta page functions of an STM32F4 product
once there are any.
