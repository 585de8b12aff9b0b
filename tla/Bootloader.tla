----------------------------- MODULE Bootloader -----------------------------
(***************************************************************************)
(* The whole device through any number of resets: the permanent boot stub  *)
(* (BootStub/boot_stub.c), the IAP core (BootRAM/boot_core.c), the meta    *)
(* page (BootMeta.tla), the MODE2 SPI windows (BootRAM/boot_storage.c) and *)
(* what the running application asks of them: RAM_ApplySpiFirmware and     *)
(* boot_fw_on_app_healthy with the HC32F460 CAND -> GOOD copy.             *)
(*                                                                         *)
(* One thread executes all of it (interrupts are masked during IAP), so    *)
(* the state holds one program counter.  What makes it hard is that power  *)
(* can go away between any two flash operations, and that the stub then    *)
(* has only the meta page and the first two words of the application.      *)
(*                                                                         *)
(* Abstractions.                                                           *)
(*  - An image is a sequence of blocks; a block is what one                *)
(*    boot_port_flash_program_page writes.  Buffering of sectors into      *)
(*    pages is left to the byte-level model of the stream.                 *)
(*  - The CRC is collision free: a stream has the CRC of an image iff it   *)
(*    is that image.                                                       *)
(*  - Internal flash obeys the port contract of boot_port.h: erasing makes *)
(*    every block of [START, END) blank, and meta writes report success,   *)
(*    as HAL_FLASHEx_Erase2 and HAL_FLASH_Program2 always do.              *)
(*    Hc32Flash.tla shows where the HC32F460 port departs from it.         *)
(*  - The Blank block also stands for any block whose first words are not  *)
(*    a plausible vector table, and Garbage for any wrong block whose      *)
(*    first words are.                                                     *)
(***************************************************************************)
EXTENDS BootMeta, FiniteSets

CONSTANTS
    Bootable,        \* images with a plausible vector table
    Healthy,         \* images that start and call boot_fw_on_app_healthy
    Len,             \* Len[v]: the number of blocks of image v
    AppBlocks,       \* blocks of internal flash in [BOOT_APP_FLASH_START, _END)
    CandFirst, CandLast, GoodFirst, GoodLast,  \* BOOT_SPI_FW_*_SECTOR_*, 1-based
    Blank, Garbage,  \* see above
    MaxCrashes,      \* bound: power losses in the middle of an operation
    MaxGlitches,     \* bound: SPI reads that return wrong data
    MaxFaults        \* bound: internal flash pages that program wrongly

ASSUME ImageAssumption ==
    /\ Healthy \subseteq Bootable
    /\ Bootable \subseteq Images
    /\ AppBlocks \in Nat \ {0}
    /\ Len \in [Images -> 1 .. AppBlocks]
    /\ Blank # Garbage
    /\ {Blank, Garbage} \intersect (Images \X Nat) = {}

\* The #if checks of boot_config.h, and the GOOD window after CANDIDATE as in
\* its defaults, ending at the last sector of the chip.
ASSUME WindowAssumption ==
    /\ CandFirst \in Nat \ {0} /\ CandLast \in Nat
    /\ GoodFirst \in Nat /\ GoodLast \in Nat
    /\ CandFirst <= CandLast /\ CandLast < GoodFirst /\ GoodFirst <= GoodLast

ASSUME BoundAssumption ==
    MaxCrashes \in Nat /\ MaxGlitches \in Nat /\ MaxFaults \in Nat

Block(v, k) == <<v, k>>

Contents == (Images \X (1 .. AppBlocks)) \union {Blank, Garbage}

AppIndex == 1 .. AppBlocks

\* The chip holds sectors 1 .. GoodLast; sector N starts at byte (N-1)*4096, and
\* nor[a] is the content of the sector that starts at byte a*4096.
NorIndex == 0 .. GoodLast - 1

FirstSector(s) == IF s = "GOOD" THEN GoodFirst ELSE CandFirst
LastSector(s)  == IF s = "GOOD" THEN GoodLast ELSE CandLast

VARIABLES
    meta,     \* the meta page                                     (persistent)
    app,      \* internal flash of the application                  (persistent)
    nor,      \* the SPI NOR chip                                   (persistent)
    pc,       \* what the processor does next
    buf,      \* the record boot_meta_write is about to program
    ret,      \* where execution goes on after that
    slot,     \* s_hc32_fw_slot, the slot of this IAP
    image,    \* the size and payload start passed to boot_core_firmware_update
    pass,     \* spi_data_crc_check_pass
    chance,   \* spi_data_crc_second_chance
    stream,   \* the blocks the CRC unit has seen in this pass
    k,        \* loop index of the flash, stream and copy loops
    crashes, glitches, faults,  \* how much went wrong so far
    starts    \* ghost: jumps to this application since it was programmed

persistent == <<meta, app, nor>>
writing    == <<buf, ret>>
iap        == <<slot, image, pass, chance, stream>>
counts     == <<crashes, glitches, faults>>
vars == <<persistent, pc, writing, iap, k, counts, starts>>

PCs == {"reset", "decide", "counted", "metaProgram", "finish", "iap", "erase", "stream", "verify",
        "hang", "app", "promote", "commit", "commitErase", "commitCopy", "wipe",
        "running"}

NoStream == [j \in AppIndex |-> Blank]

\* Bound of the ghost: it saturates just above the three trials the code allows.
StartsBound == 4

TypeOK ==
    /\ meta \in MetaPage
    /\ app \in [AppIndex -> Contents]
    /\ nor \in [NorIndex -> Contents]
    /\ pc \in PCs
    /\ buf \in MetaRecord
    /\ ret \in PCs
    /\ slot \in Slots
    /\ image \in Descriptors
    /\ pass \in {0, 1}
    /\ chance \in {0, 1}
    /\ stream \in [AppIndex -> Contents]
    /\ k \in Nat
    /\ crashes \in 0 .. MaxCrashes
    /\ glitches \in 0 .. MaxGlitches
    /\ faults \in 0 .. MaxFaults
    /\ starts \in 0 .. StartsBound

-----------------------------------------------------------------------------
(* What the flash holds.                                                    *)

\* The application area starts with exactly image v.
AppHolds(v) == v \in Images /\ \A j \in 1 .. Len[v] : app[j] = Block(v, j)

AppIntact == \E v \in Images : AppHolds(v)

\* The sectors the IAP would read for slot s are those of image v.
WindowHolds(s, v) ==
    /\ v \in Images
    /\ FirstSector(s) + Len[v] - 1 <= LastSector(s)
    /\ \A j \in 1 .. Len[v] : nor[FirstSector(s) + j - 2] = Block(v, j)

\* boot_stub_app_image_looks_valid: it reads the first two words only.
AppLooksValid ==
    app[1] = Garbage \/ \E v \in Bootable : app[1] = Block(v, 1)

\* The outcomes of an SPI read and of programming a page, and the counter that
\* a wrong outcome uses up.
ReadOutcomes(c) == {c} \union (IF glitches < MaxGlitches THEN {Blank, Garbage} ELSE {})
ProgramOutcomes(c) == {c} \union (IF faults < MaxFaults THEN {Garbage} ELSE {})
CountGlitch(c, d) == glitches' = IF d = c THEN glitches ELSE glitches + 1
CountFault(c, d)  == faults' = IF d = c THEN faults ELSE faults + 1

-----------------------------------------------------------------------------
(* boot_meta_write: erase the page, then program it.  A writer starts the   *)
(* write, MetaProgram ends it; between the two the page is invalid.         *)

StartMetaWrite(record, next) ==
    /\ meta' = Torn
    /\ buf' = record
    /\ ret' = next
    /\ pc' = "metaProgram"

\* Outside a write the two variables of the write have fixed values.
NotWriting == buf' = ZeroRecord /\ ret' = "reset"

MetaProgram ==
    /\ pc = "metaProgram"
    /\ meta' = buf
    /\ pc' = ret
    /\ NotWriting
    /\ UNCHANGED <<app, nor, iap, k, counts, starts>>

\* A reset loses RAM; s_hc32_fw_slot starts as CANDIDATE.
LoseRam ==
    /\ pc' = "reset"
    /\ slot' = "CANDIDATE"
    /\ image' = NoImage
    /\ pass' = 0
    /\ chance' = 0
    /\ stream' = NoStream
    /\ k' = 0
    /\ NotWriting

-----------------------------------------------------------------------------
(* The boot stub.                                                           *)

\* boot_stub_on_reset up to the restore decision: count this trial.  The stub
\* goes on with the copy in which it counted.
StubOnReset ==
    /\ pc = "reset"
    /\ IF CountsAttempt(meta, AppLooksValid)
       THEN StartMetaWrite(CountAttempt(meta), "counted")
       ELSE pc' = "decide" /\ UNCHANGED <<meta, writing>>
    /\ UNCHANGED <<app, nor, iap, k, counts, starts>>

\* What boot_meta_is_valid makes of the stub's own copy.  boot_meta_write puts
\* the new meta_crc into a copy of its own, so after a count the stub's copy has
\* the old one and is as good as no page: that boot restores nothing.
LocalRecord == IF pc = "counted" THEN Torn ELSE meta

MustRestore ==
    ShouldRestoreGood(LocalRecord, AppLooksValid) /\ CanRestoreGood(LocalRecord)

\* boot_stub_restore_good: latch the update of GOOD, then run the IAP core.
StubRestoreGood ==
    /\ pc \in {"decide", "counted"}
    /\ MustRestore
    /\ StartMetaWrite(BeginUpdate(meta, "GOOD", meta.good), "iap")
    /\ slot' = "GOOD"
    /\ image' = meta.good
    /\ pass' = 0
    /\ chance' = 0
    /\ UNCHANGED <<app, nor, stream, k, counts, starts>>

\* boot_stub_jump_to_app
StubJumpToApp ==
    /\ pc \in {"decide", "counted"}
    /\ ~MustRestore
    /\ AppLooksValid
    /\ pc' = "app"
    /\ starts' = IF starts < StartsBound THEN starts + 1 ELSE starts
    /\ UNCHANGED <<persistent, writing, iap, k, counts>>

\* The endless loop at the end of boot_stub_on_reset.
StubHang ==
    /\ pc \in {"decide", "counted"}
    /\ ~MustRestore
    /\ ~AppLooksValid
    /\ pc' = "hang"
    /\ UNCHANGED <<persistent, writing, iap, k, counts, starts>>

-----------------------------------------------------------------------------
(* The IAP core, boot_core_firmware_update.                                 *)

\* One turn of while(1): pass 0 only reads, pass 1 erases first.
IapStartPass ==
    /\ pc = "iap"
    /\ stream' = NoStream
    /\ k' = 1
    /\ pc' = IF pass = 1 THEN "erase" ELSE "stream"
    /\ UNCHANGED <<persistent, writing, slot, image, pass, chance, counts, starts>>

\* boot_port_flash_erase_app_area, page by page.
IapEraseBlock ==
    /\ pc = "erase"
    /\ app' = [app EXCEPT ![k] = Blank]
    /\ IF k < AppBlocks THEN k' = k + 1 /\ pc' = pc
                        ELSE k' = 1 /\ pc' = "stream"
    /\ UNCHANGED <<meta, nor, writing, iap, counts, starts>>

NodeExists(s, j) == FirstSector(s) + j - 1 <= LastSector(s)

\* boot_storage_read_next_node and _read_node_payload, then
\* boot_core_accumulate_and_program.
IapStreamBlock ==
    /\ pc = "stream"
    /\ NodeExists(slot, k)
    /\ LET c == nor[FirstSector(slot) + k - 2]
       IN  \E d \in ReadOutcomes(c) :
             /\ CountGlitch(c, d)
             /\ stream' = [stream EXCEPT ![k] = d]
             /\ IF pass = 1
                THEN \E w \in ProgramOutcomes(d) :
                       app' = [app EXCEPT ![k] = w] /\ CountFault(d, w)
                ELSE UNCHANGED <<app, faults>>
    /\ IF k < Len[image] THEN k' = k + 1 /\ pc' = pc
                         ELSE k' = k /\ pc' = "verify"
    /\ UNCHANGED <<meta, nor, writing, slot, image, pass, chance, crashes, starts>>

\* The window ends before the image does: set_fail, then reset.
IapNodeMissing ==
    /\ pc = "stream"
    /\ ~NodeExists(slot, k)
    /\ StartMetaWrite(SetFail(meta), "finish")
    /\ UNCHANGED <<app, nor, iap, k, counts, starts>>

\* boot_hook_get_expected_image_crc reads the meta page anew; without a valid
\* page it returns 0, the CRC of no image.
ExpectedImage == IF meta = Torn THEN NoImage ELSE Descriptor(meta, slot)

CrcMatches_SkipsTail ==
    LET v == ExpectedImage
    IN  /\ v \in Images
        /\ Len[v] = Len[image]
        /\ \A j \in 1 .. Len[v] - 1 : stream[j] = Block(v, j)

CrcMatches ==
    LET v == ExpectedImage
    IN  /\ v \in Images
        /\ Len[v] = Len[image]
        /\ \A j \in 1 .. Len[v] : stream[j] = Block(v, j)

\* Pass 0 matched: go round again, this time programming.
IapAccept ==
    /\ pc = "verify"
    /\ pass = 0
    /\ CrcMatches
    /\ pass' = 1
    /\ pc' = "iap"
    /\ UNCHANGED <<persistent, writing, slot, image, chance, stream, k, counts, starts>>

IapSecondChance_NotLatched ==
    /\ pc = "verify"
    /\ pass = 0
    /\ ~CrcMatches
    /\ chance = 0
    /\ pc' = "iap"
    /\ UNCHANGED <<persistent, writing, iap, k, counts, starts>>

\* Pass 0 mismatched for the first time: read again.
IapSecondChance ==
    /\ pc = "verify"
    /\ pass = 0
    /\ ~CrcMatches
    /\ chance = 0
    /\ chance' = 1
    /\ pc' = "iap"
    /\ UNCHANGED <<persistent, writing, slot, image, pass, stream, k, counts, starts>>

IapReject ==
    /\ pc = "verify"
    /\ pass = 0
    /\ ~CrcMatches
    /\ chance = 1
    /\ StartMetaWrite(SetFail(meta), "finish")
    /\ UNCHANGED <<app, nor, iap, k, counts, starts>>

\* Pass 1 mismatched: erase and program again, without limit.
IapProgramAgain ==
    /\ pc = "verify"
    /\ pass = 1
    /\ ~CrcMatches
    /\ pc' = "iap"
    /\ UNCHANGED <<persistent, writing, iap, k, counts, starts>>

\* Pass 1 matched: latch PROGRAMMED and reset.
IapSucceed ==
    /\ pc = "verify"
    /\ pass = 1
    /\ CrcMatches
    /\ IF meta = Torn
       THEN pc' = "finish" /\ UNCHANGED <<meta, writing>>
       ELSE StartMetaWrite(SetProgrammed(meta), "finish")
    /\ starts' = 0
    /\ UNCHANGED <<app, nor, iap, k, counts>>

\* boot_port_finish_and_reset: RAM_FinishAndReset of the HC32 port only resets;
\* the wipe of the slot that failed is commented out there.
FinishAndReset ==
    /\ pc = "finish"
    /\ LoseRam
    /\ UNCHANGED <<persistent, counts, starts>>

-----------------------------------------------------------------------------
(* The application.  Only an intact Healthy image gets as far as calling    *)
(* boot_fw_on_app_healthy; any other program just waits to be reset.        *)

AppIsHealthy == \E v \in Healthy : AppHolds(v)

\* boot_fw_on_app_healthy: boot_meta_confirm_boot_ok ...
AppConfirm ==
    /\ pc = "app"
    /\ AppIsHealthy
    /\ StartMetaWrite(ConfirmBootOk(meta), "promote")
    /\ starts' = 0
    /\ UNCHANGED <<app, nor, iap, k, counts>>

\* ... boot_meta_promote_candidate_descriptors ...
AppPromote ==
    /\ pc = "promote"
    /\ IF CanPromote(meta)
       THEN StartMetaWrite(Promote(meta), "commit")
       ELSE pc' = "running" /\ UNCHANGED <<meta, writing>>
    /\ UNCHANGED <<app, nor, iap, k, counts, starts>>

\* ... and boot_fw_zone_commit_candidate_as_good.  Its addresses are the sector
\* numbers times the sector size, where the IAP reads (number - 1) times it.
CommitStart ==
    /\ pc = "commit"
    /\ IF CanRestoreGood(meta)
       THEN pc' = "commitErase" /\ k' = GoodFirst
       ELSE pc' = "running" /\ k' = k
    /\ UNCHANGED <<persistent, writing, iap, counts, starts>>

\* A write at an address past the end of the chip changes nothing.
NorWrite(a, c) == nor' = [j \in NorIndex |-> IF j = a THEN c ELSE nor[j]]

NorRead(a) == IF a \in NorIndex THEN nor[a] ELSE Garbage

CommitEraseSector ==
    /\ pc = "commitErase"
    /\ NorWrite(k, Blank)
    /\ IF k < GoodLast THEN k' = k + 1 /\ pc' = pc
                       ELSE k' = 0 /\ pc' = "commitCopy"
    /\ UNCHANGED <<meta, app, writing, iap, counts, starts>>

\* Copies one sector; what is read is not verified.  Programming a sector that
\* is not blank leaves neither the old nor the new content.
CommitCopySector ==
    /\ pc = "commitCopy"
    /\ LET c == NorRead(CandFirst + k)
       IN  \E d \in ReadOutcomes(c) :
             /\ CountGlitch(c, d)
             /\ NorWrite(GoodFirst + k,
                         IF NorRead(GoodFirst + k) = Blank THEN d ELSE Garbage)
    /\ IF k + 1 < Len[meta.good] THEN k' = k + 1 /\ pc' = pc
                                 ELSE k' = CandFirst /\ pc' = "wipe"
    /\ UNCHANGED <<meta, app, writing, iap, crashes, faults, starts>>

\* RAM_sFLASH_WipeFwSlot: one byte of each sector becomes zero.
CommitWipeSector ==
    /\ pc = "wipe"
    /\ NorWrite(k, Garbage)
    /\ IF k < CandLast THEN k' = k + 1 /\ pc' = pc
                       ELSE k' = 0 /\ pc' = "running"
    /\ UNCHANGED <<meta, app, writing, iap, counts, starts>>

\* sFLASH_EraseSector or SpiFlash_WritePageDMA reports an error; the caller
\* ignores the result.
CommitAbort ==
    /\ pc \in {"commitErase", "commitCopy"}
    /\ pc' = "running"
    /\ k' = 0
    /\ UNCHANGED <<persistent, writing, iap, counts, starts>>

\* The product stages a download in the CANDIDATE window.  (Not in this
\* repository; only the result of the download matters.)
AppStage(v) ==
    /\ pc = "running"
    /\ nor' = [a \in NorIndex |->
                 IF a \in (CandFirst - 1) .. (CandLast - 1)
                 THEN IF a - CandFirst + 2 <= Len[v]
                      THEN Block(v, a - CandFirst + 2) ELSE Blank
                 ELSE nor[a]]
    /\ UNCHANGED <<meta, app, pc, writing, iap, k, counts, starts>>

\* RAM_ApplySpiFirmware for the CANDIDATE slot, with the size and CRC of v; the
\* window may hold something else (a broken download).
AppApply(v) ==
    /\ pc = "running"
    /\ StartMetaWrite(BeginUpdate(meta, "CANDIDATE", v), "iap")
    /\ slot' = "CANDIDATE"
    /\ image' = v
    /\ pass' = 0
    /\ chance' = 0
    /\ UNCHANGED <<app, nor, stream, k, counts, starts>>

-----------------------------------------------------------------------------
(* Resets.                                                                  *)

\* The operator or a watchdog resets an idle application or a dead device.
Reboot ==
    /\ pc \in {"app", "running", "hang"}
    /\ LoseRam
    /\ UNCHANGED <<persistent, counts, starts>>

\* Power goes away in the middle of an operation.  The flash block or sector
\* being written at that moment may be left half written.
PowerLoss ==
    /\ pc \notin {"reset", "app", "running", "hang"}
    /\ crashes < MaxCrashes
    /\ crashes' = crashes + 1
    /\ \/ pc \in {"erase", "stream"} /\ pass = 1
          /\ app' = [app EXCEPT ![k] = Garbage]
          /\ UNCHANGED nor
       \/ pc = "commitCopy" /\ NorWrite(GoodFirst + k, Garbage) /\ UNCHANGED app
       \/ pc = "commitErase" /\ NorWrite(k, Garbage) /\ UNCHANGED app
       \/ UNCHANGED <<app, nor>>
    /\ LoseRam
    /\ UNCHANGED <<meta, glitches, faults, starts>>

-----------------------------------------------------------------------------
(* The initial states: a device programmed in the factory, whose meta page  *)
(* is still blank or already names a GOOD image that is in its window.      *)

Init ==
    /\ \E v \in Healthy :
         /\ app = [j \in AppIndex |-> IF j <= Len[v] THEN Block(v, j) ELSE Blank]
         /\ \/ /\ meta = Torn
               /\ nor = [a \in NorIndex |-> Blank]
            \/ /\ GoodFirst + Len[v] - 1 <= GoodLast
               /\ meta = [ZeroRecord EXCEPT !.ok = TRUE, !.good = v]
               /\ nor = [a \in NorIndex |->
                           IF a - GoodFirst + 2 \in 1 .. Len[v]
                           THEN Block(v, a - GoodFirst + 2) ELSE Blank]
    /\ pc = "reset"
    /\ buf = ZeroRecord
    /\ ret = "reset"
    /\ slot = "CANDIDATE"
    /\ image = NoImage
    /\ pass = 0
    /\ chance = 0
    /\ stream = NoStream
    /\ k = 0
    /\ crashes = 0
    /\ glitches = 0
    /\ faults = 0
    /\ starts = 0

Stub == StubOnReset \/ StubRestoreGood \/ StubJumpToApp \/ StubHang

Iap ==
    \/ IapStartPass \/ IapEraseBlock \/ IapStreamBlock \/ IapNodeMissing
    \/ IapAccept \/ IapSecondChance \/ IapReject \/ IapProgramAgain \/ IapSucceed
    \/ FinishAndReset

Commit == CommitStart \/ CommitEraseSector \/ CommitCopySector \/ CommitWipeSector

\* The steps the processor takes by itself.
Execute == MetaProgram \/ Stub \/ Iap \/ AppConfirm \/ AppPromote \/ Commit

Next ==
    \/ Execute
    \/ CommitAbort
    \/ \E v \in Images : AppStage(v) \/ AppApply(v)
    \/ Reboot
    \/ PowerLoss

Spec == Init /\ [][Next]_vars

\* The processor runs, and an application that hangs is reset some day.
Fairness ==
    /\ WF_vars(Execute)
    /\ WF_vars(Reboot /\ pc = "app")

FairSpec == Spec /\ Fairness

-----------------------------------------------------------------------------
(* Safety.                                                                  *)

\* A valid meta page never lies about the application area: after BOOT_OK it
\* holds a complete image, and once PROGRAMMED is latched the very image that
\* the active slot's descriptor names, whatever crashed in between (the order
\* begin_update, erase, program, set_programmed of boot_core.c).
MetaTellsTruth ==
    meta # Torn =>
        /\ meta.state = "IDLE" => AppIntact
        /\ meta.state = "PROGRAMMED" => AppHolds(Descriptor(meta, meta.active))

\* A complete image whose first words are no vector table: its CRC is right, and
\* boot_stub_app_image_looks_valid refuses it.
UnbootableInstalled == \E v \in Images \ Bootable : AppHolds(v)

\* After one power loss, wherever it strikes, every boot finds a complete
\* application or a valid page, the stub does not give up, and it never starts a
\* half programmed application (README: "prevent an interrupted ... update"),
\* unless a valid page says that there is no GOOD image, or the application area
\* holds a complete image without a vector table: the page is then all that leads
\* back to GOOD, and it is erased before it is written.  Whether the image that the
\* page names as GOOD can be restored is another matter: if its window does not hold
\* it, as after the commit of boot_fw_zone_hc32f460.c (CommitFillsGoodWindow), the
\* stub tries and resets for ever.  BootRecovers is about the windows that do.
OneCrashIsSafe ==
    (/\ crashes <= 1
     /\ meta # Torn => meta.good # NoImage
     /\ ~UnbootableInstalled)
        => /\ pc = "reset" => AppIntact \/ meta # Torn
           /\ pc # "hang"
           /\ pc = "app" => AppIntact

\* An unconfirmed program is started at most three times before the stub
\* restores GOOD (boot_attempts, boot_stub.c; "PROGRAMMED retries before GOOD
\* rollback", boot_meta.h:38), however resets and power losses fall.
AtMostThreeTrials ==
    (pc = "app" /\ AwaitingBootOk(meta) /\ meta.good # NoImage) => starts <= 3

\* The application area is only ever touched while the meta page says UPDATING
\* for the slot being read, and only if that slot's SPI window holds exactly
\* the image of its descriptor: a download that is broken, too long or of
\* another image never costs the device its application.
EraseOnlyForVerifiedImage ==
    [][app' # app =>
          /\ meta # Torn
          /\ meta.state = "UPDATING" /\ meta.active = slot
          /\ WindowHolds(slot, Descriptor(meta, slot))]_vars

-----------------------------------------------------------------------------
(* Liveness, once the bounded power losses are over.                        *)

GoodRestorable ==
    /\ meta # Torn
    /\ meta.good \in Bootable
    /\ WindowHolds("GOOD", meta.good)

Starts == pc = "app" /\ \E v \in Bootable : AppHolds(v)

\* A boot that finds a valid meta page and a GOOD image in its window ends in a
\* start of a complete application, whatever state the last update was left in.
BootRecovers ==
    (pc = "reset" /\ crashes = MaxCrashes /\ GoodRestorable) ~> Starts

\* A new image that starts but never reports BOOT_OK is replaced by the GOOD
\* image in the end.
BadUpdateIsRolledBack ==
    (/\ pc = "app" /\ ~AppIsHealthy
     /\ AwaitingBootOk(meta)
     /\ crashes = MaxCrashes
     /\ GoodRestorable /\ meta.good \in Healthy)
        ~> (pc = "app" /\ AppIsHealthy)

-----------------------------------------------------------------------------
(* How far a boot has come, up to its reset or to where the device waits:    *)
(* the first of four counts that differs tells.                              *)

IapPCs == {"iap", "erase", "stream", "verify"}

\* Where execution is, or goes on after the write of the meta page.
Place == IF pc = "metaProgram" THEN ret ELSE pc

GlitchesLeft == MaxGlitches - glitches

\* This pass has read something that the window does not hold.
Spoiled ==
    /\ pc \in {"stream", "verify"}
    /\ \E j \in 1 .. (IF pc = "verify" THEN Len[image] ELSE k - 1) :
          stream[j] # nor[FirstSector(slot) + j - 2]

\* Pass 0 is made once or twice, pass 1 again after each wrong read.
PassesLeft ==
    CASE Place \in {"reset", "decide", "counted"} -> 5
      [] Place \in IapPCs /\ pass = 0 -> 4 - chance
      [] Place \in IapPCs /\ pass = 1 -> IF Spoiled THEN 2 ELSE 1
      [] OTHER -> 0

Stage ==
    [ reset |-> 9, decide |-> 7, counted |-> 7,
      iap |-> 5, erase |-> 4, stream |-> 3, verify |-> 2, finish |-> 0,
      app |-> 11, promote |-> 9, commit |-> 7, commitErase |-> 4, commitCopy |-> 3,
      wipe |-> 2, running |-> 0, hang |-> 0, metaProgram |-> 0]

StageLeft == IF pc = "metaProgram" THEN Stage[ret] + 1 ELSE Stage[pc]

\* The turns of a loop over blocks or sectors.
TurnsLeft ==
    CASE pc = "erase"       -> AppBlocks - k
      [] pc = "stream"      -> Len[image] - k
      [] pc = "commitErase" -> GoodLast - k
      [] pc = "commitCopy"  -> Len[meta.good] - k
      [] pc = "wipe"        -> CandLast - k
      [] OTHER -> 0

Closer ==
    /\ GlitchesLeft' \in Nat /\ TurnsLeft' \in Nat
    /\ \/ GlitchesLeft' < GlitchesLeft
       \/ /\ GlitchesLeft' = GlitchesLeft
          /\ \/ PassesLeft' < PassesLeft
             \/ /\ PassesLeft' = PassesLeft
                /\ \/ StageLeft' < StageLeft
                   \/ StageLeft' = StageLeft /\ TurnsLeft' < TurnsLeft

\* No boot and no BOOT_OK goes round for ever, whatever the page and the windows
\* hold.  boot_core.c:165 repeats pass 1 without limit, but each repetition costs
\* a wrong read of its own: pass 0 has found the image in the window, and nothing
\* has written there since.
EveryBootEnds == [][Execute => pc = "finish" \/ Closer]_vars

-----------------------------------------------------------------------------
(* The device implements UpdateProtocol.  A write of the meta page counts   *)
(* from its start; if power goes away before its end, the page is lost.     *)

Broken == Torn

Page == IF pc = "metaProgram" THEN buf ELSE meta

Installed == IF AppIntact THEN CHOOSE v \in Images : AppHolds(v) ELSE Broken

Phase == IF Page = Torn THEN "LOST" ELSE Page.state

Fallback == IF Page = Torn THEN NoImage ELSE Page.good

Protocol == INSTANCE UpdateProtocol WITH
    MaxTrials <- 3,
    phase     <- Phase,
    installed <- Installed,
    fallback  <- Fallback,
    trials    <- starts

\* Every step of the device is one of the protocol or changes nothing that the
\* protocol speaks of.
ImplementsProtocol == Protocol!Spec

-----------------------------------------------------------------------------
(* What the documents say and the code does not do.                         *)

\* README.md:145: an unhealthy update never permanently replaces the last
\* known-good firmware.  So GOOD never names an image that cannot report BOOT_OK.
GoodIsNeverUnhealthy ==
    meta # Torn => meta.good \in Healthy \union {NoImage}

\* BootStub/README.md:34, "Recover from SPI GOOD if needed": a boot that finds a
\* GOOD descriptor finds that image in the GOOD window.
GoodDescriptorIsBacked ==
    (pc = "reset" /\ meta # Torn /\ meta.good # NoImage)
        => WindowHolds("GOOD", meta.good)

\* The same line: the stub does not give up while the GOOD window still holds
\* a healthy image.
NeverHangsBesideGoodImage ==
    pc = "hang" => ~\E v \in Healthy : WindowHolds("GOOD", v)

\* boot_fw_zone_hc32f460.c:52, sector addresses "same as IAP": when the copy has
\* met no error and CANDIDATE holds the promoted image, so does the GOOD window.
CommitFillsGoodWindow ==
    [][(pc = "commitCopy" /\ pc' = "wipe" /\ WindowHolds("CANDIDATE", meta.good))
          => WindowHolds("GOOD", meta.good)']_vars
=============================================================================
