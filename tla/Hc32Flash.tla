------------------------------ MODULE Hc32Flash ------------------------------
(***************************************************************************)
(* Internal flash as the HC32F460 port drives it: the four port calls that *)
(* erase or program (boot_port_hc32f460_impl.c), the driver functions under *)
(* them (boot_hc32f460_ram_driver.c) and the flash controller (EFM), which *)
(* works on by itself after each store and reports RDY and OPTEND.         *)
(* Bootloader.tla assumes what these calls promise; here is what they do.  *)
(*                                                                         *)
(* Abstractions.                                                           *)
(*  - FAPRT, FWMC.PEMODE, FWMC.PEMOD and FRMC.CACHE are a variable each.   *)
(*  - A timeout counter may run out at any time.                           *)
(*  - A word is named by where its content comes from.                     *)
(*  - The cache branches of HAL_FLASHEx_Erase2 and HAL_FLASH_Program2 are   *)
(*    left out: the first compares a masked register whose bits are 16 and *)
(*    24 with 1, the second looks for a cache bit in FSR, which has none,  *)
(*    so CacheToReactivate is always FLASH_CACHE_DISABLED.                 *)
(***************************************************************************)
EXTENDS Integers

CONSTANTS
    PageSize,           \* FLASH_PAGE_SIZE, RAM_F460_FLASH_PAGE_SIZE, in bytes
    FlashSize,          \* bytes of internal flash
    AddressSpace,       \* 2^32: the width of uint32_t
    MetaAddress,        \* BOOT_META_FLASH_ADDR
    AppStart, AppEnd    \* BOOT_APP_FLASH_START, BOOT_APP_FLASH_END

WordSize == 4
PageWords == PageSize \div WordSize
WordOf(address) == address \div WordSize
Words == 0 .. FlashSize \div WordSize - 1

\* The memory map of boot_target_config.h, whose pages are all aligned.
ASSUME MapAssumption ==
    /\ PageSize \in Nat \ {0} /\ PageSize % WordSize = 0
    /\ FlashSize \in Nat /\ FlashSize <= AddressSpace /\ AddressSpace \in Nat
    /\ \A a \in {MetaAddress, AppStart, AppEnd, FlashSize} : a \in Nat /\ a % PageSize = 0
    /\ MetaAddress < AppStart /\ AppStart < AppEnd /\ AppEnd <= FlashSize

\* Blank: erased.  Old: there before.  New: the data to be programmed.  Mixed:
\* programmed without having been erased.
Contents == {"Blank", "Old", "New", "Mixed"}

Modes == {"readonly", "program", "erase"}

NotBusy == [mode |-> "readonly", word |-> 0]

VARIABLES
    flash,      \* the content of each word
    busy,       \* the operation the controller is performing, or NotBusy
    optend,     \* FSR.OPTEND: an operation has ended
    unlocked,   \* FAPRT: the other registers accept writes
    pemode,     \* FWMC.PEMODE: erasing and programming are permitted
    pemod,      \* FWMC.PEMOD: what a store into flash does
    cache,      \* FRMC.CACHE
    saved,      \* u32Tmp of RAM_EFM_SectorErase
    pc,
    request,    \* the call of the port: its kind, first page or address, pages
    index       \* page_index, or the number of words programmed

efm       == <<busy, optend>>
registers == <<unlocked, pemode, pemod, cache>>
vars == <<flash, efm, registers, saved, pc, request, index>>

AppPages == (AppEnd - AppStart) \div PageSize

\* A request: the arguments of the driver (first is Page or Address), and the
\* address of the first page that the caller means.
Request(kind, first, pages, address) ==
    [kind |-> kind, first |-> first, pages |-> pages, address |-> address]

\* boot_port_flash_erase_app_area and boot_port_meta_erase_page put an address
\* into EraseInitStruct.Page.
PortErases == { Request("erase", AppStart, AppPages, AppStart),
                Request("erase", MetaAddress, 1, MetaAddress) }

\* The product's EEPROM emulation behind the application calls the same driver
\* with what it takes, a page number.  (Not in this repository.)
ProductErases ==
    { Request("erase", AppEnd \div PageSize, n, AppEnd) :
        n \in 1 .. (FlashSize - AppEnd) \div PageSize }

\* boot_port_flash_program_page with the pages of boot_core.c, and
\* boot_port_meta_program.
Programs ==
    { Request("program", a, 1, a) :
        a \in {MetaAddress} \union {AppStart + n * PageSize : n \in 0 .. AppPages - 1} }

TypeOK ==
    /\ flash \in [Words -> Contents]
    /\ busy \in [mode : Modes, word : Words]
    /\ optend \in BOOLEAN
    /\ unlocked \in BOOLEAN /\ pemode \in BOOLEAN /\ pemod \in Modes
    /\ cache \in BOOLEAN /\ saved \in BOOLEAN
    /\ pc \in {"idle", "eraseWait", "erasePage", "eraseBusy", "pageWait", "programWait",
               "programStart", "programWord", "programBusy", "programEnd", "fault"}
    /\ request \in PortErases \union ProductErases \union Programs
    /\ request.kind = "erase" => index \in request.first .. request.first + request.pages
    /\ request.kind = "program" => index \in 0 .. PageWords

-----------------------------------------------------------------------------
(* The flash controller.                                                    *)

Ready == busy = NotBusy

\* The words that an operation changes.
Affected(mode, word) ==
    IF mode = "erase"
    THEN {w \in Words : w \div PageWords = word \div PageWords}
    ELSE {word}

\* A store into flash starts an operation if the registers allow it; outside
\* flash it is ignored, or ends in the assertion handler or a bus fault.
Store(mode, address, next) ==
    IF WordOf(address) \in Words
    THEN /\ pc' = next
         /\ IF mode # "readonly"
            THEN busy' = [mode |-> mode, word |-> WordOf(address)]
            ELSE UNCHANGED busy
    ELSE /\ pc' \in {next, "fault"}
         /\ UNCHANGED busy

Result(mode, old) ==
    IF mode = "erase" THEN "Blank" ELSE IF old \in {"Blank", "New"} THEN "New" ELSE "Mixed"

\* The controller finishes, whatever the processor does meanwhile.
EfmFinish ==
    /\ ~Ready
    /\ flash' = [w \in Words |-> IF w \in Affected(busy.mode, busy.word)
                                 THEN Result(busy.mode, flash[w]) ELSE flash[w]]
    /\ busy' = NotBusy
    /\ optend' = TRUE
    /\ UNCHANGED <<registers, saved, pc, request, index>>

-----------------------------------------------------------------------------
(* The driver.  The operators with an underscore in their name are plausible *)
(* mistakes in the operator that follows.                                   *)

MayGoOn_Always == TRUE

MayGoOn_Inverted == ~Ready

\* The condition of the loop in FLASH_WaitForLastOperation2.
MayGoOn == Ready

\* FLASH_WaitForLastOperation2: clearing OPTEND ends with RAM_EFM_REG_Lock.
WaitForLastOperation(here, next) ==
    /\ pc = here
    /\ MayGoOn
    /\ pc' = next
    /\ optend' = FALSE
    /\ unlocked' = (unlocked /\ ~optend)

\* HAL_FLASHEx_Erase2 up to its loop.
EraseCall(r) ==
    /\ pc = "idle"
    /\ request' = r
    /\ index' = r.first
    /\ unlocked' = TRUE
    /\ pc' = "eraseWait"
    /\ UNCHANGED <<flash, efm, pemode, pemod, cache, saved>>

EraseWait ==
    /\ WaitForLastOperation("eraseWait", "erasePage")
    /\ UNCHANGED <<flash, busy, pemode, pemod, cache, saved, request, index>>

EraseAddress(page) == (page * PageSize) % AddressSpace

\* With the map of boot_target_config.h, the page that an address of the port
\* makes is not in flash: 0x08000000 and up for the application, and 0x04000000.
ASSUME MissAssumption ==
    \A r \in PortErases : \A page \in r.first .. r.first + r.pages - 1 :
        WordOf(EraseAddress(page)) \notin Words

MorePages_AtMost == index <= request.first + request.pages

MorePages == index < request.first + request.pages

\* FLASH_PageErase2 and RAM_EFM_SectorErase up to the store.
ErasePage ==
    /\ pc = "erasePage"
    /\ MorePages
    /\ unlocked' = TRUE
    /\ pemode' = TRUE
    /\ optend' = FALSE
    /\ saved' = cache
    /\ cache' = FALSE
    /\ pemod' = "erase"
    /\ Store("erase", EraseAddress(index), "eraseBusy")
    /\ UNCHANGED <<flash, request, index>>

RestoredCache_Forgotten == cache

RestoredCache == saved

\* RAM_EFM_WaitFlag stops at RDY or at its timeout, and the two functions
\* return: the controller may still be erasing.
EndSectorErase ==
    /\ pc = "eraseBusy"
    /\ optend' = FALSE
    /\ pemod' = "readonly"
    /\ cache' = RestoredCache
    /\ pemode' = FALSE
    /\ unlocked' = FALSE
    /\ pc' = "pageWait"
    /\ UNCHANGED <<flash, busy, saved, request, index>>

PageWait ==
    /\ WaitForLastOperation("pageWait", "erasePage")
    /\ index' = index + 1
    /\ UNCHANGED <<flash, busy, pemode, pemod, cache, saved, request>>

EraseReturn ==
    /\ pc = "erasePage"
    /\ ~MorePages
    /\ unlocked' = FALSE
    /\ pc' = "idle"
    /\ UNCHANGED <<flash, efm, pemode, pemod, cache, saved, request, index>>

\* HAL_FLASH_Program2.
ProgramCall(r) ==
    /\ pc = "idle"
    /\ request' = r
    /\ index' = 0
    /\ pc' = "programWait"
    /\ UNCHANGED <<flash, efm, registers, saved>>

ProgramWait ==
    /\ WaitForLastOperation("programWait", "programStart")
    /\ UNCHANGED <<flash, busy, pemode, pemod, cache, saved, request, index>>

\* FLASH_Program_Fast2 up to its loop.
ProgramStart ==
    /\ pc = "programStart"
    /\ unlocked' = TRUE
    /\ pemode' = TRUE
    /\ pemod' = "program"
    /\ pc' = "programWord"
    /\ UNCHANGED <<flash, efm, cache, saved, request, index>>

RowLength_OneMore == PageWords + 1

RowLength_OneLess == PageWords - 1

\* row_index: the length of a program request, whatever data the caller has.
RowLength == PageWords

ProgramWord ==
    /\ pc = "programWord"
    /\ Store(pemod, request.first + index * WordSize, "programBusy")
    /\ index' = index + 1
    /\ UNCHANGED <<flash, optend, registers, saved, request>>

\* The inner loop has no timeout.
ProgramNext ==
    /\ pc = "programBusy"
    /\ Ready
    /\ index < RowLength
    /\ pc' = "programWord"
    /\ UNCHANGED <<flash, efm, registers, saved, request, index>>

ProgramEnd ==
    /\ pc = "programBusy"
    /\ Ready
    /\ index >= RowLength
    /\ optend' = FALSE
    /\ pemod' = "readonly"
    /\ pemode' = FALSE
    /\ unlocked' = FALSE
    /\ pc' = "programEnd"
    /\ UNCHANGED <<flash, busy, cache, saved, request, index>>

ProgramReturn ==
    /\ WaitForLastOperation("programEnd", "idle")
    /\ UNCHANGED <<flash, busy, pemode, pemod, cache, saved, request, index>>

-----------------------------------------------------------------------------
\* The product hands over the flash locked and idle; the cache may be on, and
\* OPTEND may be left from an operation of its own.
Init ==
    /\ \E c \in {"Old", "Blank"} :
         flash = [w \in Words |-> IF w \in WordOf(MetaAddress) .. WordOf(AppEnd) - 1
                                  THEN c ELSE "Old"]
    /\ busy = NotBusy
    /\ optend \in BOOLEAN
    /\ unlocked = FALSE /\ pemode = FALSE /\ pemod = "readonly"
    /\ cache \in BOOLEAN
    /\ saved = cache
    /\ pc = "idle"
    /\ request \in Programs
    /\ index = 0

Driver ==
    \/ EraseWait \/ ErasePage \/ EndSectorErase \/ PageWait \/ EraseReturn
    \/ ProgramWait \/ ProgramStart \/ ProgramWord \/ ProgramNext \/ ProgramEnd
    \/ ProgramReturn

Next ==
    \/ \E r \in PortErases \union ProductErases : EraseCall(r)
    \/ \E r \in Programs : ProgramCall(r)
    \/ Driver
    \/ EfmFinish

Spec == Init /\ [][Next]_vars

\* The processor runs, and the controller ends what it has begun.
FairSpec == Spec /\ WF_vars(Driver) /\ WF_vars(EfmFinish)

-----------------------------------------------------------------------------
\* No store goes to the flash while the controller works, and none with the
\* registers locked or in another mode than the caller's: a store in the wrong
\* mode would erase a sector.  The timeout of RAM_EFM_WaitFlag is what makes
\* this hard (boot_hc32f460_ram_driver.c:664); the wait behind it saves it.
StoresAreInOrder ==
    /\ pc = "erasePage" => Ready
    /\ pc = "programWord" => Ready /\ unlocked /\ pemode /\ pemod = "program"

\* Between two calls the flash is idle, locked and read-only, with the cache as
\* it was: a wild store of the application cannot harm it.
ProtectedAtRest ==
    pc = "idle" => Ready /\ ~unlocked /\ ~pemode /\ pemod = "readonly" /\ cache = saved

\* Nothing but the pages that the caller means ever changes: not the boot stub,
\* nor the meta page under an application update ("Survives APP erase",
\* boot_meta.h:5), nor the EEPROM behind the application.
OnlyRequestedPages ==
    [][\A w \in Words : flash'[w] # flash[w] =>
          /\ WordOf(request.address) <= w
          /\ w < WordOf(request.address + request.pages * PageSize)]_vars

\* How far a call has come, the first count that differs tells: the stages of the
\* call, the pages or words that its loop has left, the steps of a turn.
StagesLeft ==
    CASE pc \in {"eraseWait", "programWait"} -> 4
      [] pc = "programStart" -> 3
      [] pc \in {"erasePage", "eraseBusy", "pageWait", "programWord", "programBusy"} -> 2
      [] pc = "programEnd" -> 1
      [] OTHER -> 0

ItemsLeft ==
    IF request.kind = "erase" THEN request.first + request.pages - index
    ELSE PageWords - index

StepsLeft ==
    CASE pc = "erasePage" -> 2
      [] pc \in {"eraseBusy", "programBusy"} -> 1
      [] OTHER -> 0

Closer ==
    /\ ItemsLeft' \in Nat
    /\ \/ StagesLeft' < StagesLeft
       \/ /\ StagesLeft' = StagesLeft
          /\ \/ ItemsLeft' < ItemsLeft
             \/ ItemsLeft' = ItemsLeft /\ StepsLeft' < StepsLeft

\* Every step of the driver brings the end of its call closer, and the controller
\* does not put it off: a call has finitely many steps, and it can only hang where
\* it waits for a controller that never gets ready.
Progress ==
    [][pc # "idle" =>
          IF Driver THEN Closer
          ELSE UNCHANGED <<StagesLeft, ItemsLeft, StepsLeft>>]_vars

\* Every call returns, or has faulted.
CallsEnd == pc # "idle" ~> pc \in {"idle", "fault"}

RequestedWords ==
    WordOf(request.address) .. WordOf(request.address + request.pages * PageSize) - 1

\* A call that returns has done all of its work, although a wait inside it may
\* time out and the controller go on alone: an erase by page number, as the
\* driver takes it, leaves its pages blank, and a program has programmed every
\* word of its page.  (For erase by address, as the port asks for it, see
\* EraseLeavesBlank.)
CallsDeliver ==
    [][(pc # "idle" /\ pc' = "idle") =>
          /\ request \in ProductErases => \A w \in RequestedWords : flash'[w] = "Blank"
          /\ request \in Programs =>
                \A w \in RequestedWords : flash'[w] \in {"New", "Mixed"}]_vars

\* README.md:110, "Erase application": an erase that returns leaves the pages
\* that its caller means blank.
EraseLeavesBlank ==
    [][(pc = "erasePage" /\ pc' = "idle") =>
          \A w \in RequestedWords : flash[w] = "Blank"]_vars
=============================================================================
