-------------------------- MODULE Hc32Flash_proofs --------------------------
(***************************************************************************)
(* The HC32F460 flash driver, for every memory map and whatever the        *)
(* timeouts do.                                                            *)
(*                                                                         *)
(*   StoresAreSafe        stores find the controller ready and unlocked    *)
(*   FlashIsProtected     flash is locked between two calls                *)
(*   FlashTypeCorrect     addresses and counters stay in range             *)
(*   OnlyRequestedChange  no page changes that was not asked for           *)
(*   CallsKeepContract    a call that returns has done what was asked      *)
(*   CallsAdvance         and every step brings its return closer          *)
(*                                                                         *)
(* The first two rest on Registers, which says nothing about addresses,    *)
(* the others on RequestInv, and the contract on Delivering, which follows *)
(* the work of a call page by page and word by word.                       *)
(***************************************************************************)
EXTENDS Hc32Flash, Arithmetic

\* What the registers are while nothing is permitted to change flash.
Closed == ~pemode /\ pemod = "readonly" /\ cache = saved

\* The registers at each point of the driver.  In "eraseBusy", "pageWait" and
\* "programBusy" the controller may still be at work.
Registers ==
    /\ pc \in {"idle", "programWait", "programStart", "programEnd"} =>
          Ready /\ ~unlocked /\ Closed
    /\ pc = "eraseWait" => Ready /\ unlocked /\ Closed
    /\ pc = "erasePage" => Ready /\ Closed
    /\ pc = "pageWait" => ~unlocked /\ Closed
    /\ pc = "programWord" => Ready
    /\ pc \in {"programWord", "programBusy"} =>
          unlocked /\ pemode /\ pemod = "program" /\ cache = saved

LEMMA InitRegisters == Init => Registers
BY DEF Init, Registers, Ready, Closed

LEMMA NextRegisters == Registers /\ [Next]_vars => Registers'
<1> SUFFICES ASSUME Registers, [Next]_vars PROVE Registers'
  OBVIOUS
<1> USE DEF Registers, Ready, Closed
<1>1. ASSUME NEW r, EraseCall(r) PROVE Registers'
  BY <1>1 DEF EraseCall, efm
<1>2. ASSUME NEW r, ProgramCall(r) PROVE Registers'
  BY <1>2 DEF ProgramCall, efm, registers
<1>3. CASE EraseWait
  BY <1>3 DEF EraseWait, WaitForLastOperation
<1>4. CASE ErasePage
  <2>1. pc' \in {"eraseBusy", "fault"}
    BY <1>4 DEF ErasePage, Store
  <2>2. QED BY <2>1
<1>5. CASE EndSectorErase
  BY <1>5 DEF EndSectorErase, RestoredCache
<1>6. CASE PageWait
  BY <1>6 DEF PageWait, WaitForLastOperation, MayGoOn
<1>7. CASE EraseReturn
  BY <1>7 DEF EraseReturn, efm
<1>8. CASE ProgramWait
  BY <1>8 DEF ProgramWait, WaitForLastOperation
<1>9. CASE ProgramStart
  BY <1>9 DEF ProgramStart, efm
<1>10. CASE ProgramWord
  <2>1. pc = "programWord" /\ pc' \in {"programBusy", "fault"}
    BY <1>10 DEF ProgramWord, Store
  <2>2. UNCHANGED <<unlocked, pemode, pemod, cache, saved>>
    BY <1>10 DEF ProgramWord, registers
  <2>3. QED BY <2>1, <2>2
<1>11. CASE ProgramNext
  BY <1>11 DEF ProgramNext, efm, registers
<1>12. CASE ProgramEnd
  BY <1>12 DEF ProgramEnd
<1>13. CASE ProgramReturn
  BY <1>13 DEF ProgramReturn, WaitForLastOperation
<1>14. CASE EfmFinish
  BY <1>14 DEF EfmFinish, registers
<1>15. CASE UNCHANGED vars
  BY <1>15 DEF vars, efm, registers
<1>16. QED
  BY <1>1, <1>2, <1>3, <1>4, <1>5, <1>6, <1>7, <1>8, <1>9, <1>10, <1>11, <1>12, <1>13,
     <1>14, <1>15 DEF Next, Driver

\* No store meets a busy or locked controller, or one in another mode, although
\* RAM_EFM_WaitFlag may give up before an erase has ended.
THEOREM StoresAreSafe == Spec => []StoresAreInOrder
<1>1. Registers => StoresAreInOrder
  BY DEF Registers, StoresAreInOrder
<1>2. QED BY <1>1, InitRegisters, NextRegisters, PTL DEF Spec

\* Between two calls of the driver flash is idle, locked and read-only, and the
\* cache is as it was.
THEOREM FlashIsProtected == Spec => []ProtectedAtRest
<1>1. Registers => ProtectedAtRest
  BY DEF Registers, Closed, ProtectedAtRest
<1>2. QED BY <1>1, InitRegisters, NextRegisters, PTL DEF Spec

-----------------------------------------------------------------------------
(* Pages and words.                                                         *)

LEMMA Sizes ==
    /\ PageSize \in Nat \ {0} /\ PageWords \in Nat \ {0} /\ PageSize = WordSize * PageWords
    /\ FlashSize \in Nat /\ AddressSpace \in Nat /\ FlashSize <= AddressSpace
    /\ MetaAddress \in Nat /\ AppStart \in Nat /\ AppEnd \in Nat
    /\ MetaAddress < AppStart /\ AppStart < AppEnd /\ AppEnd <= FlashSize
BY MapAssumption DEF PageWords, WordSize

\* An aligned address is that of a page.
LEMMA PageOfAddress ==
    ASSUME NEW a \in Nat, a % PageSize = 0
    PROVE  /\ a \div PageSize \in Nat
           /\ a = (a \div PageSize) * PageSize
           /\ WordOf(a) = (a \div PageSize) * PageWords
<1> DEFINE p == a \div PageSize
<1>1. p \in Nat /\ a = p * PageSize
  <2>1. p \in Nat /\ a = p * PageSize + (a % PageSize)
    <3>1. PageSize \in Nat \ {0}
      BY Sizes
    <3>2. QED BY <3>1, Division
  <2>2. p * PageSize \in Nat
    BY <2>1, Sizes
  <2>3. QED BY <2>1, <2>2
<1>2. p * PageWords \in Nat /\ p * PageSize = 4 * (p * PageWords)
  BY <1>1, Sizes DEF WordSize
<1>3. WordOf(a) = p * PageWords
  BY <1>1, <1>2 DEF WordOf, WordSize
<1>4. QED BY <1>1, <1>3

\* The words that erasing page p changes.
LEMMA WordsOfPage ==
    ASSUME NEW p \in Nat
    PROVE  /\ WordOf(p * PageSize) = p * PageWords
           /\ \A w \in Nat : w \div PageWords = WordOf(p * PageSize) \div PageWords =>
                 p * PageWords <= w /\ w < p * PageWords + PageWords
<1>1. p * PageWords \in Nat /\ p * PageSize = 4 * (p * PageWords)
  BY Sizes DEF WordSize
<1>2. WordOf(p * PageSize) = p * PageWords
  BY <1>1 DEF WordOf, WordSize
<1>3. (p * PageWords) \div PageWords = p
  <2>1. p * PageWords = p * PageWords + 0 /\ 0 \in 0 .. PageWords - 1
    BY <1>1, Sizes
  <2>2. QED BY <1>1, <2>1, Sizes, DivisionUnique
<1>4. ASSUME NEW w \in Nat, w \div PageWords = p
      PROVE  p * PageWords <= w /\ w < p * PageWords + PageWords
  <2>1. /\ w = (w \div PageWords) * PageWords + (w % PageWords)
        /\ w % PageWords \in 0 .. PageWords - 1
    BY Sizes, Division
  <2>2. QED BY <2>1, <1>4, <1>1, Sizes
<1>5. QED BY <1>2, <1>3, <1>4

-----------------------------------------------------------------------------
(* What the requests ask for.                                               *)

Ends(r) == WordOf(r.address + r.pages * PageSize)

\* A program request is one page, at its address.
LEMMA ProgramFacts ==
    ASSUME NEW r \in Programs
    PROVE  /\ r.kind = "program" /\ r.pages = 1 /\ r.first = r.address /\ r.address \in Nat
           /\ Ends(r) = WordOf(r.address) + PageWords
           /\ \A i \in 0 .. PageWords - 1 :
                 WordOf(r.first + i * WordSize) = WordOf(r.address) + i
<1>1. PICK a \in {MetaAddress} \union {AppStart + n * PageSize : n \in 0 .. AppPages - 1} :
         r = Request("program", a, 1, a)
  BY DEF Programs
<1>2. r.kind = "program" /\ r.pages = 1 /\ r.first = a /\ r.address = a
  BY <1>1 DEF Request
<1>3. a \in Nat
  <2>1. ASSUME NEW n \in 0 .. AppPages - 1 PROVE AppStart + n * PageSize \in Nat
    BY Sizes
  <2>2. QED BY <1>1, <2>1, Sizes
<1>4. WordOf(a + 1 * PageSize) = WordOf(a) + PageWords
  BY <1>3, Sizes DEF WordOf, WordSize
<1>5. ASSUME NEW i \in 0 .. PageWords - 1 PROVE WordOf(a + i * WordSize) = WordOf(a) + i
  BY <1>3, Sizes DEF WordOf, WordSize
<1>6. QED BY <1>2, <1>3, <1>4, <1>5 DEF Ends

\* An erase by page number: its pages are in flash, and each page number becomes the
\* address of that page.
LEMMA ProductFacts ==
    ASSUME NEW r \in ProductErases
    PROVE  /\ r.kind = "erase" /\ r.first \in Nat /\ r.pages \in Nat
           /\ WordOf(r.address) = r.first * PageWords
           /\ Ends(r) = (r.first + r.pages) * PageWords
           /\ \A w \in Nat : w < Ends(r) => w \in Words
           /\ \A page \in r.first .. r.first + r.pages - 1 :
                 EraseAddress(page) = page * PageSize
<1>1. PICK n \in 1 .. (FlashSize - AppEnd) \div PageSize :
         r = Request("erase", AppEnd \div PageSize, n, AppEnd)
  BY DEF ProductErases
<1> DEFINE f == AppEnd \div PageSize
           m == (FlashSize - AppEnd) \div PageSize
<1>2. /\ r.kind = "erase" /\ r.first = f /\ r.pages = n /\ r.address = AppEnd
  BY <1>1 DEF Request
<1>3. /\ f \in Nat /\ AppEnd = f * PageSize /\ WordOf(AppEnd) = f * PageWords
  BY Sizes, MapAssumption, PageOfAddress
<1>4. m \in Nat /\ m * PageSize <= FlashSize - AppEnd /\ n \in Nat /\ n <= m
  <2>1. FlashSize - AppEnd \in Nat
    BY Sizes
  <2>2. /\ FlashSize - AppEnd = m * PageSize + ((FlashSize - AppEnd) % PageSize)
        /\ m \in Nat /\ (FlashSize - AppEnd) % PageSize \in 0 .. PageSize - 1
    BY <2>1, Sizes, Division
  <2>3. n \in Nat /\ n <= m
    BY <2>2
  <2> HIDE DEF m
  <2>4. m * PageSize \in Nat
    BY <2>2, Sizes
  <2>5. QED BY <2>1, <2>2, <2>3, <2>4
<1>5. Ends(r) = (f + n) * PageWords
  <2>1. r.address + r.pages * PageSize = (f + n) * PageSize
    BY <1>2, <1>3, <1>4, Sizes
  <2>2. f + n \in Nat
    BY <1>3, <1>4
  <2>3. QED BY <2>1, <2>2, WordsOfPage DEF Ends
<1>6. /\ (f + n) * PageSize \in Nat /\ (f + n) * PageSize <= FlashSize
  <2>1. n = m \/ (f + n) * PageSize + PageSize <= (f + m) * PageSize
    BY <1>3, <1>4, Sizes, MultiplesApart
  <2>2. (f + n) * PageSize \in Nat /\ (f + m) * PageSize \in Int
    BY <1>3, <1>4, Sizes
  <2>3. (f + m) * PageSize <= FlashSize
    BY <1>3, <1>4, Sizes
  <2>4. QED BY <2>1, <2>2, <2>3, Sizes
<1>7. ASSUME NEW w \in Nat, w < Ends(r)
      PROVE  w \in Words
  <2> DEFINE e == (f + n) * PageWords
  <2>1. e \in Nat /\ (f + n) * PageSize = 4 * e
    BY <1>3, <1>4, Sizes DEF WordSize
  <2>2. 4 * e <= FlashSize /\ w < e
    BY <1>5, <1>6, <1>7, <2>1
  <2> HIDE DEF e
  <2>3. w + 1 <= FlashSize \div 4
    BY <2>1, <2>2, Sizes
  <2>4. QED BY <2>3, Sizes DEF Words, WordSize
<1>8. ASSUME NEW page \in f .. f + n - 1
      PROVE  EraseAddress(page) = page * PageSize
  <2>1. page \in Nat
    BY <1>3, <1>4
  <2>2. page * PageSize \in Nat
    BY <2>1, Sizes
  <2>3. page * PageSize + PageSize <= (f + n) * PageSize
    BY <2>1, <1>3, <1>4, Sizes, MultiplesApart
  <2>4. page * PageSize \in 0 .. AddressSpace - 1
    BY <2>2, <2>3, <1>6, Sizes
  <2>5. AddressSpace \in Nat \ {0}
    BY <2>4, Sizes
  <2>6. page * PageSize = 0 * AddressSpace + page * PageSize
    BY <2>2, <2>5
  <2>7. (page * PageSize) % AddressSpace = page * PageSize
    BY <2>2, <2>4, <2>5, <2>6, DivisionUnique
  <2>8. QED BY <2>7 DEF EraseAddress
<1>9. QED BY <1>2, <1>3, <1>4, <1>5, <1>7, <1>8

\* What a store of an erase request changes is inside the pages that its caller
\* means: the driver's own requests are in flash, the port's never are.
LEMMA EraseFacts ==
    ASSUME NEW r \in PortErases \union ProductErases
    PROVE  /\ r.kind = "erase" /\ r.first \in Nat /\ r.pages \in Nat
           /\ \A page \in r.first .. r.first + r.pages - 1, w \in Words :
                 /\ WordOf(EraseAddress(page)) \in Words
                 /\ w \in Affected("erase", WordOf(EraseAddress(page)))
                 => WordOf(r.address) <= w /\ w < Ends(r)
<1>1. CASE r \in PortErases
  <2>1. AppPages \in Nat
    <3>1. AppEnd - AppStart \in Nat
      BY Sizes
    <3>2. QED BY <3>1, Sizes, Division DEF AppPages
  <2>2. r.kind = "erase" /\ r.first \in Nat /\ r.pages \in Nat
    BY <1>1, <2>1, Sizes DEF PortErases, Request
  <2>3. QED BY <1>1, <2>2, MissAssumption
<1>2. CASE r \in ProductErases
  <2>1. r.kind = "erase" /\ r.first \in Nat /\ r.pages \in Nat
    BY <1>2, ProductFacts
  <2> DEFINE f == r.first
             e == r.first + r.pages
  <2>2. ASSUME NEW page \in f .. e - 1, NEW w \in Words,
               w \in Affected("erase", WordOf(EraseAddress(page)))
        PROVE  WordOf(r.address) <= w /\ w < Ends(r)
    <3>1. page \in Nat /\ e \in Nat
      BY <2>1
    <3>2. EraseAddress(page) = page * PageSize
      BY <1>2, ProductFacts
    <3>3. w \in Nat /\ w \div PageWords = WordOf(page * PageSize) \div PageWords
      BY <2>2, <3>2 DEF Affected, Words
    <3>4. page * PageWords <= w /\ w < page * PageWords + PageWords
      BY <3>1, <3>3, WordsOfPage
    <3>5. f * PageWords <= page * PageWords
      <4>1. page = f \/ f * PageWords + PageWords <= page * PageWords
        BY <3>1, <2>1, Sizes, MultiplesApart
      <4>2. f * PageWords \in Int /\ page * PageWords \in Int
        BY <3>1, <2>1, Sizes
      <4>3. QED BY <4>1, <4>2, Sizes
    <3>6. page * PageWords + PageWords <= e * PageWords
      BY <3>1, Sizes, MultiplesApart
    <3>7. f * PageWords \in Int /\ page * PageWords \in Int /\ e * PageWords \in Int
      BY <3>1, <2>1, Sizes
    <3>8. WordOf(r.address) = f * PageWords /\ Ends(r) = e * PageWords
      BY <1>2, ProductFacts
    <3> HIDE DEF e, f
    <3>9. QED BY <3>3, <3>4, <3>5, <3>6, <3>7, <3>8, Sizes
  <2>3. QED BY <2>1, <2>2
<1>3. QED BY <1>1, <1>2

-----------------------------------------------------------------------------
(* Types, and where the driver and the controller are.                      *)

ErasePcs   == {"eraseWait", "erasePage", "eraseBusy", "pageWait"}
ProgramPcs == {"programWait", "programStart", "programWord", "programBusy", "programEnd"}

\* The loops stay inside the request.
InsideLoop ==
    /\ pc \in ErasePcs => request \in PortErases \union ProductErases
    /\ pc \in ProgramPcs => request \in Programs
    /\ pc \in {"eraseBusy", "pageWait"} => index < request.first + request.pages
    /\ pc \in {"programWait", "programStart"} => index = 0
    /\ pc = "programWord" => index < PageWords

\* What the controller is doing concerns the pages of the request, even when the
\* driver has stopped waiting for it.
BusyInside ==
    ~Ready => \A w \in Affected(busy.mode, busy.word) :
                 WordOf(request.address) <= w /\ w < Ends(request)

RequestInv == TypeOK /\ Registers /\ InsideLoop /\ BusyInside

LEMMA IndexTypes ==
    ASSUME TypeOK
    PROVE  /\ request \in PortErases \union ProductErases =>
                 /\ request.kind = "erase" /\ request.first \in Nat /\ request.pages \in Nat
                 /\ index \in request.first .. request.first + request.pages
           /\ request \in Programs => request.kind = "program" /\ index \in 0 .. PageWords
BY EraseFacts, ProgramFacts DEF TypeOK

LEMMA InitRequest == Init => RequestInv
<1> SUFFICES ASSUME Init PROVE RequestInv
  OBVIOUS
<1>1. flash \in [Words -> Contents]
  BY DEF Init, Contents
<1>2. request.kind = "program"
  BY ProgramFacts DEF Init
<1>3. 0 \in Words
  <2>1. PICK k \in Nat : FlashSize = k * PageSize /\ WordOf(FlashSize) = k * PageWords
    BY Sizes, MapAssumption, PageOfAddress
  <2>2. k # 0
    BY <2>1, Sizes
  <2>3. 0 * PageWords + PageWords <= k * PageWords /\ k * PageWords \in Int
    BY <2>1, <2>2, Sizes, MultiplesApart
  <2>4. WordOf(FlashSize) >= 1
    BY <2>1, <2>3, Sizes
  <2>5. QED BY <2>4, Sizes DEF Words, WordOf, WordSize
<1>4. busy \in [mode : Modes, word : Words] /\ Ready
  BY <1>3 DEF Init, NotBusy, Modes, Ready
<1>5. pemod \in Modes
  BY DEF Init, Modes
<1>6. TypeOK
  <2>1. optend \in BOOLEAN /\ unlocked \in BOOLEAN /\ pemode \in BOOLEAN
    BY DEF Init
  <2>2. cache \in BOOLEAN /\ saved \in BOOLEAN
    BY DEF Init
  <2>3. pc = "idle" /\ request \in Programs /\ index = 0
    BY DEF Init
  <2>4. QED BY <1>1, <1>2, <1>4, <1>5, <2>1, <2>2, <2>3, Sizes DEF TypeOK
<1>7. InsideLoop /\ BusyInside
  BY <1>4 DEF Init, InsideLoop, BusyInside, ErasePcs, ProgramPcs
<1>8. QED BY <1>6, <1>7, InitRegisters DEF RequestInv

LEMMA StoreFacts ==
    ASSUME NEW mode \in Modes, NEW address, NEW next, Store(mode, address, next)
    PROVE  /\ pc' \in {next, "fault"}
           /\ \/ busy' = busy
              \/ /\ WordOf(address) \in Words /\ mode # "readonly"
                 /\ busy' = [mode |-> mode, word |-> WordOf(address)]
BY DEF Store

LEMMA NextTypes == RequestInv /\ [Next]_vars => TypeOK'
<1> SUFFICES ASSUME RequestInv, [Next]_vars PROVE TypeOK'
  OBVIOUS
<1> USE DEF RequestInv, TypeOK, efm, registers
<1>0. \A x \in {"readonly", "program", "erase"} : x \in Modes
  BY DEF Modes
<1>1. ASSUME NEW r \in PortErases \union ProductErases, EraseCall(r) PROVE TypeOK'
  <2>1. r.kind = "erase" /\ r.first \in r.first .. r.first + r.pages
    BY <1>1, EraseFacts
  <2>2. QED BY <1>1, <2>1 DEF EraseCall
<1>2. ASSUME NEW r \in Programs, ProgramCall(r) PROVE TypeOK'
  <2>1. r.kind = "program" /\ 0 \in 0 .. PageWords
    BY <1>2, ProgramFacts, Sizes
  <2>2. QED BY <1>2, <2>1 DEF ProgramCall
<1>3. CASE EraseWait
  <2>1. unlocked' \in BOOLEAN
    BY <1>3 DEF EraseWait, WaitForLastOperation
  <2>2. QED BY <1>3, <2>1 DEF EraseWait, WaitForLastOperation
<1>4. CASE ErasePage
  <2>1. /\ pc' \in {"eraseBusy", "fault"}
        /\ busy' = busy \/ (/\ WordOf(EraseAddress(index)) \in Words
                            /\ busy' = [mode |-> "erase", word |-> WordOf(EraseAddress(index))])
    BY <1>4, <1>0, StoreFacts DEF ErasePage
  <2>2. busy' \in [mode : Modes, word : Words]
    BY <2>1, <1>0
  <2>3. QED BY <1>4, <1>0, <2>1, <2>2 DEF ErasePage
<1>5. CASE EndSectorErase
  BY <1>5, <1>0 DEF EndSectorErase, RestoredCache
<1>6. CASE PageWait
  <2>1. unlocked' \in BOOLEAN
    BY <1>6 DEF PageWait, WaitForLastOperation
  <2>2. /\ request.kind = "erase" /\ request.first \in Nat /\ request.pages \in Nat
        /\ index' \in request.first .. request.first + request.pages
    BY <1>6, IndexTypes DEF PageWait, WaitForLastOperation, InsideLoop, ErasePcs
  <2>3. QED BY <1>6, <2>1, <2>2 DEF PageWait, WaitForLastOperation
<1>7. CASE EraseReturn
  BY <1>7 DEF EraseReturn
<1>8. CASE ProgramWait
  <2>1. unlocked' \in BOOLEAN
    BY <1>8 DEF ProgramWait, WaitForLastOperation
  <2>2. QED BY <1>8, <2>1 DEF ProgramWait, WaitForLastOperation
<1>9. CASE ProgramStart
  BY <1>9, <1>0 DEF ProgramStart
<1>10. CASE ProgramWord
  <2>1. /\ pc = "programWord" /\ index' = index + 1
        /\ UNCHANGED <<flash, optend, registers, saved, request>>
    BY <1>10 DEF ProgramWord
  <2>2. /\ pc' \in {"programBusy", "fault"}
        /\ \/ busy' = busy
           \/ /\ WordOf(request.first + index * WordSize) \in Words
              /\ busy' = [mode |-> pemod,
                          word |-> WordOf(request.first + index * WordSize)]
    BY <1>10, StoreFacts DEF ProgramWord
  <2>3. busy' \in [mode : Modes, word : Words]
    BY <2>2
  <2>4. request.kind = "program" /\ index' \in 0 .. PageWords
    BY <2>1, IndexTypes, Sizes DEF InsideLoop, ProgramPcs
  <2>5. QED BY <2>1, <2>2, <2>3, <2>4
<1>11. CASE ProgramNext
  BY <1>11 DEF ProgramNext
<1>12. CASE ProgramEnd
  BY <1>12, <1>0 DEF ProgramEnd
<1>13. CASE ProgramReturn
  <2>1. unlocked' \in BOOLEAN
    BY <1>13 DEF ProgramReturn, WaitForLastOperation
  <2>2. QED BY <1>13, <2>1 DEF ProgramReturn, WaitForLastOperation
<1>14. CASE EfmFinish
  <2>1. flash' \in [Words -> Contents]
    <3>1. \A old \in Contents : Result(busy.mode, old) \in Contents
      BY DEF Result, Contents
    <3>2. QED BY <1>14, <3>1 DEF EfmFinish
  <2>2. busy' \in [mode : Modes, word : Words]
    <3>1. busy.word \in Words
      OBVIOUS
    <3>2. 0 \in Words
      BY <3>1, Sizes DEF Words, WordSize
    <3>3. QED BY <1>14, <1>0, <3>2 DEF EfmFinish, NotBusy
  <2>3. QED BY <1>14, <2>1, <2>2 DEF EfmFinish
<1>15. CASE UNCHANGED vars
  BY <1>15 DEF vars
<1>16. QED
  BY <1>1, <1>2, <1>3, <1>4, <1>5, <1>6, <1>7, <1>8, <1>9, <1>10, <1>11, <1>12, <1>13,
     <1>14, <1>15 DEF Next, Driver

LEMMA NextInsideLoop == RequestInv /\ [Next]_vars => InsideLoop'
<1> SUFFICES ASSUME RequestInv, [Next]_vars PROVE InsideLoop'
  OBVIOUS
<1> USE DEF RequestInv, InsideLoop, ErasePcs, ProgramPcs, efm, registers
<1>1. CASE (\E r \in PortErases \union ProductErases : EraseCall(r))
           \/ (\E r \in Programs : ProgramCall(r))
  BY <1>1 DEF EraseCall, ProgramCall
<1>2. CASE EraseWait \/ PageWait \/ ProgramWait \/ ProgramReturn
  BY <1>2 DEF EraseWait, PageWait, ProgramWait, ProgramReturn, WaitForLastOperation
<1>3. CASE ErasePage
  <2>1. pc' \in {"eraseBusy", "fault"} /\ pc = "erasePage" /\ UNCHANGED <<request, index>>
        /\ MorePages
    BY <1>3 DEF ErasePage, Store
  <2>2. QED BY <2>1 DEF MorePages
<1>4. CASE EndSectorErase \/ EraseReturn
  BY <1>4 DEF EndSectorErase, EraseReturn
<1>5. CASE ProgramStart
  <2>1. 0 < PageWords
    BY Sizes
  <2>2. QED BY <1>5, <2>1 DEF ProgramStart
<1>6. CASE ProgramWord
  <2>1. /\ pc' \in {"programBusy", "fault"} /\ pc = "programWord" /\ UNCHANGED request
    BY <1>6 DEF ProgramWord, Store
  <2>2. QED BY <2>1
<1>7. CASE ProgramNext
  BY <1>7 DEF ProgramNext, RowLength
<1>8. CASE ProgramEnd \/ EfmFinish \/ UNCHANGED vars
  BY <1>8 DEF ProgramEnd, EfmFinish, vars
<1>9. QED
  BY <1>1, <1>2, <1>3, <1>4, <1>5, <1>6, <1>7, <1>8 DEF Next, Driver

LEMMA NextBusyInside == RequestInv /\ [Next]_vars => BusyInside'
<1> SUFFICES ASSUME RequestInv, [Next]_vars PROVE BusyInside'
  OBVIOUS
<1> USE DEF RequestInv, efm, registers
<1>0. \A x \in {"readonly", "program", "erase"} : x \in Modes
  BY DEF Modes
<1>1. CASE EfmFinish
  BY <1>1 DEF EfmFinish, BusyInside, Ready, NotBusy
<1>2. CASE busy' = busy /\ request' = request
  BY <1>2 DEF BusyInside, Ready, Ends, NotBusy
<1>3. CASE busy' = busy /\ pc = "idle"
  BY <1>3 DEF BusyInside, Ready, Registers
<1>4. CASE ErasePage
  <2>1. /\ pc = "erasePage" /\ request' = request /\ MorePages
        /\ Store("erase", EraseAddress(index), "eraseBusy")
    BY <1>4 DEF ErasePage
  <2>2. /\ request \in PortErases \union ProductErases
        /\ index \in request.first .. request.first + request.pages - 1
    BY <2>1, IndexTypes DEF InsideLoop, ErasePcs, MorePages
  <2>3. \/ busy' = busy
        \/ /\ WordOf(EraseAddress(index)) \in Words
           /\ busy' = [mode |-> "erase", word |-> WordOf(EraseAddress(index))]
    BY <2>1, <1>0, StoreFacts
  <2>4. CASE busy' = [mode |-> "erase", word |-> WordOf(EraseAddress(index))]
             /\ WordOf(EraseAddress(index)) \in Words
    <3>1. \A w \in Affected("erase", WordOf(EraseAddress(index))) : w \in Words
      BY DEF Affected
    <3>2. \A w \in Affected("erase", WordOf(EraseAddress(index))) :
             WordOf(request.address) <= w /\ w < Ends(request)
      BY <2>2, <2>4, <3>1, EraseFacts
    <3>3. /\ busy'.mode = "erase" /\ busy'.word = WordOf(EraseAddress(index))
          /\ request' = request
      BY <2>1, <2>4
    <3>4. QED BY <3>2, <3>3 DEF BusyInside, Affected, Ends
  <2>5. QED BY <1>2, <2>1, <2>3, <2>4
<1>5. CASE ProgramWord
  <2>1. /\ pc = "programWord" /\ request' = request
        /\ Store(pemod, request.first + index * WordSize, "programBusy")
    BY <1>5 DEF ProgramWord
  <2>2. request \in Programs /\ index \in 0 .. PageWords - 1 /\ pemod = "program"
    BY <2>1, IndexTypes, Sizes DEF InsideLoop, ProgramPcs, Registers
  <2> DEFINE word == WordOf(request.first + index * WordSize)
  <2>3. word = WordOf(request.address) + index
    BY <2>2, ProgramFacts
  <2>4. WordOf(request.address) <= word /\ word < Ends(request)
    <3>1. WordOf(request.address) \in Int
      BY <2>2, ProgramFacts DEF WordOf, WordSize
    <3>2. Ends(request) = WordOf(request.address) + PageWords
      BY <2>2, ProgramFacts
    <3> HIDE DEF word
    <3>3. QED BY <2>2, <2>3, <3>1, <3>2, Sizes
  <2>5. busy' = busy \/ busy' = [mode |-> "program", word |-> word]
    BY <2>1, <2>2, <1>0, StoreFacts
  <2> HIDE DEF word
  <2>6. CASE busy' = [mode |-> "program", word |-> word]
    <3>1. /\ busy'.mode = "program" /\ busy'.word = word /\ request' = request
      BY <2>1, <2>6
    <3>2. QED BY <2>4, <3>1 DEF BusyInside, Affected, Ends
  <2>7. QED BY <1>2, <2>1, <2>5, <2>6
<1>6. CASE \/ \E r \in PortErases \union ProductErases : EraseCall(r)
           \/ \E r \in Programs : ProgramCall(r)
  BY <1>3, <1>6 DEF EraseCall, ProgramCall
<1>7. CASE EraseWait \/ PageWait \/ ProgramWait \/ ProgramReturn
  BY <1>2, <1>7 DEF EraseWait, PageWait, ProgramWait, ProgramReturn
<1>8. CASE EndSectorErase \/ EraseReturn \/ ProgramStart \/ ProgramNext \/ ProgramEnd
  BY <1>2, <1>8 DEF EndSectorErase, EraseReturn, ProgramStart, ProgramNext, ProgramEnd
<1>9. CASE UNCHANGED vars
  BY <1>2, <1>9 DEF vars
<1>10. QED
  BY <1>1, <1>4, <1>5, <1>6, <1>7, <1>8, <1>9 DEF Next, Driver

LEMMA NextRequest == RequestInv /\ [Next]_vars => RequestInv'
BY NextTypes, NextRegisters, NextInsideLoop, NextBusyInside DEF RequestInv

\* Every variable keeps its type: neither the page loop nor the word loop of the
\* driver leaves its request.
THEOREM FlashTypeCorrect == Spec => []TypeOK
<1>1. RequestInv => TypeOK
  BY DEF RequestInv
<1>2. QED BY <1>1, InitRequest, NextRequest, PTL DEF Spec

LEMMA StepChangesRequested ==
    ASSUME RequestInv, [Next]_vars, NEW w \in Words, flash'[w] # flash[w]
    PROVE  /\ WordOf(request.address) <= w
           /\ w < WordOf(request.address + request.pages * PageSize)
<1> USE DEF efm, registers
<1>1. CASE EfmFinish
  <2>1. ~Ready /\ w \in Affected(busy.mode, busy.word)
    BY <1>1 DEF EfmFinish, RequestInv, TypeOK
  <2>2. QED BY <2>1 DEF RequestInv, BusyInside, Ends
<1>2. CASE \/ \E r \in PortErases \union ProductErases : EraseCall(r)
           \/ \E r \in Programs : ProgramCall(r)
  BY <1>2 DEF EraseCall, ProgramCall
<1>3. CASE EraseWait \/ ErasePage \/ EndSectorErase \/ PageWait \/ EraseReturn
  BY <1>3 DEF EraseWait, ErasePage, EndSectorErase, PageWait, EraseReturn
<1>4. CASE ProgramWait \/ ProgramStart \/ ProgramWord \/ ProgramNext \/ ProgramEnd
           \/ ProgramReturn
  BY <1>4 DEF ProgramWait, ProgramStart, ProgramWord, ProgramNext, ProgramEnd, ProgramReturn
<1>5. CASE UNCHANGED vars
  BY <1>5 DEF vars
<1>6. QED BY <1>1, <1>2, <1>3, <1>4, <1>5 DEF Next, Driver

\* Whatever the timeouts do, only pages that the caller means change: a request
\* never reaches the boot stub or the page of another, and an erase that goes on
\* after the driver has stopped waiting is still that of the request.
THEOREM OnlyRequestedChange == Spec => OnlyRequestedPages
<1> DEFINE Requested == \A w \in Words : flash'[w] # flash[w] =>
              /\ WordOf(request.address) <= w
              /\ w < WordOf(request.address + request.pages * PageSize)
<1>1. RequestInv /\ [Next]_vars => [Requested]_vars
  BY StepChangesRequested
<1>2. QED BY <1>1, InitRequest, NextRequest, PTL DEF Spec, OnlyRequestedPages

-----------------------------------------------------------------------------
(* Progress.                                                                *)

\* What is left of a loop, in numbers.
LEMMA ItemsFit ==
    ASSUME RequestInv
    PROVE  /\ pc \in ErasePcs =>
                 /\ ItemsLeft = request.first + request.pages - index /\ ItemsLeft \in Nat
                 /\ pc = "pageWait" => ItemsLeft > 0
           /\ pc \in ProgramPcs =>
                 /\ ItemsLeft = PageWords - index /\ ItemsLeft \in Nat
                 /\ pc = "programWord" => ItemsLeft > 0
<1> USE DEF RequestInv
<1>1. CASE pc \in ErasePcs
  <2>1. /\ request.kind = "erase" /\ request.first \in Nat /\ request.pages \in Nat
        /\ index \in request.first .. request.first + request.pages
    BY <1>1, IndexTypes DEF InsideLoop
  <2>2. pc = "pageWait" => index < request.first + request.pages
    BY DEF InsideLoop
  <2>3. QED BY <1>1, <2>1, <2>2 DEF ItemsLeft, ErasePcs, ProgramPcs
<1>2. CASE pc \in ProgramPcs
  <2>1. request.kind = "program" /\ index \in 0 .. PageWords /\ PageWords \in Nat
    BY <1>2, IndexTypes, Sizes DEF InsideLoop
  <2>2. pc = "programWord" => index < PageWords
    BY DEF InsideLoop
  <2>3. QED BY <1>2, <2>1, <2>2 DEF ItemsLeft, ErasePcs, ProgramPcs
<1>3. QED BY <1>1, <1>2

\* The driver stays with its request, and index only counts up.
LEMMA ItemsStay ==
    ASSUME request' = request
    PROVE  /\ index' = index => ItemsLeft' = ItemsLeft
           /\ RequestInv /\ pc \in {"pageWait", "programWord"} /\ index' = index + 1
                => ItemsLeft' = ItemsLeft - 1 /\ ItemsLeft' \in Nat
<1>1. index' = index => ItemsLeft' = ItemsLeft
  BY DEF ItemsLeft
<1>2. ASSUME RequestInv, pc \in {"pageWait", "programWord"}, index' = index + 1
      PROVE  ItemsLeft' = ItemsLeft - 1 /\ ItemsLeft' \in Nat
  <2>1. ItemsLeft \in Nat /\ ItemsLeft > 0
    BY <1>2, ItemsFit DEF ErasePcs, ProgramPcs
  <2>2. CASE pc = "pageWait"
    <3>1. /\ request.kind = "erase" /\ request.first \in Nat /\ request.pages \in Nat
          /\ index \in request.first .. request.first + request.pages
      BY <1>2, <2>2, IndexTypes DEF RequestInv, InsideLoop, ErasePcs
    <3>2. ItemsLeft' = ItemsLeft - 1
      BY <1>2, <3>1 DEF ItemsLeft
    <3>3. QED BY <2>1, <3>2
  <2>3. CASE pc = "programWord"
    <3>1. request.kind = "program" /\ index \in 0 .. PageWords /\ PageWords \in Nat
      BY <1>2, <2>3, IndexTypes, Sizes DEF RequestInv, InsideLoop, ProgramPcs
    <3>2. ItemsLeft' = ItemsLeft - 1
      BY <1>2, <3>1 DEF ItemsLeft
    <3>3. QED BY <2>1, <3>2
  <2>4. QED BY <1>2, <2>2, <2>3
<1>3. QED BY <1>1, <1>2

LEMMA DriverGetsCloser ==
    ASSUME RequestInv, Driver
    PROVE  Closer
<1> USE DEF WaitForLastOperation, registers, efm
<1>1. CASE EraseWait \/ EndSectorErase \/ EraseReturn
  <2>1. /\ \/ pc = "eraseWait" /\ pc' = "erasePage"
           \/ pc = "eraseBusy" /\ pc' = "pageWait"
           \/ pc = "erasePage" /\ pc' = "idle"
        /\ request' = request /\ index' = index
    BY <1>1 DEF EraseWait, EndSectorErase, EraseReturn
  <2>2. ItemsLeft' = ItemsLeft /\ ItemsLeft \in Nat
    BY <2>1, ItemsStay, ItemsFit DEF ErasePcs
  <2>3. QED BY <2>1, <2>2 DEF Closer, StagesLeft, StepsLeft
<1>2. CASE ErasePage
  <2>1. pc = "erasePage" /\ pc' \in {"eraseBusy", "fault"} /\ request' = request /\ index' = index
    BY <1>2 DEF ErasePage, Store
  <2>2. ItemsLeft' = ItemsLeft /\ ItemsLeft \in Nat
    BY <2>1, ItemsStay, ItemsFit DEF ErasePcs
  <2>3. QED BY <2>1, <2>2 DEF Closer, StagesLeft, StepsLeft
<1>3. CASE PageWait
  <2>1. pc = "pageWait" /\ pc' = "erasePage" /\ request' = request /\ index' = index + 1
    BY <1>3 DEF PageWait
  <2>2. ItemsLeft' = ItemsLeft - 1 /\ ItemsLeft' \in Nat /\ ItemsLeft \in Nat
    BY <2>1, ItemsStay, ItemsFit DEF ErasePcs
  <2>3. ItemsLeft' < ItemsLeft
    BY <2>2
  <2>4. QED BY <2>1, <2>2, <2>3 DEF Closer, StagesLeft
<1>4. CASE ProgramWait \/ ProgramStart \/ ProgramNext \/ ProgramEnd \/ ProgramReturn
  <2>1. /\ \/ pc = "programWait" /\ pc' = "programStart"
           \/ pc = "programStart" /\ pc' = "programWord"
           \/ pc = "programBusy" /\ pc' = "programWord"
           \/ pc = "programBusy" /\ pc' = "programEnd"
           \/ pc = "programEnd" /\ pc' = "idle"
        /\ request' = request /\ index' = index
    BY <1>4 DEF ProgramWait, ProgramStart, ProgramNext, ProgramEnd, ProgramReturn
  <2>2. ItemsLeft' = ItemsLeft /\ ItemsLeft \in Nat
    BY <2>1, ItemsStay, ItemsFit DEF ProgramPcs
  <2>3. QED BY <2>1, <2>2 DEF Closer, StagesLeft, StepsLeft
<1>5. CASE ProgramWord
  <2>1. /\ pc = "programWord" /\ pc' \in {"programBusy", "fault"}
        /\ request' = request /\ index' = index + 1
    BY <1>5 DEF ProgramWord, Store
  <2>2. ItemsLeft' = ItemsLeft - 1 /\ ItemsLeft' \in Nat /\ ItemsLeft \in Nat
    BY <2>1, ItemsStay, ItemsFit DEF ProgramPcs
  <2>3. ItemsLeft' < ItemsLeft
    BY <2>2
  <2>4. QED BY <2>1, <2>2, <2>3 DEF Closer, StagesLeft
<1>6. QED BY <1>1, <1>2, <1>3, <1>4, <1>5 DEF Driver

\* Each step of the driver lowers a measure that the controller leaves alone, so
\* no call of the port goes round for ever, on whatever memory map.
THEOREM CallsAdvance == Spec => Progress
<1> DEFINE Step == pc # "idle" =>
              IF Driver THEN Closer ELSE UNCHANGED <<StagesLeft, ItemsLeft, StepsLeft>>
<1>1. RequestInv /\ [Next]_vars => [Step]_vars
  <2> SUFFICES ASSUME RequestInv, Next, pc # "idle", ~Driver
               PROVE  UNCHANGED <<StagesLeft, ItemsLeft, StepsLeft>>
    BY DriverGetsCloser
  <2>1. EfmFinish
    BY DEF Next, EraseCall, ProgramCall
  <2>2. pc' = pc /\ request' = request /\ index' = index
    BY <2>1 DEF EfmFinish
  <2>3. QED BY <2>2 DEF StagesLeft, ItemsLeft, StepsLeft
<1>2. QED BY <1>1, InitRequest, NextRequest, PTL DEF Spec, Progress

-----------------------------------------------------------------------------
(* What a call has done when it returns.                                    *)

PageOf(w) == w \div PageWords

\* The words of a program request are programmed one after the other; the last
\* one that was stored may still be at the controller.
ProgrammedSoFar ==
    pc \in {"programWord", "programBusy", "programEnd"} =>
        \A i \in 0 .. index - 1 :
           \/ flash[WordOf(request.address) + i] \in {"New", "Mixed"}
           \/ ~Ready /\ busy.word = WordOf(request.address) + i

\* The pages of an erase by page number, in the same way.
ErasedSoFar ==
    pc \in {"erasePage", "eraseBusy", "pageWait"} /\ request \in ProductErases =>
        \A w \in Words :
           /\ request.first <= PageOf(w) /\ PageOf(w) < index => flash[w] = "Blank"
           /\ pc # "erasePage" /\ PageOf(w) = index =>
                 flash[w] = "Blank" \/ (~Ready /\ PageOf(busy.word) = index)

\* The controller works for the call that is under way.
BusyFor ==
    /\ ~Ready /\ pc \in ErasePcs => busy.mode = "erase"
    /\ ~Ready /\ pc \in ProgramPcs => busy.mode = "program"

Delivering ==
    /\ ProgrammedSoFar /\ ErasedSoFar /\ BusyFor
    /\ pc = "eraseWait" => index = request.first
    /\ pc = "programEnd" => index = PageWords

LEMMA InitDelivering == Init => Delivering
BY DEF Init, Delivering, ProgrammedSoFar, ErasedSoFar, BusyFor, ErasePcs, ProgramPcs

\* The word that a program request stores next is in flash.
LEMMA ProgramWordExists ==
    ASSUME NEW r \in Programs, NEW i \in 0 .. PageWords - 1
    PROVE  WordOf(r.first + i * WordSize) = WordOf(r.address) + i
           /\ WordOf(r.address) + i \in Words
<1>1. PICK a \in {MetaAddress} \union {AppStart + n * PageSize : n \in 0 .. AppPages - 1} :
         r = Request("program", a, 1, a)
  BY DEF Programs
<1>2. a \in Nat /\ r.first = a /\ r.address = a
  BY <1>1, ProgramFacts DEF Request
<1>3. a + PageSize <= FlashSize
  <2>1. CASE a = MetaAddress
    <3>1. PICK p \in Nat, q \in Nat : MetaAddress = p * PageSize /\ AppStart = q * PageSize
      BY Sizes, MapAssumption, PageOfAddress
    <3>2. p < q
      <4>1. CASE q < p
        <5>1. q * PageSize + PageSize <= p * PageSize /\ q * PageSize \in Int
          BY <4>1, Sizes, MultiplesApart
        <5>2. QED BY <5>1, <3>1, Sizes
      <4>2. CASE q = p
        BY <4>2, <3>1, Sizes
      <4>3. QED BY <4>1, <4>2
    <3>3. p * PageSize + PageSize <= q * PageSize
      BY <3>2, Sizes, MultiplesApart
    <3>4. QED BY <2>1, <3>1, <3>3, Sizes
  <2>2. ASSUME NEW n \in 0 .. AppPages - 1, a = AppStart + n * PageSize
        PROVE  a + PageSize <= FlashSize
    <3>1. AppEnd - AppStart \in Nat
      BY Sizes
    <3>2. /\ AppEnd - AppStart = AppPages * PageSize + ((AppEnd - AppStart) % PageSize)
          /\ AppPages \in Nat /\ (AppEnd - AppStart) % PageSize \in 0 .. PageSize - 1
      BY <3>1, Sizes, Division DEF AppPages
    <3>3. n * PageSize + PageSize <= AppPages * PageSize
      <4>1. n \in Int /\ AppPages \in Int /\ n < AppPages
        BY <3>2
      <4>2. PageSize \in Nat \ {0}
        BY Sizes
      <4>3. QED BY <4>1, <4>2, MultiplesApart
    <3>4. n * PageSize \in Nat /\ AppPages * PageSize \in Nat
      BY <3>2, Sizes
    <3>5. QED BY <2>2, <3>1, <3>2, <3>3, <3>4, Sizes
  <2>3. QED BY <1>1, <1>2, <2>1, <2>2 DEF Request
<1>4. WordOf(r.first + i * WordSize) = WordOf(r.address) + i
  BY ProgramFacts
<1>5. WordOf(r.address) + i \in Words
  <2>1. WordOf(a) \in Nat /\ 4 * WordOf(a) <= a
    BY <1>2 DEF WordOf, WordSize
  <2>2. 4 * (WordOf(a) + i + 1) <= FlashSize
    BY <1>3, <2>1, Sizes DEF WordSize
  <2>3. WordOf(a) + i + 1 <= FlashSize \div 4 /\ WordOf(a) + i \in Nat
    BY <2>1, <2>2, Sizes
  <2>4. QED BY <1>2, <2>3, Sizes DEF Words, WordSize
<1>6. QED BY <1>4, <1>5

\* A word lies in a page exactly if it lies between the ends of the page.
LEMMA PageBounds ==
    ASSUME NEW w \in Nat, NEW p \in Nat
    PROVE  /\ p * PageWords <= w => p <= PageOf(w)
           /\ w < p * PageWords => PageOf(w) < p
           /\ PageOf(w) \in Nat
<1>1. /\ w = PageOf(w) * PageWords + (w % PageWords)
      /\ PageOf(w) \in Nat /\ w % PageWords \in 0 .. PageWords - 1
  BY Sizes, Division DEF PageOf
<1>2. PageOf(w) * PageWords \in Nat /\ p * PageWords \in Nat
  BY <1>1, Sizes
<1>3. ASSUME p * PageWords <= w, PageOf(w) < p PROVE FALSE
  <2>1. PageOf(w) * PageWords + PageWords <= p * PageWords
    BY <1>1, <1>3, Sizes, MultiplesApart
  <2>2. QED BY <1>1, <1>2, <1>3, <2>1, Sizes
<1>4. ASSUME w < p * PageWords, p <= PageOf(w) PROVE FALSE
  <2>1. p = PageOf(w) \/ p * PageWords + PageWords <= PageOf(w) * PageWords
    BY <1>1, <1>4, Sizes, MultiplesApart
  <2>2. QED BY <1>1, <1>2, <1>4, <2>1, Sizes
<1>5. QED BY <1>1, <1>3, <1>4

\* Erasing page p of an erase by page number is a store into that page.
LEMMA ErasedPage ==
    ASSUME NEW r \in ProductErases, NEW p \in r.first .. r.first + r.pages - 1
    PROVE  WordOf(EraseAddress(p)) \in Words /\ PageOf(WordOf(EraseAddress(p))) = p
<1>1. /\ r.first \in Nat /\ r.pages \in Nat /\ EraseAddress(p) = p * PageSize
      /\ Ends(r) = (r.first + r.pages) * PageWords
      /\ \A w \in Nat : w < Ends(r) => w \in Words
  BY ProductFacts
<1>2. p \in Nat /\ p < r.first + r.pages /\ r.first + r.pages \in Nat
  BY <1>1
<1>3. WordOf(EraseAddress(p)) = p * PageWords /\ p * PageWords \in Nat
  BY <1>1, <1>2, Sizes, WordsOfPage
<1>4. p * PageWords + PageWords <= (r.first + r.pages) * PageWords
  BY <1>2, Sizes, MultiplesApart
<1>5. p * PageWords \in Words
  <2>1. (r.first + r.pages) * PageWords \in Int
    BY <1>2, Sizes
  <2>2. QED BY <1>1, <1>3, <1>4, <2>1, Sizes
<1>6. PageOf(p * PageWords) = p
  <2>1. p * PageWords = p * PageWords + 0 /\ 0 \in 0 .. PageWords - 1
    BY <1>3, Sizes
  <2>2. QED BY <1>2, <1>3, <2>1, Sizes, DivisionUnique DEF PageOf
<1>7. QED BY <1>3, <1>5, <1>6

LEMMA NextBusyFor == RequestInv /\ Delivering /\ [Next]_vars => BusyFor'
<1> SUFFICES ASSUME RequestInv, Delivering, [Next]_vars PROVE BusyFor'
  OBVIOUS
<1> USE DEF RequestInv, Delivering, BusyFor, Registers, Ready, ErasePcs, ProgramPcs,
            efm, registers
<1>1. CASE (\E r \in PortErases \union ProductErases : EraseCall(r))
           \/ (\E r \in Programs : ProgramCall(r))
  BY <1>1 DEF EraseCall, ProgramCall
<1>2. CASE EraseWait \/ PageWait \/ ProgramWait \/ ProgramReturn
  BY <1>2 DEF EraseWait, PageWait, ProgramWait, ProgramReturn, WaitForLastOperation
<1>3. CASE ErasePage
  <2>1. /\ pc' \in {"eraseBusy", "fault"}
        /\ busy' = busy \/ busy' = [mode |-> "erase", word |-> WordOf(EraseAddress(index))]
    BY <1>3 DEF ErasePage, Store
  <2>2. Ready
    BY <1>3 DEF ErasePage
  <2>3. QED BY <2>1, <2>2
<1>4. CASE ProgramWord
  <2>1. /\ pc' \in {"programBusy", "fault"} /\ pemod = "program"
        /\ \/ busy' = busy
           \/ busy' = [mode |-> pemod, word |-> WordOf(request.first + index * WordSize)]
    BY <1>4 DEF ProgramWord, Store
  <2>2. Ready
    BY <1>4 DEF ProgramWord
  <2>3. QED BY <2>1, <2>2
<1>5. CASE EndSectorErase \/ EraseReturn \/ ProgramStart \/ ProgramNext \/ ProgramEnd
  BY <1>5 DEF EndSectorErase, EraseReturn, ProgramStart, ProgramNext, ProgramEnd
<1>6. CASE EfmFinish \/ UNCHANGED vars
  BY <1>6 DEF EfmFinish, vars
<1>7. QED BY <1>1, <1>2, <1>3, <1>4, <1>5, <1>6 DEF Next, Driver

LEMMA NextProgrammed == RequestInv /\ Delivering /\ [Next]_vars => ProgrammedSoFar'
<1> SUFFICES ASSUME RequestInv, Delivering, [Next]_vars PROVE ProgrammedSoFar'
  OBVIOUS
<1> USE DEF efm, registers
<1>1. CASE EfmFinish
  <2> SUFFICES ASSUME pc \in {"programWord", "programBusy", "programEnd"},
                      NEW i \in 0 .. index - 1
               PROVE  flash'[WordOf(request.address) + i] \in {"New", "Mixed"}
    BY <1>1 DEF EfmFinish, ProgrammedSoFar
  <2> DEFINE w == WordOf(request.address) + i
  <2>1. ~Ready /\ busy.mode = "program"
    BY <1>1 DEF EfmFinish, Delivering, BusyFor, ProgramPcs
  <2>2. w \in Words
    <3>1. request \in Programs /\ i \in 0 .. PageWords - 1
      BY IndexTypes, Sizes DEF RequestInv, InsideLoop, ProgramPcs
    <3>2. QED BY <3>1, ProgramWordExists
  <2>3. flash[w] \in {"New", "Mixed"} \/ busy.word = w
    BY DEF Delivering, ProgrammedSoFar
  <2> HIDE DEF w
  <2>4. flash'[w] = IF w = busy.word THEN Result("program", flash[w]) ELSE flash[w]
    BY <1>1, <2>1, <2>2 DEF EfmFinish, Affected
  <2>5. flash'[w] \in {"New", "Mixed"}
    BY <2>3, <2>4 DEF Result
  <2>6. QED BY <2>5 DEF w
<1>2. CASE ProgramWord
  <2>1. /\ pc = "programWord" /\ request' = request /\ index' = index + 1 /\ flash' = flash
        /\ Store(pemod, request.first + index * WordSize, "programBusy")
    BY <1>2 DEF ProgramWord
  <2>2. request \in Programs /\ index \in 0 .. PageWords - 1 /\ pemod = "program" /\ Ready
    BY <2>1, IndexTypes, Sizes DEF RequestInv, InsideLoop, ProgramPcs, Registers
  <2> DEFINE w == WordOf(request.address) + index
  <2>3. WordOf(request.first + index * WordSize) = w /\ w \in Words
    BY <2>2, ProgramWordExists
  <2> HIDE DEF w
  <2>4. busy' = [mode |-> "program", word |-> w]
    BY <2>1, <2>2, <2>3 DEF Store
  <2>5. busy' # NotBusy /\ busy'.word = w
    BY <2>4 DEF NotBusy
  <2> SUFFICES ASSUME NEW i \in 0 .. index
               PROVE  \/ flash[WordOf(request.address) + i] \in {"New", "Mixed"}
                      \/ ~Ready' /\ busy'.word = WordOf(request.address) + i
    BY <2>1, <2>2 DEF ProgrammedSoFar
  <2>6. CASE i = index
    BY <2>5, <2>6 DEF w, Ready
  <2>7. CASE i \in 0 .. index - 1
    BY <2>1, <2>2, <2>7 DEF Delivering, ProgrammedSoFar
  <2>8. QED BY <2>2, <2>6, <2>7
<1>3. CASE ProgramStart
  <2>1. index' = 0
    BY <1>3 DEF ProgramStart, RequestInv, InsideLoop
  <2>2. QED BY <2>1 DEF ProgrammedSoFar
<1>4. CASE ProgramNext \/ ProgramEnd
  <2>1. /\ pc = "programBusy"
        /\ Ready /\ UNCHANGED <<flash, busy, request, index>>
    BY <1>4 DEF ProgramNext, ProgramEnd
  <2>2. QED BY <2>1 DEF Delivering, ProgrammedSoFar, Ready
<1>5. CASE (\E r \in PortErases \union ProductErases : EraseCall(r))
           \/ (\E r \in Programs : ProgramCall(r))
  BY <1>5 DEF EraseCall, ProgramCall, ProgrammedSoFar
<1>6. CASE EraseWait \/ PageWait \/ ProgramWait \/ ProgramReturn
  BY <1>6 DEF EraseWait, PageWait, ProgramWait, ProgramReturn, WaitForLastOperation,
              ProgrammedSoFar
<1>7. CASE ErasePage \/ EndSectorErase \/ EraseReturn
  BY <1>7 DEF ErasePage, Store, EndSectorErase, EraseReturn, ProgrammedSoFar
<1>8. CASE UNCHANGED vars
  BY <1>8 DEF vars, Delivering, ProgrammedSoFar, Ready
<1>9. QED
  BY <1>1, <1>2, <1>3, <1>4, <1>5, <1>6, <1>7, <1>8 DEF Next, Driver

LEMMA NextErased == RequestInv /\ Delivering /\ [Next]_vars => ErasedSoFar'
<1> SUFFICES ASSUME RequestInv, Delivering, [Next]_vars PROVE ErasedSoFar'
  OBVIOUS
<1> USE DEF efm, registers
<1>1. CASE EfmFinish
  <2>1. UNCHANGED <<pc, request, index>>
    BY <1>1 DEF EfmFinish
  <2> SUFFICES ASSUME pc \in {"erasePage", "eraseBusy", "pageWait"},
                      request \in ProductErases, NEW w \in Words
               PROVE  /\ request.first <= PageOf(w) /\ PageOf(w) < index => flash'[w] = "Blank"
                      /\ pc # "erasePage" /\ PageOf(w) = index => flash'[w] = "Blank"
    BY <2>1 DEF ErasedSoFar
  <2>2. ~Ready /\ busy.mode = "erase"
    BY <1>1 DEF EfmFinish, Delivering, BusyFor, ErasePcs
  <2>3. flash'[w] = IF PageOf(w) = PageOf(busy.word) THEN "Blank" ELSE flash[w]
    BY <1>1, <2>2 DEF EfmFinish, Affected, Result, PageOf
  <2>4. QED BY <2>3 DEF Delivering, ErasedSoFar
<1>2. CASE ErasePage
  <2>1. /\ pc = "erasePage" /\ MorePages /\ UNCHANGED <<request, index, flash>>
        /\ Store("erase", EraseAddress(index), "eraseBusy") /\ pc' \in {"eraseBusy", "fault"}
    BY <1>2 DEF ErasePage, Store
  <2> SUFFICES ASSUME pc' = "eraseBusy", request \in ProductErases, NEW w \in Words
               PROVE  /\ request.first <= PageOf(w) /\ PageOf(w) < index => flash[w] = "Blank"
                      /\ PageOf(w) = index => ~Ready' /\ PageOf(busy'.word) = index
    BY <2>1 DEF ErasedSoFar
  <2>2. index \in request.first .. request.first + request.pages - 1
    BY <2>1, IndexTypes DEF RequestInv, MorePages
  <2>3. /\ WordOf(EraseAddress(index)) \in Words
        /\ PageOf(WordOf(EraseAddress(index))) = index
    BY <2>2, ErasedPage
  <2>4. busy' = [mode |-> "erase", word |-> WordOf(EraseAddress(index))]
    BY <2>1, <2>3 DEF Store
  <2>5. busy' # NotBusy /\ PageOf(busy'.word) = index
    BY <2>3, <2>4 DEF NotBusy
  <2>6. QED BY <2>1, <2>5 DEF Delivering, ErasedSoFar, Ready
<1>3. CASE EndSectorErase
  BY <1>3 DEF EndSectorErase, Delivering, ErasedSoFar, Ready
<1>4. CASE PageWait
  <2>1. /\ pc = "pageWait" /\ pc' = "erasePage" /\ index' = index + 1 /\ Ready
        /\ UNCHANGED <<flash, request>>
    BY <1>4 DEF PageWait, WaitForLastOperation, MayGoOn
  <2> SUFFICES ASSUME request \in ProductErases, NEW w \in Words,
                      request.first <= PageOf(w), PageOf(w) < index + 1
               PROVE  flash[w] = "Blank"
    BY <2>1 DEF ErasedSoFar
  <2>2. PageOf(w) \in Nat /\ index \in Nat
    <3>1. w \in Nat
      BY DEF Words
    <3>2. index \in request.first .. request.first + request.pages /\ request.first \in Nat
      BY IndexTypes DEF RequestInv
    <3>3. QED BY <3>1, <3>2, PageBounds
  <2>3. PageOf(w) < index \/ PageOf(w) = index
    BY <2>2
  <2>4. QED BY <2>1, <2>3 DEF Delivering, ErasedSoFar
<1>5. CASE EraseWait
  <2>1. pc = "eraseWait" /\ pc' = "erasePage" /\ UNCHANGED <<request, index>>
    BY <1>5 DEF EraseWait, WaitForLastOperation
  <2> SUFFICES ASSUME request \in ProductErases, NEW w \in Words
               PROVE  ~(request.first <= PageOf(w) /\ PageOf(w) < index)
    BY <2>1 DEF ErasedSoFar
  <2>2. index = request.first /\ request.first \in Nat
    BY <2>1, ProductFacts DEF Delivering
  <2>3. PageOf(w) \in Nat
    <3>1. w \in Nat
      BY DEF Words
    <3>2. QED BY <2>2, <3>1, PageBounds
  <2>4. QED BY <2>2, <2>3
<1>6. CASE (\E r \in PortErases \union ProductErases : EraseCall(r))
           \/ (\E r \in Programs : ProgramCall(r))
  BY <1>6 DEF EraseCall, ProgramCall, ErasedSoFar
<1>7. CASE ProgramWait \/ ProgramReturn \/ ProgramStart \/ ProgramNext \/ ProgramEnd
           \/ EraseReturn
  BY <1>7 DEF ProgramWait, ProgramReturn, WaitForLastOperation, ProgramStart, ProgramNext,
              ProgramEnd, EraseReturn, ErasedSoFar
<1>8. CASE ProgramWord
  BY <1>8 DEF ProgramWord, Store, ErasedSoFar
<1>9. CASE UNCHANGED vars
  BY <1>9 DEF vars, Delivering, ErasedSoFar, Ready
<1>10. QED
  BY <1>1, <1>2, <1>3, <1>4, <1>5, <1>6, <1>7, <1>8, <1>9 DEF Next, Driver

LEMMA NextDelivering == RequestInv /\ Delivering /\ [Next]_vars => Delivering'
<1> SUFFICES ASSUME RequestInv, Delivering, [Next]_vars PROVE Delivering'
  OBVIOUS
<1>1. pc' = "eraseWait" => index' = request'.first
  BY DEF Next, Driver, EraseCall, ProgramCall, EraseWait, ErasePage, Store, EndSectorErase,
     PageWait, EraseReturn, ProgramWait, ProgramStart, ProgramWord, ProgramNext, ProgramEnd,
     ProgramReturn, EfmFinish, WaitForLastOperation, vars, Delivering
<1>2. pc' = "programEnd" => index' = PageWords
  <2>1. CASE ProgramEnd
    <3>1. /\ pc = "programBusy" /\ index' = index /\ index >= PageWords
      BY <2>1 DEF ProgramEnd, RowLength
    <3>2. index \in 0 .. PageWords /\ PageWords \in Nat
      BY <3>1, IndexTypes, Sizes DEF RequestInv, InsideLoop, ProgramPcs
    <3>3. QED BY <3>1, <3>2
  <2>2. CASE ~ProgramEnd
    BY <2>2 DEF Next, Driver, EraseCall, ProgramCall, EraseWait, ErasePage, Store,
       EndSectorErase, PageWait, EraseReturn, ProgramWait, ProgramStart, ProgramWord,
       ProgramNext, ProgramReturn, EfmFinish, WaitForLastOperation, vars, Delivering
  <2>3. QED BY <2>1, <2>2
<1>3. QED BY <1>1, <1>2, NextBusyFor, NextProgrammed, NextErased DEF Delivering

LEMMA ReturnDelivers ==
    ASSUME RequestInv, Delivering, Next, pc # "idle", pc' = "idle"
    PROVE  /\ request \in ProductErases => \A w \in RequestedWords : flash'[w] = "Blank"
           /\ request \in Programs => \A w \in RequestedWords : flash'[w] \in {"New", "Mixed"}
<1>1. EraseReturn \/ ProgramReturn
  BY DEF Next, Driver, EraseCall, ProgramCall, EraseWait, ErasePage, Store, EndSectorErase,
     PageWait, ProgramWait, ProgramStart, ProgramWord, ProgramNext, ProgramEnd,
     EfmFinish, WaitForLastOperation
<1>2. CASE EraseReturn
  <2>1. pc = "erasePage" /\ ~MorePages /\ flash' = flash
    BY <1>2 DEF EraseReturn
  <2>2. request \in PortErases \union ProductErases /\ request.kind = "erase"
    BY <2>1, EraseFacts DEF RequestInv, InsideLoop, ErasePcs
  <2>3. request \notin Programs
    BY <2>2, ProgramFacts
  <2> SUFFICES ASSUME request \in ProductErases, NEW w \in RequestedWords
               PROVE  flash[w] = "Blank"
    BY <2>1, <2>3
  <2> DEFINE e == request.first + request.pages
  <2>4. /\ request.first \in Nat /\ request.pages \in Nat /\ e \in Nat
        /\ WordOf(request.address) = request.first * PageWords
        /\ Ends(request) = e * PageWords
        /\ \A v \in Nat : v < Ends(request) => v \in Words
    BY ProductFacts
  <2>5. index \in request.first .. e /\ index >= e
    BY <2>1, <2>4, IndexTypes DEF RequestInv, MorePages
  <2>6. request.first * PageWords \in Nat /\ e * PageWords \in Nat
    BY <2>4, Sizes
  <2>7. w \in Nat /\ request.first * PageWords <= w /\ w < e * PageWords
    BY <2>4, <2>6 DEF RequestedWords, Ends
  <2>8. w \in Words
    BY <2>4, <2>7
  <2>9. request.first <= PageOf(w) /\ PageOf(w) < e /\ PageOf(w) \in Nat
    BY <2>4, <2>7, PageBounds
  <2>10. PageOf(w) < index
    BY <2>4, <2>5, <2>9
  <2>11. QED BY <2>1, <2>8, <2>9, <2>10 DEF Delivering, ErasedSoFar
<1>3. CASE ProgramReturn
  <2>1. pc = "programEnd" /\ Ready /\ flash' = flash /\ index = PageWords
    BY <1>3 DEF ProgramReturn, WaitForLastOperation, MayGoOn, Delivering
  <2>2. request \in Programs /\ request.kind = "program"
    BY <2>1, ProgramFacts DEF RequestInv, InsideLoop, ProgramPcs
  <2>3. request \notin ProductErases
    BY <2>2, ProductFacts
  <2> SUFFICES ASSUME NEW w \in RequestedWords
               PROVE  flash[w] \in {"New", "Mixed"}
    BY <2>1, <2>3
  <2> DEFINE b == WordOf(request.address)
  <2>4. b \in Int /\ Ends(request) = b + PageWords
    BY <2>2, ProgramFacts DEF WordOf, WordSize
  <2>5. w \in b .. b + PageWords - 1
    <3>1. RequestedWords = b .. Ends(request) - 1
      BY DEF RequestedWords, Ends
    <3> HIDE DEF b
    <3>2. QED BY <2>4, <3>1, Sizes
  <2>6. w - b \in 0 .. index - 1 /\ b + (w - b) = w
    BY <2>1, <2>4, <2>5, Sizes
  <2>7. QED BY <2>1, <2>6 DEF Delivering, ProgrammedSoFar
<1>4. QED BY <1>1, <1>2, <1>3

\* The contract that Bootloader and BootStream rely on, as far as this driver keeps
\* it: a program that returns has programmed its page, and an erase by page number
\* has blanked its pages, even if the wait for a page timed out.
THEOREM CallsKeepContract == Spec => CallsDeliver
<1> DEFINE Step == (pc # "idle" /\ pc' = "idle") =>
          /\ request \in ProductErases => \A w \in RequestedWords : flash'[w] = "Blank"
          /\ request \in Programs =>
                \A w \in RequestedWords : flash'[w] \in {"New", "Mixed"}
<1>1. RequestInv /\ Delivering /\ [Next]_vars => [Step]_vars
  BY ReturnDelivers
<1>2. Init => RequestInv /\ Delivering
  BY InitRequest, InitDelivering
<1>3. RequestInv /\ Delivering /\ [Next]_vars => RequestInv' /\ Delivering'
  BY NextRequest, NextDelivering
<1>4. QED BY <1>1, <1>2, <1>3, PTL DEF Spec, CallsDeliver
=============================================================================
