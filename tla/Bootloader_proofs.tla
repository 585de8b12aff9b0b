------------------------- MODULE Bootloader_proofs -------------------------
(***************************************************************************)
(* Theorems about Bootloader, for every set of images, every window and    *)
(* every bound on what goes wrong.                                         *)
(*                                                                         *)
(*   TypeCorrect       Spec => []TypeOK                                    *)
(*   MetaIsTruthful    Spec => []MetaTellsTruth, if flash pages program    *)
(*                     what they are given (MaxFaults = 0)                 *)
(*   EraseIsVerified   Spec => EraseOnlyForVerifiedImage                   *)
(*   ThreeTrialsOnly   Spec => []AtMostThreeTrials                         *)
(*   OneCrashSurvived  Spec => []OneCrashIsSafe, if MaxFaults = 0          *)
(*   BootsEnd          Spec => EveryBootEnds, by a measure that each step  *)
(*                     of the processor lowers                             *)
(*   DeviceImplementsProtocol                                              *)
(*                     Spec => ImplementsProtocol, if MaxFaults = 0        *)
(*                                                                         *)
(* The argument.  Shape says, for each program counter, what the meta page *)
(* and the loop index are.  Truth adds that the record about to be written *)
(* is as truthful as the page, and that in pass 1 the application area is  *)
(* what was streamed so far.  Verified adds that what was streamed is what *)
(* the SPI window holds, or recognisably wrong.  Trials says that the page *)
(* has counted every start of an unconfirmed program before it happens.    *)
(* OneCrash says what a first power loss can have cost: the application or *)
(* the meta page, never both.                                              *)
(*                                                                         *)
(* For the refinement, every step leaves the four variables of             *)
(* UpdateProtocol alone or is one of its steps.  That needs all of these   *)
(* and Handover: between the erase and the program of a meta write the     *)
(* page is invalid, a page that says PROGRAMMED never says BOOT_OK, and    *)
(* only a healthy application gets to replace GOOD.                        *)
(***************************************************************************)
EXTENDS Bootloader, TLAPS

\* The record m belongs to the IAP that is running.
Latched(m) ==
    /\ m.state = "UPDATING"
    /\ m.active = slot
    /\ image \in Images
    /\ image = Descriptor(m, slot)

Shape ==
    /\ pc \in IapPCs => meta # Torn /\ Latched(meta)
    /\ pc = "metaProgram" =>
          /\ ret \in {"counted", "iap", "finish", "promote", "commit"}
          /\ ret = "iap" => Latched(buf)
          /\ ret = "promote" => buf.state = "IDLE"
    /\ pc = "promote" => meta # Torn /\ meta.state = "IDLE"
    /\ pc = "erase" => k \in AppIndex /\ pass = 1
    /\ pc = "stream" => k \in 1 .. Len[image]

TypeInv == TypeOK /\ Shape

Truthful(m) ==
    /\ m.state = "IDLE" => AppIntact
    /\ m.state = "PROGRAMMED" => AppHolds(Descriptor(m, m.active))

Truth ==
    /\ meta # Torn => Truthful(meta)
    /\ pc = "metaProgram" => Truthful(buf)
    /\ pass = 1 /\ pc = "stream" => \A j \in 1 .. k - 1 : app[j] = stream[j]
    /\ pass = 1 /\ pc = "verify" => \A j \in 1 .. Len[image] : app[j] = stream[j]

\* Block j of the stream is what the window holds, or a visible glitch.
Streamed(j) ==
    /\ NodeExists(slot, j)
    /\ stream[j] \in {nor[FirstSector(slot) + j - 2], Blank, Garbage}

Verified ==
    /\ pc = "stream" => \A j \in 1 .. k - 1 : Streamed(j)
    /\ pc = "verify" => \A j \in 1 .. Len[image] : Streamed(j)
    /\ pass = 1 /\ pc \in IapPCs => WindowHolds(slot, image)
    /\ pc = "metaProgram" /\ ret = "iap" => pass = 0

-----------------------------------------------------------------------------
(* The writers of the meta page produce records, and what they produce.     *)

LEMMA ZeroRecordType == ZeroRecord \in MetaRecord /\ ZeroRecord # Torn
<1>1. ZeroRecord \in MetaRecord
  BY DEF ZeroRecord, MetaRecord, MetaStates, Slots, Descriptors, MaxAttempts
<1>2. QED BY <1>1, TornAssumption

\* A page that is read as valid is a record.
LEMMA ReadType ==
    ASSUME NEW page \in MetaPage
    PROVE  /\ ReadOrZero(page) \in MetaRecord
           /\ page # Torn => page \in MetaRecord
BY ZeroRecordType DEF ReadOrZero, MetaPage

LEMMA DescriptorType ==
    ASSUME NEW m \in MetaRecord, NEW s \in Slots
    PROVE  Descriptor(m, s) \in Descriptors
BY DEF Descriptor, MetaRecord, Slots

\* boot_meta_begin_update latches UPDATING for the slot and image it is given.
LEMMA BeginUpdateType ==
    ASSUME NEW page \in MetaPage, NEW s \in Slots, NEW v \in Descriptors
    PROVE  /\ BeginUpdate(page, s, v) \in MetaRecord
           /\ BeginUpdate(page, s, v).state = "UPDATING"
           /\ BeginUpdate(page, s, v).active = s
           /\ Descriptor(BeginUpdate(page, s, v), s) = v
BY ReadType DEF BeginUpdate, MetaRecord, MetaStates, Slots, Descriptor

LEMMA SetProgrammedType ==
    ASSUME NEW m \in MetaRecord
    PROVE  /\ SetProgrammed(m) \in MetaRecord
           /\ SetProgrammed(m).state = "PROGRAMMED"
           /\ SetProgrammed(m).active = m.active
           /\ \A s \in Slots : Descriptor(SetProgrammed(m), s) = Descriptor(m, s)
<1>0. 0 \in 0 .. MaxAttempts /\ "PROGRAMMED" \in MetaStates
  BY DEF MetaStates, MaxAttempts
<1>1. SetProgrammed(m) \in MetaRecord
  BY <1>0 DEF SetProgrammed, MetaRecord
<1>2. /\ SetProgrammed(m).state = "PROGRAMMED"
      /\ SetProgrammed(m).active = m.active
      /\ SetProgrammed(m).cand = m.cand
      /\ SetProgrammed(m).good = m.good
  BY DEF SetProgrammed, MetaRecord
<1>3. QED BY <1>1, <1>2 DEF Descriptor

LEMMA SetFailType ==
    ASSUME NEW page \in MetaPage
    PROVE  SetFail(page) \in MetaRecord /\ SetFail(page).state = "FAIL"
BY ReadType DEF SetFail, MetaRecord, MetaStates

LEMMA ConfirmType ==
    ASSUME NEW page \in MetaPage
    PROVE  ConfirmBootOk(page) \in MetaRecord /\ ConfirmBootOk(page).state = "IDLE"
BY ReadType DEF ConfirmBootOk, MetaRecord, MetaStates

LEMMA PromoteType ==
    ASSUME NEW m \in MetaRecord
    PROVE  Promote(m) \in MetaRecord /\ Promote(m).state = m.state
BY DEF Promote, MetaRecord, Descriptors

\* Counting an attempt keeps the count within its bound and nothing else moves.
LEMMA CountAttemptType ==
    ASSUME NEW m \in MetaRecord, m.attempts < MaxAttempts
    PROVE  /\ CountAttempt(m) \in MetaRecord
           /\ CountAttempt(m).state = m.state
           /\ CountAttempt(m).active = m.active
           /\ \A s \in Slots : Descriptor(CountAttempt(m), s) = Descriptor(m, s)
BY DEF CountAttempt, MetaRecord, MaxAttempts, Descriptor

\* The IAP reads inside the chip.
LEMMA NodeInChip ==
    ASSUME NEW s \in Slots, NEW j \in Nat \ {0}, NodeExists(s, j)
    PROVE  FirstSector(s) + j - 2 \in NorIndex
BY WindowAssumption DEF NodeExists, FirstSector, LastSector, NorIndex, Slots

LEMMA BlockIsNotFiller ==
    ASSUME NEW v \in Images, NEW j \in Nat
    PROVE  Block(v, j) \notin {Blank, Garbage}
BY ImageAssumption DEF Block

-----------------------------------------------------------------------------
(* Type correctness.                                                        *)

\* A writer that starts from a typed state leaves a typed write behind.
LEMMA StartWriteType ==
    ASSUME TypeOK, NEW m \in MetaRecord, NEW next \in PCs, StartMetaWrite(m, next)
    PROVE  /\ meta' = Torn /\ meta' \in MetaPage
           /\ buf' = m /\ buf' \in MetaRecord
           /\ ret' = next /\ ret' \in PCs
           /\ pc' = "metaProgram" /\ pc' \in PCs
BY DEF StartMetaWrite, MetaPage, PCs

LEMMA LoseRamType ==
    ASSUME LoseRam
    PROVE  /\ pc' = "reset" /\ pc' \in PCs
           /\ buf' \in MetaRecord
           /\ ret' \in PCs
           /\ slot' \in Slots
           /\ image' \in Descriptors
           /\ pass' \in {0, 1}
           /\ chance' \in {0, 1}
           /\ stream' \in [AppIndex -> Contents]
           /\ k' \in Nat
BY ZeroRecordType DEF LoseRam, NotWriting, PCs, Slots, Descriptors, NoStream, Contents

LEMMA InitTypeInv == Init => TypeInv
<1> SUFFICES ASSUME Init PROVE TypeInv
  OBVIOUS
<1>1. PICK v \in Healthy :
         /\ app = [j \in AppIndex |-> IF j <= Len[v] THEN Block(v, j) ELSE Blank]
         /\ \/ /\ meta = Torn
               /\ nor = [a \in NorIndex |-> Blank]
            \/ /\ GoodFirst + Len[v] - 1 <= GoodLast
               /\ meta = [ZeroRecord EXCEPT !.ok = TRUE, !.good = v]
               /\ nor = [a \in NorIndex |->
                           IF a - GoodFirst + 2 \in 1 .. Len[v]
                           THEN Block(v, a - GoodFirst + 2) ELSE Blank]
  BY DEF Init
<1>2. v \in Images /\ Len[v] \in 1 .. AppBlocks
  BY <1>1, ImageAssumption
<1>3. \A j \in Nat : j \in 1 .. Len[v] => Block(v, j) \in Contents
  BY <1>2, ImageAssumption DEF Block, Contents
<1>4. Blank \in Contents
  BY DEF Contents
<1>5. app \in [AppIndex -> Contents]
  <2>1. \A j \in AppIndex : j \in Nat /\ (j <= Len[v] => j \in 1 .. Len[v])
    BY <1>2, ImageAssumption DEF AppIndex
  <2>2. QED BY <1>1, <1>3, <1>4, <2>1
<1>6. nor \in [NorIndex -> Contents]
  BY <1>1, <1>3, <1>4
<1>7. meta \in MetaPage
  <2>1. [ZeroRecord EXCEPT !.ok = TRUE, !.good = v] \in MetaRecord
    BY <1>2, ZeroRecordType DEF MetaRecord, Descriptors
  <2>2. QED BY <1>1, <2>1 DEF MetaPage
<1>8. stream \in [AppIndex -> Contents]
  BY <1>4 DEF Init, NoStream
<1>9. QED
  BY <1>5, <1>6, <1>7, <1>8, ZeroRecordType, BoundAssumption
     DEF Init, TypeInv, TypeOK, Shape, PCs, IapPCs, Slots, Descriptors, StartsBound

LEMMA NextTypeInv == TypeInv /\ [Next]_vars => TypeInv'
<1> SUFFICES ASSUME TypeInv, [Next]_vars PROVE TypeInv'
  OBVIOUS
<1> USE BoundAssumption
<1>0. TypeOK
  BY DEF TypeInv
<1>1. CASE MetaProgram
  <2>1. meta' \in MetaRecord /\ meta' # Torn /\ meta' \in MetaPage
    BY <1>0, <1>1, TornAssumption DEF MetaProgram, MetaPage, TypeOK
  <2>2. /\ pc' \in {"counted", "iap", "finish", "promote", "commit"}
        /\ pc' = "iap" => Latched(meta)'
        /\ pc' = "promote" => meta'.state = "IDLE"
    BY <1>1 DEF MetaProgram, TypeInv, Shape, Latched, iap
  <2>3. QED
    BY <1>0, <1>1, <2>1, <2>2, ZeroRecordType
       DEF MetaProgram, NotWriting, TypeInv, TypeOK, Shape, IapPCs, PCs, iap, counts
<1>2. CASE StubOnReset
  <2>1. CASE CountsAttempt(meta, AppLooksValid)
    <3>1. CountAttempt(meta) \in MetaRecord
      BY <1>0, <2>1, ReadType, CountAttemptType
         DEF CountsAttempt, AwaitingBootOk, TypeOK, MetaRecord, MaxAttempts
    <3>2. StartMetaWrite(CountAttempt(meta), "counted") /\ "counted" \in PCs
      BY <1>2, <2>1 DEF StubOnReset, PCs
    <3>3. QED
      BY <1>2, <1>0, <3>1, <3>2, StartWriteType DEF StubOnReset, TypeInv, TypeOK, Shape, Latched, IapPCs, PCs, persistent, writing, iap, counts
  <2>2. CASE ~CountsAttempt(meta, AppLooksValid)
    BY <1>2, <2>2 DEF StubOnReset, TypeInv, TypeOK, Shape, Latched, IapPCs, PCs, persistent, writing, iap, counts
  <2>3. QED BY <2>1, <2>2
<1>3. CASE StubRestoreGood
  <2>1. meta \in MetaRecord /\ meta.good \in Images
    BY <1>0, <1>3, ReadType DEF StubRestoreGood, MustRestore, CanRestoreGood,
          LocalRecord, TypeOK, MetaRecord, Descriptors
  <2>2. BeginUpdate(meta, "GOOD", meta.good) \in MetaRecord /\ "iap" \in PCs
    BY <1>0, <2>1, BeginUpdateType DEF Slots, Descriptors, PCs, TypeOK
  <2>3. Latched(buf)'
    BY <1>0, <1>3, <2>1, BeginUpdateType
       DEF StubRestoreGood, StartMetaWrite, Latched, Slots, Descriptors, TypeOK
  <2>4. QED
    BY <1>0, <1>3, <2>1, <2>2, <2>3, StartWriteType
       DEF StubRestoreGood, Slots, Descriptors, TypeInv, TypeOK, Shape, IapPCs, counts
<1>4. CASE StubJumpToApp
  BY <1>4 DEF StubJumpToApp, StartsBound, TypeInv, TypeOK, Shape, Latched, IapPCs, PCs, persistent, writing, iap, counts
<1>5. CASE StubHang
  BY <1>5 DEF StubHang, TypeInv, TypeOK, Shape, Latched, IapPCs, PCs, persistent, writing, iap, counts
<1>6. CASE IapStartPass
  <2>1. image \in Images /\ Len[image] \in 1 .. AppBlocks
    BY <1>6, ImageAssumption DEF IapStartPass, TypeInv, Shape, Latched, IapPCs
  <2>2. 1 \in 1 .. Len[image] /\ 1 \in AppIndex /\ 1 \in Nat
    BY <2>1, ImageAssumption DEF AppIndex
  <2>3. NoStream \in [AppIndex -> Contents]
    BY DEF NoStream, Contents
  <2>4. QED
    BY <1>6, <2>2, <2>3 DEF IapStartPass, TypeInv, TypeOK, Shape, Latched, IapPCs, PCs, persistent, writing, iap, counts
<1>7. CASE IapEraseBlock
  <2>1. image \in Images /\ Len[image] \in 1 .. AppBlocks /\ k \in AppIndex
    BY <1>7, ImageAssumption DEF IapEraseBlock, TypeInv, Shape, Latched, IapPCs
  <2>2. app' \in [AppIndex -> Contents]
    BY <1>0, <1>7 DEF IapEraseBlock, TypeOK, Contents
  <2>3. /\ k' \in Nat
        /\ pc' = "erase" => k' \in AppIndex
        /\ pc' = "stream" => k' \in 1 .. Len[image]
    BY <1>7, <2>1, ImageAssumption DEF IapEraseBlock, AppIndex
  <2>4. QED
    BY <1>7, <2>2, <2>3 DEF IapEraseBlock, TypeInv, TypeOK, Shape, Latched, IapPCs, PCs, persistent, writing, iap, counts
<1>8. CASE IapStreamBlock
  <2>1. /\ image \in Images /\ Len[image] \in 1 .. AppBlocks
        /\ k \in 1 .. Len[image] /\ k \in AppIndex /\ k \in Nat \ {0}
    BY <1>8, ImageAssumption DEF IapStreamBlock, TypeInv, Shape, Latched, IapPCs, AppIndex
  <2>2. nor[FirstSector(slot) + k - 2] \in Contents
    BY <1>0, <1>8, <2>1, NodeInChip DEF IapStreamBlock, TypeOK
  <2>3. /\ stream' \in [AppIndex -> Contents]
        /\ app' \in [AppIndex -> Contents]
        /\ glitches' \in 0 .. MaxGlitches
        /\ faults' \in 0 .. MaxFaults
    <3> DEFINE c == nor[FirstSector(slot) + k - 2]
    <3>1. PICK d \in ReadOutcomes(c) :
             /\ CountGlitch(c, d)
             /\ stream' = [stream EXCEPT ![k] = d]
             /\ IF pass = 1
                THEN \E w \in ProgramOutcomes(d) :
                       app' = [app EXCEPT ![k] = w] /\ CountFault(d, w)
                ELSE UNCHANGED <<app, faults>>
      BY <1>8 DEF IapStreamBlock
    <3>2. d \in Contents /\ Garbage \in Contents
      BY <2>2 DEF ReadOutcomes, Contents
    <3>3. glitches' \in 0 .. MaxGlitches
      BY <1>0, <3>1 DEF CountGlitch, ReadOutcomes, TypeOK
    <3>4. stream' \in [AppIndex -> Contents]
      BY <1>0, <3>1, <3>2 DEF TypeOK
    <3>5. app' \in [AppIndex -> Contents] /\ faults' \in 0 .. MaxFaults
      <4>1. CASE pass = 1
        <5>1. PICK w \in ProgramOutcomes(d) :
                 app' = [app EXCEPT ![k] = w] /\ CountFault(d, w)
          BY <3>1, <4>1
        <5>2. w \in Contents
          BY <5>1, <3>2 DEF ProgramOutcomes
        <5>3. app' \in [AppIndex -> Contents]
          BY <1>0, <5>1, <5>2 DEF TypeOK
        <5>4. faults' \in 0 .. MaxFaults
          BY <1>0, <5>1 DEF CountFault, ProgramOutcomes, TypeOK
        <5>5. QED BY <5>3, <5>4
      <4>2. CASE pass # 1
        BY <1>0, <3>1, <4>2 DEF TypeOK
      <4>3. QED BY <4>1, <4>2
    <3>6. QED BY <3>3, <3>4, <3>5
  <2>4. /\ k' \in Nat
        /\ pc' \in {"stream", "verify"}
        /\ pc' = "stream" => k' \in 1 .. Len[image]
    BY <1>8, <2>1 DEF IapStreamBlock
  <2>5. QED
    BY <1>8, <2>3, <2>4 DEF IapStreamBlock, TypeInv, TypeOK, Shape, Latched, IapPCs, PCs, persistent, writing, iap, counts
<1>9. CASE IapNodeMissing
  <2>1. SetFail(meta) \in MetaRecord /\ "finish" \in PCs
    BY <1>0, SetFailType DEF TypeOK, PCs
  <2>2. QED
    BY <1>0, <1>9, <2>1, StartWriteType DEF IapNodeMissing, TypeInv, TypeOK, Shape, Latched, IapPCs, PCs, persistent, writing, iap, counts
<1>10. CASE IapAccept
  BY <1>10 DEF IapAccept, TypeInv, TypeOK, Shape, Latched, IapPCs, PCs, persistent, writing, iap, counts
<1>11. CASE IapSecondChance
  BY <1>11 DEF IapSecondChance, TypeInv, TypeOK, Shape, Latched, IapPCs, PCs, persistent, writing, iap, counts
<1>12. CASE IapReject
  <2>1. SetFail(meta) \in MetaRecord /\ "finish" \in PCs
    BY <1>0, SetFailType DEF TypeOK, PCs
  <2>2. QED
    BY <1>0, <1>12, <2>1, StartWriteType DEF IapReject, TypeInv, TypeOK, Shape, Latched, IapPCs, PCs, persistent, writing, iap, counts
<1>13. CASE IapProgramAgain
  BY <1>13 DEF IapProgramAgain, TypeInv, TypeOK, Shape, Latched, IapPCs, PCs, persistent, writing, iap, counts
<1>14. CASE IapSucceed
  <2>1. meta # Torn /\ meta \in MetaRecord
    BY <1>14, ReadType DEF IapSucceed, TypeInv, TypeOK, Shape, IapPCs
  <2>2. SetProgrammed(meta) \in MetaRecord /\ "finish" \in PCs
    BY <2>1, SetProgrammedType DEF PCs
  <2>3. QED
    BY <1>0, <1>14, <2>1, <2>2, StartWriteType DEF IapSucceed, StartsBound, TypeInv, TypeOK, Shape, Latched, IapPCs, PCs, persistent, writing, iap, counts
<1>15. CASE FinishAndReset
  BY <1>0, <1>15, LoseRamType DEF FinishAndReset, TypeInv, TypeOK, Shape, IapPCs,
        persistent, counts
<1>16. CASE AppConfirm
  <2>1. /\ ConfirmBootOk(meta) \in MetaRecord /\ "promote" \in PCs
        /\ ConfirmBootOk(meta).state = "IDLE"
    BY <1>0, ConfirmType DEF TypeOK, PCs
  <2>2. QED
    BY <1>0, <1>16, <2>1, StartWriteType DEF AppConfirm, StartsBound, TypeInv, TypeOK, Shape, Latched, IapPCs, PCs, persistent, writing, iap, counts
<1>17. CASE AppPromote
  <2>1. CASE CanPromote(meta)
    <3>1. Promote(meta) \in MetaRecord /\ "commit" \in PCs
      BY <1>0, <2>1, ReadType, PromoteType DEF CanPromote, TypeOK, PCs
    <3>2. QED
      BY <1>0, <1>17, <2>1, <3>1, StartWriteType DEF AppPromote, TypeInv, TypeOK, Shape, Latched, IapPCs, PCs, persistent, writing, iap, counts
  <2>2. CASE ~CanPromote(meta)
    BY <1>17, <2>2 DEF AppPromote, TypeInv, TypeOK, Shape, Latched, IapPCs, PCs, persistent, writing, iap, counts
  <2>3. QED BY <2>1, <2>2
<1>18. CASE CommitStart
  BY <1>18, WindowAssumption DEF CommitStart, TypeInv, TypeOK, Shape, Latched, IapPCs, PCs, persistent, writing, iap, counts
<1>19. CASE CommitEraseSector
  <2>1. nor' \in [NorIndex -> Contents]
    BY <1>0, <1>19 DEF CommitEraseSector, NorWrite, TypeOK, Contents
  <2>2. QED
    BY <1>19, <2>1 DEF CommitEraseSector, TypeInv, TypeOK, Shape, Latched, IapPCs, PCs, persistent, writing, iap, counts
<1>20. CASE CommitCopySector
  <2>1. NorRead(CandFirst + k) \in Contents
    BY <1>0 DEF NorRead, TypeOK, Contents
  <2>2. /\ nor' \in [NorIndex -> Contents]
        /\ glitches' \in 0 .. MaxGlitches
    <3>1. PICK d \in ReadOutcomes(NorRead(CandFirst + k)) :
             /\ CountGlitch(NorRead(CandFirst + k), d)
             /\ NorWrite(GoodFirst + k,
                         IF NorRead(GoodFirst + k) = Blank THEN d ELSE Garbage)
      BY <1>20 DEF CommitCopySector
    <3>2. d \in Contents /\ Garbage \in Contents
      BY <2>1 DEF ReadOutcomes, Contents
    <3>3. QED
      BY <1>0, <3>1, <3>2 DEF NorWrite, CountGlitch, ReadOutcomes, TypeOK
  <2>3. QED
    BY <1>20, <2>2, WindowAssumption DEF CommitCopySector, TypeInv, TypeOK, Shape, Latched, IapPCs, PCs, persistent, writing, iap, counts
<1>21. CASE CommitWipeSector
  <2>1. nor' \in [NorIndex -> Contents]
    BY <1>0, <1>21 DEF CommitWipeSector, NorWrite, TypeOK, Contents
  <2>2. QED
    BY <1>21, <2>1 DEF CommitWipeSector, TypeInv, TypeOK, Shape, Latched, IapPCs, PCs, persistent, writing, iap, counts
<1>22. CASE CommitAbort
  BY <1>22 DEF CommitAbort, TypeInv, TypeOK, Shape, Latched, IapPCs, PCs, persistent, writing, iap, counts
<1>23. ASSUME NEW v \in Images, AppStage(v) PROVE TypeInv'
  <2>1. nor' \in [NorIndex -> Contents]
    <3>1. ASSUME NEW a \in NorIndex, a \in (CandFirst - 1) .. (CandLast - 1),
                 a - CandFirst + 2 <= Len[v]
          PROVE  Block(v, a - CandFirst + 2) \in Contents
      BY <3>1, WindowAssumption, ImageAssumption DEF Block, Contents, NorIndex
    <3>2. QED
      BY <1>0, <1>23, <3>1 DEF AppStage, TypeOK, Contents
  <2>2. QED
    BY <1>23, <2>1 DEF AppStage, TypeInv, TypeOK, Shape, Latched, IapPCs, PCs, persistent, writing, iap, counts
<1>24. ASSUME NEW v \in Images, AppApply(v) PROVE TypeInv'
  <2>1. BeginUpdate(meta, "CANDIDATE", v) \in MetaRecord /\ "iap" \in PCs
    BY <1>0, BeginUpdateType DEF Slots, Descriptors, PCs, TypeOK
  <2>2. Latched(buf)'
    BY <1>0, <1>24, BeginUpdateType
       DEF AppApply, StartMetaWrite, Latched, Slots, Descriptors, TypeOK
  <2>3. QED
    BY <1>0, <1>24, <2>1, <2>2, StartWriteType
       DEF AppApply, Slots, Descriptors, TypeInv, TypeOK, Shape, IapPCs, counts
<1>25. CASE Reboot
  BY <1>0, <1>25, LoseRamType DEF Reboot, TypeInv, TypeOK, Shape, IapPCs,
        persistent, counts
<1>26. CASE PowerLoss
  <2>1. app' \in [AppIndex -> Contents] /\ nor' \in [NorIndex -> Contents]
    BY <1>0, <1>26 DEF PowerLoss, NorWrite, TypeOK, Contents
  <2>2. QED
    BY <1>0, <1>26, <2>1, LoseRamType DEF PowerLoss, TypeInv, TypeOK, Shape, IapPCs
<1>27. CASE UNCHANGED vars
  BY <1>27 DEF vars, TypeInv, TypeOK, Shape, Latched, IapPCs, PCs, persistent, writing, iap, counts
<1>28. QED
  BY <1>1, <1>2, <1>3, <1>4, <1>5, <1>6, <1>7, <1>8, <1>9, <1>10, <1>11, <1>12,
     <1>13, <1>14, <1>15, <1>16, <1>17, <1>18, <1>19, <1>20, <1>21, <1>22, <1>23,
     <1>24, <1>25, <1>26, <1>27 DEF Next, Execute, Stub, Iap, Commit

\* Every reachable state has the types, and in every state in which the IAP runs
\* the meta page is valid and says so.
THEOREM TypeCorrect == Spec => []TypeOK
<1>1. TypeInv => TypeOK
  BY DEF TypeInv
<1>2. QED BY <1>1, InitTypeInv, NextTypeInv, PTL DEF Spec

-----------------------------------------------------------------------------
(* The meta page tells the truth.                                           *)

\* What the application area holds depends on app alone.
LEMMA AppFrame ==
    ASSUME app' = app
    PROVE  /\ AppIntact' <=> AppIntact
           /\ \A v : AppHolds(v)' <=> AppHolds(v)
BY DEF AppIntact, AppHolds

\* A write of a truthful record keeps the page truthful.
LEMMA WriteTruth ==
    ASSUME app' = app, NEW m, NEW next, Truthful(m), StartMetaWrite(m, next)
    PROVE  Truth'
<1>1. meta' = Torn /\ buf' = m /\ pc' = "metaProgram"
  BY DEF StartMetaWrite
<1>2. Truthful(buf)'
  BY <1>1 DEF Truthful, AppIntact, AppHolds
<1>3. QED BY <1>1, <1>2 DEF Truth

\* A step that touches neither the page nor the application keeps it truthful.
LEMMA QuietTruth ==
    ASSUME Truth, app' = app, meta' = meta, pc' # "metaProgram",
           pass' = 1 => pc' \notin {"stream", "verify"}
    PROVE  Truth'
<1>1. meta # Torn => Truthful(meta)'
  BY DEF Truth, Truthful, AppIntact, AppHolds
<1>2. QED BY <1>1 DEF Truth

LEMMA InitTruth == Init => Truth
<1> SUFFICES ASSUME Init PROVE Truth
  OBVIOUS
<1>1. PICK v \in Healthy :
         /\ app = [j \in AppIndex |-> IF j <= Len[v] THEN Block(v, j) ELSE Blank]
         /\ \/ meta = Torn
            \/ meta = [ZeroRecord EXCEPT !.ok = TRUE, !.good = v]
  BY DEF Init
<1>2. v \in Images /\ Len[v] \in 1 .. AppBlocks /\ AppBlocks \in Nat
  BY <1>1, ImageAssumption
<1>3. \A j \in 1 .. Len[v] : j \in AppIndex /\ j <= Len[v]
  BY <1>2 DEF AppIndex
<1>4. AppIntact
  BY <1>1, <1>2, <1>3 DEF AppIntact, AppHolds
<1>5. meta # Torn => meta.state = "IDLE"
  BY <1>1 DEF ZeroRecord
<1>6. QED BY <1>4, <1>5 DEF Init, Truth, Truthful

\* In pass 1 the application area is what has been streamed so far.
LEMMA StreamTruth ==
    ASSUME MaxFaults = 0, TypeInv, Truth, IapStreamBlock
    PROVE  Truth'
<1>1. /\ image \in Images /\ Len[image] \in 1 .. AppBlocks /\ AppBlocks \in Nat
      /\ k \in 1 .. Len[image] /\ k \in AppIndex
      /\ meta.state = "UPDATING" /\ meta' = meta /\ pass' = pass /\ image' = image
  BY ImageAssumption
     DEF IapStreamBlock, TypeInv, Shape, Latched, IapPCs, AppIndex
<1>2. CASE pass # 1
  <2>1. app' = app /\ pc' # "metaProgram"
    BY <1>2 DEF IapStreamBlock
  <2>2. QED BY <1>1, <1>2, <2>1, QuietTruth
<1>3. CASE pass = 1
  <2>1. PICK d, w : /\ stream' = [stream EXCEPT ![k] = d]
                    /\ app' = [app EXCEPT ![k] = w]
                    /\ w \in ProgramOutcomes(d)
    BY <1>3 DEF IapStreamBlock
  <2>2. w = d
    BY <2>1 DEF ProgramOutcomes, TypeInv, TypeOK
  <2>3. \A j \in 1 .. k : app'[j] = stream'[j]
    <3> SUFFICES ASSUME NEW j \in 1 .. k PROVE app'[j] = stream'[j]
      OBVIOUS
    <3>1. j \in AppIndex /\ (j # k => j \in 1 .. k - 1)
      BY <1>1 DEF AppIndex
    <3>2. CASE j = k
      BY <1>1, <2>1, <2>2, <3>2 DEF TypeInv, TypeOK
    <3>3. CASE j # k
      BY <1>3, <2>1, <3>1, <3>3 DEF IapStreamBlock, Truth, TypeInv, TypeOK
    <3>4. QED BY <3>2, <3>3
  <2>4. /\ pc' = "stream" => k' - 1 = k
        /\ pc' = "verify" => Len[image] = k
        /\ pc' # "metaProgram"
    BY <1>1 DEF IapStreamBlock
  <2>5. QED BY <1>1, <2>3, <2>4 DEF Truth, Truthful
<1>4. QED BY <1>2, <1>3

LEMMA NextTruth == MaxFaults = 0 /\ TypeInv /\ Truth /\ [Next]_vars => Truth'
<1> SUFFICES ASSUME MaxFaults = 0, TypeInv, Truth, [Next]_vars PROVE Truth'
  OBVIOUS
<1>0. /\ TypeOK
      /\ meta \in MetaPage /\ slot \in Slots
      /\ meta # Torn => meta \in MetaRecord
  BY ReadType DEF TypeInv, TypeOK
<1>1. CASE MetaProgram
  <2>1. Truthful(meta)'
    BY <1>1 DEF MetaProgram, Truth, Truthful, AppIntact, AppHolds
  <2>2. pc' \notin {"metaProgram", "stream", "verify"}
    BY <1>1 DEF MetaProgram, TypeInv, Shape
  <2>3. QED BY <2>1, <2>2 DEF Truth
<1>2. CASE StubOnReset
  <2>1. CASE CountsAttempt(meta, AppLooksValid)
    <3>1. meta \in MetaRecord /\ meta # Torn /\ meta.attempts < MaxAttempts
      BY <1>0, <2>1 DEF CountsAttempt, AwaitingBootOk
    <3>2. Descriptor(CountAttempt(meta), CountAttempt(meta).active)
             = Descriptor(meta, meta.active)
      BY <3>1, CountAttemptType DEF MetaRecord
    <3>3. Truthful(CountAttempt(meta))
      BY <3>1, <3>2, CountAttemptType DEF Truth, Truthful
    <3>4. QED BY <1>2, <2>1, <3>3, WriteTruth DEF StubOnReset
  <2>2. CASE ~CountsAttempt(meta, AppLooksValid)
    BY <1>2, <2>2, QuietTruth DEF StubOnReset
  <2>3. QED BY <2>1, <2>2
<1>3. CASE StubRestoreGood
  <2>1. meta.good \in Descriptors
    BY <1>0, <1>3 DEF StubRestoreGood, MustRestore, CanRestoreGood, LocalRecord,
          MetaRecord
  <2>2. Truthful(BeginUpdate(meta, "GOOD", meta.good))
    BY <1>0, <2>1, BeginUpdateType DEF Truthful, Slots
  <2>3. QED BY <1>3, <2>2, WriteTruth DEF StubRestoreGood
<1>4. CASE StubJumpToApp \/ StubHang
  BY <1>4, QuietTruth DEF StubJumpToApp, StubHang, persistent
<1>5. CASE IapStartPass
  BY <1>5, QuietTruth DEF IapStartPass, persistent
<1>6. CASE IapEraseBlock
  <2>1. meta.state = "UPDATING" /\ meta' = meta
    BY <1>6 DEF IapEraseBlock, TypeInv, Shape, Latched, IapPCs
  <2>2. pc' \in {"erase", "stream"} /\ (pc' = "stream" => k' = 1)
    BY <1>6 DEF IapEraseBlock
  <2>3. QED BY <2>1, <2>2 DEF Truth, Truthful
<1>7. CASE IapStreamBlock
  BY <1>7, StreamTruth
<1>8. CASE IapNodeMissing \/ IapReject
  <2>1. Truthful(SetFail(meta))
    BY <1>0, SetFailType DEF Truthful
  <2>2. QED BY <1>8, <2>1, WriteTruth DEF IapNodeMissing, IapReject
<1>9. CASE IapAccept \/ IapSecondChance \/ IapProgramAgain
  BY <1>9, QuietTruth DEF IapAccept, IapSecondChance, IapProgramAgain, persistent
<1>10. CASE IapSucceed
  <2>1. /\ meta \in MetaRecord /\ meta # Torn /\ meta.active = slot
        /\ image \in Images
    BY <1>0, <1>10 DEF IapSucceed, TypeInv, Shape, Latched, IapPCs
  <2>2. AppHolds(Descriptor(meta, slot))
    BY <1>10, <2>1 DEF IapSucceed, CrcMatches, ExpectedImage, Truth, AppHolds
  <2>3. Descriptor(SetProgrammed(meta), SetProgrammed(meta).active)
           = Descriptor(meta, slot)
    BY <1>0, <2>1, SetProgrammedType
  <2>4. Truthful(SetProgrammed(meta))
    BY <2>1, <2>2, <2>3, SetProgrammedType DEF Truthful
  <2>5. QED BY <1>10, <2>1, <2>4, WriteTruth DEF IapSucceed
<1>11. CASE FinishAndReset \/ Reboot
  BY <1>11, QuietTruth DEF FinishAndReset, Reboot, LoseRam, persistent
<1>12. CASE AppConfirm
  <2>1. AppIntact
    BY <1>12, ImageAssumption DEF AppConfirm, AppIsHealthy, AppIntact
  <2>2. Truthful(ConfirmBootOk(meta))
    BY <1>0, <2>1, ConfirmType DEF Truthful
  <2>3. QED BY <1>12, <2>2, WriteTruth DEF AppConfirm
<1>13. CASE AppPromote
  <2>1. CASE CanPromote(meta)
    <3>1. meta \in MetaRecord /\ meta.state = "IDLE" /\ AppIntact
      BY <1>0, <1>13, <2>1 DEF AppPromote, CanPromote, TypeInv, Shape, Truth, Truthful
    <3>2. Truthful(Promote(meta))
      BY <3>1, PromoteType DEF Truthful
    <3>3. QED BY <1>13, <2>1, <3>2, WriteTruth DEF AppPromote
  <2>2. CASE ~CanPromote(meta)
    BY <1>13, <2>2, QuietTruth DEF AppPromote
  <2>3. QED BY <2>1, <2>2
<1>14. CASE Commit \/ CommitAbort
  BY <1>14, QuietTruth DEF Commit, CommitStart, CommitEraseSector, CommitCopySector,
        CommitWipeSector, CommitAbort, persistent
<1>15. ASSUME NEW v \in Images, AppStage(v) PROVE Truth'
  <2>1. pc' = "running" /\ app' = app /\ meta' = meta
    BY <1>15 DEF AppStage
  <2>2. QED BY <2>1, QuietTruth
<1>16. ASSUME NEW v \in Images, AppApply(v) PROVE Truth'
  <2>1. Truthful(BeginUpdate(meta, "CANDIDATE", v))
    BY <1>0, BeginUpdateType DEF Truthful, Slots, Descriptors
  <2>2. QED BY <1>16, <2>1, WriteTruth DEF AppApply
<1>17. CASE PowerLoss
  <2>1. pc' = "reset" /\ meta' = meta /\ pass' = 0
    BY <1>17 DEF PowerLoss, LoseRam
  <2>2. CASE app' = app
    BY <2>1, <2>2, QuietTruth
  <2>3. CASE pc \in {"erase", "stream"}
    <3>1. meta.state = "UPDATING"
      BY <2>3 DEF TypeInv, Shape, Latched, IapPCs
    <3>2. QED BY <2>1, <3>1 DEF Truth, Truthful
  <2>4. QED BY <1>17, <2>2, <2>3 DEF PowerLoss
<1>18. CASE UNCHANGED vars
  <2>1. /\ meta' = meta /\ app' = app /\ buf' = buf /\ pc' = pc /\ pass' = pass
        /\ stream' = stream /\ k' = k /\ image' = image
    BY <1>18 DEF vars, persistent, writing, iap, counts
  <2>2. QED BY <2>1 DEF Truth, Truthful, AppIntact, AppHolds
<1>19. QED
  BY <1>1, <1>2, <1>3, <1>4, <1>5, <1>6, <1>7, <1>8, <1>9, <1>10, <1>11, <1>12,
     <1>13, <1>14, <1>15, <1>16, <1>17, <1>18 DEF Next, Execute, Stub, Iap

\* If internal flash programs what it is given, a valid meta page never lies:
\* after BOOT_OK the application is complete, and once PROGRAMMED is latched it
\* is the image of the active slot (boot_core.c, boot_meta.c).
THEOREM MetaIsTruthful ==
    ASSUME MaxFaults = 0
    PROVE  Spec => []MetaTellsTruth
<1>1. Init => TypeInv /\ Truth
  BY InitTypeInv, InitTruth
<1>2. (TypeInv /\ Truth) /\ [Next]_vars => (TypeInv /\ Truth)'
  BY MaxFaults = 0, NextTypeInv, NextTruth
<1>3. TypeInv /\ Truth => MetaTellsTruth
  BY DEF Truth, Truthful, MetaTellsTruth
<1>4. QED BY <1>1, <1>2, <1>3, PTL DEF Spec

-----------------------------------------------------------------------------
(* The application area is erased only for a verified image.                *)

LEMMA InitVerified == Init => Verified
BY DEF Init, Verified, IapPCs

\* Outside the IAP the invariant asks only that a restart begins with pass 0.
LEMMA OutsideIap ==
    ASSUME pc' \notin IapPCs, pc' = "metaProgram" /\ ret' = "iap" => pass' = 0
    PROVE  Verified'
BY DEF Verified, IapPCs

\* Within the IAP nothing writes to the SPI chip.
LEMMA SameWindow ==
    ASSUME nor' = nor, slot' = slot, image' = image, WindowHolds(slot, image)
    PROVE  WindowHolds(slot, image)'
BY DEF WindowHolds

\* Each block read joins those that agree with the window.
LEMMA StreamVerified ==
    ASSUME TypeInv, Verified, IapStreamBlock
    PROVE  Verified'
<1>1. /\ image \in Images /\ Len[image] \in 1 .. AppBlocks /\ AppBlocks \in Nat
      /\ k \in 1 .. Len[image] /\ k \in AppIndex
      /\ nor' = nor /\ slot' = slot /\ image' = image /\ pass' = pass
      /\ pc = "stream" /\ pc' \in {"stream", "verify"}
  BY ImageAssumption
     DEF IapStreamBlock, TypeInv, Shape, Latched, IapPCs, AppIndex
<1>2. \A j \in 1 .. k : Streamed(j)'
  <2>1. PICK d : /\ stream' = [stream EXCEPT ![k] = d]
                 /\ d \in {nor[FirstSector(slot) + k - 2], Blank, Garbage}
    BY DEF IapStreamBlock, ReadOutcomes
  <2> SUFFICES ASSUME NEW j \in 1 .. k PROVE Streamed(j)'
    OBVIOUS
  <2>2. j \in AppIndex /\ (j # k => j \in 1 .. k - 1)
    BY <1>1 DEF AppIndex
  <2>3. CASE j = k
    <3>1. stream'[j] \in {nor[FirstSector(slot) + j - 2], Blank, Garbage}
      BY <1>1, <2>1, <2>3 DEF TypeInv, TypeOK
    <3>2. NodeExists(slot, j)
      BY <2>3 DEF IapStreamBlock
    <3>3. QED BY <1>1, <3>1, <3>2 DEF Streamed, NodeExists
  <2>4. CASE j # k
    <3>1. Streamed(j)
      BY <1>1, <2>2, <2>4 DEF Verified
    <3>2. stream'[j] = stream[j]
      BY <1>1, <2>1, <2>2, <2>4 DEF TypeInv, TypeOK
    <3>3. QED BY <1>1, <3>1, <3>2 DEF Streamed, NodeExists
  <2>5. QED BY <2>3, <2>4
<1>3. /\ pc' = "stream" => k' - 1 = k
      /\ pc' = "verify" => Len[image] = k
  BY <1>1 DEF IapStreamBlock
<1>4. pass' = 1 => WindowHolds(slot, image)'
  BY <1>1, SameWindow DEF Verified, IapPCs
<1>5. QED BY <1>1, <1>2, <1>3, <1>4 DEF Verified

\* A matching CRC in pass 0 means that the window holds the image.
LEMMA AcceptVerified ==
    ASSUME TypeInv, Verified, IapAccept
    PROVE  Verified'
<1>1. /\ image \in Images /\ Len[image] \in 1 .. AppBlocks /\ AppBlocks \in Nat
      /\ meta # Torn /\ image = Descriptor(meta, slot)
      /\ pc = "verify" /\ pc' = "iap"
      /\ nor' = nor /\ slot' = slot /\ image' = image
  BY ImageAssumption
     DEF IapAccept, TypeInv, Shape, Latched, IapPCs, persistent
<1>2. \A j \in 1 .. Len[image] : stream[j] = Block(image, j) /\ Streamed(j)
  BY <1>1 DEF IapAccept, CrcMatches, ExpectedImage, Verified
<1>3. \A j \in 1 .. Len[image] : nor[FirstSector(slot) + j - 2] = Block(image, j)
  <2> SUFFICES ASSUME NEW j \in 1 .. Len[image]
               PROVE  nor[FirstSector(slot) + j - 2] = Block(image, j)
    OBVIOUS
  <2>1. Block(image, j) \notin {Blank, Garbage}
    BY <1>1, BlockIsNotFiller
  <2>2. QED BY <1>2, <2>1 DEF Streamed
<1>4. FirstSector(slot) + Len[image] - 1 <= LastSector(slot)
  <2>1. NodeExists(slot, Len[image])
    BY <1>1, <1>2 DEF Streamed
  <2>2. QED BY <2>1 DEF NodeExists
<1>5. WindowHolds(slot, image)
  BY <1>1, <1>3, <1>4 DEF WindowHolds
<1>6. QED BY <1>1, <1>5, SameWindow DEF Verified

LEMMA NextVerified == TypeInv /\ Verified /\ [Next]_vars => Verified'
<1> SUFFICES ASSUME TypeInv, Verified, [Next]_vars PROVE Verified'
  OBVIOUS
<1>1. CASE MetaProgram
  <2>1. pc' = "iap" => pass' = 0
    BY <1>1 DEF MetaProgram, Verified, iap
  <2>2. pc' \in {"counted", "iap", "finish", "promote", "commit"}
    BY <1>1 DEF MetaProgram, TypeInv, Shape
  <2>3. QED BY <2>1, <2>2 DEF Verified, IapPCs
<1>2. CASE Stub
  BY <1>2, OutsideIap DEF Stub, StubOnReset, StubRestoreGood, StubJumpToApp, StubHang,
        StartMetaWrite, IapPCs
<1>3. CASE IapStartPass
  <2>1. /\ nor' = nor /\ slot' = slot /\ image' = image /\ pass' = pass
        /\ k' = 1 /\ pc = "iap" /\ pc' \in {"erase", "stream"}
    BY <1>3 DEF IapStartPass, persistent
  <2>2. pass' = 1 => WindowHolds(slot, image)'
    BY <2>1, SameWindow DEF Verified, IapPCs
  <2>3. QED BY <2>1, <2>2 DEF Verified
<1>4. CASE IapEraseBlock
  <2>1. /\ nor' = nor /\ slot' = slot /\ image' = image /\ pass' = pass
        /\ pc = "erase" /\ pc' \in {"erase", "stream"} /\ (pc' = "stream" => k' = 1)
    BY <1>4 DEF IapEraseBlock, iap
  <2>2. pass' = 1 => WindowHolds(slot, image)'
    BY <2>1, SameWindow DEF Verified, IapPCs
  <2>3. QED BY <2>1, <2>2 DEF Verified
<1>5. CASE IapStreamBlock
  BY <1>5, StreamVerified
<1>6. CASE IapAccept
  BY <1>6, AcceptVerified
<1>7. CASE IapSecondChance \/ IapProgramAgain
  <2>1. /\ nor' = nor /\ slot' = slot /\ image' = image /\ pass' = pass
        /\ pc = "verify" /\ pc' = "iap"
    BY <1>7 DEF IapSecondChance, IapProgramAgain, persistent, iap
  <2>2. pass' = 1 => WindowHolds(slot, image)'
    BY <2>1, SameWindow DEF Verified, IapPCs
  <2>3. QED BY <2>1, <2>2 DEF Verified
<1>8. CASE IapNodeMissing \/ IapReject
  BY <1>8, OutsideIap DEF IapNodeMissing, IapReject, StartMetaWrite, IapPCs
<1>9. CASE IapSucceed
  <2>1. pc' \notin IapPCs /\ (pc' = "metaProgram" => ret' = "finish")
    BY <1>9 DEF IapSucceed, StartMetaWrite, IapPCs
  <2>2. QED BY <2>1, OutsideIap
<1>10. CASE FinishAndReset \/ Reboot \/ PowerLoss
  BY <1>10, OutsideIap DEF FinishAndReset, Reboot, PowerLoss, LoseRam, IapPCs
<1>11. CASE AppConfirm \/ AppPromote
  <2>1. pc' \notin IapPCs /\ (pc' = "metaProgram" => ret' # "iap")
    BY <1>11 DEF AppConfirm, AppPromote, StartMetaWrite, IapPCs
  <2>2. QED BY <2>1, OutsideIap
<1>12. CASE Commit \/ CommitAbort
  BY <1>12, OutsideIap DEF Commit, CommitStart, CommitEraseSector, CommitCopySector,
        CommitWipeSector, CommitAbort, IapPCs
<1>13. ASSUME NEW v \in Images, AppStage(v) \/ AppApply(v) PROVE Verified'
  BY <1>13, OutsideIap DEF AppStage, AppApply, StartMetaWrite, IapPCs
<1>14. CASE UNCHANGED vars
  BY <1>14 DEF vars, persistent, writing, iap, counts, Verified, Streamed, NodeExists,
        WindowHolds
<1>15. QED
  BY <1>1, <1>2, <1>3, <1>4, <1>5, <1>6, <1>7, <1>8, <1>9, <1>10, <1>11, <1>12,
     <1>13, <1>14 DEF Next, Execute, Iap

\* Only the erase and the second pass touch the application area.
LEMMA OnlyPassOneWrites ==
    ASSUME TypeInv, [Next]_vars, app' # app
    PROVE  pc \in IapPCs /\ pass = 1
<1>1. CASE IapEraseBlock
  BY <1>1 DEF IapEraseBlock, TypeInv, Shape, IapPCs
<1>2. CASE IapStreamBlock
  BY <1>2 DEF IapStreamBlock, IapPCs
<1>3. CASE PowerLoss
  BY <1>3 DEF PowerLoss, IapPCs
<1>4. CASE Stub \/ MetaProgram \/ AppConfirm \/ AppPromote
  BY <1>4 DEF Stub, StubOnReset, StubRestoreGood, StubJumpToApp, StubHang, MetaProgram,
        AppConfirm, AppPromote, persistent
<1>5. CASE IapStartPass \/ IapNodeMissing \/ IapAccept \/ IapSecondChance
           \/ IapReject \/ IapProgramAgain \/ IapSucceed \/ FinishAndReset
  BY <1>5 DEF IapStartPass, IapNodeMissing, IapAccept, IapSecondChance, IapReject,
        IapProgramAgain, IapSucceed, FinishAndReset, persistent
<1>6. CASE Commit \/ CommitAbort
  BY <1>6 DEF Commit, CommitStart, CommitEraseSector, CommitCopySector,
        CommitWipeSector, CommitAbort, persistent
<1>7. CASE Reboot \/ \E v \in Images : AppStage(v) \/ AppApply(v)
  BY <1>7 DEF Reboot, AppStage, AppApply, persistent
<1>8. CASE UNCHANGED vars
  BY <1>8 DEF vars, persistent
<1>9. QED
  BY <1>1, <1>2, <1>3, <1>4, <1>5, <1>6, <1>7, <1>8 DEF Next, Execute, Iap

\* Whatever fails and however often, the application area changes only while the
\* latch says UPDATING for a slot whose window holds exactly its image
\* (boot_core.c: pass 0 before pass 1; boot_meta_begin_update before both).
THEOREM EraseIsVerified == Spec => EraseOnlyForVerifiedImage
<1>1. Init => TypeInv /\ Verified
  BY InitTypeInv, InitVerified
<1>2. (TypeInv /\ Verified) /\ [Next]_vars => (TypeInv /\ Verified)'
  BY NextTypeInv, NextVerified
<1>3. (TypeInv /\ Verified) /\ [Next]_vars
         => [app' # app =>
                /\ meta # Torn
                /\ meta.state = "UPDATING" /\ meta.active = slot
                /\ WindowHolds(slot, Descriptor(meta, slot))]_vars
  <2> SUFFICES ASSUME TypeInv, Verified, [Next]_vars, app' # app
               PROVE  /\ meta # Torn
                      /\ meta.state = "UPDATING" /\ meta.active = slot
                      /\ WindowHolds(slot, Descriptor(meta, slot))
    OBVIOUS
  <2>1. pc \in IapPCs /\ pass = 1
    BY OnlyPassOneWrites
  <2>2. meta # Torn /\ Latched(meta)
    BY <2>1 DEF TypeInv, Shape
  <2>3. WindowHolds(slot, image)
    BY <2>1 DEF Verified
  <2>4. QED BY <2>2, <2>3 DEF Latched
<1>4. QED BY <1>1, <1>2, <1>3, PTL DEF Spec, EraseOnlyForVerifiedImage

-----------------------------------------------------------------------------
(* At most three trials.                                                    *)

\* The record m has counted every start of the program it awaits.
Tried(m) == AwaitingBootOk(m) /\ m.good # NoImage => starts <= m.attempts

\* It has also counted the start that comes next.
Counted(m) ==
    /\ AwaitingBootOk(m)
    /\ AppLooksValid
    /\ m.good # NoImage => starts < m.attempts

Trials ==
    /\ Tried(meta)
    /\ pc = "metaProgram" => Tried(buf)
    /\ pc = "metaProgram" /\ ret = "counted" => Counted(buf)
    /\ pc = "counted" => Counted(meta)
    /\ pc = "decide" /\ AwaitingBootOk(meta) /\ AppLooksValid
          => meta.attempts = MaxAttempts

LEMMA InitTrials == Init => Trials
BY DEF Init, Trials, Tried, AwaitingBootOk, ZeroRecord

\* A step elsewhere that starts nothing keeps the count.
LEMMA QuietTrials ==
    ASSUME TypeOK, Trials, meta' = meta, starts' = starts \/ starts' = 0,
           pc' \notin {"metaProgram", "decide", "counted"}
    PROVE  Trials'
<1>1. meta # Torn => meta \in MetaRecord /\ meta.attempts \in Nat
  BY ReadType DEF TypeOK, MetaRecord, MaxAttempts
<1>2. starts \in Nat /\ starts' <= starts
  BY DEF TypeOK, StartsBound
<1>3. QED BY <1>1, <1>2 DEF Trials, Tried, AwaitingBootOk

\* A write of a record that awaits nothing is no trial.
LEMMA WriteTrials ==
    ASSUME NEW m, NEW next, ~AwaitingBootOk(m), StartMetaWrite(m, next),
           next # "counted"
    PROVE  Trials'
BY DEF StartMetaWrite, Trials, Tried, AwaitingBootOk

LEMMA NextTrials == TypeInv /\ Trials /\ [Next]_vars => Trials'
<1> SUFFICES ASSUME TypeInv, Trials, [Next]_vars PROVE Trials'
  OBVIOUS
<1>0. /\ TypeOK /\ meta \in MetaPage
      /\ meta # Torn => meta \in MetaRecord /\ meta.attempts \in 0 .. MaxAttempts
      /\ buf \in MetaRecord /\ buf.attempts \in 0 .. MaxAttempts
      /\ starts \in 0 .. StartsBound
  BY ReadType DEF TypeInv, TypeOK, MetaRecord, StartsBound, MaxAttempts
<1>1. CASE MetaProgram
  <2>1. /\ meta' = buf /\ starts' = starts /\ app' = app /\ pc' = ret
        /\ pc = "metaProgram" /\ pc' \notin {"metaProgram", "decide"}
    BY <1>1 DEF MetaProgram, TypeInv, Shape
  <2>2. AppLooksValid' <=> AppLooksValid
    BY <2>1 DEF AppLooksValid
  <2>3. QED BY <2>1, <2>2 DEF Trials, Tried, Counted, AwaitingBootOk
<1>2. CASE StubOnReset
  <2>1. starts' = starts /\ (AppLooksValid' <=> AppLooksValid)
    BY <1>2 DEF StubOnReset, AppLooksValid
  <2>2. CASE CountsAttempt(meta, AppLooksValid)
    <3> DEFINE m == CountAttempt(meta)
    <3>1. /\ meta \in MetaRecord /\ meta.attempts \in 0 .. MaxAttempts
          /\ AwaitingBootOk(meta) /\ AppLooksValid
          /\ meta.good # NoImage => starts <= meta.attempts
      BY <1>0, <2>2 DEF CountsAttempt, AwaitingBootOk, Trials, Tried
    <3>2. /\ m.attempts = meta.attempts + 1 /\ m.good = meta.good
          /\ m.state = meta.state /\ m.ok = meta.ok
      BY <3>1 DEF CountAttempt, MetaRecord
    <3>3. AwaitingBootOk(m)
      BY <2>2, <3>1, <3>2, CountAttemptType, TornAssumption
         DEF CountsAttempt, AwaitingBootOk
    <3>4. m.good # NoImage => starts < m.attempts /\ starts <= m.attempts
      BY <1>0, <3>1, <3>2 DEF MaxAttempts, StartsBound
    <3>5. meta' = Torn /\ buf' = m /\ pc' = "metaProgram"
      BY <1>2, <2>2 DEF StubOnReset, StartMetaWrite
    <3> HIDE DEF m
    <3>6. QED
      BY <2>1, <3>1, <3>3, <3>4, <3>5 DEF Trials, Tried, Counted, AwaitingBootOk
  <2>3. CASE ~CountsAttempt(meta, AppLooksValid)
    <3>1. meta' = meta /\ pc' = "decide"
      BY <1>2, <2>3 DEF StubOnReset
    <3>2. AwaitingBootOk(meta) /\ AppLooksValid => meta.attempts = MaxAttempts
      BY <1>0, <2>3 DEF CountsAttempt, AwaitingBootOk, MaxAttempts
    <3>3. QED BY <2>1, <3>1, <3>2 DEF Trials, Tried, AwaitingBootOk
  <2>4. QED BY <2>2, <2>3
<1>3. CASE StubRestoreGood
  <2>1. meta.good \in Descriptors
    BY <1>0, <1>3 DEF StubRestoreGood, MustRestore, CanRestoreGood, LocalRecord,
          MetaRecord
  <2>2. ~AwaitingBootOk(BeginUpdate(meta, "GOOD", meta.good))
    BY <1>0, <2>1, BeginUpdateType DEF AwaitingBootOk, Slots
  <2>3. QED BY <1>3, <2>2, WriteTrials DEF StubRestoreGood
<1>4. CASE StubJumpToApp
  <2>1. /\ meta' = meta /\ pc' = "app" /\ pc \in {"decide", "counted"}
        /\ starts' \in {starts, starts + 1} /\ AppLooksValid /\ ~MustRestore
    BY <1>4 DEF StubJumpToApp, persistent
  <2>2. ASSUME AwaitingBootOk(meta), meta.good # NoImage
        PROVE  starts < meta.attempts
    <3>1. CASE pc = "decide"
      BY <1>0, <2>1, <2>2, <3>1 DEF Trials, MustRestore, LocalRecord, ShouldRestoreGood,
            CanRestoreGood, AwaitingBootOk, MaxAttempts
    <3>2. CASE pc = "counted"
      BY <2>2, <3>2 DEF Trials, Counted
    <3>3. QED BY <2>1, <3>1, <3>2
  <2>3. ASSUME AwaitingBootOk(meta), meta.good # NoImage
        PROVE  starts' <= meta.attempts
    BY <1>0, <2>1, <2>2, <2>3 DEF AwaitingBootOk, MaxAttempts, StartsBound
  <2>4. QED BY <2>1, <2>3 DEF Trials, Tried, AwaitingBootOk
<1>5. CASE StubHang
  BY <1>0, <1>5, QuietTrials DEF StubHang, persistent
<1>6. CASE IapStartPass \/ IapEraseBlock \/ IapStreamBlock
           \/ IapAccept \/ IapSecondChance \/ IapProgramAgain
  BY <1>0, <1>6, QuietTrials DEF IapStartPass, IapEraseBlock, IapStreamBlock, IapAccept,
        IapSecondChance, IapProgramAgain, persistent
<1>7. CASE IapNodeMissing \/ IapReject
  <2>1. ~AwaitingBootOk(SetFail(meta))
    BY <1>0, SetFailType DEF AwaitingBootOk
  <2>2. QED BY <1>7, <2>1, WriteTrials DEF IapNodeMissing, IapReject
<1>8. CASE IapSucceed
  <2>1. meta \in MetaRecord /\ meta # Torn
    BY <1>0, <1>8 DEF IapSucceed, TypeInv, Shape, IapPCs
  <2>2. /\ meta' = Torn /\ buf' = SetProgrammed(meta) /\ ret' = "finish"
        /\ pc' = "metaProgram" /\ starts' = 0
    BY <1>8, <2>1 DEF IapSucceed, StartMetaWrite
  <2>3. SetProgrammed(meta).attempts = 0
    BY <2>1 DEF SetProgrammed, MetaRecord
  <2>4. QED BY <2>2, <2>3 DEF Trials, Tried, AwaitingBootOk
<1>9. CASE FinishAndReset \/ Reboot \/ PowerLoss
  BY <1>0, <1>9, QuietTrials DEF FinishAndReset, Reboot, PowerLoss, LoseRam, persistent
<1>10. CASE AppConfirm
  <2>1. ~AwaitingBootOk(ConfirmBootOk(meta))
    BY <1>0, ConfirmType DEF AwaitingBootOk
  <2>2. QED BY <1>10, <2>1, WriteTrials DEF AppConfirm
<1>11. CASE AppPromote
  <2>1. CASE CanPromote(meta)
    <3>1. meta \in MetaRecord /\ meta.state = "IDLE"
      BY <1>0, <1>11, <2>1 DEF AppPromote, CanPromote, TypeInv, Shape
    <3>2. ~AwaitingBootOk(Promote(meta))
      BY <3>1, PromoteType DEF AwaitingBootOk
    <3>3. QED BY <1>11, <2>1, <3>2, WriteTrials DEF AppPromote
  <2>2. CASE ~CanPromote(meta)
    BY <1>0, <1>11, <2>2, QuietTrials DEF AppPromote
  <2>3. QED BY <2>1, <2>2
<1>12. CASE Commit \/ CommitAbort
  BY <1>0, <1>12, QuietTrials DEF Commit, CommitStart, CommitEraseSector,
        CommitCopySector, CommitWipeSector, CommitAbort, persistent
<1>13. ASSUME NEW v \in Images, AppStage(v) PROVE Trials'
  BY <1>0, <1>13, QuietTrials DEF AppStage
<1>14. ASSUME NEW v \in Images, AppApply(v) PROVE Trials'
  <2>1. ~AwaitingBootOk(BeginUpdate(meta, "CANDIDATE", v))
    BY <1>0, BeginUpdateType DEF AwaitingBootOk, Slots, Descriptors
  <2>2. QED BY <1>14, <2>1, WriteTrials DEF AppApply
<1>15. CASE UNCHANGED vars
  <2>1. /\ meta' = meta /\ app' = app /\ pc' = pc /\ buf' = buf /\ ret' = ret
        /\ starts' = starts
    BY <1>15 DEF vars, persistent, writing
  <2>2. QED BY <2>1 DEF Trials, Tried, Counted, AppLooksValid
<1>16. QED
  BY <1>1, <1>2, <1>3, <1>4, <1>5, <1>6, <1>7, <1>8, <1>9, <1>10, <1>11, <1>12,
     <1>13, <1>14, <1>15 DEF Next, Execute, Stub, Iap

\* However resets, power losses and flash faults fall, the stub starts a program
\* that never confirms at most three times when there is a GOOD image to go back
\* to (boot_stub.c: the attempt is counted before the jump).
THEOREM ThreeTrialsOnly == Spec => []AtMostThreeTrials
<1>1. Init => TypeInv /\ Trials
  BY InitTypeInv, InitTrials
<1>2. (TypeInv /\ Trials) /\ [Next]_vars => (TypeInv /\ Trials)'
  BY NextTypeInv, NextTrials
<1>3. TypeInv /\ Trials => AtMostThreeTrials
  <2> SUFFICES ASSUME TypeInv, Trials, AwaitingBootOk(meta), meta.good # NoImage
               PROVE  starts <= 3
    BY DEF AtMostThreeTrials
  <2>1. meta.attempts \in 0 .. MaxAttempts /\ starts \in 0 .. StartsBound
    BY ReadType DEF AwaitingBootOk, TypeInv, TypeOK, MetaRecord
  <2>2. starts <= meta.attempts
    BY DEF Trials, Tried
  <2>3. QED BY <2>1, <2>2 DEF MaxAttempts, StartsBound
<1>4. QED BY <1>1, <1>2, <1>3, PTL DEF Spec

-----------------------------------------------------------------------------
(* What one power loss can do.                                                *)

\* The application area is complete, or the IAP is busy rewriting it.
Rewriting == pass = 1 /\ pc \in IapPCs

OneCrash ==
    /\ crashes = 0 => AppIntact \/ Rewriting
    /\ crashes = 1 => AppIntact \/ meta # Torn \/ pc = "metaProgram"
    /\ pc = "app" /\ CanRestoreGood(meta) => meta.state \notin {"UPDATING", "FAIL"}
    /\ pc = "hang" => ~AppLooksValid /\ ~CanRestoreGood(meta)

AllInv == TypeInv /\ Truth /\ Verified /\ Trials /\ OneCrash

LEMMA InitOneCrash == Init => OneCrash
<1> SUFFICES ASSUME Init PROVE OneCrash
  OBVIOUS
<1>1. PICK v \in Healthy :
         app = [j \in AppIndex |-> IF j <= Len[v] THEN Block(v, j) ELSE Blank]
  BY DEF Init
<1>2. v \in Images /\ Len[v] \in 1 .. AppBlocks /\ AppBlocks \in Nat
  BY <1>1, ImageAssumption
<1>3. \A j \in 1 .. Len[v] : j \in AppIndex /\ j <= Len[v]
  BY <1>2 DEF AppIndex
<1>4. AppIntact
  BY <1>1, <1>2, <1>3 DEF AppIntact, AppHolds
<1>5. QED BY <1>4 DEF Init, OneCrash

\* Steps outside pass 1 leave the application alone; those that keep the page,
\* or leave a valid one, keep the invariant.
LEMMA QuietOneCrash ==
    ASSUME OneCrash, app' = app, crashes' = crashes, ~Rewriting,
           (meta' = meta /\ pc # "metaProgram") \/ meta' # Torn \/ pc' = "metaProgram",
           pc' \notin {"app", "hang"}
    PROVE  OneCrash'
BY AppFrame DEF OneCrash, Rewriting

\* So do the steps of the IAP that end a rewrite or go on with it.
LEMMA IapOneCrash ==
    ASSUME OneCrash, crashes' = crashes, pc \in IapPCs, pc' \notin {"app", "hang"},
           meta' # Torn \/ pc' = "metaProgram",
           Rewriting' \/ AppIntact'
    PROVE  OneCrash'
BY DEF OneCrash

LEMMA NextOneCrash ==
    MaxFaults = 0 /\ AllInv /\ [Next]_vars => OneCrash'
<1> SUFFICES ASSUME MaxFaults = 0, AllInv, [Next]_vars PROVE OneCrash'
  OBVIOUS
<1>0. TypeInv /\ Truth /\ Verified /\ Trials /\ OneCrash /\ TypeOK
  BY DEF AllInv, TypeInv
<1>1. CASE MetaProgram
  <2>1. meta' # Torn
    BY <1>0, <1>1, TornAssumption DEF MetaProgram, TypeOK
  <2>2. /\ app' = app /\ crashes' = crashes
        /\ pc = "metaProgram" /\ pc' \notin {"app", "hang"}
    BY <1>0, <1>1 DEF MetaProgram, counts, TypeInv, Shape
  <2>3. QED BY <1>0, <2>1, <2>2, QuietOneCrash DEF Rewriting, IapPCs
<1>2. CASE StubOnReset \/ StubRestoreGood
  <2>1. /\ app' = app /\ crashes' = crashes
        /\ pc \in {"reset", "decide", "counted"} /\ pc' \in {"decide", "metaProgram"}
        /\ meta' = meta \/ pc' = "metaProgram"
    BY <1>2 DEF StubOnReset, StubRestoreGood, StartMetaWrite, counts
  <2>2. QED BY <1>0, <2>1, QuietOneCrash DEF Rewriting, IapPCs
<1>3. CASE StubJumpToApp \/ StubHang
  <2>1. /\ app' = app /\ meta' = meta /\ crashes' = crashes
        /\ pc \in {"decide", "counted"} /\ pc' \in {"app", "hang"}
        /\ ~MustRestore /\ (pc' = "hang" => ~AppLooksValid)
    BY <1>3 DEF StubJumpToApp, StubHang, persistent, counts
  <2>2. pc = "counted" => AwaitingBootOk(meta) /\ AppLooksValid
    BY <1>0 DEF Trials, Counted
  <2>3. ASSUME CanRestoreGood(meta), AppLooksValid \/ pc = "decide"
        PROVE  AppLooksValid /\ meta.state \notin {"UPDATING", "FAIL"}
    BY <2>1, <2>2, <2>3 DEF MustRestore, LocalRecord, ShouldRestoreGood, CanRestoreGood,
          AwaitingBootOk
  <2>4. (AppLooksValid' <=> AppLooksValid) /\ (AppIntact' <=> AppIntact)
    BY <2>1, AppFrame DEF AppLooksValid
  <2>5. QED
    BY <1>0, <2>1, <2>2, <2>3, <2>4 DEF OneCrash, Rewriting, IapPCs, CanRestoreGood
<1>4. CASE IapStartPass \/ IapAccept \/ IapSecondChance \/ IapProgramAgain
  <2>1. /\ app' = app /\ meta' = meta /\ crashes' = crashes
        /\ pc \in IapPCs /\ pc' \in IapPCs /\ (pass = 1 => pass' = 1)
    BY <1>4 DEF IapStartPass, IapAccept, IapSecondChance, IapProgramAgain, persistent,
          iap, counts, IapPCs
  <2>2. meta # Torn
    BY <1>0, <2>1 DEF TypeInv, Shape
  <2>3. QED BY <1>0, <2>1, <2>2, AppFrame DEF OneCrash, Rewriting, IapPCs
<1>5. CASE IapEraseBlock
  <2>1. /\ meta' = meta /\ crashes' = crashes /\ pass' = pass
        /\ pc = "erase" /\ pc' \in {"erase", "stream"}
    BY <1>5 DEF IapEraseBlock, iap, counts
  <2>2. pass = 1 /\ meta # Torn
    BY <1>0, <2>1 DEF TypeInv, Shape, IapPCs
  <2>3. QED BY <1>0, <2>1, <2>2, IapOneCrash DEF Rewriting, IapPCs
<1>6. CASE IapStreamBlock
  <2>1. /\ meta' = meta /\ crashes' = crashes /\ pass' = pass
        /\ pc = "stream" /\ pc' \in {"stream", "verify"}
        /\ pass # 1 => app' = app
    BY <1>6 DEF IapStreamBlock
  <2>2. meta # Torn
    BY <1>0, <2>1 DEF TypeInv, Shape, IapPCs
  <2>3. CASE pass = 1
    BY <1>0, <2>1, <2>2, <2>3, IapOneCrash DEF Rewriting, IapPCs
  <2>4. CASE pass # 1
    BY <1>0, <2>1, <2>4, QuietOneCrash DEF Rewriting
  <2>5. QED BY <2>3, <2>4
<1>7. CASE IapNodeMissing
  <2>1. pc = "stream" /\ image \in Images /\ k \in 1 .. Len[image]
        /\ Len[image] \in 1 .. AppBlocks /\ AppBlocks \in Nat
    BY <1>0, <1>7, ImageAssumption DEF IapNodeMissing, TypeInv, Shape, Latched, IapPCs
  <2>2. pass # 1
    <3> SUFFICES ASSUME pass = 1 PROVE FALSE
      OBVIOUS
    <3>1. FirstSector(slot) + Len[image] - 1 <= LastSector(slot)
      BY <1>0, <2>1 DEF Verified, IapPCs, WindowHolds
    <3>2. FirstSector(slot) \in Nat /\ LastSector(slot) \in Nat
      BY WindowAssumption DEF FirstSector, LastSector
    <3>3. QED BY <1>7, <2>1, <3>1, <3>2 DEF IapNodeMissing, NodeExists
  <2>3. app' = app /\ crashes' = crashes /\ pc' = "metaProgram"
    BY <1>7 DEF IapNodeMissing, StartMetaWrite, counts
  <2>4. QED BY <1>0, <2>2, <2>3, QuietOneCrash DEF Rewriting
<1>8. CASE IapReject
  <2>1. app' = app /\ crashes' = crashes /\ pc' = "metaProgram" /\ pass = 0
    BY <1>8 DEF IapReject, StartMetaWrite, counts
  <2>2. QED BY <1>0, <2>1, QuietOneCrash DEF Rewriting
<1>9. CASE IapSucceed
  <2>1. /\ pc = "verify" /\ pass = 1 /\ CrcMatches
        /\ meta # Torn /\ image \in Images /\ image = Descriptor(meta, slot)
    BY <1>0, <1>9 DEF IapSucceed, TypeInv, Shape, Latched, IapPCs
  <2>2. AppHolds(image)
    BY <1>0, <2>1 DEF CrcMatches, ExpectedImage, Truth, AppHolds
  <2>3. /\ app' = app /\ crashes' = crashes /\ pc' = "metaProgram"
    BY <1>9, <2>1 DEF IapSucceed, StartMetaWrite, counts
  <2>4. AppIntact'
    BY <2>1, <2>2, <2>3 DEF AppIntact, AppHolds
  <2>5. QED BY <1>0, <2>1, <2>3, <2>4, IapOneCrash DEF IapPCs
<1>10. CASE FinishAndReset \/ Reboot
  <2>1. /\ app' = app /\ meta' = meta /\ crashes' = crashes
        /\ pc \in {"finish", "app", "running", "hang"} /\ pc' = "reset"
    BY <1>10 DEF FinishAndReset, Reboot, LoseRam, persistent, counts
  <2>2. QED BY <1>0, <2>1, QuietOneCrash DEF Rewriting, IapPCs
<1>11. CASE AppConfirm \/ AppPromote
  <2>1. /\ app' = app /\ crashes' = crashes
        /\ pc \in {"app", "promote"} /\ pc' \in {"metaProgram", "running"}
        /\ meta' = meta \/ pc' = "metaProgram"
    BY <1>11 DEF AppConfirm, AppPromote, StartMetaWrite, counts
  <2>2. QED BY <1>0, <2>1, QuietOneCrash DEF Rewriting, IapPCs
<1>12. CASE Commit \/ CommitAbort
  <2>1. /\ app' = app /\ meta' = meta /\ crashes' = crashes
        /\ pc \in {"commit", "commitErase", "commitCopy", "wipe"}
        /\ pc' \notin {"app", "hang"}
    BY <1>12 DEF Commit, CommitStart, CommitEraseSector, CommitCopySector,
          CommitWipeSector, CommitAbort, persistent, counts
  <2>2. QED BY <1>0, <2>1, QuietOneCrash DEF Rewriting, IapPCs
<1>13. ASSUME NEW v \in Images, AppStage(v) \/ AppApply(v) PROVE OneCrash'
  <2>1. /\ app' = app /\ crashes' = crashes
        /\ pc = "running" /\ pc' \in {"metaProgram", "running"}
        /\ meta' = meta \/ pc' = "metaProgram"
    BY <1>13 DEF AppStage, AppApply, StartMetaWrite, counts
  <2>2. QED BY <1>0, <2>1, QuietOneCrash DEF Rewriting, IapPCs
<1>14. CASE PowerLoss
  <2>1. /\ meta' = meta /\ crashes' = crashes + 1 /\ pc' = "reset"
        /\ crashes \in Nat
        /\ app' = app \/ Rewriting
    BY <1>0, <1>14, BoundAssumption DEF PowerLoss, LoseRam, TypeOK, Rewriting, IapPCs
  <2>2. crashes' = 1 => AppIntact' \/ meta' # Torn
    <3>1. CASE Rewriting
      BY <1>0, <2>1, <3>1 DEF Rewriting, TypeInv, Shape
    <3>2. CASE ~Rewriting
      BY <1>0, <2>1, <3>2, AppFrame DEF OneCrash
    <3>3. QED BY <3>1, <3>2
  <2>3. QED BY <2>1, <2>2 DEF OneCrash
<1>15. CASE UNCHANGED vars
  <2>1. /\ meta' = meta /\ app' = app /\ pc' = pc /\ pass' = pass
        /\ crashes' = crashes
    BY <1>15 DEF vars, persistent, iap, counts
  <2>2. /\ AppLooksValid' <=> AppLooksValid
        /\ Rewriting' <=> Rewriting
    BY <2>1 DEF AppLooksValid, Rewriting
  <2>3. QED BY <1>0, <2>1, <2>2, AppFrame DEF OneCrash, CanRestoreGood
<1>16. QED
  BY <1>1, <1>2, <1>3, <1>4, <1>5, <1>6, <1>7, <1>8, <1>9, <1>10, <1>11, <1>12,
     <1>13, <1>14, <1>15 DEF AllInv, Next, Execute, Stub, Iap

\* If internal flash programs what it is given, then after a single power loss every
\* boot finds a complete application or a valid page, the stub does not give up, and
\* no half programmed application starts, as long as a valid page names a GOOD image
\* and the one installed has a vector table (boot_stub.c, boot_core.c).
THEOREM OneCrashSurvived ==
    ASSUME MaxFaults = 0
    PROVE  Spec => []OneCrashIsSafe
<1>1. Init => AllInv
  BY InitTypeInv, InitTruth, InitVerified, InitTrials, InitOneCrash DEF AllInv
<1>2. AllInv /\ [Next]_vars => AllInv'
  BY MaxFaults = 0, NextTypeInv, NextTruth, NextVerified, NextTrials, NextOneCrash
     DEF AllInv
<1>3. AllInv => OneCrashIsSafe
  <2> SUFFICES ASSUME AllInv, crashes <= 1, meta # Torn => meta.good # NoImage,
                      ~UnbootableInstalled
               PROVE  /\ pc = "reset" => AppIntact \/ meta # Torn
                      /\ pc # "hang" /\ (pc = "app" => AppIntact)
    BY DEF OneCrashIsSafe
  <2>0. /\ TypeOK /\ Truth /\ OneCrash /\ crashes \in {0, 1}
        /\ meta # Torn => meta \in MetaRecord
    BY ReadType, BoundAssumption DEF AllInv, TypeInv, TypeOK
  <2>1. ASSUME pc \in {"app", "hang"}, ~AppIntact
        PROVE  meta \in MetaRecord /\ meta # Torn /\ CanRestoreGood(meta)
    BY <2>0, <2>1 DEF OneCrash, Rewriting, IapPCs, CanRestoreGood
  <2>2. pc = "app" => AppIntact
    <3> SUFFICES ASSUME pc = "app", ~AppIntact PROVE FALSE
      OBVIOUS
    <3>1. meta \in MetaRecord /\ meta # Torn /\ CanRestoreGood(meta)
      BY <2>1
    <3>2. meta.state \in {"IDLE", "PROGRAMMED"}
      BY <2>0, <3>1 DEF OneCrash, MetaRecord, MetaStates
    <3>3. QED BY <2>0, <3>1, <3>2 DEF Truth, Truthful, AppIntact, AppHolds
  <2>3. pc # "hang"
    <3> SUFFICES ASSUME pc = "hang" PROVE FALSE
      OBVIOUS
    <3>1. ~AppLooksValid
      BY <2>0 DEF OneCrash
    <3>2. AppIntact
      BY <2>0, <2>1 DEF OneCrash
    <3>3. PICK v \in Images : AppHolds(v)
      BY <3>2 DEF AppIntact
    <3>4. v \in Bootable
      BY <3>3 DEF UnbootableInstalled
    <3>5. app[1] = Block(v, 1)
      BY <3>3, ImageAssumption DEF AppHolds
    <3>6. QED BY <3>1, <3>4, <3>5 DEF AppLooksValid
  <2>4. pc = "reset" => AppIntact \/ meta # Torn
    BY <2>0 DEF OneCrash, Rewriting, IapPCs
  <2>5. QED BY <2>2, <2>3, <2>4
<1>4. QED BY <1>1, <1>2, <1>3, PTL DEF Spec

-----------------------------------------------------------------------------
(* Every boot ends.                                                         *)

\* The loops of the commit stay in their windows, and GOOD is named meanwhile.
CommitLoops ==
    /\ pc \in {"commitErase", "commitCopy"} => meta # Torn /\ meta.good \in Images
    /\ pc = "commitErase" => k \in GoodFirst .. GoodLast
    /\ pc = "commitCopy" => k \in 0 .. Len[meta.good] - 1
    /\ pc = "wipe" => k \in CandFirst .. CandLast

CountsFit == GlitchesLeft \in Nat /\ TurnsLeft \in Nat

LEMMA InitCommitLoops == Init => CommitLoops
BY DEF Init, CommitLoops

LEMMA NextCommitLoops == TypeInv /\ CommitLoops /\ [Next]_vars => CommitLoops'
<1> SUFFICES ASSUME TypeInv, CommitLoops, [Next]_vars PROVE CommitLoops'
  OBVIOUS
<1> DEFINE LoopPcs == {"commitErase", "commitCopy", "wipe"}
<1>1. CASE pc' \notin LoopPcs
  BY <1>1 DEF CommitLoops
<1>2. CASE CommitStart
  <2>1. CASE CanRestoreGood(meta)
    <3>1. meta # Torn /\ meta.good \in Images
      BY <2>1, ReadType DEF CanRestoreGood, TypeInv, TypeOK, MetaRecord, Descriptors
    <3>2. pc' = "commitErase" /\ k' = GoodFirst /\ meta' = meta
      BY <1>2, <2>1 DEF CommitStart, persistent
    <3>3. QED BY <3>1, <3>2, WindowAssumption DEF CommitLoops
  <2>2. CASE ~CanRestoreGood(meta)
    BY <1>1, <1>2, <2>2 DEF CommitStart
  <2>3. QED BY <2>1, <2>2
<1>3. CASE CommitEraseSector
  <2>1. /\ meta' = meta /\ meta # Torn /\ meta.good \in Images /\ k \in GoodFirst .. GoodLast
        /\ IF k < GoodLast THEN k' = k + 1 /\ pc' = "commitErase"
                            ELSE k' = 0 /\ pc' = "commitCopy"
    BY <1>3 DEF CommitEraseSector, CommitLoops
  <2>2. Len[meta.good] \in Nat /\ Len[meta.good] >= 1
    BY <2>1, ImageAssumption
  <2>3. QED BY <2>1, <2>2, WindowAssumption DEF CommitLoops
<1>4. CASE CommitCopySector
  <2>1. /\ meta' = meta /\ meta # Torn /\ meta.good \in Images /\ k \in 0 .. Len[meta.good] - 1
        /\ IF k + 1 < Len[meta.good] THEN k' = k + 1 /\ pc' = "commitCopy"
                                     ELSE k' = CandFirst /\ pc' = "wipe"
    BY <1>4 DEF CommitCopySector, CommitLoops
  <2>2. Len[meta.good] \in Nat
    BY <2>1, ImageAssumption
  <2>3. QED BY <2>1, <2>2, WindowAssumption DEF CommitLoops
<1>5. CASE CommitWipeSector
  <2>1. /\ k \in CandFirst .. CandLast
        /\ IF k < CandLast THEN k' = k + 1 /\ pc' = "wipe" ELSE pc' = "running"
    BY <1>5 DEF CommitWipeSector, CommitLoops
  <2>2. QED BY <2>1, WindowAssumption DEF CommitLoops
<1>6. CASE MetaProgram
  <2>1. pc' \notin LoopPcs
    BY <1>6 DEF MetaProgram, TypeInv, Shape
  <2>2. QED BY <1>1, <2>1
<1>7. CASE Stub \/ Iap \/ AppConfirm \/ AppPromote
  <2>1. pc' \notin LoopPcs
    BY <1>7 DEF Stub, Iap, StubOnReset, StubRestoreGood, StubJumpToApp, StubHang, IapStartPass,
            IapEraseBlock, IapStreamBlock, IapNodeMissing, IapAccept, IapSecondChance, IapReject,
            IapProgramAgain, IapSucceed, FinishAndReset, AppConfirm, AppPromote, LoseRam,
            StartMetaWrite
  <2>2. QED BY <1>1, <2>1
<1>8. CASE CommitAbort \/ Reboot \/ PowerLoss \/ \E v \in Images : AppStage(v) \/ AppApply(v)
  <2>1. pc' \notin LoopPcs
    BY <1>8 DEF CommitAbort, Reboot, PowerLoss, AppStage, AppApply, LoseRam, StartMetaWrite
  <2>2. QED BY <1>1, <2>1
<1>9. CASE UNCHANGED vars
  BY <1>9 DEF vars, persistent, CommitLoops
<1>10. QED
  BY <1>2, <1>3, <1>4, <1>5, <1>6, <1>7, <1>8, <1>9 DEF Next, Execute, Commit

\* No count goes below zero.
LEMMA CountsAreNatural == TypeInv /\ CommitLoops => CountsFit
<1> SUFFICES ASSUME TypeInv, CommitLoops PROVE CountsFit
  OBVIOUS
<1>1. GlitchesLeft \in Nat
  BY BoundAssumption DEF GlitchesLeft, TypeInv, TypeOK
<1>2. CASE pc \in {"erase", "stream"}
  <2>1. image \in Images /\ Len[image] \in Nat /\ AppBlocks \in Nat
    BY <1>2, ImageAssumption DEF TypeInv, Shape, IapPCs, Latched
  <2>2. QED BY <1>1, <1>2, <2>1 DEF CountsFit, TurnsLeft, TypeInv, Shape, AppIndex
<1>3. CASE pc = "commitCopy"
  <2>1. Len[meta.good] \in Nat /\ k \in 0 .. Len[meta.good] - 1
    BY <1>3, ImageAssumption DEF CommitLoops
  <2>2. QED BY <1>1, <1>3, <2>1 DEF CountsFit, TurnsLeft
<1>4. CASE pc \in {"commitErase", "wipe"}
  BY <1>1, <1>4, WindowAssumption DEF CountsFit, TurnsLeft, CommitLoops
<1>5. QED BY <1>1, <1>2, <1>3, <1>4 DEF CountsFit, TurnsLeft

\* A pass 1 that mismatches has read something wrong.
LEMMA MismatchIsGlitch ==
    ASSUME TypeInv, Verified, pc = "verify", pass = 1, ~CrcMatches
    PROVE  Spoiled
<1>1. meta # Torn /\ image \in Images /\ image = Descriptor(meta, slot) /\ Len[image] \in Nat
  BY ImageAssumption DEF TypeInv, Shape, IapPCs, Latched
<1>2. PICK j \in 1 .. Len[image] : stream[j] # Block(image, j)
  BY <1>1 DEF CrcMatches, ExpectedImage
<1>3. nor[FirstSector(slot) + j - 2] = Block(image, j)
  BY DEF Verified, IapPCs, WindowHolds
<1>4. QED BY <1>2, <1>3 DEF Spoiled

\* A block that is read as it is spoils nothing.
LEMMA GoodReadsKeepPass ==
    ASSUME TypeInv, IapStreamBlock, glitches' = glitches
    PROVE  Spoiled' <=> Spoiled
<1>1. /\ image \in Images /\ Len[image] \in 1 .. AppBlocks /\ AppBlocks \in Nat
      /\ k \in 1 .. Len[image] /\ k \in AppIndex /\ pc = "stream"
      /\ nor' = nor /\ slot' = slot /\ image' = image
      /\ \/ k' = k + 1 /\ pc' = "stream"
         \/ k' = k /\ pc' = "verify" /\ Len[image] = k
  BY ImageAssumption DEF IapStreamBlock, TypeInv, Shape, Latched, IapPCs, AppIndex
<1>2. stream' = [stream EXCEPT ![k] = nor[FirstSector(slot) + k - 2]]
  <2>1. PICK d : /\ CountGlitch(nor[FirstSector(slot) + k - 2], d)
                 /\ stream' = [stream EXCEPT ![k] = d]
    BY DEF IapStreamBlock
  <2>2. glitches \in Nat
    BY BoundAssumption DEF TypeInv, TypeOK
  <2>3. d = nor[FirstSector(slot) + k - 2]
    BY <2>1, <2>2 DEF CountGlitch
  <2>4. QED BY <2>1, <2>3
<1>3. stream'[k] = nor[FirstSector(slot) + k - 2]
      /\ \A j \in 1 .. k - 1 : stream'[j] = stream[j]
  BY <1>1, <1>2 DEF TypeInv, TypeOK, AppIndex
<1>4. Spoiled <=> \E j \in 1 .. k - 1 : stream[j] # nor[FirstSector(slot) + j - 2]
  BY <1>1 DEF Spoiled
<1>5. Spoiled' <=> \E j \in 1 .. k : stream'[j] # nor[FirstSector(slot) + j - 2]
  BY <1>1 DEF Spoiled
<1>6. QED BY <1>1, <1>3, <1>4, <1>5

LEMMA StagesAre ==
    /\ Stage["reset"] = 9 /\ Stage["decide"] = 7 /\ Stage["counted"] = 7 /\ Stage["iap"] = 5
    /\ Stage["erase"] = 4 /\ Stage["stream"] = 3 /\ Stage["verify"] = 2 /\ Stage["finish"] = 0
    /\ Stage["app"] = 11 /\ Stage["promote"] = 9 /\ Stage["commit"] = 7
    /\ Stage["commitErase"] = 4 /\ Stage["commitCopy"] = 3 /\ Stage["wipe"] = 2
    /\ Stage["running"] = 0 /\ Stage["hang"] = 0
BY DEF Stage

\* A step that reads nothing gets closer by its passes or its stage.
LEMMA CloserByPass ==
    ASSUME CountsFit', glitches' = glitches,
           PassesLeft' < PassesLeft \/ (PassesLeft' = PassesLeft /\ StageLeft' < StageLeft)
    PROVE  Closer
BY DEF Closer, CountsFit, GlitchesLeft

LEMMA CloserByTurn ==
    ASSUME CountsFit', glitches' = glitches, PassesLeft' = PassesLeft, StageLeft' = StageLeft,
           TurnsLeft' < TurnsLeft
    PROVE  Closer
BY DEF Closer, CountsFit, GlitchesLeft

LEMMA StubGetsCloser ==
    ASSUME TypeInv, CountsFit', MetaProgram \/ Stub
    PROVE  Closer
<1> USE StagesAre DEF PassesLeft, StageLeft, Place, IapPCs
<1>1. CASE MetaProgram
  <2>1. /\ pc = "metaProgram" /\ pc' = ret /\ pass' = pass /\ chance' = chance
        /\ ret \in {"counted", "iap", "finish", "promote", "commit"} /\ glitches' = glitches
    BY <1>1 DEF MetaProgram, TypeInv, Shape, iap, counts
  <2>2. ~Spoiled /\ ~Spoiled'
    BY <2>1 DEF Spoiled
  <2>3. PassesLeft' = PassesLeft /\ StageLeft' < StageLeft
    BY <2>1, <2>2
  <2>4. QED BY <2>1, <2>3, CloserByPass
<1>2. CASE StubOnReset
  <2>1. /\ pc = "reset" /\ glitches' = glitches
        /\ pc' = "decide" \/ (pc' = "metaProgram" /\ ret' = "counted")
    BY <1>2 DEF StubOnReset, StartMetaWrite, counts
  <2>2. PassesLeft' = PassesLeft /\ StageLeft' < StageLeft
    BY <2>1
  <2>3. QED BY <2>1, <2>2, CloserByPass
<1>3. CASE StubRestoreGood
  <2>1. /\ pc \in {"decide", "counted"} /\ glitches' = glitches
        /\ pc' = "metaProgram" /\ ret' = "iap" /\ pass' = 0 /\ chance' = 0
    BY <1>3 DEF StubRestoreGood, StartMetaWrite, counts
  <2>2. PassesLeft' < PassesLeft
    BY <2>1
  <2>3. QED BY <2>1, <2>2, CloserByPass
<1>4. CASE StubJumpToApp \/ StubHang
  <2>1. pc \in {"decide", "counted"} /\ glitches' = glitches /\ pc' \in {"app", "hang"}
    BY <1>4 DEF StubJumpToApp, StubHang, counts
  <2>2. PassesLeft' < PassesLeft
    BY <2>1
  <2>3. QED BY <2>1, <2>2, CloserByPass
<1>5. QED BY <1>1, <1>2, <1>3, <1>4 DEF Stub

LEMMA IapGetsCloser ==
    ASSUME TypeInv, Verified, CountsFit', Iap, pc # "finish"
    PROVE  Closer
<1> USE StagesAre DEF PassesLeft, StageLeft, Place, IapPCs
<1>0. pass \in {0, 1} /\ chance \in {0, 1} /\ k \in Nat
  BY DEF TypeInv, TypeOK
<1>1. CASE IapStartPass \/ IapEraseBlock
  <2>1. /\ glitches' = glitches /\ pass' = pass /\ chance' = chance
        /\ \/ pc = "iap" /\ pc' \in {"erase", "stream"} /\ k' = 1
           \/ pc = "erase" /\ pc' = "stream" /\ k' = 1
           \/ pc = "erase" /\ pc' = "erase" /\ k' = k + 1
    BY <1>1 DEF IapStartPass, IapEraseBlock, counts, iap
  <2>2. ~Spoiled /\ ~Spoiled'
    BY <2>1 DEF Spoiled
  <2>3. PassesLeft' = PassesLeft
    BY <1>0, <2>1, <2>2
  <2>4. CASE pc' # pc
    <3>1. StageLeft' < StageLeft
      BY <2>1, <2>4
    <3>2. QED BY <2>1, <2>3, <3>1, CloserByPass
  <2>5. CASE pc' = pc
    <3>1. StageLeft' = StageLeft /\ TurnsLeft' < TurnsLeft
      BY <1>0, <2>1, <2>5, ImageAssumption DEF TurnsLeft
    <3>2. QED BY <2>1, <2>3, <3>1, CloserByTurn
  <2>6. QED BY <2>4, <2>5
<1>2. CASE IapStreamBlock
  <2>1. /\ pc = "stream" /\ pass' = pass /\ chance' = chance /\ image' = image
        /\ pc' = "verify" \/ (pc' = "stream" /\ k' = k + 1)
        /\ glitches \in Nat /\ Len[image] \in Nat
    BY <1>2, ImageAssumption, BoundAssumption
       DEF IapStreamBlock, TypeInv, TypeOK, Shape, Latched
  <2>2. glitches' = glitches \/ glitches' = glitches + 1
    BY <1>2 DEF IapStreamBlock, CountGlitch
  <2>3. CASE glitches' = glitches
    <3>1. Spoiled' <=> Spoiled
      BY <1>2, <2>3, GoodReadsKeepPass
    <3>2. PassesLeft' = PassesLeft
      BY <1>0, <2>1, <3>1
    <3>3. CASE pc' = "verify"
      <4>1. StageLeft' < StageLeft
        BY <2>1, <3>3
      <4>2. QED BY <2>3, <3>2, <4>1, CloserByPass
    <3>4. CASE pc' = "stream"
      <4>1. StageLeft' = StageLeft /\ TurnsLeft' < TurnsLeft
        BY <1>0, <2>1, <3>4 DEF TurnsLeft
      <4>2. QED BY <2>3, <3>2, <4>1, CloserByTurn
    <3>5. QED BY <2>1, <3>3, <3>4
  <2>4. CASE glitches' = glitches + 1
    BY <2>1, <2>4, BoundAssumption DEF Closer, CountsFit, GlitchesLeft
  <2>5. QED BY <2>2, <2>3, <2>4
<1>3. CASE IapNodeMissing \/ IapReject \/ IapSucceed
  <2>1. /\ pc \in {"stream", "verify"} /\ glitches' = glitches
        /\ pc' = "finish" \/ (pc' = "metaProgram" /\ ret' = "finish")
    BY <1>3 DEF IapNodeMissing, IapReject, IapSucceed, StartMetaWrite, counts
  <2>2. PassesLeft' < PassesLeft
    BY <1>0, <2>1
  <2>3. QED BY <2>1, <2>2, CloserByPass
<1>4. CASE IapAccept \/ IapSecondChance
  <2>1. /\ pc = "verify" /\ pc' = "iap" /\ pass = 0 /\ glitches' = glitches
        /\ pass' = 1 \/ (pass' = 0 /\ chance = 0 /\ chance' = 1)
    BY <1>4 DEF IapAccept, IapSecondChance, counts
  <2>2. ~Spoiled'
    BY <2>1 DEF Spoiled
  <2>3. PassesLeft' < PassesLeft
    BY <1>0, <2>1, <2>2
  <2>4. QED BY <2>1, <2>3, CloserByPass
<1>5. CASE IapProgramAgain
  <2>1. /\ pc = "verify" /\ pc' = "iap" /\ pass = 1 /\ pass' = 1 /\ glitches' = glitches
        /\ ~CrcMatches
    BY <1>5 DEF IapProgramAgain, counts, iap
  <2>2. Spoiled /\ ~Spoiled'
    <3>1. Spoiled
      BY <2>1, MismatchIsGlitch
    <3>2. ~Spoiled'
      BY <2>1 DEF Spoiled
    <3>3. QED BY <3>1, <3>2
  <2>3. PassesLeft' < PassesLeft
    BY <2>1, <2>2
  <2>4. QED BY <2>1, <2>3, CloserByPass
<1>6. QED BY <1>1, <1>2, <1>3, <1>4, <1>5 DEF Iap, FinishAndReset

LEMMA AppGetsCloser ==
    ASSUME TypeInv, CommitLoops, CountsFit', AppConfirm \/ AppPromote \/ Commit
    PROVE  Closer
<1> USE StagesAre DEF PassesLeft, StageLeft, Place, IapPCs
<1>1. CASE AppConfirm \/ AppPromote \/ CommitStart
  <2>1. /\ glitches' = glitches
        /\ \/ pc = "app" /\ pc' = "metaProgram" /\ ret' = "promote"
           \/ pc = "promote" /\ pc' = "metaProgram" /\ ret' = "commit"
           \/ pc \in {"promote", "commit"} /\ pc' = "running"
           \/ pc = "commit" /\ pc' = "commitErase"
    BY <1>1 DEF AppConfirm, AppPromote, CommitStart, StartMetaWrite, counts
  <2>2. PassesLeft' = PassesLeft /\ StageLeft' < StageLeft
    BY <2>1
  <2>3. QED BY <2>1, <2>2, CloserByPass
<1>2. CASE CommitEraseSector
  <2>1. /\ pc = "commitErase" /\ glitches' = glitches /\ k \in GoodFirst .. GoodLast
        /\ pc' = "commitCopy" \/ (pc' = "commitErase" /\ k' = k + 1)
    BY <1>2 DEF CommitEraseSector, CommitLoops, counts
  <2>2. PassesLeft' = PassesLeft
    BY <2>1
  <2>3. CASE pc' = "commitCopy"
    <3>1. StageLeft' < StageLeft
      BY <2>1, <2>3
    <3>2. QED BY <2>1, <2>2, <3>1, CloserByPass
  <2>4. CASE pc' = "commitErase" /\ k' = k + 1
    <3>1. StageLeft' = StageLeft /\ TurnsLeft' < TurnsLeft
      BY <2>1, <2>4, WindowAssumption DEF TurnsLeft
    <3>2. QED BY <2>1, <2>2, <3>1, CloserByTurn
  <2>5. QED BY <2>1, <2>3, <2>4
<1>3. CASE CommitCopySector
  <2>1. /\ pc = "commitCopy" /\ meta' = meta /\ k \in Nat /\ Len[meta.good] \in Nat
        /\ pc' = "wipe" \/ (pc' = "commitCopy" /\ k' = k + 1)
        /\ glitches \in Nat /\ (glitches' = glitches \/ glitches' = glitches + 1)
    BY <1>3, ImageAssumption, BoundAssumption
       DEF CommitCopySector, CommitLoops, CountGlitch, TypeInv, TypeOK
  <2>2. PassesLeft' = PassesLeft
    BY <2>1
  <2>3. CASE glitches' = glitches + 1
    BY <2>1, <2>3, BoundAssumption DEF Closer, CountsFit, GlitchesLeft
  <2>4. CASE glitches' = glitches /\ pc' = "wipe"
    <3>1. StageLeft' < StageLeft
      BY <2>1, <2>4
    <3>2. QED BY <2>2, <2>4, <3>1, CloserByPass
  <2>5. CASE glitches' = glitches /\ pc' = "commitCopy" /\ k' = k + 1
    <3>1. StageLeft' = StageLeft /\ TurnsLeft' < TurnsLeft
      BY <2>1, <2>5 DEF TurnsLeft
    <3>2. QED BY <2>2, <2>5, <3>1, CloserByTurn
  <2>6. QED BY <2>1, <2>3, <2>4, <2>5
<1>4. CASE CommitWipeSector
  <2>1. /\ pc = "wipe" /\ glitches' = glitches /\ k \in CandFirst .. CandLast
        /\ pc' = "running" \/ (pc' = "wipe" /\ k' = k + 1)
    BY <1>4 DEF CommitWipeSector, CommitLoops, counts
  <2>2. PassesLeft' = PassesLeft
    BY <2>1
  <2>3. CASE pc' = "running"
    <3>1. StageLeft' < StageLeft
      BY <2>1, <2>3
    <3>2. QED BY <2>1, <2>2, <3>1, CloserByPass
  <2>4. CASE pc' = "wipe" /\ k' = k + 1
    <3>1. StageLeft' = StageLeft /\ TurnsLeft' < TurnsLeft
      BY <2>1, <2>4, WindowAssumption DEF TurnsLeft
    <3>2. QED BY <2>1, <2>2, <3>1, CloserByTurn
  <2>5. QED BY <2>1, <2>3, <2>4
<1>5. QED BY <1>1, <1>2, <1>3, <1>4 DEF Commit

\* Whatever the page, the windows and the images are, the processor does not go
\* round without end between two resets; pass 1 of boot_core.c, which repeats
\* without limit, is repeated at most once for each wrong read.
THEOREM BootsEnd == Spec => EveryBootEnds
<1>1. TypeInv /\ Verified /\ CommitLoops /\ CountsFit' /\ [Next]_vars
         => [Execute => pc = "finish" \/ Closer]_vars
  BY StubGetsCloser, IapGetsCloser, AppGetsCloser DEF Execute
<1>2. TypeInv /\ CommitLoops => CountsFit
  BY CountsAreNatural
<1>3. QED
  BY <1>1, <1>2, InitTypeInv, NextTypeInv, InitVerified, NextVerified, InitCommitLoops,
     NextCommitLoops, PTL DEF Spec, EveryBootEnds

-----------------------------------------------------------------------------
(* The device implements UpdateProtocol, for every set of images, every     *)
(* window and every number of power losses and wrong reads.                 *)

Handover ==
    /\ pc = "metaProgram" => meta = Torn
    /\ meta # Torn /\ meta.state = "PROGRAMMED" => ~meta.ok
    /\ pc = "metaProgram" /\ buf.state = "PROGRAMMED" => ~buf.ok
    /\ pc = "promote" => AppIsHealthy
    /\ pc = "metaProgram" /\ ret = "promote" => AppIsHealthy

-----------------------------------------------------------------------------
(* Handover is an invariant.                                                *)

LEMMA InitHandover == Init => Handover
<1> SUFFICES ASSUME Init PROVE Handover
  OBVIOUS
<1>1. PICK v : meta = Torn \/ meta = [ZeroRecord EXCEPT !.ok = TRUE, !.good = v]
  BY DEF Init
<1>2. meta # Torn => meta.state = "IDLE"
  BY <1>1 DEF ZeroRecord
<1>3. QED BY <1>2 DEF Init, Handover

LEMMA HealthyFrame ==
    ASSUME app' = app
    PROVE  AppIsHealthy' <=> AppIsHealthy
BY DEF AppIsHealthy, AppHolds

LEMMA QuietHandover ==
    ASSUME Handover, meta' = meta, pc' \notin {"metaProgram", "promote"}
    PROVE  Handover'
BY DEF Handover

LEMMA WriteHandover ==
    ASSUME NEW m, NEW next, StartMetaWrite(m, next), m.state = "PROGRAMMED" => ~m.ok,
           next = "promote" => AppIsHealthy'
    PROVE  Handover'
BY DEF StartMetaWrite, Handover

LEMMA NextHandover == TypeInv /\ Handover /\ [Next]_vars => Handover'
<1> SUFFICES ASSUME TypeInv, Handover, [Next]_vars PROVE Handover'
  OBVIOUS
<1>0. /\ TypeOK /\ meta \in MetaPage
      /\ meta # Torn => meta \in MetaRecord
  BY ReadType DEF TypeInv, TypeOK
<1>1. CASE MetaProgram
  <2>1. /\ meta' = buf /\ app' = app /\ pc' = ret
        /\ pc = "metaProgram" /\ pc' # "metaProgram"
    BY <1>1 DEF MetaProgram, TypeInv, Shape
  <2>2. QED BY <2>1, HealthyFrame DEF Handover
<1>2. CASE StubOnReset
  <2>1. CASE CountsAttempt(meta, AppLooksValid)
    <3>1. meta \in MetaRecord /\ meta # Torn
      BY <1>0, <2>1 DEF CountsAttempt, AwaitingBootOk
    <3>2. /\ CountAttempt(meta).state = meta.state
          /\ CountAttempt(meta).ok = meta.ok
      BY <3>1 DEF CountAttempt, MetaRecord
    <3>3. QED BY <1>2, <2>1, <3>1, <3>2, WriteHandover DEF StubOnReset, Handover
  <2>2. CASE ~CountsAttempt(meta, AppLooksValid)
    BY <1>2, <2>2, QuietHandover DEF StubOnReset
  <2>3. QED BY <2>1, <2>2
<1>3. CASE StubRestoreGood
  <2>1. meta.good \in Descriptors
    BY <1>0, <1>3 DEF StubRestoreGood, MustRestore, CanRestoreGood, LocalRecord,
          MetaRecord
  <2>2. BeginUpdate(meta, "GOOD", meta.good).state = "UPDATING"
    BY <1>0, <2>1, BeginUpdateType DEF Slots
  <2>3. QED BY <1>3, <2>2, WriteHandover DEF StubRestoreGood
<1>4. CASE StubJumpToApp \/ StubHang
  BY <1>4, QuietHandover DEF StubJumpToApp, StubHang, persistent
<1>5. CASE IapStartPass \/ IapEraseBlock \/ IapStreamBlock
           \/ IapAccept \/ IapSecondChance \/ IapProgramAgain
  BY <1>5, QuietHandover DEF IapStartPass, IapEraseBlock, IapStreamBlock, IapAccept,
        IapSecondChance, IapProgramAgain, persistent
<1>6. CASE IapNodeMissing \/ IapReject
  <2>1. SetFail(meta).state = "FAIL"
    BY <1>0, SetFailType
  <2>2. QED BY <1>6, <2>1, WriteHandover DEF IapNodeMissing, IapReject
<1>7. CASE IapSucceed
  <2>1. meta \in MetaRecord /\ meta # Torn
    BY <1>0, <1>7 DEF IapSucceed, TypeInv, Shape, IapPCs
  <2>2. ~SetProgrammed(meta).ok
    BY <2>1 DEF SetProgrammed, MetaRecord
  <2>3. QED BY <1>7, <2>1, <2>2, WriteHandover DEF IapSucceed
<1>8. CASE FinishAndReset \/ Reboot \/ PowerLoss
  BY <1>8, QuietHandover DEF FinishAndReset, Reboot, PowerLoss, LoseRam, persistent
<1>9. CASE AppConfirm
  <2>1. ConfirmBootOk(meta).state = "IDLE"
    BY <1>0, ConfirmType
  <2>2. AppIsHealthy'
    BY <1>9, HealthyFrame DEF AppConfirm
  <2>3. QED BY <1>9, <2>1, <2>2, WriteHandover DEF AppConfirm
<1>10. CASE AppPromote
  <2>1. CASE CanPromote(meta)
    <3>1. meta \in MetaRecord /\ meta.state = "IDLE"
      BY <1>0, <1>10, <2>1 DEF AppPromote, CanPromote, TypeInv, Shape
    <3>2. Promote(meta).state = "IDLE"
      BY <3>1, PromoteType
    <3>3. QED BY <1>10, <2>1, <3>2, WriteHandover DEF AppPromote
  <2>2. CASE ~CanPromote(meta)
    BY <1>10, <2>2, QuietHandover DEF AppPromote
  <2>3. QED BY <2>1, <2>2
<1>11. CASE Commit \/ CommitAbort
  BY <1>11, QuietHandover DEF Commit, CommitStart, CommitEraseSector,
        CommitCopySector, CommitWipeSector, CommitAbort, persistent
<1>12. ASSUME NEW v \in Images, AppStage(v) PROVE Handover'
  BY <1>12, QuietHandover DEF AppStage
<1>13. ASSUME NEW v \in Images, AppApply(v) PROVE Handover'
  <2>1. BeginUpdate(meta, "CANDIDATE", v).state = "UPDATING"
    BY <1>0, BeginUpdateType DEF Slots, Descriptors
  <2>2. QED BY <1>13, <2>1, WriteHandover DEF AppApply
<1>14. CASE UNCHANGED vars
  <2>1. meta' = meta /\ app' = app /\ pc' = pc /\ buf' = buf /\ ret' = ret
    BY <1>14 DEF vars, persistent, writing
  <2>2. QED BY <2>1, HealthyFrame DEF Handover
<1>15. QED
  BY <1>1, <1>2, <1>3, <1>4, <1>5, <1>6, <1>7, <1>8, <1>9, <1>10, <1>11, <1>12,
     <1>13, <1>14 DEF Next, Execute, Stub, Iap

-----------------------------------------------------------------------------
(* The variables of the protocol.                                           *)

\* Two images that both fill the start of the area are one image.
LEMMA InstalledIs ==
    ASSUME NEW v \in Images, AppHolds(v)
    PROVE  Installed = v
<1>1. AppIntact
  BY DEF AppIntact
<1> DEFINE w == CHOOSE x \in Images : AppHolds(x)
<1>2. w \in Images /\ AppHolds(w)
  BY <1>1 DEF AppIntact
<1> HIDE DEF w
<1>3. app[1] = Block(w, 1) /\ app[1] = Block(v, 1)
  BY <1>2, ImageAssumption DEF AppHolds
<1>4. w = v
  BY <1>3 DEF Block
<1>5. QED BY <1>1, <1>4 DEF Installed, w

LEMMA InstalledType ==
    /\ Installed \in Images \union {Broken}
    /\ Installed # Broken <=> AppIntact
<1>1. CASE AppIntact
  <2>1. PICK v \in Images : AppHolds(v)
    BY <1>1 DEF AppIntact
  <2>2. Installed = v
    BY <2>1, InstalledIs
  <2>3. QED BY <1>1, <2>1, <2>2, TornAssumption DEF Broken
<1>2. CASE ~AppIntact
  BY <1>2 DEF Installed
<1>3. QED BY <1>1, <1>2

LEMMA InstalledTypeNext == Installed' \in Images \union {Broken}
<1>1. CASE AppIntact'
  <2>1. (CHOOSE v \in Images : AppHolds(v)') \in Images
    BY <1>1 DEF AppIntact
  <2>2. QED BY <1>1, <2>1 DEF Installed
<1>2. CASE ~AppIntact'
  BY <1>2 DEF Installed
<1>3. QED BY <1>1, <1>2

LEMMA InstalledFrame ==
    ASSUME app' = app
    PROVE  Installed' = Installed
BY AppFrame DEF Installed, AppIntact, AppHolds

\* What a write of m does to the protocol's view of the page.
LEMMA WritePage ==
    ASSUME NEW m \in MetaRecord, NEW next, StartMetaWrite(m, next)
    PROVE  Phase' = m.state /\ Fallback' = m.good
<1>1. Page' = m /\ m # Torn
  BY TornAssumption DEF StartMetaWrite, Page
<1>2. QED BY <1>1 DEF Phase, Fallback

LEMMA QuietPage ==
    ASSUME meta' = meta, pc # "metaProgram", pc' # "metaProgram"
    PROVE  Phase' = Phase /\ Fallback' = Fallback
BY DEF Phase, Fallback, Page

LEMMA PageIsMeta ==
    ASSUME pc # "metaProgram"
    PROVE  /\ Phase = IF meta = Torn THEN "LOST" ELSE meta.state
           /\ Fallback = IF meta = Torn THEN NoImage ELSE meta.good
BY DEF Phase, Fallback, Page

\* The fields of the records written that a reader of the protocol sees.
LEMMA KeepsGood ==
    ASSUME NEW page \in MetaPage, pc # "metaProgram", meta = page
    PROVE  /\ SetFail(page).good = Fallback
           /\ ConfirmBootOk(page).good = Fallback
           /\ \A v \in Descriptors : BeginUpdate(page, "CANDIDATE", v).good = Fallback
<1>1. ReadOrZero(page) \in MetaRecord /\ ReadOrZero(page).good = Fallback
  BY PageIsMeta, ReadType DEF ReadOrZero, ZeroRecord
<1>2. QED BY <1>1 DEF SetFail, ConfirmBootOk, BeginUpdate, MetaRecord

\* The protocol sees nothing of a step that leaves page, application and count.
Stutter == /\ Phase' = Phase /\ Installed' = Installed
           /\ Fallback' = Fallback /\ starts' = starts

LEMMA StutterStep == Stutter => UNCHANGED Protocol!vars
BY DEF Stutter, Protocol!vars

LEMMA QuietStep ==
    ASSUME app' = app, meta' = meta, starts' = starts,
           pc # "metaProgram", pc' # "metaProgram"
    PROVE  Stutter
BY QuietPage, InstalledFrame DEF Stutter

-----------------------------------------------------------------------------
(* Initial states and steps of the device are those of the protocol.        *)

LEMMA InitRefines == Init => Protocol!Init
<1> SUFFICES ASSUME Init PROVE Protocol!Init
  OBVIOUS
<1>1. PICK v \in Healthy :
         /\ app = [j \in AppIndex |-> IF j <= Len[v] THEN Block(v, j) ELSE Blank]
         /\ \/ meta = Torn
            \/ meta = [ZeroRecord EXCEPT !.ok = TRUE, !.good = v]
  BY DEF Init
<1>2. v \in Images /\ Len[v] \in 1 .. AppBlocks /\ AppBlocks \in Nat
  BY <1>1, ImageAssumption
<1>3. AppHolds(v)
  <2>1. \A j \in 1 .. Len[v] : j \in AppIndex /\ j <= Len[v]
    BY <1>2 DEF AppIndex
  <2>2. QED BY <1>1, <1>2, <2>1 DEF AppHolds
<1>4. Installed = v
  BY <1>2, <1>3, InstalledIs
<1>5. /\ Phase \in {"IDLE", "LOST"}
      /\ Fallback \in {NoImage, v}
  <2>1. CASE meta = Torn
    BY <2>1, PageIsMeta DEF Init
  <2>2. CASE meta = [ZeroRecord EXCEPT !.ok = TRUE, !.good = v]
    <3>1. meta.state = "IDLE" /\ meta.good = v
      BY <2>2 DEF ZeroRecord
    <3>2. QED BY <3>1, PageIsMeta DEF Init
  <2>3. QED BY <1>1, <2>1, <2>2
<1>6. starts = 0
  BY DEF Init
<1>7. QED BY <1>1, <1>4, <1>5, <1>6 DEF Protocol!Init

\* The invariants that the mapping of the steps rests on.
DeviceInv == AllInv /\ Handover

\* The meta writes of the stub: one more trial is invisible, a restore begins.
LEMMA StubWritesRefine ==
    ASSUME DeviceInv, StubOnReset \/ StubRestoreGood
    PROVE  Stutter \/ Protocol!Begin
<1>0. meta \in MetaPage /\ (meta # Torn => meta \in MetaRecord)
  BY ReadType DEF DeviceInv, AllInv, TypeInv, TypeOK
<1>1. CASE StubOnReset /\ CountsAttempt(meta, AppLooksValid)
  <2>1. meta \in MetaRecord /\ meta # Torn /\ meta.attempts < MaxAttempts
    BY <1>0, <1>1 DEF CountsAttempt, AwaitingBootOk
  <2>2. /\ CountAttempt(meta) \in MetaRecord
        /\ CountAttempt(meta).state = meta.state
        /\ CountAttempt(meta).good = meta.good
    BY <2>1, CountAttemptType DEF CountAttempt, MetaRecord
  <2>3. Phase' = meta.state /\ Fallback' = meta.good
    BY <1>1, <2>2, WritePage DEF StubOnReset
  <2>4. Phase = meta.state /\ Fallback = meta.good
    BY <1>1, <2>1, PageIsMeta DEF StubOnReset
  <2>5. QED BY <1>1, <2>3, <2>4, InstalledFrame DEF StubOnReset, Stutter
<1>2. CASE StubOnReset /\ ~CountsAttempt(meta, AppLooksValid)
  BY <1>2, QuietStep DEF StubOnReset
<1>3. CASE StubRestoreGood
  <2>1. meta \in MetaRecord /\ meta # Torn /\ meta.good \in Descriptors
    BY <1>0, <1>3 DEF StubRestoreGood, MustRestore, CanRestoreGood, LocalRecord,
          MetaRecord
  <2>2. LET m == BeginUpdate(meta, "GOOD", meta.good)
        IN  m \in MetaRecord /\ m.state = "UPDATING" /\ m.good = meta.good
    BY <2>1, <1>0, BeginUpdateType DEF Slots, Descriptor
  <2>3. Phase' = "UPDATING" /\ Fallback' = meta.good
    BY <1>3, <2>2, WritePage DEF StubRestoreGood
  <2>4. Fallback = meta.good
    BY <1>3, <2>1, PageIsMeta DEF StubRestoreGood
  <2>5. QED
    BY <1>3, <2>3, <2>4, InstalledFrame DEF StubRestoreGood, Protocol!Begin
<1>4. QED BY <1>1, <1>2, <1>3

\* The stub never starts an interrupted update while it can go back, and an
\* unconfirmed program only while it has a trial left.
LEMMA JumpRefines ==
    ASSUME DeviceInv, StubJumpToApp
    PROVE  Protocol!Start
<1>1. /\ pc \in {"decide", "counted"} /\ pc' = "app" /\ meta' = meta /\ app' = app
      /\ ~MustRestore /\ AppLooksValid
      /\ starts \in 0 .. StartsBound /\ starts' \in {starts, starts + 1}
  BY DEF StubJumpToApp, persistent, DeviceInv, AllInv, TypeInv, TypeOK, StartsBound
<1>2. Phase' = Phase /\ Fallback' = Fallback /\ Installed' = Installed
  BY <1>1, QuietPage, InstalledFrame
<1>3. ASSUME Fallback # NoImage
      PROVE  /\ Phase \notin {"UPDATING", "FAIL"}
             /\ Phase = "PROGRAMMED" => starts < 3
  <2>1. meta # Torn /\ Phase = meta.state /\ meta.good # NoImage
    BY <1>1, <1>3, PageIsMeta
  <2>2. meta.attempts \in 0 .. MaxAttempts
    BY <2>1, ReadType DEF DeviceInv, AllInv, TypeInv, TypeOK, MetaRecord
  <2>3. Phase = "PROGRAMMED" => AwaitingBootOk(meta)
    BY <2>1 DEF AwaitingBootOk, DeviceInv, Handover
  <2>4. CASE pc = "decide"
    <3>1. ~ShouldRestoreGood(meta, AppLooksValid)
      BY <1>1, <2>1, <2>4 DEF MustRestore, CanRestoreGood, LocalRecord
    <3>2. AwaitingBootOk(meta) => meta.attempts = MaxAttempts
      BY <1>1, <2>4 DEF DeviceInv, AllInv, Trials
    <3>3. QED
      BY <2>1, <2>2, <2>3, <3>1, <3>2 DEF ShouldRestoreGood, MaxAttempts
  <2>5. CASE pc = "counted"
    <3>1. AwaitingBootOk(meta) /\ starts < meta.attempts
      BY <2>1, <2>5 DEF DeviceInv, AllInv, Trials, Counted
    <3>2. QED BY <1>1, <2>1, <2>2, <3>1 DEF AwaitingBootOk, MaxAttempts, StartsBound
  <2>6. QED BY <1>1, <2>4, <2>5
<1>4. QED BY <1>1, <1>2, <1>3 DEF Protocol!Start

\* The application area changes only while the page says UPDATING.
LEMMA RewriteRefines ==
    ASSUME DeviceInv, meta' = meta, starts' = starts, pc \in IapPCs, pc' # "metaProgram"
    PROVE  Protocol!Program
<1>1. meta # Torn /\ meta.state = "UPDATING" /\ pc # "metaProgram"
  BY DEF DeviceInv, AllInv, TypeInv, Shape, Latched, IapPCs
<1>2. Phase = "UPDATING" /\ Phase' = Phase /\ Fallback' = Fallback
  BY <1>1, PageIsMeta, QuietPage
<1>3. Installed' \in Images \union {Broken}
  BY InstalledTypeNext
<1>4. QED BY <1>2, <1>3 DEF Protocol!Program

\* The two ways in which the IAP ends.
LEMMA IapEndRefines ==
    ASSUME DeviceInv, IapNodeMissing \/ IapReject \/ IapSucceed
    PROVE  Protocol!Refuse \/ Protocol!Latch
<1>1. /\ pc \in IapPCs /\ pc # "metaProgram"
      /\ meta # Torn /\ meta \in MetaPage /\ meta \in MetaRecord
      /\ meta.state = "UPDATING" /\ app' = app
      /\ image \in Images /\ image = Descriptor(meta, slot)
  BY ReadType DEF IapNodeMissing, IapReject, IapSucceed, IapPCs, DeviceInv, AllInv,
                  TypeInv, TypeOK, Shape, Latched
<1>2. Phase = "UPDATING" /\ Fallback = meta.good /\ Installed' = Installed
  BY <1>1, PageIsMeta, InstalledFrame
<1>3. CASE IapNodeMissing \/ IapReject
  <2>1. /\ SetFail(meta) \in MetaRecord /\ SetFail(meta).state = "FAIL"
        /\ SetFail(meta).good = Fallback
    BY <1>1, SetFailType, KeepsGood
  <2>2. Phase' = "FAIL" /\ Fallback' = Fallback
    BY <1>3, <2>1, WritePage DEF IapNodeMissing, IapReject
  <2>3. QED
    BY <1>2, <1>3, <2>2 DEF IapNodeMissing, IapReject, Protocol!Refuse
<1>4. CASE IapSucceed
  <2>1. /\ SetProgrammed(meta) \in MetaRecord
        /\ SetProgrammed(meta).state = "PROGRAMMED"
        /\ SetProgrammed(meta).good = meta.good
    BY <1>1, SetProgrammedType DEF SetProgrammed, MetaRecord
  <2>2. Phase' = "PROGRAMMED" /\ Fallback' = Fallback /\ starts' = 0
    BY <1>1, <1>2, <1>4, <2>1, WritePage DEF IapSucceed
  <2>3. AppHolds(image)
    BY <1>1, <1>4
       DEF IapSucceed, CrcMatches, ExpectedImage, DeviceInv, AllInv, Truth, AppHolds
  <2>4. Installed # Broken
    BY <1>1, <2>3, InstalledType DEF AppIntact
  <2>5. QED BY <1>2, <2>2, <2>4 DEF Protocol!Latch
<1>5. QED BY <1>3, <1>4

\* An application that reports BOOT_OK is installed and healthy.
LEMMA HealthyInstalled ==
    ASSUME AppIsHealthy
    PROVE  Installed \in Healthy
BY InstalledIs, ImageAssumption DEF AppIsHealthy

LEMMA AppWritesRefine ==
    ASSUME DeviceInv, AppConfirm \/ AppPromote
    PROVE  Stutter \/ Protocol!Confirm \/ Protocol!Promote
<1>0. meta \in MetaPage /\ (meta # Torn => meta \in MetaRecord)
  BY ReadType DEF DeviceInv, AllInv, TypeInv, TypeOK
<1>1. CASE AppConfirm
  <2>1. /\ ConfirmBootOk(meta) \in MetaRecord /\ ConfirmBootOk(meta).state = "IDLE"
        /\ ConfirmBootOk(meta).good = Fallback
    BY <1>0, <1>1, ConfirmType, KeepsGood DEF AppConfirm
  <2>2. Phase' = "IDLE" /\ Fallback' = Fallback
    BY <1>1, <2>1, WritePage DEF AppConfirm
  <2>3. QED
    BY <1>1, <2>2, HealthyInstalled, InstalledFrame DEF AppConfirm, Protocol!Confirm
<1>2. CASE AppPromote /\ CanPromote(meta)
  <2>1. meta \in MetaRecord /\ meta # Torn /\ meta.state = "IDLE" /\ AppIsHealthy
    BY <1>0, <1>2
       DEF CanPromote, AppPromote, DeviceInv, AllInv, TypeInv, Shape, Handover
  <2>2. /\ Promote(meta) \in MetaRecord /\ Promote(meta).state = "IDLE"
        /\ Promote(meta).good \in Images
    BY <1>2, <2>1, PromoteType DEF CanPromote, Promote, MetaRecord, Descriptors
  <2>3. Phase' = "IDLE" /\ Fallback' \in Images
    BY <1>2, <2>2, WritePage DEF AppPromote
  <2>4. Phase = "IDLE"
    BY <1>2, <2>1, PageIsMeta DEF AppPromote
  <2>5. QED
    BY <1>2, <2>1, <2>3, <2>4, HealthyInstalled, InstalledFrame
       DEF AppPromote, Protocol!Promote
<1>3. CASE AppPromote /\ ~CanPromote(meta)
  BY <1>3, QuietStep DEF AppPromote
<1>4. QED BY <1>1, <1>2, <1>3

LEMMA ApplyRefines ==
    ASSUME DeviceInv, NEW v \in Images, AppApply(v)
    PROVE  Protocol!Begin
<1>1. meta \in MetaPage /\ pc # "metaProgram" /\ v \in Descriptors
  BY DEF DeviceInv, AllInv, TypeInv, TypeOK, AppApply, Descriptors
<1>2. LET m == BeginUpdate(meta, "CANDIDATE", v)
      IN  m \in MetaRecord /\ m.state = "UPDATING" /\ m.good = Fallback
  BY <1>1, BeginUpdateType, KeepsGood DEF Slots
<1>3. Phase' = "UPDATING" /\ Fallback' = Fallback
  BY <1>2, WritePage DEF AppApply
<1>4. QED BY <1>3, InstalledFrame DEF AppApply, Protocol!Begin

\* Power that goes away during a meta write loses the page, in pass 1 of the IAP
\* a block of the application, and otherwise nothing the protocol speaks of.
LEMMA PowerLossRefines ==
    ASSUME DeviceInv, PowerLoss
    PROVE  Stutter \/ Protocol!Lose \/ Protocol!Program
<1>1. /\ meta' = meta /\ starts' = starts /\ pc' = "reset"
      /\ app' = app \/ pc \in {"erase", "stream"}
  BY DEF PowerLoss, LoseRam
<1>2. CASE pc = "metaProgram"
  <2>1. Phase' = "LOST" /\ Fallback' = NoImage
    BY <1>1, <1>2 DEF DeviceInv, Handover, Phase, Fallback, Page
  <2>2. Installed' = Installed
    BY <1>1, <1>2, InstalledFrame
  <2>3. QED BY <1>1, <2>1, <2>2 DEF Protocol!Lose
<1>3. CASE pc \in {"erase", "stream"}
  BY <1>1, <1>3, RewriteRefines DEF IapPCs
<1>4. CASE pc \notin {"metaProgram", "erase", "stream"}
  BY <1>1, <1>4, QuietStep
<1>5. QED BY <1>2, <1>3, <1>4

LEMMA NextRefines == DeviceInv /\ [Next]_vars => [Protocol!Next]_(Protocol!vars)
<1> SUFFICES ASSUME DeviceInv, [Next]_vars PROVE Stutter \/ Protocol!Next
  BY StutterStep
<1>1. CASE MetaProgram
  <2>1. /\ meta' = buf /\ app' = app /\ starts' = starts /\ pc = "metaProgram"
        /\ pc' # "metaProgram"
    BY <1>1 DEF MetaProgram, DeviceInv, AllInv, TypeInv, Shape
  <2>2. Page' = Page
    BY <2>1 DEF Page
  <2>3. QED BY <2>1, <2>2, InstalledFrame DEF Stutter, Phase, Fallback
<1>2. CASE StubOnReset \/ StubRestoreGood
  BY <1>2, StubWritesRefine DEF Protocol!Next
<1>3. CASE StubJumpToApp
  BY <1>3, JumpRefines DEF Protocol!Next
<1>4. CASE StubHang \/ FinishAndReset \/ Reboot
  BY <1>4, QuietStep DEF StubHang, FinishAndReset, Reboot, LoseRam, persistent
<1>5. CASE IapStartPass \/ IapAccept \/ IapSecondChance \/ IapProgramAgain
  BY <1>5, QuietStep
     DEF IapStartPass, IapAccept, IapSecondChance, IapProgramAgain, persistent
<1>6. CASE IapEraseBlock \/ IapStreamBlock
  BY <1>6, RewriteRefines DEF IapEraseBlock, IapStreamBlock, IapPCs, Protocol!Next
<1>7. CASE IapNodeMissing \/ IapReject \/ IapSucceed
  BY <1>7, IapEndRefines DEF Protocol!Next
<1>8. CASE AppConfirm \/ AppPromote
  BY <1>8, AppWritesRefine DEF Protocol!Next
<1>9. CASE Commit \/ CommitAbort
  BY <1>9, QuietStep DEF Commit, CommitStart, CommitEraseSector, CommitCopySector,
        CommitWipeSector, CommitAbort, persistent
<1>10. ASSUME NEW v \in Images, AppStage(v) PROVE Stutter
  BY <1>10, QuietStep DEF AppStage
<1>11. ASSUME NEW v \in Images, AppApply(v) PROVE Protocol!Next
  BY <1>11, ApplyRefines DEF Protocol!Next
<1>12. CASE PowerLoss
  BY <1>12, PowerLossRefines DEF Protocol!Next
<1>13. CASE UNCHANGED vars
  <2>1. meta' = meta /\ app' = app /\ pc' = pc /\ buf' = buf /\ starts' = starts
    BY <1>13 DEF vars, persistent, writing
  <2>2. QED BY <2>1, InstalledFrame DEF Stutter, Phase, Fallback, Page
<1>14. QED
  BY <1>1, <1>2, <1>3, <1>4, <1>5, <1>6, <1>7, <1>8, <1>9, <1>10, <1>11, <1>12,
     <1>13 DEF Next, Execute, Stub, Iap

\* If internal flash programs what it is given, what the stub, the IAP core and
\* the application do is the update protocol: an update is latched before the
\* area changes, BOOT_OK is only given for what is installed, and the stub starts
\* only what the protocol lets it start (boot_meta.h, boot_stub.c, boot_core.c).
THEOREM DeviceImplementsProtocol ==
    ASSUME MaxFaults = 0
    PROVE  Spec => ImplementsProtocol
<1>1. Init => DeviceInv
  BY InitTypeInv, InitTruth, InitVerified, InitOneCrash, InitTrials, InitHandover
     DEF DeviceInv, AllInv
<1>2. DeviceInv /\ [Next]_vars => DeviceInv'
  BY MaxFaults = 0, NextTypeInv, NextTruth, NextVerified, NextOneCrash, NextTrials,
     NextHandover DEF DeviceInv, AllInv
<1>3. QED
  BY <1>1, <1>2, InitRefines, NextRefines, PTL DEF Spec, ImplementsProtocol, Protocol!Spec
=============================================================================
