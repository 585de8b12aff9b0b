------------------------- MODULE PortDrivers_proofs -------------------------
(***************************************************************************)
(* What is proved of each part below boot_port.h holds of them side by     *)
(* side.                                                                   *)
(*                                                                         *)
(*   PortsRunTheirParts    every behaviour of PortsSpec is one of each of  *)
(*                         the four parts                                  *)
(*   PortsAreSafe          so their invariants hold in all of its states   *)
(*   PortsOnlyDoAsAsked    and their action properties in all of its steps *)
(***************************************************************************)
EXTENDS PortDrivers, Hc32Flash_proofs, SpiNor_proofs, Stm32Port_proofs, Crc32_proofs

\* A step of the composition is a step of one part and leaves the others alone.
LEMMA OneMoves ==
    ASSUME [PortsNext]_portVars
    PROVE  [Next]_vars /\ [NorNext]_norVars /\ [PortNext]_f4vars /\ [CrcNext]_crcVars
<1>1. CASE FlashMoves
  BY <1>1 DEF FlashMoves
<1>2. CASE NorMoves
  BY <1>2 DEF NorMoves
<1>3. CASE Stm32Moves
  BY <1>3 DEF Stm32Moves
<1>4. CASE CrcMoves
  BY <1>4 DEF CrcMoves
<1>5. CASE UNCHANGED portVars
  BY <1>5 DEF portVars
<1>6. QED BY <1>1, <1>2, <1>3, <1>4, <1>5 DEF PortsNext

\* The drivers of the HC32F460 have no register in common and the STM32F4 port takes
\* their place as a whole: put together, each of them still behaves as it does alone.
THEOREM PortsRunTheirParts == PortsSpec => Spec /\ NorSpec /\ PortSpec /\ CrcSpec
<1>1. PortsInit => Init /\ NorInit /\ PortInit /\ CrcInit
  BY DEF PortsInit
<1>2. QED
  BY <1>1, OneMoves, PTL DEF PortsSpec, Spec, NorSpec, PortSpec, CrcSpec

\* The state invariants of all four parts, in every state of the composition, for every
\* memory map, board, device, clock and message.
THEOREM PortsAreSafe ==
    PortsSpec => /\ []TypeOK /\ []StoresAreInOrder /\ []ProtectedAtRest
                 /\ []NorTypeOK /\ []OneChipAtATime /\ []NoByteIsLost /\ []ReadsAreRecent
                 /\ []OnlyWipedBytesChange
                 /\ []PortTypeOK /\ []LockedAtRest /\ []SuccessMeansImage
                 /\ []PortsAgree /\ []CrcIsReference /\ []MetaCrcCoversRecord
BY PortsRunTheirParts, FlashTypeCorrect, StoresAreSafe, FlashIsProtected,
   NorTypeCorrect, ChipsTakeTurns, EveryByteGoesOut, ReadsLagByTwo, WipesStayInWindow,
   PortTypeCorrect, RestsLocked, SuccessIsTheImage,
   CrcPortsAgree, CrcIsTheReference, MetaCrcIsTheReference, PTL

\* And what none of their steps may do: change a page, a word or a byte that nobody
\* asked for, return before the work is done, or go round without coming closer to the
\* end of the call.
THEOREM PortsOnlyDoAsAsked ==
    PortsSpec => /\ OnlyRequestedPages /\ CallsDeliver /\ Progress
                 /\ NorProgress
                 /\ OnlyAppAreaChanges /\ UpdateAdvances
BY PortsRunTheirParts, OnlyRequestedChange, CallsKeepContract, CallsAdvance,
   NorCallsAdvance, StaysInAppArea, UpdatesEnd, PTL
=============================================================================
