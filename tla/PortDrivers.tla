----------------------------- MODULE PortDrivers -----------------------------
(***************************************************************************)
(* The code below boot_port.h on the two MCUs, side by side.               *)
(*                                                                         *)
(* On the HC32F460 the flash driver, the SPI NOR driver and the CRC unit   *)
(* have no register or variable in common, their functions never call one  *)
(* another, and interrupts are off while they run (boot_core.c:52); the    *)
(* STM32F4 port is chosen by boot_mcu_select.h in place of them.  What one *)
(* of them does is therefore no input of another, and it is enough to let  *)
(* one of them move while the others stay where they begin.  Bootloader    *)
(* and BootStream show what the callers make of them.                      *)
(***************************************************************************)
EXTENDS Hc32Flash, Stm32Port, SpiNor, Crc32, BootConfig

VARIABLE part   \* the one that moves

portVars == <<part, vars, norVars, f4vars, crcVars>>

-----------------------------------------------------------------------------
\* A part that does not move has one initial state.
FlashParked == /\ ~optend /\ ~cache /\ request = Request("program", MetaAddress, 1, MetaAddress)
               /\ \A w \in Words : flash[w] = "Old"

NorParked == /\ \A n \in SecondChipSizes : size[2] <= n
             /\ \A c \in Chips : fourByte[c] = (size[c] > ShortSpan)
             /\ ~rx.new /\ ~rx.overrun

Stm32Parked == cs = "high" /\ \A n \in ImageSizes : imageSize <= n

PortsInit ==
    /\ part \in {"flash", "nor", "crc", "stm32"}
    /\ Init /\ (part # "flash" => FlashParked)
    /\ NorInit /\ (part # "nor" => NorParked)
    /\ PortInit /\ (part # "stm32" => Stm32Parked)
    /\ CrcInit

FlashMoves == /\ part = "flash" /\ Next
              /\ UNCHANGED <<part, norVars, f4vars, crcVars>>

NorMoves == /\ part = "nor" /\ NorNext
            /\ UNCHANGED <<part, vars, f4vars, crcVars>>

Stm32Moves == /\ part = "stm32" /\ PortNext
              /\ UNCHANGED <<part, vars, norVars, crcVars>>

CrcMoves == /\ part = "crc" /\ CrcNext
            /\ UNCHANGED <<part, vars, norVars, f4vars>>

PortsNext == FlashMoves \/ NorMoves \/ Stm32Moves \/ CrcMoves

\* The processor runs, the flash controller and the SPI unit end what they have
\* begun; nothing is assumed of the SPI chips.
PortsSpec ==
    /\ PortsInit /\ [][PortsNext]_portVars
    /\ WF_portVars(FlashMoves /\ Driver)
    /\ WF_portVars(FlashMoves /\ EfmFinish)
    /\ WF_portVars(NorMoves /\ NorDriver)
    /\ WF_portVars(NorMoves /\ SpiFinish)
=============================================================================
