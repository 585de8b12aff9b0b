----------------------------- MODULE NorGeometry -----------------------------
(***************************************************************************)
(* The SPI NOR chips of the HC32F460 board and the clocks that time them.  *)
(***************************************************************************)
EXTENDS Naturals

CONSTANTS
    SectorSize,         \* BOOT_SPI_SECTOR_SIZE
    FirstChipSize,      \* sFLASH_SPI_CHIPSIZE[0]
    SecondChipSizes,    \* what sFLASH_SPI_CHIPSIZE[1] may be; 0: no second chip
    ShortSpan,          \* 2^24: what an address of three bytes reaches
    WipeFirst, WipeLast,\* BOOT_SPI_FW_*_SECTOR_FIRST and _LAST of one slot
    Oscillator,         \* HRC_VALUE, MRC_VALUE, LRC_VALUE, XTAL_VALUE, XTAL32_VALUE
    Clocks              \* settings of CKSWR and PLLCFGR that may be found

\* RAM_GetClockFreq, as far as it is used: the frequency of the system clock.
SysclkFreq(k) ==
    IF k.source = "PLL"
    THEN ((Oscillator[k.pllin] \div (k.m + 1)) * (k.n + 1)) \div (k.p + 1)
    ELSE Oscillator[k.source]

\* The number of status polls in RAM_SpiFlash_WaitForWriteEnd.
PollLimit(k) == SysclkFreq(k) \div 1000

\* A limit of 0 would wrap around; no oscillator is that slow.  If there is a
\* second chip, the window lies on the two.
ASSUME NorAssumption ==
    /\ \A n \in {SectorSize, FirstChipSize, ShortSpan, WipeFirst, WipeLast} : n \in Nat \ {0}
    /\ SecondChipSizes \subseteq Nat
    /\ \A n \in {FirstChipSize} \union SecondChipSizes : n % SectorSize = 0
    /\ WipeFirst <= WipeLast
    /\ \A m \in SecondChipSizes \ {0} : WipeLast * SectorSize < FirstChipSize + m
    /\ Clocks # {} /\ \A k \in Clocks : PollLimit(k) \in Nat \ {0}
=============================================================================
