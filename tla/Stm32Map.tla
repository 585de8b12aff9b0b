------------------------------ MODULE Stm32Map ------------------------------
(***************************************************************************)
(* The flash of an STM32F4 as its port sees it.  Addresses are counted in   *)
(* words from 0x08000000; a sector has one, four or eight units of 16 KB.   *)
(***************************************************************************)
EXTENDS Integers

CONSTANTS
    Unit,               \* words in 16 KB
    LastSector,         \* the last sector of the device
    TableLast,          \* the last sector in the table of the port
    Stm32Start,         \* BOOT_STM32F4_APP_START
    Stm32End,           \* BOOT_STM32F4_APP_END
    DeviceEnd,          \* BOOT_STM32F4_DEVICE_FLASH_END_EXCL
    Transfer,           \* BOOT_STM32F4_TRANSFER_SIZE, also BOOT_STM32F4_FLASH_PAGE_SIZE
    MetaBegin, MetaEnd, \* the page at BOOT_META_FLASH_ADDR
    ImageSizes,         \* sizes of images, in words
    MaxFaults           \* how many HAL calls may fail

Sectors == 0 .. LastSector
Listed  == 0 .. TableLast

\* Where a sector begins.
SectorBegin(k) == IF k < 5 THEN k * Unit ELSE 8 * (k - 4) * Unit

\* The #error lines of the port.
PortChecks ==
    /\ Stm32Start >= 0
    /\ Stm32End <= DeviceEnd
    /\ Stm32End > Stm32Start

\* The application area is made of whole sectors and of whole transfers.
ASSUME Stm32Assumption ==
    /\ Unit \in Nat \ {0} /\ Transfer \in Nat \ {0}
    /\ LastSector \in 4 .. 11 /\ TableLast \in LastSector .. 11
    /\ Stm32Start \in Nat /\ Stm32End \in Nat /\ DeviceEnd \in Nat
    /\ PortChecks
    /\ DeviceEnd = 8 * (LastSector - 3) * Unit
    /\ \E k \in Sectors : Stm32Start = SectorBegin(k)
    /\ Stm32End = DeviceEnd \/ \E k \in Sectors : Stm32End = SectorBegin(k)
    /\ \E n \in 1 .. Stm32End : Stm32End - Stm32Start = n * Transfer
    /\ MetaBegin \in Nat /\ MetaEnd \in Nat
    /\ ImageSizes \subseteq Nat \ {0}
    /\ MaxFaults \in Nat
=============================================================================
