----------------------------- MODULE BootStream -----------------------------
(***************************************************************************)
(* One pass of boot_core_firmware_update (BootRAM/boot_core.c:58-147), byte *)
(* by byte: sectors of the SPI chip go into buffer_stream, leave it in      *)
(* pieces of transfer_size through transfer_data to the CRC unit and, in    *)
(* pass 1, to internal flash, and what remains is padded with 0xFF.         *)
(* Bootloader.tla repeats such passes and takes a block as one step; here   *)
(* is what happens inside them, for both storage modes of boot_storage.c.   *)
(*                                                                         *)
(* Abstractions.                                                           *)
(*  - A byte is named by its address on the SPI chip, so that any byte lost,*)
(*    repeated or moved shows.  Filler is 0xFF, padding and erased flash.   *)
(*  - SPI reads and flash writes are correct here and power stays on: both  *)
(*    kinds of failure are in Bootloader.tla.                               *)
(*  - All sizes are below 2^16, so that the uint16_t casts change nothing.  *)
(***************************************************************************)
EXTENDS Integers

CONSTANTS
    SectorSize,    \* BOOT_SPI_SECTOR_SIZE
    HeaderSize,    \* BOOT_SPI_SECTOR_HEADER_SIZE
    TransferSize,  \* BOOT_TRANSFER_SIZE
    BufferSize,    \* BOOT_STREAM_BUFFER_SIZE
    PageSize,      \* BOOT_APP_FLASH_PAGE_SIZE
    WordSize,      \* the 4 bytes that the CRC unit takes at a time
    AppSize,       \* BOOT_APP_FLASH_END - BOOT_APP_FLASH_START
    First, Last,   \* BOOT_SPI_FW_<slot>_SECTOR_FIRST and _LAST
    Links,         \* MODE1: the chains of sectors that the chip may hold
    Filler

\* What the defaults of boot_config.h and the HC32F460 map satisfy.  The #if
\* checks there ask only for TransferSize <= BufferSize and a whole number of
\* words in TransferSize.
ASSUME GeometryAssumption ==
    /\ SectorSize \in Nat \ {0}
    /\ HeaderSize \in 0 .. SectorSize
    /\ TransferSize \in Nat \ {0} /\ SectorSize <= TransferSize
    /\ BufferSize \in Nat /\ SectorSize + TransferSize <= BufferSize
    /\ WordSize \in Nat \ {0} /\ AppSize \in Nat
    /\ \E n \in 1 .. TransferSize : TransferSize = n * WordSize
    /\ \E n \in 1 .. AppSize : AppSize = n * TransferSize
    /\ PageSize = TransferSize
    /\ First \in Nat \ {0} /\ Last \in Nat /\ First <= Last
    /\ Links \subseteq [1 .. Last -> 0 .. Last]
    /\ Filler \notin Nat

Bytes == Nat \union {Filler}

VARIABLES
    fileSize,      \* binary_file_size
    start,         \* file_bin_start_point, an offset inside the first sector
    hookNode,      \* the start node that the hook reads from the meta page
    mode,          \* BOOT_SPI_FW_MODE, a build option: "ZONE" (MODE1) or "FIXED"
    link,          \* MODE1: the next-node field of each sector, 0 for none
    pass,          \* spi_data_crc_check_pass
    pc,
    node,          \* process_node
    remain,        \* remain_file_size
    buffer,        \* buffer_stream
    bufferSize,    \* buffer_size
    flashAddress,  \* flash_address, counted from app_start_address
    crc, crcSize,  \* the bytes that the CRC unit has taken, and their number
    flash          \* the application area

input == <<fileSize, start, hookNode, mode, link, pass>>
vars == <<input, pc, node, remain, buffer, bufferSize, flashAddress, crc, crcSize, flash>>

BufferIndex == 0 .. BufferSize - 1
AppIndex    == 0 .. AppSize - 1

TypeOK ==
    /\ fileSize \in 0 .. AppSize
    /\ start \in 0 .. SectorSize - 1
    /\ hookNode \in 0 .. Last
    /\ mode \in {"ZONE", "FIXED"}
    /\ link \in [1 .. Last -> 0 .. Last]
    /\ pass \in {0, 1}
    /\ pc \in {"first", "next", "drain", "last", "done", "fail"}
    /\ node \in 0 .. Last
    /\ remain \in Nat
    /\ buffer \in [BufferIndex -> Bytes]
    /\ bufferSize \in Nat
    /\ flashAddress \in Nat
    /\ crc \in [AppIndex -> Bytes]
    /\ crcSize \in Nat
    /\ flash \in [AppIndex -> Bytes]

-----------------------------------------------------------------------------
(* boot_storage.c.  In this module, too, the operators with an underscore   *)
(* in their name are plausible mistakes in the operator that follows.       *)

\* boot_storage_get_first_firmware_node; 0 stands for its answer false.
FirstNode ==
    IF mode = "ZONE" \/ hookNode \in First .. Last THEN hookNode ELSE First

\* boot_storage_read_next_node; 0 stands for its answer false.
NextNode(n) ==
    IF mode = "ZONE" THEN link[n] ELSE IF n < Last THEN n + 1 ELSE 0

HeaderLength == IF mode = "ZONE" THEN HeaderSize ELSE 0

\* boot_storage_read_node_payload: the address it reads.
PayloadAddress(n, offset) == SectorSize * (n - 1) + HeaderLength + offset

-----------------------------------------------------------------------------
Least(a, b) == IF a <= b THEN a ELSE b

FirstReadSize_NoClamp == SectorSize - start

FirstReadSize == Least(fileSize, SectorSize - start)

NextReadSize_NoClamp == SectorSize

NextReadSize == Least(remain, SectorSize)

\* boot_port_spi_read into buffer_stream[at ..].
ReadInto(at, address, size) ==
    buffer' = [i \in BufferIndex |-> IF i \in at .. at + size - 1
                                     THEN address + (i - at) ELSE buffer[i]]

\* The first sector; an empty file is refused by boot_storage_read_node_payload.
ReadFirst ==
    /\ pc = "first"
    /\ FirstNode # 0
    /\ FirstReadSize > 0
    /\ node' = FirstNode
    /\ ReadInto(0, PayloadAddress(FirstNode, start), FirstReadSize)
    /\ bufferSize' = FirstReadSize
    /\ remain' = fileSize - FirstReadSize
    /\ pc' = IF fileSize - FirstReadSize > 0 THEN "next" ELSE "last"
    /\ UNCHANGED <<input, flashAddress, crc, crcSize, flash>>

FirstMissing ==
    /\ pc = "first"
    /\ FirstNode = 0 \/ FirstReadSize = 0
    /\ pc' = "fail"
    /\ UNCHANGED <<input, node, remain, buffer, bufferSize, flashAddress, crc, crcSize, flash>>

\* The outer loop: one more sector behind what the buffer already holds.
ReadNext ==
    /\ pc = "next"
    /\ NextNode(node) # 0
    /\ node' = NextNode(node)
    /\ ReadInto(bufferSize, PayloadAddress(NextNode(node), 0), NextReadSize)
    /\ bufferSize' = bufferSize + NextReadSize
    /\ remain' = remain - NextReadSize
    /\ pc' = "drain"
    /\ UNCHANGED <<input, flashAddress, crc, crcSize, flash>>

NextMissing ==
    /\ pc = "next"
    /\ NextNode(node) = 0
    /\ pc' = "fail"
    /\ UNCHANGED <<input, node, remain, buffer, bufferSize, flashAddress, crc, crcSize, flash>>

-----------------------------------------------------------------------------
(* boot_core_accumulate_and_program, and the two loops that feed it.        *)

\* boot_port_crc_accumulate32 of the first n bytes of transfer_data.
Accumulate(data, n) ==
    /\ crc' = [i \in AppIndex |-> IF i \in crcSize .. crcSize + n - 1
                                  THEN data[i - crcSize] ELSE crc[i]]
    /\ crcSize' = crcSize + n

\* boot_port_flash_program_page programs one transfer (PORTING.md:50).
ProgramPage(data) ==
    flash' = IF pass = 1
             THEN [a \in AppIndex |->
                     IF a \in flashAddress .. flashAddress + TransferSize - 1
                     THEN data[a - flashAddress] ELSE flash[a]]
             ELSE flash

MustDrain_UntilRoom(size) == size > BufferSize - SectorSize

MustDrain_AtLeast(size) == size >= TransferSize

MustDrain(size) == size > TransferSize

NextPage(address) == address + PageSize

\* One turn of the inner loop.
Drain ==
    /\ pc = "drain"
    /\ MustDrain(bufferSize)
    /\ Accumulate(buffer, TransferSize)
    /\ ProgramPage(buffer)
    /\ flashAddress' = IF pass = 1 THEN NextPage(flashAddress) ELSE flashAddress
    /\ buffer' = [i \in BufferIndex |-> IF i < bufferSize - TransferSize
                                        THEN buffer[i + TransferSize] ELSE buffer[i]]
    /\ bufferSize' = bufferSize - TransferSize
    /\ UNCHANGED <<input, pc, node, remain>>

EndDrain ==
    /\ pc = "drain"
    /\ ~MustDrain(bufferSize)
    /\ pc' = IF remain > 0 THEN "next" ELSE "last"
    /\ UNCHANGED <<input, node, remain, buffer, bufferSize, flashAddress, crc, crcSize, flash>>

WholeWords_RoundedUp == ((bufferSize + WordSize - 1) \div WordSize) * WordSize

\* The bytes of the last transfer that make up whole words.
WholeWords == (bufferSize \div WordSize) * WordSize

LastTransfer_KeepsTail ==
    [i \in 0 .. TransferSize - 1 |-> IF i < bufferSize THEN buffer[i] ELSE Filler]

\* The padding starts at the first word that is not complete.
LastTransfer ==
    [i \in 0 .. TransferSize - 1 |-> IF i < WholeWords THEN buffer[i] ELSE Filler]

FinishPass ==
    /\ pc = "last"
    /\ Accumulate(LastTransfer, WholeWords)
    /\ ProgramPage(LastTransfer)
    /\ pc' = "done"
    /\ UNCHANGED <<input, node, remain, buffer, bufferSize, flashAddress>>

-----------------------------------------------------------------------------
\* A pass starts on any image that fits the application area; in pass 1 the
\* area has just been erased, and in pass 0 it does not matter.
Init ==
    /\ fileSize \in 0 .. AppSize
    /\ start \in 0 .. SectorSize - 1
    /\ hookNode \in 0 .. Last
    /\ mode \in {"ZONE", "FIXED"}
    /\ link \in Links
    /\ pass \in {0, 1}
    /\ pc = "first"
    /\ node = 0
    /\ remain = fileSize
    /\ buffer = [i \in BufferIndex |-> Filler]
    /\ bufferSize = 0
    /\ flashAddress = 0
    /\ crc = [i \in AppIndex |-> Filler]
    /\ crcSize = 0
    /\ flash = [a \in AppIndex |-> Filler]

Next ==
    \/ ReadFirst \/ FirstMissing \/ ReadNext \/ NextMissing
    \/ Drain \/ EndDrain \/ FinishPass

Spec == Init /\ [][Next]_vars

-----------------------------------------------------------------------------
\* No read overruns buffer_stream, the two memcpy calls never see overlapping
\* regions, and the last piece fits transfer_data (boot_core.c:42-45, 107-130).
BufferFits ==
    /\ pc = "first" => FirstReadSize <= BufferSize
    /\ pc = "next"  => bufferSize + NextReadSize <= BufferSize
    /\ pc = "drain" => bufferSize <= 2 * TransferSize
    /\ pc = "last"  => bufferSize \in 1 .. TransferSize

\* Every page programmed lies inside [app_start_address, app_end_address): what
\* follows is the EEPROM emulation of the HC32F460 (boot_target_config.h).
ProgramsInsideApp ==
    (pass = 1 /\ (pc = "last" \/ (pc = "drain" /\ MustDrain(bufferSize))))
        => flashAddress + TransferSize <= AppSize

\* The CRC that decides about success was taken over exactly the bytes that the
\* application area now holds; everything behind them is blank.
CrcCoversFlash ==
    (pc = "done" /\ pass = 1)
        => \A a \in AppIndex : flash[a] = IF a < crcSize THEN crc[a] ELSE Filler

\* MODE2: a pass hands the CRC unit the whole words of the file, in order and
\* each once; the bytes of an incomplete last word are dropped.
FixedStreamIsFile ==
    (pc = "done" /\ mode = "FIXED")
        => /\ crcSize = fileSize - (fileSize % WordSize)
           /\ \A i \in 0 .. crcSize - 1 : crc[i] = PayloadAddress(FirstNode, start + i)

StageLeft ==
    CASE pc \in {"first", "drain"} -> 2
      [] pc \in {"next", "last"}   -> 1
      [] OTHER -> 0

\* A pass ends, even on a MODE1 chain that returns to itself: each step brings it
\* closer, by bytes of the file still to be read, bytes still to be drained, or
\* the stage of the loops.  It hangs on remain_file_size, an unsigned number, never
\* being less than what a turn takes off it, and on no turn that takes nothing.
PassAdvances ==
    [][/\ remain' \in Nat /\ bufferSize' \in Nat
       /\ \/ remain' < remain
          \/ /\ remain' = remain
             /\ \/ bufferSize' < bufferSize
                \/ bufferSize' = bufferSize /\ StageLeft' < StageLeft]_vars
=============================================================================
