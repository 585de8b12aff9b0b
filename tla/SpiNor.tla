------------------------------- MODULE SpiNor -------------------------------
(***************************************************************************)
(* The SPI NOR part of boot_hc32f460_ram_driver.c: reading a buffer during *)
(* an update, wiping a slot's window from the application, and the         *)
(* configuration of the SPI unit that lies between the two.                *)
(*                                                                         *)
(* Three actors run side by side: the driver, the SPI unit, which shifts a *)
(* byte out and one in after each store into its data register, and the    *)
(* chips, which write on by themselves after a program command.            *)
(*                                                                         *)
(* A step of the driver is one access to a register; Following says which  *)
(* access comes after it.                                                  *)
(*                                                                         *)
(* Abstractions.                                                           *)
(*  - A byte of the chips is named by its place, any other byte is Void.   *)
(*  - A chip that is selected in the middle of a byte, or deselected in    *)
(*    one, executes no command.                                            *)
(*  - After RAM_Spi_Config, which sets up the chip select pins from an     *)
(*    uninitialised structure, the pins may be inverted or dead.  With     *)
(*    dead pins no chip is selected.  With inverted pins both chips are    *)
(*    selected between the calls, and a read goes to the chip that it does *)
(*    not mean; which of that chip's bytes come is not told: they are Void.*)
(***************************************************************************)
EXTENDS NorGeometry, Integers, FiniteSets

Chips == {1, 2}

\* What travels over the wire: an opcode, an address, data or a dummy byte.
Opcodes == {"enable", "read", "program", "status"}
Byte(kind, address) == [kind |-> kind, address |-> address]
NoByte == Byte("none", 0)
Dummy  == Byte("dummy", 0)
Zero   == Byte("zero", 0)

\* What comes back: the byte at a place of a chip, a status, or anything else.
Place(c, a) == <<c, a>>
Void        == <<0, 0>>
StatusReady == <<0, 1>>
StatusBusy  == <<0, 2>>

\* The command that a chip is receiving: the opcode, the bytes of the address that
\* are still to come, the address, and whether data has come.
Command(op, need, address, data) ==
    [op |-> op, need |-> need, address |-> address, data |-> data]
Idle    == Command("none", 0, 0, FALSE)
Ignored == Command("ignored", 0, 0, FALSE)

NoCall == [kind |-> "none", address |-> 0, count |-> 0]

VARIABLES
    size,       \* sFLASH_SPI_CHIPSIZE
    fourByte,   \* sFLASH_SPI_4BYTE_ADR_MODE
    session,    \* "app": the application calls; "iap": the update, in RAM
    pins,       \* how the chip select pins obey
    low,        \* the chips whose select pin the driver has driven low
    shift,      \* the byte that the SPI unit is transferring, or NoByte
    rx,         \* the receive buffer: its byte, whether it is new, and OVRERF
    spe,        \* CR1.SPE: the SPI unit runs
    chip,       \* the command that each chip is receiving
    wel,        \* the chips with the write enable latch set
    writing,    \* the places that chips are programming with zero
    call,       \* the call of the driver; of a wipe, address counts the sectors
    norPc,
    sent,       \* the bytes of sendBufData that have gone out
    again,      \* the sector is being written for the second time
    got,        \* the last byte that the driver took
    stored,     \* the number of bytes it has stored in the caller's buffer
    polls       \* u32Timeout of RAM_SpiFlash_WaitForWriteEnd

board == <<size, fourByte>>
spi   == <<shift, rx, spe>>
chips == <<chip, wel, writing>>
counts == <<again, got, stored, polls>>
norVars == <<board, session, pins, low, spi, chips, call, norPc, sent, counts>>

-----------------------------------------------------------------------------
(* Addresses.                                                               *)

ChipOrder_Greater(a) ==
    IF a > size[1] THEN IF size[2] # 0 THEN 2 ELSE 0 ELSE 1

\* RAM_AddressToChipOrder: the chip, 0 for none, and the address within it.
ChipOrder(a) ==
    IF a >= size[1] THEN IF size[2] # 0 THEN 2 ELSE 0 ELSE 1

ChipAddress(a) == IF ChipOrder(a) = 2 THEN a - size[1] ELSE a

AddressLength(c) == IF fourByte[c] THEN 4 ELSE 3

CallAddress == IF call.kind = "wipe" THEN call.address * SectorSize ELSE call.address

\* The chip that the call is about, and where on it.
Target == ChipOrder(CallAddress)
TargetAddress == ChipAddress(CallAddress)

\* Byte number sent of what RAM_sFlashAddressPushToMessage has put together;
\* every byte of the address stands for the whole of it.
MessageByte ==
    IF sent = 0 THEN Byte(IF call.kind = "wipe" THEN "program" ELSE "read", 0)
    ELSE Byte("address",
              IF fourByte[Target] THEN TargetAddress ELSE TargetAddress % ShortSpan)

-----------------------------------------------------------------------------
(* The order of the accesses.                                               *)

After ==
    [ \* RAM_sFLASH_WriteByteZero up to RAM_sFLASH_SendCmdAddress,
      enableSelect |-> "enableOther", enableOther |-> "enable",
      enable |-> "enableRelease", enableRelease |-> "programSelect",
      programSelect |-> "programOther", programOther |-> "await",
      \* RAM_SpiFlash_ReadData, which sends any command with an address,
      await |-> "select", select |-> "other", other |-> "put", put |-> "take",
      \* the end of RAM_sFLASH_WriteByteZero,
      zero |-> "zeroRelease", zeroRelease |-> "clock",
      \* RAM_SpiFlash_WaitForWriteEnd,
      clock |-> "statusWait", statusWait |-> "statusSelect",
      statusSelect |-> "statusOther", statusOther |-> "statusPut",
      statusPut |-> "statusTake", statusTake |-> "pollPut", pollPut |-> "pollTake",
      pollTake |-> "check", drain |-> "statusRelease", statusRelease |-> "written",
      \* a byte of RAM_sFLASH_ReadBufferProc, and its end,
      dataClear |-> "dataPut", dataPut |-> "dataStore", release |-> "return",
      \* RAM_Spi_Config.
      deinit |-> "pins", pins |-> "configRelease", configRelease |-> "start",
      start |-> "return"]

\* The loop of RAM_sFLASH_ReadBufferProc, with n bytes stored.
NextByte(n) == IF n < call.count THEN "dataClear" ELSE "release"

\* RAM_SpiFlash_ReadData does nothing for a chip that is absent, and the data is
\* clocked in whatever became of the header.
Following ==
    CASE norPc = "clear"     -> IF Target = 0 THEN NextByte(0) ELSE "await"
      [] norPc = "take"      -> IF sent <= AddressLength(Target) THEN "put" ELSE "settle"
      [] norPc = "settle"    -> IF call.kind = "wipe" THEN "zero" ELSE NextByte(0)
      [] norPc = "dataStore" -> NextByte(stored + 1)
      [] OTHER               -> After[norPc]

Access(S) == norPc \in S /\ norPc' = Following

-----------------------------------------------------------------------------
(* The chips.                                                               *)

BusyChips == {p[1] : p \in writing}

\* The first byte after the chip was selected; a busy chip only tells its status.
Opening(c, b) ==
    IF b.kind \notin Opcodes \/ (c \in BusyChips /\ b.kind # "status") THEN Ignored
    ELSE Command(b.kind, IF b.kind \in {"read", "program"} THEN AddressLength(c) ELSE 0,
                 0, FALSE)

\* A chip takes a byte: the opcode, the address, then data.
Receive(c, b) ==
    LET k == chip[c]
    IN  IF k.op = "none" THEN Opening(c, b)
        ELSE IF k.need > 0 THEN Command(k.op, k.need - 1, b.address % size[c], k.data)
        ELSE Command(k.op, 0, IF k.op = "read" THEN (k.address + 1) % size[c] ELSE k.address,
                     k.data \/ k.op = "program")

\* What it sends back meanwhile.
Reply(c) ==
    CASE chip[c].op = "read" /\ chip[c].need = 0 -> Place(c, chip[c].address)
      [] chip[c].op = "status" -> IF c \in BusyChips THEN StatusBusy ELSE StatusReady
      [] OTHER -> Void

\* The chips that are selected when the pins behave as p and those of the chips l
\* are driven low: an inverted pin selects its chip while it is driven high.
ListeningTo(p, l) ==
    CASE p = "follow"   -> l
      [] p = "inverted" -> {c \in Chips \ l : size[c] # 0}
      [] p = "dead"     -> {}

Listening == ListeningTo(pins, low)

\* The pins come to behave as p, and those of the chips l are driven low.  A chip
\* that is no longer selected ends its command, or drops it in the middle of a byte;
\* one that is selected in the middle of a byte takes no command.
Drive(p, l) ==
    LET next     == ListeningTo(p, l)
        ends(op) == {c \in Listening \ next : chip[c].op = op /\ shift = NoByte}
    IN  /\ pins' = p /\ low' = l
        /\ chip' = [c \in Chips |-> IF c \in next \intersect Listening THEN chip[c]
                                    ELSE IF c \in next /\ shift # NoByte THEN Ignored
                                    ELSE Idle]
        /\ wel' = wel \union ends("enable")
        /\ writing' = writing \union {Place(c, chip[c].address) :
                                   c \in {d \in ends("program") : chip[d].data /\ d \in wel}}

\* A chip ends a write, whatever the driver does meanwhile.
ChipFinish ==
    \E p \in writing :
       /\ writing' = writing \ {p}
       /\ wel' = wel \ {p[1]}
       /\ UNCHANGED <<board, session, pins, low, spi, chip, call, norPc, sent, counts>>

-----------------------------------------------------------------------------
(* The SPI unit.                                                            *)

SpiFinish ==
    /\ shift # NoByte
    /\ shift' = NoByte
    /\ chip' = [c \in Chips |-> IF c \in Listening THEN Receive(c, shift) ELSE chip[c]]
    /\ rx' = IF rx.new \/ rx.overrun THEN [rx EXCEPT !.overrun = TRUE]
             ELSE [byte |-> IF pins = "follow" /\ Cardinality(Listening) = 1
                            THEN Reply(CHOOSE c \in Listening : TRUE) ELSE Void,
                   new |-> TRUE, overrun |-> FALSE]
    /\ UNCHANGED <<board, session, pins, low, spe, wel, writing, call, norPc, sent, counts>>

-----------------------------------------------------------------------------
(* The driver, one register access after the other.                         *)

SpiIdle_Inverted == shift # NoByte

\* The condition of RAM_sFlash_SPI_Busy_Wait: the flag SPI_FLAG_IDLE is set while
\* the unit is not idle.
SpiIdle == shift = NoByte

\* The one before the chip is selected is also before the message is made.
SpiWait ==
    /\ Access({"await", "settle", "statusWait", "drain"})
    /\ SpiIdle
    /\ sent' = IF norPc = "await" THEN 0 ELSE sent
    /\ UNCHANGED <<board, session, pins, low, spi, chips, call, counts>>

\* RAM_sFLASH_CS_LOW: the chip's own pin low first, then the other one high.
Select ==
    /\ Access({"enableSelect", "programSelect", "select", "statusSelect"})
    /\ Drive(pins, low \union {Target})
    /\ UNCHANGED <<board, session, spi, call, sent, counts>>

DeselectOther ==
    /\ Access({"enableOther", "programOther", "other", "statusOther"})
    /\ Drive(pins, low \ {3 - Target})
    /\ UNCHANGED <<board, session, spi, call, sent, counts>>

Released_FirstOnly == {1}

Released == Chips

\* RAM_sFLASH_CS_HIGH.
Release ==
    /\ Access({"enableRelease", "zeroRelease", "statusRelease", "release", "configRelease"})
    /\ Drive(pins, low \ Released)
    /\ UNCHANGED <<board, session, spi, call, sent, counts>>

\* RAM_SpiFlash_WriteReadByte up to its store, behind the wait for the unit.
Put ==
    /\ Access({"put", "statusPut", "pollPut", "dataPut"})
    /\ SpiIdle
    /\ shift' = CASE norPc = "put"       -> MessageByte
                  [] norPc = "statusPut" -> Byte("status", 0)
                  [] OTHER               -> Dummy
    /\ sent' = IF norPc = "put" THEN sent + 1 ELSE sent
    /\ UNCHANGED <<board, session, pins, low, rx, spe, chips, call, counts>>

\* RAM_sFLASH_SendByte waits for nothing; a byte that meets a busy unit is lost.
Send ==
    /\ Access({"enable", "zero"})
    /\ shift' = IF shift # NoByte THEN shift
                ELSE IF norPc = "enable" THEN Byte("enable", 0) ELSE Zero
    /\ UNCHANGED <<board, session, pins, low, rx, spe, chips, call, sent, counts>>

\* RAM_SPI_ReceiveData8, for the caller's buffer or for the driver itself.  The
\* wait for a full receive buffer is commented out: the data register is read as
\* soon as it has been written.
TakeByte ==
    /\ got' = rx.byte
    /\ rx' = [rx EXCEPT !.new = FALSE]
    /\ UNCHANGED <<board, session, pins, low, shift, spe, chips, call, sent, again, polls>>

Take == Access({"take", "statusTake", "pollTake"}) /\ TakeByte /\ UNCHANGED stored

StoreByte == Access({"dataStore"}) /\ TakeByte /\ stored' = stored + 1

\* RAM_Spi_OverRun_Clear.
OverRunClear ==
    /\ Access({"clear", "dataClear"})
    /\ rx' = [rx EXCEPT !.overrun = FALSE]
    /\ UNCHANGED <<board, session, pins, low, shift, spe, chips, call, sent, counts>>

\* RAM_GetClockFreq sets the limit of the poll loop.
GetClockFreq ==
    /\ Access({"clock"})
    /\ \E k \in Clocks : polls' = PollLimit(k)
    /\ UNCHANGED <<board, session, pins, low, spi, chips, call, sent, again, got, stored>>

PollAgain_Forever(limit, busyBit) == busyBit

\* u32Timeout after the decrement, and the busy bit of the status.
PollAgain(limit, busyBit) == limit # 0 /\ busyBit

AfterPolls_Release == "statusRelease"

\* The wait for the unit before the chip is released; the result of the polls
\* is ignored.
AfterPolls == "drain"

\* The status may be a byte that is left from before, with any bit 0.
CheckStatus ==
    /\ norPc = "check"
    /\ polls' = polls - 1
    /\ \E busyBit \in IF got \in {StatusReady, StatusBusy} THEN {got = StatusBusy} ELSE BOOLEAN :
          norPc' = IF PollAgain(polls', busyBit) THEN "pollPut" ELSE AfterPolls
    /\ UNCHANGED <<board, session, pins, low, spi, chips, call, sent, again, got, stored>>

\* RAM_Spi_Config up to the chip select pins: SPI_DeInit ends any transfer.
DeInit ==
    /\ Access({"deinit"})
    /\ spe' = FALSE
    /\ shift' = NoByte
    /\ UNCHANGED <<board, session, pins, low, rx, chips, call, sent, counts>>

\* RAM_GPIO_Init drives the pins high, with fields of stcPortInit that nobody has
\* set: the pins come up as meant, inverted or dead, or an assertion of
\* RAM_GPIO_Init fails.
CsPinInit ==
    /\ Access({"pins"})
    /\ \E p \in {"follow", "inverted", "dead"} : Drive(p, {})
    /\ UNCHANGED <<board, session, spi, call, sent, counts>>

CsPinAssert ==
    /\ norPc = "pins" /\ norPc' = "fault"
    /\ call' = [call EXCEPT !.kind = "fault"]
    /\ UNCHANGED <<board, session, pins, low, spi, chips, sent, counts>>

\* RAM_SPI_Cmd.
SpiEnable ==
    /\ Access({"start"})
    /\ spe' = TRUE
    /\ UNCHANGED <<board, session, pins, low, shift, rx, chips, call, sent, counts>>

\* RAM_sFLASH_WriteByteZero for the sector of the loop of RAM_sFLASH_WipeFwSlot.
WriteByteZero ==
    /\ norPc = "sector" /\ call.address <= WipeLast
    /\ norPc' = IF Target = 0 THEN "written" ELSE "enableSelect"
    /\ UNCHANGED <<board, session, pins, low, spi, chips, call, sent, counts>>

\* Every sector is written twice.
ByteZeroWritten ==
    /\ norPc = "written" /\ norPc' = "sector"
    /\ again' = ~again
    /\ call' = IF again THEN [call EXCEPT !.address = @ + 1] ELSE call
    /\ UNCHANGED <<board, session, pins, low, spi, chips, sent, got, stored, polls>>

CallReturns ==
    /\ norPc = "return" \/ (norPc = "sector" /\ call.address > WipeLast)
    /\ norPc' = "idle"
    /\ call' = NoCall
    /\ UNCHANGED <<board, session, pins, low, spi, chips, sent, counts>>

Begin(first, kind, address, count) ==
    /\ norPc = "idle" /\ norPc' = first
    /\ call' = [kind |-> kind, address |-> address, count |-> count]
    /\ stored' = 0
    /\ UNCHANGED <<board, pins, low, spi, chips, sent, again, got, polls>>

\* boot_fw_zone_commit_candidate_as_good wipes CANDIDATE at its end.
WipeCall ==
    /\ session = "app"
    /\ Begin("sector", "wipe", WipeFirst, 0)
    /\ UNCHANGED session

\* boot_port_spi_config, once, as the update begins.  The application has
\* finished its own writes long before.
ConfigCall ==
    /\ session = "app"
    /\ writing = {}
    /\ session' = "iap"
    /\ Begin("deinit", "config", 0, 0)

\* RAM_sFLASH_ReadBuffer as boot_port_spi_read calls it; it always returns true.
ReadCall(a, count) ==
    /\ session = "iap"
    /\ Begin("clear", "read", a, count)
    /\ UNCHANGED session

-----------------------------------------------------------------------------
\* The boards, and the SPI unit as the application leaves it: on and idle, with
\* anything in its receive buffer.
NorInit ==
    /\ size \in {<<FirstChipSize, n>> : n \in SecondChipSizes}
    /\ fourByte \in [Chips -> BOOLEAN]
    /\ \A c \in Chips : /\ size[c] > ShortSpan => fourByte[c]
                        /\ size[c] = 0 => ~fourByte[c]
    /\ session = "app"
    /\ pins = "follow"
    /\ low = {}
    /\ shift = NoByte /\ spe = TRUE
    /\ rx \in [byte : {Void}, new : BOOLEAN, overrun : BOOLEAN]
    /\ chip = [c \in Chips |-> Idle]
    /\ wel = {} /\ writing = {}
    /\ call = NoCall /\ norPc = "idle" /\ sent = 0 /\ again = FALSE
    /\ got = Void /\ stored = 0 /\ polls = 0

NorDriver ==
    \/ SpiWait \/ Select \/ DeselectOther \/ Release \/ Put \/ Send \/ Take \/ StoreByte
    \/ OverRunClear \/ GetClockFreq \/ CheckStatus
    \/ DeInit \/ CsPinInit \/ CsPinAssert \/ SpiEnable
    \/ WriteByteZero \/ ByteZeroWritten \/ CallReturns

\* MODE2 reads from the start of a sector, and never beyond its end.  The slots'
\* windows are constants, laid out for the largest board.
ReadAddresses ==
    UNION {{n * SectorSize : n \in 0 .. (FirstChipSize + m) \div SectorSize - 1} :
               m \in SecondChipSizes}

NorNext ==
    \/ WipeCall \/ ConfigCall
    \/ \E a \in ReadAddresses : ReadCall(a, SectorSize)
    \/ NorDriver
    \/ SpiFinish
    \/ ChipFinish

NorSpec == NorInit /\ [][NorNext]_norVars

-----------------------------------------------------------------------------
Places == {Place(c, a) : c \in Chips, a \in 0 .. size[1] + size[2]}
Bytes == Places \union {Void, StatusReady, StatusBusy}

NorPcs == DOMAIN After \union
    {"idle", "clear", "take", "settle", "dataStore", "check", "sector", "written", "return",
     "fault"}

NorTypeOK ==
    /\ low \subseteq Chips /\ wel \subseteq Chips
    /\ writing \subseteq Places
    /\ rx \in [byte : Bytes, new : BOOLEAN, overrun : BOOLEAN]
    /\ shift \in [kind : Opcodes \union {"none", "address", "dummy", "zero"}, address : Nat]
    /\ spe \in BOOLEAN
    /\ chip \in [Chips -> [op : Opcodes \union {"none", "ignored"}, need : 0 .. 4,
                           address : 0 .. size[1] + size[2], data : BOOLEAN]]
    /\ call \in [kind : {"none", "wipe", "config", "read", "fault"},
                 address : Nat, count : {0, SectorSize}]
    /\ norPc \in NorPcs /\ sent \in 0 .. 5 /\ again \in BOOLEAN
    /\ got \in Bytes
    /\ stored \in 0 .. SectorSize
    /\ polls \in Nat /\ \E k \in Clocks : polls <= PollLimit(k)

\* While the pins do as they are told, two chips never listen at once, and none is
\* left selected between calls: the address of the next command would otherwise
\* reach both.  With pins that RAM_Spi_Config has left inverted it is not so:
\* RAM_sFLASH_CS_HIGH itself selects every chip then.
OneChipAtATime ==
    pins = "follow" =>
        /\ Cardinality(Listening) <= 1
        /\ norPc = "idle" => Listening = {}

\* RAM_sFLASH_SendByte waits for nothing, so whoever calls it must have left the
\* unit idle: otherwise the write enable or the zero would be lost.  (Behind the
\* byte nobody waits either: a select that rises too early cuts it off, see Drive.)
NoByteIsLost == norPc \in {"enable", "zero"} => shift = NoByte /\ spe

\* The place of byte i of a read.
PlaceOf(i) == Place(Target, TargetAddress + i - 1)

\* A read that lies on the chips, with pins that obey.
OnTheChips == /\ call.kind = "read" /\ pins = "follow"
              /\ call.address + call.count <= size[1] + size[2]

\* As nobody waits for the receive buffer, a read is late; but from the third
\* byte on it is late by at most two bytes: an image cannot be shifted by more.
ReadsAreRecent ==
    (OnTheChips /\ stored >= 3) => got \in {PlaceOf(i) : i \in stored - 2 .. stored}

\* A wipe touches nothing but the first byte of each sector of its window.
OnlyWipedBytesChange ==
    \A p \in writing :
       \E sector \in WipeFirst .. WipeLast :
          (IF p[1] = 2 THEN size[1] ELSE 0) + p[2] = sector * SectorSize

-----------------------------------------------------------------------------
(* How far a call has come: the first of four counts that differs tells.    *)

\* Every sector is written twice.
WritesLeft ==
    IF call.kind = "wipe"
    THEN 2 * (WipeLast + 1 - call.address) - (IF again THEN 1 ELSE 0) ELSE 0

\* The way to the end of the call, or of the write; a loop is one place on it.
Stage ==
    [ sector |-> 23, enableSelect |-> 22, enableOther |-> 21, enable |-> 20,
      enableRelease |-> 19, programSelect |-> 18, programOther |-> 17, clear |-> 17,
      await |-> 16, select |-> 15, other |-> 14, put |-> 13, take |-> 13, settle |-> 12,
      zero |-> 11, zeroRelease |-> 10, clock |-> 9, statusWait |-> 8, statusSelect |-> 7,
      statusOther |-> 6, statusPut |-> 5, statusTake |-> 4, pollPut |-> 3, pollTake |-> 3,
      check |-> 3, drain |-> 2, statusRelease |-> 1, written |-> 0,
      deinit |-> 5, pins |-> 4, configRelease |-> 3, start |-> 2,
      dataClear |-> 3, dataPut |-> 3, dataStore |-> 3, release |-> 2,
      return |-> 1, idle |-> 0, fault |-> 0]

StageLeft == Stage[norPc]

\* The turns of the loop over the message, the status polls, or the caller's buffer.
TurnsLeft ==
    CASE norPc \in {"put", "take"}                       -> AddressLength(Target) + 1 - sent
      [] norPc \in {"pollPut", "pollTake", "check"}      -> polls
      [] norPc \in {"dataClear", "dataPut", "dataStore"} -> call.count - stored
      [] OTHER -> 0

\* The accesses before the next turn.
AccessesLeft ==
    CASE norPc \in {"pollPut", "dataClear"}          -> 2
      [] norPc \in {"take", "pollTake", "dataPut"}   -> 1
      [] OTHER -> 0

NorCloser ==
    /\ WritesLeft' \in Nat /\ TurnsLeft' \in Nat
    /\ \/ WritesLeft' < WritesLeft
       \/ /\ WritesLeft' = WritesLeft
          /\ \/ StageLeft' < StageLeft
             \/ /\ StageLeft' = StageLeft
                /\ \/ TurnsLeft' < TurnsLeft
                   \/ TurnsLeft' = TurnsLeft /\ AccessesLeft' < AccessesLeft

\* Every access brings the end of the call closer, and neither the SPI unit nor a
\* chip puts it off: whatever they answer, a call makes finitely many accesses.
NorProgress ==
    [][norPc # "idle" =>
          IF NorDriver THEN NorCloser
          ELSE UNCHANGED <<WritesLeft, StageLeft, TurnsLeft, AccessesLeft>>]_norVars

\* Every call returns, even if a chip stays busy for ever.
NorCallsEnd == norPc # "idle" ~> norPc \in {"idle", "fault"}
=============================================================================
