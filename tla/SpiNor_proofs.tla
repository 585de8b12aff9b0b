---------------------------- MODULE SpiNor_proofs ----------------------------
(***************************************************************************)
(* The SPI NOR driver, for every board, window and sector size: types, one *)
(* chip at a time, no byte lost, reads late by two bytes at most, and a    *)
(* wipe that changes its sectors' first bytes only.                        *)
(*                                                                         *)
(* The inductive invariant says, for each place in the code, which call is *)
(* in progress (CallFits), which select pin is low (Selection), what is on *)
(* the wire (Wire), what the chip has made of what it received (Heard),    *)
(* and, for a read, how far the receive buffer is behind (Stream).         *)
(***************************************************************************)
EXTENDS SpiNor, Arithmetic, FiniteSetTheorems, TLAPS

-----------------------------------------------------------------------------
(* The inductive invariant.                                                 *)

HeaderPcs == {"await", "select", "other", "put", "take", "settle"}
EnablePcs == {"enableOther", "enable", "enableRelease"}
ByteZeroPcs == {"enableSelect", "programSelect", "programOther", "zero", "zeroRelease",
               "clock", "statusWait", "statusSelect"}
StatusPcs == {"statusOther", "statusPut", "statusTake", "pollPut", "pollTake", "check",
              "drain", "statusRelease"}
WritePcs == EnablePcs \union ByteZeroPcs \union StatusPcs
DataPcs == {"dataClear", "dataPut", "dataStore"}
ConfigPcs == {"deinit", "pins", "configRelease", "start"}

\* The boards that NorInit admits.
BoardFits ==
    /\ size \in [Chips -> Nat] /\ size[1] = FirstChipSize /\ size[2] \in SecondChipSizes
    /\ fourByte \in [Chips -> BOOLEAN]
    /\ \A c \in Chips : ~fourByte[c] => size[c] <= ShortSpan

\* Which call is where in the code, and in which session.
CallFits ==
    /\ session \in {"app", "iap"} /\ pins \in {"follow", "inverted", "dead"}
    /\ norPc = "idle" => call.kind = "none"
    /\ norPc = "fault" => call.kind = "fault"
    /\ norPc \in ConfigPcs => call.kind = "config"
    /\ norPc \in WritePcs \union {"sector", "written"} => call.kind = "wipe"
    /\ norPc \in DataPcs \union {"clear", "release"} => call.kind = "read"
    /\ norPc \in HeaderPcs => call.kind \in {"wipe", "read"}
    /\ norPc = "return" => call.kind \in {"read", "config"}
    /\ norPc \in WritePcs \union HeaderPcs => Target \in Chips
    /\ call.kind = "wipe" => /\ session = "app"
                             /\ call.address \in WipeFirst .. WipeLast + 1
                             /\ norPc # "sector" => call.address <= WipeLast
    /\ call.kind = "read" => /\ session = "iap" /\ call.count = SectorSize
                             /\ call.address % SectorSize = 0
    /\ call.kind \in {"config", "fault"} => session = "iap"
    /\ session = "app" => pins = "follow" /\ spe

\* The pin of the call's chip is low, and no other; unless the pins are inverted, the
\* other chips have no command.
Selected ==
    \/ norPc \in DataPcs \union EnablePcs \union StatusPcs
    \/ norPc \in {"programOther", "other", "put", "take", "settle", "zero", "zeroRelease",
                  "release"}
    \/ norPc \in {"await", "select"} /\ call.kind = "wipe"

Selection ==
    /\ low = IF Selected /\ Target \in Chips THEN {Target} ELSE {}
    /\ pins # "inverted" => \A c \in Chips \ low : chip[c] = Idle

\* Byte number sent - 1 of the message.
LastByte ==
    IF sent = 1 THEN Byte(IF call.kind = "wipe" THEN "program" ELSE "read", 0)
    ELSE Byte("address",
              IF fourByte[Target] THEN TargetAddress ELSE TargetAddress % ShortSpan)

\* The byte on the wire, and how much of the message has gone out.
Wire ==
    /\ norPc \in {"sector", "written", "enableSelect", "enableOther", "enable", "select",
                  "other", "zero", "statusSelect", "statusOther", "statusRelease"}
         => shift = NoByte
    /\ session = "app" /\ norPc = "idle" => shift = NoByte
    /\ norPc \in {"enableRelease", "programSelect", "programOther"}
         => shift \in {NoByte, Byte("enable", 0)}
    /\ norPc = "await" /\ call.kind = "wipe" => shift \in {NoByte, Byte("enable", 0)}
    /\ norPc = "zeroRelease" => shift \in {NoByte, Zero}
    /\ norPc \in StatusPcs => shift \in {NoByte, Dummy, Byte("status", 0)}
    /\ norPc \in DataPcs \union {"release"} => shift \in {NoByte, Dummy} \/ Target = 0
    /\ norPc \in {"select", "other"} => sent = 0
    /\ norPc \in {"put", "take", "settle"} => shift = NoByte \/ (sent > 0 /\ shift = LastByte)
    /\ norPc = "put" => sent <= AddressLength(Target)
    /\ norPc = "take" => sent \in 1 .. AddressLength(Target) + 1
    /\ norPc \in {"settle", "zero"} => sent = AddressLength(Target) + 1

\* The bytes of the message that have arrived.
Arrived == IF shift = NoByte THEN sent ELSE sent - 1

\* The chip that has received so much of the message.
InMessage ==
    \/ chip[Target] = Idle /\ Arrived = 0
    \/ /\ chip[Target].op = (IF call.kind = "wipe" THEN "program" ELSE "read") /\ Arrived > 0 /\ ~chip[Target].data
       /\ chip[Target].need = AddressLength(Target) + 1 - Arrived
       /\ (Arrived > 1 /\ TargetAddress < size[Target]) => chip[Target].address = TargetAddress
    \/ call.kind = "wipe" /\ chip[Target].op = "ignored"

\* What the chips have made of what they have received.
Heard ==
    /\ norPc \in EnablePcs \union StatusPcs
         => chip[Target].op \in {"none", "enable", "status", "ignored"}
    /\ (norPc = "programOther" \/ (norPc \in {"await", "select", "other"} /\ call.kind = "wipe"))
         => chip[Target].op = "ignored" \/ (chip[Target] = Idle /\ shift = NoByte)
    /\ norPc = "other" /\ call.kind = "read" /\ pins = "follow" => chip[Target] = Idle
    /\ norPc \in {"put", "take", "settle", "zero"} /\ pins = "follow" => InMessage
    /\ norPc = "zeroRelease" /\ chip[Target].op = "program"
         => chip[Target].need = 0 /\ chip[Target].address = TargetAddress
    /\ session = "iap" => /\ writing = {}
                          /\ \A c \in Chips : chip[c].op # "program"
                          /\ shift = NoByte \/ shift.kind \in {"read", "address", "dummy"}

\* The bytes that the chip has sent.
Sent == (IF norPc = "dataStore" THEN stored + 1 ELSE stored) - (IF shift = NoByte THEN 0 ELSE 1)

\* The receive buffer holds byte number i of the read, for an i in the range.
Holds(from, to) == \E i \in from .. to : rx.byte = PlaceOf(i)

\* How far a read has come, and how far the receive buffer is behind.
Stream ==
    /\ norPc \in DataPcs => stored < call.count
    /\ norPc \in HeaderPcs \union {"clear"} \/ call.kind = "wipe" => stored = 0
    /\ norPc \in DataPcs /\ OnTheChips =>
         /\ Sent \in Nat
         /\ chip[Target].op = "read" /\ chip[Target].need = 0
         /\ Sent < call.count => chip[Target].address = TargetAddress + Sent
         /\ rx.overrun => shift = NoByte
    /\ norPc = "dataPut" /\ OnTheChips => ~rx.overrun
    /\ norPc \in {"dataClear", "dataPut"} /\ OnTheChips =>
         /\ shift # NoByte => ~rx.new
         /\ rx.new /\ stored >= 1 => Holds(stored, stored)
         /\ shift = NoByte /\ stored >= 2 => Holds(stored - 1, stored)
         /\ stored >= 3 => Holds(stored - 2, stored)
    /\ norPc = "dataStore" /\ OnTheChips =>
         /\ shift # NoByte /\ rx.new /\ stored >= 1 => Holds(stored, stored)
         /\ shift = NoByte /\ stored >= 1 => Holds(stored, stored + 1)
         /\ stored >= 2 => Holds(stored - 1, stored + 1)

\* A poll loop that has begun has a turn left.
PollsLeft == norPc \in (StatusPcs \ {"drain", "statusRelease"})
                          \union {"statusWait", "statusSelect"} => polls > 0

NorInv ==
    /\ NorTypeOK /\ BoardFits /\ CallFits /\ Selection /\ Wire /\ Heard /\ Stream /\ PollsLeft
    /\ ReadsAreRecent /\ OnlyWipedBytesChange

-----------------------------------------------------------------------------
(* Boards and calls.                                                        *)

LEMMA NumbersFit ==
    /\ SectorSize \in Nat \ {0} /\ FirstChipSize \in Nat \ {0} /\ ShortSpan \in Nat \ {0}
    /\ WipeFirst \in Nat \ {0} /\ WipeLast \in Nat \ {0} /\ WipeFirst <= WipeLast
BY NorAssumption

\* The chip of a call, and the place on it.
LEMMA TargetFits ==
    ASSUME NorTypeOK, BoardFits
    PROVE  /\ CallAddress \in Nat
           /\ Target \in Chips \union {0}
           /\ TargetAddress \in Nat
           /\ Target \in Chips => size[Target] \in Nat \ {0}
           /\ Target = 1 => CallAddress < size[1] /\ TargetAddress = CallAddress
           /\ Target = 2 => /\ CallAddress >= size[1] /\ size[2] # 0
                            /\ TargetAddress = CallAddress - size[1]
           /\ Target = 0 => CallAddress >= size[1] /\ size[2] = 0
<1>1. size[1] \in Nat \ {0} /\ size[2] \in Nat
  BY NumbersFit DEF BoardFits, Chips
<1>2. CallAddress \in Nat
  <2>1. call.address \in Nat
    BY DEF NorTypeOK
  <2>2. QED BY <2>1, NumbersFit DEF CallAddress
<1>3. QED BY <1>1, <1>2 DEF Target, TargetAddress, ChipOrder, ChipAddress, Chips

\* What a wipe writes lies on the chip.
LEMMA StaysOnChip ==
    ASSUME NorTypeOK, BoardFits, CallFits, Target \in Chips,
           call.kind = "wipe" /\ norPc # "sector"
    PROVE  TargetAddress < size[Target]
<1>1. CASE Target = 1
  BY <1>1, TargetFits
<1>2. CASE Target = 2
  <2>1. size[2] \in SecondChipSizes \ {0} /\ size[1] = FirstChipSize /\ size[2] \in Nat
    BY <1>2, TargetFits DEF BoardFits, Chips
  <2>2. WipeLast * SectorSize < size[1] + size[2]
    BY <2>1, NorAssumption
  <2>3. call.address \in Nat /\ call.address <= WipeLast
    BY DEF NorTypeOK, CallFits
  <2>4. call.address * SectorSize <= WipeLast * SectorSize
    BY <2>3, NumbersFit, MultiplesApart
  <2>5. CallAddress = call.address * SectorSize
    BY DEF CallAddress
  <2>6. QED BY <1>2, <2>1, <2>2, <2>3, <2>4, <2>5, NumbersFit, TargetFits
<1>3. QED BY <1>1, <1>2 DEF Chips

LEMMA WholeMultiple ==
    ASSUME NEW x \in Nat, NEW n \in Nat \ {0}, x % n = 0
    PROVE  x = (x \div n) * n /\ x \div n \in Nat
BY Division

\* A read that lies on the chips lies on one of them.
LEMMA ReadStaysOnChip ==
    ASSUME NorTypeOK, BoardFits, CallFits, OnTheChips
    PROVE  Target \in Chips /\ TargetAddress + call.count <= size[Target]
<1> DEFINE a == call.address
<1>1. /\ a \in Nat /\ call.count = SectorSize /\ a % SectorSize = 0 /\ CallAddress = a
      /\ a + call.count <= size[1] + size[2]
  BY DEF NorTypeOK, CallFits, OnTheChips, CallAddress
<1>2. size[1] = FirstChipSize /\ size[1] \in Nat /\ size[2] \in Nat
  BY NumbersFit DEF BoardFits, Chips
<1>3. CASE a < size[1]
  <2>1. a = (a \div SectorSize) * SectorSize /\ a \div SectorSize \in Nat
    BY <1>1, NumbersFit, WholeMultiple
  <2>2. FirstChipSize % SectorSize = 0
    BY NorAssumption
  <2>3. /\ FirstChipSize = (FirstChipSize \div SectorSize) * SectorSize
        /\ FirstChipSize \div SectorSize \in Nat
    BY <2>2, NumbersFit, WholeMultiple
  <2>4. a + SectorSize <= FirstChipSize
    BY <1>2, <1>3, <2>1, <2>3, NumbersFit, RoomForOneMore
  <2>5. Target = 1 /\ TargetAddress = a
    BY <1>1, <1>2, <1>3, TargetFits DEF Chips
  <2>6. QED BY <1>1, <1>2, <2>4, <2>5 DEF Chips
<1>4. CASE a >= size[1]
  <2>1. size[2] # 0
    BY <1>1, <1>2, <1>4, NumbersFit
  <2>2. Target = 2 /\ TargetAddress = a - size[1]
    BY <1>1, <1>2, <1>4, <2>1, TargetFits DEF Chips
  <2>3. QED BY <1>1, <1>2, <2>2, NumbersFit DEF Chips
<1>5. QED BY <1>1, <1>2, <1>3, <1>4

\* A number below the divisor is its own remainder.
LEMMA SmallRemainder ==
    ASSUME NEW x \in Nat, NEW n \in Nat, x < n
    PROVE  x % n = x
<1>1. x = 0 * n + x /\ x \in 0 .. n - 1
  OBVIOUS
<1>2. QED BY <1>1, DivisionUnique

\* As long as the call stays, all that follows from it does.
LEMMA SameCall ==
    ASSUME UNCHANGED <<size, call>>
    PROVE  /\ Target' = Target /\ TargetAddress' = TargetAddress /\ CallAddress' = CallAddress
BY DEF Target, TargetAddress, CallAddress, ChipOrder, ChipAddress

\* The order of the accesses, one by one.
LEMMA FollowingIs ==
    /\ norPc = "enableSelect" => Following = "enableOther"
    /\ norPc = "enableOther" => Following = "enable"
    /\ norPc = "enable" => Following = "enableRelease"
    /\ norPc = "enableRelease" => Following = "programSelect"
    /\ norPc = "programSelect" => Following = "programOther"
    /\ norPc = "programOther" => Following = "await"
    /\ norPc = "await" => Following = "select"
    /\ norPc = "select" => Following = "other"
    /\ norPc = "other" => Following = "put"
    /\ norPc = "put" => Following = "take"
    /\ norPc = "zero" => Following = "zeroRelease"
    /\ norPc = "zeroRelease" => Following = "clock"
    /\ norPc = "clock" => Following = "statusWait"
    /\ norPc = "statusWait" => Following = "statusSelect"
    /\ norPc = "statusSelect" => Following = "statusOther"
    /\ norPc = "statusOther" => Following = "statusPut"
    /\ norPc = "statusPut" => Following = "statusTake"
    /\ norPc = "statusTake" => Following = "pollPut"
    /\ norPc = "pollPut" => Following = "pollTake"
    /\ norPc = "pollTake" => Following = "check"
    /\ norPc = "drain" => Following = "statusRelease"
    /\ norPc = "statusRelease" => Following = "written"
    /\ norPc = "dataClear" => Following = "dataPut"
    /\ norPc = "dataPut" => Following = "dataStore"
    /\ norPc = "release" => Following = "return"
    /\ norPc = "deinit" => Following = "pins"
    /\ norPc = "pins" => Following = "configRelease"
    /\ norPc = "configRelease" => Following = "start"
    /\ norPc = "start" => Following = "return"
    /\ norPc = "clear" => Following = IF Target = 0 THEN NextByte(0) ELSE "await"
    /\ norPc = "take" => Following = IF sent <= AddressLength(Target) THEN "put" ELSE "settle"
    /\ norPc = "settle" => Following = IF call.kind = "wipe" THEN "zero" ELSE NextByte(0)
    /\ norPc = "dataStore" => Following = NextByte(stored + 1)
BY DEF Following, After

LEMMA NorPcsAre ==
    NorPcs = {"enableSelect", "enableOther", "enable", "enableRelease", "programSelect",
              "programOther", "await", "select", "other", "put", "zero", "zeroRelease",
              "clock", "statusWait", "statusSelect", "statusOther", "statusPut", "statusTake",
              "pollPut", "pollTake", "drain", "statusRelease", "dataClear", "dataPut",
              "release", "deinit", "pins", "configRelease", "start",
              "idle", "clear", "take", "settle", "dataStore", "check", "sector", "written",
              "return", "fault"}
BY DEF NorPcs, After

\* The actions of NorNext in which one access of the driver leads to the next.
Accesses ==
    \/ SpiWait \/ Select \/ DeselectOther \/ Release \/ Put \/ Send \/ Take \/ StoreByte
    \/ OverRunClear \/ GetClockFreq \/ DeInit \/ CsPinInit \/ SpiEnable

AccessPcs == HeaderPcs \union (WritePcs \ {"check"}) \union DataPcs \union ConfigPcs
               \union {"clear", "release"}

LEMMA AccessesLead ==
    Accesses => /\ norPc \in AccessPcs /\ norPc' = Following /\ norPc' \in NorPcs
                /\ UNCHANGED <<size, fourByte, session, call, again>>
<1>1. Accesses => norPc \in AccessPcs /\ norPc' = Following
  BY DEF Accesses, Access, AccessPcs, HeaderPcs, WritePcs, EnablePcs, ByteZeroPcs, StatusPcs,
         DataPcs, ConfigPcs, SpiWait, Select, DeselectOther, Release, Put, Send, Take, StoreByte,
         OverRunClear, GetClockFreq, DeInit, CsPinInit, SpiEnable
<1>2. norPc \in AccessPcs => Following \in NorPcs
  BY FollowingIs, NorPcsAre
     DEF AccessPcs, HeaderPcs, WritePcs, EnablePcs, ByteZeroPcs, StatusPcs, DataPcs, ConfigPcs,
         NextByte
<1>3. Accesses => UNCHANGED <<size, fourByte, session, call, again>>
  BY DEF Accesses, board, counts, SpiWait, Select, DeselectOther, Release, Put, Send, Take,
         StoreByte, TakeByte, OverRunClear, GetClockFreq, DeInit, CsPinInit, SpiEnable
<1>4. QED BY <1>1, <1>2, <1>3

-----------------------------------------------------------------------------
(* Boards stay.                                                             *)

LEMMA BoardStays ==
    ASSUME [NorNext]_norVars
    PROVE  size' = size /\ fourByte' = fourByte /\ Bytes' = Bytes /\ Places' = Places
<1>1. size' = size /\ fourByte' = fourByte
  BY DEF NorNext, NorDriver, norVars, board, SpiWait, Select, DeselectOther, Release, Put, Send,
         Take, StoreByte, TakeByte, OverRunClear, GetClockFreq, CheckStatus, DeInit, CsPinInit,
         CsPinAssert, SpiEnable, WriteByteZero, ByteZeroWritten, CallReturns, WipeCall,
         ConfigCall, ReadCall, Begin, SpiFinish, ChipFinish
<1>2. QED BY <1>1 DEF Bytes, Places

LEMMA BoardKept == BoardFits /\ [NorNext]_norVars => BoardFits'
BY BoardStays DEF BoardFits

-----------------------------------------------------------------------------
(* The chip selects.                                                        *)

Commands == [op : Opcodes \union {"none", "ignored"}, need : 0 .. 4,
             address : 0 .. size[1] + size[2], data : BOOLEAN]

\* What a change of the chip select pins does to the chips.
LEMMA Driven ==
    ASSUME NorTypeOK, BoardFits, NEW p \in {"follow", "inverted", "dead"},
           NEW l \in SUBSET Chips, Drive(p, l), CallFits
    PROVE  /\ pins' = p /\ low' = l /\ wel' \subseteq Chips
           /\ chip' \in [Chips -> Commands]
           /\ \A c \in Chips : chip'[c] \in {chip[c], Idle, Ignored}
           /\ p # "inverted" => \A c \in Chips \ l : chip'[c] = Idle
           /\ \A q \in writing' : \/ q \in writing
                                 \/ \E c \in Listening \ ListeningTo(p, l) :
                                       chip[c].op = "program" /\ q = Place(c, chip[c].address)
           /\ writing' \subseteq Places
<1>1. /\ chip \in [Chips -> Commands] /\ low \subseteq Chips /\ wel \subseteq Chips
      /\ Idle \in Commands /\ Ignored \in Commands
  BY DEF NorTypeOK, Commands, Idle, Ignored, Command, BoardFits, Chips
<1>2. Listening \subseteq Chips
  <2>1. CASE pins = "follow"
    BY <1>1, <2>1 DEF Listening, ListeningTo
  <2>2. CASE pins # "follow"
    BY <2>2 DEF CallFits, Listening, ListeningTo
  <2>3. QED BY <2>1, <2>2
<1>3. pins' = p /\ low' = l /\ wel' \subseteq Chips
  BY <1>1, <1>2 DEF Drive
<1>4. \A c \in Chips :
         chip'[c] = IF c \in ListeningTo(p, l) \intersect Listening THEN chip[c]
                    ELSE IF c \in ListeningTo(p, l) /\ shift # NoByte THEN Ignored ELSE Idle
  BY DEF Drive
<1>5. chip' \in [Chips -> Commands]
  BY <1>1 DEF Drive
<1>6. p # "inverted" => ListeningTo(p, l) \subseteq l
  BY DEF ListeningTo
<1>7. \A q \in writing' : \/ q \in writing
                           \/ \E c \in Listening \ ListeningTo(p, l) :
                                 chip[c].op = "program" /\ q = Place(c, chip[c].address)
  BY DEF Drive
<1>8. \A c \in Listening : Place(c, chip[c].address) \in Places
  BY <1>2 DEF NorTypeOK, Places
<1>9. QED BY <1>3, <1>4, <1>5, <1>6, <1>7, <1>8 DEF NorTypeOK

\* Pins that follow, before and after.
LEMMA DrivenFollow ==
    ASSUME pins = "follow", NEW l \in SUBSET Chips, Drive(pins, l)
    PROVE  /\ pins' = "follow"
           /\ \A c \in Chips : chip'[c] = IF c \in l \intersect low THEN chip[c]
                                         ELSE IF c \in l /\ shift # NoByte THEN Ignored
                                         ELSE Idle
BY DEF Drive, Listening, ListeningTo

\* Every change of the chip select pins is one of these.
PinSteps == Select \/ DeselectOther \/ Release \/ CsPinInit

LEMMA PinStepsDrive ==
    ASSUME NorInv, PinSteps
    PROVE  \E p \in {"follow", "inverted", "dead"}, l \in SUBSET Chips :
              /\ Drive(p, l)
              /\ CsPinInit \/ p = pins
              /\ Select => l = low \union {Target}
              /\ DeselectOther => l = low \ {3 - Target}
              /\ Release \/ CsPinInit => l = {}
<1> USE DEF NorInv
<1>1. pins \in {"follow", "inverted", "dead"} /\ low \subseteq Chips
  BY DEF CallFits, NorTypeOK
<1>2. CASE Select
  <2>1. Target \in Chips /\ norPc \in {"enableSelect", "programSelect", "select", "statusSelect"}
    BY <1>2 DEF Select, Access, CallFits, WritePcs, ByteZeroPcs, HeaderPcs
  <2>2. Drive(pins, low \union {Target}) /\ ~DeselectOther /\ ~Release /\ ~CsPinInit
    BY <1>2, <2>1 DEF Select, DeselectOther, Release, CsPinInit, Access
  <2>3. QED BY <1>1, <1>2, <2>1, <2>2
<1>3. CASE DeselectOther
  <2>1. Drive(pins, low \ {3 - Target}) /\ ~Select /\ ~Release /\ ~CsPinInit
    BY <1>3 DEF Select, DeselectOther, Release, CsPinInit, Access
  <2>2. QED BY <1>1, <1>3, <2>1
<1>4. CASE Release
  <2>1. Drive(pins, low \ Chips) /\ low \ Chips = {} /\ ~Select /\ ~DeselectOther /\ ~CsPinInit
    BY <1>1, <1>4 DEF Select, DeselectOther, Release, Released, CsPinInit, Access
  <2>2. QED BY <1>1, <1>4, <2>1
<1>5. CASE CsPinInit
  <2>1. ~Select /\ ~DeselectOther /\ ~Release
    BY <1>5 DEF Select, DeselectOther, Release, CsPinInit, Access
  <2>2. PICK p \in {"follow", "inverted", "dead"} : Drive(p, {})
    BY <1>5 DEF CsPinInit
  <2>3. QED BY <1>5, <2>1, <2>2
<1>6. QED BY <1>2, <1>3, <1>4, <1>5 DEF PinSteps

LEMMA ReceiveFits ==
    ASSUME NorTypeOK, BoardFits, NEW c \in Chips, size[c] # 0
    PROVE  Receive(c, shift) \in Commands
<1> DEFINE k == chip[c]
<1>1. /\ k \in Commands /\ k.op \in Opcodes \union {"none", "ignored"} /\ k.need \in 0 .. 4
      /\ k.address \in 0 .. size[1] + size[2] /\ k.data \in BOOLEAN
  BY DEF NorTypeOK, Commands
<1>2. /\ size[c] \in Nat \ {0} /\ size[1] \in Nat /\ size[2] \in Nat
      /\ size[c] <= size[1] + size[2]
  BY DEF BoardFits, Chips
<1>3. ASSUME NEW x \in Nat
      PROVE  x % size[c] \in 0 .. size[1] + size[2]
  BY <1>2
<1>4. shift.address \in Nat /\ k.address + 1 \in Nat
  BY <1>1, <1>2 DEF NorTypeOK
<1>5. /\ shift.address % size[c] \in 0 .. size[1] + size[2]
      /\ (k.address + 1) % size[c] \in 0 .. size[1] + size[2]
  BY <1>3, <1>4
<1>6. CASE k.op = "none"
  BY <1>1, <1>2, <1>6 DEF Receive, Opening, Ignored, Command, Commands, Opcodes, AddressLength
<1>7. CASE k.op # "none" /\ k.need > 0
  BY <1>1, <1>5, <1>7 DEF Receive, Command, Commands
<1>8. CASE k.op # "none" /\ k.need = 0
  BY <1>1, <1>2, <1>5, <1>8 DEF Receive, Command, Commands, Opcodes
<1>9. QED BY <1>1, <1>6, <1>7, <1>8

LEMMA ReplyFits ==
    ASSUME NorTypeOK, NEW c \in Chips
    PROVE  Reply(c) \in Bytes
BY DEF NorTypeOK, Reply, Bytes, Places

-----------------------------------------------------------------------------
(* Types.                                                                   *)

\* The receive buffer after a transfer, if the buffer was free.
LEMMA ReceivedByte ==
    ASSUME NorTypeOK, BoardFits, Selection, pins = "follow"
    PROVE  /\ Listening = {} \/ (Target \in Chips /\ Listening = {Target})
           /\ Listening = {Target} =>
                 /\ Cardinality(Listening) = 1
                 /\ Reply(CHOOSE c \in Listening : TRUE) = Reply(Target)
           /\ Listening = {} => Cardinality(Listening) # 1
BY FS_EmptySet, FS_Singleton DEF Selection, Listening, ListeningTo

\* Every read begins at a sector.
LEMMA ReadAddressesFit ==
    ASSUME NEW a \in ReadAddresses
    PROVE  a \in Nat /\ a % SectorSize = 0
<1>1. PICK m \in SecondChipSizes :
           a \in {n * SectorSize : n \in 0 .. (FirstChipSize + m) \div SectorSize - 1}
  BY DEF ReadAddresses
<1> PICK n \in 0 .. (FirstChipSize + m) \div SectorSize - 1 : a = n * SectorSize
  BY <1>1
<1>2. FirstChipSize + m \in Nat
  BY NorAssumption, NumbersFit
<1>3. n \in Nat
  BY <1>2, NumbersFit, Division
<1>4. a = n * SectorSize + 0 /\ a \in Nat /\ 0 \in 0 .. SectorSize - 1
  BY <1>1, <1>3, NumbersFit
<1>5. QED BY <1>3, <1>4, NumbersFit, DivisionUnique

LEMMA StepsAre ==
    NorNext <=> \/ Accesses \/ CheckStatus
                \/ CsPinAssert \/ WriteByteZero \/ ByteZeroWritten
                \/ CallReturns
                \/ WipeCall \/ ConfigCall \/ \E a \in ReadAddresses : ReadCall(a, SectorSize)
                \/ SpiFinish \/ ChipFinish
BY DEF NorNext, NorDriver, Accesses

LEMMA TypesKept ==
    ASSUME NorInv, NorNext
    PROVE  NorTypeOK'
<1> USE DEF NorInv
<1> SUFFICES /\ low' \subseteq Chips /\ wel' \subseteq Chips /\ writing' \subseteq Places
             /\ rx' \in [byte : Bytes, new : BOOLEAN, overrun : BOOLEAN]
             /\ shift' \in [kind : Opcodes \union {"none", "address", "dummy", "zero"},
                            address : Nat]
             /\ spe' \in BOOLEAN
             /\ chip' \in [Chips -> Commands]
             /\ call' \in [kind : {"none", "wipe", "config", "read", "fault"},
                           address : Nat, count : {0, SectorSize}]
             /\ norPc' \in NorPcs /\ sent' \in 0 .. 5 /\ again' \in BOOLEAN
             /\ got' \in Bytes /\ stored' \in 0 .. SectorSize
             /\ polls' \in Nat /\ \E k \in Clocks : polls' <= PollLimit(k)
  BY BoardStays DEF NorTypeOK, Commands
<1>1. CASE Accesses
  <2>1. norPc' \in NorPcs /\ UNCHANGED <<call, again>>
    BY <1>1, AccessesLead
  <2>2. CASE SpiWait
    BY <2>1, <2>2 DEF SpiWait, NorTypeOK, Commands, spi, chips, counts
  <2>3. CASE PinSteps
    <3>1. PICK p \in {"follow", "inverted", "dead"}, l \in SUBSET Chips : Drive(p, l)
      BY <2>3, PinStepsDrive
    <3>2. /\ low' \subseteq Chips /\ wel' \subseteq Chips /\ writing' \subseteq Places
          /\ chip' \in [Chips -> Commands]
      BY <3>1, Driven
    <3>3. UNCHANGED <<spi, sent, counts>>
      BY <2>3 DEF PinSteps, Select, DeselectOther, Release, CsPinInit
    <3>4. QED BY <2>1, <3>2, <3>3 DEF NorTypeOK, spi, counts
  <2>5. CASE Put \/ Send
    <3>1. sent' \in 0 .. 5
      BY <2>5 DEF Put, Send, Access, Wire, NorTypeOK, AddressLength
    <3>2. TargetAddress \in Nat /\ TargetAddress % ShortSpan \in Nat
      BY TargetFits, NumbersFit, Division
    <3>3. shift' \in [kind : Opcodes \union {"none", "address", "dummy", "zero"}, address : Nat]
      BY <2>5, <3>2
      DEF Put, Send, MessageByte, Byte, Dummy, Zero, NoByte, Opcodes, NorTypeOK
    <3>4. QED BY <2>1, <2>5, <3>1, <3>3 DEF Put, Send, NorTypeOK, Commands, chips, counts
  <2>6. CASE Take \/ StoreByte \/ OverRunClear
    <3>1. stored' \in 0 .. SectorSize
      BY <2>6, NumbersFit
      DEF Take, StoreByte, OverRunClear, Access, CallFits, Stream, DataPcs, NorTypeOK, counts
    <3>2. CASE Take
      BY <2>1, <3>1, <3>2 DEF Take, TakeByte, NorTypeOK, Commands, chips, counts
    <3>3. CASE StoreByte
      BY <2>1, <3>1, <3>3 DEF StoreByte, TakeByte, NorTypeOK, Commands, chips, counts
    <3>4. CASE OverRunClear
      BY <2>1, <3>1, <3>4 DEF OverRunClear, NorTypeOK, Commands, chips, counts
    <3>5. QED BY <2>6, <3>2, <3>3, <3>4
  <2>7. CASE GetClockFreq
    <3>1. polls' \in Nat /\ \E k \in Clocks : polls' <= PollLimit(k)
      BY <2>7, NorAssumption DEF GetClockFreq
    <3>2. QED BY <2>1, <2>7, <3>1 DEF GetClockFreq, NorTypeOK, Commands, spi, chips
  <2>8. CASE DeInit \/ SpiEnable
    <3>1. NoByte \in [kind : Opcodes \union {"none", "address", "dummy", "zero"}, address : Nat]
      BY DEF NoByte, Byte
    <3>2. CASE DeInit
      BY <2>1, <3>1, <3>2 DEF DeInit, NorTypeOK, Commands, spi, chips, counts
    <3>3. CASE SpiEnable
      BY <2>1, <3>3 DEF SpiEnable, NorTypeOK, Commands, spi, chips, counts
    <3>4. QED BY <2>8, <3>2, <3>3
  <2>9. QED
    BY <1>1, <2>2, <2>3, <2>5, <2>6, <2>7, <2>8 DEF Accesses, PinSteps
<1>2. CASE CheckStatus
  <2>1. norPc' \in NorPcs
    BY <1>2, NorPcsAre DEF CheckStatus, AfterPolls
  <2>2. polls' \in Nat /\ \E k \in Clocks : polls' <= PollLimit(k)
    <3>1. polls > 0 /\ polls' = polls - 1
      BY <1>2 DEF CheckStatus, PollsLeft, StatusPcs
    <3>2. PICK k \in Clocks : polls <= PollLimit(k)
      BY DEF NorTypeOK
    <3>3. PollLimit(k) \in Nat
      BY NorAssumption
    <3>4. polls' <= PollLimit(k) /\ polls' \in Nat
      BY <3>1, <3>2, <3>3 DEF NorTypeOK
    <3>5. QED BY <3>4
  <2>3. QED BY <1>2, <2>1, <2>2 DEF CheckStatus, NorTypeOK, Commands, spi, chips, board
<1>3. CASE CsPinAssert \/ WriteByteZero \/ ByteZeroWritten
  <2>1. norPc' \in NorPcs
    BY <1>3, NorPcsAre DEF CsPinAssert, WriteByteZero, ByteZeroWritten
  <2>2. call' \in [kind : {"none", "wipe", "config", "read", "fault"}, address : Nat,
                   count : {0, SectorSize}]
    BY <1>3 DEF CsPinAssert, WriteByteZero, ByteZeroWritten, NorTypeOK
  <2>3. CASE CsPinAssert
    BY <2>1, <2>2, <2>3 DEF CsPinAssert, NorTypeOK, Commands, spi, chips, counts
  <2>4. CASE WriteByteZero
    BY <2>1, <2>2, <2>4 DEF WriteByteZero, NorTypeOK, Commands, spi, chips, counts
  <2>5. CASE ByteZeroWritten
    BY <2>1, <2>2, <2>5 DEF ByteZeroWritten, NorTypeOK, Commands, spi, chips, counts
  <2>6. QED BY <1>3, <2>3, <2>4, <2>5
<1>4. CASE CallReturns
  BY <1>4, NorPcsAre DEF CallReturns, NoCall, NorTypeOK, Commands, spi, chips, counts
<1>5. CASE WipeCall \/ ConfigCall \/ \E a \in ReadAddresses : ReadCall(a, SectorSize)
  <2>1. ReadAddresses \subseteq Nat
    BY ReadAddressesFit
  <2>2. /\ norPc' \in NorPcs /\ stored' = 0
        /\ call' \in [kind : {"none", "wipe", "config", "read", "fault"}, address : Nat,
                      count : {0, SectorSize}]
    BY <1>5, <2>1, NorPcsAre, NumbersFit DEF WipeCall, ConfigCall, ReadCall, Begin
  <2>3. UNCHANGED <<low, spi, chips, sent, again, got, polls>>
    BY <1>5 DEF WipeCall, ConfigCall, ReadCall, Begin
  <2>4. QED BY <2>2, <2>3, NumbersFit DEF NorTypeOK, Commands, spi, chips
<1>6. CASE SpiFinish
  <2>1. \A c \in Listening : size[c] # 0 /\ c \in Chips
    <3>1. CASE pins = "follow"
      BY <3>1, TargetFits DEF Listening, ListeningTo, Selection
    <3>2. CASE pins # "follow"
      BY <3>2 DEF CallFits, Listening, ListeningTo
    <3>3. QED BY <3>1, <3>2
  <2>2. chip' \in [Chips -> Commands]
    BY <1>6, <2>1, ReceiveFits DEF SpiFinish, NorTypeOK, Commands
  <2>3. rx' \in [byte : Bytes, new : BOOLEAN, overrun : BOOLEAN]
    <3>1. Void \in Bytes /\ (Target \in Chips => Reply(Target) \in Bytes)
      BY ReplyFits DEF Bytes
    <3>2. pins = "follow" /\ Cardinality(Listening) = 1
            => Reply(CHOOSE c \in Listening : TRUE) \in Bytes
      BY <3>1, ReceivedByte
    <3>3. QED BY <1>6, <3>1, <3>2 DEF SpiFinish, NorTypeOK
  <2>4. QED
    BY <1>6, <2>2, <2>3 DEF SpiFinish, NoByte, Byte, NorTypeOK, counts
<1>7. CASE ChipFinish
  BY <1>7 DEF ChipFinish, NorTypeOK, Commands, spi, counts
<1>8. QED
  BY <1>1, <1>2, <1>3, <1>4, <1>5, <1>6, <1>7, StepsAre

-----------------------------------------------------------------------------
(* The calls.                                                               *)

LEMMA CallKept ==
    ASSUME NorInv, NorNext
    PROVE  CallFits'
<1> USE DEF NorInv
<1>1. CASE Accesses
  <2>1. /\ norPc \in AccessPcs /\ norPc' = Following
        /\ UNCHANGED <<size, session, call>> /\ Target' = Target
    BY <1>1, AccessesLead, SameCall
  <2>2. /\ pins' \in {"follow", "inverted", "dead"}
        /\ session = "app" => pins' = "follow" /\ spe'
    <3>1. CASE DeInit \/ CsPinInit \/ SpiEnable
      BY <3>1 DEF DeInit, CsPinInit, Drive, SpiEnable, Access, CallFits, ConfigPcs
    <3>2. CASE ~(DeInit \/ CsPinInit \/ SpiEnable)
      BY <1>1, <3>2
      DEF Accesses, CallFits, SpiWait, Select, DeselectOther, Release, Drive, Put, Send, Take,
          StoreByte, TakeByte, OverRunClear, GetClockFreq, spi
    <3>3. QED BY <3>1, <3>2
  <2>3. /\ norPc' \in ConfigPcs \union {"return"} <=>
              norPc \in ConfigPcs \union {"release"}
        /\ norPc' \in HeaderPcs =>
              norPc \in HeaderPcs \/ norPc = "programOther" \/ (norPc = "clear" /\ Target # 0)
        /\ norPc' \in DataPcs \union {"clear", "release"} =>
              norPc \in DataPcs \union {"clear"} \/ (norPc = "settle" /\ call.kind # "wipe")
        /\ norPc' \in WritePcs \union {"sector", "written"} =>
              norPc \in WritePcs \/ (norPc = "settle" /\ call.kind = "wipe")
        /\ norPc' \in WritePcs => norPc \in WritePcs \/ norPc = "settle"
        /\ norPc' \notin {"idle", "fault", "sector"}
    BY <2>1, FollowingIs
    DEF AccessPcs, HeaderPcs, WritePcs, EnablePcs, ByteZeroPcs, StatusPcs, DataPcs, ConfigPcs,
        NextByte
  <2>4. Target \in Chips \union {0}
    BY TargetFits
  <2>5. norPc' \in ConfigPcs => norPc \in ConfigPcs
    BY <2>1, FollowingIs
    DEF AccessPcs, HeaderPcs, WritePcs, EnablePcs, ByteZeroPcs, StatusPcs, DataPcs, ConfigPcs,
        NextByte
  <2>6. norPc # "sector"
    BY <2>1 DEF AccessPcs, HeaderPcs, WritePcs, EnablePcs, ByteZeroPcs, StatusPcs, DataPcs,
                ConfigPcs
  <2>7. "programOther" \in WritePcs /\ "settle" \in HeaderPcs
    BY DEF HeaderPcs, WritePcs, ByteZeroPcs
  <2>8. QED
    BY <2>1, <2>2, <2>3, <2>4, <2>5, <2>6, <2>7 DEF CallFits
<1>2. CASE CheckStatus
  <2>1. /\ norPc = "check" /\ norPc' \in {"pollPut", "drain"}
        /\ UNCHANGED <<size, session, call, pins, spe>> /\ Target' = Target
    BY <1>2, SameCall DEF CheckStatus, AfterPolls, board, spi
  <2>2. QED
    BY <2>1 DEF CallFits, HeaderPcs, WritePcs, EnablePcs, ByteZeroPcs, StatusPcs, DataPcs, ConfigPcs
<1>3. CASE CsPinAssert
  BY <1>3
  DEF CsPinAssert, CallFits, HeaderPcs, WritePcs, EnablePcs, ByteZeroPcs, StatusPcs, DataPcs,
      ConfigPcs, spi, NorTypeOK
<1>4. CASE WriteByteZero
  <2>1. /\ norPc = "sector" /\ call.address <= WipeLast
        /\ norPc' = IF Target = 0 THEN "written" ELSE "enableSelect"
        /\ UNCHANGED <<size, session, call, pins, spe>> /\ Target' = Target
        /\ Target \in Chips \union {0}
    BY <1>4, SameCall, TargetFits DEF WriteByteZero, board, spi
  <2>2. QED
    BY <2>1 DEF CallFits, HeaderPcs, WritePcs, EnablePcs, ByteZeroPcs, StatusPcs, DataPcs, ConfigPcs
<1>5. CASE ByteZeroWritten
  BY <1>5, NumbersFit
  DEF ByteZeroWritten, CallFits, HeaderPcs, WritePcs, EnablePcs, ByteZeroPcs, StatusPcs, DataPcs,
      ConfigPcs, spi, NorTypeOK
<1>6. CASE CallReturns
  BY <1>6
  DEF CallReturns, NoCall, CallFits, HeaderPcs, WritePcs, EnablePcs, ByteZeroPcs, StatusPcs, DataPcs,
      ConfigPcs, spi
<1>7. CASE WipeCall \/ ConfigCall
  BY <1>7, NumbersFit
  DEF WipeCall, ConfigCall, Begin, CallFits, HeaderPcs, WritePcs, EnablePcs, ByteZeroPcs, StatusPcs,
      DataPcs, ConfigPcs, spi
<1>8. CASE \E a \in ReadAddresses : ReadCall(a, SectorSize)
  BY <1>8, ReadAddressesFit
  DEF ReadCall, Begin, CallFits, HeaderPcs, WritePcs, EnablePcs, ByteZeroPcs, StatusPcs,
      DataPcs, ConfigPcs, spi
<1>9. CASE SpiFinish \/ ChipFinish
  <2>1. UNCHANGED <<size, session, call, pins, spe, norPc>> /\ Target' = Target
    BY <1>9, SameCall DEF SpiFinish, ChipFinish, board, spi
  <2>2. QED BY <2>1 DEF CallFits
<1>10. QED
  BY <1>1, <1>2, <1>3, <1>4, <1>5, <1>6, <1>7, <1>8, <1>9, StepsAre

-----------------------------------------------------------------------------
(* The chip selects.                                                        *)

LEMMA SelectionKept ==
    ASSUME NorInv, NorNext
    PROVE  Selection'
<1> USE DEF NorInv
<1>t. Target \in Chips \union {0} /\ chip \in [Chips -> Commands] /\ low \subseteq Chips
  BY TargetFits DEF NorTypeOK, Commands
<1>1. CASE PinSteps
  <2>1. PICK p \in {"follow", "inverted", "dead"}, l \in SUBSET Chips :
           /\ Drive(p, l)
           /\ Select => l = low \union {Target}
           /\ DeselectOther => l = low \ {3 - Target}
           /\ Release \/ CsPinInit => l = {}
    BY <1>1, PinStepsDrive
  <2>2. low' = l /\ (pins' # "inverted" => \A c \in Chips \ low' : chip'[c] = Idle)
    BY <2>1, Driven
  <2>3. Target' = Target /\ call' = call /\ norPc' = Following
    BY <1>1, SameCall DEF PinSteps, Select, DeselectOther, Release, CsPinInit, Access, board
  <2>4. low' = IF Selected' /\ Target' \in Chips THEN {Target'} ELSE {}
    <3>1. CASE Select
      <4>1. /\ norPc \in {"enableSelect", "programSelect", "select", "statusSelect"}
            /\ norPc' \in {"enableOther", "programOther", "other", "statusOther"}
        BY <2>3, <3>1, FollowingIs DEF Select, Access
      <4>2. Selected' /\ Target \in Chips
        BY <4>1 DEF Selected, CallFits, EnablePcs, StatusPcs, WritePcs, ByteZeroPcs, HeaderPcs
      <4>3. low \subseteq {Target}
        BY DEF Selection
      <4>4. QED BY <2>1, <2>2, <2>3, <3>1, <4>2, <4>3
    <3>2. CASE DeselectOther
      <4>1. /\ norPc \in {"enableOther", "programOther", "other", "statusOther"}
            /\ norPc' \in {"enable", "await", "put", "statusPut"}
            /\ norPc' = "await" => norPc = "programOther"
        BY <2>3, <3>2, FollowingIs DEF DeselectOther, Access
      <4>2. Target \in Chips /\ 3 - Target # Target
        BY <4>1 DEF CallFits, EnablePcs, StatusPcs, WritePcs, ByteZeroPcs, HeaderPcs, Chips
      <4>3. Selected /\ Selected'
        BY <2>3, <4>1 DEF Selected, CallFits, EnablePcs, StatusPcs, WritePcs, ByteZeroPcs
      <4>4. low = {Target}
        BY <4>2, <4>3 DEF Selection
      <4>5. QED BY <2>1, <2>2, <2>3, <3>2, <4>2, <4>3, <4>4
    <3>3. CASE Release \/ CsPinInit
      <4>1. norPc' \in {"programSelect", "clock", "written", "return", "start", "configRelease"}
        BY <2>3, <3>3, FollowingIs DEF Release, CsPinInit, Access
      <4>2. ~Selected'
        BY <4>1 DEF Selected, DataPcs, EnablePcs, StatusPcs
      <4>3. QED BY <2>1, <2>2, <3>3, <4>2
    <3>4. QED BY <1>1, <3>1, <3>2, <3>3 DEF PinSteps
  <2>5. QED BY <2>2, <2>4 DEF Selection
<1>2. CASE Accesses /\ ~PinSteps
  <2>1. UNCHANGED <<pins, low, chip, call>> /\ Target' = Target
    BY <1>2, AccessesLead, SameCall
    DEF Accesses, PinSteps, chips, SpiWait, Put, Send, Take, StoreByte, TakeByte, OverRunClear,
        GetClockFreq, DeInit, SpiEnable
  <2>2. Target \in Chips => (Selected' <=> Selected)
    <3>1. /\ norPc \in {"await", "settle", "statusWait", "drain", "put", "statusPut", "pollPut",
                        "dataPut", "enable", "zero", "take", "statusTake", "pollTake",
                        "dataStore", "clear", "dataClear", "clock", "deinit", "start"}
          /\ norPc' = Following
      BY <1>2
      DEF Accesses, PinSteps, SpiWait, Put, Send, Take, StoreByte, TakeByte, OverRunClear,
          GetClockFreq, DeInit, SpiEnable, Access
    <3>2. call.kind = "wipe" => norPc # "clear"
      BY DEF CallFits
    <3>3. QED
      BY <2>1, <3>1, <3>2, FollowingIs DEF Selected, DataPcs, EnablePcs, StatusPcs, NextByte, Chips
  <2>3. QED BY <1>t, <2>1, <2>2 DEF Selection
<1>3. CASE \/ CheckStatus \/ CsPinAssert \/ WriteByteZero \/ ByteZeroWritten \/ CallReturns
           \/ WipeCall \/ ConfigCall \/ \E a \in ReadAddresses : ReadCall(a, SectorSize)
  <2>1. UNCHANGED <<pins, low, chip>>
    BY <1>3 DEF CheckStatus, CsPinAssert, WriteByteZero, ByteZeroWritten, CallReturns, WipeCall,
                ConfigCall, ReadCall, Begin, chips
  <2>2. CASE CheckStatus
    <3>1. Selected /\ Selected' /\ Target' = Target
      BY <2>2, SameCall DEF CheckStatus, Selected, StatusPcs, AfterPolls, board
    <3>2. QED BY <2>1, <3>1 DEF Selection
  <2>3. CASE ~CheckStatus
    <3>1. ~Selected /\ ~Selected'
      BY <1>3, <2>3 DEF CsPinAssert, WriteByteZero, ByteZeroWritten, CallReturns, WipeCall,
                ConfigCall, ReadCall, Begin, Selected, DataPcs, EnablePcs, StatusPcs
    <3>2. QED BY <2>1, <3>1 DEF Selection
  <2>4. QED BY <2>2, <2>3
<1>4. CASE SpiFinish \/ ChipFinish
  <2>1. UNCHANGED <<pins, low, call, norPc>> /\ Target' = Target
    BY <1>4, SameCall DEF SpiFinish, ChipFinish, board, spi
  <2>2. pins # "inverted" => \A c \in Chips \ low : chip'[c] = chip[c]
    <3>1. pins # "inverted" => Listening \subseteq low
      BY DEF CallFits, Listening, ListeningTo
    <3>2. QED BY <1>4, <1>t, <3>1 DEF SpiFinish, ChipFinish
  <2>3. QED BY <2>1, <2>2 DEF Selection, Selected
<1>5. QED
  BY <1>1, <1>2, <1>3, <1>4, StepsAre DEF Accesses

-----------------------------------------------------------------------------
(* The wire.                                                                *)

\* The length of the address, and the byte sent last, as long as the call stays.
LEMMA SameMessage ==
    ASSUME UNCHANGED <<size, fourByte, call>>
    PROVE  /\ AddressLength(Target)' = AddressLength(Target)
           /\ sent' = sent => LastByte' = LastByte
           /\ sent \in Nat /\ sent' = sent + 1 => LastByte' = MessageByte
<1>1. Target' = Target /\ TargetAddress' = TargetAddress
  BY SameCall
<1>2. AddressLength(Target)' = AddressLength(Target)
  BY <1>1 DEF AddressLength
<1>3. sent' = sent => LastByte' = LastByte
  BY <1>1 DEF LastByte
<1>4. sent \in Nat /\ sent' = sent + 1 => LastByte' = MessageByte
  BY <1>1 DEF LastByte, MessageByte
<1>5. QED BY <1>2, <1>3, <1>4

LEMMA WireKept ==
    ASSUME NorInv, NorNext
    PROVE  Wire'
<1> USE DEF NorInv
<1> DEFINE length == AddressLength(Target)
<1>t. sent \in 0 .. 5 /\ length \in {3, 4} /\ Target \in Chips \union {0}
  BY TargetFits DEF NorTypeOK, AddressLength
<1>1. CASE Accesses
  <2>1. /\ norPc \in AccessPcs /\ norPc' = Following
        /\ UNCHANGED <<session, call>> /\ Target' = Target /\ length' = length
        /\ sent' = sent => LastByte' = LastByte
        /\ sent' = sent + 1 => LastByte' = MessageByte
    BY <1>1, <1>t, AccessesLead, SameCall, SameMessage
  <2> HIDE DEF length
  <2>2. norPc' \notin {"sector", "idle"}
    BY <2>1, FollowingIs
    DEF AccessPcs, HeaderPcs, WritePcs, EnablePcs, ByteZeroPcs, StatusPcs, DataPcs, ConfigPcs,
        NextByte
  <2>3. CASE SpiWait
    <3>1. norPc \in {"await", "settle", "statusWait", "drain"} /\ shift = NoByte /\ shift' = shift
      BY <2>3 DEF SpiWait, Access, SpiIdle, spi
    <3>2. sent' = IF norPc = "await" THEN 0 ELSE sent
      BY <2>3 DEF SpiWait
    <3>3. QED
      BY <2>1, <3>1, <3>2, FollowingIs DEF Wire, StatusPcs, DataPcs, NextByte, length
  <2>4. CASE Select \/ DeselectOther \/ Release
    <3>1. /\ norPc \in {"enableSelect", "programSelect", "select", "statusSelect", "enableOther",
                        "programOther", "other", "statusOther", "enableRelease", "zeroRelease",
                        "statusRelease", "release", "configRelease"}
          /\ UNCHANGED <<shift, sent>>
      BY <2>4 DEF Select, DeselectOther, Release, Access, spi
    <3>2. QED BY <1>t, <2>1, <3>1, FollowingIs DEF Wire, StatusPcs, DataPcs, length
  <2>5. CASE Put
    <3>1. /\ norPc \in {"put", "statusPut", "pollPut", "dataPut"} /\ shift = NoByte
          /\ shift' = IF norPc = "put" THEN MessageByte
                      ELSE IF norPc = "statusPut" THEN Byte("status", 0) ELSE Dummy
          /\ sent' = IF norPc = "put" THEN sent + 1 ELSE sent
      BY <2>5 DEF Put, Access, SpiIdle
    <3>2. QED BY <1>t, <2>1, <3>1, FollowingIs DEF Wire, StatusPcs, DataPcs, length
  <2>6. CASE Send
    <3>1. /\ norPc \in {"enable", "zero"} /\ sent' = sent /\ shift = NoByte
          /\ shift' = IF norPc = "enable" THEN Byte("enable", 0) ELSE Zero
      BY <2>6 DEF Send, Access, Wire
    <3>2. QED BY <2>1, <3>1, FollowingIs DEF Wire, StatusPcs, DataPcs
  <2>7. CASE Take \/ StoreByte \/ OverRunClear \/ GetClockFreq
    <3>1. /\ norPc \in {"take", "statusTake", "pollTake", "dataStore", "clear", "dataClear",
                        "clock"}
          /\ UNCHANGED <<shift, sent>>
      BY <2>7 DEF Take, StoreByte, TakeByte, OverRunClear, GetClockFreq, Access, spi
    <3>2. norPc = "clear" => call.kind = "read"
      BY DEF CallFits
    <3>3. QED BY <1>t, <2>1, <3>1, <3>2, FollowingIs DEF Wire, StatusPcs, DataPcs, NextByte, length
  <2>8. CASE DeInit \/ CsPinInit \/ SpiEnable
    <3>1. norPc' \in {"pins", "configRelease", "start", "return"}
      BY <2>8, FollowingIs DEF DeInit, CsPinInit, SpiEnable, Access
    <3>2. QED BY <3>1 DEF Wire, StatusPcs, DataPcs
  <2>9. QED BY <1>1, <2>3, <2>4, <2>5, <2>6, <2>7, <2>8 DEF Accesses
<1>2. CASE CheckStatus
  <2>1. norPc = "check" /\ norPc' \in {"pollPut", "drain"} /\ shift' = shift
    BY <1>2 DEF CheckStatus, AfterPolls, spi
  <2>2. QED BY <2>1 DEF Wire, StatusPcs, DataPcs
<1>3. CASE CsPinAssert
  BY <1>3 DEF CsPinAssert, Wire, StatusPcs, DataPcs
<1>4. CASE WriteByteZero \/ ByteZeroWritten
  <2>1. /\ norPc \in {"sector", "written"} /\ norPc' \in {"sector", "written", "enableSelect"}
        /\ shift' = shift
    BY <1>4 DEF WriteByteZero, ByteZeroWritten, spi
  <2>2. QED BY <2>1 DEF Wire, StatusPcs, DataPcs
<1>5. CASE CallReturns
  <2>1. /\ norPc = "sector" \/ (norPc = "return" /\ session = "iap")
        /\ norPc' = "idle" /\ UNCHANGED <<session, shift>>
    BY <1>5 DEF CallReturns, CallFits, spi
  <2>2. QED BY <2>1 DEF Wire, StatusPcs, DataPcs
<1>6. CASE WipeCall \/ ConfigCall \/ \E a \in ReadAddresses : ReadCall(a, SectorSize)
  <2>1. /\ norPc = "idle" /\ norPc' \in {"sector", "deinit", "clear"} /\ shift' = shift
        /\ norPc' = "sector" => session = "app"
    BY <1>6 DEF WipeCall, ConfigCall, ReadCall, Begin, spi
  <2>2. QED BY <2>1 DEF Wire, StatusPcs, DataPcs
<1>7. CASE SpiFinish \/ ChipFinish
  <2>1. /\ UNCHANGED <<norPc, sent, session, call>> /\ Target' = Target /\ length' = length
        /\ LastByte' = LastByte /\ shift' \in {shift, NoByte}
    BY <1>7, <1>t, SameCall, SameMessage DEF SpiFinish, ChipFinish, board, spi
  <2> HIDE DEF length
  <2>2. QED BY <2>1 DEF Wire, length
<1>8. QED
  BY <1>1, <1>2, <1>3, <1>4, <1>5, <1>6, <1>7, StepsAre

-----------------------------------------------------------------------------
(* What the chips have heard.                                               *)

\* The opcode of a message is neither an address nor anything else.
LEMMA CommandsAre ==
    /\ Idle = [op |-> "none", need |-> 0, address |-> 0, data |-> FALSE]
    /\ Ignored = [op |-> "ignored", need |-> 0, address |-> 0, data |-> FALSE]
    /\ MessageByte # NoByte
BY DEF Idle, Ignored, Command, MessageByte, NoByte, Byte

\* The last byte of a message leads the chip on.
LEMMA MessageHeard ==
    ASSUME NorInv, SpiFinish, pins = "follow", norPc \in {"put", "take", "settle"}
    PROVE  InMessage'
<1> USE DEF NorInv
<1> DEFINE length == AddressLength(Target)
           k == chip[Target]
           opcode == IF call.kind = "wipe" THEN "program" ELSE "read"
<1>1. /\ Target \in Chips /\ Listening = {Target}
      /\ chip'[Target] = Receive(Target, shift)
  <2>1. Target \in Chips
    BY DEF CallFits, HeaderPcs
  <2>2. low = {Target}
    BY <2>1 DEF Selection, Selected
  <2>3. QED BY <2>1, <2>2 DEF Listening, ListeningTo, SpiFinish
<1>2. /\ sent \in 1 .. length + 1 /\ shift = LastByte /\ length \in {3, 4}
      /\ Arrived = sent - 1
  BY DEF SpiFinish, Wire, NorTypeOK, Arrived, AddressLength
<1>3. /\ UNCHANGED <<size, fourByte, call, sent>> /\ Target' = Target
      /\ TargetAddress' = TargetAddress /\ length' = length /\ Arrived' = sent
  BY <1>2, SameCall DEF SpiFinish, board, Arrived, AddressLength
<1>4. /\ k \in Commands /\ TargetAddress \in Nat /\ size[Target] \in Nat \ {0}
      /\ call.kind \in {"wipe", "read"}
  BY <1>1, TargetFits DEF NorTypeOK, Commands, CallFits, HeaderPcs
<1>5. InMessage
  BY DEF Heard
<1> HIDE DEF length
<1>6. CASE k = Idle /\ Arrived = 0
  <2>1. shift = Byte(opcode, 0) /\ sent = 1
    BY <1>2, <1>6 DEF LastByte
  <2>2. Receive(Target, shift) = Opening(Target, shift)
    BY <1>6 DEF Receive, Idle, Command
  <2>3. call.kind = "read" => BusyChips = {}
    BY DEF CallFits, Heard, BusyChips
  <2>4. \/ Receive(Target, shift) = Command(opcode, length, 0, FALSE)
        \/ call.kind = "wipe" /\ Receive(Target, shift) = Ignored
    BY <1>4, <2>1, <2>2, <2>3 DEF Opening, Byte, Opcodes, length
  <2>5. QED
    BY <1>1, <1>2, <1>3, <2>1, <2>4 DEF InMessage, Command, Ignored, length
<1>7. CASE k.op = opcode /\ Arrived > 0 /\ ~k.data /\ k.need = length + 1 - Arrived
  <2>1. k.need > 0 /\ k.op # "none" /\ k.need \in Nat /\ sent > 1
    BY <1>2, <1>4, <1>7 DEF Commands
  <2>2. chip'[Target] = Command(opcode, k.need - 1, shift.address % size[Target], FALSE)
    BY <1>1, <1>4, <1>7, <2>1 DEF Receive, Commands
  <2>3. shift.address = IF fourByte[Target] THEN TargetAddress ELSE TargetAddress % ShortSpan
    BY <1>2, <2>1 DEF LastByte, Byte
  <2>4. ASSUME TargetAddress < size[Target]
        PROVE  shift.address % size[Target] = TargetAddress
    <3>1. ~fourByte[Target] => TargetAddress < ShortSpan
      BY <1>1, <1>4, <2>4, NumbersFit DEF BoardFits
    <3>2. shift.address = TargetAddress
      BY <1>4, <2>3, <3>1, NumbersFit, SmallRemainder
    <3>3. QED BY <1>4, <2>4, <3>2, SmallRemainder
  <2>5. QED
    BY <1>2, <1>3, <1>7, <2>1, <2>2, <2>4 DEF InMessage, Command, length
<1>8. CASE call.kind = "wipe" /\ k.op = "ignored"
  BY <1>1, <1>3, <1>4, <1>8 DEF Receive, Command, InMessage, Commands
<1>9. QED
  BY <1>5, <1>6, <1>7, <1>8 DEF InMessage, length

\* During the update nothing is written, and no chip is told to.
UpdateOnlyReads ==
    session = "iap" => /\ writing = {}
                       /\ \A c \in Chips : chip[c].op # "program"
                       /\ shift = NoByte \/ shift.kind \in {"read", "address", "dummy"}

LEMMA UpdateKept ==
    ASSUME NorInv, NorNext
    PROVE  UpdateOnlyReads'
<1> USE DEF NorInv
<1> SUFFICES ASSUME session' = "iap"
             PROVE  /\ writing' = {}
                    /\ \A c \in Chips : chip'[c].op # "program"
                    /\ shift' = NoByte \/ shift'.kind \in {"read", "address", "dummy"}
  BY DEF UpdateOnlyReads
<1>t. chip \in [Chips -> Commands] /\ Idle.op # "program" /\ Ignored.op # "program"
  BY CommandsAre DEF NorTypeOK, Commands
<1>1. CASE PinSteps
  <2>1. session = "iap" /\ shift' = shift
    BY <1>1 DEF PinSteps, Select, DeselectOther, Release, CsPinInit, spi
  <2>2. PICK p \in {"follow", "inverted", "dead"}, l \in SUBSET Chips : Drive(p, l)
    BY <1>1, PinStepsDrive
  <2>3. /\ \A c \in Chips : chip'[c] \in {chip[c], Idle, Ignored}
        /\ \A q \in writing' : \/ q \in writing
                              \/ \E c \in Listening : chip[c].op = "program"
    BY <2>2, Driven
  <2>4. Listening \subseteq Chips
    BY DEF Listening, ListeningTo, CallFits, NorTypeOK
  <2>5. QED BY <1>t, <2>1, <2>3, <2>4 DEF Heard
<1>4. CASE ConfigCall
  <2>1. norPc = "idle" /\ writing = {} /\ UNCHANGED <<chip, writing>> /\ shift' = NoByte
    BY <1>4 DEF ConfigCall, Begin, chips, spi, Wire
  <2>2. \A c \in Chips : chip[c] = Idle
    BY <1>4, <2>1 DEF ConfigCall, CallFits, Selection, Selected, DataPcs, EnablePcs, StatusPcs
  <2>3. QED BY <1>t, <2>1, <2>2
<1>2. CASE Put \/ Send
  <2>1. session = "iap" /\ UNCHANGED <<chip, writing>>
    BY <1>2 DEF Put, Send, chips
  <2>2. norPc \in {"put", "dataPut"} /\ Put /\ call.kind = "read"
    BY <1>2, <2>1
    DEF Put, Send, Access, CallFits, WritePcs, ByteZeroPcs, EnablePcs, StatusPcs, HeaderPcs, DataPcs
  <2>3. shift' = IF norPc = "put" THEN MessageByte ELSE Dummy
    BY <2>2 DEF Put
  <2>4. MessageByte.kind \in {"read", "address"} /\ Dummy.kind = "dummy"
    BY <2>2 DEF MessageByte, Dummy, Byte
  <2>5. QED BY <2>1, <2>3, <2>4 DEF Heard
<1>3. CASE DeInit
  BY <1>3 DEF DeInit, chips, Heard
<1>5. CASE \/ Accesses /\ ~PinSteps /\ ~Put /\ ~Send /\ ~DeInit
           \/ CheckStatus \/ CsPinAssert \/ WriteByteZero \/ ByteZeroWritten \/ CallReturns
           \/ WipeCall \/ \E a \in ReadAddresses : ReadCall(a, SectorSize)
  <2>1. UNCHANGED <<session, shift, chip, writing>>
    BY <1>5
    DEF Accesses, PinSteps, chips, spi, SpiWait, Take, StoreByte, TakeByte, OverRunClear,
        GetClockFreq, SpiEnable, CheckStatus, CsPinAssert, WriteByteZero, ByteZeroWritten,
        CallReturns, WipeCall, ReadCall, Begin
  <2>2. QED BY <2>1 DEF Heard
<1>6. CASE SpiFinish
  <2>1. /\ session = "iap" /\ writing' = writing /\ shift # NoByte /\ shift' = NoByte
        /\ \A c \in Chips : chip'[c] = IF c \in Listening THEN Receive(c, shift) ELSE chip[c]
    BY <1>6 DEF SpiFinish
  <2>2. ASSUME NEW c \in Listening, c \in Chips
        PROVE  Receive(c, shift).op # "program"
    <3>1. shift.kind # "program" /\ chip[c].op # "program"
      BY <2>1, <2>2 DEF Heard
    <3>2. QED BY <1>t, <3>1 DEF Receive, Opening, Command
  <2>3. QED BY <2>1, <2>2 DEF Heard
<1>7. CASE ChipFinish
  BY <1>7 DEF ChipFinish, Heard, spi
<1>8. QED
  BY <1>1, <1>2, <1>3, <1>4, <1>5, <1>6, <1>7, StepsAre

\* The rest of Heard: what the chip of the call has made of its command.
TargetHeard ==
    /\ norPc \in EnablePcs \union StatusPcs
         => chip[Target].op \in {"none", "enable", "status", "ignored"}
    /\ (norPc = "programOther" \/ (norPc \in {"await", "select", "other"} /\ call.kind = "wipe"))
         => chip[Target].op = "ignored" \/ (chip[Target] = Idle /\ shift = NoByte)
    /\ norPc = "other" /\ call.kind = "read" /\ pins = "follow" => chip[Target] = Idle
    /\ norPc \in {"put", "take", "settle", "zero"} /\ pins = "follow" => InMessage
    /\ norPc = "zeroRelease" /\ chip[Target].op = "program"
         => chip[Target].need = 0 /\ chip[Target].address = TargetAddress

\* A message stays as it is while nothing of it goes out or arrives.
LEMMA SameInMessage ==
    ASSUME UNCHANGED <<size, fourByte, call>>, chip'[Target] = chip[Target], Arrived' = Arrived,
           InMessage
    PROVE  InMessage'
<1>1. Target' = Target /\ TargetAddress' = TargetAddress
  BY SameCall
<1>2. AddressLength(Target)' = AddressLength(Target)
  BY <1>1 DEF AddressLength
<1>3. QED BY <1>1, <1>2 DEF InMessage

LEMMA TargetHeardFinish ==
    ASSUME NorInv, SpiFinish
    PROVE  TargetHeard'
<1> USE DEF NorInv
<1>1. /\ shift # NoByte /\ shift' = NoByte
      /\ UNCHANGED <<size, fourByte, call, norPc, sent, pins>>
      /\ Target' = Target /\ TargetAddress' = TargetAddress
  BY SameCall DEF SpiFinish, board
<1>2. \A c \in Chips : chip'[c] = IF c \in Listening THEN Receive(c, shift) ELSE chip[c]
  BY DEF SpiFinish
<1>3. norPc \in WritePcs \union HeaderPcs => Target \in Chips
  BY DEF CallFits
<1>4. chip \in [Chips -> Commands]
  BY DEF NorTypeOK, Commands
<1>5. norPc \in EnablePcs \union StatusPcs
        => chip'[Target].op \in {"none", "enable", "status", "ignored"}
  <2> SUFFICES ASSUME norPc \in EnablePcs \union StatusPcs
               PROVE  chip'[Target].op \in {"none", "enable", "status", "ignored"}
    OBVIOUS
  <2>1. Target \in Chips /\ chip[Target].op \in {"none", "enable", "status", "ignored"}
    BY <1>3 DEF Heard, WritePcs
  <2>2. shift.kind \in {"enable", "dummy", "status"}
    BY <1>1 DEF Wire, EnablePcs, Byte, Dummy
  <2>3. Receive(Target, shift).op \in {"none", "enable", "status", "ignored"}
    BY <1>4, <2>1, <2>2 DEF Receive, Opening, Command, Ignored, Opcodes
  <2>4. QED BY <1>2, <2>1, <2>3
<1>6. (norPc = "programOther" \/ (norPc \in {"await", "select", "other"} /\ call.kind = "wipe"))
        => chip'[Target].op = "ignored"
  <2> SUFFICES ASSUME \/ norPc = "programOther"
                      \/ norPc \in {"await", "select", "other"} /\ call.kind = "wipe"
               PROVE  chip'[Target].op = "ignored"
    OBVIOUS
  <2>1. Target \in Chips /\ chip[Target].op = "ignored"
    BY <1>1, <1>3 DEF Heard, WritePcs, HeaderPcs, ByteZeroPcs
  <2>2. Receive(Target, shift).op = "ignored"
    BY <1>4, <2>1 DEF Receive, Command
  <2>3. QED BY <1>2, <2>1, <2>2
<1>7. norPc # "other"
  BY <1>1 DEF Wire
<1>8. norPc # "zero"
  BY <1>1 DEF Wire
<1>9. norPc \in {"put", "take", "settle"} /\ pins = "follow" => InMessage'
  BY MessageHeard
<1>10. norPc = "zeroRelease" /\ chip'[Target].op = "program"
         => chip'[Target].need = 0 /\ chip'[Target].address = TargetAddress
  <2> SUFFICES ASSUME norPc = "zeroRelease", chip'[Target].op = "program"
               PROVE  chip'[Target].need = 0 /\ chip'[Target].address = TargetAddress
    OBVIOUS
  <2>1. Target \in Chips /\ shift.kind = "zero"
    BY <1>1, <1>3 DEF Wire, WritePcs, ByteZeroPcs, Zero, Byte
  <2>2. CASE Target \in Listening
    <3>1. chip'[Target] = Receive(Target, shift)
      BY <1>2, <2>1, <2>2
    <3>2. chip[Target].op = "program"
      BY <1>4, <2>1, <3>1 DEF Receive, Opening, Command, Ignored, Opcodes
    <3>3. chip[Target].need = 0 /\ chip[Target].address = TargetAddress
      BY <3>2 DEF Heard
    <3>4. QED BY <3>1, <3>2, <3>3 DEF Receive, Command
  <2>3. CASE Target \notin Listening
    BY <1>2, <2>1, <2>3 DEF Heard
  <2>4. QED BY <2>2, <2>3
<1>11. QED
  BY <1>1, <1>5, <1>6, <1>7, <1>8, <1>9, <1>10 DEF TargetHeard

LEMMA TargetHeardAccess ==
    ASSUME NorInv, Accesses
    PROVE  TargetHeard'
<1> USE DEF NorInv
<1>1. /\ norPc \in AccessPcs /\ norPc' = Following
      /\ UNCHANGED <<size, fourByte, session, call>> /\ Target' = Target
      /\ TargetAddress' = TargetAddress
  BY AccessesLead, SameCall
<1>2. norPc \in WritePcs \union HeaderPcs => Target \in Chips
  BY DEF CallFits
<1>3. chip \in [Chips -> Commands] /\ sent \in 0 .. 5
  BY DEF NorTypeOK, Commands
<1>4. CASE SpiWait
  <2>1. /\ norPc \in {"await", "settle", "statusWait", "drain"} /\ shift = NoByte
        /\ UNCHANGED <<pins, shift, chip>> /\ (norPc # "await" => sent' = sent)
    BY <1>4 DEF SpiWait, Access, SpiIdle, spi, chips
  <2>2. norPc = "settle" => Arrived' = Arrived
    BY <2>1 DEF Arrived
  <2>3. norPc = "settle" /\ pins = "follow" => InMessage'
    BY <1>1, <2>1, <2>2, SameInMessage DEF Heard
  <2>4. QED
    BY <1>1, <2>1, <2>3, FollowingIs DEF Heard, TargetHeard, EnablePcs, StatusPcs, NextByte
<1>5. CASE Select
  <2>1. /\ norPc \in {"enableSelect", "programSelect", "select", "statusSelect"}
        /\ Drive(pins, low \union {Target}) /\ UNCHANGED <<pins, shift>>
    BY <1>5 DEF Select, Drive, Access, spi
  <2>2. Target \in Chips /\ low \subseteq Chips
    BY <1>2, <2>1 DEF WritePcs, ByteZeroPcs, HeaderPcs, NorTypeOK
  <2>3. Target \in low <=> norPc = "select" /\ call.kind = "wipe"
    BY <2>1, <2>2 DEF Selection, Selected, DataPcs, EnablePcs, StatusPcs
  <2>4. pins = "follow" =>
          chip'[Target] = IF norPc = "select" /\ call.kind = "wipe" THEN chip[Target]
                          ELSE IF shift # NoByte THEN Ignored ELSE Idle
    BY <2>1, <2>2, <2>3, DrivenFollow
  <2>5. norPc = "select" => shift = NoByte
    BY DEF Wire
  <2>6. norPc' \in {"enableOther", "programOther", "other", "statusOther"}
        /\ (norPc' = "other" <=> norPc = "select")
    BY <1>1, <2>1, FollowingIs
  <2>7. pins # "follow" => norPc = "select" /\ call.kind = "read"
    BY <2>1 DEF CallFits, WritePcs, ByteZeroPcs, HeaderPcs
  <2>8. CASE pins = "follow"
    BY <1>1, <2>1, <2>4, <2>5, <2>6, <2>8, CommandsAre DEF Heard, TargetHeard, EnablePcs, StatusPcs
  <2>9. CASE pins # "follow"
    BY <1>1, <2>1, <2>6, <2>7, <2>9 DEF TargetHeard, EnablePcs, StatusPcs
  <2>10. QED BY <2>8, <2>9
<1>6. CASE DeselectOther
  <2>1. /\ norPc \in {"enableOther", "programOther", "other", "statusOther"}
        /\ Drive(pins, low \ {3 - Target}) /\ UNCHANGED <<pins, shift, sent>>
    BY <1>6 DEF DeselectOther, Drive, Access, spi
  <2>2. Target \in Chips /\ 3 - Target # Target /\ low \subseteq Chips
    BY <1>2, <2>1
    DEF WritePcs, EnablePcs, ByteZeroPcs, StatusPcs, HeaderPcs, Chips, NorTypeOK
  <2>3. low = {Target}
    BY <2>1, <2>2
    DEF Selection, Selected, EnablePcs, StatusPcs, WritePcs, ByteZeroPcs, HeaderPcs, CallFits
  <2>4. pins = "follow" => chip'[Target] = chip[Target]
    BY <2>1, <2>2, <2>3, DrivenFollow
  <2>5. norPc = "other" /\ pins = "follow" => InMessage'
    <3>1. norPc = "other" => Arrived = 0 /\ Arrived' = Arrived
      BY <2>1 DEF Wire, Arrived
    <3>2. norPc = "other" => call.kind \in {"wipe", "read"}
      BY DEF CallFits, HeaderPcs
    <3>3. norPc = "other" /\ pins = "follow" => InMessage
      BY <3>1, <3>2 DEF Heard, InMessage
    <3>4. QED BY <1>1, <2>4, <3>1, <3>3, SameInMessage
  <2>6. \/ norPc = "enableOther" /\ norPc' = "enable"
        \/ norPc = "programOther" /\ norPc' = "await"
        \/ norPc = "other" /\ norPc' = "put"
        \/ norPc = "statusOther" /\ norPc' = "statusPut"
    BY <1>1, <2>1, FollowingIs
  <2>7. norPc # "other" => pins = "follow"
    BY <2>1 DEF CallFits, WritePcs, EnablePcs, ByteZeroPcs, StatusPcs
  <2>8. CASE pins = "follow"
    BY <1>1, <2>1, <2>4, <2>5, <2>6, <2>8 DEF Heard, TargetHeard, EnablePcs, StatusPcs
  <2>9. CASE pins # "follow"
    BY <1>1, <2>1, <2>6, <2>7, <2>9 DEF TargetHeard, EnablePcs, StatusPcs
  <2>10. QED BY <2>8, <2>9
<1>7. CASE Release
  <2>1. norPc' \in {"programSelect", "clock", "written", "return", "start"}
    BY <1>7, FollowingIs DEF Release, Access
  <2>2. QED BY <2>1 DEF TargetHeard, EnablePcs, StatusPcs
<1>8. CASE Put
  <2>1. /\ norPc \in {"put", "statusPut", "pollPut", "dataPut"} /\ shift = NoByte
        /\ UNCHANGED <<pins, chip>>
        /\ norPc = "put" => sent' = sent + 1 /\ shift' = MessageByte
    BY <1>8 DEF Put, Access, SpiIdle, chips
  <2>2. norPc = "put" => Arrived' = Arrived
    BY <1>3, <2>1, CommandsAre DEF Arrived
  <2>3. norPc = "put" /\ pins = "follow" => InMessage'
    BY <1>1, <2>1, <2>2, SameInMessage DEF Heard
  <2>4. QED
    BY <1>1, <2>1, <2>3, FollowingIs DEF Heard, TargetHeard, EnablePcs, StatusPcs
<1>9. CASE Send
  <2>1. norPc \in {"enable", "zero"} /\ UNCHANGED <<pins, chip>>
    BY <1>9 DEF Send, Access, chips
  <2>2. norPc = "zero" /\ chip[Target].op = "program"
          => chip[Target].need = 0 /\ chip[Target].address = TargetAddress
    <3> SUFFICES ASSUME norPc = "zero", chip[Target].op = "program"
                 PROVE  chip[Target].need = 0 /\ chip[Target].address = TargetAddress
      OBVIOUS
    <3>1. pins = "follow" /\ call.kind = "wipe" /\ Target \in Chips
      BY <1>2 DEF CallFits, WritePcs, ByteZeroPcs
    <3>2. InMessage
      BY <3>1 DEF Heard
    <3>3. Arrived = AddressLength(Target) + 1 /\ AddressLength(Target) \in {3, 4}
      BY DEF Wire, Arrived, AddressLength
    <3>4. TargetAddress < size[Target]
      BY <3>1, StaysOnChip
    <3>5. QED BY <3>2, <3>3, <3>4, CommandsAre DEF InMessage
  <2>3. QED
    BY <1>1, <2>1, <2>2, FollowingIs DEF Heard, TargetHeard, EnablePcs, StatusPcs
<1>10. CASE Take \/ StoreByte \/ OverRunClear \/ GetClockFreq
  <2>1. /\ norPc \in {"take", "statusTake", "pollTake", "dataStore", "clear", "dataClear", "clock"}
        /\ UNCHANGED <<pins, chip, shift, sent>>
    BY <1>10 DEF Take, StoreByte, TakeByte, OverRunClear, GetClockFreq, Access, spi, chips
  <2>2. Arrived' = Arrived
    BY <2>1 DEF Arrived
  <2>3. norPc = "take" /\ pins = "follow" => InMessage'
    BY <1>1, <2>1, <2>2, SameInMessage DEF Heard
  <2>4. norPc = "clear" => call.kind = "read"
    BY DEF CallFits
  <2>5. QED
    BY <1>1, <2>1, <2>3, <2>4, FollowingIs DEF Heard, TargetHeard, EnablePcs, StatusPcs, NextByte
<1>11. CASE DeInit \/ CsPinInit \/ SpiEnable
  <2>1. norPc' \in {"pins", "configRelease", "return"}
    BY <1>11, FollowingIs DEF DeInit, CsPinInit, SpiEnable, Access
  <2>2. QED BY <2>1 DEF TargetHeard, EnablePcs, StatusPcs
<1>12. QED
  BY <1>4, <1>5, <1>6, <1>7, <1>8, <1>9, <1>10, <1>11 DEF Accesses

LEMMA HeardKept ==
    ASSUME NorInv, NorNext
    PROVE  Heard'
<1>1. TargetHeard'
  <2>1. CASE Accesses
    BY <2>1, TargetHeardAccess
  <2>2. CASE SpiFinish
    BY <2>2, TargetHeardFinish
  <2>3. CASE CheckStatus
    <3>1. /\ norPc = "check" /\ norPc' \in {"pollPut", "drain"} /\ chip' = chip
          /\ Target' = Target
      BY <2>3, SameCall DEF CheckStatus, AfterPolls, board, chips
    <3>2. QED BY <3>1 DEF NorInv, Heard, TargetHeard, EnablePcs, StatusPcs
  <2>4. CASE \/ CsPinAssert \/ WriteByteZero \/ ByteZeroWritten \/ CallReturns
             \/ WipeCall \/ ConfigCall \/ \E a \in ReadAddresses : ReadCall(a, SectorSize)
    <3>1. norPc' \in {"fault", "written", "enableSelect", "sector", "idle", "deinit", "clear"}
      BY <2>4 DEF CsPinAssert, WriteByteZero, ByteZeroWritten, CallReturns, WipeCall, ConfigCall,
                  ReadCall, Begin
    <3>2. QED BY <3>1 DEF TargetHeard, EnablePcs, StatusPcs
  <2>5. CASE ChipFinish
    <3>1. UNCHANGED <<norPc, chip, shift, sent, pins, size, fourByte, call>>
      BY <2>5 DEF ChipFinish, board, spi
    <3>2. Target' = Target /\ TargetAddress' = TargetAddress
      BY <3>1, SameCall
    <3>3. Arrived' = Arrived
      BY <3>1 DEF Arrived
    <3>4. InMessage => InMessage'
      BY <3>1, <3>3, SameInMessage
    <3>5. QED BY <3>1, <3>2, <3>4 DEF NorInv, Heard, TargetHeard
  <2>6. QED BY <2>1, <2>2, <2>3, <2>4, <2>5, StepsAre
<1>2. UpdateOnlyReads'
  BY UpdateKept
<1>3. QED BY <1>1, <1>2 DEF Heard, TargetHeard, UpdateOnlyReads

-----------------------------------------------------------------------------
(* The stream of a read.                                                    *)

LEMMA SamePlaces ==
    ASSUME UNCHANGED <<size, call>>
    PROVE  \A i : PlaceOf(i)' = PlaceOf(i)
BY SameCall DEF PlaceOf

\* Where the last bytes of a read are, and what it can have stored so far.
LEMMA DataCall ==
    ASSUME NorInv, norPc \in DataPcs, OnTheChips
    PROVE  /\ Target \in Chips /\ Target # 0 /\ low = {Target} /\ Listening = {Target}
           /\ call.kind = "read" /\ call.count = SectorSize /\ TargetAddress \in Nat
           /\ TargetAddress + call.count <= size[Target] /\ size[Target] \in Nat
           /\ stored \in Nat /\ stored < call.count
           /\ shift \in {NoByte, Dummy}
<1> USE DEF NorInv
<1>1. Target \in Chips /\ TargetAddress + call.count <= size[Target]
  BY ReadStaysOnChip
<1>2. Target # 0
  BY <1>1 DEF Chips
<1>3. low = {Target}
  BY <1>1 DEF Selection, Selected
<1>4. TargetAddress \in Nat /\ size[Target] \in Nat
  BY <1>1, TargetFits
<1>5. call.kind = "read" /\ call.count = SectorSize /\ stored \in Nat /\ stored < call.count
  BY DEF CallFits, Stream, NorTypeOK
<1>6. QED BY <1>1, <1>2, <1>3, <1>4, <1>5 DEF Listening, ListeningTo, OnTheChips, Wire

\* The read's part of the invariant while its bytes come in.
DataStream ==
    /\ Sent \in Nat
    /\ chip[Target].op = "read" /\ chip[Target].need = 0
    /\ Sent < call.count => chip[Target].address = TargetAddress + Sent
    /\ rx.overrun => shift = NoByte
    /\ norPc = "dataPut" => ~rx.overrun
    /\ norPc \in {"dataClear", "dataPut"} =>
         /\ shift # NoByte => ~rx.new
         /\ rx.new /\ stored >= 1 => Holds(stored, stored)
         /\ shift = NoByte /\ stored >= 2 => Holds(stored - 1, stored)
         /\ stored >= 3 => Holds(stored - 2, stored)
    /\ norPc = "dataStore" =>
         /\ shift # NoByte /\ rx.new /\ stored >= 1 => Holds(stored, stored)
         /\ shift = NoByte /\ stored >= 1 => Holds(stored, stored + 1)
         /\ stored >= 2 => Holds(stored - 1, stored + 1)

\* The first byte: the chip has the whole address.
LEMMA StreamBegins ==
    ASSUME NorInv, SpiWait, norPc = "settle", OnTheChips
    PROVE  DataStream'
<1> USE DEF NorInv
<1>1. /\ Target \in Chips /\ TargetAddress + call.count <= size[Target] /\ TargetAddress \in Nat
      /\ size[Target] \in Nat /\ call.count \in Nat \ {0} /\ call.kind = "read"
  BY ReadStaysOnChip, TargetFits, NumbersFit DEF CallFits, OnTheChips
<1>2. /\ UNCHANGED <<size, call, chip, rx, shift, stored>> /\ shift = NoByte
      /\ norPc' = "dataClear" /\ stored = 0
  BY <1>1, FollowingIs
  DEF SpiWait, SpiIdle, Access, NextByte, board, spi, chips, counts, Stream, HeaderPcs
<1>3. Target' = Target /\ TargetAddress' = TargetAddress
  BY <1>2, SameCall
<1>4. InMessage /\ Arrived = AddressLength(Target) + 1 /\ AddressLength(Target) \in {3, 4}
  BY <1>2 DEF Heard, OnTheChips, Wire, Arrived, AddressLength
<1>5. chip[Target].op = "read" /\ chip[Target].need = 0 /\ chip[Target].address = TargetAddress
  BY <1>1, <1>4 DEF InMessage
<1>6. Sent' = 0
  BY <1>2 DEF Sent
<1>7. rx' = rx /\ shift' = NoByte /\ stored' = 0 /\ norPc' = "dataClear"
  BY <1>2
<1>8. QED BY <1>1, <1>2, <1>3, <1>5, <1>6, <1>7 DEF DataStream

\* The driver's three steps for a byte.
LEMMA StreamDriven ==
    ASSUME NorInv, norPc \in DataPcs, norPc' \in DataPcs, OnTheChips,
           OverRunClear \/ Put \/ StoreByte
    PROVE  DataStream'
<1> USE DEF NorInv
<1>1. DataStream
  BY DEF Stream, DataStream
<1>2. /\ UNCHANGED <<size, call, chip>> /\ Target' = Target /\ TargetAddress' = TargetAddress
      /\ \A i : PlaceOf(i)' = PlaceOf(i)
      /\ stored \in Nat
  BY SameCall, SamePlaces
  DEF OverRunClear, Put, StoreByte, TakeByte, board, chips, NorTypeOK
<1>3. rx \in [byte : Bytes, new : BOOLEAN, overrun : BOOLEAN]
  BY DEF NorTypeOK
<1>4. CASE OverRunClear
  <2>1. /\ norPc = "dataClear" /\ norPc' = "dataPut" /\ UNCHANGED <<shift, stored>>
        /\ rx' = [rx EXCEPT !.overrun = FALSE]
    BY <1>4, FollowingIs DEF OverRunClear, Access, counts, DataPcs
  <2>2. rx'.byte = rx.byte /\ rx'.new = rx.new /\ rx'.overrun = FALSE
    BY <1>3, <2>1
  <2>3. Sent' = Sent
    BY <2>1 DEF Sent
  <2>4. QED BY <1>1, <1>2, <2>1, <2>2, <2>3 DEF DataStream, Holds
<1>5. CASE Put
  <2>1. /\ norPc = "dataPut" /\ norPc' = "dataStore" /\ UNCHANGED <<rx, stored>>
        /\ shift = NoByte /\ shift' = Dummy /\ Dummy # NoByte
    BY <1>5, FollowingIs DEF Put, SpiIdle, Access, counts, DataPcs, Dummy, NoByte, Byte
  <2>2. Sent' = Sent
    BY <1>2, <2>1 DEF Sent
  <2>3. QED BY <1>1, <1>2, <2>1, <2>2 DEF DataStream, Holds
<1>6. CASE StoreByte
  <2>1. /\ norPc = "dataStore" /\ norPc' = "dataClear" /\ shift' = shift /\ stored' = stored + 1
        /\ rx' = [rx EXCEPT !.new = FALSE]
    BY <1>6, FollowingIs DEF StoreByte, TakeByte, Access, NextByte, DataPcs
  <2>2. rx'.byte = rx.byte /\ rx'.new = FALSE /\ rx'.overrun = rx.overrun
    BY <1>3, <2>1
  <2>3. Sent' = Sent
    BY <1>2, <2>1 DEF Sent
  <2>4. QED BY <1>1, <1>2, <2>1, <2>2, <2>3 DEF DataStream, Holds
<1>7. QED BY <1>4, <1>5, <1>6

\* A byte arrives: it is the next one, or it is lost and the receive buffer stays.
LEMMA StreamArrives ==
    ASSUME NorInv, norPc \in DataPcs, OnTheChips, SpiFinish
    PROVE  DataStream'
<1> USE DEF NorInv
<1>1. DataStream
  BY DEF Stream, DataStream
<1>2. /\ Target \in Chips /\ Listening = {Target} /\ TargetAddress \in Nat
      /\ TargetAddress + call.count <= size[Target] /\ size[Target] \in Nat
      /\ call.count \in Nat /\ stored \in Nat /\ stored < call.count
  BY DataCall, NumbersFit
<1>3. /\ UNCHANGED <<size, call, norPc, stored>> /\ Target' = Target
      /\ TargetAddress' = TargetAddress
      /\ \A i : PlaceOf(i)' = PlaceOf(i)
      /\ shift # NoByte /\ shift' = NoByte
  BY SameCall, SamePlaces DEF SpiFinish, board, counts
<1>4. chip'[Target] = Command("read", 0, (chip[Target].address + 1) % size[Target],
                              chip'[Target].data)
  BY <1>1, <1>2 DEF SpiFinish, DataStream, Receive, Command
<1>5. chip'[Target].op = "read" /\ chip'[Target].need = 0
      /\ chip'[Target].address = (chip[Target].address + 1) % size[Target]
  BY <1>4 DEF Command
<1>6. Sent \in Nat /\ Sent' = Sent + 1
  BY <1>1, <1>2, <1>3 DEF DataStream, Sent
<1>7. Sent' < call.count => chip'[Target].address = TargetAddress + Sent'
  <2> SUFFICES ASSUME Sent + 1 < call.count
               PROVE  chip'[Target].address = TargetAddress + (Sent + 1)
    BY <1>6
  <2>1. chip[Target].address + 1 = TargetAddress + Sent + 1
    BY <1>1, <1>2, <1>6 DEF DataStream
  <2>2. /\ TargetAddress + Sent + 1 \in Nat
        /\ TargetAddress + Sent + 1 < size[Target]
    BY <1>2, <1>6
  <2>3. (TargetAddress + Sent + 1) % size[Target] = TargetAddress + Sent + 1
    BY <1>2, <2>2, SmallRemainder
  <2>4. QED BY <1>2, <1>5, <1>6, <2>1, <2>3
<1>8. Reply(Target) = Place(Target, chip[Target].address)
  BY <1>1 DEF DataStream, Reply
<1>9. /\ ~rx.overrun
      /\ rx.new => rx' = [rx EXCEPT !.overrun = TRUE]
      /\ ~rx.new => rx' = [byte |-> Place(Target, chip[Target].address),
                           new |-> TRUE, overrun |-> FALSE]
  BY <1>1, <1>2, <1>3, <1>8, ReceivedByte DEF DataStream, SpiFinish, OnTheChips
<1>10. /\ rx \in [byte : Bytes, new : BOOLEAN, overrun : BOOLEAN]
  BY DEF NorTypeOK
<1>11. /\ rx.new => rx'.byte = rx.byte
       /\ ~rx.new => /\ rx'.byte = Place(Target, chip[Target].address)
                     /\ rx'.new /\ ~rx'.overrun
  BY <1>9, <1>10
<1>12. CASE norPc \in {"dataClear", "dataPut"}
  <2>1. ~rx.new /\ Sent = stored - 1
    BY <1>1, <1>2, <1>3, <1>12 DEF DataStream, Sent
  <2>2. rx'.byte = PlaceOf(stored) /\ stored >= 1 /\ ~rx'.overrun
    BY <1>1, <1>2, <1>6, <1>11, <2>1 DEF DataStream, PlaceOf
  <2>3. rx'.byte = PlaceOf(stored)'
    BY <1>3, <2>2
  <2>4. /\ Holds(stored, stored)' /\ (stored >= 2 => Holds(stored - 1, stored)')
        /\ stored >= 3 => Holds(stored - 2, stored)'
    BY <1>2, <1>3, <2>2 DEF Holds
  <2>5. QED BY <1>2, <1>3, <1>5, <1>6, <1>7, <1>12, <2>2, <2>4 DEF DataStream
<1>13. CASE norPc = "dataStore"
  <2>1. Sent = stored
    BY <1>2, <1>3, <1>13 DEF Sent
  <2>2. ~rx.new => rx'.byte = PlaceOf(stored + 1)
    BY <1>1, <1>2, <1>11, <2>1 DEF DataStream, PlaceOf
  <2>3. rx.new /\ stored >= 1 => rx'.byte = PlaceOf(stored)
    BY <1>1, <1>2, <1>3, <1>11, <1>13 DEF DataStream, Holds
  <2>4. /\ stored >= 1 => Holds(stored, stored + 1)'
        /\ stored >= 2 => Holds(stored - 1, stored + 1)'
    BY <1>2, <1>3, <2>2, <2>3 DEF Holds
  <2>5. QED BY <1>2, <1>3, <1>5, <1>6, <1>7, <1>13, <2>4 DEF DataStream
<1>14. QED BY <1>12, <1>13 DEF DataPcs

LEMMA StreamKept ==
    ASSUME NorInv, NorNext
    PROVE  Stream'
<1> USE DEF NorInv
<1>t. stored \in Nat /\ call.count \in {0, SectorSize}
  BY NumbersFit DEF NorTypeOK
<1>1. DataStream' => (norPc' \in DataPcs /\ OnTheChips' =>
         /\ Sent' \in Nat
         /\ chip'[Target'].op = "read" /\ chip'[Target'].need = 0
         /\ Sent' < call'.count => chip'[Target'].address = TargetAddress' + Sent'
         /\ rx'.overrun => shift' = NoByte)
  BY DEF DataStream
<1>2. DataStream' /\ (norPc' \in DataPcs => stored' < call'.count)
        /\ (norPc' \in HeaderPcs \union {"clear"} \/ call'.kind = "wipe" => stored' = 0)
        => Stream'
  BY DEF DataStream, Stream
<1>3. (norPc' \notin DataPcs \/ ~OnTheChips') /\ (norPc' \in DataPcs => stored' < call'.count)
        /\ (norPc' \in HeaderPcs \union {"clear"} \/ call'.kind = "wipe" => stored' = 0)
        => Stream'
  BY DEF Stream, DataPcs
<1>4. CASE Accesses
  <2>1. /\ norPc \in AccessPcs /\ norPc' = Following
        /\ UNCHANGED <<size, call>>
    BY <1>4, AccessesLead
  <2>2. /\ norPc' \in HeaderPcs =>
              \/ norPc \in HeaderPcs \union {"clear"}
              \/ norPc = "programOther"
        /\ norPc' \in DataPcs =>
              \/ norPc = "settle" /\ call.kind # "wipe" /\ norPc' = NextByte(0)
              \/ norPc = "clear" /\ Target = 0 /\ norPc' = NextByte(0)
              \/ norPc = "dataClear" /\ norPc' = "dataPut"
              \/ norPc = "dataPut" /\ norPc' = "dataStore"
              \/ norPc = "dataStore" /\ norPc' = NextByte(stored + 1)
        /\ norPc' # "clear"
    BY <2>1, FollowingIs
    DEF AccessPcs, HeaderPcs, WritePcs, EnablePcs, ByteZeroPcs, StatusPcs, DataPcs, ConfigPcs,
        NextByte
  <2>3. stored' = IF norPc = "dataStore" THEN stored + 1 ELSE stored
    BY <1>4
    DEF Accesses, SpiWait, Select, DeselectOther, Release, Put, Send, Take, StoreByte, TakeByte,
        OverRunClear, GetClockFreq, DeInit, CsPinInit, SpiEnable, Access, counts
  <2>4. norPc' \in HeaderPcs \union {"clear"} \/ call'.kind = "wipe" => stored' = 0
    <3>1. norPc' \in HeaderPcs \/ call.kind = "wipe" => norPc # "dataStore"
      BY <2>2 DEF CallFits, DataPcs, HeaderPcs
    <3>2. norPc = "programOther" => call.kind = "wipe"
      BY DEF CallFits, WritePcs, ByteZeroPcs
    <3>3. QED BY <2>1, <2>2, <2>3, <3>1, <3>2 DEF Stream
  <2>5. norPc' \in DataPcs => stored' < call'.count
    <3>1. norPc \in DataPcs => stored < call.count
      BY DEF Stream
    <3>2. norPc \in {"settle", "clear"} => stored = 0
      BY DEF Stream, HeaderPcs
    <3>3. ~ "release" \in DataPcs
      BY DEF DataPcs
    <3>4. QED BY <1>t, <2>1, <2>2, <2>3, <3>1, <3>2, <3>3 DEF NextByte, DataPcs
  <2>6. CASE norPc' \notin DataPcs \/ ~OnTheChips'
    BY <1>3, <2>4, <2>5, <2>6
  <2>7. CASE norPc' \in DataPcs /\ OnTheChips'
    <3>1. norPc # "pins"
      BY <2>2, <2>7
    <3>2. pins' = pins
      BY <1>4, <3>1
      DEF Accesses, SpiWait, Select, DeselectOther, Release, Drive, Put, Send, Take, StoreByte, TakeByte,
          OverRunClear, GetClockFreq, DeInit, CsPinInit, SpiEnable, Access
    <3>3. OnTheChips
      BY <2>1, <2>7, <3>2 DEF OnTheChips
    <3>4. Target # 0
      BY <3>3, ReadStaysOnChip DEF Chips
    <3>5. norPc = "settle" \/ norPc \in DataPcs
      BY <2>2, <2>7, <3>4 DEF DataPcs
    <3>6. norPc = "settle" => SpiWait
      BY <1>4
      DEF Accesses, Select, DeselectOther, Release, Put, Send, Take, StoreByte, OverRunClear,
          GetClockFreq, DeInit, CsPinInit, SpiEnable, Access
    <3>7. norPc \in DataPcs => OverRunClear \/ Put \/ StoreByte
      BY <1>4
      DEF Accesses, SpiWait, Select, DeselectOther, Release, Send, Take, DataPcs,
          GetClockFreq, DeInit, CsPinInit, SpiEnable, Access
    <3>8. DataStream'
      BY <2>7, <3>3, <3>5, <3>6, <3>7, StreamBegins, StreamDriven
    <3>9. QED BY <1>2, <2>4, <2>5, <3>8
  <2>8. QED BY <2>6, <2>7
<1>5. CASE CheckStatus
  <2>1. norPc' \in {"pollPut", "drain"} /\ UNCHANGED <<call, stored>>
    BY <1>5 DEF CheckStatus, AfterPolls
  <2>2. QED BY <1>3, <2>1 DEF Stream, DataPcs, HeaderPcs
<1>6. CASE \/ CsPinAssert \/ WriteByteZero \/ ByteZeroWritten \/ CallReturns
  <2>1. /\ norPc' \in {"fault", "written", "enableSelect", "sector", "idle"}
        /\ stored' = stored
        /\ call'.kind = "wipe" => call.kind = "wipe"
    BY <1>6
    DEF CsPinAssert, WriteByteZero, ByteZeroWritten, CallReturns, NoCall, counts, NorTypeOK
  <2>2. QED BY <1>3, <2>1 DEF Stream, DataPcs, HeaderPcs
<1>7. CASE WipeCall \/ ConfigCall \/ \E a \in ReadAddresses : ReadCall(a, SectorSize)
  <2>1. norPc' \in {"sector", "deinit", "clear"} /\ stored' = 0
    BY <1>7 DEF WipeCall, ConfigCall, ReadCall, Begin
  <2>2. QED BY <1>3, <2>1 DEF DataPcs
<1>8. CASE SpiFinish \/ ChipFinish
  <2>1. UNCHANGED <<norPc, stored, call, size, pins>>
    BY <1>8 DEF SpiFinish, ChipFinish, board, counts
  <2>2. (norPc' \in DataPcs => stored' < call'.count)
        /\ (norPc' \in HeaderPcs \union {"clear"} \/ call'.kind = "wipe" => stored' = 0)
    BY <2>1 DEF Stream
  <2>3. OnTheChips' <=> OnTheChips
    BY <2>1 DEF OnTheChips
  <2>4. CASE norPc \notin DataPcs \/ ~OnTheChips
    BY <1>3, <2>1, <2>2, <2>3, <2>4
  <2>5. CASE SpiFinish /\ norPc \in DataPcs /\ OnTheChips
    BY <1>2, <2>2, <2>5, StreamArrives
  <2>6. CASE ChipFinish /\ norPc \in DataPcs /\ OnTheChips
    <3>1. UNCHANGED <<rx, shift, chip>> /\ Target' = Target /\ TargetAddress' = TargetAddress
          /\ \A i : PlaceOf(i)' = PlaceOf(i)
      BY <2>1, <2>6, SameCall, SamePlaces DEF ChipFinish, spi
    <3>2. Sent' = Sent
      BY <2>1, <3>1 DEF Sent
    <3>3. DataStream'
      BY <2>1, <2>6, <3>1, <3>2 DEF Stream, DataStream, Holds
    <3>4. QED BY <1>2, <2>2, <3>3
  <2>7. QED BY <1>8, <2>4, <2>5, <2>6
<1>9. QED
  BY <1>4, <1>5, <1>6, <1>7, <1>8, StepsAre

-----------------------------------------------------------------------------
(* The poll loop, what a read stores, what a wipe writes.                   *)

LEMMA PollsKept ==
    ASSUME NorInv, NorNext
    PROVE  PollsLeft'
<1> USE DEF NorInv
<1>1. CASE Accesses
  <2>1. norPc \in AccessPcs /\ norPc' = Following
    BY <1>1, AccessesLead
  <2>2. CASE GetClockFreq
    BY <2>2, NorAssumption DEF GetClockFreq, PollsLeft
  <2>3. CASE ~GetClockFreq
    <3>1. norPc # "clock" /\ polls' = polls
      BY <1>1, <2>3
      DEF Accesses, SpiWait, Select, DeselectOther, Release, Put, Send, Take, StoreByte, TakeByte,
          OverRunClear, DeInit, CsPinInit, SpiEnable, Access, counts
    <3>2. norPc' \in (StatusPcs \ {"drain", "statusRelease"}) \union {"statusWait", "statusSelect"}
            => norPc \in (StatusPcs \ {"drain", "statusRelease"})
                            \union {"statusWait", "statusSelect"}
      BY <2>1, <3>1, FollowingIs
      DEF AccessPcs, HeaderPcs, WritePcs, EnablePcs, ByteZeroPcs, StatusPcs, DataPcs, ConfigPcs,
          NextByte
    <3>3. QED BY <3>1, <3>2 DEF PollsLeft
  <2>4. QED BY <2>2, <2>3
<1>2. CASE CheckStatus
  <2>1. polls > 0 /\ polls \in Nat /\ polls' = polls - 1
    BY <1>2 DEF CheckStatus, PollsLeft, StatusPcs, NorTypeOK
  <2>2. norPc' = "drain" \/ polls' # 0
    BY <1>2 DEF CheckStatus, PollAgain, AfterPolls
  <2>3. QED BY <2>1, <2>2 DEF PollsLeft
<1>3. CASE \/ CsPinAssert \/ WriteByteZero \/ ByteZeroWritten \/ CallReturns
           \/ WipeCall \/ ConfigCall \/ \E a \in ReadAddresses : ReadCall(a, SectorSize)
  <2>1. norPc' \in {"fault", "written", "enableSelect", "sector", "idle", "deinit", "clear"}
    BY <1>3 DEF CsPinAssert, WriteByteZero, ByteZeroWritten, CallReturns, WipeCall, ConfigCall,
                ReadCall, Begin
  <2>2. QED BY <2>1 DEF PollsLeft, StatusPcs
<1>4. CASE SpiFinish \/ ChipFinish
  BY <1>4 DEF SpiFinish, ChipFinish, counts, PollsLeft
<1>5. QED
  BY <1>1, <1>2, <1>3, <1>4, StepsAre

LEMMA ReadsKept ==
    ASSUME NorInv, NorNext
    PROVE  ReadsAreRecent'
<1> USE DEF NorInv
<1> SUFFICES ASSUME OnTheChips', stored' >= 3
             PROVE  got' \in {PlaceOf(i)' : i \in stored' - 2 .. stored'}
  BY DEF ReadsAreRecent
<1>t. stored \in Nat /\ call'.kind = "read" /\ pins' = "follow"
  BY DEF NorTypeOK, OnTheChips
<1>1. CASE Take \/ StoreByte
  <2>1. UNCHANGED <<size, call, pins>> /\ \A i : PlaceOf(i)' = PlaceOf(i)
    BY <1>1, SamePlaces DEF Take, StoreByte, TakeByte, board
  <2>2. OnTheChips
    BY <2>1 DEF OnTheChips
  <2>3. CASE Take
    <3>1. norPc \in HeaderPcs \/ call.kind = "wipe"
      BY <2>3 DEF Take, Access, CallFits, HeaderPcs, WritePcs, StatusPcs
    <3>2. stored = 0 /\ stored' = stored
      BY <2>3, <3>1 DEF Stream, Take
    <3>3. QED BY <3>2
  <2>4. CASE StoreByte
    <3>1. norPc = "dataStore" /\ stored' = stored + 1 /\ got' = rx.byte
      BY <2>4 DEF StoreByte, TakeByte, Access
    <3>2. Holds(stored - 1, stored + 1)
      BY <1>t, <2>2, <3>1 DEF Stream, DataPcs
    <3>3. QED BY <1>t, <2>1, <3>1, <3>2 DEF Holds
  <2>5. QED BY <1>1, <2>3, <2>4
<1>2. CASE \/ Accesses /\ ~Take /\ ~StoreByte
           \/ CheckStatus \/ WriteByteZero \/ SpiFinish \/ ChipFinish
  <2>1. UNCHANGED <<size, call, got, stored>> /\ \A i : PlaceOf(i)' = PlaceOf(i)
    BY <1>2, SamePlaces
    DEF Accesses, SpiWait, Select, DeselectOther, Release, Put, Send, OverRunClear, GetClockFreq,
        DeInit, CsPinInit, SpiEnable, CheckStatus, WriteByteZero, SpiFinish, ChipFinish, board,
        counts
  <2>2. pins' = pins
    <3>1. call.kind # "config"
      BY <1>t, <2>1
    <3>2. ~CsPinInit
      BY <3>1 DEF CsPinInit, Access, CallFits, ConfigPcs
    <3>3. QED
      BY <1>2, <3>2
      DEF Accesses, SpiWait, Select, DeselectOther, Release, Drive, Put, Send, OverRunClear, GetClockFreq,
          DeInit, SpiEnable, CheckStatus, WriteByteZero, SpiFinish, ChipFinish
  <2>3. OnTheChips
    BY <2>1, <2>2 DEF OnTheChips
  <2>4. QED BY <2>1, <2>3 DEF ReadsAreRecent
<1>3. CASE CsPinAssert \/ ByteZeroWritten \/ CallReturns
  <2>1. call'.kind # "read"
    BY <1>3 DEF CsPinAssert, ByteZeroWritten, CallReturns, NoCall, CallFits, NorTypeOK
  <2>2. QED BY <1>t, <2>1
<1>4. CASE WipeCall \/ ConfigCall \/ \E a \in ReadAddresses : ReadCall(a, SectorSize)
  <2>1. stored' = 0
    BY <1>4 DEF WipeCall, ConfigCall, ReadCall, Begin
  <2>2. QED BY <2>1
<1>5. QED
  BY <1>1, <1>2, <1>3, <1>4, StepsAre DEF Accesses

LEMMA WipedKept ==
    ASSUME NorInv, NorNext
    PROVE  OnlyWipedBytesChange'
<1> USE DEF NorInv
<1>1. size' = size
  BY BoardStays
<1>2. CASE writing' \subseteq writing
  BY <1>1, <1>2 DEF OnlyWipedBytesChange
<1>3. CASE PinSteps
  <2>1. PICK p \in {"follow", "inverted", "dead"}, l \in SUBSET Chips :
           /\ Drive(p, l)
           /\ CsPinInit \/ p = pins
           /\ Select => l = low \union {Target}
           /\ DeselectOther => l = low \ {3 - Target}
    BY <1>3, PinStepsDrive
  <2>2. ASSUME NEW q \in writing', q \notin writing
        PROVE  \E sector \in WipeFirst .. WipeLast :
                  (IF q[1] = 2 THEN size'[1] ELSE 0) + q[2] = sector * SectorSize
    <3>1. PICK c \in Listening \ ListeningTo(p, l) :
             chip[c].op = "program" /\ q = Place(c, chip[c].address)
      BY <2>1, <2>2, Driven
    <3>2. session = "app" /\ pins = "follow"
      <4>1. c \in Chips
        BY DEF Listening, ListeningTo, CallFits, NorTypeOK
      <4>2. QED BY <3>1, <4>1 DEF Heard, CallFits
    <3>3. ~CsPinInit
      BY <3>2 DEF CsPinInit, Access, CallFits, ConfigPcs
    <3>4. c \in low /\ c \notin l
      BY <2>1, <3>1, <3>2, <3>3 DEF Listening, ListeningTo
    <3>5. c = Target /\ Target \in Chips /\ Selected
      BY <3>4 DEF Selection
    <3>6. Release
      BY <1>3, <2>1, <3>3, <3>4, <3>5 DEF PinSteps, Chips
    <3>7. norPc = "zeroRelease"
      <4>1. norPc \in {"enableRelease", "zeroRelease", "statusRelease", "release", "configRelease"}
        BY <3>6 DEF Release, Access
      <4>2. norPc \notin EnablePcs \union StatusPcs
        BY <3>1, <3>5 DEF Heard
      <4>3. norPc \notin {"release", "configRelease"}
        BY <3>2 DEF CallFits, ConfigPcs
      <4>4. QED BY <4>1, <4>2, <4>3 DEF EnablePcs, StatusPcs
    <3>8. chip[Target].address = TargetAddress /\ call.kind = "wipe"
          /\ call.address \in WipeFirst .. WipeLast
      BY <3>1, <3>5, <3>7, NumbersFit DEF Heard, CallFits, WritePcs, ByteZeroPcs
    <3>9. (IF Target = 2 THEN size[1] ELSE 0) + TargetAddress = call.address * SectorSize
      <4>1. CallAddress = call.address * SectorSize /\ CallAddress \in Nat
        BY <3>8, TargetFits DEF CallAddress
      <4>2. size[1] \in Nat
        BY DEF BoardFits, Chips
      <4>3. QED BY <3>5, <4>1, <4>2, TargetFits DEF Chips
    <3>10. q[1] = Target /\ q[2] = TargetAddress
      BY <3>1, <3>5, <3>8 DEF Place
    <3>11. QED BY <1>1, <3>8, <3>9, <3>10
  <2>3. QED BY <1>1, <2>2 DEF OnlyWipedBytesChange
<1>4. CASE NorNext /\ ~PinSteps
  <2>1. writing' \subseteq writing
    BY <1>4, StepsAre
    DEF Accesses, PinSteps, SpiWait, Put, Send, Take, StoreByte, TakeByte, OverRunClear,
        GetClockFreq, DeInit, SpiEnable, CheckStatus, CsPinAssert, WriteByteZero, ByteZeroWritten,
        CallReturns, WipeCall, ConfigCall, ReadCall, Begin, SpiFinish, ChipFinish, chips
  <2>2. QED BY <1>2, <2>1
<1>5. QED BY <1>3, <1>4

-----------------------------------------------------------------------------
(* The theorems.                                                            *)

LEMMA NorInvInit == NorInit => NorInv
<1> SUFFICES ASSUME NorInit PROVE NorInv
  OBVIOUS
<1>1. PICK n \in SecondChipSizes : size = <<FirstChipSize, n>>
  BY DEF NorInit
<1>2. BoardFits
  <2>1. n \in Nat /\ FirstChipSize \in Nat /\ size[1] = FirstChipSize /\ size[2] = n
    BY <1>1, NorAssumption, NumbersFit
  <2>2. size \in [Chips -> Nat]
    BY <1>1, <2>1 DEF Chips
  <2>3. \A c \in Chips : ~fourByte[c] => size[c] <= ShortSpan
    BY <2>1, <2>2, NumbersFit DEF NorInit, Chips
  <2>4. QED BY <2>1, <2>2, <2>3 DEF BoardFits, NorInit
<1>3. NorTypeOK
  <2>1. NoByte \in [kind : Opcodes \union {"none", "address", "dummy", "zero"}, address : Nat]
    BY DEF NoByte, Byte
  <2>2. Idle \in Commands
    BY <1>2 DEF BoardFits, Idle, Command, Commands, Chips
  <2>3. NoCall \in [kind : {"none", "wipe", "config", "read", "fault"}, address : Nat,
                    count : {0, SectorSize}]
    BY DEF NoCall
  <2>4. Void \in Bytes
    BY DEF Bytes
  <2>5. "idle" \in NorPcs
    BY NorPcsAre
  <2>6. 0 \in 0 .. SectorSize /\ \E k \in Clocks : 0 <= PollLimit(k)
    BY NorAssumption, NumbersFit
  <2>7. /\ low = {} /\ wel = {} /\ writing = {} /\ shift = NoByte /\ spe = TRUE
        /\ rx \in [byte : {Void}, new : BOOLEAN, overrun : BOOLEAN]
        /\ chip = [c \in Chips |-> Idle] /\ call = NoCall /\ norPc = "idle" /\ sent = 0
        /\ again = FALSE /\ got = Void /\ stored = 0 /\ polls = 0
    BY DEF NorInit
  <2>8. /\ rx \in [byte : Bytes, new : BOOLEAN, overrun : BOOLEAN]
        /\ chip \in [Chips -> Commands]
    BY <2>2, <2>4, <2>7
  <2>9. /\ low \subseteq Chips /\ wel \subseteq Chips /\ writing \subseteq Places
        /\ norPc \in NorPcs /\ again \in BOOLEAN /\ spe \in BOOLEAN /\ got \in Bytes
    BY <2>4, <2>5, <2>7
  <2>10. /\ sent \in 0 .. 5 /\ stored \in 0 .. SectorSize
         /\ polls \in Nat /\ \E k \in Clocks : polls <= PollLimit(k)
    BY <2>6, <2>7
  <2>11. QED
    BY <2>1, <2>3, <2>7, <2>8, <2>9, <2>10 DEF NorTypeOK, Commands
<1>4. norPc = "idle" /\ call = NoCall /\ session = "app" /\ pins = "follow" /\ spe = TRUE
      /\ low = {} /\ shift = NoByte /\ chip = [c \in Chips |-> Idle] /\ stored = 0 /\ writing = {}
  BY DEF NorInit
<1>5. CallFits
  BY <1>4 DEF CallFits, NoCall, ConfigPcs, WritePcs, EnablePcs, ByteZeroPcs, StatusPcs, DataPcs,
              HeaderPcs
<1>6. Selection
  BY <1>4 DEF Selection, Selected, DataPcs, EnablePcs, StatusPcs
<1>7. Wire
  BY <1>4 DEF Wire, StatusPcs, DataPcs
<1>8. Heard /\ PollsLeft /\ ReadsAreRecent /\ OnlyWipedBytesChange
  BY <1>4 DEF Heard, EnablePcs, StatusPcs, PollsLeft, ReadsAreRecent, OnlyWipedBytesChange
<1>9. Stream
  BY <1>4 DEF Stream, DataPcs, HeaderPcs
<1>10. QED BY <1>2, <1>3, <1>5, <1>6, <1>7, <1>8, <1>9 DEF NorInv

LEMMA NorInvStutters == NorInv /\ UNCHANGED norVars => NorInv'
<1> SUFFICES ASSUME NorInv, UNCHANGED norVars PROVE NorInv'
  OBVIOUS
<1> USE DEF NorInv
<1>1. UNCHANGED <<size, fourByte, session, pins, low, shift, rx, spe, chip, wel, writing, call,
                  norPc, sent, again, got, stored, polls>>
  BY DEF norVars, board, spi, chips, counts
<1>2. Target' = Target /\ TargetAddress' = TargetAddress /\ \A i : PlaceOf(i)' = PlaceOf(i)
  BY <1>1, SameCall, SamePlaces
<1>3. Bytes' = Bytes /\ Places' = Places /\ BoardFits'
  BY BoardStays, BoardKept
<1>4. NorTypeOK'
  BY <1>1, <1>3 DEF NorTypeOK
<1>5. CallFits' /\ Selection'
  BY <1>1, <1>2 DEF CallFits, Selection, Selected
<1>6. Wire'
  BY <1>1, <1>2 DEF Wire, LastByte, AddressLength
<1>7. Arrived' = Arrived /\ Sent' = Sent /\ (OnTheChips' <=> OnTheChips)
  BY <1>1 DEF Arrived, Sent, OnTheChips
<1>8. Heard'
  BY <1>1, <1>2, <1>7 DEF Heard, InMessage, AddressLength
<1>9. Stream'
  BY <1>1, <1>2, <1>7 DEF Stream, Holds
<1>10. PollsLeft' /\ ReadsAreRecent' /\ OnlyWipedBytesChange'
  BY <1>1, <1>2, <1>7 DEF PollsLeft, ReadsAreRecent, OnlyWipedBytesChange
<1>11. QED BY <1>3, <1>4, <1>5, <1>6, <1>8, <1>9, <1>10

\* Whatever the board, the clocks and the calls, NorInv holds.
THEOREM NorInvariant == NorSpec => []NorInv
<1>1. NorInit => NorInv
  BY NorInvInit
<1>2. NorInv /\ [NorNext]_norVars => NorInv'
  <2> SUFFICES ASSUME NorInv, [NorNext]_norVars PROVE NorInv'
    OBVIOUS
  <2>1. CASE NorNext
    <3>1. NorTypeOK' /\ CallFits' /\ Selection' /\ Wire' /\ Heard' /\ Stream' /\ PollsLeft'
          /\ ReadsAreRecent' /\ OnlyWipedBytesChange'
      BY <2>1, TypesKept, CallKept, SelectionKept, WireKept, HeardKept, StreamKept, PollsKept,
         ReadsKept, WipedKept
    <3>2. BoardFits'
      BY BoardKept DEF NorInv
    <3>3. QED BY <3>1, <3>2 DEF NorInv
  <2>2. CASE UNCHANGED norVars
    BY <2>2, NorInvStutters
  <2>3. QED BY <2>1, <2>2
<1>3. QED BY <1>1, <1>2, PTL DEF NorSpec

\* Every variable keeps its type; the sequence of accesses stays inside the
\* driver, no more bytes are stored than the caller's buffer holds, and u32Timeout
\* of RAM_SpiFlash_WaitForWriteEnd never wraps below zero.
THEOREM NorTypeCorrect == NorSpec => []NorTypeOK
<1>1. NorInv => NorTypeOK
  BY DEF NorInv
<1>2. QED BY <1>1, NorInvariant, PTL

\* With pins that do as they are told, at most one chip listens, and none between
\* calls.
THEOREM ChipsTakeTurns == NorSpec => []OneChipAtATime
<1>1. NorInv => OneChipAtATime
  <2> SUFFICES ASSUME NorInv, pins = "follow"
               PROVE  Cardinality(Listening) <= 1 /\ (norPc = "idle" => Listening = {})
    BY DEF OneChipAtATime
  <2>1. Listening = low
    BY DEF Listening, ListeningTo
  <2>2. Cardinality(low) <= 1
    <3>1. low = {} \/ low = {Target}
      BY DEF NorInv, Selection
    <3>2. Cardinality({}) = 0 /\ Cardinality({Target}) = 1
      BY FS_EmptySet, FS_Singleton
    <3>3. QED BY <3>1, <3>2
  <2>3. norPc = "idle" => low = {}
    BY DEF NorInv, Selection, Selected, DataPcs, EnablePcs, StatusPcs
  <2>4. QED BY <2>1, <2>2, <2>3
<1>2. QED BY <1>1, NorInvariant, PTL

\* RAM_sFLASH_SendByte, which waits for nothing, always finds an idle unit.
THEOREM EveryByteGoesOut == NorSpec => []NoByteIsLost
<1>1. NorInv => NoByteIsLost
  BY DEF NorInv, NoByteIsLost, Wire, CallFits, WritePcs, EnablePcs, ByteZeroPcs
<1>2. QED BY <1>1, NorInvariant, PTL

\* What a read that lies on the chips stores is late by two bytes at most.
THEOREM ReadsLagByTwo == NorSpec => []ReadsAreRecent
<1>1. NorInv => ReadsAreRecent
  BY DEF NorInv
<1>2. QED BY <1>1, NorInvariant, PTL

\* A wipe programs nothing but the first byte of each sector of its window.
THEOREM WipesStayInWindow == NorSpec => []OnlyWipedBytesChange
<1>1. NorInv => OnlyWipedBytesChange
  BY DEF NorInv
<1>2. QED BY <1>1, NorInvariant, PTL

-----------------------------------------------------------------------------
(* Progress.                                                                *)

\* A sector is in its second write only while a wipe is at it.
SecondWrite == again => call.kind = "wipe" /\ call.address <= WipeLast

CountsFit == WritesLeft \in Nat /\ TurnsLeft \in Nat

LEMMA StagesAre ==
    /\ Stage["sector"] = 23 /\ Stage["enableSelect"] = 22 /\ Stage["enableOther"] = 21
    /\ Stage["enable"] = 20 /\ Stage["enableRelease"] = 19 /\ Stage["programSelect"] = 18
    /\ Stage["programOther"] = 17 /\ Stage["clear"] = 17 /\ Stage["await"] = 16
    /\ Stage["select"] = 15 /\ Stage["other"] = 14 /\ Stage["put"] = 13 /\ Stage["take"] = 13
    /\ Stage["settle"] = 12 /\ Stage["zero"] = 11 /\ Stage["zeroRelease"] = 10
    /\ Stage["clock"] = 9 /\ Stage["statusWait"] = 8 /\ Stage["statusSelect"] = 7
    /\ Stage["statusOther"] = 6 /\ Stage["statusPut"] = 5 /\ Stage["statusTake"] = 4
    /\ Stage["pollPut"] = 3 /\ Stage["pollTake"] = 3 /\ Stage["check"] = 3
    /\ Stage["drain"] = 2 /\ Stage["statusRelease"] = 1 /\ Stage["written"] = 0
    /\ Stage["deinit"] = 5 /\ Stage["pins"] = 4 /\ Stage["configRelease"] = 3
    /\ Stage["start"] = 2 /\ Stage["dataClear"] = 3 /\ Stage["dataPut"] = 3
    /\ Stage["dataStore"] = 3 /\ Stage["release"] = 2 /\ Stage["return"] = 1
    /\ Stage["idle"] = 0 /\ Stage["fault"] = 0
BY DEF Stage

\* Every access leads on, except within one of the three loops.
LEMMA StagesFall ==
    ASSUME norPc \in AccessPcs
    PROVE  \/ Stage[Following] < Stage[norPc]
           \/ norPc = "put" /\ Following = "take"
           \/ norPc = "take" /\ Following = "put"
           \/ norPc = "pollPut" /\ Following = "pollTake"
           \/ norPc = "pollTake" /\ Following = "check"
           \/ norPc = "dataClear" /\ Following = "dataPut"
           \/ norPc = "dataPut" /\ Following = "dataStore"
           \/ norPc = "dataStore" /\ Following = "dataClear"
<1>1. CASE norPc \in WritePcs \ {"check"}
  BY <1>1, FollowingIs, StagesAre DEF WritePcs, EnablePcs, ByteZeroPcs, StatusPcs
<1>2. CASE norPc \in HeaderPcs \union {"clear"}
  BY <1>2, FollowingIs, StagesAre DEF HeaderPcs, NextByte
<1>3. CASE norPc \in DataPcs \union ConfigPcs \union {"release"}
  BY <1>3, FollowingIs, StagesAre DEF DataPcs, ConfigPcs, NextByte
<1>4. QED BY <1>1, <1>2, <1>3 DEF AccessPcs

LEMMA SecondWriteInit == NorInit => SecondWrite
BY DEF NorInit, SecondWrite

LEMMA SecondWriteKept ==
    ASSUME NorInv, SecondWrite, [NorNext]_norVars
    PROVE  SecondWrite'
<1> USE DEF SecondWrite, counts
<1>1. CASE Accesses
  BY <1>1, AccessesLead
<1>2. CASE CheckStatus \/ WriteByteZero \/ SpiFinish \/ ChipFinish
  BY <1>2 DEF CheckStatus, WriteByteZero, SpiFinish, ChipFinish
<1>3. CASE ByteZeroWritten
  <2>1. call.kind = "wipe" /\ call.address <= WipeLast
    BY <1>3 DEF ByteZeroWritten, NorInv, CallFits
  <2>2. again' => call' = call
    BY <1>3 DEF ByteZeroWritten, NorInv, NorTypeOK
  <2>3. QED BY <2>1, <2>2
<1>4. CASE CsPinAssert \/ CallReturns
  <2>1. ~again
    <3>1. CASE CsPinAssert \/ norPc = "return"
      BY <1>4, <3>1 DEF CsPinAssert, NorInv, CallFits, ConfigPcs
    <3>2. CASE norPc = "sector" /\ call.address > WipeLast
      <4>1. call.address \in Nat
        BY DEF NorInv, NorTypeOK
      <4>2. QED BY <3>2, <4>1, NumbersFit
    <3>3. QED BY <1>4, <3>1, <3>2 DEF CallReturns
  <2>2. QED BY <1>4, <2>1 DEF CsPinAssert, CallReturns
<1>5. CASE WipeCall \/ ConfigCall \/ \E a \in ReadAddresses : ReadCall(a, SectorSize)
  <2>1. norPc = "idle" /\ again' = again
    BY <1>5 DEF WipeCall, ConfigCall, ReadCall, Begin
  <2>2. ~again
    BY <2>1 DEF NorInv, CallFits
  <2>3. QED BY <2>1, <2>2
<1>6. CASE UNCHANGED norVars
  BY <1>6 DEF norVars
<1>7. QED BY <1>1, <1>2, <1>3, <1>4, <1>5, <1>6, StepsAre

LEMMA WritesCount ==
    ASSUME NorInv, SecondWrite
    PROVE  /\ WritesLeft \in Nat
           /\ call.kind = "wipe" => call.address \in Nat /\ call.address <= WipeLast + 1
<1>1. CASE call.kind = "wipe"
  <2>1. call.address \in WipeFirst .. WipeLast + 1
    BY <1>1 DEF NorInv, CallFits
  <2>2. QED BY <1>1, <2>1, NumbersFit DEF WritesLeft, SecondWrite
<1>2. CASE call.kind # "wipe"
  BY <1>2 DEF WritesLeft
<1>3. QED BY <1>1, <1>2

\* No count goes below zero.
LEMMA CountsAreNatural == NorInv /\ SecondWrite => CountsFit
<1> SUFFICES ASSUME NorInv, SecondWrite PROVE TurnsLeft \in Nat
  BY WritesCount DEF CountsFit
<1>1. CASE norPc \in {"put", "take"}
  <2>1. sent \in Nat /\ sent <= AddressLength(Target) + 1 /\ AddressLength(Target) \in {3, 4}
    BY <1>1 DEF NorInv, Wire, NorTypeOK, AddressLength
  <2>2. QED BY <1>1, <2>1 DEF TurnsLeft
<1>2. CASE norPc \in {"pollPut", "pollTake", "check"}
  BY <1>2 DEF NorInv, NorTypeOK, TurnsLeft
<1>3. CASE norPc \in {"dataClear", "dataPut", "dataStore"}
  <2>1. stored < call.count /\ stored \in Nat /\ call.count \in Nat
    BY <1>3, NumbersFit DEF NorInv, Stream, DataPcs, NorTypeOK
  <2>2. QED BY <1>3, <2>1 DEF TurnsLeft
<1>4. QED BY <1>1, <1>2, <1>3 DEF TurnsLeft

\* An access of a loop is one less in its turn, or the last of it.
LEMMA LoopsAdvance ==
    ASSUME NorInv, Accesses, ~(Stage[norPc'] < Stage[norPc])
    PROVE  /\ StageLeft' = StageLeft
           /\ TurnsLeft' < TurnsLeft \/ (TurnsLeft' = TurnsLeft /\ AccessesLeft' < AccessesLeft)
<1>1. norPc' = Following /\ norPc \in AccessPcs /\ UNCHANGED <<size, fourByte, call, again>>
  BY AccessesLead
<1>2. \/ norPc = "put" /\ norPc' = "take"
      \/ norPc = "take" /\ norPc' = "put"
      \/ norPc = "pollPut" /\ norPc' = "pollTake"
      \/ norPc = "pollTake" /\ norPc' = "check"
      \/ norPc = "dataClear" /\ norPc' = "dataPut"
      \/ norPc = "dataPut" /\ norPc' = "dataStore"
      \/ norPc = "dataStore" /\ norPc' = "dataClear"
  BY <1>1, StagesFall
<1>3. StageLeft' = StageLeft
  BY <1>2, StagesAre DEF StageLeft
<1>4. AddressLength(Target)' = AddressLength(Target) /\ AddressLength(Target) \in {3, 4}
  BY <1>1, SameCall DEF AddressLength
<1>5. sent \in Nat /\ stored \in Nat /\ call.count \in Nat /\ polls \in Nat
  BY NumbersFit DEF NorInv, NorTypeOK
<1>6. CASE norPc = "put" /\ norPc' = "take"
  <2>1. sent' = sent + 1
    BY <1>6 DEF Accesses, Access, SpiWait, Select, DeselectOther, Release, Put, Send, Take, StoreByte,
         OverRunClear, GetClockFreq, DeInit, CsPinInit, SpiEnable
  <2>2. TurnsLeft' = TurnsLeft - 1 /\ TurnsLeft \in Int
    BY <1>4, <1>5, <1>6, <2>1 DEF TurnsLeft
  <2>3. QED BY <1>3, <2>2
<1>7. CASE norPc = "take" /\ norPc' = "put"
  <2>1. sent' = sent
    BY <1>7 DEF Accesses, Access, SpiWait, Select, DeselectOther, Release, Put, Send, Take, StoreByte,
         TakeByte, OverRunClear, GetClockFreq, DeInit, CsPinInit, SpiEnable
  <2>2. TurnsLeft' = TurnsLeft /\ AccessesLeft = 1 /\ AccessesLeft' = 0
    BY <1>4, <1>7, <2>1 DEF TurnsLeft, AccessesLeft
  <2>3. QED BY <1>3, <2>2
<1>8. CASE norPc \in {"pollPut", "pollTake"}
  <2>1. polls' = polls
    BY <1>8 DEF Accesses, Access, SpiWait, Select, DeselectOther, Release, Put, Send, Take, StoreByte,
         TakeByte, OverRunClear, GetClockFreq, DeInit, CsPinInit, SpiEnable, counts
  <2>2. TurnsLeft' = TurnsLeft
    BY <1>2, <1>8, <2>1 DEF TurnsLeft
  <2>3. AccessesLeft' < AccessesLeft
    BY <1>2, <1>8 DEF AccessesLeft
  <2>4. QED BY <1>3, <2>2, <2>3
<1>9. CASE norPc \in {"dataClear", "dataPut"}
  <2>1. stored' = stored
    BY <1>9 DEF Accesses, Access, SpiWait, Select, DeselectOther, Release, Put, Send, Take, StoreByte,
         TakeByte, OverRunClear, GetClockFreq, DeInit, CsPinInit, SpiEnable, counts
  <2>2. TurnsLeft' = TurnsLeft
    BY <1>1, <1>2, <1>9, <2>1 DEF TurnsLeft
  <2>3. AccessesLeft' < AccessesLeft
    BY <1>2, <1>9 DEF AccessesLeft
  <2>4. QED BY <1>3, <2>2, <2>3
<1>10. CASE norPc = "dataStore" /\ norPc' = "dataClear"
  <2>1. stored' = stored + 1
    BY <1>10 DEF Accesses, Access, SpiWait, Select, DeselectOther, Release, Put, Send, Take, StoreByte,
         OverRunClear, GetClockFreq, DeInit, CsPinInit, SpiEnable
  <2>2. TurnsLeft' = TurnsLeft - 1 /\ TurnsLeft \in Int
    BY <1>1, <1>5, <1>10, <2>1 DEF TurnsLeft
  <2>3. QED BY <1>3, <2>2
<1>11. QED BY <1>2, <1>6, <1>7, <1>8, <1>9, <1>10

LEMMA DriverAdvances ==
    ASSUME NorInv, SecondWrite, CountsFit', NorDriver
    PROVE  NorCloser
<1> SUFFICES \/ WritesLeft' < WritesLeft
             \/ /\ WritesLeft' = WritesLeft
                /\ \/ StageLeft' < StageLeft
                   \/ /\ StageLeft' = StageLeft
                      /\ \/ TurnsLeft' < TurnsLeft
                         \/ TurnsLeft' = TurnsLeft /\ AccessesLeft' < AccessesLeft
  BY DEF NorCloser, CountsFit
<1>1. CASE Accesses
  <2>1. WritesLeft' = WritesLeft
    BY <1>1, AccessesLead DEF WritesLeft
  <2>2. CASE Stage[norPc'] < Stage[norPc]
    BY <2>1, <2>2 DEF StageLeft
  <2>3. QED BY <1>1, <2>1, <2>2, LoopsAdvance
<1>2. CASE CheckStatus
  <2>1. /\ norPc = "check" /\ norPc' \in {"pollPut", "drain"} /\ polls' = polls - 1 /\ polls \in Nat
        /\ UNCHANGED <<call, again>>
    BY <1>2 DEF CheckStatus, AfterPolls, NorInv, NorTypeOK
  <2>2. WritesLeft' = WritesLeft
    BY <2>1 DEF WritesLeft
  <2>3. CASE norPc' = "drain"
    BY <2>1, <2>2, <2>3, StagesAre DEF StageLeft
  <2>4. CASE norPc' = "pollPut"
    <3>1. StageLeft' = StageLeft
      BY <2>1, <2>4, StagesAre DEF StageLeft
    <3>2. TurnsLeft' < TurnsLeft
      BY <2>1, <2>4 DEF TurnsLeft
    <3>3. QED BY <2>2, <3>1, <3>2
  <2>5. QED BY <2>1, <2>3, <2>4
<1>3. CASE WriteByteZero
  <2>1. norPc = "sector" /\ norPc' \in {"written", "enableSelect"} /\ UNCHANGED <<call, again>>
    BY <1>3 DEF WriteByteZero, counts
  <2>2. QED BY <2>1, StagesAre DEF WritesLeft, StageLeft
<1>4. CASE ByteZeroWritten
  <2>1. /\ call.kind = "wipe" /\ call.address \in Nat /\ again \in BOOLEAN /\ again' = ~again
        /\ call' = IF again THEN [call EXCEPT !.address = @ + 1] ELSE call
    BY <1>4, WritesCount DEF ByteZeroWritten, NorInv, CallFits, NorTypeOK
  <2>2. /\ call'.kind = "wipe"
        /\ call'.address = IF again THEN call.address + 1 ELSE call.address
    BY <2>1 DEF NorInv, NorTypeOK
  <2>3. CASE again
    <3>1. WritesLeft = 2 * (WipeLast + 1 - call.address) - 1
      BY <2>1, <2>3 DEF WritesLeft
    <3>2. call'.address = call.address + 1
      BY <2>2, <2>3, Zenon
    <3>3. ~again'
      BY <2>1, <2>3, Zenon
    <3>4. WritesLeft' = 2 * (WipeLast + 1 - (call.address + 1)) - 0
      BY <2>2, <3>2, <3>3, Zenon DEF WritesLeft
    <3>5. QED BY <2>1, <3>1, <3>4, NumbersFit
  <2>4. CASE ~again
    <3>1. WritesLeft = 2 * (WipeLast + 1 - call.address)
      BY <2>1, <2>4, NumbersFit DEF WritesLeft
    <3>2. WritesLeft' = 2 * (WipeLast + 1 - call.address) - 1
      BY <2>1, <2>2, <2>4 DEF WritesLeft
    <3>3. QED BY <2>1, <3>1, <3>2, NumbersFit
  <2>5. QED BY <2>3, <2>4
<1>5. CASE CsPinAssert
  <2>1. call.kind = "config" /\ call'.kind = "fault" /\ norPc = "pins" /\ norPc' = "fault"
    BY <1>5 DEF CsPinAssert, NorInv, CallFits, ConfigPcs, NorTypeOK
  <2>2. QED BY <2>1, StagesAre DEF WritesLeft, StageLeft
<1>6. CASE CallReturns
  <2>1. WritesLeft' = 0 /\ norPc' = "idle" /\ norPc \in {"return", "sector"}
    BY <1>6 DEF CallReturns, WritesLeft, NoCall
  <2>2. WritesLeft \in Nat
    BY WritesCount
  <2>3. StageLeft' < StageLeft
    BY <2>1, StagesAre DEF StageLeft
  <2>4. QED BY <2>1, <2>2, <2>3
<1>7. QED BY <1>1, <1>2, <1>3, <1>4, <1>5, <1>6 DEF NorDriver, Accesses

\* Each access of the driver lowers a measure that neither the SPI unit nor a chip
\* touches: whatever a chip answers, and if it stays busy for ever, no call goes
\* round without end.
THEOREM NorCallsAdvance == NorSpec => NorProgress
<1> DEFINE Step == norPc # "idle" =>
              IF NorDriver THEN NorCloser
              ELSE UNCHANGED <<WritesLeft, StageLeft, TurnsLeft, AccessesLeft>>
<1>1. NorSpec => []SecondWrite
  <2>1. NorInv /\ SecondWrite /\ [NorNext]_norVars => SecondWrite'
    BY SecondWriteKept
  <2>2. QED BY <2>1, SecondWriteInit, NorInvariant, PTL DEF NorSpec
<1>2. NorInv /\ SecondWrite /\ CountsFit' /\ [NorNext]_norVars => [Step]_norVars
  <2> SUFFICES ASSUME NorInv, NorNext, norPc # "idle", ~NorDriver
               PROVE  UNCHANGED <<WritesLeft, StageLeft, TurnsLeft, AccessesLeft>>
    BY DriverAdvances
  <2>1. SpiFinish \/ ChipFinish
    BY DEF NorNext, WipeCall, ConfigCall, ReadCall, Begin
  <2>2. UNCHANGED <<size, fourByte, call, norPc, sent, again, stored, polls>>
    BY <2>1 DEF SpiFinish, ChipFinish, board, counts
  <2>3. AddressLength(Target)' = AddressLength(Target)
    BY <2>2, SameCall DEF AddressLength
  <2>4. QED BY <2>2, <2>3 DEF WritesLeft, StageLeft, TurnsLeft, AccessesLeft
<1>3. QED BY <1>1, <1>2, CountsAreNatural, NorInvariant, PTL DEF NorSpec, NorProgress
=============================================================================
