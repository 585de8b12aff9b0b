SPECIFICATION PortsSpec
CONSTANTS
    PageSize = 8
    FlashSize = 64
    AddressSpace = 1024
    MetaAddress = 8
    AppStart = 16
    AppEnd = 48
    SectorSize = 4
    FirstChipSize = 8
    SecondChipSizes = {0, 4, 8}
    ShortSpan = 4
    WipeFirst = 1
    WipeLast = 2
    Oscillator <- MCOscillator
    Clocks <- MCClocks
    Unit = 2
    LastSector = 5
    TableLast = 7
    Stm32Start = 2
    Stm32End = 16
    DeviceEnd = 32
    Transfer = 2
    MetaBegin = 1
    MetaEnd = 2
    ImageSizes = {1, 13, 16}
    MaxFaults = 2
    WordValues <- MCWordValues
    MaxWords = 3
CHECK_DEADLOCK FALSE
INVARIANTS
    TypeOK
    StoresAreInOrder
    ProtectedAtRest
    NorTypeOK
    PortTypeOK
    OneChipAtATime
    NoByteIsLost
    ReadsAreRecent
    OnlyWipedBytesChange
    LockedAtRest
    SuccessMeansImage
    PortsAgree
    CrcIsReference
    MetaCrcCoversRecord
PROPERTIES
    OnlyRequestedPages
    OnlyAppAreaChanges
    CallsEnd
    CallsDeliver
    NorCallsEnd
    Progress
    NorProgress
    UpdateAdvances
