SPECIFICATION Spec
CONSTANTS
    ff = ff
    Filler = ff
    SectorSize = 4
    HeaderSize = 1
    TransferSize = 8
    BufferSize = 13
    PageSize = 8
    WordSize = 2
    AppSize = 24
    First = 2
    Last = 7
    Links <- MCLinks
CHECK_DEADLOCK FALSE
INVARIANTS
    TypeOK
    BufferFits
    ProgramsInsideApp
    CrcCoversFlash
    FixedStreamIsFile
PROPERTIES
    PassAdvances
