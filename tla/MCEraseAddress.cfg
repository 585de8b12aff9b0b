SPECIFICATION Spec
CONSTANTS
    PageSize = 8
    FlashSize = 64
    AddressSpace = 1024
    MetaAddress = 8
    AppStart = 16
    AppEnd = 48
CHECK_DEADLOCK FALSE
PROPERTIES
    EraseLeavesBlank
