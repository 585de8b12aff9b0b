SPECIFICATION PortSpec
CONSTANTS
    Unit = 2
    LastSector = 5
    TableLast = 7
    Stm32Start = 0
    Stm32End = 32
    DeviceEnd = 32
    Transfer = 2
    MetaBegin = 1
    MetaEnd = 2
    ImageSizes = {1}
    MaxFaults = 0
CHECK_DEADLOCK FALSE
PROPERTIES
    MetaSurvivesErase
