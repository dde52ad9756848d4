CONSTANTS
    PageSize = 4
    PageCount = 4
    Elf <- MCElf
    Elfs <- MCElfs
    NoElf <- MCNoElf
    START_PC = 12
    RomBase = 4
    RomVector <- MCRomVector
    PGSIZE = 2
    ScrBase = 8
    ScrSize = 2
    StatusOffset = 1
    Loads <- MCLoads
    Stores <- MCStores
    ClockPeriod = 2
    StartTime = 2
    Delay <- MCDelay
    RingSize = 4
    MaxAccesses = 3
CHECK_DEADLOCK FALSE
SPECIFICATION MCSpec
PROPERTY
    DeviceAccessReturns
