CONSTANTS
    NVPR = 32
    VLENB = 64
    ELEN = 64
    VstartAlu = FALSE
    Outside = {0}
    ShiftOutcomes <- MCShiftOutcomes
    LeftoverAvls = {0, 20, 300}
    Space = 24
    PGSIZE = 4
    DRAM_BASE = 8
    MiB = 4
    KernelOffset = 4
    InitrdGap = 4
    MinBlocksz = 2
    DefaultLayout <- MCDefaultLayout
    CommandLines <- MCCommandLines
    Bases = {0, 3, 4, 8, 10, 12, 20, 23}
    Sizes = {1, 4, 5, 8, 12, 16, 20, 22, 23}
    FileSizes <- MCFileSizes
SPECIFICATION MCSpec
INVARIANTS FailureNeedsShortVl LayoutCovers LaunchedAsAsked
CHECK_DEADLOCK FALSE
