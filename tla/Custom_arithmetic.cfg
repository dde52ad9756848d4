CONSTANTS
    Cols = {1}
    ActRows <- MCActRows
    WgtCols <- MCWgtCols
    ScaleActs = {125}
    ScaleWgts = {3, 9}
    ScaleTensors <- MCScaleTensors
    ShiftOutcomes <- MCShiftOutcomes
    Base = 128
    Growth = 2
    MaxCalls = 3
    HeavyCalls = 6
    SweepChunk = 256
    Anchors = {17408, 15000}
    Partners = {16256, 49090}
    Benches = {"sweep", "mixed", "heavy", "vector"}
    NVPR = 4
    VLENB = 4
    ELEN = 32
    VstartAlu = FALSE
    Outside = {0, 255}
    Sews = {8, 16, 32}
    Lmuls = {4, 8, 16}
    Avls = {1, 3, 8}
    Files <- MCFiles
    MaxInsns = 1
SPECIFICATION MCSpec
CHECK_DEADLOCK FALSE
INVARIANTS
    ExpMonotone
    ReciprocalAccurate
    AddTruncates
    QuantNoWorse
    PsumTracksDotProduct
    OutputRoundsDotProduct
PROPERTIES
    VvFromOldValues
    AlignedExpFromOldValues
    SoftmaxKeepsOrder
