CONSTANTS
    h1 = h1
    Hosts <- MCHosts
    Main = h1
    Free = Free
    Commands <- MCCommands
    Datas <- MCDatas
    U32 = 65536
    PerfIterations = 2
SPECIFICATION TestSpec
INVARIANT FailureNeedsTimeout
PROPERTIES PassNeedsExecution ProgramEnds
CHECK_DEADLOCK FALSE
