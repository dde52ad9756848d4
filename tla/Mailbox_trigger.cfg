CONSTANTS
    h1 = h1
    h2 = h2
    Hosts <- OneHost
    Free = Free
    Commands <- MixedCommands
    Datas <- OneData
    U32 = 4
SPECIFICATION Spec
INVARIANT
    OneExecutionPerTrigger
