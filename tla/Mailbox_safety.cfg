CONSTANTS
    h1 = h1
    h2 = h2
    Hosts <- MCHosts
    Free = Free
    Commands <- KnownCommands
    Datas <- TwoDatas
    U32 = 4
SPECIFICATION Spec
SYMMETRY Symmetry
INVARIANTS
    TypeOK
    ResponseMatchesCommand
    RegisterExclusion
    NoTornCommand
    AtMostFourExecutions
