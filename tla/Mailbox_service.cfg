CONSTANTS
    h1 = h1
    h2 = h2
    Hosts <- MCHosts
    Free = Free
    Commands <- MixedCommands
    Datas <- OneData
    U32 = 4
SPECIFICATION FairSpec
PROPERTIES
    ServiceSpec
    CallReturns
    AcceptedIsExecuted
    MailboxRecovers
