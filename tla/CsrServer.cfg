CONSTANTS
    c1 = c1
    c2 = c2
    Clients <- MCClients
    Nobody = Nobody
    Requests <- AllRequests
CHECK_DEADLOCK FALSE
SPECIFICATION MCSpec
PROPERTIES
    CleanMailIsRead
    ValidIsCleared
    RequestAnswered
