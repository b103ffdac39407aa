SPECIFICATION FairSpec
CONSTANTS
    Users = {ann, bob, eve}
    Clients = {ann, bob}
    Nobody = nobody
    PageSize = 1
    MaxThreads = 2
    MaxMessages = 3
    MaxClicks = 4
INVARIANTS
    TypeOK
    Private
    
    OneThreadPerCreator

    
CHECK_DEADLOCK FALSE
