SPECIFICATION FairSpec
CONSTANTS
    kPeriodic = 3
    kSnooze = 2
    SameSize = {}
    MaxBuild = 2
    MaxDepth = 2
INVARIANTS
    TypeOK
    
PROPERTIES
    SnoozeKept
    OfferedAgain
