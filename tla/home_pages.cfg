SPECIFICATION FairSpec
CONSTANTS
    Agvs = {a1, a2}
    MaxMonth = 2
    Near = 1
    MaxChanges = 4
INVARIANTS
    TypeOK
    
    ListInStep
    PanelInStep
    HighlightEnds

    
CHECK_DEADLOCK FALSE
