SPECIFICATION Spec
CONSTANTS
    c1 = c1
    c2 = c2
    admin = admin
    tech = tech
    viewer = viewer
    None = None
    a1 = a1
    a2 = a2
    Clients = {c1, c2}
    UserOf <- StaffAndViewer
    Staff = {admin}
    Viewers = {viewer}
    AgvIds = {a1, a2}
    FirstAgv = a1
    Intervals = {1}
    MaxTasks = 2
    MaxDay = 1
    MaxChanges = 3
INVARIANTS
    TypeOK
    OnlyFallbackSkipsHistory
    UndoArmed

    
