SPECIFICATION Spec
CONSTANTS
    p1 = p1
    p2 = p2
    a1 = a1
    a2 = a2
    Clients = {p1, p2}
    m1 = m1
    m2 = m2
    Agvs = {a1, a2}
    Models = {m1, m2}
    NoModel = NoModel
    MaxRows = 5
    MaxClicks = 5
INVARIANTS
    TypeOK
    OneCopyEach
    
    OneTemplate
SYMMETRY Interchangeable
CHECK_DEADLOCK FALSE
