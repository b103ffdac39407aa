SPECIFICATION Spec
CONSTANTS
    c1 = c1
    c2 = c2
    admin = admin
    tech = tech
    viewer = viewer
    None = None
    a1 = a1
    a2 = a2
    Clients = {c1, c2}
    UserOf <- TwoStaff
    Staff = {admin, tech}
    Viewers = {viewer}
    AgvIds = {a1}
    FirstAgv = a1
    Intervals = {1}
    MaxTasks = 1
    MaxDay = 0
    MaxChanges = 2
PROPERTY
    AssigneeCompletes
