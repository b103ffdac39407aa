SPECIFICATION Spec
CONSTANTS
    k1 = k1
    k2 = k2
    k3 = k3
    d1 = d1
    d2 = d2
    u1 = u1
    u2 = u2
    Copies = {k1, k3}
    Dirs = {d1, d2}
    DirOf <- TwoInstallations
    Users = {u1}
    NoUser = NoUser
    NoCopy = NoCopy
    MaxTokens = 2
PROPERTY LostOnlyToAnother
