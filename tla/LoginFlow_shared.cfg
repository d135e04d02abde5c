CONSTANTS
    f1 = f1
    f2 = f2
    b1 = b1
    b2 = b2
    s1 = s1
    s2 = s2
    t1 = t1
    t2 = t2
    u1 = u1
    u2 = u2
    Flows = {f1, f2}
    Browsers = {b1, b2}
    Users = {u1, u2}
    Warned = {u2}
    Services = {s1, s2}
    NoService = NoService
    TGTs = {t1, t2}
    NoTGT = NoTGT
SPECIFICATION Spec
SYMMETRY Symmetry
VIEW Seen
INVARIANTS
    TypeOK
    GrantsOnOwnLogin
    NoTGTLeftBehind
PROPERTIES
    WarnedUserSeesMessages
    ReturnsToItsService
