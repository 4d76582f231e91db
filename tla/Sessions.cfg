SPECIFICATION Spec
CONSTANTS
    l1 = l1
    l2 = l2
    i1 = i1
    i2 = i2
    c1 = c1
    c2 = c2
    r1 = r1
    r2 = r2
    Logins <- TwoLogins
    Ids <- TwoIds
    Callbacks <- TwoCallbacks
    Requests <- TwoRequests
    LoginLife = 1
    SessionLife = 1
    MaxTime = 3
    None = None
SYMMETRY Symmetry
INVARIANTS
    SessionsInv
    OneSessionPerLogin
PROPERTIES
    ServedSignedIn
    GoneForGood
