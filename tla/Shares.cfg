SPECIFICATION RequestSpec
CONSTANTS
    s1 = s1
    s2 = s2
    g1 = g1
    g2 = g2
    p1 = p1
    c1 = c1
    Shares <- TwoShares
    Downloads <- TwoDownloads
    Passwords <- OnePassword
    Creates <- OneCreate
    NoPassword = NoPassword
    Never = Never
    Unlimited = Unlimited
    Keep = Keep
    NoShare = NoShare
    MaxLimit = 2
    MaxCount = 3
    MaxTime = 2
SYMMETRY Symmetry
INVARIANTS
    SharesInv
    OneLinkPerRequest
PROPERTIES
    HandedOutWhileShared
    GrantsInOneStep
CHECK_DEADLOCK FALSE
