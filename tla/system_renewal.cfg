SPECIFICATION FitSpec
CONSTANTS
    c1 = c1
    c2 = c2
    i1 = i1
    i2 = i2
    given = given
    unread = unread
    Client = {c1, c2}
    Nobody = Nobody
    Ip = {i1, i2}
    NoIp = NoIp
    Info = {given}
    Unread = unread
    Missing = Missing
    Lease = {13}
    LeaseTime = 13
    Garbage <- Zeroes
    Stray = {"lost"}
    UINT32 = 256
    Sleep = 3
    MaxLate = 0
    Patience = 11
    Delay = 1
    MaxTime = 15
SYMMETRY Symmetry
PROPERTY RenewalKeepsAddress
CHECK_DEADLOCK FALSE
