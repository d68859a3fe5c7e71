SPECIFICATION AnySpec
CONSTANTS
    c1 = c1
    c2 = c2
    n1 = n1
    n2 = n2
    n3 = n3
    n4 = n4
    Client = {c1, c2}
    Main = Main
    Nobody = Nobody
    Addr = {n1, n2, n3, n4}
    Null = Null
    StartIp = 1
    EndIp = 4
    LeaseTime = 0
    Calls = {"assign", "request", "renew", "giveback"}
    MaxCalls = 2
    MaxDepth = 4
    MaxTime = 1
SYMMETRY Symmetry
INVARIANTS
    TypeOK
    LockNeverOrphaned
    SearchOrder
    CursorHome
    LeasesFound
    SafeInTurn
PROPERTY KeepsPromise
CHECK_DEADLOCK FALSE
