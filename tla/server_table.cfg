SPECIFICATION FullPoolSpec
CONSTANTS
    a = a
    b = b
    Mac = {a, b}
    Nobody = Nobody
    StartIp = 1
    LastIp = 5
    MaxIps = 3
    LeaseTime = 0
    QueueCap = 1
    b1 = b1
    b2 = b2
    Block = {b1, b2}
    Kinds = {"DISCOVER", "REQUEST", "RELEASE", "OTHER"}
    MaxClients = 2
    MaxTime = 1
SYMMETRY BlockSymmetry
INVARIANTS
    TypeOK
    AckAtMostOnce
    PromiseKept
    HeldInPool
    SearchDecides
    RootIsHeld
PROPERTY ImplementsTable
CHECK_DEADLOCK FALSE
