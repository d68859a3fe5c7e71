SPECIFICATION TurnSpec
CONSTANTS
    c1 = c1
    c2 = c2
    n1 = n1
    n2 = n2
    n3 = n3
    n4 = n4
    Client = {c1, c2}
    Main = Main
    Nobody = Nobody
    Addr = {n1, n2, n3}
    Null = Null
    StartIp = 1
    EndIp = 2
    LeaseTime = 1
    Calls = {"assign"}
    MaxCalls = 2
    MaxDepth = 3
    MaxTime = 0
SYMMETRY Symmetry
INVARIANT NoSharedAddress
CHECK_DEADLOCK FALSE
