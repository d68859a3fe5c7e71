SPECIFICATION FairSpec
CONSTANTS
    a = a
    b = b
    Mac = {a, b}
    Nobody = Nobody
    StartIp = 1
    LastIp = 2
    MaxIps = 3
    LeaseTime = 0
    QueueCap = 1
    b1 = b1
    b2 = b2
    Block = {b1, b2}
    Kinds = {"DISCOVER", "REQUEST", "DECLINE", "RELEASE"}
    MaxClients = 2
    MaxTime = 0
INVARIANTS
    RoutedHome
    StrayedByReuse
PROPERTIES
    MainResumes
    FirstAnswered
CHECK_DEADLOCK FALSE
