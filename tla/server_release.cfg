SPECIFICATION ClientSpec
CONSTANTS
    a = a
    b = b
    Mac = {a, b}
    Nobody = Nobody
    StartIp = 1
    LastIp = 2
    MaxIps = 3
    LeaseTime = 0
    QueueCap = 1
    b1 = b1
    b2 = b2
    Block = {b1, b2}
    Kinds = {"DISCOVER", "REQUEST", "RELEASE"}
    MaxClients = 2
    MaxTime = 1
PROPERTY ReleasedByHolder
CHECK_DEADLOCK FALSE
