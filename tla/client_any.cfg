SPECIFICATION AnySpec
CONSTANTS
    c1 = c1
    near = near
    far = far
    unread = unread
    Client = {c1}
    Ip = {near, far}
    NoIp = 0
    Unread = unread
    Missing <- Null
    Info <- Infos
    Lease <- Leases
    Garbage <- Garbages
    Stray = {"lost", "relay"}
    UINT32 = 256
    Sleep = 3
    MaxLate = 1
    subnet_mask <- Mask
    gateway_ip <- Gateway
    dns_server_ip <- Dns
    server_ip <- Server
    default_lease_time = 30
    Buffer <- Buffers
    wire <- Bytes
    Identifier <- Identifiers
INVARIANTS
    ClientTypeOK
    LeavesForCause
    ReleaseLast
    AskedTwice
    PacketsReadBack
PROPERTY BoundEnds
CHECK_DEADLOCK FALSE
