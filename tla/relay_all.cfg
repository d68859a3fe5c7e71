SPECIFICATION Spec
CONSTANTS
    c1 = c1
    c2 = c2
    Client = {c1, c2}
    Server = Server
    Xid = {0, 1, 2}
    TableSize = 2
    MaxSends = 2
SYMMETRY Symmetry
INVARIANTS
    TypeOK
    ChainsSound
    OnlyAskerHears
    SortedUnlessRepeated
PROPERTY
    ImplementsExchange
CHECK_DEADLOCK FALSE
