SPECIFICATION Spec
CONSTANTS
    a = a
    b = b
    c = c
    m1 = m1
    m2 = m2
    m3 = m3
    m4 = m4
    m5 = m5
    p1 = p1
    t1 = t1
    None = None
    Peer = {a, b, c}
    Row = {m1, m3, p1}
    Link <- ChainLink
    Dialled <- ChainDialled
    Toward <- ChainToward
    Home <- RowHome
    TableOf <- RowTable
    PacketId <- RowPacketId
    Sender <- RowSender
    Ts <- RowTs
    PageSize = 1
    MaxCopies = 2
    MaxRows = 2
    MaxHears = 1
    MaxSyncs = 1
    MaxFaults = 1
INVARIANTS NoDuplicateCopies NearestFirst
PROPERTY ImplementsGossip
CHECK_DEADLOCK FALSE
