SPECIFICATION FairSpec
CONSTANTS
    a = a
    b = b
    p1 = p1
    broadcast = broadcast
    mine = mine
    earlier = earlier
    answer = answer
    Web = Web
    NoMessage = NoMessage
    Posted = {answer}
    Devices = {a, b}
    NoDevice = NoDevice
    AllDevices = AllDevices
    Peers = {p1}
    Me = Me
    Everyone = Everyone
    Channels = {0}
    Primary = 0
    Heard = {broadcast}
    Packet <- Packets
    Hears <- InReach
    Linked = {b}
    Typed = {mine}
    Old = {earlier}
    OldRows <- OldChannelRow
    Ack = Ack
    MaxEvents = 2
    MaxKeys = 2
INVARIANTS WindowsAndKeysMatch WindowShowsItsTalk UnreadIsMarked
PROPERTIES EventsHandled
CHECK_DEADLOCK FALSE
