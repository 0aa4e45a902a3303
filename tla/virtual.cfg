SPECIFICATION FairSpec
CONSTANTS
    na = na
    nb = nb
    nc = nc
    r1 = r1
    home = home
    away = away
    Nothing = Nothing
    Peer = {na, nb, nc}
    Session <- Chain
    Address <- Addresses
    Radio = {r1}
    Owns <- Ends
    Number <- NodeNumbers
    Msg = {m1}
    Syncer = {s1, s2}
    MaxSyncs = 2
    MaxChanges = 1
INVARIANTS AirsWhereAddressed
PROPERTIES OffersFollow SentIsAired
CHECK_DEADLOCK FALSE
