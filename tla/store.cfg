SPECIFICATION Spec
CONSTANTS
    n1 = n1
    n2 = n2
    path = path
    short = short
    mac = mac
    Node = {n1, n2}
    Reader = {r1}
    Path = path
    Short = short
    Mac = mac
    None = None
    Old <- OldFiles
    MaxHeard = 2
    MaxFaults = 1
INVARIANTS OpenCompletes ShowsNewestName
PROPERTIES LossOnlyAfterRefusal NothingForgotten
CHECK_DEADLOCK FALSE
