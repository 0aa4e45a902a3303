SPECIFICATION FairSpec
CONSTANTS
    InitThread = InitThread
    LoopThread = LoopThread
    DrainThread = DrainThread
    Stopper = Stopper
    NoOne = NoOne
    s1 = s1
    Sender = {s1}
    MaxErrors = 1
    MaxAttempts = 2
    MaxResidual = 1
    MaxPolls = 1
    MaxPackets = 2
    MaxFaults = 1
INVARIANTS NothingLost ObjectsOutliveCalls
PROPERTIES WaitingIsRead StopAndSendReturn
CHECK_DEADLOCK FALSE
