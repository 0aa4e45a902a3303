SPECIFICATION FairSpec
CONSTANTS
    Setups <- EverySetup
    LossEvents <- OnlyCloses
    Main = Main
    Web = Web
    MaxAttempts = 2
    MaxFaults = 5
INVARIANTS RepairsOnlyTheBroken DisconnectedStays
PROPERTIES HeadlessHeals OnlyLateOutlives QuitEnds
CHECK_DEADLOCK FALSE
