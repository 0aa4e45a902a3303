SPECIFICATION FairSpec
CONSTANTS
    m1 = m1
    m2 = m2
    Texts = {m1, m2}
    Kinds = {"stream", "bluetooth"}
    Reader = Reader
    User = User
    None = None
    MaxConfigs = 1
    MaxFaults = 1
INVARIANTS AckIsHonest
PROPERTIES AnswerIsFinal CallsReturnUnlessLockedTwice
CHECK_DEADLOCK FALSE
