SPECIFICATION FairSpec
CONSTANTS
    c1 = c1
    c2 = c2
    r1 = r1
    Worker = Worker
    NoOne = NoOne
    Client = {c1, c2}
    Requests <- SomeRequests
    Caster = {r1}
    Events = {"neighbours"}
    OutLimit = 4
    HeadLimit = 1
    KeepRecent = 1
    MaxEvents = 1
    MaxTurns = 1
INVARIANTS StreamIntact RecordedBeforeShown StopCloses
PROPERTIES FramesAndAnswersArrive
CHECK_DEADLOCK FALSE
