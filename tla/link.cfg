SPECIFICATION FairSpec
CONSTANTS
    u = u
    Writer = {u}
    Script <- MixedFrames
    Noise <- LogNoise
    Capacity = 6
    ReadMax = 5
    MaxRetries = 2
    MaxPayload = 6
    Sessions <- PlainOrTls
INVARIANTS ChunkingIsInvisible SentInOrder NothingLostAtClose
PROPERTY HeldBackAtMost
CHECK_DEADLOCK FALSE
