CONSTANTS
    q1 = q1  full = full  sliding = sliding
    Request = {q1}
    Group = {full, sliding}
    TokensPerBlock <- Hybrid
    Chunk = 8
    MaxTokens = 16
    MaxFailures = 1
    MaxPreemptions = 1
SPECIFICATION Spec
INVARIANTS
    TypeOK
    StoresOnlyComputed
    ChunkAligned
    BlocksTracked
    LocksGivenBackOnce
    LoadsAreSent
CHECK_DEADLOCK FALSE
