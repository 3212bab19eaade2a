CONSTANTS
    q1 = q1  full = full  sliding = sliding
    Request = {q1}
    Group = {full}
    TokensPerBlock <- Uniform
    Chunk = 2
    MaxTokens = 6
    MaxFailures = 1
    MaxPreemptions = 0
SPECIFICATION Spec
INVARIANT
    NoStoreGap
CHECK_DEADLOCK FALSE
