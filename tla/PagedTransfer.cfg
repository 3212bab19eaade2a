CONSTANTS
    Layouts <- SmallLayouts
    ChunkTokens = 4
    MaxChunks = 4
    MaxObjects = 2
SPECIFICATION Spec
CHECK_DEADLOCK FALSE
INVARIANTS
    TypeOK
    ReservedAreGathered
    SharedBlocksUntouched
    RetrieveRestores
