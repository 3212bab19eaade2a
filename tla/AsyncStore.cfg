CONSTANTS
    a = a  b = b
    Store = {a, b}
    CommitWorkers = 2
    NoStore = NoStore
SPECIFICATION FairSpec
INVARIANTS
    GatherBeforeOverwrite
    CloseDrains
PROPERTIES
    ContractSpec
    StoresResolve
    FlushAndCloseReturn
CHECK_DEADLOCK FALSE
