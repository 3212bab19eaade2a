CONSTANTS
    i1 = i1
    i2 = i2
    store = store
    retrieve = retrieve
    k1 = k1
    a = a
    b = b
    Instance = {i1, i2}
    Task = {store, retrieve}
    RetrieveTask = {retrieve}
    InstanceOf <- TwoTasks
    Key = {k1}
    ObjectKey = {a, b}
    NoTensor = {}
    NumGroups = 2
    ObjKeys <- OneKey
    MaxReaders = 2
    MaxRegistrations = 2
    MaxOperations = 3
SPECIFICATION Spec
CHECK_DEADLOCK FALSE
INVARIANTS
    TypeOK
    PublishedIsCopied
    LoadsHoldLocks
    ReadLocksAccounted
    WriteLocksOwned
    EventCoversCopies
    LayoutsAccounted
PROPERTIES
    CacheSpec
    OperationsEnd
