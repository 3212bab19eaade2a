CONSTANTS
    i1 = i1  i2 = i2  s1 = s1  s2 = s2  r1 = r1
    a = a  b = b  c = c  k1 = k1  k2 = k2
    Instance = {i1, i2}
    Task = {s1, s2, r1}
    InstanceOf <- TwoWorkers
    RetrieveTask = {r1}
    Key = {k1, k2}
    ObjectKey = {a, b, c}
    NumGroups = 2
    ObjKeys <- SharedLast
    NoTensor = {c}
    NoTask = NoTask
    MaxReaders = 1
    MaxReleases = 0
SPECIFICATION Spec
INVARIANTS
    TypeOK
    SlotsReadableAreWritten
    GatherHoldsSlots
    ScatterHoldsSlots
    ReadLocksAccounted
PROPERTIES
    CacheSpec
