CONSTANTS
    i1 = i1  i2 = i2  t1 = t1  t2 = t2  t3 = t3
    a = a  b = b  k1 = k1
    Instance = {i1, i2}
    Task = {t1, t2}
    InstanceOf <- TwoWorkers
    StoreTask = {t1, t2}
    RetrieveTask = {t1, t2}
    Key = {k1}
    ObjectKey = {a, b}
    NumGroups = 2
    ObjKeys <- OnePair
    NoTensor = {b}
    MaxReaders = 2
SPECIFICATION Spec
INVARIANTS
    TypeOK
    ReservationsExclusive
    WriteLocksHaveOwner
    UnwrittenIsLeftover
    LookupHolds
