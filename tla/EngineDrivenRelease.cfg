CONSTANTS
    i1 = i1  i2 = i2  s1 = s1  s2 = s2  r1 = r1
    a = a  b = b  c = c  k1 = k1  k2 = k2
    Instance = {i1}
    Task = {s1, s2, r1}
    InstanceOf <- BusyWorker
    RetrieveTask = {r1}
    Key = {k1}
    ObjectKey = {a}
    NumGroups = 1
    ObjKeys <- OneObject
    NoTensor = {}
    NoTask = NoTask
    MaxReaders = 2
    MaxReleases = 1
SPECIFICATION FairSpec
INVARIANTS
    ReservationsExclusive
    ReadLocksAccounted
PROPERTIES
    CommitPublishesOwnCopies
    OperationsEnd
