CONSTANTS
    i1 = i1  i2 = i2  t1 = t1  t2 = t2  t3 = t3
    a = a  b = b  k1 = k1
    Instance = {i1, i2}
    Task = {t1, t2}
    InstanceOf <- OneWorker
    StoreTask = {t1}
    RetrieveTask = {t2}
    Key = {k1}
    ObjectKey = {a, b}
    NumGroups = 2
    ObjKeys <- OnePair
    NoTensor = {}
    MaxReaders = 1
SPECIFICATION FairSpec
PROPERTY
    OperationsEnd
