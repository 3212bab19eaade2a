CONSTANTS
    a = a  b = b
    Store = {a, b}
    CommitWorkers = 2
    NoStore = NoStore
SPECIFICATION Spec
INVARIANT
    SocketExclusive
CHECK_DEADLOCK FALSE
