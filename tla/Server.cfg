\* Descriptors run out, and every call that can fail may fail.
SPECIFICATION Spec
CONSTANTS
    Conns = {c1, c2, c3, c4}
    None = None
    NumThreads = 2
    FdLimits = {2, 3}
    MAXFDS = 3
    AcceptMayFail = TRUE
    NonBlockMayFail = TRUE
INVARIANTS TypeOK NoStuckBacklog DescriptorsOwned FairShare
PROPERTIES ServerStarts
CHECK_DEADLOCK FALSE
