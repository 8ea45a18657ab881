\* The second request is out of range: the defaults take its place.
SPECIFICATION Spec
CONSTANTS
    Callers = {c1, c2}
    NoThread = NoThread
    Requests <- MCRequests
    MaxThreads = 3
    MaxQueue = 3
    Defaults <- MCDefaults
    MaxTasks = 4
INVARIANTS TypeOK RingHoldsTheTasks 
PROPERTIES DestroyComesBack
CHECK_DEADLOCK FALSE
