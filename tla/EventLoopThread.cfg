\* A thread that starts and destroys the loop and a second one that uses it.
SPECIFICATION ThreadSpec
CONSTANTS
    Callers = {main, worker, helper}
    Tasks = {k1, k2, k3}
    Quitters = {main}
    Owner = main
    CreateMayFail = TRUE
INVARIANTS ThreadTypeOK WakeupProtocol NoLostWakeup LoopOutlivesItsCalls
PROPERTIES ImplementsTaskQueue StartLoopComesBack EnteredLoopIsJoined
CHECK_DEADLOCK FALSE
