SPECIFICATION Spec
CONSTANTS
    Conns = {c1}
    Fds = {5, 6}
    None = None
    NewTimeout = 1
    IdleTimeout = 2
    Wrap = 100
    MaxTime = 2
    CtlMayFail = FALSE
PROPERTIES IdleConnectionsAreClosed
CHECK_DEADLOCK FALSE
