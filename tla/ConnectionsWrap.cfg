SPECIFICATION Spec
CONSTANTS
    Conns = {c1, c2}
    Fds = {5, 6}
    None = None
    NewTimeout = 1
    IdleTimeout = 2
    Wrap = 3
    MaxTime = 4
    CtlMayFail = FALSE
INVARIANTS FrontExpiresFirst
CHECK_DEADLOCK FALSE
