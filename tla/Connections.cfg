\* epoll_ctl may fail and the clock wraps.
SPECIFICATION Spec
CONSTANTS
    Conns = {c1, c2}
    Fds = {5, 6}
    None = None
    NewTimeout = 1
    IdleTimeout = 2
    Wrap = 2
    MaxTime = 2
    CtlMayFail = TRUE
INVARIANTS TypeOK NoStuckRequest DescriptorsAgree OneTimerEach
PROPERTIES SweepLeavesNoneOverdue  InputIsDealtWith
CHECK_DEADLOCK FALSE
