CONSTANTS
    None = None
    Window = 1
    MaxSend = 3
SPECIFICATION FairSpec
INVARIANTS OkMeansComplete HalfCloseIsLast
PROPERTIES BothPipes BackendHeard NoGoroutineLeft HandlerReturns
CHECK_DEADLOCK FALSE
