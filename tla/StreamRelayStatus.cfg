CONSTANTS
    None = None
    Window = 1
    MaxSend = 2
SPECIFICATION Spec
INVARIANTS StatusUnmodified
CHECK_DEADLOCK FALSE
