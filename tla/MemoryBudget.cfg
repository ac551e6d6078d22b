\* Eight bytes of limit, six segments; 1023 is a size that wraps.
\* Three variadic parameters are too many for the array of VA_START.
CONSTANTS
    Usable    = 6
    Fixed    <- MCFixed
    Limit     = 8
    HostMax   = 15
    Wrap      = 1024
    Align     = 4
    AreaMax   = 8
    Sizes     = {0, 1, 3, 1023}
    Frames   <- MCFrames
    MaxFrames = 3
    MaxHeap   = 4
    MaxLost   = 3
SPECIFICATION Spec
INVARIANTS
    BudgetExact
    LimitHeld
    CallsNeverThrow
CHECK_DEADLOCK FALSE
