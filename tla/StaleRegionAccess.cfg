\* Access to a block that STACKRESTORE released.
CONSTANTS
    Addr       = {3, 5, 8}
    Gap        = 1
    Statics   <- MCStatics
    Wrap       = 64
    Sizes      = {1, 2}
    Counts     = {1}
    Probes    <- MCProbes
    MaxFrames  = 3
    MaxVars    = 2
    MaxAllocas = 1
    MaxLists   = 0
SPECIFICATION Spec
INVARIANTS
    AccessesStayInMemory
CHECK_DEADLOCK FALSE
