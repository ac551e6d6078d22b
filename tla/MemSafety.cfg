\* Three places for blocks of one or two bytes.
CONSTANTS
    Addr       = {3, 5, 8}
    Gap        = 1
    Statics   <- MCStatics
    Wrap       = 64
    Sizes      = {1, 2}
    Counts     = {0, 1, 3}
    Probes    <- MCProbes
    MaxFrames  = 3
    MaxVars    = 2
    MaxAllocas = 1
    MaxLists   = 1
SPECIFICATION Spec
INVARIANTS
    TypeOK
    LiveKnown
    RegionsExact
    NoBadAccessPasses
    NoFalseAlarm
    NoInternalFailure
CHECK_DEADLOCK FALSE
