\* Every block fits an offset; two segments can be in use, for three places.
CONSTANTS
    MaxSeg   = 3
    MaxOff   = 1
    Addr     = {1, 3, 5, 7}
    Gap      = 1
    MaxSize  = 1
    MaxBytes = 2
    Shifts  <- MCShifts
    ByteMod  = 1
    Cells    = {c1, c2}
SPECIFICATION Spec
INVARIANTS
    TypeOK
    SegmentsConsistent
    CapacityExact
    RoundTrip
PROPERTIES
    KeepsPromise
    StoredPointersStable
