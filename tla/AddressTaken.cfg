\* Blocks larger than an offset.
CONSTANTS
    MaxSeg   = 3
    MaxOff   = 1
    Addr     = {1, 5}
    Gap      = 1
    MaxSize  = 3
    MaxBytes = 4
    Shifts  <- MCShifts
    ByteMod  = 1
    Cells    = {c1}
SPECIFICATION Spec
PROPERTIES
    AddressStored
