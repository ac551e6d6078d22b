\* One input, a static variable and two other places; blocks of 1 or 2 bytes.
CONSTANTS
    g = g
    x = x
    y = y
    Inputs = {1}
    Slot = {g, x, y}
    Size <- MCSize
    Statics = {g}
    MaxFrames = 2
    MaxAllocas = 2
    MaxArgs = 1
SPECIFICATION Spec
INVARIANTS
    TypeOK
    Sound
    NoLeftovers
    Interned
CHECK_DEADLOCK FALSE
