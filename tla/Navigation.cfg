\* Three functions; costs above 62 are infinite.
CONSTANTS
    Programs <- MCPrograms
    Infinity = 63
SPECIFICATION Spec
INVARIANTS
    GraphMirrorsProgram
    AvgFinal
    IntraCheapest
    InterCheapest
PROPERTIES
    Completes
CHECK_DEADLOCK FALSE
