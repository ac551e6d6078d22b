\* The inter-function tables of recursive programs.
CONSTANTS
    Programs <- MCPrograms
    Infinity = 63
SPECIFICATION Spec
INVARIANTS
    InterComplete
CHECK_DEADLOCK FALSE
