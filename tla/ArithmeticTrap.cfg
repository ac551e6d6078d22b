\* A condition and an int; the constants of MCArithmetic.
CONSTANTS
    flag = flag
    word = word
    Local <- MCLocal
    Size <- MCSize
    Width <- MCWidth
    Constant <- MCConstant
    Fill <- MCFill
SPECIFICATION Spec
INVARIANT
    SanitizerPreventsCrash
CHECK_DEADLOCK FALSE
