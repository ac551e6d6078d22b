\* Handlers other than exit; recursion up to four frames, three registrations.
CONSTANTS
    f = f
    ext = ext
    Funs = {f}
    Externs = {ext}
    Handlers <- MCHandlers
    MaxDepth = 4
    MaxReg = 3
SPECIFICATION FairSpec
INVARIANTS
    TypeOK
    StackNeverEmpty
    VerdictIsGravest
    NormalEndDrains
    OneRootAtATime
PROPERTIES
    ExitFreezes
    MainStartsOnce
    TimedRunFinishes
CHECK_DEADLOCK FALSE
