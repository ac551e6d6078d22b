\* Three bytes; a block of two instructions, two changes of the block, one call.
CONSTANTS
    Bytes = 3
    MaxInstr = 2
    MaxBlocks = 2
    MaxDepth = 2
SPECIFICATION Spec
INVARIANTS
    UpdatesFollowFlow
    NoUpdateLost
    NoForeignUpdate
    HitsAreFresh
CHECK_DEADLOCK FALSE
