CONSTANT
    MaxQueue = 3
SPECIFICATION FairSpec
INVARIANTS TypeOK CleanExit LoopIsWhole NoLateMessage
PROPERTY CloseEnds
CHECK_DEADLOCK FALSE
