SPECIFICATION FairSpec
CONSTANTS
    Keys <- EditedTarget
    Calls = {o1, o2, o3}
    Closers = {m1}
    None = None
INVARIANT OneSessionPerTarget
INVARIANT EveryServerHasAnOwner
PROPERTY ClosedIsNotReused
PROPERTY EverythingSettles
CHECK_DEADLOCK FALSE
