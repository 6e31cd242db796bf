SPECIFICATION Spec
CONSTANTS
    Keys <- EditedTarget
    Calls = {o1, o2}
    Closers = {m1}
    None = None
INVARIANT CloseLeavesNothingRunning
CHECK_DEADLOCK FALSE
