SPECIFICATION ChartsSpec
CONSTANTS
    Charts = {m1}
    MaxCache = 1
    MaxAsked = 4
    MaxRefreshes = 1
    MaxChanges = 3
INVARIANT FinalRefreshComes
CHECK_DEADLOCK FALSE
