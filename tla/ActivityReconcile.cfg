SPECIFICATION Spec
CONSTANTS
    run1 = run1
    exp1 = exp1
    Runs = {run1}
    Exps = {exp1}
    MetricKeys = {"loss"}
    SystemKeys = {}
    Clients = {c1, c2}
    Times = {1, 2, 3}
    Batches <- StatusBatches
    MaxVersion = 4
INVARIANT ReadWasShown
INVARIANT ReasonsMatchUnread
PROPERTY KeepsInboxPromise
PROPERTY NeverMovesBack
PROPERTY StatusChangesAreUnread
CHECK_DEADLOCK FALSE
