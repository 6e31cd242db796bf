SPECIFICATION Spec
CONSTANTS
    run1 = run1
    exp1 = exp1
    Runs = {run1}
    Exps = {exp1}
    MetricKeys = {"loss"}
    SystemKeys = {}
    Clients = {c1}
    Times = {1, 2}
    Batches <- AlertBatches
    MaxVersion = 5
INVARIANT AcknowledgedWasShown
PROPERTY EpisodesContinue
PROPERTY RecoveryNeedsEvidence
PROPERTY MetricChangesAreUnread
CHECK_DEADLOCK FALSE
