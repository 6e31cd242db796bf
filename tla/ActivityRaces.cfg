SPECIFICATION FairRefreshSpec
CONSTANTS
    Runs = {r1}
    Exps = {e1}
    MetricKeys = {}
    SystemKeys = {}
    Clients = {}
    Batches <- NoBatches
    MaxVersion = 1
    Refreshers = {p1, p2}
    FullRefreshers = {p2}
    Recurring = {p1}
    Overlap = 1
    Window = 1
    RecentLimit = 1
    DefaultPolicy <- AllOn
    MaxLag = 1
    MaxTime = 2
    Outcomes = {"FINISHED"}
    MaxFaults = 0
    Removals = {"delete"}
INVARIANT CheckpointIsHonest
INVARIANT IndexIsHonest
PROPERTY EventuallyInSync
 
CHECK_DEADLOCK FALSE
