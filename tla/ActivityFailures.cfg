SPECIFICATION RefreshSpec
CONSTANTS
    Runs = {r1}
    Exps = {e1}
    MetricKeys = {}
    SystemKeys = {}
    Clients = {c1}
    Batches <- NoBatches
    MaxVersion = 1
    Refreshers = {p1}
    FullRefreshers = {p1}
    Recurring = {}
    Overlap = 1
    Window = 1
    RecentLimit = 1
    DefaultPolicy <- AllOn
    MaxLag = 1
    MaxTime = 3
    Outcomes = {"FINISHED"}
    MaxFaults = 1
    Removals = {"delete", "purge"}
INVARIANT CheckpointIsHonest
INVARIANT SettledIsUnreadOrShown
CHECK_DEADLOCK FALSE
