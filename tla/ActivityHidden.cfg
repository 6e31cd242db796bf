SPECIFICATION RefreshSpec
CONSTANTS
    Runs = {r1}
    Exps = {e1}
    MetricKeys = {}
    SystemKeys = {}
    Clients = {}
    Batches <- NoBatches
    MaxVersion = 1
    Refreshers = {p1, p2}
    FullRefreshers = {}
    Recurring = {}
    Overlap = 1
    Window = 1
    RecentLimit = 1
    DefaultPolicy <- AllOn
    MaxLag = 1
    MaxTime = 3
    Outcomes = {"FINISHED"}
    MaxFaults = 1
    Removals = {}
PROPERTY UnreadIsRetained
CHECK_DEADLOCK FALSE
