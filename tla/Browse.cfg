SPECIFICATION FairSpec
CONSTANTS
    e1 = e1
    e2 = e2
    Exps = {e1, e2}
    Mine = e1
    Queries = {"q1", "q2"}
    DefaultQuery = "q1"
    Searches <- MCSearches
    MaxPages = 3
    MaxRequests = 2
    None = None
PROPERTY PagesStayTogether
PROPERTY PendingIsServed
PROPERTY LoadAllEnds
PROPERTY EventuallyFresh
CHECK_DEADLOCK FALSE
