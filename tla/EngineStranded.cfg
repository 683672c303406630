SPECIFICATION Spec
CONSTANTS
    Requests <- OneRequests
    NoRequest = NoRequest
    Nodes <- OneNodes
    Source = "gw"
    Edges <- OneEdges
    Conf <- OneErrors
    Arrivals <- OneArrivals
    Failures <- OneFailures
    Autoscaled <- NobodyScaled
    Duration = 20
    RetryDelay = 2
    EvalInterval = 2
CHECK_DEADLOCK FALSE
INVARIANT
    WaitersAreWoken
