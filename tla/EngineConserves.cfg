SPECIFICATION Spec
CONSTANTS
    Requests <- ChainRequests
    NoRequest = NoRequest
    Nodes <- ChainNodes
    Source = "gw"
    Edges <- ChainEdges
    Conf <- ChainConf
    Arrivals <- ChainArrivals
    Failures <- ChainFailures
    Autoscaled <- NobodyScaled
    Duration = 30
    RetryDelay = 2
    EvalInterval = 2
CHECK_DEADLOCK FALSE
INVARIANTS
    OneContinuation
    ActiveMatchesWork
    TimersMatch
