SPECIFICATION Spec
CONSTANTS
    Requests <- OneRequests
    NoRequest = NoRequest
    Nodes <- OneNodes
    Source = "gw"
    Edges <- OneSlowEdges
    Conf <- OneScaledDown
    Arrivals <- LateArrivals
    Failures <- NoFailures
    Autoscaled <- OneScaled
    Duration = 20
    RetryDelay = 2
    EvalInterval = 2
CHECK_DEADLOCK FALSE
INVARIANT
    ScaleDownIsDeferred
