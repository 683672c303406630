SPECIFICATION Spec
CONSTANTS
    Requests <- ThreeRequests
    NoRequest = NoRequest
    Nodes <- ThreeNodes
    Source = "lb"
    Edges <- ThreeEdges
    Conf <- ThreeConf
    Arrivals <- ThreeArrivals
    Failures <- ThreeFailures
    Autoscaled <- NobodyScaled
    Duration = 20
    RetryDelay = 2
    EvalInterval = 2
CHECK_DEADLOCK FALSE
INVARIANT
    RoundRobinWraps
