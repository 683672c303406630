SPECIFICATION FairSpec
CONSTANTS
    Requests <- FanRequests
    NoRequest = NoRequest
    Nodes <- FanNodes
    Source = "lb"
    Edges <- FanEdges
    Conf <- FanConf
    Arrivals <- FanArrivals
    Failures <- FanFailures
    Autoscaled <- FanScaled
    Duration = 14
    RetryDelay = 2
    EvalInterval = 2
CHECK_DEADLOCK FALSE
INVARIANTS
    NoStrandedQueue
    NoHandlerThrows
PROPERTIES
    RunEnds
