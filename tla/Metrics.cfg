SPECIFICATION MetricsSpec
CONSTANTS
    Requests <- LoadRequests
    NoRequest = NoRequest
    Nodes <- MNodes
    Source = "gw"
    Edges <- MEdges
    Conf <- MConf
    Arrivals <- GeneratedLoad
    Failures <- MFailures
    Autoscaled <- MScaled
    Duration = 22
    RetryDelay = 2
    EvalInterval = 8
    FirstHealth <- MFirstHealth
    Thresholds <- MThresholds
    Caching <- MCaching
    Operations <- MOperations
CHECK_DEADLOCK FALSE
INVARIANTS
    QueuesAddUp
    AttemptsAddUp
    RequestsAccounted
    HealthAccounted
    LatenciesAddUp
    CacheIsSound
    ProbeIsLive
