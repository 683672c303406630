------------------------- MODULE MCSimulationMetrics -------------------------
(* One architecture in which everything that is counted happens: a gateway,   *)
(* a cache with a queue that fails and recovers, a database that scales.      *)
EXTENDS SimulationMetrics

\* Arrivals at 0, 4, 7, 11 and 14; the next slot is rounded to the end.
GeneratedLoad == Generated(228, Duration)

LoadRequests == 1 .. Len(GeneratedLoad)

Link(to) == [target |-> to, latency |-> 1, transfer |-> 0, losses |-> {FALSE}]

MNodes == {"gw", "cache", "db"}

MEdges ==
    [ gw |-> <<[Link("cache") EXCEPT !.losses = BOOLEAN], Link("db")>>,
      cache |-> <<>>, db |-> <<>> ]

Plain ==
    [ kind |-> "plain", concurrency |-> 1, replicas |-> 1,
      latency |-> 1, hitLatency |-> 1, missLatency |-> 1,
      errors |-> {FALSE}, retries |-> 1,
      breaker |-> FALSE, threshold |-> 1, openFor |-> 3,
      recovers |-> TRUE, recovery |-> 2,
      queue |-> "enabled", bounded |-> TRUE, maxSize |-> 1, overflow |-> "reject",
      strategy |-> "random",
      min |-> 1, max |-> 2, targetCpu |-> 50,
      keys |-> [r \in Requests |-> CacheKeyOf(<<1, 2>>, r)] ]

MConf ==
    [ gw    |-> Plain,
      cache |-> [Plain EXCEPT !.kind = "cache", !.latency = 6, !.errors = BOOLEAN,
                              !.overflow = "drop_oldest", !.breaker = TRUE,
                              !.openFor = 1, !.hitLatency = 6],
      db    |-> [Plain EXCEPT !.kind = "database", !.latency = 8] ]

MFailures == <<[node |-> "cache", at |-> 19], [node |-> "db", at |-> 19]>>

MScaled == <<"db">>

\* The cache starts from the health an earlier run left in its row.
MFirstHealth == [n \in MNodes |-> IF n = "cache" THEN "degraded" ELSE "healthy"]

DefaultThresholds ==
    [ utilization |-> [degraded |-> 70, critical |-> 101],
      errorRate |-> [degraded |-> 20, critical |-> 50],
      latencyMs |-> [degraded |-> 200, critical |-> 500] ]

\* The database has thresholds of its own.
MThresholds ==
    [n \in MNodes |->
       IF n = "db"
       THEN [DefaultThresholds EXCEPT !.latencyMs = [degraded |-> 4, critical |-> 8]]
       ELSE DefaultThresholds]

MCaching == [n \in MNodes |-> [capacity |-> 1, ttl |-> 5]]

MOperations == <<"read", "write">>

=============================================================================
