------------------------- MODULE MCSimulationRuntime -------------------------
(* Architectures and loads for TLC: one small scenario per question.        *)
EXTENDS SimulationRuntime

Link(to) == [target |-> to, latency |-> 1, transfer |-> 0, losses |-> {FALSE}]

Lossy(to) == [Link(to) EXCEPT !.losses = BOOLEAN, !.transfer = 1]

\* A component without optional behaviour: two slots, no retries, no breaker,
\* no recovery, every key its own.
Plain ==
    [ kind |-> "plain", concurrency |-> 2, replicas |-> 1,
      latency |-> 1, hitLatency |-> 1, missLatency |-> 1,
      errors |-> {FALSE}, retries |-> 0,
      breaker |-> FALSE, threshold |-> 1, openFor |-> 3,
      recovers |-> FALSE, recovery |-> 2,
      queue |-> "disabled", bounded |-> TRUE, maxSize |-> 1, overflow |-> "reject",
      strategy |-> "round_robin",
      min |-> 1, max |-> 1, targetCpu |-> 50,
      keys |-> [r \in Requests |-> r] ]

-----------------------------------------------------------------------------
(* Chain: a gateway, a service that fails, drops and breaks, a database that *)
(* is down for a while, over lossy links.                                   *)

ChainNodes == {"gw", "api", "db"}

ChainEdges ==
    [ gw |-> <<Lossy("api")>>, api |-> <<Lossy("db")>>, db |-> <<>> ]

ChainConf ==
    [ gw  |-> [Plain EXCEPT !.concurrency = 4, !.retries = 1],
      api |-> [Plain EXCEPT !.concurrency = 1, !.latency = 2, !.errors = BOOLEAN,
                            !.retries = 2, !.breaker = TRUE, !.threshold = 2,
                            !.queue = "enabled", !.overflow = "drop_oldest"],
      db  |-> [Plain EXCEPT !.kind = "database", !.concurrency = 1, !.latency = 2,
                            !.queue = "enabled", !.breaker = TRUE,
                            !.recovers = TRUE] ]

ChainArrivals == <<0, 1, 1, 2, 4, 6, 8, 9>>
ChainRequests == 1 .. 8
ChainFailures == <<[node |-> "db", at |-> 4], [node |-> "db", at |-> 5]>>

-----------------------------------------------------------------------------
(* Fan: two servers behind a round robin and two databases behind them, with *)
(* queues, autoscalers that scale up, and components that fail and recover;  *)
(* every routing strategy chooses somewhere.                                 *)

FanNodes == {"lb", "a", "b", "db1", "db2"}

FanEdges ==
    [ lb |-> <<Lossy("a"), Link("b")>>,
      a |-> <<Link("db1"), Link("db2")>>, b |-> <<Link("db1"), Link("db2")>>,
      db1 |-> <<>>, db2 |-> <<>> ]

FanServer ==
    [Plain EXCEPT !.concurrency = 1, !.latency = 2, !.queue = "enabled",
                  !.maxSize = 2, !.recovers = TRUE]

FanConf ==
    [ lb  |-> [Plain EXCEPT !.retries = 1],
      a   |-> [FanServer EXCEPT !.max = 2, !.strategy = "least_connections"],
      b   |-> [FanServer EXCEPT !.strategy = "random"],
      db1 |-> [FanServer EXCEPT !.kind = "database", !.max = 2, !.targetCpu = 80],
      db2 |-> [FanServer EXCEPT !.kind = "database", !.queue = "omitted",
                                !.latency = 5] ]

FanArrivals == <<0, 0, 1, 1, 2, 2, 4, 5>>
FanRequests == 1 .. 8
FanFailures == <<[node |-> "a", at |-> 3], [node |-> "db1", at |-> 7]>>
FanScaled == <<"a", "db1">>

-----------------------------------------------------------------------------
(* Three: three replicas behind a round robin, one of which fails.           *)

ThreeNodes == {"lb", "a", "b", "c"}

ThreeEdges ==
    [ lb |-> <<Link("a"), Link("b"), Link("c")>>,
      a |-> <<>>, b |-> <<>>, c |-> <<>> ]

ThreeConf == [n \in ThreeNodes |-> Plain]

ThreeArrivals == <<0, 0, 2>>
ThreeRequests == 1 .. 3
ThreeFailures == <<[node |-> "c", at |-> 1]>>

-----------------------------------------------------------------------------
(* One: one replica behind a gateway.                                        *)

OneNodes == {"gw", "api"}

OneEdges == [gw |-> <<Link("api")>>, api |-> <<>>]

\* Three replicas: two are left, and idle, when the autoscaler looks for the
\* second time, and busy when the scale-down it schedules is applied.
OneScaledDown ==
    [ gw |-> Plain,
      api |-> [Plain EXCEPT !.concurrency = 1, !.replicas = 3, !.max = 3,
                            !.latency = 5] ]

OneSlowEdges == [gw |-> <<[Link("api") EXCEPT !.latency = 3]>>, api |-> <<>>]

LateArrivals == <<1, 1, 1>>

OneScaled == <<"api">>

\* A service that fails, with waiting requests.
OneErrors ==
    [ gw |-> Plain,
      api |-> [Plain EXCEPT !.concurrency = 1, !.queue = "enabled", !.maxSize = 3,
                            !.errors = BOOLEAN, !.latency = 2, !.recovers = TRUE] ]

OneArrivals == <<0, 0, 0>>
OneRequests == 1 .. 3
OneFailures == <<[node |-> "api", at |-> 2]>>

NoFailures == <<>>
NobodyScaled == <<>>

=============================================================================
