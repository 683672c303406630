-------------------------- MODULE SimulationMetrics --------------------------
(***************************************************************************)
(* What the runtime observes of a run and reports of it, on top of the     *)
(* engine of SimulationRuntime.tla: the graded health of the components,   *)
(* the entries of the caches, the counters and histograms the handlers     *)
(* write, and the report getMetrics() builds from them between two events. *)
(*                                                                         *)
(* Every step is a step of the engine together with everything its handler *)
(* records.  Which branch the handler took is read off the step.           *)
(***************************************************************************)
EXTENDS SimulationRuntime, LatencyHistogram, SimulationCache, TrafficGenerator

CONSTANTS
    FirstHealth,    \* FirstHealth[n]: the health the snapshot gives component n
    Thresholds,     \* Thresholds[n]: utilization, errorRate (percent), latencyMs
    Caching,        \* Caching[n]: capacity and ttl of a cache node
    Operations      \* the pool of database operations

Level == [degraded : Nat, critical : Nat]

\* An architecture has finitely many components.
ASSUME MetricsAssumption ==
    /\ IsFiniteSet(Nodes)
    /\ FirstHealth \in [Nodes -> {"healthy", "degraded", "critical"}]
    /\ Thresholds \in
         [Nodes -> [utilization : Level, errorRate : Level, latencyMs : Level]]
    /\ Caching \in [Nodes -> [capacity : Nat \ {0}, ttl : Nat]]
    /\ Operations \in Seq({"read", "write"})

VARIABLES
    collect,    \* collectMetrics of the configuration
    health,     \* health[n]
    work,       \* work[n]: what the health is judged by
    obs,        \* obs[n]: the metrics of component n
    store,      \* the metrics of no single component
    stamp,      \* stamp[r]: queuedAtMs, or NotQueued
    ended,      \* ended[r]: completedAtMs or failedAtMs
    why,        \* why[r]: the reason its request.failed event carries
    cache       \* cache[n]: the entries and counters of a cache node

telemetry == <<collect, health, work, obs, store, stamp, ended, why, cache>>

Health == {"healthy", "degraded", "critical", "failed"}

Reasons ==
    { "circuit_open", "component_failed", "queue_overflow", "queue_disabled",
      "component_error", "network_packet_loss", "no_available_destination",
      "unknown" }

NotQueued == -1

Total(f) == SumFunction(f)

Larger(a, b) == IF a > b THEN a ELSE b

Smaller(a, b) == IF a < b THEN a ELSE b

-----------------------------------------------------------------------------
(* Health.                                                                  *)

\* The severity of the ratio num / den, scaled by `unit`; 0 / 0 counts as 0.
Severity(num, den, unit, level) ==
    LET over(limit) == IF den = 0 THEN limit = 0 ELSE num * unit >= limit * den
    IN  IF over(level.critical) THEN 2 ELSE IF over(level.degraded) THEN 1 ELSE 0

\* The worst of utilization, error rate and average latency.
Judged(n, active, w) ==
    LET severities ==
          { Severity(active, Slots(n), 100, Thresholds[n].utilization),
            Severity(w.failed, w.attempts, 100, Thresholds[n].errorRate),
            Severity(w.latency, w.processed, 1, Thresholds[n].latencyMs) }
    IN  IF 2 \in severities THEN "critical"
        ELSE IF 1 \in severities THEN "degraded" ELSE "healthy"

\* evaluateComponentHealth: a failed component stays failed.
Evaluated(n, active, w) == IF health[n] = "failed" THEN "failed" ELSE Judged(n, active, w)

\* Mutant: the time since the last transition is not credited.
TransitionUncredited(o, from, to, t) ==
    IF from = to THEN o
    ELSE [o EXCEPT !.transitions = @ + 1,
                   !.failures = @ + (IF to = "failed" THEN 1 ELSE 0),
                   !.recoveries = @ + (IF from = "failed" THEN 1 ELSE 0),
                   !.since = t]

\* observeHealthTransition: the time since the last one belongs to `from`.
Transition(o, from, to, t) ==
    IF from = to THEN o
    ELSE [o EXCEPT !.transitions = @ + 1,
                   !.failures = @ + (IF to = "failed" THEN 1 ELSE 0),
                   !.recoveries = @ + (IF from = "failed" THEN 1 ELSE 0),
                   !.inState[from] = @ + t - o.since,
                   !.since = t]

-----------------------------------------------------------------------------
(* Recording.                                                               *)

\* Nothing is observed of a run that does not collect metrics.
Observe(n, o) == obs' = IF collect THEN [obs EXCEPT ![n] = o] ELSE obs

Keep(s) == store' = IF collect THEN s ELSE store

\* Mutant: a dropped request counts as taken from the queue.
AdmittedDequeuing(o, dropped, depth) ==
    [o EXCEPT !.enqueued = @ + 1,
              !.dropped = @ + (IF dropped THEN 1 ELSE 0),
              !.dequeued = @ + (IF dropped THEN 1 ELSE 0),
              !.peakQueue = Larger(@, depth)]

\* recordQueueAdmission
AdmittedTo(o, dropped, depth) ==
    [o EXCEPT !.enqueued = @ + 1,
              !.dropped = @ + (IF dropped THEN 1 ELSE 0),
              !.peakQueue = Larger(@, depth)]

\* recordQueueRejection
RejectedFrom(o) == [o EXCEPT !.rejected = @ + 1]

NewFailures == {f \in events' \ events : f.type = "request.failed"}

\* Some destination is refused by its circuit, or all of them have failed.
RouteReason(n) ==
    IF \E i \in DOMAIN Edges[n] : ~Routable(circuit[Target(n, i)])
    THEN "circuit_open" ELSE "no_available_destination"

\* The reason the handler of e gives for a failure it schedules.
Reason(e) ==
    CASE e.type = "network.transmission_started" -> "network_packet_loss"
      [] e.type = "cache.hit" -> "component_failed"
      [] e.type \in {"request.routed", "request.processing_started"}
         /\ ~Admits(circuit[e.node], e.req) -> "circuit_open"
      [] e.type \in {"request.routed", "request.processing_started"}
         /\ Admits(circuit[e.node], e.req) /\ comp[e.node].failed -> "component_failed"
      [] e.type = "request.processing_started"
         /\ Admits(circuit[e.node], e.req) /\ ~comp[e.node].failed ->
           IF HasCapacity(e.node) THEN "component_error"
           ELSE IF Conf[e.node].queue = "disabled" THEN "queue_disabled"
           ELSE "queue_overflow"
      [] OTHER -> RouteReason(e.node)

Explain(e) ==
    why' = [r \in Requests |->
              IF \E f \in NewFailures : f.req = r THEN Reason(e) ELSE why[r]]

-----------------------------------------------------------------------------
(* What the handlers record, event by event.  Each leaves alone what it does *)
(* not mention.                                                              *)

\* A transmission is counted; a delivered one is a sample of the network.
Transmitted(e) ==
    LET edge == Edges[e.node][e.arg]
        lost == req'[e.req].attempts # req[e.req].attempts
    IN  /\ e.type = "network.transmission_started"
        /\ Keep(IF lost
                THEN [store EXCEPT !.transmissions = @ + 1, !.losses = @ + 1]
                ELSE [store EXCEPT !.transmissions = @ + 1,
                                   !.network = Recorded(@, edge.latency + edge.transfer)])
        /\ UNCHANGED <<health, work, obs, stamp, ended, cache>>

\* Did the handler of e find the entry of its request?
Found(e) == \E f \in events' : f.type = "cache.hit" /\ f.req = e.req

LooksUp(e) ==
    /\ Conf[e.node].kind = "cache"
    /\ ~comp[e.node].failed
    /\ Admits(circuit[e.node], e.req)

\* The lookup of an arrival at a cache is decided by its entries.
Arrived(e) ==
    LET n == e.node
        key == Conf[n].keys[e.req]
    IN  /\ e.type = "request.routed"
        /\ IF LooksUp(e)
           THEN /\ Found(e) <=> Live(cache[n], key, Caching[n].ttl, e.at)
                /\ cache' = [cache EXCEPT ![n] = LookedUp(@, key, Caching[n].ttl, e.at)]
           ELSE UNCHANGED cache
        /\ UNCHANGED <<health, work, obs, store, stamp, ended>>

Filled(e) ==
    LET n == e.node
    IN  /\ e.type = "cache.set"
        /\ cache' = [cache EXCEPT ![n] = Stored(@, Conf[n].keys[e.req],
                                                Caching[n].capacity, e.at)]
        /\ UNCHANGED <<health, work, obs, store, stamp, ended>>

\* The operation of a database request.
Operated(e) ==
    LET op == OperationOf(Operations, e.req)
    IN  /\ e.type = "database.request"
        /\ Keep([store EXCEPT !.operations[e.node][op] = @ + 1])
        /\ UNCHANGED <<health, work, obs, stamp, ended, cache>>

\* No capacity: the request waits, somebody is dropped for it, or it is
\* rejected.
QueuedOrNot(e) ==
    LET n == e.node
        dropped == Full(n) /\ queue'[n] # queue[n]
    IN  /\ IF queue'[n] = queue[n]
           THEN Observe(n, RejectedFrom(obs[n])) /\ UNCHANGED stamp
           ELSE /\ Observe(n, AdmittedTo(obs[n], dropped, Len(queue'[n])))
                /\ stamp' = IF ~collect THEN stamp
                            ELSE [r \in Requests |->
                                    IF r = e.req THEN e.at
                                    ELSE IF dropped /\ r = Head(queue[n]) THEN NotQueued
                                    ELSE stamp[r]]
        /\ UNCHANGED <<health, work, store, ended, cache>>

\* Mutant: only the attempts that succeed are counted.
TriedOnSuccess(e) ==
    LET n == e.node
        attempted == [work[n] EXCEPT !.attempts = @ + 1]
        level == Evaluated(n, comp'[n].active, attempted)
        busier == [obs[n] EXCEPT !.peakActive = Larger(@, comp'[n].active)]
    IN  /\ IF comp'[n].active = comp[n].active
           THEN /\ work' = [work EXCEPT ![n].failed = @ + 1]
                /\ UNCHANGED <<health, obs>>
           ELSE /\ work' = [work EXCEPT ![n] = attempted]
                /\ health' = [health EXCEPT ![n] = level]
                /\ Observe(n, Transition(busier, health[n], level, e.at))
        /\ UNCHANGED <<store, stamp, ended, cache>>

\* An attempt that fails is counted and does not touch the health; one that
\* succeeds occupies a slot, which may change it.
Tried(e) ==
    LET n == e.node
        attempted == [work[n] EXCEPT !.attempts = @ + 1]
        level == Evaluated(n, comp'[n].active, attempted)
        busier == [obs[n] EXCEPT !.peakActive = Larger(@, comp'[n].active)]
    IN  /\ IF comp'[n].active = comp[n].active
           THEN /\ work' = [work EXCEPT ![n] = [attempted EXCEPT !.failed = @ + 1]]
                /\ UNCHANGED <<health, obs>>
           ELSE /\ work' = [work EXCEPT ![n] = attempted]
                /\ health' = [health EXCEPT ![n] = level]
                /\ Observe(n, Transition(busier, health[n], level, e.at))
        /\ UNCHANGED <<store, stamp, ended, cache>>

Begun(e) ==
    LET n == e.node
        refused == comp[n].failed \/ ~Admits(circuit[n], e.req)
    IN  /\ e.type = "request.processing_started"
        /\ \/ refused /\ UNCHANGED <<health, work, obs, store, stamp, ended, cache>>
           \/ ~refused /\ ~HasCapacity(n) /\ QueuedOrNot(e)
           \/ ~refused /\ HasCapacity(n) /\ Tried(e)

\* The latency is the time since processing started.
Finished(e) ==
    LET n == e.node
        done == [work[n] EXCEPT !.processed = @ + 1, !.latency = @ + Conf[n].latency]
        level == Evaluated(n, comp'[n].active, done)
        sampled == [obs[n] EXCEPT !.processing = Recorded(@, Conf[n].latency)]
    IN  /\ e.type = "request.processing_completed"
        /\ work' = [work EXCEPT ![n] = done]
        /\ health' = [health EXCEPT ![n] = level]
        /\ Observe(n, Transition(sampled, health[n], level, e.at))
        /\ UNCHANGED <<store, stamp, ended, cache>>

\* dequeueRequest, for every request the drain starts.
Dequeued(e) ==
    LET n == e.node
        k == Len(queue[n]) - Len(queue'[n])
        waited[i \in 0 .. k] ==
            IF i = 0 THEN obs[n].wait
            ELSE Recorded(waited[i - 1], e.at - stamp[queue[n][i]])
    IN  /\ e.type = "queue.drain"
        /\ IF collect
           THEN /\ obs' = [obs EXCEPT ![n].dequeued = @ + k, ![n].wait = waited[k]]
                /\ stamp' = [r \in Requests |->
                               IF \E i \in 1 .. k : queue[n][i] = r
                               THEN NotQueued ELSE stamp[r]]
           ELSE UNCHANGED <<obs, stamp>>
        /\ UNCHANGED <<health, work, store, ended, cache>>

Succeeded(e) ==
    /\ e.type = "request.completed"
    /\ ended' = [ended EXCEPT ![e.req] = e.at]
    /\ UNCHANGED <<health, work, obs, store, stamp, cache>>

\* recordRequestFailure
Lost(e) ==
    /\ e.type = "request.failed"
    /\ ended' = [ended EXCEPT ![e.req] = e.at]
    /\ Keep([store EXCEPT !.byReason[why[e.req]] = @ + 1, !.byNode[e.node] = @ + 1])
    /\ UNCHANGED <<health, work, obs, stamp, cache>>

\* Mutant: only the retry of a lost packet is counted.
RetriedOverNetwork(e) ==
    /\ e.type \in {"request.retry", "request.reroute"}
    /\ Keep(IF e.type = "request.retry" THEN store
            ELSE [store EXCEPT !.retries[e.node] = @ + 1])
    /\ UNCHANGED <<health, work, obs, stamp, ended, cache>>

\* Counted when the retry is made, at the node whose policy allowed it.
Retried(e) ==
    /\ e.type \in {"request.retry", "request.reroute"}
    /\ Keep([store EXCEPT !.retries[e.node] = @ + 1])
    /\ UNCHANGED <<health, work, obs, stamp, ended, cache>>

\* A failure and a recovery set the health; both are ignored by a component
\* that has failed, or has not, already.
FailedOrRecovered(e) ==
    LET n == e.node
        level == IF e.type = "component.failed" THEN "failed"
                 ELSE IF health[n] = "failed" THEN "healthy" ELSE health[n]
    IN  /\ e.type \in {"component.failed", "component.recovered"}
        /\ health' = [health EXCEPT ![n] = level]
        /\ Observe(n, Transition(obs[n], health[n], level, e.at))
        /\ UNCHANGED <<work, store, stamp, ended, cache>>

Assessed(e) ==
    /\ e.type = "autoscaling.evaluate"
    /\ Observe(e.node, [obs[e.node] EXCEPT !.evaluations = @ + 1])
    /\ UNCHANGED <<health, work, store, stamp, ended, cache>>

\* setComponentReplicas, of a component that has not failed.
Resized(e) ==
    LET n == e.node
        k == comp[n].replicas
    IN  /\ e.type = "component.scaled"
        /\ IF comp[n].failed THEN UNCHANGED obs
           ELSE Observe(n, [obs[n] EXCEPT !.least = Smaller(@, e.arg),
                                          !.most = Larger(@, e.arg),
                                          !.ups = @ + (IF e.arg > k THEN 1 ELSE 0),
                                          !.downs = @ + (IF e.arg < k THEN 1 ELSE 0)])
        /\ UNCHANGED <<health, work, store, stamp, ended, cache>>

Unrecorded ==
    { "request.created", "database.response", "cache.hit", "cache.miss",
      "component.recovery", "component.circuit_half_open" }

Ignored(e) ==
    /\ e.type \in Unrecorded
    /\ UNCHANGED <<health, work, obs, store, stamp, ended, cache>>

Records(e) ==
    \/ Transmitted(e) \/ Arrived(e) \/ Filled(e) \/ Operated(e) \/ Begun(e)
    \/ Finished(e) \/ Dequeued(e) \/ Succeeded(e) \/ Lost(e) \/ Retried(e)
    \/ FailedOrRecovered(e) \/ Assessed(e) \/ Resized(e) \/ Ignored(e)

-----------------------------------------------------------------------------
(* The specification.                                                       *)

\* createComponentMetrics
Unobserved(n) ==
    [ peakActive |-> 0, peakQueue |-> 0, enqueued |-> 0, dequeued |-> 0,
      dropped |-> 0, rejected |-> 0, wait |-> EmptyHistogram,
      transitions |-> 0, failures |-> 0, recoveries |-> 0,
      inState |-> [h \in Health |-> 0], since |-> 0,
      least |-> Conf[n].replicas, most |-> Conf[n].replicas,
      ups |-> 0, downs |-> 0, evaluations |-> 0,
      processing |-> EmptyHistogram ]

\* createMetricsStore
EmptyStore ==
    [ byReason |-> [x \in Reasons |-> 0], byNode |-> [n \in Nodes |-> 0],
      retries |-> [n \in Nodes |-> 0], transmissions |-> 0, losses |-> 0,
      network |-> EmptyHistogram,
      operations |-> [n \in Nodes |-> [read |-> 0, write |-> 0]] ]

MetricsInit ==
    /\ Init
    /\ collect \in BOOLEAN
    /\ health = FirstHealth
    /\ work = [n \in Nodes |-> [attempts |-> 0, failed |-> 0, processed |-> 0, latency |-> 0]]
    /\ obs = [n \in Nodes |-> Unobserved(n)]
    /\ store = EmptyStore
    /\ stamp = [r \in Requests |-> NotQueued]
    /\ ended = [r \in Requests |-> 0]
    /\ why = [r \in Requests |-> "unknown"]
    /\ cache = [n \in Nodes |-> EmptyCache]

\* A handler that throws ends the run with nothing more recorded.
MetricsNext ==
    /\ status = "running"
    /\ \E e \in events :
         /\ IsNext(e)
         /\ Handle(e)
         /\ IF status' = "failed"
            THEN UNCHANGED telemetry
            ELSE Records(e) /\ Explain(e) /\ UNCHANGED collect

MetricsSpec == MetricsInit /\ [][MetricsNext]_<<vars, telemetry>>

-----------------------------------------------------------------------------
(* getMetrics: the report of a run, between two events.                     *)

Having(s) == Cardinality({r \in Requests : req[r].status = s})

\* The time in every state, the one the component is in up to now.
TimeInState(n) == [obs[n].inState EXCEPT ![health[n]] = @ + now - obs[n].since]

QueueReport(n) ==
    [ current |-> Len(queue[n]), peak |-> obs[n].peakQueue,
      enqueued |-> obs[n].enqueued, dequeued |-> obs[n].dequeued,
      dropped |-> obs[n].dropped, rejected |-> obs[n].rejected,
      wait |-> Summary(obs[n].wait) ]

ComponentReport(n) ==
    [ traffic |-> [ active |-> comp[n].active, peak |-> obs[n].peakActive,
                    processed |-> work[n].processed, attempts |-> work[n].attempts,
                    failed |-> work[n].failed, retries |-> store.retries[n] ],
      latency |-> [ total |-> work[n].latency, summary |-> Summary(obs[n].processing) ],
      queue |-> QueueReport(n),
      autoscaling |-> [ current |-> comp[n].replicas, least |-> obs[n].least,
                        most |-> obs[n].most, ups |-> obs[n].ups,
                        downs |-> obs[n].downs, evaluations |-> obs[n].evaluations ],
      health |-> [ state |-> health[n], transitions |-> obs[n].transitions,
                   failures |-> obs[n].failures, recoveries |-> obs[n].recoveries,
                   time |-> TimeInState(n) ] ]

OfKind(k) == {n \in Nodes : Conf[n].kind = k}

CacheReport ==
    LET sum(f(_)) == Total([n \in OfKind("cache") |-> f(cache[n])])
        hits(c) == c.hits
        misses(c) == c.misses
        evictions(c) == c.evictions
        size(c) == Len(c.entries)
    IN  [ requests |-> sum(hits) + sum(misses), hits |-> sum(hits),
          misses |-> sum(misses), evictions |-> sum(evictions),
          entries |-> sum(size) ]

DatabaseReport ==
    LET sum(f) == Total([n \in OfKind("database") |-> f[n]])
    IN  [ requests |-> sum([n \in Nodes |-> work[n].processed]),
          reads |-> sum([n \in Nodes |-> store.operations[n].read]),
          writes |-> sum([n \in Nodes |-> store.operations[n].write]),
          failed |-> sum([n \in Nodes |-> work[n].failed]),
          latency |-> sum([n \in Nodes |-> work[n].latency]) ]

QueueTotals ==
    [ enqueued |-> Total([n \in Nodes |-> obs[n].enqueued]),
      dequeued |-> Total([n \in Nodes |-> obs[n].dequeued]),
      dropped |-> Total([n \in Nodes |-> obs[n].dropped]),
      rejected |-> Total([n \in Nodes |-> obs[n].rejected]) ]

\* The histograms of all the components in one.
AllProcessing ==
    FoldFunctionOnSet(LAMBDA h, g : Merged(g, h), EmptyHistogram,
                      [n \in Nodes |-> obs[n].processing], Nodes)

\* The time from creation to end of the requests with a terminal status.
EndToEnd(s) ==
    FoldFunctionOnSet(LAMBDA v, h : Recorded(h, v), EmptyHistogram,
                      [r \in Requests |-> ended[r] - Arrivals[r]],
                      {r \in Requests : req[r].status = s})

Rate(k, all) == [num |-> IF all = 0 THEN 0 ELSE k, den |-> IF all = 0 THEN 1 ELSE all]

BuildEnabled ==
    LET completed == Having("completed")
        failed == Having("failed")
    IN  [ processed |-> now,
          requests |-> [ generated |-> Cardinality(Requests),
                         completed |-> completed, failed |-> failed,
                         retries |-> Total(store.retries),
                         success |-> Rate(completed, completed + failed),
                         error |-> Rate(failed, completed + failed),
                         inFlight |-> Cardinality(Requests) - completed - failed,
                         queued |-> Cardinality({r \in Requests : stamp[r] # NotQueued}) ],
          failures |-> [total |-> failed, byReason |-> store.byReason, byNode |-> store.byNode],
          network |-> [ transmissions |-> store.transmissions, losses |-> store.losses,
                        summary |-> Summary(store.network) ],
          latency |-> [ endToEnd |-> Summary(EndToEnd("completed")),
                        failed |-> Summary(EndToEnd("failed")),
                        processing |-> Summary(AllProcessing) ],
          components |-> [n \in Nodes |-> ComponentReport(n)],
          cache |-> CacheReport, database |-> DatabaseReport, queues |-> QueueTotals ]

NoLatency == Summary(EmptyHistogram)

\* Nothing is reported of a run that did not collect, not even its requests.
BuildDisabled ==
    [ processed |-> now,
      requests |-> [ generated |-> 0, completed |-> 0, failed |-> 0, retries |-> 0,
                     success |-> Rate(0, 0), error |-> Rate(0, 0),
                     inFlight |-> 0, queued |-> 0 ],
      failures |-> [total |-> 0, byReason |-> <<>>, byNode |-> <<>>],
      network |-> [transmissions |-> 0, losses |-> 0, summary |-> NoLatency],
      latency |-> [endToEnd |-> NoLatency, failed |-> NoLatency, processing |-> NoLatency],
      components |-> <<>>,
      cache |-> [requests |-> 0, hits |-> 0, misses |-> 0, evictions |-> 0, entries |-> 0],
      database |-> [requests |-> 0, reads |-> 0, writes |-> 0, failed |-> 0, latency |-> 0],
      queues |-> [enqueued |-> 0, dequeued |-> 0, dropped |-> 0, rejected |-> 0] ]

Report == IF collect THEN BuildEnabled ELSE BuildDisabled

-----------------------------------------------------------------------------
(* Properties: the report of a run that collects adds up between any two     *)
(* events, although its figures are counted by different handlers.           *)

\* The report at this moment, of a run that has one worth reading.
Reports == IF collect /\ status # "failed" THEN {Report} ELSE {}

\* Every request that entered a queue has been taken from it, was dropped, or
\* waits there now, no more of them than the bound, whichever handlers enqueue,
\* drain and drop; the waiting times are those of the requests taken; and the
\* requests marked as queued are the ones the queues hold.
QueuesAddUp ==
    \A m \in Reports :
        /\ \A n \in Nodes :
              LET q == m.components[n].queue
              IN  /\ q.enqueued = q.dequeued + q.dropped + q.current
                  /\ q.wait.count = q.dequeued
                  /\ Conf[n].queue = "enabled" /\ Conf[n].bounded => q.peak <= Conf[n].maxSize
        /\ m.requests.queued =
              m.queues.enqueued - m.queues.dequeued - m.queues.dropped

\* The attempts counted at the requests, which the retry policies compare with
\* their budget, are those counted at the components, each failed, processed or
\* under way, and the transmissions lost.
AttemptsAddUp ==
    \A m \in Reports :
        /\ \A n \in Nodes :
              LET t == m.components[n].traffic
              IN  t.attempts = t.failed + t.processed + t.active /\ t.active <= t.peak
        /\ Total([r \in Requests |-> req[r].attempts])
              = m.network.losses
                + Total([n \in Nodes |-> m.components[n].traffic.attempts])
        /\ m.network.transmissions = m.network.losses + m.network.summary.count

\* Every failed request has one known reason and one node; every failed attempt
\* and every lost transmission was retried, is going to be, or is the reason
\* its request fails; and at the end of a run no arrival generated is left over
\* that never began, which the report would count as in flight for ever.
RequestsAccounted ==
    \A m \in Reports :
        LET f == m.failures
            last == {r \in Requests : why[r] \in {"component_error", "network_packet_loss"}}
            coming == {e \in events : e.type \in {"request.retry", "request.reroute"}}
        IN  /\ f.total = Total(f.byReason) /\ f.total = Total(f.byNode)
            /\ f.byReason["unknown"] = 0
            /\ m.network.losses + Total([n \in Nodes |-> m.components[n].traffic.failed])
               = m.requests.retries + Cardinality(coming) + Cardinality(last)
            /\ status = "completed" => \A e \in events : e.type # "request.created"

\* The time spent in the four states of health is the time simulated, a
\* component is reported failed when the engine treats it as failed, and it
\* has failed once more than it has recovered exactly then.
HealthAccounted ==
    \A m \in Reports :
        \A n \in Nodes :
            LET h == m.components[n].health
            IN  /\ Total(h.time) = now
                /\ h.state = "failed" <=> comp[n].failed
                /\ h.failures - h.recoveries = IF h.state = "failed" THEN 1 ELSE 0

Plausible(s) ==
    /\ AtMost(s.p50, s.p95) /\ AtMost(s.p95, s.p99)
    /\ s.min * s.count <= s.total /\ s.total <= s.max * s.count

\* The latencies merged from all components are those of the requests they
\* processed, the end-to-end latencies those of the requests that are over,
\* and the percentiles of every summary are in order.
LatenciesAddUp ==
    \A m \in Reports :
        LET l == m.latency
            all == {l.endToEnd, l.failed, l.processing, m.network.summary}
                   \cup {m.components[n].queue.wait : n \in Nodes}
        IN  /\ l.processing.count = Total([n \in Nodes |-> work[n].processed])
            /\ l.processing.total = Total([n \in Nodes |-> work[n].latency])
            /\ l.endToEnd.count = m.requests.completed
            /\ l.failed.count = m.requests.failed
            /\ \A s \in all : Plausible(s)

\* A cache holds one entry per key, no more than its capacity, and none that
\* was used after its end; and a key whose entry may be found is one the
\* engine's abstract cache counts with, so the abstraction leaves out no hit.
CacheIsSound ==
    \A n \in OfKind("cache") :
        LET s == cache[n].entries
        IN  /\ Len(s) <= Caching[n].capacity
            /\ \A i, j \in DOMAIN s : s[i].key = s[j].key => i = j
            /\ \A i \in DOMAIN s :
                  /\ s[i].key \in cached[n]
                  /\ Caching[n].ttl = 0 \/ s[i].used < s[i].created + Caching[n].ttl

=============================================================================
