-------------------------- MODULE SimulationRuntime --------------------------
(***************************************************************************)
(* The discrete-event engine of one run: the queue of future events, the   *)
(* handler of every event, and the runtime state the handlers share (the   *)
(* requests, the components with their circuits, queues and round-robin    *)
(* positions, the contents of the caches).                                 *)
(*                                                                         *)
(* One step takes the first pending event in (time, insertion) order and   *)
(* runs its handler.  The choices of the seeded random generator (an       *)
(* error, a lost packet, a random route) are nondeterministic; everything  *)
(* else is determined, as in the code.  Events nothing reacts to           *)
(* (component.health_changed, component.circuit_opened and _closed,        *)
(* component.recovery_scheduled, queue.enqueue and queue.dequeue) are left *)
(* out, health is failed or not, and the counters of the metrics are       *)
(* absent: none of them feeds back into a handler.                         *)
(***************************************************************************)
EXTENDS Integers, Sequences, FiniteSets, CircuitBreaker

CONSTANTS
    Nodes,          \* the components of the architecture
    Source,         \* the node the load enters at
    Edges,          \* Edges[n]: the outgoing edges of n, in order
    Conf,           \* Conf[n]: the configuration of n
    Arrivals,       \* Arrivals[r]: when the load generator creates request r
    Failures,       \* the scheduled failures, a sequence of [node, at]
    Autoscaled,     \* the nodes with autoscaling enabled, in order
    Duration,       \* simulated duration, exclusive end of the run
    RetryDelay,     \* DEFAULT_RETRY_DELAY_MS
    EvalInterval    \* DEFAULT_AUTOSCALING_EVALUATION_INTERVAL_MS

\* latency: of the link; transfer: the time its bandwidth adds to it;
\* losses: {FALSE}, {TRUE} or both, as the packet loss rate is 0, 1 or between.
Edge == [target : Nodes, latency : Nat, transfer : Nat, losses : SUBSET BOOLEAN]

Config ==
    [ kind : {"plain", "cache", "database"},
      concurrency : Nat \ {0}, replicas : Nat \ {0},
      latency : Nat, hitLatency : Nat, missLatency : Nat,
      errors : SUBSET BOOLEAN,                 \* like losses, of the error rate
      retries : Nat,
      breaker : BOOLEAN, threshold : Nat \ {0}, openFor : Nat,
      recovers : BOOLEAN, recovery : Nat,      \* is there a recoveryDelayMs
      queue : {"omitted", "disabled", "enabled"},
      bounded : BOOLEAN, maxSize : Nat, overflow : {"reject", "drop_oldest"},
      strategy : {"omitted", "round_robin", "random", "least_connections"},
      min : Nat \ {0}, max : Nat \ {0}, targetCpu : 0 .. 100,
      keys : [Requests -> Nat] ]               \* the cache key of a request

ASSUME RuntimeAssumption ==
    /\ Source \in Nodes
    /\ Edges \in [Nodes -> Seq(Edge)]
    /\ \A n \in Nodes : \A i \in DOMAIN Edges[n] : Edges[n][i].losses # {}
    /\ \A n \in Nodes : Conf[n] \in Config /\ Conf[n].errors # {}
    /\ Arrivals \in Seq(Nat) /\ Requests = 1 .. Len(Arrivals)
    /\ Failures \in Seq([node : Nodes, at : 0 .. Duration - 1])
    /\ Autoscaled \in Seq(Nodes)
    /\ \A i \in DOMAIN Autoscaled :
          LET c == Conf[Autoscaled[i]] IN c.min <= c.replicas /\ c.replicas <= c.max
    /\ Duration \in Nat /\ RetryDelay \in Nat /\ EvalInterval \in Nat \ {0}

VARIABLES
    status,     \* of the simulation: "running", "completed" or "failed"
    now,        \* the clock
    events,     \* the future events
    nextSeq,    \* the insertion number of the next event scheduled
    req,        \* req[r]: status, attempts made, whether it missed a cache
    comp,       \* comp[n]: failed, active requests, replicas, recovery cycle
    circuit,    \* circuit[n]: the circuit breaker
    queue,      \* queue[n]: the requests waiting at n
    position,   \* position[n]: the round-robin position of source n
    cached      \* cached[n]: the keys whose entries a lookup at n may find

model == <<req, comp, circuit, queue, position, cached>>
vars == <<status, now, events, nextSeq, model>>

RequestEvent ==
    { "request.created", "network.transmission_started", "request.routed",
      "request.processing_started", "request.processing_completed",
      "database.request", "database.response", "cache.hit", "cache.miss",
      "request.retry", "request.reroute", "request.completed", "request.failed" }

NodeEvent ==
    { "queue.drain", "cache.set", "component.failed", "component.recovery",
      "component.recovered", "component.circuit_half_open",
      "autoscaling.evaluate", "component.scaled" }

\* arg: the edge of a transmission, the generation of a timer, the replicas of
\* a scaling.  A retry whose payload says stage "network" is a request.reroute.
Event ==
    [ at : Nat, seq : Nat, type : RequestEvent \cup NodeEvent, node : Nodes,
      req : Requests \cup {NoRequest}, arg : Nat ]

TypeOK ==
    /\ status \in {"running", "completed", "failed"}
    /\ now \in Nat
    /\ events \subseteq Event
    /\ nextSeq \in Nat
    /\ req \in [Requests ->
                  [ status : {"pending", "in-flight", "queued", "completed", "failed"},
                    attempts : Nat, miss : BOOLEAN ]]
    /\ comp \in [Nodes -> [ failed : BOOLEAN, active : Nat,
                            replicas : Nat \ {0}, cycle : Nat ]]
    /\ circuit \in [Nodes -> Circuit]
    /\ queue \in [Nodes -> Seq(Requests)]
    /\ position \in [Nodes -> Nat]
    /\ cached \in [Nodes -> SUBSET Nat]

-----------------------------------------------------------------------------
(* The event queue.                                                         *)

At(t, type, n, r, arg) ==
    [at |-> t, seq |-> 0, type |-> type, node |-> n, req |-> r, arg |-> arg]

\* The events of a list, numbered in the order they are scheduled.
Stamped(list, first) ==
    {[list[i] EXCEPT !.seq = first + i] : i \in DOMAIN list}

Eligible(E) == {e \in E : e.at < Duration}

\* The (time, insertion) order of the event heap.
Before(e, f) == e.at < f.at \/ (e.at = f.at /\ e.seq < f.seq)

IsNext(e) ==
    /\ e \in Eligible(events)
    /\ \A f \in Eligible(events) \ {e} : Before(e, f)

\* Mutant: the run goes on until its last event.
ProceedToTheLast(e, list) ==
    LET pending == (events \ {e}) \cup Stamped(list, nextSeq)
    IN  /\ now' = e.at
        /\ events' = pending
        /\ nextSeq' = nextSeq + Len(list)
        /\ status' = IF pending = {} THEN "completed" ELSE "running"

\* The handler of e returns after scheduling a list of events; the run
\* completes when no eligible event is left.
Proceed(e, list) ==
    LET pending == (events \ {e}) \cup Stamped(list, nextSeq)
    IN  /\ now' = e.at
        /\ events' = pending
        /\ nextSeq' = nextSeq + Len(list)
        /\ status' = IF Eligible(pending) = {} THEN "completed" ELSE "running"

\* The handler of e throws, which fails the run.  What it had changed before
\* is not kept: a failed run is disposed of.
Throw(e) ==
    /\ now' = e.at
    /\ events' = events \ {e}
    /\ status' = "failed"
    /\ UNCHANGED <<nextSeq, model>>

-----------------------------------------------------------------------------
(* Requests.                                                                *)

Over(r) == req[r].status \in {"completed", "failed"}

Queued(r) == req[r].status = "queued"

Becomes(r, s) == req' = [req EXCEPT ![r].status = s]

FailNow(e) == At(e.at, "request.failed", e.node, e.req, 0)

-----------------------------------------------------------------------------
(* Failures: the circuit of the node a request failed at, and what becomes  *)
(* of the request.                                                          *)

\* The circuit c of node n after a retryable failure, and its timer.
Failed(n, c) == IF Conf[n].breaker THEN AfterFailure(c, Conf[n].threshold) ELSE c

Timer(e, n, c) ==
    IF Conf[n].breaker /\ Trips(c, Conf[n].threshold)
    THEN <<At(e.at + Conf[n].openFor, "component.circuit_half_open", n,
              NoRequest, c.generation + 1)>>
    ELSE <<>>

\* The retry policy is the one of the node that retries; attempts counts
\* every attempt of the request, wherever it was made.
RetryOrFail(e, n, retry, attempts, failureAt) ==
    IF attempts <= Conf[n].retries
    THEN <<At(failureAt + RetryDelay, retry, n, e.req, 0)>>
    ELSE <<At(failureAt, "request.failed", n, e.req, 0)>>

-----------------------------------------------------------------------------
(* Routing.                                                                 *)

Target(n, i) == Edges[n][i].target

\* The edges whose target has not failed and may be tried by its circuit.
Open(n) ==
    { i \in DOMAIN Edges[n] :
        ~comp[Target(n, i)].failed /\ Routable(circuit[Target(n, i)]) }

\* The edge at a position of the list of the available ones, counted from 0.
AtPosition(S, p) == {i \in S : Cardinality({j \in S : j < i}) = p}

Load(n, i) == comp'[Target(n, i)].active

\* What the routing strategy of n may pick from several edges; nothing, when
\* it throws or n has none.
Selected(n, S) ==
    CASE Conf[n].strategy = "round_robin" -> AtPosition(S, position[n])
      [] Conf[n].strategy = "random" -> S
      [] Conf[n].strategy = "least_connections" ->
           {i \in S : \A j \in S : Load(n, i) < Load(n, j)
                                   \/ (Load(n, i) = Load(n, j) /\ i <= j)}
      [] Conf[n].strategy = "omitted" -> {}

\* Mutant: the position does not wrap around.
AdvancedUnwrapped(n, S) ==
    IF Conf[n].strategy = "round_robin" /\ Cardinality(S) > 1
    THEN [position EXCEPT ![n] = @ + 1]
    ELSE position

Advanced(n, S) ==
    IF Conf[n].strategy = "round_robin" /\ Cardinality(S) > 1
    THEN [position EXCEPT ![n] = (@ + 1) % Cardinality(S)]
    ELSE position

\* routeRequest: the request of e moves on from its node, after the events of
\* `before` have been scheduled.
Routes(e, before) ==
    LET n == e.node
        S == Open(n)
        picks == IF Cardinality(S) = 1 THEN S ELSE Selected(n, S)
    IN  \/ /\ S = {}
           /\ Proceed(e, Append(before,
                  At(e.at, IF Edges[n] = <<>> THEN "request.completed"
                                              ELSE "request.failed", n, e.req, 0)))
           /\ UNCHANGED position
        \/ \E i \in picks :
             /\ Proceed(e, Append(before,
                    At(e.at, "network.transmission_started", n, e.req, i)))
             /\ position' = Advanced(n, S)

\* No strategy, or a round-robin position beyond the edges available now.
Unroutable(n) ==
    /\ Cardinality(Open(n)) > 1
    /\ Conf[n].strategy \in {"round_robin", "omitted"}
    /\ Selected(n, Open(n)) = {}

Rest == <<req, comp, circuit, queue, cached>>

\* The handler of e does nothing but route its request.
JustRoutes(e) ==
    \/ Unroutable(e.node) /\ Throw(e)
    \/ UNCHANGED Rest /\ Routes(e, <<>>)

-----------------------------------------------------------------------------
(* The handlers of request events.  One that finds its request in a         *)
(* terminal status throws.                                                  *)

Created(e) ==
    /\ e.type = "request.created"
    /\ IF Over(e.req) THEN Throw(e) ELSE JustRoutes(e)

\* The transmission is lost (an attempt the destination pays for, retried
\* from the sender) or the request reaches the destination.
Transmission(e) ==
    LET edge == Edges[e.node][e.arg]
        to == edge.target
        attempts == req[e.req].attempts + 1
    IN  /\ e.type = "network.transmission_started"
        /\ \/ /\ FALSE \in edge.losses
              /\ Proceed(e, <<At(e.at + edge.latency + edge.transfer,
                                 "request.routed", to, e.req, 0)>>)
              /\ UNCHANGED model
           \/ /\ TRUE \in edge.losses
              /\ req' = [req EXCEPT ![e.req].attempts = attempts]
              /\ circuit' = [circuit EXCEPT ![to] = Failed(to, @)]
              /\ Proceed(e, Timer(e, to, circuit[to])
                            \o RetryOrFail(e, e.node, "request.reroute",
                                           attempts, e.at + edge.latency))
              /\ UNCHANGED <<comp, queue, position, cached>>

\* A lookup in a cache that has not failed.  An entry may have expired or
\* been evicted; finding it expired deletes it.
Lookup(e) ==
    LET n == e.node
        key == Conf[n].keys[e.req]
    IN  \/ /\ key \in cached[n]
           /\ Proceed(e, <<At(e.at + Conf[n].hitLatency, "cache.hit", n, e.req, 0)>>)
           /\ UNCHANGED cached
        \/ /\ Proceed(e, <<At(e.at + Conf[n].missLatency, "cache.miss", n, e.req, 0)>>)
           /\ cached' = [cached EXCEPT ![n] = @ \ {key}]

\* The circuit refuses the request.
Refused(e) ==
    /\ ~Admits(circuit[e.node], e.req)
    /\ Proceed(e, <<FailNow(e)>>)
    /\ UNCHANGED model

Admitted(e) ==
    /\ Admits(circuit[e.node], e.req)
    /\ circuit' = [circuit EXCEPT ![e.node] = Claimed(@, e.req)]

\* The request r fails at a node that has admitted e.req; a probe is released.
AdmittedThenFreed(e, r) ==
    /\ Admits(circuit[e.node], e.req)
    /\ circuit' = [circuit EXCEPT ![e.node] = Freed(Claimed(@, e.req), r)]

Arrives(e) ==
    LET n == e.node
    IN  \/ /\ Conf[n].kind = "cache" /\ comp[n].failed
           /\ AdmittedThenFreed(e, e.req)
           /\ Proceed(e, <<FailNow(e)>>)
           /\ UNCHANGED cached
        \/ /\ Conf[n].kind = "cache" /\ ~comp[n].failed
           /\ Admitted(e)
           /\ Lookup(e)
        \/ /\ Conf[n].kind # "cache"
           /\ Admitted(e)
           /\ Proceed(e, <<At(e.at, IF Conf[n].kind = "database"
                                    THEN "database.request"
                                    ELSE "request.processing_started", n, e.req, 0)>>)
           /\ UNCHANGED cached

Routed(e) ==
    /\ e.type = "request.routed"
    /\ IF Over(e.req)
       THEN Throw(e)
       ELSE \/ Refused(e)
            \/ /\ Arrives(e)
               /\ Becomes(e.req, "in-flight")
               /\ UNCHANGED <<comp, queue, position>>

CacheMiss(e) ==
    /\ e.type = "cache.miss"
    /\ req' = [req EXCEPT ![e.req].miss = TRUE]
    /\ Proceed(e, <<At(e.at, "request.processing_started", e.node, e.req, 0)>>)
    /\ UNCHANGED <<comp, circuit, queue, position, cached>>

CacheHit(e) ==
    /\ e.type = "cache.hit"
    /\ \/ /\ comp[e.node].failed
          /\ circuit' = [circuit EXCEPT ![e.node] = Freed(@, e.req)]
          /\ Proceed(e, <<FailNow(e)>>)
       \/ /\ ~comp[e.node].failed
          /\ circuit' = [circuit EXCEPT ![e.node] = AfterSuccess(@)]
          /\ Proceed(e, <<At(e.at, "request.completed", e.node, e.req, 0)>>)
    /\ UNCHANGED <<req, comp, queue, position, cached>>

CacheSet(e) ==
    /\ e.type = "cache.set"
    /\ cached' = [cached EXCEPT ![e.node] = @ \cup {Conf[e.node].keys[e.req]}]
    /\ Proceed(e, <<>>)
    /\ UNCHANGED <<req, comp, circuit, queue, position>>

DatabaseRequest(e) ==
    /\ e.type = "database.request"
    /\ Proceed(e, <<At(e.at, "request.processing_started", e.node, e.req, 0)>>)
    /\ UNCHANGED model

DatabaseResponse(e) == e.type = "database.response" /\ JustRoutes(e)

-----------------------------------------------------------------------------
(* Processing: capacity, queue and work.                                    *)

Slots(n) == comp[n].replicas * Conf[n].concurrency

\* Mutant: one request more than the slots.
HasCapacityOffByOne(n) == comp[n].active <= Slots(n)

HasCapacity(n) == comp[n].active < Slots(n)

\* Mutant: nothing wakes the queue.
DrainForgotten(e) == <<>>

\* Drained at the time of e when somebody waits.
Drain(e) ==
    IF queue[e.node] = <<>> THEN <<>>
    ELSE <<At(e.at, "queue.drain", e.node, NoRequest, 0)>>

Full(n) ==
    /\ Conf[n].queue = "enabled"
    /\ Conf[n].bounded
    /\ Len(queue[n]) >= Conf[n].maxSize

\* No place to wait: queueing is off, or the queue is full and nobody can be
\* dropped from it.
NoPlace(n) ==
    \/ Conf[n].queue = "disabled"
    \/ Full(n) /\ (Conf[n].overflow = "reject" \/ queue[n] = <<>>)

TurnedAway(e) ==
    /\ NoPlace(e.node)
    /\ AdmittedThenFreed(e, e.req)
    /\ Proceed(e, <<FailNow(e)>>)
    /\ UNCHANGED <<req, queue>>

\* Mutant: the dropped request is forgotten.
DisplacesSilently(e) ==
    LET n == e.node
    IN  /\ Full(n) /\ ~NoPlace(n)
        /\ AdmittedThenFreed(e, Head(queue[n]))
        /\ queue' = [queue EXCEPT ![n] = Append(Tail(@), e.req)]
        /\ Becomes(e.req, "queued")
        /\ Proceed(e, <<>>)

\* The oldest waiting request is dropped for the new one.
Displaces(e) ==
    LET n == e.node
        dropped == Head(queue[n])
    IN  /\ Full(n) /\ ~NoPlace(n)
        /\ AdmittedThenFreed(e, dropped)
        /\ queue' = [queue EXCEPT ![n] = Append(Tail(@), e.req)]
        /\ Becomes(e.req, "queued")
        /\ Proceed(e, <<At(e.at, "request.failed", n, dropped, 0)>>)

Waits(e) ==
    /\ ~Full(e.node) /\ ~NoPlace(e.node)
    /\ Admitted(e)
    /\ queue' = [queue EXCEPT ![e.node] = Append(@, e.req)]
    /\ Becomes(e.req, "queued")
    /\ Proceed(e, <<>>)

\* An attempt at processing: it fails at once, or occupies a slot.
Attempt(e) ==
    LET n == e.node
        attempts == req[e.req].attempts + 1
        c == Claimed(circuit[n], e.req)
    IN  /\ req' = [req EXCEPT ![e.req].status = "in-flight",
                              ![e.req].attempts = attempts]
        /\ \/ /\ TRUE \in Conf[n].errors
              /\ circuit' = [circuit EXCEPT ![n] = Failed(n, c)]
              /\ Proceed(e, Timer(e, n, c)
                            \o RetryOrFail(e, n, "request.retry", attempts, e.at))
              /\ UNCHANGED comp
           \/ /\ FALSE \in Conf[n].errors
              /\ circuit' = [circuit EXCEPT ![n] = AfterSuccess(c)]
              /\ comp' = [comp EXCEPT ![n].active = @ + 1]
              /\ Proceed(e, <<At(e.at + Conf[n].latency,
                                 "request.processing_completed", n, e.req, 0)>>)

ProcessingStarted(e) ==
    LET n == e.node
    IN  /\ e.type = "request.processing_started"
        /\ IF Over(e.req)
           THEN Throw(e)
           ELSE \/ Refused(e)
                \/ /\ comp[n].failed
                   /\ AdmittedThenFreed(e, e.req)
                   /\ Proceed(e, <<FailNow(e)>>)
                   /\ UNCHANGED <<req, comp, queue, position, cached>>
                \/ /\ ~comp[n].failed /\ ~HasCapacity(n)
                   /\ TurnedAway(e) \/ Displaces(e) \/ Waits(e)
                   /\ UNCHANGED <<comp, position, cached>>
                \/ /\ ~comp[n].failed /\ HasCapacity(n)
                   /\ Admits(circuit[n], e.req)
                   /\ Attempt(e)
                   /\ UNCHANGED <<queue, position, cached>>

\* The slot is freed and the queue woken; a request that missed a cache has
\* been served by it, any other moves on.
ProcessingCompleted(e) ==
    LET n == e.node
        served == req[e.req].miss /\ Conf[n].kind = "cache"
    IN  /\ e.type = "request.processing_completed"
        /\ IF Over(e.req) \/ Queued(e.req) \/ comp[n].active = 0
           THEN Throw(e)
           ELSE \/ /\ ~served /\ Conf[n].kind # "database" /\ Unroutable(n)
                   /\ Throw(e)
                \/ /\ comp' = [comp EXCEPT ![n].active = @ - 1]
                   /\ \/ /\ served
                         /\ Proceed(e, Drain(e) \o
                                <<At(e.at, "cache.set", n, e.req, 0),
                                  At(e.at, "request.completed", n, e.req, 0)>>)
                         /\ UNCHANGED position
                      \/ /\ ~served /\ Conf[n].kind = "database"
                         /\ Proceed(e, Append(Drain(e),
                                At(e.at, "database.response", n, e.req, 0)))
                         /\ UNCHANGED position
                      \/ /\ ~served /\ Conf[n].kind # "database"
                         /\ Routes(e, Drain(e))
                   /\ UNCHANGED <<req, circuit, queue, cached>>

Started(e, r) == At(e.at, "request.processing_started", e.node, r, 0)

\* As many waiting requests as there are free slots now; a failed component
\* keeps its queue.
QueueDrain(e) ==
    LET n == e.node
        free == Slots(n) - comp[n].active
        k == IF free < Len(queue[n]) THEN free ELSE Len(queue[n])
    IN  /\ e.type = "queue.drain"
        /\ \/ /\ comp[n].failed
              /\ Proceed(e, <<>>)
              /\ UNCHANGED queue
           \/ /\ ~comp[n].failed
              /\ queue' = [queue EXCEPT ![n] = SubSeq(@, k + 1, Len(@))]
              /\ Proceed(e, [i \in 1 .. k |-> Started(e, queue[n][i])])
        /\ UNCHANGED <<req, comp, circuit, position, cached>>

Completed(e) ==
    /\ e.type = "request.completed"
    /\ IF Over(e.req) \/ Queued(e.req)
       THEN Throw(e)
       ELSE /\ Becomes(e.req, "completed")
            /\ Proceed(e, <<>>)
            /\ UNCHANGED <<comp, circuit, queue, position, cached>>

RequestFailed(e) ==
    /\ e.type = "request.failed"
    /\ IF Over(e.req)
       THEN Throw(e)
       ELSE /\ Becomes(e.req, "failed")
            /\ Proceed(e, <<>>)
            /\ UNCHANGED <<comp, circuit, queue, position, cached>>

\* A processing retry starts where it failed; a lost packet is routed afresh.
Retry(e) ==
    /\ e.type = "request.retry"
    /\ IF Over(e.req)
       THEN Throw(e)
       ELSE /\ Proceed(e, <<Started(e, e.req)>>)
            /\ UNCHANGED model

Reroute(e) ==
    /\ e.type = "request.reroute"
    /\ IF Over(e.req) THEN Throw(e) ELSE JustRoutes(e)

-----------------------------------------------------------------------------
(* The handlers of component events.                                        *)

\* Mutant: a failure of a failed component begins a cycle as well.
ComponentFailedAgain(e) ==
    LET n == e.node
        cycle == IF Conf[n].recovers THEN comp[n].cycle + 1 ELSE comp[n].cycle
    IN  /\ e.type = "component.failed"
        /\ comp' = [comp EXCEPT ![n].failed = TRUE, ![n].cycle = cycle]
        /\ Proceed(e, IF Conf[n].recovers /\ ~comp[n].failed
                      THEN <<At(e.at + Conf[n].recovery, "component.recovery",
                                n, NoRequest, cycle)>>
                      ELSE <<>>)
        /\ UNCHANGED <<req, circuit, queue, position, cached>>

\* A failure of a component that has failed already is ignored; otherwise a
\* new recovery cycle begins.
ComponentFailed(e) ==
    LET n == e.node
        starts == ~comp[n].failed /\ Conf[n].recovers
        cycle == IF starts THEN comp[n].cycle + 1 ELSE comp[n].cycle
    IN  /\ e.type = "component.failed"
        /\ comp' = [comp EXCEPT ![n].failed = TRUE, ![n].cycle = cycle]
        /\ Proceed(e, IF starts
                      THEN <<At(e.at + Conf[n].recovery, "component.recovery",
                                n, NoRequest, cycle)>>
                      ELSE <<>>)
        /\ UNCHANGED <<req, circuit, queue, position, cached>>

\* A recovery of an earlier cycle is ignored.
Recovery(e) ==
    /\ e.type = "component.recovery"
    /\ Proceed(e, IF comp[e.node].failed /\ comp[e.node].cycle = e.arg
                  THEN <<At(e.at, "component.recovered", e.node, NoRequest, e.arg)>>
                  ELSE <<>>)
    /\ UNCHANGED model

Recovered(e) ==
    /\ e.type = "component.recovered"
    /\ comp' = [comp EXCEPT ![e.node].failed = FALSE]
    /\ Proceed(e, IF comp[e.node].failed THEN Drain(e) ELSE <<>>)
    /\ UNCHANGED <<req, circuit, queue, position, cached>>

HalfOpen(e) ==
    /\ e.type = "component.circuit_half_open"
    /\ circuit' = [circuit EXCEPT ![e.node] = HalfOpened(@, e.arg)]
    /\ Proceed(e, <<>>)
    /\ UNCHANGED <<req, comp, queue, position, cached>>

-----------------------------------------------------------------------------
(* Autoscaling.                                                             *)

Clamp(k, lo, hi) == IF k < lo THEN lo ELSE IF k > hi THEN hi ELSE k

\* AUTOSCALING_DEADBAND_PERCENT
Deadband == 10

\* The replicas the controller wants for n: one more above the band around
\* the target, one less below it.  Utilization is compared without dividing.
Wanted(n) ==
    LET busy == comp[n].active * 100
        step == IF busy > (Conf[n].targetCpu + Deadband) * Slots(n) THEN 1
                ELSE IF busy < (Conf[n].targetCpu - Deadband) * Slots(n) THEN -1
                ELSE 0
    IN  Clamp(comp[n].replicas + step, Conf[n].min, Conf[n].max)

\* A scale-down below the requests being processed is deferred.
Scales(n) ==
    /\ ~comp[n].failed
    /\ Wanted(n) # comp[n].replicas
    /\ Wanted(n) < comp[n].replicas
         => Wanted(n) * Conf[n].concurrency >= comp[n].active

Evaluate(e) ==
    LET scaled == IF Scales(e.node)
                  THEN <<At(e.at, "component.scaled", e.node, NoRequest, Wanted(e.node))>>
                  ELSE <<>>
        next == IF e.at + EvalInterval < Duration
                THEN <<At(e.at + EvalInterval, "autoscaling.evaluate",
                          e.node, NoRequest, 0)>>
                ELSE <<>>
    IN  /\ e.type = "autoscaling.evaluate"
        /\ Proceed(e, scaled \o next)
        /\ UNCHANGED model

Scaled(e) ==
    LET n == e.node
    IN  /\ e.type = "component.scaled"
        /\ \/ /\ comp[n].failed
              /\ Proceed(e, <<>>)
              /\ UNCHANGED model
           \/ /\ ~comp[n].failed
              /\ e.arg * Conf[n].concurrency < comp[n].active
              /\ Throw(e)
           \/ /\ ~comp[n].failed
              /\ e.arg * Conf[n].concurrency >= comp[n].active
              /\ comp' = [comp EXCEPT ![n].replicas = e.arg]
              /\ Proceed(e, IF e.arg > comp[n].replicas THEN Drain(e) ELSE <<>>)
              /\ UNCHANGED <<req, circuit, queue, position, cached>>

-----------------------------------------------------------------------------
(* A run.                                                                   *)

\* prepare(): the load, the failures, the first autoscaling evaluations.
Prepared ==
    [r \in DOMAIN Arrivals |-> At(Arrivals[r], "request.created", Source, r, 0)]
    \o [i \in DOMAIN Failures |->
          At(Failures[i].at, "component.failed", Failures[i].node, NoRequest, 0)]
    \o IF Duration <= EvalInterval THEN <<>>
       ELSE [i \in DOMAIN Autoscaled |->
               At(EvalInterval, "autoscaling.evaluate", Autoscaled[i], NoRequest, 0)]

Init ==
    /\ now = 0
    /\ events = Stamped(Prepared, 0)
    /\ nextSeq = Len(Prepared)
    /\ status = IF Eligible(events) = {} THEN "completed" ELSE "running"
    /\ req = [r \in Requests |-> [status |-> "pending", attempts |-> 0, miss |-> FALSE]]
    /\ comp = [n \in Nodes |-> [failed |-> FALSE, active |-> 0,
                                replicas |-> Conf[n].replicas, cycle |-> 0]]
    /\ circuit = [n \in Nodes |-> Closed]
    /\ queue = [n \in Nodes |-> <<>>]
    /\ position = [n \in Nodes |-> 0]
    /\ cached = [n \in Nodes |-> {}]

Handle(e) ==
    \/ Created(e)
    \/ Transmission(e)
    \/ Routed(e)
    \/ CacheMiss(e)
    \/ CacheHit(e)
    \/ CacheSet(e)
    \/ DatabaseRequest(e)
    \/ DatabaseResponse(e)
    \/ ProcessingStarted(e)
    \/ ProcessingCompleted(e)
    \/ QueueDrain(e)
    \/ Completed(e)
    \/ RequestFailed(e)
    \/ Retry(e)
    \/ Reroute(e)
    \/ ComponentFailed(e)
    \/ Recovery(e)
    \/ Recovered(e)
    \/ HalfOpen(e)
    \/ Evaluate(e)
    \/ Scaled(e)

\* step()
Next ==
    /\ status = "running"
    /\ \E e \in events : IsNext(e) /\ Handle(e)

Spec == Init /\ [][Next]_vars

\* The drive loop keeps calling step() (ExecutionManager.tla says when not).
FairSpec == Spec /\ WF_vars(Next)

-----------------------------------------------------------------------------
(* Properties.  A failed run is disposed of, so they speak of the others.   *)

Continuations(r) == {e \in events : e.type \in RequestEvent /\ e.req = r}

WaitsAt(r, n) == \E i \in DOMAIN queue[n] : queue[n][i] = r

\* Every request that is not over is in exactly one place, a future event or
\* a place in one queue, and a request that is over is nowhere: no handler
\* loses a request, duplicates it, or lets it live on after its end.
OneContinuation ==
    status # "failed" =>
        /\ \A r \in Requests :
              LET places == Cardinality(Continuations(r))
                            + Cardinality({n \in Nodes : WaitsAt(r, n)})
              IN  places = IF Over(r) THEN 0 ELSE 1
        /\ \A n \in Nodes : \A i, j \in DOMAIN queue[n] :
              queue[n][i] = queue[n][j] => i = j

\* The active requests of a component are the ones whose completion is
\* scheduled there, and never more than its slots: none is leaked by a
\* failure, a retry, a drain or a change of replicas.
ActiveMatchesWork ==
    status # "failed" =>
        \A n \in Nodes :
            /\ comp[n].active =
                 Cardinality({e \in events : /\ e.type = "request.processing_completed"
                                             /\ e.node = n})
            /\ comp[n].active <= Slots(n)

\* No handler finds the state it refuses to work on, on an architecture that
\* configures a strategy wherever one is needed, has at most two edges to
\* choose from in a round robin, and does not scale down; and none schedules an
\* event for a time that is over, at which the clock would refuse to turn back.
NoHandlerThrows == status # "failed" /\ \A e \in events : e.at >= now

\* The probe of a half-open circuit is a request on its way through that very
\* component, so the circuit hears of its end: a circuit never waits for a
\* request that went elsewhere or is over.
ProbeIsLive ==
    status # "failed" =>
        \A n \in Nodes :
            LET r == circuit[n].probe
            IN  circuit[n].state = "half-open" /\ r # NoRequest
                => \/ WaitsAt(r, n)
                   \/ \E e \in Continuations(r) : e.node = n

\* Whatever is down has exactly one timer that ends it.  An open circuit has one
\* of its current generation and another circuit none, so it neither stays open
\* for ever nor is half-opened by the timer of another open period; a failed
\* component that recovers has one recovery of its current cycle on the way,
\* however its failures overlap.
TimersMatch ==
    \A n \in Nodes :
        LET Timers(types, arg) == {e \in events : e.type \in types /\ e.node = n /\ e.arg = arg}
        IN  /\ Cardinality(Timers({"component.circuit_half_open"}, circuit[n].generation))
                  = IF circuit[n].state = "open" THEN 1 ELSE 0
            /\ comp[n].failed /\ Conf[n].recovers
               => Cardinality(Timers({"component.recovery", "component.recovered"},
                                     comp[n].cycle)) = 1

\* Whoever waits at a component that works will be woken: a completion, a
\* drain or a start is scheduled there.  It holds without processing errors
\* and circuit breakers; WaitersAreWoken below says what happens with them.
NoStrandedQueue ==
    status # "failed" =>
        \A n \in Nodes :
            queue[n] # <<>> /\ ~comp[n].failed
            => \E e \in events :
                  /\ e.node = n
                  /\ e.type \in {"request.processing_started",
                                "request.processing_completed", "queue.drain"}

\* A run reaches its end: simulated time advances past the duration or the
\* events run out.
RunEnds == <>(status # "running")

-----------------------------------------------------------------------------
(* What documents and comments of the code say, and the code does not do.   *)

\* "Wrap around to the first edge after reaching the end of the list"
\* (round-robin-strategy.ts): the position is one of the list's.
RoundRobinWraps ==
    \A e \in events :
        LET n == e.node
            S == Open(n)
        IN  /\ status = "running" /\ IsNext(e)
            /\ e.type \in {"request.created", "request.reroute", "database.response"}
            /\ Conf[n].strategy = "round_robin" /\ Cardinality(S) > 1
            => AtPosition(S, position[n]) # {}

\* "Autoscaling already defers such a scale-down" (simulation-runtime.ts): the
\* scaling that is applied leaves room for the active requests.
ScaleDownIsDeferred ==
    \A e \in events :
        /\ status = "running" /\ IsNext(e)
        /\ e.type = "component.scaled" /\ ~comp[e.node].failed
        => e.arg * Conf[e.node].concurrency >= comp[e.node].active

\* "recovery reschedules the drain so a non-empty queue is never stranded once
\* the component is healthy again" (ARCHITECTURE.md).
WaitersAreWoken == NoStrandedQueue

=============================================================================
