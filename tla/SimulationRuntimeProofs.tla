----------------------- MODULE SimulationRuntimeProofs -----------------------
(***************************************************************************)
(* Theorems about the engine of a run, for every architecture, load and    *)
(* configuration.  The first part says what each handler does: the events  *)
(* it schedules, and its effect on the timers, the slots and the places of *)
(* the requests; the second finds in these effects the invariants the      *)
(* properties rest on.                                                     *)
(***************************************************************************)
EXTENDS SimulationRuntime, FiniteSetTheorems, TLAPS

-----------------------------------------------------------------------------
(* What a handler may schedule.                                             *)

\* Node n is autoscaled.
Autoscales(n) == \E i \in DOMAIN Autoscaled : Autoscaled[i] = n

\* A number of replicas between the bounds of the autoscaling of n.
Allowed(k, n) == k # 0 /\ k >= Conf[n].min /\ k <= Conf[n].max

\* An event carries what its handler reads: the request it is about, an edge
\* of its node, a number of replicas that an autoscaled node may have.
Sound(f) ==
    /\ f.type \in RequestEvent \cup {"cache.set"} => f.req \in Requests
    /\ f.type = "network.transmission_started" => f.arg \in DOMAIN Edges[f.node]
    /\ f.type \in {"component.scaled", "autoscaling.evaluate"} => Autoscales(f.node)
    /\ f.type = "component.scaled" => Allowed(f.arg, f.node)

\* The events of some types that the handler of e may schedule.
Due(e, types) == {f \in Event : f.type \in types /\ Sound(f) /\ f.at >= e.at}

\* A time not before the one of e.
Later(e, t) == t \in Nat /\ t >= e.at

\* The type invariant, with what the fields of an event carry; the events are
\* numbered.
BasicInv ==
    /\ TypeOK
    /\ \A f \in events : Sound(f) /\ f.seq <= nextSeq

\* Delays lead to later times.
LEMMA LaterTimes ==
    ASSUME NEW e, e.at \in Nat
    PROVE  /\ Later(e, e.at)
           /\ \A t, d : Later(e, t) /\ d \in Nat => Later(e, t + d)
  BY DEF Later

\* An event made of parts of the right types is one; the two kinds of events
\* are disjoint.
LEMMA EventTypes ==
    /\ RequestEvent \cap NodeEvent = {}
    /\ \A t, type, n, r, a :
          /\ t \in Nat /\ type \in RequestEvent \cup NodeEvent /\ n \in Nodes
          /\ r \in Requests \cup {NoRequest} /\ a \in Nat
          => At(t, type, n, r, a) \in Event
  BY DEF RequestEvent, NodeEvent, At, Event

\* Numbering an event changes nothing else of it.
LEMMA StampedEvent ==
    ASSUME NEW x \in Event, NEW k \in Nat
    PROVE  /\ [x EXCEPT !.seq = k] \in Event
           /\ [x EXCEPT !.seq = k].at = x.at
           /\ [x EXCEPT !.seq = k].type = x.type
           /\ [x EXCEPT !.seq = k].node = x.node
           /\ [x EXCEPT !.seq = k].req = x.req
           /\ [x EXCEPT !.seq = k].arg = x.arg
           /\ [x EXCEPT !.seq = k].seq = k
           /\ Sound(x) <=> Sound([x EXCEPT !.seq = k])
  BY DEF Event, Sound

\* What becomes of the events when a handler returns.
LEMMA ProceedEffect ==
    ASSUME BasicInv, NEW e \in events, NEW types, NEW list \in Seq(Due(e, types)),
           Proceed(e, list)
    PROVE  /\ now' = e.at /\ now' \in Nat /\ nextSeq' \in Nat /\ nextSeq' >= nextSeq
           /\ status' \in {"running", "completed"}
           /\ events' \subseteq Event
           /\ \A f \in events' : Sound(f) /\ f.seq <= nextSeq'
           /\ \A f \in events' : f \in events \/ f.at >= e.at
           /\ \A f \in Event : f.type \notin types
                 => (f \in events' <=> f \in events /\ f # e)
           /\ \A f \in events' : (f \in events /\ f # e) \/ (f \notin events /\ f.type \in types)
           /\ \A f \in events : f # e => f \in events'
  <1>1. e \in Event /\ nextSeq \in Nat /\ events \subseteq Event
    BY DEF BasicInv, TypeOK
  <1>2. Len(list) \in Nat /\ DOMAIN list = 1 .. Len(list)
    OBVIOUS
  <1>3. \A i \in 1 .. Len(list) : list[i] \in Due(e, types)
    OBVIOUS
  <1> DEFINE stamped(i) == [list[i] EXCEPT !.seq = nextSeq + i]
  <1>4. \A i \in 1 .. Len(list) :
          /\ stamped(i) \in Event /\ Sound(stamped(i)) /\ stamped(i).at >= e.at
          /\ stamped(i).type \in types
          /\ stamped(i).seq > nextSeq /\ stamped(i).seq <= nextSeq + Len(list)
    <2> TAKE i \in 1 .. Len(list)
    <2>1. list[i] \in Due(e, types) /\ nextSeq + i \in Nat
      BY <1>1, <1>2, <1>3
    <2> QED BY <2>1, <1>1, <1>2, StampedEvent DEF Due
  <1> HIDE DEF stamped
  <1>5. events' = (events \ {e}) \cup {stamped(i) : i \in 1 .. Len(list)}
    BY <1>2 DEF Proceed, Stamped, stamped
  <1>6. now' = e.at /\ now' \in Nat /\ status' \in {"running", "completed"}
        /\ nextSeq' = nextSeq + Len(list)
    BY <1>1 DEF Proceed, Event
  <1>7. nextSeq' \in Nat /\ nextSeq' >= nextSeq
    BY <1>6, <1>1, <1>2
  <1>8. \A f \in events : Sound(f) /\ f.seq <= nextSeq /\ f.seq \in Nat
    BY <1>1 DEF BasicInv, Event
  <1>9. \A f \in events' : Sound(f) /\ f.seq <= nextSeq'
    BY <1>1, <1>2, <1>4, <1>5, <1>6, <1>8
  <1>10. \A f \in events' : (f \in events /\ f # e) \/ (f \notin events /\ f.type \in types)
    <2> TAKE f \in events'
    <2>1. CASE f \in events \ {e}
      BY <2>1
    <2>2. CASE \E i \in 1 .. Len(list) : f = stamped(i)
      <3> PICK i \in 1 .. Len(list) : f = stamped(i)
        BY <2>2
      <3>1. f.seq > nextSeq /\ f.type \in types /\ f.seq \in Nat
        BY <1>4, <1>1 DEF Event
      <3> QED BY <3>1, <1>8, <1>1
    <2> QED BY <2>1, <2>2, <1>5
  <1> QED BY <1>1, <1>4, <1>5, <1>6, <1>7, <1>9, <1>10

\* A handler that schedules one request event, its last.
LEMMA ProceedMoves ==
    ASSUME BasicInv, NEW e \in events,
           NEW before \in Seq(Due(e, NodeEvent)), NEW x \in Due(e, RequestEvent),
           NEW list, list = Append(before, x),
           Proceed(e, list)
    PROVE  \E f \in events' :
              /\ f \notin events
              /\ f.at = x.at /\ f.type = x.type /\ f.node = x.node
              /\ f.req = x.req /\ f.arg = x.arg
              /\ \A g \in Event : g.type \in RequestEvent
                    => (g \in events' <=> (g \in events /\ g # e) \/ g = f)
  <1>1. e \in Event /\ nextSeq \in Nat /\ events \subseteq Event
    BY DEF BasicInv, TypeOK
  <1>2. /\ Len(before) \in Nat /\ DOMAIN list = 1 .. Len(before) + 1
        /\ list[Len(before) + 1] = x
        /\ \A i \in 1 .. Len(before) : list[i] = before[i] /\ before[i] \in Due(e, NodeEvent)
    OBVIOUS
  <1> DEFINE f == [x EXCEPT !.seq = nextSeq + (Len(before) + 1)]
  <1>3. /\ f \in Event /\ f.seq = nextSeq + (Len(before) + 1)
        /\ f.at = x.at /\ f.type = x.type /\ f.node = x.node
        /\ f.req = x.req /\ f.arg = x.arg
    <2>1. nextSeq + (Len(before) + 1) \in Nat /\ x \in Event
      BY <1>1, <1>2 DEF Due
    <2> QED BY <2>1, StampedEvent
  <1>4. \A i \in 1 .. Len(before) :
           [list[i] EXCEPT !.seq = nextSeq + i].type \in NodeEvent
    BY <1>1, <1>2, StampedEvent DEF Due
  <1>5. events' = (events \ {e}) \cup Stamped(list, nextSeq)
    BY DEF Proceed
  <1>6. f \in Stamped(list, nextSeq)
    BY <1>2 DEF Stamped
  <1>7. \A g \in Stamped(list, nextSeq) : g = f \/ g.type \in NodeEvent
    <2> TAKE g \in Stamped(list, nextSeq)
    <2> PICK i \in 1 .. Len(before) + 1 : g = [list[i] EXCEPT !.seq = nextSeq + i]
      BY <1>2 DEF Stamped
    <2>1. CASE i = Len(before) + 1
      BY <2>1, <1>2
    <2>2. CASE i \in 1 .. Len(before)
      BY <2>2, <1>4
    <2> QED BY <2>1, <2>2, <1>2
  <1>8. f \notin events
    <2>1. \A g \in events : g.seq <= nextSeq /\ g.seq \in Nat
      BY <1>1 DEF BasicInv, Event
    <2>2. nextSeq + (Len(before) + 1) > nextSeq
      BY <1>1, <1>2
    <2>3. f.seq > nextSeq
      BY <2>2, <1>3
    <2> HIDE DEF f
    <2> QED BY <2>1, <2>3, <1>1
  <1> HIDE DEF f
  <1> QED BY <1>3, <1>5, <1>6, <1>7, <1>8, EventTypes
-----------------------------------------------------------------------------
(* The lists handlers schedule.                                             *)

\* Lists of due events are closed under the ways handlers build them.
LEMMA DueLists ==
    ASSUME NEW e, NEW A, NEW B, A \subseteq B
    PROVE  /\ Due(e, A) \subseteq Due(e, B)
           /\ Seq(Due(e, A)) \subseteq Seq(Due(e, B))
           /\ <<>> \in Seq(Due(e, A))
           /\ \A x \in Due(e, A) : <<x>> \in Seq(Due(e, A)) /\ <<x>> = Append(<<>>, x)
           /\ \A s \in Seq(Due(e, A)) : \A x \in Due(e, B) :
                 Append(s, x) \in Seq(Due(e, B)) /\ s \o <<x>> = Append(s, x)
  <1>1. Due(e, A) \subseteq Due(e, B)
    BY DEF Due
  <1> DEFINE DA == Due(e, A)  DB == Due(e, B)
  <1>2. DA \subseteq DB
    BY <1>1
  <1> HIDE DEF DA, DB
  <1>3. Seq(DA) \subseteq Seq(DB)
    BY <1>2
  <1>4. \A x \in DA : <<x>> \in Seq(DA) /\ <<x>> = Append(<<>>, x)
    OBVIOUS
  <1>5. \A s \in Seq(DA) : \A x \in DB : Append(s, x) \in Seq(DB) /\ s \o <<x>> = Append(s, x)
    BY <1>2, <1>3
  <1> QED BY <1>2, <1>3, <1>4, <1>5 DEF DA, DB

\* What wakes a queue is an event of now.
LEMMA DrainDue ==
    ASSUME BasicInv, NEW e \in events
    PROVE  Drain(e) \in Seq(Due(e, {"queue.drain"}))
  <1>1. e \in Event /\ e.at \in Nat /\ e.node \in Nodes
    BY DEF BasicInv, TypeOK, Event
  <1>2. At(e.at, "queue.drain", e.node, NoRequest, 0) \in Due(e, {"queue.drain"})
    BY <1>1, EventTypes DEF NodeEvent, At, Due, Sound, RequestEvent
  <1> QED BY <1>2, DueLists DEF Drain

\* The timer of a circuit is an event of a later time.
LEMMA TimerDue ==
    ASSUME RuntimeAssumption, BasicInv, NEW e \in events, NEW n \in Nodes, NEW c \in Circuit
    PROVE  Timer(e, n, c) \in Seq(Due(e, {"component.circuit_half_open"}))
  <1>1. e \in Event /\ e.at \in Nat /\ Conf[n].openFor \in Nat /\ c.generation \in Nat
    BY DEF BasicInv, TypeOK, Event, RuntimeAssumption, Config, Circuit
  <1> DEFINE x == At(e.at + Conf[n].openFor, "component.circuit_half_open", n,
                     NoRequest, c.generation + 1)
  <1>2. x \in Event
    <2>1. e.at + Conf[n].openFor \in Nat /\ c.generation + 1 \in Nat
      BY <1>1
    <2>2. "component.circuit_half_open" \in NodeEvent
      BY DEF NodeEvent
    <2> QED BY <2>1, <2>2, EventTypes
  <1>3. x \in Due(e, {"component.circuit_half_open"})
    BY <1>1, <1>2 DEF At, Due, Sound, RequestEvent
  <1> QED BY <1>3, DueLists DEF Timer

\* The event that continues the request of e.
LEMMA ContinuationDue ==
    ASSUME BasicInv, NEW e \in events, e.req \in Requests, NEW X \in SUBSET RequestEvent
    PROVE  \A t, type, n, a :
              /\ Later(e, t) /\ type \in X /\ n \in Nodes /\ a \in Nat
              /\ \/ type \notin {"network.transmission_started"}
                 \/ a \in DOMAIN Edges[n]
              => At(t, type, n, e.req, a) \in Due(e, X)
  <1> SUFFICES ASSUME NEW t \in Nat, NEW type \in X, NEW n \in Nodes, NEW a \in Nat,
                      t >= e.at,
                      type # "network.transmission_started" \/ a \in DOMAIN Edges[n]
               PROVE  At(t, type, n, e.req, a) \in Due(e, X)
    BY DEF Later
  <1>1. At(t, type, n, e.req, a) \in Event
    BY EventTypes
  <1> QED BY <1>1 DEF At, Due, Sound, NodeEvent, RequestEvent

\* The events at n that continue the request of e.
Continuing(e, types, n) == {x \in Due(e, types) : x.req = e.req /\ x.node = n}

\* A failed attempt continues its request by a retry or its end, at the node
\* that retries.
LEMMA RetryOrFailDue ==
    ASSUME RuntimeAssumption, BasicInv, NEW e \in events, e.req \in Requests,
           NEW X \in SUBSET (RequestEvent \ {"network.transmission_started"}),
           "request.failed" \in X
    PROVE  \A n, retry, attempts, t :
              n \in Nodes /\ Later(e, t) /\ retry \in X
              => RetryOrFail(e, n, retry, attempts, t)
                    \in {<<x>> : x \in Continuing(e, X, n)}
  <1> TAKE n, retry, attempts, t
  <1> HAVE n \in Nodes /\ Later(e, t) /\ retry \in X
  <1>1. RetryDelay \in Nat /\ e.at \in Nat /\ 0 \in Nat
    BY DEF RuntimeAssumption, BasicInv, TypeOK, Event
  <1> DEFINE later == t + RetryDelay
             x == At(later, retry, n, e.req, 0)
             y == At(t, "request.failed", n, e.req, 0)
  <1>2. Later(e, later)
    BY <1>1, LaterTimes
  <1>3. X \in SUBSET RequestEvent
    OBVIOUS
  <1> HIDE DEF later
  <1>4. x \in Due(e, X) /\ y \in Due(e, X)
    BY <1>1, <1>2, <1>3, ContinuationDue
  <1>5. x.req = e.req /\ x.node = n /\ y.req = e.req /\ y.node = n
    BY DEF At
  <1>6. RetryOrFail(e, n, retry, attempts, t) \in {<<x>>, <<y>>}
    BY DEF RetryOrFail, later
  <1> HIDE DEF x, y
  <1> QED BY <1>4, <1>5, <1>6 DEF Continuing

-----------------------------------------------------------------------------
(* What a step does to the parts the properties speak of.                   *)

\* The timers of circuits and components.
TimerEvents == {"component.circuit_half_open", "component.recovery", "component.recovered"}

\* Nothing the timers are about changes.
KeepsTimers ==
    /\ \A f \in Event : f.type \in TimerEvents => (f \in events' <=> f \in events)
    /\ \A n \in Nodes : /\ circuit'[n].generation = circuit[n].generation
                        /\ circuit'[n].state = "open" <=> circuit[n].state = "open"
                        /\ comp'[n].failed = comp[n].failed
                        /\ comp'[n].cycle = comp[n].cycle

\* Nothing the slots are about changes.
KeepsWork ==
    /\ \A f \in Event : f.type = "request.processing_completed"
                        => (f \in events' <=> f \in events)
    /\ \A n \in Nodes : /\ comp'[n].active = comp[n].active
                        /\ comp'[n].replicas = comp[n].replicas

\* The handler of e returns.
Returns(e) ==
    /\ BasicInv'
    /\ now' = e.at
    /\ status' # "failed"
    /\ \A f \in events' : f \in events \/ f.at >= e.at

\* No request ends, and none begins to wait.
NobodyEnds ==
    \A r \in Requests : (Over(r)' <=> Over(r)) /\ (Queued(r)' => Queued(r))

\* A request event of e's request takes the place of e; nothing waits elsewhere
\* or ends.
MovesTo(e, n, types) ==
    /\ e.type \in RequestEvent
    /\ \E f \in events' :
          /\ f \notin events
          /\ f.type \in types /\ f.req = e.req /\ f.node = n
          /\ \A g \in Event : g.type \in RequestEvent
                => (g \in events' <=> (g \in events /\ g # e) \/ g = f)
    /\ queue' = queue
    /\ NobodyEnds

\* A handler whose list is a continuation of e's request after node events.
LEMMA Moving ==
    ASSUME BasicInv, NEW e \in events, e.type \in RequestEvent,
           NEW B \in SUBSET NodeEvent, NEW before \in Seq(Due(e, B)),
           NEW X \in SUBSET RequestEvent, NEW x \in Due(e, X), x.req = e.req,
           Proceed(e, Append(before, x)),
           queue' = queue, NobodyEnds
    PROVE  /\ now' = e.at /\ now' \in Nat /\ nextSeq' \in Nat
           /\ status' \in {"running", "completed"}
           /\ events' \subseteq Event
           /\ \A f \in events' : Sound(f) /\ f.seq <= nextSeq'
           /\ \A f \in events' : f \in events \/ f.at >= e.at
           /\ \A f \in Event : f.type \notin B \cup X
                 => (f \in events' <=> f \in events /\ f # e)
           /\ \A f \in events : f # e => f \in events'
           /\ MovesTo(e, x.node, X)
  <1>1. /\ before \in Seq(Due(e, NodeEvent)) /\ x \in Due(e, RequestEvent)
        /\ before \in Seq(Due(e, B \cup X)) /\ x \in Due(e, B \cup X)
    BY DueLists
  <1>2. Append(before, x) \in Seq(Due(e, B \cup X))
    BY <1>1, DueLists
  <1>3. \E f \in events' :
           /\ f \notin events
           /\ f.at = x.at /\ f.type = x.type /\ f.node = x.node
           /\ f.req = x.req /\ f.arg = x.arg
           /\ \A g \in Event : g.type \in RequestEvent
                 => (g \in events' <=> (g \in events /\ g # e) \/ g = f)
    BY <1>1, ProceedMoves
  <1>4. MovesTo(e, x.node, X)
    BY <1>3 DEF MovesTo, Due
  <1> QED BY <1>2, <1>4, ProceedEffect

-----------------------------------------------------------------------------
(* Handlers that pass their request on and leave the rest alone.            *)

\* The runtime state is well typed.
ModelOK ==
    /\ req \in [Requests ->
                  [ status : {"pending", "in-flight", "queued", "completed", "failed"},
                    attempts : Nat, miss : BOOLEAN ]]
    /\ comp \in [Nodes -> [ failed : BOOLEAN, active : Nat,
                            replicas : Nat \ {0}, cycle : Nat ]]
    /\ circuit \in [Nodes -> Circuit]
    /\ queue \in [Nodes -> Seq(Requests)]
    /\ position \in [Nodes -> Nat]
    /\ cached \in [Nodes -> SUBSET Nat]

\* No circuit opens or half-opens.
SameCircuits ==
    \A n \in Nodes : /\ circuit'[n].generation = circuit[n].generation
                     /\ circuit'[n].state = "open" <=> circuit[n].state = "open"

\* A handler that only passes its request on touches no timer and no slot.
LEMMA CalmMove ==
    ASSUME BasicInv, NEW e \in events, e.type \in RequestEvent,
           e.type # "request.processing_completed",
           NEW before \in Seq(Due(e, {"queue.drain"})),
           NEW X \in SUBSET (RequestEvent \ {"request.processing_completed"}),
           NEW x \in Due(e, X), x.req = e.req,
           Proceed(e, Append(before, x)),
           ModelOK', SameCircuits, comp' = comp,
           queue' = queue, NobodyEnds
    PROVE  Returns(e) /\ MovesTo(e, x.node, X) /\ KeepsTimers /\ KeepsWork
  <1> DEFINE B == {"queue.drain"}
  <1>1. B \in SUBSET NodeEvent /\ X \in SUBSET RequestEvent
    BY DEF NodeEvent
  <1>2. /\ e.type \notin TimerEvents
        /\ \A t \in TimerEvents : t \notin B \cup X
        /\ "request.processing_completed" \notin B \cup X
    BY DEF TimerEvents, RequestEvent
  <1> HIDE DEF B
  <1>3. /\ now' = e.at /\ now' \in Nat /\ nextSeq' \in Nat
        /\ status' \in {"running", "completed"}
        /\ events' \subseteq Event
        /\ \A f \in events' : Sound(f) /\ f.seq <= nextSeq'
        /\ \A f \in events' : f \in events \/ f.at >= e.at
        /\ \A f \in Event : f.type \notin B \cup X
              => (f \in events' <=> f \in events /\ f # e)
        /\ MovesTo(e, x.node, X)
    BY <1>1, Moving DEF B
  <1>4. Returns(e)
    BY <1>3 DEF Returns, BasicInv, TypeOK, ModelOK, Sound
  <1>5. KeepsTimers
    BY <1>2, <1>3 DEF KeepsTimers, SameCircuits
  <1>6. KeepsWork
    BY <1>2, <1>3 DEF KeepsWork
  <1> QED BY <1>3, <1>4, <1>5, <1>6

\* Routing picks one of the node's edges, or ends the request.
LEMMA RouteEffect ==
    ASSUME RuntimeAssumption, BasicInv, NEW e \in events, e.req \in Requests,
           NEW before, Routes(e, before)
    PROVE  /\ \E x \in Due(e, {"network.transmission_started", "request.completed",
                               "request.failed"}) :
                 x.req = e.req /\ x.node = e.node /\ Proceed(e, Append(before, x))
           /\ position' \in [Nodes -> Nat]
  <1> DEFINE n == e.node
             X == {"network.transmission_started", "request.completed", "request.failed"}
             S == Open(n)
  <1>1. e.at \in Nat /\ n \in Nodes /\ position \in [Nodes -> Nat]
    BY DEF BasicInv, TypeOK, Event
  <1>2. S \subseteq 1 .. Len(Edges[n]) /\ Len(Edges[n]) \in Nat
        /\ DOMAIN Edges[n] = 1 .. Len(Edges[n])
    BY <1>1 DEF RuntimeAssumption, Open
  <1>3. Cardinality(S) \in Nat
    <2>1. IsFiniteSet(1 .. Len(Edges[n]))
      BY <1>2, FS_Interval
    <2>2. IsFiniteSet(S)
      BY <2>1, <1>2, FS_Subset
    <2> QED BY <2>2, FS_CardinalityType
  <1>4. X \in SUBSET RequestEvent
    BY DEF RequestEvent
  <1> HIDE DEF X
  <1>5. CASE S = {} /\ UNCHANGED position
             /\ Proceed(e, Append(before,
                  At(e.at, IF Edges[n] = <<>> THEN "request.completed"
                                              ELSE "request.failed", n, e.req, 0)))
    <2> DEFINE type == IF Edges[n] = <<>> THEN "request.completed" ELSE "request.failed"
               x == At(e.at, type, n, e.req, 0)
    <2>1. type \in X /\ type # "network.transmission_started"
      BY DEF X
    <2> HIDE DEF type
    <2>2. x \in Due(e, X)
      <3>1. Later(e, e.at) /\ 0 \in Nat
        BY <1>1, LaterTimes
      <3> HIDE DEF n
      <3> QED BY <2>1, <3>1, <1>1, <1>4, ContinuationDue
    <2>3. x.req = e.req /\ x.node = n
      BY DEF At
    <2> HIDE DEF x
    <2>4. Proceed(e, Append(before, x))
      BY <1>5 DEF x, type
    <2> QED BY <2>2, <2>3, <2>4, <1>1, <1>5 DEF X
  <1>6. ASSUME NEW i \in S,
               Proceed(e, Append(before, At(e.at, "network.transmission_started", n, e.req, i))),
               position' = Advanced(n, S)
        PROVE  /\ \E x \in Due(e, X) :
                     x.req = e.req /\ x.node = n /\ Proceed(e, Append(before, x))
               /\ position' \in [Nodes -> Nat]
    <2> DEFINE type == "network.transmission_started"
               x == At(e.at, type, n, e.req, i)
    <2>1. type \in X /\ i \in Nat /\ i \in DOMAIN Edges[n]
      BY <1>2 DEF X
    <2> HIDE DEF type
    <2>2. x \in Due(e, X)
      <3>1. Later(e, e.at) /\ 0 \in Nat
        BY <1>1, LaterTimes
      <3> HIDE DEF n
      <3> QED BY <2>1, <3>1, <1>1, <1>4, ContinuationDue
    <2>3. x.req = e.req /\ x.node = n
      BY DEF At
    <2> HIDE DEF x
    <2>4. Proceed(e, Append(before, x))
      BY <1>6 DEF x, type
    <2>5. position' \in [Nodes -> Nat]
      <3>1. CASE Cardinality(S) > 1
        <4>1. (position[n] + 1) % Cardinality(S) \in Nat
          BY <3>1, <1>1, <1>3
        <4> QED BY <4>1, <1>1, <1>6 DEF Advanced
      <3>2. CASE ~(Cardinality(S) > 1)
        BY <3>2, <1>1, <1>6 DEF Advanced
      <3> QED BY <3>1, <3>2
    <2> QED BY <2>2, <2>3, <2>4, <2>5
  <1>7. \A T \in SUBSET S : Selected(n, T) \subseteq T
    <2>1. Conf[n].strategy \in {"omitted", "round_robin", "random", "least_connections"}
      BY <1>1 DEF RuntimeAssumption, Config
    <2> QED BY <2>1 DEF Selected, AtPosition
  <1>8. \A i \in (IF Cardinality(S) = 1 THEN S ELSE Selected(n, S)) : i \in S
    BY <1>7
  <1> HIDE DEF S
  <1> QED BY <1>5, <1>6, <1>8 DEF Routes, S, X

\* The handlers that route.
LEMMA JustRoutesStep ==
    ASSUME RuntimeAssumption, BasicInv, NEW e \in events,
           e.type \in {"request.created", "request.reroute", "database.response"},
           JustRoutes(e), ~Throw(e)
    PROVE  /\ Returns(e) /\ KeepsTimers /\ KeepsWork
           /\ MovesTo(e, e.node, {"network.transmission_started", "request.completed",
                                  "request.failed"})
  <1>1. /\ e.type \in RequestEvent /\ e.type # "request.processing_completed"
        /\ e.req \in Requests
    BY DEF BasicInv, Sound, RequestEvent
  <1>2. UNCHANGED Rest /\ Routes(e, <<>>)
    BY DEF JustRoutes
  <1> DEFINE X == {"network.transmission_started", "request.completed", "request.failed"}
  <1>3. PICK x \in Due(e, X) :
           x.req = e.req /\ x.node = e.node /\ Proceed(e, Append(<<>>, x))
    BY <1>1, <1>2, RouteEffect
  <1>4. position' \in [Nodes -> Nat]
    BY <1>1, <1>2, RouteEffect
  <1>5. X \in SUBSET (RequestEvent \ {"request.processing_completed"})
    BY DEF RequestEvent
  <1>6. /\ ModelOK' /\ SameCircuits /\ comp' = comp /\ queue' = queue
        /\ NobodyEnds
    BY <1>2, <1>4 DEF ModelOK, BasicInv, TypeOK, Rest, SameCircuits, NobodyEnds, Over, Queued
  <1> HIDE DEF X
  <1>7. <<>> \in Seq(Due(e, {"queue.drain"}))
    BY DueLists
  <1>8. Returns(e) /\ MovesTo(e, x.node, X) /\ KeepsTimers /\ KeepsWork
    BY <1>1, <1>3, <1>5, <1>6, <1>7, CalmMove
  <1> QED BY <1>3, <1>8 DEF X

\* A handler that schedules one event, the continuation of its request.
LEMMA CalmSingle ==
    ASSUME BasicInv, NEW e \in events, e.type \in RequestEvent,
           e.type # "request.processing_completed",
           NEW X \in SUBSET (RequestEvent \ {"request.processing_completed",
                                             "network.transmission_started"}),
           NEW t, NEW type, NEW n,
           Later(e, t), type \in X, n \in Nodes,
           Proceed(e, <<At(t, type, n, e.req, 0)>>),
           ModelOK', SameCircuits, comp' = comp,
           queue' = queue, NobodyEnds
    PROVE  Returns(e) /\ MovesTo(e, n, X) /\ KeepsTimers /\ KeepsWork
  <1> DEFINE x == At(t, type, n, e.req, 0)
  <1>1. e.req \in Requests
    BY DEF BasicInv, Sound
  <1>2. /\ X \in SUBSET RequestEvent
        /\ X \in SUBSET (RequestEvent \ {"request.processing_completed"})
        /\ type # "network.transmission_started"
    OBVIOUS
  <1>3. x \in Due(e, X)
    BY <1>1, <1>2, ContinuationDue
  <1>4. x.req = e.req /\ x.node = n
    BY DEF At
  <1> HIDE DEF x
  <1>5. <<x>> = Append(<<>>, x) /\ <<>> \in Seq(Due(e, {"queue.drain"}))
    BY <1>3, DueLists
  <1>6. Proceed(e, Append(<<>>, x))
    BY <1>5 DEF x
  <1> QED BY <1>2, <1>3, <1>4, <1>5, <1>6, CalmMove

\* What the pure functions of a circuit keep.
LEMMA CircuitSteps ==
    ASSUME NEW c \in Circuit, NEW r \in Requests
    PROVE  /\ Claimed(c, r) \in Circuit /\ Claimed(c, r).state = c.state
           /\ Claimed(c, r).generation = c.generation
           /\ Claimed(c, r).failures = c.failures
           /\ Freed(c, r) \in Circuit /\ Freed(c, r).state = c.state
           /\ Freed(c, r).generation = c.generation
           /\ Freed(c, r).failures = c.failures
           /\ AfterSuccess(c) \in Circuit
           /\ AfterSuccess(c).state = "open" <=> c.state = "open"
           /\ AfterSuccess(c).generation = c.generation
  BY DEF Circuit, Claimed, Freed, AfterSuccess

\* Only the circuit of one node changes, and it neither opens nor half-opens.
LEMMA OneCircuit ==
    ASSUME BasicInv, NEW n \in Nodes, NEW c \in Circuit,
           c.generation = circuit[n].generation,
           c.state = "open" <=> circuit[n].state = "open",
           circuit' = [circuit EXCEPT ![n] = c]
    PROVE  circuit' \in [Nodes -> Circuit] /\ SameCircuits
  BY DEF BasicInv, TypeOK, SameCircuits

\* Becoming in flight or queued ends no request.
LEMMA BecomesLive ==
    ASSUME BasicInv, NEW r \in Requests, ~Over(r), NEW s \in {"in-flight", "queued"},
           Becomes(r, s)
    PROVE  /\ req' \in [Requests ->
                  [ status : {"pending", "in-flight", "queued", "completed", "failed"},
                    attempts : Nat, miss : BOOLEAN ]]
           /\ \A q \in Requests : Over(q)' <=> Over(q)
           /\ \A q \in Requests : Queued(q)' => Queued(q) \/ q = r
           /\ s = "in-flight" => NobodyEnds
  BY DEF BasicInv, TypeOK, Becomes, NobodyEnds, Over, Queued

\* A request that a circuit refuses fails.
LEMMA RefusedStep ==
    ASSUME BasicInv, NEW e \in events,
           e.type \in {"request.routed", "request.processing_started"}, Refused(e)
    PROVE  Returns(e) /\ KeepsTimers /\ KeepsWork /\ MovesTo(e, e.node, {"request.failed"})
  <1> DEFINE X == {"request.failed"}
  <1>1. /\ e.type \in RequestEvent /\ e.type # "request.processing_completed"
        /\ X \in SUBSET (RequestEvent \ {"request.processing_completed",
                                         "network.transmission_started"})
        /\ "request.failed" \in X
    BY DEF RequestEvent
  <1>2. e.at \in Nat /\ Later(e, e.at) /\ e.node \in Nodes
    BY LaterTimes DEF BasicInv, TypeOK, Event
  <1>3. /\ ModelOK' /\ SameCircuits /\ comp' = comp /\ queue' = queue
        /\ NobodyEnds
    BY DEF Refused, model, ModelOK, BasicInv, TypeOK, SameCircuits, NobodyEnds, Over, Queued
  <1>4. Proceed(e, <<At(e.at, "request.failed", e.node, e.req, 0)>>)
    BY DEF Refused, FailNow
  <1> HIDE DEF X
  <1>5. Returns(e) /\ MovesTo(e, e.node, X) /\ KeepsTimers /\ KeepsWork
    BY <1>1, <1>2, <1>3, <1>4, CalmSingle
  <1> QED BY <1>5 DEF X

\* The handler of cache.miss.
LEMMA CacheMissStep ==
    ASSUME BasicInv, NEW e \in events, CacheMiss(e)
    PROVE  /\ Returns(e) /\ KeepsTimers /\ KeepsWork
           /\ MovesTo(e, e.node, {"request.processing_started"})
  <1> DEFINE X == {"request.processing_started"}
  <1>1. /\ e.type \in RequestEvent /\ e.type # "request.processing_completed"
        /\ X \in SUBSET (RequestEvent \ {"request.processing_completed",
                                         "network.transmission_started"})
        /\ "request.processing_started" \in X
    BY DEF RequestEvent, CacheMiss
  <1>2. e.at \in Nat /\ Later(e, e.at) /\ e.node \in Nodes /\ e.req \in Requests
    BY <1>1, LaterTimes DEF BasicInv, TypeOK, Event, Sound
  <1>3. /\ ModelOK' /\ SameCircuits /\ comp' = comp /\ queue' = queue
        /\ NobodyEnds
    BY <1>2 DEF CacheMiss, ModelOK, BasicInv, TypeOK, SameCircuits, NobodyEnds, Over, Queued
  <1>4. Proceed(e, <<At(e.at, "request.processing_started", e.node, e.req, 0)>>)
    BY DEF CacheMiss
  <1> HIDE DEF X
  <1>5. Returns(e) /\ MovesTo(e, e.node, X) /\ KeepsTimers /\ KeepsWork
    BY <1>1, <1>2, <1>3, <1>4, CalmSingle
  <1> QED BY <1>5 DEF X

\* The handler of database.request.
LEMMA DatabaseRequestStep ==
    ASSUME BasicInv, NEW e \in events, DatabaseRequest(e)
    PROVE  /\ Returns(e) /\ KeepsTimers /\ KeepsWork
           /\ MovesTo(e, e.node, {"request.processing_started"})
  <1> DEFINE X == {"request.processing_started"}
  <1>1. /\ e.type \in RequestEvent /\ e.type # "request.processing_completed"
        /\ X \in SUBSET (RequestEvent \ {"request.processing_completed",
                                         "network.transmission_started"})
        /\ "request.processing_started" \in X
    BY DEF RequestEvent, DatabaseRequest
  <1>2. e.at \in Nat /\ Later(e, e.at) /\ e.node \in Nodes
    BY LaterTimes DEF BasicInv, TypeOK, Event
  <1>3. /\ ModelOK' /\ SameCircuits /\ comp' = comp /\ queue' = queue
        /\ NobodyEnds
    BY DEF DatabaseRequest, model, ModelOK, BasicInv, TypeOK, SameCircuits, NobodyEnds,
           Over, Queued
  <1>4. Proceed(e, <<At(e.at, "request.processing_started", e.node, e.req, 0)>>)
    BY DEF DatabaseRequest
  <1> HIDE DEF X
  <1>5. Returns(e) /\ MovesTo(e, e.node, X) /\ KeepsTimers /\ KeepsWork
    BY <1>1, <1>2, <1>3, <1>4, CalmSingle
  <1> QED BY <1>5 DEF X

\* The handler of request.retry.
LEMMA RetryStep ==
    ASSUME BasicInv, NEW e \in events, Retry(e), ~Throw(e)
    PROVE  /\ Returns(e) /\ KeepsTimers /\ KeepsWork
           /\ MovesTo(e, e.node, {"request.processing_started"})
  <1> DEFINE X == {"request.processing_started"}
  <1>1. /\ e.type \in RequestEvent /\ e.type # "request.processing_completed"
        /\ X \in SUBSET (RequestEvent \ {"request.processing_completed",
                                         "network.transmission_started"})
        /\ "request.processing_started" \in X
    BY DEF RequestEvent, Retry
  <1>2. e.at \in Nat /\ Later(e, e.at) /\ e.node \in Nodes
    BY LaterTimes DEF BasicInv, TypeOK, Event
  <1>3. /\ ModelOK' /\ SameCircuits /\ comp' = comp /\ queue' = queue
        /\ NobodyEnds
    BY DEF Retry, model, ModelOK, BasicInv, TypeOK, SameCircuits, NobodyEnds, Over, Queued
  <1>4. Proceed(e, <<At(e.at, "request.processing_started", e.node, e.req, 0)>>)
    BY DEF Retry, Started
  <1> HIDE DEF X
  <1>5. Returns(e) /\ MovesTo(e, e.node, X) /\ KeepsTimers /\ KeepsWork
    BY <1>1, <1>2, <1>3, <1>4, CalmSingle
  <1> QED BY <1>5 DEF X

\* The handler of cache.hit.
LEMMA CacheHitStep ==
    ASSUME BasicInv, NEW e \in events, CacheHit(e)
    PROVE  /\ Returns(e) /\ KeepsTimers /\ KeepsWork
           /\ MovesTo(e, e.node, {"request.failed", "request.completed"})
  <1> DEFINE X == {"request.failed", "request.completed"}
  <1>1. /\ e.type \in RequestEvent /\ e.type # "request.processing_completed"
        /\ X \in SUBSET (RequestEvent \ {"request.processing_completed",
                                         "network.transmission_started"})
        /\ "request.failed" \in X /\ "request.completed" \in X
    BY DEF RequestEvent, CacheHit
  <1>2. e.at \in Nat /\ Later(e, e.at) /\ e.node \in Nodes /\ e.req \in Requests
        /\ circuit[e.node] \in Circuit
    BY <1>1, LaterTimes DEF BasicInv, TypeOK, Event, Sound
  <1>3. PICK c \in Circuit :
           /\ c.generation = circuit[e.node].generation
           /\ c.state = "open" <=> circuit[e.node].state = "open"
           /\ circuit' = [circuit EXCEPT ![e.node] = c]
    <2> DEFINE old == circuit[e.node]
    <2>1. circuit' = [circuit EXCEPT ![e.node] = Freed(old, e.req)]
          \/ circuit' = [circuit EXCEPT ![e.node] = AfterSuccess(old)]
      BY DEF CacheHit
    <2> QED BY <2>1, <1>2, CircuitSteps
  <1>4. circuit' \in [Nodes -> Circuit] /\ SameCircuits
    BY <1>2, <1>3, OneCircuit
  <1>5. /\ ModelOK' /\ comp' = comp /\ queue' = queue
        /\ NobodyEnds
    BY <1>4 DEF CacheHit, ModelOK, BasicInv, TypeOK, NobodyEnds, Over, Queued
  <1>6. PICK type \in X : Proceed(e, <<At(e.at, type, e.node, e.req, 0)>>)
    BY <1>1 DEF CacheHit, FailNow
  <1> HIDE DEF X
  <1>7. Returns(e) /\ MovesTo(e, e.node, X) /\ KeepsTimers /\ KeepsWork
    BY <1>1, <1>2, <1>4, <1>5, <1>6, CalmSingle
  <1> QED BY <1>7 DEF X

\* What a request does that is admitted: it becomes the probe of a half-open
\* circuit, and perhaps gives the place back.
LEMMA AdmissionCircuits ==
    ASSUME BasicInv, NEW e \in events, e.req \in Requests, NEW r \in Requests,
           Admitted(e) \/ AdmittedThenFreed(e, r)
    PROVE  circuit' \in [Nodes -> Circuit] /\ SameCircuits
  <1> DEFINE n == e.node
  <1>1. n \in Nodes /\ circuit[n] \in Circuit
    BY DEF BasicInv, TypeOK, Event
  <1> DEFINE c == Claimed(circuit[n], e.req)
  <1>2. c \in Circuit /\ c.state = circuit[n].state /\ c.generation = circuit[n].generation
    BY <1>1, CircuitSteps
  <1> HIDE DEF c
  <1>3. /\ Freed(c, r) \in Circuit /\ Freed(c, r).state = c.state
        /\ Freed(c, r).generation = c.generation
    BY <1>2, CircuitSteps
  <1>4. circuit' = [circuit EXCEPT ![n] = c] \/ circuit' = [circuit EXCEPT ![n] = Freed(c, r)]
    BY DEF Admitted, AdmittedThenFreed, c
  <1> QED BY <1>1, <1>2, <1>3, <1>4, OneCircuit

\* Where an admitted request goes on: its lookup, its query, its processing.
Desk == {"request.processing_started", "database.request", "cache.hit", "cache.miss"}

\* The handler of request.routed.
LEMMA RoutedStep ==
    ASSUME RuntimeAssumption, BasicInv, NEW e \in events, Routed(e), ~Throw(e)
    PROVE  /\ Returns(e) /\ KeepsTimers /\ KeepsWork
           /\ MovesTo(e, e.node, Desk \cup {"request.failed"})
  <1> DEFINE X == Desk \cup {"request.failed"}
             n == e.node
  <1>1. /\ e.type \in RequestEvent /\ e.type # "request.processing_completed"
        /\ e.type = "request.routed" /\ ~Over(e.req)
        /\ X \in SUBSET (RequestEvent \ {"request.processing_completed",
                                         "network.transmission_started"})
    BY DEF RequestEvent, Routed, Desk
  <1>2. /\ e.at \in Nat /\ Later(e, e.at) /\ n \in Nodes /\ e.req \in Requests
        /\ Conf[n].hitLatency \in Nat /\ Conf[n].missLatency \in Nat
    <2>1. e.req \in Requests
      BY <1>1 DEF BasicInv, Sound
    <2> HIDE DEF X
    <2>2. e.at \in Nat /\ Later(e, e.at) /\ n \in Nodes
      BY LaterTimes DEF BasicInv, TypeOK, Event
    <2>3. Conf[n] \in Config
      BY <2>2 DEF RuntimeAssumption
    <2>4. Conf[n].hitLatency \in Nat /\ Conf[n].missLatency \in Nat
      BY <2>3 DEF Config
    <2> QED BY <2>1, <2>2, <2>4
  <1>3. CASE Refused(e)
    BY <1>1, <1>3, RefusedStep DEF MovesTo
  <1>4. CASE Arrives(e) /\ Becomes(e.req, "in-flight") /\ UNCHANGED <<comp, queue, position>>
    <2>1. circuit' \in [Nodes -> Circuit] /\ SameCircuits
      BY <1>2, <1>4, AdmissionCircuits DEF Arrives
    <2>2. cached' \in [Nodes -> SUBSET Nat]
      <3>1. cached \in [Nodes -> SUBSET Nat]
        BY DEF BasicInv, TypeOK
      <3> QED BY <3>1, <1>2, <1>4 DEF Arrives, Lookup
    <2>3. /\ ModelOK' /\ comp' = comp /\ queue' = queue
          /\ NobodyEnds
      <3>1. /\ req' \in [Requests ->
                  [ status : {"pending", "in-flight", "queued", "completed", "failed"},
                    attempts : Nat, miss : BOOLEAN ]]
            /\ NobodyEnds
        BY <1>1, <1>2, <1>4, BecomesLive
      <3> QED BY <3>1, <2>1, <2>2, <1>4 DEF ModelOK, BasicInv, TypeOK
    <2>4. PICK t : \E type \in X : Later(e, t) /\ Proceed(e, <<At(t, type, n, e.req, 0)>>)
      <3>1. /\ "request.failed" \in X /\ "cache.hit" \in X /\ "cache.miss" \in X
            /\ "database.request" \in X /\ "request.processing_started" \in X
        BY DEF Desk
      <3>2. Later(e, e.at + Conf[n].hitLatency) /\ Later(e, e.at + Conf[n].missLatency)
        BY <1>2, LaterTimes
      <3> HIDE DEF X
      <3>3. \/ Proceed(e, <<At(e.at, "request.failed", n, e.req, 0)>>)
            \/ Proceed(e, <<At(e.at + Conf[n].hitLatency, "cache.hit", n, e.req, 0)>>)
            \/ Proceed(e, <<At(e.at + Conf[n].missLatency, "cache.miss", n, e.req, 0)>>)
            \/ Proceed(e, <<At(e.at, "database.request", n, e.req, 0)>>)
            \/ Proceed(e, <<At(e.at, "request.processing_started", n, e.req, 0)>>)
        BY <1>4 DEF Arrives, Lookup, FailNow
      <3> QED BY <1>2, <3>1, <3>2, <3>3
    <2> HIDE DEF X
    <2>5. Returns(e) /\ MovesTo(e, n, X) /\ KeepsTimers /\ KeepsWork
      BY <1>1, <1>2, <2>1, <2>3, <2>4, CalmSingle
    <2> QED BY <2>5 DEF X
  <1> QED BY <1>1, <1>3, <1>4 DEF Routed

-----------------------------------------------------------------------------
(* Failed attempts: the circuit of a node counts one, and may open.         *)

\* The circuit of n, whose probe may just have been claimed, counts a failure;
\* when that opens it, its timer is the one new timer.
FailsAt(e, n) ==
    /\ comp' = comp
    /\ \E c \in Circuit :
          /\ c.state = circuit[n].state /\ c.generation = circuit[n].generation
          /\ c.failures = circuit[n].failures
          /\ circuit' = [circuit EXCEPT ![n] = Failed(n, c)]
    /\ IF Conf[n].breaker /\ Trips(circuit[n], Conf[n].threshold)
       THEN \E f \in events' :
               /\ f.type = "component.circuit_half_open" /\ f.node = n
               /\ f.arg = circuit[n].generation + 1
               /\ \A g \in Event : g.type \in TimerEvents
                     => (g \in events' <=> g \in events \/ g = f)
       ELSE \A g \in Event : g.type \in TimerEvents => (g \in events' <=> g \in events)

\* A failure that a circuit counts, and the continuation of the request after
\* it.
LEMMA FailingMove ==
    ASSUME RuntimeAssumption, BasicInv, NEW e \in events, e.type \in RequestEvent,
           e.type # "request.processing_completed",
           NEW n \in Nodes, NEW c \in Circuit,
           c.state = circuit[n].state, c.generation = circuit[n].generation,
           c.failures = circuit[n].failures,
           NEW X \in SUBSET (RequestEvent \ {"request.processing_completed"}),
           NEW x \in Due(e, X), x.req = e.req,
           Proceed(e, Timer(e, n, c) \o <<x>>),
           circuit' = [circuit EXCEPT ![n] = Failed(n, c)],
           req' \in [Requests ->
                  [ status : {"pending", "in-flight", "queued", "completed", "failed"},
                    attempts : Nat, miss : BOOLEAN ]],
           NobodyEnds, comp' = comp, queue' = queue, UNCHANGED <<position, cached>>
    PROVE  Returns(e) /\ KeepsWork /\ MovesTo(e, x.node, X) /\ FailsAt(e, n)
  <1> DEFINE B == {"component.circuit_half_open"}
             before == Timer(e, n, c)
  <1>1. B \in SUBSET NodeEvent /\ X \in SUBSET RequestEvent
    BY DEF NodeEvent
  <1>2. before \in Seq(Due(e, B))
    BY TimerDue
  <1>3. /\ e.type \notin TimerEvents
        /\ \A t \in X : t \notin TimerEvents
        /\ "request.processing_completed" \notin B \cup X
        /\ \A t \in TimerEvents : t \in B \/ t \notin B \cup X
    BY DEF TimerEvents, RequestEvent
  <1> HIDE DEF B, before
  <1>4. Proceed(e, Append(before, x))
    <2>1. B \subseteq B \cup X /\ x \in Due(e, B \cup X)
      BY DueLists
    <2>2. before \o <<x>> = Append(before, x)
      BY <1>2, <2>1, DueLists
    <2> QED BY <2>2 DEF before
  <1>5. /\ now' = e.at /\ now' \in Nat /\ nextSeq' \in Nat
        /\ status' \in {"running", "completed"}
        /\ events' \subseteq Event
        /\ \A f \in events' : Sound(f) /\ f.seq <= nextSeq'
        /\ \A f \in events' : f \in events \/ f.at >= e.at
        /\ \A f \in Event : f.type \notin B \cup X
              => (f \in events' <=> f \in events /\ f # e)
        /\ MovesTo(e, x.node, X)
    BY <1>1, <1>2, <1>4, Moving
  <1>6. Failed(n, c) \in Circuit
    <2>1. c.failures + 1 \in Nat /\ c.generation + 1 \in Nat
      BY DEF Circuit
    <2> QED BY <2>1 DEF Failed, AfterFailure, Circuit
  <1>7. ModelOK'
    BY <1>6 DEF ModelOK, BasicInv, TypeOK
  <1>8. Returns(e)
    BY <1>5, <1>7 DEF Returns, BasicInv, TypeOK, ModelOK, Sound
  <1>9. KeepsWork
    BY <1>3, <1>5 DEF KeepsWork
  <1>10. Trips(c, Conf[n].threshold) <=> Trips(circuit[n], Conf[n].threshold)
    BY DEF Trips
  <1>11. CASE Conf[n].breaker /\ Trips(c, Conf[n].threshold)
    <2> DEFINE y == At(e.at + Conf[n].openFor, "component.circuit_half_open", n,
                       NoRequest, c.generation + 1)
               f == [y EXCEPT !.seq = nextSeq + 1]
    <2>1. before = <<y>> /\ y \in Due(e, B)
      <3>1. before = <<y>>
        BY <1>11 DEF Timer, before
      <3> HIDE DEF y
      <3> QED BY <3>1, <1>2
    <2>2. y.type = "component.circuit_half_open" /\ y.node = n
          /\ y.arg = circuit[n].generation + 1
      BY DEF At
    <2> HIDE DEF y
    <2>3. nextSeq \in Nat /\ events \subseteq Event
      BY DEF BasicInv, TypeOK
    <2>4. /\ f \in Event /\ f.type = "component.circuit_half_open" /\ f.node = n
          /\ f.arg = circuit[n].generation + 1
      <3>1. nextSeq + 1 \in Nat /\ y \in Event
        BY <2>1, <2>3 DEF Due
      <3> QED BY <2>2, <3>1, StampedEvent
    <2> DEFINE list == Append(before, x)
    <2>5. events' = (events \ {e}) \cup Stamped(list, nextSeq)
      BY <1>4 DEF Proceed
    <2>6. Stamped(list, nextSeq) = {f, [x EXCEPT !.seq = nextSeq + 2]}
      <3>1. DOMAIN list = {1, 2} /\ list[1] = y /\ list[2] = x
        BY <2>1
      <3> HIDE DEF list
      <3> QED BY <3>1 DEF Stamped
    <2> HIDE DEF list
    <2>7. [x EXCEPT !.seq = nextSeq + 2].type \notin TimerEvents
      BY <1>3, <2>3, StampedEvent DEF Due
    <2> HIDE DEF f
    <2>8. \A g \in Event : g.type \in TimerEvents => (g \in events' <=> g \in events \/ g = f)
      BY <2>5, <2>6, <2>7, <1>3
    <2> QED BY <2>4, <2>5, <2>6, <2>8, <1>5, <1>8, <1>9, <1>10, <1>11 DEF FailsAt
  <1>12. CASE ~(Conf[n].breaker /\ Trips(c, Conf[n].threshold))
    <2>1. before = <<>>
      BY <1>12 DEF Timer, before
    <2>2. Append(before, x) = <<x>>
      BY <2>1
    <2>3. events' = (events \ {e}) \cup Stamped(<<x>>, nextSeq)
      BY <2>2, <1>4 DEF Proceed
    <2>4. Stamped(<<x>>, nextSeq) = {[x EXCEPT !.seq = nextSeq + 1]}
      BY DEF Stamped
    <2>5. [x EXCEPT !.seq = nextSeq + 1].type \notin TimerEvents
      <3>1. nextSeq + 1 \in Nat
        BY DEF BasicInv, TypeOK
      <3> QED BY <3>1, <1>3, StampedEvent DEF Due
    <2>6. \A g \in Event : g.type \in TimerEvents => (g \in events' <=> g \in events)
      BY <2>3, <2>4, <2>5, <1>3
    <2> QED BY <2>6, <1>5, <1>8, <1>9, <1>10, <1>12 DEF FailsAt
  <1> QED BY <1>11, <1>12

\* The type of the requests.
ReqType == [Requests ->
              [ status : {"pending", "in-flight", "queued", "completed", "failed"},
                attempts : Nat, miss : BOOLEAN ]]

\* The handler of network.transmission_started: the request arrives, or the
\* packet is lost.
LEMMA TransmissionStep ==
    ASSUME RuntimeAssumption, BasicInv, NEW e \in events, Transmission(e)
    PROVE  \E to \in Nodes :
              /\ Returns(e) /\ KeepsWork
              /\ \/ /\ KeepsTimers /\ req' = req
                    /\ MovesTo(e, to, {"request.routed"})
                 \/ /\ FailsAt(e, to)
                    /\ req' = [req EXCEPT ![e.req].attempts = req[e.req].attempts + 1]
                    /\ MovesTo(e, e.node, {"request.reroute", "request.failed"})
  <1> DEFINE edge == Edges[e.node][e.arg]
             to == edge.target
             attempts == req[e.req].attempts + 1
             X == {"request.reroute", "request.failed"}
             Y == {"request.routed"}
  <1>1. /\ e.type \in RequestEvent /\ e.type # "request.processing_completed"
        /\ X \in SUBSET (RequestEvent \ {"network.transmission_started"})
        /\ "request.failed" \in X /\ "request.reroute" \in X
        /\ e.type = "network.transmission_started"
        /\ X \in SUBSET (RequestEvent \ {"request.processing_completed"})
        /\ Y \in SUBSET (RequestEvent \ {"request.processing_completed",
                                         "network.transmission_started"})
        /\ "request.routed" \in Y
    BY DEF RequestEvent, Transmission
  <1>2. /\ e.at \in Nat /\ e.node \in Nodes /\ e.req \in Requests /\ e.arg \in DOMAIN Edges[e.node]
    <2>1. e.req \in Requests /\ e.arg \in DOMAIN Edges[e.node]
      BY <1>1 DEF BasicInv, Sound
    <2> QED BY <2>1 DEF BasicInv, TypeOK, Event
  <1>3. edge \in Edge
    BY <1>2 DEF RuntimeAssumption
  <1>4. to \in Nodes /\ edge.latency \in Nat /\ edge.transfer \in Nat
    BY <1>3 DEF Edge
  <1> HIDE DEF edge
  <1>5. CASE /\ Proceed(e, <<At(e.at + edge.latency + edge.transfer,
                                "request.routed", to, e.req, 0)>>)
             /\ UNCHANGED model
    <2> DEFINE t == e.at + edge.latency + edge.transfer
    <2>1. Later(e, t)
      BY <1>2, <1>4, LaterTimes
    <2>2. /\ ModelOK' /\ SameCircuits /\ comp' = comp /\ queue' = queue
          /\ NobodyEnds
      BY <1>5 DEF model, ModelOK, BasicInv, TypeOK, SameCircuits, NobodyEnds, Over, Queued
    <2>3. Proceed(e, <<At(t, "request.routed", to, e.req, 0)>>)
      BY <1>5
    <2> HIDE DEF Y, t, to
    <2>4. Returns(e) /\ MovesTo(e, to, Y) /\ KeepsTimers /\ KeepsWork
      BY <1>1, <1>4, <2>1, <2>2, <2>3, CalmSingle
    <2>5. req' = req
      BY <1>5 DEF model
    <2> QED BY <2>4, <2>5, <1>4 DEF Y
  <1>6. CASE /\ req' = [req EXCEPT ![e.req].attempts = attempts]
             /\ circuit' = [circuit EXCEPT ![to] = Failed(to, @)]
             /\ Proceed(e, Timer(e, to, circuit[to])
                           \o RetryOrFail(e, e.node, "request.reroute",
                                          attempts, e.at + edge.latency))
             /\ UNCHANGED <<comp, queue, position, cached>>
    <2>1. Later(e, e.at + edge.latency)
      BY <1>2, <1>4, LaterTimes
    <2>2. PICK x \in Due(e, X) :
             /\ RetryOrFail(e, e.node, "request.reroute", attempts, e.at + edge.latency) = <<x>>
             /\ x.req = e.req /\ x.node = e.node
      <3>1. RetryOrFail(e, e.node, "request.reroute", attempts, e.at + edge.latency)
               \in {<<x>> : x \in Continuing(e, X, e.node)}
        <4> HIDE DEF X
        <4> QED BY <1>1, <1>2, <2>1, RetryOrFailDue
      <3> QED BY <3>1 DEF Continuing
    <2>3. Proceed(e, Timer(e, to, circuit[to]) \o <<x>>)
      BY <1>6, <2>2
    <2>4. circuit \in [Nodes -> Circuit] /\ circuit[to] \in Circuit
          /\ circuit' = [circuit EXCEPT ![to] = Failed(to, circuit[to])]
      BY <1>4, <1>6 DEF BasicInv, TypeOK
    <2>5. req' \in ReqType /\ NobodyEnds
      <3> HIDE DEF X, Y, to
      <3>1. req \in ReqType
        BY DEF BasicInv, TypeOK, ReqType
      <3>2. attempts \in Nat
        BY <3>1, <1>2 DEF ReqType
      <3> HIDE DEF attempts
      <3> QED BY <3>1, <3>2, <1>2, <1>6 DEF NobodyEnds, Over, Queued, ReqType
    <2> HIDE DEF X, to
    <2>6. Returns(e) /\ KeepsWork /\ MovesTo(e, x.node, X) /\ FailsAt(e, to)
      BY <1>1, <1>4, <1>6, <2>2, <2>3, <2>4, <2>5, FailingMove DEF ReqType
    <2> QED BY <1>4, <1>6, <2>2, <2>6 DEF X, attempts
  <1> QED BY <1>5, <1>6 DEF Transmission, edge

-----------------------------------------------------------------------------
(* Processing.                                                              *)

\* The request of e waits at its node.
Joins(e) ==
    /\ e.type = "request.processing_started"
    /\ \A g \in Event : g.type \in RequestEvent => (g \in events' <=> g \in events /\ g # e)
    /\ queue' = [queue EXCEPT ![e.node] = Append(@, e.req)]
    /\ \A r \in Requests : Over(r)' <=> Over(r)
    /\ \A r \in Requests : Queued(r)' => Queued(r) \/ r = e.req

\* It waits there in the place of the oldest, which fails.
DisplacesOldest(e) ==
    /\ e.type = "request.processing_started"
    /\ queue[e.node] # <<>>
    /\ queue' = [queue EXCEPT ![e.node] = Append(Tail(@), e.req)]
    /\ \E f \in events' :
          /\ f \notin events
          /\ f.type = "request.failed" /\ f.req = Head(queue[e.node]) /\ f.node = e.node
          /\ \A g \in Event : g.type \in RequestEvent
                => (g \in events' <=> (g \in events /\ g # e) \/ g = f)
    /\ \A r \in Requests : Over(r)' <=> Over(r)
    /\ \A r \in Requests : Queued(r)' => Queued(r) \/ r = e.req

\* It occupies a slot.
Works(e) ==
    /\ e.type = "request.processing_started"
    /\ HasCapacity(e.node)
    /\ comp' = [comp EXCEPT ![e.node].active = @ + 1]
    /\ MovesTo(e, e.node, {"request.processing_completed"})

\* Processing that has no slot: the request waits,
LEMMA WaitsStep ==
    ASSUME BasicInv, NEW e \in events, e.type = "request.processing_started",
           ~Over(e.req), Waits(e), UNCHANGED <<comp, position, cached>>
    PROVE  Returns(e) /\ KeepsTimers /\ KeepsWork /\ Joins(e)
  <1>1. e.node \in Nodes /\ e.req \in Requests
    <2>1. e.req \in Requests
      BY DEF BasicInv, Sound, RequestEvent
    <2> QED BY <2>1 DEF BasicInv, TypeOK, Event
  <1>2. circuit' \in [Nodes -> Circuit] /\ SameCircuits
    BY <1>1, AdmissionCircuits DEF Waits
  <1>3. /\ req' \in ReqType
        /\ \A r \in Requests : Over(r)' <=> Over(r)
        /\ \A r \in Requests : Queued(r)' => Queued(r) \/ r = e.req
    BY <1>1, BecomesLive DEF Waits, ReqType
  <1>4. queue' \in [Nodes -> Seq(Requests)]
    <2>1. queue \in [Nodes -> Seq(Requests)] /\ queue[e.node] \in Seq(Requests)
      BY <1>1 DEF BasicInv, TypeOK
    <2>2. Append(queue[e.node], e.req) \in Seq(Requests)
      BY <1>1, <2>1
    <2> QED BY <2>1, <2>2 DEF Waits
  <1>5. ModelOK'
    BY <1>2, <1>3, <1>4 DEF ModelOK, ReqType, BasicInv, TypeOK
  <1>6. <<>> \in Seq(Due(e, {})) /\ Proceed(e, <<>>)
    BY DueLists DEF Waits
  <1>7. /\ now' = e.at /\ now' \in Nat /\ nextSeq' \in Nat
        /\ status' \in {"running", "completed"}
        /\ events' \subseteq Event
        /\ \A f \in events' : Sound(f) /\ f.seq <= nextSeq'
        /\ \A f \in events' : f \in events \/ f.at >= e.at
        /\ \A f \in Event : f \in events' <=> f \in events /\ f # e
    <2>1. \A f \in Event : f.type \notin {} => (f \in events' <=> f \in events /\ f # e)
      BY <1>6, ProceedEffect
    <2> QED BY <2>1, <1>6, ProceedEffect
  <1>8. Returns(e)
    BY <1>5, <1>7 DEF Returns, BasicInv, TypeOK, ModelOK, Sound
  <1>9. KeepsTimers
    BY <1>2, <1>7 DEF KeepsTimers, TimerEvents, SameCircuits
  <1>10. KeepsWork
    BY <1>7 DEF KeepsWork
  <1>11. Joins(e)
    BY <1>3, <1>7 DEF Joins, Waits
  <1> QED BY <1>8, <1>9, <1>10, <1>11

\* or waits in the place of the oldest one that does,
LEMMA DisplacesStep ==
    ASSUME BasicInv, NEW e \in events, e.type = "request.processing_started",
           ~Over(e.req), Displaces(e), UNCHANGED <<comp, position, cached>>
    PROVE  Returns(e) /\ KeepsTimers /\ KeepsWork /\ DisplacesOldest(e)
  <1> DEFINE n == e.node
             X == {"request.failed"}
             x == At(e.at, "request.failed", n, Head(queue[n]), 0)
  <1>1. n \in Nodes /\ e.req \in Requests /\ e.at \in Nat /\ Later(e, e.at)
    <2>1. e.req \in Requests
      BY DEF BasicInv, Sound, RequestEvent
    <2> QED BY <2>1, LaterTimes DEF BasicInv, TypeOK, Event
  <1>2. queue \in [Nodes -> Seq(Requests)] /\ queue[n] \in Seq(Requests) /\ queue[n] # <<>>
    BY <1>1 DEF BasicInv, TypeOK, Displaces, Full, NoPlace, Config
  <1>3. Head(queue[n]) \in Requests /\ Tail(queue[n]) \in Seq(Requests)
    BY <1>2
  <1>4. circuit' \in [Nodes -> Circuit] /\ SameCircuits
    BY <1>1, <1>3, AdmissionCircuits DEF Displaces
  <1>5. /\ req' \in ReqType
        /\ \A r \in Requests : Over(r)' <=> Over(r)
        /\ \A r \in Requests : Queued(r)' => Queued(r) \/ r = e.req
    BY <1>1, BecomesLive DEF Displaces, ReqType
  <1>6. queue' \in [Nodes -> Seq(Requests)]
    <2>1. Append(Tail(queue[n]), e.req) \in Seq(Requests)
      BY <1>1, <1>3
    <2> QED BY <1>2, <2>1 DEF Displaces
  <1>7. ModelOK'
    BY <1>4, <1>5, <1>6 DEF ModelOK, ReqType, BasicInv, TypeOK
  <1>8. x \in Due(e, X)
    <2>1. x \in Event
      BY <1>1, <1>3, EventTypes DEF RequestEvent
    <2> QED BY <2>1, <1>1, <1>3 DEF At, Due, Sound, RequestEvent
  <1>9. x.type = "request.failed" /\ x.req = Head(queue[n]) /\ x.node = n
    BY DEF At
  <1>10. Proceed(e, <<x>>)
    BY DEF Displaces
  <1>11. /\ X \subseteq RequestEvent /\ e.type \in RequestEvent
         /\ \A t \in X : t \notin TimerEvents
         /\ "request.processing_completed" \notin X
         /\ e.type \notin TimerEvents
    BY DEF RequestEvent, TimerEvents
  <1> HIDE DEF x, X
  <1>12. /\ <<x>> \in Seq(Due(e, X)) /\ <<x>> = Append(<<>>, x)
         /\ <<>> \in Seq(Due(e, NodeEvent)) /\ x \in Due(e, RequestEvent)
    BY <1>8, <1>11, DueLists
  <1>13. /\ now' = e.at /\ now' \in Nat /\ nextSeq' \in Nat
         /\ status' \in {"running", "completed"}
         /\ events' \subseteq Event
         /\ \A f \in events' : Sound(f) /\ f.seq <= nextSeq'
         /\ \A f \in events' : f \in events \/ f.at >= e.at
         /\ \A f \in Event : f.type \notin X
               => (f \in events' <=> f \in events /\ f # e)
    BY <1>10, <1>12, ProceedEffect
  <1>14. Returns(e)
    <2>1. TypeOK'
      BY <1>7, <1>13 DEF TypeOK, ModelOK
    <2> QED BY <2>1, <1>13 DEF Returns, BasicInv, Sound
  <1>15. KeepsTimers
    <2>1. \A f \in Event : f.type \in TimerEvents => (f \in events' <=> f \in events)
      BY <1>11, <1>13
    <2> QED BY <2>1, <1>4 DEF KeepsTimers, SameCircuits
  <1>16. KeepsWork
    BY <1>11, <1>13 DEF KeepsWork
  <1>17. DisplacesOldest(e)
    <2>1. \E f \in events' :
              /\ f \notin events
              /\ f.at = x.at /\ f.type = x.type /\ f.node = x.node
              /\ f.req = x.req /\ f.arg = x.arg
              /\ \A g \in Event : g.type \in RequestEvent
                    => (g \in events' <=> (g \in events /\ g # e) \/ g = f)
      BY <1>10, <1>12, ProceedMoves
    <2> QED BY <2>1, <1>2, <1>5, <1>9 DEF DisplacesOldest, Displaces
  <1> QED BY <1>14, <1>15, <1>16, <1>17

\* or fails.
LEMMA TurnedBackStep ==
    ASSUME RuntimeAssumption, BasicInv, NEW e \in events,
           e.type = "request.processing_started",
           AdmittedThenFreed(e, e.req), Proceed(e, <<FailNow(e)>>),
           UNCHANGED <<req, comp, queue, position, cached>>
    PROVE  Returns(e) /\ KeepsTimers /\ KeepsWork /\ MovesTo(e, e.node, {"request.failed"})
  <1> DEFINE X == {"request.failed"}
  <1>1. /\ e.type \in RequestEvent /\ e.type # "request.processing_completed"
        /\ X \in SUBSET (RequestEvent \ {"request.processing_completed",
                                         "network.transmission_started"})
        /\ "request.failed" \in X
    BY DEF RequestEvent
  <1>2. e.at \in Nat /\ Later(e, e.at) /\ e.node \in Nodes /\ e.req \in Requests
    BY <1>1, LaterTimes DEF BasicInv, TypeOK, Event, Sound
  <1>3. circuit' \in [Nodes -> Circuit] /\ SameCircuits
    BY <1>2, AdmissionCircuits
  <1>4. /\ ModelOK' /\ comp' = comp /\ queue' = queue
        /\ NobodyEnds
    BY <1>3 DEF ModelOK, BasicInv, TypeOK, NobodyEnds, Over, Queued
  <1>5. Proceed(e, <<At(e.at, "request.failed", e.node, e.req, 0)>>)
    BY DEF FailNow
  <1> HIDE DEF X
  <1>6. Returns(e) /\ MovesTo(e, e.node, X) /\ KeepsTimers /\ KeepsWork
    BY <1>1, <1>2, <1>3, <1>4, <1>5, CalmSingle
  <1> QED BY <1>6 DEF X

\* The record of a request that begins an attempt.
LEMMA AttemptReq ==
    ASSUME BasicInv, NEW r \in Requests, ~Over(r),
           req' = [req EXCEPT ![r].status = "in-flight",
                              ![r].attempts = req[r].attempts + 1]
    PROVE  req' \in ReqType /\ NobodyEnds
  <1>1. req \in ReqType
    BY DEF BasicInv, TypeOK, ReqType
  <1> DEFINE attempts == req[r].attempts + 1
             new == [req[r] EXCEPT !.status = "in-flight", !.attempts = attempts]
  <1>2. attempts \in Nat
    BY <1>1 DEF ReqType
  <1> HIDE DEF attempts
  <1>3. /\ new \in [ status : {"pending", "in-flight", "queued", "completed", "failed"},
                     attempts : Nat, miss : BOOLEAN ]
        /\ new.status = "in-flight"
    BY <1>1, <1>2 DEF ReqType
  <1>4. req' = [req EXCEPT ![r] = new]
    BY <1>1 DEF attempts, ReqType
  <1> HIDE DEF new
  <1> QED BY <1>1, <1>3, <1>4 DEF ReqType, NobodyEnds, Over, Queued

\* Processing that has a slot: it fails at once, or takes the slot.
LEMMA AttemptStep ==
    ASSUME RuntimeAssumption, BasicInv, NEW e \in events,
           e.type = "request.processing_started", ~Over(e.req),
           HasCapacity(e.node), Attempt(e), UNCHANGED <<queue, position, cached>>
    PROVE  /\ Returns(e)
           /\ \/ /\ KeepsWork /\ FailsAt(e, e.node)
                 /\ MovesTo(e, e.node, {"request.retry", "request.failed"})
              \/ KeepsTimers /\ Works(e)
  <1> DEFINE n == e.node
             attempts == req[e.req].attempts + 1
             c == Claimed(circuit[n], e.req)
             X == {"request.retry", "request.failed"}
             Y == {"request.processing_completed"}
  <1>1. /\ e.type \in RequestEvent /\ e.type # "request.processing_completed"
        /\ X \in SUBSET (RequestEvent \ {"request.processing_completed"})
        /\ X \in SUBSET (RequestEvent \ {"network.transmission_started"})
        /\ "request.retry" \in X /\ "request.failed" \in X
        /\ Y \in SUBSET RequestEvent /\ "request.processing_completed" \in Y
        /\ e.type \notin TimerEvents /\ \A t \in Y : t \notin TimerEvents
    BY DEF RequestEvent, TimerEvents
  <1>2. e.at \in Nat /\ Later(e, e.at) /\ n \in Nodes /\ e.req \in Requests
    BY <1>1, LaterTimes DEF BasicInv, TypeOK, Event, Sound
  <1>3. circuit \in [Nodes -> Circuit] /\ circuit[n] \in Circuit
    BY <1>2 DEF BasicInv, TypeOK
  <1>4. /\ c \in Circuit /\ c.state = circuit[n].state
        /\ c.generation = circuit[n].generation /\ c.failures = circuit[n].failures
    BY <1>2, <1>3, CircuitSteps
  <1>5. req' \in ReqType /\ NobodyEnds
    BY <1>2, AttemptReq DEF Attempt
  <1>6. CASE /\ circuit' = [circuit EXCEPT ![n] = Failed(n, c)]
             /\ Proceed(e, Timer(e, n, c) \o RetryOrFail(e, n, "request.retry", attempts, e.at))
             /\ UNCHANGED comp
    <2>1. RetryOrFail(e, n, "request.retry", attempts, e.at)
             \in {<<x>> : x \in Continuing(e, X, n)}
      <3> HIDE DEF X, n
      <3> QED BY <1>1, <1>2, RetryOrFailDue
    <2>2. PICK x \in Due(e, X) : /\ x.req = e.req /\ x.node = n
                                 /\ Proceed(e, Timer(e, n, c) \o <<x>>)
      BY <2>1, <1>6 DEF Continuing
    <2> HIDE DEF X, c, n
    <2>3. Returns(e) /\ KeepsWork /\ MovesTo(e, x.node, X) /\ FailsAt(e, n)
      BY <1>1, <1>2, <1>4, <1>5, <1>6, <2>2, FailingMove DEF ReqType
    <2> QED BY <2>2, <2>3 DEF X, n
  <1>7. CASE /\ circuit' = [circuit EXCEPT ![n] = AfterSuccess(c)]
             /\ comp' = [comp EXCEPT ![n].active = @ + 1]
             /\ Proceed(e, <<At(e.at + Conf[n].latency,
                                "request.processing_completed", n, e.req, 0)>>)
    <2>1. circuit' \in [Nodes -> Circuit] /\ SameCircuits
      <3>1. /\ AfterSuccess(c) \in Circuit /\ AfterSuccess(c).generation = circuit[n].generation
            /\ AfterSuccess(c).state = "open" <=> circuit[n].state = "open"
        BY <1>2, <1>4, CircuitSteps
      <3> QED BY <3>1, <1>2, <1>7, OneCircuit
    <2>2. comp' \in [Nodes -> [ failed : BOOLEAN, active : Nat,
                                replicas : Nat \ {0}, cycle : Nat ]]
          /\ \A m \in Nodes : comp'[m].failed = comp[m].failed /\ comp'[m].cycle = comp[m].cycle
      <3>1. comp \in [Nodes -> [ failed : BOOLEAN, active : Nat,
                                 replicas : Nat \ {0}, cycle : Nat ]]
        BY DEF BasicInv, TypeOK
      <3>2. comp[n].active + 1 \in Nat
        BY <3>1, <1>2
      <3> QED BY <3>1, <3>2, <1>2, <1>7
    <2>3. ModelOK'
      BY <1>5, <2>1, <2>2 DEF ModelOK, ReqType, BasicInv, TypeOK
    <2> DEFINE x == At(e.at + Conf[n].latency, "request.processing_completed", n, e.req, 0)
    <2>4. x \in Due(e, Y)
      <3>1. Conf[n].latency \in Nat
        <4>1. Conf[n] \in Config
          BY <1>2 DEF RuntimeAssumption
        <4> QED BY <4>1 DEF Config
      <3>2. Later(e, e.at + Conf[n].latency)
        BY <3>1, <1>2, LaterTimes
      <3> HIDE DEF n, Y
      <3> QED BY <3>2, <1>1, <1>2, ContinuationDue
    <2>5. x.req = e.req /\ x.node = n
      BY DEF At
    <2>6. Proceed(e, <<x>>)
      BY <1>7
    <2> HIDE DEF x, Y
    <2> DEFINE B == {"queue.drain"}
    <2>7. B \in SUBSET NodeEvent /\ \A t \in TimerEvents : t \notin B
      BY DEF NodeEvent, TimerEvents
    <2> HIDE DEF B
    <2>11. <<>> \in Seq(Due(e, B)) /\ <<x>> = Append(<<>>, x)
      BY <2>4, DueLists
    <2>12. Proceed(e, Append(<<>>, x)) /\ queue' = queue
      BY <2>6, <2>11
    <2>8. /\ now' = e.at /\ now' \in Nat /\ nextSeq' \in Nat
          /\ status' \in {"running", "completed"}
          /\ events' \subseteq Event
          /\ \A f \in events' : Sound(f) /\ f.seq <= nextSeq'
          /\ \A f \in events' : f \in events \/ f.at >= e.at
          /\ \A f \in Event : f.type \notin B \cup Y
                => (f \in events' <=> f \in events /\ f # e)
          /\ MovesTo(e, x.node, Y)
      BY <1>1, <1>5, <2>4, <2>5, <2>7, <2>11, <2>12, Moving
    <2>9. Returns(e)
      <3>1. TypeOK'
        BY <2>3, <2>8 DEF TypeOK, ModelOK
      <3> QED BY <3>1, <2>8 DEF Returns, BasicInv, Sound
    <2>10. KeepsTimers
      <3>1. \A f \in Event : f.type \in TimerEvents => (f \in events' <=> f \in events)
        BY <1>1, <2>7, <2>8
      <3> QED BY <3>1, <2>1, <2>2 DEF KeepsTimers, SameCircuits
    <2> QED BY <2>5, <2>8, <2>9, <2>10, <1>7 DEF Works, Y
  <1> QED BY <1>6, <1>7 DEF Attempt

\* The handler of request.processing_started.
LEMMA ProcessingStartedStep ==
    ASSUME RuntimeAssumption, BasicInv, NEW e \in events,
           ProcessingStarted(e), ~Throw(e)
    PROVE  /\ Returns(e)
           /\ \/ KeepsTimers /\ KeepsWork /\ MovesTo(e, e.node, {"request.failed"})
              \/ KeepsTimers /\ KeepsWork /\ (Joins(e) \/ DisplacesOldest(e))
              \/ /\ KeepsWork /\ FailsAt(e, e.node)
                 /\ MovesTo(e, e.node, {"request.retry", "request.failed"})
              \/ KeepsTimers /\ Works(e)
  <1>1. e.type = "request.processing_started" /\ ~Over(e.req)
    BY DEF ProcessingStarted
  <1>2. CASE Refused(e)
    BY <1>1, <1>2, RefusedStep
  <1>3. CASE /\ AdmittedThenFreed(e, e.req) /\ Proceed(e, <<FailNow(e)>>)
             /\ UNCHANGED <<req, comp, queue, position, cached>>
    BY <1>1, <1>3, TurnedBackStep
  <1>4. CASE TurnedAway(e) /\ UNCHANGED <<comp, position, cached>>
    BY <1>1, <1>4, TurnedBackStep DEF TurnedAway
  <1>5. CASE Displaces(e) /\ UNCHANGED <<comp, position, cached>>
    BY <1>1, <1>5, DisplacesStep
  <1>6. CASE Waits(e) /\ UNCHANGED <<comp, position, cached>>
    BY <1>1, <1>6, WaitsStep
  <1>7. CASE HasCapacity(e.node) /\ Attempt(e) /\ UNCHANGED <<queue, position, cached>>
    BY <1>1, <1>7, AttemptStep
  <1> QED BY <1>1, <1>2, <1>3, <1>4, <1>5, <1>6, <1>7 DEF ProcessingStarted

\* Two events at the end of a list.
LEMMA TwoMore ==
    ASSUME NEW S, NEW s \in Seq(S), NEW a \in S, NEW b \in S
    PROVE  s \o <<a, b>> = Append(Append(s, a), b)
  <1> DEFINE t == s \o <<a, b>>
             u == Append(Append(s, a), b)
  <1>1. t \in Seq(S) /\ u \in Seq(S) /\ Len(t) = Len(u)
    OBVIOUS
  <1>2. \A i \in 1 .. Len(t) : t[i] = u[i]
    OBVIOUS
  <1> HIDE DEF t, u
  <1> QED BY <1>1, <1>2 DEF t, u

\* The slot of e is freed and its request moves on.
WorkDone(e) ==
    /\ e.type = "request.processing_completed"
    /\ comp[e.node].active # 0
    /\ comp' = [comp EXCEPT ![e.node].active = @ - 1]
    /\ \A g \in Event : g.type = "request.processing_completed"
                        => (g \in events' <=> g \in events /\ g # e)
    /\ MovesTo(e, e.node, {"network.transmission_started", "request.completed",
                           "request.failed", "database.response"})

\* The handler of request.processing_completed.
LEMMA ProcessingCompletedStep ==
    ASSUME RuntimeAssumption, BasicInv, NEW e \in events,
           ProcessingCompleted(e), ~Throw(e)
    PROVE  Returns(e) /\ KeepsTimers /\ WorkDone(e)
  <1> DEFINE n == e.node
             X == {"network.transmission_started", "request.completed",
                   "request.failed", "database.response"}
             B == {"queue.drain", "cache.set"}
  <1>1. /\ e.type \in RequestEvent /\ e.type = "request.processing_completed"
        /\ X \in SUBSET RequestEvent /\ B \in SUBSET NodeEvent
        /\ "request.completed" \in X /\ "database.response" \in X
        /\ "request.completed" \notin {"network.transmission_started"}
        /\ "database.response" \notin {"network.transmission_started"}
        /\ "request.processing_completed" \notin B \cup X
        /\ e.type \notin TimerEvents
        /\ \A t \in TimerEvents : t \notin B \cup X
    BY DEF RequestEvent, NodeEvent, TimerEvents, ProcessingCompleted
  <1>2. e.at \in Nat /\ Later(e, e.at) /\ n \in Nodes /\ e.req \in Requests
    BY <1>1, LaterTimes DEF BasicInv, TypeOK, Event, Sound
  <1>3. /\ comp[n].active # 0
        /\ comp' = [comp EXCEPT ![n].active = @ - 1]
        /\ UNCHANGED <<req, circuit, queue, cached>>
    BY DEF ProcessingCompleted
  <1>4. Drain(e) \in Seq(Due(e, {"queue.drain"})) /\ Drain(e) \in Seq(Due(e, B))
    BY DrainDue, DueLists
  <1>5. \E before \in Seq(Due(e, B)) : \E x \in Due(e, X) :
           x.req = e.req /\ x.node = n /\ Proceed(e, Append(before, x))
    <2>1. CASE Proceed(e, Drain(e) \o <<At(e.at, "cache.set", n, e.req, 0),
                                        At(e.at, "request.completed", n, e.req, 0)>>)
      <3> DEFINE c == At(e.at, "cache.set", n, e.req, 0)
                 x == At(e.at, "request.completed", n, e.req, 0)
      <3>1. c \in Due(e, B)
        <4>1. c \in Event
          BY <1>2, EventTypes DEF NodeEvent
        <4> QED BY <4>1, <1>2 DEF At, Due, Sound
      <3>2. x \in Due(e, X)
        <4> HIDE DEF X
        <4> QED BY <1>1, <1>2, ContinuationDue
      <3>3. x.req = e.req /\ x.node = n
        BY DEF At
      <3> HIDE DEF c, x, X, B
      <3>4. Append(Drain(e), c) \in Seq(Due(e, B))
        BY <3>1, <1>4
      <3>5. Drain(e) \o <<c, x>> = Append(Append(Drain(e), c), x)
        <4> DEFINE S == Due(e, B) \cup Due(e, X)
        <4>1. Drain(e) \in Seq(S) /\ c \in S /\ x \in S
          BY <1>4, <3>1, <3>2
        <4> HIDE DEF S
        <4> QED BY <4>1, TwoMore
      <3>6. Proceed(e, Append(Append(Drain(e), c), x))
        BY <2>1, <3>5 DEF c, x
      <3> QED BY <3>2, <3>3, <3>4, <3>6
    <2>2. CASE Proceed(e, Append(Drain(e), At(e.at, "database.response", n, e.req, 0)))
      <3> DEFINE x == At(e.at, "database.response", n, e.req, 0)
      <3>1. x \in Due(e, X)
        <4> HIDE DEF X
        <4> QED BY <1>1, <1>2, ContinuationDue
      <3>2. x.req = e.req /\ x.node = n
        BY DEF At
      <3>3. Proceed(e, Append(Drain(e), x))
        BY <2>2
      <3> HIDE DEF x, X, B
      <3> QED BY <3>1, <3>2, <3>3, <1>4
    <2>3. CASE Routes(e, Drain(e))
      <3> DEFINE Y == {"network.transmission_started", "request.completed", "request.failed"}
      <3>1. PICK x \in Due(e, Y) :
               x.req = e.req /\ x.node = n /\ Proceed(e, Append(Drain(e), x))
        BY <1>2, <2>3, RouteEffect
      <3>2. Y \subseteq X
        OBVIOUS
      <3> HIDE DEF X, Y, B
      <3>3. x \in Due(e, X)
        BY <3>2, DueLists
      <3> QED BY <3>1, <3>3, <1>4
    <2> QED BY <2>1, <2>2, <2>3 DEF ProcessingCompleted
  <1>6. ModelOK' /\ NobodyEnds
    <2>1. position' \in [Nodes -> Nat]
      <3>1. position' = position \/ Routes(e, Drain(e))
        BY DEF ProcessingCompleted
      <3> QED BY <3>1, <1>2, RouteEffect DEF BasicInv, TypeOK
    <2>2. comp' \in [Nodes -> [ failed : BOOLEAN, active : Nat,
                                replicas : Nat \ {0}, cycle : Nat ]]
      <3>1. comp \in [Nodes -> [ failed : BOOLEAN, active : Nat,
                                 replicas : Nat \ {0}, cycle : Nat ]]
        BY DEF BasicInv, TypeOK
      <3>2. comp[n].active - 1 \in Nat
        <4>1. comp[n].active \in Nat
          BY <3>1, <1>2
        <4> QED BY <4>1, <1>3, SMTT(30)
      <3> QED BY <3>1, <3>2, <1>2, <1>3
    <2> QED BY <1>3, <2>1, <2>2 DEF ModelOK, BasicInv, TypeOK, NobodyEnds, Over, Queued
  <1>7. \A m \in Nodes : /\ comp'[m].failed = comp[m].failed
                         /\ comp'[m].cycle = comp[m].cycle
    BY <1>2, <1>3 DEF BasicInv, TypeOK
  <1> HIDE DEF X, B
  <1>8. PICK before \in Seq(Due(e, B)), x \in Due(e, X) :
           x.req = e.req /\ x.node = n /\ Proceed(e, Append(before, x))
    BY <1>5
  <1>9. /\ now' = e.at /\ now' \in Nat /\ nextSeq' \in Nat
        /\ status' \in {"running", "completed"}
        /\ events' \subseteq Event
        /\ \A f \in events' : Sound(f) /\ f.seq <= nextSeq'
        /\ \A f \in events' : f \in events \/ f.at >= e.at
        /\ \A f \in Event : f.type \notin B \cup X
              => (f \in events' <=> f \in events /\ f # e)
        /\ MovesTo(e, x.node, X)
    BY <1>1, <1>3, <1>6, <1>8, Moving
  <1>10. Returns(e)
    <2>1. TypeOK'
      BY <1>6, <1>9 DEF TypeOK, ModelOK
    <2> QED BY <2>1, <1>9 DEF Returns, BasicInv, Sound
  <1>11. KeepsTimers
    <2>1. \A f \in Event : f.type \in TimerEvents => (f \in events' <=> f \in events)
      BY <1>1, <1>9
    <2> QED BY <2>1, <1>3, <1>7 DEF KeepsTimers
  <1>12. WorkDone(e)
    BY <1>1, <1>3, <1>8, <1>9 DEF WorkDone, X
  <1> QED BY <1>10, <1>11, <1>12

-----------------------------------------------------------------------------
(* Events that end a request, and events of a component.                    *)

\* The request of e is over.
Ends(e) ==
    /\ e.type \in RequestEvent
    /\ \A g \in Event : g.type \in RequestEvent => (g \in events' <=> g \in events /\ g # e)
    /\ queue' = queue
    /\ \A r \in Requests : Over(r)' <=> Over(r) \/ r = e.req
    /\ \A r \in Requests : Queued(r)' => Queued(r)

\* The handlers that end a request.
LEMMA EndsStep ==
    ASSUME BasicInv, NEW e \in events, Completed(e) \/ RequestFailed(e), ~Throw(e)
    PROVE  Returns(e) /\ KeepsTimers /\ KeepsWork /\ Ends(e)
  <1>1. /\ e.type \in RequestEvent /\ e.type # "request.processing_completed"
        /\ e.type \notin TimerEvents
    BY DEF RequestEvent, TimerEvents, Completed, RequestFailed
  <1>2. e.req \in Requests
    BY <1>1 DEF BasicInv, Sound
  <1>3. PICK s \in {"completed", "failed"} : Becomes(e.req, s)
    BY DEF Completed, RequestFailed
  <1>4. /\ Proceed(e, <<>>)
        /\ UNCHANGED <<comp, circuit, queue, position, cached>>
    BY DEF Completed, RequestFailed
  <1>5. req' \in ReqType
    BY <1>2, <1>3 DEF BasicInv, TypeOK, ReqType, Becomes
  <1>6. /\ \A r \in Requests : Over(r)' <=> Over(r) \/ r = e.req
        /\ \A r \in Requests : Queued(r)' => Queued(r)
    BY <1>2, <1>3 DEF BasicInv, TypeOK, Becomes, Over, Queued
  <1> DEFINE none == {}
  <1>7. /\ \A t \in TimerEvents : t \notin none
        /\ \A t \in RequestEvent : t \notin none
        /\ "request.processing_completed" \notin none
    OBVIOUS
  <1> HIDE DEF none
  <1>8. <<>> \in Seq(Due(e, none))
    BY DueLists
  <1>9. /\ now' = e.at /\ now' \in Nat /\ nextSeq' \in Nat
        /\ status' \in {"running", "completed"}
        /\ events' \subseteq Event
        /\ \A f \in events' : Sound(f) /\ f.seq <= nextSeq'
        /\ \A f \in events' : f \in events \/ f.at >= e.at
        /\ \A f \in Event : f.type \notin none => (f \in events' <=> f \in events /\ f # e)
    BY <1>4, <1>8, ProceedEffect
  <1>10. Returns(e)
    <2>1. TypeOK'
      BY <1>4, <1>5, <1>9 DEF TypeOK, ReqType, BasicInv
    <2> QED BY <2>1, <1>9 DEF Returns, BasicInv, Sound
  <1>11. KeepsTimers
    <2>1. \A f \in Event : f.type \in TimerEvents => (f \in events' <=> f \in events)
      BY <1>1, <1>7, <1>9
    <2> QED BY <2>1, <1>4 DEF KeepsTimers
  <1>12. KeepsWork
    BY <1>1, <1>4, <1>7, <1>9 DEF KeepsWork
  <1>13. Ends(e)
    BY <1>1, <1>4, <1>6, <1>7, <1>9 DEF Ends
  <1> QED BY <1>10, <1>11, <1>12, <1>13

\* An event of a component that no request depends on.
Aside(e) ==
    /\ e.type \in NodeEvent
    /\ \A g \in Event : g.type \in RequestEvent => (g \in events' <=> g \in events)
    /\ queue' = queue
    /\ req' = req

\* A handler of a component event touches no request.
LEMMA AsideStep ==
    ASSUME BasicInv, NEW e \in events, e.type \in NodeEvent,
           NEW T \in SUBSET NodeEvent, NEW list \in Seq(Due(e, T)), Proceed(e, list),
           ModelOK', queue' = queue, req' = req
    PROVE  /\ Returns(e) /\ Aside(e)
           /\ \A f \in Event : f.type = "request.processing_completed"
                               => (f \in events' <=> f \in events)
           /\ \A f \in Event : f.type \notin T => (f \in events' <=> f \in events /\ f # e)
  <1>1. /\ now' = e.at /\ now' \in Nat /\ nextSeq' \in Nat
        /\ status' \in {"running", "completed"}
        /\ events' \subseteq Event
        /\ \A f \in events' : Sound(f) /\ f.seq <= nextSeq'
        /\ \A f \in events' : f \in events \/ f.at >= e.at
        /\ \A f \in Event : f.type \notin T => (f \in events' <=> f \in events /\ f # e)
    BY ProceedEffect
  <1>2. Returns(e)
    <2>1. TypeOK'
      BY <1>1 DEF TypeOK, ModelOK
    <2> QED BY <2>1, <1>1 DEF Returns, BasicInv, Sound
  <1>3. \A g \in Event : g.type \in RequestEvent => (g \in events' <=> g \in events)
    BY <1>1, EventTypes
  <1>4. "request.processing_completed" \in RequestEvent
    BY DEF RequestEvent
  <1> QED BY <1>1, <1>2, <1>3, <1>4 DEF Aside

\* A handler that schedules exactly one event.
LEMMA ProceedOne ==
    ASSUME BasicInv, NEW e \in events, NEW T, NEW x \in Due(e, T), Proceed(e, <<x>>)
    PROVE  \E f \in events' :
              /\ f \notin events
              /\ f.at = x.at /\ f.type = x.type /\ f.node = x.node
              /\ f.req = x.req /\ f.arg = x.arg
              /\ \A g \in Event : g \in events' <=> (g \in events /\ g # e) \/ g = f
  <1> DEFINE f == [x EXCEPT !.seq = nextSeq + 1]
  <1>1. nextSeq \in Nat /\ nextSeq + 1 \in Nat /\ x \in Event
    BY DEF BasicInv, TypeOK, Due
  <1>2. /\ f \in Event /\ f.seq = nextSeq + 1
        /\ f.at = x.at /\ f.type = x.type /\ f.node = x.node
        /\ f.req = x.req /\ f.arg = x.arg
    BY <1>1, StampedEvent
  <1>3. events' = (events \ {e}) \cup {f}
    BY DEF Proceed, Stamped
  <1>4. \A g \in events : g.seq <= nextSeq /\ g.seq \in Nat
    BY DEF BasicInv, TypeOK, Event
  <1> HIDE DEF f
  <1>5. f \notin events
    BY <1>1, <1>2, <1>4
  <1> QED BY <1>2, <1>3, <1>5

\* The handler of cache.set.
LEMMA CacheSetStep ==
    ASSUME RuntimeAssumption, BasicInv, NEW e \in events, CacheSet(e)
    PROVE  Returns(e) /\ KeepsTimers /\ KeepsWork /\ Aside(e)
  <1> DEFINE T == {"queue.drain"}
  <1>1. /\ e.type \in NodeEvent /\ T \in SUBSET NodeEvent
        /\ e.type \notin TimerEvents
        /\ \A t \in TimerEvents : t \notin T
    BY DEF NodeEvent, CacheSet, TimerEvents
  <1>2. e.node \in Nodes /\ e.req \in Requests
    <2>1. e.req \in Requests
      BY DEF CacheSet, BasicInv, Sound
    <2> QED BY <2>1 DEF BasicInv, TypeOK, Event
  <1>3. Conf[e.node].keys[e.req] \in Nat
    <2>1. Conf[e.node] \in Config
      BY <1>2 DEF RuntimeAssumption
    <2>2. Conf[e.node].keys \in [Requests -> Nat]
      BY <2>1 DEF Config
    <2> QED BY <2>2, <1>2
  <1>4. ModelOK'
    <2>1. cached' \in [Nodes -> SUBSET Nat]
      BY <1>2, <1>3 DEF CacheSet, BasicInv, TypeOK
    <2> QED BY <2>1 DEF CacheSet, ModelOK, BasicInv, TypeOK
  <1> HIDE DEF T
  <1>5. <<>> \in Seq(Due(e, T)) /\ Proceed(e, <<>>)
    BY DueLists DEF CacheSet
  <1>6. /\ queue' = queue /\ req' = req /\ comp' = comp /\ circuit' = circuit
    BY DEF CacheSet
  <1>7. /\ Returns(e) /\ Aside(e)
        /\ \A f \in Event : f.type = "request.processing_completed"
                            => (f \in events' <=> f \in events)
        /\ \A f \in Event : f.type \notin T => (f \in events' <=> f \in events /\ f # e)
    BY <1>1, <1>4, <1>5, <1>6, AsideStep
  <1>8. KeepsTimers
    <2>1. \A f \in Event : f.type \in TimerEvents => (f \in events' <=> f \in events)
      BY <1>1, <1>7
    <2> QED BY <2>1, <1>6 DEF KeepsTimers
  <1> QED BY <1>6, <1>7, <1>8 DEF KeepsWork

-----------------------------------------------------------------------------
(* The timers of components and circuits.                                   *)

\* A failure of a component that works begins a recovery cycle, with its one
\* timer, when the component recovers at all.
StartsRecovery(e) ==
    LET n == e.node
    IN  /\ e.type = "component.failed"
        /\ circuit' = circuit
        /\ comp'[n].failed
        /\ \A m \in Nodes \ {n} : comp'[m] = comp[m]
        /\ IF ~comp[n].failed /\ Conf[n].recovers
           THEN /\ comp'[n].cycle = comp[n].cycle + 1
                /\ \E f \in events' :
                      /\ f.type = "component.recovery" /\ f.node = n
                      /\ f.arg = comp[n].cycle + 1
                      /\ \A g \in Event : g.type \in TimerEvents
                            => (g \in events' <=> g \in events \/ g = f)
           ELSE /\ comp'[n].cycle = comp[n].cycle
                /\ \A g \in Event : g.type \in TimerEvents => (g \in events' <=> g \in events)

\* The timer of the current cycle becomes the recovery, any other is dropped.
EndsCycle(e) ==
    LET n == e.node
    IN  /\ e.type = "component.recovery"
        /\ UNCHANGED <<comp, circuit>>
        /\ IF comp[n].failed /\ comp[n].cycle = e.arg
           THEN \E f \in events' :
                   /\ f.type = "component.recovered" /\ f.node = n /\ f.arg = e.arg
                   /\ \A g \in Event : g.type \in TimerEvents
                         => (g \in events' <=> (g \in events /\ g # e) \/ g = f)
           ELSE \A g \in Event : g.type \in TimerEvents => (g \in events' <=> g \in events /\ g # e)

\* A component works again.
Revives(e) ==
    /\ e.type = "component.recovered"
    /\ circuit' = circuit
    /\ comp' = [comp EXCEPT ![e.node].failed = FALSE]
    /\ \A g \in Event : g.type \in TimerEvents => (g \in events' <=> g \in events /\ g # e)

\* The timer of a circuit goes off.
OpensHalf(e) ==
    /\ e.type = "component.circuit_half_open"
    /\ comp' = comp
    /\ circuit' = [circuit EXCEPT ![e.node] = HalfOpened(@, e.arg)]
    /\ \A g \in Event : g.type \in TimerEvents => (g \in events' <=> g \in events /\ g # e)

\* The handler of component.failed.
LEMMA ComponentFailedStep ==
    ASSUME RuntimeAssumption, BasicInv, NEW e \in events, ComponentFailed(e)
    PROVE  Returns(e) /\ StartsRecovery(e) /\ KeepsWork /\ Aside(e)
  <1> DEFINE n == e.node
             T == {"component.recovery"}
             cycle == IF ~comp[n].failed /\ Conf[n].recovers
                      THEN comp[n].cycle + 1 ELSE comp[n].cycle
             x == At(e.at + Conf[n].recovery, "component.recovery", n, NoRequest, cycle)
  <1>1. /\ e.type \in NodeEvent /\ T \in SUBSET NodeEvent
        /\ e.type \notin TimerEvents
        /\ e.type = "component.failed"
    BY DEF NodeEvent, ComponentFailed, TimerEvents
  <1>2. /\ e.at \in Nat /\ n \in Nodes /\ Conf[n].recovery \in Nat
        /\ comp[n].cycle + 1 \in Nat /\ comp[n].cycle \in Nat
        /\ comp \in [Nodes -> [ failed : BOOLEAN, active : Nat,
                                replicas : Nat \ {0}, cycle : Nat ]]
    <2> HIDE DEF T, cycle, x
    <2>1. /\ e.at \in Nat /\ n \in Nodes
          /\ comp \in [Nodes -> [ failed : BOOLEAN, active : Nat,
                                  replicas : Nat \ {0}, cycle : Nat ]]
      BY DEF BasicInv, TypeOK, Event
    <2>2. Conf[n] \in Config
      BY <2>1 DEF RuntimeAssumption
    <2>3. Conf[n].recovery \in Nat
      BY <2>2 DEF Config
    <2> QED BY <2>1, <2>3, SMTT(30)
  <1>3. cycle \in Nat
    BY <1>2
  <1>4. /\ comp' = [comp EXCEPT ![n].failed = TRUE, ![n].cycle = cycle]
        /\ UNCHANGED <<req, circuit, queue, position, cached>>
    BY DEF ComponentFailed
  <1>5. x \in Due(e, T)
    <2> DEFINE later == e.at + Conf[n].recovery
    <2>1. later \in Nat /\ later >= e.at
      <3>1. e.at \in Nat /\ Conf[n].recovery \in Nat
        BY <1>2
      <3> HIDE DEF x, cycle, T
      <3> QED BY <3>1
    <2>2. "component.recovery" \in NodeEvent
      BY DEF NodeEvent
    <2> HIDE DEF cycle, later
    <2>3. At(later, "component.recovery", n, NoRequest, cycle) \in Event
      BY <1>2, <1>3, <2>1, <2>2, EventTypes
    <2>4. At(later, "component.recovery", n, NoRequest, cycle) \in Due(e, T)
      BY <2>1, <2>3 DEF At, Due, Sound, RequestEvent
    <2> QED BY <2>4 DEF later
  <1>6. x.type = "component.recovery" /\ x.node = n /\ x.arg = cycle
    BY DEF At
  <1> HIDE DEF x
  <1>7. PICK list \in Seq(Due(e, T)) :
           /\ Proceed(e, list)
           /\ list = IF ~comp[n].failed /\ Conf[n].recovers THEN <<x>> ELSE <<>>
    BY <1>5, DueLists DEF ComponentFailed, x
  <1>8. ModelOK'
    <2>1. comp' \in [Nodes -> [ failed : BOOLEAN, active : Nat,
                                replicas : Nat \ {0}, cycle : Nat ]]
      <3> HIDE DEF cycle
      <3> QED BY <1>2, <1>3, <1>4
    <2> QED BY <2>1, <1>4 DEF ModelOK, BasicInv, TypeOK
  <1>9. /\ Returns(e) /\ Aside(e)
        /\ \A f \in Event : f.type = "request.processing_completed"
                            => (f \in events' <=> f \in events)
    <2> HIDE DEF T
    <2> QED BY <1>1, <1>4, <1>7, <1>8, AsideStep
  <1>10. /\ comp'[n].failed /\ comp'[n].cycle = cycle
         /\ \A m \in Nodes \ {n} : comp'[m] = comp[m]
         /\ \A m \in Nodes : comp'[m].active = comp[m].active
                             /\ comp'[m].replicas = comp[m].replicas
    <2> HIDE DEF cycle
    <2> QED BY <1>2, <1>4
  <1>11. KeepsWork
    BY <1>9, <1>10 DEF KeepsWork
  <1>12. StartsRecovery(e)
    <2>1. CASE ~comp[n].failed /\ Conf[n].recovers
      <3>1. Proceed(e, <<x>>) /\ cycle = comp[n].cycle + 1
        BY <1>7, <2>1
      <3>2. PICK f \in events' :
               /\ f.type = x.type /\ f.node = x.node /\ f.arg = x.arg
               /\ \A g \in Event : g \in events' <=> (g \in events /\ g # e) \/ g = f
        BY <3>1, <1>5, ProceedOne
      <3>3. \A g \in Event : g.type \in TimerEvents => (g \in events' <=> g \in events \/ g = f)
        BY <3>2, <1>1
      <3> HIDE DEF cycle
      <3> QED BY <3>1, <3>2, <3>3, <1>1, <1>4, <1>6, <1>10, <2>1, ZenonT(30) DEF StartsRecovery
    <2>2. CASE ~(~comp[n].failed /\ Conf[n].recovers)
      <3> DEFINE none == {}
      <3>1. Proceed(e, <<>>) /\ cycle = comp[n].cycle
        BY <1>7, <2>2
      <3>2. \A t \in TimerEvents : t \notin none
        OBVIOUS
      <3> HIDE DEF none
      <3>3. \A g \in Event : g.type \notin none => (g \in events' <=> g \in events /\ g # e)
        BY <3>1, DueLists, ProceedEffect
      <3>4. \A g \in Event : g.type \in TimerEvents => (g \in events' <=> g \in events)
        BY <3>2, <3>3, <1>1
      <3> HIDE DEF cycle
      <3> QED BY <3>1, <3>4, <1>1, <1>4, <1>10, <2>2 DEF StartsRecovery
    <2> QED BY <2>1, <2>2
  <1> QED BY <1>9, <1>11, <1>12

\* The handler of component.recovery.
LEMMA RecoveryStep ==
    ASSUME BasicInv, NEW e \in events, Recovery(e)
    PROVE  Returns(e) /\ EndsCycle(e) /\ KeepsWork /\ Aside(e)
  <1> DEFINE n == e.node
             T == {"component.recovered"}
             x == At(e.at, "component.recovered", n, NoRequest, e.arg)
  <1>1. /\ e.type \in NodeEvent /\ T \in SUBSET NodeEvent
        /\ e.type = "component.recovery" /\ "component.recovered" \in NodeEvent
    BY DEF NodeEvent, Recovery
  <1>2. e.at \in Nat /\ n \in Nodes /\ e.arg \in Nat
    BY DEF BasicInv, TypeOK, Event
  <1>3. UNCHANGED <<req, comp, circuit, queue, position, cached>>
    BY DEF Recovery, model
  <1>4. x \in Due(e, T)
    <2>1. x \in Event
      BY <1>1, <1>2, EventTypes
    <2> QED BY <1>2, <2>1 DEF At, Due, Sound, RequestEvent
  <1>5. x.type = "component.recovered" /\ x.node = n /\ x.arg = e.arg
    BY DEF At
  <1> HIDE DEF x
  <1>6. PICK list \in Seq(Due(e, T)) :
           /\ Proceed(e, list)
           /\ list = IF comp[n].failed /\ comp[n].cycle = e.arg THEN <<x>> ELSE <<>>
    BY <1>4, DueLists DEF Recovery, x
  <1>7. ModelOK'
    BY <1>3 DEF ModelOK, BasicInv, TypeOK
  <1>8. /\ Returns(e) /\ Aside(e)
        /\ \A f \in Event : f.type = "request.processing_completed"
                            => (f \in events' <=> f \in events)
    <2> HIDE DEF T
    <2> QED BY <1>1, <1>3, <1>6, <1>7, AsideStep
  <1>9. KeepsWork
    BY <1>3, <1>8 DEF KeepsWork
  <1>10. EndsCycle(e)
    <2>1. CASE comp[n].failed /\ comp[n].cycle = e.arg
      <3>1. Proceed(e, <<x>>)
        BY <1>6, <2>1
      <3>2. PICK f \in events' :
               /\ f.type = x.type /\ f.node = x.node /\ f.arg = x.arg
               /\ \A g \in Event : g \in events' <=> (g \in events /\ g # e) \/ g = f
        BY <3>1, <1>4, ProceedOne
      <3> QED BY <3>2, <1>1, <1>3, <1>5, <2>1 DEF EndsCycle
    <2>2. CASE ~(comp[n].failed /\ comp[n].cycle = e.arg)
      <3> DEFINE none == {}
      <3>1. Proceed(e, <<>>) /\ \A t \in TimerEvents : t \notin none
        BY <1>6, <2>2
      <3> HIDE DEF none
      <3>2. \A g \in Event : g.type \notin none => (g \in events' <=> g \in events /\ g # e)
        BY <3>1, DueLists, ProceedEffect
      <3> QED BY <3>1, <3>2, <1>1, <1>3, <2>2 DEF EndsCycle
    <2> QED BY <2>1, <2>2
  <1> QED BY <1>8, <1>9, <1>10

\* The handler of component.recovered.
LEMMA RecoveredStep ==
    ASSUME BasicInv, NEW e \in events, Recovered(e)
    PROVE  Returns(e) /\ Revives(e) /\ KeepsWork /\ Aside(e)
  <1> DEFINE T == {"queue.drain"}
  <1>1. /\ e.type \in NodeEvent /\ T \in SUBSET NodeEvent
        /\ e.type = "component.recovered"
        /\ \A t \in TimerEvents : t \notin T
    BY DEF NodeEvent, Recovered, TimerEvents
  <1>2. e.node \in Nodes
    BY DEF BasicInv, TypeOK, Event
  <1>3. /\ comp' = [comp EXCEPT ![e.node].failed = FALSE]
        /\ UNCHANGED <<req, circuit, queue, position, cached>>
    BY DEF Recovered
  <1>4. ModelOK' /\ \A m \in Nodes : comp'[m].active = comp[m].active
                                     /\ comp'[m].replicas = comp[m].replicas
    BY <1>2, <1>3 DEF ModelOK, BasicInv, TypeOK
  <1>5. \E list \in Seq(Due(e, T)) : Proceed(e, list)
    BY DrainDue, DueLists DEF Recovered
  <1> HIDE DEF T
  <1>6. /\ Returns(e) /\ Aside(e)
        /\ \A f \in Event : f.type = "request.processing_completed"
                            => (f \in events' <=> f \in events)
        /\ \A f \in Event : f.type \notin T => (f \in events' <=> f \in events /\ f # e)
    BY <1>1, <1>3, <1>4, <1>5, AsideStep
  <1>7. KeepsWork
    BY <1>4, <1>6 DEF KeepsWork
  <1>8. Revives(e)
    BY <1>1, <1>3, <1>6 DEF Revives
  <1> QED BY <1>6, <1>7, <1>8

\* The handler of component.circuit_half_open.
LEMMA HalfOpenStep ==
    ASSUME BasicInv, NEW e \in events, HalfOpen(e)
    PROVE  Returns(e) /\ OpensHalf(e) /\ KeepsWork /\ Aside(e)
  <1> DEFINE T == {"queue.drain"}
  <1>1. /\ e.type \in NodeEvent /\ T \in SUBSET NodeEvent
        /\ e.type = "component.circuit_half_open"
        /\ \A t \in TimerEvents : t \notin T
    BY DEF NodeEvent, HalfOpen, TimerEvents
  <1>2. e.node \in Nodes
    BY DEF BasicInv, TypeOK, Event
  <1>3. /\ circuit' = [circuit EXCEPT ![e.node] = HalfOpened(@, e.arg)]
        /\ UNCHANGED <<req, comp, queue, position, cached>>
    BY DEF HalfOpen
  <1>4. ModelOK'
    <2>1. HalfOpened(circuit[e.node], e.arg) \in Circuit
      BY <1>2 DEF BasicInv, TypeOK, Circuit, HalfOpened
    <2>2. circuit' \in [Nodes -> Circuit]
      BY <1>2, <1>3, <2>1 DEF BasicInv, TypeOK
    <2> QED BY <1>3, <2>2 DEF ModelOK, BasicInv, TypeOK
  <1> HIDE DEF T
  <1>5. <<>> \in Seq(Due(e, T)) /\ Proceed(e, <<>>)
    BY DueLists DEF HalfOpen
  <1>6. /\ Returns(e) /\ Aside(e)
        /\ \A f \in Event : f.type = "request.processing_completed"
                            => (f \in events' <=> f \in events)
        /\ \A f \in Event : f.type \notin T => (f \in events' <=> f \in events /\ f # e)
    BY <1>1, <1>3, <1>4, <1>5, AsideStep
  <1>7. KeepsWork
    BY <1>3, <1>6 DEF KeepsWork
  <1>8. OpensHalf(e)
    BY <1>1, <1>3, <1>6 DEF OpensHalf
  <1> QED BY <1>6, <1>7, <1>8

\* The replicas an autoscaler wants are a number of replicas.
LEMMA WantedReplicas ==
    ASSUME RuntimeAssumption, BasicInv, NEW n \in Nodes, Autoscales(n)
    PROVE  Wanted(n) \in Nat /\ Allowed(Wanted(n), n)
  <1>1. comp[n].replicas \in Nat \ {0}
    BY DEF BasicInv, TypeOK
  <1>2. Conf[n] \in Config
    BY DEF RuntimeAssumption
  <1>3. Conf[n].min \in Nat \ {0} /\ Conf[n].max \in Nat \ {0}
    BY <1>2 DEF Config
  <1>7. \E r \in Nat : Conf[n].min <= r /\ r <= Conf[n].max
    <2>1. PICK i \in DOMAIN Autoscaled : Autoscaled[i] = n
      BY DEF Autoscales
    <2>2. Conf[n].min <= Conf[n].replicas /\ Conf[n].replicas <= Conf[n].max
      BY <2>1 DEF RuntimeAssumption
    <2> QED BY <1>2, <2>2 DEF Config
  <1> DEFINE lo == Conf[n].min  hi == Conf[n].max  k == comp[n].replicas
  <1>4. \E step \in {1, -1, 0} : Wanted(n) = Clamp(k + step, lo, hi)
    BY DEF Wanted
  <1>5. PICK step \in {1, -1, 0} : Wanted(n) = Clamp(k + step, lo, hi)
    BY <1>4
  <1> HIDE DEF lo, hi, k
  <1>6. /\ k \in Nat \ {0} /\ lo \in Nat \ {0} /\ hi \in Nat \ {0}
        /\ \E r \in Nat : lo <= r /\ r <= hi
    BY <1>1, <1>3, <1>7 DEF lo, hi, k
  <1>8. Wanted(n) \in Nat /\ Wanted(n) # 0 /\ Wanted(n) >= lo /\ Wanted(n) <= hi
    BY <1>5, <1>6 DEF Clamp
  <1> QED BY <1>8 DEF Allowed, lo, hi

\* The handler of autoscaling.evaluate.
LEMMA EvaluateStep ==
    ASSUME RuntimeAssumption, BasicInv, NEW e \in events, Evaluate(e)
    PROVE  Returns(e) /\ KeepsTimers /\ KeepsWork /\ Aside(e)
  <1> DEFINE n == e.node
             T == {"component.scaled", "autoscaling.evaluate"}
             x == At(e.at, "component.scaled", n, NoRequest, Wanted(n))
             later == e.at + EvalInterval
             y == At(later, "autoscaling.evaluate", n, NoRequest, 0)
             scaled == IF Scales(n) THEN <<x>> ELSE <<>>
             next == IF later < Duration THEN <<y>> ELSE <<>>
  <1>1. /\ e.type \in NodeEvent /\ T \in SUBSET NodeEvent
        /\ "component.scaled" \in NodeEvent /\ "autoscaling.evaluate" \in NodeEvent
        /\ e.type \notin TimerEvents
        /\ \A t \in TimerEvents : t \notin T
    BY DEF NodeEvent, Evaluate, TimerEvents
  <1>2. e.at \in Nat /\ n \in Nodes
    BY DEF BasicInv, TypeOK, Event
  <1>3. later \in Nat /\ later >= e.at
    <2>1. EvalInterval \in Nat
      BY DEF RuntimeAssumption
    <2> HIDE DEF x, y, T, scaled, next
    <2> QED BY <1>2, <2>1
  <1>4. UNCHANGED <<req, comp, circuit, queue, position, cached>>
    BY DEF Evaluate, model
  <1> HIDE DEF later
  <1>5. Wanted(n) \in Nat /\ Allowed(Wanted(n), n) /\ Autoscales(n)
    <2>1. Autoscales(n)
      BY DEF Evaluate, BasicInv, Sound
    <2> QED BY <1>2, <2>1, WantedReplicas
  <1>6. x \in Due(e, T)
    <2>1. x \in Event
      BY <1>1, <1>2, <1>5, EventTypes
    <2> QED BY <1>2, <1>5, <2>1 DEF At, Due, Sound, RequestEvent
  <1>7. y \in Due(e, T)
    <2>1. y \in Event
      BY <1>1, <1>2, <1>3, EventTypes
    <2> QED BY <1>3, <1>5, <2>1 DEF At, Due, Sound, RequestEvent
  <1> DEFINE D == Due(e, T)
  <1>8. scaled \o next \in Seq(D)
    <2> HIDE DEF D, x, y
    <2>1. x \in D /\ y \in D
      BY <1>6, <1>7 DEF D
    <2>2. scaled \in Seq(D) /\ next \in Seq(D)
      BY <2>1
    <2> HIDE DEF scaled, next
    <2> QED BY <2>2
  <1>9. Proceed(e, scaled \o next)
    BY DEF Evaluate, later
  <1> HIDE DEF scaled, next, T, x, y
  <1>10. ModelOK'
    BY <1>4 DEF ModelOK, BasicInv, TypeOK
  <1>11. /\ Returns(e) /\ Aside(e)
         /\ \A f \in Event : f.type = "request.processing_completed"
                             => (f \in events' <=> f \in events)
         /\ \A f \in Event : f.type \notin T => (f \in events' <=> f \in events /\ f # e)
    BY <1>1, <1>4, <1>8, <1>9, <1>10, AsideStep
  <1>12. KeepsTimers
    <2>1. \A f \in Event : f.type \in TimerEvents => (f \in events' <=> f \in events)
      BY <1>1, <1>11
    <2> QED BY <2>1, <1>4 DEF KeepsTimers
  <1> QED BY <1>4, <1>11, <1>12 DEF KeepsWork

\* A component gets another number of slots, with room for the requests it is
\* processing.
Rescales(e) ==
    /\ e.type = "component.scaled"
    /\ \A m \in Nodes : comp'[m].active = comp[m].active
    /\ \A m \in Nodes \ {e.node} : comp'[m].replicas = comp[m].replicas
    /\ comp'[e.node].replicas = e.arg
    /\ comp'[e.node].replicas * Conf[e.node].concurrency >= comp[e.node].active
    /\ \A f \in Event : f.type = "request.processing_completed"
                        => (f \in events' <=> f \in events)

\* The handler of component.scaled.
LEMMA ScaledStep ==
    ASSUME BasicInv, NEW e \in events, Scaled(e), ~Throw(e)
    PROVE  Returns(e) /\ KeepsTimers /\ (KeepsWork \/ Rescales(e)) /\ Aside(e)
  <1> DEFINE n == e.node
             T == {"queue.drain"}
  <1>1. /\ e.type \in NodeEvent /\ T \in SUBSET NodeEvent
        /\ e.type = "component.scaled" /\ e.type \notin TimerEvents
        /\ \A t \in TimerEvents : t \notin T
    BY DEF NodeEvent, Scaled, TimerEvents
  <1>2. n \in Nodes /\ e.arg \in Nat /\ e.arg # 0
    BY <1>1 DEF BasicInv, TypeOK, Event, Sound, Allowed
  <1>3. UNCHANGED <<req, circuit, queue, position, cached>>
    BY DEF Scaled, model
  <1>4. \/ comp' = comp
        \/ /\ comp' = [comp EXCEPT ![n].replicas = e.arg]
           /\ e.arg * Conf[n].concurrency >= comp[n].active
    BY DEF Scaled, model
  <1>5. /\ ModelOK'
        /\ \A m \in Nodes : comp'[m].active = comp[m].active
                            /\ comp'[m].failed = comp[m].failed
                            /\ comp'[m].cycle = comp[m].cycle
        /\ \A m \in Nodes \ {n} : comp'[m].replicas = comp[m].replicas
        /\ \/ comp' = comp
           \/ /\ comp'[n].replicas = e.arg
              /\ e.arg * Conf[n].concurrency >= comp[n].active
    <2>1. CASE comp' = comp
      BY <2>1, <1>3 DEF ModelOK, BasicInv, TypeOK
    <2>2. CASE /\ comp' = [comp EXCEPT ![n].replicas = e.arg]
               /\ e.arg * Conf[n].concurrency >= comp[n].active
      <3>1. comp \in [Nodes -> [ failed : BOOLEAN, active : Nat,
                                 replicas : Nat \ {0}, cycle : Nat ]]
        BY DEF BasicInv, TypeOK
      <3>2. comp' \in [Nodes -> [ failed : BOOLEAN, active : Nat,
                                  replicas : Nat \ {0}, cycle : Nat ]]
        BY <3>1, <2>2, <1>2
      <3>3. ModelOK'
        BY <3>2, <1>3 DEF ModelOK, BasicInv, TypeOK
      <3> QED BY <3>1, <3>3, <2>2, <1>2
    <2> QED BY <2>1, <2>2, <1>4
  <1>6. \E list \in Seq(Due(e, T)) : Proceed(e, list)
    BY DrainDue, DueLists DEF Scaled
  <1> HIDE DEF T
  <1>7. /\ Returns(e) /\ Aside(e)
        /\ \A f \in Event : f.type = "request.processing_completed"
                            => (f \in events' <=> f \in events)
        /\ \A f \in Event : f.type \notin T => (f \in events' <=> f \in events /\ f # e)
    BY <1>1, <1>3, <1>5, <1>6, AsideStep
  <1>8. KeepsTimers
    <2>1. \A f \in Event : f.type \in TimerEvents => (f \in events' <=> f \in events)
      BY <1>1, <1>7
    <2> QED BY <2>1, <1>3, <1>5 DEF KeepsTimers
  <1>9. CASE comp' = comp
    BY <1>7, <1>8, <1>9 DEF KeepsWork
  <1>10. CASE /\ comp'[n].replicas = e.arg
              /\ e.arg * Conf[n].concurrency >= comp[n].active
    BY <1>1, <1>5, <1>7, <1>8, <1>10 DEF Rescales
  <1> QED BY <1>5, <1>9, <1>10

-----------------------------------------------------------------------------
(* The drain of a queue.                                                    *)

\* The event that starts the i-th waiting request of e's node.
Woken(e, i) == [Started(e, queue[e.node][i]) EXCEPT !.seq = nextSeq + i]

\* The first of the waiting requests start; all of them wait on only when there
\* is no free slot.
Drains(e) ==
    /\ e.type = "queue.drain"
    /\ req' = req
    /\ \E k \in 0 .. Len(queue[e.node]) :
          /\ queue' = [queue EXCEPT ![e.node] = SubSeq(@, k + 1, Len(@))]
          /\ k = 0 => queue[e.node] = <<>> \/ ~HasCapacity(e.node)
          /\ \A i \in 1 .. k :
                /\ Woken(e, i) \in events' \ events
                /\ Woken(e, i).type = "request.processing_started"
                /\ Woken(e, i).node = e.node
                /\ Woken(e, i).req = queue[e.node][i]
          /\ \A g \in Event : g.type \in RequestEvent
                => (g \in events' <=> g \in events \/ \E i \in 1 .. k : g = Woken(e, i))

\* No component processes more requests than it has slots.
WithinSlots == \A n \in Nodes : comp[n].active <= Slots(n)

\* The free slots of a component are a number.
LEMMA FreeSlots ==
    ASSUME RuntimeAssumption, BasicInv, WithinSlots, NEW n \in Nodes
    PROVE  /\ Slots(n) \in Nat /\ Slots(n) - comp[n].active \in Nat
           /\ comp[n].active \in Nat
           /\ HasCapacity(n) <=> Slots(n) - comp[n].active # 0
  <1>1. comp[n].replicas \in Nat /\ comp[n].active \in Nat
    BY DEF BasicInv, TypeOK
  <1>2. Conf[n] \in Config
    BY DEF RuntimeAssumption
  <1>3. Conf[n].concurrency \in Nat
    BY <1>2 DEF Config
  <1>4. Slots(n) \in Nat /\ comp[n].active <= Slots(n)
    <2>1. \A a, b \in Nat : a * b \in Nat
      OBVIOUS
    <2> QED BY <2>1, <1>1, <1>3 DEF Slots, WithinSlots
  <1> QED BY <1>1, <1>4, SMTT(30) DEF HasCapacity

\* The handler of queue.drain.
LEMMA QueueDrainStep ==
    ASSUME RuntimeAssumption, BasicInv, WithinSlots, NEW e \in events, QueueDrain(e)
    PROVE  Returns(e) /\ KeepsTimers /\ KeepsWork /\ (Aside(e) \/ Drains(e))
  <1> DEFINE n == e.node
             none == {}
             X == {"request.processing_started"}
             free == Slots(n) - comp[n].active
             q == queue[n]
             k == IF free < Len(q) THEN free ELSE Len(q)
             list == [i \in 1 .. k |-> Started(e, q[i])]
  <1>1. /\ e.type \in NodeEvent /\ e.type = "queue.drain"
        /\ e.type \notin TimerEvents /\ e.type \notin {"request.processing_completed"}
        /\ e.type \notin RequestEvent
        /\ none \in SUBSET NodeEvent
        /\ "request.processing_started" \in RequestEvent
        /\ "request.processing_completed" \notin X
        /\ \A t \in TimerEvents : t \notin none /\ t \notin X
    BY DEF NodeEvent, QueueDrain, TimerEvents, RequestEvent
  <1>2. e.at \in Nat /\ n \in Nodes /\ nextSeq \in Nat
    BY DEF BasicInv, TypeOK, Event
  <1>3. UNCHANGED <<req, comp, circuit, position, cached>>
    BY DEF QueueDrain
  <1>4. q \in Seq(Requests) /\ queue \in [Nodes -> Seq(Requests)]
    BY <1>2 DEF BasicInv, TypeOK
  <1>5. k \in 0 .. Len(q) /\ (k = 0 => q = <<>> \/ ~HasCapacity(n))
    <2>1. free \in Nat /\ (HasCapacity(n) <=> free # 0)
      BY <1>2, FreeSlots
    <2> HIDE DEF free, q
    <2>2. Len(q) \in Nat /\ (Len(q) = 0 => q = <<>>)
      BY <1>4
    <2> QED BY <2>1, <2>2
  <1> HIDE DEF none
  <1>6. CASE Proceed(e, <<>>) /\ UNCHANGED queue
    <2>1. ModelOK'
      BY <1>3, <1>6 DEF ModelOK, BasicInv, TypeOK
    <2>2. <<>> \in Seq(Due(e, none))
      BY DueLists
    <2>3. /\ Returns(e) /\ Aside(e)
          /\ \A f \in Event : f.type = "request.processing_completed"
                              => (f \in events' <=> f \in events)
          /\ \A f \in Event : f.type \notin none => (f \in events' <=> f \in events /\ f # e)
      BY <1>1, <1>3, <1>6, <2>1, <2>2, AsideStep
    <2>4. KeepsTimers
      <3>1. \A f \in Event : f.type \in TimerEvents => (f \in events' <=> f \in events)
        BY <1>1, <2>3
      <3> QED BY <3>1, <1>3 DEF KeepsTimers
    <2> QED BY <1>3, <2>3, <2>4 DEF KeepsWork
  <1>7. CASE /\ queue' = [queue EXCEPT ![n] = SubSeq(@, k + 1, Len(@))]
             /\ Proceed(e, list)
    <2> HIDE DEF k
    <2>1. \A i \in 1 .. k : q[i] \in Requests
      <3> HIDE DEF q
      <3> QED BY <1>4, <1>5, SMTT(30)
    <2>2. \A i \in 1 .. k : /\ Started(e, q[i]) \in Due(e, X)
                            /\ Started(e, q[i]).node = n /\ Started(e, q[i]).req = q[i]
      <3> TAKE i \in 1 .. k
      <3> DEFINE r == q[i]
      <3>1. r \in Requests
        BY <2>1
      <3> HIDE DEF r
      <3>2. Started(e, r) \in Event
        BY <1>1, <1>2, <3>1, EventTypes DEF Started
      <3>3. Started(e, r) \in Due(e, X) /\ Started(e, r).node = n /\ Started(e, r).req = r
        BY <1>2, <3>1, <3>2 DEF Started, At, Due, Sound
      <3> QED BY <3>3 DEF r
    <2> DEFINE D == Due(e, X)
    <2>3. list \in Seq(D)
      <3>1. \A i \in 1 .. k : Started(e, q[i]) \in D
        BY <2>2
      <3>2. k \in Nat
        BY <1>5, <1>4
      <3> HIDE DEF D
      <3> QED BY <3>1, <3>2
    <2>4. /\ now' = e.at /\ now' \in Nat /\ nextSeq' \in Nat
          /\ status' \in {"running", "completed"}
          /\ events' \subseteq Event
          /\ \A f \in events' : Sound(f) /\ f.seq <= nextSeq'
          /\ \A f \in events' : f \in events \/ f.at >= e.at
          /\ \A f \in Event : f.type \notin X => (f \in events' <=> f \in events /\ f # e)
          /\ \A f \in events : f # e => f \in events'
      <3> HIDE DEF X, list
      <3> QED BY <1>7, <2>3, ProceedEffect
    <2>5. queue' \in [Nodes -> Seq(Requests)]
      <3>1. SubSeq(q, k + 1, Len(q)) \in Seq(Requests)
        <4> HIDE DEF q
        <4>1. k \in Nat /\ Len(q) \in Nat /\ k <= Len(q)
          BY <1>4, <1>5
        <4> QED BY <4>1, <1>4
      <3> QED BY <3>1, <1>2, <1>4, <1>7
    <2>6. Returns(e)
      <3>1. TypeOK'
        BY <1>3, <2>4, <2>5 DEF TypeOK, BasicInv
      <3> QED BY <3>1, <2>4 DEF Returns, BasicInv, Sound
    <2>7. KeepsTimers
      <3>1. \A f \in Event : f.type \in TimerEvents => (f \in events' <=> f \in events)
        BY <1>1, <2>4
      <3> QED BY <3>1, <1>3 DEF KeepsTimers
    <2>8. KeepsWork
      BY <1>1, <1>3, <2>4 DEF KeepsWork
    <2>9. \A i \in 1 .. k : /\ Woken(e, i) \in Event
                            /\ Woken(e, i).type = "request.processing_started"
                            /\ Woken(e, i).node = n /\ Woken(e, i).req = q[i]
                            /\ Woken(e, i).seq = nextSeq + i
      <3> TAKE i \in 1 .. k
      <3> DEFINE x == Started(e, q[i])
      <3>1. nextSeq + i \in Nat
        BY <1>2, <1>4, <1>5
      <3>2. x \in Event /\ x.type = "request.processing_started" /\ x.node = n /\ x.req = q[i]
        BY <2>2 DEF Due
      <3> HIDE DEF x
      <3>3. /\ [x EXCEPT !.seq = nextSeq + i] \in Event
            /\ [x EXCEPT !.seq = nextSeq + i].type = x.type
            /\ [x EXCEPT !.seq = nextSeq + i].node = x.node
            /\ [x EXCEPT !.seq = nextSeq + i].req = x.req
            /\ [x EXCEPT !.seq = nextSeq + i].seq = nextSeq + i
        BY <3>1, <3>2, StampedEvent
      <3> QED BY <3>2, <3>3 DEF Woken, x
    <2>10. events' = (events \ {e}) \cup {Woken(e, i) : i \in 1 .. k}
      <3>1. DOMAIN list = 1 .. k /\ \A i \in 1 .. k : list[i] = Started(e, q[i])
        OBVIOUS
      <3>2. Stamped(list, nextSeq) = {[list[i] EXCEPT !.seq = nextSeq + i] : i \in 1 .. k}
        BY <3>1 DEF Stamped
      <3> HIDE DEF list
      <3>3. Stamped(list, nextSeq) = {Woken(e, i) : i \in 1 .. k}
        BY <3>1, <3>2 DEF Woken
      <3> QED BY <3>3, <1>7 DEF Proceed
    <2>11. \A i \in 1 .. k : Woken(e, i) \notin events
      <3> TAKE i \in 1 .. k
      <3>1. Woken(e, i).seq = nextSeq + i /\ nextSeq + i > nextSeq
        BY <2>9, <1>2, <1>4, <1>5
      <3>2. \A g \in events : g.seq <= nextSeq /\ g.seq \in Nat
        BY DEF BasicInv, TypeOK, Event
      <3> QED BY <3>1, <3>2, <1>2
    <2>12. Drains(e)
      <3>1. \A g \in Event : g.type \in RequestEvent
               => (g \in events' <=> g \in events \/ \E i \in 1 .. k : g = Woken(e, i))
        BY <1>1, <2>10
      <3> QED BY <1>1, <1>3, <1>5, <1>7, <2>9, <2>10, <2>11, <3>1 DEF Drains
    <2> QED BY <2>6, <2>7, <2>8, <2>12
  <1> QED BY <1>6, <1>7 DEF QueueDrain

-----------------------------------------------------------------------------
(* All handlers together: what a step may do to the timers, to the slots    *)
(* and to the places of the requests.                                       *)

\* What a handler does to the timers, to the slots and to the places.
TimerPart(e) ==
    \/ KeepsTimers
    \/ \E n \in Nodes : FailsAt(e, n)
    \/ StartsRecovery(e) \/ EndsCycle(e) \/ Revives(e) \/ OpensHalf(e)

WorkPart(e) == KeepsWork \/ Works(e) \/ WorkDone(e) \/ Rescales(e)

PlacePart(e) ==
    \/ \E n \in Nodes : MovesTo(e, n, RequestEvent)
    \/ Joins(e) \/ DisplacesOldest(e) \/ Ends(e) \/ Drains(e) \/ Aside(e)

\* Where a request moves matters only to some properties.
LEMMA MovesSomewhere ==
    ASSUME NEW e, NEW n, NEW types, types \in SUBSET RequestEvent, MovesTo(e, n, types)
    PROVE  MovesTo(e, n, RequestEvent)
  BY DEF MovesTo

\* A handler that throws leaves the model alone; none of a timer does.
LEMMA ThrowStep ==
    ASSUME BasicInv, NEW e \in events, Throw(e)
    PROVE  /\ BasicInv' /\ status' = "failed"
           /\ events' = events \ {e} /\ UNCHANGED <<comp, circuit>>
  <1>1. e.at \in Nat
    BY DEF BasicInv, TypeOK, Event
  <1>2. /\ now' = e.at /\ events' = events \ {e} /\ status' = "failed"
        /\ UNCHANGED <<nextSeq, req, comp, circuit, queue, position, cached>>
    BY DEF Throw, model
  <1>3. TypeOK'
    BY <1>1, <1>2 DEF BasicInv, TypeOK
  <1> QED BY <1>2, <1>3 DEF BasicInv, Sound

\* Every handler throws or has effects of the three kinds.
LEMMA HandlerEffect ==
    ASSUME RuntimeAssumption, BasicInv, WithinSlots, NEW e \in events, Handle(e)
    PROVE  \/ Throw(e) /\ e.type \notin TimerEvents
           \/ Returns(e) /\ TimerPart(e) /\ WorkPart(e) /\ PlacePart(e)
  <1>1. e.node \in Nodes
    BY DEF BasicInv, TypeOK, Event
  <1> USE MovesSomewhere
  <1>2. CASE Created(e) \/ Reroute(e) \/ DatabaseResponse(e)
    <2>1. /\ e.type \in {"request.created", "request.reroute", "database.response"}
          /\ e.type \notin TimerEvents /\ (JustRoutes(e) \/ Throw(e))
      BY <1>2 DEF Created, Reroute, DatabaseResponse, TimerEvents
    <2>2. {"network.transmission_started", "request.completed", "request.failed"}
             \in SUBSET RequestEvent
      BY DEF RequestEvent
    <2> QED BY <1>1, <2>1, <2>2, JustRoutesStep DEF TimerPart, WorkPart, PlacePart
  <1>3. CASE Transmission(e)
    <2>1. /\ {"request.routed"} \in SUBSET RequestEvent
          /\ {"request.reroute", "request.failed"} \in SUBSET RequestEvent
      BY DEF RequestEvent
    <2> QED BY <1>1, <1>3, <2>1, TransmissionStep DEF TimerPart, WorkPart, PlacePart
  <1>4. CASE Routed(e)
    <2>1. Desk \cup {"request.failed"} \in SUBSET RequestEvent /\ e.type \notin TimerEvents
      BY <1>4 DEF RequestEvent, Desk, Routed, TimerEvents
    <2> QED BY <1>1, <1>4, <2>1, RoutedStep DEF TimerPart, WorkPart, PlacePart
  <1>5. CASE CacheMiss(e)
    <2>1. {"request.processing_started"} \in SUBSET RequestEvent
      BY DEF RequestEvent
    <2> QED BY <1>1, <1>5, <2>1, CacheMissStep DEF TimerPart, WorkPart, PlacePart
  <1>6. CASE CacheHit(e)
    <2>1. {"request.failed", "request.completed"} \in SUBSET RequestEvent
      BY DEF RequestEvent
    <2> QED BY <1>1, <1>6, <2>1, CacheHitStep DEF TimerPart, WorkPart, PlacePart
  <1>7. CASE CacheSet(e)
    BY <1>7, CacheSetStep DEF TimerPart, WorkPart, PlacePart
  <1>8. CASE DatabaseRequest(e)
    <2>1. {"request.processing_started"} \in SUBSET RequestEvent
      BY DEF RequestEvent
    <2> QED BY <1>1, <1>8, <2>1, DatabaseRequestStep DEF TimerPart, WorkPart, PlacePart
  <1>9. CASE ProcessingStarted(e)
    <2>1. /\ {"request.failed"} \in SUBSET RequestEvent
          /\ {"request.retry", "request.failed"} \in SUBSET RequestEvent
          /\ {"request.processing_completed"} \in SUBSET RequestEvent
          /\ e.type \notin TimerEvents
      BY <1>9 DEF RequestEvent, ProcessingStarted, TimerEvents
    <2> QED BY <1>1, <1>9, <2>1, ProcessingStartedStep DEF TimerPart, WorkPart, PlacePart, Works
  <1>10. CASE ProcessingCompleted(e)
    <2>1. /\ {"network.transmission_started", "request.completed",
              "request.failed", "database.response"} \in SUBSET RequestEvent
          /\ e.type \notin TimerEvents
      BY <1>10 DEF RequestEvent, ProcessingCompleted, TimerEvents
    <2> QED BY <1>1, <1>10, <2>1, ProcessingCompletedStep, ZenonT(30) DEF TimerPart, WorkPart, PlacePart, WorkDone
  <1>11. CASE QueueDrain(e)
    BY <1>11, QueueDrainStep DEF TimerPart, WorkPart, PlacePart
  <1>12. CASE Completed(e) \/ RequestFailed(e)
    <2>1. e.type \notin TimerEvents
      BY <1>12 DEF Completed, RequestFailed, TimerEvents
    <2> QED BY <1>12, <2>1, EndsStep DEF TimerPart, WorkPart, PlacePart
  <1>13. CASE Retry(e)
    <2>1. {"request.processing_started"} \in SUBSET RequestEvent /\ e.type \notin TimerEvents
      BY <1>13 DEF RequestEvent, Retry, TimerEvents
    <2> QED BY <1>1, <1>13, <2>1, RetryStep DEF TimerPart, WorkPart, PlacePart
  <1>14. CASE ComponentFailed(e)
    BY <1>14, ComponentFailedStep DEF TimerPart, WorkPart, PlacePart
  <1>15. CASE Recovery(e)
    BY <1>15, RecoveryStep DEF TimerPart, WorkPart, PlacePart
  <1>16. CASE Recovered(e)
    BY <1>16, RecoveredStep DEF TimerPart, WorkPart, PlacePart
  <1>17. CASE HalfOpen(e)
    BY <1>17, HalfOpenStep DEF TimerPart, WorkPart, PlacePart
  <1>18. CASE Evaluate(e)
    BY <1>18, EvaluateStep DEF TimerPart, WorkPart, PlacePart
  <1>19. CASE Scaled(e)
    <2>1. e.type \notin TimerEvents
      BY <1>19 DEF Scaled, TimerEvents
    <2> QED BY <1>19, <2>1, ScaledStep DEF TimerPart, WorkPart, PlacePart
  <1> QED BY <1>2, <1>3, <1>4, <1>5, <1>6, <1>7, <1>8, <1>9, <1>10, <1>11, <1>12, <1>13,
             <1>14, <1>15, <1>16, <1>17, <1>18, <1>19 DEF Handle

-----------------------------------------------------------------------------
(* The beginning of a run, and its steps.                                   *)

\* A run begins with one event for each request, of the request, and events of
\* components that are no timers.
LEMMA Beginning ==
    ASSUME RuntimeAssumption, Init
    PROVE  /\ nextSeq \in Nat
           /\ events \subseteq Event
           /\ \A f \in events :
                 /\ Sound(f) /\ f.seq <= nextSeq
                 /\ f.type \in {"request.created", "component.failed", "autoscaling.evaluate"}
           /\ \A r \in Requests : \E f \in events :
                 /\ f.type \in RequestEvent /\ f.req = r
                 /\ \A g \in events : g.type \in RequestEvent /\ g.req = r => g = f
           /\ \A f \in events : f.type = "request.created" => f.at = Arrivals[f.req]
  <1> DEFINE A == [r \in DOMAIN Arrivals |->
                      At(Arrivals[r], "request.created", Source, r, 0)]
             B == [i \in DOMAIN Failures |->
                      At(Failures[i].at, "component.failed", Failures[i].node, NoRequest, 0)]
             C == IF Duration <= EvalInterval THEN <<>>
                  ELSE [i \in DOMAIN Autoscaled |->
                           At(EvalInterval, "autoscaling.evaluate", Autoscaled[i], NoRequest, 0)]
             Own == {"component.failed", "autoscaling.evaluate"}
             OwnEvents == {f \in Event : f.type \in Own /\ Sound(f)}
             Known == {f \in Event : f.type \in Own \cup {"request.created"} /\ Sound(f)}
  <1>1. /\ Own \cap RequestEvent = {} /\ "request.created" \in RequestEvent
        /\ Own \subseteq RequestEvent \cup NodeEvent
    BY DEF RequestEvent, NodeEvent
  <1>2. /\ Source \in Nodes /\ Arrivals \in Seq(Nat) /\ Requests = 1 .. Len(Arrivals)
        /\ Failures \in Seq([node : Nodes, at : 0 .. Duration - 1])
        /\ Autoscaled \in Seq(Nodes) /\ EvalInterval \in Nat /\ Duration \in Nat
    BY DEF RuntimeAssumption
  <1>3. \A r \in 1 .. Len(Arrivals) : A[r] \in Known /\ A[r].type = "request.created" /\ A[r].req = r
                                     /\ A[r].at = Arrivals[r]
    <2> TAKE r \in 1 .. Len(Arrivals)
    <2> DEFINE t == Arrivals[r]  type == "request.created"
    <2>1. At(t, type, Source, r, 0) \in Event
      <3>1. t \in Nat /\ r \in Requests /\ type \in RequestEvent \cup NodeEvent
        BY <1>1, <1>2
      <3> HIDE DEF t, type
      <3> QED BY <1>2, <3>1, EventTypes
    <2> QED BY <2>1, <1>2 DEF At, Sound
  <1>4. \A i \in 1 .. Len(Failures) : B[i] \in OwnEvents
    <2> TAKE i \in 1 .. Len(Failures)
    <2>1. Failures[i].at \in Nat /\ Failures[i].node \in Nodes
      <3> DEFINE F == [node : Nodes, at : 0 .. Duration - 1]
      <3>1. Failures \in Seq(F)
        BY <1>2
      <3>2. F \subseteq [node : Nodes, at : Nat]
        BY <1>2
      <3> HIDE DEF F, A, B, C, Own, OwnEvents, Known
      <3>3. Failures[i] \in [node : Nodes, at : Nat]
        BY <3>1, <3>2
      <3> QED BY <3>3
    <2>2. At(Failures[i].at, "component.failed", Failures[i].node, NoRequest, 0) \in Event
      <3> DEFINE t == Failures[i].at  n == Failures[i].node
      <3>1. "component.failed" \in RequestEvent \cup NodeEvent
        BY <1>1
      <3> HIDE DEF t, n
      <3>2. At(t, "component.failed", n, NoRequest, 0) \in Event
        BY <2>1, <3>1, EventTypes DEF t, n
      <3> QED BY <3>2 DEF t, n
    <2> QED BY <1>2, <2>2 DEF At, Sound, RequestEvent
  <1>5. C \in Seq(OwnEvents)
    <2>1. \A i \in 1 .. Len(Autoscaled) :
             At(EvalInterval, "autoscaling.evaluate", Autoscaled[i], NoRequest, 0) \in OwnEvents
      <3> TAKE i \in 1 .. Len(Autoscaled)
      <3>1. At(EvalInterval, "autoscaling.evaluate", Autoscaled[i], NoRequest, 0) \in Event
        <4> DEFINE n == Autoscaled[i]
        <4>1. n \in Nodes /\ "autoscaling.evaluate" \in RequestEvent \cup NodeEvent
          BY <1>1, <1>2
        <4> HIDE DEF n
        <4> QED BY <1>2, <4>1, EventTypes DEF n
      <3>2. Autoscales(Autoscaled[i])
        <4>1. i \in DOMAIN Autoscaled
          BY <1>2
        <4> QED BY <4>1 DEF Autoscales
      <3> QED BY <3>1, <3>2 DEF At, Sound, RequestEvent
    <2>2. DOMAIN Autoscaled = 1 .. Len(Autoscaled) /\ Len(Autoscaled) \in Nat
      BY <1>2
    <2> HIDE DEF OwnEvents
    <2> QED BY <2>1, <2>2
  <1>6. B \in Seq(OwnEvents)
    <2>1. DOMAIN Failures = 1 .. Len(Failures) /\ Len(Failures) \in Nat
      BY <1>2
    <2> HIDE DEF OwnEvents
    <2> QED BY <2>1, <1>4
  <1>7. A \in Seq(Known) /\ Len(A) = Len(Arrivals) /\ Len(Arrivals) \in Nat
    <2>1. DOMAIN Arrivals = 1 .. Len(Arrivals) /\ Len(Arrivals) \in Nat
      BY <1>2
    <2> HIDE DEF Known
    <2> QED BY <2>1, <1>3
  <1> DEFINE a == Len(Arrivals)
             tail == B \o C
             L == Len(Prepared)
  <1>8. tail \in Seq(OwnEvents)
    <2> HIDE DEF B, C, OwnEvents
    <2> QED BY <1>5, <1>6
  <1>9. Prepared = A \o tail
    <2> DEFINE S == Known \cup OwnEvents
    <2>1. A \in Seq(S) /\ B \in Seq(S) /\ C \in Seq(S)
      <3> HIDE DEF A, B, C, Known, OwnEvents
      <3> QED BY <1>5, <1>6, <1>7
    <2>2. Prepared = (A \o B) \o C
      BY DEF Prepared
    <2> HIDE DEF A, B, C, S
    <2>3. (A \o B) \o C = A \o (B \o C)
      BY <2>1
    <2> QED BY <2>2, <2>3
  <1> HIDE DEF A, B, C, tail
  <1>10. /\ L \in Nat /\ a \in Nat /\ a <= L /\ DOMAIN Prepared = 1 .. L
         /\ \A i \in 1 .. a : Prepared[i] = A[i]
         /\ \A i \in a + 1 .. L : Prepared[i] \in OwnEvents
    <2> HIDE DEF OwnEvents, Known
    <2> QED BY <1>7, <1>8, <1>9
  <1> DEFINE stamped(i) == [Prepared[i] EXCEPT !.seq = 0 + i]
  <1>11. /\ events = {stamped(i) : i \in 1 .. L} /\ nextSeq = L
    BY <1>10 DEF Init, Stamped
  <1>12. \A i \in 1 .. L : /\ stamped(i) \in Known /\ stamped(i).seq = i
                           /\ i \in 1 .. a => /\ stamped(i).type = "request.created"
                                              /\ stamped(i).req = i
                                              /\ stamped(i).at = Arrivals[i]
                           /\ i \notin 1 .. a => stamped(i).type \in Own
    <2> TAKE i \in 1 .. L
    <2> DEFINE x == Prepared[i]
    <2>1. 0 + i = i /\ i \in Nat
      BY <1>10
    <2>2. CASE i \in 1 .. a
      <3>1. x \in Known /\ x.type = "request.created" /\ x.req = i /\ x.at = Arrivals[i]
        BY <2>2, <1>3, <1>10
      <3> HIDE DEF x
      <3>2. /\ x \in Event /\ Sound(x)
            /\ \A k \in Nat :
                 /\ [x EXCEPT !.seq = k] \in Event /\ Sound([x EXCEPT !.seq = k])
                 /\ [x EXCEPT !.seq = k].seq = k
                 /\ [x EXCEPT !.seq = k].type = x.type /\ [x EXCEPT !.seq = k].req = x.req
                 /\ [x EXCEPT !.seq = k].at = x.at
        BY <3>1, StampedEvent
      <3>3. /\ [x EXCEPT !.seq = i] \in Known /\ [x EXCEPT !.seq = i].seq = i
            /\ [x EXCEPT !.seq = i].type = x.type /\ [x EXCEPT !.seq = i].req = x.req
            /\ [x EXCEPT !.seq = i].at = x.at
        BY <2>1, <3>1, <3>2
      <3> QED BY <2>1, <2>2, <3>1, <3>3 DEF x
    <2>3. CASE i \in a + 1 .. L
      <3>1. x \in OwnEvents
        BY <2>3, <1>10
      <3> HIDE DEF x
      <3>2. /\ x \in Event /\ Sound(x)
            /\ \A k \in Nat :
                 /\ [x EXCEPT !.seq = k] \in Event /\ Sound([x EXCEPT !.seq = k])
                 /\ [x EXCEPT !.seq = k].seq = k
                 /\ [x EXCEPT !.seq = k].type = x.type
        BY <3>1, StampedEvent
      <3>4. [x EXCEPT !.seq = i] \in OwnEvents /\ [x EXCEPT !.seq = i].seq = i
        BY <2>1, <3>1, <3>2
      <3>3. i \notin 1 .. a
        BY <2>3, <1>10
      <3> QED BY <2>1, <3>4, <3>3 DEF x
    <2> QED BY <2>2, <2>3, <1>10
  <1> HIDE DEF stamped, L, a
  <1>13. \A r \in Requests : /\ stamped(r) \in events
                             /\ stamped(r).type \in RequestEvent /\ stamped(r).req = r
                             /\ \A g \in events : g.type \in RequestEvent /\ g.req = r
                                                  => g = stamped(r)
    <2> TAKE r \in Requests
    <2>1. r \in 1 .. a /\ r \in 1 .. L
      BY <1>2, <1>10 DEF a
    <2>2. stamped(r) \in events /\ stamped(r).type \in RequestEvent /\ stamped(r).req = r
      BY <2>1, <1>1, <1>11, <1>12
    <2>3. ASSUME NEW i \in 1 .. L, stamped(i).type \in RequestEvent, stamped(i).req = r
          PROVE  stamped(i) = stamped(r)
      <3>1. i \in 1 .. a
        BY <2>3, <1>1, <1>12
      <3> QED BY <2>3, <3>1, <1>12
    <2> QED BY <2>2, <2>3, <1>11
  <1>14. \A i \in 1 .. L : stamped(i).seq <= L
    BY <1>12, <1>10
  <1>15. \A i \in 1 .. L : /\ stamped(i) \in Event /\ Sound(stamped(i))
                           /\ stamped(i).type \in {"request.created", "component.failed",
                                                   "autoscaling.evaluate"}
    BY <1>12
  <1>16. nextSeq \in Nat /\ nextSeq = L
    BY <1>10, <1>11
  <1>18. \A i \in 1 .. L : stamped(i).type = "request.created"
                             => stamped(i).at = Arrivals[stamped(i).req]
    BY <1>12
  <1> HIDE DEF Known, Own, OwnEvents
  <1>17. /\ events \subseteq Event
         /\ \A f \in events :
                 /\ Sound(f) /\ f.seq <= nextSeq
                 /\ f.type \in {"request.created", "component.failed", "autoscaling.evaluate"}
    BY <1>11, <1>14, <1>15, <1>16
  <1>19. \A f \in events : f.type = "request.created" => f.at = Arrivals[f.req]
    BY <1>11, <1>18
  <1> QED BY <1>13, <1>16, <1>17, <1>19

\* What every run has at hand: well-typed state, events that carry what their
\* handlers read, and no component over its slots.
Base == BasicInv /\ WithinSlots

\* No event is due before the clock.
NothingLate == \A e \in events : e.at >= now

\* A prepared run is well typed, and nothing is processed yet.
LEMMA BaseHoldsFirst ==
    ASSUME RuntimeAssumption, Init
    PROVE  Base /\ NothingLate
  <1>1. ModelOK
    <2>1. \A n \in Nodes : Conf[n].replicas \in Nat \ {0}
      <3>1. \A n \in Nodes : Conf[n] \in Config
        BY DEF RuntimeAssumption
      <3> QED BY <3>1 DEF Config
    <2>2. Closed \in Circuit
      BY DEF Closed, Circuit
    <2> QED BY <2>1, <2>2 DEF Init, ModelOK
  <1>2. /\ nextSeq \in Nat /\ events \subseteq Event
        /\ \A f \in events : Sound(f) /\ f.seq <= nextSeq
    BY Beginning
  <1>3. now = 0 /\ status \in {"running", "completed", "failed"}
    BY DEF Init
  <1>4. TypeOK
    BY <1>1, <1>2, <1>3 DEF TypeOK, ModelOK
  <1>5. WithinSlots
    <2> SUFFICES ASSUME NEW n \in Nodes PROVE comp[n].active <= Slots(n)
      BY DEF WithinSlots
    <2>1. comp[n].active = 0 /\ comp[n].replicas \in Nat
      BY <1>1 DEF Init, ModelOK
    <2>2. Conf[n] \in Config
      BY DEF RuntimeAssumption
    <2>3. Conf[n].concurrency \in Nat
      BY <2>2 DEF Config
    <2>4. \A a, b \in Nat : 0 <= a * b
      OBVIOUS
    <2> QED BY <2>1, <2>3, <2>4 DEF Slots
  <1>6. NothingLate
    BY <1>2, <1>3 DEF NothingLate, Event
  <1> QED BY <1>2, <1>4, <1>5, <1>6 DEF Base, BasicInv

\* Only a start takes a slot, when there is one, and a scaling leaves room.
LEMMA WithinSlotsKept ==
    ASSUME RuntimeAssumption, BasicInv, BasicInv', WithinSlots,
           NEW e \in events, WorkPart(e)
    PROVE  WithinSlots'
  <1> SUFFICES ASSUME NEW n \in Nodes PROVE comp'[n].active <= Slots(n)'
    BY DEF WithinSlots
  <1> DEFINE Room(replicas) == replicas * Conf[n].concurrency
  <1>1. /\ comp[n].active \in Nat /\ comp[n].replicas \in Nat
        /\ comp'[n].active \in Nat /\ comp'[n].replicas \in Nat
        /\ e.node \in Nodes
    BY DEF BasicInv, TypeOK, Event
  <1>2. Conf[n] \in Config
    BY DEF RuntimeAssumption
  <1>3. Conf[n].concurrency \in Nat
    BY <1>2 DEF Config
  <1>4. /\ Slots(n) = Room(comp[n].replicas) /\ Slots(n)' = Room(comp'[n].replicas)
        /\ Room(comp[n].replicas) \in Nat /\ Room(comp'[n].replicas) \in Nat
    <2>1. \A a, b \in Nat : a * b \in Nat
      OBVIOUS
    <2> QED BY <2>1, <1>1, <1>3 DEF Slots
  <1>5. comp[n].active <= Room(comp[n].replicas)
    BY <1>4 DEF WithinSlots
  <1>6. comp \in [Nodes -> [ failed : BOOLEAN, active : Nat,
                            replicas : Nat \ {0}, cycle : Nat ]]
    BY DEF BasicInv, TypeOK
  <1>7. CASE KeepsWork
    BY <1>4, <1>5, <1>7 DEF KeepsWork
  <1>8. CASE Works(e)
    <2>1. comp' = [comp EXCEPT ![e.node].active = @ + 1] /\ HasCapacity(e.node)
      BY <1>8 DEF Works
    <2>2. comp'[n].replicas = comp[n].replicas
      BY <1>6, <2>1
    <2>3. CASE n = e.node
      <3>1. comp'[n].active = comp[n].active + 1 /\ comp[n].active < Slots(n)
        BY <1>6, <2>1, <2>3 DEF HasCapacity
      <3> HIDE DEF Room
      <3> QED BY <1>1, <1>4, <2>2, <3>1
    <2>4. CASE n # e.node
      <3>1. comp'[n].active = comp[n].active
        BY <1>6, <2>1, <2>4
      <3> QED BY <1>4, <1>5, <2>2, <3>1
    <2> QED BY <2>3, <2>4
  <1>9. CASE WorkDone(e)
    <2>1. comp' = [comp EXCEPT ![e.node].active = @ - 1]
      BY <1>9 DEF WorkDone
    <2>2. /\ comp'[n].replicas = comp[n].replicas
          /\ comp'[n].active = comp[n].active \/ comp'[n].active = comp[n].active - 1
      BY <1>1, <1>6, <2>1
    <2> HIDE DEF Room
    <2> QED BY <1>1, <1>4, <1>5, <2>2
  <1>10. CASE Rescales(e)
    <2>1. comp'[n].active = comp[n].active
      BY <1>10 DEF Rescales
    <2>2. CASE n = e.node
      <3>1. Room(comp'[n].replicas) >= comp[n].active
        BY <1>10, <2>2 DEF Rescales
      <3> HIDE DEF Room
      <3> QED BY <1>1, <1>4, <2>1, <3>1
    <2>3. CASE n # e.node
      <3>1. comp'[n].replicas = comp[n].replicas
        BY <1>10, <2>3 DEF Rescales
      <3> QED BY <1>4, <1>5, <2>1, <3>1
    <2> QED BY <2>2, <2>3
  <1> QED BY <1>7, <1>8, <1>9, <1>10 DEF WorkPart

\* A step of a run: a handler throws, or returns with effects of three kinds.
LEMMA StepEffect ==
    ASSUME RuntimeAssumption, Base, Next
    PROVE  /\ status = "running"
           /\ \E e \in events :
                 /\ IsNext(e)
                 /\ \/ /\ e.type \notin TimerEvents /\ BasicInv' /\ status' = "failed"
                       /\ now' = e.at /\ events' = events \ {e}
                       /\ UNCHANGED <<comp, circuit>>
                    \/ Returns(e) /\ TimerPart(e) /\ WorkPart(e) /\ PlacePart(e)
  <1>1. status = "running"
    BY DEF Next
  <1>2. PICK e \in events : IsNext(e) /\ Handle(e)
    BY DEF Next
  <1>3. \/ Throw(e) /\ e.type \notin TimerEvents
        \/ Returns(e) /\ TimerPart(e) /\ WorkPart(e) /\ PlacePart(e)
    BY <1>2, HandlerEffect DEF Base
  <1>4. CASE Throw(e) /\ e.type \notin TimerEvents
    <2>1. now' = e.at
      BY <1>4 DEF Throw
    <2>2. BasicInv' /\ status' = "failed" /\ events' = events \ {e} /\ UNCHANGED <<comp, circuit>>
      BY <1>4, ThrowStep DEF Base
    <2> QED BY <1>1, <1>2, <1>4, <2>1, <2>2
  <1> QED BY <1>1, <1>2, <1>3, <1>4

\* Every step keeps the types and the slots.
LEMMA BaseKept ==
    ASSUME RuntimeAssumption, Base, [Next]_vars
    PROVE  Base'
  <1>1. CASE Next
    <2>1. PICK e \in events :
             \/ BasicInv' /\ UNCHANGED comp
             \/ Returns(e) /\ WorkPart(e)
      BY <1>1, StepEffect
    <2>2. CASE BasicInv' /\ UNCHANGED comp
      BY <2>2 DEF Base, WithinSlots, Slots
    <2>3. CASE Returns(e) /\ WorkPart(e)
      BY <2>3, WithinSlotsKept DEF Base, Returns
    <2> QED BY <2>1, <2>2, <2>3
  <1>2. CASE UNCHANGED vars
    BY <1>2 DEF vars, model, Base, BasicInv, TypeOK, Sound, WithinSlots, Slots
  <1> QED BY <1>1, <1>2

\* The state of an engine is well typed, and no component ever processes more
\* requests than it has slots, however failures, retries, drains and scalings
\* follow each other.
THEOREM RuntimeTypes == Spec => [](TypeOK /\ WithinSlots)
  <1>1. Init => Base
    BY BaseHoldsFirst, RuntimeAssumption
  <1>2. Base /\ [Next]_vars => Base'
    BY BaseKept, RuntimeAssumption
  <1>3. Base => TypeOK /\ WithinSlots
    BY DEF Base, BasicInv
  <1> QED BY <1>1, <1>2, <1>3, PTL DEF Spec

\* A step schedules nothing for a time before its own, and takes the first event.
LEMMA NothingLateKept ==
    ASSUME RuntimeAssumption, Base, NothingLate, [Next]_vars
    PROVE  NothingLate'
  <1>1. CASE Next
    <2>1. PICK e \in events :
             /\ IsNext(e) /\ now' = e.at
             /\ \A f \in events' : f \in events \/ f.at >= e.at
      BY <1>1, StepEffect DEF Returns
    <2>2. e.at \in Nat /\ e.at < Duration /\ Duration \in Nat
      BY <2>1, RuntimeAssumption DEF IsNext, Eligible, Base, BasicInv, TypeOK, Event
    <2>3. \A f \in events : f.at >= e.at
      <3> TAKE f \in events
      <3>1. f.at \in Nat
        BY DEF Base, BasicInv, TypeOK, Event
      <3>2. CASE f.at < Duration /\ f # e
        BY <2>1, <2>2, <3>1, <3>2 DEF IsNext, Eligible, Before
      <3> QED BY <2>2, <3>1, <3>2
    <2>4. \A f \in events' : f.at >= e.at
      BY <2>1, <2>3
    <2> QED BY <2>1, <2>4 DEF NothingLate
  <1>2. CASE UNCHANGED vars
    BY <1>2 DEF vars, NothingLate
  <1> QED BY <1>1, <1>2

\* No handler schedules an event for a time that is over: the clock, which
\* refuses to turn back, never has to.
THEOREM TimeMovesOn == Spec => [](\A e \in events : e.at >= now)
  <1>1. Init => Base /\ NothingLate
    BY BaseHoldsFirst, RuntimeAssumption
  <1>2. Base /\ NothingLate /\ [Next]_vars => (Base /\ NothingLate)'
    BY BaseKept, NothingLateKept, RuntimeAssumption
  <1> QED BY <1>1, <1>2, PTL DEF Spec, NothingLate

-----------------------------------------------------------------------------
(* The timers of circuits.  Those of earlier open periods may still be on   *)
(* their way, so it takes more than the property to have an inductive       *)
(* invariant: no timer is of a period to come.                              *)

\* The timers of the circuit of n; the ones of its current generation.
CircuitTimer(f, n) == f.type = "component.circuit_half_open" /\ f.node = n

CurrentTimer(f, n) == CircuitTimer(f, n) /\ f.arg = circuit[n].generation

\* An open circuit has one timer of its generation, any other circuit none.
CircuitTimersMatch(n) ==
    /\ \A f \in events : CircuitTimer(f, n) => f.arg <= circuit[n].generation
    /\ \A f, g \in events : CurrentTimer(f, n) /\ CurrentTimer(g, n) => f = g
    /\ circuit[n].state = "open" <=> \E f \in events : CurrentTimer(f, n)

\* The three things that happen to the circuit of a node and its timers.
CircuitRests(n) ==
    /\ \A g \in Event : CircuitTimer(g, n) => (g \in events' <=> g \in events)
    /\ circuit'[n].generation = circuit[n].generation
    /\ circuit'[n].state = "open" <=> circuit[n].state = "open"

\* The circuit opens, and its timer is scheduled.
CircuitOpens(n) ==
    /\ circuit'[n].state = "open"
    /\ circuit'[n].generation = circuit[n].generation + 1
    /\ \E f \in events' :
          /\ CircuitTimer(f, n) /\ f.arg = circuit[n].generation + 1
          /\ \A g \in Event : CircuitTimer(g, n) => (g \in events' <=> g \in events \/ g = f)

\* A timer goes off: it half-opens the circuit when it is current.
CircuitHears(e, n) ==
    /\ CircuitTimer(e, n)
    /\ circuit'[n] = HalfOpened(circuit[n], e.arg)
    /\ \A g \in Event : CircuitTimer(g, n) => (g \in events' <=> g \in events /\ g # e)

\* A handler does one of these to every circuit.
LEMMA CircuitCases ==
    ASSUME BasicInv, NEW e \in events, TimerPart(e), NEW n \in Nodes
    PROVE  CircuitRests(n) \/ CircuitOpens(n) \/ CircuitHears(e, n)
  <1>1. circuit \in [Nodes -> Circuit]
    BY DEF BasicInv, TypeOK
  <1>2. \A g : CircuitTimer(g, n) => g.type \in TimerEvents
    BY DEF CircuitTimer, TimerEvents
  <1>3. CASE KeepsTimers
    BY <1>2, <1>3 DEF KeepsTimers, CircuitRests
  <1>4. ASSUME NEW m \in Nodes, FailsAt(e, m)
        PROVE  CircuitRests(n) \/ CircuitOpens(n)
    <2>1. PICK c \in Circuit :
             /\ c.state = circuit[m].state /\ c.generation = circuit[m].generation
             /\ c.failures = circuit[m].failures
             /\ circuit' = [circuit EXCEPT ![m] = Failed(m, c)]
      BY <1>4 DEF FailsAt
    <2> DEFINE trips == Conf[m].breaker /\ Trips(circuit[m], Conf[m].threshold)
    <2>2. /\ trips => /\ Failed(m, c).state = "open"
                      /\ Failed(m, c).generation = circuit[m].generation + 1
          /\ ~trips => /\ Failed(m, c).generation = circuit[m].generation
                       /\ Failed(m, c).state = circuit[m].state
      BY <2>1 DEF Failed, AfterFailure, Trips, Circuit
    <2>3. CASE trips
      <3>1. PICK f \in events' :
               /\ f.type = "component.circuit_half_open" /\ f.node = m
               /\ f.arg = circuit[m].generation + 1
               /\ \A g \in Event : g.type \in TimerEvents
                     => (g \in events' <=> g \in events \/ g = f)
        BY <1>4, <2>3 DEF FailsAt
      <3> HIDE DEF trips
      <3>2. CASE m = n
        <4>1. circuit'[n] = Failed(m, c)
          BY <1>1, <2>1, <3>2
        <4>2. CircuitTimer(f, n) /\ f.arg = circuit[n].generation + 1
          BY <3>1, <3>2 DEF CircuitTimer
        <4> QED BY <1>2, <2>2, <2>3, <3>1, <3>2, <4>1, <4>2 DEF CircuitOpens
      <3>3. CASE m # n
        <4>1. circuit'[n] = circuit[n]
          BY <1>1, <2>1, <3>3
        <4>2. ~CircuitTimer(f, n)
          BY <3>1, <3>3 DEF CircuitTimer
        <4> QED BY <1>2, <3>1, <4>1, <4>2 DEF CircuitRests
      <3> QED BY <3>2, <3>3
    <2>4. CASE ~trips
      <3>1. \A g \in Event : g.type \in TimerEvents => (g \in events' <=> g \in events)
        BY <1>4, <2>4 DEF FailsAt
      <3>2. (circuit'[n] = Failed(m, c) /\ m = n) \/ circuit'[n] = circuit[n]
        BY <1>1, <2>1
      <3> HIDE DEF trips
      <3> QED BY <1>2, <2>2, <2>4, <3>1, <3>2 DEF CircuitRests
    <2> QED BY <2>3, <2>4
  <1>5. CASE StartsRecovery(e)
    <2>1. \A g \in Event : CircuitTimer(g, n) => (g \in events' <=> g \in events)
      BY <1>2, <1>5 DEF StartsRecovery, CircuitTimer
    <2> QED BY <1>5, <2>1 DEF StartsRecovery, CircuitRests
  <1>6. CASE EndsCycle(e)
    <2>1. \A g \in Event : CircuitTimer(g, n) => (g \in events' <=> g \in events)
      BY <1>2, <1>6 DEF EndsCycle, CircuitTimer
    <2> QED BY <1>6, <2>1 DEF EndsCycle, CircuitRests
  <1>7. CASE Revives(e)
    BY <1>2, <1>7 DEF Revives, CircuitRests, CircuitTimer
  <1>8. CASE OpensHalf(e)
    <2>1. CASE e.node = n
      BY <1>1, <1>2, <1>8, <2>1 DEF OpensHalf, CircuitHears, CircuitTimer
    <2>2. CASE e.node # n
      BY <1>1, <1>2, <1>8, <2>2 DEF OpensHalf, CircuitRests, CircuitTimer
    <2> QED BY <2>1, <2>2
  <1> QED BY <1>3, <1>4, <1>5, <1>6, <1>7, <1>8 DEF TimerPart

\* So the timers of a circuit go on matching it.
LEMMA CircuitTimersKept ==
    ASSUME BasicInv, BasicInv', NEW e \in events, NEW n \in Nodes,
           CircuitRests(n) \/ CircuitOpens(n) \/ CircuitHears(e, n),
           CircuitTimersMatch(n)
    PROVE  CircuitTimersMatch(n)'
  <1>1. /\ events \subseteq Event /\ events' \subseteq Event
        /\ circuit[n].generation \in Nat /\ circuit'[n].generation \in Nat
        /\ \A f \in Event : f.arg \in Nat
    BY DEF BasicInv, TypeOK, Event, Circuit
  <1>2. CASE CircuitRests(n)
    <2>1. \A f \in events' : CircuitTimer(f, n) => f \in events
      BY <1>1, <1>2 DEF CircuitRests
    <2>2. \A f : CurrentTimer(f, n)' <=> CurrentTimer(f, n)
      BY <1>2 DEF CircuitRests, CurrentTimer, CircuitTimer
    <2>3. (\E f \in events' : CurrentTimer(f, n)) <=> (\E f \in events : CurrentTimer(f, n))
      BY <1>1, <1>2 DEF CircuitRests, CurrentTimer
    <2> QED BY <1>2, <2>1, <2>2, <2>3 DEF CircuitTimersMatch, CircuitRests, CurrentTimer, CircuitTimer
  <1>3. CASE CircuitOpens(n)
    <2> DEFINE new == circuit[n].generation + 1
    <2>1. PICK f \in events' :
             /\ CircuitTimer(f, n) /\ f.arg = new
             /\ \A g \in Event : CircuitTimer(g, n) => (g \in events' <=> g \in events \/ g = f)
      BY <1>3 DEF CircuitOpens
    <2>2. new \in Nat /\ circuit'[n].generation = new /\ circuit'[n].state = "open"
      BY <1>1, <1>3 DEF CircuitOpens
    <2>3. \A g \in events : CircuitTimer(g, n) => g.arg <= new /\ g.arg # new
      BY <1>1 DEF CircuitTimersMatch
    <2> HIDE DEF new
    <2>4. \A g : CurrentTimer(g, n)' <=> CircuitTimer(g, n) /\ g.arg = new
      BY <2>2 DEF CurrentTimer, CircuitTimer
    <2>5. \A g \in events' : CurrentTimer(g, n)' <=> g = f
      BY <1>1, <2>1, <2>3, <2>4
    <2>6. \A g \in events' : CircuitTimer(g, n) => g.arg <= circuit'[n].generation
      BY <1>1, <2>1, <2>2, <2>3
    <2> QED BY <2>1, <2>2, <2>5, <2>6 DEF CircuitTimersMatch, CircuitTimer
  <1>4. CASE CircuitHears(e, n)
    <2>1. /\ circuit'[n].generation = circuit[n].generation
          /\ circuit'[n].state = "open"
                <=> circuit[n].state = "open" /\ e.arg # circuit[n].generation
      BY <1>4 DEF CircuitHears, HalfOpened, BasicInv, TypeOK, Circuit
    <2>2. \A g \in events' : CircuitTimer(g, n) => g \in events /\ g # e
      BY <1>1, <1>4 DEF CircuitHears
    <2>3. \A g \in events : CircuitTimer(g, n) /\ g # e => g \in events'
      BY <1>1, <1>4 DEF CircuitHears
    <2>4. \A g : CurrentTimer(g, n)' <=> CurrentTimer(g, n)
      BY <2>1 DEF CurrentTimer, CircuitTimer
    <2>5. \A g : CurrentTimer(g, n) => CircuitTimer(g, n)
      BY DEF CurrentTimer
    <2>6. CurrentTimer(e, n) <=> e.arg = circuit[n].generation
      BY <1>4 DEF CurrentTimer, CircuitHears
    <2>7. circuit'[n].state = "open" <=> \E g \in events' : CurrentTimer(g, n)
      BY <2>1, <2>2, <2>3, <2>5, <2>6 DEF CircuitTimersMatch
    <2> QED BY <2>1, <2>2, <2>4, <2>5, <2>7 DEF CircuitTimersMatch, CircuitTimer
  <1> QED BY <1>2, <1>3, <1>4

-----------------------------------------------------------------------------
(* The timers of recoveries.  A component has one only while it is down, and *)
(* then of its current cycle.                                                *)

\* The timers that end a failure of n.
RecoveryTimer(f, n) == f.type \in {"component.recovery", "component.recovered"} /\ f.node = n

\* Only a failed component that recovers has such a timer, exactly one, of its
\* current cycle.
RecoveryTimersMatch(n) ==
    /\ \A f \in events : RecoveryTimer(f, n)
          => Conf[n].recovers /\ comp[n].failed /\ f.arg = comp[n].cycle
    /\ \A f, g \in events : RecoveryTimer(f, n) /\ RecoveryTimer(g, n) => f = g
    /\ comp[n].failed /\ Conf[n].recovers => \E f \in events : RecoveryTimer(f, n)

\* The things that happen to a component and its recovery.
RecoveryRests(n) ==
    /\ \A g \in Event : RecoveryTimer(g, n) => (g \in events' <=> g \in events)
    /\ \/ comp'[n].failed <=> comp[n].failed
       \/ comp'[n].failed /\ ~Conf[n].recovers
    /\ comp'[n].cycle = comp[n].cycle

\* The component fails, and its recovery is scheduled.
RecoveryBegins(n) ==
    /\ ~comp[n].failed /\ comp'[n].failed /\ Conf[n].recovers
    /\ \E f \in events' :
          /\ RecoveryTimer(f, n) /\ f.arg = comp'[n].cycle
          /\ \A g \in Event : RecoveryTimer(g, n) => (g \in events' <=> g \in events \/ g = f)

\* Its recovery becomes the event that revives it.
RecoveryDue(e, n) ==
    /\ RecoveryTimer(e, n)
    /\ comp'[n].failed = comp[n].failed /\ comp'[n].cycle = comp[n].cycle
    /\ IF comp[n].failed /\ e.arg = comp[n].cycle
       THEN \E f \in events' :
               /\ RecoveryTimer(f, n) /\ f.arg = e.arg
               /\ \A g \in Event : RecoveryTimer(g, n)
                     => (g \in events' <=> (g \in events /\ g # e) \/ g = f)
       ELSE \A g \in Event : RecoveryTimer(g, n) => (g \in events' <=> g \in events /\ g # e)

\* It works again.
RecoveryEnds(e, n) ==
    /\ RecoveryTimer(e, n)
    /\ ~comp'[n].failed
    /\ \A g \in Event : RecoveryTimer(g, n) => (g \in events' <=> g \in events /\ g # e)

\* A handler does one of these to every component.
LEMMA RecoveryCases ==
    ASSUME BasicInv, NEW e \in events, TimerPart(e), WorkPart(e), NEW n \in Nodes
    PROVE  RecoveryRests(n) \/ RecoveryBegins(n) \/ RecoveryDue(e, n) \/ RecoveryEnds(e, n)
  <1>1. comp \in [Nodes -> [ failed : BOOLEAN, active : Nat,
                             replicas : Nat \ {0}, cycle : Nat ]]
    BY DEF BasicInv, TypeOK
  <1>2. /\ \A g : RecoveryTimer(g, n) => g.type \in TimerEvents
        /\ \A g : RecoveryTimer(g, n) => g.type \notin {"component.circuit_half_open"}
    BY DEF RecoveryTimer, TimerEvents
  <1>3. CASE KeepsTimers
    BY <1>2, <1>3 DEF KeepsTimers, RecoveryRests
  <1>4. ASSUME NEW m \in Nodes, FailsAt(e, m)
        PROVE  RecoveryRests(n)
    <2>1. comp' = comp
      BY <1>4 DEF FailsAt
    <2>2. \A g \in Event : RecoveryTimer(g, n) => (g \in events' <=> g \in events)
      <3>1. CASE \A g \in Event : g.type \in TimerEvents => (g \in events' <=> g \in events)
        BY <1>2, <3>1
      <3>2. CASE \E f \in events' :
                    /\ f.type \in {"component.circuit_half_open"}
                    /\ \A g \in Event : g.type \in TimerEvents
                          => (g \in events' <=> g \in events \/ g = f)
        BY <1>2, <3>2
      <3> QED BY <1>4, <3>1, <3>2 DEF FailsAt
    <2> QED BY <2>1, <2>2 DEF RecoveryRests
  <1>5. CASE StartsRecovery(e)
    <2> DEFINE m == e.node
    <2>1. comp'[m].failed /\ \A k \in Nodes \ {m} : comp'[k] = comp[k]
      BY <1>5 DEF StartsRecovery
    <2>2. CASE ~comp[m].failed /\ Conf[m].recovers
      <3>1. comp'[m].cycle = comp[m].cycle + 1
        BY <1>5, <2>2 DEF StartsRecovery
      <3>2. PICK f \in events' :
               /\ f.type = "component.recovery" /\ f.node = m
               /\ f.arg = comp[m].cycle + 1
               /\ \A g \in Event : g.type \in TimerEvents
                     => (g \in events' <=> g \in events \/ g = f)
        BY <1>5, <2>2 DEF StartsRecovery
      <3>3. CASE m = n
        <4>1. RecoveryTimer(f, n) /\ f.arg = comp'[n].cycle
          BY <3>1, <3>2, <3>3 DEF RecoveryTimer
        <4> QED BY <1>2, <2>1, <2>2, <3>2, <3>3, <4>1 DEF RecoveryBegins
      <3>4. CASE m # n
        <4>1. ~RecoveryTimer(f, n) /\ comp'[n] = comp[n]
          BY <2>1, <3>2, <3>4 DEF RecoveryTimer
        <4> QED BY <1>2, <3>2, <4>1 DEF RecoveryRests
      <3> QED BY <3>3, <3>4
    <2>3. CASE ~(~comp[m].failed /\ Conf[m].recovers)
      <3>1. comp'[m].cycle = comp[m].cycle
        BY <1>5, <2>3 DEF StartsRecovery
      <3>2. \A g \in Event : g.type \in TimerEvents => (g \in events' <=> g \in events)
        BY <1>5, <2>3 DEF StartsRecovery
      <3>4. \/ comp'[n].failed <=> comp[n].failed
            \/ comp'[n].failed /\ ~Conf[n].recovers
        BY <2>1, <2>3
      <3>5. comp'[n].cycle = comp[n].cycle
        BY <2>1, <3>1
      <3> QED BY <1>2, <3>2, <3>4, <3>5 DEF RecoveryRests
    <2> QED BY <2>2, <2>3
  <1>6. CASE EndsCycle(e)
    <2> DEFINE m == e.node
    <2>1. comp' = comp /\ e.type = "component.recovery"
      BY <1>6 DEF EndsCycle
    <2>2. CASE comp[m].failed /\ comp[m].cycle = e.arg
      <3>1. PICK f \in events' :
               /\ f.type = "component.recovered" /\ f.node = m /\ f.arg = e.arg
               /\ \A g \in Event : g.type \in TimerEvents
                     => (g \in events' <=> (g \in events /\ g # e) \/ g = f)
        BY <1>6, <2>2 DEF EndsCycle
      <3>2. CASE m = n
        <4>1. RecoveryTimer(e, n) /\ RecoveryTimer(f, n)
          BY <2>1, <3>1, <3>2 DEF RecoveryTimer
        <4> QED BY <1>2, <2>1, <2>2, <3>1, <3>2, <4>1 DEF RecoveryDue
      <3>3. CASE m # n
        <4>1. ~RecoveryTimer(e, n) /\ ~RecoveryTimer(f, n)
          BY <3>1, <3>3 DEF RecoveryTimer
        <4> QED BY <1>2, <2>1, <3>1, <4>1 DEF RecoveryRests
      <3> QED BY <3>2, <3>3
    <2>3. CASE ~(comp[m].failed /\ comp[m].cycle = e.arg)
      <3>1. \A g \in Event : g.type \in TimerEvents => (g \in events' <=> g \in events /\ g # e)
        BY <1>6, <2>3 DEF EndsCycle
      <3>2. CASE m = n
        <4>1. RecoveryTimer(e, n)
          BY <2>1, <3>2 DEF RecoveryTimer
        <4> QED BY <1>2, <2>1, <2>3, <3>1, <3>2, <4>1 DEF RecoveryDue
      <3>3. CASE m # n
        <4>1. ~RecoveryTimer(e, n)
          BY <3>3 DEF RecoveryTimer
        <4> QED BY <1>2, <2>1, <3>1, <4>1 DEF RecoveryRests
      <3> QED BY <3>2, <3>3
    <2> QED BY <2>2, <2>3
  <1>7. CASE Revives(e)
    <2>1. CASE e.node = n
      <3>1. RecoveryTimer(e, n) /\ ~comp'[n].failed
        BY <1>1, <1>7, <2>1 DEF Revives, RecoveryTimer
      <3> QED BY <1>2, <1>7, <3>1 DEF Revives, RecoveryEnds
    <2>2. CASE e.node # n
      <3>1. ~RecoveryTimer(e, n) /\ comp'[n] = comp[n]
        BY <1>1, <1>7, <2>2 DEF Revives, RecoveryTimer
      <3> QED BY <1>2, <1>7, <3>1 DEF Revives, RecoveryRests
    <2> QED BY <2>1, <2>2
  <1>8. CASE OpensHalf(e)
    <2>1. ~RecoveryTimer(e, n)
      BY <1>8 DEF OpensHalf, RecoveryTimer
    <2> QED BY <1>2, <1>8, <2>1 DEF OpensHalf, RecoveryRests
  <1> QED BY <1>3, <1>4, <1>5, <1>6, <1>7, <1>8 DEF TimerPart

\* So the recoveries of a component go on matching it.
LEMMA RecoveryTimersKept ==
    ASSUME BasicInv, BasicInv', NEW e \in events, NEW n \in Nodes,
           RecoveryRests(n) \/ RecoveryBegins(n) \/ RecoveryDue(e, n) \/ RecoveryEnds(e, n),
           RecoveryTimersMatch(n)
    PROVE  RecoveryTimersMatch(n)'
  <1>1. events \subseteq Event /\ events' \subseteq Event
    BY DEF BasicInv, TypeOK
  <1>2. \A g : RecoveryTimer(g, n)' <=> RecoveryTimer(g, n)
    BY DEF RecoveryTimer
  <1> USE DEF RecoveryTimersMatch
  <1>3. CASE RecoveryRests(n)
    <2>1. \A g \in events' : RecoveryTimer(g, n) => g \in events
      BY <1>1, <1>3 DEF RecoveryRests
    <2>2. \A g \in events : RecoveryTimer(g, n) => g \in events'
      BY <1>1, <1>3 DEF RecoveryRests
    <2> QED BY <1>2, <1>3, <2>1, <2>2 DEF RecoveryRests
  <1>4. CASE RecoveryBegins(n)
    <2>1. PICK f \in events' :
             /\ RecoveryTimer(f, n) /\ f.arg = comp'[n].cycle
             /\ \A g \in Event : RecoveryTimer(g, n) => (g \in events' <=> g \in events \/ g = f)
      BY <1>4 DEF RecoveryBegins
    <2>2. \A g \in events : ~RecoveryTimer(g, n)
      BY <1>4 DEF RecoveryBegins
    <2>3. \A g \in events' : RecoveryTimer(g, n) => g = f
      BY <1>1, <2>1, <2>2
    <2> QED BY <1>2, <1>4, <2>1, <2>3 DEF RecoveryBegins
  <1>5. CASE RecoveryDue(e, n)
    <2>1. PICK f \in events' :
             /\ RecoveryTimer(f, n) /\ f.arg = e.arg
             /\ \A g \in Event : RecoveryTimer(g, n)
                   => (g \in events' <=> (g \in events /\ g # e) \/ g = f)
      BY <1>5 DEF RecoveryDue
    <2>2. \A g \in events' : RecoveryTimer(g, n) => g = f
      BY <1>1, <1>5, <2>1 DEF RecoveryDue
    <2> QED BY <1>2, <1>5, <2>1, <2>2 DEF RecoveryDue
  <1>6. CASE RecoveryEnds(e, n)
    <2>1. \A g \in events' : ~RecoveryTimer(g, n)
      BY <1>1, <1>6 DEF RecoveryEnds
    <2> QED BY <1>2, <1>6, <2>1 DEF RecoveryEnds
  <1> QED BY <1>3, <1>4, <1>5, <1>6

\* A set whose elements are all one has one element.
LEMMA OneElement ==
    ASSUME NEW S
    PROVE  /\ (\E x \in S : \A y \in S : y = x) => Cardinality(S) = 1
           /\ (\A x \in S : FALSE) => Cardinality(S) = 0
  <1>1. ASSUME NEW x \in S, \A y \in S : y = x
        PROVE  Cardinality(S) = 1
    <2>1. S = {x}
      BY <1>1
    <2> QED BY <2>1, FS_Singleton
  <1>2. ASSUME \A x \in S : FALSE
        PROVE  Cardinality(S) = 0
    <2>1. S = {}
      BY <1>2
    <2> QED BY <2>1, FS_EmptySet
  <1> QED BY <1>1, <1>2

\* The invariant of the timers.
TimersInv == \A n \in Nodes : CircuitTimersMatch(n) /\ RecoveryTimersMatch(n)

\* Every step keeps it; a handler that throws is never the one of a timer.
LEMMA TimersKept ==
    ASSUME RuntimeAssumption, Base, Base', TimersInv, [Next]_vars
    PROVE  TimersInv'
  <1> SUFFICES ASSUME NEW n \in Nodes
               PROVE  CircuitTimersMatch(n)' /\ RecoveryTimersMatch(n)'
    BY DEF TimersInv
  <1>1. CircuitTimersMatch(n) /\ RecoveryTimersMatch(n)
    BY DEF TimersInv
  <1>2. CASE Next
    <2>1. PICK e \in events :
             \/ e.type \notin TimerEvents /\ events' = events \ {e} /\ UNCHANGED <<comp, circuit>>
             \/ TimerPart(e) /\ WorkPart(e)
      BY <1>2, StepEffect
    <2>2. CASE e.type \notin TimerEvents /\ events' = events \ {e} /\ UNCHANGED <<comp, circuit>>
      <3>1. ~CircuitTimer(e, n) /\ ~RecoveryTimer(e, n)
        BY <2>2 DEF CircuitTimer, RecoveryTimer, TimerEvents
      <3>2. CircuitRests(n) /\ RecoveryRests(n)
        BY <2>2, <3>1 DEF CircuitRests, RecoveryRests
      <3> QED BY <1>1, <3>2, CircuitTimersKept, RecoveryTimersKept DEF Base
    <2>3. CASE TimerPart(e) /\ WorkPart(e)
      BY <1>1, <2>3, CircuitCases, CircuitTimersKept, RecoveryCases, RecoveryTimersKept DEF Base
    <2> QED BY <2>1, <2>2, <2>3
  <1>3. CASE UNCHANGED vars
    BY <1>1, <1>3 DEF vars, model, CircuitTimersMatch, CurrentTimer, CircuitTimer,
                      RecoveryTimersMatch, RecoveryTimer
  <1> QED BY <1>2, <1>3

\* Whatever is down has exactly one timer that ends it: an open circuit one of
\* its current generation and any other circuit none, a failed component that
\* recovers one of its current cycle, however failures, recoveries and open
\* periods overlap; not even a handler that throws loses one.
THEOREM TimersAlwaysMatch == Spec => []TimersMatch
  <1>1. Init => Base /\ TimersInv
    <2> SUFFICES ASSUME Init PROVE TimersInv
      BY BaseHoldsFirst, RuntimeAssumption
    <2>1. \A f \in events :
             f.type \in {"request.created", "component.failed", "autoscaling.evaluate"}
      BY Beginning, RuntimeAssumption
    <2>2. \A f \in events : \A n : ~CircuitTimer(f, n) /\ ~RecoveryTimer(f, n)
      BY <2>1 DEF CircuitTimer, RecoveryTimer
    <2>3. \A n \in Nodes : circuit[n].state # "open" /\ ~comp[n].failed
      BY DEF Init, Closed
    <2> QED BY <2>2, <2>3 DEF TimersInv, CircuitTimersMatch, CurrentTimer, RecoveryTimersMatch
  <1>2. Base /\ TimersInv /\ [Next]_vars => (Base /\ TimersInv)'
    BY BaseKept, TimersKept, RuntimeAssumption
  <1>3. TimersInv => TimersMatch
    <2> SUFFICES ASSUME TimersInv, NEW n \in Nodes
                 PROVE  LET Timers(types, arg) ==
                              {e \in events : e.type \in types /\ e.node = n /\ e.arg = arg}
                        IN  /\ Cardinality(Timers({"component.circuit_half_open"},
                                                  circuit[n].generation))
                                  = IF circuit[n].state = "open" THEN 1 ELSE 0
                            /\ comp[n].failed /\ Conf[n].recovers
                               => Cardinality(Timers({"component.recovery", "component.recovered"},
                                                     comp[n].cycle)) = 1
      BY DEF TimersMatch
    <2> DEFINE OfCircuit ==
                 {e \in events : /\ e.type \in {"component.circuit_half_open"}
                                 /\ e.node = n /\ e.arg = circuit[n].generation}
               OfRecovery ==
                 {e \in events : /\ e.type \in {"component.recovery", "component.recovered"}
                                 /\ e.node = n /\ e.arg = comp[n].cycle}
    <2>1. \A f : f \in OfCircuit <=> f \in events /\ CurrentTimer(f, n)
      BY DEF CurrentTimer, CircuitTimer
    <2>2. CircuitTimersMatch(n) /\ RecoveryTimersMatch(n)
      BY DEF TimersInv
    <2>3. \A f : f \in OfRecovery <=> f \in events /\ RecoveryTimer(f, n)
      BY <2>2 DEF RecoveryTimer, RecoveryTimersMatch
    <2>4. comp[n].failed /\ Conf[n].recovers => \E x \in OfRecovery : \A y \in OfRecovery : y = x
      <3> HIDE DEF OfRecovery
      <3> QED BY <2>2, <2>3 DEF RecoveryTimersMatch
    <2>5. IF circuit[n].state = "open" THEN \E x \in OfCircuit : \A y \in OfCircuit : y = x
                                       ELSE \A x \in OfCircuit : FALSE
      <3> HIDE DEF OfCircuit
      <3> QED BY <2>1, <2>2 DEF CircuitTimersMatch
    <2>6. /\ Cardinality(OfCircuit) = IF circuit[n].state = "open" THEN 1 ELSE 0
          /\ comp[n].failed /\ Conf[n].recovers => Cardinality(OfRecovery) = 1
      <3> HIDE DEF OfCircuit, OfRecovery
      <3> QED BY <2>4, <2>5, OneElement
    <2> QED BY <2>6
  <1> QED BY <1>1, <1>2, <1>3, PTL DEF Spec

-----------------------------------------------------------------------------
(* The slots of components.                                                 *)

\* The completions scheduled at n; there are as many as n has active requests.
Work(n) == {e \in events : /\ e.type = "request.processing_completed"
                           /\ e.node = n}

WorkMatches(n) == IsFiniteSet(Work(n)) /\ comp[n].active = Cardinality(Work(n))

\* A handler that takes a slot schedules a completion; a completion frees a
\* slot.
LEMMA WorkKept ==
    ASSUME BasicInv, BasicInv', NEW e \in events, WorkPart(e), NEW n \in Nodes, WorkMatches(n)
    PROVE  WorkMatches(n)'
  <1>1. /\ comp \in [Nodes -> [ failed : BOOLEAN, active : Nat,
                                replicas : Nat \ {0}, cycle : Nat ]]
        /\ events \subseteq Event /\ events' \subseteq Event /\ e.node \in Nodes
    BY DEF BasicInv, TypeOK, Event
  <1>2. /\ IsFiniteSet(Work(n)) /\ comp[n].active = Cardinality(Work(n))
        /\ comp[n].active \in Nat
    BY <1>1 DEF WorkMatches
  <1>3. CASE /\ \A f \in Event : f.type = "request.processing_completed"
                                 => (f \in events' <=> f \in events)
             /\ comp'[n].active = comp[n].active
    <2>1. Work(n)' = Work(n)
      BY <1>1, <1>3 DEF Work
    <2> QED BY <1>2, <1>3, <2>1 DEF WorkMatches
  <1>4. CASE KeepsWork \/ Rescales(e)
    BY <1>3, <1>4 DEF KeepsWork, Rescales
  <1>5. CASE Works(e)
    <2>1. comp' = [comp EXCEPT ![e.node].active = @ + 1]
      BY <1>5 DEF Works
    <2>2. PICK f \in events' :
             /\ f \notin events
             /\ f.type \in {"request.processing_completed"} /\ f.node = e.node
             /\ \A g \in Event : g.type \in RequestEvent
                   => (g \in events' <=> (g \in events /\ g # e) \/ g = f)
      BY <1>5 DEF Works, MovesTo
    <2>3. \A g : g.type = "request.processing_completed" => g.type \in RequestEvent /\ g # e
      BY <1>5 DEF RequestEvent, Works
    <2>4. CASE n = e.node
      <3>1. Work(n)' = Work(n) \cup {f}
        BY <1>1, <2>2, <2>3, <2>4 DEF Work
      <3>2. f \notin Work(n) /\ comp'[n].active = comp[n].active + 1
        BY <1>1, <2>1, <2>2, <2>4 DEF Work
      <3>3. IsFiniteSet(Work(n)') /\ Cardinality(Work(n)') = Cardinality(Work(n)) + 1
        BY <1>2, <3>1, <3>2, FS_AddElement
      <3> QED BY <1>2, <3>2, <3>3 DEF WorkMatches
    <2>5. CASE n # e.node
      <3>1. Work(n)' = Work(n)
        BY <1>1, <2>2, <2>3, <2>5 DEF Work
      <3>2. comp'[n].active = comp[n].active
        BY <1>1, <2>1, <2>5
      <3> QED BY <1>2, <3>1, <3>2 DEF WorkMatches
    <2> QED BY <2>4, <2>5
  <1>6. CASE WorkDone(e)
    <2>1. /\ comp' = [comp EXCEPT ![e.node].active = @ - 1]
          /\ e.type = "request.processing_completed"
          /\ \A g \in Event : g.type = "request.processing_completed"
                              => (g \in events' <=> g \in events /\ g # e)
      BY <1>6 DEF WorkDone
    <2>2. CASE n = e.node
      <3>1. Work(n)' = Work(n) \ {e} /\ e \in Work(n)
        BY <1>1, <2>1, <2>2 DEF Work
      <3>2. comp'[n].active = comp[n].active - 1
        BY <1>1, <2>1, <2>2
      <3>3. IsFiniteSet(Work(n)') /\ Cardinality(Work(n)') = Cardinality(Work(n)) - 1
        BY <1>2, <3>1, FS_RemoveElement
      <3> QED BY <1>2, <3>2, <3>3 DEF WorkMatches
    <2>3. CASE n # e.node
      <3>1. Work(n)' = Work(n)
        BY <1>1, <2>1, <2>3 DEF Work
      <3>2. comp'[n].active = comp[n].active
        BY <1>1, <2>1, <2>3
      <3> QED BY <1>2, <3>1, <3>2 DEF WorkMatches
    <2> QED BY <2>2, <2>3
  <1> QED BY <1>4, <1>5, <1>6 DEF WorkPart

\* The invariant of the slots.
WorkInv == status # "failed" => \A n \in Nodes : WorkMatches(n)

\* Every step keeps it.
LEMMA WorkInvKept ==
    ASSUME RuntimeAssumption, Base, Base', WorkInv, [Next]_vars
    PROVE  WorkInv'
  <1>1. CASE Next
    <2>1. status # "failed"
      BY <1>1 DEF Next
    <2>2. PICK e \in events : status' = "failed" \/ WorkPart(e)
      BY <1>1, StepEffect
    <2> QED BY <2>1, <2>2, WorkKept DEF Base, WorkInv
  <1>2. CASE UNCHANGED vars
    BY <1>2 DEF vars, model, WorkInv, WorkMatches, Work
  <1> QED BY <1>1, <1>2

\* It holds when a run has been prepared.
LEMMA WorkInvFirst ==
    ASSUME RuntimeAssumption, Init
    PROVE  WorkInv
  <1>1. \A f \in events :
           f.type \in {"request.created", "component.failed", "autoscaling.evaluate"}
    BY Beginning
  <1>2. \A n \in Nodes : Work(n) = {} /\ comp[n].active = 0
    BY <1>1 DEF Init, Work
  <1> QED BY <1>2, FS_EmptySet DEF WorkInv, WorkMatches

\* The active requests of a component are exactly the ones whose completion is
\* scheduled there, and never more than its slots.
THEOREM ActiveAlwaysMatchesWork == Spec => []ActiveMatchesWork
  <1>1. Init => Base /\ WorkInv
    BY BaseHoldsFirst, WorkInvFirst, RuntimeAssumption
  <1>2. Base /\ WorkInv /\ [Next]_vars => (Base /\ WorkInv)'
    BY BaseKept, WorkInvKept, RuntimeAssumption
  <1>3. Base /\ WorkInv => ActiveMatchesWork
    BY DEF Base, WithinSlots, WorkInv, WorkMatches, Work, ActiveMatchesWork
  <1> QED BY <1>1, <1>2, <1>3, PTL DEF Spec

-----------------------------------------------------------------------------
(* The places of requests: the event that goes on with one, or its place in *)
(* a queue.                                                                 *)

\* Event f continues request r; r waits at place i of the queue of n.
GoesOn(f, r) == f.type \in RequestEvent /\ f.req = r

Waiting(r, n, i) == n \in Nodes /\ i \in DOMAIN queue[n] /\ queue[n][i] = r

\* Every request that is not over has one place, any other none.
PlacesOK ==
    /\ \A f, g \in events : \A r : GoesOn(f, r) /\ GoesOn(g, r) => f = g
    /\ \A r, m, n, i, j : Waiting(r, m, i) /\ Waiting(r, n, j) => m = n /\ i = j
    /\ \A f \in events : \A r, n, i : GoesOn(f, r) => ~Waiting(r, n, i)
    /\ \A r \in Requests : ~Over(r) <=> \/ \E f \in events : GoesOn(f, r)
                                        \/ \E n, i : Waiting(r, n, i)

\* Whoever waits, and whoever an event goes on with, is a request.
LEMMA PlacesOfRequests ==
    ASSUME BasicInv
    PROVE  /\ \A f \in events : \A r : GoesOn(f, r) => r \in Requests
           /\ \A r, n, i : Waiting(r, n, i) => r \in Requests
           /\ \A n \in Nodes : queue[n] \in Seq(Requests)
  <1>1. \A f \in events : \A r : GoesOn(f, r) => r \in Requests
    BY DEF BasicInv, Sound, GoesOn
  <1>2. \A n \in Nodes : queue[n] \in Seq(Requests)
    BY DEF BasicInv, TypeOK
  <1>3. \A n \in Nodes : \A i \in DOMAIN queue[n] : queue[n][i] \in Requests
    <2> TAKE n \in Nodes
    <2> DEFINE q == queue[n]
    <2>1. q \in Seq(Requests)
      BY <1>2
    <2> HIDE DEF q
    <2>2. \A i \in DOMAIN q : q[i] \in Requests
      BY <2>1
    <2> QED BY <2>2 DEF q
  <1> QED BY <1>1, <1>2, <1>3 DEF Waiting

\* An event in the place of an event keeps the places in order.
LEMMA MovesKeepsPlaces ==
    ASSUME BasicInv, BasicInv', PlacesOK, NEW e \in events, NEW n, MovesTo(e, n, RequestEvent)
    PROVE  PlacesOK'
  <1>1. events \subseteq Event /\ events' \subseteq Event
    BY DEF BasicInv, TypeOK
  <1>2. PICK f \in events' :
           /\ f \notin events
           /\ f.type \in RequestEvent /\ f.req = e.req
           /\ \A g \in Event : g.type \in RequestEvent
                 => (g \in events' <=> (g \in events /\ g # e) \/ g = f)
    BY DEF MovesTo
  <1>3. /\ e.type \in RequestEvent /\ queue' = queue
        /\ \A r \in Requests : Over(r)' <=> Over(r)
    BY DEF MovesTo, NobodyEnds
  <1>4. \A r, m, i : Waiting(r, m, i)' <=> Waiting(r, m, i)
    BY <1>3 DEF Waiting
  <1>5. /\ \A g, r : GoesOn(g, r)' <=> GoesOn(g, r)
        /\ \A r : GoesOn(f, r) <=> GoesOn(e, r)
        /\ \A g \in events' : \A r : GoesOn(g, r) => g = f \/ (g \in events /\ g # e)
        /\ \A g \in events : \A r : GoesOn(g, r) => g = e \/ g \in events'
    BY <1>1, <1>2, <1>3 DEF GoesOn
  <1> QED BY <1>3, <1>4, <1>5 DEF PlacesOK

\* So does joining a queue, for the request of the event that is handled.
LEMMA JoinsKeepsPlaces ==
    ASSUME BasicInv, BasicInv', PlacesOK, NEW e \in events, Joins(e)
    PROVE  PlacesOK'
  <1>1. events \subseteq Event /\ events' \subseteq Event /\ e.node \in Nodes
    BY DEF BasicInv, TypeOK, Event
  <1>2. /\ e.type \in RequestEvent
        /\ \A g \in Event : g.type \in RequestEvent => (g \in events' <=> g \in events /\ g # e)
        /\ \A r \in Requests : Over(r)' <=> Over(r)
        /\ queue' = [queue EXCEPT ![e.node] = Append(@, e.req)]
    BY DEF Joins, RequestEvent
  <1> DEFINE q == queue[e.node]
             last == Len(q) + 1
  <1>3. e.req \in Requests /\ q \in Seq(Requests)
    BY <1>1, <1>2, PlacesOfRequests DEF GoesOn
  <1>4. /\ last \notin DOMAIN q
        /\ DOMAIN Append(q, e.req) = DOMAIN q \cup {last}
        /\ \A i \in DOMAIN q : Append(q, e.req)[i] = q[i]
        /\ Append(q, e.req)[last] = e.req
    <2> HIDE DEF q
    <2> QED BY <1>3
  <1>5. /\ queue'[e.node] = Append(q, e.req)
        /\ \A m \in Nodes : m # e.node => queue'[m] = queue[m]
    BY <1>1, <1>2 DEF BasicInv, TypeOK
  <1> HIDE DEF last
  <1>6. \A r, m, i : Waiting(r, m, i)'
           <=> Waiting(r, m, i) \/ (r = e.req /\ m = e.node /\ i = last)
    BY <1>1, <1>4, <1>5 DEF Waiting
  <1>7. \A r : ~Waiting(r, e.node, last)
    BY <1>4 DEF Waiting
  <1>8. /\ \A g, r : GoesOn(g, r)' <=> GoesOn(g, r)
        /\ GoesOn(e, e.req)
        /\ \A g \in events' : \A r : GoesOn(g, r) => g \in events /\ g # e
        /\ \A g \in events : \A r : GoesOn(g, r) => g = e \/ g \in events'
        /\ \A r : GoesOn(e, r) => r = e.req
    BY <1>1, <1>2 DEF GoesOn
  <1> QED BY <1>2, <1>6, <1>7, <1>8 DEF PlacesOK

\* So does joining a full one, for the head leaves it for an event of its own.
LEMMA DisplacesKeepsPlaces ==
    ASSUME BasicInv, BasicInv', PlacesOK, NEW e \in events, DisplacesOldest(e)
    PROVE  PlacesOK'
  <1>1. events \subseteq Event /\ events' \subseteq Event /\ e.node \in Nodes
    BY DEF BasicInv, TypeOK, Event
  <1> DEFINE q == queue[e.node]
             old == Head(q)
             new == Append(Tail(q), e.req)
  <1>2. /\ e.type \in RequestEvent /\ q # <<>>
        /\ \A r \in Requests : Over(r)' <=> Over(r)
        /\ queue' = [queue EXCEPT ![e.node] = new]
    BY DEF DisplacesOldest, RequestEvent
  <1>3. PICK f \in events' :
           /\ f \notin events
           /\ f.type \in RequestEvent /\ f.req = old
           /\ \A g \in Event : g.type \in RequestEvent
                 => (g \in events' <=> (g \in events /\ g # e) \/ g = f)
    BY DEF DisplacesOldest, RequestEvent
  <1>4. e.req \in Requests /\ q \in Seq(Requests)
    BY <1>1, <1>2, PlacesOfRequests DEF GoesOn
  <1>5. /\ Len(q) \in Nat /\ Len(q) # 0 /\ DOMAIN q = 1 .. Len(q) /\ q[1] = old
        /\ DOMAIN new = 1 .. Len(q)
        /\ \A i \in 1 .. Len(q) : new[i] = IF i = Len(q) THEN e.req ELSE q[i + 1]
    <2> HIDE DEF q
    <2> QED BY <1>2, <1>4
  <1>6. /\ queue'[e.node] = new
        /\ \A m \in Nodes : m # e.node => queue'[m] = queue[m]
    BY <1>1, <1>2 DEF BasicInv, TypeOK
  <1> DEFINE Stays(r, i) == i \in 1 .. Len(q) /\ i # Len(q) /\ q[i + 1] = r
  <1>7. \A r, i : Waiting(r, e.node, i)'
           <=> Stays(r, i) \/ (r = e.req /\ i = Len(q))
    <2> DEFINE size == Len(q)
               X == DOMAIN new
    <2>1. \A r, i : Waiting(r, e.node, i)' <=> i \in X /\ new[i] = r
      BY <1>1, <1>6 DEF Waiting
    <2>2. X = 1 .. size /\ size \in X
      BY <1>5
    <2>3. \A i \in X : new[i] = IF i = size THEN e.req ELSE q[i + 1]
      BY <1>5
    <2>4. \A r, i : Stays(r, i) <=> i \in X /\ i # size /\ q[i + 1] = r
      BY <2>2
    <2> HIDE DEF Stays, q, new, old, size, X
    <2>5. \A r, i : Waiting(r, e.node, i)' <=> Stays(r, i) \/ (r = e.req /\ i = size)
      BY <2>1, <2>2, <2>3, <2>4
    <2> QED BY <2>5 DEF size
  <1>8. \A r, m, i : m # e.node => (Waiting(r, m, i)' <=> Waiting(r, m, i))
    BY <1>6 DEF Waiting
  <1>9. \A r, i : Stays(r, i) => Waiting(r, e.node, i + 1) /\ i \in Nat /\ i + 1 # 1
    <2> HIDE DEF q, new, old
    <2> QED BY <1>1, <1>5 DEF Waiting, q
  <1>10. \A r, i : Waiting(r, e.node, i) => (i = 1 /\ r = old) \/ \E j : Stays(r, j)
    <2> TAKE r, i
    <2> HAVE Waiting(r, e.node, i)
    <2>1. i \in 1 .. Len(q) /\ q[i] = r
      BY <1>5 DEF Waiting
    <2> HIDE DEF q, new
    <2>2. CASE i # 1
      <3> DEFINE j == i - 1
      <3>1. j \in 1 .. Len(q) /\ j # Len(q) /\ j + 1 = i
        <4> DEFINE size == Len(q)
        <4>1. size \in Nat /\ i \in 1 .. size
          BY <1>5, <2>1
        <4> HIDE DEF size, old, Stays
        <4>2. j \in 1 .. size /\ j # size /\ j + 1 = i
          BY <2>2, <4>1
        <4> QED BY <4>2 DEF size
      <3> QED BY <2>1, <3>1
    <2> QED BY <1>5, <2>1, <2>2
  <1>11. Waiting(old, e.node, 1)
    <2>1. 1 \in DOMAIN q
      BY <1>5
    <2> QED BY <1>1, <1>5, <2>1 DEF Waiting
  <1>12. /\ \A g, r : GoesOn(g, r)' <=> GoesOn(g, r)
         /\ \A r : GoesOn(e, r) <=> r = e.req
         /\ \A r : GoesOn(f, r) <=> r = old
         /\ \A g \in events' : \A r : GoesOn(g, r) => g = f \/ (g \in events /\ g # e)
         /\ \A g \in events : \A r : GoesOn(g, r) => g = e \/ g \in events'
    BY <1>1, <1>2, <1>3 DEF GoesOn
  <1>13. e.req # old
    BY <1>11, <1>12 DEF PlacesOK
  <1>14. \A r, i, j : Stays(r, i) /\ Stays(r, j) => i = j
    <2> TAKE r, i, j
    <2> HAVE Stays(r, i) /\ Stays(r, j)
    <2> DEFINE k == i + 1  l == j + 1
    <2>1. Waiting(r, e.node, k) /\ Waiting(r, e.node, l) /\ i \in Nat /\ j \in Nat
      BY <1>9
    <2>2. k = l
      <3> HIDE DEF k, l, q, old, new, Stays
      <3> QED BY <2>1 DEF PlacesOK
    <2> HIDE DEF q, old, new, Stays
    <2> QED BY <2>1, <2>2
  <1>15. \A r, i : Stays(r, i) => r # old /\ r # e.req /\ \A m, k : Waiting(r, m, k) => m = e.node
    BY <1>9, <1>11, <1>12 DEF PlacesOK
  <1> DEFINE end == Len(q)
  <1>16. \A r, i : Waiting(r, e.node, i)' <=> Stays(r, i) \/ (r = e.req /\ i = end)
    BY <1>7
  <1> HIDE DEF q, old, new, Stays, end
  <1>17. \A r, i : Stays(r, i) => \E k : Waiting(r, e.node, k)
    BY <1>9
  <1>18. \A r, m, i : Waiting(r, m, i) => \/ r = old /\ m = e.node
                                          \/ \E j : Stays(r, j) /\ m = e.node
                                          \/ m # e.node
    BY <1>10
  <1>19. \A g, h \in events' : \A r : GoesOn(g, r)' /\ GoesOn(h, r)' => g = h
    BY <1>3, <1>11, <1>12 DEF PlacesOK
  <1>20. \A r, m, n, i, j : Waiting(r, m, i)' /\ Waiting(r, n, j)' => m = n /\ i = j
    BY <1>8, <1>12, <1>14, <1>15, <1>16, <1>17 DEF PlacesOK
  <1>21. \A g \in events' : \A r, m, i : GoesOn(g, r)' => ~Waiting(r, m, i)'
    BY <1>8, <1>11, <1>12, <1>13, <1>15, <1>16, <1>17 DEF PlacesOK
  <1>22. \A r \in Requests : ~Over(r)' <=> \/ \E g \in events' : GoesOn(g, r)'
                                           \/ \E m, i : Waiting(r, m, i)'
    <2> TAKE r \in Requests
    <2>1. CASE r = e.req
      BY <1>2, <1>12, <1>16, <2>1 DEF PlacesOK
    <2>2. CASE r = old
      BY <1>2, <1>3, <1>11, <1>12, <2>2 DEF PlacesOK
    <2>3. CASE r # e.req /\ r # old
      <3>1. (\E g \in events' : GoesOn(g, r)') <=> (\E g \in events : GoesOn(g, r))
        BY <1>12, <2>3
      <3>2. (\E m, i : Waiting(r, m, i)') <=> (\E m, i : Waiting(r, m, i))
        BY <1>8, <1>16, <1>17, <1>18, <2>3
      <3> QED BY <1>2, <3>1, <3>2 DEF PlacesOK
    <2> QED BY <2>1, <2>2, <2>3
  <1> QED BY <1>19, <1>20, <1>21, <1>22 DEF PlacesOK

\* A request that ends loses its only place.
LEMMA EndsKeepsPlaces ==
    ASSUME BasicInv, BasicInv', PlacesOK, NEW e \in events, Ends(e)
    PROVE  PlacesOK'
  <1>1. events \subseteq Event /\ events' \subseteq Event
    BY DEF BasicInv, TypeOK
  <1>2. /\ e.type \in RequestEvent /\ queue' = queue
        /\ \A g \in Event : g.type \in RequestEvent => (g \in events' <=> g \in events /\ g # e)
        /\ \A r \in Requests : Over(r)' <=> Over(r) \/ r = e.req
    BY DEF Ends
  <1>3. \A r, m, i : Waiting(r, m, i)' <=> Waiting(r, m, i)
    BY <1>2 DEF Waiting
  <1>4. /\ \A g, r : GoesOn(g, r)' <=> GoesOn(g, r)
        /\ \A r : GoesOn(e, r) <=> r = e.req
        /\ \A g \in events' : \A r : GoesOn(g, r) => g \in events /\ g # e
        /\ \A g \in events : \A r : GoesOn(g, r) => g = e \/ g \in events'
    BY <1>1, <1>2 DEF GoesOn
  <1>5. \A r \in Requests : ~Over(r)' <=> \/ \E g \in events' : GoesOn(g, r)'
                                          \/ \E m, i : Waiting(r, m, i)'
    <2> TAKE r \in Requests
    <2>1. CASE r = e.req
      <3>1. \A g \in events' : ~GoesOn(g, r)
        BY <1>4, <2>1 DEF PlacesOK
      <3>2. \A m, i : ~Waiting(r, m, i)
        BY <1>4, <2>1 DEF PlacesOK
      <3> QED BY <1>2, <1>3, <1>4, <2>1, <3>1, <3>2
    <2>2. CASE r # e.req
      BY <1>2, <1>3, <1>4, <2>2 DEF PlacesOK
    <2> QED BY <2>1, <2>2
  <1> QED BY <1>3, <1>4, <1>5 DEF PlacesOK

\* The requests a drain fetches leave the queue for events of their own.
LEMMA DrainsKeepsPlaces ==
    ASSUME BasicInv, BasicInv', PlacesOK, NEW e \in events, Drains(e)
    PROVE  PlacesOK'
  <1>1. events \subseteq Event /\ events' \subseteq Event /\ e.node \in Nodes
    BY DEF BasicInv, TypeOK, Event
  <1> DEFINE n == e.node
             q == queue[n]
  <1>2. req' = req
    BY DEF Drains
  <1>3. PICK k \in 0 .. Len(q) :
          /\ queue' = [queue EXCEPT ![n] = SubSeq(@, k + 1, Len(@))]
          /\ \A i \in 1 .. k :
                /\ Woken(e, i) \in events' \ events
                /\ Woken(e, i).type = "request.processing_started"
                /\ Woken(e, i).node = n
                /\ Woken(e, i).req = q[i]
          /\ \A g \in Event : g.type \in RequestEvent
                => (g \in events' <=> g \in events \/ \E i \in 1 .. k : g = Woken(e, i))
    BY DEF Drains
  <1>4. q \in Seq(Requests) /\ Len(q) \in Nat /\ k \in Nat /\ k <= Len(q)
        /\ DOMAIN q = 1 .. Len(q)
    <2>1. q \in Seq(Requests)
      BY <1>1, PlacesOfRequests
    <2> HIDE DEF q
    <2> QED BY <2>1
  <1> DEFINE new == SubSeq(q, k + 1, Len(q))
             Shift(i) == i + k
             X == DOMAIN new
             L == Len(q)
  <1>5. /\ \A i \in X : i \in Nat /\ Shift(i) \in 1 .. L /\ Shift(i) \notin 1 .. k
        /\ \A j \in 1 .. L : j \notin 1 .. k => \E i \in X : Shift(i) = j
        /\ \A i \in X : new[i] = q[Shift(i)]
        /\ \A i, j \in X : Shift(i) = Shift(j) => i = j
        /\ \A i \in 1 .. k : i \in 1 .. L
    <2>1. L \in Nat /\ k \in Nat /\ k <= L /\ q \in Seq(Requests)
      BY <1>4
    <2>2. X = 1 .. L - k /\ \A i \in X : new[i] = q[i + k]
      <3> HIDE DEF q
      <3> QED BY <2>1
    <2> HIDE DEF q, new, X, L
    <2>3. \A j \in 1 .. L : j \notin 1 .. k => \E i \in X : Shift(i) = j
      <3> TAKE j \in 1 .. L
      <3> HAVE j \notin 1 .. k
      <3>1. j - k \in X /\ Shift(j - k) = j
        BY <2>1, <2>2
      <3> QED BY <3>1
    <2>4. \A i \in X : i \in Nat /\ Shift(i) \in 1 .. L /\ Shift(i) \notin 1 .. k
      BY <2>1, <2>2
    <2>5. \A i, j \in X : Shift(i) = Shift(j) => i = j
      BY <2>1, <2>4
    <2>6. \A i \in 1 .. k : i \in 1 .. L
      BY <2>1
    <2> QED BY <2>2, <2>3, <2>4, <2>5, <2>6
  <1>6. /\ queue'[n] = new
        /\ \A m \in Nodes : m # n => queue'[m] = queue[m]
    BY <1>1, <1>3 DEF BasicInv, TypeOK
  <1> DEFINE Out == 1 .. k
             In == 1 .. L
             Start(i) == Woken(e, i)
  <1>7. /\ \A r, i : Waiting(r, n, i) <=> i \in In /\ q[i] = r
        /\ \A r, i : Waiting(r, n, i)' <=> i \in X /\ q[Shift(i)] = r
        /\ \A r, m, i : m # n => (Waiting(r, m, i)' <=> Waiting(r, m, i))
    <2>1. \A r, i : Waiting(r, n, i) <=> i \in In /\ q[i] = r
      BY <1>1, <1>4 DEF Waiting
    <2>2. \A r, i : Waiting(r, n, i)' <=> i \in X /\ new[i] = r
      BY <1>1, <1>6 DEF Waiting
    <2>3. \A r, m, i : m # n => (Waiting(r, m, i)' <=> Waiting(r, m, i))
      BY <1>6 DEF Waiting
    <2>4. \A i \in X : new[i] = q[Shift(i)]
      BY <1>5
    <2> HIDE DEF new, q, X, Shift, In
    <2> QED BY <2>1, <2>2, <2>3, <2>4
  <1>8. /\ \A i \in X : Shift(i) \in In /\ Shift(i) \notin Out
        /\ \A j \in In : j \notin Out => \E i \in X : Shift(i) = j
        /\ \A i, j \in X : Shift(i) = Shift(j) => i = j
        /\ Out \subseteq In
    BY <1>5
  <1>9. /\ \A i \in Out : Start(i) \in events' /\ Start(i) \notin events
        /\ \A i \in Out : \A r : GoesOn(Start(i), r) <=> r = q[i]
        /\ \A g \in events' : \A r : GoesOn(g, r) => g \in events \/ \E i \in Out : g = Start(i)
        /\ \A g \in events : \A r : GoesOn(g, r) => g \in events'
        /\ \A g, r : GoesOn(g, r)' <=> GoesOn(g, r)
    BY <1>1, <1>3 DEF GoesOn, RequestEvent
  <1> HIDE DEF q, new, X, L, Out, In, Start, Shift, n
  <1>10. /\ \A r, i : Waiting(r, n, i)' => Waiting(r, n, Shift(i))
         /\ \A i \in Out : Waiting(q[i], n, i)
    BY <1>7, <1>8
  <1>11. \A g, h \in events' : \A r : GoesOn(g, r)' /\ GoesOn(h, r)' => g = h
    <2> SUFFICES ASSUME NEW g \in events', NEW h \in events', NEW r, GoesOn(g, r), GoesOn(h, r)
                 PROVE  g = h
      BY <1>9
    <2>1. CASE g \in events /\ h \in events
      BY <2>1 DEF PlacesOK
    <2>2. CASE g \in events /\ h \notin events
      BY <2>2, <1>9, <1>10 DEF PlacesOK
    <2>3. CASE g \notin events /\ h \in events
      BY <2>3, <1>9, <1>10 DEF PlacesOK
    <2>4. CASE g \notin events /\ h \notin events
      <3>1. PICK i \in Out, j \in Out : g = Start(i) /\ h = Start(j)
        BY <2>4, <1>9
      <3>2. Waiting(r, n, i) /\ Waiting(r, n, j)
        BY <3>1, <1>9, <1>10
      <3> QED BY <3>1, <3>2 DEF PlacesOK
    <2> QED BY <2>1, <2>2, <2>3, <2>4
  <1>12. \A r, l, m, i, j : Waiting(r, l, i)' /\ Waiting(r, m, j)' => l = m /\ i = j
    <2> SUFFICES ASSUME NEW r, NEW l, NEW m, NEW i, NEW j, Waiting(r, l, i)', Waiting(r, m, j)'
                 PROVE  l = m /\ i = j
      OBVIOUS
    <2>1. CASE l = n /\ m = n
      <3>1. Waiting(r, n, Shift(i)) /\ Waiting(r, n, Shift(j)) /\ i \in X /\ j \in X
        BY <2>1, <1>7, <1>10
      <3> QED BY <2>1, <3>1, <1>8 DEF PlacesOK
    <2>2. CASE l # n /\ m # n
      BY <2>2, <1>7 DEF PlacesOK
    <2>3. CASE l = n /\ m # n
      BY <2>3, <1>7, <1>10 DEF PlacesOK
    <2>4. CASE l # n /\ m = n
      BY <2>4, <1>7, <1>10 DEF PlacesOK
    <2> QED BY <2>1, <2>2, <2>3, <2>4
  <1>13. \A g \in events' : \A r, m, i : GoesOn(g, r)' => ~Waiting(r, m, i)'
    <2> SUFFICES ASSUME NEW g \in events', NEW r, NEW m, NEW i, GoesOn(g, r), Waiting(r, m, i)'
                 PROVE  FALSE
      BY <1>9
    <2>1. PICK j : Waiting(r, m, j) /\ (m = n => j \notin Out)
      BY <1>7, <1>8, <1>10
    <2>2. CASE g \in events
      BY <2>1, <2>2 DEF PlacesOK
    <2>3. CASE g \notin events
      <3>1. PICK k2 \in Out : Waiting(r, n, k2)
        BY <2>3, <1>9, <1>10
      <3> QED BY <2>1, <3>1 DEF PlacesOK
    <2> QED BY <2>2, <2>3
  <1>14. \A r \in Requests : ~Over(r)' <=> \/ \E g \in events' : GoesOn(g, r)'
                                           \/ \E m, i : Waiting(r, m, i)'
    <2> TAKE r \in Requests
    <2>1. Over(r)' <=> Over(r)
      BY <1>2 DEF Over
    <2>2. (\E g \in events : GoesOn(g, r)) => (\E g \in events' : GoesOn(g, r)')
      BY <1>9
    <2>3. ASSUME NEW m, NEW i, Waiting(r, m, i)
          PROVE  (\E g \in events' : GoesOn(g, r)') \/ (\E l, j : Waiting(r, l, j)')
      <3>1. CASE m # n
        BY <2>3, <3>1, <1>7
      <3>2. CASE m = n /\ i \in Out
        BY <2>3, <3>2, <1>7, <1>9
      <3>3. CASE m = n /\ i \notin Out
        BY <2>3, <3>3, <1>7, <1>8
      <3> QED BY <3>1, <3>2, <3>3
    <2>4. (\E g \in events' : GoesOn(g, r)')
             => (\E g \in events : GoesOn(g, r)) \/ \E i : Waiting(r, n, i)
      BY <1>9, <1>10
    <2>5. (\E m, i : Waiting(r, m, i)') => \E m, i : Waiting(r, m, i)
      BY <1>7, <1>10
    <2> QED BY <2>1, <2>2, <2>3, <2>4, <2>5 DEF PlacesOK
  <1> QED BY <1>11, <1>12, <1>13, <1>14 DEF PlacesOK

\* Events of components are nobody's place.
LEMMA AsideKeepsPlaces ==
    ASSUME BasicInv, BasicInv', PlacesOK, NEW e \in events, Aside(e)
    PROVE  PlacesOK'
  <1>1. events \subseteq Event /\ events' \subseteq Event
    BY DEF BasicInv, TypeOK
  <1>2. /\ queue' = queue /\ req' = req
        /\ \A g \in Event : g.type \in RequestEvent => (g \in events' <=> g \in events)
    BY DEF Aside
  <1>3. /\ \A r, m, i : Waiting(r, m, i)' <=> Waiting(r, m, i)
        /\ \A g, r : GoesOn(g, r)' <=> GoesOn(g, r)
        /\ \A r : Over(r)' <=> Over(r)
    BY <1>2 DEF Waiting, GoesOn, Over
  <1>4. /\ \A g \in events' : \A r : GoesOn(g, r) => g \in events
        /\ \A g \in events : \A r : GoesOn(g, r) => g \in events'
    BY <1>1, <1>2 DEF GoesOn
  <1> QED BY <1>3, <1>4 DEF PlacesOK

\* The invariant of the places.
PlacesInv == status # "failed" => PlacesOK

\* Every step keeps it.
LEMMA PlacesInvKept ==
    ASSUME RuntimeAssumption, Base, Base', PlacesInv, [Next]_vars
    PROVE  PlacesInv'
  <1>1. CASE Next
    <2>1. status # "failed"
      BY <1>1 DEF Next
    <2>2. PICK e \in events : status' = "failed" \/ PlacePart(e)
      BY <1>1, StepEffect
    <2>3. PlacesOK
      BY <2>1 DEF PlacesInv
    <2>4. CASE PlacePart(e)
      BY <2>3, <2>4, MovesKeepsPlaces, JoinsKeepsPlaces, DisplacesKeepsPlaces,
         EndsKeepsPlaces, DrainsKeepsPlaces, AsideKeepsPlaces DEF PlacePart, Base, PlacesInv
    <2> QED BY <2>2, <2>4 DEF PlacesInv
  <1>2. CASE UNCHANGED vars
    BY <1>2 DEF vars, model, PlacesInv, PlacesOK, Waiting, GoesOn, Over
  <1> QED BY <1>1, <1>2

\* It holds when a run has been prepared: every request has its arrival.
LEMMA PlacesInvFirst ==
    ASSUME RuntimeAssumption, Init
    PROVE  PlacesInv
  <1>1. \A r \in Requests : \E f \in events :
           GoesOn(f, r) /\ \A g \in events : GoesOn(g, r) => g = f
    BY Beginning DEF GoesOn
  <1>2. \A r, n, i : ~Waiting(r, n, i)
    <2>1. \A n \in Nodes : queue[n] = <<>>
      BY DEF Init
    <2> QED BY <2>1 DEF Waiting
  <1>3. \A r \in Requests : ~Over(r)
    BY DEF Init, Over
  <1>4. \A f \in events : \A r : GoesOn(f, r) => r \in Requests
    BY BaseHoldsFirst, PlacesOfRequests DEF Base
  <1> QED BY <1>1, <1>2, <1>3, <1>4 DEF PlacesInv, PlacesOK

\* Every request that is not over is in exactly one place, a future event or a
\* place in one queue, and one that is over is nowhere: no handler loses a
\* request, duplicates it, or lets it live on after its end.
THEOREM OneContinuationAlways == Spec => []OneContinuation
  <1>1. Init => Base /\ PlacesInv
    BY BaseHoldsFirst, PlacesInvFirst, RuntimeAssumption
  <1>2. Base /\ PlacesInv /\ [Next]_vars => (Base /\ PlacesInv)'
    BY BaseKept, PlacesInvKept, RuntimeAssumption
  <1>3. Base /\ PlacesInv => OneContinuation
    <2> SUFFICES ASSUME Base, PlacesOK PROVE OneContinuation
      BY DEF PlacesInv, OneContinuation
    <2>1. \A n \in Nodes : \A i, j \in DOMAIN queue[n] : queue[n][i] = queue[n][j] => i = j
      BY DEF PlacesOK, Waiting
    <2>2. ASSUME NEW r \in Requests
          PROVE  Cardinality(Continuations(r)) + Cardinality({n \in Nodes : WaitsAt(r, n)})
                    = IF Over(r) THEN 0 ELSE 1
      <3> DEFINE C == Continuations(r)
                 W == {n \in Nodes : WaitsAt(r, n)}
      <3>1. \A f : f \in C <=> f \in events /\ GoesOn(f, r)
        BY DEF Continuations, GoesOn
      <3>2. \A n : n \in W <=> \E i : Waiting(r, n, i)
        BY DEF WaitsAt, Waiting
      <3> HIDE DEF C, W
      <3>3. CASE Over(r)
        <4>1. (\A x \in C : FALSE) /\ (\A x \in W : FALSE)
          BY <2>2, <3>1, <3>2, <3>3 DEF PlacesOK
        <4>2. Cardinality(C) = 0 /\ Cardinality(W) = 0
          BY <4>1, OneElement
        <4> QED BY <3>3, <4>2 DEF C, W
      <3>4. CASE ~Over(r) /\ \E f \in events : GoesOn(f, r)
        <4>1. (\E x \in C : \A y \in C : y = x) /\ (\A x \in W : FALSE)
          BY <3>1, <3>2, <3>4 DEF PlacesOK
        <4>2. Cardinality(C) = 1 /\ Cardinality(W) = 0
          BY <4>1, OneElement
        <4> QED BY <3>4, <4>2 DEF C, W
      <3>5. CASE ~Over(r) /\ ~\E f \in events : GoesOn(f, r)
        <4>1. \A x \in C : FALSE
          BY <3>1, <3>5
        <4>2. PICK m, i : Waiting(r, m, i)
          BY <2>2, <3>5 DEF PlacesOK
        <4>3. \A n, j : Waiting(r, n, j) => n = m
          BY <4>2 DEF PlacesOK
        <4>4. m \in W /\ \A y \in W : y = m
          BY <3>2, <4>2, <4>3
        <4>5. Cardinality(C) = 0 /\ Cardinality(W) = 1
          BY <4>1, <4>4, OneElement
        <4> QED BY <3>5, <4>5 DEF C, W
      <3> QED BY <3>3, <3>4, <3>5
    <2> QED BY <2>1, <2>2 DEF OneContinuation
  <1> QED BY <1>1, <1>2, <1>3, PTL DEF Spec

-----------------------------------------------------------------------------
(* Why a run fails.                                                         *)

\* A request marked as waiting waits, or its turn has come, or it is about to
\* fail.
QueuedMoves ==
    \A f \in events : f.type \in RequestEvent /\ Queued(f.req)
                      => f.type \in {"request.processing_started", "request.failed"}

\* A start of processing that schedules anything but a failure leaves a request
\* that no longer waits.
LEMMA StartedWaitsNoMore ==
    ASSUME RuntimeAssumption, BasicInv, NEW e \in events, ProcessingStarted(e), ~Throw(e)
    PROVE  \/ MovesTo(e, e.node, {"request.failed"})
           \/ Joins(e) \/ DisplacesOldest(e)
           \/ MovesTo(e, e.node, RequestEvent) /\ ~Queued(e.req)'
  <1>1. e.type = "request.processing_started" /\ ~Over(e.req)
    BY DEF ProcessingStarted
  <1>2. CASE Refused(e)
    BY <1>1, <1>2, RefusedStep
  <1>3. CASE /\ AdmittedThenFreed(e, e.req) /\ Proceed(e, <<FailNow(e)>>)
             /\ UNCHANGED <<req, comp, queue, position, cached>>
    BY <1>1, <1>3, TurnedBackStep
  <1>4. CASE TurnedAway(e) /\ UNCHANGED <<comp, position, cached>>
    BY <1>1, <1>4, TurnedBackStep DEF TurnedAway
  <1>5. CASE Displaces(e) /\ UNCHANGED <<comp, position, cached>>
    BY <1>1, <1>5, DisplacesStep
  <1>6. CASE Waits(e) /\ UNCHANGED <<comp, position, cached>>
    BY <1>1, <1>6, WaitsStep
  <1>7. CASE HasCapacity(e.node) /\ Attempt(e) /\ UNCHANGED <<queue, position, cached>>
    <2>1. /\ {"request.retry", "request.failed"} \in SUBSET RequestEvent
          /\ {"request.processing_completed"} \in SUBSET RequestEvent
          /\ e.type \in RequestEvent
      BY <1>1 DEF RequestEvent
    <2>2. MovesTo(e, e.node, RequestEvent)
      BY <1>1, <1>7, <2>1, AttemptStep, MovesSomewhere DEF Works
    <2>3. e.req \in Requests
      BY <2>1 DEF BasicInv, Sound
    <2>4. req' = [req EXCEPT ![e.req].status = "in-flight",
                             ![e.req].attempts = req[e.req].attempts + 1]
      BY <1>7 DEF Attempt
    <2>5. req \in ReqType
      BY DEF BasicInv, TypeOK, ReqType
    <2>6. req'[e.req].status = "in-flight"
      BY <2>3, <2>4, <2>5 DEF ReqType
    <2> QED BY <2>2, <2>6 DEF Queued
  <1> QED BY <1>1, <1>2, <1>3, <1>4, <1>5, <1>6, <1>7 DEF ProcessingStarted

\* Every handler that returns keeps it so.
LEMMA QueuedMovesKept ==
    ASSUME RuntimeAssumption, Base, PlacesOK, PlacesOK', BasicInv', QueuedMoves,
           NEW e \in events, Handle(e), ~Throw(e)
    PROVE  QueuedMoves'
  <1>1. /\ events \subseteq Event /\ events' \subseteq Event
        /\ \A f \in events : f.type \in RequestEvent => f.req \in Requests
        /\ \A f \in events' : f.type \in RequestEvent => f.req \in Requests
    BY DEF Base, BasicInv, TypeOK, Sound
  <1>2. PlacePart(e)
    BY HandlerEffect DEF Base
  <1>3. ASSUME NEW n, MovesTo(e, n, RequestEvent), ~Queued(e.req)'
        PROVE  QueuedMoves'
    BY <1>1, <1>3 DEF QueuedMoves, MovesTo, NobodyEnds
  <1>4. CASE MovesTo(e, e.node, {"request.failed"})
    BY <1>1, <1>4 DEF QueuedMoves, MovesTo, NobodyEnds
  <1>5. CASE Joins(e) \/ DisplacesOldest(e)
    <2>1. e.node \in Nodes /\ e.type \in RequestEvent /\ e.req \in Requests
      BY <1>1, <1>5 DEF Joins, DisplacesOldest, Event, RequestEvent
    <2>2. \A f \in events' : f.type \in RequestEvent
             => f.type = "request.failed" \/ (f \in events /\ f # e)
      BY <1>1, <1>5 DEF Joins, DisplacesOldest
    <2>3. \A f \in events : f.type \in RequestEvent /\ f # e => f.req # e.req
      BY <2>1 DEF PlacesOK, GoesOn
    <2>4. \A r \in Requests : Queued(r)' => Queued(r) \/ r = e.req
      BY <1>5 DEF Joins, DisplacesOldest
    <2> QED BY <1>1, <2>2, <2>3, <2>4 DEF QueuedMoves
  <1>6. CASE e.type = "request.processing_started"
    <2>1. ProcessingStarted(e)
      BY <1>6 DEF Handle, Created, Transmission, Routed, CacheMiss, CacheHit, CacheSet,
         DatabaseRequest, DatabaseResponse, ProcessingCompleted, QueueDrain, Completed,
         RequestFailed, Retry, Reroute, ComponentFailed, Recovery, Recovered, HalfOpen,
         Evaluate, Scaled
    <2> QED BY <2>1, <1>3, <1>4, <1>5, StartedWaitsNoMore DEF Base
  <1>7. CASE Ends(e)
    BY <1>1, <1>7 DEF Ends, QueuedMoves
  <1>8. CASE e.type = "request.failed"
    <2>1. RequestFailed(e)
      BY <1>8 DEF Handle, Created, Transmission, Routed, CacheMiss, CacheHit, CacheSet,
         DatabaseRequest, DatabaseResponse, ProcessingStarted, ProcessingCompleted,
         QueueDrain, Completed, Retry, Reroute, ComponentFailed, Recovery, Recovered,
         HalfOpen, Evaluate, Scaled
    <2> QED BY <2>1, <1>7, EndsStep DEF Base
  <1>9. CASE /\ e.type \notin {"request.processing_started", "request.failed"}
             /\ \E n \in Nodes : MovesTo(e, n, RequestEvent)
    <2>1. e.type \in RequestEvent /\ e.req \in Requests /\ ~Queued(e.req)
      BY <1>1, <1>9 DEF MovesTo, QueuedMoves
    <2>2. ~Queued(e.req)'
      BY <1>9, <2>1 DEF MovesTo, NobodyEnds
    <2> QED BY <1>3, <1>9, <2>2
  <1>10. CASE Drains(e)
    <2>1. \A f \in events' : f.type \in RequestEvent
             => f \in events \/ f.type = "request.processing_started"
      <3>1. PICK k \in 0 .. Len(queue[e.node]) :
               /\ \A i \in 1 .. k : Woken(e, i).type = "request.processing_started"
               /\ \A g \in Event : g.type \in RequestEvent
                     => (g \in events' <=> g \in events \/ \E i \in 1 .. k : g = Woken(e, i))
        BY <1>10 DEF Drains
      <3> QED BY <1>1, <3>1
    <2>2. \A r : Queued(r)' <=> Queued(r)
      BY <1>10 DEF Drains, Queued
    <2> QED BY <2>1, <2>2 DEF QueuedMoves
  <1>11. CASE Aside(e)
    <2>1. \A r : Queued(r)' <=> Queued(r)
      BY <1>11 DEF Aside, Queued
    <2> QED BY <1>1, <1>11, <2>1 DEF QueuedMoves, Aside
  <1> QED BY <1>2, <1>5, <1>6, <1>7, <1>8, <1>9, <1>10, <1>11 DEF PlacePart

\* What a handler throws for: a strategy that picks nothing from several edges,
\* or a scaling that leaves fewer slots than there are active requests.
FailsFor(e) ==
    \/ Unroutable(e.node)
    \/ /\ e.type = "component.scaled"
       /\ ~comp[e.node].failed
       /\ e.arg * Conf[e.node].concurrency < comp[e.node].active

\* The event of a request that is over, or that waits, and a completion at an
\* idle component are never handled.
LEMMA HandledInTurn ==
    ASSUME RuntimeAssumption, Base, PlacesOK, QueuedMoves, \A n \in Nodes : WorkMatches(n),
           NEW e \in events
    PROVE  /\ e.type \in RequestEvent => ~Over(e.req)
           /\ e.type \in {"request.completed", "request.processing_completed"}
                 => ~Queued(e.req)
           /\ e.type = "request.processing_completed" => comp[e.node].active # 0
  <1>1. e.type \in RequestEvent => ~Over(e.req)
    <2> HAVE e.type \in RequestEvent
    <2>1. e.req \in Requests /\ GoesOn(e, e.req)
      BY DEF Base, BasicInv, Sound, GoesOn
    <2> QED BY <2>1 DEF PlacesOK
  <1>2. e.type \in {"request.completed", "request.processing_completed"} => ~Queued(e.req)
    BY DEF QueuedMoves, RequestEvent
  <1>3. e.type = "request.processing_completed" => comp[e.node].active # 0
    <2> HAVE e.type = "request.processing_completed"
    <2>1. e.node \in Nodes /\ e \in Work(e.node)
      BY DEF Base, BasicInv, TypeOK, Event, Work
    <2>2. IsFiniteSet(Work(e.node)) /\ comp[e.node].active = Cardinality(Work(e.node))
      BY <2>1 DEF WorkMatches
    <2> QED BY <2>1, <2>2, FS_EmptySet
  <1> QED BY <1>1, <1>2, <1>3

\* A handler that throws does it for one of the two causes.
LEMMA ThrowsForCause ==
    ASSUME RuntimeAssumption, Base, PlacesOK, QueuedMoves, \A n \in Nodes : WorkMatches(n),
           NEW e \in events, Handle(e), status' = "failed"
    PROVE  FailsFor(e)
  <1>1. /\ e.type \in RequestEvent => ~Over(e.req)
        /\ e.type \in {"request.completed", "request.processing_completed"} => ~Queued(e.req)
        /\ e.type = "request.processing_completed" => comp[e.node].active # 0
    BY HandledInTurn
  <1>2. \A list : ~Proceed(e, list)
    BY DEF Proceed
  <1>3. \A before : ~Routes(e, before)
    BY <1>2 DEF Routes
  <1>4. JustRoutes(e) => Unroutable(e.node)
    BY <1>3 DEF JustRoutes
  <1>5. CASE Created(e) \/ Reroute(e) \/ DatabaseResponse(e)
    BY <1>1, <1>4, <1>5 DEF Created, Reroute, DatabaseResponse, RequestEvent, FailsFor
  <1>6. CASE ProcessingCompleted(e)
    BY <1>1, <1>2, <1>3, <1>6 DEF ProcessingCompleted, RequestEvent, FailsFor
  <1>7. CASE Scaled(e)
    BY <1>2, <1>7 DEF Scaled, FailsFor
  <1>8. ~Completed(e) /\ ~RequestFailed(e) /\ ~Retry(e)
    BY <1>1, <1>2 DEF Completed, RequestFailed, Retry, RequestEvent
  <1>9. ~Transmission(e) /\ ~CacheMiss(e) /\ ~CacheHit(e) /\ ~CacheSet(e) /\ ~DatabaseRequest(e)
    BY <1>2 DEF Transmission, CacheMiss, CacheHit, CacheSet, DatabaseRequest
  <1>10. ~Routed(e)
    BY <1>1, <1>2 DEF Routed, Refused, Arrives, Lookup, RequestEvent
  <1>11. ~ProcessingStarted(e)
    BY <1>1, <1>2 DEF ProcessingStarted, Refused, TurnedAway, Displaces, Waits, Attempt,
       RequestEvent
  <1>12. ~QueueDrain(e) /\ ~ComponentFailed(e) /\ ~Recovery(e) /\ ~Recovered(e)
         /\ ~HalfOpen(e) /\ ~Evaluate(e)
    BY <1>2 DEF QueueDrain, ComponentFailed, Recovery, Recovered, HalfOpen, Evaluate
  <1> QED BY <1>5, <1>6, <1>7, <1>8, <1>9, <1>10, <1>11, <1>12 DEF Handle

\* All that holds of a run that has not failed.
RunInv ==
    /\ Base /\ WorkInv /\ PlacesInv
    /\ status # "failed" => QueuedMoves

\* It holds when a run has been prepared.
LEMMA RunInvFirst ==
    ASSUME RuntimeAssumption, Init
    PROVE  RunInv
  <1>1. \A f \in events : f.type \in RequestEvent => f.req \in Requests
    BY BaseHoldsFirst DEF Base, BasicInv, Sound
  <1>2. \A r \in Requests : ~Queued(r)
    BY DEF Init, Queued
  <1> QED BY <1>1, <1>2, BaseHoldsFirst, WorkInvFirst, PlacesInvFirst DEF RunInv, QueuedMoves

\* Every step keeps it.
LEMMA RunInvKept ==
    ASSUME RuntimeAssumption, RunInv, [Next]_vars
    PROVE  RunInv'
  <1>1. Base' /\ WorkInv' /\ PlacesInv'
    BY BaseKept, WorkInvKept, PlacesInvKept DEF RunInv
  <1>2. CASE Next /\ status' # "failed"
    <2>1. status # "failed"
      BY <1>2 DEF Next
    <2>2. PICK e \in events : Handle(e)
      BY <1>2 DEF Next
    <2> QED BY <1>1, <1>2, <2>1, <2>2, QueuedMovesKept DEF RunInv, PlacesInv, Base, Throw
  <1>3. CASE UNCHANGED vars
    BY <1>1, <1>3 DEF vars, model, RunInv, QueuedMoves, Queued
  <1> QED BY <1>1, <1>2, <1>3 DEF RunInv

\* A run fails for nothing but those two causes, on any architecture and under
\* any load: no handler ever finds the event of a request that is over or waits,
\* or a completion at a component without active requests.
THEOREM FailsForCause ==
    Spec => [][status' = "failed" => \E e \in events : IsNext(e) /\ FailsFor(e)]_vars
  <1>1. ASSUME RunInv, Next, status' = "failed"
        PROVE  \E e \in events : IsNext(e) /\ FailsFor(e)
    <2>1. status # "failed"
      BY <1>1 DEF Next
    <2>2. PICK e \in events : IsNext(e) /\ Handle(e)
      BY <1>1 DEF Next
    <2> QED BY <1>1, <2>1, <2>2, RuntimeAssumption, ThrowsForCause DEF RunInv, WorkInv, PlacesInv
  <1>2. Init => RunInv
    BY RunInvFirst, RuntimeAssumption
  <1>3. RunInv /\ [Next]_vars => RunInv'
    BY RunInvKept, RuntimeAssumption
  <1>4. RunInv /\ [Next]_vars
        => [status' = "failed" => \E e \in events : IsNext(e) /\ FailsFor(e)]_vars
    BY <1>1
  <1> QED BY <1>2, <1>3, <1>4, PTL DEF Spec

-----------------------------------------------------------------------------
(* What autoscaling may do, and architectures on which no handler throws.   *)

\* An autoscaled component has a number of replicas between its bounds.
ReplicasAllowed ==
    \A i \in DOMAIN Autoscaled :
        LET n == Autoscaled[i]
        IN  Conf[n].min <= comp[n].replicas /\ comp[n].replicas <= Conf[n].max

\* Only a scaling changes it.
LEMMA ReplicasAllowedKept ==
    ASSUME RuntimeAssumption, BasicInv, BasicInv', NEW e \in events, WorkPart(e), ReplicasAllowed
    PROVE  ReplicasAllowed'
  <1> SUFFICES ASSUME NEW i \in DOMAIN Autoscaled, NEW n, n = Autoscaled[i]
               PROVE  (Conf[n].min <= comp[n].replicas /\ comp[n].replicas <= Conf[n].max)'
    BY DEF ReplicasAllowed
  <1>1. n \in Nodes /\ e.node \in Nodes
    <2>1. Autoscaled \in Seq(Nodes)
      BY DEF RuntimeAssumption
    <2>2. Autoscaled[i] \in Nodes
      BY <2>1
    <2> QED BY <2>2 DEF BasicInv, TypeOK, Event
  <1>2. Conf[n].min <= comp[n].replicas /\ comp[n].replicas <= Conf[n].max
    BY DEF ReplicasAllowed
  <1>3. comp \in [Nodes -> [ failed : BOOLEAN, active : Nat,
                             replicas : Nat \ {0}, cycle : Nat ]]
    BY DEF BasicInv, TypeOK
  <1>4. CASE comp'[n].replicas = comp[n].replicas
    BY <1>2, <1>4
  <1>5. CASE KeepsWork
    BY <1>1, <1>4, <1>5 DEF KeepsWork
  <1>6. CASE Works(e)
    BY <1>1, <1>3, <1>4, <1>6 DEF Works
  <1>7. CASE WorkDone(e)
    BY <1>1, <1>3, <1>4, <1>7 DEF WorkDone
  <1>8. CASE Rescales(e)
    <2>1. CASE n = e.node
      <3>1. Allowed(e.arg, n)
        BY <1>8, <2>1 DEF Rescales, BasicInv, Sound
      <3>2. e.arg \in Nat /\ Conf[n].min \in Nat /\ Conf[n].max \in Nat
        <4>1. Conf[n] \in Config
          BY <1>1 DEF RuntimeAssumption
        <4> QED BY <4>1 DEF BasicInv, TypeOK, Event, Config
      <3> QED BY <1>8, <2>1, <3>1, <3>2 DEF Rescales, Allowed
    <2>2. CASE n # e.node
      BY <1>1, <1>4, <1>8, <2>2 DEF Rescales
    <2> QED BY <2>1, <2>2
  <1> QED BY <1>5, <1>6, <1>7, <1>8 DEF WorkPart

\* Autoscaling never leaves the bounds its component is configured with,
\* whatever else is scheduled for the instant a scaling is applied at.
THEOREM ReplicasStayAllowed == Spec => []ReplicasAllowed
  <1>1. Init => Base /\ ReplicasAllowed
    <2>1. ASSUME Init PROVE ReplicasAllowed
      <3>1. \A n \in Nodes : comp[n].replicas = Conf[n].replicas
        BY <2>1 DEF Init
      <3>2. \A i \in DOMAIN Autoscaled : Autoscaled[i] \in Nodes
        BY RuntimeAssumption DEF RuntimeAssumption
      <3> QED BY <3>1, <3>2, RuntimeAssumption DEF RuntimeAssumption, ReplicasAllowed
    <2> QED BY <2>1, BaseHoldsFirst, RuntimeAssumption
  <1>2. Base /\ ReplicasAllowed /\ [Next]_vars => Base' /\ ReplicasAllowed'
    <2> SUFFICES ASSUME Base, ReplicasAllowed, [Next]_vars PROVE Base' /\ ReplicasAllowed'
      OBVIOUS
    <2>1. Base'
      BY BaseKept, RuntimeAssumption
    <2>2. CASE Next
      <3>1. PICK e \in events : UNCHANGED comp \/ WorkPart(e)
        BY <2>2, StepEffect, RuntimeAssumption
      <3> QED BY <2>1, <3>1, ReplicasAllowedKept, RuntimeAssumption DEF Base, ReplicasAllowed
    <2>3. CASE UNCHANGED vars
      BY <2>1, <2>3 DEF vars, model, ReplicasAllowed
    <2> QED BY <2>2, <2>3
  <1> QED BY <1>1, <1>2, PTL DEF Spec

\* Every strategy has something to pick: it is configured wherever there are
\* two edges, and no round robin has more than two.
AlwaysRoutable ==
    \A n \in Nodes :
        \/ Len(Edges[n]) <= 1
        \/ Conf[n].strategy \in {"random", "least_connections"}
        \/ Conf[n].strategy = "round_robin" /\ Len(Edges[n]) <= 2

\* The fewest replicas an autoscaled component may have suffice for every
\* request of the load at once; so do those of a component that is not scaled.
NeverTooSmall ==
    \A i \in DOMAIN Autoscaled :
        Conf[Autoscaled[i]].min * Conf[Autoscaled[i]].concurrency >= Len(Arrivals)

\* A round robin over two edges is at one of them.
PositionsInv ==
    \A n \in Nodes : Conf[n].strategy = "round_robin" /\ Len(Edges[n]) <= 2
                     => position[n] \in 0 .. 1

\* The size of small sets.
LEMMA SmallSets ==
    /\ Cardinality({}) = 0
    /\ \A x : Cardinality({x}) = 1
    /\ \A x, y : x # y => Cardinality({x, y}) = 2
  <1>1. \A x : IsFiniteSet({x}) /\ Cardinality({x}) = 1
    BY FS_Singleton
  <1>2. ASSUME NEW x, NEW y, x # y PROVE Cardinality({x, y}) = 2
    <2>1. y \notin {x} /\ {x, y} = {x} \cup {y}
      BY <1>2
    <2>2. Cardinality({x} \cup {y}) = 1 + 1
      BY <1>1, <2>1, FS_AddElement
    <2> QED BY <2>1, <2>2
  <1> QED BY <1>1, <1>2, FS_EmptySet

\* A node has a finite list of edges.
LEMMA EdgesOf ==
    ASSUME RuntimeAssumption, NEW n \in Nodes
    PROVE  \E k \in Nat : k = Len(Edges[n]) /\ DOMAIN Edges[n] = 1 .. k
  <1>1. ASSUME NEW S, NEW q \in Seq(S)
        PROVE  \E k \in Nat : k = Len(q) /\ DOMAIN q = 1 .. k
    <2>1. Len(q) \in Nat /\ DOMAIN q = 1 .. Len(q)
      OBVIOUS
    <2> QED BY <2>1, Zenon
  <1>2. Edges[n] \in Seq(Edge)
    BY DEF RuntimeAssumption
  <1> QED BY <1>1, <1>2, Zenon

\* More than one edge of at most two: both.
LEMMA BothEdges ==
    ASSUME RuntimeAssumption, NEW n \in Nodes, Len(Edges[n]) <= 2, Cardinality(Open(n)) > 1
    PROVE  Open(n) = {1, 2} /\ Cardinality(Open(n)) = 2
  <1>2. PICK k \in Nat : k = Len(Edges[n]) /\ DOMAIN Edges[n] = 1 .. k
    BY EdgesOf
  <1> DEFINE S == Open(n)
  <1>3. S \subseteq 1 .. k /\ k <= 2
    BY <1>2 DEF Open
  <1> HIDE DEF S
  <1>4. S \subseteq {1, 2}
    BY <1>3
  <1>5. S \in {{}, {1}, {2}, {1, 2}}
    BY <1>4
  <1>6. /\ Cardinality({1, 2}) = 2
        /\ Cardinality({}) = 0 /\ Cardinality({1}) = 1 /\ Cardinality({2}) = 1
    <2>1. 1 # 2
      OBVIOUS
    <2> QED BY <2>1, SmallSets
  <1>7. Cardinality(S) > 1
    BY DEF S
  <1>8. S # {} /\ S # {1} /\ S # {2}
    <2>1. \A T : Cardinality(T) = 0 \/ Cardinality(T) = 1 => ~(Cardinality(T) > 1)
      OBVIOUS
    <2>2. ~(Cardinality({}) > 1) /\ ~(Cardinality({1}) > 1) /\ ~(Cardinality({2}) > 1)
      BY <1>6, <2>1
    <2> QED BY <1>7, <2>2, Zenon
  <1>9. S = {1, 2}
    BY <1>5, <1>8
  <1> QED BY <1>6, <1>9 DEF S

\* A round robin that is at one of two edges picks one.
LEMMA PicksOne ==
    \A p \in 0 .. 1 : AtPosition({1, 2}, p) # {}
  <1>1. {j \in {1, 2} : j < 1} = {} /\ {j \in {1, 2} : j < 2} = {1}
    OBVIOUS
  <1>2. Cardinality({}) = 0 /\ Cardinality({1}) = 1
    BY SmallSets
  <1>3. 1 \in AtPosition({1, 2}, 0) /\ 2 \in AtPosition({1, 2}, 1)
    BY <1>1, <1>2 DEF AtPosition
  <1>4. \A p \in 0 .. 1 : p = 0 \/ p = 1
    OBVIOUS
  <1> QED BY <1>3, <1>4

\* No component processes more requests than the load has.
LEMMA FewActive ==
    ASSUME RuntimeAssumption, Base, PlacesOK, NEW n \in Nodes, WorkMatches(n)
    PROVE  comp[n].active <= Len(Arrivals)
  <1> DEFINE W == Work(n)
             f == [g \in W |-> g.req]
  <1>1. \A g \in W : g \in events /\ g.type \in RequestEvent /\ g.req \in Requests
    BY DEF Base, BasicInv, Sound, Work, RequestEvent
  <1>2. \A g, h \in W : g.req = h.req => g = h
    BY <1>1 DEF PlacesOK, GoesOn
  <1> HIDE DEF W
  <1>3. f \in Injection(W, Requests)
    BY <1>1, <1>2 DEF Injection, IsInjective
  <1>4. Len(Arrivals) \in Nat /\ Requests = 1 .. Len(Arrivals)
    BY DEF RuntimeAssumption
  <1>5. IsFiniteSet(Requests) /\ Cardinality(Requests) = Len(Arrivals)
    <2>1. PICK k \in Nat : k = Len(Arrivals)
      BY <1>4
    <2>2. IsFiniteSet(1 .. k) /\ Cardinality(1 .. k) = IF 1 > k THEN 0 ELSE k - 1 + 1
      BY FS_Interval
    <2>3. (IF 1 > k THEN 0 ELSE k - 1 + 1) = k
      BY <2>1
    <2> QED BY <1>4, <2>1, <2>2, <2>3
  <1> HIDE DEF f
  <1>6. Cardinality(W) <= Cardinality(Requests)
    BY <1>3, <1>5, FS_Injection
  <1> QED BY <1>5, <1>6 DEF WorkMatches, W

\* Only routing moves the position of a round robin.
LEMMA PositionStep ==
    ASSUME NEW e, Handle(e)
    PROVE  position' = position \/ position' = Advanced(e.node, Open(e.node))
  <1>1. Throw(e) => position' = position
    BY DEF Throw, model
  <1>2. \A before : Routes(e, before)
           => position' = position \/ position' = Advanced(e.node, Open(e.node))
    BY DEF Routes
  <1>3. JustRoutes(e) => position' = position \/ position' = Advanced(e.node, Open(e.node))
    BY <1>1, <1>2 DEF JustRoutes
  <1>4. CASE Created(e) \/ Reroute(e) \/ DatabaseResponse(e)
    BY <1>1, <1>3, <1>4 DEF Created, Reroute, DatabaseResponse
  <1>5. CASE ProcessingCompleted(e)
    BY <1>1, <1>2, <1>5 DEF ProcessingCompleted
  <1>6. CASE Routed(e) \/ ProcessingStarted(e)
    BY <1>1, <1>6 DEF Routed, ProcessingStarted, Refused, model
  <1>7. CASE \/ Transmission(e) \/ CacheMiss(e) \/ CacheHit(e) \/ CacheSet(e)
             \/ DatabaseRequest(e) \/ QueueDrain(e) \/ Completed(e) \/ RequestFailed(e)
             \/ Retry(e)
    BY <1>1, <1>7 DEF Transmission, CacheMiss, CacheHit, CacheSet, DatabaseRequest,
       QueueDrain, Completed, RequestFailed, Retry, model
  <1>8. CASE \/ ComponentFailed(e) \/ Recovery(e) \/ Recovered(e) \/ HalfOpen(e)
             \/ Evaluate(e) \/ Scaled(e)
    BY <1>1, <1>8 DEF ComponentFailed, Recovery, Recovered, HalfOpen, Evaluate, Scaled, model
  <1> QED BY <1>4, <1>5, <1>6, <1>7, <1>8 DEF Handle

\* Every step keeps a round robin over two edges at one of them.
LEMMA PositionsKept ==
    ASSUME RuntimeAssumption, Base, PositionsInv, [Next]_vars
    PROVE  PositionsInv'
  <1> SUFFICES ASSUME NEW n \in Nodes, Conf[n].strategy = "round_robin", Len(Edges[n]) <= 2
               PROVE  position'[n] \in 0 .. 1
    BY DEF PositionsInv
  <1>1. position \in [Nodes -> Nat] /\ position[n] \in 0 .. 1
    BY DEF Base, BasicInv, TypeOK, PositionsInv
  <1>2. CASE position' = position
    BY <1>1, <1>2
  <1>3. ASSUME NEW m \in Nodes, position' = Advanced(m, Open(m))
        PROVE  position'[n] \in 0 .. 1
    <2>1. CASE m = n /\ Cardinality(Open(n)) > 1
      <3>1. Cardinality(Open(n)) = 2
        BY <2>1, BothEdges
      <3>2. position' = [position EXCEPT ![n] = (position[n] + 1) % 2]
        BY <1>1, <1>3, <2>1, <3>1 DEF Advanced
      <3>3. \A p \in 0 .. 1 : (p + 1) % 2 \in 0 .. 1
        OBVIOUS
      <3> QED BY <1>1, <3>2, <3>3
    <2>2. CASE ~(m = n /\ Cardinality(Open(n)) > 1)
      <3>1. position'[n] = position[n]
        BY <1>1, <1>3, <2>2 DEF Advanced
      <3> QED BY <1>1, <3>1
    <2> QED BY <2>1, <2>2
  <1>4. CASE Next
    <2>1. PICK e \in events : Handle(e)
      BY <1>4 DEF Next
    <2>2. e.node \in Nodes
      BY DEF Base, BasicInv, TypeOK, Event
    <2> QED BY <1>2, <1>3, <2>1, <2>2, PositionStep
  <1>5. CASE UNCHANGED vars
    BY <1>2, <1>5 DEF vars, model
  <1> QED BY <1>4, <1>5

\* Where a strategy always has something to pick, none picks nothing.
LEMMA NeverUnroutable ==
    ASSUME RuntimeAssumption, AlwaysRoutable, PositionsInv, NEW n \in Nodes
    PROVE  ~Unroutable(n)
  <1> SUFFICES ASSUME Unroutable(n) PROVE FALSE
    OBVIOUS
  <1>1. /\ Cardinality(Open(n)) > 1
        /\ Conf[n].strategy \in {"round_robin", "omitted"}
        /\ Selected(n, Open(n)) = {}
    BY DEF Unroutable
  <1>2. PICK k \in Nat : k = Len(Edges[n]) /\ DOMAIN Edges[n] = 1 .. k
    BY EdgesOf
  <1>3. k <= 1 \/ (Conf[n].strategy = "round_robin" /\ k <= 2)
    BY <1>1, <1>2 DEF AlwaysRoutable
  <1>4. Open(n) = {1, 2}
    <2>1. Len(Edges[n]) <= 2
      BY <1>2, <1>3
    <2> QED BY <1>1, <2>1, BothEdges
  <1>5. 2 \in 1 .. k
    BY <1>2, <1>4 DEF Open
  <1>6. Conf[n].strategy = "round_robin" /\ k <= 2
    BY <1>3, <1>5
  <1>7. AtPosition({1, 2}, position[n]) # {}
    BY <1>2, <1>6, PicksOne DEF PositionsInv
  <1> QED BY <1>1, <1>4, <1>6, <1>7 DEF Selected

\* More replicas are more slots.
LEMMA MoreSlots ==
    \A a, b, c, k, m \in Nat : a <= b /\ a * c >= k /\ m <= k => ~(b * c < m)
  OBVIOUS

\* Where the fewest replicas suffice, no scaling leaves too few.
LEMMA NeverTooFew ==
    ASSUME RuntimeAssumption, NeverTooSmall, RunInv, status # "failed",
           NEW e \in events, e.type = "component.scaled"
    PROVE  ~(e.arg * Conf[e.node].concurrency < comp[e.node].active)
  <1>1. Autoscales(e.node) /\ Allowed(e.arg, e.node)
    BY DEF RunInv, Base, BasicInv, Sound
  <1>2. e.node \in Nodes /\ e.arg \in Nat /\ comp[e.node].active \in Nat
    BY DEF RunInv, Base, BasicInv, TypeOK, Event
  <1>3. Conf[e.node] \in Config
    BY <1>2 DEF RuntimeAssumption
  <1>4. PICK min \in Nat, c \in Nat : min = Conf[e.node].min /\ c = Conf[e.node].concurrency
    BY <1>3 DEF Config
  <1>5. min <= e.arg
    BY <1>1, <1>2, <1>4 DEF Allowed
  <1>6. min * c >= Len(Arrivals)
    BY <1>1, <1>4 DEF Autoscales, NeverTooSmall
  <1>7. comp[e.node].active <= Len(Arrivals)
    BY <1>2, FewActive DEF RunInv, PlacesInv, WorkInv
  <1>8. PICK k \in Nat, a \in Nat, m \in Nat :
           k = Len(Arrivals) /\ a = e.arg /\ m = comp[e.node].active
    BY <1>2 DEF RuntimeAssumption
  <1>9. ~(a * c < m)
    BY <1>5, <1>6, <1>7, <1>8, MoreSlots
  <1> QED BY <1>4, <1>8, <1>9

\* On an architecture where every strategy has something to pick and no scaling
\* can take a slot in use, no run ever fails, and the clock never has to turn
\* back: whatever the load, the failures, the losses and the errors.
THEOREM NoHandlerEverThrows ==
    AlwaysRoutable /\ NeverTooSmall => (Spec => []NoHandlerThrows)
  <1> SUFFICES ASSUME AlwaysRoutable, NeverTooSmall PROVE Spec => []NoHandlerThrows
    OBVIOUS
  <1> DEFINE Inv == RunInv /\ PositionsInv /\ status # "failed"
  <1>1. Init => Inv
    <2>1. Init => PositionsInv /\ status # "failed"
      BY DEF Init, PositionsInv
    <2> QED BY <2>1, RunInvFirst, RuntimeAssumption
  <1>2. Inv /\ [Next]_vars => Inv'
    <2> SUFFICES ASSUME Inv, [Next]_vars PROVE Inv'
      OBVIOUS
    <2>1. RunInv' /\ PositionsInv'
      BY RunInvKept, PositionsKept, RuntimeAssumption DEF RunInv
    <2>2. CASE Next
      <3> SUFFICES ASSUME status' = "failed" PROVE FALSE
        BY <2>1
      <3>1. PICK e \in events : Handle(e)
        BY <2>2 DEF Next
      <3>2. FailsFor(e)
        BY <3>1, RuntimeAssumption, ThrowsForCause DEF RunInv, WorkInv, PlacesInv
      <3>3. e.node \in Nodes
        BY DEF RunInv, Base, BasicInv, TypeOK, Event
      <3> QED BY <3>2, <3>3, RuntimeAssumption, NeverUnroutable, NeverTooFew DEF FailsFor
    <2>3. CASE UNCHANGED vars
      BY <2>1, <2>3 DEF vars
    <2> QED BY <2>2, <2>3
  <1>3. Spec => [](\A e \in events : e.at >= now)
    BY TimeMovesOn
  <1>4. Inv /\ (\A e \in events : e.at >= now) => NoHandlerThrows
    BY DEF NoHandlerThrows
  <1> QED BY <1>1, <1>2, <1>3, <1>4, PTL DEF Spec

-----------------------------------------------------------------------------
(* The probes of half-open circuits.                                        *)

\* A circuit that is open, or was, has counted enough failures for the next one
\* to open it again; only an enabled breaker ever opens.
CircuitOK(n, c) ==
    c.state # "closed" => Conf[n].breaker /\ c.failures >= Conf[n].threshold

\* The invariant of the circuits.
CircuitsInv == \A n \in Nodes : CircuitOK(n, circuit[n])

\* The request a half-open circuit waits for.
Held(c) == IF c.state = "half-open" THEN c.probe ELSE NoRequest

\* What the handler of e may make of the circuit of m.
NewCircuit(e, m, d) ==
    \/ d = Failed(m, circuit[m])
    \/ e.arg \in Nat /\ d = HalfOpened(circuit[m], e.arg)
    \/ e.req \in Requests /\ d \in {Freed(circuit[m], e.req), AfterSuccess(circuit[m])}
    \/ /\ m = e.node /\ e.req \in Requests
       /\ e.type \in {"request.routed", "request.processing_started"}
       /\ LET c == Claimed(circuit[m], e.req)
          IN  \/ d \in {c, Failed(m, c), AfterSuccess(c)}
              \/ \E r \in Requests : d = Freed(c, r)

\* Every handler that returns changes one circuit at most, in one of these ways.
LEMMA CircuitForms ==
    ASSUME RuntimeAssumption, BasicInv, NEW e \in events, Handle(e), ~Throw(e)
    PROVE  \/ circuit' = circuit
           \/ \E m \in Nodes : \E d : NewCircuit(e, m, d) /\ circuit' = [circuit EXCEPT ![m] = d]
  <1>1. /\ e.node \in Nodes /\ e.arg \in Nat
        /\ e.type \in RequestEvent => e.req \in Requests
    BY DEF BasicInv, TypeOK, Event, Sound
  <1>3. CASE Created(e) \/ Reroute(e) \/ DatabaseResponse(e)
    BY <1>3 DEF Created, Reroute, DatabaseResponse, JustRoutes, Rest
  <1>4. CASE Transmission(e)
    <2> DEFINE to == Edges[e.node][e.arg].target
    <2>1. to \in Nodes
      <3>1. e.arg \in DOMAIN Edges[e.node]
        BY <1>4 DEF Transmission, BasicInv, Sound
      <3>2. Edges[e.node] \in Seq(Edge)
        BY <1>1 DEF RuntimeAssumption
      <3>3. Edges[e.node][e.arg] \in Edge
        BY <3>1, <3>2
      <3> QED BY <3>3 DEF Edge
    <2>2. circuit' = circuit \/ circuit' = [circuit EXCEPT ![to] = Failed(to, circuit[to])]
      BY <1>4 DEF Transmission, model
    <2> HIDE DEF to
    <2> QED BY <2>1, <2>2 DEF NewCircuit
  <1>5. CASE CacheHit(e)
    <2>1. e.req \in Requests
      BY <1>1, <1>5 DEF CacheHit, RequestEvent
    <2>2. \/ circuit' = [circuit EXCEPT ![e.node] = Freed(circuit[e.node], e.req)]
          \/ circuit' = [circuit EXCEPT ![e.node] = AfterSuccess(circuit[e.node])]
      BY <1>5 DEF CacheHit
    <2> QED BY <1>1, <2>1, <2>2 DEF NewCircuit
  <1>6. CASE HalfOpen(e)
    <2>1. circuit' = [circuit EXCEPT ![e.node] = HalfOpened(circuit[e.node], e.arg)]
      BY <1>6 DEF HalfOpen
    <2> QED BY <1>1, <2>1 DEF NewCircuit
  <1>7. ASSUME e.type \in {"request.routed", "request.processing_started"}, NEW r \in Requests,
               Admitted(e) \/ AdmittedThenFreed(e, r)
        PROVE  \E m \in Nodes : \E d : NewCircuit(e, m, d) /\ circuit' = [circuit EXCEPT ![m] = d]
    <2>1. e.req \in Requests
      BY <1>1, <1>7 DEF RequestEvent
    <2>2. \/ circuit' = [circuit EXCEPT ![e.node] = Claimed(circuit[e.node], e.req)]
          \/ circuit' = [circuit EXCEPT ![e.node] = Freed(Claimed(circuit[e.node], e.req), r)]
      BY <1>7 DEF Admitted, AdmittedThenFreed
    <2> QED BY <1>1, <1>7, <2>1, <2>2 DEF NewCircuit
  <1>8. CASE Routed(e)
    <2>1. e.type = "request.routed" /\ e.req \in Requests
      BY <1>1, <1>8 DEF Routed, RequestEvent
    <2>2. circuit' = circuit \/ Admitted(e) \/ AdmittedThenFreed(e, e.req)
      BY <1>8 DEF Routed, Refused, Arrives, model
    <2> QED BY <1>7, <2>1, <2>2
  <1>9. CASE ProcessingStarted(e)
    <2>1. e.type = "request.processing_started" /\ e.req \in Requests
      BY <1>1, <1>9 DEF ProcessingStarted, RequestEvent
    <2>2. CASE circuit' = circuit \/ Admitted(e) \/ AdmittedThenFreed(e, e.req)
      BY <1>7, <2>1, <2>2
    <2>3. CASE Displaces(e)
      <3>1. /\ queue[e.node] # <<>> /\ queue[e.node] \in Seq(Requests)
            /\ AdmittedThenFreed(e, Head(queue[e.node]))
        <4>1. queue[e.node] \in Seq(Requests) /\ Full(e.node) /\ ~NoPlace(e.node)
              /\ AdmittedThenFreed(e, Head(queue[e.node]))
          BY <1>1, <2>3 DEF Displaces, BasicInv, TypeOK
        <4> QED BY <4>1 DEF NoPlace
      <3>2. Head(queue[e.node]) \in Requests
        BY <3>1
      <3> QED BY <1>7, <2>1, <3>1, <3>2
    <2>4. CASE Attempt(e)
      <3> DEFINE c == Claimed(circuit[e.node], e.req)
      <3>1. \/ circuit' = [circuit EXCEPT ![e.node] = Failed(e.node, c)]
            \/ circuit' = [circuit EXCEPT ![e.node] = AfterSuccess(c)]
        BY <2>4 DEF Attempt
      <3> QED BY <1>1, <2>1, <3>1 DEF NewCircuit
    <2> QED BY <1>9, <2>2, <2>3, <2>4
        DEF ProcessingStarted, Refused, TurnedAway, Waits, model
  <1>10. CASE \/ CacheMiss(e) \/ CacheSet(e) \/ DatabaseRequest(e) \/ ProcessingCompleted(e)
              \/ QueueDrain(e) \/ Completed(e) \/ RequestFailed(e) \/ Retry(e)
    BY <1>10 DEF CacheMiss, CacheSet, DatabaseRequest, ProcessingCompleted, QueueDrain,
       Completed, RequestFailed, Retry, model
  <1>11. CASE \/ ComponentFailed(e) \/ Recovery(e) \/ Recovered(e) \/ Evaluate(e) \/ Scaled(e)
    BY <1>11 DEF ComponentFailed, Recovery, Recovered, Evaluate, Scaled, model
  <1> QED BY <1>3, <1>4, <1>5, <1>6, <1>8, <1>9, <1>10, <1>11 DEF Handle

\* What the functions of a circuit do to the request it is held by.
LEMMA HeldAfter ==
    ASSUME NEW n, NEW c \in Circuit, CircuitOK(n, c), Conf[n].threshold \in Nat
    PROVE  /\ \A r \in Requests :
                 /\ CircuitOK(n, Claimed(c, r)) /\ CircuitOK(n, Freed(c, r))
                 /\ Claimed(c, r) \in Circuit
                 /\ Held(Claimed(c, r)) \in {Held(c), r}
                 /\ Held(Freed(c, r)) \in {Held(c), NoRequest}
                 /\ Held(Freed(c, r)) # r
           /\ CircuitOK(n, AfterSuccess(c)) /\ Held(AfterSuccess(c)) = NoRequest
           /\ CircuitOK(n, Failed(n, c)) /\ Held(Failed(n, c)) = NoRequest
           /\ \A g \in Nat :
                 CircuitOK(n, HalfOpened(c, g)) /\ Held(HalfOpened(c, g)) \in {Held(c), NoRequest}
  <1>1. ASSUME NEW r \in Requests
        PROVE  /\ CircuitOK(n, Claimed(c, r)) /\ CircuitOK(n, Freed(c, r))
               /\ Claimed(c, r) \in Circuit
               /\ Held(Claimed(c, r)) \in {Held(c), r}
               /\ Held(Freed(c, r)) \in {Held(c), NoRequest}
               /\ Held(Freed(c, r)) # r
    BY NoRequestAssumption DEF Circuit, CircuitOK, Claimed, Freed, Held
  <1>2. CircuitOK(n, AfterSuccess(c)) /\ Held(AfterSuccess(c)) = NoRequest
    BY DEF Circuit, CircuitOK, AfterSuccess, Held
  <1>3. CircuitOK(n, Failed(n, c)) /\ Held(Failed(n, c)) = NoRequest
    <2>1. CASE ~Conf[n].breaker
      BY <2>1 DEF CircuitOK, Failed, Held, Circuit
    <2>2. CASE Conf[n].breaker /\ c.state = "open"
      BY <2>2 DEF CircuitOK, Failed, AfterFailure, Held
    <2>3. CASE Conf[n].breaker /\ c.state = "half-open"
      <3>1. c.failures \in Nat /\ c.failures >= Conf[n].threshold
        BY <2>3 DEF Circuit, CircuitOK
      <3>2. c.failures + 1 >= Conf[n].threshold
        BY <3>1
      <3> QED BY <2>3, <3>1, <3>2 DEF Circuit, CircuitOK, Failed, AfterFailure, Trips, Held
    <2>4. CASE Conf[n].breaker /\ c.state = "closed"
      BY <2>4 DEF Circuit, CircuitOK, Failed, AfterFailure, Trips, Held
    <2> QED BY <2>1, <2>2, <2>3, <2>4 DEF Circuit
  <1>4. ASSUME NEW g \in Nat
        PROVE  CircuitOK(n, HalfOpened(c, g)) /\ Held(HalfOpened(c, g)) \in {Held(c), NoRequest}
    BY DEF Circuit, CircuitOK, HalfOpened, Held
  <1> QED BY <1>1, <1>2, <1>3, <1>4

\* A handler that returns keeps the circuits in order; it takes a circuit for
\* nobody but the request it admits.
LEMMA CircuitsKept ==
    ASSUME RuntimeAssumption, BasicInv, CircuitsInv, NEW e \in events, Handle(e), ~Throw(e)
    PROVE  /\ CircuitsInv'
           /\ \A m \in Nodes :
                 \/ Held(circuit'[m]) \in {Held(circuit[m]), NoRequest}
                 \/ /\ m = e.node /\ e.req \in Requests /\ Held(circuit'[m]) = e.req
                    /\ e.type \in {"request.routed", "request.processing_started"}
  <1>1. circuit \in [Nodes -> Circuit]
    BY DEF BasicInv, TypeOK
  <1>2. ASSUME NEW m \in Nodes, NEW d, NewCircuit(e, m, d)
        PROVE  /\ CircuitOK(m, d)
               /\ \/ Held(d) \in {Held(circuit[m]), NoRequest}
                  \/ /\ m = e.node /\ e.req \in Requests /\ Held(d) = e.req
                     /\ e.type \in {"request.routed", "request.processing_started"}
    <2>1. PICK c : c = circuit[m]
      OBVIOUS
    <2>2. Conf[m].threshold \in Nat
      <3>1. Conf[m] \in Config
        BY DEF RuntimeAssumption
      <3> QED BY <3>1 DEF Config
    <2>3. c \in Circuit /\ CircuitOK(m, c)
      BY <1>1, <2>1 DEF CircuitsInv
    <2>7. ASSUME NEW x \in Circuit, CircuitOK(m, x)
          PROVE  /\ CircuitOK(m, Failed(m, x)) /\ Held(Failed(m, x)) = NoRequest
                 /\ CircuitOK(m, AfterSuccess(x)) /\ Held(AfterSuccess(x)) = NoRequest
                 /\ \A r \in Requests :
                       CircuitOK(m, Freed(x, r)) /\ Held(Freed(x, r)) \in {Held(x), NoRequest}
                 /\ \A g \in Nat : /\ CircuitOK(m, HalfOpened(x, g))
                                   /\ Held(HalfOpened(x, g)) \in {Held(x), NoRequest}
      BY <2>2, <2>7, HeldAfter
    <2>4. CASE d = Failed(m, c) \/ \E g \in Nat : d = HalfOpened(c, g)
      BY <2>1, <2>3, <2>4, <2>7
    <2>5. CASE e.req \in Requests /\ d \in {Freed(c, e.req), AfterSuccess(c)}
      BY <2>1, <2>3, <2>5, <2>7
    <2>6. CASE /\ m = e.node /\ e.req \in Requests
               /\ e.type \in {"request.routed", "request.processing_started"}
               /\ LET x == Claimed(c, e.req)
                  IN  \/ d \in {x, Failed(m, x), AfterSuccess(x)}
                      \/ \E r \in Requests : d = Freed(x, r)
      <3>1. PICK x : x = Claimed(c, e.req)
        OBVIOUS
      <3>2. x \in Circuit /\ CircuitOK(m, x) /\ Held(x) \in {Held(c), e.req}
        BY <2>2, <2>3, <2>6, <3>1, HeldAfter
      <3>3. \/ d \in {x, Failed(m, x), AfterSuccess(x)}
            \/ \E r \in Requests : d = Freed(x, r)
        BY <2>6, <3>1
      <3>4. CircuitOK(m, d) /\ Held(d) \in {Held(x), NoRequest}
        BY <3>2, <3>3, <2>7
      <3> QED BY <2>1, <2>6, <3>2, <3>4
    <2> QED BY <1>2, <2>1, <2>4, <2>5, <2>6 DEF NewCircuit
  <1>3. CASE circuit' = circuit
    BY <1>3 DEF CircuitsInv
  <1>4. ASSUME NEW m \in Nodes, NEW d, NewCircuit(e, m, d), circuit' = [circuit EXCEPT ![m] = d]
        PROVE  /\ CircuitsInv'
               /\ \A k \in Nodes :
                     \/ Held(circuit'[k]) \in {Held(circuit[k]), NoRequest}
                     \/ /\ k = e.node /\ e.req \in Requests /\ Held(circuit'[k]) = e.req
                        /\ e.type \in {"request.routed", "request.processing_started"}
    <2>1. /\ CircuitOK(m, d)
          /\ \/ Held(d) \in {Held(circuit[m]), NoRequest}
             \/ /\ m = e.node /\ e.req \in Requests /\ Held(d) = e.req
                /\ e.type \in {"request.routed", "request.processing_started"}
      BY <1>2, <1>4
    <2>2. circuit'[m] = d /\ \A k \in Nodes \ {m} : circuit'[k] = circuit[k]
      BY <1>1, <1>4
    <2> QED BY <2>1, <2>2 DEF CircuitsInv
  <1> QED BY <1>3, <1>4, CircuitForms

\* A handler that schedules one event schedules no other.
LEMMA OnlyNewEvent ==
    ASSUME NEW e, NEW t, NEW type, NEW n, NEW r, NEW a, Proceed(e, <<At(t, type, n, r, a)>>)
    PROVE  \A f \in events' : f \in events \/ f.type = type
  <1>1. events' = (events \ {e}) \cup {[At(t, type, n, r, a) EXCEPT !.seq = nextSeq + 1]}
    BY DEF Proceed, Stamped
  <1>2. [At(t, type, n, r, a) EXCEPT !.seq = nextSeq + 1].type = type
    BY DEF At
  <1> QED BY <1>1, <1>2

\* The request that is refused is not the probe; the one that is freed is not
\* the probe any more.
LEMMA NotTheProbe ==
    ASSUME RuntimeAssumption, BasicInv, CircuitsInv, NEW e \in events, e.req \in Requests
    PROVE  /\ Refused(e) => Held(circuit'[e.node]) # e.req
           /\ \A r \in Requests : AdmittedThenFreed(e, r) => Held(circuit'[e.node]) # r
  <1>1. circuit \in [Nodes -> Circuit] /\ e.node \in Nodes
    BY DEF BasicInv, TypeOK, Event
  <1>2. circuit[e.node] \in Circuit /\ CircuitOK(e.node, circuit[e.node])
    BY <1>1 DEF CircuitsInv
  <1>3. Refused(e) => Held(circuit'[e.node]) # e.req
    BY <1>2, NoRequestAssumption DEF Refused, Admits, Held, Circuit, model
  <1>4. ASSUME NEW r \in Requests, AdmittedThenFreed(e, r)
        PROVE  Held(circuit'[e.node]) # r
    <2>1. PICK x : x = Claimed(circuit[e.node], e.req)
      OBVIOUS
    <2>2. Conf[e.node].threshold \in Nat
      <3>1. Conf[e.node] \in Config
        BY <1>1 DEF RuntimeAssumption
      <3> QED BY <3>1 DEF Config
    <2>3. x \in Circuit /\ CircuitOK(e.node, x)
      BY <1>2, <2>1, <2>2, HeldAfter
    <2>4. Held(Freed(x, r)) # r
      BY <1>4, <2>2, <2>3, HeldAfter, ZenonT(30)
    <2>5. circuit'[e.node] = Freed(x, r)
      BY <1>1, <1>4, <2>1 DEF AdmittedThenFreed
    <2> QED BY <2>4, <2>5
  <1> QED BY <1>3, <1>4

\* Where the handler of e takes the request of e, when it may be a probe: to the
\* queue of the same component, to its desk, or out of its circuit.
ProbePlace(e) ==
    \/ Joins(e)
    \/ DisplacesOldest(e) /\ Held(circuit'[e.node]) # Head(queue[e.node])
    \/ MovesTo(e, e.node, Desk)
    \/ MovesTo(e, e.node, RequestEvent) /\ Held(circuit'[e.node]) # e.req

\* The handler of request.routed.
LEMMA RoutedProbe ==
    ASSUME RuntimeAssumption, BasicInv, CircuitsInv, NEW e \in events, Routed(e), ~Throw(e)
    PROVE  ProbePlace(e)
  <1>1. e.type = "request.routed" /\ e.req \in Requests
    BY DEF Routed, BasicInv, Sound, RequestEvent
  <1>2. MovesTo(e, e.node, Desk \cup {"request.failed"})
    BY RoutedStep
  <1>3. MovesTo(e, e.node, RequestEvent)
    <2>1. Desk \cup {"request.failed"} \in SUBSET RequestEvent
      BY DEF Desk, RequestEvent
    <2> HIDE DEF Desk
    <2> QED BY <1>2, <2>1, MovesSomewhere
  <1>4. CASE Refused(e) \/ AdmittedThenFreed(e, e.req)
    BY <1>1, <1>3, <1>4, NotTheProbe DEF ProbePlace
  <1>5. ASSUME NEW t, NEW type, NEW n, NEW r, NEW a,
               Proceed(e, <<At(t, type, n, r, a)>>), type \in Desk
        PROVE  ProbePlace(e)
    <2>1. \A f \in events' : f \in events \/ f.type = type
      BY <1>5, OnlyNewEvent
    <2>2. MovesTo(e, e.node, Desk)
      BY <1>2, <1>5, <2>1 DEF MovesTo
    <2> QED BY <2>2 DEF ProbePlace
  <1>6. /\ "cache.hit" \in Desk /\ "cache.miss" \in Desk
        /\ "database.request" \in Desk /\ "request.processing_started" \in Desk
    BY DEF Desk
  <1>7. CASE Lookup(e)
    BY <1>5, <1>6, <1>7 DEF Lookup
  <1>8. CASE Conf[e.node].kind # "cache" /\ Arrives(e)
    BY <1>5, <1>6, <1>8 DEF Arrives
  <1>9. CASE Conf[e.node].kind = "cache" /\ Arrives(e)
    BY <1>4, <1>7, <1>9 DEF Arrives
  <1> QED BY <1>4, <1>8, <1>9 DEF Routed

\* The handler of request.processing_started.
LEMMA StartedProbe ==
    ASSUME RuntimeAssumption, BasicInv, CircuitsInv, NEW e \in events,
           ProcessingStarted(e), ~Throw(e)
    PROVE  ProbePlace(e)
  <1>1. /\ e.type = "request.processing_started" /\ ~Over(e.req) /\ e.req \in Requests
        /\ e.node \in Nodes /\ circuit \in [Nodes -> Circuit]
    BY DEF ProcessingStarted, BasicInv, TypeOK, Event, Sound, RequestEvent
  <1>2. {"request.failed"} \in SUBSET RequestEvent
    BY DEF RequestEvent
  <1>3. CASE Refused(e)
    <2>1. MovesTo(e, e.node, RequestEvent)
      BY <1>1, <1>2, <1>3, RefusedStep, MovesSomewhere
    <2> QED BY <1>1, <1>3, <2>1, NotTheProbe DEF ProbePlace
  <1>4. CASE /\ AdmittedThenFreed(e, e.req) /\ Proceed(e, <<FailNow(e)>>)
             /\ UNCHANGED <<req, comp, queue, position, cached>>
    <2>1. MovesTo(e, e.node, RequestEvent)
      BY <1>1, <1>2, <1>4, TurnedBackStep, MovesSomewhere
    <2> QED BY <1>1, <1>4, <2>1, NotTheProbe DEF ProbePlace
  <1>5. CASE TurnedAway(e) /\ UNCHANGED <<comp, position, cached>>
    BY <1>4, <1>5 DEF TurnedAway
  <1>6. CASE Displaces(e) /\ UNCHANGED <<comp, position, cached>>
    <2>1. DisplacesOldest(e)
      BY <1>1, <1>6, DisplacesStep
    <2>2. queue[e.node] # <<>> /\ queue[e.node] \in Seq(Requests)
          /\ AdmittedThenFreed(e, Head(queue[e.node]))
      BY <1>1, <1>6, <2>1 DEF Displaces, DisplacesOldest, BasicInv, TypeOK
    <2>3. Head(queue[e.node]) \in Requests
      BY <2>2
    <2> QED BY <1>1, <2>1, <2>2, <2>3, NotTheProbe DEF ProbePlace
  <1>7. CASE Waits(e) /\ UNCHANGED <<comp, position, cached>>
    BY <1>1, <1>7, WaitsStep DEF ProbePlace
  <1>8. CASE HasCapacity(e.node) /\ Attempt(e) /\ UNCHANGED <<queue, position, cached>>
    <2>1. /\ {"request.retry", "request.failed"} \in SUBSET RequestEvent
          /\ {"request.processing_completed"} \in SUBSET RequestEvent
          /\ e.type \in RequestEvent
      BY <1>1 DEF RequestEvent
    <2>2. MovesTo(e, e.node, RequestEvent)
      BY <1>1, <1>8, <2>1, AttemptStep, MovesSomewhere DEF Works
    <2>3. PICK x : x = Claimed(circuit[e.node], e.req)
      OBVIOUS
    <2>4. Conf[e.node].threshold \in Nat
      <3>1. Conf[e.node] \in Config
        BY <1>1 DEF RuntimeAssumption
      <3> QED BY <3>1 DEF Config
    <2>5. circuit[e.node] \in Circuit /\ CircuitOK(e.node, circuit[e.node])
      BY <1>1 DEF CircuitsInv
    <2>6. x \in Circuit /\ CircuitOK(e.node, x)
      BY <1>1, <2>3, <2>4, <2>5, HeldAfter
    <2>7. Held(Failed(e.node, x)) = NoRequest /\ Held(AfterSuccess(x)) = NoRequest
      BY <2>4, <2>6, HeldAfter
    <2>8. circuit'[e.node] \in {Failed(e.node, x), AfterSuccess(x)}
      BY <1>1, <1>8, <2>3 DEF Attempt
    <2>9. Held(circuit'[e.node]) # e.req
      BY <1>1, <2>7, <2>8, NoRequestAssumption
    <2> QED BY <2>2, <2>9 DEF ProbePlace
  <1> QED BY <1>1, <1>3, <1>4, <1>5, <1>6, <1>7, <1>8 DEF ProcessingStarted

\* Every handler of an event at a desk.
LEMMA DeskProbe ==
    ASSUME RuntimeAssumption, BasicInv, CircuitsInv, NEW e \in events, Handle(e), ~Throw(e),
           e.type \in Desk \cup {"request.routed"}
    PROVE  ProbePlace(e)
  <1>1. \/ Routed(e) \/ ProcessingStarted(e) \/ DatabaseRequest(e) \/ CacheHit(e) \/ CacheMiss(e)
    BY DEF Desk, Handle, Created, Transmission, CacheSet, DatabaseResponse, ProcessingCompleted,
       QueueDrain, Completed, RequestFailed, Retry, Reroute, ComponentFailed, Recovery,
       Recovered, HalfOpen, Evaluate, Scaled
  <1>2. CASE DatabaseRequest(e) \/ CacheMiss(e)
    <2>1. MovesTo(e, e.node, {"request.processing_started"})
      BY <1>2, DatabaseRequestStep, CacheMissStep
    <2> QED BY <2>1 DEF MovesTo, Desk, ProbePlace
  <1>3. CASE CacheHit(e)
    <2>1. MovesTo(e, e.node, {"request.failed", "request.completed"})
      BY <1>3, CacheHitStep
    <2>2. {"request.failed", "request.completed"} \in SUBSET RequestEvent
      BY DEF RequestEvent
    <2>3. MovesTo(e, e.node, RequestEvent)
      BY <2>1, <2>2, MovesSomewhere
    <2>4. /\ e.req \in Requests /\ e.node \in Nodes /\ circuit \in [Nodes -> Circuit]
          /\ circuit[e.node] \in Circuit /\ CircuitOK(e.node, circuit[e.node])
      BY <1>3 DEF CacheHit, BasicInv, TypeOK, Event, Sound, RequestEvent, CircuitsInv
    <2>5. Conf[e.node].threshold \in Nat
      <3>1. Conf[e.node] \in Config
        BY <2>4 DEF RuntimeAssumption
      <3> QED BY <3>1 DEF Config
    <2>9. PICK c \in Circuit : c = circuit[e.node] /\ CircuitOK(e.node, c)
      BY <2>4
    <2>10. PICK r \in Requests : r = e.req
      BY <2>4
    <2>11. Held(Freed(c, r)) # r
      BY <2>5, <2>9, <2>10, HeldAfter, ZenonT(30)
    <2>12. Held(AfterSuccess(c)) = NoRequest
      BY <2>5, <2>9, HeldAfter
    <2>6. Held(Freed(c, e.req)) # e.req /\ Held(AfterSuccess(c)) = NoRequest
      BY <2>10, <2>11, <2>12
    <2>7. circuit'[e.node] \in {Freed(c, e.req), AfterSuccess(c)}
      BY <1>3, <2>4, <2>9 DEF CacheHit
    <2>8. Held(circuit'[e.node]) # e.req
      BY <2>4, <2>6, <2>7, NoRequestAssumption
    <2> QED BY <2>3, <2>8 DEF ProbePlace
  <1> QED BY <1>1, <1>2, <1>3, RoutedProbe, StartedProbe

\* Request r waits at component n, or a desk of n has it.
AtDesk(f, r, n) == f.type \in Desk /\ f.node = n /\ f.req = r

Present(r, n) ==
    \/ \E i : Waiting(r, n, i)
    \/ \E f \in events : AtDesk(f, r, n)

\* Who is in a queue stays in it when another joins, and when the head makes room.
LEMMA StaysQueued ==
    ASSUME NEW q \in Seq(Requests), NEW x \in Requests, NEW i \in DOMAIN q
    PROVE  /\ i \in DOMAIN Append(q, x) /\ Append(q, x)[i] = q[i]
           /\ q # <<>> /\ q[i] # Head(q)
              => \E j : j \in DOMAIN Append(Tail(q), x) /\ Append(Tail(q), x)[j] = q[i]
  <1>1. i \in DOMAIN Append(q, x) /\ Append(q, x)[i] = q[i]
    OBVIOUS
  <1>2. ASSUME q # <<>>, q[i] # Head(q)
        PROVE  \E j : j \in DOMAIN Append(Tail(q), x) /\ Append(Tail(q), x)[j] = q[i]
    <2>1. PICK k \in Nat : k = Len(q)
      OBVIOUS
    <2>2. i \in 1 .. k /\ i # 1
      BY <1>2, <2>1
    <2>3. PICK j \in Nat : j = i - 1 /\ j \in 1 .. k - 1 /\ j + 1 = i
      BY <2>2
    <2>4. j \in DOMAIN Append(Tail(q), x) /\ Append(Tail(q), x)[j] = q[j + 1]
      BY <1>2, <2>1, <2>3
    <2> QED BY <2>3, <2>4
  <1> QED BY <1>1, <1>2

\* Who is in a queue of which the first k leave is one of these, or stays.
LEMMA LeavesOrStays ==
    ASSUME NEW q \in Seq(Requests), NEW i \in DOMAIN q, NEW k \in 0 .. Len(q), i \notin 1 .. k
    PROVE  \E j : j \in DOMAIN SubSeq(q, k + 1, Len(q)) /\ SubSeq(q, k + 1, Len(q))[j] = q[i]
  <1>1. PICK l \in Nat : l = Len(q)
    OBVIOUS
  <1>2. i \in 1 .. l /\ k \in 0 .. l /\ i > k
    BY <1>1
  <1>3. PICK j \in Nat : j \in 1 .. l - k /\ j + k = i
    <2>1. i - k \in Nat /\ i - k \in 1 .. l - k /\ (i - k) + k = i
      BY <1>2
    <2> QED BY <2>1
  <1>4. j \in DOMAIN SubSeq(q, k + 1, l) /\ SubSeq(q, k + 1, l)[j] = q[j + k]
    BY <1>1, <1>2, <1>3
  <1> QED BY <1>1, <1>3, <1>4

\* A handler leaves a request where it is, unless the event is its own or it is
\* the head of the queue that makes room; a drain takes it from the queue to the
\* desk.
LEMMA StillLive ==
    ASSUME BasicInv, BasicInv', PlacesOK, NEW e \in events, NEW n \in Nodes, NEW r \in Requests,
           Present(r, n), ~AtDesk(e, r, n),
           \/ \E m \in Nodes : MovesTo(e, m, RequestEvent)
           \/ Joins(e) \/ Ends(e) \/ Drains(e) \/ Aside(e)
           \/ DisplacesOldest(e) /\ (e.node = n => r # Head(queue[n]))
    PROVE  Present(r, n)'
  <1>1. /\ events \subseteq Event /\ events' \subseteq Event /\ e.node \in Nodes
        /\ queue \in [Nodes -> Seq(Requests)] /\ queue' \in [Nodes -> Seq(Requests)]
    BY DEF BasicInv, TypeOK, Event
  <1>2. ASSUME NEW f \in events, AtDesk(f, r, n)
        PROVE  Present(r, n)'
    <2>1. f \in Event /\ f.type \in RequestEvent /\ f # e
      BY <1>1, <1>2 DEF AtDesk, Desk, RequestEvent
    <2>2. f \in events'
      BY <2>1 DEF MovesTo, Joins, Ends, Drains, Aside, DisplacesOldest
    <2> QED BY <1>2, <2>2 DEF Present, AtDesk
  <1>3. ASSUME NEW i, Waiting(r, n, i)
        PROVE  Present(r, n)'
    <2>1. queue[n] \in Seq(Requests) /\ i \in DOMAIN queue[n] /\ queue[n][i] = r
      BY <1>1, <1>3 DEF Waiting
    <2>2. CASE queue'[n] = queue[n]
      BY <1>3, <2>2 DEF Present, Waiting
    <2>3. CASE Joins(e) /\ e.node = n
      <3>1. e.req \in Requests
        BY <2>3, <1>1, PlacesOfRequests DEF Joins, GoesOn, RequestEvent
      <3>2. queue'[n] = Append(queue[n], e.req)
        BY <1>1, <2>3 DEF Joins
      <3>3. i \in DOMAIN queue'[n] /\ queue'[n][i] = r
        BY <2>1, <3>1, <3>2, StaysQueued
      <3> QED BY <3>3 DEF Present, Waiting
    <2>4. CASE DisplacesOldest(e) /\ e.node = n /\ r # Head(queue[n])
      <3>1. e.req \in Requests
        BY <2>4, <1>1, PlacesOfRequests DEF DisplacesOldest, GoesOn, RequestEvent
      <3>2. queue'[n] = Append(Tail(queue[n]), e.req) /\ queue[n] # <<>>
        BY <1>1, <2>4 DEF DisplacesOldest
      <3>3. \E j : j \in DOMAIN queue'[n] /\ queue'[n][j] = r
        <4>1. PICK q \in Seq(Requests) : q = queue[n]
          BY <2>1
        <4>2. PICK x \in Requests : x = e.req
          BY <3>1
        <4>3. \E j : j \in DOMAIN Append(Tail(q), x) /\ Append(Tail(q), x)[j] = q[i]
          BY <2>1, <2>4, <3>2, <4>1, StaysQueued
        <4> QED BY <2>1, <3>2, <4>1, <4>2, <4>3
      <3> QED BY <3>3 DEF Present, Waiting
    <2>5. CASE Drains(e) /\ e.node = n
      <3>1. PICK k \in 0 .. Len(queue[n]) :
               /\ queue' = [queue EXCEPT ![n] = SubSeq(@, k + 1, Len(@))]
               /\ \A j \in 1 .. k :
                     /\ Woken(e, j) \in events'
                     /\ Woken(e, j).type = "request.processing_started"
                     /\ Woken(e, j).node = n
                     /\ Woken(e, j).req = queue[n][j]
        BY <2>5 DEF Drains
      <3>2. CASE i \in 1 .. k
        <4>1. Woken(e, i) \in events' /\ AtDesk(Woken(e, i), r, n)
          BY <2>1, <3>1, <3>2 DEF AtDesk, Desk
        <4> QED BY <4>1 DEF Present, AtDesk
      <3>3. CASE i \notin 1 .. k
        <4>1. queue'[n] = SubSeq(queue[n], k + 1, Len(queue[n]))
          BY <1>1, <3>1
        <4>2. \E j : j \in DOMAIN queue'[n] /\ queue'[n][j] = r
          <5>1. PICK q \in Seq(Requests) : q = queue[n]
            BY <2>1
          <5>2. \E j : /\ j \in DOMAIN SubSeq(q, k + 1, Len(q))
                       /\ SubSeq(q, k + 1, Len(q))[j] = q[i]
            BY <2>1, <3>3, <5>1, LeavesOrStays
          <5> QED BY <2>1, <4>1, <5>1, <5>2
        <4> QED BY <4>2 DEF Present, Waiting
      <3> QED BY <3>2, <3>3
    <2>6. CASE e.node # n
      <3>1. queue'[n] = queue[n]
        BY <1>1, <2>6 DEF MovesTo, Joins, Ends, Drains, Aside, DisplacesOldest
      <3> QED BY <2>2, <3>1
    <2>7. CASE queue' = queue
      BY <2>2, <2>7
    <2> QED BY <2>3, <2>4, <2>5, <2>6, <2>7 DEF MovesTo, Ends, Aside
  <1> QED BY <1>2, <1>3 DEF Present

\* The request that the handler of e admits waits or is at the desk afterwards,
\* if it is the probe then.
LEMMA ArrivesAtDesk ==
    ASSUME BasicInv, BasicInv', NEW e \in events, e.req \in Requests, ProbePlace(e),
           Held(circuit'[e.node]) = e.req
    PROVE  Present(e.req, e.node)'
  <1>1. e.node \in Nodes /\ queue \in [Nodes -> Seq(Requests)]
    BY DEF BasicInv, TypeOK, Event
  <1>2. PICK n \in Nodes, r \in Requests : n = e.node /\ r = e.req
    BY <1>1
  <1>3. CASE Joins(e) \/ DisplacesOldest(e)
    <2>1. PICK q : q \in Seq(Requests) /\ queue'[n] = Append(q, r)
      <3>1. CASE Joins(e)
        BY <1>1, <1>2, <3>1 DEF Joins
      <3>2. CASE DisplacesOldest(e)
        <4>1. queue[n] \in Seq(Requests) /\ queue[n] # <<>>
          BY <1>1, <1>2, <3>2 DEF DisplacesOldest
        <4>2. Tail(queue[n]) \in Seq(Requests)
          BY <4>1
        <4>3. queue'[n] = Append(Tail(queue[n]), r)
          BY <1>1, <1>2, <3>2 DEF DisplacesOldest
        <4> QED BY <4>2, <4>3
      <3> QED BY <1>3, <3>1, <3>2
    <2>2. Len(q) + 1 \in DOMAIN Append(q, r) /\ Append(q, r)[Len(q) + 1] = r
      BY <2>1
    <2>3. \E i : i \in DOMAIN queue'[n] /\ queue'[n][i] = r
      BY <2>1, <2>2
    <2>4. \E i : Waiting(r, n, i)'
      BY <2>3 DEF Waiting
    <2> QED BY <1>2, <2>4 DEF Present, Waiting
  <1>4. CASE MovesTo(e, e.node, Desk)
    <2>1. \E f \in events' : AtDesk(f, e.req, e.node)
      BY <1>4 DEF MovesTo, AtDesk
    <2> QED BY <2>1 DEF Present, AtDesk
  <1> QED BY <1>3, <1>4 DEF ProbePlace

\* The probe of every half-open circuit waits at that component or is at its desk.
ProbesLive == \A n \in Nodes : \A r \in Requests : Held(circuit[n]) = r => Present(r, n)

\* A handler that returns keeps it so.
LEMMA ProbesLiveKept ==
    ASSUME RuntimeAssumption, BasicInv, BasicInv', WithinSlots, CircuitsInv, PlacesOK, ProbesLive,
           NEW e \in events, Handle(e), ~Throw(e)
    PROVE  ProbesLive'
  <1> SUFFICES ASSUME NEW n \in Nodes, NEW r \in Requests, Held(circuit'[n]) = r
               PROVE  Present(r, n)'
    BY DEF ProbesLive, Held
  <1>1. PlacePart(e)
    BY HandlerEffect
  <1>2. \/ Held(circuit[n]) = r
        \/ /\ n = e.node /\ r = e.req
           /\ e.type \in {"request.routed", "request.processing_started"}
    BY CircuitsKept, NoRequestAssumption
  <1>3. CASE AtDesk(e, r, n) \/ (n = e.node /\ r = e.req /\ e.type = "request.routed")
    <2>1. e.type \in Desk \cup {"request.routed"} /\ n = e.node /\ r = e.req
      BY <1>3 DEF AtDesk
    <2>2. ProbePlace(e)
      BY <2>1, DeskProbe
    <2>3. Present(e.req, e.node)'
      BY <2>1, <2>2, ArrivesAtDesk
    <2> QED BY <2>1, <2>3 DEF Present, AtDesk, Waiting
  <1>4. CASE /\ Held(circuit[n]) = r /\ ~AtDesk(e, r, n)
    <2>1. Present(r, n)
      BY <1>4 DEF ProbesLive
    <2>2. CASE e.type \in Desk
      <3>1. ProbePlace(e)
        BY <2>2, DeskProbe
      <3>2. Desk \in SUBSET RequestEvent
        BY DEF Desk, RequestEvent
      <3>3. MovesTo(e, e.node, Desk) => MovesTo(e, e.node, RequestEvent)
        BY <3>2, MovesSomewhere
      <3>4. e.node \in Nodes
        BY DEF BasicInv, TypeOK, Event
      <3>5. \/ \E m \in Nodes : MovesTo(e, m, RequestEvent)
            \/ Joins(e)
            \/ DisplacesOldest(e) /\ (e.node = n => r # Head(queue[n]))
        BY <3>1, <3>3, <3>4 DEF ProbePlace
      <3> QED BY <1>4, <2>1, <3>5, StillLive
    <2>3. CASE e.type \notin Desk
      <3>1. ~Joins(e) /\ ~DisplacesOldest(e)
        BY <2>3 DEF Joins, DisplacesOldest, Desk
      <3> QED BY <1>1, <1>4, <2>1, <3>1, StillLive DEF PlacePart
    <2> QED BY <2>2, <2>3
  <1> QED BY <1>2, <1>3, <1>4 DEF AtDesk, Desk

\* What is invariant of the probes.
ProbeInv ==
    /\ Base /\ PlacesInv
    /\ status # "failed" => CircuitsInv /\ ProbesLive

\* It holds when a run has been prepared.
LEMMA ProbeInvFirst ==
    ASSUME RuntimeAssumption, Init
    PROVE  ProbeInv
  <1>1. \A n \in Nodes : circuit[n] = Closed
    BY DEF Init
  <1>2. \A n \in Nodes : Held(circuit[n]) = NoRequest /\ CircuitOK(n, circuit[n])
    BY <1>1 DEF Closed, Held, CircuitOK
  <1> QED BY <1>2, BaseHoldsFirst, PlacesInvFirst, NoRequestAssumption
      DEF ProbeInv, CircuitsInv, ProbesLive

\* Every step keeps it.
LEMMA ProbeInvKept ==
    ASSUME RuntimeAssumption, ProbeInv, [Next]_vars
    PROVE  ProbeInv'
  <1>1. Base' /\ PlacesInv'
    BY BaseKept, PlacesInvKept DEF ProbeInv
  <1>2. CASE Next /\ status' # "failed"
    <2>1. status # "failed"
      BY <1>2 DEF Next
    <2>2. PICK e \in events : Handle(e)
      BY <1>2 DEF Next
    <2>3. ~Throw(e)
      BY <1>2 DEF Throw
    <2>4. CircuitsInv'
      BY <2>1, <2>2, <2>3, CircuitsKept DEF ProbeInv, Base
    <2>5. ProbesLive'
      BY <1>1, <2>1, <2>2, <2>3, ProbesLiveKept DEF ProbeInv, Base, PlacesInv
    <2> QED BY <1>1, <2>4, <2>5 DEF ProbeInv
  <1>3. CASE UNCHANGED vars
    BY <1>1, <1>3 DEF vars, model, ProbeInv, CircuitsInv, ProbesLive, Present, Waiting
  <1> QED BY <1>1, <1>2, <1>3 DEF ProbeInv

\* The probe of a half-open circuit is a request on its way through that very
\* component: a circuit never waits for a request that went elsewhere or is over,
\* on any architecture and under any load, whatever fails.
THEOREM ProbeIsAlwaysLive == Spec => []ProbeIsLive
  <1>1. Init => ProbeInv
    BY ProbeInvFirst, RuntimeAssumption
  <1>2. ProbeInv /\ [Next]_vars => ProbeInv'
    BY ProbeInvKept, RuntimeAssumption
  <1>3. ProbeInv => ProbeIsLive
    <2> SUFFICES ASSUME ProbeInv, status # "failed", NEW n \in Nodes,
                        circuit[n].state = "half-open", circuit[n].probe # NoRequest
                 PROVE  \/ WaitsAt(circuit[n].probe, n)
                        \/ \E e \in Continuations(circuit[n].probe) : e.node = n
      BY DEF ProbeIsLive
    <2>1. PICK r : r = circuit[n].probe
      OBVIOUS
    <2>2. circuit[n] \in Circuit
      BY DEF ProbeInv, Base, BasicInv, TypeOK
    <2>3. r \in Requests /\ Held(circuit[n]) = r
      BY <2>1, <2>2 DEF Held, Circuit
    <2>4. Present(r, n)
      BY <2>3 DEF ProbeInv, ProbesLive
    <2>5. \A f \in events : AtDesk(f, r, n) => f \in Continuations(r) /\ f.node = n
      BY DEF AtDesk, Continuations, Desk, RequestEvent
    <2> QED BY <2>1, <2>4, <2>5 DEF Present, Waiting, WaitsAt
  <1> QED BY <1>1, <1>2, <1>3, PTL DEF Spec

-----------------------------------------------------------------------------
(* The waiting requests of components without processing errors and circuit *)
(* breakers.                                                                *)

\* No attempt fails at n, and no circuit of it refuses anybody.
CalmNode(n) == TRUE \notin Conf[n].errors /\ ~Conf[n].breaker

\* The events after which somebody is fetched from the queue of n.
Wakes(f, n) ==
    /\ f.node = n
    /\ f.type \in {"request.processing_started", "request.processing_completed", "queue.drain"}

\* Whoever waits at a calm component that works will be fetched.
WakersOK ==
    \A n \in Nodes : CalmNode(n) /\ queue[n] # <<>> /\ ~comp[n].failed
                     => \E f \in events : Wakes(f, n)

\* Every handler that returns has scheduled a list of events.
LEMMA Schedules ==
    ASSUME NEW e \in events, Handle(e), ~Throw(e)
    PROVE  \E list : Proceed(e, list)
  <1>1. CASE \/ Created(e) \/ Reroute(e) \/ DatabaseResponse(e) \/ Routed(e) \/ CacheHit(e)
             \/ Transmission(e)
    BY <1>1 DEF Created, Reroute, DatabaseResponse, JustRoutes, Routes, Routed, Refused, Arrives,
       Lookup, CacheHit, Transmission
  <1>2. CASE ProcessingStarted(e)
    BY <1>2 DEF ProcessingStarted, Refused, TurnedAway, Displaces, Waits, Attempt
  <1>3. CASE ProcessingCompleted(e)
    BY <1>3 DEF ProcessingCompleted, Routes
  <1>4. CASE \/ CacheMiss(e) \/ CacheSet(e) \/ DatabaseRequest(e) \/ QueueDrain(e)
             \/ Completed(e) \/ RequestFailed(e) \/ Retry(e)
    BY <1>4 DEF CacheMiss, CacheSet, DatabaseRequest, QueueDrain, Completed, RequestFailed, Retry
  <1>5. CASE \/ ComponentFailed(e) \/ Recovery(e) \/ Recovered(e) \/ HalfOpen(e)
             \/ Evaluate(e) \/ Scaled(e)
    BY <1>5 DEF ComponentFailed, Recovery, Recovered, HalfOpen, Evaluate, Scaled
  <1> QED BY <1>1, <1>2, <1>3, <1>4, <1>5 DEF Handle

\* It keeps every other event.
LEMMA OthersStay ==
    ASSUME NEW e, NEW list, Proceed(e, list)
    PROVE  \A f \in events : f # e => f \in events'
  BY DEF Proceed

\* A record that At makes.
IsEvent(x) == \E t, type, n, r, a : x = At(t, type, n, r, a)

\* What is in the list is scheduled.
LEMMA ScheduledEvent ==
    ASSUME NEW e, NEW list, NEW i \in DOMAIN list, NEW x, list[i] = x,
           IsEvent(x), Proceed(e, list)
    PROVE  \E f \in events' : f.type = x.type /\ f.node = x.node
  <1>1. [x EXCEPT !.seq = nextSeq + i] \in events'
    BY DEF Proceed, Stamped
  <1>2. /\ [x EXCEPT !.seq = nextSeq + i].type = x.type
        /\ [x EXCEPT !.seq = nextSeq + i].node = x.node
    BY DEF At, IsEvent
  <1> QED BY <1>1, <1>2

\* A component without a free slot has a completion on the way.
LEMMA BusyCompletes ==
    ASSUME RuntimeAssumption, Base, NEW n \in Nodes, WorkMatches(n), ~HasCapacity(n)
    PROVE  \E f \in events : f.type = "request.processing_completed" /\ f.node = n
  <1>1. comp[n].replicas \in Nat \ {0} /\ comp[n].active \in Nat
    BY DEF Base, BasicInv, TypeOK
  <1>2. Conf[n].concurrency \in Nat \ {0}
    <2>1. Conf[n] \in Config
      BY DEF RuntimeAssumption
    <2> QED BY <2>1 DEF Config
  <1>3. Slots(n) \in Nat /\ Slots(n) # 0
    <2>1. \A a, b \in Nat \ {0} : a * b \in Nat /\ a * b # 0
      OBVIOUS
    <2> QED BY <1>1, <1>2, <2>1 DEF Slots
  <1>4. comp[n].active # 0
    BY <1>1, <1>3 DEF HasCapacity
  <1>5. Work(n) # {}
    BY <1>4, FS_EmptySet DEF WorkMatches
  <1> QED BY <1>5 DEF Work

\* When somebody waits, the drain is scheduled first.
LEMMA DrainFirst ==
    ASSUME NEW e, queue[e.node] # <<>>, NEW y,
           Proceed(e, Append(Drain(e), y)) \/ \E z : Proceed(e, Drain(e) \o <<y, z>>)
    PROVE  \E f \in events' : Wakes(f, e.node)
  <1>1. PICK x : x = At(e.at, "queue.drain", e.node, NoRequest, 0)
    OBVIOUS
  <1>2. Drain(e) = <<x>>
    BY <1>1 DEF Drain
  <1>3. 1 \in DOMAIN Append(<<x>>, y) /\ Append(<<x>>, y)[1] = x
    <2>1. <<x>> \in Seq({x, y}) /\ y \in {x, y} /\ Len(<<x>>) = 1 /\ <<x>>[1] = x
      OBVIOUS
    <2> QED BY <2>1
  <1>4. \A z : 1 \in DOMAIN (<<x>> \o <<y, z>>) /\ (<<x>> \o <<y, z>>)[1] = x
    <2> TAKE z
    <2>1. /\ <<x>> \in Seq({x, y, z}) /\ <<y, z>> \in Seq({x, y, z})
          /\ Len(<<x>>) = 1 /\ Len(<<y, z>>) = 2 /\ <<x>>[1] = x
      OBVIOUS
    <2> QED BY <2>1
  <1>5. PICK list : 1 \in DOMAIN list /\ list[1] = x /\ Proceed(e, list)
    BY <1>2, <1>3, <1>4
  <1>6. \E f \in events' : f.type = x.type /\ f.node = x.node
    <2>1. IsEvent(x)
      BY <1>1 DEF IsEvent
    <2> QED BY <1>5, <2>1, ScheduledEvent
  <1> QED BY <1>1, <1>6 DEF At, Wakes

\* A completion at n wakes whoever waits there.
LEMMA CompletionWakes ==
    ASSUME NEW e \in events, ProcessingCompleted(e), ~Throw(e), queue[e.node] # <<>>
    PROVE  \E f \in events' : Wakes(f, e.node)
  <1>1. \E y : \/ Proceed(e, Append(Drain(e), y))
               \/ \E z : Proceed(e, Drain(e) \o <<y, z>>)
    BY DEF ProcessingCompleted, Routes
  <1> QED BY <1>1, DrainFirst

\* A start at a calm component that works is tried, and its completion
\* scheduled, or no slot is free.
LEMMA StartWakes ==
    ASSUME RuntimeAssumption, Base, CircuitsInv, NEW e \in events, ProcessingStarted(e), ~Throw(e),
           CalmNode(e.node), ~comp[e.node].failed, WorkMatches(e.node)
    PROVE  \E f \in events' : Wakes(f, e.node)
  <1>1. e.type = "request.processing_started" /\ e.node \in Nodes
    BY DEF ProcessingStarted, Base, BasicInv, TypeOK, Event
  <1>2. ~Refused(e)
    <2>1. circuit[e.node].state = "closed"
      BY <1>1 DEF CircuitsInv, CircuitOK, CalmNode
    <2> QED BY <2>1 DEF Refused, Admits
  <1>3. CASE ~HasCapacity(e.node)
    <2>1. PICK f \in events : f.type = "request.processing_completed" /\ f.node = e.node
      BY <1>1, <1>3, BusyCompletes
    <2>2. f # e
      BY <1>1, <2>1
    <2>3. ProcessingStarted(e) => Handle(e)
      BY DEF Handle
    <2>4. f \in events'
      BY <2>2, <2>3, Schedules, OthersStay
    <2> QED BY <2>1, <2>4 DEF Wakes
  <1>4. CASE HasCapacity(e.node)
    <2>1. Attempt(e)
      BY <1>2, <1>4 DEF ProcessingStarted
    <2>2. PICK x : x = At(e.at + Conf[e.node].latency, "request.processing_completed",
                          e.node, e.req, 0)
      OBVIOUS
    <2>3. PICK list : list = <<x>> /\ Proceed(e, list)
      BY <2>1, <2>2 DEF Attempt, CalmNode
    <2>4. 1 \in DOMAIN list /\ list[1] = x
      BY <2>3
    <2>6. IsEvent(x)
      BY <2>2 DEF IsEvent
    <2>5. \E f \in events' : f.type = x.type /\ f.node = x.node
      BY <2>3, <2>4, <2>6, ScheduledEvent
    <2> QED BY <2>2, <2>5 DEF At, Wakes
  <1> QED BY <1>3, <1>4

\* A drain starts somebody, unless nobody waits or no slot is free.
LEMMA DrainWakes ==
    ASSUME RuntimeAssumption, Base, NEW e \in events, QueueDrain(e), ~comp[e.node].failed,
           WorkMatches(e.node), queue'[e.node] # <<>>
    PROVE  \E f \in events' : Wakes(f, e.node)
  <1>1. e.type = "queue.drain" /\ e.node \in Nodes /\ queue \in [Nodes -> Seq(Requests)]
    BY DEF QueueDrain, Base, BasicInv, TypeOK, Event
  <1>2. /\ Slots(e.node) - comp[e.node].active \in Nat
        /\ HasCapacity(e.node) <=> Slots(e.node) - comp[e.node].active # 0
    BY <1>1, FreeSlots DEF Base
  <1>3. PICK n, free, q, k :
           /\ n = e.node /\ free = Slots(n) - comp[n].active /\ q = queue[n]
           /\ k = IF free < Len(q) THEN free ELSE Len(q)
    OBVIOUS
  <1>4. /\ queue' = [queue EXCEPT ![n] = SubSeq(q, k + 1, Len(q))]
        /\ Proceed(e, [i \in 1 .. k |-> Started(e, q[i])])
    BY <1>1, <1>3 DEF QueueDrain
  <1>5. CASE ~HasCapacity(e.node)
    <2>1. PICK f \in events : f.type = "request.processing_completed" /\ f.node = e.node
      BY <1>1, <1>5, BusyCompletes
    <2>2. f # e
      BY <1>1, <2>1
    <2>3. f \in events'
      BY <1>4, <2>2, OthersStay
    <2> QED BY <2>1, <2>3 DEF Wakes
  <1>6. CASE HasCapacity(e.node)
    <2>1. q \in Seq(Requests) /\ SubSeq(q, k + 1, Len(q)) # <<>>
      BY <1>1, <1>3, <1>4
    <2>2. Len(q) \in Nat /\ Len(q) # 0
      <3>1. q # <<>>
        BY <2>1
      <3> QED BY <2>1, <3>1
    <2>3. k \in Nat /\ 1 \in 1 .. k
      BY <1>2, <1>3, <1>6, <2>2
    <2>4. PICK list : list = [i \in 1 .. k |-> Started(e, q[i])] /\ Proceed(e, list)
      BY <1>4
    <2>5. PICK i \in DOMAIN list : i = 1
      BY <2>3, <2>4
    <2>6. PICK x : x = At(e.at, "request.processing_started", e.node, q[1], 0) /\ list[i] = x
      BY <2>3, <2>4, <2>5 DEF Started
    <2>8. IsEvent(x) /\ list[i] = x
      BY <2>6 DEF IsEvent
    <2>9. Proceed(e, list)
      BY <2>4
    <2>7. \E f \in events' : f.type = x.type /\ f.node = x.node
      BY <2>8, <2>9, ScheduledEvent
    <2> QED BY <2>6, <2>7 DEF At, Wakes
  <1> QED BY <1>5, <1>6

\* A component that comes back fetches whoever waited for it.
LEMMA RecoveryWakes ==
    ASSUME NEW e \in events, Recovered(e), comp[e.node].failed, queue[e.node] # <<>>
    PROVE  \E f \in events' : Wakes(f, e.node)
  <1>1. PICK x : x = At(e.at, "queue.drain", e.node, NoRequest, 0)
    OBVIOUS
  <1>2. Proceed(e, <<x>>)
    BY <1>1 DEF Recovered, Drain
  <1>3. 1 \in DOMAIN <<x>> /\ <<x>>[1] = x
    OBVIOUS
  <1>4. \E f \in events' : f.type = x.type /\ f.node = x.node
    <2>1. IsEvent(x)
      BY <1>1 DEF IsEvent
    <2> QED BY <1>2, <1>3, <2>1, ScheduledEvent
  <1> QED BY <1>1, <1>4 DEF At, Wakes

\* No handler leaves somebody behind at a calm component.
LEMMA WakersKept ==
    ASSUME RuntimeAssumption, Base, CircuitsInv, WakersOK, \A n \in Nodes : WorkMatches(n),
           NEW e \in events, Handle(e), ~Throw(e)
    PROVE  WakersOK'
  <1> SUFFICES ASSUME NEW n \in Nodes, CalmNode(n), queue'[n] # <<>>, ~comp'[n].failed
               PROVE  \E f \in events' : Wakes(f, n)
    BY DEF WakersOK, CalmNode, Wakes
  <1>1. TimerPart(e) /\ WorkPart(e) /\ PlacePart(e)
    BY HandlerEffect DEF Base
  <1>2. /\ comp[n].failed => comp'[n].failed \/ (e.type = "component.recovered" /\ e.node = n)
        /\ ~comp[n].failed => comp'[n].failed \/ comp'[n].failed = comp[n].failed
    <2>1. comp \in [Nodes -> [ failed : BOOLEAN, active : Nat,
                               replicas : Nat \ {0}, cycle : Nat ]]
      BY DEF Base, BasicInv, TypeOK
    <2> QED BY <1>1, <2>1
        DEF TimerPart, KeepsTimers, FailsAt, StartsRecovery, EndsCycle, Revives, OpensHalf
  <1>3. queue'[n] = queue[n] \/ (e.node = n /\ e.type \in {"request.processing_started", "queue.drain"})
    <2>1. queue \in [Nodes -> Seq(Requests)] /\ e.node \in Nodes
      BY DEF Base, BasicInv, TypeOK, Event
    <2> QED BY <1>1, <2>1
        DEF PlacePart, MovesTo, Joins, DisplacesOldest, Ends, Drains, Aside
  <1>4. CASE e.node = n /\ e.type = "request.processing_started"
    <2>1. ProcessingStarted(e)
      BY <1>4 DEF Handle, Created, Transmission, Routed, CacheMiss, CacheHit, CacheSet,
         DatabaseRequest, DatabaseResponse, ProcessingCompleted, QueueDrain, Completed,
         RequestFailed, Retry, Reroute, ComponentFailed, Recovery, Recovered, HalfOpen,
         Evaluate, Scaled
    <2>2. ~comp[n].failed
      BY <1>2, <1>4
    <2> QED BY <1>4, <2>1, <2>2, StartWakes
  <1>5. CASE e.node = n /\ e.type = "request.processing_completed"
    <2>1. ProcessingCompleted(e)
      BY <1>5 DEF Handle, Created, Transmission, Routed, CacheMiss, CacheHit, CacheSet,
         DatabaseRequest, DatabaseResponse, ProcessingStarted, QueueDrain, Completed,
         RequestFailed, Retry, Reroute, ComponentFailed, Recovery, Recovered, HalfOpen,
         Evaluate, Scaled
    <2>2. queue[n] # <<>>
      BY <1>3, <1>5
    <2> QED BY <1>5, <2>1, <2>2, CompletionWakes
  <1>6. CASE e.node = n /\ e.type = "queue.drain"
    <2>1. QueueDrain(e)
      BY <1>6 DEF Handle, Created, Transmission, Routed, CacheMiss, CacheHit, CacheSet,
         DatabaseRequest, DatabaseResponse, ProcessingStarted, ProcessingCompleted, Completed,
         RequestFailed, Retry, Reroute, ComponentFailed, Recovery, Recovered, HalfOpen,
         Evaluate, Scaled
    <2>2. ~comp[n].failed
      BY <1>2, <1>6
    <2> QED BY <1>6, <2>1, <2>2, DrainWakes
  <1>7. CASE e.node = n /\ e.type = "component.recovered" /\ comp[n].failed
    <2>1. Recovered(e)
      BY <1>7 DEF Handle, Created, Transmission, Routed, CacheMiss, CacheHit, CacheSet,
         DatabaseRequest, DatabaseResponse, ProcessingStarted, ProcessingCompleted, QueueDrain,
         Completed, RequestFailed, Retry, Reroute, ComponentFailed, Recovery, HalfOpen,
         Evaluate, Scaled
    <2>2. queue[n] # <<>>
      BY <1>3, <1>7
    <2> QED BY <1>7, <2>1, <2>2, RecoveryWakes
  <1>8. CASE ~Wakes(e, n) /\ ~comp[n].failed
    <2>1. queue[n] # <<>>
      BY <1>3, <1>8 DEF Wakes
    <2>2. PICK f \in events : Wakes(f, n)
      BY <1>8, <2>1 DEF WakersOK
    <2>3. f \in events'
      BY <1>8, <2>2, Schedules, OthersStay
    <2> QED BY <2>2, <2>3
  <1> QED BY <1>2, <1>4, <1>5, <1>6, <1>7, <1>8 DEF Wakes

\* What is invariant of the queues.
QueuesInv ==
    /\ ProbeInv /\ WorkInv
    /\ status # "failed" => WakersOK

\* Every step keeps it.
LEMMA QueuesInvKept ==
    ASSUME RuntimeAssumption, QueuesInv, [Next]_vars
    PROVE  QueuesInv'
  <1>1. ProbeInv' /\ WorkInv'
    BY ProbeInvKept, WorkInvKept DEF QueuesInv, ProbeInv
  <1>2. CASE Next /\ status' # "failed"
    <2>1. status # "failed"
      BY <1>2 DEF Next
    <2>2. PICK e \in events : Handle(e)
      BY <1>2 DEF Next
    <2>3. ~Throw(e)
      BY <1>2 DEF Throw
    <2>4. WakersOK'
      BY <2>1, <2>2, <2>3, WakersKept DEF QueuesInv, ProbeInv, WorkInv
    <2> QED BY <1>1, <2>4 DEF QueuesInv
  <1>3. CASE UNCHANGED vars
    BY <1>1, <1>3 DEF vars, model, QueuesInv, WakersOK, Wakes, CalmNode
  <1> QED BY <1>1, <1>2, <1>3 DEF QueuesInv

\* Nobody is forgotten in the queue of a component that works, makes no errors
\* and has no circuit breaker: while somebody waits, a start, a completion or a
\* drain is scheduled there.  The rest of the architecture may fail as it likes.
THEOREM CalmQueuesAreWoken == Spec => [](status # "failed" => WakersOK)
  <1>1. Init => QueuesInv
    <2> SUFFICES ASSUME Init PROVE QueuesInv
      OBVIOUS
    <2>1. \A n \in Nodes : queue[n] = <<>>
      BY DEF Init
    <2> QED BY <2>1, ProbeInvFirst, WorkInvFirst, RuntimeAssumption DEF QueuesInv, WakersOK
  <1>2. QueuesInv /\ [Next]_vars => QueuesInv'
    BY QueuesInvKept, RuntimeAssumption
  <1>3. QueuesInv => (status # "failed" => WakersOK)
    BY DEF QueuesInv
  <1> QED BY <1>1, <1>2, <1>3, PTL DEF Spec

\* On an architecture all of such components, no queue is ever stranded.
THEOREM NoQueueIsStranded ==
    (\A n \in Nodes : CalmNode(n)) => (Spec => []NoStrandedQueue)
  <1> SUFFICES ASSUME \A n \in Nodes : CalmNode(n)
               PROVE  Spec => []NoStrandedQueue
    OBVIOUS
  <1>1. (status # "failed" => WakersOK) => NoStrandedQueue
    BY DEF WakersOK, Wakes, NoStrandedQueue
  <1> QED BY <1>1, CalmQueuesAreWoken, PTL

=============================================================================
