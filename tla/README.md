# Verification of system_labs

system_labs is a laboratory for system design: a user draws an architecture,
the backend simulates traffic through it, and pages of the frontend steer the
run and show what it measures. This directory holds TLA+ models of the parts of
the program where order, interleaving and failure decide whether it is right,
TLC runs that check them on small instances, and proofs of the central facts for
every instance. The code is the reference; line numbers for every definition are
in `PROJECT.json` (`map`).

## 1. Inventory

### Backend (`src/backend/src`)

| component | state it keeps | operations | interacts with |
|---|---|---|---|
| simulations service (`modules/simulation/simulation.service.ts`) | none | create, start, pause, resume, cancel, remove, save, list, metrics | repository, execution manager |
| repository (`simulation.repository.ts`) | the `simulations` table | `transition` (UPDATE scoped to statuses), `delete` (scoped), `failInterrupted`, reads | PostgreSQL |
| execution manager (`simulation.execution.ts`) | `handles`, `pending`, `shuttingDown` | start, pause, resume, cancel, shutdown; the background task `execute`/`drive`/`markFailed` | repository, orchestrator |
| orchestrator and engine (`simulation.orchestrator.ts`, `simulation-engine/core`) | runs by id; per run a status, a clock, an event queue | create, start, step, pause, resume, cancel, dispose | event processor |
| event processor and handlers (`processor/`) | none of their own | one handler per event type | runtime |
| runtime (`core/simulation-runtime.ts`) | requests, components (capacity, circuit, health, recovery generation, metrics), queues, caches, round-robin positions | admission, routing context, queueing, circuit transitions, scaling, the report | all handlers |
| event queue (`core/event-queue.ts`) | a binary heap, the next insertion number | enqueue, dequeue, clear | engine |
| cache (`cache/simulation-cache.ts`) | entries in insertion order, counters | get, set (expiry, least recent use) | cache handlers |
| autoscaling, routing, traffic, health, histograms | positions of round robin; buckets | evaluate, selectEdge, generate, record, merge | runtime |
| auth (`modules/auth`, `middlewares/authenticate`) | users, sessions with the hash of a refresh token | register, login, refresh, logout, logout of all, me | PostgreSQL, the browser's cookie |
| projects, architectures (`modules/project`, `modules/architecture`) | their rows | create, read, change, delete, each several statements | PostgreSQL |
| recovery job, `server.ts` | none | reconcile at boot, shut down on a signal | repository, execution manager |

### Frontend (`src/frontend/src`)

| component | state it keeps | operations | interacts with |
|---|---|---|---|
| run store and hooks (`store/simulationsSlice.ts`, `useSimulationRun`, `useSimulationList`) | per run its status, metrics, results, pending action and error; the list of a page | poll, control, save, remove, create, attach, fetch results | API; pages |
| editor (`store/editorSlice.ts`, `EditorShell.tsx`) | the graph with the metrics of the run in focus painted over it, undo history, clipboard, dirty/saving flags, the autosave timer | edits, undo, redo, copy, paste, paint, reset, autosave, "Save & run", leave | API; the workspace layout, which holds a copy of the architecture |
| session (`lib/api/http.ts`, `store/authSlice.ts`, the guards) | the access token, the shared refresh promise, the auth status | apiFetch, bootstrap, login, register, logout | the cookie, which all tabs share |
| dashboard (`store/projectsSlice.ts`) | the list of projects | fetch, create, update, delete | API |

### Interactions and hard behaviours

* One Node process. Code between two awaits is atomic; everything else
  interleaves. A control call crosses three awaits (read the row and check it;
  the status-scoped UPDATE; the continuation that steers the in-memory run), and
  the drive loop of the same run stands at an await of its own meanwhile.
  Answers of concurrent statements are handled in any order.
* A statement may fail, with or without having been applied. The process may
  crash, or be shut down, anywhere; in-memory state is then lost and the next
  boot fails the rows that were active.
* No transaction spans two statements. A request for an architecture or a run
  reads it, then its project, then acts; the project may be changed, hidden or
  deleted, with everything below it, in between. A refresh reads the session,
  compares the token and replaces it in three statements.
* Within a run nothing is concurrent, but everything is reordered by simulated
  time: events decided on one state are handled in another. Timers of circuit
  breakers and recoveries carry generations for this reason; drains, scalings
  and cache hits do not, and are the interesting cases.
* A request is handed from event to event and through queues by about twenty
  handlers that throw when they meet a request in an unexpected status, and a
  throw fails the whole run. The same handlers count what they do, in four
  places, and the report merges the counts at whatever moment it is asked for.
* In the browser a handler and the rendering it causes are atomic; requests are
  not. Any number are in flight, the server handles each at some moment of its
  own, and answers are applied in any order, to a page that may have been left
  and entered again. An answer says what was true when the server read it.
* Tabs share the cookie but not the access token; a rotation in one tab takes
  away the refresh token another tab has just sent.

What makes each part correct: a row follows the lifecycle and is driven by
exactly one loop while it is active; control calls have their effect whatever
they race with; no request is lost or doubled; slots, queues and counters are
accounted for; timers, recoveries and probes never leave a component stuck;
simulated time never turns back and a run ends; a revoked session stays revoked
and nobody is signed out without cause; answers follow the visibility of the
project; a saved graph is neither lost nor replaced by an older one; pages
in the end show what the server has.

The full list of hazards, each at its line, with the property that covers it or
the reason none does, is `hazards` in `PROJECT.json`.

## 2. Modules

| module | models | abstractions |
|---|---|---|
| `Lifecycle` | the status matrix of `simulation-lifecycle.ts` | timestamps are left out |
| `RunLifecycle` | the abstract promise about the table: rows move along the matrix, terminal statuses are permanent until removal | one variable, `row` |
| `ExecutionManager` | service + repository + execution manager + boot and shutdown | the engine of a run is its status and the number of events it has `left` |
| `CircuitBreaker` | the circuit of one component, as functions from circuit to circuit | none |
| `SimulationRuntime` | event processing, every handler and the runtime state of one run | health is failed or not; counters and notification events left out; random draws and the life of cache entries are choices |
| `SimulationMetrics` | what the same handlers measure: graded health, counters, histograms, cache entries, the report | ratios are fractions; latencies whole milliseconds |
| `LatencyHistogram`, `SimulationCache`, `TrafficGenerator` | the algorithms `SimulationMetrics` and its instance are built with | integers instead of floating point |
| `Agenda` | the contract of an event queue: a set, earliest first, then in order of insertion | |
| `EventQueue` | the binary heap | an event is its time and number |
| `SimulationsClient` | the store of runs, the polling hook, the list, and the buttons of three pages, against a server that is `RunLifecycle` | metrics and results are "there" or not; a page shows the runs of one architecture |
| `EditorSession` | the editor, its saving, the reload of the workspace, and the snapshot a run takes | settings of a component are one value; ids are drawn in order |
| `AuthSessions` | sessions on the server and the tabs of one browser | a token is the number of the pair it was issued with; passwords are left out |
| `Projects` | projects, architectures and runs as rows, every route that touches them statement by statement, and the dashboard | a graph is two version numbers |
| `MC...` | instances for TLC | |
| `ExecutionManagerProofs` | theorems about `ExecutionManager` | |
| `SimulationRuntimeProofs` | what every handler of `SimulationRuntime` does to timers, slots and places; the invariants of a run and the theorems about it | |
| `SimulationMetricsProofs` | sums over finite sets, and theorems about `SimulationMetrics` | |
| `EventQueueProofs` | the loops of the heap, and the theorem that it implements `Agenda` | |
| `AuthSessionsProofs`, `ProjectsProofs`, `SimulationsClientProofs`, `EditorSessionProofs` | theorems about the module of that name | |

`SimulationsClient`, `EditorSession`, `AuthSessions` and `Projects` each hold a
client and the part of the server it talks to; `SimulationsClient` instances
`RunLifecycle`, the abstract specification `ExecutionManager` is proved to
implement. `SimulationMetrics` EXTENDS `SimulationRuntime` and conjoins to every
step what its handler records.

**ExecutionManager.** `row[s]` is the status column ("absent" before the POST,
"deleted" after the removal). `run[s]` is the in-memory side: whether a handle
is in the map, its two flags, the status of the registered engine and `loop`,
the await at which `execute()` stands. `call[c]` is a control call after its
check ("checked") or after its UPDATE ("applied"). The code between two awaits
is one action: `Receive` (check) / `Apply` (UPDATE) / `ContinuePause` ...
(continuation); `Load`, `Begin`, `Drive`, `Flush`, `Persist...`, `Release` for
the loop. `Turn` is one pass through the loop of `drive()`: shutdown first, then
cancel, then pause, then a burst of engine steps; a burst ends at a progress
flush, at completion, or with a handler that throws. An engine operation that
its status forbids throws *after* the flag of the handle has been set: this is
modelled (`EngineAllows`), and the call then answers 500 with its UPDATE
applied. `ApplyThrows`, `LoadThrows`, `UpdateThrows`, `FailureThrows` are failing
statements, with both outcomes of the write.

**SimulationRuntime.** One step takes the first eligible event in (time,
insertion) order and runs its handler, so the only nondeterminism is that of the
seeded generator. A handler that throws fails the run (`Throw`); what the handler
had already changed is dropped, since a failed run is disposed of. A circuit is
the record the runtime keeps; its probe is the id of a request. Insertion
numbers of events nothing reacts to are skipped, which does not change the order
of the others.

**SimulationMetrics.** `work[n]` is what the health of component n is judged by,
`obs[n]` its metrics, `store` those of no single component, `cache[n]` the
entries of a cache. A component starts with the health its snapshot stores
(`FirstHealth`; the schema does not admit `failed`) and is judged by thresholds of
its own. The branch a handler took is read off the step of the
engine. The engine leaves the contents of caches open (a key stored once may be
found again or not); here the entries, their expiry and their eviction decide,
so a hit is a step of the engine only if `CacheIsSound`. The load of the
instance is that of `TrafficGenerator`.

**SimulationsClient.** `net` holds the requests: "sent", then "ok" or "error"
with the view the server answered (`Serve`, or `Fault` when the connection
breaks), then applied (`Handle`), in any order. `runs[r]` is the record of the
slice, `focus` and `fetched` the argument and the ref of `useSimulationRun`,
`dispatched` what the effects of the editor last told its slice to show; what is
on the canvas then is a matter of `EditorSession`, where edits and undo meet it.
Effects of a render are part of the action that
caused it. `Elsewhere` is what loops, boots and other clients do to rows. Polls
and ticks are actions of their own, and a button is one, guarded by when the page
shows it (`Click`, `Submit`, `Delete`).

**EditorSession.** `editor` is the slice as a record; an edit maps it to the
record after the reducer. `timer`, `patches`, `load` and `creates` are the awaits
of `EditorShell` and the layout; `row` and `copy` are the architecture in the
table and in the layout. A PATCH is refused when its body holds a refused
setting. `started` records, for each run, what was on the canvas when it was
asked for and what the server took. `focus` is the run shown; its metrics and
health are painted over the components (`Paint`, `Cleared`), which history,
clipboard and saves carry along. The two conversions are not inverse:
`deserializeNode` fills gaps with the defaults of the catalog and drops what the
editor does not know though the API accepts it (queues, health thresholds,
recovery delays, caches, bandwidth, packet loss); `Read` maps such settings, the
domain of `Filled`, to what the editor makes of them, and the next save stores
that. `serializeNode` saves the health on the canvas (`Serialized`), so a run's
verdict gets into the row without the editor becoming dirty, and the next run
starts from it; opening the editor resets it on the canvas. This is why
`CleanIsSaved` compares designs, which leave health out.

**AuthSessions.** `sessions[i].hash` is the number of the pair whose refresh
token is the live one, `issued[k]` the session of pair k, `stale` the access
tokens past their time. `requests` holds each refresh with the row it has read,
so two of them may hold the same row. `tabs[t].calls` is apiFetch: sent, waiting
for the shared refresh, sent again.

**Projects.** A request climbs, one statement at a time, from its run to the
architecture to the project (`Climb`), which decides: a read of a private project
of somebody else is answered 404 (`ReadAnswer`), a write to any project of
somebody else 403 (`WriteAnswer`). Then it writes (`Apply`), or lists the first
page (`List`). Deletions cascade as the schema says. `dashboard` is the slice of
one tab; the `...Elsewhere` actions are the same user, or another, in other tabs
and on other devices.

Four modules keep history no guard of the code's actions reads: `crossed`
(requests overlapped, or one failed), `was` (what the project of a request has
been since it was sent), `saved` (the graph last sent for an architecture),
`beyond` (projects the page of the dashboard had no room for), `stored` (the last
edit that is in a stored PATCH), `revived` (undo, redo or paste since the canvas
was reset) and `gone` (runs deleted from the page). Some promises hold only while certain
requests do not overlap; stated with `crossed`, the property says exactly when.

## 3. Runs

Bounds are the constants of each `.cfg`.

| run | instance | shows |
|---|---|---|
| `ExecControl` | one run, any two control calls (of all five kinds), a failing statement, crashes, shutdowns and restarts | one loop per run (`AtMostOneLoop`), a loop never steps an engine that refuses it (`LoopMeetsRunningEngine`), the table implements `RunLifecycle` (`FollowsLifecycle`), a cancelled run is released even when it waits for a resume (`CancelledRunIsReleased`), a shutdown ends (`ShutdownTerminates`) |
| `ExecEnds` | two runs, without pauses and failing statements | active rows have an owner (`NoOrphanRow`), what shutdown() waited for is settled (`ExitIsClean`), a running row does not stay active for ever (`StartedRunsEnd`) |
| `EngineConserves` | eight requests through a gateway, a failing service (breaker, retries, drop_oldest queue of one) and a database with overlapping failures, over lossy links | no request is lost, doubled or revived (`OneContinuation`), slots are those of the work under way (`ActiveMatchesWork`), every timer of a circuit or a recovery belongs to what it ends and none is missing (`TimersMatch`) |
| `EngineWakes` | round robin, least connections and random routing, failures, recovery, scaling up and queues | nobody who waits is forgotten (`NoStrandedQueue`), no handler throws though the list a round robin counts in shrinks and grows, which includes that time never turns back (`NoHandlerThrows`), and the run ends (`RunEnds`) |
| `Metrics` (run `metrics`) | gateway, cache with breaker and queue that starts degraded, scaling database with thresholds of its own, a generated load, failures | between any two events the counts of the report agree with each other and with the requests (`QueuesAddUp`, `AttemptsAddUp`, `RequestsAccounted`), time in health states adds up to the time that passed (`HealthAccounted`), merged histograms are those of the samples (`LatenciesAddUp`), caches hold what they may (`CacheIsSound`), a half-open circuit never waits for a request that is elsewhere or over (`ProbeIsLive`) |
| `Heap` (run `heap`) | three times, up to eight events, dequeues and clears in any order | the binary heap implements `Agenda` (`ImplementsAgenda`) |
| `ClientRuns` | two runs, three pages, one request in flight when the user or a timer adds more, one fault | what the editor's effects sent last is of the run in focus (`DispatchIsOfFocus`), buttons are not left disabled (`PendingHasAction`), a deleted run does not come back into the list (`DeletedRunIsNotListed`) |
| `ClientSettles` | one run that other clients and its loop move, two requests in flight, one fault | a run that is over is in the end shown as over, however late polls are (`SettledRunIsShown`), and its report arrives (`ReportArrives`) |
| `Editor` (run `editor`) | two settings, one refused, one the editor cannot hold, two names, history of two, up to three components; five budgets: four gestures, two gestures with two PATCHes, one with two PATCHes and a fault, one with two runs painted twice, or two with one run, one answer with metrics and a fault | undo and redo take back any edit (`HistoryIsFaithful`), a clean editor shows what it can hold of the row and what runs paint costs no edit (`CleanIsSaved`), a run simulates what was on the canvas (`SnapshotIsFresh`), the canvas shows the run in focus unless undo, redo or paste brought something back (`CanvasIsOfFocus`), an edit that waits for the timer gets to the server, unless the editor is left or loaded anew or a save fails (`DirtyIsSaved`) |
| `Sessions` (run `sessions`) | two tabs with two calls each, two users, one without an account; four budgets | a tab refreshes once for all its calls (`OneRefreshPerTab`), a refresh is refused for cause only (`RefusedForCause`), a revoked session stays revoked (`RevokedForGood`), every tab learns whether it is signed in (`GuardsResolve`) |
| `Tables` (run `tables`) | an owner and a stranger, three rows per table, a page of one project; three requests, or two with a change of user and a fault | an answer is right for some moment since the request, reads of a private project are told 404 and writes 403 (`AnswersFollowVisibility`), a rename brings no old graph back (`SavedGraphStays`), the dashboard lists the page it fetched, kept up to date (`ListIsCurrent`) |
| `ExecResumeStuck` | one run, one control call under way; expects a violation (`ResumeUnblocksLoop`) | see below |

**Why the bounds are enough.** The races of a run are between one loop and the
continuations of calls, each of which reads and writes that run only, and a
pair of calls is what a reordering needs; two events make a burst that flushes
and a burst that completes. Statements fail independently, so one failure
reaches each error path from each state. In the engine runs eight requests fill
two slots and a queue with one to drop, reopen a circuit and leave requests to
arrive in each of its states; two overlapping failures are what recovery cycles
are for. The load of `Metrics` makes a key hit, expire and be evicted. The heap
of eight events has four levels, so a sift passes through a node with one child,
with two and with none. A client needs a poll, a control call and a second run
to show one answer for another. A page of one, with room for three projects, is
one that overflows and one that does not; two runs painted in turn are what one
may show for the other. The budgets of `Editor`, `Sessions` and `Tables`
are small combinations, because the interesting behaviours need either many steps
of the user or few steps with faults and overlaps, not both at once. Two users
are enough where a check compares an owner with somebody else.

Symmetry is used in `ClientRuns` (runs) and `Tables` (names), which check
invariants only.

**Fairness.**
* `ExecutionManager`: every statement is answered, every due continuation runs
  (each as its own weakly fair action: the event loop is FIFO), a shutdown that
  has waited exits and a supervisor boots the process again. Clients owe nothing.
* `SimulationRuntime`: the drive loop keeps stepping; `ExecutionManager` is where
  it may stop.
* `SimulationsClient`: requests are handled by the server and answers by the
  page, kind by kind, and the polling interval fires. Poll is strongly fair
  because the bound on requests in flight comes and goes; a real interval does
  not wait for it.
* `EditorSession`: the timer fires, the server handles PATCHes, their answers
  are applied. `DirtyIsSaved` follows one edit from a running timer, with no save in
  flight, until a PATCH that contains it, or a later state that does, is stored; that
  the editor is clean is not enough, since the answer to an older PATCH or a reload
  makes it clean, too. Leaving, a reload, a failed save and the budget of PATCHes end
  the promise, as they do in the code.
* `AuthSessions`: a tab bootstraps, requests are handled, answers delivered.
* Users, clocks and the network owe nothing anywhere.

**Deadlock** is not checked in `EngineConserves`, `EngineWakes` and `Metrics` (a
run stops when its last event has been handled) nor in `Sessions` and `Tables`
(users stop when their budget is used up). It is checked in all others.

**Refinements.** `FollowsLifecycle` is `RunLifecycle`'s specification over the
table of `ExecutionManager`. `ImplementsAgenda` is `Agenda`'s over the set of
events in the heap (`pending <- ToSet(events)`). `SimulationsClient` takes its
server from `RunLifecycle`, so what holds of pages holds over everything that
implements it.

## 4. Where comments and code disagree

`ExecResumeStuck` is a run whose property states what the quoted text says and
which ends with the counterexample. Six more configurations are kept beside it, to
be run by hand (`tlc -config <name>.cfg <module>`, with the MC module of the
component); they end with a violation too.

| configuration | the text | what happens |
|---|---|---|
| `ExecResumeStuck` | resume() unblocks the loop | when `orchestrator.resume` throws (its pause has not been continued yet, or met no engine), `handle.resume` is never called: a running row with a loop that waits. Two reordered continuations have the same root and can also leave a paused engine behind a running row |
| `EditorUndo` | "Reset overlays whenever the active run changes (baseline until results)" (`EditorShell.tsx`) | the history holds components with the metrics painted over them: an edit under one run, a change of the run in focus, an undo, and the metrics of the first run are shown under the second, or under none, until something is painted again |
| `ExecPauseLosesCompletion` | execute() drives a run to a terminal state, then releases it | a pause that is persisted just before the last UPDATE turns it into a no-op: paused row, result lost, handle gone |
| `ExecShutdownMisses` | shutdown() marks every in-flight run as interrupted | a start whose UPDATE is in progress is not in `pending` yet |
| `EngineRoundRobin` | the position wraps around | it wraps modulo the length of the previous list of available edges; a shorter list makes `selectEdge` throw and the run fail |
| `EngineScaleDown` | autoscaling already defers a scale-down below the active requests | it defers on what it saw; requests of the same instant are started before `component.scaled` is handled, and the guard fails the run |
| `EngineStranded` | a non-empty queue is never stranded once the component is healthy | a drained request that fails its attempt takes no slot, so nothing drains the rest |

The modules of the frontend end with definitions that state what a comment says
and that TLC refutes when they are checked in the instance of the module's run:

| definition | the text | what happens |
|---|---|---|
| `EditorSession!AutosaveWhileDirty` | "Debounced autosave whenever the graph is dirty" (`EditorShell.tsx`) | a save that fails leaves the editor dirty and starts no timer; only the next change of the graph does |
| `AuthSessions!TokenAcceptedOnce` | "a previously issued (reused) token is rejected" (`auth.service.ts`) | two refreshes that read the session before either has rotated it both accept the token; the pair that is written first is dead |
| `AuthSessions!LogoutSignsOut` | logout "clears the local token" (`authSlice.ts`) | a logout that is refused leaves the tab signed in |
| `Projects!ListIsTheUsers` | the slice "holds the current user's projects" (`projectsSlice.ts`) | it is not cleared when somebody else signs in in the same tab |
| `SimulationsClient!RunningGatesFlow` | "`running` gates the edge flow animation" (`EditorShell.tsx`) | the effect returns early when a run without metrics stops running, so the edges of a run that was cancelled or removed before its first poll keep flowing |

What the conditions in the checked properties leave out is also worth knowing:

* `crossed` in `CleanIsSaved` and `SnapshotIsFresh`: an edit made while a PATCH is
  on its way is marked saved by its answer; an autosave and the flush of "Save &
  run" may be applied in the other order, and the run then takes the older graph;
  the layout loads the architectures once, so an editor that is left and opened
  again shows the graph of that time and its next save writes it back.
* `crossed` in `RefusedForCause`: when the answer to a refresh is lost, the
  rotated token is lost with it and the user is signed out by the next call.
* `crossed` in `ListIsCurrent`: the slice replaces its list with the answer of a
  fetch that may be older than a create or a delete already shown, after a failed
  fetch a create shows the new project alone, and what the user does in another tab
  or on another device is not seen until the next load of the application. `beyond`:
  one page of 100 projects is asked for, so older ones are never shown, also when
  deletions make room.
* `revived` in `CanvasIsOfFocus`: undo and redo restore components, and paste adds
  them, as they looked when they were remembered.
* A save writes the health on the canvas into the row, and what the editor dropped
  or filled when it read the row is gone or there with it, too, after a mere rename.
* `faults` in `ReportArrives`: `useSimulationRun` marks the results as fetched
  before the request, so one that fails is not repeated.
* `RunPage` and the list: `useSimulationList` cancels a load slower than its tick
  of a second and starts again; an answer to a poll that was on its way when a
  run was removed puts an empty record of it back into the store.

Three smaller ones have no run of their own: `component.types.ts:114` and `:125`
promise defaults (no queueing, round robin) that the runtime does not have (it
queues without a bound, and throws when there is a choice of edges), and
`cache-handling.ts:74` says a hit closes a circuit when it was the probe, while
`resetCircuit` closes it on any success. The models follow the code in all of
them.

## 5. Proofs

Every theorem is checked by TLAPS for all values of the constants that satisfy
the named assumption of its module (`ConstantsAssumption`, `RuntimeAssumption`,
...), which TLC evaluates on the instances too. The assumptions say what the
code validates before it runs (a source among the nodes, edges between nodes,
at least one replica, a history limit that is not 0), that budgets are numbers,
and that a model value that stands for nothing is not one of the things
(`"nobody"` is no user, `"gone"` no tab, and a call is none of the three other
senders `"bootstrap"`, `"form"`, `"menu"` of a tab).

Hypotheses of a theorem beyond its assumption are named, and each is needed: a
configuration of section 4 shows what happens without it.

| hypothesis | of | without it |
|---|---|---|
| `NoPauseNoErrors` | `RunsAreOwned`, `ExitsAreClean` | `ExecPauseLosesCompletion`: a pause leaves a row without a loop; so does a last UPDATE that fails |
| `AlwaysRoutable` | `NoHandlerEverThrows` | `EngineRoundRobin` |
| `NeverTooSmall` | `NoHandlerEverThrows` | `EngineScaleDown` |
| `CalmNode(n)` | `CalmQueuesAreWoken`, `NoQueueIsStranded` | `EngineStranded` |
| `ArrivalsInTime` | `RequestsAreAccounted` | an arrival at or after the duration would never be handled and stay in flight; the generator stops at the first slot that is rounded to the end, so that `GeneratedRequestsAreAccounted` needs no hypothesis |
| `WholeGraphs` | `SavedGraphAlwaysStays` | a PATCH with the nodes of a graph and not its edges is completed from the row read before, and two of them lose an update; the editor always sends both |

The instances of the runs satisfy them: `EngineConserves` the two of
`NoHandlerEverThrows`, `EngineWakes` that of `NoQueueIsStranded`.

### The execution manager

For any sets `Sims` and `Calls`, any set `Ops` of operations and any bounds:

| theorem | statement |
|---|---|
| `Invariance` | `Spec => []IInv`, the inductive strengthening |
| `TypeCorrect` | `Spec => []TypeOK` |
| `LoopsMeetRunningEngines` | `Spec => []LoopMeetsRunningEngine` |
| `OneLoopPerRun` | `Spec => []AtMostOneLoop` |
| `CompletionsAreEarned` | `Spec => CompletionIsEarned`, which no run checks: a row becomes completed only when its engine has run out of events |
| `ImplementsRunLifecycle` | `Spec => FollowsLifecycle` (the refinement of `RunLifecycle`) |
| `RunsAreOwned` | `NoPauseNoErrors => (Spec => []NoOrphanRow)` |
| `ExitsAreClean` | `NoPauseNoErrors => (Spec => []ExitIsClean)` |

The first six rest on one inductive invariant, `IInv`. The properties are not
inductive as they stand: that a loop meets a running engine depends on what the
engine may be *while it is paused or cancelled*, so `RunInv` says that an engine
has stopped only together with the flag of its handle (`r.engine = "paused" =>
r.paused`, and the same for cancelled), that the engine of a loop that may go on
is one of running, paused and cancelled, and that a loop at its last UPDATE has a
completed engine. That one call claims a run depends on the row: `ClaimInv` says
that a row that is absent or `created` has neither loop nor claim, that a claim
excludes a loop, and that two claims of a run are the same call; rows never
return to `created`, which is what `WrittenRows` gives for every statement.

The argument: operator lemmas (`FreshRuns`, `SteeringKeepsRunInv`,
`AbortGivesRunInv`, `TurnKeepsRunInv`) say what the records become; `KeepsIInv`
reduces a step that neither claims nor launches to types and `RunInv`; then one
lemma per group of actions with one step per action, the claim (`ApplyKeepsIInv`)
and the launch (`ContinueStartKeepsIInv`) on their own. `RowSteps` lists all a
step can do to the table and serves both the refinement and
`CompletionsAreEarned`.

Ownership needs a second invariant, `OInv`: a row that may still be driven has
been cancelled neither in the table nor in memory, its loop is not past its last
UPDATE, and a shutdown waits only for loops that were launched (`Owned`); and what
a call asks for is one of `Ops` (`AskedInv`). A pause breaks the first conjunct of
`Owned`, which is how the counterexample was found to be the only obstacle.

### The engine of a run

For every architecture, load, configuration and schedule of failures.
The first part of the module states what each handler does, once, as an effect on
three parts of the state (`TimerPart`, `WorkPart`, `PlacePart`) and on the set of
future events: it removes its own event and adds some of given types, none
earlier than now, each carrying what its handler will read (`Sound`, `Due`).
The second needs only these effects.

| theorem | statement |
|---|---|
| `RuntimeTypes` | `Spec => [](TypeOK /\ WithinSlots)` |
| `TimeMovesOn` | no future event lies before the clock |
| `TimersAlwaysMatch` | `Spec => []TimersMatch` |
| `ActiveAlwaysMatchesWork` | `Spec => []ActiveMatchesWork` |
| `OneContinuationAlways` | `Spec => []OneContinuation` |
| `ProbeIsAlwaysLive` | `Spec => []ProbeIsLive` |
| `ReplicasStayAllowed` | replicas of an autoscaled component stay within its bounds |
| `FailsForCause` | a step to `failed` is a routing without a choice or a scaling below the active requests |
| `NoHandlerEverThrows` | `AlwaysRoutable /\ NeverTooSmall => (Spec => []NoHandlerThrows)` |
| `CalmQueuesAreWoken` | who waits at a working calm component will be fetched, whatever the others are |
| `NoQueueIsStranded` | `(\A n \in Nodes : CalmNode(n)) => (Spec => []NoStrandedQueue)` |

The inductive invariants and why they are what they are:

* `Base`: types, what an event carries, and `WithinSlots`: the guard of
  `component.scaled` is what keeps the active requests within the slots.
* `TimersInv`: an open circuit has one timer of its generation and no circuit one
  of a later generation, a failed component one recovery of its cycle and none of
  a later cycle. Without "none of a later" a trip could find its timer there
  already.
* `WorkInv`: the active requests of a node are the completions due there, one by
  one; it is an equality of cardinalities, kept by adding and taking one event.
* `PlacesInv`: every request has one place, which is an event, a position in a
  queue, or its end; queues hold nobody twice.
* `QueuedMoves`: a request marked as waiting meets no handler but the one that
  starts it and the one that fails it; those are the statuses for which the others
  would throw. With `Base`, `WorkInv` and `PlacesInv` it is `RunInv`, from which
  every `throw` of the handlers but two is unreachable (`FailsForCause`).
* `ProbeInv`: the probe of a half-open circuit waits at that node or stands at its
  desk (`Present`). It needs `PlacesInv`, because a request with a second place would
  free the probe of another, and `CircuitsInv`, that a circuit that is not closed
  has reached its threshold.
* `QueuesInv`: the three above, and an event that wakes for every queue with
  somebody in it. A completion is there while slots are taken (`WorkInv`), and a
  start either takes a slot or leaves all of them taken; a processing error is the
  third possibility, hence `CalmNode`.

### What a run measures

| theorem of `SimulationMetricsProofs` | statement |
|---|---|
| `ObservedRunIsARun` | `MetricsSpec => Spec`: what is measured is a run of the engine |
| `ObservedProbeIsLive` | `MetricsSpec => []ProbeIsLive` |
| `CacheIsAlwaysSound` | `MetricsSpec => []CacheIsSound` |
| `HealthIsAlwaysAccounted` | `MetricsSpec => []HealthAccounted` |
| `AttemptsAlwaysAddUp` | `MetricsSpec => []AttemptsAddUp` |
| `QueuesAlwaysAddUp` | `MetricsSpec => []QueuesAddUp` |
| `RequestsAreAccounted` | `ArrivalsInTime => (MetricsSpec => []RequestsAccounted)` |
| `GeneratedRequestsAreAccounted` | `MetricsSpec => []RequestsAccounted`, when `Arrivals` is `Generated(rate, Duration)` |
| `LatenciesAlwaysAddUp` | `MetricsSpec => []LatenciesAddUp` |

By the first, every theorem about the engine holds of the measured run; the
others use `RunInv`, and `MetricsAssumption`, which says of an architecture what
the model says of its data: finitely many components, levels of health that are
numbers, a life and a capacity for each cache.

* *Sums.* `Total` is a sum over the domain of a function. That such a sum exists,
  changes by what one summand changes and is 0 for zeros is proved for finite
  sets by induction; the induction theorems of the library are out of reach (they
  take an operator), so `NumbersByStep` and `SubsetsByStep` derive the principle
  for a set of numbers, and for a set of subsets, from the least element of a
  well-founded order.
* `CachesOK`: the entries of a cache fit its capacity, have different keys, all of
  them keys the engine's abstract cache may find, and were used before their end.
  An entry the clock has outlived stays until it is looked up or pushed out; the
  invariant is about its last use.
* `HealthOK`: the times of the states add up to the time of the last transition, and
  the health recorded is `failed` exactly when the engine says so. The second is
  what is hard: a start or a completion judges the component anew, in the middle
  of its failure or recovery.
* `AttemptsOK`: at each component attempts are failures, completions and active
  requests, and the sum of the attempts of requests is losses plus attempts of
  components. A start counts at both or at neither: the three outcomes of
  `request.processing` are told apart first (`StartCases`).
* `CountsOK`: at each component the requests enqueued are those dequeued, dropped
  and waiting, and exactly those who wait somewhere have a time of joining. It
  rests on `PlacesInv`: a request in two queues, or twice in one, would be counted
  twice and have one time. The total over components then follows by adding up
  disjoint sets (`SizesAddUp`).
* `FailuresOK`: losses and failed attempts are the retries counted, the retries and
  reroutes on their way (`Coming`), and the requests that failed for a loss or an
  error or are about to (`AtFault`). One handler records the failure and a later
  event counts the retry, so the equality holds only with these two sets in it.
* `ReasonsOK`: a request has a reason exactly from when its failure is decided. The
  event that fails it is then its only place (`PlacesInv`), so no second handler
  can give it another reason.
* `ArrivalsOK`: an arrival not yet handled is an event the run will reach.
* `SamplesOK`: a histogram is sound (`HistogramOK`) when it counts the samples of its
  buckets and its total lies between count times minimum and count times maximum.
  Recording and merging keep it so (`RecordedSound`, `MergedSound`), hence a fold by
  them does (`FoldStays`), in whichever order the code merges; and the histograms of
  processing count and total the work done. The samples must be numbers, not
  negative, which is `TimesOK`: no request goes on, waits or is over before it arrived.
  It rests on `NothingLate` (no event lies before `now`) and on `PlacesInv` (the
  event of a request is its only place, so only it moves).
* *Percentiles.* A greater percentage has a greater rank (`RanksOf`), ranks fall
  into buckets that do not decrease, and into the same one no earlier
  (`RanksInOrder`); the powers of two that bound the buckets are of no matter.

### The event queue

| theorem of `EventQueueProofs` | statement |
|---|---|
| `HeapImplementsAgenda` | `Spec => ImplementsAgenda`: the heap implements `Agenda`, for any times and however many events |

`HeapOK` is the inductive invariant: no element is after its children, and numbers
are different and given out before. While an element moves, the array is in order
but for it (`OrderedAbove`, `OrderedBelow`): its children are already after its
parent, which is why a swap of two elements never needs a look at a third
generation. A turn of a loop keeps that (`UpStep`, `DownStep`), loses and doubles
no event (`SwapKeeps`), and either ends the loop or leads to a lower, or a higher,
position (`UpTurn`, `DownTurn`); so the loops end before their turns run out
(`BubbledUp`, `BubbledDown`). That the first element of an ordered array is the
earliest goes from parent to parent (`FirstIsEarliest`).

### Sessions, tables and pages

| module | theorem | statement |
|---|---|---|
| `AuthSessionsProofs` | `AuthTypes` | `Spec => []TypeOK` |
| | `RevocationIsForGood` | `Spec => RevokedForGood` |
| | `OneRefreshPerTabAlways` | `Spec => []OneRefreshPerTab` |
| | `RefusedForCauseAlways` | `Spec => []RefusedForCause` |
| `ProjectsProofs` | `TablesAlwaysOK` | `Spec => []IInv` |
| | `AnswersAlwaysFollowVisibility` | `Spec => []AnswersFollowVisibility` |
| | `SavedGraphAlwaysStays` | `WholeGraphs => (Spec => []SavedGraphStays)` |
| | `ListIsAlwaysCurrent` | `Spec => []ListIsCurrent` |
| `SimulationsClientProofs` | `ClientTypes` | `Spec => []Types` |
| | `PendingAlwaysHasAction` | `Spec => []PendingHasAction` |
| | `DeletedStaysOffTheList` | `Spec => []DeletedRunIsNotListed` |
| | `DispatchAlwaysOfFocus` | `Spec => []DispatchIsOfFocus` |
| | `RowsFollowTheLifecycle` | `Spec => Lifecycles!Spec`: the pages cause only steps of `RunLifecycle` |
| `EditorSessionProofs` | `HistoryAlwaysFaithful` | `Spec => []HistoryIsFaithful` |
| | `CleanAlwaysSaved` | `Spec => []CleanIsSaved` |
| | `SnapshotAlwaysFresh` | `Spec => []SnapshotIsFresh` |
| | `CanvasAlwaysOfFocus` | `Spec => []CanvasIsOfFocus` |

* *Sessions.* `Typed` adds to the types what a request carries at each of its
  stages. `TabsInv` says which requests a tab may have in flight in each of its
  states, and that each sender has one; from it follows that one refresh serves
  all calls. `RefusedForCause` needs, besides, who may know a token: the pair of a
  login that was not answered yet is in nobody's hands (`LoginsInv`), and, until
  refreshes overlap or an answer is lost, the token of the refresh in flight and
  the cookie are live, or spent for a cause (`RefreshInv`).
* *Projects.* A request remembers in `was` how its project has stood since it was
  sent, and the invariant says that this includes how it stands now
  (`StandingOK`): the check a request makes is right when it is made, and its
  answer is right for that moment. The ways from rows to projects and the owners
  never change (`Grows`), which is what makes "the project of a request" mean
  something while rows are deleted.
* *The list.* The table answers a query newest first; the slice puts a created
  project in front, replaces an updated one where `findIndex` finds it, and filters a
  deleted one out. That each gives what the query would now answer
  (`CreatedComesFirst`, `UpdatedStays`, `DeletedLeaves`) rests on counting a finite
  set down: a sequence that does so (`CountsDown`) is unique (`CountedDown`), and the
  query does it (`CountingDown`). `ListInv` says what holds while a request is on its
  way: until requests of the slice have overlapped or one has failed, there is at
  most one of them, it is a fetch exactly while the slice is loading, and once the
  table has answered it, the slice will make of its list what the table holds, less
  the projects beyond the page (`RowsFor`). Those stay beyond it: rows are only
  added after them (`ProjectsStay`), and what other users write, or the same user in
  another tab, either touches none of the user's rows or is the exception the
  property names (`OthersWrite`, `WrittenElsewhere`).
* *Pages.* `GoneInv` keeps, for each request in flight, that a load to be shown has
  not seen a deleted run; `RowsStep` takes from `RunLifecycle` that a deleted row
  stays so.
* *Editor.* `InStep`: as long as edits and saves have not overlapped there is at
  most one save in flight and it carries what the editor shows, compared as a design
  (`Look`): painting a run changes health and metrics only, and what a body becomes
  when it is read and written again is the same design (`LookOfBody`). `OnCanvas`:
  components show no run but the one in focus, unless something was brought back;
  a change of focus resets them all, and what is added or loaded shows none. That past and
  future together keep within the limit is an invariant of its own (`HistoryOK`),
  because redo never looks at the limit.

### Only model-checked

* Liveness (`StartedRunsEnd`, `CancelledRunIsReleased`, `ShutdownTerminates`,
  `RunEnds`, `SettledRunIsShown`, `ReportArrives`, `DirtyIsSaved`, `GuardsResolve`)
  and ENABLED are out of the prover's reach.

## 6. Not modelled

* The seeded generator: its draws are choices, which covers every seed.
* Topology and snapshot validation, HTTP plumbing (validation of requests, error
  mapping, logging, configuration), and the database schema beyond its columns,
  uniqueness, references and cascades.
* Ratios, averages and percentages of the report as floating-point numbers, their
  rounding, and the cap on entries a report lists; the accumulation of
  floating-point intervals in the traffic generator (slots are exact).
* `getMetrics` as a read of two sources, the engine and the persisted report,
  chosen by a row read an await earlier; paging of lists, whose items and total
  come from parallel statements.
* The settings of a connection (an edit like that of a component) and the panel
  of the assistant; rendering.
* `deleteExpiredSessions`, which nothing calls; hashing and signing.
* Cycles of components without latency, which never let simulated time advance:
  the code accepts them; `RunEnds` is checked on acyclic architectures.
* A statement of a start that ran but whose answer was lost leaves a running row
  without a loop until the next boot; `NoOrphanRow` is checked without failing
  statements for this reason.

## 7. Plan

Done: all modules above, and the theorems of section 5, which cover every safety
property the runs check. What would come next lies outside them: the parts of
section 6, and liveness, should a prover for it become available.
