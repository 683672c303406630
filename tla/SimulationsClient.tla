------------------------- MODULE SimulationsClient -------------------------
(***************************************************************************)
(* The browser's view of simulation runs: the simulations slice, the hook  *)
(* that polls one run, the list of a project's runs, and the pages whose   *)
(* buttons act on them.                                                    *)
(*                                                                         *)
(* Handlers of the browser are atomic: a store update is rendered and its  *)
(* effects are flushed before the next answer is handled.  Requests are    *)
(* not: any number may be in flight, the server handles each at some       *)
(* moment of its own, and their answers are applied in any order, long     *)
(* after what they say has ceased to be true.  The server is the abstract  *)
(* RunLifecycle, moved by its own loops and by other clients.              *)
(***************************************************************************)
EXTENDS Naturals, FiniteSets, Lifecycle

CONSTANTS
    Runs,           \* identifiers of the runs of one architecture
    NoRun,          \* no run: null or undefined in the code
    Foreign,        \* what other clients, loops and boots do to runs
    MaxNet,         \* bound: requests in flight when a tick or a click adds one
    MaxFaults,      \* bound: requests answered by an error of the network
    MaxSubmits      \* bound: clicks on "Save & run" in progress

ASSUME ClientAssumption ==
    /\ NoRun \notin Runs
    /\ Foreign \subseteq {"start", "pause", "resume", "cancel", "complete", "fail", "save"}
    /\ MaxNet \in Nat /\ MaxFaults \in Nat /\ MaxSubmits \in Nat

VARIABLES
    row,        \* row[r]: the persisted status, as in RunLifecycle
    savedAt,    \* the runs whose savedAt is set in the table
    runs,       \* runs[r]: what the slice holds about run r, or NoRun
    page,       \* the mounted page: "list", "run" or "editor"
    focus,      \* the run useSimulationRun is called with (activeId), or NoRun
    fetched,    \* resultsFetchedFor: the run whose results were asked for
    dispatched, \* what the effects of the editor last told its slice to show: the
                \* metrics of a run, flowing edges, or a reset.  The slice writes it
                \* over its components, where undo may change it: see EditorSession
    list,       \* the list page: rows shown, loading flag, error flag
    net,        \* requests in flight and answers not yet handled
    faults      \* errors of the network so far

server == <<row, savedAt>>
hook == <<focus, fetched, dispatched>>
vars == <<row, savedAt, runs, page, focus, fetched, dispatched, list, net, faults>>

Lifecycles == INSTANCE RunLifecycle WITH Sims <- Runs, row <- row

-----------------------------------------------------------------------------
(* Requests.  `at` is "sent" until the server has handled the request, then
   "ok" or "error"; `view` is the row it answered with.  `here` is whether the
   component that waits for the answer is still mounted.                     *)

Control == {"start", "pause", "resume", "cancel", "save", "remove"}

Kind == Control \cup
        {"status", "metrics", "results", "list", "delete", "attach", "put", "create"}

NoView == [status |-> "absent", saved |-> FALSE]

Request(kind, r) ==
    [kind |-> kind, run |-> r, at |-> "sent", view |-> NoView, rows |-> <<>>,
     here |-> TRUE]

\* What a route answers about run r; savedAt is not part of a status view.
View(r) == [status |-> row[r], saved |-> r \in savedAt]

\* The rows of a list, with their statuses; the project page asks for saved
\* runs, the editor for the runs of its architecture that are not.
Exists(r) == row[r] \notin {"absent", "deleted"}

Rows(saved) ==
    [r \in {s \in Runs : Exists(s) /\ (s \in savedAt) = saved} |-> row[r]]

-----------------------------------------------------------------------------
(* The slice.                                                              *)

\* Mutant: paused runs are not polled.
IsActiveRunning(status) == status \in {"created", "running"}

IsActive(status) == status \in {"created", "running", "paused"}

EmptyRun(status) ==
    [status |-> status, saved |-> FALSE, results |-> FALSE, live |-> FALSE,
     pending |-> FALSE]

Existing(r) == IF runs[r] = NoRun THEN EmptyRun("created") ELSE runs[r]

\* applyDetails: everything but the metrics comes from the answer.
FromDetails(r, view) ==
    [EmptyRun(view.status) EXCEPT
        !.saved = view.saved,
        !.results = Existing(r).results,
        !.live = Existing(r).live]

BeginRunAction(rs, r) ==
    IF rs[r] = NoRun THEN rs ELSE [rs EXCEPT ![r].pending = TRUE]

\* Mutant: an action that fails stays pending.
FailRunActionPending(rs, r) == rs

FailRunAction(rs, r) ==
    IF rs[r] = NoRun THEN rs ELSE [rs EXCEPT ![r].pending = FALSE]

\* The slice after the answer m of a request about a run.
Reduced(m) ==
    LET r == m.run
        ok == m.at = "ok"
    IN  CASE m.kind = "status" /\ ok ->
               [runs EXCEPT ![r] = [Existing(r) EXCEPT !.status = m.view.status]]
          [] m.kind = "results" /\ ok ->
               [runs EXCEPT ![r] = [Existing(r) EXCEPT
                   !.status = m.view.status, !.results = TRUE, !.live = FALSE]]
          [] m.kind = "metrics" /\ ok /\ runs[r] # NoRun ->
               [runs EXCEPT ![r].live = TRUE]
          [] m.kind = "remove" /\ ok -> [runs EXCEPT ![r] = NoRun]
          [] m.kind \in Control \ {"remove"} /\ ok ->
               [runs EXCEPT ![r] = FromDetails(r, m.view)]
          [] m.kind \in Control /\ ~ok -> FailRunAction(runs, r)
          [] OTHER -> runs

-----------------------------------------------------------------------------
(* The hook and the editor: what the effects do when the store or the run in
   focus changes from (f, rs) to (g, ss).                                    *)

StatusOf(f, rs) == IF f = NoRun \/ rs[f] = NoRun THEN "none" ELSE rs[f].status

MetricsSource(f, rs) ==
    IF f = NoRun \/ rs[f] = NoRun THEN <<>>
    ELSE IF rs[f].results THEN <<f, "results">>
    ELSE IF rs[f].live THEN <<f, "live">> ELSE <<>>

\* Mutant: only a change seen while the run was running counts.
ArrivesFromRunning(status, f, rs, g, ss) ==
    /\ StatusOf(g, ss) = status
    /\ StatusOf(f, rs) # status
    /\ status = "completed" => StatusOf(f, rs) = "running"

Arrives(status, f, rs, g, ss) ==
    /\ StatusOf(g, ss) = status
    /\ g # f \/ StatusOf(f, rs) # status

FetchesResults(f, rs, g, ss) ==
    Arrives("completed", f, rs, g, ss) /\ fetched # g

Only(condition, request) == IF condition THEN {request} ELSE {}

EffectRequests(f, rs, g, ss) ==
    Only(g \notin {f, NoRun}, Request("status", g))
    \cup Only(Arrives("running", f, rs, g, ss), Request("metrics", g))
    \cup Only(FetchesResults(f, rs, g, ss), Request("results", g))

NoDispatch == [source |-> <<>>, flow |-> FALSE]

\* Mutant: a change of the run in focus sends no reset.
DispatchedOver(f, rs, g, ss) ==
    LET running == StatusOf(g, ss) = "running"
        source == MetricsSource(g, ss)
    IN  IF source # <<>> \/ running THEN [source |-> source, flow |-> running] ELSE dispatched

\* A reset is dispatched when the active run changes, and what to show when the
\* metrics or the running flag change and there is something to show.
Dispatched(f, rs, g, ss) ==
    LET base == IF g # f THEN NoDispatch ELSE dispatched
        running == StatusOf(g, ss) = "running"
        source == MetricsSource(g, ss)
        changed == \/ source # MetricsSource(f, rs)
                   \/ running # (StatusOf(f, rs) = "running")
    IN  IF changed /\ (source # <<>> \/ running)
        THEN [source |-> source, flow |-> running]
        ELSE base

\* The browser comes to focus g and store ss with `more` requests to send.
Render(g, ss, more) ==
    /\ runs' = ss
    /\ focus' = g
    /\ fetched' = IF FetchesResults(focus, runs, g, ss) THEN g ELSE fetched
    /\ dispatched' = IF page = "editor" THEN Dispatched(focus, runs, g, ss) ELSE NoDispatch
    /\ net' = more \cup EffectRequests(focus, runs, g, ss)

-----------------------------------------------------------------------------
\* The list of a page just mounted.  `gone` remembers, for the properties, the
\* runs whose deletion this page has been told of.
NewList == [items |-> <<>>, loading |-> TRUE, error |-> FALSE, gone |-> {}]

Init ==
    /\ row = [r \in Runs |-> "absent"]
    /\ savedAt = {}
    /\ runs = [r \in Runs |-> NoRun]
    /\ page = "list"
    /\ focus = NoRun
    /\ fetched = NoRun
    /\ dispatched = NoDispatch
    /\ list = NewList
    /\ net = {Request("list", NoRun)}
    /\ faults = 0

Room == Cardinality(net) < MaxNet

-----------------------------------------------------------------------------
(* The server.                                                              *)

\* The loop of a run, another client or the recovery of a boot moves a row.
\* POST /simulations is answered by Serve.
Elsewhere ==
    /\ \/ /\ \E r \in Runs :
                \/ \E action \in Foreign \ {"save"} : Lifecycles!Move(r, action)
                \/ Lifecycles!Create(r) /\ \A m \in net : m.run # r
                \/ Lifecycles!Remove(r)
          /\ UNCHANGED savedAt
       \/ "fail" \in Foreign /\ Lifecycles!Interrupt /\ row' # row /\ UNCHANGED savedAt
       \/ /\ "save" \in Foreign
          /\ \E r \in Runs \ savedAt : Exists(r) /\ savedAt' = savedAt \cup {r}
          /\ UNCHANGED row
    /\ UNCHANGED <<runs, page, hook, list, net, faults>>

Answer(m, ok, view, rows) ==
    net' = (net \ {m}) \cup
           {[m EXCEPT !.at = IF ok THEN "ok" ELSE "error", !.view = view, !.rows = rows]}

\* Reads: the status of a run, its live metrics (which may not be there yet),
\* its persisted report, and lists.
ServeRead(m) ==
    /\ m.at = "sent"
    /\ \/ /\ m.kind = "status"
          /\ Answer(m, Exists(m.run), View(m.run), <<>>)
       \/ /\ m.kind = "metrics"
          /\ \E ok \in BOOLEAN :
                /\ ok => row[m.run] \in Active \cup Terminal
                /\ row[m.run] = "completed" => ok
                /\ Answer(m, ok, NoView, <<>>)
       \/ /\ m.kind = "results"
          /\ Answer(m, row[m.run] = "completed", View(m.run), <<>>)
       \/ m.kind = "list" /\ Answer(m, TRUE, NoView, Rows(TRUE))
       \/ m.kind = "attach" /\ Answer(m, TRUE, NoView, Rows(FALSE))
       \/ m.kind = "put" /\ Answer(m, TRUE, NoView, <<>>)
    /\ UNCHANGED <<server, runs, page, hook, list, faults>>

\* Control calls: one status-scoped statement, answered with the row it wrote.
ServeControl(m) ==
    /\ m.at = "sent"
    /\ \/ /\ m.kind \in {"start", "pause", "resume", "cancel"}
          /\ \/ Lifecycles!Move(m.run, m.kind)
             \/ ~Allows(m.kind, row[m.run]) /\ UNCHANGED row
          /\ Answer(m, row' # row,
                    [status |-> row'[m.run], saved |-> m.run \in savedAt], <<>>)
          /\ UNCHANGED savedAt
       \/ /\ m.kind \in {"remove", "delete"}
          /\ \/ Lifecycles!Remove(m.run)
             \/ row[m.run] \notin Status \ Active /\ UNCHANGED row
          /\ Answer(m, row' # row, NoView, <<>>)
          /\ UNCHANGED savedAt
       \/ /\ m.kind = "save"
          /\ savedAt' = savedAt \cup {r \in {m.run} : Exists(r)}
          /\ Answer(m, Exists(m.run), [status |-> row[m.run], saved |-> TRUE], <<>>)
          /\ UNCHANGED row
       \/ /\ m.kind = "create"
          /\ \/ /\ Lifecycles!Create(m.run)
                /\ Answer(m, TRUE, [status |-> "created", saved |-> FALSE], <<>>)
             \/ UNCHANGED row /\ Answer(m, FALSE, NoView, <<>>)
          /\ UNCHANGED savedAt
    /\ UNCHANGED <<runs, page, hook, list, faults>>

\* The connection breaks, before the request is handled or on the way back.
Fault(m) ==
    /\ faults < MaxFaults
    /\ m.at \in {"sent", "ok"}
    /\ faults' = faults + 1
    /\ Answer(m, FALSE, NoView, <<>>)
    /\ UNCHANGED <<server, runs, page, hook, list>>

-----------------------------------------------------------------------------
(* Navigation.  Leaving a page unmounts it: its list loads are cancelled, and
   continuations of its handlers find nobody to set the state of.            *)

Kept ==
    {[m EXCEPT !.here = FALSE] : m \in {n \in net : n.kind \notin {"list", "attach"}}}

ListPage ==
    /\ Room /\ page # "list"
    /\ page' = "list"
    /\ list' = NewList
    /\ focus' = NoRun /\ fetched' = NoRun /\ dispatched' = NoDispatch
    /\ net' = Kept \cup {Request("list", NoRun)}
    /\ UNCHANGED <<server, runs, faults>>

\* Mounting a page runs the effects of the hook for the first time.
Mount(p, f, more) ==
    /\ page' = p
    /\ focus' = f
    /\ fetched' = IF StatusOf(f, runs) = "completed" THEN f ELSE NoRun
    /\ dispatched' = NoDispatch
    /\ net' = Kept \cup more \cup EffectRequests(NoRun, runs, f, runs)
    /\ list' = NewList
    /\ UNCHANGED <<server, runs, faults>>

RunPage(r) ==
    /\ Room /\ page = "list" /\ r \in DOMAIN list.items
    /\ Mount("run", r, {})

EditorPage ==
    /\ Room /\ page # "editor"
    /\ Mount("editor", NoRun, {Request("attach", NoRun)})

-----------------------------------------------------------------------------
(* The hook's intervals and the buttons.                                    *)

Poll ==
    /\ Room
    /\ focus # NoRun /\ runs[focus] # NoRun /\ IsActive(runs[focus].status)
    /\ net' = net \cup {Request("status", focus)}
    /\ UNCHANGED <<server, runs, page, hook, list, faults>>

PollMetrics ==
    /\ Room
    /\ StatusOf(focus, runs) = "running"
    /\ net' = net \cup {Request("metrics", focus)}
    /\ UNCHANGED <<server, runs, page, hook, list, faults>>

\* The buttons of a run's page and of the editor, disabled while an action is
\* pending.  Only the editor saves and removes.
EditorOffers(s) ==
    {op \in {"save"} : s.status = "completed" /\ ~s.saved}
    \cup {op \in {"remove"} : s.saved}

Offered(r) ==
    {op \in {"start", "pause", "resume", "cancel"} : Allows(op, runs[r].status)}
    \cup IF page = "editor" THEN EditorOffers(runs[r]) ELSE {}

Click(op) ==
    /\ Room
    /\ focus # NoRun /\ runs[focus] # NoRun /\ ~runs[focus].pending
    /\ op \in Offered(focus)
    /\ Render(focus, BeginRunAction(runs, focus), net \cup {Request(op, focus)})
    /\ UNCHANGED <<server, page, list, faults>>

\* "Save & run" is disabled while a create call is pending, not while the
\* architecture is saved first; its dialog opens when no active run is shown.
Submit ==
    /\ Room /\ page = "editor"
    /\ ~IsActive(StatusOf(focus, runs))
    /\ \A m \in net : m.kind # "create"
    /\ Cardinality({m \in net : m.kind = "put"}) < MaxSubmits
    /\ \E r \in Runs :
          /\ row[r] = "absent" /\ \A m \in net : m.run # r
          /\ net' = net \cup {Request("put", r)}
    /\ UNCHANGED <<server, runs, page, hook, list, faults>>

-----------------------------------------------------------------------------
(* The list page.                                                           *)

\* Mutant: a load in flight is not cancelled.
ReloadBoth(n) == n \cup {Request("list", NoRun)}

Reload(n) == {m \in n : m.kind # "list"} \cup {Request("list", NoRun)}

\* A tick while a listed run is active; the load in flight is cancelled.
ListTick ==
    /\ page = "list"
    /\ \E r \in DOMAIN list.items : IsActive(list.items[r])
    /\ net' = Reload(net)
    /\ UNCHANGED <<server, runs, page, hook, list, faults>>

\* The dialog of a row that is not active; it calls the API past the slice.
Delete(r) ==
    /\ Room /\ page = "list"
    /\ r \in DOMAIN list.items /\ ~IsActive(list.items[r])
    /\ \A m \in net : m.kind = "delete" => ~m.here
    /\ net' = net \cup {Request("delete", r)}
    /\ UNCHANGED <<server, runs, page, hook, list, faults>>

\* The answer of the DELETE reloads the list; an error stays in the dialog.
Deleted(m) ==
    /\ m.kind = "delete"
    /\ IF m.at = "ok" /\ m.here
       THEN /\ list' = [list EXCEPT !.loading = TRUE, !.gone = @ \cup {m.run}]
            /\ net' = Reload(net \ {m})
       ELSE net' = net \ {m} /\ UNCHANGED list
    /\ UNCHANGED <<server, runs, page, hook, faults>>

Listed(m) ==
    /\ m.kind = "list"
    /\ list' = IF m.at = "ok"
               THEN [list EXCEPT !.items = m.rows, !.loading = FALSE, !.error = FALSE]
               ELSE [list EXCEPT !.loading = FALSE, !.error = TRUE]
    /\ net' = net \ {m}
    /\ UNCHANGED <<server, runs, page, hook, faults>>

-----------------------------------------------------------------------------
(* Answers about runs.                                                      *)

\* The slice reduces the answer; a removal also detaches the editor that asked
\* for it (onRemoved), whatever run it shows by then.
Reduce(m) ==
    /\ m.kind \in Control \cup {"status", "metrics", "results"}
    /\ LET detaches == m.kind = "remove" /\ m.at = "ok" /\ m.here
       IN  Render(IF detaches THEN NoRun ELSE focus, Reduced(m), net \ {m})
    /\ UNCHANGED <<server, page, list, faults>>

\* The editor attaches to an active run of its architecture, or else to a
\* completed one.
Attach(m) ==
    /\ m.kind = "attach"
    /\ LET With(statuses) == {r \in DOMAIN m.rows : m.rows[r] \in statuses}
           active == With({"created", "running", "paused"})
           found == IF active # {} THEN active ELSE With({"completed"})
       IN  IF found = {} THEN Render(focus, runs, net \ {m})
           ELSE \E r \in found : Render(r, runs, net \ {m})
    /\ UNCHANGED <<server, page, list, faults>>

\* The architecture is saved: create the run, even if the editor is gone.
Saved(m) ==
    /\ m.kind = "put"
    /\ net' = (net \ {m}) \cup
              Only(m.at = "ok", [Request("create", m.run) EXCEPT !.here = m.here])
    /\ UNCHANGED <<server, runs, page, hook, list, faults>>

\* The run exists: start it, and show it if the editor is still there.
Created(m) ==
    /\ m.kind = "create"
    /\ IF m.at = "ok"
       THEN Render(IF m.here THEN m.run ELSE focus,
                   BeginRunAction([runs EXCEPT ![m.run] = EmptyRun("created")], m.run),
                   (net \ {m}) \cup {Request("start", m.run)})
       ELSE Render(focus, runs, net \ {m})
    /\ UNCHANGED <<server, page, list, faults>>

Handle(m) ==
    /\ m.at # "sent"
    /\ Reduce(m) \/ Attach(m) \/ Saved(m) \/ Created(m) \/ Listed(m) \/ Deleted(m)

-----------------------------------------------------------------------------
Serve(m) == ServeRead(m) \/ ServeControl(m)

Next ==
    \/ Elsewhere
    \/ \E m \in net : Serve(m) \/ Fault(m) \/ Handle(m)
    \/ ListPage
    \/ \E r \in Runs : RunPage(r) \/ Delete(r)
    \/ EditorPage
    \/ Poll
    \/ PollMetrics
    \/ ListTick
    \/ \E op \in Control : Click(op)
    \/ Submit

Spec == Init /\ [][Next]_vars

\* Requests are answered and their answers handled; of the reads of a run's
\* status and results each.  The interval of the hook ticks: strongly fair only
\* because Room, a bound of the model, comes and goes.
Fairness ==
    /\ \A kinds \in {{"status"}, {"results"}, Kind \ {"status", "results"}} :
          /\ WF_vars(\E m \in net : m.kind \in kinds /\ Serve(m))
          /\ WF_vars(\E m \in net : m.kind \in kinds /\ Handle(m))
    /\ SF_vars(Poll)

FairSpec == Spec /\ Fairness

-----------------------------------------------------------------------------
\* The buttons of a run are never left disabled: while a run shows an action
\* as pending, one is in flight, whatever polls, reports, removals and answers
\* to the creation of the run arrive in between.
PendingHasAction ==
    \A r \in Runs :
        runs[r] # NoRun /\ runs[r].pending
        => \E m \in net : m.kind \in Control /\ m.run = r

\* A run deleted from the list does not come back once the list has loaded:
\* a load that was on its way when the run was deleted is never shown.
DeletedRunIsNotListed ==
    ~list.loading /\ ~list.error => DOMAIN list.items \cap list.gone = {}

\* The editor's effects never leave the metrics of one run behind for another:
\* whichever run the editor moves to and whatever arrives late, what they sent
\* last is a reset or of the run in focus.  EditorSession says what becomes of it
\* on a canvas that is edited meanwhile.
DispatchIsOfFocus == dispatched.source # <<>> => dispatched.source[1] = focus

\* A late answer may show an older status, but not for good: a run in focus
\* whose row has come to a terminal status is in the end shown with it.
SettledRunIsShown ==
    \A r \in Runs, status \in Terminal :
        <>[](focus = r /\ runs[r] # NoRun /\ row[r] = status)
        => <>[](StatusOf(r, runs) = status)

\* A completed run in focus gets its report, unless a request fails.
ReportArrives ==
    \A r \in Runs :
        focus = r /\ StatusOf(r, runs) = "completed"
        ~> \/ focus # r \/ runs[r] = NoRun \/ runs[r].results
           \/ row[r] # "completed" \/ faults > 0

-----------------------------------------------------------------------------
(* What comments of the code say, and the code does not do (README).        *)

\* "`running` gates the edge flow animation" (EditorShell): edges flow only
\* while the run the editor shows is running.
RunningGatesFlow == dispatched.flow => StatusOf(focus, runs) = "running"

=============================================================================
