------------------------------ MODULE Projects ------------------------------
(***************************************************************************)
(* Projects, their architectures and the runs of these: the tables, the    *)
(* API that reads, changes and deletes them in several statements per      *)
(* request, and the dashboard's list of projects (the projects slice).     *)
(*                                                                         *)
(* What a project shows is its visibility; what an architecture holds are  *)
(* its name and the versions of its nodes and of its edges.  Rows are      *)
(* numbered as they are created; deleted ones stay in the model, not live. *)
(***************************************************************************)
EXTENDS Naturals, Sequences, FiniteSets

CONSTANTS
    Users,          \* who uses the API
    Owner,          \* who owns the first project and uses the dashboard
    Names,          \* names of architectures
    PatchFields,    \* what a PATCH of an architecture may bring
    PageSize,       \* how many projects the dashboard asks for
    Limit,          \* bound: rows of a table, the deleted ones included
    Budgets         \* bounds: records of requests, changes of user and faults

ASSUME ProjectsAssumption ==
    /\ Owner \in Users
    /\ PatchFields \subseteq SUBSET {"name", "nodes", "edges"}
    /\ PageSize \in Nat \ {0}
    /\ Limit \in Nat \ {0}
    /\ Budgets \subseteq [requests : Nat, switches : Nat, faults : Nat]

VARIABLES
    projects,       \* projects table
    architectures,  \* architectures table; `saved` is history: the last graph sent
    runs,           \* simulations table
    requests,       \* requests in flight, and their answers
    dashboard,      \* who uses the tab, and the projects slice; `beyond` is
                    \* history: the projects the page it fetched had no room for
    crossed,        \* history: requests of the slice overlapped, one failed, the
                    \* user changed, or wrote projects elsewhere
    left            \* what is left of the budget

vars == <<projects, architectures, runs, requests, dashboard, crossed, left>>

Visibilities == {"PRIVATE", "PUBLIC", "UNLISTED"}

Spend(what) == left[what] > 0 /\ left' = [left EXCEPT ![what] = @ - 1]

-----------------------------------------------------------------------------
(* Requests: what each is about, and from there the way to the project.     *)

Reads == {"getProject", "getArchitecture", "getRun"}

OnProject == {"getProject", "createArchitecture", "update", "delete"}
OnArchitecture == {"getArchitecture", "patch", "deleteArchitecture", "createRun"}
OnRun == {"getRun"}

ProjectWrites == {"create", "update", "delete"}
SliceKinds == {"fetch", "create", "update", "delete"}

Level(kind) ==
    CASE kind \in OnRun          -> "run"
      [] kind \in OnArchitecture -> "architecture"
      [] kind \in OnProject      -> "project"
      [] OTHER                   -> "table"

ProjectOf(kind, id) ==
    CASE kind \in OnRun          -> architectures[runs[id].architecture].project
      [] kind \in OnArchitecture -> architectures[id].project
      [] OTHER                   -> id

\* History of a request: the visibilities its project has had since it was
\* sent, and "GONE" once the row it is about, or one above, is deleted.
Standing(kind, id, P, A, R) ==
    LET p == ProjectOf(kind, id)
    IN  {P[p].visibility} \cup
        IF /\ P[p].live
           /\ kind \in OnArchitecture => A[id].live
           /\ kind \in OnRun => R[id].live /\ A[R[id].architecture].live
        THEN {} ELSE {"GONE"}

Request(user, by, kind, id, data) ==
    [user |-> user, by |-> by, kind |-> kind, id |-> id, data |-> data,
     nr |-> left.requests, at |-> Level(kind), on |-> id, row |-> <<>>,
     was |-> IF Level(kind) = "table" THEN {}
             ELSE Standing(kind, id, projects, architectures, runs)]

Init ==
    /\ \E v \in Visibilities :
          projects = <<[owner |-> Owner, visibility |-> v, live |-> TRUE]>>
    /\ \E n \in Names :
          architectures = <<[project |-> 1, name |-> n, nodes |-> 0, edges |-> 0,
                             saved |-> 0, live |-> TRUE]>>
    /\ runs = <<[architecture |-> 1, live |-> TRUE]>>
    /\ requests = {}
    /\ dashboard = [user |-> Owner, status |-> "idle", items |-> <<>>, beyond |-> {}]
    /\ crossed = FALSE
    /\ left \in Budgets

-----------------------------------------------------------------------------
(* The API.  Every step is one statement on the database.                   *)

Becomes(r, q) == requests' = (requests \ {r}) \cup {q}

Reply(r, at) == Becomes(r, [r EXCEPT !.at = at])

\* Mutant: what is unlisted is taken for private.
MayReadListed(project, user) == project.owner = user \/ project.visibility = "PUBLIC"

\* assertCanRead.
MayRead(project, user) == project.owner = user \/ project.visibility # "PRIVATE"

\* What a read of the project says: a private one is as good as missing.
ReadAnswer(project, user) ==
    IF project.live /\ MayRead(project, user) THEN "ok" ELSE "notFound"

\* assertOwner: whoever would write is told that a project is somebody else's.
WriteAnswer(project, user) ==
    CASE ~project.live          -> "notFound"
      [] project.owner # user   -> "forbidden"
      [] OTHER                  -> "cleared"

\* The services climb from a run to its architecture and on to its project,
\* whose row decides.
Climb(r) ==
    /\ \/ /\ r.at = "run"
          /\ LET run == runs[r.on]
             IN  Becomes(r, IF run.live
                            THEN [r EXCEPT !.at = "architecture", !.on = run.architecture]
                            ELSE [r EXCEPT !.at = "notFound"])
       \/ /\ r.at = "architecture"
          /\ LET architecture == architectures[r.on]
             IN  Becomes(r, IF architecture.live
                            THEN [r EXCEPT !.at = "project", !.on = architecture.project,
                                           !.row = architecture]
                            ELSE [r EXCEPT !.at = "notFound"])
       \/ /\ r.at = "project"
          /\ LET project == projects[r.on]
             IN  Reply(r, IF r.kind \in Reads THEN ReadAnswer(project, r.user)
                          ELSE WriteAnswer(project, r.user))
    /\ UNCHANGED <<projects, architectures, runs, dashboard, crossed, left>>

\* Projects as the slice shows them, newest first.
View(id) == [id |-> id, visibility |-> projects[id].visibility]

IdsOf(user) == {i \in DOMAIN projects : projects[i].live /\ projects[i].owner = user}

\* The k-th of a set of numbers.
Nth(S, k) == CHOOSE i \in S : Cardinality({j \in S : j < i}) = k - 1

RowsOf(ids) ==
    LET count == Cardinality(ids)
    IN  [k \in 1 .. count |-> View(Nth(ids, count + 1 - k))]

\* The page the dashboard asks for is the first.
FirstPage(ids) == {i \in ids : Cardinality({j \in ids : i < j}) < PageSize}

List(r) ==
    /\ r.at = "table" /\ r.kind = "fetch"
    /\ LET page == FirstPage(IdsOf(r.user))
       IN  /\ Becomes(r, [r EXCEPT !.at = "ok", !.row = RowsOf(page)])
           /\ dashboard' = [dashboard EXCEPT !.beyond = IdsOf(r.user) \ page]
    /\ UNCHANGED <<projects, architectures, runs, crossed, left>>

\* Whether architecture a of project p may be called name.
NameIsFree(p, name, a) ==
    \A i \in DOMAIN architectures \ {a} :
        ~(architectures[i].live /\ architectures[i].project = p /\ architectures[i].name = name)

\* Mutant: the whole row that was read is written back, with what is new in it.
PatchedRow(r) ==
    LET bring(field) == field \in r.data.fields
    IN  [r.row EXCEPT !.name = IF bring("name") THEN r.data.name ELSE @,
                      !.nodes = IF bring("nodes") THEN r.nr ELSE @,
                      !.edges = IF bring("edges") THEN r.nr ELSE @,
                      !.saved = IF bring("nodes") THEN r.nr ELSE architectures[r.id].saved]

\* ArchitectureService.update: half a graph is completed from the row that was
\* read, and columns that nothing is brought for are not written.
Patched(r) ==
    LET bring(field) == field \in r.data.fields
        graph == bring("nodes") \/ bring("edges")
    IN  [architectures[r.id] EXCEPT
            !.name = IF bring("name") THEN r.data.name ELSE @,
            !.nodes = IF bring("nodes") THEN r.nr ELSE IF graph THEN r.row.nodes ELSE @,
            !.edges = IF bring("edges") THEN r.nr ELSE IF graph THEN r.row.edges ELSE @,
            !.saved = IF graph THEN r.nr ELSE @]

\* ON DELETE CASCADE, of a set of architectures.
Cascade(dead) ==
    /\ architectures' = [a \in DOMAIN architectures |->
                            [architectures[a] EXCEPT !.live = @ /\ a \notin dead]]
    /\ runs' = [n \in DOMAIN runs |->
                   [runs[n] EXCEPT !.live = @ /\ runs[n].architecture \notin dead]]

InsertProject(r) ==
    /\ Len(projects) < Limit
    /\ projects' = Append(projects, [owner |-> r.user, visibility |-> r.data, live |-> TRUE])
    /\ UNCHANGED <<architectures, runs>>

UpdateProject(r) ==
    /\ projects' = [projects EXCEPT ![r.id].visibility = r.data]
    /\ UNCHANGED <<architectures, runs>>

DeleteProject(r) ==
    /\ projects' = [projects EXCEPT ![r.id].live = FALSE]
    /\ Cascade({a \in DOMAIN architectures : architectures[a].project = r.id})

InsertArchitecture(r) ==
    /\ Len(architectures) < Limit
    /\ architectures' = Append(architectures,
          [project |-> r.id, name |-> r.data, nodes |-> 0, edges |-> 0, saved |-> 0, live |-> TRUE])
    /\ UNCHANGED <<projects, runs>>

UpdateArchitecture(r) ==
    /\ architectures' = [architectures EXCEPT ![r.id] = Patched(r)]
    /\ UNCHANGED <<projects, runs>>

DeleteArchitecture(r) == Cascade({r.id}) /\ UNCHANGED projects

InsertRun(r) ==
    /\ Len(runs) < Limit
    /\ runs' = Append(runs, [architecture |-> r.id, live |-> TRUE])
    /\ UNCHANGED <<projects, architectures>>

Write(r) ==
    CASE r.kind = "create"             -> InsertProject(r)
      [] r.kind = "update"             -> UpdateProject(r)
      [] r.kind = "delete"             -> DeleteProject(r)
      [] r.kind = "createArchitecture" -> InsertArchitecture(r)
      [] r.kind = "patch"              -> UpdateArchitecture(r)
      [] r.kind = "deleteArchitecture" -> DeleteArchitecture(r)
      [] r.kind = "createRun"          -> InsertRun(r)

\* How the statement that writes ends: what was read before may be gone, a row
\* to insert needs its parent (an error nobody translates), and names are unique
\* within a project (mapDbError).
Outcome(r) ==
    LET found == /\ r.kind \in OnProject => projects[r.id].live
                 /\ r.kind \in OnArchitecture => architectures[r.id].live
        taken == \/ r.kind = "createArchitecture" /\ ~NameIsFree(r.id, r.data, 0)
                 \/ /\ r.kind = "patch" /\ "name" \in r.data.fields
                    /\ ~NameIsFree(architectures[r.id].project, r.data.name, r.id)
    IN  CASE ~found /\ r.kind \in {"createArchitecture", "createRun"} -> "failed"
          [] ~found /\ r.kind \notin {"createArchitecture", "createRun"} -> "notFound"
          [] found /\ taken -> "conflict"
          [] found /\ ~taken -> "ok"

\* The user of the dashboard writes projects in another tab, or on another
\* device, after the list was asked for.
WrittenElsewhere(r) ==
    /\ r.by # "slice" /\ r.kind \in ProjectWrites
    /\ r.user = dashboard.user /\ dashboard.status # "idle"

Apply(r) ==
    /\ r.at = "cleared" \/ (r.at = "table" /\ r.kind = "create")
    /\ IF Outcome(r) = "ok"
       THEN /\ Write(r)
            /\ LET done == [r EXCEPT !.at = "ok", !.id = IF r.kind = "create" THEN Len(projects) + 1 ELSE @]
               IN  requests' = {IF Level(q.kind) = "table" THEN q
                                ELSE [q EXCEPT !.was = @ \cup
                                        Standing(q.kind, q.id, projects', architectures', runs')] :
                                    q \in (requests \ {r}) \cup {done}}
            /\ crossed' = (crossed \/ WrittenElsewhere(r))
       ELSE Reply(r, Outcome(r)) /\ UNCHANGED <<projects, architectures, runs, crossed>>
    /\ UNCHANGED <<dashboard, left>>

-----------------------------------------------------------------------------
(* The dashboard of one tab.                                                *)

OfSlice == {r \in requests : r.by = "slice"}

SendBySlice(kind, id, data) ==
    /\ requests' = requests \cup {Request(dashboard.user, "slice", kind, id, data)}
    /\ crossed' = (crossed \/ OfSlice # {})

\* The list is fetched when a page finds it idle.
FetchProjects ==
    /\ Spend("requests")
    /\ dashboard.status = "idle"
    /\ dashboard' = [dashboard EXCEPT !.status = "loading"]
    /\ SendBySlice("fetch", 0, 0)
    /\ UNCHANGED <<projects, architectures, runs>>

\* The pages that offer the dialog have fetched the list, or failed to.
CreateProject ==
    /\ Spend("requests")
    /\ dashboard.status # "idle"
    /\ \E v \in Visibilities : SendBySlice("create", 0, v)
    /\ UNCHANGED <<projects, architectures, runs, dashboard>>

\* The dialogs of a card that is shown.
Shown(id) == \E i \in DOMAIN dashboard.items : dashboard.items[i].id = id

EditProject ==
    /\ Spend("requests")
    /\ \E id \in DOMAIN projects, v \in Visibilities : Shown(id) /\ SendBySlice("update", id, v)
    /\ UNCHANGED <<projects, architectures, runs, dashboard>>

RemoveProject ==
    /\ Spend("requests")
    /\ \E id \in DOMAIN projects : Shown(id) /\ SendBySlice("delete", id, 0)
    /\ UNCHANGED <<projects, architectures, runs, dashboard>>

\* Another user signs in: the slice is not told.
SwitchUser ==
    /\ Spend("switches")
    /\ \E u \in Users \ {dashboard.user} : dashboard' = [dashboard EXCEPT !.user = u]
    /\ crossed' = TRUE
    /\ UNCHANGED <<projects, architectures, runs, requests>>

\* findIndex: the first item of an id, or none.
Index(items, id) ==
    LET found == {i \in DOMAIN items : items[i].id = id}
    IN  IF found = {} THEN 0 ELSE Nth(found, 1)

\* A list filtered by the ids of its items.
Without(items, id) ==
    LET kept == {i \in DOMAIN items : items[i].id # id}
    IN  [k \in 1 .. Cardinality(kept) |-> items[Nth(kept, k)]]

\* Mutant: a new project is put at the end.
ReducedLast(d, r) ==
    LET items == d.items
    IN  IF r.at # "ok"
        THEN IF r.kind = "fetch" THEN [d EXCEPT !.status = "failed"] ELSE d
        ELSE CASE r.kind = "fetch" ->
                [d EXCEPT !.status = "succeeded", !.items = r.row]
          [] r.kind = "create" ->
                [d EXCEPT !.status = "succeeded",
                          !.items = Append(items, [id |-> r.id, visibility |-> r.data])]
          [] r.kind = "update" ->
                [d EXCEPT !.status = "succeeded",
                          !.items = [i \in DOMAIN items |->
                                       IF i = Index(items, r.id)
                                       THEN [id |-> r.id, visibility |-> r.data] ELSE items[i]]]
          [] r.kind = "delete" ->
                [d EXCEPT !.status = "succeeded",
                          !.items = Without(items, r.id)]

\* projectsSlice.extraReducers.
Reduced(d, r) ==
    LET items == d.items
        new == [id |-> r.id, visibility |-> r.data]
    IN  IF r.at # "ok"
        THEN IF r.kind = "fetch" THEN [d EXCEPT !.status = "failed"] ELSE d
        ELSE CASE r.kind = "fetch" ->
                [d EXCEPT !.status = "succeeded", !.items = r.row]
          [] r.kind = "create" ->
                [d EXCEPT !.status = "succeeded", !.items = <<new>> \o items]
          [] r.kind = "update" ->
                [d EXCEPT !.status = "succeeded",
                          !.items = [i \in DOMAIN items |->
                                       IF i = Index(items, r.id) THEN new ELSE items[i]]]
          [] r.kind = "delete" ->
                [d EXCEPT !.status = "succeeded",
                          !.items = Without(items, r.id)]

Answered(r) == r.at \in {"ok", "notFound", "forbidden", "failed", "conflict", "lost"}

Deliver(r) ==
    /\ Answered(r)
    /\ requests' = requests \ {r}
    /\ IF r.by = "slice" THEN dashboard' = Reduced(dashboard, r) ELSE UNCHANGED dashboard
    /\ crossed' = (crossed \/ (r.by = "slice" /\ r.at # "ok"))
    /\ UNCHANGED <<projects, architectures, runs, left>>

\* The connection fails before the request is served, or after.
Lose(r) ==
    /\ Spend("faults")
    /\ r.at \in {Level(r.kind), "ok"}
    /\ Reply(r, "lost")
    /\ UNCHANGED <<projects, architectures, runs, dashboard, crossed>>

-----------------------------------------------------------------------------
(* Everything else that asks: the workspace, the editor, other users, and   *)
(* the dashboards of other tabs and devices.                                *)

Ask(user, kind, id, data) ==
    /\ Spend("requests")
    /\ requests' = requests \cup {Request(user, "page", kind, id, data)}
    /\ UNCHANGED <<projects, architectures, runs, dashboard, crossed>>

GetProject(user, id) == Ask(user, "getProject", id, 0)

GetArchitecture(user, id) == Ask(user, "getArchitecture", id, 0)

GetRun(user, id) == Ask(user, "getRun", id, 0)

NewProjectElsewhere(user) == \E v \in Visibilities : Ask(user, "create", 0, v)

EditProjectElsewhere(user, id) == \E v \in Visibilities : Ask(user, "update", id, v)

RemoveProjectElsewhere(user, id) == Ask(user, "delete", id, 0)

CreateArchitecture(user, id) == \E n \in Names : Ask(user, "createArchitecture", id, n)

\* The dialog renames; the editor saves the name and the graph.
PatchArchitecture(user, id) ==
    \E fields \in PatchFields, n \in Names :
        Ask(user, "patch", id, [fields |-> fields, name |-> n])

RemoveArchitecture(user, id) == Ask(user, "deleteArchitecture", id, 0)

CreateRun(user, id) == Ask(user, "createRun", id, 0)

-----------------------------------------------------------------------------
Next ==
    \/ \E u \in Users :
          \/ NewProjectElsewhere(u)
          \/ \E id \in DOMAIN projects :
                GetProject(u, id) \/ CreateArchitecture(u, id)
                    \/ EditProjectElsewhere(u, id) \/ RemoveProjectElsewhere(u, id)
          \/ \E id \in DOMAIN architectures :
                GetArchitecture(u, id) \/ PatchArchitecture(u, id)
                    \/ RemoveArchitecture(u, id) \/ CreateRun(u, id)
          \/ \E id \in DOMAIN runs : GetRun(u, id)
    \/ FetchProjects \/ CreateProject \/ EditProject \/ RemoveProject \/ SwitchUser
    \/ \E r \in requests : Climb(r) \/ List(r) \/ Apply(r) \/ Deliver(r) \/ Lose(r)

Spec == Init /\ [][Next]_vars

-----------------------------------------------------------------------------
\* Reads follow the visibility of the project and writes its owner, also when
\* both change under a request: an answer is right for some moment since it was
\* asked for.  A read tells a private project from a missing one to nobody but
\* its owner; a write tells anybody that a project is there, private or not.
AnswersFollowVisibility ==
    \A r \in {q \in requests : Level(q.kind) # "table"} :
        LET owns == projects[ProjectOf(r.kind, r.id)].owner = r.user
        IN  /\ r.at = "ok" => owns \/ (r.kind \in Reads /\ r.was \cap {"PUBLIC", "UNLISTED"} # {})
            /\ r.at = "notFound" => "GONE" \in r.was \/ (r.kind \in Reads /\ ~owns /\ "PRIVATE" \in r.was)
            /\ r.at = "forbidden" => r.kind \notin Reads /\ ~owns
            /\ r.at = "failed" => "GONE" \in r.was

\* A stored graph is the one saved last, whole: what renames an architecture
\* while its graph is saved brings no old graph back.
SavedGraphStays ==
    \A a \in DOMAIN architectures :
        LET row == architectures[a]
        IN  row.nodes = row.saved /\ row.edges = row.saved

\* The dashboard shows the projects of its user, newest first and each once:
\* those of the page it fetched and those made since, without those deleted, as
\* long as its requests neither overlap nor fail, nobody else signs in, and the
\* user writes no project elsewhere once the list is asked for.  What the page
\* had no room for is never shown, whatever room deletions make.
ListIsCurrent ==
    ~crossed /\ OfSlice = {} /\ dashboard.status = "succeeded"
        => dashboard.items = RowsOf(IdsOf(dashboard.user) \ dashboard.beyond)

-----------------------------------------------------------------------------
(* What comments of the code say, and the code does not do (README).        *)

\* "holds the current user's projects" (projects slice).
ListIsTheUsers ==
    \A i \in DOMAIN dashboard.items : projects[dashboard.items[i].id].owner = dashboard.user

=============================================================================
