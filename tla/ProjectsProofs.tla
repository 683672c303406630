--------------------------- MODULE ProjectsProofs ---------------------------
(***************************************************************************)
(* Proofs about projects, for any users, names, limits and budgets: what   *)
(* the tables and the requests hold, that answers follow the visibility    *)
(* of a project while it and its rows change under the requests, that a    *)
(* stored graph is the one saved last, and that the dashboard's list is    *)
(* the projects there are.                                                 *)
(***************************************************************************)
EXTENDS Projects, FiniteSetTheorems, TLAPS

-----------------------------------------------------------------------------
(* The inductive invariant.                                                 *)

\* The rows of the three tables.
ProjectRow == [owner : Users, visibility : Visibilities, live : BOOLEAN]

ArchitectureRow ==
    [project : Nat, name : Names, nodes : Nat, edges : Nat, saved : Nat, live : BOOLEAN]

RunRow == [architecture : Nat, live : BOOLEAN]

\* The rows of the tables, and the row above each.
TablesOK ==
    /\ projects \in Seq(ProjectRow)
    /\ architectures \in Seq(ArchitectureRow)
    /\ runs \in Seq(RunRow)
    /\ \A a \in DOMAIN architectures : architectures[a].project \in DOMAIN projects
    /\ \A n \in DOMAIN runs : runs[n].architecture \in DOMAIN architectures

\* The fields of a request, whatever they hold.
Shaped(r) ==
    r \in [user : {r.user}, by : {r.by}, kind : {r.kind}, id : {r.id}, data : {r.data},
           nr : {r.nr}, at : {r.at}, on : {r.on}, row : {r.row}, was : {r.was}]

\* Requests that name a row.
AsksAbout(r) == r.kind \in OnProject \cup OnArchitecture \cup OnRun

\* A request is about a row there is or was, and brings what its kind brings.
RequestOK(r) ==
    /\ Shaped(r)
    /\ r.user \in Users /\ r.nr \in Nat
    /\ r.by = "slice" => r.kind \in SliceKinds
    /\ r.kind \in OnProject \cup OnArchitecture \cup OnRun \cup {"fetch", "create"}
    /\ r.kind \in OnProject => r.id \in DOMAIN projects
    /\ r.kind \in OnArchitecture => r.id \in DOMAIN architectures
    /\ r.kind \in OnRun => r.id \in DOMAIN runs
    /\ r.kind \in {"create", "update"} => r.data \in Visibilities
    /\ r.kind = "createArchitecture" => r.data \in Names
    /\ r.kind = "patch" => r.data \in [fields : PatchFields, name : Names]

\* The requester owns the project the request is about.
Owns(r) == projects[ProjectOf(r.kind, r.id)].owner = r.user

\* How far a request has climbed, and what it found there.
ClimbOK(r) ==
    /\ r.at \in {"run", "architecture", "project", "cleared"} => AsksAbout(r)
    /\ r.at = "run" => r.kind \in OnRun /\ r.on = r.id
    /\ r.at = "architecture" =>
          \/ r.kind \in OnArchitecture /\ r.on = r.id
          \/ r.kind \in OnRun /\ r.on = runs[r.id].architecture
    /\ r.at = "project" => r.on = ProjectOf(r.kind, r.id)
    /\ r.at \in {"project", "cleared"} /\ r.kind = "patch" => r.row \in ArchitectureRow
    /\ r.at = "cleared" => r.kind \notin Reads /\ Owns(r)
    /\ r.at = "table" => r.kind \in {"fetch", "create"}

\* A request remembers how its project stands, besides how it stood.
StandingOK(r) ==
    AsksAbout(r) => Standing(r.kind, r.id, projects, architectures, runs) \subseteq r.was

\* What an answer says is right for some moment since the request was sent.
AnswerOK(r) ==
    AsksAbout(r) =>
        /\ r.at = "ok" => Owns(r) \/ (r.kind \in Reads /\ r.was \cap {"PUBLIC", "UNLISTED"} # {})
        /\ r.at = "notFound" =>
              "GONE" \in r.was \/ (r.kind \in Reads /\ ~Owns(r) /\ "PRIVATE" \in r.was)
        /\ r.at = "forbidden" => r.kind \notin Reads /\ ~Owns(r)
        /\ r.at = "failed" => "GONE" \in r.was

RequestInv(r) == RequestOK(r) /\ ClimbOK(r) /\ StandingOK(r) /\ AnswerOK(r)

\* The budgets are numbers.
BudgetOK == left \in [requests : Nat, switches : Nat, faults : Nat]

\* The dashboard is of a user, and its page had no room for projects there are.
DashboardOK ==
    dashboard \in [user : Users, status : {dashboard.status}, items : {dashboard.items},
                   beyond : SUBSET DOMAIN projects]

\* The inductive invariant.
IInv ==
    /\ TablesOK
    /\ BudgetOK
    /\ DashboardOK
    /\ \A r \in requests : RequestInv(r)

-----------------------------------------------------------------------------
(* What a step does to the tables.                                          *)

\* The way from a row to its project never changes, nor does the owner.
Grows ==
    /\ \A p \in DOMAIN projects :
          p \in DOMAIN projects' /\ projects'[p].owner = projects[p].owner
    /\ \A a \in DOMAIN architectures :
          a \in DOMAIN architectures' /\ architectures'[a].project = architectures[a].project
    /\ \A n \in DOMAIN runs :
          n \in DOMAIN runs' /\ runs'[n].architecture = runs[n].architecture

tables == <<projects, architectures, runs>>

\* What is appended to a table, or put in the place of a row, is all that changes.
LEMMA AppendedRow ==
    ASSUME NEW S, NEW q \in Seq(S), NEW x \in S
    PROVE  /\ Append(q, x) \in Seq(S) /\ DOMAIN Append(q, x) = DOMAIN q \cup {Len(q) + 1}
           /\ Append(q, x)[Len(q) + 1] = x
           /\ \A i \in DOMAIN q : Append(q, x)[i] = q[i]
  OBVIOUS

\* Rewriting a row of a table leaves the others alone.
LEMMA ReplacedRow ==
    ASSUME NEW S, NEW q \in Seq(S), NEW i \in DOMAIN q, NEW x \in S
    PROVE  /\ [q EXCEPT ![i] = x] \in Seq(S) /\ DOMAIN [q EXCEPT ![i] = x] = DOMAIN q
           /\ [q EXCEPT ![i] = x][i] = x
           /\ \A j \in DOMAIN q : j # i => [q EXCEPT ![i] = x][j] = q[j]
  OBVIOUS

\* The rows of a table are rewritten one by one.
LEMMA RewrittenRows ==
    ASSUME NEW S, NEW q \in Seq(S), NEW f, \A i \in DOMAIN q : f[i] \in S
    PROVE  [i \in DOMAIN q |-> f[i]] \in Seq(S)
  <1>1. Len(q) \in Nat /\ DOMAIN q = 1 .. Len(q)
    OBVIOUS
  <1>2. [i \in 1 .. Len(q) |-> f[i]] \in Seq(S)
    BY <1>1
  <1> QED BY <1>1, <1>2

\* A deletion marks rows, and only that.
LEMMA CascadeStep ==
    ASSUME TablesOK, NEW dead, Cascade(dead)
    PROVE  /\ architectures' \in Seq(ArchitectureRow) /\ DOMAIN architectures' = DOMAIN architectures
           /\ runs' \in Seq(RunRow) /\ DOMAIN runs' = DOMAIN runs
           /\ \A a \in DOMAIN architectures :
                 /\ architectures'[a].project = architectures[a].project
                 /\ architectures'[a].nodes = architectures[a].nodes
                 /\ architectures'[a].edges = architectures[a].edges
                 /\ architectures'[a].saved = architectures[a].saved
           /\ \A n \in DOMAIN runs : runs'[n].architecture = runs[n].architecture
  <1>1. \A x \in ArchitectureRow, b \in BOOLEAN :
           /\ [x EXCEPT !.live = b] \in ArchitectureRow
           /\ [x EXCEPT !.live = b].project = x.project
           /\ [x EXCEPT !.live = b].nodes = x.nodes
           /\ [x EXCEPT !.live = b].edges = x.edges
           /\ [x EXCEPT !.live = b].saved = x.saved
           /\ x.live \in BOOLEAN
    BY DEF ArchitectureRow
  <1>2. \A x \in RunRow, b \in BOOLEAN :
           /\ [x EXCEPT !.live = b] \in RunRow
           /\ [x EXCEPT !.live = b].architecture = x.architecture
           /\ x.live \in BOOLEAN
    BY DEF RunRow
  <1>3. /\ architectures \in Seq(ArchitectureRow) /\ runs \in Seq(RunRow)
        /\ \A a \in DOMAIN architectures : architectures[a] \in ArchitectureRow
        /\ \A n \in DOMAIN runs : runs[n] \in RunRow
    BY DEF TablesOK
  <1> DEFINE A(a) == [architectures[a] EXCEPT !.live = @ /\ a \notin dead]
             R(n) == [runs[n] EXCEPT !.live = @ /\ runs[n].architecture \notin dead]
  <1>4. architectures' = [a \in DOMAIN architectures |-> A(a)] /\ runs' = [n \in DOMAIN runs |-> R(n)]
    BY DEF Cascade
  <1>5. ASSUME NEW a \in DOMAIN architectures
        PROVE  /\ A(a) \in ArchitectureRow
               /\ A(a).project = architectures[a].project
               /\ A(a).nodes = architectures[a].nodes
               /\ A(a).edges = architectures[a].edges
               /\ A(a).saved = architectures[a].saved
    <2> DEFINE b == architectures[a].live /\ a \notin dead
    <2>1. b \in BOOLEAN /\ A(a) = [architectures[a] EXCEPT !.live = b]
      OBVIOUS
    <2> HIDE DEF b, A
    <2> QED BY <1>1, <1>3, <2>1
  <1>6. ASSUME NEW n \in DOMAIN runs
        PROVE  R(n) \in RunRow /\ R(n).architecture = runs[n].architecture
    <2> DEFINE b == runs[n].live /\ runs[n].architecture \notin dead
    <2>1. b \in BOOLEAN /\ R(n) = [runs[n] EXCEPT !.live = b]
      OBVIOUS
    <2> HIDE DEF b, R
    <2> QED BY <1>2, <1>3, <2>1
  <1> HIDE DEF A, R
  <1>7. /\ DOMAIN architectures' = DOMAIN architectures /\ DOMAIN runs' = DOMAIN runs
        /\ \A a \in DOMAIN architectures : architectures'[a] = A(a)
        /\ \A n \in DOMAIN runs : runs'[n] = R(n)
    BY <1>4
  <1>8. architectures' \in Seq(ArchitectureRow)
    <2>1. \A a \in DOMAIN architectures : architectures'[a] \in ArchitectureRow
      BY <1>5, <1>7
    <2>2. [a \in DOMAIN architectures |-> architectures'[a]] \in Seq(ArchitectureRow)
      BY <1>3, <2>1, RewrittenRows
    <2>3. architectures' = [a \in DOMAIN architectures |-> architectures'[a]]
      BY <1>4, <1>7
    <2> QED BY <2>2, <2>3
  <1>9. runs' \in Seq(RunRow)
    <2>1. \A n \in DOMAIN runs : runs'[n] \in RunRow
      BY <1>6, <1>7
    <2>2. [n \in DOMAIN runs |-> runs'[n]] \in Seq(RunRow)
      BY <1>3, <2>1, RewrittenRows
    <2>3. runs' = [n \in DOMAIN runs |-> runs'[n]]
      BY <1>4, <1>7
    <2> QED BY <2>2, <2>3
  <1> QED BY <1>5, <1>6, <1>7, <1>8, <1>9

\* A step that leaves the tables alone.
LEMMA TablesIdle ==
    ASSUME TablesOK, UNCHANGED tables
    PROVE  TablesOK' /\ Grows
  BY DEF TablesOK, Grows, tables

\* A patched row keeps its project; a graph is brought whole or not at all.
LEMMA PatchedRowOK ==
    ASSUME TablesOK, NEW r, r.id \in DOMAIN architectures, r.nr \in Nat,
           r.row \in ArchitectureRow, r.data \in [fields : PatchFields, name : Names]
    PROVE  /\ Patched(r) \in ArchitectureRow
           /\ Patched(r).project = architectures[r.id].project
           /\ ("nodes" \in r.data.fields <=> "edges" \in r.data.fields)
                /\ architectures[r.id].nodes = architectures[r.id].saved
                /\ architectures[r.id].edges = architectures[r.id].saved
                => Patched(r).nodes = Patched(r).saved /\ Patched(r).edges = Patched(r).saved
  <1> DEFINE old == architectures[r.id]
             name == IF "name" \in r.data.fields THEN r.data.name ELSE old.name
             graph == "nodes" \in r.data.fields \/ "edges" \in r.data.fields
             nodes == IF "nodes" \in r.data.fields THEN r.nr ELSE IF graph THEN r.row.nodes ELSE old.nodes
             edges == IF "edges" \in r.data.fields THEN r.nr ELSE IF graph THEN r.row.edges ELSE old.edges
             saved == IF graph THEN r.nr ELSE old.saved
             new == [old EXCEPT !.name = name, !.nodes = nodes, !.edges = edges, !.saved = saved]
  <1>1. old \in ArchitectureRow
    BY DEF TablesOK
  <1>2. Patched(r) = new
    BY DEF Patched
  <1>3. name \in Names /\ nodes \in Nat /\ edges \in Nat /\ saved \in Nat
    BY <1>1 DEF ArchitectureRow
  <1>4. ("nodes" \in r.data.fields <=> "edges" \in r.data.fields)
           /\ old.nodes = old.saved /\ old.edges = old.saved => nodes = saved /\ edges = saved
    OBVIOUS
  <1> HIDE DEF name, nodes, edges, saved, old
  <1>5. /\ new \in ArchitectureRow /\ new.project = old.project
        /\ new.nodes = nodes /\ new.edges = edges /\ new.saved = saved
    BY <1>1, <1>3 DEF ArchitectureRow
  <1> HIDE DEF new
  <1> QED BY <1>2, <1>4, <1>5 DEF old

\* Each statement that writes keeps the tables in order.
LEMMA WriteStep ==
    ASSUME ProjectsAssumption, TablesOK, NEW r, RequestOK(r), Write(r),
           r.kind \in {"create", "update", "delete", "createArchitecture", "patch",
                       "deleteArchitecture", "createRun"},
           r.kind = "patch" => r.row \in ArchitectureRow
    PROVE  TablesOK' /\ Grows
  <1>1. /\ projects \in Seq(ProjectRow)
        /\ architectures \in Seq(ArchitectureRow)
        /\ runs \in Seq(RunRow)
        /\ \A a \in DOMAIN architectures : architectures[a].project \in DOMAIN projects
        /\ \A n \in DOMAIN runs : runs[n].architecture \in DOMAIN architectures
        /\ \A p \in DOMAIN projects : p \in Nat /\ projects[p] \in ProjectRow
        /\ \A a \in DOMAIN architectures : a \in Nat /\ architectures[a] \in ArchitectureRow
        /\ \A n \in DOMAIN runs : runs[n] \in RunRow
        /\ Len(projects) + 1 \notin DOMAIN projects
        /\ Len(architectures) + 1 \notin DOMAIN architectures
        /\ Len(runs) + 1 \notin DOMAIN runs
    BY DEF TablesOK
  <1>2. CASE r.kind = "create"
    <2> DEFINE x == [owner |-> r.user, visibility |-> r.data, live |-> TRUE]
    <2>1. x \in ProjectRow
      BY <1>2 DEF RequestOK, ProjectRow
    <2>2. projects' = Append(projects, x) /\ architectures' = architectures /\ runs' = runs
      BY <1>2 DEF Write, InsertProject
    <2> HIDE DEF x
    <2>3. /\ projects' \in Seq(ProjectRow)
          /\ \A p \in DOMAIN projects : p \in DOMAIN projects' /\ projects'[p] = projects[p]
      BY <1>1, <2>1, <2>2, AppendedRow
    <2> QED BY <1>1, <2>2, <2>3 DEF TablesOK, Grows
  <1>3. CASE r.kind = "update"
    <2>1. r.id \in DOMAIN projects /\ r.data \in Visibilities
      BY <1>3 DEF RequestOK, OnProject
    <2> DEFINE x == [projects[r.id] EXCEPT !.visibility = r.data]
    <2>2. x \in ProjectRow /\ x.owner = projects[r.id].owner
      <3>1. projects[r.id] \in ProjectRow
        BY <1>1, <2>1
      <3> QED BY <2>1, <3>1 DEF ProjectRow
    <2>3. projects' = [projects EXCEPT ![r.id] = x] /\ architectures' = architectures /\ runs' = runs
      BY <1>3 DEF Write, UpdateProject
    <2> HIDE DEF x
    <2>4. /\ projects' \in Seq(ProjectRow) /\ DOMAIN projects' = DOMAIN projects
          /\ projects'[r.id] = x
          /\ \A p \in DOMAIN projects : p # r.id => projects'[p] = projects[p]
      BY <1>1, <2>1, <2>2, <2>3, ReplacedRow
    <2> QED BY <1>1, <2>2, <2>3, <2>4 DEF TablesOK, Grows
  <1>4. CASE r.kind = "delete"
    <2>1. r.id \in DOMAIN projects
      BY <1>4 DEF RequestOK, OnProject
    <2> DEFINE x == [projects[r.id] EXCEPT !.live = FALSE]
               dead == {a \in DOMAIN architectures : architectures[a].project = r.id}
    <2>2. x \in ProjectRow /\ x.owner = projects[r.id].owner
      <3>1. projects[r.id] \in ProjectRow
        BY <1>1, <2>1
      <3> QED BY <2>1, <3>1 DEF ProjectRow
    <2>3. projects' = [projects EXCEPT ![r.id] = x] /\ Cascade(dead)
      BY <1>4 DEF Write, DeleteProject
    <2> HIDE DEF x, dead
    <2>4. /\ projects' \in Seq(ProjectRow) /\ DOMAIN projects' = DOMAIN projects
          /\ projects'[r.id] = x
          /\ \A p \in DOMAIN projects : p # r.id => projects'[p] = projects[p]
      BY <1>1, <2>1, <2>2, <2>3, ReplacedRow
    <2> QED BY <1>1, <2>2, <2>3, <2>4, CascadeStep DEF TablesOK, Grows
  <1>5. CASE r.kind = "createArchitecture"
    <2>1. r.id \in DOMAIN projects /\ r.data \in Names
      BY <1>5 DEF RequestOK, OnProject
    <2> DEFINE x == [project |-> r.id, name |-> r.data, nodes |-> 0, edges |-> 0, saved |-> 0,
                     live |-> TRUE]
    <2>2. x \in ArchitectureRow /\ x.project = r.id
      BY <1>1, <2>1 DEF ArchitectureRow
    <2>3. architectures' = Append(architectures, x) /\ projects' = projects /\ runs' = runs
      BY <1>5 DEF Write, InsertArchitecture
    <2> HIDE DEF x
    <2>4. /\ architectures' \in Seq(ArchitectureRow)
          /\ DOMAIN architectures' = DOMAIN architectures \cup {Len(architectures) + 1}
          /\ architectures'[Len(architectures) + 1] = x
          /\ \A a \in DOMAIN architectures : architectures'[a] = architectures[a]
      BY <1>1, <2>2, <2>3, AppendedRow
    <2> QED BY <1>1, <2>1, <2>2, <2>3, <2>4 DEF TablesOK, Grows
  <1>6. CASE r.kind = "patch"
    <2>1. /\ r.id \in DOMAIN architectures /\ r.data \in [fields : PatchFields, name : Names]
          /\ r.nr \in Nat /\ r.row \in ArchitectureRow
      BY <1>6 DEF RequestOK, OnArchitecture
    <2>2. architectures' = [architectures EXCEPT ![r.id] = Patched(r)]
          /\ projects' = projects /\ runs' = runs
      BY <1>6 DEF Write, UpdateArchitecture
    <2>3. /\ Patched(r) \in ArchitectureRow
          /\ Patched(r).project = architectures[r.id].project
      BY <2>1, PatchedRowOK
    <2>4. /\ architectures' \in Seq(ArchitectureRow)
          /\ DOMAIN architectures' = DOMAIN architectures
          /\ architectures'[r.id] = Patched(r)
          /\ \A a \in DOMAIN architectures : a # r.id => architectures'[a] = architectures[a]
      BY <1>1, <2>1, <2>2, <2>3, ReplacedRow
    <2> QED BY <1>1, <2>1, <2>2, <2>3, <2>4 DEF TablesOK, Grows
  <1>7. CASE r.kind = "deleteArchitecture"
    <2>1. projects' = projects /\ Cascade({r.id})
      BY <1>7 DEF Write, DeleteArchitecture
    <2> QED BY <1>1, <2>1, CascadeStep DEF TablesOK, Grows
  <1>8. CASE r.kind = "createRun"
    <2>1. r.id \in DOMAIN architectures
      BY <1>8 DEF RequestOK, OnArchitecture
    <2> DEFINE x == [architecture |-> r.id, live |-> TRUE]
    <2>2. x \in RunRow /\ x.architecture = r.id
      BY <1>1, <2>1 DEF RunRow
    <2>3. runs' = Append(runs, x) /\ projects' = projects /\ architectures' = architectures
      BY <1>8 DEF Write, InsertRun
    <2> HIDE DEF x
    <2>4. /\ runs' \in Seq(RunRow) /\ DOMAIN runs' = DOMAIN runs \cup {Len(runs) + 1}
          /\ runs'[Len(runs) + 1] = x
          /\ \A n \in DOMAIN runs : runs'[n] = runs[n]
      BY <1>1, <2>2, <2>3, AppendedRow
    <2> QED BY <1>1, <2>1, <2>2, <2>3, <2>4 DEF TablesOK, Grows
  <1> QED BY <1>2, <1>3, <1>4, <1>5, <1>6, <1>7, <1>8

-----------------------------------------------------------------------------
(* What a step does to the requests.                                        *)

\* The level a request starts at.
LEMMA Levels ==
    ASSUME NEW kind
    PROVE  /\ Level(kind) \in {"run", "architecture", "project", "table"}
           /\ Level(kind) = "run" <=> kind \in OnRun
           /\ Level(kind) = "architecture" <=> kind \in OnArchitecture
           /\ Level(kind) = "project" <=> kind \in OnProject
           /\ Level(kind) = "table" <=> kind \notin OnProject \cup OnArchitecture \cup OnRun
  BY DEF Level, OnRun, OnArchitecture, OnProject

\* While the tables stay, so does what holds of a request.
LEMMA RequestIdle ==
    ASSUME NEW r, RequestInv(r), UNCHANGED tables
    PROVE  RequestInv(r)'
  BY DEF tables, RequestInv, RequestOK, Shaped, ClimbOK, StandingOK, AnswerOK, Owns, ProjectOf,
         Standing

\* While tables grow, a request is about the same project of the same owner.
LEMMA ProjectStays ==
    ASSUME TablesOK, Grows, NEW r, RequestOK(r), AsksAbout(r)
    PROVE  /\ ProjectOf(r.kind, r.id)' = ProjectOf(r.kind, r.id)
           /\ Owns(r)' <=> Owns(r)
           /\ r.kind \in OnRun => runs'[r.id].architecture = runs[r.id].architecture
           /\ ProjectOf(r.kind, r.id) \in DOMAIN projects
  <1>1. CASE r.kind \in OnProject
    BY <1>1 DEF Grows, RequestOK, ProjectOf, Owns, OnProject, OnArchitecture, OnRun
  <1>2. CASE r.kind \in OnArchitecture
    <2>1. r.id \in DOMAIN architectures /\ architectures[r.id].project \in DOMAIN projects
      BY <1>2 DEF RequestOK, TablesOK
    <2> QED BY <1>2, <2>1 DEF Grows, ProjectOf, Owns, OnProject, OnArchitecture, OnRun
  <1>3. CASE r.kind \in OnRun
    <2>1. /\ r.id \in DOMAIN runs /\ runs[r.id].architecture \in DOMAIN architectures
          /\ architectures[runs[r.id].architecture].project \in DOMAIN projects
      BY <1>3 DEF RequestOK, TablesOK
    <2> QED BY <1>3, <2>1 DEF Grows, ProjectOf, Owns, OnProject, OnArchitecture, OnRun
  <1> QED BY <1>1, <1>2, <1>3 DEF AsksAbout

\* A request that changes where it is, or what it saw, is otherwise the same.
Same(r, q) ==
    /\ Shaped(q)
    /\ q.user = r.user /\ q.by = r.by /\ q.kind = r.kind /\ q.id = r.id /\ q.data = r.data
    /\ q.nr = r.nr /\ q.was = r.was

\* Moving a request on changes nothing it carries.
LEMMA MovedAt ==
    ASSUME NEW r, Shaped(r), NEW at
    PROVE  LET q == [r EXCEPT !.at = at] IN Same(r, q) /\ q.at = at /\ q.on = r.on /\ q.row = r.row
  BY DEF Shaped, Same

\* A request that carries the same keeps its invariant, given what is new of
\* it.
LEMMA SameKeeps ==
    ASSUME NEW r, RequestInv(r), NEW q, Same(r, q), ClimbOK(q), AnswerOK(q)
    PROVE  RequestInv(q)
  BY DEF RequestInv, RequestOK, Same, StandingOK, AsksAbout

\* What a request remembers of how its project stands.
LEMMA StandingFacts ==
    ASSUME NEW r, RequestInv(r), AsksAbout(r)
    PROVE  /\ projects[ProjectOf(r.kind, r.id)].visibility \in r.was
           /\ ~projects[ProjectOf(r.kind, r.id)].live => "GONE" \in r.was
           /\ r.kind \in OnArchitecture /\ ~architectures[r.id].live => "GONE" \in r.was
           /\ r.kind \in OnRun /\ ~runs[r.id].live => "GONE" \in r.was
           /\ r.kind \in OnRun /\ ~architectures[runs[r.id].architecture].live => "GONE" \in r.was
  BY DEF RequestInv, StandingOK, Standing

\* A request that is refused because a row is gone, or that is lost or in conflict.
LEMMA EndsBadly ==
    ASSUME NEW r, RequestInv(r), NEW q, Same(r, q),
           \/ q.at \in {"conflict", "lost"}
           \/ q.at \in {"notFound", "failed"} /\ (AsksAbout(r) => "GONE" \in r.was)
    PROVE  RequestInv(q)
  <1>1. ClimbOK(q)
    BY DEF ClimbOK
  <1>2. AnswerOK(q)
    BY DEF AnswerOK, Same, AsksAbout
  <1> QED BY <1>1, <1>2, SameKeeps

\* A step up the way to the project: what is found there is remembered.
LEMMA ClimbStep ==
    ASSUME TablesOK, NEW r \in requests, RequestInv(r), Climb(r)
    PROVE  \E q : requests' = (requests \ {r}) \cup {q} /\ RequestInv(q)
  <1>0. Shaped(r) /\ RequestOK(r) /\ ClimbOK(r)
    BY DEF RequestInv, RequestOK
  <1>1. AsksAbout(r)
    BY <1>0 DEF Climb, ClimbOK
  <1>2. CASE r.at = "run"
    <2>0. r.kind \in OnRun /\ r.on = r.id /\ r.kind \notin OnArchitecture /\ r.kind \notin OnProject
      BY <1>0, <1>2 DEF ClimbOK, OnRun, OnArchitecture, OnProject
    <2>1. CASE runs[r.on].live
      <3> DEFINE q == [r EXCEPT !.at = "architecture", !.on = runs[r.on].architecture]
      <3>1. requests' = (requests \ {r}) \cup {q}
        BY <1>2, <2>1 DEF Climb, Becomes
      <3>2. /\ Same(r, q) /\ q.at = "architecture" /\ q.on = runs[r.on].architecture
            /\ q.kind = r.kind /\ q.id = r.id
        <4>1. PICK on : on = runs[r.on].architecture
          OBVIOUS
        <4>2. q = [r EXCEPT !.at = "architecture", !.on = on]
          BY <4>1
        <4> HIDE DEF q
        <4> QED BY <1>0, <4>1, <4>2 DEF Shaped, Same
      <3> HIDE DEF q
      <3>3. ClimbOK(q) /\ AnswerOK(q)
        BY <1>1, <2>0, <3>2 DEF ClimbOK, AnswerOK, AsksAbout
      <3> QED BY <3>1, <3>2, <3>3, SameKeeps
    <2>2. CASE ~runs[r.on].live
      <3> DEFINE q == [r EXCEPT !.at = "notFound"]
      <3>1. requests' = (requests \ {r}) \cup {q}
        BY <1>2, <2>2 DEF Climb, Becomes
      <3>2. Same(r, q) /\ q.at = "notFound"
        BY <1>0, MovedAt
      <3>3. "GONE" \in r.was
        BY <1>1, <2>0, <2>2, StandingFacts
      <3> HIDE DEF q
      <3> QED BY <3>1, <3>2, <3>3, EndsBadly
    <2> QED BY <2>1, <2>2
  <1>3. CASE r.at = "architecture"
    <2>0. \/ r.kind \in OnArchitecture /\ r.on = r.id
          \/ r.kind \in OnRun /\ r.on = runs[r.id].architecture
      BY <1>0, <1>3 DEF ClimbOK
    <2>1. CASE architectures[r.on].live
      <3> DEFINE q == [r EXCEPT !.at = "project", !.on = architectures[r.on].project,
                                !.row = architectures[r.on]]
      <3>1. requests' = (requests \ {r}) \cup {q}
        BY <1>3, <2>1 DEF Climb, Becomes
      <3>2. /\ Same(r, q) /\ q.at = "project" /\ q.on = architectures[r.on].project
            /\ q.row = architectures[r.on] /\ q.kind = r.kind /\ q.id = r.id
        <4>1. PICK on, row : on = architectures[r.on].project /\ row = architectures[r.on]
          OBVIOUS
        <4>2. q = [r EXCEPT !.at = "project", !.on = on, !.row = row]
          BY <4>1
        <4> HIDE DEF q
        <4> QED BY <1>0, <4>1, <4>2 DEF Shaped, Same
      <3> HIDE DEF q
      <3>3. r.on \in DOMAIN architectures
        BY <1>0, <2>0 DEF RequestOK, TablesOK
      <3>4. q.row \in ArchitectureRow
        BY <3>2, <3>3 DEF TablesOK
      <3>5. q.on = ProjectOf(q.kind, q.id)
        BY <2>0, <3>2 DEF ProjectOf, OnArchitecture, OnRun
      <3>6. ClimbOK(q) /\ AnswerOK(q)
        BY <1>1, <3>2, <3>4, <3>5 DEF ClimbOK, AnswerOK, AsksAbout
      <3> QED BY <3>1, <3>2, <3>6, SameKeeps
    <2>2. CASE ~architectures[r.on].live
      <3> DEFINE q == [r EXCEPT !.at = "notFound"]
      <3>1. requests' = (requests \ {r}) \cup {q}
        BY <1>3, <2>2 DEF Climb, Becomes
      <3>2. Same(r, q) /\ q.at = "notFound"
        BY <1>0, MovedAt
      <3>3. "GONE" \in r.was
        BY <1>1, <2>0, <2>2, StandingFacts
      <3> HIDE DEF q
      <3> QED BY <3>1, <3>2, <3>3, EndsBadly
    <2> QED BY <2>1, <2>2
  <1>4. CASE r.at = "project"
    <2> DEFINE p == projects[r.on]
               at == IF r.kind \in Reads THEN ReadAnswer(p, r.user) ELSE WriteAnswer(p, r.user)
               q == [r EXCEPT !.at = at]
    <2>1. requests' = (requests \ {r}) \cup {q}
      BY <1>4 DEF Climb, Reply, Becomes
    <2>2. Same(r, q) /\ q.at = at /\ q.row = r.row
      BY <1>0, MovedAt
    <2>3. /\ q.kind = r.kind /\ q.id = r.id /\ q.user = r.user /\ q.was = r.was
          /\ q.row = r.row /\ q.at = at
      BY <2>2 DEF Same
    <2>4. r.on = ProjectOf(r.kind, r.id)
      BY <1>0, <1>4 DEF ClimbOK
    <2>5. p.visibility \in r.was /\ (~p.live => "GONE" \in r.was) /\ (Owns(r) <=> p.owner = r.user)
      BY <1>1, <2>4, StandingFacts DEF Owns
    <2>6. p.visibility \in {"PRIVATE", "PUBLIC", "UNLISTED"}
      <3>1. ProjectOf(r.kind, r.id) \in DOMAIN projects
        <4>1. CASE r.kind \in OnProject
          BY <1>0, <4>1 DEF RequestOK, ProjectOf, OnProject, OnArchitecture, OnRun
        <4>2. CASE r.kind \in OnArchitecture
          BY <1>0, <4>2 DEF RequestOK, ProjectOf, OnProject, OnArchitecture, OnRun, TablesOK
        <4>3. CASE r.kind \in OnRun
          BY <1>0, <4>3 DEF RequestOK, ProjectOf, OnProject, OnArchitecture, OnRun, TablesOK
        <4> QED BY <1>1, <4>1, <4>2, <4>3 DEF AsksAbout
      <3>2. p \in ProjectRow
        BY <2>4, <3>1 DEF TablesOK
      <3> QED BY <3>2 DEF ProjectRow, Visibilities
    <2>7. (Owns(q) <=> Owns(r)) /\ (AsksAbout(q) <=> AsksAbout(r))
      BY <2>3 DEF Owns, AsksAbout
    <2> HIDE DEF q
    <2>8. /\ at \in {"ok", "notFound", "forbidden", "cleared"}
          /\ at = "cleared" => r.kind \notin Reads /\ Owns(r)
      BY <2>5 DEF ReadAnswer, WriteAnswer
    <2>9. /\ at = "ok" => Owns(r) \/ (r.kind \in Reads /\ r.was \cap {"PUBLIC", "UNLISTED"} # {})
          /\ at = "notFound" =>
                "GONE" \in r.was \/ (r.kind \in Reads /\ ~Owns(r) /\ "PRIVATE" \in r.was)
          /\ at = "forbidden" => r.kind \notin Reads /\ ~Owns(r)
      BY <2>5, <2>6 DEF MayRead, ReadAnswer, WriteAnswer
    <2> HIDE DEF at
    <2>10. ClimbOK(q)
      <3>1. r.kind = "patch" => r.row \in ArchitectureRow
        BY <1>0, <1>4 DEF ClimbOK
      <3> QED BY <1>1, <2>3, <2>7, <2>8, <3>1 DEF ClimbOK
    <2>11. AnswerOK(q)
      BY <2>3, <2>7, <2>8, <2>9 DEF AnswerOK
    <2> QED BY <2>1, <2>2, <2>10, <2>11, SameKeeps
  <1> QED BY <1>2, <1>3, <1>4 DEF Climb

\* A request that is sent knows how its project stands.
LEMMA AskedInv ==
    ASSUME BudgetOK, NEW user \in Users, NEW by, NEW kind, NEW id, NEW data,
           \/ kind \in OnProject /\ id \in DOMAIN projects
           \/ kind \in OnArchitecture /\ id \in DOMAIN architectures
           \/ kind \in OnRun /\ id \in DOMAIN runs
           \/ kind \in {"fetch", "create"},
           by = "slice" => kind \in SliceKinds,
           kind \in {"create", "update"} => data \in Visibilities,
           kind = "createArchitecture" => data \in Names,
           kind = "patch" => data \in [fields : PatchFields, name : Names]
    PROVE  RequestInv(Request(user, by, kind, id, data))
  <1>1. PICK q : q = Request(user, by, kind, id, data)
    OBVIOUS
  <1>2. /\ q.user = user /\ q.by = by /\ q.kind = kind /\ q.id = id /\ q.data = data /\ q.on = id
        /\ q.nr = left.requests /\ q.at = Level(kind)
        /\ Level(kind) # "table" => q.was = Standing(kind, id, projects, architectures, runs)
        /\ Shaped(q)
    BY <1>1 DEF Request, Shaped
  <1>3. left.requests \in Nat
    BY DEF BudgetOK
  <1>4. /\ kind \in OnProject => kind \notin OnArchitecture /\ kind \notin OnRun
        /\ kind \in OnArchitecture => kind \notin OnProject /\ kind \notin OnRun
        /\ kind \in OnRun => kind \notin OnProject /\ kind \notin OnArchitecture
        /\ kind \in {"fetch", "create"} =>
              kind \notin OnProject /\ kind \notin OnArchitecture /\ kind \notin OnRun
    BY DEF OnProject, OnArchitecture, OnRun
  <1>5. RequestOK(q)
    BY <1>2, <1>3, <1>4 DEF RequestOK
  <1>6. /\ Level(kind) \in {"run", "architecture", "project", "table"}
        /\ Level(kind) = "run" <=> kind \in OnRun
        /\ Level(kind) = "architecture" <=> kind \in OnArchitecture
        /\ Level(kind) = "project" <=> kind \in OnProject
    BY Levels
  <1>7. kind \in OnProject => ProjectOf(kind, id) = id
    BY <1>4 DEF ProjectOf
  <1>8. kind = "patch" => kind \in OnArchitecture
    BY DEF OnArchitecture
  <1>9. ClimbOK(q)
    BY <1>2, <1>4, <1>6, <1>7, <1>8 DEF ClimbOK, AsksAbout
  <1>10. StandingOK(q)
    BY <1>2, <1>6 DEF StandingOK, AsksAbout
  <1>11. AnswerOK(q)
    BY <1>2, <1>6 DEF AnswerOK
  <1> QED BY <1>1, <1>5, <1>9, <1>10, <1>11 DEF RequestInv

\* A statement has changed the tables: every request takes note of how its
\* project stands now.
Noted(q) ==
    IF Level(q.kind) = "table" THEN q
    ELSE [q EXCEPT !.was = @ \cup Standing(q.kind, q.id, projects', architectures', runs')]

\* A request that has read its row notes what it read.
LEMMA NotedInv ==
    ASSUME TablesOK, Grows, NEW r, RequestInv(r), NEW q, q = Noted(r)
    PROVE  RequestInv(q)'
  <1>0. RequestOK(r) /\ ClimbOK(r) /\ StandingOK(r) /\ AnswerOK(r) /\ Shaped(r)
    BY DEF RequestInv, RequestOK
  <1>1. Level(r.kind) = "table" <=> ~AsksAbout(r)
    BY Levels DEF AsksAbout
  <1>2. RequestOK(q)' /\ ClimbOK(q)' /\ StandingOK(q)' /\ AnswerOK(q)'
    <2>1. CASE ~AsksAbout(r)
      <3>1. q = r /\ ~AsksAbout(q)
        BY <1>1, <2>1 DEF Noted
      <3>2. RequestOK(r)'
        BY <1>0, <2>1 DEF RequestOK, AsksAbout, Shaped
      <3>3. ClimbOK(r)'
        BY <1>0, <2>1 DEF ClimbOK, AsksAbout
      <3>4. StandingOK(q)' /\ AnswerOK(q)'
        BY <3>1 DEF StandingOK, AnswerOK, AsksAbout
      <3> QED BY <3>1, <3>2, <3>3, <3>4
    <2>2. CASE AsksAbout(r)
      <3>1. PICK more : more = Standing(r.kind, r.id, projects', architectures', runs')
        OBVIOUS
      <3>2. q = [r EXCEPT !.was = @ \cup more]
        BY <1>1, <2>2, <3>1 DEF Noted
      <3>3. /\ Shaped(q) /\ q.user = r.user /\ q.by = r.by /\ q.kind = r.kind /\ q.id = r.id /\ q.data = r.data
            /\ q.nr = r.nr /\ q.at = r.at /\ q.on = r.on /\ q.row = r.row
            /\ q.was = r.was \cup more
        BY <1>0, <3>2 DEF Shaped
      <3>4. /\ ProjectOf(r.kind, r.id)' = ProjectOf(r.kind, r.id)
            /\ Owns(r)' <=> Owns(r)
            /\ r.kind \in OnRun => runs'[r.id].architecture = runs[r.id].architecture
        BY <1>0, <2>2, ProjectStays
      <3>5. (AsksAbout(q) <=> AsksAbout(r)) /\ (Owns(q)' <=> Owns(r)')
        BY <3>3 DEF AsksAbout, Owns
      <3>6. RequestOK(q)'
        BY <1>0, <3>3 DEF RequestOK, Grows, Shaped
      <3>7. ClimbOK(q)'
        <4>1. ProjectOf(q.kind, q.id)' = ProjectOf(r.kind, r.id)
          BY <3>3, <3>4
        <4>2. /\ q.at \in {"run", "architecture", "project", "cleared"} => AsksAbout(q)
              /\ q.at = "run" => q.kind \in OnRun /\ q.on = q.id
              /\ q.at = "architecture" =>
                    \/ q.kind \in OnArchitecture /\ q.on = q.id
                    \/ q.kind \in OnRun /\ q.on = runs'[q.id].architecture
              /\ q.at = "project" => q.on = ProjectOf(r.kind, r.id)
              /\ q.at \in {"project", "cleared"} /\ q.kind = "patch" => q.row \in ArchitectureRow
              /\ q.at = "cleared" => q.kind \notin Reads /\ Owns(r)
              /\ q.at = "table" => q.kind \in {"fetch", "create"}
          BY <1>0, <2>2, <3>3, <3>4, <3>5 DEF ClimbOK
        <4> QED BY <3>4, <3>5, <4>1, <4>2 DEF ClimbOK, AsksAbout
      <3>8. StandingOK(q)'
        <4>1. Standing(q.kind, q.id, projects, architectures, runs)' = more
          BY <3>1, <3>3, <3>4 DEF Standing
        <4> QED BY <3>3, <4>1 DEF StandingOK
      <3>9. AnswerOK(q)'
        BY <1>0, <2>2, <3>3, <3>4, <3>5 DEF AnswerOK
      <3> QED BY <3>6, <3>7, <3>8, <3>9
    <2> QED BY <2>1, <2>2
  <1> QED BY <1>2 DEF RequestInv

\* The statement that writes: it fails and says why, or all take note.
LEMMA ApplyStep ==
    ASSUME ProjectsAssumption, TablesOK, NEW r \in requests, Apply(r),
           \A q \in requests : RequestInv(q)
    PROVE  /\ TablesOK' /\ (UNCHANGED tables \/ (Grows /\ Write(r)))
           /\ \A q \in requests' : RequestInv(q)'
  <1>0. Shaped(r) /\ RequestOK(r) /\ ClimbOK(r) /\ RequestInv(r)
    BY DEF RequestInv, RequestOK
  <1>1. /\ r.at = "cleared" => AsksAbout(r) /\ r.kind \notin Reads /\ Owns(r)
        /\ r.at # "cleared" => r.kind = "create" /\ ~AsksAbout(r)
    BY <1>0 DEF Apply, ClimbOK, AsksAbout, OnProject, OnArchitecture, OnRun
  <1>2. r.kind \in {"create", "update", "delete", "createArchitecture", "patch",
                    "deleteArchitecture", "createRun"}
    BY <1>1 DEF AsksAbout, Reads, OnProject, OnArchitecture, OnRun
  <1>3. CASE Outcome(r) # "ok"
    <2> DEFINE q == [r EXCEPT !.at = Outcome(r)]
    <2>1. requests' = (requests \ {r}) \cup {q} /\ UNCHANGED tables
      BY <1>3 DEF Apply, Reply, Becomes, tables
    <2>2. Same(r, q) /\ q.at = Outcome(r)
      BY <1>0, MovedAt
    <2>3. Outcome(r) \in {"notFound", "failed", "conflict"}
      BY <1>3 DEF Outcome
    <2>4. Outcome(r) \in {"notFound", "failed"} /\ AsksAbout(r) => "GONE" \in r.was
      <3> SUFFICES ASSUME Outcome(r) \in {"notFound", "failed"}, AsksAbout(r) PROVE "GONE" \in r.was
        OBVIOUS
      <3>1. CASE r.kind \in OnProject
        <4>0. r.kind \notin OnArchitecture
          BY <3>1 DEF OnProject, OnArchitecture
        <4>1. ~projects[r.id].live
          BY <3>1, <4>0 DEF Outcome
        <4>2. ProjectOf(r.kind, r.id) = r.id
          BY <3>1 DEF ProjectOf, OnProject, OnArchitecture, OnRun
        <4> QED BY <1>0, <4>1, <4>2, StandingFacts
      <3>2. CASE r.kind \in OnArchitecture
        <4>1. r.kind \notin OnProject
          BY <3>2 DEF OnProject, OnArchitecture
        <4>2. ~architectures[r.id].live
          BY <3>2, <4>1 DEF Outcome
        <4> QED BY <1>0, <3>2, <4>2, StandingFacts
      <3>3. CASE r.kind \in OnRun
        BY <1>2, <3>3 DEF OnRun
      <3> QED BY <3>1, <3>2, <3>3 DEF AsksAbout
    <2> HIDE DEF q
    <2>5. RequestInv(q)
      BY <1>0, <2>2, <2>3, <2>4, EndsBadly
    <2>6. \A p \in requests' : RequestInv(p)
      BY <2>1, <2>5
    <2> QED BY <2>1, <2>6, RequestIdle, TablesIdle
  <1>4. CASE Outcome(r) = "ok"
    <2> DEFINE id == IF r.kind = "create" THEN Len(projects) + 1 ELSE r.id
               done == [r EXCEPT !.at = "ok", !.id = IF r.kind = "create" THEN Len(projects) + 1 ELSE @]
    <2>1. Write(r) /\ requests' = {Noted(q) : q \in (requests \ {r}) \cup {done}}
      BY <1>4 DEF Apply, Noted
    <2>2. TablesOK' /\ Grows
      <3>1. r.kind = "patch" => r.row \in ArchitectureRow
        BY <1>0, <1>1 DEF ClimbOK, Apply
      <3> QED BY <1>0, <1>2, <2>1, <3>1, WriteStep
    <2>3. /\ Shaped(done) /\ done.user = r.user /\ done.by = r.by /\ done.kind = r.kind /\ done.data = r.data
          /\ done.nr = r.nr /\ done.at = "ok" /\ done.was = r.was
          /\ AsksAbout(r) => done.id = r.id
      <3>1. PICK i : i = id
        OBVIOUS
      <3>2. done = [r EXCEPT !.at = "ok", !.id = i]
        BY <1>0, <3>1 DEF Shaped
      <3>3. AsksAbout(r) => i = r.id
        BY <3>1 DEF AsksAbout, OnProject, OnArchitecture, OnRun
      <3> HIDE DEF done
      <3> QED BY <1>0, <3>2, <3>3 DEF Shaped
    <2> HIDE DEF done, id
    <2>4. RequestInv(done)
      <3>1. AsksAbout(done) <=> AsksAbout(r)
        BY <2>3 DEF AsksAbout
      <3>2. RequestOK(done)
        BY <1>0, <2>3 DEF RequestOK, AsksAbout
      <3>3. ClimbOK(done)
        BY <2>3 DEF ClimbOK
      <3>4. StandingOK(done)
        BY <1>0, <2>3, <3>1 DEF StandingOK, RequestInv
      <3>5. AsksAbout(r) => Owns(r)
        BY <1>1
      <3>6. AnswerOK(done)
        BY <2>3, <3>1, <3>5 DEF AnswerOK, Owns
      <3> QED BY <3>2, <3>3, <3>4, <3>6 DEF RequestInv
    <2>5. \A q \in (requests \ {r}) \cup {done} : RequestInv(q)
      BY <2>4
    <2>6. ASSUME NEW p \in requests'
          PROVE  RequestInv(p)'
      <3>1. PICK q \in (requests \ {r}) \cup {done} : p = Noted(q)
        BY <2>1
      <3> QED BY <2>2, <2>5, <3>1, NotedInv
    <2> QED BY <2>1, <2>2, <2>6
  <1> QED BY <1>3, <1>4

-----------------------------------------------------------------------------
(* The steps together.                                                      *)

\* A step sends a request, or changes one, and the tables stay; or it writes.
Sends ==
    /\ UNCHANGED tables
    /\ \E q : requests' = requests \cup {q} /\ RequestInv(q)

Changes ==
    /\ UNCHANGED tables
    /\ \E r, q : requests' = (requests \ {r}) \cup {q} /\ RequestInv(q)

\* The dashboard asks about projects there are.
LEMMA SliceSends ==
    ASSUME BudgetOK, dashboard.user \in Users, NEW kind, NEW id, NEW data,
           SendBySlice(kind, id, data), UNCHANGED tables,
           \/ kind \in {"update", "delete"} /\ id \in DOMAIN projects
           \/ kind \in {"fetch", "create"},
           kind \in {"create", "update"} => data \in Visibilities
    PROVE  Sends
  <1>1. kind \in {"update", "delete"} => kind \in OnProject
    BY DEF OnProject
  <1>2. kind \notin {"createArchitecture", "patch"} /\ kind \in SliceKinds
    BY DEF SliceKinds
  <1>3. PICK q : q = Request(dashboard.user, "slice", kind, id, data)
    OBVIOUS
  <1>4. RequestInv(q)
    BY <1>1, <1>2, <1>3, AskedInv
  <1> QED BY <1>3, <1>4 DEF Sends, SendBySlice

\* A page asks about rows there are.
LEMMA PageAsks ==
    ASSUME BudgetOK, NEW user \in Users, NEW kind, NEW id, NEW data, Ask(user, kind, id, data),
           \/ kind \in OnProject /\ id \in DOMAIN projects
           \/ kind \in OnArchitecture /\ id \in DOMAIN architectures
           \/ kind \in OnRun /\ id \in DOMAIN runs
           \/ kind = "create",
           kind \in {"create", "update"} => data \in Visibilities,
           kind = "createArchitecture" => data \in Names,
           kind = "patch" => data \in [fields : PatchFields, name : Names]
    PROVE  Sends
  <1>1. PICK q : q = Request(user, "page", kind, id, data)
    OBVIOUS
  <1>2. RequestInv(q)
    <2>1. "page" # "slice"
      OBVIOUS
    <2> QED BY <1>1, <2>1, AskedInv
  <1> QED BY <1>1, <1>2 DEF Sends, Ask, tables

\* What every step is.
LEMMA StepCases ==
    ASSUME ProjectsAssumption, IInv, [Next]_vars
    PROVE  \/ Sends \/ Changes
           \/ UNCHANGED tables /\ requests' \subseteq requests
           \/ \E r \in requests : Apply(r)
  <1>0. TablesOK /\ BudgetOK /\ dashboard.user \in Users /\ \A r \in requests : RequestInv(r)
    BY DEF IInv, DashboardOK
  <1>1. CASE UNCHANGED vars
    BY <1>1 DEF vars, tables
  <1>2. ASSUME NEW u \in Users, NEW id \in DOMAIN projects,
               GetProject(u, id) \/ CreateArchitecture(u, id)
                    \/ EditProjectElsewhere(u, id) \/ RemoveProjectElsewhere(u, id)
        PROVE  Sends
    <2>1. {"getProject", "createArchitecture", "update", "delete"} \subseteq OnProject
      BY DEF OnProject
    <2>2. CASE GetProject(u, id)
      BY <1>0, <2>1, <2>2, PageAsks DEF GetProject
    <2>3. CASE CreateArchitecture(u, id)
      <3>1. PICK n \in Names : Ask(u, "createArchitecture", id, n)
        BY <2>3 DEF CreateArchitecture
      <3> QED BY <1>0, <2>1, <3>1, PageAsks
    <2>4. CASE EditProjectElsewhere(u, id)
      <3>1. PICK v \in Visibilities : Ask(u, "update", id, v)
        BY <2>4 DEF EditProjectElsewhere
      <3> QED BY <1>0, <2>1, <3>1, PageAsks
    <2>5. CASE RemoveProjectElsewhere(u, id)
      BY <1>0, <2>1, <2>5, PageAsks DEF RemoveProjectElsewhere
    <2> QED BY <1>2, <2>2, <2>3, <2>4, <2>5
  <1>3. ASSUME NEW u \in Users, NEW id \in DOMAIN architectures,
               GetArchitecture(u, id) \/ PatchArchitecture(u, id)
                    \/ RemoveArchitecture(u, id) \/ CreateRun(u, id)
        PROVE  Sends
    <2>1. {"getArchitecture", "patch", "deleteArchitecture", "createRun"} \subseteq OnArchitecture
      BY DEF OnArchitecture
    <2>2. CASE GetArchitecture(u, id)
      BY <1>0, <2>1, <2>2, PageAsks DEF GetArchitecture
    <2>3. CASE PatchArchitecture(u, id)
      <3>1. PICK fields \in PatchFields, n \in Names :
               Ask(u, "patch", id, [fields |-> fields, name |-> n])
        BY <2>3 DEF PatchArchitecture
      <3>2. [fields |-> fields, name |-> n] \in [fields : PatchFields, name : Names]
        OBVIOUS
      <3> QED BY <1>0, <2>1, <3>1, <3>2, PageAsks
    <2>4. CASE RemoveArchitecture(u, id)
      BY <1>0, <2>1, <2>4, PageAsks DEF RemoveArchitecture
    <2>5. CASE CreateRun(u, id)
      BY <1>0, <2>1, <2>5, PageAsks DEF CreateRun
    <2> QED BY <1>3, <2>2, <2>3, <2>4, <2>5
  <1>4. ASSUME NEW u \in Users, NEW id \in DOMAIN runs, GetRun(u, id)
        PROVE  Sends
    BY <1>0, <1>4, PageAsks DEF GetRun, OnRun
  <1>14. ASSUME NEW u \in Users, NewProjectElsewhere(u)
         PROVE  Sends
    <2>1. PICK v \in Visibilities : Ask(u, "create", 0, v)
      BY <1>14 DEF NewProjectElsewhere
    <2> QED BY <1>0, <2>1, PageAsks
  <1>5. CASE FetchProjects
    <2>1. SendBySlice("fetch", 0, 0) /\ UNCHANGED tables
      BY <1>5 DEF FetchProjects, tables
    <2> QED BY <1>0, <2>1, SliceSends
  <1>6. CASE CreateProject
    <2>1. PICK v \in Visibilities : SendBySlice("create", 0, v) /\ UNCHANGED tables
      BY <1>6 DEF CreateProject, tables
    <2> QED BY <1>0, <2>1, SliceSends
  <1>7. CASE EditProject
    <2>1. PICK id \in DOMAIN projects, v \in Visibilities :
             SendBySlice("update", id, v) /\ UNCHANGED tables
      BY <1>7 DEF EditProject, tables
    <2> QED BY <1>0, <2>1, SliceSends
  <1>8. CASE RemoveProject
    <2>1. PICK id \in DOMAIN projects : SendBySlice("delete", id, 0) /\ UNCHANGED tables
      BY <1>8 DEF RemoveProject, tables
    <2> QED BY <1>0, <2>1, SliceSends
  <1>9. CASE SwitchUser
    BY <1>9 DEF SwitchUser, tables
  <1>10. ASSUME NEW r \in requests, Climb(r)
         PROVE  Changes
    BY <1>0, <1>10, ClimbStep DEF Climb, Changes, tables
  <1>11. ASSUME NEW r \in requests, List(r)
         PROVE  Changes
    <2>1. PICK rows : rows = RowsOf(FirstPage(IdsOf(r.user)))
      OBVIOUS
    <2>2. PICK q : q = [r EXCEPT !.at = "ok", !.row = rows]
      OBVIOUS
    <2>3. requests' = (requests \ {r}) \cup {q} /\ r.kind = "fetch" /\ UNCHANGED tables
      BY <1>11, <2>1, <2>2 DEF List, Becomes, tables
    <2>4. RequestInv(r) /\ Shaped(r)
      BY <1>0 DEF RequestInv, RequestOK
    <2>5. Same(r, q) /\ q.at = "ok" /\ q.kind = "fetch"
      BY <2>2, <2>3, <2>4 DEF Shaped, Same
    <2>6. ClimbOK(q) /\ AnswerOK(q)
      BY <2>5 DEF ClimbOK, AnswerOK, AsksAbout, OnProject, OnArchitecture, OnRun
    <2> QED BY <2>3, <2>4, <2>5, <2>6, SameKeeps DEF Changes
  <1>12. ASSUME NEW r \in requests, Deliver(r)
         PROVE  UNCHANGED tables /\ requests' \subseteq requests
    BY <1>12 DEF Deliver, tables
  <1>13. ASSUME NEW r \in requests, Lose(r)
         PROVE  Changes
    <2>1. PICK q : q = [r EXCEPT !.at = "lost"]
      OBVIOUS
    <2>2. requests' = (requests \ {r}) \cup {q} /\ UNCHANGED tables
      BY <1>13, <2>1 DEF Lose, Reply, Becomes, tables
    <2>3. RequestInv(r) /\ Shaped(r)
      BY <1>0 DEF RequestInv, RequestOK
    <2>4. Same(r, q) /\ q.at = "lost"
      BY <2>1, <2>3, MovedAt
    <2> QED BY <2>2, <2>3, <2>4, EndsBadly DEF Changes
  <1> QED BY <1>1, <1>2, <1>3, <1>4, <1>5, <1>6, <1>7, <1>8, <1>9, <1>10, <1>11, <1>12, <1>13, <1>14
          DEF Next

\* No project leaves the table.
LEMMA ProjectsStay ==
    ASSUME ProjectsAssumption, IInv, [Next]_vars
    PROVE  DOMAIN projects \subseteq DOMAIN projects'
  <1>1. UNCHANGED tables => DOMAIN projects \subseteq DOMAIN projects'
    BY DEF tables
  <1>2. ASSUME NEW r \in requests, Apply(r)
        PROVE  DOMAIN projects \subseteq DOMAIN projects'
    <2>1. UNCHANGED tables \/ Grows
      BY <1>2, ApplyStep DEF IInv
    <2> QED BY <1>1, <2>1 DEF Grows
  <1> QED BY <1>1, <1>2, StepCases DEF Sends, Changes

\* The budget and the user of the dashboard keep their types.
LEMMA BudgetKept ==
    ASSUME ProjectsAssumption, IInv, [Next]_vars
    PROVE  BudgetOK' /\ DashboardOK'
  <1>0. BudgetOK /\ DashboardOK /\ \A r \in requests : RequestInv(r)
    BY DEF IInv
  <1>1. ASSUME NEW what \in {"requests", "switches", "faults"}, Spend(what)
        PROVE  BudgetOK'
    BY <1>0, <1>1 DEF Spend, BudgetOK
  <1>2. left' = left => BudgetOK'
    BY <1>0 DEF BudgetOK
  <1>14. \A B : B \in SUBSET DOMAIN projects => B \in SUBSET DOMAIN projects'
    BY ProjectsStay
  <1>3. dashboard' = dashboard => DashboardOK'
    BY <1>0, <1>14 DEF DashboardOK
  <1>4. CASE UNCHANGED vars
    BY <1>2, <1>3, <1>4 DEF vars
  <1>5. ASSUME NEW user, NEW kind, NEW id, NEW data, Ask(user, kind, id, data)
        PROVE  BudgetOK' /\ DashboardOK'
    BY <1>1, <1>3, <1>5 DEF Ask
  <1>6. CASE FetchProjects
    <2>1. dashboard' = [dashboard EXCEPT !.status = "loading"] /\ Spend("requests")
      BY <1>6 DEF FetchProjects
    <2>2. DashboardOK'
      BY <1>0, <1>14, <2>1 DEF DashboardOK
    <2> QED BY <1>1, <2>1, <2>2
  <1>7. CASE CreateProject \/ EditProject \/ RemoveProject
    BY <1>1, <1>3, <1>7 DEF CreateProject, EditProject, RemoveProject
  <1>8. CASE SwitchUser
    <2>1. PICK u \in Users : dashboard' = [dashboard EXCEPT !.user = u]
      BY <1>8 DEF SwitchUser
    <2>2. DashboardOK'
      BY <1>0, <1>14, <2>1 DEF DashboardOK
    <2> QED BY <1>1, <1>8, <2>2 DEF SwitchUser
  <1>9. ASSUME NEW r \in requests, Climb(r) \/ Apply(r)
        PROVE  BudgetOK' /\ DashboardOK'
    BY <1>2, <1>3, <1>9 DEF Climb, Apply
  <1>15. ASSUME NEW r \in requests, List(r)
         PROVE  BudgetOK' /\ DashboardOK'
    <2>1. PICK B : B = IdsOf(r.user) \ FirstPage(IdsOf(r.user))
      OBVIOUS
    <2>2. dashboard' = [dashboard EXCEPT !.beyond = B] /\ left' = left /\ projects' = projects
      BY <1>15, <2>1 DEF List
    <2>3. B \in SUBSET DOMAIN projects
      BY <2>1 DEF IdsOf
    <2> QED BY <1>0, <1>2, <2>2, <2>3 DEF DashboardOK
  <1>10. ASSUME NEW r \in requests, Lose(r)
         PROVE  BudgetOK' /\ DashboardOK'
    BY <1>1, <1>3, <1>10 DEF Lose
  <1>11. ASSUME NEW r \in requests, Deliver(r)
         PROVE  BudgetOK' /\ DashboardOK'
    <2>1. left' = left /\ (dashboard' = dashboard \/ dashboard' = Reduced(dashboard, r))
      BY <1>11 DEF Deliver
    <2>2. CASE dashboard' = dashboard
      BY <1>2, <1>3, <2>1, <2>2
    <2>3. CASE r.by = "slice" /\ dashboard' = Reduced(dashboard, r)
      <3>1. r.kind \in {"fetch", "create", "update", "delete"}
        BY <1>0, <2>3 DEF RequestInv, RequestOK, SliceKinds
      <3>2. \/ dashboard' = dashboard
            \/ dashboard' = [dashboard EXCEPT !.status = "failed"]
            \/ \E status, items : dashboard' = [dashboard EXCEPT !.status = status, !.items = items]
        <4>1. CASE r.at # "ok"
          BY <2>3, <4>1 DEF Reduced
        <4>2. CASE r.at = "ok"
          BY <2>3, <3>1, <4>2 DEF Reduced
        <4> QED BY <4>1, <4>2
      <3>3. ASSUME NEW status, NEW items,
                   dashboard' = [dashboard EXCEPT !.status = status, !.items = items]
            PROVE  DashboardOK'
        BY <1>0, <1>14, <3>3 DEF DashboardOK
      <3>4. dashboard' = [dashboard EXCEPT !.status = "failed"] => DashboardOK'
        BY <1>0, <1>14 DEF DashboardOK
      <3> QED BY <1>2, <1>3, <2>1, <3>2, <3>3, <3>4
    <2> QED BY <1>11, <2>2, <2>3 DEF Deliver
  <1> QED BY <1>4, <1>5, <1>6, <1>7, <1>8, <1>9, <1>10, <1>11, <1>15
          DEF Next, NewProjectElsewhere, EditProjectElsewhere, RemoveProjectElsewhere, GetProject, CreateArchitecture, GetArchitecture, PatchArchitecture,
              RemoveArchitecture, CreateRun, GetRun

\* The invariant holds on empty tables.
LEMMA InvFirst ==
    ASSUME ProjectsAssumption, Init
    PROVE  IInv
  <1>1. PICK v \in Visibilities :
           projects = <<[owner |-> Owner, visibility |-> v, live |-> TRUE]>>
    BY DEF Init
  <1>2. PICK n \in Names :
           architectures = <<[project |-> 1, name |-> n, nodes |-> 0, edges |-> 0,
                              saved |-> 0, live |-> TRUE]>>
    BY DEF Init
  <1>3. runs = <<[architecture |-> 1, live |-> TRUE]>>
    BY DEF Init
  <1>4. [owner |-> Owner, visibility |-> v, live |-> TRUE] \in ProjectRow
    BY DEF ProjectRow, ProjectsAssumption
  <1>5. [project |-> 1, name |-> n, nodes |-> 0, edges |-> 0, saved |-> 0, live |-> TRUE]
           \in ArchitectureRow
    BY DEF ArchitectureRow
  <1>6. [architecture |-> 1, live |-> TRUE] \in RunRow
    BY DEF RunRow
  <1>7. \A S, x : x \in S => <<x>> \in Seq(S)
    OBVIOUS
  <1>8. projects \in Seq(ProjectRow) /\ architectures \in Seq(ArchitectureRow) /\ runs \in Seq(RunRow)
    BY <1>1, <1>2, <1>3, <1>4, <1>5, <1>6, <1>7
  <1>9. /\ \A a \in DOMAIN architectures : architectures[a].project \in DOMAIN projects
        /\ \A i \in DOMAIN runs : runs[i].architecture \in DOMAIN architectures
    BY <1>1, <1>2, <1>3
  <1>10. BudgetOK
    BY DEF Init, ProjectsAssumption, BudgetOK
  <1>11. DashboardOK
    BY DEF Init, ProjectsAssumption, DashboardOK
  <1>12. requests = {}
    BY DEF Init
  <1> QED BY <1>8, <1>9, <1>10, <1>11, <1>12 DEF IInv, TablesOK

\* Every step keeps it.
LEMMA InvKept ==
    ASSUME ProjectsAssumption, IInv, [Next]_vars
    PROVE  IInv'
  <1>0. TablesOK /\ \A r \in requests : RequestInv(r)
    BY DEF IInv
  <1>1. TablesOK' /\ \A r \in requests' : RequestInv(r)'
    <2>1. CASE Sends
      <3>1. PICK q : requests' = requests \cup {q} /\ RequestInv(q)
        BY <2>1 DEF Sends
      <3> QED BY <1>0, <2>1, <3>1, RequestIdle, TablesIdle DEF Sends
    <2>2. CASE Changes
      <3>1. PICK r, q : requests' = (requests \ {r}) \cup {q} /\ RequestInv(q)
        BY <2>2 DEF Changes
      <3> QED BY <1>0, <2>2, <3>1, RequestIdle, TablesIdle DEF Changes
    <2>3. CASE UNCHANGED tables /\ requests' \subseteq requests
      BY <1>0, <2>3, RequestIdle, TablesIdle
    <2>4. ASSUME NEW r \in requests, Apply(r)
          PROVE  TablesOK' /\ \A q \in requests' : RequestInv(q)'
      BY <1>0, <2>4, ApplyStep
    <2> QED BY <2>1, <2>2, <2>3, <2>4, StepCases
  <1>2. BudgetOK' /\ DashboardOK'
    BY BudgetKept
  <1> QED BY <1>1, <1>2 DEF IInv

\* The tables and the requests hold what they should, and every row has a row
\* above it, live or not.
THEOREM TablesAlwaysOK == Spec => []IInv
  <1>1. Init => IInv
    BY InvFirst, ProjectsAssumption
  <1>2. IInv /\ [Next]_vars => IInv'
    BY InvKept, ProjectsAssumption
  <1> QED BY <1>1, <1>2, PTL DEF Spec

\* Reads follow the visibility of the project and writes its owner, also when
\* both change, and rows are deleted, while the services climb to the project: no
\* read is forbidden, no write of another user's goes through or is hidden, and
\* what is not found was gone, or was private and somebody else's to a read.
THEOREM AnswersAlwaysFollowVisibility == Spec => []AnswersFollowVisibility
  <1>1. IInv => AnswersFollowVisibility
    <2> SUFFICES ASSUME IInv, NEW r \in requests, Level(r.kind) # "table"
                 PROVE  /\ r.at = "ok" =>
                              \/ Owns(r)
                              \/ r.kind \in Reads /\ r.was \cap {"PUBLIC", "UNLISTED"} # {}
                        /\ r.at = "notFound" =>
                              "GONE" \in r.was \/ (r.kind \in Reads /\ ~Owns(r) /\ "PRIVATE" \in r.was)
                        /\ r.at = "forbidden" => r.kind \notin Reads /\ ~Owns(r)
                        /\ r.at = "failed" => "GONE" \in r.was
      BY DEF AnswersFollowVisibility, Owns
    <2>1. AsksAbout(r)
      BY Levels DEF AsksAbout
    <2>2. AnswerOK(r)
      BY DEF IInv, RequestInv
    <2> QED BY <2>1, <2>2 DEF AnswerOK
  <1> QED BY <1>1, TablesAlwaysOK, PTL

\* What the client sends of a graph, it sends whole.
WholeGraphs == \A fields \in PatchFields : "nodes" \in fields <=> "edges" \in fields

\* A stored graph is the one saved last, as long as no client sends half of one:
\* a rename that read the row before a save brings no old graph back.
THEOREM SavedGraphAlwaysStays == WholeGraphs => (Spec => []SavedGraphStays)
  <1> SUFFICES ASSUME WholeGraphs PROVE Spec => []SavedGraphStays
    OBVIOUS
  <1>1. Init => SavedGraphStays
    BY DEF Init, SavedGraphStays
  <1>2. IInv /\ SavedGraphStays /\ [Next]_vars => SavedGraphStays'
    <2> SUFFICES ASSUME IInv, SavedGraphStays, [Next]_vars PROVE SavedGraphStays'
      OBVIOUS
    <2>0. TablesOK /\ \A r \in requests : RequestInv(r)
      BY DEF IInv
    <2>1. CASE UNCHANGED tables
      BY <2>1 DEF SavedGraphStays, tables
    <2>2. ASSUME NEW r \in requests, Apply(r), Write(r)
          PROVE  SavedGraphStays'
      <3>0. RequestOK(r) /\ ClimbOK(r)
        BY <2>0 DEF RequestInv
      <3>1. r.kind \in {"create", "update", "delete", "createArchitecture", "patch",
                        "deleteArchitecture", "createRun"}
        BY <2>2, <3>0 DEF Apply, ClimbOK, AsksAbout, Reads, OnProject, OnArchitecture, OnRun
      <3>2. CASE r.kind \in {"create", "update", "createRun"}
        <4>1. architectures' = architectures
          BY <2>2, <3>2 DEF Write, InsertProject, UpdateProject, InsertRun
        <4> QED BY <4>1 DEF SavedGraphStays
      <3>3. CASE r.kind \in {"delete", "deleteArchitecture"}
        <4>1. PICK dead : Cascade(dead)
          BY <2>2, <3>3 DEF Write, DeleteProject, DeleteArchitecture
        <4> QED BY <2>0, <4>1, CascadeStep DEF SavedGraphStays
      <3>4. CASE r.kind = "createArchitecture"
        <4> DEFINE x == [project |-> r.id, name |-> r.data, nodes |-> 0, edges |-> 0,
                         saved |-> 0, live |-> TRUE]
        <4>1. architectures' = Append(architectures, x)
          BY <2>2, <3>4 DEF Write, InsertArchitecture
        <4>2. x.nodes = x.saved /\ x.edges = x.saved
          OBVIOUS
        <4>3. x \in ArchitectureRow
          <5>1. r.id \in DOMAIN projects /\ r.data \in Names
            BY <3>0, <3>4 DEF RequestOK, OnProject
          <5>2. r.id \in Nat
            BY <2>0, <5>1 DEF TablesOK
          <5> QED BY <5>1, <5>2 DEF ArchitectureRow
        <4> HIDE DEF x
        <4>4. architectures \in Seq(ArchitectureRow)
          BY <2>0 DEF TablesOK
        <4>5. /\ DOMAIN architectures' = DOMAIN architectures \cup {Len(architectures) + 1}
              /\ architectures'[Len(architectures) + 1] = x
              /\ \A a \in DOMAIN architectures : architectures'[a] = architectures[a]
          BY <4>1, <4>3, <4>4, AppendedRow
        <4> QED BY <4>2, <4>5 DEF SavedGraphStays
      <3>5. CASE r.kind = "patch"
        <4>1. /\ r.id \in DOMAIN architectures /\ r.nr \in Nat /\ r.row \in ArchitectureRow
              /\ r.data \in [fields : PatchFields, name : Names]
          BY <2>2, <3>0, <3>5 DEF RequestOK, ClimbOK, OnArchitecture, Apply
        <4>2. /\ Patched(r) \in ArchitectureRow
              /\ Patched(r).nodes = Patched(r).saved /\ Patched(r).edges = Patched(r).saved
          <5>1. r.data.fields \in PatchFields
            BY <4>1
          <5> QED BY <2>0, <4>1, <5>1, PatchedRowOK DEF WholeGraphs, SavedGraphStays
        <4>3. architectures' = [architectures EXCEPT ![r.id] = Patched(r)]
          BY <2>2, <3>5 DEF Write, UpdateArchitecture
        <4>4. /\ DOMAIN architectures' = DOMAIN architectures
              /\ architectures'[r.id] = Patched(r)
              /\ \A a \in DOMAIN architectures : a # r.id => architectures'[a] = architectures[a]
          <5>1. architectures \in Seq(ArchitectureRow)
            BY <2>0 DEF TablesOK
          <5> QED BY <4>1, <4>2, <4>3, <5>1, ReplacedRow
        <4> QED BY <4>2, <4>4 DEF SavedGraphStays
      <3> QED BY <3>1, <3>2, <3>3, <3>4, <3>5
    <2>3. ASSUME NEW r \in requests, Apply(r)
          PROVE  UNCHANGED tables \/ Write(r)
      BY <2>0, <2>3, ApplyStep, ProjectsAssumption
    <2> QED BY <2>1, <2>2, <2>3, StepCases, ProjectsAssumption DEF Sends, Changes
  <1> QED BY <1>1, <1>2, TablesAlwaysOK, PTL DEF Spec

-----------------------------------------------------------------------------
(* Counting in finite sets of numbers, and the list of a user's projects.   *)

\* How many of a set are below a number.
Below(S, i) == Cardinality({j \in S : j < i})

\* Of two members of a set, the higher one has more below it.
LEMMA BelowRises ==
    ASSUME NEW S \in SUBSET Nat, IsFiniteSet(S), NEW i \in S, NEW k \in S, i < k
    PROVE  /\ Below(S, i) \in Nat /\ Below(S, k) \in Nat /\ Below(S, i) < Below(S, k)
           /\ Below(S, k) < Cardinality(S)
  <1> DEFINE A == {j \in S : j < i}
             B == {j \in S : j < k}
  <1>0. \A a \in Nat : (a < i => a < k) /\ ~(a < a)
    OBVIOUS
  <1>1. A \in SUBSET B /\ B \in SUBSET S /\ i \in B /\ i \notin A /\ k \notin B
    <2>1. i \in Nat /\ k \in Nat /\ \A j \in S : j \in Nat
      OBVIOUS
    <2> QED BY <1>0, <2>1, Zenon
  <1>2. IsFiniteSet(B) /\ Cardinality(B) <= Cardinality(S) /\ (Cardinality(B) = Cardinality(S) => S = B)
    BY <1>1, FS_Subset
  <1> HIDE DEF A, B
  <1>3. IsFiniteSet(A) /\ Cardinality(A) <= Cardinality(B) /\ (Cardinality(A) = Cardinality(B) => B = A)
    BY <1>1, <1>2, FS_Subset
  <1>4. Cardinality(A) \in Nat /\ Cardinality(B) \in Nat /\ Cardinality(S) \in Nat
    BY <1>2, <1>3, FS_CardinalityType
  <1>5. Cardinality(A) # Cardinality(B) /\ Cardinality(B) # Cardinality(S)
    BY <1>1, <1>2, <1>3
  <1>6. Below(S, i) = Cardinality(A) /\ Below(S, k) = Cardinality(B)
    BY DEF Below, A, B
  <1>7. \A a, b, c \in Nat : a <= b /\ a # b /\ b <= c /\ b # c => a < b /\ b < c
    OBVIOUS
  <1> HIDE <1>1
  <1> QED BY <1>2, <1>3, <1>4, <1>5, <1>6, <1>7

\* Members of a set differ in how many are below them.
LEMMA BelowTells ==
    ASSUME NEW S \in SUBSET Nat, IsFiniteSet(S), NEW i \in S, NEW k \in S, Below(S, i) = Below(S, k)
    PROVE  i = k
  <1>1. ASSUME i < k PROVE FALSE
    <2>1. Below(S, i) \in Nat /\ Below(S, i) < Below(S, k)
      BY <1>1, BelowRises
    <2>2. \A n \in Nat : ~(n < n)
      OBVIOUS
    <2> QED BY <2>1, <2>2
  <1>2. ASSUME k < i PROVE FALSE
    <2>1. Below(S, k) \in Nat /\ Below(S, k) < Below(S, i)
      BY <1>2, BelowRises
    <2>2. \A n \in Nat : ~(n < n)
      OBVIOUS
    <2> QED BY <2>1, <2>2
  <1>3. \A a, b \in Nat : a < b \/ b < a \/ a = b
    OBVIOUS
  <1> QED BY <1>1, <1>2, <1>3

\* The member that has k - 1 below it is the k-th.
LEMMA NthIs ==
    ASSUME NEW S \in SUBSET Nat, IsFiniteSet(S), NEW k, NEW i \in S, Below(S, i) = k - 1
    PROVE  Nth(S, k) = i
  <1>1. Nth(S, k) \in S /\ Below(S, Nth(S, k)) = k - 1
    BY DEF Nth, Below
  <1>2. PICK n \in S : n = Nth(S, k)
    BY <1>1
  <1>3. Below(S, n) = Below(S, i)
    BY <1>1, <1>2
  <1>4. n = i
    BY <1>3, BelowTells
  <1> QED BY <1>2, <1>4

\* Every set has as many members below its own as it takes to count it.
LEMMA NthOf ==
    ASSUME NEW S \in SUBSET Nat, IsFiniteSet(S), NEW k \in 1 .. Cardinality(S)
    PROVE  Nth(S, k) \in S /\ Below(S, Nth(S, k)) = k - 1
  <1>1. PICK n \in Nat : n = Cardinality(S)
    BY FS_CardinalityType
  <1> DEFINE ranks == 0 .. n - 1
             f == [i \in S |-> Below(S, i)]
  <1>2. ASSUME NEW i \in S PROVE Below(S, i) \in ranks
    <2> DEFINE B == {j \in S : j < i}
    <2>1. B \in SUBSET S /\ i \notin B
      <3>1. ~(i < i)
        OBVIOUS
      <3> QED BY <3>1, Zenon
    <2> HIDE DEF B
    <2>2. IsFiniteSet(B) /\ Cardinality(B) <= n /\ Cardinality(B) # n
      BY <1>1, <2>1, FS_Subset
    <2>3. PICK m \in Nat : m = Cardinality(B)
      BY <2>2, FS_CardinalityType
    <2>4. Below(S, i) = Cardinality(B)
      BY DEF Below, B
    <2> HIDE <2>1
    <2> QED BY <2>2, <2>3, <2>4
  <1>3. f \in Injection(S, ranks)
    <2>1. f \in [S -> ranks]
      BY <1>2
    <2>2. ASSUME NEW i \in S, NEW j \in S, f[i] = f[j] PROVE i = j
      BY <2>2, BelowTells
    <2> QED BY <2>1, <2>2 DEF Injection, IsInjective
  <1>4. IsFiniteSet(ranks) /\ Cardinality(ranks) = n
    BY FS_Interval
  <1> HIDE DEF f, ranks
  <1>5. f \in Surjection(S, ranks)
    BY <1>1, <1>3, <1>4, FS_Injection
  <1>6. k - 1 \in ranks
    BY <1>1 DEF ranks
  <1>7. PICK i \in S : f[i] = k - 1
    BY <1>5, <1>6 DEF Surjection
  <1>8. Below(S, i) = k - 1
    BY <1>7 DEF f
  <1> QED BY <1>8 DEF Nth, Below

\* f counts a set down, from its highest member to its lowest.
CountsDown(f, n, S) ==
    /\ n \in Nat /\ f \in [1 .. n -> S]
    /\ \A k, l \in 1 .. n : k < l => f[l] < f[k]
    /\ \A i \in S : \E k \in 1 .. n : f[k] = i

\* The k-th from above has n - k members below it, and there are n.
LEMMA CountedDown ==
    ASSUME NEW S \in SUBSET Nat, NEW n, NEW f, CountsDown(f, n, S)
    PROVE  /\ IsFiniteSet(S) /\ Cardinality(S) = n
           /\ \A k \in 1 .. n : Below(S, f[k]) = n - k /\ Nth(S, n + 1 - k) = f[k]
  <1>0. /\ n \in Nat /\ f \in [1 .. n -> S]
        /\ \A k, l \in 1 .. n : k < l => f[l] < f[k]
        /\ \A i \in S : \E k \in 1 .. n : f[k] = i
    BY DEF CountsDown
  <1>1. \A k, l \in 1 .. n : k # l => f[k] # f[l]
    <2> SUFFICES ASSUME NEW k \in 1 .. n, NEW l \in 1 .. n, k # l PROVE f[k] # f[l]
      OBVIOUS
    <2>1. (k < l \/ l < k) /\ f[k] \in Nat /\ f[l] \in Nat
      <3>1. k < l \/ l < k
        BY <1>0
      <3>2. f[k] \in S /\ f[l] \in S
        BY <1>0
      <3> QED BY <3>1, <3>2
    <2>2. f[k] < f[l] \/ f[l] < f[k]
      BY <1>0, <2>1
    <2> QED BY <2>1, <2>2
  <1>2. f \in Bijection(1 .. n, S)
    BY <1>0, <1>1 DEF Bijection, Injection, IsInjective, Surjection
  <1>3. ExistsBijection(1 .. n, S)
    BY <1>2 DEF ExistsBijection
  <1>4. IsFiniteSet(S) /\ Cardinality(S) = n
    BY <1>0, <1>3, FS_CountingElements, FS_NatBijection
  <1>5. ASSUME NEW k \in 1 .. n
        PROVE  Below(S, f[k]) = n - k
    <2> DEFINE B == {j \in S : j < f[k]}
               g == [i \in 1 .. n - k |-> f[k + i]]
    <2>1. \A i \in 1 .. n - k : k + i \in 1 .. n /\ k < k + i
      BY <1>0
    <2>2. \A i \in 1 .. n - k : f[k + i] \in B
      BY <1>0, <2>1
    <2>3. g \in [1 .. n - k -> B]
      BY <2>2
    <2>4. \A i, j \in 1 .. n - k : g[i] = g[j] => i = j
      <3> SUFFICES ASSUME NEW i \in 1 .. n - k, NEW j \in 1 .. n - k, f[k + i] = f[k + j] PROVE i = j
        OBVIOUS
      <3>1. k + i = k + j
        BY <1>1, <2>1
      <3> QED BY <3>1
    <2>5. \A j \in B : \E i \in 1 .. n - k : g[i] = j
      <3> SUFFICES ASSUME NEW j \in B PROVE \E i \in 1 .. n - k : f[k + i] = j
        OBVIOUS
      <3>1. PICK l \in 1 .. n : f[l] = j
        BY <1>0
      <3>2. f[l] < f[k] /\ f[l] \in Nat /\ f[k] \in Nat
        BY <1>0, <3>1
      <3>3. ~(l < k) /\ l # k
        <4>1. l < k => f[k] < f[l]
          BY <1>0
        <4> QED BY <3>2, <4>1
      <3>4. PICK i \in 1 .. n - k : l = k + i
        <4>1. l - k \in 1 .. n - k /\ l = k + (l - k)
          BY <1>0, <3>3
        <4> QED BY <4>1
      <3> QED BY <3>1, <3>4
    <2> HIDE DEF g, B
    <2>6. ExistsBijection(1 .. n - k, B)
      BY <2>3, <2>4, <2>5 DEF ExistsBijection, Bijection, Injection, IsInjective, Surjection, g
    <2>7. n - k \in Nat
      BY <1>0
    <2>8. Cardinality(B) = n - k
      BY <2>6, <2>7, FS_CountingElements
    <2> QED BY <2>8 DEF Below, B
  <1>6. ASSUME NEW k \in 1 .. n
        PROVE  Nth(S, n + 1 - k) = f[k]
    <2>1. f[k] \in S /\ Below(S, f[k]) = (n + 1 - k) - 1
      BY <1>0, <1>5
    <2>2. PICK m, i : m = n + 1 - k /\ i = f[k]
      OBVIOUS
    <2>3. i \in S /\ Below(S, i) = m - 1
      BY <2>1, <2>2
    <2>4. Nth(S, m) = i
      BY <1>4, <2>3, NthIs
    <2> QED BY <2>2, <2>4
  <1> QED BY <1>4, <1>5, <1>6

\* Every finite set of numbers is counted down by its members from above.
LEMMA CountingDown ==
    ASSUME NEW S \in SUBSET Nat, IsFiniteSet(S), NEW n, n = Cardinality(S)
    PROVE  CountsDown([k \in 1 .. n |-> Nth(S, n + 1 - k)], n, S)
  <1>0. n \in Nat
    BY FS_CardinalityType
  <1>1. \A k \in 1 .. n : Nth(S, k) \in S /\ Below(S, Nth(S, k)) = k - 1
    BY NthOf
  <1> DEFINE f == [k \in 1 .. n |-> Nth(S, n + 1 - k)]
  <1>2. \A k \in 1 .. n : n + 1 - k \in 1 .. n
    BY <1>0
  <1>3. \A k \in 1 .. n : f[k] \in S /\ Below(S, f[k]) = n - k
    <2> SUFFICES ASSUME NEW k \in 1 .. n PROVE f[k] \in S /\ Below(S, f[k]) = n - k
      OBVIOUS
    <2>1. PICK m \in 1 .. n : m = n + 1 - k
      BY <1>2
    <2>2. f[k] = Nth(S, m)
      BY <2>1
    <2>3. m - 1 = n - k
      BY <1>0, <2>1
    <2> HIDE DEF f
    <2> QED BY <1>1, <2>2, <2>3
  <1>4. f \in [1 .. n -> S]
    BY <1>3
  <1> HIDE DEF f
  <1>5. ASSUME NEW k \in 1 .. n, NEW l \in 1 .. n, k < l
        PROVE  f[l] < f[k]
    <2>1. PICK i \in S, j \in S : i = f[k] /\ j = f[l]
      BY <1>3
    <2>2. Below(S, i) = n - k /\ Below(S, j) = n - l
      BY <1>3, <2>1
    <2>3. i < j => Below(S, i) < Below(S, j)
      BY BelowRises
    <2>4. ~(n - k < n - l) /\ n - k # n - l
      BY <1>0, <1>5
    <2>5. i \in Nat /\ j \in Nat /\ ~(i < j) /\ i # j
      BY <2>2, <2>3, <2>4
    <2> QED BY <2>1, <2>5
  <1>6. ASSUME NEW i \in S
        PROVE  \E k \in 1 .. n : f[k] = i
    <2>1. PICK m : m = Below(S, i)
      OBVIOUS
    <2>2. m \in Nat /\ m < n
      <3> DEFINE B == {j \in S : j < i}
      <3>1. B \in SUBSET S /\ i \notin B
        <4>1. ~(i < i)
          OBVIOUS
        <4> QED BY <4>1, Zenon
      <3> HIDE DEF B
      <3>2. IsFiniteSet(B) /\ Cardinality(B) <= n /\ Cardinality(B) # n
        BY <3>1, FS_Subset
      <3>3. m = Cardinality(B)
        BY <2>1 DEF Below, B
      <3>4. m \in Nat
        BY <3>2, <3>3, FS_CardinalityType
      <3> HIDE <3>1
      <3> QED BY <1>0, <3>2, <3>3, <3>4
    <2>3. n - m \in 1 .. n /\ n - (n - m) = m
      BY <1>0, <2>2
    <2>4. PICK k \in 1 .. n : k = n - m
      BY <2>3
    <2>5. PICK j \in S : j = f[k]
      BY <1>3
    <2>6. Below(S, j) = Below(S, i)
      BY <1>3, <2>1, <2>3, <2>4, <2>5
    <2>7. i = j
      BY <2>6, BelowTells
    <2> QED BY <2>5, <2>7
  <1>7. CountsDown(f, n, S)
    BY <1>0, <1>4, <1>5, <1>6 DEF CountsDown
  <1> QED BY <1>7 DEF f

\* The projects w is about among the rows P of a table, and their list: those of
\* w.user, but for the ones in w.beyond.
IdsIn(P, w) == {i \in DOMAIN P : P[i].live /\ P[i].owner = w.user} \ w.beyond

Item(P, id) == [id |-> id, visibility |-> P[id].visibility]

RowsIn(P, w) ==
    LET n == Cardinality(IdsIn(P, w))
    IN  [k \in 1 .. n |-> Item(P, Nth(IdsIn(P, w), n + 1 - k))]

\* s lists the projects of w from the newest on; f gives their numbers.
Lists(s, f, n, P, w) ==
    CountsDown(f, n, IdsIn(P, w)) /\ s = [k \in 1 .. n |-> Item(P, f[k])]

\* What the dashboard w should show.
RowsFor(w) == RowsOf(IdsOf(w.user) \ w.beyond)

\* The rows of the model are these, before a step and after it.
LEMMA RowsAreIn ==
    ASSUME NEW w
    PROVE  RowsFor(w) = RowsIn(projects, w) /\ RowsFor(w)' = RowsIn(projects', w)
  BY DEF RowsFor, RowsOf, IdsOf, View, RowsIn, IdsIn, Item

LEMMA IdsAreNumbers ==
    ASSUME NEW P \in Seq(ProjectRow), NEW w
    PROVE  IdsIn(P, w) \in SUBSET Nat /\ IsFiniteSet(IdsIn(P, w))
  <1>1. Len(P) \in Nat /\ DOMAIN P = 1 .. Len(P)
    OBVIOUS
  <1>2. IsFiniteSet(1 .. Len(P)) /\ 1 .. Len(P) \in SUBSET Nat
    BY <1>1, FS_Interval
  <1>3. IdsIn(P, w) \in SUBSET (1 .. Len(P))
    BY <1>1 DEF IdsIn
  <1> QED BY <1>2, <1>3, FS_Subset

\* There is one such list, and the rows are it.
LEMMA RowsAreListed ==
    ASSUME NEW P \in Seq(ProjectRow), NEW w
    PROVE  \E n, f : Lists(RowsIn(P, w), f, n, P, w)
  <1>1. PICK S : S = IdsIn(P, w)
    OBVIOUS
  <1>2. S \in SUBSET Nat /\ IsFiniteSet(S)
    BY <1>1, IdsAreNumbers
  <1>3. PICK n : n = Cardinality(S)
    OBVIOUS
  <1>4. PICK f : f = [k \in 1 .. n |-> Nth(S, n + 1 - k)]
    OBVIOUS
  <1>5. CountsDown(f, n, S)
    BY <1>2, <1>3, <1>4, CountingDown
  <1>6. RowsIn(P, w) = [k \in 1 .. n |-> Item(P, Nth(S, n + 1 - k))]
    BY <1>1, <1>3 DEF RowsIn
  <1>7. [k \in 1 .. n |-> Item(P, Nth(S, n + 1 - k))] = [k \in 1 .. n |-> Item(P, f[k])]
    BY <1>4
  <1> QED BY <1>1, <1>5, <1>6, <1>7 DEF Lists

LEMMA ListedAreRows ==
    ASSUME NEW P \in Seq(ProjectRow), NEW w, NEW s, NEW f, NEW n, Lists(s, f, n, P, w)
    PROVE  s = RowsIn(P, w)
  <1>1. PICK S : S = IdsIn(P, w)
    OBVIOUS
  <1>2. S \in SUBSET Nat /\ CountsDown(f, n, S) /\ s = [k \in 1 .. n |-> Item(P, f[k])]
    BY <1>1, IdsAreNumbers DEF Lists
  <1>3. n = Cardinality(S) /\ \A k \in 1 .. n : Nth(S, n + 1 - k) = f[k]
    BY <1>2, CountedDown
  <1>4. RowsIn(P, w) = [k \in 1 .. n |-> Item(P, Nth(S, n + 1 - k))]
    BY <1>1, <1>3 DEF RowsIn
  <1> QED BY <1>2, <1>3, <1>4

\* A project that is created comes first.
LEMMA CreatedComesFirst ==
    ASSUME NEW P \in Seq(ProjectRow), NEW x \in ProjectRow, x.live,
           NEW w, w.user = x.owner, w.beyond \in SUBSET DOMAIN P
    PROVE  <<[id |-> Len(P) + 1, visibility |-> x.visibility]>> \o RowsIn(P, w)
              = RowsIn(Append(P, x), w)
  <1>1. PICK S, s, m, Q :
           /\ S = IdsIn(P, w) /\ s = RowsIn(P, w)
           /\ m = Len(P) + 1 /\ Q = Append(P, x)
    OBVIOUS
  <1>2. PICK n, f : Lists(s, f, n, P, w)
    BY <1>1, RowsAreListed
  <1>3. /\ n \in Nat /\ f \in [1 .. n -> S] /\ s = [k \in 1 .. n |-> Item(P, f[k])]
        /\ \A k, l \in 1 .. n : k < l => f[l] < f[k]
        /\ \A i \in S : \E k \in 1 .. n : f[k] = i
    BY <1>1, <1>2 DEF Lists, CountsDown
  <1>4. /\ Q \in Seq(ProjectRow) /\ DOMAIN Q = DOMAIN P \cup {m} /\ Q[m] = x
        /\ \A i \in DOMAIN P : Q[i] = P[i]
    BY <1>1, AppendedRow
  <1>5. m \in Nat /\ m \notin DOMAIN P /\ \A i \in DOMAIN P : i \in Nat /\ i < m
    BY <1>1
  <1>6. S \subseteq DOMAIN P /\ IdsIn(Q, w) = S \cup {m}
    BY <1>1, <1>4, <1>5 DEF IdsIn
  <1> DEFINE g == [k \in 1 .. n + 1 |-> IF k = 1 THEN m ELSE f[k - 1]]
  <1>7. \A k \in 1 .. n + 1 : k # 1 => k - 1 \in 1 .. n /\ f[k - 1] \in S
    BY <1>3
  <1>8. CountsDown(g, n + 1, S \cup {m})
    <2>1. n + 1 \in Nat /\ g \in [1 .. n + 1 -> S \cup {m}]
      BY <1>3, <1>7
    <2>2. ASSUME NEW k \in 1 .. n + 1, NEW l \in 1 .. n + 1, k < l
          PROVE  g[l] < g[k]
      <3>1. l # 1 /\ g[l] = f[l - 1] /\ f[l - 1] \in S
        BY <1>3, <1>7, <2>2
      <3>2. CASE k = 1
        BY <1>5, <1>6, <3>1, <3>2
      <3>3. CASE k # 1
        <4>1. k - 1 \in 1 .. n /\ l - 1 \in 1 .. n /\ k - 1 < l - 1
          BY <1>3, <2>2, <3>3
        <4>2. PICK i \in 1 .. n, j \in 1 .. n : i = k - 1 /\ j = l - 1
          BY <4>1
        <4>3. f[j] < f[i]
          BY <1>3, <4>1, <4>2
        <4> QED BY <3>1, <3>3, <4>2, <4>3
      <3> QED BY <3>2, <3>3
    <2>3. ASSUME NEW i \in S \cup {m}
          PROVE  \E k \in 1 .. n + 1 : g[k] = i
      <3>1. CASE i = m
        <4>1. 1 \in 1 .. n + 1 /\ g[1] = m
          BY <1>3
        <4> QED BY <3>1, <4>1
      <3>2. CASE i \in S
        <4>1. PICK k \in 1 .. n : f[k] = i
          BY <1>3, <3>2
        <4>2. k + 1 \in 1 .. n + 1 /\ k + 1 # 1 /\ (k + 1) - 1 = k
          BY <1>3
        <4>3. PICK l \in 1 .. n + 1 : l # 1 /\ l - 1 = k
          BY <4>2
        <4>4. g[l] = f[k]
          BY <4>3
        <4> QED BY <4>1, <4>4
      <3> QED BY <3>1, <3>2
    <2> HIDE DEF g
    <2> QED BY <2>1, <2>2, <2>3 DEF CountsDown
  <1> DEFINE new == [id |-> m, visibility |-> x.visibility]
  <1>9. <<new>> \o s = [k \in 1 .. n + 1 |-> Item(Q, g[k])]
    <2>1. \A i \in S : Item(Q, i) = Item(P, i)
      BY <1>4, <1>6 DEF Item
    <2>2. Item(Q, m) = new
      BY <1>4 DEF Item
    <2> DEFINE any == {new} \cup {Item(P, i) : i \in S}
    <2>3. s \in Seq(any) /\ Len(s) = n
      <3>1. \A k \in 1 .. n : Item(P, f[k]) \in any
        BY <1>3
      <3> HIDE DEF any
      <3>2. s \in [1 .. n -> any]
        BY <1>3, <3>1
      <3> QED BY <1>3, <3>2
    <2>4. <<new>> \in Seq(any) /\ Len(<<new>>) = 1 /\ <<new>>[1] = new
      OBVIOUS
    <2> HIDE DEF any, new
    <2>5. PICK h : h = <<new>> \o s
      OBVIOUS
    <2>6. h \in Seq(any) /\ Len(h) = n + 1 /\ DOMAIN h = 1 .. n + 1
      BY <1>3, <2>3, <2>4, <2>5
    <2>7. ASSUME NEW k \in 1 .. n + 1
          PROVE  h[k] = Item(Q, g[k])
      <3>1. CASE k = 1
        <4>1. h[k] = new /\ g[k] = m
          BY <1>3, <2>3, <2>4, <2>5, <3>1
        <4> QED BY <2>2, <4>1
      <3>2. CASE k # 1
        <4>1. PICK j \in 1 .. n : j = k - 1
          BY <1>3, <3>2
        <4>2. h[k] = s[j]
          BY <1>3, <2>3, <2>4, <2>5, <3>2, <4>1
        <4>3. s[j] = Item(P, f[j]) /\ f[j] \in S
          BY <1>3
        <4>4. g[k] = f[j]
          BY <3>2, <4>1
        <4> HIDE DEF g
        <4> QED BY <2>1, <4>2, <4>3, <4>4
      <3> QED BY <3>1, <3>2
    <2> HIDE DEF g
    <2>8. h = [k \in 1 .. n + 1 |-> Item(Q, g[k])]
      BY <2>6, <2>7
    <2> QED BY <2>5, <2>8
  <1> HIDE DEF g
  <1>10. PICK h, b : h = <<new>> \o s /\ b = n + 1
    OBVIOUS
  <1>11. Lists(h, g, b, Q, w)
    BY <1>6, <1>8, <1>9, <1>10 DEF Lists
  <1>12. h = RowsIn(Q, w)
    BY <1>4, <1>11, ListedAreRows
  <1> QED BY <1>1, <1>10, <1>12

\* The items of a list have the numbers it counts, each at one place.
LEMMA ItemsAreCounted ==
    ASSUME NEW P \in Seq(ProjectRow), NEW w, NEW s, NEW f, NEW n, Lists(s, f, n, P, w)
    PROVE  /\ DOMAIN s = 1 .. n
           /\ \A k \in 1 .. n :
                 /\ f[k] \in DOMAIN P /\ s[k] = Item(P, f[k]) /\ s[k].id = f[k]
                 /\ \A l \in 1 .. n : f[k] = f[l] => k = l
  <1>1. PICK S : S = IdsIn(P, w)
    OBVIOUS
  <1>2. /\ n \in Nat /\ f \in [1 .. n -> S] /\ s = [k \in 1 .. n |-> Item(P, f[k])]
        /\ \A k, l \in 1 .. n : k < l => f[l] < f[k]
    BY <1>1 DEF Lists, CountsDown
  <1>3. S \subseteq DOMAIN P /\ S \subseteq Nat
    BY <1>1, IdsAreNumbers DEF IdsIn
  <1>4. ASSUME NEW k \in 1 .. n, NEW l \in 1 .. n, f[k] = f[l]
        PROVE  k = l
    <2>1. f[k] \in Nat
      BY <1>2, <1>3
    <2>2. ~(f[k] < f[l]) /\ ~(f[l] < f[k])
      BY <1>4, <2>1
    <2>3. ~(k < l) /\ ~(l < k)
      BY <1>2, <2>2
    <2> QED BY <1>2, <2>3
  <1>5. \A k \in 1 .. n : s[k] = Item(P, f[k]) /\ s[k].id = f[k]
    BY <1>2 DEF Item
  <1> QED BY <1>2, <1>3, <1>4, <1>5

\* The first of a set of one is its member.
LEMMA NthOfOne ==
    ASSUME NEW p \in Nat
    PROVE  Nth({p}, 1) = p
  <1>1. {j \in {p} : j < p} = {}
    <2>1. ~(p < p)
      OBVIOUS
    <2> QED BY <2>1, Zenon
  <1>2. Below({p}, p) = 0
    BY <1>1, FS_EmptySet DEF Below
  <1>3. Below({p}, p) = 1 - 1
    BY <1>2
  <1>4. IsFiniteSet({p}) /\ {p} \in SUBSET Nat /\ p \in {p}
    BY FS_Singleton
  <1>5. PICK S, k : S = {p} /\ k = 1
    OBVIOUS
  <1>6. Nth(S, k) = p
    BY <1>3, <1>4, <1>5, NthIs
  <1> QED BY <1>5, <1>6

\* A project that changes stays where it is.
LEMMA UpdatedStays ==
    ASSUME NEW P \in Seq(ProjectRow), NEW w, NEW id \in IdsIn(P, w), NEW v \in Visibilities,
           NEW s, s = RowsIn(P, w)
    PROVE  [i \in DOMAIN s |-> IF i = Index(s, id) THEN [id |-> id, visibility |-> v] ELSE s[i]]
              = RowsIn([P EXCEPT ![id].visibility = v], w)
  <1>1. PICK n, f : Lists(s, f, n, P, w)
    BY RowsAreListed
  <1>2. /\ DOMAIN s = 1 .. n
        /\ \A k \in 1 .. n :
              /\ f[k] \in DOMAIN P /\ s[k] = Item(P, f[k]) /\ s[k].id = f[k]
              /\ \A l \in 1 .. n : f[k] = f[l] => k = l
    BY <1>1, ItemsAreCounted
  <1>3. CountsDown(f, n, IdsIn(P, w)) /\ n \in Nat
    BY <1>1 DEF Lists, CountsDown
  <1>4. PICK p \in 1 .. n : f[p] = id
    BY <1>3 DEF CountsDown
  <1>5. {i \in DOMAIN s : s[i].id = id} = {p}
    BY <1>2, <1>4
  <1>6. Index(s, id) = p
    <2>1. Nth({p}, 1) = p
      BY <1>3, NthOfOne
    <2> QED BY <1>5, <2>1 DEF Index
  <1> DEFINE x == [P[id] EXCEPT !.visibility = v]
  <1>7. P[id] \in ProjectRow /\ id \in DOMAIN P
    BY DEF IdsIn
  <1>8. x \in ProjectRow /\ x.owner = P[id].owner /\ x.live = P[id].live /\ x.visibility = v
    BY <1>7 DEF ProjectRow
  <1>9. PICK Q : Q = [P EXCEPT ![id].visibility = v]
    OBVIOUS
  <1>10. Q = [P EXCEPT ![id] = x]
    BY <1>9
  <1> HIDE DEF x
  <1>11. /\ Q \in Seq(ProjectRow) /\ DOMAIN Q = DOMAIN P /\ Q[id] = x
         /\ \A j \in DOMAIN P : j # id => Q[j] = P[j]
    BY <1>7, <1>8, <1>10, ReplacedRow
  <1>12. IdsIn(Q, w) = IdsIn(P, w)
    BY <1>7, <1>8, <1>11 DEF IdsIn
  <1>13. PICK h : h = [i \in DOMAIN s |-> IF i = Index(s, id) THEN [id |-> id, visibility |-> v] ELSE s[i]]
    OBVIOUS
  <1>14. ASSUME NEW k \in 1 .. n
         PROVE  (IF k = p THEN [id |-> id, visibility |-> v] ELSE s[k]) = Item(Q, f[k])
    <2>1. CASE k = p
      BY <1>4, <1>8, <1>11, <2>1 DEF Item
    <2>2. CASE k # p
      <3>1. f[k] # id /\ f[k] \in DOMAIN P /\ s[k] = Item(P, f[k])
        BY <1>2, <1>4, <2>2
      <3> QED BY <1>11, <2>2, <3>1 DEF Item
    <2> QED BY <2>1, <2>2
  <1>15. h = [k \in 1 .. n |-> IF k = p THEN [id |-> id, visibility |-> v] ELSE s[k]]
    BY <1>2, <1>6, <1>13
  <1>16. h = [k \in 1 .. n |-> Item(Q, f[k])]
    BY <1>14, <1>15
  <1>17. Lists(h, f, n, Q, w)
    BY <1>3, <1>12, <1>16 DEF Lists
  <1>18. h = RowsIn(Q, w)
    BY <1>11, <1>17, ListedAreRows
  <1> QED BY <1>9, <1>13, <1>18

\* The members of an interval, but for one; b is how many they are.
AllBut(T, b, n, p) == n \in Nat /\ p \in 1 .. n /\ T = (1 .. n) \ {p} /\ b = n - 1

LEMMA IntervalWithout ==
    ASSUME NEW n, NEW p, NEW T, NEW b, AllBut(T, b, n, p)
    PROVE  /\ IsFiniteSet(T) /\ T \in SUBSET Nat /\ Cardinality(T) = b
           /\ \A k \in 1 .. b : k < p => Nth(T, k) = k
           /\ \A k \in 1 .. b : ~(k < p) => Nth(T, k) = k + 1
  <1>0. n \in Nat /\ p \in 1 .. n /\ T = (1 .. n) \ {p} /\ b = n - 1
    BY DEF AllBut
  <1>1. PICK U : U = 1 .. n
    OBVIOUS
  <1>2. IsFiniteSet(U) /\ Cardinality(U) = n
    BY <1>0, <1>1, FS_Interval
  <1>3. IsFiniteSet(U \ {p}) /\ Cardinality(U \ {p}) = Cardinality(U) - 1
    BY <1>0, <1>1, <1>2, FS_RemoveElement
  <1>4. T = U \ {p} /\ T \in SUBSET Nat
    BY <1>0, <1>1
  <1>5. IsFiniteSet(T) /\ Cardinality(T) = b
    BY <1>0, <1>2, <1>3, <1>4
  <1>6. ASSUME NEW k \in 1 .. b, k < p
        PROVE  Nth(T, k) = k
    <2>1. {j \in T : j < k} = 1 .. k - 1 /\ k \in T
      BY <1>0, <1>6
    <2>2. Cardinality(1 .. k - 1) = k - 1
      BY <1>0, FS_Interval
    <2>3. Below(T, k) = k - 1
      BY <2>1, <2>2 DEF Below
    <2> QED BY <1>4, <1>5, <2>1, <2>3, NthIs
  <1>7. ASSUME NEW k \in 1 .. b, ~(k < p)
        PROVE  Nth(T, k) = k + 1
    <2>1. PICK i : i = k + 1
      OBVIOUS
    <2>2. i \in T
      BY <1>0, <1>7, <2>1
    <2>3. PICK V : V = 1 .. k
      OBVIOUS
    <2>4. {j \in T : j < i} = V \ {p} /\ p \in V
      BY <1>0, <1>7, <2>1, <2>3
    <2>5. IsFiniteSet(V) /\ Cardinality(V) = k
      BY <1>0, <2>3, FS_Interval
    <2>6. Cardinality(V \ {p}) = Cardinality(V) - 1
      BY <2>4, <2>5, FS_RemoveElement
    <2>7. Below(T, i) = k - 1
      BY <2>4, <2>5, <2>6 DEF Below
    <2> QED BY <1>4, <1>5, <2>1, <2>2, <2>7, NthIs
  <1> QED BY <1>4, <1>5, <1>6, <1>7

\* A project that is deleted leaves the list.
LEMMA DeletedLeaves ==
    ASSUME NEW P \in Seq(ProjectRow), NEW w, NEW id \in IdsIn(P, w),
           NEW s, s = RowsIn(P, w)
    PROVE  Without(s, id) = RowsIn([P EXCEPT ![id].live = FALSE], w)
  <1>1. PICK n, f : Lists(s, f, n, P, w)
    BY RowsAreListed
  <1>2. /\ DOMAIN s = 1 .. n
        /\ \A k \in 1 .. n :
              /\ f[k] \in DOMAIN P /\ s[k] = Item(P, f[k]) /\ s[k].id = f[k]
              /\ \A l \in 1 .. n : f[k] = f[l] => k = l
    BY <1>1, ItemsAreCounted
  <1>3. PICK S : S = IdsIn(P, w)
    OBVIOUS
  <1>4. /\ n \in Nat /\ f \in [1 .. n -> S]
        /\ \A k, l \in 1 .. n : k < l => f[l] < f[k]
        /\ \A i \in S : \E k \in 1 .. n : f[k] = i
    BY <1>1, <1>3 DEF Lists, CountsDown
  <1>5. PICK p \in 1 .. n : f[p] = id
    BY <1>3, <1>4
  <1>6. PICK T : T = (1 .. n) \ {p}
    OBVIOUS
  <1>7. {i \in DOMAIN s : s[i].id # id} = T
    BY <1>2, <1>5, <1>6
  <1>8. PICK b \in Nat : b = n - 1
    BY <1>4
  <1>9. /\ Cardinality(T) = b
        /\ \A k \in 1 .. b : k < p => Nth(T, k) = k
        /\ \A k \in 1 .. b : ~(k < p) => Nth(T, k) = k + 1
    <2>1. AllBut(T, b, n, p)
      BY <1>4, <1>6, <1>8 DEF AllBut
    <2> QED BY <2>1, IntervalWithout
  <1> DEFINE at == [k \in 1 .. b |-> IF k < p THEN k ELSE k + 1]
             g == [k \in 1 .. b |-> f[at[k]]]
  <1>10. \A k \in 1 .. b : at[k] \in 1 .. n /\ at[k] # p /\ Nth(T, k) = at[k]
    BY <1>4, <1>8, <1>9
  <1>11. \A k, l \in 1 .. b : k < l => at[k] < at[l]
    BY <1>8
  <1>12. \A l \in 1 .. n : l # p => \E k \in 1 .. b : at[k] = l
    <2> SUFFICES ASSUME NEW l \in 1 .. n, l # p PROVE \E k \in 1 .. b : at[k] = l
      OBVIOUS
    <2>1. CASE l < p
      <3>1. l \in 1 .. b /\ at[l] = l
        BY <1>4, <1>8, <2>1
      <3> QED BY <3>1
    <2>2. CASE p < l
      <3>1. l - 1 \in 1 .. b /\ at[l - 1] = l
        BY <1>4, <1>8, <2>2
      <3> QED BY <3>1
    <2> QED BY <1>4, <2>1, <2>2
  <1> HIDE DEF at
  <1>13. Without(s, id) = [k \in 1 .. b |-> s[at[k]]]
    <2>1. Without(s, id) = [k \in 1 .. b |-> s[Nth(T, k)]]
      BY <1>7, <1>9 DEF Without
    <2> QED BY <1>10, <2>1
  <1> DEFINE x == [P[id] EXCEPT !.live = FALSE]
  <1>14. P[id] \in ProjectRow /\ id \in DOMAIN P
    BY DEF IdsIn
  <1>15. x \in ProjectRow /\ x.live = FALSE
    BY <1>14 DEF ProjectRow
  <1>16. PICK Q : Q = [P EXCEPT ![id].live = FALSE]
    OBVIOUS
  <1>17. Q = [P EXCEPT ![id] = x]
    BY <1>16
  <1> HIDE DEF x
  <1>18. /\ Q \in Seq(ProjectRow) /\ DOMAIN Q = DOMAIN P /\ Q[id] = x
         /\ \A j \in DOMAIN P : j # id => Q[j] = P[j]
    BY <1>14, <1>15, <1>17, ReplacedRow
  <1>19. PICK R : R = IdsIn(Q, w)
    OBVIOUS
  <1>20. R = S \ {id}
    BY <1>3, <1>15, <1>18, <1>19 DEF IdsIn
  <1>21. CountsDown(g, b, R)
    <2>1. \A k \in 1 .. b : g[k] = f[at[k]] /\ f[at[k]] \in S /\ f[at[k]] # id
      BY <1>2, <1>4, <1>5, <1>10
    <2>2. g \in [1 .. b -> R]
      BY <1>20, <2>1
    <2>3. ASSUME NEW k \in 1 .. b, NEW l \in 1 .. b, k < l
          PROVE  g[l] < g[k]
      BY <1>4, <1>10, <1>11, <2>1, <2>3
    <2>4. ASSUME NEW i \in R
          PROVE  \E k \in 1 .. b : g[k] = i
      <3>1. PICK l \in 1 .. n : f[l] = i
        BY <1>4, <1>20
      <3>2. l # p
        BY <1>5, <1>20, <3>1
      <3>3. PICK k \in 1 .. b : at[k] = l
        BY <1>12, <3>2
      <3> QED BY <2>1, <3>1, <3>3
    <2> HIDE DEF g
    <2> QED BY <2>2, <2>3, <2>4 DEF CountsDown
  <1>22. PICK h : h = Without(s, id)
    OBVIOUS
  <1>23. h = [k \in 1 .. b |-> Item(Q, g[k])]
    <2>1. ASSUME NEW k \in 1 .. b
          PROVE  s[at[k]] = Item(Q, g[k])
      <3>1. PICK l \in 1 .. n : l = at[k] /\ l # p
        BY <1>10
      <3>2. s[l] = Item(P, f[l]) /\ f[l] \in DOMAIN P /\ f[l] # id
        BY <1>2, <1>5, <3>1
      <3>3. g[k] = f[l]
        BY <3>1
      <3> HIDE DEF g
      <3> QED BY <1>18, <3>1, <3>2, <3>3 DEF Item
    <2> HIDE DEF g
    <2> QED BY <1>13, <1>22, <2>1
  <1> HIDE DEF g
  <1>24. Lists(h, g, b, Q, w)
    BY <1>19, <1>21, <1>23 DEF Lists
  <1>25. h = RowsIn(Q, w)
    BY <1>18, <1>24, ListedAreRows
  <1> QED BY <1>16, <1>22, <1>25

\* What leaves the projects of w as they are leaves their list.
LEMMA OthersLeave ==
    ASSUME NEW P \in Seq(ProjectRow), NEW Q, NEW w, IdsIn(Q, w) = IdsIn(P, w),
           \A i \in IdsIn(P, w) : Q[i].visibility = P[i].visibility
    PROVE  RowsIn(Q, w) = RowsIn(P, w)
  <1>1. PICK S, n : S = IdsIn(P, w) /\ n = Cardinality(S)
    OBVIOUS
  <1>2. S \in SUBSET Nat /\ IsFiniteSet(S) /\ n \in Nat
    BY <1>1, IdsAreNumbers, FS_CardinalityType
  <1>3. ASSUME NEW k \in 1 .. n
        PROVE  Item(Q, Nth(S, n + 1 - k)) = Item(P, Nth(S, n + 1 - k))
    <2>1. PICK m \in 1 .. n : m = n + 1 - k
      BY <1>2
    <2>2. Nth(S, m) \in S
      BY <1>1, <1>2, NthOf
    <2> QED BY <1>1, <2>1, <2>2 DEF Item
  <1>4. /\ RowsIn(P, w) = [k \in 1 .. n |-> Item(P, Nth(S, n + 1 - k))]
        /\ RowsIn(Q, w) = [k \in 1 .. n |-> Item(Q, Nth(S, n + 1 - k))]
    BY <1>1 DEF RowsIn
  <1> QED BY <1>3, <1>4

-----------------------------------------------------------------------------
(* The dashboard's list is current.                                         *)

\* The fields of the slice, whatever they hold.
SliceRecord(d) ==
    d \in [user : {d.user}, status : {d.status}, items : {d.items}, beyond : {d.beyond}]

\* What an answer brings makes e of the slice d.
Brings(e, d, r) ==
    /\ e.status = "succeeded" /\ e.user = d.user /\ e.beyond = d.beyond
    /\ r.kind = "fetch" => e.items = r.row
    /\ r.kind = "create" => e.items = <<[id |-> r.id, visibility |-> r.data]>> \o d.items
    /\ r.kind = "update" =>
          e.items = [i \in DOMAIN d.items |->
                       IF i = Index(d.items, r.id) THEN [id |-> r.id, visibility |-> r.data]
                       ELSE d.items[i]]
    /\ r.kind = "delete" => e.items = Without(d.items, r.id)

\* What the slice makes of an answer that brings something.
LEMMA ReducedBy ==
    ASSUME NEW d, SliceRecord(d), NEW r, r.at = "ok", r.kind \in SliceKinds
    PROVE  Brings(Reduced(d, r), d, r)
  <1>1. \A x, items : x = [d EXCEPT !.status = "succeeded", !.items = items] =>
           x.status = "succeeded" /\ x.user = d.user /\ x.items = items /\ x.beyond = d.beyond
    BY DEF SliceRecord
  <1>2. CASE r.kind = "fetch"
    <2>1. Reduced(d, r) = [d EXCEPT !.status = "succeeded", !.items = r.row]
      BY <1>2 DEF Reduced
    <2> QED BY <1>1, <1>2, <2>1 DEF Brings
  <1>3. CASE r.kind = "create"
    <2>1. PICK items : items = <<[id |-> r.id, visibility |-> r.data]>> \o d.items
      OBVIOUS
    <2>2. Reduced(d, r) = [d EXCEPT !.status = "succeeded", !.items = items]
      BY <1>3, <2>1 DEF Reduced
    <2>3. PICK e : e = Reduced(d, r)
      OBVIOUS
    <2>4. /\ e.status = "succeeded" /\ e.user = d.user /\ e.beyond = d.beyond
          /\ e.items = items
      BY <1>1, <2>2, <2>3
    <2> QED BY <1>3, <2>1, <2>3, <2>4 DEF Brings
  <1>4. CASE r.kind = "update"
    <2>1. PICK items : items = [i \in DOMAIN d.items |->
                       IF i = Index(d.items, r.id) THEN [id |-> r.id, visibility |-> r.data]
                       ELSE d.items[i]]
      OBVIOUS
    <2>2. Reduced(d, r) = [d EXCEPT !.status = "succeeded", !.items = items]
      BY <1>4, <2>1 DEF Reduced
    <2>3. PICK e : e = Reduced(d, r)
      OBVIOUS
    <2>4. /\ e.status = "succeeded" /\ e.user = d.user /\ e.beyond = d.beyond
          /\ e.items = items
      BY <1>1, <2>2, <2>3
    <2> QED BY <1>4, <2>1, <2>3, <2>4 DEF Brings
  <1>5. CASE r.kind = "delete"
    <2>1. PICK items : items = Without(d.items, r.id)
      OBVIOUS
    <2>2. Reduced(d, r) = [d EXCEPT !.status = "succeeded", !.items = items]
      BY <1>5, <2>1 DEF Reduced
    <2>3. PICK e : e = Reduced(d, r)
      OBVIOUS
    <2>4. /\ e.status = "succeeded" /\ e.user = d.user /\ e.beyond = d.beyond
          /\ e.items = items
      BY <1>1, <2>2, <2>3
    <2> QED BY <1>5, <2>1, <2>3, <2>4 DEF Brings
  <1> QED BY <1>2, <1>3, <1>4, <1>5 DEF SliceKinds

\* The lists other tabs fetch are theirs.
PagesListNothing == \A r \in requests : r.by = "slice" \/ r.kind # "fetch"

\* The slice d, its requests R and the rows of its user, as long as no two of
\* its requests were under way together and none has failed.
SliceOK(R, d, rows) ==
    /\ d.status \in {"idle", "loading", "succeeded"}
    /\ d.status = "idle" => R = {} /\ d.items = <<>>
    /\ d.status = "loading" => R # {}
    /\ d.status = "succeeded" /\ (\A r \in R : r.at \notin {"ok", "lost"}) => d.items = rows
    /\ \A r \in R :
          /\ R = {r} /\ r.user = d.user
          /\ r.kind = "fetch" <=> d.status = "loading"
          /\ r.kind \in {"update", "delete"} => r.id \notin d.beyond
          /\ r.at = "ok" => Reduced(d, r).items = rows

\* The inductive invariant of the list.
ListInv ==
    /\ PagesListNothing
    /\ ~crossed => SliceOK(OfSlice, dashboard, RowsFor(dashboard))

\* The request is on its way, lost or refused: the list is what it was.
LEMMA SliceMoves ==
    ASSUME NEW R, NEW d, NEW rows, SliceOK(R, d, rows), NEW r \in R, NEW q,
           q.user = r.user, q.kind = r.kind, q.id = r.id, q.at # "ok",
           q.at = "lost" \/ r.at \notin {"ok", "lost"}
    PROVE  SliceOK({q}, d, rows)
  <1>1. R = {r}
    BY DEF SliceOK
  <1> QED BY <1>1 DEF SliceOK

\* The request is answered: what the slice makes of it are the rows.
LEMMA SliceDone ==
    ASSUME NEW R, NEW d, NEW rows, SliceOK(R, d, rows), NEW r \in R, NEW q, NEW new,
           q.user = r.user, q.kind = r.kind, q.kind \in {"update", "delete"} => q.id = r.id,
           q.at = "ok", Reduced(d, q).items = new
    PROVE  SliceOK({q}, d, new)
  BY DEF SliceOK

\* The list the slice waits for is made, and what is beyond its page is known.
LEMMA SliceListed ==
    ASSUME NEW R, NEW d, NEW rows, SliceOK(R, d, rows), NEW r \in R, r.kind = "fetch",
           NEW e, e.status = d.status, e.user = d.user, NEW q, NEW new,
           q.user = r.user, q.kind = r.kind, q.at = "ok", Reduced(e, q).items = new
    PROVE  SliceOK({q}, e, new)
  BY DEF SliceOK

\* What the slice tells of a request.
Alike(r, q) ==
    /\ q.user = r.user /\ q.kind = r.kind /\ q.id = r.id /\ q.data = r.data
    /\ q.at = r.at /\ q.row = r.row

\* A request that only takes note of something is the same to the slice.
LEMMA SliceSees ==
    ASSUME NEW R, NEW d, NEW rows, SliceOK(R, d, rows), NEW r \in R, NEW q, Alike(r, q)
    PROVE  SliceOK({q}, d, rows)
  <1>1. R = {r}
    BY DEF SliceOK
  <1>2. Reduced(d, q) = Reduced(d, r)
    BY DEF Reduced, Alike
  <1> QED BY <1>1, <1>2 DEF SliceOK, Alike

\* A request is sent, and nothing else is under way.
LEMMA SliceSendsOne ==
    ASSUME NEW d, NEW rows, SliceOK({}, d, rows), NEW q,
           SliceRecord(d),
           q.user = d.user, q.at \notin {"ok", "lost"},
           q.kind \in {"update", "delete"} => q.id \notin d.beyond
    PROVE  /\ q.kind = "fetch" /\ d.status = "idle" =>
                 SliceOK({q}, [d EXCEPT !.status = "loading"], rows)
           /\ q.kind # "fetch" /\ d.status # "idle" => SliceOK({q}, d, rows)
  <1>1. ASSUME NEW e, e = [d EXCEPT !.status = "loading"], q.kind = "fetch"
        PROVE  SliceOK({q}, e, rows)
    <2>1. e.status = "loading" /\ e.user = d.user /\ e.beyond = d.beyond
      BY <1>1 DEF SliceRecord
    <2> QED BY <1>1, <2>1 DEF SliceOK
  <1>2. ASSUME q.kind # "fetch", d.status # "idle"
        PROVE  SliceOK({q}, d, rows)
    <2>1. d.status = "succeeded" /\ d.items = rows
      BY <1>2 DEF SliceOK
    <2> QED BY <1>2, <2>1 DEF SliceOK
  <1> QED BY <1>1, <1>2

\* An answer that brings something has arrived.
LEMMA SliceDelivered ==
    ASSUME NEW R, NEW d, NEW rows, SliceOK(R, d, rows), NEW r \in R,
           SliceRecord(d),
           r.at = "ok", r.kind \in SliceKinds, NEW e, e = Reduced(d, r)
    PROVE  SliceOK({}, e, rows) /\ e.user = d.user /\ e.beyond = d.beyond
  <1>1. e.status = "succeeded" /\ e.user = d.user /\ e.beyond = d.beyond
    <2>1. Brings(e, d, r)
      BY ReducedBy
    <2> QED BY <2>1 DEF Brings
  <1>2. e.items = rows
    BY DEF SliceOK
  <1> QED BY <1>1, <1>2 DEF SliceOK

\* A statement on the projects is what the slice makes of its answer.
LEMMA AppliedIsListed ==
    ASSUME TablesOK, NEW r, RequestOK(r), ClimbOK(r), r.kind \in {"create", "update", "delete"},
           r.at = "cleared" \/ r.kind = "create", Outcome(r) = "ok", Write(r),
           NEW d, SliceRecord(d), d.user = r.user, d.beyond \in SUBSET DOMAIN projects,
           r.kind \in {"update", "delete"} => r.id \notin d.beyond,
           d.items = RowsFor(d),
           NEW q, q.kind = r.kind, q.data = r.data, q.at = "ok",
           q.id = (IF r.kind = "create" THEN Len(projects) + 1 ELSE r.id)
    PROVE  Reduced(d, q).items = RowsFor(d)'
  <1>1. PICK P, s : P = projects /\ s = d.items
    OBVIOUS
  <1>2. P \in Seq(ProjectRow) /\ s = RowsIn(P, d) /\ RowsFor(d)' = RowsIn(projects', d)
    BY <1>1, RowsAreIn DEF TablesOK
  <1>3. PICK e : e = Reduced(d, q)
    OBVIOUS
  <1>4. Brings(e, d, q)
    <2>1. q.kind \in SliceKinds
      BY DEF SliceKinds
    <2> QED BY <1>3, <2>1, ReducedBy
  <1>5. CASE r.kind = "create"
    <2>1. PICK x : x = [owner |-> r.user, visibility |-> r.data, live |-> TRUE]
      OBVIOUS
    <2>2. x \in ProjectRow /\ x.live /\ x.owner = d.user /\ x.visibility = r.data
      BY <1>1, <1>5, <2>1 DEF RequestOK, ProjectRow
    <2>3. projects' = Append(P, x)
      BY <1>1, <1>5, <2>1 DEF Write, InsertProject
    <2>4. e.items = <<[id |-> q.id, visibility |-> q.data]>> \o s
      BY <1>1, <1>5, <1>4 DEF Brings
    <2>5. q.id = Len(P) + 1 /\ q.data = x.visibility
      BY <1>1, <1>5, <2>2
    <2>6. <<[id |-> Len(P) + 1, visibility |-> x.visibility]>> \o RowsIn(P, d)
             = RowsIn(Append(P, x), d)
      <3>1. d.beyond \in SUBSET DOMAIN P /\ d.user = x.owner
        BY <1>1, <2>2
      <3> QED BY <1>2, <2>2, <3>1, CreatedComesFirst
    <2> QED BY <1>2, <1>3, <2>2, <2>3, <2>4, <2>5, <2>6
  <1>6. r.kind # "create" => r.id \in IdsIn(P, d) /\ q.id = r.id
    <2> SUFFICES ASSUME r.kind # "create" PROVE r.id \in IdsIn(P, d) /\ q.id = r.id
      OBVIOUS
    <2>1. r.kind \in OnProject /\ r.kind \notin OnArchitecture /\ r.kind \notin OnRun
      BY DEF OnProject, OnArchitecture, OnRun
    <2>2. projects[r.id].live
      BY <2>1 DEF Outcome
    <2>3. projects[r.id].owner = r.user
      BY <2>1 DEF ClimbOK, Owns, ProjectOf
    <2>4. r.id \in DOMAIN projects
      BY <2>1 DEF RequestOK
    <2> QED BY <1>1, <2>2, <2>3, <2>4 DEF IdsIn
  <1>7. CASE r.kind = "update"
    <2>1. PICK id, v : id = r.id /\ v = r.data
      OBVIOUS
    <2>2. v \in Visibilities /\ id \in IdsIn(P, d) /\ q.id = id /\ q.data = v
      BY <1>6, <1>7, <2>1 DEF RequestOK
    <2>3. projects' = [P EXCEPT ![id].visibility = v]
      BY <1>1, <1>7, <2>1 DEF Write, UpdateProject
    <2>4. e.items =
             [i \in DOMAIN s |-> IF i = Index(s, id) THEN [id |-> id, visibility |-> v] ELSE s[i]]
      BY <1>1, <1>7, <1>4, <2>2 DEF Brings
    <2>5. [i \in DOMAIN s |-> IF i = Index(s, id) THEN [id |-> id, visibility |-> v] ELSE s[i]]
             = RowsIn([P EXCEPT ![id].visibility = v], d)
      BY <1>2, <2>2, UpdatedStays
    <2>6. e.items = RowsIn([P EXCEPT ![id].visibility = v], d)
      BY <2>4, <2>5, Zenon
    <2> QED BY <1>2, <1>3, <2>3, <2>6, Zenon
  <1>8. CASE r.kind = "delete"
    <2>1. PICK id : id = r.id
      OBVIOUS
    <2>2. id \in IdsIn(P, d) /\ q.id = id
      BY <1>6, <1>8, <2>1
    <2>3. projects' = [P EXCEPT ![id].live = FALSE]
      BY <1>1, <1>8, <2>1 DEF Write, DeleteProject
    <2>4. e.items = Without(s, id)
      BY <1>1, <1>8, <1>4, <2>2 DEF Brings
    <2>5. Without(s, id) = RowsIn([P EXCEPT ![id].live = FALSE], d)
      BY <1>2, <2>2, DeletedLeaves
    <2>6. e.items = RowsIn([P EXCEPT ![id].live = FALSE], d)
      BY <2>4, <2>5, Zenon
    <2> QED BY <1>2, <1>3, <2>3, <2>6, Zenon
  <1> QED BY <1>3, <1>5, <1>7, <1>8

\* Who asks, and for what, stays with a request that moves on.
LEMMA PagesKept ==
    ASSUME PagesListNothing, NEW r \in requests, NEW q, q.by = r.by, q.kind = r.kind,
           requests' = (requests \ {r}) \cup {q}
    PROVE  PagesListNothing'
  BY DEF PagesListNothing

\* The requests of the slice, when one request moves on.
LEMMA OfSliceMoves ==
    ASSUME NEW r \in requests, NEW q, q.by = r.by, requests' = (requests \ {r}) \cup {q}
    PROVE  /\ r.by = "slice" => r \in OfSlice /\ OfSlice' = (OfSlice \ {r}) \cup {q}
           /\ r.by # "slice" => OfSlice' = OfSlice
  BY DEF OfSlice

\* A request moves on and the projects stay: its answer is not a list.
LEMMA ListMoves ==
    ASSUME ListInv, UNCHANGED <<projects, dashboard, crossed>>,
           NEW r \in requests, NEW q, Same(r, q), requests' = (requests \ {r}) \cup {q},
           r.by = "slice" => q.at # "ok" /\ (q.at = "lost" \/ r.at \notin {"ok", "lost"})
    PROVE  ListInv'
  <1>1. q.by = r.by /\ q.kind = r.kind /\ q.user = r.user /\ q.id = r.id
    BY DEF Same
  <1>2. PagesListNothing'
    BY <1>1, PagesKept DEF ListInv
  <1>3. PICK rows : rows = RowsFor(dashboard)
    OBVIOUS
  <1>4. rows = RowsFor(dashboard)'
    <2>1. dashboard'.user = dashboard.user /\ projects' = projects
      OBVIOUS
    <2> QED BY <1>3, <2>1 DEF RowsFor, RowsOf, IdsOf, View
  <1>5. ASSUME ~crossed PROVE SliceOK(OfSlice', dashboard, rows)
    <2>1. SliceOK(OfSlice, dashboard, rows)
      BY <1>3, <1>5 DEF ListInv
    <2>2. CASE r.by # "slice"
      BY <1>1, <2>1, <2>2, OfSliceMoves
    <2>3. CASE r.by = "slice"
      <3>1. r \in OfSlice /\ OfSlice' = (OfSlice \ {r}) \cup {q}
        BY <1>1, <2>3, OfSliceMoves
      <3>2. OfSlice = {r}
        BY <2>1, <3>1 DEF SliceOK
      <3>3. OfSlice' = {q}
        BY <3>1, <3>2
      <3>4. SliceOK({q}, dashboard, rows)
        BY <1>1, <2>1, <2>3, <3>1, SliceMoves
      <3> QED BY <3>3, <3>4
    <2> QED BY <2>2, <2>3
  <1>6. ~crossed' => SliceOK(OfSlice', dashboard', RowsFor(dashboard)')
    BY <1>4, <1>5
  <1>7. SliceOK(OfSlice, dashboard, RowsFor(dashboard))'
           <=> SliceOK(OfSlice', dashboard', RowsFor(dashboard)')
    BY DEF SliceOK, Reduced
  <1> QED BY <1>2, <1>6, <1>7 DEF ListInv

\* The rows of a user stay while the projects do.
LEMMA RowsStay ==
    ASSUME UNCHANGED projects, NEW w
    PROVE  RowsFor(w)' = RowsFor(w)
  BY DEF RowsFor, RowsOf, IdsOf, View

\* What the invariant of the list says after a step.
LEMMA ListNext ==
    ASSUME PagesListNothing', NEW R, R = OfSlice', NEW d, d = dashboard',
           NEW rows, rows = RowsFor(d)', crossed' \/ SliceOK(R, d, rows)
    PROVE  ListInv'
  <1>1. SliceOK(OfSlice, dashboard, RowsFor(dashboard))'
           <=> SliceOK(OfSlice', dashboard', RowsFor(dashboard)')
    BY DEF SliceOK, Reduced
  <1>2. RowsFor(dashboard)' = rows
    BY DEF RowsFor, RowsOf, IdsOf, View
  <1> QED BY <1>1, <1>2 DEF ListInv

\* A page asks.
LEMMA ListAsked ==
    ASSUME ListInv, NEW user, NEW kind, NEW id, NEW data, Ask(user, kind, id, data),
           kind # "fetch"
    PROVE  ListInv'
  <1>1. PICK q : q = Request(user, "page", kind, id, data)
    OBVIOUS
  <1>2. q.by = "page" /\ q.kind = kind
    BY <1>1 DEF Request
  <1>3. /\ requests' = requests \cup {q} /\ projects' = projects /\ dashboard' = dashboard
        /\ crossed' = crossed
    BY <1>1 DEF Ask
  <1>4. PagesListNothing'
    BY <1>2, <1>3 DEF ListInv, PagesListNothing
  <1>5. OfSlice' = OfSlice
    BY <1>2, <1>3 DEF OfSlice
  <1>6. RowsFor(dashboard)' = RowsFor(dashboard)
    BY <1>3 DEF RowsFor, RowsOf, IdsOf, View
  <1>7. PICK R, d, rows : R = OfSlice' /\ d = dashboard' /\ rows = RowsFor(d)'
    OBVIOUS
  <1>8. rows = RowsFor(dashboard)
    BY <1>3, <1>7 DEF RowsFor, RowsOf, IdsOf, View
  <1>9. crossed' \/ SliceOK(R, d, rows)
    BY <1>3, <1>5, <1>7, <1>8 DEF ListInv
  <1> QED BY <1>4, <1>7, <1>9, ListNext

\* The slice asks: overlapping another request, or as the only one.
LEMMA ListSends ==
    ASSUME ListInv, SliceRecord(dashboard), NEW kind, NEW id, NEW data, SendBySlice(kind, id, data),
           UNCHANGED projects,
           \/ kind = "fetch" /\ dashboard.status = "idle"
                /\ dashboard' = [dashboard EXCEPT !.status = "loading"]
           \/ kind # "fetch" /\ (~crossed /\ OfSlice = {} => dashboard.status # "idle")
                /\ dashboard' = dashboard,
           ~crossed /\ OfSlice = {} /\ kind \in {"update", "delete"} => id \notin dashboard.beyond
    PROVE  ListInv'
  <1>1. PICK q : q = Request(dashboard.user, "slice", kind, id, data)
    OBVIOUS
  <1>2. /\ q.by = "slice" /\ q.kind = kind /\ q.id = id /\ q.user = dashboard.user
        /\ q.at = Level(kind)
    BY <1>1 DEF Request
  <1>3. q.at \notin {"ok", "lost"}
    BY <1>2, Levels
  <1>4. requests' = requests \cup {q} /\ crossed' = (crossed \/ OfSlice # {})
    BY <1>1 DEF SendBySlice
  <1>5. PagesListNothing'
    BY <1>2, <1>4 DEF ListInv, PagesListNothing
  <1>6. OfSlice' = OfSlice \cup {q}
    BY <1>2, <1>4 DEF OfSlice
  <1>7. PICK R, d, rows : R = OfSlice' /\ d = dashboard' /\ rows = RowsFor(d)'
    OBVIOUS
  <1>8. d.user = dashboard.user /\ d.beyond = dashboard.beyond
    BY <1>7 DEF SliceRecord
  <1>9. rows = RowsFor(dashboard)
    <2>1. rows = RowsFor(d)
      BY <1>7, RowsStay
    <2> QED BY <1>8, <2>1 DEF RowsFor
  <1>10. ASSUME ~crossed, OfSlice = {} PROVE SliceOK(R, d, rows)
    <2>1. SliceOK({}, dashboard, rows)
      BY <1>9, <1>10 DEF ListInv
    <2>2. R = {q}
      BY <1>6, <1>7, <1>10
    <2>3. \/ q.kind = "fetch" /\ dashboard.status = "idle"
               /\ d = [dashboard EXCEPT !.status = "loading"]
          \/ q.kind # "fetch" /\ dashboard.status # "idle" /\ d = dashboard
      BY <1>2, <1>7, <1>10
    <2>4. /\ q.kind = "fetch" /\ dashboard.status = "idle" =>
                 SliceOK({q}, [dashboard EXCEPT !.status = "loading"], rows)
          /\ q.kind # "fetch" /\ dashboard.status # "idle" => SliceOK({q}, dashboard, rows)
      BY <1>2, <1>3, <1>10, <2>1, SliceSendsOne
    <2>5. SliceOK({q}, d, rows)
      BY <2>3, <2>4, Zenon
    <2> QED BY <2>2, <2>5
  <1>11. crossed' \/ SliceOK(R, d, rows)
    BY <1>4, <1>10
  <1> QED BY <1>5, <1>7, <1>11, ListNext

\* A list is made while the slice waits for it.
LEMMA ListIsMade ==
    ASSUME ListInv, SliceRecord(dashboard), NEW r \in requests, RequestInv(r), List(r)
    PROVE  ListInv'
  <1>1. PICK page, rows, B :
           page = FirstPage(IdsOf(r.user)) /\ rows = RowsOf(page) /\ B = IdsOf(r.user) \ page
    OBVIOUS
  <1>2. PICK q : q = [r EXCEPT !.at = "ok", !.row = rows]
    OBVIOUS
  <1>3. /\ requests' = (requests \ {r}) \cup {q} /\ r.kind = "fetch"
        /\ projects' = projects /\ dashboard' = [dashboard EXCEPT !.beyond = B]
        /\ crossed' = crossed
    BY <1>1, <1>2 DEF List, Becomes
  <1>4. q.user = r.user /\ q.kind = r.kind /\ q.by = r.by /\ q.at = "ok" /\ q.row = rows
    BY <1>2 DEF RequestInv, RequestOK, Shaped
  <1>5. PagesListNothing'
    BY <1>3, <1>4, PagesKept DEF ListInv
  <1>6. r.by = "slice" /\ r.kind \in SliceKinds
    BY <1>3 DEF ListInv, PagesListNothing, SliceKinds
  <1>7. r \in OfSlice /\ OfSlice' = (OfSlice \ {r}) \cup {q}
    BY <1>3, <1>4, <1>6, OfSliceMoves
  <1>8. PICK R, d, new : R = OfSlice' /\ d = dashboard' /\ new = RowsFor(d)'
    OBVIOUS
  <1>9. /\ SliceRecord(d) /\ d.status = dashboard.status /\ d.user = dashboard.user
        /\ d.beyond = B
    BY <1>3, <1>8 DEF SliceRecord
  <1>10. ASSUME ~crossed PROVE SliceOK(R, d, new)
    <2>1. PICK old : SliceOK(OfSlice, dashboard, old)
      BY <1>10 DEF ListInv
    <2>2. OfSlice = {r} /\ r.user = d.user
      BY <1>7, <1>9, <2>1 DEF SliceOK
    <2>3. rows = new
      <3>1. new = RowsFor(d)
        BY <1>3, <1>8, RowsStay
      <3>2. IdsOf(d.user) \ d.beyond = page
        BY <1>1, <1>9, <2>2 DEF FirstPage
      <3> QED BY <1>1, <3>1, <3>2 DEF RowsFor
    <2>4. PICK e : e = Reduced(d, q)
      OBVIOUS
    <2>5. Brings(e, d, q)
      BY <1>4, <1>6, <1>9, <2>4, ReducedBy
    <2>6. e.items = new
      BY <1>3, <1>4, <2>3, <2>5 DEF Brings
    <2>7. SliceOK({q}, d, new)
      BY <1>3, <1>4, <1>7, <1>9, <2>1, <2>4, <2>6, SliceListed
    <2>8. R = {q}
      BY <1>7, <1>8, <2>2
    <2> QED BY <2>7, <2>8
  <1>11. crossed' \/ SliceOK(R, d, new)
    BY <1>3, <1>10
  <1> QED BY <1>5, <1>8, <1>11, ListNext

\* An answer arrives.
LEMMA ListArrives ==
    ASSUME ListInv, SliceRecord(dashboard), NEW r \in requests, RequestInv(r), Deliver(r)
    PROVE  ListInv'
  <1>1. requests' = requests \ {r} /\ projects' = projects
    BY DEF Deliver
  <1>2. PagesListNothing'
    BY <1>1 DEF ListInv, PagesListNothing
  <1>3. PICK R, d, rows : R = OfSlice' /\ d = dashboard' /\ rows = RowsFor(d)'
    OBVIOUS
  <1>4. CASE r.by # "slice"
    <2>1. dashboard' = dashboard /\ (crossed => crossed')
      BY <1>4 DEF Deliver
    <2>2. OfSlice' = OfSlice
      BY <1>1, <1>4 DEF OfSlice
    <2>3. rows = RowsFor(dashboard)
      BY <1>1, <1>3, <2>1, RowsStay
    <2>4. crossed' \/ SliceOK(R, d, rows)
      BY <1>3, <2>1, <2>2, <2>3 DEF ListInv
    <2> QED BY <1>2, <1>3, <2>4, ListNext
  <1>5. CASE r.by = "slice" /\ (crossed \/ r.at # "ok")
    <2>1. crossed'
      BY <1>5 DEF Deliver
    <2> QED BY <1>2, <1>3, <2>1, ListNext
  <1>6. CASE r.by = "slice" /\ ~crossed /\ r.at = "ok"
    <2>1. d = Reduced(dashboard, r) /\ r \in OfSlice
      BY <1>3, <1>6 DEF Deliver, OfSlice
    <2>2. PICK old : old = RowsFor(dashboard)
      OBVIOUS
    <2>3. SliceOK(OfSlice, dashboard, old)
      BY <1>6, <2>2 DEF ListInv
    <2>4. r.kind \in SliceKinds
      BY <1>6 DEF RequestInv, RequestOK
    <2>5. SliceOK({}, d, old) /\ d.user = dashboard.user /\ d.beyond = dashboard.beyond
      BY <1>6, <2>1, <2>3, <2>4, SliceDelivered
    <2>6. OfSlice = {r}
      BY <2>1, <2>3 DEF SliceOK
    <2>7. R = {}
      BY <1>1, <1>3, <2>6 DEF OfSlice
    <2>8. rows = old
      <3>1. rows = RowsFor(d)
        BY <1>1, <1>3, RowsStay
      <3> QED BY <2>2, <2>5, <3>1 DEF RowsFor
    <2>9. SliceOK(R, d, rows)
      BY <2>5, <2>7, <2>8
    <2> QED BY <1>2, <1>3, <2>9, ListNext
  <1> QED BY <1>4, <1>5, <1>6

\* What takes note of how its project stands is otherwise the same.
LEMMA NotedAlike ==
    ASSUME NEW r, Shaped(r), NEW q, q = Noted(r)
    PROVE  Alike(r, q) /\ q.by = r.by
  <1>1. PICK more : more = Standing(r.kind, r.id, projects', architectures', runs')
    OBVIOUS
  <1>2. CASE Level(r.kind) = "table"
    BY <1>2 DEF Noted, Alike
  <1>3. CASE Level(r.kind) # "table"
    <2>1. q = [r EXCEPT !.was = @ \cup more]
      BY <1>1, <1>3 DEF Noted
    <2> QED BY <2>1 DEF Shaped, Alike
  <1> QED BY <1>2, <1>3

\* What other users write, and what is written below the projects, leaves the
\* list alone.
LEMMA OthersWrite ==
    ASSUME TablesOK, NEW r, RequestOK(r), ClimbOK(r), Write(r),
           r.at = "cleared" \/ r.kind = "create",
           r.kind \in {"create", "update", "delete", "createArchitecture", "patch",
                       "deleteArchitecture", "createRun"},
           NEW d, r.kind \in ProjectWrites => r.user # d.user
    PROVE  RowsFor(d)' = RowsFor(d)
  <1>0. /\ projects \in Seq(ProjectRow)
        /\ RowsFor(d) = RowsIn(projects, d) /\ RowsFor(d)' = RowsIn(projects', d)
    BY RowsAreIn DEF TablesOK
  <1>1. CASE r.kind \notin ProjectWrites
    <2>1. projects' = projects
      BY <1>1 DEF ProjectWrites, Write, InsertArchitecture, UpdateArchitecture, DeleteArchitecture,
                  InsertRun
    <2> QED BY <1>0, <2>1
  <1>2. CASE r.kind = "create"
    <2>1. PICK x : x = [owner |-> r.user, visibility |-> r.data, live |-> TRUE]
      OBVIOUS
    <2>2. x \in ProjectRow /\ x.owner # d.user
      BY <1>2, <2>1 DEF RequestOK, ProjectRow, ProjectWrites
    <2>3. projects' = Append(projects, x)
      BY <1>2, <2>1 DEF Write, InsertProject
    <2>4. /\ DOMAIN projects' = DOMAIN projects \cup {Len(projects) + 1}
          /\ projects'[Len(projects) + 1] = x
          /\ \A i \in DOMAIN projects : projects'[i] = projects[i]
      BY <1>0, <2>2, <2>3, AppendedRow
    <2>5. IdsIn(projects', d) = IdsIn(projects, d)
      BY <2>2, <2>4 DEF IdsIn
    <2>6. \A i \in IdsIn(projects, d) : projects'[i].visibility = projects[i].visibility
      BY <2>4 DEF IdsIn
    <2> QED BY <1>0, <2>5, <2>6, OthersLeave
  <1>3. CASE r.kind \in {"update", "delete"}
    <2>1. r.kind \in OnProject /\ r.kind \notin OnArchitecture /\ r.kind \notin OnRun
      BY <1>3 DEF OnProject, OnArchitecture, OnRun
    <2>2. r.id \in DOMAIN projects /\ projects[r.id].owner = r.user /\ r.user # d.user
      BY <1>3, <2>1 DEF RequestOK, ClimbOK, Owns, ProjectOf, ProjectWrites
    <2>3. PICK x : /\ x = (IF r.kind = "update" THEN [projects[r.id] EXCEPT !.visibility = r.data]
                           ELSE [projects[r.id] EXCEPT !.live = FALSE])
      OBVIOUS
    <2>4. x \in ProjectRow /\ x.owner = projects[r.id].owner
      <3>1. projects[r.id] \in ProjectRow
        BY <1>0, <2>2
      <3>2. r.kind = "update" => r.data \in Visibilities
        BY DEF RequestOK
      <3> QED BY <2>3, <3>1, <3>2 DEF ProjectRow
    <2>5. projects' = [projects EXCEPT ![r.id] = x]
      BY <1>3, <2>3 DEF Write, UpdateProject, DeleteProject
    <2>6. /\ DOMAIN projects' = DOMAIN projects /\ projects'[r.id] = x
          /\ \A i \in DOMAIN projects : i # r.id => projects'[i] = projects[i]
      BY <1>0, <2>2, <2>4, <2>5, ReplacedRow
    <2>7. IdsIn(projects', d) = IdsIn(projects, d)
      BY <2>2, <2>4, <2>6 DEF IdsIn
    <2>8. \A i \in IdsIn(projects, d) : projects'[i].visibility = projects[i].visibility
      BY <2>2, <2>6 DEF IdsIn
    <2> QED BY <1>0, <2>7, <2>8, OthersLeave
  <1> QED BY <1>1, <1>2, <1>3 DEF ProjectWrites

\* The statement that writes succeeds.
LEMMA ListWritten ==
    ASSUME IInv, ListInv, NEW r \in requests, Apply(r), Outcome(r) = "ok"
    PROVE  ListInv'
  <1>0. /\ TablesOK /\ RequestOK(r) /\ ClimbOK(r) /\ Shaped(r) /\ SliceRecord(dashboard)
        /\ dashboard.beyond \in SUBSET DOMAIN projects
        /\ \A q \in requests : Shaped(q)
    BY DEF IInv, RequestInv, RequestOK, DashboardOK, SliceRecord
  <1>1. PICK id, done :
           /\ id = (IF r.kind = "create" THEN Len(projects) + 1 ELSE r.id)
           /\ done = [r EXCEPT !.at = "ok", !.id = IF r.kind = "create" THEN Len(projects) + 1 ELSE @]
    OBVIOUS
  <1>2. /\ Write(r) /\ requests' = {Noted(q) : q \in (requests \ {r}) \cup {done}}
        /\ dashboard' = dashboard /\ crossed' = (crossed \/ WrittenElsewhere(r))
        /\ r.at = "cleared" \/ (r.at = "table" /\ r.kind = "create")
    BY <1>1 DEF Apply, Noted
  <1>3. /\ Shaped(done) /\ done.user = r.user /\ done.by = r.by /\ done.kind = r.kind
        /\ done.data = r.data /\ done.at = "ok" /\ done.id = id
    <2>1. done = [r EXCEPT !.at = "ok", !.id = id]
      BY <1>0, <1>1 DEF Shaped
    <2> HIDE <1>1
    <2> QED BY <1>0, <2>1 DEF Shaped
  <1>4. \A p \in requests' : \E q \in (requests \ {r}) \cup {done} :
           p = Noted(q) /\ Alike(q, p) /\ p.by = q.by
    BY <1>0, <1>2, <1>3, NotedAlike
  <1>5. PagesListNothing'
    <2> SUFFICES ASSUME NEW p \in requests' PROVE p.by = "slice" \/ p.kind # "fetch"
      BY DEF PagesListNothing
    <2>1. PICK q \in (requests \ {r}) \cup {done} : Alike(q, p) /\ p.by = q.by
      BY <1>4
    <2>2. q.by = "slice" \/ q.kind # "fetch"
      BY <1>3 DEF ListInv, PagesListNothing
    <2> QED BY <2>1, <2>2 DEF Alike
  <1>6. PICK R, d, rows : R = OfSlice' /\ d = dashboard' /\ rows = RowsFor(d)'
    OBVIOUS
  <1>7. PICK old : old = RowsFor(d)
    OBVIOUS
  <1>8. d = dashboard /\ SliceRecord(d) /\ (~crossed => SliceOK(OfSlice, d, old))
    BY <1>0, <1>2, <1>6, <1>7 DEF ListInv
  <1>9. r.kind \in {"create", "update", "delete", "createArchitecture", "patch",
                    "deleteArchitecture", "createRun"}
    BY <1>0, <1>2 DEF ClimbOK, AsksAbout, Reads, OnProject, OnArchitecture, OnRun
  <1>10. ASSUME ~crossed, ~WrittenElsewhere(r), r.by # "slice" PROVE SliceOK(R, d, rows)
    <2>1. SliceOK(OfSlice, d, old)
      BY <1>8, <1>10
    <2>3. ASSUME d.status # "idle" PROVE SliceOK(OfSlice, d, rows)
      <3>1. r.kind \in ProjectWrites => r.user # d.user
        BY <1>8, <1>10, <2>3 DEF WrittenElsewhere
      <3>2. rows = old
        BY <1>0, <1>2, <1>6, <1>7, <1>9, <3>1, OthersWrite
      <3> QED BY <2>1, <3>2
    <2>4. SliceOK(OfSlice, d, rows)
      <3>1. d.status = "idle" => SliceOK(OfSlice, d, rows)
        BY <2>1 DEF SliceOK
      <3>2. d.status # "idle" => SliceOK(OfSlice, d, rows)
        BY <2>3
      <3> QED BY <3>1, <3>2
    <2>5. CASE OfSlice = {}
      <3>1. R = {}
        <4> SUFFICES ASSUME NEW p \in R PROVE FALSE
          OBVIOUS
        <4>1. p \in requests' /\ p.by = "slice"
          BY <1>6 DEF OfSlice
        <4>2. PICK q \in (requests \ {r}) \cup {done} : p.by = q.by
          BY <1>4, <4>1
        <4>3. q \in OfSlice
          BY <1>3, <1>10, <4>1, <4>2 DEF OfSlice
        <4> QED BY <2>5, <4>3
      <3> QED BY <2>4, <2>5, <3>1
    <2>6. CASE OfSlice # {}
      <3>1. PICK x \in OfSlice : OfSlice = {x}
        BY <2>4, <2>6 DEF SliceOK
      <3>2. x \in requests \ {r} /\ x.by = "slice"
        BY <1>10 DEF OfSlice
      <3>3. PICK y : y = Noted(x)
        OBVIOUS
      <3>4. Alike(x, y) /\ y.by = "slice" /\ y \in requests'
        BY <1>0, <1>2, <3>2, <3>3, NotedAlike
      <3>5. R = {y}
        <4>1. y \in R
          BY <1>6, <3>4 DEF OfSlice
        <4>2. ASSUME NEW p \in R PROVE p = y
          <5>1. p \in requests' /\ p.by = "slice"
            BY <1>6 DEF OfSlice
          <5>2. PICK q \in (requests \ {r}) \cup {done} : p = Noted(q) /\ p.by = q.by
            BY <1>4, <5>1
          <5>3. q \in OfSlice
            BY <1>3, <1>10, <5>1, <5>2 DEF OfSlice
          <5>4. q = x
            BY <3>1, <5>3
          <5> QED BY <3>3, <5>2, <5>4
        <4> QED BY <4>1, <4>2
      <3>6. SliceOK({y}, d, rows)
        BY <2>4, <3>4, SliceSees
      <3> QED BY <3>5, <3>6
    <2> QED BY <2>5, <2>6
  <1>11. ASSUME ~crossed, r.by = "slice" PROVE SliceOK(R, d, rows)
    <2>1. r.kind \in {"create", "update", "delete"}
      <3>1. r.kind \in SliceKinds
        BY <1>0, <1>11 DEF RequestOK
      <3> QED BY <1>9, <3>1 DEF SliceKinds
    <2>2. r \in OfSlice
      BY <1>11 DEF OfSlice
    <2>3. /\ OfSlice = {r} /\ r.user = d.user /\ d.items = old
          /\ r.kind \in {"update", "delete"} => r.id \notin d.beyond
      <3>1. OfSlice = {r} /\ r.user = d.user /\ d.status # "loading" /\ d.status # "idle"
        BY <1>8, <1>11, <2>1, <2>2 DEF SliceOK
      <3>2. d.status = "succeeded" /\ r.at \notin {"ok", "lost"}
        BY <1>2, <1>8, <1>11, <3>1 DEF SliceOK
      <3> QED BY <1>8, <1>11, <3>1, <3>2 DEF SliceOK
    <2>4. PICK y : y = Noted(done)
      OBVIOUS
    <2>5. Alike(done, y) /\ y.by = "slice" /\ y \in requests'
      BY <1>2, <1>3, <1>11, <2>4, NotedAlike
    <2>6. R = {y}
      <3>1. y \in R
        BY <1>6, <2>5 DEF OfSlice
      <3>2. ASSUME NEW p \in R PROVE p = y
        <4>1. p \in requests' /\ p.by = "slice"
          BY <1>6 DEF OfSlice
        <4>2. PICK q \in (requests \ {r}) \cup {done} : p = Noted(q) /\ p.by = q.by
          BY <1>4, <4>1
        <4>3. q # done => q \in OfSlice /\ q # r
          BY <4>1, <4>2 DEF OfSlice
        <4>4. q = done
          BY <2>3, <4>3
        <4> QED BY <2>4, <4>2, <4>4
      <3> QED BY <3>1, <3>2
    <2>7. Reduced(d, y).items = rows
      <3>1. d.items = RowsFor(d) /\ rows = RowsFor(d)' /\ d.beyond \in SUBSET DOMAIN projects
        BY <1>0, <1>6, <1>7, <1>8, <2>3
      <3>2. y.kind = r.kind /\ y.data = r.data /\ y.at = "ok"
            /\ y.id = (IF r.kind = "create" THEN Len(projects) + 1 ELSE r.id)
        BY <1>1, <1>3, <2>5 DEF Alike
      <3>3. r.at = "cleared" \/ r.kind = "create"
        BY <1>2
      <3>4. Reduced(d, y).items = RowsFor(d)'
        BY <1>0, <1>2, <1>8, <2>1, <2>3, <3>1, <3>2, <3>3, AppliedIsListed
      <3> QED BY <3>1, <3>4
    <2>8. /\ y.user = r.user /\ y.kind = r.kind /\ y.at = "ok"
          /\ y.kind \in {"update", "delete"} => y.id = r.id
      BY <1>1, <1>3, <2>5 DEF Alike
    <2>9. SliceOK(OfSlice, d, old)
      BY <1>8, <1>11
    <2>10. SliceOK({y}, d, rows)
      BY <2>2, <2>7, <2>8, <2>9, SliceDone
    <2> QED BY <2>6, <2>10
  <1>12. crossed' \/ SliceOK(R, d, rows)
    BY <1>2, <1>10, <1>11
  <1> QED BY <1>5, <1>6, <1>12, ListNext

\* A step up the way to the project answers a read, and nothing else.
LEMMA ClimbMoves ==
    ASSUME NEW r \in requests, Shaped(r), Climb(r)
    PROVE  /\ r.at \notin {"ok", "lost"}
           /\ \E q : /\ requests' = (requests \ {r}) \cup {q} /\ Same(r, q)
                     /\ r.kind \notin Reads => q.at # "ok"
  <1> DEFINE Goal == \E q : /\ requests' = (requests \ {r}) \cup {q} /\ Same(r, q)
                            /\ r.kind \notin Reads => q.at # "ok"
  <1>0. r.at \in {"run", "architecture", "project"}
    BY DEF Climb
  <1> SUFFICES Goal
    BY <1>0
  <1>1. ASSUME NEW at, requests' = (requests \ {r}) \cup {[r EXCEPT !.at = at]},
               r.kind \notin Reads => at # "ok"
        PROVE  Goal
    <2>1. PICK q : q = [r EXCEPT !.at = at]
      OBVIOUS
    <2>2. Same(r, q) /\ q.at = at
      BY <2>1, MovedAt
    <2> QED BY <1>1, <2>1, <2>2
  <1>2. CASE r.at = "run" /\ runs[r.on].live
    <2>1. PICK on, q : on = runs[r.on].architecture /\ q = [r EXCEPT !.at = "architecture", !.on = on]
      OBVIOUS
    <2>2. requests' = (requests \ {r}) \cup {q}
      BY <1>2, <2>1 DEF Climb, Becomes
    <2>3. Same(r, q) /\ q.at = "architecture"
      BY <2>1 DEF Shaped, Same
    <2> QED BY <2>2, <2>3
  <1>3. CASE r.at = "run" /\ ~runs[r.on].live
    <2>1. requests' = (requests \ {r}) \cup {[r EXCEPT !.at = "notFound"]}
      BY <1>3 DEF Climb, Becomes
    <2> HIDE DEF Goal
    <2> QED BY <1>1, <2>1
  <1>4. CASE r.at = "architecture" /\ architectures[r.on].live
    <2>1. PICK on, row, q : on = architectures[r.on].project /\ row = architectures[r.on]
                            /\ q = [r EXCEPT !.at = "project", !.on = on, !.row = row]
      OBVIOUS
    <2>2. requests' = (requests \ {r}) \cup {q}
      BY <1>4, <2>1 DEF Climb, Becomes
    <2>3. Same(r, q) /\ q.at = "project"
      BY <2>1 DEF Shaped, Same
    <2> QED BY <2>2, <2>3
  <1>5. CASE r.at = "architecture" /\ ~architectures[r.on].live
    <2>1. requests' = (requests \ {r}) \cup {[r EXCEPT !.at = "notFound"]}
      BY <1>5 DEF Climb, Becomes
    <2> HIDE DEF Goal
    <2> QED BY <1>1, <2>1
  <1>6. CASE r.at = "project"
    <2>1. PICK at :
             at = IF r.kind \in Reads THEN ReadAnswer(projects[r.on], r.user)
                  ELSE WriteAnswer(projects[r.on], r.user)
      OBVIOUS
    <2>2. requests' = (requests \ {r}) \cup {[r EXCEPT !.at = at]}
      BY <1>6, <2>1 DEF Climb, Reply, Becomes
    <2>3. r.kind \notin Reads => at # "ok"
      BY <2>1 DEF WriteAnswer
    <2> HIDE DEF Goal
    <2> QED BY <1>1, <2>2, <2>3
  <1> QED BY <1>2, <1>3, <1>4, <1>5, <1>6, <1>0

\* At first the list is not there.
LEMMA ListFirst ==
    ASSUME Init
    PROVE  ListInv
  <1>1. requests = {} /\ OfSlice = {}
    BY DEF Init, OfSlice
  <1>2. dashboard.status = "idle" /\ dashboard.items = <<>>
    BY DEF Init
  <1> QED BY <1>1, <1>2 DEF ListInv, PagesListNothing, SliceOK

\* Every step keeps the list current.
LEMMA ListKept ==
    ASSUME ProjectsAssumption, IInv, ListInv, [Next]_vars
    PROVE  ListInv'
  <1>0. SliceRecord(dashboard) /\ \A r \in requests : RequestInv(r) /\ Shaped(r) /\ RequestOK(r)
    BY DEF IInv, DashboardOK, SliceRecord, RequestInv, RequestOK
  <1>1. CASE UNCHANGED vars
    <2>1. /\ requests' = requests /\ projects' = projects /\ dashboard' = dashboard
          /\ crossed' = crossed
      BY <1>1 DEF vars
    <2>2. PagesListNothing' /\ OfSlice' = OfSlice
      BY <2>1 DEF ListInv, PagesListNothing, OfSlice
    <2>3. PICK R, d, rows : R = OfSlice' /\ d = dashboard' /\ rows = RowsFor(d)'
      OBVIOUS
    <2>4. rows = RowsFor(dashboard)
      BY <2>1, <2>3, RowsStay
    <2>5. crossed' \/ SliceOK(R, d, rows)
      BY <2>1, <2>2, <2>3, <2>4 DEF ListInv
    <2> QED BY <2>2, <2>3, <2>5, ListNext
  <1>2. ASSUME NEW u \in Users, NEW id,
               \/ NewProjectElsewhere(u) \/ EditProjectElsewhere(u, id)
               \/ RemoveProjectElsewhere(u, id) \/ GetProject(u, id) \/ CreateArchitecture(u, id)
               \/ GetArchitecture(u, id) \/ PatchArchitecture(u, id)
               \/ RemoveArchitecture(u, id) \/ CreateRun(u, id) \/ GetRun(u, id)
        PROVE  ListInv'
    <2>1. CASE NewProjectElsewhere(u) \/ EditProjectElsewhere(u, id) \/ RemoveProjectElsewhere(u, id)
      BY <2>1, ListAsked DEF NewProjectElsewhere, EditProjectElsewhere, RemoveProjectElsewhere
    <2>2. CASE CreateArchitecture(u, id)
      BY <2>2, ListAsked DEF CreateArchitecture
    <2>3. CASE PatchArchitecture(u, id)
      <3>1. PICK data : Ask(u, "patch", id, data)
        BY <2>3 DEF PatchArchitecture
      <3> QED BY <3>1, ListAsked
    <2>4. CASE GetProject(u, id) \/ GetArchitecture(u, id) \/ RemoveArchitecture(u, id)
                  \/ CreateRun(u, id) \/ GetRun(u, id)
      BY <2>4, ListAsked DEF GetProject, GetArchitecture, RemoveArchitecture, CreateRun, GetRun
    <2> QED BY <1>2, <2>1, <2>2, <2>3, <2>4
  <1>3. CASE FetchProjects
    <2>1. /\ dashboard.status = "idle" /\ SendBySlice("fetch", 0, 0) /\ UNCHANGED projects
          /\ dashboard' = [dashboard EXCEPT !.status = "loading"]
      BY <1>3 DEF FetchProjects
    <2> QED BY <1>0, <2>1, ListSends
  <1>4. CASE CreateProject
    <2>1. PICK v : /\ dashboard.status # "idle" /\ SendBySlice("create", 0, v)
                   /\ UNCHANGED projects /\ dashboard' = dashboard
      BY <1>4 DEF CreateProject
    <2> QED BY <1>0, <2>1, ListSends
  <1>5. ASSUME NEW id, Shown(id), ~crossed
        PROVE  dashboard.status # "idle"
    <2>1. dashboard.status = "idle" => dashboard.items = <<>>
      BY <1>5 DEF ListInv, SliceOK
    <2>2. DOMAIN dashboard.items # {}
      BY <1>5 DEF Shown
    <2> QED BY <2>1, <2>2
  <1>14. ASSUME NEW id, Shown(id), ~crossed, OfSlice = {}
         PROVE  id \notin dashboard.beyond
    <2>1. dashboard.status = "succeeded" /\ dashboard.items = RowsFor(dashboard)
      BY <1>5, <1>14 DEF ListInv, SliceOK
    <2>2. PICK P : P = projects /\ P \in Seq(ProjectRow)
      BY DEF IInv, TablesOK
    <2>3. PICK s : s = dashboard.items /\ s = RowsIn(P, dashboard)
      BY <2>1, <2>2, RowsAreIn
    <2>4. PICK n, f : Lists(s, f, n, P, dashboard)
      BY <2>2, <2>3, RowsAreListed
    <2>5. DOMAIN s = 1 .. n /\ \A k \in 1 .. n : s[k].id = f[k]
      BY <2>2, <2>4, ItemsAreCounted
    <2>6. \A k \in 1 .. n : f[k] \in IdsIn(P, dashboard)
      BY <2>4 DEF Lists, CountsDown
    <2>7. PICK k \in DOMAIN s : s[k].id = id
      BY <1>14, <2>3 DEF Shown
    <2> QED BY <2>5, <2>6, <2>7 DEF IdsIn
  <1>6. CASE EditProject
    <2>1. PICK id, v : /\ Shown(id) /\ SendBySlice("update", id, v)
                       /\ UNCHANGED projects /\ dashboard' = dashboard
      BY <1>6 DEF EditProject
    <2>2. ~crossed => dashboard.status # "idle"
      BY <1>5, <2>1
    <2>3. ~crossed /\ OfSlice = {} => id \notin dashboard.beyond
      BY <1>14, <2>1
    <2> QED BY <1>0, <2>1, <2>2, <2>3, ListSends
  <1>7. CASE RemoveProject
    <2>1. PICK id : /\ Shown(id) /\ SendBySlice("delete", id, 0)
                    /\ UNCHANGED projects /\ dashboard' = dashboard
      BY <1>7 DEF RemoveProject
    <2>2. ~crossed => dashboard.status # "idle"
      BY <1>5, <2>1
    <2>3. ~crossed /\ OfSlice = {} => id \notin dashboard.beyond
      BY <1>14, <2>1
    <2> QED BY <1>0, <2>1, <2>2, <2>3, ListSends
  <1>8. CASE SwitchUser
    <2>1. crossed' /\ requests' = requests
      BY <1>8 DEF SwitchUser
    <2>2. PagesListNothing'
      BY <2>1 DEF ListInv, PagesListNothing
    <2>3. PICK R, d, rows : R = OfSlice' /\ d = dashboard' /\ rows = RowsFor(d)'
      OBVIOUS
    <2> QED BY <2>1, <2>2, <2>3, ListNext
  <1>9. ASSUME NEW r \in requests, Climb(r)
        PROVE  ListInv'
    <2>1. r.at \notin {"ok", "lost"}
      BY <1>0, <1>9, ClimbMoves
    <2>2. PICK q : /\ requests' = (requests \ {r}) \cup {q} /\ Same(r, q)
                   /\ r.kind \notin Reads => q.at # "ok"
      BY <1>0, <1>9, ClimbMoves
    <2>3. UNCHANGED <<projects, dashboard, crossed>>
      BY <1>9 DEF Climb
    <2>4. r.by = "slice" => r.kind \notin Reads
      BY <1>0 DEF RequestOK, SliceKinds, Reads
    <2> QED BY <2>1, <2>2, <2>3, <2>4, ListMoves
  <1>10. ASSUME NEW r \in requests, List(r)
         PROVE  ListInv'
    BY <1>0, <1>10, ListIsMade
  <1>11. ASSUME NEW r \in requests, Apply(r)
         PROVE  ListInv'
    <2>1. CASE Outcome(r) = "ok"
      BY <1>11, <2>1, ListWritten
    <2>2. CASE Outcome(r) # "ok"
      <3>1. PICK at, q : at = Outcome(r) /\ q = [r EXCEPT !.at = at]
        OBVIOUS
      <3>2. requests' = (requests \ {r}) \cup {q} /\ UNCHANGED <<projects, dashboard, crossed>>
        BY <1>11, <2>2, <3>1 DEF Apply, Reply, Becomes
      <3>3. Same(r, q) /\ q.at = at
        BY <1>0, <3>1, MovedAt
      <3>4. q.at # "ok" /\ r.at \notin {"ok", "lost"}
        BY <1>11, <2>2, <3>1, <3>3 DEF Apply
      <3> QED BY <3>2, <3>3, <3>4, ListMoves
    <2> QED BY <2>1, <2>2
  <1>12. ASSUME NEW r \in requests, Deliver(r)
         PROVE  ListInv'
    BY <1>0, <1>12, ListArrives
  <1>13. ASSUME NEW r \in requests, Lose(r)
         PROVE  ListInv'
    <2>1. PICK q : q = [r EXCEPT !.at = "lost"]
      OBVIOUS
    <2>2. requests' = (requests \ {r}) \cup {q} /\ UNCHANGED <<projects, dashboard, crossed>>
      BY <1>13, <2>1 DEF Lose, Reply, Becomes
    <2>3. Same(r, q) /\ q.at = "lost"
      BY <1>0, <2>1, MovedAt
    <2> QED BY <2>2, <2>3, ListMoves
  <1> QED BY <1>1, <1>2, <1>3, <1>4, <1>6, <1>7, <1>8, <1>9, <1>10, <1>11, <1>12, <1>13 DEF Next

\* The dashboard shows the projects of its user, newest first and each once,
\* however many there are and however few fit on the page it fetches: those of
\* that page and those made since, without those deleted, whatever other users
\* write, as long as its requests neither overlap nor fail, nobody else signs in,
\* and the user writes no project elsewhere once the list is asked for.
THEOREM ListIsAlwaysCurrent == Spec => []ListIsCurrent
  <1>1. Init => ListInv
    BY ListFirst
  <1>2. IInv /\ ListInv /\ [Next]_vars => ListInv'
    BY ListKept, ProjectsAssumption
  <1>3. ListInv => ListIsCurrent
    <2> SUFFICES ASSUME ListInv, ~crossed, OfSlice = {}, dashboard.status = "succeeded"
                 PROVE  dashboard.items = RowsFor(dashboard)
      BY DEF ListIsCurrent, RowsFor
    <2>1. SliceOK({}, dashboard, RowsFor(dashboard))
      BY DEF ListInv
    <2> QED BY <2>1 DEF SliceOK
  <1> QED BY <1>1, <1>2, <1>3, TablesAlwaysOK, PTL DEF Spec

=============================================================================
