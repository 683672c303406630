---------------------- MODULE SimulationsClientProofs ----------------------
(***************************************************************************)
(* Proofs about the browser's view of runs, for any runs, requests and     *)
(* faults: types, that no button is left disabled, that a deleted run is   *)
(* not listed again, that what the editor's effects dispatched last is of  *)
(* the run in focus, and that rows move along the lifecycle whatever the   *)
(* pages ask for.                                                          *)
(***************************************************************************)
EXTENDS SimulationsClient, TLAPS

-----------------------------------------------------------------------------
(* The inductive invariant.                                                 *)

\* A run, or none.
AnyRun == Runs \cup {NoRun}

\* A row as an answer shows it.
RunView == [status : Lifecycles!RowStatus, saved : BOOLEAN]

\* What the store of the browser keeps of a run.
RunRecord ==
    [status : Lifecycles!RowStatus, saved : BOOLEAN, results : BOOLEAN, live : BOOLEAN,
     pending : BOOLEAN]

\* A request is about a run, but for those about lists.
MessageOK(m) ==
    /\ m \in [kind : Kind, run : AnyRun, at : {"sent", "ok", "error"}, view : RunView,
              rows : {m.rows}, here : BOOLEAN]
    /\ m.kind \notin {"list", "attach"} => m.run \in Runs
    /\ DOMAIN m.rows \subseteq Runs

\* The list of runs.
ListOK ==
    list \in [items : {list.items}, loading : BOOLEAN, error : BOOLEAN, gone : SUBSET Runs]

\* The type invariant.
Types ==
    /\ row \in [Runs -> Lifecycles!RowStatus]
    /\ savedAt \subseteq Runs
    /\ runs \in [Runs -> {NoRun} \cup RunRecord]
    /\ focus \in AnyRun
    /\ ListOK
    /\ \A m \in net : MessageOK(m)

\* What was deleted stays so, and no load that is to be shown has seen it.
GoneOK(m) ==
    /\ m.kind = "delete" /\ m.at = "ok" => row[m.run] = "deleted"
    /\ m.kind = "list" /\ m.at = "ok" => DOMAIN m.rows \cap list.gone = {}

\* A run that was deleted is gone from the store.
GoneInv ==
    /\ \A r \in list.gone : row[r] = "deleted"
    /\ \A m \in net : GoneOK(m)
    /\ DeletedRunIsNotListed

\* The inductive invariant.
IInv == Types /\ PendingHasAction /\ GoneInv /\ DispatchIsOfFocus

-----------------------------------------------------------------------------
(* The rows.                                                                *)

\* The abstract lifecycle keeps the rows typed, and a deleted one deleted.
LEMMA RowsStep ==
    ASSUME row \in [Runs -> Lifecycles!RowStatus], [Lifecycles!Next]_row
    PROVE  /\ row' \in [Runs -> Lifecycles!RowStatus]
           /\ \A r \in Runs : row[r] = "deleted" => row'[r] = "deleted"
  <1> USE DEF Lifecycles!RowStatus, Lifecycles!Status, Lifecycles!Active
  <1>1. CASE row' = row
    BY <1>1
  <1>2. ASSUME NEW r \in Runs, Lifecycles!Create(r) \/ Lifecycles!Remove(r)
        PROVE  /\ row' \in [Runs -> Lifecycles!RowStatus]
               /\ \A s \in Runs : row[s] = "deleted" => row'[s] = "deleted"
    BY <1>2 DEF Lifecycles!Create, Lifecycles!Remove
  <1>3. ASSUME NEW r \in Runs,
               NEW action \in {"start", "pause", "resume", "cancel", "complete", "fail"},
               Lifecycles!Move(r, action)
        PROVE  /\ row' \in [Runs -> Lifecycles!RowStatus]
               /\ \A s \in Runs : row[s] = "deleted" => row'[s] = "deleted"
    <2>1. Lifecycles!TargetStatus[action] \in Lifecycles!Status
      BY DEF Lifecycles!TargetStatus
    <2>2. row[r] # "deleted"
      BY <1>3 DEF Lifecycles!Move, Lifecycles!Allows, Lifecycles!AllowedFrom
    <2> QED BY <1>3, <2>1, <2>2 DEF Lifecycles!Move
  <1>4. CASE Lifecycles!Interrupt
    BY <1>4 DEF Lifecycles!Interrupt
  <1> QED BY <1>1, <1>2, <1>3, <1>4 DEF Lifecycles!Next

\* A step of other clients, of a loop or of a boot.
LEMMA ElsewhereStep ==
    ASSUME ClientAssumption, Types, Elsewhere
    PROVE  /\ [Lifecycles!Next]_row /\ savedAt' \subseteq Runs
           /\ UNCHANGED <<runs, page, focus, fetched, dispatched, list, net>>
  <1>1. (\E r \in Runs : \/ \E action \in Foreign \ {"save"} : Lifecycles!Move(r, action)
                         \/ Lifecycles!Create(r) \/ Lifecycles!Remove(r))
        => Lifecycles!Next
    BY DEF ClientAssumption, Lifecycles!Next
  <1>2. Lifecycles!Interrupt => Lifecycles!Next
    BY DEF Lifecycles!Next
  <1>3. [Lifecycles!Next]_row
    BY <1>1, <1>2 DEF Elsewhere
  <1>4. savedAt' \subseteq Runs
    BY DEF Elsewhere, Types
  <1> QED BY <1>3, <1>4 DEF Elsewhere, hook

-----------------------------------------------------------------------------
(* The server's answers.                                                    *)

\* The request m is answered: it becomes q.
Becomes(m, q) ==
    /\ net' = (net \ {m}) \cup {q}
    /\ MessageOK(q) /\ q.kind = m.kind /\ q.run = m.run /\ q.here = m.here
    /\ q.at \in {"ok", "error"}

\* The rows of a list are of runs.
RowsOK(rows) == DOMAIN rows \subseteq Runs

\* An answer is well-formed, and is what it was given.
LEMMA Answered ==
    ASSUME NEW m, MessageOK(m), NEW ok \in BOOLEAN, NEW view \in RunView, NEW rows,
           RowsOK(rows), Answer(m, ok, view, rows)
    PROVE  \E q : Becomes(m, q) /\ q.rows = rows /\ (q.at = "ok" <=> ok)
  <1>1. PICK at \in {"ok", "error"} : at = IF ok THEN "ok" ELSE "error"
    OBVIOUS
  <1>2. PICK q : q = [m EXCEPT !.at = at, !.view = view, !.rows = rows]
    OBVIOUS
  <1>3. /\ q \in [kind : Kind, run : AnyRun, at : {"sent", "ok", "error"}, view : RunView,
                  rows : {q.rows}, here : BOOLEAN]
        /\ q.kind = m.kind /\ q.run = m.run /\ q.here = m.here /\ q.rows = rows /\ q.at = at
    BY <1>2 DEF MessageOK
  <1>4. MessageOK(q)
    BY <1>3 DEF MessageOK, RowsOK
  <1>5. net' = (net \ {m}) \cup {q}
    BY <1>1, <1>2 DEF Answer
  <1> QED BY <1>1, <1>3, <1>4, <1>5 DEF Becomes

\* What is answered while rows move along the lifecycle.
LEMMA ServeStep ==
    ASSUME Types, NEW m \in net, Serve(m) \/ Fault(m)
    PROVE  /\ [Lifecycles!Next]_row /\ savedAt' \subseteq Runs
           /\ UNCHANGED <<runs, page, focus, fetched, dispatched, list>>
           /\ \E q : /\ Becomes(m, q)
                     /\ q.kind = "delete" /\ q.at = "ok" => row'[q.run] = "deleted"
                     /\ q.kind = "list" /\ q.at = "ok" => q.rows = Rows(TRUE) /\ row' = row
  <1>0. /\ MessageOK(m) /\ row \in [Runs -> Lifecycles!RowStatus] /\ savedAt \subseteq Runs
        /\ UNCHANGED <<runs, page, focus, fetched, dispatched, list>>
    BY DEF Types, Serve, ServeRead, ServeControl, Fault, hook
  <1>1. NoView \in RunView /\ RowsOK(<<>>)
    BY DEF NoView, RunView, Lifecycles!RowStatus, RowsOK
  <1>2. CASE Fault(m)
    <2>1. PICK q : Becomes(m, q) /\ q.at # "ok"
      BY <1>0, <1>1, <1>2, Answered DEF Fault
    <2> QED BY <1>0, <1>2, <2>1 DEF Fault, server
  <1>3. CASE ServeRead(m)
    <2>0. row' = row /\ savedAt' = savedAt
      BY <1>3 DEF ServeRead, server
    <2>1. CASE m.kind \in {"status", "results"}
      <3>1. m.run \in Runs
        BY <1>0, <2>1 DEF MessageOK
      <3>2. View(m.run) \in RunView
        BY <1>0, <3>1 DEF View, RunView
      <3>3. PICK ok \in BOOLEAN : Answer(m, ok, View(m.run), <<>>)
        BY <1>3, <2>1 DEF ServeRead, Exists
      <3>4. PICK q : Becomes(m, q)
        BY <1>0, <1>1, <3>2, <3>3, Answered
      <3> QED BY <1>0, <2>0, <2>1, <3>4 DEF Becomes
    <2>2. CASE m.kind \in {"metrics", "put"}
      <3>1. PICK ok \in BOOLEAN : Answer(m, ok, NoView, <<>>)
        BY <1>3, <2>2 DEF ServeRead
      <3>2. PICK q : Becomes(m, q)
        BY <1>0, <1>1, <3>1, Answered
      <3> QED BY <1>0, <2>0, <2>2, <3>2 DEF Becomes
    <2>3. CASE m.kind \in {"list", "attach"}
      <3>1. PICK saved \in BOOLEAN : /\ Answer(m, TRUE, NoView, Rows(saved))
                                     /\ m.kind = "list" => saved
        BY <1>3, <2>3 DEF ServeRead
      <3>2. DOMAIN Rows(saved) \subseteq Runs
        BY DEF Rows
      <3>3. PICK rows : rows = Rows(saved)
        OBVIOUS
      <3>4. PICK q : Becomes(m, q) /\ q.rows = rows
        <4>1. PICK ok \in BOOLEAN : ok = TRUE
          OBVIOUS
        <4>2. RowsOK(rows)
          BY <3>2, <3>3 DEF RowsOK
        <4>3. Answer(m, ok, NoView, rows)
          BY <3>1, <3>3, <4>1
        <4> QED BY <1>0, <1>1, <4>2, <4>3, Answered
      <3> QED BY <1>0, <2>0, <2>3, <3>1, <3>3, <3>4 DEF Becomes
    <2> QED BY <1>3, <2>1, <2>2, <2>3 DEF ServeRead
  <1>4. CASE ServeControl(m)
    <2>1. CASE m.kind \in {"start", "pause", "resume", "cancel"}
      <3>1. m.run \in Runs
        BY <1>0, <2>1 DEF MessageOK
      <3>2. [Lifecycles!Next]_row
        BY <1>4, <2>1, <3>1 DEF ServeControl, Lifecycles!Next
      <3>3. row' \in [Runs -> Lifecycles!RowStatus]
        BY <1>0, <3>2, RowsStep
      <3>4. PICK ok \in BOOLEAN, view \in RunView : Answer(m, ok, view, <<>>)
        <4>1. PICK view : view = [status |-> row'[m.run], saved |-> m.run \in savedAt]
          OBVIOUS
        <4>2. view \in RunView
          BY <3>1, <3>3, <4>1 DEF RunView
        <4>3. PICK ok \in BOOLEAN : ok <=> row' # row
          OBVIOUS
        <4>4. Answer(m, row' # row, view, <<>>)
          BY <1>4, <2>1, <4>1 DEF ServeControl
        <4>5. Answer(m, ok, view, <<>>)
          BY <4>3, <4>4 DEF Answer
        <4> QED BY <4>2, <4>5
      <3>5. PICK q : Becomes(m, q)
        BY <1>0, <1>1, <3>4, Answered
      <3> QED BY <1>0, <1>4, <2>1, <3>2, <3>5 DEF Becomes, ServeControl
    <2>2. CASE m.kind \in {"remove", "delete"}
      <3>1. m.run \in Runs
        BY <1>0, <2>2 DEF MessageOK
      <3>2. /\ Lifecycles!Remove(m.run) \/ row' = row
            /\ Answer(m, row' # row, NoView, <<>>) /\ savedAt' = savedAt
        BY <1>4, <2>2 DEF ServeControl
      <3>3. PICK ok \in BOOLEAN : ok <=> row' # row
        OBVIOUS
      <3>4. Answer(m, ok, NoView, <<>>)
        BY <3>2, <3>3 DEF Answer
      <3>5. PICK q : Becomes(m, q) /\ (q.at = "ok" <=> ok)
        BY <1>0, <1>1, <3>4, Answered
      <3>6. q.at = "ok" => row'[q.run] = "deleted"
        BY <1>0, <3>1, <3>2, <3>3, <3>5 DEF Lifecycles!Remove, Becomes
      <3>7. [Lifecycles!Next]_row
        BY <3>1, <3>2 DEF Lifecycles!Next
      <3> QED BY <1>0, <2>2, <3>2, <3>5, <3>6, <3>7 DEF Becomes
    <2>3. CASE m.kind = "save"
      <3>1. m.run \in Runs
        BY <1>0, <2>3 DEF MessageOK
      <3>2. /\ row' = row /\ savedAt' \subseteq Runs
            /\ Answer(m, Exists(m.run), [status |-> row[m.run], saved |-> TRUE], <<>>)
        BY <1>0, <1>4, <2>3, <3>1 DEF ServeControl
      <3>3. PICK ok \in BOOLEAN, view \in RunView : Answer(m, ok, view, <<>>)
        <4>1. [status |-> row[m.run], saved |-> TRUE] \in RunView
          BY <1>0, <3>1 DEF RunView
        <4>2. Exists(m.run) \in BOOLEAN
          BY DEF Exists
        <4> QED BY <3>2, <4>1, <4>2
      <3>4. PICK q : Becomes(m, q)
        BY <1>0, <1>1, <3>3, Answered
      <3> QED BY <1>0, <2>3, <3>2, <3>4 DEF Becomes
    <2>4. CASE m.kind = "create"
      <3>1. m.run \in Runs
        BY <1>0, <2>4 DEF MessageOK
      <3>2. Lifecycles!Create(m.run) \/ row' = row
        BY <1>4, <2>4 DEF ServeControl
      <3>3. PICK ok \in BOOLEAN, view \in RunView : Answer(m, ok, view, <<>>)
        <4>1. [status |-> "created", saved |-> FALSE] \in RunView
          BY DEF RunView, Lifecycles!RowStatus, Lifecycles!Status
        <4> QED BY <1>1, <1>4, <2>4, <4>1 DEF ServeControl
      <3>4. PICK q : Becomes(m, q)
        BY <1>0, <1>1, <3>3, Answered
      <3>5. [Lifecycles!Next]_row
        BY <3>1, <3>2 DEF Lifecycles!Next
      <3> QED BY <1>0, <1>4, <2>4, <3>4, <3>5 DEF Becomes, ServeControl
    <2> QED BY <1>4, <2>1, <2>2, <2>3, <2>4 DEF ServeControl
  <1> QED BY <1>2, <1>3, <1>4 DEF Serve

-----------------------------------------------------------------------------
(* The browser's steps.                                                     *)

\* A request as it is sent.
LEMMA Sent ==
    ASSUME NEW kind \in Kind, NEW r \in AnyRun, kind \notin {"list", "attach"} => r \in Runs,
           NEW q, q = Request(kind, r)
    PROVE  MessageOK(q) /\ q.at = "sent" /\ q.kind = kind /\ q.run = r
  <1>1. NoView \in RunView
    BY DEF NoView, RunView, Lifecycles!RowStatus
  <1> QED BY <1>1 DEF Request, MessageOK

\* A request the server has not seen.
Fresh(q) == MessageOK(q) /\ q.at = "sent"

\* What the effects of the hook ask for.
Reading(q) == MessageOK(q) /\ q.at = "sent" /\ q.kind \in {"status", "metrics", "results"}

\* The effects of a page only read.
LEMMA EffectsRead ==
    ASSUME NEW f, NEW rs, NEW g \in AnyRun, NEW ss, NEW q \in EffectRequests(f, rs, g, ss)
    PROVE  Reading(q)
  <1>1. PICK kind \in {"status", "metrics", "results"} :
           q = Request(kind, g) /\ g # NoRun
    <2>1. g = NoRun => StatusOf(g, ss) \notin {"running", "completed"}
      BY DEF StatusOf
    <2> QED BY <2>1 DEF EffectRequests, Only, Arrives, FetchesResults
  <1>2. kind \in Kind /\ g \in Runs
    BY <1>1 DEF Kind, AnyRun
  <1> QED BY <1>1, <1>2, Sent DEF Reading

\* A rendering: the effects add reads, and dispatch for the new focus.
LEMMA RenderStep ==
    ASSUME NEW g \in AnyRun, NEW ss, NEW more, DispatchIsOfFocus, Render(g, ss, more)
    PROVE  /\ focus' = g /\ runs' = ss
           /\ more \subseteq net' /\ \A q \in net' : q \in more \/ Reading(q)
           /\ DispatchIsOfFocus'
  <1>1. focus' = g /\ runs' = ss /\ net' = more \cup EffectRequests(focus, runs, g, ss)
    BY DEF Render
  <1>2. \A q \in EffectRequests(focus, runs, g, ss) : Reading(q)
    BY EffectsRead
  <1>3. dispatched' = NoDispatch \/ dispatched' = Dispatched(focus, runs, g, ss)
    BY DEF Render
  <1>4. MetricsSource(g, ss) # <<>> => MetricsSource(g, ss)[1] = g
    BY DEF MetricsSource
  <1>5. dispatched'.source # <<>> => dispatched'.source[1] = g
    <2>1. CASE dispatched' = NoDispatch
      BY <2>1 DEF NoDispatch
    <2>2. CASE dispatched' = Dispatched(focus, runs, g, ss)
      <3>1. \/ dispatched'.source = MetricsSource(g, ss)
            \/ dispatched' = NoDispatch
            \/ dispatched' = dispatched /\ g = focus
        BY <2>2 DEF Dispatched
      <3> QED BY <1>4, <3>1 DEF NoDispatch, DispatchIsOfFocus
    <2> QED BY <1>3, <2>1, <2>2
  <1> QED BY <1>1, <1>2, <1>5 DEF DispatchIsOfFocus

\* A run of the store with an action pending.
Pending(rs, r) == rs[r] # NoRun /\ rs[r].pending

\* The runs of the store.
Store == [Runs -> {NoRun} \cup RunRecord]

\* Reading a run that the store does not have makes a record without a pending
\* action.
LEMMA ExistingRun ==
    ASSUME Types, NEW r \in Runs
    PROVE  Existing(r) \in RunRecord /\ (Existing(r).pending => Pending(runs, r))
  BY DEF Types, Existing, EmptyRun, RunRecord, Pending, Lifecycles!RowStatus, Lifecycles!Status

\* The answers to what acts on a run leave it without an action pending; no
\* other answer makes one pending.
LEMMA ReducedStore ==
    ASSUME Types, NEW m \in net, m.at # "sent",
           m.kind \in Control \cup {"status", "metrics", "results"}
    PROVE  /\ Reduced(m) \in Store
           /\ \A r \in Runs : Pending(Reduced(m), r) =>
                 Pending(runs, r) /\ ~(m.kind \in Control /\ r = m.run)
  <1>0. MessageOK(m) /\ m.run \in Runs /\ runs \in Store
    BY DEF Types, MessageOK, Store, Control
  <1> DEFINE r == m.run
  <1>1. ASSUME NEW x \in {NoRun} \cup RunRecord, Reduced(m) = [runs EXCEPT ![r] = x],
               x # NoRun /\ x.pending => Pending(runs, r) /\ m.kind \notin Control
        PROVE  /\ Reduced(m) \in Store
               /\ \A s \in Runs : Pending(Reduced(m), s) =>
                     Pending(runs, s) /\ ~(m.kind \in Control /\ s = r)
    <2>1. /\ Reduced(m) \in Store /\ Reduced(m)[r] = x
          /\ \A s \in Runs : s # r => Reduced(m)[s] = runs[s]
      BY <1>0, <1>1 DEF Store
    <2> QED BY <1>1, <2>1 DEF Pending
  <1>2. Existing(r) \in RunRecord /\ (Existing(r).pending => Pending(runs, r))
    BY <1>0, ExistingRun
  <1>3. m.view.status \in Lifecycles!RowStatus /\ m.view.saved \in BOOLEAN
    <2>1. m.view \in RunView
      BY <1>0 DEF MessageOK
    <2> QED BY <2>1 DEF RunView
  <1>4. CASE m.kind = "status" /\ m.at = "ok"
    <2>1. PICK x : x = [Existing(r) EXCEPT !.status = m.view.status]
      OBVIOUS
    <2>2. x \in RunRecord /\ x.pending = Existing(r).pending
      BY <1>2, <1>3, <2>1 DEF RunRecord
    <2>3. Reduced(m) = [runs EXCEPT ![r] = x]
      BY <1>4, <2>1 DEF Reduced, Control
    <2> QED BY <1>1, <1>2, <1>4, <2>2, <2>3 DEF Control
  <1>5. CASE m.kind = "results" /\ m.at = "ok"
    <2>1. PICK x : x = [Existing(r) EXCEPT !.status = m.view.status, !.results = TRUE, !.live = FALSE]
      OBVIOUS
    <2>2. x \in RunRecord /\ x.pending = Existing(r).pending
      BY <1>2, <1>3, <2>1 DEF RunRecord
    <2>3. Reduced(m) = [runs EXCEPT ![r] = x]
      BY <1>5, <2>1 DEF Reduced, Control
    <2> QED BY <1>1, <1>2, <1>5, <2>2, <2>3 DEF Control
  <1>6. CASE m.kind = "metrics" /\ m.at = "ok" /\ runs[r] # NoRun
    <2>1. PICK x : x = [runs[r] EXCEPT !.live = TRUE]
      OBVIOUS
    <2>2. runs[r] \in RunRecord
      BY <1>0, <1>6 DEF Store
    <2>3. x \in RunRecord /\ x.pending = runs[r].pending
      BY <2>1, <2>2 DEF RunRecord
    <2>4. Reduced(m) = [runs EXCEPT ![r] = x]
      BY <1>6, <2>1 DEF Reduced, Control
    <2> QED BY <1>1, <1>6, <2>3, <2>4 DEF Control, Pending
  <1>7. CASE m.kind = "remove" /\ m.at = "ok"
    <2>1. Reduced(m) = [runs EXCEPT ![r] = NoRun]
      BY <1>7 DEF Reduced, Control
    <2>2. NoRun \in {NoRun} \cup RunRecord
      OBVIOUS
    <2> QED BY <1>1, <2>1, <2>2
  <1>8. CASE m.kind \in Control \ {"remove"} /\ m.at = "ok"
    <2>1. PICK x : x = FromDetails(r, m.view)
      OBVIOUS
    <2>2. x \in RunRecord /\ ~x.pending
      <3>1. Existing(r).results \in BOOLEAN /\ Existing(r).live \in BOOLEAN
        BY <1>2 DEF RunRecord
      <3> QED BY <1>3, <2>1, <3>1 DEF FromDetails, EmptyRun, RunRecord
    <2>3. Reduced(m) = [runs EXCEPT ![r] = x]
      BY <1>8, <2>1 DEF Reduced, Control
    <2> QED BY <1>1, <2>2, <2>3
  <1>9. CASE m.kind \in Control /\ m.at # "ok" /\ runs[r] # NoRun
    <2>1. PICK x : x = [runs[r] EXCEPT !.pending = FALSE]
      OBVIOUS
    <2>2. runs[r] \in RunRecord
      BY <1>0, <1>9 DEF Store
    <2>3. x \in RunRecord /\ ~x.pending
      BY <2>1, <2>2 DEF RunRecord
    <2>4. Reduced(m) = [runs EXCEPT ![r] = x]
      BY <1>9, <2>1 DEF Reduced, Control, FailRunAction
    <2> QED BY <1>1, <2>3, <2>4
  <1>10. CASE \/ m.kind \in Control /\ m.at # "ok" /\ runs[r] = NoRun
              \/ m.kind \notin Control /\ m.at # "ok"
              \/ m.kind = "metrics" /\ runs[r] = NoRun
    <2>1. Reduced(m) = runs
      BY <1>10 DEF Reduced, Control, FailRunAction
    <2> QED BY <1>0, <1>10, <2>1 DEF Pending, Control
  <1> QED BY <1>4, <1>5, <1>6, <1>7, <1>8, <1>9, <1>10 DEF Control

\* Beginning an action makes one run pending, if it is there.
LEMMA BegunStore ==
    ASSUME NEW rs \in Store, NEW r \in Runs
    PROVE  /\ BeginRunAction(rs, r) \in Store
           /\ \A s \in Runs : Pending(BeginRunAction(rs, r), s) => s = r \/ Pending(rs, s)
  <1>1. CASE rs[r] = NoRun
    BY <1>1 DEF BeginRunAction
  <1>2. CASE rs[r] # NoRun
    <2>1. PICK x : x = [rs[r] EXCEPT !.pending = TRUE]
      OBVIOUS
    <2>2. rs[r] \in RunRecord
      BY <1>2 DEF Store
    <2>3. x \in RunRecord
      BY <2>1, <2>2 DEF RunRecord
    <2>4. BeginRunAction(rs, r) = [rs EXCEPT ![r] = x]
      BY <1>2, <2>1 DEF BeginRunAction
    <2> QED BY <2>3, <2>4 DEF Store, Pending
  <1> QED BY <1>1, <1>2

-----------------------------------------------------------------------------(* The invariant, by what a step touches.                                   *)

\* The invariant holds of the empty table and the list page being loaded.
LEMMA InvFirst ==
    ASSUME ClientAssumption, Init
    PROVE  IInv
  <1>1. PICK q : q = Request("list", NoRun)
    OBVIOUS
  <1>2. MessageOK(q) /\ q.at = "sent" /\ net = {q}
    BY <1>1, Sent DEF Init, Kind, AnyRun
  <1>3. Types
    BY <1>2 DEF Init, Types, ListOK, NewList, AnyRun, Lifecycles!RowStatus
  <1>4. PendingHasAction
    BY DEF Init, PendingHasAction
  <1>5. GoneInv
    BY <1>2 DEF Init, GoneInv, GoneOK, NewList, DeletedRunIsNotListed
  <1>6. DispatchIsOfFocus
    BY DEF Init, NoDispatch, DispatchIsOfFocus
  <1> QED BY <1>3, <1>4, <1>5, <1>6 DEF IInv

\* The rows move, the browser does not.
LEMMA ElsewhereKeeps ==
    ASSUME ClientAssumption, IInv, Elsewhere
    PROVE  IInv'
  <1>1. /\ [Lifecycles!Next]_row /\ savedAt' \subseteq Runs
        /\ UNCHANGED <<runs, page, focus, fetched, dispatched, list, net>>
    BY ElsewhereStep DEF IInv
  <1>2. /\ row' \in [Runs -> Lifecycles!RowStatus]
        /\ \A r \in Runs : row[r] = "deleted" => row'[r] = "deleted"
    BY <1>1, RowsStep DEF IInv, Types
  <1>3. Types'
    BY <1>1, <1>2 DEF IInv, Types, ListOK
  <1>4. GoneInv'
    <2>1. \A r \in list.gone : r \in Runs
      BY DEF IInv, Types, ListOK
    <2>2. \A m \in net : m.kind = "delete" => m.run \in Runs
      BY DEF IInv, Types, MessageOK
    <2> QED BY <1>1, <1>2, <2>1, <2>2 DEF IInv, GoneInv, GoneOK, DeletedRunIsNotListed
  <1> QED BY <1>1, <1>3, <1>4 DEF IInv, PendingHasAction, DispatchIsOfFocus

\* A request is answered, by the server or by a fault: it keeps its kind and
\* its run, and the answer tells the truth about what is deleted.
LEMMA AnswerKeeps ==
    ASSUME IInv, NEW m \in net, Serve(m) \/ Fault(m)
    PROVE  IInv'
  <1>1. /\ [Lifecycles!Next]_row /\ savedAt' \subseteq Runs
        /\ UNCHANGED <<runs, page, focus, fetched, dispatched, list>>
    BY ServeStep DEF IInv
  <1>2. PICK q : /\ Becomes(m, q)
                 /\ q.kind = "delete" /\ q.at = "ok" => row'[q.run] = "deleted"
                 /\ q.kind = "list" /\ q.at = "ok" => q.rows = Rows(TRUE) /\ row' = row
    BY ServeStep DEF IInv
  <1>3. /\ row' \in [Runs -> Lifecycles!RowStatus]
        /\ \A r \in Runs : row[r] = "deleted" => row'[r] = "deleted"
    BY <1>1, RowsStep DEF IInv, Types
  <1>4. Types'
    BY <1>1, <1>2, <1>3 DEF IInv, Types, ListOK, Becomes
  <1>5. PendingHasAction'
    <2> SUFFICES ASSUME NEW r \in Runs, runs[r] # NoRun /\ runs[r].pending
                 PROVE  \E n \in net' : n.kind \in Control /\ n.run = r
      BY <1>1 DEF PendingHasAction
    <2>1. PICK n \in net : n.kind \in Control /\ n.run = r
      BY DEF IInv, PendingHasAction
    <2> QED BY <1>2, <2>1 DEF Becomes
  <1>6. GoneInv'
    <2>1. \A r \in list.gone : r \in Runs /\ row[r] = "deleted"
      BY DEF IInv, Types, ListOK, GoneInv
    <2>2. \A n \in net : n.kind = "delete" => n.run \in Runs
      BY DEF IInv, Types, MessageOK
    <2>3. DOMAIN Rows(TRUE) \cap list.gone = {}
      BY <2>1 DEF Rows, Exists
    <2>4. ASSUME NEW n \in net'
          PROVE  /\ n.kind = "delete" /\ n.at = "ok" => row'[n.run] = "deleted"
                 /\ n.kind = "list" /\ n.at = "ok" => DOMAIN n.rows \cap list.gone = {}
      BY <1>2, <1>3, <2>2, <2>3 DEF Becomes, IInv, GoneInv, GoneOK
    <2> QED BY <1>1, <1>3, <2>1, <2>4 DEF IInv, GoneInv, GoneOK, DeletedRunIsNotListed
  <1> QED BY <1>1, <1>4, <1>5, <1>6 DEF IInv, DispatchIsOfFocus

\* Requests are sent, and answers that act on no run are dropped.
LEMMA AskingKeeps ==
    ASSUME IInv, UNCHANGED <<row, savedAt, runs, focus, dispatched, list>>,
           \A q \in net' : q \in net \/ Fresh(q),
           \A q \in net : q.kind \in Control => q \in net'
    PROVE  IInv'
  <1>1. Types'
    BY DEF IInv, Types, ListOK, Fresh
  <1>2. PendingHasAction'
    BY DEF IInv, PendingHasAction
  <1>3. GoneInv'
    BY DEF IInv, GoneInv, GoneOK, DeletedRunIsNotListed, Fresh
  <1> QED BY <1>1, <1>2, <1>3 DEF IInv, DispatchIsOfFocus

\* The browser renders a store whose pending runs have their action in flight.
LEMMA RenderKeeps ==
    ASSUME IInv, NEW g \in AnyRun, NEW ss \in Store, NEW more, Render(g, ss, more),
           UNCHANGED <<row, savedAt, list>>,
           \A q \in more : q \in net \/ Fresh(q),
           \A r \in Runs : Pending(ss, r) => \E q \in more : q.kind \in Control /\ q.run = r
    PROVE  IInv'
  <1>1. /\ focus' = g /\ runs' = ss
        /\ more \subseteq net' /\ \A q \in net' : q \in more \/ Reading(q)
        /\ DispatchIsOfFocus'
    BY RenderStep DEF IInv
  <1>2. \A q \in net' : q \in net \/ Fresh(q)
    BY <1>1 DEF Reading, Fresh
  <1>3. Types'
    BY <1>1, <1>2 DEF IInv, Types, ListOK, Store, Fresh
  <1>4. PendingHasAction'
    BY <1>1 DEF PendingHasAction, Pending
  <1>5. GoneInv'
    BY <1>2 DEF IInv, GoneInv, GoneOK, DeletedRunIsNotListed, Fresh
  <1> QED BY <1>1, <1>3, <1>4, <1>5 DEF IInv

\* Leaving a page keeps what its handlers asked for, but for loads of lists.
LEMMA KeptMessages ==
    ASSUME Types
    PROVE  /\ \A q \in Kept : MessageOK(q) /\ q.kind # "list"
           /\ \A q \in Kept : \E m \in net : q.kind = m.kind /\ q.at = m.at /\ q.run = m.run
           /\ \A m \in net : m.kind \in Control =>
                 \E q \in Kept : q.kind = m.kind /\ q.run = m.run
  <1>1. ASSUME NEW m \in net, NEW q, q = [m EXCEPT !.here = FALSE]
        PROVE  /\ MessageOK(q)
               /\ q.kind = m.kind /\ q.at = m.at /\ q.run = m.run
    <2>1. MessageOK(m)
      BY DEF Types
    <2>2. /\ q \in [kind : Kind, run : AnyRun, at : {"sent", "ok", "error"}, view : RunView,
                    rows : {q.rows}, here : BOOLEAN]
          /\ q.kind = m.kind /\ q.at = m.at /\ q.run = m.run /\ q.rows = m.rows
      BY <1>1, <2>1 DEF MessageOK
    <2> QED BY <2>1, <2>2 DEF MessageOK
  <1>2. \A q \in Kept : \E m \in net : m.kind \notin {"list", "attach"}
                                        /\ q = [m EXCEPT !.here = FALSE]
    BY DEF Kept
  <1>3. ASSUME NEW m \in net, m.kind \in Control
        PROVE  \E q \in Kept : q.kind = m.kind /\ q.run = m.run
    <2>1. PICK q : q = [m EXCEPT !.here = FALSE]
      OBVIOUS
    <2>2. q \in Kept
      BY <1>3, <2>1 DEF Kept, Control
    <2> QED BY <1>1, <2>1, <2>2
  <1> QED BY <1>1, <1>2, <1>3

\* A page is left for another: the list is new, and nothing is dispatched yet.
LEMMA PageKeeps ==
    ASSUME IInv, NEW g \in AnyRun, focus' = g, dispatched' = NoDispatch, list' = NewList,
           UNCHANGED <<row, savedAt, runs>>, Kept \subseteq net',
           \A q \in net' : q \in Kept \/ Fresh(q)
    PROVE  IInv'
  <1>0. Types
    BY DEF IInv
  <1>1. \A q \in net' : MessageOK(q)
    BY <1>0, KeptMessages DEF Fresh
  <1>2. Types'
    BY <1>0, <1>1 DEF Types, ListOK, NewList
  <1>3. PendingHasAction'
    <2> SUFFICES ASSUME NEW r \in Runs, runs[r] # NoRun /\ runs[r].pending
                 PROVE  \E n \in net' : n.kind \in Control /\ n.run = r
      BY DEF PendingHasAction
    <2>1. PICK n \in net : n.kind \in Control /\ n.run = r
      BY DEF IInv, PendingHasAction
    <2> QED BY <1>0, <2>1, KeptMessages
  <1>4. GoneInv'
    <2>1. \A q \in net' : q.kind = "delete" /\ q.at = "ok" => row[q.run] = "deleted"
      BY <1>0, KeptMessages DEF IInv, GoneInv, GoneOK, Fresh
    <2>2. \A q \in net' : ~(q.kind = "list" /\ q.at = "ok")
      BY <1>0, KeptMessages DEF Fresh
    <2> QED BY <2>1, <2>2 DEF GoneInv, GoneOK, NewList, DeletedRunIsNotListed
  <1> QED BY <1>2, <1>3, <1>4 DEF IInv, NoDispatch, DispatchIsOfFocus

-----------------------------------------------------------------------------
(* The invariant, action by action.                                         *)

\* The buttons of the run in focus: an action begins with its request.
LEMMA ClickKeeps ==
    ASSUME IInv, NEW op \in Control, Click(op)
    PROVE  IInv'
  <1>1. focus \in Runs /\ runs \in Store
    BY DEF IInv, Types, Store, AnyRun, Click
  <1>2. PICK ss : ss = BeginRunAction(runs, focus)
    OBVIOUS
  <1>3. PICK q : q = Request(op, focus)
    OBVIOUS
  <1>4. Fresh(q) /\ q.kind = op /\ q.run = focus
    <2>1. op \in Kind /\ op \notin {"list", "attach"}
      BY DEF Kind, Control
    <2> QED BY <1>1, <1>3, <2>1, Sent DEF Fresh, AnyRun
  <1>5. /\ ss \in Store
        /\ \A s \in Runs : Pending(ss, s) => s = focus \/ Pending(runs, s)
    BY <1>1, <1>2, BegunStore
  <1>6. PICK more : more = net \cup {q}
    OBVIOUS
  <1>7. /\ Render(focus, ss, more)
        /\ row' = row /\ savedAt' = savedAt /\ list' = list
    BY <1>2, <1>3, <1>6 DEF Click, server
  <1>8. \A p \in more : p \in net \/ Fresh(p)
    BY <1>4, <1>6
  <1>9. \A s \in Runs : Pending(ss, s) => \E p \in more : p.kind \in Control /\ p.run = s
    BY <1>4, <1>5, <1>6 DEF IInv, PendingHasAction, Pending
  <1>10. focus \in AnyRun
    BY <1>1 DEF AnyRun
  <1> QED BY <1>5, <1>7, <1>8, <1>9, <1>10, RenderKeeps

\* An answer about a run: it takes away the action it answers, and no other.
LEMMA ReduceKeeps ==
    ASSUME IInv, NEW m \in net, m.at # "sent", Reduce(m)
    PROVE  IInv'
  <1>1. m.kind \in Control \cup {"status", "metrics", "results"}
    BY DEF Reduce
  <1>2. PICK ss : ss = Reduced(m)
    OBVIOUS
  <1>3. /\ ss \in Store
        /\ \A r \in Runs : Pending(ss, r) =>
              Pending(runs, r) /\ ~(m.kind \in Control /\ r = m.run)
    BY <1>1, <1>2, ReducedStore DEF IInv
  <1>4. PICK more : more = net \ {m}
    OBVIOUS
  <1>5. PICK g \in AnyRun : Render(g, ss, more)
    <2>1. focus \in AnyRun /\ NoRun \in AnyRun
      BY DEF IInv, Types, AnyRun
    <2> QED BY <1>2, <1>4, <2>1 DEF Reduce
  <1>6. row' = row /\ savedAt' = savedAt /\ list' = list
    BY DEF Reduce, server
  <1>7. \A r \in Runs : Pending(ss, r) => \E p \in more : p.kind \in Control /\ p.run = r
    BY <1>3, <1>4 DEF IInv, PendingHasAction, Pending
  <1>8. \A p \in more : p \in net \/ Fresh(p)
    BY <1>4
  <1> QED BY <1>3, <1>5, <1>6, <1>7, <1>8, RenderKeeps

\* The editor attaches to a run, or to none.
LEMMA AttachKeeps ==
    ASSUME IInv, NEW m \in net, Attach(m)
    PROVE  IInv'
  <1>0. MessageOK(m) /\ focus \in AnyRun /\ runs \in Store
    BY DEF IInv, Types, Store
  <1>1. PICK more : more = net \ {m}
    OBVIOUS
  <1>2. PICK g \in AnyRun : Render(g, runs, more)
    <2> DEFINE With(statuses) == {r \in DOMAIN m.rows : m.rows[r] \in statuses}
               active == With({"created", "running", "paused"})
               found == IF active # {} THEN active ELSE With({"completed"})
    <2>1. found \subseteq AnyRun
      BY <1>0 DEF MessageOK, AnyRun
    <2>2. \/ Render(focus, runs, more)
          \/ \E r \in found : Render(r, runs, more)
      BY <1>1 DEF Attach
    <2> HIDE DEF found
    <2> QED BY <1>0, <2>1, <2>2
  <1>3. row' = row /\ savedAt' = savedAt /\ list' = list /\ m.kind = "attach"
    BY DEF Attach, server
  <1>4. \A r \in Runs : Pending(runs, r) => \E p \in more : p.kind \in Control /\ p.run = r
    BY <1>1, <1>3 DEF IInv, PendingHasAction, Pending, Control
  <1>5. \A p \in more : p \in net \/ Fresh(p)
    BY <1>1
  <1> QED BY <1>0, <1>2, <1>3, <1>4, <1>5, RenderKeeps

\* A run exists: it is pending from the moment it is in the store, with its
\* start in flight.
LEMMA CreatedKeeps ==
    ASSUME IInv, NEW m \in net, Created(m)
    PROVE  IInv'
  <1>0. /\ MessageOK(m) /\ focus \in AnyRun /\ runs \in Store
        /\ m.kind = "create" /\ m.run \in Runs
    BY DEF IInv, Types, Store, Created, MessageOK
  <1>1. row' = row /\ savedAt' = savedAt /\ list' = list
    BY DEF Created, server
  <1>2. CASE m.at # "ok"
    <2>1. PICK more : more = net \ {m}
      OBVIOUS
    <2>2. Render(focus, runs, more)
      BY <1>2, <2>1 DEF Created
    <2>3. \A r \in Runs : Pending(runs, r) => \E p \in more : p.kind \in Control /\ p.run = r
      BY <1>0, <2>1 DEF IInv, PendingHasAction, Pending, Control
    <2>4. \A p \in more : p \in net \/ Fresh(p)
      BY <2>1
    <2> QED BY <1>0, <1>1, <2>2, <2>3, <2>4, RenderKeeps
  <1>3. CASE m.at = "ok"
    <2>1. PICK q : q = Request("start", m.run)
      OBVIOUS
    <2>2. Fresh(q) /\ q.kind = "start" /\ q.run = m.run
      <3>1. "start" \in Kind /\ m.run \in AnyRun
        BY <1>0 DEF Kind, Control, AnyRun
      <3> QED BY <1>0, <2>1, <3>1, Sent DEF Fresh
    <2>3. PICK more : more = (net \ {m}) \cup {q}
      OBVIOUS
    <2>4. PICK rs : rs = [runs EXCEPT ![m.run] = EmptyRun("created")]
      OBVIOUS
    <2>5. rs \in Store /\ \A r \in Runs : Pending(rs, r) => Pending(runs, r)
      <3>1. PICK x : x = EmptyRun("created")
        OBVIOUS
      <3>2. x \in RunRecord /\ ~x.pending
        BY <3>1 DEF EmptyRun, RunRecord, Lifecycles!RowStatus, Lifecycles!Status
      <3> QED BY <1>0, <2>4, <3>1, <3>2 DEF Store, Pending
    <2>6. PICK ss : ss = BeginRunAction(rs, m.run)
      OBVIOUS
    <2>7. /\ ss \in Store
          /\ \A s \in Runs : Pending(ss, s) => s = m.run \/ Pending(rs, s)
      BY <1>0, <2>5, <2>6, BegunStore
    <2>8. PICK g \in AnyRun : Render(g, ss, more)
      <3>1. m.run \in AnyRun
        BY <1>0 DEF AnyRun
      <3> QED BY <1>0, <1>3, <2>1, <2>3, <2>4, <2>6, <3>1 DEF Created
    <2>9. \A s \in Runs : Pending(ss, s) => \E p \in more : p.kind \in Control /\ p.run = s
      <3> SUFFICES ASSUME NEW s \in Runs, Pending(ss, s)
                   PROVE  \E p \in more : p.kind \in Control /\ p.run = s
        OBVIOUS
      <3>1. CASE s = m.run
        BY <2>2, <2>3, <3>1 DEF Control
      <3>2. CASE s # m.run
        <4>1. PICK p \in net : p.kind \in Control /\ p.run = s
          BY <2>5, <2>7, <3>2 DEF IInv, PendingHasAction, Pending
        <4> QED BY <2>3, <3>2, <4>1
      <3> QED BY <3>1, <3>2
    <2>10. \A p \in more : p \in net \/ Fresh(p)
      BY <2>2, <2>3
    <2> QED BY <1>1, <2>7, <2>8, <2>9, <2>10, RenderKeeps
  <1> QED BY <1>2, <1>3

\* The architecture is saved: the create call follows.
LEMMA SavedKeeps ==
    ASSUME IInv, NEW m \in net, Saved(m)
    PROVE  IInv'
  <1>1. MessageOK(m) /\ m.kind = "put" /\ m.run \in Runs
    BY DEF IInv, Types, Saved, MessageOK
  <1>2. PICK p : p = Request("create", m.run)
    OBVIOUS
  <1>3. PICK q : q = [p EXCEPT !.here = m.here]
    OBVIOUS
  <1>4. Fresh(q)
    <2>1. "create" \in Kind /\ m.run \in AnyRun
      BY <1>1 DEF Kind, AnyRun
    <2>2. MessageOK(p) /\ p.at = "sent" /\ p.kind = "create" /\ p.run = m.run
      BY <1>1, <1>2, <2>1, Sent
    <2>3. m.here \in BOOLEAN
      BY <1>1 DEF MessageOK
    <2>4. /\ q \in [kind : Kind, run : AnyRun, at : {"sent", "ok", "error"}, view : RunView,
                    rows : {q.rows}, here : BOOLEAN]
          /\ q.kind = p.kind /\ q.run = p.run /\ q.rows = p.rows /\ q.at = p.at
      BY <1>3, <2>2, <2>3 DEF MessageOK
    <2> QED BY <1>1, <2>2, <2>4 DEF MessageOK, Fresh
  <1>5. /\ UNCHANGED <<row, savedAt, runs, focus, dispatched, list>>
        /\ net' = (net \ {m}) \cup Only(m.at = "ok", q)
    BY <1>2, <1>3 DEF Saved, server, hook
  <1>6. \A n \in net' : n \in net \/ Fresh(n)
    BY <1>4, <1>5 DEF Only
  <1>7. \A n \in net : n.kind \in Control => n \in net'
    BY <1>1, <1>5 DEF Control
  <1> QED BY <1>5, <1>6, <1>7, AskingKeeps

\* The intervals, the dialogs and the dispatch of a submit send a request.
LEMMA AsksKeeps ==
    ASSUME IInv, Poll \/ PollMetrics \/ ListTick \/ Submit \/ \E r \in Runs : Delete(r)
    PROVE  IInv'
  <1>1. /\ UNCHANGED <<row, savedAt, runs, focus, dispatched, list>>
    BY DEF Poll, PollMetrics, ListTick, Submit, Delete, server, hook
  <1>2. PICK kind \in Kind, r \in AnyRun :
           /\ kind \notin {"list", "attach"} => r \in Runs
           /\ \/ net' = net \cup {Request(kind, r)}
              \/ net' = {m \in net : m.kind # "list"} \cup {Request(kind, r)}
    <2>0. focus # NoRun => focus \in Runs
      BY DEF IInv, Types, AnyRun
    <2>1. CASE Poll
      BY <2>0, <2>1 DEF Poll, Kind, AnyRun
    <2>2. CASE PollMetrics
      BY <2>0, <2>2 DEF PollMetrics, StatusOf, Kind, AnyRun
    <2>3. CASE ListTick
      BY <2>3 DEF ListTick, Reload, Kind, AnyRun
    <2>4. CASE Submit
      BY <2>4 DEF Submit, Kind, AnyRun
    <2>5. CASE \E s \in Runs : Delete(s)
      BY <2>5 DEF Delete, Kind, AnyRun
    <2> QED BY <2>1, <2>2, <2>3, <2>4, <2>5
  <1>3. PICK q : q = Request(kind, r)
    OBVIOUS
  <1>4. Fresh(q)
    BY <1>2, <1>3, Sent DEF Fresh
  <1>5. \A n \in net' : n \in net \/ Fresh(n)
    BY <1>2, <1>3, <1>4
  <1>6. \A n \in net : n.kind \in Control => n \in net'
    BY <1>2 DEF Control
  <1> QED BY <1>1, <1>5, <1>6, AskingKeeps

\* The pages are changed.
LEMMA PagesKeep ==
    ASSUME IInv, ListPage \/ EditorPage \/ \E r \in Runs : RunPage(r)
    PROVE  IInv'
  <1>1. PICK q1 : q1 = Request("list", NoRun)
    OBVIOUS
  <1>2. PICK q2 : q2 = Request("attach", NoRun)
    OBVIOUS
  <1>3. Fresh(q1) /\ Fresh(q2)
    BY <1>1, <1>2, Sent DEF Fresh, Kind, AnyRun
  <1>4. CASE ListPage
    BY <1>1, <1>3, <1>4, PageKeeps DEF ListPage, server, AnyRun
  <1>5. ASSUME NEW p, NEW g \in AnyRun, NEW more, Mount(p, g, more),
               \A q \in more : Fresh(q)
        PROVE  IInv'
    <2>1. /\ focus' = g /\ dispatched' = NoDispatch /\ list' = NewList
          /\ UNCHANGED <<row, savedAt, runs>>
          /\ net' = Kept \cup more \cup EffectRequests(NoRun, runs, g, runs)
      BY <1>5 DEF Mount, server
    <2>2. \A q \in EffectRequests(NoRun, runs, g, runs) : Fresh(q)
      BY EffectsRead DEF Reading, Fresh
    <2>3. \A q \in net' : q \in Kept \/ Fresh(q)
      BY <1>5, <2>1, <2>2
    <2> QED BY <2>1, <2>3, PageKeeps
  <1>6. CASE EditorPage
    <2>1. Mount("editor", NoRun, {q2})
      BY <1>2, <1>6 DEF EditorPage
    <2> QED BY <1>3, <1>5, <2>1 DEF AnyRun
  <1>7. CASE \E r \in Runs : RunPage(r)
    <2>1. PICK r \in Runs : Mount("run", r, {})
      BY <1>7 DEF RunPage
    <2>2. PICK none : none = {}
      OBVIOUS
    <2>3. Mount("run", r, none) /\ r \in AnyRun
      BY <2>1, <2>2 DEF AnyRun
    <2> QED BY <1>5, <2>2, <2>3
  <1> QED BY <1>4, <1>6, <1>7

\* The list page: a row deleted here goes on the list of those not to come
\* back, together with the loads that may still hold it.
LEMMA DeletedKeeps ==
    ASSUME IInv, NEW m \in net, m.at # "sent", Deleted(m)
    PROVE  IInv'
  <1>1. /\ m.kind = "delete" /\ MessageOK(m) /\ m.run \in Runs
        /\ UNCHANGED <<row, savedAt, runs, focus, dispatched>>
    BY DEF IInv, Types, Deleted, MessageOK, server, hook
  <1>2. CASE ~(m.at = "ok" /\ m.here)
    <2>1. net' = net \ {m} /\ list' = list
      BY <1>2 DEF Deleted
    <2>2. \A q \in net' : q \in net \/ Fresh(q)
      BY <2>1
    <2>3. \A q \in net : q.kind \in Control => q \in net'
      BY <1>1, <2>1 DEF Control
    <2> QED BY <1>1, <2>1, <2>2, <2>3, AskingKeeps
  <1>3. CASE m.at = "ok" /\ m.here
    <2>1. PICK q : q = Request("list", NoRun)
      OBVIOUS
    <2>2. Fresh(q)
      BY <2>1, Sent DEF Fresh, Kind, AnyRun
    <2>3. /\ list' = [list EXCEPT !.loading = TRUE, !.gone = @ \cup {m.run}]
          /\ net' = {n \in net \ {m} : n.kind # "list"} \cup {q}
      BY <1>3, <2>1 DEF Deleted, Reload
    <2>4. ListOK' /\ list'.loading = TRUE /\ list'.gone = list.gone \cup {m.run}
      BY <1>1, <2>3 DEF IInv, Types, ListOK
    <2>5. Types'
      BY <1>1, <2>2, <2>3, <2>4 DEF IInv, Types, Fresh
    <2>6. PendingHasAction'
      BY <1>1, <2>3 DEF IInv, PendingHasAction, Control
    <2>7. GoneInv'
      <3>1. row[m.run] = "deleted"
        BY <1>1, <1>3 DEF IInv, GoneInv, GoneOK
      <3>2. \A n \in net' : GoneOK(n)'
        BY <1>1, <2>2, <2>3 DEF IInv, GoneInv, GoneOK, Fresh
      <3> QED BY <1>1, <2>4, <3>1, <3>2 DEF IInv, GoneInv, DeletedRunIsNotListed
    <2> QED BY <1>1, <2>5, <2>6, <2>7 DEF IInv, DispatchIsOfFocus
  <1> QED BY <1>2, <1>3

\* A load that arrives is shown; no run known to be deleted is in it.
LEMMA ListedKeeps ==
    ASSUME IInv, NEW m \in net, Listed(m)
    PROVE  IInv'
  <1>1. /\ m.kind = "list" /\ MessageOK(m) /\ net' = net \ {m}
        /\ UNCHANGED <<row, savedAt, runs, focus, dispatched>>
    BY DEF IInv, Types, Listed, server, hook
  <1>2. /\ ListOK' /\ list'.gone = list.gone
        /\ m.at = "ok" => list'.items = m.rows
        /\ m.at # "ok" => list'.error
    BY DEF IInv, Types, ListOK, Listed
  <1>3. Types'
    BY <1>1, <1>2 DEF IInv, Types
  <1>4. PendingHasAction'
    BY <1>1 DEF IInv, PendingHasAction, Control
  <1>5. GoneInv'
    <2>1. \A n \in net' : GoneOK(n)'
      BY <1>1, <1>2 DEF IInv, GoneInv, GoneOK
    <2>2. m.at = "ok" => DOMAIN m.rows \cap list.gone = {}
      BY <1>1 DEF IInv, GoneInv, GoneOK
    <2> QED BY <1>1, <1>2, <2>1, <2>2 DEF IInv, GoneInv, DeletedRunIsNotListed
  <1> QED BY <1>1, <1>3, <1>4, <1>5 DEF IInv, DispatchIsOfFocus

\* Every step keeps the invariant.
LEMMA InvKept ==
    ASSUME ClientAssumption, IInv, [Next]_vars
    PROVE  IInv'
  <1>1. CASE UNCHANGED vars
    BY <1>1, AskingKeeps DEF vars, server, hook
  <1>2. CASE Elsewhere
    BY <1>2, ElsewhereKeeps
  <1>3. ASSUME NEW m \in net, Serve(m) \/ Fault(m)
        PROVE  IInv'
    BY <1>3, AnswerKeeps
  <1>4. ASSUME NEW m \in net, Handle(m)
        PROVE  IInv'
    <2>1. m.at # "sent"
      BY <1>4 DEF Handle
    <2> QED BY <1>4, <2>1, ReduceKeeps, AttachKeeps, SavedKeeps, CreatedKeeps, ListedKeeps,
               DeletedKeeps DEF Handle
  <1>5. CASE ListPage \/ EditorPage \/ \E r \in Runs : RunPage(r)
    BY <1>5, PagesKeep
  <1>6. CASE Poll \/ PollMetrics \/ ListTick \/ Submit \/ \E r \in Runs : Delete(r)
    BY <1>6, AsksKeeps
  <1>7. CASE \E op \in Control : Click(op)
    BY <1>7, ClickKeeps
  <1> QED BY <1>1, <1>2, <1>3, <1>4, <1>5, <1>6, <1>7 DEF Next

\* Every step moves the rows along the lifecycle, or leaves them.
LEMMA NextIsLifecycle ==
    ASSUME ClientAssumption, IInv, [Next]_vars
    PROVE  [Lifecycles!Next]_row
  <1>1. CASE Elsewhere
    BY <1>1, ElsewhereStep DEF IInv
  <1>2. ASSUME NEW m \in net, Serve(m) \/ Fault(m)
        PROVE  [Lifecycles!Next]_row
    BY <1>2, ServeStep DEF IInv
  <1>3. ASSUME NEW m \in net, Handle(m)
        PROVE  row' = row
    BY <1>3 DEF Handle, Reduce, Attach, Saved, Created, Listed, Deleted, server
  <1>4. CASE ListPage \/ EditorPage \/ \E r \in Runs : RunPage(r)
    BY <1>4 DEF ListPage, EditorPage, RunPage, Mount, server
  <1>5. CASE Poll \/ PollMetrics \/ ListTick \/ Submit \/ \E r \in Runs : Delete(r)
    BY <1>5 DEF Poll, PollMetrics, ListTick, Submit, Delete, server
  <1>6. CASE \E op \in Control : Click(op)
    BY <1>6 DEF Click, server
  <1>7. CASE UNCHANGED vars
    BY <1>7 DEF vars
  <1> QED BY <1>1, <1>2, <1>3, <1>4, <1>5, <1>6, <1>7 DEF Next

-----------------------------------------------------------------------------
\* The store, the rows, the list and the requests keep the types the slice and
\* the API declare, whatever arrives in whatever order.
THEOREM ClientTypes == Spec => []Types
  <1>1. Init => IInv
    BY InvFirst, ClientAssumption
  <1>2. IInv /\ [Next]_vars => IInv'
    BY InvKept, ClientAssumption
  <1>3. IInv => Types
    BY DEF IInv
  <1> QED BY <1>1, <1>2, <1>3, PTL DEF Spec

\* No button of a run stays disabled without a call in flight: a run the slice
\* shows as having an action pending has one, for any number of polls, clicks,
\* faults and pages.
THEOREM PendingAlwaysHasAction == Spec => []PendingHasAction
  <1>1. Init => IInv
    BY InvFirst, ClientAssumption
  <1>2. IInv /\ [Next]_vars => IInv'
    BY InvKept, ClientAssumption
  <1>3. IInv => PendingHasAction
    BY DEF IInv
  <1> QED BY <1>1, <1>2, <1>3, PTL DEF Spec

\* A run whose deletion the list page was told of is in none of the lists it
\* shows afterwards, however many loads were on their way.
THEOREM DeletedStaysOffTheList == Spec => []DeletedRunIsNotListed
  <1>1. Init => IInv
    BY InvFirst, ClientAssumption
  <1>2. IInv /\ [Next]_vars => IInv'
    BY InvKept, ClientAssumption
  <1>3. IInv => DeletedRunIsNotListed
    BY DEF IInv, GoneInv
  <1> QED BY <1>1, <1>2, <1>3, PTL DEF Spec

\* The effects of the editor never leave the metrics of a run other than the one in
\* focus as the last they sent to the canvas.
THEOREM DispatchAlwaysOfFocus == Spec => []DispatchIsOfFocus
  <1>1. Init => IInv
    BY InvFirst, ClientAssumption
  <1>2. IInv /\ [Next]_vars => IInv'
    BY InvKept, ClientAssumption
  <1>3. IInv => DispatchIsOfFocus
    BY DEF IInv
  <1> QED BY <1>1, <1>2, <1>3, PTL DEF Spec

\* Whatever the pages ask for and however late, the rows only move along the
\* lifecycle matrix: the composition implements RunLifecycle.
THEOREM RowsFollowTheLifecycle == Spec => Lifecycles!Spec
  <1>1. Init => IInv
    BY InvFirst, ClientAssumption
  <1>2. IInv /\ [Next]_vars => IInv'
    BY InvKept, ClientAssumption
  <1>3. Init => Lifecycles!Init
    BY DEF Init, Lifecycles!Init
  <1>4. IInv /\ [Next]_vars => [Lifecycles!Next]_row
    BY NextIsLifecycle, ClientAssumption
  <1> QED BY <1>1, <1>2, <1>3, <1>4, PTL DEF Spec, Lifecycles!Spec

=============================================================================
