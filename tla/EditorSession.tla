--------------------------- MODULE EditorSession ---------------------------
(***************************************************************************)
(* The architecture editor: the graph on the canvas with its undo history  *)
(* and clipboard (the editor slice), and its way to the server (autosave,  *)
(* "Save & run", the copy of the architecture the workspace layout holds,  *)
(* and the row that a new run takes its snapshot from).  The metrics and   *)
(* the health of a run are painted over the components themselves, so that *)
(* history, clipboard and saves carry them along.                          *)
(*                                                                         *)
(* One architecture is enough: an editor that is left and opened again     *)
(* meets the answers of its predecessor whatever it shows.                 *)
(***************************************************************************)
EXTENDS Naturals, Sequences, SequencesExt, FiniteSets

CONSTANTS
    Configs,        \* what the editor saves of a component but its health:
                    \* settings, and its place on the canvas
    Filled,         \* for settings of the API the editor cannot hold, what it
                    \* makes of them: gaps filled with defaults, the rest dropped
    Refused,        \* settings the API refuses: replicas out of their bounds
    Healths,        \* health of a component: "healthy" and others
    Names,          \* names of the architecture
    HistoryLimit,   \* HISTORY_LIMIT
    Rows,           \* architectures the server may have at first: name and graph
    Budgets         \* bounds: records of the components on a canvas (those at
                    \* first included) and of the gestures (edits, selections,
                    \* copies), PATCH requests, network faults and answers with
                    \* metrics of a behaviour

ASSUME EditorAssumption ==
    /\ Refused \subseteq Configs
    /\ Filled \in [DOMAIN Filled -> Configs] /\ DOMAIN Filled \cap Configs = {}
    /\ "healthy" \in Healths
    /\ HistoryLimit \in Nat \ {0}
    /\ Budgets \subseteq [nodes : Nat, gestures : Nat, patches : Nat, faults : Nat,
                          paints : Nat]

VARIABLES
    editor,     \* the editor slice (a record, see Opened)
    open,       \* whether the editor is mounted
    timer,      \* whether the autosave timer runs
    focus,      \* the run the editor shows (activeId), whether its metrics have
                \* come, and whether the editor waits for a run to attach to
    patches,    \* PATCH requests in flight and answers not yet handled
    load,       \* the reload of the workspace: what it is waiting for or brings
    creates,    \* the POSTs of runs, between flushSave and their answers
    row,        \* the row of the architecture: name and graph
    copy,       \* what the workspace layout holds of it
    started,    \* runs: what the user asked to run, and the snapshot taken
    stored,     \* history: the last edit that is in a PATCH the server stored
    crossed,    \* history: whether saves, loads and edits overlapped (see Cross)
    revived,    \* history: whether undo, redo or paste brought old data back since
                \* the canvas was last reset
    left        \* what is left of the budget

server == <<row, started, stored>>
vars == <<editor, open, timer, focus, patches, load, creates, row, copy, started,
          stored, crossed, revived, left>>

None == [at |-> "none"]

\* Runs are numbered from 1.
NoRun == 0

NoFocus == [run |-> NoRun, results |-> FALSE, attaching |-> FALSE]

-----------------------------------------------------------------------------
(* The editor slice.  A graph has components, directed connections, and the
   selected ones of each.  Ids are drawn in order; the real ones are random and
   never meet either.  Connections have settings and overlays, too: they are
   read, saved and painted with those of the components, and left out.       *)

\* The data of a component; `live` is the run whose metrics it shows.
Component(config, health, live) == [config |-> config, health |-> health, live |-> live]

Graph(nodes, edges, selected) ==
    [nodes |-> nodes, edges |-> edges, selected |-> selected, links |-> {}]

Ids(g) == DOMAIN g.nodes

\* serializeNode: all but the metrics of a run; its health is saved.
Serialized(node) == [config |-> node.config, health |-> node.health]

Body(e) ==
    [name |-> e.name,
     nodes |-> [n \in Ids(e.graph) |-> Serialized(e.graph.nodes[n])],
     edges |-> e.graph.edges]

\* deserializeNode.
Read(config) == IF config \in DOMAIN Filled THEN Filled[config] ELSE config

Deserialized(node) == Component(Read(node.config), node.health, NoRun)

\* initEditor: history is cleared, the clipboard is not.
Opened(e, body) ==
    [e EXCEPT !.name = body.name,
              !.graph = Graph([n \in DOMAIN body.nodes |-> Deserialized(body.nodes[n])],
                              body.edges, {}),
              !.past = <<>>, !.future = <<>>, !.dirty = FALSE]

WithNodes(e, nodes) == [e EXCEPT !.graph = [@ EXCEPT !.nodes = nodes]]

\* Mutant: the metrics of the run before are left on the canvas.
ClearedHealth(e) ==
    WithNodes(e, [n \in Ids(e.graph) |->
                    Component(e.graph.nodes[n].config, "healthy", e.graph.nodes[n].live)])

\* clearSimulationMetrics.
Cleared(e) ==
    WithNodes(e, [n \in Ids(e.graph) |-> Component(e.graph.nodes[n].config, "healthy", NoRun)])

\* applySimulationMetrics, of a run of the components in nodes.
PaintedBy(e, run, nodes, health) ==
    WithNodes(e, [n \in Ids(e.graph) |->
                    IF n \in nodes THEN Component(e.graph.nodes[n].config, health, run)
                    ELSE e.graph.nodes[n]])

\* Mutant: a snapshot is taken for granted when the components are the same.
PushedCoarsely(e) ==
    IF e.past # <<>> /\ Ids(Last(e.past)) = Ids(e.graph) THEN e
    ELSE LET past == Append(e.past, e.graph)
         IN  [e EXCEPT !.past = IF Len(past) > HistoryLimit THEN Tail(past) ELSE past,
                       !.future = <<>>]

\* pushSnapshot: nothing is pushed twice in a row, the oldest is dropped.
Pushed(e) ==
    IF e.past # <<>> /\ Last(e.past) = e.graph THEN e
    ELSE LET past == Append(e.past, e.graph)
         IN  [e EXCEPT !.past = IF Len(past) > HistoryLimit THEN Tail(past) ELSE past,
                       !.future = <<>>]

Edited(e, g) == [e EXCEPT !.graph = g, !.dirty = TRUE, !.edits = @ + 1]

Added(e, config) ==
    LET new == e.fresh
        g == e.graph
    IN  [Edited(Pushed(e), [g EXCEPT !.nodes = [n \in Ids(g) \cup {new} |->
                                        IF n = new THEN Component(config, "healthy", NoRun)
                                        ELSE g.nodes[n]],
                                     !.selected = {new}, !.links = {}])
         EXCEPT !.fresh = @ + 1]

Connected(e, a, b) ==
    IF a = b THEN e ELSE Edited(Pushed(e), [e.graph EXCEPT !.edges = @ \cup {<<a, b>>}])

Changed(e, n, config) ==
    LET node == e.graph.nodes[n]
    IN  Edited(e, [e.graph EXCEPT !.nodes[n] = Component(config, node.health, node.live)])

\* deleteSelected: connections go with the components they touch.
Deleted(e) ==
    LET g == e.graph
        nodes == Ids(g) \ g.selected
    IN  IF g.selected = {} /\ g.links = {} THEN e
        ELSE Edited(Pushed(e),
                Graph([n \in nodes |-> g.nodes[n]],
                      {d \in g.edges \ g.links : d[1] \in nodes /\ d[2] \in nodes}, {}))

\* copySelection: the selected components and the connections among them.
Copied(e) ==
    LET g == e.graph
        nodes == Ids(g) \cap g.selected
    IN  [e EXCEPT !.clipboard =
            [nodes |-> [n \in nodes |-> g.nodes[n]],
             edges |-> {d \in g.edges : d[1] \in nodes /\ d[2] \in nodes}]]

\* paste: every copied component gets an id of its own, the connections follow.
Pasted(e) ==
    LET old == SetToSortSeq(DOMAIN e.clipboard.nodes, <)
        new == e.fresh .. e.fresh + Len(old) - 1
        g == e.graph
        NewId(n) == e.fresh + (CHOOSE i \in DOMAIN old : old[i] = n) - 1
    IN  IF old = <<>> THEN e
        ELSE [Edited(Pushed(e),
                [nodes |-> [n \in Ids(g) \cup new |->
                              IF n \in new THEN e.clipboard.nodes[old[n - e.fresh + 1]]
                              ELSE g.nodes[n]],
                 edges |-> g.edges \cup {<<NewId(d[1]), NewId(d[2])>> : d \in e.clipboard.edges},
                 selected |-> new, links |-> g.links])
              EXCEPT !.fresh = @ + Len(old)]

Undone(e) ==
    IF e.past = <<>> THEN e
    ELSE [Edited(e, Last(e.past)) EXCEPT
            !.past = Front(@), !.future = Append(@, e.graph)]

Redone(e) ==
    IF e.future = <<>> THEN e
    ELSE [Edited(e, Last(e.future)) EXCEPT
            !.future = Front(@), !.past = Append(@, e.graph)]

Renamed(e, name) == [e EXCEPT !.name = name, !.dirty = TRUE, !.edits = @ + 1]

MarkedSaved(e) == [e EXCEPT !.dirty = FALSE, !.saving = FALSE]

\* The edits that change which components and connections there are.
Structural(e) ==
    {Added(e, c) : c \in Configs}
    \cup {Connected(e, a, b) : a, b \in Ids(e.graph)}
    \cup {Deleted(Pushed(e))}

-----------------------------------------------------------------------------
Init ==
    /\ \E r \in Rows :
          /\ row = [name |-> r.name, nodes |-> r.nodes, edges |-> r.edges]
          /\ editor = [name |-> r.name, graph |-> Graph(<<>>, {}, {}), past |-> <<>>, future |-> <<>>,
                       clipboard |-> [nodes |-> <<>>, edges |-> {}],
                       dirty |-> FALSE, saving |-> FALSE, edits |-> 0,
                       fresh |-> Cardinality(DOMAIN r.nodes) + 1]
    /\ copy = row
    /\ open = FALSE /\ timer = FALSE /\ focus = NoFocus
    /\ patches = {} /\ load = None /\ creates = {}
    /\ started = {} /\ stored = 0
    /\ crossed = FALSE /\ revived = FALSE
    /\ left \in Budgets

\* Mutant: the timer is cleared by a new name and not started again.
ArmedOnce(e) ==
    open /\ e.dirty /\ IF editor.dirty THEN timer /\ e.name = editor.name ELSE TRUE

\* The autosave effect: its timer starts when the graph becomes dirty, starts
\* again when the name changes, and is cleared when the graph is clean.
Armed(e) ==
    open /\ e.dirty /\ (timer \/ ~editor.dirty \/ e.name # editor.name)

Becomes(e) == editor' = e /\ timer' = Armed(e)

\* A save is on its way: from the PATCH to the handling of its answer or, of a
\* "Save & run", to the creation of the run.
Saving == patches # {} \/ creates # {}

\* Edits and saves that overlap: an edit, a save or an opening during a save,
\* and an opening with, or a reload over, something else than the row.
Cross(overlap) == crossed' = (crossed \/ overlap)

Spend(what) == left[what] > 0 /\ left' = [left EXCEPT ![what] = @ - 1]

-----------------------------------------------------------------------------
(* The user.                                                                *)

Edit(e) ==
    /\ open
    /\ e.fresh <= left.nodes + 1
    /\ e # editor
    /\ Spend("gestures")
    /\ Becomes(e)
    /\ Cross(Saving)
    /\ UNCHANGED <<open, focus, patches, load, creates, server, copy>>

\* Drops from the palette, proposals of the assistant, connections and the
\* delete key.
EditStructure == \E e \in Structural(editor) : Edit(e) /\ UNCHANGED revived

\* A field, a drag or an arrow key; with or without BeginEdit before it.
EditSettings ==
    /\ \E n \in Ids(editor.graph), c \in Configs : Edit(Changed(editor, n, c))
    /\ UNCHANGED revived

Rename == \E name \in Names : Edit(Renamed(editor, name)) /\ UNCHANGED revived

\* What brings components back as they were when they were remembered.
Revive(e) == Edit(e) /\ revived' = TRUE

Paste == Revive(Pasted(editor))

Undo == Revive(Undone(editor))

Redo == Revive(Redone(editor))

\* A gesture that is not an edit.
Gesture(e) ==
    /\ open /\ Spend("gestures")
    /\ editor' = e
    /\ UNCHANGED <<open, timer, focus, patches, load, creates, server, copy, crossed, revived>>

\* A field gets the focus, or a drag starts; a click selects; Ctrl-C.
BeginEdit == Gesture(Pushed(editor))

Select ==
    \/ Gesture([editor EXCEPT !.graph.selected = Ids(editor.graph)])
    \/ \E n \in Ids(editor.graph) :
          Gesture([editor EXCEPT !.graph.selected = {n}, !.graph.links = {}])
    \/ \E d \in editor.graph.edges :
          Gesture([editor EXCEPT !.graph.selected = {}, !.graph.links = {d}])

Copy == Gesture(Copied(editor))

\* The page takes the architecture from the workspace's copy; the effects of a
\* first rendering load it, look for a run to attach to and reset the canvas.
Open ==
    /\ ~open
    /\ open' = TRUE
    /\ editor' = Cleared(Opened(editor, copy))
    /\ timer' = FALSE
    /\ focus' = [NoFocus EXCEPT !.attaching = TRUE]
    /\ revived' = FALSE
    /\ Cross(Saving \/ copy # row)
    /\ UNCHANGED <<patches, load, creates, server, copy, left>>

\* Unmounting clears the timer and cancels the attachment; the slice stays as it
\* is, and so do the requests, which find nobody to show a run to.
Leave ==
    /\ open
    /\ open' = FALSE /\ timer' = FALSE /\ focus' = NoFocus
    /\ patches' = {[p EXCEPT !.here = FALSE] : p \in patches}
    /\ creates' = {[c EXCEPT !.here = FALSE] : c \in creates}
    /\ UNCHANGED <<editor, load, server, copy, crossed, revived, left>>

-----------------------------------------------------------------------------
(* The run the editor shows.                                                *)

\* setActiveId: the canvas is reset when it is another run.
Focus(run, attaching) ==
    IF run = focus.run
    THEN focus' = [focus EXCEPT !.attaching = attaching] /\ UNCHANGED <<editor, revived>>
    ELSE /\ focus' = [run |-> run, results |-> FALSE, attaching |-> attaching]
         /\ editor' = Cleared(editor)
         /\ revived' = FALSE

\* The architecture's runs are listed: one of them is shown, or the list is
\* empty or fails.
Attach ==
    /\ focus.attaching
    /\ \/ \E s \in started : Focus(s.run, FALSE)
       \/ Focus(focus.run, FALSE)
    /\ UNCHANGED <<open, timer, patches, load, creates, server, copy, crossed, left>>

\* onRemoved.
Detach ==
    /\ focus.run # NoRun
    /\ Focus(NoRun, focus.attaching)
    /\ UNCHANGED <<open, timer, patches, load, creates, server, copy, crossed, left>>

\* Metrics of the run arrive, of the components in its snapshot; the editor does
\* not become dirty.  One health for all of them is enough to tell it apart.
Paint ==
    /\ focus.run # NoRun /\ Spend("paints")
    /\ \E s \in started, health \in Healths :
          /\ s.run = focus.run
          /\ editor' = PaintedBy(editor, s.run, DOMAIN s.taken.nodes, health)
    /\ focus' = [focus EXCEPT !.results = TRUE]
    /\ UNCHANGED <<open, timer, patches, load, creates, server, copy, crossed, revived>>

-----------------------------------------------------------------------------
(* Saving.                                                                  *)

Patch(by) ==
    [by |-> by, nr |-> left.patches, body |-> Body(editor), edits |-> editor.edits,
     here |-> TRUE, at |-> "sent"]

Send(by) ==
    /\ Spend("patches")
    /\ patches' = patches \cup {Patch(by)}
    /\ editor' = [editor EXCEPT !.saving = TRUE]
    /\ Cross(Saving)

Autosave ==
    /\ timer
    /\ timer' = FALSE
    /\ Send("autosave")
    /\ UNCHANGED <<open, focus, load, creates, server, copy, revived>>

\* "Save & run": the architecture is saved, then the run is created from it.  The
\* button is disabled while a run is being created, not while it is saved.
SaveAndRun ==
    /\ open /\ creates = {}
    /\ Send("flush")
    /\ UNCHANGED <<open, timer, focus, load, creates, server, copy, revived>>

\* updateArchitectureSchema.
Accepts(body) == \A n \in DOMAIN body.nodes : body.nodes[n].config \notin Refused

ServePatch(p) ==
    /\ p.at = "sent"
    /\ row' = IF Accepts(p.body) THEN p.body ELSE row
    /\ stored' = IF Accepts(p.body) /\ p.edits > stored THEN p.edits ELSE stored
    /\ patches' = (patches \ {p}) \cup
                  {[p EXCEPT !.at = IF Accepts(p.body) THEN "ok" ELSE "error"]}
    /\ UNCHANGED <<editor, open, timer, focus, load, creates, started, copy, crossed, revived, left>>

\* The connection fails before the request is served, or after.
Fault(p) ==
    /\ Spend("faults")
    /\ p.at \in {"sent", "ok"}
    /\ patches' = (patches \ {p}) \cup {[p EXCEPT !.at = "error"]}
    /\ UNCHANGED <<editor, open, timer, focus, load, creates, server, copy, crossed, revived>>

\* Mutant: a failed save is taken for a saved one.
SaveFailedQuietly(p) ==
    /\ p.at = "error"
    /\ patches' = patches \ {p}
    /\ Becomes(MarkedSaved(editor))
    /\ UNCHANGED <<open, focus, load, creates, server, copy, crossed, revived, left>>

\* markSaved, whatever the editor holds by now; flushSave then creates the run.
Saved(p) ==
    /\ p.at = "ok"
    /\ patches' = patches \ {p}
    /\ Becomes(MarkedSaved(editor))
    /\ creates' = IF p.by = "flush"
                  THEN creates \cup {[asked |-> p.body, nr |-> p.nr, here |-> p.here]}
                  ELSE creates
    /\ UNCHANGED <<open, focus, load, server, copy, crossed, revived, left>>

\* The graph stays dirty and the timer is not started again; a failed
\* flushSave leaves the saving flag, too.
SaveFailed(p) ==
    /\ p.at = "error"
    /\ patches' = patches \ {p}
    /\ editor' = [editor EXCEPT !.saving = @ /\ p.by = "flush"]
    /\ UNCHANGED <<open, timer, focus, load, creates, server, copy, crossed, revived, left>>

\* The POST is answered with a run, which is shown if the editor is still there.
Starts(c, taken) ==
    LET run == Cardinality(started) + 1
    IN  /\ started' = started \cup {[run |-> run, asked |-> c.asked, taken |-> taken]}
        /\ creates' = creates \ {c}
        /\ IF c.here THEN Focus(run, focus.attaching) ELSE UNCHANGED <<editor, focus, revived>>
        /\ UNCHANGED <<open, timer, patches, load, row, stored, copy, crossed, left>>

\* Mutant: the run is created from what the workspace holds.
CreateRunFromCopy(c) == Starts(c, copy)

\* SimulationService.create takes its snapshot from the row.
CreateRun(c) == Starts(c, row)

\* The error is shown in the dialog.
CreateFailed(c) ==
    /\ Spend("faults")
    /\ creates' = creates \ {c}
    /\ UNCHANGED <<editor, open, timer, focus, patches, load, server, copy, crossed, revived>>

-----------------------------------------------------------------------------
(* The workspace reloads its architectures after one is created or deleted,
   on pages other than the editor; the answer may find the editor open.      *)

Reload ==
    /\ ~open /\ load = None
    /\ copy # row
    /\ load' = [at |-> "sent"]
    /\ UNCHANGED <<editor, open, timer, focus, patches, creates, server, copy, crossed, revived, left>>

ServeLoad ==
    /\ load.at = "sent"
    /\ load' = [at |-> "ok", body |-> row]
    /\ UNCHANGED <<editor, open, timer, focus, patches, creates, server, copy, crossed, revived, left>>

\* An open editor is given the new copy: it starts over, and shows the run in
\* focus again when its next metrics arrive.
Loaded ==
    /\ load.at = "ok"
    /\ load' = None
    /\ copy' = load.body
    /\ IF open THEN Becomes(Opened(editor, load.body)) /\ revived' = FALSE
       ELSE UNCHANGED <<editor, timer, revived>>
    /\ Cross(open /\ (Saving \/ load.body # row))
    /\ UNCHANGED <<open, focus, patches, creates, server, left>>

-----------------------------------------------------------------------------
Next ==
    \/ EditStructure \/ EditSettings \/ Rename \/ Paste \/ Undo \/ Redo
    \/ BeginEdit \/ Select \/ Copy
    \/ Open \/ Leave
    \/ Attach \/ Detach \/ Paint
    \/ Autosave \/ SaveAndRun
    \/ \E p \in patches : ServePatch(p) \/ Fault(p) \/ Saved(p) \/ SaveFailed(p)
    \/ \E c \in creates : CreateRun(c) \/ CreateFailed(c)
    \/ Reload \/ ServeLoad \/ Loaded

Spec == Init /\ [][Next]_vars

\* The timer fires, the server answers and answers are handled; the user owes
\* nothing.
Fairness ==
    /\ WF_vars(Autosave)
    /\ WF_vars(\E p \in patches : ServePatch(p))
    /\ WF_vars(\E p \in patches : Saved(p) \/ SaveFailed(p))

FairSpec == Spec /\ Fairness

-----------------------------------------------------------------------------
\* One undo takes back any edit of the structure, whether or not a field was
\* focused or a drag begun just before it; redo takes back the undo; and undo
\* and redo together keep no more than the limit, though redo never looks at it.
HistoryIsFaithful ==
    /\ \A e \in Structural(editor) \cup {Pasted(editor)} :
          e # editor => Undone(e).graph = editor.graph
    /\ editor.past # <<>> =>
          LET e == Redone(Undone(editor))
          IN  e.graph = editor.graph /\ e.past = editor.past
    /\ Len(editor.past) + Len(editor.future) <= HistoryLimit

\* What the editor makes of a body, but for the health of the components, which
\* runs paint over without making the editor dirty.
Design(body) ==
    [name |-> body.name,
     configs |-> [n \in DOMAIN body.nodes |-> Read(body.nodes[n].config)],
     edges |-> body.edges]

\* A clean editor shows what the server has, as far as it can hold it and but for
\* health, as long as edits and saves did not overlap: what was edited after the
\* timer started is part of what it saves, and what runs paint costs no edit.
CleanIsSaved ==
    open /\ ~editor.dirty /\ ~crossed /\ patches = {} => Design(Body(editor)) = Design(row)

\* A run simulates what was on the canvas when "Save & run" was clicked, as long
\* as edits and saves did not overlap.
SnapshotIsFresh == ~crossed => \A s \in started : s.taken = s.asked

\* Whom a component shows the metrics of.
Painters == {editor.graph.nodes[n].live : n \in Ids(editor.graph)} \ {NoRun}

\* The canvas shows the metrics of the run in focus and of no other, whichever
\* run was started, attached to or removed, and whatever was added and loaded in
\* between, as long as nothing was undone, redone or pasted since it was reset.
CanvasIsOfFocus == open /\ ~revived => Painters \subseteq {focus.run}

\* The numbers of the edits that a behaviour with requests to save them may make.
EditNumbers == UNION {1 .. b.gestures : b \in {c \in Budgets : c.patches > 0}}

\* An edit that waits for the timer, with no save in flight, gets to the server,
\* whatever is edited, undone, renamed and saved meanwhile, unless the editor is
\* left or loaded anew, or a save fails.
DirtyIsSaved ==
    \A k \in EditNumbers :
        editor.edits = k /\ editor.dirty /\ timer /\ patches = {}
        ~> \/ stored >= k
           \/ ~open \/ load # None \/ left.patches = 0
           \/ \E p \in patches : p.at = "error"

-----------------------------------------------------------------------------
(* What comments of the code say, and the code does not do (README).        *)

\* "Debounced autosave whenever the graph is dirty" (EditorShell): a dirty
\* editor has its timer running or a save in flight.
AutosaveWhileDirty ==
    open /\ editor.dirty => timer \/ patches # {}

\* "Reset overlays whenever the active run changes (baseline until results)"
\* (EditorShell): no metrics are shown until those of the run in focus come.
BaselineUntilResults == open /\ ~focus.results => Painters = {}

=============================================================================
