------------------------ MODULE EditorSessionProofs ------------------------
(***************************************************************************)
(* Proofs about the editor, for any graphs, settings, history limit and    *)
(* budgets: undo and redo are faithful; as long as edits and saves do not  *)
(* overlap, a clean editor shows the row and a run takes what was on the   *)
(* canvas; and as long as nothing old is brought back, the canvas shows    *)
(* the metrics of the run in focus.                                        *)
(***************************************************************************)
EXTENDS EditorSession, SequenceTheorems, TLAPS

-----------------------------------------------------------------------------
(* Shapes.  A record names its own fields: what is in them is of no concern. *)

\* A graph, and the body of a row.
GraphShape(g) ==
    g \in [nodes : {g.nodes}, edges : {g.edges}, selected : {g.selected}, links : {g.links}]

BodyShape(b) == b \in [name : {b.name}, nodes : {b.nodes}, edges : {b.edges}]

\* A history: a sequence of graphs.
Graphs(s) == \E S : s \in Seq(S) /\ \A g \in S : GraphShape(g)

\* What undo and redo remember between them is bounded.
HistoryOK(past, future) ==
    Graphs(past) /\ Graphs(future) /\ Len(past) + Len(future) <= HistoryLimit

\* The editor, a save in flight, a run to be created, and all of the state.
EditorRecord(e) ==
    e \in [name : {e.name}, graph : {e.graph}, past : {e.past}, future : {e.future},
           clipboard : {e.clipboard}, dirty : BOOLEAN, saving : BOOLEAN,
           edits : {e.edits}, fresh : {e.fresh}]

EditorShape(e) ==
    /\ EditorRecord(e)
    /\ GraphShape(e.graph)
    /\ HistoryOK(e.past, e.future)

PatchShape(p) ==
    /\ p \in [by : {p.by}, nr : {p.nr}, body : {p.body}, edits : {p.edits},
              here : {p.here}, at : {p.at}]
    /\ BodyShape(p.body)

CreateShape(c) == c \in [asked : {c.asked}, nr : {c.nr}, here : {c.here}]

Shapes ==
    /\ EditorShape(editor)
    /\ BodyShape(row) /\ BodyShape(copy)
    /\ load.at = "ok" => BodyShape(load.body)
    /\ \A p \in patches : PatchShape(p)
    /\ \A c \in creates : CreateShape(c)
    /\ crossed \in BOOLEAN

\* What an editor shows, but for health and metrics.
Look(e) ==
    [name |-> e.name, configs |-> [n \in Ids(e.graph) |-> Read(e.graph.nodes[n].config)],
     edges |-> e.graph.edges]

\* While edits and saves have not overlapped: a clean editor shows the row, at
\* most one save is in flight, it carries what the editor shows and, once
\* served, what the row is; and a run to be created was asked of the row.
InStep ==
    /\ open /\ ~editor.dirty => Look(editor) = Design(row)
    /\ \A p \in patches :
          /\ creates = {}
          /\ open => Look(editor) = Design(p.body)
          /\ p.at = "ok" => row = p.body
          /\ \A q \in patches : q = p
    /\ \A c \in creates : c.asked = row
    /\ \A s \in started : s.taken = s.asked

\* Whom the components of a canvas may show the metrics of.
Lives(e, run) == \A n \in Ids(e.graph) : e.graph.nodes[n].live \in {NoRun, run}

\* While nothing old was brought back: the run in focus.
OnCanvas == open /\ ~revived => Lives(editor, focus.run)

\* The inductive invariants.
IInv == Shapes /\ (crossed \/ InStep)

CInv == IInv /\ OnCanvas

-----------------------------------------------------------------------------
(* Histories.                                                               *)

\* A graph at the end of a history.
LEMMA Appended ==
    ASSUME NEW s, NEW g, Graphs(s), GraphShape(g)
    PROVE  /\ Graphs(Append(s, g)) /\ Append(s, g) # <<>>
           /\ Last(Append(s, g)) = g /\ Front(Append(s, g)) = s
           /\ Len(Append(s, g)) = Len(s) + 1 /\ Len(s) \in Nat
  <1>1. PICK S : s \in Seq(S) /\ \A x \in S : GraphShape(x)
    BY DEF Graphs
  <1>2. PICK T : T = S \cup {g}
    OBVIOUS
  <1>3. s \in Seq(T) /\ Append(s, g) \in Seq(T)
    BY <1>1, <1>2
  <1>4. \A x \in T : GraphShape(x)
    BY <1>1, <1>2
  <1>5. Graphs(Append(s, g))
    BY <1>3, <1>4 DEF Graphs
  <1>6. Len(Append(s, g)) = Len(s) + 1 /\ Len(s) \in Nat /\ Append(s, g) # <<>>
    BY <1>1, <1>3
  <1>7. Last(Append(s, g)) = g
    BY <1>3, <1>6 DEF Last
  <1>8. Front(Append(s, g)) = s
    BY <1>3, <1>6 DEF Front
  <1> QED BY <1>5, <1>6, <1>7, <1>8

\* The oldest graph is dropped.
LEMMA Dropped ==
    ASSUME NEW s, Graphs(s), Len(s) > 1
    PROVE  /\ Graphs(Tail(s)) /\ Tail(s) # <<>>
           /\ Last(Tail(s)) = Last(s) /\ Len(Tail(s)) = Len(s) - 1
  <1>1. PICK S : s \in Seq(S) /\ \A x \in S : GraphShape(x)
    BY DEF Graphs
  <1>2. s # <<>>
    BY <1>1
  <1>3. Tail(s) \in Seq(S) /\ Len(Tail(s)) = Len(s) - 1
    BY <1>1, <1>2
  <1>4. Tail(s) # <<>>
    <2>1. PICK n \in Nat : n = Len(s) /\ n > 1
      BY <1>1
    <2>2. Len(Tail(s)) = n - 1
      BY <1>3, <2>1
    <2>3. Len(Tail(s)) # 0
      BY <2>1, <2>2
    <2> QED BY <1>3, <2>3, EmptySeq
  <1>5. Last(Tail(s)) = Last(s)
    BY <1>1, <1>2, <1>3 DEF Last
  <1> QED BY <1>1, <1>3, <1>4, <1>5 DEF Graphs

\* The newest graph is taken off a history, and put back.
LEMMA Popped ==
    ASSUME NEW s, Graphs(s), s # <<>>
    PROVE  /\ Graphs(Front(s)) /\ GraphShape(Last(s))
           /\ Append(Front(s), Last(s)) = s
           /\ Len(Front(s)) = Len(s) - 1 /\ Len(s) \in Nat
  <1>1. PICK S : s \in Seq(S) /\ \A x \in S : GraphShape(x)
    BY DEF Graphs
  <1>2. Len(s) \in Nat /\ Len(s) > 0
    BY <1>1
  <1>3. Last(s) \in S
    BY <1>1, <1>2 DEF Last
  <1>4. Front(s) \in Seq(S) /\ Len(Front(s)) = Len(s) - 1
    <2>1. PICK n \in Nat : n = Len(s) - 1 /\ Len(s) = n + 1
      BY <1>2
    <2>2. \A i \in 1..n : s[i] \in S
      BY <1>1, <2>1
    <2>3. SubSeq(s, 1, n) \in Seq(S) /\ Len(SubSeq(s, 1, n)) = n
      BY <2>1, <2>2, SubSeqProperties
    <2>4. Front(s) = SubSeq(s, 1, n)
      BY <2>1 DEF Front
    <2> QED BY <2>1, <2>3, <2>4
  <1>5. Append(Front(s), Last(s)) = s
    BY <1>1, <1>2, <1>4 DEF Front, Last
  <1> QED BY <1>1, <1>2, <1>3, <1>4, <1>5 DEF Graphs

\* No history at all is one.
LEMMA EmptyHistory ==
    ASSUME EditorAssumption
    PROVE  Graphs(<<>>) /\ HistoryOK(<<>>, <<>>)
  <1>1. PICK S : S = {}
    OBVIOUS
  <1>2. <<>> \in Seq(S) /\ \A x \in S : GraphShape(x)
    BY <1>1
  <1>3. Len(<<>>) = 0 /\ Len(<<>>) + Len(<<>>) <= HistoryLimit
    BY DEF EditorAssumption
  <1> QED BY <1>2, <1>3 DEF Graphs, HistoryOK

-----------------------------------------------------------------------------
(* The reducers of the slice.                                               *)

\* pushSnapshot keeps what is shown, and puts it at the end of the history.
LEMMA PushedShape ==
    ASSUME EditorAssumption, NEW e, EditorShape(e), NEW q, q = Pushed(e)
    PROVE  /\ EditorShape(q) /\ q.name = e.name /\ q.graph = e.graph /\ q.dirty = e.dirty
           /\ q.past # <<>> /\ Last(q.past) = e.graph
  <1>0. /\ GraphShape(e.graph) /\ Graphs(e.past) /\ Graphs(e.future)
        /\ Len(e.past) + Len(e.future) <= HistoryLimit
    BY DEF EditorShape, EditorRecord, HistoryOK
  <1>1. CASE e.past # <<>> /\ Last(e.past) = e.graph
    BY <1>1 DEF Pushed
  <1>2. CASE ~(e.past # <<>> /\ Last(e.past) = e.graph)
    <2>1. PICK all : all = Append(e.past, e.graph)
      OBVIOUS
    <2>2. /\ Graphs(all) /\ all # <<>> /\ Last(all) = e.graph
          /\ Len(all) = Len(e.past) + 1 /\ Len(e.past) \in Nat
      BY <1>0, <2>1, Appended
    <2>3. PICK past : past = IF Len(all) > HistoryLimit THEN Tail(all) ELSE all
      OBVIOUS
    <2>4. Len(e.future) \in Nat /\ HistoryLimit \in Nat /\ HistoryLimit > 0
      BY <1>0 DEF Graphs, EditorAssumption
    <2>5. /\ Graphs(past) /\ past # <<>> /\ Last(past) = e.graph
          /\ Len(past) <= HistoryLimit /\ Len(past) \in Nat
      <3>0. PICK n \in Nat, k \in Nat, h \in Nat :
               n = Len(e.past) /\ k = Len(e.future) /\ h = HistoryLimit
        BY <2>2, <2>4
      <3>1. n + k <= h /\ h > 0 /\ Len(all) = n + 1
        BY <1>0, <2>2, <2>4, <3>0
      <3>2. CASE n + 1 > h
        <4>0. n = h /\ n + 1 > 1
          BY <3>1, <3>2
        <4>1. Len(all) > 1 /\ n = h
          BY <3>1, <4>0
        <4>2. past = Tail(all)
          BY <2>3, <3>0, <3>1, <3>2
        <4> QED BY <2>2, <3>0, <3>1, <4>1, <4>2, Dropped
      <3>3. CASE ~(n + 1 > h)
        <4>1. past = all
          BY <2>3, <3>0, <3>1, <3>3
        <4> QED BY <2>2, <3>0, <3>1, <3>3, <4>1
      <3> QED BY <3>2, <3>3
    <2>6. q = [e EXCEPT !.past = past, !.future = <<>>]
      BY <1>2, <2>1, <2>3 DEF Pushed
    <2>7. /\ EditorRecord(q)
          /\ q.name = e.name /\ q.graph = e.graph /\ q.dirty = e.dirty
          /\ q.past = past /\ q.future = <<>>
      BY <2>6 DEF EditorShape, EditorRecord
    <2>8. Graphs(<<>>) /\ Len(<<>>) = 0
      BY EmptyHistory
    <2>9. HistoryOK(q.past, q.future)
      BY <2>5, <2>7, <2>8 DEF HistoryOK
    <2> QED BY <1>0, <2>5, <2>7, <2>9 DEF EditorShape
  <1> QED BY <1>1, <1>2

\* A change of the graph: it is shown, and the editor is dirty.
LEMMA EditedShape ==
    ASSUME NEW e, EditorShape(e), NEW g, GraphShape(g), NEW q, q = Edited(e, g)
    PROVE  /\ EditorShape(q) /\ q.dirty /\ q.name = e.name /\ q.graph = g
           /\ q.past = e.past /\ q.future = e.future
  <1>1. q = [e EXCEPT !.graph = g, !.dirty = TRUE, !.edits = @ + 1]
    BY DEF Edited
  <1>2. /\ EditorRecord(q)
        /\ q.name = e.name /\ q.graph = g /\ q.dirty
        /\ q.past = e.past /\ q.future = e.future
    BY <1>1 DEF EditorShape, EditorRecord
  <1> QED BY <1>2 DEF EditorShape

\* An editor whose next identifier is n.
WithFresh(e, n) == [e EXCEPT !.fresh = n]

\* New ids are drawn: nothing else changes.
LEMMA FreshShape ==
    ASSUME NEW e, EditorShape(e), NEW n, NEW q, q = WithFresh(e, n)
    PROVE  /\ EditorShape(q) /\ q.dirty = e.dirty /\ q.name = e.name /\ q.graph = e.graph
           /\ q.past = e.past /\ q.future = e.future
  <1>1. /\ EditorRecord(q)
        /\ q.dirty = e.dirty /\ q.name = e.name /\ q.graph = e.graph
        /\ q.past = e.past /\ q.future = e.future
    BY DEF EditorShape, EditorRecord, WithFresh
  <1> QED BY <1>1 DEF EditorShape

\* One undo takes back what the last snapshot was taken before.
LEMMA UndoneGraph ==
    ASSUME NEW e, EditorShape(e), e.past # <<>>, NEW q, q = Undone(e)
    PROVE  /\ EditorShape(q) /\ q.dirty /\ q.name = e.name /\ q.graph = Last(e.past)
           /\ q.past = Front(e.past) /\ q.future = Append(e.future, e.graph)
  <1>0. GraphShape(e.graph) /\ Graphs(e.past) /\ Graphs(e.future)
        /\ Len(e.past) + Len(e.future) <= HistoryLimit
    BY DEF EditorShape, EditorRecord, HistoryOK
  <1>1. /\ Graphs(Front(e.past)) /\ GraphShape(Last(e.past))
        /\ Len(Front(e.past)) = Len(e.past) - 1 /\ Len(e.past) \in Nat
    BY <1>0, Popped
  <1>2. /\ Graphs(Append(e.future, e.graph)) /\ Len(e.future) \in Nat
        /\ Len(Append(e.future, e.graph)) = Len(e.future) + 1
    BY <1>0, Appended
  <1>3. PICK d : d = Edited(e, Last(e.past))
    OBVIOUS
  <1>4. /\ EditorShape(d) /\ d.dirty /\ d.name = e.name /\ d.graph = Last(e.past)
        /\ d.past = e.past /\ d.future = e.future
    BY <1>1, <1>3, EditedShape
  <1>5. PICK past, future : past = Front(e.past) /\ future = Append(e.future, e.graph)
    OBVIOUS
  <1>6. q = [d EXCEPT !.past = past, !.future = future]
    BY <1>3, <1>4, <1>5 DEF Undone, EditorShape, EditorRecord
  <1>7. /\ EditorRecord(q)
        /\ q.dirty /\ q.name = e.name /\ q.graph = Last(e.past)
        /\ q.past = past /\ q.future = future
    BY <1>4, <1>6 DEF EditorShape, EditorRecord
  <1>8. HistoryOK(past, future)
    <2>1. PICK n \in Nat, k \in Nat : n = Len(e.past) /\ k = Len(e.future)
      BY <1>1, <1>2
    <2>2. Graphs(past) /\ Graphs(future)
      BY <1>1, <1>2, <1>5
    <2>3. Len(past) = n - 1 /\ Len(future) = k + 1
      BY <1>1, <1>2, <1>5, <2>1
    <2>4. Len(past) + Len(future) = n + k
      BY <2>3
    <2>5. n + k <= HistoryLimit
      BY <1>0, <2>1
    <2> QED BY <2>2, <2>4, <2>5 DEF HistoryOK
  <1> QED BY <1>1, <1>5, <1>7, <1>8 DEF EditorShape

\* Redo is the mirror image.
LEMMA RedoneGraph ==
    ASSUME NEW e, EditorShape(e), e.future # <<>>, NEW q, q = Redone(e)
    PROVE  /\ EditorShape(q) /\ q.dirty /\ q.name = e.name /\ q.graph = Last(e.future)
           /\ q.future = Front(e.future) /\ q.past = Append(e.past, e.graph)
  <1>0. GraphShape(e.graph) /\ Graphs(e.past) /\ Graphs(e.future)
        /\ Len(e.past) + Len(e.future) <= HistoryLimit
    BY DEF EditorShape, EditorRecord, HistoryOK
  <1>1. /\ Graphs(Front(e.future)) /\ GraphShape(Last(e.future))
        /\ Len(Front(e.future)) = Len(e.future) - 1 /\ Len(e.future) \in Nat
    BY <1>0, Popped
  <1>2. /\ Graphs(Append(e.past, e.graph)) /\ Len(e.past) \in Nat
        /\ Len(Append(e.past, e.graph)) = Len(e.past) + 1
    BY <1>0, Appended
  <1>3. PICK d : d = Edited(e, Last(e.future))
    OBVIOUS
  <1>4. /\ EditorShape(d) /\ d.dirty /\ d.name = e.name /\ d.graph = Last(e.future)
        /\ d.past = e.past /\ d.future = e.future
    BY <1>1, <1>3, EditedShape
  <1>5. PICK past, future : future = Front(e.future) /\ past = Append(e.past, e.graph)
    OBVIOUS
  <1>6. q = [d EXCEPT !.past = past, !.future = future]
    BY <1>3, <1>4, <1>5 DEF Redone, EditorShape, EditorRecord
  <1>7. /\ EditorRecord(q)
        /\ q.dirty /\ q.name = e.name /\ q.graph = Last(e.future)
        /\ q.past = past /\ q.future = future
    BY <1>4, <1>6 DEF EditorShape, EditorRecord
  <1>8. HistoryOK(past, future)
    <2>1. PICK n \in Nat, k \in Nat : n = Len(e.past) /\ k = Len(e.future)
      BY <1>1, <1>2
    <2>2. Graphs(past) /\ Graphs(future)
      BY <1>1, <1>2, <1>5
    <2>3. Len(future) = k - 1 /\ Len(past) = n + 1
      BY <1>1, <1>2, <1>5, <2>1
    <2>4. Len(past) + Len(future) = n + k
      BY <2>3
    <2>5. n + k <= HistoryLimit
      BY <1>0, <2>1
    <2> QED BY <2>2, <2>4, <2>5 DEF HistoryOK
  <1> QED BY <1>1, <1>5, <1>7, <1>8 DEF EditorShape

-----------------------------------------------------------------------------
(* The gestures.                                                            *)

\* What is shown after a gesture is to be saved, or was shown before it.
EditOf(e, q) ==
    /\ EditorShape(q)
    /\ \/ q.dirty
       \/ ~e.dirty /\ ~q.dirty /\ q.name = e.name /\ q.graph = e.graph

\* One undo away from what e shows.
TakenBack(e, q) ==
    \/ q = e
    \/ q.past # <<>> /\ Last(q.past) = e.graph

\* A snapshot, and then a change of the graph.
LEMMA SnapshotThenChange ==
    ASSUME EditorAssumption, NEW e, EditorShape(e), NEW g, GraphShape(g),
           NEW q, q = Edited(Pushed(e), g)
    PROVE  EditOf(e, q) /\ TakenBack(e, q)
  <1>1. PICK p : p = Pushed(e)
    OBVIOUS
  <1>2. EditorShape(p) /\ p.past # <<>> /\ Last(p.past) = e.graph
    BY <1>1, PushedShape
  <1>3. EditorShape(q) /\ q.dirty /\ q.past = p.past
    BY <1>1, <1>2, EditedShape
  <1> QED BY <1>2, <1>3 DEF EditOf, TakenBack

\* Every edit of the structure, and a paste, can be taken back by one undo.
LEMMA StructuralEdits ==
    ASSUME EditorAssumption, NEW e, EditorShape(e), NEW q \in Structural(e) \cup {Pasted(e)}
    PROVE  EditOf(e, q) /\ TakenBack(e, q)
  <1>0. GraphShape(e.graph)
    BY DEF EditorShape, EditorRecord
  <1>1. PICK p : p = Pushed(e)
    OBVIOUS
  <1>2. /\ EditorShape(p) /\ p.past # <<>> /\ Last(p.past) = e.graph
        /\ p.name = e.name /\ p.graph = e.graph /\ p.dirty = e.dirty
    BY <1>1, PushedShape
  <1>3. EditOf(e, p) /\ TakenBack(e, p)
    BY <1>2 DEF EditOf, TakenBack, EditorShape, EditorRecord
  <1>4. ASSUME NEW g, GraphShape(g), NEW n, NEW d, d = Edited(p, g), q = WithFresh(d, n)
        PROVE  EditOf(e, q) /\ TakenBack(e, q)
    <2>1. EditorShape(d) /\ d.dirty /\ d.past = p.past
      BY <1>2, <1>4, EditedShape
    <2>2. EditorShape(q) /\ q.dirty = d.dirty /\ q.past = d.past
      BY <1>4, <2>1, FreshShape
    <2> QED BY <1>2, <2>1, <2>2 DEF EditOf, TakenBack
  <1>5. ASSUME NEW c \in Configs, q = Added(e, c)
        PROVE  EditOf(e, q) /\ TakenBack(e, q)
    <2>1. PICK g : g = [e.graph EXCEPT
                          !.nodes = [n \in Ids(e.graph) \cup {e.fresh} |->
                                       IF n = e.fresh THEN Component(c, "healthy", NoRun)
                                       ELSE e.graph.nodes[n]],
                          !.selected = {e.fresh}, !.links = {}]
      OBVIOUS
    <2>2. GraphShape(g)
      BY <1>0, <2>1 DEF GraphShape
    <2>3. PICK d : d = Edited(p, g)
      OBVIOUS
    <2>4. q = WithFresh(d, d.fresh + 1)
      <3>1. EditorShape(d)
        BY <1>2, <2>2, <2>3, EditedShape
      <3> QED BY <1>1, <1>5, <2>1, <2>3, <3>1 DEF Added, EditorShape, WithFresh
    <2> QED BY <1>4, <2>2, <2>3, <2>4
  <1>6. ASSUME NEW a, NEW b, q = Connected(e, a, b)
        PROVE  EditOf(e, q) /\ TakenBack(e, q)
    <2>1. CASE a = b
      BY <1>6, <2>1 DEF Connected, EditOf, TakenBack, EditorShape, EditorRecord
    <2>2. CASE a # b
      <3>1. PICK g : g = [e.graph EXCEPT !.edges = @ \cup {<<a, b>>}]
        OBVIOUS
      <3>2. GraphShape(g)
        BY <1>0, <3>1 DEF GraphShape
      <3>3. q = Edited(Pushed(e), g)
        BY <1>6, <2>2, <3>1 DEF Connected
      <3> QED BY <3>2, <3>3, SnapshotThenChange
    <2> QED BY <2>1, <2>2
  <1>7. CASE q = Deleted(Pushed(e))
    <2>1. q = Deleted(p)
      BY <1>1, <1>7
    <2>2. CASE p.graph.selected = {} /\ p.graph.links = {}
      <3>1. q = p
        BY <2>1, <2>2 DEF Deleted
      <3> QED BY <1>3, <3>1
    <2>3. CASE ~(p.graph.selected = {} /\ p.graph.links = {})
      <3>1. PICK g : /\ q = Edited(Pushed(p), g)
                     /\ \E nodes, edges : g = Graph(nodes, edges, {})
        BY <2>1, <2>3 DEF Deleted
      <3>2. GraphShape(g)
        BY <3>1 DEF Graph, GraphShape
      <3>3. EditOf(p, q) /\ TakenBack(p, q)
        BY <1>2, <3>1, <3>2, SnapshotThenChange
      <3> QED BY <1>2, <3>3 DEF EditOf, TakenBack
    <2> QED BY <2>2, <2>3
  <1>8. CASE q = Pasted(e)
    <2>1. CASE q = e
      BY <2>1 DEF EditOf, TakenBack, EditorShape, EditorRecord
    <2>2. CASE q # e
      <3>1. PICK nodes, edges, selected, links, n :
               q = [Edited(Pushed(e), [nodes |-> nodes, edges |-> edges,
                                       selected |-> selected, links |-> links])
                    EXCEPT !.fresh = @ + n]
        BY <1>8, <2>2 DEF Pasted
      <3>2. PICK g : g = [nodes |-> nodes, edges |-> edges,
                          selected |-> selected, links |-> links]
        OBVIOUS
      <3>3. GraphShape(g)
        BY <3>2 DEF GraphShape
      <3>4. PICK d : d = Edited(p, g)
        OBVIOUS
      <3>5. q = WithFresh(d, d.fresh + n)
        <4>1. EditorShape(d)
          BY <1>2, <3>3, <3>4, EditedShape
        <4> QED BY <1>1, <3>1, <3>2, <3>4, <4>1 DEF EditorShape, WithFresh
      <3> QED BY <1>4, <3>3, <3>4, <3>5
    <2> QED BY <2>1, <2>2
  <1> QED BY <1>5, <1>6, <1>7, <1>8 DEF Structural

\* The other edits: settings, the name, undo and redo.
LEMMA OtherEdits ==
    ASSUME NEW e, EditorShape(e), NEW q,
           \/ \E n, c : q = Changed(e, n, c)
           \/ \E name : q = Renamed(e, name)
           \/ q = Undone(e) \/ q = Redone(e)
    PROVE  EditOf(e, q)
  <1>0. GraphShape(e.graph)
    BY DEF EditorShape, EditorRecord
  <1>1. ASSUME NEW n, NEW c, q = Changed(e, n, c)
        PROVE  EditOf(e, q)
    <2>1. PICK node, g : /\ node = e.graph.nodes[n]
                         /\ g = [e.graph EXCEPT !.nodes[n] =
                                   Component(c, node.health, node.live)]
      OBVIOUS
    <2>2. GraphShape(g)
      BY <1>0, <2>1 DEF GraphShape
    <2>3. q = Edited(e, g)
      BY <1>1, <2>1 DEF Changed
    <2> QED BY <2>2, <2>3, EditedShape DEF EditOf
  <1>2. ASSUME NEW name, q = Renamed(e, name)
        PROVE  EditOf(e, q)
    <2>1. /\ EditorRecord(q)
          /\ q.dirty /\ q.graph = e.graph /\ q.past = e.past /\ q.future = e.future
      BY <1>2 DEF Renamed, EditorShape, EditorRecord
    <2> QED BY <2>1 DEF EditorShape, EditOf
  <1>3. CASE q = e
    BY <1>3 DEF EditOf, EditorShape, EditorRecord
  <1>4. CASE q = Undone(e) /\ q # e
    BY <1>4, UndoneGraph DEF Undone, EditOf
  <1>5. CASE q = Redone(e) /\ q # e
    BY <1>5, RedoneGraph DEF Redone, EditOf
  <1> QED BY <1>1, <1>2, <1>3, <1>4, <1>5

\* What only concerns the user's hands, or the saving flag, leaves what is shown.
LEMMA GestureKeeps ==
    ASSUME NEW e, EditorShape(e), NEW q,
           \/ \E s : q = [e EXCEPT !.graph.selected = s]
           \/ \E s, l : q = [e EXCEPT !.graph.selected = s, !.graph.links = l]
           \/ q = Copied(e)
           \/ \E flag \in BOOLEAN : q = [e EXCEPT !.saving = flag]
    PROVE  EditorShape(q) /\ q.dirty = e.dirty /\ Look(q) = Look(e)
  <1>0. GraphShape(e.graph)
    BY DEF EditorShape, EditorRecord
  <1>1. ASSUME NEW g, GraphShape(g), g.nodes = e.graph.nodes, g.edges = e.graph.edges,
               q = [e EXCEPT !.graph = g]
        PROVE  EditorShape(q) /\ q.dirty = e.dirty /\ Look(q) = Look(e)
    <2>1. /\ EditorRecord(q)
          /\ q.dirty = e.dirty /\ q.name = e.name
          /\ q.graph = g /\ q.past = e.past /\ q.future = e.future
      BY <1>1 DEF EditorShape, EditorRecord
    <2>2. q.graph.nodes = e.graph.nodes /\ q.graph.edges = e.graph.edges
      BY <1>1, <2>1
    <2>3. Look(q) = Look(e)
      BY <2>1, <2>2 DEF Look, Ids
    <2> QED BY <1>1, <2>1, <2>3 DEF EditorShape
  <1>2. ASSUME NEW s, q = [e EXCEPT !.graph.selected = s]
        PROVE  EditorShape(q) /\ q.dirty = e.dirty /\ Look(q) = Look(e)
    <2>1. PICK g : g = [e.graph EXCEPT !.selected = s]
      OBVIOUS
    <2>2. GraphShape(g) /\ g.nodes = e.graph.nodes /\ g.edges = e.graph.edges
      BY <1>0, <2>1 DEF GraphShape
    <2>3. q = [e EXCEPT !.graph = g]
      BY <1>2, <2>1
    <2> QED BY <1>1, <2>2, <2>3
  <1>3. ASSUME NEW s, NEW l, q = [e EXCEPT !.graph.selected = s, !.graph.links = l]
        PROVE  EditorShape(q) /\ q.dirty = e.dirty /\ Look(q) = Look(e)
    <2>1. PICK g : g = [e.graph EXCEPT !.selected = s, !.links = l]
      OBVIOUS
    <2>2. GraphShape(g) /\ g.nodes = e.graph.nodes /\ g.edges = e.graph.edges
      BY <1>0, <2>1 DEF GraphShape
    <2>3. q = [e EXCEPT !.graph = g]
      BY <1>3, <2>1 DEF EditorShape, EditorRecord
    <2> QED BY <1>1, <2>2, <2>3
  <1>4. ASSUME \/ q = Copied(e)
               \/ \E flag \in BOOLEAN : q = [e EXCEPT !.saving = flag]
        PROVE  EditorShape(q) /\ q.dirty = e.dirty /\ Look(q) = Look(e)
    <2>1. /\ EditorRecord(q)
          /\ q.dirty = e.dirty /\ q.name = e.name
          /\ q.graph = e.graph /\ q.past = e.past /\ q.future = e.future
      BY <1>4 DEF EditorShape, EditorRecord, Copied
    <2> QED BY <1>4, <2>1 DEF EditorShape, Look
  <1> QED BY <1>2, <1>3, <1>4

\* Health and metrics are painted over: what is shown besides stays.
LEMMA Repainted ==
    ASSUME NEW e, EditorShape(e), NEW nodes, DOMAIN nodes = Ids(e.graph),
           \A n \in Ids(e.graph) : nodes[n].config = e.graph.nodes[n].config,
           NEW q, q = WithNodes(e, nodes)
    PROVE  EditorShape(q) /\ q.dirty = e.dirty /\ Look(q) = Look(e) /\ q.graph.nodes = nodes
  <1>0. GraphShape(e.graph)
    BY DEF EditorShape
  <1>1. PICK g : g = [e.graph EXCEPT !.nodes = nodes]
    OBVIOUS
  <1>2. GraphShape(g) /\ g.nodes = nodes /\ g.edges = e.graph.edges
    BY <1>0, <1>1 DEF GraphShape
  <1>3. q = [e EXCEPT !.graph = g]
    BY <1>1 DEF WithNodes
  <1>4. /\ EditorRecord(q)
        /\ q.dirty = e.dirty /\ q.name = e.name
        /\ q.graph = g /\ q.past = e.past /\ q.future = e.future
    BY <1>3 DEF EditorShape, EditorRecord
  <1>5. Ids(q.graph) = Ids(e.graph)
    BY <1>2, <1>4 DEF Ids
  <1>6. Look(q) = Look(e)
    BY <1>2, <1>4, <1>5 DEF Look
  <1> QED BY <1>2, <1>4, <1>6 DEF EditorShape

\* The canvas is reset: it shows the metrics of no run.
LEMMA ClearedKeeps ==
    ASSUME NEW e, EditorShape(e), NEW q, q = Cleared(e), NEW run
    PROVE  EditorShape(q) /\ q.dirty = e.dirty /\ Look(q) = Look(e) /\ Lives(q, run)
  <1>1. PICK nodes : nodes = [n \in Ids(e.graph) |->
                                Component(e.graph.nodes[n].config, "healthy", NoRun)]
    OBVIOUS
  <1>2. /\ DOMAIN nodes = Ids(e.graph)
        /\ \A n \in Ids(e.graph) :
              nodes[n].config = e.graph.nodes[n].config /\ nodes[n].live = NoRun
    BY <1>1 DEF Component
  <1>3. q = WithNodes(e, nodes)
    BY <1>1 DEF Cleared
  <1>4. EditorShape(q) /\ q.dirty = e.dirty /\ Look(q) = Look(e) /\ q.graph.nodes = nodes
    BY <1>2, <1>3, Repainted
  <1> QED BY <1>2, <1>4 DEF Lives, Ids

\* The metrics of a run are painted: those of no other are.
LEMMA PaintedKeeps ==
    ASSUME NEW e, EditorShape(e), NEW run, NEW painted, NEW health,
           NEW q, q = PaintedBy(e, run, painted, health)
    PROVE  /\ EditorShape(q) /\ q.dirty = e.dirty /\ Look(q) = Look(e)
           /\ Lives(e, run) => Lives(q, run)
  <1>1. PICK nodes : nodes = [n \in Ids(e.graph) |->
                                IF n \in painted
                                THEN Component(e.graph.nodes[n].config, health, run)
                                ELSE e.graph.nodes[n]]
    OBVIOUS
  <1>2. /\ DOMAIN nodes = Ids(e.graph)
        /\ \A n \in Ids(e.graph) :
              /\ nodes[n].config = e.graph.nodes[n].config
              /\ nodes[n].live \in {run, e.graph.nodes[n].live}
    BY <1>1 DEF Component
  <1>3. q = WithNodes(e, nodes)
    BY <1>1 DEF PaintedBy
  <1>4. EditorShape(q) /\ q.dirty = e.dirty /\ Look(q) = Look(e) /\ q.graph.nodes = nodes
    BY <1>2, <1>3, Repainted
  <1> QED BY <1>2, <1>4 DEF Lives, Ids

\* What is saved of an editor looks the same.
LEMMA LookOfBody ==
    ASSUME NEW e
    PROVE  Design(Body(e)) = Look(e) /\ BodyShape(Body(e))
  <1>1. PICK nodes : nodes = [n \in Ids(e.graph) |-> Serialized(e.graph.nodes[n])]
    OBVIOUS
  <1>2. /\ DOMAIN nodes = Ids(e.graph)
        /\ \A n \in Ids(e.graph) : nodes[n].config = e.graph.nodes[n].config
    BY <1>1 DEF Serialized
  <1>3. Body(e) = [name |-> e.name, nodes |-> nodes, edges |-> e.graph.edges]
    BY <1>1 DEF Body
  <1>4. Design(Body(e)) = Look(e)
    BY <1>2, <1>3 DEF Design, Look
  <1> QED BY <1>3, <1>4 DEF BodyShape

\* The editor starts over with a body: it shows what it can hold of it, the
\* metrics of no run, and is clean.
LEMMA OpenedShape ==
    ASSUME EditorAssumption, NEW e, EditorShape(e), NEW body, BodyShape(body),
           NEW q, q = Opened(e, body), NEW run
    PROVE  EditorShape(q) /\ ~q.dirty /\ Look(q) = Design(body) /\ Lives(q, run)
  <1>0. PICK nodes : nodes = [n \in DOMAIN body.nodes |-> Deserialized(body.nodes[n])]
    OBVIOUS
  <1>1. PICK g : g = Graph(nodes, body.edges, {})
    OBVIOUS
  <1>2. GraphShape(g) /\ g.nodes = nodes /\ g.edges = body.edges
    BY <1>1 DEF Graph, GraphShape
  <1>3. q = [e EXCEPT !.name = body.name, !.graph = g, !.past = <<>>, !.future = <<>>,
                      !.dirty = FALSE]
    BY <1>0, <1>1 DEF Opened
  <1>4. /\ EditorRecord(q)
        /\ ~q.dirty /\ q.name = body.name /\ q.graph = g /\ q.past = <<>> /\ q.future = <<>>
    BY <1>3 DEF EditorShape, EditorRecord
  <1>5. HistoryOK(<<>>, <<>>)
    BY EmptyHistory
  <1>6. /\ DOMAIN nodes = DOMAIN body.nodes
        /\ \A n \in DOMAIN body.nodes :
              nodes[n].config = Read(body.nodes[n].config) /\ nodes[n].live = NoRun
    BY <1>0 DEF Deserialized, Component
  <1>7. \A config : Read(Read(config)) = Read(config)
    BY DEF Read, EditorAssumption
  <1>8. Ids(q.graph) = DOMAIN body.nodes
    BY <1>2, <1>4, <1>6 DEF Ids
  <1>9. Look(q) = Design(body)
    <2>1. \A n \in DOMAIN body.nodes :
             Read(q.graph.nodes[n].config) = Read(body.nodes[n].config)
      BY <1>2, <1>4, <1>6, <1>7
    <2> QED BY <1>2, <1>4, <1>8, <2>1 DEF Look, Design
  <1>10. Lives(q, run)
    BY <1>2, <1>4, <1>6, <1>8 DEF Lives
  <1> QED BY <1>2, <1>4, <1>5, <1>9, <1>10 DEF EditorShape

-----------------------------------------------------------------------------
(* The invariant, action by action.                                         *)

\* It holds of the editor that is not open yet.
LEMMA InvFirst ==
    ASSUME EditorAssumption, Init
    PROVE  CInv
  <1>1. BodyShape(row) /\ copy = row
    BY DEF Init, BodyShape
  <1>2. EditorShape(editor)
    <2>1. PICK g : g = Graph(<<>>, {}, {})
      OBVIOUS
    <2>2. GraphShape(g)
      BY <2>1 DEF Graph, GraphShape
    <2>3. HistoryOK(<<>>, <<>>)
      BY EmptyHistory
    <2>4. PICK name, clipboard, fresh :
             editor = [name |-> name, graph |-> g, past |-> <<>>, future |-> <<>>,
                       clipboard |-> clipboard, dirty |-> FALSE, saving |-> FALSE,
                       edits |-> 0, fresh |-> fresh]
      BY <2>1 DEF Init
    <2> QED BY <2>2, <2>3, <2>4 DEF EditorShape, EditorRecord
  <1>3. load.at # "ok" /\ patches = {} /\ creates = {} /\ crossed = FALSE
    BY DEF Init, None
  <1>4. InStep /\ OnCanvas
    BY DEF Init, InStep, OnCanvas
  <1> QED BY <1>1, <1>2, <1>3, <1>4 DEF CInv, IInv, Shapes

\* What is crossed stays so, and what was not has had no overlap.
LEMMA NotCrossed ==
    ASSUME crossed \in BOOLEAN, NEW overlap \in BOOLEAN, Cross(overlap)
    PROVE  crossed' \in BOOLEAN /\ (~crossed' => ~crossed /\ ~overlap)
  BY DEF Cross

\* An edit while nothing is being saved.
LEMMA EditKeeps ==
    ASSUME IInv, NEW q, EditOf(editor, q), editor' = q, Cross(Saving),
           UNCHANGED <<open, patches, load, creates, row, started, copy>>
    PROVE  IInv'
  <1>1. crossed' \in BOOLEAN /\ (~crossed' => ~crossed /\ ~Saving)
    <2>1. Saving \in BOOLEAN
      BY DEF Saving
    <2> QED BY <2>1, NotCrossed DEF IInv, Shapes
  <1>2. Shapes'
    BY <1>1 DEF IInv, Shapes, EditOf
  <1>3. ASSUME ~crossed'
        PROVE  InStep'
    <2>1. InStep /\ patches = {} /\ creates = {}
      BY <1>1, <1>3 DEF IInv, Saving
    <2>2. open /\ ~q.dirty => Look(q) = Design(row)
      BY <2>1 DEF InStep, EditOf, Look
    <2> QED BY <2>1, <2>2 DEF InStep
  <1> QED BY <1>2, <1>3 DEF IInv

\* What leaves the canvas as it is.
LEMMA ShownKeeps ==
    ASSUME IInv, NEW q, EditorShape(q), q.dirty = editor.dirty, Look(q) = Look(editor),
           editor' = q,
           UNCHANGED <<open, patches, load, creates, row, started, copy, crossed>>
    PROVE  IInv'
  <1>1. Shapes'
    BY DEF IInv, Shapes
  <1>2. InStep => InStep'
    BY DEF InStep
  <1> QED BY <1>1, <1>2 DEF IInv

\* The gestures of the user.
LEMMA UserKeeps ==
    ASSUME EditorAssumption, IInv,
           \/ EditStructure \/ EditSettings \/ Rename \/ Paste \/ Undo \/ Redo
           \/ BeginEdit \/ Select \/ Copy
    PROVE  IInv'
  <1>0. EditorShape(editor)
    BY DEF IInv, Shapes
  <1>1. ASSUME NEW q, Edit(q), EditOf(editor, q)
        PROVE  IInv'
    BY <1>1, EditKeeps DEF Edit, Becomes, server
  <1>2. CASE EditStructure
    BY <1>0, <1>1, <1>2, StructuralEdits DEF EditStructure
  <1>3. CASE EditSettings
    BY <1>0, <1>1, <1>3, OtherEdits DEF EditSettings
  <1>4. CASE Rename
    BY <1>0, <1>1, <1>4, OtherEdits DEF Rename
  <1>5. CASE Paste
    BY <1>0, <1>1, <1>5, StructuralEdits DEF Paste, Revive
  <1>6. CASE Undo \/ Redo
    BY <1>0, <1>1, <1>6, OtherEdits DEF Undo, Redo, Revive
  <1>7. ASSUME NEW q, EditorShape(q), q.dirty = editor.dirty, Look(q) = Look(editor),
               editor' = q,
               UNCHANGED <<open, timer, patches, load, creates, server, copy, crossed>>
        PROVE  IInv'
    BY <1>7, ShownKeeps DEF server
  <1>8. CASE BeginEdit
    <2>1. PICK q : q = Pushed(editor)
      OBVIOUS
    <2>2. EditorShape(q) /\ q.dirty = editor.dirty /\ Look(q) = Look(editor)
      BY <1>0, <2>1, PushedShape DEF Look
    <2> QED BY <1>7, <1>8, <2>1, <2>2 DEF BeginEdit, Gesture
  <1>9. CASE Select
    <2>1. PICK q : /\ editor' = q
                   /\ \/ \E s : q = [editor EXCEPT !.graph.selected = s]
                      \/ \E s, l : q = [editor EXCEPT !.graph.selected = s, !.graph.links = l]
      BY <1>9 DEF Select, Gesture
    <2>2. EditorShape(q) /\ q.dirty = editor.dirty /\ Look(q) = Look(editor)
      BY <1>0, <2>1, GestureKeeps
    <2> QED BY <1>7, <1>9, <2>1, <2>2 DEF Select, Gesture
  <1>10. CASE Copy
    <2>1. PICK q : q = Copied(editor)
      OBVIOUS
    <2>2. EditorShape(q) /\ q.dirty = editor.dirty /\ Look(q) = Look(editor)
      BY <1>0, <2>1, GestureKeeps
    <2> QED BY <1>7, <1>10, <2>1, <2>2 DEF Copy, Gesture
  <1> QED BY <1>2, <1>3, <1>4, <1>5, <1>6, <1>8, <1>9, <1>10

\* The editor is opened on what the workspace holds, and left.
LEMMA OpenLeaveKeeps ==
    ASSUME EditorAssumption, IInv, Open \/ Leave
    PROVE  IInv'
  <1>0. EditorShape(editor) /\ BodyShape(copy) /\ BodyShape(row)
    BY DEF IInv, Shapes
  <1>1. CASE Open
    <2>1. PICK o, q : o = Opened(editor, copy) /\ q = Cleared(o)
      OBVIOUS
    <2>2. EditorShape(q) /\ ~q.dirty /\ Look(q) = Design(copy)
      <3>1. EditorShape(o) /\ ~o.dirty /\ Look(o) = Design(copy)
        BY <1>0, <2>1, OpenedShape
      <3> QED BY <2>1, <3>1, ClearedKeeps
    <2>3. /\ editor' = q /\ open' = TRUE
          /\ UNCHANGED <<patches, load, creates, row, started, copy>>
      BY <1>1, <2>1 DEF Open, server
    <2>4. crossed' \in BOOLEAN /\ (~crossed' => ~crossed /\ ~Saving /\ copy = row)
      <3>1. PICK overlap \in BOOLEAN : overlap <=> (Saving \/ copy # row)
        OBVIOUS
      <3>2. Cross(overlap)
        BY <1>1, <3>1 DEF Open, Cross
      <3> QED BY <3>1, <3>2, NotCrossed DEF IInv, Shapes
    <2>5. Shapes'
      BY <2>2, <2>3, <2>4 DEF IInv, Shapes
    <2>6. ASSUME ~crossed'
          PROVE  InStep'
      <3>1. InStep /\ patches = {} /\ creates = {} /\ copy = row
        BY <2>4, <2>6 DEF IInv, Saving
      <3> QED BY <2>2, <2>3, <3>1 DEF InStep
    <2> QED BY <2>5, <2>6 DEF IInv
  <1>2. CASE Leave
    <2>1. /\ open' = FALSE
          /\ patches' = {[p EXCEPT !.here = FALSE] : p \in patches}
          /\ creates' = {[c EXCEPT !.here = FALSE] : c \in creates}
          /\ UNCHANGED <<editor, load, row, started, copy, crossed>>
      BY <1>2 DEF Leave, server
    <2>2. \A q \in patches' : \E p \in patches :
             /\ q = [p EXCEPT !.here = FALSE]
             /\ PatchShape(q) /\ q.at = p.at /\ q.body = p.body
      <3>1. ASSUME NEW p \in patches, NEW q, q = [p EXCEPT !.here = FALSE]
            PROVE  PatchShape(q) /\ q.at = p.at /\ q.body = p.body
        <4>1. PatchShape(p)
          BY DEF IInv, Shapes
        <4> QED BY <3>1, <4>1 DEF PatchShape
      <3> QED BY <2>1, <3>1
    <2>3. \A d \in creates' : \E c \in creates : CreateShape(d) /\ d.asked = c.asked
      <3>1. ASSUME NEW c \in creates, NEW d, d = [c EXCEPT !.here = FALSE]
            PROVE  CreateShape(d) /\ d.asked = c.asked
        <4>1. CreateShape(c)
          BY DEF IInv, Shapes
        <4> QED BY <3>1, <4>1 DEF CreateShape
      <3> QED BY <2>1, <3>1
    <2>4. Shapes'
      BY <2>1, <2>2, <2>3 DEF IInv, Shapes
    <2>5. ASSUME InStep
          PROVE  InStep'
      <3>1. ASSUME NEW q \in patches'
            PROVE  /\ creates' = {} /\ (q.at = "ok" => row = q.body)
                   /\ \A r \in patches' : r = q
        <4>1. PICK p \in patches : q = [p EXCEPT !.here = FALSE] /\ q.at = p.at /\ q.body = p.body
          BY <2>2
        <4>2. /\ creates = {} /\ (p.at = "ok" => row = p.body)
              /\ \A o \in patches : o = p
          BY <2>5 DEF InStep
        <4>3. \A r \in patches' : r = q
          BY <2>1, <4>1, <4>2
        <4> QED BY <2>1, <4>1, <4>2, <4>3
      <3>2. \A d \in creates' : d.asked = row
        BY <2>3, <2>5 DEF InStep
      <3> QED BY <2>1, <2>5, <3>1, <3>2 DEF InStep
    <2> QED BY <2>1, <2>4, <2>5 DEF IInv
  <1> QED BY <1>1, <1>2

\* Another run, or none, is shown, or metrics come: nothing is edited.
LEMMA FocusKeeps ==
    ASSUME IInv, Attach \/ Detach \/ Paint
    PROVE  IInv'
  <1>0. EditorShape(editor)
    BY DEF IInv, Shapes
  <1>1. PICK q : /\ editor' = q /\ EditorShape(q) /\ q.dirty = editor.dirty
                 /\ Look(q) = Look(editor)
    <2>1. ASSUME NEW run, NEW attaching, Focus(run, attaching)
          PROVE  editor' = editor \/ editor' = Cleared(editor)
      BY <2>1 DEF Focus
    <2>2. CASE Attach \/ Detach
      <3>1. editor' = editor \/ editor' = Cleared(editor)
        BY <2>1, <2>2 DEF Attach, Detach
      <3> QED BY <1>0, <3>1, ClearedKeeps
    <2>3. CASE Paint
      <3>1. PICK run, painted, health : editor' = PaintedBy(editor, run, painted, health)
        BY <2>3 DEF Paint
      <3> QED BY <1>0, <3>1, PaintedKeeps
    <2> QED BY <2>2, <2>3
  <1>2. UNCHANGED <<open, patches, load, creates, row, started, copy, crossed>>
    BY DEF Attach, Detach, Paint, server
  <1> QED BY <1>1, <1>2, ShownKeeps

\* A save is sent: it carries what the editor shows.
LEMMA SendKeeps ==
    ASSUME IInv, NEW by, Send(by), UNCHANGED <<open, load, creates, row, started, copy>>
    PROVE  IInv'
  <1>0. EditorShape(editor)
    BY DEF IInv, Shapes
  <1>1. PICK p : p = Patch(by)
    OBVIOUS
  <1>2. PatchShape(p) /\ p.body = Body(editor) /\ p.at = "sent"
    <2>1. p.body = Body(editor) /\ BodyShape(p.body)
      BY <1>1, LookOfBody DEF Patch
    <2> QED BY <1>1, <2>1 DEF Patch, PatchShape
  <1>3. PICK q : q = [editor EXCEPT !.saving = TRUE]
    OBVIOUS
  <1>4. EditorShape(q) /\ q.dirty = editor.dirty /\ Look(q) = Look(editor)
    <2>1. \E flag \in BOOLEAN : q = [editor EXCEPT !.saving = flag]
      BY <1>3
    <2> QED BY <1>0, <2>1, GestureKeeps
  <1>5. patches' = patches \cup {p} /\ editor' = q
    BY <1>1, <1>3 DEF Send
  <1>6. crossed' \in BOOLEAN /\ (~crossed' => ~crossed /\ ~Saving)
    <2>1. Saving \in BOOLEAN
      BY DEF Saving
    <2> QED BY <2>1, NotCrossed DEF IInv, Shapes, Send
  <1>7. Shapes'
    BY <1>2, <1>4, <1>5, <1>6 DEF IInv, Shapes
  <1>8. ASSUME ~crossed'
        PROVE  InStep'
    <2>1. InStep /\ patches = {} /\ creates = {}
      BY <1>6, <1>8 DEF IInv, Saving
    <2>2. patches' = {p}
      BY <1>5, <2>1
    <2>3. Design(p.body) = Look(editor)
      BY <1>2, LookOfBody
    <2> QED BY <1>2, <1>4, <1>5, <2>1, <2>2, <2>3 DEF InStep
  <1> QED BY <1>7, <1>8 DEF IInv

\* The answer to a save, or its loss: the patch is replaced by one that carries
\* the same.
LEMMA AnsweredKeeps ==
    ASSUME IInv, NEW p \in patches, ServePatch(p) \/ Fault(p)
    PROVE  IInv'
  <1>0. PatchShape(p)
    BY DEF IInv, Shapes
  <1>1. PICK q : /\ patches' = (patches \ {p}) \cup {q} /\ PatchShape(q) /\ q.body = p.body
                 /\ \/ row' = row /\ q.at # "ok"
                    \/ row' = p.body /\ q.at = "ok"
    <2>1. ASSUME NEW at, NEW q, q = [p EXCEPT !.at = at]
          PROVE  PatchShape(q) /\ q.body = p.body /\ q.at = at
      <3>1. /\ q \in [by : {q.by}, nr : {q.nr}, body : {q.body}, edits : {q.edits},
                       here : {q.here}, at : {q.at}]
            /\ q.body = p.body /\ q.at = at
        BY <1>0, <2>1 DEF PatchShape
      <3> QED BY <1>0, <3>1 DEF PatchShape
    <2>2. CASE Fault(p)
      <3>1. PICK q : q = [p EXCEPT !.at = "error"]
        OBVIOUS
      <3> QED BY <2>1, <2>2, <3>1 DEF Fault, server
    <2>3. CASE ServePatch(p) /\ Accepts(p.body)
      <3>1. PICK q : q = [p EXCEPT !.at = "ok"]
        OBVIOUS
      <3> QED BY <2>1, <2>3, <3>1 DEF ServePatch
    <2>4. CASE ServePatch(p) /\ ~Accepts(p.body)
      <3>1. PICK q : q = [p EXCEPT !.at = "error"]
        OBVIOUS
      <3> QED BY <2>1, <2>4, <3>1 DEF ServePatch
    <2> QED BY <2>2, <2>3, <2>4
  <1>2. UNCHANGED <<editor, open, load, creates, started, copy, crossed>>
    BY DEF ServePatch, Fault, server
  <1>3. Shapes'
    BY <1>0, <1>1, <1>2 DEF IInv, Shapes, PatchShape
  <1>4. ASSUME InStep
        PROVE  InStep'
    <2>1. patches' = {q}
      BY <1>1, <1>4 DEF InStep
    <2>2. creates = {} /\ (open => Look(editor) = Design(p.body))
      BY <1>4 DEF InStep
    <2>3. open /\ ~editor.dirty => Look(editor) = Design(row')
      BY <1>1, <1>4, <2>2 DEF InStep
    <2> QED BY <1>1, <1>2, <1>4, <2>1, <2>2, <2>3 DEF InStep
  <1> QED BY <1>2, <1>3, <1>4 DEF IInv

\* The answer is handled: the editor is clean, and a run may be asked for.
LEMMA SavedKeeps ==
    ASSUME IInv, NEW p \in patches, Saved(p) \/ SaveFailed(p)
    PROVE  IInv'
  <1>0. EditorShape(editor) /\ PatchShape(p)
    BY DEF IInv, Shapes
  <1>1. CASE SaveFailed(p)
    <2>1. PICK q : q = [editor EXCEPT !.saving = @ /\ p.by = "flush"]
      OBVIOUS
    <2>2. EditorShape(q) /\ q.dirty = editor.dirty /\ Look(q) = Look(editor)
      <3>1. PICK flag \in BOOLEAN : flag <=> (editor.saving /\ p.by = "flush")
        OBVIOUS
      <3>2. q = [editor EXCEPT !.saving = flag]
        BY <1>0, <2>1, <3>1 DEF EditorShape, EditorRecord
      <3> QED BY <1>0, <3>2, GestureKeeps
    <2>3. /\ editor' = q /\ patches' = patches \ {p}
          /\ UNCHANGED <<open, load, creates, row, started, copy, crossed>>
      BY <1>1, <2>1 DEF SaveFailed, server
    <2>4. Shapes'
      BY <2>2, <2>3 DEF IInv, Shapes
    <2>5. InStep => InStep'
      BY <2>2, <2>3 DEF InStep
    <2> QED BY <2>3, <2>4, <2>5 DEF IInv
  <1>2. CASE Saved(p)
    <2>1. PICK q : q = MarkedSaved(editor)
      OBVIOUS
    <2>2. EditorShape(q) /\ Look(q) = Look(editor)
      <3>1. /\ EditorRecord(q)
            /\ q.name = editor.name
            /\ q.graph = editor.graph /\ q.past = editor.past /\ q.future = editor.future
        BY <1>0, <2>1 DEF MarkedSaved, EditorShape, EditorRecord
      <3> QED BY <1>0, <3>1 DEF EditorShape, Look
    <2>3. /\ p.at = "ok" /\ editor' = q /\ patches' = patches \ {p}
          /\ creates' \subseteq creates \cup {[asked |-> p.body, nr |-> p.nr, here |-> p.here]}
          /\ UNCHANGED <<open, load, row, started, copy, crossed>>
      BY <1>2, <2>1 DEF Saved, Becomes, server
    <2>4. Shapes'
      <3>1. \A c \in creates' : CreateShape(c)
        BY <2>3 DEF IInv, Shapes, CreateShape
      <3> QED BY <2>2, <2>3, <3>1 DEF IInv, Shapes
    <2>5. ASSUME InStep
          PROVE  InStep'
      <3>1. /\ patches' = {} /\ creates = {} /\ row = p.body
            /\ open => Look(editor) = Design(p.body)
        BY <2>3, <2>5 DEF InStep
      <3>2. \A c \in creates' : c.asked = row
        BY <2>3, <3>1
      <3> QED BY <2>2, <2>3, <2>5, <3>1, <3>2 DEF InStep
    <2> QED BY <2>3, <2>4, <2>5 DEF IInv
  <1> QED BY <1>1, <1>2

\* The run is created: its snapshot is of the row; or it is not.
LEMMA CreateKeeps ==
    ASSUME IInv, NEW c \in creates, CreateRun(c) \/ CreateFailed(c)
    PROVE  IInv'
  <1>0. EditorShape(editor)
    BY DEF IInv, Shapes
  <1>1. PICK q : /\ editor' = q /\ EditorShape(q) /\ q.dirty = editor.dirty
                 /\ Look(q) = Look(editor)
    <2>1. editor' = editor \/ editor' = Cleared(editor)
      BY DEF CreateRun, CreateFailed, Starts, Focus
    <2> QED BY <1>0, <2>1, ClearedKeeps
  <1>2. /\ creates' = creates \ {c}
        /\ UNCHANGED <<open, patches, load, row, copy, crossed>>
    BY DEF CreateRun, CreateFailed, Starts, server
  <1>3. \A s \in started' : s \in started \/ (s.taken = row /\ s.asked = c.asked)
    BY DEF CreateRun, CreateFailed, Starts, server
  <1>4. Shapes'
    BY <1>1, <1>2 DEF IInv, Shapes
  <1>5. ASSUME InStep
        PROVE  InStep'
    <2>1. patches = {} /\ c.asked = row
      BY <1>5 DEF InStep
    <2>2. \A s \in started' : s.taken = s.asked
      BY <1>3, <1>5, <2>1 DEF InStep
    <2> QED BY <1>1, <1>2, <1>5, <2>1, <2>2 DEF InStep
  <1> QED BY <1>2, <1>4, <1>5 DEF IInv

\* The workspace reloads; an open editor starts over.
LEMMA ReloadKeeps ==
    ASSUME EditorAssumption, IInv, Reload \/ ServeLoad \/ Loaded
    PROVE  IInv'
  <1>1. CASE Reload \/ ServeLoad
    <2>1. /\ UNCHANGED <<editor, open, patches, creates, row, started, copy, crossed>>
          /\ load'.at = "ok" => BodyShape(load'.body)
      BY <1>1 DEF Reload, ServeLoad, server, IInv, Shapes
    <2>2. Shapes'
      BY <2>1 DEF IInv, Shapes
    <2>3. InStep => InStep'
      BY <2>1 DEF InStep
    <2> QED BY <2>1, <2>2, <2>3 DEF IInv
  <1>2. CASE Loaded
    <2>0. EditorShape(editor) /\ BodyShape(load.body)
      BY <1>2 DEF IInv, Shapes, Loaded
    <2>1. /\ load' = None /\ copy' = load.body
          /\ UNCHANGED <<open, patches, creates, row, started>>
      BY <1>2 DEF Loaded, server
    <2>2. /\ crossed' \in BOOLEAN
          /\ ~crossed' => ~crossed /\ (open => ~Saving /\ load.body = row)
      <3>1. PICK overlap \in BOOLEAN : overlap <=> (open /\ (Saving \/ load.body # row))
        OBVIOUS
      <3>2. Cross(overlap)
        BY <1>2, <3>1 DEF Loaded, Cross
      <3> QED BY <3>1, <3>2, NotCrossed DEF IInv, Shapes
    <2>3. CASE ~open
      <3>1. editor' = editor
        BY <1>2, <2>3 DEF Loaded
      <3>2. Shapes'
        BY <2>0, <2>1, <2>2, <3>1 DEF IInv, Shapes, None
      <3>3. InStep => InStep'
        BY <2>1, <2>3, <3>1 DEF InStep
      <3> QED BY <2>2, <3>2, <3>3 DEF IInv
    <2>4. CASE open
      <3>1. PICK q : q = Opened(editor, load.body)
        OBVIOUS
      <3>2. EditorShape(q) /\ ~q.dirty /\ Look(q) = Design(load.body)
        BY <2>0, <3>1, OpenedShape
      <3>3. editor' = q
        BY <1>2, <2>4, <3>1 DEF Loaded, Becomes
      <3>4. Shapes'
        BY <2>0, <2>1, <2>2, <3>2, <3>3 DEF IInv, Shapes, None
      <3>5. ASSUME ~crossed'
            PROVE  InStep'
        <4>1. InStep /\ patches = {} /\ creates = {} /\ load.body = row
          BY <2>2, <2>4, <3>5 DEF IInv, Saving
        <4> QED BY <2>1, <3>2, <3>3, <4>1 DEF InStep
      <3> QED BY <3>4, <3>5 DEF IInv
    <2> QED BY <2>3, <2>4
  <1> QED BY <1>1, <1>2

\* Every step keeps the invariant.
LEMMA InvKept ==
    ASSUME EditorAssumption, IInv, [Next]_vars
    PROVE  IInv'
  <1>1. CASE UNCHANGED vars
    <2>1. UNCHANGED <<editor, open, patches, load, creates, row, started, copy, crossed>>
      BY <1>1 DEF vars
    <2>2. Shapes'
      BY <2>1 DEF IInv, Shapes
    <2>3. InStep => InStep'
      BY <2>1 DEF InStep
    <2> QED BY <2>1, <2>2, <2>3 DEF IInv
  <1>2. CASE \/ EditStructure \/ EditSettings \/ Rename \/ Paste \/ Undo \/ Redo
             \/ BeginEdit \/ Select \/ Copy
    BY <1>2, UserKeeps
  <1>3. CASE Open \/ Leave
    BY <1>3, OpenLeaveKeeps
  <1>4. CASE Autosave \/ SaveAndRun
    BY <1>4, SendKeeps DEF Autosave, SaveAndRun, server
  <1>5. CASE \E p \in patches : ServePatch(p) \/ Fault(p) \/ Saved(p) \/ SaveFailed(p)
    BY <1>5, AnsweredKeeps, SavedKeeps
  <1>6. CASE \E c \in creates : CreateRun(c) \/ CreateFailed(c)
    BY <1>6, CreateKeeps
  <1>7. CASE Reload \/ ServeLoad \/ Loaded
    BY <1>7, ReloadKeeps
  <1>8. CASE Attach \/ Detach \/ Paint
    BY <1>8, FocusKeeps
  <1> QED BY <1>1, <1>2, <1>3, <1>4, <1>5, <1>6, <1>7, <1>8 DEF Next

-----------------------------------------------------------------------------
(* The canvas and the run in focus.                                         *)

\* Every edit but those that bring old data back leaves the metrics of the runs
\* that were there, or none.
LEMMA EditsShowNoOther ==
    ASSUME EditorAssumption, NEW e, EditorShape(e), NEW run, Lives(e, run), NEW q,
           \/ q \in Structural(e)
           \/ \E n \in Ids(e.graph), c \in Configs : q = Changed(e, n, c)
           \/ \E name : q = Renamed(e, name)
    PROVE  Lives(q, run)
  <1>0. GraphShape(e.graph)
    BY DEF EditorShape
  <1>1. PICK p : p = Pushed(e)
    OBVIOUS
  <1>2. EditorShape(p) /\ p.graph = e.graph
    BY <1>1, PushedShape
  <1>3. ASSUME NEW g, GraphShape(g), NEW o, EditorShape(o), q = Edited(o, g),
               \A n \in Ids(g) : g.nodes[n].live \in {NoRun, run}
        PROVE  Lives(q, run)
    BY <1>3, EditedShape DEF Lives
  <1>4. ASSUME NEW c \in Configs, q = Added(e, c)
        PROVE  Lives(q, run)
    <2>1. PICK g : g = [e.graph EXCEPT
                          !.nodes = [n \in Ids(e.graph) \cup {e.fresh} |->
                                       IF n = e.fresh THEN Component(c, "healthy", NoRun)
                                       ELSE e.graph.nodes[n]],
                          !.selected = {e.fresh}, !.links = {}]
      OBVIOUS
    <2>2. GraphShape(g)
      BY <1>0, <2>1 DEF GraphShape
    <2>3. \A n \in Ids(g) : g.nodes[n].live \in {NoRun, run}
      BY <1>0, <2>1 DEF Lives, Ids, GraphShape, Component
    <2>4. PICK d : d = Edited(p, g)
      OBVIOUS
    <2>5. EditorShape(d) /\ d.graph = g
      BY <1>2, <2>2, <2>4, EditedShape
    <2>6. q = WithFresh(d, d.fresh + 1)
      BY <1>1, <1>4, <2>1, <2>4, <2>5 DEF Added, EditorShape, EditorRecord, WithFresh
    <2>7. q.graph = g
      BY <2>5, <2>6, FreshShape
    <2> QED BY <2>3, <2>7 DEF Lives
  <1>5. ASSUME NEW a, NEW b, q = Connected(e, a, b)
        PROVE  Lives(q, run)
    <2>1. CASE a = b
      BY <1>5, <2>1 DEF Connected
    <2>2. CASE a # b
      <3>1. PICK g : g = [e.graph EXCEPT !.edges = @ \cup {<<a, b>>}]
        OBVIOUS
      <3>2. GraphShape(g) /\ g.nodes = e.graph.nodes
        BY <1>0, <3>1 DEF GraphShape
      <3>3. q = Edited(p, g)
        BY <1>1, <1>5, <2>2, <3>1 DEF Connected
      <3>4. \A n \in Ids(g) : g.nodes[n].live \in {NoRun, run}
        BY <3>2 DEF Lives, Ids
      <3> QED BY <1>2, <1>3, <3>2, <3>3, <3>4
    <2> QED BY <2>1, <2>2
  <1>6. CASE q = Deleted(p)
    <2>1. CASE p.graph.selected = {} /\ p.graph.links = {}
      BY <1>2, <1>6, <2>1 DEF Deleted, Lives
    <2>2. CASE ~(p.graph.selected = {} /\ p.graph.links = {})
      <3>1. PICK nodes, edges, g :
               /\ nodes = Ids(e.graph) \ e.graph.selected
               /\ g = Graph([n \in nodes |-> e.graph.nodes[n]], edges, {})
               /\ q = Edited(Pushed(p), g)
        BY <1>2, <1>6, <2>2 DEF Deleted
      <3>2. GraphShape(g) /\ \A n \in Ids(g) : g.nodes[n].live \in {NoRun, run}
        BY <3>1 DEF Graph, GraphShape, Ids, Lives
      <3>3. EditorShape(Pushed(p))
        BY <1>2, PushedShape
      <3> QED BY <1>3, <3>1, <3>2, <3>3
    <2> QED BY <2>1, <2>2
  <1>7. ASSUME NEW n \in Ids(e.graph), NEW c, q = Changed(e, n, c)
        PROVE  Lives(q, run)
    <2>1. PICK node, g : /\ node = e.graph.nodes[n]
                         /\ g = [e.graph EXCEPT !.nodes[n] =
                                   Component(c, node.health, node.live)]
      OBVIOUS
    <2>2. GraphShape(g) /\ Ids(g) = Ids(e.graph)
      BY <1>0, <2>1 DEF GraphShape, Ids
    <2>3. \A k \in Ids(g) : g.nodes[k].live = e.graph.nodes[k].live
      BY <1>0, <1>7, <2>1, <2>2 DEF GraphShape, Component, Ids
    <2>4. q = Edited(e, g)
      BY <1>7, <2>1 DEF Changed
    <2> QED BY <1>3, <2>2, <2>3, <2>4 DEF Lives
  <1>8. ASSUME NEW name, q = Renamed(e, name)
        PROVE  Lives(q, run)
    <2>1. q.graph = e.graph
      BY <1>8 DEF Renamed, EditorShape, EditorRecord
    <2> QED BY <2>1 DEF Lives
  <1> QED BY <1>1, <1>4, <1>5, <1>6, <1>7, <1>8 DEF Structural

\* Nor do gestures that are no edits, and the flags of a save, touch components.
LEMMA SameNodes ==
    ASSUME EditorAssumption, NEW e, EditorShape(e), NEW run, NEW q,
           \/ q = Pushed(e) \/ q = Copied(e) \/ q = MarkedSaved(e)
           \/ \E s : q = [e EXCEPT !.graph.selected = s]
           \/ \E s, l : q = [e EXCEPT !.graph.selected = s, !.graph.links = l]
           \/ \E flag : q = [e EXCEPT !.saving = flag]
    PROVE  q.graph.nodes = e.graph.nodes
  <1>0. GraphShape(e.graph)
    BY DEF EditorShape
  <1>1. CASE q = Pushed(e)
    BY <1>1, PushedShape
  <1>2. CASE q = Copied(e) \/ q = MarkedSaved(e) \/ \E flag : q = [e EXCEPT !.saving = flag]
    BY <1>2 DEF Copied, MarkedSaved, EditorShape, EditorRecord
  <1>3. CASE \E s : q = [e EXCEPT !.graph.selected = s]
    <2>1. PICK s : q = [e EXCEPT !.graph.selected = s]
      BY <1>3
    <2>2. q.graph = [e.graph EXCEPT !.selected = s]
      BY <2>1 DEF EditorShape, EditorRecord
    <2> QED BY <1>0, <2>2 DEF GraphShape
  <1>4. CASE \E s, l : q = [e EXCEPT !.graph.selected = s, !.graph.links = l]
    <2>1. PICK s, l : q = [e EXCEPT !.graph.selected = s, !.graph.links = l]
      BY <1>4
    <2>2. q.graph = [e.graph EXCEPT !.selected = s, !.links = l]
      BY <2>1 DEF EditorShape, EditorRecord
    <2> QED BY <1>0, <2>2 DEF GraphShape
  <1> QED BY <1>1, <1>2, <1>3, <1>4

\* The canvas is reset with the focus, or both are kept.
LEMMA FocusMoves ==
    ASSUME EditorShape(editor), OnCanvas, NEW run, NEW attaching, Focus(run, attaching),
           open' = open
    PROVE  OnCanvas'
  <1>1. CASE run = focus.run
    <2>1. focus' = [focus EXCEPT !.attaching = attaching] /\ UNCHANGED <<editor, revived>>
      BY <1>1 DEF Focus
    <2>2. focus'.run = focus.run
      BY <2>1
    <2> QED BY <2>1, <2>2 DEF OnCanvas, Lives
  <1>2. CASE run # focus.run
    <2>1. editor' = Cleared(editor)
      BY <1>2 DEF Focus
    <2>2. \A r : Lives(Cleared(editor), r)
      BY ClearedKeeps
    <2> QED BY <2>1, <2>2 DEF OnCanvas, Lives
  <1> QED BY <1>1, <1>2

\* Every step keeps the canvas to the run in focus.
LEMMA CanvasKept ==
    ASSUME EditorAssumption, CInv, [Next]_vars
    PROVE  OnCanvas'
  <1>0. EditorShape(editor)
    BY DEF CInv, IInv, Shapes
  <1>1. ASSUME NEW q, editor' = q, q.graph.nodes = editor.graph.nodes,
               UNCHANGED <<open, focus, revived>>
        PROVE  OnCanvas'
    BY <1>1 DEF CInv, OnCanvas, Lives, Ids
  <1>2. CASE UNCHANGED <<editor, open, focus, revived>>
    BY <1>2 DEF CInv, OnCanvas, Lives
  <1>3. CASE EditStructure \/ EditSettings \/ Rename
    <2>1. PICK q : /\ editor' = q /\ UNCHANGED <<open, focus, revived>>
                   /\ \/ q \in Structural(editor)
                      \/ \E n \in Ids(editor.graph), c \in Configs : q = Changed(editor, n, c)
                      \/ \E name : q = Renamed(editor, name)
      BY <1>3 DEF EditStructure, EditSettings, Rename, Edit, Becomes
    <2>2. Lives(editor, focus.run) => Lives(q, focus.run)
      BY <1>0, <2>1, EditsShowNoOther
    <2> QED BY <2>1, <2>2 DEF CInv, OnCanvas, Lives
  <1>4. CASE Paste \/ Undo \/ Redo
    BY <1>4 DEF Paste, Undo, Redo, Revive, OnCanvas
  <1>5. CASE BeginEdit \/ Select \/ Copy
    <2>1. PICK q : /\ editor' = q /\ UNCHANGED <<open, focus, revived>>
                   /\ \/ q = Pushed(editor) \/ q = Copied(editor)
                      \/ \E s : q = [editor EXCEPT !.graph.selected = s]
                      \/ \E s, l : q = [editor EXCEPT !.graph.selected = s, !.graph.links = l]
      BY <1>5 DEF BeginEdit, Select, Copy, Gesture
    <2>2. q.graph.nodes = editor.graph.nodes
      BY <1>0, <2>1, SameNodes
    <2> QED BY <1>1, <2>1, <2>2
  <1>6. CASE Open
    <2>1. PICK o, q : o = Opened(editor, copy) /\ q = Cleared(o) /\ editor' = q
      BY <1>6 DEF Open
    <2>2. EditorShape(o)
      BY <1>0, <2>1, OpenedShape DEF CInv, IInv, Shapes
    <2>3. \A run : Lives(q, run)
      BY <2>1, <2>2, ClearedKeeps
    <2> QED BY <2>1, <2>3 DEF OnCanvas, Lives
  <1>7. CASE Leave
    BY <1>7 DEF Leave, OnCanvas
  <1>8. CASE Attach \/ Detach
    <2>1. PICK run, attaching : Focus(run, attaching) /\ open' = open
      BY <1>8 DEF Attach, Detach
    <2> QED BY <1>0, <2>1, FocusMoves DEF CInv
  <1>9. CASE Paint
    <2>1. PICK painted, health, q : /\ q = PaintedBy(editor, focus.run, painted, health)
                                    /\ editor' = q
                                    /\ focus' = [focus EXCEPT !.results = TRUE]
                                    /\ UNCHANGED <<open, revived>>
      BY <1>9 DEF Paint
    <2>2. focus'.run = focus.run
      BY <2>1
    <2>3. Lives(editor, focus.run) => Lives(q, focus.run)
      BY <1>0, <2>1, PaintedKeeps
    <2> QED BY <2>1, <2>2, <2>3 DEF CInv, OnCanvas, Lives
  <1>10. CASE Autosave \/ SaveAndRun
    <2>1. PICK q : /\ q = [editor EXCEPT !.saving = TRUE]
                   /\ editor' = q /\ UNCHANGED <<open, focus, revived>>
      BY <1>10 DEF Autosave, SaveAndRun, Send
    <2>2. q.graph.nodes = editor.graph.nodes
      BY <1>0, <2>1, SameNodes
    <2> QED BY <1>1, <2>1, <2>2
  <1>11. CASE \E p \in patches : ServePatch(p) \/ Fault(p) \/ Saved(p) \/ SaveFailed(p)
    <2>1. PICK p \in patches : ServePatch(p) \/ Fault(p) \/ Saved(p) \/ SaveFailed(p)
      BY <1>11
    <2>2. CASE ServePatch(p) \/ Fault(p)
      BY <1>2, <2>2 DEF ServePatch, Fault
    <2>3. CASE Saved(p) \/ SaveFailed(p)
      <3>1. PICK q, flag : /\ editor' = q /\ UNCHANGED <<open, focus, revived>>
                           /\ q = MarkedSaved(editor) \/ q = [editor EXCEPT !.saving = flag]
        BY <2>3 DEF Saved, SaveFailed, Becomes
      <3>2. q.graph.nodes = editor.graph.nodes
        BY <1>0, <3>1, SameNodes
      <3> QED BY <1>1, <3>1, <3>2
    <2> QED BY <2>1, <2>2, <2>3
  <1>12. CASE \E c \in creates : CreateRun(c) \/ CreateFailed(c)
    <2>1. PICK c \in creates : CreateRun(c) \/ CreateFailed(c)
      BY <1>12
    <2>2. \/ UNCHANGED <<editor, open, focus, revived>>
          \/ open' = open /\ \E run : Focus(run, focus.attaching)
      BY <2>1 DEF CreateRun, CreateFailed, Starts
    <2> QED BY <1>0, <1>2, <2>2, FocusMoves DEF CInv
  <1>13. CASE Reload \/ ServeLoad
    BY <1>2, <1>13 DEF Reload, ServeLoad
  <1>14. CASE Loaded
    <2>1. CASE ~open
      BY <1>2, <1>14, <2>1 DEF Loaded
    <2>2. CASE open
      <3>1. PICK q : q = Opened(editor, load.body) /\ editor' = q
        BY <1>14, <2>2 DEF Loaded, Becomes
      <3>2. BodyShape(load.body)
        BY <1>14 DEF Loaded, CInv, IInv, Shapes
      <3>3. Lives(q, focus.run) /\ focus' = focus
        BY <1>0, <1>14, <3>1, <3>2, OpenedShape DEF Loaded
      <3> QED BY <3>1, <3>3 DEF OnCanvas, Lives
    <2> QED BY <2>1, <2>2
  <1>15. CASE UNCHANGED vars
    BY <1>2, <1>15 DEF vars
  <1> QED BY <1>3, <1>4, <1>5, <1>6, <1>7, <1>8, <1>9, <1>10, <1>11, <1>12, <1>13, <1>14,
             <1>15 DEF Next

-----------------------------------------------------------------------------
\* Undo takes back any edit of the structure and any paste, and redo takes back the undo, in
\* every reachable editor, and both histories together stay within the limit.
THEOREM HistoryAlwaysFaithful == Spec => []HistoryIsFaithful
  <1>1. Init => IInv
    BY InvFirst, EditorAssumption DEF CInv
  <1>2. IInv /\ [Next]_vars => IInv'
    BY InvKept, EditorAssumption
  <1>3. IInv => HistoryIsFaithful
    <2> SUFFICES ASSUME IInv PROVE HistoryIsFaithful
      OBVIOUS
    <2>0. EditorShape(editor)
      BY DEF IInv, Shapes
    <2>1. ASSUME NEW e \in Structural(editor) \cup {Pasted(editor)}, e # editor
          PROVE  Undone(e).graph = editor.graph
      <3>1. EditorShape(e) /\ e.past # <<>> /\ Last(e.past) = editor.graph
        BY <2>0, <2>1, StructuralEdits, EditorAssumption DEF EditOf, TakenBack
      <3> QED BY <3>1, UndoneGraph
    <2>2. ASSUME editor.past # <<>>, NEW e, e = Redone(Undone(editor))
          PROVE  e.graph = editor.graph /\ e.past = editor.past
      <3>1. PICK u : u = Undone(editor)
        OBVIOUS
      <3>2. /\ EditorShape(u) /\ u.graph = Last(editor.past)
            /\ u.past = Front(editor.past) /\ u.future = Append(editor.future, editor.graph)
        BY <2>0, <2>2, <3>1, UndoneGraph
      <3>3. /\ Append(editor.future, editor.graph) # <<>>
            /\ Last(Append(editor.future, editor.graph)) = editor.graph
        BY <2>0, Appended DEF EditorShape, EditorRecord, HistoryOK
      <3>4. e.graph = Last(u.future) /\ e.past = Append(u.past, u.graph)
        BY <2>2, <3>1, <3>2, <3>3, RedoneGraph
      <3>5. Append(Front(editor.past), Last(editor.past)) = editor.past
        BY <2>0, <2>2, Popped DEF EditorShape, EditorRecord, HistoryOK
      <3> QED BY <3>2, <3>3, <3>4, <3>5
    <2>3. Len(editor.past) + Len(editor.future) <= HistoryLimit
      BY <2>0 DEF EditorShape, EditorRecord, HistoryOK
    <2> QED BY <2>1, <2>2, <2>3 DEF HistoryIsFaithful
  <1> QED BY <1>1, <1>2, <1>3, PTL DEF Spec

\* A clean editor shows what the server has, as far as it can hold it and but for
\* health, as long as edits and saves have not overlapped, whatever fails and
\* whatever runs paint over it.
THEOREM CleanAlwaysSaved == Spec => []CleanIsSaved
  <1>1. Init => IInv
    BY InvFirst, EditorAssumption DEF CInv
  <1>2. IInv /\ [Next]_vars => IInv'
    BY InvKept, EditorAssumption
  <1>3. IInv => CleanIsSaved
    BY LookOfBody DEF IInv, InStep, CleanIsSaved
  <1> QED BY <1>1, <1>2, <1>3, PTL DEF Spec

\* A run takes what was on the canvas when it was asked for, as long as edits
\* and saves have not overlapped.
THEOREM SnapshotAlwaysFresh == Spec => []SnapshotIsFresh
  <1>1. Init => IInv
    BY InvFirst, EditorAssumption DEF CInv
  <1>2. IInv /\ [Next]_vars => IInv'
    BY InvKept, EditorAssumption
  <1>3. IInv => SnapshotIsFresh
    BY DEF IInv, InStep, SnapshotIsFresh
  <1> QED BY <1>1, <1>2, <1>3, PTL DEF Spec

\* The canvas shows the metrics of no run but the one in focus, as long as nothing
\* was undone, redone or pasted since it was reset.
THEOREM CanvasAlwaysOfFocus == Spec => []CanvasIsOfFocus
  <1>1. Init => CInv
    BY InvFirst, EditorAssumption
  <1>2. CInv /\ [Next]_vars => CInv'
    BY InvKept, CanvasKept, EditorAssumption DEF CInv
  <1>3. CInv => CanvasIsOfFocus
    BY DEF CInv, OnCanvas, Lives, Painters, CanvasIsOfFocus
  <1> QED BY <1>1, <1>2, <1>3, PTL DEF Spec

=============================================================================
