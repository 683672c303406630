-------------------------- MODULE MCEditorSession --------------------------
(* Instances of EditorSession for TLC.                                      *)
EXTENDS EditorSession, TLC

CONSTANTS a, b, foreign, n, m

TwoConfigs == {a, b}
TwoNames == {n, m}
TwoHealths == {"healthy", "critical"}

\* Settings made by another client of the API: a queue, say, and no region.
OneForeign == foreign :> a

\* A new architecture, and one with two connected components that another client
\* made, or an editor while a run was shown.
TwoRows ==
    {[name |-> n, nodes |-> <<>>, edges |-> {}],
     [name |-> n,
      nodes |-> <<[config |-> a, health |-> "critical"],
                  [config |-> foreign, health |-> "healthy"]>>,
      edges |-> {<<1, 2>>}]}

\* Long editing without a server; short editing with saves; a fault; two runs,
\* painted over in turn, and an edit; one run, and an edit and its undoing.
SmallBudgets ==
    {[nodes |-> 3, gestures |-> 4, patches |-> 0, faults |-> 0, paints |-> 0],
     [nodes |-> 2, gestures |-> 2, patches |-> 2, faults |-> 0, paints |-> 0],
     [nodes |-> 3, gestures |-> 1, patches |-> 2, faults |-> 1, paints |-> 0],
     [nodes |-> 3, gestures |-> 1, patches |-> 2, faults |-> 0, paints |-> 2],
     [nodes |-> 3, gestures |-> 2, patches |-> 1, faults |-> 1, paints |-> 1]}

=============================================================================
