----------------------------- MODULE MCProjects -----------------------------
(* Instances of Projects for TLC.                                           *)
EXTENDS Projects, TLC

CONSTANTS o, s, n, m

TwoUsers == {o, s}
TwoNames == {n, m}
Interchangeable == Permutations(TwoNames)

\* The dialog of an architecture renames it; the editor saves it whole.
ClientFields == {{"name"}, {"name", "nodes", "edges"}}

\* Requests in any order, two of them with a fault or another user between.
TwoBudgets == {[requests |-> 3, switches |-> 0, faults |-> 0],
               [requests |-> 2, switches |-> 1, faults |-> 1]}

=============================================================================
