---------------------------- MODULE RunLifecycle ----------------------------
(***************************************************************************)
(* What the simulations API promises about the persisted status of a run:  *)
(* it is created once, moves only along the lifecycle matrix, and a        *)
(* terminal status is permanent until the row is removed.  No operation    *)
(* rewinds a row (reset exists for the in-memory engine only).             *)
(***************************************************************************)
EXTENDS Lifecycle

CONSTANT Sims              \* the identifiers of the runs

VARIABLE row               \* row[s]: the persisted status of run s

\* "absent" before the POST that creates the row, "deleted" once removed.
RowStatus == Status \cup {"absent", "deleted"}

Init == row = [s \in Sims |-> "absent"]

Create(s) ==
    /\ row[s] = "absent"
    /\ row' = [row EXCEPT ![s] = "created"]

Move(s, action) ==
    /\ Allows(action, row[s])
    /\ row' = [row EXCEPT ![s] = TargetStatus[action]]

Remove(s) ==
    /\ row[s] \in Status \ Active
    /\ row' = [row EXCEPT ![s] = "deleted"]

\* A restart fails every run a previous process left active, all at once.
Interrupt ==
    row' = [s \in Sims |-> IF row[s] \in Active THEN "failed" ELSE row[s]]

Next ==
    \/ \E s \in Sims :
          \/ Create(s)
          \/ Remove(s)
          \/ \E action \in {"start", "pause", "resume", "cancel", "complete", "fail"} :
                Move(s, action)
    \/ Interrupt

Spec == Init /\ [][Next]_row

=============================================================================
