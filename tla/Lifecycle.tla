------------------------------ MODULE Lifecycle ------------------------------
(***************************************************************************)
(* The status matrix of a simulation: which lifecycle operation may be     *)
(* applied from which status, and where it leads.  The engine consults it  *)
(* for the in-memory simulation, and the execution manager for the         *)
(* status-scoped UPDATE of the persisted row, so both share this module.   *)
(***************************************************************************)

Status == {"created", "running", "paused", "completed", "failed", "cancelled"}

\* A run in one of these statuses is owned by the process that drives it.
Active == {"running", "paused"}

Terminal == {"completed", "failed", "cancelled"}

AllowedFrom ==
    [ prepare  |-> {"created"},
      start    |-> {"created"},
      step     |-> {"running"},
      pause    |-> {"running"},
      resume   |-> {"paused"},
      cancel   |-> {"created", "running", "paused"},
      complete |-> {"running"},
      fail     |-> {"created", "running", "paused"},
      reset    |-> Status ]

\* prepare and step resolve to no status of their own.
TargetStatus ==
    [ start    |-> "running",
      pause    |-> "paused",
      resume   |-> "running",
      cancel   |-> "cancelled",
      complete |-> "completed",
      fail     |-> "failed",
      reset    |-> "created" ]

Allows(action, status) == status \in AllowedFrom[action]

=============================================================================
