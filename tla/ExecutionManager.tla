-------------------------- MODULE ExecutionManager --------------------------
(***************************************************************************)
(* The simulations API, its execution manager and the table it writes.     *)
(*                                                                         *)
(* One Node process serves HTTP calls and drives runs in the background.   *)
(* Nothing is pre-empted: code runs from one await to the next as one      *)
(* step, and the answers of concurrent SQL statements may be handled in    *)
(* any order.  A control call is therefore three steps (the service checks *)
(* the status it read; the database applies the status-scoped UPDATE; the  *)
(* continuation steers the in-memory run), and the loop that drives a run  *)
(* stops at each of its own awaits.  The process may crash or be asked to  *)
(* shut down at any time, and a restart reconciles the table.              *)
(*                                                                         *)
(* The engine is abstracted to its status and the number of events it has  *)
(* left to process; SimulationRuntime.tla models what those events do.     *)
(***************************************************************************)
EXTENDS Integers, FiniteSets, Lifecycle

CONSTANTS
    Sims,          \* identifiers of the runs
    Calls,         \* HTTP control calls that may be in progress at once
    Ops,           \* the operations clients ask for
    MaxEvents,     \* bound: events an engine has to process
    MaxDbErrors    \* bound: SQL statements that fail

Operation == {"start", "pause", "resume", "cancel", "remove"}

ASSUME ConstantsAssumption ==
    /\ Ops \subseteq Operation
    /\ MaxEvents \in Nat
    /\ MaxDbErrors \in Nat

VARIABLES
    row,        \* row[s]: status of run s in the simulations table
    proc,       \* the process: "up", "closing" (shutdown() called) or "down"
    awaited,    \* the runs whose tasks shutdown() waits for
    run,        \* run[s]: the in-memory side of run s
    call,       \* call[c]: progress of a control call
    dbErrors    \* statements that have failed so far

vars == <<row, proc, awaited, run, call, dbErrors>>

-----------------------------------------------------------------------------
(* The in-memory side of a run: its ExecutionHandle (present in the map, its
   paused and cancelled flags), the engine registered with the orchestrator,
   and the await at which execute() stands.                                 *)

LoopPoint ==
    {"none",          \* execute() was never called in this process
     "loading",       \* awaiting findById
     "loaded",        \* the row was found, the continuation is due
     "missing",       \* the read failed or found no row
     "top",           \* runnable at the top of the drive loop
     "waiting",       \* waitForResume
     "flushing",      \* awaiting the progress UPDATE
     "completing",    \* awaiting the UPDATE to completed
     "interrupting",  \* awaiting the UPDATE of an interrupted run to failed
     "failing",       \* markFailed, awaiting its UPDATE
     "ending",        \* the last UPDATE is answered, the finally block is due
     "released"}      \* disposed and removed from the handles

RunState ==
    [ handle : BOOLEAN, paused : BOOLEAN, cancelled : BOOLEAN,
      engine : Status \cup {"none"}, left : 0 .. MaxEvents, loop : LoopPoint ]

NoRun ==
    [ handle |-> FALSE, paused |-> FALSE, cancelled |-> FALSE,
      engine |-> "none", left |-> 0, loop |-> "none" ]

Released == [NoRun EXCEPT !.loop = "released"]

\* start(): a fresh handle, and the part of execute() before its first await.
Launched == [NoRun EXCEPT !.handle = TRUE, !.loop = "loading"]

Idle == [pc |-> "idle"]

CallState == {Idle} \cup [pc : {"checked", "applied"}, op : Operation, sim : Sims]

RowStatus == Status \cup {"absent", "deleted"}

TypeOK ==
    /\ row \in [Sims -> RowStatus]
    /\ proc \in {"up", "closing", "down"}
    /\ awaited \subseteq Sims
    /\ run \in [Sims -> RunState]
    /\ call \in [Calls -> CallState]
    /\ dbErrors \in 0 .. MaxDbErrors

Init ==
    /\ row = [s \in Sims |-> "absent"]
    /\ proc = "up"
    /\ awaited = {}
    /\ run = [s \in Sims |-> NoRun]
    /\ call = [c \in Calls |-> Idle]
    /\ dbErrors = 0

-----------------------------------------------------------------------------
(* The service: every control call first reads the row and checks it.       *)

\* The statuses from which the service, and later the guarded statement
\* itself, accepts an operation.
AcceptedFrom(op) ==
    IF op = "remove" THEN Status \ Active ELSE AllowedFrom[op]

ResultOf(op) == IF op = "remove" THEN "deleted" ELSE TargetStatus[op]

Create(s) ==
    /\ proc # "down"
    /\ row[s] = "absent"
    /\ row' = [row EXCEPT ![s] = "created"]
    /\ UNCHANGED <<proc, awaited, run, call, dbErrors>>

\* Calls whose check fails are answered 404 or 409 and change nothing.
Receive(c, op, s) ==
    /\ proc # "down"
    /\ call[c] = Idle
    /\ row[s] \in AcceptedFrom(op)
    /\ call' = [call EXCEPT ![c] = [pc |-> "checked", op |-> op, sim |-> s]]
    /\ UNCHANGED <<row, proc, awaited, run, dbErrors>>

-----------------------------------------------------------------------------
(* The database: the guard is part of the UPDATE or DELETE.                 *)

\* Mutant: the statement is no longer scoped to the statuses it may leave.
WrittenBlindly(s, from, to) ==
    IF row[s] \in Status THEN [row EXCEPT ![s] = to] ELSE row

\* The row a statement scoped to the statuses `from` leaves behind.
Written(s, from, to) ==
    IF row[s] \in from THEN [row EXCEPT ![s] = to] ELSE row

\* Mutant: the claim trusts the status the service read.
ApplyUnscoped(c) ==
    LET r == call[c]
    IN  /\ r.pc = "checked"
        /\ row' = Written(r.sim, Status, ResultOf(r.op))
        /\ call' = [call EXCEPT ![c] =
                       IF r.op # "remove" THEN [r EXCEPT !.pc = "applied"] ELSE Idle]
        /\ UNCHANGED <<proc, awaited, run, dbErrors>>

\* The answer null becomes a 409; a removal has nothing left to do in memory.
Apply(c) ==
    LET r == call[c]
        applied == row[r.sim] \in AcceptedFrom(r.op)
    IN  /\ r.pc = "checked"
        /\ row' = Written(r.sim, AcceptedFrom(r.op), ResultOf(r.op))
        /\ call' = [call EXCEPT ![c] =
                       IF applied /\ r.op # "remove"
                       THEN [r EXCEPT !.pc = "applied"]
                       ELSE Idle]
        /\ UNCHANGED <<proc, awaited, run, dbErrors>>

DbError ==
    /\ dbErrors < MaxDbErrors
    /\ dbErrors' = dbErrors + 1

\* The statement throws: it did not run, or it ran and its answer was lost.
ApplyThrows(c) ==
    LET r == call[c]
    IN  /\ r.pc = "checked"
        /\ DbError
        /\ row' \in {row, Written(r.sim, AcceptedFrom(r.op), ResultOf(r.op))}
        /\ call' = [call EXCEPT ![c] = Idle]
        /\ UNCHANGED <<proc, awaited, run>>

-----------------------------------------------------------------------------
(* The continuations of the control calls in the execution manager.         *)

\* The call c is past its UPDATE and about to steer run s in memory.
Continues(c, op, s) ==
    call[c] = [pc |-> "applied", op |-> op, sim |-> s]

Answer(c) == call' = [call EXCEPT ![c] = Idle]

ContinueStart(c, s) ==
    /\ Continues(c, "start", s)
    /\ run' = [run EXCEPT ![s] = Launched]
    /\ Answer(c)
    /\ UNCHANGED <<row, proc, awaited, dbErrors>>

\* An engine operation throws when its status does not allow it (or when there
\* is no engine yet), and the call then fails where it stands.
EngineAllows(action, r) == r.engine # "none" /\ Allows(action, r.engine)

\* Mutant: the handle is only marked once the engine has paused.
PauseEngineOnly(r) ==
    [r EXCEPT !.engine = IF EngineAllows("pause", r) THEN "paused" ELSE @]

PauseInMemory(r) ==
    [r EXCEPT !.paused = TRUE,
              !.engine = IF EngineAllows("pause", r) THEN "paused" ELSE @]

\* handle.resume?.() is only reached when orchestrator.resume did not throw.
ResumeInMemory(r) ==
    IF EngineAllows("resume", r)
    THEN [r EXCEPT !.paused = FALSE, !.engine = "running",
                   !.loop = IF @ = "waiting" THEN "top" ELSE @]
    ELSE [r EXCEPT !.paused = FALSE]

\* Mutant: cancelling does not wake a loop that waits for a resume.
CancelWithoutWaking(r) ==
    IF EngineAllows("cancel", r)
    THEN [r EXCEPT !.cancelled = TRUE, !.engine = "cancelled"]
    ELSE [r EXCEPT !.cancelled = TRUE]

CancelInMemory(r) ==
    IF EngineAllows("cancel", r)
    THEN [r EXCEPT !.cancelled = TRUE, !.engine = "cancelled",
                   !.loop = IF @ = "waiting" THEN "top" ELSE @]
    ELSE [r EXCEPT !.cancelled = TRUE]

Steer(c, op, s, Steered(_)) ==
    /\ Continues(c, op, s)
    /\ run' = [run EXCEPT ![s] = IF @.handle THEN Steered(@) ELSE @]
    /\ Answer(c)
    /\ UNCHANGED <<row, proc, awaited, dbErrors>>

ContinuePause(c, s)  == Steer(c, "pause", s, PauseInMemory)
ContinueResume(c, s) == Steer(c, "resume", s, ResumeInMemory)
ContinueCancel(c, s) == Steer(c, "cancel", s, CancelInMemory)

-----------------------------------------------------------------------------
(* The background task of one run: execute() and drive().                   *)

\* The await that the UPDATE or read of run s is answered to.
At(s, point) == run[s].loop = point

GoTo(s, next) == run' = [run EXCEPT ![s] = next]

\* Mutant: an execution error is swallowed.
AbortSilently(r) == Released

\* markFailed: a cancelled run is not overwritten, any other is failed.
Abort(r) == IF r.cancelled THEN Released ELSE [r EXCEPT !.loop = "failing"]

Load(s) ==
    /\ At(s, "loading")
    /\ GoTo(s, [run[s] EXCEPT !.loop =
                    IF row[s] \in Status THEN "loaded" ELSE "missing"])
    /\ UNCHANGED <<row, proc, awaited, call, dbErrors>>

LoadThrows(s) ==
    /\ At(s, "loading")
    /\ DbError
    /\ GoTo(s, [run[s] EXCEPT !.loop = "missing"])
    /\ UNCHANGED <<row, proc, awaited, call>>

FailToLoad(s) ==
    /\ At(s, "missing")
    /\ GoTo(s, Abort(run[s]))
    /\ UNCHANGED <<row, proc, awaited, call, dbErrors>>

\* Mutant: the loop takes one more event than the engine has.
BurstPastTheEnd(s, r) ==
    \E k \in 1 .. r.left + 1 :
       GoTo(s, [r EXCEPT !.left = @ - k, !.loop = "flushing"])

\* The events processed between two awaits.  The engine completes with its
\* last event (or at once when it has none), and a handler may throw.
Burst(s, r) ==
    \/ \E k \in 1 .. r.left :
          GoTo(s, IF k < r.left
                  THEN [r EXCEPT !.left = @ - k, !.loop = "flushing"]
                  ELSE [r EXCEPT !.left = 0, !.engine = "completed",
                                 !.loop = "completing"])
    \/ /\ r.left = 0
       /\ GoTo(s, [r EXCEPT !.engine = "completed", !.loop = "completing"])
    \/ /\ r.left > 0
       /\ GoTo(s, Abort([r EXCEPT !.engine = "failed"]))

\* Mutant: the loop leaves on shutdown without recording the interruption.
TurnLeavesSilently(s, r) ==
    \/ /\ proc = "closing" \/ r.cancelled
       /\ GoTo(s, Released)
    \/ /\ proc = "up" /\ ~r.cancelled /\ r.paused
       /\ GoTo(s, [r EXCEPT !.loop = "waiting"])
    \/ /\ proc = "up" /\ ~r.cancelled /\ ~r.paused /\ r.engine = "running"
       /\ Burst(s, r)
    \/ /\ proc = "up" /\ ~r.cancelled /\ ~r.paused /\ r.engine # "running"
       /\ GoTo(s, Abort(r))

\* One turn of the drive loop over the run r: shutdown is looked at first,
\* then the cancel and pause signals; the engine refuses to step unless it is
\* running.
Turn(s, r) ==
    \/ /\ proc = "closing"
       /\ GoTo(s, [r EXCEPT !.loop = "interrupting"])
    \/ /\ proc = "up" /\ r.cancelled
       /\ GoTo(s, Released)
    \/ /\ proc = "up" /\ ~r.cancelled /\ r.paused
       /\ GoTo(s, [r EXCEPT !.loop = "waiting"])
    \/ /\ proc = "up" /\ ~r.cancelled /\ ~r.paused /\ r.engine = "running"
       /\ Burst(s, r)
    \/ /\ proc = "up" /\ ~r.cancelled /\ ~r.paused /\ r.engine # "running"
       /\ GoTo(s, Abort(r))

\* execute() registers the run, generates its load, starts the engine and
\* enters the loop without awaiting anything.
Begin(s) ==
    /\ At(s, "loaded")
    /\ \E n \in 0 .. MaxEvents :
          Turn(s, [run[s] EXCEPT !.engine = "running", !.left = n])
    /\ UNCHANGED <<row, proc, awaited, call, dbErrors>>

Drive(s) ==
    /\ At(s, "top")
    /\ Turn(s, run[s])
    /\ UNCHANGED <<row, proc, awaited, call, dbErrors>>

\* The progress UPDATE does not touch the status, and its result is ignored.
Flush(s) ==
    /\ At(s, "flushing")
    /\ GoTo(s, [run[s] EXCEPT !.loop = "top"])
    /\ UNCHANGED <<row, proc, awaited, call, dbErrors>>

\* A last UPDATE: a status it may not leave is left alone, and the null answer
\* is ignored.
Persist(s, point, action) ==
    /\ At(s, point)
    /\ row' = Written(s, AllowedFrom[action], TargetStatus[action])
    /\ GoTo(s, [run[s] EXCEPT !.loop = "ending"])
    /\ UNCHANGED <<proc, awaited, call, dbErrors>>

PersistCompletion(s)   == Persist(s, "completing", "complete")
PersistInterruption(s) == Persist(s, "interrupting", "fail")
PersistFailure(s)      == Persist(s, "failing", "fail")

\* An UPDATE of the loop throws: execute() catches it and calls markFailed.
UpdateThrows(s) ==
    /\ DbError
    /\ \/ /\ At(s, "flushing")
          /\ UNCHANGED row
       \/ /\ At(s, "completing")
          /\ row' \in {row, Written(s, AllowedFrom["complete"], "completed")}
       \/ /\ At(s, "interrupting")
          /\ row' \in {row, Written(s, AllowedFrom["fail"], "failed")}
    /\ GoTo(s, Abort(run[s]))
    /\ UNCHANGED <<proc, awaited, call>>

\* The UPDATE of markFailed itself throws: the error is logged and dropped.
FailureThrows(s) ==
    /\ At(s, "failing")
    /\ DbError
    /\ row' \in {row, Written(s, AllowedFrom["fail"], "failed")}
    /\ GoTo(s, [run[s] EXCEPT !.loop = "ending"])
    /\ UNCHANGED <<proc, awaited, call>>

\* The finally block: dispose the run and drop its handle.
Release(s) ==
    /\ At(s, "ending")
    /\ GoTo(s, Released)
    /\ UNCHANGED <<row, proc, awaited, call, dbErrors>>

-----------------------------------------------------------------------------
(* The process.                                                             *)

InFlight(s) == run[s].loop \notin {"none", "released"}

\* Mutant: shutdown() forgets the loops that wait for a resume.
ShutdownWithoutWaking ==
    /\ proc = "up"
    /\ proc' = "closing"
    /\ awaited' = {s \in Sims : InFlight(s)}
    /\ UNCHANGED <<row, run, call, dbErrors>>

\* shutdown(): raise the flag, wake the waiting loops, and wait for the tasks
\* that are pending at this moment.
Shutdown ==
    /\ proc = "up"
    /\ proc' = "closing"
    /\ awaited' = {s \in Sims : InFlight(s)}
    /\ run' = [s \in Sims |->
                  [run[s] EXCEPT !.loop = IF @ = "waiting" THEN "top" ELSE @]]
    /\ UNCHANGED <<row, call, dbErrors>>

\* Everything in memory is lost, the calls in progress with it.
ProcessEnds ==
    /\ proc' = "down"
    /\ awaited' = {}
    /\ run' = [s \in Sims |-> NoRun]
    /\ call' = [c \in Calls |-> Idle]
    /\ UNCHANGED <<row, dbErrors>>

Exit ==
    /\ proc = "closing"
    /\ \A s \in awaited : ~InFlight(s)
    /\ ProcessEnds

Crash ==
    /\ proc # "down"
    /\ ProcessEnds

\* Mutant: the server listens without reconciling the table.
BootWithoutRecovery ==
    /\ proc = "down"
    /\ proc' = "up"
    /\ UNCHANGED <<row, awaited, run, call, dbErrors>>

\* bootstrap(): the table is reconciled before the server listens.
Boot ==
    /\ proc = "down"
    /\ row' = [s \in Sims |-> IF row[s] \in Active THEN "failed" ELSE row[s]]
    /\ proc' = "up"
    /\ UNCHANGED <<awaited, run, call, dbErrors>>

-----------------------------------------------------------------------------
CallStep(c) ==
    \/ Apply(c)
    \/ \E s \in Sims :
          \/ ContinueStart(c, s)
          \/ ContinuePause(c, s)
          \/ ContinueResume(c, s)
          \/ ContinueCancel(c, s)

LoopStep(s) ==
    \/ Load(s)
    \/ FailToLoad(s)
    \/ Begin(s)
    \/ Drive(s)
    \/ Flush(s)
    \/ PersistCompletion(s)
    \/ PersistInterruption(s)
    \/ PersistFailure(s)
    \/ Release(s)

Next ==
    \/ \E s \in Sims : Create(s)
    \/ \E c \in Calls, op \in Ops, s \in Sims : Receive(c, op, s)
    \/ \E c \in Calls : CallStep(c) \/ ApplyThrows(c)
    \/ \E s \in Sims :
          LoopStep(s) \/ LoadThrows(s) \/ UpdateThrows(s) \/ FailureThrows(s)
    \/ Shutdown
    \/ Exit
    \/ Crash
    \/ Boot

Spec == Init /\ [][Next]_vars

\* The database answers, the event loop runs every continuation that is due,
\* and a supervisor restarts the process.  Clients owe nothing.
Fairness ==
    /\ \A c \in Calls : WF_vars(CallStep(c))
    /\ \A s \in Sims : WF_vars(LoopStep(s))
    /\ WF_vars(Exit)
    /\ WF_vars(Boot)

FairSpec == Spec /\ Fairness

-----------------------------------------------------------------------------
(* What the execution manager must guarantee.                               *)

\* A run that is neither paused nor cancelled in memory has a running engine
\* whenever its loop may go on: the control calls set the handle's flags and
\* move the engine together, in whatever order their answers arrive, so the
\* loop never steps an engine that refuses it (which would fail the run).
LoopMeetsRunningEngine ==
    \A s \in Sims :
        /\ run[s].loop \in {"top", "waiting", "flushing"}
        /\ ~run[s].paused
        /\ ~run[s].cancelled
        => run[s].engine = "running"

\* Two start calls that both read `created` launch one loop: the claim is the
\* status-scoped UPDATE of SimulationExecutionManager.start, not the check.
AtMostOneLoop ==
    \A s \in Sims :
        LET claims == {c \in Calls : Continues(c, "start", s)}
        IN  /\ Cardinality(claims) <= 1
            /\ InFlight(s) => claims = {}

\* A row is only ever marked completed by a loop whose engine has run out of
\* events: pausing, cancelling, shutting down or failing never looks like a
\* completion.
CompletionIsEarned ==
    [][\A s \in Sims :
          row[s] # "completed" /\ row'[s] = "completed"
          => run[s].engine = "completed" /\ run[s].left = 0]_vars

\* The table follows the lifecycle matrix whatever the calls, the loops, the
\* failures of the database, the crashes and the restarts do: in particular a
\* late statement never moves a row out of a terminal status.
Lifecycles == INSTANCE RunLifecycle WITH Sims <- Sims, row <- row
FollowsLifecycle == Lifecycles!Spec

\* While the process is up, an active row belongs to a loop in memory or to a
\* start call about to launch one.  (Checked without pause and without failing
\* statements: ReleasedRunIsTerminal shows what a pause can do.)
NoOrphanRow ==
    \A s \in Sims :
        /\ proc # "down"
        /\ row[s] \in Active
        => \/ run[s].handle
           \/ \E c \in Calls : Continues(c, "start", s)

\* When shutdown() has waited for the tasks it saw, every row they drove is
\* out of the active statuses before the process exits.
ExitIsClean ==
    /\ proc = "closing"
    /\ \A s \in awaited : ~InFlight(s)
    => \A s \in awaited : row[s] \notin Active

\* A started run reaches the end of its life, through its loop, a cancel, the
\* shutdown or the recovery of the next boot.
StartedRunsEnd ==
    \A s \in Sims : row[s] = "running" ~> row[s] \notin Active

\* A cancelled run gives back its memory: the loop sees the signal even when
\* it waits for a resume, and whatever pause and resume calls raced with it.
\* (A cancel whose UPDATE is applied and whose answer is lost signals nobody.)
CancelledRunIsReleased ==
    \A s \in Sims :
        row[s] = "cancelled" /\ run[s].handle ~> ~run[s].handle \/ dbErrors > 0

\* A shutdown never hangs on a paused run.
ShutdownTerminates == proc = "closing" ~> proc = "down"

-----------------------------------------------------------------------------
(* What comments of the code say, and the code does not do (README).        *)

NoCallOn(s) == \A c \in Calls : call[c] # Idle => call[c].sim # s

\* "Resumes a paused simulation, persisting the status and unblocking the
\* loop" (simulation.execution.ts): once every call on a run is answered, a
\* running row does not have a loop that waits for a resume.
ResumeUnblocksLoop ==
    \A s \in Sims :
        row[s] = "running" /\ NoCallOn(s) => ~At(s, "waiting")

\* "Reconstructs the run, drives it to a terminal state, then releases it":
\* a released run has a terminal row.
ReleasedRunIsTerminal ==
    \A s \in Sims : At(s, "released") => row[s] \notin Active

\* "Stops accepting new work, marks every in-flight run as interrupted, and
\* waits for the background loops to settle": when shutdown() returns, no row
\* is active.
ShutdownSettlesEveryRun ==
    /\ proc = "closing"
    /\ \A s \in awaited : ~InFlight(s)
    => \A s \in Sims : row[s] \notin Active

=============================================================================
