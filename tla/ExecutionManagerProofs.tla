----------------------- MODULE ExecutionManagerProofs -----------------------
(***************************************************************************)
(* Proofs about the execution manager, for any set of runs and of calls    *)
(* and any bounds: its type invariant, the safety properties the runs      *)
(* check on small instances, and that the table follows RunLifecycle.  The *)
(* last section, about who owns an active row, is for managers that pause  *)
(* nothing and whose statements do not fail.                               *)
(***************************************************************************)
EXTENDS ExecutionManager, FiniteSetTheorems, TLAPS

-----------------------------------------------------------------------------
(* The inductive invariant.                                                 *)

\* The flags of a handle explain its engine.  A loop that may go on has an
\* engine that was running before it was steered; it has stopped only together
\* with its flag; and a loop that persists a completion has earned it.
RunInv(r) ==
    /\ r.loop \in {"top", "waiting", "flushing"}
         => r.engine \in {"running", "paused", "cancelled"}
    /\ r.engine = "paused" => r.paused
    /\ r.engine = "cancelled" => r.cancelled
    /\ r.loop = "completing" => r.engine = "completed" /\ r.left = 0

\* The row of a run is `created` at most once, so a single call can claim it,
\* and no loop was launched for it before.
ClaimInv(s) ==
    /\ row[s] \in {"absent", "created"}
         => run[s].loop = "none" /\ \A c \in Calls : ~Continues(c, "start", s)
    /\ \A c \in Calls : Continues(c, "start", s) => run[s].loop = "none"
    /\ \A c, d \in Calls :
          Continues(c, "start", s) /\ Continues(d, "start", s) => c = d

\* The inductive invariant.
IInv ==
    /\ TypeOK
    /\ \A s \in Sims : RunInv(run[s]) /\ ClaimInv(s)

-----------------------------------------------------------------------------
(* Lemmas about the records of the in-memory side.                          *)

\* The records that are built from nothing.
LEMMA FreshRuns ==
    /\ NoRun \in RunState /\ RunInv(NoRun) /\ NoRun.loop = "none"
    /\ Launched \in RunState /\ RunInv(Launched)
    /\ Released \in RunState /\ RunInv(Released) /\ Released.loop = "released"
  <1>1. NoRun \in RunState
    BY ConstantsAssumption DEF ConstantsAssumption, NoRun, RunState, LoopPoint, Status
  <1>2. Launched \in RunState /\ Released \in RunState
    BY <1>1 DEF Launched, Released, RunState, LoopPoint
  <1>3. /\ RunInv(NoRun) /\ RunInv(Launched) /\ RunInv(Released)
        /\ NoRun.loop = "none" /\ Released.loop = "released"
    BY DEF NoRun, Launched, Released, RunInv
  <1> QED BY <1>1, <1>2, <1>3

\* The control calls keep the flags and the engine together, and move a loop at
\* most from waiting to the top.
LEMMA SteeringKeepsRunInv ==
    ASSUME NEW r \in RunState, RunInv(r), 
           NEW q \in {PauseInMemory(r), ResumeInMemory(r), CancelInMemory(r)}
    PROVE  /\ q \in RunState
           /\ RunInv(q)
           /\ q.loop = r.loop \/ (r.loop = "waiting" /\ q.loop = "top")
  <1>1. CASE q = PauseInMemory(r)
    BY <1>1 DEF PauseInMemory, EngineAllows, Allows, AllowedFrom, RunState, RunInv,
                LoopPoint, Status
  <1>2. CASE q = ResumeInMemory(r)
    BY <1>2 DEF ResumeInMemory, EngineAllows, Allows, AllowedFrom, RunState, RunInv,
                LoopPoint, Status
  <1>3. CASE q = CancelInMemory(r)
    BY <1>3 DEF CancelInMemory, EngineAllows, Allows, AllowedFrom, RunState, RunInv,
                LoopPoint, Status
  <1> QED BY <1>1, <1>2, <1>3

\* markFailed restores RunInv, also for an engine that has just failed.
LEMMA AbortGivesRunInv ==
    ASSUME NEW r \in RunState,
           r.engine = "paused" => r.paused,
           r.engine = "cancelled" => r.cancelled
    PROVE  /\ Abort(r) \in RunState
           /\ RunInv(Abort(r))
           /\ Abort(r).loop \in {"released", "failing"}
  BY FreshRuns DEF Abort, RunState, RunInv, LoopPoint

\* One turn of the drive loop leaves a record of the type, with RunInv, whose
\* loop has been launched.
LEMMA TurnKeepsRunInv ==
    ASSUME NEW s \in Sims, NEW r \in RunState, RunInv(r),
           r.engine \in {"running", "paused", "cancelled"},
           Turn(s, r)
    PROVE  \E q \in RunState : /\ RunInv(q)
                               /\ q.loop # "none"
                               /\ run' = [run EXCEPT ![s] = q]
  <1> USE DEF GoTo
  <1>1. CASE proc = "closing" /\ GoTo(s, [r EXCEPT !.loop = "interrupting"])
    <2> DEFINE q == [r EXCEPT !.loop = "interrupting"]
    <2>1. q \in RunState /\ RunInv(q) /\ q.loop # "none"
      BY DEF RunState, RunInv, LoopPoint
    <2> QED BY <1>1, <2>1
  <1>2. CASE GoTo(s, Released)
    BY <1>2, FreshRuns
  <1>3. CASE GoTo(s, [r EXCEPT !.loop = "waiting"])
    <2> DEFINE q == [r EXCEPT !.loop = "waiting"]
    <2>1. q \in RunState /\ RunInv(q) /\ q.loop # "none"
      BY DEF RunState, RunInv, LoopPoint
    <2> QED BY <1>3, <2>1
  <1>4. CASE GoTo(s, Abort(r))
    <2>1. /\ Abort(r) \in RunState /\ RunInv(Abort(r))
          /\ Abort(r).loop # "none"
      BY AbortGivesRunInv DEF RunInv
    <2> QED BY <1>4, <2>1
  <1>5. CASE r.engine = "running" /\ Burst(s, r)
    <2>1. ASSUME NEW k \in 1 .. r.left, k < r.left,
                 GoTo(s, [r EXCEPT !.left = @ - k, !.loop = "flushing"])
          PROVE  \E q \in RunState : /\ RunInv(q)
                                     /\ q.loop # "none"
                                     /\ run' = [run EXCEPT ![s] = q]
      <3> DEFINE q == [r EXCEPT !.left = @ - k, !.loop = "flushing"]
      <3>1. q \in RunState /\ RunInv(q) /\ q.loop # "none"
        <4>1. r.left - k \in 0 .. MaxEvents /\ "flushing" \in LoopPoint
          BY <2>1, ConstantsAssumption DEF ConstantsAssumption, RunState, LoopPoint
        <4> QED BY <1>5, <4>1 DEF RunState, RunInv
      <3> QED BY <2>1, <3>1
    <2> DEFINE done == [r EXCEPT !.left = 0, !.engine = "completed",
                                 !.loop = "completing"]
    <2>2. done \in RunState /\ RunInv(done) /\ done.loop # "none"
      <3>1. 0 \in 0 .. MaxEvents /\ "completed" \in Status /\ "completing" \in LoopPoint
        BY ConstantsAssumption DEF ConstantsAssumption, LoopPoint, Status
      <3> QED BY <3>1 DEF RunState, RunInv
    <2>3. r.left = 0 =>
            [r EXCEPT !.engine = "completed", !.loop = "completing"] = done
      BY DEF RunState
    <2> DEFINE broken == [r EXCEPT !.engine = "failed"]
    <2>4. broken \in RunState /\ broken.engine = "failed"
      BY DEF RunState, Status
    <2> HIDE DEF broken
    <2>5. /\ Abort(broken) \in RunState /\ RunInv(Abort(broken))
          /\ Abort(broken).loop # "none"
      BY <2>4, AbortGivesRunInv
    <2> HIDE DEF done
    <2>6. CASE \E k \in 1 .. r.left :
                  GoTo(s, IF k < r.left
                          THEN [r EXCEPT !.left = @ - k, !.loop = "flushing"]
                          ELSE done)
      BY <2>6, <2>1, <2>2
    <2>7. CASE r.left = 0 /\ GoTo(s, done)
      BY <2>7, <2>2
    <2>8. CASE GoTo(s, Abort(broken))
      BY <2>8, <2>5
    <2> QED BY <1>5, <2>3, <2>6, <2>7, <2>8 DEF Burst, done, broken
  <1> QED BY <1>1, <1>2, <1>3, <1>4, <1>5 DEF Turn

-----------------------------------------------------------------------------
(* The invariant is inductive.                                              *)

\* The statuses of a row that no claim has changed yet.
Fresh(R, s) == R[s] \in {"absent", "created"}

\* The invariant holds when the process has been started.
LEMMA InitIInv == Init => IInv
  <1>1. Init => TypeOK
    BY FreshRuns, ConstantsAssumption
       DEF Init, TypeOK, ConstantsAssumption, RowStatus, CallState
  <1>2. ASSUME Init, NEW s \in Sims PROVE RunInv(run[s]) /\ ClaimInv(s)
    <2>1. run[s] = NoRun /\ \A c \in Calls : call[c] = Idle
      BY <1>2 DEF Init
    <2>2. \A c \in Calls : ~Continues(c, "start", s)
      BY <2>1 DEF Continues, Idle
    <2> QED BY <2>1, <2>2, FreshRuns DEF ClaimInv
  <1> QED BY <1>1, <1>2 DEF IInv

\* A step that makes no claim and launches no loop keeps the invariant when it
\* keeps the types and RunInv.
LEMMA KeepsIInv ==
    ASSUME IInv, TypeOK',
           \A s \in Sims : RunInv(run'[s]),
           \A s \in Sims : Fresh(row', s) => Fresh(row, s),
           \A s \in Sims : run[s].loop = "none" => run'[s].loop = "none",
           \A c \in Calls, s \in Sims :
              Continues(c, "start", s)' => Continues(c, "start", s)
    PROVE  IInv'
  <1>1. ASSUME NEW s \in Sims PROVE ClaimInv(s)'
    <2>1. ClaimInv(s)
      BY DEF IInv
    <2>2. Fresh(row', s) => run'[s].loop = "none" /\ \A c \in Calls : ~Continues(c, "start", s)'
      BY <2>1 DEF ClaimInv, Fresh
    <2>3. \A c \in Calls : Continues(c, "start", s)' => run'[s].loop = "none"
      BY <2>1 DEF ClaimInv
    <2>4. \A c, d \in Calls :
             Continues(c, "start", s)' /\ Continues(d, "start", s)' => c = d
      BY <2>1 DEF ClaimInv
    <2> QED BY <2>2, <2>3, <2>4 DEF ClaimInv, Fresh
  <1> QED BY <1>1 DEF IInv

\* What a guarded statement leaves in the table.
LEMMA WrittenRows ==
    ASSUME TypeOK, NEW s \in Sims, NEW from,
           NEW to \in RowStatus \ {"absent", "created"}
    PROVE  /\ Written(s, from, to) \in [Sims -> RowStatus]
           /\ \A t \in Sims : Fresh(Written(s, from, to), t) => Fresh(row, t)
  BY DEF TypeOK, Written, Fresh

\* A step of a launched loop.
LEMMA GoToKeepsIInv ==
    ASSUME IInv, NEW s \in Sims, run[s].loop # "none",
           NEW q \in RunState, RunInv(q), run' = [run EXCEPT ![s] = q],
           row' \in [Sims -> RowStatus],
           \A t \in Sims : Fresh(row', t) => Fresh(row, t),
           dbErrors' \in 0 .. MaxDbErrors,
           UNCHANGED <<proc, awaited, call>>
    PROVE  IInv'
  <1>1. TypeOK'
    BY DEF IInv, TypeOK
  <1>2. \A t \in Sims : RunInv(run'[t])
    BY DEF IInv, TypeOK
  <1>3. \A t \in Sims : run[t].loop = "none" => run'[t].loop = "none"
    BY DEF IInv, TypeOK
  <1>4. \A c \in Calls, t \in Sims :
           Continues(c, "start", t)' => Continues(c, "start", t)
    BY DEF Continues
  <1> QED BY <1>1, <1>2, <1>3, <1>4, KeepsIInv

\* A failing statement is counted.
LEMMA DbErrorType == TypeOK /\ DbError => dbErrors' \in 0 .. MaxDbErrors
  BY ConstantsAssumption DEF ConstantsAssumption, TypeOK, DbError

\* Every step of an execution loop keeps it.
LEMMA LoopStepKeepsIInv ==
    ASSUME IInv, NEW s \in Sims,
           LoopStep(s) \/ LoadThrows(s) \/ UpdateThrows(s) \/ FailureThrows(s)
    PROVE  IInv'
  <1> DEFINE r == run[s]
  <1>1. /\ TypeOK /\ r \in RunState /\ RunInv(r)
        /\ row \in [Sims -> RowStatus] /\ dbErrors \in 0 .. MaxDbErrors
    BY DEF IInv, TypeOK
  <1>2. ASSUME NEW q \in RunState, RunInv(q), GoTo(s, q), r.loop # "none",
               UNCHANGED <<proc, awaited, call>>,
               dbErrors' = dbErrors \/ DbError,
               \/ row' = row
               \/ \E from : row' = Written(s, from, "completed")
               \/ \E from : row' = Written(s, from, "failed")
        PROVE  IInv'
    <2>1. /\ row' \in [Sims -> RowStatus]
          /\ \A t \in Sims : Fresh(row', t) => Fresh(row, t)
      <3>1. "completed" \in RowStatus /\ "failed" \in RowStatus
        BY DEF RowStatus, Status
      <3> QED BY <1>1, <1>2, <3>1, WrittenRows
    <2>2. dbErrors' \in 0 .. MaxDbErrors
      BY <1>1, <1>2, DbErrorType
    <2> QED BY <1>2, <2>1, <2>2, GoToKeepsIInv DEF GoTo
  \* The loop moves on to an await that RunInv says nothing about.
  <1>3. ASSUME NEW next \in {"loaded", "missing", "ending"}
        PROVE  LET q == [r EXCEPT !.loop = next] IN q \in RunState /\ RunInv(q)
    BY <1>1 DEF RunState, RunInv, LoopPoint
  <1>4. Abort(r) \in RunState /\ RunInv(Abort(r))
    BY <1>1, AbortGivesRunInv DEF RunInv
  <1>5. CASE Load(s)
    <2>1. PICK next \in {"loaded", "missing"} : GoTo(s, [r EXCEPT !.loop = next])
      BY <1>5 DEF Load
    <2> QED BY <1>2, <1>3, <1>5, <2>1 DEF Load, At
  <1>6. CASE FailToLoad(s)
    BY <1>2, <1>4, <1>6 DEF FailToLoad, At
  <1>7. CASE Begin(s)
    <2>1. PICK n \in 0 .. MaxEvents :
             Turn(s, [r EXCEPT !.engine = "running", !.left = n])
      BY <1>7 DEF Begin
    <2> DEFINE b == [r EXCEPT !.engine = "running", !.left = n]
    <2>2. b \in RunState /\ RunInv(b) /\ b.engine = "running"
      BY <1>1, <1>7 DEF RunState, RunInv, Status, Begin, At
    <2> HIDE DEF b
    <2>3. PICK q \in RunState : RunInv(q) /\ GoTo(s, q)
      BY <2>1, <2>2, TurnKeepsRunInv DEF b, GoTo
    <2> QED BY <1>2, <1>7, <2>3 DEF Begin, At
  <1>8. CASE Drive(s)
    <2>1. r.engine \in {"running", "paused", "cancelled"}
      BY <1>1, <1>8 DEF Drive, At, RunInv
    <2>2. PICK q \in RunState : RunInv(q) /\ GoTo(s, q)
      BY <1>1, <1>8, <2>1, TurnKeepsRunInv DEF Drive, GoTo
    <2> QED BY <1>2, <1>8, <2>2 DEF Drive, At
  <1>9. CASE Flush(s)
    <2> DEFINE q == [r EXCEPT !.loop = "top"]
    <2>1. q \in RunState /\ RunInv(q)
      BY <1>1, <1>9 DEF RunState, RunInv, LoopPoint, Flush, At
    <2> QED BY <1>2, <1>9, <2>1 DEF Flush, At
  <1>10. CASE PersistCompletion(s)
    BY <1>2, <1>3, <1>10 DEF PersistCompletion, Persist, At, TargetStatus
  <1>11. CASE PersistInterruption(s) \/ PersistFailure(s)
    BY <1>2, <1>3, <1>11
       DEF PersistInterruption, PersistFailure, Persist, At, TargetStatus
  <1>12. CASE Release(s)
    BY <1>2, <1>12, FreshRuns DEF Release, At
  <1>13. CASE LoadThrows(s)
    BY <1>2, <1>3, <1>13 DEF LoadThrows, At
  <1>14. CASE UpdateThrows(s)
    BY <1>2, <1>4, <1>14 DEF UpdateThrows, At
  <1>15. CASE FailureThrows(s)
    BY <1>2, <1>3, <1>15 DEF FailureThrows, At
  <1> QED
    BY <1>5, <1>6, <1>7, <1>8, <1>9, <1>10, <1>11, <1>12, <1>13, <1>14, <1>15
       DEF LoopStep

\* A call that is on its way to steer run s has a place in the types.
LEMMA ContinuesType ==
    ASSUME TypeOK, NEW c \in Calls
    PROVE  /\ [call EXCEPT ![c] = Idle] \in [Calls -> CallState]
           /\ \A d \in Calls : \A op, s :
                 [call EXCEPT ![c] = Idle][d] = [pc |-> "applied", op |-> op, sim |-> s]
                 => d # c /\ Continues(d, op, s)
  <1>1. Idle \in CallState
    BY DEF CallState
  <1>2. \A op, s : Idle # [pc |-> "applied", op |-> op, sim |-> s]
    BY DEF Idle
  <1> QED BY <1>1, <1>2 DEF TypeOK, Continues

\* The service's check and the database's answer.
LEMMA ServiceKeepsIInv ==
    ASSUME IInv,
           \/ \E s \in Sims : Create(s)
           \/ \E c \in Calls, op \in Ops, s \in Sims : Receive(c, op, s)
           \/ \E c \in Calls : ApplyThrows(c)
    PROVE  IInv'
  <1>1. TypeOK
    BY DEF IInv
  <1>2. CASE \E s \in Sims : Create(s)
    <2>1. PICK s \in Sims : Create(s)
      BY <1>2
    <2>2. TypeOK'
      BY <1>1, <2>1 DEF TypeOK, Create, RowStatus, Status
    <2>3. \A t \in Sims : Fresh(row', t) => Fresh(row, t)
      BY <1>1, <2>1 DEF TypeOK, Create, Fresh
    <2> QED BY <2>1, <2>2, <2>3, KeepsIInv DEF Create, IInv, Continues
  <1>3. CASE \E c \in Calls, op \in Ops, s \in Sims : Receive(c, op, s)
    <2>1. PICK c \in Calls, op \in Ops, s \in Sims : Receive(c, op, s)
      BY <1>3
    <2> DEFINE checked == [pc |-> "checked", op |-> op, sim |-> s]
    <2>2. checked \in CallState
      BY ConstantsAssumption DEF ConstantsAssumption, CallState
    <2>3. TypeOK'
      BY <1>1, <2>1, <2>2 DEF TypeOK, Receive
    <2>4. \A d \in Calls, t \in Sims :
             Continues(d, "start", t)' => Continues(d, "start", t)
      BY <1>1, <2>1 DEF TypeOK, Receive, Continues
    <2> QED BY <2>1, <2>3, <2>4, KeepsIInv DEF Receive, IInv, Fresh
  <1>4. CASE \E c \in Calls : ApplyThrows(c)
    <2>1. PICK c \in Calls : ApplyThrows(c)
      BY <1>4
    <2> DEFINE s == call[c].sim  op == call[c].op
    <2>2. s \in Sims /\ op \in Operation
      BY <1>1, <2>1 DEF TypeOK, ApplyThrows, CallState, Idle
    <2>3. ResultOf(op) \in RowStatus \ {"absent", "created"}
      BY <2>2 DEF ResultOf, Operation, TargetStatus, RowStatus, Status
    <2>4. row' \in [Sims -> RowStatus] /\ \A t \in Sims : Fresh(row', t) => Fresh(row, t)
      <3>1. CASE row' = row
        BY <1>1, <3>1 DEF TypeOK, Fresh
      <3>2. CASE row' = Written(s, AcceptedFrom(op), ResultOf(op))
        BY <1>1, <2>2, <2>3, <3>2, WrittenRows
      <3> QED BY <2>1, <3>1, <3>2 DEF ApplyThrows
    <2>5. dbErrors' \in 0 .. MaxDbErrors
      BY <1>1, <2>1, DbErrorType DEF ApplyThrows
    <2>6. TypeOK'
      BY <1>1, <2>1, <2>4, <2>5, ContinuesType DEF TypeOK, ApplyThrows
    <2>7. \A d \in Calls, t \in Sims :
             Continues(d, "start", t)' => Continues(d, "start", t)
      BY <1>1, <2>1, ContinuesType DEF ApplyThrows, Continues
    <2> QED BY <2>1, <2>4, <2>6, <2>7, KeepsIInv DEF ApplyThrows, IInv
  <1> QED BY <1>2, <1>3, <1>4

\* The guarded UPDATE: of all calls that were checked, the one that finds the
\* row `created` makes the claim, and it finds no loop and no other claim.
LEMMA ApplyKeepsIInv ==
    ASSUME IInv, NEW c \in Calls, Apply(c)
    PROVE  IInv'
  <1> DEFINE s == call[c].sim
             op == call[c].op
             applied == row[s] \in AcceptedFrom(op)
             next == [call[c] EXCEPT !.pc = "applied"]
  <1>1. TypeOK /\ s \in Sims /\ op \in Operation
    BY DEF IInv, TypeOK, Apply, CallState, Idle
  <1>2. ResultOf(op) \in RowStatus \ {"absent", "created"}
    BY <1>1 DEF ResultOf, Operation, TargetStatus, RowStatus, Status
  <1>3. row' \in [Sims -> RowStatus] /\ \A t \in Sims : Fresh(row', t) => Fresh(row, t)
    BY <1>1, <1>2, WrittenRows DEF Apply
  <1>4. next = [pc |-> "applied", op |-> op, sim |-> s] /\ next \in CallState
    BY <1>1 DEF TypeOK, Apply, CallState, Idle
  <1>5. TypeOK'
    <2>1. Idle \in CallState
      BY DEF CallState
    <2> QED BY <1>1, <1>3, <1>4, <2>1 DEF TypeOK, Apply
  <1>6. \A t \in Sims : RunInv(run'[t]) /\ run'[t] = run[t]
    BY DEF Apply, IInv
  <1>7. CASE ~(applied /\ op = "start")
    <2>1. \A d \in Calls, t \in Sims :
             Continues(d, "start", t)' => Continues(d, "start", t)
      <3>1. call'[c] = next => op # "start"
        BY <1>1, <1>4, <1>7 DEF Apply, TypeOK, Idle
      <3>2. call'[c] \in {next, Idle} /\ \A d \in Calls \ {c} : call'[d] = call[d]
        BY <1>1 DEF Apply, TypeOK
      <3> QED BY <1>4, <3>1, <3>2 DEF Continues, Idle
    <2> QED BY <1>3, <1>5, <1>6, <2>1, KeepsIInv
  <1>8. CASE applied /\ op = "start"
    <2>1. row[s] = "created" /\ row'[s] = "running"
      BY <1>1, <1>8 DEF Apply, Written, AcceptedFrom, AllowedFrom, ResultOf,
                        TargetStatus, TypeOK
    <2>2. run[s].loop = "none" /\ \A d \in Calls : ~Continues(d, "start", s)
      BY <1>1, <2>1 DEF IInv, ClaimInv
    <2>3. /\ call'[c] = [pc |-> "applied", op |-> "start", sim |-> s]
          /\ \A d \in Calls \ {c} : call'[d] = call[d]
      BY <1>1, <1>4, <1>8 DEF Apply, TypeOK
    <2>4. ASSUME NEW t \in Sims PROVE ClaimInv(t)'
      <3>1. CASE t = s
        BY <1>6, <2>1, <2>2, <2>3, <3>1 DEF ClaimInv, Continues
      <3>2. CASE t # s
        <4>1. \A d \in Calls : Continues(d, "start", t)' => Continues(d, "start", t)
          BY <2>3, <3>2 DEF Continues
        <4> QED BY <1>3, <1>6, <4>1 DEF IInv, ClaimInv, Fresh
      <3> QED BY <3>1, <3>2
    <2> QED BY <1>5, <1>6, <2>4 DEF IInv
  <1> QED BY <1>7, <1>8

\* A call that steers its run in memory.
LEMMA SteerKeepsIInv ==
    ASSUME IInv, NEW c \in Calls, NEW s \in Sims,
           ContinuePause(c, s) \/ ContinueResume(c, s) \/ ContinueCancel(c, s)
    PROVE  IInv'
  <1> DEFINE r == run[s]
  <1>1. TypeOK /\ r \in RunState /\ RunInv(r)
    BY DEF IInv, TypeOK
  <1>2. PICK q \in {r, PauseInMemory(r), ResumeInMemory(r), CancelInMemory(r)} :
           run' = [run EXCEPT ![s] = q]
    BY DEF ContinuePause, ContinueResume, ContinueCancel, Steer
  <1>3. /\ q \in RunState /\ RunInv(q)
        /\ q.loop = r.loop \/ (r.loop = "waiting" /\ q.loop = "top")
    BY <1>1, <1>2, SteeringKeepsRunInv
  <1>4. Answer(c) /\ UNCHANGED <<row, proc, awaited, dbErrors>>
    BY DEF ContinuePause, ContinueResume, ContinueCancel, Steer
  <1>5. TypeOK'
    BY <1>1, <1>2, <1>3, <1>4, ContinuesType DEF TypeOK, Answer
  <1>6. \A t \in Sims : RunInv(run'[t]) /\ (run[t].loop = "none" => run'[t].loop = "none")
    BY <1>1, <1>2, <1>3 DEF IInv, TypeOK
  <1>7. \A d \in Calls, t \in Sims :
           Continues(d, "start", t)' => Continues(d, "start", t)
    BY <1>1, <1>4, ContinuesType DEF Answer, Continues
  <1> QED BY <1>4, <1>5, <1>6, <1>7, KeepsIInv DEF Fresh

\* The claim is given up for the loop it launches.
LEMMA ContinueStartKeepsIInv ==
    ASSUME IInv, NEW c \in Calls, NEW s \in Sims, ContinueStart(c, s)
    PROVE  IInv'
  <1>1. TypeOK /\ run' = [run EXCEPT ![s] = Launched] /\ Answer(c)
        /\ Continues(c, "start", s) /\ UNCHANGED <<row, proc, awaited, dbErrors>>
    BY DEF IInv, ContinueStart
  <1>2. TypeOK'
    BY <1>1, FreshRuns, ContinuesType DEF TypeOK, Answer
  <1>3. \A t \in Sims : RunInv(run'[t])
    BY <1>1, FreshRuns DEF IInv, TypeOK
  <1>4. \A d \in Calls, t \in Sims :
           Continues(d, "start", t)' => d # c /\ Continues(d, "start", t)
    BY <1>1, ContinuesType DEF Answer, Continues
  <1>5. ASSUME NEW t \in Sims PROVE ClaimInv(t)'
    <2>1. CASE t = s
      <3>1. \A d \in Calls : ~Continues(d, "start", s)'
        BY <1>1, <1>4 DEF IInv, ClaimInv
      <3>2. row'[s] \notin {"absent", "created"}
        BY <1>1 DEF IInv, ClaimInv
      <3> QED BY <2>1, <3>1, <3>2 DEF ClaimInv
    <2>2. CASE t # s
      <3>1. run'[t] = run[t] /\ row'[t] = row[t]
        BY <1>1, <2>2 DEF TypeOK
      <3> QED BY <1>4, <3>1 DEF IInv, ClaimInv
    <2> QED BY <2>1, <2>2
  <1> QED BY <1>2, <1>3, <1>5 DEF IInv

\* Shutting down, ending and booting.
LEMMA ProcessKeepsIInv ==
    ASSUME IInv, Shutdown \/ Exit \/ Crash \/ Boot
    PROVE  IInv'
  <1>1. TypeOK
    BY DEF IInv
  <1>2. CASE Shutdown
    <2> DEFINE woken(t) == [run[t] EXCEPT !.loop = IF @ = "waiting" THEN "top" ELSE @]
    <2>1. ASSUME NEW t \in Sims
          PROVE  /\ woken(t) \in RunState /\ RunInv(woken(t))
                 /\ run[t].loop = "none" => woken(t).loop = "none"
      BY DEF IInv, TypeOK, RunState, RunInv, LoopPoint
    <2> HIDE DEF woken
    <2>2. run' = [t \in Sims |-> woken(t)]
      BY <1>2 DEF Shutdown, woken
    <2>3. TypeOK'
      BY <1>1, <1>2, <2>1, <2>2 DEF TypeOK, Shutdown
    <2> QED BY <1>2, <2>1, <2>2, <2>3, KeepsIInv DEF Shutdown, Continues, Fresh
  <1>3. CASE Exit \/ Crash
    <2>1. ProcessEnds
      BY <1>3 DEF Exit, Crash
    <2>2. TypeOK'
      BY <1>1, <2>1, FreshRuns DEF TypeOK, ProcessEnds, CallState
    <2>3. \A d \in Calls, t \in Sims : ~Continues(d, "start", t)'
      BY <2>1 DEF ProcessEnds, Continues, Idle
    <2>4. \A t \in Sims : run'[t] = NoRun
      BY <2>1 DEF ProcessEnds
    <2> QED BY <2>1, <2>2, <2>3, <2>4, FreshRuns, KeepsIInv DEF ProcessEnds, Fresh
  <1>4. CASE Boot
    <2>1. TypeOK'
      BY <1>1, <1>4 DEF TypeOK, Boot, RowStatus, Status
    <2>2. \A t \in Sims : Fresh(row', t) => Fresh(row, t)
      BY <1>4 DEF Boot, Fresh
    <2> QED BY <1>4, <2>1, <2>2, KeepsIInv DEF Boot, Continues, IInv
  <1> QED BY <1>2, <1>3, <1>4

\* Every step keeps it.
LEMMA NextIInv == IInv /\ [Next]_vars => IInv'
  <1> SUFFICES ASSUME IInv, [Next]_vars PROVE IInv'
    OBVIOUS
  <1>1. CASE UNCHANGED vars
    BY <1>1 DEF vars, IInv, TypeOK, ClaimInv, Continues
  <1>2. CASE Next
    <2>1. CASE \E c \in Calls : CallStep(c)
      BY <2>1, ApplyKeepsIInv, ContinueStartKeepsIInv, SteerKeepsIInv DEF CallStep
    <2>2. CASE \E s \in Sims :
                  LoopStep(s) \/ LoadThrows(s) \/ UpdateThrows(s) \/ FailureThrows(s)
      BY <2>2, LoopStepKeepsIInv
    <2> QED BY <1>2, <2>1, <2>2, ServiceKeepsIInv, ProcessKeepsIInv DEF Next
  <1> QED BY <1>1, <1>2

\* The strengthening all theorems below rest on: handles, engines and loops
\* agree, and a claim is made once.
THEOREM Invariance == Spec => []IInv
  BY InitIInv, NextIInv, PTL DEF Spec

-----------------------------------------------------------------------------
(* The theorems.                                                            *)

\* Every variable keeps its type, for any number of runs and calls.
THEOREM TypeCorrect == Spec => []TypeOK
  <1>1. IInv => TypeOK
    BY DEF IInv
  <1> QED BY <1>1, Invariance, PTL

\* pause, resume and cancel never leave a loop that goes on with an engine that
\* refuses to step (execution.ts, pause/resume/cancel against drive).
THEOREM LoopsMeetRunningEngines == Spec => []LoopMeetsRunningEngine
  <1>1. IInv => LoopMeetsRunningEngine
    BY DEF IInv, RunInv, LoopMeetsRunningEngine
  <1> QED BY <1>1, Invariance, PTL

\* However many start calls pass their check, one launches a loop
\* (SimulationExecutionManager.start).
THEOREM OneLoopPerRun == Spec => []AtMostOneLoop
  <1>1. ASSUME IInv, NEW s \in Sims
        PROVE  LET claims == {c \in Calls : Continues(c, "start", s)}
               IN  Cardinality(claims) <= 1 /\ (InFlight(s) => claims = {})
    <2> DEFINE claims == {c \in Calls : Continues(c, "start", s)}
    <2>1. ClaimInv(s)
      BY <1>1 DEF IInv
    <2>2. InFlight(s) => claims = {}
      BY <2>1 DEF ClaimInv, InFlight
    <2>3. CASE claims = {}
      BY <2>2, <2>3, FS_EmptySet
    <2>4. CASE claims # {}
      <3>1. PICK c \in claims : TRUE
        BY <2>4
      <3>2. claims = {c}
        BY <2>1, <3>1 DEF ClaimInv
      <3>3. Cardinality(claims) = 1
        BY <3>2, FS_Singleton
      <3> QED BY <2>2, <3>3
    <2> QED BY <2>3, <2>4
  <1>2. IInv => AtMostOneLoop
    BY <1>1 DEF AtMostOneLoop
  <1> QED BY <1>2, Invariance, PTL

-----------------------------------------------------------------------------
(* What a step does to the table.                                           *)

\* The one statement of a step, and what it is allowed to do: a step creates a
\* row, deletes a row that is not active, moves a row along the matrix (to
\* `completed` only when the loop is at its last UPDATE), reconciles the table,
\* or leaves it alone.
LEMMA RowSteps ==
    ASSUME IInv, [Next]_vars
    PROVE  \/ UNCHANGED row
           \/ \E s \in Sims : row[s] = "absent" /\ row' = [row EXCEPT ![s] = "created"]
           \/ \E s \in Sims : /\ row[s] \in Status \ Active
                              /\ row' = [row EXCEPT ![s] = "deleted"]
           \/ \E s \in Sims, a \in {"start", "pause", "resume", "cancel", "complete", "fail"} :
                 /\ row[s] \in AllowedFrom[a]
                 /\ row' = [row EXCEPT ![s] = TargetStatus[a]]
                 /\ a = "complete" => run[s].loop = "completing"
           \/ row' = [s \in Sims |-> IF row[s] \in Active THEN "failed" ELSE row[s]]
  <1> DEFINE Moves(s, a) ==
               /\ row[s] \in AllowedFrom[a]
               /\ row' = [row EXCEPT ![s] = TargetStatus[a]]
               /\ a = "complete" => run[s].loop = "completing"
             Actions == {"start", "pause", "resume", "cancel", "complete", "fail"}
  <1>1. TypeOK
    BY DEF IInv
  <1>2. ASSUME NEW c \in Calls, call[c].pc = "checked",
               LET r == call[c]
               IN  row' \in {row, Written(r.sim, AcceptedFrom(r.op), ResultOf(r.op))}
        PROVE  \/ UNCHANGED row
               \/ \E s \in Sims : /\ row[s] \in Status \ Active
                                  /\ row' = [row EXCEPT ![s] = "deleted"]
               \/ \E s \in Sims, a \in Actions : Moves(s, a)
    <2>1. call[c].sim \in Sims /\ call[c].op \in Operation
      BY <1>1, <1>2 DEF TypeOK, CallState, Idle
    <2>2. CASE call[c].op = "remove"
      BY <1>2, <2>1, <2>2 DEF Written, AcceptedFrom, ResultOf
    <2>3. CASE call[c].op # "remove"
      <3>1. call[c].op \in Actions \ {"complete"}
        BY <2>1, <2>3 DEF Operation
      <3>2. row' = row \/ Moves(call[c].sim, call[c].op)
        BY <1>2, <2>3, <3>1 DEF Written, AcceptedFrom, ResultOf
      <3> QED BY <2>1, <3>1, <3>2
    <2> QED BY <2>2, <2>3
  <1>3. ASSUME NEW s \in Sims, NEW a \in {"complete", "fail"},
               a = "complete" => run[s].loop = "completing",
               row' \in {row, Written(s, AllowedFrom[a], TargetStatus[a])}
        PROVE  UNCHANGED row \/ \E t \in Sims, b \in Actions : Moves(t, b)
    BY <1>3 DEF Written
  <1>4. CASE UNCHANGED vars
    BY <1>4 DEF vars
  <1>5. CASE \E s \in Sims : Create(s)
    BY <1>5 DEF Create
  <1>6. CASE \E c \in Calls, op \in Ops, s \in Sims : Receive(c, op, s)
    BY <1>6 DEF Receive
  <1>7. CASE \E c \in Calls : Apply(c) \/ ApplyThrows(c)
    BY <1>2, <1>7 DEF Apply, ApplyThrows
  <1>8. CASE \E c \in Calls, s \in Sims :
                \/ ContinueStart(c, s)
                \/ ContinuePause(c, s)
                \/ ContinueResume(c, s)
                \/ ContinueCancel(c, s)
    BY <1>8 DEF ContinueStart, ContinuePause, ContinueResume, ContinueCancel, Steer
  <1>9. ASSUME NEW s \in Sims,
               LoopStep(s) \/ LoadThrows(s) \/ UpdateThrows(s) \/ FailureThrows(s)
        PROVE  UNCHANGED row \/ \E t \in Sims, b \in Actions : Moves(t, b)
    <2>1. CASE PersistCompletion(s)
      BY <1>3, <2>1 DEF PersistCompletion, Persist, At
    <2>2. CASE PersistInterruption(s) \/ PersistFailure(s)
      BY <1>3, <2>2 DEF PersistInterruption, PersistFailure, Persist, At
    <2>3. CASE UpdateThrows(s)
      BY <1>3, <2>3 DEF UpdateThrows, At, TargetStatus
    <2>4. CASE FailureThrows(s)
      BY <1>3, <2>4 DEF FailureThrows, At, TargetStatus
    <2>5. CASE Load(s) \/ FailToLoad(s) \/ Begin(s) \/ Drive(s) \/ Flush(s)
               \/ Release(s) \/ LoadThrows(s)
      BY <2>5 DEF Load, FailToLoad, Begin, Drive, Flush, Release, LoadThrows
    <2> QED BY <1>9, <2>1, <2>2, <2>3, <2>4, <2>5 DEF LoopStep
  <1>10. CASE Shutdown \/ Exit \/ Crash
    BY <1>10 DEF Shutdown, Exit, Crash, ProcessEnds
  <1>11. CASE Boot
    BY <1>11 DEF Boot
  <1> QED
    BY <1>4, <1>5, <1>6, <1>7, <1>8, <1>9, <1>10, <1>11 DEF Next, CallStep

\* A row becomes `completed` only when the engine of its loop has completed with
\* no event left (execution.ts, drive).
THEOREM CompletionsAreEarned == Spec => CompletionIsEarned
  <1> DEFINE Earned == \A s \in Sims :
                          row[s] # "completed" /\ row'[s] = "completed"
                          => run[s].engine = "completed" /\ run[s].left = 0
  <1>1. ASSUME IInv, [Next]_vars PROVE Earned
    <2>1. SUFFICES ASSUME NEW s \in Sims, row[s] # "completed", row'[s] = "completed"
                   PROVE  run[s].engine = "completed" /\ run[s].left = 0
      OBVIOUS
    <2>2. row \in [Sims -> RowStatus]
      BY <1>1 DEF IInv, TypeOK
    <2>3. run[s].loop = "completing"
      BY <1>1, <2>1, <2>2, RowSteps DEF TargetStatus
    <2> QED BY <1>1, <2>3 DEF IInv, RunInv
  <1>2. IInv /\ [Next]_vars => [Earned]_vars
    BY <1>1
  <1> QED BY <1>2, Invariance, PTL DEF Spec, CompletionIsEarned

\* The service, the manager, the loops, the failures of the database, crashes
\* and restarts together implement RunLifecycle.
THEOREM ImplementsRunLifecycle == Spec => FollowsLifecycle
  <1>1. Init => Lifecycles!Init
    BY DEF Init, Lifecycles!Init
  <1>2. IInv /\ [Next]_vars => [Lifecycles!Next]_row
    <2> SUFFICES ASSUME IInv, [Next]_vars PROVE [Lifecycles!Next]_row
      OBVIOUS
    <2> USE DEF Lifecycles!Next
    <2>1. CASE \E s \in Sims : row[s] = "absent" /\ row' = [row EXCEPT ![s] = "created"]
      BY <2>1 DEF Lifecycles!Create
    <2>2. CASE \E s \in Sims : /\ row[s] \in Status \ Active
                               /\ row' = [row EXCEPT ![s] = "deleted"]
      BY <2>2 DEF Lifecycles!Remove, Lifecycles!Status, Lifecycles!Active, Status, Active
    <2>3. CASE \E s \in Sims,
                  a \in {"start", "pause", "resume", "cancel", "complete", "fail"} :
                  /\ row[s] \in AllowedFrom[a]
                  /\ row' = [row EXCEPT ![s] = TargetStatus[a]]
                  /\ a = "complete" => run[s].loop = "completing"
      <3>1. PICK s \in Sims,
                 a \in {"start", "pause", "resume", "cancel", "complete", "fail"} :
                  /\ row[s] \in AllowedFrom[a]
                  /\ row' = [row EXCEPT ![s] = TargetStatus[a]]
        BY <2>3
      <3>2. Lifecycles!Move(s, a)
        BY <3>1 DEF Lifecycles!Move, Lifecycles!Allows, Lifecycles!AllowedFrom,
                    Lifecycles!TargetStatus, Lifecycles!Status,
                    AllowedFrom, TargetStatus, Status
      <3> QED BY <3>1, <3>2
    <2>4. CASE row' = [s \in Sims |-> IF row[s] \in Active THEN "failed" ELSE row[s]]
      BY <2>4 DEF Lifecycles!Interrupt, Lifecycles!Active, Active
    <2> QED BY <2>1, <2>2, <2>3, <2>4, RowSteps
  <1> QED BY <1>1, <1>2, Invariance, PTL DEF Spec, FollowsLifecycle, Lifecycles!Spec

-----------------------------------------------------------------------------
(* Who owns an active row.  Nothing is paused and no statement fails: a run   *)
(* paused after its last event, or a last UPDATE that throws, does leave a    *)
(* row that nobody drives.                                                    *)

\* Nobody pauses a run, and no statement fails.
NoPauseNoErrors == "pause" \notin Ops /\ MaxDbErrors = 0

\* The statuses from which a run may still be driven.
Live == {"absent", "created", "running"}

\* The manager still drives the run.
InMemory(r) == r.loop \notin {"none", "released"}

\* A row that may still be driven has not been cancelled, in the table or in
\* memory, and its loop is not past its last UPDATE; a running one has a loop
\* or a claim; and shutdown() waits for loops that were launched.
Owned(s) ==
    /\ row[s] # "paused"
    /\ row[s] \in Live =>
          /\ ~run[s].cancelled /\ run[s].loop # "ending"
          /\ \A c \in Calls : ~Continues(c, "cancel", s)
    /\ row[s] = "running" /\ proc # "down" /\ ~InMemory(run[s])
          => \E c \in Calls : Continues(c, "start", s)
    /\ InMemory(run[s]) => run[s].handle
    /\ proc = "closing" /\ s \in awaited => run[s].loop # "none"

\* A call in progress is one of the operations there are.
AskedInv == \A c \in Calls : call[c] # Idle => call[c].op \in Ops

OInv == AskedInv /\ \A s \in Sims : Owned(s)

\* Nothing is owned at first.
LEMMA InitOInv == Init => OInv
  <1>1. Init => AskedInv
    BY DEF Init, AskedInv
  <1>2. ASSUME Init, NEW s \in Sims PROVE Owned(s)
    BY <1>2, FreshRuns DEF Init, Owned, InMemory, Continues, Idle, NoRun
  <1> QED BY <1>1, <1>2 DEF OInv

\* No statement fails.
LEMMA NoStatementFails ==
    ASSUME NoPauseNoErrors, TypeOK
    PROVE  ~DbError
  BY DEF NoPauseNoErrors, TypeOK, DbError

\* One turn of the drive loop: the run goes on to one of its awaits, or it was
\* cancelled and is released.
LEMMA TurnOwns ==
    ASSUME NEW s \in Sims, NEW r \in RunState, Turn(s, r)
    PROVE  \E q : /\ run' = [run EXCEPT ![s] = q]
                  /\ \/ q = Released /\ r.cancelled
                     \/ /\ q.loop \in {"interrupting", "waiting", "flushing", "completing",
                                       "failing"}
                        /\ q.handle = r.handle /\ q.cancelled = r.cancelled
  <1> DEFINE Goes(q) ==
               \/ q = Released /\ r.cancelled
               \/ /\ q.loop \in {"interrupting", "waiting", "flushing", "completing", "failing"}
                  /\ q.handle = r.handle /\ q.cancelled = r.cancelled
  <1>1. ASSUME NEW point \in {"interrupting", "waiting", "flushing", "completing", "failing"},
               NEW b \in RunState, b.handle = r.handle, b.cancelled = r.cancelled,
               NEW q, q = [b EXCEPT !.loop = point]
        PROVE  Goes(q)
    BY <1>1 DEF RunState
  <1>2. ASSUME NEW b \in RunState, b.handle = r.handle, b.cancelled = r.cancelled,
               NEW q, q = Abort(b)
        PROVE  Goes(q)
    BY <1>2 DEF RunState, Abort
  <1>3. CASE proc = "closing" /\ GoTo(s, [r EXCEPT !.loop = "interrupting"])
    <2>1. PICK q : q = [r EXCEPT !.loop = "interrupting"]
      OBVIOUS
    <2> QED BY <1>1, <1>3, <2>1 DEF GoTo
  <1>4. CASE r.cancelled /\ GoTo(s, Released)
    BY <1>4 DEF GoTo
  <1>5. CASE GoTo(s, [r EXCEPT !.loop = "waiting"])
    <2>1. PICK q : q = [r EXCEPT !.loop = "waiting"]
      OBVIOUS
    <2> QED BY <1>1, <1>5, <2>1 DEF GoTo
  <1>6. CASE GoTo(s, Abort(r))
    <2>1. PICK q : q = Abort(r)
      OBVIOUS
    <2> QED BY <1>2, <1>6, <2>1 DEF GoTo
  <1>7. CASE Burst(s, r)
    <2>1. ASSUME NEW k \in 1 .. r.left, GoTo(s, [r EXCEPT !.left = @ - k, !.loop = "flushing"])
          PROVE  \E q : run' = [run EXCEPT ![s] = q] /\ Goes(q)
      <3>1. PICK q : q = [r EXCEPT !.left = @ - k, !.loop = "flushing"]
        OBVIOUS
      <3>2. Goes(q)
        BY <3>1 DEF RunState
      <3> QED BY <2>1, <3>1, <3>2 DEF GoTo
    <2>2. ASSUME NEW q, \/ q = [r EXCEPT !.left = 0, !.engine = "completed", !.loop = "completing"]
                        \/ q = [r EXCEPT !.engine = "completed", !.loop = "completing"],
                 GoTo(s, q)
          PROVE  \E p : run' = [run EXCEPT ![s] = p] /\ Goes(p)
      <3>1. Goes(q)
        BY <2>2 DEF RunState
      <3> QED BY <2>2, <3>1 DEF GoTo
    <2>3. CASE GoTo(s, Abort([r EXCEPT !.engine = "failed"]))
      <3>1. PICK b : b = [r EXCEPT !.engine = "failed"]
        OBVIOUS
      <3>2. b \in RunState /\ b.handle = r.handle /\ b.cancelled = r.cancelled
        BY <3>1 DEF RunState, Status
      <3>3. PICK q : q = Abort(b)
        OBVIOUS
      <3> QED BY <1>2, <2>3, <3>1, <3>2, <3>3 DEF GoTo
    <2> QED BY <1>7, <2>1, <2>2, <2>3 DEF Burst
  <1> QED BY <1>3, <1>4, <1>5, <1>6, <1>7 DEF Turn

\* A step of the loop of one run: while its row may still be driven it is not
\* cancelled and not at its end, and a running row keeps its loop.
LEMMA GoToOwns ==
    ASSUME OInv, TypeOK, NEW s \in Sims, NEW q, run' = [run EXCEPT ![s] = q],
           UNCHANGED <<proc, awaited, call>>,
           row' = row \/ (\E x : x \notin Live \cup {"paused"} /\ row' = [row EXCEPT ![s] = x]),
           row'[s] \in Live => ~q.cancelled /\ q.loop # "ending" /\ InMemory(q),
           InMemory(q) => q.handle,
           q.loop # "none"
    PROVE  OInv'
  <1>1. /\ run'[s] = q /\ \A t \in Sims : t # s => run'[t] = run[t]
        /\ \A t \in Sims : t # s => row'[t] = row[t]
        /\ row'[s] \in Live => row[s] \in Live
        /\ row'[s] # "paused"
    BY DEF TypeOK, OInv, Owned
  <1>2. ASSUME NEW t \in Sims PROVE Owned(t)'
    <2>0. Owned(t)
      BY DEF OInv
    <2>1. CASE t = s
      BY <1>1, <2>0, <2>1 DEF Owned, Continues, InMemory, Live
    <2>2. CASE t # s
      BY <1>1, <2>0, <2>2 DEF Owned, Continues
    <2> QED BY <2>1, <2>2
  <1>3. AskedInv'
    BY DEF OInv, AskedInv
  <1> QED BY <1>2, <1>3 DEF OInv

\* The loops.
LEMMA LoopStepOwns ==
    ASSUME NoPauseNoErrors, IInv, OInv, NEW s \in Sims,
           LoopStep(s) \/ LoadThrows(s) \/ UpdateThrows(s) \/ FailureThrows(s)
    PROVE  OInv'
  <1> DEFINE r == run[s]
  <1>1. TypeOK /\ r \in RunState /\ Owned(s) /\ ClaimInv(s)
    BY DEF IInv, OInv, TypeOK
  <1>2. ~DbError
    BY <1>1, NoStatementFails
  <1>3. row[s] \in {"absent", "created"} => r.loop = "none"
    BY <1>1 DEF ClaimInv
  <1>4. UNCHANGED <<proc, awaited, call>>
    BY <1>2 DEF LoopStep, Load, FailToLoad, Begin, Drive, Flush, PersistCompletion,
                PersistInterruption, PersistFailure, Persist, Release, LoadThrows,
                UpdateThrows, FailureThrows
  <1>5. ASSUME NEW q, run' = [run EXCEPT ![s] = q], row' = row,
               q.loop \in LoopPoint \ {"none", "ending", "released"},
               q.handle = r.handle, q.cancelled = r.cancelled, InMemory(r)
        PROVE  OInv'
    <2>1. row'[s] \in Live => ~q.cancelled /\ q.loop # "ending" /\ InMemory(q)
      BY <1>1, <1>5 DEF Owned, InMemory
    <2>2. InMemory(q) => q.handle
      BY <1>1, <1>5 DEF Owned
    <2> QED BY <1>1, <1>4, <1>5, <2>1, <2>2, GoToOwns
  <1>6. ASSUME run' = [run EXCEPT ![s] = Released], row' = row, row[s] \notin Live
        PROVE  OInv'
    <2>1. PICK q : q = Released
      OBVIOUS
    <2>2. ~InMemory(q) /\ q.loop # "none"
      BY <2>1 DEF Released, NoRun, InMemory
    <2> QED BY <1>1, <1>4, <1>6, <2>1, <2>2, GoToOwns
  <1>7. CASE Load(s)
    <2>1. PICK point \in {"loaded", "missing"} : run' = [run EXCEPT ![s] = [r EXCEPT !.loop = point]]
      BY <1>7 DEF Load, GoTo
    <2>2. PICK q : q = [r EXCEPT !.loop = point]
      OBVIOUS
    <2>3. q.loop = point /\ q.handle = r.handle /\ q.cancelled = r.cancelled
      BY <1>1, <2>2 DEF RunState
    <2> QED BY <1>5, <1>7, <2>1, <2>2, <2>3 DEF Load, At, InMemory, LoopPoint
  <1>8. CASE FailToLoad(s)
    <2>1. CASE r.cancelled
      BY <1>1, <1>6, <1>8, <2>1 DEF FailToLoad, GoTo, Abort, Owned
    <2>2. CASE ~r.cancelled
      <3>1. PICK q : q = [r EXCEPT !.loop = "failing"]
        OBVIOUS
      <3>2. q.loop = "failing" /\ q.handle = r.handle /\ q.cancelled = r.cancelled
        BY <1>1, <3>1 DEF RunState
      <3> QED BY <1>5, <1>8, <2>2, <3>1, <3>2 DEF FailToLoad, GoTo, Abort, At, InMemory, LoopPoint
    <2> QED BY <2>1, <2>2
  <1>9. ASSUME NEW b \in RunState, b.handle = r.handle, b.cancelled = r.cancelled, Turn(s, b),
               row' = row, InMemory(r)
        PROVE  OInv'
    <2>1. PICK q : /\ run' = [run EXCEPT ![s] = q]
                   /\ \/ q = Released /\ b.cancelled
                      \/ /\ q.loop \in {"interrupting", "waiting", "flushing", "completing",
                                        "failing"}
                         /\ q.handle = b.handle /\ q.cancelled = b.cancelled
      BY <1>9, TurnOwns
    <2>2. CASE q = Released /\ b.cancelled
      BY <1>1, <1>6, <1>9, <2>1, <2>2 DEF Owned
    <2>3. CASE q.loop \in {"interrupting", "waiting", "flushing", "completing", "failing"}
               /\ q.handle = b.handle /\ q.cancelled = b.cancelled
      BY <1>5, <1>9, <2>1, <2>3 DEF LoopPoint
    <2> QED BY <2>1, <2>2, <2>3
  <1>10. CASE Begin(s)
    <2>1. PICK n \in 0 .. MaxEvents : Turn(s, [r EXCEPT !.engine = "running", !.left = n])
      BY <1>10 DEF Begin
    <2>2. PICK b : b = [r EXCEPT !.engine = "running", !.left = n]
      OBVIOUS
    <2>3. b \in RunState /\ b.handle = r.handle /\ b.cancelled = r.cancelled
      BY <1>1, <2>2 DEF RunState, Status
    <2> QED BY <1>9, <1>10, <2>1, <2>2, <2>3 DEF Begin, At, InMemory
  <1>11. CASE Drive(s)
    BY <1>1, <1>9, <1>11 DEF Drive, At, InMemory
  <1>12. CASE Flush(s)
    <2>1. PICK q : q = [r EXCEPT !.loop = "top"]
      OBVIOUS
    <2>2. q.loop = "top" /\ q.handle = r.handle /\ q.cancelled = r.cancelled
      BY <1>1, <2>1 DEF RunState
    <2> QED BY <1>5, <1>12, <2>1, <2>2 DEF Flush, GoTo, At, InMemory, LoopPoint
  <1>13. CASE PersistCompletion(s) \/ PersistInterruption(s) \/ PersistFailure(s)
    <2>1. PICK q : q = [r EXCEPT !.loop = "ending"]
      OBVIOUS
    <2>2. q.loop = "ending" /\ q.handle = r.handle
      BY <1>1, <2>1 DEF RunState
    <2>3. /\ run' = [run EXCEPT ![s] = q] /\ InMemory(r)
          /\ \/ row' = Written(s, AllowedFrom["complete"], "completed")
             \/ row' = Written(s, AllowedFrom["fail"], "failed")
      BY <1>13, <2>1 DEF PersistCompletion, PersistInterruption, PersistFailure, Persist, GoTo,
                         At, InMemory, TargetStatus
    <2>4. /\ row' = row \/ (\E x : x \notin Live \cup {"paused"} /\ row' = [row EXCEPT ![s] = x])
          /\ row'[s] \notin Live
      <3>1. row[s] \in Live => row[s] = "running"
        BY <1>3, <2>3 DEF Live, InMemory
      <3>2. ASSUME row[s] \in Live
            PROVE  row' = [row EXCEPT ![s] = "completed"] \/ row' = [row EXCEPT ![s] = "failed"]
        BY <2>3, <3>1, <3>2 DEF Written, AllowedFrom
      <3>3. ASSUME row[s] \notin Live
            PROVE  \/ row' = row
                   \/ row' = [row EXCEPT ![s] = "completed"]
                   \/ row' = [row EXCEPT ![s] = "failed"]
        BY <2>3 DEF Written
      <3>4. "completed" \notin Live \cup {"paused"} /\ "failed" \notin Live \cup {"paused"}
        BY DEF Live
      <3> QED BY <1>1, <3>2, <3>3, <3>4 DEF TypeOK
    <2>5. q.handle
      BY <1>1, <2>2, <2>3 DEF Owned
    <2> QED BY <1>1, <1>4, <2>2, <2>3, <2>4, <2>5, GoToOwns
  <1>14. CASE Release(s)
    BY <1>1, <1>6, <1>14 DEF Release, GoTo, At, Owned
  <1> QED
    BY <1>2, <1>7, <1>8, <1>10, <1>11, <1>12, <1>13, <1>14
       DEF LoopStep, LoadThrows, UpdateThrows, FailureThrows

\* The service and the statements of the calls.
LEMMA ServiceOwns ==
    ASSUME NoPauseNoErrors, IInv, OInv,
           \/ \E s \in Sims : Create(s)
           \/ \E c \in Calls, op \in Ops, s \in Sims : Receive(c, op, s)
           \/ \E c \in Calls : Apply(c) \/ ApplyThrows(c)
    PROVE  OInv'
  <1>1. TypeOK
    BY DEF IInv
  <1>2. CASE \E s \in Sims : Create(s)
    <2>1. PICK s \in Sims : Create(s)
      BY <1>2
    <2>2. ASSUME NEW t \in Sims PROVE Owned(t)'
      <3>1. Owned(t)
        BY DEF OInv
      <3>2. /\ row'[t] = row[t] \/ (row[t] = "absent" /\ row'[t] = "created")
            /\ UNCHANGED <<proc, awaited, run, call>>
        BY <1>1, <2>1 DEF Create, TypeOK
      <3> QED BY <3>1, <3>2 DEF Owned, Live, Continues
    <2>3. AskedInv'
      BY <2>1 DEF Create, OInv, AskedInv
    <2> QED BY <2>2, <2>3 DEF OInv
  <1>3. CASE \E c \in Calls, op \in Ops, s \in Sims : Receive(c, op, s)
    <2>1. PICK c \in Calls, op \in Ops, s \in Sims : Receive(c, op, s)
      BY <1>3
    <2>2. \A d \in Calls : \A o, t : Continues(d, o, t)' <=> Continues(d, o, t)
      <3>1. /\ call[c] = Idle /\ call'[c] = [pc |-> "checked", op |-> op, sim |-> s]
            /\ \A d \in Calls : d # c => call'[d] = call[d]
        BY <1>1, <2>1 DEF Receive, TypeOK
      <3> QED BY <3>1 DEF Continues, Idle
    <2>3. ASSUME NEW t \in Sims PROVE Owned(t)'
      BY <2>1, <2>2 DEF Receive, Owned, OInv
    <2>4. AskedInv'
      BY <1>1, <2>1 DEF Receive, OInv, AskedInv, TypeOK
    <2> QED BY <2>3, <2>4 DEF OInv
  <1>4. ASSUME NEW c \in Calls, Apply(c)
        PROVE  OInv'
    <2>0. PICK s, op : s = call[c].sim /\ op = call[c].op
      OBVIOUS
    <2> DEFINE applied == row[s] \in AcceptedFrom(op)
               next == [call[c] EXCEPT !.pc = "applied"]
    <2>1. s \in Sims /\ op \in Operation /\ op \in Ops /\ call[c].pc = "checked"
      <3>1. call[c] # Idle
        BY <1>4 DEF Apply, Idle
      <3> QED BY <1>1, <1>4, <2>0, <3>1 DEF TypeOK, Apply, CallState, OInv, AskedInv
    <2>2. next = [pc |-> "applied", op |-> op, sim |-> s]
      BY <1>1, <2>0, <2>1 DEF TypeOK, CallState, Idle
    <2>3. /\ UNCHANGED <<proc, awaited, run>>
          /\ \A d \in Calls : d # c => call'[d] = call[d]
          /\ call'[c] = IF applied /\ op # "remove" THEN next ELSE Idle
      BY <1>1, <1>4, <2>0 DEF Apply, TypeOK
    <2>4. \A o, t : ~Continues(c, o, t)
      BY <2>1 DEF Continues
    <2>5. AskedInv'
      BY <2>0, <2>1, <2>2, <2>3 DEF OInv, AskedInv
    <2>6. ASSUME NEW t \in Sims, t # s
          PROVE  Owned(t)'
      <3>1. Owned(t) /\ row'[t] = row[t]
        BY <1>1, <1>4, <2>0, <2>1, <2>6 DEF OInv, Apply, Written, TypeOK
      <3>2. \A d \in Calls : \A o : Continues(d, o, t)' <=> Continues(d, o, t)
        BY <2>2, <2>3, <2>4, <2>6 DEF Continues, Idle
      <3> QED BY <2>3, <3>1, <3>2 DEF Owned
    <2>7. Owned(s)'
      <3>0. Owned(s) /\ ClaimInv(s)
        BY <2>1 DEF OInv, IInv
      <3>1. CASE ~applied
        <4>1. row'[s] = row[s]
          BY <1>4, <2>0, <3>1 DEF Apply, Written
        <4>2. \A d \in Calls : \A o : Continues(d, o, s)' <=> Continues(d, o, s)
          BY <2>3, <2>4, <3>1 DEF Continues, Idle
        <4> QED BY <2>3, <3>0, <4>1, <4>2 DEF Owned
      <3>2. CASE applied /\ op = "start"
        <4>1. row[s] = "created" /\ row'[s] = "running"
          BY <1>1, <1>4, <2>0, <2>1, <3>2 DEF Apply, Written, AcceptedFrom, AllowedFrom, ResultOf,
                                        TargetStatus, TypeOK
        <4>2. Continues(c, "start", s)'
          BY <2>2, <2>3, <3>2 DEF Continues
        <4>3. \A d \in Calls : Continues(d, "cancel", s)' => Continues(d, "cancel", s)
          BY <2>2, <2>3, <3>2 DEF Continues
        <4> QED BY <2>3, <3>0, <4>1, <4>2, <4>3 DEF Owned, Live
      <3>3. CASE applied /\ op \in {"cancel", "remove"}
        <4>1. row'[s] \in {"cancelled", "deleted"}
          BY <1>1, <1>4, <2>0, <2>1, <3>3 DEF Apply, Written, AcceptedFrom, ResultOf, TargetStatus,
                                        TypeOK
        <4> QED BY <2>3, <3>0, <4>1 DEF Owned, Live
      <3>4. op # "pause" /\ (op = "resume" => ~applied)
        BY <2>1, <3>0 DEF NoPauseNoErrors, Owned, AcceptedFrom, AllowedFrom
      <3> QED BY <2>1, <3>1, <3>2, <3>3, <3>4 DEF Operation
    <2> QED BY <2>5, <2>6, <2>7 DEF OInv
  <1>5. ~\E c \in Calls : ApplyThrows(c)
    BY <1>1, NoStatementFails DEF ApplyThrows
  <1> QED BY <1>2, <1>3, <1>4, <1>5

\* The continuations of the calls.
LEMMA ContinueOwns ==
    ASSUME NoPauseNoErrors, IInv, OInv, NEW c \in Calls, NEW s \in Sims,
           \/ ContinueStart(c, s) \/ ContinuePause(c, s)
           \/ ContinueResume(c, s) \/ ContinueCancel(c, s)
    PROVE  OInv'
  <1> DEFINE r == run[s]
  <1>1. TypeOK /\ r \in RunState /\ Owned(s) /\ ClaimInv(s)
    BY DEF IInv, OInv, TypeOK
  <1>2. Answer(c) /\ UNCHANGED <<row, proc, awaited, dbErrors>>
    BY DEF ContinueStart, ContinuePause, ContinueResume, ContinueCancel, Steer
  <1>3. \A d \in Calls : \A o, t : Continues(d, o, t)' <=> d # c /\ Continues(d, o, t)
    BY <1>1, <1>2 DEF Answer, TypeOK, Continues, Idle
  <1>4. AskedInv'
    BY <1>1, <1>2 DEF Answer, TypeOK, OInv, AskedInv
  <1>5. ~ContinuePause(c, s)
    BY DEF ContinuePause, Steer, Continues, OInv, AskedInv, NoPauseNoErrors, Idle
  <1>6. ASSUME NEW q, run' = [run EXCEPT ![s] = q],
               \E o : Continues(c, o, s),
               row[s] \in Live => ~q.cancelled /\ q.loop # "ending",
               row[s] = "running" /\ proc # "down" /\ ~InMemory(q)
                 => ~InMemory(r) /\ ~Continues(c, "start", s),
               InMemory(q) => q.handle,
               q.loop = "none" => r.loop = "none"
        PROVE  OInv'
    <2>1. run'[s] = q /\ \A t \in Sims : t # s => run'[t] = run[t]
      BY <1>1, <1>6 DEF TypeOK
    <2>2. Owned(s)'
      BY <1>1, <1>2, <1>3, <1>6, <2>1 DEF Owned
    <2>3. ASSUME NEW t \in Sims, t # s
          PROVE  Owned(t)'
      <3>1. Owned(t)
        BY DEF OInv
      <3>2. \A o : ~Continues(c, o, t)
        BY <1>6, <2>3 DEF Continues
      <3> QED BY <1>2, <1>3, <2>1, <2>3, <3>1, <3>2 DEF Owned
    <2> QED BY <1>4, <2>2, <2>3 DEF OInv
  <1>7. CASE ContinueStart(c, s)
    <2>1. PICK q : q = Launched
      OBVIOUS
    <2>2. ~q.cancelled /\ q.loop = "loading" /\ q.handle
      BY <2>1 DEF Launched, NoRun
    <2> QED BY <1>6, <1>7, <2>1, <2>2 DEF ContinueStart, InMemory
  <1>8. CASE ContinueResume(c, s)
    <2>1. PICK q \in {r, ResumeInMemory(r)} : run' = [run EXCEPT ![s] = q]
      BY <1>8 DEF ContinueResume, Steer
    <2>2. /\ q.cancelled = r.cancelled /\ q.handle = r.handle
          /\ q.loop = r.loop \/ (r.loop = "waiting" /\ q.loop = "top")
      BY <1>1, <2>1 DEF ResumeInMemory, RunState
    <2>3. ~Continues(c, "start", s) /\ \E o : Continues(c, o, s)
      BY <1>8 DEF ContinueResume, Steer, Continues
    <2> QED BY <1>1, <1>6, <2>1, <2>2, <2>3 DEF Owned, InMemory
  <1>9. CASE ContinueCancel(c, s)
    <2>1. PICK q \in {r, CancelInMemory(r)} : run' = [run EXCEPT ![s] = q]
      BY <1>9 DEF ContinueCancel, Steer
    <2>2. /\ q.handle = r.handle
          /\ q.loop = r.loop \/ (r.loop = "waiting" /\ q.loop = "top")
      BY <1>1, <2>1 DEF CancelInMemory, RunState
    <2>3. Continues(c, "cancel", s) /\ ~Continues(c, "start", s)
      BY <1>9 DEF ContinueCancel, Steer, Continues
    <2>4. row[s] \notin Live
      BY <1>1, <2>3 DEF Owned
    <2> QED BY <1>1, <1>6, <2>1, <2>2, <2>3, <2>4 DEF Owned, InMemory
  <1> QED BY <1>5, <1>7, <1>8, <1>9

\* Shutting down, ending and booting.
LEMMA ProcessOwns ==
    ASSUME IInv, OInv, Shutdown \/ Exit \/ Crash \/ Boot
    PROVE  OInv'
  <1>1. TypeOK
    BY DEF IInv
  <1>2. CASE Shutdown
    <2>1. ASSUME NEW t \in Sims
          PROVE  /\ run'[t].cancelled = run[t].cancelled /\ run'[t].handle = run[t].handle
                 /\ \/ run'[t].loop = run[t].loop
                    \/ run[t].loop = "waiting" /\ run'[t].loop = "top"
      <3>1. run[t] \in RunState
        BY <1>1 DEF TypeOK
      <3>2. run'[t] = [run[t] EXCEPT !.loop = IF @ = "waiting" THEN "top" ELSE @]
        BY <1>2 DEF Shutdown
      <3> QED BY <3>1, <3>2 DEF RunState
    <2>2. ASSUME NEW t \in Sims PROVE Owned(t)'
      <3>1. Owned(t) /\ proc = "up" /\ (t \in awaited' => InFlight(t))
        BY <1>2 DEF OInv, Shutdown
      <3> QED BY <1>2, <2>1, <3>1 DEF Owned, Shutdown, InFlight, InMemory, Continues
    <2>3. AskedInv'
      BY <1>2 DEF Shutdown, OInv, AskedInv
    <2> QED BY <2>2, <2>3 DEF OInv
  <1>3. CASE Exit \/ Crash
    <2>1. ProcessEnds
      BY <1>3 DEF Exit, Crash
    <2>2. \A c \in Calls : call'[c] = Idle
      BY <2>1 DEF ProcessEnds
    <2>3. ASSUME NEW t \in Sims PROVE Owned(t)'
      <3>1. /\ Owned(t) /\ run'[t] = NoRun /\ proc' = "down" /\ awaited' = {}
            /\ row'[t] = row[t]
        BY <2>1 DEF OInv, ProcessEnds
      <3> QED BY <2>2, <3>1 DEF Owned, NoRun, InMemory, Continues, Idle
    <2>4. AskedInv'
      BY <2>2 DEF AskedInv
    <2> QED BY <2>3, <2>4 DEF OInv
  <1>4. CASE Boot
    <2>1. ASSUME NEW t \in Sims PROVE Owned(t)'
      <3>1. /\ Owned(t) /\ UNCHANGED <<awaited, run, call>> /\ proc' = "up"
            /\ row'[t] = IF row[t] \in Active THEN "failed" ELSE row[t]
        BY <1>4 DEF OInv, Boot
      <3> QED BY <3>1 DEF Owned, Live, Active, Continues
    <2>2. AskedInv'
      BY <1>4 DEF Boot, OInv, AskedInv
    <2> QED BY <2>1, <2>2 DEF OInv
  <1> QED BY <1>2, <1>3, <1>4

\* Every step keeps the owners of the rows and what the loop asked for.
LEMMA NextOInv == NoPauseNoErrors /\ IInv /\ OInv /\ [Next]_vars => OInv'
  <1> SUFFICES ASSUME NoPauseNoErrors, IInv, OInv, [Next]_vars PROVE OInv'
    OBVIOUS
  <1>1. CASE UNCHANGED vars
    BY <1>1 DEF vars, OInv, AskedInv, Owned, Continues
  <1>2. CASE Next
    <2>1. CASE \E s \in Sims :
                  LoopStep(s) \/ LoadThrows(s) \/ UpdateThrows(s) \/ FailureThrows(s)
      BY <2>1, LoopStepOwns
    <2> QED BY <1>2, <2>1, ServiceOwns, ContinueOwns, ProcessOwns DEF Next, CallStep
  <1> QED BY <1>1, <1>2

\* Every active row has somebody who drives it, or is about to, while the
\* process is up: without a pause and without statements that fail, whatever
\* starts, cancels, removals, errors of handlers, crashes and restarts do.
THEOREM RunsAreOwned == NoPauseNoErrors => (Spec => []NoOrphanRow)
  <1> SUFFICES ASSUME NoPauseNoErrors PROVE Spec => []NoOrphanRow
    OBVIOUS
  <1>1. IInv /\ OInv => NoOrphanRow
    BY DEF IInv, OInv, Owned, NoOrphanRow, Active, InMemory
  <1>2. Init => IInv /\ OInv
    BY InitIInv, InitOInv
  <1>3. IInv /\ OInv /\ [Next]_vars => IInv' /\ OInv'
    BY NextIInv, NextOInv
  <1> QED BY <1>1, <1>2, <1>3, PTL DEF Spec

\* What shutdown() has waited for is settled: no awaited run leaves an active
\* row behind when the process exits.
THEOREM ExitsAreClean == NoPauseNoErrors => (Spec => []ExitIsClean)
  <1> SUFFICES ASSUME NoPauseNoErrors PROVE Spec => []ExitIsClean
    OBVIOUS
  <1>1. IInv /\ OInv => ExitIsClean
    <2> SUFFICES ASSUME IInv, OInv, proc = "closing", NEW s \in awaited, ~InFlight(s)
                 PROVE  row[s] \notin Active
      BY DEF ExitIsClean
    <2>1. s \in Sims /\ Owned(s) /\ ClaimInv(s)
      BY DEF IInv, OInv, TypeOK
    <2>2. run[s].loop = "released"
      BY <2>1 DEF Owned, InFlight
    <2>3. row[s] # "running"
      BY <2>1, <2>2 DEF Owned, ClaimInv, InMemory
    <2> QED BY <2>1, <2>3 DEF Owned, Active
  <1>2. Init => IInv /\ OInv
    BY InitIInv, InitOInv
  <1>3. IInv /\ OInv /\ [Next]_vars => IInv' /\ OInv'
    BY NextIInv, NextOInv
  <1> QED BY <1>1, <1>2, <1>3, PTL DEF Spec

=============================================================================
