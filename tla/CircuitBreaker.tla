---------------------------- MODULE CircuitBreaker ----------------------------
(***************************************************************************)
(* The circuit breaker of one component, as the runtime keeps it: pure     *)
(* functions from the circuit before to the circuit after.  A half-open    *)
(* circuit lets one request through, its probe, which decides whether it   *)
(* closes or opens again.  The circuit of a component without a breaker    *)
(* stays Closed: nothing but AfterFailure can take it elsewhere, and its   *)
(* callers apply AfterFailure to enabled breakers only.                    *)
(***************************************************************************)
EXTENDS Naturals

CONSTANTS
    Requests,      \* the requests of a run
    NoRequest        \* no request: a circuit without a probe

ASSUME NoRequestAssumption == NoRequest \notin Requests

Circuit ==
    [ state : {"closed", "open", "half-open"},
      failures : Nat,
      generation : Nat,
      probe : Requests \cup {NoRequest} ]

Closed ==
    [state |-> "closed", failures |-> 0, generation |-> 0, probe |-> NoRequest]

\* An open circuit admits nobody; a half-open one its probe, or anybody while
\* the place of the probe is free.
Admits(c, r) ==
    /\ c.state # "open"
    /\ c.state = "half-open" => c.probe \in {NoRequest, r}

\* Being admitted by a half-open circuit makes the request its probe.
Claimed(c, r) ==
    IF c.state = "half-open" /\ c.probe = NoRequest THEN [c EXCEPT !.probe = r] ELSE c

\* What routing looks at before it picks a destination.
Routable(c) ==
    \/ c.state = "closed"
    \/ c.state = "half-open" /\ c.probe = NoRequest

Trips(c, threshold) == c.state # "open" /\ c.failures + 1 >= threshold

\* Mutant: a straggler's failure while the circuit is open opens it again,
\* under a new generation that no timer was scheduled for.
AfterFailureReopens(c, threshold) ==
    IF c.failures + 1 >= threshold
    THEN [c EXCEPT !.state = "open", !.failures = @ + 1,
                   !.generation = @ + 1, !.probe = NoRequest]
    ELSE [c EXCEPT !.failures = @ + 1]

AfterFailure(c, threshold) ==
    IF c.state = "open" THEN c
    ELSE IF Trips(c, threshold)
         THEN [c EXCEPT !.state = "open", !.failures = @ + 1,
                        !.generation = @ + 1, !.probe = NoRequest]
         ELSE [c EXCEPT !.failures = @ + 1]

\* A success closes a half-open circuit and clears the count of a closed one;
\* a straggler's success leaves an open circuit alone.
AfterSuccess(c) ==
    IF c.state = "open" THEN c
    ELSE [c EXCEPT !.state = "closed", !.failures = 0, !.probe = NoRequest]

\* The timer of one open period; a timer of an earlier period is ignored.
HalfOpened(c, generation) ==
    IF c.state = "open" /\ c.generation = generation
    THEN [c EXCEPT !.state = "half-open", !.probe = NoRequest]
    ELSE c

\* Mutant: the place of a probe is never given back.
FreedNever(c, r) == c

\* A probe that fails before it was processed gives its place back.
Freed(c, r) ==
    IF c.state = "half-open" /\ c.probe = r THEN [c EXCEPT !.probe = NoRequest] ELSE c

=============================================================================
