------------------------------- MODULE Agenda -------------------------------
(***************************************************************************)
(* What the engine may expect of its event queue: a set of events in which *)
(* the earliest comes first and, of several at the same time, the one that *)
(* was scheduled first.  SimulationRuntime.tla takes its next event this   *)
(* way; EventQueue.tla is the heap that provides it.                       *)
(***************************************************************************)
EXTENDS Naturals

CONSTANTS
    Times,      \* timestamps of events
    Nothing     \* what is taken from an empty queue

VARIABLES
    pending,        \* the events in the queue: [at, sequence]
    nextSequence,   \* the number of the next one
    taken           \* the event dequeued last

Before(a, b) == a.at < b.at \/ (a.at = b.at /\ a.sequence < b.sequence)

Init == pending = {} /\ nextSequence = 0 /\ taken = Nothing

Enqueue(t) ==
    /\ pending' = pending \cup {[at |-> t, sequence |-> nextSequence]}
    /\ nextSequence' = nextSequence + 1
    /\ UNCHANGED taken

Dequeue ==
    /\ \/ pending = {} /\ taken' = Nothing
       \/ \E e \in pending :
            /\ \A f \in pending \ {e} : Before(e, f)
            /\ taken' = e
    /\ pending' = pending \ {taken'}
    /\ UNCHANGED nextSequence

Clear ==
    /\ pending' = {}
    /\ nextSequence' = 0
    /\ UNCHANGED taken

Next == (\E t \in Times : Enqueue(t)) \/ Dequeue \/ Clear

Spec == Init /\ [][Next]_<<pending, nextSequence, taken>>

=============================================================================
