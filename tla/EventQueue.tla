----------------------------- MODULE EventQueue -----------------------------
(***************************************************************************)
(* The binary min-heap that holds the future events of a run: an array     *)
(* whose element i (counted from 0) is not after its children 2i+1 and     *)
(* 2i+2.  An event is its timestamp and the number it got when it was      *)
(* inserted; timestamps that are not finite or negative are refused by the *)
(* code and left out.                                                      *)
(***************************************************************************)
EXTENDS Naturals, Sequences, SequencesExt

CONSTANTS
    Times,          \* timestamps of events
    Nothing,        \* undefined, the answer of an empty queue
    MaxSequence     \* bound: events inserted before a clear

ASSUME EventQueueAssumption == Times \subseteq Nat /\ MaxSequence \in Nat

VARIABLES
    events,         \* the array, counted from 1
    nextSequence,   \* the number of the next event
    taken           \* the answer of the last dequeue

vars == <<events, nextSequence, taken>>

\* compare(a, b) < 0
Less(a, b) == a.at < b.at \/ (a.at = b.at /\ a.sequence < b.sequence)

Swapped(s, i, j) == [s EXCEPT ![i] = s[j], ![j] = s[i]]

\* A turn of the loop of bubbleUp: the element at a position is swapped with a
\* parent that is after it, and the loop is over when there is none.
TurnUp(x) ==
    IF x.at = 1 \/ ~Less(x.heap[x.at], x.heap[x.at \div 2]) THEN x
    ELSE [heap |-> Swapped(x.heap, x.at, x.at \div 2), at |-> x.at \div 2]

\* i turns are enough: each leads to a position before.
BubbleUp(s, i) ==
    LET turn[k \in 0 .. i] ==
            IF k = 0 THEN [heap |-> s, at |-> i] ELSE TurnUp(turn[k - 1])
    IN  turn[i].heap

\* The position of the smaller of element i and element j, if there is one at j.
Smaller(s, i, j) == IF j <= Len(s) /\ Less(s[j], s[i]) THEN j ELSE i

\* Mutant: the right child is not looked at.
SmallestLeft(s, i) == Smaller(s, i, 2 * i)

\* The position of the smallest of element i and its children.
Smallest(s, i) == Smaller(s, Smaller(s, i, 2 * i), 2 * i + 1)

\* A turn of the loop of bubbleDown: the element at a position is swapped with the
\* smallest child, and the loop is over when the element is smaller than both.
TurnDown(x) ==
    LET j == Smallest(x.heap, x.at)
    IN  IF j = x.at THEN x ELSE [heap |-> Swapped(x.heap, x.at, j), at |-> j]

\* As many turns as there are elements are enough: each leads to a position after.
BubbleDown(s, i) ==
    LET turn[k \in 0 .. Len(s)] ==
            IF k = 0 THEN [heap |-> s, at |-> i] ELSE TurnDown(turn[k - 1])
    IN  turn[Len(s)].heap

Enqueue(t) ==
    LET pushed == Append(events, [at |-> t, sequence |-> nextSequence])
    IN  /\ nextSequence <= MaxSequence
        /\ events' = BubbleUp(pushed, Len(pushed))
        /\ nextSequence' = nextSequence + 1
        /\ UNCHANGED taken

\* The last element takes the place of the first and sinks.
Dequeue ==
    /\ taken' = IF events = <<>> THEN Nothing ELSE Head(events)
    /\ events' = IF Len(events) <= 1 THEN <<>>
                 ELSE BubbleDown(<<Last(events)>> \o Tail(Front(events)), 1)
    /\ UNCHANGED nextSequence

Clear ==
    /\ events' = <<>>
    /\ nextSequence' = 0
    /\ UNCHANGED taken

Init == events = <<>> /\ nextSequence = 0 /\ taken = Nothing

Next == (\E t \in Times : Enqueue(t)) \/ Dequeue \/ Clear

Spec == Init /\ [][Next]_vars

-----------------------------------------------------------------------------
(* Properties.                                                              *)

Contract == INSTANCE Agenda WITH pending <- ToSet(events)

\* The heap implements the agenda: whatever the order of insertions and
\* removals, and after a clear, the event dequeued is the earliest, the first
\* inserted of several at its time, and no other leaves or is lost.
ImplementsAgenda == Contract!Spec

=============================================================================
