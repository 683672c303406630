--------------------------- MODULE TrafficGenerator ---------------------------
(* The load of a run: one arrival per slot of 1000 / requestsPerSecond        *)
(* milliseconds, its time rounded to a whole millisecond.  Slots are computed *)
(* exactly; the code adds up floating-point intervals.                        *)
EXTENDS Integers, Sequences

MillisecondsPerSecond == 1000

\* Math.round(k * interval): halves are rounded up.
SlotAt(k, rate) == (2 * k * MillisecondsPerSecond + rate) \div (2 * rate)

\* Mutant: only the exact time is compared with the end.
InTimeUnrounded(k, rate, duration) == k * MillisecondsPerSecond < duration * rate

\* Both the exact and the rounded time lie before the end.
InTime(k, rate, duration) ==
    /\ k * MillisecondsPerSecond < duration * rate
    /\ SlotAt(k, rate) < duration

\* The slots before the first one that is not in time.
Slotted(rate, duration) ==
    IF rate <= 0 \/ duration <= 0 THEN 0
    ELSE CHOOSE k \in 0 .. duration * rate :
            ~InTime(k, rate, duration) /\ \A j \in 0 .. k - 1 : InTime(j, rate, duration)

\* The times of the arrivals of a run.
Generated(rate, duration) ==
    [i \in 1 .. Slotted(rate, duration) |-> SlotAt(i - 1, rate)]

\* Configured keys and operations are dealt out in turn.
Dealt(pool, i) == pool[((i - 1) % Len(pool)) + 1]

\* The resource of arrival i: its own, when no pool is configured.
CacheKeyOf(pool, i) == IF pool = <<>> THEN i ELSE Dealt(pool, i)

OperationOf(pool, i) == IF pool = <<>> THEN "read" ELSE Dealt(pool, i)

=============================================================================
