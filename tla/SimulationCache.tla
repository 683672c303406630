--------------------------- MODULE SimulationCache ---------------------------
(* The cache of one component: entries in the order they were inserted, which *)
(* expire after a time to live and make room by least recent use.             *)
EXTENDS Integers, Sequences, SequencesExt

EmptyCache ==
    [entries |-> <<>>, hits |-> 0, misses |-> 0, evictions |-> 0, most |-> 0]

Holds(c, k) == \E i \in DOMAIN c.entries : c.entries[i].key = k

PositionOf(c, k) == CHOOSE i \in DOMAIN c.entries : c.entries[i].key = k

\* Mutant: an entry is served at the very end of its life.
LiveTooLong(c, k, ttl, t) ==
    /\ Holds(c, k)
    /\ ttl = 0 \/ t <= c.entries[PositionOf(c, k)].created + ttl

\* A time to live of 0 never ends; otherwise its end is exclusive.
Live(c, k, ttl, t) ==
    /\ Holds(c, k)
    /\ ttl = 0 \/ t < c.entries[PositionOf(c, k)].created + ttl

\* get: an entry found expired is deleted.
LookedUp(c, k, ttl, t) ==
    IF Live(c, k, ttl, t)
    THEN [c EXCEPT !.entries[PositionOf(c, k)].used = t, !.hits = @ + 1]
    ELSE [c EXCEPT !.entries = IF Holds(c, k) THEN RemoveAt(@, PositionOf(c, k)) ELSE @,
                   !.misses = @ + 1]

\* The entry used at the earliest time, of several the one inserted first.
LeastRecent(s) ==
    CHOOSE i \in DOMAIN s : \A j \in DOMAIN s :
        s[i].used < s[j].used \/ (s[i].used = s[j].used /\ i <= j)

WithRoom(c, capacity) ==
    IF Len(c.entries) < capacity THEN c
    ELSE [c EXCEPT !.entries = RemoveAt(@, LeastRecent(@)), !.evictions = @ + 1]

\* set: an entry of the key is overwritten in its place.
Stored(c, k, capacity, t) ==
    LET fresh == [key |-> k, created |-> t, used |-> t]
        roomy == WithRoom(c, capacity)
        size == Len(roomy.entries) + 1
    IN  IF Holds(c, k)
        THEN [c EXCEPT !.entries[PositionOf(c, k)] = fresh]
        ELSE [roomy EXCEPT !.entries = Append(@, fresh),
                           !.most = IF size > @ THEN size ELSE @]

=============================================================================
