-------------------------- MODULE EventQueueProofs --------------------------
(***************************************************************************)
(* The binary heap implements the agenda, for any times and any number of  *)
(* events: the loops of bubbleUp and bubbleDown put the array in order     *)
(* again before their turns run out, so that its first element is the      *)
(* earliest, and they neither lose nor double an event.                    *)
(***************************************************************************)
EXTENDS EventQueue, NaturalsInduction, WellFoundedInduction, TLAPS

-----------------------------------------------------------------------------
(* The order of events.                                                     *)

\* An event, and arrays of events that were inserted one after the other.
Element == [at : Nat, sequence : Nat]

Distinct(s) == \A i, j \in 1 .. Len(s) : s[i].sequence = s[j].sequence => i = j

Arrays == {s \in Seq(Element) : Distinct(s)}

\* compare is an order, and tells events with different numbers apart.
LEMMA LessIsOrder ==
    ASSUME NEW a \in Element, NEW b \in Element, NEW c \in Element
    PROVE  /\ Less(a, b) /\ Less(b, c) => Less(a, c)
           /\ a.sequence # b.sequence => Less(a, b) \/ Less(b, a)
           /\ ~(Less(a, b) /\ Less(b, a))
  BY DEF Less, Element

\* Two elements of an array are in order, or the other way round.
LEMMA LessInArray ==
    ASSUME NEW s \in Arrays, NEW i \in 1 .. Len(s), NEW j \in 1 .. Len(s), i # j,
           ~Less(s[i], s[j])
    PROVE  Less(s[j], s[i])
  <1>1. s[i] \in Element /\ s[j] \in Element /\ s[i].sequence # s[j].sequence
    BY DEF Arrays, Distinct
  <1> QED BY <1>1, LessIsOrder

\* A smaller element before a smaller one.
LEMMA LessAlong ==
    ASSUME NEW s \in Arrays, NEW i \in 1 .. Len(s), NEW j \in 1 .. Len(s),
           NEW k \in 1 .. Len(s), Less(s[i], s[j]), Less(s[j], s[k])
    PROVE  Less(s[i], s[k])
  <1>1. s[i] \in Element /\ s[j] \in Element /\ s[k] \in Element
    BY DEF Arrays
  <1> QED BY <1>1, LessIsOrder

\* No element is after its children.
Ordered(s) == \A i \in 2 .. Len(s) : Less(s[i \div 2], s[i])

\* The same, but for the element at p, which may be before its parent,
OrderedAbove(s, p) ==
    \A i \in 2 .. Len(s) :
        /\ i # p => Less(s[i \div 2], s[i])
        /\ i \div 2 = p /\ p > 1 => Less(s[p \div 2], s[i])

\* or after its children.
OrderedBelow(s, p) ==
    \A i \in 2 .. Len(s) :
        /\ i \div 2 # p => Less(s[i \div 2], s[i])
        /\ i \div 2 = p /\ p > 1 => Less(s[p \div 2], s[i])

\* The parent of an element, and its children.
LEMMA Halves ==
    /\ \A i \in Nat : i >= 2 => i \div 2 \in Nat /\ 1 <= i \div 2 /\ i \div 2 < i
    /\ \A i \in Nat : \A p \in Nat : i \div 2 = p => i = 2 * p \/ i = 2 * p + 1
    /\ \A p \in Nat : (2 * p) \div 2 = p /\ (2 * p + 1) \div 2 = p
  OBVIOUS

-----------------------------------------------------------------------------
(* A swap.                                                                  *)

\* Two arrays hold the same events.
Same(s, u) == Len(u) = Len(s) /\ ToSet(u) = ToSet(s)

LEMMA SwapKeeps ==
    ASSUME NEW s \in Arrays, NEW i \in 1 .. Len(s), NEW j \in 1 .. Len(s), i # j,
           NEW u, u = Swapped(s, i, j)
    PROVE  /\ u \in Arrays /\ Same(s, u)
           /\ u[i] = s[j] /\ u[j] = s[i]
           /\ \A k \in 1 .. Len(s) : k # i /\ k # j => u[k] = s[k]
  <1>1. s \in Seq(Element) /\ DOMAIN s = 1 .. Len(s)
    BY DEF Arrays
  <1>2. /\ u[i] = s[j] /\ u[j] = s[i]
        /\ \A k \in 1 .. Len(s) : k # i /\ k # j => u[k] = s[k]
    BY <1>1 DEF Swapped
  <1>3. u \in Seq(Element) /\ Len(u) = Len(s) /\ DOMAIN u = 1 .. Len(s)
    BY <1>1 DEF Swapped
  <1>4. Distinct(u)
    <2> SUFFICES ASSUME NEW k \in 1 .. Len(s), NEW m \in 1 .. Len(s),
                        u[k].sequence = u[m].sequence
                 PROVE  k = m
      BY <1>3 DEF Distinct
    <2>1. \A a, b \in 1 .. Len(s) : s[a].sequence = s[b].sequence => a = b
      BY DEF Arrays, Distinct
    <2>2. CASE k # i /\ k # j
      BY <1>2, <2>1, <2>2
    <2>3. CASE m # i /\ m # j
      BY <1>2, <2>1, <2>3
    <2>4. CASE k \in {i, j} /\ m \in {i, j}
      BY <1>2, <2>1, <2>4
    <2> QED BY <2>2, <2>3, <2>4
  <1>5. ToSet(u) = ToSet(s)
    <2>1. \A k \in 1 .. Len(s) : \E m \in 1 .. Len(s) : u[k] = s[m]
      BY <1>2
    <2>2. \A k \in 1 .. Len(s) : \E m \in 1 .. Len(s) : s[k] = u[m]
      BY <1>2
    <2>3. /\ \A x : x \in ToSet(u) <=> \E k \in 1 .. Len(s) : x = u[k]
          /\ \A x : x \in ToSet(s) <=> \E k \in 1 .. Len(s) : x = s[k]
      BY <1>1, <1>3 DEF ToSet
    <2>4. \A x : x \in ToSet(u) <=> x \in ToSet(s)
      <3> TAKE x
      <3>1. ASSUME x \in ToSet(u) PROVE x \in ToSet(s)
        <4>1. PICK k \in 1 .. Len(s) : x = u[k]
          BY <2>3, <3>1
        <4>2. PICK m \in 1 .. Len(s) : u[k] = s[m]
          BY <2>1
        <4> QED BY <2>3, <4>1, <4>2
      <3>2. ASSUME x \in ToSet(s) PROVE x \in ToSet(u)
        <4>1. PICK k \in 1 .. Len(s) : x = s[k]
          BY <2>3, <3>2
        <4>2. PICK m \in 1 .. Len(s) : s[k] = u[m]
          BY <2>2
        <4> QED BY <2>3, <4>1, <4>2
      <3> QED BY <3>1, <3>2
    <2> QED BY <2>4
  <1> QED BY <1>2, <1>3, <1>4, <1>5 DEF Arrays, Same

-----------------------------------------------------------------------------
(* The loops.                                                               *)

\* An element on its way up leaves order behind.
LEMMA UpStep ==
    ASSUME NEW s \in Arrays, NEW p \in 2 .. Len(s), OrderedAbove(s, p),
           NEW q, q = p \div 2, Less(s[p], s[q]), NEW u, u = Swapped(s, p, q)
    PROVE  u \in Arrays /\ Same(s, u) /\ OrderedAbove(u, q)
  <1>1. q \in 1 .. Len(s) /\ q < p /\ p \in 1 .. Len(s) /\ Len(s) \in Nat
    BY Halves DEF Arrays
  <1>2. /\ u \in Arrays /\ Same(s, u) /\ u[p] = s[q] /\ u[q] = s[p]
        /\ \A k \in 1 .. Len(s) : k # p /\ k # q => u[k] = s[k]
    BY <1>1, SwapKeeps
  <1>3. ASSUME NEW i \in 2 .. Len(s)
        PROVE  /\ i # q => Less(u[i \div 2], u[i])
               /\ i \div 2 = q /\ q > 1 => Less(u[q \div 2], u[i])
    <2>1. PICK h : h = i \div 2
      OBVIOUS
    <2>2. h \in 1 .. Len(s) /\ h < i /\ i \in 1 .. Len(s)
      BY <2>1, Halves
    <2>3. /\ i # p => Less(s[h], s[i])
          /\ h = p => Less(s[q], s[i])
      BY <1>1, <2>1 DEF OrderedAbove
    <2>4. CASE i = p
      <3>1. h = q
        BY <2>1, <2>4
      <3>2. q > 1 => Less(s[q \div 2], s[q]) /\ u[q \div 2] = s[q \div 2]
        <4> SUFFICES ASSUME q > 1 PROVE Less(s[q \div 2], s[q]) /\ u[q \div 2] = s[q \div 2]
          OBVIOUS
        <4>1. q \in 2 .. Len(s) /\ q # p
          BY <1>1
        <4>2. q \div 2 \in 1 .. Len(s) /\ q \div 2 # q /\ q \div 2 # p
          BY <1>1, <4>1, Halves
        <4> QED BY <1>2, <4>1, <4>2 DEF OrderedAbove
      <3> QED BY <1>2, <2>1, <2>4, <3>1, <3>2
    <2>5. CASE i # p /\ i # q
      <3>1. u[i] = s[i] /\ Less(s[h], s[i])
        BY <1>2, <2>2, <2>3, <2>5
      <3>2. CASE h = p
        BY <1>1, <1>2, <2>1, <2>3, <3>1, <3>2
      <3>3. CASE h = q
        <4>1. Less(s[p], s[i])
          BY <1>1, <2>2, <3>1, <3>3, LessAlong
        <4>2. q > 1 => Less(s[q \div 2], s[i]) /\ u[q \div 2] = s[q \div 2]
          <5> SUFFICES ASSUME q > 1 PROVE Less(s[q \div 2], s[i]) /\ u[q \div 2] = s[q \div 2]
            OBVIOUS
          <5>1. q \in 2 .. Len(s) /\ q # p
            BY <1>1
          <5>2. q \div 2 \in 1 .. Len(s) /\ q \div 2 # q /\ q \div 2 # p
            BY <1>1, <5>1, Halves
          <5>3. Less(s[q \div 2], s[q])
            BY <5>1 DEF OrderedAbove
          <5>4. Less(s[q \div 2], s[i])
            BY <1>1, <2>2, <3>1, <3>3, <5>2, <5>3, LessAlong
          <5> QED BY <1>2, <5>2, <5>4
        <4> QED BY <1>2, <2>1, <3>1, <3>3, <4>1, <4>2
      <3>4. CASE h # p /\ h # q
        BY <1>2, <2>1, <2>2, <3>1, <3>4
      <3> QED BY <3>2, <3>3, <3>4
    <2>6. CASE i = q
      <3>1. h # q
        BY <2>2, <2>6
      <3> QED BY <2>1, <2>6, <3>1
    <2> QED BY <2>4, <2>5, <2>6
  <1> QED BY <1>2, <1>3 DEF OrderedAbove, Same

\* Where it stops, all is in order.
LEMMA UpDone ==
    ASSUME NEW s \in Arrays, NEW p \in 1 .. Len(s), OrderedAbove(s, p),
           p = 1 \/ ~Less(s[p], s[p \div 2])
    PROVE  Ordered(s)
  <1> SUFFICES ASSUME NEW i \in 2 .. Len(s) PROVE Less(s[i \div 2], s[i])
    BY DEF Ordered
  <1>1. CASE i # p
    BY <1>1 DEF OrderedAbove
  <1>2. CASE i = p
    <2>1. i \div 2 \in 1 .. Len(s) /\ i \in 1 .. Len(s) /\ i \div 2 # i
      BY Halves DEF Arrays
    <2> QED BY <1>2, <2>1, LessInArray
  <1> QED BY <1>1, <1>2

\* The child an element sinks to is smaller than it and the other child.
LEMMA SmallestIs ==
    ASSUME NEW s \in Arrays, NEW p \in 1 .. Len(s), NEW j, j = Smallest(s, p)
    PROVE  /\ j \in 1 .. Len(s) /\ j \in {p, 2 * p, 2 * p + 1}
           /\ j # p => Less(s[j], s[p])
           /\ \A i \in 2 .. Len(s) : i \div 2 = p /\ i # j => Less(s[j], s[i])
  <1>1. Len(s) \in Nat /\ p \in Nat /\ p >= 1
    BY DEF Arrays
  <1>2. PICK k : k = Smaller(s, p, 2 * p)
    OBVIOUS
  <1>3. /\ k \in 1 .. Len(s) /\ k \in {p, 2 * p}
        /\ k # p => Less(s[k], s[p])
        /\ 2 * p <= Len(s) /\ 2 * p # k => Less(s[k], s[2 * p])
    <2>1. CASE 2 * p <= Len(s) /\ Less(s[2 * p], s[p])
      BY <1>1, <1>2, <2>1 DEF Smaller
    <2>2. CASE ~(2 * p <= Len(s) /\ Less(s[2 * p], s[p]))
      <3>1. k = p
        BY <1>2, <2>2 DEF Smaller
      <3>2. 2 * p <= Len(s) => 2 * p \in 1 .. Len(s) /\ 2 * p # p
        BY <1>1
      <3> QED BY <1>1, <2>2, <3>1, <3>2, LessInArray
    <2> QED BY <2>1, <2>2
  <1>4. j = IF 2 * p + 1 <= Len(s) /\ Less(s[2 * p + 1], s[k]) THEN 2 * p + 1 ELSE k
    BY <1>2 DEF Smallest, Smaller
  <1>5. \A i \in 2 .. Len(s) : i \div 2 = p => i = 2 * p \/ i = 2 * p + 1
    BY <1>1, Halves
  <1>6. CASE 2 * p + 1 <= Len(s) /\ Less(s[2 * p + 1], s[k])
    <2>1. j = 2 * p + 1 /\ j \in 1 .. Len(s) /\ 2 * p \in 1 .. Len(s) /\ j # p
      BY <1>1, <1>4, <1>6
    <2>2. Less(s[j], s[k])
      BY <1>6, <2>1
    <2>3. Less(s[j], s[p])
      BY <1>3, <2>1, <2>2, LessAlong
    <2>4. Less(s[j], s[2 * p])
      BY <1>1, <1>3, <2>1, <2>2, LessAlong
    <2> QED BY <1>5, <2>1, <2>3, <2>4
  <1>7. CASE ~(2 * p + 1 <= Len(s) /\ Less(s[2 * p + 1], s[k]))
    <2>1. j = k
      BY <1>4, <1>7
    <2>2. 2 * p + 1 <= Len(s) => 2 * p + 1 \in 1 .. Len(s) /\ 2 * p + 1 # k
      BY <1>1, <1>3
    <2>3. 2 * p + 1 <= Len(s) => Less(s[k], s[2 * p + 1])
      BY <1>3, <1>7, <2>2, LessInArray
    <2>4. \A i \in 2 .. Len(s) : i \div 2 = p /\ i # j => Less(s[j], s[i])
      BY <1>3, <1>5, <2>1, <2>3
    <2> QED BY <1>3, <2>1, <2>4
  <1> QED BY <1>6, <1>7

\* An element on its way down leaves order behind.
LEMMA DownStep ==
    ASSUME NEW s \in Arrays, NEW p \in 1 .. Len(s), OrderedBelow(s, p),
           NEW j, j = Smallest(s, p), j # p, NEW u, u = Swapped(s, p, j)
    PROVE  u \in Arrays /\ Same(s, u) /\ OrderedBelow(u, j) /\ j \in 1 .. Len(s) /\ j > p
  <1>1. /\ j \in 1 .. Len(s) /\ j \in {2 * p, 2 * p + 1} /\ Less(s[j], s[p])
        /\ \A i \in 2 .. Len(s) : i \div 2 = p /\ i # j => Less(s[j], s[i])
    BY SmallestIs
  <1>2. /\ u \in Arrays /\ Same(s, u) /\ u[p] = s[j] /\ u[j] = s[p]
        /\ \A k \in 1 .. Len(s) : k # p /\ k # j => u[k] = s[k]
    BY <1>1, SwapKeeps
  <1>3. Len(s) \in Nat /\ p \in Nat /\ p >= 1 /\ j > p /\ j \div 2 = p /\ j \in 2 .. Len(s)
    <2>1. Len(s) \in Nat /\ p \in Nat /\ p >= 1
      BY DEF Arrays
    <2> QED BY <1>1, <2>1, Halves
  <1>4. ASSUME NEW i \in 2 .. Len(s)
        PROVE  /\ i \div 2 # j => Less(u[i \div 2], u[i])
               /\ i \div 2 = j /\ j > 1 => Less(u[j \div 2], u[i])
    <2>1. PICK h : h = i \div 2
      OBVIOUS
    <2>2. h \in 1 .. Len(s) /\ h < i /\ i \in 1 .. Len(s)
      BY <2>1, Halves
    <2>3. h # p => Less(s[h], s[i])
      BY <2>1 DEF OrderedBelow
    <2>4. CASE h = j
      <3>1. i # p /\ i # j
        BY <1>3, <2>2, <2>4
      <3>2. u[i] = s[i] /\ Less(s[j], s[i])
        BY <1>2, <1>3, <2>2, <2>3, <2>4, <3>1
      <3> QED BY <1>2, <1>3, <2>1, <2>4, <3>2
    <2>5. CASE h = p
      <3>1. i # p /\ h # j
        BY <1>3, <2>2, <2>5
      <3>2. CASE i = j
        BY <1>1, <1>2, <2>1, <2>5, <3>1, <3>2
      <3>3. CASE i # j
        BY <1>1, <1>2, <2>1, <2>2, <2>5, <3>1, <3>3
      <3> QED BY <3>2, <3>3
    <2>6. CASE h # j /\ h # p
      <3>1. u[h] = s[h] /\ Less(s[h], s[i])
        BY <1>2, <2>2, <2>3, <2>6
      <3>2. i # j
        BY <1>3, <2>1, <2>6
      <3>3. CASE i = p
        <4>1. Less(s[h], s[j])
          BY <1>3, <2>1, <3>3 DEF OrderedBelow
        <4> QED BY <1>2, <2>1, <2>6, <3>1, <3>3, <4>1
      <3>4. CASE i # p
        BY <1>2, <2>1, <2>2, <2>6, <3>1, <3>2, <3>4
      <3> QED BY <3>3, <3>4
    <2> QED BY <2>4, <2>5, <2>6
  <1> QED BY <1>1, <1>2, <1>3, <1>4 DEF OrderedBelow, Same

\* Where it stops, all is in order.
LEMMA DownDone ==
    ASSUME NEW s \in Arrays, NEW p \in 1 .. Len(s), OrderedBelow(s, p), p = Smallest(s, p)
    PROVE  Ordered(s)
  <1> SUFFICES ASSUME NEW i \in 2 .. Len(s) PROVE Less(s[i \div 2], s[i])
    BY DEF Ordered
  <1>1. CASE i \div 2 # p
    BY <1>1 DEF OrderedBelow
  <1>2. CASE i \div 2 = p
    <2>1. i # p
      BY <1>2, Halves DEF Arrays
    <2> QED BY <1>2, <2>1, SmallestIs
  <1> QED BY <1>1, <1>2

-----------------------------------------------------------------------------
(* Induction, and the turns of a loop.                                      *)

\* What holds of 0, and of each number after one it holds of, holds of all: stated
\* for sets, since the library's theorem takes an operator.
LEMMA NumbersByStep ==
    ASSUME NEW T, 0 \in T, \A n \in Nat : n \in T => n + 1 \in T
    PROVE  Nat \subseteq T
  <1> DEFINE M == Nat \ T
  <1> SUFFICES ASSUME M # {} PROVE FALSE
    OBVIOUS
  <1>1. PICK R : R = {p \in Nat \X Nat : p[1] < p[2]}
    OBVIOUS
  <1>2. IsWellFoundedOn(R, Nat)
    BY <1>1, NatLessThanWellFounded DEF OpToRel
  <1>3. M \subseteq Nat /\ M # {}
    OBVIOUS
  <1>4. PICK x \in M : \A y \in M : ~(<<y, x>> \in R)
    <2> HIDE DEF M
    <2> QED BY <1>2, <1>3, WFMin, Zenon
  <1>5. x \in Nat /\ x # 0 /\ x - 1 \in Nat /\ x - 1 \in M
    OBVIOUS
  <1>6. <<x - 1, x>> \in R
    BY <1>1, <1>5
  <1> QED BY <1>4, <1>5, <1>6

\* The turns of the loop of bubbleUp that begins with array s at i.
IsUp(t, s, i, n) ==
    t = [k \in 0 .. n |-> IF k = 0 THEN [heap |-> s, at |-> i] ELSE TurnUp(t[k - 1])]

\* They can be computed, one after the other.
LEMMA UpExists ==
    ASSUME NEW s, NEW i, NEW n \in Nat
    PROVE  \E t : IsUp(t, s, i, n)
  <1> DEFINE T == {j \in Nat : \E t : IsUp(t, s, i, j)}
  <1>1. 0 \in T
    <2>1. PICK t : t = [k \in 0 .. 0 |-> [heap |-> s, at |-> i]]
      OBVIOUS
    <2>2. t = [k \in 0 .. 0 |-> IF k = 0 THEN [heap |-> s, at |-> i] ELSE TurnUp(t[k - 1])]
      BY <2>1
    <2> QED BY <2>2 DEF IsUp
  <1>2. ASSUME NEW j \in Nat, j \in T
        PROVE  j + 1 \in T
    <2>1. PICK t : IsUp(t, s, i, j)
      BY <1>2
    <2>2. PICK u : u = [k \in 0 .. j + 1 |->
                          IF k = 0 THEN [heap |-> s, at |-> i] ELSE TurnUp(t[k - 1])]
      OBVIOUS
    <2>3. \A k \in 0 .. j : u[k] = t[k]
      BY <2>1, <2>2 DEF IsUp
    <2>4. \A k \in 0 .. j + 1 : k # 0 => k - 1 \in 0 .. j
      OBVIOUS
    <2>5. u = [k \in 0 .. j + 1 |->
                 IF k = 0 THEN [heap |-> s, at |-> i] ELSE TurnUp(u[k - 1])]
      BY <2>2, <2>3, <2>4
    <2> QED BY <2>5 DEF IsUp
  <1>3. \A j \in Nat : j \in T => j + 1 \in T
    BY <1>2
  <1>4. Nat \subseteq T
    <2> HIDE DEF T
    <2> QED BY <1>1, <1>3, NumbersByStep
  <1> QED BY <1>4

\* Where a turn of bubbleUp leads.
UpStops(x) == x.at = 1 \/ ~Less(x.heap[x.at], x.heap[x.at \div 2])

UpOK(x, s) ==
    /\ x.heap \in Arrays /\ Same(s, x.heap)
    /\ x.at \in 1 .. Len(s) /\ OrderedAbove(x.heap, x.at)

LEMMA UpTurn ==
    ASSUME NEW s \in Arrays, NEW x, UpOK(x, s), NEW y, y = TurnUp(x)
    PROVE  UpOK(y, s) /\ ((UpStops(x) /\ UpStops(y)) \/ y.at < x.at)
  <1>1. CASE UpStops(x)
    BY <1>1 DEF TurnUp, UpStops
  <1>2. CASE ~UpStops(x)
    <2>1. PICK h, p, q, u : h = x.heap /\ p = x.at /\ q = p \div 2 /\ u = Swapped(h, p, q)
      OBVIOUS
    <2>2. y.heap = u /\ y.at = q
      BY <1>2, <2>1 DEF TurnUp, UpStops
    <2>3. h \in Arrays /\ Len(h) = Len(s) /\ p \in 2 .. Len(h) /\ OrderedAbove(h, p)
      BY <1>2, <2>1 DEF UpOK, UpStops, Same
    <2>4. Less(h[p], h[q])
      BY <1>2, <2>1 DEF UpStops
    <2>5. u \in Arrays /\ Same(h, u) /\ OrderedAbove(u, q)
      BY <2>1, <2>3, <2>4, UpStep
    <2>6. q \in 1 .. Len(s) /\ q < p
      BY <2>1, <2>3, Halves
    <2>7. Same(s, u)
      BY <2>1, <2>5 DEF Same, UpOK
    <2> QED BY <2>1, <2>2, <2>5, <2>6, <2>7 DEF UpOK
  <1> QED BY <1>1, <1>2

\* bubbleUp puts an array in order in which only the element at i may be before
\* its parent.
LEMMA BubbledUp ==
    ASSUME NEW s \in Arrays, NEW i \in 1 .. Len(s), OrderedAbove(s, i),
           NEW u, u = BubbleUp(s, i)
    PROVE  u \in Arrays /\ Same(s, u) /\ Ordered(u)
  <1>1. i \in Nat /\ Len(s) \in Nat
    BY DEF Arrays
  <1>2. PICK t : t = CHOOSE g : IsUp(g, s, i, i)
    OBVIOUS
  <1>3. IsUp(t, s, i, i)
    BY <1>1, <1>2, UpExists
  <1>4. u = t[i].heap
    BY <1>2 DEF BubbleUp, IsUp
  <1> DEFINE C == {k \in Nat : k <= i => UpOK(t[k], s) /\ (UpStops(t[k]) \/ t[k].at <= i - k)}
  <1>5. 0 \in C
    <2>1. t[0] = [heap |-> s, at |-> i]
      BY <1>1, <1>3 DEF IsUp
    <2> QED BY <1>1, <2>1 DEF UpOK, Same
  <1>6. ASSUME NEW k \in Nat, k \in C
        PROVE  k + 1 \in C
    <2> SUFFICES ASSUME k + 1 <= i
                 PROVE  UpOK(t[k + 1], s) /\ (UpStops(t[k + 1]) \/ t[k + 1].at <= i - (k + 1))
      OBVIOUS
    <2>1. k + 1 \in 0 .. i /\ k + 1 # 0 /\ (k + 1) - 1 = k
      BY <1>1
    <2>2. PICK x, y : x = t[k] /\ y = t[k + 1]
      OBVIOUS
    <2>3. y = TurnUp(x)
      BY <1>3, <2>1, <2>2 DEF IsUp
    <2>4. UpOK(x, s) /\ (UpStops(x) \/ x.at <= i - k)
      BY <1>1, <1>6, <2>2
    <2>5. UpOK(y, s) /\ ((UpStops(x) /\ UpStops(y)) \/ y.at < x.at)
      BY <2>3, <2>4, UpTurn
    <2>6. x.at \in Nat /\ y.at \in Nat
      BY <1>1, <2>4, <2>5 DEF UpOK
    <2>7. UpStops(y) \/ y.at <= i - (k + 1)
      <3>1. CASE UpStops(x)
        BY <2>3, <3>1 DEF TurnUp, UpStops
      <3>2. CASE ~UpStops(x)
        BY <1>1, <2>4, <2>5, <2>6, <3>2
      <3> QED BY <3>1, <3>2
    <2> QED BY <2>2, <2>5, <2>7
  <1>7. \A k \in Nat : k \in C => k + 1 \in C
    BY <1>6
  <1>8. i \in C
    <2> HIDE DEF C
    <2> QED BY <1>1, <1>5, <1>7, NumbersByStep
  <1>9. PICK x : x = t[i]
    OBVIOUS
  <1>10. UpOK(x, s) /\ (UpStops(x) \/ x.at <= 0)
    BY <1>1, <1>8, <1>9
  <1>11. UpStops(x) /\ x.at \in 1 .. Len(x.heap)
    BY <1>1, <1>10 DEF UpOK, Same
  <1> QED BY <1>4, <1>9, <1>10, <1>11, UpDone DEF UpOK, UpStops

\* The turns of the loop of bubbleDown.
IsDown(t, s, i, n) ==
    t = [k \in 0 .. n |-> IF k = 0 THEN [heap |-> s, at |-> i] ELSE TurnDown(t[k - 1])]

\* They can be computed, one after the other.
LEMMA DownExists ==
    ASSUME NEW s, NEW i, NEW n \in Nat
    PROVE  \E t : IsDown(t, s, i, n)
  <1> DEFINE T == {j \in Nat : \E t : IsDown(t, s, i, j)}
  <1>1. 0 \in T
    <2>1. PICK t : t = [k \in 0 .. 0 |-> [heap |-> s, at |-> i]]
      OBVIOUS
    <2>2. t = [k \in 0 .. 0 |-> IF k = 0 THEN [heap |-> s, at |-> i] ELSE TurnDown(t[k - 1])]
      BY <2>1
    <2> QED BY <2>2 DEF IsDown
  <1>2. ASSUME NEW j \in Nat, j \in T
        PROVE  j + 1 \in T
    <2>1. PICK t : IsDown(t, s, i, j)
      BY <1>2
    <2>2. PICK u : u = [k \in 0 .. j + 1 |->
                          IF k = 0 THEN [heap |-> s, at |-> i] ELSE TurnDown(t[k - 1])]
      OBVIOUS
    <2>3. \A k \in 0 .. j : u[k] = t[k]
      BY <2>1, <2>2 DEF IsDown
    <2>4. \A k \in 0 .. j + 1 : k # 0 => k - 1 \in 0 .. j
      OBVIOUS
    <2>5. u = [k \in 0 .. j + 1 |->
                 IF k = 0 THEN [heap |-> s, at |-> i] ELSE TurnDown(u[k - 1])]
      BY <2>2, <2>3, <2>4
    <2> QED BY <2>5 DEF IsDown
  <1>3. \A j \in Nat : j \in T => j + 1 \in T
    BY <1>2
  <1>4. Nat \subseteq T
    <2> HIDE DEF T
    <2> QED BY <1>1, <1>3, NumbersByStep
  <1> QED BY <1>4

\* Where a turn of bubbleDown leads.
DownStops(x) == x.at = Smallest(x.heap, x.at)

DownOK(x, s) ==
    /\ x.heap \in Arrays /\ Same(s, x.heap)
    /\ x.at \in 1 .. Len(s) /\ OrderedBelow(x.heap, x.at)

LEMMA DownTurn ==
    ASSUME NEW s \in Arrays, NEW x, DownOK(x, s), NEW y, y = TurnDown(x)
    PROVE  DownOK(y, s) /\ ((DownStops(x) /\ DownStops(y)) \/ y.at > x.at)
  <1>1. CASE DownStops(x)
    BY <1>1 DEF TurnDown, DownStops
  <1>2. CASE ~DownStops(x)
    <2>1. PICK h, p, j, u : /\ h = x.heap /\ p = x.at /\ j = Smallest(h, p)
                            /\ u = Swapped(h, p, j)
      OBVIOUS
    <2>2. y.heap = u /\ y.at = j /\ j # p
      BY <1>2, <2>1 DEF TurnDown, DownStops
    <2>3. h \in Arrays /\ Len(h) = Len(s) /\ p \in 1 .. Len(h) /\ OrderedBelow(h, p)
      BY <2>1 DEF DownOK, Same
    <2>4. u \in Arrays /\ Same(h, u) /\ OrderedBelow(u, j) /\ j \in 1 .. Len(h) /\ j > p
      BY <2>1, <2>2, <2>3, DownStep
    <2>5. Same(s, u)
      BY <2>1, <2>4 DEF Same, DownOK
    <2> QED BY <2>1, <2>2, <2>3, <2>4, <2>5 DEF DownOK
  <1> QED BY <1>1, <1>2

\* bubbleDown puts an array in order in which only the element at i may be after
\* its children.
LEMMA BubbledDown ==
    ASSUME NEW s \in Arrays, NEW i \in 1 .. Len(s), OrderedBelow(s, i),
           NEW u, u = BubbleDown(s, i)
    PROVE  u \in Arrays /\ Same(s, u) /\ Ordered(u)
  <1>1. i \in Nat /\ Len(s) \in Nat /\ i >= 1
    BY DEF Arrays
  <1>2. PICK n, t : n = Len(s) /\ t = CHOOSE g : IsDown(g, s, i, n)
    OBVIOUS
  <1>3. IsDown(t, s, i, n)
    BY <1>1, <1>2, DownExists
  <1>4. u = t[n].heap
    BY <1>2 DEF BubbleDown, IsDown
  <1> DEFINE C == {k \in Nat : k <= n => DownOK(t[k], s) /\ (DownStops(t[k]) \/ t[k].at > k)}
  <1>5. 0 \in C
    <2>1. t[0] = [heap |-> s, at |-> i]
      BY <1>1, <1>2, <1>3 DEF IsDown
    <2> QED BY <1>1, <2>1 DEF DownOK, Same
  <1>6. ASSUME NEW k \in Nat, k \in C
        PROVE  k + 1 \in C
    <2> SUFFICES ASSUME k + 1 <= n
                 PROVE  DownOK(t[k + 1], s) /\ (DownStops(t[k + 1]) \/ t[k + 1].at > k + 1)
      OBVIOUS
    <2>1. k + 1 \in 0 .. n /\ k + 1 # 0 /\ (k + 1) - 1 = k
      BY <1>1, <1>2
    <2>2. PICK x, y : x = t[k] /\ y = t[k + 1]
      OBVIOUS
    <2>3. y = TurnDown(x)
      BY <1>3, <2>1, <2>2 DEF IsDown
    <2>4. DownOK(x, s) /\ (DownStops(x) \/ x.at > k)
      BY <1>1, <1>2, <1>6, <2>2
    <2>5. DownOK(y, s) /\ ((DownStops(x) /\ DownStops(y)) \/ y.at > x.at)
      BY <2>3, <2>4, DownTurn
    <2>6. x.at \in Nat /\ y.at \in Nat
      BY <1>1, <2>4, <2>5 DEF DownOK
    <2>7. DownStops(y) \/ y.at > k + 1
      <3>1. CASE DownStops(x)
        BY <2>3, <3>1 DEF TurnDown, DownStops
      <3>2. CASE ~DownStops(x)
        BY <2>4, <2>5, <2>6, <3>2
      <3> QED BY <3>1, <3>2
    <2> QED BY <2>2, <2>5, <2>7
  <1>7. \A k \in Nat : k \in C => k + 1 \in C
    BY <1>6
  <1>8. n \in C
    <2> HIDE DEF C
    <2> QED BY <1>1, <1>2, <1>5, <1>7, NumbersByStep
  <1>9. PICK x : x = t[n]
    OBVIOUS
  <1>10. DownOK(x, s) /\ (DownStops(x) \/ x.at > n)
    BY <1>1, <1>2, <1>8, <1>9
  <1>11. DownStops(x) /\ x.at \in 1 .. Len(x.heap)
    BY <1>1, <1>2, <1>10 DEF DownOK, Same
  <1> QED BY <1>4, <1>9, <1>10, <1>11, DownDone DEF DownOK, DownStops

-----------------------------------------------------------------------------
(* The heap.                                                                *)

\* The events in the array have different numbers, all given out before, and none
\* of them is after its children.
HeapOK ==
    /\ events \in Arrays /\ Ordered(events)
    /\ nextSequence \in Nat
    /\ \A i \in 1 .. Len(events) : events[i].sequence < nextSequence

\* The first element is before all others: it is before its children, these are
\* before theirs, and so on.
LEMMA FirstIsEarliest ==
    ASSUME NEW s \in Arrays, Ordered(s)
    PROVE  \A i \in 2 .. Len(s) : Less(s[1], s[i])
  <1>1. Len(s) \in Nat
    BY DEF Arrays
  <1> DEFINE C == {k \in Nat : \A i \in 2 .. Len(s) : i <= k => Less(s[1], s[i])}
  <1>2. 0 \in C
    OBVIOUS
  <1>3. ASSUME NEW k \in Nat, k \in C
        PROVE  k + 1 \in C
    <2> SUFFICES ASSUME NEW i \in 2 .. Len(s), i <= k + 1 PROVE Less(s[1], s[i])
      OBVIOUS
    <2>1. PICK h : h = i \div 2
      OBVIOUS
    <2>2. h \in Nat /\ 1 <= h /\ h < i /\ Less(s[h], s[i])
      BY <2>1, Halves DEF Ordered
    <2>3. CASE h = 1
      BY <2>2, <2>3
    <2>4. CASE h # 1
      <3>1. h \in 2 .. Len(s) /\ h <= k
        BY <1>1, <2>2, <2>4
      <3>2. Less(s[1], s[h])
        BY <1>3, <3>1
      <3>3. 1 \in 1 .. Len(s) /\ h \in 1 .. Len(s) /\ i \in 1 .. Len(s)
        BY <1>1, <3>1
      <3> QED BY <2>2, <3>2, <3>3, LessAlong
    <2> QED BY <2>3, <2>4
  <1>4. \A k \in Nat : k \in C => k + 1 \in C
    BY <1>3
  <1>5. Len(s) \in C
    <2> HIDE DEF C
    <2> QED BY <1>1, <1>2, <1>4, NumbersByStep
  <1> QED BY <1>1, <1>5

\* The members of an array.
LEMMA Members ==
    ASSUME NEW s \in Seq(Element)
    PROVE  \A x : x \in ToSet(s) <=> \E i \in 1 .. Len(s) : x = s[i]
  <1>1. DOMAIN s = 1 .. Len(s)
    OBVIOUS
  <1> QED BY <1>1 DEF ToSet

\* An event is added, with the next number.
LEMMA EnqueueStep ==
    ASSUME EventQueueAssumption, HeapOK, NEW t \in Times, Enqueue(t)
    PROVE  HeapOK' /\ Contract!Enqueue(t)
  <1>1. PICK e, s, n : /\ e = [at |-> t, sequence |-> nextSequence]
                       /\ n = Len(events) + 1 /\ s = Append(events, e)
    OBVIOUS
  <1>2. e \in Element /\ events \in Seq(Element) /\ Len(events) \in Nat
    BY <1>1 DEF EventQueueAssumption, Element, HeapOK, Arrays
  <1>3. /\ s \in Seq(Element) /\ Len(s) = n /\ s[n] = e
        /\ \A i \in 1 .. Len(events) : s[i] = events[i]
    BY <1>1, <1>2
  <1>4. e.sequence = nextSequence /\ nextSequence \in Nat
    BY <1>1 DEF HeapOK
  <1>5. s \in Arrays
    <2> SUFFICES ASSUME NEW i \in 1 .. n, NEW j \in 1 .. n, s[i].sequence = s[j].sequence
                 PROVE  i = j
      BY <1>3 DEF Arrays, Distinct
    <2>1. \A k \in 1 .. n : k # n => k \in 1 .. Len(events)
      BY <1>1, <1>2
    <2>2. \A k \in 1 .. Len(events) : s[k].sequence < nextSequence /\ s[k].sequence \in Nat
      <3> TAKE k \in 1 .. Len(events)
      <3>1. events[k] \in Element /\ events[k].sequence < nextSequence
        BY <1>2 DEF HeapOK
      <3> QED BY <1>3, <3>1 DEF Element
    <2>3. CASE i = n \/ j = n
      BY <1>3, <1>4, <2>1, <2>2, <2>3
    <2>4. CASE i # n /\ j # n
      BY <1>3, <2>1, <2>4 DEF HeapOK, Arrays, Distinct
    <2> QED BY <2>3, <2>4
  <1>6. OrderedAbove(s, n)
    <2> SUFFICES ASSUME NEW i \in 2 .. n
                 PROVE  /\ i # n => Less(s[i \div 2], s[i])
                        /\ i \div 2 = n /\ n > 1 => Less(s[n \div 2], s[i])
      BY <1>3 DEF OrderedAbove
    <2>1. i \div 2 \in Nat /\ 1 <= i \div 2 /\ i \div 2 < i
      BY Halves
    <2>2. CASE i # n
      <3>1. i \in 2 .. Len(events) /\ i \div 2 \in 1 .. Len(events) /\ i \in 1 .. Len(events)
        BY <1>1, <1>2, <2>1, <2>2
      <3> QED BY <1>1, <1>2, <1>3, <2>1, <3>1 DEF HeapOK, Ordered
    <2>3. CASE i = n
      BY <1>1, <1>2, <2>1, <2>3
    <2> QED BY <2>2, <2>3
  <1>7. PICK u : u = BubbleUp(s, n)
    OBVIOUS
  <1>8. u \in Arrays /\ Same(s, u) /\ Ordered(u)
    <2>1. n \in 1 .. Len(s)
      BY <1>1, <1>2, <1>3
    <2> QED BY <1>5, <1>6, <1>7, <2>1, BubbledUp
  <1>9. events' = u /\ nextSequence' = nextSequence + 1 /\ taken' = taken
    BY <1>1, <1>3, <1>7 DEF Enqueue
  <1>10. u \in Seq(Element) /\ Len(u) = n
    BY <1>3, <1>8 DEF Arrays, Same
  <1>11. \A x : x \in ToSet(u) <=> x \in ToSet(events) \/ x = e
    <2> TAKE x
    <2>1. x \in ToSet(u) <=> x \in ToSet(s)
      BY <1>8 DEF Same
    <2>2. x \in ToSet(s) <=> \E i \in 1 .. n : x = s[i]
      BY <1>3, Members
    <2>3. x \in ToSet(events) <=> \E i \in 1 .. Len(events) : x = events[i]
      BY <1>2, Members
    <2>4. (\E i \in 1 .. n : x = s[i]) <=> (\E i \in 1 .. Len(events) : x = s[i]) \/ x = s[n]
      BY <1>1, <1>2
    <2>5. (\E i \in 1 .. Len(events) : x = s[i]) <=> (\E i \in 1 .. Len(events) : x = events[i])
      BY <1>3
    <2> QED BY <1>3, <2>1, <2>2, <2>3, <2>4, <2>5
  <1>12. \A i \in 1 .. n : u[i].sequence < nextSequence + 1
    <2> SUFFICES ASSUME NEW i \in 1 .. n PROVE u[i].sequence < nextSequence + 1
      OBVIOUS
    <2>1. u[i] \in ToSet(u)
      BY <1>10, Members
    <2>2. CASE u[i] = e
      BY <1>4, <2>2
    <2>3. CASE u[i] \in ToSet(events)
      <3>1. PICK k \in 1 .. Len(events) : u[i] = events[k]
        BY <1>2, <2>3, Members
      <3>2. events[k].sequence < nextSequence /\ events[k].sequence \in Nat
        <4>1. events[k] \in Element /\ events[k].sequence < nextSequence
          BY <1>2 DEF HeapOK
        <4> QED BY <4>1 DEF Element
      <3> QED BY <1>4, <3>1, <3>2
    <2> QED BY <1>11, <2>1, <2>2, <2>3
  <1>13. HeapOK'
    BY <1>4, <1>8, <1>9, <1>10, <1>12 DEF HeapOK
  <1>14. ToSet(events') = ToSet(events) \cup {e}
    BY <1>9, <1>11
  <1> QED BY <1>1, <1>9, <1>13, <1>14 DEF Contract!Enqueue

\* The earliest event is taken, and no other leaves.
LEMMA DequeueStep ==
    ASSUME HeapOK, Dequeue
    PROVE  HeapOK' /\ Contract!Dequeue
  <1>1. /\ events \in Arrays /\ events \in Seq(Element) /\ Len(events) \in Nat
        /\ Ordered(events) /\ nextSequence \in Nat /\ nextSequence' = nextSequence
    BY DEF HeapOK, Arrays, Dequeue
  <1>2. CASE events = <<>>
    <2>1. events' = <<>> /\ taken' = Nothing
      BY <1>2 DEF Dequeue
    <2>2. ToSet(events) = {} /\ ToSet(events') = {}
      BY <1>2, <2>1 DEF ToSet
    <2>3. HeapOK'
      BY <1>1, <1>2, <2>1 DEF HeapOK
    <2> QED BY <1>1, <2>1, <2>2, <2>3 DEF Contract!Dequeue
  <1>3. CASE events # <<>>
    <2>1. PICK e, m : e = events[1] /\ m = Len(events) - 1
      OBVIOUS
    <2>2. taken' = e /\ 1 \in 1 .. Len(events) /\ m \in Nat
      BY <1>1, <1>3, <2>1 DEF Dequeue
    <2>3. \A f \in ToSet(events) \ {e} : Contract!Before(e, f)
      <3> SUFFICES ASSUME NEW f \in ToSet(events), f # e PROVE Less(e, f)
        BY DEF Less, Contract!Before
      <3>1. PICK i \in 1 .. Len(events) : f = events[i]
        BY <1>1, Members
      <3>2. i \in 2 .. Len(events)
        BY <1>1, <2>1, <3>1
      <3> QED BY <1>1, <2>1, <3>1, <3>2, FirstIsEarliest
    <2>4. e \in ToSet(events)
      BY <1>1, <2>1, <2>2, Members
    <2>5. ASSUME NEW u, events' = u, u \in Arrays, Ordered(u),
                 \A x : x \in ToSet(u) <=> \E i \in 2 .. Len(events) : x = events[i]
          PROVE  HeapOK' /\ ToSet(events') = ToSet(events) \ {e}
      <3>1. \A x : x \in ToSet(events) /\ x # e <=> \E i \in 2 .. Len(events) : x = events[i]
        <4> TAKE x
        <4>1. ASSUME x \in ToSet(events), x # e
              PROVE  \E i \in 2 .. Len(events) : x = events[i]
          <5>1. PICK i \in 1 .. Len(events) : x = events[i]
            BY <1>1, <4>1, Members
          <5>2. i \in 2 .. Len(events)
            BY <1>1, <2>1, <4>1, <5>1
          <5> QED BY <5>1, <5>2
        <4>2. ASSUME NEW i \in 2 .. Len(events), x = events[i]
              PROVE  x \in ToSet(events) /\ x # e
          <5>1. i \in 1 .. Len(events) /\ i # 1
            BY <1>1
          <5>2. events[i].sequence # events[1].sequence
            BY <1>1, <2>2, <5>1 DEF Arrays, Distinct
          <5> QED BY <1>1, <2>1, <4>2, <5>1, <5>2, Members
        <4> QED BY <4>1, <4>2
      <3>2. ToSet(u) = ToSet(events) \ {e}
        BY <2>5, <3>1
      <3>3. \A i \in 1 .. Len(u) : u[i].sequence < nextSequence
        <4> SUFFICES ASSUME NEW i \in 1 .. Len(u) PROVE u[i].sequence < nextSequence
          OBVIOUS
        <4>1. u[i] \in ToSet(u)
          BY <2>5, Members DEF Arrays
        <4>2. PICK k \in 1 .. Len(events) : u[i] = events[k]
          BY <1>1, <3>2, <4>1, Members
        <4> QED BY <4>2 DEF HeapOK
      <3> QED BY <1>1, <2>5, <3>2, <3>3 DEF HeapOK
    <2>6. CASE Len(events) = 1
      <3>1. events' = <<>> /\ 2 .. Len(events) = {}
        BY <2>6 DEF Dequeue
      <3>2. <<>> \in Arrays /\ Ordered(<<>>) /\ ToSet(<<>>) = {}
        BY DEF Arrays, Distinct, Ordered, ToSet
      <3> QED BY <1>1, <2>2, <2>3, <2>4, <2>5, <3>1, <3>2 DEF Contract!Dequeue
    <2>7. CASE Len(events) # 1
      <3>1. PICK s : s = <<Last(events)>> \o Tail(Front(events))
        OBVIOUS
      <3>2. m \in Nat /\ m >= 1 /\ Len(events) = m + 1
        BY <1>1, <1>3, <2>1, <2>2, <2>7
      <3>3. /\ s \in Seq(Element) /\ Len(s) = m /\ s[1] = events[m + 1]
            /\ \A i \in 2 .. m : s[i] = events[i]
        <4>1. PICK f : f = Front(events)
          OBVIOUS
        <4>2. f \in Seq(Element) /\ Len(f) = m /\ \A i \in 1 .. m : f[i] = events[i]
          BY <1>1, <2>1, <3>2, <4>1 DEF Front
        <4>3. Last(events) = events[m + 1] /\ events[m + 1] \in Element
          BY <1>1, <3>2 DEF Last
        <4>4. f # <<>>
          BY <3>2, <4>2
        <4>5. PICK g : g = Tail(f)
          OBVIOUS
        <4>6. g \in Seq(Element) /\ Len(g) = m - 1 /\ \A i \in 1 .. m - 1 : g[i] = f[i + 1]
          BY <4>2, <4>4, <4>5
        <4>7. s = <<events[m + 1]>> \o g
          BY <3>1, <4>1, <4>3, <4>5
        <4>8. /\ s \in Seq(Element) /\ Len(s) = m /\ s[1] = events[m + 1]
              /\ \A i \in 2 .. m : s[i] = g[i - 1]
          BY <3>2, <4>3, <4>6, <4>7
        <4>9. \A i \in 2 .. m : i - 1 \in 1 .. m - 1 /\ i \in 1 .. m /\ (i - 1) + 1 = i
          BY <3>2
        <4> QED BY <4>2, <4>6, <4>8, <4>9
      <3>4. s \in Arrays
        <4> SUFFICES ASSUME NEW i \in 1 .. m, NEW j \in 1 .. m, s[i].sequence = s[j].sequence
                     PROVE  i = j
          BY <3>3 DEF Arrays, Distinct
        <4>1. \A k \in 1 .. m : /\ k = 1 \/ k \in 2 .. m
                                /\ k \in 1 .. Len(events) /\ k # m + 1
          BY <3>2
        <4>2. m + 1 \in 1 .. Len(events)
          BY <3>2
        <4>3. \A a, b \in 1 .. Len(events) : events[a].sequence = events[b].sequence => a = b
          BY <1>1 DEF Arrays, Distinct
        <4>4. CASE i = 1 /\ j = 1
          BY <4>4
        <4>5. CASE i = 1 /\ j \in 2 .. m
          BY <3>3, <4>1, <4>2, <4>3, <4>5
        <4>6. CASE i \in 2 .. m /\ j = 1
          BY <3>3, <4>1, <4>2, <4>3, <4>6
        <4>7. CASE i \in 2 .. m /\ j \in 2 .. m
          BY <3>3, <4>1, <4>3, <4>7
        <4> QED BY <4>1, <4>4, <4>5, <4>6, <4>7
      <3>5. OrderedBelow(s, 1)
        <4> SUFFICES ASSUME NEW i \in 2 .. m, i \div 2 # 1 PROVE Less(s[i \div 2], s[i])
          BY <3>3 DEF OrderedBelow
        <4>1. i \div 2 \in Nat /\ 1 <= i \div 2 /\ i \div 2 < i
          BY Halves
        <4>2. i \div 2 \in 2 .. m /\ i \in 2 .. Len(events)
          BY <3>2, <4>1
        <4>3. Less(events[i \div 2], events[i])
          BY <1>1, <4>2 DEF Ordered
        <4> QED BY <3>3, <4>2, <4>3
      <3>6. PICK u : u = BubbleDown(s, 1)
        OBVIOUS
      <3>7. events' = u
        BY <1>1, <2>7, <3>1, <3>2, <3>6 DEF Dequeue
      <3>8. u \in Arrays /\ Same(s, u) /\ Ordered(u)
        <4>1. 1 \in 1 .. Len(s)
          BY <3>2, <3>3
        <4> QED BY <3>4, <3>5, <3>6, <4>1, BubbledDown
      <3>9. \A x : x \in ToSet(u) <=> \E i \in 2 .. Len(events) : x = events[i]
        <4> TAKE x
        <4>1. x \in ToSet(u) <=> \E i \in 1 .. m : x = s[i]
          BY <3>3, <3>8, Members DEF Same
        <4>2. (\E i \in 1 .. m : x = s[i]) <=> x = s[1] \/ \E i \in 2 .. m : x = s[i]
          BY <3>2
        <4>3. (\E i \in 2 .. m : x = s[i]) <=> (\E i \in 2 .. m : x = events[i])
          BY <3>3
        <4>4. (\E i \in 2 .. m + 1 : x = events[i])
                 <=> x = events[m + 1] \/ \E i \in 2 .. m : x = events[i]
          BY <3>2
        <4> QED BY <3>2, <3>3, <4>1, <4>2, <4>3, <4>4
      <3> QED BY <1>1, <2>2, <2>3, <2>4, <2>5, <3>7, <3>8, <3>9 DEF Contract!Dequeue
    <2> QED BY <2>6, <2>7
  <1> QED BY <1>2, <1>3

\* The heap implements the agenda: whatever the order of insertions and removals,
\* and after a clear, the event dequeued is the earliest, the first inserted of
\* several at its time, and no other leaves or is lost; for any times, and however
\* many events there are.
THEOREM HeapImplementsAgenda == Spec => ImplementsAgenda
  <1>1. Init => HeapOK /\ Contract!Init
    <2> SUFFICES ASSUME Init PROVE HeapOK /\ Contract!Init
      OBVIOUS
    <2>1. events = <<>> /\ nextSequence = 0 /\ taken = Nothing
      BY DEF Init
    <2>2. <<>> \in Arrays /\ Ordered(<<>>) /\ ToSet(<<>>) = {}
      BY DEF Arrays, Distinct, Ordered, ToSet
    <2> QED BY <2>1, <2>2 DEF HeapOK, Contract!Init
  <1>2. HeapOK /\ [Next]_vars
           => HeapOK' /\ [Contract!Next]_<<ToSet(events), nextSequence, taken>>
    <2> SUFFICES ASSUME HeapOK, [Next]_vars
                 PROVE  HeapOK' /\ [Contract!Next]_<<ToSet(events), nextSequence, taken>>
      OBVIOUS
    <2>1. CASE \E t \in Times : Enqueue(t)
      BY <2>1, EnqueueStep, EventQueueAssumption DEF Contract!Next
    <2>2. CASE Dequeue
      BY <2>2, DequeueStep DEF Contract!Next
    <2>3. CASE Clear
      <3>1. events' = <<>> /\ nextSequence' = 0 /\ taken' = taken
        BY <2>3 DEF Clear
      <3>2. <<>> \in Arrays /\ Ordered(<<>>) /\ ToSet(<<>>) = {}
        BY DEF Arrays, Distinct, Ordered, ToSet
      <3> QED BY <3>1, <3>2 DEF HeapOK, Contract!Next, Contract!Clear
    <2>4. CASE UNCHANGED vars
      BY <2>4 DEF vars, HeapOK
    <2> QED BY <2>1, <2>2, <2>3, <2>4 DEF Next
  <1> QED BY <1>1, <1>2, PTL DEF Spec, ImplementsAgenda, Contract!Spec
=============================================================================
