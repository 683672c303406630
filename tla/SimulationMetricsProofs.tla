------------------------ MODULE SimulationMetricsProofs ------------------------
(***************************************************************************)
(* Theorems about what a run records and reports, for every architecture,  *)
(* load and configuration: the entries of the caches, the health of the    *)
(* components, and the counters that different handlers keep and that have  *)
(* to add up.  They rest on the invariants of the engine, in                *)
(* SimulationRuntimeProofs: a report adds up only because no request is in  *)
(* two places, every start finds its slot and every drain its queue.        *)
(***************************************************************************)
EXTENDS SimulationMetrics, SimulationRuntimeProofs, SequenceTheorems

-----------------------------------------------------------------------------
(* Induction, in the form the provers can use: a set closed under the step    *)
(* holds everything.                                                          *)

\* Over the natural numbers.
LEMMA NumbersByStep ==
    ASSUME NEW T, 0 \in T, \A n \in Nat : n \in T => n + 1 \in T
    PROVE  Nat \subseteq T
  <1> DEFINE M == Nat \ T
  <1> SUFFICES ASSUME M # {} PROVE FALSE
    OBVIOUS
  <1>1. PICK R : R = {p \in Nat \X Nat : p[1] < p[2]}
    OBVIOUS
  <1>2. IsWellFoundedOn(R, Nat)
    BY <1>1, NatLessThanWellFounded DEF OpToRel
  <1>3. M \subseteq Nat /\ M # {}
    OBVIOUS
  <1>4. PICK x \in M : \A y \in M : ~(<<y, x>> \in R)
    <2> HIDE DEF M
    <2> QED BY <1>2, <1>3, WFMin, Zenon
  <1>5. x \in Nat /\ x # 0
    OBVIOUS
  <1>6. x - 1 \in Nat /\ x - 1 \in M
    BY <1>5
  <1>7. <<x - 1, x>> \in R
    BY <1>1, <1>5, <1>6
  <1> QED BY <1>4, <1>6, <1>7

\* Over the subsets of a finite set.
LEMMA SubsetsByStep ==
    ASSUME NEW S, IsFiniteSet(S), NEW P,
           \A s \in SUBSET S : (\A t \in SUBSET s : t # s => t \in P) => s \in P
    PROVE  SUBSET S \subseteq P
  <1> DEFINE T == {n \in Nat : \A s \in SUBSET S : Cardinality(s) <= n => s \in P}
  <1>1. \A s \in SUBSET S : IsFiniteSet(s) /\ Cardinality(s) \in Nat
    BY FS_Subset, FS_CardinalityType
  <1>2. \A s \in SUBSET S : \A t \in SUBSET s : t # s => Cardinality(t) < Cardinality(s)
    BY <1>1, FS_Subset
  <1>3. 0 \in T
    <2> SUFFICES ASSUME NEW s \in SUBSET S, Cardinality(s) <= 0 PROVE s \in P
      OBVIOUS
    <2>1. \A t \in SUBSET s : t # s => FALSE
      <3> SUFFICES ASSUME NEW t \in SUBSET s, t # s PROVE FALSE
        OBVIOUS
      <3>1. t \in SUBSET S
        OBVIOUS
      <3> QED BY <1>1, <1>2, <3>1
    <2> QED BY <2>1
  <1>4. ASSUME NEW n \in Nat, n \in T PROVE n + 1 \in T
    <2> SUFFICES ASSUME NEW s \in SUBSET S, Cardinality(s) <= n + 1 PROVE s \in P
      OBVIOUS
    <2> SUFFICES ASSUME NEW t \in SUBSET s, t # s PROVE t \in P
      OBVIOUS
    <2>1. t \in SUBSET S
      OBVIOUS
    <2>2. Cardinality(t) <= n
      BY <1>1, <1>2, <2>1
    <2> QED BY <1>4, <2>1, <2>2
  <1>5. Nat \subseteq T
    <2> HIDE DEF T
    <2> QED BY <1>3, <1>4, NumbersByStep
  <1> QED BY <1>1, <1>5

-----------------------------------------------------------------------------
(* Sums.                                                                      *)

First(s) == CHOOSE x \in s : TRUE

\* The recursive function by which the sum of f over S is defined.
IsSum(g, f, S) ==
    g = [s \in SUBSET S |-> IF s = {} THEN 0 ELSE f[First(s)] + g[s \ {First(s)}]]

\* The sum of f over S.
Sum(f, S) == SumFunctionOnSet(f, S)

LEMMA SumIsChosen ==
    ASSUME NEW f, NEW S
    PROVE  Sum(f, S) = (CHOOSE g : IsSum(g, f, S))[S]
  BY DEF Sum, SumFunctionOnSet, FoldFunctionOnSet, MapThenFoldSet, IsSum, First

LEMMA FirstIn ==
    ASSUME NEW s, s # {}
    PROVE  First(s) \in s
  BY DEF First

\* What the function is at a set, whatever its domain.
LEMMA SumIsUnique ==
    ASSUME NEW f, NEW S, NEW R, NEW g, NEW h, IsSum(g, f, S), IsSum(h, f, R),
           IsFiniteSet(S \cap R)
    PROVE  \A s \in SUBSET (S \cap R) : g[s] = h[s]
  <1>1. PICK D : D = S \cap R
    OBVIOUS
  <1> DEFINE P == {s \in SUBSET D : g[s] = h[s]}
  <1>2. ASSUME NEW s \in SUBSET D, \A t \in SUBSET s : t # s => t \in P
        PROVE  s \in P
    <2>1. s \in SUBSET S /\ s \in SUBSET R
      BY <1>1
    <2>2. /\ g[s] = IF s = {} THEN 0 ELSE f[First(s)] + g[s \ {First(s)}]
          /\ h[s] = IF s = {} THEN 0 ELSE f[First(s)] + h[s \ {First(s)}]
      BY <2>1 DEF IsSum
    <2>3. s # {} => g[s \ {First(s)}] = h[s \ {First(s)}]
      BY <1>2, FirstIn
    <2> QED BY <2>2, <2>3
  <1>3. SUBSET D \subseteq P
    <2> HIDE DEF P
    <2>1. IsFiniteSet(D)
      BY <1>1
    <2> QED BY <1>2, <2>1, SubsetsByStep
  <1> QED BY <1>1, <1>3

\* There is such a function.
LEMMA SumExists ==
    ASSUME NEW f, NEW S, IsFiniteSet(S)
    PROVE  \E g : IsSum(g, f, S)
  <1> DEFINE P == {s \in SUBSET S : \E g : IsSum(g, f, s)}
  <1>1. ASSUME NEW s \in SUBSET S, \A t \in SUBSET s : t # s => t \in P
        PROVE  s \in P
    <2> DEFINE G == [t \in SUBSET s |->
                        IF t = {} THEN 0 ELSE f[First(t)] + Sum(f, t \ {First(t)})]
    <2>1. ASSUME NEW t \in SUBSET s, t # s
          PROVE  G[t] = Sum(f, t)
      <3>1. PICK g : g = CHOOSE x : IsSum(x, f, t)
        OBVIOUS
      <3>2. IsSum(g, f, t) /\ Sum(f, t) = g[t]
        BY <1>1, <2>1, <3>1, SumIsChosen
      <3>3. Sum(f, t) = IF t = {} THEN 0 ELSE f[First(t)] + g[t \ {First(t)}]
        BY <3>2 DEF IsSum
      <3>4. ASSUME t # {}
            PROVE  g[t \ {First(t)}] = Sum(f, t \ {First(t)})
        <4>1. PICK u : u = t \ {First(t)}
          OBVIOUS
        <4>2. u \in SUBSET t /\ u \in SUBSET s /\ u # s /\ t \cap u = u
          BY <2>1, <3>4, <4>1, FirstIn
        <4>3. PICK h : h = CHOOSE x : IsSum(x, f, u)
          OBVIOUS
        <4>4. IsSum(h, f, u) /\ Sum(f, u) = h[u]
          BY <1>1, <4>2, <4>3, SumIsChosen
        <4>5. IsFiniteSet(t \cap u)
          <5>1. t \cap u \in SUBSET S
            BY <4>2
          <5> QED BY <5>1, FS_Subset
        <4>6. g[u] = h[u]
          <5>1. u \in SUBSET (t \cap u)
            BY <4>2
          <5> QED BY <3>2, <4>4, <4>5, <5>1, SumIsUnique
        <4> QED BY <4>1, <4>4, <4>6
      <3> QED BY <3>3, <3>4
    <2>2. ASSUME NEW t \in SUBSET s, t # {}
          PROVE  G[t] = f[First(t)] + G[t \ {First(t)}]
      <3>1. PICK u : u = t \ {First(t)}
        OBVIOUS
      <3>2. u \in SUBSET s /\ u # s
        BY <2>2, <3>1, FirstIn
      <3>3. G[u] = Sum(f, u)
        BY <2>1, <3>2
      <3>4. G[t] = f[First(t)] + Sum(f, u)
        BY <2>2, <3>1
      <3> HIDE DEF G
      <3> QED BY <3>1, <3>3, <3>4
    <2>3. ASSUME NEW t \in SUBSET s
          PROVE  G[t] = IF t = {} THEN 0 ELSE f[First(t)] + G[t \ {First(t)}]
      <3>1. t = {} => G[t] = 0
        OBVIOUS
      <3> HIDE DEF G
      <3> QED BY <2>2, <3>1
    <2>4. G = [t \in SUBSET s |-> G[t]]
      OBVIOUS
    <2>5. IsSum(G, f, s)
      <3> HIDE DEF G
      <3> QED BY <2>3, <2>4 DEF IsSum
    <2> HIDE DEF G
    <2> QED BY <2>5
  <1>2. SUBSET S \subseteq P
    <2> HIDE DEF P
    <2> QED BY <1>1, SubsetsByStep
  <1>3. S \in SUBSET S
    OBVIOUS
  <1>4. S \in P
    BY <1>2, <1>3
  <1> QED BY <1>4

\* The sum, unfolded once.
LEMMA SumUnfolds ==
    ASSUME NEW f, NEW S, IsFiniteSet(S)
    PROVE  /\ S = {} => Sum(f, S) = 0
           /\ S # {} => Sum(f, S) = f[First(S)] + Sum(f, S \ {First(S)})
  <1>1. PICK g : g = CHOOSE x : IsSum(x, f, S)
    OBVIOUS
  <1>2. IsSum(g, f, S) /\ Sum(f, S) = g[S]
    BY <1>1, SumExists, SumIsChosen
  <1>3. g[S] = IF S = {} THEN 0 ELSE f[First(S)] + g[S \ {First(S)}]
    BY <1>2 DEF IsSum
  <1>4. ASSUME S # {}
        PROVE  g[S \ {First(S)}] = Sum(f, S \ {First(S)})
    <2>1. PICK u : u = S \ {First(S)}
      OBVIOUS
    <2>2. S \cap u = u /\ IsFiniteSet(u) /\ IsFiniteSet(S \cap u)
      BY <2>1, FS_Subset
    <2>3. PICK h : h = CHOOSE x : IsSum(x, f, u)
      OBVIOUS
    <2>4. IsSum(h, f, u) /\ Sum(f, u) = h[u]
      BY <2>2, <2>3, SumExists, SumIsChosen
    <2>5. u \in SUBSET (S \cap u)
      BY <2>2
    <2>6. g[u] = h[u]
      BY <1>2, <2>2, <2>4, <2>5, SumIsUnique
    <2> QED BY <2>1, <2>4, <2>6
  <1> QED BY <1>2, <1>3, <1>4

\* Any summand can be taken out.
LEMMA SumWithout ==
    ASSUME NEW f, NEW S, IsFiniteSet(S), \A x \in S : f[x] \in Int
    PROVE  /\ Sum(f, S) \in Int
           /\ \A x \in S : Sum(f, S) = f[x] + Sum(f, S \ {x})
  <1> DEFINE P == {s \in SUBSET S : /\ Sum(f, s) \in Int
                                    /\ \A x \in s : Sum(f, s) = f[x] + Sum(f, s \ {x})}
  <1>1. ASSUME NEW s \in SUBSET S, \A t \in SUBSET s : t # s => t \in P
        PROVE  s \in P
    <2>1. IsFiniteSet(s)
      BY FS_Subset
    <2>2. CASE s = {}
      <3>1. Sum(f, s) = 0
        BY <2>1, <2>2, SumUnfolds
      <3> QED BY <2>2, <3>1
    <2>3. CASE s # {}
      <3>1. PICK c : c = First(s)
        OBVIOUS
      <3>2. c \in s /\ f[c] \in Int
        BY <2>3, <3>1, FirstIn
      <3>3. Sum(f, s) = f[c] + Sum(f, s \ {c})
        BY <2>1, <2>3, <3>1, SumUnfolds
      <3>4. \A x \in s : s \ {x} \in P
        BY <1>1
      <3>5. Sum(f, s) \in Int
        BY <3>2, <3>3, <3>4
      <3>6. ASSUME NEW x \in s, x # c
            PROVE  Sum(f, s) = f[x] + Sum(f, s \ {x})
        <4>1. PICK u : u = (s \ {c}) \ {x}
          OBVIOUS
        <4>2. (s \ {x}) \ {c} = u /\ x \in s \ {c} /\ c \in s \ {x}
          BY <3>2, <3>6, <4>1
        <4>3. /\ Sum(f, s \ {c}) = f[x] + Sum(f, u)
              /\ Sum(f, s \ {x}) = f[c] + Sum(f, u)
          BY <3>2, <3>4, <4>1, <4>2
        <4>4. u \in SUBSET s /\ u # s
          BY <3>2, <4>1
        <4>5. Sum(f, u) \in Int /\ f[x] \in Int
          BY <1>1, <4>4
        <4> QED BY <3>2, <3>3, <4>3, <4>5
      <3> QED BY <3>3, <3>5, <3>6
    <2> QED BY <2>2, <2>3
  <1>2. SUBSET S \subseteq P
    <2> HIDE DEF P
    <2> QED BY <1>1, SubsetsByStep
  <1>3. S \in P
    <2> HIDE DEF P
    <2> QED BY <1>2
  <1> QED BY <1>3

\* Functions that agree have the same sum.
LEMMA SumAgrees ==
    ASSUME NEW f, NEW h, NEW S, IsFiniteSet(S), \A x \in S : f[x] = h[x]
    PROVE  Sum(f, S) = Sum(h, S)
  <1> DEFINE P == {s \in SUBSET S : Sum(f, s) = Sum(h, s)}
  <1>1. ASSUME NEW s \in SUBSET S, \A t \in SUBSET s : t # s => t \in P
        PROVE  s \in P
    <2>1. IsFiniteSet(s)
      BY FS_Subset
    <2>2. CASE s = {}
      BY <2>1, <2>2, SumUnfolds
    <2>3. CASE s # {}
      <3>1. PICK c : c = First(s)
        OBVIOUS
      <3>2. c \in s /\ f[c] = h[c]
        BY <2>3, <3>1, FirstIn
      <3>3. Sum(f, s) = f[c] + Sum(f, s \ {c}) /\ Sum(h, s) = h[c] + Sum(h, s \ {c})
        BY <2>1, <2>3, <3>1, SumUnfolds
      <3>4. s \ {c} \in P
        BY <1>1, <3>2
      <3> QED BY <3>2, <3>3, <3>4
    <2> QED BY <2>2, <2>3
  <1>2. SUBSET S \subseteq P
    <2> HIDE DEF P
    <2> QED BY <1>1, SubsetsByStep
  <1>3. S \in P
    <2> HIDE DEF P
    <2> QED BY <1>2
  <1> QED BY <1>3

\* Of functions that agree but at one place, the sums differ by as much.
LEMMA SumChanges ==
    ASSUME NEW f, NEW h, NEW S, IsFiniteSet(S), NEW n \in S,
           \A x \in S : f[x] \in Int /\ h[x] \in Int,
           \A x \in S : x # n => h[x] = f[x]
    PROVE  /\ Sum(f, S) \in Int /\ Sum(h, S) \in Int
           /\ Sum(h, S) = Sum(f, S) - f[n] + h[n]
  <1>1. PICK u : u = S \ {n}
    OBVIOUS
  <1>2. IsFiniteSet(u) /\ \A x \in u : f[x] = h[x]
    BY <1>1, FS_Subset
  <1>3. Sum(f, u) = Sum(h, u)
    BY <1>2, SumAgrees
  <1>4. /\ Sum(f, S) \in Int /\ Sum(f, S) = f[n] + Sum(f, u)
        /\ Sum(h, S) \in Int /\ Sum(h, S) = h[n] + Sum(h, u)
    BY <1>1, SumWithout
  <1>5. Sum(f, u) \in Int
    BY <1>1, <1>2, SumWithout
  <1> QED BY <1>3, <1>4, <1>5

\* A sum of nothing but zeros.
LEMMA SumOfZeros ==
    ASSUME NEW f, NEW S, IsFiniteSet(S), \A x \in S : f[x] = 0
    PROVE  Sum(f, S) = 0
  <1> DEFINE P == {s \in SUBSET S : Sum(f, s) = 0}
  <1>1. ASSUME NEW s \in SUBSET S, \A t \in SUBSET s : t # s => t \in P
        PROVE  s \in P
    <2>1. IsFiniteSet(s)
      BY FS_Subset
    <2>2. CASE s = {}
      BY <2>1, <2>2, SumUnfolds
    <2>3. CASE s # {}
      <3>1. First(s) \in s
        BY <2>3, FirstIn
      <3>2. Sum(f, s) = f[First(s)] + Sum(f, s \ {First(s)})
        BY <2>1, <2>3, SumUnfolds
      <3>3. s \ {First(s)} \in P /\ f[First(s)] = 0
        BY <1>1, <3>1
      <3> QED BY <3>2, <3>3
    <2> QED BY <2>2, <2>3
  <1>2. SUBSET S \subseteq P
    <2> HIDE DEF P
    <2> QED BY <1>1, SubsetsByStep
  <1>3. S \in P
    <2> HIDE DEF P
    <2> QED BY <1>2
  <1> QED BY <1>3

-----------------------------------------------------------------------------
(* A run that is observed is a run.                                           *)

\* The handler of e returns and its records are made.
Recording(e) ==
    /\ Handle(e) /\ ~Throw(e)
    /\ Returns(e) /\ TimerPart(e) /\ WorkPart(e) /\ PlacePart(e)
    /\ Records(e) /\ Explain(e) /\ collect' = collect

\* A step records what a handler that returns has done, and nothing of one
\* that throws.
LEMMA RecordingStep ==
    ASSUME RuntimeAssumption, Base, [MetricsNext]_<<vars, telemetry>>
    PROVE  /\ [Next]_vars
           /\ \/ UNCHANGED <<vars, telemetry>>
              \/ status' = "failed" /\ UNCHANGED <<model, telemetry>>
              \/ /\ status = "running" /\ status' # "failed"
                 /\ \E e \in events : Recording(e)
  <1>1. CASE UNCHANGED <<vars, telemetry>>
    BY <1>1
  <1>2. CASE MetricsNext
    <2>1. PICK e \in events :
             /\ IsNext(e) /\ Handle(e)
             /\ IF status' = "failed" THEN UNCHANGED telemetry
                ELSE Records(e) /\ Explain(e) /\ UNCHANGED collect
      BY <1>2 DEF MetricsNext
    <2>2. status = "running" /\ Next
      BY <1>2, <2>1 DEF MetricsNext, Next
    <2>3. \/ Throw(e)
          \/ Returns(e) /\ TimerPart(e) /\ WorkPart(e) /\ PlacePart(e)
      BY <2>1, HandlerEffect DEF Base
    <2>4. Throw(e) => status' = "failed" /\ UNCHANGED model
      BY DEF Throw
    <2>5. Returns(e) => status' # "failed"
      BY DEF Returns
    <2> QED BY <2>1, <2>2, <2>3, <2>4, <2>5 DEF Recording
  <1> QED BY <1>1, <1>2

\* Observing a run does not change it: every run that is observed is a run of
\* the engine, so all that is proved of the engine holds while it is observed.
THEOREM ObservedRunIsARun == MetricsSpec => Spec
  <1>1. MetricsInit => Init
    BY DEF MetricsInit
  <1>2. [MetricsNext]_<<vars, telemetry>> => [Next]_vars
    BY DEF MetricsNext, Next, vars
  <1> QED BY <1>1, <1>2, PTL DEF MetricsSpec, Spec

\* The probes of an observed run, as of any other.
THEOREM ObservedProbeIsLive == MetricsSpec => []ProbeIsLive
  BY ObservedRunIsARun, ProbeIsAlwaysLive, PTL

\* What a run that has not failed has at hand.
RunsWell == Base /\ PlacesOK /\ \A n \in Nodes : WorkMatches(n)

LEMMA RunInvRunsWell ==
    ASSUME RunInv, status # "failed"
    PROVE  RunsWell
  BY DEF RunInv, WorkInv, PlacesInv, RunsWell

-----------------------------------------------------------------------------
(* The entries of a cache.                                                    *)

Entry == [key : Nat, created : Nat, used : Nat]

CacheRecord == [entries : Seq(Entry), hits : Nat, misses : Nat, evictions : Nat, most : Nat]

\* The entries of c fit its capacity, are of different keys, all of them in K,
\* and none was used after its end.
SoundEntries(s, K, capacity, ttl) ==
    /\ Len(s) <= capacity
    /\ \A i, j \in DOMAIN s : s[i].key = s[j].key => i = j
    /\ \A i \in DOMAIN s : /\ s[i].key \in K
                           /\ ttl = 0 \/ s[i].used < s[i].created + ttl

\* A sequence without the element at one place.
LEMMA RemovedAt ==
    ASSUME NEW S, NEW s \in Seq(S), NEW i \in DOMAIN s, NEW u, u = RemoveAt(s, i)
    PROVE  /\ u \in Seq(S) /\ Len(u) = Len(s) - 1
           /\ \A j \in DOMAIN u :
                 /\ j < i => j \in DOMAIN s /\ u[j] = s[j]
                 /\ ~(j < i) => j + 1 \in DOMAIN s /\ u[j] = s[j + 1]
  <1>1. PICK a, b : a = SubSeq(s, 1, i - 1) /\ b = SubSeq(s, i + 1, Len(s))
    OBVIOUS
  <1>2. i \in Nat /\ i >= 1 /\ i <= Len(s) /\ Len(s) \in Nat /\ DOMAIN s = 1 .. Len(s)
    OBVIOUS
  <1>3. a \in Seq(S) /\ Len(a) = i - 1 /\ \A j \in 1 .. i - 1 : a[j] = s[j]
    BY <1>1, <1>2, SubSeqProperties
  <1>4. b \in Seq(S) /\ Len(b) = Len(s) - i /\ \A j \in 1 .. Len(s) - i : b[j] = s[i + j]
    BY <1>1, <1>2, SubSeqProperties
  <1>5. u = a \o b
    BY <1>1 DEF RemoveAt
  <1>6. /\ u \in Seq(S) /\ Len(u) = Len(a) + Len(b)
        /\ \A j \in 1 .. Len(a) + Len(b) : u[j] = IF j <= Len(a) THEN a[j] ELSE b[j - Len(a)]
    <2>1. /\ a \o b \in Seq(S) /\ Len(a \o b) = Len(a) + Len(b)
          /\ \A j \in 1 .. Len(a) + Len(b) :
                (a \o b)[j] = IF j <= Len(a) THEN a[j] ELSE b[j - Len(a)]
      BY <1>3, <1>4, ConcatProperties, Zenon
    <2> QED BY <1>5, <2>1, Zenon
  <1>7. ASSUME NEW j \in 1 .. Len(s) - 1
        PROVE  u[j] = IF j < i THEN s[j] ELSE s[j + 1]
    <2>1. CASE j < i
      BY <1>2, <1>3, <1>4, <1>6, <2>1
    <2>2. CASE ~(j < i)
      <3>1. u[j] = b[j - (i - 1)]
        BY <1>2, <1>3, <1>4, <1>6, <2>2
      <3>2. j - (i - 1) \in 1 .. Len(s) - i
        BY <1>2, <2>2
      <3>3. i + (j - (i - 1)) = j + 1
        BY <1>2
      <3> QED BY <1>4, <2>2, <3>1, <3>2, <3>3
    <2> QED BY <2>1, <2>2
  <1>8. Len(u) = Len(s) - 1 /\ DOMAIN u = 1 .. Len(s) - 1
    BY <1>2, <1>3, <1>4, <1>6
  <1>9. \A j \in 1 .. Len(s) - 1 : j \in DOMAIN s /\ j + 1 \in DOMAIN s
    BY <1>2
  <1> QED BY <1>6, <1>7, <1>8, <1>9

\* Taking an entry out keeps the others in order.
LEMMA RemovalKeepsSound ==
    ASSUME NEW s \in Seq(Entry), NEW i \in DOMAIN s, NEW u, u = RemoveAt(s, i),
           NEW K, NEW capacity \in Nat, NEW ttl \in Nat, SoundEntries(s, K, capacity, ttl)
    PROVE  /\ u \in Seq(Entry) /\ Len(u) = Len(s) - 1
           /\ SoundEntries(u, K, capacity, ttl)
           /\ \A j \in DOMAIN u : u[j].key # s[i].key
  <1>1. /\ u \in Seq(Entry) /\ Len(u) = Len(s) - 1
        /\ \A j \in DOMAIN u :
              /\ j < i => j \in DOMAIN s /\ u[j] = s[j]
              /\ ~(j < i) => j + 1 \in DOMAIN s /\ u[j] = s[j + 1]
    BY RemovedAt
  <1>2. i \in Nat /\ Len(s) \in Nat /\ DOMAIN u \subseteq Nat /\ DOMAIN s \subseteq Nat
    BY <1>1
  <1>3. PICK from : from = [j \in DOMAIN u |-> IF j < i THEN j ELSE j + 1]
    OBVIOUS
  <1>4. \A j \in DOMAIN u : from[j] \in DOMAIN s /\ u[j] = s[from[j]] /\ from[j] # i
    BY <1>1, <1>2, <1>3
  <1>5. \A j, k \in DOMAIN u : from[j] = from[k] => j = k
    BY <1>2, <1>3
  <1>6. Len(u) <= capacity
    BY <1>1, <1>2 DEF SoundEntries
  <1>7. \A j, k \in DOMAIN u : u[j].key = u[k].key => j = k
    BY <1>4, <1>5 DEF SoundEntries
  <1>8. \A j \in DOMAIN u : /\ u[j].key \in K
                            /\ ttl = 0 \/ u[j].used < u[j].created + ttl
                            /\ u[j].key # s[i].key
    BY <1>4 DEF SoundEntries
  <1> QED BY <1>1, <1>6, <1>7, <1>8 DEF SoundEntries

\* Of entries there are, one is the least recent.
LEMMA LeastRecentIn ==
    ASSUME NEW s \in Seq(Entry), Len(s) # 0
    PROVE  LeastRecent(s) \in DOMAIN s
  <1> DEFINE Below(i, j) == s[i].used < s[j].used \/ (s[i].used = s[j].used /\ i <= j)
             T == {m \in Nat : m = 0 \/ m > Len(s) \/ \E i \in 1 .. m : \A j \in 1 .. m : Below(i, j)}
  <1>1. Len(s) \in Nat /\ DOMAIN s = 1 .. Len(s) /\ \A i \in DOMAIN s : s[i].used \in Nat
    <2>1. \A i \in DOMAIN s : s[i] \in Entry
      OBVIOUS
    <2> QED BY <2>1 DEF Entry
  <1>2. ASSUME NEW m \in Nat, m \in T PROVE m + 1 \in T
    <2> SUFFICES ASSUME m + 1 <= Len(s)
                 PROVE  \E i \in 1 .. m + 1 : \A j \in 1 .. m + 1 : Below(i, j)
      <3> HIDE DEF Below
      <3> QED BY <1>1
    <2>1. \A i \in 1 .. m + 1 : i \in Nat /\ s[i].used \in Nat
      <3> SUFFICES ASSUME NEW i \in 1 .. m + 1 PROVE i \in Nat /\ s[i].used \in Nat
        OBVIOUS
      <3>1. i \in DOMAIN s
        BY <1>1
      <3> QED BY <1>1, <3>1
    <2>2. CASE m = 0
      BY <2>1, <2>2
    <2>3. CASE m # 0
      <3>1. PICK i \in 1 .. m : \A j \in 1 .. m : Below(i, j)
        BY <1>1, <1>2, <2>3
      <3>2. CASE s[m + 1].used < s[i].used
        <4>1. \A j \in 1 .. m + 1 : Below(m + 1, j)
          <5> SUFFICES ASSUME NEW j \in 1 .. m + 1 PROVE Below(m + 1, j)
            OBVIOUS
          <5>1. i \in Nat /\ s[i].used \in Nat /\ s[j].used \in Nat /\ s[m + 1].used \in Nat
            BY <2>1
          <5>2. CASE j = m + 1
            BY <5>1, <5>2
          <5>3. CASE j \in 1 .. m
            <6>1. Below(i, j)
              BY <3>1, <5>3
            <6>2. s[m + 1].used < s[j].used
              BY <3>2, <5>1, <6>1
            <6> QED BY <6>2
          <5>4. j = m + 1 \/ j \in 1 .. m
            OBVIOUS
          <5> QED BY <5>2, <5>3, <5>4
        <4>2. m + 1 \in 1 .. m + 1
          OBVIOUS
        <4> HIDE DEF Below
        <4> QED BY <4>1, <4>2
      <3>3. CASE ~(s[m + 1].used < s[i].used)
        <4>1. \A j \in 1 .. m + 1 : Below(i, j)
          <5> SUFFICES ASSUME NEW j \in 1 .. m + 1 PROVE Below(i, j)
            OBVIOUS
          <5>1. i \in Nat /\ i <= m /\ s[i].used \in Nat /\ s[j].used \in Nat /\ s[m + 1].used \in Nat
            BY <2>1
          <5>2. CASE j = m + 1
            BY <3>3, <5>1, <5>2
          <5>3. CASE j # m + 1
            <6>1. j \in 1 .. m
              BY <5>3
            <6> QED BY <3>1, <6>1
          <5> QED BY <5>2, <5>3
        <4>2. i \in 1 .. m + 1
          OBVIOUS
        <4> HIDE DEF Below
        <4> QED BY <4>1, <4>2
      <3> QED BY <3>2, <3>3
    <2> QED BY <2>2, <2>3
  <1>3. 0 \in T
    OBVIOUS
  <1>4. Nat \subseteq T
    <2> HIDE DEF T
    <2> QED BY <1>2, <1>3, NumbersByStep
  <1>5. \E i \in DOMAIN s : \A j \in DOMAIN s : Below(i, j)
    <2>1. Len(s) \in T
      BY <1>1, <1>4
    <2> HIDE DEF Below
    <2> QED BY <1>1, <2>1
  <1> QED BY <1>5 DEF LeastRecent

\* The place of an entry there is.
LEMMA PositionIn ==
    ASSUME NEW c, NEW k, Holds(c, k)
    PROVE  PositionOf(c, k) \in DOMAIN c.entries /\ c.entries[PositionOf(c, k)].key = k
  BY DEF Holds, PositionOf

\* Other entries, and one more of what is counted.
LEMMA CacheChanges ==
    ASSUME NEW c \in CacheRecord, NEW u \in Seq(Entry), NEW d,
           \/ d = [c EXCEPT !.entries = u, !.hits = @ + 1]
           \/ d = [c EXCEPT !.entries = u, !.misses = @ + 1]
           \/ d = [c EXCEPT !.entries = u, !.evictions = @ + 1]
    PROVE  d \in CacheRecord /\ d.entries = u
  <1>1. PICK b : b = [c EXCEPT !.entries = u]
    OBVIOUS
  <1>2. /\ b \in CacheRecord /\ b.entries = u
        /\ b.hits + 1 \in Nat /\ b.misses + 1 \in Nat /\ b.evictions + 1 \in Nat
    BY <1>1 DEF CacheRecord
  <1>3. \/ d = [b EXCEPT !.hits = b.hits + 1]
        \/ d = [b EXCEPT !.misses = b.misses + 1]
        \/ d = [b EXCEPT !.evictions = b.evictions + 1]
    BY <1>1 DEF CacheRecord
  <1> QED BY <1>2, <1>3 DEF CacheRecord

\* A lookup keeps the entries in order; L are the keys that may be found
\* afterwards, all but the one that was not.
LEMMA LookupKeepsSound ==
    ASSUME NEW c \in CacheRecord, NEW k \in Nat, NEW ttl \in Nat, NEW t \in Nat,
           NEW capacity \in Nat, NEW K, SoundEntries(c.entries, K, capacity, ttl),
           NEW L, K \ {k} \subseteq L, Live(c, k, ttl, t) => K \subseteq L,
           NEW d, d = LookedUp(c, k, ttl, t)
    PROVE  d \in CacheRecord /\ SoundEntries(d.entries, L, capacity, ttl)
  <1>1. PICK s, p : s = c.entries /\ p = PositionOf(c, k)
    OBVIOUS
  <1>2. s \in Seq(Entry) /\ c.hits \in Nat /\ c.misses \in Nat
    BY <1>1 DEF CacheRecord
  <1>3. Holds(c, k) => p \in DOMAIN s /\ s[p].key = k
    BY <1>1, PositionIn
  <1>4. CASE Live(c, k, ttl, t)
    <2>1. PICK u : u = [s EXCEPT ![p].used = t]
      OBVIOUS
    <2>2. d = [c EXCEPT !.entries = u, !.hits = @ + 1]
      BY <1>1, <1>4, <2>1 DEF LookedUp
    <2>3. p \in DOMAIN s /\ (ttl = 0 \/ t < s[p].created + ttl)
      BY <1>1, <1>3, <1>4 DEF Live
    <2>4. s[p] \in Entry
      BY <1>2, <2>3
    <2>5. [s[p] EXCEPT !.used = t] \in Entry
      BY <2>4 DEF Entry
    <2>6. u \in Seq(Entry) /\ Len(u) = Len(s) /\ DOMAIN u = DOMAIN s
      BY <1>2, <2>1, <2>3, <2>5, ExceptSeq
    <2>7. \A i \in DOMAIN s : /\ u[i].key = s[i].key /\ u[i].created = s[i].created
                              /\ u[i].used = IF i = p THEN t ELSE s[i].used
      <3>1. \A i \in DOMAIN s : u[i] = IF i = p THEN [s[p] EXCEPT !.used = t] ELSE s[i]
        BY <1>2, <2>1
      <3> QED BY <2>4, <3>1 DEF Entry
    <2>8. SoundEntries(u, L, capacity, ttl)
      BY <1>1, <1>4, <2>3, <2>6, <2>7 DEF SoundEntries
    <2>9. d \in CacheRecord /\ d.entries = u
      BY <2>2, <2>6, CacheChanges
    <2> QED BY <2>8, <2>9
  <1>5. CASE ~Live(c, k, ttl, t) /\ Holds(c, k)
    <2>1. PICK u : u = RemoveAt(s, p)
      OBVIOUS
    <2>2. d = [c EXCEPT !.entries = u, !.misses = @ + 1]
      BY <1>1, <1>5, <2>1 DEF LookedUp
    <2>3. /\ u \in Seq(Entry) /\ SoundEntries(u, K, capacity, ttl)
          /\ \A j \in DOMAIN u : u[j].key # k
      BY <1>1, <1>2, <1>3, <1>5, <2>1, RemovalKeepsSound
    <2>4. SoundEntries(u, L, capacity, ttl)
      BY <2>3 DEF SoundEntries
    <2>5. d \in CacheRecord /\ d.entries = u
      BY <2>2, <2>3, CacheChanges
    <2> QED BY <2>4, <2>5
  <1>6. CASE ~Live(c, k, ttl, t) /\ ~Holds(c, k)
    <2>1. d = [c EXCEPT !.entries = s, !.misses = @ + 1]
      BY <1>1, <1>6 DEF LookedUp
    <2>2. \A i \in DOMAIN s : s[i].key # k
      BY <1>1, <1>6 DEF Holds
    <2>3. SoundEntries(s, L, capacity, ttl)
      BY <1>1, <2>2 DEF SoundEntries
    <2>4. d \in CacheRecord /\ d.entries = s
      BY <1>2, <2>1, CacheChanges
    <2> QED BY <2>3, <2>4
  <1> QED BY <1>4, <1>5, <1>6

\* So does storing an entry; a full cache makes room for it.
LEMMA StoreKeepsSound ==
    ASSUME NEW c \in CacheRecord, NEW k \in Nat, NEW ttl \in Nat, NEW t \in Nat,
           NEW capacity \in Nat \ {0}, NEW K, SoundEntries(c.entries, K, capacity, ttl),
           NEW L, K \cup {k} \subseteq L, NEW d, d = Stored(c, k, capacity, t)
    PROVE  d \in CacheRecord /\ SoundEntries(d.entries, L, capacity, ttl)
  <1>1. PICK s, p, fresh : /\ s = c.entries /\ p = PositionOf(c, k)
                           /\ fresh = [key |-> k, created |-> t, used |-> t]
    OBVIOUS
  <1>2. /\ s \in Seq(Entry) /\ fresh \in Entry
        /\ fresh.key = k /\ fresh.created = t /\ fresh.used = t
        /\ ttl = 0 \/ fresh.used < fresh.created + ttl
    BY <1>1 DEF CacheRecord, Entry
  <1>3. CASE Holds(c, k)
    <2>1. p \in DOMAIN s /\ s[p].key = k
      BY <1>1, <1>3, PositionIn
    <2>2. PICK u : u = [s EXCEPT ![p] = fresh]
      OBVIOUS
    <2>3. d = [c EXCEPT !.entries = u]
      BY <1>1, <1>3, <2>2 DEF Stored
    <2>4. u \in Seq(Entry) /\ Len(u) = Len(s) /\ DOMAIN u = DOMAIN s
      BY <1>2, <2>1, <2>2, ExceptSeq
    <2>5. \A i \in DOMAIN s : u[i] = IF i = p THEN fresh ELSE s[i]
      BY <1>2, <2>2
    <2>6. SoundEntries(u, L, capacity, ttl)
      BY <1>1, <1>2, <2>1, <2>4, <2>5 DEF SoundEntries
    <2>7. d \in CacheRecord /\ d.entries = u
      BY <2>3, <2>4 DEF CacheRecord
    <2> QED BY <2>6, <2>7
  <1>4. CASE ~Holds(c, k)
    <2>1. PICK roomy : roomy = WithRoom(c, capacity)
      OBVIOUS
    <2>2. PICK v : v = roomy.entries
      OBVIOUS
    <2>3. /\ roomy \in CacheRecord /\ v \in Seq(Entry) /\ Len(v) < capacity
          /\ SoundEntries(v, K, capacity, ttl)
          /\ \A i \in DOMAIN v : v[i].key # k
      <3>0. \A i \in DOMAIN s : s[i].key # k
        BY <1>1, <1>4 DEF Holds
      <3>1. CASE Len(s) < capacity
        <4>1. roomy = c
          BY <1>1, <2>1, <3>1 DEF WithRoom
        <4> QED BY <1>1, <1>2, <2>2, <3>0, <3>1, <4>1
      <3>2. CASE ~(Len(s) < capacity)
        <4>1. PICK i : i = LeastRecent(s)
          OBVIOUS
        <4>2. PICK w : w = RemoveAt(s, i)
          OBVIOUS
        <4>3. Len(s) = capacity /\ Len(s) # 0
          BY <1>1, <1>2, <3>2 DEF SoundEntries
        <4>4. i \in DOMAIN s
          BY <1>2, <4>1, <4>3, LeastRecentIn
        <4>5. w \in Seq(Entry) /\ Len(w) = Len(s) - 1 /\ SoundEntries(w, K, capacity, ttl)
          BY <1>1, <1>2, <4>2, <4>4, RemovalKeepsSound
        <4>6. \A j \in DOMAIN w : \E m \in DOMAIN s : w[j] = s[m]
          <5>1. \A j \in DOMAIN w :
                   /\ j < i => j \in DOMAIN s /\ w[j] = s[j]
                   /\ ~(j < i) => j + 1 \in DOMAIN s /\ w[j] = s[j + 1]
            BY <1>2, <4>2, <4>4, RemovedAt
          <5> QED BY <5>1
        <4>7. roomy = [c EXCEPT !.entries = w, !.evictions = @ + 1]
          BY <1>1, <2>1, <3>2, <4>1, <4>2 DEF WithRoom
        <4>8. roomy \in CacheRecord /\ v = w
          BY <2>2, <4>5, <4>7, CacheChanges
        <4>9. \A j \in DOMAIN v : v[j].key # k
          BY <3>0, <4>6, <4>8
        <4> QED BY <4>3, <4>5, <4>8, <4>9
      <3> QED BY <3>1, <3>2
    <2>4. PICK u, size : u = Append(v, fresh) /\ size = Len(v) + 1
      OBVIOUS
    <2>5. d = [roomy EXCEPT !.entries = u, !.most = IF size > @ THEN size ELSE @]
      BY <1>1, <1>4, <2>1, <2>2, <2>4 DEF Stored
    <2>6. /\ u \in Seq(Entry) /\ Len(u) = size /\ size \in Nat /\ DOMAIN u = 1 .. size
          /\ \A i \in DOMAIN u : u[i] = IF i = size THEN fresh ELSE v[i]
          /\ \A i \in DOMAIN u : i # size => i \in DOMAIN v
      BY <1>2, <2>3, <2>4
    <2>7. SoundEntries(u, L, capacity, ttl)
      <3>1. Len(u) <= capacity
        BY <2>3, <2>4, <2>6
      <3>2. \A i, j \in DOMAIN u : u[i].key = u[j].key => i = j
        BY <1>2, <2>3, <2>6 DEF SoundEntries
      <3>3. \A i \in DOMAIN u : /\ u[i].key \in L
                                /\ ttl = 0 \/ u[i].used < u[i].created + ttl
        BY <1>2, <2>3, <2>6 DEF SoundEntries
      <3> QED BY <3>1, <3>2, <3>3 DEF SoundEntries
    <2>8. d \in CacheRecord /\ d.entries = u
      BY <2>3, <2>5, <2>6 DEF CacheRecord
    <2> QED BY <2>7, <2>8
  <1> QED BY <1>3, <1>4

\* The entries of every cache are in order, and of the keys the engine counts
\* with.
CachesOK ==
    /\ cache \in [Nodes -> CacheRecord]
    /\ \A n \in Nodes :
          SoundEntries(cache[n].entries, cached[n], Caching[n].capacity, Caching[n].ttl)

\* Only an arrival looks a key up, and only one event stores one.
LEMMA OnlyLookups ==
    ASSUME NEW e, Handle(e), Records(e), e.type \notin {"request.routed", "cache.set"}
    PROVE  cached' = cached /\ cache' = cache
  <1>1. cached' = cached
    <2>1. Throw(e) => cached' = cached
      BY DEF Throw, model
    <2>2. JustRoutes(e) => cached' = cached
      BY <2>1 DEF JustRoutes, Rest
    <2>3. CASE Created(e) \/ Reroute(e) \/ DatabaseResponse(e)
      BY <2>1, <2>2, <2>3 DEF Created, Reroute, DatabaseResponse
    <2>4. CASE Transmission(e) \/ CacheMiss(e) \/ CacheHit(e) \/ DatabaseRequest(e)
      BY <2>4 DEF Transmission, CacheMiss, CacheHit, DatabaseRequest, model
    <2>5. CASE ProcessingStarted(e)
      BY <2>1, <2>5 DEF ProcessingStarted, Refused, model
    <2>6. CASE ProcessingCompleted(e)
      BY <2>1, <2>6 DEF ProcessingCompleted
    <2>7. CASE QueueDrain(e) \/ Completed(e) \/ RequestFailed(e) \/ Retry(e)
      BY <2>1, <2>7 DEF QueueDrain, Completed, RequestFailed, Retry, model
    <2>8. CASE ComponentFailed(e) \/ Recovery(e) \/ Recovered(e) \/ HalfOpen(e)
      BY <2>8 DEF ComponentFailed, Recovery, Recovered, HalfOpen, model
    <2>9. CASE Evaluate(e) \/ Scaled(e)
      BY <2>1, <2>9 DEF Evaluate, Scaled, model
    <2>10. ~Routed(e) /\ ~CacheSet(e)
      BY DEF Routed, CacheSet
    <2> QED BY <2>3, <2>4, <2>5, <2>6, <2>7, <2>8, <2>9, <2>10 DEF Handle
  <1>2. cache' = cache
    <2>1. ~Arrived(e) /\ ~Filled(e)
      BY DEF Arrived, Filled
    <2>2. CASE Begun(e)
      BY <2>2 DEF Begun, QueuedOrNot, Tried
    <2>3. CASE Transmitted(e) \/ Operated(e) \/ Finished(e) \/ Dequeued(e) \/ Succeeded(e)
      BY <2>3 DEF Transmitted, Operated, Finished, Dequeued, Succeeded
    <2>4. CASE Lost(e) \/ Retried(e) \/ FailedOrRecovered(e) \/ Assessed(e) \/ Resized(e)
               \/ Ignored(e)
      BY <2>4 DEF Lost, Retried, FailedOrRecovered, Assessed, Resized, Ignored
    <2> QED BY <2>1, <2>2, <2>3, <2>4 DEF Records
  <1> QED BY <1>1, <1>2

\* What is known of the cache of a node.
LEMMA CacheOf ==
    ASSUME RuntimeAssumption, MetricsAssumption, BasicInv, CachesOK, NEW e \in events,
           e.req \in Requests
    PROVE  /\ e.node \in Nodes /\ cache[e.node] \in CacheRecord
           /\ Conf[e.node].keys[e.req] \in Nat /\ e.at \in Nat
           /\ Caching[e.node].capacity \in Nat \ {0} /\ Caching[e.node].ttl \in Nat
           /\ SoundEntries(cache[e.node].entries, cached[e.node],
                           Caching[e.node].capacity, Caching[e.node].ttl)
           /\ DOMAIN cached = Nodes
  <1>1. e.node \in Nodes /\ e.at \in Nat
    BY DEF BasicInv, TypeOK, Event
  <1>2. Conf[e.node].keys \in [Requests -> Nat]
    BY <1>1 DEF RuntimeAssumption, Config
  <1>3. Caching[e.node] \in [capacity : Nat \ {0}, ttl : Nat]
    BY <1>1 DEF MetricsAssumption
  <1> QED BY <1>1, <1>2, <1>3 DEF CachesOK, BasicInv, TypeOK

\* A key whose lookup fails is in no entry that may be found: what the engine
\* takes out of its abstract cache, the cache does not have.
LEMMA LookupStep ==
    ASSUME BasicInv, PlacesOK, CachesOK,
           NEW e \in events, Routed(e), ~Throw(e), Arrived(e)
    PROVE  CachesOK'
  <1>1. e.type = "request.routed" /\ e.req \in Requests
    BY DEF Routed, BasicInv, Sound, RequestEvent
  <1>2. PICK n, key, capacity, ttl :
           /\ n = e.node /\ key = Conf[n].keys[e.req]
           /\ capacity = Caching[n].capacity /\ ttl = Caching[n].ttl
    OBVIOUS
  <1>3. /\ n \in Nodes /\ cache[n] \in CacheRecord /\ key \in Nat /\ e.at \in Nat
        /\ capacity \in Nat \ {0} /\ ttl \in Nat
        /\ SoundEntries(cache[n].entries, cached[n], capacity, ttl)
        /\ DOMAIN cached = Nodes
    BY <1>1, <1>2, CacheOf, RuntimeAssumption, MetricsAssumption
  <1>4. ~Over(e.req) /\ (Refused(e) \/ Arrives(e))
    BY DEF Routed
  <1>5. CASE ~LooksUp(e)
    <2>1. cached' = cached
      BY <1>4, <1>5 DEF Refused, Arrives, Admitted, LooksUp, model
    <2>2. cache' = cache
      BY <1>5 DEF Arrived
    <2> QED BY <2>1, <2>2 DEF CachesOK
  <1>6. CASE LooksUp(e)
    <2>1. Lookup(e)
      BY <1>4, <1>6 DEF Refused, Arrives, LooksUp
    <2>2. PICK d : d = LookedUp(cache[n], key, ttl, e.at)
      OBVIOUS
    <2>3. /\ cache' = [cache EXCEPT ![n] = d]
          /\ Found(e) <=> Live(cache[n], key, ttl, e.at)
      BY <1>2, <1>6, <2>2 DEF Arrived
    <2>4. \/ cached' = cached
          \/ /\ cached' = [cached EXCEPT ![n] = @ \ {key}]
             /\ Proceed(e, <<At(e.at + Conf[n].missLatency, "cache.miss", n, e.req, 0)>>)
      BY <1>2, <2>1 DEF Lookup
    <2>5. ASSUME cached' # cached PROVE ~Live(cache[n], key, ttl, e.at)
      <3>1. \A f \in events' : f \in events \/ f.type = "cache.miss"
        BY <2>4, <2>5, OnlyNewEvent
      <3>2. ASSUME NEW f \in events, f.type = "cache.hit", f.req = e.req PROVE FALSE
        BY <1>1, <3>2 DEF PlacesOK, GoesOn, RequestEvent
      <3>3. ~Found(e)
        BY <3>1, <3>2 DEF Found
      <3> QED BY <2>3, <3>3
    <2>6. /\ cached[n] \ {key} \subseteq cached'[n]
          /\ Live(cache[n], key, ttl, e.at) => cached[n] \subseteq cached'[n]
      BY <1>3, <2>4, <2>5
    <2>7. d \in CacheRecord /\ SoundEntries(d.entries, cached'[n], capacity, ttl)
      <3>1. PICK c, K, L, t : c = cache[n] /\ K = cached[n] /\ L = cached'[n] /\ t = e.at
        OBVIOUS
      <3>2. /\ c \in CacheRecord /\ SoundEntries(c.entries, K, capacity, ttl)
            /\ K \ {key} \subseteq L /\ (Live(c, key, ttl, t) => K \subseteq L)
            /\ d = LookedUp(c, key, ttl, t) /\ capacity \in Nat
            /\ key \in Nat /\ ttl \in Nat /\ t \in Nat
        BY <1>3, <2>2, <2>6, <3>1
      <3>3. d \in CacheRecord /\ SoundEntries(d.entries, L, capacity, ttl)
        BY <3>2, LookupKeepsSound
      <3> QED BY <3>1, <3>3
    <2>8. \A m \in Nodes : m # n => cached'[m] = cached[m] /\ cache'[m] = cache[m]
      BY <1>3, <2>3, <2>4 DEF CachesOK
    <2>9. cache' \in [Nodes -> CacheRecord] /\ cache'[n] = d
      BY <1>3, <2>3, <2>7 DEF CachesOK
    <2> QED BY <1>2, <2>7, <2>8, <2>9 DEF CachesOK
  <1> QED BY <1>5, <1>6

\* What is stored may be found.
LEMMA FillingStep ==
    ASSUME BasicInv, CachesOK,
           NEW e \in events, CacheSet(e), Filled(e)
    PROVE  CachesOK'
  <1>1. e.req \in Requests
    BY DEF CacheSet, BasicInv, Sound
  <1>2. PICK n, key, capacity, ttl :
           /\ n = e.node /\ key = Conf[n].keys[e.req]
           /\ capacity = Caching[n].capacity /\ ttl = Caching[n].ttl
    OBVIOUS
  <1>3. /\ n \in Nodes /\ cache[n] \in CacheRecord /\ key \in Nat /\ e.at \in Nat
        /\ capacity \in Nat \ {0} /\ ttl \in Nat
        /\ SoundEntries(cache[n].entries, cached[n], capacity, ttl)
        /\ DOMAIN cached = Nodes
    BY <1>1, <1>2, CacheOf, RuntimeAssumption, MetricsAssumption
  <1>4. PICK d : d = Stored(cache[n], key, capacity, e.at)
    OBVIOUS
  <1>5. /\ cache' = [cache EXCEPT ![n] = d]
        /\ cached' = [cached EXCEPT ![n] = @ \cup {key}]
    BY <1>2, <1>4 DEF Filled, CacheSet
  <1>6. cached'[n] = cached[n] \cup {key}
    BY <1>3, <1>5
  <1>7. d \in CacheRecord /\ SoundEntries(d.entries, cached'[n], capacity, ttl)
    <2>1. PICK c, K, L, t : c = cache[n] /\ K = cached[n] /\ L = cached'[n] /\ t = e.at
      OBVIOUS
    <2>2. /\ c \in CacheRecord /\ t \in Nat /\ SoundEntries(c.entries, K, capacity, ttl)
          /\ key \in Nat /\ ttl \in Nat /\ capacity \in Nat \ {0}
      BY <1>3, <2>1
    <2>3. K \cup {key} \subseteq L /\ d = Stored(c, key, capacity, t)
      BY <1>4, <1>6, <2>1
    <2>4. d \in CacheRecord /\ SoundEntries(d.entries, L, capacity, ttl)
      BY <2>2, <2>3, StoreKeepsSound
    <2> QED BY <2>1, <2>4
  <1>8. \A m \in Nodes : m # n => cached'[m] = cached[m] /\ cache'[m] = cache[m]
    BY <1>5 DEF CachesOK
  <1>9. cache' \in [Nodes -> CacheRecord] /\ cache'[n] = d
    BY <1>3, <1>5, <1>7 DEF CachesOK
  <1> QED BY <1>2, <1>7, <1>8, <1>9 DEF CachesOK

\* A cache never holds more than its capacity, two entries of one key, or one
\* that was used after its end; and whatever it may find is a key the engine's
\* abstract cache counts with, so the engine's outcomes leave no hit out, for
\* every capacity, time to live and assignment of keys.
THEOREM CacheIsAlwaysSound == MetricsSpec => []CacheIsSound
  <1> DEFINE Inv == Base /\ PlacesInv /\ CachesOK
  <1>1. MetricsInit => Inv
    <2> SUFFICES ASSUME MetricsInit PROVE Inv
      OBVIOUS
    <2>1. Init /\ \A n \in Nodes : cache[n] = EmptyCache /\ cached[n] = {}
      BY DEF MetricsInit, Init
    <2>2. EmptyCache \in CacheRecord
      BY DEF EmptyCache, CacheRecord
    <2>3. \A n \in Nodes : Caching[n].capacity \in Nat
      BY MetricsAssumption DEF MetricsAssumption
    <2>4. \A n \in Nodes : SoundEntries(cache[n].entries, cached[n],
                                        Caching[n].capacity, Caching[n].ttl)
      BY <2>1, <2>3 DEF SoundEntries, EmptyCache
    <2>5. CachesOK
      BY <2>1, <2>2, <2>4 DEF MetricsInit, CachesOK
    <2> QED BY <2>1, <2>5, BaseHoldsFirst, PlacesInvFirst, RuntimeAssumption
  <1>2. Inv /\ [MetricsNext]_<<vars, telemetry>> => Inv'
    <2> SUFFICES ASSUME Inv, [MetricsNext]_<<vars, telemetry>> PROVE Inv'
      OBVIOUS
    <2>1. /\ [Next]_vars
          /\ \/ UNCHANGED <<vars, telemetry>>
             \/ status' = "failed" /\ UNCHANGED <<model, telemetry>>
             \/ /\ status = "running" /\ status' # "failed"
                /\ \E e \in events : Recording(e)
      BY RecordingStep, RuntimeAssumption
    <2>2. Base' /\ PlacesInv'
      BY <2>1, BaseKept, PlacesInvKept, RuntimeAssumption
    <2>3. CASE cached' = cached /\ cache' = cache
      BY <2>2, <2>3 DEF CachesOK
    <2>4. CASE status = "running" /\ \E e \in events : Recording(e)
      <3>1. PICK e \in events : Recording(e)
        BY <2>4
      <3>2. BasicInv /\ PlacesOK
        BY <2>4 DEF Base, PlacesInv
      <3>3. CASE e.type \notin {"request.routed", "cache.set"}
        BY <2>3, <3>1, <3>3, OnlyLookups DEF Recording
      <3>4. CASE e.type = "request.routed"
        <4>1. Routed(e)
          BY <3>1, <3>4 DEF Recording, Handle, Created, Transmission, CacheMiss, CacheHit,
             CacheSet, DatabaseRequest, DatabaseResponse, ProcessingStarted,
             ProcessingCompleted, QueueDrain, Completed, RequestFailed, Retry, Reroute,
             ComponentFailed, Recovery, Recovered, HalfOpen, Evaluate, Scaled
        <4>2. Arrived(e)
          BY <3>1, <3>4 DEF Recording, Records, Transmitted, Filled, Operated, Begun,
             Finished, Dequeued, Succeeded, Lost, Retried, FailedOrRecovered, Assessed,
             Resized, Ignored, Unrecorded
        <4> QED BY <2>2, <3>1, <3>2, <4>1, <4>2, LookupStep, RuntimeAssumption,
                   MetricsAssumption DEF Recording
      <3>5. CASE e.type = "cache.set"
        <4>1. CacheSet(e)
          BY <3>1, <3>5 DEF Recording, Handle, Created, Transmission, Routed, CacheMiss, CacheHit,
             DatabaseRequest, DatabaseResponse, ProcessingStarted,
             ProcessingCompleted, QueueDrain, Completed, RequestFailed, Retry, Reroute,
             ComponentFailed, Recovery, Recovered, HalfOpen, Evaluate, Scaled
        <4>2. Filled(e)
          BY <3>1, <3>5 DEF Recording, Records, Transmitted, Arrived, Operated, Begun,
             Finished, Dequeued, Succeeded, Lost, Retried, FailedOrRecovered, Assessed,
             Resized, Ignored, Unrecorded
        <4> QED BY <2>2, <3>2, <4>1, <4>2, FillingStep, RuntimeAssumption, MetricsAssumption
      <3> QED BY <3>3, <3>4, <3>5
    <2> QED BY <2>1, <2>3, <2>4 DEF vars, model, telemetry
  <1>3. Inv => CacheIsSound
    BY DEF CachesOK, CacheIsSound, SoundEntries, OfKind
  <1> QED BY <1>1, <1>2, <1>3, PTL DEF MetricsSpec

-----------------------------------------------------------------------------
(* The health of the components.                                              *)

\* What of the metrics of a component is about its health.
HealthFields == {"transitions", "failures", "recoveries", "inState", "since"}

ObsFields ==
    { "peakActive", "peakQueue", "enqueued", "dequeued", "dropped", "rejected", "wait",
      "least", "most", "ups", "downs", "evaluations", "processing" } \cup HealthFields

\* The metrics o of a component in state h of health: the times in all states
\* add up to the time of the last transition, and the failures outnumber the
\* recoveries by the one it has not recovered from.
Balanced(o, h) ==
    /\ o.since \in Int /\ o.inState \in [Health -> Int]
    /\ Sum(o.inState, Health) = o.since
    /\ o.failures \in Int /\ o.recoveries \in Int
    /\ o.failures - o.recoveries = IF h = "failed" THEN 1 ELSE 0

\* There are finitely many states of health.
LEMMA FiniteHealth == IsFiniteSet(Health)
  <1>1. PICK a, b, c : /\ a = {"healthy"} /\ b = a \cup {"degraded"}
                        /\ c = b \cup {"critical"}
    OBVIOUS
  <1>2. IsFiniteSet(a)
    BY <1>1, FS_Singleton
  <1>3. IsFiniteSet(b)
    BY <1>1, <1>2, FS_AddElement
  <1>4. IsFiniteSet(c)
    BY <1>1, <1>3, FS_AddElement
  <1>5. Health = c \cup {"failed"}
    BY <1>1 DEF Health
  <1> QED BY <1>4, <1>5, FS_AddElement

\* Time added to one state is added to the sum.
LEMMA TimeAdds ==
    ASSUME NEW f \in [Health -> Int], NEW h \in Health, NEW d \in Int
    PROVE  /\ [f EXCEPT ![h] = @ + d] \in [Health -> Int]
           /\ Sum([f EXCEPT ![h] = @ + d], Health) = Sum(f, Health) + d
           /\ Sum(f, Health) \in Int
  <1>1. PICK g : g = [f EXCEPT ![h] = @ + d]
    OBVIOUS
  <1>2. /\ g \in [Health -> Int] /\ g[h] = f[h] + d
        /\ \A x \in Health : x # h => g[x] = f[x]
    BY <1>1
  <1>3. \A x \in Health : f[x] \in Int /\ g[x] \in Int
    BY <1>2
  <1>4. /\ Sum(f, Health) \in Int /\ Sum(g, Health) \in Int
        /\ Sum(g, Health) = Sum(f, Health) - f[h] + g[h]
    BY <1>2, <1>3, FiniteHealth, SumChanges
  <1> QED BY <1>1, <1>2, <1>3, <1>4

\* The time since the last transition belongs to the state that ends.
LEMMA TransitionBalances ==
    ASSUME NEW o, DOMAIN o = ObsFields, NEW from \in Health, NEW to \in Health, NEW t \in Int,
           Balanced(o, from)
    PROVE  Balanced(Transition(o, from, to, t), to)
  <1>1. PICK p : p = Transition(o, from, to, t)
    OBVIOUS
  <1>2. CASE from = to
    <2>1. p = o
      BY <1>1, <1>2 DEF Transition
    <2> QED BY <1>1, <1>2, <2>1
  <1>3. CASE from # to
    <2>1. /\ p.failures = o.failures + (IF to = "failed" THEN 1 ELSE 0)
          /\ p.recoveries = o.recoveries + (IF from = "failed" THEN 1 ELSE 0)
          /\ p.inState = [o.inState EXCEPT ![from] = @ + t - o.since]
          /\ p.since = t
      <3>1. /\ o.transitions = o["transitions"] /\ HealthFields \subseteq DOMAIN o
        BY DEF ObsFields
      <3>2. p = [o EXCEPT !.transitions = @ + 1,
                          !.failures = @ + (IF to = "failed" THEN 1 ELSE 0),
                          !.recoveries = @ + (IF from = "failed" THEN 1 ELSE 0),
                          !.inState[from] = @ + t - o.since,
                          !.since = t]
        BY <1>1, <1>3 DEF Transition
      <3> QED BY <3>1, <3>2 DEF HealthFields
    <2>2. PICK f, d : f = o.inState /\ d = t - o.since
      OBVIOUS
    <2>3. f \in [Health -> Int] /\ d \in Int /\ o.since \in Int /\ Sum(f, Health) = o.since
      BY <2>2 DEF Balanced
    <2>4. p.inState = [f EXCEPT ![from] = @ + d]
      BY <2>1, <2>2, <2>3
    <2>5. p.inState \in [Health -> Int] /\ Sum(p.inState, Health) = Sum(f, Health) + d
      <3>1. PICK g : g = [f EXCEPT ![from] = @ + d]
        OBVIOUS
      <3>2. g \in [Health -> Int] /\ Sum(g, Health) = Sum(f, Health) + d
        BY <2>3, <3>1, TimeAdds
      <3> QED BY <2>4, <3>1, <3>2
    <2>6. Sum(p.inState, Health) = t
      BY <2>2, <2>3, <2>5
    <2>7. /\ p.failures \in Int /\ p.recoveries \in Int
          /\ p.failures - p.recoveries = IF to = "failed" THEN 1 ELSE 0
      BY <1>3, <2>1 DEF Balanced
    <2> QED BY <1>1, <2>1, <2>5, <2>6, <2>7 DEF Balanced
  <1> QED BY <1>2, <1>3

\* The health and its metrics in order: a component is failed for the report
\* when it is for the engine.
HealthOK ==
    /\ health \in [Nodes -> Health] /\ DOMAIN obs = Nodes
    /\ \A n \in Nodes : /\ health[n] = "failed" <=> comp[n].failed
                        /\ DOMAIN obs[n] = ObsFields
                        /\ collect => Balanced(obs[n], health[n])

\* A component is judged healthy, degraded or critical while it works.
LEMMA EvaluatedHealth ==
    ASSUME NEW n \in Nodes, NEW active, NEW w, NEW level, level = Evaluated(n, active, w)
    PROVE  level \in Health /\ (level = "failed" <=> health[n] = "failed")
  BY DEF Evaluated, Judged, Health

\* What is left alone is balanced as before.
LEMMA BalancedFields ==
    ASSUME NEW o, NEW p, \A x \in HealthFields : p[x] = o[x], NEW h, Balanced(o, h)
    PROVE  Balanced(p, h)
  BY DEF Balanced, HealthFields

\* Which handler an event is for, and what is recorded of it.
LEMMA HandlerByType ==
    ASSUME NEW e, Handle(e)
    PROVE  /\ e.type = "request.routed" => Routed(e)
           /\ e.type = "network.transmission_started" => Transmission(e)
           /\ e.type = "cache.set" => CacheSet(e)
           /\ e.type = "request.processing_started" => ProcessingStarted(e)
           /\ e.type = "request.processing_completed" => ProcessingCompleted(e)
           /\ e.type = "queue.drain" => QueueDrain(e)
           /\ e.type = "request.failed" => RequestFailed(e)
           /\ e.type = "component.failed" => ComponentFailed(e)
           /\ e.type = "component.recovered" => Recovered(e)
  BY DEF Handle, Created, Transmission, Routed, CacheMiss, CacheHit, CacheSet, DatabaseRequest,
     DatabaseResponse, ProcessingStarted, ProcessingCompleted, QueueDrain, Completed,
     RequestFailed, Retry, Reroute, ComponentFailed, Recovery, Recovered, HalfOpen, Evaluate,
     Scaled

\* The events of which a record is made at all.
LEMMA RecordByType ==
    ASSUME NEW e, Records(e)
    PROVE  /\ e.type = "request.routed" => Arrived(e)
           /\ e.type = "network.transmission_started" => Transmitted(e)
           /\ e.type = "cache.set" => Filled(e)
           /\ e.type = "request.processing_started" => Begun(e)
           /\ e.type = "request.processing_completed" => Finished(e)
           /\ e.type = "queue.drain" => Dequeued(e)
           /\ e.type = "request.failed" => Lost(e)
           /\ e.type \in {"request.retry", "request.reroute"} => Retried(e)
           /\ e.type \in {"component.failed", "component.recovered"} => FailedOrRecovered(e)
           /\ e.type \notin {"request.processing_started", "request.processing_completed",
                             "queue.drain", "component.failed", "component.recovered",
                             "autoscaling.evaluate", "component.scaled"}
              => UNCHANGED <<health, work, obs, stamp>>
           /\ e.type \notin {"network.transmission_started", "database.request",
                             "request.failed", "request.retry", "request.reroute"}
              => UNCHANGED store
  <1>1. CASE Begun(e)
    BY <1>1 DEF Begun, QueuedOrNot, Tried
  <1>2. CASE Transmitted(e) \/ Operated(e) \/ Finished(e) \/ Dequeued(e) \/ Succeeded(e)
             \/ Arrived(e) \/ Filled(e)
    BY <1>2 DEF Transmitted, Operated, Finished, Dequeued, Succeeded, Arrived, Filled
  <1>3. CASE Lost(e) \/ Retried(e) \/ FailedOrRecovered(e) \/ Assessed(e) \/ Resized(e)
             \/ Ignored(e)
    BY <1>3 DEF Lost, Retried, FailedOrRecovered, Assessed, Resized, Ignored, Unrecorded
  <1> QED BY <1>1, <1>2, <1>3 DEF Records

\* A component fails and recovers only by the events of its own.
LEMMA FailedSame ==
    ASSUME BasicInv, NEW e \in events, TimerPart(e),
           e.type \notin {"component.failed", "component.recovered"}
    PROVE  \A n \in Nodes : comp'[n].failed = comp[n].failed
  BY DEF TimerPart, KeepsTimers, FailsAt, StartsRecovery, EndsCycle, Revives, OpensHalf

\* One component is observed, and its health may change with what is observed.
ObservedAt(n, p, level, t) ==
    /\ DOMAIN p = ObsFields
    /\ \A x \in HealthFields : p[x] = obs[n][x]
    /\ level \in Health
    /\ health' = [health EXCEPT ![n] = level]
    /\ obs' = IF collect THEN [obs EXCEPT ![n] = Transition(p, health[n], level, t)] ELSE obs

\* Then the metrics stay in order, when the engine agrees on the failure.
LEMMA ObservedInOrder ==
    ASSUME HealthOK, NEW n \in Nodes, NEW p, NEW level, NEW t \in Int, ObservedAt(n, p, level, t),
           collect' = collect,
           \A m \in Nodes : comp'[m].failed = IF m = n THEN level = "failed" ELSE comp[m].failed
    PROVE  HealthOK'
  <1>1. /\ health' \in [Nodes -> Health] /\ health'[n] = level
        /\ \A m \in Nodes : m # n => health'[m] = health[m]
    BY DEF HealthOK, ObservedAt
  <1>2. DOMAIN obs' = Nodes /\ \A m \in Nodes : m # n => obs'[m] = obs[m]
    BY DEF HealthOK, ObservedAt
  <1>3. /\ DOMAIN obs'[n] = ObsFields
        /\ collect => Balanced(obs'[n], level)
    <2>1. CASE ~collect
      BY <2>1 DEF HealthOK, ObservedAt
    <2>2. CASE collect
      <3>1. obs'[n] = Transition(p, health[n], level, t)
        BY <2>2 DEF HealthOK, ObservedAt
      <3>2. Balanced(p, health[n])
        BY <2>2, BalancedFields DEF HealthOK, ObservedAt
      <3>3. health[n] \in Health /\ level \in Health /\ DOMAIN p = ObsFields
        BY DEF HealthOK, ObservedAt
      <3>4. PICK q : q = Transition(p, health[n], level, t)
        OBVIOUS
      <3>5. DOMAIN q = ObsFields
        BY <3>3, <3>4 DEF Transition
      <3>6. Balanced(q, level)
        BY <3>2, <3>3, <3>4, TransitionBalances
      <3> QED BY <3>1, <3>4, <3>5, <3>6
    <2> QED BY <2>1, <2>2
  <1> QED BY <1>1, <1>2, <1>3 DEF HealthOK

\* A component is observed and its health stays as it is.
LEMMA ObservedCalmly ==
    ASSUME HealthOK, NEW n \in Nodes, NEW p, NEW t, DOMAIN p = ObsFields,
           \A x \in HealthFields : p[x] = obs[n][x],
           health' = health, Observe(n, p)
    PROVE  ObservedAt(n, p, health[n], t)
  <1>1. p = Transition(p, health[n], health[n], t)
    BY DEF Transition
  <1>2. health[n] \in Health /\ health' = [health EXCEPT ![n] = health[n]]
    BY DEF HealthOK
  <1> QED BY <1>1, <1>2 DEF ObservedAt, Observe

\* What is recorded of an event of e's node changes no failure.
LEMMA CalmInOrder ==
    ASSUME BasicInv, HealthOK, NEW e \in events, NEW p, NEW level,
           ObservedAt(e.node, p, level, e.at), collect' = collect,
           level = "failed" <=> health[e.node] = "failed",
           \A n \in Nodes : comp'[n].failed = comp[n].failed
    PROVE  HealthOK'
  <1>1. e.node \in Nodes /\ e.at \in Int
    BY DEF BasicInv, TypeOK, Event
  <1>2. comp \in [Nodes -> [failed : BOOLEAN, active : Nat, replicas : Nat \ {0}, cycle : Nat]]
    BY DEF BasicInv, TypeOK
  <1>3. \A m \in Nodes : comp[m].failed \in BOOLEAN /\ (health[m] = "failed" <=> comp[m].failed)
    BY <1>2 DEF HealthOK
  <1>4. \A m \in Nodes : comp'[m].failed = IF m = e.node THEN level = "failed" ELSE comp[m].failed
    BY <1>1, <1>3
  <1> QED BY <1>1, <1>4, ObservedInOrder

\* What the start of a request records keeps the health in order.
LEMMA BegunHealth ==
    ASSUME RuntimeAssumption, BasicInv, HealthOK, NEW e \in events, Begun(e), collect' = collect,
           \A n \in Nodes : comp'[n].failed = comp[n].failed
    PROVE  HealthOK'
  <1>1. PICK n, o : n = e.node /\ o = obs[n]
    OBVIOUS
  <1>2. n \in Nodes /\ DOMAIN o = ObsFields
    BY <1>1 DEF BasicInv, TypeOK, Event, HealthOK
  <1>3. CASE UNCHANGED <<health, obs>>
    BY <1>3 DEF HealthOK
  <1>4. CASE QueuedOrNot(e) /\ ~UNCHANGED obs
    <2>1. PICK p : /\ Observe(n, p)
                   /\ \/ p = RejectedFrom(o)
                      \/ \E dropped, depth : p = AdmittedTo(o, dropped, depth)
      BY <1>1, <1>4 DEF QueuedOrNot
    <2>2. DOMAIN p = ObsFields /\ \A x \in HealthFields : p[x] = o[x]
      <3>1. CASE p = RejectedFrom(o)
        BY <1>2, <3>1 DEF RejectedFrom, HealthFields
      <3>2. ASSUME NEW dropped, NEW depth, p = AdmittedTo(o, dropped, depth)
            PROVE  DOMAIN p = ObsFields /\ \A x \in HealthFields : p[x] = o[x]
        BY <1>2, <3>2 DEF AdmittedTo, HealthFields
      <3> QED BY <2>1, <3>1, <3>2
    <2>3. health' = health
      BY <1>4 DEF QueuedOrNot
    <2>4. ObservedAt(n, p, health[n], e.at)
      BY <1>1, <1>2, <2>1, <2>2, <2>3, ObservedCalmly
    <2> QED BY <1>1, <2>4, CalmInOrder
  <1>5. CASE Tried(e) /\ ~UNCHANGED <<health, obs>>
    <2>1. PICK p, w, level :
             /\ p = [o EXCEPT !.peakActive = Larger(@, comp'[n].active)]
             /\ level = Evaluated(n, comp'[n].active, w)
             /\ health' = [health EXCEPT ![n] = level]
             /\ Observe(n, Transition(p, health[n], level, e.at))
      BY <1>1, <1>5 DEF Tried
    <2>2. DOMAIN p = ObsFields /\ \A x \in HealthFields : p[x] = o[x]
      BY <1>2, <2>1 DEF HealthFields
    <2>3. level \in Health /\ (level = "failed" <=> health[n] = "failed")
      BY <1>2, <2>1, EvaluatedHealth
    <2>4. ObservedAt(n, p, level, e.at)
      BY <1>1, <2>1, <2>2, <2>3 DEF ObservedAt, Observe
    <2> QED BY <1>1, <2>3, <2>4, CalmInOrder
  <1> QED BY <1>3, <1>4, <1>5 DEF Begun, QueuedOrNot, Tried

\* So does what its completion records.
LEMMA FinishedHealth ==
    ASSUME BasicInv, HealthOK, NEW e \in events, Finished(e), collect' = collect,
           \A n \in Nodes : comp'[n].failed = comp[n].failed
    PROVE  HealthOK'
  <1>1. PICK n, o : n = e.node /\ o = obs[n]
    OBVIOUS
  <1>2. n \in Nodes /\ DOMAIN o = ObsFields
    BY <1>1 DEF BasicInv, TypeOK, Event, HealthOK
  <1>3. PICK p, w, level :
           /\ p = [o EXCEPT !.processing = Recorded(@, Conf[n].latency)]
           /\ level = Evaluated(n, comp'[n].active, w)
           /\ health' = [health EXCEPT ![n] = level]
           /\ Observe(n, Transition(p, health[n], level, e.at))
    BY <1>1 DEF Finished
  <1>4. DOMAIN p = ObsFields /\ \A x \in HealthFields : p[x] = o[x]
    BY <1>2, <1>3 DEF HealthFields
  <1>5. level \in Health /\ (level = "failed" <=> health[n] = "failed")
    BY <1>2, <1>3, EvaluatedHealth
  <1>6. ObservedAt(n, p, level, e.at)
    BY <1>1, <1>3, <1>4, <1>5 DEF ObservedAt, Observe
  <1> QED BY <1>1, <1>5, <1>6, CalmInOrder

\* So do the records of drains and of autoscaling.
LEMMA OtherHealth ==
    ASSUME BasicInv, HealthOK, NEW e \in events, Dequeued(e) \/ Assessed(e) \/ Resized(e),
           collect' = collect, \A n \in Nodes : comp'[n].failed = comp[n].failed
    PROVE  HealthOK'
  <1>1. PICK n, o : n = e.node /\ o = obs[n]
    OBVIOUS
  <1>2. n \in Nodes /\ DOMAIN o = ObsFields /\ DOMAIN obs = Nodes
    BY <1>1 DEF BasicInv, TypeOK, Event, HealthOK
  <1>3. health' = health
    BY DEF Dequeued, Assessed, Resized
  <1>4. CASE obs' = obs
    BY <1>3, <1>4 DEF HealthOK
  <1>5. CASE obs' # obs
    <2>1. PICK p : /\ Observe(n, p)
                   /\ \/ \E k, w : p = [o EXCEPT !.dequeued = @ + k, !.wait = w]
                      \/ p = [o EXCEPT !.evaluations = @ + 1]
                      \/ \E a, b, c, d : p = [o EXCEPT !.least = a, !.most = b, !.ups = c, !.downs = d]
      <3>1. CASE Dequeued(e)
        <4>1. PICK k, w : /\ collect
                          /\ obs' = [obs EXCEPT ![n].dequeued = @ + k, ![n].wait = w]
          BY <1>1, <1>5, <3>1 DEF Dequeued
        <4>2. PICK p : p = [o EXCEPT !.dequeued = @ + k, !.wait = w]
          OBVIOUS
        <4>3. obs' = [obs EXCEPT ![n] = p]
          BY <1>1, <1>2, <4>1, <4>2
        <4>4. Observe(n, p)
          BY <4>1, <4>3 DEF Observe
        <4>5. \E j, v : p = [o EXCEPT !.dequeued = @ + j, !.wait = v]
          BY <4>2
        <4> QED BY <4>4, <4>5
      <3>2. CASE Assessed(e)
        BY <1>1, <3>2 DEF Assessed
      <3>3. CASE Resized(e)
        <4>1. PICK a, b, c, d :
                 /\ a = Smaller(o.least, e.arg) /\ b = Larger(o.most, e.arg)
                 /\ c = o.ups + (IF e.arg > comp[n].replicas THEN 1 ELSE 0)
                 /\ d = o.downs + (IF e.arg < comp[n].replicas THEN 1 ELSE 0)
          OBVIOUS
        <4>2. PICK p : p = [o EXCEPT !.least = a, !.most = b, !.ups = c, !.downs = d]
          OBVIOUS
        <4>3. Observe(n, p)
          BY <1>1, <1>5, <3>3, <4>1, <4>2 DEF Resized
        <4>4. \E i, j, u, v : p = [o EXCEPT !.least = i, !.most = j, !.ups = u, !.downs = v]
          BY <4>2
        <4> QED BY <4>3, <4>4
      <3> QED BY <3>1, <3>2, <3>3
    <2>2. DOMAIN p = ObsFields /\ \A x \in HealthFields : p[x] = o[x]
      <3>1. CASE \E k, w : p = [o EXCEPT !.dequeued = @ + k, !.wait = w]
        BY <1>2, <3>1 DEF HealthFields
      <3>2. CASE p = [o EXCEPT !.evaluations = @ + 1]
        BY <1>2, <3>2 DEF HealthFields
      <3>3. CASE \E a, b, c, d : p = [o EXCEPT !.least = a, !.most = b, !.ups = c, !.downs = d]
        BY <1>2, <3>3 DEF HealthFields
      <3> QED BY <2>1, <3>1, <3>2, <3>3
    <2>3. ObservedAt(n, p, health[n], e.at)
      BY <1>1, <1>2, <1>3, <2>1, <2>2, ObservedCalmly
    <2> QED BY <1>1, <2>3, CalmInOrder
  <1> QED BY <1>4, <1>5

\* A failure and a recovery are recorded where the engine makes them.
LEMMA FailedHealth ==
    ASSUME BasicInv, HealthOK, NEW e \in events, FailedOrRecovered(e),
           ComponentFailed(e) \/ Recovered(e), collect' = collect
    PROVE  HealthOK'
  <1>1. PICK n, level :
           /\ n = e.node
           /\ level = IF e.type = "component.failed" THEN "failed"
                      ELSE IF health[n] = "failed" THEN "healthy" ELSE health[n]
    OBVIOUS
  <1>2. n \in Nodes /\ e.at \in Int /\ DOMAIN obs[n] = ObsFields /\ health[n] \in Health
    BY <1>1 DEF BasicInv, TypeOK, Event, HealthOK
  <1>3. level \in Health
    BY <1>1, <1>2 DEF Health
  <1>4. ObservedAt(n, obs[n], level, e.at)
    BY <1>1, <1>2, <1>3 DEF FailedOrRecovered, ObservedAt, Observe
  <1>5. comp \in [Nodes -> [failed : BOOLEAN, active : Nat, replicas : Nat \ {0}, cycle : Nat]]
    BY DEF BasicInv, TypeOK
  <1>6. \A m \in Nodes : comp'[m].failed = IF m = n THEN level = "failed" ELSE comp[m].failed
    <2>1. CASE ComponentFailed(e)
      <3>1. PICK c : comp' = [comp EXCEPT ![n].failed = TRUE, ![n].cycle = c]
        BY <1>1, <1>2, <1>5, <2>1 DEF ComponentFailed
      <3>2. level = "failed"
        BY <1>1, <2>1 DEF ComponentFailed
      <3>3. \A m \in Nodes : m # n => comp'[m] = comp[m]
        BY <1>5, <3>1
      <3>4. comp'[n].failed = TRUE
        BY <1>2, <1>5, <3>1
      <3> QED BY <1>2, <3>2, <3>3, <3>4
    <2>2. CASE Recovered(e)
      <3>1. comp' = [comp EXCEPT ![n].failed = FALSE] /\ e.type = "component.recovered"
        BY <1>1, <2>2 DEF Recovered
      <3> QED BY <1>1, <1>2, <1>5, <3>1
    <2> QED BY <2>1, <2>2
  <1> QED BY <1>2, <1>4, <1>6, ObservedInOrder

\* Every step of an observed run keeps the health in order.
LEMMA HealthKept ==
    ASSUME RuntimeAssumption, BasicInv, HealthOK, NEW e \in events, Recording(e)
    PROVE  HealthOK'
  <1>1. Handle(e) /\ Records(e) /\ collect' = collect /\ TimerPart(e)
    BY DEF Recording
  <1>2. CASE e.type \in {"component.failed", "component.recovered"}
    BY <1>1, <1>2, HandlerByType, RecordByType, FailedHealth
  <1>3. CASE e.type \notin {"component.failed", "component.recovered"}
    <2>1. \A n \in Nodes : comp'[n].failed = comp[n].failed
      BY <1>1, <1>3, FailedSame
    <2>2. CASE Begun(e)
      BY <1>1, <2>1, <2>2, BegunHealth
    <2>3. CASE Finished(e)
      BY <1>1, <2>1, <2>3, FinishedHealth
    <2>4. CASE Dequeued(e) \/ Assessed(e) \/ Resized(e)
      BY <1>1, <2>1, <2>4, OtherHealth
    <2>5. CASE ~(Begun(e) \/ Finished(e) \/ Dequeued(e) \/ Assessed(e) \/ Resized(e))
      <3>1. UNCHANGED <<health, obs>>
        BY <1>1, <1>3, <2>5 DEF Records, Transmitted, Arrived, Filled, Operated, Succeeded,
           Lost, Retried, FailedOrRecovered, Ignored
      <3> QED BY <1>1, <2>1, <3>1 DEF HealthOK
    <2> QED BY <2>2, <2>3, <2>4, <2>5
  <1> QED BY <1>2, <1>3

\* The health in order, of a run that has not failed.
HealthInv == status # "failed" => HealthOK

\* The health is in order when a run has been prepared.
LEMMA HealthFirst ==
    ASSUME MetricsInit
    PROVE  HealthOK
  <1>1. /\ Init /\ health = FirstHealth
        /\ obs = [n \in Nodes |-> Unobserved(n)]
        /\ \A n \in Nodes : comp[n].failed = FALSE
    BY DEF MetricsInit, Init
  <1>2. /\ FirstHealth \in [Nodes -> Health]
        /\ \A n \in Nodes : FirstHealth[n] # "failed"
    BY MetricsAssumption DEF Health
  <1>3. ASSUME NEW n \in Nodes, NEW o, o = Unobserved(n)
        PROVE  DOMAIN o = ObsFields /\ Balanced(o, health[n])
    <2>1. PICK z : z = [h \in Health |-> 0]
      OBVIOUS
    <2>2. z \in [Health -> Int] /\ Sum(z, Health) = 0
      <3>1. \A h \in Health : z[h] = 0
        BY <2>1
      <3> QED BY <2>1, <3>1, FiniteHealth, SumOfZeros
    <2>3. /\ DOMAIN o = ObsFields
          /\ o.inState = z /\ o.since = 0 /\ o.failures = 0 /\ o.recoveries = 0
      BY <1>3, <2>1 DEF Unobserved, ObsFields, HealthFields
    <2> QED BY <1>1, <1>2, <2>2, <2>3 DEF Balanced
  <1> QED BY <1>1, <1>2, <1>3 DEF HealthOK

\* The time spent in the four states of health is the time simulated, a component
\* is reported failed exactly while the engine treats it as failed, and it has
\* failed once more than it has recovered exactly then, whatever is going on at it
\* when it fails, recovers, starts or completes.
THEOREM HealthIsAlwaysAccounted == MetricsSpec => []HealthAccounted
  <1> DEFINE Inv == Base /\ HealthInv
  <1>1. MetricsInit => Inv
    <2> SUFFICES ASSUME MetricsInit PROVE Inv
      OBVIOUS
    <2>1. Base
      BY BaseHoldsFirst, RuntimeAssumption DEF MetricsInit
    <2> QED BY <2>1, HealthFirst DEF HealthInv
  <1>2. Inv /\ [MetricsNext]_<<vars, telemetry>> => Inv'
    <2> SUFFICES ASSUME Inv, [MetricsNext]_<<vars, telemetry>> PROVE Inv'
      OBVIOUS
    <2>1. /\ [Next]_vars
          /\ \/ UNCHANGED <<vars, telemetry>>
             \/ status' = "failed" /\ UNCHANGED <<model, telemetry>>
             \/ /\ status = "running" /\ status' # "failed"
                /\ \E e \in events : Recording(e)
      BY RecordingStep, RuntimeAssumption
    <2>2. Base'
      BY <2>1, BaseKept, RuntimeAssumption
    <2>3. CASE UNCHANGED <<vars, telemetry>>
      BY <2>2, <2>3 DEF vars, model, telemetry, HealthInv, HealthOK
    <2>4. CASE status' = "failed"
      BY <2>2, <2>4 DEF HealthInv
    <2>5. CASE status = "running" /\ \E e \in events : Recording(e)
      BY <2>2, <2>5, HealthKept, RuntimeAssumption DEF Base, HealthInv
    <2> QED BY <2>1, <2>3, <2>4, <2>5
  <1>3. Inv => HealthAccounted
    <2> SUFFICES ASSUME Inv, status # "failed", collect, NEW n \in Nodes,
                        NEW h, h = BuildEnabled.components[n].health
                 PROVE  /\ Total(h.time) = now
                        /\ h.state = "failed" <=> comp[n].failed
                        /\ h.failures - h.recoveries = IF h.state = "failed" THEN 1 ELSE 0
      BY DEF HealthAccounted, Reports, Report
    <2>1. /\ h.state = health[n] /\ h.failures = obs[n].failures
          /\ h.recoveries = obs[n].recoveries /\ h.time = TimeInState(n)
      BY DEF BuildEnabled, ComponentReport
    <2>2. /\ health[n] \in Health /\ (health[n] = "failed" <=> comp[n].failed)
          /\ Balanced(obs[n], health[n]) /\ now \in Int
      BY DEF HealthInv, HealthOK, Base, BasicInv, TypeOK
    <2>3. Total(h.time) = now
      <3>1. PICK f, d, g : /\ f = obs[n].inState /\ d = now - obs[n].since
                           /\ g = [f EXCEPT ![health[n]] = @ + d]
        OBVIOUS
      <3>2. f \in [Health -> Int] /\ d \in Int /\ Sum(f, Health) = obs[n].since /\ obs[n].since \in Int
        BY <2>2, <3>1 DEF Balanced
      <3>3. g \in [Health -> Int] /\ Sum(g, Health) = Sum(f, Health) + d
        BY <2>2, <3>1, <3>2, TimeAdds
      <3>4. h.time = g
        BY <2>1, <2>2, <3>1, <3>2 DEF TimeInState
      <3>5. Total(g) = Sum(g, Health)
        BY <3>3 DEF Total, Sum, SumFunction
      <3>6. Sum(g, Health) = now
        BY <2>2, <3>1, <3>2, <3>3
      <3> QED BY <3>4, <3>5, <3>6
    <2> QED BY <2>1, <2>2, <2>3 DEF Balanced
  <1> QED BY <1>1, <1>2, <1>3, PTL DEF MetricsSpec

-----------------------------------------------------------------------------
(* What of the metrics each record is about.                                  *)

\* The metrics of a component that the record of an event may change.
Touched(e) ==
    CASE e.type = "request.processing_started" /\ HasCapacity(e.node) ->
           {"peakActive"} \cup HealthFields
      [] e.type = "request.processing_started" /\ ~HasCapacity(e.node) ->
           {"peakQueue", "enqueued", "dropped", "rejected"}
      [] e.type = "request.processing_completed" -> {"processing"} \cup HealthFields
      [] e.type = "queue.drain" -> {"dequeued", "wait"}
      [] e.type \in {"component.failed", "component.recovered"} -> HealthFields
      [] e.type = "autoscaling.evaluate" -> {"evaluations"}
      [] e.type = "component.scaled" -> {"least", "most", "ups", "downs"}
      [] OTHER -> {}

\* One component's metrics p, of which only some fields may be new.
OnlyIn(p, o, fields) == \A x \in ObsFields : x \notin fields => p[x] = o[x]

\* A transition changes what is about the health.
LEMMA TransitionTouches ==
    ASSUME NEW o, NEW p, DOMAIN p = ObsFields, NEW fields, OnlyIn(p, o, fields),
           NEW from, NEW to, NEW t
    PROVE  OnlyIn(Transition(p, from, to, t), o, fields \cup HealthFields)
  <1>1. PICK q : q = Transition(p, from, to, t)
    OBVIOUS
  <1>2. \A x \in ObsFields : x \notin HealthFields => q[x] = p[x]
    BY <1>1 DEF Transition, HealthFields
  <1> QED BY <1>1, <1>2 DEF OnlyIn

\* Only the component of e is observed, and only in the fields its record is
\* about.
LEMMA OneObserved ==
    ASSUME HealthOK, NEW e, e.node \in Nodes, NEW p, Observe(e.node, p),
           NEW fields, OnlyIn(p, obs[e.node], fields)
    PROVE  \A n \in Nodes : OnlyIn(obs'[n], obs[n], fields)
  BY DEF HealthOK, Observe, OnlyIn

\* What the record of an event may change of the components.
LEMMA RecordTouches ==
    ASSUME BasicInv, HealthOK, NEW e \in events, Records(e)
    PROVE  \A n \in Nodes : OnlyIn(obs'[n], obs[n], Touched(e))
  <1>1. PICK m, o : m = e.node /\ o = obs[m]
    OBVIOUS
  <1>2. m \in Nodes /\ DOMAIN o = ObsFields /\ DOMAIN obs = Nodes
    BY <1>1 DEF BasicInv, TypeOK, Event, HealthOK
  <1>3. CASE UNCHANGED obs
    BY <1>3 DEF OnlyIn
  <1>4. CASE Begun(e)
    <2>1. e.type = "request.processing_started"
      BY <1>4 DEF Begun
    <2>2. CASE QueuedOrNot(e) /\ ~HasCapacity(e.node)
      <3>1. CASE Observe(m, RejectedFrom(o))
        <4>1. OnlyIn(RejectedFrom(o), o, Touched(e))
          BY <1>2, <2>1, <2>2 DEF Touched, OnlyIn, RejectedFrom
        <4> QED BY <1>1, <1>2, <3>1, <4>1, OneObserved
      <3>2. ASSUME NEW dropped, NEW depth, Observe(m, AdmittedTo(o, dropped, depth))
            PROVE  \A n \in Nodes : OnlyIn(obs'[n], obs[n], Touched(e))
        <4>1. OnlyIn(AdmittedTo(o, dropped, depth), o, Touched(e))
          BY <1>2, <2>1, <2>2 DEF Touched, OnlyIn, AdmittedTo
        <4> QED BY <1>1, <1>2, <3>2, <4>1, OneObserved
      <3> QED BY <1>1, <2>2, <3>1, <3>2 DEF QueuedOrNot
    <2>3. CASE Tried(e) /\ HasCapacity(e.node) /\ ~UNCHANGED obs
      <3>1. PICK p, level, k : /\ p = [o EXCEPT !.peakActive = k]
                               /\ Observe(m, Transition(p, health[m], level, e.at))
        <4>1. PICK p, level, k : /\ k = Larger(o.peakActive, comp'[m].active)
                                 /\ p = [o EXCEPT !.peakActive = Larger(@, comp'[m].active)]
                                 /\ Observe(m, Transition(p, health[m], level, e.at))
          BY <1>1, <2>3 DEF Tried
        <4>2. p = [o EXCEPT !.peakActive = k]
          BY <4>1
        <4> QED BY <4>1, <4>2
      <3>2. DOMAIN p = ObsFields /\ OnlyIn(p, o, {"peakActive"})
        BY <1>2, <3>1 DEF OnlyIn
      <3>3. OnlyIn(Transition(p, health[m], level, e.at), o, Touched(e))
        <4>1. Touched(e) = {"peakActive"} \cup HealthFields
          BY <2>1, <2>3 DEF Touched
        <4> QED BY <3>2, <4>1, TransitionTouches
      <3> QED BY <1>1, <1>2, <3>1, <3>3, OneObserved
    <2> QED BY <1>3, <1>4, <2>2, <2>3 DEF Begun
  <1>5. CASE Finished(e)
    <2>1. Touched(e) = {"processing"} \cup HealthFields
      BY <1>5 DEF Finished, Touched
    <2>2. PICK p, level, h : /\ p = [o EXCEPT !.processing = h]
                             /\ Observe(m, Transition(p, health[m], level, e.at))
      <3>1. PICK p, level, h : /\ h = Recorded(o.processing, Conf[m].latency)
                               /\ p = [o EXCEPT !.processing = Recorded(@, Conf[m].latency)]
                               /\ Observe(m, Transition(p, health[m], level, e.at))
        BY <1>1, <1>5 DEF Finished
      <3>2. p = [o EXCEPT !.processing = h]
        BY <3>1
      <3> QED BY <3>1, <3>2
    <2>3. DOMAIN p = ObsFields /\ OnlyIn(p, o, {"processing"})
      BY <1>2, <2>2 DEF OnlyIn
    <2>4. OnlyIn(Transition(p, health[m], level, e.at), o, Touched(e))
      BY <2>1, <2>3, TransitionTouches
    <2> QED BY <1>1, <1>2, <2>2, <2>4, OneObserved
  <1>6. CASE Dequeued(e) /\ ~UNCHANGED obs
    <2>1. Touched(e) = {"dequeued", "wait"}
      BY <1>6 DEF Dequeued, Touched
    <2>2. PICK k, w : obs' = [obs EXCEPT ![m].dequeued = @ + k, ![m].wait = w]
      BY <1>1, <1>6 DEF Dequeued
    <2> QED BY <1>2, <2>1, <2>2 DEF OnlyIn, HealthOK
  <1>7. CASE FailedOrRecovered(e)
    <2>1. Touched(e) = {} \cup HealthFields
      BY <1>7 DEF FailedOrRecovered, Touched
    <2>2. PICK level : Observe(m, Transition(o, health[m], level, e.at))
      BY <1>1, <1>7 DEF FailedOrRecovered
    <2>3. OnlyIn(o, o, {})
      BY DEF OnlyIn
    <2>4. OnlyIn(Transition(o, health[m], level, e.at), o, Touched(e))
      BY <1>2, <2>1, <2>3, TransitionTouches
    <2> QED BY <1>1, <1>2, <2>2, <2>4, OneObserved
  <1>8. CASE Assessed(e)
    <2>1. Touched(e) = {"evaluations"}
      BY <1>8 DEF Assessed, Touched
    <2>2. PICK p : p = [o EXCEPT !.evaluations = @ + 1] /\ Observe(m, p)
      BY <1>1, <1>8 DEF Assessed
    <2>3. OnlyIn(p, o, Touched(e))
      BY <1>2, <2>1, <2>2 DEF OnlyIn
    <2> QED BY <1>1, <1>2, <2>2, <2>3, OneObserved
  <1>9. CASE Resized(e) /\ ~UNCHANGED obs
    <2>1. Touched(e) = {"least", "most", "ups", "downs"}
      BY <1>9 DEF Resized, Touched
    <2>2. PICK a, b, c, d :
             Observe(m, [o EXCEPT !.least = a, !.most = b, !.ups = c, !.downs = d])
      <3>1. PICK a, b, c, d :
               /\ a = Smaller(o.least, e.arg) /\ b = Larger(o.most, e.arg)
               /\ c = o.ups + (IF e.arg > comp[m].replicas THEN 1 ELSE 0)
               /\ d = o.downs + (IF e.arg < comp[m].replicas THEN 1 ELSE 0)
        OBVIOUS
      <3>2. Observe(m, [o EXCEPT !.least = a, !.most = b, !.ups = c, !.downs = d])
        BY <1>1, <1>9, <3>1 DEF Resized
      <3> QED BY <3>2
    <2>3. PICK p : p = [o EXCEPT !.least = a, !.most = b, !.ups = c, !.downs = d]
      OBVIOUS
    <2>4. OnlyIn(p, o, Touched(e))
      BY <1>2, <2>1, <2>3 DEF OnlyIn
    <2> QED BY <1>1, <1>2, <2>2, <2>3, <2>4, OneObserved
  <1> QED BY <1>3, <1>4, <1>5, <1>6, <1>7, <1>8, <1>9 DEF Records, Transmitted, Arrived,
          Filled, Operated, Succeeded, Lost, Retried, Ignored

\* The start of a request is refused, finds no slot, or is an attempt; and its
\* record is the one for that.
LEMMA StartCases ==
    ASSUME NEW e, ProcessingStarted(e), ~Throw(e), Begun(e)
    PROVE  \/ UNCHANGED <<req, comp, queue, work, obs, store, stamp>>
           \/ /\ ~HasCapacity(e.node) /\ QueuedOrNot(e) /\ UNCHANGED comp
              /\ TurnedAway(e) \/ Displaces(e) \/ Waits(e)
           \/ HasCapacity(e.node) /\ Tried(e) /\ Attempt(e) /\ UNCHANGED queue
  <1>1. CASE Refused(e)
    <2>1. UNCHANGED model /\ ~Admits(circuit[e.node], e.req)
      BY <1>1 DEF Refused
    <2> QED BY <2>1 DEF Begun, model
  <1>2. CASE comp[e.node].failed /\ UNCHANGED <<req, comp, queue, position, cached>>
    BY <1>2 DEF Begun
  <1>3. CASE /\ ~comp[e.node].failed /\ ~HasCapacity(e.node)
             /\ TurnedAway(e) \/ Displaces(e) \/ Waits(e)
             /\ UNCHANGED <<comp, position, cached>>
    <2>1. Admits(circuit[e.node], e.req)
      BY <1>3 DEF TurnedAway, Displaces, Waits, AdmittedThenFreed, Admitted
    <2> QED BY <1>3, <2>1 DEF Begun
  <1>4. CASE /\ ~comp[e.node].failed /\ HasCapacity(e.node) /\ Admits(circuit[e.node], e.req)
             /\ Attempt(e) /\ UNCHANGED <<queue, position, cached>>
    BY <1>4 DEF Begun
  <1> QED BY <1>1, <1>2, <1>3, <1>4 DEF ProcessingStarted

\* Only a transmission and a start count an attempt of a request.
LEMMA AttemptsStay ==
    ASSUME BasicInv, NEW e \in events, Handle(e), ~Throw(e),
           e.type \notin {"network.transmission_started", "request.processing_started"}
    PROVE  \A r \in Requests : req'[r].attempts = req[r].attempts
  <1>1. req \in ReqType
    BY DEF BasicInv, TypeOK, ReqType
  <1>2. CASE req' = req
    BY <1>2
  <1>3. CASE \E r, s : Becomes(r, s)
    BY <1>1, <1>3 DEF Becomes, ReqType
  <1>4. CASE CacheMiss(e)
    BY <1>1, <1>4 DEF CacheMiss, ReqType
  <1>5. CASE Created(e) \/ Reroute(e) \/ DatabaseResponse(e)
    BY <1>2, <1>5 DEF Created, Reroute, DatabaseResponse, JustRoutes, Rest
  <1>6. CASE Routed(e)
    BY <1>2, <1>3, <1>6 DEF Routed, Refused, model
  <1>7. CASE CacheHit(e) \/ CacheSet(e) \/ DatabaseRequest(e) \/ QueueDrain(e) \/ Retry(e)
    BY <1>2, <1>7 DEF CacheHit, CacheSet, DatabaseRequest, QueueDrain, Retry, model
  <1>8. CASE ProcessingCompleted(e)
    BY <1>2, <1>8 DEF ProcessingCompleted
  <1>9. CASE Completed(e) \/ RequestFailed(e)
    BY <1>3, <1>9 DEF Completed, RequestFailed
  <1>10. CASE ComponentFailed(e) \/ Recovery(e) \/ Recovered(e) \/ HalfOpen(e)
              \/ Evaluate(e) \/ Scaled(e)
    BY <1>2, <1>10 DEF ComponentFailed, Recovery, Recovered, HalfOpen, Evaluate, Scaled, model
  <1>11. ~Transmission(e) /\ ~ProcessingStarted(e)
    BY DEF Transmission, ProcessingStarted
  <1> QED BY <1>4, <1>5, <1>6, <1>7, <1>8, <1>9, <1>10, <1>11 DEF Handle

-----------------------------------------------------------------------------
(* Attempts and transmissions.                                                *)

\* What is counted of no single component.
StoreFields ==
    {"byReason", "byNode", "retries", "transmissions", "losses", "network", "operations"}

WorkRecord == [attempts : Nat, failed : Nat, processed : Nat, latency : Nat]

\* The attempts counted at the requests, and at the components.
Made == [r \in Requests |-> req[r].attempts]

Counted == [n \in Nodes |-> work[n].attempts]

\* The work of a component: every attempt failed, was processed or occupies a
\* slot.
WorkAddsUp(w, active) == w \in WorkRecord /\ w.attempts = w.failed + w.processed + active

\* What is counted of attempts and transmissions agrees.
AttemptsOK ==
    /\ DOMAIN work = Nodes
    /\ \A n \in Nodes : WorkAddsUp(work[n], comp[n].active)
    /\ DOMAIN store = StoreFields
    /\ collect =>
         /\ \A n \in Nodes : obs[n].peakActive \in Nat /\ comp[n].active <= obs[n].peakActive
         /\ store.losses \in Int /\ store.transmissions \in Int /\ store.network.count \in Int
         /\ store.transmissions = store.losses + store.network.count
         /\ Sum(Made, Requests) = store.losses + Sum(Counted, Nodes)

\* There are finitely many requests.
LEMMA FiniteRequests ==
    ASSUME RuntimeAssumption
    PROVE  IsFiniteSet(Requests)
  <1>1. Len(Arrivals) \in Int /\ Requests = 1 .. Len(Arrivals)
    BY DEF RuntimeAssumption
  <1> QED BY <1>1, FS_Interval

\* Counting one more at one place.
LEMMA OneMore ==
    ASSUME NEW S, IsFiniteSet(S), NEW n \in S, NEW f, NEW g, \A x \in S : f[x] \in Int,
           g[n] = f[n] + 1, \A x \in S : x # n => g[x] = f[x]
    PROVE  Sum(f, S) \in Int /\ Sum(g, S) = Sum(f, S) + 1
  <1>1. \A x \in S : g[x] \in Int
    OBVIOUS
  <1>2. Sum(f, S) \in Int /\ Sum(g, S) = Sum(f, S) - f[n] + g[n]
    BY <1>1, SumChanges
  <1> QED BY <1>2

\* One more attempt of a request.
LEMMA OneMoreMade ==
    ASSUME IsFiniteSet(Requests), BasicInv, NEW r \in Requests,
           req'[r].attempts = req[r].attempts + 1,
           \A s \in Requests : s # r => req'[s].attempts = req[s].attempts
    PROVE  Sum(Made, Requests) \in Int /\ Sum(Made', Requests) = Sum(Made, Requests) + 1
  <1>1. PICK f, g : f = Made /\ g = Made'
    OBVIOUS
  <1>2. /\ \A s \in Requests : f[s] = req[s].attempts
        /\ \A s \in Requests : g[s] = req'[s].attempts
    BY <1>1 DEF Made
  <1>3. \A s \in Requests : req[s].attempts \in Nat
    BY DEF BasicInv, TypeOK
  <1>4. /\ \A s \in Requests : f[s] \in Int
        /\ g[r] = f[r] + 1 /\ \A s \in Requests : s # r => g[s] = f[s]
    BY <1>2, <1>3
  <1>5. Sum(f, Requests) \in Int /\ Sum(g, Requests) = Sum(f, Requests) + 1
    BY <1>4, OneMore
  <1> QED BY <1>1, <1>5

\* One more attempt at a component.
LEMMA OneMoreCounted ==
    ASSUME IsFiniteSet(Nodes), AttemptsOK, NEW n \in Nodes,
           work'[n].attempts = work[n].attempts + 1,
           \A m \in Nodes : m # n => work'[m].attempts = work[m].attempts
    PROVE  Sum(Counted, Nodes) \in Int /\ Sum(Counted', Nodes) = Sum(Counted, Nodes) + 1
  <1>1. PICK f, g : f = Counted /\ g = Counted'
    OBVIOUS
  <1>2. /\ \A m \in Nodes : f[m] = work[m].attempts
        /\ \A m \in Nodes : g[m] = work'[m].attempts
    BY <1>1 DEF Counted
  <1>3. \A m \in Nodes : work[m].attempts \in Nat
    BY DEF AttemptsOK, WorkAddsUp, WorkRecord
  <1>4. /\ \A m \in Nodes : f[m] \in Int
        /\ g[n] = f[n] + 1 /\ \A m \in Nodes : m # n => g[m] = f[m]
    BY <1>2, <1>3
  <1>5. Sum(f, Nodes) \in Int /\ Sum(g, Nodes) = Sum(f, Nodes) + 1
    BY <1>4, OneMore
  <1> QED BY <1>1, <1>5

\* The sum of the attempts at the components is a number.
LEMMA CountedNumber ==
    ASSUME IsFiniteSet(Nodes), AttemptsOK
    PROVE  Sum(Counted, Nodes) \in Int
  <1>1. PICK f : f = Counted
    OBVIOUS
  <1>2. \A m \in Nodes : f[m] \in Int
    BY <1>1 DEF Counted, AttemptsOK, WorkAddsUp, WorkRecord
  <1> QED BY <1>1, <1>2, SumWithout

\* Where no attempt is counted the sums stay.
LEMMA NothingCounted ==
    ASSUME \A r \in Requests : req'[r].attempts = req[r].attempts,
           \A n \in Nodes : work'[n].attempts = work[n].attempts
    PROVE  Sum(Made', Requests) = Sum(Made, Requests) /\ Sum(Counted', Nodes) = Sum(Counted, Nodes)
  <1>1. Made' = Made /\ Counted' = Counted
    BY DEF Made, Counted
  <1> QED BY <1>1

\* The attempts as the rest of the report counts them, one sample at a time.
LEMMA RecordedOnce ==
    ASSUME NEW h, NEW v
    PROVE  Recorded(h, v).count = h.count + 1
  BY DEF Recorded

\* A transmission is lost, and an attempt of its request, or a sample.
LEMMA TransmissionCounted ==
    ASSUME IsFiniteSet(Requests), IsFiniteSet(Nodes), BasicInv, AttemptsOK,
           NEW e \in events, Transmission(e), Transmitted(e), collect' = collect
    PROVE  AttemptsOK'
  <1>1. e.req \in Requests
    BY DEF Transmission, BasicInv, Sound, RequestEvent
  <1>2. PICK v : v = Edges[e.node][e.arg].latency + Edges[e.node][e.arg].transfer
    OBVIOUS
  <1>3. work' = work /\ obs' = obs /\ comp' = comp
    BY DEF Transmission, Transmitted, model
  <1>4. CASE ~collect
    <2>1. store' = store
      BY <1>4 DEF Transmitted, Keep
    <2> QED BY <1>3, <1>4, <2>1 DEF AttemptsOK
  <1>5. CASE collect /\ req' = req
    <2>1. store' = [store EXCEPT !.transmissions = @ + 1, !.network = Recorded(@, v)]
      BY <1>2, <1>5 DEF Transmitted, Keep
    <2>2. /\ DOMAIN store' = StoreFields /\ store'.losses = store.losses
          /\ store'.transmissions = store.transmissions + 1
          /\ store'.network = Recorded(store.network, v)
      BY <2>1 DEF AttemptsOK, StoreFields
    <2>3. store'.network.count = store.network.count + 1
      BY <2>2, RecordedOnce
    <2>4. Sum(Made', Requests) = Sum(Made, Requests) /\ Sum(Counted', Nodes) = Sum(Counted, Nodes)
      BY <1>3, <1>5, NothingCounted
    <2> QED BY <1>3, <1>5, <2>2, <2>3, <2>4 DEF AttemptsOK
  <1>6. CASE collect /\ req' = [req EXCEPT ![e.req].attempts = req[e.req].attempts + 1]
    <2>1. /\ req'[e.req].attempts = req[e.req].attempts + 1
          /\ req[e.req].attempts \in Nat
          /\ \A s \in Requests : s # e.req => req'[s].attempts = req[s].attempts
      BY <1>1, <1>6 DEF BasicInv, TypeOK
    <2>2. store' = [store EXCEPT !.transmissions = @ + 1, !.losses = @ + 1]
      BY <1>6, <2>1 DEF Transmitted, Keep
    <2>3. /\ DOMAIN store' = StoreFields /\ store'.losses = store.losses + 1
          /\ store'.transmissions = store.transmissions + 1
          /\ store'.network = store.network
      BY <2>2 DEF AttemptsOK, StoreFields
    <2>4. Sum(Made, Requests) \in Int /\ Sum(Made', Requests) = Sum(Made, Requests) + 1
      BY <1>1, <2>1, OneMoreMade
    <2>5. Sum(Counted', Nodes) = Sum(Counted, Nodes) /\ Sum(Counted, Nodes) \in Int
      <3>1. Counted' = Counted
        BY <1>3 DEF Counted
      <3> QED BY <3>1, CountedNumber
    <2>6. Sum(Made', Requests) = store'.losses + Sum(Counted', Nodes)
      BY <1>6, <2>3, <2>4, <2>5 DEF AttemptsOK
    <2> QED BY <1>3, <1>6, <2>3, <2>6 DEF AttemptsOK
  <1> QED BY <1>4, <1>5, <1>6 DEF Transmission, model

\* An attempt at processing fails or occupies a slot.
LEMMA TryCounted ==
    ASSUME IsFiniteSet(Requests), IsFiniteSet(Nodes), BasicInv, HealthOK, HealthOK', AttemptsOK,
           NEW e \in events, e.req \in Requests, Attempt(e), Tried(e), collect' = collect
    PROVE  AttemptsOK'
  <1>1. PICK n, w : n = e.node /\ w = work[n]
    OBVIOUS
  <1>2. n \in Nodes /\ w \in WorkRecord /\ w.attempts = w.failed + w.processed + comp[n].active
        /\ comp[n].active \in Nat
    BY <1>1 DEF BasicInv, TypeOK, Event, AttemptsOK, WorkAddsUp
  <1>3. /\ store' = store
        /\ \A m \in Nodes : m # n => comp'[m] = comp[m] /\ work'[m] = work[m]
    BY <1>1 DEF Tried, Attempt, AttemptsOK, BasicInv, TypeOK
  <1>4. /\ req'[e.req].attempts = req[e.req].attempts + 1
        /\ \A s \in Requests : s # e.req => req'[s].attempts = req[s].attempts
    BY DEF Attempt, BasicInv, TypeOK
  <1>5. /\ work'[n].attempts = w.attempts + 1
        /\ WorkAddsUp(work'[n], comp'[n].active)
        /\ DOMAIN work' = Nodes
        /\ comp'[n].active \in {comp[n].active, comp[n].active + 1}
    <2>1. CASE comp' = comp
      <3>1. work' = [work EXCEPT ![n] = [w EXCEPT !.attempts = @ + 1, !.failed = @ + 1]]
        BY <1>1, <2>1 DEF Tried
      <3>2. PICK v, a, b : /\ a = w.attempts + 1 /\ b = w.failed + 1
                           /\ v = [w EXCEPT !.attempts = a, !.failed = b]
        OBVIOUS
      <3>3. /\ v \in WorkRecord /\ v.attempts = w.attempts + 1 /\ v.failed = w.failed + 1
            /\ v.processed = w.processed
        <4>1. a \in Nat /\ b \in Nat
          BY <1>2, <3>2 DEF WorkRecord
        <4> QED BY <1>2, <3>2, <4>1 DEF WorkRecord
      <3>4. work'[n] = v /\ DOMAIN work' = Nodes
        BY <1>2, <3>1, <3>2 DEF AttemptsOK
      <3>5. v.attempts = v.failed + v.processed + comp[n].active
        BY <1>2, <3>3 DEF WorkRecord
      <3> QED BY <2>1, <3>3, <3>4, <3>5 DEF WorkAddsUp
    <2>2. CASE comp' = [comp EXCEPT ![n].active = @ + 1]
      <3>1. comp'[n].active = comp[n].active + 1 /\ comp'[n].active # comp[n].active
        BY <1>2, <2>2 DEF BasicInv, TypeOK
      <3>2. work' = [work EXCEPT ![n] = [w EXCEPT !.attempts = @ + 1]]
        BY <1>1, <3>1 DEF Tried
      <3>3. PICK v : v = [w EXCEPT !.attempts = @ + 1]
        OBVIOUS
      <3>4. /\ v \in WorkRecord /\ v.attempts = w.attempts + 1 /\ v.failed = w.failed
            /\ v.processed = w.processed
        BY <1>2, <3>3 DEF WorkRecord
      <3>5. work'[n] = v /\ DOMAIN work' = Nodes
        BY <1>2, <3>2, <3>3 DEF AttemptsOK
      <3>6. v.attempts = v.failed + v.processed + comp'[n].active
        BY <1>2, <3>1, <3>4 DEF WorkRecord
      <3> QED BY <3>1, <3>4, <3>5, <3>6 DEF WorkAddsUp
    <2> QED BY <1>1, <2>1, <2>2 DEF Attempt
  <1>6. ASSUME collect
        PROVE  /\ Sum(Made', Requests) = store.losses + Sum(Counted', Nodes)
               /\ \A m \in Nodes : obs'[m].peakActive \in Nat /\ comp'[m].active <= obs'[m].peakActive
    <2>1. Sum(Made, Requests) \in Int /\ Sum(Made', Requests) = Sum(Made, Requests) + 1
      BY <1>4, OneMoreMade
    <2>2. Sum(Counted, Nodes) \in Int /\ Sum(Counted', Nodes) = Sum(Counted, Nodes) + 1
      <3>1. \A m \in Nodes : m # n => work'[m].attempts = work[m].attempts
        BY <1>3
      <3> QED BY <1>1, <1>2, <1>5, <3>1, OneMoreCounted
    <2>3. Sum(Made', Requests) = store.losses + Sum(Counted', Nodes)
      BY <1>6, <2>1, <2>2 DEF AttemptsOK
    <2>4. obs[n].peakActive \in Nat /\ comp[n].active <= obs[n].peakActive
      BY <1>2, <1>6 DEF AttemptsOK
    <2>5. CASE comp'[n].active = comp[n].active
      <3>1. obs' = obs
        BY <1>1, <2>5 DEF Tried
      <3> QED BY <1>3, <1>6, <2>3, <2>4, <2>5, <3>1 DEF AttemptsOK
    <2>6. CASE comp'[n].active # comp[n].active
      <3>1. PICK a, b, p, level :
               /\ a = obs[n].peakActive /\ b = comp'[n].active
               /\ p = [obs[n] EXCEPT !.peakActive = Larger(a, b)]
               /\ Observe(n, Transition(p, health[n], level, e.at))
        BY <1>1, <2>6 DEF Tried
      <3>2. DOMAIN p = ObsFields /\ p.peakActive = Larger(a, b)
        BY <1>2, <3>1 DEF HealthOK, ObsFields
      <3>3. Transition(p, health[n], level, e.at).peakActive = p.peakActive
        BY <3>2, <2>6 DEF Transition
      <3>4. /\ obs'[n].peakActive = Larger(a, b)
            /\ \A m \in Nodes : m # n => obs'[m] = obs[m]
        BY <1>2, <1>6, <3>1, <3>2, <3>3 DEF Observe, HealthOK
      <3>5. Larger(a, b) \in Nat /\ b <= Larger(a, b)
        BY <1>2, <1>5, <2>4, <3>1 DEF Larger
      <3> QED BY <1>3, <1>6, <2>3, <3>1, <3>4, <3>5 DEF AttemptsOK
    <2> QED BY <2>5, <2>6
  <1> QED BY <1>1, <1>2, <1>3, <1>5, <1>6 DEF AttemptsOK

\* A completion frees the slot of an attempt that was processed.
LEMMA CompletionCounted ==
    ASSUME BasicInv, HealthOK, AttemptsOK, NEW e \in events, Handle(e), ~Throw(e), Records(e),
           Finished(e), WorkDone(e), collect' = collect
    PROVE  AttemptsOK'
  <1>1. PICK n, w, d : n = e.node /\ w = work[n] /\ d = Conf[n].latency
    OBVIOUS
  <1>2. n \in Nodes /\ w \in WorkRecord /\ w.attempts = w.failed + w.processed + comp[n].active
        /\ comp[n].active \in Nat
    BY <1>1 DEF BasicInv, TypeOK, Event, AttemptsOK, WorkAddsUp
  <1>3. /\ work' = [work EXCEPT ![n] = [w EXCEPT !.processed = @ + 1, !.latency = @ + d]]
        /\ comp' = [comp EXCEPT ![n].active = @ - 1] /\ comp[n].active # 0
        /\ store' = store
    BY <1>1 DEF Finished, WorkDone
  <1>4. comp'[n].active = comp[n].active - 1 /\ \A m \in Nodes : m # n => comp'[m] = comp[m]
    BY <1>2, <1>3 DEF BasicInv, TypeOK
  <1>5. PICK v, p, t : p = w.processed + 1 /\ t = w.latency + d /\ v = [w EXCEPT !.processed = p, !.latency = t]
    OBVIOUS
  <1>6. /\ work'[n] = v /\ DOMAIN work' = Nodes
        /\ \A m \in Nodes : m # n => work'[m] = work[m]
    BY <1>2, <1>3, <1>5 DEF AttemptsOK
  <1>7. v.attempts = w.attempts /\ v.failed = w.failed /\ v.processed = w.processed + 1
    BY <1>2, <1>5 DEF WorkRecord
  <1>8. v \in WorkRecord
    <2>1. d \in Nat
      BY <1>1, <1>2, RuntimeAssumption DEF RuntimeAssumption, Config
    <2>2. p \in Nat /\ t \in Nat
      BY <1>2, <1>5, <2>1 DEF WorkRecord
    <2> QED BY <1>2, <1>5, <2>2 DEF WorkRecord
  <1>9. \A m \in Nodes : WorkAddsUp(work'[m], comp'[m].active)
    <2>1. v.attempts = v.failed + v.processed + comp'[n].active
      BY <1>2, <1>4, <1>7 DEF WorkRecord
    <2>2. WorkAddsUp(work'[n], comp'[n].active)
      BY <1>6, <1>8, <2>1 DEF WorkAddsUp
    <2> QED BY <1>4, <1>6, <2>2 DEF AttemptsOK
  <1>10. Sum(Made', Requests) = Sum(Made, Requests) /\ Sum(Counted', Nodes) = Sum(Counted, Nodes)
    <2>1. \A r \in Requests : req'[r].attempts = req[r].attempts
      BY AttemptsStay DEF Finished
    <2>2. \A m \in Nodes : work'[m].attempts = work[m].attempts
      BY <1>1, <1>6, <1>7
    <2> QED BY <2>1, <2>2, NothingCounted
  <1>11. \A m \in Nodes : obs'[m].peakActive = obs[m].peakActive
    <2>1. "peakActive" \in ObsFields /\ "peakActive" \notin Touched(e)
      BY DEF ObsFields, HealthFields, Touched, Finished
    <2> QED BY <2>1, RecordTouches DEF OnlyIn
  <1>12. ASSUME collect, NEW m \in Nodes
         PROVE  obs'[m].peakActive \in Nat /\ comp'[m].active <= obs'[m].peakActive
    <2>1. /\ obs[m].peakActive \in Nat /\ comp[m].active <= obs[m].peakActive
          /\ comp[m].active \in Nat
      BY <1>12 DEF AttemptsOK, BasicInv, TypeOK
    <2>2. comp'[m].active = comp[m].active - 1 \/ comp'[m].active = comp[m].active
      BY <1>4
    <2> QED BY <1>11, <2>1, <2>2
  <1> QED BY <1>3, <1>6, <1>9, <1>10, <1>12 DEF AttemptsOK

\* No other event counts an attempt or a transmission.
LEMMA NothingElseCounted ==
    ASSUME AttemptsOK, collect' = collect, work' = work,
           \A r \in Requests : req'[r].attempts = req[r].attempts,
           \A n \in Nodes : comp'[n].active = comp[n].active,
           \A n \in Nodes : obs'[n].peakActive = obs[n].peakActive,
           DOMAIN store' = StoreFields,
           \A x \in {"losses", "transmissions", "network"} : store'[x] = store[x]
    PROVE  AttemptsOK'
  <1>1. Sum(Made', Requests) = Sum(Made, Requests) /\ Sum(Counted', Nodes) = Sum(Counted, Nodes)
    BY NothingCounted
  <1>2. store'.losses = store.losses /\ store'.transmissions = store.transmissions
        /\ store'.network = store.network
    OBVIOUS
  <1> QED BY <1>1, <1>2 DEF AttemptsOK

\* What the other records change of the store.
LEMMA StoreTouches ==
    ASSUME DOMAIN store = StoreFields, NEW e, Records(e),
           e.type # "network.transmission_started"
    PROVE  /\ DOMAIN store' = StoreFields
           /\ \A x \in {"losses", "transmissions", "network"} : store'[x] = store[x]
  <1>1. CASE UNCHANGED store
    BY <1>1
  <1>2. CASE Operated(e)
    BY <1>2 DEF Operated, Keep, StoreFields
  <1>3. CASE Lost(e)
    BY <1>3 DEF Lost, Keep, StoreFields
  <1>4. CASE Retried(e)
    BY <1>4 DEF Retried, Keep, StoreFields
  <1>5. UNCHANGED store \/ Operated(e) \/ Lost(e) \/ Retried(e) \/ Transmitted(e)
    BY DEF Records, Begun, QueuedOrNot, Tried, Arrived, Filled, Finished, Dequeued, Succeeded,
       FailedOrRecovered, Assessed, Resized, Ignored
  <1> QED BY <1>1, <1>2, <1>3, <1>4, <1>5 DEF Transmitted

\* A request that waits or fails has made no attempt.
LEMMA QueueingMakesNoAttempt ==
    ASSUME BasicInv, NEW e \in events, TurnedAway(e) \/ Displaces(e) \/ Waits(e)
    PROVE  \A r \in Requests : req'[r].attempts = req[r].attempts
  <1>1. req \in ReqType
    BY DEF BasicInv, TypeOK, ReqType
  <1>2. req' = req \/ Becomes(e.req, "queued")
    BY DEF TurnedAway, Displaces, Waits
  <1> QED BY <1>1, <1>2 DEF Becomes, ReqType

\* Every step of an observed run counts its attempts.
LEMMA AttemptsKept ==
    ASSUME RuntimeAssumption, MetricsAssumption, BasicInv, HealthOK, HealthOK', AttemptsOK,
           NEW e \in events, Recording(e)
    PROVE  AttemptsOK'
  <1>1. /\ Handle(e) /\ ~Throw(e) /\ Records(e) /\ collect' = collect /\ WorkPart(e)
        /\ IsFiniteSet(Requests) /\ IsFiniteSet(Nodes)
    BY FiniteRequests DEF Recording, MetricsAssumption
  <1>2. CASE e.type = "network.transmission_started"
    BY <1>1, <1>2, HandlerByType, RecordByType, TransmissionCounted
  <1>3. CASE e.type = "request.processing_started"
    <2>1. ProcessingStarted(e) /\ Begun(e) /\ e.req \in Requests
      BY <1>1, <1>3, HandlerByType, RecordByType DEF BasicInv, Sound, RequestEvent
    <2>2. CASE UNCHANGED <<req, comp, queue, work, obs, store, stamp>>
      BY <1>1, <2>2, NothingElseCounted DEF AttemptsOK
    <2>3. CASE /\ ~HasCapacity(e.node) /\ QueuedOrNot(e) /\ UNCHANGED comp
               /\ TurnedAway(e) \/ Displaces(e) \/ Waits(e)
      <3>1. work' = work /\ store' = store
        BY <2>3 DEF QueuedOrNot
      <3>2. \A r \in Requests : req'[r].attempts = req[r].attempts
        BY <2>3, QueueingMakesNoAttempt
      <3>3. \A n \in Nodes : obs'[n].peakActive = obs[n].peakActive
        <4>1. "peakActive" \in ObsFields /\ "peakActive" \notin Touched(e)
          BY <1>3, <2>3 DEF ObsFields, HealthFields, Touched
        <4> QED BY <1>1, <4>1, RecordTouches DEF OnlyIn
      <3> QED BY <1>1, <2>3, <3>1, <3>2, <3>3, NothingElseCounted DEF AttemptsOK
    <2>4. CASE Tried(e) /\ Attempt(e)
      BY <1>1, <2>1, <2>4, TryCounted
    <2> QED BY <1>1, <2>1, <2>2, <2>3, <2>4, StartCases
  <1>4. CASE e.type = "request.processing_completed"
    <2>1. Finished(e)
      BY <1>1, <1>4, RecordByType
    <2>2. WorkDone(e)
      <3>1. ProcessingCompleted(e)
        BY <1>1, <1>4, HandlerByType
      <3> QED BY <1>1, <3>1, ProcessingCompletedStep
    <2> QED BY <1>1, <2>1, <2>2, CompletionCounted
  <1>5. CASE e.type \notin {"network.transmission_started", "request.processing_started",
                            "request.processing_completed"}
    <2>1. \A r \in Requests : req'[r].attempts = req[r].attempts
      BY <1>1, <1>5, AttemptsStay
    <2>2. \A n \in Nodes : comp'[n].active = comp[n].active
      BY <1>1, <1>5 DEF WorkPart, KeepsWork, Works, WorkDone, Rescales
    <2>3. work' = work
      BY <1>1, <1>5 DEF Records, Transmitted, Arrived, Filled, Operated, Begun, Finished,
         Dequeued, Succeeded, Lost, Retried, FailedOrRecovered, Assessed, Resized, Ignored
    <2>4. \A n \in Nodes : obs'[n].peakActive = obs[n].peakActive
      <3>1. "peakActive" \in ObsFields /\ "peakActive" \notin Touched(e)
        BY <1>5 DEF ObsFields, HealthFields, Touched
      <3> QED BY <1>1, <3>1, RecordTouches DEF OnlyIn
    <2>5. /\ DOMAIN store' = StoreFields
          /\ \A x \in {"losses", "transmissions", "network"} : store'[x] = store[x]
      BY <1>1, <1>5, StoreTouches DEF AttemptsOK
    <2> QED BY <1>1, <2>1, <2>2, <2>3, <2>4, <2>5, NothingElseCounted
  <1> QED BY <1>2, <1>3, <1>4, <1>5

\* The counts in order, of a run that has not failed.
AttemptsInv == status # "failed" => AttemptsOK

\* They are when a run has been prepared.
LEMMA AttemptsFirst ==
    ASSUME RuntimeAssumption, MetricsAssumption, MetricsInit
    PROVE  AttemptsOK
  <1>1. IsFiniteSet(Requests) /\ IsFiniteSet(Nodes)
    BY FiniteRequests DEF MetricsAssumption
  <1>2. Sum(Made, Requests) = 0
    <2>1. PICK f : f = Made
      OBVIOUS
    <2>2. \A r \in Requests : f[r] = 0
      BY <2>1 DEF Made, MetricsInit, Init
    <2> QED BY <1>1, <2>1, <2>2, SumOfZeros
  <1>3. Sum(Counted, Nodes) = 0
    <2>1. PICK f : f = Counted
      OBVIOUS
    <2>2. \A n \in Nodes : f[n] = 0
      BY <2>1 DEF Counted, MetricsInit
    <2> QED BY <1>1, <2>1, <2>2, SumOfZeros
  <1>4. /\ DOMAIN work = Nodes
        /\ \A n \in Nodes : /\ work[n] = [attempts |-> 0, failed |-> 0, processed |-> 0, latency |-> 0]
                            /\ comp[n].active = 0 /\ obs[n].peakActive = 0
    BY DEF MetricsInit, Init, Unobserved
  <1>5. ASSUME NEW w, w = [attempts |-> 0, failed |-> 0, processed |-> 0, latency |-> 0]
        PROVE  WorkAddsUp(w, 0)
    BY <1>5 DEF WorkAddsUp, WorkRecord
  <1>6. /\ DOMAIN store = StoreFields
        /\ store.losses = 0 /\ store.transmissions = 0 /\ store.network.count = 0
    BY DEF MetricsInit, EmptyStore, StoreFields, EmptyHistogram
  <1>7. \A n \in Nodes : WorkAddsUp(work[n], comp[n].active)
    BY <1>4, <1>5
  <1> QED BY <1>2, <1>3, <1>4, <1>6, <1>7 DEF AttemptsOK

\* What the report says of attempts and transmissions.
LEMMA AttemptsReported ==
    ASSUME RuntimeAssumption, MetricsAssumption, Base, status # "failed", AttemptsOK
    PROVE  AttemptsAddUp
  <1> SUFFICES ASSUME collect, NEW m, m = BuildEnabled
               PROVE  /\ \A n \in Nodes :
                            LET t == m.components[n].traffic
                            IN  t.attempts = t.failed + t.processed + t.active /\ t.active <= t.peak
                      /\ Total([r \in Requests |-> req[r].attempts])
                            = m.network.losses
                              + Total([n \in Nodes |-> m.components[n].traffic.attempts])
                      /\ m.network.transmissions = m.network.losses + m.network.summary.count
    BY DEF AttemptsAddUp, Reports, Report
  <1>1. /\ m.network.losses = store.losses
        /\ m.network.transmissions = store.transmissions
        /\ m.network.summary.count = store.network.count
    BY DEF BuildEnabled, Summary
  <1>2. ASSUME NEW n \in Nodes, NEW t, t = m.components[n].traffic
        PROVE  /\ t.attempts = work[n].attempts /\ t.failed = work[n].failed
               /\ t.processed = work[n].processed /\ t.active = comp[n].active
               /\ t.peak = obs[n].peakActive
    <2>1. m.components[n] = ComponentReport(n)
      BY DEF BuildEnabled
    <2> QED BY <1>2, <2>1 DEF ComponentReport
  <1>3. [n \in Nodes |-> m.components[n].traffic.attempts] = Counted
    BY <1>2 DEF Counted
  <1>4. Total(Counted) = Sum(Counted, Nodes) /\ Total(Made) = Sum(Made, Requests)
    BY DEF Total, Sum, SumFunction, Counted, Made
  <1>5. Total([r \in Requests |-> req[r].attempts])
           = store.losses + Total([n \in Nodes |-> m.components[n].traffic.attempts])
    BY <1>3, <1>4 DEF AttemptsOK, Made
  <1>6. ASSUME NEW n \in Nodes, NEW t, t = m.components[n].traffic
        PROVE  t.attempts = t.failed + t.processed + t.active /\ t.active <= t.peak
    <2>1. /\ t.attempts = work[n].attempts /\ t.failed = work[n].failed
          /\ t.processed = work[n].processed /\ t.active = comp[n].active
          /\ t.peak = obs[n].peakActive
      BY <1>2, <1>6
    <2>2. /\ work[n].attempts = work[n].failed + work[n].processed + comp[n].active
          /\ comp[n].active <= obs[n].peakActive
      BY DEF AttemptsOK, WorkAddsUp
    <2> QED BY <2>1, <2>2
  <1>7. store.transmissions = store.losses + store.network.count
    BY DEF AttemptsOK
  <1> QED BY <1>1, <1>5, <1>6, <1>7

\* The attempts counted at the requests, which the retry policies compare with
\* their budget, are those counted at the components, each failed, processed or
\* under way, and the transmissions lost; whichever handlers count them, and
\* however failures, retries and queues interleave.
THEOREM AttemptsAlwaysAddUp == MetricsSpec => []AttemptsAddUp
  <1> DEFINE Inv == Base /\ HealthInv /\ AttemptsInv
  <1>1. MetricsInit => Inv
    <2> SUFFICES ASSUME MetricsInit PROVE Inv
      OBVIOUS
    <2>1. Base
      BY BaseHoldsFirst, RuntimeAssumption DEF MetricsInit
    <2>2. HealthInv
      BY HealthFirst DEF HealthInv
    <2> QED BY <2>1, <2>2, AttemptsFirst, RuntimeAssumption, MetricsAssumption DEF AttemptsInv
  <1>2. Inv /\ [MetricsNext]_<<vars, telemetry>> => Inv'
    <2> SUFFICES ASSUME Inv, [MetricsNext]_<<vars, telemetry>> PROVE Inv'
      OBVIOUS
    <2>1. /\ [Next]_vars
          /\ \/ UNCHANGED <<vars, telemetry>>
             \/ status' = "failed" /\ UNCHANGED <<model, telemetry>>
             \/ /\ status = "running" /\ status' # "failed"
                /\ \E e \in events : Recording(e)
      BY RecordingStep, RuntimeAssumption
    <2>2. Base'
      BY <2>1, BaseKept, RuntimeAssumption
    <2>3. CASE UNCHANGED <<vars, telemetry>>
      BY <2>2, <2>3 DEF vars, model, telemetry, HealthInv, HealthOK, AttemptsInv, AttemptsOK,
         Made, Counted
    <2>4. CASE status' = "failed"
      BY <2>2, <2>4 DEF HealthInv, AttemptsInv
    <2>5. CASE status = "running" /\ \E e \in events : Recording(e)
      <3>1. PICK e \in events : Recording(e)
        BY <2>5
      <3>2. HealthOK'
        BY <2>5, <3>1, HealthKept, RuntimeAssumption DEF Base, HealthInv
      <3>3. AttemptsOK'
        BY <2>5, <3>1, <3>2, AttemptsKept, RuntimeAssumption, MetricsAssumption
           DEF Base, HealthInv, AttemptsInv
      <3> QED BY <2>2, <3>2, <3>3 DEF HealthInv, AttemptsInv
    <2> QED BY <2>1, <2>3, <2>4, <2>5
  <1>3. Inv => AttemptsAddUp
    <2>1. ASSUME Inv, status # "failed" PROVE AttemptsAddUp
      BY <2>1, AttemptsReported, RuntimeAssumption, MetricsAssumption DEF AttemptsInv
    <2>2. status = "failed" => AttemptsAddUp
      BY DEF AttemptsAddUp, Reports
    <2> QED BY <2>1, <2>2
  <1> QED BY <1>1, <1>2, <1>3, PTL DEF MetricsSpec

-----------------------------------------------------------------------------
(* The counts of the queues.                                                  *)

\* Sums add up when their terms do.
LEMMA SumAdds ==
    ASSUME NEW f, NEW g, NEW h, NEW S, IsFiniteSet(S),
           \A x \in S : f[x] \in Int /\ g[x] \in Int /\ h[x] \in Int,
           \A x \in S : f[x] = g[x] + h[x]
    PROVE  Sum(f, S) = Sum(g, S) + Sum(h, S)
  <1> DEFINE P == {s \in SUBSET S : Sum(f, s) = Sum(g, s) + Sum(h, s)}
  <1>1. ASSUME NEW s \in SUBSET S, \A t \in SUBSET s : t # s => t \in P
        PROVE  s \in P
    <2>1. IsFiniteSet(s)
      BY FS_Subset
    <2>2. CASE s = {}
      <3>1. Sum(f, s) = 0 /\ Sum(g, s) = 0
        BY <2>1, <2>2, SumUnfolds
      <3>2. Sum(h, s) = 0
        BY <2>1, <2>2, SumUnfolds
      <3> QED BY <3>1, <3>2
    <2>3. CASE s # {}
      <3>1. PICK x, t : x = First(s) /\ t = s \ {x}
        OBVIOUS
      <3>2. x \in s /\ x \in S /\ t \in SUBSET s /\ t # s /\ t \in SUBSET S
        BY <2>3, <3>1, FirstIn
      <3>3. /\ Sum(f, s) = f[x] + Sum(f, t)
            /\ Sum(g, s) = g[x] + Sum(g, t)
            /\ Sum(h, s) = h[x] + Sum(h, t)
        BY <2>1, <2>3, <3>1, SumUnfolds
      <3>4. t \in P
        BY <1>1, <3>2
      <3>5. Sum(f, t) \in Int /\ Sum(g, t) \in Int /\ Sum(h, t) \in Int
        <4>1. IsFiniteSet(t)
          BY <3>2, FS_Subset
        <4>2. \A y \in t : f[y] \in Int /\ g[y] \in Int /\ h[y] \in Int
          BY <3>2
        <4> QED BY <4>1, <4>2, SumWithout
      <3>6. f[x] = g[x] + h[x] /\ g[x] \in Int /\ h[x] \in Int
        BY <3>2
      <3> QED BY <3>3, <3>4, <3>5, <3>6
    <2> QED BY <2>2, <2>3
  <1>2. SUBSET S \subseteq P
    <2> HIDE DEF P
    <2> QED BY <1>1, SubsetsByStep
  <1>3. S \in P
    <2> HIDE DEF P
    <2> QED BY <1>2
  <1> QED BY <1>3

\* Disjoint sets have as many members together as the sum of their sizes.
LEMMA SizesAddUp ==
    ASSUME NEW N, IsFiniteSet(N), NEW H, NEW f,
           \A n \in N : IsFiniteSet(H[n]) /\ Cardinality(H[n]) = f[n],
           \A m, n \in N : m # n => H[m] \cap H[n] = {}
    PROVE  Cardinality(UNION {H[n] : n \in N}) = Sum(f, N)
  <1> DEFINE All(s) == UNION {H[n] : n \in s}
             P == {s \in SUBSET N : IsFiniteSet(All(s)) /\ Cardinality(All(s)) = Sum(f, s)}
  <1>1. ASSUME NEW s \in SUBSET N, \A t \in SUBSET s : t # s => t \in P
        PROVE  s \in P
    <2>1. IsFiniteSet(s)
      BY FS_Subset
    <2>2. CASE s = {}
      <3>1. All(s) = {}
        BY <2>2
      <3>2. Sum(f, s) = 0
        BY <2>1, <2>2, SumUnfolds
      <3> HIDE DEF All
      <3> QED BY <3>1, <3>2, FS_EmptySet
    <2>3. CASE s # {}
      <3>1. PICK x, t : x = First(s) /\ t = s \ {x}
        OBVIOUS
      <3>2. x \in s /\ x \in N /\ t \in SUBSET s /\ t # s
        BY <2>3, <3>1, FirstIn
      <3>3. Sum(f, s) = f[x] + Sum(f, t)
        BY <2>1, <2>3, <3>1, SumUnfolds
      <3>4. IsFiniteSet(All(t)) /\ Cardinality(All(t)) = Sum(f, t)
        BY <1>1, <3>2
      <3>5. All(s) = H[x] \cup All(t) /\ H[x] \cap All(t) = {}
        <4>1. \A n \in t : H[x] \cap H[n] = {}
          BY <3>1, <3>2
        <4> QED BY <3>1, <3>2, <4>1
      <3>6. IsFiniteSet(H[x]) /\ Cardinality(H[x]) = f[x]
        BY <3>2
      <3> HIDE DEF All
      <3>7. PICK a, b, c : a = H[x] /\ b = All(t) /\ c = a \cap b
        OBVIOUS
      <3>8. IsFiniteSet(a \cup b) /\ Cardinality(a \cup b) = Cardinality(a) + Cardinality(b) - Cardinality(c)
        BY <3>4, <3>6, <3>7, FS_Union
      <3>9. Cardinality(c) = 0
        <4>1. c = {}
          BY <3>5, <3>7
        <4> QED BY <4>1, FS_EmptySet
      <3>10. Cardinality(a) \in Nat /\ Cardinality(b) \in Nat
        BY <3>4, <3>6, <3>7, FS_CardinalityType
      <3>11. IsFiniteSet(All(s)) /\ Cardinality(All(s)) = Sum(f, s)
        BY <3>3, <3>4, <3>5, <3>6, <3>7, <3>8, <3>9, <3>10
      <3> QED BY <3>11
    <2> QED BY <2>2, <2>3
  <1>2. SUBSET N \subseteq P
    <2> HIDE DEF P
    <2> QED BY <1>1, SubsetsByStep
  <1>3. N \in P
    <2> HIDE DEF P
    <2> QED BY <1>2
  <1> QED BY <1>3

\* A sequence without repetitions has as many members as places.
LEMMA MembersOf ==
    ASSUME NEW S, NEW q \in Seq(S), IsInjective(q)
    PROVE  /\ IsFiniteSet({q[i] : i \in DOMAIN q})
           /\ Cardinality({q[i] : i \in DOMAIN q}) = Len(q)
  <1> DEFINE Upto(k) == {q[i] : i \in 1 .. k}
             T == {k \in Nat : k <= Len(q) => IsFiniteSet(Upto(k)) /\ Cardinality(Upto(k)) = k}
  <1>1. Len(q) \in Nat /\ DOMAIN q = 1 .. Len(q)
    OBVIOUS
  <1>2. 0 \in T
    <2>1. Upto(0) = {}
      OBVIOUS
    <2> HIDE DEF Upto
    <2> QED BY <2>1, FS_EmptySet
  <1>3. ASSUME NEW k \in Nat, k \in T
        PROVE  k + 1 \in T
    <2> SUFFICES ASSUME k + 1 <= Len(q)
                 PROVE  IsFiniteSet(Upto(k + 1)) /\ Cardinality(Upto(k + 1)) = k + 1
      OBVIOUS
    <2>1. IsFiniteSet(Upto(k)) /\ Cardinality(Upto(k)) = k
      <3>1. k <= Len(q)
        BY <1>1
      <3> HIDE DEF Upto
      <3> QED BY <1>3, <3>1
    <2>2. 1 .. k + 1 = (1 .. k) \cup {k + 1}
      OBVIOUS
    <2>3. Upto(k + 1) = Upto(k) \cup {q[k + 1]}
      BY <2>2
    <2>4. q[k + 1] \notin Upto(k)
      <3>1. \A i \in 1 .. k : i \in DOMAIN q /\ k + 1 \in DOMAIN q /\ i # k + 1
        BY <1>1
      <3> QED BY <3>1 DEF IsInjective
    <2> HIDE DEF Upto
    <2> QED BY <2>1, <2>3, <2>4, FS_AddElement
  <1>4. Nat \subseteq T
    <2>1. \A k \in Nat : k \in T => k + 1 \in T
      BY <1>3
    <2> HIDE DEF T
    <2> QED BY <1>2, <2>1, NumbersByStep
  <1>5. Len(q) \in T
    <2> HIDE DEF T
    <2> QED BY <1>1, <1>4
  <1>6. Upto(Len(q)) = {q[i] : i \in DOMAIN q}
    BY <1>1
  <1>7. IsFiniteSet(Upto(Len(q))) /\ Cardinality(Upto(Len(q))) = Len(q)
    <2> HIDE DEF Upto
    <2> QED BY <1>1, <1>5
  <1> QED BY <1>6, <1>7

\* A member joins at the end of a sequence.
LEMMA Appended ==
    ASSUME NEW S, NEW q \in Seq(S), NEW x \in S, NEW u, u = Append(q, x)
    PROVE  Len(u) = Len(q) + 1 /\ Range(u) = Range(q) \cup {x}
  <1>1. /\ Len(q) \in Nat /\ DOMAIN q = 1 .. Len(q) /\ DOMAIN u = 1 .. Len(q) + 1
        /\ Len(u) = Len(q) + 1 /\ u[Len(q) + 1] = x /\ \A i \in 1 .. Len(q) : u[i] = q[i]
    OBVIOUS
  <1>2. 1 .. Len(q) + 1 = (1 .. Len(q)) \cup {Len(q) + 1}
    BY <1>1
  <1> QED BY <1>1, <1>2 DEF Range

\* A member joins at the end of a sequence whose first one leaves.
IsReplaced(q, x, u) ==
    /\ Len(u) = Len(q) /\ Len(q) \in DOMAIN q /\ u[Len(q)] = x /\ Head(q) \in Range(q)
    /\ \A r : r # x => (r \in Range(u) <=> r \in Range(q) /\ r # Head(q))
    /\ x \in Range(u)

\* So it does when it is appended to the rest.
LEMMA Replaced ==
    ASSUME NEW S, NEW q \in Seq(S), q # <<>>, IsInjective(q),
           NEW x \in S, NEW u, u = Append(Tail(q), x)
    PROVE  IsReplaced(q, x, u)
  <1>1. PICK k : k = Len(q)
    OBVIOUS
  <1>2. /\ k \in Nat /\ k >= 1 /\ DOMAIN q = 1 .. k /\ DOMAIN u = 1 .. k /\ Len(u) = k
        /\ u[k] = x /\ Head(q) = q[1]
        /\ \A i \in 1 .. k - 1 : u[i] = q[i + 1]
    BY <1>1
  <1>3. \A i \in 1 .. k : i = k \/ i \in 1 .. k - 1
    BY <1>2
  <1>4. ASSUME NEW r, r # x, r \in Range(u)
        PROVE  r \in Range(q) /\ r # Head(q)
    <2>1. PICK i \in 1 .. k : u[i] = r
      BY <1>2, <1>4 DEF Range
    <2>2. i \in 1 .. k - 1
      BY <1>2, <1>3, <1>4, <2>1
    <2>3. i + 1 \in DOMAIN q /\ q[i + 1] = r /\ i + 1 # 1 /\ 1 \in DOMAIN q
      BY <1>2, <2>1, <2>2
    <2>4. q[i + 1] # q[1]
      BY <2>3 DEF IsInjective
    <2> QED BY <1>2, <2>3, <2>4 DEF Range
  <1>5. ASSUME NEW r, r \in Range(q), r # Head(q)
        PROVE  r \in Range(u)
    <2>1. PICK i \in 1 .. k : q[i] = r
      BY <1>2, <1>5 DEF Range
    <2>2. i # 1
      BY <1>2, <1>5, <2>1
    <2>3. PICK j : j = i - 1
      OBVIOUS
    <2>4. j \in 1 .. k - 1 /\ j + 1 = i /\ j \in DOMAIN u
      BY <1>2, <2>2, <2>3
    <2>5. u[j] = r
      BY <1>2, <2>1, <2>4
    <2> QED BY <2>4, <2>5 DEF Range
  <1>6. Head(q) \in Range(q) /\ x \in Range(u) /\ k \in DOMAIN q
    BY <1>2 DEF Range
  <1> QED BY <1>1, <1>2, <1>4, <1>5, <1>6 DEF IsReplaced

\* The first k members of a sequence leave.
IsCut(q, k, u) ==
    /\ Len(u) = Len(q) - k
    /\ \A r : r \in Range(u) <=> r \in Range(q) /\ ~\E i \in 1 .. k : q[i] = r

\* So they do where it is cut.
LEMMA Cut ==
    ASSUME NEW S, NEW q \in Seq(S), IsInjective(q),
           NEW k \in 0 .. Len(q), NEW u, u = SubSeq(q, k + 1, Len(q))
    PROVE  IsCut(q, k, u)
  <1>1. PICK l : l = Len(q)
    OBVIOUS
  <1>2. /\ l \in Nat /\ k \in Nat /\ k <= l /\ DOMAIN q = 1 .. l
        /\ Len(u) = l - k /\ DOMAIN u = 1 .. l - k
        /\ \A i \in 1 .. l - k : u[i] = q[i + k]
    BY <1>1
  <1>3. ASSUME NEW r, r \in Range(u)
        PROVE  r \in Range(q) /\ ~\E i \in 1 .. k : q[i] = r
    <2>1. PICK i \in 1 .. l - k : u[i] = r
      BY <1>2, <1>3 DEF Range
    <2>2. i + k \in 1 .. l /\ q[i + k] = r /\ \A j \in 1 .. k : j \in 1 .. l /\ j # i + k
      <3>1. i \in Nat /\ i >= 1 /\ i <= l - k
        BY <1>2
      <3>2. i + k \in 1 .. l
        BY <1>2, <3>1
      <3>3. \A j \in 1 .. k : j \in 1 .. l /\ j # i + k
        BY <1>2, <3>1
      <3> QED BY <1>2, <2>1, <3>2, <3>3
    <2>3. \A j \in 1 .. k : q[j] # q[i + k]
      BY <1>2, <2>2 DEF IsInjective
    <2> QED BY <1>2, <2>2, <2>3 DEF Range
  <1>4. ASSUME NEW r, r \in Range(q), ~\E i \in 1 .. k : q[i] = r
        PROVE  r \in Range(u)
    <2>1. PICK i \in 1 .. l : q[i] = r
      BY <1>2, <1>4 DEF Range
    <2>2. PICK j : j = i - k
      OBVIOUS
    <2>3. i \notin 1 .. k
      BY <1>4, <2>1
    <2>4. j \in 1 .. l - k /\ j + k = i
      BY <1>2, <2>2, <2>3
    <2>5. j \in DOMAIN u /\ u[j] = r
      BY <1>2, <2>1, <2>4
    <2> QED BY <2>5 DEF Range
  <1> QED BY <1>1, <1>2, <1>3, <1>4 DEF IsCut

\* The histogram h with the waits of the first k of q, taken from the queue at t.
IsWaited(w, h, t, s, q, k) ==
    w = [i \in 0 .. k |-> IF i = 0 THEN h ELSE Recorded(w[i - 1], t - s[q[i]])]

Waited(h, t, s, q, k) == CHOOSE w : IsWaited(w, h, t, s, q, k)

\* The histograms with the waits of a queue exist, one by one.
LEMMA WaitedExists ==
    ASSUME NEW h, NEW t, NEW s, NEW q, NEW k \in Nat, NEW w, w = Waited(h, t, s, q, k)
    PROVE  IsWaited(w, h, t, s, q, k)
  <1> DEFINE T == {j \in Nat : \E g : IsWaited(g, h, t, s, q, j)}
  <1>1. 0 \in T
    <2>1. PICK g : g = [i \in 0 .. 0 |-> h]
      OBVIOUS
    <2>2. g = [i \in 0 .. 0 |-> IF i = 0 THEN h ELSE Recorded(g[i - 1], t - s[q[i]])]
      BY <2>1
    <2> QED BY <2>2 DEF IsWaited
  <1>2. ASSUME NEW j \in Nat, j \in T
        PROVE  j + 1 \in T
    <2>1. PICK g : IsWaited(g, h, t, s, q, j)
      BY <1>2
    <2>2. PICK f : f = [i \in 0 .. j + 1 |->
                          IF i = 0 THEN h ELSE Recorded(g[i - 1], t - s[q[i]])]
      OBVIOUS
    <2>3. \A i \in 0 .. j : f[i] = g[i]
      BY <2>1, <2>2 DEF IsWaited
    <2>4. \A i \in 0 .. j + 1 : i # 0 => i - 1 \in 0 .. j
      OBVIOUS
    <2>5. f = [i \in 0 .. j + 1 |-> IF i = 0 THEN h ELSE Recorded(f[i - 1], t - s[q[i]])]
      BY <2>2, <2>3, <2>4
    <2> QED BY <2>5 DEF IsWaited
  <1>3. Nat \subseteq T
    <2>1. \A j \in Nat : j \in T => j + 1 \in T
      BY <1>2
    <2> HIDE DEF T
    <2> QED BY <1>1, <2>1, NumbersByStep
  <1> QED BY <1>3 DEF Waited

\* It exists, and has k samples more.
LEMMA WaitedCounts ==
    ASSUME NEW h, h.count \in Int, NEW t, NEW s, NEW q, NEW k \in Nat,
           NEW w, w = Waited(h, t, s, q, k)
    PROVE  w[k].count = h.count + k
  <1>1. IsWaited(w, h, t, s, q, k)
    BY WaitedExists
  <1> DEFINE C == {j \in Nat : j <= k => w[j].count = h.count + j}
  <1>2. 0 \in C
    <2>1. 0 \in 0 .. k /\ w[0] = h
      BY <1>1 DEF IsWaited
    <2> QED BY <2>1
  <1>3. ASSUME NEW j \in Nat, j \in C
        PROVE  j + 1 \in C
    <2> SUFFICES ASSUME j + 1 <= k PROVE w[j + 1].count = h.count + (j + 1)
      OBVIOUS
    <2>1. j + 1 \in 0 .. k /\ j + 1 # 0 /\ (j + 1) - 1 = j
      OBVIOUS
    <2>2. PICK v : w[j + 1] = Recorded(w[j], v)
      BY <1>1, <2>1 DEF IsWaited
    <2>3. w[j + 1].count = w[j].count + 1
      BY <2>2 DEF Recorded
    <2> QED BY <1>3, <2>3
  <1>4. Nat \subseteq C
    <2>1. \A j \in Nat : j \in C => j + 1 \in C
      BY <1>3
    <2> HIDE DEF C
    <2> QED BY <1>2, <2>1, NumbersByStep
  <1> QED BY <1>4

\* A drain that starts k requests of the queue of n is recorded.
DrainRecorded(e, n, k) ==
    /\ obs'[n].dequeued = obs[n].dequeued + k
    /\ obs'[n].wait = Waited(obs[n].wait, e.at, stamp, queue[n], k)[k]
    /\ \A x \in {"enqueued", "dropped", "peakQueue"} : obs'[n][x] = obs[n][x]
    /\ \A m \in Nodes : m # n => obs'[m] = obs[m]
    /\ DOMAIN stamp' = Requests
    /\ \A r \in Requests : IF \E i \in 1 .. k : queue[n][i] = r THEN stamp'[r] = NotQueued
                          ELSE stamp'[r] = stamp[r]

\* Every drain is.
LEMMA DrainRecords ==
    ASSUME HealthOK, NEW e, Dequeued(e), collect,
           NEW n \in Nodes, n = e.node, NEW k, k = Len(queue[n]) - Len(queue'[n])
    PROVE  DrainRecorded(e, n, k)
  <1>1. LET c == Len(queue[e.node]) - Len(queue'[e.node])
            w == Waited(obs[e.node].wait, e.at, stamp, queue[e.node], c)
        IN  /\ obs' = [obs EXCEPT ![e.node].dequeued = @ + c, ![e.node].wait = w[c]]
            /\ stamp' = [r \in Requests |->
                           IF \E i \in 1 .. c : queue[e.node][i] = r THEN NotQueued ELSE stamp[r]]
    BY DEF Dequeued, IsWaited, Waited
  <1>2. PICK w, d : /\ w = Waited(obs[n].wait, e.at, stamp, queue[n], k)[k]
                    /\ d = obs[n].dequeued + k
    OBVIOUS
  <1>3. obs' = [obs EXCEPT ![n].dequeued = d, ![n].wait = w]
    BY <1>1, <1>2
  <1>4. DOMAIN obs = Nodes /\ DOMAIN obs[n] = ObsFields
    BY DEF HealthOK
  <1>5. /\ obs'[n].dequeued = d /\ obs'[n].wait = w
        /\ \A x \in {"enqueued", "dropped", "peakQueue"} : obs'[n][x] = obs[n][x]
        /\ \A m \in Nodes : m # n => obs'[m] = obs[m]
    BY <1>3, <1>4 DEF ObsFields
  <1>6. /\ DOMAIN stamp' = Requests
        /\ \A r \in Requests :
              IF \E i \in 1 .. k : queue[n][i] = r THEN stamp'[r] = NotQueued
              ELSE stamp'[r] = stamp[r]
    BY <1>1
  <1> QED BY <1>2, <1>5, <1>6 DEF DrainRecorded

\* The counts o of a queue q with the settings c: whoever was enqueued waits, was
\* dequeued, or was dropped; and a bounded queue was never beyond its bound.
QueueCounted(o, q, c) ==
    /\ o.enqueued \in Int /\ o.dequeued \in Int /\ o.dropped \in Int
    /\ o.enqueued = o.dequeued + o.dropped + Len(q)
    /\ o.wait.count = o.dequeued
    /\ c.queue = "enabled" /\ c.bounded => o.peakQueue <= c.maxSize /\ Len(q) <= c.maxSize

QueueFields == {"peakQueue", "enqueued", "dequeued", "dropped", "wait"}

\* The requests in the queue of some component.
InQueue(r) == \E n \in Nodes : r \in Range(queue[n])

\* What is counted agrees with the queues.
CountsOK ==
    collect =>
      /\ \A n \in Nodes : QueueCounted(obs[n], queue[n], Conf[n])
      /\ DOMAIN stamp = Requests
      /\ \A r \in Requests : stamp[r] # NotQueued <=> InQueue(r)

\* A request is in one queue, once, and in none while an event goes on with it.
LEMMA OneQueue ==
    ASSUME BasicInv, PlacesOK
    PROVE  /\ DOMAIN queue = Nodes
           /\ \A n \in Nodes : queue[n] \in Seq(Requests) /\ IsInjective(queue[n])
           /\ \A m, n \in Nodes : m # n => Range(queue[m]) \cap Range(queue[n]) = {}
           /\ \A e \in events : e.type \in RequestEvent => ~InQueue(e.req)
  <1>1. DOMAIN queue = Nodes
    BY DEF BasicInv, TypeOK
  <1>2. \A n \in Nodes : queue[n] \in Seq(Requests)
    BY PlacesOfRequests
  <1>3. \A n \in Nodes : IsInjective(queue[n])
    <2> SUFFICES ASSUME NEW n \in Nodes, NEW i \in DOMAIN queue[n], NEW j \in DOMAIN queue[n],
                        queue[n][i] = queue[n][j]
                 PROVE  i = j
      BY DEF IsInjective
    <2>1. Waiting(queue[n][i], n, i) /\ Waiting(queue[n][i], n, j)
      BY DEF Waiting
    <2> QED BY <2>1 DEF PlacesOK
  <1>4. \A n \in Nodes : \A r \in Range(queue[n]) : \E i : Waiting(r, n, i)
    BY DEF Range, Waiting
  <1>5. \A m, n \in Nodes : m # n => Range(queue[m]) \cap Range(queue[n]) = {}
    <2> SUFFICES ASSUME NEW m \in Nodes, NEW n \in Nodes, m # n,
                        NEW r \in Range(queue[m]), r \in Range(queue[n])
                 PROVE  FALSE
      OBVIOUS
    <2>1. PICK i, j : Waiting(r, m, i) /\ Waiting(r, n, j)
      BY <1>4
    <2> QED BY <2>1 DEF PlacesOK
  <1>6. \A e \in events : e.type \in RequestEvent => ~InQueue(e.req)
    <2> SUFFICES ASSUME NEW e \in events, e.type \in RequestEvent, InQueue(e.req) PROVE FALSE
      OBVIOUS
    <2>1. PICK n \in Nodes : \E i : Waiting(e.req, n, i)
      BY <1>4 DEF InQueue
    <2>2. GoesOn(e, e.req)
      BY DEF GoesOn
    <2> QED BY <2>1, <2>2 DEF PlacesOK
  <1> QED BY <1>1, <1>2, <1>3, <1>5, <1>6

\* Counts of a queue move with its length.
LEMMA CountsMove ==
    ASSUME NEW o, NEW q, NEW c, QueueCounted(o, q, c), NEW p, NEW u,
           NEW i \in Int, NEW j \in Int, NEW k \in Int,
           p.enqueued = o.enqueued + i, p.dequeued = o.dequeued + j, p.dropped = o.dropped + k,
           p.wait.count = o.wait.count + j, Len(q) \in Int, Len(u) = Len(q) + i - j - k,
           c.queue = "enabled" /\ c.bounded => Len(u) <= c.maxSize,
           p.peakQueue = o.peakQueue \/ p.peakQueue = Len(u)
    PROVE  QueueCounted(p, u, c)
  <1>1. PICK a, b, d, x, y : /\ a = o.enqueued /\ b = o.dequeued /\ d = o.dropped
                             /\ x = Len(q) /\ y = Len(u)
    OBVIOUS
  <1>2. /\ a \in Int /\ b \in Int /\ d \in Int /\ x \in Int
        /\ a = b + d + x /\ o.wait.count = b /\ y = x + i - j - k
    BY <1>1 DEF QueueCounted
  <1>3. /\ p.enqueued \in Int /\ p.dequeued \in Int /\ p.dropped \in Int
        /\ p.enqueued = p.dequeued + p.dropped + Len(u) /\ p.wait.count = p.dequeued
    <2>1. /\ p.enqueued = a + i /\ p.dequeued = b + j /\ p.dropped = d + k
          /\ p.wait.count = b + j /\ Len(u) = y
      BY <1>1, <1>2
    <2>2. a + i = (b + j) + (d + k) + y /\ a + i \in Int /\ b + j \in Int /\ d + k \in Int
      BY <1>2
    <2> QED BY <2>1, <2>2
  <1>4. c.queue = "enabled" /\ c.bounded => p.peakQueue <= c.maxSize /\ Len(u) <= c.maxSize
    BY DEF QueueCounted
  <1> QED BY <1>3, <1>4 DEF QueueCounted

\* Where queues, their counts and the times of waiting stay, they agree as before.
LEMMA CountsUntouched ==
    ASSUME CountsOK, collect' = collect, queue' = queue, stamp' = stamp,
           \A n \in Nodes : \A x \in QueueFields : obs'[n][x] = obs[n][x]
    PROVE  CountsOK'
  <1>1. \A n \in Nodes :
           /\ obs'[n].peakQueue = obs[n].peakQueue /\ obs'[n].enqueued = obs[n].enqueued
           /\ obs'[n].dequeued = obs[n].dequeued /\ obs'[n].dropped = obs[n].dropped
           /\ obs'[n].wait = obs[n].wait
    BY DEF QueueFields
  <1> QED BY <1>1 DEF CountsOK, QueueCounted, InQueue

\* Where one queue changes with its counts, and the times of waiting of those who
\* join or leave it.
LEMMA CountsChange ==
    ASSUME collect, CountsOK, collect' = collect, NEW n \in Nodes,
           \A m \in Nodes : m # n => queue'[m] = queue[m] /\ obs'[m] = obs[m],
           QueueCounted(obs'[n], queue'[n], Conf[n]), DOMAIN stamp' = Requests,
           \A m \in Nodes : m # n => Range(queue[m]) \cap Range(queue[n]) = {},
           \A r \in Requests :
              \/ stamp'[r] # NotQueued /\ r \in Range(queue'[n])
              \/ stamp'[r] = NotQueued /\ r \notin Range(queue'[n]) /\ r \in Range(queue[n])
              \/ stamp'[r] = stamp[r] /\ (r \in Range(queue'[n]) <=> r \in Range(queue[n]))
    PROVE  CountsOK'
  <1>1. \A m \in Nodes : QueueCounted(obs'[m], queue'[m], Conf[m])
    BY DEF CountsOK
  <1>2. ASSUME NEW r \in Requests PROVE stamp'[r] # NotQueued <=> InQueue(r)'
    <2>1. InQueue(r)' <=> r \in Range(queue'[n]) \/ \E m \in Nodes : m # n /\ r \in Range(queue[m])
      BY DEF InQueue
    <2>2. InQueue(r) <=> r \in Range(queue[n]) \/ \E m \in Nodes : m # n /\ r \in Range(queue[m])
      BY DEF InQueue
    <2>3. r \in Range(queue[n]) => ~\E m \in Nodes : m # n /\ r \in Range(queue[m])
      OBVIOUS
    <2>4. stamp[r] # NotQueued <=> InQueue(r)
      BY DEF CountsOK
    <2> QED BY <2>1, <2>2, <2>3, <2>4
  <1> QED BY <1>1, <1>2 DEF CountsOK

\* A start without capacity: the request is turned away, waits, or waits for
\* another that is dropped.
LEMMA QueuedCounted ==
    ASSUME BasicInv, PlacesOK, HealthOK, CountsOK, collect, collect' = collect,
           NEW e \in events, e.type = "request.processing_started", QueuedOrNot(e),
           TurnedAway(e) \/ Displaces(e) \/ Waits(e)
    PROVE  CountsOK'
  <1>1. PICK n, q, u, x, t : n = e.node /\ q = queue[n] /\ u = queue'[n] /\ x = e.req /\ t = e.at
    OBVIOUS
  <1>2. n \in Nodes /\ x \in Requests /\ t \in Nat
    BY <1>1 DEF BasicInv, TypeOK, Event, Sound, RequestEvent
  <1>3. /\ DOMAIN queue = Nodes /\ q \in Seq(Requests) /\ IsInjective(q)
        /\ \A m \in Nodes : m # n => Range(queue[m]) \cap Range(queue[n]) = {}
        /\ x \notin Range(q)
    BY <1>1, <1>2, OneQueue DEF InQueue, RequestEvent
  <1>4. DOMAIN obs = Nodes /\ DOMAIN obs[n] = ObsFields
    BY <1>2 DEF HealthOK
  <1>5. /\ QueueCounted(obs[n], q, Conf[n]) /\ DOMAIN stamp = Requests /\ Len(q) \in Nat
        /\ Conf[n].maxSize \in Nat
    <2>1. Conf[n] \in Config
      BY <1>2, RuntimeAssumption DEF RuntimeAssumption
    <2>2. Conf[n].maxSize \in Nat
      BY <2>1 DEF Config
    <2> QED BY <1>1, <1>2, <1>3, <2>2 DEF CountsOK
  <1>6. CASE TurnedAway(e)
    <2>1. queue' = queue
      BY <1>6 DEF TurnedAway
    <2>2. stamp' = stamp /\ Observe(n, RejectedFrom(obs[n]))
      BY <1>1, <2>1 DEF QueuedOrNot
    <2>3. \A m \in Nodes : \A y \in QueueFields : obs'[m][y] = obs[m][y]
      BY <1>2, <1>4, <2>2 DEF Observe, RejectedFrom, QueueFields, ObsFields
    <2> QED BY <2>1, <2>2, <2>3, CountsUntouched
  <1>7. ASSUME u # q, NEW dropped \in BOOLEAN, dropped <=> Full(n)
        PROVE  /\ \E o : /\ o = AdmittedTo(obs[n], dropped, Len(u))
                         /\ obs' = [obs EXCEPT ![n] = o]
               /\ stamp' = [r \in Requests |-> IF r = x THEN t
                                               ELSE IF dropped /\ r = Head(q) THEN NotQueued
                                               ELSE stamp[r]]
    <2>1. (Full(n) /\ queue'[n] # queue[n]) = dropped
      BY <1>1, <1>7
    <2> QED BY <1>1, <1>7, <2>1 DEF QueuedOrNot, Observe
  <1>8. t # NotQueued
    BY <1>2 DEF NotQueued
  <1>9. CASE Waits(e)
    <2>1. u = Append(q, x) /\ queue' = [queue EXCEPT ![n] = u] /\ ~Full(n)
          /\ Conf[n].queue # "disabled"
      BY <1>1, <1>2, <1>3, <1>9 DEF Waits, NoPlace
    <2>2. Len(u) = Len(q) + 1 /\ Range(u) = Range(q) \cup {x}
      BY <1>2, <1>3, <2>1, Appended
    <2>3. u # q
      BY <1>5, <2>2
    <2>4. PICK o : /\ o = AdmittedTo(obs[n], FALSE, Len(u)) /\ obs' = [obs EXCEPT ![n] = o]
      BY <1>7, <2>1, <2>3
    <2>5. stamp' = [r \in Requests |-> IF r = x THEN t ELSE stamp[r]]
      BY <1>7, <2>1, <2>3
    <2>6. /\ o.enqueued = obs[n].enqueued + 1 /\ o.dropped = obs[n].dropped + 0
          /\ o.dequeued = obs[n].dequeued /\ o.wait = obs[n].wait
          /\ o.peakQueue = Larger(obs[n].peakQueue, Len(u))
      BY <1>4, <2>4 DEF AdmittedTo, ObsFields
    <2>7. Conf[n].queue = "enabled" /\ Conf[n].bounded => Len(u) <= Conf[n].maxSize
      BY <1>1, <1>5, <2>1, <2>2 DEF Full
    <2>8. QueueCounted(o, u, Conf[n])
      <3>1. PICK v : v = obs[n]
        OBVIOUS
      <3>2. /\ o.enqueued = v.enqueued + 1 /\ o.dequeued = v.dequeued + 0
            /\ o.dropped = v.dropped + 0 /\ o.wait.count = v.wait.count + 0
            /\ o.peakQueue = v.peakQueue \/ o.peakQueue = Len(u)
            /\ Len(u) = Len(q) + 1 - 0 - 0 /\ QueueCounted(v, q, Conf[n])
        BY <1>5, <2>2, <2>6, <3>1 DEF Larger, QueueCounted
      <3> QED BY <1>5, <2>7, <3>2, CountsMove
    <2> QED BY <1>1, <1>2, <1>3, <1>4, <1>5, <1>8, <2>1, <2>2, <2>4, <2>5, <2>8, CountsChange
  <1>10. CASE Displaces(e)
    <2>1. u = Append(Tail(q), x) /\ queue' = [queue EXCEPT ![n] = u] /\ Full(n) /\ q # <<>>
          /\ Conf[n].queue = "enabled" /\ Conf[n].bounded
      BY <1>1, <1>2, <1>3, <1>10 DEF Displaces, NoPlace, Full
    <2>2. /\ Len(u) = Len(q) /\ Len(q) \in DOMAIN q /\ u[Len(q)] = x /\ Head(q) \in Range(q)
          /\ \A r : r # x => (r \in Range(u) <=> r \in Range(q) /\ r # Head(q))
          /\ x \in Range(u)
      <3>1. IsReplaced(q, x, u)
        BY <1>2, <1>3, <2>1, Replaced
      <3> QED BY <3>1 DEF IsReplaced
    <2>3. u # q
      BY <1>3, <2>2
    <2>4. PICK o : /\ o = AdmittedTo(obs[n], TRUE, Len(u)) /\ obs' = [obs EXCEPT ![n] = o]
      BY <1>7, <2>1, <2>3
    <2>5. stamp' = [r \in Requests |-> IF r = x THEN t
                                       ELSE IF r = Head(q) THEN NotQueued ELSE stamp[r]]
      BY <1>7, <2>1, <2>3
    <2>6. /\ o.enqueued = obs[n].enqueued + 1 /\ o.dropped = obs[n].dropped + 1
          /\ o.dequeued = obs[n].dequeued /\ o.wait = obs[n].wait
          /\ o.peakQueue = Larger(obs[n].peakQueue, Len(u))
      BY <1>4, <2>4 DEF AdmittedTo, ObsFields
    <2>7. QueueCounted(o, u, Conf[n])
      <3>1. PICK v : v = obs[n]
        OBVIOUS
      <3>2. /\ o.enqueued = v.enqueued + 1 /\ o.dequeued = v.dequeued + 0
            /\ o.dropped = v.dropped + 1 /\ o.wait.count = v.wait.count + 0
            /\ o.peakQueue = v.peakQueue \/ o.peakQueue = Len(u)
            /\ Len(u) = Len(q) + 1 - 0 - 1 /\ QueueCounted(v, q, Conf[n])
        BY <1>5, <2>2, <2>6, <3>1 DEF Larger, QueueCounted
      <3>3. Len(u) <= Conf[n].maxSize
        BY <1>5, <2>1, <2>2 DEF QueueCounted
      <3> QED BY <1>5, <3>2, <3>3, CountsMove
    <2> QED BY <1>1, <1>2, <1>3, <1>4, <1>5, <1>8, <2>1, <2>2, <2>4, <2>5, <2>7, CountsChange
  <1> QED BY <1>6, <1>9, <1>10

\* A drain: those it starts have been dequeued, and their waits recorded.
LEMMA DrainCounted ==
    ASSUME BasicInv, PlacesOK, HealthOK, CountsOK, collect, collect' = collect,
           NEW e \in events, Dequeued(e), Aside(e) \/ Drains(e)
    PROVE  CountsOK'
  <1>1. PICK n, q, u : n = e.node /\ q = queue[n] /\ u = queue'[n]
    OBVIOUS
  <1>2. n \in Nodes
    BY <1>1 DEF BasicInv, TypeOK, Event
  <1>3. /\ DOMAIN queue = Nodes /\ q \in Seq(Requests) /\ IsInjective(q)
        /\ \A m \in Nodes : m # n => Range(queue[m]) \cap Range(queue[n]) = {}
    BY <1>1, <1>2, OneQueue
  <1>4. DOMAIN obs = Nodes /\ DOMAIN obs[n] = ObsFields
    BY <1>2 DEF HealthOK
  <1>5. /\ QueueCounted(obs[n], q, Conf[n]) /\ DOMAIN stamp = Requests /\ Len(q) \in Nat
        /\ Conf[n].maxSize \in Nat
    <2>1. Conf[n] \in Config
      BY <1>2, RuntimeAssumption DEF RuntimeAssumption
    <2>2. Conf[n].maxSize \in Nat
      BY <2>1 DEF Config
    <2> QED BY <1>1, <1>2, <1>3, <2>2 DEF CountsOK
  <1>6. PICK k \in 0 .. Len(q) :
          /\ \A m \in Nodes : m # n => queue'[m] = queue[m]
          /\ u = SubSeq(q, k + 1, Len(q))
    <2>1. CASE Aside(e)
      <3>1. queue' = queue /\ 0 \in 0 .. Len(q)
        BY <1>5, <2>1 DEF Aside
      <3>2. u = q /\ SubSeq(q, 0 + 1, Len(q)) = q
        BY <1>1, <1>3, <3>1
      <3> QED BY <3>1, <3>2
    <2>2. CASE Drains(e)
      <3>1. PICK k \in 0 .. Len(q) : queue' = [queue EXCEPT ![n] = SubSeq(@, k + 1, Len(@))]
        BY <1>1, <2>2 DEF Drains
      <3> QED BY <1>1, <1>2, <1>3, <3>1
    <2> QED BY <2>1, <2>2
  <1>7. /\ Len(u) = Len(q) - k
        /\ \A r : r \in Range(u) <=> r \in Range(q) /\ ~\E i \in 1 .. k : q[i] = r
    <2>1. IsCut(q, k, u)
      BY <1>3, <1>6, Cut
    <2> QED BY <2>1 DEF IsCut
  <1>8. k = Len(q) - Len(u) /\ k \in Nat
    BY <1>5, <1>7
  <1>9. PICK h, t, w : h = obs[n].wait /\ t = e.at /\ w = Waited(h, t, stamp, q, k)
    OBVIOUS
  <1>10. /\ obs'[n].dequeued = obs[n].dequeued + k /\ obs'[n].wait = w[k]
         /\ \A x \in {"enqueued", "dropped", "peakQueue"} : obs'[n][x] = obs[n][x]
         /\ \A m \in Nodes : m # n => obs'[m] = obs[m]
         /\ DOMAIN stamp' = Requests
         /\ \A r \in Requests :
               IF \E i \in 1 .. k : q[i] = r THEN stamp'[r] = NotQueued
               ELSE stamp'[r] = stamp[r]
    <2>1. k = Len(queue[n]) - Len(queue'[n]) /\ n = e.node
      BY <1>1, <1>8
    <2>2. DrainRecorded(e, n, k)
      BY <1>2, <2>1, DrainRecords
    <2> QED BY <1>1, <1>9, <2>2 DEF DrainRecorded
  <1>11. w[k].count = obs[n].wait.count + k
    <2>1. PICK s : s = stamp
      OBVIOUS
    <2>2. h.count \in Int /\ w = Waited(h, t, s, q, k)
      BY <1>5, <1>9, <2>1 DEF QueueCounted
    <2>3. w[k].count = h.count + k
      BY <1>8, <2>2, WaitedCounts
    <2> QED BY <1>9, <2>3
  <1>12. QueueCounted(obs'[n], u, Conf[n])
    <2>1. PICK o, p : o = obs[n] /\ p = obs'[n]
      OBVIOUS
    <2>2. /\ p.enqueued = o.enqueued + 0 /\ p.dequeued = o.dequeued + k
          /\ p.dropped = o.dropped + 0 /\ p.wait.count = o.wait.count + k
          /\ p.peakQueue = o.peakQueue /\ QueueCounted(o, q, Conf[n])
          /\ Len(u) = Len(q) + 0 - k - 0
      BY <1>5, <1>7, <1>8, <1>10, <1>11, <2>1 DEF QueueCounted
    <2>3. Conf[n].queue = "enabled" /\ Conf[n].bounded => Len(u) <= Conf[n].maxSize
      BY <1>5, <1>7, <1>8 DEF QueueCounted
    <2>4. QueueCounted(p, u, Conf[n])
      BY <1>5, <1>8, <2>2, <2>3, CountsMove
    <2> QED BY <2>1, <2>4
  <1>13. \A i \in 1 .. k : q[i] \in Range(q)
    BY <1>5, <1>6 DEF Range
  <1>14. \A r \in Requests :
              \/ stamp'[r] = NotQueued /\ r \notin Range(u) /\ r \in Range(q)
              \/ stamp'[r] = stamp[r] /\ (r \in Range(u) <=> r \in Range(q))
    BY <1>7, <1>10, <1>13
  <1>15. /\ \A m \in Nodes : m # n => queue'[m] = queue[m] /\ obs'[m] = obs[m]
         /\ QueueCounted(obs'[n], queue'[n], Conf[n])
         /\ \A r \in Requests :
              \/ stamp'[r] # NotQueued /\ r \in Range(queue'[n])
              \/ stamp'[r] = NotQueued /\ r \notin Range(queue'[n]) /\ r \in Range(queue[n])
              \/ stamp'[r] = stamp[r] /\ (r \in Range(queue'[n]) <=> r \in Range(queue[n]))
    BY <1>1, <1>6, <1>10, <1>12, <1>14
  <1>16. DOMAIN stamp' = Requests
    BY <1>10
  <1> QED BY <1>2, <1>3, <1>15, <1>16, CountsChange

\* Every step of an observed run counts who joins and who leaves a queue.
LEMMA CountsKept ==
    ASSUME Base, PlacesOK, HealthOK, CountsOK, NEW e \in events, Recording(e)
    PROVE  CountsOK'
  <1> SUFFICES ASSUME collect PROVE CountsOK'
    BY DEF Recording, CountsOK
  <1>1. /\ Handle(e) /\ ~Throw(e) /\ Records(e) /\ collect' = collect /\ PlacePart(e)
        /\ BasicInv
    BY DEF Recording, Base
  <1>2. ASSUME QueueFields \cap Touched(e) = {}
        PROVE  \A n \in Nodes : \A x \in QueueFields : obs'[n][x] = obs[n][x]
    <2>1. QueueFields \subseteq ObsFields
      BY DEF QueueFields, ObsFields
    <2>2. \A n \in Nodes : OnlyIn(obs'[n], obs[n], Touched(e))
      BY <1>1, RecordTouches
    <2> QED BY <1>2, <2>1, <2>2 DEF OnlyIn
  <1>3. CASE e.type = "request.processing_started"
    <2>1. ProcessingStarted(e) /\ Begun(e)
      BY <1>1, <1>3, HandlerByType, RecordByType
    <2>2. CASE UNCHANGED <<req, comp, queue, work, obs, store, stamp>>
      BY <1>1, <2>2, CountsUntouched
    <2>3. CASE /\ ~HasCapacity(e.node) /\ QueuedOrNot(e) /\ UNCHANGED comp
               /\ TurnedAway(e) \/ Displaces(e) \/ Waits(e)
      BY <1>1, <1>3, <2>3, QueuedCounted
    <2>4. CASE HasCapacity(e.node) /\ Tried(e) /\ Attempt(e) /\ UNCHANGED queue
      <3>1. QueueFields \cap Touched(e) = {}
        BY <1>3, <2>4 DEF QueueFields, Touched, HealthFields
      <3>2. stamp' = stamp
        BY <2>4 DEF Tried
      <3> QED BY <1>1, <1>2, <2>4, <3>1, <3>2, CountsUntouched
    <2> QED BY <1>1, <2>1, <2>2, <2>3, <2>4, StartCases
  <1>4. CASE e.type = "queue.drain"
    <2>1. QueueDrain(e) /\ Dequeued(e)
      BY <1>1, <1>4, HandlerByType, RecordByType
    <2>2. Aside(e) \/ Drains(e)
      BY <2>1, QueueDrainStep, RuntimeAssumption DEF Base
    <2> QED BY <1>1, <2>1, <2>2, DrainCounted
  <1>5. CASE e.type \notin {"request.processing_started", "queue.drain"}
    <2>1. queue' = queue
      BY <1>1, <1>5 DEF PlacePart, MovesTo, Joins, DisplacesOldest, Ends, Drains, Aside
    <2>2. stamp' = stamp
      BY <1>1, <1>5 DEF Records, Transmitted, Arrived, Filled, Operated, Begun, Finished,
         Dequeued, Succeeded, Lost, Retried, FailedOrRecovered, Assessed, Resized, Ignored
    <2>3. QueueFields \cap Touched(e) = {}
      BY <1>5 DEF QueueFields, Touched, HealthFields
    <2> QED BY <1>1, <1>2, <2>1, <2>2, <2>3, CountsUntouched
  <1> QED BY <1>3, <1>4, <1>5

\* The counts of a run that has not failed.
CountsInv == status # "failed" => CountsOK

\* They agree when a run has been prepared.
LEMMA CountsFirst ==
    ASSUME MetricsInit
    PROVE  CountsOK
  <1>1. /\ queue = [n \in Nodes |-> <<>>] /\ obs = [n \in Nodes |-> Unobserved(n)]
        /\ stamp = [r \in Requests |-> NotQueued]
    BY DEF MetricsInit, Init
  <1>2. ASSUME NEW n \in Nodes
        PROVE  QueueCounted(obs[n], queue[n], Conf[n])
    <2>1. PICK o : o = obs[n]
      OBVIOUS
    <2>2. /\ o.enqueued = 0 /\ o.dequeued = 0 /\ o.dropped = 0 /\ o.wait.count = 0
          /\ o.peakQueue = 0 /\ queue[n] = <<>>
      BY <1>1, <2>1 DEF Unobserved, EmptyHistogram
    <2>3. Conf[n].maxSize \in Nat
      <3>1. Conf[n] \in Config
        BY RuntimeAssumption DEF RuntimeAssumption
      <3> QED BY <3>1 DEF Config
    <2>4. Len(<<>>) = 0
      OBVIOUS
    <2> QED BY <2>1, <2>2, <2>3, <2>4 DEF QueueCounted
  <1>3. \A r : ~InQueue(r)
    BY <1>1 DEF InQueue, Range
  <1> QED BY <1>1, <1>2, <1>3 DEF CountsOK

\* Who waits somewhere is counted by the queues together.
LEMMA QueuesHold ==
    ASSUME BasicInv, PlacesOK, CountsOK, collect
    PROVE  Cardinality({r \in Requests : stamp[r] # NotQueued})
             = Sum([n \in Nodes |-> Len(queue[n])], Nodes)
  <1>1. PICK H, f : H = [n \in Nodes |-> Range(queue[n])] /\ f = [n \in Nodes |-> Len(queue[n])]
    OBVIOUS
  <1>2. IsFiniteSet(Nodes)
    BY MetricsAssumption DEF MetricsAssumption
  <1>3. ASSUME NEW n \in Nodes
        PROVE  IsFiniteSet(H[n]) /\ Cardinality(H[n]) = f[n]
    <2>1. PICK q : q = queue[n]
      OBVIOUS
    <2>2. q \in Seq(Requests) /\ IsInjective(q)
      BY <2>1, OneQueue
    <2>3. H[n] = {q[i] : i \in DOMAIN q} /\ f[n] = Len(q)
      BY <1>1, <2>1 DEF Range
    <2>4. /\ IsFiniteSet({q[i] : i \in DOMAIN q})
          /\ Cardinality({q[i] : i \in DOMAIN q}) = Len(q)
      BY <2>2, MembersOf
    <2> QED BY <2>3, <2>4
  <1>4. \A m, n \in Nodes : m # n => H[m] \cap H[n] = {}
    BY <1>1, OneQueue
  <1>5. Cardinality(UNION {H[n] : n \in Nodes}) = Sum(f, Nodes)
    BY <1>2, <1>3, <1>4, SizesAddUp
  <1>6. {r \in Requests : stamp[r] # NotQueued} = UNION {H[n] : n \in Nodes}
    <2>1. \A n \in Nodes : H[n] \subseteq Requests
      <3> SUFFICES ASSUME NEW n \in Nodes PROVE H[n] \subseteq Requests
        OBVIOUS
      <3>1. PICK q : q = queue[n]
        OBVIOUS
      <3>2. q \in Seq(Requests) /\ H[n] = {q[i] : i \in DOMAIN q}
        BY <1>1, <3>1, OneQueue DEF Range
      <3> QED BY <3>2
    <2>2. \A r \in Requests : stamp[r] # NotQueued <=> \E n \in Nodes : r \in H[n]
      BY <1>1 DEF CountsOK, InQueue
    <2> QED BY <2>1, <2>2
  <1> QED BY <1>1, <1>5, <1>6

\* What the report says of queues.
LEMMA CountsReported ==
    ASSUME BasicInv, PlacesOK, CountsOK
    PROVE  QueuesAddUp
  <1> SUFFICES ASSUME collect, NEW m, m = BuildEnabled
               PROVE  /\ \A n \in Nodes :
                            LET q == m.components[n].queue
                            IN  /\ q.enqueued = q.dequeued + q.dropped + q.current
                                /\ q.wait.count = q.dequeued
                                /\ Conf[n].queue = "enabled" /\ Conf[n].bounded
                                   => q.peak <= Conf[n].maxSize
                      /\ m.requests.queued
                           = m.queues.enqueued - m.queues.dequeued - m.queues.dropped
    BY DEF QueuesAddUp, Reports, Report
  <1>1. ASSUME NEW n \in Nodes, NEW q, q = m.components[n].queue
        PROVE  /\ q.enqueued = q.dequeued + q.dropped + q.current
               /\ q.wait.count = q.dequeued
               /\ Conf[n].queue = "enabled" /\ Conf[n].bounded => q.peak <= Conf[n].maxSize
    <2>1. q = QueueReport(n)
      <3>1. m.components[n] = ComponentReport(n)
        BY DEF BuildEnabled
      <3> QED BY <1>1, <3>1 DEF ComponentReport
    <2>2. /\ q.enqueued = obs[n].enqueued /\ q.dequeued = obs[n].dequeued
          /\ q.dropped = obs[n].dropped /\ q.current = Len(queue[n])
          /\ q.peak = obs[n].peakQueue /\ q.wait.count = obs[n].wait.count
      BY <2>1 DEF QueueReport, Summary
    <2> QED BY <2>2 DEF CountsOK, QueueCounted
  <1>2. PICK in, out, lost, held, some :
           /\ in = [n \in Nodes |-> obs[n].enqueued] /\ out = [n \in Nodes |-> obs[n].dequeued]
           /\ lost = [n \in Nodes |-> obs[n].dropped] /\ held = [n \in Nodes |-> Len(queue[n])]
           /\ some = [n \in Nodes |-> obs[n].dropped + Len(queue[n])]
    OBVIOUS
  <1>3. /\ m.requests.queued = Cardinality({r \in Requests : stamp[r] # NotQueued})
        /\ m.queues.enqueued = Total(in) /\ m.queues.dequeued = Total(out)
        /\ m.queues.dropped = Total(lost)
    BY <1>2 DEF BuildEnabled, QueueTotals
  <1>4. Total(in) = Sum(in, Nodes) /\ Total(out) = Sum(out, Nodes) /\ Total(lost) = Sum(lost, Nodes)
    BY <1>2 DEF Total, Sum, SumFunction
  <1>5. IsFiniteSet(Nodes)
    BY MetricsAssumption DEF MetricsAssumption
  <1>6. \A n \in Nodes : /\ in[n] \in Int /\ out[n] \in Int /\ lost[n] \in Int
                         /\ held[n] \in Int /\ some[n] \in Int
                         /\ some[n] = lost[n] + held[n] /\ in[n] = out[n] + some[n]
    <2> SUFFICES ASSUME NEW n \in Nodes
                 PROVE  /\ in[n] \in Int /\ out[n] \in Int /\ lost[n] \in Int
                        /\ held[n] \in Int /\ some[n] \in Int
                        /\ some[n] = lost[n] + held[n] /\ in[n] = out[n] + some[n]
      OBVIOUS
    <2>1. QueueCounted(obs[n], queue[n], Conf[n])
      BY DEF CountsOK
    <2>2. Len(queue[n]) \in Nat
      <3>1. queue[n] \in Seq(Requests)
        BY OneQueue
      <3> QED BY <3>1
    <2> QED BY <1>2, <2>1, <2>2 DEF QueueCounted
  <1>7. Sum(some, Nodes) = Sum(lost, Nodes) + Sum(held, Nodes)
    BY <1>5, <1>6, SumAdds
  <1>8. Sum(in, Nodes) = Sum(out, Nodes) + Sum(some, Nodes)
    BY <1>5, <1>6, SumAdds
  <1>9. /\ Sum(in, Nodes) \in Int /\ Sum(out, Nodes) \in Int /\ Sum(lost, Nodes) \in Int
        /\ Sum(held, Nodes) \in Int
    BY <1>5, <1>6, SumWithout
  <1>10. m.requests.queued = Sum(held, Nodes)
    BY <1>2, <1>3, QueuesHold
  <1>11. m.requests.queued = m.queues.enqueued - m.queues.dequeued - m.queues.dropped
    BY <1>3, <1>4, <1>7, <1>8, <1>9, <1>10
  <1> QED BY <1>1, <1>11

\* At every component, whoever was enqueued was dequeued or dropped, or waits, each
\* that was dequeued has its wait recorded, and a bounded queue was never beyond
\* its bound; and the requests with a time of joining, which the report counts as
\* queued, are as many as the queues hold: however starts, drops, drains and
\* failures interleave.
THEOREM QueuesAlwaysAddUp == MetricsSpec => []QueuesAddUp
  <1> DEFINE Inv == RunInv /\ HealthInv /\ CountsInv
  <1>1. MetricsInit => Inv
    <2> SUFFICES ASSUME MetricsInit PROVE Inv
      OBVIOUS
    <2>1. RunInv
      BY RunInvFirst, RuntimeAssumption DEF MetricsInit
    <2>2. HealthInv /\ CountsInv
      BY HealthFirst, CountsFirst DEF HealthInv, CountsInv
    <2> QED BY <2>1, <2>2
  <1>2. Inv /\ [MetricsNext]_<<vars, telemetry>> => Inv'
    <2> SUFFICES ASSUME Inv, [MetricsNext]_<<vars, telemetry>> PROVE Inv'
      OBVIOUS
    <2>1. /\ [Next]_vars
          /\ \/ UNCHANGED <<vars, telemetry>>
             \/ status' = "failed" /\ UNCHANGED <<model, telemetry>>
             \/ /\ status = "running" /\ status' # "failed"
                /\ \E e \in events : Recording(e)
      BY RecordingStep, RuntimeAssumption DEF RunInv
    <2>2. RunInv'
      BY <2>1, RunInvKept, RuntimeAssumption
    <2>3. CASE UNCHANGED <<vars, telemetry>>
      <3>1. UNCHANGED <<status, comp, queue, collect, health, obs, stamp>>
        BY <2>3 DEF vars, model, telemetry
      <3>2. HealthInv' /\ CountsInv'
        BY <3>1 DEF HealthInv, HealthOK, CountsInv, CountsOK, InQueue
      <3> QED BY <2>2, <3>2
    <2>4. CASE status' = "failed"
      BY <2>2, <2>4 DEF HealthInv, CountsInv
    <2>5. CASE status = "running" /\ \E e \in events : Recording(e)
      <3>1. PICK e \in events : Recording(e)
        BY <2>5
      <3>2. Base /\ BasicInv /\ PlacesOK /\ HealthOK /\ CountsOK
        BY <2>5 DEF RunInv, Base, PlacesInv, HealthInv, CountsInv
      <3>3. HealthOK'
        BY <3>1, <3>2, HealthKept, RuntimeAssumption
      <3>4. CountsOK'
        BY <3>1, <3>2, CountsKept
      <3> QED BY <2>2, <3>3, <3>4 DEF HealthInv, CountsInv
    <2> QED BY <2>1, <2>3, <2>4, <2>5
  <1>3. Inv => QueuesAddUp
    <2>1. ASSUME Inv, status # "failed" PROVE QueuesAddUp
      <3>1. BasicInv /\ PlacesOK /\ CountsOK
        BY <2>1 DEF RunInv, Base, PlacesInv, CountsInv
      <3> QED BY <3>1, CountsReported
    <2>2. status = "failed" => QueuesAddUp
      BY DEF QueuesAddUp, Reports
    <2> QED BY <2>1, <2>2
  <1> QED BY <1>1, <1>2, <1>3, PTL DEF MetricsSpec

-----------------------------------------------------------------------------
(* Failures and their reasons.                                                *)

MayRetry == {"request.retry", "request.reroute"}

\* The events that create, retry or fail a request, and the others of requests.
Turning == MayRetry \cup {"request.failed", "request.created"}

Onward == RequestEvent \ Turning

\* The reasons for which a request fails when its retries are used up.
Blamed == {"component_error", "network_packet_loss"}

\* The requests that have failed, the ones an attempt or a transmission is to
\* blame for, and the retries that are going to be made.
Fallen == {r \in Requests : req[r].status = "failed"}

AtFault == {r \in Requests : why[r] \in Blamed}

Coming == {f \in events : f.type \in MayRetry}

\* A failure on its way, or made, has a known reason; any other request none.
ReasonsOK ==
    /\ \A r \in Requests : why[r] \in Reasons
    /\ \A f \in events : f.type = "request.failed" => why[f.req] # "unknown"
    /\ \A r \in Requests : why[r] # "unknown"
          => r \in Fallen \/ \E f \in events : f.type = "request.failed" /\ f.req = r

\* One event takes the place of e, and is the only new one of a request.
Follows(e, f) ==
    /\ f \in events' /\ f \notin events /\ f.type \in RequestEvent
    /\ \A g \in Event : g.type \in RequestEvent
          => (g \in events' <=> (g \in events /\ g # e) \/ g = f)

\* No request is created, retried or failed anew; only e is taken.
Calm(e) ==
    \A g \in Event : g.type \in Turning => (g \in events' <=> g \in events /\ g # e)

\* The request of e goes on with an event of one of these types.
GoesTo(e, types) ==
    /\ e.type \in RequestEvent \ {"request.failed"}
    /\ \E f : Follows(e, f) /\ f.req = e.req /\ f.type \in types

\* The request that has waited longest where e happens fails instead.
Drops(e) ==
    /\ queue[e.node] # <<>>
    /\ \E f : Follows(e, f) /\ f.req = Head(queue[e.node]) /\ f.type = "request.failed"

\* An attempt or a transmission that fails: its request is retried or fails.
InVain(e) ==
    /\ e.type \in {"network.transmission_started", "request.processing_started"}
    /\ Reason(e) \in Blamed
    /\ GoesTo(e, MayRetry \cup {"request.failed"})

\* No request is retried anew, and none fails for what an attempt is to blame for.
InOrder(e) ==
    \/ Calm(e)
    \/ /\ Reason(e) \notin Blamed
       /\ Drops(e) \/ GoesTo(e, {"request.failed"})
    \/ GoesTo(e, Onward)

\* The reasons that are given at all.
LEMMA ReasonGiven ==
    ASSUME NEW e
    PROVE  /\ Reason(e) \in Reasons /\ Reason(e) # "unknown"
           /\ e.type \notin {"network.transmission_started", "request.processing_started"}
              => Reason(e) \notin Blamed
           /\ e.type = "network.transmission_started" => Reason(e) \in Blamed
  <1>1. RouteReason(e.node) \in {"circuit_open", "no_available_destination"}
    BY DEF RouteReason
  <1>2. CASE e.type = "network.transmission_started"
    BY <1>2 DEF Reason, Reasons, Blamed
  <1>3. CASE e.type = "cache.hit"
    BY <1>3 DEF Reason, Reasons, Blamed
  <1>4. CASE e.type = "request.processing_started"
    BY <1>1, <1>4 DEF Reason, Reasons, Blamed
  <1>5. CASE e.type = "request.routed"
    BY <1>1, <1>5 DEF Reason, Reasons, Blamed
  <1>6. CASE e.type \notin {"network.transmission_started", "cache.hit",
                            "request.processing_started", "request.routed"}
    BY <1>1, <1>6 DEF Reason, Reasons, Blamed
  <1> QED BY <1>2, <1>3, <1>4, <1>5, <1>6

\* An attempt is to blame exactly for what fails at a component that has
\* admitted the request and has a slot for it.
LEMMA AttemptToBlame ==
    ASSUME NEW e, e.type = "request.processing_started"
    PROVE  Reason(e) \in Blamed
              <=> /\ Admits(circuit[e.node], e.req) /\ ~comp[e.node].failed
                  /\ HasCapacity(e.node)
  <1>1. RouteReason(e.node) \notin Blamed
    BY DEF RouteReason, Blamed
  <1> QED BY <1>1 DEF Reason, Blamed

\* The failed requests are the same but for the one whose failure is handled.
LEMMA FallenStay ==
    ASSUME BasicInv, NEW e \in events, Handle(e), ~Throw(e)
    PROVE  Fallen' = IF e.type = "request.failed" THEN Fallen \cup {e.req} ELSE Fallen
  <1>1. req \in ReqType
    BY DEF BasicInv, TypeOK, ReqType
  <1>2. ASSUME req' = req PROVE Fallen' = Fallen
    BY <1>2 DEF Fallen
  <1>3. ASSUME NEW s, Becomes(e.req, s), s # "failed", ~Over(e.req) PROVE Fallen' = Fallen
    BY <1>1, <1>3 DEF Fallen, Becomes, ReqType, Over
  <1>4. ASSUME NEW r \in Requests, NEW k, req' = [req EXCEPT ![r].attempts = k]
        PROVE  Fallen' = Fallen
    BY <1>1, <1>4 DEF Fallen, ReqType
  <1>5. CASE Transmission(e)
    <2>1. e.type # "request.failed" /\ e.req \in Requests
      BY <1>5 DEF Transmission, BasicInv, Sound, RequestEvent
    <2> QED BY <1>2, <1>4, <1>5, <2>1 DEF Transmission, model
  <1>6. CASE CacheMiss(e)
    <2>1. e.type # "request.failed" /\ req' = [req EXCEPT ![e.req].miss = TRUE]
      BY <1>6 DEF CacheMiss
    <2> QED BY <1>1, <2>1 DEF Fallen, ReqType
  <1>7. CASE Created(e) \/ Reroute(e) \/ DatabaseResponse(e)
    BY <1>2, <1>7 DEF Created, Reroute, DatabaseResponse, JustRoutes, Rest
  <1>8. CASE Routed(e)
    BY <1>2, <1>3, <1>8 DEF Routed, Refused, model
  <1>9. CASE CacheHit(e) \/ CacheSet(e) \/ DatabaseRequest(e) \/ QueueDrain(e) \/ Retry(e)
    BY <1>2, <1>9 DEF CacheHit, CacheSet, DatabaseRequest, QueueDrain, Retry, model
  <1>10. CASE ProcessingCompleted(e)
    BY <1>2, <1>10 DEF ProcessingCompleted
  <1>11. CASE ProcessingStarted(e)
    <2>1. e.type # "request.failed" /\ ~Over(e.req)
      BY <1>11 DEF ProcessingStarted
    <2>2. ASSUME Attempt(e) PROVE Fallen' = Fallen
      BY <1>1, <2>1, <2>2 DEF Attempt, Fallen, ReqType, Over
    <2>3. ASSUME TurnedAway(e) \/ Displaces(e) \/ Waits(e) PROVE Fallen' = Fallen
      BY <1>2, <1>3, <2>1, <2>3 DEF TurnedAway, Displaces, Waits
    <2> QED BY <1>2, <1>11, <2>1, <2>2, <2>3 DEF ProcessingStarted, Refused, model
  <1>12. CASE Completed(e)
    BY <1>3, <1>12 DEF Completed
  <1>13. CASE RequestFailed(e)
    <2>1. e.type = "request.failed" /\ Becomes(e.req, "failed")
      BY <1>13 DEF RequestFailed
    <2>2. e.req \in Requests
      BY <2>1 DEF BasicInv, Sound, RequestEvent
    <2> QED BY <1>1, <2>1, <2>2 DEF Fallen, Becomes, ReqType
  <1>14. CASE ComponentFailed(e) \/ Recovery(e) \/ Recovered(e) \/ HalfOpen(e)
              \/ Evaluate(e) \/ Scaled(e)
    BY <1>2, <1>14 DEF ComponentFailed, Recovery, Recovered, HalfOpen, Evaluate, Scaled, model
  <1> QED BY <1>5, <1>6, <1>7, <1>8, <1>9, <1>10, <1>11, <1>12, <1>13, <1>14 DEF Handle

\* A move is to one event.
LEMMA MoveGoes ==
    ASSUME NEW e, NEW n, NEW types \in SUBSET RequestEvent, MovesTo(e, n, types),
           e.type # "request.failed"
    PROVE  GoesTo(e, types)
  BY DEF MovesTo, GoesTo, Follows

\* A handler that moves its request on otherwise than by a retry.
LEMMA MoveInOrder ==
    ASSUME NEW e, NEW n, NEW types \in SUBSET (RequestEvent \ (MayRetry \cup {"request.created"})),
           MovesTo(e, n, types),
           e.type \notin {"network.transmission_started", "request.processing_started",
                         "request.failed"}
    PROVE  InOrder(e)
  <1>1. Reason(e) \notin Blamed
    BY ReasonGiven
  <1>2. GoesTo(e, types)
    BY MoveGoes
  <1> QED BY <1>1, <1>2 DEF InOrder, GoesTo, Onward, Turning

\* Only attempts and transmissions make retries.
LEMMA OthersInOrder ==
    ASSUME RuntimeAssumption, BasicInv, WithinSlots, NEW e \in events, Handle(e), ~Throw(e),
           e.type \notin {"network.transmission_started", "request.processing_started"}
    PROVE  InOrder(e)
  <1>1. ~Transmission(e) /\ ~ProcessingStarted(e)
    BY DEF Transmission, ProcessingStarted
  <1> DEFINE X == {"network.transmission_started", "request.completed", "request.failed",
                   "database.response", "request.processing_started"} \cup Desk
  <1>2. X \in SUBSET (RequestEvent \ (MayRetry \cup {"request.created"}))
    BY DEF MayRetry, RequestEvent, Desk
  <1>3. ASSUME NEW n, NEW types \in SUBSET X, MovesTo(e, n, types), e.type # "request.failed"
        PROVE  InOrder(e)
    <2> HIDE DEF X
    <2>1. types \in SUBSET (RequestEvent \ (MayRetry \cup {"request.created"}))
      BY <1>2
    <2> QED BY <1>3, <2>1, MoveInOrder
  <1>4. ASSUME Ends(e) \/ Aside(e) \/ Drains(e) PROVE Calm(e)
    <2>1. Turning \subseteq RequestEvent
      BY DEF MayRetry, RequestEvent, Turning
    <2>2. ASSUME NEW g \in Event, g.type \in Turning
          PROVE  g \in events' <=> g \in events /\ g # e
      <3>1. g.type \in RequestEvent
        BY <2>1, <2>2
      <3>2. CASE Ends(e)
        BY <3>1, <3>2 DEF Ends
      <3>3. CASE Aside(e)
        <4>1. e.type \notin RequestEvent
          BY <3>3 DEF Aside, NodeEvent, RequestEvent
        <4> QED BY <3>1, <3>3, <4>1 DEF Aside
      <3>4. CASE Drains(e)
        <4>1. PICK k \in 0 .. Len(queue[e.node]) :
                 /\ \A i \in 1 .. k : Woken(e, i).type = "request.processing_started"
                 /\ \A f \in Event : f.type \in RequestEvent
                       => (f \in events' <=> f \in events \/ \E i \in 1 .. k : f = Woken(e, i))
          BY <3>4 DEF Drains
        <4>2. g.type # "request.processing_started" /\ e.type # g.type
          BY <2>2, <3>4 DEF MayRetry, Turning, Drains
        <4> QED BY <3>1, <4>1, <4>2
      <3> QED BY <1>4, <3>2, <3>3, <3>4
    <2> QED BY <2>2 DEF Calm
  <1>5. CASE Created(e) \/ Reroute(e) \/ DatabaseResponse(e)
    <2>1. /\ e.type \in {"request.created", "request.reroute", "database.response"}
          /\ JustRoutes(e)
      BY <1>5 DEF Created, Reroute, DatabaseResponse
    <2>2. MovesTo(e, e.node, {"network.transmission_started", "request.completed",
                              "request.failed"})
      BY <2>1, JustRoutesStep
    <2> QED BY <1>3, <2>1, <2>2
  <1>6. CASE Routed(e)
    <2>1. MovesTo(e, e.node, Desk \cup {"request.failed"}) /\ e.type # "request.failed"
      BY <1>6, RoutedStep DEF Routed
    <2>2. Desk \cup {"request.failed"} \in SUBSET X
      OBVIOUS
    <2> QED BY <1>3, <2>1, <2>2
  <1>7. CASE CacheMiss(e) \/ DatabaseRequest(e) \/ Retry(e)
    <2>1. e.type # "request.failed" /\ MovesTo(e, e.node, {"request.processing_started"})
      BY <1>7, CacheMissStep, DatabaseRequestStep, RetryStep DEF CacheMiss, DatabaseRequest, Retry
    <2> QED BY <1>3, <2>1
  <1>8. CASE CacheHit(e)
    <2>1. e.type # "request.failed" /\ MovesTo(e, e.node, {"request.failed", "request.completed"})
      BY <1>8, CacheHitStep DEF CacheHit
    <2> QED BY <1>3, <2>1
  <1>9. CASE ProcessingCompleted(e)
    <2>1. e.type # "request.failed"
          /\ MovesTo(e, e.node, {"network.transmission_started", "request.completed",
                                 "request.failed", "database.response"})
      BY <1>9, ProcessingCompletedStep DEF ProcessingCompleted, WorkDone
    <2> QED BY <1>3, <2>1
  <1>10. CASE Completed(e) \/ RequestFailed(e)
    BY <1>4, <1>10, EndsStep DEF InOrder
  <1>11. CASE CacheSet(e)
    BY <1>4, <1>11, CacheSetStep DEF InOrder
  <1>12. CASE QueueDrain(e)
    BY <1>4, <1>12, QueueDrainStep DEF InOrder
  <1>13. CASE ComponentFailed(e) \/ Recovery(e) \/ Recovered(e)
    BY <1>4, <1>13, ComponentFailedStep, RecoveryStep, RecoveredStep DEF InOrder
  <1>14. CASE HalfOpen(e) \/ Evaluate(e) \/ Scaled(e)
    BY <1>4, <1>14, HalfOpenStep, EvaluateStep, ScaledStep DEF InOrder
  <1> QED BY <1>1, <1>5, <1>6, <1>7, <1>8, <1>9, <1>10, <1>11, <1>12, <1>13, <1>14 DEF Handle

\* A transmission that is lost is in vain, one that arrives in order.
LEMMA TransmissionOutcome ==
    ASSUME RuntimeAssumption, BasicInv, NEW e \in events, Transmission(e)
    PROVE  \/ req' = req /\ InOrder(e)
           \/ /\ req' = [req EXCEPT ![e.req].attempts = req[e.req].attempts + 1]
              /\ InVain(e)
  <1>1. e.type = "network.transmission_started" /\ Reason(e) \in Blamed
    BY ReasonGiven DEF Transmission
  <1>2. /\ {"request.routed"} \in SUBSET RequestEvent
        /\ {"request.reroute", "request.failed"} \in SUBSET RequestEvent
        /\ {"request.routed"} \subseteq Onward
        /\ {"request.reroute", "request.failed"} \subseteq MayRetry \cup {"request.failed"}
    BY DEF RequestEvent, MayRetry, Onward, Turning
  <1>3. PICK to \in Nodes :
           \/ req' = req /\ MovesTo(e, to, {"request.routed"})
           \/ /\ req' = [req EXCEPT ![e.req].attempts = req[e.req].attempts + 1]
              /\ MovesTo(e, e.node, {"request.reroute", "request.failed"})
    BY TransmissionStep
  <1>4. CASE req' = req /\ MovesTo(e, to, {"request.routed"})
    <2>1. GoesTo(e, {"request.routed"})
      BY <1>1, <1>2, <1>4, MoveGoes
    <2>2. GoesTo(e, Onward)
      BY <1>2, <2>1 DEF GoesTo
    <2> QED BY <1>1, <1>4, <2>2 DEF InOrder
  <1>5. CASE /\ req' = [req EXCEPT ![e.req].attempts = req[e.req].attempts + 1]
             /\ MovesTo(e, e.node, {"request.reroute", "request.failed"})
    <2>1. GoesTo(e, {"request.reroute", "request.failed"})
      BY <1>1, <1>2, <1>5, MoveGoes
    <2>2. GoesTo(e, MayRetry \cup {"request.failed"})
      BY <1>2, <2>1 DEF GoesTo
    <2> QED BY <1>1, <1>5, <2>2 DEF InVain
  <1> QED BY <1>3, <1>4, <1>5

\* A start that makes no attempt is in order; an attempt that fails is in vain.
LEMMA StartOutcome ==
    ASSUME RuntimeAssumption, BasicInv, NEW e \in events, ProcessingStarted(e), ~Throw(e), Begun(e)
    PROVE  \/ UNCHANGED <<work, store>> /\ InOrder(e)
           \/ Tried(e) /\ comp' = comp /\ InVain(e)
           \/ /\ Tried(e) /\ InOrder(e)
              /\ comp' = [comp EXCEPT ![e.node].active = @ + 1]
  <1>1. e.type = "request.processing_started" /\ ~Over(e.req)
    BY DEF ProcessingStarted
  <1>2. {"request.failed"} \in SUBSET RequestEvent
    BY DEF RequestEvent
  <1>3. ASSUME MovesTo(e, e.node, {"request.failed"}), Reason(e) \notin Blamed
        PROVE  InOrder(e)
    <2>1. GoesTo(e, {"request.failed"})
      BY <1>1, <1>2, <1>3, MoveGoes
    <2> QED BY <1>1, <1>3, <2>1 DEF InOrder
  <1>4. CASE Refused(e)
    <2>1. ~Admits(circuit[e.node], e.req)
      BY <1>4 DEF Refused
    <2>2. UNCHANGED <<work, store>>
      BY <2>1 DEF Begun
    <2>3. Reason(e) \notin Blamed
      BY <1>1, <2>1, AttemptToBlame
    <2>4. MovesTo(e, e.node, {"request.failed"})
      BY <1>1, <1>4, RefusedStep
    <2> QED BY <1>3, <2>2, <2>3, <2>4
  <1>5. CASE /\ comp[e.node].failed /\ AdmittedThenFreed(e, e.req) /\ Proceed(e, <<FailNow(e)>>)
             /\ UNCHANGED <<req, comp, queue, position, cached>>
    <2>1. UNCHANGED <<work, store>>
      BY <1>5 DEF Begun
    <2>2. Reason(e) \notin Blamed
      BY <1>1, <1>5, AttemptToBlame
    <2>3. MovesTo(e, e.node, {"request.failed"})
      BY <1>1, <1>5, TurnedBackStep
    <2> QED BY <1>3, <2>1, <2>2, <2>3
  <1>6. CASE /\ ~comp[e.node].failed /\ ~HasCapacity(e.node)
             /\ TurnedAway(e) \/ Displaces(e) \/ Waits(e)
             /\ UNCHANGED <<comp, position, cached>>
    <2>1. Reason(e) \notin Blamed
      BY <1>1, <1>6, AttemptToBlame
    <2>2. UNCHANGED <<work, store>>
      BY <1>6 DEF Begun, QueuedOrNot
    <2>3. CASE TurnedAway(e)
      <3>1. MovesTo(e, e.node, {"request.failed"})
        BY <1>1, <1>6, <2>3, TurnedBackStep DEF TurnedAway
      <3> QED BY <1>3, <2>1, <2>2, <3>1
    <2>4. CASE Displaces(e)
      <3>1. DisplacesOldest(e)
        BY <1>1, <1>6, <2>4, DisplacesStep
      <3>2. Drops(e)
        BY <1>2, <3>1 DEF DisplacesOldest, Drops, Follows
      <3> QED BY <2>1, <2>2, <3>2 DEF InOrder
    <2>5. CASE Waits(e)
      <3>1. Joins(e)
        BY <1>1, <1>6, <2>5, WaitsStep
      <3>2. Turning \subseteq RequestEvent
        BY DEF MayRetry, RequestEvent, Turning
      <3>3. Calm(e)
        BY <3>1, <3>2 DEF Joins, Calm
      <3> QED BY <2>2, <3>3 DEF InOrder
    <2> QED BY <1>6, <2>3, <2>4, <2>5
  <1>7. CASE /\ ~comp[e.node].failed /\ HasCapacity(e.node) /\ Admits(circuit[e.node], e.req)
             /\ Attempt(e) /\ UNCHANGED <<queue, position, cached>>
    <2>1. Reason(e) \in Blamed
      BY <1>1, <1>7, AttemptToBlame
    <2>2. Tried(e)
      BY <1>7 DEF Begun
    <2>3. comp' = comp \/ comp' = [comp EXCEPT ![e.node].active = @ + 1]
      BY <1>7 DEF Attempt
    <2>4. comp[e.node].active \in Nat /\ e.node \in Nodes
          /\ comp \in [Nodes -> [ failed : BOOLEAN, active : Nat,
                                   replicas : Nat \ {0}, cycle : Nat ]]
      BY DEF BasicInv, TypeOK, Event
    <2>5. \/ comp'[e.node].active = comp[e.node].active
             /\ MovesTo(e, e.node, {"request.retry", "request.failed"})
          \/ Works(e)
      BY <1>1, <1>7, <2>4, AttemptStep DEF KeepsWork
    <2>6. CASE comp' = comp
      <3>1. ~Works(e)
        BY <2>4, <2>6 DEF Works
      <3>2. {"request.retry", "request.failed"} \in SUBSET RequestEvent
        BY DEF RequestEvent
      <3>3. GoesTo(e, {"request.retry", "request.failed"})
        BY <1>1, <2>5, <3>1, <3>2, MoveGoes
      <3>4. GoesTo(e, MayRetry \cup {"request.failed"})
        BY <3>3 DEF GoesTo, MayRetry
      <3> QED BY <1>1, <2>1, <2>2, <2>6, <3>4 DEF InVain
    <2>7. CASE comp' = [comp EXCEPT ![e.node].active = @ + 1]
      <3>1. comp'[e.node].active # comp[e.node].active
        BY <2>4, <2>7
      <3>2. MovesTo(e, e.node, {"request.processing_completed"})
        BY <2>5, <3>1 DEF Works
      <3>3. {"request.processing_completed"} \in SUBSET RequestEvent
        BY DEF RequestEvent
      <3>4. GoesTo(e, {"request.processing_completed"})
        BY <1>1, <3>2, <3>3, MoveGoes
      <3>5. GoesTo(e, Onward)
        BY <3>4 DEF GoesTo, RequestEvent, MayRetry, Onward, Turning
      <3> QED BY <1>1, <2>2, <2>7, <3>5 DEF InOrder
    <2> QED BY <2>3, <2>6, <2>7
  <1> QED BY <1>4, <1>5, <1>6, <1>7 DEF ProcessingStarted

\* A request that goes on otherwise than by its failure has no reason for one,
\* and neither has one that waits.
LEMMA NoReasonYet ==
    ASSUME BasicInv, PlacesOK, ReasonsOK
    PROVE  /\ \A e \in events : e.type \in RequestEvent /\ e.type # "request.failed"
                                => e.req \in Requests /\ why[e.req] = "unknown"
           /\ \A n \in Nodes : queue[n] # <<>>
                                => /\ Head(queue[n]) \in Requests
                                   /\ why[Head(queue[n])] = "unknown"
  <1>1. ASSUME NEW e \in events, e.type \in RequestEvent, e.type # "request.failed"
        PROVE  e.req \in Requests /\ why[e.req] = "unknown"
    <2>1. e.req \in Requests /\ GoesOn(e, e.req)
      BY <1>1 DEF BasicInv, Sound, GoesOn
    <2>2. ~Over(e.req)
      BY <2>1 DEF PlacesOK
    <2>3. \A f \in events : f.type = "request.failed" /\ f.req = e.req => f = e
      BY <2>1 DEF PlacesOK, GoesOn, RequestEvent
    <2> QED BY <1>1, <2>1, <2>2, <2>3 DEF ReasonsOK, Fallen, Over
  <1>2. ASSUME NEW n \in Nodes, queue[n] # <<>>
        PROVE  Head(queue[n]) \in Requests /\ why[Head(queue[n])] = "unknown"
    <2>1. PICK r, q : r = Head(queue[n]) /\ q = queue[n]
      OBVIOUS
    <2>2. q \in Seq(Requests) /\ 1 \in DOMAIN q /\ q[1] = r /\ r \in Requests
      BY <1>2, <2>1 DEF BasicInv, TypeOK
    <2>3. Waiting(r, n, 1)
      BY <2>1, <2>2 DEF Waiting
    <2>4. ~Over(r)
      BY <2>2, <2>3 DEF PlacesOK
    <2>5. \A f \in events : ~(f.type = "request.failed" /\ f.req = r)
      BY <2>3 DEF PlacesOK, GoesOn, RequestEvent
    <2> QED BY <2>1, <2>2, <2>4, <2>5 DEF ReasonsOK, Fallen, Over
  <1> QED BY <1>1, <1>2

\* A new failure is explained, and nothing else.
LEMMA WhyMoves ==
    ASSUME BasicInv, BasicInv', NEW e \in events, Explain(e)
    PROVE  /\ \A f : Follows(e, f) /\ f.type = "request.failed"
                 => \A r \in Requests : why'[r] = IF r = f.req THEN Reason(e) ELSE why[r]
           /\ Calm(e) \/ (\E f : Follows(e, f) /\ f.type # "request.failed")
                 => \A r \in Requests : why'[r] = why[r]
  <1>1. events' \subseteq Event /\ events \subseteq Event /\ "request.failed" \in RequestEvent
    BY DEF BasicInv, TypeOK, RequestEvent
  <1>2. ASSUME NEW f, Follows(e, f), f.type = "request.failed"
        PROVE  \A r \in Requests : why'[r] = IF r = f.req THEN Reason(e) ELSE why[r]
    <2>1. \A g \in events' \ events : g.type = "request.failed" => g = f
      BY <1>1, <1>2 DEF Follows
    <2>2. f \in NewFailures /\ \A g \in NewFailures : g = f
      BY <1>2, <2>1 DEF NewFailures, Follows
    <2> QED BY <2>2 DEF Explain
  <1>3. ASSUME Calm(e) \/ (\E f : Follows(e, f) /\ f.type # "request.failed")
        PROVE  \A r \in Requests : why'[r] = why[r]
    <2>1. \A g \in events' : g.type = "request.failed" => g \in events
      BY <1>1, <1>3 DEF Calm, Turning, Follows
    <2>2. NewFailures = {}
      BY <2>1 DEF NewFailures
    <2> QED BY <2>2 DEF Explain
  <1> QED BY <1>2, <1>3

\* What an event of a step was before it.
LEMMA OldFailures ==
    ASSUME BasicInv, BasicInv', NEW e \in events, Calm(e) \/ \E f : Follows(e, f)
    PROVE  /\ \A g \in events : g.type = "request.failed" /\ g # e => g \in events'
           /\ Calm(e) => \A g \in events' : g.type = "request.failed" => g \in events
           /\ \A f : Follows(e, f)
                 => \A g \in events' : g.type = "request.failed" => g \in events \/ g = f
  <1>1. events' \subseteq Event /\ events \subseteq Event /\ "request.failed" \in RequestEvent
    BY DEF BasicInv, TypeOK, RequestEvent
  <1> QED BY <1>1 DEF Calm, Turning, Follows

\* The reasons stay in order when a request fails that had none.
LEMMA FailureExplained ==
    ASSUME BasicInv, BasicInv', ReasonsOK, NEW e \in events, Explain(e),
           Fallen' = IF e.type = "request.failed" THEN Fallen \cup {e.req} ELSE Fallen,
           NEW f, Follows(e, f), f.type = "request.failed", f.req \in Requests,
           why[f.req] = "unknown"
    PROVE  /\ ReasonsOK'
           /\ f.req \notin AtFault
           /\ AtFault' = IF Reason(e) \in Blamed THEN AtFault \cup {f.req} ELSE AtFault
  <1>1. \A r \in Requests : why'[r] = IF r = f.req THEN Reason(e) ELSE why[r]
    BY WhyMoves
  <1>2. Reason(e) \in Reasons /\ Reason(e) # "unknown" /\ "unknown" \notin Blamed
    BY ReasonGiven DEF Blamed
  <1>3. \A r \in Requests : why'[r] \in Reasons
    BY <1>1, <1>2 DEF ReasonsOK
  <1>4. \A g \in events' : g.type = "request.failed" => why'[g.req] # "unknown"
    <2> SUFFICES ASSUME NEW g \in events', g.type = "request.failed"
                 PROVE  why'[g.req] # "unknown"
      OBVIOUS
    <2>1. g.req \in Requests
      BY DEF BasicInv, Sound, RequestEvent
    <2>2. g \in events \/ g = f
      BY OldFailures
    <2> QED BY <1>1, <1>2, <2>1, <2>2 DEF ReasonsOK
  <1>5. \A r \in Requests : why'[r] # "unknown"
           => r \in Fallen' \/ \E g \in events' : g.type = "request.failed" /\ g.req = r
    <2> SUFFICES ASSUME NEW r \in Requests, why'[r] # "unknown"
                 PROVE  r \in Fallen' \/ \E g \in events' : g.type = "request.failed" /\ g.req = r
      OBVIOUS
    <2>1. CASE r = f.req
      BY <2>1 DEF Follows
    <2>2. CASE r # f.req
      <3>1. r \in Fallen \/ \E g \in events : g.type = "request.failed" /\ g.req = r
        BY <1>1, <2>2 DEF ReasonsOK
      <3> QED BY <3>1, OldFailures
    <2> QED BY <2>1, <2>2
  <1>6. AtFault' = IF Reason(e) \in Blamed THEN AtFault \cup {f.req} ELSE AtFault
    BY <1>1, <1>2 DEF AtFault
  <1>7. f.req \notin AtFault
    BY <1>2 DEF AtFault
  <1> QED BY <1>3, <1>4, <1>5, <1>6, <1>7 DEF ReasonsOK

\* They do when none fails anew.
LEMMA NothingExplained ==
    ASSUME BasicInv, BasicInv', ReasonsOK, NEW e \in events, Explain(e),
           Fallen' = IF e.type = "request.failed" THEN Fallen \cup {e.req} ELSE Fallen,
           Calm(e) \/ (\E f : Follows(e, f) /\ f.type # "request.failed")
    PROVE  ReasonsOK' /\ AtFault' = AtFault
  <1>1. \A r \in Requests : why'[r] = why[r]
    BY WhyMoves
  <1>2. \A g \in events' : g.type = "request.failed" => g \in events
    BY OldFailures
  <1>3. \A g \in events : g.type = "request.failed" /\ g # e => g \in events'
    BY OldFailures
  <1>4. \A g \in events : g.type = "request.failed" => g.req \in Requests
    BY DEF BasicInv, Sound, RequestEvent
  <1>5. \A g \in events' : g.type = "request.failed" => why'[g.req] # "unknown"
    BY <1>1, <1>2, <1>4 DEF ReasonsOK
  <1>6. \A r \in Requests : why'[r] # "unknown"
           => r \in Fallen' \/ \E g \in events' : g.type = "request.failed" /\ g.req = r
    BY <1>1, <1>3 DEF ReasonsOK
  <1>7. AtFault' = AtFault
    BY <1>1 DEF AtFault
  <1> QED BY <1>1, <1>5, <1>6, <1>7 DEF ReasonsOK

\* The retries on their way after a step.
LEMMA ComingMoves ==
    ASSUME BasicInv, BasicInv', NEW e \in events
    PROVE  /\ Calm(e) => Coming' = Coming \ {e}
           /\ \A f : Follows(e, f)
                 => IF f.type \in MayRetry
                    THEN Coming' = (Coming \ {e}) \cup {f} /\ f \notin Coming
                    ELSE Coming' = Coming \ {e}
  <1>1. events' \subseteq Event /\ events \subseteq Event /\ MayRetry \subseteq RequestEvent
    BY DEF BasicInv, TypeOK, RequestEvent, MayRetry
  <1>2. ASSUME Calm(e) PROVE Coming' = Coming \ {e}
    BY <1>1, <1>2 DEF Calm, Turning, Coming
  <1>3. ASSUME NEW f, Follows(e, f), f.type \in MayRetry
        PROVE  Coming' = (Coming \ {e}) \cup {f} /\ f \notin Coming
    BY <1>1, <1>3 DEF Follows, Coming
  <1>4. ASSUME NEW f, Follows(e, f), f.type \notin MayRetry
        PROVE  Coming' = Coming \ {e}
    BY <1>1, <1>4 DEF Follows, Coming
  <1> QED BY <1>2, <1>3, <1>4

\* A failure in vain is retried, or the reason its request fails.
LEMMA VainMoves ==
    ASSUME BasicInv, BasicInv', PlacesOK, ReasonsOK, NEW e \in events, Explain(e),
           Fallen' = IF e.type = "request.failed" THEN Fallen \cup {e.req} ELSE Fallen,
           InVain(e)
    PROVE  /\ ReasonsOK'
           /\ \/ /\ AtFault' = AtFault
                 /\ \E f : f \notin Coming /\ Coming' = Coming \cup {f}
              \/ /\ Coming' = Coming
                 /\ \E r \in Requests : r \notin AtFault /\ AtFault' = AtFault \cup {r}
  <1>1. PICK f : Follows(e, f) /\ f.req = e.req /\ f.type \in MayRetry \cup {"request.failed"}
    BY DEF InVain, GoesTo
  <1>2. e \notin Coming /\ e.type \in RequestEvent /\ e.type # "request.failed"
    BY DEF InVain, Coming, MayRetry, GoesTo
  <1>3. Coming \ {e} = Coming
    BY <1>2
  <1>4. CASE f.type = "request.failed"
    <2>1. f.type \notin MayRetry
      BY <1>4 DEF MayRetry
    <2>2. f.req \in Requests /\ why[f.req] = "unknown"
      BY <1>1, <1>2, NoReasonYet
    <2>3. ReasonsOK' /\ f.req \notin AtFault /\ AtFault' = AtFault \cup {f.req}
      BY <1>1, <1>4, <2>2, FailureExplained DEF InVain
    <2>4. Coming' = Coming
      BY <1>1, <1>3, <2>1, ComingMoves
    <2> QED BY <2>2, <2>3, <2>4
  <1>5. CASE f.type # "request.failed"
    <2>1. ReasonsOK' /\ AtFault' = AtFault
      BY <1>1, <1>5, NothingExplained
    <2>2. Coming' = (Coming \ {e}) \cup {f} /\ f \notin Coming
      BY <1>1, <1>5, ComingMoves
    <2> QED BY <1>3, <2>1, <2>2
  <1> QED BY <1>4, <1>5

\* Everything else leaves the retries on their way, but for the one it makes.
LEMMA OrderMoves ==
    ASSUME BasicInv, BasicInv', PlacesOK, ReasonsOK, NEW e \in events, Explain(e),
           Fallen' = IF e.type = "request.failed" THEN Fallen \cup {e.req} ELSE Fallen,
           InOrder(e)
    PROVE  ReasonsOK' /\ AtFault' = AtFault /\ Coming' = Coming \ {e}
  <1>1. "request.failed" \notin MayRetry /\ e.node \in Nodes
    BY DEF MayRetry, BasicInv, TypeOK, Event
  <1>2. CASE Calm(e)
    BY <1>2, NothingExplained, ComingMoves
  <1>3. ASSUME NEW f, Follows(e, f), f.type = "request.failed", f.req \in Requests,
               why[f.req] = "unknown", Reason(e) \notin Blamed
        PROVE  ReasonsOK' /\ AtFault' = AtFault /\ Coming' = Coming \ {e}
    <2>1. ReasonsOK' /\ AtFault' = AtFault
      BY <1>3, FailureExplained
    <2>2. Coming' = Coming \ {e}
      BY <1>1, <1>3, ComingMoves
    <2> QED BY <2>1, <2>2
  <1>4. CASE Reason(e) \notin Blamed /\ Drops(e)
    <2>1. PICK f : Follows(e, f) /\ f.req = Head(queue[e.node]) /\ f.type = "request.failed"
      BY <1>4 DEF Drops
    <2>2. f.req \in Requests /\ why[f.req] = "unknown"
      BY <1>1, <1>4, <2>1, NoReasonYet DEF Drops
    <2> QED BY <1>3, <1>4, <2>1, <2>2
  <1>5. CASE Reason(e) \notin Blamed /\ GoesTo(e, {"request.failed"})
    <2>1. PICK f : Follows(e, f) /\ f.req = e.req /\ f.type = "request.failed"
      BY <1>5 DEF GoesTo
    <2>2. f.req \in Requests /\ why[f.req] = "unknown"
      BY <1>5, <2>1, NoReasonYet DEF GoesTo
    <2> QED BY <1>3, <1>5, <2>1, <2>2
  <1>6. CASE GoesTo(e, Onward)
    <2>1. PICK f : Follows(e, f) /\ f.type \notin MayRetry /\ f.type # "request.failed"
      BY <1>6 DEF GoesTo, Onward, Turning
    <2>2. ReasonsOK' /\ AtFault' = AtFault
      BY <2>1, NothingExplained
    <2> QED BY <2>1, <2>2, ComingMoves
  <1> QED BY <1>2, <1>4, <1>5, <1>6 DEF InOrder

-----------------------------------------------------------------------------
(* Failures and retries, as they are counted.                                 *)

\* The failed attempts counted at the components.
Vain == [n \in Nodes |-> work[n].failed]

\* One more failed attempt at a component.
LEMMA OneMoreVain ==
    ASSUME IsFiniteSet(Nodes), AttemptsOK, NEW n \in Nodes,
           work'[n].failed = work[n].failed + 1,
           \A m \in Nodes : m # n => work'[m].failed = work[m].failed
    PROVE  Sum(Vain, Nodes) \in Int /\ Sum(Vain', Nodes) = Sum(Vain, Nodes) + 1
  <1>1. PICK f, g : f = Vain /\ g = Vain'
    OBVIOUS
  <1>2. /\ \A m \in Nodes : f[m] = work[m].failed
        /\ \A m \in Nodes : g[m] = work'[m].failed
    BY <1>1 DEF Vain
  <1>3. \A m \in Nodes : work[m].failed \in Nat
    BY DEF AttemptsOK, WorkAddsUp, WorkRecord
  <1>4. /\ \A m \in Nodes : f[m] \in Int
        /\ g[n] = f[n] + 1 /\ \A m \in Nodes : m # n => g[m] = f[m]
    BY <1>2, <1>3
  <1>5. Sum(f, Nodes) \in Int /\ Sum(g, Nodes) = Sum(f, Nodes) + 1
    BY <1>4, OneMore
  <1> QED BY <1>1, <1>5

\* The sum of the failed attempts is a number.
LEMMA VainNumber ==
    ASSUME IsFiniteSet(Nodes), AttemptsOK
    PROVE  Sum(Vain, Nodes) \in Int
  <1>1. PICK f : f = Vain
    OBVIOUS
  <1>2. \A m \in Nodes : f[m] \in Int
    BY <1>1 DEF Vain, AttemptsOK, WorkAddsUp, WorkRecord
  <1> QED BY <1>1, <1>2, SumWithout

\* An attempt is counted as failed when it does not take a slot.
LEMMA TriedVain ==
    ASSUME AttemptsOK, BasicInv, NEW e \in events, Tried(e)
    PROVE  /\ store' = store
           /\ comp' = comp => /\ work'[e.node].failed = work[e.node].failed + 1
                              /\ \A m \in Nodes : m # e.node => work'[m].failed = work[m].failed
           /\ comp' = [comp EXCEPT ![e.node].active = @ + 1]
                 => \A m \in Nodes : work'[m].failed = work[m].failed
  <1>1. PICK n, w : n = e.node /\ w = work[n]
    OBVIOUS
  <1>2. n \in Nodes /\ w \in WorkRecord /\ comp[n].active \in Nat
    BY <1>1 DEF BasicInv, TypeOK, Event, AttemptsOK, WorkAddsUp
  <1>3. CASE comp' = comp
    <2>1. work' = [work EXCEPT ![n] = [w EXCEPT !.attempts = @ + 1, !.failed = @ + 1]]
      BY <1>1, <1>3 DEF Tried
    <2>2. PICK v, a, b : /\ a = w.attempts + 1 /\ b = w.failed + 1
                         /\ v = [w EXCEPT !.attempts = a, !.failed = b]
      OBVIOUS
    <2>3. v.failed = w.failed + 1
      BY <1>2, <2>2 DEF WorkRecord
    <2>4. work'[n] = v /\ \A m \in Nodes : m # n => work'[m] = work[m]
      BY <1>2, <2>1, <2>2 DEF AttemptsOK
    <2>5. comp' # [comp EXCEPT ![n].active = @ + 1]
      BY <1>2, <1>3 DEF BasicInv, TypeOK
    <2> QED BY <1>1, <2>3, <2>4, <2>5 DEF Tried
  <1>4. CASE comp' = [comp EXCEPT ![n].active = @ + 1]
    <2>1. comp'[n].active # comp[n].active
      BY <1>2, <1>4 DEF BasicInv, TypeOK
    <2>2. work' = [work EXCEPT ![n] = [w EXCEPT !.attempts = @ + 1]]
      BY <1>1, <2>1 DEF Tried
    <2>3. PICK v, a : a = w.attempts + 1 /\ v = [w EXCEPT !.attempts = a]
      OBVIOUS
    <2>4. v.failed = w.failed
      BY <1>2, <2>3 DEF WorkRecord
    <2>5. work'[n] = v /\ \A m \in Nodes : m # n => work'[m] = work[m]
      BY <1>2, <2>2, <2>3 DEF AttemptsOK
    <2>6. comp' # comp
      BY <2>1
    <2> QED BY <1>1, <2>4, <2>5, <2>6 DEF Tried
  <1>5. store' = store
    BY DEF Tried
  <1> QED BY <1>1, <1>3, <1>4, <1>5

\* What is counted of failed attempts and lost transmissions.
LossesAre(k) ==
    /\ Sum(Vain, Nodes) \in Int /\ Sum(Vain', Nodes) \in Int
    /\ collect => /\ store.losses \in Int /\ store'.losses \in Int
                  /\ store'.losses + Sum(Vain', Nodes) = store.losses + Sum(Vain, Nodes) + k

\* One more, wherever it is counted.
LEMMA OneMoreLoss ==
    ASSUME Sum(Vain, Nodes) \in Int, collect => store.losses \in Int,
           \/ /\ Sum(Vain', Nodes) = Sum(Vain, Nodes) + 1
              /\ store'.losses = store.losses
           \/ /\ Sum(Vain', Nodes) = Sum(Vain, Nodes)
              /\ collect => store'.losses = store.losses + 1
    PROVE  LossesAre(1)
  <1>1. PICK a, b, x, y : /\ a = Sum(Vain, Nodes) /\ b = Sum(Vain', Nodes)
                          /\ x = store.losses /\ y = store'.losses
    OBVIOUS
  <1>2. /\ a \in Int /\ b \in Int
        /\ collect => x \in Int /\ y \in Int /\ y + b = x + a + 1
    BY <1>1
  <1> QED BY <1>1, <1>2 DEF LossesAre

\* Every failure in vain is counted once, by a component or by the network.
LEMMA LossesCounted ==
    ASSUME RuntimeAssumption, MetricsAssumption, Base, AttemptsOK, NEW e \in events, Recording(e)
    PROVE  \/ InVain(e) /\ LossesAre(1)
           \/ InOrder(e) /\ LossesAre(0)
  <1>1. /\ Handle(e) /\ ~Throw(e) /\ Records(e) /\ BasicInv /\ WithinSlots
        /\ IsFiniteSet(Nodes) /\ DOMAIN store = StoreFields
        /\ e.node \in Nodes
    BY DEF Recording, Base, MetricsAssumption, AttemptsOK, BasicInv, TypeOK, Event
  <1>2. Sum(Vain, Nodes) \in Int /\ (collect => store.losses \in Int)
    BY <1>1, VainNumber DEF AttemptsOK
  <1>3. ASSUME \A n \in Nodes : work'[n].failed = work[n].failed
        PROVE  Sum(Vain', Nodes) = Sum(Vain, Nodes)
    <2>1. Vain' = Vain
      BY <1>3 DEF Vain
    <2> QED BY <2>1
  <1>4. ASSUME \A n \in Nodes : work'[n].failed = work[n].failed, store'.losses = store.losses
        PROVE  LossesAre(0)
    <2>1. Sum(Vain', Nodes) = Sum(Vain, Nodes)
      BY <1>3, <1>4
    <2> QED BY <1>2, <1>4, <2>1 DEF LossesAre
  <1>5. CASE e.type = "network.transmission_started"
    <2>1. Transmission(e) /\ Transmitted(e)
      BY <1>1, <1>5, HandlerByType, RecordByType
    <2>2. work' = work
      BY <2>1 DEF Transmitted
    <2>3. CASE req' = req /\ InOrder(e)
      <3>1. store'.losses = store.losses
        BY <1>1, <2>1, <2>3 DEF Transmitted, Keep, StoreFields
      <3> QED BY <1>4, <2>2, <2>3, <3>1
    <2>4. CASE req' = [req EXCEPT ![e.req].attempts = req[e.req].attempts + 1] /\ InVain(e)
      <3>1. req'[e.req].attempts # req[e.req].attempts
        <4>1. e.req \in Requests
          BY <1>1, <1>5 DEF BasicInv, Sound, RequestEvent
        <4> QED BY <1>1, <2>4, <4>1 DEF BasicInv, TypeOK
      <3>2. collect => store' = [store EXCEPT !.transmissions = @ + 1, !.losses = @ + 1]
        BY <2>1, <3>1 DEF Transmitted, Keep
      <3>3. collect => store'.losses = store.losses + 1
        BY <1>1, <3>2 DEF StoreFields
      <3>4. Sum(Vain', Nodes) = Sum(Vain, Nodes)
        BY <1>3, <2>2
      <3> QED BY <1>2, <2>4, <3>3, <3>4, OneMoreLoss
    <2> QED BY <1>1, <2>1, <2>3, <2>4, TransmissionOutcome
  <1>6. CASE e.type = "request.processing_started"
    <2>1. ProcessingStarted(e) /\ Begun(e)
      BY <1>1, <1>6, HandlerByType, RecordByType
    <2>2. CASE UNCHANGED <<work, store>> /\ InOrder(e)
      BY <1>4, <2>2
    <2>3. CASE Tried(e) /\ comp' = comp /\ InVain(e)
      <3>1. /\ work'[e.node].failed = work[e.node].failed + 1 /\ store' = store
            /\ \A m \in Nodes : m # e.node => work'[m].failed = work[m].failed
        BY <1>1, <2>3, TriedVain
      <3>2. Sum(Vain', Nodes) = Sum(Vain, Nodes) + 1
        BY <1>1, <3>1, OneMoreVain
      <3> QED BY <1>2, <2>3, <3>1, <3>2, OneMoreLoss
    <2>4. CASE Tried(e) /\ InOrder(e) /\ comp' = [comp EXCEPT ![e.node].active = @ + 1]
      <3>1. store' = store /\ \A m \in Nodes : work'[m].failed = work[m].failed
        BY <1>1, <2>4, TriedVain
      <3> QED BY <1>4, <2>4, <3>1
    <2> QED BY <1>1, <2>1, <2>2, <2>3, <2>4, StartOutcome
  <1>7. CASE e.type \notin {"network.transmission_started", "request.processing_started"}
    <2>1. InOrder(e)
      BY <1>1, <1>7, OthersInOrder
    <2>2. store'.losses = store.losses
      BY <1>1, <1>7, StoreTouches
    <2>3. ASSUME NEW n \in Nodes PROVE work'[n].failed = work[n].failed
      <3>1. CASE Finished(e)
        <4>1. PICK w, p, t : /\ w = work[e.node] /\ p = w.processed + 1
                             /\ t = w.latency + Conf[e.node].latency
          OBVIOUS
        <4>2. PICK v : v = [w EXCEPT !.processed = p, !.latency = t]
          OBVIOUS
        <4>3. work' = [work EXCEPT ![e.node] = v]
          BY <3>1, <4>1, <4>2 DEF Finished
        <4>4. w \in WorkRecord
          BY <1>1, <4>1 DEF AttemptsOK, WorkAddsUp
        <4>5. v.failed = w.failed
          BY <4>2, <4>4 DEF WorkRecord
        <4> QED BY <1>1, <4>1, <4>3, <4>5 DEF AttemptsOK
      <3>2. CASE work' = work
        BY <3>2
      <3> QED BY <1>1, <1>7, <3>1, <3>2 DEF Records, Transmitted, Arrived, Filled, Operated, Begun,
            Dequeued, Succeeded, Lost, Retried, FailedOrRecovered, Assessed, Resized, Ignored
    <2> QED BY <1>4, <2>1, <2>2, <2>3
  <1> QED BY <1>5, <1>6, <1>7

\* What is counted of failures and retries agrees with the requests and events.
FailuresOK ==
    /\ ReasonsOK
    /\ IsFiniteSet(Coming)
    /\ collect =>
         /\ store.byReason \in [Reasons -> Int] /\ store.byNode \in [Nodes -> Int]
         /\ store.retries \in [Nodes -> Int]
         /\ store.byReason["unknown"] = 0
         /\ Sum(store.byReason, Reasons) = Cardinality(Fallen)
         /\ Sum(store.byNode, Nodes) = Cardinality(Fallen)
         /\ store.losses + Sum(Vain, Nodes)
              = Sum(store.retries, Nodes) + Cardinality(Coming) + Cardinality(AtFault)

\* There are finitely many reasons.
LEMMA ReasonsFinite == IsFiniteSet(Reasons)
  <1>1. PICK a, b, c : /\ a = {"circuit_open"} /\ b = a \cup {"component_failed"}
                       /\ c = b \cup {"queue_overflow"}
    OBVIOUS
  <1>2. PICK d, f, g : /\ d = c \cup {"queue_disabled"} /\ f = d \cup {"component_error"}
                       /\ g = f \cup {"network_packet_loss"}
    OBVIOUS
  <1>3. IsFiniteSet(a)
    BY <1>1, FS_Singleton
  <1>4. IsFiniteSet(b)
    BY <1>1, <1>3, FS_AddElement
  <1>5. IsFiniteSet(c)
    BY <1>1, <1>4, FS_AddElement
  <1>6. IsFiniteSet(d)
    BY <1>2, <1>5, FS_AddElement
  <1>7. IsFiniteSet(f)
    BY <1>2, <1>6, FS_AddElement
  <1>8. IsFiniteSet(g)
    BY <1>2, <1>7, FS_AddElement
  <1>9. PICK h : h = g \cup {"no_available_destination"}
    OBVIOUS
  <1>10. IsFiniteSet(h)
    BY <1>8, <1>9, FS_AddElement
  <1>11. Reasons = h \cup {"unknown"}
    BY <1>1, <1>2, <1>9 DEF Reasons
  <1> QED BY <1>10, <1>11, FS_AddElement

\* What the records of failures and retries are.
LEMMA FailuresRecorded ==
    ASSUME DOMAIN store = StoreFields, collect, NEW e, Records(e)
    PROVE  /\ e.type \notin {"request.failed", "request.retry", "request.reroute"}
              => \A x \in {"byReason", "byNode", "retries"} : store'[x] = store[x]
           /\ e.type = "request.failed"
              => /\ store'.byReason = [store.byReason EXCEPT ![why[e.req]] = @ + 1]
                 /\ store'.byNode = [store.byNode EXCEPT ![e.node] = @ + 1]
                 /\ store'.retries = store.retries
           /\ e.type \in MayRetry
              => /\ store'.byReason = store.byReason /\ store'.byNode = store.byNode
                 /\ store'.retries = [store.retries EXCEPT ![e.node] = @ + 1]
  <1>1. CASE e.type = "request.failed"
    <2>1. Lost(e)
      BY <1>1, RecordByType
    <2>2. PICK a, b : /\ a = [store.byReason EXCEPT ![why[e.req]] = @ + 1]
                      /\ b = [store.byNode EXCEPT ![e.node] = @ + 1]
      OBVIOUS
    <2>3. store' = [store EXCEPT !.byReason = a, !.byNode = b]
      BY <2>1, <2>2 DEF Lost, Keep
    <2>4. store'.byReason = a /\ store'.byNode = b /\ store'.retries = store.retries
      BY <2>3 DEF StoreFields
    <2> QED BY <1>1, <2>2, <2>4 DEF MayRetry
  <1>2. CASE e.type \in MayRetry
    <2>1. Retried(e)
      BY <1>2, RecordByType DEF MayRetry
    <2>2. PICK a : a = [store.retries EXCEPT ![e.node] = @ + 1]
      OBVIOUS
    <2>3. store' = [store EXCEPT !.retries = a]
      BY <2>1, <2>2 DEF Retried, Keep
    <2>4. store'.byReason = store.byReason /\ store'.byNode = store.byNode /\ store'.retries = a
      BY <2>3 DEF StoreFields
    <2> QED BY <1>2, <2>2, <2>4 DEF MayRetry
  <1>3. CASE e.type \notin {"request.failed", "request.retry", "request.reroute"}
    <2>1. ASSUME Transmitted(e)
          PROVE  \A x \in {"byReason", "byNode", "retries"} : store'[x] = store[x]
      <3>1. PICK a, b, c : /\ a = store.transmissions + 1 /\ b = store.losses + 1
                           /\ c = Recorded(store.network, Edges[e.node][e.arg].latency
                                                         + Edges[e.node][e.arg].transfer)
        OBVIOUS
      <3>2. \/ store' = [store EXCEPT !.transmissions = a, !.losses = b]
            \/ store' = [store EXCEPT !.transmissions = a, !.network = c]
        BY <2>1, <3>1 DEF Transmitted, Keep
      <3> QED BY <3>2 DEF StoreFields
    <2>2. ASSUME Operated(e)
          PROVE  \A x \in {"byReason", "byNode", "retries"} : store'[x] = store[x]
      BY <2>2 DEF Operated, Keep, StoreFields
    <2>3. store' = store \/ Transmitted(e) \/ Operated(e)
      BY <1>3 DEF Records, Begun, QueuedOrNot, Tried, Arrived, Filled, Finished, Dequeued, Succeeded,
         Lost, Retried, FailedOrRecovered, Assessed, Resized, Ignored
    <2> QED BY <1>3, <2>1, <2>2, <2>3 DEF MayRetry
  <1> QED BY <1>1, <1>2, <1>3 DEF MayRetry

\* A tally that has grown by one somewhere.
Grown(f, g, S) ==
    /\ \A x \in S : f[x] \in Int
    /\ \E n \in S : g[n] = f[n] + 1 /\ \A x \in S : x # n => g[x] = f[x]

LEMMA GrownSum ==
    ASSUME NEW S, IsFiniteSet(S), NEW f, NEW g, Grown(f, g, S)
    PROVE  Sum(g, S) = Sum(f, S) + 1
  <1>1. PICK n \in S : g[n] = f[n] + 1 /\ \A x \in S : x # n => g[x] = f[x]
    BY DEF Grown
  <1> QED BY <1>1, OneMore DEF Grown

\* The failed requests are finitely many, and so are those with an attempt to blame.
LEMMA FiniteOnes ==
    ASSUME RuntimeAssumption
    PROVE  IsFiniteSet(Fallen) /\ IsFiniteSet(AtFault)
  <1>1. IsFiniteSet(Requests) /\ Fallen \subseteq Requests /\ AtFault \subseteq Requests
    BY FiniteRequests DEF Fallen, AtFault
  <1> QED BY <1>1, FS_Subset

\* Every step of an observed run counts its failures and retries.
LEMMA FailuresKept ==
    ASSUME RuntimeAssumption, MetricsAssumption, Base, BasicInv', PlacesOK, AttemptsOK,
           AttemptsOK', FailuresOK, NEW e \in events, Recording(e)
    PROVE  FailuresOK'
  <1>1. /\ Handle(e) /\ ~Throw(e) /\ Records(e) /\ Explain(e) /\ collect' = collect
        /\ BasicInv /\ ReasonsOK /\ e.node \in Nodes
        /\ IsFiniteSet(Nodes) /\ DOMAIN store = StoreFields
    BY DEF Recording, Base, MetricsAssumption, AttemptsOK, BasicInv, TypeOK, Event, FailuresOK
  <1>2. Fallen' = IF e.type = "request.failed" THEN Fallen \cup {e.req} ELSE Fallen
    BY <1>1, FallenStay
  <1>3. /\ IsFiniteSet(Fallen) /\ IsFiniteSet(AtFault) /\ IsFiniteSet(Coming)
        /\ Cardinality(Fallen) \in Nat /\ Cardinality(AtFault) \in Nat
        /\ Cardinality(Coming) \in Nat
    BY FiniteOnes, FS_CardinalityType DEF FailuresOK
  <1>4. ASSUME e.type \in MayRetry PROVE InOrder(e)
    <2>1. e.type \notin {"network.transmission_started", "request.processing_started"}
      BY <1>4 DEF MayRetry
    <2> QED BY <1>1, <2>1, OthersInOrder DEF Base
  <1>5. ReasonsOK' /\ IsFiniteSet(Coming')
    <2>1. CASE InVain(e)
      <3>1. ReasonsOK' /\ (Coming' = Coming \/ \E f : Coming' = Coming \cup {f})
        BY <1>1, <1>2, <2>1, VainMoves
      <3>2. CASE Coming' = Coming
        BY <1>3, <3>1, <3>2
      <3>3. CASE \E f : Coming' = Coming \cup {f}
        <4> PICK f : Coming' = Coming \cup {f}
          BY <3>3
        <4>1. IsFiniteSet(Coming')
          BY <1>3, FS_AddElement
        <4> QED BY <3>1, <4>1
      <3> QED BY <3>1, <3>2, <3>3
    <2>2. CASE InOrder(e)
      <3>1. ReasonsOK' /\ Coming' = Coming \ {e}
        BY <1>1, <1>2, <2>2, OrderMoves
      <3> QED BY <1>3, <3>1, FS_RemoveElement
    <2> QED BY <2>1, <2>2, LossesCounted
  <1> SUFFICES ASSUME collect
      PROVE  /\ store'.byReason \in [Reasons -> Int] /\ store'.byNode \in [Nodes -> Int]
             /\ store'.retries \in [Nodes -> Int]
             /\ store'.byReason["unknown"] = 0
             /\ Sum(store'.byReason, Reasons) = Cardinality(Fallen')
             /\ Sum(store'.byNode, Nodes) = Cardinality(Fallen')
             /\ store'.losses + Sum(Vain', Nodes)
                  = Sum(store'.retries, Nodes) + Cardinality(Coming') + Cardinality(AtFault')
    BY <1>1, <1>5 DEF FailuresOK
  <1>17. PICK n : n = e.node
    OBVIOUS
  <1>18. n \in Nodes /\ IsFiniteSet(Nodes)
    BY <1>1, <1>17
  <1>15. PICK p, q, w : p = store'.byReason /\ q = store'.byNode /\ w = store'.retries
    OBVIOUS
  <1>6. PICK x, y, z, t : /\ x = store.byReason /\ y = store.byNode /\ z = store.retries
                          /\ t = store.losses + Sum(Vain, Nodes)
    OBVIOUS
  <1>7. /\ x \in [Reasons -> Int] /\ y \in [Nodes -> Int] /\ z \in [Nodes -> Int]
        /\ x["unknown"] = 0
        /\ Sum(x, Reasons) = Cardinality(Fallen) /\ Sum(y, Nodes) = Cardinality(Fallen)
        /\ t = Sum(z, Nodes) + Cardinality(Coming) + Cardinality(AtFault)
    BY <1>6 DEF FailuresOK
  <1>8. Sum(z, Nodes) \in Int
    BY <1>1, <1>7, SumWithout
  <1>9. /\ p \in [Reasons -> Int] /\ q \in [Nodes -> Int]
        /\ p["unknown"] = 0
        /\ Sum(p, Reasons) = Cardinality(Fallen')
        /\ Sum(q, Nodes) = Cardinality(Fallen')
    <2>1. CASE e.type = "request.failed"
      <3>1. e.req \in Requests /\ GoesOn(e, e.req)
        BY <1>1, <2>1 DEF BasicInv, Sound, GoesOn, RequestEvent
      <3>2. ~Over(e.req)
        BY <3>1 DEF PlacesOK
      <3>3. e.req \notin Fallen
        BY <3>2 DEF Fallen, Over
      <3>4. Cardinality(Fallen') = Cardinality(Fallen) + 1
        BY <1>2, <1>3, <2>1, <3>3, FS_AddElement
      <3>5. PICK r : r = why[e.req]
        OBVIOUS
      <3>6. r \in Reasons /\ r # "unknown" /\ "unknown" \in Reasons
        BY <1>1, <2>1, <3>1, <3>5 DEF ReasonsOK, Reasons
      <3>7. p = [x EXCEPT ![r] = @ + 1] /\ q = [y EXCEPT ![e.node] = @ + 1]
        BY <1>1, <1>6, <1>15, <2>1, <3>5, FailuresRecorded
      <3>8. /\ p \in [Reasons -> Int]
            /\ Sum(p, Reasons) = Sum(x, Reasons) + 1
        <4>9. p \in [Reasons -> Int]
          BY <1>7, <3>6, <3>7
        <4>1. Grown(x, p, Reasons)
          BY <1>7, <3>6, <3>7 DEF Grown
        <4>2. Sum(p, Reasons) = Sum(x, Reasons) + 1
          BY <4>1, ReasonsFinite, GrownSum
        <4> QED BY <4>2, <4>9
      <3>9. /\ q \in [Nodes -> Int]
            /\ Sum(q, Nodes) = Sum(y, Nodes) + 1
        <4>9. q \in [Nodes -> Int]
          BY <1>7, <1>17, <1>18, <3>7
        <4>1. Grown(y, q, Nodes)
          BY <1>7, <1>17, <1>18, <3>7 DEF Grown
        <4>2. Sum(q, Nodes) = Sum(y, Nodes) + 1
          BY <1>18, <4>1, GrownSum
        <4> QED BY <4>2, <4>9
      <3>10. p["unknown"] = 0
        BY <1>7, <3>6, <3>7
      <3> QED BY <1>7, <3>4, <3>8, <3>9, <3>10
    <2>2. CASE e.type # "request.failed"
      <3>1. p = x /\ q = y
        <4>1. CASE e.type \in MayRetry
          BY <1>1, <1>6, <1>15, <4>1, FailuresRecorded
        <4>2. CASE e.type \notin MayRetry
          <5>1. e.type \notin {"request.failed", "request.retry", "request.reroute"}
            BY <2>2, <4>2 DEF MayRetry
          <5> QED BY <1>1, <1>6, <1>15, <5>1, FailuresRecorded
        <4> QED BY <4>1, <4>2
      <3> QED BY <1>2, <1>7, <2>2, <3>1
    <2> QED BY <2>1, <2>2
  <1>10. /\ w \in [Nodes -> Int]
         /\ Sum(w, Nodes)
               = Sum(z, Nodes) + (IF e.type \in MayRetry THEN 1 ELSE 0)
    <2>1. CASE e.type \in MayRetry
      <3>1. w = [z EXCEPT ![e.node] = @ + 1]
        BY <1>1, <1>6, <1>15, <2>1, FailuresRecorded
      <3>9. w \in [Nodes -> Int]
        BY <1>7, <1>17, <1>18, <3>1
      <3>2. Grown(z, w, Nodes)
        BY <1>7, <1>17, <1>18, <3>1 DEF Grown
      <3>3. Sum(w, Nodes) = Sum(z, Nodes) + 1
        BY <1>18, <3>2, GrownSum
      <3> QED BY <2>1, <3>3, <3>9
    <2>2. CASE e.type \notin MayRetry
      <3>1. w = z
        <4>1. CASE e.type = "request.failed"
          BY <1>1, <1>6, <1>15, <4>1, FailuresRecorded
        <4>2. CASE e.type # "request.failed"
          <5>1. e.type \notin {"request.failed", "request.retry", "request.reroute"}
            BY <2>2, <4>2 DEF MayRetry
          <5> QED BY <1>1, <1>6, <1>15, <5>1, FailuresRecorded
        <4> QED BY <4>1, <4>2
      <3> QED BY <1>7, <1>8, <2>2, <3>1
    <2> QED BY <2>1, <2>2
  <1>11. PICK u : u = store'.losses + Sum(Vain', Nodes)
    OBVIOUS
  <1>12. \/ InVain(e) /\ u = t + 1
         \/ InOrder(e) /\ u = t
    <2>1. t \in Int /\ (LossesAre(1) => u = t + 1) /\ (LossesAre(0) => u = t)
      <3>1. PICK a, b : a = Sum(Vain, Nodes) /\ b = store.losses
        OBVIOUS
      <3>2. a \in Int /\ b \in Int
        BY <1>1, <3>1, VainNumber DEF AttemptsOK
      <3> QED BY <1>6, <1>11, <3>1, <3>2 DEF LossesAre
    <2> QED BY <2>1, LossesCounted
  <1>13. PICK a, b, c, d, g, h :
            /\ a = Cardinality(Coming) /\ b = Cardinality(Coming')
            /\ c = Cardinality(AtFault) /\ d = Cardinality(AtFault')
            /\ g = Sum(z, Nodes) /\ h = Sum(w, Nodes)
    OBVIOUS
  <1>14. /\ a \in Nat /\ c \in Nat /\ g \in Int /\ t = g + a + c
         /\ h = g + (IF e.type \in MayRetry THEN 1 ELSE 0)
    BY <1>3, <1>7, <1>8, <1>10, <1>13
  <1>16. u = h + b + d
    <2>1. CASE InVain(e) /\ u = t + 1
      <3>1. e.type \notin MayRetry
        BY <2>1 DEF InVain, MayRetry
      <3>2. \/ /\ AtFault' = AtFault
               /\ \E f : f \notin Coming /\ Coming' = Coming \cup {f}
            \/ /\ Coming' = Coming
               /\ \E r \in Requests : r \notin AtFault /\ AtFault' = AtFault \cup {r}
        BY <1>1, <1>2, <2>1, VainMoves
      <3>3. CASE AtFault' = AtFault /\ \E f : f \notin Coming /\ Coming' = Coming \cup {f}
        <4>1. b = a + 1 /\ d = c
          BY <1>3, <1>13, <3>3, FS_AddElement
        <4> QED BY <1>14, <2>1, <3>1, <4>1
      <3>4. CASE /\ Coming' = Coming
                 /\ \E r \in Requests : r \notin AtFault /\ AtFault' = AtFault \cup {r}
        <4>1. b = a /\ d = c + 1
          BY <1>3, <1>13, <3>4, FS_AddElement
        <4> QED BY <1>14, <2>1, <3>1, <4>1
      <3> QED BY <3>2, <3>3, <3>4
    <2>2. CASE InOrder(e) /\ u = t
      <3>1. AtFault' = AtFault /\ Coming' = Coming \ {e}
        BY <1>1, <1>2, <2>2, OrderMoves
      <3>2. CASE e.type \in MayRetry
        <4>1. e \in Coming
          BY <3>2 DEF Coming
        <4>2. b = a - 1 /\ d = c
          BY <1>3, <1>13, <3>1, <4>1, FS_RemoveElement
        <4> QED BY <1>14, <2>2, <3>2, <4>2
      <3>3. CASE e.type \notin MayRetry
        <4>1. Coming' = Coming
          BY <3>1, <3>3 DEF Coming
        <4>2. b = a /\ d = c
          BY <1>13, <3>1, <4>1
        <4> QED BY <1>14, <2>2, <3>3, <4>2
      <3> QED BY <3>2, <3>3
    <2> QED BY <1>12, <2>1, <2>2
  <1> QED BY <1>9, <1>10, <1>11, <1>13, <1>15, <1>16

\* The counts in order, of a run that has not failed.
FailuresInv == status # "failed" => FailuresOK

\* They are when a run has been prepared.
LEMMA FailuresFirst ==
    ASSUME RuntimeAssumption, MetricsAssumption, MetricsInit
    PROVE  FailuresOK
  <1>1. \A f \in events : f.type \in {"request.created", "component.failed", "autoscaling.evaluate"}
    BY Beginning DEF MetricsInit
  <1>2. \A r \in Requests : why[r] = "unknown" /\ req[r].status = "pending"
    BY DEF MetricsInit, Init
  <1>3. Coming = {} /\ AtFault = {} /\ Fallen = {}
    BY <1>1, <1>2 DEF Coming, AtFault, Fallen, MayRetry, Blamed
  <1>4. ReasonsOK
    BY <1>1, <1>2 DEF ReasonsOK, Reasons
  <1>5. IsFiniteSet({}) /\ Cardinality({}) = 0 /\ IsFiniteSet(Nodes)
    BY FS_EmptySet DEF MetricsAssumption
  <1>6. PICK x, y, z : x = store.byReason /\ y = store.byNode /\ z = store.retries
    OBVIOUS
  <1>7. /\ x = [a \in Reasons |-> 0] /\ y = [n \in Nodes |-> 0] /\ z = [n \in Nodes |-> 0]
        /\ store.losses = 0
    BY <1>6 DEF MetricsInit, EmptyStore
  <1>8. /\ \A a \in Reasons : x[a] = 0 /\ \A n \in Nodes : y[n] = 0 /\ z[n] = 0
        /\ "unknown" \in Reasons
    BY <1>7 DEF Reasons
  <1>9. x \in [Reasons -> Int] /\ y \in [Nodes -> Int] /\ z \in [Nodes -> Int]
    BY <1>7
  <1>10. Sum(x, Reasons) = 0 /\ Sum(y, Nodes) = 0 /\ Sum(z, Nodes) = 0
    <2> HIDE <1>7, <1>9
    <2> QED BY <1>5, <1>8, ReasonsFinite, SumOfZeros
  <1>11. Sum(Vain, Nodes) = 0
    <2>1. PICK f : f = Vain
      OBVIOUS
    <2>2. \A n \in Nodes : f[n] = 0
      BY <2>1 DEF Vain, MetricsInit
    <2> QED BY <1>5, <2>1, <2>2, SumOfZeros
  <1> QED BY <1>3, <1>4, <1>5, <1>6, <1>7, <1>8, <1>9, <1>10, <1>11 DEF FailuresOK

-----------------------------------------------------------------------------
(* Arrivals.                                                                  *)

\* Every arrival of the load lies within the run.
ArrivalsInTime == \A r \in Requests : Arrivals[r] < Duration

\* The arrivals that have not begun are due within it, and at its end there are none.
ArrivalsOK ==
    /\ \A f \in events : f.type = "request.created" => f \in Eligible(events)
    /\ status = "completed" => Eligible(events) = {}

\* The times the traffic generator computes lie within the run.
LEMMA GeneratedInTime ==
    ASSUME NEW rate \in Nat, NEW duration \in Nat
    PROVE  /\ Generated(rate, duration) \in Seq(Nat)
           /\ \A i \in DOMAIN Generated(rate, duration) :
                 Generated(rate, duration)[i] < duration
  <1> DEFINE K == Slotted(rate, duration)
  <1>1. /\ K \in Nat
        /\ \A j \in 0 .. K - 1 : InTime(j, rate, duration)
        /\ K # 0 => rate > 0
    <2>1. CASE rate <= 0 \/ duration <= 0
      BY <2>1 DEF Slotted
    <2>2. CASE rate > 0 /\ duration > 0
      <3> DEFINE L == duration * rate
                 Beyond(k) == ~InTime(k, rate, duration)
                 Stop(k) == Beyond(k) /\ \A j \in 0 .. k - 1 : InTime(j, rate, duration)
      <3>1. L \in Nat
        OBVIOUS
      <3>2. Beyond(L)
        <4>1. ~(L * 1000 < L)
          BY <3>1
        <4> HIDE DEF L
        <4> QED BY <4>1 DEF InTime, MillisecondsPerSecond, L
      <3>3. \E k \in 0 .. L : Stop(k)
        <4> SUFFICES ASSUME \A k \in 0 .. L : ~Stop(k) PROVE FALSE
          OBVIOUS
        <4>1. PICK T : T = {k \in Nat : k <= L => \A j \in 0 .. k : ~Beyond(j)}
          OBVIOUS
        <4> HIDE DEF L, Beyond
        <4>2. 0 \in T
          <5>1. 0 \in 0 .. L /\ 0 .. 0 - 1 = {} /\ 0 .. 0 = {0}
            BY <3>1
          <5>2. ~Stop(0)
            BY <5>1
          <5>3. ~Beyond(0)
            BY <5>1, <5>2
          <5> QED BY <4>1, <5>1, <5>3
        <4>3. ASSUME NEW k \in Nat, k \in T PROVE k + 1 \in T
          <5> SUFFICES ASSUME k + 1 <= L PROVE \A j \in 0 .. k + 1 : ~Beyond(j)
            BY <4>1
          <5>1. \A j \in 0 .. k : ~Beyond(j)
            BY <3>1, <4>1, <4>3
          <5>2. k + 1 \in 0 .. L /\ \A j \in 0 .. (k + 1) - 1 : j \in 0 .. k
            BY <3>1
          <5>3. \A j \in 0 .. (k + 1) - 1 : InTime(j, rate, duration)
            BY <5>1, <5>2 DEF Beyond
          <5>4. ~Beyond(k + 1)
            BY <5>2, <5>3
          <5>5. \A j \in 0 .. k + 1 : j \in 0 .. k \/ j = k + 1
            OBVIOUS
          <5> QED BY <5>1, <5>4, <5>5
        <4>4. L \in T
          BY <3>1, <4>2, <4>3, NumbersByStep
        <4> QED BY <3>1, <3>2, <4>1, <4>4
      <3>4. K = CHOOSE k \in 0 .. L : Stop(k)
        BY <2>2 DEF Slotted
      <3> HIDE DEF L, Beyond
      <3>5. K \in 0 .. L /\ Stop(K)
        BY <3>3, <3>4
      <3> QED BY <2>2, <3>1, <3>5
    <2> QED BY <2>1, <2>2
  <1> HIDE DEF K
  <1>2. \A i \in 1 .. K : SlotAt(i - 1, rate) \in Nat /\ SlotAt(i - 1, rate) < duration
    <2> SUFFICES ASSUME NEW i \in 1 .. K
                 PROVE  SlotAt(i - 1, rate) \in Nat /\ SlotAt(i - 1, rate) < duration
      OBVIOUS
    <2>1. i - 1 \in 0 .. K - 1 /\ i - 1 \in Nat /\ K # 0
      BY <1>1
    <2>2. SlotAt(i - 1, rate) < duration
      BY <1>1, <2>1 DEF InTime
    <2>3. PICK a, b : a = 2 * (i - 1) * MillisecondsPerSecond + rate /\ b = 2 * rate
      OBVIOUS
    <2>4. a \in Nat /\ b \in Nat /\ b > 0
      BY <1>1, <2>1, <2>3 DEF MillisecondsPerSecond
    <2>5. a \div b \in Nat
      BY <2>4
    <2> QED BY <2>2, <2>3, <2>5 DEF SlotAt
  <1>3. Generated(rate, duration) = [i \in 1 .. K |-> SlotAt(i - 1, rate)]
    BY DEF Generated, K
  <1> QED BY <1>1, <1>2, <1>3

\* No request is created in a run.
LEMMA NothingCreated ==
    ASSUME BasicInv, BasicInv', NEW e \in events, InVain(e) \/ InOrder(e)
    PROVE  \A g \in events' : g.type = "request.created" => g \in events
  <1>1. events' \subseteq Event /\ "request.created" \in RequestEvent \cap Turning
    BY DEF BasicInv, TypeOK, RequestEvent, Turning
  <1>2. CASE Calm(e)
    BY <1>1, <1>2 DEF Calm
  <1>3. ASSUME NEW f, Follows(e, f), f.type # "request.created"
        PROVE  \A g \in events' : g.type = "request.created" => g \in events
    BY <1>1, <1>3 DEF Follows
  <1>4. ASSUME NEW types, GoesTo(e, types), "request.created" \notin types
        PROVE  \A g \in events' : g.type = "request.created" => g \in events
    BY <1>3, <1>4 DEF GoesTo
  <1>5. CASE InVain(e)
    BY <1>4, <1>5 DEF InVain, MayRetry
  <1>6. CASE InOrder(e) /\ ~Calm(e)
    <2>1. CASE Drops(e)
      BY <1>3, <2>1 DEF Drops
    <2>2. CASE GoesTo(e, {"request.failed"}) \/ GoesTo(e, Onward)
      BY <1>4, <2>2 DEF Onward, Turning
    <2> QED BY <1>6, <2>1, <2>2 DEF InOrder
  <1> QED BY <1>2, <1>5, <1>6

\* Arrivals are left over neither by a step
LEMMA ArrivalsKept ==
    ASSUME BasicInv, BasicInv', ArrivalsOK, NEW e \in events, Handle(e), ~Throw(e),
           InVain(e) \/ InOrder(e)
    PROVE  ArrivalsOK'
  <1>1. PICK list : Proceed(e, list)
    BY Schedules
  <1>2. status' = "completed" => Eligible(events') = {}
    BY <1>1 DEF Proceed
  <1>3. \A f \in events' : f.type = "request.created" => f \in Eligible(events')
    BY NothingCreated DEF ArrivalsOK, Eligible
  <1> QED BY <1>2, <1>3 DEF ArrivalsOK, Eligible

\* nor when the run begins.
LEMMA ArrivalsFirst ==
    ASSUME RuntimeAssumption, ArrivalsInTime, Init
    PROVE  ArrivalsOK
  <1>1. \A f \in events : f.type = "request.created" => f.req \in Requests /\ f.at = Arrivals[f.req]
    BY Beginning DEF Sound, RequestEvent
  <1>2. status = "completed" => Eligible(events) = {}
    BY DEF Init
  <1> QED BY <1>1, <1>2 DEF ArrivalsOK, ArrivalsInTime, Eligible

-----------------------------------------------------------------------------

\* What the report says of requests and their failures.
LEMMA FailuresReported ==
    ASSUME FailuresOK, ArrivalsOK
    PROVE  RequestsAccounted
  <1> SUFFICES ASSUME collect, NEW m, m = BuildEnabled
      PROVE LET f == m.failures
                last == {r \in Requests : why[r] \in {"component_error", "network_packet_loss"}}
                coming == {e \in events : e.type \in {"request.retry", "request.reroute"}}
            IN  /\ f.total = Total(f.byReason) /\ f.total = Total(f.byNode)
                /\ f.byReason["unknown"] = 0
                /\ m.network.losses + Total([n \in Nodes |-> m.components[n].traffic.failed])
                     = m.requests.retries + Cardinality(coming) + Cardinality(last)
                /\ status = "completed" => \A e \in events : e.type # "request.created"
    BY DEF RequestsAccounted, Reports, Report
  <1>1. PICK x, y, z : x = store.byReason /\ y = store.byNode /\ z = store.retries
    OBVIOUS
  <1>2. /\ m.failures.total = Cardinality(Fallen)
        /\ m.failures.byReason = x /\ m.failures.byNode = y
        /\ m.network.losses = store.losses /\ m.requests.retries = Total(z)
    BY <1>1 DEF BuildEnabled, Having, Fallen
  <1>3. ASSUME NEW n \in Nodes
        PROVE  m.components[n].traffic.failed = work[n].failed
    <2>1. m.components[n] = ComponentReport(n)
      BY DEF BuildEnabled
    <2> QED BY <2>1 DEF ComponentReport
  <1>4. [n \in Nodes |-> m.components[n].traffic.failed] = Vain
    BY <1>3 DEF Vain
  <1>5. /\ x \in [Reasons -> Int] /\ y \in [Nodes -> Int] /\ z \in [Nodes -> Int]
        /\ x["unknown"] = 0
        /\ Sum(x, Reasons) = Cardinality(Fallen) /\ Sum(y, Nodes) = Cardinality(Fallen)
        /\ store.losses + Sum(Vain, Nodes)
             = Sum(z, Nodes) + Cardinality(Coming) + Cardinality(AtFault)
    BY <1>1 DEF FailuresOK
  <1>6. DOMAIN x = Reasons /\ DOMAIN y = Nodes /\ DOMAIN z = Nodes /\ DOMAIN Vain = Nodes
    BY <1>5 DEF Vain
  <1>7. \A h, S : DOMAIN h = S => Total(h) = Sum(h, S)
    BY DEF Total, Sum, SumFunction
  <1>8. /\ Total(x) = Sum(x, Reasons) /\ Total(y) = Sum(y, Nodes)
        /\ Total(z) = Sum(z, Nodes) /\ Total(Vain) = Sum(Vain, Nodes)
    BY <1>6, <1>7
  <1>9. /\ AtFault = {r \in Requests : why[r] \in {"component_error", "network_packet_loss"}}
        /\ Coming = {e \in events : e.type \in {"request.retry", "request.reroute"}}
    BY DEF AtFault, Coming, Blamed, MayRetry
  <1>10. status = "completed" => \A e \in events : e.type # "request.created"
    BY DEF ArrivalsOK
  <1>11. m.failures.total = Total(m.failures.byReason) /\ m.failures.total = Total(m.failures.byNode)
         /\ m.failures.byReason["unknown"] = 0
    BY <1>2, <1>5, <1>8
  <1>12. m.network.losses + Total([n \in Nodes |-> m.components[n].traffic.failed])
            = m.requests.retries + Cardinality(Coming) + Cardinality(AtFault)
    BY <1>2, <1>4, <1>5, <1>8
  <1> QED BY <1>9, <1>10, <1>11, <1>12

\* Every failed request has one known reason and one node; every failed attempt
\* and every lost transmission was retried, is going to be, or is the reason its
\* request fails; and, under a load whose arrivals lie within the run, none is
\* left over at its end: whichever handlers fail, retry and count them.
THEOREM RequestsAreAccounted ==
    ArrivalsInTime => (MetricsSpec => []RequestsAccounted)
  <1> DEFINE Inv == RunInv /\ HealthInv /\ AttemptsInv /\ FailuresInv
                    /\ (status # "failed" => ArrivalsOK)
  <1>1. ArrivalsInTime /\ MetricsInit => Inv
    <2> SUFFICES ASSUME ArrivalsInTime, MetricsInit PROVE Inv
      OBVIOUS
    <2>1. Init
      BY DEF MetricsInit
    <2>2. RunInv /\ ArrivalsOK
      BY <2>1, RunInvFirst, ArrivalsFirst, RuntimeAssumption
    <2>3. HealthInv /\ AttemptsInv /\ FailuresInv
      BY HealthFirst, AttemptsFirst, FailuresFirst, RuntimeAssumption, MetricsAssumption
         DEF HealthInv, AttemptsInv, FailuresInv
    <2> QED BY <2>2, <2>3
  <1>2. Inv /\ [MetricsNext]_<<vars, telemetry>> => Inv'
    <2> SUFFICES ASSUME Inv, [MetricsNext]_<<vars, telemetry>> PROVE Inv'
      OBVIOUS
    <2>1. /\ [Next]_vars
          /\ \/ UNCHANGED <<vars, telemetry>>
             \/ status' = "failed" /\ UNCHANGED <<model, telemetry>>
             \/ /\ status = "running" /\ status' # "failed"
                /\ \E e \in events : Recording(e)
      BY RecordingStep, RuntimeAssumption DEF RunInv
    <2>2. RunInv'
      BY <2>1, RunInvKept, RuntimeAssumption
    <2>3. CASE UNCHANGED <<vars, telemetry>>
      <3>1. /\ UNCHANGED <<status, events, req, comp, queue>>
            /\ UNCHANGED <<collect, health, work, obs, store, why>>
        BY <2>3 DEF vars, model, telemetry
      <3>2. HealthInv' /\ AttemptsInv'
        BY <3>1 DEF HealthInv, HealthOK, AttemptsInv, AttemptsOK, Made, Counted
      <3>3. FailuresInv'
        BY <3>1 DEF FailuresInv, FailuresOK, ReasonsOK, Fallen, AtFault, Coming, Vain
      <3>4. status' # "failed" => ArrivalsOK'
        BY <3>1 DEF ArrivalsOK
      <3> QED BY <2>2, <3>2, <3>3, <3>4
    <2>4. CASE status' = "failed"
      BY <2>2, <2>4 DEF HealthInv, AttemptsInv, FailuresInv
    <2>5. CASE status = "running" /\ \E e \in events : Recording(e)
      <3>1. PICK e \in events : Recording(e)
        BY <2>5
      <3>2. /\ Base /\ BasicInv /\ BasicInv' /\ PlacesOK /\ HealthOK /\ AttemptsOK
            /\ FailuresOK /\ ArrivalsOK /\ Handle(e) /\ ~Throw(e)
        BY <2>2, <2>5, <3>1
           DEF RunInv, Base, PlacesInv, HealthInv, AttemptsInv, FailuresInv, Recording
      <3>3. HealthOK'
        BY <3>1, <3>2, HealthKept, RuntimeAssumption
      <3>4. AttemptsOK'
        BY <3>1, <3>2, <3>3, AttemptsKept, RuntimeAssumption, MetricsAssumption
      <3>5. FailuresOK'
        BY <3>1, <3>2, <3>4, FailuresKept, RuntimeAssumption, MetricsAssumption
      <3>6. InVain(e) \/ InOrder(e)
        BY <3>1, <3>2, LossesCounted, RuntimeAssumption, MetricsAssumption
      <3>7. ArrivalsOK'
        BY <3>2, <3>6, ArrivalsKept
      <3> QED BY <2>2, <3>3, <3>4, <3>5, <3>7 DEF HealthInv, AttemptsInv, FailuresInv
    <2> QED BY <2>1, <2>3, <2>4, <2>5
  <1>3. Inv => RequestsAccounted
    <2>1. ASSUME Inv, status # "failed" PROVE RequestsAccounted
      BY <2>1, FailuresReported DEF FailuresInv
    <2>2. status = "failed" => RequestsAccounted
      BY DEF RequestsAccounted, Reports
    <2> QED BY <2>1, <2>2
  <1> QED BY <1>1, <1>2, <1>3, PTL DEF MetricsSpec

\* So they are under every load the traffic generator computes: it rounds the
\* times of its arrivals, and stops at the first that is rounded to the end.
THEOREM GeneratedRequestsAreAccounted ==
    ASSUME NEW rate \in Nat, Arrivals = Generated(rate, Duration)
    PROVE  MetricsSpec => []RequestsAccounted
  <1>1. ArrivalsInTime
    <2>1. Duration \in Nat /\ Requests = 1 .. Len(Arrivals) /\ Arrivals \in Seq(Nat)
      BY RuntimeAssumption DEF RuntimeAssumption
    <2>2. \A i \in DOMAIN Arrivals : Arrivals[i] < Duration
      BY <2>1, GeneratedInTime
    <2> QED BY <2>1, <2>2 DEF ArrivalsInTime
  <1> QED BY <1>1, RequestsAreAccounted

\* A set of natural numbers that is not empty has a least member.
LEMMA LeastOf ==
    ASSUME NEW M, M \subseteq Nat, M # {}
    PROVE  \E k \in M : \A j \in M : k <= j
  <1> DEFINE T == {n \in Nat : \A k \in M : n <= k}
  <1>1. 0 \in T
    OBVIOUS
  <1>2. PICK m : m \in M
    OBVIOUS
  <1>3. m + 1 \in Nat /\ ~(m + 1 \in T)
    BY <1>2
  <1>4. PICK n \in Nat : n \in T /\ ~(n + 1 \in T)
    <2> SUFFICES ASSUME \A n \in Nat : n \in T => n + 1 \in T PROVE FALSE
      OBVIOUS
    <2> HIDE DEF T
    <2> QED BY <1>1, <1>3, NumbersByStep
  <1>5. PICK k \in M : ~(n + 1 <= k)
    BY <1>4
  <1>6. n \in Nat /\ k \in Nat /\ n <= k /\ \A j \in M : j \in Nat /\ n <= j
    BY <1>4, <1>5
  <1>7. k = n
    BY <1>5, <1>6
  <1> QED BY <1>5, <1>6, <1>7

LEMMA TimesInOrder ==
    ASSUME NEW a \in Int, NEW b \in Int, NEW c \in Nat, a <= b
    PROVE  a * c <= b * c
  OBVIOUS

LEMMA TimesMore ==
    ASSUME NEW a \in Int, NEW b \in Int, NEW c \in Int
    PROVE  /\ a * (b + c) = a * b + a * c
           /\ a * b \in Int /\ a * c \in Int /\ a * 1 = a
  OBVIOUS

\* A sum is that of one part of the set and that of the other.
LEMMA SumSplits ==
    ASSUME NEW f, NEW S, NEW A, NEW B, IsFiniteSet(S), \A x \in S : f[x] \in Int,
           A \cup B = S, A \cap B = {}
    PROVE  Sum(f, S) = Sum(f, A) + Sum(f, B)
  <1> DEFINE Halves(a, b, s) == a \cup b = s /\ a \cap b = {}
             P == {s \in SUBSET S : \A a, b \in SUBSET S :
                      Halves(a, b, s) => Sum(f, s) = Sum(f, a) + Sum(f, b)}
  <1>1. ASSUME NEW s \in SUBSET S, \A t \in SUBSET s : t # s => t \in P
        PROVE  s \in P
    <2> SUFFICES ASSUME NEW a \in SUBSET S, NEW b \in SUBSET S, Halves(a, b, s)
                 PROVE  Sum(f, s) = Sum(f, a) + Sum(f, b)
      OBVIOUS
    <2>1. \A t \in SUBSET S : IsFiniteSet(t) /\ \A x \in t : f[x] \in Int
      BY FS_Subset
    <2>2. CASE s = {}
      <3>1. a = {} /\ b = {}
        BY <2>2
      <3>2. Sum(f, s) = 0 /\ Sum(f, a) = 0 /\ Sum(f, b) = 0
        BY <2>1, <2>2, <3>1, SumUnfolds
      <3> QED BY <3>2
    <2>3. CASE s # {}
      <3>1. PICK x, t : x \in s /\ t = s \ {x}
        BY <2>3
      <3>2. t \in SUBSET s /\ t # s /\ t \in P
        BY <1>1, <3>1
      <3>3. Sum(f, s) = f[x] + Sum(f, t)
        BY <2>1, <3>1, SumWithout
      <3>4. \A u, v \in SUBSET S : Halves(u, v, t) => Sum(f, t) = Sum(f, u) + Sum(f, v)
        BY <3>2
      <3>5. CASE x \in a
        <4>1. PICK u : u = a \ {x}
          OBVIOUS
        <4>2. Halves(u, b, t) /\ u \in SUBSET S
          BY <3>1, <3>5, <4>1
        <4>3. Sum(f, t) = Sum(f, u) + Sum(f, b)
          BY <3>4, <4>2
        <4>4. Sum(f, a) = f[x] + Sum(f, u)
          BY <2>1, <3>5, <4>1, SumWithout
        <4>5. Sum(f, u) \in Int /\ Sum(f, b) \in Int /\ f[x] \in Int
          BY <2>1, <3>1, <4>2, SumWithout
        <4> QED BY <3>3, <4>3, <4>4, <4>5
      <3>6. CASE x \notin a
        <4>1. x \in b
          BY <3>1, <3>6
        <4>2. PICK v : v = b \ {x}
          OBVIOUS
        <4>3. Halves(a, v, t) /\ v \in SUBSET S
          BY <3>1, <3>6, <4>2
        <4>4. Sum(f, t) = Sum(f, a) + Sum(f, v)
          BY <3>4, <4>3
        <4>5. Sum(f, b) = f[x] + Sum(f, v)
          BY <2>1, <4>1, <4>2, SumWithout
        <4>6. Sum(f, a) \in Int /\ Sum(f, v) \in Int /\ f[x] \in Int
          BY <2>1, <3>1, <4>3, SumWithout
        <4> QED BY <3>3, <4>4, <4>5, <4>6
      <3> QED BY <3>5, <3>6
    <2> QED BY <2>2, <2>3
  <1>2. SUBSET S \subseteq P
    <2> HIDE DEF P
    <2> QED BY <1>1, SubsetsByStep
  <1>3. \A a, b \in SUBSET S : Halves(a, b, S) => Sum(f, S) = Sum(f, a) + Sum(f, b)
    BY <1>2
  <1>4. A \in SUBSET S /\ B \in SUBSET S /\ Halves(A, B, S)
    OBVIOUS
  <1> QED BY <1>3, <1>4

\* A sum of natural numbers is one, and the sum over a larger set is not smaller.
LEMMA SumOfNumbers ==
    ASSUME NEW f, NEW S, IsFiniteSet(S), \A x \in S : f[x] \in Nat
    PROVE  Sum(f, S) \in Nat
  <1> DEFINE P == {s \in SUBSET S : Sum(f, s) \in Nat}
  <1>1. ASSUME NEW s \in SUBSET S, \A t \in SUBSET s : t # s => t \in P
        PROVE  s \in P
    <2>1. IsFiniteSet(s)
      BY FS_Subset
    <2>2. CASE s = {}
      <3>1. Sum(f, s) = 0
        BY <2>1, <2>2, SumUnfolds
      <3> QED BY <3>1
    <2>3. CASE s # {}
      <3>1. First(s) \in s
        BY <2>3, FirstIn
      <3>2. Sum(f, s) = f[First(s)] + Sum(f, s \ {First(s)})
        BY <2>1, <2>3, SumUnfolds
      <3>3. s \ {First(s)} \in P /\ f[First(s)] \in Nat
        BY <1>1, <3>1
      <3> QED BY <3>2, <3>3
    <2> QED BY <2>2, <2>3
  <1>2. SUBSET S \subseteq P
    <2> HIDE DEF P
    <2> QED BY <1>1, SubsetsByStep
  <1>3. S \in P
    <2> HIDE DEF P
    <2> QED BY <1>2
  <1> QED BY <1>3

LEMMA SumGrows ==
    ASSUME NEW f, NEW S, NEW T, IsFiniteSet(S), \A x \in S : f[x] \in Nat, T \subseteq S
    PROVE  Sum(f, T) \in Nat /\ Sum(f, S) \in Nat /\ Sum(f, T) <= Sum(f, S)
  <1>1. PICK R : R = S \ T
    OBVIOUS
  <1>2. T \cup R = S /\ T \cap R = {} /\ IsFiniteSet(T) /\ IsFiniteSet(R)
    BY <1>1, FS_Subset
  <1>3. \A x \in S : f[x] \in Int
    OBVIOUS
  <1>4. Sum(f, T) \in Nat /\ Sum(f, R) \in Nat /\ Sum(f, S) \in Nat
    BY <1>1, <1>2, SumOfNumbers
  <1>5. Sum(f, S) = Sum(f, T) + Sum(f, R)
    BY <1>2, <1>3, SumSplits
  <1> QED BY <1>4, <1>5

\* Members of no account may be left out.
LEMMA SumPadded ==
    ASSUME NEW f, NEW S, NEW T, IsFiniteSet(S), T \subseteq S,
           \A x \in S : f[x] \in Int, \A x \in S \ T : f[x] = 0
    PROVE  Sum(f, S) = Sum(f, T)
  <1>1. PICK R : R = S \ T
    OBVIOUS
  <1>2. T \cup R = S /\ T \cap R = {} /\ IsFiniteSet(T) /\ IsFiniteSet(R)
    BY <1>1, FS_Subset
  <1>3. Sum(f, S) = Sum(f, T) + Sum(f, R)
    BY <1>2, SumSplits
  <1>4. Sum(f, R) = 0
    BY <1>1, <1>2, SumOfZeros
  <1>5. Sum(f, T) \in Int
    BY <1>2, SumWithout
  <1> QED BY <1>3, <1>4, <1>5

-----------------------------------------------------------------------------
(* Histograms.                                                                *)

\* The samples are in buckets, and the exact figures are those of the samples.
HistogramOK(h) ==
    /\ DOMAIN h.buckets \subseteq Buckets
    /\ \A i \in DOMAIN h.buckets : h.buckets[i] \in Nat
    /\ h.count = Sum(h.buckets, DOMAIN h.buckets)
    /\ h.count \in Nat /\ h.total \in Nat /\ h.low \in Nat /\ h.high \in Nat
    /\ h.low * h.count <= h.total /\ h.total <= h.high * h.count

LEMMA FiniteBuckets ==
    ASSUME NEW D \in SUBSET Buckets
    PROVE  IsFiniteSet(D)
  <1>1. IsFiniteSet(0 .. 40)
    <2>1. PICK b : b = 40
      OBVIOUS
    <2>2. 0 \in Int /\ b \in Int
      BY <2>1
    <2>3. IsFiniteSet(0 .. b)
      BY <2>2, FS_Interval
    <2> QED BY <2>1, <2>3
  <1> QED BY <1>1, FS_Subset DEF Buckets, LastBucket

LEMMA NoSample == HistogramOK(EmptyHistogram)
  <1> DEFINE b == EmptyHistogram.buckets
  <1>1. DOMAIN b = {}
    BY DEF EmptyHistogram
  <1>2. IsFiniteSet(DOMAIN b)
    BY <1>1, FS_EmptySet
  <1>3. Sum(b, DOMAIN b) = 0
    BY <1>1, <1>2, SumUnfolds
  <1> QED BY <1>1, <1>3 DEF EmptyHistogram, HistogramOK

\* Every sample has its bucket.
LEMMA BucketOf ==
    ASSUME NEW v \in Nat
    PROVE  BucketIndex(v) \in Buckets
  <1>1. CASE v = 0
    BY <1>1 DEF BucketIndex, Buckets, LastBucket
  <1>2. CASE v # 0
    <2> DEFINE M == {i \in Nat : i = LastBucket \/ ~Reaches(v, i + 1)}
    <2>1. LastBucket \in M
      BY DEF LastBucket
    <2>2. PICK i \in M : \A j \in M : i <= j
      BY <2>1, LeastOf
    <2>3. i \in Nat /\ i <= 40 /\ i \in Buckets
      BY <2>1, <2>2 DEF Buckets, LastBucket
    <2>4. Reaches(v, i)
      <3>1. CASE i = 0
        <4>1. 2 ^ i = 1 /\ 4 * v * v >= 1
          BY <1>2, <3>1
        <4> QED BY <4>1 DEF Reaches
      <3>2. CASE i # 0
        <4>1. i - 1 \in Nat /\ ~(i - 1 \in M) /\ (i - 1) + 1 = i
          BY <2>2, <2>3, <3>2
        <4> QED BY <4>1
      <3> QED BY <3>1, <3>2
    <2>5. \E j \in Buckets : Reaches(v, j) /\ (j = LastBucket \/ ~Reaches(v, j + 1))
      BY <2>2, <2>3, <2>4
    <2> QED BY <1>2, <2>5 DEF BucketIndex
  <1> QED BY <1>1, <1>2

\* Recording a sample.
LEMMA RecordedSound ==
    ASSUME NEW h, HistogramOK(h), NEW v \in Nat
    PROVE  /\ HistogramOK(Recorded(h, v))
           /\ Recorded(h, v).count = h.count + 1
           /\ Recorded(h, v).total = h.total + v
  <1>1. PICK g, b : g = Recorded(h, v) /\ b = BucketIndex(v)
    OBVIOUS
  <1>2. b \in Buckets
    BY <1>1, BucketOf
  <1>3. /\ g.buckets = [i \in DOMAIN h.buckets \cup {b} |->
                           In(h, i) + (IF i = b THEN 1 ELSE 0)]
        /\ g.count = h.count + 1 /\ g.total = h.total + v
        /\ g.low = IF h.count = 0 \/ v < h.low THEN v ELSE h.low
        /\ g.high = IF h.count = 0 \/ v > h.high THEN v ELSE h.high
    BY <1>1 DEF Recorded
  <1>4. PICK f, D, k, E : /\ f = h.buckets /\ D = DOMAIN h.buckets
                          /\ k = g.buckets /\ E = D \cup {b}
    OBVIOUS
  <1>5. /\ D \subseteq Buckets /\ E \subseteq Buckets /\ IsFiniteSet(D) /\ IsFiniteSet(E)
        /\ \A i \in D : f[i] \in Nat
    BY <1>2, <1>4, FiniteBuckets DEF HistogramOK
  <1>6. \A i \in D \ {b} : k[i] = f[i]
    BY <1>3, <1>4, <1>5 DEF In
  <1>7. k[b] = (IF b \in D THEN f[b] ELSE 0) + 1
    BY <1>3, <1>4, <1>5 DEF In
  <1>8. DOMAIN k = E /\ \A i \in E : k[i] \in Nat
    <2>1. k = [i \in E |-> In(h, i) + (IF i = b THEN 1 ELSE 0)]
      BY <1>3, <1>4
    <2>2. \A i \in E : In(h, i) \in Nat
      BY <1>4, <1>5 DEF In
    <2> QED BY <2>1, <2>2
  <1>9. Sum(k, E) = Sum(f, D) + 1 /\ Sum(f, D) \in Nat
    <2>1. Sum(f, D) \in Nat
      BY <1>5, SumOfNumbers
    <2>2. CASE b \in D
      <3>1. E = D
        BY <1>4, <2>2
      <3>2. \A x \in D : f[x] \in Int /\ k[x] \in Int
        BY <1>5, <1>8, <3>1
      <3>3. \A x \in D : x # b => k[x] = f[x]
        BY <1>6
      <3>4. Sum(k, D) = Sum(f, D) - f[b] + k[b]
        BY <1>5, <2>2, <3>2, <3>3, SumChanges
      <3>5. f[b] \in Nat /\ k[b] = f[b] + 1
        BY <1>5, <1>7, <2>2
      <3> QED BY <2>1, <3>1, <3>4, <3>5
    <2>3. CASE b \notin D
      <3>1. E \ {b} = D /\ b \in E /\ k[b] = 1
        BY <1>4, <1>7, <2>3
      <3>2. Sum(k, E) = k[b] + Sum(k, D)
        BY <1>5, <1>8, <3>1, SumWithout
      <3>3. Sum(k, D) = Sum(f, D)
        <4>1. \A x \in D : k[x] = f[x]
          BY <1>6, <2>3
        <4> QED BY <1>5, <4>1, SumAgrees
      <3> QED BY <2>1, <3>1, <3>2, <3>3
    <2> QED BY <2>1, <2>2, <2>3
  <1>10. PICK c, t, l, m : c = h.count /\ t = h.total /\ l = h.low /\ m = h.high
    OBVIOUS
  <1>11. /\ c \in Nat /\ t \in Nat /\ l \in Nat /\ m \in Nat
         /\ l * c <= t /\ t <= m * c /\ c = Sum(f, D)
    BY <1>4, <1>10 DEF HistogramOK
  <1>12. PICK p, q : p = g.low /\ q = g.high
    OBVIOUS
  <1>13. /\ p \in Nat /\ q \in Nat /\ p <= v /\ v <= q
         /\ c # 0 => p <= l /\ m <= q
    <2>1. /\ p = IF c = 0 \/ v < l THEN v ELSE l
          /\ q = IF c = 0 \/ v > m THEN v ELSE m
      BY <1>3, <1>10, <1>12
    <2> QED BY <1>11, <2>1
  <1>14. p * c <= t /\ t <= q * c
    <2>1. CASE c = 0
      <3>1. l * c = 0 /\ m * c = 0 /\ p * c = 0 /\ q * c = 0
        BY <1>11, <1>13, <2>1
      <3> QED BY <1>11, <3>1
    <2>2. CASE c # 0
      <3>1. p * c <= l * c /\ m * c <= q * c
        BY <1>11, <1>13, <2>2, TimesInOrder
      <3>2. p * c \in Nat /\ l * c \in Nat /\ m * c \in Nat /\ q * c \in Nat
        BY <1>11, <1>13
      <3> QED BY <1>11, <3>1, <3>2
    <2> QED BY <2>1, <2>2
  <1>15. p * (c + 1) <= t + v /\ t + v <= q * (c + 1)
    <2>1. PICK x, y : x = p * c /\ y = q * c
      OBVIOUS
    <2>2. p * (c + 1) = x + p /\ q * (c + 1) = y + q /\ x \in Int /\ y \in Int
      <3>1. p \in Int /\ q \in Int /\ c \in Int /\ 1 \in Int
        BY <1>11, <1>13
      <3> QED BY <2>1, <3>1, TimesMore
    <2>3. x <= t /\ t <= y
      BY <1>14, <2>1
    <2>4. v \in Int /\ t \in Int /\ p \in Int /\ q \in Int /\ p <= v /\ v <= q
      BY <1>11, <1>13
    <2>5. x + p <= t + v /\ t + v <= y + q
      BY <2>2, <2>3, <2>4
    <2> QED BY <2>2, <2>5
  <1>16. HistogramOK(g)
    <2>1. DOMAIN g.buckets \subseteq Buckets /\ \A i \in DOMAIN g.buckets : g.buckets[i] \in Nat
      BY <1>4, <1>5, <1>8
    <2>2. g.count = c + 1 /\ g.total = t + v /\ g.low = p /\ g.high = q
      BY <1>3, <1>10, <1>12
    <2>3. g.count = Sum(g.buckets, DOMAIN g.buckets)
      <3>1. Sum(k, DOMAIN k) = c + 1
        BY <1>8, <1>9, <1>11
      <3> QED BY <1>4, <2>2, <3>1
    <2>4. g.low * g.count <= g.total /\ g.total <= g.high * g.count
      BY <1>15, <2>2
    <2>5. g.count \in Nat /\ g.total \in Nat /\ g.low \in Nat /\ g.high \in Nat
      <3>1. c + 1 \in Nat /\ t + v \in Nat
        BY <1>11
      <3> QED BY <1>13, <2>2, <3>1
    <2> QED BY <2>1, <2>3, <2>4, <2>5 DEF HistogramOK
  <1> QED BY <1>1, <1>3, <1>16

\* Merging two histograms.
LEMMA MergedSound ==
    ASSUME NEW g, NEW h, HistogramOK(g), HistogramOK(h)
    PROVE  /\ HistogramOK(Merged(g, h))
           /\ Merged(g, h).count = g.count + h.count
           /\ Merged(g, h).total = g.total + h.total
  <1>1. PICK m : m = Merged(g, h)
    OBVIOUS
  <1>2. PICK D, E, a, b : /\ D = DOMAIN g.buckets \cup DOMAIN h.buckets /\ E = DOMAIN m.buckets
                          /\ a = [i \in D |-> In(g, i)] /\ b = [i \in D |-> In(h, i)]
    OBVIOUS
  <1>3. /\ m.buckets = [i \in D |-> In(g, i) + In(h, i)]
        /\ m.count = g.count + h.count /\ m.total = g.total + h.total
        /\ m.low = IF h.count > 0 /\ (g.count = 0 \/ h.low < g.low) THEN h.low ELSE g.low
        /\ m.high = IF h.count > 0 /\ (g.count = 0 \/ h.high > g.high) THEN h.high ELSE g.high
    BY <1>1, <1>2 DEF Merged
  <1>4. D \subseteq Buckets /\ IsFiniteSet(D) /\ E = D
    BY <1>2, <1>3, FiniteBuckets DEF HistogramOK
  <1>5. \A i \in D : a[i] \in Nat /\ b[i] \in Nat /\ m.buckets[i] = a[i] + b[i]
    BY <1>2, <1>3 DEF HistogramOK, In
  <1>6. Sum(m.buckets, D) = Sum(a, D) + Sum(b, D)
    BY <1>4, <1>5, SumAdds
  <1>7. Sum(a, D) = g.count
    <2>1. PICK f, G : f = g.buckets /\ G = DOMAIN g.buckets
      OBVIOUS
    <2>2. G \subseteq D /\ IsFiniteSet(G) /\ \A i \in D \ G : a[i] = 0
      BY <1>2, <1>4, <2>1, FS_Subset DEF In
    <2>3. Sum(a, D) = Sum(a, G)
      BY <1>4, <1>5, <2>2, SumPadded
    <2>4. \A i \in G : a[i] = f[i]
      BY <1>2, <2>1, <2>2 DEF In
    <2>5. Sum(a, G) = Sum(f, G)
      BY <2>2, <2>4, SumAgrees
    <2> QED BY <2>1, <2>3, <2>5 DEF HistogramOK
  <1>8. Sum(b, D) = h.count
    <2>1. PICK f, H : f = h.buckets /\ H = DOMAIN h.buckets
      OBVIOUS
    <2>2. H \subseteq D /\ IsFiniteSet(H) /\ \A i \in D \ H : b[i] = 0
      BY <1>2, <1>4, <2>1, FS_Subset DEF In
    <2>3. Sum(b, D) = Sum(b, H)
      BY <1>4, <1>5, <2>2, SumPadded
    <2>4. \A i \in H : b[i] = f[i]
      BY <1>2, <2>1, <2>2 DEF In
    <2>5. Sum(b, H) = Sum(f, H)
      BY <2>2, <2>4, SumAgrees
    <2> QED BY <2>1, <2>3, <2>5 DEF HistogramOK
  <1>9. /\ m.low \in Nat /\ m.high \in Nat
        /\ g.count # 0 => m.low <= g.low /\ g.high <= m.high
        /\ h.count # 0 => m.low <= h.low /\ h.high <= m.high
    BY <1>3 DEF HistogramOK
  <1>10. \A x \in {g, h} : m.low * x.count <= x.total /\ x.total <= m.high * x.count
    <2> SUFFICES ASSUME NEW x \in {g, h}
                 PROVE  m.low * x.count <= x.total /\ x.total <= m.high * x.count
      OBVIOUS
    <2>1. PICK c, t, l, u, p, q : /\ c = x.count /\ t = x.total /\ l = x.low /\ u = x.high
                                  /\ p = m.low /\ q = m.high
      OBVIOUS
    <2>2. /\ c \in Nat /\ t \in Nat /\ l \in Nat /\ u \in Nat /\ p \in Nat /\ q \in Nat
          /\ l * c <= t /\ t <= u * c
          /\ c # 0 => p <= l /\ u <= q
      BY <1>9, <2>1 DEF HistogramOK
    <2>3. CASE c = 0
      <3>1. l * c = 0 /\ u * c = 0 /\ p * c = 0 /\ q * c = 0
        BY <2>2, <2>3
      <3> QED BY <2>1, <2>2, <3>1
    <2>4. CASE c # 0
      <3>1. p * c <= l * c /\ u * c <= q * c
        BY <2>2, <2>4, TimesInOrder
      <3>2. p * c \in Nat /\ l * c \in Nat /\ u * c \in Nat /\ q * c \in Nat
        BY <2>2
      <3>3. p * c <= t /\ t <= q * c
        BY <2>2, <3>1, <3>2
      <3> QED BY <2>1, <3>3
    <2> QED BY <2>3, <2>4
  <1>11. m.low * m.count <= m.total /\ m.total <= m.high * m.count
    <2>1. PICK c, d, s, t, p, q : /\ c = g.count /\ d = h.count /\ s = g.total /\ t = h.total
                                  /\ p = m.low /\ q = m.high
      OBVIOUS
    <2>2. c \in Nat /\ d \in Nat /\ s \in Nat /\ t \in Nat /\ p \in Nat /\ q \in Nat
      BY <1>9, <2>1 DEF HistogramOK
    <2>3. p * c <= s /\ s <= q * c /\ p * d <= t /\ t <= q * d
      BY <1>10, <2>1
    <2>4. p * (c + d) = p * c + p * d /\ q * (c + d) = q * c + q * d
      BY <2>2
    <2>5. p * c \in Int /\ p * d \in Int /\ q * c \in Int /\ q * d \in Int
      BY <2>2
    <2>6. p * (c + d) <= s + t /\ s + t <= q * (c + d)
      BY <2>2, <2>3, <2>4, <2>5
    <2> QED BY <1>3, <2>1, <2>6
  <1>12. g.count \in Nat /\ h.count \in Nat /\ g.total \in Nat /\ h.total \in Nat
    BY DEF HistogramOK
  <1>13. HistogramOK(m)
    <2>1. PICK k : k = m.buckets
      OBVIOUS
    <2>2. \A i \in D : k[i] \in Nat
      <3>1. \A i \in D : k[i] = a[i] + b[i]
        BY <1>5, <2>1
      <3> QED BY <1>5, <3>1
    <2>3. DOMAIN k = D
      BY <1>2, <1>4, <2>1
    <2>4. Sum(k, D) = g.count + h.count
      BY <1>6, <1>7, <1>8, <2>1
    <2>5. m.count = Sum(k, DOMAIN k)
      BY <1>3, <2>3, <2>4
    <2>6. /\ DOMAIN m.buckets \subseteq Buckets
          /\ \A i \in DOMAIN m.buckets : m.buckets[i] \in Nat
          /\ m.count = Sum(m.buckets, DOMAIN m.buckets)
      BY <1>4, <2>1, <2>2, <2>3, <2>5
    <2>7. m.count \in Nat /\ m.total \in Nat
      BY <1>3, <1>12
    <2> QED BY <1>9, <1>11, <2>6, <2>7 DEF HistogramOK
  <1> QED BY <1>1, <1>3, <1>13

-----------------------------------------------------------------------------
(* Percentiles.                                                               *)

\* The rank of a percentile among the samples.
Rank(h, percent) ==
    LET wanted == (percent * h.count + 99) \div 100
    IN  IF wanted < 1 THEN 1 ELSE wanted

\* Bucket i is the first by which r samples have been seen.
RankFalls(h, i, r) ==
    /\ i \in DOMAIN h.buckets
    /\ UpTo(h, i) >= r
    /\ \A j \in DOMAIN h.buckets : j < i => UpTo(h, j) < r

LEMMA UpToGrows ==
    ASSUME NEW h, HistogramOK(h), NEW i \in Int, NEW j \in Int, i <= j
    PROVE  /\ UpTo(h, i) \in Nat /\ UpTo(h, j) \in Nat
           /\ UpTo(h, i) <= UpTo(h, j)
  <1>1. PICK f, D, A, B : /\ f = h.buckets /\ D = DOMAIN h.buckets
                          /\ A = {k \in D : k <= i} /\ B = {k \in D : k <= j}
    OBVIOUS
  <1>2. /\ IsFiniteSet(D) /\ IsFiniteSet(B) /\ A \subseteq B /\ B \subseteq D
        /\ \A k \in D : k \in Int /\ f[k] \in Nat
    <2>1. D \subseteq Buckets /\ \A k \in D : k \in Int /\ f[k] \in Nat
      BY <1>1 DEF HistogramOK, Buckets
    <2>2. IsFiniteSet(D)
      BY <2>1, FiniteBuckets
    <2>3. A \subseteq B /\ B \subseteq D
      BY <1>1, <2>1
    <2> QED BY <2>1, <2>2, <2>3, FS_Subset
  <1>3. Sum(f, A) \in Nat /\ Sum(f, B) \in Nat /\ Sum(f, A) <= Sum(f, B)
    BY <1>2, SumGrows
  <1> QED BY <1>1, <1>3 DEF UpTo, Sum

LEMMA RankHasBucket ==
    ASSUME NEW h, HistogramOK(h), NEW r \in Int, r <= h.count, 0 < h.count
    PROVE  \E i : RankFalls(h, i, r)
  <1>1. PICK f, D : f = h.buckets /\ D = DOMAIN h.buckets
    OBVIOUS
  <1>2. D \subseteq 0 .. 40 /\ IsFiniteSet(D) /\ h.count = Sum(f, D)
    BY <1>1, FiniteBuckets DEF HistogramOK, Buckets, LastBucket
  <1>3. D # {}
    <2> SUFFICES ASSUME D = {} PROVE FALSE
      OBVIOUS
    <2>1. Sum(f, D) = 0
      BY <1>2, SumUnfolds
    <2> QED BY <1>2, <2>1
  <1>4. PICK d \in D : \A j \in D : j <= d
    <2> DEFINE M == {40 - i : i \in D}
    <2>1. M \subseteq Nat /\ M # {}
      <3>1. \A i \in D : i \in Int /\ i <= 40
        BY <1>2
      <3>2. \A i \in D : 40 - i \in Nat
        BY <3>1
      <3>3. PICK i : i \in D
        BY <1>3
      <3>4. 40 - i \in M
        BY <3>3
      <3> QED BY <3>2, <3>4
    <2>2. PICK m \in M : \A j \in M : m <= j
      BY <2>1, LeastOf
    <2>3. PICK d \in D : m = 40 - d
      BY <2>2
    <2>4. \A j \in D : 40 - d <= 40 - j
      BY <2>2, <2>3
    <2>5. \A j \in D : j \in Int
      BY <1>2
    <2> HIDE DEF M
    <2> QED BY <2>3, <2>4, <2>5
  <1>5. UpTo(h, d) = h.count
    <2>1. PICK E : E = {j \in D : j <= d}
      OBVIOUS
    <2>2. E = D
      BY <1>4, <2>1
    <2>3. UpTo(h, d) = Sum(f, E)
      BY <1>1, <2>1 DEF UpTo, Sum
    <2> QED BY <1>2, <2>2, <2>3
  <1> DEFINE L == {i \in D : UpTo(h, i) >= r}
  <1>6. L \subseteq Nat /\ d \in L
    <2>1. h.count \in Int
      BY DEF HistogramOK
    <2>2. UpTo(h, d) >= r
      BY <1>5, <2>1
    <2>3. \A i \in D : i \in Nat
      BY <1>2
    <2> QED BY <1>4, <2>2, <2>3
  <1>7. PICK i \in L : \A j \in L : i <= j
    BY <1>6, LeastOf
  <1>8. \A j \in D : j < i => UpTo(h, j) < r
    <2> SUFFICES ASSUME NEW j \in D, j < i PROVE UpTo(h, j) < r
      OBVIOUS
    <2>1. i \in Int /\ j \in Int
      BY <1>2, <1>6, <1>7
    <2>2. UpTo(h, j) \in Int
      BY <2>1, UpToGrows
    <2>3. ~(j \in L)
      BY <1>7, <2>1
    <2> QED BY <2>2, <2>3
  <1>9. RankFalls(h, i, r)
    BY <1>1, <1>7, <1>8 DEF RankFalls
  <1> QED BY <1>9

\* A higher rank is not found in an earlier bucket, nor earlier in the same one.
LEMMA RanksInOrder ==
    ASSUME NEW h, HistogramOK(h), 0 < h.count, NEW p, NEW q,
           Rank(h, p) \in Int, Rank(h, q) \in Int,
           Rank(h, p) <= Rank(h, q), Rank(h, q) <= h.count
    PROVE  AtMost(Percentile(h, p), Percentile(h, q))
  <1>1. PICK x, y, a, b : /\ x = Rank(h, p) /\ y = Rank(h, q)
                          /\ a = (CHOOSE i : RankFalls(h, i, x)) /\ b = (CHOOSE i : RankFalls(h, i, y))
    OBVIOUS
  <1>2. x \in Int /\ y \in Int /\ x <= y /\ x <= h.count /\ y <= h.count
    BY <1>1 DEF HistogramOK
  <1>3. RankFalls(h, a, x) /\ RankFalls(h, b, y)
    BY <1>1, <1>2, RankHasBucket
  <1>4. a \in Int /\ b \in Int /\ a \in DOMAIN h.buckets /\ b \in DOMAIN h.buckets
    BY <1>3 DEF RankFalls, HistogramOK, Buckets
  <1>5. a <= b
    <2> SUFFICES ASSUME b < a PROVE FALSE
      BY <1>4
    <2>1. UpTo(h, b) < x /\ UpTo(h, b) >= y
      BY <1>3, <1>4 DEF RankFalls
    <2>2. UpTo(h, b) \in Int
      BY <1>4, UpToGrows
    <2> QED BY <1>2, <2>1, <2>2
  <1> DEFINE den(i) == IF In(h, i) > 1 THEN In(h, i) - 1 ELSE 1
  <1>6. /\ Percentile(h, p) = [bucket |-> a, num |-> x - UpTo(h, a - 1) - 1, den |-> den(a)]
        /\ Percentile(h, q) = [bucket |-> b, num |-> y - UpTo(h, b - 1) - 1, den |-> den(b)]
    <2>1. ASSUME NEW k, NEW r, NEW i, r = Rank(h, k), i = CHOOSE j : RankFalls(h, j, r)
          PROVE  Percentile(h, k) = [bucket |-> i, num |-> r - UpTo(h, i - 1) - 1,
                                     den |-> IF In(h, i) > 1 THEN In(h, i) - 1 ELSE 1]
      <3>1. i = CHOOSE j \in DOMAIN h.buckets :
                   UpTo(h, j) >= r /\ \A m \in DOMAIN h.buckets : m < j => UpTo(h, m) < r
        BY <2>1 DEF RankFalls
      <3>2. r = IF (k * h.count + 99) \div 100 < 1 THEN 1 ELSE (k * h.count + 99) \div 100
        BY <2>1 DEF Rank
      <3> QED BY <3>1, <3>2 DEF Percentile
    <2> QED BY <1>1, <2>1
  <1>7. CASE a < b
    BY <1>6, <1>7 DEF AtMost
  <1>8. CASE a = b
    <2>1. PICK u, d : u = UpTo(h, a - 1) /\ d = den(a)
      OBVIOUS
    <2>2. u \in Int
      <3>1. a - 1 \in Int
        BY <1>4
      <3> QED BY <2>1, <3>1, UpToGrows
    <2>3. d \in Nat
      <3>1. In(h, a) \in Nat
        BY <1>4 DEF In, HistogramOK
      <3> QED BY <2>1, <3>1
    <2>4. (x - u - 1) * d <= (y - u - 1) * d
      <3>1. x - u - 1 \in Int /\ y - u - 1 \in Int /\ x - u - 1 <= y - u - 1
        BY <1>2, <2>2
      <3> QED BY <2>3, <3>1, TimesInOrder
    <2> HIDE DEF den
    <2> QED BY <1>6, <1>8, <2>1, <2>4 DEF AtMost
  <1> QED BY <1>4, <1>5, <1>7, <1>8

LEMMA RanksOf ==
    ASSUME NEW h, HistogramOK(h), 0 < h.count
    PROVE  /\ Rank(h, 50) \in Int /\ Rank(h, 95) \in Int /\ Rank(h, 99) \in Int
           /\ Rank(h, 50) <= Rank(h, 95) /\ Rank(h, 95) <= Rank(h, 99)
           /\ Rank(h, 99) <= h.count
  <1>1. PICK c : c = h.count
    OBVIOUS
  <1>2. c \in Int /\ 1 <= c
    BY <1>1 DEF HistogramOK
  <1>3. PICK x, y, z : /\ x = (50 * c + 99) \div 100 /\ y = (95 * c + 99) \div 100
                       /\ z = (99 * c + 99) \div 100
    OBVIOUS
  <1>4. x \in Int /\ y \in Int /\ z \in Int
    BY <1>2, <1>3
  <1>5. x <= y /\ y <= z /\ z <= c
    BY <1>2, <1>3
  <1>6. /\ Rank(h, 50) = IF x < 1 THEN 1 ELSE x
        /\ Rank(h, 95) = IF y < 1 THEN 1 ELSE y
        /\ Rank(h, 99) = IF z < 1 THEN 1 ELSE z
    BY <1>1, <1>3 DEF Rank
  <1> QED BY <1>1, <1>2, <1>4, <1>5, <1>6

LEMMA SummaryPlausible ==
    ASSUME NEW h, HistogramOK(h)
    PROVE  Plausible(Summary(h))
  <1>1. PICK s : s = Summary(h)
    OBVIOUS
  <1>2. s.min * s.count <= s.total /\ s.total <= s.max * s.count
    BY <1>1 DEF Summary, HistogramOK
  <1>3. CASE h.count = 0
    <2>1. s.p50 = Nowhere /\ s.p95 = Nowhere /\ s.p99 = Nowhere
      BY <1>1, <1>3 DEF Summary
    <2>2. AtMost(Nowhere, Nowhere)
      BY DEF AtMost, Nowhere
    <2> QED BY <1>1, <1>2, <2>1, <2>2 DEF Plausible
  <1>4. CASE h.count # 0
    <2>1. h.count \in Nat /\ 0 < h.count
      BY <1>4 DEF HistogramOK
    <2>2. s.p50 = Percentile(h, 50) /\ s.p95 = Percentile(h, 95) /\ s.p99 = Percentile(h, 99)
      BY <1>1, <1>4 DEF Summary
    <2>3. AtMost(Percentile(h, 50), Percentile(h, 95))
      <3>1. Rank(h, 95) <= h.count
        BY <2>1, RanksOf
      <3> QED BY <2>1, <3>1, RanksOf, RanksInOrder
    <2>4. AtMost(Percentile(h, 95), Percentile(h, 99))
      BY <2>1, RanksOf, RanksInOrder
    <2> QED BY <1>1, <1>2, <2>2, <2>3, <2>4 DEF Plausible
  <1> QED BY <1>3, <1>4

-----------------------------------------------------------------------------
(* Histograms folded over a set.                                              *)

\* The recursive function by which the steps `op` are made from `base` over S.
IsFold(g, op, base, S) ==
    g = [s \in SUBSET S |-> IF s = {} THEN base ELSE op[First(s)][g[s \ {First(s)}]]]

Folded(op, base, S) == (CHOOSE g : IsFold(g, op, base, S))[S]

\* What the function is at a set, whatever its domain.
LEMMA FoldIsUnique ==
    ASSUME NEW op, NEW base, NEW S, NEW R, NEW g, NEW h,
           IsFold(g, op, base, S), IsFold(h, op, base, R), IsFiniteSet(R), R \subseteq S
    PROVE  g[R] = h[R]
  <1> DEFINE P == {s \in SUBSET R : g[s] = h[s]}
  <1>1. ASSUME NEW s \in SUBSET R, \A t \in SUBSET s : t # s => t \in P
        PROVE  s \in P
    <2>1. s \in SUBSET S /\ s \in SUBSET R
      OBVIOUS
    <2>2. /\ g[s] = IF s = {} THEN base ELSE op[First(s)][g[s \ {First(s)}]]
          /\ h[s] = IF s = {} THEN base ELSE op[First(s)][h[s \ {First(s)}]]
      BY <2>1 DEF IsFold
    <2>3. s # {} => g[s \ {First(s)}] = h[s \ {First(s)}]
      BY <1>1, FirstIn
    <2> QED BY <2>2, <2>3
  <1>2. SUBSET R \subseteq P
    <2> HIDE DEF P
    <2> QED BY <1>1, SubsetsByStep
  <1>3. R \in P
    <2> HIDE DEF P
    <2> QED BY <1>2
  <1> QED BY <1>3

\* There is such a function.
LEMMA FoldExists ==
    ASSUME NEW op, NEW base, NEW S, IsFiniteSet(S)
    PROVE  \E g : IsFold(g, op, base, S)
  <1> DEFINE P == {s \in SUBSET S : \E g : IsFold(g, op, base, s)}
             F(s) == Folded(op, base, s)
  <1>1. ASSUME NEW s \in SUBSET S, \A t \in SUBSET s : t # s => t \in P
        PROVE  s \in P
    <2> DEFINE G == [t \in SUBSET s |-> IF t = {} THEN base ELSE op[First(t)][F(t \ {First(t)})]]
    <2>1. ASSUME NEW t \in SUBSET s, t # s
          PROVE  G[t] = F(t)
      <3>1. PICK g : g = CHOOSE x : IsFold(x, op, base, t)
        OBVIOUS
      <3>2. IsFold(g, op, base, t) /\ F(t) = g[t]
        BY <1>1, <2>1, <3>1 DEF Folded
      <3>3. F(t) = IF t = {} THEN base ELSE op[First(t)][g[t \ {First(t)}]]
        BY <3>2 DEF IsFold
      <3>4. ASSUME t # {}
            PROVE  g[t \ {First(t)}] = F(t \ {First(t)})
        <4>1. PICK u : u = t \ {First(t)}
          OBVIOUS
        <4>2. u \in SUBSET s /\ u # s /\ u \subseteq t /\ u \in SUBSET S
          BY <2>1, <3>4, <4>1, FirstIn
        <4>3. PICK h : h = CHOOSE x : IsFold(x, op, base, u)
          OBVIOUS
        <4>4. IsFold(h, op, base, u) /\ F(u) = h[u]
          BY <1>1, <4>2, <4>3 DEF Folded
        <4>5. IsFiniteSet(u)
          BY <4>2, FS_Subset
        <4>6. g[u] = h[u]
          BY <3>2, <4>2, <4>4, <4>5, FoldIsUnique
        <4> QED BY <4>1, <4>4, <4>6
      <3> HIDE DEF F
      <3>5. G[t] = IF t = {} THEN base ELSE op[First(t)][F(t \ {First(t)})]
        OBVIOUS
      <3> QED BY <3>3, <3>4, <3>5
    <2>2. ASSUME NEW t \in SUBSET s
          PROVE  G[t] = IF t = {} THEN base ELSE op[First(t)][G[t \ {First(t)}]]
      <3>1. CASE t = {}
        BY <3>1
      <3>2. CASE t # {}
        <4>1. PICK u : u = t \ {First(t)}
          OBVIOUS
        <4>2. u \in SUBSET s /\ u # s
          BY <3>2, <4>1, FirstIn
        <4>3. G[u] = F(u)
          BY <2>1, <4>2
        <4>4. G[t] = op[First(t)][F(u)]
          BY <3>2, <4>1
        <4> HIDE DEF G, F
        <4> QED BY <3>2, <4>1, <4>3, <4>4
      <3> QED BY <3>1, <3>2
    <2>3. G = [t \in SUBSET s |-> G[t]]
      OBVIOUS
    <2>4. IsFold(G, op, base, s)
      <3> HIDE DEF G
      <3> QED BY <2>2, <2>3 DEF IsFold
    <2> HIDE DEF G
    <2> QED BY <2>4
  <1>2. SUBSET S \subseteq P
    <2> HIDE DEF P
    <2> QED BY <1>1, SubsetsByStep
  <1>3. S \in SUBSET S
    OBVIOUS
  <1>4. S \in P
    BY <1>2, <1>3
  <1> QED BY <1>4

\* Steps that stay within H end in H.
LEMMA FoldStays ==
    ASSUME NEW op, NEW base, NEW S, IsFiniteSet(S), NEW H, base \in H,
           \A x \in S : \A y \in H : op[x][y] \in H
    PROVE  \E g : /\ IsFold(g, op, base, S)
                  /\ \A s \in SUBSET S : g[s] \in H
  <1>1. PICK g : IsFold(g, op, base, S)
    BY FoldExists
  <1> DEFINE P == {s \in SUBSET S : g[s] \in H}
  <1>2. ASSUME NEW s \in SUBSET S, \A t \in SUBSET s : t # s => t \in P
        PROVE  s \in P
    <2>1. g[s] = IF s = {} THEN base ELSE op[First(s)][g[s \ {First(s)}]]
      BY <1>1 DEF IsFold
    <2>2. CASE s = {}
      BY <2>1, <2>2
    <2>3. CASE s # {}
      <3>1. First(s) \in S /\ s \ {First(s)} \in P
        BY <1>2, <2>3, FirstIn
      <3>2. g[s \ {First(s)}] \in H
        BY <3>1
      <3>3. g[s] \in H
        BY <2>1, <2>3, <3>1, <3>2
      <3> QED BY <3>3
    <2> QED BY <2>2, <2>3
  <1>3. SUBSET S \subseteq P
    <2> HIDE DEF P
    <2> QED BY <1>2, SubsetsByStep
  <1> QED BY <1>1, <1>3

\* The histograms of the model.
Histogram ==
    [ buckets : UNION {[D -> Nat] : D \in SUBSET Buckets},
      count : Nat, total : Nat, low : Nat, high : Nat ]

LEMMA HistogramType ==
    /\ EmptyHistogram \in Histogram
    /\ \A h \in Histogram : \A v \in Nat : Recorded(h, v) \in Histogram
    /\ \A g, h \in Histogram : Merged(g, h) \in Histogram
  <1>1. ASSUME NEW h \in Histogram
        PROVE  /\ DOMAIN h.buckets \subseteq Buckets
               /\ \A i \in Buckets : In(h, i) \in Nat
               /\ h.count \in Nat /\ h.total \in Nat /\ h.low \in Nat /\ h.high \in Nat
    <2>1. PICK D \in SUBSET Buckets : h.buckets \in [D -> Nat]
      BY DEF Histogram
    <2>2. h.count \in Nat /\ h.total \in Nat /\ h.low \in Nat /\ h.high \in Nat
      BY DEF Histogram
    <2> QED BY <2>1, <2>2 DEF In
  <1>2. ASSUME NEW b, NEW D \in SUBSET Buckets, b \in [D -> Nat],
               NEW c \in Nat, NEW t \in Nat, NEW l \in Nat, NEW m \in Nat
        PROVE  [buckets |-> b, count |-> c, total |-> t, low |-> l, high |-> m] \in Histogram
    <2>1. b \in UNION {[E -> Nat] : E \in SUBSET Buckets}
      BY <1>2
    <2> QED BY <2>1 DEF Histogram
  <1>3. EmptyHistogram \in Histogram
    <2>1. <<>> \in [{} -> Nat]
      OBVIOUS
    <2>2. {} \in SUBSET Buckets /\ 0 \in Nat
      OBVIOUS
    <2> QED BY <1>2, <2>1, <2>2 DEF EmptyHistogram
  <1>4. ASSUME NEW h \in Histogram, NEW v \in Nat
        PROVE  Recorded(h, v) \in Histogram
    <2>1. PICK b, D, f, c, t, l, m :
             /\ b = BucketIndex(v) /\ D = DOMAIN h.buckets \cup {b}
             /\ f = [i \in D |-> In(h, i) + (IF i = b THEN 1 ELSE 0)]
             /\ c = h.count + 1 /\ t = h.total + v
             /\ l = (IF h.count = 0 \/ v < h.low THEN v ELSE h.low)
             /\ m = (IF h.count = 0 \/ v > h.high THEN v ELSE h.high)
      OBVIOUS
    <2>2. D \in SUBSET Buckets
      BY <1>1, <2>1, BucketOf
    <2>3. f \in [D -> Nat]
      BY <1>1, <2>1, <2>2
    <2>4. c \in Nat /\ t \in Nat /\ l \in Nat /\ m \in Nat
      BY <1>1, <2>1
    <2>5. Recorded(h, v) = [buckets |-> f, count |-> c, total |-> t, low |-> l, high |-> m]
      BY <2>1 DEF Recorded
    <2> QED BY <1>2, <2>2, <2>3, <2>4, <2>5
  <1>5. ASSUME NEW g \in Histogram, NEW h \in Histogram
        PROVE  Merged(g, h) \in Histogram
    <2>1. PICK D, f, c, t, l, m :
             /\ D = DOMAIN g.buckets \cup DOMAIN h.buckets
             /\ f = [i \in D |-> In(g, i) + In(h, i)]
             /\ c = g.count + h.count /\ t = g.total + h.total
             /\ l = (IF h.count > 0 /\ (g.count = 0 \/ h.low < g.low) THEN h.low ELSE g.low)
             /\ m = (IF h.count > 0 /\ (g.count = 0 \/ h.high > g.high) THEN h.high ELSE g.high)
      OBVIOUS
    <2>2. D \in SUBSET Buckets
      BY <1>1, <2>1
    <2>3. f \in [D -> Nat]
      BY <1>1, <2>1, <2>2
    <2>4. c \in Nat /\ t \in Nat /\ l \in Nat /\ m \in Nat
      BY <1>1, <2>1
    <2>5. Merged(g, h) = [buckets |-> f, count |-> c, total |-> t, low |-> l, high |-> m]
      BY <2>1 DEF Merged
    <2> QED BY <1>2, <2>2, <2>3, <2>4, <2>5
  <1> QED BY <1>3, <1>4, <1>5

\* The histograms whose figures are those of their samples.
SoundHistogram == {h \in Histogram : HistogramOK(h)}

LEMMA SoundType ==
    /\ EmptyHistogram \in SoundHistogram
    /\ \A h \in SoundHistogram : \A v \in Nat : Recorded(h, v) \in SoundHistogram
    /\ \A g, h \in SoundHistogram : Merged(g, h) \in SoundHistogram
  BY NoSample, RecordedSound, MergedSound, HistogramType DEF SoundHistogram

\* The function by which the histograms f[x] are merged.
IsMerge(g, f, S) ==
    g = [s \in SUBSET S |-> IF s = {} THEN EmptyHistogram
                            ELSE Merged(g[s \ {First(s)}], f[First(s)])]

MergeOf(f, S) == CHOOSE g : IsMerge(g, f, S)

\* The function by which the samples f[x] are recorded.
IsRecord(g, f, S) ==
    g = [s \in SUBSET S |-> IF s = {} THEN EmptyHistogram
                            ELSE Recorded(g[s \ {First(s)}], f[First(s)])]

RecordOf(f, S) == CHOOSE g : IsRecord(g, f, S)

LEMMA MergeIsChosen ==
    ASSUME NEW f, f = [n \in Nodes |-> obs[n].processing]
    PROVE  AllProcessing = MergeOf(f, Nodes)[Nodes]
  BY DEF AllProcessing, FoldFunctionOnSet, MapThenFoldSet, MergeOf, IsMerge, First

LEMMA RecordIsChosen ==
    ASSUME NEW s, NEW S, \A r : r \in S <=> r \in Requests /\ req[r].status = s
    PROVE  \E f : /\ \A r \in Requests : f[r] = ended[r] - Arrivals[r]
                  /\ EndToEnd(s) = RecordOf(f, S)[S]
  <1>1. S = {r \in Requests : req[r].status = s}
    OBVIOUS
  <1>2. PICK f : f = [r \in Requests |-> ended[r] - Arrivals[r]]
    OBVIOUS
  <1>3. EndToEnd(s) = RecordOf(f, S)[S]
    BY <1>1, <1>2 DEF EndToEnd, FoldFunctionOnSet, MapThenFoldSet, RecordOf, IsRecord, First
  <1> QED BY <1>2, <1>3

\* The histograms can be merged by a function, and it gives histograms.
LEMMA MergeExists ==
    ASSUME NEW f, NEW S, IsFiniteSet(S), \A x \in S : f[x] \in SoundHistogram
    PROVE  IsMerge(MergeOf(f, S), f, S)
  <1>1. PICK H, op : H = SoundHistogram /\ op = [x \in S |-> [h \in H |-> Merged(h, f[x])]]
    OBVIOUS
  <1>2. \A x \in S : \A h \in H : op[x][h] \in H /\ op[x][h] = Merged(h, f[x])
    BY <1>1, SoundType
  <1>3. EmptyHistogram \in H
    BY <1>1, SoundType
  <1>4. PICK g : IsFold(g, op, EmptyHistogram, S) /\ \A s \in SUBSET S : g[s] \in H
    <2>1. \A x \in S : \A h \in H : op[x][h] \in H
      BY <1>2
    <2> QED BY <1>3, <2>1, FoldStays
  <1>5. IsMerge(g, f, S)
    <2>1. \A s \in SUBSET S : s # {} =>
             op[First(s)][g[s \ {First(s)}]] = Merged(g[s \ {First(s)}], f[First(s)])
      <3> SUFFICES ASSUME NEW s \in SUBSET S, s # {}
                   PROVE  op[First(s)][g[s \ {First(s)}]] = Merged(g[s \ {First(s)}], f[First(s)])
        OBVIOUS
      <3>1. First(s) \in S /\ s \ {First(s)} \in SUBSET S
        BY FirstIn
      <3>2. g[s \ {First(s)}] \in H
        BY <1>4, <3>1
      <3> QED BY <1>2, <3>1, <3>2
    <2> QED BY <1>4, <2>1 DEF IsFold, IsMerge
  <1> QED BY <1>5 DEF MergeOf

\* The latencies of all the components in one histogram.
LEMMA MergedAll ==
    ASSUME NEW f, NEW S, IsFiniteSet(S), \A x \in S : f[x] \in SoundHistogram,
           NEW c, NEW t, \A x \in S : c[x] = f[x].count /\ t[x] = f[x].total,
           NEW m, m = MergeOf(f, S)[S]
    PROVE  m \in SoundHistogram /\ m.count = Sum(c, S) /\ m.total = Sum(t, S)
  <1>1. PICK H : H = SoundHistogram
    OBVIOUS
  <1>3. EmptyHistogram \in H
    BY <1>1, SoundType
  <1>6. PICK k : k = MergeOf(f, S)
    OBVIOUS
  <1>7. IsMerge(k, f, S) /\ m = k[S]
    BY <1>6, MergeExists
  <1>9. \A x \in S : c[x] \in Int /\ t[x] \in Int
    BY DEF SoundHistogram, HistogramOK
  <1> DEFINE P == {s \in SUBSET S : /\ k[s] \in H
                                    /\ k[s].count = Sum(c, s) /\ k[s].total = Sum(t, s)}
  <1>10. ASSUME NEW s \in SUBSET S, \A u \in SUBSET s : u # s => u \in P
         PROVE  s \in P
    <2>1. k[s] = IF s = {} THEN EmptyHistogram ELSE Merged(k[s \ {First(s)}], f[First(s)])
      BY <1>7 DEF IsMerge
    <2>2. IsFiniteSet(s)
      BY FS_Subset
    <2>3. CASE s = {}
      <3>1. Sum(c, s) = 0 /\ Sum(t, s) = 0
        BY <2>2, <2>3, SumUnfolds
      <3>2. k[s] \in H /\ k[s].count = 0 /\ k[s].total = 0
        BY <1>3, <2>1, <2>3 DEF EmptyHistogram
      <3> QED BY <3>1, <3>2
    <2>4. CASE s # {}
      <3>1. PICK x, u : x = First(s) /\ u = s \ {x}
        OBVIOUS
      <3>2. x \in S /\ u \in SUBSET s /\ u # s
        BY <2>4, <3>1, FirstIn
      <3>3. k[u] \in H /\ k[u].count = Sum(c, u) /\ k[u].total = Sum(t, u)
        BY <1>10, <3>2
      <3>4. Sum(c, s) = c[x] + Sum(c, u) /\ Sum(t, s) = t[x] + Sum(t, u)
        BY <2>2, <2>4, <3>1, SumUnfolds
      <3>5. k[s] = Merged(k[u], f[x])
        BY <2>1, <2>4, <3>1
      <3>6. f[x] \in SoundHistogram /\ k[u] \in SoundHistogram
        BY <1>1, <3>2, <3>3
      <3>7. k[s] \in H
        BY <1>1, <3>5, <3>6, SoundType
      <3>8. k[s].count = k[u].count + f[x].count /\ k[s].total = k[u].total + f[x].total
        BY <3>5, <3>6, MergedSound DEF SoundHistogram
      <3>9. c[x] = f[x].count /\ t[x] = f[x].total
        BY <3>2
      <3>10. k[u].count \in Int /\ k[u].total \in Int /\ c[x] \in Int /\ t[x] \in Int
        BY <1>9, <3>2, <3>6 DEF SoundHistogram, HistogramOK
      <3>11. k[s].count = Sum(c, s) /\ k[s].total = Sum(t, s)
        BY <3>3, <3>4, <3>8, <3>9, <3>10
      <3> QED BY <3>7, <3>11
    <2> QED BY <2>3, <2>4
  <1>11. SUBSET S \subseteq P
    <2> HIDE DEF P
    <2> QED BY <1>10, SubsetsByStep
  <1>12. S \in P
    <2> HIDE DEF P
    <2> QED BY <1>11
  <1> QED BY <1>1, <1>7, <1>12

\* The times of a set of requests in one histogram.
LEMMA RecordedAll ==
    ASSUME NEW f, NEW S, IsFiniteSet(S), \A x \in S : f[x] \in Nat,
           NEW m, m = RecordOf(f, S)[S]
    PROVE  m \in SoundHistogram /\ m.count = Cardinality(S)
  <1>1. PICK H, op : H = SoundHistogram /\ op = [x \in S |-> [h \in H |-> Recorded(h, f[x])]]
    OBVIOUS
  <1>2. \A x \in S : \A h \in H : op[x][h] \in H /\ op[x][h] = Recorded(h, f[x])
    BY <1>1, SoundType
  <1>3. EmptyHistogram \in H
    BY <1>1, SoundType
  <1>4. PICK g : IsFold(g, op, EmptyHistogram, S) /\ \A s \in SUBSET S : g[s] \in H
    <2>1. \A x \in S : \A h \in H : op[x][h] \in H
      BY <1>2
    <2> QED BY <1>3, <2>1, FoldStays
  <1>5. IsRecord(g, f, S)
    <2>1. \A s \in SUBSET S : s # {} =>
             op[First(s)][g[s \ {First(s)}]] = Recorded(g[s \ {First(s)}], f[First(s)])
      <3> SUFFICES ASSUME NEW s \in SUBSET S, s # {}
                   PROVE  op[First(s)][g[s \ {First(s)}]] = Recorded(g[s \ {First(s)}], f[First(s)])
        OBVIOUS
      <3>1. First(s) \in S /\ s \ {First(s)} \in SUBSET S
        BY FirstIn
      <3>2. g[s \ {First(s)}] \in H
        BY <1>4, <3>1
      <3> QED BY <1>2, <3>1, <3>2
    <2> QED BY <1>4, <2>1 DEF IsFold, IsRecord
  <1>6. PICK k : k = RecordOf(f, S)
    OBVIOUS
  <1>7. IsRecord(k, f, S) /\ m = k[S]
    BY <1>5, <1>6 DEF RecordOf
  <1> DEFINE P == {s \in SUBSET S : k[s] \in H /\ k[s].count = Cardinality(s)}
  <1>8. ASSUME NEW s \in SUBSET S, \A u \in SUBSET s : u # s => u \in P
        PROVE  s \in P
    <2>1. k[s] = IF s = {} THEN EmptyHistogram ELSE Recorded(k[s \ {First(s)}], f[First(s)])
      BY <1>7 DEF IsRecord
    <2>2. IsFiniteSet(s)
      BY FS_Subset
    <2>3. CASE s = {}
      <3>1. Cardinality(s) = 0
        BY <2>3, FS_EmptySet
      <3>2. k[s] \in H /\ k[s].count = 0
        BY <1>3, <2>1, <2>3 DEF EmptyHistogram
      <3> QED BY <3>1, <3>2
    <2>4. CASE s # {}
      <3>1. PICK x, u : x = First(s) /\ u = s \ {x}
        OBVIOUS
      <3>2. x \in s /\ x \in S /\ u \in SUBSET s /\ u # s
        BY <2>4, <3>1, FirstIn
      <3>3. k[u] \in H /\ k[u].count = Cardinality(u)
        BY <1>8, <3>2
      <3>4. Cardinality(u) = Cardinality(s) - 1 /\ Cardinality(s) \in Nat
        BY <2>2, <3>1, <3>2, FS_RemoveElement, FS_CardinalityType
      <3>5. k[s] = Recorded(k[u], f[x])
        BY <2>1, <2>4, <3>1
      <3>6. f[x] \in Nat /\ k[u] \in SoundHistogram
        BY <1>1, <3>2, <3>3
      <3>7. k[s] \in H
        BY <1>1, <3>5, <3>6, SoundType
      <3>8. k[s].count = k[u].count + 1
        BY <3>5, <3>6, RecordedSound DEF SoundHistogram
      <3>9. k[s].count = Cardinality(s)
        BY <3>3, <3>4, <3>8
      <3> QED BY <3>7, <3>9
    <2> QED BY <2>3, <2>4
  <1>9. SUBSET S \subseteq P
    <2> HIDE DEF P
    <2> QED BY <1>8, SubsetsByStep
  <1>10. S \in P
    <2> HIDE DEF P
    <2> QED BY <1>9
  <1> QED BY <1>1, <1>7, <1>10

-----------------------------------------------------------------------------
(* The times of requests.                                                     *)

\* What is measured of a request is measured from a time before: it goes on, and
\* is over, no earlier than it arrived, and it waits since it did.
TimesOK ==
    /\ DOMAIN ended = Requests
    /\ \A f \in events : f.type \in RequestEvent => f.at >= Arrivals[f.req]
    /\ \A r \in Requests :
          /\ Over(r) => ended[r] \in Nat /\ ended[r] >= Arrivals[r]
          /\ InQueue(r) => Arrivals[r] <= now
          /\ InQueue(r) /\ collect => stamp[r] \in Nat /\ stamp[r] <= now

\* The times of arrival are numbers.
LEMMA ArrivalTimes ==
    ASSUME RuntimeAssumption
    PROVE  \A r \in Requests : Arrivals[r] \in Nat
  <1>1. Arrivals \in Seq(Nat) /\ Requests = 1 .. Len(Arrivals)
    BY DEF RuntimeAssumption
  <1> QED BY <1>1

\* Only the requests in a queue, and the one of the event, move.
LEMMA WhoMoves ==
    ASSUME BasicInv, BasicInv', PlacesOK, NEW e \in events, PlacePart(e)
    PROVE  /\ \A f \in events' : f.type \in RequestEvent
                 => \/ f \in events \/ InQueue(f.req)
                    \/ e.type \in RequestEvent /\ f.req = e.req
           /\ \A r : InQueue(r)' => \/ InQueue(r)
                                    \/ e.type \in RequestEvent /\ r = e.req
  <1>1. /\ events' \subseteq Event /\ e.node \in Nodes /\ DOMAIN queue = Nodes
        /\ \A n \in Nodes : queue[n] \in Seq(Requests)
        /\ "request.processing_started" \in RequestEvent
    BY DEF BasicInv, TypeOK, Event, RequestEvent
  <1>2. ASSUME queue' = queue
        PROVE  \A r : InQueue(r)' => InQueue(r)
    BY <1>2 DEF InQueue
  <1>3. CASE \E n \in Nodes : MovesTo(e, n, RequestEvent)
    BY <1>1, <1>2, <1>3 DEF MovesTo
  <1>4. CASE Joins(e) \/ DisplacesOldest(e)
    <2>1. PICK n, q, u : n = e.node /\ q = queue[n] /\ u = queue'[n]
      OBVIOUS
    <2>2. n \in Nodes /\ q \in Seq(Requests) /\ e.type \in RequestEvent
      BY <1>1, <1>4, <2>1 DEF Joins, DisplacesOldest
    <2>3. \A r : r \in Range(u) => r \in Range(q) \/ r = e.req
      <3>1. e.req \in Requests
        BY <2>2 DEF BasicInv, Sound
      <3>2. CASE Joins(e)
        <4>1. u = Append(q, e.req)
          BY <1>1, <2>1, <2>2, <3>2 DEF Joins
        <4> QED BY <2>2, <3>1, <4>1 DEF Range
      <3>3. CASE DisplacesOldest(e)
        <4>1. u = Append(Tail(q), e.req) /\ q # <<>>
          BY <1>1, <2>1, <2>2, <3>3 DEF DisplacesOldest
        <4>2. PICK v : v = Tail(q)
          OBVIOUS
        <4>3. v \in Seq(Requests) /\ \A i \in DOMAIN v : v[i] = q[i + 1] /\ i + 1 \in DOMAIN q
          BY <2>2, <4>1, <4>2
        <4>4. \A i \in DOMAIN u : u[i] = e.req \/ (i \in DOMAIN v /\ u[i] = v[i])
          BY <3>1, <4>1, <4>2, <4>3
        <4> QED BY <4>3, <4>4 DEF Range
      <3> QED BY <1>4, <3>2, <3>3
    <2>4. \A m \in Nodes : m # n => queue'[m] = queue[m]
      BY <1>1, <1>4, <2>1 DEF Joins, DisplacesOldest
    <2>5. \A r : InQueue(r)' => InQueue(r) \/ r = e.req
      BY <2>1, <2>3, <2>4 DEF InQueue
    <2>6. q # <<>> => Head(q) \in Range(q)
      BY <2>2 DEF Range
    <2>7. \A f \in events' : f.type \in RequestEvent
             => f \in events \/ (q # <<>> /\ f.req = Head(q))
      BY <1>1, <1>4, <2>1 DEF Joins, DisplacesOldest
    <2> QED BY <2>1, <2>2, <2>5, <2>6, <2>7 DEF InQueue
  <1>5. CASE Ends(e) \/ Aside(e)
    BY <1>1, <1>2, <1>5 DEF Ends, Aside
  <1>6. CASE Drains(e)
    <2>1. PICK n, q, u : n = e.node /\ q = queue[n] /\ u = queue'[n]
      OBVIOUS
    <2>2. n \in Nodes /\ q \in Seq(Requests) /\ Len(q) \in Nat
      BY <1>1, <2>1
    <2>3. PICK k \in 0 .. Len(q) :
             /\ queue' = [queue EXCEPT ![n] = SubSeq(@, k + 1, Len(@))]
             /\ \A i \in 1 .. k : Woken(e, i).req = q[i]
             /\ \A g \in Event : g.type \in RequestEvent
                   => (g \in events' <=> g \in events \/ \E i \in 1 .. k : g = Woken(e, i))
      BY <1>6, <2>1 DEF Drains
    <2>4. u = SubSeq(q, k + 1, Len(q)) /\ \A m \in Nodes : m # n => queue'[m] = queue[m]
      BY <1>1, <2>1, <2>2, <2>3
    <2>5. \A r : r \in Range(u) => r \in Range(q)
      <3>1. IsCut(q, k, u)
        BY <2>1, <2>2, <2>4, OneQueue, Cut
      <3> QED BY <3>1 DEF IsCut
    <2>6. \A i \in 1 .. k : q[i] \in Range(q)
      BY <2>2 DEF Range
    <2>7. \A r : InQueue(r)' => InQueue(r)
      BY <2>1, <2>4, <2>5 DEF InQueue
    <2>8. \A f \in events' : f.type \in RequestEvent => f \in events \/ f.req \in Range(q)
      BY <1>1, <2>3, <2>6
    <2> QED BY <2>1, <2>2, <2>7, <2>8 DEF InQueue
  <1> QED BY <1>3, <1>4, <1>5, <1>6 DEF PlacePart

\* A request is over by nothing but an event that ends it.
LEMMA OverBy ==
    ASSUME BasicInv, NEW e \in events, Handle(e), ~Throw(e), NEW r \in Requests,
           ~Over(r), Over(r)'
    PROVE  e.type \in {"request.completed", "request.failed"} /\ r = e.req
  <1>1. req \in ReqType
    BY DEF BasicInv, TypeOK, ReqType
  <1>2. req' # req
    BY DEF Over
  <1>3. ~\E s : s \notin {"completed", "failed"} /\ Becomes(e.req, s)
    BY <1>1 DEF Becomes, ReqType, Over
  <1>4. ~\E q \in Requests : \E k : req' = [req EXCEPT ![q].attempts = k]
    BY <1>1 DEF ReqType, Over
  <1>5. CASE Transmission(e)
    <2>1. e.req \in Requests
      BY <1>5 DEF Transmission, BasicInv, Sound, RequestEvent
    <2> QED BY <1>2, <1>4, <1>5, <2>1 DEF Transmission, model
  <1>6. CASE CacheMiss(e)
    <2>1. req' = [req EXCEPT ![e.req].miss = TRUE]
      BY <1>6 DEF CacheMiss
    <2> QED BY <1>1, <2>1 DEF Over, ReqType
  <1>7. CASE Created(e) \/ Reroute(e) \/ DatabaseResponse(e)
    BY <1>2, <1>7 DEF Created, Reroute, DatabaseResponse, JustRoutes, Rest
  <1>8. CASE Routed(e)
    BY <1>2, <1>3, <1>8 DEF Routed, Refused, model
  <1>9. CASE CacheHit(e) \/ CacheSet(e) \/ DatabaseRequest(e) \/ QueueDrain(e) \/ Retry(e)
    BY <1>2, <1>9 DEF CacheHit, CacheSet, DatabaseRequest, QueueDrain, Retry, model
  <1>10. CASE ProcessingCompleted(e)
    BY <1>2, <1>10 DEF ProcessingCompleted
  <1>11. CASE ProcessingStarted(e)
    <2>1. ~Attempt(e)
      <3> SUFFICES ASSUME Attempt(e) PROVE FALSE
        OBVIOUS
      <3>1. PICK k : req' = [req EXCEPT ![e.req].status = "in-flight", ![e.req].attempts = k]
        BY DEF Attempt
      <3> QED BY <1>1, <3>1 DEF ReqType, Over
    <2> QED BY <1>2, <1>3, <1>11, <2>1
            DEF ProcessingStarted, Refused, TurnedAway, Displaces, Waits, model
  <1>12. CASE Completed(e) \/ RequestFailed(e)
    <2>1. Becomes(e.req, "completed") \/ Becomes(e.req, "failed")
      BY <1>12 DEF Completed, RequestFailed
    <2>2. r = e.req
      BY <1>1, <2>1 DEF Becomes, ReqType, Over
    <2> QED BY <1>12, <2>2 DEF Completed, RequestFailed
  <1>14. CASE ComponentFailed(e) \/ Recovery(e) \/ Recovered(e) \/ HalfOpen(e)
              \/ Evaluate(e) \/ Scaled(e)
    BY <1>2, <1>14 DEF ComponentFailed, Recovery, Recovered, HalfOpen, Evaluate, Scaled, model
  <1> QED BY <1>5, <1>6, <1>7, <1>8, <1>9, <1>10, <1>11, <1>12, <1>14 DEF Handle

\* What a record changes of the times: who waits has waited since now, and who is
\* over has been since now.
LEMMA TimesRecorded ==
    ASSUME NEW e, Records(e)
    PROVE  /\ \A r \in Requests : \/ stamp'[r] = stamp[r] \/ stamp'[r] = NotQueued
                                  \/ stamp'[r] = e.at
           /\ ended' = IF e.type \in {"request.completed", "request.failed"}
                       THEN [ended EXCEPT ![e.req] = e.at] ELSE ended
  <1>1. CASE Succeeded(e) \/ Lost(e)
    BY <1>1 DEF Succeeded, Lost
  <1>2. CASE Begun(e)
    <2>1. \A r \in Requests : \/ stamp'[r] = stamp[r] \/ stamp'[r] = NotQueued
                             \/ stamp'[r] = e.at
      BY <1>2 DEF Begun, QueuedOrNot, Tried
    <2> QED BY <1>2, <2>1 DEF Begun, QueuedOrNot, Tried
  <1>3. CASE Dequeued(e)
    BY <1>3 DEF Dequeued
  <1>4. CASE Transmitted(e) \/ Arrived(e) \/ Filled(e) \/ Operated(e) \/ Finished(e)
             \/ Retried(e) \/ FailedOrRecovered(e) \/ Assessed(e) \/ Resized(e) \/ Ignored(e)
    BY <1>4 DEF Transmitted, Arrived, Filled, Operated, Finished, Retried, FailedOrRecovered,
       Assessed, Resized, Ignored, Unrecorded
  <1> QED BY <1>1, <1>2, <1>3, <1>4 DEF Records

\* Every step keeps the times in order.
LEMMA TimesKept ==
    ASSUME RuntimeAssumption, BasicInv, BasicInv', PlacesOK, CountsOK, CountsOK', TimesOK,
           NEW e \in events, Recording(e), now <= e.at
    PROVE  TimesOK'
  <1>1. /\ Handle(e) /\ ~Throw(e) /\ Records(e) /\ PlacePart(e) /\ collect' = collect
        /\ now' = e.at /\ \A f \in events' : f \in events \/ f.at >= e.at
    BY DEF Recording, Returns
  <1>2. PICK t : t = e.at
    OBVIOUS
  <1>3. /\ t \in Nat /\ now \in Nat /\ now <= t /\ now' = t
        /\ \A f \in events' : f.at \in Nat
        /\ \A r \in Requests : Arrivals[r] \in Nat
        /\ \A f \in events' : f.type \in RequestEvent => f.req \in Requests
        /\ e.type \in RequestEvent => e.req \in Requests
    BY <1>1, <1>2, ArrivalTimes DEF BasicInv, TypeOK, Event, Sound
  <1>4. e.type \in RequestEvent => Arrivals[e.req] <= t
    BY <1>2, <1>3 DEF TimesOK
  <1>5. \A r \in Requests : InQueue(r) => Arrivals[r] <= t
    BY <1>3 DEF TimesOK
  <1>6. \A f \in events' : f.type \in RequestEvent => f.at >= Arrivals[f.req]
    <2> SUFFICES ASSUME NEW f \in events', f.type \in RequestEvent, f \notin events
                 PROVE  f.at >= Arrivals[f.req]
      BY DEF TimesOK
    <2>1. f.at >= t /\ f.req \in Requests /\ f.at \in Nat
      BY <1>1, <1>2, <1>3
    <2>2. Arrivals[f.req] <= t
      BY <1>1, <1>4, <1>5, <2>1, WhoMoves
    <2> QED BY <1>3, <2>1, <2>2
  <1>7. ASSUME NEW r \in Requests, Over(r)'
        PROVE  ended'[r] \in Nat /\ ended'[r] >= Arrivals[r]
    <2>1. CASE e.type \in {"request.completed", "request.failed"} /\ r = e.req
      <3>1. ended'[r] = t /\ e.type \in RequestEvent
        BY <1>1, <1>2, <2>1, TimesRecorded DEF TimesOK, RequestEvent
      <3> QED BY <1>3, <1>4, <2>1, <3>1
    <2>2. CASE ~(e.type \in {"request.completed", "request.failed"} /\ r = e.req)
      <3>1. Over(r)
        BY <1>1, <1>7, <2>2, OverBy
      <3>2. ended'[r] = ended[r]
        <4>1. ended' = IF e.type \in {"request.completed", "request.failed"}
                       THEN [ended EXCEPT ![e.req] = t] ELSE ended
          BY <1>1, <1>2, TimesRecorded
        <4>2. CASE r # e.req
          BY <4>1, <4>2 DEF TimesOK
        <4>3. CASE e.type \notin {"request.completed", "request.failed"}
          BY <4>1, <4>3
        <4> QED BY <2>2, <4>2, <4>3
      <3> QED BY <3>1, <3>2 DEF TimesOK
    <2> QED BY <2>1, <2>2
  <1>8. ASSUME NEW r \in Requests, InQueue(r)'
        PROVE  Arrivals[r] <= t
    BY <1>1, <1>4, <1>5, <1>8, WhoMoves
  <1>9. ASSUME NEW r \in Requests, InQueue(r)', collect
        PROVE  stamp'[r] \in Nat /\ stamp'[r] <= t
    <2>1. stamp'[r] # NotQueued
      BY <1>1, <1>9 DEF CountsOK
    <2>2. CASE stamp'[r] = stamp[r]
      <3>1. InQueue(r)
        BY <1>9, <2>1, <2>2 DEF CountsOK
      <3> QED BY <1>3, <1>9, <2>2, <3>1 DEF TimesOK
    <2>3. CASE stamp'[r] = t
      BY <1>3, <2>3
    <2> QED BY <1>1, <1>2, <2>1, <2>2, <2>3, TimesRecorded
  <1>10. DOMAIN ended' = Requests
    BY <1>1, TimesRecorded DEF TimesOK
  <1> QED BY <1>1, <1>2, <1>6, <1>7, <1>8, <1>9, <1>10 DEF TimesOK

\* They are in order when a run has been prepared.
LEMMA TimesFirst ==
    ASSUME RuntimeAssumption, MetricsInit
    PROVE  TimesOK
  <1>1. Init /\ ended = [r \in Requests |-> 0]
    BY DEF MetricsInit
  <1>2. \A f \in events : f.type \in RequestEvent => f.at >= Arrivals[f.req]
    <2> SUFFICES ASSUME NEW f \in events, f.type \in RequestEvent
                 PROVE  f.at >= Arrivals[f.req]
      OBVIOUS
    <2>1. f.at = Arrivals[f.req] /\ f.req \in Requests
      BY <1>1, Beginning DEF Sound, RequestEvent
    <2> QED BY <2>1, ArrivalTimes
  <1>3. \A r \in Requests : ~Over(r) /\ ~InQueue(r)
    <2>1. \A r \in Requests : ~Over(r)
      BY <1>1 DEF Init, Over
    <2>2. queue = [n \in Nodes |-> <<>>]
      BY <1>1 DEF Init
    <2> QED BY <2>1, <2>2 DEF InQueue, Range
  <1> QED BY <1>1, <1>2, <1>3 DEF TimesOK

-----------------------------------------------------------------------------
(* The samples of a run.                                                      *)

\* The histograms are sound, and those of the processing are of the work done.
SamplesOK ==
    collect =>
      /\ \A n \in Nodes :
            /\ obs[n].processing \in SoundHistogram /\ obs[n].wait \in SoundHistogram
            /\ obs[n].processing.count = work[n].processed
            /\ obs[n].processing.total = work[n].latency
      /\ store.network \in SoundHistogram

\* A histogram is sound with the waits when nobody waited since a time to come.
LEMMA WaitedSound ==
    ASSUME NEW h \in SoundHistogram, NEW t, NEW s, NEW q, NEW k \in Nat,
           \A i \in 1 .. k : t - s[q[i]] \in Nat,
           NEW w, w = Waited(h, t, s, q, k)
    PROVE  w[k] \in SoundHistogram
  <1>1. IsWaited(w, h, t, s, q, k)
    BY WaitedExists
  <1> DEFINE C == {j \in Nat : j <= k => w[j] \in SoundHistogram}
  <1>2. 0 \in C
    <2>1. 0 \in 0 .. k /\ w[0] = h
      BY <1>1 DEF IsWaited
    <2> QED BY <2>1
  <1>3. ASSUME NEW j \in Nat, j \in C
        PROVE  j + 1 \in C
    <2> SUFFICES ASSUME j + 1 <= k PROVE w[j + 1] \in SoundHistogram
      OBVIOUS
    <2>1. j + 1 \in 0 .. k /\ j + 1 \in 1 .. k /\ j + 1 # 0 /\ (j + 1) - 1 = j
      OBVIOUS
    <2>2. PICK v : v = t - s[q[j + 1]]
      OBVIOUS
    <2>3. w[j + 1] = Recorded(w[j], v) /\ v \in Nat
      BY <1>1, <2>1, <2>2 DEF IsWaited
    <2>4. w[j] \in SoundHistogram
      BY <1>3
    <2> QED BY <2>3, <2>4, SoundType
  <1>4. Nat \subseteq C
    <2>1. \A j \in Nat : j \in C => j + 1 \in C
      BY <1>3
    <2> HIDE DEF C
    <2> QED BY <1>2, <2>1, NumbersByStep
  <1> QED BY <1>4

\* No event but a completion adds to the work done.
LEMMA WorkDoneBy ==
    ASSUME BasicInv, AttemptsOK, NEW e \in events, Records(e),
           e.type # "request.processing_completed"
    PROVE  \A n \in Nodes : /\ work'[n].processed = work[n].processed
                            /\ work'[n].latency = work[n].latency
  <1>1. PICK n, w : n = e.node /\ w = work[n]
    OBVIOUS
  <1>2. n \in Nodes /\ w \in WorkRecord /\ DOMAIN work = Nodes
    BY <1>1 DEF BasicInv, TypeOK, Event, AttemptsOK, WorkAddsUp
  <1>3. ASSUME NEW v, work' = [work EXCEPT ![n] = v],
               v.processed = w.processed, v.latency = w.latency
        PROVE  \A m \in Nodes : /\ work'[m].processed = work[m].processed
                                /\ work'[m].latency = work[m].latency
    BY <1>1, <1>2, <1>3
  <1>4. CASE Tried(e)
    <2>1. PICK u, v, a, b : /\ a = w.attempts + 1 /\ b = w.failed + 1
                            /\ u = [w EXCEPT !.attempts = a]
                            /\ v = [w EXCEPT !.attempts = a, !.failed = b]
      OBVIOUS
    <2>2. work' = [work EXCEPT ![n] = [[w EXCEPT !.attempts = @ + 1] EXCEPT !.failed = @ + 1]]
          \/ work' = [work EXCEPT ![n] = [w EXCEPT !.attempts = @ + 1]]
      BY <1>1, <1>4 DEF Tried
    <2>3. /\ [w EXCEPT !.attempts = @ + 1] = u
          /\ [[w EXCEPT !.attempts = @ + 1] EXCEPT !.failed = @ + 1] = v
      BY <1>2, <2>1 DEF WorkRecord
    <2>4. /\ u.processed = w.processed /\ u.latency = w.latency
          /\ v.processed = w.processed /\ v.latency = w.latency
      BY <1>2, <2>1 DEF WorkRecord
    <2> QED BY <1>3, <2>2, <2>3, <2>4
  <1>5. work' = work \/ Tried(e)
    BY DEF Records, Transmitted, Arrived, Filled, Operated, Begun, QueuedOrNot, Finished,
       Dequeued, Succeeded, Lost, Retried, FailedOrRecovered, Assessed, Resized, Ignored
  <1> QED BY <1>4, <1>5

\* The sample of a completion is of the work it does.
LEMMA CompletionSampled ==
    ASSUME RuntimeAssumption, BasicInv, HealthOK, AttemptsOK, SamplesOK, collect,
           NEW e \in events, Records(e), Finished(e)
    PROVE  \A n \in Nodes :
              /\ obs'[n].processing \in SoundHistogram
              /\ obs'[n].processing.count = work'[n].processed
              /\ obs'[n].processing.total = work'[n].latency
  <1>1. PICK n, w, o, d : n = e.node /\ w = work[n] /\ o = obs[n] /\ d = Conf[n].latency
    OBVIOUS
  <1>2. /\ n \in Nodes /\ w \in WorkRecord /\ DOMAIN work = Nodes
        /\ DOMAIN obs = Nodes /\ DOMAIN o = ObsFields
    BY <1>1 DEF BasicInv, TypeOK, Event, AttemptsOK, WorkAddsUp, HealthOK
  <1>3. d \in Nat
    BY <1>1, <1>2 DEF RuntimeAssumption, Config
  <1>4. PICK a, b, v : /\ a = w.processed + 1 /\ b = w.latency + d
                       /\ v = [w EXCEPT !.processed = a, !.latency = b]
    OBVIOUS
  <1>5. work'[n] = v /\ \A m \in Nodes : m # n => work'[m] = work[m]
    <2>1. work' = [work EXCEPT ![n] = [w EXCEPT !.processed = @ + 1, !.latency = @ + d]]
      BY <1>1 DEF Finished
    <2> QED BY <1>2, <1>4, <2>1
  <1>6. PICK h : h = Recorded(o.processing, d)
    OBVIOUS
  <1>7. /\ h \in SoundHistogram /\ h.count = o.processing.count + 1
        /\ h.total = o.processing.total + d
    <2>1. o.processing \in SoundHistogram
      BY <1>1, <1>2 DEF SamplesOK
    <2> QED BY <1>3, <1>6, <2>1, SoundType, RecordedSound DEF SoundHistogram
  <1>8. PICK p, level : /\ p = [o EXCEPT !.processing = h]
                        /\ obs' = [obs EXCEPT ![n] = Transition(p, health[n], level, e.at)]
    <2>1. PICK level : Observe(n, Transition([o EXCEPT !.processing = Recorded(@, d)],
                                             health[n], level, e.at))
      BY <1>1 DEF Finished
    <2>2. [o EXCEPT !.processing = Recorded(@, d)] = [o EXCEPT !.processing = h]
      BY <1>6
    <2> QED BY <2>1, <2>2 DEF Observe
  <1>9. obs'[n].processing = h /\ \A m \in Nodes : m # n => obs'[m] = obs[m]
    <2>1. p.processing = h /\ DOMAIN p = ObsFields
      BY <1>2, <1>8 DEF ObsFields
    <2>2. PICK x : x = Transition(p, health[n], level, e.at)
      OBVIOUS
    <2>3. OnlyIn(p, p, {})
      BY DEF OnlyIn
    <2>4. OnlyIn(x, p, {} \cup HealthFields)
      BY <2>1, <2>2, <2>3, TransitionTouches
    <2>5. "processing" \in ObsFields /\ "processing" \notin {} \cup HealthFields
      BY DEF ObsFields, HealthFields
    <2>6. x.processing = h
      BY <2>1, <2>4, <2>5 DEF OnlyIn
    <2> QED BY <1>2, <1>8, <2>2, <2>6
  <1>10. /\ v.processed = w.processed + 1 /\ v.latency = w.latency + d
         /\ o.processing.count = w.processed /\ o.processing.total = w.latency
    BY <1>1, <1>2, <1>4 DEF WorkRecord, SamplesOK
  <1>11. h.count = v.processed /\ h.total = v.latency
    BY <1>7, <1>10
  <1> QED BY <1>5, <1>7, <1>9, <1>11 DEF SamplesOK

\* The waits a drain records are of requests that have waited.
LEMMA DrainSampled ==
    ASSUME BasicInv, PlacesOK, HealthOK, SamplesOK, TimesOK, collect,
           NEW e \in events, Dequeued(e), Aside(e) \/ Drains(e), now <= e.at
    PROVE  \A n \in Nodes : obs'[n].wait \in SoundHistogram
  <1>1. PICK n, q, k : n = e.node /\ q = queue[n] /\ k = Len(queue[n]) - Len(queue'[n])
    OBVIOUS
  <1>2. /\ n \in Nodes /\ DOMAIN queue = Nodes /\ q \in Seq(Requests) /\ Len(q) \in Nat
        /\ now \in Nat /\ e.at \in Nat
    BY <1>1, OneQueue DEF BasicInv, TypeOK, Event
  <1>3. k \in 0 .. Len(q)
    <2>1. CASE Aside(e)
      BY <1>1, <1>2, <2>1 DEF Aside
    <2>2. CASE Drains(e)
      <3>1. PICK c \in 0 .. Len(q) : queue' = [queue EXCEPT ![n] = SubSeq(@, c + 1, Len(@))]
        BY <1>1, <2>2 DEF Drains
      <3>2. queue'[n] = SubSeq(q, c + 1, Len(q))
        BY <1>1, <1>2, <3>1
      <3>3. Len(queue'[n]) = Len(q) - c
        BY <1>2, <3>2
      <3>4. k = Len(q) - Len(queue'[n])
        BY <1>1
      <3>5. k = c
        BY <1>2, <3>3, <3>4
      <3> QED BY <3>5
    <2> QED BY <2>1, <2>2
  <1>4. \A i \in 1 .. k : e.at - stamp[q[i]] \in Nat
    <2> SUFFICES ASSUME NEW i \in 1 .. k PROVE e.at - stamp[q[i]] \in Nat
      OBVIOUS
    <2>1. i \in DOMAIN q /\ q[i] \in Requests
      BY <1>2, <1>3
    <2>2. InQueue(q[i])
      BY <1>1, <1>2, <2>1 DEF InQueue, Range
    <2>3. stamp[q[i]] \in Nat /\ stamp[q[i]] <= now
      BY <2>1, <2>2 DEF TimesOK
    <2> QED BY <1>2, <2>3
  <1>5. PICK h, t, s : h = obs[n].wait /\ t = e.at /\ s = stamp
    OBVIOUS
  <1>6. Waited(h, t, s, q, k)[k] \in SoundHistogram
    <2>1. h \in SoundHistogram
      BY <1>2, <1>5 DEF SamplesOK
    <2> QED BY <1>3, <1>4, <1>5, <2>1, WaitedSound
  <1>7. /\ obs'[n].wait = Waited(h, t, s, q, k)[k]
        /\ \A m \in Nodes : m # n => obs'[m] = obs[m]
    <2>1. DrainRecorded(e, n, k)
      BY <1>1, <1>2, DrainRecords
    <2> QED BY <1>1, <1>5, <2>1 DEF DrainRecorded
  <1> QED BY <1>6, <1>7 DEF SamplesOK

\* A delivered transmission is a sample of the network.
LEMMA TransmissionSampled ==
    ASSUME RuntimeAssumption, BasicInv, AttemptsOK, SamplesOK, collect,
           NEW e \in events, Transmitted(e)
    PROVE  store'.network \in SoundHistogram
  <1>1. PICK v : v = Edges[e.node][e.arg].latency + Edges[e.node][e.arg].transfer
    OBVIOUS
  <1>2. v \in Nat
    <2>1. PICK edges, i : edges = Edges[e.node] /\ i = e.arg
      OBVIOUS
    <2>2. edges \in Seq(Edge) /\ i \in DOMAIN edges
      BY <2>1 DEF RuntimeAssumption, BasicInv, TypeOK, Event, Sound, Transmitted
    <2>3. edges[i] \in Edge
      BY <2>2
    <2>4. PICK x : x = edges[i]
      OBVIOUS
    <2>5. x.latency \in Nat /\ x.transfer \in Nat
      BY <2>3, <2>4 DEF Edge
    <2>6. v = x.latency + x.transfer
      BY <1>1, <2>1, <2>4
    <2> QED BY <2>5, <2>6
  <1>3. \/ store' = [store EXCEPT !.transmissions = @ + 1, !.losses = @ + 1]
        \/ store' = [store EXCEPT !.transmissions = @ + 1, !.network = Recorded(@, v)]
    BY <1>1 DEF Transmitted, Keep
  <1>4. store'.network = store.network \/ store'.network = Recorded(store.network, v)
    BY <1>3 DEF AttemptsOK, StoreFields
  <1> QED BY <1>2, <1>4, SoundType DEF SamplesOK

\* Every step keeps the samples in order.
LEMMA SamplesKept ==
    ASSUME RuntimeAssumption, Base, PlacesOK, HealthOK, AttemptsOK, SamplesOK, TimesOK,
           NEW e \in events, Recording(e), now <= e.at
    PROVE  SamplesOK'
  <1> SUFFICES ASSUME collect PROVE SamplesOK'
    BY DEF Recording, SamplesOK
  <1>1. /\ Handle(e) /\ ~Throw(e) /\ Records(e) /\ PlacePart(e) /\ collect' = collect
        /\ BasicInv /\ WithinSlots
    BY DEF Recording, Base
  <1>2. \A n \in Nodes : \A x \in ObsFields : x \notin Touched(e) => obs'[n][x] = obs[n][x]
    BY <1>1, RecordTouches DEF OnlyIn
  <1>3. "processing" \in ObsFields /\ "wait" \in ObsFields
    BY DEF ObsFields
  <1>4. \A n \in Nodes : /\ obs'[n].processing \in SoundHistogram
                         /\ obs'[n].processing.count = work'[n].processed
                         /\ obs'[n].processing.total = work'[n].latency
    <2>1. CASE e.type = "request.processing_completed"
      <3>1. Finished(e)
        BY <1>1, <2>1, RecordByType
      <3> QED BY <1>1, <3>1, CompletionSampled
    <2>2. CASE e.type # "request.processing_completed"
      <3>1. "processing" \notin Touched(e)
        BY <2>2 DEF Touched, HealthFields
      <3>2. \A n \in Nodes : obs'[n].processing = obs[n].processing
        BY <1>2, <1>3, <3>1
      <3>3. \A n \in Nodes : /\ work'[n].processed = work[n].processed
                             /\ work'[n].latency = work[n].latency
        BY <1>1, <2>2, WorkDoneBy
      <3> QED BY <3>2, <3>3 DEF SamplesOK
    <2> QED BY <2>1, <2>2
  <1>5. \A n \in Nodes : obs'[n].wait \in SoundHistogram
    <2>1. CASE e.type = "queue.drain"
      <3>1. QueueDrain(e) /\ Dequeued(e)
        BY <1>1, <2>1, HandlerByType, RecordByType
      <3>2. Aside(e) \/ Drains(e)
        BY <1>1, <3>1, QueueDrainStep
      <3> QED BY <1>1, <3>1, <3>2, DrainSampled
    <2>2. CASE e.type # "queue.drain"
      <3>1. "wait" \notin Touched(e)
        BY <2>2 DEF Touched, HealthFields
      <3> QED BY <1>2, <1>3, <3>1 DEF SamplesOK
    <2> QED BY <2>1, <2>2
  <1>6. store'.network \in SoundHistogram
    <2>1. CASE e.type = "network.transmission_started"
      <3>1. Transmitted(e)
        BY <1>1, <2>1, RecordByType
      <3> QED BY <1>1, <3>1, TransmissionSampled
    <2>2. CASE e.type # "network.transmission_started"
      <3>1. store'.network = store.network
        BY <1>1, <2>2, StoreTouches DEF AttemptsOK
      <3> QED BY <3>1 DEF SamplesOK
    <2> QED BY <2>1, <2>2
  <1> QED BY <1>1, <1>4, <1>5, <1>6 DEF SamplesOK

\* There are none when a run has been prepared.
LEMMA SamplesFirst ==
    ASSUME MetricsInit
    PROVE  SamplesOK
  <1>1. /\ obs = [n \in Nodes |-> Unobserved(n)] /\ store = EmptyStore
        /\ work = [n \in Nodes |-> [attempts |-> 0, failed |-> 0, processed |-> 0, latency |-> 0]]
    BY DEF MetricsInit
  <1>2. EmptyHistogram \in SoundHistogram /\ EmptyHistogram.count = 0 /\ EmptyHistogram.total = 0
    BY SoundType DEF EmptyHistogram
  <1>3. \A n \in Nodes : obs[n].processing = EmptyHistogram /\ obs[n].wait = EmptyHistogram
    BY <1>1 DEF Unobserved
  <1>4. store.network = EmptyHistogram
    BY <1>1 DEF EmptyStore
  <1> QED BY <1>1, <1>2, <1>3, <1>4 DEF SamplesOK

-----------------------------------------------------------------------------

\* The processing latencies of all the components.
LEMMA ProcessingMerged ==
    ASSUME MetricsAssumption, SamplesOK, collect
    PROVE  /\ AllProcessing \in SoundHistogram
           /\ AllProcessing.count = Total([n \in Nodes |-> work[n].processed])
           /\ AllProcessing.total = Total([n \in Nodes |-> work[n].latency])
  <1>1. PICK f, h : f = [n \in Nodes |-> obs[n].processing] /\ h = AllProcessing
    OBVIOUS
  <1>2. IsFiniteSet(Nodes)
    BY DEF MetricsAssumption
  <1>3. \A n \in Nodes : f[n] \in SoundHistogram
    BY <1>1 DEF SamplesOK
  <1>4. h = MergeOf(f, Nodes)[Nodes]
    BY <1>1, MergeIsChosen
  <1>5. PICK c, t : /\ c = [n \in Nodes |-> work[n].processed]
                    /\ t = [n \in Nodes |-> work[n].latency]
    OBVIOUS
  <1>6. \A n \in Nodes : c[n] = f[n].count /\ t[n] = f[n].total
    BY <1>1, <1>5 DEF SamplesOK
  <1>7. h \in SoundHistogram /\ h.count = Sum(c, Nodes) /\ h.total = Sum(t, Nodes)
    BY <1>2, <1>3, <1>4, <1>6, MergedAll
  <1>8. Total(c) = Sum(c, Nodes) /\ Total(t) = Sum(t, Nodes)
    BY <1>5 DEF Total, Sum, SumFunction
  <1> QED BY <1>1, <1>5, <1>7, <1>8

\* The times of the requests that are over, of one kind.
LEMMA EndsRecorded ==
    ASSUME RuntimeAssumption, TimesOK, NEW s \in {"completed", "failed"}
    PROVE  EndToEnd(s) \in SoundHistogram /\ EndToEnd(s).count = Having(s)
  <1>1. PICK S : S = {r \in Requests : req[r].status = s}
    OBVIOUS
  <1>2. \A r : r \in S <=> r \in Requests /\ req[r].status = s
    BY <1>1
  <1>3. PICK f : /\ \A r \in Requests : f[r] = ended[r] - Arrivals[r]
                 /\ EndToEnd(s) = RecordOf(f, S)[S]
    BY <1>2, RecordIsChosen
  <1>4. IsFiniteSet(S)
    <2>1. S \subseteq Requests
      BY <1>2
    <2> QED BY <2>1, FiniteRequests, FS_Subset
  <1>5. \A r \in S : f[r] \in Nat
    <2> SUFFICES ASSUME NEW r \in S PROVE f[r] \in Nat
      OBVIOUS
    <2>1. r \in Requests /\ Over(r) /\ Arrivals[r] \in Nat
      BY <1>2, ArrivalTimes DEF Over
    <2>2. ended[r] \in Nat /\ ended[r] >= Arrivals[r]
      BY <2>1 DEF TimesOK
    <2> QED BY <1>3, <2>1, <2>2
  <1>6. EndToEnd(s) \in SoundHistogram /\ EndToEnd(s).count = Cardinality(S)
    BY <1>3, <1>4, <1>5, RecordedAll
  <1> QED BY <1>1, <1>6 DEF Having

\* What the report says of latencies.
LEMMA LatenciesReported ==
    ASSUME RuntimeAssumption, MetricsAssumption, AttemptsOK, SamplesOK, TimesOK
    PROVE  LatenciesAddUp
  <1> SUFFICES ASSUME collect, NEW m, m = BuildEnabled
      PROVE LET l == m.latency
                all == {l.endToEnd, l.failed, l.processing, m.network.summary}
                       \cup {m.components[n].queue.wait : n \in Nodes}
            IN  /\ l.processing.count = Total([n \in Nodes |-> work[n].processed])
                /\ l.processing.total = Total([n \in Nodes |-> work[n].latency])
                /\ l.endToEnd.count = m.requests.completed
                /\ l.failed.count = m.requests.failed
                /\ \A s \in all : Plausible(s)
    BY DEF LatenciesAddUp, Reports, Report
  <1>1. PICK l : l = m.latency
    OBVIOUS
  <1>2. /\ l.endToEnd = Summary(EndToEnd("completed")) /\ l.failed = Summary(EndToEnd("failed"))
        /\ l.processing = Summary(AllProcessing) /\ m.network.summary = Summary(store.network)
        /\ m.requests.completed = Having("completed") /\ m.requests.failed = Having("failed")
    BY <1>1 DEF BuildEnabled
  <1>3. \A n \in Nodes : m.components[n].queue.wait = Summary(obs[n].wait)
    <2> SUFFICES ASSUME NEW n \in Nodes
                 PROVE  m.components[n].queue.wait = Summary(obs[n].wait)
      OBVIOUS
    <2>1. m.components[n] = ComponentReport(n)
      BY DEF BuildEnabled
    <2>2. m.components[n].queue = QueueReport(n)
      BY <2>1 DEF ComponentReport
    <2> QED BY <2>2 DEF QueueReport
  <1>4. \A h : Summary(h).count = h.count /\ Summary(h).total = h.total
    BY DEF Summary
  <1>5. \A h \in SoundHistogram : Plausible(Summary(h))
    BY SummaryPlausible DEF SoundHistogram
  <1>6. /\ AllProcessing \in SoundHistogram
        /\ AllProcessing.count = Total([n \in Nodes |-> work[n].processed])
        /\ AllProcessing.total = Total([n \in Nodes |-> work[n].latency])
    BY ProcessingMerged
  <1>7. \A s \in {"completed", "failed"} :
           EndToEnd(s) \in SoundHistogram /\ EndToEnd(s).count = Having(s)
    BY EndsRecorded
  <1>8. store.network \in SoundHistogram /\ \A n \in Nodes : obs[n].wait \in SoundHistogram
    BY DEF SamplesOK
  <1>9. /\ l.processing.count = Total([n \in Nodes |-> work[n].processed])
        /\ l.processing.total = Total([n \in Nodes |-> work[n].latency])
    BY <1>2, <1>4, <1>6
  <1>10. l.endToEnd.count = m.requests.completed /\ l.failed.count = m.requests.failed
    BY <1>2, <1>4, <1>7
  <1>11. \A s \in {l.endToEnd, l.failed, l.processing, m.network.summary}
                  \cup {m.components[n].queue.wait : n \in Nodes} : Plausible(s)
    <2>1. /\ Plausible(l.endToEnd) /\ Plausible(l.failed) /\ Plausible(l.processing)
          /\ Plausible(m.network.summary)
      BY <1>2, <1>5, <1>6, <1>7, <1>8
    <2>2. \A n \in Nodes : Plausible(m.components[n].queue.wait)
      BY <1>3, <1>5, <1>8
    <2> QED BY <2>1, <2>2
  <1> QED BY <1>1, <1>9, <1>10, <1>11

\* The samples and the times of a run that has not failed.
LatenciesInv == status # "failed" => SamplesOK /\ TimesOK

\* The latencies merged from all components are those of the requests they
\* processed, the end-to-end latencies those of the requests that are over, no
\* request is over or taken from a queue before it came, and the percentiles, the
\* least and the greatest of every summary are in order: however many samples
\* there are, whatever their sizes, and in whichever order they are merged.
THEOREM LatenciesAlwaysAddUp == MetricsSpec => []LatenciesAddUp
  <1> DEFINE Inv == RunInv /\ NothingLate /\ HealthInv /\ AttemptsInv /\ CountsInv /\ LatenciesInv
  <1>1. MetricsInit => Inv
    <2> SUFFICES ASSUME MetricsInit PROVE Inv
      OBVIOUS
    <2>1. RunInv /\ NothingLate
      BY RunInvFirst, BaseHoldsFirst, RuntimeAssumption DEF MetricsInit
    <2>2. HealthInv /\ AttemptsInv /\ CountsInv /\ LatenciesInv
      BY HealthFirst, AttemptsFirst, CountsFirst, SamplesFirst, TimesFirst, RuntimeAssumption,
         MetricsAssumption DEF HealthInv, AttemptsInv, CountsInv, LatenciesInv
    <2> QED BY <2>1, <2>2
  <1>2. Inv /\ [MetricsNext]_<<vars, telemetry>> => Inv'
    <2> SUFFICES ASSUME Inv, [MetricsNext]_<<vars, telemetry>> PROVE Inv'
      OBVIOUS
    <2>1. /\ [Next]_vars
          /\ \/ UNCHANGED <<vars, telemetry>>
             \/ status' = "failed" /\ UNCHANGED <<model, telemetry>>
             \/ /\ status = "running" /\ status' # "failed"
                /\ \E e \in events : Recording(e)
      BY RecordingStep, RuntimeAssumption DEF RunInv
    <2>2. RunInv' /\ NothingLate'
      BY <2>1, RunInvKept, NothingLateKept, RuntimeAssumption DEF RunInv
    <2>3. CASE UNCHANGED <<vars, telemetry>>
      <3>1. /\ UNCHANGED <<status, now, events, req, comp, queue>>
            /\ UNCHANGED <<collect, health, work, obs, store, stamp, ended>>
        BY <2>3 DEF vars, model, telemetry
      <3>2. HealthInv' /\ AttemptsInv' /\ CountsInv'
        BY <3>1 DEF HealthInv, HealthOK, AttemptsInv, AttemptsOK, Made, Counted, CountsInv,
           CountsOK, InQueue
      <3>3. LatenciesInv'
        BY <3>1 DEF LatenciesInv, SamplesOK, TimesOK, InQueue, Over
      <3> QED BY <2>2, <3>2, <3>3
    <2>4. CASE status' = "failed"
      BY <2>2, <2>4 DEF HealthInv, AttemptsInv, CountsInv, LatenciesInv
    <2>5. CASE status = "running" /\ \E e \in events : Recording(e)
      <3>1. PICK e \in events : Recording(e)
        BY <2>5
      <3>2. /\ Base /\ BasicInv /\ BasicInv' /\ PlacesOK /\ HealthOK /\ AttemptsOK
            /\ CountsOK /\ SamplesOK /\ TimesOK
        BY <2>2, <2>5 DEF RunInv, Base, PlacesInv, HealthInv, AttemptsInv, CountsInv, LatenciesInv
      <3>3. now <= e.at
        BY <3>1, <3>2 DEF NothingLate, BasicInv, TypeOK, Event
      <3>4. HealthOK'
        BY <3>1, <3>2, HealthKept, RuntimeAssumption
      <3>5. AttemptsOK'
        BY <3>1, <3>2, <3>4, AttemptsKept, RuntimeAssumption, MetricsAssumption
      <3>6. CountsOK'
        BY <3>1, <3>2, CountsKept
      <3>7. SamplesOK'
        BY <3>1, <3>2, <3>3, SamplesKept, RuntimeAssumption
      <3>8. TimesOK'
        BY <3>1, <3>2, <3>3, <3>6, TimesKept, RuntimeAssumption
      <3> QED BY <2>2, <3>4, <3>5, <3>6, <3>7, <3>8
              DEF HealthInv, AttemptsInv, CountsInv, LatenciesInv
    <2> QED BY <2>1, <2>3, <2>4, <2>5
  <1>3. Inv => LatenciesAddUp
    <2>1. ASSUME Inv, status # "failed" PROVE LatenciesAddUp
      BY <2>1, LatenciesReported, RuntimeAssumption, MetricsAssumption
         DEF AttemptsInv, LatenciesInv
    <2>2. status = "failed" => LatenciesAddUp
      BY DEF LatenciesAddUp, Reports
    <2> QED BY <2>1, <2>2
  <1> QED BY <1>1, <1>2, <1>3, PTL DEF MetricsSpec

=============================================================================
