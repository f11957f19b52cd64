----------------------------- MODULE ThreadProofs -----------------------------
(***************************************************************************)
(* What threads do to each other's state.  No recording of a metric is     *)
(* miscounted, for every number of threads and every label set; and no     *)
(* wakeup is lost between a blocking job, its cancellation and the task    *)
(* that awaits them, for every number of tasks, cancellers and wakers.     *)
(* Then what the layers of the middleware decide from a request's head,    *)
(* for every chain of them: the invariant says which layers the request    *)
(* has passed, and what was in effect when it passed them.  Last, that     *)
(* what is decoded of a compressed body is what its producer gave.         *)
(***************************************************************************)
EXTENDS BlockingCall, MetricsRegistry, HttpLayers, CompressionLayer, FiniteSetTheorems,
        WellFoundedInduction, TLAPS

(***************************************************************************)
(*                          The metrics registry                           *)
(***************************************************************************)

\* A set of numbers that is not empty has a least one.
Before == {pair \in Nat \X Nat : pair[1] < pair[2]}

LEMMA LeastOne ==
  ASSUME NEW S \in SUBSET Nat, S # {}
  PROVE  \E n \in S : \A m \in S : n <= m
<1>1. IsWellFoundedOn(Before, Nat)
  <2>1. Before = OpToRel(<, Nat)
    BY DEF Before, OpToRel
  <2> QED BY <2>1, NatLessThanWellFounded
<1>2. PICK n \in S : \A m \in S : <<m, n>> \notin Before
  BY <1>1, WFMin
<1>3. \A m \in S : ~(m < n)
  BY <1>2 DEF Before
<1> QED
  BY <1>3

\* A value falls into the bucket of the first bound it does not exceed.
LEMMA BucketIsFirst ==
  ASSUME NEW value \in Nat
  PROVE  /\ Bucket(value) \in Buckets
         /\ Bucket(value) <= Len(Bounds) => value <= Bounds[Bucket(value)]
         /\ \A a \in 1 .. Bucket(value) - 1 : value > Bounds[a]
<1> DEFINE Reached == {b \in 1 .. Len(Bounds) : value <= Bounds[b]}
<1>1. Len(Bounds) \in Nat /\ \A b \in 1 .. Len(Bounds) : Bounds[b] \in Nat
  BY RegistryIsBounded
<1>2. \E b \in Buckets :
        /\ b <= Len(Bounds) => value <= Bounds[b]
        /\ \A a \in 1 .. b - 1 : value > Bounds[a]
  <2>1. CASE Reached = {}
    <3>1. Len(Bounds) + 1 \in Buckets /\ ~(Len(Bounds) + 1 <= Len(Bounds))
          /\ (Len(Bounds) + 1) - 1 = Len(Bounds)
      BY <1>1 DEF Buckets
    <3>2. \A a \in 1 .. Len(Bounds) : value > Bounds[a]
      BY <1>1, <2>1
    <3> QED BY <3>1, <3>2
  <2>2. CASE Reached # {}
    <3>1. Reached \in SUBSET Nat
      BY <1>1
    <3>2. PICK b \in Reached : \A m \in Reached : b <= m
      BY <2>2, <3>1, LeastOne
    <3>3. b \in Buckets /\ b \in 1 .. Len(Bounds) /\ value <= Bounds[b]
      BY <1>1, <3>2 DEF Buckets
    <3>4. ASSUME NEW a \in 1 .. b - 1 PROVE value > Bounds[a]
      <4>1. a \in 1 .. Len(Bounds) /\ ~(b <= a)
        BY <1>1, <3>3
      <4>2. ~(value <= Bounds[a])
        BY <3>2, <4>1
      <4> QED BY <1>1, <4>1, <4>2
    <3> QED BY <3>3, <3>4
  <2> QED BY <2>1, <2>2
<1> QED BY <1>2 DEF Bucket

\* One element more.
LEMMA OneMore ==
  ASSUME NEW S, IsFiniteSet(S), NEW u, u \notin S
  PROVE  IsFiniteSet(S \cup {u}) /\ Cardinality(S \cup {u}) = Cardinality(S) + 1
BY FS_AddElement

\* A count that gains an element, or does not.
LEMMA CountOneMore ==
  ASSUME NEW S, NEW T, NEW u, IsFiniteSet(S), u \notin S, NEW gains \in BOOLEAN,
         T = IF gains THEN S \cup {u} ELSE S
  PROVE  /\ IsFiniteSet(T) /\ Cardinality(S) \in Nat
         /\ Cardinality(T) = IF gains THEN Cardinality(S) + 1 ELSE Cardinality(S)
BY OneMore, FS_CardinalityType

------------------------------------------------------------------------------
(* What one more request does to the labels of a series: those of the      *)
(* requests so far, and k of the one that comes.                           *)
MayGrow(series, more, keys, k) ==
  /\ IsFiniteSet(DOMAIN series) /\ Capped(series)
  /\ \A l \in keys : Under(series, l) \in DOMAIN series
  /\ \A l \in keys \cup {k} : l.route # Overflow /\ Overflowing(l).route = Overflow
  /\ DOMAIN more = DOMAIN series \cup {Folded(series, k)}

Grew(series, more, keys, k) ==
  /\ \A l \in keys : /\ l \in DOMAIN more <=> l \in DOMAIN series
                     /\ Under(more, l) = Under(series, l)
  /\ Under(more, k) = Folded(series, k)
  /\ k \in DOMAIN more <=> ~AtCap(series, k)
  /\ Capped(more) /\ IsFiniteSet(DOMAIN more)

LEMMA LabelsGrow ==
  ASSUME NEW series, NEW more, NEW keys, NEW k, MayGrow(series, more, keys, k)
  PROVE  Grew(series, more, keys, k)
<1> USE DEF MayGrow, Grew
<1> DEFINE own == {l \in DOMAIN series : l.route # Overflow}
           grown == {l \in DOMAIN more : l.route # Overflow}
<1>0. Cap \in Nat
  BY RegistryIsBounded
<1>1. IsFiniteSet(own) /\ Cardinality(own) \in Nat /\ Cardinality(DOMAIN series) \in Nat
      /\ Cardinality(own) <= Cardinality(DOMAIN series)
  <2>1. own \in SUBSET DOMAIN series
    OBVIOUS
  <2> QED BY <2>1, FS_Subset, FS_CardinalityType
<1>2. Cardinality(own) <= Cap /\ (own # DOMAIN series => Cardinality(own) = Cap)
  BY DEF Capped
<1>3. \A l \in keys : l \notin DOMAIN series => own # DOMAIN series
  <2> SUFFICES ASSUME NEW l \in keys, l \notin DOMAIN series PROVE own # DOMAIN series
    OBVIOUS
  <2>1. Overflowing(l) \in DOMAIN series
    BY DEF Under
  <2> QED BY <2>1
<1>4. IsFiniteSet(DOMAIN more)
  BY FS_AddElement
<1>5. CASE AtCap(series, k)
  <2>1. Folded(series, k) = Overflowing(k) /\ k \notin DOMAIN series
        /\ Cardinality(DOMAIN series) >= Cap
    BY <1>5 DEF Folded, AtCap
  <2>2. \A l \in keys \cup {k} : l # Overflowing(k)
    OBVIOUS
  <2>3. \A l \in keys \cup {k} : l \in DOMAIN more <=> l \in DOMAIN series
    BY <2>1, <2>2
  <2>4. grown = own /\ grown # DOMAIN more
    BY <2>1
  <2>5. Cardinality(own) = Cap
    <3>1. CASE own = DOMAIN series
      <4>1. Cardinality(own) = Cardinality(DOMAIN series)
        BY <3>1
      <4> HIDE DEF own
      <4> QED BY <1>0, <1>1, <1>2, <2>1, <4>1
    <3> QED BY <1>2, <3>1
  <2>6. Capped(more)
    BY <1>0, <2>4, <2>5 DEF Capped
  <2> QED BY <1>4, <1>5, <2>1, <2>3, <2>6 DEF Under
<1>6. CASE k \in DOMAIN series
  <2>1. DOMAIN more = DOMAIN series /\ Folded(series, k) = k /\ ~AtCap(series, k)
    BY <1>6 DEF Folded, AtCap
  <2> QED BY <1>4, <1>6, <2>1 DEF Under, Capped
<1>7. CASE ~AtCap(series, k) /\ k \notin DOMAIN series
  <2>1. Folded(series, k) = k /\ ~(Cardinality(DOMAIN series) >= Cap)
    BY <1>7 DEF Folded, AtCap
  <2>2. own = DOMAIN series
    BY <1>0, <1>1, <1>2, <2>1
  <2>3. \A l \in keys : l \in DOMAIN series
    BY <1>3, <2>2
  <2>4. grown = DOMAIN more /\ grown = own \cup {k} /\ k \notin own
    BY <1>7, <2>1, <2>2
  <2>5. Cardinality(grown) = Cardinality(own) + 1
    BY <1>1, <2>4, OneMore
  <2>6. Cardinality(grown) <= Cap
    BY <1>0, <1>1, <2>1, <2>2, <2>5
  <2> QED BY <1>4, <1>7, <2>1, <2>3, <2>4, <2>6 DEF Under, Capped
<1> QED BY <1>5, <1>6, <1>7

\* One bucket counts one more.
LEMMA OneCountMore ==
  ASSUME NEW counts \in [Buckets -> Nat], NEW at \in Buckets
  PROVE  /\ [counts EXCEPT ![at] = @ + 1] \in [Buckets -> Nat]
         /\ \A b \in Buckets :
              [counts EXCEPT ![at] = @ + 1][b] = IF b = at THEN counts[b] + 1 ELSE counts[b]
OBVIOUS

\* Those who are filed under a label set, and in a bucket of it.
Filed(who, label, l) == {s \in who : label[s] = l}
Binned(who, label, bucket, l, b) == {s \in who : label[s] = l /\ bucket[s] = b}

\* What one more observation does to the counts of a histogram.
HistogramOf(series, who, label, bucket) ==
  \A l \in DOMAIN series :
    /\ series[l] \in [Buckets -> Nat]
    /\ \A b \in Buckets : series[l][b] = Cardinality(Binned(who, label, bucket, l, b))

LEMMA HistogramGrows ==
  ASSUME NEW series, NEW more, NEW who, NEW u, NEW label, NEW bucket, IsFiniteSet(who), u \notin who,
         \A s \in who : label[s] \in DOMAIN series, HistogramOf(series, who, label, bucket),
         bucket[u] \in Buckets,
         more = Put(series, label[u],
                    [Held(series, label[u], NoCounts) EXCEPT ![bucket[u]] = @ + 1])
  PROVE  HistogramOf(more, who \cup {u}, label, bucket)
<1> SUFFICES ASSUME NEW l \in DOMAIN more
             PROVE  /\ more[l] \in [Buckets -> Nat]
                    /\ \A b \in Buckets :
                         more[l][b] =
                           Cardinality(Binned(who \cup {u}, label, bucket, l, b))
  BY DEF HistogramOf
<1> DEFINE old == Held(series, l, NoCounts)
           Of(b) == Binned(who, label, bucket, l, b)
           Now(b) == Binned(who \cup {u}, label, bucket, l, b)
<1>1. DOMAIN more = DOMAIN series \cup {label[u]}
      /\ more[l] = IF l = label[u] THEN [old EXCEPT ![bucket[u]] = @ + 1] ELSE series[l]
  BY DEF Put
<1>2. \A b : IsFiniteSet(Of(b)) /\ u \notin Of(b)
  <2> SUFFICES ASSUME NEW b PROVE IsFiniteSet(Of(b)) /\ u \notin Of(b)
    OBVIOUS
  <2>1. Of(b) \in SUBSET who
    BY DEF Binned
  <2> QED BY <2>1, FS_Subset
<1>3. old \in [Buckets -> Nat] /\ \A b \in Buckets : old[b] = Cardinality(Of(b))
  <2>1. CASE l \in DOMAIN series
    BY <2>1 DEF Held, HistogramOf
  <2>2. CASE l \notin DOMAIN series
    <3>1. \A b : Of(b) = {}
      BY <2>2 DEF Binned
    <3>2. old = NoCounts
      BY <2>2 DEF Held
    <3>3. NoCounts \in [Buckets -> Nat] /\ \A b \in Buckets : NoCounts[b] = 0
      BY DEF NoCounts
    <3>4. Cardinality({}) = 0
      BY FS_EmptySet
    <3> HIDE DEF Of, old
    <3> QED BY <3>1, <3>2, <3>3, <3>4
  <2> QED BY <2>1, <2>2
<1>4. \A b \in Buckets : Now(b) = IF l = label[u] /\ b = bucket[u] THEN Of(b) \cup {u} ELSE Of(b)
  BY DEF Binned
<1>5. \A b \in Buckets :
        Cardinality(Now(b)) =
          IF l = label[u] /\ b = bucket[u] THEN Cardinality(Of(b)) + 1 ELSE Cardinality(Of(b))
  <2> SUFFICES ASSUME NEW b \in Buckets
               PROVE  Cardinality(Now(b)) = IF l = label[u] /\ b = bucket[u]
                                            THEN Cardinality(Of(b)) + 1 ELSE Cardinality(Of(b))
    OBVIOUS
  <2>1. Now(b) = IF l = label[u] /\ b = bucket[u] THEN Of(b) \cup {u} ELSE Of(b)
    BY <1>4
  <2>2. IsFiniteSet(Of(b)) /\ u \notin Of(b)
    BY <1>2
  <2> HIDE DEF Of, Now
  <2> QED BY <2>1, <2>2, OneMore
<1>6. l # label[u] => l \in DOMAIN series
  BY <1>1
<1> HIDE DEF Of, Now
<1>7. CASE l = label[u]
  <2>1. more[l] = [old EXCEPT ![bucket[u]] = @ + 1]
    BY <1>1, <1>7
  <2> HIDE DEF old
  <2>2. more[l] \in [Buckets -> Nat]
        /\ \A b \in Buckets : more[l][b] = IF b = bucket[u] THEN old[b] + 1 ELSE old[b]
    <3>1. old \in [Buckets -> Nat]
      BY <1>3
    <3>2. bucket[u] \in Buckets
      OBVIOUS
    <3>3. /\ [old EXCEPT ![bucket[u]] = @ + 1] \in [Buckets -> Nat]
          /\ \A b \in Buckets :
               [old EXCEPT ![bucket[u]] = @ + 1][b] = IF b = bucket[u] THEN old[b] + 1 ELSE old[b]
      BY <3>1, <3>2, OneCountMore
    <3> QED BY <2>1, <3>3
  <2>3. \A b \in Buckets : more[l][b] = Cardinality(Now(b))
    BY <1>3, <1>5, <1>7, <2>2
  <2> QED BY <2>2, <2>3 DEF Now
<1>8. CASE l # label[u]
  <2>1. more[l] = series[l] /\ old = series[l]
    BY <1>1, <1>6, <1>8 DEF Held
  <2> HIDE DEF old
  <2>2. \A b \in Buckets : more[l][b] = Cardinality(Now(b))
    BY <1>3, <1>5, <1>8, <2>1
  <2> QED BY <1>3, <2>1, <2>2 DEF Now
<1> QED BY <1>7, <1>8

\* What one more response does to the counters of the routes.
LEMMA CountersGrow ==
  ASSUME NEW series, NEW more, NEW who, NEW u, NEW label, IsFiniteSet(who), u \notin who,
         \A s \in who : label[s] \in DOMAIN series,
         \A l \in DOMAIN series : series[l] = Cardinality(Filed(who, label, l)),
         more = Put(series, label[u], Held(series, label[u], 0) + 1)
  PROVE  \A l \in DOMAIN more : more[l] = Cardinality(Filed(who \cup {u}, label, l))
<1> SUFFICES ASSUME NEW l \in DOMAIN more
             PROVE  more[l] = Cardinality(Filed(who \cup {u}, label, l))
  OBVIOUS
<1> DEFINE Of == Filed(who, label, l)
           Now == Filed(who \cup {u}, label, l)
<1>1. DOMAIN more = DOMAIN series \cup {label[u]}
      /\ more[l] = IF l = label[u] THEN Held(series, l, 0) + 1 ELSE series[l]
  BY DEF Put
<1>2. IsFiniteSet(Of) /\ u \notin Of
  <2>1. Of \in SUBSET who
    BY DEF Filed
  <2> QED BY <2>1, FS_Subset
<1>3. Held(series, l, 0) = Cardinality(Of)
  <2>1. CASE l \in DOMAIN series
    BY <2>1 DEF Held
  <2>2. CASE l \notin DOMAIN series
    <3>1. Of = {}
      BY <2>2 DEF Filed
    <3> HIDE DEF Of
    <3> QED BY <2>2, <3>1, FS_EmptySet DEF Held
  <2> QED BY <2>1, <2>2
<1>4. CASE l = label[u]
  <2>1. Now = Of \cup {u}
    BY <1>4 DEF Filed
  <2> HIDE DEF Now, Of
  <2>2. Cardinality(Now) = Cardinality(Of) + 1
    BY <1>2, <2>1, OneMore
  <2> QED BY <1>1, <1>3, <1>4, <2>2 DEF Now
<1>5. CASE l # label[u]
  <2>1. Now = Of /\ l \in DOMAIN series
    BY <1>1, <1>5 DEF Filed
  <2> QED BY <1>1, <1>5, <2>1
<1> QED BY <1>4, <1>5

------------------------------------------------------------------------------
(* The invariant: what the registry promises, with the shape of its state, *)
(* and that a family has warned only at its cap.                           *)
Locks == {"start", "duration", "route", "register", "record", "track", "ended"}

Began == {t \in Recorders : lock[t] # "start"}

RegistryShape ==
  /\ lock \in [Recorders -> Locks]
  /\ DOMAIN recording = Recorders /\ DOMAIN returned = Recorders
  /\ \A t \in Recorders :
       /\ lock[t] # "start" => recording[t] \in MetricCalls
       /\ lock[t] \in {"duration", "route"} => recording[t].op = "finish"
       /\ lock[t] \in {"register", "record", "track"} => recording[t].op = lock[t]
       /\ lock[t] = "route" => Detailed
  /\ IsFiniteSet(Began)
  /\ dropped \in Nat /\ IsFiniteSet(queues) /\ Cardinality(queues) <= Cap

TimesInv ==
  /\ Capped(durations) /\ IsFiniteSet(DOMAIN durations)
  /\ DOMAIN durations = {TimedAs(t) : t \in Timed}
  /\ \A l \in DOMAIN durations :
       /\ durations[l] \in [Buckets -> Nat]
       /\ \A b \in Buckets :
            durations[l][b] =
              Cardinality({t \in Timed : TimedAs(t) = l /\ Bucket(recording[t].value) = b})

RoutesInv ==
  /\ Capped(routes) /\ IsFiniteSet(DOMAIN routes)
  /\ DOMAIN routes = {RoutedAs(t) : t \in Routed}
  /\ \A l \in DOMAIN routes : routes[l] = Cardinality({t \in Routed : RoutedAs(t) = l})

IsFamily(f) == f = [kind |-> f.kind, series |-> f.series, warned |-> f.warned]

FamilyShape(n) ==
  LET family == families[n] IN
  /\ IsFamily(family)
  /\ family.kind \in Kinds /\ family.warned \in BOOLEAN
  /\ IsFiniteSet(DOMAIN family.series)
  /\ family.warned => Cardinality(DOMAIN family.series) >= Cap
  /\ family.kind = "histogram" =>
       \A l \in DOMAIN family.series : family.series[l] \in [Buckets -> Nat]
  /\ family.kind = "counter" =>
       \A l \in DOMAIN family.series : IsFiniteSet(Units(TakenInto(n, l)))

RecordingsInv == RecordingsAreKept /\ \A n \in DOMAIN families : FamilyShape(n)

TimesFolded == {t \in Timed : DurationLabels(recording[t]) \notin DOMAIN durations}
RoutesFolded == {t \in Routed : RouteLabels(recording[t]) \notin DOMAIN routes}

MetricsInv ==
  /\ RegistryShape /\ TimesInv /\ RoutesInv /\ RecordingsInv
  /\ dropped = Cardinality(TimesFolded) + Cardinality(RoutesFolded) + Cardinality(Lost)

\* The invariant is what is promised, and more.
LEMMA MetricsPromise == MetricsInv => NothingIsMiscounted
<1> SUFFICES ASSUME MetricsInv PROVE NothingIsMiscounted
  OBVIOUS
<1>1. MetricsTypeOK
  BY DEF MetricsInv, RegistryShape, RecordingsInv, FamilyShape, MetricsTypeOK, Locks
<1>2. RequestsAreCounted
  BY DEF MetricsInv, TimesInv, RoutesInv, RequestsAreCounted
<1> QED BY <1>1, <1>2 DEF MetricsInv, RegistryShape, RecordingsInv, TimesFolded, RoutesFolded,
                         NothingIsMiscounted

\* The counts are of finite sets.
LEMMA CountsAreFinite ==
  ASSUME RegistryShape
  PROVE  /\ IsFiniteSet(Timed) /\ IsFiniteSet(Routed) /\ IsFiniteSet(Took)
         /\ IsFiniteSet(TimesFolded) /\ IsFiniteSet(RoutesFolded) /\ IsFiniteSet(Lost)
<1>1. /\ Timed \in SUBSET Began /\ Routed \in SUBSET Began /\ Took \in SUBSET Began
      /\ TimesFolded \in SUBSET Began /\ RoutesFolded \in SUBSET Began /\ Lost \in SUBSET Began
  BY DEF Timed, Routed, Took, TimesFolded, RoutesFolded, Lost, Began
<1> QED BY <1>1, FS_Subset DEF RegistryShape

\* The beginning satisfies the invariant.
LEMMA MetricsStart == MetricsInit => MetricsInv
<1> SUFFICES ASSUME MetricsInit PROVE MetricsInv
  OBVIOUS
<1>1. Began = {} /\ Timed = {} /\ Routed = {} /\ Took = {}
  BY DEF MetricsInit, Began, Timed, Routed, Took
<1>2. TimesFolded = {} /\ RoutesFolded = {} /\ Lost = {}
  BY <1>1 DEF TimesFolded, RoutesFolded, Lost
<1>3. DOMAIN durations = {} /\ DOMAIN routes = {} /\ DOMAIN families = {}
  BY DEF MetricsInit, Empty
<1>4. IsFiniteSet({}) /\ Cardinality({}) = 0 /\ Cap \in Nat
  BY FS_EmptySet, RegistryIsBounded
<1>5. RegistryShape
  BY <1>1, <1>4 DEF MetricsInit, RegistryShape, Locks
<1>6. \A s : DOMAIN s = {} => Capped(s)
  <2> SUFFICES ASSUME NEW s, DOMAIN s = {} PROVE Capped(s)
    OBVIOUS
  <2>1. {l \in DOMAIN s : l.route # Overflow} = {}
    OBVIOUS
  <2> QED BY <1>4, <2>1 DEF Capped
<1>7. TimesInv /\ RoutesInv
  BY <1>1, <1>3, <1>4, <1>6 DEF TimesInv, RoutesInv
<1>8. RecordingsInv
  BY <1>1, <1>3 DEF RecordingsInv, RecordingsAreKept
<1> QED BY <1>2, <1>4, <1>5, <1>7, <1>8 DEF MetricsInv, MetricsInit

------------------------------------------------------------------------------
(* What a step leaves as it is.  *)
LEMMA ShapeStays ==
  ASSUME RegistryShape, NEW t \in Recorders, NEW at \in Locks \ {"start"},
         lock' = [lock EXCEPT ![t] = at],
         DOMAIN recording' = Recorders, DOMAIN returned' = Recorders,
         \A s \in Recorders \ {t} : recording'[s] = recording[s],
         recording'[t] \in MetricCalls,
         at \in {"duration", "route"} => recording'[t].op = "finish",
         at \in {"register", "record", "track"} => recording'[t].op = at,
         at = "route" => Detailed,
         dropped' \in Nat, IsFiniteSet(queues'), Cardinality(queues') <= Cap
  PROVE  RegistryShape'
<1>1. lock' \in [Recorders -> Locks] /\ lock'[t] = at
      /\ \A s \in Recorders \ {t} : lock'[s] = lock[s]
  BY DEF RegistryShape
<1>2. Began' = Began \cup {t}
  BY <1>1 DEF Began
<1>3. IsFiniteSet(Began')
  BY <1>2, FS_AddElement DEF RegistryShape
<1>4. ASSUME NEW s \in Recorders
      PROVE  /\ lock'[s] # "start" => recording'[s] \in MetricCalls
             /\ lock'[s] \in {"duration", "route"} => recording'[s].op = "finish"
             /\ lock'[s] \in {"register", "record", "track"} => recording'[s].op = lock'[s]
             /\ lock'[s] = "route" => Detailed
  <2>1. CASE s = t
    BY <1>1, <2>1
  <2>2. CASE s # t
    BY <1>1, <2>2 DEF RegistryShape
  <2> QED BY <2>1, <2>2
<1> QED BY <1>1, <1>3, <1>4 DEF RegistryShape

LEMMA SetsStay ==
  ASSUME RegistryShape, NEW t \in Recorders, NEW at \in Locks, lock' = [lock EXCEPT ![t] = at],
         \A s \in Recorders \ {t} : recording'[s] = recording[s] /\ returned'[s] = returned[s]
  PROVE  /\ Timed' = IF at \in {"route", "ended"} /\ recording'[t].op = "finish"
                    THEN Timed \cup {t} ELSE Timed \ {t}
         /\ Routed' = IF at = "ended" /\ Detailed /\ recording'[t].op = "finish"
                     THEN Routed \cup {t} ELSE Routed \ {t}
         /\ Took' = IF at = "ended" /\ recording'[t].op = "record" /\ returned'[t] = "Ok"
                   THEN Took \cup {t} ELSE Took \ {t}
<1>1. lock'[t] = at /\ \A s \in Recorders \ {t} : lock'[s] = lock[s]
  BY DEF RegistryShape
<1>2. Timed' = IF at \in {"route", "ended"} /\ recording'[t].op = "finish"
               THEN Timed \cup {t} ELSE Timed \ {t}
  BY <1>1 DEF Timed
<1>3. Routed' = IF at = "ended" /\ Detailed /\ recording'[t].op = "finish"
                THEN Routed \cup {t} ELSE Routed \ {t}
  BY <1>1 DEF Routed, Timed
<1>4. Took' = IF at = "ended" /\ recording'[t].op = "record" /\ returned'[t] = "Ok"
              THEN Took \cup {t} ELSE Took \ {t}
  BY <1>1 DEF Took
<1> QED BY <1>2, <1>3, <1>4

LEMMA TimesStay ==
  ASSUME TimesInv, durations' = durations, Timed' = Timed,
         \A s \in Timed : recording'[s] = recording[s]
  PROVE  TimesInv' /\ TimesFolded' = TimesFolded
<1>1. \A s \in Timed : TimedAs(s)' = TimedAs(s)
  BY DEF TimedAs
<1>2. DOMAIN durations' = {TimedAs(t)' : t \in Timed'}
  BY <1>1 DEF TimesInv
<1>3. ASSUME NEW l, NEW b
      PROVE  {t \in Timed' : TimedAs(t)' = l /\ Bucket(recording'[t].value) = b}
               = {t \in Timed : TimedAs(t) = l /\ Bucket(recording[t].value) = b}
  BY <1>1
<1>4. TimesInv'
  <2>1. ASSUME NEW l \in DOMAIN durations, NEW b \in Buckets
        PROVE  durations'[l][b] =
                 Cardinality({t \in Timed' : TimedAs(t)' = l /\ Bucket(recording'[t].value) = b})
    <3>1. durations[l][b] =
            Cardinality({t \in Timed : TimedAs(t) = l /\ Bucket(recording[t].value) = b})
      BY DEF TimesInv
    <3> QED BY SMTT(30), <1>3, <3>1
  <2>2. Capped(durations')
    BY DEF TimesInv
  <2> QED BY <1>2, <2>1, <2>2 DEF TimesInv, Capped
<1>5. TimesFolded' = TimesFolded
  BY DEF TimesFolded
<1> QED BY <1>4, <1>5

LEMMA RoutesStay ==
  ASSUME RoutesInv, routes' = routes, Routed' = Routed,
         \A s \in Routed : recording'[s] = recording[s]
  PROVE  RoutesInv' /\ RoutesFolded' = RoutesFolded
<1>1. \A s \in Routed : RoutedAs(s)' = RoutedAs(s)
  BY DEF RoutedAs
<1>2. DOMAIN routes' = {RoutedAs(t)' : t \in Routed'}
  BY <1>1 DEF RoutesInv
<1>3. ASSUME NEW l
      PROVE  {t \in Routed' : RoutedAs(t)' = l} = {t \in Routed : RoutedAs(t) = l}
  BY <1>1
<1>4. RoutesInv'
  BY <1>2, <1>3 DEF RoutesInv, Capped
<1>5. RoutesFolded' = RoutesFolded
  BY DEF RoutesFolded
<1> QED BY <1>4, <1>5

LEMMA RecordingsStay ==
  ASSUME RecordingsInv, families' = families, Took' = Took,
         \A s \in Took : recording'[s] = recording[s]
  PROVE  RecordingsInv' /\ Lost' = Lost
<1>1. Lost' = Lost
  BY DEF Lost
<1>2. \A n, l : TakenInto(n, l)' = TakenInto(n, l)
  BY DEF TakenInto
<1>3. \A n, l : Units(TakenInto(n, l))' = Units(TakenInto(n, l))
  <2> SUFFICES ASSUME NEW n, NEW l PROVE Units(TakenInto(n, l))' = Units(TakenInto(n, l))
    OBVIOUS
  <2>1. \A s \in TakenInto(n, l) : recording'[s] = recording[s]
    BY DEF TakenInto
  <2>2. TakenInto(n, l)' = TakenInto(n, l)
    BY <1>2
  <2> QED BY <2>1, <2>2 DEF Units
<1>4. ASSUME NEW n \in DOMAIN families PROVE IsKept(n)'
  <2>1. families'[n] = families[n] /\ Lost \subseteq Took
    BY DEF Lost
  <2>2. {recording'[t].labels : t \in {u \in Took' \ Lost' : recording'[u].name = n}}
          = {recording[t].labels : t \in {u \in Took \ Lost : recording[u].name = n}}
    BY <1>1
  <2>3. ASSUME NEW l \in DOMAIN families[n].series
        PROVE  Says(families[n].kind, families[n].series[l], TakenInto(n, l))'
    <3>1. Says(families[n].kind, families[n].series[l], TakenInto(n, l))
      BY DEF RecordingsInv, RecordingsAreKept, IsKept
    <3>2. \A s \in TakenInto(n, l) : recording'[s] = recording[s]
      BY DEF TakenInto
    <3>3. TakenInto(n, l)' = TakenInto(n, l) /\ Units(TakenInto(n, l))' = Units(TakenInto(n, l))
      BY <1>2, <1>3
    <3>4. \A b : {s \in TakenInto(n, l)' : Bucket(recording'[s].value) = b}
                   = {s \in TakenInto(n, l) : Bucket(recording[s].value) = b}
      BY <3>2, <3>3
    <3> HIDE DEF TakenInto
    <3> QED BY <2>1, <3>1, <3>2, <3>3, <3>4 DEF Says
  <2>4. (\E t \in Lost' : recording'[t].name = n) <=> (\E t \in Lost : recording[t].name = n)
    BY <1>1, <2>1
  <2> QED BY <1>1, <2>1, <2>2, <2>3, <2>4 DEF RecordingsInv, RecordingsAreKept, IsKept
<1>5. RecordingsAreKept'
  BY <1>4 DEF RecordingsInv, RecordingsAreKept
<1>6. \A n \in DOMAIN families' : FamilyShape(n)'
  BY <1>3 DEF RecordingsInv, FamilyShape
<1> QED BY <1>1, <1>5, <1>6 DEF RecordingsInv

------------------------------------------------------------------------------
(* What each step changes. *)

\* A label set of a request is never the overflow's.
LEMMA RoutesAreNoOverflow ==
  ASSUME RegistryShape, NEW t \in Recorders, lock[t] # "start", recording[t].op = "finish"
  PROVE  /\ DurationLabels(recording[t]).route # Overflow
         /\ Overflowing(DurationLabels(recording[t])).route = Overflow
         /\ RouteLabels(recording[t]).route # Overflow
         /\ Overflowing(RouteLabels(recording[t])).route = Overflow
         /\ Bucket(recording[t].value) \in Buckets
<1>1. recording[t] \in MetricCalls
  BY DEF RegistryShape
<1>2. recording[t].route # Overflow /\ recording[t].value \in Nat
  BY <1>1, CallsAreWellFormed
<1>3. "<all>" # Overflow
  BY DEF Overflow
<1>4. Bucket(recording[t].value) \in Buckets
  BY <1>2, BucketIsFirst
<1>5. DurationLabels(recording[t]).route # Overflow
      /\ Overflowing(DurationLabels(recording[t])).route = Overflow
  BY <1>2, <1>3 DEF DurationLabels, Overflowing
<1>6. RouteLabels(recording[t]).route # Overflow
      /\ Overflowing(RouteLabels(recording[t])).route = Overflow
  BY <1>2 DEF RouteLabels, Overflowing
<1> QED BY <1>4, <1>5, <1>6

\* observe_duration files the request it is called for.
LEMMA TimesGrow ==
  ASSUME RegistryShape, TimesInv, NEW t \in Recorders, t \notin Timed,
         lock[t] = "duration", recording' = recording, Timed' = Timed \cup {t},
         durations' = Observe(durations, Folded(durations, DurationLabels(recording[t])),
                              recording[t].value)
  PROVE  /\ TimesInv'
         /\ TimesFolded' = IF AtCap(durations, DurationLabels(recording[t]))
                           THEN TimesFolded \cup {t} ELSE TimesFolded
<1> DEFINE k == DurationLabels(recording[t])
           folded == Folded(durations, k)
           keys == {DurationLabels(recording[s]) : s \in Timed}
           label == [s \in Timed \cup {t} |-> IF s = t THEN folded ELSE TimedAs(s)]
           bucket == [s \in Timed \cup {t} |-> Bucket(recording[s].value)]
<1>1. \A s \in Timed \cup {t} :
        /\ DurationLabels(recording[s]).route # Overflow
        /\ Overflowing(DurationLabels(recording[s])).route = Overflow
        /\ Bucket(recording[s].value) \in Buckets
  <2> SUFFICES ASSUME NEW s \in Timed \cup {t}
               PROVE  /\ DurationLabels(recording[s]).route # Overflow
                      /\ Overflowing(DurationLabels(recording[s])).route = Overflow
                      /\ Bucket(recording[s].value) \in Buckets
    OBVIOUS
  <2>1. s \in Recorders /\ lock[s] # "start" /\ recording[s].op = "finish"
    BY DEF Timed, RegistryShape
  <2> QED BY <2>1, RoutesAreNoOverflow
<1>2. \A l \in keys \cup {k} : l.route # Overflow /\ Overflowing(l).route = Overflow
  BY <1>1
<1>3. \A l \in keys : Under(durations, l) \in DOMAIN durations
  BY DEF TimesInv, TimedAs
<1>4. DOMAIN durations' = DOMAIN durations \cup {folded}
  BY DEF Observe, Put
<1>5. IsFiniteSet(DOMAIN durations) /\ Capped(durations)
  BY DEF TimesInv
<1> HIDE DEF k, keys
<1>6. /\ \A l \in keys : /\ l \in DOMAIN durations' <=> l \in DOMAIN durations
                         /\ Under(durations', l) = Under(durations, l)
      /\ Under(durations', k) = folded
      /\ k \in DOMAIN durations' <=> ~AtCap(durations, k)
      /\ Capped(durations') /\ IsFiniteSet(DOMAIN durations')
  <2>1. MayGrow(durations, durations', keys, k)
    BY <1>2, <1>3, <1>4, <1>5 DEF MayGrow
  <2>2. Grew(durations, durations', keys, k)
    BY <2>1, LabelsGrow
  <2> QED BY <2>2 DEF Grew
<1>7. \A s \in Timed \cup {t} : TimedAs(s)' = label[s] /\ Bucket(recording'[s].value) = bucket[s]
  <2>1. \A s \in Timed : TimedAs(s)' = TimedAs(s)
    BY <1>6 DEF TimedAs, keys
  <2>2. TimedAs(t)' = folded
    BY <1>6 DEF TimedAs, k
  <2> QED BY <2>1, <2>2
<1>8. \A s \in Timed : label[s] = TimedAs(s) /\ TimedAs(s) \in DOMAIN durations
  BY DEF TimesInv
<1>9. label[t] = folded /\ bucket[t] = Bucket(recording[t].value) /\ bucket[t] \in Buckets
  BY <1>1
<1>10. HistogramOf(durations, Timed, label, bucket)
  <2> SUFFICES ASSUME NEW l \in DOMAIN durations, NEW b \in Buckets
               PROVE  durations[l][b] = Cardinality(Binned(Timed, label, bucket, l, b))
    BY DEF TimesInv, HistogramOf
  <2>1. Binned(Timed, label, bucket, l, b)
          = {s \in Timed : TimedAs(s) = l /\ Bucket(recording[s].value) = b}
    BY <1>8 DEF Binned
  <2>2. durations[l][b] =
          Cardinality({s \in Timed : TimedAs(s) = l /\ Bucket(recording[s].value) = b})
    BY DEF TimesInv
  <2> HIDE DEF label, bucket
  <2> QED BY <2>1, <2>2
<1>11. durations' = Put(durations, label[t],
                        [Held(durations, label[t], NoCounts) EXCEPT ![bucket[t]] = @ + 1])
  BY <1>9 DEF Observe, k
<1>12. \A s \in Timed : label[s] \in DOMAIN durations
  BY <1>8
<1>13. IsFiniteSet(Timed)
  BY CountsAreFinite
<1>14. HistogramOf(durations', Timed \cup {t}, label, bucket)
  <2> HIDE DEF label, bucket, folded
  <2> QED BY <1>9, <1>10, <1>11, <1>12, <1>13, HistogramGrows
<1>15. \A l \in DOMAIN durations', b \in Buckets :
         durations'[l][b] =
           Cardinality({s \in Timed' : TimedAs(s)' = l /\ Bucket(recording'[s].value) = b})
  <2> SUFFICES ASSUME NEW l \in DOMAIN durations', NEW b \in Buckets
               PROVE  durations'[l][b] =
                        Cardinality({s \in Timed' :
                                       TimedAs(s)' = l /\ Bucket(recording'[s].value) = b})
    OBVIOUS
  <2>1. {s \in Timed' : TimedAs(s)' = l /\ Bucket(recording'[s].value) = b}
          = Binned(Timed \cup {t}, label, bucket, l, b)
    BY <1>7 DEF Binned
  <2> HIDE DEF label, bucket
  <2> QED BY <1>14, <2>1 DEF HistogramOf
<1>16. DOMAIN durations' = {TimedAs(s)' : s \in Timed'}
  <2>1. DOMAIN durations = {TimedAs(s) : s \in Timed}
    BY DEF TimesInv
  <2>2. \A s \in Timed : TimedAs(s)' = TimedAs(s)
    BY <1>7, <1>8
  <2>3. TimedAs(t)' = folded
    BY <1>7, <1>9
  <2> HIDE DEF folded, label, bucket
  <2> QED BY <1>4, <2>1, <2>2, <2>3
<1>17. TimesInv'
  <2> HIDE DEF label, bucket
  <2> QED BY <1>6, <1>14, <1>15, <1>16 DEF TimesInv, Capped, HistogramOf
<1>18. TimesFolded' = IF AtCap(durations, k) THEN TimesFolded \cup {t} ELSE TimesFolded
  <2>1. \A s \in Timed : DurationLabels(recording[s]) \in DOMAIN durations'
                           <=> DurationLabels(recording[s]) \in DOMAIN durations
    BY <1>6 DEF keys
  <2>2. DurationLabels(recording[t]) \in DOMAIN durations' <=> ~AtCap(durations, k)
    BY <1>6 DEF k
  <2> QED BY <2>1, <2>2 DEF TimesFolded
<1> QED BY <1>17, <1>18 DEF k

\* count_route_response files the response.
LEMMA RoutesGrow ==
  ASSUME RegistryShape, RoutesInv, NEW t \in Recorders, t \notin Routed,
         lock[t] = "route", recording' = recording, Routed' = Routed \cup {t},
         routes' = Put(routes, Folded(routes, RouteLabels(recording[t])),
                       Held(routes, Folded(routes, RouteLabels(recording[t])), 0) + 1)
  PROVE  /\ RoutesInv'
         /\ RoutesFolded' = IF AtCap(routes, RouteLabels(recording[t]))
                            THEN RoutesFolded \cup {t} ELSE RoutesFolded
<1> DEFINE k == RouteLabels(recording[t])
           folded == Folded(routes, k)
           keys == {RouteLabels(recording[s]) : s \in Routed}
           label == [s \in Routed \cup {t} |-> IF s = t THEN folded ELSE RoutedAs(s)]
<1>1. \A s \in Routed \cup {t} :
        /\ RouteLabels(recording[s]).route # Overflow
        /\ Overflowing(RouteLabels(recording[s])).route = Overflow
  <2> SUFFICES ASSUME NEW s \in Routed \cup {t}
               PROVE  /\ RouteLabels(recording[s]).route # Overflow
                      /\ Overflowing(RouteLabels(recording[s])).route = Overflow
    OBVIOUS
  <2>1. s \in Recorders /\ lock[s] # "start" /\ recording[s].op = "finish"
    BY DEF Routed, Timed, RegistryShape
  <2> QED BY <2>1, RoutesAreNoOverflow
<1>2. \A l \in keys \cup {k} : l.route # Overflow /\ Overflowing(l).route = Overflow
  BY <1>1
<1>3. \A l \in keys : Under(routes, l) \in DOMAIN routes
  BY DEF RoutesInv, RoutedAs
<1>4. DOMAIN routes' = DOMAIN routes \cup {folded}
  BY DEF Put
<1>5. IsFiniteSet(DOMAIN routes) /\ Capped(routes)
  BY DEF RoutesInv
<1> HIDE DEF k, keys
<1>6. /\ \A l \in keys : /\ l \in DOMAIN routes' <=> l \in DOMAIN routes
                         /\ Under(routes', l) = Under(routes, l)
      /\ Under(routes', k) = folded
      /\ k \in DOMAIN routes' <=> ~AtCap(routes, k)
      /\ Capped(routes') /\ IsFiniteSet(DOMAIN routes')
  <2>1. MayGrow(routes, routes', keys, k)
    BY <1>2, <1>3, <1>4, <1>5 DEF MayGrow
  <2>2. Grew(routes, routes', keys, k)
    BY <2>1, LabelsGrow
  <2> QED BY <2>2 DEF Grew
<1>7. \A s \in Routed \cup {t} : RoutedAs(s)' = label[s]
  <2>1. \A s \in Routed : RoutedAs(s)' = RoutedAs(s)
    BY <1>6 DEF RoutedAs, keys
  <2>2. RoutedAs(t)' = folded
    BY <1>6 DEF RoutedAs, k
  <2> QED BY <2>1, <2>2
<1>8. \A s \in Routed : label[s] = RoutedAs(s) /\ RoutedAs(s) \in DOMAIN routes
  BY DEF RoutesInv
<1>9. label[t] = folded
  OBVIOUS
<1>10. \A l \in DOMAIN routes : routes[l] = Cardinality(Filed(Routed, label, l))
  <2> SUFFICES ASSUME NEW l \in DOMAIN routes
               PROVE  routes[l] = Cardinality(Filed(Routed, label, l))
    OBVIOUS
  <2>1. Filed(Routed, label, l) = {s \in Routed : RoutedAs(s) = l}
    BY <1>8 DEF Filed
  <2>2. routes[l] = Cardinality({s \in Routed : RoutedAs(s) = l})
    BY DEF RoutesInv
  <2> HIDE DEF label
  <2> QED BY <2>1, <2>2
<1>11. routes' = Put(routes, label[t], Held(routes, label[t], 0) + 1)
  BY <1>9 DEF k
<1>12. \A s \in Routed : label[s] \in DOMAIN routes
  BY <1>8
<1>13. IsFiniteSet(Routed)
  BY CountsAreFinite
<1>14. \A l \in DOMAIN routes' :
         routes'[l] = Cardinality(Filed(Routed \cup {t}, label, l))
  <2> HIDE DEF label
  <2> QED BY <1>10, <1>11, <1>12, <1>13, CountersGrow
<1>15. \A l \in DOMAIN routes' : routes'[l] = Cardinality({s \in Routed' : RoutedAs(s)' = l})
  <2> SUFFICES ASSUME NEW l \in DOMAIN routes'
               PROVE  routes'[l] = Cardinality({s \in Routed' : RoutedAs(s)' = l})
    OBVIOUS
  <2>1. {s \in Routed' : RoutedAs(s)' = l} = Filed(Routed \cup {t}, label, l)
    BY <1>7 DEF Filed
  <2> HIDE DEF label
  <2> QED BY <1>14, <2>1
<1>16. DOMAIN routes' = {RoutedAs(s)' : s \in Routed'}
  <2>1. DOMAIN routes = {RoutedAs(s) : s \in Routed}
    BY DEF RoutesInv
  <2>2. \A s \in Routed : RoutedAs(s)' = RoutedAs(s)
    BY <1>7, <1>8
  <2>3. RoutedAs(t)' = folded
    BY <1>7, <1>9
  <2> HIDE DEF folded, label
  <2> QED BY <1>4, <2>1, <2>2, <2>3
<1>17. RoutesInv'
  <2> HIDE DEF label
  <2> QED BY <1>6, <1>15, <1>16 DEF RoutesInv, Capped
<1>18. RoutesFolded' = IF AtCap(routes, k) THEN RoutesFolded \cup {t} ELSE RoutesFolded
  <2>1. \A s \in Routed : RouteLabels(recording[s]) \in DOMAIN routes'
                            <=> RouteLabels(recording[s]) \in DOMAIN routes
    BY <1>6 DEF keys
  <2>2. RouteLabels(recording[t]) \in DOMAIN routes' <=> ~AtCap(routes, k)
    BY <1>6 DEF k
  <2> QED BY <2>1, <2>2 DEF RoutesFolded
<1> QED BY <1>17, <1>18 DEF k

------------------------------------------------------------------------------
(* The families: one series, one family, and all of them. *)

\* The numbers up to n are n.
LEMMA UpTo ==
  ASSUME NEW n \in Nat
  PROVE  IsFiniteSet(1 .. n) /\ Cardinality(1 .. n) = n
<1>1. Cardinality(1 .. n) = IF 1 > n THEN 0 ELSE n - 1 + 1
  BY FS_Interval
<1>2. IsFiniteSet(1 .. n)
  BY FS_Interval
<1>3. (IF 1 > n THEN 0 ELSE n - 1 + 1) = n
  OBVIOUS
<1> QED BY <1>1, <1>2, <1>3

\* Units of one recording more.
LEMMA UnitsGrow ==
  ASSUME NEW those, NEW t, t \notin those, recording[t].value \in Nat, IsFiniteSet(Units(those))
  PROVE  /\ IsFiniteSet(Units(those \cup {t}))
         /\ Cardinality(Units(those \cup {t})) = Cardinality(Units(those)) + recording[t].value
<1> DEFINE more == {t} \X (1 .. recording[t].value)
<1>1. Units(those \cup {t}) = Units(those) \cup more
  BY DEF Units
<1>2. Units(those) \cap more = {}
  BY DEF Units
<1>3. IsFiniteSet({t}) /\ Cardinality({t}) = 1
  BY FS_Singleton
<1>4. IsFiniteSet(1 .. recording[t].value) /\ Cardinality(1 .. recording[t].value) = recording[t].value
  BY UpTo
<1>5. IsFiniteSet(more) /\ Cardinality(more) = recording[t].value
  <2>1. IsFiniteSet(more) /\ Cardinality(more) = 1 * Cardinality(1 .. recording[t].value)
    BY <1>3, <1>4, FS_Product
  <2> QED BY <1>4, <2>1
<1>6. Cardinality(Units(those)) \in Nat
  BY FS_CardinalityType
<1>7. IsFiniteSet(Units(those) \cup more)
      /\ Cardinality(Units(those) \cup more)
           = Cardinality(Units(those)) + Cardinality(more) - Cardinality(Units(those) \cap more)
  <2> HIDE DEF more
  <2> QED BY <1>5, FS_Union
<1>8. Cardinality(Units(those) \cap more) = 0
  BY <1>2, FS_EmptySet
<1> HIDE DEF more
<1>9. Cardinality(Units(those) \cup more) = Cardinality(Units(those)) + recording[t].value
  BY <1>5, <1>6, <1>7, <1>8
<1> QED BY <1>1, <1>7, <1>9

\* What a series says, with what its shape adds.
Tells(kind, value, those) ==
  /\ Says(kind, value, those)
  /\ kind = "histogram" => value \in [Buckets -> Nat]
  /\ kind = "counter" => IsFiniteSet(Units(those))

Enters(t, series, more, those, kind, l) ==
  /\ t \notin those /\ IsFiniteSet(those) /\ kind \in Kinds
  /\ recording[t].value \in Nat /\ recording[t].kind = kind /\ recording[t].labels = l
  /\ l \in DOMAIN series => Tells(kind, series[l], those)
  /\ l \notin DOMAIN series => those = {}
  /\ more = Recorded(series, recording[t])

\* A series that takes one recording more tells of it too.
LEMMA SeriesGrows ==
  ASSUME NEW series, NEW more, NEW those, NEW t, NEW l, NEW kind,
         Enters(t, series, more, those, kind, l)
  PROVE  /\ DOMAIN more = DOMAIN series \cup {l}
         /\ \A k \in DOMAIN series \ {l} : more[k] = series[k]
         /\ Tells(kind, more[l], those \cup {t})
<1> USE DEF Enters
<1> DEFINE c == recording[t]
<1>1. CASE kind = "counter"
  <2>1. more = Put(series, l, Held(series, l, 0) + c.value)
    BY <1>1 DEF Recorded
  <2>2. IsFiniteSet(Units(those)) /\ Held(series, l, 0) = Cardinality(Units(those))
    <3>1. CASE l \in DOMAIN series
      BY <1>1, <3>1 DEF Tells, Says, Held
    <3>2. CASE l \notin DOMAIN series
      <4>1. Units(those) = {}
        BY <3>2 DEF Units
      <4> QED BY <3>2, <4>1, FS_EmptySet DEF Held
    <3> QED BY <3>1, <3>2
  <2>3. DOMAIN more = DOMAIN series \cup {l} /\ more[l] = Held(series, l, 0) + c.value
        /\ \A k \in DOMAIN series \ {l} : more[k] = series[k]
    BY <2>1 DEF Put
  <2>4. IsFiniteSet(Units(those \cup {t}))
        /\ Cardinality(Units(those \cup {t})) = Cardinality(Units(those)) + c.value
    BY <2>2, UnitsGrow
  <2>5. Tells(kind, more[l], those \cup {t})
    <3>1. more[l] = Cardinality(Units(those \cup {t}))
      BY <2>2, <2>3, <2>4
    <3> QED BY <1>1, <2>4, <3>1 DEF Tells, Says
  <2> QED BY <2>3, <2>5
<1>2. CASE kind = "gauge"
  <2>1. more = Put(series, l, c.value)
    BY <1>2 DEF Recorded
  <2>2. DOMAIN more = DOMAIN series \cup {l} /\ more[l] = c.value
        /\ \A k \in DOMAIN series \ {l} : more[k] = series[k]
    BY <2>1 DEF Put
  <2>3. \E s \in those \cup {t} : more[l] = recording[s].value
    BY <2>2
  <2> QED BY <1>2, <2>2, <2>3 DEF Tells, Says
<1>3. CASE kind = "histogram"
  <2> DEFINE at == Bucket(c.value)
             old == Held(series, l, NoCounts)
             Of(b) == {s \in those : Bucket(recording[s].value) = b}
             Now(b) == {s \in those \cup {t} : Bucket(recording[s].value) = b}
  <2>1. more = Put(series, l, [old EXCEPT ![at] = @ + 1])
    BY <1>3 DEF Recorded, Observe
  <2>2. at \in Buckets
    BY BucketIsFirst
  <2>3. old \in [Buckets -> Nat] /\ \A b \in Buckets : old[b] = Cardinality(Of(b))
    <3>1. CASE l \in DOMAIN series
      BY <1>3, <3>1 DEF Tells, Says, Held
    <3>2. CASE l \notin DOMAIN series
      <4>1. \A b : Of(b) = {}
        BY <3>2
      <4>2. old = NoCounts
        BY <3>2 DEF Held
      <4>3. NoCounts \in [Buckets -> Nat] /\ \A b \in Buckets : NoCounts[b] = 0
        BY DEF NoCounts
      <4>4. Cardinality({}) = 0
        BY FS_EmptySet
      <4> HIDE DEF Of, old
      <4> QED BY <4>1, <4>2, <4>3, <4>4
    <3> QED BY <3>1, <3>2
  <2>4. DOMAIN more = DOMAIN series \cup {l} /\ more[l] = [old EXCEPT ![at] = @ + 1]
        /\ \A k \in DOMAIN series \ {l} : more[k] = series[k]
    <3> HIDE DEF old, at
    <3> QED BY <2>1 DEF Put
  <2>5. /\ [old EXCEPT ![at] = @ + 1] \in [Buckets -> Nat]
        /\ \A b \in Buckets :
             [old EXCEPT ![at] = @ + 1][b] = IF b = at THEN old[b] + 1 ELSE old[b]
    <3> HIDE DEF old, at
    <3> QED BY <2>2, <2>3, OneCountMore
  <2>6. \A b \in Buckets :
          Cardinality(Now(b)) = IF b = at THEN Cardinality(Of(b)) + 1 ELSE Cardinality(Of(b))
    <3> SUFFICES ASSUME NEW b \in Buckets
                 PROVE  Cardinality(Now(b)) =
                          IF b = at THEN Cardinality(Of(b)) + 1 ELSE Cardinality(Of(b))
      OBVIOUS
    <3>1. Now(b) = IF b = at THEN Of(b) \cup {t} ELSE Of(b)
      OBVIOUS
    <3>2. Of(b) \in SUBSET those /\ t \notin Of(b)
      OBVIOUS
    <3>3. IsFiniteSet(Of(b))
      BY <3>2, FS_Subset
    <3> HIDE DEF Of, Now, at
    <3> QED BY <3>1, <3>2, <3>3, OneMore
  <2>7. \A b \in Buckets : more[l][b] = Cardinality(Now(b))
    <3> HIDE DEF Of, Now, old, at
    <3> QED BY <2>3, <2>4, <2>5, <2>6
  <2>8. Says(kind, more[l], those \cup {t})
    BY <1>3, <2>7 DEF Says
  <2>9. more[l] \in [Buckets -> Nat]
    BY <2>4, <2>5
  <2> HIDE DEF Of, Now, old, at
  <2> QED BY <1>3, <2>4, <2>8, <2>9 DEF Tells
<1> QED BY <1>1, <1>2, <1>3 DEF Kinds
------------------------------------------------------------------------------
Kept(n) == IsKept(n) /\ FamilyShape(n)

\* A family that no recording comes to stays as it is.
LEMMA FamilyStays ==
  ASSUME NEW n, families'[n] = families[n], recording' = recording,
         \A s : recording[s].name = n => (s \in Took' <=> s \in Took) /\ (s \in Lost' <=> s \in Lost),
         Kept(n)
  PROVE  Kept(n)'
<1>1. \A l : TakenInto(n, l)' = TakenInto(n, l)
  BY DEF TakenInto
<1>2. \A l : Units(TakenInto(n, l))' = Units(TakenInto(n, l))
  BY <1>1 DEF Units
<1>3. {recording'[t].labels : t \in {u \in Took' \ Lost' : recording'[u].name = n}}
        = {recording[t].labels : t \in {u \in Took \ Lost : recording[u].name = n}}
  OBVIOUS
<1>4. (\E t \in Lost' : recording'[t].name = n) <=> (\E t \in Lost : recording[t].name = n)
  OBVIOUS
<1>5. ASSUME NEW l, Says(families[n].kind, families[n].series[l], TakenInto(n, l))
      PROVE  Says(families[n].kind, families[n].series[l], TakenInto(n, l))'
  <2> HIDE DEF TakenInto
  <2> QED BY <1>1, <1>2, <1>5 DEF Says
<1>6. IsKept(n)'
  BY <1>3, <1>4, <1>5 DEF Kept, IsKept
<1>7. FamilyShape(n)'
  BY <1>2 DEF Kept, FamilyShape
<1> QED BY <1>6, <1>7 DEF Kept

\* A family that has lost a recording is at its cap.
LEMMA LostAtCap ==
  ASSUME NEW n, Kept(n), NEW s \in Took, recording[s].name = n,
         recording[s].labels \notin DOMAIN families[n].series
  PROVE  Cardinality(DOMAIN families[n].series) >= Cap
<1>1. s \in Lost
  BY DEF Lost
<1>2. families[n].warned
  BY <1>1 DEF Kept, IsKept
<1> QED BY <1>2 DEF Kept, FamilyShape

\* register adds a family that has those nothing.
LEMMA RegisterKeeps ==
  ASSUME RecordingsInv, NEW n, n \notin Reserved \cup DOMAIN families, NEW kind \in Kinds,
         families' = Put(families, n, [kind |-> kind, series |-> Empty, warned |-> FALSE]),
         recording' = recording, Took' = Took
  PROVE  RecordingsInv' /\ Lost' = Lost
<1>1. DOMAIN families' = DOMAIN families \cup {n}
      /\ families'[n] = [kind |-> kind, series |-> Empty, warned |-> FALSE]
      /\ \A m \in DOMAIN families : families'[m] = families[m]
  BY DEF Put
<1>2. \A s \in Took : recording[s].name \in DOMAIN families /\ recording[s].name # n
                      /\ recording[s].kind = families[recording[s].name].kind
  BY DEF RecordingsInv, RecordingsAreKept
<1>3. Lost' = Lost
  BY <1>1, <1>2 DEF Lost
<1>4. ASSUME NEW m \in DOMAIN families PROVE Kept(m)'
  <2>1. Kept(m)
    BY DEF RecordingsInv, RecordingsAreKept, Kept
  <2>2. families'[m] = families[m]
    BY <1>1
  <2> QED BY <1>3, <2>1, <2>2, FamilyStays
<1>5. Kept(n)'
  <2>1. DOMAIN Empty = {} /\ IsFiniteSet({}) /\ Cardinality({}) = 0 /\ Cap \in Nat
    BY FS_EmptySet, RegistryIsBounded DEF Empty
  <2>2. families'[n].kind = kind /\ families'[n].warned = FALSE /\ families'[n].series = Empty
        /\ DOMAIN families'[n].series = {}
        /\ IsFamily(families'[n])
    <3>1. families'[n] = [kind |-> kind, series |-> Empty, warned |-> FALSE]
      BY <1>1
    <3>2. DOMAIN Empty = {}
      BY <2>1
    <3>3. families'[n].kind = kind
      BY <3>1
    <3>4. families'[n].warned = FALSE
      BY <3>1
    <3>5. families'[n].series = Empty
      BY <3>1
    <3>6. IsFamily(families'[n])
      BY <3>1 DEF IsFamily
    <3> QED BY <3>2, <3>3, <3>4, <3>5, <3>6
  <2>3. ~\E t \in Lost' : recording'[t].name = n
    BY <1>2, <1>3 DEF Lost
  <2>4. {recording'[t].labels : t \in {u \in Took' \ Lost' : recording'[u].name = n}} = {}
    BY <1>2
  <2>5. IsKept(n)'
    <3>1. n \notin Reserved /\ Cardinality(DOMAIN families'[n].series) <= Cap
      BY <2>1, <2>2
    <3>2. families'[n].warned <=> \E t \in Lost' : recording'[t].name = n
      BY <2>2, <2>3
    <3>3. DOMAIN families'[n].series =
            {recording'[t].labels : t \in {u \in Took' \ Lost' : recording'[u].name = n}}
      BY <2>2, <2>4
    <3>4. \A l \in DOMAIN families'[n].series :
            Says(families[n].kind, families[n].series[l], TakenInto(n, l))'
      BY <2>2
    <3> QED BY <3>1, <3>2, <3>3, <3>4 DEF IsKept
  <2>6. FamilyShape(n)'
    BY <2>1, <2>2 DEF FamilyShape
  <2> QED BY <2>5, <2>6 DEF Kept
<1>6. RecordingsInv'
  <2>1. \A m \in DOMAIN families' : Kept(m)'
    BY <1>1, <1>4, <1>5
  <2>2. \A s \in Took' : /\ recording'[s].name \in DOMAIN families'
                         /\ recording'[s].kind = families'[recording'[s].name].kind
    BY <1>1, <1>2
  <2> QED BY <2>1, <2>2 DEF RecordingsInv, RecordingsAreKept, Kept
<1> QED BY <1>3, <1>6

\* One field of a family changes.
LEMMA FamilyExcept ==
  ASSUME NEW f, NEW v, IsFamily(f)
  PROVE  /\ IsFamily([f EXCEPT !.warned = v]) /\ IsFamily([f EXCEPT !.series = v])
         /\ [f EXCEPT !.warned = v].kind = f.kind /\ [f EXCEPT !.warned = v].series = f.series
         /\ [f EXCEPT !.warned = v].warned = v
         /\ [f EXCEPT !.series = v].kind = f.kind /\ [f EXCEPT !.series = v].series = v
         /\ [f EXCEPT !.series = v].warned = f.warned
<1>1. [f EXCEPT !.warned = v] = [kind |-> f.kind, series |-> f.series, warned |-> v]
  BY DEF IsFamily
<1>2. [f EXCEPT !.series = v] = [kind |-> f.kind, series |-> v, warned |-> f.warned]
  BY DEF IsFamily
<1> QED BY <1>1, <1>2 DEF IsFamily

\* A recording enters its family, or the family is full and warns.
LEMMA RecordKeeps ==
  ASSUME RegistryShape, RecordingsInv, NEW t \in Recorders, lock[t] = "record", t \notin Took,
         recording' = recording, Took' = Took \cup {t},
         NEW c, c = recording[t], NEW n, n = c.name,
         n \in DOMAIN families, families[n].kind = c.kind,
         NEW more, families' = Put(families, n, more), more.kind = c.kind,
         IsFamily(more),
         AtCap(families[n].series, c.labels) =>
           more.series = families[n].series /\ more.warned = TRUE,
         ~AtCap(families[n].series, c.labels) =>
           more.series = Recorded(families[n].series, c) /\ more.warned = families[n].warned
  PROVE  /\ RecordingsInv'
         /\ Lost' = IF AtCap(families[n].series, c.labels) THEN Lost \cup {t} ELSE Lost
<1> DEFINE old == families[n].series
           new == families'[n].series
           k == c.labels
<1>0. Kept(n) /\ c \in MetricCalls /\ c.op = "record" /\ c.kind \in Kinds /\ c.value \in Nat
  BY CallsAreWellFormed DEF RecordingsInv, RecordingsAreKept, Kept, RegistryShape
<1>1. DOMAIN families' = DOMAIN families /\ families'[n] = more
      /\ \A m \in DOMAIN families \ {n} : families'[m] = families[m]
  BY DEF Put
<1>2. AtCap(old, k) => new = old /\ families'[n].warned = TRUE
  BY <1>1
<1>3. ~AtCap(old, k) => new = Recorded(old, c) /\ families'[n].warned = families[n].warned
  BY <1>1
<1>4. /\ IsFiniteSet(DOMAIN old) /\ Cardinality(DOMAIN old) \in Nat /\ Cap \in Nat
      /\ Cardinality(DOMAIN old) <= Cap
      /\ DOMAIN old =
           {recording[s].labels : s \in {u \in Took \ Lost : recording[u].name = n}}
      /\ \A l \in DOMAIN old : Tells(families[n].kind, old[l], TakenInto(n, l))
  BY <1>0, FS_CardinalityType, RegistryIsBounded DEF Kept, FamilyShape, IsKept, Tells
<1>5. /\ t \notin TakenInto(n, k) /\ IsFiniteSet(TakenInto(n, k))
      /\ TakenInto(n, k)' = TakenInto(n, k) \cup {t}
      /\ \A l : l # k => TakenInto(n, l)' = TakenInto(n, l)
  <2>1. TakenInto(n, k) \in SUBSET Took
    BY DEF TakenInto
  <2>2. IsFiniteSet(TakenInto(n, k))
    BY <2>1, CountsAreFinite, FS_Subset
  <2> QED BY <2>1, <2>2 DEF TakenInto
<1>6. ~AtCap(old, k) /\ k \notin DOMAIN old => TakenInto(n, k) = {}
  <2> SUFFICES ASSUME k \notin DOMAIN old, NEW s \in TakenInto(n, k) PROVE AtCap(old, k)
    OBVIOUS
  <2>1. s \in Took /\ recording[s].name = n /\ recording[s].labels = k
    BY DEF TakenInto
  <2> QED BY <1>0, <2>1, LostAtCap DEF AtCap
<1>7. ~AtCap(old, k) =>
        /\ DOMAIN new = DOMAIN old \cup {k}
        /\ \A l \in DOMAIN old \ {k} : new[l] = old[l]
        /\ Tells(c.kind, new[k], TakenInto(n, k)')
  <2> SUFFICES ASSUME ~AtCap(old, k)
               PROVE  /\ DOMAIN new = DOMAIN old \cup {k}
                      /\ \A l \in DOMAIN old \ {k} : new[l] = old[l]
                      /\ Tells(c.kind, new[k], TakenInto(n, k) \cup {t})
    BY <1>5
  <2>1. new = Recorded(old, recording[t])
    BY <1>3
  <2>2. k \in DOMAIN old => Tells(c.kind, old[k], TakenInto(n, k))
    BY <1>4
  <2>3. k \notin DOMAIN old => TakenInto(n, k) = {}
    BY <1>6
  <2> HIDE DEF old, new, k
  <2>4. recording[t].labels = k /\ recording[t].kind = c.kind /\ recording[t].value \in Nat
    BY <1>0 DEF k
  <2>5. Enters(t, old, new, TakenInto(n, k), c.kind, k)
    BY <1>0, <1>5, <2>1, <2>2, <2>3, <2>4 DEF Enters
  <2> QED BY <2>5, SeriesGrows
<1>8. AtCap(old, k) => new = old /\ k \notin DOMAIN old /\ Cardinality(DOMAIN old) >= Cap
  BY <1>2 DEF AtCap
<1>9. \A s \in Took : recording[s].name = n =>
        (recording[s].labels \in DOMAIN new <=> recording[s].labels \in DOMAIN old)
  <2> SUFFICES ASSUME NEW s \in Took, recording[s].name = n, recording[s].labels \notin DOMAIN old
               PROVE  recording[s].labels \notin DOMAIN new
    BY <1>7, <1>8
  <2>1. CASE recording[s].labels = k
    <3>1. AtCap(old, k)
      BY <1>0, <2>1, LostAtCap DEF AtCap
    <3> QED BY <1>8, <3>1
  <2>2. CASE recording[s].labels # k
    BY <1>7, <1>8, <2>2
  <2> QED BY <2>1, <2>2
<1>10. k \in DOMAIN new <=> ~AtCap(old, k)
  BY <1>7, <1>8
<1>11. Lost' = IF AtCap(old, k) THEN Lost \cup {t} ELSE Lost
  <2>1. \A s \in Took : recording[s].labels \in DOMAIN families'[recording[s].name].series
                          <=> recording[s].labels \in DOMAIN families[recording[s].name].series
    <3> SUFFICES ASSUME NEW s \in Took
                 PROVE  recording[s].labels \in DOMAIN families'[recording[s].name].series
                          <=> recording[s].labels \in DOMAIN families[recording[s].name].series
      OBVIOUS
    <3>1. recording[s].name \in DOMAIN families
      BY DEF RecordingsInv, RecordingsAreKept
    <3>2. CASE recording[s].name = n
      BY <1>9, <3>2
    <3>3. CASE recording[s].name # n
      BY <1>1, <3>1, <3>3
    <3> QED BY <3>2, <3>3
  <2>2. recording[t].labels \in DOMAIN families'[recording[t].name].series <=> ~AtCap(old, k)
    BY <1>10
  <2>3. CASE AtCap(old, k)
    <3>1. Lost' = Lost \cup {t}
      BY <2>1, <2>2, <2>3 DEF Lost
    <3> QED BY <2>3, <3>1
  <2>4. CASE ~AtCap(old, k)
    <3>1. Lost' = Lost
      BY <2>1, <2>2, <2>4 DEF Lost
    <3> QED BY <2>4, <3>1
  <2> QED BY <2>3, <2>4
<1>12. ASSUME NEW m \in DOMAIN families, m # n PROVE Kept(m)'
  <2>1. Kept(m) /\ families'[m] = families[m]
    BY <1>1, <1>12 DEF RecordingsInv, RecordingsAreKept, Kept
  <2>2. \A s : recording[s].name = m =>
          (s \in Took' <=> s \in Took) /\ (s \in Lost' <=> s \in Lost)
    BY <1>11, <1>12
  <2> QED BY <2>1, <2>2, FamilyStays
<1>13. \A l \in DOMAIN new : Tells(c.kind, new[l], TakenInto(n, l)')
  <2>1. CASE AtCap(old, k)
    <3>1. \A l \in DOMAIN new : l # k /\ new[l] = old[l] /\ l \in DOMAIN old
      BY <1>8, <2>1
    <3> HIDE DEF old, new, k
    <3> QED BY <1>4, <1>5, <3>1
  <2>2. CASE ~AtCap(old, k)
    <3> SUFFICES ASSUME NEW l \in DOMAIN new PROVE Tells(c.kind, new[l], TakenInto(n, l)')
      OBVIOUS
    <3> HIDE DEF old, new, k
    <3>1. CASE l = k
      BY <1>7, <2>2, <3>1
    <3>2. CASE l # k
      <4>1. l \in DOMAIN old /\ new[l] = old[l]
        BY SMTT(30), <1>7, <2>2, <3>2
      <4> QED BY <1>4, <1>5, <3>2, <4>1
    <3> QED BY <3>1, <3>2
  <2> QED BY <2>1, <2>2
<1>14. \A l \in DOMAIN new : Tells(families[n].kind, families[n].series[l], TakenInto(n, l))'
  <2> SUFFICES ASSUME NEW l \in DOMAIN new
               PROVE  Tells(families[n].kind, families[n].series[l], TakenInto(n, l))'
    OBVIOUS
  <2>1. families'[n].kind = c.kind
    BY <1>1
  <2>2. Tells(c.kind, new[l], TakenInto(n, l)')
    BY <1>13
  <2>3. Units(TakenInto(n, l))' = Units(TakenInto(n, l)')
    <3> HIDE DEF TakenInto, old, new, k
    <3> QED BY ZenonT(40) DEF Units
  <2> HIDE DEF TakenInto
  <2> QED BY <2>1, <2>2, <2>3 DEF Tells, Says
<1>15. FamilyShape(n)'
  <2>1. families'[n].kind = c.kind /\ IsFamily(families'[n]) /\ families'[n].kind \in Kinds
    BY <1>0, <1>1
  <2>2. families'[n].warned \in BOOLEAN
    BY <1>0, <1>2, <1>3 DEF Kept, FamilyShape
  <2>3. IsFiniteSet(DOMAIN new)
    <3>1. IsFiniteSet(DOMAIN old \cup {k})
      BY <1>4, FS_AddElement
    <3>2. DOMAIN new = DOMAIN old \/ DOMAIN new = DOMAIN old \cup {k}
      BY <1>7, <1>8
    <3> QED BY <1>4, <3>1, <3>2
  <2>4. families'[n].warned => Cardinality(DOMAIN new) >= Cap
    <3>1. CASE AtCap(old, k)
      BY <1>8, <3>1
    <3>2. CASE ~AtCap(old, k)
      <4> SUFFICES ASSUME families[n].warned PROVE Cardinality(DOMAIN new) >= Cap
        BY <1>3, <3>2
      <4>1. Cardinality(DOMAIN old) >= Cap
        BY <1>0 DEF Kept, FamilyShape
      <4>2. k \in DOMAIN old
        BY <3>2, <4>1 DEF AtCap
      <4>3. DOMAIN new = DOMAIN old
        BY <1>7, <3>2, <4>2
      <4> QED BY <4>1, <4>3
    <3> QED BY <3>1, <3>2
  <2>5. families'[n].kind = "histogram" => \A l \in DOMAIN new : new[l] \in [Buckets -> Nat]
    BY <1>14 DEF Tells
  <2>6. families'[n].kind = "counter" => \A l \in DOMAIN new : IsFiniteSet(Units(TakenInto(n, l)))'
    BY <1>14 DEF Tells
  <2> QED BY <2>1, <2>2, <2>3, <2>4, <2>5, <2>6 DEF FamilyShape
<1>16. IsKept(n)'
  <2>1. n \notin Reserved
    BY <1>0 DEF Kept, IsKept
  <2>2. Cardinality(DOMAIN new) <= Cap
    <3>1. CASE AtCap(old, k)
      BY <1>4, <1>8, <3>1
    <3>2. CASE ~AtCap(old, k) /\ k \in DOMAIN old
      <4>1. DOMAIN new = DOMAIN old
        BY <1>7, <3>2
      <4> QED BY <1>4, <4>1
    <3>3. CASE ~AtCap(old, k) /\ k \notin DOMAIN old
      <4>1. ~(Cardinality(DOMAIN old) >= Cap)
        BY <3>3 DEF AtCap
      <4>2. Cardinality(DOMAIN new) = Cardinality(DOMAIN old) + 1
        <5>1. DOMAIN new = DOMAIN old \cup {k}
          BY <1>7, <3>3
        <5>2. Cardinality(DOMAIN old \cup {k}) = Cardinality(DOMAIN old) + 1
          BY <1>4, <3>3, OneMore
        <5> QED BY SMTT(30), <5>1, <5>2
      <4> HIDE DEF old, new
      <4> QED BY <1>4, <4>1, <4>2
    <3> QED BY <3>1, <3>2, <3>3
  <2>3. families'[n].warned <=> \E s \in Lost' : recording'[s].name = n
    <3>1. CASE AtCap(old, k)
      <4>1. t \in Lost' /\ recording'[t].name = n
        BY <1>11, <3>1
      <4> QED BY <1>2, <3>1, <4>1
    <3>2. CASE ~AtCap(old, k)
      <4>1. Lost' = Lost /\ families'[n].warned = families[n].warned
        BY <1>3, <1>11, <3>2
      <4>2. families[n].warned <=> \E s \in Lost : recording[s].name = n
        BY <1>0 DEF Kept, IsKept
      <4> QED BY <4>1, <4>2
    <3> QED BY <3>1, <3>2
  <2>4. DOMAIN new =
          {recording'[s].labels : s \in {u \in Took' \ Lost' : recording'[u].name = n}}
    <3>1. t \notin Lost
      BY DEF Lost
    <3>2. CASE AtCap(old, k)
      <4>1. Took' \ Lost' = Took \ Lost
        BY SMTT(30), <1>11, <3>1, <3>2
      <4> QED BY <1>4, <1>8, <3>2, <4>1
    <3>3. CASE ~AtCap(old, k)
      <4>1. Took' \ Lost' = (Took \ Lost) \cup {t}
        BY <1>11, <3>1, <3>3
      <4>2. {recording'[s].labels : s \in {u \in Took' \ Lost' : recording'[u].name = n}}
              = {recording[s].labels : s \in {u \in Took \ Lost : recording[u].name = n}} \cup {k}
        <5> HIDE DEF old, new
        <5>1. {u \in Took' \ Lost' : recording'[u].name = n}
                = {u \in Took \ Lost : recording[u].name = n} \cup {t}
          BY <4>1
        <5>2. recording'[t].labels = k OBVIOUS
        <5> QED BY <5>1, <5>2
      <4> QED BY <1>4, <1>7, <3>3, <4>2
    <3> QED BY <3>2, <3>3
  <2>5. \A l \in DOMAIN new : Says(families[n].kind, families[n].series[l], TakenInto(n, l))'
    BY <1>14 DEF Tells
  <2> QED BY <2>1, <2>2, <2>3, <2>4, <2>5 DEF IsKept
<1>17. \A m \in DOMAIN families' : Kept(m)'
  BY <1>1, <1>12, <1>15, <1>16 DEF Kept
<1>18. \A s \in Took' : /\ recording'[s].name \in DOMAIN families'
                        /\ recording'[s].kind = families'[recording'[s].name].kind
  <2> SUFFICES ASSUME NEW s \in Took'
               PROVE  /\ recording[s].name \in DOMAIN families
                      /\ recording[s].kind = families'[recording[s].name].kind
    BY <1>1
  <2>1. \A m \in DOMAIN families : families'[m].kind = families[m].kind
    BY <1>1
  <2>2. CASE s = t
    BY <2>1, <2>2
  <2>3. CASE s # t
    <3>1. recording[s].name \in DOMAIN families
          /\ recording[s].kind = families[recording[s].name].kind
      BY <2>3 DEF RecordingsInv, RecordingsAreKept
    <3> QED BY <2>1, <3>1
  <2> QED BY <2>2, <2>3
<1>19. RecordingsInv'
  BY <1>17, <1>18 DEF RecordingsInv, RecordingsAreKept, Kept
<1> QED BY <1>11, <1>19

------------------------------------------------------------------------------
(* The steps. *)

\* A step that counts nothing and records nothing.
LEMMA QuietStep ==
  ASSUME MetricsInv, RegistryShape', families' = families, durations' = durations, routes' = routes,
         dropped' = dropped, Timed' = Timed, Routed' = Routed, Took' = Took,
         \A s \in Timed \cup Routed \cup Took : recording'[s] = recording[s]
  PROVE  MetricsInv'
<1>1. TimesInv' /\ TimesFolded' = TimesFolded
  BY TimesStay DEF MetricsInv
<1>2. RoutesInv' /\ RoutesFolded' = RoutesFolded
  BY RoutesStay DEF MetricsInv
<1>3. RecordingsInv' /\ Lost' = Lost
  BY RecordingsStay DEF MetricsInv
<1> QED BY <1>1, <1>2, <1>3 DEF MetricsInv

LEMMA RecordsStep ==
  ASSUME MetricsInv, NEW t \in Recorders, Records(t)
  PROVE  MetricsInv'
<1>1. PICK c \in MetricCalls :
        /\ recording' = [recording EXCEPT ![t] = c]
        /\ lock' = [lock EXCEPT ![t] = IF c.op = "finish" THEN "duration" ELSE c.op]
  BY DEF Records
<1> DEFINE at == IF c.op = "finish" THEN "duration" ELSE c.op
<1>2. RegistryShape /\ lock[t] = "start"
  BY DEF MetricsInv, Records
<1>3. at \in {"duration", "register", "record", "track"} /\ (at = "duration" => c.op = "finish")
      /\ (at # "duration" => c.op = at)
  BY CallsAreWellFormed
<1>4. at \in Locks \ {"start"} /\ at # "route" /\ at # "ended"
  BY <1>3 DEF Locks
<1>5. DOMAIN recording' = Recorders /\ recording'[t] = c
      /\ \A s \in Recorders \ {t} : recording'[s] = recording[s]
  BY <1>1, <1>2 DEF RegistryShape
<1>6. UNCHANGED <<families, durations, routes, queues, dropped, returned>>
  BY DEF Records
<1>7. dropped' \in Nat /\ IsFiniteSet(queues') /\ Cardinality(queues') <= Cap
      /\ DOMAIN returned' = Recorders
  BY <1>2, <1>6 DEF RegistryShape
<1>8. lock' = [lock EXCEPT ![t] = at]
  BY <1>1
<1> HIDE DEF at
<1>9. RegistryShape'
  BY <1>2, <1>3, <1>4, <1>5, <1>7, <1>8, ShapeStays
<1>10. t \notin Timed /\ t \notin Routed /\ t \notin Took
  BY <1>2 DEF Timed, Routed, Took
<1>11. Timed' = Timed /\ Routed' = Routed /\ Took' = Took
  <2>1. Timed' = Timed \ {t} /\ Routed' = Routed \ {t} /\ Took' = Took \ {t}
    BY <1>2, <1>4, <1>5, <1>6, <1>8, SetsStay
  <2> QED BY <1>10, <2>1
<1>12. \A s \in Timed \cup Routed \cup Took : recording'[s] = recording[s]
  BY <1>5, <1>10 DEF Timed, Routed, Took
<1> QED BY <1>6, <1>9, <1>11, <1>12, QuietStep

\* A call that ends: what its thread leaves, and what it joins.
LEMMA YieldsShape ==
  ASSUME RegistryShape, NEW t \in Recorders, lock[t] \notin {"start", "ended"}, NEW answer,
         Yields(t, answer),
         dropped' \in Nat, IsFiniteSet(queues'), Cardinality(queues') <= Cap
  PROVE  /\ RegistryShape'
         /\ recording' = recording /\ returned'[t] = answer
         /\ Timed' = IF recording[t].op = "finish" THEN Timed \cup {t} ELSE Timed
         /\ Routed' = IF recording[t].op = "finish" /\ Detailed THEN Routed \cup {t} ELSE Routed
         /\ Took' = IF recording[t].op = "record" /\ answer = "Ok" THEN Took \cup {t} ELSE Took
<1>1. recording' = recording /\ returned' = [returned EXCEPT ![t] = answer]
      /\ lock' = [lock EXCEPT ![t] = "ended"]
  BY DEF Yields
<1>2. DOMAIN returned' = Recorders /\ returned'[t] = answer
      /\ \A s \in Recorders \ {t} : returned'[s] = returned[s]
  BY <1>1 DEF RegistryShape
<1>3. DOMAIN recording' = Recorders /\ recording'[t] \in MetricCalls
      /\ \A s \in Recorders \ {t} : recording'[s] = recording[s]
  BY <1>1 DEF RegistryShape
<1>4. "ended" \in Locks \ {"start"} /\ "ended" \notin {"duration", "route"}
      /\ "ended" \notin {"register", "record", "track"} /\ "ended" # "route" /\ "ended" \in Locks
  BY DEF Locks
<1>5. RegistryShape'
  BY <1>1, <1>2, <1>3, <1>4, ShapeStays
<1>6. /\ Timed' = IF recording'[t].op = "finish" THEN Timed \cup {t} ELSE Timed \ {t}
      /\ Routed' = IF Detailed /\ recording'[t].op = "finish" THEN Routed \cup {t} ELSE Routed \ {t}
      /\ Took' = IF recording'[t].op = "record" /\ returned'[t] = "Ok"
                THEN Took \cup {t} ELSE Took \ {t}
  BY <1>1, <1>2, <1>3, <1>4, SetsStay
<1>7. t \notin Routed /\ t \notin Took /\ (t \in Timed => recording[t].op = "finish")
  BY DEF Timed, Routed, Took
<1> QED BY <1>1, <1>2, <1>5, <1>6, <1>7

LEMMA ObserveDurationStep ==
  ASSUME MetricsInv, NEW t \in Recorders, ObserveDuration(t)
  PROVE  MetricsInv'
<1> DEFINE k == DurationLabels(recording[t])
<1>1. /\ RegistryShape /\ lock[t] = "duration" /\ TimesInv /\ RoutesInv /\ RecordingsInv
      /\ dropped = Cardinality(TimesFolded) + Cardinality(RoutesFolded) + Cardinality(Lost)
  BY DEF MetricsInv, ObserveDuration
<1>2. /\ dropped' = IF AtCap(durations, k) THEN dropped + 1 ELSE dropped
      /\ durations' = Observe(durations, Folded(durations, k), recording[t].value)
      /\ UNCHANGED <<families, routes, queues>>
      /\ Detailed => lock' = [lock EXCEPT ![t] = "route"] /\ UNCHANGED <<recording, returned>>
      /\ ~Detailed => Yields(t, "Ok")
  BY DEF ObserveDuration, CountsDropped
<1>3. recording[t].op = "finish" /\ Detailed \in BOOLEAN
  BY <1>1, RegistryIsBounded DEF RegistryShape
<1>4. dropped' \in Nat /\ IsFiniteSet(queues') /\ Cardinality(queues') <= Cap
  <2>1. dropped \in Nat /\ IsFiniteSet(queues) /\ Cardinality(queues) <= Cap
    BY <1>1 DEF RegistryShape
  <2> QED BY <1>2, <2>1
<1>5. t \notin Timed /\ t \notin Routed /\ t \notin Took
  BY <1>1 DEF Timed, Routed, Took
<1>6. /\ RegistryShape' /\ recording' = recording /\ Timed' = Timed \cup {t}
      /\ Routed' = Routed /\ Took' = Took
  <2>1. CASE Detailed
    <3>1. lock' = [lock EXCEPT ![t] = "route"] /\ recording' = recording /\ returned' = returned
      BY <1>2, <2>1
    <3>2. "route" \in Locks \ {"start"} /\ "route" \in Locks
          /\ "route" \notin {"register", "record", "track"}
      BY DEF Locks
    <3>3. DOMAIN recording' = Recorders /\ DOMAIN returned' = Recorders
          /\ recording'[t] \in MetricCalls /\ recording'[t].op = "finish"
      BY <1>1, <1>3, <3>1 DEF RegistryShape
    <3>4. RegistryShape'
      BY <1>1, <1>4, <2>1, <3>1, <3>2, <3>3, ShapeStays
    <3>5. /\ Timed' = Timed \cup {t}
          /\ Routed' = Routed \ {t} /\ Took' = Took \ {t}
      BY <1>1, <3>1, <3>2, <3>3, SetsStay
    <3> QED BY <1>5, <3>1, <3>4, <3>5
  <2>2. CASE ~Detailed
    <3>1. Yields(t, "Ok") /\ lock[t] \notin {"start", "ended"}
      BY <1>1, <1>2, <2>2
    <3>2. /\ RegistryShape' /\ recording' = recording
          /\ Timed' = IF recording[t].op = "finish" THEN Timed \cup {t} ELSE Timed
          /\ Routed' = IF recording[t].op = "finish" /\ Detailed THEN Routed \cup {t} ELSE Routed
          /\ Took' = IF recording[t].op = "record" /\ "Ok" = "Ok" THEN Took \cup {t} ELSE Took
      BY <1>1, <1>4, <3>1, YieldsShape
    <3> QED BY <1>3, <2>2, <3>2
  <2> QED BY <2>1, <2>2
<1>7. TimesInv' /\ TimesFolded' = IF AtCap(durations, k) THEN TimesFolded \cup {t} ELSE TimesFolded
  BY <1>1, <1>2, <1>5, <1>6, TimesGrow
<1>8. RoutesInv' /\ RoutesFolded' = RoutesFolded
  BY <1>1, <1>2, <1>6, RoutesStay
<1>9. RecordingsInv' /\ Lost' = Lost
  BY <1>1, <1>2, <1>6, RecordingsStay
<1>10. dropped' = Cardinality(TimesFolded') + Cardinality(RoutesFolded') + Cardinality(Lost')
  <2>1. IsFiniteSet(TimesFolded) /\ IsFiniteSet(RoutesFolded) /\ IsFiniteSet(Lost)
    BY <1>1, CountsAreFinite
  <2>2. t \notin TimesFolded
    BY <1>5 DEF TimesFolded
  <2>3. Cardinality(TimesFolded) \in Nat /\ Cardinality(RoutesFolded) \in Nat /\ Cardinality(Lost) \in Nat
    BY <2>1, FS_CardinalityType
  <2> HIDE DEF k
  <2>4. CASE AtCap(durations, k)
    <3>1. Cardinality(TimesFolded') = Cardinality(TimesFolded) + 1
      BY <1>7, <2>1, <2>2, <2>4, OneMore
    <3> QED BY <1>1, <1>2, <1>8, <1>9, <2>3, <2>4, <3>1
  <2>5. CASE ~AtCap(durations, k)
    BY <1>1, <1>2, <1>7, <1>8, <1>9, <2>5
  <2> QED BY <2>4, <2>5
<1> QED BY <1>6, <1>7, <1>8, <1>9, <1>10 DEF MetricsInv

LEMMA CountRouteStep ==
  ASSUME MetricsInv, NEW t \in Recorders, CountRouteResponse(t)
  PROVE  MetricsInv'
<1> DEFINE k == RouteLabels(recording[t])
<1>1. /\ RegistryShape /\ lock[t] = "route" /\ TimesInv /\ RoutesInv /\ RecordingsInv
      /\ dropped = Cardinality(TimesFolded) + Cardinality(RoutesFolded) + Cardinality(Lost)
  BY DEF MetricsInv, CountRouteResponse
<1>2. /\ dropped' = IF AtCap(routes, k) THEN dropped + 1 ELSE dropped
      /\ routes' = Put(routes, Folded(routes, k), Held(routes, Folded(routes, k), 0) + 1)
      /\ UNCHANGED <<families, durations, queues>>
      /\ Yields(t, "Ok")
  BY DEF CountRouteResponse, CountsDropped
<1>3. recording[t].op = "finish" /\ Detailed
  BY <1>1 DEF RegistryShape
<1>4. dropped' \in Nat /\ IsFiniteSet(queues') /\ Cardinality(queues') <= Cap
  <2>1. dropped \in Nat /\ IsFiniteSet(queues) /\ Cardinality(queues) <= Cap
    BY <1>1 DEF RegistryShape
  <2> QED BY <1>2, <2>1
<1>5. t \in Timed /\ t \notin Routed /\ t \notin Took
  BY <1>1, <1>3 DEF Timed, Routed, Took
<1>6. /\ RegistryShape' /\ recording' = recording /\ Timed' = Timed
      /\ Routed' = Routed \cup {t} /\ Took' = Took
  <2>1. lock[t] \notin {"start", "ended"}
    BY <1>1
  <2>2. /\ RegistryShape' /\ recording' = recording
        /\ Timed' = IF recording[t].op = "finish" THEN Timed \cup {t} ELSE Timed
        /\ Routed' = IF recording[t].op = "finish" /\ Detailed THEN Routed \cup {t} ELSE Routed
        /\ Took' = IF recording[t].op = "record" /\ "Ok" = "Ok" THEN Took \cup {t} ELSE Took
    BY <1>1, <1>2, <1>4, <2>1, YieldsShape
  <2> QED BY <1>3, <1>5, <2>2
<1>7. RoutesInv' /\ RoutesFolded' = IF AtCap(routes, k) THEN RoutesFolded \cup {t} ELSE RoutesFolded
  BY <1>1, <1>2, <1>5, <1>6, RoutesGrow
<1>8. TimesInv' /\ TimesFolded' = TimesFolded
  BY <1>1, <1>2, <1>6, TimesStay
<1>9. RecordingsInv' /\ Lost' = Lost
  BY <1>1, <1>2, <1>6, RecordingsStay
<1>10. dropped' = Cardinality(TimesFolded') + Cardinality(RoutesFolded') + Cardinality(Lost')
  <2>1. IsFiniteSet(TimesFolded) /\ IsFiniteSet(RoutesFolded) /\ IsFiniteSet(Lost)
    BY <1>1, CountsAreFinite
  <2>2. t \notin RoutesFolded
    BY <1>5 DEF RoutesFolded
  <2>3. Cardinality(TimesFolded) \in Nat /\ Cardinality(RoutesFolded) \in Nat /\ Cardinality(Lost) \in Nat
    BY <2>1, FS_CardinalityType
  <2> HIDE DEF k
  <2>4. CASE AtCap(routes, k)
    <3>1. Cardinality(RoutesFolded') = Cardinality(RoutesFolded) + 1
      BY <1>7, <2>1, <2>2, <2>4, OneMore
    <3> QED BY <1>1, <1>2, <1>8, <1>9, <2>3, <2>4, <3>1
  <2>5. CASE ~AtCap(routes, k)
    BY <1>1, <1>2, <1>7, <1>8, <1>9, <2>5
  <2> QED BY <2>4, <2>5
<1> QED BY <1>6, <1>7, <1>8, <1>9, <1>10 DEF MetricsInv

LEMMA RegisterStep ==
  ASSUME MetricsInv, NEW t \in Recorders, Register(t)
  PROVE  MetricsInv'
<1> DEFINE c == recording[t]
           refused == c.name \in Reserved \cup DOMAIN families
<1>1. /\ RegistryShape /\ lock[t] = "register" /\ TimesInv /\ RoutesInv /\ RecordingsInv
      /\ dropped = Cardinality(TimesFolded) + Cardinality(RoutesFolded) + Cardinality(Lost)
  BY DEF MetricsInv, Register
<1>2. UNCHANGED <<durations, routes, queues, dropped>>
  BY DEF Register
<1>3. c.op = "register" /\ c.kind \in Kinds
  BY <1>1, CallsAreWellFormed DEF RegistryShape
<1>4. dropped' \in Nat /\ IsFiniteSet(queues') /\ Cardinality(queues') <= Cap
  BY <1>1, <1>2 DEF RegistryShape
<1>5. PICK answer : Yields(t, answer)
  BY DEF Register
<1>6. RegistryShape' /\ recording' = recording /\ Timed' = Timed /\ Routed' = Routed /\ Took' = Took
  <2>1. lock[t] \notin {"start", "ended"}
    BY <1>1
  <2>2. /\ RegistryShape' /\ recording' = recording
        /\ Timed' = IF recording[t].op = "finish" THEN Timed \cup {t} ELSE Timed
        /\ Routed' = IF recording[t].op = "finish" /\ Detailed THEN Routed \cup {t} ELSE Routed
        /\ Took' = IF recording[t].op = "record" /\ answer = "Ok" THEN Took \cup {t} ELSE Took
    BY <1>1, <1>4, <1>5, <2>1, YieldsShape
  <2> QED BY <1>3, <2>2
<1>7. CASE refused
  <2>1. families' = families
    BY <1>7 DEF Register
  <2> QED BY <1>2, <1>6, <2>1, QuietStep
<1>8. CASE ~refused
  <2>1. families' = Put(families, c.name, [kind |-> c.kind, series |-> Empty, warned |-> FALSE])
    BY <1>8 DEF Register
  <2>2. RecordingsInv' /\ Lost' = Lost
    BY <1>1, <1>3, <1>6, <1>8, <2>1, RegisterKeeps
  <2>3. TimesInv' /\ TimesFolded' = TimesFolded
    BY <1>1, <1>2, <1>6, TimesStay
  <2>4. RoutesInv' /\ RoutesFolded' = RoutesFolded
    BY <1>1, <1>2, <1>6, RoutesStay
  <2> QED BY <1>1, <1>2, <1>6, <2>2, <2>3, <2>4 DEF MetricsInv
<1> QED BY <1>7, <1>8

LEMMA RecordMetricStep ==
  ASSUME MetricsInv, NEW t \in Recorders, RecordMetric(t)
  PROVE  MetricsInv'
<1> DEFINE c == recording[t]
           n == c.name
           family == families[n]
           full == AtCap(family.series, c.labels)
           more == IF full THEN [family EXCEPT !.warned = TRUE]
                   ELSE [family EXCEPT !.series = Recorded(@, c)]
<1>1. /\ RegistryShape /\ lock[t] = "record" /\ TimesInv /\ RoutesInv /\ RecordingsInv
      /\ dropped = Cardinality(TimesFolded) + Cardinality(RoutesFolded) + Cardinality(Lost)
  BY DEF MetricsInv, RecordMetric
<1>2. UNCHANGED <<durations, routes, queues>> /\ Yields(t, RecordResult(c))
  BY DEF RecordMetric
<1>3. c.op = "record"
  BY <1>1 DEF RegistryShape
<1>4. /\ RecordResult(c) # "Ok" => families' = families /\ dropped' = dropped
      /\ RecordResult(c) = "Ok" => /\ dropped' = IF full THEN dropped + 1 ELSE dropped
                                   /\ families' = Put(families, n, more)
  BY DEF RecordMetric, CountsDropped
<1>5. dropped' \in Nat /\ IsFiniteSet(queues') /\ Cardinality(queues') <= Cap
  <2>1. dropped \in Nat /\ IsFiniteSet(queues) /\ Cardinality(queues) <= Cap
    BY <1>1 DEF RegistryShape
  <2>2. dropped' = dropped \/ dropped' = dropped + 1
    BY <1>4
  <2> QED BY <1>2, <2>1, <2>2
<1>6. t \notin Timed /\ t \notin Routed /\ t \notin Took
  BY <1>1 DEF Timed, Routed, Took
<1>7. /\ RegistryShape' /\ recording' = recording /\ Timed' = Timed /\ Routed' = Routed
      /\ Took' = IF RecordResult(c) = "Ok" THEN Took \cup {t} ELSE Took
  <2>1. lock[t] \notin {"start", "ended"}
    BY <1>1
  <2> DEFINE answer == RecordResult(c)
  <2>2. Yields(t, answer)
    BY <1>2
  <2> HIDE DEF answer
  <2>3. /\ RegistryShape' /\ recording' = recording
        /\ Timed' = IF recording[t].op = "finish" THEN Timed \cup {t} ELSE Timed
        /\ Routed' = IF recording[t].op = "finish" /\ Detailed THEN Routed \cup {t} ELSE Routed
        /\ Took' = IF recording[t].op = "record" /\ answer = "Ok" THEN Took \cup {t} ELSE Took
    BY <1>1, <1>5, <2>1, <2>2, YieldsShape
  <2> QED BY <1>3, <2>3 DEF answer
<1>8. TimesInv' /\ TimesFolded' = TimesFolded
  BY <1>1, <1>2, <1>7, TimesStay
<1>9. RoutesInv' /\ RoutesFolded' = RoutesFolded
  BY <1>1, <1>2, <1>7, RoutesStay
<1>10. CASE RecordResult(c) # "Ok"
  BY <1>2, <1>4, <1>7, <1>10, QuietStep
<1>11. CASE RecordResult(c) = "Ok"
  <2>1. n \in DOMAIN families /\ family.kind = c.kind
    BY <1>11 DEF RecordResult
  <2>2. IsFamily(family)
    BY <1>1, <2>1 DEF RecordingsInv, FamilyShape
  <2>3. families' = Put(families, n, more) /\ Took' = Took \cup {t}
    BY <1>4, <1>7, <1>11
  <2>4. /\ IsFamily(more) /\ more.kind = c.kind
        /\ full => more.series = family.series /\ more.warned = TRUE
        /\ ~full => more.series = Recorded(family.series, c) /\ more.warned = family.warned
    <3> HIDE DEF family, full, c
    <3>1. CASE full
      <4>1. more = [family EXCEPT !.warned = TRUE]
        BY <3>1
      <4> HIDE DEF more
      <4> QED BY ZenonT(40), <2>1, <2>2, <3>1, <4>1, FamilyExcept
    <3>2. CASE ~full
      <4> DEFINE grown == Recorded(family.series, c)
      <4>1. more = [family EXCEPT !.series = grown]
        BY <3>2
      <4> HIDE DEF more, grown
      <4>2. IsFamily(more) /\ more.kind = family.kind
            /\ more.series = grown /\ more.warned = family.warned
        BY <2>2, <4>1, FamilyExcept
      <4> QED BY <2>1, <3>2, <4>2 DEF grown
    <3> QED BY <3>1, <3>2
  <2> HIDE DEF more
  <2>5. RecordingsInv' /\ Lost' = IF full THEN Lost \cup {t} ELSE Lost
    BY <1>1, <1>6, <1>7, <2>1, <2>3, <2>4, RecordKeeps
  <2>6. dropped' = Cardinality(TimesFolded') + Cardinality(RoutesFolded') + Cardinality(Lost')
    <3>1. IsFiniteSet(TimesFolded) /\ IsFiniteSet(RoutesFolded) /\ IsFiniteSet(Lost)
      BY <1>1, CountsAreFinite
    <3>2. t \notin Lost
      BY <1>6 DEF Lost
    <3>3. Cardinality(TimesFolded) \in Nat /\ Cardinality(RoutesFolded) \in Nat
          /\ Cardinality(Lost) \in Nat
      BY <3>1, FS_CardinalityType
    <3> HIDE DEF full
    <3>4. CASE full
      <4>1. Cardinality(Lost') = Cardinality(Lost) + 1
        BY <2>5, <3>1, <3>2, <3>4, OneMore
      <4>2. dropped' = dropped + 1
        BY <1>4, <1>11, <3>4
      <4> QED BY <1>1, <1>8, <1>9, <3>3, <4>1, <4>2
    <3>5. CASE ~full
      BY <1>1, <1>4, <1>8, <1>9, <1>11, <2>5, <3>5
    <3> QED BY <3>4, <3>5
  <2> QED BY <1>7, <1>8, <1>9, <2>5, <2>6 DEF MetricsInv
<1> QED BY <1>10, <1>11

LEMMA TrackStep ==
  ASSUME MetricsInv, NEW t \in Recorders, TrackQueueDepth(t)
  PROVE  MetricsInv'
<1>1. RegistryShape /\ lock[t] = "track"
  BY DEF MetricsInv, TrackQueueDepth
<1>2. UNCHANGED <<families, durations, routes, dropped>>
  BY DEF TrackQueueDepth
<1>3. PICK answer : Yields(t, answer)
  BY DEF TrackQueueDepth
<1>4. IsFiniteSet(queues') /\ Cardinality(queues') <= Cap
  <2> DEFINE q == recording[t].queue
  <2>1. IsFiniteSet(queues) /\ Cardinality(queues) <= Cap /\ Cardinality(queues) \in Nat /\ Cap \in Nat
    BY <1>1, FS_CardinalityType, RegistryIsBounded DEF RegistryShape
  <2>2. CASE queues' = queues
    BY <2>1, <2>2
  <2>3. CASE queues' = queues \cup {q} /\ q \notin queues /\ ~(Cardinality(queues) >= Cap)
    <3> HIDE DEF q
    <3>1. IsFiniteSet(queues') /\ Cardinality(queues') = Cardinality(queues) + 1
      BY <2>1, <2>3, OneMore
    <3> QED BY <2>1, <2>3, <3>1
  <2> QED BY <2>2, <2>3 DEF TrackQueueDepth
<1>5. dropped' \in Nat
  BY <1>1, <1>2 DEF RegistryShape
<1>6. recording[t].op = "track"
  BY <1>1 DEF RegistryShape
<1>7. RegistryShape' /\ recording' = recording /\ Timed' = Timed /\ Routed' = Routed /\ Took' = Took
  <2>1. lock[t] \notin {"start", "ended"}
    BY <1>1
  <2>2. /\ RegistryShape' /\ recording' = recording
        /\ Timed' = IF recording[t].op = "finish" THEN Timed \cup {t} ELSE Timed
        /\ Routed' = IF recording[t].op = "finish" /\ Detailed THEN Routed \cup {t} ELSE Routed
        /\ Took' = IF recording[t].op = "record" /\ answer = "Ok" THEN Took \cup {t} ELSE Took
    BY <1>1, <1>3, <1>4, <1>5, <2>1, YieldsShape
  <2> QED BY <1>6, <2>2
<1> QED BY <1>2, <1>7, QuietStep

\* Whatever the interleaving of the threads that record, every request and every
\* recording that ended is in the series it belongs to, under the cap, and what
\* was folded or lost is counted as dropped.
THEOREM NothingGetsMiscounted == MetricsSpec => []NothingIsMiscounted
<1>1. MetricsInit => MetricsInv
  BY MetricsStart
<1>2. MetricsInv /\ [MetricsNext]_metricsVars => MetricsInv'
  <2> SUFFICES ASSUME MetricsInv, [MetricsNext]_metricsVars PROVE MetricsInv'
    OBVIOUS
  <2>1. CASE UNCHANGED metricsVars
    <3>1. UNCHANGED <<families, durations, routes, queues, dropped, recording, lock, returned>>
      BY <2>1 DEF metricsVars
    <3>2. Timed' = Timed /\ Routed' = Routed /\ Took' = Took /\ Began' = Began
      BY <3>1 DEF Timed, Routed, Took, Began
    <3>3. RegistryShape'
      BY <3>1, <3>2 DEF MetricsInv, RegistryShape
    <3> QED BY <3>1, <3>2, <3>3, QuietStep
  <2>2. ASSUME NEW t \in Recorders, Records(t) PROVE MetricsInv'
    BY <2>2, RecordsStep
  <2>3. ASSUME NEW t \in Recorders, ObserveDuration(t) PROVE MetricsInv'
    BY <2>3, ObserveDurationStep
  <2>4. ASSUME NEW t \in Recorders, CountRouteResponse(t) PROVE MetricsInv'
    BY <2>4, CountRouteStep
  <2>5. ASSUME NEW t \in Recorders, Register(t) PROVE MetricsInv'
    BY <2>5, RegisterStep
  <2>6. ASSUME NEW t \in Recorders, RecordMetric(t) PROVE MetricsInv'
    BY <2>6, RecordMetricStep
  <2>7. ASSUME NEW t \in Recorders, TrackQueueDepth(t) PROVE MetricsInv'
    BY <2>7, TrackStep
  <2> QED BY <2>1, <2>2, <2>3, <2>4, <2>5, <2>6, <2>7 DEF MetricsNext
<1>3. MetricsInv => NothingIsMiscounted
  BY MetricsPromise
<1> QED BY <1>1, <1>2, <1>3, PTL DEF MetricsSpec

(***************************************************************************)
(*                            The blocking call                            *)
(***************************************************************************)

\* Past its registration with the token in the current poll.
Registered(t) == tpc[t] \in {"asleep", "lookup", "create", "submit", "future"}

\* A registered task nobody scheduled has its latest waker in the token's list,
\* and a cancelled token has a canceller on its way to drain that list.
TokenWillWake(t) ==
  Registered(t) /\ ~woken[t] =>
    /\ <<t, mine[t]>> \in waiting
    /\ cancelled => \E k \in Cancellers : kpc[k] = "drain"

\* A sleeping task's waker is in its job's slot or in the worker's hands.
JobWillWake(t) ==
  tpc[t] = "asleep" /\ ~woken[t] =>
    /\ job[t] = "queued" => slot[t] = mine[t]
    /\ job[t] \in {"wake", "done"} => job[t] = "wake" /\ taken[t] = mine[t]

\* The job's stage against its task's, and where its result is.
JobStage(t) ==
  /\ tpc[t] \in {"lookup", "create", "submit"} => job[t] = "none"
  /\ tpc[t] = "future" => job[t] # "none"
  /\ outcome[t] # None => tpc[t] = "ended"
  /\ job[t] \in {"none", "queued"} => result[t] = None /\ outcome[t] \notin Results
  /\ job[t] \in {"wake", "done"} => (result[t] = None <=> outcome[t] \in Results)

\* A task in its poll was polled with a waker.
HasWaker(t) == tpc[t] # "asleep" => mine[t] \in Wakers

Awaited(t) == TokenWillWake(t) /\ JobWillWake(t) /\ JobStage(t)

Typed == TypeOK /\ \A t \in Tasks : HasWaker(t)
IInv == Typed /\ \A t \in Tasks : Awaited(t)

\* What an action of task t, its job, a canceller or the installer is.
TaskStep(t) == Poll(t) \/ OtherWake(t) \/ Completes(t) \/ WakesCaller(t)
Step == (\E k \in Cancellers : Cancel(k)) \/ (\E t \in Tasks : TaskStep(t)) \/ Installs

USE DEF tokenVars, jobVars, taskVars, poolVars

------------------------------------------------------------------------------
(* Type correctness *)

\* Waking keeps the schedule a function of the tasks, and only adds to it.
LEMMA WakeOnlyAdds ==
  ASSUME TypeOK, NEW pairs, Wake(pairs)
  PROVE  /\ woken' \in [Tasks -> BOOLEAN]
         /\ \A t \in Tasks : ~woken'[t] => ~woken[t] /\ <<t, mine[t]>> \notin pairs
BY DEF Wake, TypeOK

\* Every step keeps the types.
LEMMA TypeStep == ASSUME Typed, Step PROVE TypeOK'
<1> USE DEF Typed
<1>1. ASSUME NEW k \in Cancellers, Cancel(k) PROVE TypeOK'
  <2>1. CASE CancelSwaps(k)
    BY <2>1 DEF CancelSwaps, TypeOK
  <2>2. CASE CancelDrains(k)
    <3>1. woken' \in [Tasks -> BOOLEAN]
      BY <2>2, WakeOnlyAdds DEF CancelDrains
    <3> QED BY <2>2, <3>1 DEF CancelDrains, TypeOK
  <2> QED BY <1>1, <2>1, <2>2 DEF Cancel
<1>2. CASE Installs
  BY <1>2 DEF Installs, SetsPool, TypeOK
<1>3. ASSUME NEW t \in Tasks, Poll(t) PROVE TypeOK'
  <2>1. CASE PollStarts(t)
    <3>1. woken' \in [Tasks -> BOOLEAN]
      BY <2>1 DEF PollStarts, TypeOK
    <3>2. mine' \in [Tasks -> Wakers \cup {None}]
      BY <2>1 DEF PollStarts, TypeOK
    <3>3. tpc' \in [Tasks -> {"asleep", "signal", "register", "lookup", "create",
                             "submit", "future", "ended"}]
      BY <2>1 DEF PollStarts, At, TypeOK
    <3> QED BY <2>1, <3>1, <3>2, <3>3 DEF PollStarts, TypeOK
  <2>2. CASE SeesCancelled(t) \/ NotCancelled(t)
    BY <2>2 DEF SeesCancelled, NotCancelled, Ends, At, TypeOK
  <2>3. CASE Registers(t)
    <3>1. mine[t] \in Wakers /\ <<t, mine[t]>> \in Tasks \X Wakers
      BY <2>3 DEF Registers, At, HasWaker
    <3>2. waiting' \subseteq Tasks \X Wakers
      BY <2>3, <3>1 DEF Registers, TypeOK
    <3> QED BY <2>3, <3>2 DEF Registers, At, TypeOK
  <2>4. CASE FindsPool(t) \/ CreatesPool(t)
    BY <2>4 DEF FindsPool, CreatesPool, SetsPool, At, TypeOK
  <2>5. CASE Submits(t)
    BY <2>5 DEF Submits, At, TypeOK
  <2>8. CASE Refuses(t)
    <3>1. result' \in [Tasks -> Results \cup {None}]
      BY <2>8 DEF Refuses, TypeOK, Results
    <3> QED BY <2>8, <3>1 DEF Refuses, At, TypeOK
  <2>6. CASE TakesResult(t)
    <3>1. result[t] \in Results
      BY <2>6 DEF TakesResult, TypeOK
    <3> QED BY <2>6, <3>1 DEF TakesResult, Ends, At, TypeOK
  <2>7. CASE StaysPending(t)
    <3>1. mine[t] \in Wakers
      BY <2>7 DEF StaysPending, At, HasWaker
    <3> QED BY <2>7, <3>1 DEF StaysPending, At, TypeOK
  <2> QED BY <1>3, <2>1, <2>2, <2>3, <2>4, <2>5, <2>6, <2>7, <2>8 DEF Poll
<1>4. ASSUME NEW t \in Tasks, OtherWake(t) PROVE TypeOK'
  <2>1. woken' \in [Tasks -> BOOLEAN]
    BY <1>4 DEF OtherWake, TypeOK
  <2> QED BY <1>4, <2>1 DEF OtherWake, TypeOK
<1>6. ASSUME NEW t \in Tasks, Completes(t) PROVE TypeOK'
  <2>1. slot[t] \in Wakers \cup {None}
    BY DEF TypeOK
  <2>2. result' \in [Tasks -> Results \cup {None}]
    BY <1>6 DEF Completes, TypeOK, Results
  <2> QED BY <1>6, <2>1, <2>2 DEF Completes, TypeOK
<1>5. ASSUME NEW t \in Tasks, WakesCaller(t) PROVE TypeOK'
  <2>1. woken' \in [Tasks -> BOOLEAN]
    BY <1>5, WakeOnlyAdds DEF WakesCaller
  <2> QED BY <1>5, <2>1 DEF WakesCaller, TypeOK
<1> QED BY <1>1, <1>2, <1>3, <1>4, <1>5, <1>6 DEF Step, TaskStep

\* A task is polled with a waker, which stays its latest until it sleeps again.
LEMMA WakerStep ==
  ASSUME Typed, Step, NEW u \in Tasks
  PROVE  HasWaker(u)'
<1> USE DEF Typed, HasWaker
<1>1. ASSUME NEW k \in Cancellers, Cancel(k) PROVE HasWaker(u)'
  BY <1>1 DEF Cancel, CancelSwaps, CancelDrains
<1>2. CASE Installs
  BY <1>2 DEF Installs
<1>3. ASSUME NEW t \in Tasks, PollStarts(t) PROVE HasWaker(u)'
  BY <1>3 DEF PollStarts, At, TypeOK
<1>4. ASSUME NEW t \in Tasks, Poll(t), ~PollStarts(t) PROVE HasWaker(u)'
  <2>1. mine' = mine /\ tpc[t] # "asleep" /\ \A v \in Tasks \ {t} : tpc'[v] = tpc[v]
    BY <1>4 DEF Poll, SeesCancelled, NotCancelled, Registers, FindsPool, CreatesPool,
       Submits, Refuses, TakesResult, StaysPending, Ends, At, TypeOK
  <2> QED BY <2>1
<1>5. ASSUME NEW t \in Tasks, OtherWake(t) \/ Completes(t) \/ WakesCaller(t)
      PROVE HasWaker(u)'
  BY <1>5 DEF OtherWake, Completes, WakesCaller
<1> QED BY <1>1, <1>2, <1>3, <1>4, <1>5 DEF Step, TaskStep

------------------------------------------------------------------------------
(* The wakeups *)

\* The token's promise: a waker enters the list under the lock that the drain
\* takes, after the flag was read again, so no cancellation misses it.
LEMMA TokenStep ==
  ASSUME IInv, Step, NEW u \in Tasks
  PROVE  TokenWillWake(u)'
<1> USE DEF IInv, Typed, Awaited, TokenWillWake, Registered
<1>0. TypeOK /\ TokenWillWake(u)
  OBVIOUS
<1>1. ASSUME NEW k \in Cancellers, CancelSwaps(k) PROVE TokenWillWake(u)'
  <2>1. UNCHANGED <<tpc, woken, mine, waiting>>
    BY <1>1 DEF CancelSwaps
  <2>2. ASSUME Registered(u), ~woken[u] PROVE \E c \in Cancellers : kpc'[c] = "drain"
    <3>1. CASE cancelled
      BY <1>0, <1>1, <2>2, <3>1 DEF CancelSwaps, TypeOK
    <3>2. CASE ~cancelled
      BY <1>0, <1>1, <3>2 DEF CancelSwaps, TypeOK
    <3> QED BY <3>1, <3>2
  <2> QED BY <1>0, <2>1, <2>2
<1>2. ASSUME NEW k \in Cancellers, CancelDrains(k) PROVE TokenWillWake(u)'
  <2>1. UNCHANGED <<tpc, mine>> /\ (~woken'[u] => ~woken[u] /\ <<u, mine[u]>> \notin waiting)
    BY <1>0, <1>2, WakeOnlyAdds DEF CancelDrains
  <2> QED BY <1>0, <2>1
<1>3. CASE Installs
  BY <1>0, <1>3 DEF Installs
<1>4. ASSUME NEW t \in Tasks, Registers(t) PROVE TokenWillWake(u)'
  BY <1>0, <1>4 DEF Registers, At, TypeOK
<1>5. ASSUME NEW t \in Tasks, Poll(t), ~Registers(t), t = u PROVE TokenWillWake(u)'
  <2>1. \/ tpc'[t] \in {"signal", "register", "ended"}
        \/ Registered(t) /\ UNCHANGED <<mine, woken>>
    BY <1>0, <1>5 DEF Poll, PollStarts, SeesCancelled, NotCancelled, FindsPool,
       CreatesPool, Submits, Refuses, TakesResult, StaysPending, Ends, At, TypeOK
  <2>2. UNCHANGED tokenVars
    BY <1>5 DEF Poll, PollStarts, SeesCancelled, NotCancelled, FindsPool,
       CreatesPool, Submits, Refuses, TakesResult, StaysPending, Ends
  <2> QED BY <1>0, <1>5, <2>1, <2>2
<1>6. ASSUME NEW t \in Tasks, Poll(t), ~Registers(t), t # u PROVE TokenWillWake(u)'
  <2>1. UNCHANGED <<tpc[u], mine[u], woken[u]>>
    BY ZenonT(40), <1>0, <1>6 DEF Poll, PollStarts, SeesCancelled, NotCancelled, FindsPool,
       CreatesPool, Submits, Refuses, TakesResult, StaysPending, Ends, At, TypeOK
  <2>2. UNCHANGED tokenVars
    BY <1>6 DEF Poll, PollStarts, SeesCancelled, NotCancelled, FindsPool,
       CreatesPool, Submits, Refuses, TakesResult, StaysPending, Ends
  <2> QED BY <1>0, <2>1, <2>2
<1>7. ASSUME NEW t \in Tasks, OtherWake(t) \/ Completes(t) \/ WakesCaller(t)
      PROVE  TokenWillWake(u)'
  <2>1. UNCHANGED <<tpc, mine, tokenVars>>
    BY <1>7 DEF OtherWake, Completes, WakesCaller
  <2>2. ~woken'[u] => ~woken[u]
    <3>1. CASE WakesCaller(t)
      BY <1>0, <3>1, WakeOnlyAdds DEF WakesCaller
    <3>2. CASE OtherWake(t) \/ Completes(t)
      BY <1>0, <3>2 DEF OtherWake, Completes, TypeOK
    <3> QED BY <1>7, <3>1, <3>2
  <2> QED BY <1>0, <2>1, <2>2
<1> QED BY <1>1, <1>2, <1>3, <1>4, <1>5, <1>6, <1>7 DEF Step, TaskStep, Cancel

\* The job's stage, its result and its task's stage agree.
LEMMA StageStep ==
  ASSUME IInv, Step, NEW u \in Tasks
  PROVE  JobStage(u)'
<1> USE DEF JobStage, Results
<1>0. TypeOK /\ JobStage(u)
  BY DEF IInv, Typed, Awaited
<1>1. ASSUME NEW k \in Cancellers, Cancel(k) PROVE JobStage(u)'
  BY <1>0, <1>1 DEF Cancel, CancelSwaps, CancelDrains
<1>2. CASE Installs
  BY <1>0, <1>2 DEF Installs
<1>3. ASSUME NEW t \in Tasks, t # u, TaskStep(t) PROVE JobStage(u)'
  <2>1. UNCHANGED <<tpc[u], outcome[u]>>
    BY ZenonT(40), <1>0, <1>3 DEF TaskStep, Poll, PollStarts, SeesCancelled, NotCancelled,
       Registers, FindsPool, CreatesPool, Submits, Refuses, TakesResult, StaysPending,
       Ends, At, OtherWake, Completes, WakesCaller, TypeOK
  <2>2. UNCHANGED <<job[u], result[u]>>
    BY <1>0, <1>3 DEF TaskStep, Poll, PollStarts, SeesCancelled, NotCancelled,
       Registers, FindsPool, CreatesPool, Submits, Refuses, TakesResult, StaysPending,
       Ends, At, OtherWake, Completes, WakesCaller, TypeOK
  <2> QED BY <1>0, <2>1, <2>2
<1>4. CASE PollStarts(u)
  BY <1>0, <1>4 DEF PollStarts, At, TypeOK
<1>5. CASE SeesCancelled(u) \/ NotCancelled(u) \/ Registers(u)
  BY ZenonT(40), <1>0, <1>5, NoneAssumption
  DEF SeesCancelled, NotCancelled, Registers, Ends, At, TypeOK
<1>6. CASE FindsPool(u) \/ CreatesPool(u) \/ Submits(u) \/ Refuses(u)
  BY ZenonT(40), <1>0, <1>6, NoneAssumption
  DEF FindsPool, CreatesPool, Submits, Refuses, At, TypeOK
<1>7. CASE TakesResult(u) \/ StaysPending(u)
  BY <1>0, <1>7, NoneAssumption DEF TakesResult, StaysPending, Ends, At, TypeOK
<1>8. CASE OtherWake(u) \/ Completes(u) \/ WakesCaller(u)
  BY <1>0, <1>8, NoneAssumption DEF OtherWake, Completes, WakesCaller, TypeOK
<1> QED BY <1>1, <1>2, <1>3, <1>4, <1>5, <1>6, <1>7, <1>8 DEF Step, TaskStep, Poll

\* The job's promise: the task's latest waker is in the slot until the worker
\* takes it out together with publishing the result.
LEMMA JobStep ==
  ASSUME IInv, Step, NEW u \in Tasks
  PROVE  JobWillWake(u)'
<1> USE DEF JobWillWake
<1>0. TypeOK /\ JobWillWake(u) /\ JobStage(u) /\ TokenWillWake(u)
  BY DEF IInv, Typed, Awaited
<1>1. ASSUME NEW k \in Cancellers, Cancel(k) PROVE JobWillWake(u)'
  <2>1. UNCHANGED <<tpc, mine, jobVars>>
    BY <1>1 DEF Cancel, CancelSwaps, CancelDrains
  <2>2. ~woken'[u] => ~woken[u]
    BY <1>0, <1>1, WakeOnlyAdds DEF Cancel, CancelSwaps, CancelDrains
  <2> QED BY <1>0, <2>1, <2>2
<1>2. CASE Installs
  BY <1>0, <1>2 DEF Installs
<1>3. ASSUME NEW t \in Tasks, t # u, TaskStep(t) PROVE JobWillWake(u)'
  <2>1. UNCHANGED <<tpc[u], mine[u], job[u], slot[u], taken[u]>>
    BY ZenonT(40), <1>0, <1>3 DEF TaskStep, Poll, PollStarts, SeesCancelled, NotCancelled,
       Registers, FindsPool, CreatesPool, Submits, Refuses, TakesResult, StaysPending,
       Ends, At, OtherWake, Completes, WakesCaller, TypeOK
  <2>2. ~woken'[u] => ~woken[u]
    <3>1. CASE WakesCaller(t)
      BY <1>0, <3>1, WakeOnlyAdds DEF WakesCaller
    <3>2. CASE Poll(t) \/ OtherWake(t) \/ Completes(t)
      BY <1>0, <1>3, <3>2 DEF Poll, PollStarts, SeesCancelled, NotCancelled, Registers,
         FindsPool, CreatesPool, Submits, Refuses, TakesResult, StaysPending, Ends,
         OtherWake, Completes, TypeOK
    <3> QED BY <1>3, <3>1, <3>2 DEF TaskStep
  <2> QED BY <1>0, <2>1, <2>2
<1>4. ASSUME Poll(u), ~StaysPending(u) PROVE JobWillWake(u)'
  <2>1. tpc'[u] # "asleep"
    BY <1>0, <1>4 DEF Poll, PollStarts, SeesCancelled, NotCancelled, Registers,
       FindsPool, CreatesPool, Submits, Refuses, TakesResult, Ends, At, TypeOK
  <2> QED BY <2>1
<1>5. CASE StaysPending(u)
  <2>1. outcome[u] = None /\ None \notin Results
    BY <1>0, <1>5, NoneAssumption DEF JobStage, StaysPending, At
  <2>2. job[u] = "queued"
    BY <1>0, <1>5, <2>1 DEF JobStage, StaysPending, At, TypeOK
  <2> QED BY <1>0, <1>5, <2>2 DEF StaysPending, TypeOK
<1>6. CASE OtherWake(u)
  BY <1>0, <1>6 DEF OtherWake, TypeOK
<1>7. CASE Completes(u)
  BY <1>0, <1>7 DEF Completes, TypeOK
<1>8. CASE WakesCaller(u)
  <2>1. /\ UNCHANGED <<tpc, mine>> /\ job[u] = "wake"
        /\ ~woken'[u] => ~woken[u] /\ <<u, mine[u]>> \notin {<<u, taken[u]>>} \ {<<u, None>>}
    BY <1>0, <1>8, WakeOnlyAdds DEF WakesCaller
  <2>2. ASSUME tpc[u] = "asleep", ~woken'[u] PROVE FALSE
    <3>1. mine[u] \in Wakers
      BY <1>0, <2>1, <2>2 DEF TokenWillWake, Registered, TypeOK
    <3>2. mine[u] = taken[u] /\ mine[u] # None
      BY <1>0, <2>1, <2>2, <3>1, NoneAssumption
    <3> QED BY <2>1, <2>2, <3>2
  <2> QED BY <2>1, <2>2
<1> QED BY <1>1, <1>2, <1>3, <1>4, <1>5, <1>6, <1>7, <1>8 DEF Step, TaskStep

------------------------------------------------------------------------------
(* The theorems *)

\* The inductive invariant holds before the first poll.
LEMMA InitIInv == Init => IInv
<1> SUFFICES ASSUME Init PROVE IInv
  OBVIOUS
<1>1. woken \in [Tasks -> BOOLEAN] /\ \A t \in Tasks : woken[t] /\ tpc[t] = "asleep"
  BY DEF Init
<1>2. TypeOK
  BY <1>1 DEF Init, TypeOK
<1>3. ASSUME NEW t \in Tasks PROVE HasWaker(t) /\ TokenWillWake(t) /\ JobWillWake(t)
  BY <1>1 DEF HasWaker, TokenWillWake, JobWillWake
<1>4. ASSUME NEW t \in Tasks PROVE JobStage(t)
  BY NoneAssumption DEF Init, JobStage
<1> QED BY <1>2, <1>3, <1>4 DEF IInv, Typed, Awaited

\* The inductive invariant is inductive.
LEMMA StepIInv == IInv /\ [Next]_vars => IInv'
<1> SUFFICES ASSUME IInv, [Next]_vars PROVE IInv'
  OBVIOUS
<1>1. CASE Next
  <2>1. Step
    BY <1>1 DEF Next, Step, TaskStep
  <2>2. TypeOK'
    BY <2>1, TypeStep DEF IInv
  <2>3. \A u \in Tasks : HasWaker(u)'
    BY <2>1, WakerStep DEF IInv
  <2>4. \A u \in Tasks : Awaited(u)'
    BY <2>1, TokenStep, JobStep, StageStep DEF Awaited
  <2> QED BY <2>2, <2>3, <2>4 DEF IInv, Typed
<1>2. CASE UNCHANGED vars
  BY <1>2 DEF vars, IInv, Typed, TypeOK, HasWaker, Awaited, TokenWillWake, Registered,
     JobWillWake, JobStage
<1> QED BY <1>1, <1>2

\* The inductive invariant holds in every behaviour.
LEMMA AlwaysIInv == Spec => []IInv
BY InitIInv, StepIInv, PTL DEF Spec

\* Every variable keeps its type.
THEOREM TypeCorrect == Spec => []TypeOK
<1>1. IInv => TypeOK
  BY DEF IInv, Typed
<1> QED BY <1>1, AlwaysIInv, PTL

\* Whatever the wakers of successive polls, a task that sleeps unscheduled is
\* still going to be woken by a cancellation that has begun and by a job that
\* has finished (Cancelled::poll, BlockingFuture::poll, complete_blocking).
THEOREM NoWakeupIsLost == Spec => []NoLostWakeup
<1>1. IInv => NoLostWakeup
  BY DEF IInv, Awaited, TokenWillWake, Registered, JobWillWake, NoLostWakeup
<1> QED BY <1>1, AlwaysIInv, PTL

\* The result of a finished job is handed out exactly once, or still there.
THEOREM ResultsAreDelivered == Spec => []ResultIsDelivered
<1>1. ASSUME IInv PROVE ResultIsDelivered
  <2>1. SUFFICES ASSUME NEW t \in Tasks
                 PROVE  /\ job[t] \in {"wake", "done"} =>
                             (result[t] = None <=> outcome[t] \in Results)
                        /\ outcome[t] \in Results => job[t] \in {"wake", "done"}
    BY DEF ResultIsDelivered
  <2>2. JobStage(t) /\ job[t] \in {"none", "queued", "wake", "done"}
    BY <1>1 DEF IInv, Typed, TypeOK, Awaited
  <2> QED BY <2>2 DEF JobStage
<1>2. IInv => ResultIsDelivered
  BY <1>1
<1> QED BY <1>2, AlwaysIInv, PTL

\* Tasks that race to create the global pool, and install_global_blocking_pool,
\* agree on one: no job goes to a pool that lost the race.
THEOREM PoolIsUnique == Spec => []OnePool
<1>1. Init => OnePool
  BY DEF Init, OnePool
<1>2. IInv /\ OnePool /\ [Next]_vars => OnePool'
  <2> SUFFICES ASSUME IInv, OnePool, [Next]_vars PROVE OnePool'
    OBVIOUS
  <2>0. TypeOK
    BY DEF IInv, Typed
  <2>1. CASE Installs \/ UNCHANGED vars
    BY <2>1 DEF Installs, SetsPool, OnePool, vars
  <2>2. ASSUME NEW k \in Cancellers, Cancel(k) PROVE OnePool'
    BY <2>2 DEF Cancel, CancelSwaps, CancelDrains, OnePool
  <2>3. ASSUME NEW t \in Tasks, Submits(t) PROVE OnePool'
    BY <2>0, <2>3 DEF Submits, OnePool, TypeOK
  <2>4. ASSUME NEW t \in Tasks, CreatesPool(t) PROVE OnePool'
    BY <2>4 DEF CreatesPool, SetsPool, OnePool
  <2>5. ASSUME NEW t \in Tasks, TaskStep(t), ~Submits(t), ~CreatesPool(t)
        PROVE  OnePool'
    <3>1. UNCHANGED poolVars
      BY <2>5 DEF TaskStep, Poll, PollStarts, SeesCancelled, NotCancelled, Registers,
         FindsPool, Refuses, TakesResult, StaysPending, Ends, OtherWake, Completes,
         WakesCaller
    <3> QED BY <3>1 DEF OnePool
  <2> QED BY <2>1, <2>2, <2>3, <2>4, <2>5 DEF Next, TaskStep
<1> QED BY <1>1, <1>2, AlwaysIInv, PTL DEF Spec

\* A job goes to the one pool that stays, and whoever ends its await, a
\* cancellation or the job, the task is woken for it and learns of it.
THEOREM AwaitsAreSound == Spec => []AwaitIsSound
BY NoWakeupIsLost, ResultsAreDelivered, PoolIsUnique, PTL DEF AwaitIsSound

(***************************************************************************)
(*                              The layers                                 *)
(***************************************************************************)

\* A set that has zero, and with a number below a bound the next one, has all
\* of them up to the bound.
LEMMA Climbs ==
  ASSUME NEW S, NEW N \in Nat, 0 \in S, \A n \in 0 .. N : n \in S /\ n < N => n + 1 \in S
  PROVE  \A n \in 0 .. N : n \in S
<1> SUFFICES ASSUME NEW k \in 0 .. N, k \notin S PROVE FALSE OBVIOUS
<1> DEFINE Missing == {n \in 0 .. N : n \notin S}
<1>1. Missing \in SUBSET Nat /\ Missing # {} OBVIOUS
<1>2. PICK n \in Missing : \A m \in Missing : n <= m BY <1>1, LeastOne
<1>3. n # 0 /\ n \in Nat /\ n - 1 \in 0 .. N BY <1>2
<1>4. n - 1 \in S BY <1>2, <1>3
<1>5. n - 1 + 1 \in S BY <1>3, <1>4, <1>2
<1> QED BY <1>2, <1>3, <1>5

-------------------------------------------------------------------------------
\* f is what the loop of trusted_client_ip has after each of the last n hops.
Follows(f, l, peer, hops, n) ==
  /\ DOMAIN f = 0 .. n /\ f[0] = peer
  /\ \A i \in 1 .. n :
       f[i] = IF Trusts(l, f[i - 1]) THEN hops[Len(hops) - i + 1] ELSE f[i - 1]

LEMMA LoopRuns ==
  ASSUME NEW l, NEW peer, NEW hops, Len(hops) \in Nat
  PROVE  \E f : Follows(f, l, peer, hops, Len(hops)) /\ f = [i \in 0 .. Len(hops) |-> f[i]]
<1> DEFINE N == Len(hops)
           Run(f, n) == Follows(f, l, peer, hops, n)
           S == {n \in Nat : \E f : Run(f, n)}
<1>1. 0 \in S
  <2>1. Run([i \in 0 .. 0 |-> peer], 0) BY DEF Follows
  <2> QED BY <2>1
<1>2. ASSUME NEW n \in 0 .. N, n \in S PROVE n + 1 \in S
  <2>1. PICK g : Run(g, n) BY <1>2
  <2> DEFINE next == IF Trusts(l, g[n]) THEN hops[N - (n + 1) + 1] ELSE g[n]
             f == [i \in 0 .. n + 1 |-> IF i = n + 1 THEN next ELSE g[i]]
  <2>2. n \in Nat OBVIOUS
  <2>3. DOMAIN f = 0 .. n + 1 /\ f[n + 1] = next /\ \A i \in 0 .. n : f[i] = g[i]
    BY <2>2
  <2>4. f[0] = peer BY <2>1, <2>3, <2>2 DEF Follows
  <2>5. ASSUME NEW i \in 1 .. n + 1
        PROVE  f[i] = IF Trusts(l, f[i - 1]) THEN hops[N - i + 1] ELSE f[i - 1]
    <3> HIDE DEF f
    <3>1. CASE i = n + 1 BY <2>2, <2>3, <3>1
    <3>2. CASE i \in 1 .. n
      <4>1. i - 1 \in 0 .. n /\ i \in 0 .. n BY <2>2, <3>2
      <4> QED BY <2>1, <2>3, <3>2, <4>1 DEF Follows
    <3> QED BY <2>2, <3>1, <3>2
  <2> HIDE DEF f
  <2>6. Run(f, n + 1) BY <2>3, <2>4, <2>5 DEF Follows
  <2> QED BY <2>2, <2>6
<1>3. N \in S
  <2> HIDE DEF S, N
  <2>1. N \in Nat BY DEF N
  <2>2. \A n \in 0 .. N : n \in S BY <1>1, <1>2, <2>1, Climbs
  <2> QED BY <2>1, <2>2
<1>4. PICK f : Run(f, N) BY <1>3
<1> DEFINE g == [i \in 0 .. N |-> f[i]]
<1>5. Run(g, N) BY <1>4 DEF Follows
<1>6. g = [i \in 0 .. Len(hops) |-> g[i]] OBVIOUS
<1> QED BY <1>5, <1>6

LEMMA ClientIsLast ==
  ASSUME NEW l, NEW peer, NEW hops, Len(hops) \in Nat
  PROVE  \E f : /\ Follows(f, l, peer, hops, Len(hops))
                /\ TrustedClient(l, peer, hops) = f[Len(hops)]
<1> DEFINE N == Len(hops)
           F(f) == [i \in 0 .. Len(hops) |->
                      IF i = 0 THEN peer
                      ELSE IF Trusts(l, f[i - 1]) THEN hops[Len(hops) - i + 1]
                      ELSE f[i - 1]]
           current == CHOOSE f : f = F(f)
<1>1. PICK f : Follows(f, l, peer, hops, N) /\ f = [i \in 0 .. N |-> f[i]] BY ZenonT(40), LoopRuns
<1>2. f = F(f)
  <2>1. ASSUME NEW i \in 0 .. N PROVE f[i] = F(f)[i]
    <3>1. CASE i = 0 BY <1>1, <3>1 DEF Follows
    <3>2. CASE i # 0
      <4>1. i \in 1 .. N BY <3>2
      <4> QED BY <1>1, <3>2, <4>1 DEF Follows
    <3> QED BY <3>1, <3>2
  <2> QED BY <1>1, <2>1
<1>3. current = F(current)
  <2> HIDE DEF F
  <2> QED BY <1>2
<1>4. TrustedClient(l, peer, hops) = current[N] BY DEF TrustedClient
<1>5. Follows(current, l, peer, hops, N)
  <2> HIDE DEF current
  <2>1. DOMAIN current = 0 .. N BY <1>3
  <2>2. \A i \in 0 .. N : current[i] = F(current)[i] BY <1>3
  <2>3. current[0] = peer BY <2>2
  <2>4. \A i \in 1 .. N : current[i] = IF Trusts(l, current[i - 1]) THEN hops[N - i + 1]
                                       ELSE current[i - 1]
    BY <2>2
  <2> QED BY <2>1, <2>3, <2>4 DEF Follows
<1> QED BY <1>4, <1>5

\* The loop ends at the peer itself, with no hops, or at a hop all of whose
\* successors are trusted; at the first one if it is trusted itself.
Reports(l, hops, address) ==
  \E i \in 1 .. Len(hops) :
    /\ address = hops[i]
    /\ \A j \in i + 1 .. Len(hops) : Trusts(l, hops[j])
    /\ Trusts(l, address) => i = 1

LEMMA ClientIsTraced ==
  ASSUME NEW l, NEW peer, NEW hops, Len(hops) \in Nat, Trusts(l, peer)
  PROVE  TrustedClient(l, peer, hops) = peer \/ Reports(l, hops, TrustedClient(l, peer, hops))
<1> DEFINE N == Len(hops)
<1>1. PICK f : Follows(f, l, peer, hops, N) /\ TrustedClient(l, peer, hops) = f[N]
  BY ClientIsLast
<1> DEFINE Good(n) == \E i \in 1 .. N :
             /\ f[n] = hops[i] /\ \A j \in i + 1 .. N : Trusts(l, hops[j])
             /\ Trusts(l, f[n]) => i = N - n + 1
           S == {n \in Nat : n = 0 \/ Good(n)}
<1>2. 0 \in S OBVIOUS
<1>3. ASSUME NEW n \in 0 .. N, n \in S, n < N PROVE n + 1 \in S
  <2>1. n + 1 \in 1 .. N /\ n \in Nat /\ n + 1 - 1 = n /\ N \in Nat /\ N - (n + 1) + 1 = N - n
    BY <1>3
  <2>2. f[n + 1] = IF Trusts(l, f[n]) THEN hops[N - n] ELSE f[n]
    <3>1. f[n + 1] = IF Trusts(l, f[n + 1 - 1]) THEN hops[N - (n + 1) + 1] ELSE f[n + 1 - 1]
      BY <1>1, <2>1 DEF Follows
    <3> QED BY <2>1, <3>1
  <2>3. CASE n = 0
    <3>1. f[0] = peer BY <1>1 DEF Follows
    <3>2. f[n + 1] = hops[N] BY <2>2, <2>3, <3>1, <2>1
    <3>3. N \in 1 .. N /\ \A j \in N + 1 .. N : FALSE BY <2>1
    <3>4. N = N - (n + 1) + 1 BY <2>1, <2>3
    <3>5. /\ N \in 1 .. N /\ f[n + 1] = hops[N]
          /\ Trusts(l, f[n + 1]) => N = N - (n + 1) + 1
          /\ \A j \in N + 1 .. N : Trusts(l, hops[j])
      BY <3>2, <3>3, <3>4
    <3> HIDE DEF N
    <3>6. Good(n + 1) BY <3>5
    <3> HIDE DEF Good
    <3> QED BY <2>1, <3>6
  <2>4. CASE n # 0
    <3>1. PICK i \in 1 .. N :
            /\ f[n] = hops[i] /\ \A j \in i + 1 .. N : Trusts(l, hops[j])
            /\ Trusts(l, f[n]) => i = N - n + 1
      BY <1>3, <2>4
    <3>2. CASE Trusts(l, f[n])
      <4>1. i = N - n + 1 /\ N - n \in 1 .. N BY <2>1, <3>1, <3>2, <2>4, <1>3
      <4>2. \A j \in N - n + 1 .. N : Trusts(l, hops[j])
        <5> TAKE j \in N - n + 1 .. N
        <5>1. CASE j = i BY <3>1, <3>2, <5>1
        <5>2. CASE j # i BY <2>1, <3>1, <4>1, <5>2
        <5> QED BY <5>1, <5>2
      <4>3. f[n + 1] = hops[N - n] /\ N - n = N - (n + 1) + 1 BY <2>1, <2>2, <3>2
      <4> QED BY <2>1, <4>1, <4>2, <4>3
    <3>3. CASE ~Trusts(l, f[n])
      <4>1. f[n + 1] = f[n] BY <2>2, <3>3
      <4> QED BY <2>1, <3>1, <3>3, <4>1
    <3> QED BY <3>2, <3>3
  <2> QED BY <2>3, <2>4
<1>4. N \in S
  <2> HIDE DEF S, N
  <2>1. N \in Nat BY DEF N
  <2>2. \A n \in 0 .. N : n \in S BY <1>2, <1>3, <2>1, Climbs
  <2> QED BY <2>1, <2>2
<1>5. CASE N = 0 BY <1>1, <1>5 DEF Follows
<1>6. CASE Good(N)
  <2>1. PICK i \in 1 .. N :
          /\ f[N] = hops[i] /\ \A j \in i + 1 .. N : Trusts(l, hops[j])
          /\ Trusts(l, f[N]) => i = N - N + 1
    BY <1>6
  <2>2. N - N + 1 = 1 OBVIOUS
  <2> QED BY <1>1, <2>1, <2>2 DEF Reports
<1> QED BY <1>4, <1>5, <1>6

-------------------------------------------------------------------------------
IsReply(r) ==
  r = [status |-> r.status, origin |-> r.origin, credentials |-> r.credentials,
       methods |-> r.methods, headers |-> r.headers, vary |-> r.vary]

HeadTyped ==
  /\ chain \in Chains /\ head \in Heads /\ Len(chain) \in Nat
  /\ proto \in ValidSchemes /\ handled \in BOOLEAN
  /\ IsReply(reply)
  /\ \/ stage = "request" /\ station \in 1 .. Len(chain) + 1 /\ ~handled /\ reply = NoResponse
     \/ stage = "response" /\ station \in 0 .. Len(chain)
     \/ stage = "done" /\ station = 0

\* A layer has let the request through.
Passed(i) == handled \/ (stage = "request" /\ i < station)

\* Until a ProxyHeaders, nothing is in effect but what the connection tells.
Untouched ==
  stage = "request" /\ (\A p \in LayersOf("proxy") : station <= p)
    => client = head.peer /\ host = head.host

HostSeen(i) == IF \E p \in LayersOf("proxy") : p < i THEN host ELSE head.host
HostsChecked ==
  \A i \in LayersOf("host") : Passed(i) =>
    IF HostSeen(i) = NotGiven THEN chain[i].missing ELSE TrustsHost(chain[i], HostSeen(i))

ChargedOnce ==
  \/ charged = <<>>
  \/ /\ charged = <<charged[1]>>
     /\ stage = "request" => \A l \in LayersOf("limit") : l < station

VaryNames ==
  {"origin", "accept-encoding", "access-control-request-method",
   "access-control-request-headers"}
VaryOnce(vary) ==
  /\ vary \in Seq(VaryNames)
  /\ \A i, j \in 1 .. Len(vary) : vary[i] = vary[j] => i = j

\* What Cors lets a response say.
IsAllowedOrigin ==
  Len(head.origins) = 1 /\ \E i \in LayersOf("cors") : AllowedOrigin(chain[i], head.origins[1])

NamesSoundly(r) ==
  /\ IsReply(r) /\ VaryOnce(r.vary) /\ r.credentials \in BOOLEAN
  /\ r.credentials => \E i \in LayersOf("cors") : chain[i].credentials
  /\ r.origin # NotGiven =>
       /\ IsAllowedOrigin
       /\ r.origin = AnyOrigin => ~r.credentials
       /\ r.origin # AnyOrigin => r.origin = head.origins[1] /\ Contains(r.vary, "origin")

Permits(r) ==
  r.status = 204 => \A i \in LayersOf("cors") :
    /\ head.wants \in chain[i].methods
    /\ "*" \notin chain[i].headers => ToSet(r.headers) \subseteq chain[i].headers

SoundReply(r) == NamesSoundly(r) /\ Permits(r)

\* Cors layers that the response has passed have named an allowed origin.
OriginsNamed ==
  stage # "request" => \A i \in LayersOf("cors") :
    i > station /\ Len(head.origins) = 1 /\ AllowedOrigin(chain[i], head.origins[1])
      => reply.origin # NotGiven

CrossingsChecked == \A i \in LayersOf("cors") : Passed(i) => Len(head.origins) < 2

HeadInv ==
  /\ HeadTyped /\ Untouched /\ ClientIsReported /\ HostsChecked /\ ChargedOnce
  /\ ChargedAsSeen /\ SoundReply(reply) /\ OriginsNamed /\ CrossingsChecked

\* The chain has one layer of a kind at most, and its head is well formed.
LEMMA ChainIsTyped ==
  ASSUME LayersAssumption, chain \in Chains, head \in Heads
  PROVE  /\ Len(chain) \in Nat
         /\ \A i, j \in 1 .. Len(chain) : chain[i].kind = chain[j].kind => i = j
         /\ \A i \in LayersOf("cors") :
              /\ \A o \in chain[i].origins : IsSequence(o.labels)
              /\ IsFiniteSet(chain[i].headers) /\ chain[i].credentials \in BOOLEAN
              /\ ~(chain[i].credentials /\ AnyOrigin \in chain[i].origins)
         /\ AnyOrigin # NotGiven /\ Answer(400) # NotGiven
         /\ IsSequence(head.origins) /\ NotGiven \notin ToSet(head.origins)
         /\ Len(head.origins) \in Nat
         /\ IsSequence(ForwardedFor(head)) /\ Len(ForwardedFor(head)) \in Nat
         /\ IsSequence(FlattenSeq(head.headers))
<1>1. IsSequence(chain) /\ IsSequence(head.origins) /\ IsSequence(ForwardedFor(head))
  BY DEF LayersAssumption, ChainAssumption, HeadsAssumption
<1>2. \A s : IsSequence(s) => Len(s) \in Nat BY DEF IsSequence
<1>3. /\ \A i, j \in 1 .. Len(chain) : chain[i].kind = chain[j].kind => i = j
      /\ \A i \in 1 .. Len(chain) : chain[i].kind = "cors" =>
           /\ \A o \in chain[i].origins : IsSequence(o.labels)
           /\ IsFiniteSet(chain[i].headers) /\ chain[i].credentials \in BOOLEAN
           /\ ~(chain[i].credentials /\ AnyOrigin \in chain[i].origins)
  BY DEF LayersAssumption, ChainAssumption
<1>4. AnyOrigin # NotGiven /\ Answer(400) # NotGiven BY DEF LayersAssumption
<1>5. NotGiven \notin ToSet(head.origins) /\ IsSequence(FlattenSeq(head.headers))
  BY DEF LayersAssumption, HeadsAssumption
<1> QED BY <1>1, <1>2, <1>3, <1>4, <1>5 DEF LayersOf

LEMMA OneOfAKind ==
  ASSUME LayersAssumption, chain \in Chains, head \in Heads, NEW kind,
         NEW i \in LayersOf(kind), NEW j \in LayersOf(kind)
  PROVE  i = j
BY ChainIsTyped DEF LayersOf

-------------------------------------------------------------------------------
LEMMA LineAdded ==
  ASSUME NEW S, NEW s \in Seq(S), NEW e \in S
  PROVE  /\ Append(s, e) \in Seq(S)
         /\ Len(Append(s, e)) = Len(s) + 1 /\ Len(s) \in Nat
         /\ \A i \in 1 .. Len(s) : Append(s, e)[i] = s[i]
         /\ Append(s, e)[Len(s) + 1] = e
OBVIOUS

LEMMA VaryGrows ==
  ASSUME NEW vary, VaryOnce(vary), NEW name \in VaryNames
  PROVE  /\ VaryOnce(AppendVary(vary, name)) /\ Contains(AppendVary(vary, name), name)
         /\ \A n : Contains(vary, n) => Contains(AppendVary(vary, name), n)
<1>1. CASE Contains(vary, name) BY <1>1 DEF AppendVary
<1>2. CASE ~Contains(vary, name)
  <2> DEFINE v == Append(vary, name)
  <2>1. AppendVary(vary, name) = v BY <1>2 DEF AppendVary
  <2>2. /\ Len(vary) \in Nat /\ v \in Seq(VaryNames) /\ Len(v) = Len(vary) + 1
        /\ \A i \in 1 .. Len(vary) : v[i] = vary[i]
        /\ v[Len(vary) + 1] = name
    BY LineAdded DEF VaryOnce
  <2> HIDE DEF v
  <2>3. \A i \in 1 .. Len(vary) : v[i] # name BY <1>2, <2>2 DEF Contains
  <2>4. ASSUME NEW i \in 1 .. Len(v), NEW j \in 1 .. Len(v), v[i] = v[j] PROVE i = j
    <3>1. \A k \in 1 .. Len(v) : k \in 1 .. Len(vary) \/ k = Len(vary) + 1 BY <2>2
    <3>2. CASE i \in 1 .. Len(vary) /\ j \in 1 .. Len(vary)
      BY <2>2, <2>4, <3>2 DEF VaryOnce
    <3>3. CASE i = Len(vary) + 1 /\ j \in 1 .. Len(vary) BY <2>2, <2>3, <2>4, <3>3
    <3>4. CASE j = Len(vary) + 1 /\ i \in 1 .. Len(vary) BY <2>2, <2>3, <2>4, <3>4
    <3> QED BY <3>1, <3>2, <3>3, <3>4
  <2>5. Contains(v, name)
    <3>1. Len(vary) + 1 \in 1 .. Len(v) BY <2>2
    <3> QED BY <2>2, <3>1 DEF Contains
  <2>6. ASSUME NEW n, Contains(vary, n) PROVE Contains(v, n)
    <3>1. PICK i \in 1 .. Len(vary) : vary[i] = n BY <2>6 DEF Contains
    <3>2. i \in 1 .. Len(v) /\ v[i] = n BY <2>2, <3>1
    <3> QED BY <3>2 DEF Contains
  <2>7. VaryOnce(v) BY <2>2, <2>4 DEF VaryOnce
  <2> QED BY <2>1, <2>5, <2>6, <2>7
<1> QED BY <1>1, <1>2

\* No pattern but the wildcard lets the wildcard pass as an origin.
LEMMA WildcardMatchesItself ==
  ASSUME NEW l, AllowedOrigin(l, AnyOrigin), \A o \in l.origins : IsSequence(o.labels)
  PROVE  AnyOrigin \in l.origins
<1>1. PICK p \in l.origins : OriginMatches(p, AnyOrigin) BY DEF AllowedOrigin
<1>2. ASSUME p.labels # <<>>, IsBelow(AnyOrigin.labels, Tail(p.labels)) PROVE FALSE
  <2>1. AnyOrigin.labels = <<>> BY DEF AnyOrigin
  <2>2. Len(AnyOrigin.labels) = 0 BY <2>1
  <2>3. p.labels \in Seq(ToSet(p.labels)) BY DEF IsSequence
  <2>4. Len(Tail(p.labels)) \in Nat BY <1>2, <2>3
  <2>5. Len(AnyOrigin.labels) > Len(Tail(p.labels)) BY <1>2 DEF IsBelow
  <2> QED BY <2>2, <2>4, <2>5
<1>3. p = AnyOrigin \/ (p.labels # <<>> /\ IsBelow(AnyOrigin.labels, Tail(p.labels)))
  <2> DEFINE o == AnyOrigin
  <2>1. OriginMatches(p, o) BY <1>1
  <2>2. o = AnyOrigin OBVIOUS
  <2> HIDE DEF o
  <2> QED BY <2>1, <2>2 DEF OriginMatches
<1> QED BY <1>2, <1>3

\* The lines of a set list nothing that is not in it.
LEMMA ListsMembers ==
  ASSUME NEW S, IsFiniteSet(S) PROVE ToSet(SetToSeq(S)) \subseteq S
<1> DEFINE n == Cardinality(S)
           f == SetToSeq(S)
<1>1. ExistsBijection(1 .. n, S) BY FS_CardinalityType
<1>2. PICK g : g \in [1 .. n -> S] /\ IsInjective(g)
  BY <1>1 DEF ExistsBijection, Bijection, Injection
<1>3. f \in [1 .. n -> S] BY <1>2 DEF SetToSeq
<1> QED BY <1>3 DEF ToSet

\* Cors::apply_headers names the origin of a response soundly.
LEMMA HeadersAreSound ==
  ASSUME LayersAssumption, chain \in Chains, head \in Heads, NEW r, NamesSoundly(r),
         NEW i \in LayersOf("cors"), Len(head.origins) = 1,
         AllowedOrigin(chain[i], head.origins[1])
  PROVE  /\ NamesSoundly(ApplyHeaders(chain[i], head.origins[1], r))
         /\ ApplyHeaders(chain[i], head.origins[1], r).origin # NotGiven
         /\ ApplyHeaders(chain[i], head.origins[1], r).status = r.status
         /\ ApplyHeaders(chain[i], head.origins[1], r).headers = r.headers
<1> DEFINE l == chain[i]
           o == head.origins[1]
           wide == AnyOrigin \in l.origins /\ ~l.credentials
           a == ApplyHeaders(l, o, r)
<1>1. /\ IsReply(a)
      /\ a.status = r.status /\ a.headers = r.headers
      /\ a.origin = IF wide THEN AnyOrigin ELSE o
      /\ a.vary = IF wide THEN r.vary ELSE AppendVary(r.vary, "origin")
      /\ a.credentials = (r.credentials \/ l.credentials)
  <2>1. IsReply(r) BY DEF NamesSoundly
  <2>2. a = [r EXCEPT !.origin = IF wide THEN AnyOrigin ELSE o,
                      !.vary = IF wide THEN @ ELSE AppendVary(@, "origin"),
                      !.credentials = @ \/ l.credentials]
    BY DEF ApplyHeaders
  <2> HIDE DEF wide, a, l, o
  <2> QED BY <2>1, <2>2 DEF IsReply
<1>2. /\ AnyOrigin # NotGiven /\ l.credentials \in BOOLEAN
      /\ ~(l.credentials /\ AnyOrigin \in l.origins)
  BY ChainIsTyped
<1>3. o # NotGiven
  <2>1. 1 \in DOMAIN head.origins BY ChainIsTyped DEF IsSequence
  <2> QED BY <2>1, ChainIsTyped DEF ToSet
<1> HIDE DEF a
<1>4. a.origin # NotGiven BY <1>1, <1>2, <1>3
<1>5. VaryOnce(a.vary) /\ (~wide => Contains(a.vary, "origin"))
  <2>1. VaryOnce(r.vary) /\ "origin" \in VaryNames BY DEF NamesSoundly, VaryNames
  <2>2. /\ VaryOnce(AppendVary(r.vary, "origin"))
        /\ Contains(AppendVary(r.vary, "origin"), "origin")
    BY <2>1, VaryGrows
  <2> QED BY <1>1, <2>1, <2>2
<1>6. a.credentials \in BOOLEAN BY <1>1, <1>2 DEF NamesSoundly
<1>7. a.credentials => l.credentials
  <2>1. ASSUME r.credentials PROVE l.credentials
    <3>1. PICK j \in LayersOf("cors") : chain[j].credentials BY <2>1 DEF NamesSoundly
    <3> QED BY <3>1, OneOfAKind
  <2> QED BY <1>1, <2>1
<1>8. IsAllowedOrigin BY DEF IsAllowedOrigin
<1>9. a.origin = AnyOrigin => ~a.credentials
  <2>1. o = AnyOrigin => AnyOrigin \in l.origins BY WildcardMatchesItself, ChainIsTyped
  <2> QED BY <1>1, <1>2, <1>7, <2>1
<1>10. a.origin # AnyOrigin => a.origin = o /\ Contains(a.vary, "origin")
  BY <1>1, <1>5
<1>11. NamesSoundly(a)
  BY <1>1, <1>5, <1>6, <1>7, <1>8, <1>9, <1>10 DEF NamesSoundly
<1> QED BY <1>1, <1>4, <1>11 DEF a

\* What a layer or the handler answers by itself names nothing.
LEMMA AnswersAreSound ==
  ASSUME NEW status, NEW vary \in {<<>>, <<"origin">>, <<"accept-encoding">>}
  PROVE  /\ NamesSoundly([Answer(status) EXCEPT !.vary = vary])
         /\ NamesSoundly(Answer(status))
         /\ Answer(status).status = status
         /\ [Answer(status) EXCEPT !.vary = vary].status = status
<1> DEFINE Bare(lines) == [status |-> status, origin |-> NotGiven, credentials |-> FALSE,
                           methods |-> {}, headers |-> <<>>, vary |-> lines]
<1>1. /\ IsReply(NoResponse) /\ NoResponse.origin = NotGiven /\ NoResponse.methods = {}
      /\ NoResponse.headers = <<>> /\ NoResponse.vary = <<>> /\ NoResponse.credentials = FALSE
  BY DEF NoResponse, IsReply
<1>2. Answer(status) = Bare(<<>>) /\ [Answer(status) EXCEPT !.vary = vary] = Bare(vary)
  <2> DEFINE none == NoResponse
             b == Answer(status)
             v == [b EXCEPT !.vary = vary]
  <2>1. b = [none EXCEPT !.status = status] BY DEF Answer
  <2> HIDE DEF b, none
  <2>2. /\ IsReply(b) /\ b.status = status /\ b.origin = none.origin
        /\ b.methods = none.methods /\ b.headers = none.headers /\ b.vary = none.vary
        /\ b.credentials = none.credentials
    BY <1>1, <2>1 DEF IsReply, none
  <2>3. /\ IsReply(v) /\ v.status = status /\ v.origin = b.origin
        /\ v.methods = b.methods /\ v.headers = b.headers /\ v.vary = vary
        /\ v.credentials = b.credentials
    BY <2>2 DEF IsReply
  <2> HIDE DEF v
  <2>4. b = Bare(<<>>) BY <1>1, <2>2 DEF IsReply, none
  <2>5. v = Bare(vary) BY <1>1, <2>2, <2>3 DEF IsReply, none
  <2> QED BY <2>4, <2>5 DEF b, v
<1>3. VaryOnce(<<>>) BY DEF VaryOnce
<1>4. ASSUME NEW n \in VaryNames PROVE VaryOnce(<<n>>) BY DEF VaryOnce
<1>5. "origin" \in VaryNames /\ "accept-encoding" \in VaryNames BY DEF VaryNames
<1>6. VaryOnce(vary) BY <1>3, <1>4, <1>5
<1>7. ASSUME NEW lines, VaryOnce(lines) PROVE NamesSoundly(Bare(lines))
  <2>1. IsReply(Bare(lines)) BY DEF IsReply
  <2>2. Bare(lines).vary = lines /\ Bare(lines).origin = NotGiven OBVIOUS
  <2>3. Bare(lines).credentials \in BOOLEAN /\ ~Bare(lines).credentials OBVIOUS
  <2> HIDE DEF Bare
  <2> QED BY <1>7, <2>1, <2>2, <2>3 DEF NamesSoundly
<1>8. \A lines : Bare(lines).status = status OBVIOUS
<1> HIDE DEF Bare
<1> QED BY <1>2, <1>3, <1>6, <1>7, <1>8

LEMMA RefusalsAreSound ==
  ASSUME NEW status, status # 204 PROVE SoundReply(Answer(status))
<1>1. NamesSoundly(Answer(status)) /\ Answer(status).status = status BY AnswersAreSound
<1> QED BY <1>1 DEF SoundReply, Permits

\* The answer to a preflight allows no more than its layer does.
LEMMA InterceptIsSound ==
  ASSUME LayersAssumption, chain \in Chains, head \in Heads,
         NEW i \in LayersOf("cors"), Intercept(chain[i]) # NotGiven
  PROVE  SoundReply(Intercept(chain[i]))
<1> DEFINE l == chain[i]
           requested == FlattenSeq(head.headers)
           o == head.origins[1]
           a == ApplyHeaders(l, o, Answer(204))
           r == ApplyPreflightHeaders(l, requested, a)
           refuses == \/ head.wants \notin l.methods
                      \/ "*" \notin l.headers /\ \E n \in ToSet(requested) : n \notin l.headers
<1>1. \A status : NamesSoundly(Answer(status)) /\ Answer(status).status = status
  BY AnswersAreSound
<1>2. SoundReply(Answer(400)) /\ SoundReply(Answer(403))
  BY <1>1 DEF SoundReply, Permits
<1>3. Len(head.origins) \in Nat /\ (Len(head.origins) = 0 => head.origins = <<>>)
  BY ChainIsTyped DEF IsSequence
<1>4. CASE /\ Len(head.origins) = 1 /\ AllowedOrigin(l, o) /\ ~refuses
           /\ Intercept(l) = r
  <2>1. /\ NamesSoundly(a) /\ a.origin # NotGiven /\ a.status = 204
    BY <1>1, <1>4, HeadersAreSound
  <2> HIDE DEF a
  <2> DEFINE first == AppendVary(a.vary, "access-control-request-method")
             second == AppendVary(first, "access-control-request-headers")
  <2>2. /\ VaryOnce(second) /\ (Contains(a.vary, "origin") => Contains(second, "origin"))
    <3>1. /\ VaryOnce(a.vary) /\ "access-control-request-method" \in VaryNames
          /\ "access-control-request-headers" \in VaryNames
      BY <2>1 DEF NamesSoundly, VaryNames
    <3>2. VaryOnce(first) /\ \A n : Contains(a.vary, n) => Contains(first, n)
      BY <3>1, VaryGrows
    <3> HIDE DEF first
    <3>3. VaryOnce(second) /\ \A n : Contains(first, n) => Contains(second, n)
      BY <3>1, <3>2, VaryGrows
    <3> QED BY <3>2, <3>3
  <2> HIDE DEF first, second
  <2> DEFINE lines == IF requested # <<>> THEN requested
                      ELSE IF "*" \in l.headers
                           THEN IF l.credentials THEN <<>> ELSE <<"*">>
                      ELSE SetToSeq(l.headers)
  <2>3. /\ IsReply(r) /\ r.status = 204 /\ r.origin = a.origin
        /\ r.credentials = a.credentials /\ r.vary = second /\ r.headers = lines
    <3>1. r = [a EXCEPT !.methods = l.methods, !.headers = lines, !.vary = second]
      BY DEF ApplyPreflightHeaders, first, second
    <3>2. IsReply(a) BY <2>1 DEF NamesSoundly
    <3> HIDE DEF lines, r, l
    <3> QED BY <2>1, <3>1, <3>2 DEF IsReply
  <2>4. NamesSoundly(r)
    <3> HIDE DEF r
    <3> QED BY <2>1, <2>2, <2>3 DEF NamesSoundly
  <2>5. "*" \notin l.headers => ToSet(lines) \subseteq l.headers
    <3>1. IsFiniteSet(l.headers) BY ChainIsTyped
    <3>2. ToSet(SetToSeq(l.headers)) \subseteq l.headers BY <3>1, ListsMembers
    <3> QED BY <1>4, <3>2
  <2>6. Permits(r)
    <3> HIDE DEF r, lines
    <3>1. ASSUME NEW j \in LayersOf("cors") PROVE j = i BY OneOfAKind
    <3> QED BY <1>4, <2>3, <2>5, <3>1 DEF Permits
  <2> QED BY <1>4, <2>4, <2>6 DEF SoundReply
<1>5. \/ Intercept(l) \in {Answer(400), Answer(403), NotGiven}
      \/ /\ Len(head.origins) = 1 /\ AllowedOrigin(l, o) /\ ~refuses
         /\ Intercept(l) = r
  <2>1. CASE Len(head.origins) > 1 BY <2>1 DEF Intercept
  <2>2. CASE head.origins = <<>> BY <2>2, <1>3 DEF Intercept
  <2>3. CASE Len(head.origins) = 1
    <3>1. Head(head.origins) = o OBVIOUS
    <3>2. ~(Len(head.origins) > 1) /\ head.origins # <<>>
      <4> HIDE DEF l, requested, o, a, r, refuses
      <4>1. ~(Len(head.origins) > 1) BY <2>3
      <4>2. head.origins = <<>> => Len(head.origins) = 0 OBVIOUS
      <4>3. head.origins # <<>> BY <2>3, <4>2
      <4> QED BY <4>1, <4>3
    <3>3. Intercept(l) =
            IF ~AllowedOrigin(l, o)
            THEN IF head.method = "OPTIONS" THEN Answer(403) ELSE NotGiven
            ELSE IF head.method # "OPTIONS" \/ head.wants = NotGiven THEN NotGiven
            ELSE IF refuses THEN Answer(403)
            ELSE r
      BY <3>1, <3>2 DEF Intercept
    <3> HIDE DEF l, r, refuses, o
    <3>4. CASE ~AllowedOrigin(l, o) BY <3>3, <3>4
    <3>5. CASE AllowedOrigin(l, o) /\ (head.method # "OPTIONS" \/ head.wants = NotGiven)
      BY <3>3, <3>5
    <3>6. CASE AllowedOrigin(l, o) /\ head.method = "OPTIONS" /\ head.wants # NotGiven
      BY <2>3, <3>3, <3>6
    <3> QED BY <3>4, <3>5, <3>6
  <2>4. PICK n \in Nat : n = Len(head.origins) /\ (n = 0 => head.origins = <<>>) BY <1>3
  <2>5. n > 1 \/ n = 1 \/ n = 0 OBVIOUS
  <2> HIDE DEF l, r, refuses, o
  <2> QED BY <2>1, <2>2, <2>3, <2>4, <2>5
<1> QED BY <1>2, <1>4, <1>5


-------------------------------------------------------------------------------
LEMMA NothingIsSound == SoundReply(NoResponse) /\ IsReply(NoResponse)
<1>1. IsReply(NoResponse) BY DEF NoResponse, IsReply
<1>2. /\ NoResponse.origin = NotGiven /\ NoResponse.vary = <<>> /\ NoResponse.status = 0
  BY DEF NoResponse
<1>3. NoResponse.credentials = FALSE BY DEF NoResponse
<1>4. NoResponse.credentials \in BOOLEAN /\ ~NoResponse.credentials BY <1>3
<1>5. VaryOnce(<<>>) BY DEF VaryOnce
<1>6. NamesSoundly(NoResponse) BY <1>1, <1>2, <1>4, <1>5 DEF NamesSoundly
<1>7. Permits(NoResponse) BY <1>2 DEF Permits
<1> QED BY <1>1, <1>6, <1>7 DEF SoundReply

LEMMA InitHead == ASSUME LayersAssumption PROVE HeadInit => HeadInv
<1> SUFFICES ASSUME HeadInit PROVE HeadInv OBVIOUS
<1> USE DEF HeadInit
<1>1. /\ chain \in Chains /\ head \in Heads /\ Len(chain) \in Nat
  <2>1. chain \in Chains /\ head \in Heads OBVIOUS
  <2> HIDE DEF HeadInit
  <2> QED BY <2>1, ChainIsTyped
<1>2. SoundReply(NoResponse) /\ IsReply(NoResponse) BY NothingIsSound
<1>3. HeadTyped
  <2>1. IsReply(reply) /\ reply = NoResponse BY <1>2
  <2>2. handled \in BOOLEAN /\ ~handled OBVIOUS
  <2>3. station \in 1 .. Len(chain) + 1 BY <1>1
  <2>4. proto \in ValidSchemes BY DEF ValidSchemes
  <2> QED BY <1>1, <2>1, <2>2, <2>3, <2>4 DEF HeadTyped
<1>4. ASSUME NEW i, Passed(i), i \in 1 .. Len(chain) PROVE FALSE
  BY <1>1, <1>4 DEF Passed
<1>5. Untouched /\ ClientIsReported BY DEF Untouched, ClientIsReported
<1>6. HostsChecked /\ CrossingsChecked
  BY <1>4 DEF HostsChecked, CrossingsChecked, LayersOf
<1>7. ChargedOnce /\ ChargedAsSeen BY DEF ChargedOnce, ChargedAsSeen
<1>8. OriginsNamed BY DEF OriginsNamed
<1> QED BY <1>2, <1>3, <1>5, <1>6, <1>7, <1>8 DEF HeadInv

\* What only reads the chain and the head stays as it is with them.
LEMMA ChainStays ==
  ASSUME UNCHANGED <<chain, head>>
  PROVE  /\ \A kind : LayersOf(kind)' = LayersOf(kind)
         /\ IsAllowedOrigin' = IsAllowedOrigin
         /\ \A r : SoundReply(r) => SoundReply(r)'
<1>1. \A kind : LayersOf(kind)' = LayersOf(kind) BY DEF LayersOf
<1>2. IsAllowedOrigin' = IsAllowedOrigin BY <1>1 DEF IsAllowedOrigin
<1>3. ASSUME NEW r, SoundReply(r) PROVE SoundReply(r)'
  <2>1. NamesSoundly(r)' BY <1>1, <1>2, <1>3 DEF SoundReply, NamesSoundly
  <2>2. Permits(r)' BY <1>1, <1>3 DEF SoundReply, Permits
  <2> QED BY <2>1, <2>2 DEF SoundReply
<1> QED BY <1>1, <1>2, <1>3

\* A layer that answers by itself.
LEMMA Refused ==
  ASSUME LayersAssumption, HeadInv, stage = "request", station <= Len(chain),
         NEW r, Respond(r), SoundReply(r), UNCHANGED <<chain, head, handled, inEffect>>,
         charged' = <<>> \/ charged' = <<charged'[1]>>, ChargedAsSeen'
  PROVE  HeadInv'
<1>1. /\ \A kind : LayersOf(kind)' = LayersOf(kind) /\ SoundReply(r)' BY ChainStays
<1>2. /\ stage' = "response" /\ station' = Len(chain) /\ reply' = r BY DEF Respond
<1>3. HeadTyped BY DEF HeadInv
<1>4. IsReply(r) BY DEF SoundReply, NamesSoundly
<1>5. HeadTyped' BY <1>2, <1>3, <1>4 DEF HeadTyped, inEffect, IsReply
<1>6. SoundReply(reply)' BY <1>1, <1>2
<1>7. ~handled' BY <1>3 DEF HeadTyped
<1>8. \A i : ~Passed(i)' BY <1>2, <1>7 DEF Passed
<1>9. Untouched' BY <1>2 DEF Untouched
<1>10. ClientIsReported'
  <2>1. ClientIsReported BY DEF HeadInv
  <2> QED BY <1>1, <2>1 DEF ClientIsReported, inEffect
<1>11. HostsChecked' /\ CrossingsChecked' BY <1>8 DEF HostsChecked, CrossingsChecked
<1>12. ChargedOnce' BY <1>2 DEF ChargedOnce
<1>13. OriginsNamed'
  <2>1. ASSUME NEW i \in LayersOf("cors"), i > station' PROVE FALSE
    BY <1>2, <1>3, <2>1 DEF LayersOf, HeadTyped
  <2> QED BY <1>1, <2>1 DEF OriginsNamed
<1> QED BY <1>5, <1>6, <1>9, <1>10, <1>11, <1>12, <1>13 DEF HeadInv

\* A layer that passes the request on.
LEMMA LetThrough ==
  ASSUME LayersAssumption, HeadInv, stage = "request", station <= Len(chain), Pass,
         UNCHANGED <<chain, head, handled>>, proto' \in ValidSchemes,
         Untouched', ClientIsReported', HostsChecked', ChargedOnce', ChargedAsSeen',
         CrossingsChecked'
  PROVE  HeadInv'
<1>1. /\ stage' = stage /\ station' = station + 1 /\ reply' = reply BY DEF Pass
<1>2. HeadTyped BY DEF HeadInv
<1>3. HeadTyped'
  <2>1. station' \in 1 .. Len(chain) + 1 BY <1>1, <1>2 DEF HeadTyped
  <2> QED BY <1>1, <1>2, <2>1 DEF HeadTyped, IsReply
<1>4. SoundReply(reply)'
  <2>1. SoundReply(reply) BY DEF HeadInv
  <2>2. PICK r : r = reply OBVIOUS
  <2>3. SoundReply(r)' BY <2>1, <2>2, ChainStays
  <2> QED BY <1>1, <2>2, <2>3
<1>5. OriginsNamed' BY <1>1 DEF OriginsNamed
<1> QED BY <1>3, <1>4, <1>5 DEF HeadInv

\* The layers a layer comes after are those the request had passed before it.
LEMMA PassedBefore ==
  ASSUME HeadInv, stage = "request", station <= Len(chain), Pass,
         UNCHANGED <<chain, head, handled>>
  PROVE  /\ \A i \in 1 .. Len(chain) : Passed(i)' => Passed(i) \/ i = station
         /\ \A i \in 1 .. Len(chain) : Passed(i) <=> i < station
         /\ \A kind : LayersOf(kind)' = LayersOf(kind)
         /\ station \in LayersOf(chain[station].kind)
         /\ station' = station + 1 /\ stage' = "request" /\ station \in Nat
<1>1. HeadTyped BY DEF HeadInv
<1>2. /\ station' = station + 1 /\ stage' = "request" /\ ~handled /\ ~handled'
      /\ station \in 1 .. Len(chain) /\ Len(chain) \in Nat
  BY <1>1 DEF HeadTyped, Pass
<1>3. \A kind : LayersOf(kind)' = LayersOf(kind) BY DEF LayersOf
<1> QED BY <1>2, <1>3 DEF Passed, LayersOf


\* ProxyHeaders::on_request.
LEMMA ProxyKeeps ==
  ASSUME LayersAssumption, HeadInv, stage = "request", station <= Len(chain), Pass,
         UNCHANGED <<chain, head, handled, charged>>,
         chain[station].kind = "proxy", Normalize(chain[station])
  PROVE  HeadInv'
<1> DEFINE l == chain[station]
           hops == ForwardedFor(head)
<1>1. HeadTyped /\ chain \in Chains /\ head \in Heads BY DEF HeadInv, HeadTyped
<1>2. /\ \A i \in 1 .. Len(chain) : Passed(i)' => Passed(i) \/ i = station
      /\ \A i \in 1 .. Len(chain) : Passed(i) <=> i < station
      /\ \A kind : LayersOf(kind)' = LayersOf(kind)
      /\ station \in LayersOf("proxy")
      /\ station' = station + 1 /\ stage' = "request" /\ station \in Nat
  BY PassedBefore
<1>3. \A p \in LayersOf("proxy") : p = station BY <1>1, <1>2, OneOfAKind
<1>4. client = head.peer /\ host = head.host
  <2>1. \A p \in LayersOf("proxy") : station <= p BY <1>2, <1>3
  <2>2. Untouched BY DEF HeadInv
  <2> QED BY <2>1, <2>2 DEF Untouched
<1>5. \A kind : kind # "proxy" => \A i \in LayersOf(kind) : i \in 1 .. Len(chain) /\ i # station
  BY DEF LayersOf
<1>6. proto' \in ValidSchemes
  <2>1. proto \in ValidSchemes BY <1>1 DEF HeadTyped
  <2> QED BY <2>1 DEF Normalize, inEffect
<1>7. Untouched' BY <1>2 DEF Untouched
<1>8. ClientIsReported'
  <2>1. SUFFICES ASSUME client' # head.peer
                 PROVE  \E i \in 1 .. Len(hops) :
                          /\ client' = hops[i]
                          /\ l.all \/ Trusts(l, head.peer)
                          /\ \A j \in i + 1 .. Len(hops) : Trusts(l, hops[j])
                          /\ Trusts(l, client') => i = 1
    BY <1>2 DEF ClientIsReported
  <2>2. /\ l.all \/ (client # NotGiven /\ Trusts(l, client))
        /\ client' = IF client # NotGiven THEN TrustedClient(l, client, hops)
                     ELSE IF hops # <<>> THEN Head(hops) ELSE client
    BY <1>4, <2>1 DEF Normalize, inEffect
  <2>3. Len(hops) \in Nat /\ IsSequence(hops) BY <1>1, ChainIsTyped
  <2>4. CASE client # NotGiven
    <3>1. Trusts(l, client) BY <2>2 DEF Trusts
    <3>2. client' = TrustedClient(l, client, hops) BY <2>2, <2>4
    <3>3. Reports(l, hops, client') BY <1>4, <2>1, <2>3, <3>1, <3>2, ClientIsTraced
    <3> HIDE DEF l, hops
    <3> QED BY <1>4, <3>1, <3>3 DEF Reports
  <2>5. CASE client = NotGiven
    <3>1. l.all /\ hops # <<>> /\ client' = Head(hops) BY <1>4, <2>1, <2>2, <2>5
    <3>2. \A address : Trusts(l, address) BY <3>1 DEF Trusts
    <3> HIDE DEF l, hops
    <3>3. 1 \in 1 .. Len(hops) /\ Head(hops) = hops[1] BY <2>3, <3>1 DEF IsSequence
    <3> QED BY <3>1, <3>2, <3>3
  <2> QED BY <2>4, <2>5
<1>9. HostsChecked'
  <2>1. SUFFICES ASSUME NEW i \in LayersOf("host"), Passed(i)'
                 PROVE  (IF HostSeen(i) = NotGiven THEN chain[i].missing
                         ELSE TrustsHost(chain[i], HostSeen(i)))'
    BY <1>2 DEF HostsChecked
  <2>2. i \in 1 .. Len(chain) /\ Passed(i) /\ i < station BY <1>2, <1>5, <2>1
  <2>3. ~\E p \in LayersOf("proxy") : p < i BY <1>2, <1>3, <2>2
  <2>4. HostSeen(i) = head.host /\ HostSeen(i)' = head.host
    BY <1>2, <2>3 DEF HostSeen
  <2>5. IF HostSeen(i) = NotGiven THEN chain[i].missing ELSE TrustsHost(chain[i], HostSeen(i))
    BY <2>2 DEF HeadInv, HostsChecked
  <2>6. \A h : TrustsHost(chain[i], h)' <=> TrustsHost(chain[i], h) OBVIOUS
  <2> QED BY <2>4, <2>5, <2>6
<1>10. ChargedOnce'
  <2>1. ChargedOnce BY DEF HeadInv
  <2>2. \A i \in LayersOf("limit") : i < station => i < station + 1
    BY <1>2, <1>5
  <2> QED BY <1>2, <2>1, <2>2 DEF ChargedOnce
<1>11. ChargedAsSeen'
  <2>1. CASE charged = <<>> BY <2>1 DEF ChargedAsSeen
  <2>2. CASE charged # <<>>
    <3>1. \A i \in LayersOf("limit") : i < station
      BY <2>2 DEF HeadInv, ChargedOnce
    <3>2. \A i \in LayersOf("limit") : ~\E p \in LayersOf("proxy") : p < i
      BY <1>2, <1>3, <1>5, <3>1
    <3>3. ChargedAsSeen BY DEF HeadInv
    <3> QED BY <1>2, <3>2, <3>3 DEF ChargedAsSeen
  <2> QED BY <2>1, <2>2
<1>12. CrossingsChecked'
  <2>1. CrossingsChecked BY DEF HeadInv
  <2>2. \A i \in LayersOf("cors") : Passed(i)' => Passed(i) BY <1>2, <1>5
  <2> QED BY <1>2, <2>1, <2>2 DEF CrossingsChecked
<1> QED BY <1>6, <1>7, <1>8, <1>9, <1>10, <1>11, <1>12, LetThrough

\* What the other layers leave alone, when they pass the request on.
LEMMA OthersKeep ==
  ASSUME LayersAssumption, HeadInv, stage = "request", station <= Len(chain), Pass,
         UNCHANGED <<chain, head, handled, inEffect>>,
         chain[station].kind # "proxy"
  PROVE  /\ Untouched' /\ ClientIsReported'
         /\ proto' \in ValidSchemes
         /\ (~\E p \in LayersOf("proxy") : p < station)
              => client = head.peer /\ host = head.host
         /\ \A i : HostSeen(i)' = HostSeen(i)
<1>1. HeadTyped BY DEF HeadInv
<1>2. /\ \A kind : LayersOf(kind)' = LayersOf(kind)
      /\ station' = station + 1 /\ stage' = "request" /\ station \in Nat
  BY PassedBefore
<1>3. client' = client /\ host' = host /\ proto' = proto BY DEF inEffect
<1>4. Untouched BY DEF HeadInv
<1>5. \A p \in LayersOf("proxy") : p \in Nat /\ p # station BY DEF LayersOf
<1>6. Untouched'
  <2>1. \A p \in LayersOf("proxy") : station + 1 <= p => station <= p BY <1>2, <1>5
  <2> QED BY <1>2, <1>3, <1>4, <2>1 DEF Untouched
<1>7. ClientIsReported'
  <2>1. ClientIsReported BY DEF HeadInv
  <2> QED BY <1>2, <1>3, <2>1 DEF ClientIsReported
<1>8. ASSUME ~\E p \in LayersOf("proxy") : p < station
      PROVE  client = head.peer /\ host = head.host
  <2>1. \A p \in LayersOf("proxy") : station <= p BY <1>2, <1>5, <1>8
  <2> QED BY <1>4, <2>1 DEF Untouched
<1>9. \A i : HostSeen(i)' = HostSeen(i) BY <1>2, <1>3 DEF HostSeen
<1> QED BY <1>1, <1>3, <1>6, <1>7, <1>8, <1>9 DEF HeadTyped


\* TrustedHost::on_request.
LEMMA HostKeeps ==
  ASSUME LayersAssumption, HeadInv, stage = "request", station <= Len(chain),
         UNCHANGED <<chain, head, handled, inEffect, charged>>,
         chain[station].kind = "host", CheckHost(chain[station])
  PROVE  HeadInv'
<1>1. HeadTyped /\ ChargedOnce /\ ChargedAsSeen /\ HostsChecked /\ CrossingsChecked
  BY DEF HeadInv
<1>2. ChargedAsSeen'
  <2>1. \A kind : LayersOf(kind)' = LayersOf(kind) BY ChainStays
  <2> QED BY <1>1, <2>1 DEF ChargedAsSeen, inEffect
<1>3. CASE Respond(Answer(400))
  <2>1. SoundReply(Answer(400)) BY RefusalsAreSound
  <2>2. charged' = <<>> \/ charged' = <<charged'[1]>> BY <1>1 DEF ChargedOnce
  <2> QED BY <1>2, <1>3, <2>1, <2>2, Refused
<1>4. CASE /\ Pass
           /\ (host = NotGiven /\ chain[station].missing)
                \/ (host # NotGiven /\ TrustsHost(chain[station], host))
  <2>1. /\ \A i \in 1 .. Len(chain) : Passed(i)' => Passed(i) \/ i = station
        /\ \A kind : LayersOf(kind)' = LayersOf(kind)
        /\ station \in LayersOf("host")
        /\ station' = station + 1 /\ stage' = "request" /\ station \in Nat
    BY <1>4, PassedBefore
  <2>2. /\ Untouched' /\ ClientIsReported' /\ proto' \in ValidSchemes
        /\ (~\E p \in LayersOf("proxy") : p < station)
             => client = head.peer /\ host = head.host
        /\ \A i : HostSeen(i)' = HostSeen(i)
    BY <1>4, OthersKeep
  <2>3. HostsChecked'
    <3>1. SUFFICES ASSUME NEW i \in LayersOf("host"), Passed(i)'
                   PROVE  IF HostSeen(i) = NotGiven THEN chain[i].missing
                          ELSE TrustsHost(chain[i], HostSeen(i))
      BY <2>1, <2>2 DEF HostsChecked, TrustsHost
    <3>2. CASE Passed(i) BY <1>1, <3>2 DEF HostsChecked
    <3>3. CASE i = station
      <4>1. HostSeen(i) = host BY <2>2, <3>3 DEF HostSeen
      <4> QED BY <1>4, <3>3, <4>1
    <3>4. i \in 1 .. Len(chain) BY DEF LayersOf
    <3> QED BY <2>1, <3>1, <3>2, <3>3, <3>4
  <2>4. ChargedOnce'
    <3>1. \A i \in LayersOf("limit") : i < station => i < station + 1
      BY <2>1 DEF LayersOf
    <3> QED BY <1>1, <2>1, <3>1 DEF ChargedOnce
  <2>5. CrossingsChecked'
    <3>1. \A i \in LayersOf("cors") : Passed(i)' => Passed(i) BY <2>1 DEF LayersOf
    <3> QED BY <1>1, <2>1, <3>1 DEF CrossingsChecked
  <2> QED BY <1>2, <1>4, <2>2, <2>3, <2>4, <2>5, LetThrough
<1> QED BY <1>3, <1>4 DEF CheckHost

\* Cors::on_request.
LEMMA CorsKeeps ==
  ASSUME LayersAssumption, HeadInv, stage = "request", station <= Len(chain),
         UNCHANGED <<chain, head, handled, inEffect, charged>>,
         chain[station].kind = "cors",
         IF Intercept(chain[station]) = NotGiven THEN Pass
         ELSE Respond(Intercept(chain[station]))
  PROVE  HeadInv'
<1>1. HeadTyped /\ ChargedOnce /\ ChargedAsSeen /\ HostsChecked /\ CrossingsChecked
  BY DEF HeadInv
<1>2. chain \in Chains /\ head \in Heads /\ station \in LayersOf("cors")
  BY <1>1 DEF HeadTyped, LayersOf
<1>3. ChargedAsSeen'
  <2>1. \A kind : LayersOf(kind)' = LayersOf(kind) BY ChainStays
  <2> QED BY <1>1, <2>1 DEF ChargedAsSeen, inEffect
<1>4. CASE Intercept(chain[station]) # NotGiven
  <2>1. PICK r : r = Intercept(chain[station]) OBVIOUS
  <2>2. SoundReply(r) BY <1>2, <1>4, <2>1, InterceptIsSound
  <2>3. Respond(r) BY <1>4, <2>1
  <2>4. charged' = <<>> \/ charged' = <<charged'[1]>> BY <1>1 DEF ChargedOnce
  <2> QED BY <1>3, <2>2, <2>3, <2>4, Refused
<1>5. CASE Intercept(chain[station]) = NotGiven
  <2> Pass BY <1>5
  <2>1. /\ \A i \in 1 .. Len(chain) : Passed(i)' => Passed(i) \/ i = station
        /\ \A kind : LayersOf(kind)' = LayersOf(kind)
        /\ station' = station + 1 /\ stage' = "request" /\ station \in Nat
    BY PassedBefore
  <2>2. /\ Untouched' /\ ClientIsReported' /\ proto' \in ValidSchemes
        /\ \A i : HostSeen(i)' = HostSeen(i)
    BY OthersKeep
  <2>3. HostsChecked'
    <3>1. \A i \in LayersOf("host") : Passed(i)' => Passed(i) BY <2>1 DEF LayersOf
    <3> QED BY <1>1, <2>1, <2>2, <3>1 DEF HostsChecked, TrustsHost
  <2>4. ChargedOnce'
    <3>1. \A i \in LayersOf("limit") : i < station => i < station + 1
      BY <2>1 DEF LayersOf
    <3> QED BY <1>1, <2>1, <3>1 DEF ChargedOnce
  <2>5. CrossingsChecked'
    <3>1. Answer(400) # NotGiven /\ Len(head.origins) \in Nat BY <1>2, ChainIsTyped
    <3>2. ~(Len(head.origins) > 1) BY <1>5, <3>1 DEF Intercept
    <3> QED BY <3>1, <3>2 DEF CrossingsChecked
  <2> QED BY <1>3, <2>2, <2>3, <2>4, <2>5, LetThrough
<1> QED BY <1>4, <1>5

\* RateLimit::on_request.
LEMMA LimitKeeps ==
  ASSUME LayersAssumption, HeadInv, stage = "request", station <= Len(chain),
         UNCHANGED <<chain, head, handled, inEffect>>,
         chain[station].kind = "limit", Charge(chain[station])
  PROVE  HeadInv'
<1>1. /\ HeadTyped /\ ChargedOnce /\ HostsChecked /\ CrossingsChecked /\ Untouched
      /\ Len(chain) \in Nat /\ chain \in Chains /\ head \in Heads
  BY DEF HeadInv, HeadTyped
<1>2. station \in LayersOf("limit") /\ station \in Nat BY <1>1 DEF HeadTyped, LayersOf
<1>3. charged = <<>>
  <2>1. ~(station < station) BY <1>2
  <2> QED BY <1>1, <1>2, <2>1 DEF ChargedOnce
<1>4. PICK key : key = IF chain[station].global THEN NotGiven ELSE client OBVIOUS
<1>5. charged' = <<key>> BY <1>3, <1>4 DEF Charge
<1>6. charged' = <<charged'[1]>> /\ Len(charged') = 1 /\ charged'[1] = key BY <1>5
<1>7. ChargedAsSeen'
  <2>1. \A kind : LayersOf(kind)' = LayersOf(kind) BY ChainStays
  <2>2. \A l \in LayersOf("limit") : l = station BY <1>1, <1>2, OneOfAKind
  <2>3. (~\E p \in LayersOf("proxy") : p < station) => client = head.peer
    <3>1. ASSUME ~\E p \in LayersOf("proxy") : p < station, NEW p \in LayersOf("proxy")
          PROVE  station <= p
      BY <1>2, <3>1 DEF LayersOf
    <3>2. stage = "request" OBVIOUS
    <3> QED BY <1>1, <3>1, <3>2 DEF Untouched
  <2>4. client' = client BY DEF inEffect
  <2>5. key = IF chain[station].global THEN NotGiven
              ELSE IF \E p \in LayersOf("proxy") : p < station THEN client
              ELSE head.peer
    BY <1>4, <2>3
  <2>6. \A i \in 1 .. Len(charged') : i = 1 BY <1>6
  <2> QED BY <1>6, <2>1, <2>2, <2>4, <2>5, <2>6 DEF ChargedAsSeen
<1>8. CASE Respond(Answer(429))
  <2>1. SoundReply(Answer(429)) BY RefusalsAreSound
  <2> QED BY <1>6, <1>7, <1>8, <2>1, Refused
<1>9. CASE Pass
  <2>1. /\ \A i \in 1 .. Len(chain) : Passed(i)' => Passed(i) \/ i = station
        /\ \A kind : LayersOf(kind)' = LayersOf(kind)
        /\ station' = station + 1 /\ stage' = "request" /\ station \in Nat
    BY <1>9, PassedBefore
  <2>2. /\ Untouched' /\ ClientIsReported' /\ proto' \in ValidSchemes
        /\ \A i : HostSeen(i)' = HostSeen(i)
    BY <1>9, OthersKeep
  <2>3. HostsChecked'
    <3>1. \A i \in LayersOf("host") : Passed(i)' => Passed(i) BY <2>1 DEF LayersOf
    <3> QED BY <1>1, <2>1, <2>2, <3>1 DEF HostsChecked, TrustsHost
  <2>4. ChargedOnce'
    <3>1. \A l \in LayersOf("limit") : l = station BY <1>1, <1>2, OneOfAKind
    <3>2. station < station' BY <2>1
    <3> QED BY <1>6, <2>1, <3>1, <3>2 DEF ChargedOnce
  <2>5. CrossingsChecked'
    <3>1. \A i \in LayersOf("cors") : Passed(i)' => Passed(i) BY <2>1 DEF LayersOf
    <3> QED BY <1>1, <2>1, <3>1 DEF CrossingsChecked
  <2> QED BY <1>7, <1>9, <2>2, <2>3, <2>4, <2>5, LetThrough
<1> QED BY <1>8, <1>9 DEF Charge

\* The handler answers once every layer has passed the request on.
LEMMA HandleKeeps ==
  ASSUME LayersAssumption, HeadInv, HandleHead
  PROVE  HeadInv'
<1>1. /\ HeadTyped /\ ClientIsReported /\ ChargedOnce /\ ChargedAsSeen /\ HostsChecked
      /\ CrossingsChecked /\ Len(chain) \in Nat
  BY DEF HeadInv, HeadTyped
<1>2. PICK vary \in {<<>>, <<"origin">>, <<"accept-encoding">>} :
        Respond([Answer(200) EXCEPT !.vary = vary])
  BY DEF HandleHead
<1>3. PICK r : r = [Answer(200) EXCEPT !.vary = vary] OBVIOUS
<1>4. SoundReply(r)
  <2>1. NamesSoundly(r) /\ r.status = 200
    <3> DEFINE code == 200
    <3>1. r = [Answer(code) EXCEPT !.vary = vary] BY <1>3
    <3> HIDE DEF code
    <3>2. NamesSoundly(r) /\ r.status = code BY <3>1, AnswersAreSound
    <3> QED BY <3>2 DEF code
  <2> QED BY <2>1 DEF SoundReply, Permits
<1>5. /\ reply' = r /\ stage' = "response" /\ station' = Len(chain) /\ handled' = TRUE
      /\ UNCHANGED <<chain, head, inEffect, charged>> /\ station > Len(chain)
      /\ stage = "request"
  BY <1>2, <1>3 DEF Respond, HandleHead
<1>6. client' = client /\ host' = host /\ proto' = proto BY <1>5 DEF inEffect
<1>7. (\A kind : LayersOf(kind)' = LayersOf(kind)) /\ SoundReply(r)' BY <1>4, <1>5, ChainStays
<1>8. HeadTyped'
  <2>1. IsReply(r) BY <1>4 DEF SoundReply, NamesSoundly
  <2> QED BY <1>1, <1>5, <1>6, <2>1 DEF HeadTyped, IsReply
<1>9. \A i \in 1 .. Len(chain) : Passed(i)
  BY <1>1, <1>5 DEF Passed, HeadTyped
<1>10. Untouched' BY <1>5 DEF Untouched
<1>11. ClientIsReported' BY <1>1, <1>5, <1>6, <1>7 DEF ClientIsReported
<1>12. HostsChecked'
  <2>1. \A i : HostSeen(i)' = HostSeen(i) BY <1>5, <1>6, <1>7 DEF HostSeen
  <2>2. \A i \in LayersOf("host") : Passed(i) BY <1>9 DEF LayersOf
  <2> QED BY <1>1, <1>5, <1>7, <2>1, <2>2 DEF HostsChecked, TrustsHost
<1>13. ChargedOnce' BY <1>1, <1>5 DEF ChargedOnce
<1>14. ChargedAsSeen' BY <1>1, <1>5, <1>6, <1>7 DEF ChargedAsSeen
<1>15. SoundReply(reply)' BY <1>5, <1>7
<1>16. OriginsNamed'
  <2>1. ASSUME NEW i \in LayersOf("cors"), i > station' PROVE FALSE
    BY <1>1, <1>5, <2>1 DEF LayersOf
  <2> QED BY <1>7, <2>1 DEF OriginsNamed
<1>17. CrossingsChecked'
  <2>1. \A i \in LayersOf("cors") : Passed(i) BY <1>9 DEF LayersOf
  <2> QED BY <1>1, <1>5, <1>7, <2>1 DEF CrossingsChecked
<1> QED BY <1>8, <1>10, <1>11, <1>12, <1>13, <1>14, <1>15, <1>16, <1>17 DEF HeadInv

\* Layer::on_response, and the response as it leaves.
LEMMA ReturningKeeps ==
  ASSUME LayersAssumption, HeadInv, OnResponse \/ Return
  PROVE  HeadInv'
<1>1. /\ HeadTyped /\ ClientIsReported /\ ChargedOnce /\ ChargedAsSeen /\ HostsChecked
      /\ CrossingsChecked /\ Len(chain) \in Nat /\ SoundReply(reply) /\ OriginsNamed
      /\ chain \in Chains /\ head \in Heads
  BY DEF HeadInv, HeadTyped
<1>2. /\ UNCHANGED <<chain, head, inEffect, charged, handled>>
      /\ stage = "response" /\ stage' # "request"
  BY DEF OnResponse, Return
<1>3. client' = client /\ host' = host /\ proto' = proto BY <1>2 DEF inEffect
<1>4. \A kind : LayersOf(kind)' = LayersOf(kind) BY <1>2, ChainStays
<1>5. \A i : Passed(i)' => Passed(i) BY <1>2 DEF Passed
<1>6. PICK s : s = reply' OBVIOUS
<1>7. /\ SoundReply(s)
      /\ reply.origin # NotGiven => s.origin # NotGiven
      /\ \A i \in LayersOf("cors") :
           OnResponse /\ i = station /\ Len(head.origins) = 1
             /\ AllowedOrigin(chain[i], head.origins[1]) => s.origin # NotGiven
  <2> DEFINE named == /\ OnResponse /\ station \in LayersOf("cors")
                      /\ Len(head.origins) = 1
                      /\ AllowedOrigin(chain[station], head.origins[1])
  <2>1. CASE named
    <3>1. Head(head.origins) = head.origins[1] OBVIOUS
    <3>2. s = ApplyHeaders(chain[station], head.origins[1], reply)
      BY <1>6, <2>1, <3>1 DEF OnResponse, CorsOnResponse, LayersOf
    <3>3. /\ NamesSoundly(s) /\ s.origin # NotGiven /\ s.status = reply.status
          /\ s.headers = reply.headers
      BY <1>1, <2>1, <3>2, HeadersAreSound DEF SoundReply
    <3>4. Permits(s) BY <1>1, <3>3 DEF SoundReply, Permits
    <3> QED BY <3>3, <3>4 DEF SoundReply
  <2>2. CASE ~named
    <3>1. s = reply
      <4>1. CASE Return BY <1>6, <4>1 DEF Return
      <4>2. CASE OnResponse
        <5>1. station \in 1 .. Len(chain) BY <1>1, <4>2 DEF HeadTyped, OnResponse
        <5>2. chain[station].kind = "cors" => station \in LayersOf("cors")
          BY <5>1 DEF LayersOf
        <5>3. Len(head.origins) = 1 => Head(head.origins) = head.origins[1] OBVIOUS
        <5> QED BY <1>6, <2>2, <4>2, <5>2, <5>3 DEF OnResponse, CorsOnResponse
      <4> QED BY <4>1, <4>2
    <3> QED BY <1>1, <2>2, <3>1
  <2> QED BY <2>1, <2>2
<1>8. HeadTyped'
  <2>1. IsReply(s) BY <1>7 DEF SoundReply, NamesSoundly
  <2>2. \/ stage' = "response" /\ station' \in 0 .. Len(chain)
        \/ stage' = "done" /\ station' = 0
    BY <1>1 DEF HeadTyped, OnResponse, Return
  <2> QED BY <1>1, <1>2, <1>3, <1>6, <2>1, <2>2 DEF HeadTyped, IsReply
<1>9. Untouched' BY <1>2 DEF Untouched
<1>10. ClientIsReported' BY <1>1, <1>2, <1>3, <1>4 DEF ClientIsReported
<1>11. HostsChecked'
  <2>1. \A i : HostSeen(i)' = HostSeen(i) BY <1>2, <1>3, <1>4 DEF HostSeen
  <2> QED BY <1>1, <1>2, <1>4, <1>5, <2>1 DEF HostsChecked, TrustsHost
<1>12. ChargedOnce' BY <1>1, <1>2 DEF ChargedOnce
<1>13. ChargedAsSeen' BY <1>1, <1>2, <1>3, <1>4 DEF ChargedAsSeen
<1>14. SoundReply(reply)'
  <2>1. SoundReply(s)' BY <1>2, <1>7, ChainStays
  <2> QED BY <1>6, <2>1
<1>15. OriginsNamed'
  <2>1. SUFFICES ASSUME NEW i \in LayersOf("cors"), i > station', Len(head.origins) = 1,
                        AllowedOrigin(chain[i], head.origins[1])
                 PROVE  s.origin # NotGiven
    BY <1>2, <1>4, <1>6 DEF OriginsNamed, AllowedOrigin
  <2>2. i > station \/ (OnResponse /\ i = station)
    BY <1>1, <2>1 DEF LayersOf, HeadTyped, OnResponse, Return
  <2>3. CASE i > station
    <3>1. reply.origin # NotGiven BY <1>1, <1>2, <2>1, <2>3 DEF OriginsNamed
    <3> QED BY <1>7, <3>1
  <2> QED BY <1>7, <2>1, <2>2, <2>3
<1>16. CrossingsChecked' BY <1>1, <1>2, <1>4, <1>5 DEF CrossingsChecked
<1> QED BY <1>8, <1>9, <1>10, <1>11, <1>12, <1>13, <1>14, <1>15, <1>16 DEF HeadInv

LEMMA StepHead ==
  ASSUME LayersAssumption, HeadInv, [HeadNext]_headVars PROVE HeadInv'
<1>1. CASE UNCHANGED headVars
  <2> USE <1>1 DEF headVars
  <2>1. \A kind : LayersOf(kind)' = LayersOf(kind) BY DEF LayersOf
  <2>2. HeadTyped' BY DEF HeadInv, HeadTyped, IsReply
  <2>3. \A i : (Passed(i)' <=> Passed(i)) /\ HostSeen(i)' = HostSeen(i)
    BY <2>1 DEF Passed, HostSeen
  <2>4. Untouched' /\ ClientIsReported'
    BY <2>1 DEF HeadInv, Untouched, ClientIsReported
  <2>5. HostsChecked' /\ CrossingsChecked'
    BY <2>1, <2>3 DEF HeadInv, HostsChecked, CrossingsChecked, TrustsHost
  <2>6. ChargedOnce' /\ ChargedAsSeen' BY <2>1 DEF HeadInv, ChargedOnce, ChargedAsSeen
  <2>7. OriginsNamed' BY <2>1 DEF HeadInv, OriginsNamed, AllowedOrigin
  <2>8. SoundReply(reply)'
    <3>1. PICK r : r = reply OBVIOUS
    <3>2. SoundReply(r)' BY <3>1, ChainStays DEF HeadInv
    <3> QED BY <3>1, <3>2
  <2> QED BY <2>2, <2>4, <2>5, <2>6, <2>7, <2>8 DEF HeadInv
<1>2. CASE OnRequest
  <2>1. /\ stage = "request" /\ station <= Len(chain) /\ UNCHANGED <<chain, head, handled>>
    BY <1>2 DEF OnRequest
  <2>2. CASE /\ chain[station].kind = "proxy" /\ Normalize(chain[station]) /\ Pass
             /\ UNCHANGED charged
    BY <2>1, <2>2, ProxyKeeps
  <2>3. CASE /\ chain[station].kind = "host" /\ CheckHost(chain[station])
             /\ UNCHANGED <<inEffect, charged>>
    BY <2>1, <2>3, HostKeeps
  <2>4. CASE /\ chain[station].kind = "cors"
             /\ IF Intercept(chain[station]) = NotGiven THEN Pass
                ELSE Respond(Intercept(chain[station]))
             /\ UNCHANGED <<inEffect, charged>>
    BY <2>1, <2>4, CorsKeeps
  <2>5. CASE chain[station].kind = "limit" /\ Charge(chain[station]) /\ UNCHANGED inEffect
    BY <2>1, <2>5, LimitKeeps
  <2> QED BY <1>2, <2>2, <2>3, <2>4, <2>5 DEF OnRequest
<1>3. CASE HandleHead BY <1>3, HandleKeeps
<1>4. CASE OnResponse \/ Return BY <1>4, ReturningKeeps
<1> QED BY <1>1, <1>2, <1>3, <1>4 DEF HeadNext

LEMMA HeadIsDecided == ASSUME HeadInv PROVE HeadTypeOK /\ HeadsDecide
<1> USE DEF HeadInv
<1>1. ClientIsReported /\ ChargedAsSeen OBVIOUS
<1>2. HostIsAllowed
  <2>1. \A i : handled => Passed(i) BY DEF Passed
  <2> QED BY <2>1 DEF HostIsAllowed, HostsChecked, HostSeen
<1>3. OriginsAreAllowed
  BY DEF OriginsAreAllowed, SoundReply, NamesSoundly, VaryOnce, IsAllowedOrigin
<1>4. OriginsAreTold
  <2>1. SUFFICES ASSUME stage = "done", NEW i \in LayersOf("cors")
                 PROVE  /\ Len(head.origins) = 1 /\ AllowedOrigin(chain[i], head.origins[1])
                             => reply.origin # NotGiven
                        /\ reply.status = 204 =>
                             /\ head.wants \in chain[i].methods
                             /\ "*" \notin chain[i].headers =>
                                  ToSet(reply.headers) \subseteq chain[i].headers
                        /\ handled => Len(head.origins) < 2
    BY DEF OriginsAreTold
  <2>2. i > station BY <2>1 DEF HeadTyped, LayersOf
  <2>3. handled => Len(head.origins) < 2 BY DEF CrossingsChecked, Passed
  <2> QED BY <2>1, <2>2, <2>3 DEF OriginsNamed, SoundReply, Permits
<1>5. HeadTypeOK
  <2>1. DOMAIN reply = DOMAIN NoResponse
    <3>1. DOMAIN reply = {"status", "origin", "credentials", "methods", "headers", "vary"}
      BY DEF HeadTyped, IsReply
    <3>2. DOMAIN NoResponse = {"status", "origin", "credentials", "methods", "headers", "vary"}
      BY DEF NoResponse
    <3> QED BY <3>1, <3>2
  <2>2. Len(charged) <= 1
    <3>1. charged = <<>> \/ charged = <<charged[1]>> BY DEF ChargedOnce
    <3>2. \A x : Len(<<x>>) = 1 OBVIOUS
    <3> HIDE DEF HeadInv
    <3>3. Len(charged) \in {0, 1} BY <3>1, <3>2
    <3>4. \A n \in {0, 1} : n <= 1 OBVIOUS
    <3> QED BY <3>3, <3>4
  <2>3. station \in 0 .. Len(chain) + 1 /\ stage \in {"request", "response", "done"}
    BY DEF HeadTyped
  <2> QED BY <2>1, <2>2, <2>3 DEF HeadTypeOK, HeadTyped
<1>6. HeadsDecide BY <1>1, <1>2, <1>3, <1>4, <1>5 DEF HeadsDecide
<1> QED BY <1>5, <1>6

LEMMA HeadsAreSound == ASSUME LayersAssumption PROVE HeadSpec => []HeadInv
<1>1. HeadInit => HeadInv BY InitHead
<1>2. HeadInv /\ [HeadNext]_headVars => HeadInv' BY StepHead
<1> QED BY <1>1, <1>2, PTL DEF HeadSpec

\* The variables of the layers have their types, however they are chained.
THEOREM HeadsStayTyped == ASSUME LayersAssumption PROVE HeadSpec => []HeadTypeOK
<1>1. HeadSpec => []HeadInv BY HeadsAreSound
<1>2. HeadInv => HeadTypeOK BY HeadIsDecided
<1> QED BY <1>1, <1>2, PTL

\* Whatever layers of middleware an application chains, in whatever order, and
\* whatever head arrives: the client counted and charged is the peer or one that
\* trusted proxies report, the handler runs only under a host TrustedHost allows,
\* and a response names an origin, or permits a preflight, only as Cors allows.
THEOREM HeadsStayDecided == ASSUME LayersAssumption PROVE HeadSpec => []HeadsDecide
<1>1. HeadSpec => []HeadInv BY HeadsAreSound
<1>2. HeadInv => HeadsDecide BY HeadIsDecided
<1> QED BY <1>1, <1>2, PTL

(***************************************************************************)
(*                            The encoded bodies                           *)
(***************************************************************************)

Joined(s, part) == s \o part

\* f[i] is what the first i parts give together, for the parts up to n.
Joins(f, parts, n) ==
  /\ DOMAIN f = 1 .. n
  /\ \A i \in 1 .. n : f[i] = IF i = 1 THEN parts[i] ELSE Joined(f[i - 1], parts[i])

\* Every sequence of parts can be joined.
LEMMA JoinExists ==
  ASSUME NEW parts, Len(parts) \in Nat
  PROVE  \E f : Joins(f, parts, Len(parts))
<1> DEFINE N == Len(parts)
           S == {n \in Nat : \E f : Joins(f, parts, n)}
<1>1. 0 \in S
  <2>1. Joins([i \in 1 .. 0 |-> 0], parts, 0) BY DEF Joins
  <2> QED BY <2>1
<1>2. ASSUME NEW n \in 0 .. N, n \in S PROVE n + 1 \in S
  <2>1. PICK g : Joins(g, parts, n) BY <1>2
  <2> DEFINE final == IF n = 0 THEN parts[1] ELSE Joined(g[n], parts[n + 1])
             f == [i \in 1 .. n + 1 |-> IF i = n + 1 THEN final ELSE g[i]]
  <2>2. n \in Nat OBVIOUS
  <2>3. DOMAIN f = 1 .. n + 1 /\ f[n + 1] = final /\ \A i \in 1 .. n : f[i] = g[i]
    BY <2>2
  <2>4. ASSUME NEW i \in 1 .. n + 1
        PROVE  f[i] = IF i = 1 THEN parts[i] ELSE Joined(f[i - 1], parts[i])
    <3> HIDE DEF f
    <3>1. CASE i = n + 1 /\ n = 0 BY <2>2, <2>3, <3>1
    <3>2. CASE i = n + 1 /\ n # 0
      <4>1. n \in 1 .. n /\ i - 1 = n /\ i # 1 BY <2>2, <3>2
      <4>2. f[i - 1] = g[n] BY <4>1, <2>3
      <4>3. f[i] = Joined(g[n], parts[i]) BY <3>2, <2>3
      <4> QED BY <4>1, <4>2, <4>3
    <3>3. CASE i \in 1 .. n
      <4>1. i # 1 => i - 1 \in 1 .. n BY <2>2, <3>3
      <4>2. f[i] = g[i] BY <2>3, <3>3
      <4>3. g[i] = IF i = 1 THEN parts[i] ELSE Joined(g[i - 1], parts[i]) BY <2>1, <3>3 DEF Joins
      <4>4. CASE i = 1 BY <4>2, <4>3, <4>4
      <4>5. CASE i # 1
        <5>1. f[i - 1] = g[i - 1] BY <4>1, <4>5, <2>3
        <5> QED BY <4>2, <4>3, <4>5, <5>1
      <4> QED BY <4>4, <4>5
    <3> QED BY <2>2, <3>1, <3>2, <3>3
  <2> HIDE DEF f
  <2>5. Joins(f, parts, n + 1) BY <2>3, <2>4 DEF Joins
  <2> QED BY <2>2, <2>5
<1>3. N \in S
  <2> HIDE DEF S, N
  <2>1. N \in Nat BY DEF N
  <2>2. \A n \in 0 .. N : n \in S BY <1>1, <1>2, <2>1, Climbs
  <2> QED BY <2>1, <2>2
<1> QED BY <1>3

\* What FlattenSeq gives of parts there are is their join.
LEMMA FlattenJoins ==
  ASSUME NEW parts, Len(parts) \in Nat, Len(parts) # 0
  PROVE  \E f : Joins(f, parts, Len(parts)) /\ FlattenSeq(parts) = f[Len(parts)]
<1> DEFINE N == Len(parts)
           F(f) == [i \in 1 .. Len(parts) |->
                      IF i = 1 THEN parts[i] ELSE f[i - 1] \o parts[i]]
           joined == CHOOSE f : f = F(f)
<1>1. PICK g : Joins(g, parts, N) BY JoinExists
<1> DEFINE h == [i \in 1 .. N |-> g[i]]
<1>2. h = F(h)
  <2>1. \A i \in 1 .. N : i # 1 => i - 1 \in 1 .. N OBVIOUS
  <2>2. \A i \in 1 .. N : h[i] = F(h)[i] BY <1>1, <2>1 DEF Joins, Joined
  <2> QED BY <2>2
<1>3. joined = F(joined)
  <2> HIDE DEF F, h
  <2> QED BY <1>2
<1>4. FlattenSeq(parts) = joined[N] BY DEF FlattenSeq
<1>5. Joins(joined, parts, N)
  <2> HIDE DEF joined
  <2>1. DOMAIN joined = 1 .. N BY <1>3
  <2>2. \A i \in 1 .. N : joined[i] = F(joined)[i] BY <1>3 DEF Joined
  <2>3. \A i \in 1 .. N : joined[i] = IF i = 1 THEN parts[i] ELSE Joined(joined[i - 1], parts[i])
    BY <2>2 DEF Joined
  <2> QED BY <2>1, <2>3 DEF Joins
<1> QED BY <1>4, <1>5

\* Joins of sequences that begin alike begin alike.
Alike(s, t, n) == \A i \in 1 .. n : s[i] = t[i]

LEMMA JoinsAgree ==
  ASSUME NEW p, NEW q, NEW n \in Nat, NEW m \in Nat, n <= m,
         Alike(p, q, n), NEW f, NEW g, Joins(f, p, n), Joins(g, q, m)
  PROVE  Alike(f, g, n)
<1> DEFINE S == {k \in Nat : k \in 1 .. n => f[k] = g[k]}
<1>1. 0 \in S OBVIOUS
<1>2. ASSUME NEW k \in 0 .. n, k \in S /\ k < n PROVE k + 1 \in S
  <2>1. k \in Nat /\ k + 1 \in 1 .. n /\ k + 1 \in 1 .. m /\ k + 1 - 1 = k BY <1>2
  <2>2. p[k + 1] = q[k + 1] BY <2>1 DEF Alike
  <2>3. /\ f[k + 1] = IF k + 1 = 1 THEN p[k + 1] ELSE Joined(f[k + 1 - 1], p[k + 1])
        /\ g[k + 1] = IF k + 1 = 1 THEN q[k + 1] ELSE Joined(g[k + 1 - 1], q[k + 1])
    BY <2>1 DEF Joins
  <2>4. f[k + 1] = g[k + 1]
    <3>1. CASE k = 0 BY <2>2, <2>3, <3>1
    <3>2. CASE k # 0
      <4>1. k \in 1 .. n /\ k + 1 # 1 BY <2>1, <3>2
      <4>2. f[k] = g[k] BY <1>2, <4>1
      <4> QED BY <2>1, <2>2, <2>3, <4>1, <4>2
    <3> QED BY <3>1, <3>2
  <2> QED BY <2>1, <2>4
<1>3. \A k \in 0 .. n : k \in S
  <2> HIDE DEF S
  <2> QED BY <1>1, <1>2, Climbs
<1> QED BY <1>3 DEF Alike

\* Flattening parts gives a sequence of their elements, and a further part comes
\* after what the others give.
LEMMA FlattenIsSeq ==
  ASSUME NEW S, NEW parts \in Seq(Seq(S))
  PROVE  FlattenSeq(parts) \in Seq(S)
<1>1. CASE parts = <<>> BY <1>1 DEF FlattenSeq
<1>2. CASE parts # <<>>
  <2>1. Len(parts) \in Nat /\ Len(parts) # 0 BY <1>2
  <2>2. PICK f : Joins(f, parts, Len(parts)) /\ FlattenSeq(parts) = f[Len(parts)]
    BY <2>1, FlattenJoins
  <2> DEFINE N == Len(parts)
             Good == {k \in Nat : k \in 1 .. N => f[k] \in Seq(S)}
  <2>3. 0 \in Good OBVIOUS
  <2>4. ASSUME NEW k \in 0 .. N, k \in Good /\ k < N PROVE k + 1 \in Good
    <3>1. k \in Nat /\ k + 1 \in 1 .. N /\ k + 1 - 1 = k BY <2>4, <2>1
    <3>2. parts[k + 1] \in Seq(S) BY <3>1
    <3>3. f[k + 1] = IF k + 1 = 1 THEN parts[k + 1] ELSE Joined(f[k + 1 - 1], parts[k + 1])
      BY <3>1, <2>2 DEF Joins
    <3>4. CASE k = 0 BY <3>1, <3>2, <3>3, <3>4
    <3>5. CASE k # 0
      <4>1. k \in 1 .. N /\ k + 1 # 1 BY <3>1, <3>5
      <4>2. f[k] \in Seq(S) BY <2>4, <4>1
      <4>3. f[k + 1] = Joined(f[k], parts[k + 1]) BY <3>1, <3>3, <4>1
      <4>4. f[k + 1] \in Seq(S)
        <5> HIDE DEF Good
        <5> QED BY <3>2, <4>2, <4>3 DEF Joined
      <4> QED BY <3>1, <4>4
    <3> QED BY <3>4, <3>5
  <2>5. \A k \in 0 .. N : k \in Good
    <3> HIDE DEF Good
    <3> QED BY <2>1, <2>3, <2>4, Climbs
  <2> QED BY <2>1, <2>2, <2>5
<1> QED BY <1>1, <1>2

LEMMA FlattenAppends ==
  ASSUME NEW S, NEW parts \in Seq(Seq(S)), NEW part \in Seq(S)
  PROVE  FlattenSeq(Append(parts, part)) = FlattenSeq(parts) \o part
<1> DEFINE q == Append(parts, part)
           N == Len(parts)
<1>1. /\ N \in Nat /\ q \in Seq(Seq(S)) /\ Len(q) = N + 1 /\ q[N + 1] = part
      /\ \A i \in 1 .. N : q[i] = parts[i]
  OBVIOUS
<1> HIDE DEF q
<1>2. PICK g : Joins(g, q, N + 1) /\ FlattenSeq(q) = g[N + 1]
  <2>1. Len(q) \in Nat /\ Len(q) # 0 BY <1>1
  <2> QED BY <1>1, <2>1, FlattenJoins
<1>3. PICK m : m = N + 1 /\ g[m] = IF m = 1 THEN q[m] ELSE Joined(g[m - 1], q[m])
  <2>1. PICK m : m = N + 1 OBVIOUS
  <2>2. m \in 1 .. m BY <1>1, <2>1
  <2>3. Joins(g, q, m) BY <1>2, <2>1
  <2> HIDE DEF N
  <2>4. g[m] = IF m = 1 THEN q[m] ELSE Joined(g[m - 1], q[m]) BY <2>2, <2>3 DEF Joins
  <2> QED BY <2>1, <2>4
<1>4. CASE N = 0
  <2>1. parts = <<>> BY <1>4
  <2>2. FlattenSeq(parts) = <<>> BY <2>1 DEF FlattenSeq
  <2>3. FlattenSeq(q) = part BY <1>1, <1>2, <1>3, <1>4
  <2> QED BY <2>2, <2>3 DEF q
<1>5. CASE N # 0
  <2>1. PICK f : Joins(f, parts, N) /\ FlattenSeq(parts) = f[N]
    BY <1>1, <1>5, FlattenJoins
  <2>2. \A i \in 1 .. N : f[i] = g[i]
    <3>1. m \in Nat /\ m = N + 1 BY <1>1, <1>3
    <3>2. N <= m BY <1>1, <3>1
    <3>3. Alike(parts, q, N) BY <1>1 DEF Alike
    <3>4. N \in Nat /\ Joins(f, parts, N) /\ Joins(g, q, m) BY <1>1, <1>2, <2>1, <3>1
    <3> HIDE DEF N
    <3>5. Alike(f, g, N) BY <3>1, <3>2, <3>3, <3>4, JoinsAgree
    <3> QED BY <3>5 DEF Alike
  <2>3. N \in 1 .. N /\ N + 1 # 1 /\ N + 1 - 1 = N BY <1>1, <1>5
  <2>4. m # 1 /\ m - 1 = N
    <3>1. m = N + 1 /\ N \in Nat /\ N # 0 BY <1>1, <1>3, <1>5
    <3> HIDE DEF N
    <3> QED BY <3>1
  <2>5. g[N] = f[N] BY <2>2, <2>3
  <2>6. q[m] = part BY <1>1, <1>3
  <2>7. g[m] = Joined(f[N], part) BY <1>3, <2>4, <2>5, <2>6
  <2>8. g[N + 1] = g[m] BY <1>3
  <2> QED BY <1>2, <2>1, <2>7, <2>8 DEF q, Joined
<1> QED BY <1>4, <1>5

\* The largest index of some is one of them.
LEMMA LastIsOne ==
  ASSUME NEW n \in Nat, NEW I \in SUBSET (1 .. n), I # {}
  PROVE  Max(I) \in I
<1> DEFINE Above == {k \in Nat : k <= n /\ n - k \in I}
<1>1. Above \in SUBSET Nat /\ Above # {}
  <2>1. PICK x \in I : TRUE OBVIOUS
  <2>2. x \in 1 .. n /\ n - x \in Nat /\ n - x <= n /\ n - (n - x) = x BY <2>1
  <2> QED BY <2>1, <2>2
<1>2. PICK k \in Above : \A m \in Above : k <= m BY <1>1, LeastOne
<1>3. n - k \in I /\ k \in Nat BY <1>2
<1>4. ASSUME NEW y \in I PROVE n - k >= y
  <2>1. y \in 1 .. n /\ n - y \in Nat /\ n - y <= n /\ n - (n - y) = y BY <1>4
  <2>2. n - y \in Above BY <2>1
  <2>3. k <= n - y BY <1>2, <2>2
  <2> QED BY <1>3, <2>1, <2>3
<1> QED BY <1>3, <1>4 DEF Max

\* The quality of a coding is a number.
LEMMA QualityIsNat ==
  ASSUME AcceptancesAssumption, accepted \in Acceptances \ {Unstated}, NEW name
  PROVE  Quality(name) \in Nat
<1>1. ASSUME NEW x PROVE Named(x) = Unstated \/ Named(x) \in Nat
  <2> DEFINE I == {i \in 1 .. Len(accepted) : accepted[i].name = x}
  <2>1. Named(x) = IF I # {} THEN IF Max(I) = 0 THEN Unstated ELSE accepted[Max(I)].quality
                   ELSE Unstated
    BY DEF Named, SelectLastInSeq
  <2>2. CASE I = {} BY <2>1, <2>2
  <2>3. CASE I # {}
    <3>1. Len(accepted) \in Nat BY DEF AcceptancesAssumption
    <3>2. I \in SUBSET (1 .. Len(accepted)) OBVIOUS
    <3>3. Max(I) \in I BY <2>3, <3>1, <3>2, LastIsOne
    <3>4. Max(I) \in 1 .. Len(accepted) BY <3>3
    <3>5. accepted[Max(I)].quality \in Nat BY <3>4 DEF AcceptancesAssumption
    <3>6. Max(I) # 0 BY <3>1, <3>4
    <3> HIDE DEF I
    <3> QED BY <2>1, <2>3, <3>5, <3>6
  <2> QED BY <2>2, <2>3
<1> QED BY <1>1 DEF Quality

\* What is preferred is acceptable, and no coding is liked more.
LEMMA PreferredIsBest ==
  ASSUME BodiesAssumption, accepted \in Acceptances, Preferred # Unstated
  PROVE  /\ accepted # Unstated /\ Preferred \in Codings /\ Quality(Preferred) > 0
         /\ \A c \in Codings : Quality(c) <= Quality(Preferred)
<1>1. accepted # Unstated BY DEF Preferred
<1>2. Quality("br") \in Nat /\ Quality("gzip") \in Nat
  BY <1>1, QualityIsNat DEF BodiesAssumption
<1>3. PICK b \in Nat, g \in Nat : b = Quality("br") /\ g = Quality("gzip") BY <1>2
<1>4. ~(b = 0 /\ g = 0) /\ Preferred = IF b >= g THEN "br" ELSE "gzip"
  BY <1>3 DEF Preferred
<1>5. CASE b >= g
  <2>1. Preferred = "br" BY <1>4, <1>5
  <2>2. b > 0 /\ b <= b /\ g <= b BY <1>4, <1>5
  <2> QED BY <1>1, <1>3, <2>1, <2>2 DEF Codings
<1>6. CASE ~(b >= g)
  <2>1. Preferred = "gzip" BY <1>4, <1>6
  <2>2. g > 0 /\ g <= g /\ b <= g BY <1>4, <1>6
  <2> QED BY <1>1, <1>3, <2>1, <2>2 DEF Codings
<1> QED BY <1>5, <1>6

\* What of a stream is decoded as it is yielded.
Parts == [bytes : Seq(Nat), empty : BOOLEAN, trailer : BOOLEAN]

LEMMA DecodedGrows ==
  ASSUME out \in Seq(Parts)
  PROVE  /\ Decoded \in Seq(Nat)
         /\ out = <<>> => Decoded = <<>>
         /\ out' = out => Decoded' = Decoded
         /\ \A p \in Parts : out' = Append(out, p) => Decoded' = Decoded \o p.bytes
<1> DEFINE Bytes(o) == [i \in 1 .. Len(o) |-> o[i].bytes]
<1>1. Bytes(out) \in Seq(Seq(Nat))
  <2>1. ASSUME NEW i \in 1 .. Len(out) PROVE out[i].bytes \in Seq(Nat)
    <3>1. PICK p \in Parts : p = out[i] OBVIOUS
    <3>2. p.bytes \in Seq(Nat) BY DEF Parts
    <3> QED BY <3>1, <3>2
  <2>2. Len(out) \in Nat OBVIOUS
  <2> QED BY <2>1, <2>2
<1>2. Decoded = FlattenSeq(Bytes(out)) /\ Decoded' = FlattenSeq(Bytes(out')) BY DEF Decoded
<1>3. ASSUME NEW p \in Parts, out' = Append(out, p)
      PROVE  Bytes(out') = Append(Bytes(out), p.bytes) /\ p.bytes \in Seq(Nat)
  <2>1. /\ Len(out) \in Nat /\ Len(out') = Len(out) + 1 /\ out'[Len(out) + 1] = p
        /\ \A i \in 1 .. Len(out) : out'[i] = out[i]
    BY <1>3
  <2>2. p.bytes \in Seq(Nat) BY DEF Parts
  <2>3. /\ Len(Bytes(out)) = Len(out) /\ Append(Bytes(out), p.bytes) \in Seq(Seq(Nat))
        /\ Len(Append(Bytes(out), p.bytes)) = Len(out) + 1
    BY <1>1, <2>1, <2>2
  <2>4. \A i \in 1 .. Len(out) + 1 : Append(Bytes(out), p.bytes)[i] = out'[i].bytes
    <3>1. ASSUME NEW i \in 1 .. Len(out)
          PROVE  Append(Bytes(out), p.bytes)[i] = out'[i].bytes
      <4>1. Append(Bytes(out), p.bytes)[i] = Bytes(out)[i] BY <1>1, <2>1, <2>3
      <4> QED BY <2>1, <4>1
    <3>2. Append(Bytes(out), p.bytes)[Len(out) + 1] = p.bytes BY <1>1, <2>1, <2>3
    <3>3. ASSUME NEW i \in 1 .. Len(out) + 1 PROVE i \in 1 .. Len(out) \/ i = Len(out) + 1
      BY <2>1, <3>3
    <3> HIDE DEF Bytes
    <3> QED BY <2>1, <3>1, <3>2, <3>3
  <2>5. Append(Bytes(out), p.bytes) = [i \in 1 .. Len(out) + 1 |-> out'[i].bytes]
    <3> DEFINE s == Append(Bytes(out), p.bytes)
    <3>1. s = [i \in 1 .. Len(out) + 1 |-> s[i]] BY <2>3
    <3>2. \A i \in 1 .. Len(out) + 1 : s[i] = out'[i].bytes BY <2>4
    <3> HIDE DEF s
    <3> QED BY <3>1, <3>2 DEF s
  <2> QED BY <2>1, <2>2, <2>5
<1>4. out = <<>> => Decoded = <<>>
  <2> SUFFICES ASSUME out = <<>> PROVE Decoded = <<>> OBVIOUS
  <2>1. Bytes(out) = <<>> OBVIOUS
  <2> HIDE DEF Bytes
  <2> QED BY <1>2, <2>1 DEF FlattenSeq
<1> HIDE DEF Bytes
<1>5. Decoded \in Seq(Nat) BY <1>1, <1>2, FlattenIsSeq
<1>6. out' = out => Decoded' = Decoded BY <1>2
<1>7. ASSUME NEW p \in Parts, out' = Append(out, p) PROVE Decoded' = Decoded \o p.bytes
  <2>1. FlattenSeq(Append(Bytes(out), p.bytes)) = FlattenSeq(Bytes(out)) \o p.bytes
    BY <1>1, <1>3, <1>7, FlattenAppends
  <2> QED BY <1>2, <1>3, <1>7, <2>1
<1> QED BY <1>4, <1>5, <1>6, <1>7

-------------------------------------------------------------------------------
\* What is left of a source ends as all of it does, and only there.
Remains ==
  /\ source \in Seq(ToSet(initial.source)) /\ Len(source) > 0
  /\ source[Len(source)] = initial.source[Len(initial.source)]
  /\ source[Len(source)] \in {"end", "error"}
  /\ \A i \in 1 .. Len(source) - 1 : source[i] \in DOMAIN Chunks \ {"end", "error"}

BodyTyped ==
  /\ CodingTypeOK
  /\ polling \in BOOLEAN /\ accepted \in Acceptances
  /\ produced \in Seq(Nat) /\ out \in Seq(Parts)
  /\ initial.response \in Originals /\ initial.source \in Sources
  /\ coded.status = initial.response.status /\ coded.stream = initial.response.stream

\* Before the server pulls a stream, nothing of it has been produced.
Unpulled ==
  /\ source = initial.source /\ produced = <<>> /\ out = <<>>
  /\ last = "none" /\ ~polling

\* While the encoder is there, all that was produced can be decoded, there is
\* more to come, and no trailer is out.
Encoding ==
  /\ Decoded = produced /\ Remains
  /\ \A i \in 1 .. Len(out) : ~out[i].trailer

BodyInv ==
  /\ BodyTyped /\ EncodedAsTold
  /\ encoder => wrapped /\ Encoding
  /\ passes > 0 \/ ~wrapped => Unpulled
  /\ polling => encoder
  /\ BodiesDecode

LEMMA PrefixOfItself == \A s \in Seq(Nat) : IsPrefix(s, s)
  BY DEF IsPrefix

LEMMA PrefixGrows ==
  ASSUME NEW s \in Seq(Nat), NEW t \in Seq(Nat)
  PROVE  IsPrefix(s, s \o t)
  BY DEF IsPrefix

LEMMA InitBody == ASSUME BodiesAssumption PROVE CodingInit => BodyInv
<1> SUFFICES ASSUME CodingInit PROVE BodyInv OBVIOUS
<1>1. /\ verb \in Verbs /\ accepted \in Acceptances /\ coded \in Originals
      /\ passes \in 1 .. MaxPasses /\ source \in Sources
      /\ wrapped = FALSE /\ encoder = FALSE /\ produced = <<>> /\ out = <<>>
      /\ last = "none" /\ polling = FALSE
      /\ initial.response = coded /\ initial.source = source
  BY DEF CodingInit
<1>2. BodyTyped
  <2>1. coded.encoding \in Codings \cup {Unstated, "other"}
    BY <1>1 DEF BodiesAssumption, OriginalsAssumption
  <2>2. MaxPasses \in Nat /\ passes \in 0 .. MaxPasses BY <1>1 DEF BodiesAssumption
  <2>3. CodingTypeOK BY <1>1, <2>1, <2>2 DEF CodingTypeOK
  <2>4. produced \in Seq(Nat) /\ out \in Seq(Parts) BY <1>1
  <2>5. /\ initial.response \in Originals /\ initial.source \in Sources
        /\ coded.status = initial.response.status /\ coded.stream = initial.response.stream
    BY <1>1
  <2>6. polling \in BOOLEAN /\ accepted \in Acceptances BY <1>1
  <2> QED BY <2>3, <2>4, <2>5, <2>6 DEF BodyTyped
<1>3. EncodedAsTold BY <1>1 DEF EncodedAsTold
<1>4. Decoded = <<>>
  <2>1. out \in Seq(Parts) BY <1>1
  <2> QED BY <1>1, <2>1, DecodedGrows
<1>5. BodiesDecode
  <2>0. <<>> \in Seq(Nat) OBVIOUS
  <2>1. IsPrefix(Decoded, produced) BY <1>1, <1>4, <2>0, PrefixOfItself
  <2>2. \A i \in 1 .. Len(out) : FALSE BY <1>1
  <2> QED BY <1>1, <2>1, <2>2 DEF BodiesDecode
<1> QED BY <1>1, <1>2, <1>3, <1>5 DEF BodyInv, Unpulled

\* A source is there to be pulled, to its end.
LEMMA SourceRemains ==
  ASSUME BodiesAssumption, source \in Sources, source = initial.source
  PROVE  Remains
  BY DEF Remains, BodiesAssumption, SourcesAssumption

\* Nothing changes of what a body was encoded as, while it is pulled.
LEMMA ToldStays ==
  ASSUME EncodedAsTold, UNCHANGED <<verb, accepted, coded, wrapped, initial>>
  PROVE  EncodedAsTold'
<1>1. \A c : Quality(c)' = Quality(c) BY DEF Quality, Named, SelectLastInSeq
<1> QED BY <1>1 DEF EncodedAsTold

LEMMA AppendedIsIn ==
  ASSUME NEW v, v \in Seq(ToSet(v)), NEW x
  PROVE  x \in ToSet(Append(v, x))
<1> DEFINE S == ToSet(v) \cup {x}
<1>1. v \in Seq(S) /\ x \in S
  <2> DEFINE T == ToSet(v)
  <2>1. v \in Seq(T) OBVIOUS
  <2> HIDE DEF T
  <2>2. v \in Seq(T \cup {x}) BY <2>1
  <2> QED BY <2>2 DEF T
<1> HIDE DEF S
<1>2. /\ Append(v, x)[Len(v) + 1] = x /\ Len(v) + 1 \in 1 .. Len(Append(v, x))
      /\ DOMAIN Append(v, x) = 1 .. Len(Append(v, x))
  BY <1>1
<1> QED BY <1>2 DEF ToSet

\* What is encoded for the first time is so as it is told.
LEMMA EncodingIsTold ==
  ASSUME BodiesAssumption, BodyTyped, EncodedAsTold, Encodable, NEW size,
         coded' = EncodedHeaders(size), UNCHANGED <<verb, accepted, initial>>,
         wrapped' = coded.stream, coded.stream \/ size < coded.size
  PROVE  /\ EncodedAsTold'
         /\ coded'.encoding \in Codings /\ coded'.status = coded.status
         /\ coded'.stream = coded.stream
<1>1. coded = initial.response /\ ~wrapped /\ coded \in Originals
  BY DEF EncodedAsTold, Encodable, BodiesAssumption, BodyTyped
<1>2. /\ coded = [status |-> coded.status, compressible |-> coded.compressible,
                  encoding |-> coded.encoding, noTransform |-> coded.noTransform,
                  etag |-> coded.etag, length |-> coded.length, vary |-> coded.vary,
                  stream |-> coded.stream, size |-> coded.size]
      /\ coded.status \in Nat /\ coded.vary \in Seq(ToSet(coded.vary))
      /\ coded.stream \in BOOLEAN
  BY <1>1 DEF BodiesAssumption, OriginalsAssumption
<1> DEFINE listed == IF "accept-encoding" \in ToSet(coded.vary) THEN coded.vary
                     ELSE Append(coded.vary, "accept-encoding")
           tag == IF coded.etag = "strong" THEN "weak" ELSE coded.etag
<1>3. coded' = [coded EXCEPT !.encoding = Preferred, !.length = FALSE, !.vary = listed,
                             !.etag = tag, !.size = size]
  BY DEF EncodedHeaders
<1>4. "accept-encoding" \in ToSet(listed) BY <1>2, AppendedIsIn
<1>5. tag # "strong" OBVIOUS
<1> HIDE DEF listed, tag
<1>6. /\ coded'.encoding = Preferred /\ coded'.length = FALSE /\ coded'.vary = listed
      /\ coded'.etag = tag /\ coded'.size = size /\ coded'.status = coded.status
      /\ coded'.stream = coded.stream
  <2>1. PICK w : w = coded OBVIOUS
  <2>2. PICK x : x = coded' OBVIOUS
  <2>3. PICK p : p = Preferred OBVIOUS
  <2>4. x = [status |-> w.status, compressible |-> w.compressible, encoding |-> p,
             noTransform |-> w.noTransform, etag |-> tag, length |-> FALSE,
             vary |-> listed, stream |-> w.stream, size |-> size]
    <3>1. w = [status |-> w.status, compressible |-> w.compressible,
               encoding |-> w.encoding, noTransform |-> w.noTransform,
               etag |-> w.etag, length |-> w.length, vary |-> w.vary,
               stream |-> w.stream, size |-> w.size]
      BY <1>2, <2>1
    <3>2. x = [w EXCEPT !.encoding = p, !.length = FALSE, !.vary = listed,
                        !.etag = tag, !.size = size]
      BY <1>3, <2>1, <2>2, <2>3
    <3> QED BY <3>1, <3>2
  <2>5. /\ x.encoding = p /\ x.length = FALSE /\ x.vary = listed /\ x.etag = tag
        /\ x.size = size /\ x.status = w.status /\ x.stream = w.stream
    BY <2>4
  <2> QED BY <2>1, <2>2, <2>3, <2>5
<1>7. /\ accepted # Unstated /\ Preferred \in Codings /\ Quality(Preferred) > 0
      /\ \A c \in Codings : Quality(c) <= Quality(Preferred)
  BY PreferredIsBest DEF Encodable, BodyTyped
<1>8. \A c : Quality(c)' = Quality(c) BY DEF Quality, Named, SelectLastInSeq
<1>9. /\ verb # "HEAD" /\ coded.encoding = Unstated /\ ~coded.noTransform
      /\ coded.status \notin {101, 204, 206, 304}
  BY <1>2 DEF Encodable
<1>10. EncodedAsTold'
  <2>1. Quality(coded.encoding)' = Quality(Preferred)
    <3>1. PICK p : p = Preferred OBVIOUS
    <3>2. coded'.encoding = p BY <1>6, <3>1
    <3>3. Quality(coded.encoding)' = Quality(p)'
      BY <3>2 DEF Quality, Named, SelectLastInSeq
    <3> QED BY <1>8, <3>1, <3>3
  <2>2. \A c \in Codings : Quality(c)' <= Quality(coded.encoding)' BY <1>7, <1>8, <2>1
  <2>3. /\ coded'.encoding \in Codings /\ initial'.response = coded
        /\ Unstated \notin Codings
    BY <1>1, <1>6, <1>7 DEF BodiesAssumption
  <2>4. accepted' # Unstated /\ Quality(coded.encoding)' > 0 BY <1>7, <2>1
  <2>5. /\ ~coded'.length /\ coded'.etag # "strong"
        /\ "accept-encoding" \in ToSet(coded'.vary)
        /\ initial'.response.encoding = Unstated /\ ~initial'.response.noTransform
        /\ verb' # "HEAD" /\ initial'.response.status \notin {101, 204, 206, 304}
        /\ wrapped' = initial'.response.stream
        /\ ~initial'.response.stream => coded'.size < initial'.response.size
    BY <1>4, <1>5, <1>6, <1>9, <2>3
  <2>6. coded'.encoding # initial'.response.encoding BY <2>3, <2>5
  <2> QED BY <2>2, <2>3, <2>4, <2>5, <2>6 DEF EncodedAsTold
<1> QED BY <1>6, <1>7, <1>10

\* A layer that wraps a stream leaves all of it to be pulled.
LEMMA CompressKeeps == ASSUME BodiesAssumption, BodyInv, Compress PROVE BodyInv'
<1>1. /\ BodyTyped /\ EncodedAsTold /\ Unpulled /\ BodiesDecode /\ passes > 0
      /\ passes' = passes - 1
      /\ UNCHANGED <<verb, accepted, source, produced, out, polling, last, initial>>
  BY DEF BodyInv, Compress
<1>2. /\ EncodedAsTold' /\ wrapped' \in BOOLEAN /\ encoder' \in BOOLEAN
      /\ coded'.encoding \in Codings \cup {Unstated, "other"}
      /\ coded'.status = coded.status /\ coded'.stream = coded.stream
      /\ encoder' => wrapped'
  <2>1. CASE /\ coded.stream /\ Encodable /\ coded' = EncodedHeaders(coded.size)
             /\ wrapped' = TRUE /\ encoder' = TRUE
    <3>1. coded.stream = TRUE
      BY <1>1, <2>1 DEF BodyTyped, BodiesAssumption, OriginalsAssumption
    <3>2. wrapped' = coded.stream BY <2>1, <3>1
    <3>3. UNCHANGED <<verb, accepted, initial>> BY <1>1
    <3>4. /\ EncodedAsTold' /\ coded'.encoding \in Codings
          /\ coded'.status = coded.status /\ coded'.stream = coded.stream
      BY <1>1, <2>1, <3>2, <3>3, EncodingIsTold
    <3> QED BY <2>1, <3>4
  <2>2. CASE /\ ~coded.stream /\ Encodable
             /\ \E size \in 1 .. coded.size - 1 : coded' = EncodedHeaders(size)
             /\ UNCHANGED <<wrapped, encoder>>
    <3>1. PICK size \in 1 .. coded.size - 1 : coded' = EncodedHeaders(size) BY <2>2
    <3>2. coded = initial.response /\ ~wrapped
      BY <1>1, <2>2 DEF EncodedAsTold, Encodable, BodiesAssumption
    <3>3. coded \in Originals BY <1>1, <3>2 DEF BodyTyped
    <3>4. coded.stream = FALSE /\ coded.size \in Nat
      BY <2>2, <3>3 DEF BodiesAssumption, OriginalsAssumption
    <3>5. wrapped = FALSE BY <1>1, <3>2 DEF BodyTyped, CodingTypeOK
    <3>6. wrapped' = coded.stream BY <2>2, <3>4, <3>5
    <3>7. size < coded.size BY <3>1, <3>4
    <3>8. UNCHANGED <<verb, accepted, initial>> BY <1>1
    <3>9. /\ EncodedAsTold' /\ coded'.encoding \in Codings
          /\ coded'.status = coded.status /\ coded'.stream = coded.stream
      BY <1>1, <2>2, <3>1, <3>6, <3>7, <3>8, EncodingIsTold
    <3>10. (encoder' => wrapped') /\ encoder' \in BOOLEAN /\ wrapped' \in BOOLEAN
      BY <1>1, <2>2 DEF BodyInv, BodyTyped, CodingTypeOK
    <3> QED BY <3>9, <3>10
  <2>3. CASE UNCHANGED <<coded, wrapped, encoder>>
    <3>1. UNCHANGED <<verb, accepted, coded, wrapped, initial>> BY <1>1, <2>3
    <3>2. EncodedAsTold' BY <1>1, <3>1, ToldStays
    <3> QED BY <1>1, <2>3, <3>2 DEF BodyInv, BodyTyped, CodingTypeOK
  <2> QED BY <2>1, <2>2, <2>3 DEF Compress
<1>3. BodyTyped'
  <2>1. passes' \in 0 .. MaxPasses BY <1>1 DEF BodyTyped, CodingTypeOK, BodiesAssumption
  <2>2. CodingTypeOK' BY <1>1, <1>2, <2>1 DEF CodingTypeOK, BodyTyped
  <2> QED BY <1>1, <1>2, <2>2 DEF BodyTyped
<1>4. Unpulled' BY <1>1 DEF Unpulled
<1>5. out = <<>> /\ produced = <<>> /\ Decoded = <<>> /\ Decoded' = <<>>
  <2>1. out \in Seq(Parts) BY <1>1 DEF BodyTyped
  <2> QED BY <1>1, <2>1, DecodedGrows DEF Unpulled
<1>6. Encoding'
  <2>1. source \in Sources /\ source = initial.source BY <1>1 DEF Unpulled, BodyTyped
  <2>2. Remains BY <2>1, SourceRemains
  <2>3. Remains' BY <1>1, <2>2 DEF Remains
  <2>4. \A i \in 1 .. Len(out') : FALSE BY <1>1, <1>5
  <2> QED BY <1>1, <1>5, <2>3, <2>4 DEF Encoding
<1>7. BodiesDecode'
  <2>1. \A i \in 1 .. Len(out') : FALSE BY <1>1, <1>5
  <2>2. <<>> \in Seq(Nat) OBVIOUS
  <2>3. IsPrefix(Decoded', produced') BY <1>1, <1>5, <2>2, PrefixOfItself
  <2>4. last' = "none" /\ Decoded' = produced' BY <1>1, <1>5 DEF Unpulled
  <2> QED BY <2>1, <2>3, <2>4 DEF BodiesDecode
<1>8. ~polling' BY <1>4 DEF Unpulled
<1> QED BY <1>2, <1>3, <1>4, <1>6, <1>7, <1>8 DEF BodyInv

\* What a pull or a poll leaves alone.
Framed == UNCHANGED <<verb, accepted, coded, passes, wrapped, initial>>

LEMMA FrameKeeps ==
  ASSUME BodyInv, Framed,
         encoder' \in BOOLEAN, polling' \in BOOLEAN,
         last' \in {"none", "pending", "chunk", "error", "over"},
         produced' \in Seq(Nat), out' \in Seq(Parts)
  PROVE  BodyTyped' /\ EncodedAsTold'
<1>1. BodyTyped' BY DEF BodyInv, Framed, BodyTyped, CodingTypeOK
<1>2. EncodedAsTold' BY ToldStays DEF BodyInv, Framed
<1> QED BY <1>1, <1>2

LEMMA PollKeeps == ASSUME BodyInv, PollBody, Framed PROVE BodyInv'
<1>1. /\ BodyTyped /\ BodiesDecode /\ passes = 0 /\ wrapped /\ ~polling
      /\ UNCHANGED <<source, encoder, produced, out>>
      /\ \/ encoder /\ polling' = TRUE /\ last' = last
         \/ ~encoder /\ last' = "over" /\ polling' = polling
  BY DEF BodyInv, PollBody
<1>2. BodyTyped' /\ EncodedAsTold'
  <2>1. /\ encoder' \in BOOLEAN /\ polling' \in BOOLEAN
        /\ last' \in {"none", "pending", "chunk", "error", "over"}
        /\ produced' \in Seq(Nat) /\ out' \in Seq(Parts)
    BY <1>1 DEF BodyTyped, CodingTypeOK
  <2> QED BY <2>1, FrameKeeps
<1>3. Decoded' = Decoded BY <1>1, DecodedGrows DEF BodyTyped
<1>4. Encoding => Encoding' BY <1>1, <1>3 DEF Encoding, Remains, Framed
<1>5. BodiesDecode'
  <2>1. last' \in {"chunk", "pending"} /\ ~polling' => Decoded' = produced'
    BY <1>1
  <2>2. last' = "error" => ~encoder' BY <1>1 DEF BodiesDecode
  <2>3. \A i \in 1 .. Len(out') :
          /\ ~out'[i].empty
          /\ out'[i].trailer =>
               /\ i = Len(out') /\ source' = <<>> /\ Decoded' = produced' /\ ~encoder'
               /\ initial'.source[Len(initial'.source)] = "end"
    BY <1>1, <1>3 DEF BodiesDecode, Framed
  <2>4. IsPrefix(Decoded', produced') BY <1>1, <1>3 DEF BodiesDecode
  <2> QED BY <2>1, <2>2, <2>3, <2>4 DEF BodiesDecode
<1>6. ~(passes' > 0 \/ ~wrapped') BY <1>1 DEF Framed
<1>7. (polling' => encoder') /\ (encoder' => wrapped' /\ Encoding')
  BY <1>1, <1>4 DEF BodyInv, Framed
<1> QED BY <1>2, <1>5, <1>6, <1>7 DEF BodyInv

\* What is so while the server is inside poll_next.
Pulling ==
  /\ BodyTyped /\ Encoding /\ passes = 0 /\ wrapped = TRUE /\ encoder = TRUE
  /\ \A i \in 1 .. Len(out) : ~out[i].empty

LEMMA PollingIsPulling == ASSUME BodyInv, polling PROVE Pulling
<1>1. encoder /\ wrapped /\ Encoding /\ BodyTyped /\ BodiesDecode BY DEF BodyInv
<1>2. ~(passes > 0) BY DEF BodyInv, Unpulled
<1>3. passes = 0 BY <1>1, <1>2 DEF BodyTyped, CodingTypeOK, BodiesAssumption
<1>4. wrapped = TRUE /\ encoder = TRUE BY <1>1 DEF BodyTyped, CodingTypeOK
<1> QED BY <1>1, <1>3, <1>4 DEF Pulling, BodiesDecode

\* A pull that keeps the encoder or loses it, leaving what can be decoded true.
LEMMA PullKeeps ==
  ASSUME BodyInv, Pulling, Framed,
         polling' \in BOOLEAN, encoder' \in BOOLEAN, polling' => encoder',
         last' \in {"none", "pending", "chunk", "error", "over"},
         produced' \in Seq(Nat), out' \in Seq(Parts),
         encoder' => Encoding', BodiesDecode'
  PROVE  BodyInv'
<1>1. BodyTyped' /\ EncodedAsTold' BY FrameKeeps
<1>2. wrapped' /\ ~(passes' > 0) BY DEF Pulling, Framed
<1> QED BY <1>1, <1>2 DEF BodyInv

\* Without a trailer out, what can be decoded is all there is to show.
LEMMA NoTrailerDecodes ==
  ASSUME IsPrefix(Decoded, produced)',
         (last \in {"chunk", "pending"} /\ ~polling => Decoded = produced)',
         (last = "error" => ~encoder)',
         \A i \in 1 .. Len(out') : ~out'[i].empty /\ ~out'[i].trailer
  PROVE  BodiesDecode'
  BY DEF BodiesDecode

LEMMA TailRemains ==
  ASSUME Remains, Head(source) \notin {"end", "error"}, source' = Tail(source),
         initial' = initial
  PROVE  Remains' /\ Head(source) \in DOMAIN Chunks
<1> DEFINE S == ToSet(initial.source)
<1>1. /\ source \in Seq(S) /\ Len(source) > 0 /\ source[Len(source)] \in {"end", "error"}
      /\ Head(source) = source[1]
  BY DEF Remains
<1> HIDE DEF S
<1>2. Len(source) \in Nat /\ Len(source) # 1 BY <1>1
<1>3. 1 \in 1 .. Len(source) - 1 BY <1>1, <1>2
<1>4. Head(source) \in DOMAIN Chunks BY <1>1, <1>3 DEF Remains
<1>5. /\ source' \in Seq(S) /\ Len(source') = Len(source) - 1
      /\ \A i \in 1 .. Len(source') : source'[i] = source[i + 1]
  BY <1>1
<1>6. Len(source') > 0 /\ Len(source') + 1 = Len(source) /\ Len(source') \in Nat
  BY <1>1, <1>2, <1>5
<1>7. source'[Len(source')] = source[Len(source)]
  <2>1. Len(source') \in 1 .. Len(source') BY <1>6
  <2> QED BY <1>5, <1>6, <2>1
<1>8. ASSUME NEW i \in 1 .. Len(source') - 1
      PROVE  source'[i] \in DOMAIN Chunks \ {"end", "error"}
  <2>1. i \in 1 .. Len(source') /\ i + 1 \in 1 .. Len(source) - 1 BY <1>6
  <2>2. source'[i] = source[i + 1] BY <1>5, <2>1
  <2> QED BY <2>1, <2>2 DEF Remains
<1>9. source[Len(source)] = initial.source[Len(initial.source)] BY DEF Remains
<1> QED BY <1>1, <1>4, <1>5, <1>6, <1>7, <1>8, <1>9 DEF Remains, S

LEMMA PendingKeeps == ASSUME BodyInv, polling, Pending, Framed PROVE BodyInv'
<1>1. /\ Pulling /\ polling' = FALSE /\ last' = "pending"
      /\ UNCHANGED <<source, encoder, produced, out>>
  BY PollingIsPulling DEF Pending, Yield
<1>2. /\ encoder = TRUE /\ produced \in Seq(Nat) /\ out \in Seq(Parts) /\ Encoding
  BY <1>1 DEF Pulling, BodyTyped
<1>3. Decoded' = Decoded BY <1>1, <1>2, DecodedGrows
<1>4. Encoding' BY <1>1, <1>2, <1>3 DEF Encoding, Remains, Framed
<1>5. BodiesDecode'
  <2>1. Decoded' = produced' BY <1>4 DEF Encoding
  <2>2. IsPrefix(Decoded, produced)' BY <1>1, <1>2, <2>1, PrefixOfItself
  <2>3. \A i \in 1 .. Len(out') : ~out'[i].empty /\ ~out'[i].trailer
    BY <1>1, <1>2 DEF Pulling, Encoding
  <2> QED BY <1>1, <2>1, <2>2, <2>3, NoTrailerDecodes
<1> QED BY <1>1, <1>2, <1>4, <1>5, PullKeeps

LEMMA YieldsPart ==
  ASSUME Pulling, NEW bytes \in Seq(Nat), NEW final \in BOOLEAN,
         out' = Append(out, [bytes |-> bytes, empty |-> FALSE, trailer |-> final])
  PROVE  /\ out' \in Seq(Parts) /\ Len(out') = Len(out) + 1 /\ Len(out) \in Nat
         /\ \A i \in 1 .. Len(out) : ~out'[i].empty /\ ~out'[i].trailer
         /\ ~out'[Len(out) + 1].empty /\ out'[Len(out) + 1].trailer = final
         /\ Decoded' = Decoded \o bytes
<1>1. PICK p : p = [bytes |-> bytes, empty |-> FALSE, trailer |-> final] OBVIOUS
<1>2. p \in Parts /\ p.bytes = bytes /\ p.empty = FALSE /\ p.trailer = final
  BY <1>1 DEF Parts
<1>3. out \in Seq(Parts) BY DEF Pulling, BodyTyped
<1>4. out' = Append(out, p) BY <1>1
<1>5. /\ out' \in Seq(Parts) /\ Len(out') = Len(out) + 1 /\ Len(out) \in Nat
      /\ out'[Len(out) + 1] = p
      /\ \A i \in 1 .. Len(out) : out'[i] = out[i]
  BY <1>2, <1>3, <1>4
<1>6. Decoded' = Decoded \o bytes BY <1>2, <1>3, <1>4, DecodedGrows
<1>7. \A i \in 1 .. Len(out) : ~out'[i].empty /\ ~out'[i].trailer
  BY <1>5 DEF Pulling, Encoding
<1> QED BY <1>2, <1>5, <1>6, <1>7

LEMMA PullChunkKeeps ==
  ASSUME BodiesAssumption, BodyInv, polling, PullChunk, Framed
  PROVE  BodyInv'
<1> DEFINE bytes == Chunks[Head(source)]
<1>1. /\ Pulling /\ encoder = TRUE /\ produced \in Seq(Nat) /\ out \in Seq(Parts)
      /\ Encoding /\ Remains /\ Decoded = produced
      /\ last \in {"none", "pending", "chunk", "error", "over"}
  BY PollingIsPulling DEF Pulling, BodyTyped, CodingTypeOK, Encoding
<1>2. /\ Head(source) \notin {"end", "error"} /\ source' = Tail(source)
      /\ produced' = produced \o bytes /\ Encode(bytes)
  BY DEF PullChunk
<1>3. initial' = initial BY DEF Framed
<1>4. Remains' /\ bytes \in Seq(Nat)
  BY <1>1, <1>2, <1>3, TailRemains DEF BodiesAssumption, SourcesAssumption
<1> HIDE DEF bytes
<1>5. produced' \in Seq(Nat) /\ IsPrefix(produced, produced')
  BY <1>1, <1>2, <1>4, PrefixGrows
<1>6. CASE bytes = <<>> /\ UNCHANGED <<encoder, out, polling, last>>
  <2>1. Decoded' = produced' /\ produced' = produced
    BY <1>1, <1>2, <1>6, DecodedGrows
  <2>2. \A i \in 1 .. Len(out') : ~out'[i].empty /\ ~out'[i].trailer
    BY <1>1, <1>6 DEF Pulling, Encoding
  <2>3. Encoding' BY <1>4, <2>1, <2>2 DEF Encoding
  <2>4. IsPrefix(Decoded, produced)' BY <1>5, <2>1, PrefixOfItself
  <2>5. last' = "error" => ~encoder' BY <1>6 DEF BodyInv, BodiesDecode
  <2>6. BodiesDecode' BY <2>1, <2>2, <2>4, <2>5, NoTrailerDecodes
  <2>7. /\ encoder' \in BOOLEAN /\ polling' \in BOOLEAN /\ out' \in Seq(Parts)
        /\ last' \in {"none", "pending", "chunk", "error", "over"}
        /\ (polling' => encoder')
    BY <1>1, <1>6 DEF BodyInv, BodyTyped
  <2> QED BY <1>1, <1>5, <2>3, <2>6, <2>7, PullKeeps
<1>7. CASE /\ out' = Append(out, [bytes |-> bytes, empty |-> FALSE, trailer |-> FALSE])
           /\ polling' = FALSE /\ last' = "chunk" /\ encoder' = encoder
  <2>1. /\ out' \in Seq(Parts) /\ Len(out') = Len(out) + 1 /\ Len(out) \in Nat
        /\ \A i \in 1 .. Len(out) : ~out'[i].empty /\ ~out'[i].trailer
        /\ ~out'[Len(out) + 1].empty /\ out'[Len(out) + 1].trailer = FALSE
        /\ Decoded' = Decoded \o bytes
    BY <1>1, <1>4, <1>7, YieldsPart
  <2>2. Decoded' = produced' BY <1>1, <1>2, <2>1
  <2>3. \A i \in 1 .. Len(out') : ~out'[i].empty /\ ~out'[i].trailer
    <3>1. \A i \in 1 .. Len(out') : i \in 1 .. Len(out) \/ i = Len(out) + 1 BY <2>1
    <3> QED BY <2>1, <3>1
  <2>4. Encoding' BY <1>4, <2>2, <2>3 DEF Encoding
  <2>5. IsPrefix(Decoded, produced)' BY <1>5, <2>2, PrefixOfItself
  <2>6. BodiesDecode' BY <1>7, <2>2, <2>3, <2>5, NoTrailerDecodes
  <2> QED BY <1>1, <1>5, <1>7, <2>1, <2>4, <2>6, PullKeeps
<1>8. CASE encoder' = FALSE /\ polling' = FALSE /\ last' = "error" /\ out' = out
  <2>1. Decoded' = produced BY <1>1, <1>8, DecodedGrows
  <2>2. \A i \in 1 .. Len(out') : ~out'[i].empty /\ ~out'[i].trailer
    BY <1>1, <1>8 DEF Pulling, Encoding
  <2>3. IsPrefix(Decoded, produced)' BY <1>5, <2>1
  <2>4. BodiesDecode' BY <1>8, <2>2, <2>3, NoTrailerDecodes
  <2> QED BY <1>1, <1>5, <1>8, <2>4, PullKeeps
<1> QED BY <1>2, <1>6, <1>7, <1>8 DEF Encode, Yield

\* An error ends a body that then lacks its trailer.
LEMMA FailureKeeps ==
  ASSUME BodyInv, polling, Framed, encoder' = FALSE, polling' = FALSE, last' = "error",
         UNCHANGED <<produced, out>>
  PROVE  BodyInv'
<1>1. Pulling /\ produced \in Seq(Nat) /\ out \in Seq(Parts) /\ Decoded = produced
  BY PollingIsPulling DEF Pulling, BodyTyped, Encoding
<1>2. Decoded' = produced' BY <1>1, DecodedGrows
<1>3. \A i \in 1 .. Len(out') : ~out'[i].empty /\ ~out'[i].trailer
  BY <1>1 DEF Pulling, Encoding
<1>4. IsPrefix(Decoded, produced)' BY <1>1, <1>2, PrefixOfItself
<1>5. BodiesDecode' BY <1>2, <1>3, <1>4, NoTrailerDecodes
<1> QED BY <1>1, <1>5, PullKeeps

LEMMA PullEndKeeps == ASSUME BodyInv, polling, PullEnd, Framed PROVE BodyInv'
<1>1. /\ Pulling /\ produced \in Seq(Nat) /\ out \in Seq(Parts) /\ Decoded = produced
      /\ Remains
  BY PollingIsPulling DEF Pulling, BodyTyped, Encoding
<1>2. /\ Head(source) = "end" /\ source' = Tail(source) /\ encoder' = FALSE
      /\ produced' = produced /\ polling' = FALSE
      /\ \/ /\ out' = Append(out, [bytes |-> <<>>, empty |-> FALSE, trailer |-> TRUE])
            /\ last' = "chunk"
         \/ last' = "error" /\ out' = out
  BY DEF PullEnd, Yield
<1>3. CASE last' = "error" /\ out' = out BY <1>2, <1>3, FailureKeeps
<1>4. CASE /\ out' = Append(out, [bytes |-> <<>>, empty |-> FALSE, trailer |-> TRUE])
           /\ last' = "chunk"
  <2>0. <<>> \in Seq(Nat) OBVIOUS
  <2>1. /\ out' \in Seq(Parts) /\ Len(out') = Len(out) + 1 /\ Len(out) \in Nat
        /\ \A i \in 1 .. Len(out) : ~out'[i].empty /\ ~out'[i].trailer
        /\ ~out'[Len(out) + 1].empty
        /\ Decoded' = Decoded \o <<>>
    BY <1>1, <1>4, <2>0, YieldsPart
  <2>2. Decoded' = produced' BY <1>1, <1>2, <2>1
  <2>3. source' = <<>> /\ initial'.source[Len(initial'.source)] = "end"
    <3> DEFINE S == ToSet(initial.source)
    <3>1. source \in Seq(S) /\ Len(source) > 0 /\ Len(source) \in Nat /\ Head(source) = source[1]
      BY <1>1 DEF Remains
    <3> HIDE DEF S
    <3>2. Len(source) = 1
      <4>0. PICK n \in Nat : n = Len(source) /\ n > 0 BY <3>1
      <4>n. n # 1 => 1 \in 1 .. n - 1 BY <4>0
      <4>1. Len(source) # 1 => 1 \in 1 .. Len(source) - 1 BY <4>0, <4>n
      <4>2. 1 \in 1 .. Len(source) - 1 => FALSE BY <1>1, <1>2, <3>1 DEF Remains
      <4> QED BY <4>1, <4>2
    <3>3. initial.source[Len(initial.source)] = "end" BY <1>1, <1>2, <3>1, <3>2 DEF Remains
    <3>4. Tail(source) \in Seq(S) /\ Len(Tail(source)) = 0 BY <3>1, <3>2
    <3>5. PICK t \in Seq(S) : t = Tail(source) /\ Len(t) = 0 BY <3>4
    <3>6. t = <<>> BY <3>5
    <3> QED BY <1>2, <3>3, <3>5, <3>6 DEF Framed
  <2>4. IsPrefix(Decoded, produced)' BY <1>1, <1>2, <2>2, PrefixOfItself
  <2>5. BodiesDecode'
    <3>1. ASSUME NEW i \in 1 .. Len(out')
          PROVE  /\ ~out'[i].empty
                 /\ out'[i].trailer =>
                      /\ i = Len(out') /\ source' = <<>> /\ Decoded' = produced' /\ ~encoder'
                      /\ initial'.source[Len(initial'.source)] = "end"
      <4>1. CASE i \in 1 .. Len(out) BY <2>1, <4>1
      <4>2. CASE i = Len(out) + 1 BY <1>2, <2>1, <2>2, <2>3, <4>2
      <4>3. i \in 1 .. Len(out) \/ i = Len(out) + 1 BY <2>1
      <4> QED BY <4>1, <4>2, <4>3
    <3> QED BY <1>4, <2>2, <2>4, <3>1 DEF BodiesDecode
  <2> QED BY <1>1, <1>2, <1>4, <2>1, <2>5, PullKeeps
<1> QED BY <1>2, <1>3, <1>4

LEMMA StepBody == ASSUME BodiesAssumption PROVE BodyInv /\ [CodingNext]_bodyVars => BodyInv'
<1> SUFFICES ASSUME BodyInv, [CodingNext]_bodyVars PROVE BodyInv' OBVIOUS
<1>1. CASE Compress BY <1>1, CompressKeeps
<1>2. CASE PollBody /\ Framed BY <1>2, PollKeeps
<1>3. CASE polling /\ Pending /\ Framed BY <1>3, PendingKeeps
<1>4. CASE polling /\ PullChunk /\ Framed BY <1>4, PullChunkKeeps
<1>5. CASE polling /\ PullError /\ Framed
  <2>1. /\ encoder' = FALSE /\ polling' = FALSE /\ last' = "error"
        /\ UNCHANGED <<produced, out>>
    BY <1>5 DEF PullError, Yield
  <2> QED BY <1>5, <2>1, FailureKeeps
<1>6. CASE polling /\ PullEnd /\ Framed BY <1>6, PullEndKeeps
<1>7. CASE UNCHANGED bodyVars
  <2>1. UNCHANGED <<verb, accepted, coded, wrapped, initial>> BY <1>7 DEF bodyVars
  <2>2. EncodedAsTold' BY <2>1, ToldStays DEF BodyInv
  <2>3. /\ UNCHANGED <<source, encoder, produced, out, polling, last, passes>>
    BY <1>7 DEF bodyVars
  <2>4. Decoded' = Decoded BY <2>3, DecodedGrows DEF BodyInv, BodyTyped
  <2>5. BodyTyped' BY <2>1, <2>3 DEF BodyInv, BodyTyped, CodingTypeOK
  <2>6. BodiesDecode' BY <2>1, <2>3, <2>4 DEF BodyInv, BodiesDecode
  <2>7. Encoding => Encoding' BY <2>1, <2>3, <2>4 DEF Encoding, Remains
  <2>8. Unpulled => Unpulled' BY <2>1, <2>3 DEF Unpulled
  <2> QED BY <2>1, <2>2, <2>3, <2>5, <2>6, <2>7, <2>8 DEF BodyInv
<1> QED BY <1>1, <1>2, <1>3, <1>4, <1>5, <1>6, <1>7 DEF CodingNext, Pull, Framed

LEMMA BodiesAreSound == ASSUME BodiesAssumption PROVE CodingSpec => []BodyInv
<1>1. CodingInit => BodyInv BY InitBody
<1>2. BodyInv /\ [CodingNext]_bodyVars => BodyInv' BY StepBody
<1> QED BY <1>1, <1>2, PTL DEF CodingSpec

\* What a client decodes of a compressed body is what the producer gave, all of
\* it whenever the server waits, and complete only if the producer was; a body
\* is encoded once, as its headers tell (Compression, CompressedStream).
THEOREM BodiesStayFaithful ==
  ASSUME BodiesAssumption PROVE CodingSpec => []BodiesAreFaithful
<1>1. BodyInv => BodiesAreFaithful BY DEF BodyInv, BodyTyped, BodiesAreFaithful
<1> QED BY <1>1, BodiesAreSound, PTL
================================================================================
