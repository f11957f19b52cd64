--------------------------- MODULE MetricsRegistry ---------------------------
(***************************************************************************)
(* The labelled metrics of crates/blazingly-observability/src/lib.rs:      *)
(* duration histograms and route counters of the requests, the             *)
(* application's counters, gauges and histograms, and the tracked queues.  *)
(* Every worker records into one registry; each map has its own lock, so   *)
(* that the calls of several threads interleave between the locks.         *)
(*                                                                         *)
(* A series is a function from a label set to its value; a histogram's is  *)
(* its counts per bucket.  Durations, values and label values are numbers  *)
(* and names.                                                              *)
(***************************************************************************)
EXTENDS Naturals, Sequences, FiniteSets

CONSTANTS
  Recorders,   \* the threads, each in one call
  MetricCalls, \* what a thread may call, see below
  Reserved,    \* names register refuses: invalid, reserved or built in
  Cap,         \* MAX_LABEL_SETS_PER_METRIC
  Bounds,      \* duration_bounds, and those of every histogram
  Detailed,    \* detailed_route_metrics
  NoLabels     \* labels that label_set refuses

Kinds == {"counter", "gauge", "histogram"}
Overflow == "<overflow>"

\* Calls: [op |-> "finish", method, route, status, value] once a request ends;
\* [op |-> "register", name, kind]; [op |-> "record", name, kind, labels, value],
\* for add_to_counter, set_gauge and observe_histogram; [op |-> "track", queue].
\* Routes begin with a slash, so that none is the overflow's.
ASSUME CallsAreWellFormed ==
  \A c \in MetricCalls :
    /\ c.op \in {"finish", "register", "record", "track"}
    /\ c.op = "finish" => c.route # Overflow /\ c.value \in Nat
    /\ c.op = "register" => c.kind \in Kinds
    /\ c.op = "record" => c.kind \in Kinds /\ c.value \in Nat
ASSUME RegistryIsBounded ==
  /\ Cap \in Nat /\ Bounds \in Seq(Nat) /\ Detailed \in BOOLEAN
  /\ \A i \in 1 .. Len(Bounds) - 1 : Bounds[i] < Bounds[i + 1]

VARIABLES
  families,  \* application: each registered family's kind, series and warning
  durations, \* duration: the histogram's series
  routes,    \* detailed: the route counters
  queues,    \* the tracked queues
  dropped,   \* dropped_label_sets
  recording, \* the call each thread is in
  lock,      \* the lock it comes to next
  returned   \* what its call returned

metricsVars == <<families, durations, routes, queues, dropped, recording, lock, returned>>

Empty == [x \in {} |-> 0]
Buckets == 1 .. Len(Bounds) + 1
NoCounts == [b \in Buckets |-> 0]

MetricsInit ==
  /\ families = Empty /\ durations = Empty /\ routes = Empty /\ queues = {}
  /\ dropped = 0
  /\ recording = [t \in Recorders |-> NoLabels] /\ lock = [t \in Recorders |-> "start"]
  /\ returned = [t \in Recorders |-> "nothing"]

\* A call begins, and comes to its first lock.
Records(t) ==
  /\ lock[t] = "start"
  /\ \E c \in MetricCalls :
       /\ recording' = [recording EXCEPT ![t] = c]
       /\ lock' = [lock EXCEPT ![t] = IF c.op = "finish" THEN "duration" ELSE c.op]
  /\ UNCHANGED <<families, durations, routes, queues, dropped, returned>>

Yields(t, result) ==
  /\ lock' = [lock EXCEPT ![t] = "ended"]
  /\ returned' = [returned EXCEPT ![t] = result]
  /\ UNCHANGED recording

------------------------------------------------------------------------------
(* Series *)

Put(series, labels, value) ==
  [l \in DOMAIN series \cup {labels} |-> IF l = labels THEN value ELSE series[l]]

Held(series, labels, default) == IF labels \in DOMAIN series THEN series[labels] ELSE default

AtCap(series, labels) == Cardinality(DOMAIN series) >= Cap /\ labels \notin DOMAIN series

\* HistogramSeries::observe: the first bound the value does not exceed.
Bucket(value) ==
  CHOOSE b \in Buckets :
    /\ b <= Len(Bounds) => value <= Bounds[b]
    /\ \A a \in 1 .. b - 1 : value > Bounds[a]

Observe(series, labels, value) ==
  Put(series, labels, [Held(series, labels, NoCounts) EXCEPT ![Bucket(value)] = @ + 1])

Overflowing(labels) == [labels EXCEPT !.route = Overflow]

\* The label sets of a request past the cap share one route.
Folded(series, labels) == IF AtCap(series, labels) THEN Overflowing(labels) ELSE labels

CountsDropped(series, labels) ==
  dropped' = IF AtCap(series, labels) THEN dropped + 1 ELSE dropped

------------------------------------------------------------------------------
(* finish *)

StatusClass(status) == IF status \div 100 \in 1 .. 4 THEN status \div 100 ELSE 5

DurationLabels(c) ==
  [method |-> c.method, route |-> IF Detailed THEN c.route ELSE "<all>",
   status |-> StatusClass(c.status)]

RouteLabels(c) == [method |-> c.method, route |-> c.route, status |-> c.status]

\* observe_duration
ObserveDuration(t) ==
  /\ lock[t] = "duration"
  /\ LET labels == DurationLabels(recording[t]) IN
     /\ CountsDropped(durations, labels)
     /\ durations' = Observe(durations, Folded(durations, labels), recording[t].value)
  /\ IF Detailed
     THEN lock' = [lock EXCEPT ![t] = "route"] /\ UNCHANGED <<recording, returned>>
     ELSE Yields(t, "Ok")
  /\ UNCHANGED <<families, routes, queues>>

\* A mutant: past the cap the label set replaces none and is kept.
CountUnbounded(t) ==
  /\ lock[t] = "route"
  /\ LET labels == RouteLabels(recording[t]) IN
     /\ CountsDropped(routes, labels)
     /\ routes' = Put(routes, labels, Held(routes, labels, 0) + 1)
  /\ Yields(t, "Ok")
  /\ UNCHANGED <<families, durations, queues>>

\* count_route_response
CountRouteResponse(t) ==
  /\ lock[t] = "route"
  /\ LET labels == RouteLabels(recording[t])
         folded == Folded(routes, labels) IN
     /\ CountsDropped(routes, labels)
     /\ routes' = Put(routes, folded, Held(routes, folded, 0) + 1)
  /\ Yields(t, "Ok")
  /\ UNCHANGED <<families, durations, queues>>

------------------------------------------------------------------------------
(* The application's metrics *)

Register(t) ==
  /\ lock[t] = "register"
  /\ LET c == recording[t] IN
     IF c.name \in Reserved \cup DOMAIN families
     THEN /\ Yields(t, IF c.name \in Reserved THEN "InvalidName" ELSE "AlreadyRegistered")
          /\ UNCHANGED families
     ELSE /\ families' = Put(families, c.name, [kind |-> c.kind, series |-> Empty, warned |-> FALSE])
          /\ Yields(t, "Ok")
  /\ UNCHANGED <<durations, routes, queues, dropped>>

Recorded(series, c) ==
  IF c.kind = "counter" THEN Put(series, c.labels, Held(series, c.labels, 0) + c.value)
  ELSE IF c.kind = "gauge" THEN Put(series, c.labels, c.value)
  ELSE Observe(series, c.labels, c.value)

RecordResult(c) ==
  IF c.labels = NoLabels THEN "InvalidName"
  ELSE IF c.name \notin DOMAIN families THEN "NotRegistered"
  ELSE IF families[c.name].kind # c.kind THEN "TypeMismatch" ELSE "Ok"

\* add_to_counter, set_gauge and observe_histogram: past the cap a new label set
\* is dropped, and the family warns once (note_overflow).
RecordMetric(t) ==
  /\ lock[t] = "record"
  /\ LET c == recording[t]
         family == families[c.name] IN
     /\ Yields(t, RecordResult(c))
     /\ IF RecordResult(c) # "Ok" THEN UNCHANGED <<families, dropped>>
        ELSE /\ CountsDropped(family.series, c.labels)
             /\ families' = Put(families, c.name,
                  IF AtCap(family.series, c.labels)
                  THEN [family EXCEPT !.warned = TRUE]
                  ELSE [family EXCEPT !.series = Recorded(@, c)])
  /\ UNCHANGED <<durations, routes, queues>>

\* track_queue_depth
TrackQueueDepth(t) ==
  /\ lock[t] = "track"
  /\ LET q == recording[t].queue IN
     IF q \in queues \/ Cardinality(queues) >= Cap
     THEN /\ Yields(t, IF q \in queues THEN "AlreadyRegistered" ELSE "CapacityExceeded")
          /\ UNCHANGED queues
     ELSE queues' = queues \cup {q} /\ Yields(t, "Ok")
  /\ UNCHANGED <<families, durations, routes, dropped>>

MetricsNext ==
  \E t \in Recorders :
    \/ Records(t) \/ ObserveDuration(t) \/ CountRouteResponse(t)
    \/ Register(t) \/ RecordMetric(t) \/ TrackQueueDepth(t)

MetricsSpec == MetricsInit /\ [][MetricsNext]_metricsVars

------------------------------------------------------------------------------
MetricsTypeOK ==
  /\ \A n \in DOMAIN families : families[n].kind \in Kinds /\ families[n].warned \in BOOLEAN
  /\ dropped \in Nat
  /\ \A t \in Recorders :
       /\ lock[t] \in {"start", "duration", "route", "register", "record", "track", "ended"}
       /\ lock[t] # "start" => recording[t] \in MetricCalls

\* The requests whose durations, and whose responses, have been counted, and
\* the recordings of the application that returned Ok.
Timed == {t \in Recorders : lock[t] \in {"route", "ended"} /\ recording[t].op = "finish"}
Routed == {t \in Timed : Detailed /\ lock[t] = "ended"}
Took ==
  {t \in Recorders : lock[t] = "ended" /\ recording[t].op = "record" /\ returned[t] = "Ok"}

\* Where a request was counted: under its own labels, or the overflow's.
Under(series, labels) ==
  IF labels \in DOMAIN series THEN labels ELSE Overflowing(labels)

TimedAs(t) == Under(durations, DurationLabels(recording[t]))
RoutedAs(t) == Under(routes, RouteLabels(recording[t]))

\* The overflow's routes come after the cap and apart from it.
Capped(series) ==
  LET own == {l \in DOMAIN series : l.route # Overflow} IN
  Cardinality(own) <= Cap /\ (own # DOMAIN series => Cardinality(own) = Cap)

RequestsAreCounted ==
  /\ Capped(durations) /\ Capped(routes)
  /\ DOMAIN durations = {TimedAs(t) : t \in Timed}
  /\ DOMAIN routes = {RoutedAs(t) : t \in Routed}
  /\ \A l \in DOMAIN durations, b \in Buckets :
       durations[l][b] =
         Cardinality({t \in Timed : TimedAs(t) = l /\ Bucket(recording[t].value) = b})
  /\ \A l \in DOMAIN routes : routes[l] = Cardinality({t \in Routed : RoutedAs(t) = l})

\* The recordings a series is made of, and those the cap kept out of any.
TakenInto(n, l) == {t \in Took : recording[t].name = n /\ recording[t].labels = l}
Lost == {t \in Took : recording[t].labels \notin DOMAIN families[recording[t].name].series}

\* What a series of each kind says of the recordings it is made of; a counter
\* has one unit for each that was added.
Units(taken) == UNION {{t} \X (1 .. recording[t].value) : t \in taken}

Says(kind, value, taken) ==
  /\ kind = "counter" =>
       value = Cardinality(Units(taken))
  /\ kind = "gauge" => \E t \in taken : value = recording[t].value
  /\ kind = "histogram" =>
       \A b \in Buckets :
         value[b] = Cardinality({t \in taken : Bucket(recording[t].value) = b})

IsKept(n) ==
  LET family == families[n] IN
  /\ n \notin Reserved /\ Cardinality(DOMAIN family.series) <= Cap
  /\ family.warned <=> \E t \in Lost : recording[t].name = n
  /\ DOMAIN family.series =
       {recording[t].labels : t \in {u \in Took \ Lost : recording[u].name = n}}
  /\ \A l \in DOMAIN family.series : Says(family.kind, family.series[l], TakenInto(n, l))

RecordingsAreKept ==
  /\ \A n \in DOMAIN families : IsKept(n)
  /\ \A t \in Took :
       /\ recording[t].name \in DOMAIN families
       /\ recording[t].kind = families[recording[t].name].kind

\* Whatever the interleaving and however many label sets there are: every
\* request that ended is in the one bucket of one series of the histogram and in
\* one route counter, under its own labels or the overflow route of its method
\* and status; apart from those no family holds more label sets than the cap; a
\* recording of the application that returned Ok is in its series or made the
\* family warn; and what was folded or lost is counted as dropped, once each.
NothingIsMiscounted ==
  /\ MetricsTypeOK /\ RequestsAreCounted /\ RecordingsAreKept
  /\ Cardinality(queues) <= Cap
  /\ dropped = Cardinality({t \in Timed : DurationLabels(recording[t]) \notin DOMAIN durations})
               + Cardinality({t \in Routed : RouteLabels(recording[t]) \notin DOMAIN routes})
               + Cardinality(Lost)
===============================================================================
