------------------------------ MODULE AlpReport ------------------------------
(***************************************************************************)
(* What is made of the tables of alp (parse_alp_windows and parse_alp_json *)
(* of src/src/collector.rs).  On the node alp adds up the requests by      *)
(* method and URI, once for the whole load and once for each bucket of     *)
(* 5 s; here the rows are put together by route.  alp passes over lines    *)
(* that it cannot read, and says nothing of it.                            *)
(*                                                                         *)
(* A route stands for the method too.  The bytes of responses are added up *)
(* as durations are.  A definition named X_Slip is a slip that the         *)
(* specification does not use.                                             *)
(***************************************************************************)
EXTENDS Naturals, Sequences, FiniteSets, FiniteSetsExt, SequencesExt, Functions

CONSTANTS
    Request,     \* [bucket, uri, ms, status, readable]
    Route,       \* the route of each URI
    Windows,     \* the buckets, in which requests end
    Whole,       \* the window of the whole load
    None, Failed,
    MaxRequests  \* bound: requests

VARIABLES
    log,      \* the requests
    lines,    \* what the collector wrote: [window, rows], ["lines", count]
    read,     \* lines read
    metrics   \* what they gave, or Failed

vars == <<log, lines, read, metrics>>

Class == {"2xx", "4xx", "5xx"}
Quantile == {50, 95, 99}

Rank(sorted, q) == sorted[Max({1, (q * Len(sorted) + 99) \div 100})]

Of(window) == {i \in DOMAIN log : log[i].readable /\ (window = Whole \/ log[i].bucket = window)}
Ms(is) == SetToSortSeq(is, LAMBDA i, j : log[i].ms < log[j].ms \/ (log[i].ms = log[j].ms /\ i < j))

\* A row of alp.
AlpRow(uri, is) ==
    [uri |-> uri, count |-> Cardinality(is),
     sum |-> MapThenSumSet(LAMBDA i : log[i].ms, is),
     min |-> Min({log[i].ms : i \in is}), max |-> Max({log[i].ms : i \in is}),
     percentiles |-> [q \in Quantile |-> LET s == Ms(is) IN log[Rank(s, q)].ms],
     statuses |-> [c \in Class |-> Cardinality({i \in is : log[i].status = c})]]

AlpRows(window) ==
    {AlpRow(uri, {i \in Of(window) : log[i].uri = uri}) : uri \in {log[i].uri : i \in Of(window)}}

Init == log = <<>> /\ lines = None /\ read = 0 /\ metrics = {}

Serve(request) ==
    /\ lines = None /\ Len(log) < MaxRequests
    /\ log' = Append(log, request)
    /\ UNCHANGED <<lines, read, metrics>>

Collect ==
    /\ lines = None
    /\ lines' = [i \in 1..Len(Windows) |-> [window |-> Windows[i], rows |-> AlpRows(Windows[i])]]
                \o <<[window |-> "lines", count |-> Len(log)]>>
    /\ UNCHANGED <<log, read, metrics>>

-----------------------------------------------------------------------------
(* parse_alp_json()                                                        *)

\* Slip: rows that are put together show the largest of their percentiles.
Percentiles_Slip(rows) == [q \in Quantile |-> Max({r.percentiles[q] : r \in rows})]

\* Percentiles of rows cannot be put together.
Percentiles(rows) ==
    IF Cardinality(rows) > 1 THEN None ELSE [q \in Quantile |-> (CHOOSE r \in rows : TRUE).percentiles[q]]

\* number(), over the rows of a route.
Total(rows, field(_)) == MapThenSumSet(LAMBDA row : field(row), rows)

Merged(route, rows) ==
    LET statuses == [c \in Class |-> Total(rows, LAMBDA r : r.statuses[c])]
    IN [route |-> route, at |-> None,
        requests |-> Total(rows, LAMBDA r : r.count),
        statuses |-> statuses,
        errors |-> statuses["4xx"] + statuses["5xx"],
        duration |-> [sum |-> Total(rows, LAMBDA r : r.sum),
                      min |-> Min({r.min : r \in rows}), max |-> Max({r.max : r \in rows})],
        percentiles |-> Percentiles(rows)]

ParseAlpJson(rows) ==
    {Merged(route, {r \in rows : Route[r.uri] = route}) : route \in {Route[r.uri] : r \in rows}}

-----------------------------------------------------------------------------
(* parse_alp_windows()                                                     *)

\* Buckets keep what isuscope series shows.
AtBucket(m, window) ==
    [route |-> m.route, at |-> window, requests |-> m.requests, errors |-> m.errors,
     percentiles |-> m.percentiles]

Aggregated == Total({m \in metrics : m.at = None}, LAMBDA m : m.requests)
Skipped(n) == IF Aggregated < n THEN {[route |-> None, at |-> "skipped", requests |-> n - Aggregated]} ELSE {}

ParseLine ==
    /\ lines # None /\ read < Len(lines)
    /\ read' = read + 1
    /\ LET line == lines[read + 1] IN
       metrics' =
         CASE line.window = "lines" -> metrics
           [] line.window = Whole -> metrics \cup ParseAlpJson(line.rows)
           [] OTHER -> metrics \cup {AtBucket(m, line.window) : m \in ParseAlpJson(line.rows)}
    /\ UNCHANGED <<log, lines>>

\* All lines are read; the number of lines is compared.
Finish ==
    /\ lines # None /\ read = Len(lines)
    /\ read' = read + 1
    /\ LET n == (CHOOSE line \in ToSet(lines) : line.window = "lines").count
       IN metrics' = IF n > 0 /\ Aggregated = 0 THEN Failed ELSE metrics \cup Skipped(n)
    /\ UNCHANGED <<log, lines>>

Next == (\E request \in Request : Serve(request)) \/ Collect \/ ParseLine \/ Finish

Spec == Init /\ [][Next]_vars

-----------------------------------------------------------------------------
(* Properties                                                              *)

OfRoute(route) == {i \in Of(Whole) : Route[log[i].uri] = route}
Uris(is) == {log[i].uri : i \in is}

\* Every request that alp could read is in the row of its route and in the
\* bucket of its time, with its status and its duration, whatever URIs the
\* route is made of; a percentile is shown only where it is that of the
\* requests of the route; every line is either in the rows or shown as
\* skipped, and a log of which nothing could be read is a failure and not an
\* empty table (parse_alp_windows, parse_alp_json).
RequestsAddUp ==
    lines # None /\ read = Len(lines) + 1 =>
        /\ metrics = Failed <=> log # <<>> /\ Of(Whole) = {}
        /\ metrics # Failed =>
            LET whole == {m \in metrics : m.at = None}
                skipped == {m \in metrics : m.at = "skipped"}
                buckets == metrics \ (whole \cup skipped)
            IN /\ {m.route : m \in whole} = {Route[uri] : uri \in Uris(Of(Whole))}
               /\ \A m \in whole :
                    LET is == OfRoute(m.route) IN
                    /\ m.requests = Cardinality(is)
                    /\ m.errors = Cardinality({i \in is : log[i].status # "2xx"})
                    /\ m.duration.sum = Total(is, LAMBDA i : log[i].ms)
                    /\ {m.duration.min, m.duration.max} \subseteq {log[i].ms : i \in is}
                    /\ \A i \in is : m.duration.min <= log[i].ms /\ log[i].ms <= m.duration.max
                    /\ m.percentiles # None =>
                        \A q \in Quantile : m.percentiles[q] = log[Rank(Ms(is), q)].ms
                    /\ Cardinality(Uris(is)) = 1 => m.percentiles # None
                    /\ m.requests = Total({b \in buckets : b.route = m.route}, LAMBDA b : b.requests)
                    /\ m.errors = Total({b \in buckets : b.route = m.route}, LAMBDA b : b.errors)
               /\ \A b \in buckets : b.requests =
                    Cardinality({i \in OfRoute(b.route) : log[i].bucket = b.at})
               /\ Len(log) = Total(whole \cup skipped, LAMBDA m : m.requests)
=============================================================================
