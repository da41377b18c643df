------------------------------ MODULE QueryViews ------------------------------
(***************************************************************************)
(* What isuscope query shows of a run and of the difference between two    *)
(* (src/src/query.rs, database_queries and http_routes of                  *)
(* src/src/report.rs, show_query of src/src/main.rs).                      *)
(*                                                                         *)
(* Long statements are cut; their rows carry a hash of the whole, which    *)
(* older runs do not have.  Statements of one shape can be put together.   *)
(* Labels, which leave out rows before anything else, averages, and the    *)
(* columns that are added up as calls are, are left out.  A definition     *)
(* named X_Slip is a slip that the specification does not use.             *)
(***************************************************************************)
EXTENDS Integers, Sequences, FiniteSets, FiniteSetsExt, SequencesExt, Functions

CONSTANTS
    Statement,  \* [digest, digest_id, shape]: the digest after the cut
    Route,      \* routes, and transitions between them
    Durations,  \* of a statement or a request
    Sources,    \* the collectors that measure a route: the fields that each has
    Old,        \* the runs without digest_id
    Limit,      \* --limit
    None,
    MaxEvents   \* bound: statements or requests

VARIABLES
    executed,  \* the statements of each run, with their durations
    served,    \* the requests of each run
    measured   \* the collectors that measured each run

vars == <<executed, served, measured>>

Run == {"base", "candidate"}

Init ==
    /\ executed = [r \in Run |-> <<>>] /\ served = [r \in Run |-> <<>>]
    /\ measured \in [Run -> SUBSET DOMAIN Sources]

\* Bound: no view shows both statements and requests, so one behaviour has
\* statements, or requests and the collectors that measured them.
Room(events, others) ==
    /\ MapThenSumSet(LAMBDA r : Len(events[r]), Run) < MaxEvents
    /\ \A r \in Run : others[r] = <<>>

Execute(r, statement, ms) ==
    /\ Room(executed, served) /\ \A x \in Run : measured[x] = {}
    /\ executed' = [executed EXCEPT ![r] = Append(@, [of |-> statement, ms |-> ms])]
    /\ UNCHANGED <<served, measured>>

Serve(r, route, ms) ==
    /\ Room(served, executed)
    /\ served' = [served EXCEPT ![r] = Append(@, [of |-> route, ms |-> ms])]
    /\ UNCHANGED <<executed, measured>>

Next ==
    \E r \in Run, ms \in Durations :
        \/ \E statement \in Statement : Execute(r, statement, ms)
        \/ \E route \in Route : Serve(r, route, ms)

Spec == Init /\ [][Next]_vars

-----------------------------------------------------------------------------
(* What collectors wrote                                                   *)

TotalMs(events) == FoldLeft(LAMBDA sum, e : sum + e.ms, 0, events)
P95(events) ==
    LET sorted == SortSeq([i \in DOMAIN events |-> events[i].ms], <)
    IN sorted[(95 * Len(sorted) + 99) \div 100]
MaxMs(events) == Max({events[i].ms : i \in DOMAIN events})

Keys(events) == {events[i].of : i \in DOMAIN events}
OfKey(events, k) == SelectSeq(events, LAMBDA e : e.of = k)

\* A row of db.query metrics for each statement.
Measured(r) ==
    {LET es == OfKey(executed[r], s) IN
     [digest |-> s.digest, digest_id |-> IF r \in Old THEN None ELSE s.digest_id, shape |-> s.shape,
      text |-> s, calls |-> Len(es), total_ms |-> TotalMs(es), p95_ms |-> P95(es), max_ms |-> MaxMs(es)] :
        s \in Keys(executed[r])}

Sum(rows, field(_)) == MapThenSumSet(field, rows)

-----------------------------------------------------------------------------
(* The database                                                            *)

\* database_queries(): rows with one key are added up, and have no quantile.
DatabaseQueries(r) ==
    LET rows == Measured(r)
        key(row) == <<row.digest, row.digest_id>>
    IN {LET of == {row \in rows : key(row) = k}
            one == CHOOSE row \in of : TRUE
        IN [digest |-> k[1], digest_id |-> k[2], shape |-> one.shape,
            calls |-> Sum(of, LAMBDA row : row.calls), total_ms |-> Sum(of, LAMBDA row : row.total_ms),
            p95_ms |-> IF Cardinality(of) > 1 THEN None ELSE one.p95_ms,
            max_ms |-> Max({row.max_ms : row \in of})] : k \in {key(row) : row \in rows}}

\* Slip: statements that were cut are put together too.
ShapeKey_Slip(row) == <<row.shape, None>>

\* What was cut keeps its hash, as its end is not known.
ShapeKey(row) == <<row.shape, row.digest_id>>

\* group_database_shapes()
GroupDatabaseShapes(summaries) ==
    [k \in {ShapeKey(row) : row \in summaries} |->
        LET of == {row \in summaries : ShapeKey(row) = k}
        IN [calls |-> Sum(of, LAMBDA row : row.calls), total_ms |-> Sum(of, LAMBDA row : row.total_ms),
            p95_ms |-> IF Cardinality({<<row.digest, row.digest_id>> : row \in of}) = 1
                       THEN (CHOOSE row \in of : TRUE).p95_ms ELSE None,
            max_ms |-> Max({row.max_ms : row \in of})]]

Digests(summaries) ==
    [k \in {<<row.digest, row.digest_id>> : row \in summaries} |->
        LET row == CHOOSE row \in summaries : <<row.digest, row.digest_id>> = k
        IN [calls |-> row.calls, total_ms |-> row.total_ms, p95_ms |-> row.p95_ms, max_ms |-> row.max_ms]]

\* database_query()
DatabaseQuery(r, sql_shape) ==
    IF sql_shape THEN GroupDatabaseShapes(DatabaseQueries(r)) ELSE Digests(DatabaseQueries(r))

-----------------------------------------------------------------------------
(* HTTP                                                                    *)

\* What a collector measured of a route, in its fields; an older one counts
\* the requests of a longer time.
Measure(r, source, route) ==
    LET es == OfKey(served[r], route)
        value == [calls |-> Len(es) + (IF source = "alp" THEN 0 ELSE 1), total_ms |-> TotalMs(es),
                  p95_ms |-> P95(es), max_ms |-> MaxMs(es)]
    IN [f \in DOMAIN value |-> IF f \in Sources[source] THEN value[f] ELSE None]

\* http_source_quality()
Quality(m) ==
    (IF m.total_ms # None THEN 4 ELSE 0) + (IF m.calls # None THEN 2 ELSE 0) + (IF m.p95_ms # None THEN 1 ELSE 0)

\* http_routes(): the best source, completed field by field.
HttpRoutes(r) ==
    [route \in IF measured[r] = {} THEN {} ELSE Keys(served[r]) |->
        LET measures == SetToSortSeq({Measure(r, s, route) : s \in measured[r]},
                                     LAMBDA m, n : Quality(m) > Quality(n))
        IN FoldLeft(LAMBDA row, fallback : [f \in DOMAIN row |-> IF row[f] = None THEN fallback[f] ELSE row[f]],
                    Head(measures), Tail(measures))]

-----------------------------------------------------------------------------
(* The difference of two runs                                              *)

Abs(n) == IF n < 0 THEN -n ELSE n
Known(v) == IF v = None THEN 0 ELSE v

\* numeric_diff(), presence()
Row(base, candidate, k) ==
    LET b == IF k \in DOMAIN base THEN base[k].total_ms ELSE None
        c == IF k \in DOMAIN candidate THEN candidate[k].total_ms ELSE None
    IN [key |-> k,
        presence |-> CASE k \notin DOMAIN base -> "added" [] k \notin DOMAIN candidate -> "removed"
                       [] OTHER -> "both",
        delta |-> IF b = None \/ c = None THEN None ELSE c - b,
        magnitude |-> IF b # None /\ c # None THEN Abs(c - b) ELSE IF c # None THEN c ELSE Known(b)]

\* sort_diff_rows(), finish_diff(): the largest differences.
FinishDiff(rows, limit) ==
    CHOOSE kept \in SUBSET rows :
        /\ Cardinality(kept) = Min({limit, Cardinality(rows)})
        /\ \A x \in kept, y \in rows \ kept : x.magnitude >= y.magnitude

\* database_query_diff(), and that of the other views: rows by their keys.
Diff(base, candidate, limit) ==
    FinishDiff({Row(base, candidate, k) : k \in DOMAIN base \cup DOMAIN candidate}, limit)

\* total_split(): times the calls of the base, as it is divided by them.
TotalSplit(b, c) ==
    [by_count |-> (c.calls - b.calls) * b.total_ms,
     by_avg |-> (c.total_ms - b.total_ms) * b.calls - (c.calls - b.calls) * b.total_ms]

Largest(rows, limit) ==
    LET kept == CHOOSE K \in SUBSET DOMAIN rows :
                    /\ Cardinality(K) = Min({limit, Cardinality(DOMAIN rows)})
                    /\ \A x \in K, y \in DOMAIN rows \ K : Known(rows[x].total_ms) >= Known(rows[y].total_ms)
    IN [k \in kept |-> rows[k]]

\* usize::MAX, more than there are rows.
UsizeMax == 1000

\* Slip: the limit holds for each of the runs that are compared.
QueryLimit_Slip(comparing) == Limit

\* show_query(): with a base, all rows are compared.
QueryLimit(comparing) == IF comparing THEN UsizeMax ELSE Limit

\* The rows of a view, and show_query().
Rows(r, view) == IF view = "http" THEN HttpRoutes(r) ELSE DatabaseQuery(r, view = "shape")

View(view, comparing) ==
    LET shown(r) == Largest(Rows(r, view), QueryLimit(comparing))
    IN IF comparing THEN Diff(shown("base"), shown("candidate"), Limit) ELSE shown("candidate")

-----------------------------------------------------------------------------
(* Properties                                                              *)

BestSourceShown ==
    \A r \in Run : "alp" \in measured[r] =>
        LET routes == HttpRoutes(r)
        IN \A route \in Keys(served[r]) :
            LET value == Measure(r, "alp", route)
            IN \A f \in Sources["alp"] : routes[route][f] = value[f]

StatementsAddUp ==
    \A r \in Run : \A view \in {"digest", "shape"} :
        LET rows == Rows(r, view)
            of(k) == {s \in Keys(executed[r]) : (IF view = "shape" THEN s.shape ELSE s.digest) = k[1]
                                                /\ (r \in Old \/ s.digest_id = k[2])}
            mine(k) == SelectSeq(executed[r], LAMBDA e : e.of \in of(k))
        IN /\ SumFunction([k \in DOMAIN rows |-> rows[k].calls]) = Len(executed[r])
           /\ \A k \in DOMAIN rows :
                /\ rows[k].calls = Len(mine(k)) /\ rows[k].total_ms = TotalMs(mine(k))
                /\ rows[k].max_ms = MaxMs(mine(k))
                /\ rows[k].p95_ms # None <=> Cardinality(of(k)) = 1
                /\ rows[k].p95_ms # None => rows[k].p95_ms = P95(mine(k))

\* However the statements of a run are put together, none is lost and none
\* counted twice; a quantile is shown only where it is that of one
\* statement, and statements that were cut are put together only where
\* nothing is there to tell them apart.  A value that alp measured of a
\* route is shown as it is, whatever another collector counted
\* (database_queries, group_database_shapes, http_routes).
RowsTrue == StatementsAddUp /\ BestSourceShown

\* What a comparison of two runs shows, and what it leaves out.
Compared(base, candidate, shown) ==
    LET all == DOMAIN base \cup DOMAIN candidate
    IN /\ Cardinality(shown) = Min({Limit, Cardinality(all)})
       /\ Cardinality({row.key : row \in shown}) = Cardinality(shown)
       /\ \A row \in shown :
            /\ row.key \in all
            /\ row.presence = "added" <=> row.key \notin DOMAIN base
            /\ row.presence = "removed" <=> row.key \notin DOMAIN candidate
            /\ row.presence = "both" /\ row.delta # None =>
                LET b == base[row.key]
                    c == candidate[row.key]
                IN /\ row.delta = c.total_ms - b.total_ms
                   /\ b.calls # None /\ c.calls # None =>
                        TotalSplit(b, c).by_count + TotalSplit(b, c).by_avg = row.delta * b.calls
            /\ \A k \in all \ {x.key : x \in shown} : Row(base, candidate, k).magnitude <= row.magnitude

\* A comparison shows what changed most: a row is said to be new or gone
\* only if it is in one run, differences are those of the whole runs, none
\* that is left out by the limit is larger than one that is shown, and what
\* is put down to the number of calls and to their duration is all of it
\* (show_query, sort_diff_rows, total_split).
DifferencesTrue ==
    \A view \in {"http", "digest", "shape"} :
        Compared(Rows("base", view), Rows("candidate", view), View(view, TRUE))

=============================================================================
