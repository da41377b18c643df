---------------------------- MODULE AccessSummary ----------------------------
(***************************************************************************)
(* The summary of an access log that a node makes in one pass              *)
(* (src/src/access_summary.rs): tables of the requests per route, of the   *)
(* whole log and of each bucket of the benchmark's interval, the use of    *)
(* the connections, and the attempts of the upstreams.                     *)
(*                                                                         *)
(* Times are whole; a line is what is left of its fields when they have    *)
(* been read.  A definition named X_Slip is a slip that the specification  *)
(* does not use.                                                           *)
(***************************************************************************)
EXTENDS Integers, Sequences, FiniteSets, FiniteSetsExt, Functions, SequencesExt, Bags

CONSTANTS
    Line,       \* the lines: records of the fields below
    None,       \* a field or an option that is not there
    Settings,   \* the options of a summary: [begin, load, end]
    Width,      \* 5 seconds
    RouteLimit, \* ROUTE_LIMIT
    TooMany,    \* OVERFLOW_ROUTE
    MaxLines    \* bound: lines of a log

\* named: has method and uri; route: behind the matching groups, may be ""; it
\* stands for the method too, of which each has an overflow route; time:
\* reqtime; at: msec; upstreams: the addresses of the attempts.

VARIABLES
    read,       \* the lines so far
    options,    \* Options
    whole,      \* the table of all lines: the times of each route
    buckets,    \* the tables of the buckets, by the start of the bucket
    connections,\* first, last and number of requests of each connection
    opened,     \* connections opened in each bucket
    gaps,       \* times between two requests of a connection, per bucket
    upstreams   \* attempts and retried attempts of each address

vars == <<read, options, whole, buckets, connections, opened, gaps, upstreams>>

Init ==
    /\ read = <<>>
    /\ options \in Settings
    /\ whole = <<>> /\ buckets = <<>> /\ connections = <<>> /\ opened = <<>>
    /\ gaps = EmptyBag /\ upstreams = <<>>

\* A function with one more argument, or another value for it.
With(f, x, v) == [y \in DOMAIN f \cup {x} |-> IF y = x THEN v ELSE f[y]]
At(f, x, default) == IF x \in DOMAIN f THEN f[x] ELSE default
Or(x, y) == IF x # None THEN x ELSE y
Larger(a, b) == IF a > b THEN a ELSE b
Smaller(a, b) == IF a < b THEN a ELSE b

-----------------------------------------------------------------------------
(* Options                                                                 *)

Origin == Or(options.load, Or(options.begin, 0))
BucketEnd(at) == Origin + ((at - Origin) \div Width + 1) * Width

\* Slip: the bucket that the begin falls into keeps its full width.
BucketStart_Slip(at) == BucketEnd(at) - Width

BucketStart(at) ==
    LET start == BucketEnd(at) - Width
    IN IF options.begin # None /\ at >= options.begin /\ start < options.begin
       THEN options.begin ELSE start

InWindow(at) == /\ options.begin = None \/ at >= options.begin
                /\ options.end = None \/ at < options.end

-----------------------------------------------------------------------------
(* A table                                                                 *)

\* Slip: a route beyond the limit is not counted.
Insert_Slip(table, route, time) ==
    IF route \notin DOMAIN table /\ Cardinality(DOMAIN table) >= RouteLimit THEN table
    ELSE With(table, route, Append(At(table, route, <<>>), time))

\* Routes beyond the limit are counted as one.
Insert(table, route, time) ==
    LET into == IF route \notin DOMAIN table /\ Cardinality(DOMAIN table) >= RouteLimit
                THEN TooMany ELSE route
    IN With(table, into, Append(At(table, into, <<>>), time))

\* Counted in the tables; a line without a time is skipped there.
Timed(l) == l.named /\ l.time # None /\ l.route # ""
Placed(l) == l.named /\ l.at # None /\ InWindow(l.at)

\* A time is at the rank that is percent of the number, rounded up.
NearestRank(sorted, percent) ==
    sorted[Larger((Len(sorted) * percent + 99) \div 100, 1)]

-----------------------------------------------------------------------------
(* Connections                                                             *)

Connected(l) == Placed(l) /\ l.conn # None /\ l.time # None

Connect(l) ==
    IF ~Connected(l) THEN UNCHANGED <<connections, opened, gaps>>
    ELSE LET begun == l.at - l.time
             bucket == BucketStart(l.at)
         IN IF l.conn \in DOMAIN connections
            THEN LET c == connections[l.conn] IN
                /\ connections' = With(connections, l.conn,
                                       [first |-> Smaller(c.first, begun),
                                        last |-> Larger(c.last, l.at),
                                        requests |-> c.requests + 1])
                /\ gaps' = IF begun >= c.last THEN gaps (+) SetToBag({<<bucket, begun - c.last>>})
                           ELSE gaps
                /\ UNCHANGED opened
            ELSE /\ connections' = With(connections, l.conn,
                                        [first |-> begun, last |-> l.at, requests |-> 1])
                 /\ opened' = With(opened, bucket, At(opened, bucket, 0) + 1)
                 /\ UNCHANGED gaps

\* Every attempt counts for its address; all but the last were retried.
Attempted(l, table) ==
    LET count(a) == Cardinality({i \in DOMAIN l.upstreams : l.upstreams[i] = a})
        again(a) == Cardinality({i \in 1..Len(l.upstreams) - 1 : l.upstreams[i] = a})
        old(a) == At(table, a, [requests |-> 0, retried |-> 0])
    IN [a \in DOMAIN table \cup (Range(l.upstreams) \ {None}) |->
            [requests |-> old(a).requests + count(a), retried |-> old(a).retried + again(a)]]

-----------------------------------------------------------------------------
\* Summary::add
Add(l) ==
    /\ Len(read) < MaxLines
    /\ read' = Append(read, l)
    /\ whole' = IF Timed(l) THEN Insert(whole, l.route, l.time) ELSE whole
    /\ buckets' = IF Timed(l) /\ Placed(l)
                  THEN LET b == BucketStart(l.at)
                       IN With(buckets, b, Insert(At(buckets, b, <<>>), l.route, l.time))
                  ELSE buckets
    /\ Connect(l)
    /\ upstreams' = IF Placed(l) THEN Attempted(l, upstreams) ELSE upstreams
    /\ UNCHANGED options

Next == \E l \in Line : Add(l)

Spec == Init /\ [][Next]_vars

-----------------------------------------------------------------------------
(* write_connections()                                                     *)

\* The pieces of a connection, each up to the end of its bucket.
Pieces(c) ==
    LET f[start \in Int] ==
            LET stop == Smaller(BucketEnd(start), c.last)
            IN (IF stop > start THEN <<<<BucketStart(start), stop - start>>>> ELSE <<>>)
                \o (IF stop >= c.last THEN <<>> ELSE f[stop])
    IN f[IF options.begin = None THEN c.first ELSE Larger(c.first, options.begin)]

\* The seconds that connections were in use in each bucket.
Busy ==
    LET all == FlattenSeq([i \in 1..Cardinality(DOMAIN connections) |->
                    Pieces(connections[SetToSeq(DOMAIN connections)[i]])])
    IN [b \in {all[i][1] : i \in DOMAIN all} |->
            MapThenSumSet(LAMBDA i : IF all[i][1] = b THEN all[i][2] ELSE 0, DOMAIN all)]

\* Slip: every bucket is taken as Width long.
Span_Slip(b) == Width

\* The length of a bucket within the interval, by which Busy is divided.
Span(b) == (IF options.end = None THEN BucketEnd(b) ELSE Smaller(BucketEnd(b), options.end)) - b

-----------------------------------------------------------------------------
(* Properties                                                              *)

Requests(table) == MapThenSumSet(LAMBDA r : Len(table[r]), DOMAIN table)
Many(P(_)) == Cardinality({i \in DOMAIN read : P(read[i])})

\* Every request with a time is in the table of the whole log and, if it
\* ended in the interval, in the table of the one bucket that its end lies
\* in, whatever the number of routes; a bucket never reaches out of the
\* interval, nor over another (Table::insert, bucket_start, bucket_end).
TablesAddUp ==
    /\ Requests(whole) = Many(Timed)
    /\ \A b \in DOMAIN buckets :
        /\ Requests(buckets[b]) =
            Many(LAMBDA l : Timed(l) /\ Placed(l) /\ l.at \in b..BucketEnd(b) - 1)
        /\ InWindow(b)
    /\ MapThenSumSet(LAMBDA b : Requests(buckets[b]), DOMAIN buckets) =
            Many(LAMBDA l : Timed(l) /\ Placed(l))
    /\ \A table \in {whole} \cup Range(buckets) : Cardinality(DOMAIN table) <= RouteLimit + 1

\* The connections in use of a bucket are those whose first request had
\* begun and whose last had not ended, second by second, also for one that
\* was open before the benchmark, and no second of a connection is lost.
ConnectionsInUse ==
    /\ \A b \in DOMAIN Busy :
        /\ Span(b) > 0
        /\ Busy[b] = Cardinality({<<c, at>> \in (DOMAIN connections) \X (b..b + Span(b) - 1) :
                            at \in connections[c].first..connections[c].last - 1})
    /\ MapThenSumSet(LAMBDA b : Busy[b], DOMAIN Busy) =
        MapThenSumSet(LAMBDA c : connections[c].last -
            (IF options.begin = None THEN connections[c].first
             ELSE Larger(connections[c].first, options.begin)), DOMAIN connections)

\* A request is answered by one attempt at most; the others were retried.
AttemptsAddUp ==
    MapThenSumSet(LAMBDA a : upstreams[a].requests - upstreams[a].retried, DOMAIN upstreams)
        <= Many(LAMBDA l : Placed(l) /\ l.upstreams # <<>>)

\* A quantile is the smallest time that so many per cent do not exceed.
QuantilesRight ==
    \A r \in DOMAIN whole : \A percent \in {50, 95, 99} :
        LET sorted == SortSeq(whole[r], <)
            upto(v) == Cardinality({i \in DOMAIN sorted : sorted[i] <= v}) * 100
        IN Min({v \in Range(sorted) : upto(v) >= percent * Len(sorted)})
              = NearestRank(sorted, percent)
=============================================================================
