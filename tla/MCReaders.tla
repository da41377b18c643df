----------------------------- MODULE MCReaders -----------------------------
(***************************************************************************)
(* Instances for TLC of the modules that turn the logs and profiles of a   *)
(* run into numbers and answers.  Each is a function of what was recorded, *)
(* so none has a step that another one sees: one of them is chosen, and    *)
(* the variables of the others have no value, or that of an empty record.  *)
(* The modules that have theorems are extended: ConditionsCompared,        *)
(* ProfileTrue, HostRowsTrue and StatesTrue are stated there.              *)
(***************************************************************************)
EXTENDS Comparison, GoProfile, HostSeries, StateLog, TLC

CONSTANTS Failed

VARIABLES
    part,       \* the module that reads
    read, options, whole, buckets, connections, opened, gaps, upstreams,
    rules, logs, taken, sessions, summed, edges,
    time, entries, from, to,
    log, report, parsed, metrics,
    capture, known, samples,
    executed, served, measured

accessVars == <<read, options, whole, buckets, connections, opened, gaps, upstreams>>
edgesVars == <<rules, logs, taken, sessions, summed, edges>>
slowlogVars == <<time, entries, from, to>>
alpVars == <<log, report, parsed, metrics>>
perfVars == <<capture, known, samples>>
viewsVars == <<executed, served, measured>>

-----------------------------------------------------------------------------
(* The instances                                                           *)

StateObjects == {"o1", "o2"}

L(n, r, t, a, c, u) == [named |-> n, route |-> r, time |-> t, at |-> a, conn |-> c, upstreams |-> u]
AccessLine ==
    {L(TRUE, r, 1, 5, None, <<>>) : r \in {"a", "b", "c", ""}}
    \cup {L(TRUE, "a", t, at_, "x", <<"u", "v">>) : t \in {0, 2, 5}, at_ \in {1, 2, 4, 5, 7, 8}}
    \cup {L(TRUE, "b", 1, 3, "y", <<"u">>),
          L(TRUE, "c", None, 3, "x", <<"v", None>>), L(FALSE, "", 1, 3, "x", <<>>),
          L(TRUE, "c", 2, None, "y", <<>>)}
AccessSettings ==
    {[begin |-> None, load |-> None, end |-> None],
     [begin |-> 2, load |-> 4, end |-> 8],
     [begin |-> 1, load |-> None, end |-> 6]}
Access == INSTANCE AccessSummary WITH
    Line <- AccessLine, Settings <- AccessSettings, Width <- 3, RouteLimit <- 2, TooMany <- "many",
    MaxLines <- 3

Rule(p, r) == [pattern |-> p, replace |-> r]
RouteRules == {<<Rule({"u"}, "R"), Rule({"u", "v"}, "S"), Rule({"v", "w"}, "R")>>,
               <<Rule({"u"}, "R"), Rule({"u", "v"}, "R")>>}
Rec(s, u, t, e, d) == [session |-> s, uri |-> u, time |-> t, end |-> e, duration |-> d]
SessionRecord ==
    {Rec("s", "u", 3, 3, 0), Rec("s", "v", 4, 4, 3), Rec("s", "w", 5, 5, 3), Rec("s", "v", 4, None, None),
     Rec("t", "v", 3, 3, 1), Rec("t", "u", None, None, None), Rec(None, "v", 3, 3, 1)}
Edges == INSTANCE Transitions WITH
    Uri <- {"u", "v", "w", "x"}, RuleSets <- RouteRules, Record <- SessionRecord, MaxLines <- 2,
    LogCount <- 2, read <- taken

GoStacks == {<<"runtime.lock", "sql.Query", "main.get">>, <<"main.walk", "main.walk", "main.get">>,
             <<"runtime.lock", "sync.Lock">>, <<"sql.Query">>}
GoClasses == << <<"app", {"main.get", "main.walk"}>>, <<"lock", {"runtime.lock", "sync.Lock"}>>,
                <<"runtime", {"runtime.lock"}>> >>

Machine(v) == "kernel@app1" :> v
Plain == [mode |-> "run", identity |-> None, source |-> "s1", config |-> "c1", version |-> "v1",
          routes |-> None, script |-> None, files |-> <<>>, nodes |-> Machine("x"), later |-> <<>>,
          bench |-> None]
Identity(b, v) == [bytes |-> b, values |-> v]
Setups ==
    {Plain,
     [Plain EXCEPT !.identity = Identity("b1", "rev" :> "1")],
     [Plain EXCEPT !.identity = Identity("b2", "rev" :> "1"), !.source = "empty"],
     [Plain EXCEPT !.source = "empty", !.config = "empty", !.bench = "t"],
     [Plain EXCEPT !.nodes = <<>>, !.files = "f" :> "h"],
     [Plain EXCEPT !.nodes = Machine("y"), !.script = "h"],
     [Plain EXCEPT !.later = "kernel@app2" :> "z"]}
Ends(started, stopped, status, passed, score) ==
    [started |-> started, stopped |-> stopped, state |-> status, passed |-> passed, score |-> score]
Outcomes ==
    {Ends(TRUE, FALSE, "complete", TRUE, 3), Ends(TRUE, FALSE, "complete", TRUE, 0),
     Ends(TRUE, TRUE, "aborted", FALSE, None), Ends(FALSE, FALSE, "failed", FALSE, None)}

CpuRows == {[idle |-> 1, iowait |-> 0], [idle |-> 1, iowait |-> 2]}

LoggedStatements ==
    {<< <<"select", "1">> >>, << <<"use">>, <<"select", "2">> >>, << <<"select">>, <<"for", "update">> >>,
     << <<"quit">> >>}
SlowLog == INSTANCE QueryLog WITH
    Statement <- LoggedStatements, Skipped <- {<<"use">>, <<"quit">>}, Value <- {"1", "2"}, Limit <- 2,
    Durations <- {1, 3}, Width <- 2, Start <- 1, End <- 2, LastTime <- 3, MaxEntries <- 2, now <- time

RouteOf == [uri \in {"/a/1", "/a/2", "/b"} |-> IF uri = "/b" THEN "/b" ELSE "/a/:id"]
Requests ==
    {[bucket |-> b, uri |-> u, ms |-> ms, status |-> IF ms = 1 THEN "2xx" ELSE "5xx", readable |-> TRUE] :
        b \in {"0", "5"}, u \in DOMAIN RouteOf, ms \in {1, 3}}
    \cup {[bucket |-> "5", uri |-> "/a/1", ms |-> 1, status |-> "4xx", readable |-> r] : r \in BOOLEAN}
Alp == INSTANCE AlpReport WITH
    Request <- Requests, Route <- RouteOf, Windows <- <<"whole", "0", "5">>, Whole <- "whole",
    MaxRequests <- 3, lines <- report, read <- parsed

Initializations == {[started |-> None, finished |-> 6], [started |-> 10, finished |-> 18]}
Captured(b, f, grid, graph) == [began |-> b, finished |-> f, grid |-> grid, graph |-> graph]
PerfRuns == {Captured(4, 14, "load", TRUE), Captured(5, 15, "load", FALSE), Captured(5, 15, "epoch", FALSE)}
Perf == INSTANCE PerfSeries WITH
    Node <- {"app", "db"}, Symbol <- {"f", "g"}, Width <- 4, Second <- 2, Runs <- PerfRuns,
    LastTime <- 14, Wall <- 2, Uptime <- 10, Initialize <- Initializations, MaxSamples <- 2,
    run <- capture, events <- known

Digests == {[digest |-> "in (?)", digest_id |-> None, shape |-> "in (?+)"],
            [digest |-> "in (?, ?)", digest_id |-> None, shape |-> "in (?+)"],
            [digest |-> "insert", digest_id |-> "h1", shape |-> "insert"],
            [digest |-> "insert", digest_id |-> "h2", shape |-> "insert"]}
Measures == [s \in {"alp", "old"} |-> IF s = "alp" THEN {"calls", "total_ms", "max_ms"} ELSE {"calls", "p95_ms"}]
Views == INSTANCE QueryViews WITH
    Statement <- Digests, Route <- {"/", "/item"}, Durations <- {1, 3}, Sources <- Measures,
    Old <- {"base"}, Limit <- 1, MaxEvents <- 3

-----------------------------------------------------------------------------
Parts == {"states", "access", "edges", "profile", "repeats", "host", "slowlog", "alp", "perf", "views"}

ReadersInit ==
    /\ part \in Parts
    /\ IF part = "states" THEN StatesInit
       ELSE /\ lines = <<>> /\ next = None /\ state = None /\ entered = None /\ counts = None
            /\ peaks = None /\ occupancy = None /\ transitions = None /\ stays = None
            /\ inconsistent = None
    /\ IF part = "access" THEN Access!Init
       ELSE /\ read = None /\ options = None /\ whole = None /\ buckets = None
            /\ connections = None /\ opened = None /\ gaps = None /\ upstreams = None
    /\ IF part = "edges" THEN Edges!Init
       ELSE /\ rules = None /\ logs = None /\ taken = None /\ sessions = None /\ summed = None
            /\ edges = None
    /\ IF part = "profile" THEN ProfileInit
       ELSE /\ at = None /\ counters = None /\ base = None /\ end = None /\ cpu = None
            /\ happened = None /\ restarts = None /\ events = None
    /\ Init
    /\ IF part = "host" THEN HostInit
       ELSE /\ source = None /\ now = None /\ back = None /\ sar = <<>> /\ counter = None
            /\ used = None /\ born = None /\ cgroup = <<>>
    /\ IF part = "slowlog" THEN SlowLog!Init
       ELSE /\ time = None /\ entries = None /\ from = None /\ to = None
    /\ IF part = "alp" THEN Alp!Init
       ELSE /\ log = None /\ report = None /\ parsed = None /\ metrics = None
    /\ IF part = "perf" THEN Perf!Init
       ELSE /\ capture = None /\ known = None /\ samples = None
    /\ IF part = "views" THEN Views!Init
       ELSE /\ executed = None /\ served = None /\ measured = None

ReadersNext ==
    /\ \/ part = "states" /\ StatesNext
       \/ part = "access" /\ Access!Next
       \/ part = "edges" /\ Edges!Next
       \/ part = "profile" /\ ProfileNext
       \/ part = "repeats" /\ Next
       \/ part = "host" /\ HostNext
       \/ part = "slowlog" /\ SlowLog!Next
       \/ part = "alp" /\ Alp!Next
       \/ part = "perf" /\ Perf!Next
       \/ part = "views" /\ Views!Next
    /\ IF part # "states" THEN UNCHANGED statesVars ELSE TRUE
    /\ IF part # "access" THEN UNCHANGED accessVars ELSE TRUE
    /\ IF part # "edges" THEN UNCHANGED edgesVars ELSE TRUE
    /\ IF part # "profile" THEN UNCHANGED profileVars ELSE TRUE
    /\ IF part # "repeats" THEN UNCHANGED runs ELSE TRUE
    /\ IF part # "host" THEN UNCHANGED hostVars ELSE TRUE
    /\ IF part # "slowlog" THEN UNCHANGED slowlogVars ELSE TRUE
    /\ IF part # "alp" THEN UNCHANGED alpVars ELSE TRUE
    /\ IF part # "perf" THEN UNCHANGED perfVars ELSE TRUE
    /\ IF part # "views" THEN UNCHANGED viewsVars ELSE TRUE
    /\ UNCHANGED part

readers == <<part, statesVars, accessVars, edgesVars, profileVars, runs, hostVars, slowlogVars, alpVars, perfVars, viewsVars>>
ReadersSpec == ReadersInit /\ [][ReadersNext]_readers

-----------------------------------------------------------------------------
(* Properties                                                              *)

\* Every request is in one route and one bucket of the access summary and of
\* alp, which add up to the whole; connections, attempts and quantiles are
\* those of the log (access_summary.rs:152, collector.rs:1667).
RequestsTrue ==
    /\ part = "access" =>
        /\ Access!TablesAddUp /\ Access!ConnectionsInUse
        /\ Access!AttemptsAddUp /\ Access!QuantilesRight
    /\ part = "alp" => Alp!RequestsAddUp

\* A transition leads from one request of a session to the next one in time, in
\* whichever log each of them is, between routes named as alp names them (transition.rs:206).
EdgesTrue ==
    part = "edges" =>
        Edges!RoutesAgree /\ Edges!EdgesTrue

\* Every statement that ended in the benchmark is counted once, where the part of
\* the slow log that is brought back starts or ends (collector.rs:1185).
StatementsCounted ==
    part = "slowlog" =>
        SlowLog!StatementsCounted /\ SlowLog!RowsReadBack

\* A series that says its buckets are exact has every sample in its bucket, shares
\* are of all samples (main.rs:1832), the rows of query and report add up
\* over spellings of a statement, and their differences are those of the runs (main.rs:1224).
ViewsTrue ==
    /\ part = "perf" => Perf!EdgesAreExact /\ Perf!SharesOfAll
    /\ part = "views" => Views!RowsTrue /\ Views!DifferencesTrue
=============================================================================
