------------------------------ MODULE PerfSeries ------------------------------
(***************************************************************************)
(* Samples of perf, the buckets that are made of them, and the series that *)
(* are shown (parse_perf_script of src/src/collector.rs, apply_boundary of *)
(* src/src/runner.rs, BucketGrid of src/src/model.rs, show_series of       *)
(* src/src/main.rs and metric_query of src/src/query.rs).  Buckets of 5 s  *)
(* are laid from the start of the load, so that none is both in the        *)
(* initialization and in the load; the one in which the benchmark begins   *)
(* is cut there.  Runs of earlier versions have buckets at the multiples   *)
(* of 5 s since the epoch, and times that are no whole microseconds.       *)
(*                                                                         *)
(* The unit of time is half a microsecond; everything but the begin and    *)
(* the end of a run of an earlier version is at a whole one.               *)
(* A symbol stands for process, binary and symbol.  A definition named     *)
(* X_Slip is a slip that the specification does not use.                   *)
(***************************************************************************)
EXTENDS Integers, Sequences, FiniteSets, FiniteSetsExt, SequencesExt, Functions

CONSTANTS
    Node, Symbol,
    Width,         \* of a bucket, 5 s
    Second,        \* the unit of --from and --to
    Runs,          \* [began, finished, grid, graph]: the benchmark, whether its
                   \* buckets are laid from the "load" or the "epoch", and whether
                   \* perf was asked for call graphs
    LastTime,      \* bound: perf samples from 0 to then
    Wall, Uptime,  \* the clocks when perf was started
    Initialize,    \* events of an initialization: [started, finished]
    None,
    MaxSamples     \* bound: samples

VARIABLES
    run,     \* the run that is shown
    events,  \* the events that the collectors brought back
    samples  \* [at, node, symbol]

vars == <<run, events, samples>>

Init == run \in Runs /\ events \in SUBSET Initialize /\ samples = <<>>

\* to_micros()
Micros(t) == (t \div 2) * 2

TakeSample(at, node, symbol) ==
    /\ Len(samples) < MaxSamples
    /\ samples # <<>> => Last(samples).at <= at
    /\ samples' = Append(samples, [at |-> at, node |-> node, symbol |-> symbol])
    /\ UNCHANGED <<run, events>>

Next ==
    \E at \in {Micros(t) : t \in 0..LastTime}, n \in Node, s \in Symbol : TakeSample(at, n, s)

Spec == Init /\ [][Next]_vars

-----------------------------------------------------------------------------
(* The windows of a run                                                    *)

Begin == Micros(run.began)
Finish == Micros(run.finished)

\* in_window()
InWindow(at, start, end) == Micros(start) <= at /\ at < Micros(end)

\* apply_boundary(): the last initialization that was over in the benchmark.
Within == {e \in events : run.began <= e.finished /\ e.finished < run.finished}
Boundary == CHOOSE e \in Within : \A f \in Within : f.finished <= e.finished
InitializeFinished == IF Within = {} THEN None ELSE Micros(Boundary.finished)
InitializeStarted ==
    LET started == Boundary.started IN
    Micros(IF started = None \/ started > Boundary.finished THEN run.began
           ELSE Max({started, run.began}))

\* bucket_origin()
Origin == IF InitializeFinished = None THEN Begin ELSE InitializeFinished

EpochStart(at) == (at \div Width) * Width

\* Slip: the bucket in which the benchmark begins keeps its start.
GridStart_Slip(at) ==
    IF run.grid = "epoch" THEN EpochStart(at) ELSE Origin + ((at - Origin) \div Width) * Width

\* BucketGrid::start(), for a run of an earlier version what was there before.
GridStart(at) ==
    LET start == Origin + ((at - Origin) \div Width) * Width
    IN IF run.grid = "epoch" THEN EpochStart(at)
       ELSE IF at >= Begin /\ start < Begin THEN Begin ELSE start

\* show_series(): the named windows, and --from and --to of the whole.
Windows ==
    LET seconds == {x \in 0..Finish - Begin : x % Second = 0} IN
    {<<Min({Begin + from, end}), end>> : from \in seconds, end \in {Begin + to : to \in seconds} \cup {Finish}}
    \cup (IF Within = {} THEN {}
          ELSE {<<InitializeStarted, InitializeFinished>>, <<InitializeFinished, Finish>>})

-----------------------------------------------------------------------------
(* parse_perf_script(), of the output of one node                          *)

\* perf has the monotonic clock, and the leaf first.
Text(s) ==
    LET time == s.at - Wall + Uptime IN
    IF run.graph
    THEN <<[header |-> TRUE, time |-> time, leaf |-> None], [header |-> FALSE, frame |-> s.symbol],
           [header |-> FALSE, frame |-> "main"]>>
    ELSE <<[header |-> TRUE, time |-> time, leaf |-> s.symbol]>>

Output(node) ==
    LET mine == SelectSeq(samples, LAMBDA s : s.node = node)
    IN FlattenSeq([i \in DOMAIN mine |-> Text(mine[i])])

\* record(): samples outside of the benchmark are dropped.
Record(state) ==
    LET s == state.pending IN
    IF s = None \/ ~InWindow(s.at, run.began, run.finished) THEN [state EXCEPT !.pending = None]
    ELSE [pending |-> None,
          recorded |-> Append(state.recorded, [bucket |-> GridStart(s.at), symbol |-> s.leaf])]

ReadLine(state, line) ==
    IF line.header
    THEN [Record(state) EXCEPT !.pending = [at |-> Wall - Uptime + line.time, leaf |-> line.leaf]]
    ELSE IF state.pending # None /\ state.pending.leaf = None
         THEN [state EXCEPT !.pending.leaf = line.frame]
         ELSE state

ParsePerfScript(node) ==
    Record(FoldLeft(ReadLine, [pending |-> None, recorded |-> <<>>], Output(node))).recorded

\* The metrics cpu.sample_count with a time, and those without.
Counts ==
    UNION {LET r == ParsePerfScript(node) IN
           {[at |-> r[i].bucket, node |-> node, symbol |-> r[i].symbol,
             value |-> Len(SelectSeq(r, LAMBDA x : x = r[i]))] : i \in DOMAIN r} : node \in Node}
WholeCount(node, symbol) == Len(SelectSeq(ParsePerfScript(node), LAMBDA x : x.symbol = symbol))

Total(metrics) == MapThenSumSet(LAMBDA m : m.value, metrics)

-----------------------------------------------------------------------------
(* isuscope series and isuscope query                                      *)

\* Slip: the begin is compared as it was recorded.
Stored_Slip(counts) == {m.at : m \in counts} \ {run.began}

\* The buckets that were stored, without the one that is cut at the begin.
Stored(counts) == {m.at : m \in counts} \ {Begin}

Aligned(at, origin) == (at - origin) % Width = 0

\* Where the grid starts, as the stored buckets tell; 0 is the epoch.
SeriesOrigin(counts) ==
    IF \A at \in Stored(counts) : Aligned(at, Origin) THEN Origin ELSE 0

\* series_edges()
SeriesEdges(w, counts) ==
    LET exact(at) == at \in {Begin, Finish} \/ Aligned(at, SeriesOrigin(counts))
    IN IF exact(w[1]) /\ exact(w[2]) THEN "exact" ELSE "approximate"

\* How cpu.sample_percent is asked for: by its name, or by a prefix that
\* cpu.sample_count has too.
Selection == [by : {"name", "prefix"}, symbol : Symbol \cup {None}]
Labelled(m, selection) == selection.symbol \in {None, m.symbol}

\* recompute_sample_percent(): of the counts of an interval, what is
\* selected of all there is of the node.
SamplePercent(counts, selection) ==
    LET selected == {m \in counts : Labelled(m, selection)} IN
    {[node |-> x[1], symbol |-> x[2],
      of |-> Total({m \in counts : m.node = x[1] /\ m.symbol = x[2]}),
      all |-> Total({m \in counts : m.node = x[1]})] : x \in {<<m.node, m.symbol>> : m \in selected}}

\* Slip: every metric is selected by label.
MetricMatches_Slip(m, selection) == Labelled(m, selection)

\* metric_matches(): counts that are asked for only as a percentage's
\* dependency are not selected by label, those that the prefix names are.
MetricMatches(m, selection) == selection.by = "name" \/ Labelled(m, selection)

BucketIndex(at, start, seconds) == (at - start) \div seconds

\* generic_series_data(): each shown bucket by itself.
Series(counts, w, seconds, selection) ==
    LET matching == {m \in counts : MetricMatches(m, selection) /\ InWindow(m.at, w[1], w[2])}
    IN [k \in {BucketIndex(m.at, w[1], seconds) : m \in matching} |->
            SamplePercent({m \in matching : BucketIndex(m.at, w[1], seconds) = k}, selection)]

\* metric_query() with --scope series.
Query(counts, w, selection) ==
    SamplePercent({m \in counts : InWindow(m.at, w[1], w[2])}, selection)

-----------------------------------------------------------------------------
(* Properties                                                              *)

Taken(node, symbol, w) ==
    Len(SelectSeq(samples, LAMBDA s : s.node = node /\ s.symbol = symbol /\ InWindow(s.at, w[1], w[2])))

\* A run whose grid is known: its buckets are laid as they are today, or one
\* that was not at the begin is stored; the first bucket of an earlier
\* version is labelled with a time before the begin, and a window from the
\* begin misses it.
GridKnown(w, counts) == run.grid = "load" \/ (Stored(counts) # {} /\ w[1] # Begin)

\* Every sample of the benchmark is counted once, for its leaf; whatever
\* window is asked for, where its edges are said to be exact its buckets
\* hold the samples that were taken in it and no others, also those of
\* earlier versions; and it is said of the load, so no bucket is shared with
\* the initialization (parse_perf_script, BucketGrid, series_edges,
\* src/docs/standard-observability.md:111).
EdgesAreExact ==
    LET counts == Counts
        in(w, n, s) == Total({m \in counts : m.node = n /\ m.symbol = s /\ InWindow(m.at, w[1], w[2])})
        exact == {w \in Windows : SeriesEdges(w, counts) = "exact" /\ GridKnown(w, counts)}
    IN /\ \A n \in Node, s \in Symbol :
            /\ WholeCount(n, s) = Taken(n, s, <<Begin, Finish>>)
            /\ \A w \in exact : in(w, n, s) = Taken(n, s, w)
       /\ Within # {} /\ run.grid = "load" => <<InitializeFinished, Finish>> \in exact

\* What is shown as the share of a symbol, in a bucket of a series or in a
\* window of a query, is of all samples of its node there, whichever
\* symbols are selected.
Share(rows, all) ==
    \A row \in rows :
        /\ row.of = Total({m \in all : m.node = row.node /\ m.symbol = row.symbol})
        /\ row.all = Total({m \in all : m.node = row.node})

SharesOf(selections) ==
    LET counts == Counts IN
    \A w \in Windows, selection \in selections :
        /\ Share(Query(counts, w, selection), {m \in counts : InWindow(m.at, w[1], w[2])})
        /\ \A seconds \in {Width, 2 * Width} :
            LET series == Series(counts, w, seconds, selection) IN
            \A k \in DOMAIN series :
                Share(series[k], {m \in counts : /\ InWindow(m.at, w[1], w[2])
                                                 /\ BucketIndex(m.at, w[1], seconds) = k})

\* A share is of all samples of the node in the interval, when it is asked
\* for by its name, in a series and in a query (recompute_sample_percent).
\* A prefix with a label takes away the counts of the others in a series:
\* the README of this project has it among the limits.
SharesOfAll == SharesOf([by : {"name"}, symbol : Symbol \cup {None}])
=============================================================================
