# A verification of isuscope

isuscope is a command line tool for ISUCON contests. `isuscope run` starts the contest's
benchmark, collects what the nodes did meanwhile, and saves all of it as one *run*;
`analyze`, `rescore` and `enrich` add to saved runs; the other commands read and compare
them. This directory holds TLA+ models translated from `src/src/*.rs`, the TLC
configurations that check them on small instances, and TLAPS proofs for every instance.

    tlc -workers 2 -config MCRunStore_concurrent.cfg MCRunStore.tla
    tlc -workers 2 -config MCRunFlow_signals.cfg MCRunFlow.tla
    tlc -workers 2 -config MCOperationLock_jobs.cfg MCOperationLock.tla
    tlc -workers 2 -config MCMeasurement_phase.cfg MCMeasurement.tla
    tlc -workers 2 -config MCStores_stores.cfg MCStores.tla
    tlc -workers 2 -config MCReaders_readers.cfg MCReaders.tla
    tlapm RunStoreProofs.tla            (and the other *Proofs.tla, and FoldLemmas.tla)

## Inventory

Paths are relative to `src/src/`. "Covered" names the module that models the component.

| Component | State it keeps | Operations | Covered |
|---|---|---|---|
| **Store** (`storage.rs`) | one directory per run with `run.json`, logs and a structured snapshot (`runs/.incomplete/<id>` until saved, then `runs/<id>`); one SQLite index | `open` (repairs the index), `begin`, `checkpoint`, `finish`, `discard`, `recover_incomplete`, `set_result`, `append_analysis`, `replace_enrichments`; read queries; migrations; the `latest` files | RunStore: all that write. Queries, migrations and `latest` are not modelled |
| **File locks** (`lock.rs`, `AnalysisLock` in `storage.rs`) | `RunGate` (one per data directory), `RunMarker` (one per run in progress), `AnalysisLock` (one per run directory), `OperationLock` (shared with deploys) | try, wait, drop; `isuscope lock -- command`; the kernel drops them when the holder dies | RunStore; OperationLock for the operation lock; RunFlow has when a run releases it |
| **Course of one run** (`runner.rs`, `hooks.rs`, `benchmark.rs`, `shutdown.rs`, `process.rs`) | the manifest in memory, child processes and the registry of their process groups, the shutdown flag, the observation of the benchmark's output, the marks on the nodes | the stages of `execute`; spawn, time out, terminate; reading two pipes; first and second signal; refusal of a repeat; clean-up | RunFlow (stages, children, signals, nodes); BenchmarkCommand (the benchmark line by line, external mode); Measurement (before phase and benchmark); RunStore (what is written) |
| **rescore, analyze, enrich** (`result_commands.rs`, `enrichment.rs`) | none of their own | read a saved run under its lock, decide, write `run.json`, commit the row | RunStore |
| **Collector phases** (`collector.rs`) | a queue per (node, sequence), a semaphore per node | `run_phase`, `start_during`, `terminate_during`, `finalize_during`; the parsers of what they bring back | CollectorPhase; RunFlow has the phases of a whole run. Parsers: HostSeries, QueryLog, AlpReport, PerfSeries. Expansion to nodes and the generic line formats are not modelled |
| **Repeat check** (`repeat.rs`, `variance.rs`) | none | compare this run's identity, fingerprints and observation settings with the last one's; spread of one configuration | Comparison |
| **Change records** (`changes.rs`) | immutable record files, their copy in the index with a signature | create, decide, `analyze --change`, list, restore of the index | ChangeLog |
| **State logs and their cache** (`states.rs`, `states/cache.rs`) | a database beside the logs of a run, copies under `cache/states` | warm, order, copy, build, evict; metrics and stays | StateCache (implements StateAnswers); StateLog |
| **Capture proxy** (`discovery_capture.rs`) | one thread per connection, one standard output | read a message, forward, answer, write evidence | Capture |
| **Node helpers** (`access_summary.rs`, `transition.rs`) | tables of one pass | read lines, summarize | AccessSummary, Transitions |
| **Go profiles** (`go_profile.rs`) | none | decode, difference of two profiles, tables | GoProfile |
| **Views** (`query.rs`, `report.rs`, `main.rs`, `brief.rs`, `sql.rs`) | none | rows of a run, differences, series | QueryViews, PerfSeries, Comparison. `brief` and `sql` are not modelled |
| **Doctor, init, disk check, tooling, snapshots, configuration** | none that outlives a command | one-shot I/O | not modelled: there is no behaviour over time |

How they interact. A command opens the store, which reconciles the index with every saved
directory. `run` takes the gate, recovers abandoned runs, refuses while a saved run awaits
its verdict or its analysis, marks its own run, writes `run.json` into the staging
directory and inserts a row. Then it drives hooks, collectors and the benchmark as child
processes, writes a checkpoint, saves the result, renames the directory and commits the
index. A task of its own waits for signals and talks to the run through one watch
channel. `rescore`, `analyze` and `enrich` may run at any moment in other processes; they
meet `run` only in the directory locks and the index.

What is hard. The truth of a run is a file and its copy a database row: a process may die
between any two writes. Locks of three kinds are taken in different orders. The index is
read before the lock that protects what it describes. A run has many tasks and any child
may hang. A signal may come at any moment and must stop the measuring but not the
clean-up. The operation lock is given up early. Caches and copies (of state logs, of change
records) are trusted on the strength of a stamp that was taken at another moment. And what is
read back is cut: a log between two offsets, a message in pieces, an application that restarts
between two profiles, rows that carry a time without a date. `PROJECT.json` lists each hazard
at its line with the properties that would notice it.

What makes each component correct:

- *Store and locks*: benchmarks do not overlap; recovery takes only runs whose process is
  gone; saved runs, recorded verdicts and analyses are never lost; a row whose stamp is
  that of `run.json` says what `run.json` says; every command ends.
- *Course of a run*: whatever ends it, nothing stays behind on the nodes; nothing touches
  the nodes outside the operation lock; the benchmark runs only on prepared nodes and is
  bracketed by its collectors; a run that was signalled ends.
- *Operation lock*: the work of two jobs never overlaps; a job is not refused by its own
  lock; the `owner` that a refusal shows is true.
- *Collector phases*: order within a queue, at most `MAX_CONCURRENT_PER_NODE` at once on a
  node, local collectors last, output in configured order.
- *Benchmark command*: the saved logs have every line but the organizer's; a run passes only if
  its log says so; the benchmark comes to an end whoever holds its pipes.
- *Repeat check*: refuses exactly when nothing it can see has changed.
- *Change records*: the list says what the record files say; an announced decision is recorded.
- *State cache*: an answer from the cache is the answer from the logs.
- *Capture proxy*: a message is read to its end and not further; a line of evidence is whole.
- *Readers and views*: what is said of requests, statements, states, profiles and hosts is what
  was recorded, at every boundary of a window, a bucket, a limit or a restart.

## Modules

**RunLedger** is the abstract specification: runs are absent, underway or saved; one is
underway at a time; a saved one stays saved; its verdict changes only while it is open;
a passing run only gains analyses.

**RunStore** is the detailed one, with any number of processes.

| Model | Code |
|---|---|
| `place[r]` | where the directory with the `run.json` is: nowhere, `.incomplete`, `runs` |
| `json[r]` | `run.json`: state, verdict, analyses and what settles the state. `ver` numbers its writes and stands for `manifest_stamp` (size and time) |
| `row[r]` | the row of table `runs` and its child rows; `copies` counts insertions of the metrics, `stamp` is the write the row was settled on (0 is NULL) |
| `snaps[r]` | generations of the structured snapshot file in the directory |
| `gate`, `marker`, `runlock` | holders of `RunGate`, `RunMarker`, `AnalysisLock` |
| `pc`, `cmd`, `tgt`, `mine`, `todo`, `found` | one process: next step, command, run, manifest in memory, rest of a directory listing, `recovery.active` |

One step is one file write (each is a write to a temporary file and a rename), one
transaction at its commit, one query, or one lock operation. `Crash` may strike between
any two. The kernel closes the files of a dead process one by one, so the gate falls in
`Crash` and the marker in `Reap`.

**RunFlow** is one `run` with its tasks.

| Model | Code |
|---|---|
| `pc` | the stage of `runner::execute`; `exited` is `process::exit(130)` |
| `branch` | the collectors' side of `tokio::join!` beside the benchmark parsers |
| `child[c]` | a hook, collector, the benchmark or a parser: `spawned` lies between `spawn()` and `register_group()`, `dead` between its end and the end of the capture of its output |
| `groups` | `GROUPS`, what `kill_registered_groups` kills |
| `watch`, `cut` | the `Option<Shutdown>` given to a stage (`later_signal`), and `after_cut` |
| `stopTask` | the spawned `terminate_during` |
| `sig`, `sent`, `cancelled` | `Shutdown::listen` and the watch channel |
| `marks`, `stuck` | what before collectors left on the nodes, and the part whose removal was tried and failed |
| `lock`, `disk`, `recovery` | operation lock, the run's directory, recovery by the next run |

**OperationLock** is one lock directory and any processes: `isuscope run`, `isuscope lock`
and the commands below them, which may call isuscope again.

| Model | Code |
|---|---|
| `kind`, `parent`, `line` | what a process is, who started it, all its ancestors |
| `held` | `ISUSCOPE_LOCK_HELD=1` in its environment |
| `guard`, `fd`, `holder` | its `OperationLock`, the lock file it has open, the kernel's flock on a file |
| `lockfile` | which file the name `lock` stands for; `Inode` are the candidates, so that removing and making it anew would be noticed |
| `owner` | the file `owner`: emptied, then written by `fs::write`, removed by Drop before the file closes |
| `registered` | the children whose process group is in `GROUPS` of their run; `Register` is `register_group`, which comes some time after `spawn()` and never for a parser |
| `leaving` | runs that had a second signal |
| `Kill`, `Interrupt`, `Terminate` | SIGKILL (SIGTERM of a wrapper), Ctrl-C where it is not ignored, a run killing the group of a child |
| `SecondSignal`, `Exit` | `kill_registered_groups`, then `release_run_lock` (the Drop of its guard), then `process::exit` |

The inside of a run is in RunFlow; here it starts children and kills their groups. It lets go of
the lock in two ways: when none of its children is left (`LockCoversNodes` of RunFlow, which
speaks of every way to the end but the immediate exit), or at a second signal, when
it kills the registered groups, waits for nobody, and its tasks may start further children until the
process is gone.

**CollectorPhase** is `run_phase` with `run_once`, for one phase.

| Model | Code |
|---|---|
| `plan` | node and `sequence` of each execution; its number is `order` |
| `st` | how far each is: in its queue, in `acquire()`, before and after the look at the shutdown, child running, output being saved, done |
| `waiters`, `permits` | tokio's fair semaphore of each node |
| `watched`, `cancelled` | the `Option<Shutdown>` of the phase and its value |

A phase in RunFlow is a set of children in any order; CollectorPhase says which orders and how
many at once there are.

**BenchmarkCommand** is `execute_command` and `execute_external`. To RunFlow all of it is one child.

| Model | Code |
|---|---|
| `main` | how far `execute_command` is: waiting in its `select!`, in `terminate_group`, in `finish_captures`, after the deadline, compressing; or the prompt of the external mode |
| `child`, `helper` | the command, and a process it leaves behind in its own or the same process group, which holds the pipes open |
| `written`, `pipe`, `task`, `saved` | of each stream: all lines, those not read yet, `capture_lines` with the line it has in hand, the log file |
| `obs`, `result` | `Observation`, `BenchmarkResult` |
| `conf`, `quiet`, `stop`, `late` | mode and limits, `last_output`, `stopped_by`, captures given up at `CAPTURE_DEADLINE` |

A line is its number and what it says to `observe_line`: a result record, a boundary of initialize, a
score, or something for the organizers alone. **Measurement** composes CollectorPhase with
BenchmarkCommand: the benchmark begins when the before phase is done and no signal came, and both
read one shutdown flag.

RunStore sees a run as a sequence of writes and RunFlow sees the course between them;
their common points are `begin`, `checkpoint`, `finish`, `discard` and the recovery.

**StateAnswers** is what `isuscope states` promises: an answer is made from the logs, in the order of
the manifest, each as it was at some moment since the question. **StateCache** implements it with the two
caches: `prepared` is the database beside a run's logs, which collectors (`col`) extend under `lock` and
the end of the run reorders; `copy` and `recent` are the copies under `cache/states` with their eviction;
`ask` is a query, which takes the stamps of one log after the other (`cache_key`), opens a copy, or copies
the prepared database, or builds one, and falls back to reading the logs whenever something fails. The
version of a log stands for its stamp. Logs and `run.json` may be replaced while somebody reads them.

**ChangeLog** has the record files (`files`), their copy in the index (`rows`), `meta.changes_signature`
(`signature`), and the processes: `at` and `job` are the next step and the command. Restoring reads the
signature first and the records change by change; a process may be killed, or its transaction fail, at any
step.

**Capture** has the thread of each connection (`thread`), the message its peer is sending (`message`), how
much of it was read (`got`), and the standard output (`evidence`), of which a line may go out in two
halves. Messages are header lines, an empty line and a body with a length, in chunks, or until the
connection ends, and a peer may go away anywhere.

The readers turn what was recorded into numbers. Each module records events as the system under
test produces them, reads them as the code does, and compares the result with a direct reading of the
events.

| Module | Records | Reads |
|---|---|---|
| **StateLog** | transitions of objects, of which a writer may lose some | `metrics` of `states.rs`: counts, peaks, samples, stays; `state_stays` |
| **AccessSummary** | lines of an access log | `Summary::add` and the tables of `access_summary.rs` |
| **AlpReport** | requests, added up by alp per bucket | `parse_alp_windows`, `parse_alp_json` |
| **Transitions** | requests of sessions in several logs | `read_log`, `summarize` and `alp_groups` of `transition.rs` |
| **GoProfile** | samples and waits of an application that may restart | `decode`, `site_metrics`, `cpu_metrics` of `go_profile.rs` |
| **Comparison** | runs with what they measured | `compare`, `config_key`, `check_repeat`, `pooled`, `comparison_conditions`, `previous_run` |
| **HostSeries** | rows of sar and of control groups, a clock that may be set back | `parse_sysstat`, `parse_service_cgroup` |
| **QueryLog** | entries of a slow log, of which a part is brought back | the slow log reader, `normalize_sql_digest`, `parse_slp_windows`, `parse_slp_tsv` |
| **PerfSeries** | samples of perf on several nodes, in a run of today or of an earlier version | `parse_perf_script`, `apply_boundary`, `BucketGrid`, `series_edges`, `show_series`, `metric_query` |
| **QueryViews** | statements and requests of two runs | `database_queries`, `http_routes`, `diff`, limits and shapes |

A definition named `Action_Slip` (in RunStore and RunFlow with a name that says what
slips) is `Action` with a plausible slip. The specifications do not use them: replacing `Action` by its slip breaks the property that
`PROJECT.json` pairs with it, which shows that the property says something.

The modules **MC...** and the `.cfg` files instantiate them; the modules **...Proofs** hold the
theorems: RunStoreProofs, RunFlowProofs, OperationLockProofs, BenchmarkCommandProofs,
MeasurementProofs (which has CollectorPhase, too), **StoresProofs** (ChangeLog, StateCache and
Capture) and **ReadersProofs** (Comparison, HostSeries, GoProfile and StateLog). **FoldLemmas** has what the
last two need of sums, folds and induction.

## Runs

| Run | Question | Bounds |
|---|---|---|
| `concurrent` | do two processes with all commands ever make the index lie, lose a verdict or an analysis, or hang? | 2 processes, 2 runs, 4 commands, no crash |
| `sequential` | does the next command repair what a killed one left, and is no benchmark started while something is awaited? | 1 process, 2 runs, 5 commands, 3 crashes |
| `crash` | do benchmarks stay apart, do snapshots and analyses survive, and is every step one of RunLedger? | 2 processes, 2 runs, 4 commands, 1 crash |
| `gate_rescore` | finding: the two entry queries see different moments | 2 processes, 2 runs |
| `index_crash` | finding: a half finished row can be stamped as settled | 2 processes, 1 crash |
| `verdict_crash` | finding: an aborted run's verdict can be replaced | 1 process, 1 crash |
| `signals` | whenever up to two signals come and whatever the children do: nodes clean, lock covers, benchmark bracketed, run ends | 2 before, 1 during, 1 boundary, 2 after collectors; all hooks, or none of them |
| `second_signal` | finding: a benchmark parser survives the second signal | the same collectors, with a parser |
| `jobs` | whoever locks, nests, is interrupted once or twice, or is killed: does work of two jobs overlap, does `owner` lie, is a job refused by its own lock? | 4 processes, 2 files |
| `phase` | order and limits of the before phase, does it end with every permit back, and then: what is kept and told of the benchmark's output, and does it end? | 7 executions in 4 queues on 2 nodes and locally, limit 2; 2 lines, with and without limits, both modes |
| `stores` | do state queries, change records and evidence stay true to the files when processes or threads meet at them? | 2 queries and a measured run with 2 logs, 1 replacement, 1 kill, 1 copy kept; 2 processes, 3 commands, 1 fault; 2 connections |
| `readers` | is what is read out of logs, profiles and runs what was recorded? | 2 to 4 events of each kind, placed at and around every boundary |

Why these bounds are enough to be interesting. Two runs let one be awaited or compared
while the other is measured. Four or five commands are a run, the command that judges or
analyses it, and two that interfere. Two processes are what locks and stale reads need. Three
crashes let a recovery be killed as well. Two before collectors with an after collector each let one
be cleaned and the other not. Two signals are all that `Shutdown::listen` ever acts on.
`crash`, `gate_rescore` and `index_crash` use symmetry of the processes, which is sound
because they check no liveness.

Four processes are a job of three levels (`isuscope lock`, its script, an `isuscope lock` in
it) and a competitor, or a holder and two contenders, of which one has opened the lock file before
the other makes a new one. Three queues on a node with a limit of two make one wait; the
limit of eight needs no more to be wrong, and the proofs cover every limit.

The line budget of `phase` is two because each property relates at most two lines: one per
stream, one behind the other in a stream, a start and an end. A third line repeats these.

`stores` and `readers` hold several modules that share no variable and no step: one of them is
chosen in the beginning and the others do not move, so that a run is the union of its parts and
nothing is lost by checking them side by side. `MCStores` and `MCReaders` extend those of them that
have theorems and instantiate the others. One copy kept with two runs makes every publication evict; one replacement of a log or
of `run.json` may fall between any two steps of the two queries and of the collectors; the run
`old` has no prepared database, as those saved by earlier versions. Three commands are two
decisions and a list, or a decision that an analysis announced and one in between. In Capture one
connection has every framing and peers that go away, the other is there to write into the same
output. In the readers times are small numbers chosen so that windows, buckets (2 to 4 long), days (6
long) and limits (1 or 2 rows) have events before, on and behind each edge; the enumerated lines,
stacks and set-ups have one member for every case that the code tells apart. In PerfSeries the unit is half a microsecond, since
begin and end of an earlier version's run are no whole ones, and its three runs are one with buckets from
the load at whole microseconds, one at half ones, and one with buckets at the multiples of the epoch.
sar and the
control groups, the sources of HostSeries, take turns for the same reason, and so do the
statements and the requests of QueryViews, which no view shows together.

Where `CHECK_DEADLOCK FALSE` stands, the system really stops: the command bound is used
up, everything was read, or the one run is over and saved.

Properties in one line each:

- RunStore: `OneBenchmark`, `LiveRunUntouched`, `NothingAwaited`, `IndexTruthful`,
  `OpenSettles`, `SnapshotInPlace`, `AnalysesKept`, `IndexedAnalysesKept`, `VerdictKept`,
  `CommandsEnd` (liveness), `ImplementsLedger` (refinement of RunLedger).
- RunFlow: `NodesClean`, `LockCoversNodes`, `DuringBracket`, `MeasuredWhenReady`,
  `InterruptedCleansUp`, `RunEnds` (liveness), `RunningKilled` (violated).
- OperationLock: `OneOperation`, `OwnerHonest`, `OwnJobNotRefused`.
- CollectorPhase: `NodeLimit`, `QueueOrder`, `LocalLast`, `PhaseEnds` (liveness).
- Measurement: `OutputKept` (the saved logs have every line but the organizer's), `ResultFromLogs`
  (a pass is in the saved log, initialize ends only if it began), `BenchmarkReturns` (liveness).
- MCStores: `AnswersFromLogs` (refinement of StateAnswers), `CacheSound`, `ChangesListed`,
  `ExchangesRecorded`.
- MCReaders: `StatesTrue`, `RequestsTrue`, `EdgesTrue`, `ProfileTrue`, `ConditionsCompared`,
  `HostRowsTrue`, `StatementsCounted`, `ViewsTrue`; each is the conjunction of the properties at
  the end of the modules of its part, where they are stated one by one.

Type invariants (`TypeOK`) are not run: the theorems below prove them, or an invariant that implies
them.

`OneOperation` exempts orphans, of which there are two kinds. When `isuscope lock` is killed while
its command runs, the kernel drops the lock and the command goes on. And a run that gets a second
signal kills the registered groups, releases the lock and exits, so that a child whose
group it had not registered works on with the lock free: a benchmark parser, whose group never is
(`enrichment.rs:169`, the fourth finding), and any child between `spawn()` and `register_group()`
(`collector.rs:401`), with all that is below it. The property says that there is no third way:
whatever is at work otherwise, also after a failure, a time limit, one Ctrl-C, or two of them when its
group was registered, never overlaps with the work of another job.

`NothingAwaited` is checked with one process: with two it is false, which is the first
finding. `VerdictKept` and `IndexTruthful` are checked with two processes without crashes
and with one process and crashes; with both, `index_crash` violates `IndexTruthful`.

### Fairness

`RunStore!FairSpec` has weak fairness of each process's step: a process that can go on does,
and a wait for a lock that is free is served. Nothing forces a command to be issued or a
process to be killed.

`RunFlow!FairSpec` has weak fairness of the run's own steps: tokio polls every task, the
timers of time limits fire, SIGKILL ends a process and `finish_captures` has a deadline.
No fairness is given to a child's own end, a failure or a signal. So `RunEnds` claims an end
only for runs that were signalled or whose benchmark has a time limit: neither of the
benchmark's limits is set by default, and then a hanging benchmark does hang the run.

`MeasureSpec` has weak fairness of progress: tokio runs some task whenever one can go on. For the
phase these are the loops of the queues, `run_once` and the semaphores, which serve first come first
served, with the time limit of a collector, which always has a value. For the benchmark they are the
capture tasks, the main task with its timers, and nothing that depends on the command: no
fairness makes it end, write or close its pipes, nor a user answer. So `BenchmarkReturns` claims an
end only once the command has ended, its time is up or a signal came. It is fairness of the
disjunction, which is weaker than that of each task and enough here. OperationLock claims no
liveness: how long a job works is up to its commands. The other modules have safety
properties only.

## Findings

1. **A run can start while another awaits its analysis** (`gate_rescore`). `execute` asks
   `pending_analyses` (`runner.rs:67`), then `pending_results` (`runner.rs:76`). A rescore
   that commits a PASS in between moves its run out of the second query's sight after the first one
   has looked.
2. **A half finished row can be taken for settled** (`index_crash`). A run dies between its
   rename and its transaction. A process that had opened the store earlier runs `enrich` on
   it and stamps the row that `begin` made; later opens compare stamps first and never
   insert the score and metrics.
3. **A recovered run's verdict can be replaced** (`verdict_crash`). `recover_incomplete`
   records `passed = false` and leaves `benchmark.pending` true, so `rescore` accepts the run.
4. **A benchmark parser survives the second signal** (`second_signal`). Its process group
   is never registered (`enrichment.rs:169`), and `process::exit` drops nothing. The handler has
   released the operation lock by then (`shutdown.rs:20`), so the parser may overlap with the next
   job (`Missed` of OperationLock).

Smaller ones are recorded as hazards: a signal during the after phase stops the
collectors but the run is not saved as `aborted` (README.md:292 says it is), and an ssh
that `cleanup_node` gave up on is not killed; the command of a killed `isuscope lock`
outlives its lock; a nested `isuscope lock` on another path does not take that lock.

Further differences between the code and its documents, and inputs on which the code says less
than it seems to, that the properties step around (each is noted at its hazard):

- `series` with a prefix and a label filter makes every share 100 %, although README.md:168 says a
  selection means the same in `query` and `series` (PerfSeries: `SharesOfAll` speaks of the others).
- Two runs may have the same `config_key` and yet not be repeats for `check_repeat`, as the key has the
  fingerprints of later phases too (README.md:288, `repeat.rs:114`).
- The comment at `states.rs:604` says that a transition to the same state does not divide a stay; one
  whose `from` differs from the state that was tracked does.
- `decide_change` looks for the same decision in the whole history, so that A, B, A is not
  recorded as three decisions (README.md:60).
- `restore_changes` skips a `change.json` that cannot be read with a warning (`changes.rs:800`). When the
  index has that change, a listing that reaches it fails as a whole (`changes.rs:762`).
- In a run of an earlier version the first bucket is labelled with a time before the begin, so a
  window from the begin misses it though `series_edges` calls that edge exact; and when no bucket is stored but
  one at the begin, the stored rows do not tell which grid it was (PerfSeries: `GridKnown`
  leaves these windows out).
- A sar that is started just before midnight UTC, or a clock that is set back over midnight, gives rows that
  are a day off (HostSeries excludes both, since the rows do not tell).
- A body with a `Content-Length` whose sender goes away is recorded as if it were whole, and a client
  that waits for `100 Continue` is not answered (Capture).
- A server banner in the middle of a slow log is appended to the statement before it; a route that is
  measured by several sources has fields of all of them (`http_routes`).

## Proofs

Proved for every set of processes, runs, collectors, lines or logs, and every bound:

| Theorem | Says |
|---|---|
| `TypeCorrect` | every reachable state of RunStore is well typed |
| `AtMostOneBenchmark` | `OneBenchmark`: two processes are never both between the entry checks and the end of a run |
| `SnapshotKept`, `LiveRunKept`, `AnalysesStay`, `RowsKeepAnalyses` | `SnapshotInPlace`, `LiveRunUntouched`, `AnalysesKept` and `IndexedAnalysesKept`, with any number of processes, kills and recoveries |
| `Implements` | `ImplementsLedger`: every step of RunStore is a step of RunLedger or none |
| `VerdictsOfUnabortedStay`, `VerdictsStay` | the verdict of a run that was not aborted is never replaced; no verdict is (`VerdictKept`) if nothing is killed or the adapter leaves no verdict open |
| `IndexTrueUnkilled`, `IndexTrueAlone` | `IndexTruthful` if nothing is killed, and with one process whatever is killed |
| `OpenSettlesAlone`, `NothingAwaitedAlone` | with one process, whatever is killed: `OpenSettles` and `NothingAwaited` |
| `FlowTypeCorrect` | every reachable state of RunFlow is well typed |
| `LockCovers`, `BracketKept`, `BenchmarkReady`, `CleanupUncut`, `NodesLeftClean` | the safety properties that the run `signals` checks |
| `LockTypeCorrect`, `OperationsExclude`, `OwnerIsHonest`, `OwnJobPasses` | every invariant that the run `jobs` checks, for any number of processes nested in any depth and with any number of runs that have a second signal; `OneOperation` with the orphans it exempts |
| `PhaseTypeCorrect`, `NodesNotOverloaded`, `QueuesInOrder`, `LocalsLast` | the invariants of CollectorPhase, for any phase, nodes and limit |
| `PhaseImplemented`, `RunKeepsPhase` | Measurement refines CollectorPhase, and so keeps its invariants |
| `OperatorLinesHidden`, `LogsAreWhole`, `PassesEarned`, `InitializeTimed` | of BenchmarkCommand: no organizer's line is saved or is the score or a boundary; a saved log has all other lines in order, without a gap; a pass is in the log; initialize ends only if it began |
| `RunKeepsHidden`, `RunOutputKept`, `RunResultFromLogs` | the same in Measurement: `OutputKept` and `ResultFromLogs` |
| `SignatureCovered`, `ChangesAreListed` | `ChangesListed`, for any processes, changes, commands and faults |
| `EvidenceIsWhole` | `ExchangesRecorded`, for any connections, payloads, chunks and trailers, in whatever pieces they come |
| `RunsAreCompared` | `ConditionsCompared`, for any setups, outcomes and number of runs |
| `RowsAreTrue` | `HostRowsTrue`, for any services, CPU rows, length of a day and start of sar |
| `ProfilesAreTrue` | `ProfileTrue`, for any stacks, routes, functions and classes |
| `StatesAreTrue` | `StatesTrue`, for any objects, states, window and log in the order of time |
| `CacheIsSound`, `AnswersAreFromLogs` | `CacheSound` and `AnswersFromLogs` (StateCache refines StateAnswers), for any runs, logs, events, queries, failures and kills |

*RunStoreProofs.* `TypeOK` is not inductive: a step that updates `row[tgt[p]]` needs `tgt[p]` to
be a run, which only some steps guarantee, so `TypeInv` adds `TargetOK`. `OneBenchmark` alone is
not inductive either. The invariant `Control` says what a process may rely on at each step: in
its `run` it holds the gate (`GateOK`), a run in progress is marked by it and its ID was handed
out (`MarkOK`), a command on a saved run holds the directory's lock (`LockOK`), the directory is where
the step expects it (`PlaceOK`, `ScanOK`), and an ID that was not handed out has no directory
(`FreshOK`). The lemma `OthersHold` is the core: a step of one process that `Respects` the
others leaves what they rely on alone, so each action is checked once for its own process
and once for respect. `OneBenchmark` follows from `GateOK`, since the gate has one holder.

On top of who may write comes what is written. `DInv` adds `Data` to `Control`:
what is in memory at each step that writes is what is on disk (`Loaded`), the row is never ahead of
`run.json`, and a snapshot that a saved `run.json` names is there, also between enrich's writes.
Each action is an effect on one run by whoever holds it, named as RunLedger names its steps
(begun, drafted, saved, rescored and so on), so refinement, `AnalysesKept` and
`IndexedAnalysesKept` are read off the effects and not off the actions. Three more invariants stand
on top of `DInv`:

- `Told`: a row whose stamp is that of `run.json` repeats it, and a process between its two writes
  holds what it is about to make true. It is inductive as long as the row that a command stamps was
  complete before, which is what fails in `index_crash`. Without kills it never fails, since no run is
  ever recovered (`Calm`) and each saved run with an unsettled row has a process about to settle it
  (`Settling`).
- `Solo`, for one process: after it has opened the store the only unsettled runs are the one
  between its own two writes and one it has just recovered, which did not pass. It carries over kills
  because the next command opens the store again. `OpenSettles` and `NothingAwaited` are read off it.
- `Opens`: a verdict is open where there is none; only recovery leaves an open one beside a verdict.

The hypotheses of the conditional theorems are exact: `index_crash` has two processes and a kill,
`gate_rescore` two processes without one, `verdict_crash` a kill and an adapter that leaves the verdict
open, and in each the property fails.

*RunFlowProofs.* The invariant has three layers. `Order`: a running child belongs to the
stage the run is in, or is a during collector yet to be stopped (`Placed`, `JoinOK`), and the
lock is held until the nodes are left alone (`LockOK`). `Readiness`, on top of it: what each
stage needs was done before (`BeforeOK`, `DuringOK`, `PreparedOK`). `Cleanness`, on top of
both: an after collector that has ended has removed its marks, or failed, or was cut by a
signal that `after_cut` will see (`MarksOK`), and the signal that interrupted the benchmark
is not watched by the stages behind it (`CutOK`). Each layer is proved inductive action by
action, from itself and the layers below it.

*OperationLockProofs.* The processes form a forest (`Forest`), in which exactly those with an
ancestor have inherited the variable (`HeldOK`). There is one lock file, so two processes with an
`OperationLock` are the same (`FileOK`). The core is `Waiting`: the ancestors of an active process
that is no orphan all wait for it, so none of them has had a second signal. It is what makes
`Covered` inductive: a guard is dropped only where nobody but orphans is below (`NobodyBelow`). For
a second signal this is `AfterSignal`: a child that is no orphan is registered (`Missed`), so its
group has been killed with all below it down to another run (`RegisteredKilled`), and what is
started from then on is an orphan from its start (`Launched`). `OneOperation` follows: the two
guards above two working processes are one.

*StoresProofs, ChangeLog.* The invariant says of the index that it has what the stored signature names
(`Stored`) and of each process what it may rely on: a restore reads a change whole or has it still
to do (`ReadWhole`), a signed record is in the index or its change is still to do (`SeenCovered`),
and a decision that was announced finds its change (`PreparedGoesOn`). Files and rows only grow, so
a step of one process leaves the others alone (`OthersKeep`).

*BenchmarkCommandProofs.* `OperatorHidden` speaks of numbers of lines, so the invariant has that
numbers tell lines apart (`Numbered`) and that what a task holds, a log has or the observation
names is a line that was written and is not the organizer's (`Hidden`). `WholeInv` is what the other
theorems need: the lines of a stream are those in the log, the one the task has in hand and those in the
pipe, in this order (`LogOK`); the observation knows the results and boundaries of the lines that were
observed, which are those of the log but the one that a task has written and not yet observed (`Seen`);
and a task that has ended has read everything unless it was given up.

*MeasurementProofs.* `NodeLimit` counts children, so the invariant `PermitsOK` counts
permits: free ones and those held, whose number changes by one where an execution takes or returns
one. Those in `acquire()` hold none and stand in line once (`WaitersOK`). `StartedOK` gives the
orders. Of what the phase reads, a benchmark only raises the flag (`FlagRaised`), so each of its
steps is a signal or a stutter for the phase. The invariant of BenchmarkCommandProofs is kept by the
composition since the phase changes nothing of the benchmark but that flag.

*StoresProofs, StateCache.* `DataInv` says of every database, copy, collector and query that what it has
is a table of some versions of the logs (`Tells`), none older than its stamp and none newer than now.
A collector reads outside the lock, so from `WarmLock` on the version it has read is the one it stamped
(`ColOK`); that is the check of `states/cache.rs:201`. A query takes its stamps one after the other, so
each is no older than the question and no newer than the log (`StampsOK`); since versions only grow,
an answer that is no older than its stamps is one that StateAnswers allows at the step that gives it.
`PreparedServes` needs that after `prepare_cache_order` no collector writes again, and that a database it
left alone has a reason for which no query finds it complete (`Settled`, `Offered`): a newer context, a
log less, a log that was replaced. `CopiesBounded` needs who still has to remove what: a
query that has listed its victims leaves no more than those that publish after it (`after` in
`AfterOK`) will remove. FlattenSeq and the offsets of `reorder` are recursive functions; what
they compute is proved from their recursion by induction over the number of entries (`Induct` of
FoldLemmas, from the well-foundedness of the naturals, with sets in place of predicates).

*StoresProofs, Capture.* The parser is proved first. The chunks of a payload lie one behind the other in its
encoding (`Layout`, `Encodes`), by induction over their number. Of a beginning of the encoding, a chunk
has a next one exactly if it has come whole (`BehindChunk`), and a trailer has come to its empty line
exactly if all of it has (`EndedRead`); so `chunked_complete` holds of the whole and of no part of it
(`CompleteRead`, by induction from the last chunk), and what is decoded of the whole is the payload
(`DecodeWhole`). Both recursions have a value because each step goes up (`Upwards`). Then `ProxyInv`: a
thread that reads is before the end of a message it can read (`ReadingOK`), and the evidence ends with a half
line exactly while a thread writes, whose exchange no longer changes (`EvidenceOK`).

*ReadersProofs, Comparison.* Two maps differ nowhere exactly if they are one (`NoDifference`), from which
`compare()` and `config_key()` agree on any two setups (`KeyCompares`). `SavedInv` says that each saved run
has the key of its setup, and that the later of two runs, if the check compared it with the earlier and no
reason was given, has another setup (`Refuses`); it is what a run in the middle does not disturb. A spread is
of repeats because two used values of one configuration are of two runs (`UsedTwice`, by counting).

*ReadersProofs, HostSeries.* `SarInv`: a row of sar is taken less than half a day after the one before it, or
before it by the one step that a clock is set back, on the same day (`Follows`). By induction over the rows
the clock of the parser then has the date of each (`RowsAreRead`), the rows that are passed over
included. `GroupInv`: what the counter of a service grew by since any of its rows is at most what the
service used since, and all of it if it was not restarted; a rate compares two such rows.

*ReadersProofs, GoProfile.* `ProfileInv`: what a stack's counter grew by since the base is at most what
happened to it in the window, and all of it if the application was not restarted (`Grew`).
The rest is about sums. Decoding gives the samples back whatever tables they were encoded with
(`DecodedIs`), and the flat, application, class and route times add up to the total since each sample
has one leaf, owner, class and route (`CpuAddsUp`, from the sums over groups in FoldLemmas).

*ReadersProofs, StateLog.* The lines before the end of the window are the first ones, and those in it are behind
the early ones (`NoGap`, `WindowIs`). `SeenInv`: the state that is tracked for an object is the one that the lines
read so far give it (`TrueState`), it was entered at the object's last move, and the counts are of those states. From
it: the peak is the largest number of objects at any line of the window or at its start, because only the state that
a line leads to can grow (`PeaksOK`); a sample is taken when the first line behind its time is read
(`OccupancyOK`); while no line is inconsistent, `from` is the tracked state, or none that is counted
(`FromIs`, `TransOK`); and a line that moves an object in the window ends the stay since its last move, and no other
(`EndedNext`, `StaysOK`). That `state_stays` has the same stays follows from the log alone (`TableAgrees`).

*FoldLemmas.* The community modules define sums and folds by a recursion over what a CHOOSE takes out of
a set next. That a sum does not depend on it, splits over disjoint sets and over groups, and grows with
its values, is proved by induction over finite sets (`FiniteInduct`); a fold over a sequence goes
element by element (`FoldExists`).

Assumptions: those the modules name. For RunStore: the holder of a free lock is not a process,
the bounds are numbers, commands and outcomes are among the known ones. For RunFlow: a collector
has one phase, and every before collector's mark is removed by some after collector (as the
collectors of `templates/config.toml` come in pairs). For OperationLock: NoProcess is not a
process. For CollectorPhase: the limit is positive and isuscope's own machine is not a node.
For StateCache: a manifest names each of its logs once (their IDs are unique), a log has finitely
many events, and at least one copy is kept (`CACHE_RUNS` is 3). For Capture, of what peers send: a chunk has at least one
byte, the sizes of chunks are written differently and without CR, and a trailer is made of whole lines, none of
them empty. For Comparison: the fields of an identity are read from its bytes, the keys and values of maps are
strings, and a run whose benchmark passed is complete or degraded exactly if it ran to its end (`settle_state`). For
HostSeries: `Noon` is at least one and at most half a day, and a row of the CPU is idle between nothing and
all of the time. For GoProfile: there are finitely many stacks and routes, each stack has a function, and
none is called `Outside`, which stands for no function of the application. For StateLog: there are finitely
many objects, "from": null and a missing "from" are no states and not the same, and the latter is no time. ChangeLog and BenchmarkCommand
assume nothing.

Only model-checked:

- Liveness (`CommandsEnd`, `RunEnds`, `PhaseEnds`, `BenchmarkReturns`): the prover does not reason about
  fairness and ENABLED.
- `RequestsTrue`, `EdgesTrue`, `StatementsCounted` and `ViewsTrue`: pure functions of recorded
  events, most of them folds with a state of many parts. The run compares them with direct readings
  of all small inputs. What they compute for every input takes induction over data; the library's
  induction theorems cannot be used, as their parameters are operators, and the way round them
  (`Induct`) needs a set of all tables in question for each. It was taken where a system invariant
  rests on a recursion and for the four readers above.
- `VerdictKept` and `IndexTruthful` outside the conditions above are false, as the findings show.

## What the models leave out

- In RunStore, the content of logs and metrics; the row counts insertions instead.
- Of collectors, the generic line protocol and JSON forms, expansion to nodes and the shell that
  runs on them. Of Go profiles, the protobuf wire format and the text reports.
- In BenchmarkCommand, the wording of prompts and patterns: a line is what the patterns make of it.
- Contents of decisions, and validation of their fields; the rewriting of headers and the session
  hash in Capture; columns that are added up as others are, and averages, in QueryViews.
- `brief`, which lays out what the other views say, the other sections of the report, `sql`, which hands a
  statement to SQLite, the read queries of the store, its migrations, and the `latest` files.
- Where a reader only gives up or leaves lines out: the two bails of `parse_perf_script`, the exit code 65 of
  `summarize` (`access_summary.rs:187`), the skipped lines and the bail of `read_log`
  (`transition.rs:290`, `transition.rs:317`). They remove output and change none that is shown.
- Of AlpReport, requests without a bucket; of HostSeries, two of the three CPU counters; of
  PerfSeries, the bucketed metrics other than `cpu.sample_count`. They take the same path as what is there.
- QueryLog has two entries, so its 95th percentile is always the larger one; where the rank falls among many is not
  checked.
- File system and database errors in RunStore (RunFlow has them as `StoreFails`). A crash
  covers what they leave on disk.
- Power loss: the code relies on rename and SQLite for it, and so do the models.
- In OperationLock: `operation-timing.tsv`, which is only appended to; a second lock path; a run
  without `[lock]`, which locks nothing; commands that outlive the script that started them.
- In CollectorPhase: the final sort of the outputs.
- In RunFlow: several nodes (a mark is per before collector, so nodes appear as marks that
  fail one by one), queues inside a phase (CollectorPhase has them), the ssh of disk check and clean-up as children.
  A parser stands for all of them.
- Equal stamps for different contents of `run.json`: `manifest_stamp` is size and
  modification time, taken as unique. So are the versions of logs in StateCache and the record
  files in ChangeLog.

## Plan

Done: RunLedger, RunStore, RunFlow, OperationLock, CollectorPhase; BenchmarkCommand and
Measurement; StateAnswers, StateCache, ChangeLog, Capture; the readers and Comparison; the
theorems above.

1. Proofs: the other readers (the spans of AccessSummary, the edges of Transitions).
2. The `latest` files, which a run replaces while others read them, and `brief`.
