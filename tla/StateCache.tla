----------------------------- MODULE StateCache -----------------------------
(***************************************************************************)
(* The two caches of a run's state logs (src/src/states.rs and             *)
(* states/cache.rs).  While a run is measured each collector that parsed a *)
(* state log adds its events to a database beside the logs ("prepared"),   *)
(* and the end of the run puts them in the order of the manifest.  A query *)
(* of a saved run opens a copy under cache/states, or makes one: from the  *)
(* prepared database if it is of exactly these logs, else from the logs.   *)
(* At most CacheRuns copies are kept.  Whatever fails, the query reads the *)
(* logs.                                                                   *)
(*                                                                         *)
(* A log's version stands for its stamp (size, times, inode), and a row is *)
(* an event of a version of a log.  A definition named Action_Slip is a    *)
(* plausible slip that the specification does not use.                     *)
(***************************************************************************)
EXTENDS Naturals, Sequences, SequencesExt, FiniteSets

CONSTANTS
    Run, Log, Sources, Events, Query,   \* as in StateAnswers
    Old,          \* runs saved before there were prepared databases
    CacheRuns,    \* CACHE_RUNS
    MaxQuestions, \* bound: questions in a behaviour
    MaxChanges,   \* bound: times a log or a context is replaced in a behaviour
    MaxKills,     \* bound: queries killed in a behaviour
    Free          \* the holder of a free lock

\* The logs of a manifest have IDs of their own.
ASSUME SourcesAssumption == \A r \in Run : Sources[r] \in Seq(Log) /\ IsInjective(Sources[r])
ASSUME EventsAssumption == Events \in [Log -> Nat]
ASSUME CacheRunsAssumption == CacheRuns \in Nat \ {0}

VARIABLES
    log, context,   \* as in StateAnswers
    changes,    \* times one of them was replaced so far
    phase,      \* of each run: measuring, saved
    ordered,    \* the runs whose prepared database was offered for ordering
    prepared,   \* logs/.state-cache/states.sqlite3 of each run
    lock,       \* logs/.state-cache/lock of each run
    col,        \* the collector of each log of each run
    copy,       \* cache/states/<run>.sqlite3
    recent,     \* the runs with a copy, the last used one last (modification times)
    ask,        \* a process that asks
    answer,     \* as in StateAnswers
    questions,  \* questions asked so far
    killed      \* queries killed so far

cache_vars == <<log, context, changes, phase, ordered, prepared, lock, col, copy, recent, ask,
                answer, questions, killed>>

Promise == INSTANCE StateAnswers WITH
    question <- [q \in Query |->
        IF ask[q].step = "idle" THEN [run |-> "none"]
        ELSE [run |-> ask[q].run, since |-> ask[q].since, context |-> ask[q].context]]

Parsed(f, v) == Promise!Parsed(f, v)
LogSet(r) == ToSet(Sources[r])

\* SourceStamp of each log of r, in the order of the manifest.
Stamps(r) == [k \in DOMAIN Sources[r] |-> [file |-> Sources[r][k], version |-> log[r][Sources[r][k]]]]

-----------------------------------------------------------------------------
(* Databases                                                               *)

NoDb == [context |-> 0]
IsFile(db) == db # NoDb

\* Metadata: one entry for each log that was added, in that order.
Entry(f, v) == [stamp |-> [file |-> f, version |-> v], events |-> Events[f]]
StampsOf(db) == [k \in DOMAIN db.sources |-> db.sources[k].stamp]

\* state_stays is computed from all the rows in the end.
Db(c, rows, sources) == [context |-> c, rows |-> rows, stays |-> ToSet(rows), sources |-> sources]

\* Slip: the order of the logs is not compared.
Cached_Slip(db, c, stamps) ==
    IsFile(db) /\ db.context = c /\ ToSet(StampsOf(db)) = ToSet(stamps)

\* Is the database made of exactly these logs, in this order?
Cached(db, c, stamps) == IsFile(db) /\ db.context = c /\ StampsOf(db) = stamps

\* The events of an entry are the next rows after those of the entries before it.
RowsOf(db, k) ==
    LET before[j \in DOMAIN db.sources] ==
            IF j = 1 THEN 0 ELSE before[j - 1] + db.sources[j - 1].events
    IN SubSeq(db.rows, before[k] + 1, before[k] + db.sources[k].events)

\* Slip: the entries are put in order and their rows are not.
Reordered_Slip(db, stamps) ==
    LET at(s) == CHOOSE k \in DOMAIN db.sources : db.sources[k].stamp = s
    IN Db(db.context, db.rows, [i \in DOMAIN stamps |-> db.sources[at(stamps[i])]])

\* reorder(): the same entries in the order of the stamps, each with its rows.
Reordered(db, stamps) ==
    LET at(s) == CHOOSE k \in DOMAIN db.sources : db.sources[k].stamp = s
    IN Db(db.context, FlattenSeq([i \in DOMAIN stamps |-> RowsOf(db, at(stamps[i]))]),
          [i \in DOMAIN stamps |-> db.sources[at(stamps[i])]])

\* May it be reordered, and need it be?
Reorderable(db, c, stamps) ==
    /\ db.context = c
    /\ Len(db.sources) = Len(stamps)
    /\ StampsOf(db) # stamps
    /\ \A i \in DOMAIN stamps : \E k \in DOMAIN db.sources : db.sources[k].stamp = stamps[i]

-----------------------------------------------------------------------------
Idle == [step |-> "idle"]
Waiting == [step |-> "measuring"]

CacheInit ==
    /\ log = [r \in Run |-> [f \in Log |-> 1]]
    /\ context = [r \in Run |-> 1]
    /\ changes = 0
    /\ phase = [r \in Run |-> IF r \in Old THEN "saved" ELSE "measuring"]
    /\ ordered = {}
    /\ prepared = [r \in Run |-> NoDb]
    /\ lock = [r \in Run |-> Free]
    /\ col = [r \in Run |-> [f \in Log |-> Waiting]]
    /\ copy = [r \in Run |-> NoDb]
    /\ recent = <<>>
    /\ ask = [q \in Query |-> Idle]
    /\ answer = [q \in Query |-> Promise!NoAnswer]
    /\ questions = 0
    /\ killed = 0

world == <<log, context, changes>>
run_vars == <<phase, ordered, prepared, lock, col>>
query_vars == <<copy, recent, ask, answer, questions, killed>>

(* The world: somebody replaces a log, run.json gets another benchmark time. *)

ReplaceLog(r, f) ==
    /\ f \in LogSet(r) /\ changes < MaxChanges
    /\ changes' = changes + 1
    /\ log' = [log EXCEPT ![r][f] = @ + 1]
    /\ UNCHANGED <<context, run_vars, query_vars>>

ChangeContext(r) ==
    /\ changes < MaxChanges
    /\ changes' = changes + 1
    /\ context' = [context EXCEPT ![r] = @ + 1]
    /\ UNCHANGED <<log, run_vars, query_vars>>

-----------------------------------------------------------------------------
(* A collector of the run: collect() and cache::warm()                     *)

SetCol(r, f, c) == col' = [col EXCEPT ![r][f] = c]

\* The context of run.json and the stamp of the log before it is read.
Stamp(r, f) ==
    /\ phase[r] = "measuring" /\ f \in LogSet(r) /\ col[r][f].step = "measuring"
    /\ SetCol(r, f, [step |-> "stamped", context |-> context[r], stamp |-> log[r][f]])
    /\ UNCHANGED <<world, phase, ordered, prepared, lock, query_vars>>

Parse(r, f) ==
    /\ col[r][f].step = "stamped"
    /\ SetCol(r, f, [step |-> "parsed", context |-> col[r][f].context,
                     stamp |-> col[r][f].stamp, read |-> log[r][f]])
    /\ UNCHANGED <<world, phase, ordered, prepared, lock, query_vars>>

\* Slip: the stamp is not compared with that of before the parsing.
WarmLock_Slip(r, f) ==
    /\ col[r][f].step = "parsed" /\ lock[r] = Free
    /\ lock' = [lock EXCEPT ![r] = f]
    /\ SetCol(r, f, [col[r][f] EXCEPT !.step = "locked"])
    /\ UNCHANGED <<world, phase, ordered, prepared, query_vars>>

\* The lock, and whether the log is still the one that was stamped.
WarmLock(r, f) ==
    /\ col[r][f].step = "parsed" /\ lock[r] = Free
    /\ IF log[r][f] = col[r][f].stamp
       THEN /\ lock' = [lock EXCEPT ![r] = f]
            /\ SetCol(r, f, [col[r][f] EXCEPT !.step = "locked"])
       ELSE SetCol(r, f, [step |-> "done"]) /\ UNCHANGED lock
    /\ UNCHANGED <<world, phase, ordered, prepared, query_vars>>

\* Is there a database of this context to add to?
WarmLook(r, f) ==
    /\ col[r][f].step = "locked"
    /\ SetCol(r, f, [step |-> "looked", context |-> col[r][f].context,
                     stamp |-> col[r][f].stamp, read |-> col[r][f].read,
                     found |-> IF IsFile(prepared[r]) /\ prepared[r].context = col[r][f].context
                               THEN prepared[r] ELSE NoDb])
    /\ UNCHANGED <<world, phase, ordered, prepared, lock, query_vars>>

\* Slip: state_stays is not computed again when events are added.
Warmed_Slip(found, f, c) ==
    IF ~IsFile(found)
    THEN Db(c.context, Parsed(f, c.read), <<Entry(f, c.stamp)>>)
    ELSE IF \E k \in DOMAIN found.sources : found.sources[k].stamp.file = f THEN found
    ELSE [Db(found.context, found.rows \o Parsed(f, c.read), Append(found.sources, Entry(f, c.stamp)))
            EXCEPT !.stays = found.stays]

\* The events are added to the database that was found, unless this log is
\* in it already, or make a new one.
Warmed(found, f, c) ==
    IF ~IsFile(found)
    THEN Db(c.context, Parsed(f, c.read), <<Entry(f, c.stamp)>>)
    ELSE IF \E k \in DOMAIN found.sources : found.sources[k].stamp.file = f THEN found
    ELSE Db(found.context, found.rows \o Parsed(f, c.read), Append(found.sources, Entry(f, c.stamp)))

\* One transaction, or a rename; then the lock is dropped.
WarmCommit(r, f) ==
    /\ col[r][f].step = "looked"
    /\ prepared' = [prepared EXCEPT ![r] = Warmed(col[r][f].found, f, col[r][f])]
    /\ lock' = [lock EXCEPT ![r] = Free]
    /\ SetCol(r, f, [step |-> "done"])
    /\ UNCHANGED <<world, phase, ordered, query_vars>>

\* Any error of the cache only prints a warning.
WarmFails(r, f) ==
    /\ col[r][f].step \in {"parsed", "locked", "looked"}
    /\ lock' = [lock EXCEPT ![r] = IF @ = f THEN Free ELSE @]
    /\ SetCol(r, f, [step |-> "done"])
    /\ UNCHANGED <<world, phase, ordered, prepared, query_vars>>

Collector(r, f) ==
    Stamp(r, f) \/ Parse(r, f) \/ WarmLock(r, f) \/ WarmLook(r, f) \/ WarmCommit(r, f)
        \/ WarmFails(r, f)

-----------------------------------------------------------------------------
(* The end of the run: prepare_cache_order(), then the directory is renamed *)

Collected(r) == \A f \in LogSet(r) : col[r][f].step = "done"

\* Slip: the database is left in the order in which the collectors ended.
PrepareOrder_Slip(r) ==
    /\ phase[r] = "measuring" /\ r \notin ordered /\ Collected(r) /\ lock[r] = Free
    /\ ordered' = ordered \cup {r}
    /\ UNCHANGED <<world, phase, prepared, lock, col, query_vars>>

PrepareOrder(r) ==
    /\ phase[r] = "measuring" /\ r \notin ordered /\ Collected(r) /\ lock[r] = Free
    /\ ordered' = ordered \cup {r}
    /\ prepared' = [prepared EXCEPT ![r] =
                      IF /\ Len(Sources[r]) > 1 /\ IsFile(@)
                         /\ Reorderable(@, context[r], Stamps(r))
                      THEN Reordered(@, Stamps(r)) ELSE @]
    /\ UNCHANGED <<world, phase, lock, col, query_vars>>

Save(r) ==
    /\ phase[r] = "measuring" /\ r \in ordered
    /\ phase' = [phase EXCEPT ![r] = "saved"]
    /\ UNCHANGED <<world, ordered, prepared, lock, col, query_vars>>

\* The run is killed; the next command saves what is there.
Killed(r) ==
    /\ phase[r] = "measuring"
    /\ phase' = [phase EXCEPT ![r] = "saved"]
    /\ lock' = [lock EXCEPT ![r] = Free]
    /\ col' = [col EXCEPT ![r] = [f \in Log |-> [step |-> "done"]]]
    /\ UNCHANGED <<world, ordered, prepared, query_vars>>

-----------------------------------------------------------------------------
(* A query: load_cached()                                                  *)

Enter(q, step) == ask' = [ask EXCEPT ![q].step = step]
Key(q) == [stamps |-> ask[q].stamps, context |-> ask[q].context]
RunOf(q) == ask[q].run
Left(q) == Len(ask[q].stamps) < Len(Sources[RunOf(q)])
ReadAll(q) == ask[q].read = Len(Sources[RunOf(q)])

\* The manifest of the run is read; then the question is what Promise sees.
Ask(q, r) ==
    /\ ask[q].step = "idle" /\ phase[r] = "saved" /\ questions < MaxQuestions
    /\ questions' = questions + 1
    /\ ask' = [ask EXCEPT ![q] = [step |-> "key", run |-> r, since |-> log[r],
                  context |-> context[r], stamps |-> <<>>, rows |-> <<>>, stays |-> {},
                  seen |-> <<>>, read |-> 0, victims |-> {}]]
    /\ UNCHANGED <<world, run_vars, copy, recent, answer, killed>>

\* cache_key() looks at one log after the other.
KeyLog(q) ==
    /\ ask[q].step = "key" /\ Left(q)
    /\ ask' = [ask EXCEPT ![q].stamps = Append(@, Stamps(RunOf(q))[Len(@) + 1])]
    /\ UNCHANGED <<world, run_vars, copy, recent, answer, questions, killed>>

\* Slip: the copy of the run is opened whatever its key.
Holds_Slip(file, key) == IsFile(file)

Holds(file, key) == IsFile(file) /\ file.key = key

OpenCopy(q) ==
    /\ ask[q].step = "key" /\ ~Left(q)
    /\ IF Holds(copy[RunOf(q)], Key(q))
       THEN ask' = [ask EXCEPT ![q].step = "hit", ![q].rows = copy[RunOf(q)].rows,
                               ![q].stays = copy[RunOf(q)].stays]
       ELSE Enter(q, "seek")
    /\ UNCHANGED <<world, run_vars, copy, recent, answer, questions, killed>>

\* The copies but that of r.
Others(r) == RemoveFirst(recent, r)

Used(r) == Append(Others(r), r)

Answer(q) ==
    /\ answer' = [answer EXCEPT ![q] = [rows |-> ask[q].rows, stays |-> ask[q].stays,
                                        context |-> ask[q].context]]
    /\ ask' = [ask EXCEPT ![q] = Idle]

\* The open copy is read even if another process has removed its name.
Hit(q) ==
    /\ ask[q].step = "hit"
    /\ recent' = IF IsFile(copy[RunOf(q)]) THEN Used(RunOf(q)) ELSE recent
    /\ Answer(q)
    /\ UNCHANGED <<world, run_vars, copy, questions, killed>>

\* copy_prepared(): the stamps are compared one by one and a version never
\* comes back, so that taking them in one step loses nothing.
Seek(q) ==
    /\ ask[q].step = "seek"
    /\ IF IsFile(prepared[RunOf(q)])
       THEN ask' = [ask EXCEPT ![q].step = "locking", ![q].seen = Stamps(RunOf(q))]
       ELSE Enter(q, "build")
    /\ UNCHANGED <<world, run_vars, copy, recent, answer, questions, killed>>

LockPrepared(q) ==
    /\ ask[q].step = "locking" /\ lock[RunOf(q)] = Free
    /\ lock' = [lock EXCEPT ![RunOf(q)] = q]
    /\ Enter(q, "copying")
    /\ UNCHANGED <<world, phase, ordered, prepared, col, copy, recent, answer, questions, killed>>

CopyPrepared(q) ==
    /\ ask[q].step = "copying"
    /\ LET db == prepared[RunOf(q)] IN
       IF Cached(db, ask[q].context, ask[q].seen)
       THEN ask' = [ask EXCEPT ![q].step = "build", ![q].rows = db.rows, ![q].stays = db.stays,
                               ![q].seen = <<>>, ![q].read = Len(db.sources)]
       ELSE ask' = [ask EXCEPT ![q].step = "build", ![q].seen = <<>>]
    /\ lock' = [lock EXCEPT ![RunOf(q)] = Free]
    /\ UNCHANGED <<world, phase, ordered, prepared, col, copy, recent, answer, questions, killed>>

\* The next log is read into the table; state_stays is made from all of it.
ReadLog(q) ==
    LET f == Sources[RunOf(q)][ask[q].read + 1]
        rows == ask[q].rows \o Parsed(f, log[RunOf(q)][f])
    IN ask' = [ask EXCEPT ![q].read = @ + 1, ![q].rows = rows, ![q].stays = ToSet(rows)]

Build(q) ==
    /\ ask[q].step = "build" /\ ~ReadAll(q)
    /\ ReadLog(q)
    /\ UNCHANGED <<world, run_vars, copy, recent, answer, questions, killed>>

\* The temporary file is renamed.
Publish(q) ==
    /\ ask[q].step = "build" /\ ReadAll(q)
    /\ copy' = [copy EXCEPT ![RunOf(q)] = [key |-> Key(q), rows |-> ask[q].rows,
                                          stays |-> ask[q].stays]]
    /\ recent' = Used(RunOf(q))
    /\ Enter(q, "list")
    /\ UNCHANGED <<world, run_vars, answer, questions, killed>>

\* Slip: CacheRuns others are kept.
Victims_Slip(r) == ToSet(SubSeq(Others(r), 1, Len(Others(r)) - CacheRuns))

\* evict(): all but this copy and the CacheRuns - 1 last used others.
Victims(r) == ToSet(SubSeq(Others(r), 1, Len(Others(r)) - (CacheRuns - 1)))

ListCopies(q) ==
    /\ ask[q].step = "list"
    /\ ask' = [ask EXCEPT ![q].step = "evict", ![q].victims = Victims(RunOf(q))]
    /\ UNCHANGED <<world, run_vars, copy, recent, answer, questions, killed>>

Evict(q) ==
    /\ ask[q].step = "evict"
    /\ \E r \in ask[q].victims :
        /\ copy' = [copy EXCEPT ![r] = NoDb]
        /\ recent' = Others(r)
        /\ ask' = [ask EXCEPT ![q].victims = @ \ {r}]
    /\ UNCHANGED <<world, run_vars, answer, questions, killed>>

\* open_cached() of what was published, which another query may have replaced.
Reopen(q) ==
    /\ ask[q].step = "evict" /\ ask[q].victims = {}
    /\ IF Holds(copy[RunOf(q)], Key(q))
       THEN ask' = [ask EXCEPT ![q].step = "opened", ![q].rows = copy[RunOf(q)].rows,
                               ![q].stays = copy[RunOf(q)].stays]
       ELSE ask' = [ask EXCEPT ![q].step = "memory", ![q].rows = <<>>, ![q].stays = {},
                               ![q].read = 0]
    /\ UNCHANGED <<world, run_vars, copy, recent, answer, questions, killed>>

\* load(): the logs are read into memory.
Load(q) ==
    /\ ask[q].step = "memory" /\ ~ReadAll(q)
    /\ ReadLog(q)
    /\ UNCHANGED <<world, run_vars, copy, recent, answer, questions, killed>>

Opened(q) ==
    /\ ask[q].step = "opened" \/ (ask[q].step = "memory" /\ ReadAll(q))
    /\ Answer(q)
    /\ UNCHANGED <<world, run_vars, copy, recent, questions, killed>>

\* No copy can be made: build_cache() fails and the logs are read instead.
BuildFails(q) ==
    /\ ask[q].step \in {"seek", "build"}
    /\ ask' = [ask EXCEPT ![q].step = "memory", ![q].rows = <<>>, ![q].stays = {}, ![q].read = 0]
    /\ UNCHANGED <<world, run_vars, copy, recent, answer, questions, killed>>

\* The process is killed: its lock falls, its temporary file is of no use.
KillQuery(q) ==
    /\ ask[q].step # "idle" /\ killed < MaxKills
    /\ killed' = killed + 1
    /\ ask' = [ask EXCEPT ![q] = Idle]
    /\ lock' = [r \in Run |-> IF lock[r] = q THEN Free ELSE lock[r]]
    /\ UNCHANGED <<world, phase, ordered, prepared, col, copy, recent, answer, questions>>

Proceed(q) ==
    \/ KeyLog(q) \/ OpenCopy(q) \/ Hit(q) \/ Seek(q) \/ LockPrepared(q) \/ CopyPrepared(q)
    \/ Build(q) \/ Publish(q) \/ ListCopies(q) \/ Evict(q) \/ Reopen(q) \/ Load(q) \/ Opened(q)

QueryStep(q) == Proceed(q) \/ BuildFails(q) \/ KillQuery(q) \/ \E r \in Run : Ask(q, r)

RunStep(r) ==
    \/ PrepareOrder(r) \/ Save(r) \/ Killed(r) \/ ChangeContext(r)
    \/ \E f \in Log : Collector(r, f) \/ ReplaceLog(r, f)

CacheNext == (\E r \in Run : RunStep(r)) \/ (\E q \in Query : QueryStep(q))

CacheSpec == CacheInit /\ [][CacheNext]_cache_vars

-----------------------------------------------------------------------------
(* Properties                                                              *)

\* The prepared database holds, for each log of its metadata once, all the
\* events of that version and no others, row by row in the order of the
\* metadata, and state_stays is of all its rows: however the collectors
\* interleave, fail or are killed (warm, reorder and build of cache.rs).
PreparedWhole ==
    \A r \in Run : IsFile(prepared[r]) =>
        LET db == prepared[r]
            files == [k \in DOMAIN db.sources |-> db.sources[k].stamp.file]
        IN /\ IsInjective(files)
           /\ db.rows = FlattenSeq([k \in DOMAIN files |->
                            Parsed(files[k], db.sources[k].stamp.version)])
           /\ db.stays = ToSet(db.rows)

\* When the end of the run has put the prepared database in order, a query
\* that finds all its logs in it can use it: no complete database is left
\* in the order in which the collectors happened to end (prepare_cache_order).
PreparedServes ==
    \A r \in ordered :
        /\ IsFile(prepared[r]) /\ prepared[r].context = context[r]
        /\ Len(prepared[r].sources) = Len(Sources[r])
        /\ ToSet(StampsOf(prepared[r])) = ToSet(Stamps(r))
        => StampsOf(prepared[r]) = Stamps(r)

\* No more than CacheRuns copies stay, but for those of queries that have
\* not removed the others yet or were killed before they could (evict).
Copies == {r \in Run : IsFile(copy[r])}
CopiesBounded ==
    Cardinality(Copies) <= CacheRuns + killed
        + Cardinality({q \in Query : ask[q].step \in {"list", "evict"}})

\* A prepared database is never seen half made, has the rows in the order of
\* the manifest and serves the run it was made for (states/cache.rs:269), and
\* the copies stay within CACHE_RUNS (states.rs:876).
CacheSound == PreparedWhole /\ PreparedServes /\ CopiesBounded

\* Every answer is made from the logs as they were while the question was
\* being answered, in the order of the manifest, whether it comes from a
\* copy, the prepared database or the logs (load_cached).
AnswersFromLogs == Promise!Spec
=============================================================================
