------------------------------ MODULE Comparison ------------------------------
(***************************************************************************)
(* What makes two runs comparable: the check that stops a configuration    *)
(* from being measured again by accident (src/src/repeat.rs and            *)
(* check_repeat of src/src/runner.rs), the key under which a configuration *)
(* is saved, the spread of the scores of one key (src/src/variance.rs) and *)
(* the conditions shown next to a difference of scores                     *)
(* (src/src/changes.rs).                                                   *)
(*                                                                         *)
(* Runs are measured one after the other (Store's lock is RunStore's       *)
(* subject).  A SHA-256 is the thing it was computed from.  A definition   *)
(* named X_Slip is a slip that the specification does not use.             *)
(***************************************************************************)
EXTENDS Integers, Sequences, FiniteSets, FiniteSetsExt, Functions

CONSTANTS
    Setup,     \* what a run can measure: records of the fields below
    Outcome,   \* how it ends: [started, stopped, state, passed, score]
    None,      \* Option::None
    Empty,     \* the empty hash: it could not be taken
    MaxRuns    \* bound: saved runs

\* The fields of Setup: mode; identity, None or [bytes, values], what the
\* identity_command wrote and the fields read from it; source, config,
\* routes, script, version: hashes; files: hashes by name; nodes and later:
\* the fingerprints that the before and the other collectors report; bench:
\* the `bench:` tag.
VARIABLE runs   \* the saved runs: [of, reason, outcome, key]

At(f, k) == IF k \in DOMAIN f THEN f[k] ELSE None
Differing(f, g) == {k \in DOMAIN f \cup DOMAIN g : At(f, k) # At(g, k)}
Merged(f, g) == [k \in DOMAIN f \cup DOMAIN g |-> IF k \in DOMAIN g THEN g[k] ELSE f[k]]
When(item, condition) == IF condition THEN {<<item, None>>} ELSE {}

-----------------------------------------------------------------------------
(* repeat.rs                                                               *)

\* Fields on both sides are compared one by one, other outputs as a whole,
\* and without an identity_command the source stands in.
ChangedIdentity(a, b) ==
    LET i == a.identity  j == b.identity IN
    IF i # None /\ j # None
    THEN IF DOMAIN i.values = {} \/ DOMAIN j.values = {}
         THEN When("identity", i.bytes # j.bytes)
         ELSE {<<"identity", k>> : k \in Differing(i.values, j.values)}
    ELSE IF i = None /\ j = None
         THEN When("source", a.source = Empty \/ a.source # b.source)
         ELSE {<<"identity", None>>}

ChangedObservation(a, b) ==
    When("version", a.version # b.version)
    \cup When("config", a.config = Empty \/ a.config # b.config)
    \cup When("routes", a.routes # b.routes)
    \cup {<<"file", name>> : name \in Differing(a.files, b.files)}

\* compare(), with the fingerprints that each side has.
Changed(a, mine, b, yours) ==
    When("mode", a.mode # b.mode)
    \cup ChangedIdentity(a, b) \cup ChangedObservation(a, b)
    \cup {<<"fingerprint", k>> : k \in Differing(mine, yours)}

\* Slip: outputs are never compared field by field.
Deployment_Slip(c) ==
    IF c.identity = None THEN c.source ELSE c.identity.bytes

\* config_key(): what stands for the deployment.
Deployment(c) ==
    IF c.identity = None THEN <<"source", c.source>>
    ELSE IF DOMAIN c.identity.values # {} THEN <<"values", c.identity.values>>
    ELSE <<"sha256", c.identity.bytes>>

\* The JSON of which the key is the hash.
Configuration(c, fingerprints) ==
    [mode |-> c.mode, deployment |-> Deployment(c), version |-> c.version, config |-> c.config,
     routes |-> c.routes, files |-> c.files, fingerprints |-> fingerprints]

Key(c, fingerprints) ==
    IF c.config = Empty \/ (c.identity = None /\ c.source = Empty) THEN None
    ELSE Configuration(c, fingerprints)

-----------------------------------------------------------------------------
(* runner.rs and storage.rs                                                *)

\* What fingerprint_index() has for a saved run.
Fingerprints(c) == Merged(c.nodes, c.later)

RanToItsEnd(r) == r.outcome.started /\ ~r.outcome.stopped

\* A map of strings.
Known(f) == /\ f = [k \in DOMAIN f |-> f[k]]
            /\ \A k \in DOMAIN f : f[k] # None

\* The maps of a manifest are maps of strings, and the fields of an identity
\* are read from its bytes (identity()); None is not a key.
ASSUME SetupAssumption ==
    \A c \in Setup :
        /\ Known(c.files) /\ Known(c.nodes) /\ Known(c.later)
        /\ c.identity # None => Known(c.identity.values)
        /\ \A d \in Setup :
            c.identity # None /\ d.identity # None /\ c.identity.bytes = d.identity.bytes
                => c.identity.values = d.identity.values
        /\ Configuration(c, Fingerprints(c)) # None

\* A benchmark that isuscope stopped has not passed, and what passed is
\* complete or degraded unless it was interrupted (settle_state).
ASSUME OutcomeAssumption ==
    \A o \in Outcome :
        o.passed => (o.state \in {"complete", "degraded"} <=> o.started /\ ~o.stopped)

\* Slip: any run whose benchmark started.
Started_Slip == {i \in DOMAIN runs : runs[i].outcome.started}

\* last_started_run(): benchmark_started and not benchmark_stopped.
Started == {i \in DOMAIN runs : RanToItsEnd(runs[i])}

\* check_repeat() and refuses(): the collectors that ran so far are those of
\* the before phase.
Refused(c, reason) ==
    /\ Started # {} /\ ~reason
    /\ LET base == runs[Max(Started)].of
       IN Changed(base, Fingerprints(base), c, c.nodes) = {}

\* A run whose benchmark was not started has not come as far as the check.
Measure(c, reason, o) ==
    /\ Len(runs) < MaxRuns
    /\ o.started => ~Refused(c, reason)
    /\ runs' = Append(runs, [of |-> c, reason |-> reason, outcome |-> o,
                             key |-> Key(c, Fingerprints(c))])

Init == runs = <<>>
Next == \E c \in Setup, reason \in BOOLEAN, o \in Outcome : Measure(c, reason, o)
Spec == Init /\ [][Next]_runs

-----------------------------------------------------------------------------
(* variance.rs                                                             *)

\* Slip: runs without a key are one group.
Measurement_Slip(r) == r.outcome.passed /\ r.outcome.state \in {"complete", "degraded"}

\* A measurement: it passed, ran to its end, and has a key.
Measurement(r) ==
    /\ r.outcome.passed /\ r.outcome.state \in {"complete", "degraded"} /\ r.key # None

ScoresBefore(i, key) ==
    {j \in 1..i - 1 : Measurement(runs[j]) /\ runs[j].outcome.score # None /\ runs[j].key = key}
Total(S) == FoldSet(LAMBDA j, sum : sum + runs[j].outcome.score, 0, S)

\* pooled(): the configurations with two scores, unless their mean is zero;
\* the spread is there when they leave a degree of freedom.
Pooled(i) ==
    LET keys == {key \in {runs[j].key : j \in 1..i - 1} :
                   /\ Cardinality(ScoresBefore(i, key)) >= 2
                   /\ Total(ScoresBefore(i, key)) # 0}
        used == UNION {ScoresBefore(i, key) : key \in keys}
    IN [configs |-> Cardinality(keys), runs |-> Cardinality(used),
        spread |-> Cardinality(used) > Cardinality(keys)]

\* config_runs(): the rows under the chosen one.
ConfigRuns(i) ==
    {j \in DOMAIN runs : runs[j].outcome.score # None
                         /\ runs[i].key # None /\ runs[j].key = runs[i].key}

-----------------------------------------------------------------------------
(* changes.rs                                                              *)

\* Slip: a hash that could not be taken is like any other.
CompareHash_Slip(a, b) == IF a = b THEN "same" ELSE "changed"

CompareHash(a, b) ==
    IF a = Empty \/ b = Empty THEN "unknown" ELSE IF a = b THEN "same" ELSE "changed"

\* comparison_conditions() with the fingerprints saved for both runs; none
\* saved is "unknown".
Conditions(a, b) ==
    LET mine == Fingerprints(a)  yours == Fingerprints(b) IN
    [source |-> CompareHash(a.source, b.source),
     observation |->
        IF \/ a.routes # b.routes \/ a.script # b.script \/ a.version # b.version
           \/ Differing(a.files, b.files) # {}
        THEN "changed" ELSE CompareHash(a.config, b.config),
     environment |->
        IF DOMAIN mine = {} \/ DOMAIN yours = {} THEN "unknown"
        ELSE IF Differing(mine, yours) = {} THEN "same" ELSE "changed",
     benchmark |->
        IF a.bench = None /\ b.bench = None THEN "absent"
        ELSE IF a.bench = None \/ b.bench = None THEN "unknown"
        ELSE IF a.bench = b.bench THEN "same" ELSE "changed"]

\* previous_run() of src/src/brief.rs: what a run without a base is compared with.
Previous(i) == {j \in 1..i - 1 : runs[j].outcome.started}

\* score_diff(): the difference, and whether it has a percentage.
ScoreDiff(a, b) ==
    IF a = None \/ b = None THEN [delta |-> None, percent |-> FALSE]
    ELSE [delta |-> b - a, percent |-> a # 0]

\* run_review(): the comparison shown for a run.
Review(i) ==
    IF Previous(i) = {} THEN None
    ELSE LET j == Max(Previous(i))
         IN [base |-> j, conditions |-> Conditions(runs[j].of, runs[i].of),
             score |-> ScoreDiff(runs[j].outcome.score, runs[i].outcome.score)]

-----------------------------------------------------------------------------
(* Properties                                                              *)

Pairs == {p \in (DOMAIN runs) \X (DOMAIN runs) : p[1] < p[2]}
SameSetup(p) ==
    LET a == runs[p[1]].of  b == runs[p[2]].of
    IN Changed(a, Fingerprints(a), b, Fingerprints(b)) = {}

\* The key of a saved run says what compare() says: two runs have the same
\* key just when nothing changed between them, so that a run without a
\* comparable configuration is like no other, not even like itself
\* (config_key).
KeyIsComparison ==
    \A p \in Pairs : SameSetup(p) <=> runs[p[1]].key # None /\ runs[p[1]].key = runs[p[2]].key

\* A configuration is not measured twice in a row without a reason, also
\* when runs that were stopped or not started came between, as long as all
\* its fingerprints are taken before the benchmark (check_repeat).
NoSilentRepeat ==
    \A p \in Pairs :
        /\ RanToItsEnd(runs[p[1]]) /\ runs[p[2]].outcome.started /\ ~runs[p[2]].reason
        /\ \A k \in p[1] + 1..p[2] - 1 : ~RanToItsEnd(runs[k])
        /\ runs[p[1]].of.later = <<>> /\ runs[p[2]].of.later = <<>>
        => ~SameSetup(p)

\* A spread is shown with a run just when the score of one configuration,
\* one that compare() takes for the same, was measured twice before it and
\* its scores have a mean; it is made of no run that failed, was stopped or
\* came later (variance.rs).
SpreadIsRepeats ==
    \A i \in DOMAIN runs :
        /\ Pooled(i).spread <=>
            \E p \in Pairs : /\ p[2] < i
                             /\ \A k \in {p[1], p[2]} : runs[k].outcome.passed
                                    /\ RanToItsEnd(runs[k]) /\ runs[k].outcome.score # None
                             /\ SameSetup(p)
                             /\ Total(ScoresBefore(i, runs[p[1]].key)) # 0
        /\ Pooled(i).runs >= 2 * Pooled(i).configs

\* A comparison hides nothing that the repeat check would have named: what
\* changed on the nodes or in the observation is shown as changed or as
\* unknown, and no condition is the same unless both runs know it
\* (comparison_conditions, src/README.md:68).
ConditionsHonest ==
    \A i \in DOMAIN runs :
        LET review == Review(i)
            a == runs[review.base].of  b == runs[i].of
            shown == review.conditions
            changed == Changed(a, Fingerprints(a), b, Fingerprints(b))
        IN review # None =>
           /\ ChangedObservation(a, b) # {} => shown.observation # "same"
           /\ (\E x \in changed : x[1] = "fingerprint") => shown.environment # "same"
           /\ shown.source = "same" => a.source # Empty /\ a.source = b.source
           /\ shown.observation = "same" => Empty \notin {a.config, b.config}
           /\ shown.environment = "same" => DOMAIN Fingerprints(a) # {}

\* Runs are taken for repeats of each other exactly when what they measured
\* is the same, and no repeat goes unasked (storage.rs:573, repeat.rs).
ConditionsCompared ==
    KeyIsComparison /\ NoSilentRepeat /\ SpreadIsRepeats /\ ConditionsHonest
=============================================================================
