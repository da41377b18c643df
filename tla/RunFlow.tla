------------------------------ MODULE RunFlow ------------------------------
(***************************************************************************)
(* The course of one `isuscope run` (src/src/runner.rs, hooks.rs,          *)
(* benchmark.rs, shutdown.rs, process.rs and the phases of collector.rs):  *)
(* its stages, the child processes they start, the signals that cut them   *)
(* short, what the before collectors leave on the nodes, the operation     *)
(* lock that keeps deploys away from the nodes, and the recovery of the    *)
(* run by the next one when the process ended without saving it.           *)
(*                                                                         *)
(* Four threads of control interleave: the run itself, the tasks of the    *)
(* phase it is in, the task that stops the during collectors, and the task *)
(* that waits for signals.                                                 *)
(*                                                                         *)
(* A definition named Action_Slip is a plausible slip in the code that     *)
(* Action models, kept to show that the properties notice it.              *)
(***************************************************************************)
EXTENDS Naturals, FiniteSets

CONSTANTS
    Before, During, Boundary, After,  \* the collectors of each phase
    Undoes,       \* the before collectors whose marks an after collector removes
    Configs,      \* the configurations of a run, a set of Config
    MaxSignals    \* bound: signals sent to the process

Config == [identity : BOOLEAN, prepare : BOOLEAN, before : BOOLEAN,
           cleanup : BOOLEAN, boundary : BOOLEAN, parser : BOOLEAN,
           limit : BOOLEAN]

Hooks     == {"identity", "prepare", "cleanup"}
Collector == Before \cup During \cup Boundary \cup After
Child     == Hooks \cup {"benchmark", "parser"} \cup Collector

\* A collector has one phase.
ASSUME PhasesAssumption ==
    /\ Hooks \cup {"benchmark", "parser"} = Child \ Collector
    /\ During \cap (Before \cup Boundary \cup After) = {}
    /\ Before \cap (Boundary \cup After) = {} /\ Boundary \cap After = {}
ASSUME UndoesAssumption == /\ Undoes \in [After -> SUBSET Before]
                           /\ \A b \in Before : \E a \in After : b \in Undoes[a]
ASSUME FlowBoundsAssumption == MaxSignals \in Nat /\ Configs \subseteq Config

VARIABLES
    conf,       \* which hooks, parsers and time limits are configured
    pc,         \* the stage the run is in
    branch,     \* the collectors' side of the join
    watch,      \* the stage was handed the shutdown (later_signal)
    cut,        \* after_cut
    child,      \* the life of each child process
    groups,     \* GROUPS: the children a second signal kills
    failed,     \* those of Judged that did not end well
    stopTask,   \* terminate_during
    bench,      \* manifest.benchmark
    sig,        \* the step of the task that waits for signals
    sent,       \* signals sent so far
    cancelled,  \* the value of the watch channel
    marks,      \* what before collectors left on the nodes
    stuck,      \* marks that a failed or timed out command was to remove
    lock,       \* the operation lock is held
    disk,       \* the run's directory: "none", "staging", "saved", "dropped"
    recovery    \* of the run by the next one: "none", "renamed", "cleaned"

signals == <<sig, sent, cancelled>>
nodes   == <<marks, stuck>>
stored  == <<disk, recovery>>
vars    == <<conf, pc, branch, watch, cut, child, groups, failed, stopTask,
             bench, signals, nodes, lock, stored>>

Stage  == {"disks", "begin", "early", "prepare", "unprepared", "before",
           "decide", "duringStart", "benchmark", "cleanup", "stopDuring",
           "boundary", "checkpoint", "join", "after", "nodes", "release", "save",
           "refuse", "refuseRelease", "discard", "returned", "exited"}
Branch == {"off", "stopping", "finalize", "after", "done"}
Ended == {"returned", "exited"}
Going == pc \notin Ended

\* The result of the benchmark without its verdict, which RunStore has.
NoBenchmark == [mode |-> "none", interrupted |-> FALSE, stopped |-> "none"]
NotStarted(signal) == [mode |-> "not-started", interrupted |-> signal, stopped |-> "none"]

\* The children whose failure the run decides on.
Judged == {"prepare"} \cup Before

Init ==
    /\ conf \in Configs
    /\ pc = "disks" /\ branch = "off"
    /\ watch = TRUE /\ cut = FALSE
    /\ child = [c \in Child |-> "none"]
    /\ groups = {} /\ failed = {}
    /\ stopTask = "off"
    /\ bench = NoBenchmark
    /\ sig = "first" /\ sent = 0 /\ cancelled = FALSE
    /\ marks = {} /\ stuck = {}
    /\ lock = TRUE
    /\ disk = "none" /\ recovery = "none"

-----------------------------------------------------------------------------
(* Child processes: hooks, the benchmark, collectors and the parser.       *)
(* "spawned" is the moment between spawn() and register_group().           *)

Alive == {c \in Child : child[c] \in {"spawned", "up"}}

\* The children the current stages start and wait for.
Due ==
    CASE pc = "disks"       -> IF conf.identity THEN {"identity"} ELSE {}
      [] pc = "prepare"     -> {"prepare"}
      [] pc = "before"      -> IF conf.before THEN Before ELSE {}
      [] pc = "duringStart" -> During
      [] pc = "benchmark"   -> {"benchmark"}
      [] pc = "cleanup"     -> {"cleanup"}
      [] pc = "boundary"    -> Boundary
      [] pc = "after"       -> After
      [] pc = "join"        -> (IF conf.parser THEN {"parser"} ELSE {})
                               \cup (IF branch = "after" THEN After ELSE {})
      [] OTHER              -> {}

DueDone == \A c \in Due : child[c] = "done"

\* Who watches the shutdown while waiting for a child.
Watched(c) == \/ c \in {"identity", "prepare", "benchmark"} \cup Before
              \/ watch /\ c \in {"cleanup"} \cup Boundary \cup After

\* run_once: after a signal a phase does not start what would be stopped.
Skip(c) ==
    /\ Going
    /\ c \in Due \cap (Before \cup Boundary \cup After)
    /\ child[c] = "none"
    /\ Watched(c) /\ cancelled
    /\ child' = [child EXCEPT ![c] = "done"]
    /\ failed' = failed \cup ({c} \cap Judged)
    /\ UNCHANGED <<conf, pc, branch, watch, cut, groups, stopTask, bench,
                   signals, nodes, lock, stored>>

Spawn(c) ==
    /\ Going
    /\ c \in Due /\ child[c] = "none"
    /\ c \in Collector \ During => ~(Watched(c) /\ cancelled)
    /\ child' = [child EXCEPT ![c] = "spawned"]
    /\ UNCHANGED <<conf, pc, branch, watch, cut, groups, failed, stopTask, bench,
                   signals, nodes, lock, stored>>

\* spawn() fails: the result says so and the run goes on.
SpawnFails(c) ==
    /\ Going
    /\ c \in Due /\ child[c] = "none"
    /\ c \in Collector \ During => ~(Watched(c) /\ cancelled)
    /\ child' = [child EXCEPT ![c] = "done"]
    /\ failed' = failed \cup ({c} \cap Judged)
    /\ bench' = IF c = "benchmark" THEN NotStarted(FALSE) ELSE bench
    /\ stuck' = IF c \in After THEN stuck \cup (marks \cap Undoes[c]) ELSE stuck
    /\ UNCHANGED <<conf, pc, branch, watch, cut, groups, stopTask,
                   signals, marks, lock, stored>>

Registered(c) == c # "parser"

\* register_group; the parser of enrichment.rs is not registered.
Register(c) ==
    /\ Going
    /\ child[c] = "spawned"
    /\ child' = [child EXCEPT ![c] = "up"]
    /\ groups' = IF Registered(c) THEN groups \cup {c} ELSE groups
    /\ marks' = IF c \in Before THEN marks \cup {c} ELSE marks
    /\ bench' = IF c = "benchmark" THEN [bench EXCEPT !.mode = "command"] ELSE bench
    /\ UNCHANGED <<conf, pc, branch, watch, cut, failed, stopTask,
                   signals, stuck, lock, stored>>

\* The child ends by itself.  An after collector that is left to end has
\* removed its marks, or says that it failed.
ChildExits(c) ==
    /\ Going
    /\ child[c] = "up"
    /\ child' = [child EXCEPT ![c] = "dead"]
    /\ \E ok \in BOOLEAN :
          /\ ~ok => c \in Judged \cup After
          /\ failed' = IF ok THEN failed ELSE failed \cup ({c} \cap Judged)
          /\ marks' = IF ok /\ c \in After THEN marks \ Undoes[c] ELSE marks
          /\ stuck' = IF ~ok /\ c \in After THEN stuck \cup (marks \cap Undoes[c]) ELSE stuck
    /\ UNCHANGED <<conf, pc, branch, watch, cut, groups, stopTask, bench,
                   signals, lock, stored>>

\* Why isuscope stops a child it waits for: terminate_group.
Limited(c)     == c \notin During /\ (c = "benchmark" => conf.limit)
Interrupted(c) == Watched(c) /\ cancelled

StopAs(c, reason) ==
    /\ Going
    /\ child[c] = "up"
    /\ child' = [child EXCEPT ![c] = "dead"]
    /\ failed' = failed \cup ({c} \cap Judged)
    /\ bench' = IF c = "benchmark"
                THEN [bench EXCEPT !.stopped = reason,
                                   !.interrupted = reason = "interrupted"]
                ELSE bench
    /\ UNCHANGED <<conf, pc, branch, watch, cut, groups, stopTask,
                   signals, marks, lock, stored>>

StopInterrupted_Ignored(c) == FALSE
StopInterrupted(c) ==
    /\ Interrupted(c)
    /\ StopAs(c, "interrupted")
    /\ UNCHANGED stuck

\* timeout_seconds and idle_timeout_seconds of the benchmark, the time limits
\* of hooks, collectors and parsers.
StopTimedOut(c) ==
    /\ Limited(c)
    /\ StopAs(c, "timeout")
    /\ stuck' = IF c \in After THEN stuck \cup (marks \cap Undoes[c]) ELSE stuck

\* terminate_during
StopDuring(c) ==
    /\ Going
    /\ c \in During /\ child[c] = "up"
    /\ stopTask = "stopping"
    /\ child' = [child EXCEPT ![c] = "dead"]
    /\ UNCHANGED <<conf, pc, branch, watch, cut, groups, failed, stopTask, bench,
                   signals, nodes, lock, stored>>

\* finish_captures and what follows; the group is registered until then.
ChildDone(c) ==
    /\ Going
    /\ child[c] = "dead"
    /\ c \in During => branch = "finalize"
    /\ child' = [child EXCEPT ![c] = "done"]
    /\ groups' = groups \ {c}
    /\ UNCHANGED <<conf, pc, branch, watch, cut, failed, stopTask, bench,
                   signals, nodes, lock, stored>>

-----------------------------------------------------------------------------
(* runner::execute, stage by stage.                                        *)

childVars == <<child, groups, failed>>

\* execute returns: the runtime is dropped, and with it every child that is
\* still there; then the operation lock.
Return(d) ==
    /\ pc' = "returned"
    /\ disk' = d
    /\ lock' = FALSE
    /\ child' = [c \in Child |-> IF c \in Alive THEN "dead" ELSE child[c]]
    /\ UNCHANGED <<conf, branch, watch, cut, groups, failed, stopTask, bench,
                   signals, nodes, recovery>>

\* On to the next stage, with nothing else to see.
Stay == UNCHANGED <<conf, childVars, signals, nodes, lock, stored>>

LaterSignal_Always(w) == w' = TRUE
\* later_signal: a stage that also cleans up is not cut by an earlier signal.
LaterSignal(w) == w' = ~cancelled

DisksChecked ==
    /\ pc = "disks" /\ DueDone
    /\ \/ pc' = "begin" /\ Stay /\ UNCHANGED <<branch, watch, cut, stopTask, bench>>
       \/ Return("none")

StoreFails ==
    \/ pc \in {"early", "decide", "stopDuring", "checkpoint", "discard"} /\ Return("staging")
    \/ pc = "begin" /\ \E d \in {"none", "staging"} : Return(d)
    \/ pc = "save" /\ \E d \in {"staging", "saved"} : Return(d)

Begin ==
    /\ pc = "begin"
    /\ disk' = "staging"
    /\ pc' = IF conf.before THEN (IF conf.prepare THEN "prepare" ELSE "before") ELSE "early"
    /\ UNCHANGED <<conf, branch, watch, cut, childVars, stopTask, bench,
                   signals, nodes, lock, recovery>>

\* With no before collector a repeat is known, and refused, right away.
EarlyRepeatCheck ==
    /\ pc = "early"
    /\ \/ pc' = IF conf.prepare THEN "prepare" ELSE "before"
       \/ pc' = "refuseRelease"
    /\ Stay /\ UNCHANGED <<branch, watch, cut, stopTask, bench>>

Prepared_Unchecked ==
    /\ pc = "prepare" /\ DueDone
    /\ pc' = "before"
    /\ Stay /\ UNCHANGED <<branch, watch, cut, stopTask, bench>>

Prepared ==
    /\ pc = "prepare" /\ DueDone
    /\ pc' = IF "prepare" \in failed THEN "unprepared" ELSE "before"
    /\ Stay /\ UNCHANGED <<branch, watch, cut, stopTask, bench>>

\* No before collector ran: there is nothing to clean up.
Unprepared ==
    /\ pc = "unprepared"
    /\ bench' = NotStarted(cancelled)
    /\ pc' = "nodes"
    /\ Stay /\ UNCHANGED <<branch, watch, cut, stopTask>>

BeforeEnded ==
    /\ pc = "before" /\ DueDone
    /\ pc' = "decide"
    /\ Stay /\ UNCHANGED <<branch, watch, cut, stopTask, bench>>

\* A before collector that failed was required, was the last hope of its node,
\* or neither: then the run goes on.
Decide ==
    /\ pc = "decide"
    /\ \/ /\ cancelled
          /\ bench' = NotStarted(TRUE)
          /\ pc' = "after" /\ LaterSignal(watch)
       \/ /\ ~cancelled /\ failed \cap Before # {}
          /\ bench' = NotStarted(FALSE)
          /\ pc' = "after" /\ LaterSignal(watch)
       \/ /\ ~cancelled
          /\ pc' \in {"refuse", "duringStart"}
          /\ UNCHANGED <<bench, watch>>
    /\ Stay /\ UNCHANGED <<branch, cut, stopTask>>

\* start_during only starts them.
DuringStarted ==
    /\ pc = "duringStart"
    /\ \A c \in During : child[c] \notin {"none", "spawned"}
    /\ pc' = "benchmark"
    /\ Stay /\ UNCHANGED <<branch, watch, cut, stopTask, bench>>

BenchmarkEnded ==
    /\ pc = "benchmark" /\ DueDone
    /\ pc' = IF bench.stopped # "none" /\ conf.cleanup THEN "cleanup" ELSE "stopDuring"
    /\ LaterSignal(watch)
    /\ Stay /\ UNCHANGED <<branch, cut, stopTask, bench>>

CleanupEnded ==
    /\ pc = "cleanup" /\ DueDone
    /\ pc' = "stopDuring"
    /\ Stay /\ UNCHANGED <<branch, watch, cut, stopTask, bench>>

\* The stop of the during collectors goes on beside the boundary phase, which
\* looks for the end of initialize when the benchmark did not print it.
StopDuringStarts ==
    /\ pc = "stopDuring"
    /\ stopTask' = "stopping"
    /\ \/ pc' = "checkpoint"
       \/ conf.boundary /\ bench.mode = "command" /\ pc' = "boundary"
    /\ LaterSignal(watch)
    /\ Stay /\ UNCHANGED <<branch, cut, bench>>

StopTaskEnds ==
    /\ Going
    /\ stopTask = "stopping"
    /\ \A c \in During : child[c] \in {"dead", "done"}
    /\ stopTask' = "done"
    /\ Stay /\ UNCHANGED <<pc, branch, watch, cut, bench>>

BoundaryEnded ==
    /\ pc = "boundary" /\ DueDone
    /\ pc' = "checkpoint"
    /\ Stay /\ UNCHANGED <<branch, watch, cut, stopTask, bench>>

Checkpoint ==
    /\ pc = "checkpoint"
    /\ pc' = "join" /\ branch' = "stopping"
    /\ Stay /\ UNCHANGED <<watch, cut, stopTask, bench>>

\* The join: the parser on one side, on the other the during collectors'
\* output and then the after phase.
BranchStopped_NotAwaited ==
    /\ pc = "join" /\ branch = "stopping"
    /\ branch' = "after" /\ LaterSignal(watch)
    /\ Stay /\ UNCHANGED <<pc, cut, stopTask, bench>>

BranchStopped ==
    /\ pc = "join" /\ branch = "stopping"
    /\ stopTask = "done"
    /\ branch' = "finalize"
    /\ Stay /\ UNCHANGED <<pc, watch, cut, stopTask, bench>>

BranchFinalized ==
    /\ pc = "join" /\ branch = "finalize"
    /\ \A c \in During : child[c] = "done"
    /\ branch' = "after" /\ LaterSignal(watch)
    /\ Stay /\ UNCHANGED <<pc, cut, stopTask, bench>>

\* The shutdown was watched and fired: the phase may have been cut short.
AfterCut_Never == FALSE
AfterCut == watch /\ cancelled

BranchAfterEnded ==
    /\ pc = "join" /\ branch = "after"
    /\ \A c \in After : child[c] = "done"
    /\ cut' = AfterCut
    /\ branch' = "done"
    /\ Stay /\ UNCHANGED <<pc, watch, stopTask, bench>>

Joined_Released ==
    /\ pc = "join" /\ branch = "done" /\ DueDone
    /\ pc' = "nodes" /\ lock' = FALSE
    /\ UNCHANGED <<conf, childVars, signals, nodes, stored, branch, watch, cut,
                   stopTask, bench>>

Joined ==
    /\ pc = "join" /\ branch = "done" /\ DueDone
    /\ pc' = "nodes"
    /\ Stay /\ UNCHANGED <<branch, watch, cut, stopTask, bench>>

AfterEnded ==
    /\ pc = "after" /\ DueDone
    /\ cut' = AfterCut
    /\ pc' = "nodes"
    /\ Stay /\ UNCHANGED <<branch, watch, stopTask, bench>>

\* cleanup_abandoned: a node that cannot be reached keeps what it has.
CleanNodes ==
    \E bad \in SUBSET marks : marks' = bad /\ stuck' = stuck \cup bad

NodesLeft ==
    /\ pc = "nodes"
    /\ pc' = "release"
    /\ IF cut THEN CleanNodes ELSE UNCHANGED nodes
    /\ UNCHANGED <<conf, branch, watch, cut, childVars, stopTask, bench,
                   signals, lock, stored>>

Release ==
    /\ pc = "release"
    /\ pc' = "save"
    /\ lock' = FALSE
    /\ UNCHANGED <<conf, branch, watch, cut, childVars, stopTask, bench,
                   signals, nodes, stored>>

Save == pc = "save" /\ Return("saved")

\* refuse_repeat: clean the nodes, release the lock, discard the run.
RefuseRepeat ==
    /\ pc = "refuse"
    /\ pc' = "refuseRelease"
    /\ CleanNodes
    /\ UNCHANGED <<conf, branch, watch, cut, childVars, stopTask, bench,
                   signals, lock, stored>>

RefuseRelease ==
    /\ pc = "refuseRelease"
    /\ pc' = "discard"
    /\ lock' = FALSE
    /\ UNCHANGED <<conf, branch, watch, cut, childVars, stopTask, bench,
                   signals, nodes, stored>>

Discard == pc = "discard" /\ Return("dropped")

-----------------------------------------------------------------------------
(* Shutdown::listen.  A signal between the two waits finds nobody waiting. *)

runVars == <<conf, pc, branch, watch, cut, stopTask, bench>>

Signal ==
    /\ Going
    /\ sent < MaxSignals
    /\ sent' = sent + 1
    /\ sig' = CASE sig = "first"  -> "cancelling"
                [] sig = "second" -> "killing"
                [] OTHER          -> sig
    /\ UNCHANGED <<runVars, childVars, cancelled, nodes, lock, stored>>

Cancel ==
    /\ Going /\ sig = "cancelling"
    /\ cancelled' = TRUE
    /\ sig' = "rearming"
    /\ UNCHANGED <<runVars, childVars, sent, nodes, lock, stored>>

Rearm ==
    /\ Going /\ sig = "rearming"
    /\ sig' = "second"
    /\ UNCHANGED <<runVars, childVars, sent, cancelled, nodes, lock, stored>>

KillRegistered ==
    /\ Going /\ sig = "killing"
    /\ child' = [c \in Child |-> IF c \in groups /\ child[c] = "up" THEN "dead" ELSE child[c]]
    /\ failed' = failed \cup {c \in groups \cap Judged : child[c] = "up"}
    /\ sig' = "releasing"
    /\ UNCHANGED <<runVars, groups, sent, cancelled, nodes, lock, stored>>

ReleaseOnExit ==
    /\ Going /\ sig = "releasing"
    /\ lock' = FALSE
    /\ sig' = "exiting"
    /\ UNCHANGED <<runVars, childVars, sent, cancelled, nodes, stored>>

\* process::exit drops nothing: children that were not killed live on.
ExitNow ==
    /\ Going /\ sig = "exiting"
    /\ pc' = "exited"
    /\ UNCHANGED <<conf, branch, watch, cut, stopTask, bench, childVars,
                   signals, nodes, lock, stored>>

-----------------------------------------------------------------------------
(* The next run: recover_incomplete, then cleanup_abandoned.               *)

Recover ==
    /\ pc \in Ended
    /\ disk = "staging"
    /\ disk' = "saved" /\ recovery' = "renamed"
    /\ UNCHANGED <<runVars, childVars, signals, nodes, lock>>

RecoverNodes ==
    /\ recovery = "renamed"
    /\ CleanNodes
    /\ recovery' = "cleaned"
    /\ UNCHANGED <<runVars, childVars, signals, lock, disk>>

-----------------------------------------------------------------------------

Stages == DisksChecked \/ Begin \/ EarlyRepeatCheck \/ Prepared \/ Unprepared
          \/ BeforeEnded \/ Decide \/ DuringStarted \/ BenchmarkEnded
          \/ CleanupEnded \/ StopDuringStarts \/ StopTaskEnds \/ BoundaryEnded
          \/ Checkpoint \/ BranchStopped \/ BranchFinalized \/ BranchAfterEnded
          \/ Joined \/ AfterEnded \/ NodesLeft \/ Release \/ Save
          \/ RefuseRepeat \/ RefuseRelease \/ Discard

Children == \E c \in Child : Skip(c) \/ Spawn(c) \/ Register(c) \/ StopInterrupted(c)
                             \/ StopTimedOut(c) \/ StopDuring(c) \/ ChildDone(c)

Listener == Cancel \/ Rearm \/ KillRegistered \/ ReleaseOnExit \/ ExitNow

Next == \/ Stages \/ Children \/ Listener
        \/ \E c \in Child : SpawnFails(c) \/ ChildExits(c)
        \/ StoreFails \/ Signal \/ Recover \/ RecoverNodes

Spec == Init /\ [][Next]_vars

\* The runtime polls every task, a timer fires, and SIGKILL ends a process.
\* A child need not end by itself, a spawn or a write need not fail, nobody
\* needs to send a signal.
FairSpec == Spec /\ WF_vars(Stages \/ Children \/ Listener)

-----------------------------------------------------------------------------
(* Properties.                                                             *)

Exiting == {"killing", "releasing", "exiting"}

TypeOK ==
    /\ conf \in Config
    /\ pc \in Stage /\ branch \in Branch
    /\ watch \in BOOLEAN /\ cut \in BOOLEAN
    /\ child \in [Child -> {"none", "spawned", "up", "dead", "done"}]
    /\ groups \subseteq Child /\ failed \subseteq Judged
    /\ stopTask \in {"off", "stopping", "done"}
    /\ bench \in [mode : {"none", "not-started", "command"},
                  interrupted : BOOLEAN, stopped : {"none", "interrupted", "timeout"}]
    /\ sig \in {"first", "cancelling", "rearming", "second"} \cup Exiting
    /\ sent \in Nat /\ cancelled \in BOOLEAN
    /\ marks \subseteq Before /\ stuck \subseteq Before
    /\ lock \in BOOLEAN
    /\ disk \in {"none", "staging", "saved", "dropped"}
    /\ recovery \in {"none", "renamed", "cleaned"}

\* Nothing of a run is left on the nodes: a run that was saved or refused, or
\* that the next run recovered, leaves no profiler and no mark behind, unless
\* the command that was to remove it failed.  Whenever a signal comes.
NodesClean ==
    \/ /\ pc = "returned" /\ disk \in {"saved", "dropped"}
       /\ recovery = "none" /\ sig \notin Exiting
    \/ recovery = "cleaned"
    => marks \subseteq stuck

\* The operation lock covers all that a run does to the nodes: while a deploy
\* may hold it, no hook, collector or benchmark of the run is alive and no
\* stage that starts one is left.  (A process that exits on a second signal
\* releases the lock as it goes.)
LockCoversNodes ==
    ~lock /\ sig \notin Exiting =>
        /\ Alive = {}
        /\ pc \in {"save", "discard", "returned"}

\* The during collectors watch the whole benchmark and no after collector:
\* they are not stopped while it runs, and they are stopped, and their output
\* is saved, before the first after collector starts.
DuringBracket ==
    /\ child["benchmark"] \in {"spawned", "up"} => stopTask = "off"
    /\ (\E a \in After : child[a] \in {"spawned", "up"})
         => \A d \in During : child[d] \in {"none", "done"}

\* A benchmark runs on prepared nodes only: the prepare command did not fail,
\* every before collector has ended, the run can be recovered and holds the
\* operation lock.
MeasuredWhenReady ==
    child["benchmark"] \in {"spawned", "up"} /\ sig \notin Exiting =>
        /\ conf.prepare => "prepare" \notin failed
        /\ \A b \in Before : child[b] = IF conf.before THEN "done" ELSE "none"
        /\ disk = "staging" \/ pc \in Ended
        /\ lock

\* The signal that interrupted a run does not cut its clean-up: its after
\* collectors all run.  Only a later one could, and that one exits.
InterruptedCleansUp ==
    bench.interrupted /\ pc \in {"nodes", "release", "save"} => ~cut

\* A run always ends once a signal was received or when the benchmark has a
\* time limit, whatever its children do.
RunEnds == (cancelled \/ conf.limit) ~> ~Going

\* A second signal kills the process group of every child that is running.
RunningKilled ==
    [][sig = "killing" /\ sig' = "releasing"
         => \A c \in Child : child[c] = "up" => child'[c] = "dead"]_vars

=============================================================================
