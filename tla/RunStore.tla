------------------------------ MODULE RunStore ------------------------------
(***************************************************************************)
(* The saved runs of isuscope (src/src/storage.rs, runner.rs, lock.rs,     *)
(* result_commands.rs, enrichment.rs): several isuscope processes share    *)
(* one data directory, where every run is a directory with a run.json and  *)
(* one row of the SQLite index.  run.json is the truth, the row is a copy  *)
(* that Store::open repairs.  The processes are kept apart by three kinds  *)
(* of file lock: the run gate, the marker of a run in progress, and the    *)
(* lock of a saved run's directory; the kernel drops them when a process   *)
(* dies, and a process may die between any two of its writes.              *)
(*                                                                         *)
(* A file write is one step (run.json is written to a temporary file and   *)
(* renamed), and so is a SQLite transaction, at its commit.                *)
(*                                                                         *)
(* A definition named Action_Slip is a plausible slip in the code that     *)
(* Action models, kept to show that the properties notice it; the          *)
(* specification does not use it.                                          *)
(***************************************************************************)
EXTENDS Naturals

CONSTANTS
    Proc,         \* the isuscope processes
    NoProc,       \* the holder of a free lock
    MaxRuns,      \* bound: run IDs handed out; IDs are time ordered (UUIDv7)
    Commands,     \* the commands the processes issue, a subset of Command
    Outcomes,     \* how a benchmark can end, a subset of Outcome
    MaxCommands,  \* bound: commands issued in a behaviour
    MaxCrashes    \* bound: processes killed in a behaviour

Run == 1 .. MaxRuns

Command == {"run", "analyze", "rescore", "enrich", "read"}

Verdict == {"null", "yes", "no"}                  \* benchmark.passed
State   == {"running", "complete", "degraded", "failed", "aborted", "pending"}
AnalysisStatus == {"pending", "complete", "skipped", "not_required"}

\* What runner::execute learns from the benchmark, the collectors and the
\* benchmark parsers.  ran is FALSE when a failed preparation, a signal or a
\* failed before collector kept the benchmark from starting.
\* The verdict is left pending only where there is none.
Outcome == {o \in [ran : BOOLEAN, passed : Verdict, pending : BOOLEAN,
                   interrupted : BOOLEAN, collectorFailed : BOOLEAN,
                   parserFailed : BOOLEAN] : o.pending => o.passed = "null"}

\* run.json, reduced to what the commands decide on.  snap is the generation
\* of the structured snapshot it names (0: the default name), ver numbers its
\* writes and stands for the file's size and time (manifest_stamp).
Manifest == [state : State, passed : Verdict, pending : BOOLEAN,
             interrupted : BOOLEAN, collectorFailed : BOOLEAN,
             parserFailed : BOOLEAN, analysis : AnalysisStatus,
             analyses : SUBSET Nat, snap : Nat, ver : Nat]

\* A row of `runs` and its child rows: copies counts how often the metrics of
\* the run were inserted, snap is the generation they come from, and stamp is
\* the write of run.json the row was settled on (0: manifest_stamp is NULL).
Row == [state : State \cup {"none"}, passed : Verdict,
        analysis : AnalysisStatus, analyses : SUBSET Nat,
        snap : Nat, copies : Nat, stamp : Nat]

ASSUME NoProcAssumption == NoProc \notin Proc
ASSUME BoundsAssumption == /\ MaxRuns \in Nat
                           /\ MaxCommands \in Nat
                           /\ MaxCrashes \in Nat
ASSUME CommandsAssumption == Commands \subseteq Command
ASSUME OutcomesAssumption == Outcomes \subseteq Outcome

VARIABLES
    (* one entry per process *)
    pc,        \* the next step of the command it executes
    cmd,       \* that command
    tgt,       \* the run it works on, 0 for none
    mine,      \* the manifest it holds in memory
    todo,      \* runs its directory listing still has to visit
    found,     \* recover_incomplete met a run in progress
    (* locks *)
    gate,      \* holder of RunGate
    marker,    \* holder of RunMarker, per run
    runlock,   \* holder of AnalysisLock, per run directory
    (* the data directory *)
    place,     \* where a run's directory with a run.json is
    json,      \* run.json
    snaps,     \* generations of the structured snapshot in the directory
    row,       \* the index
    (* bounds *)
    nextId, commands, crashes

local  == <<pc, cmd, tgt, mine, todo, found>>
locks  == <<gate, marker, runlock>>
disk   == <<place, json, snaps>>
bounds == <<nextId, commands, crashes>>
vars   == <<local, locks, disk, row, bounds>>

Place == {"none", "staging", "final"}

PC == {"idle", "dying", "open", "openLock", "restore", "patch", "rebuild", "dispatch",
       "gate", "recover", "recoverMove", "recoverInsert", "recoverUpdate",
       "checkAnalyses", "checkResults", "new", "prepare", "beginRow",
       "benchmark", "discard", "checkpoint", "finish", "finishMove",
       "finishCommit", "runDone", "lockRun", "analyze", "analyzeCommit",
       "rescore", "rescoreCommit", "enrich", "enrichWrite", "enrichCommit",
       "enrichPrune"}

Blank == [state |-> "running", passed |-> "null", pending |-> FALSE,
          interrupted |-> FALSE, collectorFailed |-> FALSE,
          parserFailed |-> FALSE, analysis |-> "pending", analyses |-> {},
          snap |-> 0, ver |-> 0]

NoRow == [state |-> "none", passed |-> "null", analysis |-> "not_required",
          analyses |-> {}, snap |-> 0, copies |-> 0, stamp |-> 0]

Init ==
    /\ pc = [p \in Proc |-> "idle"]
    /\ cmd = [p \in Proc |-> "read"]
    /\ tgt = [p \in Proc |-> 0]
    /\ mine = [p \in Proc |-> Blank]
    /\ todo = [p \in Proc |-> {}]
    /\ found = [p \in Proc |-> FALSE]
    /\ gate = NoProc
    /\ marker = [r \in Run |-> NoProc]
    /\ runlock = [r \in Run |-> NoProc]
    /\ place = [r \in Run |-> "none"]
    /\ json = [r \in Run |-> Blank]
    /\ snaps = [r \in Run |-> {}]
    /\ row = [r \in Run |-> NoRow]
    /\ nextId = 1 /\ commands = 0 /\ crashes = 0

-----------------------------------------------------------------------------
(* Locks.  flock is released by a drop or by the kernel.                   *)

Free_WouldBlockIgnored(lock) == TRUE
Free(lock) == lock = NoProc

Dropped(lock, p) == IF lock = p THEN NoProc ELSE lock
AllDropped_Leaked(ls, p) == ls
AllDropped(ls, p) == [r \in Run |-> Dropped(ls[r], p)]

GoTo(p, next) == pc' = [pc EXCEPT ![p] = next]

\* The command returns, with or without an error: every guard it holds drops.
Exit(p) ==
    /\ GoTo(p, "idle")
    /\ cmd' = [cmd EXCEPT ![p] = "read"]
    /\ tgt' = [tgt EXCEPT ![p] = 0]
    /\ mine' = [mine EXCEPT ![p] = Blank]
    /\ todo' = [todo EXCEPT ![p] = {}]
    /\ found' = [found EXCEPT ![p] = FALSE]
    /\ gate' = Dropped(gate, p)
    /\ marker' = AllDropped(marker, p)
    /\ runlock' = AllDropped(runlock, p)

-----------------------------------------------------------------------------
(* Manifests and rows.                                                     *)

\* RunManifest::settle_state
SettledState(m) ==
    CASE m.interrupted -> "aborted"
      [] ~m.interrupted /\ m.passed = "null" /\ m.pending -> "pending"
      [] ~m.interrupted /\ m.passed = "yes" ->
            IF m.collectorFailed \/ m.parserFailed THEN "degraded" ELSE "complete"
      [] OTHER -> "failed"

Settle(m) == [m EXCEPT !.state = SettledState(m)]

\* The analysis a verdict calls for (the end of runner::execute, and rescore).
AnalysisFor(passed) == IF passed = "yes" THEN "pending" ELSE "not_required"

\* recover_incomplete: benchmark.pending is left as it was.
AsAborted(m) == [m EXCEPT !.state = "aborted", !.passed = "no",
                          !.interrupted = TRUE, !.analysis = "not_required"]

\* write_manifest: every write leaves a run.json with a stamp of its own.
Written(m) == [m EXCEPT !.ver = m.ver + 1]

\* The row restore_finalized_run inserts for a manifest.
RowOf(m) == [state |-> m.state, passed |-> m.passed, analysis |-> m.analysis,
             analyses |-> m.analyses, snap |-> m.snap, copies |-> 1,
             stamp |-> m.ver]

Indexed(r)    == row[r].state # "none"
Settled(r)    == row[r].stamp = json[r].ver
Finalized     == {r \in Run : place[r] = "final"}
Staged        == {r \in Run : place[r] = "staging"}

-----------------------------------------------------------------------------
(* Store::open: every command starts by reconciling the index with the     *)
(* runs that are in the runs directory when it lists it.                   *)

Start(p, c) ==
    /\ pc[p] = "idle"
    /\ commands < MaxCommands
    /\ commands' = commands + 1
    /\ GoTo(p, "open")
    /\ cmd' = [cmd EXCEPT ![p] = c]
    /\ todo' = [todo EXCEPT ![p] = Finalized]
    /\ UNCHANGED <<tgt, mine, found, locks, disk, row, nextId, crashes>>

Next1(p, r) == r \in todo[p] /\ \A q \in todo[p] : r <= q

OpenSkip(p) ==
    /\ pc[p] = "open"
    /\ \E r \in todo[p] :
          /\ Next1(p, r)
          /\ Settled(r)
          /\ todo' = [todo EXCEPT ![p] = @ \ {r}]
    /\ UNCHANGED <<pc, cmd, tgt, mine, found, locks, disk, row, bounds>>

\* The row looks behind its run.json: the lock is waited for.
OpenStale(p) ==
    /\ pc[p] = "open"
    /\ \E r \in todo[p] :
          /\ Next1(p, r)
          /\ ~Settled(r)
          /\ tgt' = [tgt EXCEPT ![p] = r]
    /\ GoTo(p, "openLock")
    /\ UNCHANGED <<cmd, mine, todo, found, locks, disk, row, bounds>>

OpenLock_NoWait(p) ==
    /\ pc[p] = "openLock"
    /\ runlock' = [runlock EXCEPT ![tgt[p]] = p]
    /\ GoTo(p, "restore")
    /\ UNCHANGED <<cmd, tgt, mine, todo, found, gate, marker, disk, row, bounds>>

OpenLock(p) ==
    /\ pc[p] = "openLock"
    /\ Free(runlock[tgt[p]])
    /\ runlock' = [runlock EXCEPT ![tgt[p]] = p]
    /\ GoTo(p, "restore")
    /\ UNCHANGED <<cmd, tgt, mine, todo, found, gate, marker, disk, row, bounds>>

\* One run is done: its lock drops and the scan goes on.
ScanNext(p) ==
    /\ GoTo(p, "open")
    /\ todo' = [todo EXCEPT ![p] = @ \ {tgt[p]}]
    /\ runlock' = [runlock EXCEPT ![tgt[p]] = NoProc]
    /\ tgt' = [tgt EXCEPT ![p] = 0]
    /\ mine' = [mine EXCEPT ![p] = Blank]

\* A row with no stamp of a run that is not half finished: only its analyses
\* are brought in line.
OnlyAnalyses_AnyStamp(r) ==
    /\ Indexed(r)
    /\ ~(row[r].state = "running" /\ json[r].state # "running")

OnlyAnalyses(r) ==
    /\ Indexed(r)
    /\ ~(row[r].state = "running" /\ json[r].state # "running")
    /\ row[r].stamp = 0

\* Under the lock: another process may have settled the row meanwhile.
RestoreSkip(p) ==
    /\ pc[p] = "restore"
    /\ Settled(tgt[p])
    /\ ScanNext(p)
    /\ UNCHANGED <<cmd, found, gate, marker, disk, row, bounds>>

RestoreRead(p) ==
    /\ pc[p] = "restore"
    /\ ~Settled(tgt[p])
    /\ mine' = [mine EXCEPT ![p] = json[tgt[p]]]
    /\ GoTo(p, IF OnlyAnalyses(tgt[p]) THEN "patch" ELSE "rebuild")
    /\ UNCHANGED <<cmd, tgt, todo, found, locks, disk, row, bounds>>

RestorePatch(p) ==
    /\ pc[p] = "patch"
    /\ row' = [row EXCEPT ![tgt[p]] =
                 [row[tgt[p]] EXCEPT
                    !.analyses = row[tgt[p]].analyses \cup mine[p].analyses,
                    !.analysis = mine[p].analysis,
                    !.stamp = mine[p].ver]]
    /\ ScanNext(p)
    /\ UNCHANGED <<cmd, found, gate, marker, disk, bounds>>

RestoreRebuild_NoStamp(p) ==
    /\ pc[p] = "rebuild"
    /\ row' = [row EXCEPT ![tgt[p]] = [RowOf(mine[p]) EXCEPT !.stamp = 0]]
    /\ ScanNext(p)
    /\ UNCHANGED <<cmd, found, gate, marker, disk, bounds>>

\* Without the snapshot its run.json names, the rows come from the logs.
RestoreRebuild(p) ==
    /\ pc[p] = "rebuild"
    /\ row' = [row EXCEPT ![tgt[p]] =
                 [RowOf(mine[p]) EXCEPT
                    !.snap = IF mine[p].snap \in snaps[tgt[p]] THEN mine[p].snap ELSE 0,
                    !.stamp = json[tgt[p]].ver]]
    /\ ScanNext(p)
    /\ UNCHANGED <<cmd, found, gate, marker, disk, bounds>>

OpenDone(p) ==
    /\ pc[p] = "open"
    /\ todo[p] = {}
    /\ GoTo(p, "dispatch")
    /\ UNCHANGED <<cmd, tgt, mine, todo, found, locks, disk, row, bounds>>

Dispatch(p) ==
    /\ pc[p] = "dispatch"
    /\ \/ /\ cmd[p] = "read"
          /\ Exit(p)
       \/ /\ cmd[p] # "read"
          /\ GoTo(p, IF cmd[p] = "run" THEN "gate" ELSE "lockRun")
          /\ UNCHANGED <<cmd, tgt, mine, todo, found, locks>>
    /\ UNCHANGED <<disk, row, bounds>>

-----------------------------------------------------------------------------
(* runner::execute, the entry: the gate, the recovery of runs whose        *)
(* process died, and the checks that no saved run waits for its verdict or *)
(* its analysis.                                                           *)

GateTake_NotExclusive(p) ==
    /\ pc[p] = "gate"
    /\ gate' = p
    /\ todo' = [todo EXCEPT ![p] = Staged]
    /\ GoTo(p, "recover")
    /\ UNCHANGED <<cmd, tgt, mine, found, marker, runlock, disk, row, bounds>>

GateTake(p) ==
    /\ pc[p] = "gate"
    /\ Free(gate)
    /\ gate' = p
    /\ todo' = [todo EXCEPT ![p] = Staged]
    /\ GoTo(p, "recover")
    /\ UNCHANGED <<cmd, tgt, mine, found, marker, runlock, disk, row, bounds>>

GateBusy(p) ==
    /\ pc[p] = "gate"
    /\ ~Free(gate)
    /\ Exit(p)
    /\ UNCHANGED <<disk, row, bounds>>

\* A marker that is held belongs to a run in progress; a run.json that is gone
\* was saved meanwhile (the gate keeps that from happening, the code checks).
RecoverPass(p) ==
    /\ pc[p] = "recover"
    /\ \E r \in todo[p] :
          /\ ~(Free(marker[r]) /\ place[r] = "staging")
          /\ todo' = [todo EXCEPT ![p] = @ \ {r}]
          /\ found' = [found EXCEPT ![p] = @ \/ ~Free(marker[r])]
    /\ UNCHANGED <<pc, cmd, tgt, mine, locks, disk, row, bounds>>

RecoverWrite(p) ==
    /\ pc[p] = "recover"
    /\ \E r \in todo[p] :
          /\ Free(marker[r])
          /\ place[r] = "staging"
          /\ marker' = [marker EXCEPT ![r] = p]
          /\ json' = [json EXCEPT ![r] = Written(AsAborted(json[r]))]
          /\ mine' = [mine EXCEPT ![p] = Written(AsAborted(json[r]))]
          /\ tgt' = [tgt EXCEPT ![p] = r]
    /\ GoTo(p, "recoverMove")
    /\ UNCHANGED <<cmd, todo, found, gate, runlock, place, snaps, row, bounds>>

RecoverMove(p) ==
    /\ pc[p] = "recoverMove"
    /\ place' = [place EXCEPT ![tgt[p]] = "final"]
    /\ GoTo(p, "recoverInsert")
    /\ UNCHANGED <<cmd, tgt, mine, todo, found, locks, json, snaps, row, bounds>>

\* INSERT OR IGNORE: the row begin made is kept.
RecoverInsert(p) ==
    /\ pc[p] = "recoverInsert"
    /\ row' = IF Indexed(tgt[p]) THEN row
              ELSE [row EXCEPT ![tgt[p]] =
                      [NoRow EXCEPT !.state = mine[p].state,
                                    !.analysis = mine[p].analysis]]
    /\ GoTo(p, "recoverUpdate")
    /\ UNCHANGED <<cmd, tgt, mine, todo, found, locks, disk, bounds>>

\* A statement of its own, outside the lock of the run's directory.
RecoverUpdate(p) ==
    /\ pc[p] = "recoverUpdate"
    /\ row' = [row EXCEPT ![tgt[p]] =
                 [row[tgt[p]] EXCEPT !.state = mine[p].state, !.passed = "no",
                                     !.analysis = mine[p].analysis]]
    /\ marker' = [marker EXCEPT ![tgt[p]] = NoProc]
    /\ todo' = [todo EXCEPT ![p] = @ \ {tgt[p]}]
    /\ tgt' = [tgt EXCEPT ![p] = 0]
    /\ mine' = [mine EXCEPT ![p] = Blank]
    /\ GoTo(p, "recover")
    /\ UNCHANGED <<cmd, found, gate, runlock, disk, bounds>>

RecoverDone_ActiveIgnored(p) ==
    /\ pc[p] = "recover"
    /\ todo[p] = {}
    /\ GoTo(p, "checkAnalyses")
    /\ UNCHANGED <<cmd, tgt, mine, todo, found, locks, disk, row, bounds>>

RecoverDone(p) ==
    /\ pc[p] = "recover"
    /\ todo[p] = {}
    /\ \/ /\ found[p]
          /\ Exit(p)
       \/ /\ ~found[p]
          /\ GoTo(p, "checkAnalyses")
          /\ UNCHANGED <<cmd, tgt, mine, todo, found, locks>>
    /\ UNCHANGED <<disk, row, bounds>>

AwaitsAnalysis_CompleteOnly(r) ==
    row[r].state = "complete" /\ row[r].analysis = "pending"

\* Store::pending_analyses, then Store::pending_results: two queries.
AwaitsAnalysis(r) == row[r].passed = "yes" /\ row[r].analysis = "pending"
AwaitsResult(r)   == row[r].state = "pending"

CheckAnalyses(p) ==
    /\ pc[p] = "checkAnalyses"
    /\ \/ /\ \E r \in Run : AwaitsAnalysis(r)
          /\ Exit(p)
       \/ /\ ~\E r \in Run : AwaitsAnalysis(r)
          /\ GoTo(p, "checkResults")
          /\ UNCHANGED <<cmd, tgt, mine, todo, found, locks>>
    /\ UNCHANGED <<disk, row, bounds>>

CheckResults(p) ==
    /\ pc[p] = "checkResults"
    /\ \/ /\ (\E r \in Run : AwaitsResult(r)) \/ nextId > MaxRuns
          /\ Exit(p)
       \/ /\ ~\E r \in Run : AwaitsResult(r)
          /\ nextId <= MaxRuns
          /\ GoTo(p, "new")
          /\ UNCHANGED <<cmd, tgt, mine, todo, found, locks>>
    /\ UNCHANGED <<disk, row, bounds>>

-----------------------------------------------------------------------------
(* The run itself.                                                         *)

\* The marker is held before run.json is written.
NewRun(p) ==
    /\ pc[p] = "new"
    /\ nextId <= MaxRuns
    /\ marker' = [marker EXCEPT ![nextId] = p]
    /\ tgt' = [tgt EXCEPT ![p] = nextId]
    /\ nextId' = nextId + 1
    /\ GoTo(p, "prepare")
    /\ UNCHANGED <<cmd, mine, todo, found, gate, runlock, disk, row, commands, crashes>>

\* The node disk check fails: the directory is removed, nothing was recorded.
PrepareFail(p) ==
    /\ pc[p] = "prepare"
    /\ Exit(p)
    /\ UNCHANGED <<disk, row, bounds>>

BeginFile(p) ==
    /\ pc[p] = "prepare"
    /\ json' = [json EXCEPT ![tgt[p]] = Written(Blank)]
    /\ mine' = [mine EXCEPT ![p] = Written(Blank)]
    /\ place' = [place EXCEPT ![tgt[p]] = "staging"]
    /\ GoTo(p, "beginRow")
    /\ UNCHANGED <<cmd, tgt, todo, found, locks, snaps, row, bounds>>

BeginRow(p) ==
    /\ pc[p] = "beginRow"
    /\ row' = [row EXCEPT ![tgt[p]] =
                 [NoRow EXCEPT !.state = mine[p].state,
                               !.analysis = mine[p].analysis]]
    /\ GoTo(p, "benchmark")
    /\ UNCHANGED <<cmd, tgt, mine, todo, found, locks, disk, bounds>>

\* Store::last_started_run reads saved runs through the index.
Comparable(r) == row[r].state \notin {"none", "running", "aborted"}

\* Refused as a repeat: Store::discard deletes the row, then the directory.
DiscardRow(p) ==
    /\ pc[p] = "benchmark"
    /\ \E r \in Run \ {tgt[p]} : Comparable(r)
    /\ row' = [row EXCEPT ![tgt[p]] = NoRow]
    /\ GoTo(p, "discard")
    /\ UNCHANGED <<cmd, tgt, mine, todo, found, locks, disk, bounds>>

DiscardFiles(p) ==
    /\ pc[p] = "discard"
    /\ place' = [place EXCEPT ![tgt[p]] = "none"]
    /\ json' = [json EXCEPT ![tgt[p]] = Blank]
    /\ Exit(p)
    /\ UNCHANGED <<snaps, row, bounds>>

Benchmark(p) ==
    /\ pc[p] = "benchmark"
    /\ \E o \in Outcomes :
          /\ mine' = [mine EXCEPT ![p] =
                        [mine[p] EXCEPT !.passed = o.passed, !.pending = o.pending,
                                        !.interrupted = o.interrupted,
                                        !.collectorFailed = o.collectorFailed,
                                        !.parserFailed = o.parserFailed]]
          /\ GoTo(p, IF o.ran THEN "checkpoint" ELSE "finish")
    /\ UNCHANGED <<cmd, tgt, todo, found, locks, disk, row, bounds>>

\* Store::checkpoint after the benchmark, before the parsers and the after
\* collectors; the state is still running.
Checkpoint(p) ==
    /\ pc[p] = "checkpoint"
    /\ mine' = [mine EXCEPT ![p] = Written(mine[p])]
    /\ json' = [json EXCEPT ![tgt[p]] = Written(mine[p])]
    /\ GoTo(p, "finish")
    /\ UNCHANGED <<cmd, tgt, todo, found, locks, place, snaps, row, bounds>>

\* settle_state, the analysis status, and the first write of Store::finish.
Finish(p) ==
    LET m == Written([Settle(mine[p]) EXCEPT !.analysis = AnalysisFor(mine[p].passed)])
    IN /\ pc[p] = "finish"
       /\ mine' = [mine EXCEPT ![p] = m]
       /\ json' = [json EXCEPT ![tgt[p]] = m]
       /\ GoTo(p, "finishMove")
       /\ UNCHANGED <<cmd, tgt, todo, found, locks, place, snaps, row, bounds>>

FinishMove_Unlocked(p) ==
    /\ pc[p] = "finishMove"
    /\ snaps' = [snaps EXCEPT ![tgt[p]] = {0}]
    /\ place' = [place EXCEPT ![tgt[p]] = "final"]
    /\ GoTo(p, "finishCommit")
    /\ UNCHANGED <<cmd, tgt, mine, todo, found, locks, json, row, bounds>>

\* The lock of the staging directory is taken before the rename and stays
\* with the directory; opening the directory needs it to be there.
FinishMove(p) ==
    /\ pc[p] = "finishMove"
    /\ Free(runlock[tgt[p]])
    /\ runlock' = [runlock EXCEPT ![tgt[p]] = p]
    /\ snaps' = [snaps EXCEPT ![tgt[p]] = {0}]
    /\ place' = [place EXCEPT ![tgt[p]] = "final"]
    /\ GoTo(p, "finishCommit")
    /\ UNCHANGED <<cmd, tgt, mine, todo, found, gate, marker, json, row, bounds>>

\* One transaction: the row is updated and the child rows are inserted.
FinishCommit(p) ==
    /\ pc[p] = "finishCommit"
    /\ row' = [row EXCEPT ![tgt[p]] =
                 [RowOf(mine[p]) EXCEPT !.copies = row[tgt[p]].copies + 1,
                                        !.stamp = json[tgt[p]].ver]]
    /\ GoTo(p, "runDone")
    /\ UNCHANGED <<cmd, tgt, mine, todo, found, locks, disk, bounds>>

RunDone(p) ==
    /\ pc[p] = "runDone"
    /\ Exit(p)
    /\ UNCHANGED <<disk, row, bounds>>

-----------------------------------------------------------------------------
(* Commands on a saved run.  Each takes the lock of the run's directory    *)
(* and reads run.json under it.                                            *)

Lockable(r) == Indexed(r) /\ place[r] = "final"

NoTarget(p) ==
    /\ pc[p] = "lockRun"
    /\ ~\E r \in Run : Lockable(r)
    /\ Exit(p)
    /\ UNCHANGED <<disk, row, bounds>>

LockRun_ReadFirst(p) ==
    /\ pc[p] = "lockRun"
    /\ \E r \in Run :
          /\ Lockable(r)
          /\ runlock' = [runlock EXCEPT ![r] = p]
          /\ tgt' = [tgt EXCEPT ![p] = r]
          /\ mine' = [mine EXCEPT ![p] = json[r]]
    /\ GoTo(p, cmd[p])
    /\ UNCHANGED <<cmd, todo, found, gate, marker, disk, row, bounds>>

LockRun(p) ==
    /\ pc[p] = "lockRun"
    /\ \E r \in Run :
          /\ Lockable(r)
          /\ Free(runlock[r])
          /\ runlock' = [runlock EXCEPT ![r] = p]
          /\ tgt' = [tgt EXCEPT ![p] = r]
          /\ mine' = [mine EXCEPT ![p] = json[r]]
    /\ GoTo(p, cmd[p])
    /\ UNCHANGED <<cmd, todo, found, gate, marker, disk, row, bounds>>

\* An analysis is named by the write of run.json it was made on; this is the
\* one the latest write of a manifest added.
NewNotes(m) == {n \in m.analyses : n + 1 = m.ver}

\* append_analysis_with_base refuses: the run did not pass, a skip is not
\* called for, or the same analysis is already the latest one.
AnalyzeRefuse(p) ==
    /\ pc[p] = "analyze"
    /\ \/ mine[p].passed # "yes"
       \/ mine[p].analysis # "pending"
       \/ mine[p].analyses # {}
    /\ Exit(p)
    /\ UNCHANGED <<disk, row, bounds>>

AnalyzeWrite(p) ==
    /\ pc[p] = "analyze"
    /\ mine[p].passed = "yes"
    /\ \E v \in {"complete", "skipped"} :
          /\ v = "skipped" => mine[p].analysis = "pending"
          /\ LET m == Written([mine[p] EXCEPT !.analysis = v,
                         !.analyses = mine[p].analyses \cup {mine[p].ver}])
             IN /\ mine' = [mine EXCEPT ![p] = m]
                /\ json' = [json EXCEPT ![tgt[p]] = m]
    /\ GoTo(p, "analyzeCommit")
    /\ UNCHANGED <<cmd, tgt, todo, found, locks, place, snaps, row, bounds>>

AnalyzeCommit(p) ==
    /\ pc[p] = "analyzeCommit"
    /\ row' = [row EXCEPT ![tgt[p]] =
                 [row[tgt[p]] EXCEPT
                    !.analyses = row[tgt[p]].analyses \cup NewNotes(mine[p]),
                    !.analysis = mine[p].analysis,
                    !.stamp = json[tgt[p]].ver]]
    /\ Exit(p)
    /\ UNCHANGED <<disk, bounds>>

\* rescore refuses a run that is not pending; its command may also fail or
\* still not judge the output.
RescoreRefuse(p) ==
    /\ pc[p] = "rescore"
    /\ Exit(p)
    /\ UNCHANGED <<disk, row, bounds>>

RescoreWrite_AnyRun(p) ==
    /\ pc[p] = "rescore"
    /\ \E v \in {"yes", "no"} :
          LET m == Written([Settle([mine[p] EXCEPT !.passed = v, !.pending = FALSE])
                              EXCEPT !.analysis = AnalysisFor(v)])
          IN /\ mine' = [mine EXCEPT ![p] = m]
             /\ json' = [json EXCEPT ![tgt[p]] = m]
    /\ GoTo(p, "rescoreCommit")
    /\ UNCHANGED <<cmd, tgt, todo, found, locks, place, snaps, row, bounds>>

RescoreWrite(p) ==
    /\ pc[p] = "rescore"
    /\ mine[p].pending
    /\ \E v \in {"yes", "no"} :
          LET m == Written([Settle([mine[p] EXCEPT !.passed = v, !.pending = FALSE])
                              EXCEPT !.analysis = AnalysisFor(v)])
          IN /\ mine' = [mine EXCEPT ![p] = m]
             /\ json' = [json EXCEPT ![tgt[p]] = m]
    /\ GoTo(p, "rescoreCommit")
    /\ UNCHANGED <<cmd, tgt, todo, found, locks, place, snaps, row, bounds>>

\* set_result: the UPDATEs of its transaction touch nothing without a row.
RescoreCommit(p) ==
    /\ pc[p] = "rescoreCommit"
    /\ row' = [row EXCEPT ![tgt[p]] =
                 [row[tgt[p]] EXCEPT !.passed = mine[p].passed,
                                     !.state = mine[p].state,
                                     !.analysis = mine[p].analysis,
                                     !.stamp = json[tgt[p]].ver]]
    /\ Exit(p)
    /\ UNCHANGED <<disk, bounds>>

EnrichSnapshot_PruneFirst(p) ==
    /\ pc[p] = "enrich"
    /\ mine' = [mine EXCEPT ![p] = Written(Settle([mine[p] EXCEPT !.snap = mine[p].ver + 1]))]
    /\ snaps' = [snaps EXCEPT ![tgt[p]] = {mine[p].ver + 1}]
    /\ GoTo(p, "enrichWrite")
    /\ UNCHANGED <<cmd, tgt, todo, found, locks, place, json, row, bounds>>

\* enrich_saved: the parsers run again; a new snapshot file comes first.
EnrichSnapshot(p) ==
    /\ pc[p] = "enrich"
    /\ \E failed \in BOOLEAN :
          mine' = [mine EXCEPT ![p] =
                     Written(Settle([mine[p] EXCEPT !.parserFailed = failed,
                                                    !.snap = mine[p].ver + 1]))]
    /\ snaps' = [snaps EXCEPT ![tgt[p]] = @ \cup {mine[p].ver + 1}]
    /\ GoTo(p, "enrichWrite")
    /\ UNCHANGED <<cmd, tgt, todo, found, locks, place, json, row, bounds>>

EnrichWrite(p) ==
    /\ pc[p] = "enrichWrite"
    /\ json' = [json EXCEPT ![tgt[p]] = mine[p]]
    /\ GoTo(p, "enrichCommit")
    /\ UNCHANGED <<cmd, tgt, mine, todo, found, locks, place, snaps, row, bounds>>

EnrichCommit(p) ==
    /\ pc[p] = "enrichCommit"
    /\ row' = [row EXCEPT ![tgt[p]] =
                 [row[tgt[p]] EXCEPT !.state = mine[p].state,
                                     !.snap = mine[p].snap,
                                     !.stamp = json[tgt[p]].ver]]
    /\ GoTo(p, "enrichPrune")
    /\ UNCHANGED <<cmd, tgt, mine, todo, found, locks, disk, bounds>>

\* Every other generation is deleted.
EnrichPrune(p) ==
    /\ pc[p] = "enrichPrune"
    /\ snaps' = [snaps EXCEPT ![tgt[p]] = @ \cap {mine[p].snap}]
    /\ Exit(p)
    /\ UNCHANGED <<place, json, row, bounds>>

-----------------------------------------------------------------------------
(* A process is killed, or exits on a second signal: nothing is dropped in *)
(* order, and the kernel closes its files one by one, the gate before the  *)
(* marker that was opened after it.                                        *)

Crash(p) ==
    /\ pc[p] \notin {"idle", "dying"}
    /\ crashes < MaxCrashes
    /\ crashes' = crashes + 1
    /\ pc' = [pc EXCEPT ![p] = "dying"]
    /\ tgt' = [tgt EXCEPT ![p] = 0]
    /\ mine' = [mine EXCEPT ![p] = Blank]
    /\ todo' = [todo EXCEPT ![p] = {}]
    /\ found' = [found EXCEPT ![p] = FALSE]
    /\ gate' = Dropped(gate, p)
    /\ runlock' = AllDropped(runlock, p)
    /\ UNCHANGED <<cmd, marker, disk, row, nextId, commands>>

Reap(p) ==
    /\ pc[p] = "dying"
    /\ Exit(p)
    /\ UNCHANGED <<disk, row, bounds>>

-----------------------------------------------------------------------------

OpenStep(p)    == OpenSkip(p) \/ OpenStale(p) \/ OpenLock(p) \/ RestoreSkip(p) \/ RestoreRead(p)
                  \/ RestorePatch(p) \/ RestoreRebuild(p) \/ OpenDone(p) \/ Dispatch(p)

EntryStep(p)   == GateTake(p) \/ GateBusy(p) \/ RecoverPass(p) \/ RecoverWrite(p)
                  \/ RecoverMove(p) \/ RecoverInsert(p)
                  \/ RecoverUpdate(p) \/ RecoverDone(p) \/ CheckAnalyses(p)
                  \/ CheckResults(p)

RunStep(p)     == NewRun(p) \/ PrepareFail(p) \/ BeginFile(p) \/ BeginRow(p)
                  \/ DiscardRow(p) \/ DiscardFiles(p) \/ Benchmark(p) \/ Checkpoint(p)
                  \/ Finish(p) \/ FinishMove(p) \/ FinishCommit(p) \/ RunDone(p)

SavedStep(p)   == NoTarget(p) \/ LockRun(p) \/ AnalyzeRefuse(p) \/ AnalyzeWrite(p)
                  \/ AnalyzeCommit(p) \/ RescoreRefuse(p) \/ RescoreWrite(p)
                  \/ RescoreCommit(p) \/ EnrichSnapshot(p) \/ EnrichWrite(p)
                  \/ EnrichCommit(p) \/ EnrichPrune(p)

Step(p) == OpenStep(p) \/ EntryStep(p) \/ RunStep(p) \/ SavedStep(p) \/ Reap(p)

Next == \E p \in Proc : \/ \E c \in Commands : Start(p, c)
                        \/ Step(p)
                        \/ Crash(p)

Spec == Init /\ [][Next]_vars

\* A process that can go on does: tokio and the kernel schedule it, and a
\* wait for a file lock is served.
FairSpec == Spec /\ \A p \in Proc : WF_vars(Step(p))

-----------------------------------------------------------------------------
(* Properties.                                                             *)

TypeOK ==
    /\ pc \in [Proc -> PC]
    /\ cmd \in [Proc -> Command]
    /\ tgt \in [Proc -> Run \cup {0}]
    /\ mine \in [Proc -> Manifest]
    /\ todo \in [Proc -> SUBSET Run]
    /\ found \in [Proc -> BOOLEAN]
    /\ gate \in Proc \cup {NoProc}
    /\ marker \in [Run -> Proc \cup {NoProc}]
    /\ runlock \in [Run -> Proc \cup {NoProc}]
    /\ place \in [Run -> Place]
    /\ json \in [Run -> Manifest]
    /\ snaps \in [Run -> SUBSET Nat]
    /\ row \in [Run -> Row]
    /\ nextId \in Nat \ {0} /\ commands \in Nat /\ crashes \in Nat

\* Past the checks of runner::execute and before its run is saved or dropped.
InRun == {"new", "prepare", "beginRow", "benchmark", "discard", "checkpoint",
          "finish", "finishMove", "finishCommit", "runDone"}

\* Two benchmarks never overlap in one data directory, whatever dies and
\* restarts: at most one process is between the checks of runner::execute and
\* the end of its run (the gate closes the window in which neither process
\* has written the run.json that the other's checks would find).
OneBenchmark == \A p, q \in Proc : pc[p] \in InRun /\ pc[q] \in InRun => p = q

\* Recovery never takes over a live run: from begin until its run is saved,
\* only the process that began a run touches its directory and its run.json.
Owned == {"beginRow", "benchmark", "discard", "checkpoint", "finish", "finishMove"}
LiveRunUntouched ==
    [][\A p \in Proc : pc[p] \in Owned /\ pc'[p] = pc[p]
          => /\ place'[tgt[p]] = place[tgt[p]]
             /\ json'[tgt[p]] = json[tgt[p]]]_vars

\* What a benchmark in progress may assume of run.json on disk: no saved run
\* still waits for its verdict (rescore) or for its analysis.
Awaits(m) == m.state = "pending" \/ (m.passed = "yes" /\ m.analysis = "pending")
Measuring == {"prepare", "beginRow", "benchmark", "checkpoint"}
NothingAwaited ==
    \A p \in Proc : pc[p] \in Measuring =>
        \A r \in Run \ {tgt[p]} : place[r] = "final" => ~Awaits(json[r])

\* The index tells the truth about every run it claims to be settled on: a
\* row whose stamp is that of run.json repeats its state, verdict and
\* analyses, with the metrics inserted once.  (Rows of runs that were aborted
\* may come from recover_incomplete, which stores no metrics.)
RowAgrees(r) ==
    /\ row[r].state = json[r].state
    /\ row[r].passed = json[r].passed
    /\ row[r].analysis = json[r].analysis
    /\ row[r].analyses = json[r].analyses
IndexTruthful ==
    \A r \in Run : place[r] = "final" /\ Settled(r) =>
        /\ json[r].state # "aborted" => RowAgrees(r) /\ row[r].copies = 1
        /\ row[r].copies <= 1

\* Store::open repairs: with one process at a time, when a command is about
\* to do its work every saved run has a row settled on its run.json, wherever
\* the commands before it were killed.
OpenSettles == \A p \in Proc : pc[p] = "dispatch"
                 => \A r \in Run : place[r] = "final" => Settled(r)

\* At every moment, so at every crash, the structured snapshot that a saved
\* run.json names is in the directory: enrich writes it before and deletes
\* the old one after the run.json that points to it.
SnapshotInPlace ==
    \A r \in Run : place[r] = "final" /\ json[r].state # "aborted"
        => json[r].snap \in snaps[r]

\* No recorded analysis is ever lost: concurrent analyze, rescore and enrich
\* commands read run.json under the lock they write it under.
AnalysesKept ==
    [][\A r \in Run : place[r] = "final"
          => place'[r] = "final" /\ json[r].analyses \subseteq json'[r].analyses]_vars

\* The row of a saved run never loses an analysis it has either: rebuilding a
\* row from a manifest never goes back behind what another process committed.
IndexedAnalysesKept ==
    [][\A r \in Run : row[r].analyses \subseteq row'[r].analyses]_row

\* A recorded verdict is never replaced (rescore judges only runs the adapter
\* left pending).
VerdictKept ==
    [][\A r \in Run : place[r] = "final" /\ json[r].passed # "null"
          => json'[r].passed = json[r].passed]_vars

\* Every command ends, however the locks are contended: no two processes wait
\* for each other's gate, marker or run lock.
CommandsEnd == \A p \in Proc : pc[p] # "idle" ~> pc[p] = "idle"

\* What a user sees of all this: RunLedger, with the directory as the phase of
\* a run and run.json as its record.
Ledger == INSTANCE RunLedger WITH
    phase   <- [r \in Run |-> CASE place[r] = "none" -> "absent"
                                [] place[r] = "staging" -> "underway"
                                [] place[r] = "final" -> "saved"],
    verdict <- [r \in Run |-> IF place[r] = "final" THEN json[r].passed ELSE "null"],
    open    <- [r \in Run |-> place[r] = "final" /\ json[r].pending],
    notes   <- [r \in Run |-> json[r].analyses]

\* Every step of the processes, their crashes and their recoveries is a step
\* of the ledger of runs or changes nothing in it.
ImplementsLedger == Ledger!Spec

=============================================================================
