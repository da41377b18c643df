--------------------------- MODULE RunStoreProofs ---------------------------
(***************************************************************************)
(* Theorems about RunStore, for every set of processes, every number of    *)
(* runs, commands and crashes: first who may write what, then what the     *)
(* processes keep true of the data directory and its index.  Saved runs    *)
(* keep their files, analyses and verdicts, and RunStore implements        *)
(* RunLedger.  What the index says is true if no process is killed, or if  *)
(* there is one process at a time.                                         *)
(***************************************************************************)
EXTENDS RunStore, TLAPS

-----------------------------------------------------------------------------
(* Types.                                                                  *)

\* Settling a manifest, aborting it and writing it keep it a manifest.
LEMMA ManifestTyped ==
    ASSUME NEW m \in Manifest
    PROVE  /\ SettledState(m) \in State
           /\ Settle(m) \in Manifest
           /\ AsAborted(m) \in Manifest
           /\ Written(m) \in Manifest
  <1>1. SettledState(m) \in State
    BY DEF SettledState, State, Manifest
  <1>2. Settle(m) \in Manifest
    BY <1>1 DEF Settle, Manifest
  <1>3. AsAborted(m) \in Manifest
    BY DEF AsAborted, Manifest, State, Verdict, AnalysisStatus
  <1>4. Written(m) \in Manifest
    BY DEF Written, Manifest
  <1> QED BY <1>1, <1>2, <1>3, <1>4

LEMMA BlankTyped == Blank \in Manifest /\ NoRow \in Row
  BY DEF Blank, NoRow, Manifest, Row, State, Verdict, AnalysisStatus

\* What a manifest holds fits the row it is copied to.
LEMMA ManifestFields ==
    ASSUME NEW m \in Manifest
    PROVE  /\ m.state \in State
           /\ m.passed \in Verdict
           /\ m.analysis \in AnalysisStatus
           /\ m.analyses \in SUBSET Nat
           /\ m.snap \in Nat
           /\ m.ver \in Nat
  BY DEF Manifest

\* The updates of a row: by a restore, by the recovery, by a rescore, and the
\* first form of a row.
LEMMA RowEdited ==
    ASSUME NEW w \in Row, NEW s \in State, NEW v \in Verdict,
           NEW a \in AnalysisStatus, NEW ns \in SUBSET Nat,
           NEW i \in Nat
    PROVE  /\ [w EXCEPT !.analyses = w.analyses \cup ns, !.analysis = a, !.stamp = i] \in Row
           /\ [w EXCEPT !.state = s, !.passed = v, !.analysis = a] \in Row
           /\ [w EXCEPT !.passed = v, !.state = s, !.analysis = a, !.stamp = i] \in Row
           /\ [w EXCEPT !.state = s, !.analysis = a] \in Row
  <1>1. w.analyses \cup ns \in SUBSET Nat
    BY DEF Row
  <1> QED BY <1>1 DEF Row

LEMMA RowOfTyped == \A m \in Manifest : RowOf(m) \in Row
  BY DEF RowOf, Row, Manifest

\* Steps that work on a run: their process has chosen one.
Targetless == {"idle", "dying", "open", "dispatch", "gate", "recover",
               "checkAnalyses", "checkResults", "new", "lockRun"}

TargetOK == \A p \in Proc :
              /\ pc[p] \notin Targetless => tgt[p] \in Run
              /\ pc[p] = "lockRun" => cmd[p] \in {"analyze", "rescore", "enrich"}

TypeInv == TypeOK /\ TargetOK

\* The variables a command's return leaves behind.
LEMMA ExitTyped ==
    ASSUME TypeInv, NEW p \in Proc, Exit(p)
    PROVE  /\ pc' \in [Proc -> PC]
           /\ cmd' \in [Proc -> Command]
           /\ tgt' \in [Proc -> Run \cup {0}]
           /\ mine' \in [Proc -> Manifest]
           /\ todo' \in [Proc -> SUBSET Run]
           /\ found' \in [Proc -> BOOLEAN]
           /\ gate' \in Proc \cup {NoProc}
           /\ marker' \in [Run -> Proc \cup {NoProc}]
           /\ runlock' \in [Run -> Proc \cup {NoProc}]
           /\ TargetOK'
  BY BlankTyped DEF TypeInv, TypeOK, TargetOK, Targetless, Exit, GoTo, PC, Command, Dropped, AllDropped

LEMMA ScanNextTyped ==
    ASSUME TypeInv, NEW p \in Proc, ScanNext(p), UNCHANGED cmd
    PROVE  /\ pc' \in [Proc -> PC]
           /\ tgt' \in [Proc -> Run \cup {0}]
           /\ mine' \in [Proc -> Manifest]
           /\ todo' \in [Proc -> SUBSET Run]
           /\ runlock' \in [Run -> Proc \cup {NoProc}]
           /\ TargetOK'
  <1>1. pc' \in [Proc -> PC] /\ pc' = [pc EXCEPT ![p] = "open"]
    BY DEF TypeInv, TypeOK, ScanNext, GoTo, PC
  <1>2. tgt' \in [Proc -> Run \cup {0}] /\ mine' \in [Proc -> Manifest]
    BY BlankTyped DEF TypeInv, TypeOK, ScanNext
  <1>3. todo' \in [Proc -> SUBSET Run] /\ runlock' \in [Run -> Proc \cup {NoProc}]
    BY DEF TypeInv, TypeOK, ScanNext
  <1>4. TargetOK'
    BY <1>1 DEF TypeInv, TypeOK, TargetOK, Targetless, ScanNext
  <1> QED BY <1>1, <1>2, <1>3, <1>4

LEMMA OpenTyped ==
    ASSUME TypeInv, NEW p \in Proc, OpenStep(p)
    PROVE  TypeInv'
  <1> USE DEF local, locks, disk, bounds
  <1>1. CASE OpenSkip(p)
    BY <1>1 DEF OpenSkip, TypeInv, TypeOK, TargetOK
  <1>2. CASE OpenLock(p)
    BY <1>2 DEF OpenLock, TypeInv, TypeOK, TargetOK, Targetless, GoTo, PC
  <1>2a. CASE OpenStale(p)
    BY <1>2a DEF OpenStale, TypeInv, TypeOK, TargetOK, Targetless, GoTo, PC
  <1>3. CASE RestoreSkip(p)
    BY <1>3, ScanNextTyped DEF RestoreSkip, TypeInv, TypeOK
  <1>4. CASE RestoreRead(p)
    BY <1>4 DEF RestoreRead, TypeInv, TypeOK, TargetOK, Targetless, GoTo, PC
  <1>5. CASE RestorePatch(p)
    <2>1. tgt[p] \in Run /\ mine[p] \in Manifest
      BY <1>5 DEF RestorePatch, TypeInv, TypeOK, TargetOK, Targetless
    <2>2. [row[tgt[p]] EXCEPT
             !.analyses = row[tgt[p]].analyses \cup mine[p].analyses,
             !.analysis = mine[p].analysis, !.stamp = mine[p].ver] \in Row
      BY <2>1, ManifestFields, RowEdited DEF TypeInv, TypeOK
    <2>3. row' \in [Run -> Row]
      BY <1>5, <2>2 DEF RestorePatch, TypeInv, TypeOK
    <2> QED BY <1>5, <2>3, ScanNextTyped DEF RestorePatch, TypeInv, TypeOK
  <1>6. CASE RestoreRebuild(p)
    <2>1. tgt[p] \in Run /\ mine[p] \in Manifest /\ json[tgt[p]].ver \in Nat
      BY <1>6 DEF RestoreRebuild, TypeInv, TypeOK, TargetOK, Targetless, Manifest
    <2>2. mine[p].snap \in Nat
      BY <2>1 DEF Manifest
    <2>3. [RowOf(mine[p]) EXCEPT
             !.snap = IF mine[p].snap \in snaps[tgt[p]] THEN mine[p].snap ELSE 0,
             !.stamp = json[tgt[p]].ver] \in Row
      BY <2>1, <2>2, RowOfTyped DEF Row
    <2>4. row' \in [Run -> Row]
      BY <1>6, <2>3 DEF RestoreRebuild, TypeInv, TypeOK
    <2> QED BY <1>6, <2>4, ScanNextTyped DEF RestoreRebuild, TypeInv, TypeOK
  <1>7. CASE OpenDone(p)
    BY <1>7 DEF OpenDone, TypeInv, TypeOK, TargetOK, Targetless, GoTo, PC
  <1>8. CASE Dispatch(p)
    <2>1. CASE cmd[p] = "read" /\ Exit(p)
      BY <1>8, <2>1, ExitTyped DEF Dispatch, TypeInv, TypeOK
    <2>2. CASE cmd[p] # "read" /\ UNCHANGED <<cmd, tgt, mine, todo, found, locks>>
               /\ GoTo(p, IF cmd[p] = "run" THEN "gate" ELSE "lockRun")
      <3>1. pc' \in [Proc -> PC]
        BY <2>2 DEF GoTo, PC, TypeInv, TypeOK
      <3>2. TargetOK'
        BY <2>2 DEF GoTo, TypeInv, TypeOK, TargetOK, Targetless, Command
      <3> QED BY <1>8, <2>2, <3>1, <3>2 DEF Dispatch, TypeInv, TypeOK
    <2> QED BY <1>8, <2>1, <2>2 DEF Dispatch
  <1> QED BY <1>1, <1>2, <1>2a, <1>3, <1>4, <1>5, <1>6, <1>7, <1>8 DEF OpenStep

\* What is typed when a process goes on with another step.
LEMMA GoToTyped ==
    ASSUME TypeInv, NEW p \in Proc, NEW next \in PC, GoTo(p, next)
    PROVE  pc' \in [Proc -> PC] /\ pc' = [pc EXCEPT ![p] = next]
  BY DEF GoTo, TypeInv, TypeOK

LEMMA EntryTyped ==
    ASSUME TypeInv, NEW p \in Proc, EntryStep(p)
    PROVE  TypeInv'
  <1> USE DEF local, locks, disk, bounds
  <1>1. CASE GateTake(p)
    BY <1>1 DEF GateTake, TypeInv, TypeOK, TargetOK, Targetless, GoTo, PC, Staged
  <1>2. CASE GateBusy(p)
    BY <1>2, ExitTyped DEF GateBusy, TypeInv, TypeOK
  <1>3. CASE RecoverPass(p)
    BY <1>3 DEF RecoverPass, TypeInv, TypeOK, TargetOK
  <1>4. CASE RecoverWrite(p)
    <2>1. PICK r \in Run : /\ marker' = [marker EXCEPT ![r] = p]
                           /\ json' = [json EXCEPT ![r] = Written(AsAborted(json[r]))]
                           /\ mine' = [mine EXCEPT ![p] = Written(AsAborted(json[r]))]
                           /\ tgt' = [tgt EXCEPT ![p] = r]
      BY <1>4 DEF RecoverWrite, TypeInv, TypeOK
    <2>2. Written(AsAborted(json[r])) \in Manifest
      <3>1. AsAborted(json[r]) \in Manifest
        BY ManifestTyped DEF TypeInv, TypeOK
      <3> QED BY <3>1, ManifestTyped
    <2>3. json' \in [Run -> Manifest] /\ mine' \in [Proc -> Manifest]
      BY <2>1, <2>2 DEF TypeInv, TypeOK
    <2>4. /\ tgt' \in [Proc -> Run \cup {0}] /\ tgt'[p] \in Run
          /\ marker' \in [Run -> Proc \cup {NoProc}]
          /\ \A q \in Proc \ {p} : tgt'[q] = tgt[q]
      BY <2>1 DEF TypeInv, TypeOK
    <2>5. pc' \in [Proc -> PC] /\ pc' = [pc EXCEPT ![p] = "recoverMove"]
      BY <1>4, GoToTyped DEF RecoverWrite, PC
    <2>6. TargetOK'
      BY <1>4, <2>4, <2>5 DEF RecoverWrite, TypeInv, TypeOK, TargetOK, Targetless
    <2> QED BY <1>4, <2>3, <2>4, <2>5, <2>6 DEF RecoverWrite, TypeInv, TypeOK
  <1>5. CASE RecoverMove(p)
    BY <1>5 DEF RecoverMove, TypeInv, TypeOK, TargetOK, Targetless, GoTo, PC, Place
  <1>6. CASE RecoverInsert(p)
    <2>1. tgt[p] \in Run /\ mine[p] \in Manifest
      BY <1>6 DEF RecoverInsert, TypeInv, TypeOK, TargetOK, Targetless
    <2>2. [NoRow EXCEPT !.state = mine[p].state, !.analysis = mine[p].analysis] \in Row
      BY <2>1, BlankTyped, ManifestFields, RowEdited
    <2>3. row' \in [Run -> Row]
      BY <1>6, <2>1, <2>2 DEF RecoverInsert, TypeInv, TypeOK
    <2>4. pc' \in [Proc -> PC] /\ pc' = [pc EXCEPT ![p] = "recoverUpdate"]
      BY <1>6, GoToTyped DEF RecoverInsert, PC
    <2>5. TargetOK'
      BY <1>6, <2>1, <2>4 DEF RecoverInsert, TypeInv, TypeOK, TargetOK, Targetless
    <2> QED BY <1>6, <2>3, <2>4, <2>5 DEF RecoverInsert, TypeInv, TypeOK
  <1>7. CASE RecoverUpdate(p)
    <2>1. tgt[p] \in Run /\ mine[p] \in Manifest /\ "no" \in Verdict
      BY <1>7 DEF RecoverUpdate, TypeInv, TypeOK, TargetOK, Targetless, Verdict
    <2>2. [row[tgt[p]] EXCEPT !.state = mine[p].state, !.passed = "no",
                              !.analysis = mine[p].analysis] \in Row
      BY <2>1, ManifestFields, RowEdited DEF TypeInv, TypeOK
    <2>3. row' \in [Run -> Row]
      BY <1>7, <2>2 DEF RecoverUpdate, TypeInv, TypeOK
    <2>4. pc' \in [Proc -> PC] /\ pc' = [pc EXCEPT ![p] = "recover"]
      BY <1>7, GoToTyped DEF RecoverUpdate, PC
    <2>5. /\ tgt' \in [Proc -> Run \cup {0}] /\ mine' \in [Proc -> Manifest]
          /\ todo' \in [Proc -> SUBSET Run]
          /\ marker' \in [Run -> Proc \cup {NoProc}]
      BY <1>7, BlankTyped DEF RecoverUpdate, TypeInv, TypeOK
    <2>6. TargetOK'
      BY <1>7, <2>4 DEF RecoverUpdate, TypeInv, TypeOK, TargetOK, Targetless
    <2> QED BY <1>7, <2>3, <2>4, <2>5, <2>6 DEF RecoverUpdate, TypeInv, TypeOK
  <1>8. CASE RecoverDone(p)
    <2>1. CASE Exit(p)
      BY <1>8, <2>1, ExitTyped DEF RecoverDone, TypeInv, TypeOK
    <2>2. CASE GoTo(p, "checkAnalyses") /\ UNCHANGED <<cmd, tgt, mine, todo, found, locks>>
      BY <1>8, <2>2 DEF RecoverDone, TypeInv, TypeOK, TargetOK, Targetless, GoTo, PC
    <2> QED BY <1>8, <2>1, <2>2 DEF RecoverDone
  <1>9. CASE CheckAnalyses(p)
    <2>1. CASE Exit(p)
      BY <1>9, <2>1, ExitTyped DEF CheckAnalyses, TypeInv, TypeOK
    <2>2. CASE GoTo(p, "checkResults") /\ UNCHANGED <<cmd, tgt, mine, todo, found, locks>>
      BY <1>9, <2>2 DEF CheckAnalyses, TypeInv, TypeOK, TargetOK, Targetless, GoTo, PC
    <2> QED BY <1>9, <2>1, <2>2 DEF CheckAnalyses
  <1>10. CASE CheckResults(p)
    <2>1. CASE Exit(p)
      BY <1>10, <2>1, ExitTyped DEF CheckResults, TypeInv, TypeOK
    <2>2. CASE GoTo(p, "new") /\ UNCHANGED <<cmd, tgt, mine, todo, found, locks>>
      BY <1>10, <2>2 DEF CheckResults, TypeInv, TypeOK, TargetOK, Targetless, GoTo, PC
    <2> QED BY <1>10, <2>1, <2>2 DEF CheckResults
  <1> QED BY <1>1, <1>2, <1>3, <1>4, <1>5, <1>6, <1>7, <1>8, <1>9, <1>10 DEF EntryStep

LEMMA RunTyped ==
    ASSUME TypeInv, NEW p \in Proc, RunStep(p)
    PROVE  TypeInv'
  <1> USE DEF local, locks, disk, bounds
  <1>1. CASE NewRun(p)
    <2>1. nextId \in Run
      BY <1>1, BoundsAssumption DEF NewRun, TypeInv, TypeOK, Run
    <2>2. pc' \in [Proc -> PC] /\ pc' = [pc EXCEPT ![p] = "prepare"]
      BY <1>1, GoToTyped DEF NewRun, PC
    <2>3. /\ tgt' \in [Proc -> Run \cup {0}] /\ nextId' \in Nat \ {0}
          /\ marker' \in [Run -> Proc \cup {NoProc}]
      BY <1>1, <2>1 DEF NewRun, TypeInv, TypeOK
    <2>4. TargetOK'
      BY <1>1, <2>1, <2>2 DEF NewRun, TypeInv, TypeOK, TargetOK, Targetless
    <2> QED BY <1>1, <2>2, <2>3, <2>4 DEF NewRun, TypeInv, TypeOK
  <1>2. CASE PrepareFail(p)
    BY <1>2, ExitTyped DEF PrepareFail, TypeInv, TypeOK
  <1>3. CASE BeginFile(p)
    <2>1. tgt[p] \in Run /\ Written(Blank) \in Manifest
      BY <1>3, BlankTyped, ManifestTyped DEF BeginFile, TypeInv, TypeOK, TargetOK, Targetless
    <2>2. /\ json' \in [Run -> Manifest] /\ mine' \in [Proc -> Manifest]
          /\ place' \in [Run -> Place]
      BY <1>3, <2>1 DEF BeginFile, TypeInv, TypeOK, Place
    <2>3. pc' \in [Proc -> PC] /\ pc' = [pc EXCEPT ![p] = "beginRow"]
      BY <1>3, GoToTyped DEF BeginFile, PC
    <2>4. TargetOK'
      BY <1>3, <2>1, <2>3 DEF BeginFile, TypeInv, TypeOK, TargetOK, Targetless
    <2> QED BY <1>3, <2>2, <2>3, <2>4 DEF BeginFile, TypeInv, TypeOK
  <1>4. CASE BeginRow(p)
    <2>1. tgt[p] \in Run /\ mine[p] \in Manifest
      BY <1>4 DEF BeginRow, TypeInv, TypeOK, TargetOK, Targetless
    <2>2. [NoRow EXCEPT !.state = mine[p].state, !.analysis = mine[p].analysis] \in Row
      BY <2>1, BlankTyped, ManifestFields, RowEdited
    <2>3. row' \in [Run -> Row]
      BY <1>4, <2>1, <2>2 DEF BeginRow, TypeInv, TypeOK
    <2>4. pc' \in [Proc -> PC] /\ pc' = [pc EXCEPT ![p] = "benchmark"]
      BY <1>4, GoToTyped DEF BeginRow, PC
    <2>5. TargetOK'
      BY <1>4, <2>1, <2>4 DEF BeginRow, TypeInv, TypeOK, TargetOK, Targetless
    <2> QED BY <1>4, <2>3, <2>4, <2>5 DEF BeginRow, TypeInv, TypeOK
  <1>5. CASE DiscardRow(p)
    <2>1. tgt[p] \in Run /\ mine[p] \in Manifest
      BY <1>5 DEF DiscardRow, TypeInv, TypeOK, TargetOK, Targetless
    <2>2. row' \in [Run -> Row]
      BY <1>5, <2>1, BlankTyped DEF DiscardRow, TypeInv, TypeOK
    <2>3. pc' \in [Proc -> PC] /\ pc' = [pc EXCEPT ![p] = "discard"]
      BY <1>5, GoToTyped DEF DiscardRow, PC
    <2>4. TargetOK'
      BY <1>5, <2>1, <2>3 DEF DiscardRow, TypeInv, TypeOK, TargetOK, Targetless
    <2> QED BY <1>5, <2>2, <2>3, <2>4 DEF DiscardRow, TypeInv, TypeOK
  <1>6. CASE DiscardFiles(p)
    <2>1. place' \in [Run -> Place] /\ json' \in [Run -> Manifest]
      BY <1>6, BlankTyped DEF DiscardFiles, TypeInv, TypeOK, Place
    <2> QED BY <1>6, <2>1, ExitTyped DEF DiscardFiles, TypeInv, TypeOK
  <1>7. CASE Benchmark(p)
    <2>1. tgt[p] \in Run /\ mine[p] \in Manifest
      BY <1>7 DEF Benchmark, TypeInv, TypeOK, TargetOK, Targetless
    <2>2. PICK o \in Outcomes :
            /\ mine' = [mine EXCEPT ![p] =
                  [mine[p] EXCEPT !.passed = o.passed, !.pending = o.pending,
                                  !.interrupted = o.interrupted,
                                  !.collectorFailed = o.collectorFailed,
                                  !.parserFailed = o.parserFailed]]
            /\ GoTo(p, IF o.ran THEN "checkpoint" ELSE "finish")
      BY <1>7 DEF Benchmark
    <2>3. [mine[p] EXCEPT !.passed = o.passed, !.pending = o.pending,
                          !.interrupted = o.interrupted,
                          !.collectorFailed = o.collectorFailed,
                          !.parserFailed = o.parserFailed] \in Manifest
      BY <2>1, OutcomesAssumption DEF Manifest, Outcome
    <2>4. mine' \in [Proc -> Manifest]
      BY <2>2, <2>3 DEF TypeInv, TypeOK
    <2>5. /\ pc' \in [Proc -> PC]
          /\ \A q \in Proc \ {p} : pc'[q] = pc[q]
          /\ pc'[p] # "lockRun"
      BY <2>2, GoToTyped DEF PC, TypeInv, TypeOK
    <2>6. TargetOK'
      BY <1>7, <2>1, <2>5 DEF Benchmark, TypeInv, TypeOK, TargetOK, Targetless
    <2> QED BY <1>7, <2>4, <2>5, <2>6 DEF Benchmark, TypeInv, TypeOK
  <1>8. CASE Checkpoint(p)
    <2>1. tgt[p] \in Run /\ mine[p] \in Manifest
      BY <1>8 DEF Checkpoint, TypeInv, TypeOK, TargetOK, Targetless
    <2>2. mine' \in [Proc -> Manifest] /\ json' \in [Run -> Manifest]
      BY <1>8, <2>1, ManifestTyped DEF Checkpoint, TypeInv, TypeOK
    <2>3. pc' \in [Proc -> PC] /\ pc' = [pc EXCEPT ![p] = "finish"]
      BY <1>8, GoToTyped DEF Checkpoint, PC
    <2>4. TargetOK'
      BY <1>8, <2>1, <2>3 DEF Checkpoint, TypeInv, TypeOK, TargetOK, Targetless
    <2> QED BY <1>8, <2>2, <2>3, <2>4 DEF Checkpoint, TypeInv, TypeOK
  <1>9. CASE Finish(p)
    <2> DEFINE m == Written([Settle(mine[p]) EXCEPT !.analysis = AnalysisFor(mine[p].passed)])
    <2>1. tgt[p] \in Run /\ mine[p] \in Manifest
      BY <1>9 DEF Finish, TypeInv, TypeOK, TargetOK, Targetless
    <2>2. [Settle(mine[p]) EXCEPT !.analysis = AnalysisFor(mine[p].passed)] \in Manifest
      <3>1. Settle(mine[p]) \in Manifest
        BY <2>1, ManifestTyped
      <3> QED BY <3>1 DEF Manifest, AnalysisFor, AnalysisStatus
    <2>3. m \in Manifest
      BY <2>2, ManifestTyped
    <2>4. mine' = [mine EXCEPT ![p] = m] /\ json' = [json EXCEPT ![tgt[p]] = m]
      BY <1>9 DEF Finish
    <2>5. mine' \in [Proc -> Manifest] /\ json' \in [Run -> Manifest]
      <3> HIDE DEF m
      <3> QED BY <2>3, <2>4 DEF TypeInv, TypeOK
    <2>6. pc' \in [Proc -> PC] /\ pc' = [pc EXCEPT ![p] = "finishMove"]
      BY <1>9, GoToTyped DEF Finish, PC
    <2>7. TargetOK'
      BY <1>9, <2>1, <2>6 DEF Finish, TypeInv, TypeOK, TargetOK, Targetless
    <2> QED BY <1>9, <2>5, <2>6, <2>7 DEF Finish, TypeInv, TypeOK
  <1>10. CASE FinishMove(p)
    <2>1. tgt[p] \in Run /\ mine[p] \in Manifest
      BY <1>10 DEF FinishMove, TypeInv, TypeOK, TargetOK, Targetless
    <2>2. /\ runlock' \in [Run -> Proc \cup {NoProc}]
          /\ snaps' \in [Run -> SUBSET Nat]
          /\ place' \in [Run -> Place]
      BY <1>10, <2>1 DEF FinishMove, TypeInv, TypeOK, Place
    <2>3. pc' \in [Proc -> PC] /\ pc' = [pc EXCEPT ![p] = "finishCommit"]
      BY <1>10, GoToTyped DEF FinishMove, PC
    <2>4. TargetOK'
      BY <1>10, <2>1, <2>3 DEF FinishMove, TypeInv, TypeOK, TargetOK, Targetless
    <2> QED BY <1>10, <2>2, <2>3, <2>4 DEF FinishMove, TypeInv, TypeOK
  <1>11. CASE FinishCommit(p)
    <2>1. tgt[p] \in Run /\ mine[p] \in Manifest
      BY <1>11 DEF FinishCommit, TypeInv, TypeOK, TargetOK, Targetless
    <2>2. /\ RowOf(mine[p]) \in Row
          /\ row[tgt[p]].copies + 1 \in Nat
          /\ json[tgt[p]].ver \in Nat
      BY <2>1, RowOfTyped DEF TypeInv, TypeOK, Row, Manifest
    <2>3. [RowOf(mine[p]) EXCEPT !.copies = row[tgt[p]].copies + 1,
                                 !.stamp = json[tgt[p]].ver] \in Row
      BY <2>2 DEF Row
    <2>4. row' \in [Run -> Row]
      BY <1>11, <2>3 DEF FinishCommit, TypeInv, TypeOK
    <2>5. pc' \in [Proc -> PC] /\ pc' = [pc EXCEPT ![p] = "runDone"]
      BY <1>11, GoToTyped DEF FinishCommit, PC
    <2>6. TargetOK'
      BY <1>11, <2>1, <2>5 DEF FinishCommit, TypeInv, TypeOK, TargetOK, Targetless
    <2> QED BY <1>11, <2>4, <2>5, <2>6 DEF FinishCommit, TypeInv, TypeOK
  <1>12. CASE RunDone(p)
    BY <1>12, ExitTyped DEF RunDone, TypeInv, TypeOK
  <1> QED BY <1>1, <1>2, <1>3, <1>4, <1>5, <1>6, <1>7, <1>8, <1>9, <1>10, <1>11, <1>12
          DEF RunStep

LEMMA SavedTyped ==
    ASSUME TypeInv, NEW p \in Proc, SavedStep(p)
    PROVE  TypeInv'
  <1> USE DEF local, locks, disk, bounds
  <1>1. CASE NoTarget(p)
    BY <1>1, ExitTyped DEF NoTarget, TypeInv, TypeOK
  <1>2. CASE LockRun(p)
    <2>1. PICK r \in Run : /\ runlock' = [runlock EXCEPT ![r] = p]
                           /\ tgt' = [tgt EXCEPT ![p] = r]
                           /\ mine' = [mine EXCEPT ![p] = json[r]]
      BY <1>2 DEF LockRun
    <2>2. cmd[p] \in {"analyze", "rescore", "enrich"} /\ cmd[p] \in PC
      BY <1>2 DEF LockRun, TypeInv, TargetOK, PC
    <2>3. pc' \in [Proc -> PC] /\ pc' = [pc EXCEPT ![p] = cmd[p]]
      BY <1>2, <2>2, GoToTyped DEF LockRun
    <2>4. /\ runlock' \in [Run -> Proc \cup {NoProc}]
          /\ tgt' \in [Proc -> Run \cup {0}]
          /\ mine' \in [Proc -> Manifest]
          /\ tgt'[p] \in Run
          /\ \A q \in Proc \ {p} : tgt'[q] = tgt[q]
      BY <2>1 DEF TypeInv, TypeOK
    <2>5. TargetOK'
      BY <1>2, <2>2, <2>3, <2>4 DEF LockRun, TypeInv, TypeOK, TargetOK, Targetless
    <2> QED BY <1>2, <2>3, <2>4, <2>5 DEF LockRun, TypeInv, TypeOK
  <1>3. CASE AnalyzeRefuse(p)
    BY <1>3, ExitTyped DEF AnalyzeRefuse, TypeInv, TypeOK
  <1>4. CASE AnalyzeWrite(p)
    <2>1. tgt[p] \in Run /\ mine[p] \in Manifest
      BY <1>4 DEF AnalyzeWrite, TypeInv, TypeOK, TargetOK, Targetless
    <2>2. PICK v \in {"complete", "skipped"} :
            LET m == Written([mine[p] EXCEPT !.analysis = v,
                         !.analyses = mine[p].analyses \cup {mine[p].ver}])
            IN mine' = [mine EXCEPT ![p] = m] /\ json' = [json EXCEPT ![tgt[p]] = m]
      BY <1>4 DEF AnalyzeWrite
    <2>3. [mine[p] EXCEPT !.analysis = v,
                          !.analyses = mine[p].analyses \cup {mine[p].ver}] \in Manifest
      BY <2>1 DEF Manifest, AnalysisStatus
    <2>4. Written([mine[p] EXCEPT !.analysis = v,
                     !.analyses = mine[p].analyses \cup {mine[p].ver}]) \in Manifest
      BY <2>3, ManifestTyped
    <2>5. mine' \in [Proc -> Manifest] /\ json' \in [Run -> Manifest]
      BY <2>2, <2>4 DEF TypeInv, TypeOK
    <2>6. pc' \in [Proc -> PC] /\ pc' = [pc EXCEPT ![p] = "analyzeCommit"]
      BY <1>4, GoToTyped DEF AnalyzeWrite, PC
    <2>7. TargetOK'
      BY <1>4, <2>1, <2>6 DEF AnalyzeWrite, TypeInv, TypeOK, TargetOK, Targetless
    <2> QED BY <1>4, <2>5, <2>6, <2>7 DEF AnalyzeWrite, TypeInv, TypeOK
  <1>5. CASE AnalyzeCommit(p)
    <2>1. tgt[p] \in Run /\ mine[p] \in Manifest
      BY <1>5 DEF AnalyzeCommit, TypeInv, TypeOK, TargetOK, Targetless
    <2>2. NewNotes(mine[p]) \in SUBSET Nat
      BY <2>1 DEF NewNotes, Manifest
    <2>3. [row[tgt[p]] EXCEPT
             !.analyses = row[tgt[p]].analyses \cup NewNotes(mine[p]),
             !.analysis = mine[p].analysis, !.stamp = json[tgt[p]].ver] \in Row
      <3>1. row[tgt[p]] \in Row /\ json[tgt[p]].ver \in Nat
        BY <2>1, ManifestFields DEF TypeInv, TypeOK
      <3>2. mine[p].analysis \in AnalysisStatus
        BY <2>1, ManifestFields
      <3>3. row[tgt[p]].analyses \cup NewNotes(mine[p]) \in SUBSET Nat
        BY <3>1, <2>2 DEF Row
      <3> QED BY <3>1, <3>2, <3>3 DEF Row
    <2>4. row' \in [Run -> Row]
      BY <1>5, <2>3 DEF AnalyzeCommit, TypeInv, TypeOK
    <2> QED BY <1>5, <2>4, ExitTyped DEF AnalyzeCommit, TypeInv, TypeOK
  <1>6. CASE RescoreRefuse(p)
    BY <1>6, ExitTyped DEF RescoreRefuse, TypeInv, TypeOK
  <1>7. CASE RescoreWrite(p)
    <2>1. tgt[p] \in Run /\ mine[p] \in Manifest
      BY <1>7 DEF RescoreWrite, TypeInv, TypeOK, TargetOK, Targetless
    <2>2. PICK v \in {"yes", "no"} :
            LET m == Written([Settle([mine[p] EXCEPT !.passed = v, !.pending = FALSE])
                                EXCEPT !.analysis = AnalysisFor(v)])
            IN mine' = [mine EXCEPT ![p] = m] /\ json' = [json EXCEPT ![tgt[p]] = m]
      BY <1>7 DEF RescoreWrite
    <2>3. [mine[p] EXCEPT !.passed = v, !.pending = FALSE] \in Manifest
      BY <2>1 DEF Manifest, Verdict
    <2>4. Settle([mine[p] EXCEPT !.passed = v, !.pending = FALSE]) \in Manifest
      BY <2>3, ManifestTyped
    <2>5. [Settle([mine[p] EXCEPT !.passed = v, !.pending = FALSE])
             EXCEPT !.analysis = AnalysisFor(v)] \in Manifest
      BY <2>4 DEF Manifest, AnalysisFor, AnalysisStatus
    <2>6. Written([Settle([mine[p] EXCEPT !.passed = v, !.pending = FALSE])
                     EXCEPT !.analysis = AnalysisFor(v)]) \in Manifest
      BY <2>5, ManifestTyped
    <2>7. mine' \in [Proc -> Manifest] /\ json' \in [Run -> Manifest]
      BY <2>2, <2>6 DEF TypeInv, TypeOK
    <2>8. pc' \in [Proc -> PC] /\ pc' = [pc EXCEPT ![p] = "rescoreCommit"]
      BY <1>7, GoToTyped DEF RescoreWrite, PC
    <2>9. TargetOK'
      BY <1>7, <2>1, <2>8 DEF RescoreWrite, TypeInv, TypeOK, TargetOK, Targetless
    <2> QED BY <1>7, <2>7, <2>8, <2>9 DEF RescoreWrite, TypeInv, TypeOK
  <1>8. CASE RescoreCommit(p)
    <2>1. tgt[p] \in Run /\ mine[p] \in Manifest
      BY <1>8 DEF RescoreCommit, TypeInv, TypeOK, TargetOK, Targetless
    <2>2. [row[tgt[p]] EXCEPT !.passed = mine[p].passed, !.state = mine[p].state,
             !.analysis = mine[p].analysis, !.stamp = json[tgt[p]].ver] \in Row
      BY <2>1, ManifestFields, RowEdited DEF TypeInv, TypeOK
    <2>3. row' \in [Run -> Row]
      BY <1>8, <2>2 DEF RescoreCommit, TypeInv, TypeOK
    <2> QED BY <1>8, <2>3, ExitTyped DEF RescoreCommit, TypeInv, TypeOK
  <1>9. CASE EnrichSnapshot(p)
    <2>1. tgt[p] \in Run /\ mine[p] \in Manifest
      BY <1>9 DEF EnrichSnapshot, TypeInv, TypeOK, TargetOK, Targetless
    <2>2. PICK failed \in BOOLEAN :
            mine' = [mine EXCEPT ![p] =
                       Written(Settle([mine[p] EXCEPT !.parserFailed = failed,
                                                      !.snap = mine[p].ver + 1]))]
      BY <1>9 DEF EnrichSnapshot
    <2>3. mine[p].ver + 1 \in Nat
      BY <2>1 DEF Manifest
    <2>4. [mine[p] EXCEPT !.parserFailed = failed, !.snap = mine[p].ver + 1] \in Manifest
      BY <2>1, <2>3 DEF Manifest
    <2>5. Written(Settle([mine[p] EXCEPT !.parserFailed = failed,
                                         !.snap = mine[p].ver + 1])) \in Manifest
      BY <2>4, ManifestTyped
    <2>6. mine' \in [Proc -> Manifest] /\ snaps' \in [Run -> SUBSET Nat]
      BY <1>9, <2>2, <2>3, <2>5 DEF EnrichSnapshot, TypeInv, TypeOK
    <2>7. pc' \in [Proc -> PC] /\ pc' = [pc EXCEPT ![p] = "enrichWrite"]
      BY <1>9, GoToTyped DEF EnrichSnapshot, PC
    <2>8. TargetOK'
      BY <1>9, <2>1, <2>7 DEF EnrichSnapshot, TypeInv, TypeOK, TargetOK, Targetless
    <2> QED BY <1>9, <2>6, <2>7, <2>8 DEF EnrichSnapshot, TypeInv, TypeOK
  <1>10. CASE EnrichWrite(p)
    <2>1. tgt[p] \in Run /\ mine[p] \in Manifest
      BY <1>10 DEF EnrichWrite, TypeInv, TypeOK, TargetOK, Targetless
    <2>2. json' \in [Run -> Manifest]
      BY <1>10, <2>1 DEF EnrichWrite, TypeInv, TypeOK
    <2>3. pc' \in [Proc -> PC] /\ pc' = [pc EXCEPT ![p] = "enrichCommit"]
      BY <1>10, GoToTyped DEF EnrichWrite, PC
    <2>4. TargetOK'
      BY <1>10, <2>1, <2>3 DEF EnrichWrite, TypeInv, TypeOK, TargetOK, Targetless
    <2> QED BY <1>10, <2>2, <2>3, <2>4 DEF EnrichWrite, TypeInv, TypeOK
  <1>11. CASE EnrichCommit(p)
    <2>1. tgt[p] \in Run /\ mine[p] \in Manifest
      BY <1>11 DEF EnrichCommit, TypeInv, TypeOK, TargetOK, Targetless
    <2>2. [row[tgt[p]] EXCEPT !.state = mine[p].state, !.snap = mine[p].snap,
                              !.stamp = json[tgt[p]].ver] \in Row
      <3>1. row[tgt[p]] \in Row /\ json[tgt[p]] \in Manifest
        BY <2>1 DEF TypeInv, TypeOK
      <3>2. mine[p].state \in State /\ mine[p].snap \in Nat /\ json[tgt[p]].ver \in Nat
        BY <2>1, <3>1, ManifestFields
      <3> QED BY <3>1, <3>2 DEF Row
    <2>3. row' \in [Run -> Row]
      BY <1>11, <2>2 DEF EnrichCommit, TypeInv, TypeOK
    <2>4. pc' \in [Proc -> PC] /\ pc' = [pc EXCEPT ![p] = "enrichPrune"]
      BY <1>11, GoToTyped DEF EnrichCommit, PC
    <2>5. TargetOK'
      BY <1>11, <2>1, <2>4 DEF EnrichCommit, TypeInv, TypeOK, TargetOK, Targetless
    <2> QED BY <1>11, <2>3, <2>4, <2>5 DEF EnrichCommit, TypeInv, TypeOK
  <1>12. CASE EnrichPrune(p)
    <2>1. snaps' \in [Run -> SUBSET Nat]
      BY <1>12 DEF EnrichPrune, TypeInv, TypeOK
    <2> QED BY <1>12, <2>1, ExitTyped DEF EnrichPrune, TypeInv, TypeOK
  <1> QED BY <1>1, <1>2, <1>3, <1>4, <1>5, <1>6, <1>7, <1>8, <1>9, <1>10, <1>11, <1>12
          DEF SavedStep

LEMMA OtherTyped ==
    ASSUME TypeInv, NEW p \in Proc,
           \/ \E c \in Commands : Start(p, c)
           \/ Reap(p)
           \/ Crash(p)
    PROVE  TypeInv'
  <1> USE DEF local, locks, disk, bounds
  <1>1. CASE \E c \in Commands : Start(p, c)
    BY <1>1, CommandsAssumption
       DEF Start, TypeInv, TypeOK, TargetOK, Targetless, GoTo, PC, Finalized
  <1>2. CASE Reap(p)
    BY <1>2, ExitTyped DEF Reap, TypeInv, TypeOK
  <1>3. CASE Crash(p)
    BY <1>3, BlankTyped
       DEF Crash, TypeInv, TypeOK, TargetOK, Targetless, PC, Dropped, AllDropped
  <1> QED BY <1>1, <1>2, <1>3

LEMMA TypeInductive == TypeInv /\ [Next]_vars => TypeInv'
  <1> SUFFICES ASSUME TypeInv, [Next]_vars PROVE TypeInv'
    OBVIOUS
  <1>1. CASE UNCHANGED vars
    BY <1>1 DEF vars, local, locks, disk, bounds, TypeInv, TypeOK, TargetOK
  <1>2. CASE Next
    BY <1>2, OpenTyped, EntryTyped, RunTyped, SavedTyped, OtherTyped DEF Next, Step
  <1> QED BY <1>1, <1>2

LEMMA TypeInvariant == Spec => []TypeInv
  <1>1. Init => TypeInv
    BY BlankTyped DEF Init, TypeInv, TypeOK, TargetOK, Targetless, PC, Command, Place
  <1> QED BY <1>1, TypeInductive, PTL DEF Spec

\* Type correctness, whatever the processes do and wherever they are killed.
THEOREM TypeCorrect == Spec => []TypeOK
  <1>1. TypeInv => TypeOK
    BY DEF TypeInv
  <1> QED BY <1>1, TypeInvariant, PTL

-----------------------------------------------------------------------------
(* Control: who holds which lock, and where the directories are.           *)

\* The steps that hold the gate, the marker of their run, the lock of their
\* run's directory.
GateHeld == {"recover", "recoverMove", "recoverInsert", "recoverUpdate",
             "checkAnalyses", "checkResults"} \cup InRun
MarkHeld == {"recoverMove", "recoverInsert", "recoverUpdate"} \cup (InRun \ {"new"})
LockHeld == {"restore", "patch", "rebuild", "finishCommit", "runDone", "analyze",
             "analyzeCommit", "rescore", "rescoreCommit", "enrich", "enrichWrite",
             "enrichCommit", "enrichPrune"}

\* The steps whose run is in the staging directory, the steps whose run is
\* saved, and the steps that scan the saved runs.
Staging  == Owned \cup {"recoverMove"}
Saved    == LockHeld \cup {"openLock", "recoverInsert", "recoverUpdate"}
Scanning == {"open", "openLock", "restore", "patch", "rebuild"}

\* What a process may rely on at its step.
GateOK(p)  == pc[p] \in GateHeld => gate = p
MarkOK(p)  == pc[p] \in MarkHeld => marker[tgt[p]] = p /\ tgt[p] < nextId
LockOK(p)  == pc[p] \in LockHeld => runlock[tgt[p]] = p
PlaceOK(p) == /\ pc[p] \in Staging => place[tgt[p]] = "staging"
              /\ pc[p] \in Saved => place[tgt[p]] = "final"
              /\ pc[p] = "prepare" => place[tgt[p]] = "none"
ScanOK(p)  == pc[p] \in Scanning => \A r \in todo[p] : place[r] = "final"
Holds(p)   == GateOK(p) /\ MarkOK(p) /\ LockOK(p) /\ PlaceOK(p) /\ ScanOK(p)

FreshOK == \A r \in Run : r >= nextId => place[r] = "none"

Control == FreshOK /\ \A p \in Proc : Holds(p)

\* A step of p that respects what the other processes rely on: it leaves their
\* state and their locks alone and moves no directory but one it has marked,
\* which is not saved yet.
Respects(p) ==
    /\ \A q \in Proc : q # p => pc'[q] = pc[q] /\ tgt'[q] = tgt[q] /\ todo'[q] = todo[q]
    /\ \A q \in Proc : q # p /\ gate = q => gate' = q
    /\ \A q \in Proc, r \in Run : q # p /\ r < nextId /\ marker[r] = q => marker'[r] = q
    /\ \A q \in Proc, r \in Run : q # p /\ runlock[r] = q => runlock'[r] = q
    /\ \A r \in Run : \/ place'[r] = place[r]
                      \/ r = tgt[p] /\ pc[p] \in MarkHeld /\ place[r] # "final"
    /\ nextId' \in Nat /\ nextId <= nextId'

LEMMA OthersHold ==
    ASSUME TypeInv, Control, NEW p \in Proc, Respects(p), Holds(p)'
    PROVE  Control'
  <1>1. ASSUME NEW q \in Proc, q # p PROVE Holds(q)'
    <2>1. pc'[q] = pc[q] /\ tgt'[q] = tgt[q] /\ todo'[q] = todo[q]
      BY <1>1 DEF Respects
    <2>2. Holds(q) /\ Holds(p)
      BY DEF Control
    <2>3. pc[q] \in MarkHeld \cup LockHeld \cup Staging \cup Saved => tgt[q] \in Run
      BY DEF TypeInv, TargetOK, Targetless, MarkHeld, LockHeld, InRun, Staging, Saved, Owned
    <2>4. pc[q] \in MarkHeld /\ pc[p] \in MarkHeld => tgt[q] # tgt[p]
      BY <1>1, <2>2 DEF Holds, MarkOK
    <2>5. GateOK(q)'
      BY <1>1, <2>1, <2>2 DEF Holds, GateOK, Respects
    <2>6. MarkOK(q)'
      <3> SUFFICES ASSUME pc[q] \in MarkHeld PROVE marker'[tgt[q]] = q /\ tgt[q] < nextId'
        BY <2>1 DEF MarkOK
      <3>1. tgt[q] \in Run /\ marker[tgt[q]] = q /\ tgt[q] < nextId
        BY <2>2, <2>3 DEF Holds, MarkOK
      <3>2. nextId \in Nat /\ tgt[q] \in Nat
        BY <3>1 DEF TypeInv, TypeOK, Run
      <3> QED BY <1>1, <3>1, <3>2 DEF Respects
    <2>7. LockOK(q)'
      BY <1>1, <2>1, <2>2, <2>3 DEF Holds, LockOK, Respects
    <2>8. PlaceOK(q)'
      <3>1. ASSUME pc[q] \in Staging \/ pc[q] = "prepare" PROVE place'[tgt[q]] = place[tgt[q]]
        <4>1. pc[q] \in MarkHeld
          BY <3>1 DEF Staging, Owned, MarkHeld, InRun
        <4> QED BY <2>3, <2>4, <4>1 DEF Respects
      <3>2. ASSUME pc[q] \in Saved PROVE place'[tgt[q]] = place[tgt[q]]
        BY <2>2, <2>3, <3>2 DEF Respects, Holds, PlaceOK
      <3> QED BY <2>1, <2>2, <3>1, <3>2 DEF Holds, PlaceOK
    <2>9. ScanOK(q)'
      <3>1. \A r \in todo[q] : r \in Run
        BY DEF TypeInv, TypeOK
      <3> QED BY <2>1, <2>2, <3>1 DEF Holds, ScanOK, Respects
    <2> QED BY <2>5, <2>6, <2>7, <2>8, <2>9 DEF Holds
  <1>2. FreshOK'
    <2> SUFFICES ASSUME NEW r \in Run, r >= nextId' PROVE place'[r] = "none"
      BY DEF FreshOK
    <2>1. r \in Nat /\ nextId \in Nat /\ nextId' \in Nat /\ nextId <= nextId'
      BY DEF TypeInv, TypeOK, Run, Respects
    <2>2. r >= nextId /\ place[r] = "none"
      BY <2>1 DEF Control, FreshOK
    <2>3. ~(r = tgt[p] /\ pc[p] \in MarkHeld)
      BY <2>1, <2>2 DEF Control, Holds, MarkOK
    <2> QED BY <2>2, <2>3 DEF Respects
  <1> QED BY <1>1, <1>2 DEF Control

\* A step that takes and drops nothing and moves no directory.
Quiet(p) ==
    /\ \A q \in Proc : q # p => pc'[q] = pc[q] /\ todo'[q] = todo[q]
    /\ pc'[p] \in GateHeld => pc[p] \in GateHeld
    /\ pc'[p] \in MarkHeld => pc[p] \in MarkHeld
    /\ pc'[p] \in LockHeld => pc[p] \in LockHeld
    /\ pc'[p] \in Staging => pc[p] \in Staging
    /\ pc'[p] \in Saved => pc[p] \in Saved
    /\ pc'[p] \in Scanning => pc[p] \in Scanning
    /\ pc'[p] = "prepare" => pc[p] = "prepare"
    /\ todo'[p] \subseteq todo[p]
    /\ UNCHANGED <<tgt, gate, marker, runlock, place, nextId>>

LEMMA QuietKeeps ==
    ASSUME TypeInv, Control, NEW p \in Proc, Quiet(p)
    PROVE  Control'
  <1>1. Respects(p)
    BY DEF Respects, Quiet, TypeInv, TypeOK
  <1>2. Holds(p)'
    BY DEF Control, Holds, Quiet, GateOK, MarkOK, LockOK, PlaceOK, ScanOK
  <1> QED BY <1>1, <1>2, OthersHold

\* The steps that hold nothing.
Unheld == {"idle", "dying", "dispatch", "gate", "lockRun"}

LEMMA UnheldHolds ==
    \A p \in Proc : pc'[p] \in Unheld => Holds(p)'
  BY DEF Unheld, Holds, GateOK, MarkOK, LockOK, PlaceOK, ScanOK, GateHeld, MarkHeld,
         InRun, LockHeld, Staging, Saved, Owned, Scanning

\* A command that returns drops only its own locks.
LEMMA ExitKeeps ==
    ASSUME TypeInv, Control, NEW p \in Proc, Exit(p), UNCHANGED <<place, nextId>>
    PROVE  Control'
  <1>1. \A q \in Proc, r \in Run : q # p =>
          (marker[r] = q => marker'[r] = q) /\ (runlock[r] = q => runlock'[r] = q)
    BY DEF Exit, Dropped, AllDropped
  <1>2. \A q \in Proc : q # p /\ gate = q => gate' = q
    BY DEF Exit, Dropped
  <1>3. pc'[p] \in Unheld
    BY DEF Exit, GoTo, TypeInv, TypeOK, Unheld
  <1>4. \A q \in Proc : q # p => pc'[q] = pc[q] /\ tgt'[q] = tgt[q] /\ todo'[q] = todo[q]
    BY DEF Exit, GoTo, TypeInv, TypeOK
  <1>5. Respects(p)
    BY <1>1, <1>2, <1>4 DEF Respects, TypeInv, TypeOK
  <1> QED BY <1>3, <1>5, UnheldHolds, OthersHold

\* The scan of the saved runs is done with one.
LEMMA ScanNextKeeps ==
    ASSUME TypeInv, Control, NEW p \in Proc, ScanNext(p),
           pc[p] \in {"restore", "patch", "rebuild"},
           UNCHANGED <<gate, marker, place, nextId>>
    PROVE  Control'
  <1>1. tgt[p] \in Run /\ runlock[tgt[p]] = p /\ \A r \in todo[p] : place[r] = "final"
    BY DEF TypeInv, TargetOK, Targetless, Control, Holds, LockOK, LockHeld, ScanOK, Scanning
  <1>2. \A q \in Proc, r \in Run : q # p /\ runlock[r] = q => runlock'[r] = q
    BY <1>1 DEF ScanNext, TypeInv, TypeOK
  <1>3. pc'[p] = "open" /\ todo'[p] \subseteq todo[p]
    BY DEF ScanNext, GoTo, TypeInv, TypeOK
  <1>4. \A q \in Proc : q # p => pc'[q] = pc[q] /\ tgt'[q] = tgt[q] /\ todo'[q] = todo[q]
    BY DEF ScanNext, GoTo, TypeInv, TypeOK
  <1>5. Respects(p)
    BY <1>2, <1>4 DEF Respects, TypeInv, TypeOK
  <1>6. Holds(p)'
    BY <1>1, <1>3 DEF Holds, GateOK, MarkOK, LockOK, PlaceOK, ScanOK, GateHeld, MarkHeld,
                      InRun, LockHeld, Staging, Saved, Owned, Scanning
  <1> QED BY <1>5, <1>6, OthersHold

\* A process that takes the free lock of a saved run.
LEMMA LockKeeps ==
    ASSUME TypeInv, Control, NEW p \in Proc, NEW r \in Run,
           runlock[r] = NoProc, place[r] = "final",
           runlock' = [runlock EXCEPT ![r] = p],
           tgt' = [tgt EXCEPT ![p] = r],
           \A q \in Proc : q # p => pc'[q] = pc[q],
           pc'[p] \in {"restore", "analyze", "rescore", "enrich"},
           pc'[p] = "restore" => pc[p] = "openLock",
           UNCHANGED <<todo, gate, marker, place, nextId>>
    PROVE  Control'
  <1>1. \A q \in Proc, s \in Run : q # p /\ runlock[s] = q => runlock'[s] = q
    BY NoProcAssumption DEF TypeInv, TypeOK
  <1>2. tgt'[p] = r /\ runlock'[r] = p /\ \A q \in Proc : q # p => tgt'[q] = tgt[q]
    BY DEF TypeInv, TypeOK
  <1>3. Respects(p)
    BY <1>1, <1>2 DEF Respects, TypeInv, TypeOK
  <1>4. ScanOK(p)'
    BY DEF Control, Holds, ScanOK, Scanning
  <1>5. Holds(p)'
    BY <1>2, <1>4 DEF Holds, GateOK, MarkOK, LockOK, PlaceOK, GateHeld, MarkHeld,
                      InRun, Staging, Owned
  <1> QED BY <1>3, <1>5, OthersHold

LEMMA OpenControl ==
    ASSUME TypeInv, Control, NEW p \in Proc, OpenStep(p)
    PROVE  Control'
  <1> USE DEF local, locks, disk, bounds
  <1>1. CASE OpenSkip(p)
    <2>1. Quiet(p)
      BY <1>1 DEF OpenSkip, Quiet, GoTo, TypeInv, TypeOK, GateHeld, MarkHeld, InRun, LockHeld, Staging, Saved, Owned, Scanning
    <2> QED BY <2>1, QuietKeeps
  <1>2. CASE OpenLock(p)
    <2>1. tgt[p] \in Run /\ place[tgt[p]] = "final" /\ runlock[tgt[p]] = NoProc
      BY <1>2 DEF OpenLock, Free, TypeInv, TargetOK, Targetless, Control, Holds, PlaceOK, Saved
    <2>2. tgt' = [tgt EXCEPT ![p] = tgt[p]]
      BY <1>2 DEF OpenLock, TypeInv, TypeOK
    <2>3. pc'[p] = "restore" /\ pc[p] = "openLock" /\ \A q \in Proc : q # p => pc'[q] = pc[q]
      BY <1>2 DEF OpenLock, GoTo, TypeInv, TypeOK
    <2> QED BY <1>2, <2>1, <2>2, <2>3, LockKeeps DEF OpenLock
  <1>2a. CASE OpenStale(p)
    <2>1. Respects(p)
      BY <1>2a DEF OpenStale, GoTo, Respects, TypeInv, TypeOK
    <2>2. \A r \in todo[p] : r \in Run /\ place[r] = "final"
      BY <1>2a DEF OpenStale, TypeInv, TypeOK, Control, Holds, ScanOK, Scanning
    <2>3. pc'[p] = "openLock" /\ tgt'[p] \in todo[p] /\ todo' = todo /\ place' = place
      BY <1>2a DEF OpenStale, GoTo, TypeInv, TypeOK
    <2>4. Holds(p)'
      BY <2>2, <2>3 DEF Holds, GateOK, MarkOK, LockOK, PlaceOK, ScanOK, GateHeld, MarkHeld,
                        InRun, LockHeld, Staging, Saved, Owned, Scanning
    <2> QED BY <2>1, <2>4, OthersHold
  <1>3. CASE RestoreSkip(p)
    BY <1>3, ScanNextKeeps DEF RestoreSkip
  <1>4. CASE RestoreRead(p)
    <2>1. Quiet(p)
      BY <1>4 DEF RestoreRead, Quiet, GoTo, TypeInv, TypeOK, GateHeld, MarkHeld, InRun, LockHeld, Staging, Saved, Owned, Scanning
    <2> QED BY <2>1, QuietKeeps
  <1>5. CASE RestorePatch(p)
    BY <1>5, ScanNextKeeps DEF RestorePatch
  <1>6. CASE RestoreRebuild(p)
    BY <1>6, ScanNextKeeps DEF RestoreRebuild
  <1>7. CASE OpenDone(p)
    <2>1. Quiet(p)
      BY <1>7 DEF OpenDone, Quiet, GoTo, TypeInv, TypeOK, GateHeld, MarkHeld, InRun, LockHeld, Staging, Saved, Owned, Scanning
    <2> QED BY <2>1, QuietKeeps
  <1>8. CASE Dispatch(p)
    <2>1. CASE Exit(p)
      BY <1>8, <2>1, ExitKeeps DEF Dispatch
    <2>2. CASE ~Exit(p)
      <3>1. Quiet(p)
        BY <1>8, <2>2 DEF Dispatch, Quiet, GoTo, TypeInv, TypeOK, GateHeld, MarkHeld, InRun, LockHeld, Staging, Saved, Owned, Scanning
      <3> QED BY <3>1, QuietKeeps
    <2> QED BY <2>1, <2>2
  <1> QED BY <1>1, <1>2, <1>2a, <1>3, <1>4, <1>5, <1>6, <1>7, <1>8 DEF OpenStep

LEMMA EntryControl ==
    ASSUME TypeInv, Control, NEW p \in Proc, EntryStep(p)
    PROVE  Control'
  <1> USE DEF local, locks, disk, bounds
  <1>1. CASE GateTake(p)
    <2>1. /\ gate = NoProc /\ gate' = p /\ pc'[p] = "recover"
          /\ \A q \in Proc : q # p => pc'[q] = pc[q] /\ tgt'[q] = tgt[q] /\ todo'[q] = todo[q]
      BY <1>1 DEF GateTake, Free, GoTo, TypeInv, TypeOK
    <2>2. Respects(p)
      BY <1>1, <2>1, NoProcAssumption DEF GateTake, Respects, TypeInv, TypeOK
    <2>3. Holds(p)'
      BY <2>1 DEF Holds, GateOK, MarkOK, LockOK, PlaceOK, ScanOK, GateHeld, MarkHeld, InRun, LockHeld, Staging, Saved, Owned, Scanning
    <2> QED BY <2>2, <2>3, OthersHold
  <1>2. CASE GateBusy(p)
    BY <1>2, ExitKeeps DEF GateBusy
  <1>3. CASE RecoverPass(p)
    <2>1. Quiet(p)
      BY <1>3 DEF RecoverPass, Quiet, GoTo, TypeInv, TypeOK, GateHeld, MarkHeld, InRun, LockHeld, Staging, Saved, Owned, Scanning
    <2> QED BY <2>1, QuietKeeps
  <1>4. CASE RecoverWrite(p)
    <2>1. PICK r \in todo[p] : /\ marker[r] = NoProc /\ place[r] = "staging"
                              /\ marker' = [marker EXCEPT ![r] = p]
                              /\ tgt' = [tgt EXCEPT ![p] = r]
      BY <1>4 DEF RecoverWrite, Free
    <2>2. r \in Run /\ r < nextId
      BY <2>1 DEF TypeInv, TypeOK, Control, FreshOK, Run
    <2>3. /\ pc[p] = "recover" /\ pc'[p] = "recoverMove" /\ tgt'[p] = r /\ marker'[r] = p
          /\ \A q \in Proc : q # p => pc'[q] = pc[q] /\ tgt'[q] = tgt[q] /\ todo'[q] = todo[q]
      BY <1>4, <2>1, <2>2 DEF RecoverWrite, GoTo, TypeInv, TypeOK
    <2>4. \A q \in Proc, s \in Run : q # p /\ marker[s] = q => marker'[s] = q
      BY <2>1, <2>2, NoProcAssumption DEF TypeInv, TypeOK
    <2>5. Respects(p)
      BY <1>4, <2>3, <2>4 DEF RecoverWrite, Respects, TypeInv, TypeOK
    <2>6. gate = p
      BY <2>3 DEF Control, Holds, GateOK, GateHeld
    <2>7. Holds(p)'
      BY <1>4, <2>1, <2>2, <2>3, <2>6
         DEF RecoverWrite, Holds, GateOK, MarkOK, LockOK, PlaceOK, ScanOK, GateHeld, MarkHeld, InRun, LockHeld, Staging, Saved, Owned, Scanning
    <2> QED BY <2>5, <2>7, OthersHold
  <1>5. CASE RecoverMove(p)
    <2>1. /\ pc[p] = "recoverMove" /\ pc'[p] = "recoverInsert" /\ tgt[p] \in Run
          /\ \A q \in Proc : q # p => pc'[q] = pc[q]
      BY <1>5 DEF RecoverMove, GoTo, TypeInv, TypeOK, TargetOK, Targetless
    <2>2. /\ gate = p /\ marker[tgt[p]] = p /\ tgt[p] < nextId
          /\ place[tgt[p]] = "staging"
      BY <2>1 DEF Control, Holds, GateOK, MarkOK, PlaceOK, GateHeld, MarkHeld, InRun, LockHeld, Staging, Saved, Owned, Scanning, GateHeld
    <2>3. place'[tgt[p]] = "final" /\ \A r \in Run : r # tgt[p] => place'[r] = place[r]
      BY <1>5, <2>1 DEF RecoverMove, TypeInv, TypeOK
    <2>4. Respects(p)
      BY <1>5, <2>1, <2>2, <2>3 DEF RecoverMove, Respects, TypeInv, TypeOK, MarkHeld
    <2>5. Holds(p)'
      BY <1>5, <2>1, <2>2, <2>3
         DEF RecoverMove, Holds, GateOK, MarkOK, LockOK, PlaceOK, ScanOK, GateHeld, MarkHeld, InRun, LockHeld, Staging, Saved, Owned, Scanning
    <2> QED BY <2>4, <2>5, OthersHold
  <1>6. CASE RecoverInsert(p)
    <2>1. Quiet(p)
      BY <1>6 DEF RecoverInsert, Quiet, GoTo, TypeInv, TypeOK, GateHeld, MarkHeld, InRun, LockHeld, Staging, Saved, Owned, Scanning
    <2> QED BY <2>1, QuietKeeps
  <1>7. CASE RecoverUpdate(p)
    <2>1. /\ pc[p] = "recoverUpdate" /\ pc'[p] = "recover" /\ tgt[p] \in Run
          /\ \A q \in Proc : q # p => pc'[q] = pc[q] /\ tgt'[q] = tgt[q] /\ todo'[q] = todo[q]
      BY <1>7 DEF RecoverUpdate, GoTo, TypeInv, TypeOK, TargetOK, Targetless
    <2>2. gate = p /\ marker[tgt[p]] = p
      BY <2>1 DEF Control, Holds, GateOK, MarkOK, GateHeld, MarkHeld
    <2>3. \A q \in Proc, s \in Run : q # p /\ marker[s] = q => marker'[s] = q
      BY <1>7, <2>1, <2>2 DEF RecoverUpdate, TypeInv, TypeOK
    <2>4. Respects(p)
      BY <1>7, <2>1, <2>3 DEF RecoverUpdate, Respects, TypeInv, TypeOK
    <2>5. Holds(p)'
      BY <1>7, <2>1, <2>2
         DEF RecoverUpdate, Holds, GateOK, MarkOK, LockOK, PlaceOK, ScanOK, GateHeld, MarkHeld, InRun, LockHeld, Staging, Saved, Owned, Scanning
    <2> QED BY <2>4, <2>5, OthersHold
  <1>8. CASE RecoverDone(p)
    <2>1. CASE Exit(p)
      BY <1>8, <2>1, ExitKeeps DEF RecoverDone
    <2>2. CASE ~Exit(p)
      <3>1. Quiet(p)
        BY <1>8, <2>2 DEF RecoverDone, Quiet, GoTo, TypeInv, TypeOK, GateHeld, MarkHeld, InRun, LockHeld, Staging, Saved, Owned, Scanning
      <3> QED BY <3>1, QuietKeeps
    <2> QED BY <2>1, <2>2
  <1>9. CASE CheckAnalyses(p)
    <2>1. CASE Exit(p)
      BY <1>9, <2>1, ExitKeeps DEF CheckAnalyses
    <2>2. CASE ~Exit(p)
      <3>1. Quiet(p)
        BY <1>9, <2>2 DEF CheckAnalyses, Quiet, GoTo, TypeInv, TypeOK, GateHeld, MarkHeld, InRun, LockHeld, Staging, Saved, Owned, Scanning
      <3> QED BY <3>1, QuietKeeps
    <2> QED BY <2>1, <2>2
  <1>10. CASE CheckResults(p)
    <2>1. CASE Exit(p)
      BY <1>10, <2>1, ExitKeeps DEF CheckResults
    <2>2. CASE ~Exit(p)
      <3>1. Quiet(p)
        BY <1>10, <2>2 DEF CheckResults, Quiet, GoTo, TypeInv, TypeOK, GateHeld, MarkHeld, InRun, LockHeld, Staging, Saved, Owned, Scanning
      <3> QED BY <3>1, QuietKeeps
    <2> QED BY <2>1, <2>2
  <1> QED BY <1>1, <1>2, <1>3, <1>4, <1>5, <1>6, <1>7, <1>8, <1>9, <1>10 DEF EntryStep

LEMMA RunControl ==
    ASSUME TypeInv, Control, NEW p \in Proc, RunStep(p)
    PROVE  Control'
  <1> USE DEF local, locks, disk, bounds
  <1>1. CASE NewRun(p)
    <2>1. /\ pc[p] = "new" /\ pc'[p] = "prepare" /\ nextId \in Run /\ nextId \in Nat
          /\ tgt'[p] = nextId /\ marker'[nextId] = p /\ nextId' = nextId + 1
          /\ \A q \in Proc : q # p => pc'[q] = pc[q] /\ tgt'[q] = tgt[q] /\ todo'[q] = todo[q]
      BY <1>1, BoundsAssumption DEF NewRun, GoTo, TypeInv, TypeOK, Run
    <2>2. gate = p /\ place[nextId] = "none"
      BY <2>1 DEF Control, Holds, GateOK, GateHeld, InRun, FreshOK
    <2>3. \A q \in Proc, r \in Run : q # p /\ r < nextId /\ marker[r] = q => marker'[r] = q
      BY <1>1, <2>1 DEF NewRun, TypeInv, TypeOK
    <2>4. Respects(p)
      BY <1>1, <2>1, <2>3 DEF NewRun, Respects, TypeInv, TypeOK
    <2>5. Holds(p)'
      BY <1>1, <2>1, <2>2
         DEF NewRun, Holds, GateOK, MarkOK, LockOK, PlaceOK, ScanOK, LockHeld, Staging, Saved,
             Owned, Scanning
    <2> QED BY <2>4, <2>5, OthersHold
  <1>2. CASE PrepareFail(p)
    BY <1>2, ExitKeeps DEF PrepareFail
  <1>3. CASE BeginFile(p)
    <2>1. /\ pc[p] = "prepare" /\ pc'[p] = "beginRow" /\ tgt[p] \in Run
          /\ \A q \in Proc : q # p => pc'[q] = pc[q]
      BY <1>3 DEF BeginFile, GoTo, TypeInv, TypeOK, TargetOK, Targetless
    <2>2. /\ gate = p /\ marker[tgt[p]] = p /\ tgt[p] < nextId
          /\ place[tgt[p]] = "none"
      BY <2>1 DEF Control, Holds, GateOK, MarkOK, PlaceOK, GateHeld, GateHeld, MarkHeld, InRun, LockHeld, Staging, Saved, Owned, Scanning
    <2>3. place'[tgt[p]] = "staging" /\ \A r \in Run : r # tgt[p] => place'[r] = place[r]
      BY <1>3, <2>1 DEF BeginFile, TypeInv, TypeOK
    <2>4. Respects(p)
      BY <1>3, <2>1, <2>2, <2>3 DEF BeginFile, Respects, TypeInv, TypeOK, MarkHeld, InRun
    <2>5. Holds(p)'
      BY <1>3, <2>1, <2>2, <2>3
         DEF BeginFile, Holds, GateOK, MarkOK, LockOK, PlaceOK, ScanOK, GateHeld, MarkHeld, InRun, LockHeld, Staging, Saved, Owned, Scanning
    <2> QED BY <2>4, <2>5, OthersHold
  <1>4. CASE BeginRow(p)
    <2>1. Quiet(p)
      BY <1>4 DEF BeginRow, Quiet, GoTo, TypeInv, TypeOK, GateHeld, MarkHeld, InRun, LockHeld, Staging, Saved, Owned, Scanning
    <2> QED BY <2>1, QuietKeeps
  <1>5. CASE DiscardRow(p)
    <2>1. Quiet(p)
      BY <1>5 DEF DiscardRow, Quiet, GoTo, TypeInv, TypeOK, GateHeld, MarkHeld, InRun, LockHeld, Staging, Saved, Owned, Scanning
    <2> QED BY <2>1, QuietKeeps
  <1>6. CASE DiscardFiles(p)
    <2>1. /\ pc[p] = "discard" /\ tgt[p] \in Run /\ pc'[p] \in Unheld
          /\ \A q \in Proc : q # p => pc'[q] = pc[q] /\ tgt'[q] = tgt[q] /\ todo'[q] = todo[q]
      BY <1>6 DEF DiscardFiles, Exit, GoTo, TypeInv, TypeOK, TargetOK, Targetless, Unheld
    <2>2. place[tgt[p]] = "staging" /\ pc[p] \in MarkHeld
      BY <2>1 DEF Control, Holds, PlaceOK, Staging, Owned, MarkHeld, InRun
    <2>3. \A r \in Run : r # tgt[p] => place'[r] = place[r]
      BY <1>6, <2>1 DEF DiscardFiles, TypeInv, TypeOK
    <2>4. \A q \in Proc, r \in Run : q # p =>
            (marker[r] = q => marker'[r] = q) /\ (runlock[r] = q => runlock'[r] = q)
      BY <1>6 DEF DiscardFiles, Exit, Dropped, AllDropped
    <2>5. \A q \in Proc : q # p /\ gate = q => gate' = q
      BY <1>6 DEF DiscardFiles, Exit, Dropped
    <2>6. Respects(p)
      BY <1>6, <2>1, <2>2, <2>3, <2>4, <2>5 DEF DiscardFiles, Respects, TypeInv, TypeOK
    <2> QED BY <2>1, <2>6, UnheldHolds, OthersHold
  <1>7. CASE Benchmark(p)
    <2>1. Quiet(p)
      BY <1>7 DEF Benchmark, Quiet, GoTo, TypeInv, TypeOK, GateHeld, MarkHeld, InRun, LockHeld, Staging, Saved, Owned, Scanning
    <2> QED BY <2>1, QuietKeeps
  <1>8. CASE Checkpoint(p)
    <2>1. Quiet(p)
      BY <1>8 DEF Checkpoint, Quiet, GoTo, TypeInv, TypeOK, GateHeld, MarkHeld, InRun, LockHeld, Staging, Saved, Owned, Scanning
    <2> QED BY <2>1, QuietKeeps
  <1>9. CASE Finish(p)
    <2>1. Quiet(p)
      BY <1>9 DEF Finish, Quiet, GoTo, TypeInv, TypeOK, GateHeld, MarkHeld, InRun, LockHeld, Staging, Saved, Owned, Scanning
    <2> QED BY <2>1, QuietKeeps
  <1>10. CASE FinishMove(p)
    <2>1. /\ pc[p] = "finishMove" /\ pc'[p] = "finishCommit" /\ tgt[p] \in Run
          /\ \A q \in Proc : q # p => pc'[q] = pc[q]
      BY <1>10 DEF FinishMove, GoTo, TypeInv, TypeOK, TargetOK, Targetless
    <2>2. /\ gate = p /\ marker[tgt[p]] = p /\ tgt[p] < nextId
          /\ place[tgt[p]] = "staging"
      BY <2>1 DEF Control, Holds, GateOK, MarkOK, PlaceOK, GateHeld, GateHeld, MarkHeld, InRun, LockHeld, Staging, Saved, Owned, Scanning
    <2>3. place'[tgt[p]] = "final" /\ \A r \in Run : r # tgt[p] => place'[r] = place[r]
      BY <1>10, <2>1 DEF FinishMove, TypeInv, TypeOK
    <2>4. runlock'[tgt[p]] = p /\ \A q \in Proc, r \in Run : q # p /\ runlock[r] = q => runlock'[r] = q
      BY <1>10, <2>1, NoProcAssumption DEF FinishMove, Free, TypeInv, TypeOK
    <2>5. Respects(p)
      BY <1>10, <2>1, <2>2, <2>3, <2>4 DEF FinishMove, Respects, TypeInv, TypeOK, MarkHeld, InRun
    <2>6. Holds(p)'
      BY <1>10, <2>1, <2>2, <2>3, <2>4
         DEF FinishMove, Holds, GateOK, MarkOK, LockOK, PlaceOK, ScanOK, GateHeld, MarkHeld, InRun, LockHeld, Staging, Saved, Owned, Scanning
    <2> QED BY <2>5, <2>6, OthersHold
  <1>11. CASE FinishCommit(p)
    <2>1. Quiet(p)
      BY <1>11 DEF FinishCommit, Quiet, GoTo, TypeInv, TypeOK, GateHeld, MarkHeld, InRun, LockHeld, Staging, Saved, Owned, Scanning
    <2> QED BY <2>1, QuietKeeps
  <1>12. CASE RunDone(p)
    BY <1>12, ExitKeeps DEF RunDone
  <1> QED BY <1>1, <1>2, <1>3, <1>4, <1>5, <1>6, <1>7, <1>8, <1>9, <1>10, <1>11, <1>12 DEF RunStep

LEMMA SavedControl ==
    ASSUME TypeInv, Control, NEW p \in Proc, SavedStep(p)
    PROVE  Control'
  <1> USE DEF local, locks, disk, bounds
  <1>1. CASE NoTarget(p)
    BY <1>1, ExitKeeps DEF NoTarget
  <1>2. CASE LockRun(p)
    <2>1. PICK r \in Run : /\ runlock[r] = NoProc /\ place[r] = "final"
                           /\ runlock' = [runlock EXCEPT ![r] = p]
                           /\ tgt' = [tgt EXCEPT ![p] = r]
      BY <1>2 DEF LockRun, Free, Lockable
    <2>2. /\ pc'[p] \in {"analyze", "rescore", "enrich"}
          /\ \A q \in Proc : q # p => pc'[q] = pc[q]
      BY <1>2 DEF LockRun, GoTo, TypeInv, TypeOK, TargetOK
    <2> QED BY <1>2, <2>1, <2>2, LockKeeps DEF LockRun
  <1>3. CASE AnalyzeRefuse(p)
    BY <1>3, ExitKeeps DEF AnalyzeRefuse
  <1>4. CASE AnalyzeWrite(p)
    <2>1. Quiet(p)
      BY <1>4 DEF AnalyzeWrite, Quiet, GoTo, TypeInv, TypeOK, GateHeld, MarkHeld, InRun, LockHeld, Staging, Saved, Owned, Scanning
    <2> QED BY <2>1, QuietKeeps
  <1>5. CASE AnalyzeCommit(p)
    BY <1>5, ExitKeeps DEF AnalyzeCommit
  <1>6. CASE RescoreRefuse(p)
    BY <1>6, ExitKeeps DEF RescoreRefuse
  <1>7. CASE RescoreWrite(p)
    <2>1. Quiet(p)
      BY <1>7 DEF RescoreWrite, Quiet, GoTo, TypeInv, TypeOK, GateHeld, MarkHeld, InRun, LockHeld, Staging, Saved, Owned, Scanning
    <2> QED BY <2>1, QuietKeeps
  <1>8. CASE RescoreCommit(p)
    BY <1>8, ExitKeeps DEF RescoreCommit
  <1>9. CASE EnrichSnapshot(p)
    <2>1. Quiet(p)
      BY <1>9 DEF EnrichSnapshot, Quiet, GoTo, TypeInv, TypeOK, GateHeld, MarkHeld, InRun, LockHeld, Staging, Saved, Owned, Scanning
    <2> QED BY <2>1, QuietKeeps
  <1>10. CASE EnrichWrite(p)
    <2>1. Quiet(p)
      BY <1>10 DEF EnrichWrite, Quiet, GoTo, TypeInv, TypeOK, GateHeld, MarkHeld, InRun, LockHeld, Staging, Saved, Owned, Scanning
    <2> QED BY <2>1, QuietKeeps
  <1>11. CASE EnrichCommit(p)
    <2>1. Quiet(p)
      BY <1>11 DEF EnrichCommit, Quiet, GoTo, TypeInv, TypeOK, GateHeld, MarkHeld, InRun, LockHeld, Staging, Saved, Owned, Scanning
    <2> QED BY <2>1, QuietKeeps
  <1>12. CASE EnrichPrune(p)
    BY <1>12, ExitKeeps DEF EnrichPrune
  <1> QED BY <1>1, <1>2, <1>3, <1>4, <1>5, <1>6, <1>7, <1>8, <1>9, <1>10, <1>11, <1>12 DEF SavedStep

LEMMA OtherControl ==
    ASSUME TypeInv, Control, NEW p \in Proc,
           \/ \E c \in Commands : Start(p, c)
           \/ Reap(p)
           \/ Crash(p)
    PROVE  Control'
  <1> USE DEF local, locks, disk, bounds
  <1>1. CASE \E c \in Commands : Start(p, c)
    <2>1. /\ pc'[p] = "open" /\ todo'[p] = Finalized
          /\ \A q \in Proc : q # p => pc'[q] = pc[q] /\ todo'[q] = todo[q]
      BY <1>1 DEF Start, GoTo, TypeInv, TypeOK
    <2>2. UNCHANGED <<tgt, gate, marker, runlock, place, nextId>>
      BY <1>1 DEF Start
    <2>3. Respects(p)
      BY <2>1, <2>2 DEF Respects, TypeInv, TypeOK
    <2>4. Holds(p)'
      BY <2>1, <2>2 DEF Finalized, Holds, GateOK, MarkOK, LockOK, PlaceOK, ScanOK, GateHeld, GateHeld, MarkHeld, InRun, LockHeld, Staging, Saved, Owned, Scanning
    <2> QED BY <2>3, <2>4, OthersHold
  <1>2. CASE Reap(p)
    BY <1>2, ExitKeeps DEF Reap
  <1>3. CASE Crash(p)
    <2>1. /\ pc'[p] \in Unheld
          /\ \A q \in Proc : q # p => pc'[q] = pc[q] /\ tgt'[q] = tgt[q] /\ todo'[q] = todo[q]
      BY <1>3 DEF Crash, TypeInv, TypeOK, Unheld
    <2>2. \A q \in Proc, r \in Run : q # p /\ runlock[r] = q => runlock'[r] = q
      BY <1>3 DEF Crash, Dropped, AllDropped
    <2>3. \A q \in Proc : q # p /\ gate = q => gate' = q
      BY <1>3 DEF Crash, Dropped
    <2>4. Respects(p)
      BY <1>3, <2>1, <2>2, <2>3 DEF Crash, Respects, TypeInv, TypeOK
    <2> QED BY <2>1, <2>4, UnheldHolds, OthersHold
  <1> QED BY <1>1, <1>2, <1>3

LEMMA ControlInductive == TypeInv /\ Control /\ [Next]_vars => Control'
  <1> SUFFICES ASSUME TypeInv, Control, [Next]_vars PROVE Control'
    OBVIOUS
  <1>1. CASE UNCHANGED vars
    BY <1>1 DEF vars, local, locks, disk, bounds, Control, FreshOK, Holds, GateOK, MarkOK,
                LockOK, PlaceOK, ScanOK
  <1>2. CASE Next
    BY <1>2, OpenControl, EntryControl, RunControl, SavedControl, OtherControl DEF Next, Step
  <1> QED BY <1>1, <1>2

LEMMA ControlInvariant == Spec => [](TypeInv /\ Control)
  <1>1. Init => Control
    BY DEF Init, Control, FreshOK, Holds, GateOK, MarkOK, LockOK, PlaceOK, ScanOK, GateHeld, GateHeld, MarkHeld, InRun, LockHeld, Staging, Saved, Owned, Scanning
  <1> QED BY <1>1, ControlInductive, TypeInvariant, PTL DEF Spec

\* At most one process is past the checks of runner::execute: the gate is
\* taken before them and released after the run, by whatever way it ends.
THEOREM AtMostOneBenchmark == Spec => []OneBenchmark
  <1>1. Control => OneBenchmark
    BY DEF Control, Holds, GateOK, OneBenchmark, GateHeld
  <1> QED BY <1>1, ControlInvariant, PTL


-----------------------------------------------------------------------------
(* The invariant: what holds of each run on disk, what each process may    *)
(* rely on about the manifest it has in memory, and what the gate means.   *)

\* Of a run that is not saved yet, and of a saved one.
Plain(m)  == m.analyses = {} /\ m.snap = 0
Closed(m) == m.ver > 0 /\ m.state # "running" /\ (m.state = "aborted" <=> m.interrupted)

\* run.json, by where its directory is.
JsonOK(r) ==
    /\ \A n \in json[r].analyses : n < json[r].ver
    /\ place[r] = "none" => json[r] = Blank
    /\ place[r] = "staging" => Plain(json[r]) /\ json[r].ver > 0
    /\ place[r] = "final" => Closed(json[r])
    /\ place[r] = "final" /\ json[r].state # "aborted" => json[r].snap \in snaps[r]

\* The row is never ahead of run.json; a saved run whose row was never settled
\* is half finished or was recovered.
RowOK(r) ==
    /\ row[r].analyses \subseteq json[r].analyses
    /\ row[r].stamp <= json[r].ver
    /\ row[r].copies <= 1
    /\ ~Indexed(r) \/ place[r] = "none" => row[r] = NoRow
    /\ place[r] # "final" => /\ row[r].stamp = 0 /\ row[r].copies = 0
                             /\ row[r].state \in {"none", "running"}
    /\ place[r] = "final" /\ row[r].stamp = 0
          => row[r].state \in {"none", "running"} \/ json[r].state = "aborted"

RunOK(r) == JsonOK(r) /\ RowOK(r)

\* The steps whose manifest in memory is the one on disk, and the steps whose
\* run has a row.
Loaded == {"patch", "rebuild", "beginRow", "benchmark", "recoverMove", "finishMove",
           "finishCommit", "analyze", "analyzeCommit", "rescore", "rescoreCommit",
           "enrich", "enrichCommit", "enrichPrune"}
HasRow == {"patch", "recoverUpdate", "analyze", "analyzeCommit", "rescore", "rescoreCommit",
           "enrich", "enrichWrite", "enrichCommit"}

LoadedOK(p) == pc[p] \in Loaded => mine[p] = json[tgt[p]]

\* Before the run is saved: the first form, the measured form, the last form.
DraftOK(p) ==
    /\ pc[p] = "beginRow" => mine[p].state = "running"
    /\ pc[p] \in {"checkpoint", "finish"} => Plain(mine[p]) /\ mine[p].ver = json[tgt[p]].ver
    /\ pc[p] \in {"finishMove", "recoverMove"} => Closed(mine[p])

AbortOK(p) ==
    /\ pc[p] \in {"recoverMove", "recoverInsert", "recoverUpdate"} => mine[p].state = "aborted"
    /\ pc[p] \in {"patch", "recoverMove", "recoverInsert", "recoverUpdate"}
          => json[tgt[p]].state = "aborted"

RowKnown(p) ==
    /\ pc[p] \in HasRow => Indexed(tgt[p])
    /\ pc[p] = "discard" => row[tgt[p]] = NoRow
    /\ pc[p] = "finishCommit" => row[tgt[p]].copies = 0

\* enrich has written the snapshot that the run.json it is about to write names.
EnrichOK(p) ==
    pc[p] = "enrichWrite" =>
        /\ mine[p].ver = json[tgt[p]].ver + 1
        /\ mine[p].snap \in snaps[tgt[p]]
        /\ mine[p].analyses = json[tgt[p]].analyses
        /\ mine[p].passed = json[tgt[p]].passed
        /\ mine[p].pending = json[tgt[p]].pending
        /\ mine[p].interrupted = json[tgt[p]].interrupted
        /\ Closed(mine[p])

MineOK(p) == LoadedOK(p) /\ DraftOK(p) /\ AbortOK(p) /\ RowKnown(p) /\ EnrichOK(p)

\* recover_incomplete leaves no unsaved run behind, unless it met a live one.
Recovering == {"recover", "recoverMove", "recoverInsert", "recoverUpdate"}
Cleared    == {"checkAnalyses", "checkResults", "new", "prepare"}
StagedOK(p) ==
    /\ pc[p] \in Recovering => \A r \in Staged : r \in todo[p] \/ found[p]
    /\ pc[p] \in Cleared => Staged = {}

Data == /\ \A r \in Run : RunOK(r)
        /\ \A p \in Proc : MineOK(p) /\ StagedOK(p)

DInv == TypeInv /\ Control /\ Data

-----------------------------------------------------------------------------
(* What one step may do to what the others rely on.                        *)

Same(r) == place'[r] = place[r] /\ json'[r] = json[r] /\ snaps'[r] = snaps[r] /\ row'[r] = row[r]

\* It changes the directory and the row of a run that is not saved while it
\* holds the gate, of a saved run while it holds the run's lock; recovery
\* also edits the row of the run it has saved.
Alone(p) ==
    \A q \in Proc : q # p => /\ pc'[q] = pc[q] /\ tgt'[q] = tgt[q] /\ mine'[q] = mine[q]
                             /\ todo'[q] = todo[q] /\ found'[q] = found[q]
Frame(p) ==
    /\ Alone(p)
    /\ \A r \in Run :
          \/ Same(r)
          \/ gate = p /\ place[r] # "final"
          \/ /\ runlock[r] = p /\ place[r] = "final" /\ place'[r] = "final"
             /\ Indexed(r) => row'[r].state # "none"
             /\ json[r].state = "aborted" => json'[r].state = "aborted"
          \/ /\ gate = p /\ place'[r] = place[r] /\ json'[r] = json[r] /\ snaps'[r] = snaps[r]
             /\ Indexed(r) => row'[r].state # "none"

LEMMA OthersData ==
    ASSUME DInv, NEW p \in Proc, Frame(p), MineOK(p)', StagedOK(p)',
           \A r \in Run : Same(r) \/ RunOK(r)'
    PROVE  Data'
  <1>1. \A r \in Run : RunOK(r)'
    BY DEF DInv, Data, RunOK, JsonOK, RowOK, Same, Indexed
  <1>2. ASSUME NEW q \in Proc, q # p PROVE MineOK(q)' /\ StagedOK(q)'
    <2> DEFINE t == tgt[q]
    <2>1. /\ pc'[q] = pc[q] /\ tgt'[q] = tgt[q] /\ mine'[q] = mine[q]
          /\ todo'[q] = todo[q] /\ found'[q] = found[q]
      BY <1>2 DEF Frame, Alone
    <2>2. MineOK(q) /\ StagedOK(q) /\ Holds(q)
      BY DEF DInv, Data, Control
    <2>3. pc[q] \in Loaded \cup HasRow \cup {"discard", "checkpoint", "finish", "recoverInsert"}
            => t \in Run
      BY DEF DInv, TypeInv, TargetOK, Targetless, Loaded, HasRow
    <2>4. ASSUME pc[q] \in GateHeld PROVE gate # p
      BY <1>2, <2>2, <2>4 DEF Holds, GateOK
    <2>5. ASSUME pc[q] \in Staging \cup {"finishCommit"} PROVE Same(t)
      <3>1. gate # p /\ t \in Run
        BY <2>3, <2>4, <2>5 DEF Staging, Owned, GateHeld, InRun, Loaded
      <3>2. place[t] = "staging" \/ runlock[t] = q
        BY <2>2, <2>5 DEF Holds, PlaceOK, LockOK, LockHeld
      <3> QED BY <1>2, <3>1, <3>2 DEF Frame
    <2>6. ASSUME pc[q] \in LockHeld
          PROVE  /\ json'[t] = json[t] /\ snaps'[t] = snaps[t]
                 /\ Indexed(t) => row'[t].state # "none"
      <3>1. runlock[t] = q /\ place[t] = "final" /\ t \in Run
        BY <2>2, <2>6 DEF Holds, LockOK, PlaceOK, Saved, LockHeld, DInv, TypeInv, TargetOK, Targetless
      <3> QED BY <1>2, <3>1 DEF Frame, Same, Indexed
    <2>7. ASSUME pc[q] \in {"recoverInsert", "recoverUpdate"}
          PROVE  /\ Indexed(t) => row'[t].state # "none"
                 /\ json[t].state = "aborted" => json'[t].state = "aborted"
      <3>1. gate # p /\ t \in Run /\ place[t] = "final"
        BY <2>2, <2>3, <2>4, <2>7 DEF GateHeld, HasRow, Holds, PlaceOK, Saved
      <3> QED BY <3>1 DEF Frame, Same, Indexed
    <2>8. LoadedOK(q)'
      <3>1. pc[q] \in Loaded => pc[q] \in Staging \cup {"finishCommit"} \cup LockHeld
        BY DEF Loaded, Staging, Owned, LockHeld
      <3>2. pc[q] \in Loaded => json'[t] = json[t]
        BY <2>5, <2>6, <3>1 DEF Same
      <3> QED BY <2>1, <2>2, <3>2 DEF MineOK, LoadedOK
    <2>9. DraftOK(q)'
      <3>1. pc[q] \in {"checkpoint", "finish"} => json'[t] = json[t]
        BY <2>5 DEF Staging, Owned, Same
      <3> QED BY <2>1, <2>2, <3>1 DEF MineOK, DraftOK
    <2>10. AbortOK(q)'
      <3>1. pc[q] \in {"patch", "recoverMove"} => json'[t] = json[t]
        BY <2>5, <2>6 DEF Staging, LockHeld, Same
      <3> QED BY <2>1, <2>2, <2>7, <3>1 DEF MineOK, AbortOK
    <2>11. RowKnown(q)'
      <3>1. pc[q] \in HasRow => (Indexed(t) => row'[t].state # "none")
        BY <2>6, <2>7 DEF HasRow, LockHeld
      <3>2. pc[q] \in {"discard", "finishCommit"} => row'[t] = row[t]
        BY <2>5 DEF Staging, Owned, Same
      <3> QED BY <2>1, <2>2, <3>1, <3>2 DEF MineOK, RowKnown, Indexed
    <2>12. EnrichOK(q)'
      <3>1. pc[q] = "enrichWrite" => json'[t] = json[t] /\ snaps'[t] = snaps[t]
        BY <2>6 DEF LockHeld
      <3> QED BY <2>1, <2>2, <3>1 DEF MineOK, EnrichOK
    <2>13. StagedOK(q)'
      <3>1. ASSUME pc[q] \in Recovering \cup Cleared, NEW r \in Run, place'[r] = "staging"
            PROVE  place[r] = "staging"
        <4>1. gate # p
          BY <2>4, <3>1 DEF Recovering, Cleared, GateHeld, InRun
        <4> QED BY <3>1, <4>1 DEF Frame, Same
      <3> QED BY <2>1, <2>2, <3>1 DEF StagedOK, Staged
    <2> QED BY <2>8, <2>9, <2>10, <2>11, <2>12, <2>13 DEF MineOK
  <1> QED BY <1>1, <1>2 DEF Data

-----------------------------------------------------------------------------
(* The writes of a manifest.                                               *)

LEMMA Edits ==
    ASSUME NEW m \in Manifest
    PROVE  /\ Written(m).ver = m.ver + 1
           /\ \A w \in {Written(m), Settle(m)} :
                 /\ w.passed = m.passed /\ w.pending = m.pending
                 /\ w.interrupted = m.interrupted /\ w.analysis = m.analysis
                 /\ w.analyses = m.analyses /\ w.snap = m.snap
           /\ Written(m).state = m.state /\ Settle(m).ver = m.ver
           /\ Settle(m).state # "running" /\ (Settle(m).state = "aborted" <=> m.interrupted)
           /\ AsAborted(m).state = "aborted" /\ AsAborted(m).interrupted
           /\ AsAborted(m).analyses = m.analyses /\ AsAborted(m).snap = m.snap
           /\ AsAborted(m).ver = m.ver
  <1>1. Settle(m).state = SettledState(m)
    BY DEF Settle, Manifest
  <1>2. SettledState(m) # "running" /\ (SettledState(m) = "aborted" <=> m.interrupted)
    BY DEF SettledState, Manifest
  <1> QED BY <1>1, <1>2 DEF Written, Settle, AsAborted, Manifest

-----------------------------------------------------------------------------
(* Each action keeps the invariant.                                        *)

\* The steps that rely on nothing on disk.
Careless == {"idle", "dying", "open", "openLock", "restore", "dispatch", "gate", "lockRun",
             "runDone"}

LEMMA CarelessOK ==
    \A p \in Proc : pc'[p] \in Careless => MineOK(p)' /\ StagedOK(p)'
  BY DEF Careless, MineOK, StagedOK, LoadedOK, DraftOK, AbortOK, RowKnown, EnrichOK, Loaded,
         HasRow, Recovering, Cleared

LEMMA StillData ==
    ASSUME DInv, NEW p \in Proc, Alone(p), UNCHANGED <<place, json, snaps, row>>,
           MineOK(p)', StagedOK(p)'
    PROVE  Data'
  <1>1. \A r \in Run : Same(r)
    BY DEF Same
  <1> QED BY <1>1, OthersData DEF Frame

LEMMA ExitAlone ==
    ASSUME TypeInv, NEW p \in Proc, Exit(p)
    PROVE  Alone(p) /\ pc'[p] \in Careless
  BY DEF Exit, GoTo, Alone, Careless, TypeInv, TypeOK

LEMMA ExitData ==
    ASSUME DInv, NEW p \in Proc, Exit(p), UNCHANGED <<place, json, snaps, row>>
    PROVE  Data'
  BY ExitAlone, CarelessOK, StillData DEF DInv

LEMMA ScanNextAlone ==
    ASSUME TypeInv, NEW p \in Proc, ScanNext(p), UNCHANGED found
    PROVE  Alone(p) /\ pc'[p] \in Careless
  BY DEF ScanNext, GoTo, Alone, Careless, TypeInv, TypeOK

\* The holder of the lock of a saved run edits its row.
LEMMA SavedRowData ==
    ASSUME DInv, NEW p \in Proc, NEW w, Alone(p), UNCHANGED <<place, json, snaps>>,
           pc[p] \in LockHeld, row' = [row EXCEPT ![tgt[p]] = w],
           /\ w.analyses \subseteq json[tgt[p]].analyses
           /\ w.stamp = json[tgt[p]].ver
           /\ w.copies <= 1
           /\ w.state # "none",
           MineOK(p)', StagedOK(p)'
    PROVE  Data'
  <1>1. PICK r \in Run : r = tgt[p]
    BY DEF DInv, TypeInv, TargetOK, Targetless, LockHeld
  <1>2. runlock[r] = p /\ place[r] = "final"
    BY <1>1 DEF DInv, Control, Holds, LockOK, PlaceOK, Saved
  <1>3. row'[r] = w /\ \A s \in Run : s # r => row'[s] = row[s]
    BY <1>1 DEF DInv, TypeInv, TypeOK
  <1>4. Frame(p)
    BY <1>1, <1>2, <1>3 DEF Frame, Same
  <1>5. json[r] \in Manifest /\ json[r].ver \in Nat
    BY ManifestFields DEF DInv, TypeInv, TypeOK
  <1>6. JsonOK(r) /\ Closed(json[r])
    BY <1>2 DEF DInv, Data, RunOK, JsonOK
  <1>7. JsonOK(r)'
    BY <1>6 DEF JsonOK
  <1>8. RowOK(r)'
    BY <1>1, <1>2, <1>3, <1>5, <1>6 DEF RowOK, Closed, Indexed
  <1> QED BY <1>3, <1>4, <1>7, <1>8, OthersData DEF RunOK, Same

LEMMA OpenData ==
    ASSUME DInv, NEW p \in Proc, OpenStep(p)
    PROVE  Data'
  <1> USE DEF local, locks, disk, bounds
  <1>0. TypeInv
    BY DEF DInv
  <1>1. CASE OpenSkip(p) \/ OpenStale(p) \/ OpenLock(p) \/ OpenDone(p)
    <2>1. Alone(p) /\ pc'[p] \in Careless /\ UNCHANGED <<place, json, snaps, row>>
      BY <1>0, <1>1 DEF OpenSkip, OpenStale, OpenLock, OpenDone, GoTo, Alone, Careless, TypeInv, TypeOK
    <2> QED BY <2>1, CarelessOK, StillData
  <1>2. CASE RestoreSkip(p)
    BY <1>0, <1>2, ScanNextAlone, CarelessOK, StillData DEF RestoreSkip
  <1>3. CASE RestoreRead(p)
    <2> DEFINE t == tgt[p]
    <2>1. /\ t \in Run /\ place[t] = "final"
      BY <1>3 DEF RestoreRead, DInv, TypeInv, TargetOK, Targetless, Control, Holds, PlaceOK,
                  LockHeld, Saved
    <2>2. /\ Alone(p) /\ tgt'[p] = t /\ mine'[p] = json[t]
          /\ pc'[p] = IF OnlyAnalyses(t) THEN "patch" ELSE "rebuild"
          /\ UNCHANGED <<place, json, snaps, row>>
      BY <1>0, <1>3 DEF RestoreRead, GoTo, Alone, TypeInv, TypeOK
    <2>3. OnlyAnalyses(t) => Indexed(t) /\ json[t].state = "aborted"
      BY <2>1 DEF OnlyAnalyses, Indexed, DInv, Data, RunOK, JsonOK, RowOK, Closed
    <2>4. MineOK(p)' /\ StagedOK(p)'
      BY <2>2, <2>3 DEF MineOK, StagedOK, LoadedOK, DraftOK, AbortOK, RowKnown, EnrichOK, Loaded,
                        HasRow, Recovering, Cleared, Indexed
    <2> QED BY <2>2, <2>4, StillData
  <1>4. CASE RestorePatch(p)
    <2> DEFINE t == tgt[p]
               w == [row[t] EXCEPT !.analyses = row[t].analyses \cup mine[p].analyses,
                                   !.analysis = mine[p].analysis, !.stamp = mine[p].ver]
    <2>1. t \in Run /\ row[t] \in Row
      BY <1>0, <1>4 DEF RestorePatch, TypeInv, TypeOK, TargetOK, Targetless
    <2>2. mine[p] = json[t] /\ RowOK(t) /\ Indexed(t)
      BY <1>4, <2>1 DEF RestorePatch, DInv, Data, MineOK, LoadedOK, Loaded, RowKnown, HasRow, RunOK
    <2>3. /\ w.analyses = row[t].analyses \cup mine[p].analyses
          /\ w.stamp = mine[p].ver /\ w.copies = row[t].copies /\ w.state = row[t].state
      BY <2>1 DEF Row
    <2>4. /\ w.analyses \subseteq json[t].analyses /\ w.stamp = json[t].ver /\ w.copies <= 1
          /\ w.state # "none"
      BY <2>2, <2>3 DEF RowOK, Indexed
    <2>5. row' = [row EXCEPT ![t] = w] /\ pc[p] \in LockHeld /\ UNCHANGED <<place, json, snaps>>
      BY <1>4 DEF RestorePatch, LockHeld
    <2>6. Alone(p) /\ pc'[p] \in Careless
      BY <1>0, <1>4, ScanNextAlone DEF RestorePatch
    <2> HIDE DEF w
    <2> QED BY <2>4, <2>5, <2>6, CarelessOK, SavedRowData
  <1>5. CASE RestoreRebuild(p)
    <2> DEFINE t == tgt[p]
               w == [RowOf(mine[p]) EXCEPT
                       !.snap = IF mine[p].snap \in snaps[t] THEN mine[p].snap ELSE 0,
                       !.stamp = json[t].ver]
    <2>1. t \in Run /\ mine[p] \in Manifest
      BY <1>0, <1>5 DEF RestoreRebuild, TypeInv, TypeOK, TargetOK, Targetless
    <2>2. mine[p] = json[t]
      BY <1>5, <2>1 DEF RestoreRebuild, DInv, Data, MineOK, LoadedOK, Loaded
    <2>3. /\ w.analyses = mine[p].analyses
          /\ w.stamp = json[t].ver /\ w.copies = 1 /\ w.state = mine[p].state
      BY DEF RowOf
    <2>4. mine[p].state # "none"
      BY <2>1, ManifestFields DEF State
    <2>5. /\ w.analyses \subseteq json[t].analyses /\ w.stamp = json[t].ver /\ w.copies <= 1
          /\ w.state # "none"
      BY <2>2, <2>3, <2>4
    <2>6. row' = [row EXCEPT ![t] = w] /\ pc[p] \in LockHeld /\ UNCHANGED <<place, json, snaps>>
      BY <1>5 DEF RestoreRebuild, LockHeld
    <2>7. Alone(p) /\ pc'[p] \in Careless
      BY <1>0, <1>5, ScanNextAlone DEF RestoreRebuild
    <2> HIDE DEF w
    <2> QED BY <2>5, <2>6, <2>7, CarelessOK, SavedRowData
  <1>6. CASE Dispatch(p)
    <2>1. CASE Exit(p)
      BY <1>6, <2>1, ExitData DEF Dispatch
    <2>2. CASE ~Exit(p)
      <3>1. Alone(p) /\ pc'[p] \in Careless /\ UNCHANGED <<place, json, snaps, row>>
        BY <1>0, <1>6, <2>2 DEF Dispatch, GoTo, Alone, Careless, TypeInv, TypeOK
      <3> QED BY <3>1, CarelessOK, StillData
    <2> QED BY <2>1, <2>2
  <1> QED BY <1>1, <1>2, <1>3, <1>4, <1>5, <1>6 DEF OpenStep

LEMMA EntryData ==
    ASSUME DInv, NEW p \in Proc, EntryStep(p)
    PROVE  Data'
  <1> USE DEF local, locks, disk, bounds
  <1>0. TypeInv
    BY DEF DInv
  <1>1. CASE GateTake(p)
    <2>1. /\ Alone(p) /\ pc'[p] = "recover" /\ todo'[p] = Staged
          /\ UNCHANGED <<place, json, snaps, row>>
      BY <1>0, <1>1 DEF GateTake, GoTo, Alone, TypeInv, TypeOK
    <2>2. MineOK(p)'
      BY <2>1 DEF MineOK, LoadedOK, DraftOK, AbortOK, RowKnown, EnrichOK, Loaded, HasRow
    <2>3. StagedOK(p)'
      BY <2>1 DEF StagedOK, Staged, Cleared
    <2> QED BY <2>1, <2>2, <2>3, StillData
  <1>2. CASE GateBusy(p)
    BY <1>2, ExitData DEF GateBusy
  <1>3. CASE RecoverPass(p)
    <2>1. PICK r \in todo[p] : /\ ~(Free(marker[r]) /\ place[r] = "staging")
                               /\ todo' = [todo EXCEPT ![p] = @ \ {r}]
                               /\ found' = [found EXCEPT ![p] = @ \/ ~Free(marker[r])]
      BY <1>3 DEF RecoverPass
    <2>2. /\ Alone(p) /\ pc[p] = "recover" /\ pc'[p] = "recover" /\ todo'[p] = todo[p] \ {r}
          /\ UNCHANGED <<place, json, snaps, row>>
      BY <1>0, <1>3, <2>1 DEF RecoverPass, Alone, TypeInv, TypeOK
    <2>3. found'[p] <=> (found[p] \/ ~Free(marker[r]))
      BY <1>0, <2>1, Zenon DEF TypeInv, TypeOK
    <2>4. MineOK(p)'
      BY <2>2 DEF MineOK, LoadedOK, DraftOK, AbortOK, RowKnown, EnrichOK, Loaded, HasRow
    <2>5. StagedOK(p)'
      <3>1. \A s \in Staged : s \in todo[p] \/ found[p]
        BY <2>2 DEF DInv, Data, StagedOK, Recovering
      <3>2. \A s \in Staged' : s \in Staged /\ (s = r => ~Free(marker[r]))
        BY <2>1, <2>2 DEF Staged
      <3>3. \A s \in Staged' : s \in todo'[p] \/ found'[p]
        BY <2>2, <2>3, <3>1, <3>2
      <3> QED BY <2>2, <3>3 DEF StagedOK, Cleared
    <2> QED BY <2>2, <2>4, <2>5, StillData
  <1>4. CASE RecoverWrite(p)
    <2>1. PICK r \in todo[p] : /\ place[r] = "staging"
                               /\ json' = [json EXCEPT ![r] = Written(AsAborted(json[r]))]
                               /\ mine' = [mine EXCEPT ![p] = Written(AsAborted(json[r]))]
                               /\ tgt' = [tgt EXCEPT ![p] = r]
      BY <1>4 DEF RecoverWrite
    <2> DEFINE w == Written(AsAborted(json[r]))
    <2>2. r \in Run /\ json[r] \in Manifest /\ json[r].ver \in Nat
      BY <1>0, <2>1, ManifestFields DEF TypeInv, TypeOK
    <2>3. /\ w.state = "aborted" /\ w.interrupted /\ w.ver = json[r].ver + 1
          /\ w.analyses = json[r].analyses /\ w.snap = json[r].snap
      <3>1. AsAborted(json[r]) \in Manifest
        BY <2>2, ManifestTyped
      <3> QED BY <2>2, <3>1, Edits
    <2> HIDE DEF w
    <2>4. /\ Alone(p) /\ pc[p] = "recover" /\ pc'[p] = "recoverMove" /\ tgt'[p] = r
          /\ mine'[p] = w /\ json'[r] = w /\ UNCHANGED <<place, snaps, row, todo, found>>
          /\ \A s \in Run : s # r => json'[s] = json[s]
      BY <1>0, <1>4, <2>1, <2>2 DEF RecoverWrite, GoTo, Alone, TypeInv, TypeOK, w
    <2>5. Frame(p)
      <3>1. gate = p
        BY <2>4 DEF DInv, Control, Holds, GateOK, GateHeld
      <3> QED BY <2>1, <2>4, <3>1 DEF Frame, Same
    <2>6. RunOK(r) /\ Plain(json[r]) /\ row[r].stamp = 0
      BY <2>1, <2>2 DEF DInv, Data, RunOK, JsonOK, RowOK
    <2>7. JsonOK(r)'
      BY <2>1, <2>2, <2>3, <2>4, <2>6 DEF JsonOK, Plain
    <2>8. RowOK(r)'
      BY <2>1, <2>2, <2>3, <2>4, <2>6 DEF RunOK, RowOK, Indexed
    <2>9. MineOK(p)'
      BY <2>2, <2>3, <2>4 DEF MineOK, LoadedOK, DraftOK, AbortOK, RowKnown, EnrichOK, HasRow, Closed
    <2>10. StagedOK(p)'
      BY <2>4 DEF DInv, Data, StagedOK, Staged, Recovering, Cleared
    <2> QED BY <2>4, <2>5, <2>7, <2>8, <2>9, <2>10, OthersData DEF RunOK, Same
  <1>5. CASE RecoverMove(p)
    <2>1. PICK r \in Run : r = tgt[p]
      BY <1>0, <1>5 DEF RecoverMove, TypeInv, TargetOK, Targetless
    <2>2. /\ Alone(p) /\ pc[p] = "recoverMove" /\ pc'[p] = "recoverInsert" /\ tgt'[p] = r
          /\ UNCHANGED <<mine, json, snaps, row, todo, found>>
          /\ place'[r] = "final" /\ \A s \in Run : s # r => place'[s] = place[s]
      BY <1>0, <1>5, <2>1 DEF RecoverMove, GoTo, Alone, TypeInv, TypeOK
    <2>3. gate = p /\ place[r] = "staging"
      BY <2>1, <2>2 DEF DInv, Control, Holds, GateOK, GateHeld, PlaceOK, Staging
    <2>4. /\ mine[p] = json[r] /\ Closed(json[r]) /\ json[r].state = "aborted"
          /\ RunOK(r) /\ StagedOK(p) /\ mine[p].state = "aborted"
      BY <2>1, <2>2 DEF DInv, Data, MineOK, LoadedOK, Loaded, DraftOK, AbortOK
    <2>5. Frame(p)
      BY <2>2, <2>3 DEF Frame, Same
    <2>6. RunOK(r)'
      BY <2>2, <2>3, <2>4 DEF RunOK, JsonOK, RowOK, Indexed
    <2>7. MineOK(p)'
      BY <2>2, <2>4 DEF MineOK, LoadedOK, Loaded, DraftOK, AbortOK, RowKnown, EnrichOK, HasRow
    <2>8. StagedOK(p)'
      BY <2>2, <2>4 DEF StagedOK, Staged, Recovering, Cleared
    <2> QED BY <2>2, <2>5, <2>6, <2>7, <2>8, OthersData DEF Same
  <1>6. CASE RecoverInsert(p)
    <2>1. PICK r \in Run : r = tgt[p]
      BY <1>0, <1>6 DEF RecoverInsert, TypeInv, TargetOK, Targetless
    <2> DEFINE w == IF Indexed(r) THEN row[r]
                    ELSE [NoRow EXCEPT !.state = mine[p].state, !.analysis = mine[p].analysis]
    <2>2. /\ Alone(p) /\ pc[p] = "recoverInsert" /\ pc'[p] = "recoverUpdate" /\ tgt'[p] = r
          /\ UNCHANGED <<mine, place, json, snaps, todo, found>>
          /\ row'[r] = w /\ \A s \in Run : s # r => row'[s] = row[s]
      BY <1>0, <1>6, <2>1 DEF RecoverInsert, GoTo, Alone, TypeInv, TypeOK
    <2>3. gate = p /\ place[r] = "final"
      BY <2>1, <2>2 DEF DInv, Control, Holds, GateOK, GateHeld, PlaceOK, Saved
    <2>4. /\ mine[p].state = "aborted" /\ json[r].state = "aborted" /\ RunOK(r) /\ StagedOK(p)
          /\ json[r].ver \in Nat
      BY <1>0, <2>1, <2>2, ManifestFields DEF DInv, Data, MineOK, AbortOK, TypeInv, TypeOK
    <2>5. /\ w.state # "none"
          /\ \/ w = row[r]
             \/ w.analyses = {} /\ w.stamp = 0 /\ w.copies = 0
      BY <2>4 DEF Indexed, NoRow
    <2> HIDE DEF w
    <2>6. Frame(p)
      BY <2>2, <2>3, <2>5 DEF Frame, Same
    <2>7. RunOK(r)'
      <3>1. JsonOK(r)'
        BY <2>2, <2>4 DEF RunOK, JsonOK
      <3>2. RowOK(r)'
        BY <2>2, <2>3, <2>4, <2>5 DEF RunOK, RowOK, Indexed
      <3> QED BY <3>1, <3>2 DEF RunOK
    <2>8. MineOK(p)'
      BY <2>2, <2>4, <2>5 DEF MineOK, LoadedOK, Loaded, DraftOK, AbortOK, RowKnown, EnrichOK, HasRow, Indexed
    <2>9. StagedOK(p)'
      BY <2>2, <2>4 DEF StagedOK, Staged, Recovering, Cleared
    <2> QED BY <2>2, <2>6, <2>7, <2>8, <2>9, OthersData DEF Same
  <1>7. CASE RecoverUpdate(p)
    <2>1. PICK r \in Run : r = tgt[p]
      BY <1>0, <1>7 DEF RecoverUpdate, TypeInv, TargetOK, Targetless
    <2> DEFINE w == [row[r] EXCEPT !.state = mine[p].state, !.passed = "no",
                                   !.analysis = mine[p].analysis]
    <2>2. /\ Alone(p) /\ pc[p] = "recoverUpdate" /\ pc'[p] = "recover"
          /\ UNCHANGED <<place, json, snaps, found>> /\ todo'[p] = todo[p] \ {r}
          /\ row'[r] = w /\ \A s \in Run : s # r => row'[s] = row[s]
      BY <1>0, <1>7, <2>1 DEF RecoverUpdate, GoTo, Alone, TypeInv, TypeOK
    <2>3. gate = p /\ place[r] = "final"
      BY <2>1, <2>2 DEF DInv, Control, Holds, GateOK, GateHeld, PlaceOK, Saved
    <2>4. /\ mine[p].state = "aborted" /\ json[r].state = "aborted" /\ RunOK(r) /\ StagedOK(p)
          /\ json[r].ver \in Nat /\ row[r] \in Row
      BY <1>0, <2>1, <2>2, ManifestFields DEF DInv, Data, MineOK, AbortOK, TypeInv, TypeOK
    <2>5. /\ w.state = "aborted" /\ w.analyses = row[r].analyses /\ w.stamp = row[r].stamp
          /\ w.copies = row[r].copies
      BY <2>4 DEF Row
    <2> HIDE DEF w
    <2>6. Frame(p)
      BY <2>2, <2>3, <2>5 DEF Frame, Same
    <2>7. RunOK(r)'
      <3>1. JsonOK(r)'
        BY <2>2, <2>4 DEF RunOK, JsonOK
      <3>2. RowOK(r)'
        BY <2>2, <2>3, <2>4, <2>5 DEF RunOK, RowOK, Indexed
      <3> QED BY <3>1, <3>2 DEF RunOK
    <2>8. MineOK(p)'
      BY <2>2 DEF MineOK, LoadedOK, Loaded, DraftOK, AbortOK, RowKnown, EnrichOK, HasRow
    <2>9. StagedOK(p)'
      <3>1. \A s \in Staged : (s \in todo[p] \/ found[p]) /\ s # r
        BY <2>2, <2>3, <2>4 DEF StagedOK, Staged, Recovering
      <3>2. Staged' = Staged /\ found' = found
        BY <2>2 DEF Staged
      <3>3. \A s \in Staged' : s \in todo'[p] \/ found'[p]
        BY <2>2, <3>1, <3>2
      <3> QED BY <2>2, <3>3 DEF StagedOK, Cleared
    <2> QED BY <2>2, <2>6, <2>7, <2>8, <2>9, OthersData DEF Same
  <1>8. CASE RecoverDone(p) \/ CheckAnalyses(p) \/ CheckResults(p)
    <2>1. CASE Exit(p)
      BY <1>8, <2>1, ExitData DEF RecoverDone, CheckAnalyses, CheckResults
    <2>2. CASE ~Exit(p)
      <3>1. /\ Alone(p) /\ UNCHANGED <<place, json, snaps, row>>
            /\ pc'[p] \in Cleared \ {"prepare"}
            /\ \/ pc[p] = "recover" /\ todo[p] = {} /\ ~found[p]
               \/ pc[p] \in Cleared
        BY <1>0, <1>8, <2>2
           DEF RecoverDone, CheckAnalyses, CheckResults, GoTo, Alone, TypeInv, TypeOK, Cleared
      <3>2. Staged = {}
        BY <3>1 DEF DInv, Data, StagedOK, Recovering
      <3>3. MineOK(p)' /\ StagedOK(p)'
        BY <3>1, <3>2 DEF MineOK, LoadedOK, Loaded, DraftOK, AbortOK, RowKnown, EnrichOK, HasRow,
                          StagedOK, Staged, Recovering, Cleared
      <3> QED BY <3>1, <3>3, StillData
    <2> QED BY <2>1, <2>2
  <1> QED BY <1>1, <1>2, <1>3, <1>4, <1>5, <1>6, <1>7, <1>8 DEF EntryStep

\* The owner of a run that is not saved writes its directory or its row.
LEMMA UnsavedData ==
    ASSUME DInv, NEW p \in Proc, NEW r \in Run, Alone(p), gate = p, place[r] # "final",
           \A s \in Run : s # r => Same(s),
           RunOK(r)', MineOK(p)', StagedOK(p)'
    PROVE  Data'
  <1>1. Frame(p)
    BY DEF Frame
  <1> QED BY <1>1, OthersData

LEMMA RunData ==
    ASSUME DInv, NEW p \in Proc, RunStep(p)
    PROVE  Data'
  <1> USE DEF local, locks, disk, bounds
  <1>0. TypeInv
    BY DEF DInv
  <1>1. CASE NewRun(p)
    <2>1. /\ Alone(p) /\ pc[p] = "new" /\ pc'[p] = "prepare" /\ UNCHANGED <<place, json, snaps, row>>
      BY <1>0, <1>1 DEF NewRun, GoTo, Alone, TypeInv, TypeOK
    <2>2. MineOK(p)' /\ StagedOK(p)'
      BY <2>1 DEF DInv, Data, MineOK, LoadedOK, Loaded, DraftOK, AbortOK, RowKnown, EnrichOK,
                  HasRow, StagedOK, Staged, Recovering, Cleared
    <2> QED BY <2>1, <2>2, StillData
  <1>2. CASE PrepareFail(p) \/ RunDone(p)
    BY <1>2, ExitData DEF PrepareFail, RunDone
  <1>3. CASE BeginFile(p)
    <2>1. PICK r \in Run : r = tgt[p]
      BY <1>0, <1>3 DEF BeginFile, TypeInv, TargetOK, Targetless
    <2> DEFINE w == Written(Blank)
    <2>2. /\ Alone(p) /\ pc[p] = "prepare" /\ pc'[p] = "beginRow" /\ tgt'[p] = r
          /\ place'[r] = "staging" /\ json'[r] = w /\ mine'[p] = w /\ UNCHANGED <<snaps, row>>
          /\ \A s \in Run : s # r => Same(s)
      BY <1>0, <1>3, <2>1 DEF BeginFile, GoTo, Alone, TypeInv, TypeOK, Same
    <2>3. gate = p /\ place[r] = "none"
      BY <2>1, <2>2 DEF DInv, Control, Holds, GateOK, GateHeld, InRun, PlaceOK
    <2>4. Plain(w) /\ w.ver = 1 /\ w.state = "running"
      BY DEF Written, Blank, Plain
    <2>5. row[r] = NoRow
      BY <2>3 DEF DInv, Data, RunOK, RowOK
    <2> HIDE DEF w
    <2>6. RunOK(r)'
      BY <2>2, <2>4, <2>5 DEF RunOK, JsonOK, RowOK, Plain, Indexed, NoRow
    <2>7. MineOK(p)' /\ StagedOK(p)'
      BY <2>2, <2>4 DEF MineOK, LoadedOK, Loaded, DraftOK, AbortOK, RowKnown, EnrichOK, HasRow,
                        StagedOK, Recovering, Cleared
    <2> QED BY <2>2, <2>3, <2>6, <2>7, UnsavedData
  <1>4. CASE BeginRow(p)
    <2>1. PICK r \in Run : r = tgt[p]
      BY <1>0, <1>4 DEF BeginRow, TypeInv, TargetOK, Targetless
    <2> DEFINE w == [NoRow EXCEPT !.state = mine[p].state, !.analysis = mine[p].analysis]
    <2>2. /\ Alone(p) /\ pc[p] = "beginRow" /\ pc'[p] = "benchmark" /\ tgt'[p] = r
          /\ row'[r] = w /\ UNCHANGED <<place, json, snaps, mine>>
          /\ \A s \in Run : s # r => Same(s)
      BY <1>0, <1>4, <2>1 DEF BeginRow, GoTo, Alone, TypeInv, TypeOK, Same
    <2>3. gate = p /\ place[r] = "staging"
      BY <2>1, <2>2 DEF DInv, Control, Holds, GateOK, GateHeld, InRun, PlaceOK, Staging, Owned
    <2>4. RunOK(r) /\ mine[p] = json[r] /\ mine[p].state = "running" /\ json[r].ver \in Nat
      BY <1>0, <2>1, <2>2, ManifestFields DEF DInv, Data, MineOK, LoadedOK, Loaded, DraftOK, TypeInv, TypeOK
    <2>5. w.state = mine[p].state /\ w.analyses = {} /\ w.stamp = 0 /\ w.copies = 0
      BY DEF NoRow
    <2> HIDE DEF w
    <2>6. JsonOK(r)' /\ RowOK(r)'
      BY <2>2, <2>3, <2>4, <2>5 DEF RunOK, JsonOK, RowOK, Indexed
    <2>7. MineOK(p)' /\ StagedOK(p)'
      BY <2>1, <2>2, <2>4 DEF MineOK, LoadedOK, Loaded, DraftOK, AbortOK, RowKnown, EnrichOK, HasRow,
                        StagedOK, Recovering, Cleared
    <2> QED BY <2>2, <2>3, <2>6, <2>7, UnsavedData DEF RunOK
  <1>5. CASE DiscardRow(p)
    <2>1. PICK r \in Run : r = tgt[p]
      BY <1>0, <1>5 DEF DiscardRow, TypeInv, TargetOK, Targetless
    <2>2. /\ Alone(p) /\ pc[p] = "benchmark" /\ pc'[p] = "discard" /\ tgt'[p] = r
          /\ row'[r] = NoRow /\ UNCHANGED <<place, json, snaps, mine>>
          /\ \A s \in Run : s # r => Same(s)
      BY <1>0, <1>5, <2>1 DEF DiscardRow, GoTo, Alone, TypeInv, TypeOK, Same
    <2>3. gate = p /\ place[r] = "staging"
      BY <2>1, <2>2 DEF DInv, Control, Holds, GateOK, GateHeld, InRun, PlaceOK, Staging, Owned
    <2>4. RunOK(r) /\ json[r].ver \in Nat
      BY <1>0, ManifestFields DEF DInv, Data, TypeInv, TypeOK
    <2>5. JsonOK(r)' /\ RowOK(r)'
      BY <2>2, <2>3, <2>4 DEF RunOK, JsonOK, RowOK, Indexed, NoRow
    <2>6. MineOK(p)' /\ StagedOK(p)'
      BY <2>1, <2>2, <2>4 DEF MineOK, LoadedOK, Loaded, DraftOK, AbortOK, RowKnown, EnrichOK, HasRow,
                        StagedOK, Recovering, Cleared
    <2> QED BY <2>2, <2>3, <2>5, <2>6, UnsavedData DEF RunOK
  <1>6. CASE DiscardFiles(p)
    <2>1. PICK r \in Run : r = tgt[p]
      BY <1>0, <1>6 DEF DiscardFiles, TypeInv, TargetOK, Targetless
    <2>2. /\ Alone(p) /\ pc[p] = "discard" /\ pc'[p] \in Careless
          /\ place'[r] = "none" /\ json'[r] = Blank /\ UNCHANGED <<snaps, row>>
          /\ \A s \in Run : s # r => Same(s)
      BY <1>0, <1>6, <2>1, ExitAlone DEF DiscardFiles, TypeInv, TypeOK, Same
    <2>3. gate = p /\ place[r] = "staging"
      BY <2>1, <2>2 DEF DInv, Control, Holds, GateOK, GateHeld, InRun, PlaceOK, Staging, Owned
    <2>4. row[r] = NoRow
      BY <2>1, <2>2 DEF DInv, Data, MineOK, RowKnown
    <2>5. RunOK(r)'
      BY <2>2, <2>4 DEF RunOK, JsonOK, RowOK, Indexed, NoRow, Blank
    <2> QED BY <2>2, <2>3, <2>5, CarelessOK, UnsavedData
  <1>7. CASE Benchmark(p)
    <2>1. PICK o \in Outcomes :
            /\ mine' = [mine EXCEPT ![p] =
                  [mine[p] EXCEPT !.passed = o.passed, !.pending = o.pending,
                                  !.interrupted = o.interrupted,
                                  !.collectorFailed = o.collectorFailed,
                                  !.parserFailed = o.parserFailed]]
            /\ GoTo(p, IF o.ran THEN "checkpoint" ELSE "finish")
      BY <1>7 DEF Benchmark
    <2>2. PICK r \in Run : r = tgt[p]
      BY <1>0, <1>7 DEF Benchmark, TypeInv, TargetOK, Targetless
    <2>3. /\ Alone(p) /\ pc[p] = "benchmark" /\ pc'[p] \in {"checkpoint", "finish"} /\ tgt'[p] = r
          /\ mine[p] \in Manifest /\ UNCHANGED <<place, json, snaps, row>>
      BY <1>0, <1>7, <2>1, <2>2 DEF Benchmark, GoTo, Alone, TypeInv, TypeOK
    <2>4. mine'[p].analyses = mine[p].analyses /\ mine'[p].snap = mine[p].snap /\ mine'[p].ver = mine[p].ver
      BY <1>0, <2>1, <2>3 DEF TypeInv, TypeOK, Manifest
    <2>5. mine[p] = json[r] /\ Plain(json[r])
      BY <2>2, <2>3 DEF DInv, Data, Control, Holds, PlaceOK, Staging, Owned, MineOK, LoadedOK,
                        Loaded, RunOK, JsonOK
    <2>6. MineOK(p)' /\ StagedOK(p)'
      BY <2>3, <2>4, <2>5 DEF MineOK, LoadedOK, Loaded, DraftOK, AbortOK, RowKnown, EnrichOK, HasRow,
                        StagedOK, Recovering, Cleared, Plain
    <2> QED BY <2>3, <2>6, StillData
  <1>8. CASE Checkpoint(p)
    <2>1. PICK r \in Run : r = tgt[p]
      BY <1>0, <1>8 DEF Checkpoint, TypeInv, TargetOK, Targetless
    <2> DEFINE w == Written(mine[p])
    <2>2. /\ Alone(p) /\ pc[p] = "checkpoint" /\ pc'[p] = "finish" /\ tgt'[p] = r
          /\ json'[r] = w /\ mine'[p] = w /\ UNCHANGED <<place, snaps, row>>
          /\ \A s \in Run : s # r => Same(s)
      BY <1>0, <1>8, <2>1 DEF Checkpoint, GoTo, Alone, TypeInv, TypeOK, Same
    <2>3. gate = p /\ place[r] = "staging"
      BY <2>1, <2>2 DEF DInv, Control, Holds, GateOK, GateHeld, InRun, PlaceOK, Staging, Owned
    <2>4. Plain(mine[p]) /\ mine[p].ver = json[r].ver /\ RunOK(r) /\ json[r].ver \in Nat
      BY <1>0, <2>1, <2>2, ManifestFields DEF DInv, Data, MineOK, DraftOK, TypeInv, TypeOK
    <2>5. w.ver = mine[p].ver + 1 /\ Plain(w)
      BY <1>0, <2>4, Edits DEF TypeInv, TypeOK, Plain
    <2> HIDE DEF w
    <2>6. JsonOK(r)' /\ RowOK(r)'
      BY <2>2, <2>3, <2>4, <2>5 DEF RunOK, JsonOK, RowOK, Indexed, Plain
    <2>7. MineOK(p)' /\ StagedOK(p)'
      BY <2>2, <2>5 DEF MineOK, LoadedOK, Loaded, DraftOK, AbortOK, RowKnown, EnrichOK, HasRow,
                        StagedOK, Recovering, Cleared
    <2> QED BY <2>2, <2>3, <2>6, <2>7, UnsavedData DEF RunOK
  <1>9. CASE Finish(p)
    <2>1. PICK r \in Run : r = tgt[p]
      BY <1>0, <1>9 DEF Finish, TypeInv, TargetOK, Targetless
    <2> DEFINE d == [Settle(mine[p]) EXCEPT !.analysis = AnalysisFor(mine[p].passed)]
               w == Written(d)
    <2>2. /\ Alone(p) /\ pc[p] = "finish" /\ pc'[p] = "finishMove" /\ tgt'[p] = r
          /\ json'[r] = w /\ mine'[p] = w /\ UNCHANGED <<place, snaps, row>>
          /\ \A s \in Run : s # r => Same(s)
      BY <1>0, <1>9, <2>1 DEF Finish, GoTo, Alone, TypeInv, TypeOK, Same
    <2>3. gate = p /\ place[r] = "staging"
      BY <2>1, <2>2 DEF DInv, Control, Holds, GateOK, GateHeld, InRun, PlaceOK, Staging, Owned
    <2>4. Plain(mine[p]) /\ mine[p].ver = json[r].ver /\ RunOK(r) /\ json[r].ver \in Nat
      BY <1>0, <2>1, <2>2, ManifestFields DEF DInv, Data, MineOK, DraftOK, TypeInv, TypeOK
    <2>5. w.ver = mine[p].ver + 1 /\ Plain(w) /\ Closed(w)
      <3>1. mine[p] \in Manifest /\ Settle(mine[p]) \in Manifest
        BY <1>0, ManifestTyped DEF TypeInv, TypeOK
      <3>2. d \in Manifest
        BY <3>1 DEF Manifest, AnalysisFor, AnalysisStatus
      <3>3. /\ d.ver = Settle(mine[p]).ver /\ d.analyses = Settle(mine[p]).analyses
            /\ d.snap = Settle(mine[p]).snap /\ d.state = Settle(mine[p]).state
            /\ d.interrupted = Settle(mine[p]).interrupted
        BY <3>1 DEF Manifest
      <3> HIDE DEF d
      <3>4. mine[p].ver \in Nat
        BY <3>1, ManifestFields
      <3> QED BY <2>4, <3>1, <3>2, <3>3, <3>4, Edits DEF Plain, Closed
    <2> HIDE DEF w
    <2>6. JsonOK(r)' /\ RowOK(r)'
      BY <2>2, <2>3, <2>4, <2>5 DEF RunOK, JsonOK, RowOK, Indexed, Plain
    <2>7. MineOK(p)' /\ StagedOK(p)'
      BY <2>2, <2>5 DEF MineOK, LoadedOK, Loaded, DraftOK, AbortOK, RowKnown, EnrichOK, HasRow,
                        StagedOK, Recovering, Cleared
    <2> QED BY <2>2, <2>3, <2>6, <2>7, UnsavedData DEF RunOK
  <1>10. CASE FinishMove(p)
    <2>1. PICK r \in Run : r = tgt[p]
      BY <1>0, <1>10 DEF FinishMove, TypeInv, TargetOK, Targetless
    <2>2. /\ Alone(p) /\ pc[p] = "finishMove" /\ pc'[p] = "finishCommit" /\ tgt'[p] = r
          /\ place'[r] = "final" /\ snaps'[r] = {0} /\ UNCHANGED <<json, row, mine>>
          /\ \A s \in Run : s # r => Same(s)
      BY <1>0, <1>10, <2>1 DEF FinishMove, GoTo, Alone, TypeInv, TypeOK, Same
    <2>3. gate = p /\ place[r] = "staging"
      BY <2>1, <2>2 DEF DInv, Control, Holds, GateOK, GateHeld, InRun, PlaceOK, Staging, Owned
    <2>4. mine[p] = json[r] /\ Closed(json[r]) /\ RunOK(r)
      BY <2>1, <2>2 DEF DInv, Data, MineOK, LoadedOK, Loaded, DraftOK
    <2>5. RunOK(r)'
      BY <2>2, <2>3, <2>4 DEF RunOK, JsonOK, RowOK, Indexed, Plain
    <2>6. MineOK(p)' /\ StagedOK(p)'
      BY <2>2, <2>3, <2>4 DEF MineOK, LoadedOK, Loaded, DraftOK, AbortOK, RowKnown, EnrichOK, HasRow,
                        StagedOK, Recovering, Cleared, RunOK, RowOK
    <2> QED BY <2>2, <2>3, <2>5, <2>6, UnsavedData
  <1>11. CASE FinishCommit(p)
    <2> DEFINE t == tgt[p]
               w == [RowOf(mine[p]) EXCEPT !.copies = row[t].copies + 1, !.stamp = json[t].ver]
    <2>1. t \in Run /\ mine[p] \in Manifest
      BY <1>0, <1>11 DEF FinishCommit, TypeInv, TypeOK, TargetOK, Targetless
    <2>2. mine[p] = json[t] /\ row[t].copies = 0
      BY <1>11, <2>1 DEF FinishCommit, DInv, Data, MineOK, LoadedOK, Loaded, RowKnown
    <2>3. /\ w.analyses = mine[p].analyses
          /\ w.stamp = json[t].ver /\ w.copies = row[t].copies + 1 /\ w.state = mine[p].state
      BY DEF RowOf
    <2>4. mine[p].state # "none"
      BY <2>1, ManifestFields DEF State
    <2>5. /\ w.analyses \subseteq json[t].analyses /\ w.stamp = json[t].ver /\ w.copies <= 1
          /\ w.state # "none"
      BY <2>2, <2>3, <2>4
    <2>6. row' = [row EXCEPT ![t] = w] /\ pc[p] \in LockHeld /\ UNCHANGED <<place, json, snaps>>
      BY <1>11 DEF FinishCommit, LockHeld
    <2>7. Alone(p) /\ pc'[p] \in Careless
      BY <1>0, <1>11 DEF FinishCommit, GoTo, Alone, Careless, TypeInv, TypeOK
    <2> HIDE DEF w
    <2> QED BY <2>5, <2>6, <2>7, CarelessOK, SavedRowData
  <1> QED BY <1>1, <1>2, <1>3, <1>4, <1>5, <1>6, <1>7, <1>8, <1>9, <1>10, <1>11 DEF RunStep

\* The holder of the lock of a saved run writes its run.json.
LEMMA SavedJsonData ==
    ASSUME DInv, NEW p \in Proc, NEW w, Alone(p), UNCHANGED <<place, snaps, row>>,
           pc[p] \in LockHeld, json' = [json EXCEPT ![tgt[p]] = w],
           /\ Closed(w)
           /\ json[tgt[p]].state = "aborted" => w.state = "aborted"
           /\ json[tgt[p]].analyses \subseteq w.analyses
           /\ \A n \in w.analyses : n < w.ver
           /\ w.ver = json[tgt[p]].ver + 1
           /\ w.state # "aborted" => w.snap \in snaps[tgt[p]],
           MineOK(p)', StagedOK(p)'
    PROVE  Data'
  <1>1. PICK r \in Run : r = tgt[p]
    BY DEF DInv, TypeInv, TargetOK, Targetless, LockHeld
  <1>2. runlock[r] = p /\ place[r] = "final"
    BY <1>1 DEF DInv, Control, Holds, LockOK, PlaceOK, Saved
  <1>3. json'[r] = w /\ \A s \in Run : s # r => json'[s] = json[s]
    BY <1>1 DEF DInv, TypeInv, TypeOK
  <1>4. Frame(p)
    BY <1>1, <1>2, <1>3 DEF Frame, Same, Indexed
  <1>5. json[r].ver \in Nat /\ row[r].stamp \in Nat
    BY ManifestFields DEF DInv, TypeInv, TypeOK, Row
  <1>6. JsonOK(r)'
    BY <1>1, <1>2, <1>3 DEF JsonOK
  <1>7. RowOK(r)'
    BY <1>1, <1>2, <1>3, <1>5 DEF DInv, Data, RunOK, RowOK, Closed, Indexed
  <1> QED BY <1>3, <1>4, <1>6, <1>7, OthersData DEF RunOK, Same

\* What a command on a saved run has in front of it.
LEMMA LockedRun ==
    ASSUME DInv, NEW p \in Proc, pc[p] \in LockHeld
    PROVE  /\ tgt[p] \in Run /\ runlock[tgt[p]] = p /\ place[tgt[p]] = "final"
           /\ mine[p] \in Manifest /\ json[tgt[p]] \in Manifest /\ row[tgt[p]] \in Row
           /\ json[tgt[p]].ver \in Nat /\ RunOK(tgt[p]) /\ Closed(json[tgt[p]]) /\ MineOK(p)
  <1>1. tgt[p] \in Run
    BY DEF DInv, TypeInv, TargetOK, Targetless, LockHeld
  <1>2. runlock[tgt[p]] = p /\ place[tgt[p]] = "final"
    BY DEF DInv, Control, Holds, LockOK, PlaceOK, Saved
  <1>3. mine[p] \in Manifest /\ json[tgt[p]] \in Manifest /\ row[tgt[p]] \in Row
    BY <1>1 DEF DInv, TypeInv, TypeOK
  <1>4. RunOK(tgt[p]) /\ MineOK(p) /\ Closed(json[tgt[p]])
    BY <1>1, <1>2 DEF DInv, Data, RunOK, JsonOK
  <1> QED BY <1>1, <1>2, <1>3, <1>4, ManifestFields

LEMMA SavedData ==
    ASSUME DInv, NEW p \in Proc, SavedStep(p)
    PROVE  Data'
  <1> USE DEF local, locks, disk, bounds
  <1>0. TypeInv
    BY DEF DInv
  <1>1. CASE NoTarget(p) \/ AnalyzeRefuse(p) \/ RescoreRefuse(p)
    BY <1>1, ExitData DEF NoTarget, AnalyzeRefuse, RescoreRefuse
  <1>2. CASE LockRun(p)
    <2>1. PICK r \in Run : /\ Lockable(r)
                           /\ tgt' = [tgt EXCEPT ![p] = r]
                           /\ mine' = [mine EXCEPT ![p] = json[r]]
      BY <1>2 DEF LockRun
    <2>2. /\ Alone(p) /\ pc'[p] \in {"analyze", "rescore", "enrich"} /\ tgt'[p] = r
          /\ mine'[p] = json[r] /\ UNCHANGED <<place, json, snaps, row>>
      BY <1>0, <1>2, <2>1 DEF LockRun, GoTo, Alone, TypeInv, TypeOK, TargetOK
    <2>3. MineOK(p)' /\ StagedOK(p)'
      BY <2>1, <2>2 DEF Lockable, Indexed, MineOK, LoadedOK, DraftOK, AbortOK, RowKnown,
                        EnrichOK, HasRow, StagedOK, Recovering, Cleared
    <2> QED BY <2>2, <2>3, StillData
  <1>3. CASE AnalyzeWrite(p)
    <2> DEFINE t == tgt[p]
    <2>1. PICK v \in {"complete", "skipped"} :
            LET m == Written([mine[p] EXCEPT !.analysis = v,
                         !.analyses = mine[p].analyses \cup {mine[p].ver}])
            IN mine' = [mine EXCEPT ![p] = m] /\ json' = [json EXCEPT ![tgt[p]] = m]
      BY <1>3 DEF AnalyzeWrite
    <2> DEFINE d == [mine[p] EXCEPT !.analysis = v, !.analyses = mine[p].analyses \cup {mine[p].ver}]
               w == Written(d)
    <2>2. pc[p] = "analyze" /\ pc[p] \in LockHeld
      BY <1>3 DEF AnalyzeWrite, LockHeld
    <2>3. mine[p] = json[t] /\ Indexed(t)
      BY <2>2, LockedRun DEF MineOK, LoadedOK, Loaded, RowKnown, HasRow
    <2>4. d \in Manifest
      <3>1. mine[p] \in Manifest /\ mine[p].analyses \cup {mine[p].ver} \in SUBSET Nat
        BY <2>2, LockedRun, ManifestFields
      <3>2. v \in AnalysisStatus
        BY DEF AnalysisStatus
      <3> QED BY <3>1, <3>2 DEF Manifest
    <2>5. /\ d.ver = mine[p].ver /\ d.state = mine[p].state /\ d.interrupted = mine[p].interrupted
          /\ d.snap = mine[p].snap /\ d.analyses = mine[p].analyses \cup {mine[p].ver}
      BY <2>2, LockedRun DEF Manifest
    <2> HIDE DEF d
    <2>6. /\ w.ver = json[t].ver + 1 /\ w.state = json[t].state /\ w.interrupted = json[t].interrupted
          /\ w.snap = json[t].snap /\ w.analyses = json[t].analyses \cup {json[t].ver}
      BY <2>3, <2>4, <2>5, Edits
    <2>7. /\ Alone(p) /\ pc'[p] = "analyzeCommit" /\ tgt'[p] = t /\ mine'[p] = w
          /\ json' = [json EXCEPT ![t] = w] /\ UNCHANGED <<place, snaps, row>>
      BY <1>0, <1>3, <2>1 DEF AnalyzeWrite, GoTo, Alone, TypeInv, TypeOK, d
    <2> HIDE DEF w
    <2>8. /\ Closed(w) /\ json[t].analyses \subseteq w.analyses /\ \A n \in w.analyses : n < w.ver
          /\ w.state # "aborted" => w.snap \in snaps[t]
      <3>1. /\ Closed(json[t]) /\ json[t].ver \in Nat /\ json[t].analyses \in SUBSET Nat
            /\ JsonOK(t) /\ place[t] = "final"
        BY <2>2, LockedRun, ManifestFields DEF RunOK
      <3>2. Closed(w) /\ json[t].analyses \subseteq w.analyses
        BY <2>6, <3>1 DEF Closed
      <3>3. w.state # "aborted" => w.snap \in snaps[t]
        BY <2>6, <3>1 DEF JsonOK
      <3>4. \A n \in w.analyses : n < w.ver
        BY <2>6, <3>1 DEF JsonOK
      <3> QED BY <3>2, <3>3, <3>4
    <2>9. json'[t] = w
      BY <1>0, <2>2, <2>7, LockedRun DEF TypeInv, TypeOK
    <2>10. MineOK(p)' /\ StagedOK(p)'
      BY <2>3, <2>7, <2>9 DEF MineOK, LoadedOK, Loaded, DraftOK, AbortOK, RowKnown, EnrichOK, HasRow,
                              StagedOK, Recovering, Cleared, Indexed
    <2> QED BY <2>2, <2>6, <2>7, <2>8, <2>10, SavedJsonData
  <1>4. CASE AnalyzeCommit(p)
    <2> DEFINE t == tgt[p]
               w == [row[t] EXCEPT !.analyses = row[t].analyses \cup NewNotes(mine[p]),
                                   !.analysis = mine[p].analysis, !.stamp = json[t].ver]
    <2>1. pc[p] = "analyzeCommit" /\ pc[p] \in LockHeld /\ row' = [row EXCEPT ![t] = w]
          /\ UNCHANGED <<place, json, snaps>>
      BY <1>4 DEF AnalyzeCommit, LockHeld
    <2>2. mine[p] = json[t] /\ Indexed(t) /\ RowOK(t)
      BY <2>1, LockedRun DEF MineOK, LoadedOK, Loaded, RowKnown, HasRow, RunOK
    <2>3. /\ w.analyses = row[t].analyses \cup NewNotes(mine[p])
          /\ w.stamp = json[t].ver /\ w.copies = row[t].copies /\ w.state = row[t].state
      BY <2>1, LockedRun DEF Row
    <2>4. NewNotes(mine[p]) \subseteq mine[p].analyses
      BY DEF NewNotes
    <2>5. /\ w.analyses \subseteq json[t].analyses /\ w.copies <= 1 /\ w.state # "none"
      BY <2>2, <2>3, <2>4 DEF RowOK, Indexed
    <2>6. Alone(p) /\ pc'[p] \in Careless
      BY <1>0, <1>4, ExitAlone DEF AnalyzeCommit
    <2> HIDE DEF w
    <2> QED BY <2>1, <2>3, <2>5, <2>6, CarelessOK, SavedRowData
  <1>5. CASE RescoreWrite(p)
    <2> DEFINE t == tgt[p]
    <2>1. PICK v \in {"yes", "no"} :
            LET m == Written([Settle([mine[p] EXCEPT !.passed = v, !.pending = FALSE])
                                EXCEPT !.analysis = AnalysisFor(v)])
            IN mine' = [mine EXCEPT ![p] = m] /\ json' = [json EXCEPT ![tgt[p]] = m]
      BY <1>5 DEF RescoreWrite
    <2> DEFINE b == [mine[p] EXCEPT !.passed = v, !.pending = FALSE]
               c == Settle(b)
               d == [c EXCEPT !.analysis = AnalysisFor(v)]
               w == Written(d)
    <2>2. pc[p] = "rescore" /\ pc[p] \in LockHeld
      BY <1>5 DEF RescoreWrite, LockHeld
    <2>3. mine[p] = json[t] /\ Indexed(t) /\ mine[p] \in Manifest
      BY <2>2, LockedRun DEF MineOK, LoadedOK, Loaded, RowKnown, HasRow
    <2>4. /\ b \in Manifest /\ b.ver = mine[p].ver /\ b.interrupted = mine[p].interrupted
          /\ b.snap = mine[p].snap /\ b.analyses = mine[p].analyses
      BY <2>3 DEF Manifest, Verdict
    <2> HIDE DEF b
    <2>5. /\ c \in Manifest /\ c.ver = b.ver /\ c.interrupted = b.interrupted
          /\ c.snap = b.snap /\ c.analyses = b.analyses
          /\ c.state # "running" /\ (c.state = "aborted" <=> c.interrupted)
      BY <2>4, Edits, ManifestTyped
    <2> HIDE DEF c
    <2>6. /\ d \in Manifest /\ d.ver = c.ver /\ d.interrupted = c.interrupted
          /\ d.snap = c.snap /\ d.analyses = c.analyses /\ d.state = c.state
      BY <2>5 DEF Manifest, AnalysisFor, AnalysisStatus
    <2> HIDE DEF d
    <2>7. /\ w.ver = json[t].ver + 1 /\ w.interrupted = json[t].interrupted
          /\ w.snap = json[t].snap /\ w.analyses = json[t].analyses
          /\ w.state # "running" /\ (w.state = "aborted" <=> w.interrupted)
      BY <2>3, <2>4, <2>5, <2>6, Edits
    <2>8. /\ Alone(p) /\ pc'[p] = "rescoreCommit" /\ tgt'[p] = t /\ mine'[p] = w
          /\ json' = [json EXCEPT ![t] = w] /\ UNCHANGED <<place, snaps, row>>
      BY <1>0, <1>5, <2>1 DEF RescoreWrite, GoTo, Alone, TypeInv, TypeOK, b, c, d
    <2> HIDE DEF w
    <2>9. /\ Closed(w) /\ json[t].analyses \subseteq w.analyses /\ \A n \in w.analyses : n < w.ver
          /\ w.state # "aborted" => w.snap \in snaps[t]
          /\ json[t].state = "aborted" => w.state = "aborted"
      <3>1. /\ Closed(json[t]) /\ json[t].ver \in Nat /\ json[t].analyses \in SUBSET Nat
            /\ JsonOK(t) /\ place[t] = "final"
        BY <2>2, LockedRun, ManifestFields DEF RunOK
      <3>2. Closed(w) /\ json[t].analyses \subseteq w.analyses
        BY <2>7, <3>1 DEF Closed
      <3>3. (json[t].state = "aborted" <=> w.state = "aborted")
        BY <2>7, <3>1 DEF Closed
      <3>4. w.state # "aborted" => w.snap \in snaps[t]
        BY <2>7, <3>1, <3>3 DEF JsonOK
      <3>5. \A n \in w.analyses : n < w.ver
        BY <2>7, <3>1 DEF JsonOK
      <3> QED BY <3>2, <3>3, <3>4, <3>5
    <2>10. json'[t] = w
      BY <1>0, <2>2, <2>8, LockedRun DEF TypeInv, TypeOK
    <2>11. MineOK(p)' /\ StagedOK(p)'
      BY <2>3, <2>8, <2>10 DEF MineOK, LoadedOK, Loaded, DraftOK, AbortOK, RowKnown, EnrichOK, HasRow,
                               StagedOK, Recovering, Cleared, Indexed
    <2> QED BY <2>2, <2>7, <2>8, <2>9, <2>11, SavedJsonData
  <1>6. CASE RescoreCommit(p)
    <2> DEFINE t == tgt[p]
               w == [row[t] EXCEPT !.passed = mine[p].passed, !.state = mine[p].state,
                                   !.analysis = mine[p].analysis, !.stamp = json[t].ver]
    <2>1. pc[p] = "rescoreCommit" /\ pc[p] \in LockHeld /\ row' = [row EXCEPT ![t] = w]
          /\ UNCHANGED <<place, json, snaps>>
      BY <1>6 DEF RescoreCommit, LockHeld
    <2>2. RowOK(t) /\ mine[p].state # "none"
      BY <2>1, LockedRun, ManifestFields DEF RunOK, State
    <2>3. /\ w.analyses = row[t].analyses
          /\ w.stamp = json[t].ver /\ w.copies = row[t].copies /\ w.state = mine[p].state
      BY <2>1, LockedRun DEF Row
    <2>4. /\ w.analyses \subseteq json[t].analyses /\ w.copies <= 1 /\ w.state # "none"
      BY <2>2, <2>3 DEF RowOK
    <2>5. Alone(p) /\ pc'[p] \in Careless
      BY <1>0, <1>6, ExitAlone DEF RescoreCommit
    <2> HIDE DEF w
    <2> QED BY <2>1, <2>3, <2>4, <2>5, CarelessOK, SavedRowData
  <1>7. CASE EnrichSnapshot(p)
    <2>1. PICK failed \in BOOLEAN :
            mine' = [mine EXCEPT ![p] =
                       Written(Settle([mine[p] EXCEPT !.parserFailed = failed,
                                                      !.snap = mine[p].ver + 1]))]
      BY <1>7 DEF EnrichSnapshot
    <2>2. pc[p] = "enrich" /\ pc[p] \in LockHeld
      BY <1>7 DEF EnrichSnapshot, LockHeld
    <2>3. PICK r \in Run : r = tgt[p]
      BY <2>2, LockedRun
    <2> DEFINE b == [mine[p] EXCEPT !.parserFailed = failed, !.snap = mine[p].ver + 1]
               c == Settle(b)
               w == Written(c)
    <2>4. /\ mine[p] = json[r] /\ Indexed(r) /\ mine[p] \in Manifest /\ mine[p].ver \in Nat
          /\ Closed(json[r]) /\ runlock[r] = p /\ place[r] = "final" /\ RunOK(r)
      BY <2>2, <2>3, LockedRun DEF MineOK, LoadedOK, Loaded, RowKnown, HasRow
    <2>5. /\ b \in Manifest /\ b.ver = mine[p].ver /\ b.interrupted = mine[p].interrupted
          /\ b.snap = mine[p].ver + 1 /\ b.analyses = mine[p].analyses
          /\ b.passed = mine[p].passed /\ b.pending = mine[p].pending
      <3>1. PICK n \in Nat : n = mine[p].ver + 1
        BY <2>4
      <3> QED BY <2>4, <3>1 DEF Manifest
    <2> HIDE DEF b
    <2>6. /\ c \in Manifest /\ c.ver = b.ver /\ c.interrupted = b.interrupted
          /\ c.snap = b.snap /\ c.analyses = b.analyses
          /\ c.passed = b.passed /\ c.pending = b.pending
          /\ c.state # "running" /\ (c.state = "aborted" <=> c.interrupted)
      BY <2>5, Edits, ManifestTyped
    <2> HIDE DEF c
    <2>7. /\ w.ver = json[r].ver + 1 /\ w.interrupted = json[r].interrupted
          /\ w.snap = json[r].ver + 1 /\ w.analyses = json[r].analyses
          /\ w.passed = json[r].passed /\ w.pending = json[r].pending
          /\ w.state # "running" /\ (w.state = "aborted" <=> w.interrupted)
      BY <2>4, <2>5, <2>6, Edits
    <2>8. /\ Alone(p) /\ pc'[p] = "enrichWrite" /\ tgt'[p] = r /\ mine'[p] = w
          /\ UNCHANGED <<place, json, row>> /\ snaps'[r] = snaps[r] \cup {json[r].ver + 1}
          /\ \A s \in Run : s # r => Same(s)
      BY <1>0, <1>7, <2>1, <2>3, <2>4 DEF EnrichSnapshot, GoTo, Alone, TypeInv, TypeOK, Same, b, c
    <2> HIDE DEF w
    <2>9. Frame(p)
      BY <2>4, <2>8 DEF Frame, Indexed
    <2>10. RunOK(r)'
      <3>1. JsonOK(r)'
        BY <2>4, <2>8 DEF RunOK, JsonOK
      <3>2. RowOK(r)'
        BY <2>4, <2>8 DEF RunOK, RowOK, Indexed
      <3> QED BY <3>1, <3>2 DEF RunOK
    <2>11. MineOK(p)' /\ StagedOK(p)'
      BY <2>4, <2>7, <2>8 DEF MineOK, LoadedOK, Loaded, DraftOK, AbortOK, RowKnown, EnrichOK, HasRow,
                              StagedOK, Recovering, Cleared, Indexed, Closed
    <2> QED BY <2>8, <2>9, <2>10, <2>11, OthersData
  <1>8. CASE EnrichWrite(p)
    <2> DEFINE t == tgt[p]
               w == mine[p]
    <2>1. pc[p] = "enrichWrite" /\ pc[p] \in LockHeld
      BY <1>8 DEF EnrichWrite, LockHeld
    <2>2. /\ Alone(p) /\ pc'[p] = "enrichCommit" /\ tgt'[p] = t /\ mine'[p] = w
          /\ json' = [json EXCEPT ![t] = w] /\ UNCHANGED <<place, snaps, row>>
      BY <1>0, <1>8 DEF EnrichWrite, GoTo, Alone, TypeInv, TypeOK
    <2>3. /\ w.ver = json[t].ver + 1 /\ w.snap \in snaps[t] /\ w.analyses = json[t].analyses
          /\ w.interrupted = json[t].interrupted /\ Closed(w) /\ Indexed(t)
      BY <2>1, LockedRun DEF MineOK, EnrichOK, RowKnown, HasRow
    <2>4. /\ json[t].state = "aborted" => w.state = "aborted"
          /\ \A n \in w.analyses : n < w.ver
      <3>1. /\ Closed(json[t]) /\ json[t].ver \in Nat /\ json[t].analyses \in SUBSET Nat /\ JsonOK(t)
        BY <2>1, LockedRun, ManifestFields DEF RunOK
      <3>2. json[t].state = "aborted" => w.state = "aborted"
        BY <2>3, <3>1 DEF Closed
      <3>3. \A n \in w.analyses : n < w.ver
        BY <2>3, <3>1 DEF JsonOK
      <3> QED BY <3>2, <3>3
    <2>5. json'[t] = w
      BY <1>0, <2>1, <2>2, LockedRun DEF TypeInv, TypeOK
    <2>6. MineOK(p)' /\ StagedOK(p)'
      BY <2>2, <2>3, <2>5 DEF MineOK, LoadedOK, Loaded, DraftOK, AbortOK, RowKnown, EnrichOK, HasRow,
                              StagedOK, Recovering, Cleared, Indexed
    <2> QED BY <2>1, <2>2, <2>3, <2>4, <2>6, SavedJsonData
  <1>9. CASE EnrichCommit(p)
    <2> DEFINE t == tgt[p]
               w == [row[t] EXCEPT !.state = mine[p].state, !.snap = mine[p].snap, !.stamp = json[t].ver]
    <2>1. pc[p] = "enrichCommit" /\ pc[p] \in LockHeld /\ row' = [row EXCEPT ![t] = w]
          /\ UNCHANGED <<place, json, snaps>>
      BY <1>9 DEF EnrichCommit, LockHeld
    <2>2. RowOK(t) /\ mine[p].state # "none" /\ mine[p] = json[t]
      BY <2>1, LockedRun, ManifestFields DEF RunOK, State, MineOK, LoadedOK, Loaded
    <2>3. /\ w.analyses = row[t].analyses
          /\ w.stamp = json[t].ver /\ w.copies = row[t].copies /\ w.state = mine[p].state
      BY <2>1, LockedRun DEF Row
    <2>4. /\ w.analyses \subseteq json[t].analyses /\ w.copies <= 1 /\ w.state # "none"
      BY <2>2, <2>3 DEF RowOK
    <2>5. Alone(p) /\ pc'[p] = "enrichPrune" /\ UNCHANGED <<tgt, mine>>
      BY <1>0, <1>9 DEF EnrichCommit, GoTo, Alone, TypeInv, TypeOK
    <2>6. MineOK(p)' /\ StagedOK(p)'
      BY <2>1, <2>2, <2>5 DEF MineOK, LoadedOK, Loaded, DraftOK, AbortOK, RowKnown, EnrichOK, HasRow,
                              StagedOK, Recovering, Cleared
    <2> HIDE DEF w
    <2> QED BY <2>1, <2>3, <2>4, <2>5, <2>6, SavedRowData
  <1>10. CASE EnrichPrune(p)
    <2>1. pc[p] = "enrichPrune" /\ pc[p] \in LockHeld
      BY <1>10 DEF EnrichPrune, LockHeld
    <2>2. PICK r \in Run : r = tgt[p]
      BY <2>1, LockedRun
    <2>3. /\ mine[p] = json[r] /\ runlock[r] = p /\ place[r] = "final" /\ RunOK(r)
      BY <2>1, <2>2, LockedRun DEF MineOK, LoadedOK, Loaded
    <2>4. /\ Alone(p) /\ pc'[p] \in Careless /\ UNCHANGED <<place, json, row>>
          /\ snaps'[r] = snaps[r] \cap {mine[p].snap} /\ \A s \in Run : s # r => Same(s)
      BY <1>0, <1>10, <2>2, ExitAlone DEF EnrichPrune, TypeInv, TypeOK, Same
    <2>5. Frame(p)
      BY <2>3, <2>4 DEF Frame, Indexed
    <2>6. RunOK(r)'
      <3>1. JsonOK(r)'
        BY <2>3, <2>4 DEF RunOK, JsonOK
      <3>2. RowOK(r)'
        BY <2>3, <2>4 DEF RunOK, RowOK, Indexed
      <3> QED BY <3>1, <3>2 DEF RunOK
    <2> QED BY <2>4, <2>5, <2>6, CarelessOK, OthersData
  <1> QED BY <1>1, <1>2, <1>3, <1>4, <1>5, <1>6, <1>7, <1>8, <1>9, <1>10 DEF SavedStep

LEMMA OtherData ==
    ASSUME DInv, NEW p \in Proc,
           \/ \E c \in Commands : Start(p, c)
           \/ Reap(p)
           \/ Crash(p)
    PROVE  Data'
  <1> USE DEF local, locks, disk, bounds
  <1>1. CASE Reap(p)
    BY <1>1, ExitData DEF Reap
  <1>2. CASE Crash(p) \/ \E c \in Commands : Start(p, c)
    <2>1. Alone(p) /\ pc'[p] \in Careless /\ UNCHANGED <<place, json, snaps, row>>
      BY <1>2 DEF Crash, Start, GoTo, Alone, Careless, DInv, TypeInv, TypeOK
    <2> QED BY <2>1, CarelessOK, StillData
  <1> QED BY <1>1, <1>2

LEMMA DataInductive == DInv /\ [Next]_vars => DInv'
  <1> SUFFICES ASSUME DInv, [Next]_vars PROVE DInv'
    OBVIOUS
  <1>1. TypeInv' /\ Control'
    BY TypeInductive, ControlInductive DEF DInv
  <1>2. Data'
    <2>1. CASE UNCHANGED vars
      <3>1. UNCHANGED <<pc, tgt, mine, todo, found, place, json, snaps, row>>
        BY <2>1 DEF vars, local, disk
      <3>2. \A r \in Run : RunOK(r) <=> RunOK(r)'
        BY <3>1 DEF RunOK, JsonOK, RowOK, Indexed
      <3>3. \A p \in Proc : (MineOK(p) <=> MineOK(p)') /\ (StagedOK(p) <=> StagedOK(p)')
        BY <3>1 DEF MineOK, LoadedOK, DraftOK, AbortOK, RowKnown, EnrichOK, StagedOK, Staged, Indexed
      <3> QED BY <3>2, <3>3 DEF DInv, Data
    <2>2. CASE Next
      BY <2>2, OpenData, EntryData, RunData, SavedData, OtherData DEF Next, Step
    <2> QED BY <2>1, <2>2
  <1> QED BY <1>1, <1>2 DEF DInv

LEMMA DataInvariant == Spec => []DInv
  <1>1. Init => Data
    BY DEF Init, Data, RunOK, JsonOK, RowOK, MineOK, LoadedOK, Loaded, DraftOK, AbortOK, RowKnown,
           HasRow, EnrichOK, StagedOK, Staged, Recovering, Cleared, Blank, NoRow, Indexed
  <1> QED BY <1>1, DataInductive, ControlInvariant, PTL DEF Spec, DInv

\* At every moment, so wherever a process is killed, the structured snapshot
\* that a saved run.json names is in its directory: enrich writes the new one
\* first and deletes the old ones last, and run.json has one writer.
THEOREM SnapshotKept == Spec => []SnapshotInPlace
  <1>1. DInv => SnapshotInPlace
    BY DEF DInv, Data, RunOK, JsonOK, SnapshotInPlace
  <1> QED BY <1>1, DataInvariant, PTL

-----------------------------------------------------------------------------
(* What a step does to a run on disk, seen from outside.                   *)

\* The effects on one run, named as RunLedger names them; Draft rewrites the
\* run.json of a run underway and Enrich that of a saved run, which the ledger
\* does not see.
Begins(p, r) ==
    /\ gate = p /\ Staged = {} /\ place[r] = "none" /\ place'[r] = "staging"
    /\ json[r].analyses = {} /\ json'[r].analyses = {}
    /\ pc'[p] = "beginRow" /\ tgt'[p] = r
Drops(p, r) ==
    /\ gate = p /\ place[r] = "staging" /\ place'[r] = "none"
    /\ json[r].analyses = {} /\ json'[r].analyses = {}
Saves(p, r) ==
    /\ gate = p /\ place[r] = "staging" /\ place'[r] = "final" /\ json'[r] = json[r]
    /\ pc'[p] \in {"finishCommit", "recoverInsert"} /\ tgt'[p] = r
Drafts(p, r) ==
    /\ gate = p /\ place[r] = "staging" /\ place'[r] = "staging"
    /\ json[r].analyses = {} /\ json'[r].analyses = {}
Judges(r) ==
    /\ json[r].pending /\ ~json'[r].pending /\ json'[r].passed \in {"yes", "no"}
    /\ json'[r].analyses = json[r].analyses
Analyzes(r) ==
    /\ json[r].passed = "yes"
    /\ \E n : n \notin json[r].analyses /\ json'[r].analyses = json[r].analyses \cup {n}
    /\ json'[r].passed = json[r].passed /\ json'[r].pending = json[r].pending
Enriches(r) ==
    /\ json'[r].passed = json[r].passed /\ json'[r].pending = json[r].pending
    /\ json'[r].analyses = json[r].analyses

\* A saved run is edited by the holder of its lock.
Revises(p, r) ==
    /\ runlock[r] = p /\ place[r] = "final" /\ place'[r] = "final"
    /\ tgt[p] = r /\ tgt'[p] = r
    /\ pc[p] \in {"analyze", "rescore", "enrichWrite"}
    /\ pc'[p] \in {"analyzeCommit", "rescoreCommit", "enrichCommit"}
    /\ json'[r].ver = json[r].ver + 1 /\ json'[r].interrupted = json[r].interrupted
    /\ Judges(r) \/ Analyzes(r) \/ Enriches(r)

Effect(p, r) ==
    /\ pc'[p] # pc[p] /\ row' = row
    /\ \A s \in Run : s # r => place'[s] = place[s] /\ json'[s] = json[s]
    /\ \/ Begins(p, r) \/ Drops(p, r) \/ Saves(p, r) \/ Drafts(p, r)
       \/ Revises(p, r)

\* What the owner of an unsaved run knows, by the step it is at.
LEMMA OwnedRun ==
    ASSUME DInv, NEW p \in Proc, pc[p] \in Staging \cup {"prepare"}
    PROVE  /\ tgt[p] \in Run /\ gate = p /\ json[tgt[p]].analyses = {}
           /\ pc[p] \in Staging => place[tgt[p]] = "staging" /\ Plain(json[tgt[p]])
           /\ pc[p] = "prepare" => place[tgt[p]] = "none" /\ Staged = {}
  <1>1. tgt[p] \in Run
    BY DEF DInv, TypeInv, TargetOK, Targetless, Staging, Owned
  <1>2. gate = p
    BY DEF DInv, Control, Holds, GateOK, GateHeld, InRun, Staging, Owned
  <1>3. /\ pc[p] \in Staging => place[tgt[p]] = "staging"
        /\ pc[p] = "prepare" => place[tgt[p]] = "none" /\ Staged = {}
    BY DEF DInv, Data, StagedOK, Cleared, Control, Holds, PlaceOK
  <1>4. JsonOK(tgt[p])
    BY <1>1 DEF DInv, Data, RunOK
  <1> QED BY <1>1, <1>2, <1>3, <1>4 DEF JsonOK, Plain, Blank

LEMMA EntryEffect ==
    ASSUME DInv, NEW p \in Proc, EntryStep(p)
    PROVE  UNCHANGED <<place, json>> \/ \E r \in Run : Effect(p, r)
  <1> USE DEF local, locks, disk, bounds
  <1>0. TypeInv
    BY DEF DInv
  <1>1. CASE RecoverWrite(p)
    <2>1. PICK r \in todo[p] : /\ place[r] = "staging"
                               /\ json' = [json EXCEPT ![r] = Written(AsAborted(json[r]))]
      BY <1>1 DEF RecoverWrite
    <2>2. r \in Run /\ json[r] \in Manifest /\ AsAborted(json[r]) \in Manifest
      BY <1>0, <2>1, ManifestTyped DEF TypeInv, TypeOK
    <2>3. json[r].analyses = {}
      BY <2>1, <2>2 DEF DInv, Data, RunOK, JsonOK, Plain
    <2>4. Written(AsAborted(json[r])).analyses = {}
      BY <2>2, <2>3, Edits
    <2>5. /\ pc[p] = "recover" /\ pc'[p] = "recoverMove" /\ place' = place
          /\ json'[r].analyses = {} /\ \A s \in Run : s # r => json'[s] = json[s]
          /\ row' = row
      BY <1>0, <1>1, <2>1, <2>2, <2>4 DEF RecoverWrite, GoTo, TypeInv, TypeOK
    <2>6. gate = p
      BY <2>5 DEF DInv, Control, Holds, GateOK, GateHeld
    <2>7. Drafts(p, r)
      BY <2>1, <2>3, <2>5, <2>6 DEF Drafts
    <2> QED BY <2>2, <2>5, <2>7 DEF Effect
  <1>2. CASE RecoverMove(p)
    <2>1. /\ pc[p] = "recoverMove" /\ pc'[p] = "recoverInsert" /\ json' = json
          /\ row' = row /\ tgt' = tgt
          /\ place' = [place EXCEPT ![tgt[p]] = "final"]
      BY <1>0, <1>2 DEF RecoverMove, GoTo, TypeInv, TypeOK
    <2>2. tgt[p] \in Run /\ gate = p /\ place[tgt[p]] = "staging"
      BY <2>1, OwnedRun DEF Staging
    <2>3. place'[tgt[p]] = "final" /\ \A s \in Run : s # tgt[p] => place'[s] = place[s]
      BY <1>0, <2>1, <2>2 DEF TypeInv, TypeOK
    <2>4. Saves(p, tgt[p])
      BY <2>1, <2>2, <2>3 DEF Saves
    <2> QED BY <2>1, <2>2, <2>3, <2>4 DEF Effect
  <1>3. CASE ~RecoverWrite(p) /\ ~RecoverMove(p)
    BY <1>3 DEF EntryStep, GateTake, GateBusy, RecoverPass, RecoverInsert, RecoverUpdate,
                RecoverDone, CheckAnalyses, CheckResults
  <1> QED BY <1>1, <1>2, <1>3

LEMMA RunEffect ==
    ASSUME DInv, NEW p \in Proc, RunStep(p)
    PROVE  UNCHANGED <<place, json>> \/ \E r \in Run : Effect(p, r)
  <1> USE DEF local, locks, disk, bounds
  <1>0. TypeInv
    BY DEF DInv
  <1> DEFINE t == tgt[p]
  <1>1. CASE BeginFile(p)
    <2>1. pc[p] = "prepare"
      BY <1>1 DEF BeginFile
    <2>2. t \in Run /\ gate = p /\ Staged = {} /\ place[t] = "none" /\ json[t].analyses = {}
      BY <2>1, OwnedRun DEF Staging, Owned
    <2>3. /\ pc'[p] = "beginRow" /\ place'[t] = "staging" /\ json'[t].analyses = {}
          /\ row' = row /\ tgt' = tgt
          /\ \A s \in Run : s # t => place'[s] = place[s] /\ json'[s] = json[s]
      BY <1>0, <1>1, <2>2 DEF BeginFile, GoTo, TypeInv, TypeOK, Written, Blank
    <2>4. Begins(p, t)
      BY <2>2, <2>3 DEF Begins
    <2> QED BY <2>1, <2>2, <2>3, <2>4 DEF Effect
  <1>2. CASE DiscardFiles(p)
    <2>1. pc[p] = "discard"
      BY <1>2 DEF DiscardFiles
    <2>2. t \in Run /\ gate = p /\ place[t] = "staging" /\ json[t].analyses = {}
      BY <2>1, OwnedRun DEF Staging, Owned
    <2>3. /\ pc'[p] = "idle" /\ place'[t] = "none" /\ json'[t].analyses = {} /\ row' = row
          /\ \A s \in Run : s # t => place'[s] = place[s] /\ json'[s] = json[s]
      BY <1>0, <1>2, <2>2 DEF DiscardFiles, Exit, GoTo, TypeInv, TypeOK, Blank
    <2>4. Drops(p, t)
      BY <2>2, <2>3 DEF Drops
    <2> QED BY <2>1, <2>2, <2>3, <2>4 DEF Effect
  <1>3. CASE FinishMove(p)
    <2>1. pc[p] = "finishMove"
      BY <1>3 DEF FinishMove
    <2>2. t \in Run /\ gate = p /\ place[t] = "staging"
      BY <2>1, OwnedRun DEF Staging, Owned
    <2>3. /\ pc'[p] = "finishCommit" /\ place'[t] = "final" /\ json' = json
          /\ row' = row /\ tgt' = tgt
          /\ \A s \in Run : s # t => place'[s] = place[s]
      BY <1>0, <1>3, <2>2 DEF FinishMove, GoTo, TypeInv, TypeOK
    <2>4. Saves(p, t)
      BY <2>2, <2>3 DEF Saves
    <2> QED BY <2>1, <2>2, <2>3, <2>4 DEF Effect
  <1>4. CASE Checkpoint(p) \/ Finish(p)
    <2>1. pc[p] \in {"checkpoint", "finish"} /\ pc'[p] # pc[p]
      BY <1>0, <1>4 DEF Checkpoint, Finish, GoTo, TypeInv, TypeOK
    <2>2. t \in Run /\ gate = p /\ place[t] = "staging" /\ json[t].analyses = {}
      BY <2>1, OwnedRun DEF Staging, Owned
    <2>3. mine[p] \in Manifest /\ mine[p].analyses = {}
      BY <1>0, <2>1 DEF DInv, Data, MineOK, DraftOK, Plain, TypeInv, TypeOK
    <2>4. PICK w : json' = [json EXCEPT ![t] = w] /\ w.analyses = {}
      <3>1. CASE Checkpoint(p)
        <4>1. json' = [json EXCEPT ![t] = Written(mine[p])]
          BY <3>1 DEF Checkpoint
        <4>2. Written(mine[p]).analyses = {}
          BY <2>3, Edits
        <4> QED BY <4>1, <4>2
      <3>2. CASE Finish(p)
        <4> DEFINE c == Settle(mine[p])
                   d == [c EXCEPT !.analysis = AnalysisFor(mine[p].passed)]
        <4>1. c \in Manifest /\ c.analyses = {}
          BY <2>3, Edits, ManifestTyped
        <4> HIDE DEF c
        <4>2. d \in Manifest /\ d.analyses = {}
          BY <4>1 DEF Manifest, AnalysisFor, AnalysisStatus
        <4>3. json' = [json EXCEPT ![t] = Written(d)]
          BY <3>2 DEF Finish, c
        <4> HIDE DEF d
        <4> QED BY <4>2, <4>3, Edits
      <3> QED BY <1>4, <3>1, <3>2
    <2>5. /\ place' = place /\ json'[t].analyses = {} /\ row' = row
          /\ \A s \in Run : s # t => json'[s] = json[s]
      BY <1>0, <1>4, <2>2, <2>4 DEF Checkpoint, Finish, TypeInv, TypeOK
    <2>6. Drafts(p, t)
      BY <2>2, <2>5 DEF Drafts
    <2> QED BY <2>1, <2>2, <2>5, <2>6 DEF Effect
  <1>5. CASE ~(BeginFile(p) \/ DiscardFiles(p) \/ FinishMove(p) \/ Checkpoint(p) \/ Finish(p))
    BY <1>5 DEF RunStep, NewRun, PrepareFail, BeginRow, DiscardRow, Benchmark, FinishCommit, RunDone
  <1> QED BY <1>1, <1>2, <1>3, <1>4, <1>5

LEMMA SavedEffect ==
    ASSUME DInv, NEW p \in Proc, SavedStep(p)
    PROVE  UNCHANGED <<place, json>> \/ \E r \in Run : Effect(p, r)
  <1> USE DEF local, locks, disk, bounds
  <1>0. TypeInv
    BY DEF DInv
  <1> DEFINE t == tgt[p]
  <1>1. CASE AnalyzeWrite(p)
    <2>1. /\ pc[p] = "analyze" /\ pc'[p] = "analyzeCommit" /\ mine[p].passed = "yes"
          /\ UNCHANGED <<place, tgt, row>>
      BY <1>0, <1>1 DEF AnalyzeWrite, GoTo, TypeInv, TypeOK
    <2>2. /\ t \in Run /\ place[t] = "final" /\ runlock[t] = p /\ mine[p] = json[t] /\ JsonOK(t)
          /\ json[t] \in Manifest /\ json[t].ver \in Nat
      BY <2>1, LockedRun DEF LockHeld, MineOK, LoadedOK, Loaded, RunOK
    <2>3. PICK v \in {"complete", "skipped"} :
            json' = [json EXCEPT ![t] = Written([json[t] EXCEPT !.analysis = v,
                                        !.analyses = json[t].analyses \cup {json[t].ver}])]
      BY <1>1, <2>2 DEF AnalyzeWrite
    <2> DEFINE d == [json[t] EXCEPT !.analysis = v, !.analyses = json[t].analyses \cup {json[t].ver}]
    <2>4. /\ d \in Manifest /\ d.passed = json[t].passed /\ d.pending = json[t].pending
          /\ d.ver = json[t].ver /\ d.interrupted = json[t].interrupted
          /\ d.analyses = json[t].analyses \cup {json[t].ver}
      <3>1. json[t].analyses \cup {json[t].ver} \in SUBSET Nat /\ v \in AnalysisStatus
        BY <2>2, ManifestFields DEF AnalysisStatus
      <3> QED BY <2>2, <3>1 DEF Manifest
    <2> HIDE DEF d
    <2>5. json' = [json EXCEPT ![t] = Written(d)]
      BY <2>3 DEF d
    <2>6. \A s \in Run : s # t => json'[s] = json[s]
      BY <1>0, <2>2, <2>5 DEF TypeInv, TypeOK
    <2>7. json'[t] = Written(d)
      BY <1>0, <2>2, <2>5 DEF TypeInv, TypeOK
    <2>8. json[t].ver \notin json[t].analyses
      BY <2>2 DEF JsonOK
    <2>9. Analyzes(t)
      BY <2>1, <2>2, <2>4, <2>7, <2>8, Edits DEF Analyzes
    <2>10. json'[t].ver = json[t].ver + 1 /\ json'[t].interrupted = json[t].interrupted
      BY <2>4, <2>7, Edits
    <2> QED BY <2>1, <2>2, <2>6, <2>9, <2>10 DEF Effect, Revises
  <1>2. CASE RescoreWrite(p)
    <2>1. /\ pc[p] = "rescore" /\ pc'[p] = "rescoreCommit" /\ mine[p].pending
          /\ UNCHANGED <<place, tgt, row>>
      BY <1>0, <1>2 DEF RescoreWrite, GoTo, TypeInv, TypeOK
    <2>2. /\ t \in Run /\ place[t] = "final" /\ runlock[t] = p
          /\ mine[p] = json[t] /\ json[t] \in Manifest
      BY <2>1, LockedRun DEF LockHeld, MineOK, LoadedOK, Loaded, RunOK
    <2>3. PICK v \in {"yes", "no"} :
            json' = [json EXCEPT ![t] =
              Written([Settle([json[t] EXCEPT !.passed = v, !.pending = FALSE])
                         EXCEPT !.analysis = AnalysisFor(v)])]
      BY <1>2, <2>2 DEF RescoreWrite
    <2> DEFINE b == [json[t] EXCEPT !.passed = v, !.pending = FALSE]
               c == Settle(b)
               d == [c EXCEPT !.analysis = AnalysisFor(v)]
    <2>4. /\ b \in Manifest /\ b.passed = v /\ b.pending = FALSE /\ b.analyses = json[t].analyses
          /\ b.ver = json[t].ver /\ b.interrupted = json[t].interrupted
      BY <2>2 DEF Manifest, Verdict
    <2> HIDE DEF b
    <2>5. /\ c \in Manifest /\ c.passed = v /\ c.pending = FALSE /\ c.analyses = json[t].analyses
          /\ c.ver = json[t].ver /\ c.interrupted = json[t].interrupted
      BY <2>4, Edits, ManifestTyped
    <2> HIDE DEF c
    <2>6. /\ d \in Manifest /\ d.passed = v /\ d.pending = FALSE /\ d.analyses = json[t].analyses
          /\ d.ver = json[t].ver /\ d.interrupted = json[t].interrupted
      BY <2>5 DEF Manifest, AnalysisFor, AnalysisStatus
    <2>7. json' = [json EXCEPT ![t] = Written(d)]
      BY <2>3 DEF b, c
    <2> HIDE DEF d
    <2>8. json'[t] = Written(d) /\ \A s \in Run : s # t => json'[s] = json[s]
      BY <1>0, <2>2, <2>7 DEF TypeInv, TypeOK
    <2>9. Judges(t) /\ json'[t].ver = json[t].ver + 1 /\ json'[t].interrupted = json[t].interrupted
      BY <2>1, <2>2, <2>6, <2>8, Edits DEF Judges
    <2> QED BY <2>1, <2>2, <2>8, <2>9 DEF Effect, Revises
  <1>3. CASE EnrichWrite(p)
    <2>1. /\ pc[p] = "enrichWrite" /\ pc'[p] = "enrichCommit"
          /\ UNCHANGED <<place, tgt, row>>
      BY <1>0, <1>3 DEF EnrichWrite, GoTo, TypeInv, TypeOK
    <2>2. t \in Run /\ place[t] = "final" /\ runlock[t] = p /\ EnrichOK(p)
      BY <2>1, LockedRun DEF LockHeld, MineOK
    <2>3. json'[t] = mine[p] /\ \A s \in Run : s # t => json'[s] = json[s]
      BY <1>0, <1>3, <2>2 DEF EnrichWrite, TypeInv, TypeOK
    <2>4. Enriches(t) /\ json'[t].ver = json[t].ver + 1 /\ json'[t].interrupted = json[t].interrupted
      BY <2>1, <2>2, <2>3 DEF Enriches, EnrichOK
    <2> QED BY <2>1, <2>2, <2>3, <2>4 DEF Effect, Revises
  <1>4. CASE ~(AnalyzeWrite(p) \/ RescoreWrite(p) \/ EnrichWrite(p))
    BY <1>4 DEF SavedStep, NoTarget, LockRun, AnalyzeRefuse, AnalyzeCommit, RescoreRefuse,
                RescoreCommit, EnrichSnapshot, EnrichCommit, EnrichPrune
  <1> QED BY <1>1, <1>2, <1>3, <1>4

\* A step of p, whatever it does.
Moves(p) == Step(p) \/ Crash(p) \/ \E c \in Commands : Start(p, c)

LEMMA MovesEffect ==
    ASSUME DInv, NEW p \in Proc, Moves(p)
    PROVE  UNCHANGED <<place, json>> \/ \E r \in Run : Effect(p, r)
  <1>1. CASE OpenStep(p) \/ Reap(p) \/ Crash(p) \/ \E c \in Commands : Start(p, c)
    <2>1. CASE Reap(p) \/ Crash(p) \/ \E c \in Commands : Start(p, c)
      BY <2>1 DEF Reap, Crash, Start, disk
    <2>2. CASE OpenStep(p)
      BY <2>2 DEF OpenStep, OpenSkip, OpenStale, OpenLock, RestoreSkip, RestoreRead, RestorePatch,
                  RestoreRebuild, OpenDone, Dispatch, disk
    <2> QED BY <1>1, <2>1, <2>2
  <1> QED BY <1>1, EntryEffect, RunEffect, SavedEffect DEF Moves, Step

LEMMA StepEffect ==
    ASSUME DInv, [Next]_vars
    PROVE  UNCHANGED <<place, json>> \/ \E p \in Proc, r \in Run : Effect(p, r)
  <1>1. CASE UNCHANGED vars
    BY <1>1 DEF vars, disk
  <1>2. CASE Next
    <2>1. PICK p \in Proc : Moves(p)
      BY <1>2 DEF Next, Moves
    <2> QED BY <2>1, MovesEffect
  <1> QED BY <1>1, <1>2

-----------------------------------------------------------------------------
(* The action properties.                                                  *)

\* From begin until its run is saved, no other process touches the directory
\* and the run.json of a run: recovery takes over only the runs of processes
\* that are gone, because it needs the gate.
THEOREM LiveRunKept == Spec => LiveRunUntouched
  <1>1. ASSUME DInv, [Next]_vars, NEW p \in Proc, pc[p] \in Owned, pc'[p] = pc[p]
        PROVE  place'[tgt[p]] = place[tgt[p]] /\ json'[tgt[p]] = json[tgt[p]]
    <2>1. tgt[p] \in Run /\ gate = p /\ place[tgt[p]] = "staging"
      BY <1>1, OwnedRun DEF Staging
    <2>2. CASE UNCHANGED <<place, json>>
      BY <2>2
    <2>3. CASE \E q \in Proc, r \in Run : Effect(q, r)
      <3>1. PICK q \in Proc, r \in Run : Effect(q, r)
        BY <2>3
      <3>2. r # tgt[p]
        BY <1>1, <2>1, <3>1 DEF Effect, Begins, Drops, Saves, Drafts, Revises
      <3> QED BY <2>1, <3>1, <3>2 DEF Effect
    <2> QED BY <1>1, <2>2, <2>3, StepEffect
  <1>2. DInv /\ [Next]_vars =>
          [\A p \in Proc : pc[p] \in Owned /\ pc'[p] = pc[p]
             => /\ place'[tgt[p]] = place[tgt[p]]
                /\ json'[tgt[p]] = json[tgt[p]]]_vars
    BY <1>1
  <1> QED BY <1>2, DataInvariant, PTL DEF Spec, LiveRunUntouched

\* No recorded analysis is lost, and a saved run stays saved: whoever writes
\* the run.json of a saved run read it under the lock it writes it under.
THEOREM AnalysesStay == Spec => AnalysesKept
  <1>1. ASSUME DInv, [Next]_vars, NEW r \in Run, place[r] = "final"
        PROVE  place'[r] = "final" /\ json[r].analyses \subseteq json'[r].analyses
    <2>1. CASE UNCHANGED <<place, json>>
      BY <1>1, <2>1
    <2>2. CASE \E q \in Proc, s \in Run : Effect(q, s)
      <3>1. PICK q \in Proc, s \in Run : Effect(q, s)
        BY <2>2
      <3>2. CASE s # r
        BY <1>1, <3>1, <3>2 DEF Effect
      <3>3. CASE s = r
        BY <1>1, <3>1, <3>3
           DEF Effect, Begins, Drops, Saves, Drafts, Revises, Judges, Analyzes, Enriches
      <3> QED BY <3>2, <3>3
    <2> QED BY <1>1, <2>1, <2>2, StepEffect
  <1>2. DInv /\ [Next]_vars =>
          [\A r \in Run : place[r] = "final"
             => place'[r] = "final" /\ json[r].analyses \subseteq json'[r].analyses]_vars
    BY <1>1
  <1> QED BY <1>2, DataInvariant, PTL DEF Spec, AnalysesKept

-----------------------------------------------------------------------------
(* RunStore implements RunLedger.                                          *)

\* The ledger that a state of the directory stands for.
PhaseOf   == [r \in Run |-> CASE place[r] = "none" -> "absent"
                              [] place[r] = "staging" -> "underway"
                              [] place[r] = "final" -> "saved"]
VerdictOf == [r \in Run |-> IF place[r] = "final" THEN json[r].passed ELSE "null"]
OpenOf    == [r \in Run |-> place[r] = "final" /\ json[r].pending]
NotesOf   == [r \in Run |-> json[r].analyses]

\* An effect on one run is an effect on one entry of the ledger.
LEMMA OneEntry ==
    ASSUME NEW r \in Run, \A s \in Run : s # r => place'[s] = place[s] /\ json'[s] = json[s]
    PROVE  /\ PhaseOf' = [PhaseOf EXCEPT ![r] = PhaseOf'[r]]
           /\ VerdictOf' = [VerdictOf EXCEPT ![r] = VerdictOf'[r]]
           /\ OpenOf' = [OpenOf EXCEPT ![r] = OpenOf'[r]]
           /\ NotesOf' = [NotesOf EXCEPT ![r] = NotesOf'[r]]
  <1> DEFINE P(s) == CASE place[s] = "none" -> "absent"
                       [] place[s] = "staging" -> "underway"
                       [] place[s] = "final" -> "saved"
             V(s) == IF place[s] = "final" THEN json[s].passed ELSE "null"
             O(s) == place[s] = "final" /\ json[s].pending
             N(s) == json[s].analyses
  <1>1. \A s \in Run : s # r => P(s)' = P(s) /\ V(s)' = V(s) /\ O(s)' = O(s) /\ N(s)' = N(s)
    OBVIOUS
  <1>2. /\ PhaseOf = [s \in Run |-> P(s)] /\ PhaseOf' = [s \in Run |-> P(s)']
        /\ VerdictOf = [s \in Run |-> V(s)] /\ VerdictOf' = [s \in Run |-> V(s)']
        /\ OpenOf = [s \in Run |-> O(s)] /\ OpenOf' = [s \in Run |-> O(s)']
        /\ NotesOf = [s \in Run |-> N(s)] /\ NotesOf' = [s \in Run |-> N(s)']
    BY DEF PhaseOf, VerdictOf, OpenOf, NotesOf
  <1> HIDE DEF P, V, O, N
  <1> QED BY <1>1, <1>2

LEMMA LedgerStep ==
    ASSUME DInv, [Next]_vars
    PROVE  [Ledger!Next]_(Ledger!vars)
  <1>0. TypeInv /\ TypeInv'
    BY DataInductive DEF DInv
  <1>1. CASE UNCHANGED <<place, json>>
    BY <1>1 DEF Ledger!vars
  <1>2. CASE \E p \in Proc, r \in Run : Effect(p, r)
    <2>1. PICK p \in Proc, r \in Run : Effect(p, r)
      BY <1>2
    <2>2. \A s \in Run : s # r => place'[s] = place[s] /\ json'[s] = json[s]
      BY <2>1 DEF Effect
    <2>3. /\ json[r].passed \in {"null", "yes", "no"} /\ json'[r].passed \in {"null", "yes", "no"}
          /\ json[r].pending \in BOOLEAN /\ json'[r].pending \in BOOLEAN
      BY <1>0 DEF TypeInv, TypeOK, Manifest, Verdict
    <2>4. /\ PhaseOf' = [PhaseOf EXCEPT ![r] = PhaseOf'[r]]
          /\ VerdictOf' = [VerdictOf EXCEPT ![r] = VerdictOf'[r]]
          /\ OpenOf' = [OpenOf EXCEPT ![r] = OpenOf'[r]]
          /\ NotesOf' = [NotesOf EXCEPT ![r] = NotesOf'[r]]
      BY <2>2, OneEntry
    <2>5. /\ PhaseOf[r] = CASE place[r] = "none" -> "absent"
                            [] place[r] = "staging" -> "underway"
                            [] place[r] = "final" -> "saved"
          /\ PhaseOf'[r] = CASE place'[r] = "none" -> "absent"
                             [] place'[r] = "staging" -> "underway"
                             [] place'[r] = "final" -> "saved"
          /\ VerdictOf[r] = IF place[r] = "final" THEN json[r].passed ELSE "null"
          /\ VerdictOf'[r] = IF place'[r] = "final" THEN json'[r].passed ELSE "null"
          /\ OpenOf[r] = (place[r] = "final" /\ json[r].pending)
          /\ OpenOf'[r] = (place'[r] = "final" /\ json'[r].pending)
          /\ NotesOf[r] = json[r].analyses /\ NotesOf'[r] = json'[r].analyses
      BY DEF PhaseOf, VerdictOf, OpenOf, NotesOf
    <2>6. /\ PhaseOf = [PhaseOf EXCEPT ![r] = PhaseOf[r]]
          /\ VerdictOf = [VerdictOf EXCEPT ![r] = VerdictOf[r]]
          /\ OpenOf = [OpenOf EXCEPT ![r] = OpenOf[r]]
          /\ NotesOf = [NotesOf EXCEPT ![r] = NotesOf[r]]
      <3>1. PhaseOf = [PhaseOf EXCEPT ![r] = PhaseOf[r]]
        <4> DEFINE P(s) == CASE place[s] = "none" -> "absent"
                             [] place[s] = "staging" -> "underway"
                             [] place[s] = "final" -> "saved"
        <4>1. PhaseOf = [s \in Run |-> P(s)]
          BY DEF PhaseOf
        <4> HIDE DEF P
        <4> QED BY <4>1
      <3>2. VerdictOf = [VerdictOf EXCEPT ![r] = VerdictOf[r]]
        BY DEF VerdictOf
      <3>3. OpenOf = [OpenOf EXCEPT ![r] = OpenOf[r]]
        BY DEF OpenOf
      <3>4. NotesOf = [NotesOf EXCEPT ![r] = NotesOf[r]]
        BY DEF NotesOf
      <3> QED BY <3>1, <3>2, <3>3, <3>4
    <2>7. CASE Begins(p, r)
      <3>1. PhaseOf[r] = "absent" /\ PhaseOf'[r] = "underway"
        BY <2>5, <2>7 DEF Begins
      <3>2. \A s \in Run : PhaseOf[s] # "underway"
        BY <1>0, <2>7 DEF Begins, PhaseOf, Staged, TypeInv, TypeOK, Place
      <3>3. UNCHANGED <<VerdictOf, OpenOf, NotesOf>>
        <4>1. VerdictOf'[r] = VerdictOf[r] /\ NotesOf'[r] = NotesOf[r]
          BY <2>5, <2>7 DEF Begins
        <4>2. OpenOf'[r] = OpenOf[r]
          BY <2>5, <2>7 DEF Begins
        <4> QED BY <2>4, <2>6, <4>1, <4>2
      <3>4. PhaseOf' = [PhaseOf EXCEPT ![r] = "underway"]
        BY <2>4, <3>1
      <3> QED BY <3>1, <3>2, <3>3, <3>4
             DEF Ledger!Next, Ledger!Begin, PhaseOf, VerdictOf, OpenOf, NotesOf
    <2>8. CASE Drops(p, r)
      <3>1. PhaseOf[r] = "underway" /\ PhaseOf'[r] = "absent"
        BY <2>5, <2>8 DEF Drops
      <3>2. UNCHANGED <<VerdictOf, OpenOf, NotesOf>>
        <4>1. VerdictOf'[r] = VerdictOf[r] /\ NotesOf'[r] = NotesOf[r]
          BY <2>5, <2>8 DEF Drops
        <4>2. OpenOf'[r] = OpenOf[r]
          BY <2>5, <2>8 DEF Drops
        <4> QED BY <2>4, <2>6, <4>1, <4>2
      <3>3. PhaseOf' = [PhaseOf EXCEPT ![r] = "absent"]
        BY <2>4, <3>1
      <3> QED BY <3>1, <3>2, <3>3
             DEF Ledger!Next, Ledger!Drop, PhaseOf, VerdictOf, OpenOf, NotesOf
    <2>9. CASE Saves(p, r)
      <3>1. PhaseOf[r] = "underway" /\ PhaseOf'[r] = "saved"
        BY <2>5, <2>9 DEF Saves
      <3>2. UNCHANGED NotesOf
        BY <2>4, <2>5, <2>6, <2>9 DEF Saves
      <3>3. PhaseOf' = [PhaseOf EXCEPT ![r] = "saved"]
        BY <2>4, <3>1
      <3>4. VerdictOf'[r] \in {"null", "yes", "no"} /\ OpenOf'[r] \in BOOLEAN
        BY <2>3, <2>5
      <3>5. /\ \E v \in {"null", "yes", "no"} : VerdictOf' = [VerdictOf EXCEPT ![r] = v]
            /\ \E o \in BOOLEAN : OpenOf' = [OpenOf EXCEPT ![r] = o]
        BY <2>4, <3>4
      <3> QED BY <3>1, <3>2, <3>3, <3>5
             DEF Ledger!Next, Ledger!Save, PhaseOf, VerdictOf, OpenOf, NotesOf
    <2>10. CASE Drafts(p, r)
      <3>1. UNCHANGED <<PhaseOf, VerdictOf, NotesOf>>
        BY <2>4, <2>5, <2>6, <2>10, SMTT(30) DEF Drafts
      <3>2. OpenOf'[r] = OpenOf[r]
        BY <2>5, <2>10 DEF Drafts
      <3>3. UNCHANGED OpenOf
        BY <2>4, <2>6, <3>2
      <3> QED BY <3>1, <3>3 DEF Ledger!vars, PhaseOf, VerdictOf, OpenOf, NotesOf
    <2>11. CASE Revises(p, r)
      <3>1. PhaseOf[r] = "saved" /\ UNCHANGED PhaseOf
        BY <2>4, <2>5, <2>6, <2>11 DEF Revises
      <3>2. CASE Judges(r)
        <4>1. VerdictOf'[r] \in {"yes", "no"} /\ NotesOf'[r] = NotesOf[r]
          BY <2>5, <2>11, <3>2 DEF Judges, Revises
        <4>2. OpenOf[r] /\ OpenOf'[r] = FALSE
          BY <2>3, <2>5, <2>11, <3>2 DEF Judges, Revises
        <4>3. UNCHANGED NotesOf /\ OpenOf' = [OpenOf EXCEPT ![r] = FALSE]
          BY <2>4, <2>6, <4>1, <4>2
        <4>4. \E v \in {"yes", "no"} : VerdictOf' = [VerdictOf EXCEPT ![r] = v]
          BY <2>4, <4>1
        <4> QED BY <3>1, <4>2, <4>3, <4>4
               DEF Ledger!Next, Ledger!Judge, PhaseOf, VerdictOf, OpenOf, NotesOf
      <3>3. CASE Analyzes(r)
        <4>1. PICK n : /\ n \notin json[r].analyses
                       /\ json'[r].analyses = json[r].analyses \cup {n}
          BY <3>3 DEF Analyzes
        <4>2. /\ VerdictOf[r] = "yes" /\ VerdictOf'[r] = VerdictOf[r]
              /\ n \notin NotesOf[r] /\ n \in NotesOf'[r] /\ NotesOf'[r] = NotesOf[r] \cup {n}
          BY <2>5, <2>11, <3>3, <4>1 DEF Analyzes, Revises
        <4>3. OpenOf'[r] = OpenOf[r]
          BY <2>5, <2>11, <3>3 DEF Analyzes, Revises
        <4>4. UNCHANGED <<VerdictOf, OpenOf>> /\ NotesOf' = [NotesOf EXCEPT ![r] = @ \cup {n}]
          BY <2>4, <2>6, <4>2, <4>3
        <4>5. \E k \in NotesOf'[r] : /\ k \notin NotesOf[r]
                                    /\ NotesOf' = [NotesOf EXCEPT ![r] = @ \cup {k}]
          BY <4>2, <4>4
        <4> QED BY <3>1, <4>2, <4>4, <4>5
               DEF Ledger!Next, Ledger!Analyze, PhaseOf, VerdictOf, OpenOf, NotesOf
      <3>4. CASE Enriches(r)
        <4>1. VerdictOf'[r] = VerdictOf[r] /\ NotesOf'[r] = NotesOf[r]
          BY <2>5, <2>11, <3>4 DEF Enriches, Revises
        <4>2. OpenOf'[r] = OpenOf[r]
          BY <2>5, <2>11, <3>4 DEF Enriches, Revises
        <4>3. UNCHANGED <<VerdictOf, OpenOf, NotesOf>>
          BY <2>4, <2>6, <4>1, <4>2
        <4> QED BY <3>1, <4>3 DEF Ledger!vars, PhaseOf, VerdictOf, OpenOf, NotesOf
      <3> QED BY <2>11, <3>2, <3>3, <3>4 DEF Revises
    <2> QED BY <2>1, <2>7, <2>8, <2>9, <2>10, <2>11 DEF Effect
  <1> QED BY <1>1, <1>2, StepEffect

\* Whatever the processes do, and wherever they are killed and recovered, a
\* user sees one ledger: one run underway at a time, dropped or saved once, a
\* verdict that changes only where it was left open, analyses that only grow.
THEOREM Implements == Spec => ImplementsLedger
  <1>1. Init => Ledger!Init
    <2> SUFFICES ASSUME Init PROVE Ledger!Init
      OBVIOUS
    <2>1. \A r \in Run : place[r] = "none" /\ json[r].analyses = {}
      BY DEF Init, Blank
    <2>2. PhaseOf = [r \in Run |-> "absent"] /\ VerdictOf = [r \in Run |-> "null"]
      BY <2>1 DEF PhaseOf, VerdictOf
    <2>3. NotesOf = [r \in Run |-> {}]
      BY <2>1 DEF NotesOf
    <2>4. OpenOf = [r \in Run |-> FALSE]
      BY <2>1 DEF OpenOf
    <2> QED BY <2>2, <2>3, <2>4 DEF Ledger!Init, PhaseOf, VerdictOf, OpenOf, NotesOf
  <1>2. DInv /\ [Next]_vars => [Ledger!Next]_(Ledger!vars)
    BY LedgerStep
  <1> QED BY <1>1, <1>2, DataInvariant, PTL DEF Spec, ImplementsLedger, Ledger!Spec

-----------------------------------------------------------------------------
(* What a step does to the rows.                                           *)

\* The steps that write the index.
RowStep(p) ==
    \/ RestorePatch(p) \/ RestoreRebuild(p) \/ RecoverInsert(p) \/ RecoverUpdate(p)
    \/ BeginRow(p) \/ DiscardRow(p) \/ FinishCommit(p)
    \/ AnalyzeCommit(p) \/ RescoreCommit(p) \/ EnrichCommit(p)

LEMMA MovesRow ==
    ASSUME NEW p \in Proc, Moves(p)
    PROVE  row' = row \/ RowStep(p)
  <1> USE DEF bounds
  <1>1. CASE OpenStep(p)
    BY <1>1 DEF OpenStep, RowStep, OpenSkip, OpenStale, OpenLock, RestoreSkip, RestoreRead,
                OpenDone, Dispatch
  <1>2. CASE EntryStep(p)
    BY <1>2 DEF EntryStep, RowStep, GateTake, GateBusy, RecoverPass, RecoverWrite, RecoverMove,
                RecoverDone, CheckAnalyses, CheckResults
  <1>3. CASE RunStep(p)
    BY <1>3 DEF RunStep, RowStep, NewRun, PrepareFail, BeginFile, DiscardFiles, Benchmark,
                Checkpoint, Finish, FinishMove, RunDone
  <1>4. CASE SavedStep(p)
    BY <1>4 DEF SavedStep, RowStep, NoTarget, LockRun, AnalyzeRefuse, AnalyzeWrite, RescoreRefuse,
                RescoreWrite, EnrichSnapshot, EnrichWrite, EnrichPrune
  <1>5. CASE Reap(p) \/ Crash(p) \/ \E c \in Commands : Start(p, c)
    BY <1>5 DEF Reap, Crash, Start
  <1> QED BY <1>1, <1>2, <1>3, <1>4, <1>5 DEF Moves, Step

\* A row is written by whoever holds its run, with the analyses of run.json.
LEMMA RowGrows ==
    ASSUME DInv, NEW p \in Proc, RowStep(p), NEW r \in Run
    PROVE  row[r].analyses \subseteq row'[r].analyses
  <1>0. TypeInv
    BY DEF DInv
  <1> DEFINE t == tgt[p]
  <1>1. t \in Run /\ row[t] \in Row /\ mine[p] \in Manifest /\ RowOK(t) /\ JsonOK(t)
    BY <1>0 DEF RowStep, RestorePatch, RestoreRebuild, RecoverInsert, RecoverUpdate, BeginRow,
                DiscardRow, FinishCommit, AnalyzeCommit, RescoreCommit, EnrichCommit,
                TypeInv, TypeOK, TargetOK, Targetless, DInv, Data, RunOK
  <1>2. row[t].analyses \subseteq json[t].analyses
    BY <1>1 DEF RowOK
  <1>3. CASE \E w : row' = [row EXCEPT ![t] = w] /\ row[t].analyses \subseteq w.analyses
    BY <1>0, <1>1, <1>3 DEF TypeInv, TypeOK
  <1>4. CASE RestorePatch(p) \/ RestoreRebuild(p) \/ FinishCommit(p)
    <2>1. mine[p] = json[t]
      BY <1>4 DEF RestorePatch, RestoreRebuild, FinishCommit, DInv, Data, MineOK, LoadedOK, Loaded
    <2>2. CASE RestorePatch(p)
      <3> DEFINE w == [row[t] EXCEPT !.analyses = row[t].analyses \cup mine[p].analyses,
                                     !.analysis = mine[p].analysis, !.stamp = mine[p].ver]
      <3>1. w.analyses = row[t].analyses \cup mine[p].analyses
        BY <1>1 DEF Row
      <3>2. row' = [row EXCEPT ![t] = w]
        BY <2>2 DEF RestorePatch
      <3> HIDE DEF w
      <3> QED BY <1>3, <3>1, <3>2
    <2>3. CASE RestoreRebuild(p)
      <3> DEFINE w == [RowOf(mine[p]) EXCEPT
                         !.snap = IF mine[p].snap \in snaps[t] THEN mine[p].snap ELSE 0,
                         !.stamp = json[t].ver]
      <3>1. w.analyses = mine[p].analyses
        BY DEF RowOf
      <3>2. row' = [row EXCEPT ![t] = w]
        BY <2>3 DEF RestoreRebuild
      <3> HIDE DEF w
      <3> QED BY <1>2, <1>3, <2>1, <3>1, <3>2
    <2>4. CASE FinishCommit(p)
      <3> DEFINE w == [RowOf(mine[p]) EXCEPT !.copies = row[t].copies + 1, !.stamp = json[t].ver]
      <3>1. w.analyses = mine[p].analyses
        BY DEF RowOf
      <3>2. row' = [row EXCEPT ![t] = w]
        BY <2>4 DEF FinishCommit
      <3> HIDE DEF w
      <3> QED BY <1>2, <1>3, <2>1, <3>1, <3>2
    <2> QED BY <1>4, <2>2, <2>3, <2>4
  <1>5. CASE RecoverInsert(p)
    <2>1. CASE Indexed(t)
      BY <1>5, <2>1 DEF RecoverInsert
    <2>2. CASE ~Indexed(t)
      <3> DEFINE w == [NoRow EXCEPT !.state = mine[p].state, !.analysis = mine[p].analysis]
      <3>1. row[t].analyses = {}
        BY <1>1, <2>2 DEF RowOK, NoRow
      <3>2. row' = [row EXCEPT ![t] = w]
        BY <1>5, <2>2 DEF RecoverInsert
      <3> HIDE DEF w
      <3> QED BY <1>3, <3>1, <3>2
    <2> QED BY <2>1, <2>2
  <1>6. CASE BeginRow(p) \/ DiscardRow(p)
    <2>1. pc[p] \in Staging
      BY <1>6 DEF BeginRow, DiscardRow, Staging, Owned
    <2>2. row[t].analyses = {}
      BY <1>2, <2>1, OwnedRun
    <2>3. \E w : row' = [row EXCEPT ![t] = w]
      BY <1>6 DEF BeginRow, DiscardRow
    <2> QED BY <1>3, <2>2, <2>3
  <1>7. CASE AnalyzeCommit(p)
    <2> DEFINE w == [row[t] EXCEPT !.analyses = row[t].analyses \cup NewNotes(mine[p]),
                                   !.analysis = mine[p].analysis, !.stamp = json[t].ver]
    <2>1. w.analyses = row[t].analyses \cup NewNotes(mine[p])
      BY <1>1 DEF Row
    <2>2. row' = [row EXCEPT ![t] = w]
      BY <1>7 DEF AnalyzeCommit
    <2> HIDE DEF w
    <2> QED BY <1>3, <2>1, <2>2
  <1>8. CASE RecoverUpdate(p) \/ RescoreCommit(p) \/ EnrichCommit(p)
    <2>1. PICK w : row' = [row EXCEPT ![t] = w] /\ w.analyses = row[t].analyses
      <3>1. CASE RecoverUpdate(p)
        <4> DEFINE w == [row[t] EXCEPT !.state = mine[p].state, !.passed = "no",
                                       !.analysis = mine[p].analysis]
        <4>1. w.analyses = row[t].analyses
          BY <1>1 DEF Row
        <4>2. row' = [row EXCEPT ![t] = w]
          BY <3>1 DEF RecoverUpdate
        <4> HIDE DEF w
        <4> QED BY <4>1, <4>2
      <3>2. CASE RescoreCommit(p)
        <4> DEFINE w == [row[t] EXCEPT !.passed = mine[p].passed, !.state = mine[p].state,
                                       !.analysis = mine[p].analysis, !.stamp = json[t].ver]
        <4>1. w.analyses = row[t].analyses
          BY <1>1 DEF Row
        <4>2. row' = [row EXCEPT ![t] = w]
          BY <3>2 DEF RescoreCommit
        <4> HIDE DEF w
        <4> QED BY <4>1, <4>2
      <3>3. CASE EnrichCommit(p)
        <4> DEFINE w == [row[t] EXCEPT !.state = mine[p].state, !.snap = mine[p].snap,
                                       !.stamp = json[t].ver]
        <4>1. w.analyses = row[t].analyses
          BY <1>1 DEF Row
        <4>2. row' = [row EXCEPT ![t] = w]
          BY <3>3 DEF EnrichCommit
        <4> HIDE DEF w
        <4> QED BY <4>1, <4>2
      <3> QED BY <1>8, <3>1, <3>2, <3>3
    <2> QED BY <1>3, <2>1
  <1> QED BY <1>4, <1>5, <1>6, <1>7, <1>8 DEF RowStep

\* The row of a saved run never loses an analysis: a row is rebuilt under the
\* lock of its run, from a manifest read under it, so never from an older one.
THEOREM RowsKeepAnalyses == Spec => IndexedAnalysesKept
  <1>1. DInv /\ [Next]_vars => [\A r \in Run : row[r].analyses \subseteq row'[r].analyses]_row
    <2> SUFFICES ASSUME DInv, [Next]_vars
                 PROVE  [\A r \in Run : row[r].analyses \subseteq row'[r].analyses]_row
      OBVIOUS
    <2>1. CASE UNCHANGED vars
      BY <2>1 DEF vars
    <2>2. CASE Next
      <3>1. PICK p \in Proc : Moves(p)
        BY <2>2 DEF Next, Moves
      <3>2. row' = row \/ RowStep(p)
        BY <3>1, MovesRow
      <3> QED BY <2>2, <3>2, RowGrows
    <2> QED BY <2>1, <2>2
  <1> QED BY <1>1, DataInvariant, PTL DEF Spec, IndexedAnalysesKept

-----------------------------------------------------------------------------
(* What a step of one process leaves to the others, for the theorems about *)
(* the index below.                                                        *)

Recovers == {"recoverMove", "recoverInsert", "recoverUpdate"}

\* It changes only runs that are not saved, runs it has locked, and the row of
\* the run it recovers.
Touches(p, r) == runlock[r] = p \/ place[r] # "final" \/ pc[p] \in Recovers

LEMMA MovesAlone ==
    ASSUME TypeInv, NEW p \in Proc, Moves(p)
    PROVE  Alone(p)
  <1>1. CASE OpenStep(p)
    BY <1>1 DEF OpenStep, OpenSkip, OpenStale, OpenLock, RestoreSkip, RestoreRead, RestorePatch,
                RestoreRebuild, OpenDone, Dispatch, ScanNext, Exit, GoTo, Alone, TypeInv, TypeOK
  <1>2. CASE EntryStep(p)
    <2>1. CASE GateTake(p) \/ GateBusy(p) \/ RecoverPass(p)
      BY <2>1 DEF GateTake, GateBusy, RecoverPass, Exit, GoTo, Alone, TypeInv, TypeOK
    <2>2. CASE RecoverWrite(p) \/ RecoverMove(p) \/ RecoverInsert(p) \/ RecoverUpdate(p)
      BY <2>2 DEF RecoverWrite, RecoverMove, RecoverInsert, RecoverUpdate, GoTo, Alone, TypeInv,
                  TypeOK
    <2>3. CASE RecoverDone(p) \/ CheckAnalyses(p) \/ CheckResults(p)
      BY <2>3 DEF RecoverDone, CheckAnalyses, CheckResults, Exit, GoTo, Alone, TypeInv, TypeOK
    <2> QED BY <1>2, <2>1, <2>2, <2>3 DEF EntryStep
  <1>3. CASE RunStep(p)
    <2>1. CASE NewRun(p) \/ PrepareFail(p) \/ BeginFile(p) \/ BeginRow(p) \/ DiscardRow(p)
               \/ DiscardFiles(p)
      BY <2>1 DEF NewRun, PrepareFail, BeginFile, BeginRow, DiscardRow, DiscardFiles, Exit, GoTo,
                  Alone, TypeInv, TypeOK
    <2>2. CASE Benchmark(p) \/ Checkpoint(p) \/ Finish(p) \/ FinishMove(p) \/ FinishCommit(p)
               \/ RunDone(p)
      BY <2>2 DEF Benchmark, Checkpoint, Finish, FinishMove, FinishCommit, RunDone, Exit, GoTo,
                  Alone, TypeInv, TypeOK
    <2> QED BY <1>3, <2>1, <2>2 DEF RunStep
  <1>4. CASE SavedStep(p)
    <2>1. CASE NoTarget(p) \/ LockRun(p) \/ AnalyzeRefuse(p) \/ AnalyzeWrite(p)
               \/ AnalyzeCommit(p) \/ RescoreRefuse(p)
      BY <2>1 DEF NoTarget, LockRun, AnalyzeRefuse, AnalyzeWrite, AnalyzeCommit, RescoreRefuse,
                  Exit, GoTo, Alone, TypeInv, TypeOK
    <2>2. CASE RescoreWrite(p) \/ RescoreCommit(p) \/ EnrichSnapshot(p) \/ EnrichWrite(p)
               \/ EnrichCommit(p) \/ EnrichPrune(p)
      BY <2>2 DEF RescoreWrite, RescoreCommit, EnrichSnapshot, EnrichWrite, EnrichCommit,
                  EnrichPrune, Exit, GoTo, Alone, TypeInv, TypeOK
    <2> QED BY <1>4, <2>1, <2>2 DEF SavedStep
  <1>5. CASE Reap(p) \/ Crash(p) \/ \E c \in Commands : Start(p, c)
    BY <1>5 DEF Reap, Crash, Start, Exit, GoTo, Alone, TypeInv, TypeOK
  <1> QED BY <1>1, <1>2, <1>3, <1>4, <1>5 DEF Moves, Step

\* A step that writes a row writes that of its own run, and nothing else on disk.
LEMMA RowStepFrame ==
    ASSUME DInv, NEW p \in Proc, RowStep(p)
    PROVE  /\ tgt[p] \in Run /\ row[tgt[p]] \in Row /\ mine[p] \in Manifest
           /\ json[tgt[p]] \in Manifest
           /\ UNCHANGED <<place, json, snaps>>
           /\ \A r \in Run : r # tgt[p] => row'[r] = row[r]
           /\ pc[p] \in LockHeld \cup Staging \cup Recovers
  <1> USE DEF disk
  <1>0. TypeInv
    BY DEF DInv
  <1>1. pc[p] \in LockHeld \cup {"beginRow", "benchmark", "recoverInsert", "recoverUpdate"}
    BY DEF RowStep, RestorePatch, RestoreRebuild, RecoverInsert, RecoverUpdate, BeginRow, DiscardRow,
           FinishCommit, AnalyzeCommit, RescoreCommit, EnrichCommit, LockHeld
  <1>2. tgt[p] \in Run
    BY <1>0, <1>1 DEF TypeInv, TargetOK, Targetless, LockHeld
  <1>3. UNCHANGED <<place, json, snaps>>
    BY DEF RowStep, RestorePatch, RestoreRebuild, RecoverInsert, RecoverUpdate, BeginRow, DiscardRow,
           FinishCommit, AnalyzeCommit, RescoreCommit, EnrichCommit
  <1>4. row' = row \/ \E w : row' = [row EXCEPT ![tgt[p]] = w]
    BY DEF RowStep, RestorePatch, RestoreRebuild, RecoverInsert, RecoverUpdate, BeginRow, DiscardRow,
           FinishCommit, AnalyzeCommit, RescoreCommit, EnrichCommit
  <1>5. \A r \in Run : r # tgt[p] => row'[r] = row[r]
    BY <1>0, <1>4 DEF TypeInv, TypeOK
  <1> QED BY <1>0, <1>1, <1>2, <1>3, <1>5 DEF TypeInv, TypeOK, Staging, Owned, Recovers

LEMMA MovesTouch ==
    ASSUME DInv, NEW p \in Proc, Moves(p), NEW r \in Run
    PROVE  (place'[r] = place[r] /\ json'[r] = json[r] /\ row'[r] = row[r]) \/ Touches(p, r)
  <1>1. CASE RowStep(p) /\ r = tgt[p]
    <2>1. pc[p] \in LockHeld \cup Staging \cup Recovers
      BY <1>1, RowStepFrame
    <2> QED BY <1>1, <2>1 DEF DInv, Control, Holds, LockOK, PlaceOK, Touches
  <1>2. CASE ~(RowStep(p) /\ r = tgt[p])
    <2>1. row'[r] = row[r]
      BY <1>2, MovesRow, RowStepFrame
    <2>2. CASE UNCHANGED <<place, json>>
      BY <2>1, <2>2
    <2>3. CASE \E s \in Run : Effect(p, s)
      <3>1. PICK s \in Run : Effect(p, s)
        BY <2>3
      <3>2. CASE s # r
        BY <2>1, <3>1, <3>2 DEF Effect
      <3>3. CASE s = r
        BY <3>1, <3>3 DEF Effect, Begins, Drops, Saves, Drafts, Revises, Touches
      <3> QED BY <3>2, <3>3
    <2> QED BY <2>2, <2>3, MovesEffect
  <1> QED BY <1>1, <1>2

-----------------------------------------------------------------------------
(* The index tells the truth, as long as a command works on a run whose    *)
(* row is settled and nobody recovers runs beside it.                      *)

\* A settled row tells what run.json says; of an aborted run at least a pass.
Truth(r) ==
    /\ json[r].state # "aborted" => RowAgrees(r) /\ row[r].copies = 1
    /\ json[r].passed = "yes" => row[r].passed = "yes" /\ row[r].analysis = json[r].analysis

\* A row that recovery made, and that was never settled since, did not pass.
Made(r) == row[r].stamp = 0 /\ row[r].state \notin {"none", "running"}

TrueRow(r) == /\ place[r] = "final" /\ Settled(r) => Truth(r)
              /\ place[r] = "final" /\ Made(r) => json[r].passed # "yes"

\* What a process relies on between its two writes, run.json and the row.
BasedOK(p) ==
    LET t == tgt[p]
        m == json[t]
    IN /\ pc[p] \in {"analyze", "rescore", "enrich", "enrichWrite"} => Settled(t)
       /\ pc[p] = "enrichWrite" => mine[p].analysis = m.analysis
       /\ pc[p] = "patch" => m.passed # "yes"
       /\ pc[p] \in Recovers => m.passed = "no"
       /\ pc[p] = "analyzeCommit" =>
             /\ row[t].passed = "yes" /\ m.passed = "yes"
             /\ m.state # "aborted" => /\ row[t].state = m.state /\ row[t].copies = 1
                                       /\ row[t].analyses \cup NewNotes(m) = m.analyses
       /\ pc[p] = "rescoreCommit" /\ m.state # "aborted" =>
             row[t].analyses = m.analyses /\ row[t].copies = 1
       /\ pc[p] = "enrichCommit" =>
             /\ m.passed = "yes" => row[t].passed = "yes" /\ row[t].analysis = m.analysis
             /\ m.state # "aborted" => /\ row[t].passed = m.passed /\ row[t].copies = 1
                                       /\ row[t].analysis = m.analysis
                                       /\ row[t].analyses = m.analyses

Told == (\A r \in Run : TrueRow(r)) /\ \A p \in Proc : BasedOK(p)

\* The two assumptions.
Apart   == \A p, q \in Proc : pc[p] \in Recovers => p = q
Offered == \A p \in Proc, r \in Run :
              pc[p] = "lockRun" /\ place[r] = "final" /\ Free(runlock[r]) => Settled(r)

\* Each step that writes a row.
LEMMA RowTold ==
    ASSUME DInv, Told, NEW p \in Proc, RowStep(p), NEW t \in Run, t = tgt[p]
    PROVE  TrueRow(t)'
  <1>1. t = tgt[p]
    OBVIOUS
  <1>2. /\ row[t] \in Row /\ mine[p] \in Manifest /\ json[t] \in Manifest
        /\ UNCHANGED <<place, json>>
    BY <1>1, RowStepFrame
  <1>3. /\ TrueRow(t) /\ BasedOK(p) /\ MineOK(p) /\ RunOK(t)
    BY DEF Told, DInv, Data
  <1>4. row \in [Run -> Row]
    BY DEF DInv, TypeInv, TypeOK
  <1>5. place[t] = "final" => json[t].ver > 0
    BY <1>3 DEF RunOK, JsonOK, Closed
  <1>6. SUFFICES ASSUME place[t] = "final" PROVE TrueRow(t)'
    BY <1>1, <1>2 DEF TrueRow
  <1>7. pc[p] \notin Staging
    BY <1>1, <1>6 DEF DInv, Control, Holds, PlaceOK, Staging
  <1>8. CASE RestorePatch(p)
    <2>1. row'[t] = [row[t] EXCEPT !.analyses = row[t].analyses \cup mine[p].analyses,
                                   !.analysis = mine[p].analysis, !.stamp = mine[p].ver]
      BY <1>1, <1>4, <1>8 DEF RestorePatch
    <2>2. row'[t].stamp = mine[p].ver
      BY <1>2, <2>1 DEF Row
    <2>3. mine[p] = json[t] /\ json[t].state = "aborted" /\ json[t].passed # "yes"
      BY <1>1, <1>3, <1>8 DEF RestorePatch, MineOK, LoadedOK, Loaded, AbortOK, BasedOK
    <2> QED BY <1>2, <1>5, <1>6, <2>2, <2>3 DEF TrueRow, Truth, Made
  <1>9. CASE RestoreRebuild(p) \/ FinishCommit(p)
    <2>1. mine[p] = json[t]
      BY <1>1, <1>3, <1>9 DEF RestoreRebuild, FinishCommit, MineOK, LoadedOK, Loaded
    <2>2. /\ row'[t].state = mine[p].state /\ row'[t].passed = mine[p].passed
          /\ row'[t].analysis = mine[p].analysis /\ row'[t].analyses = mine[p].analyses
          /\ row'[t].stamp = json[t].ver /\ row'[t].copies = 1
      <3>1. CASE RestoreRebuild(p)
        <4>1. row'[t] = [RowOf(mine[p]) EXCEPT
                           !.snap = IF mine[p].snap \in snaps[t] THEN mine[p].snap ELSE 0,
                           !.stamp = json[t].ver]
          BY <1>1, <1>4, <3>1 DEF RestoreRebuild
        <4> QED BY <4>1 DEF RowOf
      <3>2. CASE FinishCommit(p)
        <4>1. row'[t] = [RowOf(mine[p]) EXCEPT !.copies = row[t].copies + 1,
                                               !.stamp = json[t].ver]
          BY <1>1, <1>4, <3>2 DEF FinishCommit
        <4>2. row[t].copies = 0
          BY <1>1, <1>3, <3>2 DEF FinishCommit, MineOK, RowKnown
        <4> QED BY <4>1, <4>2 DEF RowOf
      <3> QED BY <1>9, <3>1, <3>2
    <2> QED BY <1>2, <1>5, <2>1, <2>2 DEF TrueRow, Truth, RowAgrees, Made
  <1>10. CASE RecoverInsert(p) \/ RecoverUpdate(p)
    <2>1. json[t].state = "aborted" /\ json[t].passed = "no"
      BY <1>1, <1>3, <1>10 DEF RecoverInsert, RecoverUpdate, MineOK, AbortOK, BasedOK, Recovers
    <2> QED BY <1>2, <2>1 DEF TrueRow, Truth
  <1>11. CASE BeginRow(p) \/ DiscardRow(p)
    BY <1>7, <1>11 DEF BeginRow, DiscardRow, Staging, Owned
  <1>12. CASE AnalyzeCommit(p)
    <2>1. row'[t] = [row[t] EXCEPT !.analyses = row[t].analyses \cup NewNotes(mine[p]),
                                   !.analysis = mine[p].analysis, !.stamp = json[t].ver]
      BY <1>1, <1>4, <1>12 DEF AnalyzeCommit
    <2>2. /\ row'[t].state = row[t].state /\ row'[t].passed = row[t].passed
          /\ row'[t].analysis = mine[p].analysis /\ row'[t].copies = row[t].copies
          /\ row'[t].analyses = row[t].analyses \cup NewNotes(mine[p])
          /\ row'[t].stamp = json[t].ver
      BY <1>2, <2>1 DEF Row
    <2>3. mine[p] = json[t] /\ pc[p] = "analyzeCommit"
      BY <1>1, <1>3, <1>12 DEF AnalyzeCommit, MineOK, LoadedOK, Loaded
    <2>4. Truth(t)'
      BY <1>1, <1>2, <1>3, <2>2, <2>3 DEF BasedOK, Truth, RowAgrees
    <2> QED BY <1>2, <1>5, <1>6, <2>2, <2>4 DEF TrueRow, Made
  <1>13. CASE RescoreCommit(p)
    <2>1. row'[t] = [row[t] EXCEPT !.passed = mine[p].passed, !.state = mine[p].state,
                                   !.analysis = mine[p].analysis, !.stamp = json[t].ver]
      BY <1>1, <1>4, <1>13 DEF RescoreCommit
    <2>2. /\ row'[t].state = mine[p].state /\ row'[t].passed = mine[p].passed
          /\ row'[t].analysis = mine[p].analysis /\ row'[t].copies = row[t].copies
          /\ row'[t].analyses = row[t].analyses /\ row'[t].stamp = json[t].ver
      BY <1>2, <2>1 DEF Row
    <2>3. mine[p] = json[t] /\ pc[p] = "rescoreCommit"
      BY <1>1, <1>3, <1>13 DEF RescoreCommit, MineOK, LoadedOK, Loaded
    <2>4. Truth(t)'
      BY <1>1, <1>2, <1>3, <2>2, <2>3 DEF BasedOK, Truth, RowAgrees
    <2> QED BY <1>2, <1>5, <1>6, <2>2, <2>4 DEF TrueRow, Made
  <1>14. CASE EnrichCommit(p)
    <2>1. row'[t] = [row[t] EXCEPT !.state = mine[p].state, !.snap = mine[p].snap,
                                   !.stamp = json[t].ver]
      BY <1>1, <1>4, <1>14 DEF EnrichCommit
    <2>2. /\ row'[t].state = mine[p].state /\ row'[t].passed = row[t].passed
          /\ row'[t].analysis = row[t].analysis /\ row'[t].copies = row[t].copies
          /\ row'[t].analyses = row[t].analyses /\ row'[t].stamp = json[t].ver
      BY <1>2, <2>1 DEF Row
    <2>3. mine[p] = json[t] /\ pc[p] = "enrichCommit"
      BY <1>1, <1>3, <1>14 DEF EnrichCommit, MineOK, LoadedOK, Loaded
    <2>4. Truth(t)'
      BY <1>1, <1>2, <1>3, <2>2, <2>3 DEF BasedOK, Truth, RowAgrees
    <2> QED BY <1>2, <1>5, <1>6, <2>2, <2>4 DEF TrueRow, Made
  <1> QED BY <1>1, <1>8, <1>9, <1>10, <1>11, <1>12, <1>13, <1>14 DEF RowStep

\* Each step that writes a run.json or moves its directory.
LEMMA EffectTold ==
    ASSUME DInv, Told, NEW p \in Proc, NEW r \in Run, Effect(p, r)
    PROVE  TrueRow(r)'
  <1>1. json[r] \in Manifest /\ json[r].ver \in Nat /\ row[r].stamp \in Nat /\ RunOK(r) /\ row' = row
    BY ManifestFields DEF DInv, Data, TypeInv, TypeOK, Row, Effect
  <1>2. CASE Begins(p, r) \/ Drops(p, r) \/ Drafts(p, r)
    BY <1>2 DEF Begins, Drops, Drafts, TrueRow
  <1>3. CASE Saves(p, r)
    <2>1. /\ row[r].stamp = 0 /\ row[r].state \in {"none", "running"}
          /\ json'[r] = json[r] /\ json[r].ver > 0
      BY <1>1, <1>3 DEF Saves, RunOK, RowOK, JsonOK
    <2> QED BY <1>1, <2>1 DEF TrueRow, Made, Settled
  <1>4. CASE Revises(p, r)
    <2>1. row[r].stamp = json[r].ver /\ json[r].ver > 0 /\ json'[r].ver = json[r].ver + 1
      BY <1>1, <1>4 DEF Told, BasedOK, Revises, Settled, RunOK, JsonOK, Closed
    <2> QED BY <1>1, <2>1 DEF TrueRow, Made, Settled
  <1> QED BY <1>2, <1>3, <1>4 DEF Effect

\* What the process relies on after its own step.
LEMMA OwnBased ==
    ASSUME DInv, Told, Offered, NEW p \in Proc, Moves(p)
    PROVE  BasedOK(p)'
  <1> USE DEF local, locks, disk, bounds
  <1>0. TypeInv /\ MineOK(p) /\ BasedOK(p) /\ \A r \in Run : RunOK(r) /\ TrueRow(r)
    BY DEF DInv, Data, Told
  <1> DEFINE Relies == {"analyze", "rescore", "enrich", "enrichWrite", "patch", "recoverMove",
                        "recoverInsert", "recoverUpdate", "analyzeCommit", "rescoreCommit",
                        "enrichCommit"}
  <1>1. ASSUME pc'[p] \notin Relies PROVE BasedOK(p)'
    BY <1>1 DEF BasedOK, Recovers
  <1>2. CASE RestoreRead(p)
    <2>1. PICK t \in Run : t = tgt[p] /\ place[t] = "final"
      BY <1>2 DEF RestoreRead, DInv, TypeInv, TargetOK, Targetless, Control, Holds, PlaceOK,
                  LockHeld, Saved
    <2>2. /\ tgt'[p] = t /\ UNCHANGED <<json, row>>
          /\ pc'[p] = IF OnlyAnalyses(t) THEN "patch" ELSE "rebuild"
      BY <1>0, <1>2, <2>1 DEF RestoreRead, GoTo, TypeInv, TypeOK
    <2>3. OnlyAnalyses(t) => json[t].passed # "yes"
      BY <1>0, <2>1 DEF OnlyAnalyses, Indexed, RunOK, JsonOK, Closed, TrueRow, Made
    <2> QED BY <2>2, <2>3 DEF BasedOK, Recovers
  <1>3. CASE LockRun(p)
    <2>1. PICK t \in Run : Lockable(t) /\ Free(runlock[t]) /\ tgt' = [tgt EXCEPT ![p] = t]
      BY <1>3 DEF LockRun
    <2>2. tgt'[p] = t /\ pc'[p] = cmd[p] /\ cmd[p] \in {"analyze", "rescore", "enrich"}
          /\ UNCHANGED <<json, row>>
      BY <1>0, <1>3, <2>1 DEF LockRun, GoTo, TypeInv, TypeOK, TargetOK
    <2>3. Settled(t)
      BY <1>3, <2>1 DEF Offered, Lockable, LockRun
    <2> QED BY <2>2, <2>3 DEF BasedOK, Recovers, Settled
  <1>4. CASE RecoverWrite(p)
    <2>1. PICK r \in todo[p] : /\ json' = [json EXCEPT ![r] = Written(AsAborted(json[r]))]
                               /\ tgt' = [tgt EXCEPT ![p] = r]
      BY <1>4 DEF RecoverWrite
    <2>2. r \in Run /\ json[r] \in Manifest
      BY <1>0, <2>1 DEF TypeInv, TypeOK
    <2>3. Written(AsAborted(json[r])).passed = "no"
      BY <2>2 DEF Written, AsAborted, Manifest
    <2>4. tgt'[p] = r /\ json'[r].passed = "no" /\ pc'[p] = "recoverMove"
      BY <1>0, <1>4, <2>1, <2>2, <2>3 DEF RecoverWrite, GoTo, TypeInv, TypeOK
    <2> QED BY <2>4 DEF BasedOK, Recovers
  <1>5. CASE RecoverMove(p) \/ RecoverInsert(p)
    <2>1. /\ pc[p] \in Recovers /\ pc'[p] \in {"recoverInsert", "recoverUpdate"}
          /\ UNCHANGED <<json, tgt>>
      BY <1>0, <1>5 DEF RecoverMove, RecoverInsert, GoTo, TypeInv, TypeOK, Recovers
    <2> QED BY <1>0, <2>1 DEF BasedOK
  <1>6. CASE AnalyzeWrite(p)
    <2>1. PICK t \in Run : t = tgt[p] /\ place[t] = "final"
      BY <1>6 DEF AnalyzeWrite, DInv, TypeInv, TargetOK, Targetless, Control, Holds, PlaceOK,
                  LockHeld, Saved
    <2>2. /\ pc[p] = "analyze" /\ pc'[p] = "analyzeCommit" /\ tgt'[p] = t /\ row' = row
          /\ mine[p] = json[t] /\ mine[p].passed = "yes" /\ Settled(t)
      BY <1>0, <1>6, <2>1 DEF AnalyzeWrite, GoTo, TypeInv, TypeOK, MineOK, LoadedOK, Loaded, BasedOK
    <2>3. Truth(t) /\ json[t] \in Manifest /\ json[t].ver \in Nat /\ json[t].analyses \in SUBSET Nat
          /\ \A n \in json[t].analyses : n < json[t].ver
      BY <1>0, <2>1, <2>2, ManifestFields DEF TrueRow, TypeInv, TypeOK, RunOK, JsonOK
    <2>4. PICK v \in {"complete", "skipped"} :
            json' = [json EXCEPT ![t] = Written([json[t] EXCEPT !.analysis = v,
                                        !.analyses = json[t].analyses \cup {json[t].ver}])]
      BY <1>6, <2>1, <2>2 DEF AnalyzeWrite
    <2> DEFINE d == [json[t] EXCEPT !.analysis = v, !.analyses = json[t].analyses \cup {json[t].ver}]
    <2>5. /\ d \in Manifest /\ d.passed = "yes" /\ d.state = json[t].state
          /\ d.ver = json[t].ver /\ d.analyses = json[t].analyses \cup {json[t].ver}
      <3>1. json[t].analyses \cup {json[t].ver} \in SUBSET Nat /\ v \in AnalysisStatus
        BY <2>3, ManifestFields DEF AnalysisStatus
      <3> QED BY <2>2, <2>3, <3>1 DEF Manifest
    <2> HIDE DEF d
    <2>6. json'[t] = Written(d)
      BY <1>0, <2>4 DEF TypeInv, TypeOK, d
    <2>7. /\ json'[t].passed = "yes" /\ json'[t].state = json[t].state
          /\ json'[t].ver = json[t].ver + 1
          /\ json'[t].analyses = json[t].analyses \cup {json[t].ver}
      BY <2>5, <2>6, Edits
    <2>8. NewNotes(json'[t]) = {json[t].ver}
      BY <2>3, <2>7 DEF NewNotes
    <2>9. /\ row[t].passed = "yes"
          /\ json[t].state # "aborted" => RowAgrees(t) /\ row[t].copies = 1
      BY <2>2, <2>3 DEF Truth
    <2> QED BY <2>2, <2>7, <2>8, <2>9 DEF BasedOK, Recovers, RowAgrees
  <1>7. CASE RescoreWrite(p)
    <2>1. PICK t \in Run : t = tgt[p] /\ place[t] = "final"
      BY <1>7 DEF RescoreWrite, DInv, TypeInv, TargetOK, Targetless, Control, Holds, PlaceOK,
                  LockHeld, Saved
    <2>2. /\ pc[p] = "rescore" /\ pc'[p] = "rescoreCommit" /\ tgt'[p] = t /\ row' = row
          /\ mine[p] = json[t] /\ Settled(t)
      BY <1>0, <1>7, <2>1 DEF RescoreWrite, GoTo, TypeInv, TypeOK, MineOK, LoadedOK, Loaded, BasedOK
    <2>3. Truth(t) /\ json[t] \in Manifest /\ Closed(json[t])
      BY <1>0, <2>1, <2>2 DEF TrueRow, TypeInv, TypeOK, RunOK, JsonOK
    <2>4. PICK v \in {"yes", "no"} :
            json' = [json EXCEPT ![t] =
              Written([Settle([json[t] EXCEPT !.passed = v, !.pending = FALSE])
                         EXCEPT !.analysis = AnalysisFor(v)])]
      BY <1>7, <2>1, <2>2 DEF RescoreWrite
    <2> DEFINE b == [json[t] EXCEPT !.passed = v, !.pending = FALSE]
               c == Settle(b)
               d == [c EXCEPT !.analysis = AnalysisFor(v)]
    <2>5. b \in Manifest /\ b.analyses = json[t].analyses /\ b.interrupted = json[t].interrupted
      BY <2>3 DEF Manifest, Verdict
    <2> HIDE DEF b
    <2>6. /\ c \in Manifest /\ c.analyses = json[t].analyses
          /\ (c.state = "aborted" <=> json[t].interrupted)
      BY <2>5, Edits, ManifestTyped
    <2> HIDE DEF c
    <2>7. d \in Manifest /\ d.analyses = json[t].analyses /\ d.state = c.state
      BY <2>6 DEF Manifest, AnalysisFor, AnalysisStatus
    <2>8. json' = [json EXCEPT ![t] = Written(d)]
      BY <2>4 DEF b, c
    <2> HIDE DEF d
    <2>9. json'[t] = Written(d)
      BY <1>0, <2>8 DEF TypeInv, TypeOK
    <2>10. /\ json'[t].analyses = json[t].analyses
           /\ json'[t].state # "aborted" => json[t].state # "aborted"
      BY <2>3, <2>6, <2>7, <2>9, Edits DEF Closed
    <2> QED BY <2>2, <2>3, <2>10 DEF BasedOK, Recovers, Truth, RowAgrees
  <1>8. CASE EnrichSnapshot(p)
    <2>1. PICK t \in Run : t = tgt[p]
      BY <1>0, <1>8 DEF EnrichSnapshot, TypeInv, TargetOK, Targetless
    <2>2. /\ pc[p] = "enrich" /\ pc'[p] = "enrichWrite" /\ tgt'[p] = t
          /\ UNCHANGED <<row, json>> /\ mine[p] = json[t] /\ Settled(t) /\ mine[p] \in Manifest
          /\ mine[p].ver \in Nat
      BY <1>0, <1>8, <2>1, ManifestFields
         DEF EnrichSnapshot, GoTo, TypeInv, TypeOK, MineOK, LoadedOK, Loaded, BasedOK
    <2>3. PICK failed \in BOOLEAN :
            mine' = [mine EXCEPT ![p] = Written(Settle([mine[p] EXCEPT !.parserFailed = failed,
                                                            !.snap = mine[p].ver + 1]))]
      BY <1>8 DEF EnrichSnapshot
    <2> DEFINE b == [mine[p] EXCEPT !.parserFailed = failed, !.snap = mine[p].ver + 1]
    <2>4. b \in Manifest /\ b.analysis = mine[p].analysis
      <3>1. PICK n \in Nat : n = mine[p].ver + 1
        BY <2>2
      <3> QED BY <2>2, <3>1 DEF Manifest
    <2> HIDE DEF b
    <2>5. Settle(b) \in Manifest /\ Settle(b).analysis = mine[p].analysis
      BY <2>4, Edits, ManifestTyped
    <2>6. Written(Settle(b)).analysis = mine[p].analysis
      BY <2>5, Edits
    <2>7. mine'[p].analysis = json[t].analysis
      BY <1>0, <2>2, <2>3, <2>6 DEF b, TypeInv, TypeOK
    <2> QED BY <2>2, <2>7 DEF BasedOK, Recovers, Settled
  <1>9. CASE EnrichWrite(p)
    <2>1. PICK t \in Run : t = tgt[p] /\ place[t] = "final"
      BY <1>9 DEF EnrichWrite, DInv, TypeInv, TargetOK, Targetless, Control, Holds, PlaceOK,
                  LockHeld, Saved
    <2>2. /\ pc[p] = "enrichWrite" /\ pc'[p] = "enrichCommit" /\ tgt'[p] = t /\ row' = row
          /\ json'[t] = mine[p] /\ Settled(t) /\ mine[p].analysis = json[t].analysis
      BY <1>0, <1>9, <2>1 DEF EnrichWrite, GoTo, TypeInv, TypeOK, BasedOK
    <2>3. /\ mine[p].passed = json[t].passed /\ mine[p].analyses = json[t].analyses
          /\ (mine[p].state = "aborted" <=> json[t].state = "aborted")
      BY <1>0, <2>1, <2>2 DEF MineOK, EnrichOK, RunOK, JsonOK, Closed
    <2>4. Truth(t)
      BY <1>0, <2>1, <2>2 DEF TrueRow
    <2> QED BY <2>2, <2>3, <2>4 DEF BasedOK, Recovers, Truth, RowAgrees
  <1>10. CASE ~(RestoreRead(p) \/ LockRun(p) \/ RecoverWrite(p) \/ RecoverMove(p)
                \/ RecoverInsert(p) \/ AnalyzeWrite(p) \/ RescoreWrite(p) \/ EnrichSnapshot(p)
                \/ EnrichWrite(p))
    <2>1. ASSUME OpenSkip(p) \/ OpenStale(p) \/ OpenLock(p) \/ RestoreSkip(p) \/ RestorePatch(p)
                 \/ RestoreRebuild(p) \/ OpenDone(p) \/ Dispatch(p)
          PROVE  pc'[p] \notin Relies
      BY <1>0, <2>1 DEF OpenSkip, OpenStale, OpenLock, RestoreSkip, RestorePatch, RestoreRebuild,
                  OpenDone, Dispatch, ScanNext, Exit, GoTo, TypeInv, TypeOK
    <2>2. ASSUME GateTake(p) \/ GateBusy(p) \/ RecoverPass(p) \/ RecoverUpdate(p)
                 \/ RecoverDone(p) \/ CheckAnalyses(p) \/ CheckResults(p)
          PROVE  pc'[p] \notin Relies
      BY <1>0, <2>2 DEF GateTake, GateBusy, RecoverPass, RecoverUpdate, RecoverDone,
                  CheckAnalyses, CheckResults, Exit, GoTo, TypeInv, TypeOK
    <2>3. ASSUME RunStep(p)
          PROVE  pc'[p] \notin Relies
      BY <1>0, <2>3, ZenonT(40) DEF RunStep, NewRun, PrepareFail, BeginFile, BeginRow, DiscardRow, DiscardFiles,
                  Benchmark, Checkpoint, Finish, FinishMove, FinishCommit, RunDone, Exit, GoTo,
                  TypeInv, TypeOK
    <2>4. ASSUME NoTarget(p) \/ AnalyzeRefuse(p) \/ AnalyzeCommit(p) \/ RescoreRefuse(p)
                 \/ RescoreCommit(p) \/ EnrichCommit(p) \/ EnrichPrune(p)
          PROVE  pc'[p] \notin Relies
      BY <1>0, <2>4 DEF NoTarget, AnalyzeRefuse, AnalyzeCommit, RescoreRefuse, RescoreCommit,
                  EnrichCommit, EnrichPrune, Exit, GoTo, TypeInv, TypeOK
    <2>5. ASSUME Reap(p) \/ Crash(p) \/ \E c \in Commands : Start(p, c)
          PROVE  pc'[p] \notin Relies
      BY <1>0, <2>5 DEF Reap, Crash, Start, Exit, GoTo, TypeInv, TypeOK
    <2> QED BY <1>1, <1>10, <2>1, <2>2, <2>3, <2>4, <2>5
           DEF Moves, Step, OpenStep, EntryStep, SavedStep
  <1> QED BY <1>2, <1>3, <1>4, <1>5, <1>6, <1>7, <1>8, <1>9, <1>10

LEMMA ToldStep ==
    ASSUME DInv, Told, Apart, Offered, NEW p \in Proc, Moves(p)
    PROVE  Told'
  <1>0. TypeInv /\ Alone(p)
    BY MovesAlone DEF DInv
  <1>1. ASSUME NEW r \in Run PROVE TrueRow(r)'
    <2>1. TrueRow(r)
      BY DEF Told
    <2>2. CASE place'[r] = place[r] /\ json'[r] = json[r] /\ row'[r] = row[r]
      BY <2>1, <2>2 DEF TrueRow, Truth, RowAgrees, Settled, Made
    <2>3. CASE RowStep(p) /\ r = tgt[p]
      BY <2>3, RowTold
    <2>4. CASE row'[r] = row[r]
      <3>1. CASE UNCHANGED <<place, json>>
        BY <2>2, <2>4, <3>1
      <3>2. CASE \E s \in Run : Effect(p, s)
        <4>1. PICK s \in Run : Effect(p, s)
          BY <3>2
        <4>2. CASE s = r
          BY <4>1, <4>2, EffectTold
        <4>3. CASE s # r
          BY <2>2, <2>4, <4>1, <4>3 DEF Effect
        <4> QED BY <4>2, <4>3
      <3> QED BY <3>1, <3>2, MovesEffect
    <2> QED BY <2>3, <2>4, MovesRow, RowStepFrame
  <1>2. ASSUME NEW q \in Proc PROVE BasedOK(q)'
    <2>1. CASE q = p
      BY <2>1, OwnBased
    <2>2. CASE q # p
      <3>1. /\ pc'[q] = pc[q] /\ tgt'[q] = tgt[q] /\ mine'[q] = mine[q] /\ BasedOK(q)
        BY <1>0, <2>2 DEF Alone, Told
      <3> DEFINE Commits == {"analyze", "rescore", "enrich", "enrichWrite", "patch",
                             "analyzeCommit", "rescoreCommit", "enrichCommit"}
      <3>2. CASE pc[q] \notin Commits \cup Recovers
        BY <3>1, <3>2 DEF BasedOK
      <3>3. CASE pc[q] \in Recovers
        BY <2>2, <3>3 DEF Apart
      <3>4. CASE pc[q] \in Commits
        <4>1. PICK t \in Run : t = tgt[q] /\ runlock[t] = q /\ place[t] = "final"
          BY <3>4 DEF DInv, TypeInv, TargetOK, Targetless, Control, Holds, LockOK, PlaceOK,
                      LockHeld, Saved
        <4>2. ~Touches(p, t)
          BY <2>2, <4>1 DEF Touches, Apart
        <4>3. json'[t] = json[t] /\ row'[t] = row[t]
          BY <4>2, MovesTouch
        <4>4. tgt'[q] = t
          BY <3>1, <4>1
        <4> QED BY <3>1, <4>1, <4>3, <4>4 DEF BasedOK, Settled
      <3> QED BY <3>2, <3>3, <3>4
    <2> QED BY <2>1, <2>2
  <1> QED BY <1>1, <1>2 DEF Told

-----------------------------------------------------------------------------
(* Any number of processes, none of which is killed.                       *)

\* Every unsaved run has its owner, so nothing is ever recovered, and every
\* saved run with an unsettled row has a process about to settle it.
Committing == {"finishCommit", "analyzeCommit", "rescoreCommit", "enrichCommit"}
Calm == /\ \A p \in Proc : pc[p] \notin Recovers
        /\ \A r \in Staged : \E p \in Proc : pc[p] \in Owned /\ tgt[p] = r
Settling == \A r \in Finalized : Settled(r) \/ \E p \in Proc : pc[p] \in Committing /\ tgt[p] = r

LEMMA OwnedStep ==
    ASSUME DInv, NEW p \in Proc, Step(p), NEW r \in Run, tgt[p] = r, pc[p] \in Owned
    PROVE  (pc'[p] \in Owned /\ tgt'[p] = r) \/ place'[r] # "staging"
  <1>0. TypeInv
    BY DEF DInv
  <1>1. RunStep(p)
    BY DEF Step, Owned, OpenStep, EntryStep, SavedStep, Reap, OpenSkip, OpenStale, OpenLock,
           RestoreSkip, RestoreRead, RestorePatch, RestoreRebuild, OpenDone, Dispatch, GateTake,
           GateBusy, RecoverPass, RecoverWrite, RecoverMove, RecoverInsert, RecoverUpdate,
           RecoverDone, CheckAnalyses, CheckResults, NoTarget, LockRun, AnalyzeRefuse, AnalyzeWrite,
           AnalyzeCommit, RescoreRefuse, RescoreWrite, RescoreCommit, EnrichSnapshot, EnrichWrite,
           EnrichCommit, EnrichPrune
  <1>2. CASE BeginRow(p) \/ DiscardRow(p) \/ Benchmark(p) \/ Checkpoint(p) \/ Finish(p)
    BY <1>0, <1>2 DEF BeginRow, DiscardRow, Benchmark, Checkpoint, Finish, GoTo, Owned, TypeInv,
                      TypeOK
  <1>3. CASE DiscardFiles(p) \/ FinishMove(p)
    BY <1>0, <1>3 DEF DiscardFiles, FinishMove, TypeInv, TypeOK
  <1>4. CASE NewRun(p) \/ PrepareFail(p) \/ BeginFile(p) \/ FinishCommit(p) \/ RunDone(p)
    BY <1>4 DEF NewRun, PrepareFail, BeginFile, FinishCommit, RunDone, Owned
  <1> QED BY <1>1, <1>2, <1>3, <1>4 DEF RunStep

\* A run directory is only recovered when its process is gone.
LEMMA NoRecovery ==
    ASSUME DInv, Calm, NEW p \in Proc, Moves(p)
    PROVE  pc'[p] \notin Recovers
  <1>0. TypeInv
    BY DEF DInv
  <1>1. ~RecoverWrite(p)
    <2> SUFFICES ASSUME RecoverWrite(p) PROVE FALSE
      OBVIOUS
    <2>1. PICK r \in Run : place[r] = "staging" /\ Free(marker[r])
      BY <1>0 DEF RecoverWrite, TypeInv, TypeOK
    <2>2. PICK q \in Proc : pc[q] \in Owned /\ tgt[q] = r
      BY <2>1 DEF Calm, Staged
    <2>3. marker[r] = q
      BY <2>2 DEF DInv, Control, Holds, MarkOK, MarkHeld, Owned, InRun
    <2> QED BY <2>1, <2>3, NoProcAssumption DEF Free
  <1>2. ~(RecoverMove(p) \/ RecoverInsert(p) \/ RecoverUpdate(p))
    BY DEF Calm, Recovers, RecoverMove, RecoverInsert, RecoverUpdate
  <1>3. CASE OpenStep(p)
    BY <1>0, <1>3 DEF OpenStep, OpenSkip, OpenStale, OpenLock, RestoreSkip, RestoreRead,
                RestorePatch, RestoreRebuild, OpenDone, Dispatch, ScanNext, Exit, GoTo, Recovers,
                TypeInv, TypeOK
  <1>4. CASE EntryStep(p)
    BY <1>0, <1>1, <1>2, <1>4 DEF EntryStep, GateTake, GateBusy, RecoverPass,
                RecoverDone, CheckAnalyses, CheckResults, Exit, GoTo, Recovers, TypeInv, TypeOK
  <1>5. CASE RunStep(p)
    BY <1>0, <1>5 DEF RunStep, NewRun, PrepareFail, BeginFile, BeginRow, DiscardRow, DiscardFiles,
                Benchmark, Checkpoint, Finish, FinishMove, FinishCommit, RunDone, Exit, GoTo,
                Recovers, TypeInv, TypeOK
  <1>6. CASE SavedStep(p)
    BY <1>0, <1>6 DEF SavedStep, NoTarget, LockRun, AnalyzeRefuse, AnalyzeWrite, AnalyzeCommit,
                RescoreRefuse, RescoreWrite, RescoreCommit, EnrichSnapshot, EnrichWrite,
                EnrichCommit, EnrichPrune, Exit, GoTo, Recovers, TypeInv, TypeOK, TargetOK
  <1>7. CASE Reap(p) \/ Crash(p) \/ \E c \in Commands : Start(p, c)
    BY <1>0, <1>7 DEF Reap, Crash, Start, Exit, GoTo, Recovers, TypeInv, TypeOK
  <1> QED BY <1>3, <1>4, <1>5, <1>6, <1>7 DEF Moves, Step

LEMMA NoKill ==
    ASSUME DInv, MaxCrashes = 0, NEW p \in Proc
    PROVE  ~Crash(p)
  BY DEF DInv, TypeInv, TypeOK, Crash

LEMMA CalmStep ==
    ASSUME DInv, Calm, MaxCrashes = 0, NEW p \in Proc, Moves(p)
    PROVE  Calm'
  <1>0. TypeInv /\ Alone(p)
    BY MovesAlone DEF DInv
  <1>1. \A q \in Proc : pc'[q] \notin Recovers
    BY <1>0, NoRecovery DEF Alone, Calm
  <1>2. ASSUME NEW r \in Run, place'[r] = "staging"
        PROVE  \E q \in Proc : pc'[q] \in Owned /\ tgt'[q] = r
    <2>1. CASE place[r] = "staging"
      <3>1. PICK q \in Proc : pc[q] \in Owned /\ tgt[q] = r
        BY <2>1 DEF Calm, Staged
      <3>2. CASE q = p
        <4>1. ~\E c \in Commands : Start(p, c)
          BY <3>1, <3>2 DEF Start, Owned
        <4>2. Step(p)
          BY <4>1, NoKill DEF Moves
        <4> QED BY <1>2, <3>1, <3>2, <4>2, OwnedStep
      <3> QED BY <1>0, <3>1, <3>2 DEF Alone
    <2>2. CASE place[r] # "staging"
      <3>1. PICK s \in Run : Effect(p, s)
        BY <1>2, <2>2, MovesEffect
      <3>2. s = r /\ Begins(p, r)
        BY <1>2, <2>2, <3>1 DEF Effect, Begins, Drops, Saves, Drafts, Revises
      <3> QED BY <3>2 DEF Begins, Owned
    <2> QED BY <2>1, <2>2
  <1> QED BY <1>1, <1>2 DEF Calm, Staged

\* Whoever is between its two writes does the second one next.
LEMMA CommitNext ==
    ASSUME NEW p \in Proc, Step(p), pc[p] \in Committing
    PROVE  RowStep(p)
  BY DEF Step, Committing, RowStep, OpenStep, EntryStep, RunStep, SavedStep, Reap, OpenSkip,
         OpenStale, OpenLock, RestoreSkip, RestoreRead, OpenDone, Dispatch, GateTake, GateBusy,
         RecoverPass, RecoverWrite, RecoverMove, RecoverDone, CheckAnalyses, CheckResults, NewRun,
         PrepareFail, BeginFile, DiscardFiles, Benchmark, Checkpoint, Finish, FinishMove, RunDone,
         NoTarget, LockRun, AnalyzeRefuse, AnalyzeWrite, RescoreRefuse, RescoreWrite,
         EnrichSnapshot, EnrichWrite, EnrichPrune

\* Who writes the row of a saved run settles it, but for recovery.
LEMMA RowSettles ==
    ASSUME DInv, NEW p \in Proc, RowStep(p), NEW t \in Run, t = tgt[p], place[t] = "final",
           pc[p] \notin Recovers
    PROVE  Settled(t)'
  <1>1. /\ row[t] \in Row /\ row \in [Run -> Row] /\ json' = json
        /\ BeginRow(p) \/ DiscardRow(p) => pc[p] \in Staging
    BY RowStepFrame DEF DInv, TypeInv, TypeOK, BeginRow, DiscardRow, Staging, Owned
  <1>2. ~(BeginRow(p) \/ DiscardRow(p) \/ RecoverInsert(p) \/ RecoverUpdate(p))
    BY <1>1 DEF DInv, Control, Holds, PlaceOK, Staging, Recovers, RecoverInsert, RecoverUpdate
  <1>3. RestorePatch(p) => mine[p] = json[t]
    BY DEF RestorePatch, DInv, Data, MineOK, LoadedOK, Loaded
  <1>4. row'[t].stamp = json[t].ver
    <2>1. CASE RestorePatch(p)
      <3>1. row'[t] = [row[t] EXCEPT !.analyses = row[t].analyses \cup mine[p].analyses,
                                     !.analysis = mine[p].analysis, !.stamp = mine[p].ver]
        BY <1>1, <2>1 DEF RestorePatch
      <3> QED BY <1>1, <1>3, <2>1, <3>1 DEF Row
    <2>2. CASE RestoreRebuild(p)
      <3>1. row'[t] = [RowOf(mine[p]) EXCEPT
                         !.snap = IF mine[p].snap \in snaps[t] THEN mine[p].snap ELSE 0,
                         !.stamp = json[t].ver]
        BY <1>1, <2>2 DEF RestoreRebuild
      <3> QED BY <3>1 DEF RowOf
    <2>3. CASE FinishCommit(p)
      <3>1. row'[t] = [RowOf(mine[p]) EXCEPT !.copies = row[t].copies + 1, !.stamp = json[t].ver]
        BY <1>1, <2>3 DEF FinishCommit
      <3> QED BY <3>1 DEF RowOf
    <2>4. CASE AnalyzeCommit(p)
      <3>1. row'[t] = [row[t] EXCEPT !.analyses = row[t].analyses \cup NewNotes(mine[p]),
                                     !.analysis = mine[p].analysis, !.stamp = json[t].ver]
        BY <1>1, <2>4 DEF AnalyzeCommit
      <3> QED BY <1>1, <3>1 DEF Row
    <2>5. CASE RescoreCommit(p)
      <3>1. row'[t] = [row[t] EXCEPT !.passed = mine[p].passed, !.state = mine[p].state,
                                     !.analysis = mine[p].analysis, !.stamp = json[t].ver]
        BY <1>1, <2>5 DEF RescoreCommit
      <3> QED BY <1>1, <3>1 DEF Row
    <2>6. CASE EnrichCommit(p)
      <3>1. row'[t] = [row[t] EXCEPT !.state = mine[p].state, !.snap = mine[p].snap,
                                     !.stamp = json[t].ver]
        BY <1>1, <2>6 DEF EnrichCommit
      <3> QED BY <1>1, <3>1 DEF Row
    <2> QED BY <1>2, <2>1, <2>2, <2>3, <2>4, <2>5, <2>6 DEF RowStep
  <1> QED BY <1>1, <1>4 DEF Settled

LEMMA SettlingStep ==
    ASSUME DInv, Calm, Settling, MaxCrashes = 0, NEW p \in Proc, Moves(p)
    PROVE  Settling'
  <1>0. TypeInv /\ Alone(p) /\ pc[p] \notin Recovers /\ pc'[p] \notin Recovers
    BY MovesAlone, NoRecovery DEF DInv, Calm
  <1> SUFFICES ASSUME NEW r \in Run, place'[r] = "final"
               PROVE  Settled(r)' \/ \E q \in Proc : pc'[q] \in Committing /\ tgt'[q] = r
    BY DEF Settling, Finalized
  <1>1. CASE RowStep(p) /\ tgt[p] = r
    <2>1. place[r] = "final"
      BY <1>1, RowStepFrame
    <2> QED BY <1>0, <1>1, <2>1, RowSettles
  <1>2. CASE ~(RowStep(p) /\ tgt[p] = r)
    <2>1. row'[r] = row[r]
      BY <1>2, MovesRow, RowStepFrame
    <2>2. CASE place'[r] = place[r] /\ json'[r] = json[r]
      <3>1. CASE Settled(r)
        BY <2>1, <2>2, <3>1 DEF Settled
      <3>2. CASE ~Settled(r)
        <4>1. PICK q \in Proc : pc[q] \in Committing /\ tgt[q] = r
          BY <2>2, <3>2 DEF Settling, Finalized
        <4>2. q # p
          <5>1. ASSUME pc[p] \in Committing PROVE RowStep(p)
            <6>1. ~\E c \in Commands : Start(p, c)
              BY <5>1 DEF Start, Committing
            <6> QED BY <5>1, <6>1, NoKill, CommitNext DEF Moves
          <5> QED BY <1>2, <4>1, <5>1
        <4> QED BY <1>0, <4>1, <4>2 DEF Alone
      <3> QED BY <3>1, <3>2
    <2>3. CASE ~(place'[r] = place[r] /\ json'[r] = json[r])
      <3>1. PICK s \in Run : Effect(p, s)
        BY <2>3, MovesEffect
      <3>2. s = r
        BY <2>3, <3>1 DEF Effect
      <3> QED BY <1>0, <3>1, <3>2
             DEF Effect, Begins, Drops, Saves, Drafts, Revises, Committing, Recovers
    <2> QED BY <2>2, <2>3
  <1> QED BY <1>1, <1>2

\* A saved run whose lock is free is settled.
LEMMA SettlingOffers ==
    ASSUME DInv, Calm, Settling
    PROVE  Apart /\ Offered
  <1>1. Apart
    BY DEF Apart, Calm
  <1>2. ASSUME NEW r \in Run, place[r] = "final", Free(runlock[r]) PROVE Settled(r)
    <2>1. ASSUME NEW q \in Proc, pc[q] \in Committing, tgt[q] = r PROVE FALSE
      <3>1. runlock[r] = q
        BY <2>1 DEF DInv, Control, Holds, LockOK, LockHeld, Committing
      <3> QED BY <1>2, <3>1, NoProcAssumption DEF Free
    <2> QED BY <1>2, <2>1 DEF Settling, Finalized
  <1> QED BY <1>1, <1>2 DEF Offered

LEMMA ToldInit == Init => Told
  BY DEF Init, Told, TrueRow, BasedOK, Recovers

LEMMA CalmInvariant ==
    ASSUME MaxCrashes = 0
    PROVE  Spec => [](DInv /\ Calm /\ Settling /\ Told)
  <1>1. Init => Calm /\ Settling /\ Told
    BY ToldInit DEF Init, Calm, Settling, Staged, Finalized, Recovers
  <1>2. DInv /\ Calm /\ Settling /\ Told /\ [Next]_vars => (Calm /\ Settling /\ Told)'
    <2> SUFFICES ASSUME DInv, Calm, Settling, Told, [Next]_vars PROVE (Calm /\ Settling /\ Told)'
      OBVIOUS
    <2>1. CASE UNCHANGED vars
      <3> USE <2>1 DEF vars, local, disk
      <3>1. Calm' /\ Settling'
        BY DEF Calm, Settling, Staged, Finalized, Settled
      <3>2. \A r \in Run : TrueRow(r)'
        BY DEF Told, TrueRow, Truth, RowAgrees, Settled, Made
      <3>3. \A p \in Proc : BasedOK(p)'
        BY DEF Told, BasedOK, Settled
      <3> QED BY <3>1, <3>2, <3>3 DEF Told
    <2>2. CASE Next
      <3>1. PICK p \in Proc : Moves(p)
        BY <2>2 DEF Next, Moves
      <3> QED BY <3>1, CalmStep, SettlingStep, SettlingOffers, ToldStep
    <2> QED BY <2>1, <2>2
  <1> QED BY <1>1, <1>2, DataInvariant, PTL DEF Spec

LEMMA ToldTruthful == DInv /\ Told => IndexTruthful
  <1> SUFFICES ASSUME DInv, Told, NEW r \in Run, place[r] = "final", Settled(r)
               PROVE  /\ json[r].state # "aborted" => RowAgrees(r) /\ row[r].copies = 1
                      /\ row[r].copies <= 1
    BY DEF IndexTruthful
  <1>1. TrueRow(r) /\ row[r].copies <= 1
    BY DEF Told, DInv, Data, RunOK, RowOK
  <1> QED BY <1>1 DEF TrueRow, Truth

\* However many commands run side by side, a row that claims to be settled on
\* its run.json repeats it, as long as no process is killed.
THEOREM IndexTrueUnkilled ==
    ASSUME MaxCrashes = 0
    PROVE  Spec => []IndexTruthful
  <1> QED BY CalmInvariant, ToldTruthful, PTL

-----------------------------------------------------------------------------
(* Verdicts.                                                               *)

\* A verdict is open where there is none; recover_incomplete alone leaves an
\* open one beside the verdict it gives the run it recovers.
OpenOK(m) == m.pending => /\ \E o \in Outcomes : o.pending
                          /\ m.passed = "null" \/ (m.interrupted /\ MaxCrashes # 0)
Opens == (\A r \in Run : OpenOK(json[r])) /\ \A p \in Proc : OpenOK(mine[p])

LEMMA PutOpens ==
    ASSUME TypeInv, Opens, NEW p \in Proc, NEW m, OpenOK(m),
           mine' = mine \/ mine' = [mine EXCEPT ![p] = m],
           json' = json \/ \E r \in Run : json' = [json EXCEPT ![r] = m]
    PROVE  Opens'
  <1>1. ASSUME NEW r \in Run PROVE json'[r] \in {json[r], m}
    BY DEF TypeInv, TypeOK
  <1>2. ASSUME NEW q \in Proc PROVE mine'[q] \in {mine[q], m}
    BY DEF TypeInv, TypeOK
  <1>3. ASSUME NEW r \in Run PROVE OpenOK(json'[r])
    BY <1>1 DEF Opens
  <1>4. ASSUME NEW q \in Proc PROVE OpenOK(mine'[q])
    BY <1>2 DEF Opens
  <1> QED BY <1>3, <1>4 DEF Opens, OpenOK

\* The same verdict, settled or not.
LEMMA SameOpen ==
    ASSUME NEW m, NEW w, OpenOK(m), w.pending = m.pending, w.passed = m.passed,
           w.interrupted = m.interrupted
    PROVE  OpenOK(w)
  BY DEF OpenOK

LEMMA OpensStep ==
    ASSUME DInv, Opens, NEW p \in Proc, Moves(p), RecoverWrite(p) => MaxCrashes # 0
    PROVE  Opens'
  <1> USE DEF local, locks, disk, bounds
  <1>0. /\ TypeInv /\ mine \in [Proc -> Manifest] /\ json \in [Run -> Manifest]
        /\ mine[p] \in Manifest /\ OpenOK(mine[p]) /\ \A r \in Run : OpenOK(json[r])
    BY DEF DInv, TypeInv, TypeOK, Opens
  <1>1. OpenOK(Blank) /\ OpenOK(Written(Blank))
    BY DEF OpenOK, Blank, Written
  <1>2. CASE OpenStep(p)
    <2>1. CASE RestoreRead(p)
      <3>1. tgt[p] \in Run
        BY <1>0, <2>1 DEF RestoreRead, TypeInv, TargetOK, Targetless
      <3> QED BY <1>0, <2>1, <3>1, PutOpens DEF RestoreRead
    <2>2. CASE ~RestoreRead(p)
      BY <1>0, <1>1, <1>2, <2>2, PutOpens
         DEF OpenStep, OpenSkip, OpenStale, OpenLock, RestoreSkip, RestorePatch, RestoreRebuild,
             OpenDone, Dispatch, ScanNext, Exit
    <2> QED BY <2>1, <2>2
  <1>3. CASE EntryStep(p)
    <2>1. CASE RecoverWrite(p)
      <3>1. PICK r \in todo[p] :
              /\ json' = [json EXCEPT ![r] = Written(AsAborted(json[r]))]
              /\ mine' = [mine EXCEPT ![p] = Written(AsAborted(json[r]))]
        BY <2>1 DEF RecoverWrite
      <3>2. r \in Run /\ json[r] \in Manifest /\ AsAborted(json[r]) \in Manifest
        BY <1>0, <3>1, ManifestTyped DEF TypeInv, TypeOK
      <3>3. /\ Written(AsAborted(json[r])).pending = json[r].pending
            /\ Written(AsAborted(json[r])).interrupted = TRUE
        <4> DEFINE a == AsAborted(json[r])
        <4>1. a \in Manifest /\ a.pending = json[r].pending /\ a.interrupted = TRUE
          BY <3>2 DEF AsAborted, Manifest
        <4> HIDE DEF a
        <4> QED BY <4>1, Edits DEF a
      <3>4. OpenOK(Written(AsAborted(json[r])))
        BY <1>0, <2>1, <3>2, <3>3 DEF OpenOK
      <3> QED BY <1>0, <3>1, <3>2, <3>4, PutOpens
    <2>2. CASE ~RecoverWrite(p)
      BY <1>0, <1>1, <1>3, <2>2, PutOpens
         DEF EntryStep, GateTake, GateBusy, RecoverPass, RecoverMove, RecoverInsert, RecoverUpdate,
             RecoverDone, CheckAnalyses, CheckResults, Exit
    <2> QED BY <2>1, <2>2
  <1>4. CASE RunStep(p)
    <2> DEFINE t == tgt[p]
    <2>1. CASE BeginFile(p) \/ DiscardFiles(p)
      <3>1. t \in Run
        BY <1>0, <2>1 DEF BeginFile, DiscardFiles, TypeInv, TargetOK, Targetless
      <3> QED BY <1>0, <1>1, <2>1, <3>1, PutOpens DEF BeginFile, DiscardFiles, Exit
    <2>2. CASE Benchmark(p)
      <3>1. PICK o \in Outcomes :
              mine' = [mine EXCEPT ![p] =
                         [mine[p] EXCEPT !.passed = o.passed, !.pending = o.pending,
                                         !.interrupted = o.interrupted,
                                         !.collectorFailed = o.collectorFailed,
                                         !.parserFailed = o.parserFailed]]
        BY <2>2 DEF Benchmark
      <3> DEFINE m == [mine[p] EXCEPT !.passed = o.passed, !.pending = o.pending,
                                      !.interrupted = o.interrupted,
                                      !.collectorFailed = o.collectorFailed,
                                      !.parserFailed = o.parserFailed]
      <3>2. m.passed = o.passed /\ m.pending = o.pending
        BY <1>0 DEF Manifest
      <3>3. o.pending => o.passed = "null"
        BY OutcomesAssumption DEF Outcome
      <3>4. OpenOK(m)
        BY <3>2, <3>3 DEF OpenOK
      <3>5. mine' = [mine EXCEPT ![p] = m] /\ json' = json
        BY <2>2, <3>1 DEF Benchmark
      <3> HIDE DEF m
      <3> QED BY <1>0, <3>4, <3>5, PutOpens
    <2>3. CASE Checkpoint(p)
      <3>1. t \in Run
        BY <1>0, <2>3 DEF Checkpoint, TypeInv, TargetOK, Targetless
      <3>2. OpenOK(Written(mine[p]))
        BY <1>0, Edits, SameOpen
      <3> QED BY <1>0, <2>3, <3>1, <3>2, PutOpens DEF Checkpoint
    <2>4. CASE Finish(p)
      <3> DEFINE c == Settle(mine[p])
                 d == [c EXCEPT !.analysis = AnalysisFor(mine[p].passed)]
      <3>1. t \in Run
        BY <1>0, <2>4 DEF Finish, TypeInv, TargetOK, Targetless
      <3>2. /\ c \in Manifest /\ c.pending = mine[p].pending /\ c.passed = mine[p].passed
            /\ c.interrupted = mine[p].interrupted
        BY <1>0, Edits, ManifestTyped
      <3>3. mine' = [mine EXCEPT ![p] = Written(d)] /\ json' = [json EXCEPT ![t] = Written(d)]
        BY <2>4 DEF Finish
      <3> HIDE DEF c
      <3>4. /\ d \in Manifest /\ d.pending = mine[p].pending /\ d.passed = mine[p].passed
            /\ d.interrupted = mine[p].interrupted
        BY <3>2 DEF Manifest, AnalysisFor, AnalysisStatus
      <3> HIDE DEF d
      <3>5. OpenOK(Written(d))
        BY <1>0, <3>4, Edits, SameOpen
      <3> QED BY <1>0, <3>1, <3>3, <3>5, PutOpens
    <2>5. CASE NewRun(p) \/ PrepareFail(p) \/ BeginRow(p) \/ DiscardRow(p) \/ FinishMove(p)
               \/ FinishCommit(p) \/ RunDone(p)
      BY <1>0, <1>1, <2>5, PutOpens
         DEF NewRun, PrepareFail, BeginRow, DiscardRow, FinishMove, FinishCommit, RunDone, Exit
    <2> QED BY <1>4, <2>1, <2>2, <2>3, <2>4, <2>5 DEF RunStep
  <1>5. CASE SavedStep(p)
    <2> DEFINE t == tgt[p]
    <2>1. CASE LockRun(p)
      <3>1. PICK r \in Run : mine' = [mine EXCEPT ![p] = json[r]]
        BY <2>1 DEF LockRun
      <3> QED BY <1>0, <2>1, <3>1, PutOpens DEF LockRun
    <2>2. CASE AnalyzeWrite(p)
      <3>1. t \in Run /\ mine[p].ver \in Nat /\ mine[p].analyses \in SUBSET Nat
        BY <1>0, <2>2, ManifestFields DEF AnalyzeWrite, TypeInv, TargetOK, Targetless
      <3>2. PICK v \in {"complete", "skipped"} :
              LET m == Written([mine[p] EXCEPT !.analysis = v,
                                  !.analyses = mine[p].analyses \cup {mine[p].ver}])
              IN mine' = [mine EXCEPT ![p] = m] /\ json' = [json EXCEPT ![t] = m]
        BY <2>2 DEF AnalyzeWrite
      <3> DEFINE d == [mine[p] EXCEPT !.analysis = v, !.analyses = mine[p].analyses \cup {mine[p].ver}]
      <3>3. /\ d \in Manifest /\ d.pending = mine[p].pending /\ d.passed = mine[p].passed
            /\ d.interrupted = mine[p].interrupted
        <4>1. mine[p].analyses \cup {mine[p].ver} \in SUBSET Nat /\ v \in AnalysisStatus
          BY <3>1 DEF AnalysisStatus
        <4> QED BY <1>0, <4>1 DEF Manifest
      <3>4. mine' = [mine EXCEPT ![p] = Written(d)] /\ json' = [json EXCEPT ![t] = Written(d)]
        BY <3>2
      <3> HIDE DEF d
      <3>5. OpenOK(Written(d))
        BY <1>0, <3>3, Edits, SameOpen
      <3> QED BY <1>0, <3>1, <3>4, <3>5, PutOpens
    <2>3. CASE RescoreWrite(p)
      <3>1. t \in Run
        BY <1>0, <2>3 DEF RescoreWrite, TypeInv, TargetOK, Targetless
      <3>2. PICK v \in {"yes", "no"} :
              LET m == Written([Settle([mine[p] EXCEPT !.passed = v, !.pending = FALSE])
                                  EXCEPT !.analysis = AnalysisFor(v)])
              IN mine' = [mine EXCEPT ![p] = m] /\ json' = [json EXCEPT ![t] = m]
        BY <2>3 DEF RescoreWrite
      <3> DEFINE b == [mine[p] EXCEPT !.passed = v, !.pending = FALSE]
                 c == Settle(b)
                 d == [c EXCEPT !.analysis = AnalysisFor(v)]
      <3>3. mine' = [mine EXCEPT ![p] = Written(d)] /\ json' = [json EXCEPT ![t] = Written(d)]
        BY <3>2
      <3>4. b \in Manifest /\ b.pending = FALSE
        BY <1>0 DEF Manifest, Verdict
      <3> HIDE DEF b
      <3>5. c \in Manifest /\ c.pending = FALSE
        BY <3>4, Edits, ManifestTyped
      <3> HIDE DEF c
      <3>6. d \in Manifest /\ d.pending = FALSE
        BY <3>5 DEF Manifest, AnalysisFor, AnalysisStatus
      <3> HIDE DEF d
      <3>7. OpenOK(Written(d))
        BY <3>6, Edits DEF OpenOK
      <3> QED BY <1>0, <3>1, <3>3, <3>7, PutOpens
    <2>4. CASE EnrichSnapshot(p)
      <3>1. PICK n \in Nat : n = mine[p].ver + 1
        BY <1>0, ManifestFields
      <3>2. PICK failed \in BOOLEAN :
              mine' = [mine EXCEPT ![p] = Written(Settle([mine[p] EXCEPT !.parserFailed = failed,
                                                              !.snap = mine[p].ver + 1]))]
        BY <2>4 DEF EnrichSnapshot
      <3> DEFINE b == [mine[p] EXCEPT !.parserFailed = failed, !.snap = mine[p].ver + 1]
      <3>3. /\ b \in Manifest /\ b.pending = mine[p].pending /\ b.passed = mine[p].passed
            /\ b.interrupted = mine[p].interrupted
        BY <1>0, <3>1 DEF Manifest
      <3>4. mine' = [mine EXCEPT ![p] = Written(Settle(b))] /\ json' = json
        BY <2>4, <3>2 DEF EnrichSnapshot
      <3> HIDE DEF b
      <3>5. /\ Settle(b) \in Manifest /\ Settle(b).pending = mine[p].pending
            /\ Settle(b).passed = mine[p].passed /\ Settle(b).interrupted = mine[p].interrupted
        BY <3>3, Edits, ManifestTyped
      <3>6. OpenOK(Written(Settle(b)))
        BY <1>0, <3>5, Edits, SameOpen
      <3> QED BY <1>0, <3>4, <3>6, PutOpens
    <2>5. CASE EnrichWrite(p)
      <3>1. t \in Run
        BY <1>0, <2>5 DEF EnrichWrite, TypeInv, TargetOK, Targetless
      <3> QED BY <1>0, <2>5, <3>1, PutOpens DEF EnrichWrite
    <2>6. CASE NoTarget(p) \/ AnalyzeRefuse(p) \/ AnalyzeCommit(p) \/ RescoreRefuse(p)
               \/ RescoreCommit(p) \/ EnrichCommit(p) \/ EnrichPrune(p)
      BY <1>0, <1>1, <2>6, PutOpens
         DEF NoTarget, AnalyzeRefuse, AnalyzeCommit, RescoreRefuse, RescoreCommit, EnrichCommit,
             EnrichPrune, Exit
    <2> QED BY <1>5, <2>1, <2>2, <2>3, <2>4, <2>5, <2>6 DEF SavedStep
  <1>6. CASE Reap(p) \/ Crash(p) \/ \E c \in Commands : Start(p, c)
    BY <1>0, <1>1, <1>6, PutOpens DEF Reap, Crash, Start, Exit
  <1> QED BY <1>2, <1>3, <1>4, <1>5, <1>6 DEF Moves, Step

LEMMA OpensInvariant == Spec => [](DInv /\ Opens)
  <1> DEFINE Quiescent == MaxCrashes = 0 => Calm
  <1>1. Init => Quiescent /\ Opens
    BY DEF Init, Calm, Staged, Recovers, Opens, OpenOK, Blank
  <1>2. DInv /\ Quiescent /\ Opens /\ [Next]_vars => (Quiescent /\ Opens)'
    <2> SUFFICES ASSUME DInv, Quiescent, Opens, [Next]_vars PROVE (Quiescent /\ Opens)'
      OBVIOUS
    <2>1. CASE UNCHANGED vars
      BY <2>1 DEF vars, local, disk, Calm, Staged, Opens, OpenOK
    <2>2. CASE Next
      <3>1. PICK p \in Proc : Moves(p)
        BY <2>2 DEF Next, Moves
      <3>2. Quiescent'
        BY <3>1, CalmStep
      <3>3. RecoverWrite(p) => MaxCrashes # 0
        <4> SUFFICES ASSUME MaxCrashes = 0 PROVE ~RecoverWrite(p)
          OBVIOUS
        <4>1. pc'[p] \notin Recovers
          BY <3>1, NoRecovery
        <4> QED BY <4>1 DEF RecoverWrite, GoTo, Recovers, DInv, TypeInv, TypeOK
      <3> QED BY <3>1, <3>2, <3>3, OpensStep
    <2> QED BY <2>1, <2>2
  <1> QED BY <1>1, <1>2, DataInvariant, PTL DEF Spec

LEMMA VerdictStep ==
    ASSUME DInv, Opens, [Next]_vars, NEW r \in Run, place[r] = "final", json[r].passed # "null",
           ~(json[r].pending /\ json[r].interrupted /\ MaxCrashes # 0)
    PROVE  json'[r].passed = json[r].passed
  <1>1. ~json[r].pending
    BY DEF Opens, OpenOK, DInv, TypeInv, TypeOK, Manifest
  <1>2. CASE UNCHANGED <<place, json>>
    BY <1>2
  <1>3. CASE \E p \in Proc, s \in Run : Effect(p, s)
    <2>1. PICK p \in Proc, s \in Run : Effect(p, s)
      BY <1>3
    <2>2. CASE s # r
      BY <2>1, <2>2 DEF Effect
    <2>3. CASE s = r
      BY <1>1, <2>1, <2>3
         DEF Effect, Begins, Drops, Saves, Drafts, Revises, Judges, Analyzes, Enriches
    <2> QED BY <2>2, <2>3
  <1> QED BY <1>2, <1>3, StepEffect

\* A verdict once recorded is never replaced, but for a run that was aborted:
\* whatever is killed, a second rescore of a run finds nothing open.
VerdictOfUnaborted ==
    [][\A r \in Run : place[r] = "final" /\ json[r].state # "aborted" /\ json[r].passed # "null"
          => json'[r].passed = json[r].passed]_vars

THEOREM VerdictsOfUnabortedStay == Spec => VerdictOfUnaborted
  <1>1. ASSUME DInv, Opens, [Next]_vars, NEW r \in Run, place[r] = "final",
               json[r].state # "aborted", json[r].passed # "null"
        PROVE  json'[r].passed = json[r].passed
    <2>1. ~json[r].interrupted
      BY <1>1 DEF DInv, Data, RunOK, JsonOK, Closed
    <2> QED BY <1>1, <2>1, VerdictStep
  <1>2. (DInv /\ Opens) /\ [Next]_vars =>
          [\A r \in Run : place[r] = "final" /\ json[r].state # "aborted" /\ json[r].passed # "null"
             => json'[r].passed = json[r].passed]_vars
    BY <1>1
  <1> QED BY <1>2, OpensInvariant, PTL DEF Spec, VerdictOfUnaborted

\* No verdict is ever replaced when no process is killed, or when the adapter
\* never leaves a verdict open; a kill between the checkpoint of an open
\* verdict and its save is what it takes (VerdictKept fails then).
THEOREM VerdictsStay ==
    ASSUME MaxCrashes = 0 \/ \A o \in Outcomes : ~o.pending
    PROVE  Spec => VerdictKept
  <1>1. ASSUME DInv, Opens, [Next]_vars, NEW r \in Run, place[r] = "final", json[r].passed # "null"
        PROVE  json'[r].passed = json[r].passed
    <2>1. ~(json[r].pending /\ MaxCrashes # 0)
      BY <1>1 DEF Opens, OpenOK
    <2> QED BY <1>1, <2>1, VerdictStep
  <1>2. (DInv /\ Opens) /\ [Next]_vars =>
          [\A r \in Run : place[r] = "final" /\ json[r].passed # "null"
             => json'[r].passed = json[r].passed]_vars
    BY <1>1
  <1> QED BY <1>2, OpensInvariant, PTL DEF Spec, VerdictKept

-----------------------------------------------------------------------------
(* One process at a time, killed anywhere.                                 *)

\* Store::open has settled every saved run when a command goes on to its work;
\* afterwards only recovery leaves a run unsettled, an aborted one that did not
\* pass, and the process itself between its two writes.
Opened == {"dispatch", "lockRun", "analyze", "rescore", "enrich", "enrichWrite"}
Entry  == {"gate", "recover", "checkAnalyses", "checkResults"} \cup Recovers \cup InRun
Aside(r) == json[r].state = "aborted" /\ json[r].passed = "no"
Judged(r) == ~(json[r].passed = "yes" /\ json[r].analysis = "pending")

SoloOK(p, r) ==
    /\ pc[p] \in Scanning => Settled(r) \/ r \in todo[p]
    /\ pc[p] \in Opened => Settled(r)
    /\ pc[p] \in Entry => \/ Settled(r) \/ Aside(r)
                          \/ pc[p] = "finishCommit" /\ r = tgt[p]
    /\ pc[p] \in {"checkResults", "new"} \cup Measuring => Judged(r)
    /\ pc[p] \in {"new"} \cup Measuring => json[r].state # "pending"
Solo == \A p \in Proc, r \in Finalized : SoloOK(p, r)

LEMMA SoloOpen ==
    ASSUME DInv, Solo, NEW p \in Proc, OpenStep(p), NEW r \in Run, place'[r] = "final"
    PROVE  SoloOK(p, r)'
  <1> USE DEF disk, bounds
  <1>0. TypeInv /\ todo[p] \in SUBSET Run
    BY DEF DInv, TypeInv, TypeOK
  <1>1. place' = place /\ json' = json /\ place[r] = "final" /\ SoloOK(p, r)
    <2>1. place' = place /\ json' = json
      BY DEF OpenStep, OpenSkip, OpenStale, OpenLock, RestoreSkip, RestoreRead, RestorePatch,
             RestoreRebuild, OpenDone, Dispatch
    <2> QED BY <2>1 DEF Solo, Finalized
  <1>2. ASSUME pc'[p] \in Scanning, pc[p] \in Scanning,
               \/ Settled(r)'
               \/ row'[r] = row[r] /\ (r \in todo[p] => r \in todo'[p])
        PROVE  SoloOK(p, r)'
    <2>1. /\ pc'[p] \notin Opened \cup Entry \cup {"checkResults", "new"} \cup Measuring
      BY <1>2 DEF Scanning, Opened, Entry, Measuring, InRun, Recovers
    <2> QED BY <1>1, <1>2, <2>1 DEF SoloOK, Settled
  <1>3. CASE OpenSkip(p)
    <2>1. PICK s \in todo[p] : Settled(s) /\ todo' = [todo EXCEPT ![p] = @ \ {s}]
      BY <1>3 DEF OpenSkip
    <2>2. pc[p] = "open" /\ pc'[p] = "open" /\ row' = row /\ todo'[p] = todo[p] \ {s}
      BY <1>0, <1>3, <2>1 DEF OpenSkip, local, TypeInv, TypeOK
    <2>3. CASE r = s
      BY <1>1, <1>2, <2>1, <2>2, <2>3 DEF Scanning, Settled
    <2>4. CASE r # s
      BY <1>2, <2>2, <2>4 DEF Scanning
    <2> QED BY <2>3, <2>4
  <1>4. CASE OpenStale(p) \/ OpenLock(p) \/ RestoreRead(p)
    <2>1. pc[p] \in Scanning /\ pc'[p] \in Scanning /\ row' = row /\ todo' = todo
      BY <1>0, <1>4 DEF OpenStale, OpenLock, RestoreRead, GoTo, Scanning, TypeInv, TypeOK
    <2> QED BY <1>2, <2>1
  <1>5. CASE RestoreSkip(p) \/ RestorePatch(p) \/ RestoreRebuild(p)
    <2>1. /\ pc[p] \in {"restore", "patch", "rebuild"} /\ pc'[p] = "open"
          /\ todo'[p] = todo[p] \ {tgt[p]} /\ tgt[p] \in Run
      BY <1>0, <1>5 DEF RestoreSkip, RestorePatch, RestoreRebuild, ScanNext, GoTo, TypeInv, TypeOK,
                        TargetOK, Targetless
    <2>2. CASE r = tgt[p]
      <3>1. CASE RestoreSkip(p)
        BY <1>1, <1>2, <2>1, <2>2, <3>1 DEF RestoreSkip, Settled, Scanning
      <3>2. CASE RestorePatch(p) \/ RestoreRebuild(p)
        <4>1. RowStep(p) /\ pc[p] \notin Recovers
          BY <2>1, <3>2 DEF RowStep, Recovers
        <4>2. Settled(r)'
          BY <1>1, <2>2, <4>1, RowSettles
        <4> QED BY <1>2, <2>1, <4>2 DEF Scanning
      <3> QED BY <1>5, <3>1, <3>2
    <2>3. CASE r # tgt[p]
      <3>1. row'[r] = row[r]
        <4>1. CASE RestoreSkip(p)
          BY <4>1 DEF RestoreSkip
        <4>2. CASE RestorePatch(p) \/ RestoreRebuild(p)
          BY <2>3, <4>2, RowStepFrame DEF RowStep
        <4> QED BY <1>5, <4>1, <4>2
      <3> QED BY <1>2, <2>1, <2>3, <3>1 DEF Scanning
    <2> QED BY <2>2, <2>3
  <1>6. CASE OpenDone(p)
    <2>1. /\ pc[p] = "open" /\ todo[p] = {} /\ pc'[p] = "dispatch" /\ row' = row
      BY <1>0, <1>6 DEF OpenDone, GoTo, TypeInv, TypeOK
    <2>2. Settled(r)
      BY <1>1, <2>1 DEF SoloOK, Scanning
    <2> QED BY <1>1, <2>1, <2>2 DEF SoloOK, Scanning, Entry, InRun, Recovers, Measuring, Settled
  <1>7. CASE Dispatch(p)
    <2>1. pc[p] = "dispatch" /\ pc'[p] \in {"idle", "gate", "lockRun"} /\ row' = row
      BY <1>0, <1>7 DEF Dispatch, Exit, GoTo, TypeInv, TypeOK
    <2>2. Settled(r)
      BY <1>1, <2>1 DEF SoloOK, Opened
    <2> QED BY <1>1, <2>1, <2>2 DEF SoloOK, Scanning, Opened, Entry, InRun, Recovers, Measuring, Settled
  <1> QED BY <1>3, <1>4, <1>5, <1>6, <1>7 DEF OpenStep

\* A saved run while the process is at the entry of a run.
LEMMA SoloEntry ==
    ASSUME DInv, Told, Solo, NEW p \in Proc, EntryStep(p), NEW r \in Run, place'[r] = "final"
    PROVE  SoloOK(p, r)'
  <1> USE DEF disk, bounds
  <1>0. TypeInv /\ RunOK(r) /\ TrueRow(r) /\ BasedOK(p) /\ MineOK(p)
    BY DEF DInv, Data, Told
  <1>1. place[r] = "final" => SoloOK(p, r)
    BY DEF Solo, Finalized
  <1> DEFINE Checked == {"checkResults", "new"} \cup Measuring
  <1>2. ASSUME pc'[p] \in Entry \ Checked, Settled(r)' \/ Aside(r)'
        PROVE  SoloOK(p, r)'
    BY <1>2 DEF SoloOK, Scanning, Opened, Entry, InRun, Recovers, Measuring
  <1>3. ASSUME pc'[p] = "idle" PROVE SoloOK(p, r)'
    BY <1>3 DEF SoloOK, Scanning, Opened, Entry, InRun, Recovers, Measuring
  <1>4. ASSUME pc[p] \in Entry, pc[p] # "finishCommit", place[r] = "final"
        PROVE  Settled(r) \/ Aside(r)
    BY <1>1, <1>4 DEF SoloOK
  <1>5. CASE GateTake(p) \/ GateBusy(p) \/ RecoverPass(p) \/ RecoverDone(p)
    <2>1. /\ pc[p] \in {"gate", "recover"} /\ pc'[p] \in {"idle", "recover", "checkAnalyses"}
          /\ UNCHANGED <<place, json, row>>
      BY <1>0, <1>5 DEF GateTake, GateBusy, RecoverPass, RecoverDone, Exit, GoTo, TypeInv, TypeOK
    <2>2. Settled(r) \/ Aside(r)
      BY <1>4, <2>1 DEF Entry
    <2> QED BY <1>2, <1>3, <2>1, <2>2 DEF Entry, Measuring, Settled, Aside
  <1>6. CASE RecoverWrite(p)
    <2>1. PICK s \in todo[p] : /\ place[s] = "staging"
                               /\ json' = [json EXCEPT ![s] = Written(AsAborted(json[s]))]
      BY <1>6 DEF RecoverWrite
    <2>2. pc[p] = "recover" /\ pc'[p] = "recoverMove" /\ UNCHANGED <<place, row>>
      BY <1>0, <1>6 DEF RecoverWrite, GoTo, TypeInv, TypeOK
    <2>3. r # s /\ json'[r] = json[r]
      BY <1>0, <2>1, <2>2 DEF TypeInv, TypeOK
    <2>4. Settled(r) \/ Aside(r)
      BY <1>4, <2>2 DEF Entry
    <2> QED BY <1>2, <2>2, <2>3, <2>4 DEF Entry, Recovers, Measuring, Settled, Aside
  <1>7. CASE RecoverMove(p) \/ RecoverInsert(p) \/ RecoverUpdate(p)
    <2>1. /\ pc[p] \in Recovers /\ pc'[p] \in {"recoverInsert", "recoverUpdate", "recover"}
          /\ tgt[p] \in Run /\ json' = json
      BY <1>0, <1>7 DEF RecoverMove, RecoverInsert, RecoverUpdate, GoTo, Recovers, TypeInv, TypeOK,
                        TargetOK, Targetless
    <2>2. pc'[p] \in Entry \ Checked
      BY <2>1 DEF Entry, Recovers, Measuring
    <2>3. CASE r = tgt[p]
      <3>1. Aside(r)
        BY <1>0, <2>1, <2>3 DEF Aside, BasedOK, MineOK, AbortOK, Recovers
      <3> QED BY <1>2, <2>1, <2>2, <3>1 DEF Aside
    <2>4. CASE r # tgt[p]
      <3>1. place'[r] = place[r] /\ row'[r] = row[r]
        BY <1>0, <1>7, <2>4 DEF RecoverMove, RecoverInsert, RecoverUpdate, TypeInv, TypeOK
      <3>2. Settled(r) \/ Aside(r)
        BY <1>4, <2>1, <3>1 DEF Entry, Recovers
      <3> QED BY <1>2, <2>1, <2>2, <3>1, <3>2 DEF Settled, Aside
    <2> QED BY <2>3, <2>4
  <1>8. CASE CheckAnalyses(p)
    <2>1. /\ pc[p] = "checkAnalyses" /\ UNCHANGED <<place, json, row>>
          /\ \/ pc'[p] = "idle"
             \/ pc'[p] = "checkResults" /\ ~AwaitsAnalysis(r)
      BY <1>0, <1>8 DEF CheckAnalyses, Exit, GoTo, TypeInv, TypeOK
    <2>2. Settled(r) \/ Aside(r)
      BY <1>4, <2>1 DEF Entry
    <2>3. ASSUME ~AwaitsAnalysis(r) PROVE Judged(r)
      BY <1>0, <2>1, <2>2, <2>3 DEF AwaitsAnalysis, Judged, Aside, TrueRow, Truth
    <2> QED BY <1>3, <2>1, <2>2, <2>3
           DEF SoloOK, Scanning, Opened, Entry, InRun, Recovers, Measuring, Settled, Aside, Judged
  <1>9. CASE CheckResults(p)
    <2>1. /\ pc[p] = "checkResults" /\ UNCHANGED <<place, json, row>>
          /\ \/ pc'[p] = "idle"
             \/ pc'[p] = "new" /\ ~AwaitsResult(r)
      BY <1>0, <1>9 DEF CheckResults, Exit, GoTo, TypeInv, TypeOK
    <2>2. (Settled(r) \/ Aside(r)) /\ Judged(r)
      BY <1>1, <1>4, <2>1 DEF Entry, SoloOK
    <2>3. ASSUME ~AwaitsResult(r) PROVE json[r].state # "pending"
      BY <1>0, <2>1, <2>2, <2>3 DEF AwaitsResult, Aside, TrueRow, Truth, RowAgrees
    <2> QED BY <1>3, <2>1, <2>2, <2>3
           DEF SoloOK, Scanning, Opened, Entry, InRun, Recovers, Measuring, Settled, Aside, Judged
  <1> QED BY <1>5, <1>6, <1>7, <1>8, <1>9 DEF EntryStep

\* A saved run while the process executes a run.
LEMMA SoloRun ==
    ASSUME DInv, Solo, NEW p \in Proc, RunStep(p), NEW r \in Run, place'[r] = "final"
    PROVE  SoloOK(p, r)'
  <1> USE DEF disk, bounds
  <1>0. TypeInv
    BY DEF DInv
  <1>1. place[r] = "final" => SoloOK(p, r)
    BY DEF Solo, Finalized
  <1>2. ASSUME pc'[p] = "idle" PROVE SoloOK(p, r)'
    BY <1>2 DEF SoloOK, Scanning, Opened, Entry, InRun, Recovers, Measuring
  <1>3. ASSUME pc[p] \in Owned \cup {"new", "prepare"}, pc'[p] \in InRun, pc'[p] # "new",
               pc'[p] \in Measuring => pc[p] \in {"new"} \cup Measuring,
               place[r] = "final", json'[r] = json[r], row'[r] = row[r]
        PROVE  SoloOK(p, r)'
    <2>1. /\ pc[p] \in Entry /\ pc[p] # "finishCommit"
          /\ pc'[p] \notin Scanning \cup Opened \cup {"checkResults"}
      BY <1>3 DEF Entry, Owned, InRun, Scanning, Opened
    <2> QED BY <1>1, <1>3, <2>1 DEF SoloOK, Settled, Aside, Judged
  <1>4. CASE NewRun(p) \/ BeginRow(p) \/ DiscardRow(p) \/ Benchmark(p)
    <2>1. /\ pc[p] \in Owned \cup {"new", "prepare"} /\ pc'[p] \in InRun /\ pc'[p] # "new"
          /\ (pc'[p] \in Measuring => pc[p] \in {"new"} \cup Measuring)
          /\ UNCHANGED <<place, json>>
      BY <1>0, <1>4 DEF NewRun, BeginRow, DiscardRow, Benchmark, GoTo, Owned, InRun, Measuring,
                        TypeInv, TypeOK
    <2>2. row'[r] = row[r]
      <3>1. CASE NewRun(p) \/ Benchmark(p)
        BY <3>1 DEF NewRun, Benchmark
      <3>2. CASE BeginRow(p) \/ DiscardRow(p)
        <4>1. RowStep(p) /\ pc[p] \in Staging
          BY <3>2 DEF RowStep, BeginRow, DiscardRow, Staging, Owned
        <4>2. r # tgt[p]
          BY <2>1, <4>1 DEF DInv, Control, Holds, PlaceOK
        <4> QED BY <4>1, <4>2, RowStepFrame
      <3> QED BY <1>4, <3>1, <3>2
    <2> QED BY <1>3, <2>1, <2>2
  <1>5. CASE BeginFile(p) \/ Checkpoint(p) \/ Finish(p)
    <2>1. /\ pc[p] \in Owned \cup {"new", "prepare"} /\ pc'[p] \in InRun /\ pc'[p] # "new"
          /\ (pc'[p] \in Measuring => pc[p] \in {"new"} \cup Measuring)
          /\ tgt[p] \in Run /\ row' = row
      BY <1>0, <1>5 DEF BeginFile, Checkpoint, Finish, GoTo, Owned, InRun, Measuring,
                        TypeInv, TypeOK, TargetOK, Targetless
    <2>2. place'[tgt[p]] = "staging"
      <3>1. CASE BeginFile(p)
        BY <1>0, <2>1, <3>1 DEF BeginFile, TypeInv, TypeOK
      <3>2. CASE Checkpoint(p) \/ Finish(p)
        BY <3>2 DEF Checkpoint, Finish, DInv, Control, Holds, PlaceOK, Staging, Owned
      <3> QED BY <1>5, <3>1, <3>2
    <2>3. r # tgt[p]
      BY <2>2
    <2>4. place[r] = "final" /\ json'[r] = json[r]
      BY <1>0, <1>5, <2>1, <2>3 DEF BeginFile, Checkpoint, Finish, TypeInv, TypeOK
    <2> QED BY <1>3, <2>1, <2>4
  <1>6. CASE FinishMove(p)
    <2>1. /\ pc[p] = "finishMove" /\ pc'[p] = "finishCommit" /\ tgt[p] \in Run
          /\ UNCHANGED <<json, row, tgt>>
      BY <1>0, <1>6 DEF FinishMove, GoTo, TypeInv, TypeOK, TargetOK, Targetless
    <2>2. CASE r = tgt[p]
      BY <2>1, <2>2 DEF SoloOK, Scanning, Opened, Measuring
    <2>3. CASE r # tgt[p]
      <3>1. place[r] = "final"
        BY <1>0, <1>6, <2>1, <2>3 DEF FinishMove, TypeInv, TypeOK
      <3> QED BY <1>3, <2>1, <3>1 DEF Owned, InRun, Measuring
    <2> QED BY <2>2, <2>3
  <1>7. CASE FinishCommit(p)
    <2>1. /\ pc[p] = "finishCommit" /\ pc'[p] = "runDone" /\ RowStep(p)
      BY <1>0, <1>7 DEF FinishCommit, GoTo, RowStep, TypeInv, TypeOK
    <2>2. place[r] = "final" /\ json' = json
      BY <2>1, RowStepFrame
    <2>3. Settled(r)' \/ Aside(r)'
      <3>1. CASE r = tgt[p]
        BY <2>1, <2>2, <3>1, RowSettles DEF Recovers
      <3>2. CASE r # tgt[p]
        <4>1. row'[r] = row[r]
          BY <2>1, <3>2, RowStepFrame
        <4> QED BY <1>1, <2>1, <2>2, <3>2, <4>1 DEF SoloOK, Entry, InRun, Settled, Aside
      <3> QED BY <3>1, <3>2
    <2> QED BY <2>1, <2>3 DEF SoloOK, Scanning, Opened, Measuring
  <1>8. CASE PrepareFail(p) \/ DiscardFiles(p) \/ RunDone(p)
    BY <1>0, <1>2, <1>8 DEF PrepareFail, DiscardFiles, RunDone, Exit, GoTo, TypeInv, TypeOK
  <1> QED BY <1>4, <1>5, <1>6, <1>7, <1>8 DEF RunStep

LEMMA SoloSaved ==
    ASSUME DInv, Solo, NEW p \in Proc, SavedStep(p), NEW r \in Run, place'[r] = "final"
    PROVE  SoloOK(p, r)'
  <1> USE DEF disk, bounds
  <1>0. TypeInv
    BY DEF DInv
  <1>1. CASE LockRun(p) \/ EnrichSnapshot(p)
    <2>1. /\ pc[p] \in Opened /\ pc'[p] \in Opened /\ UNCHANGED <<place, json, row>>
      BY <1>0, <1>1 DEF LockRun, EnrichSnapshot, GoTo, Opened, TypeInv, TypeOK, TargetOK
    <2>2. Settled(r)
      BY <2>1 DEF Solo, SoloOK, Finalized
    <2> QED BY <2>1, <2>2
           DEF SoloOK, Scanning, Opened, Entry, InRun, Recovers, Measuring, Settled
  <1>2. CASE ~(LockRun(p) \/ EnrichSnapshot(p))
    <2>1. pc'[p] \in {"idle", "analyzeCommit", "rescoreCommit", "enrichCommit", "enrichPrune"}
      BY <1>0, <1>2 DEF SavedStep, NoTarget, AnalyzeRefuse, AnalyzeWrite, AnalyzeCommit,
                        RescoreRefuse, RescoreWrite, RescoreCommit, EnrichWrite, EnrichCommit,
                        EnrichPrune, Exit, GoTo, TypeInv, TypeOK
    <2> QED BY <2>1 DEF SoloOK, Scanning, Opened, Entry, InRun, Recovers, Measuring
  <1> QED BY <1>1, <1>2

LEMMA SoloOther ==
    ASSUME DInv, NEW p \in Proc, Reap(p) \/ Crash(p) \/ \E c \in Commands : Start(p, c),
           NEW r \in Run, place'[r] = "final"
    PROVE  SoloOK(p, r)'
  <1>0. TypeInv
    BY DEF DInv
  <1>1. CASE Reap(p) \/ Crash(p)
    <2>1. pc'[p] \in {"idle", "dying"}
      BY <1>0, <1>1 DEF Reap, Crash, Exit, GoTo, TypeInv, TypeOK
    <2> QED BY <2>1 DEF SoloOK, Scanning, Opened, Entry, InRun, Recovers, Measuring
  <1>2. CASE \E c \in Commands : Start(p, c)
    <2>1. pc'[p] = "open" /\ todo'[p] = Finalized /\ place[r] = "final"
      BY <1>0, <1>2 DEF Start, GoTo, disk, TypeInv, TypeOK
    <2> QED BY <2>1 DEF SoloOK, Scanning, Opened, Entry, InRun, Recovers, Measuring, Finalized
  <1> QED BY <1>1, <1>2

OneProcess == \A p, q \in Proc : p = q

LEMMA SoloInvariant ==
    ASSUME OneProcess
    PROVE  Spec => [](DInv /\ Told /\ Solo)
  <1>1. Init => Told /\ Solo
    BY ToldInit DEF Init, Solo, Finalized
  <1>2. DInv /\ Told /\ Solo /\ [Next]_vars => (Told /\ Solo)'
    <2> SUFFICES ASSUME DInv, Told, Solo, [Next]_vars PROVE (Told /\ Solo)'
      OBVIOUS
    <2>1. CASE UNCHANGED vars
      <3> USE <2>1 DEF vars, local, disk
      <3>1. Solo'
        BY DEF Solo, SoloOK, Finalized, Settled, Aside, Judged
      <3>2. \A r \in Run : TrueRow(r)'
        BY DEF Told, TrueRow, Truth, RowAgrees, Settled, Made
      <3>3. \A p \in Proc : BasedOK(p)'
        BY DEF Told, BasedOK, Settled
      <3> QED BY <3>1, <3>2, <3>3 DEF Told
    <2>2. CASE Next
      <3>1. PICK p \in Proc : Moves(p)
        BY <2>2 DEF Next, Moves
      <3>2. Apart
        BY DEF Apart, OneProcess
      <3>3. Offered
        BY DEF Offered, Solo, SoloOK, Opened, Finalized
      <3>4. Told'
        BY <3>1, <3>2, <3>3, ToldStep
      <3>5. ASSUME NEW r \in Run, place'[r] = "final" PROVE SoloOK(p, r)'
        BY <3>1, <3>5, SoloOpen, SoloEntry, SoloRun, SoloSaved, SoloOther DEF Moves, Step
      <3>6. ASSUME NEW q \in Proc PROVE q = p
        BY DEF OneProcess
      <3> QED BY <3>4, <3>5, <3>6 DEF Solo, Finalized
    <2> QED BY <2>1, <2>2
  <1> QED BY <1>1, <1>2, DataInvariant, PTL DEF Spec

\* One command at a time, the index is true wherever the commands before were
\* killed: a row settled on its run.json repeats it.
THEOREM IndexTrueAlone ==
    ASSUME OneProcess
    PROVE  Spec => []IndexTruthful
  <1> QED BY SoloInvariant, ToldTruthful, PTL

\* And opening the store settles every saved run before the command works.
THEOREM OpenSettlesAlone ==
    ASSUME OneProcess
    PROVE  Spec => []OpenSettles
  <1>1. Solo => OpenSettles
    BY DEF Solo, SoloOK, Opened, Finalized, OpenSettles
  <1> QED BY <1>1, SoloInvariant, PTL

\* And a benchmark is measured only when no saved run waits for its verdict or
\* its analysis, although the checks read the index and not run.json.
THEOREM NothingAwaitedAlone ==
    ASSUME OneProcess
    PROVE  Spec => []NothingAwaited
  <1>1. Solo => NothingAwaited
    BY DEF Solo, SoloOK, Judged, Finalized, NothingAwaited, Awaits
  <1> QED BY <1>1, SoloInvariant, PTL
=============================================================================
