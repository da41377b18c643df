---------------------------- MODULE RunFlowProofs ----------------------------
(***************************************************************************)
(* Theorems about RunFlow, for every set of collectors, every              *)
(* configuration and every number of signals.                              *)
(*                                                                         *)
(* The invariant has three layers, each inductive given those before it:   *)
(* Order (which children may run at which stage), Readiness (what was done *)
(* before) and Cleanness (what is left on the nodes).                      *)
(***************************************************************************)
EXTENDS RunFlow, TLAPS

Early    == {"disks", "begin", "early", "prepare", "unprepared"}
Start    == Early \cup {"before", "decide", "refuse", "duringStart", "benchmark"}
Measured == {"cleanup", "stopDuring", "boundary", "checkpoint", "join"}
Running(c) == child[c] \in {"spawned", "up"}

\* A running child belongs to the stage the run is in, or is a during collector
\* that is yet to be stopped.
Placed ==
    /\ Going => \A c \in Child : Running(c) =>
          \/ c \in Due
          \/ /\ c \in During /\ stopTask # "done"
             /\ pc \in {"duringStart", "benchmark"} \cup Measured
    /\ pc = "returned" => Alive = {}

\* The join and the task that stops the during collectors.
JoinOK ==
    /\ pc \in Start \cup {"cleanup", "stopDuring", "after"} => stopTask = "off"
    /\ pc \in {"boundary", "checkpoint", "join"} => stopTask # "off"
    /\ pc = "join" /\ branch # "stopping" => stopTask = "done"
    /\ stopTask = "done" => \A d \in During : child[d] \in {"none", "dead", "done"}

\* The operation lock is held until the nodes are left alone.
LockOK ==
    /\ ~lock /\ sig \notin Exiting => pc \in {"save", "discard", "returned"}
    /\ pc = "exited" => sig \in Exiting

Order == Placed /\ JoinOK /\ LockOK

\* The before collectors have not started yet, or have all ended.
BeforeOK ==
    /\ ~conf.before \/ pc \in Early => marks = {} /\ \A b \in Before : child[b] = "none"
    /\ pc \in {"decide", "duringStart", "benchmark"} =>
          \A b \in Before : child[b] = IF conf.before THEN "done" ELSE "none"

\* The during collectors have not started yet, or their output is saved, when
\* after collectors can run; and no after collector has started before that.
DuringOK ==
    /\ pc \in {"after"} \cup (Start \ {"duringStart", "benchmark"})
          => \A d \in During : child[d] = "none"
    /\ pc = "join" /\ branch \in {"after", "done"}
          => \A d \in During : child[d] = "done"
    /\ pc \in Start \cup (Measured \ {"join"})
          => \A a \in After : child[a] = "none"
    /\ pc = "join" /\ branch \in {"stopping", "finalize"}
          => \A a \in After : child[a] = "none"

PreparedOK ==
    /\ conf.prepare /\ pc \in {"before", "decide", "duringStart", "benchmark"}
          => "prepare" \notin failed
    /\ Going /\ pc \notin {"disks", "begin"} => disk = "staging"

Readiness == BeforeOK /\ DuringOK /\ PreparedOK /\ DuringBracket

\* The signal that interrupted the benchmark is not watched by what follows.
CutOK ==
    /\ bench.interrupted => cancelled /\ ~cut
    /\ bench.interrupted /\ pc \in Measured \cup {"after"} => ~watch
    /\ cut => pc \notin Start \cup (Measured \ {"join"}) \cup {"after"}
    /\ cut /\ pc = "join" => branch = "done"

\* An after collector that ended has removed its marks, or says that it failed,
\* or was cut short by a signal; then the clean-up follows.
MarksOK ==
    /\ pc = "after" \/ (pc = "join" /\ branch = "after") =>
          \A a \in After : child[a] \in {"dead", "done"} =>
              (watch /\ cancelled) \/ sig \in Exiting \/ marks \cap Undoes[a] \subseteq stuck
    /\ pc = "nodes" \/ (pc = "join" /\ branch = "done") =>
          cut \/ sig \in Exiting \/ marks \subseteq stuck
    /\ pc \in {"release", "save", "refuseRelease", "discard"} =>
          sig \in Exiting \/ marks \subseteq stuck
    /\ Going => recovery = "none"

Cleanness == CutOK /\ MarksOK /\ NodesClean

FlowInv == TypeOK /\ Order /\ Readiness /\ Cleanness

-----------------------------------------------------------------------------
\* What a benchmark that did not start, or was stopped, leaves as its result.
BenchResult == [mode : {"none", "not-started", "command"},
                interrupted : BOOLEAN, stopped : {"none", "interrupted", "timeout"}]

LEMMA BenchTyped ==
    NotStarted(TRUE) \in BenchResult /\ NotStarted(FALSE) \in BenchResult
  BY DEF BenchResult, NotStarted

LEMMA BenchStopped ==
    ASSUME NEW b \in BenchResult, NEW reason \in {"interrupted", "timeout"}
    PROVE  [b EXCEPT !.stopped = reason, !.interrupted = reason = "interrupted"] \in BenchResult
  <1> DEFINE i == reason = "interrupted"
  <1>1. i \in BOOLEAN
    OBVIOUS
  <1> HIDE DEF i
  <1>2. [b EXCEPT !.stopped = reason, !.interrupted = i] \in BenchResult
    BY <1>1 DEF BenchResult
  <1> QED BY <1>2 DEF i

LEMMA StopTyped ==
    ASSUME TypeOK, NEW c \in Child, NEW reason \in {"interrupted", "timeout"},
           StopAs(c, reason), stuck' \subseteq Before
    PROVE  TypeOK'
  <1>1. bench' \in BenchResult
    BY BenchStopped DEF StopAs, TypeOK, BenchResult
  <1>2. child' \in [Child -> {"none", "spawned", "up", "dead", "done"}]
    BY DEF StopAs, TypeOK
  <1>3. failed' \subseteq Judged
    BY DEF StopAs, TypeOK
  <1> QED BY <1>1, <1>2, <1>3 DEF StopAs, TypeOK, BenchResult, signals, stored

LEMMA ReturnTyped ==
    ASSUME TypeOK, NEW d \in {"none", "staging", "saved", "dropped"}, Return(d)
    PROVE  TypeOK'
  <1>1. lock' \in BOOLEAN
    BY DEF Return
  <1>2. child' \in [Child -> {"none", "spawned", "up", "dead", "done"}]
    BY DEF Return, TypeOK
  <1>3. pc' \in Stage
    BY DEF Return, Stage
  <1> QED BY <1>1, <1>2, <1>3 DEF Return, TypeOK, signals, nodes

(* TypeOK. *)

\* The types: each step writes values of the declared sets.
LEMMA StagesType ==
    ASSUME TypeOK, Stages
    PROVE  TypeOK'
  <1> USE DEF signals, nodes, stored, childVars, TypeOK, Stage, Branch,
          NoBenchmark, Config, Judged, Child, Collector, Hooks, Exiting, Ended,
          Going, Due, Alive
  <1>1. CASE DisksChecked
    <2>1. CASE Return("none")
      BY <2>1, ReturnTyped
    <2>2. CASE pc' = "begin" /\ Stay /\ UNCHANGED <<branch, watch, cut, stopTask, bench>>
      BY <2>2 DEF Stay
    <2> QED BY <1>1, <2>1, <2>2 DEF DisksChecked
  <1>2. CASE Begin
    BY <1>2 DEF Begin
  <1>3. CASE EarlyRepeatCheck
    BY <1>3 DEF EarlyRepeatCheck, Stay
  <1>4. CASE Prepared
    BY <1>4 DEF Prepared, Stay
  <1>5. CASE Unprepared
    BY <1>5 DEF Unprepared, NotStarted, Stay
  <1>6. CASE BeforeEnded
    BY <1>6 DEF BeforeEnded, Stay
  <1>7. CASE Decide
    <2>1. bench' \in BenchResult
      BY <1>7, BenchTyped DEF Decide, BenchResult
    <2>2. watch' \in BOOLEAN /\ pc' \in Stage
      BY <1>7 DEF Decide, LaterSignal
    <2> QED BY <1>7, <2>1, <2>2 DEF Decide, Stay, BenchResult
  <1>8. CASE DuringStarted
    BY <1>8 DEF DuringStarted, Stay
  <1>9. CASE BenchmarkEnded
    BY <1>9 DEF BenchmarkEnded, LaterSignal, Stay
  <1>10. CASE CleanupEnded
    BY <1>10 DEF CleanupEnded, Stay
  <1>11. CASE StopDuringStarts
    BY <1>11 DEF StopDuringStarts, LaterSignal, Stay
  <1>12. CASE StopTaskEnds
    BY <1>12 DEF StopTaskEnds, Stay
  <1>13. CASE BoundaryEnded
    BY <1>13 DEF BoundaryEnded, Stay
  <1>14. CASE Checkpoint
    BY <1>14 DEF Checkpoint, Stay
  <1>15. CASE BranchStopped
    BY <1>15 DEF BranchStopped, Stay
  <1>16. CASE BranchFinalized
    BY <1>16 DEF BranchFinalized, LaterSignal, Stay
  <1>17. CASE BranchAfterEnded
    BY <1>17 DEF BranchAfterEnded, AfterCut, Stay
  <1>18. CASE Joined
    BY <1>18 DEF Joined, Stay
  <1>19. CASE AfterEnded
    BY <1>19 DEF AfterEnded, AfterCut, Stay
  <1>20. CASE NodesLeft
    BY <1>20 DEF NodesLeft, CleanNodes
  <1>21. CASE Release
    <2>1. lock' \in BOOLEAN
      BY <1>21 DEF Release
    <2> QED BY <1>21, <2>1 DEF Release
  <1>22. CASE Save
    BY <1>22, ReturnTyped DEF Save
  <1>23. CASE RefuseRepeat
    BY <1>23 DEF RefuseRepeat, CleanNodes
  <1>24. CASE RefuseRelease
    <2>1. lock' \in BOOLEAN
      BY <1>24 DEF RefuseRelease
    <2> QED BY <1>24, <2>1 DEF RefuseRelease
  <1>25. CASE Discard
    BY <1>25, ReturnTyped DEF Discard
  <1> QED BY <1>1, <1>2, <1>3, <1>4, <1>5, <1>6, <1>7, <1>8, <1>9, <1>10, <1>11,
           <1>12, <1>13, <1>14, <1>15, <1>16, <1>17, <1>18, <1>19, <1>20, <1>21,
           <1>22, <1>23, <1>24, <1>25
         DEF Stages

LEMMA ChildrenType ==
    ASSUME TypeOK, NEW c \in Child,
           Skip(c) \/ Spawn(c) \/ Register(c) \/ StopInterrupted(c) \/ StopTimedOut(c)
           \/ StopDuring(c) \/ ChildDone(c) \/ SpawnFails(c) \/ ChildExits(c)
    PROVE  TypeOK'
  <1> USE DEF signals, nodes, stored, TypeOK, Stage, Branch, NoBenchmark,
          Config, Judged, Child, Collector, Hooks, Exiting, Ended, Going, Due,
          Alive
  <1>1. CASE Skip(c)
    BY <1>1 DEF Skip, Watched
  <1>2. CASE Spawn(c)
    BY <1>2 DEF Spawn, Watched
  <1>3. CASE Register(c)
    BY <1>3 DEF Register, Registered
  <1>4. CASE StopInterrupted(c)
    <2>1. StopAs(c, "interrupted") /\ UNCHANGED stuck
      BY <1>4 DEF StopInterrupted
    <2> QED BY <2>1, StopTyped
  <1>5. CASE StopTimedOut(c)
    <2>1. StopAs(c, "timeout") /\ stuck' \subseteq Before
      BY <1>5 DEF StopTimedOut
    <2> QED BY <2>1, StopTyped
  <1>6. CASE StopDuring(c)
    BY <1>6 DEF StopDuring
  <1>7. CASE ChildDone(c)
    BY <1>7 DEF ChildDone
  <1>8. CASE SpawnFails(c)
    BY <1>8 DEF SpawnFails, Watched, NotStarted
  <1>9. CASE ChildExits(c)
    <2>1. child' \in [Child -> {"none", "spawned", "up", "dead", "done"}]
      BY <1>9 DEF ChildExits
    <2>2. failed' \subseteq Judged /\ marks' \subseteq Before /\ stuck' \subseteq Before
      BY <1>9 DEF ChildExits
    <2> QED BY <1>9, <2>1, <2>2 DEF ChildExits
  <1> QED BY <1>1, <1>2, <1>3, <1>4, <1>5, <1>6, <1>7, <1>8, <1>9

LEMMA OthersType ==
    ASSUME TypeOK,
           Listener \/ StoreFails \/ Signal \/ Recover \/ RecoverNodes \/ UNCHANGED vars
    PROVE  TypeOK'
  <1> USE DEF signals, nodes, stored, childVars, runVars, TypeOK, Stage, Branch,
          NoBenchmark, Config, Judged, Child, Collector, Hooks, Exiting, Ended,
          Going, Due, Alive
  <1>1. CASE Cancel
    BY <1>1 DEF Cancel
  <1>2. CASE Rearm
    BY <1>2 DEF Rearm
  <1>3. CASE KillRegistered
    <2>1. child' \in [Child -> {"none", "spawned", "up", "dead", "done"}]
      BY <1>3 DEF KillRegistered
    <2>2. failed' \subseteq Judged
      BY <1>3 DEF KillRegistered
    <2> QED BY <1>3, <2>1, <2>2 DEF KillRegistered
  <1>4. CASE ReleaseOnExit
    <2>1. lock' \in BOOLEAN
      BY <1>4 DEF ReleaseOnExit
    <2> QED BY <1>4, <2>1 DEF ReleaseOnExit
  <1>5. CASE ExitNow
    BY <1>5 DEF ExitNow
  <1>6. CASE StoreFails
    <2>1. PICK d \in {"none", "staging", "saved"} : Return(d)
      BY <1>6 DEF StoreFails
    <2> QED BY <2>1, ReturnTyped
  <1>7. CASE Signal
    BY <1>7 DEF Signal
  <1>8. CASE Recover
    BY <1>8 DEF Recover
  <1>9. CASE RecoverNodes
    BY <1>9 DEF RecoverNodes, CleanNodes
  <1>10. CASE UNCHANGED vars
    BY <1>10 DEF vars
  <1> QED BY <1>1, <1>2, <1>3, <1>4, <1>5, <1>6, <1>7, <1>8, <1>9, <1>10 DEF Listener

-----------------------------------------------------------------------------
(* Order. *)

\* A running child stays with its stage: a stage ends only when what it waits
\* for is done, and the during collectors are stopped before the join goes on.
LEMMA StagesOrder ==
    ASSUME TypeOK, Order, Stages
    PROVE  Order'
  <1> USE PhasesAssumption DEF signals, nodes, stored, childVars, TypeOK, Order,
          Placed, JoinOK, LockOK, Alive, Early, Start, Measured, Running, Going,
          Ended, Exiting, Due, DueDone, Child, Collector, Hooks
  <1>1. CASE DisksChecked
    BY <1>1 DEF DisksChecked, Return, Stay
  <1>2. CASE Begin
    BY <1>2 DEF Begin
  <1>3. CASE EarlyRepeatCheck
    BY <1>3 DEF EarlyRepeatCheck, Stay
  <1>4. CASE Prepared
    BY <1>4 DEF Prepared, Stay
  <1>5. CASE Unprepared
    BY <1>5 DEF Unprepared, NotStarted, Stay
  <1>6. CASE BeforeEnded
    BY <1>6 DEF BeforeEnded, Stay
  <1>7. CASE Decide
    BY <1>7 DEF Decide, NotStarted, LaterSignal, Stay
  <1>8. CASE DuringStarted
    BY <1>8 DEF DuringStarted, Stay
  <1>9. CASE BenchmarkEnded
    BY <1>9 DEF BenchmarkEnded, LaterSignal, Stay
  <1>10. CASE CleanupEnded
    BY <1>10 DEF CleanupEnded, Stay
  <1>11. CASE StopDuringStarts
    BY <1>11 DEF StopDuringStarts, LaterSignal, Stay
  <1>12. CASE StopTaskEnds
    BY <1>12 DEF StopTaskEnds, Stay
  <1>13. CASE BoundaryEnded
    BY <1>13 DEF BoundaryEnded, Stay
  <1>14. CASE Checkpoint
    BY <1>14 DEF Checkpoint, Stay
  <1>15. CASE BranchStopped
    BY <1>15 DEF BranchStopped, Stay
  <1>16. CASE BranchFinalized
    BY <1>16 DEF BranchFinalized, LaterSignal, Stay
  <1>17. CASE BranchAfterEnded
    BY <1>17 DEF BranchAfterEnded, AfterCut, Stay
  <1>18. CASE Joined
    BY <1>18 DEF Joined, Stay
  <1>19. CASE AfterEnded
    BY <1>19 DEF AfterEnded, AfterCut, Stay
  <1>20. CASE NodesLeft
    BY <1>20 DEF NodesLeft, CleanNodes
  <1>21. CASE Release
    BY <1>21 DEF Release
  <1>22. CASE Save
    BY <1>22 DEF Save, Return
  <1>23. CASE RefuseRepeat
    BY <1>23 DEF RefuseRepeat, CleanNodes
  <1>24. CASE RefuseRelease
    BY <1>24 DEF RefuseRelease
  <1>25. CASE Discard
    BY <1>25 DEF Discard, Return
  <1> QED BY <1>1, <1>2, <1>3, <1>4, <1>5, <1>6, <1>7, <1>8, <1>9, <1>10, <1>11,
           <1>12, <1>13, <1>14, <1>15, <1>16, <1>17, <1>18, <1>19, <1>20, <1>21,
           <1>22, <1>23, <1>24, <1>25
         DEF Stages

LEMMA ChildrenOrder ==
    ASSUME TypeOK, Order, NEW c \in Child,
           Skip(c) \/ Spawn(c) \/ Register(c) \/ StopInterrupted(c) \/ StopTimedOut(c)
           \/ StopDuring(c) \/ ChildDone(c) \/ SpawnFails(c) \/ ChildExits(c)
    PROVE  Order'
  <1> USE PhasesAssumption DEF signals, nodes, stored, TypeOK, Order, Placed,
          JoinOK, LockOK, Alive, Early, Start, Measured, Running, Going, Ended,
          Exiting, Due, DueDone, Child, Collector, Hooks
  <1>1. CASE Skip(c)
    BY <1>1 DEF Skip, Watched
  <1>2. CASE Spawn(c)
    BY <1>2 DEF Spawn, Watched
  <1>3. CASE Register(c)
    BY <1>3 DEF Register, Registered
  <1>4. CASE StopInterrupted(c)
    BY <1>4 DEF StopInterrupted, StopAs, Interrupted, Watched
  <1>5. CASE StopTimedOut(c)
    BY <1>5 DEF StopTimedOut, StopAs, Limited
  <1>6. CASE StopDuring(c)
    BY <1>6 DEF StopDuring
  <1>7. CASE ChildDone(c)
    BY <1>7 DEF ChildDone
  <1>8. CASE SpawnFails(c)
    BY <1>8 DEF SpawnFails, Watched, NotStarted
  <1>9. CASE ChildExits(c)
    BY <1>9 DEF ChildExits
  <1> QED BY <1>1, <1>2, <1>3, <1>4, <1>5, <1>6, <1>7, <1>8, <1>9

LEMMA OthersOrder ==
    ASSUME TypeOK, Order,
           Listener \/ StoreFails \/ Signal \/ Recover \/ RecoverNodes \/ UNCHANGED vars
    PROVE  Order'
  <1> USE PhasesAssumption DEF signals, nodes, stored, childVars, runVars,
          TypeOK, Order, Placed, JoinOK, LockOK, Alive, Early, Start, Measured,
          Running, Going, Ended, Exiting, Due, DueDone, Child, Collector, Hooks
  <1>1. CASE Cancel
    BY <1>1 DEF Cancel
  <1>2. CASE Rearm
    BY <1>2 DEF Rearm
  <1>3. CASE KillRegistered
    BY <1>3 DEF KillRegistered
  <1>4. CASE ReleaseOnExit
    BY <1>4 DEF ReleaseOnExit
  <1>5. CASE ExitNow
    BY <1>5 DEF ExitNow
  <1>6. CASE StoreFails
    BY <1>6 DEF StoreFails, Return
  <1>7. CASE Signal
    BY <1>7 DEF Signal
  <1>8. CASE Recover
    BY <1>8 DEF Recover
  <1>9. CASE RecoverNodes
    BY <1>9 DEF RecoverNodes, CleanNodes
  <1>10. CASE UNCHANGED vars
    BY <1>10 DEF vars
  <1> QED BY <1>1, <1>2, <1>3, <1>4, <1>5, <1>6, <1>7, <1>8, <1>9, <1>10 DEF Listener

-----------------------------------------------------------------------------
(* Readiness. *)

\* What a stage needs was done before it: stages have one order, and a child is
\* started at its own stage only.
LEMMA StagesReady ==
    ASSUME TypeOK, Order, Readiness, Stages
    PROVE  Readiness'
  <1> USE PhasesAssumption DEF signals, nodes, stored, childVars, TypeOK, Order,
          Placed, JoinOK, Readiness, BeforeOK, DuringOK, PreparedOK,
          DuringBracket, Alive, Judged, Early, Start, Measured, Running, Going,
          Ended, Exiting, Due, DueDone, Child, Collector, Hooks
  <1>1. CASE DisksChecked
    BY <1>1 DEF DisksChecked, Return, Stay
  <1>2. CASE Begin
    BY <1>2 DEF Begin
  <1>3. CASE EarlyRepeatCheck
    BY <1>3 DEF EarlyRepeatCheck, Stay
  <1>4. CASE Prepared
    BY <1>4 DEF Prepared, Stay
  <1>5. CASE Unprepared
    BY <1>5 DEF Unprepared, NotStarted, Stay
  <1>6. CASE BeforeEnded
    BY <1>6 DEF BeforeEnded, Stay
  <1>7. CASE Decide
    BY <1>7 DEF Decide, NotStarted, LaterSignal, Stay
  <1>8. CASE DuringStarted
    BY <1>8 DEF DuringStarted, Stay
  <1>9. CASE BenchmarkEnded
    BY <1>9 DEF BenchmarkEnded, LaterSignal, Stay
  <1>10. CASE CleanupEnded
    BY <1>10 DEF CleanupEnded, Stay
  <1>11. CASE StopDuringStarts
    BY <1>11 DEF StopDuringStarts, LaterSignal, Stay
  <1>12. CASE StopTaskEnds
    BY <1>12 DEF StopTaskEnds, Stay
  <1>13. CASE BoundaryEnded
    BY <1>13 DEF BoundaryEnded, Stay
  <1>14. CASE Checkpoint
    BY <1>14 DEF Checkpoint, Stay
  <1>15. CASE BranchStopped
    BY <1>15 DEF BranchStopped, Stay
  <1>16. CASE BranchFinalized
    BY <1>16 DEF BranchFinalized, LaterSignal, Stay
  <1>17. CASE BranchAfterEnded
    BY <1>17 DEF BranchAfterEnded, AfterCut, Stay
  <1>18. CASE Joined
    BY <1>18 DEF Joined, Stay
  <1>19. CASE AfterEnded
    BY <1>19 DEF AfterEnded, AfterCut, Stay
  <1>20. CASE NodesLeft
    BY <1>20 DEF NodesLeft, CleanNodes
  <1>21. CASE Release
    BY <1>21 DEF Release
  <1>22. CASE Save
    BY <1>22 DEF Save, Return
  <1>23. CASE RefuseRepeat
    BY <1>23 DEF RefuseRepeat, CleanNodes
  <1>24. CASE RefuseRelease
    BY <1>24 DEF RefuseRelease
  <1>25. CASE Discard
    BY <1>25 DEF Discard, Return
  <1> QED BY <1>1, <1>2, <1>3, <1>4, <1>5, <1>6, <1>7, <1>8, <1>9, <1>10, <1>11,
           <1>12, <1>13, <1>14, <1>15, <1>16, <1>17, <1>18, <1>19, <1>20, <1>21,
           <1>22, <1>23, <1>24, <1>25
         DEF Stages

LEMMA ChildrenReady ==
    ASSUME TypeOK, Order, Readiness, NEW c \in Child,
           Skip(c) \/ Spawn(c) \/ Register(c) \/ StopInterrupted(c) \/ StopTimedOut(c)
           \/ StopDuring(c) \/ ChildDone(c) \/ SpawnFails(c) \/ ChildExits(c)
    PROVE  Readiness'
  <1> USE PhasesAssumption DEF signals, nodes, stored, TypeOK, Order, Placed,
          JoinOK, Readiness, BeforeOK, DuringOK, PreparedOK, DuringBracket,
          Alive, Judged, Early, Start, Measured, Running, Going, Ended, Exiting,
          Due, DueDone, Child, Collector, Hooks
  <1>1. CASE Skip(c)
    BY <1>1 DEF Skip, Watched
  <1>2. CASE Spawn(c)
    BY <1>2 DEF Spawn, Watched
  <1>3. CASE Register(c)
    BY <1>3 DEF Register, Registered
  <1>4. CASE StopInterrupted(c)
    BY <1>4 DEF StopInterrupted, StopAs, Interrupted, Watched
  <1>5. CASE StopTimedOut(c)
    BY <1>5 DEF StopTimedOut, StopAs, Limited
  <1>6. CASE StopDuring(c)
    BY <1>6 DEF StopDuring
  <1>7. CASE ChildDone(c)
    BY <1>7 DEF ChildDone
  <1>8. CASE SpawnFails(c)
    BY <1>8 DEF SpawnFails, Watched, NotStarted
  <1>9. CASE ChildExits(c)
    BY <1>9 DEF ChildExits
  <1> QED BY <1>1, <1>2, <1>3, <1>4, <1>5, <1>6, <1>7, <1>8, <1>9

LEMMA OthersReady ==
    ASSUME TypeOK, Order, Readiness,
           Listener \/ StoreFails \/ Signal \/ Recover \/ RecoverNodes \/ UNCHANGED vars
    PROVE  Readiness'
  <1> USE PhasesAssumption DEF signals, nodes, stored, childVars, runVars,
          TypeOK, Order, Placed, JoinOK, Readiness, BeforeOK, DuringOK,
          PreparedOK, DuringBracket, Alive, Judged, Early, Start, Measured,
          Running, Going, Ended, Exiting, Due, DueDone, Child, Collector, Hooks
  <1>1. CASE Cancel
    BY <1>1 DEF Cancel
  <1>2. CASE Rearm
    BY <1>2 DEF Rearm
  <1>3. CASE KillRegistered
    BY <1>3 DEF KillRegistered
  <1>4. CASE ReleaseOnExit
    BY <1>4 DEF ReleaseOnExit
  <1>5. CASE ExitNow
    BY <1>5 DEF ExitNow
  <1>6. CASE StoreFails
    BY <1>6 DEF StoreFails, Return
  <1>7. CASE Signal
    BY <1>7 DEF Signal
  <1>8. CASE Recover
    BY <1>8 DEF Recover
  <1>9. CASE RecoverNodes
    BY <1>9 DEF RecoverNodes, CleanNodes
  <1>10. CASE UNCHANGED vars
    BY <1>10 DEF vars
  <1> QED BY <1>1, <1>2, <1>3, <1>4, <1>5, <1>6, <1>7, <1>8, <1>9, <1>10 DEF Listener

-----------------------------------------------------------------------------
(* Cleanness. *)

\* Marks are removed by an after collector that ends, or by the clean-up after
\* a phase that was cut.
LEMMA StagesClean ==
    ASSUME TypeOK, Order, Readiness, Cleanness, Stages
    PROVE  Cleanness'
  <1> USE PhasesAssumption, UndoesAssumption DEF signals, nodes, stored,
          childVars, TypeOK, Order, Placed, Readiness, BeforeOK, DuringOK,
          Cleanness, CutOK, MarksOK, NodesClean, Early, Start, Measured,
          Running, Going, Ended, Exiting, Due, DueDone, Child, Collector, Hooks
  <1>1. CASE DisksChecked
    BY <1>1 DEF DisksChecked, Return, Stay
  <1>2. CASE Begin
    BY <1>2 DEF Begin
  <1>3. CASE EarlyRepeatCheck
    BY <1>3 DEF EarlyRepeatCheck, Stay
  <1>4. CASE Prepared
    BY <1>4 DEF Prepared, Stay
  <1>5. CASE Unprepared
    BY <1>5 DEF Unprepared, NotStarted, Stay
  <1>6. CASE BeforeEnded
    BY <1>6 DEF BeforeEnded, Stay
  <1>7. CASE Decide
    BY <1>7 DEF Decide, NotStarted, LaterSignal, Stay
  <1>8. CASE DuringStarted
    BY <1>8 DEF DuringStarted, Stay
  <1>9. CASE BenchmarkEnded
    BY <1>9 DEF BenchmarkEnded, LaterSignal, Stay
  <1>10. CASE CleanupEnded
    BY <1>10 DEF CleanupEnded, Stay
  <1>11. CASE StopDuringStarts
    BY <1>11 DEF StopDuringStarts, LaterSignal, Stay
  <1>12. CASE StopTaskEnds
    BY <1>12 DEF StopTaskEnds, Stay
  <1>13. CASE BoundaryEnded
    BY <1>13 DEF BoundaryEnded, Stay
  <1>14. CASE Checkpoint
    BY <1>14 DEF Checkpoint, Stay
  <1>15. CASE BranchStopped
    BY <1>15 DEF BranchStopped, Stay
  <1>16. CASE BranchFinalized
    BY <1>16 DEF BranchFinalized, LaterSignal, Stay
  <1>17. CASE BranchAfterEnded
    BY <1>17 DEF BranchAfterEnded, AfterCut, Stay
  <1>18. CASE Joined
    BY <1>18 DEF Joined, Stay
  <1>19. CASE AfterEnded
    BY <1>19 DEF AfterEnded, AfterCut, Stay
  <1>20. CASE NodesLeft
    BY <1>20 DEF NodesLeft, CleanNodes
  <1>21. CASE Release
    BY <1>21 DEF Release
  <1>22. CASE Save
    BY <1>22 DEF Save, Return
  <1>23. CASE RefuseRepeat
    BY <1>23 DEF RefuseRepeat, CleanNodes
  <1>24. CASE RefuseRelease
    BY <1>24 DEF RefuseRelease
  <1>25. CASE Discard
    BY <1>25 DEF Discard, Return
  <1> QED BY <1>1, <1>2, <1>3, <1>4, <1>5, <1>6, <1>7, <1>8, <1>9, <1>10, <1>11,
           <1>12, <1>13, <1>14, <1>15, <1>16, <1>17, <1>18, <1>19, <1>20, <1>21,
           <1>22, <1>23, <1>24, <1>25
         DEF Stages

LEMMA ChildrenClean ==
    ASSUME TypeOK, Order, Readiness, Cleanness, NEW c \in Child,
           Skip(c) \/ Spawn(c) \/ Register(c) \/ StopInterrupted(c) \/ StopTimedOut(c)
           \/ StopDuring(c) \/ ChildDone(c) \/ SpawnFails(c) \/ ChildExits(c)
    PROVE  Cleanness'
  <1> USE PhasesAssumption, UndoesAssumption DEF signals, nodes, stored, TypeOK,
          Order, Placed, Readiness, BeforeOK, DuringOK, Cleanness, CutOK,
          MarksOK, NodesClean, Early, Start, Measured, Running, Going, Ended,
          Exiting, Due, DueDone, Child, Collector, Hooks
  <1>1. CASE Skip(c)
    BY <1>1 DEF Skip, Watched
  <1>2. CASE Spawn(c)
    BY <1>2 DEF Spawn, Watched
  <1>3. CASE Register(c)
    BY <1>3 DEF Register, Registered
  <1>4. CASE StopInterrupted(c)
    BY <1>4 DEF StopInterrupted, StopAs, Interrupted, Watched
  <1>5. CASE StopTimedOut(c)
    BY <1>5 DEF StopTimedOut, StopAs, Limited
  <1>6. CASE StopDuring(c)
    BY <1>6 DEF StopDuring
  <1>7. CASE ChildDone(c)
    BY <1>7 DEF ChildDone
  <1>8. CASE SpawnFails(c)
    BY <1>8 DEF SpawnFails, Watched, NotStarted
  <1>9. CASE ChildExits(c)
    BY <1>9 DEF ChildExits
  <1> QED BY <1>1, <1>2, <1>3, <1>4, <1>5, <1>6, <1>7, <1>8, <1>9

LEMMA OthersClean ==
    ASSUME TypeOK, Order, Readiness, Cleanness,
           Listener \/ StoreFails \/ Signal \/ Recover \/ RecoverNodes \/ UNCHANGED vars
    PROVE  Cleanness'
  <1> USE PhasesAssumption, UndoesAssumption DEF signals, nodes, stored,
          childVars, runVars, TypeOK, Order, Placed, Readiness, BeforeOK,
          DuringOK, Cleanness, CutOK, MarksOK, NodesClean, Early, Start,
          Measured, Running, Going, Ended, Exiting, Due, DueDone, Child,
          Collector, Hooks
  <1>1. CASE Cancel
    BY <1>1 DEF Cancel
  <1>2. CASE Rearm
    BY <1>2 DEF Rearm
  <1>3. CASE KillRegistered
    BY <1>3 DEF KillRegistered
  <1>4. CASE ReleaseOnExit
    BY <1>4 DEF ReleaseOnExit
  <1>5. CASE ExitNow
    BY <1>5 DEF ExitNow
  <1>6. CASE StoreFails
    BY <1>6 DEF StoreFails, Return
  <1>7. CASE Signal
    BY <1>7 DEF Signal
  <1>8. CASE Recover
    BY <1>8 DEF Recover
  <1>9. CASE RecoverNodes
    BY <1>9 DEF RecoverNodes, CleanNodes
  <1>10. CASE UNCHANGED vars
    BY <1>10 DEF vars
  <1> QED BY <1>1, <1>2, <1>3, <1>4, <1>5, <1>6, <1>7, <1>8, <1>9, <1>10 DEF Listener

-----------------------------------------------------------------------------
(* The theorems. *)

LEMMA FlowInit == Init => FlowInv
  <1> SUFFICES ASSUME Init PROVE FlowInv
    OBVIOUS
  <1> USE DEF Init
  <1>1. TypeOK
    BY FlowBoundsAssumption DEF TypeOK, Stage, Branch, NoBenchmark
  <1>2. Order
    BY DEF Order, Placed, JoinOK, LockOK, Running, Start, Early, Measured
  <1>3. Readiness
    BY DEF Readiness, BeforeOK, DuringOK, PreparedOK, DuringBracket, Child, Collector,
           Start, Early, Measured, Going
  <1>4. Cleanness
    BY DEF Cleanness, CutOK, MarksOK, NodesClean, NoBenchmark, Start, Early, Measured
  <1> QED BY <1>1, <1>2, <1>3, <1>4 DEF FlowInv

\* Next is one of the three kinds of step.
LEMMA FlowStep ==
    ASSUME FlowInv, [Next]_vars
    PROVE  FlowInv'
  <1>1. CASE Stages
    BY <1>1, StagesType, StagesOrder, StagesReady, StagesClean DEF FlowInv
  <1>2. ASSUME NEW c \in Child,
               Skip(c) \/ Spawn(c) \/ Register(c) \/ StopInterrupted(c) \/ StopTimedOut(c)
               \/ StopDuring(c) \/ ChildDone(c) \/ SpawnFails(c) \/ ChildExits(c)
        PROVE  FlowInv'
    BY <1>2, ChildrenType, ChildrenOrder, ChildrenReady, ChildrenClean DEF FlowInv
  <1>3. CASE Listener \/ StoreFails \/ Signal \/ Recover \/ RecoverNodes \/ UNCHANGED vars
    BY <1>3, OthersType, OthersOrder, OthersReady, OthersClean DEF FlowInv
  <1> QED BY <1>1, <1>2, <1>3 DEF Next, Children

LEMMA FlowInvariant == Spec => []FlowInv
  BY FlowInit, FlowStep, PTL DEF Spec

\* Every reachable state of a run is well typed.
THEOREM FlowTypeCorrect == Spec => []TypeOK
  BY FlowInvariant, PTL DEF FlowInv

\* No node operation of a run happens outside its operation lock (release_run_lock
\* in runner::execute comes after the last of them), whatever children it has.
THEOREM LockCovers == Spec => []LockCoversNodes
  <1>1. FlowInv => LockCoversNodes
    <2> SUFFICES ASSUME FlowInv, ~lock, sig \notin Exiting
                 PROVE  Alive = {} /\ pc \in {"save", "discard", "returned"}
      BY DEF LockCoversNodes
    <2>1. pc \in {"save", "discard", "returned"}
      BY DEF FlowInv, Order, LockOK
    <2>2. Alive = {}
      BY <2>1 DEF FlowInv, Order, Placed, Alive, Running, Due, Going, Ended, Measured
    <2> QED BY <2>1, <2>2
  <1> QED BY <1>1, FlowInvariant, PTL

\* The during collectors watch the whole benchmark and none of the after phase.
THEOREM BracketKept == Spec => []DuringBracket
  BY FlowInvariant, PTL DEF FlowInv, Readiness

\* No benchmark runs on nodes that are not prepared, or without the lock.
THEOREM BenchmarkReady == Spec => []MeasuredWhenReady
  <1>1. FlowInv => MeasuredWhenReady
    <2> SUFFICES ASSUME FlowInv, Running("benchmark"), sig \notin Exiting
                 PROVE  /\ conf.prepare => "prepare" \notin failed
                        /\ \A b \in Before : child[b] = IF conf.before THEN "done" ELSE "none"
                        /\ disk = "staging" \/ pc \in Ended
                        /\ lock
      BY DEF MeasuredWhenReady, Running
    <2>1. pc = "benchmark"
      BY PhasesAssumption DEF FlowInv, TypeOK, Order, Placed, LockOK, Running, Alive, Due,
         Going, Ended, Child, Collector, Hooks
    <2> QED BY <2>1 DEF FlowInv, TypeOK, Order, LockOK, Readiness, PreparedOK, BeforeOK, Going, Ended
  <1> QED BY <1>1, FlowInvariant, PTL

\* The signal that interrupted a run leaves its after phase alone.
THEOREM CleanupUncut == Spec => []InterruptedCleansUp
  <1>1. FlowInv => InterruptedCleansUp
    BY DEF FlowInv, Cleanness, CutOK, InterruptedCleansUp
  <1> QED BY <1>1, FlowInvariant, PTL

\* Whenever signals come and whatever fails, a run leaves nothing on the nodes
\* but what a command that failed was to remove.
THEOREM NodesLeftClean == Spec => []NodesClean
  BY FlowInvariant, PTL DEF FlowInv, Cleanness

=============================================================================
