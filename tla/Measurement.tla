---------------------------- MODULE Measurement ----------------------------
(***************************************************************************)
(* The before phase of a run and then its benchmark (the middle of         *)
(* execute() in src/src/runner.rs): CollectorPhase and BenchmarkCommand    *)
(* composed.  They share the shutdown flag: a signal that cuts the phase   *)
(* short keeps the benchmark from starting, one that comes later           *)
(* interrupts the benchmark.                                               *)
(***************************************************************************)
EXTENDS CollectorPhase

CONSTANTS Said, MaxLines, Modes, Limits     \* as in BenchmarkCommand

VARIABLES
    stage,      \* before, benchmark, or why there is none: interrupted, refused
    conf, main, child, helper, written, pipe, task, saved, obs, quiet, stop, late, result

Bench == INSTANCE BenchmarkCommand

phase == <<plan, st, waiters, permits, watched>>
benchmark == <<conf, main, child, helper, written, pipe, task, saved, obs, quiet, stop, late, result>>
all == <<stage, cancelled, phase, benchmark>>

\* The before phase is given the shutdown.
MeasureInit == stage = "before" /\ Init /\ watched /\ Bench!Init

Prior(action) == stage = "before" /\ action /\ UNCHANGED <<stage, benchmark>>

\* After the phase: nobody asked to stop, and no required collector or node failed.
Begin ==
    /\ stage = "before" /\ AllDone(Execution) /\ ~cancelled
    /\ stage' = "benchmark"
    /\ UNCHANGED <<cancelled, phase, benchmark>>

\* Interrupted, or a required collector failed, no node answered, or the run
\* would repeat the last one: there is no benchmark.
NoBenchmark ==
    /\ stage = "before" /\ AllDone(Execution)
    /\ stage' = IF cancelled THEN "interrupted" ELSE "refused"
    /\ UNCHANGED <<cancelled, phase, benchmark>>

During(action) == stage = "benchmark" /\ action /\ UNCHANGED <<stage, phase>>

MeasureNext == Prior(Next) \/ Begin \/ NoBenchmark \/ During(Bench!Next)

\* One runtime runs both, and goes on with something whenever it can.
MeasureSpec ==
    /\ MeasureInit /\ [][MeasureNext]_all
    /\ WF_all(Prior(Progress)) /\ WF_all(Begin \/ NoBenchmark)
    /\ WF_all(During(Bench!Progress))

-----------------------------------------------------------------------------
(* Properties                                                              *)

\* The saved logs have every line of the benchmark but the organizer's, whose
\* contents are nowhere (benchmark.rs:246, :409).
OutputKept == Bench!LogsWhole /\ Bench!OperatorHidden

\* What the result says of the verdict and of initialize is what the saved
\* logs say (benchmark.rs:292, :445).
ResultFromLogs == Bench!PassIsEarned /\ Bench!InitializeKnown

\* A benchmark that was started comes to an end once its command has ended,
\* its time is up or a signal came, also when somebody holds its pipes open.
BenchmarkReturns ==
    (/\ stage = "benchmark"
     /\ \/ child \in {"ok", "bad"} \/ cancelled
        \/ child = "up" /\ "time" \in conf.limits) ~> (main = "done")
=============================================================================
