-------------------------- MODULE BenchmarkCommand --------------------------
(***************************************************************************)
(* The benchmark of a run (src/src/benchmark.rs, process.rs): the command  *)
(* with its two pipes, the task behind each pipe that saves and observes   *)
(* the lines, the limits that stop the command, and the result.  A process *)
(* that the command leaves behind may hold the pipes open.  In external    *)
(* mode the user answers prompts instead.                                  *)
(*                                                                         *)
(* RunFlow sees all of this as one child; what the child prints is here.   *)
(* A definition named X_Slip is a slip that the specification does not use. *)
(***************************************************************************)
EXTENDS Naturals, Sequences, SequencesExt, FiniteSets

CONSTANTS
    Said,       \* what the lines say, see Saying
    MaxLines,   \* bound: lines that are written
    Modes,      \* benchmark.mode: command, external
    Limits      \* which of "time", "idle" are configured, a set of sets

Stream == {"out", "err"}

\* A line of the protocol (result records and events), of the markers, one
\* that the score pattern matches; organizer-only ones look like a score.
Saying == {"pass", "fail", "pending", "start", "finish", "score", "secret"}
ResultLine == {"pass", "fail", "pending"}

VARIABLES
    conf,       \* mode, limits, and in whose group the process is that the command leaves
    main,       \* how far execute_command or execute_external is
    child,      \* the command: none, up, or how it ended (ok, bad)
    helper,     \* the process it left behind: none, group (its group), own
    written,    \* all lines of each stream
    pipe,       \* the lines of each stream that were not read yet
    task,       \* capture_lines of each stream
    saved,      \* the log of each stream
    obs,        \* Observation
    cancelled,  \* the shutdown flag
    quiet,      \* no line came for idle_timeout_seconds
    stop,       \* stopped_by
    late,       \* captures that were not finished at their deadline
    result      \* BenchmarkResult

vars == <<conf, main, child, helper, written, pipe, task, saved, obs, cancelled, quiet, stop, late,
          result>>

Line(s, n, what) == [id |-> n, on |-> s, what |-> what]
Secret(line) == line.what = "secret"

\* 0 is None; score, started and finished are numbers of lines, in the order of observation.
NoObservation == [score |-> 0, passed |-> "none", pending |-> FALSE, started |-> 0, finished |-> 0,
                  results |-> 0, dropped |-> 0]
NoResult == [mode |-> "none", score |-> 0, passed |-> "none", pending |-> FALSE, interrupted |-> FALSE]

Init ==
    /\ conf \in [mode : Modes, limits : Limits, leaves : {"group", "own"}]
    /\ conf.mode = "external" => conf.limits = {} /\ conf.leaves = "group"
    /\ main = "start" /\ child = "none" /\ helper = "none"
    /\ written = [s \in Stream |-> <<>>] /\ pipe = written /\ saved = written
    /\ task = [s \in Stream |-> [at |-> "off"]]
    /\ obs = NoObservation
    /\ cancelled = FALSE /\ quiet = FALSE
    /\ stop = "no" /\ late = {} /\ result = NoResult

\* What the tasks and the main loop leave alone.
streams == <<written, pipe, task, saved, obs>>
processes == <<child, helper>>

Prompts == <<"start", "running", "score", "verdict">>
Lines == Len(written["out"]) + Len(written["err"])
Lives == child = "up" \/ helper # "none"

-----------------------------------------------------------------------------
(* The command and what it leaves behind                                   *)

Write(s, what) ==
    /\ Lives /\ main # "done" /\ Lines < MaxLines
    /\ LET line == Line(s, Lines + 1, what) IN
        /\ written' = [written EXCEPT ![s] = Append(@, line)]
        /\ pipe' = [pipe EXCEPT ![s] = Append(@, line)]
    /\ UNCHANGED <<conf, main, processes, task, saved, obs, cancelled, quiet, stop, late, result>>

Exit(how) ==
    /\ main = "wait" /\ child = "up"
    /\ child' = how
    /\ UNCHANGED <<conf, main, helper, streams, cancelled, quiet, stop, late, result>>

HelperEnds ==
    /\ helper # "none" /\ main # "done"
    /\ helper' = "none"
    /\ UNCHANGED <<conf, main, child, streams, cancelled, quiet, stop, late, result>>

\* Nobody looks at it any more behind the wait.
Cancel ==
    /\ ~cancelled /\ main \in {"wait"} \cup ToSet(Prompts)
    /\ cancelled' = TRUE
    /\ UNCHANGED <<conf, main, processes, streams, quiet, stop, late, result>>

\* Time passes without a line.
Silence ==
    /\ ~quiet /\ main = "wait" /\ "idle" \in conf.limits
    /\ quiet' = TRUE
    /\ UNCHANGED <<conf, main, processes, streams, cancelled, stop, late, result>>

-----------------------------------------------------------------------------
(* capture_lines() of a stream                                             *)

Eof(s) == pipe[s] = <<>> /\ ~Lives

SetTask(s, t) == task' = [task EXCEPT ![s] = t]
env == <<conf, main, processes, written, cancelled, stop, late, result>>

\* Slip: the line is written before it is known to be the organizer's.
TakeLine_Slip(s) ==
    /\ task[s].at = "read" /\ pipe[s] # <<>>
    /\ pipe' = [pipe EXCEPT ![s] = Tail(@)]
    /\ quiet' = FALSE
    /\ saved' = [saved EXCEPT ![s] = Append(@, Head(pipe[s]))]
    /\ IF Secret(Head(pipe[s]))
       THEN obs' = [obs EXCEPT !.dropped = @ + 1] /\ UNCHANGED task
       ELSE SetTask(s, [at |-> "observe", line |-> Head(pipe[s])]) /\ UNCHANGED obs
    /\ UNCHANGED env

\* read_until; last_output is set; an organizer-only line is dropped at once.
TakeLine(s) ==
    /\ task[s].at = "read" /\ pipe[s] # <<>>
    /\ pipe' = [pipe EXCEPT ![s] = Tail(@)]
    /\ quiet' = FALSE
    /\ IF Secret(Head(pipe[s]))
       THEN obs' = [obs EXCEPT !.dropped = @ + 1] /\ UNCHANGED task
       ELSE SetTask(s, [at |-> "write", line |-> Head(pipe[s])]) /\ UNCHANGED obs
    /\ UNCHANGED <<env, saved>>

WriteLine(s) ==
    /\ task[s].at = "write"
    /\ saved' = [saved EXCEPT ![s] = Append(@, task[s].line)]
    /\ SetTask(s, [task[s] EXCEPT !.at = "observe"])
    /\ UNCHANGED <<env, pipe, obs, quiet>>

\* The result record, on stdout alone; it has the score with the verdict.
Result(line, o) ==
    IF line.on = "out" /\ line.what \in ResultLine
    THEN [o EXCEPT !.results = @ + 1,
                   !.passed = CASE line.what = "pass" -> "yes" [] line.what = "fail" -> "no"
                                [] OTHER -> @,
                   !.pending = @ \/ line.what = "pending",
                   !.score = IF line.what = "pending" THEN @ ELSE line.id]
    ELSE o

\* Slip: the end is taken without a start.
Boundary_Slip(line, o) ==
    CASE line.what = "start" /\ o.started = 0 -> [o EXCEPT !.started = line.id]
      [] line.what = "finish" /\ o.finished = 0 -> [o EXCEPT !.finished = line.id]
      [] OTHER -> o

\* The end of initialize counts only behind its start; both count once.
Boundary(line, o) ==
    CASE line.what = "start" /\ o.started = 0 -> [o EXCEPT !.started = line.id]
      [] line.what = "finish" /\ o.started # 0 /\ o.finished = 0 -> [o EXCEPT !.finished = line.id]
      [] OTHER -> o

Score(line, o) == IF line.what = "score" THEN [o EXCEPT !.score = line.id] ELSE o

\* observe_line() under the lock of the observation.
Observe(s) ==
    /\ task[s].at = "observe"
    /\ obs' = Result(task[s].line, Score(task[s].line, Boundary(task[s].line, obs)))
    /\ SetTask(s, [at |-> "read"])
    /\ UNCHANGED <<env, pipe, saved, quiet>>

EndOfFile(s) ==
    /\ task[s].at = "read" /\ Eof(s)
    /\ SetTask(s, [at |-> "eof"])
    /\ UNCHANGED <<env, pipe, saved, obs, quiet>>

Capture(s) == TakeLine(s) \/ WriteLine(s) \/ Observe(s) \/ EndOfFile(s)

-----------------------------------------------------------------------------
(* execute_command()                                                       *)

rest == <<conf, streams, cancelled, result>>

\* A bad pattern or a command that cannot be started: no interval is kept.
NotStarted ==
    /\ main = "start" /\ conf.mode = "command"
    /\ result' = [NoResult EXCEPT !.mode = "not-started", !.passed = "no"]
    /\ main' = "done"
    /\ UNCHANGED <<conf, processes, streams, cancelled, quiet, stop, late>>

Spawn ==
    /\ main = "start" /\ conf.mode = "command"
    /\ main' = "wait" /\ child' = "up" /\ helper' = conf.leaves
    /\ task' = [s \in Stream |-> [at |-> "read"]]
    /\ UNCHANGED <<conf, written, pipe, saved, obs, cancelled, quiet, stop, late, result>>

Waited ==
    /\ main = "wait" /\ child # "up"
    /\ main' = "captures" /\ quiet' = FALSE
    /\ UNCHANGED <<rest, processes, stop, late>>

StopBecause(why) ==
    /\ main = "wait"
    /\ stop' = why /\ main' = "terminate" /\ quiet' = FALSE
    /\ UNCHANGED <<rest, processes, late>>

Interrupted == cancelled /\ StopBecause("interrupted")
TimedOut == "time" \in conf.limits /\ StopBecause("timeout")
Idled == "idle" \in conf.limits /\ quiet /\ StopBecause("idle")

\* terminate_group(): TERM, two seconds, KILL to what is left of the group.
Terminated ==
    /\ main = "terminate"
    /\ child' \in IF child = "up" THEN {"ok", "bad"} ELSE {child}
    /\ helper' = IF helper = "group" THEN "none" ELSE helper
    /\ main' = "captures"
    /\ UNCHANGED <<rest, quiet, stop, late>>

Captured ==
    /\ main = "captures" /\ \A s \in Stream : task[s].at = "eof"
    /\ main' = "compress"
    /\ UNCHANGED <<rest, quiet, processes, stop, late>>

\* Slip: the deadline is that of a task that reads, not of one that waits.
DeadlinePasses_Slip ==
    /\ main = "captures" /\ late = {}
    /\ \E s \in Stream : task[s].at # "eof" /\ pipe[s] # <<>>
    /\ late' = {s \in Stream : task[s].at # "eof"}
    /\ main' = "abort"
    /\ UNCHANGED <<rest, quiet, processes, stop>>

\* CAPTURE_DEADLINE: whoever has not finished is given up.
DeadlinePasses ==
    /\ main = "captures" /\ \E s \in Stream : task[s].at # "eof"
    /\ late' = {s \in Stream : task[s].at # "eof"}
    /\ main' = "abort"
    /\ UNCHANGED <<rest, quiet, processes, stop>>

\* abort() and join.  The line in hand is lost, or in the file already but
\* not observed; a write that is under way may come too late for the log.
Abort(s) ==
    /\ main = "abort" /\ s \in late /\ task[s].at \notin {"eof", "off"}
    /\ SetTask(s, [at |-> "off"])
    /\ saved' \in {saved}
        \cup (IF task[s].at = "write" THEN {[saved EXCEPT ![s] = Append(@, task[s].line)]} ELSE {})
        \cup (IF task[s].at = "read" /\ saved[s] # <<>> THEN {[saved EXCEPT ![s] = Front(@)]} ELSE {})
    /\ UNCHANGED <<env, pipe, obs, quiet>>

Aborted ==
    /\ main = "abort" /\ \A s \in late : task[s].at \in {"eof", "off"}
    /\ main' = "compress"
    /\ UNCHANGED <<rest, quiet, processes, stop, late>>

\* Slip: a command that was stopped keeps its verdict.
Verdict_Slip == IF child = "bad" \/ obs.results > 1 THEN "no" ELSE obs.passed

Verdict == IF stop # "no" \/ child = "bad" \/ obs.results > 1 THEN "no" ELSE obs.passed

Conclude ==
    /\ main = "compress"
    /\ LET pending == Verdict = "none" /\ obs.pending IN
        result' = [mode |-> "command", passed |-> Verdict, pending |-> pending,
                   score |-> IF pending THEN 0 ELSE obs.score, interrupted |-> stop = "interrupted"]
    /\ main' = "done"
    /\ UNCHANGED <<conf, processes, streams, cancelled, quiet, stop, late>>

-----------------------------------------------------------------------------
(* execute_external(): before, after, the score, the verdict               *)

Answer(step, nextStep, passed) ==
    /\ conf.mode = "external" /\ main = step
    /\ main' = nextStep
    /\ result' = [result EXCEPT !.mode = "external", !.passed = passed]
    /\ UNCHANGED <<conf, processes, streams, cancelled, quiet, stop, late>>

\* An answer that is none, or the end of the input, fails the run.
Prompted ==
    \/ \E i \in 1..3 : Answer(Prompts[i], Prompts[i + 1], "none")
    \/ \E passed \in {"yes", "no"} : Answer("verdict", "done", passed)
    \/ \E i \in 1..4 : Answer(Prompts[i], "done", "no")

PromptCut ==
    /\ conf.mode = "external" /\ main \in ToSet(Prompts) /\ cancelled
    /\ main' = "done" /\ stop' = "interrupted"
    /\ result' = [NoResult EXCEPT !.mode = "external", !.passed = "no", !.interrupted = TRUE]
    /\ UNCHANGED <<conf, processes, streams, cancelled, quiet, late>>

-----------------------------------------------------------------------------
Main == Waited \/ Terminated \/ Captured \/ DeadlinePasses \/ Aborted \/ Conclude
            \/ \E s \in Stream : Abort(s)

Next ==
    \/ NotStarted \/ Spawn \/ Interrupted \/ TimedOut \/ Idled \/ Main
    \/ Prompted \/ PromptCut
    \/ \E s \in Stream : Capture(s) \/ \E what \in Said : Write(s, what)
    \/ \E how \in {"ok", "bad"} : Exit(how)
    \/ HelperEnds \/ Cancel \/ Silence

Spec == Init /\ [][Next]_vars

\* tokio runs some task or timer whenever one is due; nothing makes the
\* command end by itself, or its helper, or the user answer.
Progress == \/ Main \/ Spawn \/ TimedOut \/ Interrupted \/ PromptCut
            \/ \E s \in Stream : Capture(s)
FairSpec == Spec /\ WF_vars(Progress)

-----------------------------------------------------------------------------
(* Properties                                                              *)

\* Lines are numbered as they are written.
InOrder(seq) == \A i, j \in DOMAIN seq : i < j => seq[i].id < seq[j].id
Open(s) == {line \in ToSet(written[s]) : ~Secret(line)}
Results(seq) == {i \in DOMAIN seq : seq[i].what \in ResultLine}
Done == main = "done" /\ result.mode = "command"
AllRead(s) == Done /\ s \notin late

\* The saved logs have every line but the organizer's, in order, however
\* the command ended: lines that were in a pipe when it was killed, too.
\* Only a capture that was given up may lack the end, and it lacks nothing
\* before (finish_captures).
LogsWhole ==
    \A s \in Stream :
        /\ InOrder(saved[s])
        /\ ToSet(saved[s]) \subseteq Open(s)
        /\ AllRead(s) => ToSet(saved[s]) = Open(s)
        /\ \A line \in ToSet(saved[s]), k \in Open(s) : k.id < line.id => k \in ToSet(saved[s])

\* A run passes only if its command ended well by itself and its saved
\* stdout shows one result record, which says so; otherwise somebody who
\* rereads the log for rescore comes to another verdict (execute_command).
PassIsEarned ==
    (Done /\ result.passed = "yes") =>
        /\ child = "ok" /\ stop = "no"
        /\ AllRead("out") => \E i \in DOMAIN saved["out"] : /\ Results(saved["out"]) = {i}
                                                         /\ saved["out"][i].what = "pass"

\* Nothing the organizers print for themselves gets out of the pipe: not
\* into the logs, nor as the score or a boundary (operator_line_pattern).
OperatorHidden ==
    LET secrets == {line.id : line \in {l \in ToSet(written["out"] \o written["err"]) : Secret(l)}} IN
    /\ \A s \in Stream : \A line \in ToSet(saved[s]) : ~Secret(line)
    /\ {obs.score, obs.started, obs.finished, result.score} \cap secrets = {}

\* The end of initialize is never known without its start, and when one
\* stream has both, in order, then both are known, whatever the other
\* stream says meanwhile (observe_line).
InitializeKnown ==
    /\ obs.finished # 0 => obs.started # 0
    /\ \A s \in Stream : AllRead(s) =>
        \A i, j \in DOMAIN written[s] :
            i < j /\ written[s][i].what = "start" /\ written[s][j].what = "finish"
            => obs.finished # 0

\* The benchmark comes to an end once its command has ended, its time is
\* up or a signal came, also when somebody holds its pipes open (CAPTURE_DEADLINE).
BenchmarkReturns ==
    (child \in {"ok", "bad"} \/ cancelled \/ (child = "up" /\ "time" \in conf.limits)) ~> (main = "done")
=============================================================================
