----------------------- MODULE BenchmarkCommandProofs -----------------------
(***************************************************************************)
(* Proofs about BenchmarkCommand: whatever the command prints, in whatever *)
(* order the two capture tasks run and however they end, what is the       *)
(* organizer's stays in the pipe.                                          *)
(***************************************************************************)
EXTENDS BenchmarkCommand, TLAPS

OneLine == [id : Nat \ {0}, on : Stream, what : Said]

\* Idle tasks, and those with a line in hand.
Task == [at : {"off", "read", "eof"}] \cup [at : {"write", "observe"}, line : OneLine]

Verdicts == {"none", "yes", "no"}

Typed ==
    /\ written \in [Stream -> Seq(OneLine)]
    /\ pipe \in [Stream -> Seq(OneLine)]
    /\ saved \in [Stream -> Seq(OneLine)]
    /\ task \in [Stream -> Task]
    /\ obs \in [score : Nat, passed : Verdicts, pending : BOOLEAN, started : Nat, finished : Nat,
                results : Nat, dropped : Nat]
    /\ result \in [mode : {"none", "not-started", "command", "external"}, score : Nat,
                   passed : Verdicts, pending : BOOLEAN, interrupted : BOOLEAN]

Ever == UNION {ToSet(written[s]) : s \in Stream}
OpenLines == {line \in Ever : ~Secret(line)}
OpenIds == {0} \cup {line.id : line \in OpenLines}

\* No two lines have the same number.
Numbered ==
    /\ \A line \in Ever : line.id <= Lines
    /\ \A k, line \in Ever : k.id = line.id => k = line

\* What a task holds, saved or observed was written, and is not the organizer's.
Hidden ==
    /\ \A s \in Stream : ToSet(pipe[s]) \subseteq Ever
    /\ \A s \in Stream : ToSet(saved[s]) \subseteq OpenLines
    /\ \A s \in Stream : task[s].at \in {"write", "observe"} => task[s].line \in OpenLines
    /\ {obs.score, obs.started, obs.finished, result.score} \subseteq OpenIds

HiddenInv == Typed /\ Numbered /\ Hidden

-----------------------------------------------------------------------------
(* Sequences                                                               *)

LEMMA AppendFacts ==
    ASSUME NEW S, NEW seq \in Seq(S), NEW e \in S
    PROVE  /\ Append(seq, e) \in Seq(S) /\ Len(Append(seq, e)) = Len(seq) + 1
           /\ ToSet(Append(seq, e)) = ToSet(seq) \cup {e}
<1>1. Append(seq, e) \in Seq(S) /\ Len(Append(seq, e)) = Len(seq) + 1 /\ Len(seq) \in Nat
  OBVIOUS
<1>2. \A i \in 1..Len(seq) : Append(seq, e)[i] = seq[i]
  OBVIOUS
<1>3. Append(seq, e)[Len(seq) + 1] = e
  OBVIOUS
<1>4. DOMAIN Append(seq, e) = 1..(Len(seq) + 1) /\ DOMAIN seq = 1..Len(seq)
  BY <1>1
<1>. QED  BY <1>1, <1>2, <1>3, <1>4 DEF ToSet

LEMMA TailFacts ==
    ASSUME NEW S, NEW seq \in Seq(S), seq # <<>>
    PROVE  /\ Head(seq) \in S /\ Head(seq) \in ToSet(seq)
           /\ Tail(seq) \in Seq(S) /\ ToSet(Tail(seq)) \subseteq ToSet(seq)
<1>1. Len(seq) \in Nat \ {0} /\ DOMAIN seq = 1..Len(seq)
  OBVIOUS
<1>2. Head(seq) = seq[1] /\ seq[1] \in S
  BY <1>1
<1>3. Tail(seq) \in Seq(S) /\ Len(Tail(seq)) = Len(seq) - 1
  BY <1>1
<1>4. \A i \in 1..(Len(seq) - 1) : Tail(seq)[i] = seq[i + 1]
  BY <1>1
<1>5. DOMAIN Tail(seq) = 1..(Len(seq) - 1)
  BY <1>3
<1>. QED  BY <1>1, <1>2, <1>3, <1>4, <1>5 DEF ToSet

LEMMA FrontFacts ==
    ASSUME NEW S, NEW seq \in Seq(S), seq # <<>>
    PROVE  Front(seq) \in Seq(S) /\ ToSet(Front(seq)) \subseteq ToSet(seq)
<1>1. Len(seq) \in Nat \ {0} /\ DOMAIN seq = 1..Len(seq) /\ Len(seq) - 1 \in Nat
  OBVIOUS
<1>2. Front(seq) = [i \in 1..(Len(seq) - 1) |-> seq[i]]
  BY DEF Front
<1>3. Front(seq) \in [1..(Len(seq) - 1) -> S]
  BY <1>1, <1>2
<1>4. Front(seq) \in Seq(S)
  BY <1>1, <1>3
<1>. QED  BY <1>1, <1>2, <1>4 DEF ToSet

LEMMA ConcatFacts ==
    ASSUME NEW S, NEW a \in Seq(S), NEW b \in Seq(S)
    PROVE  ToSet(a \o b) = ToSet(a) \cup ToSet(b)
<1>1. Len(a) \in Nat /\ Len(b) \in Nat /\ DOMAIN a = 1..Len(a) /\ DOMAIN b = 1..Len(b)
      /\ DOMAIN (a \o b) = 1..(Len(a) + Len(b))
  OBVIOUS
<1>2. \A i \in 1..Len(a) : (a \o b)[i] = a[i]
  OBVIOUS
<1>3. \A i \in 1..Len(b) : (a \o b)[Len(a) + i] = b[i]
  OBVIOUS
<1>4. \A i \in 1..(Len(a) + Len(b)) : (a \o b)[i] \in ToSet(a) \cup ToSet(b)
  BY <1>1 DEF ToSet
<1>5. ToSet(a \o b) \subseteq ToSet(a) \cup ToSet(b)
  BY <1>1, <1>4 DEF ToSet
<1>6. ToSet(a) \subseteq ToSet(a \o b)
  BY <1>1, <1>2 DEF ToSet
<1>7. ToSet(b) \subseteq ToSet(a \o b)
  <2>. SUFFICES ASSUME NEW i \in 1..Len(b) PROVE b[i] \in ToSet(a \o b)
    BY <1>1 DEF ToSet
  <2>1. Len(a) + i \in 1..(Len(a) + Len(b))
    BY <1>1
  <2>. QED  BY <1>1, <1>3, <2>1 DEF ToSet
<1>. QED  BY <1>5, <1>6, <1>7

-----------------------------------------------------------------------------
(* Steps                                                                   *)

\* The command writes a new line.
LEMMA WriteKeeps ==
    ASSUME HiddenInv, NEW s \in Stream, NEW what \in Said, Write(s, what)
    PROVE  HiddenInv'
<1>. DEFINE line == Line(s, Lines + 1, what)
<1>1. Lines \in Nat /\ Lines' = Lines + 1
  <2>1. Len(written["out"]) \in Nat /\ Len(written["err"]) \in Nat
    BY DEF HiddenInv, Typed, Stream
  <2>. DEFINE out == Len(written["out"])
              err == Len(written["err"])
  <2>2. Lines = out + err /\ out \in Nat /\ err \in Nat
    BY <2>1 DEF Lines
  <2>. HIDE DEF out, err
  <2>7. Lines \in Nat
    BY <2>2
  <2>3. line \in OneLine
    BY <2>7 DEF Line, OneLine
  <2>. HIDE DEF line
  <2>4. written' = [written EXCEPT ![s] = Append(@, line)]
    BY DEF Write, line
  <2>5. Len(Append(written[s], line)) = Len(written[s]) + 1
    BY <2>3, AppendFacts DEF HiddenInv, Typed
  <2>6. s \in {"out", "err"} /\ DOMAIN written = {"out", "err"}
    BY DEF HiddenInv, Typed, Stream
  <2>8. CASE s = "out"
    <3>1. out' = out + 1 /\ err' = err
      BY <2>4, <2>5, <2>6, <2>8 DEF out, err
    <3>2. Lines' = out' + err'
      BY DEF Lines, out, err
    <3>. QED  BY <2>2, <2>7, <3>1, <3>2
  <2>9. CASE s = "err"
    <3>1. err' = err + 1 /\ out' = out
      BY <2>4, <2>5, <2>6, <2>9 DEF out, err
    <3>2. Lines' = out' + err'
      BY DEF Lines, out, err
    <3>. QED  BY <2>2, <2>7, <3>1, <3>2
  <2>. QED  BY <2>6, <2>7, <2>8, <2>9
<1>2. line \in OneLine /\ line.id = Lines + 1
  BY <1>1 DEF Line, OneLine
<1>. HIDE DEF line
<1>3. /\ written' = [written EXCEPT ![s] = Append(@, line)]
      /\ pipe' = [pipe EXCEPT ![s] = Append(@, line)]
  BY DEF Write, line
<1>4. \A t \in Stream : /\ written'[t] \in Seq(OneLine) /\ pipe'[t] \in Seq(OneLine)
                        /\ t # s => written'[t] = written[t] /\ pipe'[t] = pipe[t]
  BY <1>2, <1>3, AppendFacts DEF HiddenInv, Typed
<1>5. ToSet(written'[s]) = ToSet(written[s]) \cup {line} /\ ToSet(pipe'[s]) = ToSet(pipe[s]) \cup {line}
  BY <1>2, <1>3, AppendFacts DEF HiddenInv, Typed
<1>6. Ever' = Ever \cup {line}
  BY <1>4, <1>5 DEF Ever
<1>7. Typed'
  BY <1>3, <1>4 DEF HiddenInv, Typed, Write
<1>8. Ever \subseteq OneLine
  BY DEF Ever, ToSet, HiddenInv, Typed
<1>9. Numbered'
  <2>1. \A l \in Ever : l.id \in Nat /\ l.id <= Lines
    BY <1>8 DEF HiddenInv, Numbered, OneLine
  <2>2. \A l \in Ever' : l.id <= Lines'
    BY <1>1, <1>2, <1>6, <2>1
  <2>3. \A k, l \in Ever' : k.id = l.id => k = l
    BY <1>1, <1>2, <1>6, <2>1 DEF HiddenInv, Numbered
  <2>. QED  BY <2>2, <2>3 DEF Numbered
<1>10. OpenLines \subseteq OpenLines'
  BY <1>6 DEF OpenLines, Secret
<1>11. OpenIds \subseteq OpenIds'
  BY <1>10 DEF OpenIds
<1>12. UNCHANGED <<saved, task, obs, result>>
  BY DEF Write
<1>13. \A t \in Stream : ToSet(pipe'[t]) \subseteq Ever'
  BY <1>4, <1>5, <1>6 DEF HiddenInv, Hidden
<1>14. Hidden'
  BY <1>10, <1>11, <1>12, <1>13 DEF HiddenInv, Hidden
<1>. QED  BY <1>7, <1>9, <1>14 DEF HiddenInv

\* Behind the pipe: what is written stays, so a step only has to keep to it.
LEMMA ReadKeeps ==
    ASSUME HiddenInv, Typed', written' = written,
           \A s \in Stream : ToSet(pipe'[s]) \subseteq Ever,
           \A s \in Stream : ToSet(saved'[s]) \subseteq OpenLines,
           \A s \in Stream : task'[s].at \in {"write", "observe"} => task'[s].line \in OpenLines,
           {obs'.score, obs'.started, obs'.finished, result'.score} \subseteq OpenIds
    PROVE  HiddenInv'
<1>1. Ever' = Ever /\ OpenLines' = OpenLines /\ OpenIds' = OpenIds /\ Lines' = Lines
  BY DEF Ever, OpenLines, OpenIds, Lines
<1>. QED  BY <1>1 DEF HiddenInv, Numbered, Hidden

LEMMA TakeKeeps ==
    ASSUME HiddenInv, NEW s \in Stream, TakeLine(s)
    PROVE  HiddenInv'
<1>. DEFINE line == Head(pipe[s])
<1>1. /\ line \in OneLine /\ line \in Ever
      /\ Tail(pipe[s]) \in Seq(OneLine) /\ ToSet(Tail(pipe[s])) \subseteq ToSet(pipe[s])
  BY TailFacts DEF HiddenInv, Typed, Hidden, TakeLine
<1>2. pipe' = [pipe EXCEPT ![s] = Tail(@)] /\ UNCHANGED <<written, saved, result>>
  BY DEF TakeLine, env
<1>3. \A t \in Stream : ToSet(pipe'[t]) \subseteq Ever /\ pipe'[t] \in Seq(OneLine)
  BY <1>1, <1>2 DEF HiddenInv, Typed, Hidden
<1>4. CASE Secret(line)
  <2>1. obs' = [obs EXCEPT !.dropped = @ + 1] /\ task' = task
    BY <1>4 DEF TakeLine
  <2>2. obs'.score = obs.score /\ obs'.started = obs.started /\ obs'.finished = obs.finished
    BY <2>1 DEF HiddenInv, Typed
  <2>4. PICK dropped \in Nat : obs' = [obs EXCEPT !.dropped = dropped]
    <3>1. obs.dropped + 1 \in Nat
      BY DEF HiddenInv, Typed
    <3>. QED  BY <2>1, <3>1
  <2>3. Typed'
    BY <1>2, <1>3, <2>1, <2>4 DEF HiddenInv, Typed
  <2>. QED  BY <1>2, <1>3, <2>1, <2>2, <2>3, ReadKeeps DEF HiddenInv, Hidden
<1>5. CASE ~Secret(line)
  <2>. HIDE DEF line
  <2>1. obs' = obs /\ task' = [task EXCEPT ![s] = [at |-> "write", line |-> line]]
    BY <1>5 DEF TakeLine, SetTask, line
  <2>2. line \in OpenLines
    BY <1>1, <1>5 DEF OpenLines
  <2>3. [at |-> "write", line |-> line] \in Task
    BY <1>1 DEF Task
  <2>4. Typed'
    BY <1>2, <1>3, <2>1, <2>3 DEF HiddenInv, Typed
  <2>5. \A t \in Stream : task'[t].at \in {"write", "observe"} => task'[t].line \in OpenLines
    BY <2>1, <2>2 DEF HiddenInv, Typed, Hidden
  <2>. QED  BY <1>2, <1>3, <2>1, <2>4, <2>5, ReadKeeps DEF HiddenInv, Hidden
<1>. QED  BY <1>4, <1>5

\* A task with a line in hand.
LEMMA InHand ==
    ASSUME HiddenInv, NEW s \in Stream, task[s].at \in {"write", "observe"}
    PROVE  /\ task[s] \in [at : {"write", "observe"}, line : OneLine]
           /\ task[s].line \in OneLine /\ task[s].line \in OpenLines
<1>1. task[s] \in Task
  BY DEF HiddenInv, Typed
<1>2. task[s] \notin [at : {"off", "read", "eof"}]
  OBVIOUS
<1>. QED  BY <1>1, <1>2 DEF Task, HiddenInv, Hidden

LEMMA WriteLineKeeps ==
    ASSUME HiddenInv, NEW s \in Stream, WriteLine(s)
    PROVE  HiddenInv'
<1>1. /\ task[s] \in [at : {"write", "observe"}, line : OneLine]
      /\ task[s].line \in OneLine /\ task[s].line \in OpenLines
  BY InHand DEF WriteLine
<1>2. /\ saved' = [saved EXCEPT ![s] = Append(@, task[s].line)]
      /\ task' = [task EXCEPT ![s] = [task[s] EXCEPT !.at = "observe"]]
      /\ UNCHANGED <<written, pipe, obs, result>>
  BY DEF WriteLine, SetTask, env
<1>3. [task[s] EXCEPT !.at = "observe"] \in Task /\ [task[s] EXCEPT !.at = "observe"].line = task[s].line
  BY <1>1 DEF Task
<1>4. \A t \in Stream : saved'[t] \in Seq(OneLine) /\ ToSet(saved'[t]) \subseteq OpenLines
  BY <1>1, <1>2, AppendFacts DEF HiddenInv, Typed, Hidden
<1>5. Typed'
  BY <1>2, <1>3, <1>4 DEF HiddenInv, Typed
<1>6. \A t \in Stream : task'[t].at \in {"write", "observe"} => task'[t].line \in OpenLines
  BY <1>1, <1>2, <1>3 DEF HiddenInv, Typed, Hidden
<1>. QED  BY <1>2, <1>4, <1>5, <1>6, ReadKeeps DEF HiddenInv, Hidden

\* Observing a line takes its number, or nothing.
LEMMA ObserveKeeps ==
    ASSUME HiddenInv, NEW s \in Stream, Observe(s)
    PROVE  HiddenInv'
<1>. DEFINE line == task[s].line
            Obs == [score : Nat, passed : Verdicts, pending : BOOLEAN, started : Nat,
                    finished : Nat, results : Nat, dropped : Nat]
            Clean(o) == o \in Obs /\ {o.score, o.started, o.finished} \subseteq OpenIds
<1>1. line \in OneLine /\ line \in OpenLines
  BY InHand DEF Observe
<1>2. line.id \in Nat /\ line.id \in OpenIds
  BY <1>1 DEF OneLine, OpenIds
<1>. HIDE DEF line
<1>3. Clean(obs)
  BY DEF HiddenInv, Typed, Hidden
<1>4. ASSUME NEW o, Clean(o) PROVE Clean(Boundary(line, o))
  <2>1. Boundary(line, o) \in {o, [o EXCEPT !.started = line.id], [o EXCEPT !.finished = line.id]}
    BY DEF Boundary
  <2>. QED  BY <1>2, <1>4, <2>1
<1>5. ASSUME NEW o, Clean(o) PROVE Clean(Score(line, o))
  BY <1>2, <1>5 DEF Score
<1>6. ASSUME NEW o, Clean(o) PROVE Clean(Result(line, o))
  <2>1. CASE line.on = "out" /\ line.what \in ResultLine
    <3>1. PICK results, passed, pending, score :
              Result(line, o) = [o EXCEPT !.results = results, !.passed = passed,
                                          !.pending = pending, !.score = score]
              /\ results \in Nat /\ passed \in Verdicts /\ pending \in BOOLEAN
              /\ score \in {o.score, line.id}
      <4>1. (CASE line.what = "pass" -> "yes" [] line.what = "fail" -> "no" [] OTHER -> o.passed)
              \in Verdicts
        BY <1>6 DEF Verdicts
      <4>2. (o.pending \/ line.what = "pending") \in BOOLEAN
        OBVIOUS
      <4>3. (IF line.what = "pending" THEN o.score ELSE line.id) \in {o.score, line.id}
        OBVIOUS
      <4>4. o.results + 1 \in Nat
        BY <1>6
      <4>. QED  BY <2>1, <4>1, <4>2, <4>3, <4>4 DEF Result
    <3>. QED  BY <1>2, <1>6, <3>1
  <2>2. CASE ~(line.on = "out" /\ line.what \in ResultLine)
    BY <1>6, <2>2 DEF Result
  <2>. QED  BY <2>1, <2>2
<1>7. /\ obs' = Result(line, Score(line, Boundary(line, obs)))
      /\ task' = [task EXCEPT ![s] = [at |-> "read"]]
      /\ UNCHANGED <<written, pipe, saved, result>>
  BY DEF Observe, SetTask, env, line
<1>8. Clean(obs')
  BY <1>3, <1>4, <1>5, <1>6, <1>7
<1>9. [at |-> "read"] \in Task
  BY DEF Task
<1>10. Typed'
  BY <1>7, <1>8, <1>9 DEF HiddenInv, Typed
<1>11. \A t \in Stream : task'[t].at \in {"write", "observe"} => task'[t].line \in OpenLines
  BY <1>7 DEF HiddenInv, Typed, Hidden
<1>. QED  BY <1>7, <1>8, <1>10, <1>11, ReadKeeps DEF HiddenInv, Hidden

LEMMA AbortKeeps ==
    ASSUME HiddenInv, NEW s \in Stream, Abort(s)
    PROVE  HiddenInv'
<1>1. task' = [task EXCEPT ![s] = [at |-> "off"]] /\ UNCHANGED <<written, pipe, obs, result>>
  BY DEF Abort, SetTask, env
<1>2. \A t \in Stream : saved'[t] \in Seq(OneLine) /\ ToSet(saved'[t]) \subseteq OpenLines
  <2>1. CASE saved' = saved
    BY <2>1 DEF HiddenInv, Typed, Hidden
  <2>2. CASE task[s].at = "write" /\ saved' = [saved EXCEPT ![s] = Append(@, task[s].line)]
    BY <2>2, InHand, AppendFacts DEF HiddenInv, Typed, Hidden
  <2>3. CASE saved[s] # <<>> /\ saved' = [saved EXCEPT ![s] = Front(@)]
    BY <2>3, FrontFacts DEF HiddenInv, Typed, Hidden
  <2>. QED  BY <2>1, <2>2, <2>3 DEF Abort
<1>3. saved' \in [Stream -> Seq(OneLine)]
  <2>1. saved' = saved \/ \E e : saved' = [saved EXCEPT ![s] = e]
    BY DEF Abort
  <2>. QED  BY <1>2, <2>1 DEF HiddenInv, Typed
<1>4. [at |-> "off"] \in Task
  BY DEF Task
<1>5. Typed'
  BY <1>1, <1>3, <1>4 DEF HiddenInv, Typed
<1>6. \A t \in Stream : task'[t].at \in {"write", "observe"} => task'[t].line \in OpenLines
  BY <1>1 DEF HiddenInv, Typed, Hidden
<1>. QED  BY <1>1, <1>2, <1>5, <1>6, ReadKeeps DEF HiddenInv, Hidden

LEMMA EndKeeps ==
    ASSUME HiddenInv, NEW s \in Stream, EndOfFile(s)
    PROVE  HiddenInv'
<1>1. task' = [task EXCEPT ![s] = [at |-> "eof"]] /\ UNCHANGED <<written, pipe, saved, obs, result>>
  BY DEF EndOfFile, SetTask, env
<1>2. [at |-> "eof"] \in Task
  BY DEF Task
<1>3. Typed'
  BY <1>1, <1>2 DEF HiddenInv, Typed
<1>4. \A t \in Stream : task'[t].at \in {"write", "observe"} => task'[t].line \in OpenLines
  BY <1>1 DEF HiddenInv, Typed, Hidden
<1>. QED  BY <1>1, <1>3, <1>4, ReadKeeps DEF HiddenInv, Hidden

\* The result takes the observed score, or none.
LEMMA ResultKeeps ==
    ASSUME HiddenInv, UNCHANGED streams,
           result' \in [mode : {"none", "not-started", "command", "external"}, score : Nat,
                        passed : Verdicts, pending : BOOLEAN, interrupted : BOOLEAN],
           result'.score \in {0, obs.score, result.score}
    PROVE  HiddenInv'
<1>1. UNCHANGED <<written, pipe, task, saved, obs>>
  BY DEF streams
<1>2. Typed'
  BY <1>1 DEF HiddenInv, Typed
<1>3. result'.score \in OpenIds
  BY DEF HiddenInv, Hidden, OpenIds
<1>. QED  BY <1>1, <1>2, <1>3, ReadKeeps DEF HiddenInv, Hidden

LEMMA RestKeeps == ASSUME HiddenInv, UNCHANGED <<streams, result>> PROVE HiddenInv'
BY ResultKeeps DEF HiddenInv, Typed

LEMMA ConcludeKeeps == ASSUME HiddenInv, Conclude PROVE HiddenInv'
<1>1. Verdict \in Verdicts /\ obs.pending \in BOOLEAN /\ obs.score \in Nat
  BY DEF HiddenInv, Typed, Verdict, Verdicts
<1>2. PICK pending, interrupted \in BOOLEAN, score \in {0, obs.score} :
          result' = [mode |-> "command", passed |-> Verdict, pending |-> pending,
                     score |-> score, interrupted |-> interrupted]
  <2>1. (Verdict = "none" /\ obs.pending) \in BOOLEAN /\ (stop = "interrupted") \in BOOLEAN
    OBVIOUS
  <2>2. (IF Verdict = "none" /\ obs.pending THEN 0 ELSE obs.score) \in {0, obs.score}
    OBVIOUS
  <2>. QED  BY <2>1, <2>2 DEF Conclude
<1>3. UNCHANGED streams
  BY DEF Conclude
<1>. QED  BY <1>1, <1>2, <1>3, ResultKeeps

\* A step of the capture task of a stream.
LEMMA CaptureKeeps ==
    ASSUME HiddenInv, NEW s \in Stream, Capture(s)
    PROVE  HiddenInv'
BY TakeKeeps, WriteLineKeeps, ObserveKeeps, EndKeeps DEF Capture

LEMMA SpawnKeeps == ASSUME HiddenInv, Spawn PROVE HiddenInv'
<1>1. task' = [s \in Stream |-> [at |-> "read"]] /\ UNCHANGED <<written, pipe, saved, obs, result>>
  BY DEF Spawn
<1>2. [at |-> "read"] \in Task
  BY DEF Task
<1>3. Typed'
  BY <1>1, <1>2 DEF HiddenInv, Typed
<1>. QED  BY <1>1, <1>3, ReadKeeps DEF HiddenInv, Hidden

\* The prompts of the external mode give a result without a line.
LEMMA PromptKeeps == ASSUME HiddenInv, Prompted \/ PromptCut \/ NotStarted PROVE HiddenInv'
<1>1. ASSUME NEW step, NEW nextStep, NEW passed \in Verdicts, Answer(step, nextStep, passed)
      PROVE  HiddenInv'
  <2>1. result' = [result EXCEPT !.mode = "external", !.passed = passed] /\ UNCHANGED streams
    BY <1>1 DEF Answer
  <2>. QED  BY <2>1, ResultKeeps DEF HiddenInv, Typed
<1>2. CASE Prompted
  <2>1. \E step, nextStep : \E passed \in Verdicts : Answer(step, nextStep, passed)
    BY <1>2 DEF Prompted, Verdicts
  <2>. QED  BY <1>1, <2>1
<1>3. CASE PromptCut
  <2>1. result' = [mode |-> "external", score |-> 0, passed |-> "no", pending |-> FALSE,
                   interrupted |-> TRUE] /\ UNCHANGED streams
    BY <1>3 DEF PromptCut, NoResult
  <2>. QED  BY <2>1, ResultKeeps DEF Verdicts
<1>4. CASE NotStarted
  <2>1. result' = [mode |-> "not-started", score |-> 0, passed |-> "no", pending |-> FALSE,
                   interrupted |-> FALSE] /\ UNCHANGED streams
    BY <1>4 DEF NotStarted, NoResult
  <2>. QED  BY <2>1, ResultKeeps DEF Verdicts
<1>. QED  BY <1>2, <1>3, <1>4

\* Every step keeps what is the organizer's hidden.
LEMMA StepKeeps == ASSUME HiddenInv, [Next]_vars PROVE HiddenInv'
<1>1. CASE NotStarted \/ Prompted \/ PromptCut
  BY <1>1, PromptKeeps
<1>2. CASE Spawn
  BY <1>2, SpawnKeeps
<1>3. CASE Interrupted \/ TimedOut \/ Idled
  BY <1>3, RestKeeps DEF Interrupted, TimedOut, Idled, StopBecause, rest
<1>4. CASE Main
  <2>1. CASE Waited \/ Terminated \/ Captured \/ DeadlinePasses \/ Aborted
    BY <2>1, RestKeeps DEF Waited, Terminated, Captured, DeadlinePasses, Aborted, rest
  <2>2. CASE Conclude
    BY <2>2, ConcludeKeeps
  <2>3. CASE \E s \in Stream : Abort(s)
    BY <2>3, AbortKeeps
  <2>. QED  BY <1>4, <2>1, <2>2, <2>3 DEF Main
<1>5. CASE \E s \in Stream : Capture(s)
  BY <1>5, CaptureKeeps
<1>6. CASE \E s \in Stream : \E what \in Said : Write(s, what)
  BY <1>6, WriteKeeps
<1>7. CASE (\E how \in {"ok", "bad"} : Exit(how)) \/ HelperEnds \/ Cancel \/ Silence
  BY <1>7, RestKeeps DEF Exit, HelperEnds, Cancel, Silence
<1>8. CASE UNCHANGED vars
  BY <1>8, RestKeeps DEF vars, streams
<1>. QED  BY <1>1, <1>2, <1>3, <1>4, <1>5, <1>6, <1>7, <1>8 DEF Next

LEMMA StartsHidden == ASSUME Init PROVE HiddenInv
<1>1. <<>> \in Seq(OneLine) /\ ToSet(<<>>) = {} /\ [at |-> "off"] \in Task
  BY DEF ToSet, Task
<1>2. Typed
  BY <1>1 DEF Init, Typed, NoObservation, NoResult, Verdicts
<1>3. Ever = {}
  BY <1>1 DEF Init, Ever
<1>4. Numbered
  BY <1>3 DEF Numbered
<1>5. Hidden
  BY <1>1, <1>3 DEF Init, Hidden, OpenIds, NoObservation, NoResult
<1>. QED  BY <1>2, <1>4, <1>5 DEF HiddenInv

-----------------------------------------------------------------------------
(* Theorems                                                                *)

\* Numbers tell lines apart, so a number that was observed is not one of the
\* organizer's lines.
LEMMA HiddenSuffices == ASSUME HiddenInv PROVE OperatorHidden
<1>1. ToSet(written["out"] \o written["err"]) = Ever
  BY ConcatFacts DEF HiddenInv, Typed, Ever, Stream
<1>2. \A line \in Ever : line.id # 0
  <2>1. Ever \subseteq OneLine
    BY DEF Ever, ToSet, HiddenInv, Typed
  <2>. QED  BY <2>1 DEF OneLine
<1>3. ASSUME NEW line \in Ever, Secret(line) PROVE line.id \notin OpenIds
  BY <1>2, <1>3 DEF OpenIds, OpenLines, HiddenInv, Numbered
<1>4. \A s \in Stream : \A line \in ToSet(saved[s]) : ~Secret(line)
  BY DEF HiddenInv, Hidden, OpenLines
<1>. QED  BY <1>1, <1>3, <1>4 DEF OperatorHidden, HiddenInv, Hidden

\* Whatever the command prints and however the two captures interleave, end or
\* are given up: no line that operator_line_pattern matches is in a log, and
\* none is the score or a boundary of initialize (benchmark.rs:409, :445).
THEOREM OperatorLinesHidden == Spec => []OperatorHidden
<1>1. Init => HiddenInv
  BY StartsHidden
<1>2. HiddenInv /\ [Next]_vars => HiddenInv'
  BY StepKeeps
<1>3. HiddenInv => OperatorHidden
  BY HiddenSuffices
<1>. QED  BY <1>1, <1>2, <1>3, PTL DEF Spec
-----------------------------------------------------------------------------
(* What the logs have, and what the observation knows of them              *)

\* Nothing runs yet, or nothing ever ran.
Idle ==
    /\ child = "none" /\ helper = "none"
    /\ obs = NoObservation
    /\ \A s \in Stream : task[s].at = "off" /\ written[s] = <<>> /\ pipe[s] = <<>> /\ saved[s] = <<>>

Early == {"start", "running", "score", "verdict"}
Going == {"wait", "terminate", "captures"}
Behind == main = "compress" \/ Done

\* How far the tasks are when the main task is there.
Course ==
    /\ main \in Early \cup Going \cup {"abort", "compress", "done"}
    /\ main \in Early \/ (main = "done" /\ ~Done) => Idle
    /\ main \in Going => child \in {"up", "ok", "bad"} /\ \A s \in Stream : task[s].at # "off"
    /\ main \in {"captures", "abort"} \/ Behind => child \in {"ok", "bad"}
    /\ main = "abort" => \A s \in Stream : task[s].at = "eof" \/ s \in late
    /\ Behind => \A s \in Stream : task[s].at = "eof" \/ (s \in late /\ task[s].at = "off")
    /\ \A s \in Stream : task[s].at = "eof" => pipe[s] = <<>> /\ ~Lives

Held(s) == IF task[s].at \in {"write", "observe"} THEN {task[s].line} ELSE {}
Waiting(s) == {line \in ToSet(pipe[s]) : ~Secret(line)}

\* A log is a beginning of what its stream said in the open.
LogOK(s) ==
    /\ \A line \in ToSet(written[s]) : line.on = s
    /\ InOrder(written[s]) /\ InOrder(saved[s])
    /\ ToSet(saved[s]) \subseteq Open(s)
    /\ \A line \in ToSet(saved[s]), k \in Open(s) : k.id < line.id => k \in ToSet(saved[s])

\* A line on its way is in the log, in hand or in the pipe, in this order.
WayOK(s) ==
    /\ Open(s) = ToSet(saved[s]) \cup Held(s) \cup Waiting(s)
    /\ ToSet(pipe[s]) \subseteq ToSet(written[s])
    /\ InOrder(pipe[s])
    /\ \A k \in ToSet(saved[s]) \cup Held(s), line \in ToSet(pipe[s]) : k.id < line.id
    /\ task[s].at = "write" => \A k \in ToSet(saved[s]) : k.id < task[s].line.id
    /\ task[s].at = "observe" => /\ task[s].line \in ToSet(saved[s])
                                 /\ \A k \in ToSet(saved[s]) : k.id <= task[s].line.id

\* The lines of the log that were observed.
Seen(s) == ToSet(saved[s]) \ (IF task[s].at = "observe" THEN {task[s].line} ELSE {})

\* The boundaries of initialize that were seen are known.
BoundsOK(s) ==
    /\ \A k \in Seen(s) : k.what = "start" => obs.started # 0
    /\ \A k, line \in Seen(s) :
          k.what = "start" /\ line.what = "finish" /\ k.id < line.id => obs.finished # 0

\* Of stdout: none, one or several results were seen.
ResultsOK ==
    /\ obs.results = 0 => \A k \in Seen("out") : k.what \notin ResultLine
    /\ obs.results = 1 => \E k \in Seen("out") :
          /\ k.what \in ResultLine /\ (obs.passed = "yes" => k.what = "pass")
          /\ \A line \in Seen("out") : line.what \in ResultLine => line = k

Known ==
    /\ obs.finished # 0 => obs.started # 0
    /\ obs.passed = "yes" => obs.results # 0
    /\ \A s \in Stream : task[s].at # "off" => WayOK(s) /\ BoundsOK(s)
    /\ task["out"].at # "off" => ResultsOK

Earned ==
    Done /\ result.passed = "yes" =>
        child = "ok" /\ stop = "no" /\ obs.results = 1 /\ obs.passed = "yes"

WholeInv ==
    /\ HiddenInv /\ Course
    /\ \A s \in Stream : LogOK(s)
    /\ Known /\ Earned
-----------------------------------------------------------------------------
(* Lines in order                                                          *)

LEMMA AppendInOrder ==
    ASSUME NEW seq \in Seq(OneLine), InOrder(seq), NEW e \in OneLine,
           \A k \in ToSet(seq) : k.id < e.id
    PROVE  InOrder(Append(seq, e))
<1>1. Len(seq) \in Nat /\ DOMAIN seq = 1..Len(seq) /\ DOMAIN Append(seq, e) = 1..(Len(seq) + 1)
  OBVIOUS
<1>2. \A i \in 1..Len(seq) : Append(seq, e)[i] = seq[i]
  OBVIOUS
<1>3. Append(seq, e)[Len(seq) + 1] = e
  OBVIOUS
<1>4. \A i \in 1..Len(seq) : seq[i].id < e.id
  BY <1>1 DEF ToSet
<1>. QED  BY <1>1, <1>2, <1>3, <1>4 DEF InOrder

LEMMA TailInOrder ==
    ASSUME NEW seq \in Seq(OneLine), InOrder(seq), seq # <<>>
    PROVE  /\ InOrder(Tail(seq))
           /\ ToSet(seq) = {Head(seq)} \cup ToSet(Tail(seq))
           /\ \A k \in ToSet(Tail(seq)) : Head(seq).id < k.id
<1>1. Len(seq) \in Nat \ {0} /\ DOMAIN seq = 1..Len(seq) /\ Head(seq) = seq[1]
  OBVIOUS
<1>2. DOMAIN Tail(seq) = 1..(Len(seq) - 1) /\ \A i \in 1..(Len(seq) - 1) : Tail(seq)[i] = seq[i + 1]
  BY <1>1
<1>3. InOrder(Tail(seq))
  BY <1>1, <1>2 DEF InOrder
<1>4. \A k \in ToSet(Tail(seq)) : Head(seq).id < k.id
  BY <1>1, <1>2 DEF InOrder, ToSet
<1>5. ASSUME NEW i \in 1..Len(seq), i # 1 PROVE seq[i] \in ToSet(Tail(seq))
  <2>1. i - 1 \in 1..(Len(seq) - 1) /\ Tail(seq)[i - 1] = seq[i]
    BY <1>1, <1>2, <1>5
  <2>. QED  BY <1>2, <2>1 DEF ToSet
<1>6. ToSet(seq) \subseteq {Head(seq)} \cup ToSet(Tail(seq))
  BY <1>1, <1>5 DEF ToSet
<1>. QED  BY <1>3, <1>4, <1>6, TailFacts

LEMMA FrontInOrder ==
    ASSUME NEW seq \in Seq(OneLine), InOrder(seq), seq # <<>>
    PROVE  /\ InOrder(Front(seq))
           /\ \A k \in ToSet(Front(seq)), line \in ToSet(seq) :
                 line.id < k.id => line \in ToSet(Front(seq))
<1>1. Len(seq) \in Nat \ {0} /\ DOMAIN seq = 1..Len(seq) /\ Len(seq) - 1 \in Nat
  OBVIOUS
<1>2. Front(seq) = [i \in 1..(Len(seq) - 1) |-> seq[i]]
  BY DEF Front
<1>3. InOrder(Front(seq))
  BY <1>1, <1>2 DEF InOrder
<1>4. ASSUME NEW i \in 1..(Len(seq) - 1), NEW j \in 1..Len(seq), seq[j].id < seq[i].id
      PROVE  seq[j] \in ToSet(Front(seq))
  <2>1. seq[i].id \in Nat /\ seq[j].id \in Nat
    <3>1. seq[i] \in OneLine /\ seq[j] \in OneLine
      BY <1>1
    <3>. QED  BY <3>1 DEF OneLine
  <2>2. j # i /\ ~(i < j)
    BY <1>1, <1>4, <2>1 DEF InOrder
  <2>3. j \in 1..(Len(seq) - 1)
    BY <1>1, <2>2
  <2>. QED  BY <1>2, <2>3 DEF ToSet
<1>. QED  BY <1>1, <1>2, <1>3, <1>4 DEF ToSet

-----------------------------------------------------------------------------
(* Steps that leave the streams alone                                      *)

LEMMA AsideKeeps ==
    ASSUME WholeInv, UNCHANGED streams, HiddenInv', Course', Earned'
    PROVE  WholeInv'
<1>1. UNCHANGED <<written, pipe, task, saved, obs>>
  BY DEF streams
<1>2. ASSUME NEW s \in Stream PROVE /\ LogOK(s)' /\ (WayOK(s)' <=> WayOK(s)) /\ Seen(s)' = Seen(s)
  BY <1>1, <1>2 DEF WholeInv, LogOK, WayOK, Open, Held, Waiting, Seen
<1>3. Known'
  BY <1>1, <1>2 DEF WholeInv, Known, BoundsOK, ResultsOK, Stream
<1>. QED  BY <1>2, <1>3 DEF WholeInv

\* What the invariant speaks of.
whole == <<main, processes, streams, stop, late, result>>

LEMMA FrameKeeps == ASSUME WholeInv, UNCHANGED whole PROVE WholeInv'
<1>1. UNCHANGED <<main, child, helper, written, pipe, task, saved, obs, stop, late, result>>
  BY DEF whole, processes, streams
<1>2. HiddenInv'
  BY <1>1, RestKeeps DEF WholeInv, streams
<1>3. Course' /\ Earned'
  BY <1>1 DEF WholeInv, Course, Earned, Idle, Behind, Done, Lives
<1>. QED  BY <1>1, <1>2, <1>3, AsideKeeps DEF streams

\* An unknown result is no command's; nothing is idle behind the start.
LEMMA StopKeeps ==
    ASSUME WholeInv, UNCHANGED <<streams, result>>, HiddenInv',
           main' \in {"terminate", "captures", "abort", "compress"},
           child' \in {"up", "ok", "bad"}, main' # "terminate" => child' \in {"ok", "bad"},
           main' \in Going => \A s \in Stream : task[s].at # "off",
           main' = "abort" => \A s \in Stream : task[s].at = "eof" \/ s \in late',
           main' = "compress" => \A s \in Stream : task[s].at = "eof" \/ (s \in late' /\ task[s].at = "off"),
           Lives' => Lives
    PROVE  WholeInv'
<1>1. UNCHANGED <<written, pipe, task, saved, obs>>
  BY DEF streams
<1>2. ~Done' /\ (main' = "compress" <=> Behind')
  BY DEF Done, Behind
<1>3. Course'
  BY <1>1, <1>2 DEF WholeInv, Course, Early, Going
<1>4. Earned'
  BY <1>2 DEF Earned
<1>. QED  BY <1>3, <1>4, AsideKeeps

LEMMA MainKeeps ==
    ASSUME WholeInv, HiddenInv',
           Interrupted \/ TimedOut \/ Idled \/ Waited \/ Terminated \/ Captured \/ DeadlinePasses \/ Aborted
    PROVE  WholeInv'
<1>1. UNCHANGED <<streams, result>>
  BY DEF Interrupted, TimedOut, Idled, StopBecause, Waited, Terminated, Captured, DeadlinePasses,
         Aborted, rest
<1>2. CASE Interrupted \/ TimedOut \/ Idled
  BY <1>1, <1>2, StopKeeps
     DEF Interrupted, TimedOut, Idled, StopBecause, processes, Lives, WholeInv, Course, Going
<1>3. CASE Waited
  BY <1>1, <1>3, StopKeeps DEF Waited, processes, Lives, WholeInv, Course, Going
<1>4. CASE Terminated
  BY <1>1, <1>4, StopKeeps DEF Terminated, Lives, WholeInv, Course, Going
<1>5. CASE Captured
  BY <1>1, <1>5, StopKeeps DEF Captured, processes, Lives, WholeInv, Course, Going
<1>6. CASE DeadlinePasses
  BY <1>1, <1>6, StopKeeps DEF DeadlinePasses, processes, Lives, WholeInv, Course, Going
<1>7. CASE Aborted
  BY <1>1, <1>7, StopKeeps DEF Aborted, processes, Lives, WholeInv, Course, Going
<1>. QED  BY <1>2, <1>3, <1>4, <1>5, <1>6, <1>7

LEMMA ExitKeeps == ASSUME WholeInv, HiddenInv', NEW how \in {"ok", "bad"}, Exit(how) PROVE WholeInv'
<1>1. UNCHANGED <<main, written, pipe, task, saved, obs, stop, late, result>>
  BY DEF Exit, streams
<1>2. main = "wait" /\ child' \in {"ok", "bad"} /\ helper' = helper /\ (Lives' => Lives)
  BY DEF Exit, Lives
<1>3. ~Done /\ ~Done' /\ ~Behind /\ ~Behind'
  BY <1>1, <1>2 DEF Done, Behind
<1>4. Course'
  BY <1>1, <1>2, <1>3 DEF WholeInv, Course, Early, Going
<1>5. Earned'
  BY <1>3 DEF Earned
<1>. QED  BY <1>1, <1>4, <1>5, AsideKeeps DEF streams

LEMMA HelperKeeps == ASSUME WholeInv, HiddenInv', HelperEnds PROVE WholeInv'
<1>1. UNCHANGED <<main, child, written, pipe, task, saved, obs, stop, late, result>>
  BY DEF HelperEnds, streams
<1>2. helper # "none" /\ main # "done" /\ (Lives' => Lives)
  BY DEF HelperEnds, Lives
<1>3. ~Idle /\ ~Done /\ ~Done' /\ (Behind' <=> Behind)
  BY <1>1, <1>2 DEF Idle, Done, Behind
<1>4. Course'
  BY <1>1, <1>2, <1>3 DEF WholeInv, Course
<1>5. Earned'
  BY <1>3 DEF Earned
<1>. QED  BY <1>1, <1>4, <1>5, AsideKeeps DEF streams

\* A result without a command: refused, or the prompts.
LEMMA EarlyKeeps ==
    ASSUME WholeInv, HiddenInv', main \in Early, UNCHANGED <<processes, streams>>,
           main' \in Early \cup {"done"}, main' = "done" => result'.mode # "command"
    PROVE  WholeInv'
<1>1. UNCHANGED <<child, helper, written, pipe, task, saved, obs>>
  BY DEF processes, streams
<1>2. ~Done' /\ ~Behind'
  BY DEF Done, Behind, Early
<1>3. Idle'
  BY <1>1 DEF WholeInv, Course, Idle
<1>4. Course'
  BY <1>2, <1>3 DEF Course, Idle, Early, Going
<1>5. Earned'
  BY <1>2 DEF Earned
<1>. QED  BY <1>4, <1>5, AsideKeeps

LEMMA AnswersKeep ==
    ASSUME WholeInv, HiddenInv', Prompted \/ PromptCut \/ NotStarted
    PROVE  WholeInv'
<1>1. ASSUME NEW step \in Early, NEW nextStep \in Early \cup {"done"}, NEW passed,
             Answer(step, nextStep, passed)
      PROVE  WholeInv'
  <2>1. result'.mode = "external" /\ UNCHANGED <<processes, streams>> /\ main = step /\ main' = nextStep
    BY <1>1 DEF Answer, WholeInv, HiddenInv, Typed
  <2>. QED  BY <2>1, EarlyKeeps
<1>2. CASE Prompted
  <2>1. \A i \in 1..4 : Prompts[i] \in Early
    BY DEF Prompts, Early
  <2>2. \E step \in Early, nextStep \in Early \cup {"done"} : \E passed : Answer(step, nextStep, passed)
    <3>1. CASE \E i \in 1..3 : Answer(Prompts[i], Prompts[i + 1], "none")
      BY <2>1, <3>1
    <3>2. CASE \E passed \in {"yes", "no"} : Answer("verdict", "done", passed)
      BY <3>2 DEF Early
    <3>3. CASE \E i \in 1..4 : Answer(Prompts[i], "done", "no")
      BY <2>1, <3>3
    <3>. QED  BY <1>2, <3>1, <3>2, <3>3 DEF Prompted
  <2>. QED  BY <1>1, <2>2
<1>3. CASE PromptCut
  <2>1. ToSet(Prompts) = Early
    BY DEF ToSet, Prompts, Early
  <2>2. result'.mode = "external"
    BY <1>3 DEF PromptCut, NoResult
  <2>. QED  BY <1>3, <2>1, <2>2, EarlyKeeps DEF PromptCut
<1>4. CASE NotStarted
  <2>1. result'.mode = "not-started"
    BY <1>4 DEF NotStarted, NoResult
  <2>. QED  BY <1>4, <2>1, EarlyKeeps DEF NotStarted, Early
<1>. QED  BY <1>2, <1>3, <1>4

\* The verdict that a command earns: Known says that a pass was counted.
LEMMA ConcludeEarns == ASSUME WholeInv, HiddenInv', Conclude PROVE WholeInv'
<1>1. /\ main = "compress" /\ main' = "done" /\ result'.mode = "command" /\ result'.passed = Verdict
      /\ UNCHANGED <<child, helper, written, pipe, task, saved, obs, stop, late>>
  BY DEF Conclude, processes, streams
<1>2. Behind /\ Behind' /\ Done'
  BY <1>1 DEF Behind, Done
<1>3. Course'
  BY <1>1, <1>2 DEF WholeInv, Course, Early, Going, Lives
<1>4. Earned'
  <2>. SUFFICES ASSUME Verdict = "yes"
                PROVE  child = "ok" /\ stop = "no" /\ obs.results = 1 /\ obs.passed = "yes"
    BY <1>1 DEF Earned
  <2>1. stop = "no" /\ child # "bad" /\ ~(obs.results > 1) /\ obs.passed = "yes"
    BY DEF Verdict
  <2>2. child \in {"ok", "bad"}
    BY <1>2 DEF WholeInv, Course
  <2>3. obs.results \in Nat /\ obs.results # 0
    BY <2>1 DEF WholeInv, HiddenInv, Typed, Known
  <2>. QED  BY <2>1, <2>2, <2>3
<1>. QED  BY <1>1, <1>3, <1>4, AsideKeeps DEF streams

-----------------------------------------------------------------------------
(* Steps of the streams                                                    *)

\* A step on one stream, with the main task waiting.
TaskStep(s) ==
    /\ UNCHANGED <<main, child, helper, stop, late, result>>
    /\ \A t \in Stream \ {s} : /\ task'[t] = task[t] /\ written'[t] = written[t]
                               /\ pipe'[t] = pipe[t] /\ saved'[t] = saved[t]

\* What is observed stays so, and only stdout tells results.
Learns(s) ==
    /\ obs.started # 0 => obs'.started # 0
    /\ obs.finished # 0 => obs'.finished # 0
    /\ s # "out" => obs'.results = obs.results /\ obs'.passed = obs.passed

LEMMA OneStream ==
    ASSUME WholeInv, HiddenInv', NEW s \in Stream, TaskStep(s), Learns(s), Course',
           LogOK(s)', task'[s].at # "off" => WayOK(s)' /\ BoundsOK(s)',
           s = "out" /\ task'[s].at # "off" => ResultsOK',
           obs'.finished # 0 => obs'.started # 0,
           obs'.passed = "yes" => obs'.results # 0,
           Done => obs' = obs
    PROVE  WholeInv'
<1>1. ASSUME NEW t \in Stream \ {s}
      PROVE  /\ LogOK(t)'
             /\ task'[t].at # "off" => WayOK(t)' /\ BoundsOK(t)'
             /\ t = "out" /\ task'[t].at # "off" => ResultsOK'
  <2>1. /\ task'[t] = task[t] /\ written'[t] = written[t] /\ pipe'[t] = pipe[t] /\ saved'[t] = saved[t]
    BY <1>1 DEF TaskStep
  <2>2. LogOK(t)' /\ (WayOK(t)' <=> WayOK(t)) /\ Seen(t)' = Seen(t)
    BY <2>1 DEF WholeInv, LogOK, WayOK, Open, Held, Waiting, Seen
  <2>3. BoundsOK(t) => BoundsOK(t)'
    BY <2>2 DEF BoundsOK, Learns
  <2>4. t = "out" /\ ResultsOK => ResultsOK'
    BY <2>2, <1>1 DEF ResultsOK, Learns
  <2>. QED  BY <2>1, <2>2, <2>3, <2>4 DEF WholeInv, Known
<1>2. \A t \in Stream : LogOK(t)'
  BY <1>1
<1>3. Known'
  BY <1>1 DEF Known, Stream
<1>4. Earned'
  BY DEF WholeInv, Earned, Done, TaskStep
<1>. QED  BY <1>2, <1>3, <1>4 DEF WholeInv

\* Where a task is at work, or something lives that can write, nothing is over.
LEMMA AtWork ==
    ASSUME WholeInv, NEW s \in Stream, task[s].at \in {"read", "write", "observe"}
    PROVE  /\ main \in Going \cup {"abort"} /\ ~Done /\ ~Behind
           /\ WayOK(s) /\ BoundsOK(s) /\ (s = "out" => ResultsOK)
           /\ main = "abort" => s \in late
<1>1. ~Idle /\ task[s].at # "eof" /\ task[s].at # "off"
  BY DEF Idle
<1>. QED  BY <1>1 DEF WholeInv, Course, Known, Behind

\* The course goes on when a task does.
LEMMA CourseGoesOn ==
    ASSUME WholeInv, NEW s \in Stream, TaskStep(s), main \in Going \cup {"abort"},
           task'[s].at = "off" => main = "abort", main = "abort" => s \in late,
           task'[s].at = "eof" => pipe'[s] = <<>> /\ ~Lives
    PROVE  Course'
<1>1. main' = main /\ child' = child /\ helper' = helper /\ late' = late /\ ~Behind'
  BY DEF TaskStep, Behind, Done, Going
<1>2. \A t \in Stream : t # s => task'[t] = task[t] /\ pipe'[t] = pipe[t]
  BY DEF TaskStep
<1>. QED  BY <1>1, <1>2 DEF WholeInv, Course, Early, Going, Lives

LEMMA Sorts ==
    ASSUME HiddenInv
    PROVE  /\ Lines \in Nat /\ Ever \subseteq OneLine
           /\ \A s \in Stream : ToSet(saved[s]) \subseteq OneLine /\ ToSet(pipe[s]) \subseteq OneLine
<1>1. Len(written["out"]) \in Nat /\ Len(written["err"]) \in Nat
  BY DEF HiddenInv, Typed, Stream
<1>2. Lines \in Nat
  <2>. DEFINE out == Len(written["out"])
              err == Len(written["err"])
  <2>1. Lines = out + err /\ out \in Nat /\ err \in Nat
    BY <1>1 DEF Lines
  <2>. HIDE DEF out, err
  <2>. QED  BY <2>1
<1>3. Ever \subseteq OneLine
  BY DEF Ever, ToSet, HiddenInv, Typed
<1>4. \A s \in Stream : ToSet(saved[s]) \subseteq OneLine /\ ToSet(pipe[s]) \subseteq OneLine
  BY DEF ToSet, HiddenInv, Typed
<1>. QED  BY <1>2, <1>3, <1>4

LEMMA WriteHolds ==
    ASSUME WholeInv, HiddenInv', NEW s \in Stream, NEW what \in Said, Write(s, what)
    PROVE  WholeInv'
<1>. DEFINE line == Line(s, Lines + 1, what)
<1>1. /\ written' = [written EXCEPT ![s] = Append(@, line)]
      /\ pipe' = [pipe EXCEPT ![s] = Append(@, line)]
      /\ UNCHANGED <<main, child, helper, task, saved, obs, stop, late, result>>
      /\ Lives /\ main # "done"
  BY DEF Write, processes
<1>2. Lines \in Nat
  BY Sorts DEF WholeInv
<1>3. line \in OneLine /\ line.id = Lines + 1 /\ line.on = s
  BY <1>2 DEF Line, OneLine
<1>. HIDE DEF line
<1>4. \A k \in Ever : k.id \in Nat /\ k.id < line.id
  <2>1. Ever \subseteq OneLine
    BY Sorts DEF WholeInv
  <2>2. \A k \in Ever : k.id \in Nat /\ k.id <= Lines
    BY <2>1 DEF WholeInv, HiddenInv, Numbered, OneLine
  <2>. QED  BY <1>2, <1>3, <2>2
<1>5. /\ ToSet(written'[s]) = ToSet(written[s]) \cup {line}
      /\ ToSet(pipe'[s]) = ToSet(pipe[s]) \cup {line} /\ pipe'[s] = Append(pipe[s], line)
      /\ written'[s] = Append(written[s], line) /\ saved'[s] = saved[s] /\ task'[s] = task[s]
  BY <1>1, <1>3, AppendFacts DEF WholeInv, HiddenInv, Typed
<1>6. TaskStep(s) /\ Learns(s)
  BY <1>1 DEF TaskStep, Learns, WholeInv, HiddenInv, Typed
<1>7. ToSet(written[s]) \subseteq Ever /\ ToSet(pipe[s]) \subseteq Ever /\ ToSet(saved[s]) \subseteq Ever
  BY DEF Ever, WholeInv, HiddenInv, Hidden, OpenLines
<1>8. Open(s)' = Open(s) \cup {k \in {line} : ~Secret(k)}
  BY <1>5 DEF Open, Secret
<1>9. LogOK(s)'
  <2>1. \A k \in ToSet(saved[s]) : ~(line.id < k.id)
    BY <1>3, <1>4, <1>7 DEF OneLine
  <2>2. LogOK(s)
    BY DEF WholeInv
  <2>3. \A k \in ToSet(saved'[s]), m \in Open(s)' : m.id < k.id => m \in ToSet(saved'[s])
    BY <1>5, <1>8, <2>1, <2>2 DEF LogOK
  <2>4. InOrder(written'[s])
    <3>1. written[s] \in Seq(OneLine) /\ \A k \in ToSet(written[s]) : k.id < line.id
      BY <1>4, <1>7 DEF WholeInv, HiddenInv, Typed
    <3>. QED  BY <1>3, <1>5, <2>2, <3>1, AppendInOrder DEF LogOK
  <2>5. InOrder(saved'[s])
    BY <1>5, <2>2 DEF LogOK
  <2>. QED  BY <1>3, <1>5, <1>8, <2>2, <2>3, <2>4, <2>5 DEF LogOK
<1>10. ASSUME task'[s].at # "off" PROVE WayOK(s)' /\ BoundsOK(s)' /\ (s = "out" => ResultsOK')
  <2>1. WayOK(s) /\ BoundsOK(s) /\ (s = "out" => ResultsOK)
    BY <1>5, <1>10 DEF WholeInv, Known
  <2>2. Waiting(s)' = Waiting(s) \cup {k \in {line} : ~Secret(k)} /\ Held(s)' = Held(s)
    BY <1>5 DEF Waiting, Held, Secret
  <2>3. InOrder(pipe'[s])
    <3>1. pipe[s] \in Seq(OneLine) /\ \A k \in ToSet(pipe[s]) : k.id < line.id
      BY <1>4, <1>7 DEF WholeInv, HiddenInv, Typed
    <3>. QED  BY <1>3, <1>5, <2>1, <3>1, AppendInOrder DEF WayOK
  <2>4. Held(s) \subseteq Ever
    BY DEF Held, WholeInv, HiddenInv, Hidden, OpenLines
  <2>5. \A k \in ToSet(saved[s]) \cup Held(s), m \in ToSet(pipe'[s]) : k.id < m.id
    BY <1>4, <1>5, <1>7, <2>1, <2>4 DEF WayOK
  <2>6. WayOK(s)'
    BY <1>5, <1>8, <2>1, <2>2, <2>3, <2>5 DEF WayOK
  <2>7. Seen(s)' = Seen(s)
    BY <1>5 DEF Seen
  <2>. QED  BY <1>1, <2>1, <2>6, <2>7 DEF BoundsOK, ResultsOK
<1>11. Course'
  <2>1. main \in Going \cup {"abort", "compress"} /\ ~Done /\ ~Done' /\ (Behind' <=> Behind)
    BY <1>1 DEF WholeInv, Course, Idle, Lives, Done, Behind
  <2>2. \A t \in Stream : task[t].at # "eof"
    BY <1>1 DEF WholeInv, Course
  <2>. QED  BY <1>1, <2>1, <2>2 DEF WholeInv, Course, Early, Going
<1>. QED  BY <1>1, <1>6, <1>9, <1>10, <1>11, OneStream DEF WholeInv, Known

LEMMA TakeHolds ==
    ASSUME WholeInv, HiddenInv', NEW s \in Stream, TakeLine(s)
    PROVE  WholeInv'
<1>. DEFINE line == Head(pipe[s])
<1>1. /\ task[s].at = "read" /\ pipe' = [pipe EXCEPT ![s] = Tail(@)]
      /\ UNCHANGED <<main, child, helper, written, saved, stop, late, result>>
  BY DEF TakeLine, env, processes
<1>2. /\ WayOK(s) /\ BoundsOK(s) /\ (s = "out" => ResultsOK) /\ LogOK(s)
      /\ main \in Going \cup {"abort"} /\ (main = "abort" => s \in late) /\ ~Done
  BY <1>1, AtWork DEF WholeInv
<1>3. /\ InOrder(pipe'[s]) /\ pipe'[s] = Tail(pipe[s])
      /\ ToSet(pipe[s]) = {line} \cup ToSet(pipe'[s]) /\ \A k \in ToSet(pipe'[s]) : line.id < k.id
  BY <1>1, <1>2, TailInOrder, SMTT(30) DEF WayOK, TakeLine, WholeInv, HiddenInv, Typed
<1>. HIDE DEF line
<1>4. UNCHANGED <<obs.score, obs.passed, obs.started, obs.finished, obs.results>>
  BY DEF TakeLine, WholeInv, HiddenInv, Typed
<1>5. task[s].at = "read" /\ Held(s) = {} /\ saved'[s] = saved[s] /\ written'[s] = written[s]
  BY <1>1 DEF Held
<1>6. /\ \/ Secret(line) /\ task' = task
         \/ ~Secret(line) /\ task' = [task EXCEPT ![s] = [at |-> "write", line |-> line]]
  BY DEF TakeLine, SetTask, line
<1>7. task'[s].at \in {"read", "write"}
  BY <1>1, <1>6 DEF WholeInv, HiddenInv, Typed
<1>8. TaskStep(s) /\ Learns(s)
  BY <1>1, <1>4, <1>6 DEF TaskStep, Learns, WholeInv, HiddenInv, Typed
<1>9. LogOK(s)' /\ Open(s)' = Open(s)
  BY <1>2, <1>5 DEF LogOK, Open, InOrder
<1>10. Seen(s)' = Seen(s)
  BY <1>5, <1>7 DEF Seen
<1>11. WayOK(s)'
  <2>1. CASE Secret(line)
    <3>1. task'[s] = task[s] /\ Held(s)' = {}
      BY <1>5, <1>6, <2>1 DEF Held
    <3>2. Waiting(s)' = Waiting(s)
      BY <1>3, <2>1 DEF Waiting, Secret
    <3>. QED  BY <1>2, <1>3, <1>5, <1>9, <3>1, <3>2 DEF WayOK
  <2>2. CASE ~Secret(line)
    <3>1. task'[s] = [at |-> "write", line |-> line]
      BY <1>6, <2>2 DEF WholeInv, HiddenInv, Typed
    <3>2. Held(s)' = {line}
      BY <3>1 DEF Held
    <3>3. Waiting(s) = {line} \cup Waiting(s)'
      BY <1>3, <2>2 DEF Waiting, Secret
    <3>. QED  BY <1>2, <1>3, <1>5, <1>9, <3>1, <3>2, <3>3 DEF WayOK
  <2>. QED  BY <2>1, <2>2
<1>12. BoundsOK(s)' /\ (s = "out" => ResultsOK')
  BY <1>2, <1>4, <1>10 DEF BoundsOK, ResultsOK
<1>13. Course'
  BY <1>2, <1>7, <1>8, CourseGoesOn
<1>. QED  BY <1>2, <1>4, <1>8, <1>9, <1>11, <1>12, <1>13, OneStream DEF WholeInv, Known

LEMMA WriteLineHolds ==
    ASSUME WholeInv, HiddenInv', NEW s \in Stream, WriteLine(s)
    PROVE  WholeInv'
<1>. DEFINE line == task[s].line
<1>1. /\ task[s].at = "write" /\ saved' = [saved EXCEPT ![s] = Append(@, line)]
      /\ task' = [task EXCEPT ![s] = [task[s] EXCEPT !.at = "observe"]]
      /\ UNCHANGED <<main, child, helper, written, pipe, obs, stop, late, result>>
  BY DEF WriteLine, SetTask, env, processes
<1>2. /\ WayOK(s) /\ BoundsOK(s) /\ (s = "out" => ResultsOK) /\ LogOK(s)
      /\ main \in Going \cup {"abort"} /\ (main = "abort" => s \in late) /\ ~Done
  BY <1>1, AtWork DEF WholeInv
<1>3. task'[s].at = "observe" /\ task'[s].line = line /\ line \in OneLine
  BY <1>1, InHand DEF WholeInv, HiddenInv, Typed
<1>4. Held(s) = {line} /\ Held(s)' = {line}
  BY <1>1, <1>3 DEF Held
<1>5. \A k \in ToSet(saved[s]) : k.id < line.id
  BY <1>1, <1>2 DEF WayOK
<1>. HIDE DEF line
<1>6. saved'[s] = Append(saved[s], line) /\ ToSet(saved'[s]) = ToSet(saved[s]) \cup {line}
  BY <1>1, <1>3, AppendFacts DEF WholeInv, HiddenInv, Typed
<1>7. InOrder(saved'[s])
  BY <1>2, <1>3, <1>5, <1>6, AppendInOrder DEF LogOK, WholeInv, HiddenInv, Typed
<1>8. TaskStep(s) /\ Learns(s)
  BY <1>1 DEF TaskStep, Learns, WholeInv, HiddenInv, Typed
<1>9. Open(s)' = Open(s) /\ Waiting(s)' = Waiting(s) /\ line \in Open(s)
  BY <1>1, <1>2, <1>4 DEF Open, Waiting, WayOK
<1>10. ToSet(saved[s]) \subseteq OneLine /\ ToSet(pipe[s]) \subseteq OneLine
  BY Sorts DEF WholeInv
<1>11. \A k \in ToSet(pipe[s]) : line.id < k.id /\ ~(k.id < line.id)
  BY <1>2, <1>3, <1>4, <1>10 DEF WayOK, OneLine
<1>12. LogOK(s)'
  <2>1. \A m \in Open(s) : m.id < line.id => m \in ToSet(saved[s])
    BY <1>2, <1>3, <1>4, <1>11 DEF WayOK, Waiting, OneLine
  <2>2. \A k \in ToSet(saved'[s]), m \in Open(s)' : m.id < k.id => m \in ToSet(saved'[s])
    BY <1>2, <1>6, <1>9, <2>1 DEF LogOK
  <2>. QED  BY <1>1, <1>2, <1>6, <1>7, <1>9, <2>2 DEF LogOK
<1>13. WayOK(s)'
  <2>1. \A k \in ToSet(saved'[s]) : k.id <= line.id
    BY <1>3, <1>5, <1>6, <1>10 DEF OneLine
  <2>. QED  BY <1>1, <1>2, <1>3, <1>4, <1>6, <1>9, <1>11, <2>1 DEF WayOK
<1>14. Seen(s)' = Seen(s)
  <2>1. line \notin ToSet(saved[s])
    BY <1>3, <1>5 DEF OneLine
  <2>. QED  BY <1>1, <1>3, <1>6, <2>1 DEF Seen
<1>15. BoundsOK(s)' /\ (s = "out" => ResultsOK')
  BY <1>1, <1>2, <1>14 DEF BoundsOK, ResultsOK
<1>16. Course'
  BY <1>2, <1>3, <1>8, CourseGoesOn
<1>. QED  BY <1>1, <1>2, <1>8, <1>12, <1>13, <1>15, <1>16, OneStream DEF WholeInv, Known

LEMMA ObserveHolds ==
    ASSUME WholeInv, HiddenInv', NEW s \in Stream, Observe(s)
    PROVE  WholeInv'
<1>. DEFINE line == task[s].line
            bounds == Boundary(line, obs)
            scored == Score(line, bounds)
<1>1. /\ task[s].at = "observe" /\ task' = [task EXCEPT ![s] = [at |-> "read"]]
      /\ obs' = Result(line, scored)
      /\ UNCHANGED <<main, child, helper, written, pipe, saved, stop, late, result>>
  BY DEF Observe, SetTask, env, processes
<1>2. /\ WayOK(s) /\ BoundsOK(s) /\ (s = "out" => ResultsOK) /\ LogOK(s)
      /\ main \in Going \cup {"abort"} /\ (main = "abort" => s \in late) /\ ~Done
  BY <1>1, AtWork DEF WholeInv
<1>3. line \in OneLine /\ line.id \in Nat /\ line.id # 0
  <2>1. line \in OneLine
    BY <1>1, InHand DEF WholeInv
  <2>. QED  BY <2>1 DEF OneLine
<1>4. line \in ToSet(saved[s]) /\ (\A k \in ToSet(saved[s]) : k.id <= line.id) /\ Held(s) = {line}
  BY <1>1, <1>2 DEF WayOK, Held
<1>5. line.on = s
  BY <1>2, <1>4 DEF LogOK, Open
<1>6. /\ obs.started \in Nat /\ obs.finished \in Nat /\ obs.results \in Nat /\ obs.passed \in Verdicts
      /\ DOMAIN obs = {"score", "passed", "pending", "started", "finished", "results", "dropped"}
  BY DEF WholeInv, HiddenInv, Typed
<1>. HIDE DEF line
<1>7. task'[s] = [at |-> "read"] /\ Held(s)' = {} /\ saved'[s] = saved[s] /\ pipe'[s] = pipe[s]
  BY <1>1 DEF Held, WholeInv, HiddenInv, Typed
<1>8. Seen(s) = ToSet(saved[s]) \ {line} /\ Seen(s)' = Seen(s) \cup {line}
  BY <1>1, <1>4, <1>7 DEF Seen, line
<1>9. /\ bounds.started # 0 <=> obs.started # 0 \/ line.what = "start"
      /\ bounds.finished # 0 <=> obs.finished # 0 \/ (line.what = "finish" /\ obs.started # 0)
      /\ bounds.results = obs.results /\ bounds.passed = obs.passed
  <2>1. CASE line.what = "start" /\ obs.started = 0
    <3>1. bounds = [obs EXCEPT !.started = line.id]
      BY <2>1 DEF Boundary
    <3>. QED  BY <1>3, <1>6, <2>1, <3>1
  <2>2. CASE line.what = "finish" /\ obs.started # 0 /\ obs.finished = 0
    <3>1. bounds = [obs EXCEPT !.finished = line.id]
      BY <2>2 DEF Boundary
    <3>. QED  BY <1>3, <1>6, <2>2, <3>1
  <2>3. CASE /\ ~(line.what = "start" /\ obs.started = 0)
             /\ ~(line.what = "finish" /\ obs.started # 0 /\ obs.finished = 0)
    <3>1. bounds = obs
      BY <2>3 DEF Boundary
    <3>. QED  BY <2>3, <3>1
  <2>. QED  BY <2>1, <2>2, <2>3
<1>10. /\ DOMAIN bounds = DOMAIN obs
  BY <1>6 DEF Boundary
<1>. HIDE DEF bounds
<1>11. /\ scored.started = bounds.started /\ scored.finished = bounds.finished
       /\ scored.results = bounds.results /\ scored.passed = bounds.passed
       /\ DOMAIN scored = DOMAIN bounds
  BY <1>6, <1>10 DEF Score
<1>. HIDE DEF scored
<1>12. obs'.started = scored.started /\ obs'.finished = scored.finished
  BY <1>1, <1>6, <1>10, <1>11 DEF Result
<1>13. Learns(s) /\ (obs'.passed = "yes" => obs'.results # 0) /\ (s = "out" => ResultsOK')
  <2>1. CASE line.on = "out" /\ line.what \in ResultLine
    <3>1. /\ obs'.results = obs.results + 1
          /\ obs'.passed = CASE line.what = "pass" -> "yes" [] line.what = "fail" -> "no"
                             [] OTHER -> obs.passed
      BY <1>1, <1>6, <1>9, <1>10, <1>11, <2>1 DEF Result
    <3>2. obs'.results # 0 /\ (obs'.results = 1 <=> obs.results = 0)
      BY <1>6, <3>1
    <3>3. obs.results = 0 => obs.passed # "yes"
      BY DEF WholeInv, Known
    <3>4. obs'.results = 1 /\ obs'.passed = "yes" => line.what = "pass"
      BY <3>1, <3>2, <3>3
    <3>5. s = "out" /\ Seen("out")' = Seen("out") \cup {line}
      BY <1>5, <1>8, <2>1
    <3>6. obs.results = 0 => \A k \in Seen("out") : k.what \notin ResultLine
      BY <1>2, <3>5 DEF ResultsOK
    <3>7. obs'.results = 1 => /\ line \in Seen("out")' /\ line.what \in ResultLine
                              /\ (obs'.passed = "yes" => line.what = "pass")
                              /\ \A k \in Seen("out")' : k.what \in ResultLine => k = line
      BY <2>1, <3>2, <3>4, <3>5, <3>6
    <3>8. ResultsOK'
      BY <3>2, <3>7 DEF ResultsOK
    <3>. QED  BY <1>9, <1>11, <1>12, <3>2, <3>5, <3>8 DEF Learns
  <2>2. CASE ~(line.on = "out" /\ line.what \in ResultLine)
    <3>1. obs' = scored
      BY <1>1, <2>2 DEF Result
    <3>2. obs'.results = obs.results /\ obs'.passed = obs.passed
      BY <1>9, <1>11, <3>1
    <3>3. s = "out" => line.what \notin ResultLine
      BY <1>5, <2>2
    <3>4. s = "out" => ResultsOK'
      BY <1>2, <1>8, <3>2, <3>3 DEF ResultsOK
    <3>. QED  BY <1>9, <1>11, <1>12, <3>2, <3>4 DEF Learns, WholeInv, Known
  <2>. QED  BY <2>1, <2>2
<1>14. obs'.finished # 0 => obs'.started # 0
  BY <1>9, <1>11, <1>12 DEF WholeInv, Known
<1>15. BoundsOK(s)'
  <2>1. \A k \in Seen(s)' : k.what = "start" => obs'.started # 0
    BY <1>2, <1>8, <1>9, <1>11, <1>12 DEF BoundsOK
  <2>2. ASSUME NEW k \in Seen(s)', NEW m \in Seen(s)', k.what = "start", m.what = "finish", k.id < m.id
        PROVE  obs'.finished # 0
    <3>1. CASE m = line
      <4>1. k # line
        BY <1>3, <2>2, <3>1
      <4>2. obs.started # 0
        BY <1>2, <1>8, <2>2, <4>1 DEF BoundsOK
      <4>. QED  BY <1>9, <1>11, <1>12, <2>2, <3>1, <4>2
    <3>2. CASE m # line /\ k = line
      <4>1. m \in OneLine /\ m.id <= line.id
        BY <1>4, <1>8, <3>2, Sorts DEF WholeInv
      <4>2. m.id \in Nat
        BY <4>1 DEF OneLine
      <4>. QED  BY <1>3, <2>2, <3>2, <4>1, <4>2
    <3>3. CASE m # line /\ k # line
      <4>1. obs.finished # 0
        BY <1>2, <1>8, <2>2, <3>3 DEF BoundsOK
      <4>. QED  BY <1>9, <1>11, <1>12, <4>1
    <3>. QED  BY <3>1, <3>2, <3>3
  <2>. QED  BY <2>1, <2>2 DEF BoundsOK
<1>16. TaskStep(s)
  BY <1>1 DEF TaskStep, WholeInv, HiddenInv, Typed
<1>17. LogOK(s)' /\ Open(s)' = Open(s) /\ Waiting(s)' = Waiting(s)
  BY <1>1, <1>2 DEF LogOK, Open, Waiting, InOrder
<1>18. WayOK(s)'
  <2>1. Held(s) \subseteq ToSet(saved[s])
    BY <1>4
  <2>. QED  BY <1>1, <1>2, <1>7, <1>17, <2>1 DEF WayOK
<1>19. Course'
  BY <1>2, <1>7, <1>16, CourseGoesOn
<1>. QED  BY <1>2, <1>13, <1>14, <1>15, <1>16, <1>17, <1>18, <1>19, OneStream

LEMMA EndHolds ==
    ASSUME WholeInv, HiddenInv', NEW s \in Stream, EndOfFile(s)
    PROVE  WholeInv'
<1>1. /\ task[s].at = "read" /\ task' = [task EXCEPT ![s] = [at |-> "eof"]]
      /\ pipe[s] = <<>> /\ ~Lives
      /\ UNCHANGED <<main, child, helper, written, pipe, saved, obs, stop, late, result>>
  BY DEF EndOfFile, Eof, SetTask, env, processes
<1>2. /\ WayOK(s) /\ BoundsOK(s) /\ (s = "out" => ResultsOK) /\ LogOK(s)
      /\ main \in Going \cup {"abort"} /\ (main = "abort" => s \in late) /\ ~Done
  BY <1>1, AtWork DEF WholeInv
<1>3. task'[s] = [at |-> "eof"]
  BY <1>1 DEF WholeInv, HiddenInv, Typed
<1>4. Held(s) = {} /\ Held(s)' = {} /\ Seen(s)' = Seen(s)
  BY <1>1, <1>3 DEF Held, Seen
<1>5. LogOK(s)' /\ WayOK(s)'
  BY <1>1, <1>2, <1>3, <1>4 DEF LogOK, WayOK, Open, Waiting, InOrder
<1>6. BoundsOK(s)' /\ (s = "out" => ResultsOK')
  BY <1>1, <1>2, <1>4 DEF BoundsOK, ResultsOK
<1>7. TaskStep(s) /\ Learns(s)
  BY <1>1 DEF TaskStep, Learns, WholeInv, HiddenInv, Typed
<1>8. Course'
  BY <1>1, <1>2, <1>3, <1>7, CourseGoesOn
<1>. QED  BY <1>1, <1>2, <1>5, <1>6, <1>7, <1>8, OneStream DEF WholeInv, Known

\* A capture that is given up: its log may gain the line in hand, or lose the last.
LEMMA AbortHolds ==
    ASSUME WholeInv, HiddenInv', NEW s \in Stream, Abort(s)
    PROVE  WholeInv'
<1>1. /\ main = "abort" /\ s \in late /\ task[s].at \in {"read", "write", "observe"}
      /\ task' = [task EXCEPT ![s] = [at |-> "off"]]
      /\ UNCHANGED <<main, child, helper, written, pipe, obs, stop, late, result>>
  <2>1. task[s] \in Task /\ task[s].at \notin {"eof", "off"}
    BY DEF Abort, WholeInv, HiddenInv, Typed
  <2>2. task[s].at \in {"read", "write", "observe"}
    BY <2>1 DEF Task
  <2>. QED  BY <2>2 DEF Abort, SetTask, env, processes
<1>2. WayOK(s) /\ LogOK(s) /\ saved[s] \in Seq(OneLine)
  BY <1>1, AtWork DEF WholeInv, HiddenInv, Typed
<1>3. task'[s].at = "off" /\ Open(s)' = Open(s)
  BY <1>1 DEF Open, WholeInv, HiddenInv, Typed
<1>4. CASE saved' = saved
  <2>1. LogOK(s)'
    BY <1>1, <1>2, <1>4 DEF LogOK, Open, InOrder
  <2>2. TaskStep(s)
    BY <1>1, <1>4 DEF TaskStep, WholeInv, HiddenInv, Typed
  <2>. QED  BY <1>1, <1>3, <2>1, <2>2, CourseGoesOn, OneStream DEF Learns, WholeInv, Known
<1>5. CASE task[s].at = "write" /\ saved' = [saved EXCEPT ![s] = Append(@, task[s].line)]
  <2>. DEFINE line == task[s].line
  <2>1. line \in OneLine /\ Held(s) = {line} /\ \A k \in ToSet(saved[s]) : k.id < line.id
    BY <1>2, <1>5, InHand DEF WayOK, Held, WholeInv
  <2>. HIDE DEF line
  <2>2. saved'[s] = Append(saved[s], line) /\ ToSet(saved'[s]) = ToSet(saved[s]) \cup {line}
    BY <1>2, <1>5, <2>1, AppendFacts, SMTT(30) DEF line, WholeInv, HiddenInv, Typed
  <2>3. InOrder(saved'[s])
    BY <1>2, <2>1, <2>2, AppendInOrder DEF LogOK
  <2>4. ToSet(pipe[s]) \subseteq OneLine
    BY Sorts DEF WholeInv
  <2>5. \A k \in ToSet(pipe[s]) : ~(k.id < line.id)
    BY <1>2, <2>1, <2>4 DEF WayOK, OneLine
  <2>6. \A m \in Open(s) : m.id < line.id => m \in ToSet(saved[s])
    BY <1>2, <2>1, <2>5 DEF WayOK, Waiting, OneLine
  <2>7. line \in Open(s)
    BY <1>2, <2>1 DEF WayOK
  <2>8. \A k \in ToSet(saved'[s]), m \in Open(s)' : m.id < k.id => m \in ToSet(saved'[s])
    BY <1>2, <1>3, <2>2, <2>6 DEF LogOK
  <2>9. LogOK(s)'
    BY <1>1, <1>2, <1>3, <2>2, <2>3, <2>7, <2>8 DEF LogOK
  <2>10. TaskStep(s)
    BY <1>1, <1>5 DEF TaskStep, WholeInv, HiddenInv, Typed
  <2>. QED  BY <1>1, <1>3, <2>9, <2>10, CourseGoesOn, OneStream DEF Learns, WholeInv, Known
<1>6. CASE saved[s] # <<>> /\ saved' = [saved EXCEPT ![s] = Front(@)]
  <2>1. saved'[s] = Front(saved[s])
    BY <1>6 DEF WholeInv, HiddenInv, Typed
  <2>2. /\ InOrder(saved'[s]) /\ ToSet(saved'[s]) \subseteq ToSet(saved[s])
        /\ \A k \in ToSet(saved'[s]), m \in ToSet(saved[s]) : m.id < k.id => m \in ToSet(saved'[s])
    BY <1>2, <1>6, <2>1, FrontFacts, FrontInOrder DEF LogOK
  <2>3. \A k \in ToSet(saved'[s]), m \in Open(s)' : m.id < k.id => m \in ToSet(saved'[s])
    BY <1>2, <1>3, <2>2 DEF LogOK
  <2>4. LogOK(s)'
    BY <1>1, <1>2, <1>3, <2>2, <2>3 DEF LogOK
  <2>5. TaskStep(s)
    BY <1>1, <1>6 DEF TaskStep, WholeInv, HiddenInv, Typed
  <2>. QED  BY <1>1, <1>3, <2>4, <2>5, CourseGoesOn, OneStream DEF Learns, WholeInv, Known
<1>. QED  BY <1>4, <1>5, <1>6 DEF Abort

LEMMA SpawnHolds == ASSUME WholeInv, HiddenInv', Spawn PROVE WholeInv'
<1>1. /\ main = "start" /\ main' = "wait" /\ child' = "up"
      /\ task' = [s \in Stream |-> [at |-> "read"]]
      /\ UNCHANGED <<written, pipe, saved, obs>>
  BY DEF Spawn
<1>2. Idle
  BY <1>1 DEF WholeInv, Course, Early
<1>3. ToSet(<<>>) = {}
  BY DEF ToSet
<1>4. ASSUME NEW s \in Stream
      PROVE  /\ task'[s].at = "read" /\ LogOK(s)' /\ Open(s)' = {} /\ Held(s)' = {} /\ Waiting(s)' = {}
             /\ Seen(s)' = {} /\ pipe'[s] = <<>> /\ saved'[s] = <<>> /\ written'[s] = <<>>
  BY <1>1, <1>2, <1>3 DEF Idle, WholeInv, LogOK, InOrder, Open, Held, Waiting, Seen
<1>5. \A s \in Stream : WayOK(s)' /\ BoundsOK(s)'
  BY <1>3, <1>4 DEF WayOK, BoundsOK, InOrder
<1>6. ResultsOK'
  BY <1>1, <1>2, <1>4 DEF ResultsOK, Idle, NoObservation, Stream
<1>7. Known'
  BY <1>1, <1>2, <1>5, <1>6 DEF Known, Idle, NoObservation
<1>8. Course' /\ Earned'
  BY <1>1, <1>4 DEF Course, Earned, Early, Going, Behind, Done
<1>. QED  BY <1>4, <1>7, <1>8 DEF WholeInv

LEMMA StartsWhole == ASSUME Init PROVE WholeInv
<1>1. Idle
  BY DEF Init, Idle
<1>2. ToSet(<<>>) = {}
  BY DEF ToSet
<1>3. \A s \in Stream : LogOK(s)
  BY <1>1, <1>2 DEF Idle, LogOK, InOrder, Open
<1>4. Known
  BY <1>1 DEF Idle, Known, NoObservation, Stream
<1>5. main = "start" /\ \A s \in Stream : task[s].at = "off"
  BY <1>1 DEF Init, Idle
<1>6. Course /\ Earned
  BY <1>1, <1>5 DEF Course, Earned, Early, Going, Behind, Done
<1>. QED  BY <1>3, <1>4, <1>6, StartsHidden DEF WholeInv

LEMMA WholeStep == ASSUME WholeInv, [Next]_vars PROVE WholeInv'
<1>. HiddenInv'
  BY StepKeeps DEF WholeInv
<1>1. CASE NotStarted \/ Prompted \/ PromptCut
  BY <1>1, AnswersKeep
<1>2. CASE Spawn
  BY <1>2, SpawnHolds
<1>3. CASE Interrupted \/ TimedOut \/ Idled
  BY <1>3, MainKeeps
<1>4. CASE Main
  BY <1>4, MainKeeps, ConcludeEarns, AbortHolds DEF Main
<1>5. CASE \E s \in Stream : Capture(s)
  BY <1>5, TakeHolds, WriteLineHolds, ObserveHolds, EndHolds DEF Capture
<1>6. CASE \E s \in Stream : \E what \in Said : Write(s, what)
  BY <1>6, WriteHolds
<1>7. CASE (\E how \in {"ok", "bad"} : Exit(how)) \/ HelperEnds
  BY <1>7, ExitKeeps, HelperKeeps
<1>8. CASE Cancel \/ Silence \/ UNCHANGED vars
  BY <1>8, FrameKeeps DEF Cancel, Silence, vars, whole, processes, streams
<1>. QED  BY <1>1, <1>2, <1>3, <1>4, <1>5, <1>6, <1>7, <1>8 DEF Next

LEMMA WholeInvariant == Spec => []WholeInv
<1>1. Init => WholeInv
  BY StartsWhole
<1>2. WholeInv /\ [Next]_vars => WholeInv'
  BY WholeStep
<1>. QED  BY <1>1, <1>2, PTL DEF Spec

\* A stream that was read to its end has every line in its log, and observed.
LEMMA ReadToItsEnd ==
    ASSUME WholeInv, NEW s \in Stream, AllRead(s)
    PROVE  /\ task[s].at = "eof" /\ ToSet(saved[s]) = Open(s) /\ Seen(s) = ToSet(saved[s])
           /\ BoundsOK(s) /\ (s = "out" => ResultsOK)
<1>1. task[s].at = "eof" /\ pipe[s] = <<>>
  BY DEF WholeInv, Course, AllRead, Behind
<1>2. WayOK(s) /\ BoundsOK(s) /\ (s = "out" => ResultsOK)
  BY <1>1 DEF WholeInv, Known
<1>3. Held(s) = {} /\ Waiting(s) = {} /\ Seen(s) = ToSet(saved[s])
  BY <1>1 DEF Held, Waiting, Seen, ToSet
<1>. QED  BY <1>1, <1>2, <1>3 DEF WayOK

LEMMA WholeSuffices == ASSUME WholeInv PROVE LogsWhole /\ PassIsEarned /\ InitializeKnown
<1>1. LogsWhole
  BY ReadToItsEnd DEF LogsWhole, LogOK, WholeInv
<1>2. PassIsEarned
  <2>. SUFFICES ASSUME Done, result.passed = "yes"
                PROVE  /\ child = "ok" /\ stop = "no"
                       /\ AllRead("out") => \E i \in DOMAIN saved["out"] :
                              Results(saved["out"]) = {i} /\ saved["out"][i].what = "pass"
    BY DEF PassIsEarned
  <2>1. child = "ok" /\ stop = "no" /\ obs.results = 1 /\ obs.passed = "yes"
    BY DEF WholeInv, Earned
  <2>. SUFFICES ASSUME AllRead("out")
                PROVE  \E i \in DOMAIN saved["out"] :
                           Results(saved["out"]) = {i} /\ saved["out"][i].what = "pass"
    BY <2>1
  <2>. DEFINE log == saved["out"]
  <2>2. log \in Seq(OneLine) /\ InOrder(log)
    BY DEF WholeInv, HiddenInv, Typed, LogOK, Stream
  <2>3. ResultsOK /\ Seen("out") = ToSet(log)
    BY ReadToItsEnd DEF Stream
  <2>4. PICK k \in ToSet(log) : /\ k.what \in ResultLine /\ k.what = "pass"
                                /\ \A line \in ToSet(log) : line.what \in ResultLine => line = k
    BY <2>1, <2>3 DEF ResultsOK
  <2>. HIDE DEF log
  <2>5. PICK i \in DOMAIN log : log[i] = k
    BY <2>4 DEF ToSet
  <2>6. ASSUME NEW j \in DOMAIN log, log[j].what \in ResultLine PROVE j = i
    <3>1. log[j] = log[i]
      BY <2>4, <2>5, <2>6 DEF ToSet
    <3>2. log[i].id \in Nat /\ i \in Nat /\ j \in Nat
      <4>1. DOMAIN log = 1..Len(log) /\ Len(log) \in Nat
        BY <2>2
      <4>2. log[i] \in OneLine
        BY <2>2, <4>1
      <4>. QED  BY <4>1, <4>2 DEF OneLine
    <3>3. ~(i < j) /\ ~(j < i)
      BY <2>2, <3>1, <3>2 DEF InOrder
    <3>. QED  BY <3>2, <3>3
  <2>7. Results(log) = {i}
    BY <2>4, <2>5, <2>6 DEF Results
  <2>. QED  BY <2>4, <2>5, <2>7 DEF log
<1>3. InitializeKnown
  <2>1. obs.finished # 0 => obs.started # 0
    BY DEF WholeInv, Known
  <2>. SUFFICES ASSUME NEW s \in Stream, AllRead(s),
                       NEW i \in DOMAIN written[s], NEW j \in DOMAIN written[s], i < j,
                       written[s][i].what = "start", written[s][j].what = "finish"
                PROVE  obs.finished # 0
    BY <2>1 DEF InitializeKnown
  <2>2. ToSet(saved[s]) = Open(s) /\ Seen(s) = ToSet(saved[s]) /\ BoundsOK(s)
    BY ReadToItsEnd
  <2>3. written[s][i] \in Open(s) /\ written[s][j] \in Open(s)
    BY DEF Open, ToSet, Secret
  <2>4. written[s][i].id < written[s][j].id
    BY DEF WholeInv, LogOK, InOrder
  <2>. QED  BY <2>2, <2>3, <2>4 DEF BoundsOK
<1>. QED  BY <1>1, <1>2, <1>3

\* However the command ends, is stopped or leaves its pipes to somebody: the
\* logs have what it said in the open, in order and without a gap, and all of
\* it where a capture came to its end (benchmark.rs:246, :409).
THEOREM LogsAreWhole == Spec => []LogsWhole
BY WholeInvariant, WholeSuffices, PTL

\* A run that passes was earned by one result record in its log, whatever the
\* two streams say in between (benchmark.rs:292).
THEOREM PassesEarned == Spec => []PassIsEarned
BY WholeInvariant, WholeSuffices, PTL

\* Initialize is timed by the two boundaries of a stream, or not at all; one
\* that both were written to a stream in order is timed (benchmark.rs:445).
THEOREM InitializeTimed == Spec => []InitializeKnown
BY WholeInvariant, WholeSuffices, PTL
=============================================================================
