---------------------------- MODULE StateAnswers ----------------------------
(***************************************************************************)
(* What `isuscope states` promises about the state logs of a saved run: an *)
(* answer is made from the logs themselves, in the order of the manifest,  *)
(* each as it was at some moment since the question.  There is no cache    *)
(* here; StateCache implements this.                                       *)
(***************************************************************************)
EXTENDS Naturals, Sequences, SequencesExt

CONSTANTS
    Run,        \* the runs
    Log,        \* names of state logs
    Sources,    \* for each run its logs, in the order of the manifest
    Events,     \* for each log the number of its events
    Query       \* processes that ask

\* The parsed events of one version of a log, in (t, seq) order.
Parsed(f, v) == [i \in 1..Events[f] |-> <<f, v, i>>]

\* The rows of state_events, log after log, given the version of each log.
Table(r, version) ==
    FlattenSeq([k \in DOMAIN Sources[r] |-> Parsed(Sources[r][k], version[Sources[r][k]])])

VARIABLES
    log,        \* the version of each run's logs
    context,    \* the window and start of each run's benchmark in its run.json
    question,   \* what a process asks, with the versions and the context at that time
    answer      \* the last answer to each process

vars == <<log, context, question, answer>>

NoQuestion == [run |-> "none"]
NoAnswer == [rows |-> <<>>, stays |-> {}, context |-> 0]

\* For each log one of its versions from since to now.
Versions(since, now) ==
    {version \in [Log -> UNION {since[f] .. now[f] : f \in Log}] :
        \A f \in Log : version[f] \in since[f] .. now[f]}

Answers(r, version, c) == [rows |-> Table(r, version), stays |-> ToSet(Table(r, version)),
                           context |-> c]

Init ==
    /\ log = [r \in Run |-> [f \in Log |-> 1]]
    /\ context = [r \in Run |-> 1]
    /\ question = [q \in Query |-> NoQuestion]
    /\ answer = [q \in Query |-> NoAnswer]

Replaced(r, f) ==
    /\ log' = [log EXCEPT ![r][f] = @ + 1]
    /\ UNCHANGED <<context, question, answer>>

ContextChanged(r) ==
    /\ context' = [context EXCEPT ![r] = @ + 1]
    /\ UNCHANGED <<log, question, answer>>

Asked(q, r) ==
    /\ question[q] = NoQuestion
    /\ question' = [question EXCEPT ![q] =
                      [run |-> r, since |-> log[r], context |-> context[r]]]
    /\ UNCHANGED <<log, context, answer>>

Answered(q) ==
    /\ question[q] # NoQuestion
    /\ \E version \in Versions(question[q].since, log[question[q].run]) :
        answer' = [answer EXCEPT ![q] = Answers(question[q].run, version, question[q].context)]
    /\ question' = [question EXCEPT ![q] = NoQuestion]
    /\ UNCHANGED <<log, context>>

\* The process is killed before it has its answer.
GivenUp(q) ==
    /\ question' = [question EXCEPT ![q] = NoQuestion]
    /\ UNCHANGED <<log, context, answer>>

Next ==
    \/ \E r \in Run : ContextChanged(r) \/ \E f \in Log : Replaced(r, f)
    \/ \E q \in Query : Answered(q) \/ GivenUp(q) \/ \E r \in Run : Asked(q, r)

Spec == Init /\ [][Next]_vars
=============================================================================
