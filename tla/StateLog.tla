------------------------------ MODULE StateLog ------------------------------
(***************************************************************************)
(* The state log of an application (src/src/states.rs): one line for each  *)
(* change of an object, in the order of time.  metrics() goes through the  *)
(* lines of one node once and keeps the state of every object, the number  *)
(* of objects in every state, the stays and the peaks; the table           *)
(* state_stays of `states sql` is computed from the same lines by a window *)
(* function.  A line may not know the state before it ("?"), and a writer  *)
(* may have lost lines, so that the state before is not the one tracked.   *)
(*                                                                         *)
(* The objects are those of one kind.  A definition named X_Slip is a      *)
(* plausible slip that the specification does not use.                     *)
(***************************************************************************)
EXTENDS Integers, Sequences, FiniteSets, FiniteSetsExt, Functions, Bags

CONSTANTS
    Object,     \* the objects
    State,      \* their states
    Nothing,    \* "from": null, the line creates the object
    Unsaid,     \* no "from": the writer does not know
    LastTime,   \* bound: times are 0..LastTime
    MaxLines,   \* bound: lines of a log
    WindowStart, WindowEnd  \* the window of the metrics, without its end

\* A line that does not know the state before says neither a state nor null.
ASSUME StatesAssumption ==
    /\ IsFiniteSet(Object)
    /\ Nothing \notin State /\ Unsaid \notin State /\ Unsaid # Nothing /\ Unsaid \notin Int
    /\ LastTime \in Nat /\ MaxLines \in Nat /\ WindowStart \in Int /\ WindowEnd \in Int

VARIABLES
    lines,          \* the parsed events
    next,           \* the line that metrics() looks at
    state, entered, \* the tracked state of every object, and since when
    counts,         \* the number of objects in every state
    peaks,          \* the largest of it in the window
    occupancy,      \* it at each time of the window
    transitions,    \* <<from, to>> of the lines in the window
    stays,          \* the stays that ended in the window
    inconsistent    \* lines that contradict the tracked state

statesVars == <<lines, next, state, entered, counts, peaks, occupancy, transitions, stays, inconsistent>>

Line == [t : 0..LastTime, id : Object, from : State \cup {Nothing, Unsaid}, to : State]
Before == {i \in DOMAIN lines : lines[i].t < WindowEnd}
InWindow(e) == e.t \in WindowStart..WindowEnd - 1
Moments == WindowStart..WindowEnd - 1

\* The line that first names an object.
FirstOf(log, o) == {i \in DOMAIN log : /\ log[i].id = o /\ log[i].t < WindowEnd
                                       /\ \A j \in 1..i - 1 : log[j].id # o}

\* An object whose first line says the state before was in it from the start.
StateAtStart(log) ==
    [o \in Object |->
        IF \E i \in FirstOf(log, o) : log[i].from \in State
        THEN log[CHOOSE i \in FirstOf(log, o) : TRUE].from ELSE Nothing]

CountsOf(where) == [s \in State |-> Cardinality({o \in Object : where[o] = s})]

Ordered(log) == \A i \in 1..Len(log) - 1 : log[i].t <= log[i + 1].t

Logs == UNION {{log \in [1..n -> Line] : Ordered(log)} : n \in 0..MaxLines}

StatesInit ==
    /\ lines \in Logs
    /\ next = 1
    /\ state = StateAtStart(lines)
    /\ entered = [o \in Object |-> Unsaid]
    /\ counts = CountsOf(state)
    /\ peaks = [s \in State |-> 0]
    /\ occupancy = <<>>
    /\ transitions = EmptyBag /\ stays = EmptyBag
    /\ inconsistent = 0

-----------------------------------------------------------------------------
(* One line                                                                *)

\* sample(): the numbers at the times that passed before `until`.
Sampled(until) ==
    [moment \in {m \in Moments : m < until} |->
        IF moment \in DOMAIN occupancy THEN occupancy[moment] ELSE counts]

\* When the window starts, what holds then is the first peak.
Opens(e) == InWindow(e) /\ \A i \in 1..next - 1 : ~InWindow(lines[i])

Greater(a, b) == IF a > b THEN a ELSE b
PeaksAtStart(e) == IF Opens(e) THEN [s \in State |-> Greater(peaks[s], counts[s])] ELSE peaks

From(e) == IF e.from # Unsaid THEN e.from
           ELSE IF state[e.id] # Nothing THEN state[e.id] ELSE Unsaid

Consistent(e) ==
    \/ state[e.id] = Nothing
    \/ e.from = Unsaid
    \/ e.from = state[e.id]

\* Slip: the object leaves the state that the line says.
Track_Slip(e) ==
    IF state[e.id] = e.to
    THEN UNCHANGED <<state, entered, counts, stays>>
    ELSE /\ state' = [state EXCEPT ![e.id] = e.to]
         /\ entered' = [entered EXCEPT ![e.id] = e.t]
         /\ counts' = [s \in State |-> counts[s] - (IF s = From(e) THEN 1 ELSE 0)
                                                + (IF s = e.to THEN 1 ELSE 0)]
         /\ UNCHANGED stays

\* The object moves, unless it is in that state.
Track(e) ==
    IF state[e.id] = e.to
    THEN UNCHANGED <<state, entered, counts, stays>>
    ELSE /\ state' = [state EXCEPT ![e.id] = e.to]
         /\ entered' = [entered EXCEPT ![e.id] = e.t]
         /\ counts' = [s \in State |-> counts[s] - (IF s = state[e.id] THEN 1 ELSE 0)
                                                + (IF s = e.to THEN 1 ELSE 0)]
         /\ stays' = IF InWindow(e) /\ entered[e.id] # Unsaid
                     THEN stays (+) SetToBag({[state |-> state[e.id], time |-> e.t - entered[e.id]]})
                     ELSE stays

\* Slip: the peak is compared before the object has moved.
PeaksAfter_Slip(e) ==
    IF InWindow(e)
    THEN [PeaksAtStart(e) EXCEPT ![e.to] = Greater(@, counts[e.to])]
    ELSE peaks

\* Only the state that the line leads to can have a new peak.
PeaksAfter(e) ==
    IF InWindow(e)
    THEN [PeaksAtStart(e) EXCEPT ![e.to] = Greater(@, counts'[e.to])]
    ELSE peaks

ReadLine ==
    /\ next \in Before
    /\ LET e == lines[next] IN
        /\ occupancy' = Sampled(e.t)
        /\ transitions' = IF InWindow(e) THEN transitions (+) SetToBag({<<From(e), e.to>>})
                          ELSE transitions
        /\ inconsistent' = inconsistent + (IF Consistent(e) THEN 0 ELSE 1)
        /\ Track(e)
        /\ peaks' = PeaksAfter(e)
    /\ next' = next + 1
    /\ UNCHANGED lines

\* Behind the last line: the remaining times, and the peaks of a quiet window.
Finish ==
    /\ next = Cardinality(Before) + 1
    /\ occupancy' = Sampled(WindowEnd)
    /\ peaks' = IF \E i \in Before : InWindow(lines[i]) THEN peaks ELSE counts
    /\ next' = MaxLines + 2
    /\ UNCHANGED <<lines, state, entered, counts, transitions, stays, inconsistent>>

StatesNext == ReadLine \/ Finish

StatesSpec == StatesInit /\ [][StatesNext]_statesVars
Done == next = MaxLines + 2

-----------------------------------------------------------------------------
(* state_stays: the lines that change the state, each with the next one of *)
(* the object (LEAD)                                                       *)

\* Slip: a line that creates an object is not one (from_state <> to_state alone).
StayLines_Slip == {i \in DOMAIN lines : lines[i].from \notin {Nothing, lines[i].to}}

StayLines == {i \in DOMAIN lines : lines[i].from # lines[i].to}

\* A row is <<entered, left>>; rows whose object has not left yet are left out.
StateStays ==
    {p \in StayLines \X StayLines :
        /\ p[1] < p[2] /\ lines[p[1]].id = lines[p[2]].id
        /\ \A k \in StayLines : k \in p[1] + 1..p[2] - 1 => lines[k].id # lines[p[1]].id}

-----------------------------------------------------------------------------
(* What is true of the objects                                             *)

\* The state of an object once the first n lines have happened.
TrueState(o, n) ==
    LET mine == {i \in 1..n : lines[i].id = o}
    IN IF mine # {} THEN lines[Max(mine)].to ELSE StateAtStart(lines)[o]

TrueCounts(n) == CountsOf([o \in Object |-> TrueState(o, n)])

\* The lines at which an object is seen to change its state.
Moves(o) == {i \in Before : lines[i].id = o /\ TrueState(o, i - 1) # lines[i].to}

\* The stays between two moves of an object that ended in the window.
TrueStays ==
    UNION {{p \in Moves(o) \X Moves(o) :
              /\ p[1] < p[2] /\ InWindow(lines[p[2]])
              /\ \A k \in Moves(o) : k \notin p[1] + 1..p[2] - 1} : o \in Object}

\* What metrics() keeps of a stay.
Stay(p) == [state |-> lines[p[1]].to, time |-> lines[p[2]].t - lines[p[1]].t]

Upto(t) == Cardinality({i \in Before : lines[i].t <= t})

\* Transitions into (side 2) or out of (side 1) a state.
Passing(side, s) ==
    SumFunctionOnSet(transitions, {p \in BagToSet(transitions) : p[side] = s})

-----------------------------------------------------------------------------
(* Properties                                                              *)

\* The numbers of objects are those of the objects themselves at every
\* line, whatever lines the writer lost or does not know (metrics).
CountsTrue == next \in DOMAIN lines => counts = TrueCounts(next - 1)

\* In the end, the peak of a state is the largest number of objects that
\* were in it at once in the window, also of those who came before it, and
\* the samples are the numbers at their time; every stay between two moves
\* that ended in the window is there once, with its time; and unless a line
\* was inconsistent, the transitions of the window account for the numbers
\* of its start and of its end (metrics).
MetricsTrue ==
    Done =>
        /\ \A s \in State : peaks[s] =
            Max({TrueCounts(n)[s] : n \in Upto(WindowStart - 1)..Cardinality(Before)})
        /\ DOMAIN occupancy = Moments
        /\ \A moment \in Moments : occupancy[moment] = TrueCounts(Upto(moment))
        /\ inconsistent = 0 => \A s \in State :
            counts[s] = TrueCounts(Upto(WindowStart - 1))[s] + Passing(2, s) - Passing(1, s)
        /\ stays = [stay \in {Stay(p) : p \in TrueStays} |->
                        Cardinality({p \in TrueStays : Stay(p) = stay})]

\* When every line knows the state before and none was lost, the stays of
\* the table that ended in the window are those that the metrics count.
StaysAgree ==
    Done /\ (\A i \in Before : lines[i].from = TrueState(lines[i].id, i - 1)) =>
        {p \in StateStays : InWindow(lines[p[2]])} = TrueStays

\* What metrics() says of the states of the objects, and how long they stayed,
\* is what the log says, whichever lines lack a "from" (states.rs:604).
StatesTrue == CountsTrue /\ MetricsTrue /\ StaysAgree
=============================================================================
