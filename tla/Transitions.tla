----------------------------- MODULE Transitions -----------------------------
(***************************************************************************)
(* The transitions between the requests of a session                       *)
(* (src/src/transition.rs).  The access logs that a survey-run brought     *)
(* back are read one after the other; nginx writes a line when a request   *)
(* is complete, so the lines of a session are not in the order of its      *)
(* requests, and a session may be in several logs.                         *)
(*                                                                         *)
(* Routes are made from URIs by rules, the first that matches; alp gets    *)
(* the same rules as groups.  A pattern is the set of URIs that it matches *)
(* and captures are left out.  A definition named X_Slip is a slip that    *)
(* the specification does not use.                                         *)
(***************************************************************************)
EXTENDS Naturals, Sequences, FiniteSets, FiniteSetsExt, SequencesExt, Functions, BagsExt

CONSTANTS
    Uri,       \* the paths in the logs
    RuleSets,  \* route rules: sequences of [pattern, replace]
    Record,    \* lines: [session, uri, time, end, duration], None where a field is missing
    None,
    MaxLines,  \* bound: lines of a log
    LogCount   \* the logs

VARIABLES
    rules,     \* the route rules
    logs,      \* the logs, in the order of their paths
    read,      \* the lines read of each
    sessions,  \* the events of each session, as they were read
    summed,    \* the sessions that summarize() has gone through
    edges      \* a bag of [from, to, overlap, ambiguous]

vars == <<rules, logs, read, sessions, summed, edges>>

-----------------------------------------------------------------------------
(* Routes                                                                  *)

First(S) == CHOOSE i \in S : \A j \in S : i <= j

\* normalize()
Normalized(uri) ==
    LET matching == {i \in DOMAIN rules : uri \in rules[i].pattern}
    IN IF matching = {} THEN uri ELSE rules[First(matching)].replace

\* Slip: all rules with one replacement are one group.
SameGroup_Slip(i, j) == rules[i].replace = rules[j].replace

\* alp_groups(): rules are bundled when none with another replacement is
\* between them.
SameGroup(i, j) ==
    \A k \in DOMAIN rules : (i <= k /\ k <= j) \/ (j <= k /\ k <= i)
                            => rules[k].replace = rules[i].replace

\* What alp makes of a URI: groups are tried in the order of their first
\* rule, and any rule of a group will do.
AlpRoute(uri) ==
    LET matching == {i \in DOMAIN rules :
                        \E j \in DOMAIN rules : SameGroup(i, j) /\ uri \in rules[j].pattern}
    IN IF matching = {} THEN uri ELSE rules[First(matching)].replace

-----------------------------------------------------------------------------
(* read_log()                                                              *)

\* event_time(): the start is the end without the duration; older logs only
\* have the time of the end.
Event(line) ==
    LET known == line.end # None /\ line.duration # None /\ line.duration <= line.end IN
    [at |-> IF known THEN line.end - line.duration ELSE line.time,
     end |-> IF known THEN line.end ELSE line.time,
     precise |-> known, route |-> Normalized(line.uri)]

\* Lines without a session or without any time are passed over.
Usable(line) == line.session # None /\ Event(line).at # None

ReadLine(l) ==
    /\ \A k \in 1..l - 1 : read[k] = Len(logs[k])
    /\ read[l] < Len(logs[l])
    /\ read' = [read EXCEPT ![l] = @ + 1]
    /\ LET line == logs[l][read[l] + 1]
       IN sessions' = IF Usable(line) THEN [sessions EXCEPT ![line.session] = Append(@, Event(line))]
                      ELSE sessions
    /\ UNCHANGED <<rules, logs, summed, edges>>

-----------------------------------------------------------------------------
(* summarize()                                                             *)

\* Slip: requests are ordered by their ends.
Earlier_Slip(e, f) == e.end < f.end

Earlier(e, f) == e.at < f.at \/ (e.at = f.at /\ e.end < f.end)

\* sort_by_key() is stable.
Order(events) ==
    LET before(i, j) == Earlier(events[i], events[j]) \/ (~Earlier(events[j], events[i]) /\ i < j)
    IN [n \in 1..Len(events) |->
            events[CHOOSE i \in DOMAIN events :
                     Cardinality({j \in DOMAIN events : before(j, i)}) = n - 1]]

Edge(e, f) ==
    [from |-> e.route, to |-> f.route,
     overlap |-> e.precise /\ f.precise /\ f.at < e.end,
     ambiguous |-> ~e.precise \/ ~f.precise \/ e.at = f.at]

Summarize(s) ==
    /\ \A l \in DOMAIN logs : read[l] = Len(logs[l])
    /\ s \notin summed
    /\ summed' = summed \cup {s}
    /\ LET o == Order(sessions[s])
       IN edges' = FoldLeftDomain(LAMBDA bag, n : IF n < Len(o) THEN BagAdd(bag, Edge(o[n], o[n + 1]))
                                                  ELSE bag, edges, o)
    /\ UNCHANGED <<rules, logs, read, sessions>>

Session == {line.session : line \in Record} \ {None}

Init ==
    /\ rules \in RuleSets
    /\ logs \in [1..LogCount -> SeqOf(Record, MaxLines)]
    /\ read = [l \in DOMAIN logs |-> 0]
    /\ sessions = [s \in Session |-> <<>>]
    /\ edges = EmptyBag
    /\ summed = {}

Next == (\E l \in DOMAIN logs : ReadLine(l)) \/ (\E s \in Session : Summarize(s))

Spec == Init /\ [][Next]_vars

-----------------------------------------------------------------------------
(* Properties                                                              *)

\* A route is the same in the transitions and in what alp counts, although
\* alp gets bundled rules (alp_groups).
RoutesAgree == \A uri \in Uri : AlpRoute(uri) = Normalized(uri)

Requests(s) ==
    {<<l, n>> \in UNION {{l} \X DOMAIN logs[l] : l \in DOMAIN logs} :
        Usable(logs[l][n]) /\ logs[l][n].session = s}
Start(r) == Event(logs[r[1]][r[2]]).at
OneByOne(s) == \A r, q \in Requests(s) : r # q => Start(r) # Start(q)

\* Requests of a session one of which starts next after the other.
Follows(s) ==
    {<<r, q>> \in Requests(s) \X Requests(s) :
        Start(r) < Start(q) /\ \A x \in Requests(s) : ~(Start(r) < Start(x) /\ Start(x) < Start(q))}

Counted(from, to) ==
    BagCardinality([e \in {e \in BagToSet(edges) : e.from = from /\ e.to = to} |-> edges[e]])

\* Every request of a session but the first is the end of one transition,
\* and where no two start at once the transitions lead from each to the one
\* that started next, whatever logs they are in and in whatever order they
\* ended; a transition that is not marked ambiguous is between known starts
\* (summarize, src/README.md:343).
EdgesTrue ==
    summed = Session =>
        /\ BagCardinality(edges) =
            SumFunction([s \in Session |-> Max({1, Cardinality(Requests(s))}) - 1])
        /\ (\A s \in Session : OneByOne(s)) =>
            \A from, to \in {e.from : e \in BagToSet(edges)} \cup {e.to : e \in BagToSet(edges)} :
                Counted(from, to) =
                    SumFunction([s \in Session |-> Cardinality(
                        {p \in Follows(s) : /\ Normalized(logs[p[1][1]][p[1][2]].uri) = from
                                          /\ Normalized(logs[p[2][1]][p[2][2]].uri) = to})])
        /\ \A e \in BagToSet(edges) : ~e.ambiguous =>
            \E s \in Session : \E p \in Requests(s) \X Requests(s) :
                /\ Start(p[1]) < Start(p[2])
                /\ \A i \in {1, 2} : logs[p[i][1]][p[i][2]].duration # None
=============================================================================
