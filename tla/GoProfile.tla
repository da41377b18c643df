------------------------------- MODULE GoProfile -------------------------------
(***************************************************************************)
(* The profiles of a Go application (src/src/go_profile.rs).  The CPU      *)
(* profile is of the window only; the mutex, block and allocation profiles *)
(* count from the start of the process, so that the difference to the one  *)
(* taken at the start of the window is made, stack by stack.  An           *)
(* application that crashes in the window starts to count again.           *)
(*                                                                         *)
(* A stack is a sequence of functions, the leaf first.  A profile is       *)
(* encoded in tables that refer to each other and come in any order.  A    *)
(* definition named X_Slip is a slip that the specification does not use.  *)
(***************************************************************************)
EXTENDS Naturals, Sequences, FiniteSets, FiniteSetsExt, Functions, SequencesExt

CONSTANTS
    Stacks,     \* the stacks of the application
    Routes,     \* the routes that it labels its samples with
    App, Inner, \* the functions of package main, and those of runtime, sync, internal
    Classes,    \* <<class, functions>>, in the order in which function_class() asks
    FunctionRows, \* FUNCTION_ROWS
    Untaken,    \* no profile was taken
    MaxEvents   \* bound: what happens before the profiles are read

VARIABLES
    at,        \* "before", "window" or "after"
    counters,  \* the cumulative profile of the process, by stack
    base, end, \* what was taken of it at the start and at the stop
    cpu,       \* the CPU samples, by stack and route
    happened,  \* what really was counted in the window
    restarts,  \* restarts in the window
    events     \* count

profileVars == <<at, counters, base, end, cpu, happened, restarts, events>>

Function == UNION {ToSet(stack) : stack \in Stacks}
Zero == [s \in Stacks |-> 0]

ProfileInit ==
    /\ at = "before"
    /\ counters = Zero /\ happened = Zero
    /\ base = Untaken /\ end = Untaken
    /\ cpu = [x \in Stacks \X Routes |-> 0]
    /\ restarts = 0 /\ events = 0

Event == events < MaxEvents /\ events' = events + 1

\* A contention, a wait or an allocation.
Count(s) ==
    /\ Event /\ at # "after"
    /\ counters' = [counters EXCEPT ![s] = @ + 1]
    /\ happened' = IF at = "window" THEN [happened EXCEPT ![s] = @ + 1] ELSE happened
    /\ UNCHANGED <<at, base, end, cpu, restarts>>

Sample(s, r) ==
    /\ Event /\ at = "window"
    /\ cpu' = [cpu EXCEPT ![<<s, r>>] = @ + 1]
    /\ UNCHANGED <<at, counters, base, end, happened, restarts>>

RestartApp ==
    /\ Event /\ at = "window"
    /\ counters' = Zero
    /\ cpu' = [x \in DOMAIN cpu |-> 0]
    /\ restarts' = restarts + 1
    /\ UNCHANGED <<at, base, end, happened>>

StartProfile ==
    /\ at = "before" /\ at' = "window"
    /\ base' = counters
    /\ UNCHANGED <<counters, end, cpu, happened, restarts, events>>

StopProfile ==
    /\ at = "window" /\ at' = "after"
    /\ end' = counters
    /\ UNCHANGED <<counters, base, cpu, happened, restarts, events>>

ProfileNext ==
    \/ \E s \in Stacks : Count(s) \/ \E r \in Routes : Sample(s, r)
    \/ RestartApp \/ StartProfile \/ StopProfile

ProfileSpec == ProfileInit /\ [][ProfileNext]_profileVars

-----------------------------------------------------------------------------
(* decode(): strings, functions, locations and samples refer to each other *)
(* by number; inlined functions share a location                           *)

Names == SetToSeq(Function)
Index(f) == CHOOSE i \in DOMAIN Names : Names[i] = f

\* A location for each pair of functions of a stack, the second inlined the first.
LocationsOf(stack) ==
    [i \in 1..(Len(stack) + 1) \div 2 |-> SubSeq(stack, 2 * i - 1, Min({2 * i, Len(stack)}))]
Locations == SetToSeq(UNION {ToSet(LocationsOf(stack)) : stack \in Stacks})
LocationId(l) == CHOOSE i \in DOMAIN Locations : Locations[i] = l

Field == {"string", "function", "location", "sample"}

Encoded(stack, field) ==
    CASE field = "string" -> Names
      [] field = "function" -> [i \in DOMAIN Names |-> i]
      [] field = "location" ->
            [i \in DOMAIN Locations |-> [j \in DOMAIN Locations[i] |-> Index(Locations[i][j])]]
      [] OTHER -> [i \in DOMAIN LocationsOf(stack) |-> LocationId(LocationsOf(stack)[i])]

NoTables == [field \in Field |-> <<>>]

\* Slip: references are followed as they are read.
Decoded_Slip(stack, order) ==
    LET tables == FoldLeft(LAMBDA t, field : [t EXCEPT ![field] =
                      IF field = "sample"
                      THEN FlattenSeq([i \in DOMAIN Encoded(stack, field) |->
                              IF Encoded(stack, field)[i] \in DOMAIN t["location"]
                              THEN t["location"][Encoded(stack, field)[i]] ELSE <<>>])
                      ELSE Encoded(stack, field)], NoTables, order)
    IN [i \in DOMAIN tables["sample"] |-> tables["string"][tables["function"][tables["sample"][i]]]]

\* The tables are read first, then references are followed, the inner
\* function of a location before its caller.
Decoded(stack, order) ==
    LET tables == FoldLeft(LAMBDA t, field : [t EXCEPT ![field] = Encoded(stack, field)],
                           NoTables, order)
        functions == FlattenSeq([i \in DOMAIN tables["sample"] |->
                                    tables["location"][tables["sample"][i]]])
    IN [i \in DOMAIN functions |-> tables["string"][tables["function"][functions[i]]]]

-----------------------------------------------------------------------------
(* The metrics                                                             *)

Outside == "(outside the app)"

\* A stack has a leaf, and no function is called Outside.
ASSUME ProfileAssumption ==
    /\ IsFiniteSet(Stacks) /\ \A stack \in Stacks : stack \in Seq(ToSet(stack)) /\ stack # <<>>
    /\ IsFiniteSet(Routes) /\ IsFiniteSet(App) /\ Outside \notin App
    /\ FunctionRows \in Nat
    /\ Untaken \notin [Stacks -> Nat]

FirstIn(stack, S) == CHOOSE i \in DOMAIN stack : stack[i] \in S /\ \A j \in 1..i - 1 : stack[j] \notin S

\* site(): the innermost function of the application, or of a library, or the leaf.
Site(stack) ==
    IF ToSet(stack) \cap App # {} THEN stack[FirstIn(stack, App)]
    ELSE IF ToSet(stack) \subseteq Inner THEN stack[1]
    ELSE stack[FirstIn(stack, Function \ Inner)]

Owner(stack) == IF ToSet(stack) \cap App # {} THEN stack[FirstIn(stack, App)] ELSE Outside

FunctionClass(f) ==
    LET asked == {i \in DOMAIN Classes : f \in Classes[i][2]}
    IN IF asked = {} THEN "other" ELSE Classes[Min(asked)][1]

\* top(): the largest of the positive values.
Top(values, limit) ==
    LET positive == {k \in DOMAIN values : values[k] > 0}
        kept == CHOOSE K \in SUBSET positive :
                    /\ Cardinality(K) = Min({Cardinality(positive), limit})
                    /\ \A k \in K, l \in positive \ K : values[k] >= values[l]
    IN Restrict(values, kept)

\* Slip: the profile is that of the process.
Grown_Slip(s) == end[s]

\* site_metrics(): what grew, stack by stack, then site by site.
Grown(s) ==
    LET before == IF base = Untaken THEN 0 ELSE base[s]
    IN IF end[s] > before THEN end[s] - before ELSE 0

SiteDelta(site) == SumFunctionOnSet([s \in Stacks |-> Grown(s)], {s \in Stacks : Site(s) = site})
SiteMetrics == Top([site \in {Site(s) : s \in Stacks} |-> SiteDelta(site)], FunctionRows)

\* cpu_metrics(): the samples added up by a key of their stack and route.
Samples(Chosen(_)) == SumFunctionOnSet(cpu, {x \in DOMAIN cpu : Chosen(x)})
CpuTotal == SumFunction(cpu)
Flat == [f \in Function |-> Samples(LAMBDA x : x[1][1] = f)]
Cumulative == [f \in Function |-> Samples(LAMBDA x : f \in ToSet(x[1]))]
AppTime == [f \in App \cup {Outside} |-> Samples(LAMBDA x : Owner(x[1]) = f)]
ClassTime ==
    [c \in {FunctionClass(f) : f \in Function} |-> Samples(LAMBDA x : FunctionClass(x[1][1]) = c)]
RouteTime == [r \in Routes |-> Samples(LAMBDA x : x[2] = r)]

-----------------------------------------------------------------------------
(* Properties                                                              *)

TrueDelta(site) == SumFunctionOnSet(happened, {s \in Stacks : Site(s) = site})

\* What a site is shown to have waited or allocated happened in the window:
\* all of it when the application ran through, and never more than it when
\* the application was restarted and counts from zero (site_metrics).
SitesInWindow ==
    at = "after" =>
        /\ \A site \in DOMAIN SiteMetrics :
            /\ SiteMetrics[site] <= TrueDelta(site)
            /\ restarts = 0 => SiteMetrics[site] = TrueDelta(site)
        /\ restarts = 0 /\ Cardinality(DOMAIN SiteMetrics) < FunctionRows =>
            \A s \in Stacks : happened[s] > 0 => Site(s) \in DOMAIN SiteMetrics

\* Every way to divide the CPU time adds up to all of it, whatever recursion
\* and inlining is in the stacks and in whatever order the tables of a
\* profile come; a function has at least the time of its own frames, and an
\* owner at least what is put to its account (cpu_metrics, decode).
CpuAddsUp ==
    at = "after" =>
        /\ \A by \in {Flat, AppTime, ClassTime, RouteTime} : SumFunction(by) = CpuTotal
        /\ \A f \in Function :
            /\ Flat[f] <= Cumulative[f] /\ Cumulative[f] <= CpuTotal
            /\ f \in App => Flat[f] <= AppTime[f] /\ AppTime[f] <= Cumulative[f]
        /\ \A stack \in Stacks, order \in SetToSeqs(Field) : Decoded(stack, order) = stack

\* The waits of a Go profile are those of the benchmark, across a restart of
\* the application too, and the CPU rows add up (go_profile.rs:267).
ProfileTrue == SitesInWindow /\ CpuAddsUp
=============================================================================
