------------------------------ MODULE HostSeries ------------------------------
(***************************************************************************)
(* What sar and the sampler of the services' control groups write while a  *)
(* benchmark runs, and the series that are made of it (parse_sysstat and   *)
(* parse_service_cgroup of src/src/collector.rs).  sar prints the date     *)
(* once and only the time of day in its rows; the clock of the host may be *)
(* set back a little.  A service that restarts counts from zero.           *)
(*                                                                         *)
(* A row carries in "true", "used" and "born" what the parsers do not see. *)
(* A definition named X_Slip is a slip that the specification does not     *)
(* use.                                                                    *)
(***************************************************************************)
EXTENDS Integers, Sequences, FiniteSets, FiniteSetsExt, SequencesExt, Functions

CONSTANTS
    Service,    \* the services that are sampled
    Cpu,        \* what a CPU row of sar shows: [idle, iowait], of Full
    Full,       \* 100 percent
    Day, Noon,  \* the length of a day, and of half of it
    SarStart,   \* when sar is started
    BenchStart, BenchEnd,   \* the interval of the benchmark, both included
    Absent,     \* Option::None
    MaxUse,     \* bound: what a service uses
    MaxRows     \* bound: rows

\* A row of the CPU shows shares of 100 percent; a clock is never set by half a day.
ASSUME HostAssumption ==
    /\ Noon \in Nat \ {0} /\ Day \in Nat /\ 2 * Noon <= Day
    /\ SarStart \in Nat /\ BenchStart \in Nat /\ BenchEnd \in Nat
    /\ Full \in Nat \ {0} /\ \A value \in Cpu : value.idle \in 0..Full /\ value.iowait \in Int
    /\ Absent \notin Int

VARIABLES
    source,   \* "sar" or "cgroup": what the behaviour is about, as neither
              \* depends on the other
    now,      \* the clock of the host
    back,     \* whether it has been set back
    sar,      \* the rows of sar
    counter,  \* what each service has used, by its control group
    used,     \* what each service really used
    born,     \* how often each service was started
    cgroup    \* the rows of the sampler

hostVars == <<source, now, back, sar, counter, used, born, cgroup>>

HostInit ==
    /\ source \in {"sar", "cgroup"}
    /\ now = SarStart /\ back = FALSE
    /\ sar = <<>> /\ cgroup = <<>>
    /\ counter = [s \in Service |-> 0] /\ used = counter /\ born = counter

Room == Len(sar) + Len(cgroup) < MaxRows

Wait(d) ==
    /\ now + d <= BenchEnd + 1
    /\ now' = now + d
    /\ UNCHANGED <<source, back, sar, counter, used, born, cgroup>>

\* Not over midnight: see README.md.
SetBack ==
    /\ ~back /\ now > SarStart /\ (now - 1) \div Day = now \div Day
    /\ back' = TRUE /\ now' = now - 1
    /\ UNCHANGED <<source, sar, counter, used, born, cgroup>>

\* Rows are less than half a day apart; the averages come last.
SarRow(kind, value) ==
    /\ source = "sar" /\ Room
    /\ sar # <<>> => Last(sar).kind # "average" /\ now - Last(sar).true < Noon
    /\ sar' = Append(sar, [kind |-> kind, time |-> now % Day, value |-> value, true |-> now])
    /\ UNCHANGED <<source, now, back, counter, used, born, cgroup>>

Use(s) ==
    /\ source = "cgroup" /\ used[s] < MaxUse
    /\ counter' = [counter EXCEPT ![s] = @ + 1]
    /\ used' = [used EXCEPT ![s] = @ + 1]
    /\ UNCHANGED <<source, now, back, sar, born, cgroup>>

RestartService(s) ==
    /\ source = "cgroup" /\ born[s] = 0
    /\ counter' = [counter EXCEPT ![s] = 0]
    /\ born' = [born EXCEPT ![s] = 1]
    /\ UNCHANGED <<source, now, back, sar, used, cgroup>>

ServiceRow(s) ==
    /\ source = "cgroup" /\ Room
    /\ cgroup' = Append(cgroup, [at |-> now, service |-> s, cpu |-> counter[s],
                                 used |-> used[s], born |-> born[s]])
    /\ UNCHANGED <<source, now, back, sar, counter, used, born>>

HostNext ==
    \/ \E d \in 1..2 : Wait(d)
    \/ SetBack
    \/ \E value \in Cpu : SarRow("cpu", value)
    \/ \E value \in 0..1 : SarRow("disk", value)
    \/ SarRow("average", Absent)
    \/ \E s \in Service : Use(s) \/ RestartService(s) \/ ServiceRow(s)

HostSpec == HostInit /\ [][HostNext]_hostVars

-----------------------------------------------------------------------------
(* The parsers                                                             *)

WithinInterval(at) == BenchStart <= at /\ at <= BenchEnd

\* Slip: any time before the last one is of the next day.
Clock_Slip(clock, time) ==
    LET at == clock.date * Day + time
        passed == clock.last # Absent /\ at < clock.last
    IN IF passed THEN [date |-> clock.date + 1, last |-> at + Day]
       ELSE [clock EXCEPT !.last = at]

\* SysstatClock::timestamp(): "last" is the time of the row.
Clock(clock, time) ==
    LET at == clock.date * Day + time
        passed == clock.last # Absent /\ at + Noon < clock.last
    IN IF passed THEN [date |-> clock.date + 1, last |-> at + Day]
       ELSE [clock EXCEPT !.last = at]

Clamp(n) == Max({0, Min({Full, n})})
Busy(value) == Clamp(Full - value.idle - value.iowait)

\* record_metric() of the metrics of a row; an average has none, as it has
\* no time.
Recorded(row, at) ==
    CASE row.kind = "cpu" -> {[name |-> "idle", value |-> row.value.idle, at |-> at],
                              [name |-> "busy", value |-> Busy(row.value), at |-> at]}
      [] row.kind = "disk" -> {[name |-> "util", value |-> row.value, at |-> at]}

\* One row: averages are passed over.
ReadRow(acc, i) ==
    IF sar[i].kind = "average" THEN acc
    ELSE LET clock == Clock(acc.clock, sar[i].time) IN
         [clock |-> clock,
          points |-> IF WithinInterval(clock.last)
                     THEN acc.points \cup {<<i, p>> : p \in Recorded(sar[i], clock.last)}
                     ELSE acc.points]

\* parse_sysstat(): the points of the row with that number, if any.
Sysstat == FoldLeftDomain(ReadRow, [clock |-> [date |-> SarStart \div Day, last |-> Absent],
                                    points |-> {}], sar)

\* append_metric_summaries(): the sum and the number of a metric's values.
Summary(points, name) ==
    LET of == {x \in points : x[2].name = name}
    IN <<SumFunctionOnSet([x \in of |-> x[2].value], of), Cardinality(of)>>

\* The row of the same service before the given one.
Prior(i) ==
    LET before == {j \in 1..i - 1 : cgroup[j].service = cgroup[i].service}
    IN IF before = {} THEN Absent ELSE Max(before)

\* parse_service_cgroup(): the rates, as a growth and a time.
ServiceRates ==
    {<<i, cgroup[i].cpu - cgroup[Prior(i)].cpu, cgroup[i].at - cgroup[Prior(i)].at>> :
        i \in {i \in DOMAIN cgroup :
            /\ WithinInterval(cgroup[i].at)
            /\ Prior(i) # Absent
            /\ cgroup[i].at > cgroup[Prior(i)].at
            /\ cgroup[i].cpu >= cgroup[Prior(i)].cpu}}

-----------------------------------------------------------------------------
(* Properties                                                              *)

Timed == {i \in DOMAIN sar : sar[i].kind # "average"}
FirstDay == \A i \in Timed : (\A j \in 1..i - 1 : j \notin Timed) => sar[i].true \div Day = SarStart \div Day

\* Every row of sar that was written in the interval is in the series at the
\* time at which it was written, and no other, on whichever side of midnight
\* and with the clock set back, given that the first row is of the day that
\* sar printed; averages are over these rows (parse_sysstat, SysstatClock).
RowsOnTime ==
    FirstDay =>
        LET points == Sysstat.points
            true == UNION {{<<i, p>> : p \in Recorded(sar[i], sar[i].true)} :
                              i \in {i \in Timed : WithinInterval(sar[i].true)}}
        IN /\ points = true
           /\ \A name \in {"idle", "busy", "util"} :
                Summary(points, name)[1] <= Full * Summary(points, name)[2]

\* A rate of a service is of what this service used since its last row, all
\* of it if it was not restarted, and never more (parse_service_cgroup).
RatesTrue ==
    \A rate \in ServiceRates :
        LET row == cgroup[rate[1]]
            earlier == {j \in 1..rate[1] - 1 : cgroup[j].service = row.service}
            last == cgroup[Max(earlier)]
        IN /\ rate[3] = row.at - last.at
           /\ rate[2] <= row.used - last.used
           /\ row.born = last.born => rate[2] = row.used - last.used

\* The rows of sar and of the control groups have the time and the use that
\* they measured, across midnight and restarts (collector.rs:2182).
HostRowsTrue == RowsOnTime /\ RatesTrue
=============================================================================
