------------------------------- MODULE QueryLog -------------------------------
(***************************************************************************)
(* What is made of the slow query log of MySQL and of slp's tables         *)
(* (parse_mysql_slow_reader, normalize_sql_digest, parse_slp_windows and   *)
(* parse_slp_tsv of src/src/collector.rs).  The collector brings back the  *)
(* part of the log between two offsets, which may begin and end anywhere   *)
(* in an entry.  A definition named X_Slip is a slip that the              *)
(* specification does not use.                                             *)
(*                                                                         *)
(* A statement is a sequence of lines, a line a sequence of words.  The    *)
(* columns of locks and rows are added up as the durations are.            *)
(***************************************************************************)
EXTENDS Naturals, Sequences, FiniteSets, FiniteSetsExt, SequencesExt, Functions

CONSTANTS
    Statement,   \* the statements
    Skipped,     \* lines that are no part of a statement: SET timestamp, use, a command
    Value,       \* words that are numbers or quoted
    Limit,       \* words of a digest (512 and 1024 bytes)
    Durations,   \* how long a statement may take
    Width,       \* of a bucket, 5 s
    Start, End,  \* the interval of the benchmark, both included
    LastTime,    \* bound: the clock
    None,
    MaxEntries   \* bound: entries

VARIABLES
    now,       \* the clock of the database
    entries,   \* what it executed: [at, ms, statement]
    from, to   \* the lines of the log that are brought back

vars == <<now, entries, from, to>>

\* The lines that the database writes of an entry.
Lines(i) ==
    LET e == entries[i] IN
    << [kind |-> "time", at |-> e.at, entry |-> i], [kind |-> "user", entry |-> i],
       [kind |-> "query_time", ms |-> e.ms, entry |-> i] >>
    \o [n \in DOMAIN e.statement |-> [kind |-> "text", words |-> e.statement[n], entry |-> i]]

Log == FlattenSeq([i \in DOMAIN entries |-> Lines(i)])

Init == now = 0 /\ entries = <<>> /\ from = 0 /\ to = None

Tick ==
    /\ to = None /\ now < LastTime /\ now' = now + 1
    /\ UNCHANGED <<entries, from, to>>

\* An entry has the time at which its statement was complete.
Execute(statement, ms) ==
    /\ to = None /\ Len(entries) < MaxEntries
    /\ entries' = Append(entries, [at |-> now, ms |-> ms, statement |-> statement])
    /\ UNCHANGED <<now, from, to>>

BringBack(first, last) ==
    /\ to = None /\ first <= last
    /\ from' = first /\ to' = last
    /\ UNCHANGED <<now, entries>>

Next ==
    \/ Tick
    \/ \E statement \in Statement, ms \in Durations : Execute(statement, ms)
    \/ \E first, last \in 1..Len(Log) : BringBack(first, last)

Spec == Init /\ [][Next]_vars

-----------------------------------------------------------------------------
(* The slow log                                                            *)

\* normalize_sql_digest()
NormalizeSqlDigest(words) ==
    LET normalized == [i \in DOMAIN words |-> IF words[i] \in Value THEN "?" ELSE words[i]]
    IN SubSeq(normalized, 1, Min({Limit, Len(normalized)}))

\* percentile_value(): the nearest rank, given in hundredths.
PercentileValue(sorted, quantile) == sorted[Max({1, (quantile * Len(sorted) + 99) \div 100})]

Digest(lines) == NormalizeSqlDigest(FlattenSeq(SelectSeq(lines, LAMBDA l : l \notin Skipped)))

Event == [at |-> None, ms |-> None, query |-> <<>>]

\* Slip: the lines of the statement are kept for the next event.
Flush_Slip(state) ==
    LET e == state.event
        kept == e.at # None /\ e.ms # None /\ Start <= e.at /\ e.at <= End /\ Digest(e.query) # <<>>
        call == [digest |-> Digest(e.query), at |-> e.at, ms |-> e.ms, bucket |-> (e.at \div Width) * Width]
    IN [event |-> [e EXCEPT !.at = None, !.ms = None],
        calls |-> IF kept THEN Append(state.calls, call) ELSE state.calls]

\* flush(): what is not complete, not in the interval or no statement is left out.
Flush(state) ==
    LET e == state.event
        kept == e.at # None /\ e.ms # None /\ Start <= e.at /\ e.at <= End /\ Digest(e.query) # <<>>
        call == [digest |-> Digest(e.query), at |-> e.at, ms |-> e.ms, bucket |-> (e.at \div Width) * Width]
    IN [event |-> Event,
        calls |-> IF kept THEN Append(state.calls, call) ELSE state.calls]

ReadLine(state, line) ==
    CASE line.kind = "time" -> [Flush(state) EXCEPT !.event.at = line.at]
      [] line.kind = "query_time" -> [state EXCEPT !.event.ms = line.ms]
      [] line.kind = "text" /\ state.event.ms # None ->
            [state EXCEPT !.event.query = Append(@, line.words)]
      [] OTHER -> state

Part == SubSeq(Log, from, to)
Calls == Flush(FoldLeft(ReadLine, [event |-> Event, calls |-> <<>>], Part)).calls

\* parse_mysql_slow_reader(): the metrics, of each digest and of each bucket.
OfDigest(calls, d) == SelectSeq(calls, LAMBDA c : c.digest = d)
Sorted(calls) == SortSeq([i \in DOMAIN calls |-> calls[i].ms], <)
TotalMs(calls) == FoldLeft(LAMBDA sum, c : sum + c.ms, 0, calls)
Bucket(calls, b) == SelectSeq(calls, LAMBDA c : c.bucket = b)

-----------------------------------------------------------------------------
(* slp                                                                     *)

\* A row is written as fields between tabs; a query may contain some.
Row(query, count, sum, p95) == <<"load", count>> \o query \o <<sum, p95>>
Number == {0, 1, 2}

\* A digest that was cut off is told apart by the hash of the whole.
Labels(query) ==
    [digest |-> SubSeq(query, 1, Min({Limit, Len(query)})),
     digest_id |-> IF Len(query) > Limit THEN query ELSE None]

\* parse_slp_windows(): window and count from the left, numbers from the right.
ParseSlpWindow(fields) ==
    LET n == Len(fields) IN
    IF n >= 5 /\ fields[2] \in Number /\ fields[n - 1] \in Number
    THEN [labels |-> Labels(SubSeq(fields, 3, n - 2)), count |-> fields[2],
          sum |-> fields[n - 1], p95 |-> fields[n]]
    ELSE None

\* parse_slp_tsv(): four fields from the left, the last with all that is left.
ParseSlpTsv(fields) ==
    IF Len(fields) = 4 /\ {fields[1], fields[3], fields[4]} \subseteq Number
    THEN [digest |-> <<fields[2]>>, count |-> fields[1], sum |-> fields[3], p95 |-> fields[4]]
    ELSE None

-----------------------------------------------------------------------------
(* Properties                                                              *)

\* The lines of the first entries.
Before(i) == MapThenSumSet(LAMBDA j : Len(Lines(j)), 1..i)
Whole(i) == from <= Before(i - 1) + 1 /\ Before(i) <= to
\* The start is there, and only the end of the statement is not.
Begun(i) == from <= Before(i - 1) + 1 /\ Before(i - 1) + 3 <= to /\ to < Before(i)
Counts(e) == Start <= e.at /\ e.at <= End /\ Digest(e.statement) # <<>>

\* Each statement that was executed in the interval and whose entry was
\* brought back whole is counted once, with its duration and under its own
\* digest, and nothing else is, save an entry of which the start was brought
\* back; the buckets of a digest add up to it, and its p95 is a duration
\* that at least 95 and no fewer than it needs are within (parse_mysql_slow_reader).
StatementsCounted ==
    to # None =>
        LET calls == Calls
            whole == {i \in DOMAIN entries : Whole(i) /\ Counts(entries[i])}
            cut == Cardinality({i \in DOMAIN entries : Begun(i)})
        IN \A d \in {calls[i].digest : i \in DOMAIN calls} \cup {Digest(entries[i].statement) : i \in whole} :
            LET mine == {i \in whole : Digest(entries[i].statement) = d}
                of == OfDigest(calls, d)
                p95 == PercentileValue(Sorted(of), 95)
            IN /\ Len(of) \in Cardinality(mine)..Cardinality(mine) + cut
               /\ cut = 0 => TotalMs(of) = MapThenSumSet(LAMBDA i : entries[i].ms, mine)
               /\ TotalMs(of) = MapThenSumSet(LAMBDA b : TotalMs(Bucket(of, b)),
                                              {b \in 0..LastTime : b % Width = 0})
               /\ of # <<>> =>
                    /\ 100 * Len(SelectSeq(of, LAMBDA c : c.ms <= p95)) >= 95 * Len(of)
                    /\ 100 * Len(SelectSeq(of, LAMBDA c : c.ms < p95)) < 95 * Len(of)

\* A row of slp keeps its numbers whatever its query contains, and queries
\* that differ are told apart even where they were cut off; the table
\* without windows is refused rather than misread (parse_slp_windows,
\* parse_slp_tsv).
RowsReadBack ==
    LET queries == {FlattenSeq(s) : s \in Statement} IN
    /\ \A query \in queries, count, sum, p95 \in Number :
        /\ ParseSlpWindow(Row(query, count, sum, p95)) =
                [labels |-> Labels(query), count |-> count, sum |-> sum, p95 |-> p95]
        /\ LET tsv == ParseSlpTsv(<<count>> \o query \o <<sum, p95>>)
           IN tsv # None => tsv = [digest |-> query, count |-> count, sum |-> sum, p95 |-> p95]
    /\ \A q, r \in queries : Labels(q) = Labels(r) => q = r
=============================================================================
