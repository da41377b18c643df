------------------------------ MODULE ChangeLog ------------------------------
(***************************************************************************)
(* The adoption decisions (src/src/changes.rs, `change` and `analyze       *)
(* --change`).  A change is a change.json and a directory of decisions,    *)
(* immutable files that are published by a hard link; the index is a copy  *)
(* that every command brings up to date when it opens the store and after  *)
(* it published, but for the records whose signature (names, sizes and     *)
(* times) is the one stored last.  Processes share the files and the       *)
(* index and may be killed anywhere.                                       *)
(*                                                                         *)
(* A decision is numbered by its time, which is that of its UUIDv7, and    *)
(* `what` stands for status, reason, revisit and evidence.  A definition   *)
(* named Action_Slip is a slip that the specification does not use.        *)
(***************************************************************************)
EXTENDS Naturals

CONSTANTS
    Writer,       \* the processes
    Change,       \* change IDs
    What,         \* contents of a decision
    MaxOrders,    \* bound: commands issued in a behaviour
    MaxFaults     \* bound: times a process is killed or the index cannot be written

\* "create" is `create_change`, "record" is `analyze --change --decision`.
Order == {"create", "decide", "record", "list"}

VARIABLES
    files,      \* the records: [change, at, what]; a change.json has at = 0
    rows,       \* the records in the index
    signature,  \* meta.changes_signature: the records of the last full restore
    clock,      \* decisions stamped so far
    at,         \* what each process does next
    job,        \* its command
    orders, faults  \* counts

vars == <<files, rows, signature, clock, at, job, orders, faults>>

NoSignature == {[change |-> "none", at |-> 0, what |-> "none"]}
ChangeJson(c) == [change |-> c, at |-> 0, what |-> "change"]
Exists(c) == ChangeJson(c) \in files
Decisions(c, S) == {d \in S : d.change = c /\ d.at > 0}
Latest(c, S) == CHOOSE d \in Decisions(c, S) : \A e \in Decisions(c, S) : e.at <= d.at

NoJob == [order |-> "none"]

Init ==
    /\ files = {} /\ rows = {} /\ signature = NoSignature
    /\ clock = 0
    /\ at = [p \in Writer |-> "idle"] /\ job = [p \in Writer |-> NoJob]
    /\ orders = 0 /\ faults = 0

Goto(p, step) == at' = [at EXCEPT ![p] = step]
Set(p, field, value) == job' = [job EXCEPT ![p][field] = value]
counts == <<orders, faults>>

\* job.then: where to go on when the index is up to date.
Issue(p, order, c, w) ==
    /\ at[p] = "idle" /\ orders < MaxOrders
    /\ orders' = orders + 1
    /\ job' = [job EXCEPT ![p] = [order |-> order, change |-> c, what |-> w, prepared |-> FALSE,
                 then |-> "opened", seen |-> {}, todo |-> {}, read |-> {}]]
    /\ Goto(p, "sign")
    /\ UNCHANGED <<files, rows, signature, clock, faults>>

-----------------------------------------------------------------------------
(* restore_changes()                                                       *)

\* records_signature(): taken before anything is read.  Before the first
\* record there is no directory and nothing to do.
Sign(p) ==
    /\ at[p] = "sign"
    /\ Set(p, "seen", files)
    /\ Goto(p, IF files = {} THEN job[p].then ELSE "compare")
    /\ UNCHANGED <<files, rows, signature, clock, counts>>

Changes(S) == {d.change : d \in S}

\* Slip: only the change.json files are compared.
Compare_Slip(p) ==
    /\ at[p] = "compare"
    /\ IF Changes(signature) = Changes(job[p].seen)
       THEN Goto(p, job[p].then) /\ UNCHANGED job
       ELSE Goto(p, "restore") /\ Set(p, "todo", Changes(files))
    /\ UNCHANGED <<files, rows, signature, clock, counts>>

Compare(p) ==
    /\ at[p] = "compare"
    /\ IF signature = job[p].seen
       THEN Goto(p, job[p].then) /\ UNCHANGED job
       ELSE Goto(p, "restore") /\ Set(p, "todo", Changes(files))
    /\ UNCHANGED <<files, rows, signature, clock, counts>>

\* read_history() of one change.
ReadRecords(p, c) ==
    /\ at[p] = "restore" /\ c \in job[p].todo /\ job[p].read = {}
    /\ Set(p, "read", {d \in files : d.change = c})
    /\ UNCHANGED <<files, rows, signature, clock, at, counts>>

\* INSERT OR IGNORE of its records, in one transaction.
InsertRows(p) ==
    /\ at[p] = "restore" /\ job[p].read # {}
    /\ rows' = rows \cup job[p].read
    /\ job' = [job EXCEPT ![p].read = {}, ![p].todo = @ \ Changes(job[p].read)]
    /\ UNCHANGED <<files, signature, clock, at, counts>>

\* Slip: the signature is taken when it is stored.
StoreSignature_Slip(p) ==
    /\ at[p] = "restore" /\ job[p].todo = {}
    /\ signature' = files
    /\ Goto(p, job[p].then)
    /\ UNCHANGED <<files, rows, clock, job, counts>>

StoreSignature(p) ==
    /\ at[p] = "restore" /\ job[p].todo = {}
    /\ signature' = job[p].seen
    /\ Goto(p, job[p].then)
    /\ UNCHANGED <<files, rows, clock, job, counts>>

\* The database is busy or full: opening fails, and after a publication it is a warning.
RestoreFails(p) ==
    /\ at[p] \in {"compare", "restore"} /\ faults < MaxFaults
    /\ faults' = faults + 1
    /\ Goto(p, IF job[p].then = "opened" THEN "refused" ELSE job[p].then)
    /\ UNCHANGED <<files, rows, signature, clock, job, orders>>

-----------------------------------------------------------------------------
(* The commands, once the store is open                                    *)

Begin(p, order, step) == at[p] = "opened" /\ job[p].order = order /\ Goto(p, step)

StartCreate(p) ==
    /\ Begin(p, "create", "create") /\ UNCHANGED <<files, rows, signature, clock, job, counts>>
StartDecide(p) ==
    /\ Begin(p, "decide", "decide") /\ UNCHANGED <<files, rows, signature, clock, job, counts>>

\* prepare_change_decision(): a change that is not there will be created.
\* Behind it the analysis is written into the run (RunStore has that).
Prepare(p) ==
    /\ Begin(p, "record", IF Exists(job[p].change) THEN "decide" ELSE "create")
    /\ Set(p, "prepared", TRUE)
    /\ UNCHANGED <<files, rows, signature, clock, counts>>

\* Slip: the error of create_change is passed on.
CreateChange_Slip(p) ==
    /\ at[p] = "create"
    /\ IF Exists(job[p].change)
       THEN Goto(p, "refused") /\ UNCHANGED <<files, job>>
       ELSE /\ files' = files \cup {ChangeJson(job[p].change)}
            /\ Set(p, "then", IF job[p].order = "record" THEN "decide" ELSE "done")
            /\ Goto(p, "sign")
    /\ UNCHANGED <<rows, signature, clock, counts>>

\* create_change(): the hard link fails if the name is taken, which only
\* matters to somebody who did not ask for a decision.
CreateChange(p) ==
    /\ at[p] = "create"
    /\ IF Exists(job[p].change)
       THEN /\ Goto(p, IF job[p].order = "record" THEN "decide" ELSE "refused")
            /\ UNCHANGED <<files, job>>
       ELSE /\ files' = files \cup {ChangeJson(job[p].change)}
            /\ Set(p, "then", IF job[p].order = "record" THEN "decide" ELSE "done")
            /\ Goto(p, "sign")
    /\ UNCHANGED <<rows, signature, clock, counts>>

\* decide_change(): the history, and whether it has this very decision.
ReadHistory(p) ==
    /\ at[p] = "decide"
    /\ Goto(p, IF ~Exists(job[p].change) THEN "refused"
               ELSE IF \E d \in Decisions(job[p].change, files) : d.what = job[p].what
                    THEN "done" ELSE "publish")
    /\ UNCHANGED <<files, rows, signature, clock, job, counts>>

\* The time, the ID and the file; then the index follows.
PublishDecision(p) ==
    /\ at[p] = "publish"
    /\ clock' = clock + 1
    /\ job' = [job EXCEPT ![p].then = "done", ![p].read = {}, ![p].todo = {},
                          ![p].seen = {[change |-> job[p].change, at |-> clock + 1,
                                        what |-> job[p].what]}]
    /\ Goto(p, "link")
    /\ UNCHANGED <<files, rows, signature, counts>>

LinkDecision(p) ==
    /\ at[p] = "link"
    /\ files' = files \cup job[p].seen
    /\ Goto(p, "sign")
    /\ UNCHANGED <<rows, signature, clock, job, counts>>

\* list_changes(): the index chooses the changes, the files say what they are.
List(p) ==
    /\ Begin(p, "list", "done")
    /\ UNCHANGED <<files, rows, signature, clock, job, counts>>

Finish(p) ==
    /\ at[p] \in {"done", "refused"}
    /\ Goto(p, "idle") /\ job' = [job EXCEPT ![p] = NoJob]
    /\ UNCHANGED <<files, rows, signature, clock, counts>>

Die(p) ==
    /\ at[p] # "idle" /\ faults < MaxFaults
    /\ faults' = faults + 1
    /\ Goto(p, "idle") /\ job' = [job EXCEPT ![p] = NoJob]
    /\ UNCHANGED <<files, rows, signature, clock, orders>>

Step(p) ==
    \/ Sign(p) \/ Compare(p) \/ InsertRows(p) \/ StoreSignature(p) \/ RestoreFails(p)
    \/ \E c \in Change : ReadRecords(p, c)
    \/ StartCreate(p) \/ StartDecide(p) \/ Prepare(p) \/ CreateChange(p) \/ ReadHistory(p)
    \/ PublishDecision(p) \/ LinkDecision(p) \/ List(p) \/ Finish(p)

Next == \E p \in Writer :
            Step(p) \/ Die(p)
            \/ \E order \in Order, c \in Change, w \in What : Issue(p, order, c, w)

Spec == Init /\ [][Next]_vars

-----------------------------------------------------------------------------
(* Properties                                                              *)

TypeOK ==
    /\ files \subseteq [change : Change, at : Nat, what : What \cup {"change"}]
    /\ rows \subseteq files
    /\ at \in [Writer -> {"idle", "sign", "compare", "restore", "opened", "create", "decide",
                          "publish", "link", "done", "refused"}]

\* Whoever compares the stored signature may rely on it: every record that
\* it names is in the index, also when the records were published by others
\* while it was taken, read and stored (restore_changes).
IndexCovers == signature # NoSignature => signature \subseteq rows

\* `change list` filters by the index.  When no record came since its store
\* was opened, the index knows the current decision of every change, whoever
\* was killed between a publication and its index, or could not write it.
ListedByRecords ==
    \A p \in Writer :
        at[p] = "opened" /\ job[p].order = "list" /\ job[p].seen = files
        => \A c \in Change : /\ ChangeJson(c) \in files => ChangeJson(c) \in rows
                             /\ Decisions(c, files) # {} =>
                                  /\ Decisions(c, rows) # {}
                                  /\ Latest(c, rows) = Latest(c, files)

\* `analyze --change` writes its analysis after prepare_change_decision said
\* that the decision can be recorded.  It is not refused afterwards, even if
\* another process creates the change meanwhile (record_change_decision).
PreparedIsRecorded ==
    \A p \in Writer : at[p] = "refused" /\ job[p].order = "record" => ~job[p].prepared

\* The index of the changes lists what the record files say, whichever process
\* wrote or was killed last, and a decision that was announced is recorded
\* (changes.rs:727, :775).
ChangesListed == IndexCovers /\ ListedByRecords /\ PreparedIsRecorded
=============================================================================
