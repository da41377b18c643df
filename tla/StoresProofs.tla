----------------------------- MODULE StoresProofs -----------------------------
(***************************************************************************)
(* Proofs about the modules that MCStores puts together: ChangeLog,        *)
(* StateCache and Capture, in this order.                                  *)
(*                                                                         *)
(* ChangeLog: the index may be relied on, the list is that of the records, *)
(* and a decision that was prepared is recorded, for any number of         *)
(* processes, changes and faults.                                          *)
(*                                                                         *)
(* StateCache: what a query of the state logs of a run answers, from       *)
(* whichever cache, is what those logs said (StateAnswers), and the caches *)
(* are whole, in order and bounded, for any runs, logs, events, queries,   *)
(* failures and kills.  DataInv says of every database, copy, collector    *)
(* and query that its rows are those of its stamps or of newer logs;       *)
(* Bounds and RecentOK count the copies.  StateAnswers follows from        *)
(* DataInv at the step that answers.                                       *)
(*                                                                         *)
(* Capture: ExchangesRecorded, for any connections, payloads, chunks and   *)
(* trailers.  First the parser: the chunks of a payload lie one behind the *)
(* other in its encoding, a beginning of the encoding is complete only if  *)
(* it is all of it, and what is decoded is the payload.  Then the threads, *)
(* with an invariant of each connection and one of the evidence.           *)
(***************************************************************************)
EXTENDS ChangeLog, StateCache, Capture, FoldLemmas, FiniteSetTheorems, WellFoundedInduction, TLAPS

-----------------------------------------------------------------------------
(* ChangeLog: the invariant                                                *)

Filed == [change : Change, at : Nat, what : What \cup {"change"}]
Place == {"idle", "sign", "compare", "restore", "opened", "create", "decide", "publish", "link",
         "done", "refused"}
Job == [order : Order, change : Change, what : What, prepared : BOOLEAN,
        then : {"opened", "decide", "done"}, seen : SUBSET Filed, todo : SUBSET Change,
        read : SUBSET Filed]

Typed ==
    /\ files \in SUBSET Filed /\ clock \in Nat
    /\ at \in [Writer -> Place]
    /\ job \in [Writer -> Job \cup {NoJob}]
    /\ \A p \in Writer : at[p] # "idle" => job[p] \in Job

\* Only a change.json has the time 0, so no set of records is NoSignature; the
\* index has nothing but records, and those of the signature.
Stored ==
    /\ \A d \in files : d.at = 0 => d.what = "change"
    /\ rows \subseteq files
    /\ IndexCovers

\* A restore reads a change whole, if it is still to do.
ReadWhole(p) ==
    /\ at[p] # "idle" => job[p].read \subseteq files
    /\ at[p] \in {"sign", "compare", "opened", "create", "link"} => job[p].read = {}
    /\ at[p] \in {"compare", "restore"} => job[p].seen \subseteq files
    /\ at[p] = "link" => \A d \in job[p].seen : d.at # 0
    /\ at[p] = "restore" =>
        /\ Changes(job[p].read) \subseteq job[p].todo
        /\ \A d \in job[p].seen : d.change \in Changes(job[p].read) => d \in job[p].read

\* A record that was signed is in the index, or its change is still to do.
SeenCovered(p) ==
    /\ at[p] = "restore" => \A d \in job[p].seen : d \in rows \/ d.change \in job[p].todo
    /\ at[p] = "opened" => job[p].seen \subseteq rows

\* A decision that was announced finds its change.
PreparedGoesOn(p) ==
    at[p] # "idle" /\ job[p].order = "record" /\ job[p].prepared =>
        /\ at[p] # "refused"
        /\ at[p] \in {"sign", "compare", "restore"} =>
            job[p].then # "opened" /\ (job[p].then = "decide" => Exists(job[p].change))
        /\ at[p] = "decide" => Exists(job[p].change)
        /\ at[p] = "link" => job[p].then = "done"

Process(p) == ReadWhole(p) /\ SeenCovered(p) /\ PreparedGoesOn(p)

Inv == Typed /\ Stored /\ \A p \in Writer : Process(p)

-----------------------------------------------------------------------------
(* Steps keep the invariant                                                *)

LEMMA ChangesStart == Init => Inv
BY DEF Init, Inv, Typed, Stored, Process, ReadWhole, IndexCovers, SeenCovered, PreparedGoesOn, Place

\* Files and rows are only added, so a step of one process leaves the others alone.
LEMMA OthersKeep ==
  ASSUME Inv, NEW p \in Writer, Typed', Stored', Process(p)',
         files \subseteq files', rows \subseteq rows',
         \A q \in Writer \ {p} : at'[q] = at[q] /\ job'[q] = job[q]
  PROVE  Inv'
<1>1. ASSUME NEW q \in Writer, q # p PROVE Process(q)'
  <2>1. at'[q] = at[q] /\ job'[q] = job[q] /\ Process(q)
    BY <1>1 DEF Inv
  <2>2. ReadWhole(q)'
    BY <2>1 DEF Process, ReadWhole, Changes
  <2>3. SeenCovered(q)'
    BY <2>1 DEF Process, SeenCovered
  <2>4. PreparedGoesOn(q)'
    BY <2>1 DEF Process, PreparedGoesOn, Exists
  <2>. QED  BY <2>2, <2>3, <2>4 DEF Process
<1>. QED  BY <1>1 DEF Inv

LEMMA SignKeeps ==
  ASSUME Inv, NEW p \in Writer, Sign(p)
  PROVE  Inv'
<1>1. Typed'
  BY DEF Inv, Typed, Job, Filed, Place, Goto, Set, counts, Sign
<1>2. Stored'
  BY DEF Inv, Typed, Goto, Set, counts, Sign, Stored, IndexCovers
<1>3. ReadWhole(p)'
  BY DEF Inv, Typed, Job, Filed, Place, Goto, Set, counts, Sign, Process, ReadWhole, Changes
<1>4. SeenCovered(p)'
  BY DEF Inv, Typed, Job, Filed, Place, Goto, Set, counts, Sign, Process, SeenCovered
<1>5. PreparedGoesOn(p)'
  BY DEF Inv, Typed, Job, Filed, Place, Goto, Set, counts, Sign, Process, PreparedGoesOn, Exists
<1>. QED
    BY <1>1, <1>2, <1>3, <1>4, <1>5, OthersKeep DEF Inv, Typed, Goto, Set, counts, Sign, Process,
     Stored

LEMMA CompareKeeps ==
  ASSUME Inv, NEW p \in Writer, Compare(p)
  PROVE  Inv'
<1>a. Changes(files) \in SUBSET Change
  BY DEF Inv, Typed, Changes, Filed
<1>b. job[p].seen = signature => job[p].seen \subseteq rows
  <2>1. job[p].seen \subseteq files
    BY DEF Inv, Process, ReadWhole, Compare
  <2>2. ASSUME job[p].seen = NoSignature PROVE FALSE
    BY <2>1, <2>2 DEF Inv, Stored, NoSignature
  <2>. QED  BY <2>2 DEF Inv, Stored, IndexCovers
<1>c. \A d \in job[p].seen : d.change \in Changes(files)
  BY DEF Inv, Process, ReadWhole, Compare, Changes
<1>1. Typed'
  BY <1>a DEF Inv, Typed, Job, Filed, Place, Goto, Set, counts, Compare
<1>2. Stored'
  BY DEF Inv, Typed, Goto, Set, counts, Compare, Stored, IndexCovers
<1>3. ReadWhole(p)'
    BY <1>a DEF Inv, Typed, Job, Filed, Place, Goto, Set, counts, Compare, Process, ReadWhole,
     Changes
<1>4. SeenCovered(p)'
  BY <1>b, <1>c DEF Inv, Typed, Job, Filed, Place, Goto, Set, counts, Compare, Process, SeenCovered
<1>5. PreparedGoesOn(p)'
  BY DEF Inv, Typed, Job, Filed, Place, Goto, Set, counts, Compare, Process, PreparedGoesOn, Exists
<1>. QED
    BY <1>1, <1>2, <1>3, <1>4, <1>5, OthersKeep DEF Inv, Typed, Goto, Set, counts, Compare,
     Process, Stored

LEMMA ReadAllKeeps ==
  ASSUME Inv, NEW p \in Writer, NEW c \in Change, ReadRecords(p, c)
  PROVE  Inv'
<1>1. Typed'
  BY DEF Inv, Typed, Job, Filed, Place, Goto, Set, counts, ReadRecords
<1>2. Stored'
  BY DEF Inv, Typed, Goto, Set, counts, ReadRecords, Stored, IndexCovers
<1>3. ReadWhole(p)'
  BY DEF Inv, Typed, Job, Filed, Place, Goto, Set, counts, ReadRecords, Process, ReadWhole, Changes
<1>4. SeenCovered(p)'
  BY DEF Inv, Typed, Job, Filed, Place, Goto, Set, counts, ReadRecords, Process, SeenCovered
<1>5. PreparedGoesOn(p)'
    BY DEF Inv, Typed, Job, Filed, Place, Goto, Set, counts, ReadRecords, Process,
     PreparedGoesOn, Exists
<1>. QED
    BY <1>1, <1>2, <1>3, <1>4, <1>5, OthersKeep DEF Inv, Typed, Goto, Set, counts, ReadRecords,
     Process, Stored

LEMMA InsertKeeps ==
  ASSUME Inv, NEW p \in Writer, InsertRows(p)
  PROVE  Inv'
<1>a. at[p] # "idle" /\ job[p].read \subseteq files /\ job[p] \in Job
  BY DEF Inv, Process, ReadWhole, InsertRows, Typed
<1>b. [job[p] EXCEPT !.read = {}, !.todo = @ \ Changes(job[p].read)] \in Job
  BY <1>a DEF Job
<1>1. Typed'
  BY <1>a, <1>b DEF Inv, Typed, Job, Filed, Place, Goto, Set, counts, InsertRows
<1>2. Stored'
  BY <1>a DEF Inv, Typed, Goto, Set, counts, InsertRows, Stored, IndexCovers
<1>3. ReadWhole(p)'
  BY DEF Inv, Typed, Job, Filed, Place, Goto, Set, counts, InsertRows, Process, ReadWhole, Changes
<1>4. SeenCovered(p)'
  BY DEF Inv, Typed, Job, Filed, Place, Goto, Set, counts, InsertRows, Process, SeenCovered
<1>5. PreparedGoesOn(p)'
    BY DEF Inv, Typed, Job, Filed, Place, Goto, Set, counts, InsertRows, Process, PreparedGoesOn,
     Exists
<1>. QED
    BY <1>1, <1>2, <1>3, <1>4, <1>5, OthersKeep DEF Inv, Typed, Goto, Set, counts, InsertRows,
     Process, Stored

LEMMA StoreKeeps ==
  ASSUME Inv, NEW p \in Writer, StoreSignature(p)
  PROVE  Inv'
<1>a. job[p].read = {}
  BY DEF Inv, Process, ReadWhole, StoreSignature, Changes
<1>b. job[p].seen \subseteq rows
  BY DEF Inv, Process, SeenCovered, StoreSignature, Typed, Job
<1>1. Typed'
  BY DEF Inv, Typed, Job, Filed, Place, Goto, Set, counts, StoreSignature
<1>2. Stored'
  BY <1>b DEF Inv, Typed, Goto, Set, counts, StoreSignature, Stored, IndexCovers
<1>3. ReadWhole(p)'
    BY <1>a DEF Inv, Typed, Job, Filed, Place, Goto, Set, counts, StoreSignature, Process,
     ReadWhole, Changes
<1>4. SeenCovered(p)'
    BY <1>b DEF Inv, Typed, Job, Filed, Place, Goto, Set, counts, StoreSignature, Process,
     SeenCovered
<1>5. PreparedGoesOn(p)'
    BY DEF Inv, Typed, Job, Filed, Place, Goto, Set, counts, StoreSignature, Process,
     PreparedGoesOn, Exists
<1>. QED
    BY <1>1, <1>2, <1>3, <1>4, <1>5, OthersKeep DEF Inv, Typed, Goto, Set, counts, StoreSignature,
     Process, Stored

LEMMA FailKeeps ==
  ASSUME Inv, NEW p \in Writer, RestoreFails(p)
  PROVE  Inv'
<1>1. Typed'
  BY DEF Inv, Typed, Job, Filed, Place, Goto, Set, counts, RestoreFails
<1>2. Stored'
  BY DEF Inv, Typed, Goto, Set, counts, RestoreFails, Stored, IndexCovers
<1>3. ReadWhole(p)'
    BY DEF Inv, Typed, Job, Filed, Place, Goto, Set, counts, RestoreFails, Process, ReadWhole,
     Changes
<1>4. SeenCovered(p)'
  BY DEF Inv, Typed, Job, Filed, Place, Goto, Set, counts, RestoreFails, Process, SeenCovered
<1>5. PreparedGoesOn(p)'
    BY DEF Inv, Typed, Job, Filed, Place, Goto, Set, counts, RestoreFails, Process,
     PreparedGoesOn, Exists
<1>. QED
    BY <1>1, <1>2, <1>3, <1>4, <1>5, OthersKeep DEF Inv, Typed, Goto, Set, counts, RestoreFails,
     Process, Stored

LEMMA StartCreateKeeps ==
  ASSUME Inv, NEW p \in Writer, StartCreate(p)
  PROVE  Inv'
<1>1. Typed'
  BY DEF Inv, Typed, Job, Filed, Place, Goto, Set, counts, StartCreate, Begin
<1>2. Stored'
  BY DEF Inv, Typed, Goto, Set, counts, StartCreate, Stored, IndexCovers, Begin
<1>3. ReadWhole(p)'
    BY DEF Inv, Typed, Job, Filed, Place, Goto, Set, counts, StartCreate, Process, ReadWhole,
     Changes, Begin
<1>4. SeenCovered(p)'
  BY DEF Inv, Typed, Job, Filed, Place, Goto, Set, counts, StartCreate, Process, SeenCovered, Begin
<1>5. PreparedGoesOn(p)'
    BY DEF Inv, Typed, Job, Filed, Place, Goto, Set, counts, StartCreate, Process,
     PreparedGoesOn, Exists, Begin
<1>. QED
    BY <1>1, <1>2, <1>3, <1>4, <1>5, OthersKeep DEF Inv, Typed, Goto, Set, counts, StartCreate,
     Process, Stored, Begin

LEMMA StartDecideKeeps ==
  ASSUME Inv, NEW p \in Writer, StartDecide(p)
  PROVE  Inv'
<1>1. Typed'
  BY DEF Inv, Typed, Job, Filed, Place, Goto, Set, counts, StartDecide, Begin
<1>2. Stored'
  BY DEF Inv, Typed, Goto, Set, counts, StartDecide, Stored, IndexCovers, Begin
<1>3. ReadWhole(p)'
    BY DEF Inv, Typed, Job, Filed, Place, Goto, Set, counts, StartDecide, Process, ReadWhole,
     Changes, Begin
<1>4. SeenCovered(p)'
  BY DEF Inv, Typed, Job, Filed, Place, Goto, Set, counts, StartDecide, Process, SeenCovered, Begin
<1>5. PreparedGoesOn(p)'
    BY DEF Inv, Typed, Job, Filed, Place, Goto, Set, counts, StartDecide, Process,
     PreparedGoesOn, Exists, Begin
<1>. QED
    BY <1>1, <1>2, <1>3, <1>4, <1>5, OthersKeep DEF Inv, Typed, Goto, Set, counts, StartDecide,
     Process, Stored, Begin

LEMMA PrepareKeeps ==
  ASSUME Inv, NEW p \in Writer, Prepare(p)
  PROVE  Inv'
<1>a. job[p] \in Job
  BY DEF Inv, Typed, Prepare, Begin
<1>1. Typed'
  BY <1>a DEF Inv, Typed, Job, Filed, Place, Goto, Set, counts, Prepare, Begin
<1>2. Stored'
  BY DEF Inv, Typed, Goto, Set, counts, Prepare, Stored, IndexCovers, Begin
<1>3. ReadWhole(p)'
    BY DEF Inv, Typed, Job, Filed, Place, Goto, Set, counts, Prepare, Process, ReadWhole,
     Changes, Begin
<1>4. SeenCovered(p)'
  BY DEF Inv, Typed, Job, Filed, Place, Goto, Set, counts, Prepare, Process, SeenCovered, Begin
<1>5. PreparedGoesOn(p)'
    BY DEF Inv, Typed, Job, Filed, Place, Goto, Set, counts, Prepare, Process, PreparedGoesOn,
     Exists, Begin
<1>. QED
    BY <1>1, <1>2, <1>3, <1>4, <1>5, OthersKeep DEF Inv, Typed, Goto, Set, counts, Prepare,
     Process, Stored, Begin

LEMMA CreateKeeps ==
  ASSUME Inv, NEW p \in Writer, CreateChange(p)
  PROVE  Inv'
<1>1. Typed'
  BY DEF Inv, Typed, Job, Filed, Place, Goto, Set, counts, CreateChange, Exists, ChangeJson
<1>2. Stored'
  BY DEF Inv, Typed, Goto, Set, counts, CreateChange, Stored, IndexCovers, Exists, ChangeJson
<1>3. ReadWhole(p)'
    BY DEF Inv, Typed, Job, Filed, Place, Goto, Set, counts, CreateChange, Process, ReadWhole,
     Changes, Exists, ChangeJson
<1>4. SeenCovered(p)'
    BY DEF Inv, Typed, Job, Filed, Place, Goto, Set, counts, CreateChange, Process, SeenCovered,
     Exists, ChangeJson
<1>5. PreparedGoesOn(p)'
    BY DEF Inv, Typed, Job, Filed, Place, Goto, Set, counts, CreateChange, Process,
     PreparedGoesOn, Exists, Exists, ChangeJson
<1>. QED
    BY <1>1, <1>2, <1>3, <1>4, <1>5, OthersKeep DEF Inv, Typed, Goto, Set, counts, CreateChange,
     Process, Stored, Exists, ChangeJson

LEMMA HistoryKeeps ==
  ASSUME Inv, NEW p \in Writer, ReadHistory(p)
  PROVE  Inv'
<1>1. Typed'
  BY DEF Inv, Typed, Job, Filed, Place, Goto, Set, counts, ReadHistory
<1>2. Stored'
  BY DEF Inv, Typed, Goto, Set, counts, ReadHistory, Stored, IndexCovers
<1>3. ReadWhole(p)'
  BY DEF Inv, Typed, Job, Filed, Place, Goto, Set, counts, ReadHistory, Process, ReadWhole, Changes
<1>4. SeenCovered(p)'
  BY DEF Inv, Typed, Job, Filed, Place, Goto, Set, counts, ReadHistory, Process, SeenCovered
<1>5. PreparedGoesOn(p)'
    BY DEF Inv, Typed, Job, Filed, Place, Goto, Set, counts, ReadHistory, Process,
     PreparedGoesOn, Exists
<1>. QED
    BY <1>1, <1>2, <1>3, <1>4, <1>5, OthersKeep DEF Inv, Typed, Goto, Set, counts, ReadHistory,
     Process, Stored

LEMMA PublishChangeKeeps ==
  ASSUME Inv, NEW p \in Writer, PublishDecision(p)
  PROVE  Inv'
<1>a. job[p] \in Job /\ clock + 1 \in Nat /\ clock + 1 # 0
  BY DEF Inv, Typed, PublishDecision
<1>b. {[change |-> job[p].change, at |-> clock + 1, what |-> job[p].what]} \in SUBSET Filed
  BY <1>a DEF Job, Filed
<1>1. Typed'
  BY <1>a, <1>b, ZenonT(40) DEF Inv, Typed, Job, Filed, Place, Goto, Set, counts, PublishDecision
<1>2. Stored'
  BY DEF Inv, Typed, Goto, Set, counts, PublishDecision, Stored, IndexCovers
<1>3. ReadWhole(p)'
    BY <1>a DEF Inv, Typed, Job, Filed, Place, Goto, Set, counts, PublishDecision, Process,
     ReadWhole, Changes
<1>4. SeenCovered(p)'
  BY DEF Inv, Typed, Job, Filed, Place, Goto, Set, counts, PublishDecision, Process, SeenCovered
<1>5. PreparedGoesOn(p)'
    BY DEF Inv, Typed, Job, Filed, Place, Goto, Set, counts, PublishDecision, Process,
     PreparedGoesOn, Exists
<1>. QED
    BY <1>1, <1>2, <1>3, <1>4, <1>5, OthersKeep DEF Inv, Typed, Goto, Set, counts,
     PublishDecision, Process, Stored

LEMMA LinkKeeps ==
  ASSUME Inv, NEW p \in Writer, LinkDecision(p)
  PROVE  Inv'
<1>a. \A d \in job[p].seen : d.at # 0
  BY DEF Inv, Process, ReadWhole, LinkDecision
<1>1. Typed'
  BY DEF Inv, Typed, Job, Filed, Place, Goto, Set, counts, LinkDecision
<1>2. Stored'
  BY <1>a DEF Inv, Typed, Goto, Set, counts, LinkDecision, Stored, IndexCovers
<1>3. ReadWhole(p)'
    BY DEF Inv, Typed, Job, Filed, Place, Goto, Set, counts, LinkDecision, Process, ReadWhole,
     Changes
<1>4. SeenCovered(p)'
  BY DEF Inv, Typed, Job, Filed, Place, Goto, Set, counts, LinkDecision, Process, SeenCovered
<1>5. PreparedGoesOn(p)'
    BY DEF Inv, Typed, Job, Filed, Place, Goto, Set, counts, LinkDecision, Process,
     PreparedGoesOn, Exists
<1>. QED
    BY <1>1, <1>2, <1>3, <1>4, <1>5, OthersKeep DEF Inv, Typed, Goto, Set, counts, LinkDecision,
     Process, Stored

LEMMA ListKeeps ==
  ASSUME Inv, NEW p \in Writer, List(p)
  PROVE  Inv'
<1>1. Typed'
  BY DEF Inv, Typed, Job, Filed, Place, Goto, Set, counts, List, Begin
<1>2. Stored'
  BY DEF Inv, Typed, Goto, Set, counts, List, Stored, IndexCovers, Begin
<1>3. ReadWhole(p)'
  BY DEF Inv, Typed, Job, Filed, Place, Goto, Set, counts, List, Process, ReadWhole, Changes, Begin
<1>4. SeenCovered(p)'
  BY DEF Inv, Typed, Job, Filed, Place, Goto, Set, counts, List, Process, SeenCovered, Begin
<1>5. PreparedGoesOn(p)'
    BY DEF Inv, Typed, Job, Filed, Place, Goto, Set, counts, List, Process, PreparedGoesOn,
     Exists, Begin
<1>. QED
    BY <1>1, <1>2, <1>3, <1>4, <1>5, OthersKeep DEF Inv, Typed, Goto, Set, counts, List, Process,
     Stored, Begin

LEMMA FinishKeeps ==
  ASSUME Inv, NEW p \in Writer, Finish(p)
  PROVE  Inv'
<1>1. Typed'
  BY DEF Inv, Typed, Job, Filed, Place, Goto, Set, counts, Finish
<1>2. Stored'
  BY DEF Inv, Typed, Goto, Set, counts, Finish, Stored, IndexCovers
<1>3. ReadWhole(p)'
  BY DEF Inv, Typed, Job, Filed, Place, Goto, Set, counts, Finish, Process, ReadWhole, Changes
<1>4. SeenCovered(p)'
  BY DEF Inv, Typed, Job, Filed, Place, Goto, Set, counts, Finish, Process, SeenCovered
<1>5. PreparedGoesOn(p)'
  BY DEF Inv, Typed, Job, Filed, Place, Goto, Set, counts, Finish, Process, PreparedGoesOn, Exists
<1>. QED
    BY <1>1, <1>2, <1>3, <1>4, <1>5, OthersKeep DEF Inv, Typed, Goto, Set, counts, Finish,
     Process, Stored

LEMMA DieKeeps ==
  ASSUME Inv, NEW p \in Writer, Die(p)
  PROVE  Inv'
<1>1. Typed'
  BY DEF Inv, Typed, Job, Filed, Place, Goto, Set, counts, Die
<1>2. Stored'
  BY DEF Inv, Typed, Goto, Set, counts, Die, Stored, IndexCovers
<1>3. ReadWhole(p)'
  BY DEF Inv, Typed, Job, Filed, Place, Goto, Set, counts, Die, Process, ReadWhole, Changes
<1>4. SeenCovered(p)'
  BY DEF Inv, Typed, Job, Filed, Place, Goto, Set, counts, Die, Process, SeenCovered
<1>5. PreparedGoesOn(p)'
  BY DEF Inv, Typed, Job, Filed, Place, Goto, Set, counts, Die, Process, PreparedGoesOn, Exists
<1>. QED
    BY <1>1, <1>2, <1>3, <1>4, <1>5, OthersKeep DEF Inv, Typed, Goto, Set, counts, Die, Process,
     Stored

LEMMA IssueKeeps ==
  ASSUME Inv, NEW p \in Writer, NEW order \in Order, NEW c \in Change, NEW w \in What,
         Issue(p, order, c, w)
  PROVE  Inv'
<1>1. Typed'
  BY DEF Inv, Typed, Job, Filed, Place, Goto, Set, counts, Issue
<1>2. Stored'
  BY DEF Inv, Typed, Goto, Set, counts, Issue, Stored, IndexCovers
<1>3. ReadWhole(p)'
  BY DEF Inv, Typed, Job, Filed, Place, Goto, Set, counts, Issue, Process, ReadWhole, Changes
<1>4. SeenCovered(p)'
  BY DEF Inv, Typed, Job, Filed, Place, Goto, Set, counts, Issue, Process, SeenCovered
<1>5. PreparedGoesOn(p)'
  BY DEF Inv, Typed, Job, Filed, Place, Goto, Set, counts, Issue, Process, PreparedGoesOn, Exists
<1>. QED
    BY <1>1, <1>2, <1>3, <1>4, <1>5, OthersKeep DEF Inv, Typed, Goto, Set, counts, Issue, Process,
     Stored

THEOREM StepInv == Inv /\ [Next]_vars => Inv'
<1>. SUFFICES ASSUME Inv, [Next]_vars PROVE Inv'
  OBVIOUS
<1>1. ASSUME NEW p \in Writer, Step(p) PROVE Inv'
  BY <1>1, SignKeeps, CompareKeeps, ReadAllKeeps, InsertKeeps, StoreKeeps, FailKeeps, StartCreateKeeps,
     StartDecideKeeps, PrepareKeeps, CreateKeeps, HistoryKeeps, PublishChangeKeeps, LinkKeeps, ListKeeps,
     FinishKeeps DEF Step
<1>2. CASE UNCHANGED vars
    BY <1>2 DEF vars, Inv, Typed, Stored, IndexCovers, Process, ReadWhole, SeenCovered,
     PreparedGoesOn,
              Exists, Changes
<1>. QED  BY <1>1, <1>2, IssueKeeps, DieKeeps DEF Next

-----------------------------------------------------------------------------
(* What follows                                                            *)

LEMMA ChangeLogInv == Spec => []Inv
<1>. QED  BY ChangesStart, StepInv, PTL DEF Spec

\* When nothing came since the store was opened, files and index are the same.
LEMMA InvListed == Inv => ListedByRecords
<1>. SUFFICES ASSUME Inv, NEW p \in Writer, at[p] = "opened", job[p].seen = files,
                     NEW c \in Change
              PROVE  /\ ChangeJson(c) \in files => ChangeJson(c) \in rows
                     /\ Decisions(c, files) # {} =>
                          /\ Decisions(c, rows) # {}
                          /\ Latest(c, rows) = Latest(c, files)
  BY DEF ListedByRecords
<1>1. rows = files
  BY DEF Inv, Stored, Process, SeenCovered
<1>. QED  BY <1>1

\* Whoever compares the stored signature may rely on it: the index has every
\* record that it names, for any processes, changes and faults (restore_changes).
THEOREM SignatureCovered == Spec => []IndexCovers
<1>1. Inv => IndexCovers
  BY DEF Inv, Stored
<1>. QED  BY <1>1, ChangeLogInv, PTL

\* The index lists what the files say, and a decision that was announced before
\* an analysis was written is not refused afterwards (changes.rs:727, :775).
THEOREM ChangesAreListed == Spec => []ChangesListed
<1>1. Inv => IndexCovers
  BY DEF Inv, Stored
<1>2. Inv => PreparedIsRecorded
  BY DEF Inv, Process, PreparedGoesOn, PreparedIsRecorded
<1>3. Inv => ChangesListed
  BY <1>1, <1>2, InvListed DEF ChangesListed
<1>. QED  BY <1>3, ChangeLogInv, PTL

-----------------------------------------------------------------------------
(* StateCache                                                              *)

-----------------------------------------------------------------------------
(* What is right about a database, a copy, a collector and a query of a    *)
(* run r whose logs have the versions now and whose context is c           *)

\* The event i of the version v of a log f; the stamp of a version.
Row == Log \X Nat \X Nat
Mark == [file : Log, version : Nat]

\* The rows of these entries, or of the first n logs of a run in versions vs.
Blocks(sources) ==
    [k \in 1..Len(sources) |-> Parsed(sources[k].stamp.file, sources[k].stamp.version)]
Made(r, n, vs) == FlattenSeq([k \in 1..n |-> Parsed(Sources[r][k], vs[k])])

\* Entries that a database of r may have: of a version that the log had or has.
Entries(r, now) ==
    {e \in [stamp : Mark, events : Nat] :
        /\ e.stamp.file \in LogSet(r)
        /\ e.stamp.version <= now[e.stamp.file]
        /\ e.events = Events[e.stamp.file]}

\* Each log is there once.
Distinct(sources) ==
    \A j, k \in 1..Len(sources) : sources[j].stamp.file = sources[k].stamp.file => j = k

\* A database of its entries, in their order and with nothing else.
Built(n, sources) == Db(n, FlattenSeq(Blocks(sources)), sources)

\* There is no database, or it was made for a context that the run had.
DbOK(r, now, c, db) ==
    \/ db = NoDb
    \/ \E n \in 1..c, sources \in Seq(Entries(r, now)) :
        Distinct(sources) /\ db = Built(n, sources)

\* Which collector has what: from WarmLock on the version it read is the one it stamped.
ColOK(r, f, now, c, x) ==
    \/ x = Waiting \/ x = [step |-> "done"]
    \/ /\ f \in LogSet(r)
       /\ \E n \in 1..c, s \in 0..now[f] :
            \/ x = [step |-> "stamped", context |-> n, stamp |-> s]
            \/ \E d \in s..now[f] :
                x = [step |-> "parsed", context |-> n, stamp |-> s, read |-> d]
            \/ x = [step |-> "locked", context |-> n, stamp |-> s, read |-> s]
            \/ \E db :
                /\ DbOK(r, now, c, db) /\ (db = NoDb \/ db.context = n)
                /\ x = [step |-> "looked", context |-> n, stamp |-> s, read |-> s, found |-> db]

\* A database that was put in order, or that no query will find complete.
Settled(r, now, c, db) ==
    \/ db = NoDb
    \/ db.context < c
    \/ Len(db.sources) # Len(Sources[r])
    \/ \E k \in 1..Len(Sources[r]) : \A j \in 1..Len(db.sources) :
        db.sources[j].stamp # [file |-> Sources[r][k], version |-> now[Sources[r][k]]]
    \/ \A k \in 1..Len(Sources[r]) : db.sources[k].stamp.file = Sources[r][k]

\* Rows and stays of the first n logs, each no older than its stamp.
Tells(r, n, now, stamps, told, stays) ==
    \E vs \in [1..n -> Nat] :
        /\ \A k \in 1..n : stamps[k].version <= vs[k] /\ vs[k] <= now[Sources[r][k]]
        /\ told = Made(r, n, vs) /\ stays = ToSet(told)

\* A copy tells of all logs of its key.
Copy == [key : [stamps : Seq(Mark), context : Nat], rows : Seq(Row), stays : SUBSET Row]

CopyOK(r, now, file) ==
    \/ file = NoDb
    \/ /\ file \in Copy
       /\ Len(file.key.stamps) = Len(Sources[r])
       /\ Tells(r, Len(Sources[r]), now, file.key.stamps, file.rows, file.stays)

\* A question from its key to its answer.
Steps == {"key", "seek", "locking", "copying", "build", "list", "evict", "hit", "opened", "memory"}
Question == [step : Steps, run : Run, since : [Log -> Nat], context : Nat, stamps : Seq(Mark),
             rows : Seq(Row), stays : SUBSET Row, seen : Seq(Mark), read : Nat,
             victims : SUBSET Run]

\* Stamps are of the logs in their order, from some time on until now.
StampsOK(r, now, since, stamps) ==
    \A k \in 1..Len(stamps) :
        /\ stamps[k].file = Sources[r][k]
        /\ since[k] <= stamps[k].version /\ stamps[k].version <= now[Sources[r][k]]

\* What a query has read so far, or copied, is of the logs in their order, each no
\* older than its stamp in the key, and no stamp is older than the question.
AskOK(a, now) ==
    \/ a = Idle
    \/ LET all == Len(Sources[a.run]) IN
       /\ a \in Question
       /\ \A f \in Log : a.since[f] <= now[f]
       /\ Len(a.stamps) <= all /\ (a.step # "key" => Len(a.stamps) = all)
       /\ StampsOK(a.run, now, [k \in 1..all |-> a.since[Sources[a.run][k]]], a.stamps)
       /\ a.step \in {"key", "seek", "locking", "copying"} =>
            a.read = 0 /\ a.rows = <<>> /\ a.stays = {}
       /\ a.step \in {"locking", "copying"} =>
            /\ Len(a.seen) = all
            /\ StampsOK(a.run, now, [k \in 1..all |-> a.stamps[k].version], a.seen)
       /\ a.step \in {"build", "memory"} =>
            a.read <= all /\ Tells(a.run, a.read, now, a.stamps, a.rows, a.stays)
       /\ a.step \in {"hit", "opened"} =>
            Tells(a.run, all, now, a.stamps, a.rows, a.stays)

\* The invariant of the data.
Sorts ==
    /\ log \in [Run -> [Log -> Nat]] /\ context \in [Run -> Nat \ {0}]
    /\ ordered \subseteq Run
    /\ prepared = [r \in Run |-> prepared[r]] /\ DOMAIN copy = Run
    /\ DOMAIN col = Run /\ \A r \in Run : DOMAIN col[r] = Log
    /\ DOMAIN ask = Query

Collecting == \A r \in Run, f \in Log : ColOK(r, f, log[r], context[r], col[r][f])
Preparing == \A r \in Run : DbOK(r, log[r], context[r], prepared[r])
\* Once the run has put its database in order no collector touches it again.
Ordering ==
    \A r \in ordered :
        /\ \A f \in LogSet(r) : col[r][f].step = "done"
        /\ Settled(r, log[r], context[r], prepared[r])
Copying == \A r \in Run : CopyOK(r, log[r], copy[r])
Asking == \A q \in Query : ask[q] = Idle \/ AskOK(ask[q], log[ask[q].run])

DataInv == Sorts /\ Collecting /\ Preparing /\ Ordering /\ Copying /\ Asking

-----------------------------------------------------------------------------
(* The number of copies                                                    *)

\* Those that have published a copy and not yet removed the ones it replaces, and
\* those of them that have listed what is to go.
Publishing == {q \in Query : ask[q].step \in {"list", "evict"}}
Evicting == {q \in Query : ask[q].step = "evict"}

\* The last used copies are those there are, each once.
RecentOK == recent \in Seq(Run) /\ IsInjective(recent) /\ ToSet(recent) = Copies

\* after[q] are those that published after q listed what is to go, and have not
\* removed theirs yet.
AfterOK(after) ==
    \A q \in Evicting :
        /\ after[q] \subseteq Publishing \ {q}
        /\ Cardinality(Copies \ ask[q].victims) <= CacheRuns + killed + Cardinality(after[q])
        /\ \A p \in after[q] \cap Evicting : after[p] \subseteq after[q]

\* There are copies beyond CacheRuns only for those that still have to remove some, and
\* for those killed before they did.
Bounds ==
    /\ killed \in Nat /\ IsFiniteSet(Publishing)
    /\ Cardinality(Copies) <= CacheRuns + killed + Cardinality(Publishing)
    /\ \E after \in [Query -> SUBSET Query] : AfterOK(after)

-----------------------------------------------------------------------------
(* Rows                                                                    *)

LEMMA Manifest ==
    ASSUME NEW r \in Run
    PROVE  /\ Len(Sources[r]) \in Nat /\ DOMAIN Sources[r] = 1..Len(Sources[r])
           /\ \A k \in 1..Len(Sources[r]) : Sources[r][k] \in Log /\ Sources[r][k] \in LogSet(r)
           /\ \A j, k \in 1..Len(Sources[r]) : Sources[r][j] = Sources[r][k] => j = k
<1>1. Sources[r] \in Seq(Log) /\ IsInjective(Sources[r])
  BY SourcesAssumption
<1>2. Len(Sources[r]) \in Nat /\ DOMAIN Sources[r] = 1..Len(Sources[r])
      /\ \A k \in 1..Len(Sources[r]) : Sources[r][k] \in Log
  BY <1>1
<1>3. \A k \in 1..Len(Sources[r]) : Sources[r][k] \in LogSet(r)
  BY <1>2 DEF LogSet, ToSet
<1>4. \A j, k \in 1..Len(Sources[r]) : Sources[r][j] = Sources[r][k] => j = k
  BY <1>1, <1>2 DEF IsInjective
<1>. QED  BY <1>2, <1>3, <1>4

LEMMA LogSetType ==
    ASSUME NEW r \in Run, NEW f \in LogSet(r)
    PROVE  f \in Log /\ \E k \in 1..Len(Sources[r]) : Sources[r][k] = f
BY Manifest DEF LogSet, ToSet

LEMMA ParsedType ==
    ASSUME NEW f \in Log, NEW v \in Nat
    PROVE  Parsed(f, v) \in Seq(Row) /\ Len(Parsed(f, v)) = Events[f] /\ Events[f] \in Nat
<1>1. Events[f] \in Nat
  BY EventsAssumption
<1>2. Parsed(f, v) = [i \in 1..Events[f] |-> <<f, v, i>>]
  BY DEF Parsed, Promise!Parsed
<1>3. \A i \in 1..Events[f] : <<f, v, i>> \in Row
  BY <1>1 DEF Row
<1>. QED  BY <1>1, <1>2, <1>3, SMTT(30)

LEMMA MadeType ==
    ASSUME NEW r \in Run, NEW n \in Nat, n <= Len(Sources[r]), NEW vs \in [1..n -> Nat]
    PROVE  /\ [k \in 1..n |-> Parsed(Sources[r][k], vs[k])] \in [1..n -> Seq(Row)]
           /\ Made(r, n, vs) \in Seq(Row)
<1>1. [k \in 1..n |-> Parsed(Sources[r][k], vs[k])] \in [1..n -> Seq(Row)]
  <2>. SUFFICES ASSUME NEW k \in 1..n PROVE Parsed(Sources[r][k], vs[k]) \in Seq(Row)
    OBVIOUS
  <2>1. k \in 1..Len(Sources[r])
    BY Manifest
  <2>2. Sources[r][k] \in Log /\ vs[k] \in Nat
    BY <2>1, Manifest
  <2>. QED  BY <2>2, ParsedType
<1>2. Made(r, n, vs) \in Seq(Row)
  BY <1>1, FlatType DEF Made
<1>. QED  BY <1>1, <1>2

LEMMA MadeNothing ==
    ASSUME NEW r \in Run, NEW vs
    PROVE  Made(r, 0, vs) = <<>>
<1>1. [k \in 1..0 |-> Parsed(Sources[r][k], vs[k])] = <<>>
  OBVIOUS
<1>. QED  BY <1>1, FlatEmpty DEF Made

\* The rows of one more log.
LEMMA MadeNext ==
    ASSUME NEW r \in Run, NEW n \in Nat, n + 1 <= Len(Sources[r]), NEW vs \in [1..n -> Nat],
           NEW us \in [1..(n + 1) -> Nat], \A k \in 1..n : us[k] = vs[k]
    PROVE  Made(r, n + 1, us) = Made(r, n, vs) \o Parsed(Sources[r][n + 1], us[n + 1])
<1>. DEFINE ss == [k \in 1..(n + 1) |-> Parsed(Sources[r][k], us[k])]
            tt == [k \in 1..n |-> Parsed(Sources[r][k], vs[k])]
<1>1. n + 1 \in Nat /\ n <= Len(Sources[r]) /\ n + 1 \in 1..(n + 1)
  BY Manifest
<1>2. ss \in [1..(n + 1) -> Seq(Row)]
  BY <1>1, MadeType
<1>3. tt \in [1..n -> Seq(Row)]
  BY <1>1, MadeType
<1>4. \A k \in 1..n : tt[k] = ss[k]
  OBVIOUS
<1>5. ss[n + 1] = Parsed(Sources[r][n + 1], us[n + 1])
  BY <1>1
<1>6. Made(r, n + 1, us) = FlattenSeq(ss) /\ Made(r, n, vs) = FlattenSeq(tt)
  BY DEF Made
<1>7. n \in Nat
  OBVIOUS
<1>. HIDE DEF ss, tt
<1>8. FlattenSeq(ss) = FlattenSeq(tt) \o ss[n + 1]
  BY <1>2, <1>3, <1>4, <1>7, FlatNext
<1>. QED  BY <1>5, <1>6, <1>8

LEMMA EntryFacts ==
    ASSUME NEW r \in Run, NEW now \in [Log -> Nat], NEW e \in Entries(r, now)
    PROVE  /\ e.stamp \in Mark /\ e.stamp.file \in Log /\ e.stamp.file \in LogSet(r)
           /\ e.stamp.version \in Nat /\ e.stamp.version <= now[e.stamp.file]
           /\ e.events = Events[e.stamp.file] /\ e.events \in Nat
BY DEF Entries, Mark

LEMMA EntryType ==
    ASSUME NEW r \in Run, NEW now \in [Log -> Nat], NEW f \in LogSet(r), NEW v \in Nat, v <= now[f]
    PROVE  Entry(f, v) \in Entries(r, now)
<1>1. f \in Log
  BY LogSetType
<1>2. Events[f] \in Nat
  BY <1>1, EventsAssumption
<1>. QED  BY <1>1, <1>2 DEF Entries, Entry, Mark

LEMMA BlocksType ==
    ASSUME NEW r \in Run, NEW now \in [Log -> Nat], NEW sources \in Seq(Entries(r, now))
    PROVE  /\ Blocks(sources) \in [1..Len(sources) -> Seq(Row)]
           /\ FlattenSeq(Blocks(sources)) \in Seq(Row)
           /\ \A k \in 1..Len(sources) : Len(Blocks(sources)[k]) = sources[k].events
<1>1. Len(sources) \in Nat
  OBVIOUS
<1>2. ASSUME NEW k \in 1..Len(sources)
      PROVE  /\ Parsed(sources[k].stamp.file, sources[k].stamp.version) \in Seq(Row)
             /\ Len(Parsed(sources[k].stamp.file, sources[k].stamp.version)) = sources[k].events
  <2>1. sources[k] \in Entries(r, now)
    BY <1>2
  <2>2. sources[k].stamp.file \in Log /\ sources[k].stamp.version \in Nat
        /\ sources[k].events = Events[sources[k].stamp.file]
    BY <2>1, EntryFacts
  <2>. QED  BY <2>2, ParsedType
<1>3. Blocks(sources) \in [1..Len(sources) -> Seq(Row)]
  BY <1>2 DEF Blocks
<1>4. FlattenSeq(Blocks(sources)) \in Seq(Row)
  BY <1>1, <1>3, FlatType
<1>5. \A k \in 1..Len(sources) : Len(Blocks(sources)[k]) = sources[k].events
  BY <1>2 DEF Blocks
<1>. QED  BY <1>3, <1>4, <1>5

\* A log is added to a database.
LEMMA BlocksNext ==
    ASSUME NEW r \in Run, NEW now \in [Log -> Nat], NEW sources \in Seq(Entries(r, now)),
           NEW e \in Entries(r, now)
    PROVE  FlattenSeq(Blocks(Append(sources, e)))
             = FlattenSeq(Blocks(sources)) \o Parsed(e.stamp.file, e.stamp.version)
<1>. DEFINE n == Len(sources)
            more == Append(sources, e)
            ss == Blocks(more)
            tt == Blocks(sources)
<1>1. n \in Nat /\ more \in Seq(Entries(r, now)) /\ Len(more) = n + 1
      /\ (\A k \in 1..n : more[k] = sources[k]) /\ more[n + 1] = e
  OBVIOUS
<1>. HIDE DEF more, n
<1>2. ss \in [1..(n + 1) -> Seq(Row)]
  BY <1>1, BlocksType
<1>3. tt \in [1..n -> Seq(Row)]
  BY BlocksType DEF n
<1>4. \A k \in 1..n : tt[k] = ss[k]
  BY <1>1 DEF Blocks, n
<1>5. ss[n + 1] = Parsed(e.stamp.file, e.stamp.version)
  BY <1>1 DEF Blocks
<1>. HIDE DEF ss, tt
<1>6. FlattenSeq(ss) = FlattenSeq(tt) \o ss[n + 1]
  BY <1>1, <1>2, <1>3, <1>4, FlatNext
<1>. QED  BY <1>5, <1>6 DEF ss, tt, more

-----------------------------------------------------------------------------
(* Databases                                                               *)

LEMMA BuiltIsFile ==
    ASSUME NEW n \in Nat \ {0}, NEW sources
    PROVE  /\ IsFile(Built(n, sources)) /\ Built(n, sources).context = n
           /\ Built(n, sources).sources = sources
           /\ Built(n, sources).rows = FlattenSeq(Blocks(sources))
           /\ Built(n, sources).stays = ToSet(FlattenSeq(Blocks(sources)))
BY DEF IsFile, NoDb, Built, Db

LEMMA DbParts ==
    ASSUME NEW r \in Run, NEW now \in [Log -> Nat], NEW c \in Nat \ {0}, NEW db,
           DbOK(r, now, c, db), IsFile(db)
    PROVE  /\ db.context \in 1..c /\ db.sources \in Seq(Entries(r, now)) /\ Distinct(db.sources)
           /\ db = Built(db.context, db.sources)
           /\ db.rows = FlattenSeq(Blocks(db.sources)) /\ db.stays = ToSet(db.rows)
<1>1. PICK n \in 1..c, sources \in Seq(Entries(r, now)) : Distinct(sources) /\ db = Built(n, sources)
  BY DEF DbOK, IsFile
<1>2. n \in Nat \ {0}
  OBVIOUS
<1>3. db.context = n /\ db.sources = sources /\ db.rows = FlattenSeq(Blocks(sources))
      /\ db.stays = ToSet(FlattenSeq(Blocks(sources)))
  BY <1>1, <1>2, BuiltIsFile
<1>. QED  BY <1>1, <1>3

\* The rows that reorder() takes for an entry are the events of its log.
LEMMA RowsOfEntry ==
    ASSUME NEW r \in Run, NEW now \in [Log -> Nat], NEW c \in Nat \ {0}, NEW db,
           DbOK(r, now, c, db), IsFile(db), NEW k \in 1..Len(db.sources)
    PROVE  RowsOf(db, k) = Parsed(db.sources[k].stamp.file, db.sources[k].stamp.version)
<1>. DEFINE n == Len(db.sources)
            ss == Blocks(db.sources)
            Is(b) == b = [j \in DOMAIN db.sources |->
                            IF j = 1 THEN 0 ELSE b[j - 1] + db.sources[j - 1].events]
<1>1. db.sources \in Seq(Entries(r, now)) /\ db.rows = FlattenSeq(ss)
  BY DbParts
<1>2. n \in Nat /\ DOMAIN db.sources = 1..n /\ k \in 1..n
  BY <1>1
<1>3. ss \in [1..n -> Seq(Row)] /\ \A j \in 1..n : Len(ss[j]) = db.sources[j].events
  BY <1>1, BlocksType
<1>4. ss[k] = Parsed(db.sources[k].stamp.file, db.sources[k].stamp.version)
  BY DEF Blocks
<1>. HIDE DEF ss
<1>5. PICK place : place \in [1..n -> Nat] /\ BlocksAt(place, ss, n)
  BY <1>2, <1>3, FlatBlocks
<1>6. \A j \in 1..n : /\ place[j] \in Nat
                      /\ place[j] = IF j = 1 THEN 0 ELSE place[j - 1] + db.sources[j - 1].events
                      /\ SubSeq(FlattenSeq(ss), place[j] + 1, place[j] + Len(ss[j])) = ss[j]
  <2>. SUFFICES ASSUME NEW j \in 1..n
               PROVE  /\ place[j] \in Nat
                      /\ place[j] = IF j = 1 THEN 0 ELSE place[j - 1] + db.sources[j - 1].events
                      /\ SubSeq(FlattenSeq(ss), place[j] + 1, place[j] + Len(ss[j])) = ss[j]
    OBVIOUS
  <2>1. j # 1 => j - 1 \in 1..n
    BY <1>2
  <2>2. j # 1 => Len(ss[j - 1]) = db.sources[j - 1].events
    BY <1>3, <2>1
  <2>. QED  BY <1>5, <2>2 DEF BlocksAt
<1>7. Is(place)
  <2>. HIDE DEF n
  <2>. QED  BY <1>2, <1>5, <1>6
<1>. DEFINE before == CHOOSE b : Is(b)
<1>8. Is(before)
  <2>. HIDE DEF Is
  <2>. QED  BY <1>7
<1>9. RowsOf(db, k) = SubSeq(db.rows, before[k] + 1, before[k] + db.sources[k].events)
  BY DEF RowsOf
<1>. HIDE DEF before
<1>10. before[k] = place[k]
  <2>. DEFINE T == {m \in Nat : m \in 1..n => before[m] = place[m]}
  <2>a. \A j \in 1..n : /\ before[j] = IF j = 1 THEN 0 ELSE before[j - 1] + db.sources[j - 1].events
                        /\ place[j] = IF j = 1 THEN 0 ELSE place[j - 1] + db.sources[j - 1].events
    BY <1>2, <1>6, <1>8
  <2>. HIDE DEF Is
  <2>1. 0 \in T
    OBVIOUS
  <2>2. ASSUME NEW m \in Nat, m \in T PROVE m + 1 \in T
    <3>. SUFFICES ASSUME m + 1 \in 1..n PROVE before[m + 1] = place[m + 1]
      OBVIOUS
    <3>1. CASE m = 0
      BY <2>a, <3>1
    <3>2. CASE m # 0
      <4>1. m \in 1..n /\ (m + 1) - 1 = m /\ m + 1 # 1
        BY <1>2, <3>2
      <4>2. before[m] = place[m]
        BY <2>2, <4>1
      <4>. QED  BY <2>a, <4>1, <4>2
    <3>. QED  BY <3>1, <3>2
  <2>3. Nat \subseteq T
    <3>. HIDE DEF T
    <3>. QED  BY <2>1, <2>2, Induct
  <2>4. k \in T /\ k \in 1..n
    BY <1>2, <2>3
  <2>. QED  BY <2>4
<1>11. SubSeq(FlattenSeq(ss), place[k] + 1, place[k] + Len(ss[k])) = ss[k] /\ Len(ss[k]) = db.sources[k].events
  BY <1>2, <1>3, <1>6
<1>. HIDE DEF Is, n
<1>. QED  BY <1>1, <1>4, <1>9, <1>10, <1>11

LEMMA BuiltOK ==
    ASSUME NEW r \in Run, NEW now \in [Log -> Nat], NEW c \in Nat \ {0}, NEW n \in 1..c,
           NEW sources \in Seq(Entries(r, now)), Distinct(sources)
    PROVE  DbOK(r, now, c, Built(n, sources))
BY DEF DbOK

LEMMA SeqGrows ==
    ASSUME NEW S, NEW T, S \subseteq T, NEW s \in Seq(S)
    PROVE  s \in Seq(T)
<1>1. s \in [1..Len(s) -> S] /\ Len(s) \in Nat
  OBVIOUS
<1>. QED  BY <1>1

LEMMA EntriesGrow ==
    ASSUME NEW r \in Run, NEW now \in [Log -> Nat], NEW later \in [Log -> Nat],
           \A f \in Log : now[f] <= later[f]
    PROVE  Entries(r, now) \subseteq Entries(r, later)
<1>. SUFFICES ASSUME NEW e \in Entries(r, now) PROVE e \in Entries(r, later)
  OBVIOUS
<1>1. e.stamp.file \in Log /\ e.stamp.version \in Nat /\ e.stamp.version <= now[e.stamp.file]
  BY EntryFacts
<1>2. now[e.stamp.file] \in Nat /\ later[e.stamp.file] \in Nat
      /\ now[e.stamp.file] <= later[e.stamp.file]
  BY <1>1
<1>3. e.stamp.version <= later[e.stamp.file]
  BY <1>1, <1>2
<1>. QED  BY <1>3 DEF Entries

LEMMA DbGrows ==
    ASSUME NEW r \in Run, NEW now \in [Log -> Nat], NEW later \in [Log -> Nat],
           \A f \in Log : now[f] <= later[f],
           NEW c \in Nat \ {0}, NEW d \in Nat \ {0}, c <= d, NEW db, DbOK(r, now, c, db)
    PROVE  DbOK(r, later, d, db)
<1>1. CASE db = NoDb
  BY <1>1 DEF DbOK
<1>2. CASE IsFile(db)
  <2>1. db.context \in 1..c /\ db.sources \in Seq(Entries(r, now)) /\ Distinct(db.sources)
        /\ db = Built(db.context, db.sources)
    BY <1>2, DbParts
  <2>2. db.context \in 1..d
    BY <2>1
  <2>3. db.sources \in Seq(Entries(r, later))
    BY <2>1, EntriesGrow, SeqGrows
  <2>. QED  BY <2>1, <2>2, <2>3 DEF DbOK
<1>. QED  BY <1>1, <1>2 DEF IsFile

\* A collector adds its log to the database that it found.
LEMMA WarmedOK ==
    ASSUME NEW r \in Run, NEW now \in [Log -> Nat], NEW c \in Nat \ {0}, NEW f \in LogSet(r),
           NEW n \in 1..c, NEW v \in Nat, v <= now[f], NEW found, DbOK(r, now, c, found),
           NEW x, x.context = n, x.stamp = v, x.read = v
    PROVE  DbOK(r, now, c, Warmed(found, f, x))
<1>. DEFINE e == Entry(f, v)
            E == Entries(r, now)
<1>1. e \in E /\ e.stamp.file = f /\ e.stamp.version = v
  BY EntryType DEF Entry
<1>2. n \in Nat \ {0}
  OBVIOUS
<1>. HIDE DEF e, E
<1>3. CASE ~IsFile(found)
  <2>1. <<>> \in Seq(E) /\ Append(<<>>, e) = <<e>> /\ <<e>> \in Seq(E)
    BY <1>1
  <2>2. FlattenSeq(Blocks(Append(<<>>, e)))
          = FlattenSeq(Blocks(<<>>)) \o Parsed(e.stamp.file, e.stamp.version)
    BY <1>1, <2>1, BlocksNext DEF E
  <2>3. Blocks(<<>>) = <<>>
    BY DEF Blocks
  <2>4. Parsed(f, v) \in Seq(Row)
    BY LogSetType, ParsedType
  <2>5. FlattenSeq(Blocks(<<e>>)) = Parsed(f, v)
    BY <1>1, <2>1, <2>2, <2>3, <2>4, FlatEmpty
  <2>6. Warmed(found, f, x) = Built(n, <<e>>)
    BY <1>3, <2>5 DEF Warmed, Built, e
  <2>7. Distinct(<<e>>)
    BY DEF Distinct
  <2>. QED  BY <2>1, <2>6, <2>7, BuiltOK DEF E
<1>4. CASE IsFile(found) /\ \E k \in DOMAIN found.sources : found.sources[k].stamp.file = f
  <2>1. Warmed(found, f, x) = found
    BY <1>4 DEF Warmed
  <2>. QED  BY <2>1
<1>5. CASE IsFile(found) /\ ~(\E k \in DOMAIN found.sources : found.sources[k].stamp.file = f)
  <2>. DEFINE m == found.context
              sources == found.sources
              more == Append(sources, e)
  <2>1. m \in 1..c /\ sources \in Seq(E) /\ Distinct(sources)
        /\ found.rows = FlattenSeq(Blocks(sources))
    BY <1>5, DbParts DEF E
  <2>2. more \in Seq(E) /\ Len(more) = Len(sources) + 1 /\ Len(sources) \in Nat
        /\ (\A k \in 1..Len(sources) : more[k] = sources[k]) /\ more[Len(sources) + 1] = e
        /\ DOMAIN sources = 1..Len(sources)
    BY <1>1, <2>1
  <2>3. FlattenSeq(Blocks(more)) = found.rows \o Parsed(f, v)
    BY <1>1, <2>1, BlocksNext DEF E
  <2>4. Warmed(found, f, x) = Built(m, more)
    BY <1>5, <2>3 DEF Warmed, Built, e
  <2>5. Distinct(more)
    <3>. SUFFICES ASSUME NEW j \in 1..Len(more), NEW k \in 1..Len(more),
                         more[j].stamp.file = more[k].stamp.file
                 PROVE  j = k
      BY DEF Distinct
    <3>. HIDE DEF more, sources
    <3>1. CASE j = Len(sources) + 1 /\ k = Len(sources) + 1
      BY <3>1
    <3>2. CASE j = Len(sources) + 1 /\ k # Len(sources) + 1
      <4>1. k \in 1..Len(sources)
        BY <2>2, <3>2
      <4>. QED  BY <1>1, <1>5, <2>2, <3>2, <4>1 DEF sources
    <3>3. CASE j # Len(sources) + 1 /\ k = Len(sources) + 1
      <4>1. j \in 1..Len(sources)
        BY <2>2, <3>3
      <4>. QED  BY <1>1, <1>5, <2>2, <3>3, <4>1 DEF sources
    <3>4. CASE j # Len(sources) + 1 /\ k # Len(sources) + 1
      <4>1. j \in 1..Len(sources) /\ k \in 1..Len(sources)
        BY <2>2, <3>4
      <4>. QED  BY <2>1, <2>2, <4>1 DEF Distinct
    <3>. QED  BY <3>1, <3>2, <3>3, <3>4
  <2>. QED  BY <2>1, <2>2, <2>4, <2>5, BuiltOK DEF E
<1>. QED  BY <1>3, <1>4, <1>5

\* Stamps(r), given the versions.
StampsNow(r, now) ==
    [k \in 1..Len(Sources[r]) |-> [file |-> Sources[r][k], version |-> now[Sources[r][k]]]]

\* In order, the database has the same entries with their own rows.
LEMMA ReorderedOK ==
    ASSUME NEW r \in Run, NEW now \in [Log -> Nat], NEW c \in Nat \ {0}, NEW db,
           DbOK(r, now, c, db), IsFile(db), Reorderable(db, c, StampsNow(r, now))
    PROVE  LET new == Reordered(db, StampsNow(r, now)) IN
           /\ DbOK(r, now, c, new) /\ IsFile(new)
           /\ Len(new.sources) = Len(Sources[r])
           /\ \A k \in 1..Len(Sources[r]) : new.sources[k].stamp.file = Sources[r][k]
<1>. DEFINE n == Len(Sources[r])
            stamps == StampsNow(r, now)
            E == Entries(r, now)
            place(s) == CHOOSE k \in DOMAIN db.sources : db.sources[k].stamp = s
            sources == [i \in DOMAIN stamps |-> db.sources[place(stamps[i])]]
            new == Reordered(db, stamps)
<1>1. n \in Nat /\ DOMAIN stamps = 1..n /\ \A i \in 1..n : stamps[i].file = Sources[r][i]
  BY Manifest DEF StampsNow
<1>2. db.context \in 1..c /\ db.sources \in Seq(E)
      /\ DOMAIN db.sources = 1..Len(db.sources)
  BY DbParts
<1>3. ASSUME NEW i \in 1..n
      PROVE  place(stamps[i]) \in 1..Len(db.sources) /\ db.sources[place(stamps[i])].stamp = stamps[i]
  <2>1. \E k \in DOMAIN db.sources : db.sources[k].stamp = stamps[i]
    BY <1>1, <1>3 DEF Reorderable
  <2>. HIDE DEF stamps
  <2>. QED  BY <1>2, <2>1
<1>4. new = Db(db.context, FlattenSeq([i \in DOMAIN stamps |-> RowsOf(db, place(stamps[i]))]), sources)
  BY DEF Reordered
<1>. HIDE DEF stamps, place, new
<1>5. ASSUME NEW i \in 1..n PROVE sources[i] \in E /\ sources[i].stamp = stamps[i]
  BY <1>1, <1>2, <1>3, <1>5
<1>6. sources \in Seq(E) /\ Len(sources) = n
  <2>1. sources \in [1..n -> E]
    BY <1>1, <1>5
  <2>. HIDE DEF sources, n, E
  <2>. QED  BY <1>1, <2>1
<1>7. Blocks(sources) = [i \in DOMAIN stamps |-> RowsOf(db, place(stamps[i]))]
  <2>1. ASSUME NEW i \in 1..n
        PROVE  RowsOf(db, place(stamps[i]))
                 = Parsed(sources[i].stamp.file, sources[i].stamp.version)
    <3>1. place(stamps[i]) \in 1..Len(db.sources) /\ sources[i] = db.sources[place(stamps[i])]
      BY <1>1, <1>3, <2>1
    <3>. HIDE DEF sources
    <3>. QED  BY <3>1, RowsOfEntry
  <2>. HIDE DEF sources, n
  <2>. QED  BY <1>1, <1>6, <2>1 DEF Blocks
<1>8. new = Built(db.context, sources)
  <2>. HIDE DEF sources
  <2>. QED  BY <1>4, <1>7 DEF Built
<1>9. Distinct(sources)
  <2>. HIDE DEF sources
  <2>. SUFFICES ASSUME NEW j \in 1..n, NEW k \in 1..n,
                       sources[j].stamp.file = sources[k].stamp.file
               PROVE  j = k
    BY <1>6 DEF Distinct
  <2>1. Sources[r][j] = Sources[r][k]
    BY <1>1, <1>5
  <2>. QED  BY <2>1, Manifest
<1>. HIDE DEF sources
<1>10. DbOK(r, now, c, new)
  BY <1>2, <1>6, <1>8, <1>9, BuiltOK DEF E
<1>11. IsFile(new) /\ new.sources = sources
  BY <1>2, <1>8, BuiltIsFile
<1>12. Len(new.sources) = n /\ \A k \in 1..n : new.sources[k].stamp.file = Sources[r][k]
  BY <1>1, <1>5, <1>6, <1>11
<1>. QED  BY <1>10, <1>11, <1>12 DEF new, stamps

-----------------------------------------------------------------------------
(* What is right stays right when logs and contexts are replaced           *)

LEMMA ColGrows ==
    ASSUME NEW r \in Run, NEW now \in [Log -> Nat], NEW later \in [Log -> Nat],
           \A f \in Log : now[f] <= later[f],
           NEW c \in Nat \ {0}, NEW d \in Nat \ {0}, c <= d,
           NEW f \in Log, NEW x, ColOK(r, f, now, c, x)
    PROVE  ColOK(r, f, later, d, x)
<1>1. CASE x = Waiting \/ x = [step |-> "done"]
  BY <1>1 DEF ColOK
<1>2. CASE ~(x = Waiting \/ x = [step |-> "done"])
  <2>1. f \in LogSet(r)
    BY <1>2 DEF ColOK
  <2>2. PICK n \in 1..c, s \in 0..now[f] :
            \/ x = [step |-> "stamped", context |-> n, stamp |-> s]
            \/ \E e \in s..now[f] :
                x = [step |-> "parsed", context |-> n, stamp |-> s, read |-> e]
            \/ x = [step |-> "locked", context |-> n, stamp |-> s, read |-> s]
            \/ \E db :
                /\ DbOK(r, now, c, db) /\ (db = NoDb \/ db.context = n)
                /\ x = [step |-> "looked", context |-> n, stamp |-> s, read |-> s, found |-> db]
    BY <1>2 DEF ColOK
  <2>3. n \in 1..d /\ s \in 0..later[f] /\ \A e \in s..now[f] : e \in s..later[f]
    <3>1. now[f] \in Nat /\ later[f] \in Nat /\ now[f] <= later[f]
      OBVIOUS
    <3>. QED  BY <3>1
  <2>4. \A db : DbOK(r, now, c, db) => DbOK(r, later, d, db)
    BY DbGrows
  <2>. QED  BY <2>1, <2>2, <2>3, <2>4 DEF ColOK
<1>. QED  BY <1>1, <1>2

LEMMA SettledGrows ==
    ASSUME NEW r \in Run, NEW now \in [Log -> Nat], NEW later \in [Log -> Nat],
           \A f \in Log : now[f] <= later[f],
           NEW c \in Nat \ {0}, NEW d \in Nat \ {0}, c <= d,
           NEW db, DbOK(r, now, c, db), Settled(r, now, c, db)
    PROVE  Settled(r, later, d, db)
<1>1. CASE db = NoDb
  BY <1>1 DEF Settled
<1>2. CASE IsFile(db)
  <2>1. db.context \in 1..c /\ db.sources \in Seq(Entries(r, now))
    BY <1>2, DbParts
  <2>2. CASE db.context < c
    <3>1. db.context < d
      BY <2>1, <2>2
    <3>. QED  BY <3>1 DEF Settled
  <2>3. ASSUME NEW k \in 1..Len(Sources[r]), \A j \in 1..Len(db.sources) :
          db.sources[j].stamp # [file |-> Sources[r][k], version |-> now[Sources[r][k]]]
        PROVE  Settled(r, later, d, db)
    <3>. DEFINE g == Sources[r][k]
    <3>0. g \in Log
      BY Manifest
    <3>. SUFFICES ASSUME NEW j \in 1..Len(db.sources),
                         db.sources[j].stamp = [file |-> g, version |-> later[g]]
                 PROVE  FALSE
      BY DEF Settled
    <3>. HIDE DEF g
    <3>1. db.sources[j] \in Entries(r, now)
      BY <2>1
    <3>2. db.sources[j].stamp.file = g /\ db.sources[j].stamp.version = later[g]
      OBVIOUS
    <3>3. later[g] <= now[g]
      BY <3>1, <3>2, EntryFacts
    <3>4. later[g] = now[g]
      BY <3>0, <3>3
    <3>. QED  BY <2>3, <3>4 DEF g
  <2>. QED  BY <1>2, <2>2, <2>3 DEF Settled, IsFile
<1>. QED  BY <1>1, <1>2 DEF IsFile

LEMMA TellsGrows ==
    ASSUME NEW r \in Run, NEW now \in [Log -> Nat], NEW later \in [Log -> Nat],
           \A f \in Log : now[f] <= later[f], NEW n \in Nat, n <= Len(Sources[r]),
           NEW stamps, NEW told, NEW stays, Tells(r, n, now, stamps, told, stays)
    PROVE  Tells(r, n, later, stamps, told, stays)
<1>1. PICK vs \in [1..n -> Nat] :
        /\ \A k \in 1..n : stamps[k].version <= vs[k] /\ vs[k] <= now[Sources[r][k]]
        /\ told = Made(r, n, vs) /\ stays = ToSet(told)
  BY DEF Tells
<1>2. ASSUME NEW k \in 1..n PROVE vs[k] <= later[Sources[r][k]]
  <2>1. Sources[r][k] \in Log
    BY Manifest
  <2>. DEFINE g == Sources[r][k]
  <2>2. now[g] \in Nat /\ later[g] \in Nat /\ now[g] <= later[g] /\ vs[k] \in Nat
        /\ vs[k] <= now[g]
    BY <1>1, <2>1
  <2>. QED  BY <2>2
<1>. QED  BY <1>1, <1>2 DEF Tells

LEMMA CopyGrows ==
    ASSUME NEW r \in Run, NEW now \in [Log -> Nat], NEW later \in [Log -> Nat],
           \A f \in Log : now[f] <= later[f], NEW file, CopyOK(r, now, file)
    PROVE  CopyOK(r, later, file)
<1>1. Len(Sources[r]) \in Nat /\ Len(Sources[r]) <= Len(Sources[r])
  BY Manifest
<1>. QED  BY <1>1, TellsGrows DEF CopyOK

LEMMA StampsGrow ==
    ASSUME NEW r \in Run, NEW now \in [Log -> Nat], NEW later \in [Log -> Nat],
           \A f \in Log : now[f] <= later[f], NEW since,
           NEW stamps \in Seq(Mark), Len(stamps) <= Len(Sources[r]), StampsOK(r, now, since, stamps)
    PROVE  StampsOK(r, later, since, stamps)
<1>. SUFFICES ASSUME NEW k \in 1..Len(stamps)
             PROVE  stamps[k].version <= later[Sources[r][k]]
  BY DEF StampsOK
<1>1. k \in 1..Len(Sources[r])
  BY Manifest
<1>. DEFINE g == Sources[r][k]
<1>2. g \in Log
  BY <1>1, Manifest
<1>3. stamps[k].version \in Nat
  <2>1. stamps[k] \in Mark
    OBVIOUS
  <2>. QED  BY <2>1 DEF Mark
<1>4. stamps[k].version <= now[g]
  BY DEF StampsOK
<1>5. now[g] \in Nat /\ later[g] \in Nat /\ now[g] <= later[g]
  BY <1>2
<1>. QED  BY <1>3, <1>4, <1>5

LEMMA AskGrows ==
    ASSUME NEW now \in [Log -> Nat], NEW later \in [Log -> Nat],
           \A f \in Log : now[f] <= later[f], NEW a, AskOK(a, now)
    PROVE  AskOK(a, later)
<1>1. CASE a = Idle
  BY <1>1 DEF AskOK
<1>2. CASE a # Idle
  <2>. DEFINE all == Len(Sources[a.run])
              first == [k \in 1..all |-> a.since[Sources[a.run][k]]]
              own == [k \in 1..all |-> a.stamps[k].version]
  <2>1. /\ a \in Question /\ \A f \in Log : a.since[f] <= now[f]
        /\ Len(a.stamps) <= all /\ (a.step # "key" => Len(a.stamps) = all)
        /\ StampsOK(a.run, now, first, a.stamps)
        /\ a.step \in {"key", "seek", "locking", "copying"} =>
             a.read = 0 /\ a.rows = <<>> /\ a.stays = {}
        /\ a.step \in {"locking", "copying"} =>
             Len(a.seen) = all /\ StampsOK(a.run, now, own, a.seen)
        /\ a.step \in {"build", "memory"} =>
             a.read <= all /\ Tells(a.run, a.read, now, a.stamps, a.rows, a.stays)
        /\ a.step \in {"hit", "opened"} => Tells(a.run, all, now, a.stamps, a.rows, a.stays)
    BY <1>2 DEF AskOK
  <2>2. a.run \in Run /\ a.stamps \in Seq(Mark) /\ a.seen \in Seq(Mark) /\ a.read \in Nat
        /\ a.since \in [Log -> Nat]
    BY <2>1 DEF Question
  <2>3. all \in Nat /\ all <= all
    BY <2>2, Manifest
  <2>. HIDE DEF first, own
  <2>4. \A f \in Log : a.since[f] <= later[f]
    <3>. SUFFICES ASSUME NEW f \in Log PROVE a.since[f] <= later[f]
      OBVIOUS
    <3>1. a.since[f] \in Nat /\ now[f] \in Nat /\ later[f] \in Nat /\ a.since[f] <= now[f]
          /\ now[f] <= later[f]
      BY <2>1, <2>2
    <3>. QED  BY <3>1
  <2>5. StampsOK(a.run, later, first, a.stamps)
    BY <2>1, <2>2, StampsGrow
  <2>6. a.step \in {"locking", "copying"} => StampsOK(a.run, later, own, a.seen)
    BY <2>1, <2>2, <2>3, StampsGrow
  <2>7. a.step \in {"build", "memory"} => Tells(a.run, a.read, later, a.stamps, a.rows, a.stays)
    BY <2>1, <2>2, TellsGrows
  <2>8. a.step \in {"hit", "opened"} => Tells(a.run, all, later, a.stamps, a.rows, a.stays)
    <3>. HIDE DEF all
    <3>1. all <= Len(Sources[a.run])
      BY <2>3 DEF all
    <3>. QED  BY <2>1, <2>2, <2>3, <3>1, TellsGrows
  <2>. QED  BY <2>1, <2>4, <2>5, <2>6, <2>7, <2>8 DEF AskOK, first, own
<1>. QED  BY <1>1, <1>2

-----------------------------------------------------------------------------
(* What each step has to show                                              *)

\* The data that DataInv speaks of beside what a step of the run or a query changes.
run_data == <<ordered, prepared, col>>
query_data == <<copy, ask>>

LEMMA IdleDiffers == ASSUME NEW a \in Question PROVE a # Idle /\ a.step \in Steps /\ a.run \in Run
<1>1. a.step \in Steps /\ a.run \in Run
  BY DEF Question
<1>2. Idle.step = "idle" /\ "idle" \notin Steps
  BY DEF Idle, Steps
<1>. QED  BY <1>1, <1>2

LEMMA AskRun ==
    ASSUME Asking, NEW q \in Query, ask[q].step # "idle"
    PROVE  /\ ask[q] \in Question /\ RunOf(q) \in Run /\ AskOK(ask[q], log[RunOf(q)])
<1>1. ask[q] # Idle
  BY DEF Idle
<1>2. AskOK(ask[q], log[ask[q].run])
  BY <1>1 DEF Asking
<1>3. ask[q] \in Question
  BY <1>1, <1>2 DEF AskOK
<1>. QED  BY <1>2, <1>3, IdleDiffers DEF RunOf

\* A log or a context is replaced.
LEMMA WorldMoves ==
    ASSUME DataInv, UNCHANGED <<run_data, query_data>>,
           log' \in [Run -> [Log -> Nat]], context' \in [Run -> Nat \ {0}],
           \A r \in Run : context[r] <= context'[r] /\ \A f \in Log : log[r][f] <= log'[r][f]
    PROVE  DataInv'
<1>. USE DEF run_data, query_data
<1>1. Sorts'
  BY DEF DataInv, Sorts
<1>2. ASSUME NEW r \in Run
      PROVE  log[r] \in [Log -> Nat] /\ log'[r] \in [Log -> Nat]
             /\ context[r] \in Nat \ {0} /\ context'[r] \in Nat \ {0} /\ context[r] <= context'[r]
             /\ \A f \in Log : log[r][f] <= log'[r][f]
  BY <1>2 DEF DataInv, Sorts
<1>3. Collecting'
  <2>. SUFFICES ASSUME NEW r \in Run, NEW f \in Log
               PROVE  ColOK(r, f, log'[r], context'[r], col[r][f])
    BY DEF Collecting
  <2>1. ColOK(r, f, log[r], context[r], col[r][f])
    BY DEF DataInv, Collecting
  <2>. QED  BY <1>2, <2>1, ColGrows
<1>4. Preparing'
  <2>. SUFFICES ASSUME NEW r \in Run PROVE DbOK(r, log'[r], context'[r], prepared[r])
    BY DEF Preparing
  <2>1. DbOK(r, log[r], context[r], prepared[r])
    BY DEF DataInv, Preparing
  <2>. QED  BY <1>2, <2>1, DbGrows
<1>5. Ordering'
  <2>. SUFFICES ASSUME NEW r \in ordered
               PROVE  /\ \A f \in LogSet(r) : col[r][f].step = "done"
                      /\ Settled(r, log'[r], context'[r], prepared[r])
    BY DEF Ordering
  <2>1. r \in Run /\ DbOK(r, log[r], context[r], prepared[r])
        /\ Settled(r, log[r], context[r], prepared[r])
        /\ \A f \in LogSet(r) : col[r][f].step = "done"
    BY DEF DataInv, Sorts, Preparing, Ordering
  <2>2. Settled(r, log'[r], context'[r], prepared[r])
    BY <1>2, <2>1, SettledGrows
  <2>. QED  BY <2>1, <2>2
<1>6. Copying'
  <2>. SUFFICES ASSUME NEW r \in Run PROVE CopyOK(r, log'[r], copy[r])
    BY DEF Copying
  <2>1. CopyOK(r, log[r], copy[r])
    BY DEF DataInv, Copying
  <2>. QED  BY <1>2, <2>1, CopyGrows
<1>7. Asking'
  <2>. SUFFICES ASSUME NEW q \in Query
               PROVE  ask[q] = Idle \/ AskOK(ask[q], log'[ask[q].run])
    BY DEF Asking
  <2>1. CASE ask[q] # Idle
    <3>1. AskOK(ask[q], log[ask[q].run])
      BY <2>1 DEF DataInv, Asking
    <3>2. ask[q].run \in Run
      BY <2>1, <3>1, IdleDiffers DEF AskOK
    <3>. QED  BY <1>2, <3>1, <3>2, AskGrows
  <2>. QED  BY <2>1
<1>. QED  BY <1>1, <1>3, <1>4, <1>5, <1>6, <1>7 DEF DataInv

\* A collector moves on, and may write the database of its run.
LEMMA CollectorMoves ==
    ASSUME DataInv, UNCHANGED <<log, context, ordered, query_data>>,
           NEW r \in Run \ ordered, NEW f \in Log,
           NEW x, ColOK(r, f, log[r], context[r], x), SetCol(r, f, x),
           NEW db, DbOK(r, log[r], context[r], db), prepared' = [prepared EXCEPT ![r] = db]
    PROVE  DataInv'
<1>. USE DEF query_data
<1>1. Sorts'
  BY DEF DataInv, Sorts, SetCol
<1>2. ASSUME NEW s \in Run
      PROVE  prepared'[s] = IF s = r THEN db ELSE prepared[s]
  BY DEF DataInv, Sorts
<1>3. ASSUME NEW s \in Run, NEW g \in Log
      PROVE  col'[s][g] = IF s = r /\ g = f THEN x ELSE col[s][g]
  <2>1. DOMAIN col = Run /\ DOMAIN col[s] = Log
    BY DEF DataInv, Sorts
  <2>. QED  BY <2>1 DEF SetCol
<1>4. Collecting'
  <2>. SUFFICES ASSUME NEW s \in Run, NEW g \in Log
               PROVE  ColOK(s, g, log[s], context[s], col'[s][g])
    BY DEF Collecting
  <2>1. ColOK(s, g, log[s], context[s], col[s][g])
    BY DEF DataInv, Collecting
  <2>. QED  BY <1>3, <2>1
<1>5. Preparing'
  <2>. SUFFICES ASSUME NEW s \in Run PROVE DbOK(s, log[s], context[s], prepared'[s])
    BY DEF Preparing
  <2>1. DbOK(s, log[s], context[s], prepared[s])
    BY DEF DataInv, Preparing
  <2>. QED  BY <1>2, <2>1
<1>6. Ordering'
  <2>. SUFFICES ASSUME NEW s \in ordered
               PROVE  /\ \A g \in LogSet(s) : col'[s][g].step = "done"
                      /\ Settled(s, log[s], context[s], prepared'[s])
    BY DEF Ordering
  <2>1. s \in Run /\ s # r
    BY DEF DataInv, Sorts
  <2>2. prepared'[s] = prepared[s] /\ \A g \in LogSet(s) : col'[s][g] = col[s][g]
    BY <1>2, <1>3, <2>1, LogSetType
  <2>. QED  BY <2>2 DEF DataInv, Ordering
<1>7. Copying'
  BY DEF DataInv, Copying
<1>8. Asking'
  BY DEF DataInv, Asking
<1>. QED  BY <1>1, <1>4, <1>5, <1>6, <1>7, <1>8 DEF DataInv

\* A query moves on, and may write or remove a copy.
LEMMA QueryMoves ==
    ASSUME DataInv, UNCHANGED <<log, context, run_data>>,
           NEW q \in Query, NEW a, a = Idle \/ AskOK(a, log[a.run]), ask' = [ask EXCEPT ![q] = a],
           NEW r \in Run, NEW file, CopyOK(r, log[r], file), copy' = [copy EXCEPT ![r] = file]
    PROVE  DataInv'
<1>. USE DEF run_data
<1>1. Sorts'
  BY DEF DataInv, Sorts
<1>2. Collecting' /\ Preparing' /\ Ordering'
  BY DEF DataInv, Collecting, Preparing, Ordering
<1>3. Copying'
  <2>. SUFFICES ASSUME NEW s \in Run PROVE CopyOK(s, log[s], copy'[s])
    BY DEF Copying
  <2>1. CopyOK(s, log[s], copy[s]) /\ copy'[s] = IF s = r THEN file ELSE copy[s]
    BY DEF DataInv, Sorts, Copying
  <2>. QED  BY <2>1
<1>4. Asking'
  <2>. SUFFICES ASSUME NEW p \in Query
               PROVE  ask'[p] = Idle \/ AskOK(ask'[p], log[ask'[p].run])
    BY DEF Asking
  <2>1. (ask[p] = Idle \/ AskOK(ask[p], log[ask[p].run])) /\ ask'[p] = IF p = q THEN a ELSE ask[p]
    BY DEF DataInv, Sorts, Asking
  <2>. QED  BY <2>1
<1>. QED  BY <1>1, <1>2, <1>3, <1>4 DEF DataInv

LEMMA QueryGoesOn ==
    ASSUME DataInv, UNCHANGED <<log, context, run_data, copy>>,
           NEW q \in Query, NEW a, a = Idle \/ AskOK(a, log[a.run]), ask' = [ask EXCEPT ![q] = a]
    PROVE  DataInv'
<1>. USE DEF run_data
<1>1. Sorts'
  BY DEF DataInv, Sorts
<1>2. Collecting' /\ Preparing' /\ Ordering' /\ Copying'
  BY DEF DataInv, Collecting, Preparing, Ordering, Copying
<1>4. Asking'
  <2>. SUFFICES ASSUME NEW p \in Query
               PROVE  ask'[p] = Idle \/ AskOK(ask'[p], log[ask'[p].run])
    BY DEF Asking
  <2>1. (ask[p] = Idle \/ AskOK(ask[p], log[ask[p].run])) /\ ask'[p] = IF p = q THEN a ELSE ask[p]
    BY DEF DataInv, Sorts, Asking
  <2>. QED  BY <2>1
<1>. QED  BY <1>1, <1>2, <1>4 DEF DataInv

-----------------------------------------------------------------------------
(* Steps of the world and of the run                                       *)

LEMMA DataInit == CacheInit => DataInv
<1>. SUFFICES ASSUME CacheInit PROVE DataInv
  OBVIOUS
<1>1. Sorts
  BY DEF CacheInit, Sorts
<1>2. Collecting
  BY DEF CacheInit, Collecting, ColOK
<1>3. Preparing
  BY DEF CacheInit, Preparing, DbOK
<1>4. Ordering
  BY DEF CacheInit, Ordering
<1>5. Copying
  BY DEF CacheInit, Copying, CopyOK
<1>6. Asking
  BY DEF CacheInit, Asking
<1>. QED  BY <1>1, <1>2, <1>3, <1>4, <1>5, <1>6 DEF DataInv

LEMMA Worlds ==
    ASSUME DataInv, NEW r \in Run
    PROVE  log[r] \in [Log -> Nat] /\ context[r] \in Nat \ {0}
BY DEF DataInv, Sorts

LEMMA ReplaceLogKeeps ==
    ASSUME DataInv, NEW r \in Run, NEW f \in Log, ReplaceLog(r, f)
    PROVE  DataInv'
<1>1. log' = [log EXCEPT ![r][f] = log[r][f] + 1] /\ context' = context
      /\ UNCHANGED <<run_data, query_data>>
  BY DEF ReplaceLog, run_vars, query_vars, run_data, query_data
<1>2. log \in [Run -> [Log -> Nat]] /\ context \in [Run -> Nat \ {0}]
  BY DEF DataInv, Sorts
<1>3. PICK n \in Nat : n = log[r][f]
  BY <1>2
<1>4. n + 1 \in Nat /\ n <= n + 1
  OBVIOUS
<1>5. log' = [log EXCEPT ![r][f] = n + 1]
  BY <1>1, <1>3
<1>6. log' \in [Run -> [Log -> Nat]]
  BY <1>2, <1>4, <1>5
<1>7. ASSUME NEW s \in Run, NEW g \in Log PROVE log[s][g] <= log'[s][g]
  <2>1. log'[s][g] = IF s = r /\ g = f THEN n + 1 ELSE log[s][g]
    BY <1>2, <1>5
  <2>2. log[s][g] \in Nat
    BY <1>2
  <2>. QED  BY <1>3, <1>4, <2>1, <2>2
<1>8. \A s \in Run : context[s] <= context'[s]
  BY <1>1, <1>2
<1>. QED  BY <1>1, <1>2, <1>6, <1>7, <1>8, WorldMoves

LEMMA ChangeContextKeeps ==
    ASSUME DataInv, NEW r \in Run, ChangeContext(r)
    PROVE  DataInv'
<1>1. context' = [context EXCEPT ![r] = context[r] + 1] /\ log' = log
      /\ UNCHANGED <<run_data, query_data>>
  BY DEF ChangeContext, run_vars, query_vars, run_data, query_data
<1>2. log \in [Run -> [Log -> Nat]] /\ context \in [Run -> Nat \ {0}]
  BY DEF DataInv, Sorts
<1>3. PICK n \in Nat \ {0} : n = context[r]
  BY <1>2
<1>4. n + 1 \in Nat \ {0} /\ n <= n + 1
  OBVIOUS
<1>5. context' = [context EXCEPT ![r] = n + 1]
  BY <1>1, <1>3
<1>6. context' \in [Run -> Nat \ {0}]
  BY <1>2, <1>4, <1>5
<1>7. ASSUME NEW s \in Run PROVE context[s] <= context'[s]
  <2>1. context'[s] = IF s = r THEN n + 1 ELSE context[s]
    BY <1>2, <1>5
  <2>2. context[s] \in Nat
    BY <1>2
  <2>. QED  BY <1>3, <1>4, <2>1, <2>2
<1>8. \A s \in Run, g \in Log : log[s][g] <= log'[s][g]
  BY <1>1, <1>2
<1>. QED  BY <1>1, <1>2, <1>6, <1>7, <1>8, WorldMoves

\* A collector in the middle of its work is of a log of its run, which is not in order yet.
LEMMA ColParts ==
    ASSUME DataInv, NEW r \in Run, NEW f \in Log,
           col[r][f].step \in {"stamped", "parsed", "locked", "looked"}
    PROVE  /\ f \in LogSet(r) /\ r \notin ordered
           /\ \E n \in 1..context[r], s \in 0..log[r][f] :
                /\ col[r][f].context = n /\ col[r][f].stamp = s
                /\ col[r][f].step = "stamped" =>
                     col[r][f] = [step |-> "stamped", context |-> n, stamp |-> s]
                /\ col[r][f].step = "parsed" => \E d \in s..log[r][f] :
                     col[r][f] = [step |-> "parsed", context |-> n, stamp |-> s, read |-> d]
                /\ col[r][f].step = "locked" =>
                     col[r][f] = [step |-> "locked", context |-> n, stamp |-> s, read |-> s]
                /\ col[r][f].step = "looked" =>
                     /\ col[r][f].read = s
                     /\ DbOK(r, log[r], context[r], col[r][f].found)
<1>. DEFINE x == col[r][f]
<1>1. ColOK(r, f, log[r], context[r], x)
  BY DEF DataInv, Collecting
<1>2. x # Waiting /\ x # [step |-> "done"]
  BY DEF Waiting
<1>. HIDE DEF x
<1>3. f \in LogSet(r)
  BY <1>1, <1>2 DEF ColOK
<1>4. PICK n \in 1..context[r], s \in 0..log[r][f] :
            \/ x = [step |-> "stamped", context |-> n, stamp |-> s]
            \/ \E d \in s..log[r][f] :
                x = [step |-> "parsed", context |-> n, stamp |-> s, read |-> d]
            \/ x = [step |-> "locked", context |-> n, stamp |-> s, read |-> s]
            \/ \E db :
                /\ DbOK(r, log[r], context[r], db) /\ (db = NoDb \/ db.context = n)
                /\ x = [step |-> "looked", context |-> n, stamp |-> s, read |-> s, found |-> db]
  BY <1>1, <1>2 DEF ColOK
<1>5. x.context = n /\ x.stamp = s
  BY <1>4
<1>6. x.step = "stamped" => x = [step |-> "stamped", context |-> n, stamp |-> s]
  BY <1>4
<1>7. x.step = "parsed" => \E d \in s..log[r][f] :
        x = [step |-> "parsed", context |-> n, stamp |-> s, read |-> d]
  BY <1>4
<1>8. x.step = "locked" => x = [step |-> "locked", context |-> n, stamp |-> s, read |-> s]
  BY <1>4
<1>9. x.step = "looked" => x.read = s /\ DbOK(r, log[r], context[r], x.found)
  BY <1>4
<1>10. r \notin ordered
  <2>1. r \in ordered => col[r][f].step = "done"
    BY <1>3 DEF DataInv, Ordering
  <2>. QED  BY <2>1
<1>. QED  BY <1>3, <1>5, <1>6, <1>7, <1>8, <1>9, <1>10 DEF x

LEMMA StampKeeps ==
    ASSUME DataInv, NEW r \in Run, NEW f \in Log, Stamp(r, f)
    PROVE  DataInv'
<1>. DEFINE x == [step |-> "stamped", context |-> context[r], stamp |-> log[r][f]]
<1>1. SetCol(r, f, x) /\ f \in LogSet(r) /\ UNCHANGED <<log, context, ordered, prepared, query_data>>
  BY DEF Stamp, world, query_vars, query_data
<1>2. r \notin ordered
  <2>1. col[r][f].step = "measuring"
    BY DEF Stamp
  <2>2. r \in ordered => col[r][f].step = "done"
    BY <1>1 DEF DataInv, Ordering
  <2>. QED  BY <2>1, <2>2
<1>3. context[r] \in 1..context[r] /\ log[r][f] \in 0..log[r][f]
  BY Worlds
<1>4. ColOK(r, f, log[r], context[r], x)
  BY <1>1, <1>3 DEF ColOK
<1>5. prepared' = [prepared EXCEPT ![r] = prepared[r]] /\ DbOK(r, log[r], context[r], prepared[r])
  BY <1>1 DEF DataInv, Sorts, Preparing
<1>. HIDE DEF x
<1>. QED  BY <1>1, <1>2, <1>4, <1>5, CollectorMoves

LEMMA ParseKeeps ==
    ASSUME DataInv, NEW r \in Run, NEW f \in Log, Parse(r, f)
    PROVE  DataInv'
<1>. DEFINE x == [step |-> "parsed", context |-> col[r][f].context,
                  stamp |-> col[r][f].stamp, read |-> log[r][f]]
<1>1. SetCol(r, f, x) /\ col[r][f].step = "stamped"
      /\ UNCHANGED <<log, context, ordered, prepared, query_data>>
  BY DEF Parse, world, query_vars, query_data
<1>2. /\ f \in LogSet(r) /\ r \notin ordered
      /\ \E n \in 1..context[r], s \in 0..log[r][f] :
           col[r][f].context = n /\ col[r][f].stamp = s
  BY <1>1, ColParts, ZenonT(40)
<1>3. log[r][f] \in Nat
  BY Worlds
<1>4. ColOK(r, f, log[r], context[r], x)
  <2>1. PICK n \in 1..context[r], s \in 0..log[r][f] :
          col[r][f].context = n /\ col[r][f].stamp = s
    BY <1>2
  <2>2. log[r][f] \in s..log[r][f]
    BY <1>3, <2>1
  <2>. QED  BY <1>2, <2>1, <2>2 DEF ColOK
<1>5. prepared' = [prepared EXCEPT ![r] = prepared[r]] /\ DbOK(r, log[r], context[r], prepared[r])
  BY <1>1 DEF DataInv, Sorts, Preparing
<1>. HIDE DEF x
<1>. QED  BY <1>1, <1>2, <1>4, <1>5, CollectorMoves

LEMMA DoneOK ==
    ASSUME NEW r \in Run, NEW f \in Log, NEW now, NEW c
    PROVE  ColOK(r, f, now, c, [step |-> "done"])
BY DEF ColOK

LEMMA WarmLockKeeps ==
    ASSUME DataInv, NEW r \in Run, NEW f \in Log, WarmLock(r, f)
    PROVE  DataInv'
<1>1. col[r][f].step = "parsed" /\ UNCHANGED <<log, context, ordered, prepared, query_data>>
  BY DEF WarmLock, world, query_vars, query_data
<1>2. f \in LogSet(r) /\ r \notin ordered
  BY <1>1, ColParts
<1>3. prepared' = [prepared EXCEPT ![r] = prepared[r]] /\ DbOK(r, log[r], context[r], prepared[r])
  BY <1>1 DEF DataInv, Sorts, Preparing
<1>4. CASE log[r][f] = col[r][f].stamp
  <2>. DEFINE x == [col[r][f] EXCEPT !.step = "locked"]
  <2>1. SetCol(r, f, x)
    BY <1>4 DEF WarmLock
  <2>1a. PICK n \in 1..context[r], s \in 0..log[r][f] :
          /\ col[r][f].stamp = s
          /\ \E d \in s..log[r][f] :
               col[r][f] = [step |-> "parsed", context |-> n, stamp |-> s, read |-> d]
    BY <1>1, ColParts, ZenonT(40)
  <2>2. PICK d \in s..log[r][f] :
          col[r][f] = [step |-> "parsed", context |-> n, stamp |-> s, read |-> d]
    BY <2>1a
  <2>3. d = s
    BY <1>4, <2>1a, <2>2, Worlds
  <2>4. x = [step |-> "locked", context |-> n, stamp |-> s, read |-> s]
    BY <2>2, <2>3
  <2>5. ColOK(r, f, log[r], context[r], x)
    BY <1>2, <2>4 DEF ColOK
  <2>. HIDE DEF x
  <2>. QED  BY <1>1, <1>2, <1>3, <2>1, <2>5, CollectorMoves
<1>5. CASE log[r][f] # col[r][f].stamp
  <2>1. SetCol(r, f, [step |-> "done"])
    BY <1>5 DEF WarmLock
  <2>. QED  BY <1>1, <1>2, <1>3, <2>1, DoneOK, CollectorMoves
<1>. QED  BY <1>4, <1>5

LEMMA WarmLookKeeps ==
    ASSUME DataInv, NEW r \in Run, NEW f \in Log, WarmLook(r, f)
    PROVE  DataInv'
<1>. DEFINE db == IF IsFile(prepared[r]) /\ prepared[r].context = col[r][f].context
                  THEN prepared[r] ELSE NoDb
            x == [step |-> "looked", context |-> col[r][f].context, stamp |-> col[r][f].stamp,
                  read |-> col[r][f].read, found |-> db]
<1>1. col[r][f].step = "locked" /\ SetCol(r, f, x)
      /\ UNCHANGED <<log, context, ordered, prepared, query_data>>
  BY DEF WarmLook, world, query_vars, query_data
<1>2. f \in LogSet(r) /\ r \notin ordered
  BY <1>1, ColParts
<1>3. prepared' = [prepared EXCEPT ![r] = prepared[r]] /\ DbOK(r, log[r], context[r], prepared[r])
  BY <1>1 DEF DataInv, Sorts, Preparing
<1>4. PICK n \in 1..context[r], s \in 0..log[r][f] :
        col[r][f] = [step |-> "locked", context |-> n, stamp |-> s, read |-> s]
  BY <1>1, ColParts
<1>5. DbOK(r, log[r], context[r], db) /\ (db = NoDb \/ db.context = n)
  BY <1>3, <1>4 DEF DbOK
<1>6. x = [step |-> "looked", context |-> n, stamp |-> s, read |-> s, found |-> db]
  BY <1>4
<1>7. ColOK(r, f, log[r], context[r], x)
  <2>. HIDE DEF x, db
  <2>. QED  BY <1>2, <1>5, <1>6 DEF ColOK
<1>. HIDE DEF x
<1>. QED  BY <1>1, <1>2, <1>3, <1>7, CollectorMoves

LEMMA WarmCommitKeeps ==
    ASSUME DataInv, NEW r \in Run, NEW f \in Log, WarmCommit(r, f)
    PROVE  DataInv'
<1>. DEFINE db == Warmed(col[r][f].found, f, col[r][f])
<1>1. col[r][f].step = "looked" /\ SetCol(r, f, [step |-> "done"])
      /\ prepared' = [prepared EXCEPT ![r] = db]
      /\ UNCHANGED <<log, context, ordered, query_data>>
  BY DEF WarmCommit, world, query_vars, query_data
<1>2. f \in LogSet(r) /\ r \notin ordered
  BY <1>1, ColParts
<1>3. PICK n \in 1..context[r], s \in 0..log[r][f] :
        /\ col[r][f].context = n /\ col[r][f].stamp = s /\ col[r][f].read = s
        /\ DbOK(r, log[r], context[r], col[r][f].found)
  BY <1>1, ColParts
<1>4. s \in Nat /\ s <= log[r][f]
  BY <1>3, Worlds
<1>5. log[r] \in [Log -> Nat] /\ context[r] \in Nat \ {0}
  BY Worlds
<1>6. DbOK(r, log[r], context[r], db)
  BY <1>2, <1>3, <1>4, <1>5, WarmedOK
<1>. HIDE DEF db
<1>. QED  BY <1>1, <1>2, <1>6, DoneOK, CollectorMoves

LEMMA WarmFailsKeeps ==
    ASSUME DataInv, NEW r \in Run, NEW f \in Log, WarmFails(r, f)
    PROVE  DataInv'
<1>1. col[r][f].step \in {"parsed", "locked", "looked"} /\ SetCol(r, f, [step |-> "done"])
      /\ UNCHANGED <<log, context, ordered, prepared, query_data>>
  BY DEF WarmFails, world, query_vars, query_data
<1>2. f \in LogSet(r) /\ r \notin ordered
  BY <1>1, ColParts
<1>3. prepared' = [prepared EXCEPT ![r] = prepared[r]] /\ DbOK(r, log[r], context[r], prepared[r])
  BY <1>1 DEF DataInv, Sorts, Preparing
<1>. QED  BY <1>1, <1>2, <1>3, DoneOK, CollectorMoves

\* The database that the end of the run leaves: in order, or left alone for a reason
\* for which no query finds all its logs in it either.
Offered(r, now, c, db) ==
    IF /\ Len(Sources[r]) > 1 /\ IsFile(db)
       /\ Reorderable(db, c, StampsNow(r, now))
    THEN Reordered(db, StampsNow(r, now)) ELSE db

LEMMA StampsAreNow ==
    ASSUME NEW r \in Run
    PROVE  Stamps(r) = StampsNow(r, log[r])
BY Manifest DEF Stamps, StampsNow

LEMMA OfferedSettles ==
    ASSUME NEW r \in Run, NEW now \in [Log -> Nat], NEW c \in Nat \ {0}, NEW db,
           DbOK(r, now, c, db)
    PROVE  DbOK(r, now, c, Offered(r, now, c, db)) /\ Settled(r, now, c, Offered(r, now, c, db))
<1>. DEFINE n == Len(Sources[r])
            stamps == StampsNow(r, now)
            new == Reordered(db, stamps)
<1>1. CASE n > 1 /\ IsFile(db) /\ Reorderable(db, c, stamps)
  <2>1. DbOK(r, now, c, new) /\ \A k \in 1..n : new.sources[k].stamp.file = Sources[r][k]
    BY <1>1, ReorderedOK
  <2>2. Offered(r, now, c, db) = new
    BY <1>1 DEF Offered
  <2>. HIDE DEF new
  <2>. QED  BY <2>1, <2>2 DEF Settled
<1>2. CASE db = NoDb
  <2>1. Offered(r, now, c, db) = db
    BY <1>2 DEF Offered, IsFile
  <2>. QED  BY <1>2, <2>1 DEF Settled
<1>3. CASE IsFile(db) /\ ~(n > 1 /\ Reorderable(db, c, stamps))
  <2>1. Offered(r, now, c, db) = db
    BY <1>3 DEF Offered
  <2>2. db.context \in 1..c /\ db.sources \in Seq(Entries(r, now))
    BY <1>3, DbParts
  <2>3. n \in Nat /\ DOMAIN stamps = 1..n
        /\ \A k \in 1..n : stamps[k] = [file |-> Sources[r][k], version |-> now[Sources[r][k]]]
    BY Manifest DEF StampsNow
  <2>4. DOMAIN db.sources = 1..Len(db.sources)
    BY <2>2
  <2>5. CASE db.context # c
    <3>1. db.context < c
      BY <2>2, <2>5
    <3>. QED  BY <2>1, <3>1 DEF Settled
  <2>6. CASE Len(db.sources) # n
    BY <2>1, <2>6 DEF Settled
  <2>7. CASE Len(db.sources) = n /\ StampsOf(db) = stamps
    <3>1. ASSUME NEW k \in 1..n PROVE db.sources[k].stamp.file = Sources[r][k]
      <4>1. StampsOf(db)[k] = db.sources[k].stamp
        BY <2>4, <2>7 DEF StampsOf
      <4>2. stamps[k].file = Sources[r][k]
        <5>1. stamps[k] = [file |-> Sources[r][k], version |-> now[Sources[r][k]]]
          BY <2>3, <3>1
        <5>. HIDE DEF stamps
        <5>. QED  BY <5>1
      <4>. QED  BY <2>7, <4>1, <4>2
    <3>. QED  BY <2>1, <3>1 DEF Settled
  <2>8. CASE Len(db.sources) = n /\ n <= 1
    <3>1. ASSUME NEW k \in 1..n PROVE db.sources[k].stamp.file = Sources[r][k]
      <4>1. k \in 1..Len(db.sources) /\ db.sources[k] \in Entries(r, now)
        BY <2>2, <2>8
      <4>2. db.sources[k].stamp.file \in LogSet(r)
        BY <4>1, EntryFacts
      <4>3. PICK j \in 1..n : Sources[r][j] = db.sources[k].stamp.file
        BY <4>2, LogSetType
      <4>4. j = k
        BY <2>3, <2>8
      <4>. QED  BY <4>3, <4>4
    <3>. QED  BY <2>1, <3>1 DEF Settled
  <2>9. CASE db.context = c /\ Len(db.sources) = n /\ StampsOf(db) # stamps /\ n > 1
    <3>1. Len(stamps) = n
      BY <2>3
    <3>2. PICK k \in 1..n : \A j \in DOMAIN db.sources : db.sources[j].stamp # stamps[k]
      BY <1>3, <2>3, <2>9, <3>1 DEF Reorderable
    <3>3. \A j \in 1..Len(db.sources) :
            db.sources[j].stamp # [file |-> Sources[r][k], version |-> now[Sources[r][k]]]
      BY <2>3, <2>4, <3>2
    <3>. QED  BY <2>1, <3>3 DEF Settled
  <2>10. DbOK(r, now, c, Offered(r, now, c, db))
    BY <2>1
  <2>11. Settled(r, now, c, Offered(r, now, c, db))
    BY <2>3, <2>5, <2>6, <2>7, <2>8, <2>9
  <2>. QED  BY <2>10, <2>11
<1>. QED  BY <1>1, <1>2, <1>3 DEF IsFile

LEMMA PrepareOrderKeeps ==
    ASSUME DataInv, NEW r \in Run, PrepareOrder(r)
    PROVE  DataInv'
<1>. DEFINE new == Offered(r, log[r], context[r], prepared[r])
<1>1. prepared' = [prepared EXCEPT ![r] = new]
  <2>1. r \in DOMAIN prepared
    BY DEF DataInv, Sorts
  <2>. QED  BY <2>1, StampsAreNow DEF PrepareOrder, Offered
<1>2. ordered' = ordered \cup {r} /\ UNCHANGED <<log, context, col, copy, ask>>
      /\ \A f \in LogSet(r) : col[r][f].step = "done"
  BY DEF PrepareOrder, Collected, world, query_vars
<1>3. DbOK(r, log[r], context[r], new) /\ Settled(r, log[r], context[r], new)
  <2>1. DbOK(r, log[r], context[r], prepared[r])
    BY DEF DataInv, Preparing
  <2>. QED  BY <2>1, Worlds, OfferedSettles
<1>. HIDE DEF new
<1>4. ASSUME NEW s \in Run PROVE prepared'[s] = IF s = r THEN new ELSE prepared[s]
  BY <1>1 DEF DataInv, Sorts
<1>5. Sorts'
  BY <1>1, <1>2 DEF DataInv, Sorts
<1>6. Collecting' /\ Copying' /\ Asking'
  BY <1>2 DEF DataInv, Collecting, Copying, Asking
<1>7. Preparing'
  BY <1>2, <1>3, <1>4 DEF DataInv, Preparing
<1>8. Ordering'
  <2>. SUFFICES ASSUME NEW s \in ordered'
               PROVE  /\ \A f \in LogSet(s) : col[s][f].step = "done"
                      /\ Settled(s, log[s], context[s], prepared'[s])
    BY <1>2 DEF Ordering
  <2>1. CASE s = r
    BY <1>2, <1>3, <1>4, <2>1
  <2>2. CASE s # r
    <3>1. s \in ordered /\ s \in Run
      BY <1>2, <2>2 DEF DataInv, Sorts
    <3>. QED  BY <1>4, <2>2, <3>1 DEF DataInv, Ordering
  <2>. QED  BY <2>1, <2>2
<1>. QED  BY <1>5, <1>6, <1>7, <1>8 DEF DataInv

LEMMA SaveKeeps ==
    ASSUME DataInv, NEW r \in Run, Save(r)
    PROVE  DataInv'
<1>1. UNCHANGED <<log, context, ordered, prepared, col, copy, ask>>
  BY DEF Save, world, query_vars
<1>. QED  BY <1>1 DEF DataInv, Sorts, Collecting, Preparing, Ordering, Copying, Asking

LEMMA KilledKeeps ==
    ASSUME DataInv, NEW r \in Run, Killed(r)
    PROVE  DataInv'
<1>1. UNCHANGED <<log, context, ordered, prepared, copy, ask>>
      /\ col' = [col EXCEPT ![r] = [f \in Log |-> [step |-> "done"]]]
  BY DEF Killed, world, query_vars
<1>2. ASSUME NEW s \in Run, NEW f \in Log
      PROVE  col'[s][f] = IF s = r THEN [step |-> "done"] ELSE col[s][f]
  BY <1>1 DEF DataInv, Sorts
<1>3. Sorts'
  BY <1>1 DEF DataInv, Sorts
<1>4. Collecting'
  <2>. SUFFICES ASSUME NEW s \in Run, NEW f \in Log
               PROVE  ColOK(s, f, log[s], context[s], col'[s][f])
    BY <1>1 DEF Collecting
  <2>1. ColOK(s, f, log[s], context[s], col[s][f])
    BY DEF DataInv, Collecting
  <2>. QED  BY <1>2, <2>1, DoneOK
<1>5. Ordering'
  <2>. SUFFICES ASSUME NEW s \in ordered
               PROVE  /\ \A f \in LogSet(s) : col'[s][f].step = "done"
                      /\ Settled(s, log[s], context[s], prepared[s])
    BY <1>1 DEF Ordering
  <2>1. s \in Run
    BY DEF DataInv, Sorts
  <2>2. ASSUME NEW f \in LogSet(s) PROVE col'[s][f].step = "done"
    <3>1. f \in Log /\ col[s][f].step = "done"
      BY <2>1, LogSetType DEF DataInv, Ordering
    <3>. QED  BY <1>2, <2>1, <3>1
  <2>. QED  BY <2>2 DEF DataInv, Ordering
<1>6. Preparing' /\ Copying' /\ Asking'
  BY <1>1 DEF DataInv, Preparing, Copying, Asking
<1>. QED  BY <1>3, <1>4, <1>5, <1>6 DEF DataInv

-----------------------------------------------------------------------------
(* Steps of a query                                                        *)

LEMMA AskParts ==
    ASSUME DataInv, NEW q \in Query, ask[q].step # "idle"
    PROVE  /\ RunOf(q) \in Run /\ ask[q].run = RunOf(q) /\ ask[q] \in Question /\ ask[q] # Idle
           /\ AskOK(ask[q], log[RunOf(q)])
           /\ log[RunOf(q)] \in [Log -> Nat] /\ Len(Sources[RunOf(q)]) \in Nat
           /\ ask[q].stamps \in Seq(Mark) /\ ask[q].seen \in Seq(Mark) /\ ask[q].read \in Nat
           /\ ask[q].rows \in Seq(Row) /\ ask[q].stays \in SUBSET Row
           /\ ask[q].victims \in SUBSET Run /\ ask[q].context \in Nat /\ ask[q].since \in [Log -> Nat]
<1>1. ask[q] \in Question /\ RunOf(q) \in Run /\ AskOK(ask[q], log[RunOf(q)])
  BY AskRun DEF DataInv
<1>2. ask[q] # Idle
  BY <1>1, IdleDiffers
<1>3. log[RunOf(q)] \in [Log -> Nat] /\ Len(Sources[RunOf(q)]) \in Nat
  BY <1>1, Worlds, Manifest
<1>4. /\ ask[q].stamps \in Seq(Mark) /\ ask[q].seen \in Seq(Mark) /\ ask[q].read \in Nat
      /\ ask[q].rows \in Seq(Row) /\ ask[q].stays \in SUBSET Row
      /\ ask[q].victims \in SUBSET Run /\ ask[q].context \in Nat /\ ask[q].since \in [Log -> Nat]
  BY <1>1 DEF Question
<1>. QED  BY <1>1, <1>2, <1>3, <1>4 DEF RunOf

\* The stamps of the key are of the logs in their order and none is newer than its log.
LEMMA KeyFacts ==
    ASSUME DataInv, NEW q \in Query, ask[q].step # "idle"
    PROVE  /\ Len(ask[q].stamps) <= Len(Sources[RunOf(q)])
           /\ ask[q].step # "key" => Len(ask[q].stamps) = Len(Sources[RunOf(q)])
           /\ \A k \in 1..Len(ask[q].stamps) :
                /\ ask[q].stamps[k].version \in Nat
                /\ ask[q].stamps[k].file = Sources[RunOf(q)][k]
                /\ ask[q].since[Sources[RunOf(q)][k]] <= ask[q].stamps[k].version
                /\ ask[q].stamps[k].version <= log[RunOf(q)][Sources[RunOf(q)][k]]
<1>. DEFINE a == ask[q]
            r == RunOf(q)
            all == Len(Sources[r])
<1>1. a.run = r /\ AskOK(a, log[r]) /\ a # Idle /\ a.stamps \in Seq(Mark) /\ all \in Nat
  BY AskParts
<1>. HIDE DEF a, r
<1>2. /\ Len(a.stamps) <= all /\ (a.step # "key" => Len(a.stamps) = all)
      /\ StampsOK(r, log[r], [k \in 1..all |-> a.since[Sources[r][k]]], a.stamps)
  BY <1>1 DEF AskOK
<1>3. ASSUME NEW k \in 1..Len(a.stamps)
      PROVE  /\ a.stamps[k].version \in Nat /\ a.stamps[k].file = Sources[r][k]
             /\ a.since[Sources[r][k]] <= a.stamps[k].version
             /\ a.stamps[k].version <= log[r][Sources[r][k]]
  <2>1. k \in 1..all
    BY <1>1, <1>2
  <2>2. a.stamps[k] \in Mark
    BY <1>1
  <2>. QED  BY <1>2, <2>1, <2>2 DEF StampsOK, Mark
<1>. QED  BY <1>2, <1>3 DEF a, r

\* A query with its key goes on with the same question.
LEMMA AskGoesOn ==
    ASSUME NEW now, NEW a, AskOK(a, now), a # Idle, Len(a.stamps) = Len(Sources[a.run]),
           NEW b \in Question, b.run = a.run, b.since = a.since, b.stamps = a.stamps,
           b.step \in {"key", "seek", "locking", "copying"} =>
             b.read = 0 /\ b.rows = <<>> /\ b.stays = {},
           b.step \in {"locking", "copying"} =>
             /\ Len(b.seen) = Len(Sources[b.run])
             /\ StampsOK(b.run, now, [k \in 1..Len(Sources[b.run]) |-> b.stamps[k].version], b.seen),
           b.step \in {"build", "memory"} =>
             /\ b.read <= Len(Sources[b.run])
             /\ Tells(b.run, b.read, now, b.stamps, b.rows, b.stays),
           b.step \in {"hit", "opened"} =>
             Tells(b.run, Len(Sources[b.run]), now, b.stamps, b.rows, b.stays)
    PROVE  AskOK(b, now)
<1>1. Len(Sources[b.run]) \in Nat
  BY IdleDiffers, Manifest
<1>. QED  BY <1>1 DEF AskOK

LEMMA TellsNothing ==
    ASSUME NEW r \in Run, NEW now, NEW stamps
    PROVE  Tells(r, 0, now, stamps, <<>>, {})
<1>. DEFINE vs == [k \in 1..0 |-> 0]
<1>1. vs \in [1..0 -> Nat] /\ \A k \in 1..0 : stamps[k].version <= vs[k] /\ vs[k] <= now[Sources[r][k]]
  OBVIOUS
<1>2. <<>> = Made(r, 0, vs)
  BY MadeNothing
<1>3. {} = ToSet(<<>>)
  BY DEF ToSet
<1>. HIDE DEF vs
<1>. QED  BY <1>1, <1>2, <1>3 DEF Tells

LEMMA AskKeeps ==
    ASSUME DataInv, NEW q \in Query, NEW r \in Run, Ask(q, r)
    PROVE  DataInv'
<1>. DEFINE a == [step |-> "key", run |-> r, since |-> log[r],
                  context |-> context[r], stamps |-> <<>>, rows |-> <<>>, stays |-> {},
                  seen |-> <<>>, read |-> 0, victims |-> {}]
<1>1. ask' = [ask EXCEPT ![q] = a] /\ UNCHANGED <<log, context, run_data, copy>>
  BY DEF Ask, world, run_vars, run_data
<1>2. log[r] \in [Log -> Nat] /\ context[r] \in Nat
  BY Worlds
<1>3. a \in Question
  BY <1>2 DEF Question, Steps
<1>4. Len(Sources[r]) \in Nat
  BY Manifest
<1>5. AskOK(a, log[r])
  <2>1. \A f \in Log : a.since[f] <= log[r][f]
    BY <1>2
  <2>2. Len(a.stamps) = 0 /\ a.step = "key" /\ a.run = r
        /\ a.read = 0 /\ a.rows = <<>> /\ a.stays = {}
    OBVIOUS
  <2>. HIDE DEF a
  <2>3. StampsOK(r, log[r], [k \in 1..Len(Sources[r]) |-> a.since[Sources[r][k]]], a.stamps)
    BY <2>2 DEF StampsOK
  <2>. QED  BY <1>3, <1>4, <2>1, <2>2, <2>3 DEF AskOK
<1>6. a.run = r
  OBVIOUS
<1>. HIDE DEF a
<1>. QED  BY <1>1, <1>5, <1>6, QueryGoesOn

LEMMA KeyLogKeeps ==
    ASSUME DataInv, NEW q \in Query, KeyLog(q)
    PROVE  DataInv'
<1>. DEFINE o == ask[q]
            r == RunOf(q)
            n == Len(o.stamps)
            all == Len(Sources[r])
            g == Sources[r][n + 1]
            mark == [file |-> g, version |-> log[r][g]]
            a == [o EXCEPT !.stamps = Append(o.stamps, mark)]
            first == [k \in 1..all |-> o.since[Sources[r][k]]]
<1>1. o.step = "key" /\ n < all /\ UNCHANGED <<log, context, run_data, copy>>
      /\ ask' = [ask EXCEPT ![q] = [o EXCEPT !.stamps = Append(o.stamps, Stamps(r)[n + 1])]]
  BY DEF KeyLog, Left, world, run_vars, run_data, DataInv, Sorts
<1>2. /\ r \in Run /\ o.run = r /\ o \in Question /\ o # Idle /\ AskOK(o, log[r])
      /\ log[r] \in [Log -> Nat] /\ all \in Nat /\ o.stamps \in Seq(Mark)
      /\ o.since \in [Log -> Nat]
  BY <1>1, AskParts
<1>3. n \in Nat /\ n + 1 \in 1..all
  BY <1>1, <1>2
<1>4. g \in Log /\ log[r][g] \in Nat
  BY <1>2, <1>3, Manifest
<1>5. Stamps(r)[n + 1] = mark
  BY <1>2, <1>3, Manifest DEF Stamps
<1>6. ask' = [ask EXCEPT ![q] = a]
  BY <1>1, <1>5
<1>7. mark \in Mark /\ mark.file = g /\ mark.version = log[r][g]
  BY <1>4 DEF Mark
<1>. HIDE DEF mark, o, r
<1>8. /\ a.step = "key" /\ a.run = r /\ a.since = o.since /\ a.read = o.read /\ a.rows = o.rows
      /\ a.stays = o.stays /\ a.stamps = Append(o.stamps, mark) /\ a \in Question
  <2>. DEFINE new == Append(o.stamps, mark)
  <2>0. new \in Seq(Mark)
    BY <1>2, <1>7
  <2>. HIDE DEF new
  <2>1. PICK more \in Seq(Mark) : more = new
    BY <2>0
  <2>2. a = [o EXCEPT !.stamps = more]
    BY <2>1 DEF new
  <2>. HIDE DEF a
  <2>3. a \in Question
    BY <1>2, <2>2 DEF Question
  <2>4. /\ a.step = "key" /\ a.run = r /\ a.since = o.since /\ a.read = o.read /\ a.rows = o.rows
        /\ a.stays = o.stays /\ a.stamps = more
    BY <1>1, <1>2, <2>2 DEF Question
  <2>. QED  BY <2>1, <2>3, <2>4 DEF new
<1>. HIDE DEF a
<1>9. /\ \A f \in Log : o.since[f] <= log[r][f]
      /\ StampsOK(r, log[r], first, o.stamps)
      /\ o.read = 0 /\ o.rows = <<>> /\ o.stays = {}
  BY <1>1, <1>2 DEF AskOK
<1>10. StampsOK(r, log[r], first, a.stamps)
  <2>. SUFFICES ASSUME NEW k \in 1..Len(a.stamps)
               PROVE  /\ a.stamps[k].file = Sources[r][k]
                      /\ first[k] <= a.stamps[k].version /\ a.stamps[k].version <= log[r][Sources[r][k]]
    BY DEF StampsOK
  <2>1. Len(a.stamps) = n + 1
    BY <1>2, <1>7, <1>8
  <2>2. CASE k = n + 1
    <3>1. a.stamps[k] = mark
      BY <1>2, <1>7, <1>8, <2>2
    <3>2. first[k] = o.since[g]
      BY <1>3, <2>2
    <3>. QED  BY <1>4, <1>7, <1>9, <2>2, <3>1, <3>2
  <2>3. CASE k # n + 1
    <3>1. k \in 1..n
      BY <1>3, <2>1, <2>3
    <3>2. a.stamps[k] = o.stamps[k]
      BY <1>2, <1>7, <1>8, <3>1
    <3>. QED  BY <1>9, <3>1, <3>2 DEF StampsOK
  <2>. QED  BY <2>2, <2>3
<1>11. Len(a.stamps) <= all
  BY <1>2, <1>3, <1>7, <1>8
<1>12. AskOK(a, log[r])
  BY <1>2, <1>8, <1>9, <1>10, <1>11 DEF AskOK
<1>. QED  BY <1>1, <1>6, <1>8, <1>12, QueryGoesOn

LEMMA EnterKeeps ==
    ASSUME DataInv, NEW q \in Query, ask[q].step # "idle", NEW step, Enter(q, step),
           UNCHANGED <<log, context, run_data, copy>>,
           \/ ask[q].step = "key" /\ Len(ask[q].stamps) = Len(Sources[RunOf(q)]) /\ step = "seek"
           \/ ask[q].step = "seek" /\ step = "build"
           \/ ask[q].step = "locking" /\ step = "copying"
           \/ ask[q].step = "build" /\ step = "list"
    PROVE  DataInv'
<1>. DEFINE o == ask[q]
            r == RunOf(q)
            a == [o EXCEPT !.step = step]
<1>1. ask' = [ask EXCEPT ![q] = a]
  BY DEF Enter, DataInv, Sorts
<1>2. /\ r \in Run /\ o.run = r /\ o \in Question /\ o # Idle /\ AskOK(o, log[r])
      /\ log[r] \in [Log -> Nat] /\ Len(Sources[r]) \in Nat
  BY AskParts
<1>3. Len(o.stamps) = Len(Sources[r])
  BY KeyFacts
<1>. HIDE DEF o, r
<1>4. /\ a \in Question /\ a.step = step /\ a.run = r /\ a.since = o.since /\ a.read = o.read
      /\ a.rows = o.rows /\ a.stays = o.stays /\ a.stamps = o.stamps /\ a.seen = o.seen
  BY <1>2 DEF Question, Steps, o
<1>. HIDE DEF a
<1>5. AskOK(a, log[r])
  <2>0. /\ o.step \in {"key", "seek", "locking", "copying"} =>
            o.read = 0 /\ o.rows = <<>> /\ o.stays = {}
        /\ o.step \in {"locking", "copying"} =>
            /\ Len(o.seen) = Len(Sources[r])
            /\ StampsOK(r, log[r], [k \in 1..Len(Sources[r]) |-> o.stamps[k].version], o.seen)
    BY <1>2 DEF AskOK
  <2>1. CASE o.step = "key" /\ step = "seek"
    BY <1>2, <1>3, <1>4, <2>0, <2>1, AskGoesOn, ZenonT(40)
  <2>2. CASE o.step = "seek" /\ step = "build"
    <3>1. Tells(r, 0, log[r], a.stamps, <<>>, {})
      BY <1>2, TellsNothing
    <3>2. a.read = 0 /\ a.rows = <<>> /\ a.stays = {} /\ a.step = "build"
      BY <1>4, <2>0, <2>2
    <3>3. a.read <= Len(Sources[a.run]) /\ Tells(a.run, a.read, log[r], a.stamps, a.rows, a.stays)
      BY <1>2, <1>4, <3>1, <3>2
    <3>4. Len(o.stamps) = Len(Sources[o.run])
      BY <1>2, <1>3
    <3>. QED  BY <1>2, <1>4, <3>2, <3>3, <3>4, AskGoesOn
  <2>3. CASE o.step = "locking" /\ step = "copying"
    BY <1>2, <1>3, <1>4, <2>0, <2>3, AskGoesOn
  <2>4. CASE o.step = "build" /\ step = "list"
    BY <1>2, <1>3, <1>4, <2>4, AskGoesOn
  <2>. QED  BY <2>1, <2>2, <2>3, <2>4 DEF o, r
<1>. QED  BY <1>1, <1>4, <1>5, QueryGoesOn

\* What a copy of the key tells is what its query may answer.
LEMMA HeldKeeps ==
    ASSUME DataInv, NEW q \in Query, ask[q].step # "idle", NEW step \in {"hit", "opened"},
           Holds(copy[RunOf(q)], Key(q)), Len(ask[q].stamps) = Len(Sources[RunOf(q)]),
           UNCHANGED <<log, context, run_data, copy>>,
           ask' = [ask EXCEPT ![q].step = step, ![q].rows = copy[RunOf(q)].rows,
                              ![q].stays = copy[RunOf(q)].stays]
    PROVE  DataInv'
<1>. DEFINE o == ask[q]
            r == RunOf(q)
            file == copy[r]
            a == [o EXCEPT !.step = step, !.rows = file.rows, !.stays = file.stays]
<1>1. ask' = [ask EXCEPT ![q] = a]
  BY DEF DataInv, Sorts
<1>2. /\ r \in Run /\ o.run = r /\ o \in Question /\ o # Idle /\ AskOK(o, log[r])
      /\ log[r] \in [Log -> Nat] /\ Len(Sources[r]) \in Nat
  BY AskParts
<1>3. file # NoDb /\ file.key.stamps = o.stamps /\ CopyOK(r, log[r], file)
  BY <1>2 DEF DataInv, Copying, Holds, IsFile, Key
<1>. HIDE DEF o, r, file
<1>4. file.rows \in Seq(Row) /\ file.stays \in SUBSET Row
      /\ Tells(r, Len(Sources[r]), log[r], o.stamps, file.rows, file.stays)
  BY <1>3 DEF CopyOK, Copy
<1>5. /\ a \in Question /\ a.step = step /\ a.run = r /\ a.since = o.since
      /\ a.rows = file.rows /\ a.stays = file.stays /\ a.stamps = o.stamps
  BY <1>2, <1>4 DEF Question, Steps
<1>. HIDE DEF a
<1>6. Len(o.stamps) = Len(Sources[r])
  BY DEF o, r
<1>7. AskOK(a, log[r])
  BY <1>2, <1>4, <1>5, <1>6, AskGoesOn
<1>. QED  BY <1>1, <1>5, <1>7, QueryGoesOn

\* The query gives up the copies and reads the logs into memory.
LEMMA MemoryKeeps ==
    ASSUME DataInv, NEW q \in Query, ask[q].step \notin {"idle", "key"},
           UNCHANGED <<log, context, run_data, copy>>,
           ask' = [ask EXCEPT ![q].step = "memory", ![q].rows = <<>>, ![q].stays = {}, ![q].read = 0]
    PROVE  DataInv'
<1>. DEFINE o == ask[q]
            r == RunOf(q)
            a == [o EXCEPT !.step = "memory", !.rows = <<>>, !.stays = {}, !.read = 0]
<1>1. ask' = [ask EXCEPT ![q] = a]
  BY DEF DataInv, Sorts
<1>2. /\ r \in Run /\ o.run = r /\ o \in Question /\ o # Idle /\ AskOK(o, log[r])
      /\ log[r] \in [Log -> Nat] /\ Len(Sources[r]) \in Nat
  BY AskParts
<1>3. Len(o.stamps) = Len(Sources[r])
  BY KeyFacts
<1>. HIDE DEF o, r
<1>4. /\ a \in Question /\ a.step = "memory" /\ a.run = r /\ a.since = o.since /\ a.read = 0
      /\ a.rows = <<>> /\ a.stays = {} /\ a.stamps = o.stamps
  <2>0. <<>> \in Seq(Row) /\ {} \in SUBSET Row /\ 0 \in Nat
    OBVIOUS
  <2>1. PICK no \in Seq(Row), none \in SUBSET Row, zero \in Nat :
          no = <<>> /\ none = {} /\ zero = 0
    BY Zenon, <2>0
  <2>2. a = [o EXCEPT !.step = "memory", !.rows = no, !.stays = none, !.read = zero]
    BY <2>1
  <2>. HIDE DEF a
  <2>3. a \in Question
    BY <1>2, <2>2 DEF Question, Steps
  <2>4. /\ a.step = "memory" /\ a.run = r /\ a.since = o.since /\ a.read = zero
        /\ a.rows = no /\ a.stays = none /\ a.stamps = o.stamps
    BY <1>2, <2>2 DEF Question
  <2>. QED  BY <2>1, <2>3, <2>4
<1>. HIDE DEF a
<1>5. a.read <= Len(Sources[a.run]) /\ Tells(a.run, a.read, log[r], a.stamps, a.rows, a.stays)
  BY <1>2, <1>4, TellsNothing
<1>6. AskOK(a, log[r])
  <2>1. Len(o.stamps) = Len(Sources[o.run])
    BY <1>2, <1>3
  <2>. QED  BY <1>2, <1>4, <1>5, <2>1, AskGoesOn
<1>. QED  BY <1>1, <1>4, <1>6, QueryGoesOn

LEMMA OpenCopyKeeps ==
    ASSUME DataInv, NEW q \in Query, OpenCopy(q)
    PROVE  DataInv'
<1>1. ask[q].step = "key" /\ ~Left(q) /\ UNCHANGED <<log, context, run_data, copy>>
  BY DEF OpenCopy, world, run_vars, run_data
<1>2. Len(ask[q].stamps) = Len(Sources[RunOf(q)])
  <2>1. Len(ask[q].stamps) <= Len(Sources[RunOf(q)]) /\ Len(Sources[RunOf(q)]) \in Nat
        /\ ask[q].stamps \in Seq(Mark)
    BY <1>1, KeyFacts, AskParts
  <2>. QED  BY <1>1, <2>1 DEF Left
<1>3. CASE Holds(copy[RunOf(q)], Key(q))
  <2>1. ask' = [ask EXCEPT ![q].step = "hit", ![q].rows = copy[RunOf(q)].rows,
                           ![q].stays = copy[RunOf(q)].stays]
    BY <1>3 DEF OpenCopy
  <2>. QED  BY <1>1, <1>2, <1>3, <2>1, HeldKeeps
<1>4. CASE ~Holds(copy[RunOf(q)], Key(q))
  <2>1. Enter(q, "seek")
    BY <1>4 DEF OpenCopy
  <2>. QED  BY <1>1, <1>2, <2>1, EnterKeeps
<1>. QED  BY <1>3, <1>4

LEMMA AnswerKeeps ==
    ASSUME DataInv, NEW q \in Query, Hit(q) \/ Opened(q) \/ KillQuery(q)
    PROVE  DataInv'
<1>1. ask' = [ask EXCEPT ![q] = Idle] /\ UNCHANGED <<log, context, run_data, copy>>
  BY DEF Hit, Opened, KillQuery, Answer, world, run_vars, run_data
<1>. QED  BY <1>1, QueryGoesOn

LEMMA ReopenKeeps ==
    ASSUME DataInv, NEW q \in Query, Reopen(q)
    PROVE  DataInv'
<1>1. ask[q].step = "evict" /\ UNCHANGED <<log, context, run_data, copy>>
  BY DEF Reopen, world, run_vars, run_data
<1>2. CASE Holds(copy[RunOf(q)], Key(q))
  <2>1. ask' = [ask EXCEPT ![q].step = "opened", ![q].rows = copy[RunOf(q)].rows,
                           ![q].stays = copy[RunOf(q)].stays]
    BY <1>2 DEF Reopen
  <2>2. Len(ask[q].stamps) = Len(Sources[RunOf(q)])
    BY <1>1, KeyFacts
  <2>. QED  BY <1>1, <1>2, <2>1, <2>2, HeldKeeps
<1>3. CASE ~Holds(copy[RunOf(q)], Key(q))
  <2>1. ask' = [ask EXCEPT ![q].step = "memory", ![q].rows = <<>>, ![q].stays = {}, ![q].read = 0]
    BY <1>3 DEF Reopen
  <2>. QED  BY <1>1, <2>1, MemoryKeeps
<1>. QED  BY <1>2, <1>3

LEMMA BuildFailsKeeps ==
    ASSUME DataInv, NEW q \in Query, BuildFails(q)
    PROVE  DataInv'
<1>1. ask[q].step \in {"seek", "build"} /\ UNCHANGED <<log, context, run_data, copy>>
      /\ ask' = [ask EXCEPT ![q].step = "memory", ![q].rows = <<>>, ![q].stays = {}, ![q].read = 0]
  BY DEF BuildFails, world, run_vars, run_data
<1>. QED  BY <1>1, MemoryKeeps

LEMMA SeekKeeps ==
    ASSUME DataInv, NEW q \in Query, Seek(q)
    PROVE  DataInv'
<1>. DEFINE o == ask[q]
            r == RunOf(q)
            all == Len(Sources[r])
            seen == Stamps(r)
            a == [o EXCEPT !.step = "locking", !.seen = seen]
<1>1. o.step = "seek" /\ UNCHANGED <<log, context, run_data, copy>>
  BY DEF Seek, world, run_vars, run_data
<1>2. CASE ~IsFile(prepared[r])
  <2>1. Enter(q, "build")
    BY <1>2 DEF Seek
  <2>. QED  BY <1>1, <2>1, EnterKeeps
<1>3. CASE IsFile(prepared[r])
  <2>1. ask' = [ask EXCEPT ![q] = a]
    BY <1>3 DEF Seek, DataInv, Sorts
  <2>2. /\ r \in Run /\ o.run = r /\ o \in Question /\ o # Idle /\ AskOK(o, log[r])
        /\ log[r] \in [Log -> Nat] /\ all \in Nat /\ o.stamps \in Seq(Mark)
    BY <1>1, AskParts
  <2>3. Len(o.stamps) = all /\ \A k \in 1..all :
          /\ o.stamps[k].version \in Nat /\ o.stamps[k].version <= log[r][Sources[r][k]]
    BY <1>1, KeyFacts
  <2>4. DOMAIN seen = 1..all /\ \A k \in 1..all :
          seen[k] = [file |-> Sources[r][k], version |-> log[r][Sources[r][k]]]
    BY <2>2, Manifest DEF Stamps
  <2>5. ASSUME NEW k \in 1..all
        PROVE  /\ seen[k] \in Mark /\ seen[k].file = Sources[r][k]
               /\ seen[k].version = log[r][Sources[r][k]] /\ seen[k].version \in Nat
    <3>1. Sources[r][k] \in Log
      BY <2>2, <2>5, Manifest
    <3>2. log[r][Sources[r][k]] \in Nat
      BY <2>2, <3>1
    <3>3. seen[k] = [file |-> Sources[r][k], version |-> log[r][Sources[r][k]]]
      BY <2>4, <2>5
    <3>. HIDE DEF seen, r
    <3>. QED  BY <3>1, <3>2, <3>3 DEF Mark
  <2>6. seen \in Seq(Mark) /\ Len(seen) = all
    <3>1. seen = [k \in 1..all |-> seen[k]]
      BY <2>2, <2>4, Manifest DEF Stamps
    <3>2. seen \in [1..all -> Mark]
      <4>. HIDE DEF seen
      <4>. QED  BY <2>5, <3>1
    <3>. HIDE DEF seen, r
    <3>. QED  BY <2>2, <3>2
  <2>. HIDE DEF o, r, seen
  <2>7. /\ a \in Question /\ a.step = "locking" /\ a.run = r /\ a.since = o.since
        /\ a.read = o.read /\ a.rows = o.rows /\ a.stays = o.stays /\ a.stamps = o.stamps
        /\ a.seen = seen
    BY <2>2, <2>6 DEF Question, Steps
  <2>. HIDE DEF a
  <2>8. StampsOK(r, log[r], [k \in 1..all |-> a.stamps[k].version], a.seen)
    BY <2>3, <2>5, <2>6, <2>7 DEF StampsOK
  <2>9. o.read = 0 /\ o.rows = <<>> /\ o.stays = {}
    BY <1>1, <2>2 DEF AskOK
  <2>10. Len(o.stamps) = Len(Sources[o.run]) /\ Len(a.seen) = all
    BY <2>2, <2>3, <2>6, <2>7
  <2>11. AskOK(a, log[r])
    BY <2>2, <2>7, <2>8, <2>9, <2>10, AskGoesOn
  <2>. QED  BY <1>1, <2>1, <2>7, <2>11, QueryGoesOn DEF o
<1>. QED  BY <1>2, <1>3

LEMMA LockPreparedKeeps ==
    ASSUME DataInv, NEW q \in Query, LockPrepared(q)
    PROVE  DataInv'
<1>1. ask[q].step = "locking" /\ Enter(q, "copying") /\ UNCHANGED <<log, context, run_data, copy>>
  BY DEF LockPrepared, world, run_data
<1>. QED  BY <1>1, EnterKeeps

\* What a database of these stamps holds is what the logs told.
LEMMA CachedTells ==
    ASSUME NEW r \in Run, NEW now \in [Log -> Nat], NEW c \in Nat \ {0}, NEW db,
           DbOK(r, now, c, db), NEW n, NEW stamps, NEW seen \in Seq(Mark),
           Len(seen) = Len(Sources[r]), Cached(db, n, seen),
           \A k \in 1..Len(Sources[r]) :
             /\ seen[k].file = Sources[r][k]
             /\ stamps[k].version <= seen[k].version /\ seen[k].version <= now[Sources[r][k]]
    PROVE  /\ Len(db.sources) = Len(Sources[r])
           /\ db.rows \in Seq(Row) /\ db.stays \in SUBSET Row
           /\ Tells(r, Len(Sources[r]), now, stamps, db.rows, db.stays)
<1>. DEFINE all == Len(Sources[r])
            vs == [k \in 1..all |-> seen[k].version]
<1>1. IsFile(db) /\ StampsOf(db) = seen
  BY DEF Cached
<1>2. db.sources \in Seq(Entries(r, now))
      /\ db.rows = FlattenSeq(Blocks(db.sources)) /\ db.stays = ToSet(db.rows)
  BY <1>1, DbParts
<1>3. all \in Nat /\ DOMAIN seen = 1..all /\ DOMAIN db.sources = 1..Len(db.sources)
      /\ Len(db.sources) \in Nat
  BY <1>2, Manifest
<1>4. DOMAIN db.sources = 1..all /\ Len(db.sources) = all
  <2>1. DOMAIN StampsOf(db) = DOMAIN db.sources
    BY DEF StampsOf
  <2>. QED  BY <1>1, <1>3, <2>1
<1>5. ASSUME NEW k \in 1..all
      PROVE  /\ db.sources[k].stamp = seen[k] /\ seen[k] \in Mark /\ vs[k] = seen[k].version
             /\ seen[k].file = Sources[r][k]
             /\ stamps[k].version <= seen[k].version /\ seen[k].version <= now[Sources[r][k]]
             /\ seen[k].version \in Nat
  <2>1. StampsOf(db)[k] = db.sources[k].stamp
    BY <1>4, <1>5 DEF StampsOf
  <2>2. seen[k] \in Mark
    BY <1>3, <1>5
  <2>. QED  BY <1>1, <1>3, <1>5, <2>1, <2>2 DEF Mark
<1>6. vs \in [1..all -> Nat]
      /\ \A k \in 1..all : stamps[k].version <= vs[k] /\ vs[k] <= now[Sources[r][k]]
  BY <1>5
<1>7. db.rows = Made(r, all, vs)
  <2>1. Blocks(db.sources) = [k \in 1..all |-> Parsed(Sources[r][k], vs[k])]
    <3>1. ASSUME NEW k \in 1..all
          PROVE  Parsed(db.sources[k].stamp.file, db.sources[k].stamp.version)
                   = Parsed(Sources[r][k], vs[k])
      BY <1>5, <3>1
    <3>. QED  BY <1>4, <3>1 DEF Blocks
  <2>. QED  BY <1>2, <2>1 DEF Made
<1>8. db.rows \in Seq(Row) /\ db.stays \in SUBSET Row
  <2>1. db.rows \in Seq(Row)
    BY <1>2, BlocksType
  <2>2. ToSet(db.rows) \subseteq Row
    BY <2>1 DEF ToSet
  <2>. QED  BY <1>2, <2>1, <2>2
<1>. HIDE DEF vs, all
<1>9. Tells(r, all, now, stamps, db.rows, db.stays)
  BY <1>2, <1>6, <1>7 DEF Tells
<1>. QED  BY <1>4, <1>8, <1>9 DEF all

LEMMA CachedAsk ==
    ASSUME DataInv, NEW q \in Query, ask[q].step = "copying",
           Cached(prepared[RunOf(q)], ask[q].context, ask[q].seen)
    PROVE  LET r == RunOf(q) db == prepared[r] IN
           /\ Len(db.sources) = Len(Sources[r])
           /\ db.rows \in Seq(Row) /\ db.stays \in SUBSET Row
           /\ Tells(r, Len(Sources[r]), log[r], ask[q].stamps, db.rows, db.stays)
<1>1. /\ RunOf(q) \in Run /\ ask[q].run = RunOf(q) /\ ask[q] # Idle
      /\ AskOK(ask[q], log[RunOf(q)]) /\ log[RunOf(q)] \in [Log -> Nat] /\ ask[q].seen \in Seq(Mark)
  BY AskParts
<1>2. Len(ask[q].seen) = Len(Sources[RunOf(q)])
      /\ StampsOK(RunOf(q), log[RunOf(q)],
                  [k \in 1..Len(Sources[RunOf(q)]) |-> ask[q].stamps[k].version], ask[q].seen)
  BY <1>1 DEF AskOK
<1>3. \A k \in 1..Len(Sources[RunOf(q)]) :
        /\ ask[q].seen[k].file = Sources[RunOf(q)][k]
        /\ ask[q].stamps[k].version <= ask[q].seen[k].version
        /\ ask[q].seen[k].version <= log[RunOf(q)][Sources[RunOf(q)][k]]
  BY <1>2 DEF StampsOK
<1>4. DbOK(RunOf(q), log[RunOf(q)], context[RunOf(q)], prepared[RunOf(q)])
      /\ context[RunOf(q)] \in Nat \ {0}
  BY <1>1, Worlds DEF DataInv, Preparing
<1>. QED  BY <1>1, <1>2, <1>3, <1>4, CachedTells

LEMMA CopyPreparedKeeps ==
    ASSUME DataInv, NEW q \in Query, CopyPrepared(q)
    PROVE  DataInv'
<1>. DEFINE o == ask[q]
            r == RunOf(q)
            all == Len(Sources[r])
            db == prepared[r]
            a == [o EXCEPT !.step = "build", !.rows = db.rows, !.stays = db.stays,
                           !.seen = <<>>, !.read = Len(db.sources)]
            b == [o EXCEPT !.step = "build", !.seen = <<>>]
<1>1. o.step = "copying" /\ UNCHANGED <<log, context, run_data, copy>>
  BY DEF CopyPrepared, world, run_data
<1>2. /\ r \in Run /\ o.run = r /\ o \in Question /\ o # Idle /\ AskOK(o, log[r])
      /\ log[r] \in [Log -> Nat] /\ all \in Nat /\ o.seen \in Seq(Mark)
  BY <1>1, AskParts
<1>3. Len(o.stamps) = all /\ Len(o.stamps) = Len(Sources[o.run])
  BY <1>1, <1>2, KeyFacts
<1>4. Len(o.seen) = all
      /\ StampsOK(r, log[r], [k \in 1..all |-> o.stamps[k].version], o.seen)
      /\ o.read = 0 /\ o.rows = <<>> /\ o.stays = {}
  BY <1>1, <1>2 DEF AskOK
<1>5. <<>> \in Seq(Mark)
  OBVIOUS
<1>6. CASE Cached(db, o.context, o.seen)
  <2>1. ask' = [ask EXCEPT ![q] = a]
    BY <1>6 DEF CopyPrepared, DataInv, Sorts
  <2>. HIDE DEF o, r, db
  <2>3. /\ Len(db.sources) = all /\ db.rows \in Seq(Row) /\ db.stays \in SUBSET Row
        /\ Tells(r, all, log[r], o.stamps, db.rows, db.stays)
    BY <1>1, <1>2, <1>6, CachedAsk DEF o, r, db
  <2>4. PICK no \in Seq(Mark) : no = <<>>
    BY Zenon, <1>5
  <2>5. a = [o EXCEPT !.step = "build", !.rows = db.rows, !.stays = db.stays,
                      !.seen = no, !.read = all]
    BY <2>3, <2>4
  <2>. HIDE DEF a
  <2>6. /\ a \in Question /\ a.step = "build" /\ a.run = r /\ a.since = o.since /\ a.read = all
        /\ a.rows = db.rows /\ a.stays = db.stays /\ a.stamps = o.stamps
    <3>. HIDE DEF all
    <3>. QED  BY <1>2, <2>3, <2>5 DEF Question, Steps
  <2>7. a.read <= Len(Sources[a.run]) /\ Tells(a.run, a.read, log[r], a.stamps, a.rows, a.stays)
    BY <1>2, <2>3, <2>6
  <2>8. AskOK(a, log[r])
    BY <1>2, <1>3, <2>6, <2>7, AskGoesOn
  <2>. QED  BY <1>1, <2>1, <2>6, <2>8, QueryGoesOn
<1>7. CASE ~Cached(db, o.context, o.seen)
  <2>1. ask' = [ask EXCEPT ![q] = b]
    BY <1>7 DEF CopyPrepared, DataInv, Sorts
  <2>. HIDE DEF o, r, db
  <2>4. PICK no \in Seq(Mark) : no = <<>>
    BY Zenon, <1>5
  <2>5. b = [o EXCEPT !.step = "build", !.seen = no]
    BY <2>4
  <2>. HIDE DEF b
  <2>6. /\ b \in Question /\ b.step = "build" /\ b.run = r /\ b.since = o.since /\ b.read = 0
        /\ b.rows = <<>> /\ b.stays = {} /\ b.stamps = o.stamps
    BY <1>2, <1>4, <2>5 DEF Question, Steps
  <2>7. b.read <= Len(Sources[b.run]) /\ Tells(b.run, b.read, log[r], b.stamps, b.rows, b.stays)
    BY <1>2, <2>6, TellsNothing
  <2>8. AskOK(b, log[r])
    BY <1>2, <1>3, <2>6, <2>7, AskGoesOn
  <2>. QED  BY <1>1, <2>1, <2>6, <2>8, QueryGoesOn
<1>. QED  BY <1>6, <1>7

\* One more log is read.
LEMMA ReadKeeps ==
    ASSUME DataInv, NEW q \in Query, ask[q].step \in {"build", "memory"}, ~ReadAll(q), ReadLog(q),
           UNCHANGED <<log, context, run_data, copy>>
    PROVE  DataInv'
<1>. DEFINE o == ask[q]
            r == RunOf(q)
            all == Len(Sources[r])
            n == o.read
            g == Sources[r][n + 1]
            told == o.rows \o Parsed(g, log[r][g])
            a == [o EXCEPT !.read = n + 1, !.rows = told, !.stays = ToSet(told)]
<1>1. ask' = [ask EXCEPT ![q] = a]
  BY DEF ReadLog, DataInv, Sorts
<1>2. /\ r \in Run /\ o.run = r /\ o \in Question /\ o # Idle /\ AskOK(o, log[r])
      /\ log[r] \in [Log -> Nat] /\ all \in Nat /\ o.rows \in Seq(Row) /\ n \in Nat
  BY AskParts
<1>3. Len(o.stamps) = all /\ Len(o.stamps) = Len(Sources[o.run])
      /\ \A k \in 1..all : o.stamps[k].version <= log[r][Sources[r][k]]
  BY <1>2, KeyFacts
<1>4. n <= all /\ Tells(r, n, log[r], o.stamps, o.rows, o.stays)
  BY <1>2 DEF AskOK
<1>5. n + 1 \in 1..all /\ n + 1 \in Nat /\ n + 1 <= all
  BY <1>2, <1>4 DEF ReadAll
<1>6. g \in Log /\ log[r][g] \in Nat /\ o.stamps[n + 1].version <= log[r][g]
  BY <1>2, <1>3, <1>5, Manifest
<1>7. PICK vs \in [1..n -> Nat] :
        /\ \A k \in 1..n : o.stamps[k].version <= vs[k] /\ vs[k] <= log[r][Sources[r][k]]
        /\ o.rows = Made(r, n, vs)
  BY <1>4 DEF Tells
<1>. DEFINE us == [k \in 1..(n + 1) |-> IF k = n + 1 THEN log[r][g] ELSE vs[k]]
<1>8. us \in [1..(n + 1) -> Nat] /\ us[n + 1] = log[r][g] /\ \A k \in 1..n : us[k] = vs[k]
  <2>0. n \in Nat /\ log[r][g] \in Nat /\ vs \in [1..n -> Nat]
    BY <1>2, <1>6, <1>7
  <2>. HIDE DEF n, g, r, o
  <2>1. \A k \in 1..(n + 1) : k # n + 1 => k \in 1..n
    BY <2>0
  <2>2. n + 1 \in 1..(n + 1) /\ \A k \in 1..n : k \in 1..(n + 1) /\ k # n + 1
    BY <2>0
  <2>. QED  BY <2>0, <2>1, <2>2
<1>9. \A k \in 1..(n + 1) : o.stamps[k].version <= us[k] /\ us[k] <= log[r][Sources[r][k]]
  <2>. SUFFICES ASSUME NEW k \in 1..(n + 1)
               PROVE  o.stamps[k].version <= us[k] /\ us[k] <= log[r][Sources[r][k]]
    OBVIOUS
  <2>1. CASE k = n + 1
    <3>1. us[k] = log[r][g] /\ Sources[r][k] = g
      BY <1>8, <2>1
    <3>2. log[r][g] <= log[r][g]
      BY <1>6
    <3>. HIDE DEF us
    <3>. QED  BY <1>6, <2>1, <3>1, <3>2
  <2>2. CASE k # n + 1
    <3>1. k \in 1..n
      BY <1>2, <2>2
    <3>2. us[k] = vs[k]
      BY <1>8, <3>1
    <3>. HIDE DEF us
    <3>. QED  BY <1>7, <3>1, <3>2
  <2>. QED  BY <2>1, <2>2
<1>. HIDE DEF us
<1>10. told = Made(r, n + 1, us)
  <2>. HIDE DEF r, o
  <2>1. Made(r, n + 1, us) = Made(r, n, vs) \o Parsed(Sources[r][n + 1], us[n + 1])
    BY <1>2, <1>5, <1>7, <1>8, MadeNext
  <2>. QED  BY <1>7, <1>8, <2>1
<1>11. Parsed(g, log[r][g]) \in Seq(Row)
  BY <1>6, ParsedType
<1>12. told \in Seq(Row)
  BY <1>2, <1>11
<1>. HIDE DEF o, r, told, g
<1>13. ToSet(told) \in SUBSET Row
  BY <1>12 DEF ToSet
<1>14. /\ a \in Question /\ a.step = o.step /\ a.run = r /\ a.since = o.since /\ a.read = n + 1
       /\ a.rows = told /\ a.stays = ToSet(told) /\ a.stamps = o.stamps
  <2>1. PICK m \in Nat, stays \in SUBSET Row : m = n + 1 /\ stays = ToSet(told)
    BY <1>5, <1>13
  <2>2. a = [o EXCEPT !.read = m, !.rows = told, !.stays = stays]
    BY <2>1
  <2>. HIDE DEF a
  <2>3. /\ a \in Question /\ a.step = o.step /\ a.run = r /\ a.since = o.since /\ a.read = m
        /\ a.rows = told /\ a.stays = stays /\ a.stamps = o.stamps
    BY <1>2, <1>12, <2>2 DEF Question
  <2>. QED  BY <2>1, <2>3
<1>. HIDE DEF a
<1>15. Tells(r, n + 1, log[r], o.stamps, told, ToSet(told))
  BY <1>8, <1>9, <1>10 DEF Tells
<1>16. a.read <= Len(Sources[a.run]) /\ Tells(a.run, a.read, log[r], a.stamps, a.rows, a.stays)
  BY <1>5, <1>14, <1>15
<1>17. AskOK(a, log[r])
  <2>1. a.step \in {"build", "memory"}
    BY <1>14 DEF o
  <2>2. /\ a \in Question /\ a.run = o.run /\ a.since = o.since /\ a.stamps = o.stamps
        /\ AskOK(o, log[r]) /\ o # Idle /\ Len(o.stamps) = Len(Sources[o.run])
    BY <1>2, <1>3, <1>14
  <2>. QED  BY <1>16, <2>1, <2>2, AskGoesOn
<1>. QED  BY <1>1, <1>14, <1>17, QueryGoesOn

LEMMA BuildKeeps ==
    ASSUME DataInv, NEW q \in Query, Build(q) \/ Load(q)
    PROVE  DataInv'
<1>1. /\ ask[q].step \in {"build", "memory"} /\ ~ReadAll(q) /\ ReadLog(q)
      /\ UNCHANGED <<log, context, run_data, copy>>
  BY DEF Build, Load, world, run_vars, run_data
<1>. QED  BY <1>1, ReadKeeps

LEMMA PublishKeeps ==
    ASSUME DataInv, NEW q \in Query, Publish(q)
    PROVE  DataInv'
<1>. DEFINE o == ask[q]
            r == RunOf(q)
            all == Len(Sources[r])
            file == [key |-> Key(q), rows |-> o.rows, stays |-> o.stays]
            a == [o EXCEPT !.step = "list"]
<1>1. /\ o.step = "build" /\ o.read = all /\ copy' = [copy EXCEPT ![r] = file]
      /\ ask' = [ask EXCEPT ![q] = a] /\ UNCHANGED <<log, context, run_data>>
  BY DEF Publish, ReadAll, Enter, world, run_vars, run_data, DataInv, Sorts
<1>2. /\ r \in Run /\ o.run = r /\ o \in Question /\ o # Idle /\ AskOK(o, log[r])
      /\ log[r] \in [Log -> Nat] /\ all \in Nat /\ o.rows \in Seq(Row) /\ o.stays \in SUBSET Row
      /\ o.stamps \in Seq(Mark) /\ o.context \in Nat
  BY <1>1, AskParts
<1>3. Len(o.stamps) = all /\ Len(o.stamps) = Len(Sources[o.run])
  BY <1>1, <1>2, KeyFacts
<1>4. Tells(r, all, log[r], o.stamps, o.rows, o.stays)
  BY <1>1, <1>2 DEF AskOK
<1>5. Key(q) = [stamps |-> o.stamps, context |-> o.context]
  BY DEF Key
<1>. HIDE DEF o, r
<1>6. file \in Copy /\ file.key.stamps = o.stamps /\ file.rows = o.rows /\ file.stays = o.stays
  BY <1>2, <1>5 DEF Copy
<1>7. CopyOK(r, log[r], file)
  <2>. HIDE DEF file
  <2>. QED  BY <1>3, <1>4, <1>6 DEF CopyOK
<1>8. /\ a \in Question /\ a.step = "list" /\ a.run = r /\ a.since = o.since /\ a.stamps = o.stamps
  BY <1>2 DEF Question, Steps
<1>. HIDE DEF a, file
<1>9. AskOK(a, log[r])
  BY <1>2, <1>3, <1>8, AskGoesOn
<1>. QED  BY <1>1, <1>2, <1>7, <1>8, <1>9, QueryMoves

-----------------------------------------------------------------------------
(* The copies and the order in which they were used                        *)

\* A value that is in a sequence once, at position i, is removed there.
LEMMA Removed ==
    ASSUME NEW S, NEW s \in Seq(S), IsInjective(s), NEW i \in 1..Len(s), NEW e, s[i] = e
    PROVE  RemoveFirst(s, e) = SubSeq(s, 1, i - 1) \o SubSeq(s, i + 1, Len(s))
<1>. DEFINE place == {j \in 1..Len(s) : s[j] = e}
<1>1. \A j \in 1..Len(s) : s[j] = e => j = i
  BY DEF IsInjective
<1>2. place = {i}
  BY <1>1
<1>3. (CHOOSE x \in {i} : \A y \in {i} : x <= y) = i
  <2>1. i <= i
    OBVIOUS
  <2>. QED  BY <2>1
<1>4. SelectInSeq(s, LAMBDA v : v = e) = i
  BY <1>2, <1>3 DEF SelectInSeq, Min
<1>. QED  BY <1>4 DEF RemoveFirst, RemoveAt

\* What is left after one element of a sequence of different elements is removed.
LEMMA RemoveFirstFacts ==
    ASSUME NEW S, NEW s \in Seq(S), IsInjective(s), NEW e
    PROVE  /\ RemoveFirst(s, e) \in Seq(S) /\ IsInjective(RemoveFirst(s, e))
           /\ ToSet(RemoveFirst(s, e)) = ToSet(s) \ {e}
<1>. DEFINE n == Len(s)
            t == RemoveFirst(s, e)
<1>0. n \in Nat /\ s \in [1..n -> S] /\ DOMAIN s = 1..n
  OBVIOUS
<1>1. CASE \A i \in 1..n : s[i] # e
  <2>1. t = s
    BY <1>1 DEF RemoveFirst
  <2>2. e \notin ToSet(s)
    BY <1>0, <1>1 DEF ToSet
  <2>. QED  BY <2>1, <2>2
<1>2. ASSUME NEW i \in 1..n, s[i] = e
      PROVE  t \in Seq(S) /\ IsInjective(t) /\ ToSet(t) = ToSet(s) \ {e}
  <2>1. t = SubSeq(s, 1, i - 1) \o SubSeq(s, i + 1, n)
    BY <1>2, Removed
  <2>. HIDE DEF t
  <2>2. t \in Seq(S) /\ Len(t) = n - 1
        /\ \A j \in 1..(n - 1) : t[j] = IF j < i THEN s[j] ELSE s[j + 1]
    <3>. DEFINE A == SubSeq(s, 1, i - 1)
                B == SubSeq(s, i + 1, n)
    <3>1. A \in Seq(S) /\ Len(A) = i - 1 /\ \A j \in 1..(i - 1) : A[j] = s[j]
      BY <1>0, <1>2
    <3>2. B \in Seq(S) /\ Len(B) = n - i /\ \A j \in 1..(n - i) : B[j] = s[i + j]
      <4>1. B = [j \in 1..(n - i) |-> s[j + i]]
        <5>1. n - (i + 1) + 1 = n - i /\ \A j \in Int : j + (i + 1) - 1 = j + i
          BY <1>0, <1>2
        <5>2. B = [j \in 1..(n - (i + 1) + 1) |-> s[j + (i + 1) - 1]]
          BY <1>0, <1>2
        <5>3. \A j \in 1..(n - i) : s[j + (i + 1) - 1] = s[j + i]
          BY <1>0, <1>2, <5>1
        <5>. HIDE DEF B
        <5>. QED  BY <5>1, <5>2, <5>3
      <4>. HIDE DEF B
      <4>2. n - i \in Nat /\ \A j \in 1..(n - i) : s[j + i] \in S /\ i + j = j + i
        BY <1>0, <1>2
      <4>. QED  BY <4>1, <4>2
    <3>3. t = A \o B
      BY <2>1
    <3>. HIDE DEF A, B
    <3>4. t \in Seq(S) /\ Len(t) = n - 1
      <4>1. Len(A) + Len(B) = n - 1
        BY <1>0, <1>2, <3>1, <3>2
      <4>2. A \in Seq(S) /\ B \in Seq(S)
        BY <3>1, <3>2
      <4>3. A \o B \in Seq(S) /\ Len(A \o B) = Len(A) + Len(B)
        BY <4>2
      <4>. QED  BY <3>3, <4>1, <4>3
    <3>5. ASSUME NEW j \in 1..(n - 1)
          PROVE  t[j] = IF j < i THEN s[j] ELSE s[j + 1]
      <4>1. CASE j < i
        <5>1. j \in 1..(i - 1) /\ j \in 1..Len(A)
          BY <1>0, <1>2, <3>1, <3>5, <4>1
        <5>2. t[j] = A[j]
          BY <1>0, <3>1, <3>2, <3>3, <5>1
        <5>. QED  BY <3>1, <4>1, <5>1, <5>2
      <4>2. CASE ~(j < i)
        <5>1. j - (i - 1) \in 1..(n - i) /\ i + (j - (i - 1)) = j + 1
          BY <1>0, <1>2, <3>5, <4>2
        <5>2. t[j] = B[j - (i - 1)]
          BY <1>0, <1>2, <3>1, <3>2, <3>3, <3>5, <4>2
        <5>. QED  BY <3>2, <4>2, <5>1, <5>2
      <4>. QED  BY <4>1, <4>2
    <3>. QED  BY <3>4, <3>5
  <2>3. DOMAIN t = 1..(n - 1)
    BY <2>2
  <2>4. IsInjective(t)
    <3>. SUFFICES ASSUME NEW j \in 1..(n - 1), NEW k \in 1..(n - 1), t[j] = t[k] PROVE j = k
      BY <2>3 DEF IsInjective
    <3>. DEFINE u == IF j < i THEN j ELSE j + 1
                v == IF k < i THEN k ELSE k + 1
    <3>1. u \in 1..n /\ v \in 1..n /\ t[j] = s[u] /\ t[k] = s[v] /\ (u = v => j = k)
      BY <1>0, <1>2, <2>2
    <3>2. u = v
      <4>. HIDE DEF u, v
      <4>. QED  BY <1>0, <3>1 DEF IsInjective
    <3>. QED  BY <3>1, <3>2
  <2>5. ToSet(t) \subseteq ToSet(s) \ {e}
    <3>. SUFFICES ASSUME NEW j \in 1..(n - 1) PROVE t[j] \in ToSet(s) \ {e}
      BY <2>3 DEF ToSet
    <3>. DEFINE u == IF j < i THEN j ELSE j + 1
    <3>1. u \in 1..n /\ t[j] = s[u] /\ u # i
      BY <1>0, <1>2, <2>2
    <3>2. s[u] # s[i] /\ s[u] \in ToSet(s)
      <4>. HIDE DEF u
      <4>. QED  BY <1>0, <1>2, <3>1 DEF IsInjective, ToSet
    <3>. QED  BY <1>2, <3>1, <3>2
  <2>6. ToSet(s) \ {e} \subseteq ToSet(t)
    <3>. SUFFICES ASSUME NEW j \in 1..n, s[j] # e PROVE s[j] \in ToSet(t)
      BY <1>0 DEF ToSet
    <3>1. j # i
      BY <1>2
    <3>. DEFINE u == IF j < i THEN j ELSE j - 1
    <3>2. u \in 1..(n - 1) /\ t[u] = s[j]
      BY <1>0, <1>2, <2>2, <3>1
    <3>. HIDE DEF u
    <3>. QED  BY <2>3, <3>2 DEF ToSet
  <2>. QED  BY <2>2, <2>4, <2>5, <2>6
<1>. QED  BY <1>1, <1>2

LEMMA AppendFacts ==
    ASSUME NEW S, NEW s \in Seq(S), IsInjective(s), NEW e \in S, e \notin ToSet(s)
    PROVE  /\ Append(s, e) \in Seq(S) /\ IsInjective(Append(s, e))
           /\ ToSet(Append(s, e)) = ToSet(s) \cup {e}
<1>. DEFINE t == Append(s, e)
            n == Len(s)
<1>1. n \in Nat /\ t \in Seq(S) /\ DOMAIN t = 1..(n + 1) /\ DOMAIN s = 1..n /\ t[n + 1] = e
      /\ \A i \in 1..n : t[i] = s[i]
  OBVIOUS
<1>. HIDE DEF t
<1>2. \A i \in 1..n : s[i] # e
  BY <1>1 DEF ToSet
<1>3. IsInjective(t)
  <2>. SUFFICES ASSUME NEW j \in 1..(n + 1), NEW k \in 1..(n + 1), t[j] = t[k] PROVE j = k
    BY <1>1 DEF IsInjective
  <2>1. CASE j \in 1..n /\ k \in 1..n
    BY <1>1, <2>1 DEF IsInjective
  <2>2. CASE ~(j \in 1..n /\ k \in 1..n)
    BY <1>1, <1>2, <2>2
  <2>. QED  BY <2>1, <2>2
<1>4. ToSet(t) = ToSet(s) \cup {e}
  <2>1. \A j \in 1..(n + 1) : j \in 1..n \/ j = n + 1
    BY <1>1
  <2>2. \A j \in 1..n : j \in 1..(n + 1)
    BY <1>1
  <2>3. n + 1 \in 1..(n + 1)
    BY <1>1
  <2>. QED  BY <1>1, <2>1, <2>2, <2>3 DEF ToSet
<1>. QED  BY <1>1, <1>3, <1>4 DEF t

LEMMA VictimsFacts ==
    ASSUME RecentOK, NEW r \in Run
    PROVE  Victims(r) \in SUBSET Run /\ r \notin Victims(r)
<1>1. RemoveFirst(recent, r) \in Seq(Run) /\ ToSet(RemoveFirst(recent, r)) = ToSet(recent) \ {r}
  BY RemoveFirstFacts DEF RecentOK
<1>. DEFINE t == RemoveFirst(recent, r)
            n == Len(t) - (CacheRuns - 1)
<1>. HIDE DEF t
<1>2. t \in Seq(Run) /\ Len(t) \in Nat /\ n \in Int /\ n <= Len(t) /\ r \notin ToSet(t)
  BY <1>1, CacheRunsAssumption DEF t
<1>3. \A i \in DOMAIN SubSeq(t, 1, n) : i \in 1..Len(t) /\ SubSeq(t, 1, n)[i] = t[i]
  <2>1. SubSeq(t, 1, n) = [i \in 1..n |-> t[i]]
    BY <1>2
  <2>2. \A i \in 1..n : i \in 1..Len(t)
    BY <1>2
  <2>. HIDE DEF n
  <2>. QED  BY <2>1, <2>2
<1>4. \A i \in 1..Len(t) : t[i] \in Run /\ t[i] \in ToSet(t)
  BY <1>2 DEF ToSet
<1>5. \A s \in ToSet(SubSeq(t, 1, n)) : s \in Run /\ s \in ToSet(t)
  <2>. HIDE DEF n
  <2>. QED  BY <1>3, <1>4 DEF ToSet
<1>6. Victims(r) = ToSet(SubSeq(t, 1, n))
  BY DEF Victims, Others, t
<1>. HIDE DEF n
<1>. QED  BY <1>2, <1>5, <1>6

LEMMA ListCopiesKeeps ==
    ASSUME DataInv, RecentOK, NEW q \in Query, ListCopies(q)
    PROVE  DataInv'
<1>. DEFINE o == ask[q]
            r == RunOf(q)
            new == Victims(r)
            a == [o EXCEPT !.step = "evict", !.victims = new]
<1>1. /\ o.step = "list" /\ UNCHANGED <<log, context, run_data, copy>>
      /\ ask' = [ask EXCEPT ![q] = a]
  BY DEF ListCopies, world, run_vars, run_data, DataInv, Sorts
<1>2. /\ r \in Run /\ o.run = r /\ o \in Question /\ o # Idle /\ AskOK(o, log[r])
  BY <1>1, AskParts
<1>3. Len(o.stamps) = Len(Sources[o.run])
  BY <1>1, <1>2, KeyFacts
<1>4. new \in SUBSET Run
  BY <1>2, VictimsFacts
<1>. HIDE DEF o, r, new
<1>5. /\ a \in Question /\ a.step = "evict" /\ a.run = r /\ a.since = o.since /\ a.stamps = o.stamps
  BY <1>2, <1>4 DEF Question, Steps
<1>. HIDE DEF a
<1>6. AskOK(a, log[r])
  BY <1>2, <1>3, <1>5, AskGoesOn
<1>. QED  BY <1>1, <1>5, <1>6, QueryGoesOn

LEMMA EvictKeeps ==
    ASSUME DataInv, NEW q \in Query, Evict(q)
    PROVE  DataInv'
<1>1. ask[q].step = "evict"
  BY DEF Evict
<1>2. PICK s \in ask[q].victims :
        copy' = [copy EXCEPT ![s] = NoDb] /\ ask' = [ask EXCEPT ![q].victims = @ \ {s}]
  BY DEF Evict
<1>. DEFINE o == ask[q]
            r == RunOf(q)
            rest == o.victims \ {s}
            a == [o EXCEPT !.victims = rest]
<1>3. UNCHANGED <<log, context, run_data>> /\ ask' = [ask EXCEPT ![q] = a]
  BY <1>2 DEF Evict, world, run_vars, run_data, DataInv, Sorts
<1>4. /\ r \in Run /\ o.run = r /\ o \in Question /\ o # Idle /\ AskOK(o, log[r])
      /\ o.victims \in SUBSET Run
  BY <1>1, AskParts
<1>5. Len(o.stamps) = Len(Sources[o.run])
  BY <1>1, <1>4, KeyFacts
<1>6. s \in Run /\ rest \in SUBSET Run
  BY <1>4
<1>7. CopyOK(s, log[s], NoDb)
  BY DEF CopyOK
<1>. HIDE DEF o, r, rest
<1>8. /\ a \in Question /\ a.step = "evict" /\ a.run = r /\ a.since = o.since /\ a.stamps = o.stamps
  <2>1. o.step = "evict"
    BY <1>1 DEF o
  <2>. QED  BY <1>4, <1>6, <2>1 DEF Question
<1>. HIDE DEF a
<1>9. AskOK(a, log[r])
  BY <1>4, <1>5, <1>8, AskGoesOn
<1>. QED  BY <1>2, <1>3, <1>6, <1>7, <1>8, <1>9, QueryMoves

LEMMA DataNext ==
    ASSUME DataInv, RecentOK, [CacheNext]_cache_vars
    PROVE  DataInv'
<1>1. ASSUME NEW r \in Run, RunStep(r)
      PROVE  DataInv'
  <2>1. CASE PrepareOrder(r) \/ Save(r) \/ Killed(r) \/ ChangeContext(r)
    BY <2>1, PrepareOrderKeeps, SaveKeeps, KilledKeeps, ChangeContextKeeps
  <2>2. ASSUME NEW f \in Log, Collector(r, f) \/ ReplaceLog(r, f)
        PROVE  DataInv'
    BY <2>2, StampKeeps, ParseKeeps, WarmLockKeeps, WarmLookKeeps, WarmCommitKeeps, WarmFailsKeeps,
       ReplaceLogKeeps DEF Collector
  <2>. QED  BY <1>1, <2>1, <2>2 DEF RunStep
<1>2. ASSUME NEW q \in Query, QueryStep(q)
      PROVE  DataInv'
  <2>1. CASE BuildFails(q) \/ KillQuery(q) \/ \E r \in Run : Ask(q, r)
    BY <2>1, BuildFailsKeeps, AnswerKeeps, AskKeeps
  <2>2. CASE KeyLog(q) \/ OpenCopy(q) \/ Hit(q) \/ Seek(q) \/ LockPrepared(q) \/ CopyPrepared(q)
    BY <2>2, KeyLogKeeps, OpenCopyKeeps, AnswerKeeps, SeekKeeps, LockPreparedKeeps, CopyPreparedKeeps
  <2>3. CASE Build(q) \/ Publish(q) \/ ListCopies(q) \/ Evict(q) \/ Reopen(q) \/ Load(q) \/ Opened(q)
    BY <2>3, BuildKeeps, PublishKeeps, ListCopiesKeeps, EvictKeeps, ReopenKeeps, AnswerKeeps
  <2>. QED  BY <1>2, <2>1, <2>2, <2>3 DEF QueryStep, Proceed
<1>3. CASE UNCHANGED cache_vars
  <2>1. UNCHANGED <<log, context, ordered, prepared, col, copy, ask>>
    BY <1>3 DEF cache_vars
  <2>. QED  BY <2>1 DEF DataInv, Sorts, Collecting, Preparing, Ordering, Copying, Asking
<1>. QED  BY <1>1, <1>2, <1>3 DEF CacheNext

-----------------------------------------------------------------------------
(* What the invariant says of the prepared databases                       *)

LEMMA AllWhole == DataInv => PreparedWhole
<1>. SUFFICES ASSUME DataInv, NEW r \in Run, IsFile(prepared[r])
             PROVE  LET db == prepared[r]
                        names == [k \in DOMAIN db.sources |-> db.sources[k].stamp.file]
                    IN /\ IsInjective(names)
                       /\ db.rows = FlattenSeq([k \in DOMAIN names |->
                                        Parsed(names[k], db.sources[k].stamp.version)])
                       /\ db.stays = ToSet(db.rows)
  BY DEF PreparedWhole
<1>. DEFINE db == prepared[r]
            names == [k \in DOMAIN db.sources |-> db.sources[k].stamp.file]
<1>1. DbOK(r, log[r], context[r], db) /\ log[r] \in [Log -> Nat] /\ context[r] \in Nat \ {0}
  BY Worlds DEF DataInv, Preparing
<1>. HIDE DEF db
<1>2. db.sources \in Seq(Entries(r, log[r])) /\ Distinct(db.sources)
      /\ db.rows = FlattenSeq(Blocks(db.sources)) /\ db.stays = ToSet(db.rows)
  BY <1>1, DbParts DEF db
<1>3. DOMAIN db.sources = 1..Len(db.sources)
  BY <1>2
<1>4. IsInjective(names)
  BY <1>2, <1>3 DEF IsInjective, Distinct
<1>5. [k \in DOMAIN names |-> Parsed(names[k], db.sources[k].stamp.version)] = Blocks(db.sources)
  BY <1>3 DEF Blocks
<1>. QED  BY <1>2, <1>4, <1>5 DEF db

LEMMA Serves == DataInv => PreparedServes
<1>. SUFFICES ASSUME DataInv, NEW r \in ordered,
                     IsFile(prepared[r]), prepared[r].context = context[r],
                     Len(prepared[r].sources) = Len(Sources[r]),
                     ToSet(StampsOf(prepared[r])) = ToSet(Stamps(r))
             PROVE  StampsOf(prepared[r]) = Stamps(r)
  BY DEF PreparedServes
<1>. DEFINE db == prepared[r]
            n == Len(Sources[r])
            has == StampsOf(db)
            want == Stamps(r)
            mark(k) == [file |-> Sources[r][k], version |-> log[r][Sources[r][k]]]
<1>1. r \in Run /\ log[r] \in [Log -> Nat] /\ context[r] \in Nat \ {0}
  BY Worlds DEF DataInv, Sorts
<1>2. DbOK(r, log[r], context[r], db) /\ Settled(r, log[r], context[r], db)
  BY <1>1 DEF DataInv, Preparing, Ordering
<1>3. db.sources \in Seq(Entries(r, log[r]))
  BY <1>1, <1>2, DbParts
<1>4. n \in Nat /\ DOMAIN want = 1..n /\ \A k \in 1..n : want[k] = mark(k)
  BY <1>1, Manifest DEF Stamps
<1>5. DOMAIN db.sources = 1..n
  BY <1>3
<1>6. has = [k \in 1..n |-> db.sources[k].stamp] /\ DOMAIN has = 1..n
      /\ \A k \in 1..n : has[k] = db.sources[k].stamp
  BY <1>5 DEF StampsOf
<1>7. want = [k \in 1..n |-> mark(k)]
  BY <1>1, Manifest DEF Stamps
<1>8. IsFile(db) /\ db.context = context[r] /\ Len(db.sources) = n /\ ToSet(has) = ToSet(want)
  OBVIOUS
<1>. HIDE DEF has, want, db
<1>9. ASSUME NEW k \in 1..n
      PROVE  \E j \in 1..n : has[j] = mark(k)
  <2>1. want[k] \in ToSet(want)
    BY <1>4, <1>9 DEF ToSet
  <2>2. want[k] \in ToSet(has)
    BY <1>8, <2>1
  <2>. QED  BY <1>4, <1>6, <2>2 DEF ToSet
<1>10. ASSUME NEW k \in 1..n
       PROVE  \E j \in 1..n : has[k] = mark(j)
  <2>1. has[k] \in ToSet(has)
    BY <1>6, <1>10 DEF ToSet
  <2>2. has[k] \in ToSet(want)
    BY <1>8, <2>1
  <2>. QED  BY <1>4, <2>2 DEF ToSet
<1>11. \A k \in 1..n : db.sources[k].stamp.file = Sources[r][k]
  <2>1. ~(db = NoDb) /\ ~(db.context < context[r]) /\ ~(Len(db.sources) # n)
    BY <1>1, <1>8 DEF IsFile
  <2>2. ~(\E k \in 1..n : \A j \in 1..Len(db.sources) : db.sources[j].stamp # mark(k))
    <3>. SUFFICES ASSUME NEW k \in 1..n PROVE \E j \in 1..Len(db.sources) : db.sources[j].stamp = mark(k)
      OBVIOUS
    <3>. QED  BY <1>6, <1>8, <1>9
  <2>. QED  BY <1>2, <2>1, <2>2 DEF Settled
<1>12. ASSUME NEW k \in 1..n
       PROVE  has[k] = mark(k)
  <2>1. PICK j \in 1..n : has[k] = mark(j)
    BY <1>10, <1>12
  <2>2. Sources[r][k] = Sources[r][j]
    <3>1. mark(j).file = Sources[r][j]
      OBVIOUS
    <3>. QED  BY <1>6, <1>11, <1>12, <2>1, <3>1
  <2>3. j = k
    BY <1>1, <1>12, <2>1, <2>2, Manifest
  <2>. QED  BY <2>1, <2>3
<1>13. \A k \in 1..n : db.sources[k].stamp = mark(k)
  BY <1>6, <1>12
<1>14. has = want
  BY <1>6, <1>7, <1>13
<1>. QED  BY <1>14 DEF has, want, db

-----------------------------------------------------------------------------
(* The copies that are there                                               *)

LEMMA ImageBound ==
    ASSUME NEW n \in Nat, NEW f, NEW S, \A x \in S : \E i \in 1..n : f[i] = x
    PROVE  IsFiniteSet(S) /\ Cardinality(S) <= n /\ Cardinality(S) \in Nat
<1>. DEFINE R == {f[i] : i \in 1..n}
            g == [i \in 1..n |-> f[i]]
<1>1. g \in Surjection(1..n, R)
  BY DEF Surjection
<1>2. ExistsSurjection(1..n, R)
  BY <1>1 DEF ExistsSurjection
<1>3. IsFiniteSet(R) /\ Cardinality(R) <= n
  <2>. HIDE DEF R
  <2>1. IsFiniteSet(R)
    BY <1>2, FS_NatSurjection
  <2>. QED  BY <1>2, <2>1, FS_SurjCardinalityBound
<1>4. S \in SUBSET R
  OBVIOUS
<1>. HIDE DEF R
<1>5. IsFiniteSet(S) /\ Cardinality(S) <= Cardinality(R)
  BY <1>3, <1>4, FS_Subset
<1>6. Cardinality(S) \in Nat /\ Cardinality(R) \in Nat
  BY <1>3, <1>5, FS_CardinalityType
<1>. QED  BY <1>3, <1>5, <1>6

LEMMA CopiesFinite ==
    ASSUME RecentOK
    PROVE  IsFiniteSet(Copies)
<1>1. recent \in Seq(Run) /\ Copies = ToSet(recent)
  BY DEF RecentOK
<1>2. Len(recent) \in Nat /\ \A x \in Copies : \E i \in 1..Len(recent) : recent[i] = x
  BY <1>1 DEF ToSet
<1>. QED  BY <1>2, ImageBound

\* What ListCopies keeps is this copy and the CacheRuns - 1 last used others.
LEMMA Kept ==
    ASSUME RecentOK, NEW r \in Run
    PROVE  Cardinality(Copies \ Victims(r)) <= CacheRuns
<1>. DEFINE t == RemoveFirst(recent, r)
            len == Len(t)
            C == CacheRuns
            n == len - (C - 1)
            m == IF n >= 0 THEN C - 1 ELSE len
            k == len - m
            R == (Copies \ Victims(r)) \ {r}
            f == [i \in 1..m |-> t[k + i]]
<1>1. t \in Seq(Run) /\ ToSet(t) = Copies \ {r}
  BY RemoveFirstFacts DEF RecentOK
<1>2. Victims(r) = ToSet(SubSeq(t, 1, n))
  BY DEF Victims, Others
<1>. HIDE DEF t
<1>3. C \in Nat /\ C >= 1 /\ len \in Nat /\ n \in Int /\ n <= len /\ DOMAIN t = 1..len
  BY <1>1, CacheRunsAssumption
<1>. HIDE DEF len
<1>4. m \in Nat /\ m <= C - 1 /\ k \in Nat /\ k + m = len /\ n <= k
  BY <1>3
<1>5. k <= n \/ k = 0
  BY <1>3
<1>6. \A i \in 1..n : t[i] \in Victims(r)
  <2>1. SubSeq(t, 1, n) = [i \in 1..n |-> t[i]]
    BY <1>1, <1>3 DEF len
  <2>. HIDE DEF n
  <2>. QED  BY <1>2, <2>1 DEF ToSet
<1>7. ASSUME NEW x \in R
      PROVE  \E i \in 1..m : f[i] = x
  <2>1. x \in ToSet(t) /\ x \notin Victims(r)
    BY <1>1
  <2>2. PICK j \in 1..len : t[j] = x
    BY <1>3, <2>1 DEF ToSet
  <2>3. ~(j \in 1..n)
    <3>. HIDE DEF n
    <3>. QED  BY <1>6, <2>1, <2>2
  <2>. HIDE DEF m
  <2>4. j - k \in 1..m /\ k + (j - k) = j
    <3>. HIDE DEF k, n
    <3>. QED  BY <1>3, <1>4, <1>5, <2>2, <2>3
  <2>. HIDE DEF k
  <2>5. f[j - k] = x
    BY <2>2, <2>4
  <2>. QED  BY <2>4, <2>5
<1>. HIDE DEF f, R, m
<1>8. IsFiniteSet(R) /\ Cardinality(R) <= m /\ Cardinality(R) \in Nat
  BY <1>4, <1>7, ImageBound
<1>9. IsFiniteSet(R \cup {r}) /\ Cardinality(R \cup {r}) <= C
  <2>1. IsFiniteSet(R \cup {r})
        /\ (Cardinality(R \cup {r}) = Cardinality(R) \/ Cardinality(R \cup {r}) = Cardinality(R) + 1)
    BY <1>8, FS_AddElement
  <2>. QED  BY <1>3, <1>4, <1>8, <2>1
<1>10. Copies \ Victims(r) \in SUBSET (R \cup {r})
  BY DEF R
<1>11. Cardinality(Copies \ Victims(r)) <= Cardinality(R \cup {r})
       /\ IsFiniteSet(Copies \ Victims(r))
  BY <1>9, <1>10, FS_Subset
<1>12. Cardinality(Copies \ Victims(r)) \in Nat /\ Cardinality(R \cup {r}) \in Nat
  BY <1>9, <1>11, FS_CardinalityType
<1>. QED  BY <1>3, <1>9, <1>11, <1>12

LEMMA RecentInit == CacheInit => RecentOK
<1>. SUFFICES ASSUME CacheInit PROVE RecentOK
  OBVIOUS
<1>1. recent = <<>> /\ Copies = {}
  BY DEF CacheInit, Copies, IsFile
<1>2. recent \in Seq(Run) /\ DOMAIN recent = {}
  BY <1>1
<1>. QED  BY <1>1, <1>2 DEF RecentOK, IsInjective, ToSet

\* A copy is used, or removed.
LEMMA RecentUsed ==
    ASSUME RecentOK, NEW r \in Run, recent' = Used(r), Copies' = Copies \cup {r}
    PROVE  RecentOK'
<1>. DEFINE t == RemoveFirst(recent, r)
<1>1. t \in Seq(Run) /\ IsInjective(t) /\ ToSet(t) = Copies \ {r}
  BY RemoveFirstFacts DEF RecentOK
<1>. HIDE DEF t
<1>2. recent' = Append(t, r)
  BY DEF Used, Others, t
<1>3. r \notin ToSet(t)
  BY <1>1
<1>4. recent' \in Seq(Run) /\ IsInjective(recent') /\ ToSet(recent') = ToSet(t) \cup {r}
  BY <1>1, <1>2, <1>3, AppendFacts
<1>. QED  BY <1>1, <1>4 DEF RecentOK

LEMMA RecentRemoved ==
    ASSUME RecentOK, NEW r, recent' = Others(r), Copies' = Copies \ {r}
    PROVE  RecentOK'
<1>. DEFINE t == RemoveFirst(recent, r)
<1>1. t \in Seq(Run) /\ IsInjective(t) /\ ToSet(t) = Copies \ {r}
  BY RemoveFirstFacts DEF RecentOK
<1>2. recent' = t
  BY DEF Others
<1>. QED  BY <1>1, <1>2 DEF RecentOK

LEMMA CopiesMove ==
    ASSUME DataInv, NEW r \in Run, NEW file, copy' = [copy EXCEPT ![r] = file]
    PROVE  Copies' = IF IsFile(file) THEN Copies \cup {r} ELSE Copies \ {r}
<1>1. DOMAIN copy = Run
  BY DEF DataInv, Sorts
<1>. QED  BY <1>1 DEF Copies, IsFile

LEMMA PublishCopies ==
    ASSUME DataInv, NEW q \in Query, Publish(q)
    PROVE  RunOf(q) \in Run /\ Copies' = Copies \cup {RunOf(q)} /\ recent' = Used(RunOf(q))
<1>. DEFINE file == [key |-> Key(q), rows |-> ask[q].rows, stays |-> ask[q].stays]
<1>1. RunOf(q) \in Run
  BY AskParts DEF Publish
<1>2. copy' = [copy EXCEPT ![RunOf(q)] = file] /\ recent' = Used(RunOf(q))
  BY DEF Publish
<1>3. IsFile(file)
  BY DEF IsFile, NoDb
<1>. HIDE DEF file
<1>. QED  BY <1>1, <1>2, <1>3, CopiesMove

LEMMA EvictCopies ==
    ASSUME DataInv, NEW q \in Query, Evict(q)
    PROVE  \E r \in ask[q].victims :
             /\ Copies' = Copies \ {r} /\ recent' = Others(r)
             /\ ask' = [ask EXCEPT ![q].victims = @ \ {r}]
<1>1. PICK r \in ask[q].victims :
        copy' = [copy EXCEPT ![r] = NoDb] /\ recent' = Others(r)
        /\ ask' = [ask EXCEPT ![q].victims = @ \ {r}]
  BY DEF Evict
<1>2. r \in Run
  BY AskParts DEF Evict
<1>3. ~IsFile(NoDb)
  BY DEF IsFile
<1>. QED  BY <1>1, <1>2, <1>3, CopiesMove

LEMMA RecentNext ==
    ASSUME DataInv, RecentOK, [CacheNext]_cache_vars
    PROVE  RecentOK'
<1>1. CASE UNCHANGED <<copy, recent>>
  BY <1>1 DEF RecentOK, Copies
<1>2. ASSUME NEW r \in Run, RunStep(r)
      PROVE  UNCHANGED <<copy, recent>>
  BY <1>2 DEF RunStep, PrepareOrder, Save, Killed, ChangeContext, Collector, ReplaceLog, Stamp,
     Parse, WarmLock, WarmLook, WarmCommit, WarmFails, query_vars
<1>3. ASSUME NEW q \in Query, QueryStep(q)
      PROVE  RecentOK'
  <2>1. CASE Hit(q)
    <3>1. RunOf(q) \in Run
      BY <2>1, AskParts DEF Hit
    <3>2. CASE IsFile(copy[RunOf(q)])
      <4>1. recent' = Used(RunOf(q)) /\ copy' = copy
        BY <2>1, <3>2 DEF Hit
      <4>2. Copies' = Copies \cup {RunOf(q)}
        BY <3>1, <3>2, <4>1 DEF Copies
      <4>. QED  BY <3>1, <4>1, <4>2, RecentUsed
    <3>3. CASE ~IsFile(copy[RunOf(q)])
      BY <1>1, <2>1, <3>3 DEF Hit
    <3>. QED  BY <3>2, <3>3
  <2>2. CASE Publish(q)
    BY <2>2, PublishCopies, RecentUsed
  <2>3. CASE Evict(q)
    BY <2>3, EvictCopies, RecentRemoved
  <2>4. CASE ~(Hit(q) \/ Publish(q) \/ Evict(q))
    <3>1. UNCHANGED <<copy, recent>>
      BY <1>3, <2>4 DEF QueryStep, Proceed, KeyLog, OpenCopy, Seek, LockPrepared, CopyPrepared, Build,
         ListCopies, Reopen, Load, Opened, BuildFails, KillQuery, Ask
    <3>. QED  BY <1>1, <3>1
  <2>. QED  BY <2>1, <2>2, <2>3, <2>4
<1>4. CASE UNCHANGED cache_vars
  BY <1>1, <1>4 DEF cache_vars
<1>. QED  BY <1>1, <1>2, <1>3, <1>4 DEF CacheNext

-----------------------------------------------------------------------------
(* Their number                                                            *)

LEMMA OneMore ==
    ASSUME NEW S, IsFiniteSet(S), NEW x, NEW V
    PROVE  /\ Cardinality((S \cup {x}) \ V) \in Nat /\ Cardinality(S \ V) \in Nat
           /\ Cardinality((S \cup {x}) \ V) <= Cardinality(S \ V) + 1
<1>1. IsFiniteSet(S \ V)
  BY FS_Difference
<1>2. IsFiniteSet((S \ V) \cup {x}) /\ Cardinality(S \ V) \in Nat
      /\ (Cardinality((S \ V) \cup {x}) = Cardinality(S \ V)
          \/ Cardinality((S \ V) \cup {x}) = Cardinality(S \ V) + 1)
  BY <1>1, FS_AddElement, FS_CardinalityType
<1>3. (S \cup {x}) \ V \in SUBSET ((S \ V) \cup {x})
  OBVIOUS
<1>4. IsFiniteSet((S \cup {x}) \ V)
      /\ Cardinality((S \cup {x}) \ V) <= Cardinality((S \ V) \cup {x})
  BY <1>2, <1>3, FS_Subset
<1>5. Cardinality((S \cup {x}) \ V) \in Nat
  BY <1>4, FS_CardinalityType
<1>. QED  BY <1>2, <1>4, <1>5

LEMMA Fewer ==
    ASSUME NEW S, IsFiniteSet(S), NEW T, T \subseteq S
    PROVE  /\ IsFiniteSet(T) /\ Cardinality(T) \in Nat /\ Cardinality(S) \in Nat
           /\ Cardinality(T) <= Cardinality(S)
<1>1. T \in SUBSET S
  OBVIOUS
<1>. QED  BY <1>1, FS_Subset, FS_CardinalityType

LEMMA OneLess ==
    ASSUME NEW S, IsFiniteSet(S), NEW x
    PROVE  /\ IsFiniteSet(S \ {x}) /\ Cardinality(S) \in Nat /\ Cardinality(S \ {x}) \in Nat
           /\ Cardinality(S) <= Cardinality(S \ {x}) + 1
BY FS_RemoveElement, FS_CardinalityType, SMTT(30)

\* Who publishes and who removes copies when the query q moves on.
LEMMA AskMoves ==
    ASSUME DataInv, NEW q \in Query, NEW a, ask' = [ask EXCEPT ![q] = a]
    PROVE  /\ ask'[q] = a /\ \A p \in Query \ {q} : ask'[p] = ask[p]
           /\ Publishing' = IF a.step \in {"list", "evict"} THEN Publishing \cup {q}
                            ELSE Publishing \ {q}
           /\ Evicting' = IF a.step = "evict" THEN Evicting \cup {q} ELSE Evicting \ {q}
<1>1. ask'[q] = a /\ \A p \in Query \ {q} : ask'[p] = ask[p]
  BY DEF DataInv, Sorts
<1>. QED  BY <1>1 DEF Publishing, Evicting

LEMMA BoundsInit == CacheInit => Bounds
<1>. SUFFICES ASSUME CacheInit PROVE Bounds
  OBVIOUS
<1>1. Copies = {} /\ Publishing = {} /\ Evicting = {} /\ killed = 0
  BY DEF CacheInit, Copies, Publishing, Evicting, IsFile, Idle
<1>2. Cardinality({}) = 0 /\ IsFiniteSet({})
  BY FS_EmptySet
<1>3. AfterOK([q \in Query |-> {}])
  BY <1>1 DEF AfterOK
<1>4. [q \in Query |-> {}] \in [Query -> SUBSET Query]
  OBVIOUS
<1>. QED  BY <1>1, <1>2, <1>3, <1>4, CacheRunsAssumption DEF Bounds

LEMMA BoundsStay ==
    ASSUME Bounds, killed' = killed, Copies' = Copies, Publishing' = Publishing,
           Evicting' = Evicting, \A p \in Evicting : ask'[p].victims = ask[p].victims
    PROVE  Bounds'
<1>1. PICK after \in [Query -> SUBSET Query] : AfterOK(after)
  BY DEF Bounds
<1>2. AfterOK(after)'
  BY <1>1 DEF AfterOK
<1>. QED  BY <1>2 DEF Bounds

LEMMA PublishBounds ==
    ASSUME DataInv, RecentOK, Bounds, NEW q \in Query, Publish(q)
    PROVE  Bounds'
<1>. DEFINE a == [ask[q] EXCEPT !.step = "list"]
            r == RunOf(q)
<1>1. ask' = [ask EXCEPT ![q] = a] /\ killed' = killed /\ Copies' = Copies \cup {r}
  BY PublishCopies DEF Publish, Enter, DataInv, Sorts
<1>2. a.step = "list"
  BY AskParts DEF Publish, Question
<1>3. q \notin Publishing /\ q \notin Evicting
  BY DEF Publish, Publishing, Evicting
<1>. HIDE DEF a, r
<1>4. Publishing' = Publishing \cup {q} /\ Evicting' = Evicting
      /\ \A p \in Query \ {q} : ask'[p] = ask[p]
  <2>1. /\ ask'[q] = a /\ \A p \in Query \ {q} : ask'[p] = ask[p]
        /\ Publishing' = IF a.step \in {"list", "evict"} THEN Publishing \cup {q}
                         ELSE Publishing \ {q}
        /\ Evicting' = IF a.step = "evict" THEN Evicting \cup {q} ELSE Evicting \ {q}
    BY <1>1, AskMoves
  <2>. QED  BY <1>2, <1>3, <2>1
<1>5. IsFiniteSet(Copies) /\ IsFiniteSet(Publishing) /\ killed \in Nat
      /\ Cardinality(Copies) <= CacheRuns + killed + Cardinality(Publishing)
  BY CopiesFinite DEF Bounds
<1>6. CacheRuns \in Nat
  BY CacheRunsAssumption
<1>7. IsFiniteSet(Publishing') /\ Cardinality(Publishing') = Cardinality(Publishing) + 1
      /\ Cardinality(Publishing) \in Nat
  BY <1>3, <1>4, <1>5, FS_AddElement, FS_CardinalityType
<1>8. Cardinality(Copies') <= CacheRuns + killed' + Cardinality(Publishing')
  <2>1. Cardinality(Copies \cup {r}) \in Nat /\ Cardinality(Copies) \in Nat
        /\ Cardinality(Copies \cup {r}) <= Cardinality(Copies) + 1
    <3>1. (Copies \cup {r}) \ {} = Copies \cup {r} /\ Copies \ {} = Copies
      OBVIOUS
    <3>. QED  BY <1>5, <3>1, OneMore
  <2>. QED  BY <1>1, <1>5, <1>6, <1>7, <2>1
<1>9. PICK after \in [Query -> SUBSET Query] : AfterOK(after)
  BY DEF Bounds
<1>. DEFINE later == [p \in Query |-> after[p] \cup {q}]
<1>10. later \in [Query -> SUBSET Query] /\ \A p \in Query : later[p] = after[p] \cup {q}
  OBVIOUS
<1>. HIDE DEF later
<1>11. AfterOK(later)'
  <2>. SUFFICES ASSUME NEW p \in Evicting'
               PROVE  /\ later[p] \subseteq Publishing' \ {p}
                      /\ Cardinality(Copies' \ ask'[p].victims)
                           <= CacheRuns + killed' + Cardinality(later[p])
                      /\ \A s \in later[p] \cap Evicting' : later[s] \subseteq later[p]
    BY DEF AfterOK
  <2>1. p \in Evicting /\ p \in Query /\ p # q /\ ask'[p] = ask[p]
    BY <1>3, <1>4 DEF Evicting
  <2>2. /\ after[p] \subseteq Publishing \ {p}
        /\ Cardinality(Copies \ ask[p].victims) <= CacheRuns + killed + Cardinality(after[p])
        /\ \A s \in after[p] \cap Evicting : after[s] \subseteq after[p]
    BY <1>9, <2>1 DEF AfterOK
  <2>3. IsFiniteSet(after[p]) /\ Cardinality(after[p]) \in Nat
        /\ Cardinality(later[p]) = Cardinality(after[p]) + 1
    <3>1. after[p] \subseteq Publishing /\ q \notin after[p]
      BY <1>3, <2>2
    <3>2. IsFiniteSet(after[p]) /\ Cardinality(after[p]) \in Nat
      BY <1>5, <3>1, Fewer
    <3>. QED  BY <1>10, <2>1, <3>1, <3>2, FS_AddElement
  <2>4. Cardinality(Copies' \ ask'[p].victims) <= CacheRuns + killed' + Cardinality(later[p])
    <3>1. /\ Cardinality((Copies \cup {r}) \ ask[p].victims) \in Nat
          /\ Cardinality(Copies \ ask[p].victims) \in Nat
          /\ Cardinality((Copies \cup {r}) \ ask[p].victims) <= Cardinality(Copies \ ask[p].victims) + 1
      BY <1>5, OneMore
    <3>. QED  BY <1>1, <1>5, <1>6, <2>1, <2>2, <2>3, <3>1
  <2>5. later[p] \subseteq Publishing' \ {p}
    BY <1>4, <1>10, <2>1, <2>2
  <2>6. \A s \in later[p] \cap Evicting' : later[s] \subseteq later[p]
    <3>1. \A s \in Evicting : s \in Query /\ s # q
      BY <1>3 DEF Evicting
    <3>. QED  BY <1>4, <1>10, <2>1, <2>2, <3>1
  <2>. QED  BY <2>4, <2>5, <2>6
<1>. QED  BY <1>1, <1>5, <1>7, <1>8, <1>10, <1>11 DEF Bounds

LEMMA ListBounds ==
    ASSUME DataInv, RecentOK, Bounds, NEW q \in Query, ListCopies(q)
    PROVE  Bounds'
<1>. DEFINE r == RunOf(q)
            a == [ask[q] EXCEPT !.step = "evict", !.victims = Victims(r)]
<1>1. ask' = [ask EXCEPT ![q] = a] /\ killed' = killed /\ Copies' = Copies
  BY DEF ListCopies, Copies, DataInv, Sorts
<1>2. a.step = "evict" /\ a.victims = Victims(r) /\ r \in Run
  <2>1. r \in Run /\ ask[q] \in Question
    BY AskParts DEF ListCopies
  <2>. HIDE DEF r
  <2>. QED  BY <2>1 DEF Question
<1>3. q \in Publishing /\ q \notin Evicting
  BY DEF ListCopies, Publishing, Evicting
<1>. HIDE DEF a, r
<1>4. Publishing' = Publishing /\ Evicting' = Evicting \cup {q}
      /\ ask'[q] = a /\ \A p \in Query \ {q} : ask'[p] = ask[p]
  <2>1. /\ ask'[q] = a /\ \A p \in Query \ {q} : ask'[p] = ask[p]
        /\ Publishing' = IF a.step \in {"list", "evict"} THEN Publishing \cup {q}
                         ELSE Publishing \ {q}
        /\ Evicting' = IF a.step = "evict" THEN Evicting \cup {q} ELSE Evicting \ {q}
    BY <1>1, AskMoves
  <2>. QED  BY <1>2, <1>3, <2>1
<1>5. IsFiniteSet(Copies) /\ IsFiniteSet(Publishing) /\ killed \in Nat
      /\ Cardinality(Copies) <= CacheRuns + killed + Cardinality(Publishing)
  BY CopiesFinite DEF Bounds
<1>9. PICK after \in [Query -> SUBSET Query] : AfterOK(after)
  BY DEF Bounds
<1>. DEFINE later == [after EXCEPT ![q] = {}]
<1>10. later \in [Query -> SUBSET Query] /\ later[q] = {} /\ \A p \in Query \ {q} : later[p] = after[p]
  OBVIOUS
<1>. HIDE DEF later
<1>11. AfterOK(later)'
  <2>. SUFFICES ASSUME NEW p \in Evicting'
               PROVE  /\ later[p] \subseteq Publishing' \ {p}
                      /\ Cardinality(Copies' \ ask'[p].victims)
                           <= CacheRuns + killed' + Cardinality(later[p])
                      /\ \A s \in later[p] \cap Evicting' : later[s] \subseteq later[p]
    BY DEF AfterOK
  <2>1. CASE p = q
    <3>1. Cardinality(Copies \ Victims(r)) <= CacheRuns
      BY <1>2, Kept
    <3>2. Cardinality(Copies \ Victims(r)) \in Nat
      BY <1>5, OneMore
    <3>3. CacheRuns \in Nat /\ Cardinality(later[p]) = 0
      BY <1>10, <2>1, CacheRunsAssumption, FS_EmptySet
    <3>. QED  BY <1>1, <1>2, <1>4, <1>5, <1>10, <2>1, <3>1, <3>2, <3>3
  <2>2. CASE p # q
    <3>1. p \in Evicting /\ p \in Query /\ ask'[p] = ask[p] /\ later[p] = after[p]
      BY <1>4, <1>10, <2>2 DEF Evicting
    <3>2. /\ after[p] \subseteq Publishing \ {p}
          /\ Cardinality(Copies \ ask[p].victims) <= CacheRuns + killed + Cardinality(after[p])
          /\ \A s \in after[p] \cap Evicting : after[s] \subseteq after[p]
      BY <1>9, <3>1 DEF AfterOK
    <3>3. \A s \in later[p] \cap Evicting' : later[s] \subseteq later[p]
      <4>1. \A s \in Evicting : s \in Query
        BY DEF Evicting
      <4>. QED  BY <1>4, <1>10, <3>1, <3>2, <4>1
    <3>. QED  BY <1>1, <1>4, <3>1, <3>2, <3>3
  <2>. QED  BY <2>1, <2>2
<1>. QED  BY <1>1, <1>4, <1>5, <1>10, <1>11 DEF Bounds

LEMMA EvictBounds ==
    ASSUME DataInv, RecentOK, Bounds, NEW q \in Query, Evict(q)
    PROVE  Bounds'
<1>0. PICK r \in ask[q].victims :
        Copies' = Copies \ {r} /\ ask' = [ask EXCEPT ![q].victims = @ \ {r}]
  BY EvictCopies
<1>. DEFINE a == [ask[q] EXCEPT !.victims = @ \ {r}]
<1>1. ask' = [ask EXCEPT ![q] = a] /\ killed' = killed
  BY <1>0 DEF Evict, DataInv, Sorts
<1>2. a.step = "evict" /\ a.victims = ask[q].victims \ {r}
  <2>1. ask[q] \in Question /\ ask[q].step = "evict"
    BY AskParts DEF Evict
  <2>. QED  BY <2>1 DEF Question
<1>3. q \in Publishing /\ q \in Evicting
  BY DEF Evict, Publishing, Evicting
<1>. HIDE DEF a
<1>4. Publishing' = Publishing /\ Evicting' = Evicting
      /\ ask'[q] = a /\ \A p \in Query \ {q} : ask'[p] = ask[p]
  <2>1. /\ ask'[q] = a /\ \A p \in Query \ {q} : ask'[p] = ask[p]
        /\ Publishing' = IF a.step \in {"list", "evict"} THEN Publishing \cup {q}
                         ELSE Publishing \ {q}
        /\ Evicting' = IF a.step = "evict" THEN Evicting \cup {q} ELSE Evicting \ {q}
    BY <1>1, AskMoves
  <2>. QED  BY <1>2, <1>3, <2>1
<1>5. IsFiniteSet(Copies) /\ IsFiniteSet(Publishing) /\ killed \in Nat /\ CacheRuns \in Nat
      /\ Cardinality(Copies) <= CacheRuns + killed + Cardinality(Publishing)
  BY CopiesFinite, CacheRunsAssumption DEF Bounds
<1>6. Cardinality(Copies') <= CacheRuns + killed' + Cardinality(Publishing')
  <2>1. /\ Cardinality(Copies \ {r}) \in Nat /\ Cardinality(Copies) \in Nat
        /\ Cardinality(Copies \ {r}) <= Cardinality(Copies)
    BY <1>5, Fewer
  <2>2. Cardinality(Publishing) \in Nat
    BY <1>5, FS_CardinalityType
  <2>. QED  BY <1>0, <1>1, <1>4, <1>5, <2>1, <2>2
<1>9. PICK after \in [Query -> SUBSET Query] : AfterOK(after)
  BY DEF Bounds
<1>11. AfterOK(after)'
  <2>. SUFFICES ASSUME NEW p \in Evicting
               PROVE  /\ after[p] \subseteq Publishing \ {p}
                      /\ Cardinality(Copies' \ ask'[p].victims)
                           <= CacheRuns + killed' + Cardinality(after[p])
                      /\ \A s \in after[p] \cap Evicting : after[s] \subseteq after[p]
    BY <1>4 DEF AfterOK
  <2>1. /\ after[p] \subseteq Publishing \ {p}
        /\ Cardinality(Copies \ ask[p].victims) <= CacheRuns + killed + Cardinality(after[p])
        /\ \A s \in after[p] \cap Evicting : after[s] \subseteq after[p]
    BY <1>9 DEF AfterOK
  <2>2. Copies' \ ask'[p].victims \subseteq Copies \ ask[p].victims
    <3>1. CASE p = q
      BY <1>0, <1>2, <1>4, <3>1
    <3>2. CASE p # q
      <4>1. ask'[p] = ask[p]
        BY <1>4, <3>2 DEF Evicting
      <4>. QED  BY <1>0, <4>1
    <3>. QED  BY <3>1, <3>2
  <2>3. /\ Cardinality(Copies' \ ask'[p].victims) \in Nat /\ Cardinality(Copies \ ask[p].victims) \in Nat
        /\ Cardinality(Copies' \ ask'[p].victims) <= Cardinality(Copies \ ask[p].victims)
    <3>1. IsFiniteSet(Copies \ ask[p].victims)
      BY <1>5, FS_Difference
    <3>. QED  BY <2>2, <3>1, Fewer
  <2>4. Cardinality(after[p]) \in Nat
    <3>1. after[p] \subseteq Publishing
      BY <2>1
    <3>. QED  BY <1>5, <3>1, Fewer
  <2>. QED  BY <1>1, <1>5, <2>1, <2>3, <2>4
<1>. QED  BY <1>1, <1>4, <1>5, <1>6, <1>9, <1>11 DEF Bounds

\* A query that has removed its copies leaves no more than those who listed theirs later
\* will remove.
LEMMA ReopenBounds ==
    ASSUME DataInv, RecentOK, Bounds, NEW q \in Query, Reopen(q)
    PROVE  Bounds'
<1>1. q \in Evicting /\ ask[q].victims = {} /\ killed' = killed /\ copy' = copy
  BY DEF Reopen, Evicting
<1>2. PICK a : ask' = [ask EXCEPT ![q] = a] /\ a.step \in {"opened", "memory"}
  <2>. DEFINE x == [ask[q] EXCEPT !.step = "opened", !.rows = copy[RunOf(q)].rows,
                                 !.stays = copy[RunOf(q)].stays]
              y == [ask[q] EXCEPT !.step = "memory", !.rows = <<>>, !.stays = {}, !.read = 0]
  <2>1. ask[q] \in Question
    BY AskParts DEF Reopen
  <2>2. x.step = "opened" /\ y.step = "memory"
    BY <2>1 DEF Question
  <2>3. ask' = [ask EXCEPT ![q] = x] \/ ask' = [ask EXCEPT ![q] = y]
    BY DEF Reopen, DataInv, Sorts
  <2>. HIDE DEF x, y
  <2>. QED  BY <2>2, <2>3
<1>3. Copies' = Copies
  BY <1>1 DEF Copies
<1>4. Publishing' = Publishing \ {q} /\ Evicting' = Evicting \ {q}
      /\ \A p \in Query \ {q} : ask'[p] = ask[p]
  <2>1. /\ \A p \in Query \ {q} : ask'[p] = ask[p]
        /\ Publishing' = IF a.step \in {"list", "evict"} THEN Publishing \cup {q}
                         ELSE Publishing \ {q}
        /\ Evicting' = IF a.step = "evict" THEN Evicting \cup {q} ELSE Evicting \ {q}
    BY <1>2, AskMoves
  <2>. QED  BY <1>2, <2>1
<1>5. IsFiniteSet(Copies) /\ IsFiniteSet(Publishing) /\ killed \in Nat /\ CacheRuns \in Nat
  BY CopiesFinite, CacheRunsAssumption DEF Bounds
<1>6. IsFiniteSet(Publishing \ {q})
  BY <1>5, OneLess
<1>9. PICK after \in [Query -> SUBSET Query] : AfterOK(after)
  BY DEF Bounds
<1>10. after[q] \subseteq Publishing \ {q}
       /\ Cardinality(Copies) <= CacheRuns + killed + Cardinality(after[q])
       /\ Cardinality(after[q]) \in Nat
  <2>1. after[q] \subseteq Publishing \ {q}
        /\ Cardinality(Copies \ {}) <= CacheRuns + killed + Cardinality(after[q])
    BY <1>1, <1>9 DEF AfterOK
  <2>2. Copies \ {} = Copies
    OBVIOUS
  <2>3. Cardinality(after[q]) \in Nat
    BY <1>6, <2>1, Fewer
  <2>. QED  BY <2>1, <2>2, <2>3
<1>11. Cardinality(Copies') <= CacheRuns + killed' + Cardinality(Publishing')
  <2>1. Cardinality(after[q]) <= Cardinality(Publishing \ {q})
        /\ Cardinality(Publishing \ {q}) \in Nat
    BY <1>6, <1>10, Fewer
  <2>2. Cardinality(Copies) \in Nat
    BY <1>5, FS_CardinalityType
  <2>. QED  BY <1>1, <1>3, <1>4, <1>5, <1>10, <2>1, <2>2
<1>. DEFINE later == [p \in Query |-> after[p] \ {q}]
<1>12. later \in [Query -> SUBSET Query] /\ \A p \in Query : later[p] = after[p] \ {q}
  OBVIOUS
<1>. HIDE DEF later
<1>13. AfterOK(later)'
  <2>. SUFFICES ASSUME NEW p \in Evicting'
               PROVE  /\ later[p] \subseteq Publishing' \ {p}
                      /\ Cardinality(Copies' \ ask'[p].victims)
                           <= CacheRuns + killed' + Cardinality(later[p])
                      /\ \A s \in later[p] \cap Evicting' : later[s] \subseteq later[p]
    BY DEF AfterOK
  <2>1. p \in Evicting /\ p \in Query /\ p # q /\ ask'[p] = ask[p]
    BY <1>4 DEF Evicting
  <2>2. /\ after[p] \subseteq Publishing \ {p}
        /\ Cardinality(Copies \ ask[p].victims) <= CacheRuns + killed + Cardinality(after[p])
        /\ \A s \in after[p] \cap Evicting : after[s] \subseteq after[p]
    BY <1>9, <2>1 DEF AfterOK
  <2>3. later[p] \subseteq Publishing' \ {p}
    BY <1>4, <1>12, <2>1, <2>2
  <2>4. \A s \in later[p] \cap Evicting' : later[s] \subseteq later[p]
    <3>1. \A s \in Evicting : s \in Query
      BY DEF Evicting
    <3>. QED  BY <1>4, <1>12, <2>1, <2>2, <3>1
  <2>5. Cardinality(Copies \ ask[p].victims) <= CacheRuns + killed + Cardinality(later[p])
    <3>1. CASE q \notin after[p]
      <4>1. later[p] = after[p]
        BY <1>12, <2>1, <3>1
      <4>. QED  BY <2>2, <4>1
    <3>2. CASE q \in after[p]
      <4>1. after[q] \subseteq later[p]
        BY <1>1, <1>10, <1>12, <2>1, <2>2, <3>2
      <4>2. later[p] \subseteq Publishing
        BY <1>12, <2>1, <2>2
      <4>3. IsFiniteSet(later[p])
        BY <1>5, <4>2, Fewer
      <4>4. Cardinality(after[q]) <= Cardinality(later[p]) /\ Cardinality(later[p]) \in Nat
        BY <4>1, <4>3, Fewer
      <4>5. Cardinality(Copies \ ask[p].victims) <= Cardinality(Copies)
            /\ Cardinality(Copies \ ask[p].victims) \in Nat /\ Cardinality(Copies) \in Nat
        BY <1>5, Fewer
      <4>. QED  BY <1>5, <1>10, <4>4, <4>5
    <3>. QED  BY <3>1, <3>2
  <2>. QED  BY <1>1, <1>3, <2>1, <2>3, <2>4, <2>5
<1>. QED  BY <1>1, <1>4, <1>5, <1>6, <1>11, <1>12, <1>13 DEF Bounds

LEMMA KillBounds ==
    ASSUME DataInv, RecentOK, Bounds, NEW q \in Query, KillQuery(q)
    PROVE  Bounds'
<1>1. ask' = [ask EXCEPT ![q] = Idle] /\ killed' = killed + 1 /\ Copies' = Copies
      /\ Idle.step = "idle"
  BY DEF KillQuery, Copies, Idle
<1>4. Publishing' = Publishing \ {q} /\ Evicting' = Evicting \ {q}
      /\ \A p \in Query \ {q} : ask'[p] = ask[p]
  <2>1. /\ \A p \in Query \ {q} : ask'[p] = ask[p]
        /\ Publishing' = IF Idle.step \in {"list", "evict"} THEN Publishing \cup {q}
                         ELSE Publishing \ {q}
        /\ Evicting' = IF Idle.step = "evict" THEN Evicting \cup {q} ELSE Evicting \ {q}
    BY <1>1, AskMoves
  <2>. QED  BY <1>1, <2>1
<1>5. IsFiniteSet(Copies) /\ IsFiniteSet(Publishing) /\ killed \in Nat /\ CacheRuns \in Nat
      /\ Cardinality(Copies) <= CacheRuns + killed + Cardinality(Publishing)
  BY CopiesFinite, CacheRunsAssumption DEF Bounds
<1>6. /\ IsFiniteSet(Publishing \ {q}) /\ Cardinality(Publishing) \in Nat
      /\ Cardinality(Publishing \ {q}) \in Nat
      /\ Cardinality(Publishing) <= Cardinality(Publishing \ {q}) + 1
  BY <1>5, OneLess
<1>7. Cardinality(Copies') <= CacheRuns + killed' + Cardinality(Publishing')
  <2>1. Cardinality(Copies) \in Nat
    BY <1>5, FS_CardinalityType
  <2>. QED  BY <1>1, <1>4, <1>5, <1>6, <2>1
<1>9. PICK after \in [Query -> SUBSET Query] : AfterOK(after)
  BY DEF Bounds
<1>. DEFINE later == [p \in Query |-> after[p] \ {q}]
<1>12. later \in [Query -> SUBSET Query] /\ \A p \in Query : later[p] = after[p] \ {q}
  OBVIOUS
<1>. HIDE DEF later
<1>13. AfterOK(later)'
  <2>. SUFFICES ASSUME NEW p \in Evicting'
               PROVE  /\ later[p] \subseteq Publishing' \ {p}
                      /\ Cardinality(Copies' \ ask'[p].victims)
                           <= CacheRuns + killed' + Cardinality(later[p])
                      /\ \A s \in later[p] \cap Evicting' : later[s] \subseteq later[p]
    BY DEF AfterOK
  <2>1. p \in Evicting /\ p \in Query /\ p # q /\ ask'[p] = ask[p]
    BY <1>4 DEF Evicting
  <2>2. /\ after[p] \subseteq Publishing \ {p}
        /\ Cardinality(Copies \ ask[p].victims) <= CacheRuns + killed + Cardinality(after[p])
        /\ \A s \in after[p] \cap Evicting : after[s] \subseteq after[p]
    BY <1>9, <2>1 DEF AfterOK
  <2>3. later[p] \subseteq Publishing' \ {p}
    BY <1>4, <1>12, <2>1, <2>2
  <2>4. \A s \in later[p] \cap Evicting' : later[s] \subseteq later[p]
    <3>1. \A s \in Evicting : s \in Query
      BY DEF Evicting
    <3>. QED  BY <1>4, <1>12, <2>1, <2>2, <3>1
  <2>5. /\ Cardinality(after[p]) <= Cardinality(later[p]) + 1
        /\ Cardinality(after[p]) \in Nat /\ Cardinality(later[p]) \in Nat
    <3>1. after[p] \subseteq Publishing
      BY <2>2
    <3>2. IsFiniteSet(after[p])
      BY <1>5, <3>1, Fewer
    <3>. QED  BY <1>12, <2>1, <3>2, OneLess
  <2>6. Cardinality(Copies \ ask[p].victims) \in Nat
    BY <1>5, Fewer
  <2>. QED  BY <1>1, <1>5, <2>1, <2>2, <2>3, <2>4, <2>5, <2>6
<1>. QED  BY <1>1, <1>4, <1>5, <1>6, <1>7, <1>12, <1>13 DEF Bounds

\* The steps that neither publish nor remove a copy.
LEMMA OtherBounds ==
    ASSUME DataInv, Bounds, NEW q \in Query, ask[q].step \notin {"list", "evict"},
           NEW a, a.step \notin {"list", "evict"}, ask' = [ask EXCEPT ![q] = a],
           UNCHANGED <<copy, killed>>
    PROVE  Bounds'
<1>1. /\ \A p \in Query \ {q} : ask'[p] = ask[p]
      /\ Publishing' = IF a.step \in {"list", "evict"} THEN Publishing \cup {q}
                       ELSE Publishing \ {q}
      /\ Evicting' = IF a.step = "evict" THEN Evicting \cup {q} ELSE Evicting \ {q}
  BY AskMoves
<1>2. q \notin Publishing /\ q \notin Evicting
  BY DEF Publishing, Evicting
<1>3. Publishing' = Publishing /\ Evicting' = Evicting
  BY <1>1, <1>2
<1>4. \A p \in Evicting : ask'[p].victims = ask[p].victims
  BY <1>1, <1>2 DEF Evicting
<1>5. Copies' = Copies
  BY DEF Copies
<1>. QED  BY <1>3, <1>4, <1>5, BoundsStay

LEMMA OtherMoves ==
    ASSUME DataInv, NEW q \in Query,
           \/ KeyLog(q) \/ OpenCopy(q) \/ Hit(q) \/ Seek(q) \/ LockPrepared(q) \/ CopyPrepared(q)
           \/ Build(q) \/ Load(q) \/ Opened(q) \/ BuildFails(q) \/ \E r \in Run : Ask(q, r)
    PROVE  /\ \E a : ask' = [ask EXCEPT ![q] = a] /\ a.step \notin {"list", "evict"}
           /\ ask[q].step \notin {"list", "evict"} /\ UNCHANGED <<copy, killed>>
<1>. DEFINE o == ask[q]
            Goal == \E a : ask' = [ask EXCEPT ![q] = a] /\ a.step \notin {"list", "evict"}
<1>1. o.step \notin {"list", "evict"} /\ UNCHANGED <<copy, killed>>
  BY DEF KeyLog, OpenCopy, Hit, Seek, LockPrepared, CopyPrepared, Build, Load, Opened, BuildFails, Ask
<1>2. DOMAIN ask = Query
  BY DEF DataInv, Sorts
<1>3. o.step # "idle" => o \in Question
  BY AskParts
<1>4. CASE KeyLog(q)
  <2>. DEFINE a == [o EXCEPT !.stamps = Append(@, Stamps(RunOf(q))[Len(@) + 1])]
  <2>1. ask' = [ask EXCEPT ![q] = a] /\ o.step = "key"
    BY <1>2, <1>4 DEF KeyLog
  <2>2. a.step = o.step
    BY <1>3, <2>1 DEF Question
  <2>. HIDE DEF a
  <2>. QED  BY <1>1, <2>1, <2>2
<1>5. CASE OpenCopy(q)
  <2>. DEFINE a == [o EXCEPT !.step = "hit", !.rows = copy[RunOf(q)].rows,
                             !.stays = copy[RunOf(q)].stays]
              b == [o EXCEPT !.step = "seek"]
  <2>1. (ask' = [ask EXCEPT ![q] = a] \/ ask' = [ask EXCEPT ![q] = b]) /\ o.step = "key"
    BY <1>2, <1>5 DEF OpenCopy, Enter
  <2>2. a.step = "hit" /\ b.step = "seek"
    BY <1>3, <2>1 DEF Question
  <2>. HIDE DEF a, b
  <2>. QED  BY <1>1, <2>1, <2>2
<1>6. CASE Hit(q) \/ Opened(q)
  <2>1. ask' = [ask EXCEPT ![q] = Idle] /\ Idle.step = "idle"
    BY <1>6 DEF Hit, Opened, Answer, Idle
  <2>. QED  BY <1>1, <2>1
<1>7. CASE Seek(q)
  <2>. DEFINE a == [o EXCEPT !.step = "locking", !.seen = Stamps(RunOf(q))]
              b == [o EXCEPT !.step = "build"]
  <2>1. (ask' = [ask EXCEPT ![q] = a] \/ ask' = [ask EXCEPT ![q] = b]) /\ o.step = "seek"
    BY <1>2, <1>7 DEF Seek, Enter
  <2>2. a.step = "locking" /\ b.step = "build"
    BY <1>3, <2>1 DEF Question
  <2>. HIDE DEF a, b
  <2>. QED  BY <1>1, <2>1, <2>2
<1>8. CASE LockPrepared(q)
  <2>. DEFINE a == [o EXCEPT !.step = "copying"]
  <2>1. ask' = [ask EXCEPT ![q] = a] /\ o.step = "locking"
    BY <1>2, <1>8 DEF LockPrepared, Enter
  <2>2. a.step = "copying"
    BY <1>3, <2>1 DEF Question
  <2>. HIDE DEF a
  <2>. QED  BY <1>1, <2>1, <2>2
<1>9. CASE CopyPrepared(q)
  <2>. DEFINE db == prepared[RunOf(q)]
              a == [o EXCEPT !.step = "build", !.rows = db.rows, !.stays = db.stays,
                             !.seen = <<>>, !.read = Len(db.sources)]
              b == [o EXCEPT !.step = "build", !.seen = <<>>]
  <2>1. (ask' = [ask EXCEPT ![q] = a] \/ ask' = [ask EXCEPT ![q] = b]) /\ o.step = "copying"
    BY <1>2, <1>9 DEF CopyPrepared
  <2>2. a.step = "build" /\ b.step = "build"
    BY <1>3, <2>1 DEF Question
  <2>. HIDE DEF a, b
  <2>. QED  BY <1>1, <2>1, <2>2
<1>10. CASE Build(q) \/ Load(q)
  <2>. DEFINE f == Sources[RunOf(q)][o.read + 1]
              told == o.rows \o Parsed(f, log[RunOf(q)][f])
              a == [o EXCEPT !.read = @ + 1, !.rows = told, !.stays = ToSet(told)]
  <2>1. ask' = [ask EXCEPT ![q] = a] /\ o.step \in {"build", "memory"}
    BY <1>2, <1>10 DEF Build, Load, ReadLog
  <2>2. a.step = o.step
    BY <1>3, <2>1 DEF Question
  <2>. HIDE DEF a
  <2>. QED  BY <1>1, <2>1, <2>2
<1>11. CASE BuildFails(q)
  <2>. DEFINE a == [o EXCEPT !.step = "memory", !.rows = <<>>, !.stays = {}, !.read = 0]
  <2>1. ask' = [ask EXCEPT ![q] = a] /\ o.step \in {"seek", "build"}
    BY <1>2, <1>11 DEF BuildFails
  <2>2. a.step = "memory"
    BY <1>3, <2>1 DEF Question
  <2>. HIDE DEF a
  <2>. QED  BY <1>1, <2>1, <2>2
<1>12. ASSUME NEW r \in Run, Ask(q, r)
       PROVE  Goal
  <2>. DEFINE a == [step |-> "key", run |-> r, since |-> log[r],
                    context |-> context[r], stamps |-> <<>>, rows |-> <<>>, stays |-> {},
                    seen |-> <<>>, read |-> 0, victims |-> {}]
  <2>1. ask' = [ask EXCEPT ![q] = a]
    BY <1>12 DEF Ask
  <2>2. a.step = "key"
    OBVIOUS
  <2>. HIDE DEF a
  <2>. QED  BY <2>1, <2>2
<1>13. Goal
  BY <1>4, <1>5, <1>6, <1>7, <1>8, <1>9, <1>10, <1>11, <1>12
<1>. QED  BY <1>1, <1>13

LEMMA BoundsNext ==
    ASSUME DataInv, RecentOK, Bounds, [CacheNext]_cache_vars
    PROVE  Bounds'
<1>1. ASSUME UNCHANGED <<copy, ask, killed>>
      PROVE  Bounds'
  BY <1>1, BoundsStay DEF Copies, Publishing, Evicting
<1>2. ASSUME NEW r \in Run, RunStep(r)
      PROVE  UNCHANGED <<copy, ask, killed>>
  BY <1>2 DEF RunStep, PrepareOrder, Save, Killed, ChangeContext, Collector, ReplaceLog, Stamp,
     Parse, WarmLock, WarmLook, WarmCommit, WarmFails, query_vars
<1>3. ASSUME NEW q \in Query, QueryStep(q)
      PROVE  Bounds'
  <2>1. CASE Publish(q) \/ ListCopies(q) \/ Evict(q) \/ Reopen(q) \/ KillQuery(q)
    BY <2>1, PublishBounds, ListBounds, EvictBounds, ReopenBounds, KillBounds
  <2>2. CASE ~(Publish(q) \/ ListCopies(q) \/ Evict(q) \/ Reopen(q) \/ KillQuery(q))
    <3>1. \/ KeyLog(q) \/ OpenCopy(q) \/ Hit(q) \/ Seek(q) \/ LockPrepared(q) \/ CopyPrepared(q)
          \/ Build(q) \/ Load(q) \/ Opened(q) \/ BuildFails(q) \/ \E r \in Run : Ask(q, r)
      BY <1>3, <2>2 DEF QueryStep, Proceed
    <3>2. PICK a : ask' = [ask EXCEPT ![q] = a] /\ a.step \notin {"list", "evict"}
      BY <3>1, OtherMoves
    <3>3. ask[q].step \notin {"list", "evict"} /\ UNCHANGED <<copy, killed>>
      BY <3>1, OtherMoves
    <3>. QED  BY <3>2, <3>3, OtherBounds
  <2>. QED  BY <2>1, <2>2
<1>4. CASE UNCHANGED cache_vars
  BY <1>1, <1>4 DEF cache_vars
<1>. QED  BY <1>1, <1>2, <1>3, <1>4 DEF CacheNext

\* The invariant of the caches.
CacheInv == DataInv /\ RecentOK /\ Bounds

LEMMA Invariant == CacheSpec => []CacheInv
<1>1. CacheInit => CacheInv
  BY DataInit, RecentInit, BoundsInit DEF CacheInv
<1>2. CacheInv /\ [CacheNext]_cache_vars => CacheInv'
  BY DataNext, RecentNext, BoundsNext DEF CacheInv
<1>. QED  BY <1>1, <1>2, PTL DEF CacheSpec

\* A prepared database holds all the events of each of its logs, once and in
\* order, it serves the run it was put in order for, and the copies stay
\* within CACHE_RUNS but for those whose writers have not removed the others
\* yet or were killed before they could: however the collectors, the end of
\* the run and the queries interleave, fail and are killed (cache::warm, prepare_cache_order,
\* publish and evict).
THEOREM CacheIsSound == CacheSpec => []CacheSound
<1>1. CacheInv => CacheSound
  BY AllWhole, Serves DEF CacheInv, Bounds, Publishing, CopiesBounded, CacheSound
<1>. QED  BY <1>1, Invariant, PTL

-----------------------------------------------------------------------------
(* StateCache implements StateAnswers                                      *)

\* The question of each process, as StateAnswers sees it.
Posed == [q \in Query |->
    IF ask[q].step = "idle" THEN [run |-> "none"]
    ELSE [run |-> ask[q].run, since |-> ask[q].since, context |-> ask[q].context]]

\* Two stages of one question.
Same(a, b) ==
    /\ a.step # "idle" /\ b.step # "idle"
    /\ a.run = b.run /\ a.since = b.since /\ a.context = b.context

LEMMA PosedMoves ==
    ASSUME DataInv, NEW q \in Query, NEW a, ask' = [ask EXCEPT ![q] = a]
    PROVE  Posed' = [Posed EXCEPT ![q] = IF a.step = "idle" THEN [run |-> "none"]
                                         ELSE [run |-> a.run, since |-> a.since, context |-> a.context]]
<1>1. ask'[q] = a /\ \A p \in Query \ {q} : ask'[p] = ask[p]
  BY DEF DataInv, Sorts
<1>. QED  BY <1>1 DEF Posed

LEMMA PosedStays ==
    ASSUME DataInv, NEW q \in Query, NEW a, ask' = [ask EXCEPT ![q] = a], Same(ask[q], a)
    PROVE  Posed' = Posed
<1>1. ask'[q] = a /\ \A p \in Query \ {q} : ask'[p] = ask[p]
  BY DEF DataInv, Sorts
<1>. QED  BY <1>1 DEF Posed, Same

\* The steps between a question and its answer.
LEMMA QuestionStays ==
    ASSUME DataInv, NEW q \in Query,
           \/ KeyLog(q) \/ OpenCopy(q) \/ Seek(q) \/ LockPrepared(q) \/ CopyPrepared(q) \/ Build(q)
           \/ Publish(q) \/ ListCopies(q) \/ Evict(q) \/ Reopen(q) \/ Load(q) \/ BuildFails(q)
    PROVE  Posed' = Posed /\ UNCHANGED <<log, context, answer>>
<1>. DEFINE o == ask[q]
            r == RunOf(q)
            Goal == \E a : ask' = [ask EXCEPT ![q] = a] /\ Same(o, a)
<1>1. UNCHANGED <<log, context, answer>>
  BY DEF KeyLog, OpenCopy, Seek, LockPrepared, CopyPrepared, Build, Publish, ListCopies, Evict, Reopen,
     Load, BuildFails, world
<1>2. DOMAIN ask = Query
  BY DEF DataInv, Sorts
<1>3. o.step # "idle"
  BY DEF KeyLog, OpenCopy, Seek, LockPrepared, CopyPrepared, Build, Publish, ListCopies, Evict, Reopen,
     Load, BuildFails
<1>4. o \in Question
  BY <1>3, AskParts
<1>5. ASSUME KeyLog(q) PROVE Goal
  <2>. DEFINE a == [o EXCEPT !.stamps = Append(@, Stamps(r)[Len(@) + 1])]
  <2>1. ask' = [ask EXCEPT ![q] = a]
    BY <1>2, <1>5 DEF KeyLog
  <2>2. Same(o, a)
    BY <1>3, <1>4 DEF Question, Same
  <2>. HIDE DEF a
  <2>. QED  BY <2>1, <2>2
<1>6. ASSUME OpenCopy(q) PROVE Goal
  <2>. DEFINE a == [o EXCEPT !.step = "hit", !.rows = copy[r].rows, !.stays = copy[r].stays]
              b == [o EXCEPT !.step = "seek"]
  <2>1. ask' = [ask EXCEPT ![q] = a] \/ ask' = [ask EXCEPT ![q] = b]
    BY <1>2, <1>6 DEF OpenCopy, Enter
  <2>2. Same(o, a) /\ Same(o, b)
    BY <1>3, <1>4 DEF Question, Same
  <2>. HIDE DEF a, b
  <2>. QED  BY <2>1, <2>2
<1>7. ASSUME Seek(q) PROVE Goal
  <2>. DEFINE a == [o EXCEPT !.step = "locking", !.seen = Stamps(r)]
              b == [o EXCEPT !.step = "build"]
  <2>1. ask' = [ask EXCEPT ![q] = a] \/ ask' = [ask EXCEPT ![q] = b]
    BY <1>2, <1>7 DEF Seek, Enter
  <2>2. Same(o, a) /\ Same(o, b)
    BY <1>3, <1>4 DEF Question, Same
  <2>. HIDE DEF a, b
  <2>. QED  BY <2>1, <2>2
<1>8. ASSUME CopyPrepared(q) PROVE Goal
  <2>. DEFINE db == prepared[r]
              a == [o EXCEPT !.step = "build", !.rows = db.rows, !.stays = db.stays,
                             !.seen = <<>>, !.read = Len(db.sources)]
              b == [o EXCEPT !.step = "build", !.seen = <<>>]
  <2>1. ask' = [ask EXCEPT ![q] = a] \/ ask' = [ask EXCEPT ![q] = b]
    BY <1>2, <1>8 DEF CopyPrepared
  <2>2. Same(o, a) /\ Same(o, b)
    BY <1>3, <1>4 DEF Question, Same
  <2>. HIDE DEF a, b
  <2>. QED  BY <2>1, <2>2
<1>9. ASSUME LockPrepared(q) \/ Publish(q) PROVE Goal
  <2>. DEFINE a == [o EXCEPT !.step = "copying"]
              b == [o EXCEPT !.step = "list"]
  <2>1. ask' = [ask EXCEPT ![q] = a] \/ ask' = [ask EXCEPT ![q] = b]
    BY <1>2, <1>9 DEF LockPrepared, Publish, Enter
  <2>2. Same(o, a) /\ Same(o, b)
    BY <1>3, <1>4 DEF Question, Same
  <2>. HIDE DEF a, b
  <2>. QED  BY <2>1, <2>2
<1>10. ASSUME Build(q) \/ Load(q) PROVE Goal
  <2>. DEFINE f == Sources[r][o.read + 1]
              told == o.rows \o Parsed(f, log[r][f])
              a == [o EXCEPT !.read = @ + 1, !.rows = told, !.stays = ToSet(told)]
  <2>1. ask' = [ask EXCEPT ![q] = a]
    BY <1>2, <1>10 DEF Build, Load, ReadLog
  <2>2. Same(o, a)
    BY <1>3, <1>4 DEF Question, Same
  <2>. HIDE DEF a
  <2>. QED  BY <2>1, <2>2
<1>11. ASSUME ListCopies(q) PROVE Goal
  <2>. DEFINE a == [o EXCEPT !.step = "evict", !.victims = Victims(r)]
  <2>1. ask' = [ask EXCEPT ![q] = a]
    BY <1>2, <1>11 DEF ListCopies
  <2>2. Same(o, a)
    BY <1>3, <1>4 DEF Question, Same
  <2>. HIDE DEF a
  <2>. QED  BY <2>1, <2>2
<1>12. ASSUME Evict(q) PROVE Goal
  <2>1. PICK s \in o.victims : ask' = [ask EXCEPT ![q] = [o EXCEPT !.victims = @ \ {s}]]
    BY <1>2, <1>12 DEF Evict
  <2>2. Same(o, [o EXCEPT !.victims = @ \ {s}])
    BY <1>3, <1>4 DEF Question, Same
  <2>. QED  BY <2>1, <2>2
<1>13. ASSUME Reopen(q) \/ BuildFails(q) PROVE Goal
  <2>. DEFINE a == [o EXCEPT !.step = "opened", !.rows = copy[r].rows, !.stays = copy[r].stays]
              b == [o EXCEPT !.step = "memory", !.rows = <<>>, !.stays = {}, !.read = 0]
  <2>1. ask' = [ask EXCEPT ![q] = a] \/ ask' = [ask EXCEPT ![q] = b]
    BY <1>2, <1>13 DEF Reopen, BuildFails
  <2>2. Same(o, a) /\ Same(o, b)
    BY <1>3, <1>4 DEF Question, Same
  <2>. HIDE DEF a, b
  <2>. QED  BY <2>1, <2>2
<1>14. Goal
  BY <1>5, <1>6, <1>7, <1>8, <1>9, <1>10, <1>11, <1>12, <1>13
<1>. QED  BY <1>1, <1>14, PosedStays

\* The operators of SequencesExt are the same in StateAnswers.
LEMMA SameFlattenSeq == ASSUME NEW s PROVE Promise!FlattenSeq(s) = FlattenSeq(s)
BY DEF FlattenSeq, Promise!FlattenSeq

LEMMA SameToSet == ASSUME NEW s PROVE Promise!ToSet(s) = ToSet(s)
BY DEF ToSet, Promise!ToSet

\* What is told of all the logs is the table of some versions since the question.
Newer(r, since, stamps) ==
    \A k \in 1..Len(Sources[r]) :
        stamps[k].version \in Nat /\ since[Sources[r][k]] <= stamps[k].version

\* No log is older now than at the question.
NoneNewer(since, now) == \A f \in Log : since[f] <= now[f]

\* Rows and stays are those of some versions that StateAnswers allows.
Matches(r, since, now, told, stays) ==
    \E version \in Promise!Versions(since, now) :
        told = Promise!Table(r, version) /\ stays = ToSet(Promise!Table(r, version))

LEMMA TellsTable ==
    ASSUME NEW r, NEW now, NEW since, NEW stamps, NEW told, NEW stays,
           r \in Run, now \in [Log -> Nat], since \in [Log -> Nat],
           NoneNewer(since, now), Newer(r, since, stamps),
           Tells(r, Len(Sources[r]), now, stamps, told, stays)
    PROVE  Matches(r, since, now, told, stays)
<1>. DEFINE all == Len(Sources[r])
            place(f) == CHOOSE k \in 1..all : Sources[r][k] = f
<1>1. PICK vs \in [1..all -> Nat] :
        /\ \A k \in 1..all : stamps[k].version <= vs[k] /\ vs[k] <= now[Sources[r][k]]
        /\ told = Made(r, all, vs) /\ stays = ToSet(told)
  BY DEF Tells
<1>. DEFINE version == [f \in Log |-> IF f \in LogSet(r) THEN vs[place(f)] ELSE since[f]]
<1>2. ASSUME NEW k \in 1..all
      PROVE  /\ place(Sources[r][k]) = k
             /\ Sources[r][k] \in Log /\ Sources[r][k] \in LogSet(r)
             /\ version[Sources[r][k]] = vs[k]
  <2>1. Sources[r][k] \in Log /\ Sources[r][k] \in LogSet(r)
        /\ \A j \in 1..all : Sources[r][j] = Sources[r][k] => j = k
    BY <1>2, Manifest
  <2>2. place(Sources[r][k]) = k
    BY <1>2, <2>1
  <2>. HIDE DEF place
  <2>. QED  BY <2>1, <2>2
<1>3. ASSUME NEW f \in Log
      PROVE  version[f] \in since[f]..now[f]
  <2>0. since[f] \in Nat /\ now[f] \in Nat /\ since[f] <= now[f]
    BY <1>3 DEF NoneNewer
  <2>1. CASE f \in LogSet(r)
    <3>1. PICK k \in 1..all : Sources[r][k] = f
      BY <2>1, LogSetType
    <3>2. version[f] = vs[k] /\ vs[k] \in Nat
      <4>. HIDE DEF version
      <4>. QED  BY <1>2, <3>1
    <3>3. stamps[k].version \in Nat /\ since[f] <= stamps[k].version
          /\ stamps[k].version <= vs[k] /\ vs[k] <= now[f]
      BY <1>1, <3>1 DEF Newer
    <3>. HIDE DEF version
    <3>. QED  BY <2>0, <3>2, <3>3
  <2>2. CASE f \notin LogSet(r)
    <3>1. version[f] = since[f]
      BY <2>2
    <3>. HIDE DEF version
    <3>. QED  BY <2>0, <3>1
  <2>. QED  BY <2>1, <2>2
<1>4. version \in Promise!Versions(since, now)
  <2>1. version = [f \in Log |-> version[f]]
    OBVIOUS
  <2>. HIDE DEF version
  <2>2. version \in [Log -> UNION {since[f]..now[f] : f \in Log}]
    BY <1>3, <2>1
  <2>. QED  BY <1>3, <2>2 DEF Promise!Versions
<1>5. Promise!Table(r, version) = Made(r, all, vs)
  <2>1. DOMAIN Sources[r] = 1..all
    BY Manifest
  <2>. HIDE DEF version, all
  <2>2. ASSUME NEW k \in 1..all
        PROVE  Promise!Parsed(Sources[r][k], version[Sources[r][k]]) = Parsed(Sources[r][k], vs[k])
    BY <1>2, <2>2 DEF Parsed
  <2>3. [k \in DOMAIN Sources[r] |-> Promise!Parsed(Sources[r][k], version[Sources[r][k]])]
          = [k \in 1..all |-> Parsed(Sources[r][k], vs[k])]
    BY <2>1, <2>2
  <2>4. Promise!Table(r, version) = FlattenSeq([k \in DOMAIN Sources[r] |->
                 Promise!Parsed(Sources[r][k], version[Sources[r][k]])])
    BY SameFlattenSeq DEF Promise!Table
  <2>. QED  BY <2>3, <2>4 DEF Made
<1>. HIDE DEF version, all
<1>6. told = Promise!Table(r, version) /\ stays = ToSet(Promise!Table(r, version))
  BY <1>1, <1>5
<1>. QED  BY <1>4, <1>6 DEF Matches

LEMMA PosedRecord ==
    ASSUME NEW x, NEW y, NEW z
    PROVE  [run |-> x, since |-> y, context |-> z] # [run |-> "none"]
<1>1. "since" \in DOMAIN [run |-> x, since |-> y, context |-> z]
  OBVIOUS
<1>2. "since" \notin DOMAIN [run |-> "none"]
  OBVIOUS
<1>. QED  BY <1>1, <1>2

\* What a query answers is made from the versions that its logs had since the question.
LEMMA AnswerTells ==
    ASSUME DataInv, NEW q \in Query,
           \/ ask[q].step \in {"hit", "opened"}
           \/ ask[q].step = "memory" /\ ReadAll(q)
    PROVE  /\ RunOf(q) \in Run /\ log[RunOf(q)] \in [Log -> Nat] /\ ask[q].since \in [Log -> Nat]
           /\ NoneNewer(ask[q].since, log[RunOf(q)])
           /\ Newer(RunOf(q), ask[q].since, ask[q].stamps)
           /\ Tells(RunOf(q), Len(Sources[RunOf(q)]), log[RunOf(q)], ask[q].stamps, ask[q].rows,
                    ask[q].stays)
<1>1. ask[q].step \notin {"idle", "key"}
  OBVIOUS
<1>2. /\ RunOf(q) \in Run /\ ask[q].run = RunOf(q) /\ ask[q] # Idle
      /\ AskOK(ask[q], log[RunOf(q)]) /\ log[RunOf(q)] \in [Log -> Nat]
      /\ ask[q].since \in [Log -> Nat]
  BY <1>1, AskParts
<1>3. Len(ask[q].stamps) = Len(Sources[RunOf(q)])
      /\ \A k \in 1..Len(Sources[RunOf(q)]) :
           /\ ask[q].stamps[k].version \in Nat
           /\ ask[q].since[Sources[RunOf(q)][k]] <= ask[q].stamps[k].version
  BY <1>1, KeyFacts
<1>4. NoneNewer(ask[q].since, log[RunOf(q)]) /\ Newer(RunOf(q), ask[q].since, ask[q].stamps)
  BY <1>2, <1>3 DEF AskOK, NoneNewer, Newer
<1>5. CASE ask[q].step \in {"hit", "opened"}
  <2>1. Tells(RunOf(q), Len(Sources[RunOf(q)]), log[RunOf(q)], ask[q].stamps, ask[q].rows,
              ask[q].stays)
    BY <1>2, <1>5 DEF AskOK
  <2>. QED  BY <1>2, <1>3, <1>4, <2>1
<1>6. CASE ask[q].step = "memory" /\ ReadAll(q)
  <2>1. Tells(RunOf(q), ask[q].read, log[RunOf(q)], ask[q].stamps, ask[q].rows, ask[q].stays)
    BY <1>2, <1>6 DEF AskOK
  <2>2. ask[q].read = Len(Sources[RunOf(q)])
    BY <1>6 DEF ReadAll
  <2>. QED  BY <1>2, <1>3, <1>4, <2>1, <2>2
<1>. QED  BY <1>5, <1>6

LEMMA AnswerIsTrue ==
    ASSUME DataInv, NEW q \in Query,
           \/ ask[q].step \in {"hit", "opened"}
           \/ ask[q].step = "memory" /\ ReadAll(q)
    PROVE  \E version \in Promise!Versions(ask[q].since, log[RunOf(q)]) :
             /\ ask[q].rows = Promise!Table(RunOf(q), version)
             /\ ask[q].stays = ToSet(Promise!Table(RunOf(q), version))
<1>. DEFINE r == RunOf(q)
            now == log[r]
            since == ask[q].since
            stamps == ask[q].stamps
            told == ask[q].rows
            stays == ask[q].stays
<1>1. /\ r \in Run /\ now \in [Log -> Nat] /\ since \in [Log -> Nat] /\ NoneNewer(since, now)
      /\ Newer(r, since, stamps) /\ Tells(r, Len(Sources[r]), now, stamps, told, stays)
  BY AnswerTells
<1>. HIDE DEF r, now, since, stamps, told, stays
<1>2. Matches(r, since, now, told, stays)
  BY <1>1, TellsTable
<1>. QED  BY <1>2 DEF Matches, r, now, since, told, stays

LEMMA AnswersInit == CacheInit => Promise!Init
<1>. SUFFICES ASSUME CacheInit PROVE Promise!Init
  OBVIOUS
<1>1. Posed = [q \in Query |-> [run |-> "none"]]
  BY DEF CacheInit, Posed, Idle
<1>. QED  BY <1>1 DEF CacheInit, Promise!Init, Promise!NoQuestion, Posed

LEMMA Answering ==
    ASSUME DataInv, NEW q \in Query, Hit(q) \/ Opened(q)
    PROVE  Promise!Answered(q)
<1>. DEFINE o == ask[q]
            r == RunOf(q)
<1>1. /\ ask' = [ask EXCEPT ![q] = Idle] /\ UNCHANGED <<log, context>>
      /\ answer' = [answer EXCEPT ![q] = [rows |-> o.rows, stays |-> o.stays, context |-> o.context]]
  BY DEF Hit, Opened, Answer, world
<1>2. o.step # "idle" /\ o.run = r
  BY DEF Hit, Opened, RunOf
<1>3. PICK version \in Promise!Versions(o.since, log[r]) :
        o.rows = Promise!Table(r, version) /\ o.stays = ToSet(Promise!Table(r, version))
  BY AnswerIsTrue DEF Hit, Opened
<1>4. Posed[q] = [run |-> r, since |-> o.since, context |-> o.context]
  BY <1>2 DEF Posed
<1>. HIDE DEF o, r
<1>5. Posed[q] # [run |-> "none"]
  BY <1>4, PosedRecord
<1>6. Posed' = [Posed EXCEPT ![q] = [run |-> "none"]]
  <2>1. Idle.step = "idle"
    BY DEF Idle
  <2>. QED  BY <1>1, <2>1, PosedMoves
<1>7. [rows |-> o.rows, stays |-> o.stays, context |-> o.context]
        = Promise!Answers(r, version, o.context)
  BY <1>3, SameToSet DEF Promise!Answers
<1>8. Posed[q].run = r /\ Posed[q].since = o.since /\ Posed[q].context = o.context
  BY <1>4
<1>9. /\ Posed[q] # [run |-> "none"]
      /\ \E v \in Promise!Versions(Posed[q].since, log[Posed[q].run]) :
           answer' = [answer EXCEPT ![q] = Promise!Answers(Posed[q].run, v, Posed[q].context)]
      /\ Posed' = [Posed EXCEPT ![q] = [run |-> "none"]]
      /\ UNCHANGED <<log, context>>
  BY <1>1, <1>3, <1>5, <1>6, <1>7, <1>8
<1>. QED  BY <1>9 DEF Promise!Answered, Promise!NoQuestion, Posed

LEMMA AnswersNext ==
    ASSUME DataInv, [CacheNext]_cache_vars
    PROVE  [Promise!Next]_(Promise!vars)
<1>1. ASSUME UNCHANGED <<log, context, answer>>, Posed' = Posed
      PROVE  UNCHANGED Promise!vars
  BY <1>1 DEF Promise!vars, Posed
<1>2. ASSUME UNCHANGED ask
      PROVE  Posed' = Posed
  BY <1>2 DEF Posed
<1>3. ASSUME NEW r \in Run, RunStep(r)
      PROVE  [Promise!Next]_(Promise!vars)
  <2>1. CASE ChangeContext(r)
    <3>1. /\ context' = [context EXCEPT ![r] = @ + 1] /\ UNCHANGED <<log, answer>> /\ Posed' = Posed
      BY <1>2, <2>1 DEF ChangeContext, query_vars
    <3>2. Promise!ContextChanged(r)
      BY <3>1 DEF Promise!ContextChanged, Posed
    <3>. QED  BY <3>2 DEF Promise!Next
  <2>2. ASSUME NEW f \in Log, ReplaceLog(r, f)
        PROVE  Promise!Next
    <3>1. /\ log' = [log EXCEPT ![r][f] = @ + 1] /\ UNCHANGED <<context, answer>> /\ Posed' = Posed
      BY <1>2, <2>2 DEF ReplaceLog, query_vars
    <3>2. Promise!Replaced(r, f)
      BY <3>1 DEF Promise!Replaced, Posed
    <3>. QED  BY <3>2 DEF Promise!Next
  <2>3. CASE PrepareOrder(r) \/ Save(r) \/ Killed(r) \/ \E f \in Log : Collector(r, f)
    <3>1. UNCHANGED <<log, context, answer, ask>>
      BY <2>3 DEF PrepareOrder, Save, Killed, Collector, Stamp, Parse, WarmLock, WarmLook, WarmCommit,
         WarmFails, world, query_vars
    <3>. QED  BY <1>1, <1>2, <3>1
  <2>. QED  BY <1>3, <2>1, <2>2, <2>3 DEF RunStep
<1>4. ASSUME NEW q \in Query, QueryStep(q)
      PROVE  [Promise!Next]_(Promise!vars)
  <2>1. CASE Hit(q) \/ Opened(q)
    BY <2>1, Answering DEF Promise!Next
  <2>2. CASE KillQuery(q)
    <3>1. ask' = [ask EXCEPT ![q] = Idle] /\ UNCHANGED <<log, context, answer>> /\ Idle.step = "idle"
      BY <2>2 DEF KillQuery, world, Idle
    <3>2. Posed' = [Posed EXCEPT ![q] = [run |-> "none"]]
      BY <3>1, PosedMoves
    <3>3. Promise!GivenUp(q)
      BY <3>1, <3>2 DEF Promise!GivenUp, Promise!NoQuestion, Posed
    <3>. QED  BY <3>3 DEF Promise!Next
  <2>3. ASSUME NEW r \in Run, Ask(q, r)
        PROVE  Promise!Next
    <3>. DEFINE a == [step |-> "key", run |-> r, since |-> log[r],
                      context |-> context[r], stamps |-> <<>>, rows |-> <<>>, stays |-> {},
                      seen |-> <<>>, read |-> 0, victims |-> {}]
    <3>1. ask' = [ask EXCEPT ![q] = a] /\ ask[q].step = "idle" /\ UNCHANGED <<log, context, answer>>
      BY <2>3 DEF Ask, world
    <3>2. a.step = "key" /\ a.run = r /\ a.since = log[r] /\ a.context = context[r]
      OBVIOUS
    <3>. HIDE DEF a
    <3>3. Posed' = [Posed EXCEPT ![q] = [run |-> r, since |-> log[r], context |-> context[r]]]
      <4>1. Posed' = [Posed EXCEPT ![q] =
                IF a.step = "idle" THEN [run |-> "none"]
                ELSE [run |-> a.run, since |-> a.since, context |-> a.context]]
        BY <3>1, PosedMoves
      <4>. QED  BY <3>2, <4>1
    <3>4. Posed[q] = [run |-> "none"]
      BY <3>1 DEF Posed
    <3>5. Promise!Asked(q, r)
      BY <3>1, <3>3, <3>4 DEF Promise!Asked, Promise!NoQuestion, Posed
    <3>. QED  BY <3>5 DEF Promise!Next
  <2>4. CASE ~(Hit(q) \/ Opened(q) \/ KillQuery(q) \/ \E r \in Run : Ask(q, r))
    <3>1. \/ KeyLog(q) \/ OpenCopy(q) \/ Seek(q) \/ LockPrepared(q) \/ CopyPrepared(q) \/ Build(q)
          \/ Publish(q) \/ ListCopies(q) \/ Evict(q) \/ Reopen(q) \/ Load(q) \/ BuildFails(q)
      BY <1>4, <2>4 DEF QueryStep, Proceed
    <3>. QED  BY <1>1, <3>1, QuestionStays
  <2>. QED  BY <2>1, <2>2, <2>3, <2>4
<1>5. CASE UNCHANGED cache_vars
  <2>1. UNCHANGED <<log, context, answer, ask>>
    BY <1>5 DEF cache_vars
  <2>. QED  BY <1>1, <1>2, <2>1
<1>. QED  BY <1>3, <1>4, <1>5 DEF CacheNext

\* Every answer to a query of state logs is made from the logs themselves, each
\* as it was at some moment since the question, in the order of the manifest:
\* whether it comes from a copy, from the prepared database or from the logs
\* (load_cached, copy_prepared and build_cache).
THEOREM AnswersAreFromLogs == CacheSpec => AnswersFromLogs
<1>1. CacheInit => Promise!Init
  BY AnswersInit
<1>2. CacheInv /\ [CacheNext]_cache_vars => [Promise!Next]_(Promise!vars)
  BY AnswersNext DEF CacheInv
<1>. QED  BY <1>1, <1>2, Invariant, PTL DEF CacheSpec, Promise!Spec, AnswersFromLogs

-----------------------------------------------------------------------------
(* Capture                                                                 *)

-----------------------------------------------------------------------------
(* The encoding of a payload.                                              *)

\* k is s followed by t.
Joins(k, s, t) ==
    /\ Len(s) \in Nat /\ Len(t) \in Nat /\ Len(k) = Len(s) + Len(t)
    /\ \A i \in 1..Len(s) : k[i] = s[i]
    /\ \A i \in 1..Len(t) : k[Len(s) + i] = t[i]

LEMMA Joined ==
    ASSUME NEW S, NEW s, s \in Seq(S), NEW t, t \in Seq(S)
    PROVE  s \o t \in Seq(S) /\ Joins(s \o t, s, t)
BY DEF Joins

\* The symbols of a chunk.
ChunkOK(k, n, b) ==
    /\ Len(b) \in Nat /\ Len(k) = Len(b) + 5
    /\ k[1] = Numeral[n] /\ k[2] = "r" /\ k[3] = "n"
    /\ \A j \in 1..Len(b) : k[3 + j] = b[j]
    /\ k[Len(b) + 4] = "r" /\ k[Len(b) + 5] = "n"

LEMMA ChunkAt ==
    ASSUME NEW b, b \in Seq(Byte), NEW n, n \in 0..MaxChunk
    PROVE  /\ <<Numeral[n]>> \o CRLF \o b \o CRLF \in Seq(Byte)
           /\ ChunkOK(<<Numeral[n]>> \o CRLF \o b \o CRLF, n, b)
<1>. DEFINE t == <<Numeral[n]>>
            h == t \o CRLF
            hb == h \o b
            k == hb \o CRLF
<1>1. t \in Seq(Byte) /\ CRLF \in Seq(Byte) /\ Len(t) = 1 /\ t[1] = Numeral[n]
  BY NumeralAssumption
<1>2. Len(CRLF) = 2 /\ CRLF[1] = "r" /\ CRLF[2] = "n"
  BY DEF CRLF
<1>. HIDE DEF t
<1>3. h \in Seq(Byte) /\ Joins(h, t, CRLF)
  BY <1>1, Joined
<1>. HIDE DEF h
<1>4. hb \in Seq(Byte) /\ Joins(hb, h, b)
  BY <1>3, Joined
<1>. HIDE DEF hb
<1>5. k \in Seq(Byte) /\ Joins(k, hb, CRLF)
  BY <1>1, <1>4, Joined
<1>. HIDE DEF k
<1>6. Len(h) = 3 /\ h[1] = Numeral[n] /\ h[2] = "r" /\ h[3] = "n"
  <2>1. 1 \in 1..Len(t) /\ 1 \in 1..Len(CRLF) /\ 2 \in 1..Len(CRLF)
    BY <1>1, <1>2
  <2>. QED  BY <1>1, <1>2, <1>3, <2>1 DEF Joins
<1>7. /\ Len(b) \in Nat /\ Len(hb) = Len(b) + 3 /\ hb[1] = h[1] /\ hb[2] = h[2] /\ hb[3] = h[3]
      /\ \A j \in 1..Len(b) : hb[3 + j] = b[j]
  BY <1>4, <1>6 DEF Joins
<1>8. /\ Len(k) = Len(b) + 5 /\ \A i \in 1..Len(b) + 3 : k[i] = hb[i]
  BY <1>2, <1>5, <1>7 DEF Joins
<1>9. k[Len(hb) + 1] = "r" /\ k[Len(hb) + 2] = "n"
  BY <1>2, <1>5 DEF Joins
<1>10. ChunkOK(k, n, b)
  <2>1. Len(hb) + 1 = Len(b) + 4 /\ Len(hb) + 2 = Len(b) + 5
    BY <1>7
  <2>2. k[1] = hb[1] /\ k[2] = hb[2] /\ k[3] = hb[3]
    BY <1>7, <1>8
  <2>3. ASSUME NEW j \in 1..Len(b) PROVE k[3 + j] = b[j]
    BY <1>7, <1>8
  <2>. QED  BY <1>6, <1>7, <1>8, <1>9, <2>1, <2>2, <2>3 DEF ChunkOK
<1>. QED  BY <1>5, <1>10 DEF k, hb, h, t

\* A chunk of the bytes s, with its size n, begins at i.
ChunkFrom(b, i, n, s) ==
    /\ i \in Nat \ {0} /\ Len(s) \in Nat /\ i + 4 + Len(s) <= Len(b)
    /\ b[i] = Numeral[n] /\ b[i + 1] = "r" /\ b[i + 2] = "n"
    /\ \A j \in 1..Len(s) : b[i + 2 + j] = s[j]
    /\ b[i + 3 + Len(s)] = "r" /\ b[i + 4 + Len(s)] = "n"

LEMMA ChunkAppended ==
    ASSUME NEW b, NEW f, NEW t, NEW n, NEW s, Joins(b, f, t), ChunkOK(t, n, s)
    PROVE  ChunkFrom(b, Len(f) + 1, n, s)
<1>. DEFINE i == Len(f) + 1
<1>1. /\ Len(f) \in Nat /\ Len(s) \in Nat /\ Len(t) = Len(s) + 5 /\ Len(b) = Len(f) + Len(t)
      /\ \A j \in 1..Len(t) : b[Len(f) + j] = t[j]
  BY DEF Joins, ChunkOK
<1>2. i \in Nat \ {0} /\ i + 4 + Len(s) <= Len(b)
  BY <1>1
<1>3. b[Len(f) + 1] = t[1] /\ b[Len(f) + 2] = t[2] /\ b[Len(f) + 3] = t[3]
      /\ b[Len(f) + (Len(s) + 4)] = t[Len(s) + 4] /\ b[Len(f) + (Len(s) + 5)] = t[Len(s) + 5]
  BY <1>1
<1>4. i + 1 = Len(f) + 2 /\ i + 2 = Len(f) + 3
      /\ i + 3 + Len(s) = Len(f) + (Len(s) + 4) /\ i + 4 + Len(s) = Len(f) + (Len(s) + 5)
  BY <1>1
<1>5. ASSUME NEW j \in 1..Len(s) PROVE b[i + 2 + j] = s[j]
  <2>1. 3 + j \in 1..Len(t) /\ i + 2 + j = Len(f) + (3 + j)
    BY <1>1
  <2>. QED  BY <1>1, <2>1 DEF ChunkOK
<1>6. b[i] = Numeral[n] /\ b[i + 1] = "r" /\ b[i + 2] = "n"
      /\ b[i + 3 + Len(s)] = "r" /\ b[i + 4 + Len(s)] = "n"
  BY <1>3, <1>4 DEF ChunkOK
<1>. QED  BY <1>1, <1>2, <1>5, <1>6 DEF ChunkFrom

LEMMA ChunkStays ==
    ASSUME NEW b, NEW f, NEW t, NEW i, NEW n, NEW s, Joins(b, f, t), ChunkFrom(f, i, n, s)
    PROVE  ChunkFrom(b, i, n, s)
<1>1. /\ Len(f) \in Nat /\ Len(t) \in Nat /\ Len(b) = Len(f) + Len(t) /\ i \in Nat \ {0} /\ Len(s) \in Nat
      /\ i + 4 + Len(s) <= Len(f) /\ \A j \in 1..Len(f) : b[j] = f[j]
  BY DEF Joins, ChunkFrom
<1>2. i + 4 + Len(s) <= Len(b)
  BY <1>1
<1>3. b[i] = f[i] /\ b[i + 1] = f[i + 1] /\ b[i + 2] = f[i + 2]
      /\ b[i + 3 + Len(s)] = f[i + 3 + Len(s)] /\ b[i + 4 + Len(s)] = f[i + 4 + Len(s)]
  BY <1>1
<1>4. ASSUME NEW j \in 1..Len(s) PROVE b[i + 2 + j] = f[i + 2 + j]
  <2>1. i + 2 + j \in 1..Len(f)
    BY <1>1
  <2>. QED  BY <1>1, <2>1
<1>. QED  BY <1>1, <1>2, <1>3, <1>4 DEF ChunkFrom

\* A payload: its chunks are not empty and not too long.
ChunksOK(p) == p \in Seq(Seq(Byte)) /\ \A k \in 1..Len(p) : p[k] \in Seq(Byte) /\ Len(p[k]) \in 1..MaxChunk

\* The first m chunks of p are in b, one behind the other, up to at[m + 1].
Laid(b, from, p, m) ==
    /\ from \in [1..(m + 1) -> Nat \ {0}] /\ from[1] = 1
    /\ \A k \in 1..m : /\ from[k + 1] = from[k] + 5 + Len(p[k])
                       /\ ChunkFrom(b, from[k], Len(p[k]), p[k])

LEMMA LaidNext ==
    ASSUME NEW p, ChunksOK(p), NEW m, m \in Nat, m + 1 \in 1..Len(p), NEW f, NEW b, NEW from,
           Laid(f, from, p, m), from[m + 1] = Len(f) + 1, Joins(b, f, Chunk(p[m + 1])),
           ChunkOK(Chunk(p[m + 1]), Len(p[m + 1]), p[m + 1])
    PROVE  \E to : Laid(b, to, p, m + 1) /\ to[m + 2] = Len(b) + 1
<1>. DEFINE s == p[m + 1]
            next == from[m + 1] + 5 + Len(s)
            to == [k \in 1..(m + 2) |-> IF k = m + 2 THEN next ELSE from[k]]
<1>1. Len(s) \in Nat /\ Len(Chunk(s)) = Len(s) + 5 /\ Len(f) \in Nat /\ Len(b) = Len(f) + (Len(s) + 5)
  BY DEF Joins, ChunkOK
<1>a. next \in Nat \ {0} /\ next = Len(b) + 1 /\ next = from[m + 1] + 5 + Len(s)
  <2>. HIDE DEF s
  <2>. QED  BY <1>1
<1>. HIDE DEF next
<1>2. to[m + 2] = next /\ \A k \in 1..(m + 1) : to[k] = from[k]
  <2>1. m + 2 \in 1..(m + 2) /\ \A k \in 1..(m + 1) : k \in 1..(m + 2) /\ k # m + 2
    OBVIOUS
  <2>. QED  BY <2>1
<1>3. to \in [1..(m + 2) -> Nat \ {0}]
  <2>1. from \in [1..(m + 1) -> Nat \ {0}]
    BY DEF Laid
  <2>2. ASSUME NEW k \in 1..(m + 2), k # m + 2 PROVE k \in 1..(m + 1)
    BY <2>2
  <2>. QED  BY <1>a, <2>1, <2>2
<1>. HIDE DEF to
<1>4. to[m + 2] = Len(b) + 1
  BY <1>a, <1>2
<1>5. ASSUME NEW k \in 1..(m + 1)
      PROVE  to[k + 1] = to[k] + 5 + Len(p[k]) /\ ChunkFrom(b, to[k], Len(p[k]), p[k])
  <2>1. CASE k = m + 1
    <3>1. ChunkFrom(b, Len(f) + 1, Len(s), s)
      BY ChunkAppended
    <3>2. (m + 1) + 1 = m + 2 /\ to[k] = Len(f) + 1
      BY <1>2, <2>1
    <3>. QED  BY <1>a, <1>2, <2>1, <3>1, <3>2
  <2>2. CASE k \in 1..m
    <3>1. from[k + 1] = from[k] + 5 + Len(p[k]) /\ ChunkFrom(f, from[k], Len(p[k]), p[k])
      BY <2>2 DEF Laid
    <3>2. ChunkFrom(b, from[k], Len(p[k]), p[k])
      BY <3>1, ChunkStays
    <3>3. to[k] = from[k] /\ to[k + 1] = from[k + 1]
      BY <1>2, <2>2
    <3>. QED  BY <3>1, <3>2, <3>3
  <2>. QED  BY <2>1, <2>2
<1>6. (m + 1) + 1 = m + 2 /\ to[1] = 1
  BY <1>2 DEF Laid
<1>. QED  BY <1>3, <1>4, <1>5, <1>6 DEF Laid

\* The chunks of a payload lie one behind the other in its encoding.
LEMMA Layout ==
    ASSUME NEW p, ChunksOK(p)
    PROVE  LET f == FlattenSeq([k \in 1..Len(p) |-> Chunk(p[k])]) IN
           /\ f \in Seq(Byte)
           /\ \E from : Laid(f, from, p, Len(p)) /\ from[Len(p) + 1] = Len(f) + 1
<1>. DEFINE n == Len(p)
            flat(m) == FlattenSeq([k \in 1..m |-> Chunk(p[k])])
            T == {m \in Nat : m <= n =>
                    /\ flat(m) \in Seq(Byte)
                    /\ \E from : Laid(flat(m), from, p, m) /\ from[m + 1] = Len(flat(m)) + 1}
<1>1. n \in Nat
  BY DEF ChunksOK
<1>2. ASSUME NEW k \in 1..n
      PROVE  /\ p[k] \in Seq(Byte) /\ Chunk(p[k]) \in Seq(Byte)
             /\ ChunkOK(Chunk(p[k]), Len(p[k]), p[k])
  <2>1. p[k] \in Seq(Byte) /\ Len(p[k]) \in 0..MaxChunk
    BY <1>2, NumeralAssumption DEF ChunksOK
  <2>. QED  BY <2>1, ChunkAt DEF Chunk
<1>3. 0 \in T
  <2>1. [k \in 1..0 |-> Chunk(p[k])] = <<>>
    OBVIOUS
  <2>2. flat(0) = <<>>
    BY <2>1, FlatEmpty
  <2>. HIDE DEF flat
  <2>3. flat(0) \in Seq(Byte) /\ Len(flat(0)) = 0
    <3>1. \A e : e = <<>> => e \in Seq(Byte) /\ Len(e) = 0
      OBVIOUS
    <3>. QED  BY <2>2, <3>1
  <2>. DEFINE from == [k \in 1..(0 + 1) |-> 1]
  <2>4. from \in [1..(0 + 1) -> Nat \ {0}] /\ from[1] = 1 /\ from[0 + 1] = 1
    OBVIOUS
  <2>. HIDE DEF from
  <2>5. Laid(flat(0), from, p, 0) /\ from[0 + 1] = Len(flat(0)) + 1
    BY <2>3, <2>4 DEF Laid
  <2>. QED  BY <2>3, <2>5
<1>4. ASSUME NEW m \in Nat, m \in T PROVE m + 1 \in T
  <2>. SUFFICES ASSUME m + 1 <= n
               PROVE  /\ flat(m + 1) \in Seq(Byte)
                      /\ \E from : Laid(flat(m + 1), from, p, m + 1)
                                 /\ from[(m + 1) + 1] = Len(flat(m + 1)) + 1
    OBVIOUS
  <2>1. m <= n /\ m + 1 \in 1..n
    BY <1>1
  <2>2. flat(m) \in Seq(Byte)
        /\ \E from : Laid(flat(m), from, p, m) /\ from[m + 1] = Len(flat(m)) + 1
    BY <1>4, <2>1
  <2>3. flat(m + 1) = flat(m) \o Chunk(p[m + 1])
    <3>. DEFINE ss == [k \in 1..(m + 1) |-> Chunk(p[k])]
                tt == [k \in 1..m |-> Chunk(p[k])]
    <3>1. \A k \in 1..(m + 1) : k \in 1..n
      BY <1>1
    <3>2. ss \in [1..(m + 1) -> Seq(Byte)] /\ tt \in [1..m -> Seq(Byte)]
      BY <1>2, <3>1
    <3>3. (\A k \in 1..m : tt[k] = ss[k]) /\ ss[m + 1] = Chunk(p[m + 1])
      OBVIOUS
    <3>4. flat(m + 1) = FlattenSeq(ss) /\ flat(m) = FlattenSeq(tt)
      OBVIOUS
    <3>. HIDE DEF ss, tt, flat
    <3>5. FlattenSeq(ss) = FlattenSeq(tt) \o ss[m + 1]
      BY <3>2, <3>3, FlatNext
    <3>. QED  BY <3>3, <3>4, <3>5
  <2>. HIDE DEF flat, T
  <2>4. PICK from : Laid(flat(m), from, p, m) /\ from[m + 1] = Len(flat(m)) + 1
    BY <2>2
  <2>5. flat(m + 1) \in Seq(Byte) /\ Joins(flat(m + 1), flat(m), Chunk(p[m + 1]))
    BY <1>2, <2>1, <2>2, <2>3, Joined
  <2>6. \E to : Laid(flat(m + 1), to, p, m + 1) /\ to[m + 2] = Len(flat(m + 1)) + 1
    BY <1>2, <2>1, <2>4, <2>5, LaidNext
  <2>7. (m + 1) + 1 = m + 2
    OBVIOUS
  <2>. QED  BY <2>5, <2>6, <2>7
<1>. HIDE DEF flat
<1>5. Nat \subseteq T
  <2>. HIDE DEF T
  <2>. QED  BY <1>3, <1>4, Induct
<1>6. n \in T /\ n <= n
  BY <1>1, <1>5
<1>7. /\ flat(n) \in Seq(Byte)
      /\ \E from : Laid(flat(n), from, p, n) /\ from[n + 1] = Len(flat(n)) + 1
  BY <1>6
<1>. QED  BY <1>7 DEF flat

\* An encoded payload: its chunks from at[1] on, then the chunk of size 0 and the trailer.
Encodes(b, from, p, x) ==
    LET e == from[Len(p) + 1] IN
    /\ b \in Seq(Byte) /\ Laid(b, from, p, Len(p))
    /\ ChunkFrom(b, e, 0, x) /\ Len(b) = e + 4 + Len(x)

LEMMA EncodedOK ==
    ASSUME NEW p, ChunksOK(p), NEW x, x \in Seq(Byte)
    PROVE  Encoded(p, x) \in Seq(Byte) /\ \E from : Encodes(Encoded(p, x), from, p, x)
<1>. DEFINE f == FlattenSeq([k \in 1..Len(p) |-> Chunk(p[k])])
            n == Len(p)
            t == LastChunk(x)
            b == f \o t
<1>1. f \in Seq(Byte) /\ \E from : Laid(f, from, p, n) /\ from[n + 1] = Len(f) + 1
  BY Layout
<1>2. t \in Seq(Byte) /\ ChunkOK(t, 0, x)
  <2>1. 0 \in 0..MaxChunk
    BY NumeralAssumption
  <2>. QED  BY <2>1, ChunkAt DEF LastChunk
<1>3. Encoded(p, x) = b
  <2>1. DOMAIN p = 1..Len(p)
    BY DEF ChunksOK
  <2>. QED  BY <2>1 DEF Encoded
<1>n. n \in Nat
  BY DEF ChunksOK
<1>. HIDE DEF f, t
<1>4. b \in Seq(Byte) /\ Joins(b, f, t)
  BY <1>1, <1>2, Joined
<1>5. PICK from : Laid(f, from, p, n) /\ from[n + 1] = Len(f) + 1
  BY <1>1
<1>. HIDE DEF b
<1>6. ChunkFrom(b, from[n + 1], 0, x)
  BY <1>2, <1>4, <1>5, ChunkAppended
<1>7. Len(b) = from[n + 1] + 4 + Len(x)
  <2>1. Len(b) = Len(f) + Len(t) /\ Len(t) = Len(x) + 5 /\ Len(f) \in Nat /\ Len(x) \in Nat
    BY <1>2, <1>4 DEF Joins, ChunkOK
  <2>. QED  BY <1>5, <2>1
<1>8. Laid(b, from, p, n)
  <2>1. ASSUME NEW k \in 1..n PROVE ChunkFrom(b, from[k], Len(p[k]), p[k])
    <3>1. ChunkFrom(f, from[k], Len(p[k]), p[k])
      BY <1>5 DEF Laid
    <3>. QED  BY <1>4, <3>1, ChunkStays
  <2>. QED  BY <1>5, <2>1 DEF Laid
<1>. QED  BY <1>3, <1>4, <1>6, <1>7, <1>8 DEF Encodes

-----------------------------------------------------------------------------
(* The parser.                                                             *)

\* The first j symbols of b have come.
Begins(a, b, j) ==
    /\ a \in Seq(Byte) /\ Len(b) \in Nat /\ j \in 0..Len(b) /\ Len(a) = j
    /\ \A k \in 1..j : a[k] = b[k]

LEMMA ValueOf ==
    ASSUME NEW n, n \in 0..MaxChunk
    PROVE  Numeral[n] \in DOMAIN Value /\ Value[Numeral[n]] = n /\ Numeral[n] # "r"
<1>1. Numeral \in [0..MaxChunk -> Byte \ {"r"}] /\ \A k, l \in 0..MaxChunk : Numeral[k] = Numeral[l] => k = l
  BY NumeralAssumption DEF IsInjective
<1>. DEFINE D == {Numeral[k] : k \in 0..MaxChunk}
<1>2. Numeral[n] \in D
  OBVIOUS
<1>3. DOMAIN Value = D /\ Value[Numeral[n]] = CHOOSE k \in 0..MaxChunk : Numeral[k] = Numeral[n]
  BY <1>2 DEF Value
<1>4. (CHOOSE k \in 0..MaxChunk : Numeral[k] = Numeral[n]) = n
  BY <1>1
<1>. QED  BY <1>1, <1>2, <1>3, <1>4

\* The size of a chunk is read when its line is there.
LEMMA SizeRead ==
    ASSUME NEW a, NEW b, NEW j, Begins(a, b, j), NEW i, NEW n, n \in 0..MaxChunk, NEW s,
           ChunkFrom(b, i, n, s)
    PROVE  /\ HasSize(a, i) <=> i + 2 <= j
           /\ i <= j => Value[a[i]] = n
<1>. DEFINE ends == {k \in i..Len(a) - 1 : a[k] = "r" /\ a[k + 1] = "n"}
<1>1. /\ i \in Nat \ {0} /\ j \in Nat /\ Len(a) = j /\ \A k \in 1..j : a[k] = b[k]
      /\ b[i] = Numeral[n] /\ b[i + 1] = "r" /\ b[i + 2] = "n"
  BY DEF Begins, ChunkFrom
<1>2. Numeral[n] \in DOMAIN Value /\ Value[Numeral[n]] = n /\ Numeral[n] # "r"
  BY ValueOf
<1>3. i <= j => a[i] = Numeral[n]
  BY <1>1
<1>4. LineEnd(a, i) = IF ends = {} THEN 0 ELSE CHOOSE k \in ends : \A l \in ends : k <= l
  BY DEF LineEnd
<1>5. CASE i + 2 <= j
  <2>1. a[i + 1] = "r" /\ a[i + 2] = "n" /\ (i + 1) + 1 = i + 2 /\ i + 1 \in i..Len(a) - 1
    BY <1>1, <1>5
  <2>2. i + 1 \in ends
    BY <2>1
  <2>3. ASSUME NEW k \in ends PROVE k \in Nat /\ i + 1 <= k
    <3>1. k \in i..Len(a) - 1 /\ a[k] = "r"
      OBVIOUS
    <3>2. k # i
      BY <1>1, <1>2, <1>3, <1>5, <3>1
    <3>. QED  BY <1>1, <3>1, <3>2
  <2>. HIDE DEF ends
  <2>4. (CHOOSE k \in ends : \A l \in ends : k <= l) = i + 1
    <3>1. \A k \in ends : (\A l \in ends : k <= l) => k = i + 1
      BY <1>1, <2>2, <2>3
    <3>. QED  BY <2>2, <2>3, <3>1
  <2>5. LineEnd(a, i) = i + 1
    BY <1>4, <2>2, <2>4
  <2>6. i <= j /\ a[i] = Numeral[n]
    BY <1>1, <1>3, <1>5
  <2>7. HasSize(a, i)
    BY <1>2, <2>5, <2>6 DEF HasSize
  <2>. QED  BY <1>2, <1>5, <2>6, <2>7
<1>6. CASE ~(i + 2 <= j)
  <2>1. ends = {}
    <3>. SUFFICES ASSUME NEW k \in ends PROVE FALSE
      OBVIOUS
    <3>1. k \in i..Len(a) - 1 /\ a[k] = "r"
      OBVIOUS
    <3>2. k = i /\ i <= j
      BY <1>1, <1>6, <3>1
    <3>. QED  BY <1>2, <1>3, <3>1, <3>2
  <2>2. LineEnd(a, i) = 0
    BY <1>4, <2>1
  <2>3. ~HasSize(a, i)
    BY <1>1, <2>2 DEF HasSize
  <2>. QED  BY <1>2, <1>3, <1>6, <2>3
<1>. QED  BY <1>5, <1>6

\* What is behind a chunk of the payload is found when the chunk has come whole.
LEMMA BehindChunk ==
    ASSUME NEW a, NEW b, NEW j, Begins(a, b, j), NEW i, NEW s,
           Len(s) \in 1..MaxChunk, ChunkFrom(b, i, Len(s), s)
    PROVE  /\ i + 4 + Len(s) <= j => Behind(a, i) = i + 5 + Len(s)
           /\ ~(i + 4 + Len(s) <= j) => Behind(a, i) = 0
           /\ ~(HasSize(a, i) /\ Value[a[i]] = 0)
<1>. DEFINE n == Len(s)
<1>1. n \in 0..MaxChunk /\ n # 0 /\ n \in Nat
  BY NumeralAssumption
<1>2. i \in Nat /\ j \in Nat /\ Len(a) = j
  BY DEF Begins, ChunkFrom
<1>3. (HasSize(a, i) <=> i + 2 <= j) /\ (i <= j => Value[a[i]] = n)
  BY <1>1, SizeRead
<1>4. Behind(a, i) = IF HasSize(a, i) /\ Value[a[i]] # 0 /\ i + 4 + Value[a[i]] <= Len(a)
                     THEN i + 5 + Value[a[i]] ELSE 0
  BY DEF Behind
<1>. HIDE DEF n
<1>5. HasSize(a, i) => Value[a[i]] = n
  BY <1>2, <1>3
<1>6. CASE i + 4 + n <= j
  <2>1. HasSize(a, i)
    BY <1>1, <1>2, <1>3, <1>6
  <2>. QED  BY <1>1, <1>2, <1>4, <1>5, <1>6, <2>1 DEF n
<1>7. CASE ~(i + 4 + n <= j)
  <2>1. ~(HasSize(a, i) /\ Value[a[i]] # 0 /\ i + 4 + Value[a[i]] <= Len(a))
    BY <1>2, <1>5, <1>7
  <2>. QED  BY <1>1, <1>4, <1>5, <1>7, <2>1 DEF n
<1>. QED  BY <1>6, <1>7

LEMMA BehindLast ==
    ASSUME NEW a, NEW b, NEW j, Begins(a, b, j), NEW i, NEW x, ChunkFrom(b, i, 0, x)
    PROVE  /\ Behind(a, i) = 0
           /\ HasSize(a, i) <=> i + 2 <= j
           /\ HasSize(a, i) => Value[a[i]] = 0
<1>1. 0 \in 0..MaxChunk
  BY NumeralAssumption
<1>2. (HasSize(a, i) <=> i + 2 <= j) /\ (i <= j => Value[a[i]] = 0)
  BY <1>1, SizeRead
<1>4. i \in Nat /\ j \in Nat
  BY DEF Begins, ChunkFrom
<1>3. HasSize(a, i) => Value[a[i]] = 0
  BY <1>2, <1>4
<1>. QED  BY <1>2, <1>3 DEF Behind

Climbs(F, N, next, base, step) ==
    \A i \in 1..N : F[i] = IF next[i] = 0 THEN base[i] ELSE step[i][F[next[i]]]

\* A recursion that goes up from i, by a step that depends on i, has a value everywhere.
LEMMA Upwards ==
    ASSUME NEW V, NEW N, N \in Nat, NEW next, NEW base, base \in [1..N -> V],
           NEW step, step \in [1..N -> [V -> V]],
           \A i \in 1..N : next[i] = 0 \/ next[i] \in (i + 1)..N
    PROVE  \E F : F \in [1..N -> V] /\ Climbs(F, N, next, base, step)
<1>. DEFINE Good(F, i) == F[i] = IF next[i] = 0 THEN base[i] ELSE step[i][F[next[i]]]
            T == {m \in Nat : m <= N =>
                    \E F : F \in [(N + 1 - m)..N -> V] /\ \A i \in (N + 1 - m)..N : Good(F, i)}
<1>1. 0 \in T
  <2>. DEFINE F == [i \in (N + 1 - 0)..N |-> base[i]]
  <2>1. ~(\E i : i \in (N + 1 - 0)..N)
    OBVIOUS
  <2>2. F \in [(N + 1 - 0)..N -> V]
    BY <2>1
  <2>. QED  BY <2>1, <2>2
<1>2. ASSUME NEW m \in Nat, m \in T PROVE m + 1 \in T
  <2>. SUFFICES ASSUME m + 1 <= N
               PROVE  \E F : F \in [(N + 1 - (m + 1))..N -> V]
                             /\ \A i \in (N + 1 - (m + 1))..N : Good(F, i)
    OBVIOUS
  <2>1. PICK G : G \in [(N + 1 - m)..N -> V] /\ \A i \in (N + 1 - m)..N : Good(G, i)
    BY <1>2
  <2>. DEFINE l == N + 1 - (m + 1)
              v == IF next[l] = 0 THEN base[l] ELSE step[l][G[next[l]]]
              F == [i \in l..N |-> IF i = l THEN v ELSE G[i]]
  <2>2. l \in 1..N /\ l + 1 = N + 1 - m
    OBVIOUS
  <2>3. v \in V
    <3>. HIDE DEF l
    <3>1. next[l] # 0 => G[next[l]] \in V
      BY <2>1, <2>2
    <3>. QED  BY <2>2, <3>1
  <2>. HIDE DEF v
  <2>4. F \in [l..N -> V]
    <3>. HIDE DEF l
    <3>1. \A i \in l..N : i # l => i \in (l + 1)..N
      BY <2>2
    <3>. QED  BY <2>1, <2>2, <2>3, <3>1
  <2>5. ASSUME NEW i \in l..N PROVE Good(F, i)
    <3>1. next[i] # 0 => next[i] \in l..N /\ next[i] # l /\ next[i] \in (l + 1)..N
      <4>. HIDE DEF l
      <4>. QED  BY <2>2
    <3>2. next[i] # 0 => F[next[i]] = G[next[i]]
      <4>. HIDE DEF l
      <4>. QED  BY <3>1
    <3>3. CASE i = l
      <4>1. F[i] = v
        BY <3>3
      <4>. HIDE DEF F, l
      <4>. QED  BY <3>2, <3>3, <4>1 DEF v
    <3>4. CASE i # l
      <4>1. F[i] = G[i]
        BY <3>4
      <4>2. i \in (N + 1 - m)..N
        <5>. HIDE DEF l
        <5>. QED  BY <2>2, <3>4
      <4>3. Good(G, i)
        BY <2>1, <4>2
      <4>. HIDE DEF F, l
      <4>. QED  BY <3>2, <4>1, <4>3
    <3>. QED  BY <3>3, <3>4
  <2>. HIDE DEF F, Good
  <2>. QED  BY <2>4, <2>5
<1>3. Nat \subseteq T
  <2>. HIDE DEF T
  <2>. QED  BY <1>1, <1>2, Induct
<1>4. N \in T /\ N <= N /\ N + 1 - N = 1
  <2>. HIDE DEF T
  <2>. QED  BY <1>3
<1>5. \E F : F \in [(N + 1 - N)..N -> V] /\ \A i \in (N + 1 - N)..N : Good(F, i)
  BY <1>4
<1>6. \E F : F \in [1..N -> V] /\ \A i \in 1..N : Good(F, i)
  <2>. HIDE DEF Good
  <2>. QED  BY <1>4, <1>5
<1>. QED  BY <1>6 DEF Climbs

\* Where the chain of chunks from i on ends, and the data on the way.
Chain(F, a) == \A i \in 1..Len(a) + 1 : F[i] = IF Behind(a, i) = 0 THEN i ELSE F[Behind(a, i)]
Decoded(F, a) ==
    \A i \in 1..Len(a) + 1 :
        F[i] = IF Behind(a, i) = 0 THEN <<>>
               ELSE SubSeq(a, i + 3, i + 2 + Value[a[i]]) \o F[Behind(a, i)]

LEMMA BehindIsBehind ==
    ASSUME NEW a, a \in Seq(Byte), NEW i, i \in 1..Len(a) + 1
    PROVE  /\ Behind(a, i) = 0 \/ Behind(a, i) \in (i + 1)..(Len(a) + 1)
           /\ Behind(a, i) # 0 => Value[a[i]] \in Nat
<1>1. ASSUME NEW d \in DOMAIN Value PROVE Value[d] \in Nat
  <2>1. DOMAIN Value = {Numeral[n] : n \in 0..MaxChunk}
    BY DEF Value
  <2>2. PICK n \in 0..MaxChunk : d = Numeral[n]
    BY <2>1
  <2>3. Value[d] = n
    BY <2>2, ValueOf
  <2>. QED  BY <2>3, NumeralAssumption
<1>2. HasSize(a, i) => Value[a[i]] \in Nat
  BY <1>1 DEF HasSize
<1>3. Len(a) \in Nat
  OBVIOUS
<1>. QED  BY <1>2, <1>3 DEF Behind

LEMMA LastIs ==
    ASSUME NEW a, a \in Seq(Byte)
    PROVE  \E F : /\ Chain(F, a)
                  /\ ChunkedComplete(a) <=> /\ HasSize(a, F[1]) /\ Value[a[F[1]]] = 0
                                            /\ Ended(From(a, F[1] + 3))
<1>. DEFINE N == Len(a) + 1
            Is(X) == X = [i \in 1..Len(a) + 1 |-> IF Behind(a, i) = 0 THEN i ELSE X[Behind(a, i)]]
            C == CHOOSE X : Is(X)
            next == [i \in 1..N |-> Behind(a, i)]
            base == [i \in 1..N |-> i]
            step == [i \in 1..N |-> [v \in 1..N |-> v]]
<1>1. ChunkedComplete(a) <=> HasSize(a, C[1]) /\ Value[a[C[1]]] = 0 /\ Ended(From(a, C[1] + 3))
  BY DEF ChunkedComplete
<1>2. N \in Nat
  OBVIOUS
<1>e. N = Len(a) + 1
  OBVIOUS
<1>3. base \in [1..N -> 1..N] /\ step \in [1..N -> [1..N -> 1..N]]
  OBVIOUS
<1>4. \A i \in 1..N : next[i] = Behind(a, i) /\ (next[i] = 0 \/ next[i] \in (i + 1)..N)
  BY BehindIsBehind
<1>5. \A i \in 1..N : base[i] = i /\ \A v \in 1..N : step[i][v] = v
  OBVIOUS
<1>. HIDE DEF N, base, step, next, C, Is
<1>6. PICK F : F \in [1..N -> 1..N] /\ Climbs(F, N, next, base, step)
  <2>1. \A i \in 1..N : next[i] = 0 \/ next[i] \in (i + 1)..N
    BY <1>4
  <2>. QED  BY ONLY <1>2, <1>3, <2>1, Upwards
<1>7. Is(F)
  <2>1. ASSUME NEW i \in 1..N PROVE F[i] = IF Behind(a, i) = 0 THEN i ELSE F[Behind(a, i)]
    <3>1. next[i] # 0 => next[i] \in 1..N
      BY <1>2, <1>4
    <3>2. next[i] # 0 => step[i][F[next[i]]] = F[next[i]]
      BY <1>5, <1>6, <3>1
    <3>. QED  BY <1>4, <1>5, <1>6, <3>2 DEF Climbs
  <2>. QED  BY <1>e, <1>6, <2>1 DEF Is
<1>8. Is(C)
  BY <1>7 DEF C
<1>9. Chain(C, a)
  BY <1>8 DEF Is, Chain
<1>. QED  BY <1>1, <1>9

LEMMA DecodedIs ==
    ASSUME NEW a, a \in Seq(Byte)
    PROVE  \E F : Decoded(F, a) /\ Decode(a) = F[1]
<1>. DEFINE N == Len(a) + 1
            Piece(i) == SubSeq(a, i + 3, i + 2 + Value[a[i]])
            Is(X) == X = [i \in 1..Len(a) + 1 |->
                             IF Behind(a, i) = 0 THEN <<>>
                             ELSE SubSeq(a, i + 3, i + 2 + Value[a[i]]) \o X[Behind(a, i)]]
            C == CHOOSE X : Is(X)
            next == [i \in 1..N |-> Behind(a, i)]
            base == [i \in 1..N |-> <<>>]
            step == [i \in 1..N |-> [v \in Seq(Byte) |-> IF next[i] = 0 THEN v ELSE Piece(i) \o v]]
<1>1. Decode(a) = C[1]
  BY DEF Decode
<1>2. N \in Nat
  OBVIOUS
<1>e. N = Len(a) + 1
  OBVIOUS
<1>p. ASSUME NEW i \in 1..N, next[i] # 0 PROVE Piece(i) \in Seq(Byte)
  <2>1. Behind(a, i) # 0
    BY <1>p
  <2>2. Value[a[i]] \in Nat /\ Behind(a, i) = i + 5 + Value[a[i]] /\ i + 4 + Value[a[i]] <= Len(a)
    BY <2>1, BehindIsBehind DEF Behind
  <2>. DEFINE l == Value[a[i]]
  <2>. HIDE DEF l
  <2>3. l \in Nat /\ i + 4 + l <= Len(a)
    BY <2>2 DEF l
  <2>4. SubSeq(a, i + 3, i + 2 + l) \in Seq(Byte)
    BY <2>3
  <2>. QED  BY <2>4 DEF l
<1>. HIDE DEF Piece
<1>3. base \in [1..N -> Seq(Byte)] /\ step \in [1..N -> [Seq(Byte) -> Seq(Byte)]]
  <2>1. <<>> \in Seq(Byte)
    OBVIOUS
  <2>2. ASSUME NEW i \in 1..N, NEW v \in Seq(Byte)
        PROVE  (IF next[i] = 0 THEN v ELSE Piece(i) \o v) \in Seq(Byte)
    <3>. HIDE DEF next
    <3>. QED  BY <1>p
  <2>. HIDE DEF next
  <2>. QED  BY <2>1, <2>2
<1>4. \A i \in 1..N : next[i] = Behind(a, i) /\ (next[i] = 0 \/ next[i] \in (i + 1)..N)
  BY BehindIsBehind
<1>. HIDE DEF next
<1>5. \A i \in 1..N : base[i] = <<>> /\ \A v \in Seq(Byte) : next[i] # 0 => step[i][v] = Piece(i) \o v
  OBVIOUS
<1>. HIDE DEF N, base, step, C, Is
<1>6. PICK F : F \in [1..N -> Seq(Byte)] /\ Climbs(F, N, next, base, step)
  <2>1. \A i \in 1..N : next[i] = 0 \/ next[i] \in (i + 1)..N
    BY <1>4
  <2>. QED  BY ONLY <1>2, <1>3, <2>1, Upwards
<1>d. ASSUME NEW i \in 1..N
      PROVE  F[i] = IF Behind(a, i) = 0 THEN <<>> ELSE Piece(i) \o F[Behind(a, i)]
  <2>1. next[i] # 0 => next[i] \in 1..N
    BY <1>2, <1>4
  <2>2. next[i] # 0 => step[i][F[next[i]]] = Piece(i) \o F[next[i]]
    BY <1>5, <1>6, <2>1
  <2>. QED  BY <1>4, <1>5, <1>6, <2>2 DEF Climbs
<1>7. Is(F)
  BY <1>e, <1>6, <1>d DEF Is, Piece
<1>8. Is(C)
  BY <1>7 DEF C
<1>9. Decoded(C, a)
  BY <1>8 DEF Is, Decoded
<1>. QED  BY <1>1, <1>9

LEMMA SameElements ==
    ASSUME NEW S, NEW s, s \in Seq(S), NEW R, NEW t, t \in Seq(R), Len(s) = Len(t),
           \A i \in 1..Len(s) : s[i] = t[i]
    PROVE  s = t
OBVIOUS

LEMMA Within ==
    ASSUME NEW k, NEW l, l \in Nat, NEW d, d \in Nat \ {0}, k \in 1..l - d
    PROVE  k \in Nat /\ 1 <= k /\ k + d <= l
OBVIOUS

LEMMA Part ==
    ASSUME NEW S, NEW s, s \in Seq(S), NEW k, k \in Nat, 1 <= k, NEW d, d \in Nat, k + d <= Len(s)
    PROVE  /\ SubSeq(s, k, k + d) \in Seq(S) /\ Len(SubSeq(s, k, k + d)) = d + 1
           /\ \A i \in 1..d + 1 : SubSeq(s, k, k + d)[i] = s[k + i - 1]
<1>1. (k + d) - k + 1 = d + 1 /\ k + d \in Nat /\ k \in Nat \ {0} /\ Len(s) \in Nat
  OBVIOUS
<1>. QED  BY <1>1, SMTT(30)

LEMMA Pair ==
    ASSUME NEW S, NEW s, s \in Seq(S), NEW k, k \in 1..Len(s) - 1
    PROVE  SubSeq(s, k, k + 1) = CRLF <=> s[k] = "r" /\ s[k + 1] = "n"
<1>. DEFINE t == SubSeq(s, k, k + 1)
<1>b. Len(s) \in Nat /\ 1 \in Nat \ {0}
  OBVIOUS
<1>0. k \in Nat /\ 1 <= k /\ k + 1 <= Len(s) /\ Len(s) \in Nat
  BY <1>b, Within
<1>a. t \in Seq(S) /\ Len(t) = 2 /\ \A i \in 1..2 : t[i] = s[k + i - 1]
  <2>1. 1 \in Nat /\ 1 + 1 = 2
    OBVIOUS
  <2>. QED  BY <1>0, <2>1, Part
<1>. HIDE DEF t
<1>1. t \in Seq(S) /\ Len(t) = 2 /\ t[1] = s[k] /\ t[2] = s[k + 1]
  <2>1. k + 1 - 1 = k /\ k + 2 - 1 = k + 1 /\ 1 \in 1..2 /\ 2 \in 1..2
    BY <1>0
  <2>. QED  BY <1>a, <2>1
<1>2. t = CRLF <=> t[1] = "r" /\ t[2] = "n"
  <2>1. Len(CRLF) = 2 /\ CRLF[1] = "r" /\ CRLF[2] = "n"
    BY DEF CRLF
  <2>2. ASSUME t[1] = "r", t[2] = "n" PROVE t = <<"r", "n">>
    BY <1>1, <2>2
  <2>. QED  BY <2>1, <2>2 DEF CRLF
<1>. QED  BY <1>1, <1>2 DEF t

LEMMA Four ==
    ASSUME NEW S, NEW s, s \in Seq(S), NEW k, k \in 1..Len(s) - 3
    PROVE  SubSeq(s, k, k + 3) = CRLF \o CRLF
           <=> s[k] = "r" /\ s[k + 1] = "n" /\ s[k + 2] = "r" /\ s[k + 3] = "n"
<1>. DEFINE t == SubSeq(s, k, k + 3)
<1>b. Len(s) \in Nat /\ 3 \in Nat \ {0}
  OBVIOUS
<1>0. k \in Nat /\ 1 <= k /\ k + 3 <= Len(s) /\ Len(s) \in Nat
  BY <1>b, Within
<1>a. t \in Seq(S) /\ Len(t) = 4 /\ \A i \in 1..4 : t[i] = s[k + i - 1]
  <2>1. 3 \in Nat /\ 3 + 1 = 4
    OBVIOUS
  <2>. QED  BY <1>0, <2>1, Part
<1>. HIDE DEF t
<1>1. /\ t \in Seq(S) /\ Len(t) = 4
      /\ t[1] = s[k] /\ t[2] = s[k + 1] /\ t[3] = s[k + 2] /\ t[4] = s[k + 3]
  <2>1. /\ k + 1 - 1 = k /\ k + 2 - 1 = k + 1 /\ k + 3 - 1 = k + 2 /\ k + 4 - 1 = k + 3
        /\ 1 \in 1..4 /\ 2 \in 1..4 /\ 3 \in 1..4 /\ 4 \in 1..4
    BY <1>0
  <2>. QED  BY <1>a, <2>1
<1>. DEFINE q == CRLF \o CRLF
<1>2. q \in Seq(Byte) /\ Len(q) = 4 /\ q[1] = "r" /\ q[2] = "n" /\ q[3] = "r" /\ q[4] = "n"
  <2>1. Len(CRLF) = 2 /\ CRLF[1] = "r" /\ CRLF[2] = "n" /\ 1 \in 1..2 /\ 2 \in 1..2
    BY DEF CRLF
  <2>2. CRLF \in Seq(Byte)
    BY NumeralAssumption
  <2>3. q \in Seq(Byte) /\ Joins(q, CRLF, CRLF)
    BY <2>2, Joined
  <2>. HIDE DEF q
  <2>4. Len(q) = 2 + 2 /\ (\A i \in 1..2 : q[i] = CRLF[i]) /\ \A i \in 1..2 : q[2 + i] = CRLF[i]
    BY <2>1, <2>3 DEF Joins
  <2>5. q[1] = CRLF[1] /\ q[2] = CRLF[2] /\ q[2 + 1] = CRLF[1] /\ q[2 + 2] = CRLF[2]
    BY <2>1, <2>4
  <2>. QED  BY <2>1, <2>3, <2>4, <2>5
<1>. HIDE DEF q
<1>3. t = q <=> t[1] = "r" /\ t[2] = "n" /\ t[3] = "r" /\ t[4] = "n"
  <2>1. ASSUME t[1] = "r", t[2] = "n", t[3] = "r", t[4] = "n" PROVE t = q
    <3>1. \A i \in 1..4 : i = 1 \/ i = 2 \/ i = 3 \/ i = 4
      OBVIOUS
    <3>2. \A i \in 1..4 : t[i] = q[i]
      BY <1>2, <2>1, <3>1
    <3>3. Len(t) = Len(q) /\ \A i \in 1..Len(t) : t[i] = q[i]
      BY <1>1, <1>2, <3>2
    <3>4. t \in Seq(S) /\ q \in Seq(Byte)
      BY <1>1, <1>2
    <3>. QED  BY ONLY <3>3, <3>4, SameElements
  <2>. QED  BY <1>2, <2>1
<1>. QED  BY <1>1, <1>3 DEF t, q

\* The symbols of a trailer and of the empty line that ends it.
TrailerAt(x, k) == IF k <= Len(x) THEN x[k] ELSE IF k = Len(x) + 1 THEN "r" ELSE "n"

\* A trailer has come to its empty line when all of it is there, and not before.
LEMMA EndedRead ==
    ASSUME NEW x, x \in Trailers, NEW r, r \in Seq(Byte), Len(r) <= Len(x) + 2,
           \A k \in 1..Len(r) : r[k] = TrailerAt(x, k)
    PROVE  Ended(r) <=> Len(r) = Len(x) + 2
<1>. DEFINE l == Len(x)
            n == Len(r)
<1>1. x \in Seq(Byte) /\ l \in Nat /\ n \in Nat
  BY TrailersAssumption
<1>2. CASE x = <<>>
  <2>1. l = 0
    BY <1>2
  <2>2. TrailerAt(x, 1) = "r" /\ TrailerAt(x, 2) = "n"
    BY <2>1 DEF TrailerAt
  <2>3. n >= 2 => SubSeq(r, 1, 2) = CRLF
    <3>. SUFFICES ASSUME n >= 2 PROVE SubSeq(r, 1, 1 + 1) = CRLF
      OBVIOUS
    <3>1. 1 \in 1..Len(r) - 1 /\ r[1] = "r" /\ r[1 + 1] = "n"
      BY <2>2
    <3>. QED  BY <3>1, Pair
  <2>4. Ended(r) <=> n >= 2 \/ \E k \in 1..n - 3 : SubSeq(r, k, k + 3) = CRLF \o CRLF
    BY <2>3 DEF Ended
  <2>5. ~(\E k : k \in 1..n - 3) /\ (n >= 2 <=> n = l + 2)
    <3>. HIDE DEF n, l
    <3>1. n <= l + 2 /\ n \in Nat
      BY <1>1 DEF n, l
    <3>. QED  BY <2>1, <3>1
  <2>. QED  BY <2>4, <2>5
<1>3. CASE x # <<>>
  <2>1. /\ l >= 2 /\ SubSeq(x, 1, 2) # CRLF /\ SubSeq(x, l - 1, l) = CRLF
        /\ \A k \in 1..l - 3 : SubSeq(x, k, k + 3) # CRLF \o CRLF
    BY <1>3, TrailersAssumption
  <2>. HIDE DEF l, n
  <2>l. l = Len(x) /\ n = Len(r)
    BY DEF l, n
  <2>2. x[l - 1] = "r" /\ x[l] = "n"
    <3>1. l - 1 \in 1..l - 1 /\ (l - 1) + 1 = l
      BY <1>1, <2>1
    <3>2. SubSeq(x, l - 1, (l - 1) + 1) = CRLF
      BY <2>1, <3>1
    <3>3. l - 1 \in 1..Len(x) - 1
      BY <2>l, <3>1
    <3>4. x[l - 1] = "r" /\ x[(l - 1) + 1] = "n"
      BY <1>1, <3>2, <3>3, Pair
    <3>. QED  BY <3>1, <3>4
  <2>3. ~(x[1] = "r" /\ x[2] = "n")
    <3>1. 1 \in 1..Len(x) - 1 /\ 1 + 1 = 2
      BY <1>1, <2>l, <2>1
    <3>2. \A k \in 1..Len(x) - 1 : SubSeq(x, k, k + 1) = CRLF <=> x[k] = "r" /\ x[k + 1] = "n"
      BY <1>1, Pair
    <3>3. SubSeq(x, 1, 1 + 1) = CRLF <=> x[1] = "r" /\ x[1 + 1] = "n"
      BY <3>1, <3>2
    <3>. QED  BY <2>1, <3>1, <3>3
  <2>4. ~(n >= 2 /\ SubSeq(r, 1, 2) = CRLF)
    <3>. SUFFICES ASSUME n >= 2, SubSeq(r, 1, 1 + 1) = CRLF PROVE FALSE
      OBVIOUS
    <3>1. 1 \in 1..n - 1 /\ 1 \in 1..n /\ 2 \in 1..n /\ 1 + 1 = 2
      BY <1>1
    <3>3. r[1] = "r" /\ r[1 + 1] = "n"
      BY <2>l, <3>1, Pair
    <3>2. r[1] = x[1] /\ r[2] = x[2]
      BY <1>1, <2>l, <2>1, <3>1 DEF TrailerAt
    <3>. QED  BY <2>3, <3>1, <3>2, <3>3
  <2>5. ASSUME NEW k \in 1..n - 3 PROVE SubSeq(r, k, k + 3) = CRLF \o CRLF <=> k = l - 1
    <3>1. /\ k \in Nat /\ k + 3 <= n /\ n <= l + 2
          /\ r[k] = TrailerAt(x, k) /\ r[k + 1] = TrailerAt(x, k + 1)
          /\ r[k + 2] = TrailerAt(x, k + 2) /\ r[k + 3] = TrailerAt(x, k + 3)
      BY <1>1, <2>l
    <3>2. SubSeq(r, k, k + 3) = CRLF \o CRLF
          <=> r[k] = "r" /\ r[k + 1] = "n" /\ r[k + 2] = "r" /\ r[k + 3] = "n"
      <4>1. k \in 1..Len(r) - 3
        BY <2>l
      <4>. QED  BY ONLY <4>1, r \in Seq(Byte), Four, ZenonT(30)
    <3>3. CASE k <= l - 3
      <4>1. k \in 1..l - 3
        BY <1>1, <3>1, <3>3
      <4>2. ~(x[k] = "r" /\ x[k + 1] = "n" /\ x[k + 2] = "r" /\ x[k + 3] = "n")
        <5>1. SubSeq(x, k, k + 3) # CRLF \o CRLF /\ k \in 1..Len(x) - 3
          BY <2>l, <2>1, <4>1
        <5>2. SubSeq(x, k, k + 3) = CRLF \o CRLF
              <=> x[k] = "r" /\ x[k + 1] = "n" /\ x[k + 2] = "r" /\ x[k + 3] = "n"
          BY <1>1, <5>1, Four
        <5>. QED  BY <5>1, <5>2
      <4>3. r[k] = x[k] /\ r[k + 1] = x[k + 1] /\ r[k + 2] = x[k + 2] /\ r[k + 3] = x[k + 3]
        BY <1>1, <3>1, <2>l, <3>3 DEF TrailerAt
      <4>4. k # l - 1
        BY <1>1, <3>1, <3>3
      <4>. QED  BY <3>2, <4>2, <4>3, <4>4
    <3>4. CASE k = l - 2
      <4>1. r[k + 1] = "r"
        BY <1>1, <2>2, <3>1, <2>l, <3>4 DEF TrailerAt
      <4>. QED  BY <1>1, <3>2, <3>4, <4>1
    <3>5. CASE k = l - 1
      <4>1. r[k] = "r" /\ r[k + 1] = "n"
        BY <1>1, <2>2, <3>1, <2>l, <3>5 DEF TrailerAt
      <4>2. r[k + 2] = "r" /\ r[k + 3] = "n"
        BY <1>1, <3>1, <2>l, <3>5 DEF TrailerAt
      <4>. QED  BY <3>2, <3>5, <4>1, <4>2
    <3>6. k <= l - 3 \/ k = l - 2 \/ k = l - 1
      BY <1>1, <3>1
    <3>. QED  BY <3>3, <3>4, <3>5, <3>6
  <2>6. Ended(r) <=> l - 1 \in 1..n - 3
    BY <2>l, <2>4, <2>5 DEF Ended
  <2>7. n <= l + 2
    BY <2>l
  <2>8. l - 1 \in 1..n - 3 <=> n = l + 2
    BY <1>1, <2>1, <2>7
  <2>. QED  BY <2>l, <2>6, <2>8
<1>. QED  BY <1>2, <1>3

LEMMA Shift ==
    ASSUME NEW e, e \in Nat, NEW l, l \in Nat, NEW d, d \in Nat \ {0}
    PROVE  /\ e + 2 + (l + d) = e + (2 + d) + l /\ ~(l + d <= l)
           /\ d = 2 => l + d # l + 1
OBVIOUS

\* A body in chunks is complete when all of it has come, and not before.
LEMMA CompleteRead ==
    ASSUME NEW p, ChunksOK(p), NEW x, x \in Trailers, NEW b, NEW from, Encodes(b, from, p, x),
           NEW a, NEW j, Begins(a, b, j)
    PROVE  ChunkedComplete(a) <=> j = Len(b)
<1>. DEFINE n == Len(p)
            e == from[n + 1]
            Good(i) == HasSize(a, i) /\ Value[a[i]] = 0 /\ Ended(From(a, i + 3))
<1>1. /\ n \in Nat /\ x \in Seq(Byte) /\ Len(x) \in Nat /\ a \in Seq(Byte) /\ Len(a) = j
      /\ j \in Nat /\ Len(b) \in Nat /\ j <= Len(b) /\ \A k \in 1..j : a[k] = b[k]
  BY TrailersAssumption DEF ChunksOK, Begins
<1>2. /\ from \in [1..(n + 1) -> Nat \ {0}] /\ from[1] = 1
      /\ \A k \in 1..n : from[k + 1] = from[k] + 5 + Len(p[k]) /\ ChunkFrom(b, from[k], Len(p[k]), p[k])
      /\ ChunkFrom(b, e, 0, x) /\ Len(b) = e + 4 + Len(x)
  BY DEF Encodes, Laid
<1>3. PICK F : Chain(F, a) /\ (ChunkedComplete(a) <=> Good(F[1]))
  BY <1>1, LastIs
<1>. HIDE DEF n, e
<1>e. e \in Nat \ {0} /\ n + 1 \in 1..(n + 1) /\ e = from[n + 1]
  BY <1>1, <1>2 DEF e
<1>4. ASSUME e <= j + 1 PROVE Good(F[e]) <=> j = Len(b)
  <2>1. Behind(a, e) = 0 /\ (HasSize(a, e) <=> e + 2 <= j) /\ (HasSize(a, e) => Value[a[e]] = 0)
    BY <1>2, BehindLast
  <2>2. F[e] = e
    <3>1. e \in 1..Len(a) + 1
      BY <1>1, <1>4, <1>e
    <3>. QED  BY <1>3, <2>1, <3>1 DEF Chain
  <2>3. CASE ~(e + 2 <= j)
    <3>1. j # Len(b)
      BY <1>1, <1>2, <1>e, <2>3
    <3>. QED  BY <2>1, <2>2, <2>3, <3>1
  <2>4. CASE e + 2 <= j
    <3>. DEFINE r == SubSeq(a, e + 3, Len(a))
    <3>1. r \in Seq(Byte) /\ Len(r) = j - (e + 2) /\ \A k \in 1..Len(r) : r[k] = a[e + 2 + k]
      <4>1. /\ e + 3 \in Nat \ {0} /\ Len(a) \in Nat /\ e + 3 <= Len(a) + 1
            /\ Len(a) - (e + 3) + 1 = j - (e + 2)
        BY <1>1, <1>e, <2>4, SMTT(30)
      <4>2. r \in Seq(Byte) /\ Len(r) = Len(a) - (e + 3) + 1
        BY <1>1, <4>1
      <4>3. ASSUME NEW k \in 1..Len(r) PROVE r[k] = a[e + 2 + k]
        <5>1. r[k] = a[(e + 3) + k - 1]
          BY <1>1, <4>1, <4>2, SMTT(30)
        <5>2. (e + 3) + k - 1 = e + 2 + k
          BY <1>e
        <5>. QED  BY <5>1, <5>2
      <4>. QED  BY <4>1, <4>2, <4>3
    <3>. HIDE DEF r
    <3>2. Len(r) <= Len(x) + 2 /\ (Len(r) = Len(x) + 2 <=> j = Len(b))
      BY <1>1, <1>2, <1>e, <3>1, SMTT(30)
    <3>3. ASSUME NEW k \in 1..Len(r) PROVE r[k] = TrailerAt(x, k)
      <4>1. r[k] = b[e + 2 + k] /\ k \in Nat /\ 1 <= k /\ k <= Len(x) + 2
        <5>1. e + 2 + k \in 1..j /\ Len(r) \in Nat
          BY <1>1, <1>e, <2>4, <3>1, SMTT(30)
        <5>. QED  BY <1>1, <3>1, <3>2, <5>1
      <4>2. /\ \A l \in 1..Len(x) : b[e + 2 + l] = x[l]
            /\ b[e + 3 + Len(x)] = "r" /\ b[e + 4 + Len(x)] = "n"
        BY <1>2 DEF ChunkFrom
      <4>3. CASE k <= Len(x)
        BY <1>1, <4>1, <4>2, <4>3 DEF TrailerAt
      <4>4. CASE k = Len(x) + 1
        <5>1. \A l \in Nat : e + 2 + (l + 1) = e + 3 + l /\ ~(l + 1 <= l)
          <6>1. e \in Nat /\ 1 \in Nat \ {0} /\ 2 + 1 = 3
            BY <1>e
          <6>. QED  BY ONLY <6>1, Shift
        <5>2. e + 2 + k = e + 3 + Len(x) /\ ~(k <= Len(x))
          BY <1>1, <4>4, <5>1
        <5>. QED  BY <4>1, <4>2, <4>4, <5>2 DEF TrailerAt
      <4>5. CASE k = Len(x) + 2
        <5>1. \A l \in Nat : e + 2 + (l + 2) = e + 4 + l /\ ~(l + 2 <= l) /\ l + 2 # l + 1
          <6>1. e \in Nat /\ 2 \in Nat \ {0} /\ 2 + 2 = 4
            BY <1>e
          <6>. QED  BY ONLY <6>1, Shift
        <5>2. e + 2 + k = e + 4 + Len(x) /\ ~(k <= Len(x)) /\ k # Len(x) + 1
          BY <1>1, <4>5, <5>1
        <5>. QED  BY <4>1, <4>2, <5>2 DEF TrailerAt
      <4>6. k <= Len(x) \/ k = Len(x) + 1 \/ k = Len(x) + 2
        BY <1>1, <4>1
      <4>. QED  BY <4>3, <4>4, <4>5, <4>6
    <3>4. Ended(r) <=> j = Len(b)
      BY <3>1, <3>2, <3>3, EndedRead
    <3>5. From(a, e + 3) = r
      BY DEF From, r
    <3>. QED  BY <2>1, <2>2, <2>4, <3>4, <3>5
  <2>. QED  BY <2>3, <2>4
<1>5. ASSUME NEW k \in 1..n, from[k] <= j + 1,
             from[k + 1] <= j + 1 => (Good(F[from[k + 1]]) <=> j = Len(b))
      PROVE  Good(F[from[k]]) <=> j = Len(b)
  <2>. DEFINE i == from[k]
              s == p[k]
  <2>1. /\ ChunkFrom(b, i, Len(s), s) /\ Len(s) \in 1..MaxChunk /\ from[k + 1] = i + 5 + Len(s)
    BY <1>2 DEF ChunksOK, n
  <2>2. i \in 1..Len(a) + 1
    <3>1. i \in Nat \ {0}
      BY <2>1 DEF ChunkFrom
    <3>. QED  BY <1>1, <1>5, <3>1
  <2>. HIDE DEF i, s
  <2>3. F[i] = IF Behind(a, i) = 0 THEN i ELSE F[Behind(a, i)]
    BY <1>3, <2>2 DEF Chain
  <2>4. /\ i + 4 + Len(s) <= j => Behind(a, i) = i + 5 + Len(s)
        /\ ~(i + 4 + Len(s) <= j) => Behind(a, i) = 0
        /\ ~(HasSize(a, i) /\ Value[a[i]] = 0)
    BY <2>1, BehindChunk
  <2>5. i \in Nat /\ Len(s) \in Nat /\ i + 4 + Len(s) <= Len(b)
    BY <2>1 DEF ChunkFrom
  <2>6. CASE i + 4 + Len(s) <= j
    <3>1. F[i] = F[from[k + 1]]
      BY <2>1, <2>3, <2>4, <2>5, <2>6
    <3>2. from[k + 1] <= j + 1
      BY <1>1, <2>1, <2>5, <2>6
    <3>3. Good(F[from[k + 1]]) <=> j = Len(b)
      BY <1>5, <3>2
    <3>4. Good(F[i]) <=> Good(F[from[k + 1]])
      BY <3>1
    <3>. HIDE DEF Good
    <3>5. Good(F[i]) <=> j = Len(b)
      BY <3>3, <3>4
    <3>. QED  BY <3>5 DEF i
  <2>7. CASE ~(i + 4 + Len(s) <= j)
    <3>1. F[i] = i
      BY <2>3, <2>4, <2>7
    <3>2. ~Good(F[i])
      BY <2>4, <3>1
    <3>3. j # Len(b)
      BY <1>1, <2>5, <2>7
    <3>. HIDE DEF Good
    <3>4. Good(F[i]) <=> j = Len(b)
      BY <3>2, <3>3
    <3>. QED  BY <3>4 DEF i
  <2>. QED  BY <2>6, <2>7
<1>. HIDE DEF Good
<1>. DEFINE T == {m \in Nat : m <= n => LET i == from[n + 1 - m] IN
                      i <= j + 1 => (Good(F[i]) <=> j = Len(b))}
<1>6. 0 \in T
  <2>1. n + 1 - 0 = n + 1
    BY <1>1
  <2>. QED  BY <1>4, <1>e, <2>1
<1>7. ASSUME NEW m \in Nat, m \in T PROVE m + 1 \in T
  <2>. SUFFICES ASSUME m + 1 <= n, from[n + 1 - (m + 1)] <= j + 1
               PROVE  Good(F[from[n + 1 - (m + 1)]]) <=> j = Len(b)
    OBVIOUS
  <2>. DEFINE k == n + 1 - (m + 1)
  <2>1. k \in 1..n /\ k + 1 = n + 1 - m /\ m <= n
    BY <1>1
  <2>2. from[k + 1] <= j + 1 => (Good(F[from[k + 1]]) <=> j = Len(b))
    <3>. HIDE DEF k
    <3>. QED  BY <1>7, <2>1
  <2>3. from[k] <= j + 1
    OBVIOUS
  <2>. HIDE DEF k, T
  <2>4. Good(F[from[k]]) <=> j = Len(b)
    BY <1>5, <2>1, <2>2, <2>3
  <2>. QED  BY <2>4 DEF k
<1>8. Nat \subseteq T
  <2>. HIDE DEF T
  <2>. QED  BY <1>6, <1>7, Induct
<1>9. n \in T
  <2>. HIDE DEF T
  <2>. QED  BY <1>1, <1>8
<1>10. n <= n /\ n + 1 - n = 1 /\ from[1] = 1 /\ 1 <= j + 1
  BY <1>1, <1>2
<1>11. Good(F[1]) <=> j = Len(b)
  BY <1>9, <1>10
<1>. QED  BY <1>3, <1>11 DEF Good

\* The data of a body in chunks is the payload.
LEMMA DecodeWhole ==
    ASSUME NEW p, ChunksOK(p), NEW x, x \in Trailers, NEW b, NEW from, Encodes(b, from, p, x)
    PROVE  Decode(b) = FlattenSeq(p)
<1>. DEFINE n == Len(p)
            e == from[n + 1]
            flat(m) == FlattenSeq([k \in 1..m |-> p[k]])
<1>1. /\ n \in Nat /\ x \in Seq(Byte) /\ Len(x) \in Nat /\ b \in Seq(Byte) /\ Len(b) \in Nat
      /\ \A k \in 1..n : p[k] \in Seq(Byte) /\ Len(p[k]) \in 1..MaxChunk
  BY TrailersAssumption DEF ChunksOK, Encodes
<1>2. /\ from \in [1..(n + 1) -> Nat \ {0}] /\ from[1] = 1
      /\ \A k \in 1..n : from[k + 1] = from[k] + 5 + Len(p[k]) /\ ChunkFrom(b, from[k], Len(p[k]), p[k])
      /\ ChunkFrom(b, e, 0, x) /\ Len(b) = e + 4 + Len(x)
  BY DEF Encodes, Laid
<1>b. Begins(b, b, Len(b))
  BY <1>1 DEF Begins
<1>3. PICK F : Decoded(F, b) /\ Decode(b) = F[1]
  BY <1>1, DecodedIs
<1>p. p = [k \in 1..n |-> p[k]]
  BY DEF ChunksOK
<1>f. \A m \in Nat : m <= n => flat(m) \in Seq(Byte)
  <2>. SUFFICES ASSUME NEW m \in Nat, m <= n PROVE flat(m) \in Seq(Byte)
    OBVIOUS
  <2>. DEFINE ss == [k \in 1..m |-> p[k]]
  <2>1. ss \in [1..m -> Seq(Byte)]
    BY <1>1
  <2>. HIDE DEF ss
  <2>2. FlattenSeq(ss) \in Seq(Byte)
    BY <2>1, FlatType
  <2>. QED  BY <2>2 DEF ss
<1>. HIDE DEF n, e
<1>4. F[e] = <<>>
  <2>1. Behind(b, e) = 0
    BY <1>2, <1>b, BehindLast
  <2>2. e \in 1..Len(b) + 1
    <3>1. e \in Nat \ {0}
      BY <1>2 DEF ChunkFrom
    <3>. QED  BY <1>1, <1>2, <3>1
  <2>. QED  BY <1>3, <2>1, <2>2 DEF Decoded
<1>5. ASSUME NEW k \in 1..n PROVE F[from[k]] = p[k] \o F[from[k + 1]]
  <2>. DEFINE i == from[k]
              s == p[k]
  <2>1. /\ ChunkFrom(b, i, Len(s), s) /\ Len(s) \in 1..MaxChunk /\ from[k + 1] = i + 5 + Len(s)
        /\ s \in Seq(Byte)
    BY <1>1, <1>2
  <2>. HIDE DEF i, s
  <2>2. /\ i \in Nat \ {0} /\ Len(s) \in Nat /\ i + 4 + Len(s) <= Len(b)
        /\ \A l \in 1..Len(s) : b[i + 2 + l] = s[l]
    BY <2>1 DEF ChunkFrom
  <2>3. Behind(b, i) = i + 5 + Len(s)
    BY <1>b, <2>1, <2>2, BehindChunk
  <2>4. Value[b[i]] = Len(s)
    <3>1. Len(s) \in 0..MaxChunk
      BY <2>1, NumeralAssumption
    <3>2. i <= Len(b) => Value[b[i]] = Len(s)
      BY <1>b, <2>1, <3>1, SizeRead
    <3>. QED  BY <1>1, <2>2, <3>2
  <2>5. SubSeq(b, i + 3, i + 2 + Len(s)) = s
    <3>. DEFINE t == SubSeq(b, i + 3, i + 2 + Len(s))
    <3>1. /\ i + 3 \in Nat \ {0} /\ i + 2 + Len(s) \in Nat /\ i + 2 + Len(s) <= Len(b)
          /\ (i + 2 + Len(s)) - (i + 3) + 1 = Len(s)
      <4>. DEFINE l == Len(s)
                  o == Len(b)
      <4>1. i \in Nat \ {0} /\ l \in Nat /\ o \in Nat /\ i + 4 + l <= o
        BY <1>1, <2>2
      <4>. HIDE DEF l, o
      <4>2. /\ i + 3 \in Nat \ {0} /\ i + 2 + l \in Nat /\ i + 2 + l <= o
            /\ (i + 2 + l) - (i + 3) + 1 = l
        BY <4>1
      <4>. QED  BY <4>2 DEF l, o
    <3>2. t \in Seq(Byte) /\ Len(t) = Len(s)
      BY <1>1, <2>2, <3>1
    <3>3. ASSUME NEW l \in 1..Len(s) PROVE t[l] = s[l]
      <4>1. t[l] = b[(i + 3) + l - 1]
        BY <1>1, <2>2, <3>1, <3>2
      <4>2. (i + 3) + l - 1 = i + 2 + l
        BY <2>2
      <4>. QED  BY <2>2, <4>1, <4>2
    <3>. HIDE DEF t
    <3>4. t = s
      BY <2>1, <3>2, <3>3
    <3>. QED  BY <3>4 DEF t
  <2>6. F[i] = SubSeq(b, i + 3, i + 2 + Value[b[i]]) \o F[Behind(b, i)]
    <3>1. i \in 1..Len(b) + 1 /\ Behind(b, i) # 0
      BY <1>1, <2>2, <2>3
    <3>. QED  BY <1>3, <3>1 DEF Decoded
  <2>7. F[i] = s \o F[from[k + 1]]
    BY <2>1, <2>3, <2>4, <2>5, <2>6
  <2>. QED  BY <2>7 DEF i, s
<1>6. \A k \in 1..(n + 1) : F[from[k]] \in Seq(Byte)
  <2>. DEFINE T == {m \in Nat : m <= n => F[from[n + 1 - m]] \in Seq(Byte)}
  <2>1. 0 \in T
    <3>1. n + 1 - 0 = n + 1 /\ <<>> \in Seq(Byte) /\ e = from[n + 1]
      BY <1>1 DEF e
    <3>. QED  BY <1>4, <3>1
  <2>2. ASSUME NEW m \in Nat, m \in T PROVE m + 1 \in T
    <3>. SUFFICES ASSUME m + 1 <= n PROVE F[from[n + 1 - (m + 1)]] \in Seq(Byte)
      OBVIOUS
    <3>1. n + 1 - (m + 1) \in 1..n /\ (n + 1 - (m + 1)) + 1 = n + 1 - m /\ m <= n
      BY <1>1
    <3>2. F[from[n + 1 - m]] \in Seq(Byte)
      BY <2>2, <3>1
    <3>. HIDE DEF T
    <3>3. F[from[n + 1 - (m + 1)]] = p[n + 1 - (m + 1)] \o F[from[n + 1 - m]]
      BY <1>5, <3>1
    <3>. QED  BY <1>1, <3>1, <3>2, <3>3
  <2>3. Nat \subseteq T
    <3>. HIDE DEF T
    <3>. QED  BY <2>1, <2>2, Induct
  <2>4. ASSUME NEW k \in 1..(n + 1) PROVE F[from[k]] \in Seq(Byte)
    <3>1. n + 1 - k \in Nat /\ n + 1 - k <= n /\ n + 1 - (n + 1 - k) = k
      BY <1>1
    <3>. QED  BY <2>3, <3>1
  <2>. QED  BY <2>4
<1>. DEFINE U == {m \in Nat : m <= n => F[1] = flat(m) \o F[from[m + 1]]}
<1>7. 0 \in U
  <2>1. [k \in 1..0 |-> p[k]] = <<>>
    OBVIOUS
  <2>2. flat(0) = <<>>
    BY <2>1, FlatEmpty
  <2>. HIDE DEF flat
  <2>3. from[0 + 1] = 1 /\ F[from[1]] \in Seq(Byte)
    BY <1>1, <1>2, <1>6
  <2>. DEFINE v == F[from[1]]
  <2>4. <<>> \o v = v
    <3>. HIDE DEF v
    <3>1. v \in Seq(Byte)
      BY <2>3 DEF v
    <3>. QED  BY <3>1
  <2>. QED  BY <1>2, <2>2, <2>3, <2>4
<1>8. ASSUME NEW m \in Nat, m \in U PROVE m + 1 \in U
  <2>. SUFFICES ASSUME m + 1 <= n PROVE F[1] = flat(m + 1) \o F[from[(m + 1) + 1]]
    OBVIOUS
  <2>1. m <= n /\ m + 1 \in 1..n /\ m + 1 \in 1..(n + 1) /\ (m + 1) + 1 \in 1..(n + 1)
    BY <1>1
  <2>2. F[1] = flat(m) \o F[from[m + 1]]
    BY <1>8, <2>1
  <2>3. flat(m + 1) = flat(m) \o p[m + 1]
    <3>. DEFINE ss == [k \in 1..(m + 1) |-> p[k]]
                tt == [k \in 1..m |-> p[k]]
    <3>1. \A k \in 1..(m + 1) : k \in 1..n
      BY <1>1, <2>1
    <3>2. ss \in [1..(m + 1) -> Seq(Byte)] /\ tt \in [1..m -> Seq(Byte)]
      BY <1>1, <3>1
    <3>3. (\A k \in 1..m : tt[k] = ss[k]) /\ ss[m + 1] = p[m + 1]
      OBVIOUS
    <3>4. flat(m + 1) = FlattenSeq(ss) /\ flat(m) = FlattenSeq(tt)
      OBVIOUS
    <3>. HIDE DEF ss, tt, flat
    <3>5. FlattenSeq(ss) = FlattenSeq(tt) \o ss[m + 1]
      BY <3>2, <3>3, FlatNext
    <3>. QED  BY <3>3, <3>4, <3>5
  <2>. DEFINE u == flat(m)
              v == p[m + 1]
              w == F[from[(m + 1) + 1]]
  <2>4. u \in Seq(Byte) /\ v \in Seq(Byte) /\ w \in Seq(Byte)
    <3>. HIDE DEF flat, U
    <3>. QED  BY <1>1, <1>f, <1>6, <2>1
  <2>5. F[from[m + 1]] = v \o w
    BY <1>5, <2>1
  <2>. HIDE DEF u, v, w, U, flat
  <2>6. (u \o v) \o w = u \o (v \o w)
    BY <2>4
  <2>. QED  BY <2>2, <2>3, <2>5, <2>6 DEF u, v, w
<1>9. n \in U
  <2>. HIDE DEF U
  <2>1. Nat \subseteq U
    BY <1>7, <1>8, Induct
  <2>. QED  BY <1>1, <2>1
<1>10. F[1] = flat(n) \o <<>>
  <2>1. n <= n
    BY <1>1
  <2>. HIDE DEF flat
  <2>. QED  BY <1>4, <1>9, <2>1 DEF e
<1>11. flat(n) = FlattenSeq(p) /\ flat(n) \in Seq(Byte)
  <2>1. n <= n
    BY <1>1
  <2>2. flat(n) = FlattenSeq(p)
    BY <1>p
  <2>. HIDE DEF flat
  <2>. QED  BY <1>1, <1>f, <2>1, <2>2
<1>. HIDE DEF flat
<1>12. flat(n) \o <<>> = flat(n)
  BY <1>11
<1>. QED  BY <1>3, <1>10, <1>11, <1>12

-----------------------------------------------------------------------------
(* Messages.                                                               *)

Symbol == Byte \cup {"head", "end"}

\* What a peer sends.
Sending ==
    [framing : {"length", "chunked", "none"}, type : Type \cup {"json"}, payload : Seq(Byte),
     stream : Seq(Symbol), cut : Nat]

LEMMA StreamOf ==
    ASSUME NEW b, b \in Seq(Byte)
    PROVE  /\ Stream(b) \in Seq(Symbol) /\ Len(Stream(b)) = Len(b) + 2
           /\ \A k \in 1..Len(b) : Stream(b)[k + 2] = b[k]
<1>. DEFINE h == <<"head", "end">>
            s == h \o b
<1>1. h \in Seq(Symbol) /\ Len(h) = 2
  BY DEF Symbol
<1>2. b \in Seq(Symbol) /\ Len(b) \in Nat
  <2>1. ASSUME NEW S, NEW R, S \subseteq R, b \in Seq(S) PROVE b \in Seq(R)
    BY <2>1
  <2>. QED  BY <2>1 DEF Symbol
<1>. HIDE DEF h
<1>3. s \in Seq(Symbol) /\ Joins(s, h, b)
  BY <1>1, <1>2, Joined
<1>4. Stream(b) = s
  BY DEF Stream, h
<1>. HIDE DEF s
<1>5. Len(s) = 2 + Len(b) /\ \A k \in 1..Len(b) : s[2 + k] = b[k]
  BY <1>1, <1>3 DEF Joins
<1>6. \A k \in 1..Len(b) : 2 + k = k + 2
  OBVIOUS
<1>. QED  BY <1>2, <1>3, <1>4, <1>5, <1>6

\* What has come of the body when n symbols of the stream have.
LEMMA BodyBegins ==
    ASSUME NEW b, b \in Seq(Byte), NEW m, m.stream = Stream(b), NEW n, n \in 2..Len(b) + 2
    PROVE  /\ Raw(m, n) \in Seq(Symbol) /\ Begins(Body(Raw(m, n)), b, n - 2)
           /\ n = Len(b) + 2 => Raw(m, n) = Stream(b) /\ Body(Raw(m, n)) = b
<1>. DEFINE s == Stream(b)
            r == SubSeq(s, 1, n)
            a == SubSeq(r, 3, Len(r))
<1>1. /\ s \in Seq(Symbol) /\ Len(b) \in Nat /\ Len(s) = Len(b) + 2
      /\ \A k \in 1..Len(b) : s[k + 2] = b[k]
  BY StreamOf
<1>. HIDE DEF s
<1>2. r \in Seq(Symbol) /\ Len(r) = n /\ \A k \in 1..n : r[k] = s[k]
  BY <1>1
<1>3. n \in Nat /\ 2 <= n /\ n <= Len(b) + 2
  BY <1>1
<1>4. n = Len(b) + 2 => r = s
  BY <1>1, <1>2, <1>3
<1>. HIDE DEF r
<1>5. a \in Seq(Symbol) /\ Len(a) = n - 2 /\ \A k \in 1..n - 2 : a[k] = r[k + 2]
  <2>1. 3 \in Nat \ {0} /\ Len(r) \in Nat /\ n - 3 + 1 = n - 2
    BY <1>2, <1>3
  <2>2. a \in Seq(Symbol) /\ Len(a) = n - 2
    BY <1>2, <1>3, <2>1
  <2>3. ASSUME NEW k \in 1..n - 2 PROVE a[k] = r[k + 2]
    <3>1. a[k] = r[3 + k - 1]
      BY <1>2, <1>3, <2>2
    <3>2. 3 + k - 1 = k + 2
      OBVIOUS
    <3>. QED  BY <3>1, <3>2
  <2>. QED  BY <2>2, <2>3
<1>. HIDE DEF a
<1>6. ASSUME NEW k \in 1..n - 2 PROVE a[k] = b[k] /\ k \in 1..Len(b)
  <2>1. k \in 1..Len(b) /\ k + 2 \in 1..n
    BY <1>1, <1>3
  <2>. QED  BY <1>1, <1>2, <1>5, <2>1
<1>7. a \in Seq(Byte)
  <2>1. \A k \in 1..Len(a) : a[k] \in Byte
    BY <1>5, <1>6
  <2>2. ASSUME NEW S, NEW R, a \in Seq(S), \A k \in 1..Len(a) : a[k] \in R PROVE a \in Seq(R)
    BY <2>2
  <2>. QED  BY <1>5, <2>1, <2>2
<1>8. Begins(a, b, n - 2)
  <2>1. n - 2 \in 0..Len(b)
    BY <1>1, <1>3
  <2>. QED  BY <1>1, <1>5, <1>6, <1>7, <2>1 DEF Begins
<1>9. n = Len(b) + 2 => a = b
  <2>. SUFFICES ASSUME n = Len(b) + 2 PROVE a = b
    OBVIOUS
  <2>1. Len(a) = Len(b) /\ n - 2 = Len(b)
    BY <1>1, <1>5
  <2>. QED  BY <1>6, <1>7, <2>1
<1>10. Raw(m, n) = r /\ Body(Raw(m, n)) = a
  BY DEF Raw, Body, From, r, a, s
<1>. QED  BY <1>2, <1>4, <1>8, <1>9, <1>10 DEF s

\* A message with this body in its stream.
IsMessage(m, side, body) ==
    /\ m \in Sending /\ body \in Seq(Byte)
    /\ m.stream = Stream(body) /\ m.cut <= Len(m.stream)
    /\ m.framing = "chunked" =>
          \E p, x : ChunksOK(p) /\ x \in Trailers /\ body = Encoded(p, x) /\ m.payload = FlattenSeq(p)
    /\ m.framing # "chunked" => m.payload = body
    /\ m.framing = "none" /\ side = "request" => body = <<>>

LEMMA PayloadOK ==
    ASSUME NEW c \in Connection, NEW p \in Payload[c]
    PROVE  ChunksOK(p) /\ FlattenSeq(p) \in Seq(Byte)
<1>1. p \in Seq(Seq(Byte)) /\ \A k \in DOMAIN p : Len(p[k]) \in 1..MaxChunk
  BY PayloadAssumption
<1>2. Len(p) \in Nat /\ DOMAIN p = 1..Len(p) /\ p \in [1..Len(p) -> Seq(Byte)]
  BY <1>1
<1>3. ChunksOK(p)
  BY <1>1, <1>2 DEF ChunksOK
<1>4. FlattenSeq(p) \in Seq(Byte)
  BY <1>2, FlatType
<1>. QED  BY <1>3, <1>4

LEMMA WholeIs ==
    ASSUME NEW f, f \in {"length", "chunked", "none"}, NEW t, t \in Type \cup {"json"},
           NEW p, FlattenSeq(p) \in Seq(Byte), NEW body, body \in Seq(Byte)
    PROVE  LET m == WholeMessage(f, t, p, body) IN
           /\ m \in Sending /\ m.framing = f /\ m.payload = FlattenSeq(p)
           /\ m.stream = Stream(body) /\ m.cut = Len(m.stream)
<1>1. Stream(body) \in Seq(Symbol) /\ Len(Stream(body)) = Len(body) + 2 /\ Len(body) \in Nat
  BY StreamOf
<1>. QED  BY <1>1 DEF WholeMessage, Sending

LEMMA MessagesAre ==
    ASSUME NEW c \in Connection, NEW side \in Side, NEW f \in Framing[c], NEW m \in Messages(c, side, f)
    PROVE  m.framing = f /\ \E body : IsMessage(m, side, body)
<1>1. f \in {"length", "chunked", "none"}
  BY FramingAssumption
<1>2. CASE f = "length"
  <2>1. Messages(c, side, f) = {WholeMessage(f, t, p, FlattenSeq(p)) : t \in Type, p \in Payload[c]}
    BY <1>2 DEF Messages
  <2>2. PICK t \in Type, p \in Payload[c] : m = WholeMessage(f, t, p, FlattenSeq(p))
    BY <2>1
  <2>3. FlattenSeq(p) \in Seq(Byte)
    BY PayloadOK
  <2>4. /\ m \in Sending /\ m.framing = f /\ m.payload = FlattenSeq(p)
        /\ m.stream = Stream(FlattenSeq(p)) /\ m.cut = Len(m.stream)
    BY <1>1, <2>2, <2>3, WholeIs
  <2>5. m.cut <= Len(m.stream)
    BY <2>4 DEF Sending
  <2>6. IsMessage(m, side, FlattenSeq(p))
    BY <1>2, <2>3, <2>4, <2>5 DEF IsMessage
  <2>. QED  BY <2>4, <2>6
<1>3. CASE f = "chunked"
  <2>1. Messages(c, side, f) =
            {WholeMessage(f, "json", p, Encoded(p, x)) : p \in Payload[c], x \in Trailers}
    BY <1>3 DEF Messages
  <2>2. PICK p \in Payload[c], x \in Trailers : m = WholeMessage(f, "json", p, Encoded(p, x))
    BY <2>1
  <2>3. FlattenSeq(p) \in Seq(Byte) /\ ChunksOK(p)
    BY PayloadOK
  <2>4. Encoded(p, x) \in Seq(Byte)
    <3>1. x \in Seq(Byte)
      BY TrailersAssumption
    <3>. QED  BY <2>3, <3>1, EncodedOK
  <2>5. /\ m \in Sending /\ m.framing = f /\ m.payload = FlattenSeq(p)
        /\ m.stream = Stream(Encoded(p, x)) /\ m.cut = Len(m.stream)
    BY <1>1, <2>2, <2>3, <2>4, WholeIs
  <2>6. m.cut <= Len(m.stream)
    BY <2>5 DEF Sending
  <2>7. IsMessage(m, side, Encoded(p, x))
    BY <1>3, <2>3, <2>4, <2>5, <2>6 DEF IsMessage
  <2>. QED  BY <2>5, <2>7
<1>4. CASE f = "none"
  <2>. DEFINE P == IF side = "request" THEN {<<>>} ELSE Payload[c]
  <2>1. Messages(c, side, f) = {WholeMessage(f, "json", p, FlattenSeq(p)) : p \in P}
    BY <1>4 DEF Messages
  <2>2. PICK p \in P : m = WholeMessage(f, "json", p, FlattenSeq(p))
    BY <2>1
  <2>3. FlattenSeq(p) \in Seq(Byte) /\ (side = "request" => FlattenSeq(p) = <<>>)
    <3>1. CASE side = "request"
      <4>1. FlattenSeq(p) = <<>>
        BY <3>1, FlatEmpty
      <4>2. \A e : e = <<>> => e \in Seq(Byte)
        OBVIOUS
      <4>. QED  BY <4>1, <4>2
    <3>2. CASE side # "request"
      BY <3>2, PayloadOK
    <3>. QED  BY <3>1, <3>2
  <2>4. /\ m \in Sending /\ m.framing = f /\ m.payload = FlattenSeq(p)
        /\ m.stream = Stream(FlattenSeq(p)) /\ m.cut = Len(m.stream)
    BY <1>1, <2>2, <2>3, WholeIs
  <2>5. m.cut <= Len(m.stream)
    BY <2>4 DEF Sending
  <2>6. IsMessage(m, side, FlattenSeq(p))
    BY <1>4, <2>3, <2>4, <2>5 DEF IsMessage
  <2>. QED  BY <2>4, <2>6
<1>. QED  BY <1>1, <1>2, <1>3, <1>4

LEMMA SendableIs ==
    ASSUME NEW c \in Connection, NEW side \in Side, NEW m \in Sendable(c, side)
    PROVE  \E body : IsMessage(m, side, body)
<1>. DEFINE M == UNION {Messages(c, side, f) : f \in Framing[c]}
<1>1. ASSUME NEW k \in M PROVE \E body : IsMessage(k, side, body)
  BY MessagesAre
<1>2. \/ m \in M
      \/ m \in UNION {{[k EXCEPT !.cut = n] : n \in 0..k.cut} : k \in {k \in M : k.framing # "none"}}
  <2>1. Sendable(c, side) =
            M \cup IF c \in Breaking
                   THEN UNION {{[k EXCEPT !.cut = n] : n \in 0..k.cut} : k \in {k \in M : k.framing # "none"}}
                   ELSE {}
    BY DEF Sendable
  <2>. HIDE DEF M
  <2>. QED  BY <2>1
<1>. HIDE DEF M
<1>3. ASSUME NEW k \in M, NEW n \in 0..k.cut, m = [k EXCEPT !.cut = n]
      PROVE  \E body : IsMessage(m, side, body)
  <2>1. PICK body : IsMessage(k, side, body)
    BY <1>1
  <2>2. k \in Sending /\ k.cut \in Nat /\ k.cut <= Len(k.stream) /\ Len(k.stream) \in Nat
    BY <2>1 DEF IsMessage, Sending
  <2>3. /\ m \in Sending /\ m.stream = k.stream /\ m.framing = k.framing /\ m.payload = k.payload
        /\ m.cut = n
    BY <1>3, <2>2 DEF Sending
  <2>4. m.cut <= Len(m.stream)
    BY <2>2, <2>3
  <2>5. IsMessage(m, side, body)
    BY <2>1, <2>3, <2>4 DEF IsMessage
  <2>. QED  BY <2>5
<1>. QED  BY <1>1, <1>2, <1>3

\* What a thread keeps of a message.
Taking ==
    [raw : Seq(Symbol), type : Type \cup {"json"}, sent : Sending, body : Seq(Byte)]

\* A message can be read: the thread stops at its end and has all of it then.
Readable(m, side) ==
    /\ m \in Sending /\ m.cut <= Len(m.stream) /\ Len(m.stream) \in Nat /\ Len(m.stream) >= 2
    /\ \A n \in 1..Len(m.stream) :
          MessageEnds(m, side, n) <=> n = Len(m.stream) /\ ~(m.framing = "none" /\ side = "response")
    /\ \A n \in 2..Len(m.stream) :
          m.framing # "chunked" \/ n = Len(m.stream) => Taken(m, n) \in Taking
    /\ Taken(m, Len(m.stream)).raw = m.stream /\ Taken(m, Len(m.stream)).body = m.payload

LEMMA IsReadable ==
    ASSUME NEW m, NEW side, side \in Side, NEW body, IsMessage(m, side, body)
    PROVE  Readable(m, side)
<1>. DEFINE l == Len(m.stream)
<1>1. /\ m \in Sending /\ body \in Seq(Byte) /\ m.stream = Stream(body) /\ m.cut <= l
      /\ m.framing \in {"length", "chunked", "none"} /\ m.payload \in Seq(Byte)
      /\ m.type \in Type \cup {"json"}
  BY DEF IsMessage, Sending
<1>2. l = Len(body) + 2 /\ Len(body) \in Nat /\ l \in Nat /\ l >= 2
  BY <1>1, StreamOf
<1>. HIDE DEF l
<1>3. ASSUME NEW n, n \in 2..l
      PROVE  /\ Raw(m, n) \in Seq(Symbol) /\ Begins(Body(Raw(m, n)), body, n - 2)
             /\ n = l => Raw(m, n) = m.stream /\ Body(Raw(m, n)) = body
  <2>1. n \in 2..Len(body) + 2
    BY <1>2, <1>3
  <2>. QED  BY <1>1, <1>2, <2>1, BodyBegins
<1>4. l \in 2..l /\ l \in 1..l
  BY <1>2
<1>c. ASSUME m.framing = "chunked"
      PROVE  /\ \A n \in 2..l : ChunkedComplete(Body(Raw(m, n))) <=> n = l
             /\ Decode(body) = m.payload
  <2>1. PICK p, x : ChunksOK(p) /\ x \in Trailers /\ body = Encoded(p, x) /\ m.payload = FlattenSeq(p)
    BY <1>c DEF IsMessage
  <2>2. x \in Seq(Byte)
    BY <2>1, TrailersAssumption
  <2>3. PICK from : Encodes(body, from, p, x)
    BY <2>1, <2>2, EncodedOK
  <2>4. ASSUME NEW n \in 2..l PROVE ChunkedComplete(Body(Raw(m, n))) <=> n = l
    <3>1. Begins(Body(Raw(m, n)), body, n - 2)
      BY <1>3
    <3>2. ChunkedComplete(Body(Raw(m, n))) <=> n - 2 = Len(body)
      BY <2>1, <2>3, <3>1, CompleteRead
    <3>3. n - 2 = Len(body) <=> n = l
      BY <1>2
    <3>. QED  BY <3>2, <3>3
  <2>5. Decode(body) = m.payload
    BY <2>1, <2>3, DecodeWhole
  <2>. QED  BY <2>4, <2>5
<1>5. ASSUME NEW n \in 1..l
      PROVE  MessageEnds(m, side, n) <=> n = l /\ ~(m.framing = "none" /\ side = "response")
  <2>1. CASE n = 1
    BY <1>2, <2>1 DEF MessageEnds
  <2>2. CASE n # 1
    <3>1. n \in 2..l /\ n >= 2
      BY <1>2, <2>2
    <3>2. CASE m.framing = "chunked"
      BY <1>c, <3>1, <3>2 DEF MessageEnds
    <3>3. CASE m.framing = "length"
      <4>1. MessageEnds(m, side, n) <=> Len(Body(Raw(m, n))) >= Len(m.payload)
        BY <3>1, <3>3 DEF MessageEnds
      <4>2. Len(Body(Raw(m, n))) = n - 2 /\ m.payload = body
        BY <1>3, <3>1, <3>3 DEF Begins, IsMessage
      <4>3. n - 2 >= Len(body) <=> n = l
        BY <1>2
      <4>. QED  BY <3>3, <4>1, <4>2, <4>3
    <3>4. CASE m.framing = "none"
      <4>1. MessageEnds(m, side, n) <=> side = "request"
        BY <3>1, <3>4 DEF MessageEnds
      <4>2. side = "request" => n = l
        <5>1. side = "request" => body = <<>>
          BY <3>4 DEF IsMessage
        <5>2. side = "request" => Len(body) = 0
          BY <5>1
        <5>. QED  BY <1>2, <3>1, <5>2
      <4>. QED  BY <3>4, <4>1, <4>2 DEF Side
    <3>. QED  BY <1>1, <3>2, <3>3, <3>4
  <2>. QED  BY <2>1, <2>2
<1>6. ASSUME NEW n \in 2..l, m.framing # "chunked" \/ n = l PROVE Taken(m, n) \in Taking
  <2>1. Raw(m, n) \in Seq(Symbol) /\ Body(Raw(m, n)) \in Seq(Byte)
    BY <1>3 DEF Begins
  <2>2. CASE m.framing = "chunked"
    <3>1. Decode(Body(Raw(m, n))) \in Seq(Byte)
      BY <1>1, <1>3, <1>6, <1>c, <2>2
    <3>. QED  BY <1>1, <2>1, <2>2, <3>1 DEF Taken, Taking
  <2>3. CASE m.framing # "chunked"
    BY <1>1, <2>1, <2>3 DEF Taken, Taking
  <2>. QED  BY <2>2, <2>3
<1>7. Taken(m, l).raw = m.stream /\ Taken(m, l).body = m.payload
  <2>1. Raw(m, l) = m.stream /\ Body(Raw(m, l)) = body
    BY <1>3, <1>4
  <2>2. CASE m.framing = "chunked"
    BY <1>c, <2>1, <2>2 DEF Taken
  <2>3. CASE m.framing # "chunked"
    <3>1. m.payload = body
      BY <2>3 DEF IsMessage
    <3>. QED  BY <2>1, <2>3, <3>1 DEF Taken
  <2>. QED  BY <2>2, <2>3
<1>. QED  BY <1>1, <1>2, <1>5, <1>6, <1>7 DEF Readable, l

LEMMA SendableReadable ==
    ASSUME NEW c \in Connection, NEW side \in Side, NEW m \in Sendable(c, side)
    PROVE  Readable(m, side)
BY SendableIs, IsReadable

-----------------------------------------------------------------------------
(* The threads and the evidence.                                           *)

ThreadStates ==
    {"idle", "request", "forward", "response", "answer", "evidence", "writing", "done", "failed"}
Exchange == [omitted : {"no", "too_large", "unsupported_content_type"}, body : Seq(Byte)]
HalfLine == Connection \X {"begin", "end"} \X [request : Exchange, response : Exchange]

ProxyTypeOK ==
    /\ thread \in [Connection -> ThreadStates] /\ message \in [Connection -> Sending]
    /\ got \in [Connection -> Nat] /\ exchange \in [Connection -> Seq(Taking)]
    /\ client \in [Connection -> Seq(Symbol)] /\ evidence \in Seq(HalfLine)

TakenWhole(x) == Whole(x.sent) => x.raw = x.sent.stream /\ x.body = x.sent.payload

\* A thread that reads has not come to the end, and what it has taken is whole.
ReadingOK(c) ==
    /\ thread[c] = "idle" => got[c] = 0
    /\ thread[c] \in Side =>
          /\ Readable(message[c], thread[c]) /\ got[c] <= message[c].cut
          /\ got[c] = Len(message[c].stream) => thread[c] = "response" /\ message[c].framing = "none"
    /\ thread[c] \in {"idle", "request"} => Len(exchange[c]) = 0
    /\ thread[c] \in {"forward", "response"} => Len(exchange[c]) = 1
    /\ thread[c] \in {"answer", "evidence", "writing", "done"} => Len(exchange[c]) = 2
    /\ \A i \in 1..Len(exchange[c]) : TakenWhole(exchange[c][i])

\* One thread writes, behind its first half; a thread that has written does not change its exchange.
EvidenceOK ==
    /\ \A i \in 1..Len(evidence) : \A c \in Connection : evidence[i][1] = c =>
          /\ thread[c] \in {"writing", "done"} /\ evidence[i][3] = Line(c)
          /\ evidence[i][2] = "end" => i > 1 /\ evidence[i - 1] = <<c, "begin", evidence[i][3]>>
    /\ \A c \in Connection : thread[c] = "writing" =>
          Len(evidence) > 0 /\ evidence[Len(evidence)] = <<c, "begin", Line(c)>>
    /\ \A c \in Connection : thread[c] = "done" => \E i \in 1..Len(evidence) : evidence[i][1] = c
    /\ \A c \in Connection :
          thread[c] \in {"evidence", "writing", "done"} => client[c] = exchange[c][2].raw

ProxyInv == ProxyTypeOK /\ (\A c \in Connection : ReadingOK(c)) /\ EvidenceOK

\* A connection that does not move.
LEMMA ReadingKept ==
    ASSUME NEW d, thread'[d] = thread[d], message'[d] = message[d], got'[d] = got[d],
           exchange'[d] = exchange[d], ReadingOK(d)
    PROVE  ReadingOK(d)'
BY DEF ReadingOK

\* A thread that does not write, before and after.
LEMMA EvidenceKept ==
    ASSUME ProxyTypeOK, EvidenceOK, NEW c \in Connection, evidence' = evidence,
           thread[c] \notin {"writing", "done"}, thread'[c] \notin {"writing", "done"},
           thread'[c] = "evidence" => client'[c] = exchange'[c][2].raw,
           \A d \in Connection \ {c} : /\ thread'[d] = thread[d] /\ exchange'[d] = exchange[d]
                                       /\ client'[d] = client[d]
    PROVE  EvidenceOK'
<1>1. \A d \in Connection \ {c} : Line(d)' = Line(d)
  BY DEF Line
<1>2. ASSUME NEW i \in 1..Len(evidence), NEW d \in Connection, evidence[i][1] = d
      PROVE  /\ thread'[d] \in {"writing", "done"} /\ evidence[i][3] = Line(d)'
             /\ evidence[i][2] = "end" => i > 1 /\ evidence[i - 1] = <<d, "begin", evidence[i][3]>>
  <2>1. /\ thread[d] \in {"writing", "done"} /\ evidence[i][3] = Line(d)
        /\ evidence[i][2] = "end" => i > 1 /\ evidence[i - 1] = <<d, "begin", evidence[i][3]>>
    BY <1>2 DEF EvidenceOK
  <2>2. d \in Connection \ {c}
    BY <2>1
  <2>3. thread'[d] = thread[d] /\ Line(d)' = Line(d)
    BY <1>1, <2>2
  <2>. QED  BY <2>1, <2>3
<1>3. ASSUME NEW d \in Connection, thread'[d] = "writing"
      PROVE  Len(evidence) > 0 /\ evidence[Len(evidence)] = <<d, "begin", Line(d)'>>
  <2>1. d \in Connection \ {c} /\ thread[d] = "writing"
    BY <1>3
  <2>. QED  BY <1>1, <2>1 DEF EvidenceOK
<1>4. ASSUME NEW d \in Connection, thread'[d] = "done" PROVE \E i \in 1..Len(evidence) : evidence[i][1] = d
  <2>1. d \in Connection \ {c} /\ thread[d] = "done"
    BY <1>4
  <2>. QED  BY <2>1 DEF EvidenceOK
<1>5. ASSUME NEW d \in Connection, thread'[d] \in {"evidence", "writing", "done"}
      PROVE  client'[d] = exchange'[d][2].raw
  <2>1. CASE d = c
    BY <1>5, <2>1
  <2>2. CASE d # c
    BY <1>5, <2>2 DEF EvidenceOK
  <2>. QED  BY <2>1, <2>2
<1>. QED  BY <1>2, <1>3, <1>4, <1>5 DEF EvidenceOK

LEMMA ProxyStart == ProxyInit => ProxyInv
<1>. SUFFICES ASSUME ProxyInit PROVE ProxyInv
  OBVIOUS
<1>e. \A S : <<>> \in Seq(S)
  OBVIOUS
<1>1. FlattenSeq(<<>>) \in Seq(Byte) /\ <<>> \in Seq(Byte)
  BY <1>e, FlatEmpty
<1>2. WholeMessage("none", "json", <<>>, <<>>) \in Sending
  BY <1>1, WholeIs
<1>3. ProxyTypeOK
  <2>1. thread \in [Connection -> ThreadStates]
    BY DEF ProxyInit, ThreadStates
  <2>2. message \in [Connection -> Sending]
    BY <1>2 DEF ProxyInit
  <2>3. got \in [Connection -> Nat]
    BY DEF ProxyInit
  <2>4. exchange \in [Connection -> Seq(Taking)]
    BY <1>e DEF ProxyInit
  <2>5. client \in [Connection -> Seq(Symbol)]
    BY <1>e DEF ProxyInit
  <2>6. evidence \in Seq(HalfLine)
    BY <1>e DEF ProxyInit
  <2>. QED  BY <2>1, <2>2, <2>3, <2>4, <2>5, <2>6 DEF ProxyTypeOK
<1>4. ASSUME NEW c \in Connection PROVE ReadingOK(c)
  <2>1. thread[c] = "idle" /\ got[c] = 0 /\ exchange[c] = <<>>
    BY DEF ProxyInit
  <2>2. Len(exchange[c]) = 0 /\ ~(\E i : i \in 1..Len(exchange[c]))
    BY <2>1
  <2>. QED  BY <2>1, <2>2 DEF ReadingOK, Side
<1>5. EvidenceOK
  <2>1. ~(\E i : i \in 1..Len(evidence))
    BY DEF ProxyInit
  <2>2. \A c \in Connection : thread[c] = "idle"
    BY DEF ProxyInit
  <2>. QED  BY <2>1, <2>2 DEF EvidenceOK
<1>. QED  BY <1>3, <1>4, <1>5 DEF ProxyInv

\* Whichever connection it is that moves.
LEMMA OthersRead ==
    ASSUME ProxyInv, NEW c \in Connection, ReadingOK(c)',
           \A d \in Connection \ {c} :
              /\ thread'[d] = thread[d] /\ message'[d] = message[d] /\ got'[d] = got[d]
              /\ exchange'[d] = exchange[d]
    PROVE  (\A d \in Connection : ReadingOK(d))'
<1>. SUFFICES ASSUME NEW d \in Connection PROVE ReadingOK(d)'
  OBVIOUS
<1>1. CASE d = c
  BY <1>1
<1>2. CASE d # c
  BY <1>2, ReadingKept DEF ProxyInv
<1>. QED  BY <1>1, <1>2

LEMMA AcceptInv ==
    ASSUME ProxyInv, NEW c \in Connection, Accept(c)
    PROVE  ProxyInv'
<1>1. PICK m \in Sendable(c, "request") : message' = [message EXCEPT ![c] = m]
  BY DEF Accept
<1>2. Readable(m, "request")
  BY <1>1, SendableReadable DEF Side
<1>3. /\ thread[c] = "idle" /\ thread' = [thread EXCEPT ![c] = "request"]
      /\ UNCHANGED <<got, exchange, client, evidence>>
  BY DEF Accept, Go
<1>4. ProxyTypeOK'
  <2>1. m \in Sending
    BY <1>2 DEF Readable
  <2>. QED  BY <1>1, <1>3, <2>1 DEF ProxyInv, ProxyTypeOK, ThreadStates
<1>5. thread'[c] = "request" /\ message'[c] = m /\ got[c] = 0 /\ ReadingOK(c)
  BY <1>1, <1>3 DEF ProxyInv, ProxyTypeOK, ReadingOK
<1>6. ReadingOK(c)'
  <2>1. /\ 0 <= m.cut /\ 0 # Len(m.stream)
    BY <1>2 DEF Readable, Sending
  <2>2. Len(exchange[c]) = 0 /\ \A i \in 1..Len(exchange[c]) : TakenWhole(exchange[c][i])
    BY <1>3, <1>5 DEF ReadingOK
  <2>3. exchange' = exchange /\ got' = got
    BY <1>3
  <2>. QED  BY <1>2, <1>5, <2>1, <2>2, <2>3 DEF ReadingOK
<1>7. \A d \in Connection \ {c} :
         /\ thread'[d] = thread[d] /\ message'[d] = message[d] /\ got'[d] = got[d]
         /\ exchange'[d] = exchange[d] /\ client'[d] = client[d]
  BY <1>1, <1>3 DEF ProxyInv, ProxyTypeOK
<1>8. EvidenceOK'
  BY <1>3, <1>5, <1>7, EvidenceKept DEF ProxyInv
<1>9. (\A d \in Connection : ReadingOK(d))'
  BY <1>6, <1>7, OthersRead
<1>. QED  BY <1>4, <1>8, <1>9 DEF ProxyInv

LEMMA ForwardInv ==
    ASSUME ProxyInv, NEW c \in Connection, Forward(c)
    PROVE  ProxyInv'
<1>1. PICK m \in Sendable(c, "response") : message' = [message EXCEPT ![c] = m]
  BY DEF Forward
<1>2. Readable(m, "response")
  BY <1>1, SendableReadable DEF Side
<1>3. /\ thread[c] = "forward" /\ thread' = [thread EXCEPT ![c] = "response"]
      /\ got' = [got EXCEPT ![c] = 0] /\ UNCHANGED <<exchange, client, evidence>>
  BY DEF Forward, Go
<1>4. ProxyTypeOK'
  <2>1. m \in Sending
    BY <1>2 DEF Readable
  <2>. QED  BY <1>1, <1>3, <2>1 DEF ProxyInv, ProxyTypeOK, ThreadStates
<1>5. thread'[c] = "response" /\ message'[c] = m /\ got'[c] = 0 /\ ReadingOK(c)
  BY <1>1, <1>3 DEF ProxyInv, ProxyTypeOK
<1>6. ReadingOK(c)'
  <2>1. /\ 0 <= m.cut /\ 0 # Len(m.stream)
    BY <1>2 DEF Readable, Sending
  <2>2. Len(exchange[c]) = 1 /\ \A i \in 1..Len(exchange[c]) : TakenWhole(exchange[c][i])
    BY <1>3, <1>5 DEF ReadingOK
  <2>3. exchange' = exchange
    BY <1>3
  <2>. QED  BY <1>2, <1>5, <2>1, <2>2, <2>3 DEF ReadingOK
<1>7. \A d \in Connection \ {c} :
         /\ thread'[d] = thread[d] /\ message'[d] = message[d] /\ got'[d] = got[d]
         /\ exchange'[d] = exchange[d] /\ client'[d] = client[d]
  BY <1>1, <1>3 DEF ProxyInv, ProxyTypeOK
<1>8. EvidenceOK'
  BY <1>3, <1>5, <1>7, EvidenceKept DEF ProxyInv
<1>9. (\A d \in Connection : ReadingOK(d))'
  BY <1>6, <1>7, OthersRead
<1>. QED  BY <1>4, <1>8, <1>9 DEF ProxyInv

LEMMA SendBackInv ==
    ASSUME ProxyInv, NEW c \in Connection, SendBack(c)
    PROVE  ProxyInv'
<1>3. /\ thread[c] = "answer" /\ thread' = [thread EXCEPT ![c] = "evidence"]
      /\ client' = [client EXCEPT ![c] = exchange[c][2].raw]
      /\ UNCHANGED <<message, got, exchange, evidence>>
  BY DEF SendBack, Go
<1>5. thread'[c] = "evidence" /\ ReadingOK(c) /\ client'[c] = exchange[c][2].raw
  BY <1>3 DEF ProxyInv, ProxyTypeOK
<1>4. ProxyTypeOK'
  <2>1. exchange[c] \in Seq(Taking) /\ Len(exchange[c]) = 2
    BY <1>3, <1>5 DEF ProxyInv, ProxyTypeOK, ReadingOK
  <2>2. exchange[c][2] \in Taking
    BY <2>1
  <2>3. exchange[c][2].raw \in Seq(Symbol)
    BY <2>2 DEF Taking
  <2>. QED  BY <1>3, <2>3 DEF ProxyInv, ProxyTypeOK, ThreadStates
<1>6. ReadingOK(c)'
  <2>2. Len(exchange[c]) = 2 /\ \A i \in 1..Len(exchange[c]) : TakenWhole(exchange[c][i])
    BY <1>3, <1>5 DEF ReadingOK
  <2>3. exchange' = exchange
    BY <1>3
  <2>. QED  BY <1>5, <2>2, <2>3 DEF ReadingOK, Side
<1>7. \A d \in Connection \ {c} :
         /\ thread'[d] = thread[d] /\ message'[d] = message[d] /\ got'[d] = got[d]
         /\ exchange'[d] = exchange[d] /\ client'[d] = client[d]
  BY <1>3 DEF ProxyInv, ProxyTypeOK
<1>8. EvidenceOK'
  <2>1. client'[c] = exchange'[c][2].raw
    BY <1>3, <1>5
  <2>. QED  BY <1>3, <1>5, <1>7, <2>1, EvidenceKept DEF ProxyInv
<1>9. (\A d \in Connection : ReadingOK(d))'
  BY <1>6, <1>7, OthersRead
<1>. QED  BY <1>4, <1>8, <1>9 DEF ProxyInv

LEMMA FailInv ==
    ASSUME ProxyInv, NEW c \in Connection, Fail(c)
    PROVE  ProxyInv'
<1>3. /\ thread[c] \in {"forward", "answer"} /\ thread' = [thread EXCEPT ![c] = "failed"]
      /\ UNCHANGED <<message, got, exchange, client, evidence>>
  BY DEF Fail, Go
<1>5. thread'[c] = "failed" /\ ReadingOK(c)
  BY <1>3 DEF ProxyInv, ProxyTypeOK
<1>4. ProxyTypeOK'
  BY <1>3 DEF ProxyInv, ProxyTypeOK, ThreadStates
<1>6. ReadingOK(c)'
  <2>2. \A i \in 1..Len(exchange[c]) : TakenWhole(exchange[c][i])
    BY <1>5 DEF ReadingOK
  <2>3. exchange' = exchange
    BY <1>3
  <2>. QED  BY <1>5, <2>2, <2>3 DEF ReadingOK, Side
<1>7. \A d \in Connection \ {c} :
         /\ thread'[d] = thread[d] /\ message'[d] = message[d] /\ got'[d] = got[d]
         /\ exchange'[d] = exchange[d] /\ client'[d] = client[d]
  BY <1>3 DEF ProxyInv, ProxyTypeOK
<1>8. EvidenceOK'
  BY <1>3, <1>5, <1>7, EvidenceKept DEF ProxyInv
<1>9. (\A d \in Connection : ReadingOK(d))'
  BY <1>6, <1>7, OthersRead
<1>. QED  BY <1>4, <1>8, <1>9 DEF ProxyInv

LEMMA ReceivedInv ==
    ASSUME ProxyInv, NEW c \in Connection, NEW side, side \in Side, thread[c] = side, NEW n, n \in Nat,
           Taken(message[c], n) \in Taking, TakenWhole(Taken(message[c], n)),
           Received(c, side, n), got' = [got EXCEPT ![c] = n],
           message' = message, client' = client, evidence' = evidence
    PROVE  ProxyInv'
<1>. DEFINE x == Taken(message[c], n)
            s == exchange[c]
<1>1. /\ exchange' = [exchange EXCEPT ![c] = Append(s, x)]
      /\ thread' = [thread EXCEPT ![c] = After(side)]
  BY DEF Received, Go
<1>2. x \in Taking /\ TakenWhole(x) /\ s \in Seq(Taking)
  BY DEF ProxyInv, ProxyTypeOK
<1>. HIDE DEF x
<1>3. After(side) \in {"forward", "answer"} /\ (side = "request" <=> After(side) = "forward")
  BY DEF Side, After
<1>4. ProxyTypeOK'
  <2>1. Append(s, x) \in Seq(Taking)
    BY <1>2
  <2>. HIDE DEF s
  <2>. QED  BY <1>1, <1>3, <2>1 DEF ProxyInv, ProxyTypeOK, ThreadStates
<1>5. /\ thread'[c] = After(side) /\ exchange'[c] = Append(s, x) /\ ReadingOK(c)
  BY <1>1 DEF ProxyInv, ProxyTypeOK
<1>6. ReadingOK(c)'
  <2>1. Len(s) = IF side = "request" THEN 0 ELSE 1
    BY <1>5 DEF ReadingOK, Side
  <2>2. \A i \in 1..Len(s) : TakenWhole(s[i])
    BY <1>5 DEF ReadingOK
  <2>. DEFINE t == Append(s, x)
  <2>. HIDE DEF s
  <2>3. Len(t) = Len(s) + 1 /\ t[Len(s) + 1] = x /\ \A i \in 1..Len(s) : t[i] = s[i]
    BY <1>2
  <2>. HIDE DEF t
  <2>4. ASSUME NEW i \in 1..Len(t) PROVE TakenWhole(t[i])
    <3>1. i \in 1..Len(s) \/ i = Len(s) + 1
      BY <1>2, <2>3
    <3>2. CASE i \in 1..Len(s)
      BY <2>2, <2>3, <3>2
    <3>3. CASE i = Len(s) + 1
      BY <1>2, <2>3, <3>3
    <3>. QED  BY <3>1, <3>2, <3>3
  <2>5. /\ thread'[c] = "forward" => Len(t) = 1
        /\ thread'[c] = "answer" => Len(t) = 2
    BY <1>3, <1>5, <2>1, <2>3
  <2>6. exchange'[c] = t /\ thread'[c] \in {"forward", "answer"}
    BY <1>3, <1>5 DEF t
  <2>. QED  BY <2>4, <2>5, <2>6 DEF ReadingOK, Side
<1>7. \A d \in Connection \ {c} :
         /\ thread'[d] = thread[d] /\ message'[d] = message[d] /\ got'[d] = got[d]
         /\ exchange'[d] = exchange[d] /\ client'[d] = client[d]
  BY <1>1 DEF ProxyInv, ProxyTypeOK
<1>8. EvidenceOK'
  <2>1. /\ thread[c] \notin {"writing", "done"} /\ thread'[c] \notin {"writing", "done"}
        /\ thread'[c] # "evidence"
    BY <1>3, <1>5 DEF Side
  <2>. QED  BY <1>7, <2>1, EvidenceKept DEF ProxyInv
<1>9. (\A d \in Connection : ReadingOK(d))'
  BY <1>6, <1>7, OthersRead
<1>. QED  BY <1>4, <1>8, <1>9 DEF ProxyInv

LEMMA ReadInv ==
    ASSUME ProxyInv, NEW c \in Connection, NEW side, side \in Side,
           NEW n, n \in 1..Len(message[c].stream), Read(c, side, n)
    PROVE  ProxyInv'
<1>. DEFINE m == message[c]
<1>1. /\ thread[c] = side /\ n \in got[c] + 1..m.cut /\ got' = [got EXCEPT ![c] = n]
      /\ message' = message /\ client' = client /\ evidence' = evidence
      /\ IF MessageEnds(m, side, n) THEN Received(c, side, n) ELSE UNCHANGED <<thread, exchange>>
  BY DEF Read
<1>2. ReadingOK(c) /\ Readable(m, side)
  BY <1>1 DEF ProxyInv, ReadingOK
<1>3. n \in Nat /\ n <= m.cut
  <2>1. got[c] \in Nat /\ m.cut \in Nat
    BY <1>2 DEF ProxyInv, ProxyTypeOK, Readable, Sending
  <2>. QED  BY <1>1, <2>1
<1>4. MessageEnds(m, side, n) <=> n = Len(m.stream) /\ ~(m.framing = "none" /\ side = "response")
  BY <1>2 DEF Readable
<1>5. CASE MessageEnds(m, side, n)
  <2>1. n = Len(m.stream) /\ n \in 2..Len(m.stream)
    BY <1>2, <1>4, <1>5 DEF Readable
  <2>2. Taken(m, n) \in Taking
    BY <1>2, <2>1 DEF Readable
  <2>3. TakenWhole(Taken(m, n))
    <3>1. Taken(m, n).sent = m /\ Taken(m, n).raw = m.stream /\ Taken(m, n).body = m.payload
      BY <1>2, <2>1 DEF Readable, Taken
    <3>. QED  BY <3>1 DEF TakenWhole
  <2>. QED  BY <1>1, <1>3, <1>5, <2>2, <2>3, ReceivedInv
<1>6. CASE ~MessageEnds(m, side, n)
  <2>1. thread' = thread /\ exchange' = exchange
    BY <1>1, <1>6
  <2>2. ProxyTypeOK'
    BY <1>1, <1>3, <2>1 DEF ProxyInv, ProxyTypeOK
  <2>3. got'[c] = n
    BY <1>1 DEF ProxyInv, ProxyTypeOK
  <2>4. ReadingOK(c)'
    <3>1. /\ thread'[c] = side /\ message'[c] = m /\ exchange'[c] = exchange[c]
      BY <1>1, <2>1
    <3>2. n = Len(m.stream) => side = "response" /\ m.framing = "none"
      BY <1>4, <1>6
    <3>3. /\ side = "request" => Len(exchange[c]) = 0
          /\ side = "response" => Len(exchange[c]) = 1
          /\ \A i \in 1..Len(exchange[c]) : TakenWhole(exchange[c][i])
      BY <1>1, <1>2 DEF ReadingOK
    <3>. HIDE DEF m
    <3>. QED  BY <1>2, <1>3, <2>3, <3>1, <3>2, <3>3 DEF ReadingOK, Side
  <2>5. \A d \in Connection \ {c} :
           /\ thread'[d] = thread[d] /\ message'[d] = message[d] /\ got'[d] = got[d]
           /\ exchange'[d] = exchange[d] /\ client'[d] = client[d]
    BY <1>1, <2>1 DEF ProxyInv, ProxyTypeOK
  <2>6. EvidenceOK'
    <3>1. /\ thread[c] \notin {"writing", "done"} /\ thread'[c] \notin {"writing", "done"}
          /\ thread'[c] # "evidence"
      BY <1>1, <2>1 DEF Side
    <3>. QED  BY <1>1, <2>5, <3>1, EvidenceKept DEF ProxyInv
  <2>7. (\A d \in Connection : ReadingOK(d))'
    BY <2>4, <2>5, OthersRead
  <2>. QED  BY <2>2, <2>6, <2>7 DEF ProxyInv
<1>. QED  BY <1>5, <1>6

LEMMA EofInv ==
    ASSUME ProxyInv, NEW c \in Connection, NEW side, side \in Side, Eof(c, side)
    PROVE  ProxyInv'
<1>. DEFINE m == message[c]
            n == got[c]
<1>1. /\ thread[c] = side /\ n = m.cut
      /\ message' = message /\ got' = got /\ client' = client /\ evidence' = evidence
      /\ IF n >= 2 /\ m.framing # "chunked" THEN Received(c, side, n)
         ELSE Go(c, "failed") /\ UNCHANGED exchange
  BY DEF Eof
<1>2. ReadingOK(c) /\ Readable(m, side)
  BY <1>1 DEF ProxyInv, ReadingOK
<1>3. n \in Nat /\ n <= Len(m.stream) /\ got = [got EXCEPT ![c] = n]
  BY <1>1, <1>2 DEF ProxyInv, ProxyTypeOK, Readable, Sending
<1>4. CASE n >= 2 /\ m.framing # "chunked"
  <2>. HIDE DEF m, n
  <2>1. n \in 2..Len(m.stream)
    BY <1>2, <1>3, <1>4 DEF Readable
  <2>2. Taken(m, n) \in Taking
    BY <1>2, <1>4, <2>1 DEF Readable
  <2>3. TakenWhole(Taken(m, n))
    <3>1. Taken(m, n).sent = m
      BY DEF Taken
    <3>2. Whole(m) => n = Len(m.stream)
      BY <1>1 DEF Whole
    <3>3. Whole(m) => Taken(m, n).raw = m.stream /\ Taken(m, n).body = m.payload
      BY <1>2, <3>2 DEF Readable
    <3>. QED  BY <3>1, <3>3 DEF TakenWhole
  <2>4. Received(c, side, n) /\ got' = [got EXCEPT ![c] = n]
    BY <1>1, <1>3, <1>4
  <2>. QED  BY <1>1, <1>3, <2>2, <2>3, <2>4, ReceivedInv DEF m
<1>5. CASE ~(n >= 2 /\ m.framing # "chunked")
  <2>1. thread' = [thread EXCEPT ![c] = "failed"] /\ exchange' = exchange
    BY <1>1, <1>5 DEF Go
  <2>2. ProxyTypeOK'
    BY <1>1, <2>1 DEF ProxyInv, ProxyTypeOK, ThreadStates
  <2>3. thread'[c] = "failed"
    BY <2>1 DEF ProxyInv, ProxyTypeOK
  <2>4. ReadingOK(c)'
    <3>1. \A i \in 1..Len(exchange[c]) : TakenWhole(exchange[c][i])
      BY <1>2 DEF ReadingOK
    <3>. QED  BY <2>1, <2>3, <3>1 DEF ReadingOK, Side
  <2>5. \A d \in Connection \ {c} :
           /\ thread'[d] = thread[d] /\ message'[d] = message[d] /\ got'[d] = got[d]
           /\ exchange'[d] = exchange[d] /\ client'[d] = client[d]
    BY <1>1, <2>1 DEF ProxyInv, ProxyTypeOK
  <2>6. EvidenceOK'
    <3>1. thread[c] \notin {"writing", "done"}
      BY <1>1 DEF Side
    <3>. QED  BY <1>1, <2>3, <2>5, <3>1, EvidenceKept DEF ProxyInv
  <2>7. (\A d \in Connection : ReadingOK(d))'
    BY <2>4, <2>5, OthersRead
  <2>. QED  BY <2>2, <2>6, <2>7 DEF ProxyInv
<1>. QED  BY <1>4, <1>5

LEMMA LineType ==
    ASSUME ProxyInv, NEW c \in Connection, Len(exchange[c]) = 2
    PROVE  Line(c) \in [request : Exchange, response : Exchange]
<1>1. exchange[c][1] \in Taking /\ exchange[c][2] \in Taking
  <2>1. exchange[c] \in Seq(Taking) /\ 1 \in 1..Len(exchange[c]) /\ 2 \in 1..Len(exchange[c])
    BY DEF ProxyInv, ProxyTypeOK
  <2>. QED  BY <2>1
<1>2. ASSUME NEW x \in Taking PROVE BodyEvidence(x) \in Exchange
  <2>1. x.body \in Seq(Byte) /\ <<>> \in Seq(Byte)
    BY DEF Taking
  <2>. QED  BY <2>1 DEF BodyEvidence, Exchange
<1>3. BodyEvidence(exchange[c][1]) \in Exchange /\ BodyEvidence(exchange[c][2]) \in Exchange
  BY <1>1, <1>2
<1>. QED  BY <1>3 DEF Line

\* A half line behind the others.
LEMMA Written ==
    ASSUME ProxyInv, NEW c \in Connection, NEW half, half \in {"begin", "end"},
           Len(exchange[c]) = 2, evidence' = Append(evidence, <<c, half, Line(c)>>)
    PROVE  /\ evidence' \in Seq(HalfLine) /\ Len(evidence) \in Nat /\ Len(evidence') = Len(evidence) + 1
           /\ \A i \in 1..Len(evidence) : evidence'[i] = evidence[i]
           /\ evidence'[Len(evidence) + 1] = <<c, half, Line(c)>>
<1>. DEFINE h == <<c, half, Line(c)>>
<1>1. h \in HalfLine
  <2>1. Line(c) \in [request : Exchange, response : Exchange]
    BY LineType
  <2>. QED  BY <2>1 DEF HalfLine
<1>2. evidence \in Seq(HalfLine)
  BY DEF ProxyInv, ProxyTypeOK
<1>. HIDE DEF h
<1>3. /\ Append(evidence, h) \in Seq(HalfLine) /\ Len(evidence) \in Nat
      /\ Len(Append(evidence, h)) = Len(evidence) + 1
      /\ \A i \in 1..Len(evidence) : Append(evidence, h)[i] = evidence[i]
      /\ Append(evidence, h)[Len(evidence) + 1] = h
  BY <1>1, <1>2
<1>4. evidence' = Append(evidence, h)
  BY DEF h
<1>. QED  BY <1>3, <1>4 DEF h

LEMMA BeginLineInv ==
    ASSUME ProxyInv, NEW c \in Connection, BeginLine(c)
    PROVE  ProxyInv'
<1>1. /\ thread[c] = "evidence" /\ \A d \in Connection : thread[d] # "writing"
      /\ thread' = [thread EXCEPT ![c] = "writing"]
      /\ evidence' = Append(evidence, <<c, "begin", Line(c)>>)
      /\ message' = message /\ got' = got /\ exchange' = exchange /\ client' = client
  BY DEF BeginLine, Go
<1>2. ReadingOK(c) /\ Len(exchange[c]) = 2
  BY <1>1 DEF ProxyInv, ReadingOK
<1>. DEFINE n == Len(evidence)
<1>3. /\ evidence' \in Seq(HalfLine) /\ n \in Nat /\ Len(evidence') = n + 1
      /\ \A i \in 1..n : evidence'[i] = evidence[i]
      /\ evidence'[n + 1] = <<c, "begin", Line(c)>>
  BY <1>1, <1>2, Written
<1>4. ProxyTypeOK'
  BY <1>1, <1>3 DEF ProxyInv, ProxyTypeOK, ThreadStates
<1>5. thread'[c] = "writing" /\ \A d \in Connection \ {c} : thread'[d] = thread[d]
  BY <1>1 DEF ProxyInv, ProxyTypeOK
<1>6. ReadingOK(c)'
  BY <1>1, <1>2, <1>5 DEF ReadingOK, Side
<1>7. (\A d \in Connection : ReadingOK(d))'
  BY <1>1, <1>5, <1>6, OthersRead
<1>8. \A d \in Connection : Line(d)' = Line(d)
  BY <1>1 DEF Line
<1>9. EvidenceOK'
  <2>. HIDE DEF n
  <2>1. ASSUME NEW i \in 1..Len(evidence'), NEW d \in Connection, evidence'[i][1] = d
        PROVE  /\ thread'[d] \in {"writing", "done"} /\ evidence'[i][3] = Line(d)'
               /\ evidence'[i][2] = "end" =>
                     i > 1 /\ evidence'[i - 1] = <<d, "begin", evidence'[i][3]>>
    <3>1. CASE i = n + 1
      <4>1. evidence'[i] = <<c, "begin", Line(c)>> /\ d = c
        BY <1>3, <2>1, <3>1
      <4>2. Line(d)' = Line(c)
        BY <1>8, <4>1
      <4>. QED  BY <1>5, <4>1, <4>2
    <3>2. CASE i # n + 1
      <4>1. i \in 1..n /\ evidence'[i] = evidence[i] /\ (i > 1 => evidence'[i - 1] = evidence[i - 1])
        BY <1>3, <3>2
      <4>2. /\ thread[d] \in {"writing", "done"} /\ evidence[i][3] = Line(d)
            /\ evidence[i][2] = "end" => i > 1 /\ evidence[i - 1] = <<d, "begin", evidence[i][3]>>
        BY <2>1, <4>1 DEF ProxyInv, EvidenceOK, n
      <4>3. d # c
        BY <1>1, <4>2
      <4>4. thread'[d] = thread[d] /\ Line(d)' = Line(d)
        BY <1>5, <1>8, <4>3
      <4>. QED  BY <4>1, <4>2, <4>4
    <3>. QED  BY <3>1, <3>2
  <2>2. ASSUME NEW d \in Connection, thread'[d] = "writing"
        PROVE  Len(evidence') > 0 /\ evidence'[Len(evidence')] = <<d, "begin", Line(d)'>>
    <3>1. d = c
      BY <1>1, <1>5, <2>2
    <3>2. Line(d)' = Line(c)
      BY <1>8, <3>1
    <3>. QED  BY <1>3, <3>1, <3>2
  <2>3. ASSUME NEW d \in Connection, thread'[d] = "done"
        PROVE  \E i \in 1..Len(evidence') : evidence'[i][1] = d
    <3>1. d # c /\ thread[d] = "done"
      BY <1>5, <2>3
    <3>2. PICK i \in 1..n : evidence[i][1] = d
      BY <3>1 DEF ProxyInv, EvidenceOK, n
    <3>3. i \in 1..Len(evidence') /\ evidence'[i][1] = d
      BY <1>3, <3>2
    <3>. QED  BY <3>3
  <2>4. ASSUME NEW d \in Connection, thread'[d] \in {"evidence", "writing", "done"}
        PROVE  client'[d] = exchange'[d][2].raw
    <3>1. thread[d] \in {"evidence", "writing", "done"}
      BY <1>1, <1>5, <2>4
    <3>. QED  BY <1>1, <3>1 DEF ProxyInv, EvidenceOK
  <2>. QED  BY <2>1, <2>2, <2>3, <2>4 DEF EvidenceOK
<1>. QED  BY <1>4, <1>7, <1>9 DEF ProxyInv

LEMMA EndLineInv ==
    ASSUME ProxyInv, NEW c \in Connection, EndLine(c)
    PROVE  ProxyInv'
<1>1. /\ thread[c] = "writing" /\ thread' = [thread EXCEPT ![c] = "done"]
      /\ evidence' = Append(evidence, <<c, "end", Line(c)>>)
      /\ message' = message /\ got' = got /\ exchange' = exchange /\ client' = client
  BY DEF EndLine, Go
<1>2. ReadingOK(c) /\ Len(exchange[c]) = 2
  BY <1>1 DEF ProxyInv, ReadingOK
<1>. DEFINE n == Len(evidence)
<1>3. /\ evidence' \in Seq(HalfLine) /\ n \in Nat /\ Len(evidence') = n + 1
      /\ \A i \in 1..n : evidence'[i] = evidence[i]
      /\ evidence'[n + 1] = <<c, "end", Line(c)>>
  BY <1>1, <1>2, Written
<1>l. n > 0 /\ evidence[n] = <<c, "begin", Line(c)>>
  BY <1>1 DEF ProxyInv, EvidenceOK
<1>4. ProxyTypeOK'
  BY <1>1, <1>3 DEF ProxyInv, ProxyTypeOK, ThreadStates
<1>5. thread'[c] = "done" /\ \A d \in Connection \ {c} : thread'[d] = thread[d]
  BY <1>1 DEF ProxyInv, ProxyTypeOK
<1>6. ReadingOK(c)'
  BY <1>1, <1>2, <1>5 DEF ReadingOK, Side
<1>7. (\A d \in Connection : ReadingOK(d))'
  BY <1>1, <1>5, <1>6, OthersRead
<1>8. \A d \in Connection : Line(d)' = Line(d)
  BY <1>1 DEF Line
<1>9. EvidenceOK'
  <2>. HIDE DEF n
  <2>1. ASSUME NEW i \in 1..Len(evidence'), NEW d \in Connection, evidence'[i][1] = d
        PROVE  /\ thread'[d] \in {"writing", "done"} /\ evidence'[i][3] = Line(d)'
               /\ evidence'[i][2] = "end" =>
                     i > 1 /\ evidence'[i - 1] = <<d, "begin", evidence'[i][3]>>
    <3>1. CASE i = n + 1
      <4>1. evidence'[i] = <<c, "end", Line(c)>> /\ d = c
        BY <1>3, <2>1, <3>1
      <4>2. Line(d)' = Line(c)
        BY <1>8, <4>1
      <4>3. i > 1 /\ i - 1 = n /\ n \in 1..n
        BY <1>3, <1>l, <3>1
      <4>4. evidence'[i - 1] = <<c, "begin", Line(c)>>
        BY <1>3, <1>l, <4>3
      <4>. QED  BY <1>5, <4>1, <4>2, <4>3, <4>4
    <3>2. CASE i # n + 1
      <4>1. i \in 1..n /\ evidence'[i] = evidence[i] /\ (i > 1 => evidence'[i - 1] = evidence[i - 1])
        BY <1>3, <3>2
      <4>2. /\ thread[d] \in {"writing", "done"} /\ evidence[i][3] = Line(d)
            /\ evidence[i][2] = "end" => i > 1 /\ evidence[i - 1] = <<d, "begin", evidence[i][3]>>
        BY <2>1, <4>1 DEF ProxyInv, EvidenceOK, n
      <4>3. thread'[d] \in {"writing", "done"} /\ Line(d)' = Line(d)
        BY <1>5, <1>8, <4>2
      <4>. QED  BY <4>1, <4>2, <4>3
    <3>. QED  BY <3>1, <3>2
  <2>2. ASSUME NEW d \in Connection, thread'[d] = "writing" PROVE FALSE
    <3>1. d # c /\ thread[d] = "writing"
      BY <1>5, <2>2
    <3>2. evidence[n] = <<d, "begin", Line(d)>>
      BY <3>1 DEF ProxyInv, EvidenceOK, n
    <3>. QED  BY <1>l, <3>1, <3>2
  <2>3. ASSUME NEW d \in Connection, thread'[d] = "done"
        PROVE  \E i \in 1..Len(evidence') : evidence'[i][1] = d
    <3>1. CASE d = c
      <4>1. n + 1 \in 1..Len(evidence') /\ evidence'[n + 1][1] = d
        BY <1>3, <3>1
      <4>. QED  BY <4>1
    <3>2. CASE d # c
      <4>1. thread[d] = "done"
        BY <1>5, <2>3, <3>2
      <4>2. PICK i \in 1..n : evidence[i][1] = d
        BY <4>1 DEF ProxyInv, EvidenceOK, n
      <4>3. i \in 1..Len(evidence') /\ evidence'[i][1] = d
        BY <1>3, <4>2
      <4>. QED  BY <4>3
    <3>. QED  BY <3>1, <3>2
  <2>4. ASSUME NEW d \in Connection, thread'[d] \in {"evidence", "writing", "done"}
        PROVE  client'[d] = exchange'[d][2].raw
    <3>1. thread[d] \in {"evidence", "writing", "done"}
      BY <1>1, <1>5, <2>4
    <3>. QED  BY <1>1, <3>1 DEF ProxyInv, EvidenceOK
  <2>. QED  BY <2>1, <2>2, <2>3, <2>4 DEF EvidenceOK
<1>. QED  BY <1>4, <1>7, <1>9 DEF ProxyInv

LEMMA NextInv ==
    ASSUME ProxyInv, [ProxyNext]_proxy_vars
    PROVE  ProxyInv'
<1>1. CASE ProxyNext
  <2>1. PICK c \in Connection :
            \/ Accept(c) \/ Forward(c) \/ SendBack(c) \/ Fail(c) \/ BeginLine(c) \/ EndLine(c)
            \/ \E side \in Side : Eof(c, side) \/ \E n \in 1..Len(message[c].stream) : Read(c, side, n)
    BY <1>1 DEF ProxyNext
  <2>. QED  BY <2>1, AcceptInv, ForwardInv, SendBackInv, FailInv, BeginLineInv, EndLineInv, EofInv, ReadInv
<1>2. CASE UNCHANGED proxy_vars
  <2>1. /\ thread' = thread /\ message' = message /\ got' = got /\ exchange' = exchange
        /\ client' = client /\ evidence' = evidence
    BY <1>2 DEF proxy_vars
  <2>2. ProxyTypeOK'
    BY <2>1 DEF ProxyInv, ProxyTypeOK
  <2>3. (\A d \in Connection : ReadingOK(d))'
    BY <2>1, ReadingKept DEF ProxyInv
  <2>4. \A d \in Connection : Line(d)' = Line(d)
    BY <2>1 DEF Line
  <2>5. EvidenceOK'
    BY <2>1, <2>4 DEF ProxyInv, EvidenceOK
  <2>. QED  BY <2>2, <2>3, <2>5 DEF ProxyInv
<1>. QED  BY <1>1, <1>2

LEMMA InvRecorded ==
    ASSUME ProxyInv
    PROVE  ExchangesRecorded
<1>1. MessagesWhole
  <2>. SUFFICES ASSUME NEW c \in Connection
               PROVE  /\ \A i \in DOMAIN exchange[c] :
                           Whole(exchange[c][i].sent) =>
                             /\ exchange[c][i].raw = exchange[c][i].sent.stream
                             /\ exchange[c][i].body = exchange[c][i].sent.payload
                      /\ \A side \in Side :
                           thread[c] = side /\ got[c] = Len(message[c].stream)
                           => side = "response" /\ message[c].framing = "none"
    BY DEF MessagesWhole
  <2>1. ReadingOK(c) /\ exchange[c] \in Seq(Taking)
    BY DEF ProxyInv, ProxyTypeOK
  <2>2. DOMAIN exchange[c] = 1..Len(exchange[c])
    BY <2>1
  <2>. QED  BY <2>1, <2>2 DEF ReadingOK, TakenWhole
<1>2. EvidenceWhole
  <2>0. evidence \in Seq(HalfLine) /\ DOMAIN evidence = 1..Len(evidence)
    BY DEF ProxyInv, ProxyTypeOK
  <2>1. ASSUME NEW i \in DOMAIN evidence, evidence[i][2] = "end"
        PROVE  /\ i > 1 /\ evidence[i - 1] = <<evidence[i][1], "begin", evidence[i][3]>>
               /\ LET x == exchange[evidence[i][1]] IN
                    \A side \in Side : LET m == x[IF side = "request" THEN 1 ELSE 2].sent IN
                      Whole(m) /\ evidence[i][3][side].omitted = "no" => evidence[i][3][side].body = m.payload
               /\ client[evidence[i][1]] = exchange[evidence[i][1]][2].raw
    <3>1. evidence[i] \in HalfLine
      BY <2>0
    <3>2. PICK c \in Connection : evidence[i][1] = c
      BY <3>1 DEF HalfLine
    <3>3. /\ thread[c] \in {"writing", "done"} /\ evidence[i][3] = Line(c)
          /\ i > 1 /\ evidence[i - 1] = <<c, "begin", evidence[i][3]>>
      BY <2>0, <2>1, <3>2 DEF ProxyInv, EvidenceOK
    <3>4. client[c] = exchange[c][2].raw
      BY <3>3 DEF ProxyInv, EvidenceOK
    <3>5. Len(exchange[c]) = 2 /\ \A k \in 1..2 : TakenWhole(exchange[c][k])
      BY <3>3 DEF ProxyInv, ReadingOK
    <3>6. ASSUME NEW side \in Side
          PROVE  LET m == exchange[c][IF side = "request" THEN 1 ELSE 2].sent IN
                 Whole(m) /\ evidence[i][3][side].omitted = "no" => evidence[i][3][side].body = m.payload
      <4>. DEFINE k == IF side = "request" THEN 1 ELSE 2
                  y == exchange[c][k]
      <4>1. k \in 1..2 /\ TakenWhole(y)
        BY <3>5
      <4>2. evidence[i][3][side] = BodyEvidence(y)
        BY <3>3 DEF Line, Side
      <4>. HIDE DEF k, y
      <4>3. BodyEvidence(y).omitted = "no" => BodyEvidence(y).body = y.body
        BY DEF BodyEvidence
      <4>4. Whole(y.sent) /\ evidence[i][3][side].omitted = "no"
            => evidence[i][3][side].body = y.sent.payload
        BY <4>1, <4>2, <4>3 DEF TakenWhole
      <4>. QED  BY <4>4 DEF k, y
    <3>. QED  BY <3>2, <3>3, <3>4, <3>6
  <2>2. ASSUME NEW c \in Connection, thread[c] = "done"
        PROVE  \E i \in DOMAIN evidence : evidence[i][1] = c
    BY <2>0, <2>2 DEF ProxyInv, EvidenceOK
  <2>. QED  BY <2>1, <2>2 DEF EvidenceWhole
<1>. QED  BY <1>1, <1>2 DEF ExchangesRecorded

\* However a peer's bytes come and whichever threads run, the proxy reads a
\* message to its end and not further, gives the client what the server sent,
\* and writes a line of evidence in one piece with the bodies of its own
\* exchange (read_message, handle): for any number of connections, any
\* payloads, chunks and trailers.
THEOREM EvidenceIsWhole == ProxySpec => []ExchangesRecorded
<1>1. ProxyInit => ProxyInv
  BY ProxyStart
<1>2. ProxyInv /\ [ProxyNext]_proxy_vars => ProxyInv'
  BY NextInv
<1>3. ProxyInv => ExchangesRecorded
  BY InvRecorded
<1>. QED  BY <1>1, <1>2, <1>3, PTL DEF ProxySpec
===============================================================================
