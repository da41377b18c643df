----------------------------- MODULE RunLedger -----------------------------
(***************************************************************************)
(* What isuscope promises about its runs, whoever executes the commands and *)
(* wherever they are killed: one run is underway at a time; it is dropped   *)
(* or saved once; a saved run stays saved; its verdict changes only if the  *)
(* benchmark adapter left it open; and a passing run only gains analyses.   *)
(***************************************************************************)
CONSTANT Run

VARIABLES
    phase,    \* of each run: "absent", "underway" or "saved"
    verdict,  \* "null" until it is known, then "yes" or "no"
    open,     \* the verdict was left to a later rescore
    notes     \* the analyses recorded for the run

vars == <<phase, verdict, open, notes>>

Init ==
    /\ phase = [r \in Run |-> "absent"]
    /\ verdict = [r \in Run |-> "null"]
    /\ open = [r \in Run |-> FALSE]
    /\ notes = [r \in Run |-> {}]

Begin(r) ==
    /\ \A q \in Run : phase[q] # "underway"
    /\ phase[r] = "absent"
    /\ phase' = [phase EXCEPT ![r] = "underway"]
    /\ UNCHANGED <<verdict, open, notes>>

Drop(r) ==
    /\ phase[r] = "underway"
    /\ phase' = [phase EXCEPT ![r] = "absent"]
    /\ UNCHANGED <<verdict, open, notes>>

Save(r) ==
    /\ phase[r] = "underway"
    /\ phase' = [phase EXCEPT ![r] = "saved"]
    /\ \E v \in {"null", "yes", "no"} : verdict' = [verdict EXCEPT ![r] = v]
    /\ \E o \in BOOLEAN : open' = [open EXCEPT ![r] = o]
    /\ UNCHANGED notes

Judge(r) ==
    /\ phase[r] = "saved"
    /\ open[r]
    /\ \E v \in {"yes", "no"} : verdict' = [verdict EXCEPT ![r] = v]
    /\ open' = [open EXCEPT ![r] = FALSE]
    /\ UNCHANGED <<phase, notes>>

Analyze(r) ==
    /\ phase[r] = "saved"
    /\ verdict[r] = "yes"
    /\ \E n \in notes'[r] : /\ n \notin notes[r]
                           /\ notes' = [notes EXCEPT ![r] = @ \cup {n}]
    /\ UNCHANGED <<phase, verdict, open>>

Next == \E r \in Run : Begin(r) \/ Drop(r) \/ Save(r) \/ Judge(r) \/ Analyze(r)

Spec == Init /\ [][Next]_vars

=============================================================================
