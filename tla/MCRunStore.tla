----------------------------- MODULE MCRunStore -----------------------------
(* Instances of RunStore for TLC.                                          *)
EXTENDS RunStore, TLC

CONSTANTS p1, p2

Ended(ran, passed, pending, interrupted, parserFailed) ==
    [ran |-> ran, passed |-> passed, pending |-> pending,
     interrupted |-> interrupted, collectorFailed |-> FALSE,
     parserFailed |-> parserFailed]

Pass       == Ended(TRUE, "yes", FALSE, FALSE, FALSE)
Fail       == Ended(FALSE, "no", FALSE, FALSE, FALSE)
Pended     == Ended(TRUE, "null", TRUE, FALSE, FALSE)

OneProc    == {p1}
TwoProcs   == {p1, p2}
Symmetry   == Permutations({p1, p2})

Interrupted == Ended(TRUE, "no", FALSE, TRUE, FALSE)

AllOutcomes == {Pass, Pended, Fail, Interrupted}
PendedOnly  == {Pended}
PassOnly    == {Pass}

AllCommands   == {"run", "analyze", "rescore", "enrich", "read"}
RunAndRescore == {"run", "rescore"}
RunAndEnrich  == {"run", "enrich"}
=============================================================================
