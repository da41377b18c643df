----------------------------- MODULE MCRunFlow -----------------------------
(* Instances of RunFlow for TLC.                                           *)
EXTENDS RunFlow

TwoBefore   == {"perf-start", "log-mark"}
OneDuring   == {"vmstat"}
OneBoundary == {"initialize-end"}
TwoAfter    == {"perf-stop", "log-delta"}
EachUndoes  == [a \in TwoAfter |-> IF a = "perf-stop" THEN {"perf-start"} ELSE {"log-mark"}]

With(hooks, before, parser, limit) ==
    [identity |-> hooks, prepare |-> hooks, before |-> before, cleanup |-> TRUE,
     boundary |-> before, parser |-> parser, limit |-> limit]

FlowConfigs == {With(TRUE, TRUE, FALSE, FALSE), With(FALSE, FALSE, TRUE, TRUE)}
OneConfig   == {With(FALSE, FALSE, TRUE, FALSE)}
=============================================================================
