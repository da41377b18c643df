--------------------------- MODULE MCMeasurement ---------------------------
(* An instance of Measurement for TLC.                                     *)
EXTENDS Measurement

On(n, q) == [node |-> n, sequence |-> q]

\* Three queues and a limit of two on one node, one queue on another, and two
\* local collectors between them.
Mixed == <<On("web", "perf"), On("here", "none"), On("web", "none"), On("web", "perf"),
           On("db", "none"), On("here", "none"), On("web", "log")>>
OnePlan == {Mixed}

MCLimits == {{}, {"time", "idle"}}
=============================================================================
