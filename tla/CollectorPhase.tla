-------------------------- MODULE CollectorPhase ---------------------------
(***************************************************************************)
(* One phase of collectors (run_phase and run_once in                      *)
(* src/src/collector.rs): a queue for each node and `sequence`, the queues *)
(* side by side, a semaphore for each node, local collectors afterwards,   *)
(* and a signal that cuts the phase short.  RunFlow has the phases of a    *)
(* whole run without what is inside one.                                   *)
(*                                                                         *)
(* An execution (a collector on a node) is its `order` in the phase.  The  *)
(* outputs are sorted by it in the end, which the model leaves out.        *)
(***************************************************************************)
EXTENDS Naturals, FiniteSets, Sequences

CONSTANTS
    Count,      \* executions in the phase
    Node,       \* the nodes
    Local,      \* in place of a node: the machine isuscope runs on
    Queue,      \* values of `sequence`, among them one for none
    Plans,      \* phases: for each execution its node and sequence
    Limit       \* MAX_CONCURRENT_PER_NODE

Execution == 1..Count
Plan == [Execution -> [node : Node \cup {Local}, sequence : Queue]]

ASSUME CountAssumption == Count \in Nat /\ Limit \in Nat \ {0}
ASSUME PlansAssumption == Plans \subseteq Plan /\ Local \notin Node

VARIABLES
    plan,       \* the phase
    st,         \* how far each execution is
    waiters,    \* per node, the executions in acquire(), first come first served
    permits,    \* per node, the free permits of its semaphore
    watched,    \* the phase was given the shutdown
    cancelled   \* a signal came

vars == <<plan, st, waiters, permits, watched, cancelled>>

\* "permitted": before the look at the shutdown, "checked": after it,
\* "up": the child runs, "ended": it has ended and its output is saved.
Step == {"queued", "waiting", "permitted", "checked", "up", "ended", "done"}

NodeOf(i) == plan[i].node
OnNode == {i \in Execution : NodeOf(i) # Local}

TypeOK ==
    /\ plan \in Plans
    /\ st \in [Execution -> Step]
    /\ waiters \in [Node -> Seq(Execution)]
    /\ permits \in [Node -> 0..Limit]
    /\ watched \in BOOLEAN /\ cancelled \in BOOLEAN

\* Slip: a semaphore that is shared by the queues of a node has one for each.
Init_Slip ==
    /\ plan \in Plans
    /\ st = [i \in Execution |-> "queued"]
    /\ waiters = [n \in Node |-> <<>>]
    /\ permits = [n \in Node |-> Limit * Cardinality(Queue)]
    /\ watched \in BOOLEAN /\ cancelled = FALSE

Init ==
    /\ plan \in Plans
    /\ st = [i \in Execution |-> "queued"]
    /\ waiters = [n \in Node |-> <<>>]
    /\ permits = [n \in Node |-> Limit]
    /\ watched \in BOOLEAN /\ cancelled = FALSE

\* The executions that come before i in its queue.  Local ones have one queue.
Before(i) == {j \in 1..(i - 1) : /\ NodeOf(j) = NodeOf(i)
                                 /\ NodeOf(i) # Local => plan[j].sequence = plan[i].sequence}

AllDone(S) == \A j \in S : st[j] = "done"
Goto(i, step) == st' = [st EXCEPT ![i] = step]
Cut == watched /\ cancelled

-----------------------------------------------------------------------------
(* The loop over a queue, and the one over the local collectors            *)

\* Slip: a task for each execution instead of one for each queue.
Ask_Slip(i) ==
    /\ i \in OnNode /\ st[i] = "queued"
    /\ waiters' = [waiters EXCEPT ![NodeOf(i)] = Append(@, i)]
    /\ Goto(i, "waiting")
    /\ UNCHANGED <<plan, permits, watched, cancelled>>

\* The next of a queue asks for a permit of its node.
Ask(i) ==
    /\ i \in OnNode /\ st[i] = "queued" /\ AllDone(Before(i))
    /\ waiters' = [waiters EXCEPT ![NodeOf(i)] = Append(@, i)]
    /\ Goto(i, "waiting")
    /\ UNCHANGED <<plan, permits, watched, cancelled>>

\* Slip: `let _ = limit.acquire()` drops the permit at once.
Grant_Slip(n) ==
    /\ waiters[n] # <<>> /\ permits[n] > 0
    /\ waiters' = [waiters EXCEPT ![n] = Tail(@)]
    /\ Goto(Head(waiters[n]), "permitted")
    /\ UNCHANGED <<plan, permits, watched, cancelled>>

\* The semaphore serves the first that waits.
Grant(n) ==
    /\ waiters[n] # <<>> /\ permits[n] > 0
    /\ permits' = [permits EXCEPT ![n] = @ - 1]
    /\ waiters' = [waiters EXCEPT ![n] = Tail(@)]
    /\ Goto(Head(waiters[n]), "permitted")
    /\ UNCHANGED <<plan, watched, cancelled>>

\* Slip: local collectors start beside the node collectors.
StartLocal_Slip(i) ==
    /\ i \in Execution \ OnNode /\ st[i] = "queued" /\ AllDone(Before(i))
    /\ Goto(i, "permitted")
    /\ UNCHANGED <<plan, waiters, permits, watched, cancelled>>

\* After join_all, the local collectors run one by one, without a permit.
StartLocal(i) ==
    /\ i \in Execution \ OnNode /\ st[i] = "queued"
    /\ AllDone(OnNode) /\ AllDone(Before(i))
    /\ Goto(i, "permitted")
    /\ UNCHANGED <<plan, waiters, permits, watched, cancelled>>

-----------------------------------------------------------------------------
(* run_once.  However it returns, the permit is dropped behind it.         *)

Returned(i) ==
    /\ Goto(i, "done")
    /\ permits' = [n \in Node |-> IF n = NodeOf(i) THEN permits[n] + 1 ELSE permits[n]]
    /\ UNCHANGED <<plan, waiters, watched, cancelled>>

Looked(i) ==
    /\ st[i] = "permitted" /\ ~Cut
    /\ Goto(i, "checked")
    /\ UNCHANGED <<plan, waiters, permits, watched, cancelled>>

\* Slip: the early return forgets the permit.
Skip_Slip(i) ==
    /\ st[i] = "permitted" /\ Cut
    /\ Goto(i, "done")
    /\ UNCHANGED <<plan, waiters, permits, watched, cancelled>>

\* After a signal nothing is started.
Skip(i) == st[i] = "permitted" /\ Cut /\ Returned(i)

Spawn(i) ==
    /\ st[i] = "checked"
    /\ Goto(i, "up")
    /\ UNCHANGED <<plan, waiters, permits, watched, cancelled>>

SpawnFails(i) == st[i] = "checked" /\ Returned(i)

\* The child ends by itself.
Exits(i) ==
    /\ st[i] = "up"
    /\ Goto(i, "ended")
    /\ UNCHANGED <<plan, waiters, permits, watched, cancelled>>

\* It is terminated after timeout_seconds, or by the signal.
Terminated(i) ==
    /\ st[i] = "up"
    /\ Goto(i, "ended")
    /\ UNCHANGED <<plan, waiters, permits, watched, cancelled>>

\* finalize: finish_captures has a deadline.
Finalize(i) == st[i] = "ended" /\ Returned(i)

\* A signal comes.
Signal ==
    /\ ~cancelled
    /\ cancelled' = TRUE
    /\ UNCHANGED <<plan, st, waiters, permits, watched>>

-----------------------------------------------------------------------------
RunOnce(i) == \/ Looked(i) \/ Skip(i) \/ Spawn(i) \/ SpawnFails(i)
              \/ Terminated(i) \/ Finalize(i)
Loops(i) == Ask(i) \/ StartLocal(i)

Next == \/ \E i \in Execution : Loops(i) \/ RunOnce(i) \/ Exits(i)
        \/ \E n \in Node : Grant(n)
        \/ Signal

Spec == Init /\ [][Next]_vars

\* tokio runs some task whenever one can go on, and the time limit of a
\* collector (never absent) ends a child that does not end by itself.
Progress == (\E i \in Execution : Loops(i) \/ RunOnce(i)) \/ \E n \in Node : Grant(n)
FairSpec == Spec /\ WF_vars(Progress)

-----------------------------------------------------------------------------
(* Properties                                                              *)

\* No node has more children of a phase at once than sshd accepts
\* (MAX_CONCURRENT_PER_NODE, collector.rs:54-56).
NodeLimit ==
    \A n \in Node : Cardinality({i \in Execution : NodeOf(i) = n /\ st[i] = "up"}) <= Limit

\* Collectors of a queue hand work to each other: the output of an earlier one
\* is saved before a later one starts (collector.rs:140-144).
QueueOrder ==
    \A i \in Execution : st[i] \in {"up", "ended"} => AllDone(Before(i))

\* Local collectors see what all node collectors brought back
\* (collector.rs:143-144).
LocalLast ==
    \A i \in Execution \ OnNode : st[i] \in {"up", "ended"} => AllDone(OnNode)

\* Every phase ends with an output of every execution, and leaves the
\* semaphores as it found them, whatever hangs, fails or is interrupted.
PhaseEnds == <>(AllDone(Execution) /\ \A n \in Node : permits[n] = Limit)
=============================================================================
