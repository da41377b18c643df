------------------------- MODULE MeasurementProofs -------------------------
(***************************************************************************)
(* Proofs about CollectorPhase, and about Measurement: the limit of a      *)
(* node, the order within a queue and the place of the local collectors    *)
(* hold for every phase; with the benchmark behind it, a before phase is   *)
(* still a phase; and the benchmark has the nodes to itself.               *)
(***************************************************************************)
EXTENDS Measurement, FiniteSetTheorems, TLAPS

-----------------------------------------------------------------------------
(* A phase                                                                 *)

\* The executions that hold a permit of a node.
Holding(n) == {i \in Execution : /\ NodeOf(i) = n
                                 /\ st[i] \in {"permitted", "checked", "up", "ended"}}

\* Those in acquire() wait, each once, at its own node.
WaitersOK ==
    \A n \in Node : \A k \in 1..Len(waiters[n]) :
        /\ st[waiters[n][k]] = "waiting" /\ NodeOf(waiters[n][k]) = n
        /\ \A l \in 1..Len(waiters[n]) : waiters[n][l] = waiters[n][k] => l = k

\* A permit is free or held.
PermitsOK == \A n \in Node : permits[n] + Cardinality(Holding(n)) = Limit

\* What has started comes after what it follows.
StartedOK ==
    \A i \in Execution : st[i] # "queued" =>
        AllDone(Before(i)) /\ (i \notin OnNode => AllDone(OnNode))

PhaseInv == TypeOK /\ WaitersOK /\ PermitsOK /\ StartedOK

-----------------------------------------------------------------------------
(* Steps keep each part of the invariant                                   *)

LEMMA FiniteParts ==
  /\ IsFiniteSet(Execution)
  /\ \A S \in SUBSET Execution : IsFiniteSet(S) /\ Cardinality(S) \in Nat
<1>1. IsFiniteSet(Execution)
  BY CountAssumption, FS_Interval DEF Execution
<1>. QED  BY <1>1, FS_Subset, FS_CardinalityType

\* An execution that starts to hold a permit, or stops, changes its node's
\* count by one and nobody else's.
LEMMA HoldsOne ==
  ASSUME TypeOK, NEW i \in Execution, NEW step \in Step, Goto(i, step), plan' = plan,
         NEW n \in Node
  PROVE  /\ Holding(n) \in SUBSET Execution /\ Holding(n)' \in SUBSET Execution
         /\ NodeOf(i) # n => Holding(n)' = Holding(n)
         /\ i \in Holding(n) /\ step = "done" => Holding(n)' = Holding(n) \ {i}
         /\ NodeOf(i) = n /\ step = "permitted" => Holding(n)' = Holding(n) \cup {i}
         /\ i \in Holding(n) /\ step \in {"checked", "up", "ended"} => Holding(n)' = Holding(n)
         /\ i \notin Holding(n) /\ step = "waiting" => Holding(n)' = Holding(n)
BY DEF TypeOK, Goto, Holding, NodeOf, Step


\* A permit that is given back was taken before.
LEMMA TypeStep ==
  ASSUME TypeOK, PermitsOK, [Next]_vars
  PROVE  TypeOK'
<1>1. ASSUME NEW i \in Execution, Ask(i) PROVE TypeOK'
  <2>1. NodeOf(i) \in Node => Append(waiters[NodeOf(i)], i) \in Seq(Execution)
    BY DEF TypeOK
  <2>. QED  BY <1>1, <2>1 DEF Ask, Goto, TypeOK, Step
<1>2. ASSUME NEW i \in Execution, StartLocal(i) PROVE TypeOK'
  BY <1>2 DEF StartLocal, Goto, TypeOK, Step
<1>3. ASSUME NEW i \in Execution, Looked(i) PROVE TypeOK'
  BY <1>3 DEF Looked, Goto, TypeOK, Step
<1>4. ASSUME NEW i \in Execution, Skip(i) PROVE TypeOK'
  <2>1. NodeOf(i) \in Node => permits[NodeOf(i)] < Limit
    <3>. SUFFICES ASSUME NodeOf(i) \in Node PROVE permits[NodeOf(i)] < Limit
      OBVIOUS
    <3>1. i \in Holding(NodeOf(i)) /\ Holding(NodeOf(i)) \in SUBSET Execution
      BY <1>4 DEF Skip, Holding
    <3>2. Cardinality(Holding(NodeOf(i))) \in Nat /\ Cardinality(Holding(NodeOf(i))) # 0
      BY <3>1, FiniteParts, FS_EmptySet
    <3>. QED  BY <3>2, CountAssumption DEF PermitsOK, TypeOK
  <2>2. permits' \in [Node -> 0..Limit]
    BY <1>4, <2>1, CountAssumption DEF Skip, Returned, TypeOK
  <2>. QED  BY <1>4, <2>2 DEF Skip, Returned, Goto, TypeOK, Step
<1>5. ASSUME NEW i \in Execution, Spawn(i) PROVE TypeOK'
  BY <1>5 DEF Spawn, Goto, TypeOK, Step
<1>6. ASSUME NEW i \in Execution, SpawnFails(i) PROVE TypeOK'
  <2>1. NodeOf(i) \in Node => permits[NodeOf(i)] < Limit
    <3>. SUFFICES ASSUME NodeOf(i) \in Node PROVE permits[NodeOf(i)] < Limit
      OBVIOUS
    <3>1. i \in Holding(NodeOf(i)) /\ Holding(NodeOf(i)) \in SUBSET Execution
      BY <1>6 DEF SpawnFails, Holding
    <3>2. Cardinality(Holding(NodeOf(i))) \in Nat /\ Cardinality(Holding(NodeOf(i))) # 0
      BY <3>1, FiniteParts, FS_EmptySet
    <3>. QED  BY <3>2, CountAssumption DEF PermitsOK, TypeOK
  <2>2. permits' \in [Node -> 0..Limit]
    BY <1>6, <2>1, CountAssumption DEF SpawnFails, Returned, TypeOK
  <2>. QED  BY <1>6, <2>2 DEF SpawnFails, Returned, Goto, TypeOK, Step
<1>7. ASSUME NEW i \in Execution, Terminated(i) PROVE TypeOK'
  BY <1>7 DEF Terminated, Goto, TypeOK, Step
<1>8. ASSUME NEW i \in Execution, Finalize(i) PROVE TypeOK'
  <2>1. NodeOf(i) \in Node => permits[NodeOf(i)] < Limit
    <3>. SUFFICES ASSUME NodeOf(i) \in Node PROVE permits[NodeOf(i)] < Limit
      OBVIOUS
    <3>1. i \in Holding(NodeOf(i)) /\ Holding(NodeOf(i)) \in SUBSET Execution
      BY <1>8 DEF Finalize, Holding
    <3>2. Cardinality(Holding(NodeOf(i))) \in Nat /\ Cardinality(Holding(NodeOf(i))) # 0
      BY <3>1, FiniteParts, FS_EmptySet
    <3>. QED  BY <3>2, CountAssumption DEF PermitsOK, TypeOK
  <2>2. permits' \in [Node -> 0..Limit]
    BY <1>8, <2>1, CountAssumption DEF Finalize, Returned, TypeOK
  <2>. QED  BY <1>8, <2>2 DEF Finalize, Returned, Goto, TypeOK, Step
<1>9. ASSUME NEW i \in Execution, Exits(i) PROVE TypeOK'
  BY <1>9 DEF Exits, Goto, TypeOK, Step
<1>10. ASSUME NEW n \in Node, Grant(n) PROVE TypeOK'
  <2>1. Head(waiters[n]) \in Execution /\ Tail(waiters[n]) \in Seq(Execution)
    BY <1>10 DEF Grant, TypeOK
  <2>2. permits[n] - 1 \in 0..Limit
    BY <1>10, CountAssumption DEF Grant, TypeOK
  <2>. QED  BY <1>10, <2>1, <2>2 DEF Grant, Goto, TypeOK, Step
<1>11. CASE Signal
  BY <1>11 DEF Signal, TypeOK, Step
<1>12. CASE UNCHANGED vars
  BY <1>12 DEF vars, TypeOK, Step
<1>. QED  BY <1>1, <1>2, <1>3, <1>4, <1>5, <1>6, <1>7, <1>8, <1>9, <1>10, <1>11, <1>12
         DEF Next, Loops, RunOnce

\* A waiter waits until the semaphore serves it.
LEMMA WaitersStep ==
  ASSUME TypeOK, WaitersOK, [Next]_vars
  PROVE  WaitersOK'
<1>1. ASSUME NEW i \in Execution, Ask(i) PROVE WaitersOK'
  <2>1. NodeOf(i) \in Node
    BY <1>1, PlansAssumption DEF Ask, OnNode, NodeOf, TypeOK, Plan
  <2>2. /\ waiters' = [waiters EXCEPT ![NodeOf(i)] = Append(waiters[NodeOf(i)], i)]
        /\ st' = [st EXCEPT ![i] = "waiting"] /\ plan' = plan /\ st[i] = "queued"
    BY <1>1 DEF Ask, Goto
  <2>3. \A n \in Node : waiters[n] \in Seq(Execution) /\ Len(waiters[n]) \in Nat
    BY DEF TypeOK
  <2>4. \A n \in Node : \A k \in 1..Len(waiters[n]) : waiters[n][k] \in Execution /\ waiters[n][k] # i
    BY <2>2, <2>3 DEF WaitersOK
  <2>5. ASSUME NEW n \in Node, n # NodeOf(i), NEW k \in 1..Len(waiters'[n])
        PROVE  /\ st'[waiters'[n][k]] = "waiting" /\ NodeOf(waiters'[n][k]) = n
               /\ \A l \in 1..Len(waiters'[n]) : waiters'[n][l] = waiters'[n][k] => l = k
    <3>1. waiters'[n] = waiters[n]
      BY <2>2, <2>5 DEF TypeOK
    <3>. QED  BY <2>2, <2>4, <2>5, <3>1 DEF WaitersOK, TypeOK
  <2>6. ASSUME NEW k \in 1..Len(waiters'[NodeOf(i)])
        PROVE  /\ st'[waiters'[NodeOf(i)][k]] = "waiting" /\ NodeOf(waiters'[NodeOf(i)][k]) = NodeOf(i)
               /\ \A l \in 1..Len(waiters'[NodeOf(i)]) :
                     waiters'[NodeOf(i)][l] = waiters'[NodeOf(i)][k] => l = k
    <3>. DEFINE w == waiters[NodeOf(i)]
    <3>1. waiters'[NodeOf(i)] = Append(w, i)
      BY <2>1, <2>2 DEF TypeOK
    <3>2. /\ Len(Append(w, i)) = Len(w) + 1 /\ Append(w, i)[Len(w) + 1] = i
          /\ \A l \in 1..Len(w) : Append(w, i)[l] = w[l]
      BY <2>1, <2>3
    <3>3. \A l \in 1..Len(w) : /\ st'[w[l]] = "waiting" /\ NodeOf(w[l]) = NodeOf(i) /\ w[l] # i
                               /\ \A j \in 1..Len(w) : w[j] = w[l] => j = l
      BY <2>1, <2>2, <2>4 DEF WaitersOK, TypeOK
    <3>4. st'[i] = "waiting"
      BY <2>2 DEF TypeOK
    <3>. HIDE DEF w
    <3>. QED  BY <2>1, <2>3, <2>6, <3>1, <3>2, <3>3, <3>4 DEF w
  <2>. QED  BY <2>1, <2>2, <2>5, <2>6 DEF WaitersOK, NodeOf
<1>2. ASSUME NEW i \in Execution, StartLocal(i) PROVE WaitersOK'
  BY <1>2 DEF StartLocal, Goto, TypeOK, WaitersOK, Step, NodeOf, OnNode
<1>3. ASSUME NEW i \in Execution, Looked(i) PROVE WaitersOK'
  BY <1>3 DEF Looked, Goto, TypeOK, WaitersOK, Step, NodeOf, OnNode
<1>4. ASSUME NEW i \in Execution, Skip(i) PROVE WaitersOK'
  BY <1>4 DEF Skip, Goto, Returned, TypeOK, WaitersOK, Step, NodeOf, OnNode
<1>5. ASSUME NEW i \in Execution, Spawn(i) PROVE WaitersOK'
  BY <1>5 DEF Spawn, Goto, TypeOK, WaitersOK, Step, NodeOf, OnNode
<1>6. ASSUME NEW i \in Execution, SpawnFails(i) PROVE WaitersOK'
  BY <1>6 DEF SpawnFails, Goto, Returned, TypeOK, WaitersOK, Step, NodeOf, OnNode
<1>7. ASSUME NEW i \in Execution, Terminated(i) PROVE WaitersOK'
  BY <1>7 DEF Terminated, Goto, TypeOK, WaitersOK, Step, NodeOf, OnNode
<1>8. ASSUME NEW i \in Execution, Finalize(i) PROVE WaitersOK'
  BY <1>8 DEF Finalize, Goto, Returned, TypeOK, WaitersOK, Step, NodeOf, OnNode
<1>9. ASSUME NEW i \in Execution, Exits(i) PROVE WaitersOK'
  BY <1>9 DEF Exits, Goto, TypeOK, WaitersOK, Step, NodeOf, OnNode
<1>10. ASSUME NEW n \in Node, Grant(n) PROVE WaitersOK'
  <2>. DEFINE h == Head(waiters[n])
  <2>1. /\ waiters[n] \in Seq(Execution) /\ waiters[n] # <<>> /\ h = waiters[n][1]
        /\ 1 \in 1..Len(waiters[n]) /\ h \in Execution /\ NodeOf(h) = n
    BY <1>10 DEF Grant, TypeOK, WaitersOK
  <2>2. /\ waiters' = [waiters EXCEPT ![n] = Tail(waiters[n])]
        /\ st' = [st EXCEPT ![h] = "permitted"] /\ plan' = plan
    BY <1>10 DEF Grant, Goto
  <2>3. \A m \in Node : \A k \in 1..Len(waiters[m]) : waiters[m][k] \in Execution
    BY DEF TypeOK
  <2>4. ASSUME NEW m \in Node, m # n, NEW k \in 1..Len(waiters'[m])
        PROVE  /\ st'[waiters'[m][k]] = "waiting" /\ NodeOf(waiters'[m][k]) = m
               /\ \A l \in 1..Len(waiters'[m]) : waiters'[m][l] = waiters'[m][k] => l = k
    <3>1. waiters'[m] = waiters[m]
      BY <2>2, <2>4 DEF TypeOK
    <3>2. waiters[m][k] # h
      BY <2>1, <2>4, <3>1 DEF WaitersOK
    <3>. QED  BY <2>2, <2>3, <2>4, <3>1, <3>2 DEF WaitersOK, TypeOK
  <2>5. ASSUME NEW k \in 1..Len(waiters'[n])
        PROVE  /\ st'[waiters'[n][k]] = "waiting" /\ NodeOf(waiters'[n][k]) = n
               /\ \A l \in 1..Len(waiters'[n]) : waiters'[n][l] = waiters'[n][k] => l = k
    <3>1. waiters'[n] = Tail(waiters[n])
      BY <2>2 DEF TypeOK
    <3>2. /\ Len(Tail(waiters[n])) = Len(waiters[n]) - 1
          /\ \A l \in 1..Len(Tail(waiters[n])) : Tail(waiters[n])[l] = waiters[n][l + 1]
      BY <2>1
    <3>3. \A l \in 1..Len(waiters'[n]) : l + 1 \in 1..Len(waiters[n]) /\ l + 1 # 1
      BY <2>1, <3>1, <3>2
    <3>4. \A l \in 1..Len(waiters'[n]) : waiters'[n][l] = waiters[n][l + 1] /\ waiters[n][l + 1] # h
      BY <2>1, <3>1, <3>2, <3>3 DEF WaitersOK
    <3>5. st'[waiters[n][k + 1]] = "waiting" /\ NodeOf(waiters[n][k + 1]) = n
      BY <2>2, <2>3, <2>5, <3>3, <3>4 DEF WaitersOK, TypeOK
    <3>6. \A l \in 1..Len(waiters'[n]) : waiters[n][l + 1] = waiters[n][k + 1] => l + 1 = k + 1
      BY <2>5, <3>3 DEF WaitersOK
    <3>. QED  BY <2>5, <3>4, <3>5, <3>6
  <2>. QED  BY <2>2, <2>4, <2>5 DEF WaitersOK, NodeOf
<1>11. CASE Signal
  BY <1>11 DEF Signal, TypeOK, WaitersOK, Step, NodeOf, OnNode
<1>12. CASE UNCHANGED vars
  BY <1>12 DEF vars, TypeOK, WaitersOK, Step, NodeOf, OnNode
<1>. QED  BY <1>1, <1>2, <1>3, <1>4, <1>5, <1>6, <1>7, <1>8, <1>9, <1>10, <1>11, <1>12
         DEF Next, Loops, RunOnce

\* A permit is taken by the execution it lets pass, and given back by it.
LEMMA PermitsStep ==
  ASSUME TypeOK, WaitersOK, PermitsOK, [Next]_vars
  PROVE  PermitsOK'
<1>1. ASSUME NEW i \in Execution, Ask(i) PROVE PermitsOK'
  <2>1. \A n \in Node : Holding(n)' = Holding(n)
    BY <1>1, HoldsOne DEF Ask, Holding, Step
  <2>. QED  BY <1>1, <2>1 DEF Ask, PermitsOK
<1>2. ASSUME NEW i \in Execution, StartLocal(i) PROVE PermitsOK'
  <2>1. NodeOf(i) \notin Node
    BY <1>2, PlansAssumption DEF StartLocal, OnNode, NodeOf, TypeOK, Plan
  <2>2. \A n \in Node : Holding(n)' = Holding(n)
    BY <1>2, <2>1, HoldsOne DEF StartLocal, Step
  <2>. QED  BY <1>2, <2>2 DEF StartLocal, PermitsOK
<1>3. ASSUME NEW i \in Execution, Looked(i) PROVE PermitsOK'
  <2>1. \A n \in Node : Holding(n)' = Holding(n)
    BY <1>3, HoldsOne DEF Looked, Holding, Step
  <2>. QED  BY <1>3, <2>1 DEF Looked, PermitsOK
<1>4. ASSUME NEW i \in Execution, Skip(i) PROVE PermitsOK'
  <2>1. Goto(i, "done") /\ plan' = plan /\ "done" \in Step
        /\ permits' = [n \in Node |-> IF n = NodeOf(i) THEN permits[n] + 1 ELSE permits[n]]
    BY <1>4 DEF Skip, Returned, Step
  <2>2. ASSUME NEW n \in Node PROVE permits'[n] + Cardinality(Holding(n)') = Limit
    <3>1. CASE NodeOf(i) # n
      BY <2>1, <3>1, HoldsOne DEF PermitsOK
    <3>2. CASE NodeOf(i) = n
      <4>1. i \in Holding(n) /\ Holding(n) \in SUBSET Execution
        BY <1>4, <3>2 DEF Skip, Holding
      <4>2. Holding(n)' = Holding(n) \ {i}
        BY <2>1, <4>1, HoldsOne
      <4>3. Cardinality(Holding(n)') = Cardinality(Holding(n)) - 1
        BY <4>1, <4>2, FiniteParts, FS_RemoveElement
      <4>4. permits'[n] = permits[n] + 1 /\ permits[n] \in Nat /\ Limit \in Nat
        BY <2>1, <3>2, CountAssumption DEF TypeOK
      <4>5. Cardinality(Holding(n)) \in Nat /\ permits[n] + Cardinality(Holding(n)) = Limit
        BY <4>1, FiniteParts DEF PermitsOK
      <4>. QED  BY <4>3, <4>4, <4>5
    <3>. QED  BY <3>1, <3>2
  <2>. QED  BY <2>2 DEF PermitsOK
<1>5. ASSUME NEW i \in Execution, Spawn(i) PROVE PermitsOK'
  <2>1. \A n \in Node : Holding(n)' = Holding(n)
    BY <1>5, HoldsOne DEF Spawn, Holding, Step
  <2>. QED  BY <1>5, <2>1 DEF Spawn, PermitsOK
<1>6. ASSUME NEW i \in Execution, SpawnFails(i) PROVE PermitsOK'
  <2>1. Goto(i, "done") /\ plan' = plan /\ "done" \in Step
        /\ permits' = [n \in Node |-> IF n = NodeOf(i) THEN permits[n] + 1 ELSE permits[n]]
    BY <1>6 DEF SpawnFails, Returned, Step
  <2>2. ASSUME NEW n \in Node PROVE permits'[n] + Cardinality(Holding(n)') = Limit
    <3>1. CASE NodeOf(i) # n
      BY <2>1, <3>1, HoldsOne DEF PermitsOK
    <3>2. CASE NodeOf(i) = n
      <4>1. i \in Holding(n) /\ Holding(n) \in SUBSET Execution
        BY <1>6, <3>2 DEF SpawnFails, Holding
      <4>2. Holding(n)' = Holding(n) \ {i}
        BY <2>1, <4>1, HoldsOne
      <4>3. Cardinality(Holding(n)') = Cardinality(Holding(n)) - 1
        BY <4>1, <4>2, FiniteParts, FS_RemoveElement
      <4>4. permits'[n] = permits[n] + 1 /\ permits[n] \in Nat /\ Limit \in Nat
        BY <2>1, <3>2, CountAssumption DEF TypeOK
      <4>5. Cardinality(Holding(n)) \in Nat /\ permits[n] + Cardinality(Holding(n)) = Limit
        BY <4>1, FiniteParts DEF PermitsOK
      <4>. QED  BY <4>3, <4>4, <4>5
    <3>. QED  BY <3>1, <3>2
  <2>. QED  BY <2>2 DEF PermitsOK
<1>7. ASSUME NEW i \in Execution, Terminated(i) PROVE PermitsOK'
  <2>1. \A n \in Node : Holding(n)' = Holding(n)
    BY <1>7, HoldsOne DEF Terminated, Holding, Step
  <2>. QED  BY <1>7, <2>1 DEF Terminated, PermitsOK
<1>8. ASSUME NEW i \in Execution, Finalize(i) PROVE PermitsOK'
  <2>1. Goto(i, "done") /\ plan' = plan /\ "done" \in Step
        /\ permits' = [n \in Node |-> IF n = NodeOf(i) THEN permits[n] + 1 ELSE permits[n]]
    BY <1>8 DEF Finalize, Returned, Step
  <2>2. ASSUME NEW n \in Node PROVE permits'[n] + Cardinality(Holding(n)') = Limit
    <3>1. CASE NodeOf(i) # n
      BY <2>1, <3>1, HoldsOne DEF PermitsOK
    <3>2. CASE NodeOf(i) = n
      <4>1. i \in Holding(n) /\ Holding(n) \in SUBSET Execution
        BY <1>8, <3>2 DEF Finalize, Holding
      <4>2. Holding(n)' = Holding(n) \ {i}
        BY <2>1, <4>1, HoldsOne
      <4>3. Cardinality(Holding(n)') = Cardinality(Holding(n)) - 1
        BY <4>1, <4>2, FiniteParts, FS_RemoveElement
      <4>4. permits'[n] = permits[n] + 1 /\ permits[n] \in Nat /\ Limit \in Nat
        BY <2>1, <3>2, CountAssumption DEF TypeOK
      <4>5. Cardinality(Holding(n)) \in Nat /\ permits[n] + Cardinality(Holding(n)) = Limit
        BY <4>1, FiniteParts DEF PermitsOK
      <4>. QED  BY <4>3, <4>4, <4>5
    <3>. QED  BY <3>1, <3>2
  <2>. QED  BY <2>2 DEF PermitsOK
<1>9. ASSUME NEW i \in Execution, Exits(i) PROVE PermitsOK'
  <2>1. \A n \in Node : Holding(n)' = Holding(n)
    BY <1>9, HoldsOne DEF Exits, Holding, Step
  <2>. QED  BY <1>9, <2>1 DEF Exits, PermitsOK
<1>10. ASSUME NEW n \in Node, Grant(n) PROVE PermitsOK'
  <2>. DEFINE h == Head(waiters[n])
  <2>1. h \in Execution /\ NodeOf(h) = n /\ st[h] = "waiting"
    <3>1. waiters[n] \in Seq(Execution) /\ waiters[n] # <<>>
      BY <1>10 DEF Grant, TypeOK
    <3>2. h = waiters[n][1] /\ 1 \in 1..Len(waiters[n])
      BY <3>1
    <3>. QED  BY <3>1, <3>2 DEF WaitersOK
  <2>2. /\ Goto(h, "permitted") /\ plan' = plan /\ "permitted" \in Step
        /\ permits' = [permits EXCEPT ![n] = permits[n] - 1]
    BY <1>10 DEF Grant, Step
  <2>3. ASSUME NEW m \in Node PROVE permits'[m] + Cardinality(Holding(m)') = Limit
    <3>1. CASE m # n
      BY <2>1, <2>2, <3>1, HoldsOne DEF PermitsOK, TypeOK
    <3>2. CASE m = n
      <4>1. h \notin Holding(n) /\ Holding(n) \in SUBSET Execution
        BY <2>1 DEF Holding
      <4>2. Holding(n)' = Holding(n) \cup {h}
        BY <2>1, <2>2, HoldsOne
      <4>3. Cardinality(Holding(n)') = Cardinality(Holding(n)) + 1
        BY <4>1, <4>2, FiniteParts, FS_AddElement
      <4>4. permits'[n] = permits[n] - 1 /\ permits[n] \in Nat /\ Limit \in Nat
        BY <2>2, <3>2, CountAssumption DEF TypeOK
      <4>5. Cardinality(Holding(n)) \in Nat /\ permits[n] + Cardinality(Holding(n)) = Limit
        BY <4>1, FiniteParts DEF PermitsOK
      <4>. QED  BY <3>2, <4>3, <4>4, <4>5
    <3>. QED  BY <3>1, <3>2
  <2>. QED  BY <2>3 DEF PermitsOK
<1>11. CASE Signal
  BY <1>11 DEF Signal, TypeOK, PermitsOK, Holding, NodeOf
<1>12. CASE UNCHANGED vars
  BY <1>12 DEF vars, TypeOK, PermitsOK, Holding, NodeOf
<1>. QED  BY <1>1, <1>2, <1>3, <1>4, <1>5, <1>6, <1>7, <1>8, <1>9, <1>10, <1>11, <1>12
         DEF Next, Loops, RunOnce

\* What is done stays done, and what is not queued was not queued or may start.
LEMMA StartedBy ==
  ASSUME TypeOK, StartedOK, plan' = plan, NEW j \in Execution, NEW step \in Step \ {"queued"},
         Goto(j, step), st[j] # "done",
         st[j] = "queued" => AllDone(Before(j)) /\ (j \notin OnNode => AllDone(OnNode))
  PROVE  StartedOK'
<1>1. OnNode' = OnNode /\ \A i \in Execution : Before(i)' = Before(i)
  BY DEF OnNode, Before, NodeOf
<1>2. OnNode \subseteq Execution /\ \A i \in Execution : Before(i) \subseteq Execution
  BY CountAssumption DEF OnNode, Before, Execution
<1>3. \A S \in SUBSET Execution : AllDone(S) => AllDone(S)'
  BY DEF AllDone, Goto, TypeOK
<1>4. \A i \in Execution : st'[i] # "queued" =>
         AllDone(Before(i)) /\ (i \notin OnNode => AllDone(OnNode))
  BY DEF StartedOK, Goto, TypeOK
<1>5. ASSUME NEW i \in Execution, st'[i] # "queued"
      PROVE  AllDone(Before(i))' /\ (i \notin OnNode' => AllDone(OnNode)')
  BY <1>1, <1>2, <1>3, <1>4, <1>5
<1>. QED  BY <1>5 DEF StartedOK

\* Each queue and the local collectors start in their order.
LEMMA StartedStep ==
  ASSUME TypeOK, WaitersOK, StartedOK, [Next]_vars
  PROVE  StartedOK'
<1>1. ASSUME NEW i \in Execution, Ask(i) PROVE StartedOK'
  BY <1>1, StartedBy DEF Ask, Step
<1>2. ASSUME NEW i \in Execution, StartLocal(i) PROVE StartedOK'
  BY <1>2, StartedBy DEF StartLocal, Step
<1>3. ASSUME NEW i \in Execution, Looked(i) PROVE StartedOK'
  BY <1>3, StartedBy DEF Looked, Step
<1>4. ASSUME NEW i \in Execution, Skip(i) PROVE StartedOK'
  BY <1>4, StartedBy DEF Skip, Step, Returned
<1>5. ASSUME NEW i \in Execution, Spawn(i) PROVE StartedOK'
  BY <1>5, StartedBy DEF Spawn, Step
<1>6. ASSUME NEW i \in Execution, SpawnFails(i) PROVE StartedOK'
  BY <1>6, StartedBy DEF SpawnFails, Step, Returned
<1>7. ASSUME NEW i \in Execution, Terminated(i) PROVE StartedOK'
  BY <1>7, StartedBy DEF Terminated, Step
<1>8. ASSUME NEW i \in Execution, Finalize(i) PROVE StartedOK'
  BY <1>8, StartedBy DEF Finalize, Step, Returned
<1>9. ASSUME NEW i \in Execution, Exits(i) PROVE StartedOK'
  BY <1>9, StartedBy DEF Exits, Step
<1>10. ASSUME NEW n \in Node, Grant(n) PROVE StartedOK'
  <2>1. Head(waiters[n]) \in Execution /\ st[Head(waiters[n])] = "waiting"
    <3>1. waiters[n] \in Seq(Execution) /\ waiters[n] # <<>>
      BY <1>10 DEF Grant, TypeOK
    <3>2. Head(waiters[n]) = waiters[n][1] /\ 1 \in 1..Len(waiters[n])
      BY <3>1
    <3>. QED  BY <3>1, <3>2 DEF WaitersOK
  <2>. QED  BY <1>10, <2>1, StartedBy DEF Grant, Step
<1>11. CASE Signal
  BY <1>11 DEF Signal, StartedOK, AllDone, Before, OnNode, NodeOf
<1>12. CASE UNCHANGED vars
  BY <1>12 DEF vars, StartedOK, AllDone, Before, OnNode, NodeOf
<1>. QED  BY <1>1, <1>2, <1>3, <1>4, <1>5, <1>6, <1>7, <1>8, <1>9, <1>10, <1>11, <1>12
         DEF Next, Loops, RunOnce

-----------------------------------------------------------------------------
(* Theorems                                                                *)

\* The invariant holds in every reachable state.
THEOREM PhaseInvariant == Spec => []PhaseInv
<1>1. ASSUME Init PROVE PhaseInv
  <2>1. TypeOK
    <3>1. <<>> \in Seq(Execution) /\ Limit \in 0..Limit
      BY CountAssumption
    <3>. QED  BY <1>1, <3>1 DEF Init, TypeOK, Step
  <2>3. WaitersOK /\ StartedOK
    BY <1>1 DEF Init, WaitersOK, StartedOK
  <2>2. ASSUME NEW n \in Node PROVE permits[n] + Cardinality(Holding(n)) = Limit
    <3>1. Holding(n) = {}
      BY <1>1 DEF Init, Holding
    <3>. QED  BY <1>1, <3>1, CountAssumption, FS_EmptySet DEF Init
  <2>. QED  BY <2>1, <2>2, <2>3 DEF PhaseInv, PermitsOK
<1>2. PhaseInv /\ [Next]_vars => PhaseInv'
  BY TypeStep, WaitersStep, PermitsStep, StartedStep DEF PhaseInv
<1>. QED  BY <1>1, <1>2, PTL DEF Spec

\* Every reachable state of CollectorPhase is well typed: no permit is made up.
THEOREM PhaseTypeCorrect == Spec => []TypeOK
BY PhaseInvariant, PTL DEF PhaseInv

\* Whatever the phase, its queues and the limit: no node has more children of it
\* at once than the limit.
THEOREM NodesNotOverloaded == Spec => []NodeLimit
<1>1. PhaseInv => NodeLimit
  <2>1. SUFFICES ASSUME PhaseInv, NEW n \in Node
                 PROVE  Cardinality({i \in Execution : NodeOf(i) = n /\ st[i] = "up"}) <= Limit
    BY DEF NodeLimit
  <2>. DEFINE Up == {i \in Execution : NodeOf(i) = n /\ st[i] = "up"}
  <2>2. Up \subseteq Holding(n) /\ IsFiniteSet(Holding(n))
        /\ Cardinality(Holding(n)) \in Nat /\ Cardinality(Up) \in Nat
    BY FiniteParts DEF Holding
  <2>3. Cardinality(Up) <= Cardinality(Holding(n))
    BY <2>2, FS_Subset
  <2>4. permits[n] \in 0..Limit /\ permits[n] + Cardinality(Holding(n)) = Limit
    BY <2>1 DEF PhaseInv, TypeOK, PermitsOK
  <2>. QED  BY <2>2, <2>3, <2>4, CountAssumption
<1>. QED  BY <1>1, PhaseInvariant, PTL

\* In every phase, the collectors of a queue follow each other.
THEOREM QueuesInOrder == Spec => []QueueOrder
<1>1. PhaseInv => QueueOrder
  BY DEF PhaseInv, StartedOK, QueueOrder
<1>. QED  BY <1>1, PhaseInvariant, PTL

\* In every phase, local collectors start after all others.
THEOREM LocalsLast == Spec => []LocalLast
<1>1. PhaseInv => LocalLast
  BY DEF PhaseInv, StartedOK, LocalLast
<1>. QED  BY <1>1, PhaseInvariant, PTL

-----------------------------------------------------------------------------
(* The before phase and the benchmark                                      *)

\* Of what the phase reads, a benchmark only raises the flag.
LEMMA FlagRaised == ASSUME Bench!Next PROVE cancelled' = cancelled \/ (~cancelled /\ cancelled' = TRUE)
<1>1. ASSUME NEW s \in Bench!Stream, Bench!Capture(s) PROVE cancelled' = cancelled
  BY <1>1 DEF Bench!Capture, Bench!TakeLine, Bench!WriteLine, Bench!Observe, Bench!EndOfFile, Bench!env
<1>2. ASSUME NEW s \in Bench!Stream, NEW what \in Said, Bench!Write(s, what) PROVE cancelled' = cancelled
  BY <1>2 DEF Bench!Write
<1>3. ASSUME NEW how \in {"ok", "bad"}, Bench!Exit(how) PROVE cancelled' = cancelled
  BY <1>3 DEF Bench!Exit
<1>4. ASSUME NEW s \in Bench!Stream, Bench!Abort(s) PROVE cancelled' = cancelled
  BY <1>4 DEF Bench!Abort, Bench!env
<1>5. Bench!Main => cancelled' = cancelled
  BY <1>4 DEF Bench!Main, Bench!Waited, Bench!Terminated, Bench!Captured, Bench!DeadlinePasses,
              Bench!Aborted, Bench!Conclude, Bench!rest
<1>6. Bench!Interrupted \/ Bench!TimedOut \/ Bench!Idled => cancelled' = cancelled
  BY DEF Bench!Interrupted, Bench!TimedOut, Bench!Idled, Bench!StopBecause, Bench!rest
<1>7. Bench!Prompted \/ Bench!PromptCut => cancelled' = cancelled
  <2>1. ASSUME NEW step, NEW nextStep, NEW passed, Bench!Answer(step, nextStep, passed)
        PROVE  cancelled' = cancelled
    BY <2>1 DEF Bench!Answer
  <2>. QED  BY <2>1 DEF Bench!Prompted, Bench!PromptCut
<1>8. Bench!NotStarted \/ Bench!Spawn \/ Bench!HelperEnds \/ Bench!Silence => cancelled' = cancelled
  BY DEF Bench!NotStarted, Bench!Spawn, Bench!HelperEnds, Bench!Silence
<1>9. Bench!Cancel => ~cancelled /\ cancelled' = TRUE
  BY DEF Bench!Cancel
<1>. QED  BY <1>1, <1>2, <1>3, <1>5, <1>6, <1>7, <1>8, <1>9 DEF Bench!Next

\* A benchmark leaves the phase alone but for the flag.
LEMMA DuringIsSignal == ASSUME During(Bench!Next) PROVE Signal \/ UNCHANGED vars
<1>1. UNCHANGED phase /\ Bench!Next
  BY DEF During
<1>. QED  BY <1>1, FlagRaised DEF phase, vars, Signal

\* The phase of a run with a benchmark behaves as a phase does.
THEOREM PhaseImplemented == MeasureSpec => Spec
<1>1. MeasureInit => Init
  BY DEF MeasureInit
<1>2. [MeasureNext]_all => [Next]_vars
  <2>. SUFFICES ASSUME [MeasureNext]_all PROVE [Next]_vars
    OBVIOUS
  <2>1. CASE Prior(Next)
    BY <2>1 DEF Prior
  <2>2. CASE Begin \/ NoBenchmark
    BY <2>2 DEF Begin, NoBenchmark, phase, vars
  <2>3. CASE During(Bench!Next)
    BY <2>3, DuringIsSignal DEF Next
  <2>4. CASE UNCHANGED all
    BY <2>4 DEF all, phase, vars
  <2>. QED  BY <2>1, <2>2, <2>3, <2>4 DEF MeasureNext
<1>. QED  BY <1>1, <1>2, PTL DEF MeasureSpec, Spec


\* In a run with a benchmark, too, no node is overloaded, queues go in order and
\* local collectors come last (runner.rs, run_phase).
THEOREM RunKeepsPhase == MeasureSpec => [](NodeLimit /\ QueueOrder /\ LocalLast)
BY PhaseImplemented, NodesNotOverloaded, QueuesInOrder, LocalsLast, PTL

-----------------------------------------------------------------------------
(* The benchmark                                                           *)

BenchProof == INSTANCE BenchmarkCommandProofs

\* The benchmark that is proved about is the one of Measurement.
LEMMA SameStart == Bench!Init => BenchProof!Init
BY Zenon DEF Bench!Init, BenchProof!Init, Bench!NoObservation, BenchProof!NoObservation,
             Bench!NoResult, BenchProof!NoResult, Bench!Stream, BenchProof!Stream

LEMMA SameHidden == BenchProof!OperatorHidden => Bench!OperatorHidden
BY Zenon DEF Bench!OperatorHidden, BenchProof!OperatorHidden,
             Bench!Stream, BenchProof!Stream, Bench!Secret, BenchProof!Secret,
             Bench!ToSet, BenchProof!ToSet

LEMMA SameNext == Bench!Next => BenchProof!Next
BY Zenon DEF Bench!Next, BenchProof!Next, Bench!Main, BenchProof!Main,
             Bench!Capture, BenchProof!Capture, Bench!Write, BenchProof!Write,
             Bench!Exit, BenchProof!Exit, Bench!HelperEnds, BenchProof!HelperEnds,
             Bench!Cancel, BenchProof!Cancel, Bench!Silence, BenchProof!Silence,
             Bench!TakeLine, BenchProof!TakeLine, Bench!WriteLine, BenchProof!WriteLine,
             Bench!Observe, BenchProof!Observe, Bench!EndOfFile, BenchProof!EndOfFile,
             Bench!NotStarted, BenchProof!NotStarted, Bench!Spawn, BenchProof!Spawn,
             Bench!Waited, BenchProof!Waited, Bench!StopBecause, BenchProof!StopBecause,
             Bench!Interrupted, BenchProof!Interrupted,
             Bench!TimedOut, BenchProof!TimedOut, Bench!Idled, BenchProof!Idled,
             Bench!Terminated, BenchProof!Terminated,
             Bench!Captured, BenchProof!Captured,
             Bench!DeadlinePasses, BenchProof!DeadlinePasses,
             Bench!Abort, BenchProof!Abort, Bench!Aborted, BenchProof!Aborted,
             Bench!Conclude, BenchProof!Conclude, Bench!Verdict, BenchProof!Verdict,
             Bench!Answer, BenchProof!Answer, Bench!Prompted, BenchProof!Prompted,
             Bench!PromptCut, BenchProof!PromptCut, Bench!Prompts, BenchProof!Prompts,
             Bench!Line, BenchProof!Line, Bench!Lines, BenchProof!Lines,
             Bench!Lives, BenchProof!Lives, Bench!Secret, BenchProof!Secret,
             Bench!Eof, BenchProof!Eof, Bench!SetTask, BenchProof!SetTask,
             Bench!Result, BenchProof!Result, Bench!ResultLine, BenchProof!ResultLine,
             Bench!Boundary, BenchProof!Boundary, Bench!Score, BenchProof!Score,
             Bench!NoResult, BenchProof!NoResult, Bench!Stream, BenchProof!Stream,
             Bench!env, BenchProof!env, Bench!rest, BenchProof!rest,
             Bench!streams, BenchProof!streams, Bench!processes, BenchProof!processes,
             Bench!ToSet, BenchProof!ToSet, Bench!Front, BenchProof!Front

\* In a run, too, what the organizers print for themselves stays in the pipe,
\* whatever the phase before the benchmark did (benchmark.rs:409, :445).
THEOREM RunKeepsHidden == MeasureSpec => []Bench!OperatorHidden
<1>1. MeasureInit => BenchProof!HiddenInv
  BY BenchProof!StartsHidden, SameStart DEF MeasureInit
<1>2. BenchProof!HiddenInv /\ [MeasureNext]_all => BenchProof!HiddenInv'
  <2>. SUFFICES ASSUME BenchProof!HiddenInv, [MeasureNext]_all PROVE BenchProof!HiddenInv'
    OBVIOUS
  <2>1. CASE During(Bench!Next)
    BY <2>1, SameNext, BenchProof!StepKeeps DEF During
  <2>2. CASE UNCHANGED benchmark
    BY <2>2, BenchProof!RestKeeps DEF benchmark, BenchProof!streams
  <2>. QED  BY <2>1, <2>2 DEF MeasureNext, Prior, Begin, NoBenchmark, all
<1>3. BenchProof!HiddenInv => Bench!OperatorHidden
  BY BenchProof!HiddenSuffices, SameHidden
<1>. QED  BY <1>1, <1>2, <1>3, PTL DEF MeasureSpec

LEMMA SameWhole ==
    /\ BenchProof!LogsWhole => Bench!LogsWhole
    /\ BenchProof!PassIsEarned => Bench!PassIsEarned
    /\ BenchProof!InitializeKnown => Bench!InitializeKnown
<1>1. BenchProof!LogsWhole => Bench!LogsWhole
  BY Zenon DEF Bench!LogsWhole, BenchProof!LogsWhole, Bench!InOrder, BenchProof!InOrder,
               Bench!Open, BenchProof!Open, Bench!AllRead, BenchProof!AllRead, Bench!Done, BenchProof!Done,
               Bench!Stream, BenchProof!Stream, Bench!Secret, BenchProof!Secret,
               Bench!ToSet, BenchProof!ToSet
<1>2. BenchProof!PassIsEarned => Bench!PassIsEarned
  BY Zenon DEF Bench!PassIsEarned, BenchProof!PassIsEarned, Bench!Results, BenchProof!Results,
               Bench!ResultLine, BenchProof!ResultLine,
               Bench!AllRead, BenchProof!AllRead, Bench!Done, BenchProof!Done
<1>3. BenchProof!InitializeKnown => Bench!InitializeKnown
  BY Zenon DEF Bench!InitializeKnown, BenchProof!InitializeKnown, Bench!Stream, BenchProof!Stream,
               Bench!AllRead, BenchProof!AllRead, Bench!Done, BenchProof!Done
<1>. QED  BY <1>1, <1>2, <1>3

\* The phase before it changes nothing that the invariant of the benchmark
\* speaks of: the flag, which both read, is not among it.
LEMMA RunKeepsWhole == MeasureSpec => []BenchProof!WholeInv
<1>1. MeasureInit => BenchProof!WholeInv
  BY BenchProof!StartsWhole, SameStart DEF MeasureInit
<1>2. BenchProof!WholeInv /\ [MeasureNext]_all => BenchProof!WholeInv'
  <2>. SUFFICES ASSUME BenchProof!WholeInv, [MeasureNext]_all PROVE BenchProof!WholeInv'
    OBVIOUS
  <2>1. CASE During(Bench!Next)
    BY <2>1, SameNext, BenchProof!WholeStep DEF During
  <2>2. CASE UNCHANGED benchmark
    BY <2>2, BenchProof!FrameKeeps
       DEF benchmark, BenchProof!whole, BenchProof!processes, BenchProof!streams
  <2>. QED  BY <2>1, <2>2 DEF MeasureNext, Prior, Begin, NoBenchmark, all
<1>. QED  BY <1>1, <1>2, PTL DEF MeasureSpec

\* In a run, whatever the phase before did: the logs of its benchmark have all
\* that was said in the open, and nothing else (benchmark.rs:246, :409).
THEOREM RunOutputKept == MeasureSpec => []OutputKept
<1>1. BenchProof!WholeInv => OutputKept
  BY BenchProof!WholeSuffices, BenchProof!HiddenSuffices, SameWhole, SameHidden
     DEF OutputKept, BenchProof!WholeInv
<1>. QED  BY <1>1, RunKeepsWhole, PTL

\* And its verdict and the boundaries of initialize are those of its logs
\* (benchmark.rs:292, :445).
THEOREM RunResultFromLogs == MeasureSpec => []ResultFromLogs
<1>1. BenchProof!WholeInv => ResultFromLogs
  BY BenchProof!WholeSuffices, SameWhole DEF ResultFromLogs
<1>. QED  BY <1>1, RunKeepsWhole, PTL
=============================================================================
