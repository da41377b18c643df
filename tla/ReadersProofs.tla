----------------------------- MODULE ReadersProofs -----------------------------
(***************************************************************************)
(* Proofs about four modules of MCReaders: Comparison, HostSeries,         *)
(* GoProfile and StateLog, in this order.                                  *)
(*                                                                         *)
(* Comparison: ConditionsCompared, for any setups, outcomes and numbers of *)
(* runs.  What is saved with a run follows from its setup (Saved), and     *)
(* compare() and config_key() say the same of two setups (KeyCompares);    *)
(* the rest is about the order of the runs, and about counting them.       *)
(*                                                                         *)
(* HostSeries: HostRowsTrue, for any services, rows of sar and length of a *)
(* day.  Rows come in order but for one step back of the clock, never by   *)
(* half a day (SarInv), so that the clock of the parser has the date of    *)
(* every row; what was counted since a row of a service is at most what    *)
(* was used since it, and all of it without a restart (GroupInv).          *)
(*                                                                         *)
(* GoProfile: ProfileTrue, for any stacks, routes, functions and classes.  *)
(* What a stack grew by happened in the window (ProfileInv); the rest is   *)
(* about sums over the samples, and about the tables of a profile.         *)
(*                                                                         *)
(* StateLog: StatesTrue, for any objects, states, window and log.  What is *)
(* tracked after a line is what the lines up to it say of the objects      *)
(* (SeenInv); peaks, samples, transitions and stays are what those of the  *)
(* window make of it (PeaksOK, OccupancyOK, TransOK, StaysOK).             *)
(***************************************************************************)
EXTENDS Comparison, HostSeries, GoProfile, StateLog, FoldLemmas, FiniteSetTheorems, TLAPS

-----------------------------------------------------------------------------
(* The comparison and the key                                              *)

\* Two maps that differ nowhere are the same.
LEMMA NoDifference ==
    ASSUME NEW f, Known(f), NEW g, Known(g)
    PROVE  Differing(f, g) = {} <=> f = g
<1>1. ASSUME Differing(f, g) = {} PROVE f = g
  <2>1. \A k \in DOMAIN f \cup DOMAIN g : At(f, k) = At(g, k)
    BY <1>1 DEF Differing
  <2>2. ASSUME NEW k \in DOMAIN f PROVE k \in DOMAIN g /\ g[k] = f[k]
    BY <2>1 DEF At, Known
  <2>3. ASSUME NEW k \in DOMAIN g PROVE k \in DOMAIN f
    BY <2>1 DEF At, Known
  <2>4. DOMAIN f = DOMAIN g
    BY <2>2, <2>3
  <2>5. [k \in DOMAIN f |-> f[k]] = [k \in DOMAIN g |-> g[k]]
    BY <2>2, <2>4
  <2>. QED  BY <2>5 DEF Known
<1>2. ASSUME f = g PROVE Differing(f, g) = {}
  BY <1>2 DEF Differing
<1>. QED  BY <1>1, <1>2

LEMMA MergedKnown ==
    ASSUME NEW c \in Setup
    PROVE  Known(Fingerprints(c))
BY SetupAssumption DEF Fingerprints, Merged, Known

LEMMA LaterNothing ==
    ASSUME NEW c \in Setup, c.later = <<>>
    PROVE  Fingerprints(c) = c.nodes
<1>1. DOMAIN c.later = {}
  OBVIOUS
<1>2. c.nodes = [k \in DOMAIN c.nodes |-> c.nodes[k]]
  BY SetupAssumption DEF Known
<1>. QED  BY <1>1, <1>2 DEF Fingerprints, Merged

LEMMA IdentityCompares ==
    ASSUME NEW a \in Setup, NEW b \in Setup
    PROVE  ChangedIdentity(a, b) = {}
             <=> /\ Deployment(a) = Deployment(b)
                 /\ ~(a.identity = None /\ a.source = Empty)
<1>1. CASE a.identity = None /\ b.identity = None
  BY <1>1 DEF ChangedIdentity, When, Deployment
<1>2. CASE a.identity = None /\ b.identity # None
  BY <1>2 DEF ChangedIdentity, Deployment
<1>3. CASE a.identity # None /\ b.identity = None
  BY <1>3 DEF ChangedIdentity, Deployment
<1>4. CASE a.identity # None /\ b.identity # None
  <2>1. a.identity.bytes = b.identity.bytes => a.identity.values = b.identity.values
    BY <1>4, SetupAssumption
  <2>2. CASE DOMAIN a.identity.values = {} \/ DOMAIN b.identity.values = {}
    <3>1. ChangedIdentity(a, b) = {} <=> a.identity.bytes = b.identity.bytes
      BY <1>4, <2>2 DEF ChangedIdentity, When
    <3>2. Deployment(a) = Deployment(b) <=> a.identity.bytes = b.identity.bytes
      BY <1>4, <2>1, <2>2 DEF Deployment
    <3>. QED  BY <1>4, <3>1, <3>2
  <2>3. CASE ~(DOMAIN a.identity.values = {} \/ DOMAIN b.identity.values = {})
    <3>1. Known(a.identity.values) /\ Known(b.identity.values)
      BY <1>4, SetupAssumption
    <3>2. ChangedIdentity(a, b) = {} <=> Differing(a.identity.values, b.identity.values) = {}
      BY <1>4, <2>3 DEF ChangedIdentity
    <3>3. Deployment(a) = Deployment(b) <=> a.identity.values = b.identity.values
      BY <1>4, <2>3 DEF Deployment
    <3>. QED  BY <1>4, <3>1, <3>2, <3>3, NoDifference
  <2>. QED  BY <2>2, <2>3
<1>. QED  BY <1>1, <1>2, <1>3, <1>4

LEMMA ObservationCompares ==
    ASSUME NEW a \in Setup, NEW b \in Setup
    PROVE  ChangedObservation(a, b) = {}
             <=> /\ a.version = b.version /\ a.config = b.config /\ a.config # Empty
                 /\ a.routes = b.routes /\ a.files = b.files
<1>1. Differing(a.files, b.files) = {} <=> a.files = b.files
  BY SetupAssumption, NoDifference
<1>. DEFINE D == {<<"file", name>> : name \in Differing(a.files, b.files)}
<1>2. D = {} <=> Differing(a.files, b.files) = {}
  OBVIOUS
<1>. HIDE DEF D
<1>3. ChangedObservation(a, b) =
        When("version", a.version # b.version)
        \cup When("config", a.config = Empty \/ a.config # b.config)
        \cup When("routes", a.routes # b.routes) \cup D
  BY DEF ChangedObservation, D
<1>4. ChangedObservation(a, b) = {}
        <=> /\ When("version", a.version # b.version) = {}
            /\ When("config", a.config = Empty \/ a.config # b.config) = {}
            /\ When("routes", a.routes # b.routes) = {} /\ D = {}
  BY <1>3
<1>5. /\ When("version", a.version # b.version) = {} <=> a.version = b.version
      /\ When("config", a.config = Empty \/ a.config # b.config) = {}
            <=> a.config = b.config /\ a.config # Empty
      /\ When("routes", a.routes # b.routes) = {} <=> a.routes = b.routes
  BY DEF When
<1>. QED  BY <1>1, <1>2, <1>4, <1>5

LEMMA ChangedParts ==
    ASSUME NEW a, NEW mine, NEW b, NEW yours
    PROVE  Changed(a, mine, b, yours) = {}
             <=> /\ a.mode = b.mode
                 /\ ChangedIdentity(a, b) = {} /\ ChangedObservation(a, b) = {}
                 /\ Differing(mine, yours) = {}
<1>1. When("mode", a.mode # b.mode) = {} <=> a.mode = b.mode
  BY DEF When
<1>2. {<<"fingerprint", k>> : k \in Differing(mine, yours)} = {} <=> Differing(mine, yours) = {}
  OBVIOUS
<1>. QED  BY <1>1, <1>2 DEF Changed

KeyOf(c) == Key(c, Fingerprints(c))

LEMMA KeyCompares ==
    ASSUME NEW a \in Setup, NEW b \in Setup
    PROVE  Changed(a, Fingerprints(a), b, Fingerprints(b)) = {}
             <=> KeyOf(a) # None /\ KeyOf(a) = KeyOf(b)
<1>1. Differing(Fingerprints(a), Fingerprints(b)) = {} <=> Fingerprints(a) = Fingerprints(b)
  BY MergedKnown, NoDifference
<1>2. /\ Configuration(a, Fingerprints(a)) # None
      /\ Configuration(b, Fingerprints(b)) # None
  BY SetupAssumption
<1>3. Configuration(a, Fingerprints(a)) = Configuration(b, Fingerprints(b))
        <=> /\ a.mode = b.mode /\ Deployment(a) = Deployment(b) /\ a.version = b.version
            /\ a.config = b.config /\ a.routes = b.routes /\ a.files = b.files
            /\ Fingerprints(a) = Fingerprints(b)
  BY DEF Configuration
<1>4. Deployment(a) = Deployment(b)
        => /\ a.identity = None <=> b.identity = None
           /\ a.identity = None => a.source = b.source
  BY DEF Deployment
<1>5. KeyOf(a) # None /\ KeyOf(a) = KeyOf(b)
        <=> /\ a.config # Empty /\ ~(a.identity = None /\ a.source = Empty)
            /\ b.config # Empty /\ ~(b.identity = None /\ b.source = Empty)
            /\ Configuration(a, Fingerprints(a)) = Configuration(b, Fingerprints(b))
  BY <1>2 DEF KeyOf, Key
<1>. QED  BY <1>1, <1>3, <1>4, <1>5, ChangedParts, IdentityCompares, ObservationCompares

-----------------------------------------------------------------------------
(* The saved runs                                                          *)

Saved ==
    {[of |-> c, reason |-> reason, outcome |-> o, key |-> KeyOf(c)] :
        c \in Setup, reason \in BOOLEAN, o \in Outcome}

\* Of two runs, the earlier of which is the last one that ran to its end
\* before the later one, which was started without a reason.
Asks(i, j) ==
    /\ RanToItsEnd(runs[i]) /\ runs[j].outcome.started /\ ~runs[j].reason
    /\ \A k \in i + 1..j - 1 : ~RanToItsEnd(runs[k])
    /\ runs[i].of.later = <<>> /\ runs[j].of.later = <<>>

\* The later one is another setup.
Refuses ==
    \A j \in DOMAIN runs : \A i \in 1..j - 1 : Asks(i, j) => ~SameSetup(<<i, j>>)

SavedInv == runs \in Seq(Saved) /\ Refuses

LEMMA SavedParts ==
    ASSUME runs \in Seq(Saved), NEW i \in DOMAIN runs
    PROVE  /\ runs[i].of \in Setup /\ runs[i].outcome \in Outcome
           /\ runs[i].reason \in BOOLEAN /\ runs[i].key = KeyOf(runs[i].of)
<1>1. runs[i] \in Saved
  OBVIOUS
<1>. QED  BY <1>1 DEF Saved

\* t is s and then x.
OneMore(t, s, x) ==
    /\ DOMAIN s = 1..Len(s) /\ DOMAIN t = 1..Len(s) + 1 /\ t[Len(s) + 1] = x
    /\ \A i \in 1..Len(s) : t[i] = s[i]

LEMMA Appended ==
    ASSUME NEW S, NEW s, s \in Seq(S), NEW x, x \in S
    PROVE  Append(s, x) \in Seq(S) /\ OneMore(Append(s, x), s, x) /\ Len(s) \in Nat
<1>1. /\ Append(s, x) \in Seq(S) /\ Len(Append(s, x)) = Len(s) + 1 /\ Len(s) \in Nat
  OBVIOUS
<1>2. DOMAIN Append(s, x) = 1..Len(s) + 1
  BY <1>1
<1>3. Append(s, x)[Len(s) + 1] = x
  BY <1>1
<1>4. ASSUME NEW i \in 1..Len(s) PROVE Append(s, x)[i] = s[i]
  BY <1>1
<1>. QED  BY <1>1, <1>2, <1>3, <1>4 DEF OneMore

LEMMA SavedInit == Init => SavedInv
BY DEF Init, SavedInv, Refuses

LEMMA SavedNext == SavedInv /\ [Next]_runs => SavedInv'
<1>. SUFFICES ASSUME SavedInv, [Next]_runs PROVE SavedInv'
  OBVIOUS
<1>1. CASE runs' = runs
  BY <1>1 DEF SavedInv, Refuses, Asks, RanToItsEnd, SameSetup
<1>2. CASE Next
  <2>1. PICK c \in Setup, reason \in BOOLEAN, o \in Outcome : Measure(c, reason, o)
    BY <1>2 DEF Next
  <2>. DEFINE new == [of |-> c, reason |-> reason, outcome |-> o, key |-> KeyOf(c)]
              n == Len(runs)
  <2>2. new \in Saved
    BY DEF Saved
  <2>3. runs \in Seq(Saved) /\ n \in Nat /\ DOMAIN runs = 1..n
    BY DEF SavedInv
  <2>4. runs' = Append(runs, new)
    BY <2>1 DEF Measure, KeyOf
  <2>. HIDE DEF new
  <2>5. /\ runs' \in Seq(Saved) /\ DOMAIN runs' = 1..n + 1
        /\ runs'[n + 1] = new
        /\ \A i \in 1..n : runs'[i] = runs[i]
    <3>1. runs' \in Seq(Saved) /\ OneMore(runs', runs, new)
      BY <2>2, <2>3, <2>4, Appended
    <3>. QED  BY <3>1 DEF OneMore
  <2>6. ASSUME NEW j \in DOMAIN runs', NEW i \in 1..j - 1, Asks(i, j)'
        PROVE  ~SameSetup(<<i, j>>)'
    <3>1. CASE j # n + 1
      <4>1. j \in DOMAIN runs /\ i \in 1..n /\ j \in 1..n
        BY <2>3, <2>5, <3>1
      <4>2. \A k \in i + 1..j - 1 : runs'[k] = runs[k]
        BY <2>3, <2>5, <4>1
      <4>3. Asks(i, j)
        BY <2>5, <2>6, <4>1, <4>2 DEF Asks, RanToItsEnd
      <4>4. ~SameSetup(<<i, j>>)
        BY <4>1, <4>3 DEF SavedInv, Refuses
      <4>. QED  BY <2>5, <4>1, <4>4 DEF SameSetup
    <3>2. CASE j = n + 1
      <4>1. i \in 1..n /\ runs'[i] = runs[i] /\ runs'[j] = new
        BY <2>3, <2>5, <3>2
      <4>2. RanToItsEnd(runs[i]) /\ o.started /\ ~reason
        BY <2>6, <4>1 DEF Asks, RanToItsEnd, new
      <4>3. \A k \in i + 1..n : ~RanToItsEnd(runs[k])
        BY <2>3, <2>5, <2>6, <3>2, <4>1 DEF Asks, RanToItsEnd
      <4>4. i \in Started /\ \A k \in Started : k <= i
        BY <2>3, <4>1, <4>2, <4>3 DEF Started
      <4>5. Max(Started) = i
        <5>1. Started \subseteq Int
          BY <2>3 DEF Started
        <5>. QED  BY <4>4, <5>1, MaxIs
      <4>6. Changed(runs[i].of, Fingerprints(runs[i].of), c, c.nodes) # {}
        BY <2>1, <4>2, <4>4, <4>5 DEF Measure, Refused
      <4>7. runs[i].of \in Setup
        BY <2>3, <4>1, SavedParts
      <4>8. Fingerprints(c) = c.nodes
        BY <2>6, <4>1, LaterNothing DEF Asks, new
      <4>. QED  BY <4>1, <4>6, <4>8 DEF SameSetup, new
    <3>. QED  BY <3>1, <3>2
  <2>7. Refuses'
    BY <2>6 DEF Refuses
  <2>. QED  BY <2>5, <2>7 DEF SavedInv
<1>. QED  BY <1>1, <1>2

-----------------------------------------------------------------------------
(* What follows for keys, repeats and conditions                           *)

LEMMA PairParts ==
    ASSUME runs \in Seq(Saved), NEW p \in Pairs
    PROVE  /\ p[1] \in DOMAIN runs /\ p[2] \in DOMAIN runs /\ p[1] < p[2]
           /\ p[1] \in 1..p[2] - 1 /\ p = <<p[1], p[2]>>
BY DEF Pairs

LEMMA KeysCompare == SavedInv => KeyIsComparison
<1>. SUFFICES ASSUME SavedInv, NEW p \in Pairs
             PROVE  SameSetup(p) <=> runs[p[1]].key # None /\ runs[p[1]].key = runs[p[2]].key
  BY DEF KeyIsComparison
<1>1. /\ p[1] \in DOMAIN runs /\ p[2] \in DOMAIN runs /\ runs \in Seq(Saved)
  BY PairParts DEF SavedInv
<1>2. /\ runs[p[1]].of \in Setup /\ runs[p[1]].key = KeyOf(runs[p[1]].of)
      /\ runs[p[2]].of \in Setup /\ runs[p[2]].key = KeyOf(runs[p[2]].of)
  BY <1>1, SavedParts
<1>. QED  BY <1>2, KeyCompares DEF SameSetup

LEMMA RepeatsAsk == SavedInv => NoSilentRepeat
<1>. SUFFICES ASSUME SavedInv, NEW p \in Pairs, Asks(p[1], p[2])
             PROVE  ~SameSetup(p)
  BY DEF NoSilentRepeat, Asks
<1>1. p[2] \in DOMAIN runs /\ p[1] \in 1..p[2] - 1 /\ p = <<p[1], p[2]>>
  BY PairParts DEF SavedInv
<1>. QED  BY <1>1 DEF SavedInv, Refuses

LEMMA ConditionsKnown == ConditionsHonest
<1>. SUFFICES ASSUME NEW i \in DOMAIN runs, Review(i) # None
             PROVE LET j == Review(i).base
                       a == runs[j].of  b == runs[i].of
                       shown == Review(i).conditions
                       changed == Changed(a, Fingerprints(a), b, Fingerprints(b))
                   IN /\ ChangedObservation(a, b) # {} => shown.observation # "same"
                      /\ (\E x \in changed : x[1] = "fingerprint") => shown.environment # "same"
                      /\ shown.source = "same" => a.source # Empty /\ a.source = b.source
                      /\ shown.observation = "same" => Empty \notin {a.config, b.config}
                      /\ shown.environment = "same" => DOMAIN Fingerprints(a) # {}
  BY DEF ConditionsHonest
<1>. DEFINE j == Max(Previous(i))
            a == runs[j].of
            b == runs[i].of
            shown == Conditions(a, b)
            mine == Fingerprints(a)
            yours == Fingerprints(b)
<1>1. Review(i).base = j /\ Review(i).conditions = shown
  BY DEF Review
<1>. HIDE DEF j, a, b, mine, yours
<1>2. shown.observation = "same"
        => /\ a.routes = b.routes /\ a.version = b.version /\ Differing(a.files, b.files) = {}
           /\ CompareHash(a.config, b.config) = "same"
  BY DEF Conditions
<1>3. CompareHash(a.config, b.config) = "same" => Empty \notin {a.config, b.config} /\ a.config = b.config
  BY DEF CompareHash
<1>4. shown.observation = "same" => ChangedObservation(a, b) = {}
  BY <1>2, <1>3 DEF ChangedObservation, When
<1>5. shown.environment = "same" => DOMAIN mine # {} /\ Differing(mine, yours) = {}
  BY DEF Conditions, mine, yours
<1>6. ASSUME NEW x \in Changed(a, mine, b, yours), x[1] = "fingerprint"
      PROVE  Differing(mine, yours) # {}
  BY <1>6 DEF Changed, ChangedIdentity, ChangedObservation, When
<1>7. shown.source = "same" => a.source # Empty /\ a.source = b.source
  BY DEF Conditions, CompareHash
<1>. QED  BY <1>1, <1>2, <1>3, <1>4, <1>5, <1>6, <1>7 DEF a, b, mine, yours

-----------------------------------------------------------------------------
(* The spread                                                              *)

\* A set that has two members of each of the disjoint sets of a family has
\* at least twice as many members as the family.
LEMMA TwoOfEach ==
    ASSUME NEW K, NEW G, NEW U, IsFiniteSet(U),
           \A k \in K : G[k] \subseteq U /\ \E x, y \in G[k] : x # y,
           \A k, l \in K : \A x \in G[k] : x \in G[l] => k = l
    PROVE  IsFiniteSet(K) /\ Cardinality(U) >= 2 * Cardinality(K)
<1>. DEFINE one == [k \in K |-> CHOOSE x \in G[k] : TRUE]
            two == [k \in K |-> CHOOSE x \in G[k] : x # one[k]]
            Ones == {one[k] : k \in K}
            Twos == {two[k] : k \in K}
<1>1. \A k \in K : one[k] \in G[k]
  OBVIOUS
<1>3. one \in [K -> Ones] /\ two \in [K -> Twos]
  OBVIOUS
<1>. HIDE DEF one
<1>2. \A k \in K : two[k] \in G[k] /\ two[k] # one[k]
  <2>. TAKE k \in K
  <2>1. \E x \in G[k] : x # one[k]
    OBVIOUS
  <2>. QED  BY <2>1
<1>. HIDE DEF two
<1>4. one \in Bijection(K, Ones) /\ two \in Bijection(K, Twos)
  BY <1>1, <1>2, <1>3 DEF Bijection, Injection, Surjection, IsInjective
<1>6. Ones \subseteq U /\ Twos \subseteq U /\ Ones \cap Twos = {} /\ Ones \cup Twos \subseteq U
  BY <1>1, <1>2
<1>7. IsFiniteSet(Ones) /\ IsFiniteSet(Twos)
  BY <1>6, FS_Subset
<1>8. one \in Injection(K, Ones) /\ one \in Surjection(K, Ones) /\ two \in Injection(K, Twos) /\ two \in Surjection(K, Twos)
  BY <1>4 DEF Bijection
<1>. HIDE DEF Ones, Twos
<1>9. IsFiniteSet(K) /\ Cardinality(K) = Cardinality(Ones) /\ Cardinality(K) = Cardinality(Twos)
  BY <1>7, <1>8, FS_Injection
<1>10. Cardinality(Ones \cup Twos) = Cardinality(Ones) + Cardinality(Twos)
  <2>1. Cardinality(Ones \cap Twos) = 0
    BY <1>6, FS_EmptySet
  <2>2. Cardinality(Ones) \in Nat /\ Cardinality(Twos) \in Nat
    BY <1>7, FS_CardinalityType
  <2>3. Cardinality(Ones \cup Twos)
          = Cardinality(Ones) + Cardinality(Twos) - Cardinality(Ones \cap Twos)
    BY <1>7, FS_Union
  <2>. QED  BY <2>1, <2>2, <2>3
<1>11. Cardinality(Ones \cup Twos) <= Cardinality(U)
  BY <1>6, FS_Subset
<1>12. Cardinality(U) \in Nat /\ Cardinality(K) \in Nat
  BY <1>9, FS_CardinalityType
<1>. QED  BY <1>9, <1>10, <1>11, <1>12

\* What counts for the spread of a run.
Scores(i, key) == ScoresBefore(i, key)
UsedKeys(i) ==
    {key \in {runs[j].key : j \in 1..i - 1} :
        /\ Cardinality(Scores(i, key)) >= 2
        /\ Total(Scores(i, key)) # 0}
Used(i) == UNION {Scores(i, key) : key \in UsedKeys(i)}

LEMMA PooledIs ==
    ASSUME NEW i
    PROVE  /\ Pooled(i).configs = Cardinality(UsedKeys(i)) /\ Pooled(i).runs = Cardinality(Used(i))
           /\ Pooled(i).spread <=> Cardinality(Used(i)) > Cardinality(UsedKeys(i))
BY DEF Pooled, Used, UsedKeys, Scores

LEMMA ScoresFacts ==
    ASSUME NEW i \in Nat, NEW key
    PROVE  /\ Scores(i, key) \subseteq 1..i - 1 /\ IsFiniteSet(Scores(i, key))
           /\ \A j \in Scores(i, key) : Measurement(runs[j]) /\ runs[j].key = key /\ key # None
           /\ Cardinality(Scores(i, key)) \in Nat
<1>1. Scores(i, key) \subseteq 1..i - 1
  BY DEF Scores, ScoresBefore
<1>2. IsFiniteSet(1..i - 1)
  BY FS_Interval
<1>3. IsFiniteSet(Scores(i, key))
  BY <1>1, <1>2, FS_Subset
<1>4. \A j \in Scores(i, key) : Measurement(runs[j]) /\ runs[j].key = key /\ key # None
  BY DEF Scores, ScoresBefore, Measurement
<1>. QED  BY <1>1, <1>3, <1>4, FS_CardinalityType

\* Two members, and the other way round.
LEMMA AtLeastTwo ==
    ASSUME NEW S, IsFiniteSet(S)
    PROVE  Cardinality(S) >= 2 <=> \E x, y \in S : x # y
<1>1. ASSUME NEW x \in S, NEW y \in S, x # y PROVE Cardinality(S) >= 2
  <2>1. {x, y} \subseteq S /\ IsFiniteSet({x}) /\ IsFiniteSet({x, y})
    BY FS_Subset, FS_Singleton
  <2>2. Cardinality({x, y}) <= Cardinality(S)
    BY <2>1, FS_Subset
  <2>3. Cardinality({x}) = 1 /\ {x, y} = {x} \cup {y} /\ y \notin {x}
    BY <1>1, FS_Singleton
  <2>4. Cardinality({x} \cup {y}) = Cardinality({x}) + 1
    BY <2>1, <2>3, FS_AddElement
  <2>5. Cardinality(S) \in Nat
    BY FS_CardinalityType
  <2>6. Cardinality({x, y}) = 2
    BY <2>3, <2>4
  <2>. QED  BY <2>2, <2>5, <2>6
<1>2. ASSUME Cardinality(S) >= 2 PROVE \E x, y \in S : x # y
  <2>1. S # {}
    BY <1>2, FS_EmptySet
  <2>2. PICK x \in S : TRUE
    BY <2>1
  <2>3. S # {x}
    BY <1>2, FS_Singleton
  <2>. QED  BY <2>2, <2>3
<1>. QED  BY <1>1, <1>2

LEMMA UsedTwice ==
    ASSUME NEW i \in Nat
    PROVE  /\ Cardinality(Used(i)) >= 2 * Cardinality(UsedKeys(i))
           /\ Cardinality(Used(i)) > Cardinality(UsedKeys(i)) <=> UsedKeys(i) # {}
<1>. DEFINE K == UsedKeys(i)
            G == [key \in K |-> Scores(i, key)]
            U == Used(i)
<1>1. U \subseteq 1..i - 1
  BY ScoresFacts DEF Used
<1>2. IsFiniteSet(U)
  BY <1>1, FS_Interval, FS_Subset
<1>3. \A key \in K : G[key] \subseteq U
  BY DEF Used
<1>4. \A key \in K : \E x, y \in G[key] : x # y
  BY ScoresFacts, AtLeastTwo DEF UsedKeys
<1>5. \A k, l \in K : \A x \in G[k] : x \in G[l] => k = l
  BY ScoresFacts
<1>. HIDE DEF K, G, U
<1>6. IsFiniteSet(K) /\ Cardinality(U) >= 2 * Cardinality(K)
  BY <1>2, <1>3, <1>4, <1>5, TwoOfEach
<1>7. Cardinality(U) \in Nat /\ Cardinality(K) \in Nat
  BY <1>2, <1>6, FS_CardinalityType
<1>8. K # {} => Cardinality(K) # 0
  BY <1>6, FS_EmptySet
<1>9. K = {} => U = {}
  BY DEF K, U, Used
<1>10. U = {} => Cardinality(U) = 0
  BY FS_EmptySet
<1>. QED  BY <1>6, <1>7, <1>8, <1>9, <1>10 DEF K, U

\* Two measurements of one configuration, before the run.
Repeated(i, p) ==
    /\ p[2] < i /\ SameSetup(p)
    /\ \A k \in {p[1], p[2]} : runs[k].outcome.passed
           /\ RanToItsEnd(runs[k]) /\ runs[k].outcome.score # None
    /\ Total(ScoresBefore(i, runs[p[1]].key)) # 0

LEMMA MeasuredRan ==
    ASSUME runs \in Seq(Saved), NEW j \in DOMAIN runs
    PROVE  Measurement(runs[j]) <=>
             runs[j].outcome.passed /\ RanToItsEnd(runs[j]) /\ runs[j].key # None
BY SavedParts, OutcomeAssumption DEF Measurement, RanToItsEnd

LEMMA SpreadKnown ==
    ASSUME SavedInv, NEW i \in DOMAIN runs
    PROVE  UsedKeys(i) # {} <=> \E p \in Pairs : Repeated(i, p)
<1>1. KeyIsComparison /\ runs \in Seq(Saved) /\ DOMAIN runs = 1..Len(runs) /\ Len(runs) \in Nat
  BY KeysCompare DEF SavedInv
<1>2. ASSUME NEW key \in UsedKeys(i) PROVE \E p \in Pairs : Repeated(i, p)
  <2>1. PICK x \in Scores(i, key), y \in Scores(i, key) : x # y
    BY <1>1, ScoresFacts, AtLeastTwo DEF UsedKeys
  <2>2. x \in 1..i - 1 /\ y \in 1..i - 1
    BY <1>1, ScoresFacts
  <2>3. PICK m \in Scores(i, key), n \in Scores(i, key) : m < n /\ m \in 1..i - 1 /\ n \in 1..i - 1
    <3>1. CASE x < y
      BY <2>2, <3>1
    <3>2. CASE y < x
      BY <2>2, <3>2
    <3>. QED  BY <2>1, <2>2, <3>1, <3>2
  <2>. DEFINE p == <<m, n>>
  <2>4. m \in DOMAIN runs /\ n \in DOMAIN runs
    BY <1>1, <2>3
  <2>5. p \in Pairs
    BY <2>3, <2>4 DEF Pairs
  <2>6. runs[m].key = key /\ runs[n].key = key /\ key # None
    BY <1>1, <2>3, ScoresFacts
  <2>7. SameSetup(p)
    BY <1>1, <2>5, <2>6 DEF KeyIsComparison
  <2>8. \A k \in {m, n} : runs[k].outcome.score # None /\ Measurement(runs[k])
    BY DEF Scores, ScoresBefore
  <2>9. \A k \in {m, n} : runs[k].outcome.passed /\ RanToItsEnd(runs[k])
    BY <1>1, <2>4, <2>8, MeasuredRan
  <2>10. Total(ScoresBefore(i, runs[m].key)) # 0
    BY <2>6 DEF UsedKeys, Scores
  <2>11. n < i
    BY <1>1, <2>3
  <2>. QED  BY <2>5, <2>7, <2>8, <2>9, <2>10, <2>11 DEF Repeated
<1>3. ASSUME NEW p \in Pairs, Repeated(i, p) PROVE UsedKeys(i) # {}
  <2>. DEFINE key == runs[p[1]].key
  <2>1. /\ p[1] \in DOMAIN runs /\ p[2] \in DOMAIN runs /\ p[1] < p[2]
    BY <1>1, PairParts
  <2>2. p[1] \in 1..i - 1 /\ p[2] \in 1..i - 1
    BY <1>1, <1>3, <2>1 DEF Repeated
  <2>3. key # None /\ runs[p[2]].key = key
    BY <1>1, <1>3 DEF Repeated, KeyIsComparison
  <2>. HIDE DEF key
  <2>4. Measurement(runs[p[1]]) /\ Measurement(runs[p[2]])
    BY <1>1, <1>3, <2>1, <2>3, MeasuredRan DEF Repeated, key
  <2>5. p[1] \in Scores(i, key) /\ p[2] \in Scores(i, key)
    BY <1>3, <2>2, <2>3, <2>4 DEF Repeated, Scores, ScoresBefore, key
  <2>6. Cardinality(Scores(i, key)) >= 2
    BY <1>1, <2>1, <2>5, ScoresFacts, AtLeastTwo
  <2>7. Total(Scores(i, key)) # 0
    BY <1>3 DEF Repeated, Scores, key
  <2>. QED  BY <2>2, <2>6, <2>7 DEF UsedKeys, key
<1>. QED  BY <1>2, <1>3

LEMMA SpreadFound == SavedInv => SpreadIsRepeats
<1>. SUFFICES ASSUME SavedInv, NEW i \in DOMAIN runs
             PROVE  /\ Pooled(i).spread <=> \E p \in Pairs : Repeated(i, p)
                    /\ Pooled(i).runs >= 2 * Pooled(i).configs
  BY DEF SpreadIsRepeats, Repeated
<1>1. i \in Nat
  BY DEF SavedInv
<1>. QED  BY <1>1, PooledIs, UsedTwice, SpreadKnown

\* In every reachable state, keys say what compare() says, a repeat was not
\* measured without a reason, a spread is of repeated measurements, and the
\* conditions shown beside a difference of scores hide nothing that the
\* check would have named (repeat.rs, variance.rs, changes.rs).
THEOREM RunsAreCompared == Spec => []ConditionsCompared
<1>1. SavedInv => ConditionsCompared
  BY KeysCompare, RepeatsAsk, SpreadFound, ConditionsKnown DEF ConditionsCompared
<1>. QED  BY SavedInit, SavedNext, <1>1, PTL DEF Spec

-----------------------------------------------------------------------------
(* HostSeries                                                              *)

-----------------------------------------------------------------------------
(* The control groups                                                      *)

\* A row of the sampler.
GroupRow == [at : Int, service : Service, cpu : Int, used : Int, born : Int]

\* What was counted since a row is at most what was used since it, and all of
\* it if the service was not restarted since.
Since(row, cpuNow, usedNow, bornNow) ==
    /\ cpuNow - row.cpu <= usedNow - row.used
    /\ row.born <= bornNow
    /\ row.born = bornNow => cpuNow - row.cpu = usedNow - row.used

GroupTyped ==
    /\ now \in Int
    /\ counter \in [Service -> Nat] /\ used \in [Service -> Nat] /\ born \in [Service -> Nat]
    /\ cgroup \in Seq(GroupRow)

GroupInv ==
    /\ GroupTyped
    /\ \A i \in 1..Len(cgroup) :
        LET s == cgroup[i].service IN Since(cgroup[i], counter[s], used[s], born[s])
    /\ \A i \in 1..Len(cgroup) : \A j \in i + 1..Len(cgroup) :
        cgroup[j].service = cgroup[i].service =>
            Since(cgroup[i], cgroup[j].cpu, cgroup[j].used, cgroup[j].born)

LEMMA SinceUse ==
    ASSUME NEW row, NEW c \in Int, NEW u \in Int, NEW b, row.cpu \in Int, row.used \in Int,
           Since(row, c, u, b)
    PROVE  Since(row, c + 1, u + 1, b)
<1>. DEFINE rc == row.cpu
            ru == row.used
<1>1. rc \in Int /\ ru \in Int /\ c - rc <= u - ru => c + 1 - rc <= u + 1 - ru
  OBVIOUS
<1>2. rc \in Int /\ ru \in Int /\ c - rc = u - ru => c + 1 - rc = u + 1 - ru
  OBVIOUS
<1>. QED  BY <1>1, <1>2 DEF Since

LEMMA GroupStart == HostInit => GroupInv
<1>. SUFFICES ASSUME HostInit PROVE GroupInv
  OBVIOUS
<1>. USE DEF HostInit, GroupInv, GroupTyped
<1>1. cgroup = <<>> /\ Len(cgroup) = 0 /\ cgroup \in Seq(GroupRow)
  OBVIOUS
<1>2. now \in Int
  BY HostAssumption
<1>. QED  BY <1>1, <1>2

LEMMA GroupUse ==
    ASSUME GroupInv, NEW s \in Service, Use(s) PROVE GroupInv'
<1>. USE DEF GroupInv, GroupTyped, Use
<1>1. /\ counter' = [counter EXCEPT ![s] = counter[s] + 1]
      /\ used' = [used EXCEPT ![s] = used[s] + 1] /\ UNCHANGED <<born, cgroup, now>>
  OBVIOUS
<1>2. counter' \in [Service -> Nat] /\ used' \in [Service -> Nat]
  BY <1>1
<1>3. ASSUME NEW i \in 1..Len(cgroup)
      PROVE  LET o == cgroup[i].service IN Since(cgroup[i], counter'[o], used'[o], born'[o])
  <2>. DEFINE o == cgroup[i].service
  <2>1. cgroup[i] \in GroupRow
    OBVIOUS
  <2>2. o \in Service /\ cgroup[i].cpu \in Int /\ cgroup[i].used \in Int /\ cgroup[i].born \in Int
    BY <2>1 DEF GroupRow
  <2>3. Since(cgroup[i], counter[o], used[o], born[o])
    OBVIOUS
  <2>4. counter[o] \in Nat /\ used[o] \in Nat /\ born[o] \in Nat
    BY <2>2
  <2>5. CASE o = s
    <3>1. counter'[o] = counter[o] + 1 /\ used'[o] = used[o] + 1 /\ born'[o] = born[o]
      BY <1>1, <2>2, <2>5
    <3>. HIDE DEF o
    <3>2. Since(cgroup[i], counter[o] + 1, used[o] + 1, born[o])
      BY <2>2, <2>3, <2>4, SinceUse
    <3>. QED  BY <3>1, <3>2 DEF o
  <2>6. CASE o # s
    <3>1. counter'[o] = counter[o] /\ used'[o] = used[o] /\ born'[o] = born[o]
      BY <1>1, <2>2, <2>6
    <3>. QED  BY <2>3, <3>1
  <2>. QED  BY <2>5, <2>6
<1>. QED  BY <1>1, <1>2, <1>3

LEMMA GroupRestart ==
    ASSUME GroupInv, NEW s \in Service, RestartService(s) PROVE GroupInv'
<1>. USE DEF GroupInv, GroupTyped, RestartService
<1>1. /\ counter' = [counter EXCEPT ![s] = 0] /\ born[s] = 0
      /\ born' = [born EXCEPT ![s] = 1] /\ UNCHANGED <<used, cgroup, now>>
  OBVIOUS
<1>2. counter' \in [Service -> Nat] /\ born' \in [Service -> Nat]
  BY <1>1
<1>3. ASSUME NEW i \in 1..Len(cgroup)
      PROVE  LET o == cgroup[i].service IN Since(cgroup[i], counter'[o], used'[o], born'[o])
  <2>. DEFINE o == cgroup[i].service
  <2>1. cgroup[i] \in GroupRow
    OBVIOUS
  <2>2. o \in Service /\ cgroup[i].cpu \in Int /\ cgroup[i].used \in Int /\ cgroup[i].born \in Int
    BY <2>1 DEF GroupRow
  <2>3. Since(cgroup[i], counter[o], used[o], born[o])
    OBVIOUS
  <2>4. counter[o] \in Nat /\ used[o] \in Nat /\ born[o] \in Nat
    BY <2>2
  <2>5. CASE o = s
    <3>1. counter'[o] = 0 /\ used'[o] = used[o] /\ born'[o] = 1 /\ born[o] = 0
      BY <1>1, <2>2, <2>5
    <3>. HIDE DEF o, GroupInv, GroupTyped, RestartService
    <3>2. counter[o] - cgroup[i].cpu <= used[o] - cgroup[i].used /\ cgroup[i].born <= born[o]
      BY <2>3 DEF Since
    <3>3. 0 - cgroup[i].cpu <= used[o] - cgroup[i].used
      BY <2>2, <2>4, <3>2
    <3>4. Since(cgroup[i], 0, used[o], 1)
      BY <2>2, <3>1, <3>2, <3>3 DEF Since
    <3>. QED  BY <3>1, <3>4 DEF o
  <2>6. CASE o # s
    <3>1. counter'[o] = counter[o] /\ used'[o] = used[o] /\ born'[o] = born[o]
      BY <1>1, <2>2, <2>6
    <3>. QED  BY <2>3, <3>1
  <2>. QED  BY <2>5, <2>6
<1>. QED  BY <1>1, <1>2, <1>3

LEMMA GroupAppend ==
    ASSUME GroupInv, NEW s \in Service, ServiceRow(s) PROVE GroupInv'
<1>. DEFINE row == [at |-> now, service |-> s, cpu |-> counter[s], used |-> used[s], born |-> born[s]]
            n == Len(cgroup)
<1>. USE DEF GroupInv, GroupTyped, ServiceRow
<1>1. cgroup' = Append(cgroup, row) /\ UNCHANGED <<counter, used, born, now>>
  OBVIOUS
<1>2. row \in GroupRow
  BY DEF GroupRow
<1>3. n \in Nat /\ cgroup' \in Seq(GroupRow) /\ Len(cgroup') = n + 1
  BY <1>1, <1>2
<1>4. cgroup'[n + 1] = row /\ \A i \in 1..n : cgroup'[i] = cgroup[i]
  <2>1. cgroup \in Seq(GroupRow)
    OBVIOUS
  <2>. HIDE DEF row, GroupInv, ServiceRow
  <2>. QED  BY <1>1, <1>2, <2>1
<1>5. counter[s] \in Nat /\ used[s] \in Nat /\ born[s] \in Nat
  OBVIOUS
<1>6. Since(row, counter[s], used[s], born[s])
  BY <1>5 DEF Since
<1>7. ASSUME NEW i \in 1..n + 1
      PROVE  LET o == cgroup'[i].service IN Since(cgroup'[i], counter'[o], used'[o], born'[o])
  <2>1. CASE i = n + 1
    BY <1>1, <1>4, <1>6, <2>1
  <2>2. CASE i \in 1..n
    <3>1. LET o == cgroup[i].service IN Since(cgroup[i], counter[o], used[o], born[o])
      BY <2>2
    <3>. HIDE DEF row, n, GroupInv, GroupTyped, ServiceRow
    <3>. QED  BY <1>1, <1>4, <2>2, <3>1
  <2>3. i = n + 1 \/ i \in 1..n
    <3>. HIDE DEF row, n, GroupInv, GroupTyped, ServiceRow
    <3>. QED  BY <1>3
  <2>. HIDE DEF row, n, GroupInv, GroupTyped, ServiceRow
  <2>. QED  BY <2>1, <2>2, <2>3
<1>8. ASSUME NEW i \in 1..n + 1, NEW j \in i + 1..n + 1, cgroup'[j].service = cgroup'[i].service
      PROVE  Since(cgroup'[i], cgroup'[j].cpu, cgroup'[j].used, cgroup'[j].born)
  <2>1. i \in 1..n
    BY <1>3
  <2>2. CASE j = n + 1
    <3>1. cgroup[i].service = s
      BY <1>4, <1>8, <2>1, <2>2
    <3>2. Since(cgroup[i], counter[s], used[s], born[s])
      BY <2>1, <3>1
    <3>. QED  BY <1>4, <2>1, <2>2, <3>2
  <2>3. CASE j \in i + 1..n
    <3>1. j \in 1..n
      BY <1>3, <2>1, <2>3
    <3>2. cgroup'[i] = cgroup[i] /\ cgroup'[j] = cgroup[j]
      BY <1>4, <2>1, <3>1
    <3>. QED  BY <1>8, <2>1, <2>3, <3>2
  <2>4. j = n + 1 \/ j \in i + 1..n
    BY <1>3
  <2>. QED  BY <2>2, <2>3, <2>4
<1>. QED  BY <1>1, <1>3, <1>7, <1>8

LEMMA GroupStep == GroupInv /\ [HostNext]_hostVars => GroupInv'
<1>. SUFFICES ASSUME GroupInv, [HostNext]_hostVars PROVE GroupInv'
  OBVIOUS
<1>1. ASSUME NEW d \in 1..2, Wait(d) PROVE GroupInv'
  <2>1. now' \in Int /\ UNCHANGED <<counter, used, born, cgroup>>
    BY <1>1 DEF Wait, GroupInv, GroupTyped
  <2>. QED  BY <2>1 DEF GroupInv, GroupTyped
<1>2. ASSUME SetBack PROVE GroupInv'
  <2>1. now' \in Int /\ UNCHANGED <<counter, used, born, cgroup>>
    BY <1>2 DEF SetBack, GroupInv, GroupTyped
  <2>. QED  BY <2>1 DEF GroupInv, GroupTyped
<1>3. ASSUME NEW kind, NEW value, SarRow(kind, value) PROVE GroupInv'
  <2>1. UNCHANGED <<now, counter, used, born, cgroup>>
    BY <1>3 DEF SarRow
  <2>. QED  BY <2>1 DEF GroupInv, GroupTyped
<1>4. CASE UNCHANGED hostVars
  <2>1. UNCHANGED <<now, counter, used, born, cgroup>>
    BY <1>4 DEF hostVars
  <2>. QED  BY <2>1 DEF GroupInv, GroupTyped
<1>. QED  BY <1>1, <1>2, <1>3, <1>4, GroupUse, GroupRestart, GroupAppend DEF HostNext

\* A rate compares a row with the last one of the same service.
LEMMA RatesAreTrue == ASSUME GroupInv PROVE RatesTrue
<1>. SUFFICES ASSUME NEW rate \in ServiceRates
              PROVE  LET row == cgroup[rate[1]]
                         earlier == {j \in 1..rate[1] - 1 : cgroup[j].service = row.service}
                         last == cgroup[Max(earlier)]
                     IN /\ rate[3] = row.at - last.at
                        /\ rate[2] <= row.used - last.used
                        /\ row.born = last.born => rate[2] = row.used - last.used
  BY DEF RatesTrue
<1>1. PICK i \in DOMAIN cgroup :
        /\ Prior(i) # Absent
        /\ rate = <<i, cgroup[i].cpu - cgroup[Prior(i)].cpu, cgroup[i].at - cgroup[Prior(i)].at>>
  BY DEF ServiceRates
<1>. DEFINE earlier == {j \in 1..i - 1 : cgroup[j].service = cgroup[i].service}
            k == Max(earlier)
<1>2. cgroup \in Seq(GroupRow) /\ i \in 1..Len(cgroup)
  BY DEF GroupInv, GroupTyped
<1>3. earlier # {} /\ Prior(i) = k
  BY <1>1 DEF Prior
<1>4. k \in earlier
  <2>1. earlier \in SUBSET (1..i - 1) /\ IsFiniteSet(1..i - 1)
    <3>1. i - 1 \in Int /\ 1 \in Int
      BY <1>2
    <3>. QED  BY <3>1, FS_Interval
  <2>2. IsFiniteSet(earlier) /\ earlier \subseteq Int
    BY <1>2, <2>1, FS_Subset
  <2>. QED  BY <1>3, <2>2, FiniteMax
<1>. HIDE DEF k
<1>5. k \in 1..Len(cgroup) /\ i \in k + 1..Len(cgroup) /\ cgroup[i].service = cgroup[k].service
  BY <1>2, <1>4
<1>6. Since(cgroup[k], cgroup[i].cpu, cgroup[i].used, cgroup[i].born)
  BY <1>5 DEF GroupInv, GroupTyped
<1>7. rate[1] = i /\ rate[2] = cgroup[i].cpu - cgroup[k].cpu /\ rate[3] = cgroup[i].at - cgroup[k].at
  BY <1>1, <1>3
<1>. QED  BY <1>6, <1>7 DEF Since, k

-----------------------------------------------------------------------------
(* The rows of sar                                                         *)

Kind == {"cpu", "disk", "average"}
ClockRow == [kind : Kind, time : Nat, value : Cpu \cup {0, 1, Absent}, true : Nat]

\* A row says the time of day, and what its kind can say.
Sensible(row) ==
    /\ row.time = row.true % Day
    /\ row.kind = "cpu" => row.value \in Cpu
    /\ row.kind = "disk" => row.value \in {0, 1}

\* A row at t may follow one at p: less than half a day later, or set back by
\* one on the same day.
Follows(p, t) == t - p < Noon /\ p - t <= 1 /\ p \div Day <= t \div Day

LastRowOK ==
    sar # <<>> =>
        /\ sar[Len(sar)].true <= now + (IF back THEN 1 ELSE 0)
        /\ sar[Len(sar)].true \div Day <= now \div Day

RowsOK ==
    /\ sar \in Seq(ClockRow)
    /\ \A i \in 1..Len(sar) : Sensible(sar[i]) /\ (sar[i].kind = "average" => i = Len(sar))
    /\ \A i \in 1..Len(sar) : i # 1 => Follows(sar[i - 1].true, sar[i].true)

SarInv == now \in Nat /\ back \in BOOLEAN /\ RowsOK /\ LastRowOK

LEMMA DayOf ==
    ASSUME NEW t \in Nat
    PROVE  /\ t \div Day \in Nat /\ t % Day \in Nat /\ t % Day < Day
           /\ t = Day * (t \div Day) + (t % Day)
<1>1. Day \in Nat /\ Day > 0
  BY HostAssumption
<1>. QED  BY <1>1

LEMMA DaysOrdered ==
    ASSUME NEW p \in Nat, NEW t \in Nat, p <= t
    PROVE  p \div Day <= t \div Day
<1>. DEFINE d == p \div Day
            e == t \div Day
<1>1. Day \in Nat /\ Day > 0
  BY HostAssumption
<1>2. d \in Nat /\ e \in Nat /\ Day * d <= p /\ t < Day * e + Day
  BY DayOf, <1>1
<1>. HIDE DEF d, e
<1>3. Day * d < Day * e + Day
  BY <1>1, <1>2
<1>4. ASSUME e + 1 <= d PROVE FALSE
  <2>1. Day * (e + 1) <= Day * d
    BY <1>1, <1>2, <1>4
  <2>2. Day * (e + 1) = Day * e + Day
    BY <1>1, <1>2
  <2>3. Day * e \in Nat /\ Day * d \in Nat
    BY <1>1, <1>2
  <2>. QED  BY <1>1, <1>3, <2>1, <2>2, <2>3
<1>. QED  BY <1>2, <1>4 DEF d, e

\* Half a day later is the next day at most.
LEMMA NextDay ==
    ASSUME NEW p \in Nat, NEW t \in Nat, Follows(p, t)
    PROVE  t \div Day \in {p \div Day, p \div Day + 1}
<1>1. Day \in Nat /\ Day > 0 /\ Noon \in Nat /\ 2 * Noon <= Day
  BY HostAssumption
<1>. DEFINE d == p \div Day
            e == t \div Day
<1>2. d \in Nat /\ e \in Nat /\ Day * e <= t /\ p < Day * d + Day
  BY DayOf, <1>1
<1>3. d <= e /\ t < p + Day
  BY <1>1 DEF Follows
<1>. HIDE DEF d, e
<1>4. ASSUME d + 2 <= e PROVE FALSE
  <2>1. Day * (d + 2) <= Day * e
    BY <1>1, <1>2, <1>4
  <2>2. Day * (d + 2) = Day * d + 2 * Day
    BY <1>1, <1>2
  <2>3. Day * e \in Nat /\ Day * d \in Nat
    BY <1>1, <1>2
  <2>. QED  BY <1>1, <1>2, <1>3, <2>1, <2>2, <2>3
<1>. QED  BY <1>2, <1>3, <1>4 DEF d, e

\* With the time of one row, the clock has the time of the next.
LEMMA ClockReads ==
    ASSUME NEW p \in Nat, NEW t \in Nat, Follows(p, t)
    PROVE  Clock([date |-> p \div Day, last |-> p], t % Day) = [date |-> t \div Day, last |-> t]
<1>. DEFINE d == p \div Day
            r == t % Day
            w == d * Day + r
            c == [date |-> d, last |-> p]
<1>1. Day \in Nat /\ Day > 0 /\ Noon \in Nat /\ Noon > 0 /\ 2 * Noon <= Day /\ Absent \notin Int
  BY HostAssumption
<1>2. d \in Nat /\ r \in Nat /\ t = Day * (t \div Day) + r /\ t - p < Noon /\ p - t <= 1
  BY DayOf DEF Follows
<1>3. c.date = d /\ c.last = p /\ c.last # Absent
  BY <1>1
<1>4. CASE t \div Day = d
  <2>1. w = t
    <3>1. Day * d = d * Day
      BY <1>1, <1>2
    <3>. QED  BY <1>2, <1>4, <3>1
  <2>2. ~(w + Noon < p)
    BY <1>1, <1>2, <2>1
  <2>3. Clock(c, r) = [c EXCEPT !.last = w]
    BY <1>3, <2>2 DEF Clock
  <2>. QED  BY <1>4, <2>1, <2>3
<1>5. CASE t \div Day = d + 1
  <2>1. w + Day = t
    <3>1. Day * (d + 1) = d * Day + Day /\ d * Day \in Nat
      BY <1>1, <1>2
    <3>. HIDE DEF d, r
    <3>. QED  BY <1>1, <1>2, <1>5, <3>1
  <2>2. w + Noon < p
    <3>1. w = t - Day
      BY <1>1, <1>2, <2>1
    <3>. QED  BY <1>1, <1>2, <3>1
  <2>3. Clock(c, r) = [date |-> d + 1, last |-> w + Day]
    BY <1>3, <2>2 DEF Clock
  <2>. QED  BY <1>5, <2>1, <2>3
<1>. QED  BY <1>4, <1>5, NextDay

LEMMA ClockStarts ==
    ASSUME NEW t \in Nat, t \div Day = SarStart \div Day
    PROVE  Clock([date |-> SarStart \div Day, last |-> Absent], t % Day)
             = [date |-> t \div Day, last |-> t]
<1>. DEFINE d == SarStart \div Day
            r == t % Day
            c == [date |-> d, last |-> Absent]
<1>1. Day \in Nat
  BY HostAssumption
<1>2. d \in Nat /\ r \in Nat /\ t = Day * d + r /\ Day * d = d * Day
  BY <1>1, DayOf
<1>3. Clock(c, r) = [c EXCEPT !.last = d * Day + r]
  BY DEF Clock
<1>. QED  BY <1>2, <1>3

LEMMA RowsStart == HostInit => SarInv
<1>. SUFFICES ASSUME HostInit PROVE SarInv
  OBVIOUS
<1>1. sar = <<>> /\ Len(sar) = 0 /\ sar \in Seq(ClockRow) /\ now = SarStart /\ back = FALSE
  BY DEF HostInit
<1>2. now \in Nat /\ back \in BOOLEAN
  BY <1>1, HostAssumption
<1>3. RowsOK
  BY <1>1 DEF RowsOK
<1>4. LastRowOK
  BY <1>1 DEF LastRowOK
<1>. QED  BY <1>2, <1>3, <1>4 DEF SarInv

LEMMA RowsWait ==
    ASSUME SarInv, NEW d \in 1..2, Wait(d) PROVE SarInv'
<1>1. now' = now + d /\ now \in Nat /\ now' \in Nat /\ now <= now' /\ UNCHANGED <<back, sar>>
  BY DEF SarInv, Wait
<1>2. now \div Day <= now' \div Day
  BY <1>1, DaysOrdered
<1>3. now \div Day \in Nat /\ now' \div Day \in Nat
  BY <1>1, DayOf
<1>4. RowsOK'
  BY <1>1 DEF SarInv, RowsOK
<1>5. LastRowOK'
  <2>. SUFFICES ASSUME sar # <<>>
               PROVE  /\ sar[Len(sar)].true <= now' + (IF back THEN 1 ELSE 0)
                      /\ sar[Len(sar)].true \div Day <= now' \div Day
    BY <1>1 DEF LastRowOK
  <2>. DEFINE p == sar[Len(sar)].true
  <2>1. p \in Nat /\ p \div Day \in Nat
    <3>1. sar[Len(sar)] \in ClockRow
      BY DEF SarInv, RowsOK
    <3>. QED  BY <3>1, DayOf DEF ClockRow
  <2>2. p <= now + (IF back THEN 1 ELSE 0) /\ p \div Day <= now \div Day
    BY DEF SarInv, LastRowOK
  <2>. HIDE DEF p
  <2>3. p <= now' + (IF back THEN 1 ELSE 0)
    BY <1>1, <2>1, <2>2
  <2>4. p \div Day <= now' \div Day
    BY <1>2, <1>3, <2>1, <2>2
  <2>. QED  BY <2>3, <2>4 DEF p
<1>. QED  BY <1>1, <1>4, <1>5 DEF SarInv

LEMMA RowsSetBack ==
    ASSUME SarInv, SetBack PROVE SarInv'
<1>1. /\ now' = now - 1 /\ now \in Nat /\ now' \in Nat /\ ~back /\ back' = TRUE
      /\ now' \div Day = now \div Day /\ UNCHANGED sar
  BY HostAssumption DEF SarInv, SetBack
<1>2. RowsOK'
  BY <1>1 DEF SarInv, RowsOK
<1>3. LastRowOK'
  <2>. SUFFICES ASSUME sar # <<>>
               PROVE  /\ sar[Len(sar)].true <= now' + 1
                      /\ sar[Len(sar)].true \div Day <= now' \div Day
    BY <1>1 DEF LastRowOK
  <2>1. sar[Len(sar)].true \in Nat
    <3>1. sar[Len(sar)] \in ClockRow
      BY DEF SarInv, RowsOK
    <3>. QED  BY <3>1 DEF ClockRow
  <2>2. sar[Len(sar)].true <= now + 0 /\ sar[Len(sar)].true \div Day <= now \div Day
    BY <1>1 DEF SarInv, LastRowOK
  <2>. QED  BY <1>1, <2>1, <2>2
<1>. QED  BY <1>1, <1>2, <1>3 DEF SarInv

LEMMA RowsAppend ==
    ASSUME SarInv, NEW kind \in Kind, NEW value, SarRow(kind, value),
           kind = "cpu" => value \in Cpu, kind = "disk" => value \in {0, 1},
           kind = "average" => value = Absent
    PROVE  SarInv'
<1>. DEFINE row == [kind |-> kind, time |-> now % Day, value |-> value, true |-> now]
            n == Len(sar)
<1>1. /\ sar' = Append(sar, row) /\ UNCHANGED <<now, back>> /\ now \in Nat /\ back \in BOOLEAN
      /\ sar # <<>> => Last(sar).kind # "average" /\ now - Last(sar).true < Noon
  BY DEF SarRow, SarInv
<1>2. sar \in Seq(ClockRow) /\ n \in Nat
  BY DEF SarInv, RowsOK
<1>3. row \in ClockRow /\ Sensible(row)
  <2>1. now % Day \in Nat
    BY <1>1, DayOf
  <2>2. value \in Cpu \cup {0, 1, Absent}
    BY DEF Kind
  <2>. QED  BY <1>1, <2>1, <2>2 DEF ClockRow, Sensible
<1>4. row.true = now /\ row.kind = kind
  OBVIOUS
<1>. HIDE DEF row
<1>5. /\ sar' \in Seq(ClockRow) /\ Len(sar') = n + 1 /\ sar'[n + 1] = row /\ sar' # <<>>
      /\ \A i \in 1..n : sar'[i] = sar[i]
  BY <1>1, <1>2, <1>3
<1>6. n > 0 => sar[n].kind # "average" /\ now - sar[n].true < Noon /\ sar # <<>>
  BY <1>1, <1>2 DEF Last
<1>7. ASSUME NEW i \in 1..n + 1
      PROVE  Sensible(sar'[i]) /\ (sar'[i].kind = "average" => i = n + 1)
  <2>1. CASE i = n + 1
    BY <1>3, <1>5, <2>1
  <2>2. CASE i \in 1..n
    <3>1. Sensible(sar[i]) /\ (sar[i].kind = "average" => i = n)
      BY <2>2 DEF SarInv, RowsOK
    <3>2. sar[i].kind # "average"
      BY <1>6, <2>2, <3>1
    <3>. QED  BY <1>5, <2>2, <3>1, <3>2
  <2>. QED  BY <1>2, <2>1, <2>2
<1>8. ASSUME NEW i \in 1..n + 1, i # 1 PROVE Follows(sar'[i - 1].true, sar'[i].true)
  <2>1. CASE i = n + 1
    <3>1. n \in 1..n /\ n > 0 /\ i - 1 = n
      BY <1>2, <1>8, <2>1
    <3>2. sar'[i - 1] = sar[n] /\ sar'[i].true = now
      BY <1>4, <1>5, <2>1, <3>1
    <3>3. sar[n].true \in Nat
      <4>1. sar[n] \in ClockRow
        BY <1>2, <3>1
      <4>. QED  BY <4>1 DEF ClockRow
    <3>4. sar[n].true <= now + (IF back THEN 1 ELSE 0) /\ sar[n].true \div Day <= now \div Day
      BY <1>6, <3>1 DEF SarInv, LastRowOK
    <3>5. sar[n].true - now <= 1
      BY <1>1, <3>3, <3>4
    <3>. QED  BY <1>6, <3>1, <3>2, <3>4, <3>5 DEF Follows
  <2>2. CASE i \in 1..n
    <3>1. Follows(sar[i - 1].true, sar[i].true)
      BY <1>8, <2>2 DEF SarInv, RowsOK
    <3>2. i - 1 \in 1..n
      BY <1>2, <1>8, <2>2
    <3>. QED  BY <1>5, <2>2, <3>1, <3>2
  <2>. QED  BY <1>2, <2>1, <2>2
<1>9. RowsOK'
  BY <1>5, <1>7, <1>8 DEF RowsOK
<1>10. LastRowOK'
  <2>1. sar'[Len(sar')].true = now
    BY <1>4, <1>5
  <2>2. now <= now + (IF back THEN 1 ELSE 0) /\ now \div Day <= now \div Day
    BY <1>1, DayOf
  <2>. QED  BY <1>1, <2>1, <2>2 DEF LastRowOK
<1>. QED  BY <1>1, <1>9, <1>10 DEF SarInv

LEMMA RowsStep == SarInv /\ [HostNext]_hostVars => SarInv'
<1>. SUFFICES ASSUME SarInv, [HostNext]_hostVars PROVE SarInv'
  OBVIOUS
<1>1. ASSUME UNCHANGED <<now, back, sar>> PROVE SarInv'
  BY <1>1 DEF SarInv, RowsOK, LastRowOK
<1>2. ASSUME NEW s \in Service, Use(s) \/ RestartService(s) \/ ServiceRow(s) PROVE SarInv'
  BY <1>1, <1>2 DEF Use, RestartService, ServiceRow
<1>3. ASSUME NEW value \in Cpu, SarRow("cpu", value) PROVE SarInv'
  BY <1>3, RowsAppend DEF Kind
<1>4. ASSUME NEW value \in 0..1, SarRow("disk", value) PROVE SarInv'
  BY <1>4, RowsAppend DEF Kind
<1>5. ASSUME SarRow("average", Absent) PROVE SarInv'
  BY <1>5, RowsAppend DEF Kind
<1>6. CASE UNCHANGED hostVars
  BY <1>1, <1>6 DEF hostVars
<1>. QED  BY <1>2, <1>3, <1>4, <1>5, <1>6, RowsWait, RowsSetBack DEF HostNext

-----------------------------------------------------------------------------
(* What parse_sysstat() makes of them                                      *)

Point == [name : {"idle", "busy", "util"}, value : Int, at : Int \cup {Absent}]
Reading == [clock : [date : Int, last : Int \cup {Absent}], points : SUBSET (Nat \X Point)]
NoReading == [clock |-> [date |-> SarStart \div Day, last |-> Absent], points |-> {}]

\* The points that the first k rows should have.
TruePoints(k) ==
    UNION {{<<i, p>> : p \in Recorded(sar[i], sar[i].true)} :
              i \in {i \in Timed : i <= k /\ WithinInterval(sar[i].true)}}

LEMMA ClampType == ASSUME NEW n \in Int PROVE Clamp(n) \in 0..Full
<1>1. Full \in Nat
  BY HostAssumption
<1>2. Min({Full, n}) \in Int /\ Min({Full, n}) <= Full
  BY <1>1, Smaller
<1>. DEFINE m == Min({Full, n})
<1>. HIDE DEF m
<1>3. Max({0, m}) \in 0..Full
  BY <1>1, <1>2, Larger DEF m
<1>. QED  BY <1>3 DEF Clamp, m

\* Every value of a row is a share of the whole.
LEMMA RecordedType ==
    ASSUME NEW row \in ClockRow, Sensible(row), row.kind # "average", NEW t \in Int \cup {Absent},
           NEW p \in Recorded(row, t)
    PROVE  p \in Point /\ p.value <= Full
<1>1. Full \in Nat \ {0} /\ \A value \in Cpu : value.idle \in 0..Full /\ value.iowait \in Int
  BY HostAssumption
<1>2. row.kind \in {"cpu", "disk"}
  BY DEF ClockRow, Kind
<1>3. CASE row.kind = "cpu"
  <2>1. row.value \in Cpu
    BY <1>3 DEF Sensible
  <2>2. row.value.idle \in 0..Full /\ Full - row.value.idle - row.value.iowait \in Int
    BY <1>1, <2>1
  <2>3. Busy(row.value) \in 0..Full
    BY <2>2, ClampType DEF Busy
  <2>4. p \in {[name |-> "idle", value |-> row.value.idle, at |-> t],
               [name |-> "busy", value |-> Busy(row.value), at |-> t]}
    BY <1>3 DEF Recorded
  <2>. QED  BY <1>1, <2>2, <2>3, <2>4 DEF Point
<1>4. CASE row.kind = "disk"
  <2>1. row.value \in {0, 1}
    BY <1>4 DEF Sensible
  <2>2. p = [name |-> "util", value |-> row.value, at |-> t]
    BY <1>4 DEF Recorded
  <2>. QED  BY <1>1, <2>1, <2>2 DEF Point
<1>. QED  BY <1>2, <1>3, <1>4

LEMMA ReadRowType ==
    ASSUME SarInv, NEW acc \in Reading, NEW i \in 1..Len(sar)
    PROVE  ReadRow(acc, i) \in Reading
<1>. DEFINE row == sar[i]
            clock == Clock(acc.clock, row.time)
<1>1. row \in ClockRow /\ Sensible(row) /\ i \in Nat
  BY DEF SarInv, RowsOK
<1>2. CASE row.kind = "average"
  BY <1>2 DEF ReadRow
<1>3. CASE row.kind # "average"
  <2>1. clock \in [date : Int, last : Int \cup {Absent}]
    <3>. DEFINE d == acc.clock.date
                w == d * Day + row.time
    <3>1. d \in Int /\ row.time \in Nat /\ Day \in Nat /\ acc.clock \in [date : Int, last : Int \cup {Absent}]
      BY <1>1, HostAssumption DEF Reading, ClockRow
    <3>2. w \in Int
      BY <3>1
    <3>3. clock \in {[date |-> d + 1, last |-> w + Day], [acc.clock EXCEPT !.last = w]}
      BY DEF Clock
    <3>. HIDE DEF w, d, clock
    <3>4. [date |-> d + 1, last |-> w + Day] \in [date : Int, last : Int \cup {Absent}]
      BY <3>1, <3>2
    <3>5. [acc.clock EXCEPT !.last = w] \in [date : Int, last : Int \cup {Absent}]
      BY <3>1, <3>2
    <3>. QED  BY <3>3, <3>4, <3>5
  <2>2. clock.last \in Int \cup {Absent}
    BY <2>1
  <2>. HIDE DEF clock
  <2>. DEFINE new == {<<i, p>> : p \in Recorded(row, clock.last)}
  <2>3. new \in SUBSET (Nat \X Point)
    <3>1. \A p \in Recorded(row, clock.last) : p \in Point
      <4>. HIDE DEF row
      <4>. QED  BY <1>1, <1>3, <2>2, RecordedType
    <3>2. \A p \in Recorded(row, clock.last) : <<i, p>> \in Nat \X Point
      BY <1>1, <3>1
    <3>. QED  BY <3>2
  <2>4. acc.points \in SUBSET (Nat \X Point)
    BY DEF Reading
  <2>5. ReadRow(acc, i) = [clock |-> clock, points |-> IF WithinInterval(clock.last)
                                                       THEN acc.points \cup new ELSE acc.points]
    BY <1>3 DEF ReadRow, clock
  <2>. HIDE DEF new
  <2>. QED  BY <2>1, <2>3, <2>4, <2>5 DEF Reading
<1>. QED  BY <1>2, <1>3

\* Row by row.
LEMMA SysstatReads ==
    ASSUME SarInv
    PROVE  \E C : /\ C[{}] = NoReading /\ Sysstat = C[1..Len(sar)]
                  /\ \A k \in 1..Len(sar) : C[1..k] = ReadRow(C[1..(k - 1)], k)
<1>. DEFINE n == Len(sar)
            Ident == [i \in DOMAIN sar |-> i]
            IsFold(h) == h = [s \in SUBSET (1..n) |-> IF s = {} THEN NoReading
                                 ELSE ReadRow(h[s \ {Max(s)}], Ident[Max(s)])]
            C == CHOOSE h : IsFold(h)
            step == [x \in Reading \X (1..n) |-> ReadRow(x[1], x[2])]
<1>1. n \in Nat /\ DOMAIN sar = 1..n /\ DOMAIN Ident = 1..n
  BY DEF SarInv, RowsOK
<1>2. Sysstat = C[1..n]
  BY <1>1 DEF Sysstat, FoldLeftDomain, FoldLeft, MapThenFoldSet, NoReading
<1>3. NoReading \in Reading
  <2>1. SarStart \div Day \in Int
    BY HostAssumption, DayOf
  <2>. QED  BY <2>1 DEF NoReading, Reading
<1>4. step \in [Reading \X (1..n) -> Reading]
  BY ReadRowType
<1>5. \E h : IsFold(h)
  <2>. HIDE DEF step
  <2>1. PICK h \in [SUBSET (1..n) -> Reading] : Folds(h, step, NoReading, n)
    <3>. HIDE DEF n
    <3>. QED  BY <1>1, <1>3, <1>4, FoldExists
  <2>2. ASSUME NEW s \in SUBSET (1..n), s # {}
        PROVE  h[s] = ReadRow(h[s \ {Max(s)}], Ident[Max(s)])
    <3>1. Max(s) \in 1..n /\ s \ {Max(s)} \in SUBSET (1..n)
      BY <1>1, <2>2, MaxOf
    <3>2. h[s] = step[<<h[s \ {Max(s)}], Max(s)>>]
      BY <2>1, <2>2 DEF Folds
    <3>3. h[s \ {Max(s)}] \in Reading /\ Ident[Max(s)] = Max(s)
      BY <1>1, <3>1
    <3>. DEFINE a == h[s \ {Max(s)}]
                m == Max(s)
    <3>. HIDE DEF a, m
    <3>4. step[<<a, m>>] = ReadRow(a, m)
      BY <3>1, <3>3 DEF step, a, m
    <3>. QED  BY <3>2, <3>3, <3>4 DEF a, m
  <2>3. h[{}] = NoReading
    BY <2>1 DEF Folds
  <2>4. h = [s \in SUBSET (1..n) |-> IF s = {} THEN NoReading
                                     ELSE ReadRow(h[s \ {Max(s)}], Ident[Max(s)])]
    <3>. HIDE DEF Ident
    <3>. QED  BY <2>2, <2>3
  <2>5. IsFold(h)
    BY <2>4
  <2>. HIDE DEF IsFold
  <2>. QED  BY <2>5
<1>6. IsFold(C)
  <2>. HIDE DEF IsFold
  <2>. QED  BY <1>5
<1>. HIDE DEF C
<1>7. ASSUME NEW s \in SUBSET (1..n)
      PROVE  C[s] = IF s = {} THEN NoReading ELSE ReadRow(C[s \ {Max(s)}], Ident[Max(s)])
  <2>. DEFINE D == [t \in SUBSET (1..n) |-> IF t = {} THEN NoReading
                                  ELSE ReadRow(C[t \ {Max(t)}], Ident[Max(t)])]
  <2>1. D[s] = IF s = {} THEN NoReading ELSE ReadRow(C[s \ {Max(s)}], Ident[Max(s)])
    OBVIOUS
  <2>2. C = D
    BY <1>6
  <2>. HIDE DEF D
  <2>. QED  BY <2>1, <2>2
<1>8. C[{}] = NoReading
  BY <1>7
<1>9. ASSUME NEW k \in 1..n PROVE C[1..k] = ReadRow(C[1..(k - 1)], k)
  <2>1. /\ 1..k \in SUBSET (1..n) /\ 1..k # {} /\ Max(1..k) = k /\ (1..k) \ {k} = 1..(k - 1)
        /\ Ident[k] = k
    BY <1>1, UpTo
  <2>. DEFINE s == 1..k
  <2>2. C[s] = ReadRow(C[s \ {Max(s)}], Ident[Max(s)])
    <3>. HIDE DEF s
    <3>. QED  BY <1>7, <2>1 DEF s
  <2>. HIDE DEF Ident
  <2>. QED  BY <2>1, <2>2
<1>. QED  BY <1>2, <1>8, <1>9

\* After a row that has a time, the clock has it, and the points are those of
\* the rows so far.
LEMMA RowsAreRead ==
    ASSUME SarInv, FirstDay, NEW C, C[{}] = NoReading,
           \A k \in 1..Len(sar) : C[1..k] = ReadRow(C[1..(k - 1)], k)
    PROVE  C[1..Len(sar)].points = TruePoints(Len(sar))
<1>. DEFINE n == Len(sar)
            Right(k) == /\ C[1..k].points = TruePoints(k)
                        /\ k \in 1..n /\ sar[k].kind # "average" =>
                             C[1..k].clock = [date |-> sar[k].true \div Day, last |-> sar[k].true]
            Q == {k \in Nat : k <= n => Right(k)}
<1>0. n \in Nat /\ DOMAIN sar = 1..n
  BY DEF SarInv, RowsOK
<1>1. 0 \in Q
  <2>1. 1..0 = {} /\ 0 \notin 1..n
    BY <1>0
  <2>2. \A i \in Timed : ~(i <= 0)
    BY <1>0 DEF Timed
  <2>3. TruePoints(0) = {}
    BY <2>2 DEF TruePoints
  <2>4. C[1..0].points = {}
    BY <2>1 DEF NoReading
  <2>. QED  BY <2>1, <2>3, <2>4
<1>2. ASSUME NEW m \in Nat, m \in Q PROVE m + 1 \in Q
  <2>. SUFFICES ASSUME m + 1 <= n PROVE Right(m + 1)
    <3>. HIDE DEF Right
    <3>. QED  OBVIOUS
  <2>. DEFINE k == m + 1
              row == sar[k]
              t == sar[k].true
              before == C[1..m]
              after == C[1..k]
  <2>1. k \in 1..n /\ k - 1 = m /\ k \in Nat
    BY <1>0
  <2>2. after = ReadRow(before, k)
    BY <2>1
  <2>3. before.points = TruePoints(m)
    BY <1>2
  <2>4. row \in ClockRow /\ Sensible(row) /\ t \in Nat /\ row.time = t % Day
    <3>1. row \in ClockRow /\ Sensible(row)
      BY <2>1 DEF SarInv, RowsOK
    <3>. QED  BY <3>1 DEF ClockRow, Sensible
  <2>5. CASE row.kind = "average"
    <3>1. after = before
      BY <2>2, <2>5 DEF ReadRow
    <3>2. {i \in Timed : i <= k /\ WithinInterval(sar[i].true)}
            = {i \in Timed : i <= m /\ WithinInterval(sar[i].true)}
      BY <1>0, <2>1, <2>5 DEF Timed
    <3>3. TruePoints(k) = TruePoints(m)
      BY <3>2 DEF TruePoints
    <3>. QED  BY <2>3, <2>5, <3>1, <3>3
  <2>6. CASE row.kind # "average"
    <3>1. Clock(before.clock, row.time) = [date |-> t \div Day, last |-> t]
      <4>1. CASE m = 0
        <5>1. before = NoReading
          <6>1. 1..m = {}
            BY <4>1
          <6>. QED  BY <6>1
        <5>2. k \in Timed /\ \A j \in 1..k - 1 : j \notin Timed
          BY <1>0, <2>1, <2>6, <4>1 DEF Timed
        <5>3. t \div Day = SarStart \div Day
          BY <5>2 DEF FirstDay
        <5>. QED  BY <2>4, <5>1, <5>3, ClockStarts DEF NoReading
      <4>2. CASE m # 0
        <5>1. m \in 1..n /\ m # n /\ k # 1
          <6>. HIDE DEF n
          <6>. QED  BY <1>0, <2>1, <4>2
        <5>2. sar[m].kind # "average" /\ sar[m].true \in Nat
          <6>1. sar[m] \in ClockRow /\ (sar[m].kind = "average" => m = n)
            BY <5>1 DEF SarInv, RowsOK
          <6>. QED  BY <5>1, <6>1 DEF ClockRow
        <5>3. before.clock = [date |-> sar[m].true \div Day, last |-> sar[m].true]
          BY <1>2, <5>1, <5>2
        <5>4. Follows(sar[m].true, t)
          BY <2>1, <5>1 DEF SarInv, RowsOK
        <5>. QED  BY <2>4, <5>2, <5>3, <5>4, ClockReads
      <4>. QED  BY <4>1, <4>2
    <3>. DEFINE new == {<<k, p>> : p \in Recorded(row, t)}
    <3>2. /\ after.clock = [date |-> t \div Day, last |-> t]
          /\ after.points = IF WithinInterval(t) THEN before.points \cup new ELSE before.points
      BY <2>2, <2>6, <3>1 DEF ReadRow
    <3>3. TruePoints(k) = IF WithinInterval(t) THEN TruePoints(m) \cup new ELSE TruePoints(m)
      <4>. DEFINE RowsUpto(j) == {i \in Timed : i <= j /\ WithinInterval(sar[i].true)}
      <4>1. RowsUpto(k) = IF WithinInterval(t) THEN RowsUpto(m) \cup {k} ELSE RowsUpto(m)
        BY <1>0, <2>1, <2>6 DEF Timed
      <4>. HIDE DEF RowsUpto
      <4>2. TruePoints(k) = UNION {{<<i, p>> : p \in Recorded(sar[i], sar[i].true)} : i \in RowsUpto(k)}
        BY DEF TruePoints, RowsUpto
      <4>3. TruePoints(m) = UNION {{<<i, p>> : p \in Recorded(sar[i], sar[i].true)} : i \in RowsUpto(m)}
        BY DEF TruePoints, RowsUpto
      <4>4. CASE WithinInterval(t)
        <5>1. RowsUpto(k) = RowsUpto(m) \cup {k}
          BY <4>1, <4>4
        <5>2. UNION {{<<i, p>> : p \in Recorded(sar[i], sar[i].true)} : i \in RowsUpto(m) \cup {k}}
                = (UNION {{<<i, p>> : p \in Recorded(sar[i], sar[i].true)} : i \in RowsUpto(m)}) \cup new
          OBVIOUS
        <5>. QED  BY <4>2, <4>3, <4>4, <5>1, <5>2
      <4>5. CASE ~WithinInterval(t)
        BY <4>1, <4>2, <4>3, <4>5
      <4>. QED  BY <4>4, <4>5
    <3>. QED  BY <2>3, <3>2, <3>3
  <2>. QED  BY <2>5, <2>6
<1>3. Nat \subseteq Q
  <2>. HIDE DEF Q
  <2>. QED  BY <1>1, <1>2, Induct
<1>4. Right(n)
  <2>. HIDE DEF Right
  <2>. QED  BY <1>0, <1>3
<1>. QED  BY <1>4

LEMMA PointsFinite ==
    ASSUME SarInv, NEW k \in Nat
    PROVE  IsFiniteSet(TruePoints(k)) /\ \A x \in TruePoints(k) : x[2].value \in Int /\ x[2].value <= Full
<1>. DEFINE I == {i \in Timed : i <= k /\ WithinInterval(sar[i].true)}
            RowAt(i) == {<<i, p>> : p \in Recorded(sar[i], sar[i].true)}
<1>0. DOMAIN sar = 1..Len(sar) /\ Len(sar) \in Nat
  BY DEF SarInv, RowsOK
<1>1. IsFiniteSet(I)
  <2>1. IsFiniteSet(1..Len(sar))
    <3>1. 1 \in Int /\ Len(sar) \in Int
      BY <1>0
    <3>. QED  BY <3>1, FS_Interval
  <2>2. I \in SUBSET (1..Len(sar))
    BY <1>0 DEF Timed
  <2>. QED  BY <2>1, <2>2, FS_Subset
<1>2. ASSUME NEW i \in I
      PROVE  sar[i] \in ClockRow /\ Sensible(sar[i]) /\ sar[i].kind # "average" /\ sar[i].true \in Nat
  <2>1. i \in 1..Len(sar) /\ sar[i].kind # "average"
    BY <1>0 DEF Timed
  <2>2. sar[i] \in ClockRow /\ Sensible(sar[i])
    BY <2>1 DEF SarInv, RowsOK
  <2>. QED  BY <2>1, <2>2 DEF ClockRow
<1>3. ASSUME NEW i \in I PROVE IsFiniteSet(RowAt(i))
  <2>. DEFINE row == sar[i]
              t == sar[i].true
  <2>1. row.kind \in {"cpu", "disk"}
    BY <1>2 DEF ClockRow, Kind
  <2>2. CASE row.kind = "cpu"
    <3>1. Recorded(row, t) = {[name |-> "idle", value |-> row.value.idle, at |-> t],
                              [name |-> "busy", value |-> Busy(row.value), at |-> t]}
      BY <2>2 DEF Recorded
    <3>. DEFINE a == <<i, [name |-> "idle", value |-> row.value.idle, at |-> t]>>
                b == <<i, [name |-> "busy", value |-> Busy(row.value), at |-> t]>>
    <3>2. RowAt(i) = {a, b}
      BY <3>1
    <3>3. {a, b} = {a} \cup {b}
      OBVIOUS
    <3>. HIDE DEF a, b
    <3>4. IsFiniteSet({a}) /\ IsFiniteSet({b})
      BY FS_Singleton
    <3>5. IsFiniteSet({a} \cup {b})
      BY <3>4, FS_Union
    <3>. QED  BY <3>2, <3>3, <3>5
  <2>3. CASE row.kind = "disk"
    <3>. DEFINE a == <<i, [name |-> "util", value |-> row.value, at |-> t]>>
    <3>1. Recorded(row, t) = {[name |-> "util", value |-> row.value, at |-> t]}
      BY <2>3 DEF Recorded
    <3>2. RowAt(i) = {a}
      BY <3>1
    <3>. HIDE DEF a
    <3>3. IsFiniteSet({a})
      BY FS_Singleton
    <3>. QED  BY <3>2, <3>3
  <2>. QED  BY <2>1, <2>2, <2>3
<1>4. IsFiniteSet(TruePoints(k))
  <2>. DEFINE A == {RowAt(i) : i \in I}
  <2>1. IsFiniteSet(A)
    <3>. DEFINE f == [i \in I |-> RowAt(i)]
    <3>1. f \in Surjection(I, A)
      BY DEF Surjection
    <3>. HIDE DEF f, I, A
    <3>. QED  BY <1>1, <3>1, FS_Surjection
  <2>2. \A a \in A : IsFiniteSet(a)
    <3>. HIDE DEF RowAt
    <3>. QED  BY <1>3
  <2>3. IsFiniteSet(UNION A)
    <3>. HIDE DEF A
    <3>. QED  BY <2>1, <2>2, FS_UNION
  <2>. QED  BY <2>3 DEF TruePoints
<1>5. ASSUME NEW x \in TruePoints(k) PROVE x[2].value \in Int /\ x[2].value <= Full
  <2>1. PICK i \in I : x \in RowAt(i)
    BY DEF TruePoints
  <2>2. PICK p \in Recorded(sar[i], sar[i].true) : x = <<i, p>>
    BY <2>1
  <2>. DEFINE row == sar[i]
  <2>3. row \in ClockRow /\ Sensible(row) /\ row.kind # "average" /\ row.true \in Int \cup {Absent}
    BY <1>2
  <2>4. p \in Point /\ p.value <= Full
    <3>1. p \in Recorded(row, row.true)
      BY <2>2
    <3>. HIDE DEF row
    <3>. QED  BY <2>3, <3>1, RecordedType
  <2>. QED  BY <2>2, <2>4 DEF Point
<1>. QED  BY <1>4, <1>5

\* The mean of a metric is not more than the whole.
LEMMA SummaryBound ==
    ASSUME NEW points, IsFiniteSet(points), \A x \in points : x[2].value \in Int /\ x[2].value <= Full,
           NEW name
    PROVE  Summary(points, name)[1] <= Full * Summary(points, name)[2]
<1>. DEFINE of == {x \in points : x[2].name = name}
            f == [x \in of |-> x[2].value]
<1>1. IsFiniteSet(of)
  BY FS_Subset
<1>2. \A x \in of : f[x] \in Int /\ f[x] <= Full
  OBVIOUS
<1>3. Full \in Int
  BY HostAssumption
<1>4. Summary(points, name) = <<SumFunctionOnSet(f, of), Cardinality(of)>>
  BY DEF Summary
<1>. HIDE DEF of, f
<1>5. SumFunctionOnSet(f, of) <= Full * Cardinality(of)
  BY <1>1, <1>2, <1>3, SumAtMost
<1>. QED  BY <1>4, <1>5

LEMMA RowsAreOnTime == ASSUME SarInv PROVE RowsOnTime
<1>. SUFFICES ASSUME FirstDay
              PROVE  /\ Sysstat.points = TruePoints(Len(sar))
                     /\ \A name \in {"idle", "busy", "util"} :
                           Summary(Sysstat.points, name)[1] <= Full * Summary(Sysstat.points, name)[2]
  <2>1. DOMAIN sar = 1..Len(sar) /\ Len(sar) \in Nat
    BY DEF SarInv, RowsOK
  <2>2. {i \in Timed : i <= Len(sar) /\ WithinInterval(sar[i].true)}
          = {i \in Timed : WithinInterval(sar[i].true)}
    BY <2>1 DEF Timed
  <2>. QED  BY <2>2 DEF RowsOnTime, TruePoints
<1>1. PICK C : /\ C[{}] = NoReading /\ Sysstat = C[1..Len(sar)]
               /\ \A k \in 1..Len(sar) : C[1..k] = ReadRow(C[1..(k - 1)], k)
  BY SysstatReads
<1>2. Sysstat.points = TruePoints(Len(sar))
  BY <1>1, RowsAreRead
<1>3. Len(sar) \in Nat
  BY DEF SarInv, RowsOK
<1>. QED  BY <1>2, <1>3, PointsFinite, SummaryBound

\* The rows of sar and of the control groups have the time and the use that
\* they measured, whatever the clock is set to and whenever a service is
\* restarted (collector.rs:2182).
THEOREM RowsAreTrue == HostSpec => []HostRowsTrue
<1>1. HostInit => GroupInv /\ SarInv
  BY GroupStart, RowsStart
<1>2. GroupInv /\ SarInv /\ [HostNext]_hostVars => (GroupInv /\ SarInv)'
  BY GroupStep, RowsStep
<1>3. GroupInv /\ SarInv => HostRowsTrue
  BY RatesAreTrue, RowsAreOnTime DEF HostRowsTrue
<1>. QED  BY <1>1, <1>2, <1>3, PTL DEF HostSpec

-----------------------------------------------------------------------------
(* GoProfile                                                               *)

-----------------------------------------------------------------------------
(* The window                                                              *)

\* What a profile grew by is at most what happened, and all of it unless the
\* application was restarted.
Grew(before, after) ==
    \A s \in Stacks : /\ after[s] - before[s] <= happened[s]
                      /\ restarts = 0 => after[s] = before[s] + happened[s]

ProfileTyped ==
    /\ at \in {"before", "window", "after"}
    /\ counters \in [Stacks -> Nat] /\ happened \in [Stacks -> Nat] /\ restarts \in Nat
    /\ cpu \in [Stacks \X Routes -> Nat]
    /\ at # "before" => base \in [Stacks -> Nat]
    /\ at = "after" => end \in [Stacks -> Nat]

ProfileInv ==
    /\ ProfileTyped
    /\ at = "before" => happened = Zero
    /\ at = "window" => Grew(base, counters)
    /\ at = "after" => Grew(base, end)

LEMMA ProfileStarts == ProfileInit => ProfileInv
BY DEF ProfileInit, ProfileInv, ProfileTyped, Zero

LEMMA WindowCount ==
    ASSUME ProfileInv, NEW s \in Stacks, Count(s) PROVE ProfileInv'
<1>. USE DEF ProfileTyped
<1>1. /\ counters' = [counters EXCEPT ![s] = counters[s] + 1] /\ at # "after"
      /\ happened' = IF at = "window" THEN [happened EXCEPT ![s] = happened[s] + 1] ELSE happened
      /\ UNCHANGED <<at, base, end, cpu, restarts>>
  BY DEF Count
<1>2. ProfileTyped
  BY DEF ProfileInv
<1>3. ProfileTyped'
  BY <1>1, <1>2
<1>4. at = "before" => happened' = Zero
  BY <1>1 DEF ProfileInv
<1>5. ASSUME at = "window" PROVE Grew(base, counters)'
  <2>. SUFFICES ASSUME NEW r \in Stacks
               PROVE  /\ counters'[r] - base[r] <= happened'[r]
                      /\ restarts = 0 => counters'[r] = base[r] + happened'[r]
    BY <1>1 DEF Grew
  <2>1. /\ counters[r] - base[r] <= happened[r]
        /\ restarts = 0 => counters[r] = base[r] + happened[r]
    BY <1>5 DEF ProfileInv, Grew
  <2>2. base[r] \in Nat /\ counters[r] \in Nat /\ happened[r] \in Nat
    BY <1>2, <1>5
  <2>3. CASE r = s
    <3>1. counters'[r] = counters[r] + 1 /\ happened'[r] = happened[r] + 1
      BY <1>1, <1>2, <1>5, <2>3
    <3>. QED  BY <2>1, <2>2, <3>1
  <2>4. CASE r # s
    <3>1. counters'[r] = counters[r] /\ happened'[r] = happened[r]
      BY <1>1, <1>2, <1>5, <2>4
    <3>. QED  BY <2>1, <3>1
  <2>. QED  BY <2>3, <2>4
<1>. QED  BY <1>1, <1>3, <1>4, <1>5 DEF ProfileInv

LEMMA WindowSample ==
    ASSUME ProfileInv, NEW s \in Stacks, NEW r \in Routes, Sample(s, r) PROVE ProfileInv'
<1>1. /\ cpu' = [cpu EXCEPT ![<<s, r>>] = cpu[<<s, r>>] + 1]
      /\ UNCHANGED <<at, counters, base, end, happened, restarts>>
  BY DEF Sample
<1>2. cpu \in [Stacks \X Routes -> Nat] /\ <<s, r>> \in Stacks \X Routes
  BY DEF ProfileInv, ProfileTyped
<1>3. cpu' \in [Stacks \X Routes -> Nat]
  BY <1>1, <1>2
<1>4. ProfileTyped'
  BY <1>1, <1>3 DEF ProfileInv, ProfileTyped
<1>. QED  BY <1>1, <1>4 DEF ProfileInv, Grew

LEMMA WindowRestart ==
    ASSUME ProfileInv, RestartApp PROVE ProfileInv'
<1>. USE DEF ProfileTyped
<1>1. /\ counters' = Zero /\ at = "window" /\ restarts' = restarts + 1
      /\ cpu' = [x \in DOMAIN cpu |-> 0] /\ UNCHANGED <<at, base, end, happened>>
  BY DEF RestartApp
<1>2. ProfileTyped
  BY DEF ProfileInv
<1>3. ProfileTyped'
  BY <1>1, <1>2 DEF Zero
<1>4. Grew(base, counters)'
  <2>. SUFFICES ASSUME NEW r \in Stacks
               PROVE  /\ counters'[r] - base[r] <= happened[r] /\ restarts' # 0
    BY <1>1 DEF Grew
  <2>1. base[r] \in Nat /\ happened[r] \in Nat /\ counters'[r] = 0 /\ restarts \in Nat
    BY <1>1, <1>2 DEF Zero
  <2>. QED  BY <1>1, <2>1
<1>. QED  BY <1>1, <1>3, <1>4 DEF ProfileInv

LEMMA WindowOpens ==
    ASSUME ProfileInv, StartProfile PROVE ProfileInv'
<1>1. /\ at = "before" /\ at' = "window" /\ base' = counters
      /\ UNCHANGED <<counters, end, cpu, happened, restarts>>
  BY DEF StartProfile
<1>2. ProfileTyped /\ happened = Zero
  BY <1>1 DEF ProfileInv
<1>3. ProfileTyped'
  BY <1>1, <1>2 DEF ProfileTyped
<1>4. Grew(base, counters)'
  <2>. SUFFICES ASSUME NEW r \in Stacks
               PROVE  /\ counters[r] - counters[r] <= happened[r]
                      /\ counters[r] = counters[r] + happened[r]
    BY <1>1 DEF Grew
  <2>1. counters[r] \in Nat /\ happened[r] = 0
    BY <1>2 DEF ProfileTyped, Zero
  <2>. QED  BY <2>1
<1>. QED  BY <1>1, <1>3, <1>4 DEF ProfileInv

LEMMA WindowCloses ==
    ASSUME ProfileInv, StopProfile PROVE ProfileInv'
<1>1. /\ at = "window" /\ at' = "after" /\ end' = counters
      /\ UNCHANGED <<counters, base, cpu, happened, restarts>>
  BY DEF StopProfile
<1>2. ProfileTyped'
  BY <1>1 DEF ProfileInv, ProfileTyped
<1>3. Grew(base, end)'
  BY <1>1 DEF ProfileInv, Grew
<1>. QED  BY <1>1, <1>2, <1>3 DEF ProfileInv

LEMMA WindowStep == ProfileInv /\ [ProfileNext]_profileVars => ProfileInv'
<1>1. ASSUME ProfileInv, UNCHANGED profileVars PROVE ProfileInv'
  <2>. USE <1>1 DEF profileVars
  <2>1. ProfileTyped'
    BY DEF ProfileInv, ProfileTyped
  <2>. QED  BY <2>1 DEF ProfileInv, Grew, Zero
<1>. QED
  BY <1>1, WindowCount, WindowSample, WindowRestart, WindowOpens, WindowCloses DEF ProfileNext

-----------------------------------------------------------------------------
(* The sites                                                               *)

\* The limit values that are largest exist.
LEMMA LargestExist ==
    ASSUME NEW P, IsFiniteSet(P), NEW v, \A k \in P : v[k] \in Nat, NEW n \in Nat, n <= Cardinality(P)
    PROVE  \E K \in SUBSET P : Cardinality(K) = n /\ \A k \in K, l \in P \ K : v[k] >= v[l]
<1>. DEFINE Some(m) == \E K \in SUBSET P : Cardinality(K) = m /\ \A k \in K, l \in P \ K : v[k] >= v[l]
            Q == {m \in Nat : m <= Cardinality(P) => Some(m)}
<1>0. Cardinality(P) \in Nat
  BY FS_CardinalityType
<1>1. 0 \in Q
  <2>1. {} \in SUBSET P /\ Cardinality({}) = 0
    BY FS_EmptySet
  <2>2. Some(0)
    BY <2>1
  <2>. HIDE DEF Some
  <2>. QED  BY <2>2
<1>2. ASSUME NEW m \in Nat, m \in Q PROVE m + 1 \in Q
  <2>. SUFFICES ASSUME m + 1 <= Cardinality(P) PROVE Some(m + 1)
    <3>. HIDE DEF Some
    <3>. QED  OBVIOUS
  <2>0. Some(m)
    <3>. HIDE DEF Some
    <3>. QED  BY <1>0, <1>2
  <2>1. PICK K \in SUBSET P : Cardinality(K) = m /\ \A k \in K, l \in P \ K : v[k] >= v[l]
    BY <2>0
  <2>. DEFINE rest == P \ K
              values == {v[l] : l \in rest}
              f == [l \in rest |-> v[l]]
  <2>2. IsFiniteSet(K) /\ IsFiniteSet(rest)
    BY FS_Subset
  <2>3. rest # {}
    <3>1. rest = {} => K = P
      OBVIOUS
    <3>. QED  BY <1>0, <2>1, <3>1
  <2>4. IsFiniteSet(values) /\ values \subseteq Int /\ values # {}
    <3>1. f \in Surjection(rest, values)
      BY DEF Surjection
    <3>2. values \subseteq Int /\ values # {}
      BY <2>3
    <3>. HIDE DEF f, values, rest
    <3>. QED  BY <2>2, <3>1, <3>2, FS_Surjection
  <2>5. PICK x \in rest : \A l \in rest : v[x] >= v[l]
    <3>1. Max(values) \in values /\ \A y \in values : y <= Max(values)
      <4>. HIDE DEF values
      <4>. QED  BY <2>4, FiniteMax
    <3>2. PICK x \in rest : v[x] = Max(values)
      BY <3>1
    <3>3. \A l \in rest : v[l] <= v[x]
      BY <3>1, <3>2
    <3>. QED  BY <3>3
  <2>6. Cardinality(K \cup {x}) = m + 1
    BY <2>1, <2>2, <2>5, FS_AddElement
  <2>7. K \cup {x} \in SUBSET P /\ \A k \in K \cup {x}, l \in P \ (K \cup {x}) : v[k] >= v[l]
    BY <2>1, <2>5
  <2>. QED  BY <2>6, <2>7
<1>3. Nat \subseteq Q
  <2>. HIDE DEF Q
  <2>. QED  BY <1>1, <1>2, Induct
<1>4. Some(n)
  <2>. HIDE DEF Some
  <2>. QED  BY <1>3
<1>. QED  BY <1>4

\* Only positive values are kept, all of them if there is room.
LEMMA TopKeeps ==
    ASSUME NEW values, IsFiniteSet(DOMAIN values), \A k \in DOMAIN values : values[k] \in Nat,
           NEW limit \in Nat
    PROVE  /\ DOMAIN Top(values, limit) \subseteq DOMAIN values
           /\ \A k \in DOMAIN Top(values, limit) : Top(values, limit)[k] = values[k]
           /\ Cardinality(DOMAIN Top(values, limit)) < limit =>
                \A k \in DOMAIN values : values[k] > 0 => k \in DOMAIN Top(values, limit)
<1>. DEFINE P == {k \in DOMAIN values : values[k] > 0}
            Kept(K) == /\ Cardinality(K) = Min({Cardinality(P), limit})
                       /\ \A k \in K, l \in P \ K : values[k] >= values[l]
            kept == CHOOSE K \in SUBSET P : Kept(K)
<1>1. IsFiniteSet(P) /\ Cardinality(P) \in Nat
  BY FS_Subset, FS_CardinalityType
<1>2. Min({Cardinality(P), limit}) = IF Cardinality(P) <= limit THEN Cardinality(P) ELSE limit
  <2>. DEFINE p == Cardinality(P)
  <2>. HIDE DEF P
  <2>1. p \in Int /\ limit \in Int
    BY <1>1
  <2>. HIDE DEF p
  <2>2. Min({p, limit}) = IF p <= limit THEN p ELSE limit
    BY <2>1, Smaller
  <2>. QED  BY <2>2 DEF p
<1>3. \E K \in SUBSET P : Kept(K)
  <2>. DEFINE n == Min({Cardinality(P), limit})
  <2>1. n \in Nat /\ n <= Cardinality(P)
    <3>. HIDE DEF P
    <3>. QED  BY <1>1, <1>2
  <2>2. \A k \in P : values[k] \in Nat
    OBVIOUS
  <2>. HIDE DEF n, P
  <2>3. \E K \in SUBSET P : Cardinality(K) = n /\ \A k \in K, l \in P \ K : values[k] >= values[l]
    BY <1>1, <2>1, <2>2, LargestExist
  <2>. QED  BY <2>3 DEF n
<1>4. kept \in SUBSET P /\ Kept(kept)
  <2>. HIDE DEF Kept
  <2>. QED  BY <1>3
<1>5. Top(values, limit) = [k \in kept |-> values[k]]
  BY DEF Top, Restrict
<1>. HIDE DEF kept
<1>6. ASSUME Cardinality(kept) < limit PROVE kept = P
  <2>1. Cardinality(kept) = Cardinality(P)
    <3>. HIDE DEF P
    <3>. QED  BY <1>1, <1>2, <1>4, <1>6
  <2>. HIDE DEF P
  <2>. QED  BY <1>1, <1>4, <2>1, FS_Subset
<1>. QED  BY <1>4, <1>5, <1>6

\* What one stack grew by.
LEMMA GrownIs ==
    ASSUME ProfileInv, at = "after", NEW s \in Stacks
    PROVE  /\ Grown(s) \in Nat /\ Grown(s) <= happened[s]
           /\ restarts = 0 => Grown(s) = happened[s]
<1>1. base \in [Stacks -> Nat] /\ end \in [Stacks -> Nat] /\ happened \in [Stacks -> Nat]
  BY DEF ProfileInv, ProfileTyped
<1>2. base # Untaken
  BY <1>1, ProfileAssumption
<1>3. end[s] - base[s] <= happened[s] /\ (restarts = 0 => end[s] = base[s] + happened[s])
  BY DEF ProfileInv, Grew
<1>4. base[s] \in Nat /\ end[s] \in Nat /\ happened[s] \in Nat
  BY <1>1
<1>5. Grown(s) = IF end[s] > base[s] THEN end[s] - base[s] ELSE 0
  BY <1>2 DEF Grown
<1>. QED  BY <1>3, <1>4, <1>5

LEMMA SiteDeltaIs ==
    ASSUME ProfileInv, at = "after", NEW site
    PROVE  /\ SiteDelta(site) \in Nat /\ SiteDelta(site) <= TrueDelta(site)
           /\ restarts = 0 => SiteDelta(site) = TrueDelta(site)
<1>. DEFINE S == {s \in Stacks : Site(s) = site}
            g == [s \in Stacks |-> Grown(s)]
<1>1. IsFiniteSet(S) /\ S \in SUBSET S
  BY ProfileAssumption, FS_Subset
<1>2. happened \in [Stacks -> Nat]
  BY DEF ProfileInv, ProfileTyped
<1>3. \A s \in S : g[s] \in Nat /\ happened[s] \in Nat /\ g[s] <= happened[s]
  BY <1>2, GrownIs
<1>4. ASSUME restarts = 0 PROVE \A s \in S : g[s] = happened[s]
  BY <1>4, GrownIs
<1>5. SiteDelta(site) = SumFunctionOnSet(g, S) /\ TrueDelta(site) = SumFunctionOnSet(happened, S)
  BY DEF SiteDelta, TrueDelta
<1>. HIDE DEF g, S
<1>6. SumFunctionOnSet(g, S) \in Nat
  BY <1>1, <1>3, SumPart
<1>7. SumFunctionOnSet(g, S) <= SumFunctionOnSet(happened, S)
  BY <1>1, <1>3, SumLe
<1>8. ASSUME restarts = 0 PROVE SumFunctionOnSet(g, S) = SumFunctionOnSet(happened, S)
  BY <1>1, <1>4, <1>8, SumSame
<1>. QED  BY <1>5, <1>6, <1>7, <1>8

LEMMA SitesAreInWindow == ASSUME ProfileInv PROVE SitesInWindow
<1>. SUFFICES ASSUME at = "after"
              PROVE  /\ \A site \in DOMAIN SiteMetrics :
                          /\ SiteMetrics[site] <= TrueDelta(site)
                          /\ restarts = 0 => SiteMetrics[site] = TrueDelta(site)
                     /\ restarts = 0 /\ Cardinality(DOMAIN SiteMetrics) < FunctionRows =>
                          \A s \in Stacks : happened[s] > 0 => Site(s) \in DOMAIN SiteMetrics
  BY DEF SitesInWindow
<1>. DEFINE Sites == {Site(s) : s \in Stacks}
            v == [site \in Sites |-> SiteDelta(site)]
<1>1. IsFiniteSet(Sites)
  <2>. DEFINE f == [s \in Stacks |-> Site(s)]
  <2>1. f \in Surjection(Stacks, Sites)
    BY DEF Surjection
  <2>. HIDE DEF f, Sites
  <2>. QED  BY <2>1, ProfileAssumption, FS_Surjection
<1>2. DOMAIN v = Sites /\ \A k \in Sites : v[k] = SiteDelta(k) /\ v[k] \in Nat
  BY SiteDeltaIs
<1>3. SiteMetrics = Top(v, FunctionRows)
  BY DEF SiteMetrics
<1>. HIDE DEF v
<1>4. /\ DOMAIN SiteMetrics \subseteq Sites
      /\ \A k \in DOMAIN SiteMetrics : SiteMetrics[k] = v[k]
      /\ Cardinality(DOMAIN SiteMetrics) < FunctionRows =>
           \A k \in Sites : v[k] > 0 => k \in DOMAIN SiteMetrics
  <2>. HIDE DEF Sites
  <2>. QED  BY <1>1, <1>2, <1>3, ProfileAssumption, TopKeeps
<1>5. ASSUME NEW site \in DOMAIN SiteMetrics
      PROVE  /\ SiteMetrics[site] <= TrueDelta(site)
             /\ restarts = 0 => SiteMetrics[site] = TrueDelta(site)
  <2>1. SiteMetrics[site] = SiteDelta(site)
    BY <1>2, <1>4
  <2>. QED  BY <2>1, SiteDeltaIs
<1>6. ASSUME restarts = 0, Cardinality(DOMAIN SiteMetrics) < FunctionRows,
             NEW s \in Stacks, happened[s] > 0
      PROVE  Site(s) \in DOMAIN SiteMetrics
  <2>. DEFINE S == {r \in Stacks : Site(r) = Site(s)}
  <2>1. IsFiniteSet(S) /\ {s} \in SUBSET S
    BY ProfileAssumption, FS_Subset
  <2>2. \A r \in S : happened[r] \in Nat
    BY DEF ProfileInv, ProfileTyped
  <2>3. TrueDelta(Site(s)) = SumFunctionOnSet(happened, S)
    BY DEF TrueDelta
  <2>. HIDE DEF S
  <2>4. /\ SumFunctionOnSet(happened, {s}) <= SumFunctionOnSet(happened, S)
        /\ SumFunctionOnSet(happened, S) \in Nat
    BY <2>1, <2>2, SumPart
  <2>5. SumFunctionOnSet(happened, {s}) = happened[s] /\ happened[s] \in Nat
    BY <2>1, <2>2, SumOne
  <2>6. TrueDelta(Site(s)) > 0
    BY <1>6, <2>3, <2>4, <2>5
  <2>7. v[Site(s)] > 0 /\ Site(s) \in Sites
    BY <1>2, <1>6, <2>6, SiteDeltaIs
  <2>. QED  BY <1>4, <1>6, <2>7
<1>. QED  BY <1>5, <1>6

-----------------------------------------------------------------------------
(* The CPU time                                                            *)

LEMMA FirstIs ==
    ASSUME NEW stack, NEW R, stack \in Seq(R), NEW S, ToSet(stack) \cap S # {}
    PROVE  /\ FirstIn(stack, S) \in 1..Len(stack) /\ stack[FirstIn(stack, S)] \in S
           /\ stack[1] \in S => FirstIn(stack, S) = 1
<1>. DEFINE n == Len(stack)
            Is(i) == stack[i] \in S /\ \A j \in 1..i - 1 : stack[j] \notin S
            I == {i \in 1..n : stack[i] \in S}
            Q == {m \in Nat : (\E i \in I : i <= m) => \E i \in 1..n : Is(i)}
<1>1. n \in Nat /\ DOMAIN stack = 1..n
  OBVIOUS
<1>2. 0 \in Q
  BY <1>1
<1>3. ASSUME NEW m \in Nat, m \in Q PROVE m + 1 \in Q
  <2>. SUFFICES ASSUME NEW i \in I, i <= m + 1 PROVE \E j \in 1..n : Is(j)
    OBVIOUS
  <2>1. CASE \E j \in I : j <= m
    BY <1>3, <2>1
  <2>2. CASE ~(\E j \in I : j <= m)
    <3>1. \A j \in 1..i - 1 : stack[j] \notin S
      <4>. SUFFICES ASSUME NEW j \in 1..i - 1, stack[j] \in S PROVE FALSE
        OBVIOUS
      <4>1. j \in 1..n /\ j <= m
        <5>. HIDE DEF n
        <5>. QED  BY <1>1
      <4>. QED  BY <2>2, <4>1
    <3>. QED  BY <3>1
  <2>. QED  BY <2>1, <2>2
<1>4. Nat \subseteq Q
  <2>. HIDE DEF Q
  <2>. QED  BY <1>2, <1>3, Induct
<1>5. I # {}
  BY <1>1 DEF ToSet
<1>6. \E i \in 1..n : Is(i)
  <2>1. PICK i \in I : TRUE
    BY <1>5
  <2>2. i \in Q /\ i <= i
    BY <1>1, <1>4
  <2>. QED  BY <2>1, <2>2
<1>7. FirstIn(stack, S) \in 1..n /\ Is(FirstIn(stack, S))
  <2>1. FirstIn(stack, S) = CHOOSE i \in 1..n : Is(i)
    BY <1>1 DEF FirstIn
  <2>. HIDE DEF Is
  <2>. QED  BY <1>6, <2>1
<1>8. ASSUME stack[1] \in S PROVE FirstIn(stack, S) = 1
  <2>. DEFINE f == FirstIn(stack, S)
  <2>1. f \in 1..n /\ \A j \in 1..f - 1 : stack[j] \notin S
    BY <1>7
  <2>. HIDE DEF f, n
  <2>2. 1 \notin 1..f - 1
    BY <1>8, <2>1
  <2>3. f = 1
    BY <1>1, <2>1, <2>2
  <2>. QED  BY <2>3 DEF f
<1>. QED  BY <1>7, <1>8

\* Who owns a sample.
LEMMA OwnerIs ==
    ASSUME NEW stack \in Stacks
    PROVE  /\ Owner(stack) \in App \cup {Outside}
           /\ \A f \in App : /\ Owner(stack) = f => f \in ToSet(stack)
                             /\ stack[1] = f => Owner(stack) = f
<1>1. stack \in Seq(ToSet(stack)) /\ stack # <<>> /\ Outside \notin App
  BY ProfileAssumption
<1>2. DOMAIN stack = 1..Len(stack) /\ Len(stack) > 0 /\ 1 \in DOMAIN stack
  BY <1>1
<1>3. CASE ToSet(stack) \cap App # {}
  <2>1. /\ FirstIn(stack, App) \in 1..Len(stack) /\ stack[FirstIn(stack, App)] \in App
        /\ stack[1] \in App => FirstIn(stack, App) = 1
    BY <1>1, <1>3, FirstIs
  <2>2. Owner(stack) = stack[FirstIn(stack, App)]
    BY <1>3 DEF Owner
  <2>. QED  BY <1>2, <2>1, <2>2 DEF ToSet
<1>4. CASE ~(ToSet(stack) \cap App # {})
  <2>1. Owner(stack) = Outside
    BY <1>4 DEF Owner
  <2>2. stack[1] \in ToSet(stack)
    BY <1>2 DEF ToSet
  <2>. QED  BY <1>1, <1>4, <2>1, <2>2
<1>. QED  BY <1>3, <1>4

LEMMA FunctionsFinite == IsFiniteSet(Function) /\ \A stack \in Stacks : stack[1] \in Function
<1>. DEFINE F == {T \in SUBSET Stacks : IsFiniteSet(UNION {ToSet(stack) : stack \in T})}
<1>1. {} \in F
  <2>1. (UNION {ToSet(stack) : stack \in {}}) = {}
    OBVIOUS
  <2>. QED  BY <2>1, FS_EmptySet
<1>2. ASSUME NEW T \in SUBSET Stacks, T \in F, NEW s \in Stacks \ T PROVE T \cup {s} \in F
  <2>. DEFINE R == UNION {ToSet(stack) : stack \in T}
  <2>1. (UNION {ToSet(stack) : stack \in T \cup {s}}) = R \cup ToSet(s)
    OBVIOUS
  <2>2. IsFiniteSet(ToSet(s))
    <3>1. s \in Seq(ToSet(s))
      BY ProfileAssumption
    <3>2. Len(s) \in Nat /\ DOMAIN s = 1..Len(s)
      BY <3>1
    <3>. DEFINE f == [i \in 1..Len(s) |-> s[i]]
    <3>3. f \in Surjection(1..Len(s), ToSet(s))
      BY <3>2 DEF Surjection, ToSet
    <3>4. IsFiniteSet(1..Len(s))
      BY <3>2, FS_Interval
    <3>. HIDE DEF f
    <3>. QED  BY <3>3, <3>4, FS_Surjection
  <2>3. IsFiniteSet(R)
    BY <1>2
  <2>. HIDE DEF R
  <2>4. IsFiniteSet(R \cup ToSet(s))
    BY <2>2, <2>3, FS_Union
  <2>. QED  BY <2>1, <2>4
<1>3. Stacks \in F
  <2>. HIDE DEF F
  <2>1. IsFiniteSet(Stacks) /\ Stacks \in SUBSET Stacks
    BY ProfileAssumption
  <2>. QED  BY <1>1, <1>2, <2>1, FiniteInduct
<1>4. ASSUME NEW stack \in Stacks PROVE stack[1] \in Function
  <2>1. stack \in Seq(ToSet(stack)) /\ stack # <<>>
    BY ProfileAssumption
  <2>2. 1 \in DOMAIN stack
    BY <2>1
  <2>. QED  BY <2>2 DEF Function, ToSet
<1>. QED  BY <1>3, <1>4 DEF Function

\* The samples that have one function, owner, class or route.
LEMMA CpuTable ==
    ASSUME ProfileInv
    PROVE  /\ DOMAIN cpu = Stacks \X Routes /\ IsFiniteSet(DOMAIN cpu)
           /\ \A x \in DOMAIN cpu : cpu[x] \in Nat /\ x[1] \in Stacks /\ x[2] \in Routes
           /\ CpuTotal = SumFunctionOnSet(cpu, DOMAIN cpu)
<1>1. cpu \in [Stacks \X Routes -> Nat]
  BY DEF ProfileInv, ProfileTyped
<1>2. IsFiniteSet(Stacks \X Routes)
  BY ProfileAssumption, FS_Product
<1>. QED  BY <1>1, <1>2 DEF CpuTotal, SumFunction

\* The samples divided by a key add up to all of them.
LEMMA KeysAddUp ==
    ASSUME ProfileInv, NEW K, IsFiniteSet(K), NEW key, \A x \in DOMAIN cpu : key[x] \in K,
           NEW by, by = [k \in K |-> SumFunctionOnSet(cpu, {x \in DOMAIN cpu : key[x] = k})]
    PROVE  SumFunction(by) = CpuTotal
<1>. DEFINE D == DOMAIN cpu
<1>1. IsFiniteSet(D) /\ (\A x \in D : cpu[x] \in Int) /\ CpuTotal = SumFunctionOnSet(cpu, D)
  BY CpuTable
<1>2. \A x \in D : key[x] \in K
  OBVIOUS
<1>3. by = [k \in K |-> SumFunctionOnSet(cpu, {x \in D : key[x] = k})]
  OBVIOUS
<1>4. SumFunction(by) = SumFunctionOnSet(by, K)
  BY <1>3 DEF SumFunction
<1>. HIDE DEF D
<1>5. SumFunctionOnSet(by, K) = SumFunctionOnSet(cpu, D)
  <2>1. SumFunctionOnSet([k \in K |-> SumFunctionOnSet(cpu, {x \in D : key[x] = k})], K)
          = SumFunctionOnSet(cpu, D)
    BY <1>1, <1>2, SumGroups
  <2>. QED  BY <1>3, <2>1
<1>. QED  BY <1>1, <1>4, <1>5

LEMMA FlatAddsUp == ASSUME ProfileInv PROVE SumFunction(Flat) = CpuTotal
<1>. DEFINE key == [x \in DOMAIN cpu |-> x[1][1]]
<1>1. \A x \in DOMAIN cpu : key[x] \in Function
  BY CpuTable, FunctionsFinite
<1>2. Flat = [f \in Function |-> SumFunctionOnSet(cpu, {x \in DOMAIN cpu : key[x] = f})]
  <2>1. \A f : {x \in DOMAIN cpu : x[1][1] = f} = {x \in DOMAIN cpu : key[x] = f}
    OBVIOUS
  <2>. QED  BY <2>1 DEF Flat, Samples
<1>. HIDE DEF key
<1>. QED  BY <1>1, <1>2, FunctionsFinite, KeysAddUp

LEMMA AppTimeAddsUp == ASSUME ProfileInv PROVE SumFunction(AppTime) = CpuTotal
<1>. DEFINE key == [x \in DOMAIN cpu |-> Owner(x[1])]
            K == App \cup {Outside}
<1>1. \A x \in DOMAIN cpu : key[x] \in K
  BY CpuTable, OwnerIs
<1>2. AppTime = [f \in K |-> SumFunctionOnSet(cpu, {x \in DOMAIN cpu : key[x] = f})]
  <2>1. \A f : {x \in DOMAIN cpu : Owner(x[1]) = f} = {x \in DOMAIN cpu : key[x] = f}
    OBVIOUS
  <2>. QED  BY <2>1 DEF AppTime, Samples
<1>3. IsFiniteSet(K)
  BY ProfileAssumption, FS_AddElement
<1>. HIDE DEF key, K
<1>. QED  BY <1>1, <1>2, <1>3, KeysAddUp

LEMMA ClassTimeAddsUp == ASSUME ProfileInv PROVE SumFunction(ClassTime) = CpuTotal
<1>. DEFINE key == [x \in DOMAIN cpu |-> FunctionClass(x[1][1])]
            K == {FunctionClass(f) : f \in Function}
<1>1. \A x \in DOMAIN cpu : key[x] \in K
  BY CpuTable, FunctionsFinite
<1>2. ClassTime = [c \in K |-> SumFunctionOnSet(cpu, {x \in DOMAIN cpu : key[x] = c})]
  <2>1. \A c : {x \in DOMAIN cpu : FunctionClass(x[1][1]) = c} = {x \in DOMAIN cpu : key[x] = c}
    OBVIOUS
  <2>. QED  BY <2>1 DEF ClassTime, Samples
<1>3. IsFiniteSet(K)
  <2>. DEFINE g == [f \in Function |-> FunctionClass(f)]
  <2>1. g \in Surjection(Function, K)
    BY DEF Surjection
  <2>. HIDE DEF g, K
  <2>. QED  BY <2>1, FunctionsFinite, FS_Surjection
<1>. HIDE DEF key, K
<1>. QED  BY <1>1, <1>2, <1>3, KeysAddUp

LEMMA RouteTimeAddsUp == ASSUME ProfileInv PROVE SumFunction(RouteTime) = CpuTotal
<1>. DEFINE key == [x \in DOMAIN cpu |-> x[2]]
<1>1. \A x \in DOMAIN cpu : key[x] \in Routes
  BY CpuTable
<1>2. RouteTime = [r \in Routes |-> SumFunctionOnSet(cpu, {x \in DOMAIN cpu : key[x] = r})]
  <2>1. \A r : {x \in DOMAIN cpu : x[2] = r} = {x \in DOMAIN cpu : key[x] = r}
    OBVIOUS
  <2>. QED  BY <2>1 DEF RouteTime, Samples
<1>3. IsFiniteSet(Routes)
  BY ProfileAssumption
<1>. HIDE DEF key
<1>. QED  BY <1>1, <1>2, <1>3, KeysAddUp

\* A function has at least the time of its own frames, and an owner at least
\* what is put to its account.
LEMMA TimesAreOrdered ==
    ASSUME ProfileInv, NEW f \in Function
    PROVE  /\ Flat[f] <= Cumulative[f] /\ Cumulative[f] <= CpuTotal
           /\ f \in App => Flat[f] <= AppTime[f] /\ AppTime[f] <= Cumulative[f]
<1>. DEFINE D == DOMAIN cpu
            Own == {x \in D : x[1][1] = f}
            In == {x \in D : f \in ToSet(x[1])}
            Its == {x \in D : Owner(x[1]) = f}
<1>1. /\ IsFiniteSet(D) /\ \A x \in D : cpu[x] \in Nat
      /\ CpuTotal = SumFunctionOnSet(cpu, D)
  BY CpuTable
<1>2. Flat[f] = SumFunctionOnSet(cpu, Own)
  BY DEF Flat, Samples
<1>3. Cumulative[f] = SumFunctionOnSet(cpu, In)
  BY DEF Cumulative, Samples
<1>4. f \in App => AppTime[f] = SumFunctionOnSet(cpu, Its)
  BY DEF AppTime, Samples
<1>5. Own \in SUBSET In
  <2>. SUFFICES ASSUME NEW x \in D, x[1][1] = f PROVE f \in ToSet(x[1])
    OBVIOUS
  <2>1. x[1] \in Stacks
    BY CpuTable
  <2>2. x[1] \in Seq(ToSet(x[1])) /\ x[1] # <<>>
    BY <2>1, ProfileAssumption
  <2>3. 1 \in DOMAIN x[1]
    BY <2>2
  <2>. QED  BY <2>3 DEF ToSet
<1>6. f \in App => Own \in SUBSET Its /\ Its \in SUBSET In
  <2>. SUFFICES ASSUME f \in App, NEW x \in D
               PROVE  /\ x[1][1] = f => Owner(x[1]) = f
                      /\ Owner(x[1]) = f => f \in ToSet(x[1])
    OBVIOUS
  <2>1. x[1] \in Stacks
    BY CpuTable
  <2>. QED  BY <2>1, OwnerIs
<1>7. In \in SUBSET D /\ Its \in SUBSET D
  OBVIOUS
<1>. HIDE DEF D, Own, In, Its
<1>8. IsFiniteSet(In) /\ IsFiniteSet(Its)
  BY <1>1, <1>7, FS_Subset
<1>9. \A x \in In : cpu[x] \in Nat
  BY <1>1, <1>7
<1>10. \A x \in Its : cpu[x] \in Nat
  BY <1>1, <1>7
<1>11. SumFunctionOnSet(cpu, Own) <= SumFunctionOnSet(cpu, In)
  BY <1>5, <1>8, <1>9, SumPart
<1>12. SumFunctionOnSet(cpu, In) <= SumFunctionOnSet(cpu, D)
  BY <1>1, <1>7, SumPart
<1>13. ASSUME f \in App
       PROVE  /\ SumFunctionOnSet(cpu, Own) <= SumFunctionOnSet(cpu, Its)
              /\ SumFunctionOnSet(cpu, Its) <= SumFunctionOnSet(cpu, In)
  <2>1. SumFunctionOnSet(cpu, Own) <= SumFunctionOnSet(cpu, Its)
    BY <1>6, <1>8, <1>10, <1>13, SumPart
  <2>2. SumFunctionOnSet(cpu, Its) <= SumFunctionOnSet(cpu, In)
    BY <1>6, <1>8, <1>9, <1>13, SumPart
  <2>. QED  BY <2>1, <2>2
<1>. QED  BY <1>1, <1>2, <1>3, <1>4, <1>11, <1>12, <1>13

-----------------------------------------------------------------------------
(* The tables of a profile                                                 *)

\* The sequence of a finite set has all of its elements.
LEMMA SeqHas ==
    ASSUME NEW S, IsFiniteSet(S)
    PROVE  /\ Cardinality(S) \in Nat /\ SetToSeq(S) \in [1..Cardinality(S) -> S]
           /\ \A x \in S : \E i \in DOMAIN SetToSeq(S) : SetToSeq(S)[i] = x
<1>. DEFINE n == Cardinality(S)
            Is(f) == f \in [1..n -> S] /\ IsInjective(f)
            q == CHOOSE f \in [1..n -> S] : IsInjective(f)
<1>1. n \in Nat /\ ExistsBijection(1..n, S)
  BY FS_CardinalityType
<1>2. \E f \in [1..n -> S] : IsInjective(f)
  <2>1. PICK f : f \in Bijection(1..n, S)
    BY <1>1 DEF ExistsBijection
  <2>2. f \in [1..n -> S] /\ IsInjective(f)
    BY <2>1 DEF Bijection, Injection, IsInjective
  <2>. QED  BY <2>2
<1>3. q \in [1..n -> S] /\ IsInjective(q)
  BY <1>2
<1>4. SetToSeq(S) = q
  BY DEF SetToSeq
<1>. HIDE DEF q
<1>5. q \in Surjection(1..n, S)
  <2>1. q \in Injection(1..n, S)
    BY <1>3 DEF Injection, IsInjective
  <2>2. 1 \in Int /\ n \in Int
    BY <1>1
  <2>. HIDE DEF n
  <2>3. Cardinality(1..n) = n
    BY <1>1, <2>2, FS_Interval
  <2>4. Cardinality(S) = n
    BY DEF n
  <2>. QED  BY <2>1, <2>3, <2>4, FS_Injection
<1>. QED  BY <1>1, <1>3, <1>4, <1>5 DEF Surjection

\* An order of the fields has all of them.
LEMMA OrderHas ==
    ASSUME NEW order \in SetToSeqs(Field)
    PROVE  \E n \in Nat : /\ order \in [1..n -> Field]
                          /\ \A field \in Field : \E i \in 1..n : order[i] = field
<1>. DEFINE n == Cardinality(Field)
<1>1. IsFiniteSet(Field)
  <2>1. Field = (({"string"} \cup {"function"}) \cup {"location"}) \cup {"sample"}
    BY DEF Field
  <2>2. IsFiniteSet({"string"})
    BY FS_Singleton
  <2>3. IsFiniteSet({"string"} \cup {"function"})
    BY <2>2, FS_AddElement
  <2>4. IsFiniteSet(({"string"} \cup {"function"}) \cup {"location"})
    BY <2>3, FS_AddElement
  <2>5. IsFiniteSet((({"string"} \cup {"function"}) \cup {"location"}) \cup {"sample"})
    BY <2>4, FS_AddElement
  <2>. QED  BY <2>1, <2>5
<1>2. n \in Nat
  BY <1>1, FS_CardinalityType
<1>3. order \in [1..n -> Field] /\ \A i, j \in 1..n : i # j => order[i] # order[j]
  BY DEF SetToSeqs
<1>4. order \in Surjection(1..n, Field)
  <2>1. order \in Injection(1..n, Field)
    BY <1>3 DEF Injection, IsInjective
  <2>2. 1 \in Int /\ n \in Int
    BY <1>2
  <2>. HIDE DEF n
  <2>3. Cardinality(1..n) = n
    BY <1>2, <2>2, FS_Interval
  <2>4. Cardinality(Field) = n
    BY DEF n
  <2>. QED  BY <1>1, <2>1, <2>3, <2>4, FS_Injection
<1>. QED  BY <1>2, <1>3, <1>4 DEF Surjection

TablesOf(stack, order) ==
    FoldLeft(LAMBDA t, field : [t EXCEPT ![field] = Encoded(stack, field)], NoTables, order)

\* In whatever order they come, all fields are read.
LEMMA TablesAre ==
    ASSUME NEW stack, NEW order \in SetToSeqs(Field), NEW field \in Field
    PROVE  TablesOf(stack, order)[field] = Encoded(stack, field)
<1>1. PICK n \in Nat : /\ order \in [1..n -> Field]
                       /\ \A g \in Field : \E i \in 1..n : order[i] = g
  BY OrderHas
<1>. DEFINE V == {Encoded(stack, g) : g \in Field} \cup {<<>>}
            A == [Field -> V]
            Put(t, g) == [t EXCEPT ![g] = Encoded(stack, g)]
            IsFold(h) == h = [s \in SUBSET (1..n) |-> IF s = {} THEN NoTables
                                 ELSE Put(h[s \ {Max(s)}], order[Max(s)])]
            C == CHOOSE h : IsFold(h)
            step == [x \in A \X (1..n) |-> Put(x[1], order[x[2]])]
<1>2. TablesOf(stack, order) = C[1..n]
  <2>1. DOMAIN order = 1..n
    BY <1>1
  <2>. QED  BY <2>1 DEF TablesOf, FoldLeft, MapThenFoldSet
<1>3. NoTables \in A
  BY DEF NoTables
<1>4. ASSUME NEW t \in A, NEW g \in Field
      PROVE  /\ Put(t, g) \in A /\ Put(t, g)[g] = Encoded(stack, g)
             /\ \A f \in Field : f # g => Put(t, g)[f] = t[f]
  OBVIOUS
<1>5. step \in [A \X (1..n) -> A]
  <2>. SUFFICES ASSUME NEW x \in A \X (1..n) PROVE Put(x[1], order[x[2]]) \in A
    OBVIOUS
  <2>1. x[1] \in A /\ order[x[2]] \in Field
    BY <1>1
  <2>. HIDE DEF A, Put
  <2>. QED  BY <1>4, <2>1
<1>6. \E h : h \in [SUBSET (1..n) -> A] /\ IsFold(h)
  <2>. HIDE DEF step, A, Put
  <2>1. PICK h \in [SUBSET (1..n) -> A] : Folds(h, step, NoTables, n)
    BY <1>3, <1>5, FoldExists
  <2>2. ASSUME NEW s \in SUBSET (1..n), s # {}
        PROVE  h[s] = Put(h[s \ {Max(s)}], order[Max(s)])
    <3>1. Max(s) \in 1..n /\ s \ {Max(s)} \in SUBSET (1..n)
      BY <2>2, MaxOf
    <3>2. h[s] = step[<<h[s \ {Max(s)}], Max(s)>>]
      BY <2>1, <2>2 DEF Folds
    <3>3. h[s \ {Max(s)}] \in A
      BY <2>1, <3>1
    <3>. DEFINE a == h[s \ {Max(s)}]
                m == Max(s)
    <3>. HIDE DEF a, m
    <3>4. step[<<a, m>>] = Put(a, order[m])
      BY <3>1, <3>3 DEF step, a, m
    <3>. QED  BY <3>2, <3>4 DEF a, m
  <2>3. h[{}] = NoTables
    BY <2>1 DEF Folds
  <2>4. h = [s \in SUBSET (1..n) |-> IF s = {} THEN NoTables
                                     ELSE Put(h[s \ {Max(s)}], order[Max(s)])]
    BY <2>2, <2>3
  <2>5. IsFold(h)
    BY <2>4
  <2>. HIDE DEF IsFold
  <2>. QED  BY <2>1, <2>5
<1>7. IsFold(C)
  <2>. HIDE DEF IsFold
  <2>. QED  BY <1>6
<1>. HIDE DEF C
<1>8. ASSUME NEW s \in SUBSET (1..n)
      PROVE  C[s] = IF s = {} THEN NoTables ELSE Put(C[s \ {Max(s)}], order[Max(s)])
  <2>. HIDE DEF Put
  <2>. DEFINE D == [t \in SUBSET (1..n) |-> IF t = {} THEN NoTables
                                  ELSE Put(C[t \ {Max(t)}], order[Max(t)])]
  <2>1. D[s] = IF s = {} THEN NoTables ELSE Put(C[s \ {Max(s)}], order[Max(s)])
    OBVIOUS
  <2>2. C = D
    BY <1>7
  <2>. HIDE DEF D
  <2>. QED  BY <2>1, <2>2
<1>9. ASSUME NEW k \in 1..n PROVE C[1..k] = Put(C[1..(k - 1)], order[k])
  <2>1. /\ 1..k \in SUBSET (1..n) /\ 1..k # {} /\ Max(1..k) = k /\ (1..k) \ {k} = 1..(k - 1)
    BY UpTo
  <2>. DEFINE s == 1..k
  <2>. HIDE DEF s, Put
  <2>2. C[s] = Put(C[s \ {Max(s)}], order[Max(s)])
    BY <1>8, <2>1 DEF s
  <2>3. Max(s) = k /\ s \ {k} = 1..(k - 1)
    BY <2>1 DEF s
  <2>4. C[s] = Put(C[1..(k - 1)], order[k])
    BY <2>2, <2>3
  <2>. QED  BY <2>4 DEF s
<1>. DEFINE Right(k) == C[1..k] \in A /\ \A i \in 1..k : C[1..k][order[i]] = Encoded(stack, order[i])
            Q == {k \in Nat : k <= n => Right(k)}
<1>10. 0 \in Q
  <2>1. 1..0 = {} /\ {} \in SUBSET (1..n)
    OBVIOUS
  <2>2. C[1..0] = NoTables
    BY <1>8, <2>1
  <2>. HIDE DEF A
  <2>. QED  BY <1>3, <2>1, <2>2
<1>11. ASSUME NEW m \in Nat, m \in Q PROVE m + 1 \in Q
  <2>. SUFFICES ASSUME m + 1 <= n PROVE Right(m + 1)
    <3>. HIDE DEF Right
    <3>. QED  OBVIOUS
  <2>. DEFINE k == m + 1
              b == C[1..m]
              c == C[1..k]
  <2>1. k \in 1..n /\ k - 1 = m /\ order[k] \in Field
    BY <1>1
  <2>2. b \in A /\ \A i \in 1..m : b[order[i]] = Encoded(stack, order[i])
    BY <1>11
  <2>3. c = Put(b, order[k])
    <3>. HIDE DEF Put, k
    <3>1. C[1..k] = Put(C[1..(k - 1)], order[k])
      BY <1>9, <2>1
    <3>. QED  BY <2>1, <3>1
  <2>4. \A i \in 1..k : order[i] \in Field /\ (i \in 1..m \/ i = k)
    BY <1>1
  <2>. HIDE DEF A, Put, k, b, c
  <2>5. /\ c \in A /\ c[order[k]] = Encoded(stack, order[k])
        /\ \A f \in Field : f # order[k] => c[f] = b[f]
    BY <1>4, <2>1, <2>2, <2>3
  <2>6. \A i \in 1..k : c[order[i]] = Encoded(stack, order[i])
    BY <2>2, <2>4, <2>5
  <2>. QED  BY <2>5, <2>6 DEF c, k
<1>12. Nat \subseteq Q
  <2>. HIDE DEF Q
  <2>. QED  BY <1>10, <1>11, Induct
<1>13. Right(n)
  <2>. HIDE DEF Right
  <2>. QED  BY <1>12
<1>14. PICK i \in 1..n : order[i] = field
  BY <1>1
<1>. HIDE DEF A
<1>. QED  BY <1>2, <1>13, <1>14

\* A name and a location are found again by their number.
LEMMA NamesAre ==
    ASSUME NEW f \in Function
    PROVE  Index(f) \in DOMAIN Names /\ Names[Index(f)] = f
<1>1. \E i \in DOMAIN Names : Names[i] = f
  BY FunctionsFinite, SeqHas DEF Names
<1>. QED  BY <1>1 DEF Index

LEMMA Halves ==
    ASSUME NEW n \in Nat
    PROVE  (n + 1) \div 2 \in Nat /\ n <= 2 * ((n + 1) \div 2) /\ 2 * ((n + 1) \div 2) <= n + 1
OBVIOUS

LEMMA StackIs ==
    ASSUME NEW stack \in Stacks
    PROVE  /\ stack \in Seq(Function) /\ Len(stack) \in Nat
           /\ LocationsOf(stack) = [i \in 1..(Len(stack) + 1) \div 2 |->
                  SubSeq(stack, 2 * i - 1, IF 2 * i <= Len(stack) THEN 2 * i ELSE Len(stack))]
<1>1. stack \in Seq(ToSet(stack))
  BY ProfileAssumption
<1>2. stack \in Seq(Function)
  <2>1. ToSet(stack) \subseteq Function
    BY DEF Function
  <2>. QED  BY <1>1, <2>1
<1>3. Len(stack) \in Nat /\ (Len(stack) + 1) \div 2 \in Nat
  BY <1>1, Halves
<1>4. \A i \in 1..(Len(stack) + 1) \div 2 :
        Min({2 * i, Len(stack)}) = IF 2 * i <= Len(stack) THEN 2 * i ELSE Len(stack)
  BY <1>3, Smaller
<1>. QED  BY <1>2, <1>3, <1>4 DEF LocationsOf

LEMMA LocationsAre ==
    ASSUME NEW stack \in Stacks, NEW l \in ToSet(LocationsOf(stack))
    PROVE  LocationId(l) \in DOMAIN Locations /\ Locations[LocationId(l)] = l
<1>. DEFINE Of == [s \in Stacks |-> ToSet(LocationsOf(s))]
            Sets == {ToSet(LocationsOf(s)) : s \in Stacks}
<1>1. ASSUME NEW s \in Stacks PROVE IsFiniteSet(ToSet(LocationsOf(s)))
  <2>. DEFINE n == (Len(s) + 1) \div 2
              q == LocationsOf(s)
              f == [i \in 1..n |-> q[i]]
  <2>1. n \in Nat /\ DOMAIN q = 1..n
    BY StackIs, Halves
  <2>. HIDE DEF n, q
  <2>2. f \in Surjection(1..n, ToSet(q))
    BY <2>1 DEF Surjection, ToSet
  <2>3. 1 \in Int /\ n \in Int
    BY <2>1
  <2>4. IsFiniteSet(1..n)
    BY <2>3, FS_Interval
  <2>. HIDE DEF f
  <2>5. IsFiniteSet(ToSet(q))
    BY <2>2, <2>4, FS_Surjection
  <2>. QED  BY <2>5 DEF q
<1>2. IsFiniteSet(Sets)
  <2>1. Of \in Surjection(Stacks, Sets)
    BY DEF Surjection
  <2>. HIDE DEF Of, Sets
  <2>. QED  BY <2>1, ProfileAssumption, FS_Surjection
<1>3. \A T \in Sets : IsFiniteSet(T)
  BY <1>1
<1>4. l \in UNION Sets
  OBVIOUS
<1>5. Locations = SetToSeq(UNION Sets)
  BY DEF Locations
<1>. HIDE DEF Sets
<1>6. IsFiniteSet(UNION Sets)
  BY <1>2, <1>3, FS_UNION
<1>7. \E i \in DOMAIN Locations : Locations[i] = l
  BY <1>4, <1>5, <1>6, SeqHas
<1>. QED  BY <1>7 DEF LocationId

LEMMA FlatUpTo ==
    ASSUME NEW S, NEW ss, NEW k \in Nat, \A i \in 1..(k + 1) : ss[i] \in Seq(S)
    PROVE  FlattenSeq([i \in 1..(k + 1) |-> ss[i]]) = FlattenSeq([i \in 1..k |-> ss[i]]) \o ss[k + 1]
<1>. DEFINE u == [i \in 1..(k + 1) |-> ss[i]]
            v == [i \in 1..k |-> ss[i]]
<1>1. u \in [1..(k + 1) -> Seq(S)] /\ v \in [1..k -> Seq(S)]
  OBVIOUS
<1>2. (\A i \in 1..k : v[i] = u[i]) /\ u[k + 1] = ss[k + 1]
  OBVIOUS
<1>. HIDE DEF u, v
<1>3. FlattenSeq(u) = FlattenSeq(v) \o u[k + 1]
  BY <1>1, <1>2, FlatNext
<1>. QED  BY <1>2, <1>3 DEF u, v

\* The pieces of a sequence, two by two, make the sequence.
LEMMA PairsFlat ==
    ASSUME NEW S, NEW g \in Seq(S), NEW m \in Nat, Len(g) <= 2 * m, 2 * m <= Len(g) + 1,
           NEW ss, ss \in [1..m -> Seq(S)],
           \A i \in 1..m : ss[i] = SubSeq(g, 2 * i - 1, IF 2 * i <= Len(g) THEN 2 * i ELSE Len(g))
    PROVE  FlattenSeq(ss) = g
<1>. DEFINE n == Len(g)
            E(i) == IF 2 * i <= n THEN 2 * i ELSE n
            Up(k) == [i \in 1..k |-> ss[i]]
            Right(k) == FlattenSeq(Up(k)) = SubSeq(g, 1, E(k))
            Q == {k \in Nat : k <= m => Right(k)}
<1>1. n \in Nat
  OBVIOUS
<1>2. \A i \in 1..m : ss[i] = SubSeq(g, 2 * i - 1, E(i)) /\ E(i) \in 0..n
  <2>1. \A i \in 1..m : ss[i] = SubSeq(g, 2 * i - 1, E(i))
    OBVIOUS
  <2>2. \A i \in 1..m : E(i) \in 0..n
    <3>. HIDE DEF n
    <3>. QED  BY <1>1
  <2>. HIDE DEF E
  <2>. QED  BY <2>1, <2>2
<1>3. \A i \in 1..m : ss[i] \in Seq(S)
  OBVIOUS
<1>4. 0 \in Q
  <2>1. Up(0) = <<>> /\ E(0) = 0
    BY <1>1
  <2>2. SubSeq(g, 1, 0) = <<>>
    OBVIOUS
  <2>. HIDE DEF Up, E
  <2>. QED  BY <2>1, <2>2, FlatEmpty
<1>5. ASSUME NEW k \in Nat, k \in Q PROVE k + 1 \in Q
  <2>. SUFFICES ASSUME k + 1 <= m PROVE Right(k + 1)
    <3>. HIDE DEF Right
    <3>. QED  OBVIOUS
  <2>1. FlattenSeq(Up(k)) = SubSeq(g, 1, E(k))
    <3>. HIDE DEF Right
    <3>1. Right(k)
      BY <1>5
    <3>. QED  BY <3>1 DEF Right
  <2>2. E(k) = 2 * k /\ 2 * (k + 1) - 1 = 2 * k + 1 /\ E(k + 1) \in (2 * k + 1)..n
    BY <1>1
  <2>5. FlattenSeq(Up(k + 1)) = FlattenSeq(Up(k)) \o ss[k + 1]
    <3>1. \A i \in 1..(k + 1) : ss[i] \in Seq(S)
      BY <1>3
    <3>. HIDE DEF Up
    <3>2. FlattenSeq([i \in 1..(k + 1) |-> ss[i]])
            = FlattenSeq([i \in 1..k |-> ss[i]]) \o ss[k + 1]
      BY <3>1, FlatUpTo
    <3>. QED  BY <3>2 DEF Up
  <2>6. ss[k + 1] = SubSeq(g, 2 * k + 1, E(k + 1))
    <3>1. k + 1 \in 1..m
      OBVIOUS
    <3>. HIDE DEF E
    <3>. QED  BY <1>2, <2>2, <3>1
  <2>. DEFINE a == 2 * k
              b == E(k + 1)
  <2>7. a \in Nat /\ b \in Nat /\ a < b /\ b <= n
    BY <1>1, <2>2
  <2>8. ASSUME NEW c \in Nat, NEW d \in Nat, c < d, d <= Len(g)
        PROVE  SubSeq(g, 1, c) \o SubSeq(g, c + 1, d) = SubSeq(g, 1, d)
    BY <2>8
  <2>. HIDE DEF E, Up, a, b
  <2>9. SubSeq(g, 1, a) \o SubSeq(g, a + 1, b) = SubSeq(g, 1, b)
    BY <2>7, <2>8
  <2>. QED  BY <2>1, <2>2, <2>5, <2>6, <2>9 DEF a, b
<1>6. Nat \subseteq Q
  <2>. HIDE DEF Q
  <2>. QED  BY <1>4, <1>5, Induct
<1>7. Right(m)
  <2>. HIDE DEF Right
  <2>. QED  BY <1>6
<1>8. E(m) = n
  BY <1>1
<1>9. Up(m) = ss /\ SubSeq(g, 1, n) = g
  <2>1. SubSeq(g, 1, Len(g)) = g
    OBVIOUS
  <2>. QED  BY <2>1
<1>. HIDE DEF Up, E
<1>. QED  BY <1>7, <1>8, <1>9

\* A profile is read as it was written.
LEMMA DecodedIs ==
    ASSUME NEW stack \in Stacks, NEW order \in SetToSeqs(Field)
    PROVE  Decoded(stack, order) = stack
<1>. DEFINE tables == TablesOf(stack, order)
            ids == Encoded(stack, "sample")
            ls == LocationsOf(stack)
            m == (Len(stack) + 1) \div 2
            g == [j \in 1..Len(stack) |-> Index(stack[j])]
            ss == [i \in DOMAIN tables["sample"] |-> tables["location"][tables["sample"][i]]]
            functions == FlattenSeq(ss)
<1>1. /\ tables["sample"] = [i \in DOMAIN ls |-> LocationId(ls[i])]
      /\ tables["location"] = [i \in DOMAIN Locations |->
                                  [j \in DOMAIN Locations[i] |-> Index(Locations[i][j])]]
      /\ tables["function"] = [i \in DOMAIN Names |-> i]
      /\ tables["string"] = Names
  <2>1. /\ "string" \in Field /\ "function" \in Field /\ "location" \in Field /\ "sample" \in Field
    BY DEF Field
  <2>2. \A f \in Field : tables[f] = Encoded(stack, f)
    BY TablesAre
  <2>. HIDE DEF tables
  <2>. QED  BY <2>1, <2>2 DEF Encoded
<1>2. Decoded(stack, order)
        = [i \in DOMAIN functions |-> tables["string"][tables["function"][functions[i]]]]
  BY DEF Decoded, TablesOf
<1>. HIDE DEF tables
<1>3. /\ stack \in Seq(Function) /\ Len(stack) \in Nat /\ m \in Nat
      /\ Len(stack) <= 2 * m /\ 2 * m <= Len(stack) + 1
      /\ ls = [i \in 1..m |-> SubSeq(stack, 2 * i - 1,
                                     IF 2 * i <= Len(stack) THEN 2 * i ELSE Len(stack))]
  BY StackIs, Halves
<1>. HIDE DEF m
<1>4. DOMAIN tables["sample"] = 1..m
  BY <1>1, <1>3
<1>5. ASSUME NEW i \in 1..m
      PROVE  ss[i] = SubSeq(g, 2 * i - 1, IF 2 * i <= Len(stack) THEN 2 * i ELSE Len(stack))
  <2>. DEFINE l == ls[i]
              a == 2 * i - 1
              b == IF 2 * i <= Len(stack) THEN 2 * i ELSE Len(stack)
  <2>1. l \in ToSet(ls)
    BY <1>3 DEF ToSet
  <2>2. LocationId(l) \in DOMAIN Locations /\ Locations[LocationId(l)] = l
    BY <2>1, LocationsAre
  <2>3. ss[i] = [j \in DOMAIN l |-> Index(l[j])]
    <3>1. ss[i] = tables["location"][tables["sample"][i]]
      BY <1>4
    <3>2. tables["sample"][i] = LocationId(l)
      BY <1>1, <1>3
    <3>. HIDE DEF l
    <3>3. tables["location"][LocationId(l)]
            = [j \in DOMAIN Locations[LocationId(l)] |-> Index(Locations[LocationId(l)][j])]
      BY <1>1, <2>2
    <3>. QED  BY <2>2, <3>1, <3>2, <3>3
  <2>4. l = SubSeq(stack, a, b)
    BY <1>3
  <2>5. a \in Nat \ {0} /\ b \in Nat /\ a <= b /\ b <= Len(stack)
    BY <1>3
  <2>. HIDE DEF l, a, b
  <2>6. SubSeq(stack, a, b) = [j \in 1..(b - a + 1) |-> stack[a + j - 1]]
    BY <1>3, <2>5
  <2>7. SubSeq(g, a, b) = [j \in 1..(b - a + 1) |-> g[a + j - 1]]
    BY <1>3, <2>5
  <2>8. \A j \in 1..(b - a + 1) : a + j - 1 \in 1..Len(stack)
    BY <1>3, <2>5
  <2>9. DOMAIN l = 1..(b - a + 1) /\ \A j \in 1..(b - a + 1) : l[j] = stack[a + j - 1]
    BY <2>4, <2>6
  <2>10. [j \in DOMAIN l |-> Index(l[j])] = [j \in 1..(b - a + 1) |-> g[a + j - 1]]
    BY <2>8, <2>9
  <2>11. ss[i] = SubSeq(g, a, b)
    BY <2>3, <2>7, <2>10
  <2>. QED  BY <2>11 DEF a, b
<1>6. functions = g
  <2>1. ss = [i \in 1..m |-> SubSeq(g, 2 * i - 1,
                                    IF 2 * i <= Len(stack) THEN 2 * i ELSE Len(stack))]
    BY <1>4, <1>5
  <2>2. g \in Seq(DOMAIN Names) /\ Len(g) = Len(stack)
    <3>1. \A j \in 1..Len(stack) : Index(stack[j]) \in DOMAIN Names
      BY <1>3, NamesAre
    <3>. QED  BY <1>3, <3>1
  <2>. HIDE DEF g, ss
  <2>3. \A i \in 1..m : ss[i] = SubSeq(g, 2 * i - 1, IF 2 * i <= Len(g) THEN 2 * i ELSE Len(g))
    BY <2>1, <2>2
  <2>4. ss \in [1..m -> Seq(DOMAIN Names)]
    <3>1. \A i \in 1..m : SubSeq(g, 2 * i - 1, IF 2 * i <= Len(g) THEN 2 * i ELSE Len(g))
                             \in Seq(DOMAIN Names)
      <4>. SUFFICES ASSUME NEW i \in 1..m
                   PROVE  SubSeq(g, 2 * i - 1, IF 2 * i <= Len(g) THEN 2 * i ELSE Len(g))
                             \in Seq(DOMAIN Names)
        OBVIOUS
      <4>1. 2 * i - 1 \in 1..(Len(g) + 1)
            /\ (IF 2 * i <= Len(g) THEN 2 * i ELSE Len(g)) \in 0..Len(g)
        BY <1>3, <2>2
      <4>. QED  BY <2>2, <4>1
    <3>. QED  BY <2>1, <2>3, <3>1
  <2>. QED  BY <1>3, <2>2, <2>3, <2>4, PairsFlat
<1>. HIDE DEF functions, ss
<1>7. ASSUME NEW j \in 1..Len(stack)
      PROVE  tables["string"][tables["function"][g[j]]] = stack[j]
  <2>1. stack[j] \in Function
    BY <1>3
  <2>2. Index(stack[j]) \in DOMAIN Names /\ Names[Index(stack[j])] = stack[j]
    BY <2>1, NamesAre
  <2>. QED  BY <1>1, <2>2
<1>8. Decoded(stack, order) = [j \in 1..Len(stack) |-> stack[j]]
  BY <1>2, <1>6, <1>7
<1>. QED  BY <1>3, <1>8

LEMMA CpuIsRight == ASSUME ProfileInv PROVE CpuAddsUp
<1>1. \A by \in {Flat, AppTime, ClassTime, RouteTime} : SumFunction(by) = CpuTotal
  <2>1. SumFunction(Flat) = CpuTotal /\ SumFunction(AppTime) = CpuTotal
    BY FlatAddsUp, AppTimeAddsUp
  <2>2. SumFunction(ClassTime) = CpuTotal /\ SumFunction(RouteTime) = CpuTotal
    BY ClassTimeAddsUp, RouteTimeAddsUp
  <2>. QED  BY <2>1, <2>2
<1>. QED  BY <1>1, TimesAreOrdered, DecodedIs DEF CpuAddsUp

\* The waits that a Go profile shows are those of the window, across a
\* restart of the application too, and the CPU time adds up however it is
\* divided (go_profile.rs).
THEOREM ProfilesAreTrue == ProfileSpec => []ProfileTrue
<1>1. ProfileInv => ProfileTrue
  BY SitesAreInWindow, CpuIsRight DEF ProfileTrue
<1>. QED  BY <1>1, ProfileStarts, WindowStep, PTL DEF ProfileSpec

-----------------------------------------------------------------------------
(* StateLog                                                                *)

-----------------------------------------------------------------------------
(* The lines                                                               *)

\* A log, as far as the metrics read it.
LogOK == /\ lines \in Seq(Line) /\ Len(lines) <= MaxLines
         /\ \A i \in 1..Len(lines), j \in 1..Len(lines) : i <= j => lines[i].t <= lines[j].t

LastBefore == Cardinality(Before)
Early == Upto(WindowStart - 1)

\* Numbers that go down to 1 without a gap.
LEMMA NoGap ==
    ASSUME NEW n \in Nat, NEW S \in SUBSET (1..n), \A i \in S : \A j \in 1..i : j \in S
    PROVE  Cardinality(S) \in 0..n /\ S = 1..Cardinality(S)
<1>1. CASE S = {}
  <2>1. Cardinality(S) = 0
    BY <1>1, FS_EmptySet
  <2>. QED  BY <1>1, <2>1
<1>2. CASE S # {}
  <2>. DEFINE m == Max(S)
  <2>1. m \in S /\ \A y \in S : y <= m
    BY <1>2, MaxOf
  <2>2. m \in 1..n
    BY <2>1
  <2>3. S = 1..m
    <3>. HIDE DEF m
    <3>1. \A j \in 1..m : j \in S
      BY <2>1
    <3>2. \A y \in S : y \in 1..m
      BY <2>1, <2>2
    <3>. QED  BY <3>1, <3>2
  <2>4. Cardinality(1..m) = m
    <3>1. 1 \in Int /\ m \in Int /\ m >= 1
      BY <2>2
    <3>. HIDE DEF m
    <3>2. Cardinality(1..m) = m - 1 + 1
      BY <3>1, FS_Interval
    <3>. QED  BY <3>1, <3>2
  <2>. HIDE DEF m
  <2>. QED  BY <2>2, <2>3, <2>4
<1>. QED  BY <1>1, <1>2

\* A log is in the order of time, not only line by line.
LEMMA InOrder ==
    ASSUME lines \in Logs
    PROVE  LogOK
<1>1. PICK n \in 0..MaxLines : lines \in [1..n -> Line] /\ Ordered(lines)
  BY DEF Logs
<1>2. n \in Nat /\ Len(lines) = n /\ lines \in Seq(Line) /\ n <= MaxLines
  BY <1>1, StatesAssumption
<1>3. \A i \in 1..n : lines[i].t \in Int
  BY <1>1 DEF Line
<1>. DEFINE T == {d \in Nat : \A i \in 1..n : i + d <= n => lines[i].t <= lines[i + d].t}
<1>4. 0 \in T
  BY <1>2, <1>3
<1>5. ASSUME NEW d \in Nat, d \in T PROVE d + 1 \in T
  <2>. SUFFICES ASSUME NEW i \in 1..n, i + (d + 1) <= n PROVE lines[i].t <= lines[i + (d + 1)].t
    OBVIOUS
  <2>1. i + d \in 1..n /\ i + d \in 1..n - 1 /\ i + d <= n
    BY <1>2
  <2>2. lines[i].t <= lines[i + d].t
    BY <1>5, <2>1
  <2>3. lines[i + d].t <= lines[(i + d) + 1].t
    BY <1>1, <1>2, <2>1 DEF Ordered
  <2>4. (i + d) + 1 = i + (d + 1) /\ i + (d + 1) \in 1..n
    BY <1>2
  <2>5. lines[i].t \in Int /\ lines[i + d].t \in Int /\ lines[i + (d + 1)].t \in Int
    BY <1>3, <2>1, <2>4
  <2>. QED  BY <2>2, <2>3, <2>4, <2>5
<1>. HIDE DEF T
<1>6. Nat \subseteq T
  BY <1>4, <1>5, Induct
<1>7. ASSUME NEW i \in 1..n, NEW j \in 1..n, i <= j PROVE lines[i].t <= lines[j].t
  <2>1. j - i \in Nat /\ i + (j - i) = j
    BY <1>2, <1>7
  <2>2. j - i \in T
    BY <1>6, <2>1
  <2>. QED  BY <2>1, <2>2 DEF T
<1>. QED  BY <1>2, <1>7 DEF LogOK

LEMMA LineTyped ==
    ASSUME LogOK, NEW i \in 1..Len(lines)
    PROVE  /\ lines[i].t \in Nat /\ lines[i].id \in Object /\ lines[i].to \in State
           /\ lines[i].from \in State \cup {Nothing, Unsaid}
<1>1. lines[i] \in Line
  BY DEF LogOK
<1>2. lines[i].t \in 0..LastTime
  BY <1>1 DEF Line
<1>. QED  BY <1>1, <1>2, StatesAssumption DEF Line

\* The lines before the end of the window come first.
LEMMA BeforeIs ==
    ASSUME LogOK
    PROVE  LastBefore \in 0..Len(lines) /\ Before = 1..LastBefore /\ Len(lines) \in Nat /\ DOMAIN lines = 1..Len(lines)
<1>1. Len(lines) \in Nat /\ DOMAIN lines = 1..Len(lines)
  BY DEF LogOK
<1>2. Before \in SUBSET (1..Len(lines))
  BY <1>1 DEF Before
<1>3. ASSUME NEW i \in Before, NEW j \in 1..i PROVE j \in Before
  <2>1. i \in 1..Len(lines) /\ lines[i].t < WindowEnd
    BY <1>1 DEF Before
  <2>2. j \in 1..Len(lines) /\ j <= i
    BY <1>1, <2>1
  <2>3. lines[j].t <= lines[i].t
    BY <2>1, <2>2 DEF LogOK
  <2>4. lines[j].t \in Nat /\ lines[i].t \in Nat
    BY <2>1, <2>2, LineTyped
  <2>. QED  BY <1>1, <2>1, <2>2, <2>3, <2>4, StatesAssumption DEF Before
<1>. QED  BY <1>1, <1>2, <1>3, NoGap DEF LastBefore

\* Upto() counts the lines up to a time.
LEMMA UptoIs ==
    ASSUME LogOK, NEW a \in Int
    PROVE  Upto(a) \in 0..LastBefore /\ \A i \in 1..LastBefore : i <= Upto(a) <=> lines[i].t <= a
<1>. DEFINE S == {i \in Before : lines[i].t <= a}
<1>1. LastBefore \in Nat /\ LastBefore <= Len(lines) /\ Before = 1..LastBefore /\ Len(lines) \in Nat
  BY BeforeIs
<1>2. S \in SUBSET (1..LastBefore)
  BY <1>1
<1>3. ASSUME NEW i \in S, NEW j \in 1..i PROVE j \in S
  <2>1. i \in 1..LastBefore /\ lines[i].t <= a
    BY <1>1
  <2>2. j \in 1..LastBefore /\ j <= i /\ j \in 1..Len(lines) /\ i \in 1..Len(lines)
    BY <1>1, <2>1
  <2>3. lines[j].t <= lines[i].t
    BY <2>2 DEF LogOK
  <2>4. lines[j].t \in Nat /\ lines[i].t \in Nat
    BY <2>2, LineTyped
  <2>. QED  BY <1>1, <2>1, <2>2, <2>3, <2>4
<1>4. Cardinality(S) \in 0..LastBefore /\ S = 1..Cardinality(S)
  BY <1>1, <1>2, <1>3, NoGap
<1>5. Upto(a) = Cardinality(S)
  BY DEF Upto
<1>6. ASSUME NEW i \in 1..LastBefore PROVE i <= Cardinality(S) <=> i \in S
  <2>. HIDE DEF S
  <2>. QED  BY <1>1, <1>4
<1>. QED  BY <1>1, <1>4, <1>5, <1>6

-----------------------------------------------------------------------------
(* The states of the objects                                               *)

LinesOf(o, n) == {i \in 1..n : lines[i].id = o}

LEMMA TrueStateIs ==
    ASSUME NEW o, NEW n
    PROVE  TrueState(o, n) = IF LinesOf(o, n) # {} THEN lines[Max(LinesOf(o, n))].to
                             ELSE StateAtStart(lines)[o]
BY DEF TrueState, LinesOf

\* A line changes the state of its object, and no other.
LEMMA TrueStateNext ==
    ASSUME NEW o, NEW n \in Nat
    PROVE  TrueState(o, n + 1) = IF lines[n + 1].id = o THEN lines[n + 1].to ELSE TrueState(o, n)
<1>1. CASE lines[n + 1].id = o
  <2>1. LinesOf(o, n + 1) \subseteq Int /\ n + 1 \in LinesOf(o, n + 1)
        /\ \A y \in LinesOf(o, n + 1) : y <= n + 1
    BY <1>1 DEF LinesOf
  <2>2. Max(LinesOf(o, n + 1)) = n + 1
    BY <2>1, MaxIs
  <2>. QED  BY <1>1, <2>1, <2>2, TrueStateIs
<1>2. CASE lines[n + 1].id # o
  <2>1. LinesOf(o, n + 1) = LinesOf(o, n)
    BY <1>2 DEF LinesOf
  <2>. QED  BY <1>2, <2>1, TrueStateIs
<1>. QED  BY <1>1, <1>2

LEMMA FirstOfOne ==
    ASSUME LogOK, NEW o, NEW i \in FirstOf(lines, o), NEW j \in FirstOf(lines, o) PROVE i = j
<1>1. i \in 1..Len(lines) /\ j \in 1..Len(lines) /\ Len(lines) \in Nat
  BY BeforeIs DEF FirstOf
<1>2. ~(i < j) /\ ~(j < i)
  BY <1>1 DEF FirstOf
<1>. QED  BY <1>1, <1>2

LEMMA StartTyped ==
    ASSUME LogOK, NEW o \in Object
    PROVE  /\ StateAtStart(lines)[o] \in State \cup {Nothing}
           /\ \A i \in FirstOf(lines, o) : lines[i].from \in State => StateAtStart(lines)[o] \in State
BY FirstOfOne DEF StateAtStart

LEMMA TrueStateTyped ==
    ASSUME LogOK, NEW o \in Object, NEW n \in 0..Len(lines)
    PROVE  TrueState(o, n) \in State \cup {Nothing}
<1>0. Len(lines) \in Nat /\ n \in Nat
  BY BeforeIs
<1>1. CASE LinesOf(o, n) # {}
  <2>1. LinesOf(o, n) \in SUBSET (1..n)
    BY DEF LinesOf
  <2>2. Max(LinesOf(o, n)) \in 1..n
    BY <1>0, <1>1, <2>1, MaxOf
  <2>3. Max(LinesOf(o, n)) \in 1..Len(lines)
    BY <1>0, <2>2
  <2>. QED  BY <1>1, <2>3, LineTyped, TrueStateIs
<1>2. CASE LinesOf(o, n) = {}
  BY <1>2, StartTyped, TrueStateIs
<1>. QED  BY <1>1, <1>2

\* Of an object that is nowhere yet, the next line does not say where it was.
LEMMA NowhereBefore ==
    ASSUME LogOK, NEW n \in 0..LastBefore - 1, TrueState(lines[n + 1].id, n) = Nothing
    PROVE  lines[n + 1].from \notin State
<1>. DEFINE o == lines[n + 1].id
<1>1. n \in Nat /\ n + 1 \in 1..Len(lines) /\ n + 1 \in Before /\ n \in 0..Len(lines) /\ DOMAIN lines = 1..Len(lines)
  BY BeforeIs
<1>2. o \in Object
  BY <1>1, LineTyped
<1>3. LinesOf(o, n) = {}
  <2>. SUFFICES ASSUME LinesOf(o, n) # {} PROVE FALSE
    OBVIOUS
  <2>1. LinesOf(o, n) \in SUBSET (1..n)
    BY DEF LinesOf
  <2>. HIDE DEF o
  <2>2. Max(LinesOf(o, n)) \in 1..n
    BY <1>1, <2>1, MaxOf
  <2>3. Max(LinesOf(o, n)) \in 1..Len(lines)
    BY <1>1, <2>2
  <2>4. TrueState(o, n) \in State
    BY <2>3, LineTyped, TrueStateIs
  <2>. QED  BY <2>4, StatesAssumption DEF o
<1>4. n + 1 \in FirstOf(lines, o)
  <2>1. \A j \in 1..(n + 1) - 1 : lines[j].id # o
    BY <1>1, <1>3 DEF LinesOf
  <2>. QED  BY <1>1, <2>1 DEF FirstOf, Before
<1>5. TrueState(o, n) = StateAtStart(lines)[o]
  BY <1>3, TrueStateIs
<1>. HIDE DEF o
<1>. QED  BY <1>2, <1>4, <1>5, StartTyped, StatesAssumption DEF o

LEMMA CountsTyped ==
    ASSUME NEW f
    PROVE  CountsOf(f) \in [State -> Nat]
<1>1. ASSUME NEW s PROVE Cardinality({o \in Object : f[o] = s}) \in Nat
  <2>1. IsFiniteSet({o \in Object : f[o] = s})
    BY StatesAssumption, FS_Subset
  <2>. QED  BY <2>1, FS_CardinalityType
<1>. QED  BY <1>1 DEF CountsOf

\* One object that moves is in one state more and in another less.
LEMMA CountsMove ==
    ASSUME NEW f, NEW g, NEW x \in Object, f[x] # g[x], \A o \in Object \ {x} : g[o] = f[o]
    PROVE  CountsOf(g) = [s \in State |-> CountsOf(f)[s] - (IF s = f[x] THEN 1 ELSE 0)
                                                         + (IF s = g[x] THEN 1 ELSE 0)]
<1>. SUFFICES ASSUME NEW s \in State
              PROVE  Cardinality({o \in Object : g[o] = s}) = 
                        Cardinality({o \in Object : f[o] = s}) - (IF s = f[x] THEN 1 ELSE 0)
                                                               + (IF s = g[x] THEN 1 ELSE 0)
  BY DEF CountsOf
<1>. DEFINE F == {o \in Object : f[o] = s}
            G == {o \in Object : g[o] = s}
<1>1. IsFiniteSet(F) /\ IsFiniteSet(G)
  BY StatesAssumption, FS_Subset
<1>2. Cardinality(F) \in Nat /\ Cardinality(G) \in Nat
  BY <1>1, FS_CardinalityType
<1>3. CASE s = f[x]
  <2>1. s # g[x] /\ x \in F /\ G = F \ {x}
    BY <1>3
  <2>2. Cardinality(G) = Cardinality(F) - 1
    <3>. HIDE DEF F, G
    <3>. QED  BY <1>1, <2>1, FS_RemoveElement
  <2>. QED  BY <1>2, <1>3, <2>1, <2>2
<1>4. CASE s = g[x]
  <2>1. s # f[x] /\ x \notin F /\ G = F \cup {x}
    BY <1>4
  <2>2. Cardinality(G) = Cardinality(F) + 1
    <3>. HIDE DEF F, G
    <3>. QED  BY <1>1, <2>1, FS_AddElement
  <2>. QED  BY <1>2, <1>4, <2>1, <2>2
<1>5. CASE s # f[x] /\ s # g[x]
  <2>1. F = G
    BY <1>5
  <2>2. Cardinality(G) = Cardinality(F)
    BY <2>1
  <2>3. Cardinality(G) = Cardinality(F) - 0 + 0
    <3>. HIDE DEF F, G
    <3>. QED  BY <1>2, <2>2
  <2>. QED  BY <1>5, <2>3
<1>. QED  BY <1>3, <1>4, <1>5

LEMMA CountsSame ==
    ASSUME NEW f, NEW g, \A o \in Object : f[o] = g[o] PROVE CountsOf(f) = CountsOf(g)
<1>1. \A s : {o \in Object : f[o] = s} = {o \in Object : g[o] = s}
  OBVIOUS
<1>. QED  BY <1>1 DEF CountsOf

-----------------------------------------------------------------------------
(* The lines read so far                                                   *)

Seen == IF Done THEN LastBefore ELSE next - 1

\* The moves of an object in the first n lines.
Moved(o, n) == {i \in Moves(o) : i <= n}

\* Since its last move an object is where it led.
EnteredOK ==
    \A o \in Object :
        /\ Moved(o, Seen) = {} => entered[o] = Unsaid
        /\ Moved(o, Seen) # {} => /\ entered[o] = lines[Max(Moved(o, Seen))].t
                                  /\ state[o] = lines[Max(Moved(o, Seen))].to

SeenInv ==
    /\ LogOK
    /\ next \in 1..LastBefore + 1 \/ Done
    /\ state \in [Object -> State \cup {Nothing}] /\ \A o \in Object : state[o] = TrueState(o, Seen)
    /\ counts = CountsOf(state)
    /\ entered \in [Object -> Int \cup {Unsaid}] /\ EnteredOK

LEMMA Lasting ==
    ASSUME lines' = lines
    PROVE  /\ LogOK' = LogOK /\ LastBefore' = LastBefore /\ Before' = Before /\ Early' = Early
           /\ \A o, n : TrueState(o, n)' = TrueState(o, n)
           /\ \A n : TrueCounts(n)' = TrueCounts(n)
           /\ \A o : Moves(o)' = Moves(o)
           /\ \A o, n : Moved(o, n)' = Moved(o, n)
           /\ \A t : Upto(t)' = Upto(t)
           /\ TrueStays' = TrueStays
           /\ \A p : Stay(p)' = Stay(p)
<1>1. Before' = Before
  BY DEF Before
<1>2. LastBefore' = LastBefore
  BY <1>1 DEF LastBefore
<1>3. \A t : Upto(t)' = Upto(t)
  BY <1>1 DEF Upto
<1>4. \A o, n : TrueState(o, n)' = TrueState(o, n)
  BY DEF TrueState, StateAtStart, FirstOf
<1>5. \A n : TrueCounts(n)' = TrueCounts(n)
  BY <1>4 DEF TrueCounts
<1>6. \A o : Moves(o)' = Moves(o)
  BY <1>1, <1>4 DEF Moves
<1>7. \A o, n : Moved(o, n)' = Moved(o, n)
  BY <1>6 DEF Moved
<1>8. TrueStays' = TrueStays
  BY <1>6 DEF TrueStays, InWindow
<1>9. \A p : Stay(p)' = Stay(p)
  BY DEF Stay
<1>. QED  BY <1>1, <1>2, <1>3, <1>4, <1>5, <1>6, <1>7, <1>8, <1>9 DEF LogOK, Early

LEMMA MovesAre ==
    ASSUME LogOK, NEW o
    PROVE  /\ Moves(o) \in SUBSET (1..LastBefore)
           /\ \A n \in Nat : Moved(o, n) \in SUBSET (1..n) /\ Moved(o, n) \in SUBSET (1..LastBefore)
<1>1. Moves(o) \in SUBSET (1..LastBefore)
  BY BeforeIs DEF Moves
<1>2. LastBefore \in Nat
  BY BeforeIs
<1>. QED  BY <1>1, <1>2 DEF Moved

LEMMA MovedNext ==
    ASSUME LogOK, NEW o, NEW n \in 0..LastBefore - 1
    PROVE  IF lines[n + 1].id = o /\ TrueState(o, n) # lines[n + 1].to
           THEN Moved(o, n + 1) = Moved(o, n) \cup {n + 1} /\ Max(Moved(o, n + 1)) = n + 1
           ELSE Moved(o, n + 1) = Moved(o, n)
<1>1. n \in Nat /\ n + 1 \in Before /\ (n + 1) - 1 = n /\ LastBefore \in Nat
  BY BeforeIs
<1>2. n + 1 \in Moves(o) <=> lines[n + 1].id = o /\ TrueState(o, n) # lines[n + 1].to
  BY <1>1 DEF Moves
<1>3. Moves(o) \in SUBSET (1..LastBefore)
  BY MovesAre
<1>4. \A i \in Moves(o) : i <= n + 1 <=> i <= n \/ i = n + 1
  BY <1>1, <1>3
<1>5. CASE n + 1 \in Moves(o)
  <2>1. Moved(o, n + 1) = Moved(o, n) \cup {n + 1}
    BY <1>1, <1>4, <1>5 DEF Moved
  <2>2. Moved(o, n + 1) \subseteq Int /\ \A y \in Moved(o, n + 1) : y <= n + 1
    BY <1>1, <1>3 DEF Moved
  <2>3. Max(Moved(o, n + 1)) = n + 1
    BY <2>1, <2>2, MaxIs
  <2>. QED  BY <1>2, <1>5, <2>1, <2>3
<1>6. CASE n + 1 \notin Moves(o)
  BY <1>2, <1>4, <1>6 DEF Moved
<1>. QED  BY <1>5, <1>6

LEMMA SeenStart == StatesInit => SeenInv
<1>. SUFFICES ASSUME StatesInit PROVE SeenInv
  OBVIOUS
<1>1. LogOK /\ next = 1 /\ state = StateAtStart(lines) /\ entered = [o \in Object |-> Unsaid]
      /\ counts = CountsOf(state)
  BY InOrder DEF StatesInit
<1>2. LastBefore \in Nat /\ ~Done /\ Seen = 0
  <2>1. LastBefore \in Nat
    BY <1>1, BeforeIs
  <2>2. ~Done
    BY <1>1, StatesAssumption DEF Done
  <2>. QED  BY <1>1, <2>1, <2>2 DEF Seen
<1>3. \A o \in Object : TrueState(o, 0) = StateAtStart(lines)[o]
  <2>1. \A o : LinesOf(o, 0) = {}
    BY DEF LinesOf
  <2>. QED  BY <2>1, TrueStateIs
<1>4. StateAtStart(lines) \in [Object -> State \cup {Nothing}]
  <2>1. StateAtStart(lines) = [o \in Object |-> StateAtStart(lines)[o]]
    BY DEF StateAtStart
  <2>2. \A o \in Object : StateAtStart(lines)[o] \in State \cup {Nothing}
    BY <1>1, StartTyped
  <2>. QED  BY <2>1, <2>2
<1>5. \A o : Moved(o, 0) = {}
  BY <1>1, MovesAre
<1>6. EnteredOK
  BY <1>1, <1>2, <1>5 DEF EnteredOK
<1>. QED  BY <1>1, <1>2, <1>3, <1>4, <1>6 DEF SeenInv

\* Where the next line is, and what it says.
LEMMA NextLine ==
    ASSUME SeenInv, ReadLine
    PROVE  /\ next \in 1..LastBefore /\ LastBefore \in Nat /\ LastBefore <= Len(lines)
           /\ Seen = next - 1 /\ Seen' = next /\ ~Done /\ ~Done'
           /\ lines' = lines /\ next' = next + 1
           /\ lines[next].id \in Object /\ lines[next].to \in State /\ lines[next].t \in Nat
           /\ lines[next].from \in State \cup {Nothing, Unsaid}
<1>1. LogOK /\ next \in 1..LastBefore /\ LastBefore \in Nat /\ LastBefore <= Len(lines) /\ Len(lines) \in Nat
  BY BeforeIs DEF SeenInv, ReadLine
<1>2. Len(lines) <= MaxLines
  BY <1>1 DEF LogOK
<1>3. next + 1 <= MaxLines + 1 /\ MaxLines \in Nat
  BY <1>1, <1>2, StatesAssumption
<1>4. lines' = lines /\ next' = next + 1
  BY DEF ReadLine
<1>5. ~Done /\ ~Done'
  BY <1>1, <1>3, <1>4 DEF Done
<1>6. Seen = next - 1 /\ Seen' = next
  BY <1>1, <1>4, <1>5 DEF Seen
<1>7. next \in 1..Len(lines)
  BY <1>1
<1>. QED  BY <1>1, <1>4, <1>5, <1>6, <1>7, LineTyped

LEMMA SeenRead ==
    ASSUME SeenInv, ReadLine
    PROVE  SeenInv'
<1>. DEFINE e == lines[next]
            o == e.id
<1>1. /\ next \in 1..LastBefore /\ LastBefore \in Nat /\ LastBefore <= Len(lines)
      /\ Seen = next - 1 /\ Seen' = next /\ ~Done /\ ~Done'
      /\ lines' = lines /\ next' = next + 1
      /\ o \in Object /\ e.to \in State /\ e.t \in Nat
  BY NextLine
<1>2. LogOK /\ LogOK' /\ LastBefore' = LastBefore
  BY <1>1, Lasting DEF SeenInv
<1>3. next - 1 \in 0..LastBefore - 1 /\ next - 1 \in Nat /\ (next - 1) + 1 = next
  BY <1>1
<1>4. /\ state \in [Object -> State \cup {Nothing}] /\ \A x \in Object : state[x] = TrueState(x, next - 1)
      /\ counts = CountsOf(state)
      /\ entered \in [Object -> Int \cup {Unsaid}] 
  BY <1>1 DEF SeenInv
<1>5. Track(e)
  BY DEF ReadLine
<1>6. /\ state' = [state EXCEPT ![o] = e.to]
      /\ entered' = IF state[o] = e.to THEN entered ELSE [entered EXCEPT ![o] = e.t]
  <2>1. CASE state[o] = e.to
    BY <1>1, <1>4, <1>5, <2>1 DEF Track
  <2>2. CASE state[o] # e.to
    BY <1>5, <2>2 DEF Track
  <2>. QED  BY <2>1, <2>2
<1>7. state' \in [Object -> State \cup {Nothing}] /\ entered' \in [Object -> Int \cup {Unsaid}]
  BY <1>1, <1>4, <1>6
<1>8. \A x \in Object : state'[x] = TrueState(x, next)
  <2>. SUFFICES ASSUME NEW x \in Object PROVE state'[x] = TrueState(x, next)
    OBVIOUS
  <2>1. TrueState(x, next) = IF o = x THEN e.to ELSE TrueState(x, next - 1)
    BY <1>3, TrueStateNext
  <2>. QED  BY <1>1, <1>4, <1>6, <2>1
<1>9. (\A x \in Object : state[x] = TrueState(x, Seen))'
  <2>1. Seen' = next /\ lines' = lines
    BY <1>1
  <2>2. \A x : TrueState(x, Seen)' = TrueState(x, next)
    <3>1. StateAtStart(lines)' = StateAtStart(lines)
      BY <2>1 DEF StateAtStart, FirstOf
    <3>. QED  BY <2>1, <3>1 DEF TrueState
  <2>. QED  BY <1>8, <2>2
<1>10. counts' = CountsOf(state')
  <2>1. CASE state[o] = e.to
    <3>1. state' = state /\ counts' = counts
      BY <1>4, <1>5, <1>6, <2>1 DEF Track
    <3>. QED  BY <1>4, <3>1
  <2>2. CASE state[o] # e.to
    <3>1. counts' = [s \in State |-> counts[s] - (IF s = state[o] THEN 1 ELSE 0) + (IF s = e.to THEN 1 ELSE 0)]
      BY <1>5, <2>2 DEF Track
    <3>2. state'[o] = e.to /\ \A x \in Object \ {o} : state'[x] = state[x]
      BY <1>1, <1>4, <1>6
    <3>3. CountsOf(state') = [s \in State |-> CountsOf(state)[s] - (IF s = state[o] THEN 1 ELSE 0)
                                                                 + (IF s = state'[o] THEN 1 ELSE 0)]
      <4>. DEFINE f == state
                  g == state'
      <4>1. f[o] # g[o] /\ \A x \in Object \ {o} : g[x] = f[x]
        BY <2>2, <3>2
      <4>. HIDE DEF f, g, o
      <4>2. CountsOf(g) = [s \in State |-> CountsOf(f)[s] - (IF s = f[o] THEN 1 ELSE 0)
                                                         + (IF s = g[o] THEN 1 ELSE 0)]
        BY <1>1, <4>1, CountsMove
      <4>. QED  BY <4>2 DEF f, g
    <3>. QED  BY <1>4, <3>1, <3>2, <3>3
  <2>. QED  BY <2>1, <2>2
<1>11. ASSUME NEW x \in Object
       PROVE  /\ Moved(x, next) = {} => entered'[x] = Unsaid
              /\ Moved(x, next) # {} => /\ entered'[x] = lines[Max(Moved(x, next))].t
                                        /\ state'[x] = lines[Max(Moved(x, next))].to
  <2>1. IF o = x /\ TrueState(x, next - 1) # e.to
        THEN Moved(x, next) = Moved(x, next - 1) \cup {next} /\ Max(Moved(x, next)) = next
        ELSE Moved(x, next) = Moved(x, next - 1)
    BY <1>2, <1>3, MovedNext
  <2>2. /\ Moved(x, next - 1) = {} => entered[x] = Unsaid
        /\ Moved(x, next - 1) # {} => /\ entered[x] = lines[Max(Moved(x, next - 1))].t
                                      /\ state[x] = lines[Max(Moved(x, next - 1))].to
    BY <1>1 DEF SeenInv, EnteredOK
  <2>3. CASE o = x /\ state[o] # e.to
    BY <1>1, <1>4, <1>6, <2>1, <2>3
  <2>4. CASE ~(o = x /\ state[o] # e.to)
    <3>1. Moved(x, next) = Moved(x, next - 1)
      BY <1>4, <2>1, <2>4
    <3>2. state'[x] = state[x] /\ entered'[x] = entered[x]
      BY <1>1, <1>4, <1>6, <2>4
    <3>. QED  BY <2>2, <3>1, <3>2
  <2>. QED  BY <2>3, <2>4
<1>12. EnteredOK'
  <2>1. \A x \in Object : Moved(x, Seen)' = Moved(x, next)
    BY <1>1, Lasting DEF Moved
  <2>. QED  BY <1>1, <1>11, <2>1 DEF EnteredOK
<1>13. (next \in 1..LastBefore + 1)'
  BY <1>1, <1>2
<1>14. (counts = CountsOf(state))'
  BY <1>10 DEF CountsOf
<1>. QED  BY <1>2, <1>7, <1>9, <1>12, <1>13, <1>14 DEF SeenInv

\* The end of the log.
LEMMA Ending ==
    ASSUME SeenInv, Finish
    PROVE  /\ next = LastBefore + 1 /\ LastBefore \in Nat /\ LastBefore <= Len(lines) /\ LogOK
           /\ Seen = LastBefore /\ Seen' = LastBefore /\ LastBefore' = LastBefore /\ ~Done /\ Done'
           /\ lines' = lines /\ state' = state /\ counts' = counts /\ entered' = entered
<1>1. LogOK /\ next = LastBefore + 1 /\ LastBefore \in Nat /\ LastBefore <= Len(lines) /\ Len(lines) \in Nat
  BY BeforeIs DEF SeenInv, Finish, LastBefore
<1>2. Len(lines) <= MaxLines
  BY <1>1 DEF LogOK
<1>3. ~Done
  BY <1>1, <1>2, StatesAssumption DEF Done
<1>4. lines' = lines /\ next' = MaxLines + 2 /\ state' = state /\ counts' = counts /\ entered' = entered
  BY DEF Finish
<1>5. LastBefore' = LastBefore /\ Done'
  BY <1>4, Lasting DEF Done
<1>6. Seen = LastBefore /\ Seen' = LastBefore
  BY <1>1, <1>3, <1>5 DEF Seen
<1>. QED  BY <1>1, <1>3, <1>4, <1>5, <1>6

LEMMA SeenStays ==
    ASSUME SeenInv, lines' = lines, state' = state, counts' = counts, entered' = entered,
           Seen' = Seen, next' = next \/ Done'
    PROVE  SeenInv'
<1>1. LogOK' /\ (next \in 1..LastBefore + 1 \/ Done)'
  <2>1. Done' = Done \/ Done'
    BY DEF Done
  <2>. QED  BY <2>1, Lasting DEF SeenInv, Done
<1>2. (\A o \in Object : state[o] = TrueState(o, Seen))'
  <2>1. StateAtStart(lines)' = StateAtStart(lines)
    BY DEF StateAtStart, FirstOf
  <2>2. \A o : TrueState(o, Seen)' = TrueState(o, Seen)
    BY <2>1 DEF TrueState
  <2>. QED  BY <2>2 DEF SeenInv
<1>3. EnteredOK'
  <2>1. \A o : Moved(o, Seen)' = Moved(o, Seen)
    BY Lasting DEF Moved
  <2>. QED  BY <2>1 DEF EnteredOK, SeenInv
<1>4. (counts = CountsOf(state))'
  BY DEF CountsOf, SeenInv
<1>. QED  BY <1>1, <1>2, <1>3, <1>4 DEF SeenInv

LEMMA SeenFinish == ASSUME SeenInv, Finish PROVE SeenInv'
BY Ending, SeenStays

LEMMA SeenIs ==
    ASSUME SeenInv
    PROVE  /\ LastBefore \in 0..Len(lines) /\ Len(lines) \in Nat /\ LastBefore \in Nat
           /\ Seen \in 0..LastBefore /\ Early \in 0..LastBefore
           /\ ~Done => next = Seen + 1
           /\ counts = TrueCounts(Seen) /\ counts \in [State -> Nat]
<1>1. LogOK /\ LastBefore \in 0..Len(lines) /\ Len(lines) \in Nat /\ LastBefore \in Nat
  BY BeforeIs DEF SeenInv
<1>2. Early \in 0..LastBefore
  <2>1. WindowStart - 1 \in Int
    BY StatesAssumption
  <2>. QED  BY <1>1, <2>1, UptoIs DEF Early
<1>3. Seen \in 0..LastBefore /\ (~Done => next = Seen + 1)
  BY <1>1 DEF SeenInv, Seen
<1>4. counts = TrueCounts(Seen)
  <2>1. \A o \in Object : state[o] = [x \in Object |-> TrueState(x, Seen)][o]
    BY DEF SeenInv
  <2>2. CountsOf(state) = CountsOf([x \in Object |-> TrueState(x, Seen)])
    BY <2>1, CountsSame
  <2>. QED  BY <2>2 DEF SeenInv, TrueCounts
<1>. QED  BY <1>1, <1>2, <1>3, <1>4, CountsTyped DEF TrueCounts

\* The lines of the window are those behind the early ones.
LEMMA WindowIs ==
    ASSUME LogOK, NEW i \in 1..LastBefore
    PROVE  InWindow(lines[i]) <=> i > Early
<1>1. i \in Before /\ i \in 1..Len(lines) /\ LastBefore \in Nat
  BY BeforeIs
<1>2. lines[i].t \in Nat /\ lines[i].t < WindowEnd
  BY <1>1, LineTyped DEF Before
<1>3. Early \in 0..LastBefore /\ (i <= Early <=> lines[i].t <= WindowStart - 1)
  <2>1. WindowStart - 1 \in Int
    BY StatesAssumption
  <2>. QED  BY <2>1, UptoIs DEF Early
<1>. QED  BY <1>1, <1>2, <1>3, StatesAssumption DEF InWindow

-----------------------------------------------------------------------------
(* The peaks                                                               *)

\* The largest number among those of the lines of the window so far, and of
\* the objects that were there before.
Peak(s, n, value) ==
    /\ \E k \in Early..n : value = TrueCounts(k)[s]
    /\ \A k \in Early..n : TrueCounts(k)[s] <= value

PeaksOK ==
    /\ peaks \in [State -> Nat]
    /\ ~Done /\ Seen <= Early => peaks = [s \in State |-> 0]
    /\ Done \/ Seen > Early => \A s \in State : Peak(s, Seen, peaks[s])

LEMMA PeaksStart == StatesInit => PeaksOK
<1>. SUFFICES ASSUME StatesInit PROVE PeaksOK
  OBVIOUS
<1>1. SeenInv /\ next = 1 /\ peaks = [s \in State |-> 0]
  BY SeenStart DEF StatesInit
<1>2. ~Done
  BY <1>1, StatesAssumption DEF Done
<1>3. Seen = 0 /\ Early \in Nat /\ ~(Seen > Early)
  BY <1>1, <1>2, SeenIs
<1>. QED  BY <1>1, <1>2, <1>3 DEF PeaksOK

LEMMA PeaksRead ==
    ASSUME SeenInv, PeaksOK, ReadLine
    PROVE  PeaksOK'
<1>. DEFINE e == lines[next]
            n == next
<1>1. /\ n \in 1..LastBefore /\ LastBefore \in Nat
      /\ Seen = n - 1 /\ Seen' = n /\ ~Done /\ ~Done'
      /\ lines' = lines /\ e.to \in State
  BY NextLine
<1>2. LogOK /\ Early \in 0..LastBefore /\ Early' = Early
  BY <1>1, SeenIs, Lasting DEF SeenInv
<1>3. counts = TrueCounts(n - 1) /\ counts \in [State -> Nat]
  BY <1>1, SeenIs
<1>4. counts' = TrueCounts(n) /\ counts' \in [State -> Nat]
  <2>1. SeenInv'
    BY SeenRead
  <2>2. (counts = TrueCounts(Seen) /\ counts \in [State -> Nat])'
    <3>1. SeenInv' => (counts = TrueCounts(Seen) /\ counts \in [State -> Nat])'
      BY SeenIs, PTL
    <3>. QED  BY <2>1, <3>1
  <2>3. TrueCounts(Seen)' = TrueCounts(n)
    <3>1. StateAtStart(lines)' = StateAtStart(lines)
      BY <1>1 DEF StateAtStart, FirstOf
    <3>2. \A o : TrueState(o, Seen)' = TrueState(o, n)
      BY <1>1, <3>1 DEF TrueState
    <3>. QED  BY <3>2 DEF TrueCounts, CountsOf
  <2>. QED  BY <2>2, <2>3
<1>5. peaks' = PeaksAfter(e)
  BY DEF ReadLine
<1>6. InWindow(e) <=> n > Early
  BY <1>1, <1>2, WindowIs
<1>7. \A s \in State : counts'[s] > counts[s] => s = e.to
  <2>1. Track(e)
    BY DEF ReadLine
  <2>2. CASE state[e.id] = e.to
    BY <1>3, <2>1, <2>2 DEF Track
  <2>3. CASE state[e.id] # e.to
    <3>1. counts' = [s \in State |-> counts[s] - (IF s = state[e.id] THEN 1 ELSE 0) + (IF s = e.to THEN 1 ELSE 0)]
      BY <2>1, <2>3 DEF Track
    <3>. SUFFICES ASSUME NEW s \in State, s # e.to PROVE ~(counts'[s] > counts[s])
      OBVIOUS
    <3>2. counts[s] \in Nat
      BY <1>3
    <3>3. counts'[s] = counts[s] - (IF s = state[e.id] THEN 1 ELSE 0)
      BY <3>1, <3>2
    <3>. QED  BY <3>2, <3>3
  <2>. QED  BY <2>2, <2>3
<1>8. CASE n <= Early
  <2>1. peaks' = peaks
    BY <1>1, <1>2, <1>5, <1>6, <1>8 DEF PeaksAfter
  <2>2. Seen <= Early /\ ~(Seen' > Early') /\ Seen' <= Early'
    BY <1>1, <1>2, <1>8
  <2>. QED  BY <1>1, <2>1, <2>2 DEF PeaksOK
<1>9. CASE n > Early
  <2>. DEFINE first == PeaksAtStart(e)
  <2>1. first \in [State -> Nat] /\ \A s \in State : Peak(s, n - 1, first[s])
    <3>1. CASE n = Early + 1
      <4>1. Opens(e)
        <5>1. \A i \in 1..n - 1 : ~InWindow(lines[i])
          <6>. SUFFICES ASSUME NEW i \in 1..n - 1 PROVE ~InWindow(lines[i])
            OBVIOUS
          <6>1. i \in 1..LastBefore /\ ~(i > Early)
            BY <1>1, <1>2, <3>1
          <6>. QED  BY <1>2, <6>1, WindowIs
        <5>. QED  BY <1>6, <1>9, <5>1 DEF Opens
      <4>2. peaks = [s \in State |-> 0]
        BY <1>1, <1>2, <3>1 DEF PeaksOK
      <4>3. first = counts
        <5>1. first = [s \in State |-> Greater(peaks[s], counts[s])]
          BY <4>1 DEF PeaksAtStart
        <5>2. \A s \in State : Greater(peaks[s], counts[s]) = counts[s]
          BY <1>3, <4>2 DEF Greater
        <5>. QED  BY <1>3, <5>1, <5>2
      <4>4. Early..n - 1 = {n - 1}
        BY <1>1, <1>2, <3>1
      <4>. QED  BY <1>3, <4>3, <4>4 DEF Peak
    <3>2. CASE n # Early + 1
      <4>1. n - 1 \in 1..LastBefore /\ n - 1 > Early
        BY <1>1, <1>2, <1>9, <3>2
      <4>2. ~Opens(e)
        <5>1. InWindow(lines[n - 1])
          BY <1>2, <4>1, WindowIs
        <5>2. n - 1 \in 1..n - 1
          BY <1>1, <4>1
        <5>. QED  BY <5>1, <5>2 DEF Opens
      <4>3. first = peaks
        BY <4>2 DEF PeaksAtStart
      <4>. QED  BY <1>1, <4>1, <4>3 DEF PeaksOK
    <3>. QED  BY <3>1, <3>2
  <2>2. peaks' = [first EXCEPT ![e.to] = Greater(@, counts'[e.to])]
    BY <1>6, <1>5, <1>9 DEF PeaksAfter
  <2>3. peaks' \in [State -> Nat]
    BY <1>1, <1>4, <2>1, <2>2 DEF Greater
  <2>4. ASSUME NEW s \in State PROVE Peak(s, n, peaks'[s])
    <3>. DEFINE f == first[s]
                p == peaks'[s]
                c == counts'[s]
    <3>1. f \in Nat /\ c \in Nat /\ p = IF s = e.to THEN Greater(f, c) ELSE f
      BY <1>1, <1>4, <2>1, <2>2
    <3>2. c = TrueCounts(n)[s] /\ counts[s] = TrueCounts(n - 1)[s] /\ counts[s] \in Nat
      BY <1>3, <1>4
    <3>3. c > counts[s] => s = e.to
      BY <1>7
    <3>4. (\E k \in Early..n - 1 : f = TrueCounts(k)[s]) /\ \A k \in Early..n - 1 : TrueCounts(k)[s] <= f
      BY <2>1 DEF Peak
    <3>5. n - 1 \in Early..n - 1 /\ n \in Early..n /\ \A k \in Early..n : k = n \/ k \in Early..n - 1
      BY <1>1, <1>2, <1>9
    <3>5a. \A k \in Early..n - 1 : k \in Early..n
      BY <1>1, <1>2
    <3>6. counts[s] <= f
      BY <3>2, <3>4, <3>5
    <3>. HIDE DEF f, p, c, first, n
    <3>7. p >= f /\ p >= c /\ (p = f \/ p = c)
      BY <3>1, <3>2, <3>3, <3>6 DEF Greater
    <3>8. \E k \in Early..n : p = TrueCounts(k)[s]
      BY <3>2, <3>4, <3>5, <3>5a, <3>7
    <3>9. ASSUME NEW k \in Early..n PROVE TrueCounts(k)[s] <= p
      <4>1. CASE k = n
        BY <3>1, <3>2, <3>7, <4>1
      <4>2. CASE k \in Early..n - 1
        <5>1. TrueCounts(k)[s] <= f
          BY <3>4, <4>2
        <5>2. TrueCounts(k)[s] \in Nat
          BY CountsTyped DEF TrueCounts
        <5>3. p \in Nat
          BY <3>1, <3>7
        <5>. QED  BY <3>1, <3>7, <5>1, <5>2, <5>3
      <4>. QED  BY <3>5, <4>1, <4>2
    <3>. QED  BY <3>8, <3>9 DEF Peak, p
  <2>5. \A s \in State : Peak(s, Seen, peaks[s])'
    BY <1>1, <1>2, <2>4, Lasting DEF Peak
  <2>6. ~(Seen' <= Early')
    BY <1>1, <1>2, <1>9
  <2>. QED  BY <2>3, <2>5, <2>6 DEF PeaksOK
<1>. QED  BY <1>1, <1>2, <1>8, <1>9

LEMMA PeaksFinish ==
    ASSUME SeenInv, PeaksOK, Finish
    PROVE  PeaksOK'
<1>1. /\ LastBefore \in Nat /\ LogOK /\ Seen = LastBefore /\ Seen' = LastBefore /\ ~Done /\ Done'
      /\ LastBefore' = LastBefore /\ lines' = lines
  BY Ending
<1>2. Early \in 0..LastBefore /\ Early' = Early /\ Before = 1..LastBefore
      /\ counts = TrueCounts(LastBefore) /\ counts \in [State -> Nat]
  BY <1>1, SeenIs, BeforeIs, Lasting
<1>3. peaks' = IF \E i \in Before : InWindow(lines[i]) THEN peaks ELSE counts
  BY DEF Finish
<1>4. peaks' \in [State -> Nat] /\ \A s \in State : Peak(s, LastBefore, peaks'[s])
  <2>1. CASE LastBefore > Early
    <3>1. LastBefore \in 1..LastBefore /\ InWindow(lines[LastBefore])
      <4>1. LastBefore \in 1..LastBefore
        BY <1>1, <1>2, <2>1
      <4>. QED  BY <1>1, <2>1, <4>1, WindowIs
    <3>2. peaks' = peaks
      BY <1>2, <1>3, <3>1
    <3>. QED  BY <1>1, <2>1, <3>2 DEF PeaksOK
  <2>2. CASE ~(LastBefore > Early)
    <3>1. LastBefore = Early /\ Early..LastBefore = {LastBefore}
      BY <1>1, <1>2, <2>2
    <3>2. \A i \in Before : ~InWindow(lines[i])
      <4>. SUFFICES ASSUME NEW i \in 1..LastBefore PROVE ~InWindow(lines[i])
        BY <1>2
      <4>1. ~(i > Early)
        BY <1>1, <3>1
      <4>. QED  BY <1>1, <4>1, WindowIs
    <3>3. peaks' = counts
      BY <1>3, <3>2
    <3>. QED  BY <1>2, <3>1, <3>3 DEF Peak
  <2>. QED  BY <2>1, <2>2
<1>5. (\A s \in State : Peak(s, Seen, peaks[s]))'
  BY <1>1, <1>2, <1>4, Lasting DEF Peak
<1>. QED  BY <1>1, <1>4, <1>5 DEF PeaksOK

\* The numbers at the times that passed.
OccupancyOK ==
    /\ DOMAIN occupancy = {m \in Moments : Done \/ (Seen > 0 /\ m < lines[Seen].t)}
    /\ \A m \in DOMAIN occupancy : occupancy[m] = TrueCounts(Upto(m))

\* What is sampled at a time is what the lines up to it left.
LEMMA SampledIs ==
    ASSUME SeenInv, OccupancyOK, ~Done, NEW until \in Int, until <= WindowEnd,
           Seen > 0 => lines[Seen].t <= until,
           Seen = LastBefore \/ lines[Seen + 1].t = until
    PROVE  /\ DOMAIN Sampled(until) = {m \in Moments : m < until}
           /\ \A m \in Moments : m < until => Sampled(until)[m] = TrueCounts(Upto(m))
<1>1. DOMAIN Sampled(until) = {m \in Moments : m < until}
  BY DEF Sampled
<1>2. ASSUME NEW m \in Moments, m < until PROVE Sampled(until)[m] = TrueCounts(Upto(m))
  <2>1. Sampled(until)[m] = IF m \in DOMAIN occupancy THEN occupancy[m] ELSE counts
    BY <1>2 DEF Sampled
  <2>2. CASE m \in DOMAIN occupancy
    BY <2>1, <2>2 DEF OccupancyOK
  <2>3. CASE m \notin DOMAIN occupancy
    <3>1. LogOK /\ Seen \in 0..LastBefore /\ LastBefore \in 0..Len(lines) /\ LastBefore \in Nat /\ Len(lines) \in Nat
          /\ counts = TrueCounts(Seen)
      BY SeenIs DEF SeenInv
    <3>2. m \in Int
      BY StatesAssumption DEF Moments
    <3>3. Upto(m) \in 0..LastBefore /\ \A i \in 1..LastBefore : i <= Upto(m) <=> lines[i].t <= m
      BY <3>1, <3>2, UptoIs
    <3>4. \A i \in 1..LastBefore : lines[i].t \in Nat
      <4>1. \A i \in 1..LastBefore : i \in 1..Len(lines)
        BY <3>1
      <4>. QED  BY <3>1, <4>1, LineTyped
    <3>5. Upto(m) >= Seen
      <4>1. CASE Seen = 0
        BY <3>3, <4>1
      <4>2. CASE Seen > 0
        <5>1. Seen \in 1..LastBefore
          BY <3>1, <4>2
        <5>2. ~(m < lines[Seen].t)
          BY <2>3, <4>2 DEF OccupancyOK
        <5>3. lines[Seen].t <= m
          BY <3>2, <3>4, <5>1, <5>2
        <5>4. Seen <= Upto(m)
          BY <3>3, <5>1, <5>3
        <5>. QED  BY <3>3, <5>1, <5>4
      <4>. QED  BY <3>1, <4>1, <4>2
    <3>6. Upto(m) <= Seen
      <4>1. CASE Seen = LastBefore
        BY <3>1, <3>3, <4>1
      <4>2. CASE Seen # LastBefore
        <5>1. Seen + 1 \in 1..LastBefore /\ lines[Seen + 1].t = until
          BY <3>1, <4>2
        <5>2. ~(lines[Seen + 1].t <= m)
          BY <1>2, <3>2, <5>1
        <5>3. ~(Seen + 1 <= Upto(m))
          BY <3>3, <5>1, <5>2
        <5>. QED  BY <3>1, <3>3, <5>3
      <4>. QED  BY <4>1, <4>2
    <3>7. Upto(m) = Seen
      BY <3>1, <3>3, <3>5, <3>6
    <3>. QED  BY <2>1, <2>3, <3>1, <3>7
  <2>. QED  BY <2>2, <2>3
<1>. QED  BY <1>1, <1>2

LEMMA OccupancyStart == StatesInit => OccupancyOK
<1>. SUFFICES ASSUME StatesInit PROVE OccupancyOK
  OBVIOUS
<1>1. SeenInv /\ next = 1 /\ occupancy = <<>>
  BY SeenStart DEF StatesInit
<1>2. ~Done
  BY <1>1, StatesAssumption DEF Done
<1>3. Seen = 0
  BY <1>1, <1>2, SeenIs
<1>4. DOMAIN occupancy = {}
  BY <1>1
<1>. QED  BY <1>2, <1>3, <1>4 DEF OccupancyOK

LEMMA OccupancyRead ==
    ASSUME SeenInv, OccupancyOK, ReadLine
    PROVE  OccupancyOK'
<1>. DEFINE e == lines[next]
<1>1. /\ next \in 1..LastBefore /\ LastBefore \in Nat /\ LastBefore <= Len(lines)
      /\ Seen = next - 1 /\ Seen' = next /\ ~Done /\ ~Done' /\ lines' = lines /\ e.t \in Nat
  BY NextLine
<1>2. LogOK /\ Before = 1..LastBefore /\ Len(lines) \in Nat
  BY BeforeIs DEF SeenInv
<1>3. e.t <= WindowEnd /\ e.t \in Int
  <2>1. e.t < WindowEnd
    BY <1>1, <1>2 DEF Before
  <2>. QED  BY <1>1, <2>1, StatesAssumption
<1>4. Seen > 0 => lines[Seen].t <= e.t
  <2>. SUFFICES ASSUME Seen > 0 PROVE lines[Seen].t <= e.t
    OBVIOUS
  <2>1. next - 1 \in 1..Len(lines) /\ next \in 1..Len(lines) /\ next - 1 <= next
    BY <1>1, <1>2
  <2>. QED  BY <1>1, <1>2, <2>1 DEF LogOK
<1>5. lines[Seen + 1].t = e.t
  BY <1>1
<1>. DEFINE until == e.t
<1>6. /\ DOMAIN Sampled(until) = {m \in Moments : m < until}
      /\ \A m \in Moments : m < until => Sampled(until)[m] = TrueCounts(Upto(m))
  <2>. HIDE DEF until
  <2>. QED  BY <1>1, <1>3, <1>4, <1>5, SampledIs DEF until
<1>7. occupancy' = Sampled(until)
  BY DEF ReadLine
<1>8. Seen' > 0 /\ lines'[Seen'].t = until
  BY <1>1
<1>9. \A m : TrueCounts(Upto(m))' = TrueCounts(Upto(m))
  <2>1. \A m : Upto(m)' = Upto(m)
    BY <1>1, Lasting
  <2>2. StateAtStart(lines)' = StateAtStart(lines)
    BY <1>1 DEF StateAtStart, FirstOf
  <2>3. \A o, m : TrueState(o, Upto(m))' = TrueState(o, Upto(m))
    BY <1>1, <2>1, <2>2 DEF TrueState
  <2>. QED  BY <2>3 DEF TrueCounts, CountsOf
<1>10. DOMAIN occupancy' = {m \in Moments : m < until}
  BY <1>6, <1>7
<1>11. \A m \in DOMAIN occupancy' : occupancy'[m] = TrueCounts(Upto(m))
  BY <1>6, <1>7
<1>. HIDE DEF until, e
<1>. QED  BY <1>1, <1>8, <1>9, <1>10, <1>11 DEF OccupancyOK, Moments

LEMMA OccupancyFinish ==
    ASSUME SeenInv, OccupancyOK, Finish
    PROVE  OccupancyOK'
<1>1. /\ LastBefore \in Nat /\ LastBefore <= Len(lines) /\ LogOK /\ Seen = LastBefore /\ ~Done /\ Done' /\ lines' = lines
  BY Ending
<1>2. Seen > 0 => lines[Seen].t <= WindowEnd
  <2>. SUFFICES ASSUME Seen > 0 PROVE lines[Seen].t <= WindowEnd
    OBVIOUS
  <2>1. Seen \in Before /\ Seen \in 1..Len(lines)
    <3>1. Before = 1..LastBefore /\ Len(lines) \in Nat
      BY <1>1, BeforeIs
    <3>. QED  BY <1>1, <3>1
  <2>2. lines[Seen].t \in Nat /\ lines[Seen].t < WindowEnd
    BY <1>1, <2>1, LineTyped DEF Before
  <2>. QED  BY <2>2, StatesAssumption
<1>3. WindowEnd \in Int /\ WindowEnd <= WindowEnd
  BY StatesAssumption
<1>4. /\ DOMAIN Sampled(WindowEnd) = {m \in Moments : m < WindowEnd}
      /\ \A m \in Moments : m < WindowEnd => Sampled(WindowEnd)[m] = TrueCounts(Upto(m))
  BY <1>1, <1>2, <1>3, SampledIs
<1>5. \A m \in Moments : m < WindowEnd
  BY StatesAssumption DEF Moments
<1>6. occupancy' = Sampled(WindowEnd)
  BY DEF Finish
<1>7. \A m : TrueCounts(Upto(m))' = TrueCounts(Upto(m))
  <2>1. \A m : Upto(m)' = Upto(m)
    BY <1>1, Lasting
  <2>2. StateAtStart(lines)' = StateAtStart(lines)
    BY <1>1 DEF StateAtStart, FirstOf
  <2>3. \A o, m : TrueState(o, Upto(m))' = TrueState(o, Upto(m))
    BY <1>1, <2>1, <2>2 DEF TrueState
  <2>. QED  BY <2>3 DEF TrueCounts, CountsOf
<1>8. DOMAIN occupancy' = Moments
  BY <1>4, <1>5, <1>6
<1>9. \A m \in DOMAIN occupancy' : occupancy'[m] = TrueCounts(Upto(m))
  BY <1>4, <1>5, <1>6, <1>8
<1>. QED  BY <1>1, <1>7, <1>8, <1>9 DEF OccupancyOK, Moments

-----------------------------------------------------------------------------
(* The transitions                                                         *)

SideTotal(B, side, s) == SumFunctionOnSet(B, {q \in DOMAIN B : q[side] = s})

\* A bag with one more of p.
Put(B, p) == B (+) SetToBag({p})

LEMMA BagMore ==
    ASSUME NEW B, B \in [DOMAIN B -> Nat], NEW p
    PROVE  /\ DOMAIN Put(B, p) = DOMAIN B \cup {p}
           /\ \A x \in DOMAIN B \cup {p} :
                Put(B, p)[x] = (IF x \in DOMAIN B THEN B[x] ELSE 0) + (IF x = p THEN 1 ELSE 0)
           /\ Put(B, p) \in [DOMAIN B \cup {p} -> Nat]
<1>. DEFINE One == SetToBag({p})
            C == Put(B, p)
<1>1. DOMAIN One = {p} /\ One[p] = 1
  BY DEF SetToBag
<1>2. C = [x \in DOMAIN B \cup DOMAIN One |-> (IF x \in DOMAIN B THEN B[x] ELSE 0)
                                               + (IF x \in DOMAIN One THEN One[x] ELSE 0)]
  BY DEF (+), Put
<1>. HIDE DEF One, C
<1>3. DOMAIN C = DOMAIN B \cup {p}
  BY <1>1, <1>2
<1>4. ASSUME NEW x \in DOMAIN B \cup {p}
      PROVE  C[x] = (IF x \in DOMAIN B THEN B[x] ELSE 0) + (IF x = p THEN 1 ELSE 0) /\ C[x] \in Nat
  <2>1. C[x] = (IF x \in DOMAIN B THEN B[x] ELSE 0) + (IF x = p THEN 1 ELSE 0)
    BY <1>1, <1>2
  <2>2. x \in DOMAIN B => B[x] \in Nat
    OBVIOUS
  <2>. QED  BY <2>1, <2>2
<1>5. C \in [DOMAIN B \cup {p} -> Nat]
  BY <1>1, <1>2, <1>4
<1>. QED  BY <1>3, <1>4, <1>5 DEF C

LEMMA TotalMore ==
    ASSUME NEW B, B \in [DOMAIN B -> Nat], IsFiniteSet(DOMAIN B), NEW p, NEW side, NEW s
    PROVE  SideTotal(Put(B, p), side, s) = SideTotal(B, side, s) + (IF p[side] = s THEN 1 ELSE 0)
<1>. DEFINE C == Put(B, p)
            R == {q \in DOMAIN B : q[side] = s}
            T == {q \in DOMAIN C : q[side] = s}
<1>1. /\ DOMAIN C = DOMAIN B \cup {p} /\ C \in [DOMAIN C -> Nat]
      /\ C[p] = (IF p \in DOMAIN B THEN B[p] ELSE 0) + 1
      /\ \A x \in DOMAIN B \ {p} : C[x] = B[x]
  <2>. HIDE DEF R, T
  <2>1. /\ DOMAIN C = DOMAIN B \cup {p} /\ C \in [DOMAIN B \cup {p} -> Nat]
        /\ \A x \in DOMAIN B \cup {p} :
             C[x] = (IF x \in DOMAIN B THEN B[x] ELSE 0) + (IF x = p THEN 1 ELSE 0)
    BY BagMore
  <2>. HIDE DEF C
  <2>2. \A x \in DOMAIN B : B[x] \in Nat
    OBVIOUS
  <2>. QED  BY <2>1, <2>2
<1>. HIDE DEF C
<1>2. IsFiniteSet(R) /\ R \subseteq DOMAIN B
  BY FS_Subset
<1>3. \A x \in R : B[x] \in Int /\ C[x] \in Int
  BY <1>1
<1>4. SumFunctionOnSet(B, R) \in Int
  <2>. HIDE DEF R
  <2>. QED  BY <1>2, <1>3, SumInt
<1>. SUFFICES SideTotal(C, side, s) = SideTotal(B, side, s) + (IF p[side] = s THEN 1 ELSE 0)
  BY DEF C
<1>5. CASE p[side] # s
  <2>1. T = R /\ \A x \in R : C[x] = B[x]
    BY <1>1, <1>5
  <2>2. SumFunctionOnSet(C, R) = SumFunctionOnSet(B, R)
    <3>. HIDE DEF R, T
    <3>. QED  BY <1>2, <2>1, SumSame
  <2>3. SideTotal(C, side, s) = SumFunctionOnSet(C, R) /\ SideTotal(B, side, s) = SumFunctionOnSet(B, R)
    BY <2>1 DEF SideTotal
  <2>. HIDE DEF R, T
  <2>. QED  BY <1>4, <1>5, <2>2, <2>3
<1>6. CASE p[side] = s /\ p \in DOMAIN B
  <2>1. T = R /\ p \in R /\ C[p] = B[p] + 1 /\ \A x \in R \ {p} : C[x] = B[x]
    BY <1>1, <1>6
  <2>2. SumFunctionOnSet(C, R) = SumFunctionOnSet(B, R) + 1
    <3>. HIDE DEF R, T
    <3>1. p \in R /\ C[p] = B[p] + 1 /\ (\A x \in R : B[x] \in Int) /\ \A x \in R \ {p} : C[x] = B[x]
      BY <1>3, <2>1
    <3>. QED  BY <1>2, <3>1, SumGrows
  <2>3. SideTotal(C, side, s) = SumFunctionOnSet(C, R) /\ SideTotal(B, side, s) = SumFunctionOnSet(B, R)
    BY <2>1 DEF SideTotal
  <2>. HIDE DEF R, T
  <2>. QED  BY <1>6, <2>2, <2>3
<1>7. CASE p[side] = s /\ p \notin DOMAIN B
  <2>1. T = R \cup {p} /\ p \notin R /\ C[p] = 1 /\ \A x \in R : C[x] = B[x]
    BY <1>1, <1>7
  <2>2. SumFunctionOnSet(C, R) = SumFunctionOnSet(B, R)
    <3>. HIDE DEF R, T
    <3>. QED  BY <1>2, <2>1, SumSame
  <2>3. SumFunctionOnSet(C, R \cup {p}) = C[p] + SumFunctionOnSet(C, R)
    <3>. HIDE DEF R, T
    <3>1. \A x \in R \cup {p} : C[x] \in Int
      BY <1>3, <2>1
    <3>. QED  BY <1>2, <2>1, <3>1, SumMore
  <2>4. SideTotal(C, side, s) = SumFunctionOnSet(C, R \cup {p}) /\ SideTotal(B, side, s) = SumFunctionOnSet(B, R)
    BY <2>1 DEF SideTotal
  <2>. HIDE DEF R, T
  <2>. QED  BY <1>4, <1>7, <2>1, <2>2, <2>3, <2>4
<1>. QED  BY <1>5, <1>6, <1>7

\* Unless a line contradicts what was tracked, it says where the object was.
LEMMA FromIs ==
    ASSUME SeenInv, ReadLine, Consistent(lines[next]), NEW s \in State
    PROVE  s = From(lines[next]) <=> s = state[lines[next].id]
<1>. DEFINE e == lines[next]
            o == e.id
<1>1. /\ next \in 1..LastBefore /\ LastBefore \in Nat /\ Seen = next - 1 /\ o \in Object
      /\ e.from \in State \cup {Nothing, Unsaid}
  BY NextLine
<1>2. state[o] = TrueState(o, next - 1) /\ state[o] \in State \cup {Nothing} /\ LogOK
  BY <1>1 DEF SeenInv
<1>3. CASE state[o] = Nothing
  <2>1. next - 1 \in 0..LastBefore - 1 /\ (next - 1) + 1 = next
    BY <1>1
  <2>2. e.from \notin State
    BY <1>2, <1>3, <2>1, NowhereBefore
  <2>. QED  BY <1>3, <2>2, StatesAssumption DEF From
<1>4. CASE state[o] # Nothing
  BY <1>4 DEF From, Consistent
<1>. QED  BY <1>3, <1>4

TransOK ==
    /\ transitions \in [DOMAIN transitions -> Nat] /\ IsFiniteSet(DOMAIN transitions)
    /\ inconsistent \in Nat
    /\ Seen <= Early => DOMAIN transitions = {}
    /\ Seen >= Early /\ inconsistent = 0 =>
          \A s \in State : TrueCounts(Seen)[s] = TrueCounts(Early)[s] + SideTotal(transitions, 2, s) - SideTotal(transitions, 1, s)

LEMMA NoneYet == ASSUME NEW B, DOMAIN B = {}, NEW side, NEW s PROVE SideTotal(B, side, s) = 0
<1>1. {q \in DOMAIN B : q[side] = s} = {}
  OBVIOUS
<1>. QED  BY <1>1, SumEmpty DEF SideTotal

LEMMA TransStart == StatesInit => TransOK
<1>. SUFFICES ASSUME StatesInit PROVE TransOK
  OBVIOUS
<1>1. SeenInv /\ next = 1 /\ transitions = EmptyBag /\ inconsistent = 0
  BY SeenStart DEF StatesInit
<1>2. ~Done
  BY <1>1, StatesAssumption DEF Done
<1>3. Seen = 0 /\ Early \in Nat
  BY <1>1, <1>2, SeenIs
<1>4. DOMAIN transitions = {} /\ transitions \in [DOMAIN transitions -> Nat]
  BY <1>1 DEF EmptyBag, SetToBag
<1>5. Seen >= Early => Seen = Early
  BY <1>3
<1>6. \A s \in State : TrueCounts(Early)[s] \in Nat
  BY CountsTyped DEF TrueCounts
<1>7. \A s \in State : SideTotal(transitions, 2, s) = 0 /\ SideTotal(transitions, 1, s) = 0
  BY <1>4, NoneYet
<1>8. IsFiniteSet(DOMAIN transitions)
  BY <1>4, FS_EmptySet
<1>. QED  BY <1>1, <1>4, <1>5, <1>6, <1>7, <1>8 DEF TransOK

LEMMA TransRead ==
    ASSUME SeenInv, TransOK, ReadLine
    PROVE  TransOK'
<1>. DEFINE e == lines[next]
            n == next
            B == transitions
            C == transitions'
            p == <<From(e), e.to>>
<1>1. /\ n \in 1..LastBefore /\ LastBefore \in Nat
      /\ Seen = n - 1 /\ Seen' = n /\ lines' = lines /\ e.to \in State
  BY NextLine
<1>2. LogOK /\ Early \in 0..LastBefore /\ Early' = Early
  BY <1>1, SeenIs, Lasting DEF SeenInv
<1>3. InWindow(e) <=> n > Early
  BY <1>1, <1>2, WindowIs
<1>4. inconsistent \in Nat /\ inconsistent' \in Nat /\ (inconsistent' = 0 => inconsistent = 0 /\ Consistent(e))
  BY DEF ReadLine, TransOK
<1>5. (TrueCounts(Seen)' = TrueCounts(n)) /\ (TrueCounts(Early)' = TrueCounts(Early))
  <2>1. StateAtStart(lines)' = StateAtStart(lines)
    BY <1>1 DEF StateAtStart, FirstOf
  <2>2. \A o : TrueState(o, Seen)' = TrueState(o, n) /\ TrueState(o, Early)' = TrueState(o, Early)
    BY <1>1, <1>2, <2>1 DEF TrueState
  <2>. QED  BY <2>2 DEF TrueCounts, CountsOf
<1>6. \A k : \A s \in State : TrueCounts(k)[s] \in Nat
  BY CountsTyped DEF TrueCounts
<1>7. B \in [DOMAIN B -> Nat] /\ IsFiniteSet(DOMAIN B)
  BY DEF TransOK
<1>8. CASE n <= Early
  <2>1. C = B /\ DOMAIN B = {}
    BY <1>1, <1>2, <1>3, <1>8 DEF ReadLine, TransOK
  <2>2. \A s \in State : SideTotal(C, 2, s) = 0 /\ SideTotal(C, 1, s) = 0
    BY <2>1, NoneYet
  <2>3. n >= Early => n = Early
    BY <1>1, <1>2, <1>8
  <2>4. Seen' >= Early' =>
            \A s \in State : (TrueCounts(Seen)')[s] = (TrueCounts(Early)')[s] + SideTotal(C, 2, s) - SideTotal(C, 1, s)
    BY <1>1, <1>2, <1>5, <1>6, <2>2, <2>3
  <2>5. C \in [DOMAIN C -> Nat] /\ IsFiniteSet(DOMAIN C) /\ DOMAIN C = {}
    BY <1>7, <2>1
  <2>6. (\A s \in State : TrueCounts(Seen)[s] = TrueCounts(Early)[s] + SideTotal(transitions, 2, s) - SideTotal(transitions, 1, s))'
          <=> \A s \in State : (TrueCounts(Seen)')[s] = (TrueCounts(Early)')[s] + SideTotal(C, 2, s) - SideTotal(C, 1, s)
    BY DEF SideTotal
  <2>. QED  BY <1>4, <2>4, <2>5, <2>6 DEF TransOK
<1>9. CASE n > Early
  <2>1. C = Put(B, p)
    BY <1>3, <1>9 DEF ReadLine, Put
  <2>2. C \in [DOMAIN C -> Nat] /\ DOMAIN C = DOMAIN B \cup {p}
    <3>. HIDE DEF p, B, C
    <3>. QED  BY <1>7, <2>1, BagMore
  <2>3. IsFiniteSet(DOMAIN C)
    BY <1>7, <2>2, FS_AddElement
  <2>4. ASSUME NEW side, NEW s PROVE SideTotal(C, side, s) = SideTotal(B, side, s) + (IF p[side] = s THEN 1 ELSE 0)
    <3>. HIDE DEF p, B, C
    <3>. QED  BY <1>7, <2>1, TotalMore
  <2>5. \A side, s : SideTotal(B, side, s) \in Int
    <3>. SUFFICES ASSUME NEW side, NEW s PROVE SideTotal(B, side, s) \in Int
      OBVIOUS
    <3>. DEFINE R == {q \in DOMAIN B : q[side] = s}
    <3>1. IsFiniteSet(R) /\ \A x \in R : B[x] \in Int
      BY <1>7, FS_Subset
    <3>. HIDE DEF R
    <3>2. SumFunctionOnSet(B, R) \in Int
      BY <3>1, SumInt
    <3>. QED  BY <3>2 DEF SideTotal, R
  <2>6. ASSUME inconsistent' = 0, NEW s \in State
        PROVE  TrueCounts(n)[s] = TrueCounts(Early)[s] + SideTotal(C, 2, s) - SideTotal(C, 1, s)
    <3>1. inconsistent = 0 /\ Consistent(e)
      BY <1>4, <2>6
    <3>2. TrueCounts(n - 1)[s] = TrueCounts(Early)[s] + SideTotal(B, 2, s) - SideTotal(B, 1, s)
      BY <1>1, <1>2, <1>9, <3>1 DEF TransOK
    <3>3. \A r \in State : r = From(e) <=> r = state[e.id]
      BY <3>1, FromIs
    <3>4. counts = TrueCounts(n - 1) /\ counts' = TrueCounts(n)
      <4>1. counts = TrueCounts(n - 1)
        BY <1>1, SeenIs
      <4>2. SeenInv'
        BY SeenRead
      <4>3. SeenInv' => (counts = TrueCounts(Seen))'
        BY SeenIs, PTL
      <4>. QED  BY <1>5, <4>1, <4>2, <4>3
    <3>5. counts'[s] = counts[s] - (IF s = From(e) THEN 1 ELSE 0) + (IF s = e.to THEN 1 ELSE 0)
      <4>1. Track(e) /\ counts[s] \in Nat
        BY <1>6, <3>4 DEF ReadLine
      <4>2. CASE state[e.id] = e.to
        <5>1. counts' = counts
          BY <4>1, <4>2 DEF Track
        <5>2. s = From(e) <=> s = e.to
          BY <3>3, <4>2
        <5>. QED  BY <4>1, <5>1, <5>2
      <4>3. CASE state[e.id] # e.to
        <5>1. counts'[s] = counts[s] - (IF s = state[e.id] THEN 1 ELSE 0) + (IF s = e.to THEN 1 ELSE 0)
          BY <4>1, <4>3 DEF Track
        <5>. QED  BY <3>3, <5>1
      <4>. QED  BY <4>2, <4>3
    <3>6. p[1] = From(e) /\ p[2] = e.to
      OBVIOUS
    <3>7. SideTotal(C, 1, s) = SideTotal(B, 1, s) + (IF s = From(e) THEN 1 ELSE 0)
      BY <2>4, <3>6
    <3>8. SideTotal(C, 2, s) = SideTotal(B, 2, s) + (IF s = e.to THEN 1 ELSE 0)
      BY <2>4, <3>6
    <3>9. TrueCounts(n - 1)[s] \in Nat /\ TrueCounts(Early)[s] \in Nat /\ TrueCounts(n)[s] \in Nat
          /\ SideTotal(B, 1, s) \in Int /\ SideTotal(B, 2, s) \in Int
      BY <1>6, <2>5
    <3>. DEFINE was == TrueCounts(n - 1)[s]
                is == TrueCounts(n)[s]
                early == TrueCounts(Early)[s]
                a == SideTotal(B, 1, s)
                b == SideTotal(B, 2, s)
                x == IF s = From(e) THEN 1 ELSE 0
                y == IF s = e.to THEN 1 ELSE 0
    <3>10. is = was - x + y /\ was = early + b - a /\ SideTotal(C, 1, s) = a + x /\ SideTotal(C, 2, s) = b + y
      BY <3>2, <3>4, <3>5, <3>7, <3>8
    <3>11. was \in Int /\ is \in Int /\ early \in Int /\ a \in Int /\ b \in Int /\ x \in Int /\ y \in Int
      BY <3>9
    <3>. HIDE DEF was, is, early, a, b, x, y, C
    <3>12. is = early + SideTotal(C, 2, s) - SideTotal(C, 1, s)
      BY <3>10, <3>11
    <3>. QED  BY <3>12 DEF is, early
  <2>7. (\A s \in State : TrueCounts(Seen)[s] = TrueCounts(Early)[s] + SideTotal(transitions, 2, s) - SideTotal(transitions, 1, s))'
          <=> \A s \in State : (TrueCounts(Seen)')[s] = (TrueCounts(Early)')[s] + SideTotal(C, 2, s) - SideTotal(C, 1, s)
    BY DEF SideTotal
  <2>8. ~(Seen' <= Early')
    BY <1>1, <1>2, <1>9
  <2>. QED  BY <1>4, <1>5, <2>2, <2>3, <2>6, <2>7, <2>8 DEF TransOK
<1>. QED  BY <1>1, <1>2, <1>8, <1>9

\* The invariant lasts while nothing that it says changes.
LEMMA TransStays ==
    ASSUME TransOK, lines' = lines, transitions' = transitions, inconsistent' = inconsistent, Seen' = Seen
    PROVE  TransOK'
<1>1. Early' = Early
  BY Lasting
<1>2. (TrueCounts(Seen)' = TrueCounts(Seen)) /\ (TrueCounts(Early)' = TrueCounts(Early))
  <2>1. StateAtStart(lines)' = StateAtStart(lines)
    BY DEF StateAtStart, FirstOf
  <2>2. \A o : TrueState(o, Seen)' = TrueState(o, Seen) /\ TrueState(o, Early)' = TrueState(o, Early)
    BY <1>1, <2>1 DEF TrueState
  <2>. QED  BY <2>2 DEF TrueCounts, CountsOf
<1>. QED  BY <1>1, <1>2 DEF TransOK, SideTotal

-----------------------------------------------------------------------------
(* The stays                                                               *)

StaysOf(P) == [stay \in {Stay(p) : p \in P} |-> Cardinality({p \in P : Stay(p) = stay})]

\* The stays that ended by line n.
Ended(n) == {p \in TrueStays : p[2] <= n}

\* The stay that line n + 1 ends.
Leaving(o, n) == <<Max(Moved(o, n)), n + 1>>

LEMMA OneMoreStay ==
    ASSUME NEW P, IsFiniteSet(P), NEW p, p \notin P
    PROVE  StaysOf(P \cup {p}) = Put(StaysOf(P), Stay(p))
<1>. DEFINE B == StaysOf(P)
            C == StaysOf(P \cup {p})
            Of(Q, stay) == {q \in Q : Stay(q) = stay}
<1>1. \A stay : IsFiniteSet(Of(P, stay)) /\ Cardinality(Of(P, stay)) \in Nat
  <2>. SUFFICES ASSUME NEW stay PROVE IsFiniteSet(Of(P, stay)) /\ Cardinality(Of(P, stay)) \in Nat
    OBVIOUS
  <2>1. IsFiniteSet(Of(P, stay))
    BY FS_Subset
  <2>. HIDE DEF Of
  <2>. QED  BY <2>1, FS_CardinalityType
<1>2. DOMAIN B = {Stay(q) : q \in P} /\ \A stay \in DOMAIN B : B[stay] = Cardinality(Of(P, stay))
  BY DEF StaysOf
<1>3. /\ DOMAIN C = {Stay(q) : q \in P \cup {p}}
      /\ \A stay \in DOMAIN C : C[stay] = Cardinality(Of(P \cup {p}, stay))
      /\ C = [stay \in DOMAIN C |-> C[stay]]
  BY DEF StaysOf
<1>4. DOMAIN C = DOMAIN B \cup {Stay(p)}
  BY <1>2, <1>3
<1>5. ASSUME NEW stay \in DOMAIN C
      PROVE  C[stay] = (IF stay \in DOMAIN B THEN B[stay] ELSE 0) + (IF stay = Stay(p) THEN 1 ELSE 0)
  <2>1. (IF stay \in DOMAIN B THEN B[stay] ELSE 0) = Cardinality(Of(P, stay))
    <3>1. CASE stay \in DOMAIN B
      BY <1>2, <3>1
    <3>2. CASE stay \notin DOMAIN B
      <4>1. Of(P, stay) = {}
        BY <1>2, <3>2
      <4>. HIDE DEF Of
      <4>2. Cardinality(Of(P, stay)) = 0
        BY <4>1, FS_EmptySet
      <4>. QED  BY <3>2, <4>2
    <3>. QED  BY <3>1, <3>2
  <2>2. Cardinality(Of(P \cup {p}, stay)) = Cardinality(Of(P, stay)) + (IF stay = Stay(p) THEN 1 ELSE 0)
    <3>1. CASE stay = Stay(p)
      <4>1. Of(P \cup {p}, stay) = Of(P, stay) \cup {p} /\ p \notin Of(P, stay)
        BY <3>1
      <4>. HIDE DEF Of
      <4>2. Cardinality(Of(P, stay) \cup {p}) = Cardinality(Of(P, stay)) + 1
        BY <1>1, <4>1, FS_AddElement
      <4>. QED  BY <3>1, <4>1, <4>2
    <3>2. CASE stay # Stay(p)
      <4>1. Of(P \cup {p}, stay) = Of(P, stay)
        BY <3>2
      <4>. HIDE DEF Of
      <4>. QED  BY <1>1, <3>2, <4>1
    <3>. QED  BY <3>1, <3>2
  <2>3. C[stay] = Cardinality(Of(P \cup {p}, stay))
    BY <1>3
  <2>. QED  BY <2>1, <2>2, <2>3
<1>6. B \in [DOMAIN B -> Nat]
  <2>1. B = [stay \in DOMAIN B |-> B[stay]]
    BY DEF StaysOf
  <2>. HIDE DEF B, Of
  <2>2. \A stay \in DOMAIN B : B[stay] \in Nat
    BY <1>1, <1>2
  <2>. QED  BY <2>1, <2>2
<1>. HIDE DEF B, C, Of
<1>7. /\ DOMAIN Put(B, Stay(p)) = DOMAIN B \cup {Stay(p)}
      /\ \A stay \in DOMAIN B \cup {Stay(p)} :
            Put(B, Stay(p))[stay] = (IF stay \in DOMAIN B THEN B[stay] ELSE 0) + (IF stay = Stay(p) THEN 1 ELSE 0)
      /\ Put(B, Stay(p)) \in [DOMAIN B \cup {Stay(p)} -> Nat]
  BY <1>6, BagMore
<1>8. C = Put(B, Stay(p))
  <2>. DEFINE F == Put(B, Stay(p))
              d == Stay(p)
  <2>1. F = [stay \in DOMAIN F |-> F[stay]] /\ DOMAIN F = DOMAIN C
    BY <1>4, <1>7
  <2>2. \A stay \in DOMAIN C : C[stay] = F[stay]
    BY <1>4, <1>5, <1>7
  <2>. HIDE DEF F, d
  <2>3. C = F
    BY <1>3, <2>1, <2>2
  <2>. QED  BY <2>3 DEF F
<1>. QED  BY <1>8 DEF B, C

LEMMA StaysFinite ==
    ASSUME LogOK
    PROVE  /\ TrueStays \in SUBSET ((1..LastBefore) \X (1..LastBefore)) /\ LastBefore \in Nat
           /\ \A n : IsFiniteSet(Ended(n))
<1>1. LastBefore \in Nat
  BY BeforeIs
<1>2. ASSUME NEW p \in TrueStays PROVE p \in (1..LastBefore) \X (1..LastBefore)
  <2>1. PICK o \in Object : p \in Moves(o) \X Moves(o)
    BY DEF TrueStays
  <2>2. Moves(o) \in SUBSET (1..LastBefore)
    BY MovesAre
  <2>. QED  BY <2>1, <2>2
<1>3. IsFiniteSet(1..LastBefore)
  BY <1>1, FS_Interval
<1>4. IsFiniteSet((1..LastBefore) \X (1..LastBefore))
  BY <1>3, FS_Product
<1>5. \A n : Ended(n) \subseteq (1..LastBefore) \X (1..LastBefore)
  BY <1>2 DEF Ended
<1>. QED  BY <1>1, <1>2, <1>4, <1>5, FS_Subset

\* A stay ends at a move of its object, and began at the last one before.
LEMMA EndedNext ==
    ASSUME LogOK, NEW n \in 0..LastBefore - 1
    PROVE  LET o == lines[n + 1].id
               p == Leaving(o, n)
           IN  /\ p \notin Ended(n)
               /\ Ended(n + 1) = IF TrueState(o, n) # lines[n + 1].to /\ InWindow(lines[n + 1]) /\ Moved(o, n) # {}
                                 THEN Ended(n) \cup {p} ELSE Ended(n)
<1>. DEFINE o == lines[n + 1].id
            p == Leaving(o, n)
            ends == TrueState(o, n) # lines[n + 1].to /\ InWindow(lines[n + 1]) /\ Moved(o, n) # {}
<1>1. n \in Nat /\ LastBefore \in Nat /\ n + 1 \in Before /\ (n + 1) - 1 = n /\ n + 1 \in 1..Len(lines)
  BY BeforeIs
<1>2. o \in Object
  BY <1>1, LineTyped
<1>3. p[1] = Max(Moved(o, n)) /\ p[2] = n + 1
  BY DEF Leaving
<1>4. p \notin Ended(n)
  BY <1>1, <1>3 DEF Ended
<1>5. TrueStays \in SUBSET ((1..LastBefore) \X (1..LastBefore))
  BY StaysFinite
<1>6. n + 1 \in Moves(o) <=> TrueState(o, n) # lines[n + 1].to
  BY <1>1 DEF Moves
<1>7. ASSUME NEW q \in TrueStays, q[2] = n + 1 PROVE q = p /\ ends
  <2>1. PICK x \in Object : /\ q \in Moves(x) \X Moves(x) /\ q[1] < q[2] /\ InWindow(lines[q[2]])
                            /\ \A k \in Moves(x) : k \notin q[1] + 1..q[2] - 1
    BY <1>7 DEF TrueStays
  <2>2. x = o /\ TrueState(o, n) # lines[n + 1].to
    <3>1. n + 1 \in Moves(x)
      BY <1>7, <2>1
    <3>2. lines[n + 1].id = x
      BY <3>1 DEF Moves
    <3>. QED  BY <1>6, <3>1, <3>2
  <2>. HIDE DEF o, p
  <2>3. Moves(o) \in SUBSET (1..LastBefore)
    BY MovesAre
  <2>4. q[1] \in Moved(o, n)
    BY <1>1, <1>7, <2>1, <2>2, <2>3 DEF Moved
  <2>5. \A k \in Moved(o, n) : k <= q[1]
    <3>. SUFFICES ASSUME NEW k \in Moved(o, n) PROVE k <= q[1]
      OBVIOUS
    <3>1. k \in Moves(o) /\ k <= n /\ k \in 1..LastBefore /\ q[1] \in 1..LastBefore
      BY <2>3, <2>4 DEF Moved
    <3>2. k \notin q[1] + 1..n
      BY <1>1, <1>7, <2>1, <2>2, <3>1
    <3>. QED  BY <1>1, <3>1, <3>2
  <2>6. Moved(o, n) \subseteq Int
    BY <2>3 DEF Moved
  <2>7. Max(Moved(o, n)) = q[1]
    BY <2>4, <2>5, <2>6, MaxIs
  <2>8. q = <<q[1], q[2]>>
    BY <2>1
  <2>9. q = p
    BY <1>7, <2>7, <2>8 DEF p, Leaving
  <2>. QED  BY <1>7, <2>1, <2>2, <2>4, <2>9 DEF o
<1>8. ASSUME ends PROVE p \in TrueStays
  <2>. DEFINE m == Max(Moved(o, n))
  <2>1. n + 1 \in Moves(o) /\ InWindow(lines[n + 1]) /\ Moved(o, n) # {}
    BY <1>6, <1>8
  <2>. HIDE DEF o, ends
  <2>2. Moves(o) \in SUBSET (1..LastBefore) /\ Moved(o, n) \in SUBSET (1..n)
    BY <1>1, MovesAre
  <2>3. m \in Moved(o, n) /\ \A y \in Moved(o, n) : y <= m
    BY <1>1, <2>1, <2>2, MaxOf
  <2>4. m \in Moves(o) /\ m <= n /\ m \in 1..n
    BY <2>2, <2>3 DEF Moved
  <2>. HIDE DEF m
  <2>5. \A k \in Moves(o) : k \notin m + 1..(n + 1) - 1
    <3>. SUFFICES ASSUME NEW k \in Moves(o), k \in m + 1..(n + 1) - 1 PROVE FALSE
      OBVIOUS
    <3>1. k \in Moved(o, n)
      BY <1>1, <2>2 DEF Moved
    <3>. QED  BY <1>1, <2>2, <2>3, <2>4, <3>1
  <2>6. p[1] = m /\ p[2] = n + 1 /\ p \in Moves(o) \X Moves(o)
    BY <2>1, <2>4 DEF m, Leaving
  <2>. HIDE DEF p
  <2>7. /\ p[1] < p[2] /\ InWindow(lines[p[2]])
        /\ \A k \in Moves(o) : k \notin p[1] + 1..p[2] - 1
    BY <1>1, <2>1, <2>4, <2>5, <2>6
  <2>. QED  BY <1>2, <2>6, <2>7 DEF TrueStays
<1>9. \A q \in TrueStays : q[2] <= n + 1 <=> q[2] <= n \/ q[2] = n + 1
  BY <1>1, <1>5
<1>. HIDE DEF p, ends
<1>10. Ended(n + 1) = IF ends THEN Ended(n) \cup {p} ELSE Ended(n)
  <2>1. CASE ends
    <3>1. p \in TrueStays
      BY <1>8, <2>1
    <3>. QED  BY <1>1, <1>3, <1>7, <1>9, <2>1, <3>1 DEF Ended
  <2>2. CASE ~ends
    BY <1>7, <1>9, <2>2 DEF Ended
  <2>. QED  BY <2>1, <2>2
<1>. QED  BY <1>4, <1>10 DEF p, ends

StaysOK == stays = StaysOf(Ended(Seen))

LEMMA StaysStart == StatesInit => StaysOK
<1>. SUFFICES ASSUME StatesInit PROVE StaysOK
  OBVIOUS
<1>1. SeenInv /\ next = 1 /\ stays = EmptyBag
  BY SeenStart DEF StatesInit
<1>2. ~Done
  BY <1>1, StatesAssumption DEF Done
<1>3. Seen = 0 /\ LogOK
  BY <1>1, <1>2 DEF Seen, SeenInv
<1>4. TrueStays \in SUBSET ((1..LastBefore) \X (1..LastBefore)) /\ LastBefore \in Nat
  BY <1>3, StaysFinite
<1>5. Ended(0) = {}
  BY <1>4 DEF Ended
<1>6. StaysOf({}) = EmptyBag
  BY DEF StaysOf, EmptyBag, SetToBag
<1>. QED  BY <1>1, <1>3, <1>5, <1>6 DEF StaysOK

LEMMA StaysLast ==
    ASSUME lines' = lines, NEW n, Seen' = n
    PROVE  StaysOf(Ended(Seen))' = StaysOf(Ended(n))
<1>1. TrueStays' = TrueStays
  BY Lasting
<1>2. Ended(Seen)' = Ended(n)
  BY <1>1 DEF Ended
<1>3. \A p : Stay(p)' = Stay(p)
  BY DEF Stay
<1>. QED  BY <1>2, <1>3 DEF StaysOf

LEMMA StaysRead ==
    ASSUME SeenInv, StaysOK, ReadLine
    PROVE  StaysOK'
<1>. DEFINE e == lines[next]
            n == next - 1
            o == e.id
            p == Leaving(o, n)
<1>1. /\ next \in 1..LastBefore /\ LastBefore \in Nat
      /\ Seen = next - 1 /\ Seen' = next /\ lines' = lines /\ o \in Object /\ e.t \in Nat /\ LastBefore <= Len(lines)
  BY NextLine
<1>2. LogOK /\ n \in 0..LastBefore - 1 /\ n + 1 = next /\ n \in Nat
  BY <1>1 DEF SeenInv
<1>3. /\ p \notin Ended(n)
      /\ Ended(next) = IF TrueState(o, n) # e.to /\ InWindow(e) /\ Moved(o, n) # {}
                       THEN Ended(n) \cup {p} ELSE Ended(n)
  <2>. HIDE DEF n, p
  <2>. QED  BY <1>2, EndedNext DEF p
<1>4. state[o] = TrueState(o, n) /\ (Moved(o, n) = {} => entered[o] = Unsaid)
      /\ (Moved(o, n) # {} => entered[o] = lines[Max(Moved(o, n))].t /\ state[o] = lines[Max(Moved(o, n))].to)
  BY <1>1 DEF SeenInv, EnteredOK
<1>5. Moved(o, n) # {} => entered[o] # Unsaid
  <2>. SUFFICES ASSUME Moved(o, n) # {} PROVE entered[o] # Unsaid
    OBVIOUS
  <2>. HIDE DEF o
  <2>1. Moved(o, n) \in SUBSET (1..n)
    BY <1>2, MovesAre
  <2>2. Max(Moved(o, n)) \in 1..n
    BY <1>2, <2>1, MaxOf
  <2>3. Max(Moved(o, n)) \in 1..Len(lines)
    BY <1>1, <1>2, <2>2, BeforeIs
  <2>4. lines[Max(Moved(o, n))].t \in Nat
    BY <1>2, <2>3, LineTyped
  <2>. QED  BY <1>4, <2>4, StatesAssumption
<1>6. Track(e) /\ stays = StaysOf(Ended(n))
  BY <1>1 DEF ReadLine, StaysOK
<1>7. stays' = StaysOf(Ended(next))
  <2>1. CASE state[o] # e.to /\ InWindow(e) /\ Moved(o, n) # {}
    <3>1. stays' = stays (+) SetToBag({[state |-> state[o], time |-> e.t - entered[o]]})
      BY <1>5, <1>6, <2>1 DEF Track
    <3>2. Stay(p) = [state |-> state[o], time |-> e.t - entered[o]]
      <4>1. p[1] = Max(Moved(o, n)) /\ p[2] = next
        BY <1>2 DEF Leaving
      <4>. HIDE DEF p
      <4>. QED  BY <1>4, <2>1, <4>1 DEF Stay
    <3>3. Ended(next) = Ended(n) \cup {p}
      BY <1>3, <1>4, <2>1
    <3>4. IsFiniteSet(Ended(n))
      BY <1>2, StaysFinite
    <3>5. StaysOf(Ended(n) \cup {p}) = Put(StaysOf(Ended(n)), Stay(p))
      BY <1>3, <3>4, OneMoreStay
    <3>. HIDE DEF p, n
    <3>. QED  BY <1>6, <3>1, <3>2, <3>3, <3>5 DEF Put
  <2>2. CASE ~(state[o] # e.to /\ InWindow(e) /\ Moved(o, n) # {})
    <3>1. stays' = stays
      BY <1>4, <1>6, <2>2 DEF Track
    <3>. QED  BY <1>3, <1>4, <1>6, <2>2, <3>1
  <2>. QED  BY <2>1, <2>2
<1>8. StaysOf(Ended(Seen))' = StaysOf(Ended(next))
  BY <1>1, StaysLast
<1>. QED  BY <1>7, <1>8 DEF StaysOK

LEMMA StaysStays ==
    ASSUME StaysOK, lines' = lines, Seen' = Seen, stays' = stays
    PROVE  StaysOK'
<1>1. StaysOf(Ended(Seen))' = StaysOf(Ended(Seen))
  BY StaysLast
<1>. QED  BY <1>1 DEF StaysOK

-----------------------------------------------------------------------------
(* The two ways to see the stays                                           *)

LEMMA TableAgrees == LogOK => StaysAgree
<1>. SUFFICES ASSUME LogOK, \A i \in Before : lines[i].from = TrueState(lines[i].id, i - 1)
              PROVE  {p \in StateStays : InWindow(lines[p[2]])} = TrueStays
  BY DEF StaysAgree
<1>1. LastBefore \in Nat /\ LastBefore <= Len(lines) /\ Before = 1..LastBefore /\ Len(lines) \in Nat /\ DOMAIN lines = 1..Len(lines)
  BY BeforeIs
<1>2. ASSUME NEW i \in Before, NEW o PROVE i \in Moves(o) <=> i \in StayLines /\ lines[i].id = o
  BY <1>1 DEF Moves, StayLines
<1>3. \A o : Moves(o) \subseteq Before
  BY DEF Moves
<1>4. ASSUME NEW p \in StateStays, InWindow(lines[p[2]]) PROVE p \in TrueStays
  <2>. DEFINE o == lines[p[1]].id
  <2>1. /\ p \in StayLines \X StayLines /\ p[1] < p[2] /\ lines[p[2]].id = o
        /\ \A k \in StayLines : k \in p[1] + 1..p[2] - 1 => lines[k].id # o
    BY DEF StateStays
  <2>2. p[1] \in 1..Len(lines) /\ p[2] \in 1..Len(lines)
    BY <1>1, <2>1 DEF StayLines
  <2>3. p[2] \in Before
    <3>1. lines[p[2]].t < WindowEnd
      <4>1. lines[p[2]].t \in Nat
        BY <2>2, LineTyped
      <4>. QED  BY <1>4, <4>1, StatesAssumption DEF InWindow
    <3>. QED  BY <1>1, <2>2, <3>1 DEF Before
  <2>4. p[1] \in Before
    BY <1>1, <2>1, <2>2, <2>3
  <2>5. o \in Object
    BY <2>2, LineTyped
  <2>. HIDE DEF o
  <2>6. p \in Moves(o) \X Moves(o)
    BY <1>2, <2>1, <2>3, <2>4 DEF o
  <2>7. \A k \in Moves(o) : k \notin p[1] + 1..p[2] - 1
    BY <1>2, <1>3, <2>1
  <2>. QED  BY <1>4, <2>1, <2>5, <2>6, <2>7 DEF TrueStays
<1>5. ASSUME NEW p \in TrueStays PROVE p \in StateStays /\ InWindow(lines[p[2]])
  <2>1. PICK o \in Object : /\ p \in Moves(o) \X Moves(o) /\ p[1] < p[2] /\ InWindow(lines[p[2]])
                            /\ \A k \in Moves(o) : k \notin p[1] + 1..p[2] - 1
    BY DEF TrueStays
  <2>2. p[1] \in Before /\ p[2] \in Before /\ p[1] \in Moves(o) /\ p[2] \in Moves(o)
    BY <1>3, <2>1
  <2>3. p[1] \in StayLines /\ p[2] \in StayLines /\ lines[p[1]].id = o /\ lines[p[2]].id = o
    BY <1>2, <2>2
  <2>4. ASSUME NEW k \in StayLines, k \in p[1] + 1..p[2] - 1 PROVE lines[k].id # o
    <3>1. k \in Before
      <4>1. p[1] \in 1..LastBefore /\ p[2] \in 1..LastBefore
        BY <1>1, <2>2
      <4>. QED  BY <1>1, <2>4, <4>1
    <3>. QED  BY <1>2, <2>1, <2>4, <3>1
  <2>5. p \in StayLines \X StayLines
    BY <2>1, <2>3
  <2>. QED  BY <2>1, <2>3, <2>4, <2>5 DEF StateStays
<1>. QED  BY <1>4, <1>5

-----------------------------------------------------------------------------
(* The theorem                                                             *)

StatesInv == SeenInv /\ PeaksOK /\ OccupancyOK /\ TransOK /\ StaysOK

LEMMA StatesStart == StatesInit => StatesInv
BY SeenStart, PeaksStart, OccupancyStart, TransStart, StaysStart DEF StatesInv

LEMMA StatesKept == StatesInv /\ [StatesNext]_statesVars => StatesInv'
<1>. SUFFICES ASSUME StatesInv, [StatesNext]_statesVars PROVE StatesInv'
  OBVIOUS
<1>. USE DEF StatesInv
<1>1. CASE ReadLine
  BY <1>1, SeenRead, PeaksRead, OccupancyRead, TransRead, StaysRead
<1>2. CASE Finish
  <2>1. lines' = lines /\ Seen' = Seen /\ transitions' = transitions /\ inconsistent' = inconsistent /\ stays' = stays
    BY <1>2, Ending DEF Finish
  <2>. QED  BY <1>2, <2>1, SeenFinish, PeaksFinish, OccupancyFinish, TransStays, StaysStays
<1>3. CASE UNCHANGED statesVars
  <2>1. /\ lines' = lines /\ next' = next /\ state' = state /\ entered' = entered /\ counts' = counts
        /\ peaks' = peaks /\ occupancy' = occupancy /\ transitions' = transitions /\ stays' = stays
        /\ inconsistent' = inconsistent
    BY <1>3 DEF statesVars
  <2>2. Seen' = Seen /\ Done' = Done /\ Early' = Early
    BY <2>1, Lasting DEF Seen, Done
  <2>3. SeenInv'
    BY <2>1, <2>2, SeenStays
  <2>4. TransOK' /\ StaysOK'
    BY <2>1, <2>2, TransStays, StaysStays
  <2>5. \A k : TrueCounts(k)' = TrueCounts(k)
    BY <2>1, Lasting
  <2>6. PeaksOK'
    <3>1. \A s : Peak(s, Seen, peaks[s])' = Peak(s, Seen, peaks[s])
      BY <2>1, <2>2, <2>5 DEF Peak
    <3>. QED  BY <2>1, <2>2, <3>1 DEF PeaksOK
  <2>7. OccupancyOK'
    <3>1. \A m : TrueCounts(Upto(m))' = TrueCounts(Upto(m))
      BY <2>1 DEF TrueCounts, CountsOf, TrueState, StateAtStart, FirstOf, Upto, Before
    <3>. QED  BY <2>1, <2>2, <3>1 DEF OccupancyOK, Moments
  <2>. QED  BY <2>3, <2>4, <2>6, <2>7
<1>. QED  BY <1>1, <1>2, <1>3 DEF StatesNext

LEMMA StatesHold == StatesInv => StatesTrue
<1>. SUFFICES ASSUME StatesInv PROVE StatesTrue
  OBVIOUS
<1>. USE DEF StatesInv
<1>1. LogOK /\ LastBefore \in Nat /\ Seen \in 0..LastBefore /\ Early \in 0..LastBefore
      /\ (~Done => next = Seen + 1) /\ counts = TrueCounts(Seen) /\ Len(lines) \in Nat
      /\ DOMAIN lines = 1..Len(lines) /\ Len(lines) <= MaxLines
  BY SeenIs, BeforeIs DEF SeenInv, LogOK
<1>2. CountsTrue
  <2>. SUFFICES ASSUME next \in DOMAIN lines PROVE counts = TrueCounts(next - 1)
    BY DEF CountsTrue
  <2>1. ~Done
    BY <1>1, StatesAssumption DEF Done
  <2>2. next - 1 = Seen
    BY <1>1, <2>1
  <2>. QED  BY <1>1, <2>2
<1>3. MetricsTrue
  <2>. SUFFICES ASSUME Done PROVE MetricsTrue!2
    BY DEF MetricsTrue
  <2>1. Seen = LastBefore /\ Seen >= Early
    BY <1>1 DEF Seen
  <2>2. ASSUME NEW s \in State
        PROVE  peaks[s] = Max({TrueCounts(n)[s] : n \in Upto(WindowStart - 1)..Cardinality(Before)})
    <3>. DEFINE V == {TrueCounts(n)[s] : n \in Early..LastBefore}
    <3>1. Peak(s, LastBefore, peaks[s])
      BY <2>1 DEF PeaksOK
    <3>2. peaks[s] \in V /\ \A v \in V : v <= peaks[s]
      BY <3>1 DEF Peak
    <3>3. V \subseteq Int
      <4>1. \A n : TrueCounts(n)[s] \in Nat
        BY CountsTyped DEF TrueCounts
      <4>. QED  BY <4>1
    <3>. HIDE DEF V
    <3>4. Max(V) = peaks[s]
      BY <3>2, <3>3, MaxIs
    <3>. QED  BY <3>4 DEF V, Early, LastBefore
  <2>3. DOMAIN occupancy = Moments /\ \A moment \in Moments : occupancy[moment] = TrueCounts(Upto(moment))
    BY DEF OccupancyOK
  <2>4. inconsistent = 0 => \A s \in State :
            counts[s] = TrueCounts(Upto(WindowStart - 1))[s] + Passing(2, s) - Passing(1, s)
    BY <1>1, <2>1 DEF TransOK, Passing, BagToSet, SideTotal, Early
  <2>5. Ended(LastBefore) = TrueStays
    <3>1. TrueStays \in SUBSET ((1..LastBefore) \X (1..LastBefore))
      BY <1>1, StaysFinite
    <3>. QED  BY <1>1, <3>1 DEF Ended
  <2>6. stays = [stay \in {Stay(p) : p \in TrueStays} |-> Cardinality({p \in TrueStays : Stay(p) = stay})]
    BY <2>1, <2>5 DEF StaysOK, StaysOf
  <2>. QED  BY <2>2, <2>3, <2>4, <2>6
<1>4. StaysAgree
  BY <1>1, TableAgrees
<1>. QED  BY <1>2, <1>3, <1>4 DEF StatesTrue

\* What metrics() says of the objects is what the lines of the log say of them:
\* their numbers at every line, the peaks and the samples of the window, the
\* transitions and the stays; and where every line says the state before, the
\* table state_stays has the same stays (states.rs:604).
THEOREM StatesAreTrue == StatesSpec => []StatesTrue
<1>. QED  BY StatesStart, StatesKept, StatesHold, PTL DEF StatesSpec
===============================================================================
